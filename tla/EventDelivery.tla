--------------------------- MODULE EventDelivery ---------------------------
(***************************************************************************)
(* What the outbox promises to those who queue an event: it is handled at  *)
(* least once before it counts as done, it may be given up, an event given *)
(* up can be queued again, and no waiting event is forgotten.              *)
(***************************************************************************)
CONSTANT Events

VARIABLES
    state,      \* state[e]: absent, waiting, done or given_up
    handled     \* the events whose handler has ended without a message of error

vars == <<state, handled>>

Init == /\ state = [e \in Events |-> "absent"]
        /\ handled = {}

Queue(e) == /\ state[e] = "absent"
            /\ state' = [state EXCEPT ![e] = "waiting"]
            /\ UNCHANGED handled

(* At least once: a handler may end again, even after the event is settled. *)
Handle(e) == /\ state[e] # "absent"
             /\ handled' = handled \cup {e}
             /\ UNCHANGED state

Done(e) == /\ state[e] = "waiting"
           /\ e \in handled
           /\ state' = [state EXCEPT ![e] = "done"]
           /\ UNCHANGED handled

GiveUp(S) == /\ \A e \in S : state[e] = "waiting"
             /\ state' = [e \in Events |-> IF e \in S THEN "given_up" ELSE state[e]]
             /\ UNCHANGED handled

Requeue(e) == /\ state[e] = "given_up"
              /\ state' = [state EXCEPT ![e] = "waiting"]
              /\ UNCHANGED handled

Next == \/ \E e \in Events : Queue(e) \/ Handle(e) \/ Done(e) \/ Requeue(e)
        \/ \E S \in SUBSET Events : GiveUp(S)

Safety == Init /\ [][Next]_vars

Settles == \A e \in Events : state[e] = "waiting" ~> state[e] \in {"done", "given_up"}

Spec == Safety /\ Settles
=============================================================================
