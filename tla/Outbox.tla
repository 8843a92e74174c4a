------------------------------- MODULE Outbox -------------------------------
(***************************************************************************)
(* The outbox: rows queued in the transaction of the operation that causes *)
(* them (packages/db/src/postgres-repository.ts) and the workers that      *)
(* lease, handle and settle them in batches (apps/worker/src/worker.ts).   *)
(*                                                                         *)
(* Each SQL statement is atomic and commits on its own, so every statement *)
(* of claimOutbox and the final statement of completeOutbox is an action.  *)
(* The clock is abstracted: a lease may expire and a retry may become due  *)
(* at any time.  The random lease token is the number of the claim.        *)
(***************************************************************************)
EXTENDS Naturals, FiniteSets

CONSTANTS
    Events,         \* outbox events
    Workers,        \* worker processes
    None,           \* no event
    MaxAttempts,    \* OUTBOX_MAX_ATTEMPTS
    BatchSize,      \* WORKER_BATCH_SIZE
    MaxRequeues,    \* bound: manual requeues explored
    MaxAborts       \* bound: crashes and database errors of workers

ASSUME AttemptsAssumption == MaxAttempts \in Nat \ {0}
ASSUME BatchAssumption == BatchSize \in Nat \ {0}
ASSUME NoEventAssumption == None \notin Events

VARIABLES
    row,        \* row[e]: the row of outbox_events
    claims,     \* claims[e]: how often e was claimed; numbers the tokens
    worker,     \* worker[w]: where processOnce is, with its current claim
    batch,      \* batch[w]: the claims it has not handled yet
    ran,        \* history: the claims whose handler ended without a message of error
    requeues,   \* number of manual requeues
    aborts      \* number of worker crashes and database errors

vars == <<row, claims, worker, batch, ran, requeues, aborts>>

Statuses == {"absent", "pending", "processing", "failed", "completed",
             "dead_letter"}
Steps == {"idle", "swept", "working", "handling", "returned", "threw"}

Rows == [status : Statuses, attempts : Nat, due : BOOLEAN,
         holder : Workers \cup {None}, token : Nat, leased : BOOLEAN]

(* A row without a lease.                                                   *)
Unleased(status, attempts, due) ==
    [status |-> status, attempts |-> attempts, due |-> due,
     holder |-> None, token |-> 0, leased |-> FALSE]

At(step, e, k) == [step |-> step, event |-> e, token |-> k]
Resting(step) == At(step, None, 0)

Goto(w, s) == worker' = [worker EXCEPT ![w] = s]

Init ==
    /\ row = [e \in Events |-> Unleased("absent", 0, FALSE)]
    /\ claims = [e \in Events |-> 0]
    /\ worker = [w \in Workers |-> Resting("idle")]
    /\ batch = [w \in Workers |-> {}]
    /\ ran = {}
    /\ requeues = 0
    /\ aborts = 0

-----------------------------------------------------------------------------
(* The queue as the API sees it.                                            *)

Enqueue(e) ==
    /\ row[e].status = "absent"
    /\ row' = [row EXCEPT ![e] = Unleased("pending", 0, TRUE)]
    /\ UNCHANGED <<claims, worker, batch, ran, requeues, aborts>>

RequeueDeadLetter(e) ==
    /\ requeues < MaxRequeues
    /\ row[e].status = "dead_letter"
    /\ row' = [row EXCEPT ![e] = Unleased("pending", 0, TRUE)]
    /\ requeues' = requeues + 1
    /\ UNCHANGED <<claims, worker, batch, ran, aborts>>

-----------------------------------------------------------------------------
(* Time.                                                                    *)

LeaseExpires(e) ==
    /\ row[e].leased
    /\ row' = [row EXCEPT ![e].leased = FALSE]
    /\ UNCHANGED <<claims, worker, batch, ran, requeues, aborts>>

RetryBecomesDue(e) ==
    /\ row[e].status = "failed"
    /\ ~row[e].due
    /\ row' = [row EXCEPT ![e].due = TRUE]
    /\ UNCHANGED <<claims, worker, batch, ran, requeues, aborts>>

-----------------------------------------------------------------------------
(* claimOutbox: two statements.                                             *)

Queued(e) == row[e].status \in {"pending", "failed"}
Orphaned(e) == row[e].status = "processing" /\ ~row[e].leased

Exhausted(e) == row[e].attempts >= MaxAttempts /\ (Queued(e) \/ Orphaned(e))

SweepDeadLetters(w) ==
    /\ worker[w].step = "idle"
    /\ row' = [e \in Events |-> IF Exhausted(e)
                                THEN Unleased("dead_letter", row[e].attempts, row[e].due)
                                ELSE row[e]]
    /\ Goto(w, Resting("swept"))
    /\ UNCHANGED <<claims, batch, ran, requeues, aborts>>

(* A slip of Claimable: expired leases are never taken over.                 *)
ClaimableQueued(e) == row[e].attempts < MaxAttempts /\ Queued(e) /\ row[e].due

Claimable(e) ==
    /\ row[e].attempts < MaxAttempts
    /\ (Queued(e) /\ row[e].due) \/ Orphaned(e)

NextToken(e) == claims[e] + 1

Leased(w, e) ==
    [status |-> "processing", attempts |-> row[e].attempts + 1,
     due |-> row[e].due, holder |-> w, token |-> NextToken(e), leased |-> TRUE]

(* Any batch within the limit; the order by due time is abstracted.         *)
ClaimOutbox(w, S) ==
    /\ worker[w].step = "swept"
    /\ \A e \in S : Claimable(e)
    /\ Cardinality(S) <= BatchSize
    /\ S = {} => \A e \in Events : ~Claimable(e)
    /\ row' = [e \in Events |-> IF e \in S THEN Leased(w, e) ELSE row[e]]
    /\ claims' = [e \in Events |-> IF e \in S THEN NextToken(e) ELSE claims[e]]
    /\ batch' = [batch EXCEPT ![w] = {<<e, NextToken(e)>> : e \in S}]
    /\ Goto(w, Resting("working"))
    /\ UNCHANGED <<ran, requeues, aborts>>

-----------------------------------------------------------------------------
(* processOnce: the events of the batch one after another.                  *)

HandleNext(w) ==
    /\ worker[w].step = "working"
    /\ \E c \in batch[w] :
         /\ batch' = [batch EXCEPT ![w] = batch[w] \ {c}]
         /\ Goto(w, At("handling", c[1], c[2]))
    /\ UNCHANGED <<row, claims, ran, requeues, aborts>>

BatchDone(w) ==
    /\ worker[w].step = "working"
    /\ batch[w] = {}
    /\ Goto(w, Resting("idle"))
    /\ UNCHANGED <<row, claims, batch, ran, requeues, aborts>>

(* The handler returns - or throws an error with an empty message, which    *)
(* completeOutbox, asking if (error), takes for none at all.                *)
HandlerReturns(w) ==
    /\ worker[w].step = "handling"
    /\ ran' = ran \cup {<<worker[w].event, worker[w].token>>}
    /\ Goto(w, At("returned", worker[w].event, worker[w].token))
    /\ UNCHANGED <<row, claims, batch, requeues, aborts>>

(* The handler throws, or completeOutbox does after the handler returned.   *)
HandlerThrows(w) ==
    /\ worker[w].step \in {"handling", "returned"}
    /\ Goto(w, At("threw", worker[w].event, worker[w].token))
    /\ UNCHANGED <<row, claims, batch, ran, requeues, aborts>>

OwnsLease(w) ==
    LET r == row[worker[w].event] IN
    /\ r.status = "processing"
    /\ r.holder = w
    /\ r.token = worker[w].token
    /\ r.leased

CompleteOutbox(w) ==
    LET e == worker[w].event IN
    /\ worker[w].step = "returned"
    /\ row' = IF OwnsLease(w)
              THEN [row EXCEPT ![e] = Unleased("completed", row[e].attempts, row[e].due)]
              ELSE row
    /\ Goto(w, Resting("working"))
    /\ UNCHANGED <<claims, batch, ran, requeues, aborts>>

Failed(e) ==
    IF row[e].attempts >= MaxAttempts
    THEN Unleased("dead_letter", row[e].attempts, FALSE)
    ELSE Unleased("failed", row[e].attempts, FALSE)

(* That the last attempt failed is put on the audit chain in a commit of its*)
(* own, which is left out: an error there ends the cycle, as Abort does.    *)
FailOutbox(w) ==
    LET e == worker[w].event IN
    /\ worker[w].step = "threw"
    /\ row' = IF OwnsLease(w) THEN [row EXCEPT ![e] = Failed(e)] ELSE row
    /\ Goto(w, Resting("working"))
    /\ UNCHANGED <<claims, batch, ran, requeues, aborts>>

(* The process dies, or an error leaves processOnce: the rest of the batch  *)
(* is forgotten and its leases run out.                                     *)
Abort(w) ==
    /\ aborts < MaxAborts
    /\ worker[w].step # "idle"
    /\ Goto(w, Resting("idle"))
    /\ batch' = [batch EXCEPT ![w] = {}]
    /\ aborts' = aborts + 1
    /\ UNCHANGED <<row, claims, ran, requeues>>

WorkerStep(w) ==
    \/ SweepDeadLetters(w)
    \/ \E S \in SUBSET Events : ClaimOutbox(w, S)
    \/ HandleNext(w)
    \/ BatchDone(w)
    \/ HandlerReturns(w)
    \/ HandlerThrows(w)
    \/ CompleteOutbox(w)
    \/ FailOutbox(w)

EventStep(e) == Enqueue(e) \/ RequeueDeadLetter(e)
TimeStep(e) == LeaseExpires(e) \/ RetryBecomesDue(e)

Next ==
    \/ \E e \in Events : EventStep(e) \/ TimeStep(e)
    \/ \E w \in Workers : WorkerStep(w) \/ Abort(w)

Spec == Init /\ [][Next]_vars

(* Workers keep polling, every provider call of a handler is cut off by     *)
(* withTimeout, and time passes.                                            *)
Fairness ==
    /\ \A w \in Workers : WF_vars(WorkerStep(w))
    /\ \A e \in Events : WF_vars(LeaseExpires(e)) /\ WF_vars(RetryBecomesDue(e))

FairSpec == Spec /\ Fairness
-----------------------------------------------------------------------------
(* Properties.                                                              *)

Held(w) == batch[w] \cup (IF worker[w].event \in Events
                          THEN {<<worker[w].event, worker[w].token>>} ELSE {})

TypeOK ==
    /\ row \in [Events -> Rows]
    /\ claims \in [Events -> Nat]
    /\ worker \in [Workers -> [step : Steps, event : Events \cup {None}, token : Nat]]
    /\ \A w \in Workers : worker[w].step \in {"handling", "returned", "threw"}
                          => worker[w].event \in Events
    /\ batch \in [Workers -> SUBSET (Events \X Nat)]
    /\ ran \in SUBSET (Events \X Nat)
    /\ requeues \in Nat
    /\ aborts \in Nat

(* Fencing: an event counts as done only if the handler of its latest claim *)
(* returned; no report of a worker whose lease was taken over settles it.   *)
CompletedByLatestClaim ==
    \A e \in Events : row[e].status = "completed" => <<e, claims[e]>> \in ran

(* An event is given up only after the full number of attempts since it was *)
(* queued or requeued, and never tried more often, crashes included.        *)
GivenUpOnlyExhausted ==
    \A e \in Events :
      /\ row[e].status = "dead_letter" => row[e].attempts = MaxAttempts
      /\ row[e].attempts <= MaxAttempts

(* A lease under way is not handed to another claim; it has to run out.     *)
LeaseNotStolen ==
    [][\A e \in Events : row[e].leased /\ row'[e].leased
                         => row'[e].token = row[e].token]_vars

(* No two workers ever hold the same claim.                                 *)
ClaimsAreExclusive ==
    \A v, w \in Workers : v # w => Held(v) \cap Held(w) = {}

(* What makes these properties inductive: tokens come from the claim        *)
(* counter, a lease belongs to the latest claim, and a worker about to      *)
(* report success has run the handler of an event that was queued.          *)
LeaseOfLatestClaim ==
    \A e \in Events :
      /\ row[e].status = "processing" => row[e].token = claims[e]
      /\ row[e].leased => row[e].status = "processing"

ReturnedHasRun ==
    \A w \in Workers : worker[w].step = "returned"
                       => <<worker[w].event, worker[w].token>> \in ran

HeldWasClaimed ==
    \A w \in Workers : \A c \in Held(w) :
      row[c[1]].status # "absent" /\ c[2] <= claims[c[1]]

OutboxInv ==
    /\ TypeOK
    /\ LeaseOfLatestClaim
    /\ ReturnedHasRun
    /\ HeldWasClaimed
    /\ CompletedByLatestClaim
    /\ GivenUpOnlyExhausted
    /\ ClaimsAreExclusive

(* The outbox implements the delivery it promises.                          *)
DeliveryState(e) ==
    CASE row[e].status = "absent" -> "absent"
      [] row[e].status = "completed" -> "done"
      [] row[e].status = "dead_letter" -> "given_up"
      [] OTHER -> "waiting"

Delivery == INSTANCE EventDelivery
              WITH state <- [e \in Events |-> DeliveryState(e)],
                   handled <- {e \in Events : \E c \in ran : c[1] = e}

DeliverySpec == Delivery!Spec
DeliverySafety == Delivery!Safety
=============================================================================
