----------------------------- MODULE MCPromises -----------------------------
(***************************************************************************)
(* Small instances of the subsystems that promise something in the end,    *)
(* and of the sales of the stores.  They share no state in the models, so  *)
(* one run of TLC checks them all: a behaviour picks one of Subsystems and *)
(* takes its steps, the others stay as they begin.                         *)
(***************************************************************************)
EXTENDS Requests, PosSales, LegacyLedger, Outbox, TLC

CONSTANTS
    Subsystems,                   \* those a behaviour may pick
    w1, w2, w3, s1, s2, kw, k1, k2  \* clicks and keys of Requests

VARIABLE picked

(* One form sent three times, and two buttons of one page. *)
ClickBodies == (w1 :> {1}) @@ (w2 :> {1, 2}) @@ (w3 :> {1}) @@ (s1 :> {1}) @@ (s2 :> {1})
ClickKeys == (w1 :> kw) @@ (w2 :> kw) @@ (w3 :> kw) @@ (s1 :> k1) @@ (s2 :> k2)
ClickRoutes == (w1 :> "orders/submit-new") @@ (w2 :> "orders/submit-new")
            @@ (w3 :> "orders/submit-new") @@ (s1 :> "settlements") @@ (s2 :> "auto-match")
ClickScreens == {{w1, w2, w3}, {s1, s2}}

PromisesInit ==
    /\ picked \in Subsystems
    /\ RequestsInit /\ PosInit /\ LedgerInit /\ Init
    \* one beginning for the ledger at rest
    /\ picked # "ledger" => \A o \in NativeOrders : order[o].status = Absent

OthersRest ==
    /\ picked # "requests" => UNCHANGED requestVars
    /\ picked # "pos" => UNCHANGED posVars
    /\ picked # "ledger" => UNCHANGED ledgerVars
    /\ picked # "outbox" => UNCHANGED vars

PromisesNext ==
    /\ UNCHANGED picked /\ OthersRest
    /\ \/ picked = "requests" /\ RequestsNext
       \/ picked = "pos" /\ PosNext
       \/ picked = "ledger" /\ LedgerNext
       \/ picked = "outbox" /\ Next

allVars == <<picked, requestVars, posVars, ledgerVars, vars>>

(* The fairness of each module, when it is the one that is picked. *)
PromisesFairness ==
    /\ WF_requestVars(picked = "requests" /\ RejectStepUp)
    /\ WF_ledgerVars(picked = "ledger" /\ Synchronise("scheduler"))
    /\ \A w \in Workers : WF_vars(picked = "outbox" /\ WorkerStep(w))
    /\ \A e \in Events : /\ WF_vars(picked = "outbox" /\ LeaseExpires(e))
                         /\ WF_vars(picked = "outbox" /\ RetryBecomesDue(e))

PromisesSpec == PromisesInit /\ [][PromisesNext]_allVars /\ PromisesFairness
=============================================================================
