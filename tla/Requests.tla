------------------------------ MODULE Requests ------------------------------
(***************************************************************************)
(* A change asked for in the browser: the API client with its step-up      *)
(* dialog (apps/web/src/api/client.ts, step-up-coordinator.ts, App.tsx)    *)
(* and the idempotency key on the server (apps/api/src/idempotency.ts, the *)
(* routes of app.ts, the idempotency_keys table of postgres-repository.ts).*)
(*                                                                         *)
(* Most buttons take a new key for every click; the order form keeps one   *)
(* key for as long as it is open, so a click after a failed one sends it   *)
(* again, with the same cart or another.  A call whose connection breaks   *)
(* fails in the browser while its request may still be on its way or being *)
(* served.  The operation itself is abstract: it is refused for want of a  *)
(* recent step-up, fails on a rule of its own, or has its effect.          *)
(* A reservation is up to three statements, each a step of its own, and    *)
(* begins again when the row it was about vanished meanwhile.              *)
(***************************************************************************)
EXTENDS Naturals, Sequences, FiniteSets

CONSTANTS
    Clicks,      \* clicks on buttons that change something
    KeyOf,       \* the idempotency key each click sends
    RouteOf,     \* the route each click asks for
    BodiesOf,    \* what the fields behind a click may hold when it is sent
    Screens,     \* sets of clicks that one page offers
    Servers,     \* requests served at once
    MaxCrashes,  \* bound: crashes of the API process
    MaxExpiries  \* bound: rows of one key that outlive their day

VARIABLES
    click,          \* state of each click in the browser
    generation,     \* step-ups completed (stepUpGeneration)
    pendingStepUp,  \* clicks that wait on the one pending promise
    passwordSent,   \* the password of the dialog is on its way
    steppedUp,      \* the session cookie carries a recent step-up
    mounted,        \* the page is alive and its requester registered
    wire,           \* requests on their way to the server
    answers,        \* answers on their way back
    serving,        \* the transaction of each request being served
    keyRow,         \* committed rows of idempotency_keys
    applied,        \* bodies applied under each key (history)
    expiries,       \* rows of each key that have expired (history)
    apiCrashes

browserVars == <<click, generation, pendingStepUp, passwordSent, steppedUp, mounted>>
serverVars == <<serving, keyRow, applied, expiries, apiCrashes>>
requestVars == <<browserVars, wire, answers, serverVars>>

Bodies == UNION {BodiesOf[c] : c \in Clicks}
Keys == {KeyOf[c] : c \in Clicks}

AccountRoutes == {"actors/create", "actors/deactivate", "actors/reset", "actors/role",
                  "access-policy", "menu-order"}
OrderRoutes ==
    {"orders", "orders/submit-new", "submit", "change-request", "resubmit", "cancel",
     "reject", "approve", "shipments", "dispatch", "proof-upload", "deliver"}
MoneyRoutes ==
    {"auto-match", "manual-match", "reverse-match", "bank-sync", "settlements",
     "settlements/review", "settlements/approve", "invoices", "invoices/review",
     "invoices/modify", "invoices/approve", "invoices/retry", "outbox/requeue"}

\* The routes whose operation begins with assertRecentStepUp.
StepUpRoutes == (AccountRoutes \union MoneyRoutes) \ {"invoices/approve"}

ASSUME RouteAssumption ==
    RouteOf \in [Clicks -> AccountRoutes \union OrderRoutes \union MoneyRoutes]

Request == [click : Clicks, try : 1 .. 2, fresh : BOOLEAN, body : Bodies]
NoRow == [id |-> 0]
NotServing == [at |-> "idle"]

-----------------------------------------------------------------------------
(* The browser.                                                            *)

Ready == [st |-> "ready"]

\* The button of a form is disabled while a click on it is pending, and the
\* form is gone after one that succeeded.
FormOpen(c) ==
    \A d \in Clicks \ {c} : KeyOf[d] = KeyOf[c] => click[d].st \in {"absent", "ready", "failed"}

Sent(c, n, body) ==
    [st |-> "sent", try |-> n, body |-> body, observed |-> generation]

RequestOf(c, n, body) == [click |-> c, try |-> n, fresh |-> steppedUp, body |-> body]

Press(c) ==
    /\ mounted /\ click[c] = Ready /\ FormOpen(c)
    /\ \E body \in BodiesOf[c] :
         /\ click' = [click EXCEPT ![c] = Sent(c, 1, body)]
         /\ wire' = wire \union {RequestOf(c, 1, body)}
    /\ UNCHANGED <<generation, pendingStepUp, passwordSent, steppedUp, mounted, answers,
                   serverVars>>

Settle(c, st) == click' = [click EXCEPT ![c] = [st |-> st]]

AnswerOf(c) == {a \in answers : a.click = c /\ click[c].st = "sent" /\ a.try = click[c].try}

Finish(c) ==
    \E a \in AnswerOf(c) :
        /\ a.result # "STEP_UP_REQUIRED" \/ click[c].try = 2
        /\ Settle(c, IF a.result = "ok" THEN "done" ELSE "failed")
        /\ answers' = answers \ {a}
        /\ UNCHANGED <<generation, pendingStepUp, passwordSent, steppedUp, mounted, wire,
                       serverVars>>

\* Variant: every refused call opens a dialog, and a promise, of its own.
JoinAlone(c) == pendingStepUp' = {c}

Join(c) == pendingStepUp' = pendingStepUp \union {c}

\* Nobody has stepped up since the call was sent: wait for the dialog.
AskStepUp(c) ==
    \E a \in AnswerOf(c) :
        /\ a.result = "STEP_UP_REQUIRED" /\ click[c].try = 1
        /\ generation = click[c].observed
        /\ IF mounted
           THEN /\ click' = [click EXCEPT ![c].st = "waiting"]
                /\ Join(c)
           ELSE /\ Settle(c, "failed")
                /\ UNCHANGED pendingStepUp
        /\ answers' = answers \ {a}
        /\ UNCHANGED <<generation, passwordSent, steppedUp, mounted, wire, serverVars>>

\* Somebody has: send the call again at once, for the last time.
RetryAtOnce(c) ==
    \E a \in AnswerOf(c) :
        /\ a.result = "STEP_UP_REQUIRED" /\ click[c].try = 1
        /\ generation # click[c].observed
        /\ click' = [click EXCEPT ![c] = Sent(c, 2, @.body)]
        /\ wire' = wire \union {RequestOf(c, 2, click[c].body)}
        /\ answers' = answers \ {a}
        /\ UNCHANGED <<generation, pendingStepUp, passwordSent, steppedUp, mounted,
                       serverVars>>

\* The connection breaks, or the answer is lost: NETWORK_ERROR.
LoseConnection(c) ==
    /\ click[c].st = "sent"
    /\ Settle(c, "failed")
    /\ answers' = {a \in answers : a.click # c}
    /\ UNCHANGED <<generation, pendingStepUp, passwordSent, steppedUp, mounted, wire,
                   serverVars>>

SubmitPassword ==
    /\ pendingStepUp # {} /\ ~passwordSent
    /\ passwordSent' = TRUE
    /\ UNCHANGED <<click, generation, pendingStepUp, steppedUp, mounted, wire, answers,
                   serverVars>>

\* The cookie is replaced and complete() settles whatever is pending by now;
\* the waiting calls go out one after the other, the first counts the step-up.
PasswordAccepted ==
    /\ passwordSent
    /\ passwordSent' = FALSE
    /\ steppedUp' = TRUE
    /\ generation' = IF pendingStepUp = {} THEN generation ELSE generation + 1
    /\ click' = [c \in Clicks |->
          IF c \in pendingStepUp
          THEN [st |-> "sent", try |-> 2, body |-> click[c].body,
                observed |-> generation'] ELSE click[c]]
    /\ wire' = wire \union {[click |-> c, try |-> 2, fresh |-> TRUE,
                             body |-> click[c].body] : c \in pendingStepUp}
    /\ pendingStepUp' = {}
    /\ UNCHANGED <<mounted, answers, serverVars>>

PasswordRefused ==
    /\ passwordSent
    /\ passwordSent' = FALSE
    /\ UNCHANGED <<click, generation, pendingStepUp, steppedUp, mounted, wire, answers,
                   serverVars>>

FailWaiting == click' = [c \in Clicks |->
    IF c \in pendingStepUp THEN [st |-> "failed"] ELSE click[c]]

\* The timer of two minutes, the user's cancel, a logout, a revoked session.
RejectStepUp ==
    /\ pendingStepUp # {}
    /\ FailWaiting
    /\ pendingStepUp' = {}
    /\ UNCHANGED <<generation, passwordSent, steppedUp, mounted, wire, answers, serverVars>>

\* The page goes away: the requester is unregistered and the promise rejected.
Unmount ==
    /\ mounted
    /\ mounted' = FALSE
    /\ FailWaiting
    /\ pendingStepUp' = {}
    /\ UNCHANGED <<generation, passwordSent, steppedUp, wire, answers, serverVars>>

StepUpExpires ==
    /\ steppedUp
    /\ steppedUp' = FALSE
    /\ UNCHANGED <<click, generation, pendingStepUp, passwordSent, mounted, wire, answers,
                   serverVars>>

-----------------------------------------------------------------------------
(* The server: idempotentMutation is one database transaction, READ        *)
(* COMMITTED.  A row that is not committed is seen by nobody, but the      *)
(* INSERT of its key waits for its transaction, and so do a SELECT FOR     *)
(* UPDATE and a DELETE that saw the row it replaces.                       *)

Key(s) == KeyOf[serving[s].click]

Busy(s) == serving[s].at # "idle"

\* Variant: the reservation does not wait for another one of its key.
NobodyWaits(s) == TRUE

HoldsNobodyElse(s) ==
    \A t \in Servers \ {s} :
        ~(Busy(t) /\ Key(t) = Key(s) /\ serving[t].at \in {"run", "save"})

Receive(s) ==
    /\ ~Busy(s)
    /\ \E m \in wire :
         /\ wire' = wire \ {m}
         /\ serving' = [serving EXCEPT ![s] = [click |-> m.click, try |-> m.try,
                             fresh |-> m.fresh, body |-> m.body,
                             at |-> "reserve", row |-> 0]]
    /\ UNCHANGED <<browserVars, answers, keyRow, applied, expiries, apiCrashes>>

Reply(s, result) ==
    /\ answers' = LET c == serving[s].click IN
          IF click[c].st = "sent" /\ click[c].try = serving[s].try
          THEN answers \union {[click |-> c, try |-> serving[s].try, result |-> result]}
          ELSE answers
    /\ serving' = [serving EXCEPT ![s] = NotServing]

GoesOn(s, at, row) ==
    /\ serving' = [serving EXCEPT ![s].at = at, ![s].row = row]
    /\ UNCHANGED <<browserVars, wire, answers, keyRow, applied, expiries, apiCrashes>>

\* INSERT ON CONFLICT DO NOTHING: the key is reserved, or has a row.
reserveIdempotency(s) ==
    /\ serving[s].at = "reserve" /\ HoldsNobodyElse(s)
    /\ GoesOn(s, IF keyRow[Key(s)] = NoRow THEN "run" ELSE "select", 0)

\* The SELECT and the DELETE see the row that is committed when they begin.
Look(s) ==
    \/ serving[s].at = "select" /\ GoesOn(s, "lock", keyRow[Key(s)].id)
    \/ serving[s].at = "missing" /\ GoesOn(s, "delete", keyRow[Key(s)].id)

StillThere(s) == serving[s].row = keyRow[Key(s)].id

\* FOR UPDATE: no row is returned when the one it saw was replaced.
RowIsGone(s) ==
    /\ serving[s].at = "lock" /\ ~StillThere(s)
    /\ GoesOn(s, "missing", 0)

\* The row, now locked, has expired: it is deleted and the INSERT goes through.
ReplaceExpired(s) ==
    /\ serving[s].at = "lock" /\ StillThere(s) /\ HoldsNobodyElse(s)
    /\ keyRow[Key(s)].expired
    /\ GoesOn(s, "run", 0)

SameRequest(s) == keyRow[Key(s)].body = serving[s].body

Replay(s) ==
    /\ serving[s].at = "lock" /\ StillThere(s) /\ HoldsNobodyElse(s)
    /\ ~keyRow[Key(s)].expired
    /\ Reply(s, IF SameRequest(s) THEN "ok" ELSE "IDEMPOTENCY_KEY_REUSED")
    /\ UNCHANGED <<browserVars, wire, keyRow, applied, expiries, apiCrashes>>

\* The DELETE after a SELECT without an answer takes whatever row it saw.
DeleteRow(s) ==
    /\ serving[s].at = "delete"
    /\ IF StillThere(s) THEN HoldsNobodyElse(s) /\ GoesOn(s, "run", 0)
                        ELSE GoesOn(s, "reserve", 0)

\* A step-up that was recent when the request left may have expired since.
RefuseStepUp(s) ==
    /\ Busy(s) /\ serving[s].at = "run"
    /\ RouteOf[serving[s].click] \in StepUpRoutes
    /\ Reply(s, "STEP_UP_REQUIRED")
    /\ UNCHANGED <<browserVars, wire, keyRow, applied, expiries, apiCrashes>>

\* A rule of the operation refuses it: everything is rolled back.
FailOperation(s) ==
    /\ Busy(s) /\ serving[s].at = "run"
    /\ Reply(s, "error")
    /\ UNCHANGED <<browserVars, wire, keyRow, applied, expiries, apiCrashes>>

Run(s) ==
    /\ Busy(s) /\ serving[s].at = "run"
    /\ RouteOf[serving[s].click] \in StepUpRoutes => serving[s].fresh
    /\ GoesOn(s, "save", 0)

saveIdempotency(s) ==
    /\ Busy(s) /\ serving[s].at = "save"
    /\ keyRow' = [keyRow EXCEPT ![Key(s)] =
          [id |-> @.id + 1, body |-> serving[s].body, expired |-> FALSE]]
    /\ applied' = [applied EXCEPT ![Key(s)] = Append(@, serving[s].body)]
    /\ Reply(s, "ok")
    /\ UNCHANGED <<browserVars, wire, expiries, apiCrashes>>

ExpireKey(k) ==
    /\ keyRow[k] # NoRow /\ ~keyRow[k].expired
    /\ expiries[k] < MaxExpiries
    /\ keyRow' = [keyRow EXCEPT ![k].expired = TRUE]
    /\ expiries' = [expiries EXCEPT ![k] = @ + 1]
    /\ UNCHANGED <<browserVars, wire, answers, serving, applied, apiCrashes>>

\* Whatever was being served is rolled back and never answered.
CrashApi ==
    /\ apiCrashes < MaxCrashes
    /\ apiCrashes' = apiCrashes + 1
    /\ serving' = [s \in Servers |-> NotServing]
    /\ UNCHANGED <<browserVars, wire, answers, keyRow, applied, expiries>>

-----------------------------------------------------------------------------
RequestsInit ==
    /\ \E screen \in Screens :
          click = [c \in Clicks |-> IF c \in screen THEN Ready ELSE [st |-> "absent"]]
    /\ generation = 0 /\ pendingStepUp = {} /\ mounted = TRUE
    /\ passwordSent = FALSE /\ steppedUp = FALSE
    /\ wire = {} /\ answers = {}
    /\ serving = [s \in Servers |-> NotServing]
    /\ keyRow = [k \in Keys |-> NoRow]
    /\ applied = [k \in Keys |-> <<>>]
    /\ expiries = [k \in Keys |-> 0] /\ apiCrashes = 0

BrowserNext ==
    \/ \E c \in Clicks : \/ Press(c) \/ Finish(c) \/ AskStepUp(c) \/ RetryAtOnce(c)
                         \/ LoseConnection(c)
    \/ SubmitPassword \/ PasswordAccepted \/ PasswordRefused \/ RejectStepUp \/ Unmount
    \/ StepUpExpires

ServerNext ==
    \/ \E s \in Servers : \/ Receive(s) \/ reserveIdempotency(s) \/ Look(s) \/ RowIsGone(s)
                          \/ ReplaceExpired(s) \/ Replay(s) \/ DeleteRow(s)
                          \/ RefuseStepUp(s) \/ FailOperation(s) \/ Run(s)
                          \/ saveIdempotency(s)
    \/ \E k \in Keys : ExpireKey(k)
    \/ CrashApi

RequestsNext == BrowserNext \/ ServerNext

\* The timer of a pending step-up fires.
RequestsFairness == WF_requestVars(RejectStepUp)

RequestsSpec == RequestsInit /\ [][RequestsNext]_requestVars /\ RequestsFairness

-----------------------------------------------------------------------------
\* A form may be sent again after a broken connection while its first request
\* is still being served: as long as the key's row does not outlive its day,
\* what the form asks for is done once, and at any time a click that is told
\* so did ask for what was done (idempotency.ts).
FormIsAppliedOnce ==
    /\ \A k \in Keys : expiries[k] = 0 => Len(applied[k]) <= 1
    /\ \A a \in answers : a.result = "ok" =>
          \E i \in 1 .. Len(applied[KeyOf[a.click]]) :
              applied[KeyOf[a.click]][i] = click[a.click].body

\* "The same key and the same payload: the first result again" (spec.md:136):
\* a key is applied once in the life of each of its rows.  It is not: of two
\* resends that find an expired row, the one that waits for the other is told
\* of no row, deletes the one the other made, and applies the request again.
OncePerLife == \A k \in Keys : Len(applied[k]) <= 1 + expiries[k]

\* Every call that waits for a step-up goes on in the end, sent again or
\* failed: no promise is lost when several calls are refused together, when
\* the password is refused or the page goes away (step-up-coordinator.ts).
WaitingIsSettled ==
    \A c \in Clicks : (click[c].st = "waiting") ~> (click[c].st # "waiting")
=============================================================================
