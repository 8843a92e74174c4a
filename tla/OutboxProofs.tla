---------------------------- MODULE OutboxProofs ----------------------------
(* Theorems about Outbox for all events, workers, limits and bounds.        *)
EXTENDS Outbox, TLAPS

USE AttemptsAssumption, BatchAssumption, NoEventAssumption
USE DEF Statuses, Steps

(* Every row written by a statement is well formed.                         *)
LEMMA UnleasedRow ==
    ASSUME NEW s \in Statuses, NEW n \in Nat, NEW b \in BOOLEAN
    PROVE  /\ Unleased(s, n, b) \in Rows
           /\ Unleased(s, n, b).status = s
           /\ Unleased(s, n, b).attempts = n
           /\ Unleased(s, n, b).leased = FALSE
  BY DEF Unleased, Rows

LEMMA LeasedRow ==
    ASSUME TypeOK, NEW w \in Workers, NEW e \in Events
    PROVE  /\ Leased(w, e) \in Rows
           /\ Leased(w, e).status = "processing"
           /\ Leased(w, e).attempts = row[e].attempts + 1
           /\ Leased(w, e).token = claims[e] + 1
           /\ Leased(w, e).leased = TRUE
  BY DEF TypeOK, Leased, NextToken, Rows

LEMMA FailedRow ==
    ASSUME TypeOK, NEW e \in Events
    PROVE  /\ Failed(e) \in Rows
           /\ Failed(e).status \in {"failed", "dead_letter"}
           /\ Failed(e).status = "dead_letter" <=> row[e].attempts >= MaxAttempts
           /\ Failed(e).attempts = row[e].attempts
           /\ Failed(e).leased = FALSE
<1>1. row[e].attempts \in Nat
  BY DEF TypeOK, Rows
<1>2. CASE row[e].attempts >= MaxAttempts
  <2>1. Failed(e) = Unleased("dead_letter", row[e].attempts, FALSE)
    BY <1>2 DEF Failed
  <2>2. /\ Failed(e) \in Rows /\ Failed(e).status = "dead_letter"
        /\ Failed(e).attempts = row[e].attempts /\ Failed(e).leased = FALSE
    BY <1>1, <2>1 DEF Unleased, Rows
  <2>. QED  BY <1>2, <2>2
<1>3. CASE ~(row[e].attempts >= MaxAttempts)
  <2>1. Failed(e) = Unleased("failed", row[e].attempts, FALSE)
    BY <1>3 DEF Failed
  <2>2. /\ Failed(e) \in Rows /\ Failed(e).status = "failed"
        /\ Failed(e).attempts = row[e].attempts /\ Failed(e).leased = FALSE
    BY <1>1, <2>1 DEF Unleased, Rows
  <2>. QED  BY <1>3, <2>2
<1>. QED  BY <1>2, <1>3

(* The rows after each statement, row by row.                               *)
LEMMA RowTypes ==
    ASSUME TypeOK, NEW e \in Events
    PROVE  /\ row[e] \in Rows
           /\ row[e].attempts \in Nat
           /\ row[e].due \in BOOLEAN
           /\ [row[e] EXCEPT !.leased = FALSE] \in Rows
           /\ [row[e] EXCEPT !.due = TRUE] \in Rows
<1>1. row[e] \in Rows
  BY DEF TypeOK
<1>2. \A r \in Rows : /\ r.attempts \in Nat
                      /\ r.due \in BOOLEAN
                      /\ [r EXCEPT !.leased = FALSE] \in Rows
                      /\ [r EXCEPT !.due = TRUE] \in Rows
  BY DEF Rows
<1>. QED  BY <1>1, <1>2

(* No step stores a value outside its type.                                 *)
LEMMA TypeStep == TypeOK /\ [Next]_vars => TypeOK'
<1> SUFFICES ASSUME TypeOK, [Next]_vars PROVE TypeOK'
  OBVIOUS
<1>1. ASSUME NEW e \in Events, EventStep(e) \/ TimeStep(e) PROVE TypeOK'
  <2>1. CASE Enqueue(e)
    <3>1. Unleased("pending", 0, TRUE) \in Rows
      BY UnleasedRow
    <3>. QED  BY <2>1, <3>1 DEF Enqueue, TypeOK
  <2>2. CASE RequeueDeadLetter(e)
    <3>1. Unleased("pending", 0, TRUE) \in Rows
      BY UnleasedRow
    <3>2. row' \in [Events -> Rows]
      BY <2>2, <3>1 DEF RequeueDeadLetter, TypeOK
    <3>3. requeues' \in Nat
      BY <2>2, <1>1 DEF RequeueDeadLetter, TypeOK
    <3>. QED  BY <2>2, <3>2, <3>3 DEF RequeueDeadLetter, TypeOK
  <2>3. CASE LeaseExpires(e)
    <3>1. [row[e] EXCEPT !.leased = FALSE] \in Rows
      BY RowTypes
    <3>. QED  BY <2>3, <3>1 DEF LeaseExpires, TypeOK
  <2>4. CASE RetryBecomesDue(e)
    <3>1. [row[e] EXCEPT !.due = TRUE] \in Rows
      BY RowTypes
    <3>. QED  BY <2>4, <3>1 DEF RetryBecomesDue, TypeOK
  <2>. QED  BY <1>1, <2>1, <2>2, <2>3, <2>4 DEF EventStep, TimeStep
<1>2. ASSUME NEW w \in Workers, WorkerStep(w) \/ Abort(w) PROVE TypeOK'
  <2> USE DEF Goto, At, Resting
  <2>1. CASE SweepDeadLetters(w)
    <3>1. \A e \in Events : Unleased("dead_letter", row[e].attempts, row[e].due) \in Rows
      BY RowTypes, UnleasedRow
    <3>2. row' \in [Events -> Rows]
      BY <2>1, <3>1, RowTypes DEF SweepDeadLetters
    <3>. QED  BY <2>1, <3>2 DEF SweepDeadLetters, TypeOK
  <2>2. ASSUME NEW S \in SUBSET Events, ClaimOutbox(w, S) PROVE TypeOK'
    <3>1. row' \in [Events -> Rows]
      BY <2>2, LeasedRow, RowTypes DEF ClaimOutbox
    <3>2. claims' \in [Events -> Nat] /\ batch' \in [Workers -> SUBSET (Events \X Nat)]
      BY <2>2 DEF ClaimOutbox, NextToken, TypeOK
    <3>. QED  BY <2>2, <3>1, <3>2 DEF ClaimOutbox, TypeOK
  <2>3. CASE HandleNext(w)
    BY <2>3 DEF HandleNext, TypeOK
  <2>4. CASE BatchDone(w)
    BY <2>4 DEF BatchDone, TypeOK
  <2>5. CASE HandlerReturns(w)
    BY <2>5 DEF HandlerReturns, TypeOK
  <2>6. CASE HandlerThrows(w)
    BY <2>6 DEF HandlerThrows, TypeOK
  <2>7. CASE CompleteOutbox(w)
    <3>1. worker[w].event \in Events
      BY <2>7 DEF CompleteOutbox, TypeOK
    <3>2. row' \in [Events -> Rows]
      BY <2>7, <3>1, RowTypes, UnleasedRow DEF CompleteOutbox, TypeOK
    <3>. QED  BY <2>7, <3>2 DEF CompleteOutbox, TypeOK
  <2>8. CASE FailOutbox(w)
    <3>1. worker[w].event \in Events
      BY <2>8 DEF FailOutbox, TypeOK
    <3>2. row' \in [Events -> Rows]
      BY <2>8, <3>1, FailedRow DEF FailOutbox, TypeOK
    <3>. QED  BY <2>8, <3>2 DEF FailOutbox, TypeOK
  <2>9. CASE Abort(w)
    BY <2>9 DEF Abort, TypeOK
  <2>. QED  BY <1>2, <2>1, <2>2, <2>3, <2>4, <2>5, <2>6, <2>7, <2>8, <2>9 DEF WorkerStep
<1>3. CASE UNCHANGED vars
  BY <1>3 DEF vars, TypeOK
<1>. QED  BY <1>1, <1>2, <1>3 DEF Next

LEMMA TypeInit == Init => TypeOK
<1>1. Unleased("absent", 0, FALSE) \in Rows
  BY UnleasedRow
<1>2. Resting("idle") \in [step : Steps, event : Events \cup {None}, token : Nat]
      /\ Resting("idle").step = "idle"
  BY DEF Resting, At
<1> SUFFICES ASSUME Init PROVE TypeOK
  OBVIOUS
<1>3. row \in [Events -> Rows] /\ claims \in [Events -> Nat]
  BY <1>1 DEF Init
<1>4. /\ worker \in [Workers -> [step : Steps, event : Events \cup {None}, token : Nat]]
      /\ \A w \in Workers : worker[w].step = "idle"
  BY <1>2 DEF Init
<1>5. batch \in [Workers -> SUBSET (Events \X Nat)]
  BY DEF Init
<1>. QED  BY <1>3, <1>4, <1>5 DEF Init, TypeOK

(* Every reachable state of the outbox is well typed.                       *)
THEOREM TypeCorrect == Spec => []TypeOK
  BY TypeInit, TypeStep, PTL DEF Spec

-----------------------------------------------------------------------------
(* The part of the invariant that speaks of one row.                        *)
RowInv(e) ==
    /\ row[e].status = "processing" => row[e].token = claims[e]
    /\ row[e].leased => row[e].status = "processing"
    /\ row[e].status = "completed" => <<e, claims[e]>> \in ran
    /\ row[e].status = "dead_letter" => row[e].attempts = MaxAttempts
    /\ row[e].attempts <= MaxAttempts

LEMMA RowInvariant ==
    (\A e \in Events : RowInv(e))
        <=> LeaseOfLatestClaim /\ CompletedByLatestClaim /\ GivenUpOnlyExhausted
  BY DEF RowInv, LeaseOfLatestClaim, CompletedByLatestClaim, GivenUpOnlyExhausted

(* The part that speaks of one worker.                                      *)
WorkerInv(w) ==
    /\ worker[w].step = "returned" => <<worker[w].event, worker[w].token>> \in ran
    /\ \A c \in Held(w) : row[c[1]].status # "absent" /\ c[2] <= claims[c[1]]

LEMMA WorkerInvariant ==
    (\A w \in Workers : WorkerInv(w)) <=> ReturnedHasRun /\ HeldWasClaimed
  BY DEF WorkerInv, ReturnedHasRun, HeldWasClaimed

(* Rows keep their invariant through every step.                            *)
LEMMA RowStep ==
    ASSUME OutboxInv, [Next]_vars, NEW e \in Events
    PROVE  RowInv(e)'
<1>1. TypeOK /\ RowInv(e) /\ row[e] \in Rows /\ row[e].attempts \in Nat
      /\ claims[e] \in Nat
  BY RowInvariant, RowTypes DEF OutboxInv, TypeOK
<1>2. row[e].status \in Statuses
  BY <1>1 DEF Rows
<1>3. ASSUME NEW f \in Events, EventStep(f) \/ TimeStep(f) PROVE RowInv(e)'
  <2>1. CASE Enqueue(f)
    <3>1. row'[e] = row[e] \/ row'[e] = Unleased("pending", 0, TRUE)
      BY <2>1, <1>1 DEF Enqueue, TypeOK
    <3>2. CASE row'[e] = row[e]
      BY <2>1, <3>2, <1>1 DEF Enqueue, RowInv
    <3>3. CASE row'[e] = Unleased("pending", 0, TRUE)
      <4>1. row'[e].status = "pending" /\ row'[e].attempts = 0 /\ row'[e].leased = FALSE
        BY <3>3 DEF Unleased
      <4>. QED  BY <4>1 DEF RowInv
    <3>. QED  BY <3>1, <3>2, <3>3
  <2>2. CASE RequeueDeadLetter(f)
    <3>1. row'[e] = row[e] \/ row'[e] = Unleased("pending", 0, TRUE)
      BY <2>2, <1>1 DEF RequeueDeadLetter, TypeOK
    <3>2. CASE row'[e] = row[e]
      BY <2>2, <3>2, <1>1 DEF RequeueDeadLetter, RowInv
    <3>3. CASE row'[e] = Unleased("pending", 0, TRUE)
      <4>1. row'[e].status = "pending" /\ row'[e].attempts = 0 /\ row'[e].leased = FALSE
        BY <3>3 DEF Unleased
      <4>. QED  BY <4>1 DEF RowInv
    <3>. QED  BY <3>1, <3>2, <3>3
  <2>3. CASE LeaseExpires(f)
    <3>1. row'[e] = row[e] \/ row'[e] = [row[e] EXCEPT !.leased = FALSE]
      BY <2>3, <1>1 DEF LeaseExpires, TypeOK
    <3>2. /\ row'[e].status = row[e].status /\ row'[e].token = row[e].token
          /\ row'[e].attempts = row[e].attempts /\ row'[e].leased => row[e].leased
      BY <3>1, <1>1 DEF Rows
    <3>. QED  BY <2>3, <3>2, <1>1 DEF LeaseExpires, RowInv
  <2>4. CASE RetryBecomesDue(f)
    <3>1. row'[e] = row[e] \/ row'[e] = [row[e] EXCEPT !.due = TRUE]
      BY <2>4, <1>1 DEF RetryBecomesDue, TypeOK
    <3>2. /\ row'[e].status = row[e].status /\ row'[e].token = row[e].token
          /\ row'[e].attempts = row[e].attempts /\ row'[e].leased = row[e].leased
      BY <3>1, <1>1 DEF Rows
    <3>. QED  BY <2>4, <3>2, <1>1 DEF RetryBecomesDue, RowInv
  <2>. QED  BY <1>3, <2>1, <2>2, <2>3, <2>4 DEF EventStep, TimeStep
<1>4. ASSUME NEW w \in Workers, WorkerStep(w) \/ Abort(w) PROVE RowInv(e)'
  <2>1. CASE SweepDeadLetters(w)
    <3>1. CASE Exhausted(e)
      <4>1. row'[e] = Unleased("dead_letter", row[e].attempts, row[e].due)
        BY <2>1, <3>1 DEF SweepDeadLetters
      <4>2. row[e].attempts = MaxAttempts
        BY <3>1, <1>1 DEF Exhausted, RowInv
      <4>3. /\ row'[e].status = "dead_letter" /\ row'[e].attempts = MaxAttempts
            /\ row'[e].leased = FALSE
        BY <4>1, <4>2 DEF Unleased
      <4>. QED  BY <4>3 DEF RowInv
    <3>2. CASE ~Exhausted(e)
      BY <2>1, <3>2, <1>1 DEF SweepDeadLetters, RowInv
    <3>. QED  BY <3>1, <3>2
  <2>2. ASSUME NEW S \in SUBSET Events, ClaimOutbox(w, S) PROVE RowInv(e)'
    <3>1. CASE e \in S
      <4>1. row'[e] = Leased(w, e) /\ claims'[e] = claims[e] + 1
        BY <2>2, <3>1 DEF ClaimOutbox, NextToken
      <4>2. row[e].attempts + 1 <= MaxAttempts
        BY <2>2, <3>1, <1>1 DEF ClaimOutbox, Claimable
      <4>. QED  BY <2>2, <4>1, <4>2, <1>1, LeasedRow DEF RowInv
    <3>2. CASE e \notin S
      BY <2>2, <3>2, <1>1 DEF ClaimOutbox, RowInv
    <3>. QED  BY <3>1, <3>2
  <2>3. CASE HandleNext(w)
    BY <2>3, <1>1 DEF HandleNext, RowInv
  <2>4. CASE BatchDone(w)
    BY <2>4, <1>1 DEF BatchDone, RowInv
  <2>5. CASE HandlerReturns(w)
    BY <2>5, <1>1 DEF HandlerReturns, RowInv
  <2>6. CASE HandlerThrows(w)
    BY <2>6, <1>1 DEF HandlerThrows, RowInv
  <2>7. CASE CompleteOutbox(w)
    <3>1. CASE OwnsLease(w) /\ worker[w].event = e
      <4>1. row'[e] = Unleased("completed", row[e].attempts, row[e].due)
        BY <2>7, <3>1 DEF CompleteOutbox, TypeOK, OutboxInv
      <4>2. <<e, claims[e]>> \in ran
        BY <2>7, <3>1, <1>1 DEF CompleteOutbox, OwnsLease, RowInv, OutboxInv,
                                ReturnedHasRun
      <4>3. /\ row'[e].status = "completed" /\ row'[e].attempts = row[e].attempts
            /\ row'[e].leased = FALSE /\ claims' = claims /\ ran' = ran
        BY <2>7, <4>1 DEF CompleteOutbox, Unleased
      <4>. QED  BY <4>2, <4>3, <1>1 DEF RowInv
    <3>2. CASE ~(OwnsLease(w) /\ worker[w].event = e)
      BY <2>7, <3>2, <1>1 DEF CompleteOutbox, RowInv, TypeOK
    <3>. QED  BY <3>1, <3>2
  <2>8. CASE FailOutbox(w)
    <3>1. CASE OwnsLease(w) /\ worker[w].event = e
      <4>1. row'[e] = Failed(e)
        BY <2>8, <3>1 DEF FailOutbox, TypeOK, OutboxInv
      <4>2. /\ row'[e].status \in {"failed", "dead_letter"} /\ row'[e].leased = FALSE
            /\ row'[e].status = "dead_letter" => row[e].attempts >= MaxAttempts
            /\ row'[e].attempts = row[e].attempts
        BY <4>1, <1>1, FailedRow
      <4>. QED  BY <4>2, <1>1 DEF RowInv
    <3>2. CASE ~(OwnsLease(w) /\ worker[w].event = e)
      BY <2>8, <3>2, <1>1 DEF FailOutbox, RowInv, TypeOK
    <3>. QED  BY <3>1, <3>2
  <2>9. CASE Abort(w)
    BY <2>9, <1>1 DEF Abort, RowInv
  <2>. QED  BY <1>4, <2>1, <2>2, <2>3, <2>4, <2>5, <2>6, <2>7, <2>8, <2>9 DEF WorkerStep
<1>5. CASE UNCHANGED vars
  BY <1>5, <1>1 DEF vars, RowInv
<1>. QED  BY <1>3, <1>4, <1>5 DEF Next

(* What a worker holds after a step: what it held, or claims just made.     *)
LEMMA HeldStep ==
    ASSUME TypeOK, [Next]_vars, NEW v \in Workers
    PROVE  \/ Held(v)' \subseteq Held(v)
           \/ \E S \in SUBSET Events :
                ClaimOutbox(v, S) /\ Held(v)' = {<<e, claims[e] + 1>> : e \in S}
<1> USE DEF Goto, At, Resting
<1>1. CASE UNCHANGED <<worker, batch>>
  BY <1>1 DEF Held
<1>2. ASSUME NEW e \in Events, EventStep(e) \/ TimeStep(e) PROVE UNCHANGED <<worker, batch>>
  BY <1>2 DEF EventStep, TimeStep, Enqueue, RequeueDeadLetter, LeaseExpires,
              RetryBecomesDue
<1>3. ASSUME NEW w \in Workers, w # v, WorkerStep(w) \/ Abort(w)
      PROVE  Held(v)' = Held(v)
  BY <1>3 DEF WorkerStep, Abort, SweepDeadLetters, ClaimOutbox, HandleNext, BatchDone,
              HandlerReturns, HandlerThrows, CompleteOutbox, FailOutbox, TypeOK, Held
<1>4. CASE SweepDeadLetters(v)
  BY <1>4 DEF SweepDeadLetters, TypeOK, Held
<1>5. ASSUME NEW S \in SUBSET Events, ClaimOutbox(v, S)
      PROVE  Held(v)' = {<<e, claims[e] + 1>> : e \in S}
  BY <1>5 DEF ClaimOutbox, NextToken, TypeOK, Held
<1>6. CASE HandleNext(v)
  <2>1. PICK c \in batch[v] : /\ batch' = [batch EXCEPT ![v] = batch[v] \ {c}]
                              /\ worker' = [worker EXCEPT ![v] = At("handling", c[1], c[2])]
    BY <1>6 DEF HandleNext
  <2>2. c \in Events \X Nat
    BY DEF TypeOK
  <2>3. Held(v)' = (batch[v] \ {c}) \cup {<<c[1], c[2]>>}
    BY <2>1, <2>2 DEF TypeOK, Held
  <2>. QED  BY <2>2, <2>3 DEF Held
<1>7. CASE BatchDone(v)
  BY <1>7 DEF BatchDone, TypeOK, Held
<1>8. CASE HandlerReturns(v) \/ HandlerThrows(v)
  BY <1>8 DEF HandlerReturns, HandlerThrows, TypeOK, Held
<1>9. CASE CompleteOutbox(v) \/ FailOutbox(v)
  BY <1>9 DEF CompleteOutbox, FailOutbox, TypeOK, Held
<1>10. CASE Abort(v)
  BY <1>10 DEF Abort, TypeOK, Held
<1>. QED  BY <1>1, <1>2, <1>3, <1>4, <1>5, <1>6, <1>7, <1>8, <1>9, <1>10
          DEF Next, WorkerStep, vars

(* What a step does to one row: it stays in the queue, its claims are        *)
(* counted, and a row claimed anew is not under a lease.                    *)
LEMMA RowMoves ==
    ASSUME TypeOK, [Next]_vars, NEW e \in Events
    PROVE  /\ claims'[e] \in {claims[e], claims[e] + 1}
           /\ row[e].status # "absent" => row'[e].status # "absent"
           /\ row'[e].leased = TRUE => \/ row[e].leased = TRUE /\ row'[e].token = row[e].token
                                     \/ Claimable(e)
<1>1. row[e] \in Rows /\ claims[e] \in Nat
  BY DEF TypeOK
<1>2. CASE row'[e] = row[e] /\ claims'[e] = claims[e]
  BY <1>2
<1>3. ASSUME NEW s \in Statuses \ {"absent"}, NEW n, NEW b,
             row'[e] = Unleased(s, n, b), claims' = claims
      PROVE  row'[e].status # "absent" /\ row'[e].leased = FALSE
  BY <1>3 DEF Unleased
<1>4. ASSUME NEW f \in Events, EventStep(f)
      PROVE  claims' = claims /\ (row'[e] = row[e] \/ row'[e] = Unleased("pending", 0, TRUE))
  BY <1>4 DEF EventStep, Enqueue, RequeueDeadLetter, TypeOK
<1>5. ASSUME NEW f \in Events, TimeStep(f)
      PROVE  /\ claims' = claims
             /\ row'[e].status = row[e].status /\ row'[e].token = row[e].token
             /\ row'[e].leased = TRUE => row[e].leased = TRUE
  <2>1. claims' = claims
    BY <1>5 DEF TimeStep, LeaseExpires, RetryBecomesDue
  <2>2. \/ row'[e] = row[e]
        \/ row'[e] = [row[e] EXCEPT !.leased = FALSE]
        \/ row'[e] = [row[e] EXCEPT !.due = TRUE]
    BY <1>5 DEF TimeStep, LeaseExpires, RetryBecomesDue, TypeOK
  <2>. QED  BY <1>1, <2>1, <2>2 DEF Rows
<1>7. ASSUME NEW w \in Workers, NEW S \in SUBSET Events, ClaimOutbox(w, S)
      PROVE  \/ row'[e] = row[e] /\ claims'[e] = claims[e]
             \/ /\ Claimable(e) /\ row'[e] = Leased(w, e)
                /\ claims'[e] = claims[e] + 1
  BY <1>7 DEF ClaimOutbox, NextToken
<1>9. ASSUME NEW w \in Workers,
             \/ HandleNext(w) \/ BatchDone(w) \/ HandlerReturns(w) \/ HandlerThrows(w)
             \/ Abort(w)
      PROVE  row' = row /\ claims' = claims
  BY <1>9 DEF HandleNext, BatchDone, HandlerReturns, HandlerThrows, Abort
<1>10. Failed(e).status # "absent" /\ Failed(e).leased = FALSE
  BY FailedRow
<1>11. \A w \in Workers : Leased(w, e).status = "processing"
  BY LeasedRow
<1>12. \/ row' = row /\ claims' = claims
       \/ \E f \in Events : EventStep(f) \/ TimeStep(f)
       \/ \E w \in Workers :
            \/ SweepDeadLetters(w)
            \/ \E S \in SUBSET Events : ClaimOutbox(w, S)
            \/ CompleteOutbox(w) \/ FailOutbox(w)
  BY <1>9 DEF Next, WorkerStep, vars
<1>13. CASE \E f \in Events : EventStep(f)
  BY <1>1, <1>3, <1>4, <1>13, <1>2
<1>14. CASE \E f \in Events : TimeStep(f)
  BY <1>1, <1>5, <1>14
<1>15. CASE \E w \in Workers : SweepDeadLetters(w)
  <2>1. claims' = claims /\ \/ row'[e] = row[e]
                            \/ row'[e] = Unleased("dead_letter", row[e].attempts, row[e].due)
    BY <1>15 DEF SweepDeadLetters
  <2>2. CASE row'[e] = Unleased("dead_letter", row[e].attempts, row[e].due)
    <3>1. row'[e].status # "absent" /\ row'[e].leased = FALSE
      BY <2>1, <2>2, <1>3
    <3>. QED  BY <1>1, <2>1, <3>1
  <2>. QED  BY <1>2, <2>1, <2>2
<1>16. CASE \E w \in Workers : \E S \in SUBSET Events : ClaimOutbox(w, S)
  BY <1>1, <1>2, <1>7, <1>11, <1>16
<1>17. CASE \E w \in Workers : CompleteOutbox(w) \/ FailOutbox(w)
  <2>1. claims' = claims /\ \/ row'[e] = row[e]
                            \/ row'[e] = Unleased("completed", row[e].attempts, row[e].due)
                            \/ row'[e] = Failed(e)
    BY <1>17 DEF CompleteOutbox, FailOutbox, TypeOK
  <2>2. CASE row'[e] = Unleased("completed", row[e].attempts, row[e].due)
    <3>1. row'[e].status # "absent" /\ row'[e].leased = FALSE
      BY <2>1, <2>2, <1>3
    <3>. QED  BY <1>1, <2>1, <3>1
  <2>. QED  BY <1>1, <1>2, <1>10, <2>1, <2>2
<1>. QED  BY <1>2, <1>12, <1>13, <1>14, <1>15, <1>16, <1>17

(* Workers keep their invariant through every step.                         *)
LEMMA HeldInv ==
    ASSUME OutboxInv, [Next]_vars, NEW w \in Workers
    PROVE  \A c \in Held(w)' : row'[c[1]].status # "absent" /\ c[2] <= claims'[c[1]]
<1>1. TypeOK /\ HeldWasClaimed
  BY DEF OutboxInv
<1>2. Held(w) \subseteq Events \X Nat
  BY <1>1 DEF TypeOK, Held
<1>3. \A e \in Events : claims[e] \in Nat
  BY <1>1 DEF TypeOK
<1>4. ASSUME NEW c \in Held(w)
      PROVE  row'[c[1]].status # "absent" /\ c[2] <= claims'[c[1]]
  <2>1. c[1] \in Events /\ c[2] \in Nat
    BY <1>2
  <2>2. row[c[1]].status # "absent" /\ c[2] <= claims[c[1]]
    BY <1>1 DEF HeldWasClaimed
  <2>3. claims'[c[1]] \in {claims[c[1]], claims[c[1]] + 1}
        /\ row'[c[1]].status # "absent"
    BY <1>1, <2>1, <2>2, RowMoves
  <2>. QED  BY <1>3, <2>1, <2>2, <2>3
<1>5. ASSUME NEW S \in SUBSET Events, ClaimOutbox(w, S),
             Held(w)' = {<<e, claims[e] + 1>> : e \in S}
      PROVE  \A c \in Held(w)' : row'[c[1]].status # "absent" /\ c[2] <= claims'[c[1]]
  <2>1. ASSUME NEW e \in S PROVE row'[e].status # "absent" /\ claims[e] + 1 <= claims'[e]
    <3>1. row'[e] = Leased(w, e) /\ claims'[e] = claims[e] + 1
      BY <1>5 DEF ClaimOutbox, NextToken
    <3>2. e \in Events /\ Leased(w, e).status = "processing"
      BY <1>1, LeasedRow
    <3>. QED  BY <3>1, <3>2, <1>3
  <2>. QED  BY <1>5, <2>1
<1>. QED  BY <1>1, <1>4, <1>5, HeldStep

LEMMA ReturnedStep ==
    ASSUME TypeOK, ReturnedHasRun, [Next]_vars
    PROVE  ReturnedHasRun'
<1> USE DEF Goto, At, Resting, ReturnedHasRun
<1>1. ASSUME NEW e \in Events, EventStep(e) \/ TimeStep(e) PROVE ReturnedHasRun'
  BY <1>1 DEF EventStep, TimeStep, Enqueue, RequeueDeadLetter, LeaseExpires,
              RetryBecomesDue
<1>2. ASSUME NEW w \in Workers, WorkerStep(w) \/ Abort(w) PROVE ReturnedHasRun'
  <2>1. CASE HandlerReturns(w)
    BY <2>1 DEF HandlerReturns, TypeOK
  <2>2. ASSUME NEW S \in SUBSET Events, ClaimOutbox(w, S) PROVE ReturnedHasRun'
    BY <2>2 DEF ClaimOutbox, TypeOK
  <2>3. CASE SweepDeadLetters(w) \/ HandleNext(w) \/ BatchDone(w) \/ HandlerThrows(w)
    BY <2>3 DEF SweepDeadLetters, HandleNext, BatchDone, HandlerThrows, TypeOK
  <2>4. CASE CompleteOutbox(w) \/ FailOutbox(w) \/ Abort(w)
    BY <2>4 DEF CompleteOutbox, FailOutbox, Abort, TypeOK
  <2>. QED  BY <1>2, <2>1, <2>2, <2>3, <2>4 DEF WorkerStep
<1>3. CASE UNCHANGED vars
  BY <1>3 DEF vars
<1>. QED  BY <1>1, <1>2, <1>3 DEF Next

(* A claim just made was held by nobody: its token is beyond every token.   *)
LEMMA ExclusiveStep ==
    ASSUME OutboxInv, [Next]_vars
    PROVE  ClaimsAreExclusive'
<1> SUFFICES ASSUME NEW v \in Workers, NEW w \in Workers, v # w,
                    NEW c \in Held(v)', c \in Held(w)'
             PROVE  FALSE
  BY DEF ClaimsAreExclusive
<1>1. TypeOK /\ HeldWasClaimed /\ ClaimsAreExclusive
  BY DEF OutboxInv
<1>2. \A e \in Events : claims[e] \in Nat
  BY <1>1 DEF TypeOK
<1>3. ASSUME NEW x \in Workers, NEW y \in Workers, x # y, c \in Held(x)', c \in Held(y)',
             NEW S \in SUBSET Events, ClaimOutbox(x, S),
             Held(x)' = {<<e, claims[e] + 1>> : e \in S}
      PROVE  FALSE
  <2>1. Held(y)' = Held(y)
    BY <1>1, <1>3 DEF ClaimOutbox, Held, Goto, TypeOK
  <2>2. c[2] <= claims[c[1]]
    BY <1>1, <1>3, <2>1 DEF HeldWasClaimed
  <2>3. c[1] \in Events /\ c[2] = claims[c[1]] + 1
    BY <1>3
  <2>. QED  BY <1>2, <2>2, <2>3
<1>4. c \notin Held(v) \/ c \notin Held(w)
  BY <1>1 DEF ClaimsAreExclusive
<1>. QED  BY <1>1, <1>3, <1>4, HeldStep

LEMMA InvStep == OutboxInv /\ [Next]_vars => OutboxInv'
<1> SUFFICES ASSUME OutboxInv, [Next]_vars PROVE OutboxInv'
  OBVIOUS
<1>1. TypeOK'
  BY TypeStep DEF OutboxInv
<1>2. (LeaseOfLatestClaim /\ CompletedByLatestClaim /\ GivenUpOnlyExhausted)'
  BY RowStep DEF RowInv, LeaseOfLatestClaim, CompletedByLatestClaim, GivenUpOnlyExhausted
<1>3. HeldWasClaimed'
  BY HeldInv DEF HeldWasClaimed
<1>4. ReturnedHasRun'
  BY ReturnedStep DEF OutboxInv
<1>5. ClaimsAreExclusive'
  BY ExclusiveStep
<1>. QED  BY <1>1, <1>2, <1>3, <1>4, <1>5 DEF OutboxInv

LEMMA InvInit == Init => OutboxInv
<1> SUFFICES ASSUME Init PROVE OutboxInv
  OBVIOUS
<1>1. \A e \in Events : /\ row[e].status = "absent" /\ row[e].attempts = 0
                        /\ row[e].leased = FALSE
  BY DEF Init, Unleased
<1>2. LeaseOfLatestClaim /\ CompletedByLatestClaim /\ GivenUpOnlyExhausted
  BY <1>1 DEF LeaseOfLatestClaim, CompletedByLatestClaim, GivenUpOnlyExhausted
<1>3. \A w \in Workers : Held(w) = {} /\ worker[w].step = "idle"
  BY DEF Init, Held, Resting, At
<1>. QED  BY <1>2, <1>3, TypeInit DEF OutboxInv, ReturnedHasRun, HeldWasClaimed,
                                      ClaimsAreExclusive

THEOREM OutboxInvariant == Spec => []OutboxInv
  BY InvInit, InvStep, PTL DEF Spec

(* An event counts as done only by the report of its latest claim, whose    *)
(* handler returned (completeOutbox's fencing).                             *)
THEOREM Fencing == Spec => []CompletedByLatestClaim
  BY OutboxInvariant, PTL DEF OutboxInv

(* No event is given up before, or tried after, MaxAttempts attempts.       *)
THEOREM BoundedAttempts == Spec => []GivenUpOnlyExhausted
  BY OutboxInvariant, PTL DEF OutboxInv

(* No claim is ever in the hands of two workers.                            *)
THEOREM ExclusiveClaims == Spec => []ClaimsAreExclusive
  BY OutboxInvariant, PTL DEF OutboxInv

(* A lease is taken over only after it has run out.                         *)
THEOREM LeasesRunOut == Spec => LeaseNotStolen
<1>1. OutboxInv /\ [Next]_vars
      => [\A e \in Events : row[e].leased /\ row'[e].leased
                            => row'[e].token = row[e].token]_vars
  <2> SUFFICES ASSUME OutboxInv, [Next]_vars, NEW e \in Events, row[e].leased,
                      row'[e].leased
               PROVE  row'[e].token = row[e].token
    OBVIOUS
  <2>1. TypeOK /\ TypeOK' /\ LeaseOfLatestClaim
    BY TypeStep DEF OutboxInv
  <2>2. row[e].leased = TRUE /\ row'[e].leased = TRUE
    BY <2>1 DEF TypeOK, Rows
  <2>3. ~Claimable(e)
    BY <2>1, <2>2 DEF LeaseOfLatestClaim, Claimable, Queued, Orphaned
  <2>. QED  BY <2>1, <2>2, <2>3, RowMoves
<1>. QED  BY <1>1, OutboxInvariant, PTL DEF Spec, LeaseNotStolen

-----------------------------------------------------------------------------
(* The outbox implements EventDelivery.                                     *)
States == [e \in Events |-> DeliveryState(e)]
Handled == {e \in Events : \E c \in ran : c[1] = e}

(* The delivery state of a row is a function of its status.                 *)
LEMMA StateOfStatus ==
    ASSUME NEW e \in Events
    PROVE  /\ DeliveryState(e) = "absent" <=> row[e].status = "absent"
           /\ DeliveryState(e) = "done" <=> row[e].status = "completed"
           /\ DeliveryState(e) = "given_up" <=> row[e].status = "dead_letter"
           /\ DeliveryState(e) \in {"absent", "done", "given_up", "waiting"}
<1>1. CASE row[e].status = "absent"
  BY <1>1 DEF DeliveryState
<1>2. CASE row[e].status = "completed"
  BY <1>2 DEF DeliveryState
<1>3. CASE row[e].status = "dead_letter"
  BY <1>3 DEF DeliveryState
<1>4. CASE row[e].status \notin {"absent", "completed", "dead_letter"}
  BY <1>4 DEF DeliveryState
<1>. QED  BY <1>1, <1>2, <1>3, <1>4

LEMMA SameStatus ==
    ASSUME NEW e \in Events, row'[e].status = row[e].status
    PROVE  DeliveryState(e)' = DeliveryState(e)
  BY DEF DeliveryState

LEMMA Stutter ==
    (\A e \in Events : \/ row'[e].status = row[e].status
                       \/ /\ row[e].status \in {"pending", "processing", "failed"}
                          /\ row'[e].status \in {"pending", "processing", "failed"})
      => States' = States
<1> SUFFICES ASSUME \A e \in Events :
                      \/ row'[e].status = row[e].status
                      \/ /\ row[e].status \in {"pending", "processing", "failed"}
                         /\ row'[e].status \in {"pending", "processing", "failed"}
             PROVE  States' = States
  OBVIOUS
<1>1. ASSUME NEW e \in Events PROVE DeliveryState(e)' = DeliveryState(e)
  BY DEF DeliveryState
<1>. QED  BY <1>1 DEF States

(* One event changes state.                                                 *)
LEMMA OneRow ==
    ASSUME NEW e \in Events, NEW r, row \in [Events -> Rows],
           row' = [row EXCEPT ![e] = r]
    PROVE  /\ States' = [States EXCEPT ![e] = DeliveryState(e)']
           /\ row'[e] = r
<1>1. row'[e] = r /\ \A f \in Events \ {e} : row'[f] = row[f]
  OBVIOUS
<1>2. \A f \in Events \ {e} : DeliveryState(f)' = DeliveryState(f)
  BY <1>1, SameStatus
<1>. QED  BY <1>1, <1>2 DEF States

LEMMA RefinementStep ==
    ASSUME OutboxInv, [Next]_vars
    PROVE  [Delivery!Next]_(Delivery!vars)
<1> USE DEF Delivery!vars, Delivery!Next
<1>1. TypeOK
  BY DEF OutboxInv
<1>2. row \in [Events -> Rows]
  BY <1>1 DEF TypeOK
<1>3. ASSUME NEW e \in Events, Enqueue(e) PROVE Delivery!Queue(e)
  <2>1. row' = [row EXCEPT ![e] = Unleased("pending", 0, TRUE)]
    BY <1>3 DEF Enqueue
  <2>2. States' = [States EXCEPT ![e] = "waiting"]
    <3>1. row'[e].status = "pending"
      BY <1>2, <2>1, OneRow DEF Unleased
    <3>2. DeliveryState(e)' = "waiting"
      BY <3>1 DEF DeliveryState
    <3>. QED  BY <1>2, <2>1, <3>2, OneRow
  <2>3. States[e] = "absent"
    BY <1>3, StateOfStatus DEF Enqueue, States
  <2>4. Handled' = Handled
    BY <1>3 DEF Enqueue, Handled
  <2>. QED  BY <2>2, <2>3, <2>4 DEF Delivery!Queue, States, Handled
<1>4. ASSUME NEW e \in Events, RequeueDeadLetter(e) PROVE Delivery!Requeue(e)
  <2>1. row' = [row EXCEPT ![e] = Unleased("pending", 0, TRUE)]
    BY <1>4 DEF RequeueDeadLetter
  <2>2. States' = [States EXCEPT ![e] = "waiting"]
    <3>1. row'[e].status = "pending"
      BY <1>2, <2>1, OneRow DEF Unleased
    <3>2. DeliveryState(e)' = "waiting"
      BY <3>1 DEF DeliveryState
    <3>. QED  BY <1>2, <2>1, <3>2, OneRow
  <2>3. States[e] = "given_up"
    BY <1>4, StateOfStatus DEF RequeueDeadLetter, States
  <2>4. Handled' = Handled
    BY <1>4 DEF RequeueDeadLetter, Handled
  <2>. QED  BY <2>2, <2>3, <2>4 DEF Delivery!Requeue, States, Handled
<1>5. ASSUME NEW e \in Events, TimeStep(e) PROVE States' = States /\ Handled' = Handled
  <2>1. \A f \in Events : row'[f].status = row[f].status
    <3>1. \A f \in Events : \/ row'[f] = row[f]
                            \/ row'[f] = [row[f] EXCEPT !.leased = FALSE]
                            \/ row'[f] = [row[f] EXCEPT !.due = TRUE]
      BY <1>2, <1>5 DEF TimeStep, LeaseExpires, RetryBecomesDue
    <3>. QED  BY <1>2, <3>1 DEF Rows
  <2>2. ran' = ran
    BY <1>5 DEF TimeStep, LeaseExpires, RetryBecomesDue
  <2>. QED  BY <2>1, <2>2, Stutter DEF Handled
<1>6. ASSUME NEW w \in Workers, SweepDeadLetters(w)
      PROVE  \E S \in SUBSET Events : Delivery!GiveUp(S)
  <2> DEFINE S == {e \in Events : Exhausted(e)}
  <2>1. \A e \in S : States[e] = "waiting"
    BY StateOfStatus DEF Exhausted, Queued, Orphaned, States
  <2>2. ASSUME NEW e \in Events
        PROVE  DeliveryState(e)' = IF e \in S THEN "given_up" ELSE States[e]
    <3>1. CASE e \in S
      <4>1. row'[e].status = "dead_letter"
        BY <1>6, <3>1 DEF SweepDeadLetters, Unleased
      <4>. QED  BY <3>1, <4>1 DEF DeliveryState
    <3>2. CASE e \notin S
      <4>1. row'[e].status = row[e].status
        BY <1>6, <3>2 DEF SweepDeadLetters
      <4>. QED  BY <3>2, <4>1, SameStatus DEF States
    <3>. QED  BY <3>1, <3>2
  <2>3. States' = [e \in Events |-> IF e \in S THEN "given_up" ELSE States[e]]
    BY <2>2 DEF States
  <2>4. Handled' = Handled
    BY <1>6 DEF SweepDeadLetters, Handled
  <2>5. Delivery!GiveUp(S)
    BY <2>1, <2>3, <2>4 DEF Delivery!GiveUp, States, Handled
  <2>. QED  BY <2>5
<1>7. ASSUME NEW w \in Workers, NEW S \in SUBSET Events, ClaimOutbox(w, S)
      PROVE  States' = States /\ Handled' = Handled
  <2>1. ASSUME NEW e \in Events
        PROVE  \/ row'[e].status = row[e].status
               \/ row[e].status \in {"pending", "processing", "failed"}
                  /\ row'[e].status \in {"pending", "processing", "failed"}
    <3>1. CASE e \in S
      <4>1. row'[e] = Leased(w, e) /\ Claimable(e)
        BY <1>7, <3>1 DEF ClaimOutbox
      <4>2. row'[e].status = "processing"
        BY <4>1, <1>1, LeasedRow
      <4>. QED  BY <4>1, <4>2 DEF Claimable, Queued, Orphaned
    <3>2. CASE e \notin S
      BY <1>7, <3>2 DEF ClaimOutbox
    <3>. QED  BY <3>1, <3>2
  <2>2. ran' = ran
    BY <1>7 DEF ClaimOutbox
  <2>. QED  BY <2>1, <2>2, Stutter DEF Handled
<1>8. ASSUME NEW w \in Workers, HandlerReturns(w)
      PROVE  \E e \in Events : Delivery!Handle(e)
  <2>1. PICK e \in Events : e = worker[w].event
    BY <1>1, <1>8 DEF HandlerReturns, TypeOK
  <2>2. States' = States
    BY <1>8, Stutter DEF HandlerReturns
  <2>3. Handled' = Handled \cup {e}
    <3>1. ran' = ran \cup {<<e, worker[w].token>>}
      BY <1>8, <2>1 DEF HandlerReturns
    <3>2. <<e, worker[w].token>>[1] = e
      OBVIOUS
    <3>3. \A f \in Events : (\E c \in ran' : c[1] = f) <=> (\E c \in ran : c[1] = f) \/ f = e
      BY <3>1, <3>2
    <3>. QED  BY <2>1, <3>3 DEF Handled
  <2>4. <<e, worker[w].token>> \in Held(w)
    BY <2>1 DEF Held
  <2>5. row[e].status # "absent"
    BY <2>1, <2>4 DEF OutboxInv, HeldWasClaimed
  <2>6. States[e] # "absent"
    BY <2>1, <2>5, StateOfStatus DEF States
  <2>7. Delivery!Handle(e)
    BY <2>2, <2>3, <2>6 DEF Delivery!Handle, States, Handled
  <2>. QED  BY <2>1, <2>7
<1>9. ASSUME NEW w \in Workers, CompleteOutbox(w)
      PROVE  (\E e \in Events : Delivery!Done(e)) \/ (States' = States /\ Handled' = Handled)
  <2>1. PICK e \in Events : e = worker[w].event
    BY <1>1, <1>9 DEF CompleteOutbox, TypeOK
  <2>2. Handled' = Handled
    BY <1>9 DEF CompleteOutbox, Handled
  <2>3. CASE ~OwnsLease(w)
    BY <1>9, <2>2, <2>3, Stutter DEF CompleteOutbox
  <2>4. CASE OwnsLease(w)
    <3>1. row' = [row EXCEPT ![e] = Unleased("completed", row[e].attempts, row[e].due)]
      BY <1>9, <2>1, <2>4 DEF CompleteOutbox
    <3>2. row'[e].status = "completed"
      BY <1>2, <2>1, <3>1, OneRow DEF Unleased
    <3>3. States' = [States EXCEPT ![e] = "done"]
      <4>1. DeliveryState(e)' = "done"
        BY <3>2 DEF DeliveryState
      <4>. QED  BY <1>2, <2>1, <3>1, <4>1, OneRow
    <3>4. States[e] = "waiting"
      BY <2>1, <2>4, StateOfStatus DEF OwnsLease, States
    <3>5. e \in Handled
      BY <1>9, <2>1 DEF CompleteOutbox, OutboxInv, ReturnedHasRun, Handled
    <3>6. Delivery!Done(e)
      BY <2>2, <3>3, <3>4, <3>5 DEF Delivery!Done, States, Handled
    <3>. QED  BY <2>1, <3>6
  <2>. QED  BY <2>3, <2>4
<1>10. ASSUME NEW w \in Workers, FailOutbox(w)
       PROVE  \/ \E S \in SUBSET Events : Delivery!GiveUp(S)
              \/ States' = States /\ Handled' = Handled
  <2>1. PICK e \in Events : e = worker[w].event
    BY <1>1, <1>10 DEF FailOutbox, TypeOK
  <2>2. Handled' = Handled
    BY <1>10 DEF FailOutbox, Handled
  <2>3. CASE ~OwnsLease(w)
    BY <1>10, <2>2, <2>3, Stutter DEF FailOutbox
  <2>4. CASE OwnsLease(w)
    <3>1. row' = [row EXCEPT ![e] = Failed(e)]
      BY <1>10, <2>1, <2>4 DEF FailOutbox
    <3>2. row'[e] = Failed(e) /\ \A f \in Events \ {e} : row'[f] = row[f]
      BY <1>2, <2>1, <3>1
    <3>3. row'[e].status \in {"failed", "dead_letter"}
      BY <1>1, <2>1, <3>2, FailedRow
    <3>4. row[e].status = "processing"
      BY <2>1, <2>4 DEF OwnsLease
    <3>5. CASE row'[e].status = "failed"
      BY <2>2, <3>2, <3>4, <3>5, Stutter
    <3>6. CASE row'[e].status = "dead_letter"
      <4>1. States' = [States EXCEPT ![e] = "given_up"]
        <5>1. DeliveryState(e)' = "given_up"
          BY <3>6 DEF DeliveryState
        <5>. QED  BY <1>2, <2>1, <3>1, <5>1, OneRow
      <4>2. States[e] = "waiting"
        BY <2>1, <3>4, StateOfStatus DEF States
      <4>3. States' = [f \in Events |-> IF f \in {e} THEN "given_up" ELSE States[f]]
        BY <2>1, <4>1 DEF States
      <4>4. Delivery!GiveUp({e})
        BY <2>2, <4>2, <4>3 DEF Delivery!GiveUp, States, Handled
      <4>. QED  BY <2>1, <4>4
    <3>. QED  BY <3>3, <3>5, <3>6
  <2>. QED  BY <2>3, <2>4
<1>11. ASSUME NEW w \in Workers, HandleNext(w) \/ BatchDone(w) \/ HandlerThrows(w) \/ Abort(w)
       PROVE  States' = States /\ Handled' = Handled
  <2>1. row' = row /\ ran' = ran
    BY <1>11 DEF HandleNext, BatchDone, HandlerThrows, Abort
  <2>. QED  BY <2>1, Stutter DEF Handled
<1>12. CASE UNCHANGED vars
  <2>1. row' = row /\ ran' = ran
    BY <1>12 DEF vars
  <2>2. States' = States /\ Handled' = Handled
    BY <2>1, Stutter DEF Handled
  <2>. QED  BY <2>2 DEF States, Handled
<1>13. \/ Delivery!Next
       \/ States' = States /\ Handled' = Handled
       \/ UNCHANGED vars
  BY <1>3, <1>4, <1>5, <1>6, <1>7, <1>8, <1>9, <1>10, <1>11
     DEF Next, EventStep, WorkerStep
<1>. QED  BY <1>12, <1>13 DEF States, Handled

(* Whatever workers, crashes and expired leases do, the outbox delivers at  *)
(* least once before it counts an event as done (completeOutbox), gives up  *)
(* only what is waiting and forgets nothing that was queued.                *)
THEOREM Delivers == Spec => DeliverySafety
<1>1. Init => Delivery!Init
  <2> SUFFICES ASSUME Init PROVE Delivery!Init
    OBVIOUS
  <2>1. \A e \in Events : row[e].status = "absent"
    BY DEF Init, Unleased
  <2>2. \A e \in Events : DeliveryState(e) = "absent"
    BY <2>1 DEF DeliveryState
  <2>. QED  BY <2>2 DEF Init, Delivery!Init
<1>2. OutboxInv /\ [Next]_vars => [Delivery!Next]_(Delivery!vars)
  BY RefinementStep
<1>. QED  BY <1>1, <1>2, OutboxInvariant, PTL DEF Spec, DeliverySafety, Delivery!Safety
=============================================================================
