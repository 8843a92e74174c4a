----------------------- MODULE OrderFulfilmentProofs -----------------------
(* Theorems about OrderFulfilment for all orders, drivers, credits,         *)
(* processes and bounds.                                                    *)
EXTENDS OrderFulfilment, FiniteSetTheorems, TLAPS

USE DEF money, goods, staff, Steps, OrderSteps, ShipSteps, AdminSteps

-----------------------------------------------------------------------------
(* Automatic matching keeps the types of the money rows.                    *)
LEMMA AutoMatchType ==
    ASSUME TypeOK, NEW imported \in SUBSET Txns, AutoMatch(imported)
    PROVE  /\ request' \in [Orders -> RequestRows]
           /\ txn' \in [Txns -> {"absent", "free", "matched"}]
<1> DEFINE credits == {t \in Txns : txn[t] = "free"} \cup imported
<1>1. ASSUME NEW o \in Orders
      PROVE  AutoMatchedRequest(o, credits) \in RequestRows
  <2>1. request[o] \in RequestRows
    BY DEF TypeOK
  <2>2. CASE \E t \in credits : UniquePair(o, t, credits)
    <3>1. (CHOOSE t \in credits : UniquePair(o, t, credits)) \in Txns
      BY <2>2
    <3>. QED  BY <2>1, <2>2, <3>1 DEF AutoMatchedRequest, Paid, RequestRows, RequestStatus
  <2>3. CASE ~ \E t \in credits : UniquePair(o, t, credits)
    BY <2>1, <2>3 DEF AutoMatchedRequest, Paid, RequestRows, RequestStatus
  <2>. QED  BY <2>2, <2>3
<1>2. request' = [o \in Orders |-> AutoMatchedRequest(o, credits)]
  BY DEF AutoMatch
<1>3. txn' \in [Txns -> {"absent", "free", "matched"}]
  <2>1. \A t \in Txns : txn[t] \in {"absent", "free", "matched"}
    BY DEF TypeOK
  <2>2. txn' = [t \in Txns |->
                 IF \E o \in Orders : t \in credits /\ UniquePair(o, t, credits)
                 THEN "matched"
                 ELSE IF t \in imported THEN "free" ELSE txn[t]]
    BY DEF AutoMatch
  <2>. QED  BY <2>1, <2>2
<1>. QED  BY <1>1, <1>2, <1>3

(* No step of any operation stores a row outside its type.                  *)
LEMMA TypeStep == TypeOK /\ [Next]_vars => TypeOK'
<1> SUFFICES ASSUME TypeOK, [Next]_vars PROVE TypeOK'
  OBVIOUS
<1> USE DEF TypeOK
<1>1. CASE OrderStep
  <2>1. PICK o \in Orders :
          \/ \E due \in 1 .. MaxDay, gross \in Amounts :
                CreateOrder(o, due, gross) \/ ResubmitOrder(o, due, gross)
          \/ SubmitOrder(o) \/ RequestOrderChange(o) \/ RejectOrder(o)
          \/ ApproveOrder(o)
          \/ \E p \in Procs : CancelOrderRead(p, o)
    BY <1>1 DEF OrderStep
  <2>2. ASSUME NEW due \in 1 .. MaxDay, NEW gross \in Amounts,
               CreateOrder(o, due, gross)
        PROVE  TypeOK'
    BY <2>2, BoundsAssumption DEF CreateOrder, OrderRows, OrderStatus
  <2>3. ASSUME NEW due \in 1 .. MaxDay, NEW gross \in Amounts,
               ResubmitOrder(o, due, gross)
        PROVE  TypeOK'
    BY <2>3, BoundsAssumption DEF ResubmitOrder, OrderRows, OrderStatus
  <2>4. CASE SubmitOrder(o)
    BY <2>4 DEF SubmitOrder, SetStatus, Moved, OrderRows, OrderStatus
  <2>5. CASE RequestOrderChange(o)
    BY <2>5 DEF RequestOrderChange, SetStatus, Moved, OrderRows, OrderStatus
  <2>6. CASE RejectOrder(o)
    BY <2>6 DEF RejectOrder, SetStatus, Moved, OrderRows, OrderStatus
  <2>7. CASE ApproveOrder(o)
    <3>1. Moved(o, "approved") \in OrderRows
      BY DEF Moved, OrderRows, OrderStatus
    <3>2. [status |-> "pending", amount |-> order[o].gross, txn |-> None]
            \in RequestRows
      BY DEF OrderRows, RequestRows, RequestStatus
    <3>. QED  BY <2>7, <3>1, <3>2 DEF ApproveOrder, SetStatus
  <2>8. ASSUME NEW p \in Procs, CancelOrderRead(p, o) PROVE TypeOK'
    BY <2>8 DEF CancelOrderRead, OrderRows, Begin, Transactions
  <2>. QED  BY <2>1, <2>2, <2>3, <2>4, <2>5, <2>6, <2>7, <2>8
<1>2. CASE PaymentStep
  <2>1. CASE AutoMatchPayments
    BY <2>1, AutoMatchType DEF AutoMatchPayments
  <2>2. ASSUME NEW fetched \in SUBSET Txns, SyncBankTransactions(fetched)
        PROVE  TypeOK'
    BY <2>2, AutoMatchType DEF SyncBankTransactions
  <2>3. ASSUME NEW o \in Orders, NEW t \in Txns, ManualMatchPayment(o, t)
        PROVE  TypeOK'
    BY <2>3 DEF ManualMatchPayment, Paid, RequestRows, RequestStatus
  <2>4. ASSUME NEW o \in Orders, ReversePaymentMatch(o) PROVE TypeOK'
    BY <2>4 DEF ReversePaymentMatch, Matchable, RequestRows,
                RequestStatus
  <2>. QED  BY <1>2, <2>1, <2>2, <2>3, <2>4 DEF PaymentStep
<1>3. CASE ShipmentStep
  <2>1. PICK o \in Orders :
          \/ CreateDeliveryUpload(o)
          \/ \E p \in Procs :
               \/ DispatchShipmentRead(p, o) \/ CompleteDeliveryRead(p, o)
               \/ \E d \in Drivers : CreateShipmentReadOrder(p, o, d)
    BY <1>3 DEF ShipmentStep
  <2>2. CASE CreateDeliveryUpload(o)
    BY <2>2 DEF CreateDeliveryUpload
  <2>3. ASSUME NEW p \in Procs, DispatchShipmentRead(p, o) PROVE TypeOK'
    BY <2>3 DEF DispatchShipmentRead, Begin, Transactions
  <2>4. ASSUME NEW p \in Procs, CompleteDeliveryRead(p, o) PROVE TypeOK'
    BY <2>4 DEF CompleteDeliveryRead, Begin, Transactions
  <2>5. ASSUME NEW p \in Procs, NEW d \in Drivers,
               CreateShipmentReadOrder(p, o, d)
        PROVE  TypeOK'
    BY <2>5 DEF CreateShipmentReadOrder, Begin, Transactions
  <2>. QED  BY <2>1, <2>2, <2>3, <2>4, <2>5
<1>4. CASE AdminStep
  <2>1. PICK d \in Drivers :
          \/ ChangeActorRoleToDriver(d) \/ DeactivateOther(d)
          \/ \E p \in Procs : DeactivateActorRead(p, d) \/ ChangeActorRoleRead(p, d)
    BY <1>4 DEF AdminStep
  <2>2. CASE ChangeActorRoleToDriver(d) \/ DeactivateOther(d)
    <3>1. driver[d].active \in BOOLEAN /\ driver[d].version \in Nat
      BY DEF ActorRows
    <3>2. \A active \in BOOLEAN, role \in {"driver", "other"} :
            ActorRow(active, role, d) \in ActorRows
      BY <3>1 DEF ActorRow, ActorRows
    <3>3. driver' \in [Drivers -> ActorRows]
      BY <2>2, <3>1, <3>2 DEF ChangeActorRoleToDriver, DeactivateOther
    <3>. QED  BY <2>2, <3>3 DEF ChangeActorRoleToDriver, DeactivateOther
  <2>3. ASSUME NEW p \in Procs, DeactivateActorRead(p, d) PROVE TypeOK'
    BY <2>3 DEF DeactivateActorRead, ActorRows, Begin, Transactions
  <2>4. ASSUME NEW p \in Procs, ChangeActorRoleRead(p, d) PROVE TypeOK'
    BY <2>4 DEF ChangeActorRoleRead, ActorRows, Begin, Transactions
  <2>. QED  BY <2>1, <2>2, <2>3, <2>4
<1>5. ASSUME NEW p \in Procs, ContinueStep(p) PROVE TypeOK'
  <2>1. CASE CancelOrderCommit(p)
    <3>1. tx[p].order \in Orders
      BY <2>1 DEF CancelOrderCommit
    <3>2. Moved(tx[p].order, "cancelled") \in OrderRows
      BY <3>1 DEF Moved, OrderRows, OrderStatus
    <3>3. [request[tx[p].order] EXCEPT !.status = "cancelled"] \in RequestRows
      <4>1. request[tx[p].order] \in RequestRows
        BY <3>1
      <4>2. \A r \in RequestRows :
              [r EXCEPT !.status = "cancelled"] \in RequestRows
        BY DEF RequestRows, RequestStatus
      <4>. QED  BY <4>1, <4>2
    <3>4. Idle \in Transactions
      BY DEF Idle, Transactions
    <3>. QED  BY <2>1, <3>1, <3>2, <3>3, <3>4
              DEF CancelOrderCommit, CancelRequest, SetStatus, Finish, Idle
  <2>2. CASE CreateShipmentReadDriver(p)
    BY <2>2 DEF CreateShipmentReadDriver, Continue, Transactions
  <2>3. CASE CreateShipmentReadInvariant(p)
    <3>1. liveness[tx[p].driver] \in Nat
      BY <2>3 DEF CreateShipmentReadInvariant
    <3>. QED  BY <2>3, <3>1 DEF CreateShipmentReadInvariant, Continue,
                                Transactions
  <2>4. CASE CreateShipmentCommit(p)
    BY <2>4 DEF CreateShipmentCommit, OrderRows, Finish, Idle, Transactions,
                ShipmentRows, ShipmentStatus
  <2>5. CASE DispatchShipmentCommit(p)
    <3>1. [shipment[tx[p].order] EXCEPT !.status = "out_for_delivery"]
            \in ShipmentRows
      BY <2>5 DEF DispatchShipmentCommit, ShipmentRows, ShipmentStatus
    <3>. QED  BY <2>5, <3>1 DEF DispatchShipmentCommit, Finish, Idle, Transactions
  <2>6. CASE CompleteDeliveryCommit(p)
    <3>1. [shipment[tx[p].order] EXCEPT !.status = "delivered"] \in ShipmentRows
      BY <2>6 DEF CompleteDeliveryCommit, ShipmentRows, ShipmentStatus
    <3>2. [exists |-> TRUE, gross |-> order[tx[p].order].gross, day |-> today]
            \in ReceiptRows
      BY <2>6 DEF CompleteDeliveryCommit, OrderRows, ReceiptRows
    <3>. QED  BY <2>6, <3>1, <3>2
              DEF CompleteDeliveryCommit, Finish, Idle, Transactions
  <2>7. CASE DeactivateActorReadInvariant(p)
    BY <2>7 DEF DeactivateActorReadInvariant, Continue, Transactions
  <2>8. CASE DeactivateActorCommit(p)
    BY <2>8 DEF DeactivateActorCommit, ActorRow, ActorRows, Finish, Idle, Transactions
  <2>9. CASE ChangeActorRoleCommit(p)
    BY <2>9 DEF ChangeActorRoleCommit, ActorRow, ActorRows, Finish, Idle, Transactions
  <2>10. CASE Rollback(p)
    BY <2>10 DEF Rollback, Finish, Idle, Transactions
  <2>. QED  BY <1>5, <2>1, <2>2, <2>3, <2>4, <2>5, <2>6, <2>7, <2>8, <2>9,
               <2>10 DEF ContinueStep
<1>6. CASE NextDay
  BY <1>6 DEF NextDay
<1>7. CASE UNCHANGED vars
  BY <1>7 DEF vars
<1>. QED  BY <1>1, <1>2, <1>3, <1>4, <1>5, <1>6, <1>7 DEF Next

LEMMA TypeInit == Init => TypeOK
<1> SUFFICES ASSUME Init PROVE TypeOK
  OBVIOUS
<1>1. driver \in [Drivers -> ActorRows]
  <2>1. ASSUME NEW row \in [active : {TRUE}, role : {"driver", "other"}, version : {1}]
        PROVE  row \in ActorRows
    BY Zenon, 1 \in Nat, TRUE \in BOOLEAN DEF ActorRows
  <2>. QED  BY <2>1 DEF Init
<1>2. /\ order \in [Orders -> OrderRows] /\ request \in [Orders -> RequestRows]
      /\ txn \in [Txns -> {"absent", "free", "matched"}]
      /\ shipment \in [Orders -> ShipmentRows] /\ receipt \in [Orders -> ReceiptRows]
  BY DEF Init, OrderRows, RequestRows, ShipmentRows, ReceiptRows, NoOrder, NoRequest,
         NoShipment, NoReceipt, OrderStatus, RequestStatus, ShipmentStatus
<1>3. /\ tx \in [Procs -> Transactions]
      /\ \A p \in Procs : tx[p].step = "idle"
  BY DEF Init, Transactions, Idle
<1>. QED  BY <1>1, <1>2, <1>3 DEF Init, TypeOK

(* TypeOK is an invariant: no operation, in any interleaving, stores a row  *)
(* outside its type.                                                        *)
THEOREM TypeCorrect == Spec => []TypeOK
  BY TypeInit, TypeStep, PTL DEF Spec

-----------------------------------------------------------------------------
(* Steps that touch neither the money rows nor the lock keep the money      *)
(* invariant when they let no shipment leave and cancel no order.           *)
LEMMA MoneyUntouched ==
    ASSUME MoneyInv, TypeOK', UNCHANGED <<request, txn, payLock>>,
           \A o \in Orders : Left(o)' => Left(o),
           \A o \in Orders : order'[o].status = "cancelled"
                            <=> order[o].status = "cancelled",
           \A p \in Procs : \/ tx'[p] = tx[p]
                            \/ /\ tx'[p].step \notin {"cancel", "dispatch"}
                               /\ tx[p].step \notin {"cancel", "dispatch"}
    PROVE  MoneyInv'
<1>1. LockHeldByReader'
  BY DEF MoneyInv, LockHeldByReader
<1>2. ReadsStayTrue'
  BY DEF MoneyInv, ReadsStayTrue
<1>3. PrepaidLeavesOnlyPaid'
  BY PrepaidAssumption DEF MoneyInv, PrepaidLeavesOnlyPaid
<1>4. MatchIsOneToOne'
  BY DEF MoneyInv, MatchIsOneToOne
<1>5. CancelledOrderHoldsNoMoney'
  BY DEF MoneyInv, CancelledOrderHoldsNoMoney
<1>. QED  BY <1>1, <1>2, <1>3, <1>4, <1>5 DEF MoneyInv

(* While nobody holds the lock, a step that keeps orders, shipments and     *)
(* transactions keeps the parts of the invariant about the lock.            *)
LEMMA NobodyReads ==
    ASSUME MoneyInv, LockFree, UNCHANGED <<payLock, tx>>
    PROVE  LockHeldByReader' /\ ReadsStayTrue'
<1>1. \A p \in Procs : tx[p].step \notin {"cancel", "dispatch"}
  BY NobodyAssumption DEF MoneyInv, LockHeldByReader, LockFree
<1>2. LockHeldByReader'
  BY DEF MoneyInv, LockHeldByReader
<1>. QED  BY <1>1, <1>2 DEF ReadsStayTrue

(* What automatic matching does to one request: nothing, manual review, or  *)
(* payment by its unique credit; and every unique pair is matched.          *)
LEMMA AutoMatchFacts ==
    ASSUME NEW imported \in SUBSET Txns, AutoMatch(imported), NEW o \in Orders,
           NEW credits, credits = {t \in Txns : txn[t] = "free"} \cup imported
    PROVE  /\ \/ request'[o] = request[o]
              \/ Candidate(o) /\ request'[o] = [request[o] EXCEPT !.status = "manual_review"]
              \/ \E t \in credits : UniquePair(o, t, credits) /\ request'[o] = Paid(o, t)
           /\ \A t \in credits : UniquePair(o, t, credits) => request'[o] = Paid(o, t)
<1>1. request'[o] = AutoMatchedRequest(o, credits)
  BY DEF AutoMatch
<1>2. CASE \E t \in credits : UniquePair(o, t, credits)
  <2>1. PICK t \in credits : UniquePair(o, t, credits)
    BY <1>2
  <2> DEFINE c == CHOOSE u \in credits : UniquePair(o, u, credits)
  <2>2. c \in credits /\ UniquePair(o, c, credits)
    BY <2>1
  <2>3. \A u \in credits : UniquePair(o, u, credits) => u = c
    BY <2>2 DEF UniquePair
  <2>4. request'[o] = Paid(o, c)
    BY <1>1, <1>2 DEF AutoMatchedRequest
  <2>. QED  BY <2>2, <2>3, <2>4
<1>3. CASE ~ \E t \in credits : UniquePair(o, t, credits)
  BY <1>1, <1>3 DEF AutoMatchedRequest
<1>. QED  BY <1>2, <1>3
(* Automatic matching, with or without an import of new credits, keeps the  *)
(* money invariant.                                                         *)
LEMMA AutoMatchKeepsMoneyInv ==
    ASSUME MoneyInv, TypeOK', LockFree, NEW imported \in SUBSET Txns,
           \A t \in imported : txn[t] = "absent", AutoMatch(imported),
           UNCHANGED <<order, shipment, payLock, tx>>
    PROVE  MoneyInv'
<1> DEFINE credits == {t \in Txns : txn[t] = "free"} \cup imported
<1>1. /\ TypeOK /\ PrepaidLeavesOnlyPaid /\ MatchIsOneToOne
      /\ CancelledOrderHoldsNoMoney
  BY DEF MoneyInv
<1>2. \A t \in credits : t \in Txns /\ txn[t] # "matched"
  OBVIOUS
<1>3. \A o \in Orders :
        /\ \/ request'[o] = request[o]
           \/ Candidate(o) /\ request'[o].status = "manual_review"
           \/ \E t \in credits : UniquePair(o, t, credits) /\ request'[o] = Paid(o, t)
        /\ \A t \in credits : UniquePair(o, t, credits) => request'[o] = Paid(o, t)
  <2> SUFFICES ASSUME NEW o \in Orders
               PROVE  /\ \/ request'[o] = request[o]
                         \/ Candidate(o) /\ request'[o].status = "manual_review"
                         \/ \E t \in credits : /\ UniquePair(o, t, credits)
                                              /\ request'[o] = Paid(o, t)
                      /\ \A t \in credits :
                           UniquePair(o, t, credits) => request'[o] = Paid(o, t)
    OBVIOUS
  <2>1. request[o] \in RequestRows
    BY <1>1 DEF TypeOK
  <2>2. [request[o] EXCEPT !.status = "manual_review"].status = "manual_review"
    BY <2>1 DEF RequestRows
  <2> HIDE DEF credits
  <2>3. credits = {t \in Txns : txn[t] = "free"} \cup imported
    BY DEF credits
  <2>. QED  BY <2>2, <2>3, AutoMatchFacts
<1>4. txn' = [t \in Txns |->
                IF \E o \in Orders : t \in credits /\ UniquePair(o, t, credits)
                THEN "matched"
                ELSE IF t \in imported THEN "free" ELSE txn[t]]
  BY DEF AutoMatch
<1>5. \A o \in Orders : \A t \in credits : UniquePair(o, t, credits) =>
        /\ Candidate(o)
        /\ TxnAmount[t] = request[o].amount
        /\ \A u \in Orders : UniquePair(u, t, credits) => u = o
  BY DEF UniquePair, Edges, SameAmountAndTime
<1> HIDE DEF credits
<1>6. \A o \in Orders : request[o].status = "paid" => request'[o] = request[o]
  BY <1>3, <1>5 DEF Candidate
<1>7. \A t \in Txns : txn[t] = "matched" => txn'[t] = "matched"
  BY <1>1, <1>4 DEF TypeOK
<1>8. MatchIsOneToOne'
  <2>1. ASSUME NEW o \in Orders, request'[o].status = "paid"
        PROVE  \/ request[o].status = "paid" /\ request'[o] = request[o]
               \/ \E t \in credits : UniquePair(o, t, credits) /\ request'[o] = Paid(o, t)
    BY <1>3, <2>1
  <2>2. ASSUME NEW o \in Orders, request'[o].status = "paid"
        PROVE  /\ request'[o].txn \in Txns
               /\ txn'[request'[o].txn] = "matched"
               /\ request'[o].amount = TxnAmount[request'[o].txn]
    <3>1. CASE request[o].status = "paid" /\ request'[o] = request[o]
      BY <1>1, <1>7, <3>1 DEF MatchIsOneToOne
    <3>2. ASSUME NEW t \in credits, UniquePair(o, t, credits),
                 request'[o] = Paid(o, t)
          PROVE  /\ request'[o].txn \in Txns
                 /\ txn'[request'[o].txn] = "matched"
                 /\ request'[o].amount = TxnAmount[request'[o].txn]
      <4>1. request'[o].txn = t /\ request'[o].amount = request[o].amount
        BY <3>2 DEF Paid
      <4>. QED  BY <1>2, <1>4, <1>5, <3>2, <4>1
    <3>. QED  BY <2>1, <2>2, <3>1, <3>2
  <2>3. ASSUME NEW o \in Orders, NEW u \in Orders, u # o,
               request'[o].status = "paid", request'[u].status = "paid"
        PROVE  request'[u].txn # request'[o].txn
    <3>1. \A t : Paid(o, t).txn = t /\ Paid(u, t).txn = t
      BY DEF Paid
    <3>. QED  BY <1>1, <1>2, <1>5, <2>1, <2>3, <3>1 DEF MatchIsOneToOne
  <2>4. ASSUME NEW t \in Txns, txn'[t] = "matched"
        PROVE  \E o \in Orders : request'[o].status = "paid" /\ request'[o].txn = t
    <3>1. CASE txn[t] = "matched"
      BY <1>1, <1>6, <3>1 DEF MatchIsOneToOne
    <3>2. CASE \E o \in Orders : t \in credits /\ UniquePair(o, t, credits)
      <4>1. PICK o \in Orders : t \in credits /\ UniquePair(o, t, credits)
        BY <3>2
      <4>2. request'[o] = Paid(o, t)
        BY <1>3, <4>1
      <4>. QED  BY <4>2 DEF Paid
    <3>. QED  BY <1>4, <2>4, <3>1, <3>2
  <2>. QED  BY <2>2, <2>3, <2>4 DEF MatchIsOneToOne
<1>9. CancelledOrderHoldsNoMoney'
  <2>1. \A o \in Orders : request[o].status \in {"none", "cancelled"}
                         => request'[o] = request[o]
    BY <1>3, <1>5 DEF Candidate
  <2>2. \A o \in Orders : request'[o].status = "cancelled" => request[o].status = "cancelled"
    <3>1. \A o, t : Paid(o, t).status = "paid"
      BY DEF Paid
    <3>. QED  BY <1>3, <3>1
  <2>. QED  BY <1>1, <2>1, <2>2 DEF CancelledOrderHoldsNoMoney
<1>10. PrepaidLeavesOnlyPaid'
  BY <1>1, <1>6, PrepaidAssumption DEF PrepaidLeavesOnlyPaid, Left
<1>. QED  BY <1>8, <1>9, <1>10, NobodyReads DEF MoneyInv
-----------------------------------------------------------------------------
(* One step at a time: the operations that neither touch money nor lock.    *)

LEMMA OrderStepMoney ==
    ASSUME MoneyInv, TypeOK', NEW o \in Orders,
           \/ \E due \in 1 .. MaxDay, gross \in Amounts :
                CreateOrder(o, due, gross) \/ ResubmitOrder(o, due, gross)
           \/ SubmitOrder(o) \/ RequestOrderChange(o) \/ RejectOrder(o)
    PROVE  MoneyInv'
<1>1. order \in [Orders -> OrderRows]
  BY DEF MoneyInv, TypeOK
<1>2. /\ UNCHANGED <<request, txn, shipment, payLock, tx>>
      /\ \E r : /\ order' = [order EXCEPT ![o] = r]
              /\ r.status # "cancelled"
              /\ order[o].status # "cancelled"
  BY DEF CreateOrder, ResubmitOrder, SubmitOrder, RequestOrderChange, RejectOrder,
         SetStatus, Moved, CanMove, OrderMoves
<1>3. \A u \in Orders : order'[u].status = "cancelled"
                       <=> order[u].status = "cancelled"
  BY <1>1, <1>2
<1>. QED  BY <1>2, <1>3, MoneyUntouched DEF Left

LEMMA ContinueMoney ==
    ASSUME MoneyInv, TypeOK', NEW p \in Procs,
           \/ CreateShipmentReadDriver(p) \/ CreateShipmentReadInvariant(p)
           \/ CreateShipmentCommit(p) \/ CompleteDeliveryCommit(p)
           \/ DeactivateActorReadInvariant(p) \/ DeactivateActorCommit(p)
           \/ ChangeActorRoleCommit(p)
    PROVE  MoneyInv'
<1>1. shipment \in [Orders -> ShipmentRows] /\ tx \in [Procs -> Transactions]
  BY DEF MoneyInv, TypeOK
<1>2. UNCHANGED <<order, request, txn, payLock>>
  BY DEF CreateShipmentReadDriver, CreateShipmentReadInvariant,
         CreateShipmentCommit, CompleteDeliveryCommit,
         DeactivateActorReadInvariant, DeactivateActorCommit,
         ChangeActorRoleCommit
<1>3. /\ tx[p].step \notin {"cancel", "dispatch"}
      /\ tx'[p].step \notin {"cancel", "dispatch"}
      /\ \A q \in Procs : q # p => tx'[q] = tx[q]
  <2>1. \E r : tx' = [tx EXCEPT ![p] = r] /\ r.step \notin {"cancel", "dispatch"}
    BY DEF CreateShipmentReadDriver, CreateShipmentReadInvariant,
           CreateShipmentCommit, CompleteDeliveryCommit,
           DeactivateActorReadInvariant, DeactivateActorCommit,
           ChangeActorRoleCommit, Continue, Finish, Idle
  <2>2. tx[p].step \notin {"cancel", "dispatch"}
    BY DEF CreateShipmentReadDriver, CreateShipmentReadInvariant,
           CreateShipmentCommit, CompleteDeliveryCommit,
           DeactivateActorReadInvariant, DeactivateActorCommit,
           ChangeActorRoleCommit
  <2>. QED  BY <1>1, <2>1, <2>2
<1>4. \A o \in Orders : Left(o)' => Left(o)
  <2>1. CASE CreateShipmentCommit(p)
    BY <1>1, <2>1 DEF CreateShipmentCommit, Left
  <2>2. CASE CompleteDeliveryCommit(p)
    BY <1>1, <2>2 DEF CompleteDeliveryCommit, Left
  <2>3. CASE UNCHANGED shipment
    BY <2>3 DEF Left
  <2>. QED  BY <2>1, <2>2, <2>3 DEF CreateShipmentReadDriver,
                CreateShipmentReadInvariant, DeactivateActorReadInvariant,
                DeactivateActorCommit, ChangeActorRoleCommit
<1>. QED  BY <1>2, <1>3, <1>4, MoneyUntouched

(* Beginning an operation that does not take the lock.                      *)
LEMMA BeginMoney ==
    ASSUME MoneyInv, TypeOK', NEW p \in Procs,
           \/ \E o \in Orders : CompleteDeliveryRead(p, o)
           \/ \E o \in Orders, d \in Drivers : CreateShipmentReadOrder(p, o, d)
           \/ \E d \in Drivers : DeactivateActorRead(p, d) \/ ChangeActorRoleRead(p, d)
    PROVE  MoneyInv'
<1>1. tx \in [Procs -> Transactions]
  BY DEF MoneyInv, TypeOK
<1>2. /\ UNCHANGED <<order, request, txn, shipment, payLock>>
      /\ tx[p].step \notin {"cancel", "dispatch"}
      /\ tx'[p].step \notin {"cancel", "dispatch"}
      /\ \A q \in Procs : q # p => tx'[q] = tx[q]
  BY <1>1 DEF CompleteDeliveryRead, CreateShipmentReadOrder, DeactivateActorRead,
              ChangeActorRoleRead, Begin
<1>. QED  BY <1>2, MoneyUntouched DEF Left
-----------------------------------------------------------------------------
(* The locked operations.                                                   *)

LEMMA ApproveMoney ==
    ASSUME MoneyInv, TypeOK', NEW o \in Orders, ApproveOrder(o)
    PROVE  MoneyInv'
<1>1. /\ LockHeldByReader' /\ ReadsStayTrue'
      /\ TypeOK /\ PrepaidLeavesOnlyPaid /\ MatchIsOneToOne
      /\ CancelledOrderHoldsNoMoney
  BY NobodyReads DEF ApproveOrder, MoneyInv
<1>2. /\ order[o].status = "submitted"
      /\ order'[o].status = "approved"
      /\ \A u \in Orders : u # o => order'[u] = order[u]
  BY <1>1 DEF ApproveOrder, SetStatus, Moved, CanMove, OrderMoves, TypeOK
<1>3. /\ \A u \in Orders : u # o => request'[u] = request[u]
      /\ \/ request'[o] = request[o]
         \/ /\ request[o].status = "none" /\ request'[o].status = "pending"
      /\ UNCHANGED <<txn, shipment>>
  BY <1>1 DEF ApproveOrder, TypeOK
<1>4. PrepaidLeavesOnlyPaid'
  BY <1>1, <1>3, PrepaidAssumption DEF PrepaidLeavesOnlyPaid, Left
<1>5. MatchIsOneToOne'
  BY <1>1, <1>3 DEF MatchIsOneToOne
<1>6. CancelledOrderHoldsNoMoney'
  BY <1>1, <1>2, <1>3 DEF CancelledOrderHoldsNoMoney
<1>. QED  BY <1>1, <1>4, <1>5, <1>6 DEF MoneyInv

LEMMA LockedReadMoney ==
    ASSUME MoneyInv, TypeOK', NEW p \in Procs, NEW o \in Orders,
           CancelOrderRead(p, o) \/ DispatchShipmentRead(p, o)
    PROVE  MoneyInv'
<1>1. tx \in [Procs -> Transactions] /\ payLock = Nobody /\ payLock' = p
  BY DEF MoneyInv, TypeOK, CancelOrderRead, DispatchShipmentRead, LockFree
<1>2. /\ UNCHANGED <<order, request, txn, shipment>>
      /\ tx'[p].order = o
      /\ \/ tx'[p].step = "cancel" /\ request[o].status # "paid"
         \/ /\ tx'[p].step = "dispatch"
            /\ o \in Prepaid => request[o].status = "paid"
      /\ \A q \in Procs : q # p => tx'[q] = tx[q]
  BY <1>1 DEF CancelOrderRead, DispatchShipmentRead, Begin
<1>3. \A q \in Procs : tx[q].step \notin {"cancel", "dispatch"}
  BY <1>1, NobodyAssumption DEF MoneyInv, LockHeldByReader
<1>4. LockHeldByReader' /\ ReadsStayTrue'
  BY <1>1, <1>2, <1>3 DEF LockHeldByReader, ReadsStayTrue
<1>5. PrepaidLeavesOnlyPaid' /\ MatchIsOneToOne' /\ CancelledOrderHoldsNoMoney'
  BY <1>2 DEF MoneyInv, PrepaidLeavesOnlyPaid, Left, MatchIsOneToOne,
              CancelledOrderHoldsNoMoney
<1>. QED  BY <1>4, <1>5 DEF MoneyInv

(* Ending a locked operation frees the lock and nothing else is read.       *)
LEMMA EndFreesLock ==
    ASSUME MoneyInv, NEW p \in Procs, tx' = [tx EXCEPT ![p] = Idle],
           \/ payLock = p /\ payLock' = Nobody
           \/ payLock # p /\ payLock' = payLock /\ UNCHANGED request
    PROVE  LockHeldByReader' /\ ReadsStayTrue'
<1>1. tx'[p].step = "idle" /\ \A q \in Procs : q # p => tx'[q] = tx[q]
  BY DEF MoneyInv, TypeOK, Idle
<1>2. LockHeldByReader
  BY DEF MoneyInv
<1>3. CASE payLock = p /\ payLock' = Nobody
  <2>1. \A q \in Procs : tx'[q].step \notin {"cancel", "dispatch"}
    BY <1>1, <1>2, <1>3 DEF LockHeldByReader
  <2>. QED  BY <1>3, <2>1, NobodyAssumption DEF LockHeldByReader, ReadsStayTrue
<1>4. CASE payLock # p /\ payLock' = payLock /\ UNCHANGED request
  BY <1>1, <1>2, <1>4 DEF MoneyInv, LockHeldByReader, ReadsStayTrue
<1>. QED  BY <1>3, <1>4

LEMMA CancelCommitMoney ==
    ASSUME MoneyInv, TypeOK', NEW p \in Procs, CancelOrderCommit(p)
    PROVE  MoneyInv'
<1> DEFINE o == tx[p].order
<1>1. /\ TypeOK /\ PrepaidLeavesOnlyPaid /\ MatchIsOneToOne
      /\ CancelledOrderHoldsNoMoney
      /\ o \in Orders /\ request[o].status # "paid" /\ payLock = p
  BY DEF CancelOrderCommit, MoneyInv, ReadsStayTrue, LockHeldByReader, TypeOK
<1>2. LockHeldByReader' /\ ReadsStayTrue'
  BY <1>1, EndFreesLock DEF CancelOrderCommit, Finish
<1>3. /\ order'[o].status = "cancelled"
      /\ \A u \in Orders : u # o => order'[u] = order[u]
  BY <1>1 DEF CancelOrderCommit, SetStatus, Moved, TypeOK
<1>4. /\ request'[o].status \in {"none", "cancelled"}
      /\ \A u \in Orders : u # o => request'[u] = request[u]
      /\ UNCHANGED <<txn, shipment>>
  BY <1>1 DEF CancelOrderCommit, CancelRequest, TypeOK, RequestRows
<1>5. PrepaidLeavesOnlyPaid'
  BY <1>1, <1>4, PrepaidAssumption DEF PrepaidLeavesOnlyPaid, Left
<1>6. MatchIsOneToOne'
  BY <1>1, <1>4 DEF MatchIsOneToOne
<1>7. CancelledOrderHoldsNoMoney'
  BY <1>1, <1>3, <1>4 DEF CancelledOrderHoldsNoMoney
<1>. QED  BY <1>2, <1>5, <1>6, <1>7 DEF MoneyInv

LEMMA DispatchCommitMoney ==
    ASSUME MoneyInv, TypeOK', NEW p \in Procs, DispatchShipmentCommit(p)
    PROVE  MoneyInv'
<1> DEFINE o == tx[p].order
<1>1. /\ TypeOK /\ PrepaidLeavesOnlyPaid
      /\ o \in Orders /\ payLock = p
      /\ o \in Prepaid => request[o].status = "paid"
  BY DEF DispatchShipmentCommit, MoneyInv, ReadsStayTrue, LockHeldByReader, TypeOK
<1>2. LockHeldByReader' /\ ReadsStayTrue'
  BY <1>1, EndFreesLock DEF DispatchShipmentCommit, Finish
<1>3. /\ UNCHANGED <<order, request, txn>>
      /\ \A u \in Orders : u # o => shipment'[u] = shipment[u]
  BY <1>1 DEF DispatchShipmentCommit, TypeOK
<1>4. PrepaidLeavesOnlyPaid'
  BY <1>1, <1>3, PrepaidAssumption DEF PrepaidLeavesOnlyPaid, Left
<1>5. MatchIsOneToOne' /\ CancelledOrderHoldsNoMoney'
  BY <1>3 DEF MoneyInv, MatchIsOneToOne, CancelledOrderHoldsNoMoney
<1>. QED  BY <1>2, <1>4, <1>5 DEF MoneyInv

LEMMA RollbackMoney ==
    ASSUME MoneyInv, TypeOK', NEW p \in Procs, Rollback(p)
    PROVE  MoneyInv'
<1>1. LockHeldByReader' /\ ReadsStayTrue'
  BY EndFreesLock DEF Rollback, Finish
<1>. QED  BY <1>1 DEF Rollback, MoneyInv, PrepaidLeavesOnlyPaid, Left,
                      MatchIsOneToOne, CancelledOrderHoldsNoMoney
LEMMA ManualMatchMoney ==
    ASSUME MoneyInv, TypeOK', NEW o \in Orders, NEW t \in Txns,
           ManualMatchPayment(o, t)
    PROVE  MoneyInv'
<1>1. /\ LockHeldByReader' /\ ReadsStayTrue'
      /\ TypeOK /\ PrepaidLeavesOnlyPaid /\ MatchIsOneToOne
      /\ CancelledOrderHoldsNoMoney
  BY NobodyReads DEF ManualMatchPayment, MoneyInv
<1>2. /\ request[o].status \in {"pending", "manual_review"}
      /\ request[o].amount = TxnAmount[t] /\ txn[t] = "free"
      /\ request'[o] = Paid(o, t) /\ txn'[t] = "matched"
      /\ \A u \in Orders : u # o => request'[u] = request[u]
      /\ \A v \in Txns : v # t => txn'[v] = txn[v]
      /\ UNCHANGED <<order, shipment>>
  BY <1>1 DEF ManualMatchPayment, Candidate, TypeOK
<1>3. /\ request'[o].status = "paid" /\ request'[o].txn = t
      /\ request'[o].amount = request[o].amount
  BY <1>2 DEF Paid
<1>4. PrepaidLeavesOnlyPaid'
  BY <1>1, <1>2, <1>3, PrepaidAssumption DEF PrepaidLeavesOnlyPaid, Left
<1>5. MatchIsOneToOne'
  BY <1>1, <1>2, <1>3 DEF MatchIsOneToOne
<1>6. CancelledOrderHoldsNoMoney'
  BY <1>1, <1>2, <1>3 DEF CancelledOrderHoldsNoMoney
<1>. QED  BY <1>1, <1>4, <1>5, <1>6 DEF MoneyInv

LEMMA ReverseMoney ==
    ASSUME MoneyInv, TypeOK', NEW o \in Orders, ReversePaymentMatch(o)
    PROVE  MoneyInv'
<1> DEFINE t == request[o].txn
<1>1. /\ LockHeldByReader' /\ ReadsStayTrue'
      /\ TypeOK /\ PrepaidLeavesOnlyPaid /\ MatchIsOneToOne
      /\ CancelledOrderHoldsNoMoney
  BY NobodyReads DEF ReversePaymentMatch, InWarehouse, MoneyInv
<1>2. /\ request[o].status = "paid" /\ ~Left(o)
      /\ t \in Txns
      /\ request'[o].status = "pending" /\ txn'[t] = "free"
      /\ \A u \in Orders : u # o => request'[u] = request[u]
      /\ \A v \in Txns : v # t => txn'[v] = txn[v]
      /\ UNCHANGED <<order, shipment>>
  BY <1>1 DEF ReversePaymentMatch, InWarehouse, Matchable, Left, TypeOK, MatchIsOneToOne
<1>3. PrepaidLeavesOnlyPaid'
  BY <1>1, <1>2, PrepaidAssumption DEF PrepaidLeavesOnlyPaid, Left
<1>4. MatchIsOneToOne'
  BY <1>1, <1>2 DEF MatchIsOneToOne
<1>5. CancelledOrderHoldsNoMoney'
  BY <1>1, <1>2 DEF CancelledOrderHoldsNoMoney
<1>. QED  BY <1>1, <1>3, <1>4, <1>5 DEF MoneyInv

-----------------------------------------------------------------------------
(* The money invariant is inductive.                                        *)
LEMMA MoneyStep == MoneyInv /\ [Next]_vars => MoneyInv'
<1> SUFFICES ASSUME MoneyInv, [Next]_vars PROVE MoneyInv'
  OBVIOUS
<1>0. TypeOK'
  BY TypeStep DEF MoneyInv
<1>1. CASE OrderStep
  <2>1. PICK o \in Orders :
          \/ \/ \E due \in 1 .. MaxDay, gross \in Amounts :
                  CreateOrder(o, due, gross) \/ ResubmitOrder(o, due, gross)
             \/ SubmitOrder(o) \/ RequestOrderChange(o) \/ RejectOrder(o)
          \/ ApproveOrder(o)
          \/ \E p \in Procs : CancelOrderRead(p, o)
    BY <1>1 DEF OrderStep
  <2>. QED  BY <1>0, <2>1, OrderStepMoney, ApproveMoney, LockedReadMoney
<1>2. CASE PaymentStep
  <2>1. CASE AutoMatchPayments
    BY <1>0, <2>1, AutoMatchKeepsMoneyInv DEF AutoMatchPayments
  <2>2. ASSUME NEW fetched \in SUBSET Txns, SyncBankTransactions(fetched)
        PROVE  MoneyInv'
    BY <1>0, <2>2, AutoMatchKeepsMoneyInv DEF SyncBankTransactions
  <2>. QED  BY <1>0, <1>2, <2>1, <2>2, ManualMatchMoney, ReverseMoney DEF PaymentStep
<1>3. CASE ShipmentStep
  <2>1. PICK o \in Orders :
          \/ CreateDeliveryUpload(o)
          \/ \E p \in Procs :
               \/ DispatchShipmentRead(p, o)
               \/ CompleteDeliveryRead(p, o)
               \/ \E d \in Drivers : CreateShipmentReadOrder(p, o, d)
    BY <1>3 DEF ShipmentStep
  <2>2. CASE CreateDeliveryUpload(o)
    BY <1>0, <2>2, MoneyUntouched DEF CreateDeliveryUpload, Left
  <2>. QED  BY <1>0, <2>1, <2>2, LockedReadMoney, BeginMoney
<1>4. CASE AdminStep
  <2>1. PICK d \in Drivers :
          \/ ChangeActorRoleToDriver(d) \/ DeactivateOther(d)
          \/ \E p \in Procs : DeactivateActorRead(p, d) \/ ChangeActorRoleRead(p, d)
    BY <1>4 DEF AdminStep
  <2>2. CASE ChangeActorRoleToDriver(d) \/ DeactivateOther(d)
    BY <1>0, <2>2, MoneyUntouched DEF ChangeActorRoleToDriver, DeactivateOther, Left
  <2>. QED  BY <1>0, <2>1, <2>2, BeginMoney
<1>5. ASSUME NEW p \in Procs, ContinueStep(p) PROVE MoneyInv'
  BY <1>0, <1>5, CancelCommitMoney, DispatchCommitMoney, RollbackMoney,
     ContinueMoney DEF ContinueStep
<1>6. CASE NextDay
  BY <1>0, <1>6, MoneyUntouched DEF NextDay, Left
<1>7. CASE UNCHANGED vars
  BY <1>0, <1>7, MoneyUntouched DEF vars, Left
<1>. QED  BY <1>1, <1>2, <1>3, <1>4, <1>5, <1>6, <1>7 DEF Next

LEMMA MoneyInit == Init => MoneyInv
<1> SUFFICES ASSUME Init PROVE MoneyInv
  OBVIOUS
<1>1. TypeOK
  BY TypeInit
<1>2. LockHeldByReader /\ ReadsStayTrue
  BY NobodyAssumption DEF Init, LockHeldByReader, ReadsStayTrue, Idle
<1>3. PrepaidLeavesOnlyPaid /\ MatchIsOneToOne /\ CancelledOrderHoldsNoMoney
  BY PrepaidAssumption DEF Init, PrepaidLeavesOnlyPaid, Left, MatchIsOneToOne,
     CancelledOrderHoldsNoMoney, NoOrder, NoRequest, NoShipment
<1>. QED  BY <1>1, <1>2, <1>3 DEF MoneyInv

(* The money invariant holds in every reachable state.                      *)
THEOREM MoneyInvariant == Spec => []MoneyInv
  BY MoneyInit, MoneyStep, PTL DEF Spec

(* Goods of a prepaid store are out only against a confirmed payment, for   *)
(* any number of orders, credits and concurrent requests.                   *)
THEOREM PaymentGate == Spec => []PrepaidLeavesOnlyPaid
<1>1. MoneyInv => PrepaidLeavesOnlyPaid
  BY DEF MoneyInv
<1>. QED  BY <1>1, MoneyInvariant, PTL

(* Confirmed payments and matched credits always pair up one to one.        *)
THEOREM OneToOneMatching == Spec => []MatchIsOneToOne
<1>1. MoneyInv => MatchIsOneToOne
  BY DEF MoneyInv
<1>. QED  BY <1>1, MoneyInvariant, PTL

(* A cancelled order never holds nor asks for a store's money.              *)
THEOREM CancellationReleasesMoney == Spec => []CancelledOrderHoldsNoMoney
<1>1. MoneyInv => CancelledOrderHoldsNoMoney
  BY DEF MoneyInv
<1>. QED  BY <1>1, MoneyInvariant, PTL

-----------------------------------------------------------------------------
(* What a step does to the goods, one fact per variable.                    *)

(* A closed order stays closed, on the terms it was closed on.              *)
LEMMA ClosedStaysClosed ==
    ASSUME TypeOK, [Next]_vars, NEW u \in Orders, Closed(u)
    PROVE  /\ Closed(u)'
           /\ order'[u].due = order[u].due /\ order'[u].gross = order[u].gross
<1> USE DEF Closed
<1>1. CASE OrderStep
  <2>1. PICK o \in Orders :
          \/ \E due \in 1 .. MaxDay, gross \in Amounts :
                CreateOrder(o, due, gross) \/ ResubmitOrder(o, due, gross)
          \/ SubmitOrder(o) \/ RequestOrderChange(o) \/ RejectOrder(o)
          \/ ApproveOrder(o)
          \/ \E p \in Procs : CancelOrderRead(p, o)
    BY <1>1 DEF OrderStep
  <2>. QED
    BY <2>1 DEF TypeOK, CreateOrder, ResubmitOrder, SubmitOrder, RequestOrderChange,
                RejectOrder, ApproveOrder, CancelOrderRead, SetStatus, CanMove, OrderMoves
<1>2. ASSUME NEW p \in Procs, CancelOrderCommit(p)
      PROVE  /\ Closed(u)'
             /\ order'[u].due = order[u].due /\ order'[u].gross = order[u].gross
  BY <1>2 DEF TypeOK, CancelOrderCommit, SetStatus, Moved
<1>3. CASE UNCHANGED order
  BY <1>3
<1>. QED
  BY <1>1, <1>2, <1>3 DEF Next, PaymentStep, ShipmentStep, AdminStep, ContinueStep, NextDay,
     vars, AutoMatchPayments, SyncBankTransactions, ManualMatchPayment, ReversePaymentMatch,
     CreateDeliveryUpload, DispatchShipmentRead, CompleteDeliveryRead,
     CreateShipmentReadOrder, ChangeActorRoleToDriver, DeactivateOther, DeactivateActorRead,
     ChangeActorRoleRead, CreateShipmentReadDriver, CreateShipmentReadInvariant,
     CreateShipmentCommit, DispatchShipmentCommit, CompleteDeliveryCommit,
     DeactivateActorReadInvariant, DeactivateActorCommit, ChangeActorRoleCommit, Rollback

(* Only approval asks for money, and nothing changes the amount asked for.  *)
LEMMA RequestKeepsAmount ==
    ASSUME TypeOK, [Next]_vars, NEW u \in Orders, request'[u].status # "none"
    PROVE  \/ request[u].status # "none" /\ request'[u].amount = request[u].amount
           \/ order'[u].status = "approved" /\ request'[u].amount = order'[u].gross
<1>1. ASSUME NEW o \in Orders, ApproveOrder(o)
      PROVE  \/ request'[u] = request[u]
             \/ order'[u].status = "approved" /\ request'[u].amount = order'[u].gross
  BY <1>1 DEF TypeOK, ApproveOrder, SetStatus, Moved
<1>2. ASSUME NEW imported \in SUBSET Txns, AutoMatch(imported)
      PROVE  request[u].status # "none" /\ request'[u].amount = request[u].amount
  <2> DEFINE credits == {t \in Txns : txn[t] = "free"} \cup imported
  <2>1. \/ request'[u] = request[u]
        \/ Candidate(u) /\ request'[u] = [request[u] EXCEPT !.status = "manual_review"]
        \/ \E t \in credits : UniquePair(u, t, credits) /\ request'[u] = Paid(u, t)
    <3> HIDE DEF credits
    <3>1. credits = {t \in Txns : txn[t] = "free"} \cup imported
      BY DEF credits
    <3>. QED  BY <1>2, <3>1, AutoMatchFacts
  <2>2. [request[u] EXCEPT !.status = "manual_review"].amount = request[u].amount
    BY DEF TypeOK, RequestRows
  <2>3. \A t \in credits : UniquePair(u, t, credits) => Candidate(u)
    BY DEF UniquePair
  <2>4. CASE request'[u] = request[u]
    BY <1>2, <2>4
  <2> HIDE DEF credits
  <2>5. CASE Candidate(u) /\ request'[u].amount = request[u].amount
    BY <2>5 DEF Candidate
  <2>6. ASSUME NEW t \in credits, UniquePair(u, t, credits), request'[u] = Paid(u, t)
        PROVE  Candidate(u) /\ request'[u].amount = request[u].amount
    BY <2>3, <2>6 DEF Paid
  <2>7. CASE /\ Candidate(u)
             /\ request'[u] = [request[u] EXCEPT !.status = "manual_review"]
    BY <2>2, <2>5, <2>7
  <2>. QED  BY ONLY <2>1, <2>4, <2>5, <2>6, <2>7
<1>3. ASSUME NEW o \in Orders, NEW t \in Txns, ManualMatchPayment(o, t)
      PROVE  request[u].status # "none" /\ request'[u].amount = request[u].amount
  BY <1>3 DEF TypeOK, ManualMatchPayment, Candidate, Paid
<1>4. ASSUME NEW o \in Orders, ReversePaymentMatch(o)
      PROVE  request[u].status # "none" /\ request'[u].amount = request[u].amount
  BY <1>4 DEF TypeOK, ReversePaymentMatch, Matchable
<1>5. ASSUME NEW p \in Procs, CancelOrderCommit(p)
      PROVE  request[u].status # "none" /\ request'[u].amount = request[u].amount
  BY <1>5 DEF TypeOK, RequestRows, CancelOrderCommit, CancelRequest
<1>6. CASE UNCHANGED request
  BY <1>6
<1>. QED
  BY <1>1, <1>2, <1>3, <1>4, <1>5, <1>6 DEF Next, OrderStep, PaymentStep, ShipmentStep,
     AdminStep, ContinueStep, NextDay, vars, CreateOrder, ResubmitOrder, SubmitOrder,
     RequestOrderChange, RejectOrder, CancelOrderRead, AutoMatchPayments,
     SyncBankTransactions, CreateDeliveryUpload, DispatchShipmentRead,
     CompleteDeliveryRead, CreateShipmentReadOrder, ChangeActorRoleToDriver, DeactivateOther,
     DeactivateActorRead, ChangeActorRoleRead, CreateShipmentReadDriver,
     CreateShipmentReadInvariant, CreateShipmentCommit, DispatchShipmentCommit,
     CompleteDeliveryCommit, DeactivateActorReadInvariant, DeactivateActorCommit,
     ChangeActorRoleCommit, Rollback

(* A shipment is begun for an approved order and goes on with that order.   *)
LEMMA ShippingGoesOn ==
    ASSUME TypeOK, [Next]_vars, NEW q \in Procs, tx'[q].step \in ShipSteps
    PROVE  \/ tx[q].step \in ShipSteps /\ tx'[q].order = tx[q].order
           \/ tx'[q].order \in Orders /\ Approved(tx'[q].order)
<1>1. CASE UNCHANGED tx
  BY <1>1
<1>2. ASSUME NEW p \in Procs, NEW r, tx' = [tx EXCEPT ![p] = r],
             r.step \notin ShipSteps
      PROVE  tx[q].step \in ShipSteps /\ tx'[q].order = tx[q].order
  BY <1>2 DEF TypeOK
<1>3. ASSUME NEW p \in Procs, NEW o \in Orders, NEW d \in Drivers,
             CreateShipmentReadOrder(p, o, d)
      PROVE  \/ tx[q].step \in ShipSteps /\ tx'[q].order = tx[q].order
             \/ tx'[q].order \in Orders /\ Approved(tx'[q].order)
  BY <1>3 DEF TypeOK, CreateShipmentReadOrder, Begin
<1>4. ASSUME NEW p \in Procs,
             CreateShipmentReadDriver(p) \/ CreateShipmentReadInvariant(p)
      PROVE  tx[q].step \in ShipSteps /\ tx'[q].order = tx[q].order
  BY <1>4 DEF TypeOK, CreateShipmentReadDriver, CreateShipmentReadInvariant, Continue
<1>5. CASE \E p \in Procs : \/ \E o \in Orders : \/ CancelOrderRead(p, o)
                                                 \/ DispatchShipmentRead(p, o)
                                                 \/ CompleteDeliveryRead(p, o)
                            \/ \E d \in Drivers : \/ DeactivateActorRead(p, d)
                                                  \/ ChangeActorRoleRead(p, d)
                            \/ DeactivateActorReadInvariant(p)
  <2>1. \E p \in Procs, r \in Transactions :
          tx' = [tx EXCEPT ![p] = r] /\ r.step \notin ShipSteps
    BY <1>5, TypeStep
       DEF CancelOrderRead, DispatchShipmentRead, CompleteDeliveryRead,
           DeactivateActorRead, ChangeActorRoleRead, DeactivateActorReadInvariant,
           Begin, Continue, TypeOK, Transactions, ActorRows, OrderRows
  <2>. QED  BY <1>2, <2>1
<1>6. ASSUME NEW p \in Procs, Finish(p)
      PROVE  tx[q].step \in ShipSteps /\ tx'[q].order = tx[q].order
  BY <1>2, <1>6 DEF Finish, Idle
<1>. QED
  BY <1>1, <1>3, <1>4, <1>5, <1>6 DEF Next, OrderStep, PaymentStep, ShipmentStep,
     AdminStep, ContinueStep, NextDay, vars, CreateOrder, ResubmitOrder, SubmitOrder,
     RequestOrderChange, RejectOrder, ApproveOrder, AutoMatchPayments,
     SyncBankTransactions, ManualMatchPayment, ReversePaymentMatch, CreateDeliveryUpload,
     ChangeActorRoleToDriver, DeactivateOther, CancelOrderCommit, CreateShipmentCommit,
     DispatchShipmentCommit, CompleteDeliveryCommit, DeactivateActorCommit,
     ChangeActorRoleCommit, Rollback

(* A shipment is created for the order it was begun for, on its due day,    *)
(* and never goes back.                                                     *)
LEMMA ShipmentGoesOn ==
    ASSUME TypeOK, [Next]_vars, NEW u \in Orders
    PROVE  /\ shipment'[u].status # "none" =>
                \/ /\ shipment[u].status # "none"
                   /\ shipment'[u].planned = shipment[u].planned
                \/ /\ \E p \in Procs : tx[p].step \in ShipSteps /\ tx[p].order = u
                   /\ shipment'[u].planned = order[u].due /\ UNCHANGED order
           /\ shipment[u].status = "delivered" => shipment'[u].status = "delivered"
<1> DEFINE Kept == /\ shipment'[u].status # "none" =>
                        /\ shipment[u].status # "none"
                        /\ shipment'[u].planned = shipment[u].planned
                   /\ shipment[u].status = "delivered" => shipment'[u].status = "delivered"
<1>1. CASE UNCHANGED shipment
  BY <1>1
<1>2. ASSUME NEW p \in Procs, CreateShipmentCommit(p)
      PROVE  \/ Kept
             \/ /\ tx[p].step \in ShipSteps /\ tx[p].order = u
                /\ shipment[u].status # "delivered"
                /\ shipment'[u].planned = order[u].due /\ UNCHANGED order
  BY <1>2 DEF TypeOK, CreateShipmentCommit
<1>3. ASSUME NEW p \in Procs, DispatchShipmentCommit(p) \/ CompleteDeliveryCommit(p)
      PROVE  Kept
  <2>1. tx[p].order \in Orders /\ shipment \in [Orders -> ShipmentRows]
    BY <1>3 DEF TypeOK, DispatchShipmentCommit, CompleteDeliveryCommit
  <2>. QED
    BY <1>3, <2>1 DEF ShipmentRows, DispatchShipmentCommit, CompleteDeliveryCommit
<1>. QED
  BY <1>1, <1>2, <1>3 DEF Next, OrderStep, PaymentStep, ShipmentStep, AdminStep,
     ContinueStep, NextDay, vars, CreateOrder, ResubmitOrder, SubmitOrder,
     RequestOrderChange, RejectOrder, ApproveOrder, CancelOrderRead, AutoMatchPayments,
     SyncBankTransactions, ManualMatchPayment, ReversePaymentMatch, CreateDeliveryUpload,
     DispatchShipmentRead, CompleteDeliveryRead, CreateShipmentReadOrder,
     ChangeActorRoleToDriver, DeactivateOther, DeactivateActorRead, ChangeActorRoleRead,
     CancelOrderCommit,
     CreateShipmentReadDriver, CreateShipmentReadInvariant, DeactivateActorReadInvariant,
     DeactivateActorCommit, ChangeActorRoleCommit, Rollback

(* A receipt is written once, with the delivery, at the order's price.      *)
LEMMA ReceiptGoesOn ==
    ASSUME TypeOK, [Next]_vars, NEW u \in Orders, receipt'[u].exists
    PROVE  \/ receipt[u].exists /\ receipt'[u].gross = receipt[u].gross
           \/ /\ shipment'[u].status = "delivered"
              /\ receipt'[u].gross = order[u].gross /\ UNCHANGED order
<1>1. CASE UNCHANGED receipt
  BY <1>1
<1>2. ASSUME NEW p \in Procs, CompleteDeliveryCommit(p)
      PROVE  \/ receipt[u].exists /\ receipt'[u].gross = receipt[u].gross
             \/ /\ shipment'[u].status = "delivered"
                /\ receipt'[u].gross = order[u].gross /\ UNCHANGED order
  <2>1. tx[p].order \in Orders /\ shipment \in [Orders -> ShipmentRows]
        /\ receipt \in [Orders -> ReceiptRows]
    BY <1>2 DEF TypeOK, CompleteDeliveryCommit
  <2>. QED  BY <1>2, <2>1 DEF ShipmentRows, CompleteDeliveryCommit
<1>. QED
  BY <1>1, <1>2 DEF Next, OrderStep, PaymentStep, ShipmentStep, AdminStep,
     ContinueStep, NextDay, vars, CreateOrder, ResubmitOrder, SubmitOrder,
     RequestOrderChange, RejectOrder, ApproveOrder, CancelOrderRead, AutoMatchPayments,
     SyncBankTransactions, ManualMatchPayment, ReversePaymentMatch, CreateDeliveryUpload,
     DispatchShipmentRead, CompleteDeliveryRead, CreateShipmentReadOrder,
     ChangeActorRoleToDriver, DeactivateOther, DeactivateActorRead, ChangeActorRoleRead,
     CancelOrderCommit,
     CreateShipmentReadDriver, CreateShipmentReadInvariant, CreateShipmentCommit,
     DispatchShipmentCommit, DeactivateActorReadInvariant, DeactivateActorCommit,
     ChangeActorRoleCommit, Rollback

(* The invariant of the goods is inductive.                                 *)
LEMMA GoodsStep == GoodsInv /\ [Next]_vars => GoodsInv'
<1> SUFFICES ASSUME GoodsInv, [Next]_vars PROVE GoodsInv'
  OBVIOUS
<1>1. MoneyInv' /\ TypeOK
  BY MoneyStep DEF GoodsInv, MoneyInv
<1>2. ShipmentFollowsApproval'
  <2> SUFFICES ASSUME NEW u \in Orders, shipment'[u].status # "none"
               PROVE  Closed(u)' /\ shipment'[u].planned = order'[u].due
    BY DEF ShipmentFollowsApproval, Closed
  <2>1. CASE /\ shipment[u].status # "none"
             /\ shipment'[u].planned = shipment[u].planned
    <3>1. Closed(u) /\ shipment[u].planned = order[u].due
      BY <2>1 DEF GoodsInv, ShipmentFollowsApproval, Closed
    <3>. QED  BY <1>1, <2>1, <3>1, ClosedStaysClosed
  <2>2. CASE /\ \E p \in Procs : tx[p].step \in ShipSteps /\ tx[p].order = u
             /\ shipment'[u].planned = order[u].due /\ UNCHANGED order
    BY <2>2 DEF GoodsInv, Closed
  <2>. QED  BY <1>1, <2>1, <2>2, ShipmentGoesOn
<1>3. ASSUME NEW u \in Orders, request'[u].status # "none"
      PROVE  Closed(u)' /\ request'[u].amount = order'[u].gross
  <2>1. CASE request[u].status # "none" /\ request'[u].amount = request[u].amount
    BY <1>1, <2>1, ClosedStaysClosed DEF GoodsInv
  <2>2. CASE order'[u].status = "approved" /\ request'[u].amount = order'[u].gross
    BY <2>2 DEF Closed
  <2>. QED  BY <1>1, <1>3, <2>1, <2>2, RequestKeepsAmount
<1>4. ASSUME NEW q \in Procs, tx'[q].step \in ShipSteps
      PROVE  Closed(tx[q].order)'
  <2>1. PICK u \in Orders : u = tx'[q].order
    BY <1>1, <1>4 DEF MoneyInv, TypeOK
  <2>2. Closed(u)
    BY <1>1, <1>4, <2>1, ShippingGoesOn DEF GoodsInv, Approved, Closed
  <2>3. Closed(u)'
    BY <1>1, <2>2, ClosedStaysClosed
  <2>. QED  BY <2>1, <2>3 DEF Closed
<1>5. ASSUME NEW u \in Orders, receipt'[u].exists
      PROVE  shipment'[u].status = "delivered" /\ receipt'[u].gross = order'[u].gross
  <2>1. CASE receipt[u].exists /\ receipt'[u].gross = receipt[u].gross
    <3>1. shipment[u].status = "delivered" /\ receipt[u].gross = order[u].gross
      BY <2>1 DEF GoodsInv
    <3>2. Closed(u)
      BY <3>1 DEF GoodsInv, ShipmentFollowsApproval, Closed
    <3>. QED  BY <1>1, <2>1, <3>1, <3>2, ClosedStaysClosed, ShipmentGoesOn
  <2>. QED  BY <1>1, <1>5, <2>1, ReceiptGoesOn
<1>. QED  BY <1>1, <1>2, <1>3, <1>4, <1>5 DEF GoodsInv, Closed

LEMMA GoodsInit == Init => GoodsInv
<1> SUFFICES ASSUME Init PROVE GoodsInv
  OBVIOUS
<1>1. /\ \A o \in Orders : /\ request[o].status = "none" /\ shipment[o].status = "none"
                            /\ ~ receipt[o].exists
      /\ \A p \in Procs : tx[p].step = "idle"
  BY DEF Init, NoRequest, NoShipment, NoReceipt, Idle
<1>. QED  BY <1>1, MoneyInit DEF GoodsInv, ShipmentFollowsApproval

THEOREM GoodsInvariant == Spec => []GoodsInv
  BY GoodsInit, GoodsStep, PTL DEF Spec

(* No delivery is prepared without approval or for another day than the     *)
(* order's, whatever happens to the order between the reads and the commit  *)
(* of createShipment.                                                       *)
THEOREM ApprovedShipments == Spec => []ShipmentFollowsApproval
<1>1. GoodsInv => ShipmentFollowsApproval
  BY DEF GoodsInv
<1>. QED  BY <1>1, GoodsInvariant, PTL

(* What is billed is what was approved and, for a prepaid store, what was   *)
(* asked for and what the credit paid.                                      *)
THEOREM BilledIsPaid == Spec => []BilledAmountIsPaidAmount
<1>1. GoodsInv => BilledAmountIsPaidAmount
  <2> SUFFICES ASSUME GoodsInv, NEW o \in Orders, receipt[o].exists
               PROVE  /\ receipt[o].gross = order[o].gross
                      /\ o \in Prepaid => /\ receipt[o].gross = request[o].amount
                                         /\ receipt[o].gross = TxnAmount[request[o].txn]
    BY DEF BilledAmountIsPaidAmount
  <2>1. shipment[o].status = "delivered" /\ receipt[o].gross = order[o].gross
    BY DEF GoodsInv
  <2>2. ASSUME o \in Prepaid
        PROVE  /\ receipt[o].gross = request[o].amount
               /\ receipt[o].gross = TxnAmount[request[o].txn]
    <3>1. request[o].status = "paid"
      BY <2>1, <2>2 DEF GoodsInv, MoneyInv, PrepaidLeavesOnlyPaid, Left
    <3>2. request[o].amount = order[o].gross
      BY <3>1 DEF GoodsInv
    <3>3. request[o].amount = TxnAmount[request[o].txn]
      BY <3>1 DEF GoodsInv, MoneyInv, MatchIsOneToOne
    <3>. QED  BY <2>1, <3>2, <3>3
  <2>. QED  BY <2>1, <2>2
<1>. QED  BY <1>1, GoodsInvariant, PTL

-----------------------------------------------------------------------------
(* A goods receipt is final: what was delivered, what it cost and, for a    *)
(* prepaid store, the payment it was delivered against never change again.  *)
Delivered(o) == receipt[o].exists
DeliveryIsFinal ==
  [][\A o \in Orders : Delivered(o) =>
       /\ receipt'[o] = receipt[o]
       /\ order'[o].gross = order[o].gross
       /\ o \in Prepaid => request'[o] = request[o]
                           /\ txn'[request[o].txn] = "matched"]_vars

(* A confirmed payment of goods that have left is left alone.               *)
LEMMA PaymentStays ==
    ASSUME MoneyInv, MoneyInv', [Next]_vars, NEW u \in Orders, request[u].status = "paid", Left(u)
    PROVE  request'[u] = request[u]
<1>1. TypeOK
  BY DEF MoneyInv
<1>2. ASSUME NEW imported \in SUBSET Txns, AutoMatch(imported)
      PROVE  request'[u] = request[u]
  BY <1>2 DEF AutoMatch, AutoMatchedRequest, UniquePair, Candidate
<1>3. ASSUME NEW o \in Orders, NEW t \in Txns, ManualMatchPayment(o, t)
      PROVE  request'[u] = request[u]
  BY <1>1, <1>3 DEF TypeOK, ManualMatchPayment, Candidate
<1>4. ASSUME NEW o \in Orders, ReversePaymentMatch(o)
      PROVE  request'[u] = request[u]
  BY <1>1, <1>4 DEF TypeOK, ReversePaymentMatch, InWarehouse, Left
<1>5. ASSUME NEW o \in Orders, ApproveOrder(o)
      PROVE  request'[u] = request[u]
  BY <1>1, <1>5 DEF TypeOK, ApproveOrder
<1>6. ASSUME NEW p \in Procs, CancelOrderCommit(p)
      PROVE  request'[u] = request[u]
  <2>1. tx[p].step = "cancel" /\ request[tx[p].order].status # "paid"
    BY <1>6 DEF CancelOrderCommit, MoneyInv, ReadsStayTrue
  <2>. QED
    BY <1>1, <1>6, <2>1 DEF TypeOK, CancelOrderCommit, CancelRequest
<1>7. CASE UNCHANGED request
  BY <1>7
<1>. QED
  BY <1>2, <1>3, <1>4, <1>5, <1>6, <1>7 DEF Next, OrderStep, PaymentStep, ShipmentStep,
     AdminStep, ContinueStep, NextDay, vars, CreateOrder, ResubmitOrder, SubmitOrder,
     RequestOrderChange, RejectOrder, CancelOrderRead, AutoMatchPayments,
     SyncBankTransactions, CreateDeliveryUpload, DispatchShipmentRead, CompleteDeliveryRead,
     CreateShipmentReadOrder, ChangeActorRoleToDriver, DeactivateOther, DeactivateActorRead,
     ChangeActorRoleRead, CreateShipmentReadDriver, CreateShipmentReadInvariant,
     CreateShipmentCommit, DispatchShipmentCommit, CompleteDeliveryCommit,
     DeactivateActorReadInvariant, DeactivateActorCommit, ChangeActorRoleCommit, Rollback

(* A second completion of a delivery does not commit.                       *)
LEMMA ReceiptStays ==
    ASSUME GoodsInv, [Next]_vars, NEW u \in Orders, receipt[u].exists
    PROVE  receipt'[u] = receipt[u]
<1>1. TypeOK /\ shipment[u].status = "delivered"
  BY DEF GoodsInv, MoneyInv
<1>2. ASSUME NEW p \in Procs, CompleteDeliveryCommit(p)
      PROVE  receipt'[u] = receipt[u]
  <2>1. tx[p].order # u
    BY <1>1, <1>2 DEF CompleteDeliveryCommit
  <2>. QED  BY <1>1, <1>2, <2>1 DEF TypeOK, CompleteDeliveryCommit
<1>3. CASE UNCHANGED receipt
  BY <1>3
<1>. QED
  BY <1>2, <1>3 DEF Next, OrderStep, PaymentStep, ShipmentStep, AdminStep,
     ContinueStep, NextDay, vars, CreateOrder, ResubmitOrder, SubmitOrder,
     RequestOrderChange, RejectOrder, ApproveOrder, CancelOrderRead, AutoMatchPayments,
     SyncBankTransactions, ManualMatchPayment, ReversePaymentMatch, CreateDeliveryUpload,
     DispatchShipmentRead, CompleteDeliveryRead, CreateShipmentReadOrder,
     ChangeActorRoleToDriver, DeactivateOther, DeactivateActorRead, ChangeActorRoleRead,
     CancelOrderCommit,
     CreateShipmentReadDriver, CreateShipmentReadInvariant, CreateShipmentCommit,
     DispatchShipmentCommit, DeactivateActorReadInvariant, DeactivateActorCommit,
     ChangeActorRoleCommit, Rollback

(* No later call of anybody, no bank run and no half-finished read of an     *)
(* earlier one changes what a delivery has written down (completeDelivery,   *)
(* cancelOrder, reversePaymentMatch of service.ts).                          *)
THEOREM DeliveriesAreFinal == Spec => DeliveryIsFinal
<1>1. GoodsInv /\ [Next]_vars =>
        [\A o \in Orders : Delivered(o) =>
           /\ receipt'[o] = receipt[o]
           /\ order'[o].gross = order[o].gross
           /\ o \in Prepaid => request'[o] = request[o]
                               /\ txn'[request[o].txn] = "matched"]_vars
  <2> SUFFICES ASSUME GoodsInv, [Next]_vars, NEW o \in Orders, Delivered(o)
               PROVE  /\ receipt'[o] = receipt[o]
                      /\ order'[o].gross = order[o].gross
                      /\ o \in Prepaid => request'[o] = request[o]
                                          /\ txn'[request[o].txn] = "matched"
    OBVIOUS
  <2>1. MoneyInv /\ TypeOK /\ MoneyInv'
    BY MoneyStep DEF GoodsInv, MoneyInv
  <2>2. receipt[o].exists /\ shipment[o].status = "delivered"
    BY DEF Delivered, GoodsInv
  <2>3. Closed(o)
    BY <2>2 DEF GoodsInv, ShipmentFollowsApproval, Closed
  <2>4. ASSUME o \in Prepaid PROVE request'[o] = request[o] /\ txn'[request[o].txn] = "matched"
    <3>1. request[o].status = "paid" /\ Left(o)
      BY <2>1, <2>2, <2>4 DEF MoneyInv, PrepaidLeavesOnlyPaid, Left
    <3>2. request'[o] = request[o]
      BY <2>1, <3>1, PaymentStays
    <3>3. txn'[request'[o].txn] = "matched"
      BY <2>1, <3>1, <3>2 DEF MoneyInv, MatchIsOneToOne
    <3>. QED  BY <3>2, <3>3
  <2>. QED  BY <2>1, <2>2, <2>3, <2>4, ClosedStaysClosed, ReceiptStays
<1>. QED  BY <1>1, GoodsInvariant, PTL DEF Spec, DeliveryIsFinal

-----------------------------------------------------------------------------
(* The driver-liveness row.                                                 *)

(* A step that neither assigns a driver nor changes an account.             *)
LEMMA LivenessUntouched ==
    ASSUME LivenessInv, TypeOK', UNCHANGED <<driver, liveness, dismissed>>,
           \A o \in Orders :
             /\ shipment'[o].driver = shipment[o].driver
             /\ shipment'[o].status = "none" => shipment[o].status = "none",
           \A p \in Procs :
             tx'[p].step \in {"deactivateInvariant", "deactivateCommit"} =>
               \/ /\ tx[p].step \in {"deactivateInvariant", "deactivateCommit"}
                  /\ tx'[p].driver = tx[p].driver /\ tx'[p].version = tx[p].version
               \/ LET d == tx'[p].driver IN
                  driver[d].active /\ tx'[p].version = driver[d].version
    PROVE  LivenessInv'
<1>1. LivenessCountsDecisions'
  <2> SUFFICES ASSUME NEW d \in Drivers
               PROVE  liveness[d] = Cardinality({o \in Orders : shipment'[o].driver = d})
                                    + (IF d \in dismissed THEN 1 ELSE 0)
    BY DEF LivenessCountsDecisions
  <2>1. {o \in Orders : shipment'[o].driver = d} = {o \in Orders : shipment[o].driver = d}
    OBVIOUS
  <2>. QED  BY <2>1 DEF LivenessInv, LivenessCountsDecisions
<1>2. ASSUME NEW p \in Procs, tx'[p].step \in {"deactivateInvariant", "deactivateCommit"}
      PROVE  /\ tx'[p].version <= driver[tx'[p].driver].version
             /\ driver[tx'[p].driver].version = tx'[p].version => driver[tx'[p].driver].active
  <2>1. tx'[p].version \in Nat
    BY DEF TypeOK, Transactions
  <2>. QED  BY <1>2, <2>1 DEF LivenessInv
<1>3. \A o \in Orders : shipment'[o].status = "none" => shipment'[o].driver = None
  BY DEF LivenessInv
<1>. QED  BY <1>1, <1>2, <1>3 DEF LivenessInv

(* A change of an account changes its version, so a deactivation that has   *)
(* read the former one no longer commits.                                   *)
LEMMA AccountChanges ==
    ASSUME LivenessInv, NEW d \in Drivers, NEW row, row.version = driver[d].version + 1,
           driver' = [driver EXCEPT ![d] = row],
           \A p \in Procs :
             tx'[p].step \in {"deactivateInvariant", "deactivateCommit"} => tx'[p] = tx[p]
    PROVE  \A p \in Procs : tx'[p].step \in {"deactivateInvariant", "deactivateCommit"} =>
             /\ tx'[p].version <= driver'[tx'[p].driver].version
             /\ driver'[tx'[p].driver].version = tx'[p].version
                   => driver'[tx'[p].driver].active
<1> SUFFICES ASSUME NEW p \in Procs,
                    tx'[p].step \in {"deactivateInvariant", "deactivateCommit"}
             PROVE  /\ tx[p].version <= driver'[tx[p].driver].version
                    /\ driver'[tx[p].driver].version = tx[p].version
                          => driver'[tx[p].driver].active
  OBVIOUS
<1>1. /\ tx[p].step \in {"deactivateInvariant", "deactivateCommit"}
      /\ tx[p].driver \in Drivers /\ tx[p].version \in Nat
      /\ driver \in [Drivers -> ActorRows]
  BY DEF LivenessInv, TypeOK, Transactions
<1>2. driver[d].version \in Nat
  BY <1>1 DEF ActorRows
<1>3. CASE tx[p].driver = d
  <2>1. tx[p].version <= driver[d].version
    BY <1>1, <1>3 DEF LivenessInv
  <2>. QED  BY <1>1, <1>2, <1>3, <2>1
<1>4. CASE tx[p].driver # d
  BY <1>1, <1>4 DEF LivenessInv
<1>. QED  BY <1>3, <1>4

(* An assignment counts as one, for a driver the order did not have.        *)
LEMMA AssignmentCounts ==
    ASSUME LivenessInv, NEW p \in Procs, CreateShipmentCommit(p)
    PROVE  LivenessCountsDecisions'
<1> DEFINE o == tx[p].order
           d == tx[p].driver
           Of(e) == {u \in Orders : shipment[u].driver = e}
<1>1. /\ o \in Orders /\ d \in Drivers /\ shipment[o].driver = None
      /\ liveness \in [Drivers -> Nat] /\ shipment \in [Orders -> ShipmentRows]
  BY DEF LivenessInv, TypeOK, CreateShipmentCommit
<1>2. /\ shipment'[o].driver = d
      /\ \A u \in Orders : u # o => shipment'[u] = shipment[u]
      /\ liveness'[d] = liveness[d] + 1
      /\ \A e \in Drivers : e # d => liveness'[e] = liveness[e]
      /\ dismissed' = dismissed
  BY <1>1 DEF CreateShipmentCommit, SameLiveness
<1>3. \A e \in Drivers : liveness[e] = Cardinality(Of(e)) + (IF e \in dismissed THEN 1 ELSE 0)
  BY DEF LivenessInv, LivenessCountsDecisions
<1>4. None \notin Drivers
  BY NoneAssumption
<1> SUFFICES ASSUME NEW e \in Drivers
             PROVE  liveness'[e] = Cardinality({u \in Orders : shipment'[u].driver = e})
                                   + (IF e \in dismissed' THEN 1 ELSE 0)
  BY DEF LivenessCountsDecisions
<1>5. CASE e = d
  <2>1. {u \in Orders : shipment'[u].driver = d} = Of(d) \cup {o}
    BY <1>1, <1>2
  <2>2. o \notin Of(d)
    BY <1>1, <1>4
  <2>3. IsFiniteSet(Of(d))
    BY OrdersAssumption, FS_Subset
  <2>4. /\ Cardinality(Of(d)) \in Nat
        /\ Cardinality(Of(d) \cup {o}) = Cardinality(Of(d)) + 1
    BY <2>2, <2>3, FS_AddElement, FS_CardinalityType
  <2>5. d \in Drivers
    BY <1>1
  <2>6. /\ liveness[d] = Cardinality(Of(d)) + (IF d \in dismissed THEN 1 ELSE 0)
        /\ liveness'[d] = liveness[d] + 1 /\ dismissed' = dismissed
    BY <1>2, <1>3, <2>5
  <2> HIDE DEF d, o, Of
  <2>7. liveness'[d] = Cardinality(Of(d) \cup {o}) + (IF d \in dismissed' THEN 1 ELSE 0)
    BY ONLY <2>4, <2>6
  <2>. QED  BY ONLY <1>5, <2>1, <2>7
<1>6. CASE e # d
  <2>1. {u \in Orders : shipment'[u].driver = e} = Of(e)
    BY <1>1, <1>2, <1>4, <1>6
  <2>. QED  BY <1>2, <1>3, <1>6, <2>1
<1>. QED  BY <1>5, <1>6

LEMMA AssignmentLiveness ==
    ASSUME LivenessInv, TypeOK', NEW p \in Procs, CreateShipmentCommit(p)
    PROVE  LivenessInv'
<1>1. tx[p].order \in Orders /\ shipment \in [Orders -> ShipmentRows]
      /\ tx \in [Procs -> Transactions]
  BY DEF LivenessInv, TypeOK, CreateShipmentCommit
<1>2. \A u \in Orders : shipment'[u].status = "none" => shipment'[u].driver = None
  BY <1>1 DEF LivenessInv, CreateShipmentCommit
<1>3. \A q \in Procs : tx'[q].step \in {"deactivateInvariant", "deactivateCommit"} =>
        tx'[q] = tx[q]
  BY <1>1 DEF CreateShipmentCommit, Finish, Idle
<1>. QED  BY <1>2, <1>3, AssignmentCounts DEF LivenessInv, CreateShipmentCommit

(* A deactivation counts as one: while its version holds the driver has     *)
(* been active since it read the account.                                   *)
LEMMA DeactivationLiveness ==
    ASSUME LivenessInv, TypeOK', NEW p \in Procs, DeactivateActorCommit(p)
    PROVE  LivenessInv'
<1> DEFINE d == tx[p].driver
<1>1. /\ d \in Drivers /\ tx \in [Procs -> Transactions]
      /\ driver \in [Drivers -> ActorRows] /\ liveness \in [Drivers -> Nat]
      /\ d \notin dismissed /\ dismissed \subseteq Drivers
      /\ \A e \in dismissed : ~ driver[e].active
  BY DEF LivenessInv, TypeOK, DeactivateActorCommit
<1>2. /\ driver' = [driver EXCEPT ![d] = ActorRow(FALSE, driver[d].role, d)]
      /\ liveness'[d] = liveness[d] + 1
      /\ \A e \in Drivers : e # d => liveness'[e] = liveness[e]
      /\ UNCHANGED shipment
      /\ dismissed' = dismissed \cup {d}
      /\ ~ driver'[d].active
      /\ \A e \in Drivers : e # d => driver'[e] = driver[e]
  BY <1>1 DEF DeactivateActorCommit, SameLiveness, ActorRow
<1>3. LivenessCountsDecisions'
  <2> HIDE DEF d
  <2>1. \A e \in Drivers :
          /\ liveness[e] = Cardinality({o \in Orders : shipment[o].driver = e})
                           + (IF e \in dismissed THEN 1 ELSE 0)
          /\ Cardinality({o \in Orders : shipment[o].driver = e}) \in Nat
    <3>1. \A e \in Drivers : IsFiniteSet({o \in Orders : shipment[o].driver = e})
      BY OrdersAssumption, FS_Subset
    <3>. QED  BY <3>1, FS_CardinalityType DEF LivenessInv, LivenessCountsDecisions
  <2>2. \A e \in Drivers :
          liveness'[e] = Cardinality({o \in Orders : shipment[o].driver = e})
                         + (IF e \in dismissed' THEN 1 ELSE 0)
    <3> SUFFICES ASSUME NEW e \in Drivers
                 PROVE  liveness'[e] = Cardinality({o \in Orders : shipment[o].driver = e})
                                       + (IF e \in dismissed' THEN 1 ELSE 0)
      OBVIOUS
    <3>1. CASE e = d
      BY <1>1, <1>2, <2>1, <3>1
    <3>2. CASE e # d
      BY <1>2, <2>1, <3>2
    <3>. QED  BY <3>1, <3>2
  <2>. QED  BY <1>2, <2>2 DEF LivenessCountsDecisions
<1>4. \A q \in Procs : tx'[q].step \in {"deactivateInvariant", "deactivateCommit"} =>
        tx'[q] = tx[q]
  BY <1>1 DEF DeactivateActorCommit, Finish, Idle
<1>5. ActorRow(FALSE, driver[d].role, d).version = driver[d].version + 1
  BY DEF ActorRow
<1>6. \A q \in Procs : tx'[q].step \in {"deactivateInvariant", "deactivateCommit"} =>
        /\ tx'[q].version <= driver'[tx'[q].driver].version
        /\ driver'[tx'[q].driver].version = tx'[q].version => driver'[tx'[q].driver].active
  <2> HIDE DEF d
  <2>. QED  BY <1>1, <1>2, <1>4, <1>5, AccountChanges
<1>7. \A e \in dismissed' : ~ driver'[e].active
  <2> HIDE DEF d
  <2>. QED  BY <1>1, <1>2
<1>. QED  BY <1>2, <1>3, <1>6, <1>7 DEF LivenessInv

(* A decision that rests on the account alone is not counted: a change of   *)
(* role, or the deactivation of an account of another role.                 *)
LEMMA AccountLiveness ==
    ASSUME LivenessInv, TypeOK', NEW d \in Drivers, NEW role, NEW active \in BOOLEAN,
           active => driver[d].active, UNCHANGED <<shipment, liveness, dismissed>>,
           driver' = [driver EXCEPT ![d] = ActorRow(active, role, d)],
           \A q \in Procs :
             tx'[q].step \in {"deactivateInvariant", "deactivateCommit"} => tx'[q] = tx[q]
    PROVE  LivenessInv'
<1>1. driver \in [Drivers -> ActorRows] /\ dismissed \subseteq Drivers
  BY DEF LivenessInv, TypeOK
<1>2. \A e \in dismissed : ~ driver'[e].active
  BY <1>1 DEF LivenessInv, ActorRow
<1>3. LivenessCountsDecisions'
  BY DEF LivenessInv, LivenessCountsDecisions
<1>4. ActorRow(active, role, d).version = driver[d].version + 1
  BY DEF ActorRow
<1>5. \A q \in Procs : tx'[q].step \in {"deactivateInvariant", "deactivateCommit"} =>
        /\ tx'[q].version <= driver'[tx'[q].driver].version
        /\ driver'[tx'[q].driver].version = tx'[q].version => driver'[tx'[q].driver].active
  BY <1>4, AccountChanges
<1>. QED  BY <1>2, <1>3, <1>5 DEF LivenessInv

(* The other steps neither assign a driver nor change an account.           *)
LEMMA OtherLiveness ==
    ASSUME LivenessInv, TypeOK', UNCHANGED <<driver, liveness, dismissed>>,
           \/ UNCHANGED shipment
           \/ \E p \in Procs : DispatchShipmentCommit(p) \/ CompleteDeliveryCommit(p),
           \/ UNCHANGED tx
           \/ \E p \in Procs : \E o \in Orders :
                 CancelOrderRead(p, o) \/ DispatchShipmentRead(p, o) \/ CompleteDeliveryRead(p, o)
           \/ \E p \in Procs : \E o \in Orders, d \in Drivers : CreateShipmentReadOrder(p, o, d)
           \/ \E p \in Procs : \E d \in Drivers :
                 DeactivateActorRead(p, d) \/ ChangeActorRoleRead(p, d)
           \/ \E p \in Procs :
                 \/ CreateShipmentReadDriver(p) \/ CreateShipmentReadInvariant(p)
                 \/ DeactivateActorReadInvariant(p) \/ Finish(p)
    PROVE  LivenessInv'
<1>1. /\ shipment \in [Orders -> ShipmentRows] /\ tx \in [Procs -> Transactions]
      /\ \A p \in Procs : tx[p].step \in OrderSteps => tx[p].order \in Orders
  BY DEF LivenessInv, TypeOK
<1>2. \A o \in Orders : /\ shipment'[o].driver = shipment[o].driver
                        /\ shipment'[o].status = "none" => shipment[o].status = "none"
  <2>1. CASE UNCHANGED shipment
    BY <2>1
  <2>2. ASSUME NEW p \in Procs, DispatchShipmentCommit(p) \/ CompleteDeliveryCommit(p)
        PROVE  \A o \in Orders : /\ shipment'[o].driver = shipment[o].driver
                                 /\ shipment'[o].status = "none" => shipment[o].status = "none"
    <3>1. tx[p].order \in Orders
      BY <1>1, <2>2 DEF DispatchShipmentCommit, CompleteDeliveryCommit
    <3>. QED
      BY <1>1, <2>2, <3>1 DEF DispatchShipmentCommit, CompleteDeliveryCommit, ShipmentRows
  <2>. QED  BY <2>1, <2>2
<1> DEFINE Deactivating == {"deactivateInvariant", "deactivateCommit"}
<1>3. \A q \in Procs : tx'[q].step \in Deactivating =>
        \/ /\ tx[q].step \in Deactivating
           /\ tx'[q].driver = tx[q].driver /\ tx'[q].version = tx[q].version
        \/ LET d == tx'[q].driver IN
           driver[d].active /\ tx'[q].version = driver[d].version
  <2> SUFFICES ASSUME NEW q \in Procs, tx'[q].step \in Deactivating
               PROVE  \/ /\ tx[q].step \in Deactivating
                         /\ tx'[q].driver = tx[q].driver /\ tx'[q].version = tx[q].version
                      \/ /\ driver[tx'[q].driver].active
                         /\ tx'[q].version = driver[tx'[q].driver].version
    OBVIOUS
  <2>1. CASE tx'[q] = tx[q]
    BY <2>1
  <2>2. ASSUME NEW p \in Procs, NEW r, tx' = [tx EXCEPT ![p] = r], r.step \notin Deactivating
        PROVE  tx'[q] = tx[q]
    BY <1>1, <2>2
  <2>3. ASSUME NEW p \in Procs, NEW d \in Drivers, DeactivateActorRead(p, d)
        PROVE  \/ tx'[q] = tx[q]
               \/ /\ driver[tx'[q].driver].active
                  /\ tx'[q].version = driver[tx'[q].driver].version
    BY <1>1, <2>3 DEF DeactivateActorRead, ActiveDriver, Begin
  <2>4. ASSUME NEW p \in Procs, DeactivateActorReadInvariant(p)
        PROVE  /\ tx[q].step \in Deactivating
               /\ tx'[q].driver = tx[q].driver /\ tx'[q].version = tx[q].version
    BY <1>1, <2>4 DEF DeactivateActorReadInvariant, Continue
  <2>5. ASSUME NEW p \in Procs, NEW o \in Orders,
               CancelOrderRead(p, o) \/ DispatchShipmentRead(p, o) \/ CompleteDeliveryRead(p, o)
        PROVE  tx'[q] = tx[q]
    BY <1>1, <2>5 DEF CancelOrderRead, DispatchShipmentRead, CompleteDeliveryRead, Begin
  <2>6. ASSUME NEW p \in Procs, NEW o \in Orders, NEW d \in Drivers,
               CreateShipmentReadOrder(p, o, d) \/ ChangeActorRoleRead(p, d)
        PROVE  tx'[q] = tx[q]
    BY <1>1, <2>6 DEF CreateShipmentReadOrder, ChangeActorRoleRead, Begin
  <2>7. ASSUME NEW p \in Procs, NEW d \in Drivers, ChangeActorRoleRead(p, d)
        PROVE  tx'[q] = tx[q]
    BY <1>1, <2>7 DEF ChangeActorRoleRead, Begin
  <2>8. ASSUME NEW p \in Procs,
               CreateShipmentReadDriver(p) \/ CreateShipmentReadInvariant(p) \/ Finish(p)
        PROVE  tx'[q] = tx[q]
    BY <1>1, <2>8 DEF CreateShipmentReadDriver, CreateShipmentReadInvariant, Continue,
                      Finish, Idle
  <2>. QED  BY <2>1, <2>3, <2>4, <2>5, <2>6, <2>7, <2>8
<1>. QED  BY <1>2, <1>3, LivenessUntouched

LEMMA LivenessStep == LivenessInv /\ [Next]_vars => LivenessInv'
<1> SUFFICES ASSUME LivenessInv, [Next]_vars PROVE LivenessInv'
  OBVIOUS
<1>1. TypeOK'
  BY TypeStep DEF LivenessInv
<1>2. ASSUME NEW p \in Procs, CreateShipmentCommit(p) PROVE LivenessInv'
  BY <1>1, <1>2, AssignmentLiveness
<1>3. ASSUME NEW p \in Procs, DeactivateActorCommit(p) PROVE LivenessInv'
  BY <1>1, <1>3, DeactivationLiveness
<1>4. ASSUME NEW p \in Procs, ChangeActorRoleCommit(p) PROVE LivenessInv'
  <2>1. tx[p].driver \in Drivers /\ tx \in [Procs -> Transactions]
    BY <1>4 DEF LivenessInv, TypeOK, ChangeActorRoleCommit
  <2>2. \A q \in Procs : tx'[q].step \in {"deactivateInvariant", "deactivateCommit"} =>
          tx'[q] = tx[q]
    BY <1>4, <2>1 DEF ChangeActorRoleCommit, Finish, Idle
  <2>3. driver[tx[p].driver].active \in BOOLEAN
    BY <2>1 DEF LivenessInv, TypeOK, ActorRows
  <2>. QED  BY <1>1, <1>4, <2>1, <2>2, <2>3, AccountLiveness DEF ChangeActorRoleCommit
<1>5. ASSUME NEW d \in Drivers, ChangeActorRoleToDriver(d) \/ DeactivateOther(d)
      PROVE  LivenessInv'
  <2>1. driver[d].active \in BOOLEAN
    BY DEF LivenessInv, TypeOK, ActorRows
  <2>2. CASE ChangeActorRoleToDriver(d)
    BY <1>1, <2>1, <2>2, AccountLiveness DEF ChangeActorRoleToDriver
  <2>3. CASE DeactivateOther(d)
    BY <1>1, <2>3, AccountLiveness DEF DeactivateOther
  <2>. QED  BY <1>5, <2>2, <2>3
<1>6. CASE /\ UNCHANGED <<driver, liveness, dismissed>>
           /\ \/ UNCHANGED shipment
              \/ \E p \in Procs : DispatchShipmentCommit(p) \/ CompleteDeliveryCommit(p)
           /\ \/ UNCHANGED tx
              \/ \E p \in Procs : \E o \in Orders :
                    \/ CancelOrderRead(p, o) \/ DispatchShipmentRead(p, o)
                    \/ CompleteDeliveryRead(p, o)
              \/ \E p \in Procs : \E o \in Orders, d \in Drivers :
                    CreateShipmentReadOrder(p, o, d)
              \/ \E p \in Procs : \E d \in Drivers :
                    DeactivateActorRead(p, d) \/ ChangeActorRoleRead(p, d)
              \/ \E p \in Procs :
                    \/ CreateShipmentReadDriver(p) \/ CreateShipmentReadInvariant(p)
                    \/ DeactivateActorReadInvariant(p) \/ Finish(p)
  BY <1>1, <1>6, OtherLiveness
<1>7. CASE OrderStep
  BY <1>6, <1>7 DEF OrderStep, CreateOrder, ResubmitOrder, SubmitOrder, RequestOrderChange,
                    RejectOrder, ApproveOrder, CancelOrderRead
<1>8. CASE PaymentStep
  BY <1>6, <1>8 DEF PaymentStep, AutoMatchPayments, SyncBankTransactions,
                    ManualMatchPayment, ReversePaymentMatch
<1>9. CASE ShipmentStep
  BY <1>6, <1>9 DEF ShipmentStep, CreateDeliveryUpload, DispatchShipmentRead,
                    CompleteDeliveryRead, CreateShipmentReadOrder
<1>10. CASE AdminStep
  BY <1>5, <1>6, <1>10 DEF AdminStep, DeactivateActorRead, ChangeActorRoleRead
<1>11. ASSUME NEW p \in Procs, ContinueStep(p) PROVE LivenessInv'
  BY <1>2, <1>3, <1>4, <1>6, <1>11
     DEF ContinueStep, CancelOrderCommit, CreateShipmentReadDriver,
         CreateShipmentReadInvariant, DispatchShipmentCommit, CompleteDeliveryCommit,
         DeactivateActorReadInvariant, Rollback
<1>12. CASE NextDay \/ UNCHANGED vars
  BY <1>6, <1>12 DEF NextDay, vars
<1>. QED  BY <1>7, <1>8, <1>9, <1>10, <1>11, <1>12 DEF Next

LEMMA LivenessInit == Init => LivenessInv
<1> SUFFICES ASSUME Init PROVE LivenessInv
  OBVIOUS
<1>1. TypeOK
  BY MoneyInit DEF MoneyInv
<1>2. \A d \in Drivers : {o \in Orders : shipment[o].driver = d} = {}
  BY NoneAssumption DEF Init, NoShipment
<1>3. dismissed = {} /\ \A d \in Drivers : liveness[d] = 0
  BY DEF Init
<1>4. Cardinality({}) = 0
  BY FS_EmptySet
<1>5. LivenessCountsDecisions
  BY <1>2, <1>3, <1>4 DEF LivenessCountsDecisions
<1>. QED  BY <1>1, <1>5 DEF Init, LivenessInv, NoShipment, Idle

(* Each assignment and each deactivation of a driver is counted exactly     *)
(* once in the driver-liveness row, for any number of concurrent requests,  *)
(* whatever the role of the account becomes: of two decisions that read the *)
(* same row only one commits.                                               *)
THEOREM DecisionsAreCounted == Spec => []LivenessCountsDecisions
<1>1. LivenessInv => LivenessCountsDecisions
  BY DEF LivenessInv
<1>. QED  BY <1>1, LivenessInit, LivenessStep, PTL DEF Spec
=============================================================================
