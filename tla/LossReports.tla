----------------------------- MODULE LossReports -----------------------------
(***************************************************************************)
(* What a store lost: goods received and not sold, in the report of a day  *)
(* (wasteReport and buildWasteReport of db/src/pos.ts) and in the summary  *)
(* of a month (buildMonthlySettlementSummary of monthly-settlement.ts, GET *)
(* /settlements/monthly), as receipts are confirmed and sales come in.     *)
(***************************************************************************)
EXTENDS Integers, Sequences, FiniteSets, FiniteSetsExt, SequencesExt

CONSTANTS
    Shops, Goods,      \* stores and products
    LineQuantities,    \* quantities delivered or sold
    Moments,           \* times of confirmations, in slots of three hours UTC
    MaxMonth,          \* bound: months 0 .. MaxMonth
    DaysOfMonth,       \* days of a month
    MaxReceipts, MaxSaleRows  \* bounds

ASSUME LossAssumption ==
    /\ IsFiniteSet(Shops) /\ IsFiniteSet(Goods)
    /\ Moments \subseteq Nat /\ DaysOfMonth \in Nat \ {0} /\ LineQuantities \subseteq Nat
    /\ MaxMonth \in Nat

VARIABLES
    receipts,  \* confirmed receipts: store, time, and what was delivered
    saleRows   \* pos_sales matched to a product: store, day, product, quantity

lossVars == <<receipts, saleRows>>

(* A day has eight slots and begins three slots earlier in Seoul. *)
kstDateOf(moment) == (moment + 3) \div 8
DaysIn(month) == month * DaysOfMonth .. (month + 1) * DaysOfMonth - 1

Sum(f) == FoldFunction(LAMBDA x, y : x + y, 0, f)
Over(received, sold) == IF received > sold THEN received - sold ELSE 0
(* A share in tenths of a percent, rounded half up; -1 is null. *)
Rate(waste, received) == IF received > 0 THEN (2000 * waste + received) \div (2 * received) ELSE -1

-----------------------------------------------------------------------------
(* What comes in.  A line is linked when its order still has it.           *)

ConfirmReceipt(shop, moment, line, linked) ==
    /\ Len(receipts) < MaxReceipts
    /\ receipts' = Append(receipts, [shop |-> shop, at |-> moment, quantity |-> line, linked |-> linked])
    /\ UNCHANGED saleRows

SellAt(shop, day, product, quantity) ==
    /\ Len(saleRows) < MaxSaleRows
    /\ saleRows' = Append(saleRows, [shop |-> shop, day |-> day, product |-> product, quantity |-> quantity])
    /\ UNCHANGED receipts

-----------------------------------------------------------------------------
(* The reports.                                                            *)

ReceiptsOf(shop, days) == {r \in DOMAIN receipts : receipts[r].shop = shop /\ kstDateOf(receipts[r].at) \in days}
Linked(rs) == {r \in rs : receipts[r].linked}
Received(rs, product) == Sum([r \in rs |-> receipts[r].quantity[product]])

SalesOf(shop, days, product) ==
    {s \in DOMAIN saleRows : /\ saleRows[s].shop = shop /\ saleRows[s].day \in days
                             /\ saleRows[s].product = product}
productTotals(shop, days, product) == Sum([s \in SalesOf(shop, days, product) |-> saleRows[s].quantity])

(* A day: lines without an order line are not joined; no receipt, no loss. *)
DayReceipts(shop, day) == Linked(ReceiptsOf(shop, {day}))
DayItems(shop, day) ==
    [product \in Goods |->
        [received |-> Received(DayReceipts(shop, day), product),
         sold |-> productTotals(shop, {day}, product)]]
buildWasteReport(shop, day) ==
    LET items == DayItems(shop, day)
        received == Sum([p \in Goods |-> items[p].received])
        waste == Sum([p \in Goods |-> Over(items[p].received, items[p].sold)])
    IN [received |-> received, waste |-> waste, rate |-> Rate(waste, received)]

(* A month: the lines without an order line are a loss of their own. *)
SoldIn(shop, month, product) == productTotals(shop, DaysIn(month), product)
Unlinked(rs) == Sum([p \in Goods |-> Received(rs \ Linked(rs), p)])

(* Variant: what is sold of one product makes up for another. *)
StoreWaste(rs, shop, month) ==
    Over(Sum([p \in Goods |-> Received(Linked(rs), p)]),
         Sum([p \in Goods |-> SoldIn(shop, month, p)])) + Unlinked(rs)
ProductWaste(rs, shop, month) ==
    Sum([p \in Goods |-> Over(Received(Linked(rs), p), SoldIn(shop, month, p))]) + Unlinked(rs)

Row(shop, month) ==
    LET confirmed == ReceiptsOf(shop, DaysIn(month))
        received == Sum([p \in Goods |-> Received(confirmed, p)])
        waste == ProductWaste(confirmed, shop, month)
    IN [count |-> Cardinality(confirmed), received |-> received, waste |-> waste,
        rate |-> Rate(waste, received)]

(* All stores; the rows without a receipt are left out, N/A. *)
Totals(month) ==
    LET with == {shop \in Shops : Row(shop, month).count > 0}
        received == Sum([shop \in with |-> Row(shop, month).received])
        waste == Sum([shop \in with |-> Row(shop, month).waste])
    IN [received |-> received, waste |-> waste, rate |-> Rate(waste, received)]

LossInit == receipts = <<>> /\ saleRows = <<>>

LossNext ==
    \E shop \in Shops :
        \/ \E moment \in Moments, line \in [Goods -> LineQuantities], linked \in BOOLEAN :
              ConfirmReceipt(shop, moment, line, linked)
        \/ \E month \in 0 .. MaxMonth, product \in Goods, quantity \in LineQuantities :
              \E day \in DaysIn(month) : SellAt(shop, day, product, quantity)

LossSpec == LossInit /\ [][LossNext]_lossVars

-----------------------------------------------------------------------------
(* The loss of a month hides nothing and invents nothing: it is at least   *)
(* what is left of any choice of products of any choice of stores, at most *)
(* what was received, and - as stock of a day sells on the next - at most  *)
(* the losses of the month's days, to which the lines without an order     *)
(* line come (buildMonthlySettlementSummary against wasteReport, which     *)
(* compute it from different tables).                                      *)
LossIsWhatWasLeft ==
    receipts # <<>> \/ saleRows # <<>> => \A month \in 0 .. MaxMonth :
      LET total == Totals(month)
          all == UNION {ReceiptsOf(shop, DaysIn(month)) : shop \in Shops}
      IN /\ \A stores \in SUBSET Shops, products \in SUBSET Goods :
              total.waste >= Sum([shop \in stores |-> Sum([p \in products |->
                  Received(ReceiptsOf(shop, DaysIn(month)), p) - SoldIn(shop, month, p)])])
         /\ total.waste <= total.received /\ total.rate <= 1000
         /\ total.waste <= Unlinked(all) + Sum([shop \in Shops |->
                Sum([day \in DaysIn(month) |-> buildWasteReport(shop, day).waste])])
=============================================================================
