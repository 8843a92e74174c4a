---------------------------- MODULE LegacyLedger ----------------------------
(***************************************************************************)
(* The first server (server/server.js): orders through its two interfaces, *)
(* point-of-sale rows, products, their mapping and the daily closing of a  *)
(* store.  One store and one day; the day's sales have one raw item name.  *)
(*                                                                         *)
(* The process is one thread over a synchronous database: a handler is a   *)
(* step, up to its await.  Only the fetch from the provider is awaited.    *)
(* saveStoreDay commits the rows and then rebuilds the closing, a crash    *)
(* falls in between.                                                       *)
(***************************************************************************)
EXTENDS Naturals, FiniteSetsExt

CONSTANTS
    Skus,            \* products
    NativeOrders,    \* orders with a row of v2_order_details
    OldOrders,       \* orders brought in from a backup, without one
    NoSku, NoRows,
    MaxSold,         \* bound: units sold, and units ordered
    MaxProviderSales, \* bound: changes of the day at the provider
    MaxLedgerEdits,  \* bound: changes by users
    MaxLedgerFaults  \* bound: crashes and failed fetches

ASSUME NoSkuAssumption == NoSku \notin Skus

VARIABLES
    tossSold,    \* units the provider counts
    rows,        \* pos_sales of the day: quantity and product
    sku,         \* skus: alive, and whether the item's name is theirs
    skuAlias,    \* sku_aliases: the product the name is mapped to
    order,       \* orders with their details
    closing,     \* closings of the day
    syncing,     \* synchronisations that wait for the provider
    providerSales, ledgerEdits, ledgerFaults  \* counted for the bounds

ledgerVars == <<tossSold, rows, sku, skuAlias, order, closing, syncing,
                providerSales, ledgerEdits, ledgerFaults>>

OSTAT == <<"waiting", "approved", "paid", "shipped", "done">>
Orders == NativeOrders \union OldOrders
Units == 0 .. MaxSold
Syncers == {"scheduler", "user"}

Absent == 0
Cancelled == 6
Status(s) == CHOOSE i \in 1 .. 5 : OSTAT[i] = s

NoFault == UNCHANGED <<providerSales, ledgerFaults>>
LedgerEdit == ledgerEdits < MaxLedgerEdits /\ ledgerEdits' = ledgerEdits + 1

-----------------------------------------------------------------------------
(* The closing of the day, from sales and receipts.                        *)

Arrived(o, k) == o.sku = k /\ ~o.del /\ o.status \in {Status("shipped"), Status("done")}

receivedQty(ord, k) ==
    MapThenSumSet(LAMBDA o : ord[o].qty, {o \in Orders : Arrived(ord[o], k)})
Receives(ord, k) == \E o \in Orders : Arrived(ord[o], k)

SoldOf(r, k) == IF r # NoRows /\ r.sku = k THEN r.qty ELSE 0

Surplus(a, b) == IF a > b THEN a - b ELSE 0

\* What rebuildClosingFromPos counts, per product; nothing is left out.
Counted(r, ord) ==
    [k \in Skus |-> [sold |-> SoldOf(r, k),
                     waste |-> IF Receives(ord, k)
                               THEN Surplus(receivedQty(ord, k), SoldOf(r, k)) ELSE 0]]

Something(c) == \E k \in Skus : c[k].sold > 0 \/ c[k].waste > 0

\* Without a receipt the sales are replaced and the waste written by hand stays.
Imported(old, new) ==
    IF old = NoRows THEN new
    ELSE [k \in Skus |-> [sold |-> new[k].sold, waste |-> old[k].waste]]

\* Variant: the closing of a day that has one is left alone.
OnlyOnce(r, ord) == IF closing = NoRows THEN Counted(r, ord) ELSE closing

\* A day that has nothing to count keeps the closing it had.
Rebuilt(r, ord) ==
    IF ~Something(Counted(r, ord)) THEN closing
    ELSE IF \E k \in Skus : Receives(ord, k) THEN Counted(r, ord)
    ELSE Imported(closing, Counted(r, ord))

Rebuild(r, ord) == closing' = Rebuilt(r, ord)

PutClosing ==
    /\ LedgerEdit
    /\ \E k \in Skus, sold \in Units, waste \in Units, import \in BOOLEAN :
         LET c == [j \in Skus |-> IF j = k THEN [sold |-> sold, waste |-> waste]
                                  ELSE [sold |-> 0, waste |-> 0]] IN
         /\ Something(c)
         /\ closing' = IF import THEN Imported(closing, c) ELSE c
    /\ UNCHANGED <<tossSold, rows, sku, skuAlias, order, syncing>> /\ NoFault

-----------------------------------------------------------------------------
(* Synchronisation with the provider.                                      *)

\* A product of the item's name, else the one it is mapped to.
resolveSku ==
    LET own == {k \in Skus : sku[k].alive /\ sku[k].named} IN
    IF own # {} THEN own ELSE {skuAlias}

StartFetch(x) ==
    /\ syncing[x] = NoRows
    /\ syncing' = [syncing EXCEPT ![x] = tossSold]
    /\ UNCHANGED <<tossSold, rows, sku, skuAlias, order, closing, ledgerEdits>> /\ NoFault

FetchFailed(x) ==
    /\ syncing[x] # NoRows
    /\ ledgerFaults < MaxLedgerFaults /\ ledgerFaults' = ledgerFaults + 1
    /\ syncing' = [syncing EXCEPT ![x] = NoRows]
    /\ UNCHANGED <<tossSold, rows, sku, skuAlias, order, closing, providerSales, ledgerEdits>>

\* All rows of the day are replaced, then the closing is rebuilt.
SaveRows(x) ==
    \E k \in resolveSku :
       rows' = IF syncing[x] = 0 THEN NoRows ELSE [qty |-> syncing[x], sku |-> k]

saveStoreDay(x) ==
    /\ syncing[x] # NoRows
    /\ SaveRows(x)
    /\ Rebuild(rows', order)
    /\ syncing' = [syncing EXCEPT ![x] = NoRows]
    /\ UNCHANGED <<tossSold, sku, skuAlias, order, ledgerEdits>> /\ NoFault

\* The process dies, in a fetch or between the rows and the closing.
CrashServer ==
    /\ ledgerFaults < MaxLedgerFaults /\ ledgerFaults' = ledgerFaults + 1
    /\ \/ UNCHANGED rows
       \/ \E x \in Syncers : syncing[x] # NoRows /\ SaveRows(x)
    /\ syncing' = [x \in Syncers |-> NoRows]
    /\ UNCHANGED <<tossSold, sku, skuAlias, order, closing, providerSales, ledgerEdits>>

SellOrCancel ==
    /\ providerSales < MaxProviderSales /\ providerSales' = providerSales + 1
    /\ \E n \in Units \ {tossSold} : tossSold' = n
    /\ UNCHANGED <<rows, sku, skuAlias, order, closing, syncing, ledgerEdits, ledgerFaults>>

-----------------------------------------------------------------------------
(* Products and the mapping of the item's name.                            *)

Unclaimed == ~\E k \in Skus : sku[k].alive /\ sku[k].named

Remap(k) == rows' = IF rows = NoRows THEN NoRows ELSE [rows EXCEPT !.sku = k]

AddSku ==
    /\ LedgerEdit
    /\ \E k \in Skus, named \in BOOLEAN :
         /\ ~sku[k].alive
         /\ sku' = [sku EXCEPT ![k] = [alive |-> TRUE, named |-> named]]
    /\ UNCHANGED <<tossSold, rows, skuAlias, order, closing, syncing>> /\ NoFault

\* A product with its name changed: the rows follow at the next synchronisation.
RenameSku ==
    /\ LedgerEdit
    /\ \E k \in Skus :
         /\ sku[k].alive
         /\ ~sku[k].named => Unclaimed
         /\ sku' = [sku EXCEPT ![k].named = ~@]
    /\ UNCHANGED <<tossSold, rows, skuAlias, order, closing, syncing>> /\ NoFault

\* A product is made of the unmatched item and takes its rows, and its name
\* unless that ends in a remark in brackets.
PromoteSku ==
    /\ LedgerEdit
    /\ \E k \in Skus, named \in BOOLEAN :
         /\ ~sku[k].alive
         /\ named => Unclaimed
         /\ sku' = [sku EXCEPT ![k] = [alive |-> TRUE, named |-> named]]
         /\ skuAlias' = k
         /\ Remap(k)
    /\ IF rows = NoRows THEN UNCHANGED closing ELSE Rebuild(rows', order)
    /\ UNCHANGED <<tossSold, order, syncing>> /\ NoFault

PostAlias ==
    /\ LedgerEdit
    /\ \E k \in Skus : sku[k].alive /\ skuAlias' = k /\ Remap(k)
    /\ IF rows = NoRows THEN UNCHANGED closing ELSE Rebuild(rows', order)
    /\ UNCHANGED <<tossSold, sku, order, syncing>> /\ NoFault

DeleteAlias ==
    /\ LedgerEdit
    /\ skuAlias # NoSku /\ skuAlias' = NoSku
    /\ Remap(NoSku)
    /\ IF rows = NoRows THEN UNCHANGED closing ELSE Rebuild(rows', order)
    /\ UNCHANGED <<tossSold, sku, order, syncing>> /\ NoFault

Freed(k) == rows # NoRows /\ (skuAlias = k \/ rows.sku = k)

\* Whatever was mapped to it or carries it is unmatched and counted again.
DeleteSku ==
    /\ LedgerEdit
    /\ \E k \in Skus :
         /\ sku[k].alive
         /\ sku' = [sku EXCEPT ![k].alive = FALSE]
         /\ skuAlias' = IF skuAlias = k THEN NoSku ELSE skuAlias
         /\ IF Freed(k) THEN Remap(NoSku) /\ Rebuild(rows', order)
            ELSE UNCHANGED <<rows, closing>>
    /\ UNCHANGED <<tossSold, order, syncing>> /\ NoFault

\* A backup has the mappings of its day, which are new here or newer; they may
\* name a product deleted since, and the rows do not follow.
ImportAlias ==
    /\ LedgerEdit
    /\ \E k \in Skus : skuAlias' = k
    /\ UNCHANGED <<tossSold, rows, sku, order, closing, syncing>> /\ NoFault

-----------------------------------------------------------------------------
(* Orders.  The routes of the second interface handle native orders only;   *)
(* they refuse a version that another change has passed, so that reading an *)
(* order and changing it are one step here.                                 *)

SubmitOrder ==
    \E o \in NativeOrders, k \in Skus, n \in Units \ {0} :
        /\ order[o].status = Absent /\ sku[k].alive
        /\ order' = [order EXCEPT ![o] = [@ EXCEPT !.status = Status("waiting"),
                                                   !.sku = k, !.qty = n]]

RequestChange(o) ==
    /\ ~order[o].change
    /\ order' = [order EXCEPT ![o].change = TRUE]

ResubmitOrder(o) ==
    /\ order[o].change
    /\ \E k \in Skus, n \in Units \ {0} :
         /\ sku[k].alive
         /\ order' = [order EXCEPT ![o] = [@ EXCEPT !.change = FALSE, !.sku = k, !.qty = n]]

CancelWaiting(o) ==
    order' = [order EXCEPT ![o] = [@ EXCEPT !.status = Cancelled, !.change = FALSE]]

ApproveWaiting(o) ==
    /\ ~order[o].change
    /\ order' = [order EXCEPT ![o].status = Status("approved")]

NativeStep ==
    /\ LedgerEdit
    /\ \/ SubmitOrder
       \/ \E o \in NativeOrders :
            /\ order[o].status = Status("waiting")
            /\ \/ RequestChange(o) \/ ResubmitOrder(o) \/ CancelWaiting(o) \/ ApproveWaiting(o)
    /\ UNCHANGED <<tossSold, rows, sku, skuAlias, closing, syncing>> /\ NoFault

MayAdvance(o) == o \in NativeOrders => order[o].status # Status("waiting")

\* A step of the first interface; the closing is rebuilt when goods leave.
AdvanceOrder ==
    /\ LedgerEdit
    /\ \E o \in Orders :
         /\ ~order[o].del /\ order[o].status \in 1 .. 4 /\ MayAdvance(o)
         /\ order' = [order EXCEPT ![o].status = @ + 1]
         /\ IF order'[o].status = Status("shipped") THEN Rebuild(rows, order')
            ELSE UNCHANGED closing
    /\ UNCHANGED <<tossSold, rows, sku, skuAlias, syncing>> /\ NoFault

\* An order without details is deleted whatever its status.
DeleteOrder ==
    /\ LedgerEdit
    /\ \E o \in OldOrders :
         /\ ~order[o].del
         /\ order' = [order EXCEPT ![o].del = TRUE]
    /\ UNCHANGED <<tossSold, rows, sku, skuAlias, closing, syncing>> /\ NoFault

-----------------------------------------------------------------------------
LedgerInit ==
    /\ tossSold = 0 /\ rows = NoRows /\ closing = NoRows
    /\ skuAlias = NoSku
    \* An old order is under way; a native one is new, or was sent back for changes.
    /\ \E asked \in BOOLEAN : LET k == CHOOSE k \in Skus : TRUE IN
         /\ sku = [j \in Skus |-> [alive |-> j = k, named |-> FALSE]]
         /\ order = [o \in Orders |->
              IF o \in OldOrders
              THEN [status |-> IF asked THEN Status("waiting") ELSE Status("paid"),
                    change |-> FALSE, sku |-> k, qty |-> 1, del |-> FALSE]
              ELSE [status |-> IF asked THEN Status("waiting") ELSE Absent,
                    change |-> asked, sku |-> k, qty |-> IF asked THEN 1 ELSE 0,
                    del |-> FALSE]]
    /\ syncing = [x \in Syncers |-> NoRows]
    /\ providerSales = 0 /\ ledgerEdits = 0 /\ ledgerFaults = 0

Synchronise(x) == StartFetch(x) \/ saveStoreDay(x)

LedgerNext ==
    \/ \E x \in Syncers : Synchronise(x) \/ FetchFailed(x)
    \/ CrashServer \/ SellOrCancel \/ PutClosing
    \/ AddSku \/ RenameSku \/ PromoteSku \/ PostAlias \/ DeleteAlias \/ DeleteSku \/ ImportAlias
    \/ NativeStep \/ AdvanceOrder \/ DeleteOrder

\* posAutoSync every half hour, for today and yesterday.
LedgerFairness == WF_ledgerVars(Synchronise("scheduler"))

LedgerSpec == LedgerInit /\ [][LedgerNext]_ledgerVars /\ LedgerFairness

-----------------------------------------------------------------------------
(* Properties.                                                             *)

\* A closing comes to show the sales of its day, and the whole count once goods
\* arrived: whatever was sold after a synchronisation, remapped, deleted, shipped,
\* written by hand or lost in a crash between the rows and the closing.
ClosingsCatchUp ==
    <>[](LET name == IF rows = NoRows THEN NoSku ELSE rows.sku
             count == Counted([qty |-> tossSold, sku |-> name], order) IN
         Something(count) =>
             /\ closing # NoRows
             /\ \A k \in Skus : closing[k].sold = count[k].sold
             /\ (\E k \in Skus : Receives(order, k)) => closing = count)
=============================================================================
