------------------------------ MODULE PosSales ------------------------------
(***************************************************************************)
(* Point-of-sale links, sales and product aliases (packages/db/src/pos.ts, *)
(* the POS routes of apps/api/src/app.ts, runPosSync of the worker).       *)
(*                                                                         *)
(* One day and one raw item name: a store has at most one row of sales.    *)
(* Every method of the store is a statement or a short transaction of its  *)
(* own and the routes call several of them, so a request is a sequence of  *)
(* steps that others interleave with.  Toss Place, the provider, counts    *)
(* the completed orders of a merchant; it may cancel one later.  The worker*)
(* synchronises the day every half hour while it lasts, if at all: a slot  *)
(* may be missed and an error is not tried again.                          *)
(***************************************************************************)
EXTENDS Naturals, FiniteSets

CONSTANTS
    Merchants, PosStores, PosProducts, WebhookEvents,
    NoPos,        \* no store, no product, no sale, no merchant recorded
    MaxPosOrders, \* bound: orders completed or cancelled at the provider, and
                  \* synchronisations of a link that fail
    MaxPosEdits   \* bound: links, aliases and products written by the user

ASSUME NoPosAssumption ==
    NoPos \notin PosStores \union PosProducts \union {"pending", "linked"}

VARIABLES
    posOrders,   \* orders of the item completed at the provider, per merchant
    posLink,     \* pos_links: the store of a merchant
    discovered,  \* pos_discovered_merchants
    posInbox,    \* webhook_inbox: events received
    posProduct,  \* products: the store one is limited to, its name is the item's
    posAlias,    \* product_aliases, by scope: a store or every store
    sale,        \* pos_sales
    posCall,     \* what the worker, the provider's webhook and the user are doing
    posMissed,   \* history: stores whose row was left, or made, unmatched by an
                 \* error or by the removal of an alias
    posOrdered, posEdits  \* counted for the bounds

posVars == <<posOrders, posLink, discovered, posInbox, posProduct, posAlias, sale,
             posCall, posMissed, posOrdered, posEdits>>
posTables == <<posLink, discovered, posInbox, posProduct, posAlias, sale, posMissed>>

Everywhere == "all"
Scopes == PosStores \union {Everywhere}
PosProcs == {"worker", "toss", "user"}
Waiting == [at |-> "idle"]

PosProductRow == [scope : Scopes, named : BOOLEAN]

InScope(s, scope) == scope \in {s, Everywhere}

Call(x, c) == posCall' = [posCall EXCEPT ![x] = c]
Doing(x, at) == posCall[x].at = at
ProviderEvent == posOrdered < MaxPosOrders /\ posOrdered' = posOrdered + 1
Edit == posEdits < MaxPosEdits /\ posEdits' = posEdits + 1

-----------------------------------------------------------------------------
(* The synchronisation, by the worker's schedule or at the user's request. *)

StartSync(x) ==
    /\ Doing(x, "idle")
    /\ Call(x, [at |-> "sync", todo |-> {m \in Merchants : posLink[m] # NoPos},
                store |-> posLink])
    /\ UNCHANGED <<posOrders, posTables, posOrdered, posEdits>>

\* The whole day is read from the provider, page by page.
fetchTossDailyItems(x) ==
    /\ Doing(x, "sync")
    /\ \E m \in posCall[x].todo :
          Call(x, [at |-> "record", todo |-> posCall[x].todo \ {m}, link |-> m,
                   store |-> posCall[x].store, qty |-> posOrders[m]])
    /\ UNCHANGED <<posOrders, posTables, posOrdered, posEdits>>

UpsertSale(s, qty) ==
    [qty |-> qty, product |-> IF sale[s] = NoPos THEN NoPos ELSE sale[s].product]

\* An item that was not sold is not in the answer: its row is not touched.
recordSales(x) ==
    /\ Doing(x, "record")
    /\ LET s == posCall[x].store[posCall[x].link] IN
         sale' = IF posCall[x].qty = 0 THEN sale
                 ELSE [sale EXCEPT ![s] = UpsertSale(s, posCall[x].qty)]
    /\ Call(x, [posCall[x] EXCEPT !.at = "resolve"])
    /\ UNCHANGED <<posOrders, posLink, discovered, posInbox, posProduct, posAlias,
                   posMissed, posOrdered, posEdits>>

Named(scope) ==
    {p \in PosProducts : /\ posProduct[p] # NoPos
                         /\ posProduct[p].named /\ posProduct[p].scope = scope}

\* A store's alias, the common alias, a product of the store, a common one.
Resolved(s) ==
    IF posAlias[s] # NoPos THEN {posAlias[s]}
    ELSE IF posAlias[Everywhere] # NoPos THEN {posAlias[Everywhere]}
    ELSE IF Named(s) # {} THEN Named(s)
    ELSE Named(Everywhere)

Unmatched(s) == sale[s] # NoPos /\ sale[s].product = NoPos

MissedAnd(stores) == posMissed' = {s \in posMissed \union stores : Unmatched(s)'}

\* Only rows without a product are resolved.
ResolveIn(stores) ==
    \E pick \in [PosStores -> PosProducts \union {NoPos}] :
        /\ \A s \in PosStores :
              pick[s] \in IF s \in stores /\ Unmatched(s) /\ Resolved(s) # {}
                          THEN Resolved(s) ELSE {NoPos}
        /\ sale' = [s \in PosStores |->
              IF pick[s] = NoPos THEN sale[s] ELSE [sale[s] EXCEPT !.product = pick[s]]]
        /\ MissedAnd({})

NextLink(x) == Call(x, [at |-> "sync", todo |-> posCall[x].todo, store |-> posCall[x].store])

resolveUnmatched(x) ==
    /\ Doing(x, "resolve")
    /\ ResolveIn({posCall[x].store[posCall[x].link]})
    /\ NextLink(x)
    /\ UNCHANGED <<posOrders, posLink, discovered, posInbox, posProduct, posAlias,
                   posOrdered, posEdits>>

\* An error of one link, while its sales are fetched, recorded or resolved, is
\* recorded as its run, and the others go on.
LinkFails(x) ==
    /\ ProviderEvent
    /\ \/ /\ Doing(x, "sync")
          /\ \E m \in posCall[x].todo : Call(x, [posCall[x] EXCEPT !.todo = @ \ {m}])
          /\ UNCHANGED posMissed
       \/ Doing(x, "record") /\ NextLink(x) /\ UNCHANGED posMissed
       \/ /\ Doing(x, "resolve") /\ NextLink(x)
          /\ posMissed' = posMissed \union {posCall[x].store[posCall[x].link]}
    /\ UNCHANGED <<posOrders, posLink, discovered, posInbox, posProduct, posAlias, sale, posEdits>>

EndSync(x) ==
    /\ Doing(x, "sync") /\ posCall[x].todo = {}
    /\ Call(x, Waiting)
    /\ UNCHANGED <<posOrders, posTables, posOrdered, posEdits>>

Sync(x) == \/ StartSync(x) \/ fetchTossDailyItems(x) \/ recordSales(x) \/ resolveUnmatched(x)
           \/ LinkFails(x) \/ EndSync(x)

-----------------------------------------------------------------------------
(* Links, and the merchants their events reveal.                           *)

upsertLink ==
    /\ Doing("user", "idle") /\ Edit
    /\ \E m \in Merchants, s \in PosStores :
         /\ posLink' = [posLink EXCEPT ![m] = s]
         /\ Call("user", [at |-> "linked", merchant |-> m])
    /\ UNCHANGED <<posOrders, discovered, posInbox, posProduct, posAlias, sale, posMissed, posOrdered>>

MarkLinked(x, at) ==
    /\ Doing(x, at)
    /\ discovered' = [discovered EXCEPT ![posCall[x].merchant] =
                         IF @ = NoPos THEN NoPos ELSE "linked"]
    /\ Call(x, Waiting)
    /\ UNCHANGED <<posOrders, posLink, posInbox, posProduct, posAlias, sale, posMissed, posOrdered,
                   posEdits>>

markDiscoveredLinked == MarkLinked("user", "linked")

\* An event delivered again is answered and not handled.
recordWebhookInbox ==
    /\ Doing("toss", "idle")
    /\ \E e \in WebhookEvents, m \in Merchants :
         /\ e \notin posInbox
         /\ posInbox' = posInbox \union {e}
         /\ Call("toss", [at |-> "received", merchant |-> m])
    /\ UNCHANGED <<posOrders, posLink, discovered, posProduct, posAlias, sale, posMissed, posOrdered,
                   posEdits>>

Discover(m) == [discovered EXCEPT ![m] = IF @ = "linked" THEN "linked" ELSE "pending"]

\* Variant: the link is looked for before the merchant is recorded.
FindLinkFirst ==
    \/ /\ Doing("toss", "received")
       /\ Call("toss", IF posLink[posCall["toss"].merchant] # NoPos
                       THEN [posCall["toss"] EXCEPT !.at = "found"]
                       ELSE [posCall["toss"] EXCEPT !.at = "unknown"])
       /\ UNCHANGED <<posOrders, posTables, posOrdered, posEdits>>
    \/ /\ Doing("toss", "unknown")
       /\ discovered' = Discover(posCall["toss"].merchant)
       /\ Call("toss", Waiting)
       /\ UNCHANGED <<posOrders, posLink, posInbox, posProduct, posAlias, sale, posMissed,
                      posOrdered, posEdits>>

recordDiscoveredMerchant ==
    /\ Doing("toss", "received")
    /\ discovered' = Discover(posCall["toss"].merchant)
    /\ Call("toss", [posCall["toss"] EXCEPT !.at = "recorded"])
    /\ UNCHANGED <<posOrders, posLink, posInbox, posProduct, posAlias, sale, posMissed, posOrdered,
                   posEdits>>

findLinkByMerchant ==
    /\ Doing("toss", "recorded")
    /\ Call("toss", IF posLink[posCall["toss"].merchant] = NoPos THEN Waiting
                    ELSE [posCall["toss"] EXCEPT !.at = "found"])
    /\ UNCHANGED <<posOrders, posTables, posOrdered, posEdits>>

TossWebhook == \/ recordWebhookInbox \/ recordDiscoveredMerchant \/ findLinkByMerchant
               \/ MarkLinked("toss", "found")

-----------------------------------------------------------------------------
(* Products and aliases.                                                   *)

\* A product made of an unmatched item gets its alias as well.
createProduct ==
    /\ Doing("user", "idle") /\ Edit
    /\ \E p \in PosProducts, row \in PosProductRow, promoted \in BOOLEAN :
         /\ posProduct[p] = NoPos
         /\ posProduct' = [posProduct EXCEPT ![p] = row]
         /\ Call("user", IF promoted THEN [at |-> "alias", product |-> p, last |-> "resolve all"]
                         ELSE [at |-> "resolve all"])
    /\ UNCHANGED <<posOrders, posLink, discovered, posInbox, posAlias, sale, posMissed, posOrdered>>

updateProduct ==
    /\ Doing("user", "idle") /\ Edit
    /\ \E p \in PosProducts, scope \in Scopes :
         /\ posProduct[p] # NoPos /\ posProduct[p].scope # scope
         /\ posProduct' = [posProduct EXCEPT ![p].scope = scope]
    /\ UNCHANGED <<posOrders, posLink, discovered, posInbox, posAlias, sale, posMissed, posCall,
                   posOrdered>>

StartAlias ==
    /\ Doing("user", "idle") /\ Edit
    /\ \E p \in PosProducts :
         /\ posProduct[p] # NoPos
         /\ Call("user", [at |-> "alias", product |-> p, last |-> "idle"])
    /\ UNCHANGED <<posOrders, posTables, posOrdered>>

\* Variant: the rows are matched before the alias is there.
AliasAfterwards ==
    \/ /\ Doing("user", "alias")
       /\ LET p == posCall["user"].product
              scope == posProduct[p].scope IN
            /\ sale' = [s \in PosStores |-> IF sale[s] # NoPos /\ InScope(s, scope)
                                            THEN [sale[s] EXCEPT !.product = p] ELSE sale[s]]
            /\ Call("user", [at |-> "insert", product |-> p, scope |-> scope, last |-> posCall["user"].last])
       /\ MissedAnd({})
       /\ UNCHANGED <<posOrders, posLink, discovered, posInbox, posProduct, posAlias, posOrdered, posEdits>>
    \/ /\ Doing("user", "insert")
       /\ posAlias' = [posAlias EXCEPT ![posCall["user"].scope] = posCall["user"].product]
       /\ Call("user", [at |-> posCall["user"].last])
       /\ UNCHANGED <<posOrders, posLink, discovered, posInbox, posProduct, sale, posMissed,
                      posOrdered, posEdits>>

\* The alias has the scope of its product.
upsertAlias ==
    /\ Doing("user", "alias")
    /\ LET p == posCall["user"].product
           scope == posProduct[p].scope IN
         /\ posAlias' = [posAlias EXCEPT ![scope] = p]
         /\ Call("user", [at |-> "relink", product |-> p, scope |-> scope,
                          last |-> posCall["user"].last])
    /\ UNCHANGED <<posOrders, posLink, discovered, posInbox, posProduct, sale, posMissed, posOrdered,
                   posEdits>>

\* Every row of the name in its scope, whatever it was matched with.
Relink ==
    /\ Doing("user", "relink")
    /\ sale' = [s \in PosStores |->
          IF sale[s] # NoPos /\ InScope(s, posCall["user"].scope)
          THEN [sale[s] EXCEPT !.product = posCall["user"].product] ELSE sale[s]]
    /\ MissedAnd({})
    /\ Call("user", [at |-> posCall["user"].last])
    /\ UNCHANGED <<posOrders, posLink, discovered, posInbox, posProduct, posAlias,
                   posOrdered, posEdits>>

ResolveAll ==
    /\ Doing("user", "resolve all")
    /\ ResolveIn(PosStores)
    /\ Call("user", Waiting)
    /\ UNCHANGED <<posOrders, posLink, discovered, posInbox, posProduct, posAlias,
                   posOrdered, posEdits>>

removeAlias ==
    /\ Doing("user", "idle") /\ Edit
    /\ \E scope \in Scopes :
         /\ posAlias[scope] # NoPos
         /\ posAlias' = [posAlias EXCEPT ![scope] = NoPos]
         /\ Call("user", [at |-> "revert", scope |-> scope, product |-> posAlias[scope]])
    /\ UNCHANGED <<posOrders, posLink, discovered, posInbox, posProduct, sale, posMissed, posOrdered>>

Revert ==
    /\ Doing("user", "revert")
    /\ LET its == {s \in PosStores : /\ sale[s] # NoPos /\ InScope(s, posCall["user"].scope)
                                     /\ sale[s].product = posCall["user"].product} IN
         /\ sale' = [s \in PosStores |-> IF s \in its THEN [sale[s] EXCEPT !.product = NoPos] ELSE sale[s]]
         /\ MissedAnd(its)
    /\ Call("user", Waiting)
    /\ UNCHANGED <<posOrders, posLink, discovered, posInbox, posProduct, posAlias,
                   posOrdered, posEdits>>

UserNext == \/ upsertLink \/ markDiscoveredLinked \/ createProduct \/ updateProduct
            \/ StartAlias \/ upsertAlias \/ Relink \/ ResolveAll \/ removeAlias \/ Revert

\* Orders are completed, or cancelled again, at the provider.
Provider ==
    /\ ProviderEvent
    /\ \E m \in Merchants :
         \/ posOrders' = [posOrders EXCEPT ![m] = @ + 1]
         \/ posOrders[m] > 0 /\ posOrders' = [posOrders EXCEPT ![m] = @ - 1]
    /\ UNCHANGED <<posTables, posCall, posEdits>>

-----------------------------------------------------------------------------
PosInit ==
    /\ posOrders = [m \in Merchants |-> 0]
    /\ posLink = [m \in Merchants |-> NoPos]
    /\ discovered = [m \in Merchants |-> NoPos]
    /\ posInbox = {}
    /\ posProduct = [p \in PosProducts |-> NoPos]
    /\ posAlias = [scope \in Scopes |-> NoPos]
    /\ sale = [s \in PosStores |-> NoPos]
    /\ posCall = [x \in PosProcs |-> Waiting]
    /\ posMissed = {}
    /\ posOrdered = 0 /\ posEdits = 0

PosNext == Sync("worker") \/ Sync("user") \/ TossWebhook \/ UserNext \/ Provider

PosSpec == PosInit /\ [][PosNext]_posVars

-----------------------------------------------------------------------------
\* A merchant that is linked to a store is not offered as one still to be
\* linked, whichever of its webhook and the link request comes in between the
\* other's statements (app.ts webhooks/tossplace and pos/links).
LinkedIsNotOffered ==
    \A m \in Merchants :
        posLink[m] # NoPos /\ discovered[m] = "pending"
            => \E x \in {"user", "toss"} :
                  posCall[x].at \in {"linked", "recorded", "found"} /\ posCall[x].merchant = m

HasAlias(s) == posAlias[s] # NoPos \/ posAlias[Everywhere] # NoPos

\* Sales of an item that has an alias are told by its product: whichever of a
\* synchronisation and the request for the alias comes in between the other's
\* statements, one of the two finds both the row and the alias - unless a
\* statement failed, or the removal of another alias took the product away
\* (recordSales, resolveUnmatched, upsertAlias, removeAlias in pos.ts).
AliasedIsMatched ==
    \A s \in PosStores :
        Unmatched(s) /\ HasAlias(s)
            => \/ s \in posMissed
               \/ \E x \in {"worker", "user"} :
                    Doing(x, "resolve") /\ posCall[x].store[posCall[x].link] = s
               \/ Doing("user", "relink") /\ InScope(s, posCall["user"].scope)
=============================================================================
