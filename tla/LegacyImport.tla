---------------------------- MODULE LegacyImport ----------------------------
(***************************************************************************)
(* The move of stores, products and orders from the SQLite file of the     *)
(* legacy server to Postgres (infra/scripts/legacy-migration-lib.mjs and   *)
(* legacy-migration.mjs): an export is a snapshot of the file, a plan is   *)
(* an export with the store profiles of the day, and applying a plan is    *)
(* one serializable transaction under one advisory lock, hence one step.   *)
(*                                                                         *)
(* The content of a row stands for its hash; of a product it is also its   *)
(* price, and of an order the price of its product when it was last        *)
(* submitted.  0 is a row that is not there.  The identity of a plan is    *)
(* its contents (stableUuid of planDecisionSha256).                        *)
(***************************************************************************)
EXTENDS Naturals, Sequences, FiniteSetsExt

CONSTANTS
    SourceStores, SourceProducts, SourceOrders,
    OrderStore, OrderProduct,  \* of each order, its store and its product
    MaxContent,    \* bound: edits of a row
    MaxExports,    \* bound: exports made
    MaxBatches     \* bound: plans applied

ASSUME SourceAssumption ==
    /\ IsFiniteSet(SourceStores) /\ IsFiniteSet(SourceProducts) /\ IsFiniteSet(SourceOrders)
    /\ SourceOrders \intersect (SourceStores \union SourceProducts) = {}
    /\ OrderStore \in [SourceOrders -> SourceStores]
    /\ OrderProduct \in [SourceOrders -> SourceProducts]
    /\ MaxContent \in Nat

VARIABLES
    source,       \* the rows of the SQLite file
    profiled,     \* stores whose reviewed profile is complete
    exports,      \* the plans that can be applied
    batches,      \* legacy_import_batches and their row mappings, in order
    target,       \* what Postgres holds of each row
    authority     \* legacy_cutover_controls of the cohort

importVars == <<source, profiled, exports, batches, target, authority>>

SourceRows == SourceStores \union SourceProducts \union SourceOrders
Outcomes == {"absent", "quarantined", "imported", "replayed"}

ImportInit ==
    /\ source = [r \in SourceRows |-> IF r \in SourceOrders THEN 0 ELSE 1]
    /\ profiled = {}
    /\ exports = {}
    /\ batches = <<>>
    /\ target = [r \in SourceRows |-> 0]
    /\ authority = "none"

-----------------------------------------------------------------------------
\* The legacy server goes on: stores and products are edited, orders are
\* submitted and submitted again at the price of the day.

EditSource(r) ==
    /\ r \in SourceStores \union SourceProducts
    /\ source[r] < MaxContent
    /\ source' = [source EXCEPT ![r] = @ + 1]
    /\ UNCHANGED <<profiled, exports, batches, target, authority>>

SubmitSource(o) ==
    /\ source[o] # source[OrderProduct[o]]
    /\ source' = [source EXCEPT ![o] = source[OrderProduct[o]]]
    /\ UNCHANGED <<profiled, exports, batches, target, authority>>

ReviewProfile(s) ==
    /\ s \notin profiled
    /\ profiled' = profiled \union {s}
    /\ UNCHANGED <<source, exports, batches, target, authority>>

\* buildSignedExport, and the profiles file that goes with it.
Export ==
    /\ Cardinality(exports) < MaxExports
    /\ exports' = exports \union {[rows |-> source, profiles |-> profiled]}
    /\ UNCHANGED <<source, profiled, batches, target, authority>>

-----------------------------------------------------------------------------
\* buildMigrationPlan: the stores with a complete profile, the products, and
\* the orders of these whose lines still are what their products are.

Importable(plan) ==
    LET stores == {s \in SourceStores : plan.rows[s] # 0 /\ s \in plan.profiles}
        products == {p \in SourceProducts : plan.rows[p] # 0}
    IN  stores \union products \union
            {o \in SourceOrders : /\ plan.rows[o] # 0
                                  /\ OrderStore[o] \in stores
                                  /\ OrderProduct[o] \in products
                                  /\ plan.rows[o] = plan.rows[OrderProduct[o]]}

\* existingSourceMapping: the latest mapping of a row, whatever its outcome.
Mapped(r) == {i \in DOMAIN batches : batches[i].outcome[r] # "absent"}
LatestMapping(r) == batches[Max(Mapped(r))]

\* What applying a plan makes of a row that can be imported.
Decision(plan, r) ==
    IF Mapped(r) = {} THEN "imported"
    ELSE LET existing == LatestMapping(r)
         IN  IF existing.plan.rows[r] # plan.rows[r] THEN "quarantined"
             ELSE IF existing.outcome[r] \in {"imported", "replayed"} THEN "replayed"
             ELSE "imported"

OutcomeOf(plan) ==
    [r \in SourceRows |->
        IF r \in Importable(plan) THEN Decision(plan, r)
        ELSE IF plan.rows[r] # 0 THEN "quarantined"
        ELSE "absent"]

\* ON CONFLICT (id) DO NOTHING: a row that is there stays as it is.
Inserted(plan, outcome) ==
    [r \in SourceRows |->
        IF outcome[r] = "imported" /\ target[r] = 0 THEN plan.rows[r] ELSE target[r]]

\* The foreign keys of an order; when one fails, the batch is rolled back.
ParentsThere(outcome, rows) ==
    \A o \in SourceOrders :
        outcome[o] = "imported" => rows[OrderStore[o]] # 0 /\ rows[OrderProduct[o]] # 0

\* applyMigrationPlan with --authority legacy (or shadow, which is told apart
\* nowhere).  It does not read the authority it overwrites.  A plan applied
\* before changes nothing, and neither does one that is rolled back.
ApplyPlan(plan) ==
    LET outcome == OutcomeOf(plan)
        rows == Inserted(plan, outcome)
    IN  /\ plan \in exports
        /\ Len(batches) < MaxBatches
        /\ \A i \in DOMAIN batches : batches[i].plan # plan
        /\ ParentsThere(outcome, rows)
        /\ batches' = Append(batches, [plan |-> plan, outcome |-> outcome])
        /\ target' = rows
        /\ authority' = "legacy"
        /\ UNCHANGED <<source, profiled, exports>>

-----------------------------------------------------------------------------
\* legacy-migration.mjs cutover-check: the counts of each entity and the money
\* of the orders agree between the plan and the mappings of its batch.

Accepted(outcome) == outcome \in {"imported", "replayed"}

\* Variant: every mapping counts, also of what was quarantined.
CountsAnyMapping(b) ==
    \A kind \in {SourceStores, SourceProducts, SourceOrders} :
        Cardinality(kind \intersect Importable(b.plan))
            = Cardinality({r \in kind : b.outcome[r] # "absent"})

CountsMatch(b) ==
    \A kind \in {SourceStores, SourceProducts, SourceOrders} :
        Cardinality(kind \intersect Importable(b.plan))
            = Cardinality({r \in kind : Accepted(b.outcome[r])})

AmountsMatch(b) ==
    MapThenSumSet(LAMBDA o : b.plan.rows[o], SourceOrders \intersect Importable(b.plan))
        = MapThenSumSet(LAMBDA o : target[o], {o \in SourceOrders : Accepted(b.outcome[o])})

CutoverReady(b) ==
    authority = "legacy" /\ CountsMatch(b) /\ AmountsMatch(b)

\* The operator's runbook promotes the cohort after the check.
Promote ==
    /\ batches # <<>> /\ CutoverReady(batches[Len(batches)])
    /\ authority' = "v2"
    /\ UNCHANGED <<source, profiled, exports, batches, target>>

ImportNext ==
    \/ \E r \in SourceStores \union SourceProducts : EditSource(r)
    \/ \E o \in SourceOrders : SubmitSource(o)
    \/ \E s \in SourceStores : ReviewProfile(s)
    \/ Export
    \/ \E plan \in exports : ApplyPlan(plan)
    \/ Promote

ImportSpec == ImportInit /\ [][ImportNext]_importVars

-----------------------------------------------------------------------------
\* When cutover-check says a batch is ready, everything its plan can import is
\* in Postgres, with its parents, whatever earlier batches had quarantined or
\* imported of the same rows.
CutoverIsComplete ==
    \A i \in DOMAIN batches :
        LET b == batches[i]
        IN  CutoverReady(b) =>
                \A r \in Importable(b.plan) :
                    /\ target[r] # 0
                    /\ r \in SourceOrders =>
                           target[OrderStore[r]] # 0 /\ target[OrderProduct[r]] # 0

=============================================================================
