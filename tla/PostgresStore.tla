--------------------------- MODULE PostgresStore ----------------------------
(***************************************************************************)
(* The versioned aggregate store over Postgres (packages/db/src            *)
(* postgres-repository.ts): transactions of one or more commits at READ    *)
(* COMMITTED, statement by statement.                                      *)
(*                                                                         *)
(* External, the database: a statement waits for the row, the key or the   *)
(* advisory lock another open transaction holds, sees what is committed    *)
(* when it starts and what its own transaction wrote, and one transaction  *)
(* of a cycle of waiting ones is aborted.                                  *)
(***************************************************************************)
EXTENDS Naturals, Sequences, FiniteSets, SequencesExt

CONSTANTS
    Sessions,      \* connections, each with a transaction of its own
    Aggregates,
    Existing,      \* the aggregates there at the start
    StoreKeys, NoOwner,
    StoreKeyOf(_),      \* the business keys deriveClaims gives an aggregate
    MaxCommits,    \* bound: commits in a transaction
    MaxChanges,    \* bound: aggregates changed by one commit
    MaxAggVersion, \* bound: version of an aggregate
    MaxRollbacks   \* bound: transactions that fail by themselves

ASSUME ExistingAssumption == Existing \subseteq Aggregates
ASSUME KeyAssumption == \A a \in Aggregates : StoreKeyOf(a) \subseteq StoreKeys

VARIABLES
    aggVersion, keyOwner, ledger, outboxed,  \* what is committed
    tx,            \* the open transaction of each session
    ledgerLock,    \* the session that has the lock of the chain, in a set
    rollbacks

postgresVars == <<aggVersion, keyOwner, ledger, outboxed, tx, ledgerLock, rollbacks>>

Store == INSTANCE AtomicStore
Hash(entry) == <<entry.agg, entry.version>>

Closed == [at |-> "none", todo |-> <<>>, made |-> <<>>, audited |-> FALSE,
           wrote |-> [a \in Aggregates |-> 0], claimed |-> {}, entries |-> <<>>,
           previous |-> <<"genesis", 0>>, tailLock |-> {}, commits |-> 0]

Ref(a, v) == <<a, v>>

Committed == <<aggVersion, keyOwner, ledger, outboxed>>
SetStep(t, r) == tx' = [tx EXCEPT ![t] = r]
Others(t) == Sessions \ {t}

Seen(t, a) == IF tx[t].wrote[a] # 0 THEN tx[t].wrote[a] ELSE aggVersion[a]

-----------------------------------------------------------------------------
(* A commit: the versions its caller read, then one statement per change.  *)

\* BEGIN, or the next commit of the same transaction.
RequestCommit(t) ==
    /\ tx[t].at \in {"none", "between"} /\ tx[t].commits < MaxCommits
    /\ \E A \in SUBSET Aggregates : \E order \in SetToSeqs(A), audited \in BOOLEAN :
         /\ Cardinality(A) \in 1 .. MaxChanges
         /\ \A a \in A : Seen(t, a) < MaxAggVersion
         /\ SetStep(t, [tx[t] EXCEPT !.at = "changes", !.audited = audited, !.made = <<>>,
                       !.todo = [i \in DOMAIN order |-> <<order[i], Seen(t, order[i])>>]])
    /\ UNCHANGED <<aggVersion, keyOwner, ledger, outboxed, ledgerLock, rollbacks>>

RowHolders(t, a) == {u \in Others(t) : tx[u].wrote[a] # 0}
KeyHolders(t, a) == {u \in Others(t) : tx[u].claimed \cap StoreKeyOf(a) # {}}

Creates(t) == Head(tx[t].todo)[2] = 0
Changed(t) == Head(tx[t].todo)[1]

\* BUSINESS_KEY_CONFLICT or AGGREGATE_EXISTS for a new one, else VERSION_CONFLICT.
StoreRefuses(t) ==
    LET a == Changed(t) IN
    IF Creates(t) THEN \/ \E k \in StoreKeyOf(a) : keyOwner[k] # NoOwner \/ k \in tx[t].claimed
                       \/ Seen(t, a) # 0
    ELSE Seen(t, a) # Head(tx[t].todo)[2]

WriteWaitsFor(t) ==
    RowHolders(t, Changed(t)) \union (IF Creates(t) THEN KeyHolders(t, Changed(t)) ELSE {})

WriteAggregate(t) ==
    /\ tx[t].at = "changes" /\ tx[t].todo # <<>>
    /\ WriteWaitsFor(t) = {}
    /\ ~StoreRefuses(t)
    /\ LET a == Changed(t) IN
       SetStep(t, [tx[t] EXCEPT !.todo = Tail(@), !.made = Append(@, a),
                             !.wrote[a] = Head(tx[t].todo)[2] + 1,
                             !.claimed = IF Creates(t) THEN @ \union StoreKeyOf(a) ELSE @])
    /\ UNCHANGED <<aggVersion, keyOwner, ledger, outboxed, ledgerLock, rollbacks>>

ChangesDone(t) ==
    /\ tx[t].at = "changes" /\ tx[t].todo = <<>>
    /\ SetStep(t, [tx[t] EXCEPT !.at = IF tx[t].audited THEN "lock" ELSE "tail"])
    /\ UNCHANGED <<aggVersion, keyOwner, ledger, outboxed, ledgerLock, rollbacks>>

-----------------------------------------------------------------------------
(* The chain of audit entries.                                             *)

\* Variant: the lock on the last entry is all there is.
NoLedgerLock(t) == ledgerLock' = ledgerLock

TakeLedgerLock(t) == ledgerLock \subseteq {t} /\ ledgerLock' = {t}

LockLedger(t) ==
    /\ tx[t].at = "lock"
    /\ TakeLedgerLock(t)
    /\ SetStep(t, [tx[t] EXCEPT !.at = "tail"])
    /\ UNCHANGED <<aggVersion, keyOwner, ledger, outboxed, rollbacks>>

Chain(t) == ledger \o tx[t].entries

\* The last entry is read FOR UPDATE, even by a commit without entries.
TailWaitsFor(t) ==
    IF Chain(t) = <<>> THEN {}
    ELSE {u \in Others(t) : Hash(Last(Chain(t))) \in tx[u].tailLock}

ReadTail(t) ==
    /\ tx[t].at = "tail"
    /\ TailWaitsFor(t) = {}
    /\ SetStep(t, [tx[t] EXCEPT !.at = "audits",
                  !.previous = IF Chain(t) = <<>> THEN <<"genesis", 0>>
                               ELSE Hash(Last(Chain(t))),
                  !.tailLock = IF Chain(t) = <<>> THEN @
                               ELSE @ \union {Hash(Last(Chain(t)))}])
    /\ UNCHANGED <<aggVersion, keyOwner, ledger, outboxed, ledgerLock, rollbacks>>

\* One entry for each change, each after the one before it.
NewEntries(t) ==
    [i \in DOMAIN tx[t].made |->
        LET v(j) == Ref(tx[t].made[j], tx[t].wrote[tx[t].made[j]]) IN
        [agg |-> tx[t].made[i], version |-> v(i)[2],
         previous |-> IF i = 1 THEN tx[t].previous ELSE v(i - 1)]]

InsertAudits(t) ==
    /\ tx[t].at = "audits"
    /\ SetStep(t, [tx[t] EXCEPT !.at = "between", !.commits = @ + 1,
                  !.entries = IF tx[t].audited THEN @ \o NewEntries(t) ELSE @])
    /\ UNCHANGED <<aggVersion, keyOwner, ledger, outboxed, ledgerLock, rollbacks>>

-----------------------------------------------------------------------------
(* The end of a transaction.                                               *)

EndTransaction(t) ==
    /\ tx[t].at = "between"
    /\ aggVersion' = [a \in Aggregates |-> Seen(t, a)]
    /\ keyOwner' = [k \in StoreKeys |->
                      IF k \in tx[t].claimed
                      THEN CHOOSE a \in Aggregates : k \in StoreKeyOf(a) /\ tx[t].wrote[a] # 0
                                                     /\ aggVersion[a] = 0
                      ELSE keyOwner[k]]
    /\ ledger' = Chain(t)
    /\ outboxed' = outboxed \union {Hash(tx[t].entries[i]) : i \in DOMAIN tx[t].entries}
    /\ SetStep(t, Closed)
    /\ ledgerLock' = ledgerLock \ {t}
    /\ UNCHANGED rollbacks

Rollback(t) ==
    /\ SetStep(t, Closed)
    /\ ledgerLock' = ledgerLock \ {t}
    /\ UNCHANGED Committed

Refuse(t) ==
    /\ tx[t].at = "changes" /\ tx[t].todo # <<>>
    /\ WriteWaitsFor(t) = {} /\ StoreRefuses(t)
    /\ Rollback(t) /\ UNCHANGED rollbacks

\* The caller throws, or the connection is lost.
Fail(t) ==
    /\ tx[t].at # "none"
    /\ rollbacks < MaxRollbacks /\ rollbacks' = rollbacks + 1
    /\ Rollback(t)

WaitsFor(t) ==
    IF tx[t].at = "changes" /\ tx[t].todo # <<>> THEN WriteWaitsFor(t)
    ELSE IF tx[t].at = "lock" THEN ledgerLock \ {t}
    ELSE IF tx[t].at = "tail" THEN TailWaitsFor(t) ELSE {}

\* The sessions of a cycle wait for each other; one of them is the victim.
BreakDeadlock(t) ==
    /\ \E C \in SUBSET Sessions : t \in C /\ \A u \in C : WaitsFor(u) \cap C # {}
    /\ Rollback(t) /\ UNCHANGED rollbacks

-----------------------------------------------------------------------------
PostgresInit ==
    /\ Store!StoreInit
    /\ tx = [t \in Sessions |-> Closed]
    /\ ledgerLock = {} /\ rollbacks = 0

SessionStep(t) ==
    \/ RequestCommit(t) \/ WriteAggregate(t) \/ ChangesDone(t) \/ LockLedger(t)
    \/ ReadTail(t) \/ InsertAudits(t) \/ EndTransaction(t)
    \/ Refuse(t) \/ Fail(t) \/ BreakDeadlock(t)

PostgresNext == \E t \in Sessions : SessionStep(t)

PostgresSpec == PostgresInit /\ [][PostgresNext]_postgresVars

-----------------------------------------------------------------------------
(* Properties.                                                             *)

\* Transactions that interleave statement by statement are the steps of one store:
\* all of their changes or none, versions without gaps, one aggregate per business
\* key and one chain of audit entries without a fork.
StoreIsAtomic == Store!StoreSpec
=============================================================================
