---------------------------- MODULE AtomicStore -----------------------------
(***************************************************************************)
(* What StateRepository promises its callers (packages/db/src              *)
(* repository.ts): a transaction changes aggregates by one version at a    *)
(* time, takes business keys for those it creates, adds to the chain of    *)
(* audit entries and queues outbox events, in one step.                    *)
(***************************************************************************)
EXTENDS Naturals, Sequences, SequencesExt

CONSTANTS
    Aggregates,
    Existing,    \* the aggregates there at the start
    StoreKeys, NoOwner,
    StoreKeyOf(_)     \* the business keys of an aggregate

VARIABLES
    aggVersion,   \* version of each aggregate, 0 before it is created
    keyOwner,     \* the aggregate that has a business key
    ledger,       \* audit entries, each with the one it follows
    outboxed      \* audit entries whose outbox events are queued

storeVars == <<aggVersion, keyOwner, ledger, outboxed>>

Genesis == <<"genesis", 0>>

\* The hash of an entry stands for its content: which change it is about.
Hash(entry) == <<entry.agg, entry.version>>

LastHash(entries) == IF entries = <<>> THEN Genesis ELSE Hash(Last(entries))

StoreInit ==
    /\ aggVersion = [a \in Aggregates |-> IF a \in Existing THEN 1 ELSE 0]
    /\ keyOwner = [k \in StoreKeys |-> NoOwner]
    /\ ledger = <<>> /\ outboxed = {}

\* What a transaction added to the chain.
Added == SubSeq(ledger', Len(ledger) + 1, Len(ledger'))

Chained ==
    /\ IsPrefix(ledger, ledger')
    /\ \A i \in DOMAIN Added :
         Added[i].previous = LastHash(SubSeq(ledger', 1, Len(ledger) + i - 1))

\* An entry tells of a version the transaction made; they are in order.
TellsChanges ==
    /\ \A i \in DOMAIN Added :
         Added[i].version \in aggVersion[Added[i].agg] + 1 .. aggVersion'[Added[i].agg]
    /\ \A i, j \in DOMAIN Added :
         i < j /\ Added[i].agg = Added[j].agg => Added[i].version < Added[j].version

KeysKept ==
    \A k \in StoreKeys :
        /\ keyOwner[k] # NoOwner => keyOwner'[k] = keyOwner[k]
        /\ keyOwner'[k] # keyOwner[k] => /\ aggVersion[keyOwner'[k]] = 0
                                         /\ aggVersion'[keyOwner'[k]] > 0

CommitTransaction ==
    /\ \A a \in Aggregates :
         /\ aggVersion'[a] >= aggVersion[a]
         /\ aggVersion[a] = 0 /\ aggVersion'[a] > 0 =>
              \A k \in StoreKeyOf(a) : keyOwner'[k] = a
    /\ KeysKept
    /\ Chained /\ TellsChanges
    /\ outboxed' = outboxed \union {Hash(Added[i]) : i \in DOMAIN Added}

StoreSpec == StoreInit /\ [][CommitTransaction]_storeVars
=============================================================================
