--------------------------- MODULE StorageProofs ---------------------------
(***************************************************************************)
(* What the parts that keep something promise of it: the aggregates, in    *)
(* Postgres and in memory, the schema, the originals of documents and the  *)
(* photos of deliveries.  Every section proves the properties of one module*)
(* from an inductive invariant, for any values of its constants.           *)
(***************************************************************************)
EXTENDS PostgresStore, MemoryStore, SchemaMigrations, Originals, DeliveryPhotos,
        SequenceTheorems, TLAPS

-----------------------------------------------------------------------------
(***************************************************************************)
(* PostgresStore implements AtomicStore.                                   *)
(*                                                                         *)
(* What a transaction has written is private to it until it commits, and   *)
(* what it goes on from stays as it is: the rows it wrote and the keys it  *)
(* claimed are locked, so that no other transaction changes their          *)
(* committed versions and owners, and from its first audited commit on it  *)
(* holds the lock of the chain, so that no other one adds to the ledger.   *)
(***************************************************************************)

(* Types.                                                                  *)
Places == (Aggregates \union {"genesis"}) \X Nat
Entry == [agg : Aggregates, version : Nat, previous : Places]
Transaction ==
    [at : {"none", "changes", "lock", "tail", "audits", "between"},
     todo : Seq(Aggregates \X Nat), made : Seq(Aggregates), audited : BOOLEAN,
     wrote : [Aggregates -> Nat], claimed : SUBSET StoreKeys, entries : Seq(Entry),
     previous : Places, tailLock : SUBSET Places, commits : Nat]

PostgresTypeOK ==
    /\ aggVersion \in [Aggregates -> Nat]
    /\ keyOwner \in [StoreKeys -> Aggregates \union {NoOwner}]
    /\ ledger \in Seq(Entry)
    /\ tx \in [Sessions -> Transaction]
    /\ ledgerLock \subseteq Sessions

(* What a transaction r writes is one version or more ahead.               *)
WritesAhead(r) == \A a \in Aggregates : r.wrote[a] # 0 => aggVersion[a] < r.wrote[a]

(* The aggregates it creates have their keys, which nobody else has.       *)
New(r, a) == r.wrote[a] # 0 /\ aggVersion[a] = 0

ClaimsKeys(r) ==
    /\ \A a \in Aggregates : New(r, a) => StoreKeyOf(a) \subseteq r.claimed
    /\ \A k \in r.claimed : /\ keyOwner[k] = NoOwner
                            /\ \E a \in Aggregates : New(r, a) /\ k \in StoreKeyOf(a)
    /\ \A a, b \in Aggregates :
         New(r, a) /\ New(r, b) /\ StoreKeyOf(a) \cap StoreKeyOf(b) # {} => a = b

(* A commit changes an aggregate once.                                     *)
ChangesOnce(r) ==
    /\ \A i, j \in DOMAIN r.made : i # j => r.made[i] # r.made[j]
    /\ \A i, j \in DOMAIN r.todo : i # j => r.todo[i][1] # r.todo[j][1]
    /\ \A i \in DOMAIN r.made, j \in DOMAIN r.todo : r.made[i] # r.todo[j][1]
    /\ \A i \in DOMAIN r.made : r.wrote[r.made[i]] # 0

(* Its entries tell of versions it made, earlier commits of lower ones.    *)
EntriesTell(r) ==
    /\ \A i \in DOMAIN r.entries :
         /\ aggVersion[r.entries[i].agg] < r.entries[i].version
         /\ r.entries[i].version <= r.wrote[r.entries[i].agg]
    /\ \A i, j \in DOMAIN r.entries :
         i < j /\ r.entries[i].agg = r.entries[j].agg => r.entries[i].version < r.entries[j].version
    /\ r.at # "between" =>
         \A i \in DOMAIN r.entries, k \in DOMAIN r.made :
            r.entries[i].agg = r.made[k] => r.entries[i].version < r.wrote[r.made[k]]

(* Each entry follows the one before, the first one the end of the ledger, *)
(* which is locked.                                                        *)
EndOf(r) == IF r.entries = <<>> THEN Store!LastHash(ledger) ELSE Hash(r.entries[Len(r.entries)])

EntriesFollow(r) ==
    /\ \A i \in DOMAIN r.entries :
         r.entries[i].previous = IF i = 1 THEN Store!LastHash(ledger) ELSE Hash(r.entries[i - 1])
    /\ r.at = "audits" /\ r.audited => r.previous = EndOf(r)

HasLock(t, r) ==
    r.entries # <<>> \/ (r.audited /\ r.at \in {"tail", "audits"}) => t \in ledgerLock

Fits(t, r) ==
    /\ WritesAhead(r) /\ ClaimsKeys(r) /\ ChangesOnce(r)
    /\ EntriesTell(r) /\ EntriesFollow(r) /\ HasLock(t, r)

(* Two transactions share no row and no key.                               *)
Apart(r, s) ==
    /\ \A a \in Aggregates : r.wrote[a] = 0 \/ s.wrote[a] = 0
    /\ r.claimed \cap s.claimed = {}

AllFit == \A t \in Sessions : \A r \in Transaction : tx[t] = r => Fits(t, r)
AllApart ==
    \A t, u \in Sessions : \A r, s \in Transaction :
        t # u /\ tx[t] = r /\ tx[u] = s => Apart(r, s)
OneLock == \A t, u \in ledgerLock : t = u

(* The inductive invariant.                                                *)
StoreInv == PostgresTypeOK /\ AllFit /\ AllApart /\ OneLock

-----------------------------------------------------------------------------
(* Sequences of entries.                                                   *)
LEMMA Concatenated ==
    ASSUME NEW L \in Seq(Entry), NEW E \in Seq(Entry)
    PROVE  /\ L \o E \in Seq(Entry)
           /\ Len(L) \in Nat /\ Len(E) \in Nat /\ Len(L \o E) = Len(L) + Len(E)
           /\ DOMAIN L = 1 .. Len(L) /\ DOMAIN E = 1 .. Len(E)
           /\ \A i \in 1 .. Len(L) : (L \o E)[i] = L[i]
           /\ \A i \in 1 .. Len(E) : (L \o E)[Len(L) + i] = E[i]
           /\ L = <<>> <=> Len(L) = 0
           /\ E = <<>> <=> Len(E) = 0
           /\ L \o E = <<>> <=> Len(L) + Len(E) = 0
BY ConcatProperties, LenProperties, EmptySeq

LEMMA EntryTypes ==
    ASSUME NEW E \in Seq(Entry), NEW i \in DOMAIN E
    PROVE  E[i] \in Entry /\ E[i].agg \in Aggregates /\ E[i].version \in Nat
<1>1. E[i] \in Entry
    BY LenProperties, ElementOfSeq
<1> QED
    BY <1>1 DEF Entry

LEMMA EndOfChain ==
    ASSUME NEW L \in Seq(Entry), NEW E \in Seq(Entry)
    PROVE  Store!LastHash(L \o E) = IF E = <<>> THEN Store!LastHash(L) ELSE Hash(E[Len(E)])
<1>1. CASE E = <<>>
    BY <1>1, ConcatEmptySeq
<1>2. CASE E # <<>>
    <2>1. L \o E # <<>> /\ (L \o E)[Len(L \o E)] = E[Len(E)]
        BY <1>2, Concatenated
    <2> QED
        BY <1>2, <2>1 DEF Store!LastHash, Store!Hash, Hash, Store!Last
<1> QED
    BY <1>1, <1>2

LEMMA AddedEntries ==
    ASSUME NEW L \in Seq(Entry), NEW E \in Seq(Entry)
    PROVE  /\ Store!IsPrefix(L, L \o E)
           /\ SubSeq(L \o E, Len(L) + 1, Len(L \o E)) = E
           /\ \A i \in DOMAIN E : Store!LastHash(SubSeq(L \o E, 1, Len(L) + i - 1)) =
                IF i = 1 THEN Store!LastHash(L) ELSE Hash(E[i - 1])
<1>1. SubSeq(L \o E, 1, Len(L)) = L /\ SubSeq(L, 1, Len(L)) = L
    BY Concatenated, SubSeqFull, SubSeqOfConcat1
<1>2. Store!IsPrefix(L, L \o E)
    BY <1>1, Concatenated DEF Store!IsPrefix
<1>3. SubSeq(L \o E, Len(L) + 1, Len(L \o E)) = E
    BY Concatenated, SubSeqOfConcat2, SubSeqFull
<1>4. ASSUME NEW i \in DOMAIN E
      PROVE  Store!LastHash(SubSeq(L \o E, 1, Len(L) + i - 1)) =
                IF i = 1 THEN Store!LastHash(L) ELSE Hash(E[i - 1])
    <2>1. CASE i = 1
        <3>1. Len(L) + i - 1 = Len(L)
            BY <2>1, Concatenated
        <3> QED
            BY <1>1, <2>1, <3>1
    <2>2. CASE i # 1
        <3> DEFINE n == Len(L) + i - 1
                   P == SubSeq(L \o E, 1, n)
        <3>1. n \in Nat /\ n > 0 /\ n <= Len(L \o E) /\ n = Len(L) + (i - 1) /\ i - 1 \in 1 .. Len(E)
            BY <2>2, Concatenated
        <3>2. \A j \in 1 .. n : (L \o E)[j] \in Entry
            BY <3>1, Concatenated, ElementOfSeq
        <3>3. Len(P) = n /\ P[n] = (L \o E)[n]
            BY <3>1, <3>2, SubSeqProperties
        <3>4. P # <<>>
            BY <3>1, <3>3
        <3>5. (L \o E)[n] = E[i - 1]
            BY <3>1, Concatenated
        <3> QED
            BY <2>2, <3>3, <3>4, <3>5 DEF Store!LastHash, Store!Hash, Hash, Store!Last
    <2> QED
        BY <2>1, <2>2
<1> QED
    BY <1>2, <1>3, <1>4

-----------------------------------------------------------------------------
(* Transactions.                                                           *)
LEMMA TransactionTypes ==
    ASSUME NEW r \in Transaction
    PROVE  /\ r.todo \in Seq(Aggregates \X Nat) /\ r.made \in Seq(Aggregates)
           /\ r.audited \in BOOLEAN /\ r.wrote \in [Aggregates -> Nat]
           /\ r.claimed \in SUBSET StoreKeys /\ r.entries \in Seq(Entry)
           /\ r.previous \in Places /\ r.tailLock \in SUBSET Places /\ r.commits \in Nat
BY DEF Transaction

LEMMA SessionOf ==
    ASSUME StoreInv, NEW t \in Sessions
    PROVE  tx[t] \in Transaction /\ Fits(t, tx[t])
<1>1. PICK r \in Transaction : r = tx[t]
    BY DEF StoreInv, PostgresTypeOK
<1> QED
    BY <1>1 DEF StoreInv, AllFit

LEMMA SessionsApart ==
    ASSUME StoreInv, NEW t \in Sessions, NEW u \in Sessions, t # u
    PROVE  Apart(tx[t], tx[u])
<1>1. PICK r \in Transaction, s \in Transaction : r = tx[t] /\ s = tx[u]
    BY DEF StoreInv, PostgresTypeOK
<1> QED
    BY <1>1 DEF StoreInv, AllApart

(* A statement of one session, before anything is committed.               *)
LEMMA SessionMoves ==
    ASSUME StoreInv, NEW t \in Sessions, NEW r \in Transaction, SetStep(t, r),
           UNCHANGED <<aggVersion, keyOwner, ledger>>,
           ledgerLock' \subseteq Sessions, OneLock', ledgerLock \ {t} \subseteq ledgerLock',
           Fits(t, r)',
           \A u \in Sessions \ {t} : Apart(r, tx[u]) /\ Apart(tx[u], r)
    PROVE  StoreInv'
<1>1. /\ tx \in [Sessions -> Transaction] /\ tx' \in [Sessions -> Transaction] /\ tx'[t] = r
      /\ \A u \in Sessions \ {t} : tx'[u] = tx[u]
    BY DEF SetStep, StoreInv, PostgresTypeOK
<1>2. PostgresTypeOK'
    BY <1>1 DEF StoreInv, PostgresTypeOK
<1>3. ASSUME NEW u \in Sessions, NEW s \in Transaction, tx'[u] = s PROVE Fits(u, s)'
    <2>1. CASE u = t
        BY <1>1, <1>3, <2>1
    <2>2. CASE u # t
        <3>1. Fits(u, s)
            BY <1>1, <1>3, <2>2, SessionOf
        <3>2. HasLock(u, s)'
            BY <2>2, <3>1 DEF Fits, HasLock
        <3>3. UNCHANGED <<aggVersion, keyOwner, ledger>>
            OBVIOUS
        <3>4. /\ WritesAhead(s)' /\ ClaimsKeys(s)' /\ EntriesTell(s)' /\ EntriesFollow(s)'
              /\ ChangesOnce(s)'
            BY <3>1, <3>3 DEF Fits, WritesAhead, ClaimsKeys, New, EntriesTell, EntriesFollow, EndOf,
                              ChangesOnce
        <3> QED
            BY <3>2, <3>4 DEF Fits
    <2> QED
        BY <2>1, <2>2
<1>4. ASSUME NEW u \in Sessions, NEW v \in Sessions, NEW a \in Transaction, NEW b \in Transaction,
             u # v, tx'[u] = a, tx'[v] = b
      PROVE  Apart(a, b)
    BY <1>1, <1>4, SessionsApart
<1> QED
    BY <1>2, <1>3, <1>4 DEF StoreInv, AllFit, AllApart, Apart

(* A statement that takes no row, no key and no lock.                      *)
LEMMA SessionGoesOn ==
    ASSUME StoreInv, NEW t \in Sessions, NEW r \in Transaction, SetStep(t, r),
           UNCHANGED <<aggVersion, keyOwner, ledger, ledgerLock>>,
           r.wrote = tx[t].wrote, r.claimed = tx[t].claimed,
           ChangesOnce(r), EntriesTell(r), EntriesFollow(r), HasLock(t, r)
    PROVE  StoreInv'
<1>1. UNCHANGED <<aggVersion, keyOwner, ledger, ledgerLock>>
    OBVIOUS
<1>2. WritesAhead(r) /\ ClaimsKeys(r)
    BY SessionOf DEF Fits, WritesAhead, ClaimsKeys, New
<1>3. Fits(t, r)'
    BY <1>1, <1>2 DEF Fits, WritesAhead, ClaimsKeys, New, EntriesTell, EntriesFollow, EndOf,
                      ChangesOnce, HasLock
<1>4. \A u \in Sessions \ {t} : Apart(r, tx[u]) /\ Apart(tx[u], r)
    BY SessionsApart DEF Apart
<1>5. OneLock' /\ ledgerLock' \subseteq Sessions
    BY <1>1 DEF StoreInv, OneLock, PostgresTypeOK
<1> QED
    BY <1>1, <1>3, <1>4, <1>5, SessionMoves

(* A transaction that is closed has nothing and holds nothing.             *)
LEMMA ClosedFits ==
    /\ Closed \in Transaction
    /\ \A t \in Sessions : Fits(t, Closed)
    /\ \A s : s \in Transaction => Apart(Closed, s) /\ Apart(s, Closed)
<1>1. Closed \in Transaction
    BY DEF Closed, Transaction, Places
<1>2. /\ Closed.entries = <<>> /\ Closed.made = <<>> /\ Closed.todo = <<>>
      /\ Closed.at = "none" /\ Closed.claimed = {}
      /\ Closed.wrote = [a \in Aggregates |-> 0]
    BY DEF Closed
<1>3. \A t \in Sessions : Fits(t, Closed)
    BY <1>2 DEF Fits, WritesAhead, ClaimsKeys, New, ChangesOnce, EntriesTell, EntriesFollow, HasLock
<1> QED
    BY <1>1, <1>2, <1>3 DEF Apart

LEMMA RollbackKeeps ==
    ASSUME StoreInv, NEW t \in Sessions, Rollback(t)
    PROVE  StoreInv'
<1>1. /\ SetStep(t, Closed) /\ ledgerLock' = ledgerLock \ {t}
      /\ UNCHANGED <<aggVersion, keyOwner, ledger, outboxed>>
    BY DEF Rollback, Committed
<1>2. Fits(t, Closed)'
    <2>1. /\ Closed.entries = <<>> /\ Closed.made = <<>> /\ Closed.todo = <<>>
          /\ Closed.at = "none" /\ Closed.claimed = {}
          /\ Closed.wrote = [a \in Aggregates |-> 0]
        BY DEF Closed
    <2> QED
        BY <2>1 DEF Fits, WritesAhead, ClaimsKeys, New, ChangesOnce, EntriesTell, EntriesFollow, HasLock
<1>3. OneLock' /\ ledgerLock' \subseteq Sessions
    BY <1>1 DEF StoreInv, OneLock, PostgresTypeOK
<1> QED
    BY <1>1, <1>2, <1>3, ClosedFits, SessionOf, SessionMoves

-----------------------------------------------------------------------------
(* Statements.                                                             *)
LEMMA SeenTypes ==
    ASSUME StoreInv, NEW t \in Sessions, NEW a \in Aggregates
    PROVE  Seen(t, a) \in Nat
BY SessionOf, TransactionTypes DEF Seen, StoreInv, PostgresTypeOK

LEMMA RequestKeeps ==
    ASSUME StoreInv, NEW t \in Sessions, RequestCommit(t)
    PROVE  StoreInv'
<1>1. PICK old \in Transaction : old = tx[t] /\ Fits(t, old)
    BY SessionOf
<1>2. PICK A \in SUBSET Aggregates : \E order \in SetToSeqs(A), audited \in BOOLEAN :
          /\ Cardinality(A) \in 1 .. MaxChanges
          /\ \A a \in A : Seen(t, a) < MaxAggVersion
          /\ SetStep(t, [tx[t] EXCEPT !.at = "changes", !.audited = audited, !.made = <<>>,
                         !.todo = [i \in DOMAIN order |-> <<order[i], Seen(t, order[i])>>]])
    BY DEF RequestCommit
<1>2a. PICK order \in SetToSeqs(A), audited \in BOOLEAN :
          /\ Cardinality(A) \in 1 .. MaxChanges
          /\ SetStep(t, [tx[t] EXCEPT !.at = "changes", !.audited = audited, !.made = <<>>,
                         !.todo = [i \in DOMAIN order |-> <<order[i], Seen(t, order[i])>>]])
    BY <1>2
<1>3. PICK n \in Nat : n = Cardinality(A)
    BY <1>2a
<1>4. /\ order \in [1 .. n -> Aggregates]
      /\ \A i, j \in 1 .. n : i # j => order[i] # order[j]
    BY <1>3 DEF SetToSeqs
<1>5. PICK todo : todo = [i \in DOMAIN order |-> <<order[i], Seen(t, order[i])>>]
    OBVIOUS
<1>6. /\ todo \in [1 .. n -> Aggregates \X Nat]
      /\ \A i \in 1 .. n : todo[i][1] = order[i]
    BY <1>4, <1>5, SeenTypes
<1>7. todo \in Seq(Aggregates \X Nat) /\ DOMAIN todo = 1 .. n
    BY <1>6, SeqDef
<1>7a. PICK none \in Seq(Aggregates) : none = <<>>
    BY EmptySeq
<1>8. PICK r : r = [old EXCEPT !.at = "changes", !.audited = audited, !.made = none, !.todo = todo]
    OBVIOUS
<1>9. /\ r \in Transaction /\ r.at = "changes" /\ r.made = none /\ r.todo = todo
      /\ r.wrote = old.wrote /\ r.claimed = old.claimed /\ r.entries = old.entries
    BY <1>7, <1>8 DEF Transaction
<1>10. ChangesOnce(r)
    BY <1>4, <1>6, <1>7, <1>7a, <1>9 DEF ChangesOnce
<1>11. EntriesTell(r) /\ EntriesFollow(r) /\ HasLock(t, r)
    BY <1>1, <1>7a, <1>9 DEF Fits, EntriesTell, EntriesFollow, HasLock
<1> QED
    BY <1>1, <1>2a, <1>5, <1>7a, <1>8, <1>9, <1>10, <1>11, SessionGoesOn DEF RequestCommit

LEMMA ChangesDoneKeeps ==
    ASSUME StoreInv, NEW t \in Sessions, ChangesDone(t)
    PROVE  StoreInv'
<1>1. PICK old \in Transaction : old = tx[t] /\ Fits(t, old)
    BY SessionOf
<1>2. PICK r : r = [old EXCEPT !.at = IF old.audited THEN "lock" ELSE "tail"]
    OBVIOUS
<1>3. /\ r \in Transaction /\ r.at = (IF old.audited THEN "lock" ELSE "tail")
      /\ r.made = old.made /\ r.todo = old.todo /\ r.audited = old.audited
      /\ r.wrote = old.wrote /\ r.claimed = old.claimed /\ r.entries = old.entries
    BY <1>2 DEF Transaction
<1>4. old.at = "changes" /\ SetStep(t, r) /\ UNCHANGED <<aggVersion, keyOwner, ledger, ledgerLock>>
    BY <1>1, <1>2 DEF ChangesDone
<1>5. ChangesOnce(r) /\ EntriesTell(r) /\ EntriesFollow(r) /\ HasLock(t, r)
    BY <1>1, <1>3, <1>4 DEF Fits, ChangesOnce, EntriesTell, EntriesFollow, HasLock
<1> QED
    BY <1>1, <1>3, <1>4, <1>5, SessionGoesOn

LEMMA LockLedgerKeeps ==
    ASSUME StoreInv, NEW t \in Sessions, LockLedger(t)
    PROVE  StoreInv'
<1>1. PICK old \in Transaction : old = tx[t] /\ Fits(t, old)
    BY SessionOf
<1>2. PICK r : r = [old EXCEPT !.at = "tail"]
    OBVIOUS
<1>3. /\ r \in Transaction /\ r.at = "tail"
      /\ r.made = old.made /\ r.todo = old.todo /\ r.audited = old.audited
      /\ r.wrote = old.wrote /\ r.claimed = old.claimed /\ r.entries = old.entries
    BY <1>2 DEF Transaction
<1>4. /\ old.at = "lock" /\ SetStep(t, r) /\ UNCHANGED <<aggVersion, keyOwner, ledger>>
      /\ ledgerLock \subseteq {t} /\ ledgerLock' = {t}
    BY <1>1, <1>2 DEF LockLedger, TakeLedgerLock
<1>5. WritesAhead(r)' /\ ClaimsKeys(r)' /\ ChangesOnce(r)'
    BY <1>1, <1>3, <1>4 DEF Fits, WritesAhead, ClaimsKeys, New, ChangesOnce
<1>6. EntriesTell(r)' /\ EntriesFollow(r)' /\ HasLock(t, r)'
    BY <1>1, <1>3, <1>4 DEF Fits, EntriesTell, EntriesFollow, HasLock
<1>7. \A u \in Sessions \ {t} : Apart(r, tx[u]) /\ Apart(tx[u], r)
    BY <1>1, <1>3, SessionsApart DEF Apart
<1>8. OneLock' /\ ledgerLock' \subseteq Sessions
    BY <1>4 DEF OneLock
<1> QED
    BY <1>3, <1>4, <1>5, <1>6, <1>7, <1>8, SessionMoves DEF Fits

(* The end of the chain as the transaction sees it.                        *)
LEMMA ReadTailKeeps ==
    ASSUME StoreInv, NEW t \in Sessions, ReadTail(t)
    PROVE  StoreInv'
<1>1. PICK old \in Transaction : old = tx[t] /\ Fits(t, old)
    BY SessionOf
<1>2. PICK C : C = ledger \o old.entries
    OBVIOUS
<1>3. C \in Seq(Entry) /\ ledger \in Seq(Entry) /\ old.entries \in Seq(Entry)
    BY <1>2, TransactionTypes, Concatenated DEF StoreInv, PostgresTypeOK
<1>4. PICK end : end = IF C = <<>> THEN <<"genesis", 0>> ELSE Hash(Last(C))
    OBVIOUS
<1>5. end = EndOf(old)
    BY <1>2, <1>3, <1>4, EndOfChain
    DEF EndOf, Store!LastHash, Store!Hash, Store!Genesis, Hash, Last, Store!Last
<1>6. end \in Places /\ (C # <<>> => Hash(Last(C)) \in Places)
    <2>1. CASE C = <<>>
        BY <1>4, <2>1 DEF Places
    <2>2. CASE C # <<>>
        <3>1. C[Len(C)] \in Entry
            BY <1>3, <2>2, LenProperties, EmptySeq, ElementOfSeq
        <3>2. Hash(C[Len(C)]) \in Places
            BY <3>1 DEF Hash, Entry, Places
        <3> QED
            BY <1>4, <2>2, <3>2 DEF Last
    <2> QED
        BY <2>1, <2>2
<1>7. PICK locks \in SUBSET Places :
          locks = IF C = <<>> THEN old.tailLock ELSE old.tailLock \union {Hash(Last(C))}
    BY <1>6, TransactionTypes
<1>8. PICK r : r = [old EXCEPT !.at = "audits", !.previous = end, !.tailLock = locks]
    OBVIOUS
<1>9. /\ r \in Transaction /\ r.at = "audits" /\ r.previous = end
      /\ r.made = old.made /\ r.todo = old.todo /\ r.audited = old.audited
      /\ r.wrote = old.wrote /\ r.claimed = old.claimed /\ r.entries = old.entries
    BY <1>6, <1>7, <1>8 DEF Transaction
<1>10. /\ old.at = "tail" /\ SetStep(t, r)
       /\ UNCHANGED <<aggVersion, keyOwner, ledger, ledgerLock>>
    BY <1>1, <1>2, <1>4, <1>7, <1>8 DEF ReadTail, Chain
<1>11. ChangesOnce(r) /\ EntriesTell(r) /\ HasLock(t, r)
    BY <1>1, <1>9, <1>10 DEF Fits, ChangesOnce, EntriesTell, HasLock
<1>12. EntriesFollow(r)
    BY <1>1, <1>5, <1>9 DEF Fits, EntriesFollow, EndOf
<1> QED
    BY <1>1, <1>9, <1>10, <1>11, <1>12, SessionGoesOn

(* A row is written: at the version that was read, which nobody else has    *)
(* written since, and with keys that nobody has.                           *)
LEMMA WriteKeeps ==
    ASSUME StoreInv, NEW t \in Sessions, WriteAggregate(t)
    PROVE  StoreInv'
<1>1. PICK old \in Transaction : old = tx[t] /\ Fits(t, old)
    BY SessionOf
<1>2. /\ old.todo \in Seq(Aggregates \X Nat) /\ old.made \in Seq(Aggregates)
      /\ old.wrote \in [Aggregates -> Nat] /\ old.claimed \in SUBSET StoreKeys
      /\ old.entries \in Seq(Entry) /\ aggVersion \in [Aggregates -> Nat]
    BY TransactionTypes DEF StoreInv, PostgresTypeOK
<1>3. /\ old.at = "changes" /\ old.todo # <<>> /\ WriteWaitsFor(t) = {} /\ ~StoreRefuses(t)
      /\ UNCHANGED <<aggVersion, keyOwner, ledger, ledgerLock>>
    BY <1>1 DEF WriteAggregate
<1>4. PICK a \in Aggregates, v \in Nat : Head(old.todo) = <<a, v>>
    <2>1. PICK h \in Aggregates \X Nat : h = Head(old.todo)
        BY <1>2, <1>3, HeadTailProperties
    <2> QED
        BY <2>1
<1>5. /\ Head(tx[t].todo)[1] = a /\ Head(tx[t].todo)[2] = v
      /\ Changed(t) = a /\ (Creates(t) <=> v = 0)
    BY <1>1, <1>4 DEF Changed, Creates
<1>6. /\ old.wrote[a] \in {0, v}
      /\ old.wrote[a] = 0 => aggVersion[a] = v
    <2>1. Seen(t, a) = v
        <3>1. CASE v = 0
            BY <1>3, <1>5, <3>1 DEF StoreRefuses
        <3>2. CASE v # 0
            BY <1>3, <1>5, <3>2 DEF StoreRefuses
        <3> QED
            BY <3>1, <3>2
    <2> QED
        BY <1>1, <1>2, <2>1 DEF Seen
<1>7. PICK rest : rest = Tail(old.todo)
    OBVIOUS
<1>8. /\ rest \in Seq(Aggregates \X Nat)
      /\ \A i \in DOMAIN rest : i \in Nat /\ i + 1 \in DOMAIN old.todo /\ rest[i] = old.todo[i + 1]
      /\ 1 \in DOMAIN old.todo /\ old.todo[1] = <<a, v>>
      /\ \A i \in DOMAIN rest : i + 1 # 1
    <2>1. /\ rest \in Seq(Aggregates \X Nat) /\ Len(rest) = Len(old.todo) - 1
          /\ \A i \in 1 .. Len(rest) : rest[i] = old.todo[i + 1]
        BY <1>2, <1>3, <1>7, HeadTailProperties
    <2>2. /\ DOMAIN rest = 1 .. Len(rest) /\ DOMAIN old.todo = 1 .. Len(old.todo)
          /\ Len(rest) \in Nat /\ Len(old.todo) \in Nat
        BY <1>2, <2>1, LenProperties
    <2>3. old.todo[1] = <<a, v>>
        BY <1>2, <1>3, <1>4
    <2> QED
        BY <2>1, <2>2, <2>3
<1>9. PICK made : made = Append(old.made, a)
    OBVIOUS
<1>10. /\ made \in Seq(Aggregates)
       /\ \A i \in DOMAIN made : (i \in DOMAIN old.made /\ made[i] = old.made[i])
                                 \/ (i = Len(made) /\ made[i] = a)
       /\ \A i \in DOMAIN old.made : i # Len(made)
    BY <1>2, <1>9, AppendProperties, LenProperties
<1>11. PICK wrote \in [Aggregates -> Nat] : wrote = [old.wrote EXCEPT ![a] = v + 1]
    <2>1. PICK n \in Nat : n = v + 1
        OBVIOUS
    <2>2. [old.wrote EXCEPT ![a] = n] \in [Aggregates -> Nat]
        BY <1>2
    <2> QED
        BY <2>1, <2>2
<1>12. wrote[a] = v + 1 /\ \A b \in Aggregates : b # a => wrote[b] = old.wrote[b]
    BY <1>2, <1>11
<1>13. PICK claimed \in SUBSET StoreKeys :
           claimed = IF v = 0 THEN old.claimed \union StoreKeyOf(a) ELSE old.claimed
    BY <1>2, KeyAssumption
<1>14. PICK r : r = [old EXCEPT !.todo = rest, !.made = made, !.wrote = wrote, !.claimed = claimed]
    OBVIOUS
<1>15. /\ r \in Transaction /\ r.at = "changes" /\ r.audited = old.audited
       /\ r.made = made /\ r.todo = rest /\ r.wrote = wrote /\ r.claimed = claimed
       /\ r.entries = old.entries
    BY <1>3, <1>8, <1>10, <1>11, <1>13, <1>14 DEF Transaction
<1>16. SetStep(t, r)
    <2>1. SetStep(t, [old EXCEPT !.todo = Tail(@), !.made = Append(@, a), !.wrote[a] = v + 1,
                        !.claimed = IF v = 0 THEN @ \union StoreKeyOf(a) ELSE @])
        BY <1>1, <1>5 DEF WriteAggregate
    <2> QED
        BY <1>7, <1>9, <1>11, <1>13, <1>14, <2>1
<1>17. /\ old.wrote[a] # 0 => aggVersion[a] < v
       /\ \A i \in DOMAIN old.entries : old.entries[i].agg = a => old.entries[i].version <= v
    <2>1. \A i \in DOMAIN old.entries : /\ old.entries[i].agg \in Aggregates
                                        /\ old.entries[i].version \in Nat
        BY <1>2, EntryTypes
    <2>2. old.wrote[a] # 0 => aggVersion[a] < v
        BY <1>1, <1>2, <1>6 DEF Fits, WritesAhead
    <2> QED
        BY <1>1, <1>2, <1>6, <2>1, <2>2 DEF Fits, EntriesTell
<1>18. WritesAhead(r)
    <2> SUFFICES ASSUME NEW b \in Aggregates, wrote[b] # 0 PROVE aggVersion[b] < wrote[b]
        BY <1>15 DEF WritesAhead
    <2>1. CASE b = a
        <3>1. aggVersion[a] \in Nat /\ aggVersion[a] <= v
            BY <1>2, <1>6, <1>17
        <3> QED
            BY <1>12, <2>1, <3>1
    <2>2. CASE b # a
        BY <1>1, <1>12, <2>2 DEF Fits, WritesAhead
    <2> QED
        BY <2>1, <2>2
<1>19. ClaimsKeys(r)
    <2>1. \A b \in Aggregates : New(r, b) <=> New(old, b) \/ (b = a /\ v = 0)
        BY <1>2, <1>6, <1>12, <1>15 DEF New
    <2>2. CASE v # 0
        BY <1>1, <1>13, <1>15, <2>1, <2>2 DEF Fits, ClaimsKeys
    <2>3. CASE v = 0
        <3>1. \A k \in StoreKeyOf(a) : keyOwner[k] = NoOwner /\ k \notin old.claimed
            BY <1>1, <1>3, <1>5, <2>3 DEF StoreRefuses
        <3>2. \A b \in Aggregates : New(old, b) => StoreKeyOf(b) \cap StoreKeyOf(a) = {}
            BY <1>1, <3>1 DEF Fits, ClaimsKeys
        <3> QED
            BY <1>1, <1>13, <1>15, <2>1, <2>3, <3>1, <3>2 DEF Fits, ClaimsKeys
    <2> QED
        BY <2>2, <2>3
<1>20. ChangesOnce(r)
    <2>1. ChangesOnce(old)
        BY <1>1 DEF Fits
    <2>2. \A i \in DOMAIN old.made : old.made[i] # a
        BY <1>8, <2>1 DEF ChangesOnce
    <2>2a. \A i, j \in DOMAIN made : i # j => made[i] # made[j]
        BY <1>10, <2>1, <2>2 DEF ChangesOnce
    <2>3. \A i, j \in DOMAIN rest : i # j => rest[i][1] # rest[j][1]
        BY <1>8, <2>1 DEF ChangesOnce
    <2>3a. \A j \in DOMAIN rest : rest[j][1] # a
        BY <1>8, <2>1 DEF ChangesOnce
    <2>3b. \A i \in DOMAIN old.made, j \in DOMAIN rest : old.made[i] # rest[j][1]
        BY <1>8, <2>1 DEF ChangesOnce
    <2>4. \A i \in DOMAIN made, j \in DOMAIN rest : made[i] # rest[j][1]
        BY <1>10, <2>3a, <2>3b
    <2>5. \A i \in DOMAIN made : wrote[made[i]] # 0
        <3> SUFFICES ASSUME NEW i \in DOMAIN made PROVE wrote[made[i]] # 0
            OBVIOUS
        <3>1. made[i] \in Aggregates
            BY <1>10, LenProperties, ElementOfSeq
        <3> QED
            BY <1>10, <1>12, <2>1, <3>1 DEF ChangesOnce
    <2> QED
        BY <1>15, <2>2a, <2>3, <2>4, <2>5 DEF ChangesOnce
<1>21. EntriesTell(r)
    <2>1. EntriesTell(old) /\ ChangesOnce(old)
        BY <1>1 DEF Fits
    <2>2. \A i \in DOMAIN old.entries : /\ old.entries[i].agg \in Aggregates
                                        /\ old.entries[i].version \in Nat
        BY <1>2, EntryTypes
    <2>3. ASSUME NEW i \in DOMAIN old.entries
          PROVE  old.entries[i].version <= wrote[old.entries[i].agg]
        BY <1>12, <1>17, <2>1, <2>2 DEF EntriesTell
    <2>4. ASSUME NEW i \in DOMAIN old.entries, NEW k \in DOMAIN made, old.entries[i].agg = made[k]
          PROVE  old.entries[i].version < wrote[made[k]]
        <3>1. CASE made[k] = a
            BY <1>12, <1>17, <2>2, <2>4, <3>1
        <3>2. CASE made[k] # a
            <4>1. k \in DOMAIN old.made /\ made[k] = old.made[k]
                BY <1>10, <3>2
            <4>2. wrote[made[k]] = old.wrote[made[k]]
                BY <1>12, <2>2, <2>4, <3>2
            <4> QED
                BY <1>3, <2>1, <2>4, <4>1, <4>2 DEF EntriesTell
        <3> QED
            BY <3>1, <3>2
    <2> QED
        BY <1>15, <2>1, <2>3, <2>4 DEF EntriesTell
<1>22. EntriesFollow(r) /\ HasLock(t, r)
    BY <1>1, <1>3, <1>15 DEF Fits, EntriesFollow, HasLock
<1>23. Fits(t, r)'
    BY <1>3, <1>18, <1>19, <1>20, <1>21, <1>22
    DEF Fits, WritesAhead, ClaimsKeys, New, EntriesTell, EntriesFollow, EndOf, ChangesOnce, HasLock
<1>24. ASSUME NEW u \in Sessions \ {t} PROVE Apart(r, tx[u]) /\ Apart(tx[u], r)
    <2>1. tx[u].wrote[a] = 0
        BY <1>3, <1>5, <1>24 DEF WriteWaitsFor, RowHolders, Others
    <2>2. v = 0 => tx[u].claimed \cap StoreKeyOf(a) = {}
        BY <1>3, <1>5, <1>24 DEF WriteWaitsFor, KeyHolders, Others
    <2>3. Apart(old, tx[u])
        BY <1>1, <1>24, SessionsApart
    <2> QED
        BY <1>12, <1>13, <1>15, <2>1, <2>2, <2>3 DEF Apart
<1>25. OneLock' /\ ledgerLock' \subseteq Sessions
    BY <1>3 DEF StoreInv, OneLock, PostgresTypeOK
<1> QED
    BY <1>3, <1>15, <1>16, <1>23, <1>24, <1>25, SessionMoves

(* The entries of a commit follow the end of the chain, and each other.     *)
LEMMA NewEntriesAre ==
    ASSUME StoreInv, NEW t \in Sessions, NEW old \in Transaction, old = tx[t], old.audited,
           NEW N, N = NewEntries(t)
    PROVE  /\ N \in Seq(Entry) /\ DOMAIN N = DOMAIN old.made
           /\ \A i \in DOMAIN N : /\ N[i].agg = old.made[i]
                                  /\ N[i].version = old.wrote[old.made[i]]
                                  /\ N[i].previous = IF i = 1 THEN old.previous ELSE Hash(N[i - 1])
<1>1. /\ old.made \in Seq(Aggregates) /\ old.wrote \in [Aggregates -> Nat]
      /\ old.previous \in Places
    BY TransactionTypes
<1>2. PICK n \in Nat : n = Len(old.made) /\ DOMAIN old.made = 1 .. n
                       /\ old.made \in [1 .. n -> Aggregates]
    BY <1>1, LenProperties
<1>3. N = [i \in 1 .. n |->
              [agg |-> old.made[i], version |-> old.wrote[old.made[i]],
               previous |-> IF i = 1 THEN old.previous
                            ELSE <<old.made[i - 1], old.wrote[old.made[i - 1]]>>]]
    BY <1>2 DEF NewEntries, Ref
<1>4. ASSUME NEW i \in 1 .. n
      PROVE  /\ N[i] \in Entry /\ N[i].agg = old.made[i]
             /\ N[i].version = old.wrote[old.made[i]]
             /\ N[i].previous = IF i = 1 THEN old.previous
                                ELSE <<old.made[i - 1], old.wrote[old.made[i - 1]]>>
    <2>1. PICK p : p = IF i = 1 THEN old.previous
                       ELSE <<old.made[i - 1], old.wrote[old.made[i - 1]]>>
        OBVIOUS
    <2>2. p \in Places
        <3>1. CASE i = 1
            BY <1>1, <2>1, <3>1
        <3>2. CASE i # 1
            <4>1. old.made[i - 1] \in Aggregates
                BY <1>2, <3>2
            <4>2. old.wrote[old.made[i - 1]] \in Nat
                BY <1>1, <4>1
            <4> QED
                BY <2>1, <3>2, <4>1, <4>2 DEF Places
        <3> QED
            BY <3>1, <3>2
    <2>3. old.made[i] \in Aggregates /\ old.wrote[old.made[i]] \in Nat
        BY <1>1, <1>2
    <2>4. N[i] = [agg |-> old.made[i], version |-> old.wrote[old.made[i]], previous |-> p]
        BY <1>3, <2>1
    <2> QED
        BY <2>1, <2>2, <2>3, <2>4 DEF Entry
<1>5. N \in Seq(Entry) /\ DOMAIN N = 1 .. n
    <2>1. N \in [1 .. n -> Entry] /\ DOMAIN N = 1 .. n
        BY <1>3, <1>4
    <2> QED
        BY <2>1, SeqDef
<1>6. ASSUME NEW i \in 1 .. n, i # 1
      PROVE  Hash(N[i - 1]) = <<old.made[i - 1], old.wrote[old.made[i - 1]]>>
    <2>1. i - 1 \in 1 .. n
        BY <1>6
    <2> QED
        BY <1>4, <2>1 DEF Hash
<1>7. ASSUME NEW i \in 1 .. n
      PROVE  N[i].previous = IF i = 1 THEN old.previous ELSE Hash(N[i - 1])
    <2>1. CASE i = 1
        BY <1>4, <2>1
    <2>2. CASE i # 1
        BY <1>4, <1>6, <2>2
    <2> QED
        BY <2>1, <2>2
<1>8. N \in Seq(Entry) /\ DOMAIN N = DOMAIN old.made
    BY <1>2, <1>5
<1>9. ASSUME NEW i \in DOMAIN N
      PROVE  /\ N[i].agg = old.made[i]
             /\ N[i].version = old.wrote[old.made[i]]
             /\ N[i].previous = IF i = 1 THEN old.previous ELSE Hash(N[i - 1])
    <2>1. i \in 1 .. n
        BY <1>5
    <2> QED
        BY <1>4, <1>7, <2>1
<1> QED
    BY <1>8, <1>9

LEMMA InsertAuditsKeeps ==
    ASSUME StoreInv, NEW t \in Sessions, InsertAudits(t)
    PROVE  StoreInv'
<1>1. PICK old \in Transaction : old = tx[t] /\ Fits(t, old)
    BY SessionOf
<1>2. /\ old.entries \in Seq(Entry) /\ old.made \in Seq(Aggregates) /\ old.commits \in Nat
      /\ old.wrote \in [Aggregates -> Nat] /\ old.at = "audits"
      /\ UNCHANGED <<aggVersion, keyOwner, ledger, ledgerLock>>
    BY <1>1, TransactionTypes DEF InsertAudits
<1>3. PICK N : N = NewEntries(t)
    OBVIOUS
<1>4. PICK E : E = IF old.audited THEN old.entries \o N ELSE old.entries
    OBVIOUS
<1>5. old.audited => /\ N \in Seq(Entry) /\ DOMAIN N = DOMAIN old.made
                     /\ \A i \in DOMAIN N : /\ N[i].agg = old.made[i]
                                            /\ N[i].version = old.wrote[old.made[i]]
                                            /\ N[i].previous = IF i = 1 THEN old.previous
                                                               ELSE Hash(N[i - 1])
    BY <1>1, <1>3, NewEntriesAre
<1>6. E \in Seq(Entry)
    BY <1>2, <1>4, <1>5, Concatenated
<1>7. PICK n \in Nat : n = old.commits + 1
    BY <1>2
<1>8. PICK r : r = [old EXCEPT !.at = "between", !.commits = n, !.entries = E]
    OBVIOUS
<1>9. /\ r \in Transaction /\ r.at = "between"
      /\ r.made = old.made /\ r.todo = old.todo /\ r.audited = old.audited
      /\ r.wrote = old.wrote /\ r.claimed = old.claimed /\ r.entries = E
    BY <1>6, <1>7, <1>8 DEF Transaction
<1>10. SetStep(t, r)
    BY <1>1, <1>3, <1>4, <1>7, <1>8 DEF InsertAudits
<1>11. ChangesOnce(r) /\ HasLock(t, r)
    BY <1>1, <1>2, <1>4, <1>9 DEF Fits, ChangesOnce, HasLock
<1>12. CASE ~old.audited
    <2>1. E = old.entries
        BY <1>4, <1>12
    <2>2. EntriesTell(r) /\ EntriesFollow(r)
        BY <1>1, <1>2, <1>9, <2>1 DEF Fits, EntriesTell, EntriesFollow
    <2> QED
        BY <1>1, <1>2, <1>9, <1>10, <1>11, <2>2, SessionGoesOn
<1>13. CASE old.audited
    <2> DEFINE o == Len(old.entries)
               m == Len(N)
    <2>1. /\ o \in Nat /\ m \in Nat /\ DOMAIN E = 1 .. (o + m)
          /\ DOMAIN old.entries = 1 .. o /\ DOMAIN N = 1 .. m
          /\ \A i \in 1 .. o : E[i] = old.entries[i]
          /\ \A i \in 1 .. m : E[o + i] = N[i]
          /\ old.entries = <<>> <=> o = 0
        <3>1. E = old.entries \o N /\ N \in Seq(Entry)
            BY <1>4, <1>5, <1>13
        <3> QED
            BY <1>2, <3>1, Concatenated, LenProperties
    <2> HIDE DEF o, m
    <2>2. \A i \in 1 .. (o + m) : i \in 1 .. o \/ (i - o \in 1 .. m /\ i = o + (i - o))
        BY <2>1
    <2>3. \A i \in 1 .. m : /\ N[i].agg = old.made[i] /\ N[i].agg \in Aggregates
                            /\ N[i].version = old.wrote[old.made[i]]
                            /\ N[i].version # 0 /\ i \in DOMAIN old.made
                            /\ N[i].previous = IF i = 1 THEN EndOf(old) ELSE Hash(N[i - 1])
        <3>1. old.previous = EndOf(old) /\ ChangesOnce(old)
            BY <1>1, <1>2, <1>13 DEF Fits, EntriesFollow
        <3>2. \A i \in DOMAIN N : N[i].agg \in Aggregates
            BY <1>5, <1>13, EntryTypes
        <3> SUFFICES ASSUME NEW i \in 1 .. m
                     PROVE  /\ N[i].agg = old.made[i] /\ N[i].agg \in Aggregates
                            /\ N[i].version = old.wrote[old.made[i]]
                            /\ N[i].version # 0 /\ i \in DOMAIN old.made
                            /\ N[i].previous = IF i = 1 THEN EndOf(old) ELSE Hash(N[i - 1])
            OBVIOUS
        <3>3. i \in DOMAIN N /\ i \in DOMAIN old.made /\ N[i].agg \in Aggregates
            BY <1>5, <1>13, <2>1, <3>2
        <3>4. N[i].agg = old.made[i] /\ N[i].version = old.wrote[old.made[i]]
            BY <1>5, <1>13, <3>3
        <3>5. N[i].previous = IF i = 1 THEN EndOf(old) ELSE Hash(N[i - 1])
            BY <1>5, <1>13, <3>1, <3>3
        <3>6. old.wrote[old.made[i]] # 0
            BY <3>1, <3>3 DEF ChangesOnce
        <3> QED
            BY <3>3, <3>4, <3>5, <3>6
    <2>4. \A i \in 1 .. o : old.entries[i].agg \in Aggregates
        BY <1>2, <2>1, EntryTypes
    <2>5. ASSUME NEW i \in 1 .. (o + m)
          PROVE  /\ aggVersion[E[i].agg] < E[i].version
                 /\ E[i].version <= old.wrote[E[i].agg]
        <3>1. CASE i \in 1 .. o
            BY <1>1, <2>1, <3>1 DEF Fits, EntriesTell
        <3>2. ASSUME NEW j \in 1 .. m, i = o + j
              PROVE  /\ aggVersion[E[i].agg] < E[i].version
                     /\ E[i].version <= old.wrote[E[i].agg]
            <4>1. /\ E[i] = N[j] /\ N[j].agg \in Aggregates
                  /\ N[j].version = old.wrote[N[j].agg] /\ N[j].version # 0
                BY <2>1, <2>3, <3>2
            <4>2. old.wrote[N[j].agg] \in Nat
                BY <1>2, <4>1
            <4> QED
                BY <1>1, <4>1, <4>2 DEF Fits, WritesAhead
        <3> QED
            BY <2>2, <3>1, <3>2
    <2>6. ASSUME NEW i \in 1 .. (o + m), NEW j \in 1 .. (o + m), i < j, E[i].agg = E[j].agg
          PROVE  E[i].version < E[j].version
        <3>1. CASE i \in 1 .. o /\ j \in 1 .. o
            BY <1>1, <2>1, <2>6, <3>1 DEF Fits, EntriesTell
        <3>2. ASSUME i \in 1 .. o, NEW l \in 1 .. m, j = o + l PROVE E[i].version < E[j].version
            <4>1. /\ E[i] = old.entries[i] /\ E[j] = N[l] /\ i \in DOMAIN old.entries
                  /\ l \in DOMAIN old.made /\ N[l].agg = old.made[l]
                  /\ N[l].version = old.wrote[old.made[l]]
                BY <2>1, <2>3, <3>2
            <4> QED
                BY <1>1, <1>2, <2>6, <4>1 DEF Fits, EntriesTell
        <3>3. ASSUME NEW k \in 1 .. m, i = o + k, NEW l \in 1 .. m, j = o + l PROVE FALSE
            <4>1. /\ k # l /\ k \in DOMAIN old.made /\ l \in DOMAIN old.made
                  /\ E[i].agg = old.made[k] /\ E[j].agg = old.made[l]
                BY <2>1, <2>3, <2>6, <3>3
            <4> QED
                BY <1>1, <2>6, <4>1 DEF Fits, ChangesOnce
        <3>4. ~(i \notin 1 .. o /\ j \in 1 .. o)
            BY <2>1, <2>6
        <3> QED
            BY <2>2, <3>1, <3>2, <3>3, <3>4
    <2>7. ASSUME NEW i \in 1 .. (o + m)
          PROVE  E[i].previous = IF i = 1 THEN Store!LastHash(ledger) ELSE Hash(E[i - 1])
        <3>1. CASE i \in 1 .. o
            <4>1. E[i] = old.entries[i] /\ (i # 1 => i - 1 \in 1 .. o /\ E[i - 1] = old.entries[i - 1])
                BY <2>1, <3>1
            <4> QED
                BY <1>1, <2>1, <3>1, <4>1 DEF Fits, EntriesFollow
        <3>2. ASSUME NEW j \in 1 .. m, i = o + j
              PROVE  E[i].previous = IF i = 1 THEN Store!LastHash(ledger) ELSE Hash(E[i - 1])
            <4>1. CASE j = 1 /\ o = 0
                BY <2>1, <2>3, <3>2, <4>1 DEF EndOf
            <4>2. CASE j = 1 /\ o # 0
                <5>1. /\ i # 1 /\ i - 1 = o /\ E[o] = old.entries[o]
                      /\ EndOf(old) = Hash(old.entries[o])
                    BY <2>1, <3>2, <4>2 DEF EndOf, o
                <5> QED
                    BY <2>1, <2>3, <3>2, <4>2, <5>1
            <4>3. CASE j # 1
                <5>1. j - 1 \in 1 .. m /\ i - 1 = o + (j - 1) /\ i # 1
                    BY <2>1, <3>2, <4>3
                <5>2. E[i - 1] = N[j - 1] /\ E[i] = N[j]
                    BY <2>1, <3>2, <5>1
                <5> QED
                    BY <2>3, <4>3, <5>1, <5>2
            <4> QED
                BY <4>1, <4>2, <4>3
        <3> QED
            BY <2>2, <3>1, <3>2
    <2>8. EntriesTell(r)
        BY <1>9, <2>1, <2>5, <2>6 DEF EntriesTell
    <2>9. EntriesFollow(r)
        BY <1>9, <2>1, <2>7 DEF EntriesFollow
    <2> QED
        BY <1>1, <1>2, <1>9, <1>10, <1>11, <2>8, <2>9, SessionGoesOn
<1> QED
    BY <1>12, <1>13

-----------------------------------------------------------------------------
(* The commit.                                                             *)
LEMMA Commits ==
    ASSUME StoreInv, NEW t \in Sessions, EndTransaction(t),
           NEW r \in Transaction, r = tx[t]
    PROVE  /\ \A a \in Aggregates :
                aggVersion'[a] = IF r.wrote[a] # 0 THEN r.wrote[a] ELSE aggVersion[a]
           /\ \A k \in StoreKeys \ r.claimed : keyOwner'[k] = keyOwner[k]
           /\ \A k \in r.claimed : /\ keyOwner'[k] \in Aggregates
                                   /\ k \in StoreKeyOf(keyOwner'[k])
                                   /\ New(r, keyOwner'[k])
           /\ ledger' = ledger \o r.entries
           /\ aggVersion' \in [Aggregates -> Nat]
           /\ keyOwner' \in [StoreKeys -> Aggregates \union {NoOwner}]
<1>1. /\ aggVersion \in [Aggregates -> Nat]
      /\ keyOwner \in [StoreKeys -> Aggregates \union {NoOwner}]
      /\ r.wrote \in [Aggregates -> Nat] /\ r.claimed \in SUBSET StoreKeys /\ ClaimsKeys(r)
    BY TransactionTypes, SessionOf DEF StoreInv, PostgresTypeOK, Fits
<1>2. /\ aggVersion' = [a \in Aggregates |-> Seen(t, a)]
      /\ keyOwner' = [k \in StoreKeys |->
                        IF k \in r.claimed
                        THEN CHOOSE a \in Aggregates : k \in StoreKeyOf(a) /\ r.wrote[a] # 0
                                                       /\ aggVersion[a] = 0
                        ELSE keyOwner[k]]
      /\ ledger' = ledger \o r.entries
    BY DEF EndTransaction, Chain
<1>3. \A a \in Aggregates :
         aggVersion'[a] = IF r.wrote[a] # 0 THEN r.wrote[a] ELSE aggVersion[a]
    BY <1>2 DEF Seen
<1>4. aggVersion' \in [Aggregates -> Nat]
    BY <1>2, SeenTypes
<1>5. ASSUME NEW k \in r.claimed
      PROVE  /\ keyOwner'[k] \in Aggregates /\ k \in StoreKeyOf(keyOwner'[k])
             /\ New(r, keyOwner'[k])
    <2>1. \E a \in Aggregates : k \in StoreKeyOf(a) /\ r.wrote[a] # 0 /\ aggVersion[a] = 0
        BY <1>1 DEF ClaimsKeys, New
    <2>2. keyOwner'[k] = CHOOSE a \in Aggregates : k \in StoreKeyOf(a) /\ r.wrote[a] # 0
                                                   /\ aggVersion[a] = 0
        BY <1>1, <1>2
    <2> QED
        BY <2>1, <2>2 DEF New
<1>6. \A k \in StoreKeys \ r.claimed : keyOwner'[k] = keyOwner[k]
    BY <1>2
<1>7. keyOwner' \in [StoreKeys -> Aggregates \union {NoOwner}]
    <2>1. \A k \in StoreKeys : keyOwner'[k] \in Aggregates \union {NoOwner}
        BY <1>1, <1>5, <1>6
    <2>2. DOMAIN keyOwner' = StoreKeys /\ keyOwner' = [k \in StoreKeys |-> keyOwner'[k]]
        BY <1>2
    <2> QED
        BY <2>1, <2>2
<1> QED
    BY <1>2, <1>3, <1>4, <1>5, <1>6, <1>7

(* What another transaction goes on from is untouched by the commit.       *)
LEMMA OthersStandStill ==
    ASSUME StoreInv, NEW t \in Sessions, EndTransaction(t),
           NEW u \in Sessions, u # t, NEW s \in Transaction, s = tx[u]
    PROVE  Fits(u, s)'
<1>1. PICK r \in Transaction : r = tx[t] /\ Fits(t, r)
    BY SessionOf
<1>2. Fits(u, s) /\ Apart(r, s) /\ s.wrote \in [Aggregates -> Nat] /\ s.entries \in Seq(Entry)
      /\ s.claimed \in SUBSET StoreKeys /\ r.entries \in Seq(Entry) /\ ledger \in Seq(Entry)
    BY <1>1, SessionOf, SessionsApart, TransactionTypes DEF StoreInv, PostgresTypeOK
<1>3. ledgerLock' = ledgerLock \ {t}
    BY DEF EndTransaction
<1>4. \A a \in Aggregates : s.wrote[a] # 0 => aggVersion'[a] = aggVersion[a]
    BY <1>1, <1>2, Commits DEF Apart
<1>5. \A k \in s.claimed : keyOwner'[k] = keyOwner[k]
    BY <1>1, <1>2, Commits DEF Apart
<1>6. WritesAhead(s)'
    BY <1>2, <1>4 DEF Fits, WritesAhead
<1>7. ClaimsKeys(s)'
    <2>1. \A a \in Aggregates : New(s, a)' <=> New(s, a)
        BY <1>4 DEF New
    <2> QED
        BY <1>2, <1>5, <2>1 DEF Fits, ClaimsKeys
<1>8. ChangesOnce(s)' /\ HasLock(u, s)'
    BY <1>2, <1>3 DEF Fits, ChangesOnce, HasLock
<1>9. EntriesTell(s)'
    <2>1. EntriesTell(s)
        BY <1>2 DEF Fits
    <2>2. ASSUME NEW i \in DOMAIN s.entries
          PROVE  aggVersion'[s.entries[i].agg] = aggVersion[s.entries[i].agg]
        <3>1. s.entries[i].agg \in Aggregates /\ s.entries[i].version \in Nat
            BY <1>2, EntryTypes
        <3>2. /\ aggVersion[s.entries[i].agg] \in Nat /\ s.wrote[s.entries[i].agg] \in Nat
              /\ aggVersion[s.entries[i].agg] < s.entries[i].version
              /\ s.entries[i].version <= s.wrote[s.entries[i].agg]
            BY <1>2, <2>1, <3>1 DEF EntriesTell, StoreInv, PostgresTypeOK
        <3>3. s.wrote[s.entries[i].agg] # 0
            BY <3>1, <3>2
        <3> QED
            BY <1>4, <3>1, <3>3
    <2> QED
        BY <2>1, <2>2 DEF EntriesTell
<1>10. EntriesFollow(s)'
    <2>1. CASE s.entries = <<>> /\ ~(s.at = "audits" /\ s.audited)
        BY <2>1 DEF EntriesFollow
    <2>2. CASE s.entries # <<>> \/ (s.at = "audits" /\ s.audited)
        <3>1. u \in ledgerLock
            BY <1>2, <2>2 DEF Fits, HasLock
        <3>2. t \notin ledgerLock
            BY <3>1 DEF StoreInv, OneLock
        <3>3. r.entries = <<>>
            BY <1>1, <3>2 DEF Fits, HasLock
        <3>4. ledger' = ledger
            BY <1>1, <1>2, <3>3, Commits, ConcatEmptySeq
        <3> QED
            BY <1>2, <3>4 DEF Fits, EntriesFollow, EndOf
    <2> QED
        BY <2>1, <2>2
<1> QED
    BY <1>6, <1>7, <1>8, <1>9, <1>10 DEF Fits

LEMMA EndKeeps ==
    ASSUME StoreInv, NEW t \in Sessions, EndTransaction(t)
    PROVE  StoreInv'
<1>1. PICK r \in Transaction : r = tx[t]
    BY SessionOf
<1>2. SetStep(t, Closed) /\ ledgerLock' = ledgerLock \ {t}
    BY DEF EndTransaction
<1>3. /\ tx \in [Sessions -> Transaction] /\ tx' \in [Sessions -> Transaction] /\ tx'[t] = Closed
      /\ \A u \in Sessions \ {t} : tx'[u] = tx[u]
    BY <1>2, ClosedFits DEF SetStep, StoreInv, PostgresTypeOK
<1>4. PostgresTypeOK'
    <2>1. ledger' \in Seq(Entry)
        BY <1>1, Commits, TransactionTypes, Concatenated DEF StoreInv, PostgresTypeOK
    <2> QED
        BY <1>1, <1>2, <1>3, <2>1, Commits DEF StoreInv, PostgresTypeOK
<1>5. Fits(t, Closed)'
    <2>1. /\ Closed.entries = <<>> /\ Closed.made = <<>> /\ Closed.todo = <<>>
          /\ Closed.at = "none" /\ Closed.claimed = {}
          /\ Closed.wrote = [a \in Aggregates |-> 0]
        BY DEF Closed
    <2> QED
        BY <2>1 DEF Fits, WritesAhead, ClaimsKeys, New, ChangesOnce, EntriesTell, EntriesFollow, HasLock
<1>6. ASSUME NEW u \in Sessions, NEW s \in Transaction, tx'[u] = s PROVE Fits(u, s)'
    <2>1. CASE u = t
        BY <1>3, <1>5, <1>6, <2>1
    <2>2. CASE u # t
        BY <1>3, <1>6, <2>2, OthersStandStill
    <2> QED
        BY <2>1, <2>2
<1>7. ASSUME NEW u \in Sessions, NEW v \in Sessions, NEW a \in Transaction, NEW b \in Transaction,
             u # v, tx'[u] = a, tx'[v] = b
      PROVE  Apart(a, b)
    BY <1>3, <1>7, ClosedFits, SessionsApart
<1>8. OneLock'
    BY <1>2 DEF StoreInv, OneLock
<1> QED
    BY <1>4, <1>6, <1>7, <1>8 DEF StoreInv, AllFit, AllApart, Apart

(* It is a step of the store.                                              *)
LEMMA EndCommits ==
    ASSUME StoreInv, NEW t \in Sessions, EndTransaction(t)
    PROVE  Store!CommitTransaction
<1>1. PICK r \in Transaction : r = tx[t] /\ Fits(t, r)
    BY SessionOf
<1>2. /\ r.wrote \in [Aggregates -> Nat] /\ aggVersion \in [Aggregates -> Nat]
      /\ r.entries \in Seq(Entry) /\ ledger \in Seq(Entry) /\ r.claimed \in SUBSET StoreKeys
      /\ DOMAIN r.entries = 1 .. Len(r.entries)
    BY TransactionTypes, LenProperties DEF StoreInv, PostgresTypeOK
<1>3. ledger' = ledger \o r.entries
    BY <1>1, Commits
<1>4. ASSUME NEW a \in Aggregates
      PROVE  /\ aggVersion'[a] >= aggVersion[a]
             /\ aggVersion[a] = 0 /\ aggVersion'[a] > 0 =>
                  \A k \in StoreKeyOf(a) : keyOwner'[k] = a
    <2>1. aggVersion'[a] = IF r.wrote[a] # 0 THEN r.wrote[a] ELSE aggVersion[a]
        BY <1>1, Commits
    <2>2. aggVersion'[a] >= aggVersion[a]
        BY <1>1, <1>2, <2>1 DEF Fits, WritesAhead
    <2>3. ASSUME aggVersion[a] = 0, aggVersion'[a] > 0, NEW k \in StoreKeyOf(a)
          PROVE  keyOwner'[k] = a
        <3>1. New(r, a)
            BY <2>1, <2>3 DEF New
        <3>2. k \in r.claimed
            BY <1>1, <3>1 DEF Fits, ClaimsKeys
        <3>3. keyOwner'[k] \in Aggregates /\ k \in StoreKeyOf(keyOwner'[k]) /\ New(r, keyOwner'[k])
            BY <1>1, <3>2, Commits
        <3> QED
            BY <1>1, <3>1, <3>3 DEF Fits, ClaimsKeys
    <2> QED
        BY <2>2, <2>3
<1>5. ASSUME NEW k \in StoreKeys
      PROVE  /\ keyOwner[k] # NoOwner => keyOwner'[k] = keyOwner[k]
             /\ keyOwner'[k] # keyOwner[k] => /\ aggVersion[keyOwner'[k]] = 0
                                              /\ aggVersion'[keyOwner'[k]] > 0
    <2>1. CASE k \notin r.claimed
        BY <1>1, <2>1, Commits
    <2>2. CASE k \in r.claimed
        <3>1. keyOwner[k] = NoOwner
            BY <1>1, <2>2 DEF Fits, ClaimsKeys
        <3>2. PICK a \in Aggregates : a = keyOwner'[k] /\ New(r, a)
            BY <1>1, <2>2, Commits
        <3>3. aggVersion[a] = 0 /\ aggVersion'[a] > 0
            BY <1>1, <1>2, <3>2, Commits DEF New
        <3> QED
            BY <3>1, <3>2, <3>3
    <2> QED
        BY <2>1, <2>2
<1>6. Store!Added = r.entries /\ Store!IsPrefix(ledger, ledger')
    BY <1>2, <1>3, AddedEntries DEF Store!Added
<1>7. \A i \in DOMAIN r.entries :
         r.entries[i].previous = Store!LastHash(SubSeq(ledger', 1, Len(ledger) + i - 1))
    <2> SUFFICES ASSUME NEW i \in DOMAIN r.entries
                 PROVE  r.entries[i].previous =
                            Store!LastHash(SubSeq(ledger', 1, Len(ledger) + i - 1))
        OBVIOUS
    <2>1. r.entries[i].previous =
             IF i = 1 THEN Store!LastHash(ledger) ELSE Hash(r.entries[i - 1])
        BY <1>1 DEF Fits, EntriesFollow
    <2>2. Store!LastHash(SubSeq(ledger \o r.entries, 1, Len(ledger) + i - 1)) =
             IF i = 1 THEN Store!LastHash(ledger) ELSE Hash(r.entries[i - 1])
        BY <1>2, AddedEntries
    <2> QED
        BY <1>3, <2>1, <2>2
<1>8. Store!Chained
    BY <1>6, <1>7 DEF Store!Chained
<1>9. Store!TellsChanges
    <2>1. ASSUME NEW i \in DOMAIN r.entries
          PROVE  r.entries[i].version \in
                    aggVersion[r.entries[i].agg] + 1 .. aggVersion'[r.entries[i].agg]
        <3>1. PICK a \in Aggregates, v \in Nat : a = r.entries[i].agg /\ v = r.entries[i].version
            BY <1>2, EntryTypes
        <3>2. aggVersion[a] < v /\ v <= r.wrote[a]
            BY <1>1, <3>1 DEF Fits, EntriesTell
        <3>3. r.wrote[a] \in Nat /\ aggVersion[a] \in Nat
            BY <1>2, <3>1
        <3>3a. r.wrote[a] # 0
            BY <3>2, <3>3
        <3>3b. aggVersion'[a] = r.wrote[a]
            BY <1>1, <3>3a, Commits
        <3>4. v \in aggVersion[a] + 1 .. aggVersion'[a]
            BY <3>1, <3>2, <3>3, <3>3b
        <3> QED
            BY <3>1, <3>4
    <2> QED
        BY <1>1, <1>6, <2>1 DEF Fits, EntriesTell, Store!TellsChanges
<1>10. outboxed' = outboxed \union {Store!Hash(Store!Added[i]) : i \in DOMAIN Store!Added}
    BY <1>1, <1>6 DEF EndTransaction, Hash, Store!Hash
<1> QED
    BY <1>4, <1>5, <1>8, <1>9, <1>10 DEF Store!CommitTransaction, Store!KeysKept

-----------------------------------------------------------------------------
LEMMA StoreInitially == PostgresInit => StoreInv
<1> SUFFICES ASSUME PostgresInit PROVE StoreInv
    OBVIOUS
<1>1. \A t \in Sessions : tx[t] = Closed
    BY DEF PostgresInit
<1>2. PostgresTypeOK
    BY ClosedFits, EmptySeq, ExistingAssumption DEF PostgresInit, Store!StoreInit, PostgresTypeOK
<1>3. AllFit /\ AllApart
    BY <1>1, ClosedFits DEF AllFit, AllApart
<1> QED
    BY <1>2, <1>3 DEF PostgresInit, StoreInv, OneLock

LEMMA SessionStepKeeps ==
    ASSUME StoreInv, NEW t \in Sessions, SessionStep(t)
    PROVE  StoreInv' /\ (Store!CommitTransaction \/ UNCHANGED Store!storeVars)
<1>1. CASE EndTransaction(t)
    BY <1>1, EndKeeps, EndCommits
<1>2. CASE Rollback(t)
    BY <1>2, RollbackKeeps DEF Rollback, Committed, Store!storeVars
<1>3. CASE RequestCommit(t)
    BY <1>3, RequestKeeps DEF RequestCommit, Store!storeVars
<1>4. CASE WriteAggregate(t)
    BY <1>4, WriteKeeps DEF WriteAggregate, Store!storeVars
<1>5. CASE ChangesDone(t)
    BY <1>5, ChangesDoneKeeps DEF ChangesDone, Store!storeVars
<1>6. CASE LockLedger(t)
    BY <1>6, LockLedgerKeeps DEF LockLedger, Store!storeVars
<1>7. CASE ReadTail(t)
    BY <1>7, ReadTailKeeps DEF ReadTail, Store!storeVars
<1>8. CASE InsertAudits(t)
    BY <1>8, InsertAuditsKeeps DEF InsertAudits, Store!storeVars
<1> QED
    BY <1>1, <1>2, <1>3, <1>4, <1>5, <1>6, <1>7, <1>8
    DEF SessionStep, Refuse, Fail, BreakDeadlock

LEMMA StoreStepKeeps ==
    ASSUME StoreInv, [PostgresNext]_postgresVars
    PROVE  StoreInv' /\ [Store!CommitTransaction]_(Store!storeVars)
<1>1. CASE PostgresNext
    BY <1>1, SessionStepKeeps DEF PostgresNext
<1>2. CASE UNCHANGED postgresVars
    <2>1. UNCHANGED <<aggVersion, keyOwner, ledger, outboxed, tx, ledgerLock>>
        BY <1>2 DEF postgresVars
    <2> QED
        BY <2>1 DEF Store!storeVars, StoreInv, PostgresTypeOK, AllFit, AllApart, OneLock, Fits,
                    WritesAhead, ClaimsKeys, New, EntriesTell, EntriesFollow, EndOf, ChangesOnce,
                    HasLock, Apart
<1> QED
    BY <1>1, <1>2

(* StoreIsAtomic: transactions that interleave statement by statement are   *)
(* steps of one store, all of their changes or none, versions that only    *)
(* grow, one aggregate per business key and one chain of audit entries     *)
(* without a fork (postgres-repository.ts, repository.ts).                 *)
THEOREM ImplementsStore == PostgresSpec => StoreIsAtomic
<1>1. PostgresInit => Store!StoreInit
    BY DEF PostgresInit
<1>2. StoreInv /\ [PostgresNext]_postgresVars
        => StoreInv' /\ [Store!CommitTransaction]_(Store!storeVars)
    BY StoreStepKeeps
<1> QED
    BY <1>1, <1>2, StoreInitially, PTL DEF PostgresSpec, StoreIsAtomic, Store!StoreSpec

-----------------------------------------------------------------------------
(***************************************************************************)
(* MemoryStore: aggregates, keys, audits and events tell one story.        *)
(*                                                                         *)
(* Every commit moves a whole state of the store to a whole state, and a   *)
(* scope works on a copy, so that what it leaves unfinished is nowhere and *)
(* what it publishes is whole.                                             *)
(***************************************************************************)

FirstTold(a) == IF a \in MemSeeded THEN 2 ELSE 1
(* Version v of an aggregate was written since the start.                  *)
Written(m, a, v) == FirstTold(a) <= v /\ v <= m.version[a]

MemMoment == MemAggregates \X Nat
MemEventRow == [of : MemMoment, status : {"pending", "processing", "failed", "completed", "dead_letter"}]
MemMaps == [version : [MemAggregates -> Nat], owner : [MemKeys -> MemAggregates \union {MemNoOwner}],
            audits : Seq(MemMoment), events : SUBSET MemEventRow]

SeedsAreOld(m) == \A a \in MemSeeded : m.version[a] >= 1
AuditsTell(m) == \A a \in MemAggregates, v \in Nat :
    Written(m, a, v) <=> \E i \in DOMAIN m.audits : m.audits[i] = <<a, v>>
EventsTell(m) == \A a \in MemAggregates, v \in Nat :
    Written(m, a, v) <=> \E e \in m.events : e.of = <<a, v>>
KeysTell(m) == \A a \in MemAggregates, k \in MemKeys :
    k \in MemKeyOf(a) => (m.version[a] > 0 <=> m.owner[k] = a)

(* One store, whether the one in use or a copy a transaction works on.     *)
OnePiece(m) ==
    /\ m \in MemMaps /\ SeedsAreOld(m)
    /\ AuditsTell(m) /\ IsInjective(m.audits) /\ EventsTell(m) /\ KeysTell(m)

MemCallerState == {MemRest} \union [at : {"queued", "locking"}, lock : LockKeys \union {NoMemLock}]
                      \union [at : {"scoped"}, lock : LockKeys \union {NoMemLock}, copy : {m \in MemMaps : OnePiece(m)}]
MemInv == OnePiece(mem) /\ caller \in [MemCallers -> MemCallerState]

-----------------------------------------------------------------------------
(* What a commit makes of one store.                                       *)

LEMMA MemFields ==
    ASSUME NEW m \in MemMaps
    PROVE  /\ m.version \in [MemAggregates -> Nat]
           /\ m.owner \in [MemKeys -> MemAggregates \union {MemNoOwner}]
           /\ m.audits \in Seq(MemMoment) /\ m.events \in SUBSET MemEventRow
           /\ m = [version |-> m.version, owner |-> m.owner, audits |-> m.audits, events |-> m.events]
BY DEF MemMaps

(* n is m with version v of an aggregate, its keys, its entry, its event.  *)
WithVersion(m, n, agg, v, expected) ==
    /\ n \in MemMaps
    /\ n.version = [m.version EXCEPT ![agg] = v]
    /\ n.owner = [k \in MemKeys |-> IF k \in MemKeyOf(agg) /\ expected = 0
                                     THEN agg ELSE m.owner[k]]
    /\ n.audits = Append(m.audits, <<agg, v>>)
    /\ n.events = m.events \union {[of |-> <<agg, v>>, status |-> "pending"]}

(* A change that is not refused, written out.                              *)
LEMMA AppliedChange ==
    ASSUME NEW m \in MemMaps, NEW c,
           NEW agg \in MemAggregates, NEW expected \in Nat, NEW v \in Nat,
           agg = c.agg, expected = c.expected, v = expected + 1,
           NEW n, n = Apply(m, c)
    PROVE  WithVersion(m, n, agg, v, expected)
<1>3. PICK what \in MemMoment : what = <<agg, v>>
  BY DEF MemMoment
<1>4. PICK owner : owner = [k \in MemKeys |-> IF k \in MemKeyOf(agg) /\ expected = 0
                                              THEN agg ELSE m.owner[k]]
  OBVIOUS
<1>5. PICK version : version = [m.version EXCEPT ![agg] = v]
  OBVIOUS
<1>6. owner \in [MemKeys -> MemAggregates \union {MemNoOwner}] /\ version \in [MemAggregates -> Nat]
  BY <1>4, <1>5, MemFields
<1>7. PICK m1 : m1 = [m EXCEPT !.owner = owner]
  OBVIOUS
<1>8. m1 = [version |-> m.version, owner |-> owner, audits |-> m.audits, events |-> m.events]
  BY <1>7 DEF MemMaps
<1>9. applyClaims(m, c) = m1
  BY <1>4, <1>7 DEF applyClaims
<1>10. PICK m2 : m2 = [m1 EXCEPT !.version = version]
  OBVIOUS
<1>11. m2 = [version |-> version, owner |-> owner, audits |-> m.audits, events |-> m.events]
  BY <1>8, <1>10
<1>12. applyChange(m1, c) = m2
  BY <1>5, <1>8, <1>10 DEF applyChange
<1>13. Told(m2, c) = [version |-> version, owner |-> owner, audits |-> Append(m.audits, what),
                      events |-> m.events \union {[of |-> what, status |-> "pending"]}]
  <2>1. PICK event : event = [of |-> what, status |-> "pending"]
    OBVIOUS
  <2>2. PICK m3 : m3 = [m2 EXCEPT !.audits = Append(m2.audits, what),
                                !.events = m2.events \union {event}]
    OBVIOUS
  <2>3. m3 = [version |-> version, owner |-> owner, audits |-> Append(m.audits, what),
             events |-> m.events \union {event}]
    BY <1>11, <2>2
  <2>4. Told(m2, c) = m3
    BY <1>3, <2>1, <2>2 DEF Told
  <2> QED BY <2>1, <2>3, <2>4
<1>14. Apply(m, c) = [version |-> version, owner |-> owner, audits |-> Append(m.audits, what),
                      events |-> m.events \union {[of |-> what, status |-> "pending"]}]
  BY <1>9, <1>12, <1>13 DEF Apply
<1>15. Append(m.audits, what) \in Seq(MemMoment)
  BY <1>3, MemFields
<1>16. [of |-> what, status |-> "pending"] \in MemEventRow
  BY <1>3 DEF MemEventRow
<1>17. m.events \union {[of |-> what, status |-> "pending"]} \in SUBSET MemEventRow
  BY <1>16, MemFields
<1>18. Apply(m, c) \in MemMaps
  BY <1>6, <1>14, <1>15, <1>17 DEF MemMaps
<1> QED BY <1>3, <1>4, <1>5, <1>14, <1>18 DEF WithVersion

(* It leaves the store of one piece.                                       *)
LEMMA AppliedIsOnePiece ==
    ASSUME NEW m, OnePiece(m), NEW c \in MemChange, ~Refuses(m, c)
    PROVE  OnePiece(Apply(m, c))
<1>1. PICK n : n = Apply(m, c)
  OBVIOUS
<1>2. PICK agg \in MemAggregates, expected \in Nat : agg = c.agg /\ expected = c.expected
  BY SeededAssumption DEF MemChange, MemVersions
<1>3. PICK new \in Nat : new = expected + 1
  OBVIOUS
<1>4. m \in MemMaps
  BY DEF OnePiece
<1>5. /\ n \in MemMaps
      /\ n.version = [m.version EXCEPT ![agg] = new]
      /\ n.owner = [k \in MemKeys |-> IF k \in MemKeyOf(agg) /\ expected = 0
                                       THEN agg ELSE m.owner[k]]
      /\ n.audits = Append(m.audits, <<agg, new>>)
      /\ n.events = m.events \union {[of |-> <<agg, new>>, status |-> "pending"]}
  <2>1. /\ agg = c.agg /\ expected = c.expected /\ new = expected + 1
        /\ n = Apply(m, c) /\ m \in MemMaps
    BY <1>1, <1>2, <1>3, <1>4
  <2>2. WithVersion(m, n, agg, new, expected)
    BY <2>1, AppliedChange
  <2> QED BY <2>2 DEF WithVersion
<1>6. m.version \in [MemAggregates -> Nat] /\ m.version[agg] = expected
  BY <1>2, <1>4, MemFields DEF Refuses, Conflicts
<1>7. \A a \in MemAggregates : n.version[a] = IF a = agg THEN new ELSE m.version[a]
  BY <1>5, <1>6
<1>8. agg \in MemSeeded => expected >= 1
  BY <1>6 DEF OnePiece, SeedsAreOld
<1>9. \A a \in MemAggregates, v \in Nat :
         Written(n, a, v) <=> Written(m, a, v) \/ (a = agg /\ v = new)
  BY <1>3, <1>6, <1>7, <1>8 DEF Written, FirstTold
<1>10. SeedsAreOld(n)
  BY <1>3, <1>7, SeededAssumption DEF OnePiece, SeedsAreOld
<1>11. ~Written(m, agg, new)
  BY <1>3, <1>6 DEF Written
<1>12. PICK len \in Nat : len = Len(m.audits)
  BY <1>4, MemFields
<1>13. /\ m.audits \in Seq(MemMoment) /\ DOMAIN m.audits = 1 .. len /\ DOMAIN n.audits = 1 .. len + 1
       /\ \A i \in 1 .. len : n.audits[i] = m.audits[i]
       /\ n.audits[len + 1] = <<agg, new>>
  <2>1. <<agg, new>> \in MemMoment
    BY DEF MemMoment
  <2> QED BY <1>4, <1>5, <1>12, <2>1, MemFields
<1>14. AuditsTell(n)
  <2> SUFFICES ASSUME NEW a \in MemAggregates, NEW v \in Nat
               PROVE  Written(n, a, v) <=> \E i \in DOMAIN n.audits : n.audits[i] = <<a, v>>
    BY DEF AuditsTell
  <2>1. Written(m, a, v) <=> \E i \in 1 .. len : m.audits[i] = <<a, v>>
    BY <1>13 DEF OnePiece, AuditsTell
  <2>2. (\E i \in 1 .. len + 1 : n.audits[i] = <<a, v>>)
           <=> (\E i \in 1 .. len : m.audits[i] = <<a, v>>) \/ <<agg, new>> = <<a, v>>
    <3>1. \A i : i \in 1 .. len + 1 <=> i \in 1 .. len \/ i = len + 1
      BY <1>12
    <3>2. ASSUME NEW i \in 1 .. len, m.audits[i] = <<a, v>>
          PROVE  \E j \in 1 .. len + 1 : n.audits[j] = <<a, v>>
      BY <1>13, <3>1, <3>2
    <3>3. ASSUME <<agg, new>> = <<a, v>>
          PROVE  \E j \in 1 .. len + 1 : n.audits[j] = <<a, v>>
      BY <1>13, <3>1, <3>3
    <3>4. ASSUME NEW j \in 1 .. len + 1, n.audits[j] = <<a, v>>
          PROVE  (\E i \in 1 .. len : m.audits[i] = <<a, v>>) \/ <<agg, new>> = <<a, v>>
      BY <1>13, <3>1, <3>4
    <3> QED BY <3>2, <3>3, <3>4
  <2>3. <<agg, new>> = <<a, v>> <=> a = agg /\ v = new
    OBVIOUS
  <2> QED BY <1>9, <1>13, <2>1, <2>2, <2>3
<1>15. IsInjective(n.audits)
  <2>1. \A i \in 1 .. len : m.audits[i] # <<agg, new>>
    BY <1>11, <1>13 DEF OnePiece, AuditsTell
  <2>2. \A i, j \in 1 .. len : m.audits[i] = m.audits[j] => i = j
    BY <1>13 DEF OnePiece, IsInjective
  <2>3. \A i, j \in 1 .. len + 1 : n.audits[i] = n.audits[j] => i = j
    <3> SUFFICES ASSUME NEW i \in 1 .. len + 1, NEW j \in 1 .. len + 1, n.audits[i] = n.audits[j]
                 PROVE  i = j
      OBVIOUS
    <3>1. CASE i \in 1 .. len /\ j \in 1 .. len
      BY <1>13, <2>2, <3>1
    <3>2. CASE i = len + 1 /\ j \in 1 .. len
      BY <1>13, <2>1, <3>2
    <3>3. CASE j = len + 1 /\ i \in 1 .. len
      BY <1>13, <2>1, <3>3
    <3> QED BY <1>12, <3>1, <3>2, <3>3
  <2> QED BY <1>13, <2>3 DEF IsInjective
<1>16. EventsTell(n)
  <2> SUFFICES ASSUME NEW a \in MemAggregates, NEW v \in Nat
               PROVE  Written(n, a, v) <=> \E e \in n.events : e.of = <<a, v>>
    BY DEF EventsTell
  <2>1. Written(m, a, v) <=> \E e \in m.events : e.of = <<a, v>>
    BY DEF OnePiece, EventsTell
  <2>2. [of |-> <<agg, new>>, status |-> "pending"].of = <<agg, new>>
    OBVIOUS
  <2>3. <<agg, new>> = <<a, v>> <=> a = agg /\ v = new
    OBVIOUS
  <2> QED BY <1>5, <1>9, <2>1, <2>2, <2>3
<1>17. KeysTell(n)
  <2> SUFFICES ASSUME NEW a \in MemAggregates, NEW k \in MemKeys, k \in MemKeyOf(a)
               PROVE  n.version[a] > 0 <=> n.owner[k] = a
    BY DEF KeysTell
  <2>1. m.version[a] > 0 <=> m.owner[k] = a
    BY DEF OnePiece, KeysTell
  <2>2. n.owner[k] = IF k \in MemKeyOf(agg) /\ expected = 0 THEN agg ELSE m.owner[k]
    BY <1>5
  <2>3. CASE expected = 0 /\ k \in MemKeyOf(agg)
    <3>1. m.owner[k] \in {MemNoOwner, agg}
      BY <1>2, <2>3 DEF Refuses, Claimed
    <3>2. m.owner[k] # agg
      BY <1>6, <2>3 DEF OnePiece, KeysTell
    <3>3. a # agg => m.version[a] = 0
      BY <1>6, <2>1, <3>1, <3>2, SeededAssumption
    <3> QED BY <1>3, <1>7, <2>2, <2>3, <3>3
  <2>4. CASE ~(expected = 0 /\ k \in MemKeyOf(agg))
    <3>1. a = agg => expected > 0
      BY <2>4
    <3> QED BY <1>3, <1>6, <1>7, <2>1, <2>2, <2>4, <3>1
  <2> QED BY <2>3, <2>4
<1> QED BY <1>1, <1>5, <1>10, <1>14, <1>15, <1>16, <1>17 DEF OnePiece

(* A commit is all its changes or none.                                    *)
LEMMA CommittedIsOnePiece ==
    ASSUME NEW m, OnePiece(m), NEW changes \in MemRequests
    PROVE  OnePiece(CommitAll(m, changes))
<1>1. /\ Len(changes) \in {1, 2} /\ changes[1] \in MemChange
      /\ Len(changes) = 2 => changes[2] \in MemChange
  BY DEF MemRequests
<1>2. PICK first : first = Apply(m, changes[1])
  OBVIOUS
<1>3. ~Refuses(m, changes[1]) => OnePiece(first)
  BY <1>1, <1>2, AppliedIsOnePiece
<1>4. ~Refuses(m, changes[1]) /\ Len(changes) = 2 /\ ~Refuses(first, changes[2])
         => OnePiece(Apply(first, changes[2]))
  BY <1>1, <1>3, AppliedIsOnePiece
<1> QED BY <1>1, <1>2, <1>3, <1>4 DEF CommitAll

(* The status of an event is no part of the story.                         *)
LEMMA EventIsOnePiece ==
    ASSUME OnePiece(mem), NEW e \in mem.events,
           NEW status \in {"pending", "processing", "failed", "completed", "dead_letter"},
           SetEvent(e, status)
    PROVE  OnePiece(mem')
<1>1. mem \in MemMaps
  BY DEF OnePiece
<1>2. e \in MemEventRow
  BY <1>1, MemFields
<1>3. PICK f : f = [e EXCEPT !.status = status]
  OBVIOUS
<1>4. f = [of |-> e.of, status |-> status]
  BY <1>2, <1>3 DEF MemEventRow
<1>5. f \in MemEventRow /\ f.of = e.of
  BY <1>2, <1>4 DEF MemEventRow
<1>6. PICK events : events = (mem.events \ {e}) \union {f}
  OBVIOUS
<1>7. mem' = [mem EXCEPT !.events = events]
  BY <1>3, <1>6 DEF SetEvent
<1>8. mem' = [version |-> mem.version, owner |-> mem.owner, audits |-> mem.audits, events |-> events]
  BY <1>1, <1>7, MemFields
<1>9. events \in SUBSET MemEventRow
  BY <1>1, <1>5, <1>6, MemFields
<1>10. mem' \in MemMaps
  BY <1>1, <1>8, <1>9, MemFields DEF MemMaps
<1>11. \A what : (\E g \in events : g.of = what) <=> (\E g \in mem.events : g.of = what)
  BY <1>5, <1>6
<1> QED BY <1>8, <1>10, <1>11
        DEF OnePiece, SeedsAreOld, AuditsTell, EventsTell, KeysTell, Written

-----------------------------------------------------------------------------
(* The steps of the store.                                                 *)

LEMMA MemInitHolds == MemInit => MemInv
<1> SUFFICES ASSUME MemInit PROVE MemInv
  OBVIOUS
<1>1. PICK version, owner :
         /\ version = [a \in MemAggregates |-> IF a \in MemSeeded THEN 1 ELSE 0]
         /\ owner = [k \in MemKeys |->
                IF \E a \in MemSeeded : k \in MemKeyOf(a)
                THEN CHOOSE a \in MemSeeded : k \in MemKeyOf(a) ELSE MemNoOwner]
  OBVIOUS
<1>2. mem = [version |-> version, owner |-> owner, audits |-> <<>>, events |-> {}]
  BY <1>1 DEF MemInit
<1>3. version \in [MemAggregates -> Nat]
  BY <1>1
<1>4. \A k \in MemKeys :
        /\ (\E a \in MemSeeded : k \in MemKeyOf(a)) => owner[k] \in MemSeeded /\ k \in MemKeyOf(owner[k])
        /\ ~(\E a \in MemSeeded : k \in MemKeyOf(a)) => owner[k] = MemNoOwner
  <2> TAKE k \in MemKeys
  <2>1. CASE \E a \in MemSeeded : k \in MemKeyOf(a)
    BY <1>1, <2>1
  <2>2. CASE ~(\E a \in MemSeeded : k \in MemKeyOf(a))
    BY <1>1, <2>2
  <2> QED BY <2>1, <2>2
<1>5. owner \in [MemKeys -> MemAggregates \union {MemNoOwner}]
  BY <1>1, <1>4, SeededAssumption
<1>6. <<>> \in Seq(MemMoment)
  OBVIOUS
<1>7. mem \in MemMaps
  BY <1>2, <1>3, <1>5, <1>6 DEF MemMaps
<1>8. \A a \in MemAggregates, v \in Nat : ~Written(mem, a, v)
  BY <1>1, <1>2 DEF Written, FirstTold
<1>9. AuditsTell(mem) /\ IsInjective(mem.audits) /\ EventsTell(mem)
  <2>1. DOMAIN <<>> = {}
    OBVIOUS
  <2>2. IsInjective(<<>>)
    BY <2>1 DEF IsInjective
  <2>3. mem.audits = <<>> /\ mem.events = {}
    BY <1>2
  <2>4. IsInjective(mem.audits)
    BY <2>2, <2>3
  <2>5. AuditsTell(mem)
    BY <1>8, <2>1, <2>3 DEF AuditsTell
  <2>6. EventsTell(mem)
    BY <1>8, <2>3 DEF EventsTell
  <2> QED BY <2>4, <2>5, <2>6
<1>10. SeedsAreOld(mem)
  BY <1>1, <1>2, SeededAssumption DEF SeedsAreOld
<1>11. KeysTell(mem)
  <2> SUFFICES ASSUME NEW a \in MemAggregates, NEW k \in MemKeys, k \in MemKeyOf(a)
               PROVE  version[a] > 0 <=> owner[k] = a
    BY <1>2 DEF KeysTell
  <2>1. version[a] > 0 <=> a \in MemSeeded
    BY <1>1
  <2>2. a \in MemSeeded => owner[k] = a
    BY <1>4, SeededAssumption
  <2>3. owner[k] = a => a \in MemSeeded
    BY <1>4, SeededAssumption
  <2> QED BY <2>1, <2>2, <2>3
<1>12. caller \in [MemCallers -> MemCallerState]
  BY DEF MemInit, MemCallerState
<1> QED BY <1>7, <1>9, <1>10, <1>11, <1>12 DEF MemInv, OnePiece

(* A caller goes on; the store in use stays.                               *)
LEMMA CallerGoesOn ==
    ASSUME MemInv, mem' = mem, NEW c \in MemCallers, NEW next \in MemCallerState,
           caller' = [caller EXCEPT ![c] = next]
    PROVE  MemInv'
BY DEF MemInv

LEMMA ScopedCopies ==
    ASSUME MemInv, NEW c \in MemCallers, Is(c, "scoped")
    PROVE  /\ caller[c] = [at |-> "scoped", lock |-> caller[c].lock, copy |-> caller[c].copy]
           /\ caller[c].lock \in LockKeys \union {NoMemLock}
           /\ OnePiece(caller[c].copy)
<1>1. caller[c] \in MemCallerState /\ caller[c].at = "scoped" /\ MemRest.at = "rest"
  BY DEF MemInv, Is, MemRest
<1>2. caller[c] \in [at : {"scoped"}, lock : LockKeys \union {NoMemLock},
                     copy : {m \in MemMaps : OnePiece(m)}]
  <2> HIDE DEF MemRest
  <2> QED BY <1>1 DEF MemCallerState
<1> QED BY <1>2

LEMMA CallerStep ==
    ASSUME MemInv, NEW c \in MemCallers,
           \/ PlainCommit(c) \/ Transact(c) \/ TransactExclusively(c) \/ GetLock(c)
           \/ BeginTransaction(c) \/ ScopedCommit(c) \/ EndMemTransaction(c) \/ FailTransaction(c)
    PROVE  MemInv'
<1>1. CASE PlainCommit(c)
  BY <1>1, CommittedIsOnePiece DEF PlainCommit, MemInv
<1>2. CASE Transact(c)
  <2>1. [at |-> "queued", lock |-> NoMemLock] \in MemCallerState
    BY DEF MemCallerState
  <2> QED BY <1>2, <2>1, CallerGoesOn DEF Transact
<1>3. CASE TransactExclusively(c)
  <2>1. PICK k \in LockKeys : caller' = [caller EXCEPT ![c] = [at |-> "locking", lock |-> k]]
    BY <1>3 DEF TransactExclusively
  <2>2. [at |-> "locking", lock |-> k] \in MemCallerState
    BY DEF MemCallerState
  <2> QED BY <1>3, <2>1, <2>2, CallerGoesOn DEF TransactExclusively
<1>4. CASE GetLock(c)
  <2>1. caller[c] \in MemCallerState /\ caller[c].at = "locking" /\ MemRest.at = "rest"
    BY <1>4 DEF MemInv, GetLock, Is, MemRest
  <2>2. caller[c] \in [at : {"queued", "locking"}, lock : LockKeys \union {NoMemLock}]
    <3> HIDE DEF MemRest
    <3> QED BY <2>1 DEF MemCallerState
  <2>3. PICK next : next = [caller[c] EXCEPT !.at = "queued"]
    OBVIOUS
  <2>4. next = [at |-> "queued", lock |-> caller[c].lock]
    BY <2>2, <2>3
  <2>5. next \in MemCallerState
    BY <2>2, <2>4 DEF MemCallerState
  <2>6. caller' = [caller EXCEPT ![c] = next]
    BY <1>4, <2>3 DEF GetLock
  <2> QED BY <1>4, <2>5, <2>6, CallerGoesOn DEF GetLock
<1>5. CASE BeginTransaction(c)
  <2>1. caller[c] \in MemCallerState /\ caller[c].at = "queued" /\ MemRest.at = "rest"
    BY <1>5 DEF MemInv, BeginTransaction, Is, MemRest
  <2>2. caller[c].lock \in LockKeys \union {NoMemLock}
    <3> HIDE DEF MemRest
    <3> QED BY <2>1 DEF MemCallerState
  <2>3. PICK next : next = [at |-> "scoped", lock |-> caller[c].lock, copy |-> mem]
    OBVIOUS
  <2>4. next \in MemCallerState
    BY <2>2, <2>3 DEF MemCallerState, MemInv, OnePiece
  <2>5. caller' = [caller EXCEPT ![c] = next]
    BY <1>5, <2>3 DEF BeginTransaction
  <2> QED BY <1>5, <2>4, <2>5, CallerGoesOn DEF BeginTransaction
<1>6. CASE ScopedCommit(c)
  <2>1. PICK changes \in MemRequests :
           caller' = [caller EXCEPT ![c].copy = CommitAll(caller[c].copy, changes)]
    BY <1>6 DEF ScopedCommit
  <2>2. PICK copy : copy = CommitAll(caller[c].copy, changes)
    OBVIOUS
  <2>3. OnePiece(copy)
    BY <1>6, <2>2, CommittedIsOnePiece, ScopedCopies DEF ScopedCommit
  <2>4. PICK next : next = [caller[c] EXCEPT !.copy = copy]
    OBVIOUS
  <2>5. next = [at |-> "scoped", lock |-> caller[c].lock, copy |-> copy]
    <3>1. PICK lock, old : caller[c] = [at |-> "scoped", lock |-> lock, copy |-> old]
      BY <1>6, ScopedCopies DEF ScopedCommit
    <3>2. [caller[c] EXCEPT !.copy = copy] = [at |-> "scoped", lock |-> lock, copy |-> copy]
      BY <3>1
    <3>3. caller[c].lock = lock
      BY <3>1
    <3> QED BY <2>4, <3>2, <3>3
  <2>6. next \in MemCallerState
    BY <1>6, <2>3, <2>5, ScopedCopies DEF ScopedCommit, MemCallerState, OnePiece
  <2>7. caller' = [caller EXCEPT ![c] = next]
    BY <2>1, <2>2, <2>4
  <2> QED BY <1>6, <2>6, <2>7, CallerGoesOn DEF ScopedCommit
<1>7. CASE EndMemTransaction(c) \/ FailTransaction(c)
  <2>1. OnePiece(mem')
    BY <1>7, ScopedCopies DEF EndMemTransaction, FailTransaction, PutBack, MemInv
  <2>2. caller' = [caller EXCEPT ![c] = MemRest]
    BY <1>7 DEF EndMemTransaction, FailTransaction, Leave
  <2> QED BY <2>1, <2>2 DEF MemInv, MemCallerState
<1> QED BY <1>1, <1>2, <1>3, <1>4, <1>5, <1>6, <1>7

LEMMA MemStep == MemInv /\ [MemNext]_memVars => MemInv'
<1> SUFFICES ASSUME MemInv, [MemNext]_memVars PROVE MemInv'
  OBVIOUS
<1>1. ASSUME NEW c \in MemCallers,
             \/ PlainCommit(c) \/ Transact(c) \/ TransactExclusively(c) \/ GetLock(c)
             \/ BeginTransaction(c) \/ ScopedCommit(c) \/ EndMemTransaction(c) \/ FailTransaction(c)
      PROVE  MemInv'
  BY <1>1, CallerStep
<1>2. CASE ClaimEvent
  BY <1>2, EventIsOnePiece DEF ClaimEvent, MemInv
<1>3. CASE CompleteEvent
  BY <1>3, EventIsOnePiece DEF CompleteEvent, MemInv
<1>4. CASE RequeueEvent
  BY <1>4, EventIsOnePiece DEF RequeueEvent, MemInv
<1>5. CASE UNCHANGED memVars
  BY <1>5 DEF memVars, MemInv
<1> QED BY <1>1, <1>2, <1>3, <1>4, <1>5 DEF MemNext

(* Records, keys, audit entries and events tell the same story, in the     *)
(* store and in every copy of it.                                          *)
THEOREM OneStory == MemSpec => []StoreIsOfOnePiece
<1>1. ASSUME NEW m, OnePiece(m)
      PROVE  \A w : w \in UNION {{<<a, v>> : v \in FirstTold(a) .. m.version[a]} : a \in MemAggregates}
                      <=> \E a \in MemAggregates, v \in Nat : w = <<a, v>> /\ Written(m, a, v)
  <2>1. m.version \in [MemAggregates -> Nat]
    BY <1>1, MemFields DEF OnePiece
  <2>2. \A a \in MemAggregates : \A v : v \in FirstTold(a) .. m.version[a]
                                          <=> v \in Nat /\ Written(m, a, v)
    BY <2>1 DEF FirstTold, Written
  <2> QED BY <2>2
<1>2. MemInv => StoreIsOfOnePiece
  <2> SUFFICES ASSUME MemInv PROVE StoreIsOfOnePiece
    OBVIOUS
  <2> DEFINE Changes == UNION {{<<a, v>> : v \in FirstTold(a) .. mem.version[a]} : a \in MemAggregates}
  <2>1. OnePiece(mem)
    BY DEF MemInv
  <2>2. \A w : w \in Changes <=> \E a \in MemAggregates, v \in Nat : w = <<a, v>> /\ Written(mem, a, v)
    BY <1>1, <2>1
  <2>3. /\ \A i \in DOMAIN mem.audits : mem.audits[i] \in MemMoment
        /\ \A e \in mem.events : e.of \in MemMoment
    BY <2>1, MemFields DEF OnePiece, MemEventRow
  <2> HIDE DEF Changes
  <2>4. {mem.audits[i] : i \in DOMAIN mem.audits} = Changes
    <3>1. ASSUME NEW i \in DOMAIN mem.audits PROVE mem.audits[i] \in Changes
      <4>1. PICK a \in MemAggregates, v \in Nat : mem.audits[i] = <<a, v>>
        BY <2>3 DEF MemMoment
      <4> QED BY <2>1, <2>2, <4>1 DEF OnePiece, AuditsTell
    <3>2. ASSUME NEW w \in Changes PROVE \E i \in DOMAIN mem.audits : w = mem.audits[i]
      BY <2>1, <2>2 DEF OnePiece, AuditsTell
    <3> QED BY <3>1, <3>2
  <2>5. {e.of : e \in mem.events} = Changes
    <3>1. ASSUME NEW e \in mem.events PROVE e.of \in Changes
      <4>1. PICK a \in MemAggregates, v \in Nat : e.of = <<a, v>>
        BY <2>3 DEF MemMoment
      <4> QED BY <2>1, <2>2, <4>1 DEF OnePiece, EventsTell
    <3>2. ASSUME NEW w \in Changes PROVE \E e \in mem.events : w = e.of
      BY <2>1, <2>2 DEF OnePiece, EventsTell
    <3> QED BY <3>1, <3>2
  <2> QED BY <2>1, <2>4, <2>5 DEF Changes, StoreIsOfOnePiece, OnePiece, KeysTell, FirstTold
<1> QED BY MemInitHolds, MemStep, <1>2, PTL DEF MemSpec

-----------------------------------------------------------------------------
(***************************************************************************)
(* SchemaMigrations: the schema is what its ledger says.                   *)
(*                                                                         *)
(* What a deployment read of the ledger is still there when it commits,    *)
(* because it holds the advisory lock, alone, from before the read to the  *)
(* commit.                                                                 *)
(***************************************************************************)

Locked(d) == deploy[d].at \in {"locked", "applying"}

(* Only the deployments past the lock hold it, and never two of them.      *)
OneHolds ==
    /\ \A d \in Deployments : Locked(d) => d \in migrationLock
    /\ \A d, e \in migrationLock : d = e

(* What is being applied goes on from the ledger as it is.                 *)
Continues(d) ==
    /\ deploy[d].known = Applied
    /\ deploy[d].ran \subseteq DOMAIN deploy[d].release \ Applied
    /\ LedgerMatches(deploy[d].release)

AllContinue == \A d \in Deployments : deploy[d].at = "applying" => Continues(d)

SomeReady == Applied # {} => \E r \in ReleaseFiles : LedgerReady(r)

NothingRanYet == \A d \in Deployments : deploy[d].at \in {"begun", "locked"} => deploy[d].ran = {}

RunOnce == \A v \in FileVersions : executed[v] = IF v \in Applied THEN 1 ELSE 0

(* The inductive invariant.                                                *)
MigrationInv ==
    MigrationTypeOK /\ OneHolds /\ NothingRanYet /\ AllContinue /\ SomeReady /\ RunOnce

-----------------------------------------------------------------------------
(* A release names the versions and contents there are.                    *)
LEMMA ReleaseTypes ==
    ASSUME NEW r \in ReleaseFiles, NEW v \in DOMAIN r
    PROVE  v \in FileVersions /\ r[v] \in FileContents
BY DEF FileVersions, FileContents

(* No version has been applied at the start.                               *)
LEMMA MigrationInitHolds == MigrationInit => MigrationInv
<1> SUFFICES ASSUME MigrationInit PROVE MigrationInv
    OBVIOUS
<1>1. Applied = {}
    BY DEF MigrationInit, Applied
<1>2. MigrationTypeOK
    BY <1>1 DEF MigrationInit, MigrationTypeOK, NotDeploying
<1>3. OneHolds /\ NothingRanYet /\ AllContinue
    BY DEF MigrationInit, OneHolds, Locked, NothingRanYet, AllContinue, NotDeploying
<1>4. SomeReady /\ RunOnce
    BY <1>1 DEF MigrationInit, SomeReady, RunOnce
<1> QED
    BY <1>2, <1>3, <1>4 DEF MigrationInv

(* A deployment that moves on beside the ledger, and has the lock when it   *)
(* is past it.                                                              *)
LEMMA StepBesideLedger ==
    ASSUME MigrationInv, NEW d \in Deployments, NEW s,
           s = NotDeploying \/ s \in [at : {"begun", "locked", "applying"},
             release : ReleaseFiles, known : SUBSET FileVersions, ran : SUBSET FileVersions],
           deploy' = [deploy EXCEPT ![d] = s],
           UNCHANGED <<schemaLedger, executed>>,
           \/ migrationLock' = migrationLock
           \/ migrationLock' = migrationLock \ {d} /\ s.at = "idle"
           \/ migrationLock = {} /\ migrationLock' = {d},
           s.at \in {"locked", "applying"} => d \in migrationLock',
           s.at \in {"begun", "locked"} => s.ran = {},
           s.at = "applying" => Continues(d)'
    PROVE  MigrationInv'
<1>1. Applied' = Applied
    BY DEF Applied
<1>2. MigrationTypeOK'
    <2>1. /\ Applied' \subseteq FileVersions
          /\ \A v \in Applied' : schemaLedger'[v] \in FileContents
          /\ executed' \in [FileVersions -> Nat]
        BY <1>1 DEF MigrationInv, MigrationTypeOK
    <2>2. migrationLock' \subseteq Deployments
        BY DEF MigrationInv, MigrationTypeOK
    <2> QED
        BY <2>1, <2>2 DEF MigrationInv, MigrationTypeOK
<1>3. OneHolds'
    <2>1. ASSUME NEW e \in Deployments, Locked(e)' PROVE e \in migrationLock'
        BY <2>1 DEF MigrationInv, MigrationTypeOK, OneHolds, Locked
    <2>2. \A e, f \in migrationLock' : e = f
        BY DEF MigrationInv, OneHolds
    <2> QED
        BY <2>1, <2>2 DEF OneHolds
<1>4. AllContinue'
    <2>1. deploy'[d] = s
        BY DEF MigrationInv, MigrationTypeOK
    <2>2. ASSUME NEW e \in Deployments, deploy'[e].at = "applying", e # d
          PROVE  Continues(e)'
        BY <1>1, <2>2 DEF MigrationInv, MigrationTypeOK, AllContinue, Continues, LedgerMatches
    <2>3. ASSUME NEW e \in Deployments, deploy'[e].at = "applying"
          PROVE  Continues(e)'
        <3>1. CASE e = d
            <4>1. s.at = "applying"
                BY <2>1, <2>3, <3>1
            <4> QED
                BY <4>1, <3>1
        <3> QED
            BY <2>2, <2>3, <3>1
    <2> QED
        BY <2>3 DEF AllContinue
<1>5. SomeReady' /\ RunOnce'
    BY <1>1 DEF MigrationInv, SomeReady, LedgerReady, RunOnce
<1>6. NothingRanYet'
    BY DEF MigrationInv, MigrationTypeOK, NothingRanYet
<1> QED
    BY <1>2, <1>3, <1>4, <1>5, <1>6 DEF MigrationInv

LEMMA DeployType ==
    ASSUME MigrationInv, NEW d \in Deployments, deploy[d].at # "idle"
    PROVE  /\ deploy[d] \in [at : {"begun", "locked", "applying"},
                 release : ReleaseFiles, known : SUBSET FileVersions, ran : SUBSET FileVersions]
           /\ deploy[d] # NotDeploying
BY DEF MigrationInv, MigrationTypeOK, NotDeploying

LEMMA MigrationRollbackKeeps ==
    ASSUME MigrationInv, NEW d \in Deployments, RolledBack(d)
    PROVE  MigrationInv'
BY StepBesideLedger DEF RolledBack, NotDeploying

(* The commit: the ledger becomes the release that was deployed.           *)
LEMMA MigrationCommitKeeps ==
    ASSUME MigrationInv, NEW d \in Deployments, CommitMigrations(d)
    PROVE  MigrationInv'
<1> DEFINE r == deploy[d].release
           ran == deploy[d].ran
<1>1. /\ deploy[d].at = "applying" /\ Continues(d) /\ r \in ReleaseFiles
      /\ ran \subseteq FileVersions
    BY DeployType DEF CommitMigrations, MigrationInv, AllContinue
<1>2. ran \cap Applied = {} /\ DOMAIN r = Applied \union ran
    BY <1>1 DEF CommitMigrations, Remaining, Continues, LedgerMatches
<1>3. /\ schemaLedger' = [v \in Applied \union ran |->
                            IF v \in Applied THEN schemaLedger[v] ELSE r[v]]
      /\ executed' = [v \in FileVersions |-> executed[v] + IF v \in ran THEN 1 ELSE 0]
      /\ deploy' = [deploy EXCEPT ![d] = NotDeploying]
      /\ migrationLock' = migrationLock \ {d}
    BY <1>2 DEF CommitMigrations
<1>4. Applied' = DOMAIN r
    BY <1>2, <1>3 DEF Applied
<1>5. \A v \in Applied' : schemaLedger'[v] = r[v]
    BY <1>1, <1>2, <1>3, <1>4 DEF Continues, LedgerMatches
<1>6. SomeReady'
    BY <1>1, <1>4, <1>5 DEF SomeReady, LedgerReady
<1>7. RunOnce'
    <2> SUFFICES ASSUME NEW v \in FileVersions
                 PROVE  executed'[v] = IF v \in Applied' THEN 1 ELSE 0
        BY DEF RunOnce
    <2>1. executed[v] = IF v \in Applied THEN 1 ELSE 0
        BY DEF MigrationInv, RunOnce
    <2>2. executed'[v] = executed[v] + IF v \in ran THEN 1 ELSE 0
        BY <1>3
    <2> QED
        BY <2>1, <2>2, <1>2, <1>4
<1>8. MigrationTypeOK'
    <2>1. Applied' \subseteq FileVersions /\ \A v \in Applied' : schemaLedger'[v] \in FileContents
        BY <1>1, <1>4, <1>5, ReleaseTypes
    <2>2. executed' \in [FileVersions -> Nat]
        BY <1>3 DEF MigrationInv, MigrationTypeOK
    <2>3. migrationLock' \subseteq Deployments
        BY <1>3 DEF MigrationInv, MigrationTypeOK
    <2> QED
        BY <2>1, <2>2, <2>3, <1>3 DEF MigrationInv, MigrationTypeOK
<1>9. \A e \in Deployments : ~Locked(e)' /\ migrationLock' = {}
    <2>1. d \in migrationLock
        BY <1>1 DEF MigrationInv, OneHolds, Locked
    <2>2. migrationLock' = {}
        BY <2>1, <1>3 DEF MigrationInv, OneHolds
    <2>3. ASSUME NEW e \in Deployments PROVE ~Locked(e)'
        BY <2>1, <1>3 DEF MigrationInv, MigrationTypeOK, OneHolds, Locked, NotDeploying
    <2> QED
        BY <2>2, <2>3
<1>10. NothingRanYet'
    BY <1>3 DEF MigrationInv, MigrationTypeOK, NothingRanYet, NotDeploying
<1> QED
    BY <1>6, <1>7, <1>8, <1>9, <1>10 DEF MigrationInv, OneHolds, AllContinue, Locked

LEMMA InvStep == MigrationInv /\ [MigrationNext]_migrationVars => MigrationInv'
<1> SUFFICES ASSUME MigrationInv, [MigrationNext]_migrationVars PROVE MigrationInv'
    OBVIOUS
<1>1. CASE UNCHANGED migrationVars
    BY <1>1 DEF migrationVars, MigrationInv, MigrationTypeOK, OneHolds, Locked, AllContinue,
                Continues, LedgerMatches, SomeReady, LedgerReady, RunOnce, Applied, NothingRanYet
<1>2. ASSUME NEW d \in Deployments, BeginMigration(d) PROVE MigrationInv'
    <2>1. PICK r \in ReleaseFiles :
              deploy' = [deploy EXCEPT ![d] = [at |-> "begun", release |-> r, known |-> {}, ran |-> {}]]
        BY <1>2 DEF BeginMigration
    <2> QED
        BY <1>2, <2>1, StepBesideLedger DEF BeginMigration
<1>3. ASSUME NEW d \in Deployments, LockMigrations(d) PROVE MigrationInv'
    <2> DEFINE s == [deploy[d] EXCEPT !.at = "locked"]
    <2>1. s \in [at : {"begun", "locked", "applying"}, release : ReleaseFiles,
                 known : SUBSET FileVersions, ran : SUBSET FileVersions] /\ s.at = "locked"
        BY <1>3, DeployType DEF LockMigrations
    <2>2. deploy' = [deploy EXCEPT ![d] = s]
        BY <1>3 DEF LockMigrations
    <2>3. migrationLock = {} /\ migrationLock' = {d} /\ UNCHANGED <<schemaLedger, executed>>
        BY <1>3 DEF LockMigrations, TakeMigrationLock
    <2>4. s.ran = {}
        BY <1>3, <2>1 DEF LockMigrations, MigrationInv, NothingRanYet
    <2> HIDE DEF s
    <2> QED
        BY <2>1, <2>2, <2>3, <2>4, StepBesideLedger
<1>4. ASSUME NEW d \in Deployments, ReadLedger(d) PROVE MigrationInv'
    <2>1. CASE ~LedgerMatches(deploy[d].release)
        BY <1>4, <2>1, MigrationRollbackKeeps DEF ReadLedger
    <2>2. CASE LedgerMatches(deploy[d].release)
        <3> DEFINE s == [deploy[d] EXCEPT !.at = "applying", !.known = Applied]
        <3>1. /\ s \in [at : {"begun", "locked", "applying"}, release : ReleaseFiles,
                        known : SUBSET FileVersions, ran : SUBSET FileVersions]
              /\ s.at = "applying" /\ s.known = Applied /\ s.ran = {}
              /\ s.release = deploy[d].release
            BY <1>4, DeployType DEF ReadLedger, MigrationInv, MigrationTypeOK, NothingRanYet
        <3>2. /\ deploy' = [deploy EXCEPT ![d] = s]
              /\ UNCHANGED <<schemaLedger, executed, migrationLock>>
            BY <1>4, <2>2 DEF ReadLedger
        <3>3. d \in migrationLock
            BY <1>4 DEF ReadLedger, MigrationInv, OneHolds, Locked
        <3> HIDE DEF s
        <3>4. deploy'[d] = s /\ Applied' = Applied
            BY <3>2 DEF MigrationInv, MigrationTypeOK, Applied
        <3>5. Continues(d)'
            BY <2>2, <3>1, <3>2, <3>4 DEF Continues, LedgerMatches
        <3> QED
            BY <3>1, <3>2, <3>3, <3>5, StepBesideLedger
    <2> QED
        BY <2>1, <2>2
<1>5. ASSUME NEW d \in Deployments, ApplyMigration(d) PROVE MigrationInv'
    <2>1. PICK v \in Remaining(d) : deploy' = [deploy EXCEPT ![d].ran = @ \union {v}]
        BY <1>5 DEF ApplyMigration
    <2> DEFINE s == [deploy[d] EXCEPT !.ran = @ \union {v}]
    <2>2. /\ deploy[d].at = "applying" /\ Continues(d) /\ d \in migrationLock
          /\ UNCHANGED <<schemaLedger, executed, migrationLock>>
        BY <1>5 DEF ApplyMigration, MigrationInv, AllContinue, OneHolds, Locked
    <2>3. v \in DOMAIN deploy[d].release \ Applied /\ v \in FileVersions
        BY <2>2, DeployType, ReleaseTypes DEF Remaining, Continues
    <2>4. /\ s \in [at : {"begun", "locked", "applying"}, release : ReleaseFiles,
                    known : SUBSET FileVersions, ran : SUBSET FileVersions]
          /\ s.at = "applying" /\ s.known = deploy[d].known
          /\ s.ran = deploy[d].ran \union {v} /\ s.release = deploy[d].release
        BY <2>2, <2>3, DeployType
    <2>5. deploy' = [deploy EXCEPT ![d] = s]
        BY <2>1
    <2> HIDE DEF s
    <2>6. deploy'[d] = s /\ Applied' = Applied
        BY <2>2, <2>5 DEF MigrationInv, MigrationTypeOK, Applied
    <2>7. Continues(d)'
        BY <2>2, <2>3, <2>4, <2>6 DEF Continues, LedgerMatches
    <2> QED
        BY <2>2, <2>4, <2>5, <2>7, StepBesideLedger
<1>6. ASSUME NEW d \in Deployments, CommitMigrations(d) PROVE MigrationInv'
    BY <1>6, MigrationCommitKeeps
<1>7. ASSUME NEW d \in Deployments, MigrationFails(d) PROVE MigrationInv'
    BY <1>7, MigrationRollbackKeeps DEF MigrationFails
<1> QED
    BY <1>1, <1>2, <1>3, <1>4, <1>5, <1>6, <1>7 DEF MigrationNext, DeploymentStep

-----------------------------------------------------------------------------
(* The schema is what the ledger says, each version run once, whatever     *)
(* deployments run at once and fail (migration-runner.ts).                 *)
THEOREM SchemaIsLedger == MigrationSpec => []MigratedOnce
<1>1. MigrationInv => MigratedOnce
    BY DEF MigrationInv, AllContinue, Continues, SomeReady, RunOnce, MigratedOnce
<1> QED
    BY <1>1, MigrationInitHolds, InvStep, PTL DEF MigrationSpec

-----------------------------------------------------------------------------
(***************************************************************************)
(* Originals: documents and notifications.                                 *)
(*                                                                         *)
(* A key never gets a second object, so that what a handler found there or *)
(* put there is what its document row will name.  A notification is written*)
(* at the version its handler read; a row that says sent is a version that *)
(* no handler with another outcome has read.                               *)
(***************************************************************************)

Note == [status : {"absent", "pending", "sent", "failed"}, version : Nat]
Original == [edition : Nat, objectVersion : Nat]
Telling == [at : {"find", "put", "record", "tell", "create", "send", "mark", "fail"},
            event : Tellings, row : 1 .. MaxRowVersion, original : Original,
            channels : Seq(Channels), seen : Note]

OriginalsTyped ==
    /\ rowVersion \in [Tellings -> 1 .. MaxRowVersion]
    /\ objects \in [ObjectKeys -> Seq(Nat)]
    /\ onTheirWay \subseteq [key : ObjectKeys, edition : Nat]
    /\ originals \in [ObjectKeys -> Original]
    /\ notices \in [Tellings -> [Channels -> Note]]
    /\ teller \in [Tellers -> Telling \union {TellerIdle}]
    /\ toldEvents \subseteq Tellings

(* A document row names the only version of its object.                    *)
RowsNameObjects ==
    \A k \in ObjectKeys : originals[k] # NoOriginal =>
        objects[k] = <<originals[k].edition>> /\ originals[k].objectVersion = 1

(* Under every key there is one version of one object, or none yet.        *)
OneObject == \A k \in ObjectKeys : objects[k] = <<>> \/ \E first \in Nat : objects[k] = <<first>>
BucketHonest == OneObject /\ RowsNameObjects

SentWasReached ==
    \A e \in Tellings, c \in Channels : notices[e][c].status = "sent" => <<e, c>> \in reached

HasSent(e, c) == notices[e][c].status = "sent"
HasOriginal(e, v) == OriginalOf[e] # "none" => originals[<<e, v>>] # NoOriginal
ToldHonest(e) ==
    /\ \E v \in 1 .. rowVersion[e] : HasOriginal(e, v)
    /\ \A i \in 1 .. Len(ChannelsOf(e)) : HasSent(e, ChannelsOf(e)[i])

(* What a handler has done: the object behind the row it is about to       *)
(* record, the original, and each channel it has left behind.  The notice  *)
(* it works on is not sent unless another version of it is.                *)
LeftToTell(r, c) == \E j \in 1 .. Len(r.channels) : r.channels[j] = c
AtNotice(r) == r.at \in {"create", "send", "mark", "fail"}
NoticeHonest(r, c) ==
    /\ r.at = "create" => r.seen.version = 0
    /\ r.at # "create" =>
          /\ r.seen.version <= notices[r.event][c].version
          /\ r.seen.version = notices[r.event][c].version => ~HasSent(r.event, c)
    /\ r.at = "mark" => <<r.event, c>> \in reached
TellerHonest(r) == r.at # "idle" =>
    /\ r.row <= rowVersion[r.event]
    /\ r.at = "record" =>
          objects[<<r.event, r.row>>] = <<r.original.edition>> /\ r.original.objectVersion = 1
    /\ r.at = "tell" \/ AtNotice(r) => HasOriginal(r.event, r.row)
    /\ \A i \in 1 .. Len(ChannelsOf(r.event)) :
          HasSent(r.event, ChannelsOf(r.event)[i]) \/ LeftToTell(r, ChannelsOf(r.event)[i])
    /\ AtNotice(r) => r.channels # <<>> /\ NoticeHonest(r, Head(r.channels))

OriginalsInv ==
    /\ OriginalsTyped /\ BucketHonest /\ SentWasReached
    /\ \A e \in toldEvents : ToldHonest(e)
    /\ \A w \in Tellers : TellerHonest(teller[w])

-----------------------------------------------------------------------------
LEMMA ChannelsType ==
    /\ ChannelList \in Seq(Channels) /\ <<>> \in Seq(Channels)
    /\ \A e : ChannelsOf(e) \in Seq(Channels)
<1>1. PICK n \in Nat : n = Len(ChannelList) /\ ChannelList \in [1 .. n -> {"app", "email", "sms"}]
    BY TellingAssumption
<1>2. ChannelList \in [1 .. n -> Channels]
    BY <1>1 DEF Channels
<1>3. ChannelList \in Seq(Channels)
    BY <1>2
<1>4. <<>> \in Seq(Channels)
    OBVIOUS
<1> QED BY <1>3, <1>4 DEF ChannelsOf

LEMMA KeyIn ==
    ASSUME NEW e \in Tellings, NEW v \in 1 .. MaxRowVersion
    PROVE  <<e, v>> \in ObjectKeys
BY DEF ObjectKeys

LEMMA TellingType ==
    ASSUME OriginalsTyped, NEW w \in Tellers, teller[w].at # "idle"
    PROVE  teller[w] \in Telling
BY DEF OriginalsTyped, TellerIdle

LEMMA OriginalsInitHolds == OriginalsInit => OriginalsInv
<1> SUFFICES ASSUME OriginalsInit PROVE OriginalsInv
    OBVIOUS
<1>1. NoNotice \in Note /\ NoNotice.status # "sent" /\ NoOriginal \in Original
    BY DEF NoNotice, Note, NoOriginal, Original
<1>2. 1 \in 1 .. MaxRowVersion
    BY TellingAssumption
<1>3. <<>> \in Seq(Nat)
    OBVIOUS
<1>4. OriginalsTyped
    BY <1>1, <1>2, <1>3 DEF OriginalsInit, OriginalsTyped
<1>5. BucketHonest /\ SentWasReached
    BY <1>1 DEF OriginalsInit, BucketHonest, OneObject, RowsNameObjects, SentWasReached
<1>6. \A w \in Tellers : TellerHonest(teller[w])
    BY DEF OriginalsInit, TellerHonest, TellerIdle
<1> QED BY <1>4, <1>5, <1>6 DEF OriginalsInit, OriginalsInv

-----------------------------------------------------------------------------
(* Nothing that was there is taken back.                                   *)
Onward ==
    /\ \A e \in Tellings : rowVersion[e] \in Nat /\ rowVersion'[e] \in Nat /\ rowVersion[e] <= rowVersion'[e]
    /\ \A k \in ObjectKeys : objects[k] # <<>> => objects'[k] = objects[k]
    /\ \A k \in ObjectKeys : originals[k] # NoOriginal => originals'[k] = originals[k]
    /\ \A e \in Tellings, c \in Channels :
          /\ HasSent(e, c) => HasSent(e, c)'
          /\ notices'[e][c] = notices[e][c] \/ notices[e][c].version < notices'[e][c].version
          /\ notices[e][c].version \in Nat /\ notices'[e][c].version \in Nat
    /\ reached \subseteq reached'

LEMMA SameOnward ==
    ASSUME OriginalsTyped, UNCHANGED <<rowVersion, objects, originals, notices>>,
           reached \subseteq reached'
    PROVE  Onward
<1>1. \A e \in Tellings : rowVersion[e] \in Nat
    BY DEF OriginalsTyped
<1>2. \A e \in Tellings, c \in Channels : notices[e][c].version \in Nat
    BY DEF OriginalsTyped, Note
<1> QED BY <1>1, <1>2 DEF Onward, HasSent

LEMMA HonestStays ==
    ASSUME Onward, NEW r \in Telling, TellerHonest(r)
    PROVE  TellerHonest(r)'
<1>1. PICK e \in Tellings, v \in 1 .. MaxRowVersion : e = r.event /\ v = r.row
    BY DEF Telling
<1>2. PICK k \in ObjectKeys : k = <<e, v>>
    BY KeyIn
<1>3. r.at # "idle" /\ v \in Nat
    BY DEF Telling
<1>4. (r.row <= rowVersion[r.event])'
    BY <1>1, <1>3 DEF Onward, TellerHonest
<1>5. r.at = "record" => objects'[k] = <<r.original.edition>> /\ r.original.objectVersion = 1
  <2>1. <<r.original.edition>> # <<>>
      OBVIOUS
  <2> QED BY <1>1, <1>2, <1>3, <2>1 DEF Onward, TellerHonest
<1>6. HasOriginal(e, v) => HasOriginal(e, v)'
    BY <1>2 DEF Onward, HasOriginal
<1>7. ASSUME NEW i \in 1 .. Len(ChannelsOf(e))
      PROVE  HasSent(e, ChannelsOf(e)[i])' \/ LeftToTell(r, ChannelsOf(e)[i])
  <2>1. ChannelsOf(e)[i] \in Channels
      BY ChannelsType
  <2>2. HasSent(e, ChannelsOf(e)[i]) \/ LeftToTell(r, ChannelsOf(e)[i])
      BY <1>1, <1>3 DEF TellerHonest
  <2> QED BY <2>1, <2>2 DEF Onward
<1>8. ASSUME AtNotice(r) PROVE r.channels # <<>> /\ NoticeHonest(r, Head(r.channels))'
  <2>1. r.channels # <<>> /\ NoticeHonest(r, Head(r.channels))
      BY <1>3, <1>8 DEF TellerHonest
  <2>2. PICK c \in Channels : c = Head(r.channels)
    <3>1. r.channels \in Seq(Channels)
        BY DEF Telling
    <3> QED BY <2>1, <3>1, HeadTailProperties
  <2>3. r.seen.version \in Nat
      BY DEF Telling, Note
  <2>4. NoticeHonest(r, c)'
      BY <1>1, <2>1, <2>2, <2>3 DEF Onward, NoticeHonest, HasSent
  <2> QED BY <2>1, <2>2, <2>4
<1> QED BY <1>1, <1>2, <1>4, <1>5, <1>6, <1>7, <1>8, <1>3 DEF TellerHonest, LeftToTell, AtNotice

(* A step that takes nothing back keeps what the others have done.         *)
LEMMA OnwardStep ==
    ASSUME OriginalsInv, Onward, OriginalsTyped', BucketHonest', SentWasReached',
           \A e \in toldEvents' : e \in toldEvents \/ ToldHonest(e)',
           \A w \in Tellers : teller'[w] = teller[w] \/ TellerHonest(teller[w])'
    PROVE  OriginalsInv'
<1>1. ASSUME NEW e \in toldEvents PROVE ToldHonest(e)'
  <2>1. e \in Tellings /\ ToldHonest(e)
      BY DEF OriginalsInv, OriginalsTyped
  <2>2. PICK v \in 1 .. rowVersion[e] : HasOriginal(e, v)
      BY <2>1 DEF ToldHonest
  <2>3. v \in 1 .. rowVersion'[e] /\ v \in 1 .. MaxRowVersion
      BY <2>1, <2>2, TellingAssumption DEF Onward, OriginalsInv, OriginalsTyped
  <2>4. HasOriginal(e, v)'
      BY <2>1, <2>2, <2>3, KeyIn DEF Onward, HasOriginal
  <2>5. \A i \in 1 .. Len(ChannelsOf(e)) : HasSent(e, ChannelsOf(e)[i])'
      BY <2>1, ChannelsType DEF ToldHonest, Onward
  <2> QED BY <2>3, <2>4, <2>5 DEF ToldHonest
<1>2. ASSUME NEW w \in Tellers, teller'[w] = teller[w] PROVE TellerHonest(teller[w])'
  <2>1. PICK r : r = teller[w] /\ r \in Telling \union {TellerIdle} /\ TellerHonest(r)
      BY DEF OriginalsInv, OriginalsTyped
  <2>2. TellerHonest(r)'
    <3>1. CASE r = TellerIdle
      <4>1. r.at = "idle"
          BY <3>1 DEF TellerIdle
      <4> QED BY <4>1 DEF TellerHonest
    <3>2. CASE r \in Telling
      <4> QED BY <2>1, <3>2, HonestStays DEF TellerHonest
    <3> QED BY <2>1, <3>1, <3>2
  <2> QED BY <1>2, <2>1, <2>2
<1> QED BY <1>1, <1>2 DEF OriginalsInv

-----------------------------------------------------------------------------
(* A handler moves, and nothing of the rows and objects.                   *)
LEMMA TellerStep ==
    ASSUME OriginalsInv, NEW w \in Tellers, NEW r \in Telling \union {TellerIdle},
           teller' = [teller EXCEPT ![w] = r], TellerHonest(r)',
           reached \subseteq reached', onTheirWay' \subseteq [key : ObjectKeys, edition : Nat],
           UNCHANGED <<rowVersion, objects, originals, notices, toldEvents>>
    PROVE  OriginalsInv'
<1>1. Onward
    BY SameOnward DEF OriginalsInv
<1>2. OriginalsTyped' /\ BucketHonest' /\ SentWasReached'
    BY DEF OriginalsInv, OriginalsTyped, BucketHonest, OneObject, RowsNameObjects, SentWasReached
<1>3. \A v \in Tellers : teller'[v] = teller[v] \/ TellerHonest(teller[v])'
    BY DEF OriginalsInv, OriginalsTyped
<1> QED BY <1>1, <1>2, <1>3, OnwardStep

LEMMA IdleHonest == TellerIdle \in Telling \union {TellerIdle} /\ TellerHonest(TellerIdle)'
BY DEF TellerIdle, TellerHonest

LEMMA GivesUpStep ==
    ASSUME OriginalsInv, NEW w \in Tellers, GivesUp(w), reached \subseteq reached',
           onTheirWay' \subseteq [key : ObjectKeys, edition : Nat],
           UNCHANGED <<rowVersion, objects, originals, notices, toldEvents>>
    PROVE  OriginalsInv'
BY IdleHonest, TellerStep DEF GivesUp

LEMMA Moved ==
    ASSUME NEW r \in Telling,
           NEW at \in {"find", "put", "record", "tell", "create", "send", "mark", "fail"},
           NEW n, n = [r EXCEPT !.at = at]
    PROVE  /\ n \in Telling /\ n.at = at /\ n.event = r.event /\ n.row = r.row
           /\ n.original = r.original /\ n.channels = r.channels /\ n.seen = r.seen
<1>1. n = [at |-> at, event |-> r.event, row |-> r.row, original |-> r.original,
           channels |-> r.channels, seen |-> r.seen]
    BY DEF Telling
<1> QED BY <1>1 DEF Telling

LEMMA WorkingType ==
    ASSUME OriginalsInv, NEW w \in Tellers, teller[w].at # "idle"
    PROVE  \E r \in Telling : r = teller[w] /\ TellerHonest(r) /\ r.at = teller[w].at
BY TellingType DEF OriginalsInv

LEMMA HandleKeeps ==
    ASSUME OriginalsInv, NEW w \in Tellers, NEW e \in Tellings, Handle(w, e)
    PROVE  OriginalsInv'
<1>1. PICK at \in {"tell", "find"} : at = IF OriginalOf[e] = "none" THEN "tell" ELSE "find"
    OBVIOUS
<1>2. PICK row \in 1 .. MaxRowVersion : row = rowVersion[e]
    BY DEF OriginalsInv, OriginalsTyped
<1>3. PICK channels \in Seq(Channels) : channels = ChannelsOf(e)
    BY ChannelsType
<1>4. PICK original \in Original : original = NoOriginal
  <2>1. NoOriginal \in Original
      BY DEF NoOriginal, Original
  <2> QED BY <2>1
<1>5. PICK seen \in Note : seen = NoNotice
  <2>1. NoNotice \in Note
      BY DEF NoNotice, Note
  <2> QED BY <2>1
<1>6. PICK r \in Telling :
          /\ r = [at |-> at, event |-> e, row |-> row, original |-> original, channels |-> channels,
                  seen |-> seen]
          /\ r.at = at /\ r.event = e /\ r.row = row /\ r.channels = channels
  <2>1. [at |-> at, event |-> e, row |-> row, original |-> original, channels |-> channels,
         seen |-> seen] \in Telling
      BY DEF Telling
  <2> QED BY <2>1
<1>7. teller' = [teller EXCEPT ![w] = r] /\ UNCHANGED <<rowVersion, objects, originals, notices, toldEvents>>
      /\ UNCHANGED <<reached, onTheirWay>>
    BY <1>1, <1>2, <1>3, <1>4, <1>5, <1>6 DEF Handle
<1>8. TellerHonest(r)'
  <2>1. row <= rowVersion'[e]
      BY <1>2, <1>7 DEF OriginalsInv, OriginalsTyped
  <2>2. r.at = "tell" => HasOriginal(e, row)'
      BY <1>1, <1>6 DEF HasOriginal
  <2>3. \A i \in 1 .. Len(ChannelsOf(e)) : LeftToTell(r, ChannelsOf(e)[i])
      BY <1>3, <1>6 DEF LeftToTell
  <2> QED BY <1>1, <1>6, <2>1, <2>2, <2>3 DEF TellerHonest, AtNotice
<1>9. onTheirWay' \subseteq [key : ObjectKeys, edition : Nat]
    BY <1>7 DEF OriginalsInv, OriginalsTyped
<1> QED BY <1>7, <1>8, <1>9, TellerStep

(* A handler that only moves on, and whose new place asks for nothing new. *)
LEMMA MoveStep ==
    ASSUME OriginalsInv, NEW w \in Tellers, NEW r \in Telling, r = teller[w],
           NEW at \in {"find", "put", "record", "tell", "create", "send", "mark", "fail"},
           Step(w, at), at = "record" => r.at = "record",
           at = "tell" \/ at \in {"create", "send", "mark", "fail"} => HasOriginal(r.event, r.row),
           at \in {"create", "send", "mark", "fail"} =>
              /\ AtNotice(r) /\ r.at # "create" /\ at # "create"
              /\ at = "mark" => <<r.event, Head(r.channels)>> \in reached',
           reached \subseteq reached',
           UNCHANGED <<rowVersion, objects, originals, notices, toldEvents, onTheirWay>>
    PROVE  OriginalsInv'
<1>1. PICK n : n = [r EXCEPT !.at = at]
    OBVIOUS
<1>2. /\ n \in Telling /\ n.at = at /\ n.event = r.event /\ n.row = r.row
      /\ n.original = r.original /\ n.channels = r.channels /\ n.seen = r.seen
    BY <1>1, Moved
<1>3. teller' = [teller EXCEPT ![w] = n]
    BY <1>1 DEF Step, OriginalsInv, OriginalsTyped
<1>4. TellerHonest(r) /\ r.at # "idle"
    BY DEF OriginalsInv, Telling
<1>5. AtNotice(n) => n.channels # <<>> /\ NoticeHonest(n, Head(n.channels))'
    BY <1>2, <1>4 DEF TellerHonest, AtNotice, NoticeHonest, HasSent
<1>6. \A i \in 1 .. Len(ChannelsOf(n.event)) :
          HasSent(n.event, ChannelsOf(n.event)[i])' \/ LeftToTell(n, ChannelsOf(n.event)[i])
    BY <1>2, <1>4 DEF TellerHonest, HasSent, LeftToTell
<1>7. TellerHonest(n)'
    BY <1>2, <1>4, <1>5, <1>6 DEF TellerHonest, AtNotice, HasOriginal, LeftToTell
<1>8. onTheirWay' \subseteq [key : ObjectKeys, edition : Nat]
    BY DEF OriginalsInv, OriginalsTyped
<1> QED BY <1>2, <1>3, <1>7, <1>8, TellerStep

LEMMA FindOriginalKeeps ==
    ASSUME OriginalsInv, NEW w \in Tellers, FindOriginal(w)
    PROVE  OriginalsInv'
<1>1. PICK r \in Telling : r = teller[w] /\ TellerHonest(r) /\ r.at = "find"
    BY WorkingType DEF FindOriginal, TellerAt
<1>2. UNCHANGED <<rowVersion, objects, originals, notices, toldEvents, onTheirWay, reached>>
    BY DEF FindOriginal
<1>3. CASE originals[<<r.event, r.row>>] # NoOriginal
  <2>1. Step(w, "tell") /\ HasOriginal(r.event, r.row)
      BY <1>1, <1>3 DEF FindOriginal, KeyOfTeller, HasOriginal
  <2> QED BY <1>1, <1>2, <2>1, MoveStep
<1>4. CASE originals[<<r.event, r.row>>] = NoOriginal
  <2>1. PICK edition \in Nat :
            teller' = [teller EXCEPT ![w].at = "put", ![w].original.edition = edition]
      BY <1>1, <1>4 DEF FindOriginal, KeyOfTeller, Editions, FetchedEditions, RenderedEditions
  <2>2. PICK prior \in Original : prior = r.original
      BY DEF Telling
  <2>3. PICK original \in Original : original = [prior EXCEPT !.edition = edition]
    <3>1. [prior EXCEPT !.edition = edition] = [edition |-> edition, objectVersion |-> prior.objectVersion]
        BY DEF Original
    <3>2. [edition |-> edition, objectVersion |-> prior.objectVersion] \in Original
        BY DEF Original
    <3> QED BY <3>1, <3>2
  <2>4. PICK n : n = [r EXCEPT !.at = "put", !.original = original]
      OBVIOUS
  <2>5. n = [at |-> "put", event |-> r.event, row |-> r.row, original |-> original,
             channels |-> r.channels, seen |-> r.seen]
      BY <2>4 DEF Telling
  <2>6. /\ n \in Telling /\ n.at = "put" /\ n.event = r.event /\ n.row = r.row
        /\ n.channels = r.channels
      BY <2>5 DEF Telling
  <2>7. teller' = [teller EXCEPT ![w] = n]
      BY <1>1, <2>1, <2>2, <2>3, <2>4 DEF OriginalsInv, OriginalsTyped
  <2>8. TellerHonest(n)'
      BY <1>1, <1>2, <2>6 DEF TellerHonest, HasSent, LeftToTell, AtNotice
  <2>9. onTheirWay' \subseteq [key : ObjectKeys, edition : Nat]
      BY <1>2 DEF OriginalsInv, OriginalsTyped
  <2> QED BY <1>2, <2>6, <2>7, <2>8, <2>9, TellerStep
<1> QED BY <1>3, <1>4

-----------------------------------------------------------------------------
(* The bucket keeps the first object of a key.                             *)
LEMMA PutKeepsFirst ==
    ASSUME OriginalsInv, NEW k \in ObjectKeys, NEW edition \in Nat,
           objects' = PutIfNoneMatch(k, edition),
           UNCHANGED <<rowVersion, originals, notices, reached>>
    PROVE  Onward /\ BucketHonest' /\ SentWasReached' /\ objects' \in [ObjectKeys -> Seq(Nat)]
<1>1. PICK held \in Seq(Nat) : held = <<edition>>
  <2>1. <<edition>> \in Seq(Nat)
      OBVIOUS
  <2> QED BY <2>1
<1>2. objects \in [ObjectKeys -> Seq(Nat)]
      /\ objects' = IF objects[k] = <<>> THEN [objects EXCEPT ![k] = held] ELSE objects
    BY <1>1 DEF PutIfNoneMatch, OriginalsInv, OriginalsTyped
<1>3. /\ objects' \in [ObjectKeys -> Seq(Nat)]
      /\ \A j \in ObjectKeys : objects[j] # <<>> => objects'[j] = objects[j]
    BY <1>2
<1>4. \A e \in Tellings : rowVersion[e] \in Nat
    BY DEF OriginalsInv, OriginalsTyped
<1>5. \A e \in Tellings, c \in Channels : notices[e][c].version \in Nat
    BY DEF OriginalsInv, OriginalsTyped, Note
<1>6. Onward
    BY <1>3, <1>4, <1>5 DEF Onward, HasSent
<1>7. OneObject'
    BY <1>1, <1>2 DEF OneObject, OriginalsInv, BucketHonest
<1>8. RowsNameObjects'
  <2> SUFFICES ASSUME NEW j \in ObjectKeys, originals[j] # NoOriginal
               PROVE  objects'[j] = <<originals[j].edition>> /\ originals[j].objectVersion = 1
      BY DEF RowsNameObjects
  <2>1. objects[j] = <<originals[j].edition>> /\ originals[j].objectVersion = 1
      BY DEF OriginalsInv, BucketHonest, RowsNameObjects
  <2>2. objects[j] # <<>>
      BY <2>1
  <2> QED BY <1>3, <2>1, <2>2
<1> QED BY <1>3, <1>6, <1>7, <1>8 DEF BucketHonest, OriginalsInv, SentWasReached

LEMMA PutArrivesKeeps ==
    ASSUME OriginalsInv, PutArrives
    PROVE  OriginalsInv'
<1>1. PICK put \in onTheirWay : objects' = PutIfNoneMatch(put.key, put.edition)
                                /\ onTheirWay' = onTheirWay \ {put}
    BY DEF PutArrives
<1>2. put.key \in ObjectKeys /\ put.edition \in Nat
    BY DEF OriginalsInv, OriginalsTyped
<1>3. Onward /\ BucketHonest' /\ SentWasReached' /\ objects' \in [ObjectKeys -> Seq(Nat)]
    BY <1>1, <1>2, PutKeepsFirst DEF PutArrives
<1>4. OriginalsTyped'
    BY <1>1, <1>3 DEF PutArrives, OriginalsInv, OriginalsTyped
<1>5. UNCHANGED <<toldEvents, teller>>
    BY DEF PutArrives
<1> QED BY <1>3, <1>4, <1>5, OnwardStep

LEMMA PutOriginalKeeps ==
    ASSUME OriginalsInv, NEW w \in Tellers, PutOriginal(w)
    PROVE  OriginalsInv'
<1>1. PICK r \in Telling : r = teller[w] /\ TellerHonest(r) /\ r.at = "put"
    BY WorkingType DEF PutOriginal, TellerAt
<1>2. PICK prior \in Original : prior = r.original
    BY DEF Telling
<1>3. PICK edition \in Nat : edition = prior.edition
    BY DEF Original
<1>4. PICK k \in ObjectKeys : k = <<r.event, r.row>>
    BY KeyIn DEF Telling
<1>5. objects' = PutIfNoneMatch(k, edition)
      /\ UNCHANGED <<rowVersion, originals, notices, reached, toldEvents, onTheirWay>>
    BY <1>1, <1>2, <1>3, <1>4 DEF PutOriginal, KeyOfTeller
<1>6. Onward /\ BucketHonest' /\ SentWasReached' /\ objects' \in [ObjectKeys -> Seq(Nat)]
    BY <1>5, PutKeepsFirst
<1>7. PICK latest \in Nat : latest = Len(objects'[k])
    BY <1>6
<1>8. CASE objects'[k][latest] = edition
  <2>1. teller' = [teller EXCEPT ![w].at = "record", ![w].original.objectVersion = latest]
      BY <1>1, <1>2, <1>3, <1>4, <1>5, <1>7, <1>8 DEF PutOriginal, KeyOfTeller, HeadImmutable
  <2>2. PICK original \in Original : /\ original = [prior EXCEPT !.objectVersion = latest]
                                     /\ original.edition = edition /\ original.objectVersion = latest
    <3>1. [prior EXCEPT !.objectVersion = latest] = [edition |-> edition, objectVersion |-> latest]
        BY <1>3 DEF Original
    <3>2. [edition |-> edition, objectVersion |-> latest] \in Original
        BY DEF Original
    <3> QED BY <3>1, <3>2
  <2>3. PICK n : n = [r EXCEPT !.at = "record", !.original = original]
      OBVIOUS
  <2>4. n = [at |-> "record", event |-> r.event, row |-> r.row, original |-> original,
             channels |-> r.channels, seen |-> r.seen]
      BY <2>3 DEF Telling
  <2>5. /\ n \in Telling /\ n.at = "record" /\ n.event = r.event /\ n.row = r.row
        /\ n.channels = r.channels /\ n.original = original
      BY <2>4 DEF Telling
  <2>6. teller' = [teller EXCEPT ![w] = n]
      BY <1>1, <1>2, <2>1, <2>2, <2>3 DEF OriginalsInv, OriginalsTyped
  <2>7. objects'[k] = <<edition>> /\ latest = 1
    <3>1. objects[k] = <<>> \/ \E first \in Nat : objects[k] = <<first>>
        BY DEF OriginalsInv, BucketHonest, OneObject
    <3>2. CASE objects[k] = <<>>
        BY <1>5, <1>7, <3>2 DEF PutIfNoneMatch, OriginalsInv, OriginalsTyped
    <3>3. CASE objects[k] # <<>>
      <4>1. PICK first \in Nat : objects'[k] = <<first>>
          BY <1>5, <3>1, <3>3 DEF PutIfNoneMatch
      <4> QED BY <1>7, <1>8, <4>1
    <3> QED BY <3>2, <3>3
  <2>8. TellerHonest(n)'
      BY <1>1, <1>4, <1>5, <2>2, <2>5, <2>7 DEF TellerHonest, HasSent, LeftToTell, AtNotice
  <2>9. OriginalsTyped'
      BY <1>5, <1>6, <2>5, <2>6 DEF OriginalsInv, OriginalsTyped
  <2>10. \A v \in Tellers : teller'[v] = teller[v] \/ TellerHonest(teller[v])'
      BY <2>6, <2>8 DEF OriginalsInv, OriginalsTyped
  <2> QED BY <1>5, <1>6, <2>9, <2>10, OnwardStep
<1>9. CASE objects'[k][latest] # edition
  <2>1. teller' = [teller EXCEPT ![w] = TellerIdle]
      BY <1>1, <1>2, <1>3, <1>4, <1>5, <1>7, <1>9 DEF PutOriginal, KeyOfTeller, HeadImmutable, GivesUp
  <2>2. OriginalsTyped'
      BY <1>5, <1>6, <2>1 DEF OriginalsInv, OriginalsTyped
  <2>3. \A v \in Tellers : teller'[v] = teller[v] \/ TellerHonest(teller[v])'
      BY <2>1, IdleHonest DEF OriginalsInv, OriginalsTyped
  <2> QED BY <1>5, <1>6, <2>2, <2>3, OnwardStep
<1> QED BY <1>8, <1>9

(* The document row names what the handler put, or another one did.        *)
LEMMA RecordOriginalKeeps ==
    ASSUME OriginalsInv, NEW w \in Tellers, RecordOriginal(w)
    PROVE  OriginalsInv'
<1>1. PICK r \in Telling : r = teller[w] /\ TellerHonest(r) /\ r.at = "record"
    BY WorkingType DEF RecordOriginal, TellerAt
<1>2. PICK original \in Original : original = r.original
    BY DEF Telling
<1>3. PICK k \in ObjectKeys : k = <<r.event, r.row>>
    BY KeyIn DEF Telling
<1>4. objects[k] = <<original.edition>> /\ original.objectVersion = 1 /\ original # NoOriginal
    BY <1>1, <1>2, <1>3 DEF TellerHonest, NoOriginal
<1>5. UNCHANGED <<rowVersion, objects, onTheirWay, notices, reached, toldEvents>>
    BY DEF RecordOriginal
<1>6. CASE originals[k] = NoOriginal
  <2>1. originals' = [originals EXCEPT ![k] = original] /\ Step(w, "tell")
      BY <1>1, <1>2, <1>3, <1>6 DEF RecordOriginal, KeyOfTeller
  <2>2. PICK n : n = [r EXCEPT !.at = "tell"]
      OBVIOUS
  <2>3. /\ n \in Telling /\ n.at = "tell" /\ n.event = r.event /\ n.row = r.row
        /\ n.original = r.original /\ n.channels = r.channels /\ n.seen = r.seen
      BY <2>2, Moved
  <2>4. teller' = [teller EXCEPT ![w] = n]
      BY <1>1, <2>1, <2>2 DEF Step, OriginalsInv, OriginalsTyped
  <2>5. Onward
    <3>1. \A e \in Tellings : rowVersion[e] \in Nat
        BY DEF OriginalsInv, OriginalsTyped
    <3>2. \A e \in Tellings, c \in Channels : notices[e][c].version \in Nat
        BY DEF OriginalsInv, OriginalsTyped, Note
    <3> QED BY <1>5, <1>6, <2>1, <3>1, <3>2 DEF Onward, HasSent, OriginalsInv, OriginalsTyped
  <2>6. OriginalsTyped'
      BY <1>5, <2>1, <2>3, <2>4 DEF OriginalsInv, OriginalsTyped
  <2>7. BucketHonest'
      BY <1>4, <1>5, <2>1 DEF OriginalsInv, OriginalsTyped, BucketHonest, OneObject, RowsNameObjects
  <2>8. TellerHonest(n)'
    <3>1. HasOriginal(r.event, r.row)'
        BY <1>3, <1>4, <2>1 DEF HasOriginal, OriginalsInv, OriginalsTyped
    <3> QED BY <1>1, <1>5, <2>3, <3>1 DEF TellerHonest, HasSent, LeftToTell, AtNotice
  <2>9. SentWasReached'
      BY <1>5 DEF OriginalsInv, SentWasReached
  <2>10. \A v \in Tellers : teller'[v] = teller[v] \/ TellerHonest(teller[v])'
      BY <2>4, <2>8 DEF OriginalsInv, OriginalsTyped
  <2> QED BY <1>5, <2>5, <2>6, <2>7, <2>9, <2>10, OnwardStep
<1>7. CASE originals[k] # NoOriginal /\ originals[k] = original
  <2>1. Step(w, "tell") /\ UNCHANGED originals /\ HasOriginal(r.event, r.row)
      BY <1>1, <1>2, <1>3, <1>7 DEF RecordOriginal, KeyOfTeller, HasOriginal
  <2> QED BY <1>1, <1>5, <2>1, MoveStep
<1>8. CASE originals[k] # NoOriginal /\ originals[k] # original
  <2>1. GivesUp(w) /\ UNCHANGED originals
      BY <1>1, <1>2, <1>3, <1>8 DEF RecordOriginal, KeyOfTeller
  <2>2. onTheirWay' \subseteq [key : ObjectKeys, edition : Nat]
      BY <1>5 DEF OriginalsInv, OriginalsTyped
  <2> QED BY <1>5, <2>1, <2>2, GivesUpStep
<1> QED BY <1>6, <1>7, <1>8

LEMMA ChangeRowKeeps ==
    ASSUME OriginalsInv, NEW e \in Tellings, ChangeRow(e)
    PROVE  OriginalsInv'
<1>1. PICK old \in 1 .. MaxRowVersion : old = rowVersion[e]
    BY DEF OriginalsInv, OriginalsTyped
<1>2. PICK new \in 1 .. MaxRowVersion : new = old + 1
    BY <1>1, TellingAssumption DEF ChangeRow
<1>3. rowVersion' = [rowVersion EXCEPT ![e] = new]
    BY <1>1, <1>2 DEF ChangeRow
<1>4. UNCHANGED <<objects, onTheirWay, originals, notices, reached, toldEvents, teller>>
    BY DEF ChangeRow
<1>5. OriginalsTyped' /\ BucketHonest' /\ SentWasReached'
    BY <1>3, <1>4 DEF OriginalsInv, OriginalsTyped, BucketHonest, OneObject, RowsNameObjects,
                      SentWasReached
<1>6. Onward
  <2>1. \A d \in Tellings : /\ rowVersion[d] \in Nat /\ rowVersion'[d] \in Nat
                            /\ rowVersion[d] <= rowVersion'[d]
      BY <1>1, <1>2, <1>3 DEF OriginalsInv, OriginalsTyped
  <2>2. \A d \in Tellings, c \in Channels : notices[d][c].version \in Nat
      BY DEF OriginalsInv, OriginalsTyped, Note
  <2> QED BY <1>4, <2>1, <2>2 DEF Onward, HasSent
<1> QED BY <1>4, <1>5, <1>6, OnwardStep

-----------------------------------------------------------------------------
(* A notification row is written: at a new version, and never instead of   *)
(* one that says sent.                                                     *)
Writes(e, c, note) == notices' = [notices EXCEPT ![e][c] = note]

LEMMA NoticeOnward ==
    ASSUME OriginalsInv, NEW e \in Tellings, NEW c \in Channels, NEW note \in Note,
           Writes(e, c, note),
           notices[e][c].version < note.version,
           HasSent(e, c) => note.status = "sent",
           note.status = "sent" => <<e, c>> \in reached,
           UNCHANGED <<rowVersion, objects, onTheirWay, originals, reached>>
    PROVE  /\ Onward /\ BucketHonest' /\ SentWasReached' /\ notices'[e][c] = note
           /\ notices' \in [Tellings -> [Channels -> Note]]
<1>1. PICK row \in [Channels -> Note] : row = notices[e]
    BY DEF OriginalsInv, OriginalsTyped
<1>2. PICK new \in [Channels -> Note] : new = [row EXCEPT ![c] = note]
    OBVIOUS
<1>3. notices' = [notices EXCEPT ![e] = new]
    BY <1>1, <1>2 DEF Writes, OriginalsInv, OriginalsTyped
<1>4. /\ notices' \in [Tellings -> [Channels -> Note]]
      /\ \A d \in Tellings, b \in Channels :
            notices'[d][b] = IF d = e /\ b = c THEN note ELSE notices[d][b]
    BY <1>1, <1>2, <1>3 DEF OriginalsInv, OriginalsTyped
<1>5. \A d \in Tellings, b \in Channels :
          notices[d][b].version \in Nat /\ notices'[d][b].version \in Nat
    BY <1>4 DEF OriginalsInv, OriginalsTyped, Note
<1>6. \A d \in Tellings : rowVersion[d] \in Nat
    BY DEF OriginalsInv, OriginalsTyped
<1>7. Onward
    BY <1>4, <1>5, <1>6 DEF Onward, HasSent
<1>8. SentWasReached'
    BY <1>4 DEF OriginalsInv, SentWasReached
<1>9. BucketHonest'
    BY DEF OriginalsInv, BucketHonest, OneObject, RowsNameObjects
<1> QED BY <1>4, <1>7, <1>8, <1>9

LEMMA NoticeStep ==
    ASSUME OriginalsInv, NEW w \in Tellers, NEW n \in Telling \union {TellerIdle},
           teller' = [teller EXCEPT ![w] = n], TellerHonest(n)',
           Onward, BucketHonest', SentWasReached', notices' \in [Tellings -> [Channels -> Note]],
           UNCHANGED <<rowVersion, objects, onTheirWay, originals, toldEvents>>
    PROVE  OriginalsInv'
<1>1. OriginalsTyped'
    BY DEF OriginalsInv, OriginalsTyped
<1>2. \A v \in Tellers : teller'[v] = teller[v] \/ TellerHonest(teller[v])'
    BY DEF OriginalsInv, OriginalsTyped
<1> QED BY <1>1, <1>2, OnwardStep

(* The channel at the head is done with.                                   *)
LEMMA TailLeft ==
    ASSUME NEW r \in Telling, NEW n \in Telling, r.channels # <<>>, n.channels = Tail(r.channels),
           NEW c, LeftToTell(r, c), c # Head(r.channels)
    PROVE  LeftToTell(n, c)
<1>1. PICK list \in Seq(Channels) : list = r.channels
    BY DEF Telling
<1>2. PICK j \in 1 .. Len(list) : list[j] = c
    BY <1>1 DEF LeftToTell
<1>3. /\ Len(Tail(list)) = Len(list) - 1 /\ Len(list) \in Nat
      /\ \A i \in 1 .. Len(Tail(list)) : Tail(list)[i] = list[i + 1]
    BY <1>1, HeadTailProperties
<1>4. j # 1
    BY <1>1, <1>2
<1>5. PICK i \in 1 .. Len(Tail(list)) : j = i + 1
  <2>1. j - 1 \in 1 .. Len(Tail(list)) /\ j = (j - 1) + 1
      BY <1>2, <1>3, <1>4
  <2> QED BY <2>1
<1> QED BY <1>1, <1>2, <1>3, <1>5 DEF LeftToTell

LEMMA ChannelIn ==
    ASSUME NEW r \in Telling, r.channels # <<>>
    PROVE  Head(r.channels) \in Channels /\ Tail(r.channels) \in Seq(Channels) /\ r.event \in Tellings
<1>1. PICK list \in Seq(Channels) : list = r.channels
    BY DEF Telling
<1>2. Head(list) \in Channels /\ Tail(list) \in Seq(Channels)
    BY <1>1, HeadTailProperties
<1> QED BY <1>1, <1>2 DEF Telling

(* A handler goes to its next channel when the last one is sent.           *)
LEMMA NextChannel ==
    ASSUME NEW r \in Telling, TellerHonest(r), r.at = "tell" \/ AtNotice(r), r.channels # <<>>,
           NEW n \in Telling, n.at = "tell", n.event = r.event, n.row = r.row,
           n.channels = Tail(r.channels), HasSent(r.event, Head(r.channels))
    PROVE  TellerHonest(n)
<1>1. \A i \in 1 .. Len(ChannelsOf(r.event)) :
          HasSent(r.event, ChannelsOf(r.event)[i]) \/ LeftToTell(n, ChannelsOf(r.event)[i])
    BY TailLeft DEF TellerHonest, AtNotice
<1> QED BY <1>1 DEF TellerHonest, AtNotice

LEMMA LookUpNoticeKeeps ==
    ASSUME OriginalsInv, NEW w \in Tellers, LookUpNotice(w)
    PROVE  OriginalsInv'
<1>1. PICK r \in Telling : r = teller[w] /\ TellerHonest(r) /\ r.at = "tell" /\ r.channels # <<>>
    BY WorkingType DEF LookUpNotice, TellerAt
<1>2. PICK e \in Tellings, c \in Channels : e = r.event /\ c = Head(r.channels)
    BY <1>1, ChannelIn
<1>3. PICK note \in Note : note = notices[e][c]
    BY DEF OriginalsInv, OriginalsTyped
<1>4. UNCHANGED <<rowVersion, objects, onTheirWay, originals, notices, reached, toldEvents>>
    BY DEF LookUpNotice
<1>5. onTheirWay' \subseteq [key : ObjectKeys, edition : Nat]
    BY <1>4 DEF OriginalsInv, OriginalsTyped
<1>6. CASE note.status = "sent"
  <2>1. PICK rest \in Seq(Channels) : rest = Tail(r.channels)
      BY <1>1, ChannelIn
  <2>2. PICK n : n = [r EXCEPT !.channels = rest]
      OBVIOUS
  <2>3. n = [at |-> "tell", event |-> r.event, row |-> r.row, original |-> r.original,
             channels |-> rest, seen |-> r.seen]
      BY <1>1, <2>2 DEF Telling
  <2>4. n \in Telling /\ n.at = "tell" /\ n.event = r.event /\ n.row = r.row /\ n.channels = rest
      BY <2>3 DEF Telling
  <2>5. teller' = [teller EXCEPT ![w] = n]
      BY <1>1, <1>2, <1>3, <1>6, <2>1, <2>2 DEF LookUpNotice, Notice, Channel
  <2>6. TellerHonest(n)
      BY <1>1, <1>2, <1>3, <1>6, <2>1, <2>4, NextChannel DEF HasSent
  <2>7. Onward
      BY <1>4, SameOnward DEF OriginalsInv
  <2>8. TellerHonest(n)'
      BY <2>4, <2>6, <2>7, HonestStays
  <2> QED BY <1>4, <1>5, <2>4, <2>5, <2>8, TellerStep
<1>7. CASE note.status # "sent"
  <2>1. PICK at \in {"create", "send"} : at = IF note = NoNotice THEN "create" ELSE "send"
      OBVIOUS
  <2>2. PICK n : n = [r EXCEPT !.at = at, !.seen = note]
      OBVIOUS
  <2>3. n = [at |-> at, event |-> r.event, row |-> r.row, original |-> r.original,
             channels |-> r.channels, seen |-> note]
      BY <2>2 DEF Telling
  <2>4. /\ n \in Telling /\ n.at = at /\ n.event = r.event /\ n.row = r.row
        /\ n.channels = r.channels /\ n.seen = note
      BY <2>3 DEF Telling
  <2>5. teller' = [teller EXCEPT ![w] = n]
      BY <1>1, <1>2, <1>3, <1>7, <2>1, <2>2 DEF LookUpNotice, Notice, Channel, OriginalsInv, OriginalsTyped
  <2>6. NoticeHonest(n, c)
      BY <1>2, <1>3, <1>7, <2>1, <2>4 DEF NoticeHonest, HasSent, NoNotice, Note
  <2>7. TellerHonest(n)
      BY <1>1, <1>2, <2>4, <2>6 DEF TellerHonest, AtNotice, LeftToTell
  <2>8. Onward
      BY <1>4, SameOnward DEF OriginalsInv
  <2>9. TellerHonest(n)'
      BY <2>4, <2>7, <2>8, HonestStays
  <2> QED BY <1>4, <1>5, <2>4, <2>5, <2>9, TellerStep
<1> QED BY <1>6, <1>7

(* What holds of a handler still holds when a row it does not forbid is    *)
(* written, and more may be said of its own.                               *)
LEMMA CreateNoticeKeeps ==
    ASSUME OriginalsInv, NEW w \in Tellers, CreateNotice(w)
    PROVE  OriginalsInv'
<1>1. PICK r \in Telling : r = teller[w] /\ TellerHonest(r) /\ r.at = "create" /\ r.channels # <<>>
                           /\ r.seen.version = 0
    BY WorkingType DEF CreateNotice, TellerAt, TellerHonest, AtNotice, NoticeHonest
<1>2. PICK e \in Tellings, c \in Channels : e = r.event /\ c = Head(r.channels)
    BY <1>1, ChannelIn
<1>3. UNCHANGED <<rowVersion, objects, onTheirWay, originals, reached, toldEvents>>
    BY DEF CreateNotice
<1>4. CASE notices[e][c] = NoNotice
  <2>1. PICK note \in Note : /\ note = [status |-> "pending", version |-> 1]
                             /\ note.status = "pending" /\ note.version = 1
    <3>1. [status |-> "pending", version |-> 1] \in Note
        BY DEF Note
    <3> QED BY <3>1
  <2>2. PICK next \in Nat : next = r.seen.version + 1 /\ next = 1
      BY <1>1
  <2>3. PICK n : n = [r EXCEPT !.at = "send", !.seen = note]
      OBVIOUS
  <2>4. n = [at |-> "send", event |-> r.event, row |-> r.row, original |-> r.original,
             channels |-> r.channels, seen |-> note]
      BY <2>3 DEF Telling
  <2>5. /\ n \in Telling /\ n.at = "send" /\ n.event = r.event /\ n.row = r.row
        /\ n.channels = r.channels /\ n.seen = note
      BY <2>4 DEF Telling
  <2>6. /\ Writes(e, c, note)
        /\ teller' = [teller EXCEPT ![w].at = "send", ![w].seen = note]
      BY <1>1, <1>2, <1>4, <2>1, <2>2 DEF CreateNotice, SetNotice, Notice, Channel, Writes
  <2>7. teller' = [teller EXCEPT ![w] = n]
      BY <1>1, <2>3, <2>6 DEF OriginalsInv, OriginalsTyped
  <2>8. notices[e][c].version < note.version /\ ~HasSent(e, c)
      BY <1>4, <2>1 DEF NoNotice, HasSent
  <2>9. /\ Onward /\ BucketHonest' /\ SentWasReached' /\ notices'[e][c] = note
        /\ notices' \in [Tellings -> [Channels -> Note]]
      BY <1>3, <2>1, <2>6, <2>8, NoticeOnward
  <2>10. TellerHonest(r)'
      BY <1>1, <2>9, HonestStays
  <2>11. TellerHonest(n)'
      BY <1>1, <1>2, <2>1, <2>5, <2>9, <2>10 DEF TellerHonest, AtNotice, NoticeHonest, HasSent, LeftToTell
  <2> QED BY <1>3, <2>5, <2>7, <2>9, <2>11, NoticeStep
<1>5. CASE notices[e][c] # NoNotice
  <2>1. GivesUp(w) /\ UNCHANGED notices
      BY <1>1, <1>2, <1>5 DEF CreateNotice, Notice, Channel
  <2>2. onTheirWay' \subseteq [key : ObjectKeys, edition : Nat]
      BY <1>3 DEF OriginalsInv, OriginalsTyped
  <2> QED BY <1>3, <2>1, <2>2, GivesUpStep
<1> QED BY <1>4, <1>5

LEMMA SendingKeeps ==
    ASSUME OriginalsInv, NEW w \in Tellers, SendNotice(w) \/ SendFails(w)
    PROVE  OriginalsInv'
<1>1. PICK r \in Telling : r = teller[w] /\ TellerHonest(r) /\ r.at = "send"
    BY WorkingType DEF SendNotice, SendFails, TellerAt
<1>2. HasOriginal(r.event, r.row) /\ AtNotice(r)
    BY <1>1 DEF TellerHonest, AtNotice
<1>3. UNCHANGED <<rowVersion, objects, originals, notices, toldEvents, onTheirWay>>
      /\ reached \subseteq reached'
    BY DEF SendNotice, SendFails
<1>4. CASE SendNotice(w)
  <2>1. Step(w, "mark") /\ <<r.event, Head(r.channels)>> \in reached'
      BY <1>1, <1>4 DEF SendNotice, NoticeReached, Channel
  <2> QED BY <1>1, <1>2, <1>3, <2>1, MoveStep
<1>5. CASE SendFails(w)
  <2>1. Step(w, "fail")
      BY <1>5 DEF SendFails
  <2> QED BY <1>1, <1>2, <1>3, <2>1, MoveStep
<1> QED BY <1>4, <1>5

(* The row of a notification is written at the version read, when it is    *)
(* still the present one.                                                  *)
LEMMA CurrentNotice ==
    ASSUME OriginalsInv, NEW r \in Telling, TellerHonest(r), r.at \in {"send", "mark", "fail"},
           NEW e \in Tellings, NEW c \in Channels, e = r.event, c = Head(r.channels),
           notices[e][c].version = r.seen.version, NEW status \in {"sent", "failed"},
           Writes(e, c, [status |-> status, version |-> r.seen.version + 1]),
           status = "sent" => r.at = "mark",
           UNCHANGED <<rowVersion, objects, onTheirWay, originals, reached>>
    PROVE  /\ Onward /\ BucketHonest' /\ SentWasReached' /\ TellerHonest(r)'
           /\ notices'[e][c].status = status /\ notices'[e][c].version # r.seen.version
           /\ notices' \in [Tellings -> [Channels -> Note]]
<1>1. PICK old \in Nat : old = r.seen.version
    BY DEF Telling, Note
<1>2. PICK next \in Nat : next = old + 1
    BY <1>1
<1>3. PICK note \in Note : /\ note = [status |-> status, version |-> next]
                           /\ note.status = status /\ note.version = next
  <2>1. [status |-> status, version |-> next] \in Note
      BY DEF Note
  <2> QED BY <2>1
<1>4. Writes(e, c, note) /\ notices[e][c].version < note.version
    BY <1>1, <1>2, <1>3
<1>5. NoticeHonest(r, c)
    BY DEF TellerHonest, AtNotice
<1>6. ~HasSent(e, c) /\ (status = "sent" => <<e, c>> \in reached)
    BY <1>5 DEF NoticeHonest
<1>7. /\ Onward /\ BucketHonest' /\ SentWasReached' /\ notices'[e][c] = note
      /\ notices' \in [Tellings -> [Channels -> Note]]
  <2>1. (HasSent(e, c) => note.status = "sent") /\ (note.status = "sent" => <<e, c>> \in reached)
      BY <1>3, <1>6
  <2> QED BY <1>4, <2>1, NoticeOnward
<1>8. TellerHonest(r)'
    BY <1>7, HonestStays
<1> QED BY <1>1, <1>2, <1>3, <1>7, <1>8

LEMMA MarkSentKeeps ==
    ASSUME OriginalsInv, NEW w \in Tellers, MarkSent(w)
    PROVE  OriginalsInv'
<1>1. PICK r \in Telling : r = teller[w] /\ TellerHonest(r) /\ r.at = "mark" /\ AtNotice(r)
                           /\ r.channels # <<>> /\ HasOriginal(r.event, r.row)
    BY WorkingType DEF MarkSent, TellerAt, TellerHonest, AtNotice
<1>2. PICK e \in Tellings, c \in Channels : e = r.event /\ c = Head(r.channels)
    BY <1>1, ChannelIn
<1>3. UNCHANGED <<rowVersion, objects, onTheirWay, originals, reached, toldEvents>>
    BY DEF MarkSent
<1>4. CASE notices[e][c].version = r.seen.version
  <2>1. PICK rest \in Seq(Channels) : rest = Tail(r.channels)
      BY <1>1, ChannelIn
  <2>0. Writes(e, c, [status |-> "sent", version |-> r.seen.version + 1])
      BY <1>1, <1>2, <1>4 DEF MarkSent, NoticeCurrent, SetNotice, Notice, Channel, Writes
  <2>2. teller' = [teller EXCEPT ![w].at = "tell", ![w].channels = Tail(@)]
      BY <1>1, <1>2, <1>4 DEF MarkSent, NoticeCurrent, SetNotice, Notice, Channel, Writes
  <2>3. PICK n : n = [r EXCEPT !.at = "tell", !.channels = rest]
      OBVIOUS
  <2>4. n = [at |-> "tell", event |-> r.event, row |-> r.row, original |-> r.original,
             channels |-> rest, seen |-> r.seen]
      BY <2>3 DEF Telling
  <2>5. n \in Telling /\ n.at = "tell" /\ n.event = r.event /\ n.row = r.row /\ n.channels = rest
      BY <2>4 DEF Telling
  <2>6. teller' = [teller EXCEPT ![w] = n]
      BY <1>1, <2>1, <2>2, <2>3 DEF OriginalsInv, OriginalsTyped
  <2>7. /\ Onward /\ BucketHonest' /\ SentWasReached' /\ TellerHonest(r)'
        /\ notices'[e][c].status = "sent" /\ notices' \in [Tellings -> [Channels -> Note]]
      BY <1>1, <1>2, <1>3, <1>4, <2>0, CurrentNotice
  <2>8. TellerHonest(n)'
    <3>1. HasSent(e, c)'
        BY <2>7 DEF HasSent
    <3>2. \A i \in 1 .. Len(ChannelsOf(e)) :
              HasSent(e, ChannelsOf(e)[i])' \/ LeftToTell(n, ChannelsOf(e)[i])
      <4>1. SUFFICES ASSUME NEW i \in 1 .. Len(ChannelsOf(e)), ~HasSent(e, ChannelsOf(e)[i])'
                     PROVE  LeftToTell(n, ChannelsOf(e)[i])
          OBVIOUS
      <4>2. LeftToTell(r, ChannelsOf(e)[i])
          BY <1>1, <1>2, <2>7, <4>1 DEF TellerHonest, LeftToTell
      <4>3. ChannelsOf(e)[i] # Head(r.channels)
          BY <1>2, <3>1, <4>1
      <4> QED BY <1>1, <2>1, <2>5, <4>2, <4>3, TailLeft
    <3>3. (n.row <= rowVersion[n.event])' /\ HasOriginal(n.event, n.row)'
        BY <1>1, <2>5, <2>7 DEF TellerHonest, AtNotice
    <3> QED BY <1>2, <2>5, <3>2, <3>3 DEF TellerHonest, AtNotice, LeftToTell
  <2> QED BY <1>3, <2>5, <2>6, <2>7, <2>8, NoticeStep
<1>5. CASE notices[e][c].version # r.seen.version
  <2>1. Step(w, "fail") /\ UNCHANGED notices
      BY <1>1, <1>2, <1>5 DEF MarkSent, NoticeCurrent, Notice, Channel
  <2> QED BY <1>1, <1>3, <2>1, MoveStep
<1> QED BY <1>4, <1>5

LEMMA MarkFailsKeeps ==
    ASSUME OriginalsInv, NEW w \in Tellers, MarkFails(w)
    PROVE  OriginalsInv'
<1>1. PICK r \in Telling : r = teller[w] /\ TellerHonest(r) /\ r.at = "mark" /\ AtNotice(r)
                           /\ r.channels # <<>> /\ HasOriginal(r.event, r.row)
    BY WorkingType DEF MarkFails, TellerAt, TellerHonest, AtNotice
<1>2. PICK e \in Tellings, c \in Channels : e = r.event /\ c = Head(r.channels)
    BY <1>1, ChannelIn
<1>3. UNCHANGED <<rowVersion, objects, onTheirWay, originals, reached, toldEvents>> /\ Step(w, "fail")
    BY DEF MarkFails
<1>4. CASE UNCHANGED notices
    BY <1>1, <1>3, <1>4, MoveStep
<1>5. CASE NoticeCurrent(w) /\ SetNotice(w, "sent")
  <2>1. /\ notices[e][c].version = r.seen.version
        /\ Writes(e, c, [status |-> "sent", version |-> r.seen.version + 1])
      BY <1>1, <1>2, <1>5 DEF NoticeCurrent, SetNotice, Notice, Channel, Writes
  <2>2. PICK n : n = [r EXCEPT !.at = "fail"]
      OBVIOUS
  <2>3. /\ n \in Telling /\ n.at = "fail" /\ n.event = r.event /\ n.row = r.row
        /\ n.original = r.original /\ n.channels = r.channels /\ n.seen = r.seen
      BY <2>2, Moved
  <2>4. teller' = [teller EXCEPT ![w] = n]
      BY <1>1, <1>3, <2>2 DEF Step, OriginalsInv, OriginalsTyped
  <2>5. /\ Onward /\ BucketHonest' /\ SentWasReached' /\ TellerHonest(r)'
        /\ notices' \in [Tellings -> [Channels -> Note]]
      BY <1>1, <1>2, <1>3, <2>1, CurrentNotice
  <2>6. \A d : LeftToTell(n, d) <=> LeftToTell(r, d)
      BY <2>3 DEF LeftToTell
  <2>7. NoticeHonest(n, Head(n.channels))'
      BY <1>1, <2>3, <2>5 DEF TellerHonest, AtNotice, NoticeHonest
  <2>8. HasOriginal(n.event, n.row)' /\ (n.row <= rowVersion[n.event])'
      BY <1>1, <2>3, <2>5 DEF TellerHonest, AtNotice
  <2>9. \A i \in 1 .. Len(ChannelsOf(n.event)) :
            HasSent(n.event, ChannelsOf(n.event)[i])' \/ LeftToTell(n, ChannelsOf(n.event)[i])
      BY <1>1, <2>3, <2>5, <2>6 DEF TellerHonest
  <2>10. TellerHonest(n)'
      BY <1>1, <2>3, <2>7, <2>8, <2>9 DEF TellerHonest, AtNotice, LeftToTell
  <2> QED BY <1>3, <2>3, <2>4, <2>5, <2>10, NoticeStep
<1> QED BY <1>4, <1>5 DEF MarkFails

LEMMA MarkFailedKeeps ==
    ASSUME OriginalsInv, NEW w \in Tellers, MarkFailed(w)
    PROVE  OriginalsInv'
<1>1. PICK r \in Telling : r = teller[w] /\ TellerHonest(r) /\ r.at = "fail" /\ r.channels # <<>>
    BY WorkingType DEF MarkFailed, TellerAt, TellerHonest, AtNotice
<1>2. PICK e \in Tellings, c \in Channels : e = r.event /\ c = Head(r.channels)
    BY <1>1, ChannelIn
<1>3. UNCHANGED <<rowVersion, objects, onTheirWay, originals, reached, toldEvents>> /\ GivesUp(w)
    BY DEF MarkFailed
<1>4. CASE notices[e][c].version = r.seen.version
  <2>1. Writes(e, c, [status |-> "failed", version |-> r.seen.version + 1])
      BY <1>1, <1>2, <1>4 DEF MarkFailed, NoticeCurrent, SetNotice, Notice, Channel, Writes
  <2>2. /\ Onward /\ BucketHonest' /\ SentWasReached'
        /\ notices' \in [Tellings -> [Channels -> Note]]
      BY <1>1, <1>2, <1>3, <1>4, <2>1, CurrentNotice
  <2> QED BY <1>3, <2>2, IdleHonest, NoticeStep DEF GivesUp
<1>5. CASE notices[e][c].version # r.seen.version
  <2>1. UNCHANGED notices
      BY <1>1, <1>2, <1>5 DEF MarkFailed, NoticeCurrent, Notice, Channel
  <2>2. onTheirWay' \subseteq [key : ObjectKeys, edition : Nat]
      BY <1>3 DEF OriginalsInv, OriginalsTyped
  <2> QED BY <1>3, <2>1, <2>2, GivesUpStep
<1> QED BY <1>4, <1>5

-----------------------------------------------------------------------------
(* The handling returned: the original is kept and no channel is left.     *)
LEMMA ReturnedKeeps ==
    ASSUME OriginalsInv, NEW w \in Tellers, Returned(w)
    PROVE  OriginalsInv'
<1>1. PICK r \in Telling : r = teller[w] /\ TellerHonest(r) /\ r.at = "tell" /\ r.channels = <<>>
    BY WorkingType DEF Returned, TellerAt
<1>2. PICK e \in Tellings, v \in 1 .. MaxRowVersion : e = r.event /\ v = r.row
    BY DEF Telling
<1>3. /\ UNCHANGED <<rowVersion, objects, onTheirWay, originals, notices, reached>>
      /\ toldEvents' = toldEvents \union {e} /\ teller' = [teller EXCEPT ![w] = TellerIdle]
    BY <1>1, <1>2 DEF Returned, GivesUp
<1>4. OriginalsTyped' /\ BucketHonest' /\ SentWasReached'
    BY <1>3 DEF OriginalsInv, OriginalsTyped, BucketHonest, OneObject, RowsNameObjects, SentWasReached
<1>5. Onward
    BY <1>3, SameOnward DEF OriginalsInv
<1>6. ToldHonest(e)'
  <2>1. v \in 1 .. rowVersion[e] /\ HasOriginal(e, v)
      BY <1>1, <1>2 DEF TellerHonest, OriginalsInv, OriginalsTyped
  <2>2. Len(r.channels) = 0
      BY <1>1
  <2>3. \A i \in 1 .. Len(ChannelsOf(e)) : HasSent(e, ChannelsOf(e)[i])
      BY <1>1, <1>2, <2>2 DEF TellerHonest, LeftToTell
  <2> QED BY <1>3, <2>1, <2>3 DEF ToldHonest, HasOriginal, HasSent
<1>7. \A u \in Tellers : teller'[u] = teller[u] \/ TellerHonest(teller[u])'
    BY <1>3, IdleHonest DEF OriginalsInv, OriginalsTyped
<1> QED BY <1>3, <1>4, <1>5, <1>6, <1>7, OnwardStep

LEMMA BreaksOffKeeps ==
    ASSUME OriginalsInv, NEW w \in Tellers, PutTimesOut(w) \/ Dies(w)
    PROVE  OriginalsInv'
<1>1. GivesUp(w) /\ UNCHANGED <<rowVersion, objects, originals, notices, reached, toldEvents>>
    BY DEF PutTimesOut, Dies
<1>2. CASE PutTimesOut(w)
  <2>1. PICK r \in Telling : r = teller[w]
      BY <1>2, WorkingType DEF PutTimesOut, TellerAt
  <2>2. PICK k \in ObjectKeys : k = KeyOfTeller(w)
      BY <2>1, KeyIn DEF Telling, KeyOfTeller
  <2>3. PICK edition \in Nat : edition = teller[w].original.edition
      BY <2>1 DEF Telling, Original
  <2>4. [key |-> k, edition |-> edition] \in [key : ObjectKeys, edition : Nat]
      OBVIOUS
  <2>5. onTheirWay' = onTheirWay \union {[key |-> k, edition |-> edition]}
      BY <1>2, <2>2, <2>3 DEF PutTimesOut
  <2>6. onTheirWay' \subseteq [key : ObjectKeys, edition : Nat]
      BY <2>4, <2>5 DEF OriginalsInv, OriginalsTyped
  <2> QED BY <1>1, <2>6, GivesUpStep
<1>3. CASE Dies(w)
    BY <1>1, <1>3, GivesUpStep DEF Dies, OriginalsInv, OriginalsTyped
<1> QED BY <1>2, <1>3

LEMMA OriginalsStepHolds == OriginalsInv /\ [OriginalsNext]_originalsVars => OriginalsInv'
<1> SUFFICES ASSUME OriginalsInv, [OriginalsNext]_originalsVars PROVE OriginalsInv'
    OBVIOUS
<1>1. ASSUME NEW e \in Tellings, ChangeRow(e) \/ (\E w \in Tellers : Handle(w, e)) PROVE OriginalsInv'
    BY <1>1, ChangeRowKeeps, HandleKeeps
<1>2. CASE PutArrives
    BY <1>2, PutArrivesKeeps
<1>3. ASSUME NEW w \in Tellers,
             FindOriginal(w) \/ PutOriginal(w) \/ PutTimesOut(w) \/ RecordOriginal(w)
      PROVE  OriginalsInv'
    BY <1>3, FindOriginalKeeps, PutOriginalKeeps, BreaksOffKeeps, RecordOriginalKeeps
<1>4. ASSUME NEW w \in Tellers,
             \/ LookUpNotice(w) \/ CreateNotice(w) \/ SendNotice(w) \/ SendFails(w)
             \/ MarkSent(w) \/ MarkFails(w) \/ MarkFailed(w) \/ Returned(w) \/ Dies(w)
      PROVE  OriginalsInv'
    BY <1>4, LookUpNoticeKeeps, CreateNoticeKeeps, SendingKeeps, MarkSentKeeps, MarkFailsKeeps,
       MarkFailedKeeps, ReturnedKeeps, BreaksOffKeeps
<1>5. CASE UNCHANGED originalsVars
  <2>1. UNCHANGED <<rowVersion, objects, onTheirWay, originals, notices, reached, teller, toldEvents>>
      BY <1>5 DEF originalsVars
  <2>2. OriginalsTyped' /\ BucketHonest' /\ SentWasReached' /\ Onward
      BY <2>1, SameOnward DEF OriginalsInv, OriginalsTyped, BucketHonest, OneObject, RowsNameObjects,
                              SentWasReached
  <2> QED BY <2>1, <2>2, OnwardStep
<1> QED BY <1>1, <1>2, <1>3, <1>4, <1>5 DEF OriginalsNext

(* What is kept is what the document says, for good (putImmutableObject,   *)
(* persistOriginal, downloadDocument).                                     *)
THEOREM OriginalsStay == OriginalsSpec => []OriginalsAreFixed
<1>1. OriginalsInv => OriginalsAreFixed
  <2> SUFFICES ASSUME OriginalsInv, NEW k \in ObjectKeys, originals[k] # NoOriginal
               PROVE  Len(objects[k]) = 1 /\ Downloaded(k) = originals[k].edition
      BY DEF OriginalsAreFixed
  <2>1. objects[k] = <<originals[k].edition>> /\ originals[k].objectVersion = 1
      BY DEF OriginalsInv, BucketHonest, RowsNameObjects
  <2> QED BY <2>1 DEF Downloaded, getImmutableObject
<1> QED BY <1>1, OriginalsInitHolds, OriginalsStepHolds, PTL DEF OriginalsSpec

(* An event that was handled has its original, and its store was reached   *)
(* on every channel, which the rows say for good (sendStoreNotifications). *)
THEOREM ToldForGood == OriginalsSpec => []ToldIsSent
<1>1. OriginalsInv => ToldIsSent
  <2> SUFFICES ASSUME OriginalsInv, NEW e \in toldEvents
               PROVE  /\ OriginalOf[e] # "none" =>
                            \E v \in 1 .. rowVersion[e] : originals[<<e, v>>] # NoOriginal
                      /\ \A i \in DOMAIN ChannelsOf(e) :
                            notices[e][ChannelsOf(e)[i]].status = "sent"
                            /\ <<e, ChannelsOf(e)[i]>> \in reached
      BY DEF ToldIsSent
  <2>1. ToldHonest(e) /\ e \in Tellings
      BY DEF OriginalsInv, OriginalsTyped
  <2>2. ChannelsOf(e) \in Seq(Channels) /\ DOMAIN ChannelsOf(e) = 1 .. Len(ChannelsOf(e))
      BY ChannelsType
  <2> QED BY <2>1, <2>2 DEF ToldHonest, HasOriginal, HasSent, OriginalsInv, SentWasReached
<1> QED BY <1>1, OriginalsInitHolds, OriginalsStepHolds, PTL DEF OriginalsSpec

-----------------------------------------------------------------------------
(***************************************************************************)
(* DeliveryPhotos: the photo that proves a delivery.                       *)
(*                                                                         *)
(* Tickets and versions of objects are only added, so that what the        *)
(* verification saw of the version it named stays true until it is         *)
(* committed and afterwards.                                               *)
(***************************************************************************)

Ticket == [delivery : Deliveries, type : PhotoTypes, expires : Nat,
           status : {"issued", "completed"}, version : {1, 2}]
Held == [declared : PhotoTypes \union OtherTypes, picture : Pictures]
Proof == [ticket : Nat, version : Nat, checksum : Pictures \union {"none"}]
Completing == [at : {"head", "get", "commit"}, delivery : Deliveries, seen : Nat, ticket : Nat,
               proof : Proof]

PhotosTyped ==
    /\ storageMode \in {"mock", "s3"} /\ clock \in Nat
    /\ tickets \in Seq(Ticket) /\ bucket \in Seq(Seq(Held)) /\ Len(bucket) = Len(tickets)
    /\ delivery \in [Deliveries -> [version : Nat, proof : Proof]]
    /\ completion \in [Completions -> Completing \union {NoCompletion}]

(* The version of an object of this shipment.                              *)
OfTicket(d, t) == t \in 1 .. Len(tickets) /\ tickets[t].delivery = d
KeptVersion(t, v) == t \in 1 .. Len(bucket) /\ v \in 1 .. Len(bucket[t])
IsPhoto(picture) == picture.fits /\ detectImageMime(picture) \in PhotoTypes
Proven(d, proof) ==
    /\ OfTicket(d, proof.ticket) /\ KeptVersion(proof.ticket, proof.version)
    /\ bucket[proof.ticket][proof.version].picture = proof.checksum
    /\ IsPhoto(proof.checksum)

(* The mock keeps photos only.                                             *)
MockKeepsPhotos ==
    storageMode = "mock" => \A t, v \in Nat : KeptVersion(t, v) => IsPhoto(bucket[t][v].picture)

(* What the verification has seen so far holds of the version it named.    *)
SoFar(me) ==
    /\ me.at # "idle" => OfTicket(me.delivery, me.ticket)
    /\ me.at = "get" =>
          /\ me.proof.ticket = me.ticket /\ KeptVersion(me.ticket, me.proof.version)
          /\ bucket[me.ticket][me.proof.version].declared \in PhotoTypes
          /\ bucket[me.ticket][me.proof.version].picture.fits
    /\ me.at = "commit" => Proven(me.delivery, me.proof)

PhotosInv ==
    /\ PhotosTyped /\ MockKeepsPhotos
    /\ \A c \in Completions : SoFar(completion[c])
    /\ \A d \in Deliveries : Delivered(d) => Proven(d, delivery[d].proof)

-----------------------------------------------------------------------------
LEMMA PhotosInitHolds == PhotosInit => PhotosInv
<1> SUFFICES ASSUME PhotosInit PROVE PhotosInv
    OBVIOUS
<1>1. NoProof \in Proof
    BY DEF NoProof, Proof
<1>2. /\ tickets \in Seq(Ticket) /\ bucket \in Seq(Seq(Held)) /\ Len(bucket) = 0 /\ Len(tickets) = 0
    BY DEF PhotosInit
<1>3. PhotosTyped
    BY <1>1, <1>2 DEF PhotosInit, PhotosTyped
<1>4. MockKeepsPhotos
    BY <1>2 DEF MockKeepsPhotos, KeptVersion
<1>5. \A c \in Completions : SoFar(completion[c])
    BY DEF PhotosInit, SoFar, NoCompletion
<1>6. \A d \in Deliveries : ~Delivered(d)
    BY DEF PhotosInit, Delivered, NoProof
<1> QED BY <1>3, <1>4, <1>5, <1>6 DEF PhotosInv

(* What is kept stays: tickets and versions are only added.                *)
Grown ==
    /\ Len(tickets) \in Nat /\ Len(tickets)' \in Nat /\ Len(tickets) <= Len(tickets)'
    /\ \A t \in 1 .. Len(tickets) : tickets'[t].delivery = tickets[t].delivery
    /\ Len(bucket) = Len(tickets) /\ Len(bucket)' = Len(tickets)'
    /\ \A t \in 1 .. Len(bucket) :
          /\ Len(bucket[t]) \in Nat /\ Len(bucket'[t]) \in Nat /\ Len(bucket[t]) <= Len(bucket'[t])
          /\ \A v \in 1 .. Len(bucket[t]) : bucket'[t][v] = bucket[t][v]

LEMMA BucketType ==
    ASSUME PhotosTyped, NEW t \in 1 .. Len(tickets)
    PROVE  /\ Len(bucket[t]) \in Nat /\ bucket[t] \in Seq(Held) /\ tickets[t] \in Ticket
           /\ \A v \in 1 .. Len(bucket[t]) : bucket[t][v] \in Held
BY DEF PhotosTyped

LEMMA SameGrown == ASSUME PhotosTyped, UNCHANGED <<tickets, bucket>> PROVE Grown
BY BucketType DEF Grown, PhotosTyped

LEMMA ProvenStays ==
    ASSUME Grown, NEW d, NEW proof, Proven(d, proof)
    PROVE  Proven(d, proof)'
BY DEF Grown, Proven, OfTicket, KeptVersion

LEMMA SoFarStays ==
    ASSUME Grown, NEW me, SoFar(me)
    PROVE  SoFar(me)'
<1>1. me.at # "idle" => OfTicket(me.delivery, me.ticket)'
    BY DEF Grown, SoFar, OfTicket
<1>2. me.at = "get" => /\ KeptVersion(me.ticket, me.proof.version)'
                       /\ bucket'[me.ticket][me.proof.version] = bucket[me.ticket][me.proof.version]
    BY DEF Grown, SoFar, KeptVersion
<1> QED BY <1>1, <1>2, ProvenStays DEF SoFar

-----------------------------------------------------------------------------
(* The tickets and the bucket change, nobody completes.                    *)
LEMMA BucketStep ==
    ASSUME PhotosInv, Grown, PhotosTyped', MockKeepsPhotos', UNCHANGED <<delivery, completion>>
    PROVE  PhotosInv'
<1>1. \A c \in Completions : SoFar(completion[c])'
  <2> SUFFICES ASSUME NEW c \in Completions PROVE SoFar(completion[c])'
      OBVIOUS
  <2>1. PICK me : me = completion[c]
      OBVIOUS
  <2>2. SoFar(me)
      BY <2>1 DEF PhotosInv
  <2>3. SoFar(me)'
      BY <2>2, SoFarStays
  <2> QED BY <2>1, <2>3
<1>2. \A d \in Deliveries : Delivered(d)' => Proven(d, delivery[d].proof)'
  <2> SUFFICES ASSUME NEW d \in Deliveries, Delivered(d)' PROVE Proven(d, delivery[d].proof)'
      OBVIOUS
  <2>1. PICK proof : proof = delivery[d].proof
      OBVIOUS
  <2>2. Proven(d, proof)
      BY <2>1 DEF PhotosInv, Delivered
  <2>3. Proven(d, proof)'
      BY <2>2, ProvenStays
  <2> QED BY <2>1, <2>3
<1> QED BY <1>1, <1>2 DEF PhotosInv

LEMMA CreateKeeps ==
    ASSUME PhotosInv, NEW d \in Deliveries, NEW type \in PhotoTypes, createDeliveryUpload(d, type)
    PROVE  PhotosInv'
<1>1. PICK ticket \in Ticket : ticket = TicketFor(d, type)
  <2>1. TicketFor(d, type) \in Ticket
      BY PhotoAssumption DEF TicketFor, Ticket, PhotosInv, PhotosTyped
  <2> QED BY <2>1
<1>2. PICK none \in Seq(Held) : none = <<>>
  <2>1. <<>> \in Seq(Held)
      OBVIOUS
  <2> QED BY <2>1
<1>3. /\ tickets \in Seq(Ticket) /\ bucket \in Seq(Seq(Held)) /\ Len(bucket) = Len(tickets)
      /\ tickets' = Append(tickets, ticket) /\ bucket' = Append(bucket, none)
    BY <1>1, <1>2 DEF createDeliveryUpload, PhotosInv, PhotosTyped
<1>4. /\ tickets' \in Seq(Ticket) /\ Len(tickets') = Len(tickets) + 1
      /\ \A t \in 1 .. Len(tickets) : tickets'[t] = tickets[t]
    BY <1>3, AppendProperties
<1>5. /\ bucket' \in Seq(Seq(Held)) /\ Len(bucket') = Len(bucket) + 1
      /\ \A t \in 1 .. Len(bucket) : bucket'[t] = bucket[t]
      /\ bucket'[Len(bucket) + 1] = none
    BY <1>3, AppendProperties
<1>6. Len(tickets) \in Nat
    BY <1>3
<1>7. Grown
    BY <1>3, <1>4, <1>5, <1>6, BucketType DEF Grown, PhotosInv
<1>8. PhotosTyped'
    BY <1>3, <1>4, <1>5 DEF createDeliveryUpload, PhotosInv, PhotosTyped
<1>9. MockKeepsPhotos'
  <2>1. SUFFICES ASSUME storageMode = "mock", NEW t \in Nat, NEW v \in Nat, KeptVersion(t, v)'
                 PROVE  IsPhoto(bucket'[t][v].picture)
      BY DEF createDeliveryUpload, MockKeepsPhotos, IsPhoto
  <2>2. t # Len(bucket) + 1
      BY <1>2, <1>5, <2>1 DEF KeptVersion
  <2>3. t \in 1 .. Len(bucket) /\ bucket'[t] = bucket[t]
      BY <1>3, <1>5, <1>6, <2>1, <2>2 DEF KeptVersion
  <2> QED BY <2>1, <2>3 DEF PhotosInv, MockKeepsPhotos, KeptVersion
<1>10. UNCHANGED <<delivery, completion>>
    BY DEF createDeliveryUpload
<1> QED BY <1>7, <1>8, <1>9, <1>10, BucketStep

(* A version more under the key of one ticket.                             *)
LEMMA PutKeeps ==
    ASSUME PhotosInv, NEW t \in 1 .. Len(tickets), NEW held \in Held,
           bucket' = [bucket EXCEPT ![t] = Append(bucket[t], held)],
           storageMode = "mock" => IsPhoto(held.picture),
           UNCHANGED <<storageMode, clock, tickets, delivery, completion>>
    PROVE  PhotosInv'
<1>1. PICK old \in Seq(Held) : old = bucket[t]
    BY BucketType DEF PhotosInv
<1>2. PICK new \in Seq(Held) : /\ new = Append(old, held) /\ Len(new) = Len(old) + 1
                               /\ \A v \in 1 .. Len(old) : new[v] = old[v]
                               /\ new[Len(old) + 1] = held
    BY AppendProperties
<1>3. /\ bucket \in Seq(Seq(Held)) /\ Len(bucket) = Len(tickets) /\ bucket' = [bucket EXCEPT ![t] = new]
    BY <1>1, <1>2 DEF PhotosInv, PhotosTyped
<1>4. /\ bucket' \in Seq(Seq(Held)) /\ Len(bucket') = Len(bucket) /\ bucket'[t] = new
      /\ \A s \in 1 .. Len(bucket) : s # t => bucket'[s] = bucket[s]
    BY <1>3
<1>5. Len(old) \in Nat /\ Len(tickets) \in Nat
    BY DEF PhotosInv, PhotosTyped
<1>6. Grown
    BY <1>1, <1>2, <1>3, <1>4, <1>5, BucketType DEF Grown, PhotosInv
<1>7. PhotosTyped'
    BY <1>3, <1>4 DEF PhotosInv, PhotosTyped
<1>8. MockKeepsPhotos'
  <2>1. SUFFICES ASSUME storageMode = "mock", NEW s \in Nat, NEW v \in Nat, KeptVersion(s, v)'
                 PROVE  IsPhoto(bucket'[s][v].picture)
      BY DEF MockKeepsPhotos, IsPhoto
  <2>2. CASE s # t
      BY <1>3, <1>4, <2>1, <2>2 DEF PhotosInv, MockKeepsPhotos, KeptVersion
  <2>3. CASE s = t /\ v = Len(old) + 1
      BY <1>2, <1>4, <2>1, <2>3
  <2>4. CASE s = t /\ v # Len(old) + 1
    <3>1. v \in 1 .. Len(old) /\ bucket'[s][v] = bucket[s][v]
        BY <1>1, <1>2, <1>4, <1>5, <2>1, <2>4 DEF KeptVersion
    <3> QED BY <1>1, <1>3, <2>1, <2>4, <3>1 DEF PhotosInv, MockKeepsPhotos, KeptVersion
  <2> QED BY <2>2, <2>3, <2>4
<1> QED BY <1>6, <1>7, <1>8, BucketStep

LEMMA UploadKeeps ==
    ASSUME PhotosInv, NEW t \in DOMAIN tickets, NEW type \in PhotoTypes \union OtherTypes,
           NEW picture \in Pictures,
           PutSigned(t, type, picture) \/ recordMockUpload(t, type, picture)
    PROVE  PhotosInv'
<1>1. t \in 1 .. Len(tickets)
    BY DEF PhotosInv, PhotosTyped
<1>2. PICK held \in Held : held = Object(type, picture) /\ held.picture = picture
  <2>1. Object(type, picture) \in Held /\ Object(type, picture).picture = picture
      BY DEF Object, Held
  <2> QED BY <2>1
<1>3. CASE PutSigned(t, type, picture)
  <2>1. /\ bucket' = [bucket EXCEPT ![t] = Append(bucket[t], held)] /\ storageMode # "mock"
        /\ UNCHANGED <<storageMode, clock, tickets, delivery, completion>>
      BY <1>2, <1>3 DEF PutSigned
  <2> QED BY <1>1, <2>1, PutKeeps
<1>4. CASE recordMockUpload(t, type, picture)
  <2>1. <<held>> = Append(<<>>, held)
      OBVIOUS
  <2>2. /\ bucket' = [bucket EXCEPT ![t] = Append(bucket[t], held)]
        /\ UNCHANGED <<storageMode, clock, tickets, delivery, completion>>
      BY <1>2, <1>4, <2>1 DEF recordMockUpload
  <2>3. tickets[t].type \in PhotoTypes
      BY <1>1, BucketType DEF PhotosInv, Ticket
  <2>4. IsPhoto(held.picture)
      BY <1>2, <1>4, <2>3 DEF recordMockUpload, IsPhoto
  <2> QED BY <1>1, <2>2, <2>4, PutKeeps
<1> QED BY <1>3, <1>4

-----------------------------------------------------------------------------
(* One completion goes on, nothing is written.                             *)
LEMMA CompletionStep ==
    ASSUME PhotosInv, NEW c \in Completions, NEW me \in Completing \union {NoCompletion},
           completion' = [completion EXCEPT ![c] = me], SoFar(me),
           UNCHANGED <<storageMode, clock, tickets, bucket, delivery>>
    PROVE  PhotosInv'
<1>1. completion'[c] = me /\ \A b \in Completions \ {c} : completion'[b] = completion[b]
    BY DEF PhotosInv, PhotosTyped
<1>2. PhotosTyped' /\ MockKeepsPhotos'
    BY DEF PhotosInv, PhotosTyped, MockKeepsPhotos, KeptVersion
<1>3. ASSUME NEW b \in Completions PROVE SoFar(completion[b])'
  <2>1. PICK one : one = completion'[b] /\ SoFar(one)
      BY <1>1 DEF PhotosInv
  <2>2. SoFar(one)'
      BY <2>1, SameGrown, SoFarStays DEF PhotosInv
  <2> QED BY <2>1, <2>2
<1>4. ASSUME NEW d \in Deliveries, Delivered(d)' PROVE Proven(d, delivery[d].proof)'
  <2>1. PICK proof : proof = delivery[d].proof /\ Proven(d, proof)
      BY <1>4 DEF PhotosInv, Delivered
  <2>2. Proven(d, proof)'
      BY <2>1, SameGrown, ProvenStays DEF PhotosInv
  <2> QED BY <2>1, <2>2
<1> QED BY <1>2, <1>3, <1>4 DEF PhotosInv

LEMMA RefusedKeeps ==
    ASSUME PhotosInv, NEW c \in Completions, CompletionRefused(c),
           UNCHANGED <<storageMode, clock, tickets, bucket>>
    PROVE  PhotosInv'
<1>1. NoCompletion \in Completing \union {NoCompletion} /\ SoFar(NoCompletion)
    BY DEF SoFar, NoCompletion
<1> QED BY <1>1, CompletionStep DEF CompletionRefused

LEMMA CompletingType ==
    ASSUME PhotosTyped, NEW c \in Completions, completion[c].at # "idle"
    PROVE  completion[c] \in Completing
BY DEF PhotosTyped, NoCompletion

LEMMA StartKeepsPhotos ==
    ASSUME PhotosInv, NEW c \in Completions, NEW d \in Deliveries, NEW t \in DOMAIN tickets,
           StartCompletion(c, d, t)
    PROVE  PhotosInv'
<1>1. t \in 1 .. Len(tickets) /\ t \in Nat
    BY DEF PhotosInv, PhotosTyped
<1>2. PICK seen \in Nat : seen = delivery[d].version
    BY DEF PhotosInv, PhotosTyped
<1>3. PICK proof \in Proof : proof = NoProof
  <2>1. NoProof \in Proof
      BY DEF NoProof, Proof
  <2> QED BY <2>1
<1>4. PICK me \in Completing :
          /\ me = [at |-> "head", delivery |-> d, seen |-> seen, ticket |-> t, proof |-> proof]
          /\ me.at = "head" /\ me.delivery = d /\ me.ticket = t
  <2>1. [at |-> "head", delivery |-> d, seen |-> seen, ticket |-> t, proof |-> proof] \in Completing
      BY <1>1 DEF Completing
  <2> QED BY <2>1
<1>5. SoFar(me)
    BY <1>1, <1>4 DEF SoFar, OfTicket, StartCompletion
<1> QED BY <1>2, <1>3, <1>4, <1>5, CompletionStep DEF StartCompletion

LEMMA VerifyMockKeeps ==
    ASSUME PhotosInv, NEW c \in Completions, VerifyMock(c)
    PROVE  PhotosInv'
<1>1. PICK old \in Completing : old = completion[c] /\ old.at = "head" /\ SoFar(old)
    BY CompletingType DEF VerifyMock, PhotosInv
<1>2. PICK t \in 1 .. Len(tickets) : t = old.ticket /\ tickets[t].delivery = old.delivery
    BY <1>1 DEF SoFar, OfTicket
<1>3. CASE Valid(t) /\ bucket[t] # <<>>
  <2>1. PICK versions \in Seq(Held) : versions = bucket[t] /\ versions # <<>>
      BY <1>3, BucketType DEF PhotosInv
  <2>2. PICK held \in Held : held = versions[1] /\ 1 \in 1 .. Len(versions)
      BY <2>1
  <2>3. PICK proof \in Proof : /\ proof = ProofOf(t, 1, bucket[t][1])
                               /\ proof.ticket = t /\ proof.version = 1 /\ proof.checksum = held.picture
    <3>1. t \in Nat
        BY DEF PhotosInv, PhotosTyped
    <3>2. ProofOf(t, 1, held) \in Proof /\ ProofOf(t, 1, held).ticket = t
          /\ ProofOf(t, 1, held).version = 1 /\ ProofOf(t, 1, held).checksum = held.picture
        BY <3>1 DEF ProofOf, Proof, Held
    <3> QED BY <2>1, <2>2, <3>2
  <2>4. PICK me : me = [old EXCEPT !.at = "commit", !.proof = proof]
      OBVIOUS
  <2>5. me = [at |-> "commit", delivery |-> old.delivery, seen |-> old.seen, ticket |-> old.ticket,
              proof |-> proof]
      BY <2>4 DEF Completing
  <2>6. /\ me \in Completing /\ me.at = "commit" /\ me.delivery = old.delivery
        /\ me.ticket = t /\ me.proof = proof
      BY <1>2, <2>5 DEF Completing
  <2>7. /\ completion' = [completion EXCEPT ![c] = me]
        /\ UNCHANGED <<storageMode, clock, tickets, bucket, delivery>>
      BY <1>1, <1>2, <1>3, <2>3, <2>4 DEF VerifyMock, PhotosInv, PhotosTyped
  <2>8. IsPhoto(held.picture)
    <3>1. KeptVersion(t, 1) /\ t \in Nat /\ bucket[t][1] = held
        BY <2>1, <2>2 DEF KeptVersion, PhotosInv, PhotosTyped
    <3> QED BY <3>1 DEF VerifyMock, PhotosInv, MockKeepsPhotos
  <2>9. OfTicket(old.delivery, t) /\ KeptVersion(t, 1)
      BY <1>2, <2>1, <2>2 DEF OfTicket, KeptVersion, PhotosInv, PhotosTyped
  <2>10. Proven(old.delivery, proof)
      BY <2>1, <2>2, <2>3, <2>8, <2>9 DEF Proven
  <2>11. SoFar(me)
      BY <2>6, <2>9, <2>10 DEF SoFar
  <2> QED BY <2>6, <2>7, <2>11, CompletionStep
<1>4. CASE ~(Valid(t) /\ bucket[t] # <<>>)
    BY <1>1, <1>2, <1>4, RefusedKeeps DEF VerifyMock
<1> QED BY <1>3, <1>4

LEMMA HeadObjectKeeps ==
    ASSUME PhotosInv, NEW c \in Completions, HeadObject(c)
    PROVE  PhotosInv'
<1>1. PICK old \in Completing : old = completion[c] /\ old.at = "head" /\ SoFar(old)
    BY CompletingType DEF HeadObject, PhotosInv
<1>2. PICK t \in 1 .. Len(tickets) : t = old.ticket /\ tickets[t].delivery = old.delivery
    BY <1>1 DEF SoFar, OfTicket
<1>3. PICK versions \in Seq(Held) : versions = bucket[t]
    BY BucketType DEF PhotosInv
<1>4. CASE versions # <<>> /\ Valid(t) /\ assertPhotoType(Last(versions).declared)
           /\ Last(versions).picture.fits
  <2>1. PICK v \in Nat : v = Len(versions) /\ v \in 1 .. Len(versions) /\ Last(versions) = versions[v]
      BY <1>4 DEF Last
  <2>2. PICK proof \in Proof : /\ proof = [old.proof EXCEPT !.ticket = t, !.version = v]
                               /\ proof.ticket = t /\ proof.version = v
    <3>1. old.proof \in Proof /\ t \in Nat
        BY DEF Completing, PhotosInv, PhotosTyped
    <3>2. PICK p \in Proof : p = old.proof
        BY <3>1
    <3>3. PICK q : q = [p EXCEPT !.ticket = t, !.version = v]
        OBVIOUS
    <3>4. q = [ticket |-> t, version |-> v, checksum |-> p.checksum]
        BY <3>3 DEF Proof
    <3>5. q \in Proof /\ q.ticket = t /\ q.version = v
        BY <3>1, <3>4 DEF Proof
    <3> QED BY <3>2, <3>3, <3>5
  <2>3. PICK me : me = [old EXCEPT !.at = "get", !.proof = proof]
      OBVIOUS
  <2>4. me = [at |-> "get", delivery |-> old.delivery, seen |-> old.seen, ticket |-> old.ticket,
              proof |-> proof]
      BY <2>3 DEF Completing
  <2>5. /\ me \in Completing /\ me.at = "get" /\ me.delivery = old.delivery
        /\ me.ticket = t /\ me.proof = proof
      BY <1>2, <2>4 DEF Completing
  <2>6. /\ completion' = [completion EXCEPT ![c].at = "get", ![c].proof.ticket = t,
                                            ![c].proof.version = v]
        /\ UNCHANGED <<storageMode, clock, tickets, bucket, delivery>>
      BY <1>1, <1>2, <1>3, <1>4, <2>1 DEF HeadObject
  <2>7. completion' = [completion EXCEPT ![c] = me]
      BY <1>1, <2>2, <2>3, <2>6 DEF PhotosInv, PhotosTyped
  <2>8. SoFar(me)
      BY <1>2, <1>3, <1>4, <2>1, <2>2, <2>5 DEF SoFar, OfTicket, KeptVersion, assertPhotoType, PhotosInv,
                                                 PhotosTyped
  <2> QED BY <2>5, <2>6, <2>7, <2>8, CompletionStep
<1>5. CASE ~(versions # <<>> /\ Valid(t) /\ assertPhotoType(Last(versions).declared)
             /\ Last(versions).picture.fits)
    BY <1>1, <1>2, <1>3, <1>5, RefusedKeeps DEF HeadObject
<1> QED BY <1>4, <1>5

(* The version named is the version looked at.                             *)
LEMMA GetObjectKeeps ==
    ASSUME PhotosInv, NEW c \in Completions, GetObject(c)
    PROVE  PhotosInv'
<1>1. PICK old \in Completing : old = completion[c] /\ old.at = "get" /\ SoFar(old)
    BY CompletingType DEF GetObject, PhotosInv
<1>2. PICK t \in 1 .. Len(tickets) : t = old.ticket /\ tickets[t].delivery = old.delivery
    BY <1>1 DEF SoFar, OfTicket
<1>3. PICK prior \in Proof : prior = old.proof /\ prior.ticket = t
    BY <1>1, <1>2 DEF Completing, SoFar
<1>4. PICK v \in 1 .. Len(bucket[t]) : v = prior.version
    BY <1>1, <1>2, <1>3 DEF SoFar, KeptVersion
<1>5. PICK held \in Held : /\ held = bucket[t][v] /\ held.declared \in PhotoTypes
                           /\ held.picture.fits
    BY <1>1, <1>2, <1>3, <1>4, BucketType DEF SoFar, PhotosInv
<1>6. CASE detectImageMime(held.picture) = held.declared
  <2>1. PICK proof \in Proof : /\ proof = [prior EXCEPT !.checksum = held.picture]
                               /\ proof.ticket = t /\ proof.version = v
                               /\ proof.checksum = held.picture
    <3>1. [prior EXCEPT !.checksum = held.picture]
             = [ticket |-> prior.ticket, version |-> prior.version, checksum |-> held.picture]
        BY DEF Proof
    <3>2. [ticket |-> prior.ticket, version |-> prior.version, checksum |-> held.picture] \in Proof
        BY DEF Proof, Held
    <3> QED BY <1>3, <1>4, <3>1, <3>2
  <2>2. PICK me : me = [old EXCEPT !.at = "commit", !.proof = proof]
      OBVIOUS
  <2>3. me = [at |-> "commit", delivery |-> old.delivery, seen |-> old.seen, ticket |-> old.ticket,
              proof |-> proof]
      BY <2>2 DEF Completing
  <2>4. /\ me \in Completing /\ me.at = "commit" /\ me.delivery = old.delivery
        /\ me.ticket = t /\ me.proof = proof
      BY <1>2, <2>3 DEF Completing
  <2>5. /\ completion' = [completion EXCEPT ![c].at = "commit", ![c].proof.checksum = held.picture]
        /\ UNCHANGED <<storageMode, clock, tickets, bucket, delivery>>
      BY <1>1, <1>2, <1>3, <1>4, <1>5, <1>6 DEF GetObject, ObjectVersion
  <2>6. completion' = [completion EXCEPT ![c] = me]
      BY <1>1, <1>3, <2>1, <2>2, <2>5 DEF PhotosInv, PhotosTyped
  <2>7. IsPhoto(held.picture)
      BY <1>5, <1>6 DEF IsPhoto
  <2>8. OfTicket(old.delivery, t) /\ KeptVersion(t, v)
      BY <1>2 DEF OfTicket, KeptVersion, PhotosInv, PhotosTyped
  <2>9. Proven(old.delivery, proof)
      BY <1>5, <2>1, <2>7, <2>8 DEF Proven
  <2>10. SoFar(me)
      BY <2>4, <2>8, <2>9 DEF SoFar
  <2> QED BY <2>4, <2>5, <2>6, <2>10, CompletionStep
<1>7. CASE detectImageMime(held.picture) # held.declared
    BY <1>1, <1>2, <1>3, <1>4, <1>5, <1>7, RefusedKeeps DEF GetObject, ObjectVersion
<1> QED BY <1>6, <1>7

(* The shipment gets the proof of the completion that wrote it.            *)
LEMMA CommitProofKeeps ==
    ASSUME PhotosInv, NEW c \in Completions, CommitProof(c)
    PROVE  PhotosInv'
<1>1. PICK old \in Completing : old = completion[c] /\ old.at = "commit" /\ SoFar(old)
    BY CompletingType DEF CommitProof, PhotosInv
<1>2. PICK d \in Deliveries : d = old.delivery
    BY DEF Completing
<1>3. PICK t \in 1 .. Len(tickets) : t = old.ticket
    BY <1>1 DEF SoFar, OfTicket
<1>4. CASE delivery[d].version = old.seen /\ tickets[t].version = 1
  <2>1. PICK ticket \in Ticket : ticket = tickets[t]
      BY BucketType DEF PhotosInv
  <2>2. PICK done : done = [ticket EXCEPT !.status = "completed", !.version = 2]
      OBVIOUS
  <2>3. done = [delivery |-> ticket.delivery, type |-> ticket.type, expires |-> ticket.expires,
                status |-> "completed", version |-> 2]
      BY <2>2 DEF Ticket
  <2>4. done \in Ticket /\ done.delivery = ticket.delivery
      BY <2>3 DEF Ticket
  <2>5. PICK next \in Nat : next = old.seen + 1
      BY DEF Completing
  <2>6. PICK proof \in Proof : proof = old.proof /\ Proven(d, proof)
      BY <1>1, <1>2 DEF Completing, SoFar
  <2>7. PICK row \in [version : Nat, proof : Proof] :
            row = [version |-> next, proof |-> proof] /\ row.proof = proof
    <3>1. [version |-> next, proof |-> proof] \in [version : Nat, proof : Proof]
        OBVIOUS
    <3> QED BY <3>1
  <2>8. /\ delivery' = [delivery EXCEPT ![d] = row]
        /\ completion' = [completion EXCEPT ![c] = NoCompletion]
        /\ UNCHANGED <<storageMode, clock, bucket>>
      BY <1>1, <1>2, <1>3, <1>4, <2>5, <2>6, <2>7 DEF CommitProof
  <2>9. tickets' = [tickets EXCEPT ![t] = done]
      BY <1>1, <1>2, <1>3, <1>4, <2>1, <2>2 DEF CommitProof, PhotosInv, PhotosTyped
  <2>10. /\ tickets' \in Seq(Ticket) /\ Len(tickets') = Len(tickets)
         /\ \A s \in 1 .. Len(tickets) : tickets'[s].delivery = tickets[s].delivery
      BY <2>1, <2>4, <2>9 DEF PhotosInv, PhotosTyped
  <2>11. Grown
      BY <2>8, <2>10, BucketType DEF Grown, PhotosInv, PhotosTyped
  <2>12. PhotosTyped' /\ MockKeepsPhotos'
      BY <2>8, <2>10 DEF PhotosInv, PhotosTyped, MockKeepsPhotos, KeptVersion
  <2>13. ASSUME NEW b \in Completions PROVE SoFar(completion[b])'
    <3>1. PICK one : one = completion'[b]
        OBVIOUS
    <3>2. SoFar(one)
        BY <2>8, <3>1 DEF PhotosInv, PhotosTyped, SoFar, NoCompletion
    <3>3. SoFar(one)'
        BY <2>11, <3>2, SoFarStays
    <3> QED BY <3>1, <3>3
  <2>14. ASSUME NEW e \in Deliveries, Delivered(e)' PROVE Proven(e, delivery[e].proof)'
    <3>1. PICK given : given = delivery'[e].proof
        OBVIOUS
    <3>2. Proven(e, given)
      <4>1. CASE e = d
          BY <2>6, <2>7, <2>8, <3>1, <4>1 DEF PhotosInv, PhotosTyped
      <4>2. CASE e # d
          BY <2>8, <2>14, <3>1, <4>2 DEF PhotosInv, PhotosTyped, Delivered
      <4> QED BY <4>1, <4>2
    <3>3. Proven(e, given)'
        BY <2>11, <3>2, ProvenStays
    <3> QED BY <3>1, <3>3
  <2> QED BY <2>12, <2>13, <2>14 DEF PhotosInv
<1>5. CASE ~(delivery[d].version = old.seen /\ tickets[t].version = 1)
    BY <1>1, <1>2, <1>3, <1>5, RefusedKeeps DEF CommitProof
<1> QED BY <1>4, <1>5

LEMMA PhotosStepHolds == PhotosInv /\ [PhotosNext]_photosVars => PhotosInv'
<1> SUFFICES ASSUME PhotosInv, [PhotosNext]_photosVars PROVE PhotosInv'
    OBVIOUS
<1>1. CASE PhotoClock
  <2>1. UNCHANGED <<storageMode, tickets, bucket, delivery, completion>> /\ clock' \in Nat
      BY <1>1 DEF PhotoClock, PhotosInv, PhotosTyped
  <2>2. PhotosTyped' /\ MockKeepsPhotos' /\ Grown
      BY <2>1, SameGrown DEF PhotosInv, PhotosTyped, MockKeepsPhotos, KeptVersion
  <2> QED BY <2>1, <2>2, BucketStep
<1>2. ASSUME NEW d \in Deliveries, NEW type \in PhotoTypes, createDeliveryUpload(d, type)
      PROVE  PhotosInv'
    BY <1>2, CreateKeeps
<1>3. ASSUME NEW t \in DOMAIN tickets, NEW type \in PhotoTypes \union OtherTypes,
             NEW picture \in Pictures,
             PutSigned(t, type, picture) \/ recordMockUpload(t, type, picture)
      PROVE  PhotosInv'
    BY <1>3, UploadKeeps
<1>4. ASSUME NEW c \in Completions, NEW d \in Deliveries, NEW t \in DOMAIN tickets,
             StartCompletion(c, d, t)
      PROVE  PhotosInv'
    BY <1>4, StartKeepsPhotos
<1>5. ASSUME NEW c \in Completions,
             VerifyMock(c) \/ HeadObject(c) \/ GetObject(c) \/ CommitProof(c) \/ VerificationFails(c)
      PROVE  PhotosInv'
    BY <1>5, VerifyMockKeeps, HeadObjectKeeps, GetObjectKeeps, CommitProofKeeps, RefusedKeeps
       DEF VerificationFails
<1>6. CASE UNCHANGED photosVars
  <2>1. UNCHANGED <<storageMode, clock, tickets, bucket, delivery, completion>>
      BY <1>6 DEF photosVars
  <2>2. PhotosTyped' /\ MockKeepsPhotos' /\ Grown
      BY <2>1, SameGrown DEF PhotosInv, PhotosTyped, MockKeepsPhotos, KeptVersion
  <2> QED BY <2>1, <2>2, BucketStep
<1> QED BY <1>1, <1>2, <1>3, <1>4, <1>5, <1>6 DEF PhotosNext

(* A delivered shipment has the proof of its own ticket, of the version    *)
(* looked at, and a photo (completeDelivery, verifyDeliveryProof).         *)
THEOREM ProofsAreSeen == PhotosSpec => []ProofIsWhatWasSeen
<1>1. PhotosInv => ProofIsWhatWasSeen
    BY DEF PhotosInv, ProofIsWhatWasSeen, Proven, OfTicket, IsPhoto
<1> QED BY <1>1, PhotosInitHolds, PhotosStepHolds, PTL DEF PhotosSpec
=============================================================================
