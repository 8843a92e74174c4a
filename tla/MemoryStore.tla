----------------------------- MODULE MemoryStore -----------------------------
(***************************************************************************)
(* The store of the demonstration and of the tests (packages/db/src        *)
(* memory-repository.ts).  It is one process: a commit is one step.  A     *)
(* transaction waits for the transactions before it, works on a copy of    *)
(* the whole store and puts the copy back when it ends, so what anybody    *)
(* commits outside transactions while one is open is gone after it - its   *)
(* change, its audit entry and its event together.                         *)
(***************************************************************************)
EXTENDS Naturals, Sequences, Functions

CONSTANTS
    MemAggregates, MemSeeded,  \* aggregates, those there at the start
    MemKeys, MemNoOwner,
    MemKeyOf(_),               \* deriveClaims
    LockKeys,                  \* keys of exclusive transactions
    MemCallers,
    MaxMemVersion,             \* bound: version of an aggregate
    MaxMemCommits              \* bound: commits tried

ASSUME SeededAssumption ==
    /\ MemSeeded \subseteq MemAggregates /\ MemNoOwner \notin MemAggregates
    /\ MaxMemVersion \in Nat
    /\ \A a, b \in MemSeeded : a # b => MemKeyOf(a) \intersect MemKeyOf(b) = {}

VARIABLES
    mem,          \* the maps of the repository
    transactions, \* transactionTail: the one that runs, then those waiting
    exclusives,   \* exclusiveTails, a queue per key
    caller,       \* what each caller is in
    memCommits    \* counted for the bound

memVars == <<mem, transactions, exclusives, caller, memCommits>>

MemRest == [at |-> "rest"]
NoMemLock == "none"

MemInit ==
    /\ mem = [version |-> [a \in MemAggregates |-> IF a \in MemSeeded THEN 1 ELSE 0],
              owner |-> [k \in MemKeys |->
                 IF \E a \in MemSeeded : k \in MemKeyOf(a)
                 THEN CHOOSE a \in MemSeeded : k \in MemKeyOf(a) ELSE MemNoOwner],
              audits |-> <<>>,
              events |-> {}]
    /\ transactions = <<>>
    /\ exclusives = [k \in LockKeys |-> <<>>]
    /\ caller = [c \in MemCallers |-> MemRest]
    /\ memCommits = 0

-----------------------------------------------------------------------------
(* commit: every change or none, of one or two changes.                    *)

MemVersions == 0 .. MaxMemVersion - 1
(* A change states the version its caller read, 0 for a new aggregate. *)
MemChange == [agg : MemAggregates, expected : MemVersions]

(* A new aggregate claims its business keys, for good. *)
applyClaims(m, change) ==
    [m EXCEPT !.owner = [k \in MemKeys |->
        IF k \in MemKeyOf(change.agg) /\ change.expected = 0 THEN change.agg ELSE m.owner[k]]]
Claimed(m, change) ==
    change.expected = 0 /\ \E k \in MemKeyOf(change.agg) : m.owner[k] \notin {MemNoOwner, change.agg}

applyChange(m, change) ==
    [m EXCEPT !.version = [m.version EXCEPT ![change.agg] = change.expected + 1]]
Conflicts(m, change) == m.version[change.agg] # change.expected

(* The audit entry and the event of a change are committed with it. *)
Told(m, change) ==
    LET what == <<change.agg, change.expected + 1>>
    IN [m EXCEPT !.audits = Append(@, what), !.events = @ \union {[of |-> what, status |-> "pending"]}]

Refuses(m, change) == Claimed(m, change) \/ Conflicts(m, change)
Apply(m, change) == Told(applyChange(applyClaims(m, change), change), change)

CommitAll(m, changes) ==
    LET first == Apply(m, changes[1])
    IN IF Refuses(m, changes[1]) THEN m
       ELSE IF Len(changes) = 1 THEN first
       ELSE IF Refuses(first, changes[2]) THEN m
       ELSE Apply(first, changes[2])

MemRequests == {<<x>> : x \in MemChange} \union {<<x, y>> : x, y \in MemChange}
CountCommit == memCommits < MaxMemCommits /\ memCommits' = memCommits + 1
Is(c, at) == caller[c].at = at

(* A commit outside transactions, like those of the worker. *)
PlainCommit(c) ==
    /\ Is(c, "rest") /\ CountCommit
    /\ \E changes \in MemRequests : mem' = CommitAll(mem, changes)
    /\ UNCHANGED <<transactions, exclusives, caller>>

-----------------------------------------------------------------------------
(* transaction, exclusiveTransaction.                                      *)

(* Waits for the transactions before it. *)
Transact(c) ==
    /\ Is(c, "rest")
    /\ transactions' = Append(transactions, c)
    /\ caller' = [caller EXCEPT ![c] = [at |-> "queued", lock |-> NoMemLock]]
    /\ UNCHANGED <<mem, exclusives, memCommits>>

TransactExclusively(c) ==
    /\ Is(c, "rest")
    /\ \E k \in LockKeys :
         /\ exclusives' = [exclusives EXCEPT ![k] = Append(@, c)]
         /\ caller' = [caller EXCEPT ![c] = [at |-> "locking", lock |-> k]]
    /\ UNCHANGED <<mem, transactions, memCommits>>

GetLock(c) ==
    /\ Is(c, "locking") /\ Head(exclusives[caller[c].lock]) = c
    /\ transactions' = Append(transactions, c)
    /\ caller' = [caller EXCEPT ![c].at = "queued"]
    /\ UNCHANGED <<mem, exclusives, memCommits>>

(* structuredClone of every map. *)
BeginTransaction(c) ==
    /\ Is(c, "queued") /\ Head(transactions) = c
    /\ caller' = [caller EXCEPT ![c] = [at |-> "scoped", lock |-> @.lock, copy |-> mem]]
    /\ UNCHANGED <<mem, transactions, exclusives, memCommits>>

(* A refused commit is an error its caller may swallow. *)
ScopedCommit(c) ==
    /\ Is(c, "scoped") /\ CountCommit
    /\ \E changes \in MemRequests :
         caller' = [caller EXCEPT ![c].copy = CommitAll(@, changes)]
    /\ UNCHANGED <<mem, transactions, exclusives>>

Leave(c) ==
    /\ transactions' = Tail(transactions)
    /\ exclusives' = [k \in LockKeys |->
         IF k = caller[c].lock THEN Tail(exclusives[k]) ELSE exclusives[k]]
    /\ caller' = [caller EXCEPT ![c] = MemRest]
    /\ UNCHANGED memCommits

(* Variant: the audit entries are kept in one place for all. *)
PutBackRecords(copy) == [copy EXCEPT !.audits = mem.audits]
PutBack(copy) == copy

EndMemTransaction(c) == Is(c, "scoped") /\ mem' = PutBack(caller[c].copy) /\ Leave(c)
FailTransaction(c) == Is(c, "scoped") /\ UNCHANGED mem /\ Leave(c)

-----------------------------------------------------------------------------
(* The outbox, outside transactions: a claim, which gives up the events    *)
(* tried too often, then the report of the worker.                         *)

SetEvent(e, status) == mem' = [mem EXCEPT !.events = (@ \ {e}) \union {[e EXCEPT !.status = status]}]

ClaimEvent ==
    /\ \E e \in mem.events :
         /\ e.status \in {"pending", "failed", "processing"}
         /\ \E status \in {"processing", "dead_letter"} : SetEvent(e, status)
    /\ UNCHANGED <<transactions, exclusives, caller, memCommits>>

CompleteEvent ==
    /\ \E e \in mem.events :
         e.status = "processing" /\ \E status \in {"completed", "failed", "dead_letter"} : SetEvent(e, status)
    /\ UNCHANGED <<transactions, exclusives, caller, memCommits>>

RequeueEvent ==
    /\ \E e \in mem.events : e.status = "dead_letter" /\ SetEvent(e, "pending")
    /\ UNCHANGED <<transactions, exclusives, caller, memCommits>>

MemNext ==
    \/ \E c \in MemCallers :
         \/ PlainCommit(c) \/ Transact(c) \/ TransactExclusively(c) \/ GetLock(c)
         \/ BeginTransaction(c) \/ ScopedCommit(c) \/ EndMemTransaction(c) \/ FailTransaction(c)
    \/ ClaimEvent \/ CompleteEvent \/ RequeueEvent

MemSpec == MemInit /\ [][MemNext]_memVars

-----------------------------------------------------------------------------
(* Records, business keys, audit entries and events always tell the same   *)
(* story, although whole copies of the store replace each other and undo   *)
(* what was committed beside them: one entry and one event for each change *)
(* since the start, and a key for each aggregate that needs one.           *)
StoreIsOfOnePiece ==
    LET Told1(a) == IF a \in MemSeeded THEN 2 ELSE 1
        Changes == UNION {{<<a, v>> : v \in Told1(a) .. mem.version[a]} : a \in MemAggregates}
    IN /\ {mem.audits[i] : i \in DOMAIN mem.audits} = Changes
       /\ IsInjective(mem.audits)
       /\ {e.of : e \in mem.events} = Changes
       /\ \A a \in MemAggregates, k \in MemKeys :
            k \in MemKeyOf(a) => (mem.version[a] > 0 <=> mem.owner[k] = a)

=============================================================================
