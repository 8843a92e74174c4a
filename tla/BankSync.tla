------------------------------ MODULE BankSync ------------------------------
(***************************************************************************)
(* The credits of the bank account come into the books by jobs of the      *)
(* provider: the schedule asks for each day once (runScheduled), finance   *)
(* for any period of the last months (requestBankSync).  A handler has the *)
(* provider collect the period, waits for the job, reads its result page   *)
(* by page (fetchBankTransactions of popbill.ts) and imports it in one     *)
(* transaction (syncBankTransactions of worker.ts).  Days are those of     *)
(* Seoul.  The matching in the same transaction is in OrderFulfilment; the *)
(* leases and the limit of attempts of the outbox are in Outbox: here an   *)
(* unfinished event may always be handled again, also by a second worker   *)
(* while the first is still at it.                                         *)
(***************************************************************************)
EXTENDS Integers, Sequences, FiniteSets, SequencesExt

CONSTANTS
    Credits,         \* transactions of the bank
    Importers,       \* workers
    LookBack,        \* days back that finance may ask for
    LongestPeriod,   \* days it may ask for at once
    PageSize,        \* transactions on a page
    LastBankDay,     \* bound: days
    MaxSyncs,        \* bound: synchronisations asked for
    MaxImports       \* bound: handlings of events

ASSUME BankAssumption ==
    /\ LookBack \in Nat /\ LongestPeriod \in Nat \ {0} /\ PageSize \in Nat \ {0}
    /\ LastBankDay \in Nat /\ MaxSyncs \in Nat /\ MaxImports \in Nat

VARIABLES
    bankDay,         \* today
    posted,          \* day of each credit that the bank has posted
    syncs,           \* the events bank.sync.requested
    syncedDays,      \* days of the ledger of the schedule
    importer,        \* what each worker is at
    bankBooks,       \* credits that were imported
    imports          \* handlings so far

bankVars == <<bankDay, posted, syncs, syncedDays, importer, bankBooks, imports>>

ImporterIdle == [at |-> "idle", sync |-> 0, result |-> <<>>, page |-> 1, fetched |-> {}]
ImporterAt(w, at) == importer[w].at = at
SyncOf(w) == syncs[importer[w].sync]
Between(from, to) == {c \in DOMAIN posted : posted[c] \in from .. to}

BankInit ==
    /\ bankDay = 0
    /\ posted = <<>>
    /\ syncs = <<>>
    /\ syncedDays = {}
    /\ importer = [w \in Importers |-> ImporterIdle]
    /\ bankBooks = {}
    /\ imports = 0

-----------------------------------------------------------------------------
(* The bank, the schedule and finance.                                     *)

(* The bank gives each credit an identifier of its own; which makes no     *)
(* difference.                                                             *)
NewCredit == CHOOSE c \in Credits : c \notin DOMAIN posted

PostCredit ==
    /\ Credits # DOMAIN posted
    /\ posted' = [d \in DOMAIN posted \union {NewCredit} |->
                    IF d = NewCredit THEN bankDay ELSE posted[d]]
    /\ UNCHANGED <<bankDay, syncs, syncedDays, importer, bankBooks, imports>>

BankDayPasses ==
    /\ bankDay < LastBankDay
    /\ bankDay' = bankDay + 1
    /\ UNCHANGED <<posted, syncs, syncedDays, importer, bankBooks, imports>>

(* shown: what the bank shows of the period when it is asked for. *)
QueueSync(from, to) ==
    /\ Len(syncs) < MaxSyncs
    /\ syncs' = Append(syncs, [from |-> from, to |-> to, done |-> FALSE,
                               holder |-> "none", shown |-> Between(from, to)])

(* Once for each day, by whichever worker is first. *)
ScheduleSync ==
    /\ bankDay \notin syncedDays
    /\ syncedDays' = syncedDays \union {bankDay}
    /\ QueueSync(bankDay, bankDay)
    /\ UNCHANGED <<bankDay, posted, importer, bankBooks, imports>>

requestBankSync(from, to) ==
    /\ from <= to /\ to - from < LongestPeriod
    /\ to <= bankDay /\ from >= bankDay - LookBack
    /\ QueueSync(from, to)
    /\ UNCHANGED <<bankDay, posted, syncedDays, importer, bankBooks, imports>>

-----------------------------------------------------------------------------
(* The handler.                                                            *)

SetImporter(w, next) == importer' = [importer EXCEPT ![w] = next]

(* handle: a claimed event asks the provider for a job. *)
requestJob(w, e) ==
    /\ ImporterAt(w, "idle") /\ ~syncs[e].done /\ imports < MaxImports
    /\ imports' = imports + 1
    /\ syncs' = [syncs EXCEPT ![e].holder = w]
    /\ SetImporter(w, [ImporterIdle EXCEPT !.at = "poll", !.sync = e])
    /\ UNCHANGED <<bankDay, posted, syncedDays, bankBooks>>

(* The provider collects the period, in the order it likes, and the worker *)
(* finds the job in state 3.                                               *)
getJobState(w) ==
    /\ ImporterAt(w, "poll")
    /\ \E result \in SetToSeqs(Between(SyncOf(w).from, SyncOf(w).to)) :
         SetImporter(w, [importer[w] EXCEPT !.at = "search", !.result = result])
    /\ UNCHANGED <<bankDay, posted, syncs, syncedDays, bankBooks, imports>>

(* An empty result has one page. *)
PageCount(result) == IF result = <<>> THEN 1 ELSE (Len(result) + PageSize - 1) \div PageSize
PageOf(result, page) ==
    {result[i] : i \in {n \in DOMAIN result : (n - 1) \div PageSize = page - 1}}

(* Variant: the first page is taken for the result. *)
FirstPage(result, page) == TRUE
IsLastPage(result, page) == page >= PageCount(result)

searchBankTransactions(w) ==
    /\ ImporterAt(w, "search")
    /\ LET job == importer[w]
       IN SetImporter(w, [job EXCEPT
              !.fetched = @ \union PageOf(job.result, job.page), !.page = @ + 1,
              !.at = IF IsLastPage(job.result, job.page) THEN "import" ELSE "search"])
    /\ UNCHANGED <<bankDay, posted, syncs, syncedDays, bankBooks, imports>>

(* Every transaction claims the id of the provider; one that was imported  *)
(* before is passed over in the code, but PostgreSQL has aborted the       *)
(* transaction with the claim, so nothing is imported and the event fails. *)
importTransactions(w) ==
    /\ ImporterAt(w, "import")
    /\ IF importer[w].fetched \intersect bankBooks = {}
       THEN /\ bankBooks' = bankBooks \union importer[w].fetched
            /\ SetImporter(w, [importer[w] EXCEPT !.at = "complete"])
       ELSE UNCHANGED bankBooks /\ SetImporter(w, ImporterIdle)
    /\ UNCHANGED <<bankDay, posted, syncs, syncedDays, imports>>

(* completeOutbox counts for the worker that claimed the event last. *)
completeSync(w) ==
    /\ ImporterAt(w, "complete")
    /\ syncs' = [syncs EXCEPT ![importer[w].sync].done = @ \/ SyncOf(w).holder = w]
    /\ SetImporter(w, ImporterIdle)
    /\ UNCHANGED <<bankDay, posted, syncedDays, bankBooks, imports>>

(* The job fails or takes too long, an answer of the provider is late or   *)
(* refused (a page count, an amount, a direction or a time that cannot be),*)
(* a statement fails, or the worker dies.  A call that was given up goes   *)
(* on, but nobody waits for its answer.                                    *)
syncFails(w) ==
    /\ ~ImporterAt(w, "idle")
    /\ SetImporter(w, ImporterIdle)
    /\ UNCHANGED <<bankDay, posted, syncs, syncedDays, bankBooks, imports>>

BankNext ==
    \/ PostCredit
    \/ BankDayPasses
    \/ ScheduleSync
    \/ \E from, to \in 0 .. bankDay : requestBankSync(from, to)
    \/ \E w \in Importers :
         \/ \E e \in DOMAIN syncs : requestJob(w, e)
         \/ getJobState(w) \/ searchBankTransactions(w) \/ importTransactions(w)
         \/ completeSync(w) \/ syncFails(w)

BankSpec == BankInit /\ [][BankNext]_bankVars

-----------------------------------------------------------------------------
(* A synchronisation that is done has imported all the bank had posted of  *)
(* its days when it was asked for: neither a result of several pages, nor  *)
(* a second handler or an overlapping period that makes the import fail,   *)
(* lets it count as done with less (fetchBankTransactions,                 *)
(* syncBankTransactions).                                                  *)
SyncedIsImported ==
    \A e \in DOMAIN syncs : syncs[e].done => syncs[e].shown \subseteq bankBooks
=============================================================================
