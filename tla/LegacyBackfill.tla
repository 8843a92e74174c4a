--------------------------- MODULE LegacyBackfill ---------------------------
(***************************************************************************)
(* The manual backfill of a store's sales in server/server.js: a job over  *)
(* the last years fetches month after month, keeps its place and its       *)
(* totals, stops at the first error or when the process dies, and goes on  *)
(* from its place when the same period is asked for again.                 *)
(*                                                                         *)
(* One store; months of MonthLength days; the period of a job is counted   *)
(* in days back from the day it is made.  A job is told apart by its       *)
(* period and the day of its making.                                       *)
(***************************************************************************)
EXTENDS Integers, FiniteSetsExt

CONSTANTS
    Years,         \* the periods on offer, in days
    OpenDay,       \* the day the store opened
    FirstToday, LastToday,  \* bound: days on which jobs are made
    RevenueOn,     \* what was sold each day, less what was refunded
    MonthLength,
    MaxRestarts,   \* bound: deaths of the process
    MaxPosErrors   \* bound: failed fetches

ASSUME PeriodAssumption ==
    /\ Years \subseteq Nat \ {0} /\ MonthLength \in Nat \ {0}
    /\ OpenDay \in Nat /\ FirstToday \in Nat /\ LastToday \in Nat /\ FirstToday <= LastToday
    /\ RevenueOn \in [0 .. LastToday -> Int]

VARIABLES
    kstDay,       \* today
    jobs,         \* pos_backfills, by period and day of making
    fetching,     \* what the runner waits for: the days of a month, or none
    savedDays,    \* days whose rows are in pos_sales
    restarts, posErrors  \* counted for the bounds

backfillVars == <<kstDay, jobs, fetching, savedDays, restarts, posErrors>>

JobIds == Years \X (FirstToday .. LastToday)
Max2(a, b) == IF a > b THEN a ELSE b
Min2(a, b) == IF a < b THEN a ELSE b

RevenueOfDays(D) == MapThenSumSet(LAMBDA d : RevenueOn[d], D)

\* today, the period back from it, not before the store opened.
backfillBounds(y, today) ==
    LET from == today + 1 - Min2(y, today + 1) IN
    [from |-> IF OpenDay <= today THEN Max2(from, OpenDay) ELSE from, to |-> today]

NoJob == [status |-> "none"]

Made(j) == jobs[j].status # "none"
TotalDays(j) == jobs[j].to + 1 - jobs[j].from

\* The days from d to the end of its month, no later than the job's last.
Chunk(d, to) == d .. Min2(to, d + MonthLength - 1 - (d % MonthLength))

-----------------------------------------------------------------------------
(* The route: one job of the store at a time.                              *)

NoneActive == \A j \in JobIds : jobs[j].status \notin {"queued", "running"}

Interrupted(y) == {j \in JobIds : j[1] = y /\ jobs[j].status = "interrupted"}

Newest(J) == CHOOSE j \in J : \A i \in J : i[2] <= j[2]

PostBackfill(y) ==
    /\ NoneActive
    /\ IF Interrupted(y) # {}
       THEN jobs' = [jobs EXCEPT ![Newest(Interrupted(y))].status = "queued"]
       ELSE LET b == backfillBounds(y, kstDay) IN
            /\ ~Made(<<y, kstDay>>)  \* bound: one new job a day and period
            /\ jobs' = [jobs EXCEPT ![<<y, kstDay>>] =
                          [status |-> "queued", from |-> b.from, to |-> b.to, next |-> b.from,
                           completed |-> 0, revenue |-> 0]]
    /\ UNCHANGED <<kstDay, fetching, savedDays, restarts, posErrors>>

-----------------------------------------------------------------------------
(* runManualBackfill.                                                      *)

StartJob(j) ==
    /\ jobs[j].status = "queued"
    /\ jobs' = [jobs EXCEPT ![j].status = "running"]
    /\ UNCHANGED <<kstDay, fetching, savedDays, restarts, posErrors>>

FetchMonth(j) ==
    /\ jobs[j].status = "running" /\ fetching = {}
    /\ jobs[j].next <= jobs[j].to
    /\ fetching' = Chunk(jobs[j].next, jobs[j].to)
    /\ UNCHANGED <<kstDay, jobs, savedDays, restarts, posErrors>>

WithMonth(job, D) ==
    [job EXCEPT !.next = @ + Cardinality(D), !.completed = @ + Cardinality(D),
                !.revenue = @ + RevenueOfDays(D)]

SaveMonth(j) ==
    /\ jobs[j].status = "running" /\ fetching # {}
    /\ savedDays' = savedDays \union fetching
    /\ jobs' = [jobs EXCEPT ![j] = WithMonth(@, fetching)]
    /\ fetching' = {}
    /\ UNCHANGED <<kstDay, restarts, posErrors>>

\* Variant: the month that failed is passed over.
StoppedPast(job) == [WithMonth(job, fetching) EXCEPT !.status = "interrupted"]

Stopped(job) == [job EXCEPT !.status = "interrupted"]

\* A day is saved by itself: the ones before the failure stay, uncounted.
SomeDays == {{}} \union {{d \in fetching : d <= last} : last \in fetching}

MonthFails(j) ==
    /\ jobs[j].status = "running" /\ fetching # {}
    /\ posErrors < MaxPosErrors /\ posErrors' = posErrors + 1
    /\ \E D \in SomeDays : savedDays' = savedDays \union D
    /\ jobs' = [jobs EXCEPT ![j] = Stopped(@)]
    /\ fetching' = {}
    /\ UNCHANGED <<kstDay, restarts>>

FinishJob(j) ==
    /\ jobs[j].status = "running" /\ fetching = {}
    /\ jobs[j].next > jobs[j].to
    /\ jobs' = [jobs EXCEPT ![j].status = "done", ![j].completed = TotalDays(j)]
    /\ UNCHANGED <<kstDay, fetching, savedDays, restarts, posErrors>>

-----------------------------------------------------------------------------
Halted(all) ==
    [j \in JobIds |-> IF all[j].status \in {"queued", "running"}
                      THEN Stopped(all[j]) ELSE all[j]]

\* The process dies and starts again: no job is active any more.
RestartServer ==
    /\ restarts < MaxRestarts /\ restarts' = restarts + 1
    /\ \E D \in SomeDays : savedDays' = savedDays \union D
    /\ jobs' = Halted(jobs)
    /\ fetching' = {}
    /\ UNCHANGED <<kstDay, posErrors>>

BackfillDayPasses ==
    /\ kstDay < LastToday /\ kstDay' = kstDay + 1
    /\ UNCHANGED <<jobs, fetching, savedDays, restarts, posErrors>>

BackfillInit ==
    /\ kstDay = FirstToday
    /\ jobs = [j \in JobIds |-> NoJob]
    /\ fetching = {} /\ savedDays = {}
    /\ restarts = 0 /\ posErrors = 0

RunnerStep ==
    \E j \in JobIds : StartJob(j) \/ FetchMonth(j) \/ SaveMonth(j) \/ FinishJob(j)

BackfillNext ==
    \/ \E y \in Years : PostBackfill(y)
    \/ RunnerStep
    \/ \E j \in JobIds : MonthFails(j)
    \/ RestartServer \/ BackfillDayPasses

\* launchManualBackfill.
BackfillSpec == BackfillInit /\ [][BackfillNext]_backfillVars /\ WF_backfillVars(RunnerStep)

-----------------------------------------------------------------------------
(* Properties.                                                             *)

\* The totals of a job are those of the days before its place, each of them saved
\* and counted once, however often it was interrupted between a saved day and the
\* count, and taken up again on a later day (runManualBackfill's next_date).
BackfillIsWhole ==
    \A j \in JobIds : Made(j) =>
        LET past == jobs[j].from .. (jobs[j].next - 1) IN
        /\ past \subseteq savedDays
        /\ jobs[j].completed = Cardinality(past)
        /\ jobs[j].revenue = RevenueOfDays(past)
        /\ jobs[j].status = "done" => jobs[j].next = jobs[j].to + 1

=============================================================================
