---------------------------- MODULE WorkerRuntime ----------------------------
(***************************************************************************)
(* The loop of a worker process and its scheduler (apps/worker/src         *)
(* runtime.ts, runScheduled of worker.ts) and what /ready says of it.      *)
(*                                                                         *)
(* A cycle writes a heartbeat, queues the events whose slot has come and   *)
(* handles a batch of the outbox; a failure of one part is reported and    *)
(* the next part runs.  Timer ticks find a cycle under way and leave.      *)
(* Several workers overlap during a deployment, each may be asked to stop  *)
(* or be killed at any point, and queueing a slot reads its ledger entry   *)
(* and commits under a lock of that slot.                                  *)
(***************************************************************************)
EXTENDS Naturals, Sequences, SequencesExt

CONSTANTS
    Hosts,                     \* worker processes, named by WORKER_ID
    NoBeat,
    DayLength,                 \* minutes of a day
    InvoiceEvery, PosEvery,    \* minutes between two slots
    BankSyncReady,             \* the configuration asks for bank synchronisation
    BeatTtl,                   \* minutes a heartbeat is good for
    MaxMinute,                 \* bound: minutes that pass
    MaxRuntimeFaults           \* bound: failed statements, kills and stops

ASSUME SlotAssumption ==
    /\ DayLength \in Nat \ {0} /\ InvoiceEvery \in Nat \ {0} /\ PosEvery \in Nat \ {0}
    /\ BankSyncReady \in BOOLEAN

VARIABLES
    host,     \* the process of each worker
    beats,    \* worker_heartbeats
    queued,   \* admin_invariant ledger entries, each committed with its event
    minute,
    runtimeFaults  \* counted for the bound

runtimeVars == <<host, beats, queued, minute, runtimeFaults>>

Off == [on |-> FALSE]
Slot(topic, at) == [topic |-> topic, at |-> at]

(* seoulCalendar: the day of a moment in Seoul. *)
SeoulDay(now) == now \div DayLength

(* runScheduled: in this order.  A month, like a run of the model, has one *)
(* monthly close.                                                          *)
DueSlots(now) ==
    <<Slot("settlement.monthly_close", 0)>>
    \o (IF BankSyncReady THEN <<Slot("bank.sync", SeoulDay(now))>> ELSE <<>>)
    \o (IF now % InvoiceEvery = 0 THEN <<Slot("invoice.reconcile", now)>> ELSE <<>>)
    \o (IF now % PosEvery = 0 THEN <<Slot("pos.sync", now)>> ELSE <<>>)

On(h) == host[h].on
Cycle(h, at) == On(h) /\ host[h].cycle = at
Fault == runtimeFaults < MaxRuntimeFaults /\ runtimeFaults' = runtimeFaults + 1
WriteBeat(h, state) ==
    beats' = [beats EXCEPT ![h] = [state |-> state, observedAt |-> host[h].now,
                                   leaseExpiresAt |-> host[h].now + BeatTtl]]

-----------------------------------------------------------------------------
(* start, tick, runCycle.                                                  *)

(* main: the first tick comes before the timer is set. *)
start(h) ==
    /\ ~On(h)
    /\ host' = [host EXCEPT ![h] = [on |-> TRUE, timer |-> FALSE, stopping |-> FALSE,
                                    stop |-> "no", cycle |-> "beat", now |-> minute,
                                    todo |-> <<>>, broken |-> FALSE, unseen |-> FALSE]]
    /\ UNCHANGED <<beats, queued, minute, runtimeFaults>>

tick(h) ==
    /\ Cycle(h, "none") /\ host[h].timer /\ ~host[h].stopping
    /\ host' = [host EXCEPT ![h].cycle = "beat", ![h].now = minute]
    /\ UNCHANGED <<beats, queued, minute, runtimeFaults>>

(* The heartbeat, written or not; then the time of the schedule is taken.  *)
heartbeat(h) ==
    /\ Cycle(h, "beat")
    /\ \/ WriteBeat(h, "running") /\ UNCHANGED runtimeFaults
       \/ Fault /\ UNCHANGED beats
    /\ host' = [host EXCEPT ![h].cycle = "schedule", ![h].now = minute,
                            ![h].todo = DueSlots(minute), ![h].broken = FALSE]
    /\ UNCHANGED <<queued, minute>>

LockFree(slot) == \A h \in Hosts : Cycle(h, "enqueue") => Head(host[h].todo) # slot

(* Variant: no lock of the slot is taken. *)
NoLock(slot) == TRUE
SlotIsFree(slot) == LockFree(slot)

(* enqueueScheduledEvent: lock the slot and look whether it was queued.    *)
LockSlot(h) ==
    /\ Cycle(h, "schedule") /\ host[h].todo # <<>> /\ SlotIsFree(Head(host[h].todo))
    /\ host' = IF Head(host[h].todo) \in queued
               THEN [host EXCEPT ![h].todo = Tail(@)]
               ELSE [host EXCEPT ![h].cycle = "enqueue"]
    /\ UNCHANGED <<beats, queued, minute, runtimeFaults>>

(* Ledger entry, audit entry and event, or the whole schedule is given up. *)
commitSlot(h) ==
    /\ Cycle(h, "enqueue")
    /\ LET slot == Head(host[h].todo) IN
         IF slot \in queued
         THEN host' = [host EXCEPT ![h].cycle = "process"] /\ UNCHANGED queued
         ELSE /\ host' = [host EXCEPT ![h].cycle = "schedule", ![h].todo = Tail(@)]
              /\ queued' = queued \union {slot}
    /\ UNCHANGED <<beats, minute, runtimeFaults>>

ScheduleFails(h) ==
    /\ Cycle(h, "schedule") \/ Cycle(h, "enqueue")
    /\ Fault
    /\ host' = [host EXCEPT ![h].cycle = "process", ![h].broken = TRUE]
    /\ UNCHANGED <<beats, queued, minute>>

ScheduleDone(h) ==
    /\ Cycle(h, "schedule") /\ host[h].todo = <<>>
    /\ host' = [host EXCEPT ![h].cycle = "process"]
    /\ UNCHANGED <<beats, queued, minute, runtimeFaults>>

(* The batch of the outbox, see Outbox; start sets the timer after the     *)
(* first cycle.                                                            *)
processOnce(h) ==
    /\ Cycle(h, "process")
    /\ host' = [host EXCEPT ![h].cycle = "none", ![h].timer = ~host[h].stopping]
    /\ UNCHANGED <<beats, queued, minute, runtimeFaults>>

-----------------------------------------------------------------------------
(* stop, on a signal: no more ticks, the cycle under way ends, then the    *)
(* last heartbeat, then the repository is closed.                          *)

stop(h) ==
    /\ On(h) /\ ~host[h].stopping /\ Fault
    /\ host' = [host EXCEPT ![h].stopping = TRUE, ![h].timer = FALSE, ![h].stop = "waiting"]
    /\ UNCHANGED <<beats, queued, minute>>

(* Variant: the cycle under way is not waited for. *)
NoWait(h) == host[h].stop = "waiting"
CycleOver(h) == host[h].stop = "waiting" /\ host[h].cycle = "none"

stopGracefully(h) ==
    /\ On(h) /\ CycleOver(h)
    /\ host' = [host EXCEPT ![h].stop = "beat", ![h].now = minute]
    /\ UNCHANGED <<beats, queued, minute, runtimeFaults>>

LastBeat(h) ==
    /\ On(h) /\ host[h].stop = "beat"
    /\ \/ /\ WriteBeat(h, "stopping") /\ UNCHANGED runtimeFaults
          /\ host' = [host EXCEPT ![h].stop = "closed"]
       \/ /\ Fault /\ UNCHANGED beats
          /\ host' = [host EXCEPT ![h].stop = "closed", ![h].unseen = TRUE]
    /\ UNCHANGED <<queued, minute>>

Exit(h) ==
    /\ On(h) /\ host[h].stop = "closed" /\ host[h].cycle = "none"
    /\ host' = [host EXCEPT ![h] = Off]
    /\ UNCHANGED <<beats, queued, minute, runtimeFaults>>

Killed(h) ==
    /\ On(h) /\ Fault
    /\ host' = [host EXCEPT ![h] = Off]
    /\ UNCHANGED <<beats, queued, minute>>

MinutePasses ==
    /\ minute < MaxMinute
    /\ minute' = minute + 1
    /\ UNCHANGED <<host, beats, queued, runtimeFaults>>

RuntimeInit ==
    /\ host = [h \in Hosts |-> Off]
    /\ beats = [h \in Hosts |-> NoBeat]
    /\ queued = {}
    /\ minute = 0
    /\ runtimeFaults = 0

HostStep(h) ==
    \/ start(h) \/ tick(h) \/ heartbeat(h) \/ LockSlot(h) \/ commitSlot(h)
    \/ ScheduleFails(h) \/ ScheduleDone(h) \/ processOnce(h)
    \/ stop(h) \/ stopGracefully(h) \/ LastBeat(h) \/ Exit(h) \/ Killed(h)

RuntimeNext == (\E h \in Hosts : HostStep(h)) \/ MinutePasses

RuntimeSpec == RuntimeInit /\ [][RuntimeNext]_runtimeVars

-----------------------------------------------------------------------------
(* checkReadiness: what the latest heartbeat says.                         *)
Latest(h) ==
    beats[h] # NoBeat /\ \A g \in Hosts : beats[g] # NoBeat => beats[g].observedAt <= beats[h].observedAt
ReadyBy(h) == Latest(h) /\ beats[h].state = "running" /\ beats[h].leaseExpiresAt > minute

(* A scheduler that no statement failed has every slot due at its time in  *)
(* the queue when it ends, whatever other workers queue meanwhile: nobody  *)
(* makes another's schedule stop halfway (runScheduled, which gives up at  *)
(* the first error).                                                       *)
ScheduleIsWhole ==
    \A h \in Hosts :
        Cycle(h, "process") /\ ~host[h].broken => ToSet(DueSlots(host[h].now)) \subseteq queued

(* A worker that closed its repository is in no cycle any more, and no     *)
(* heartbeat of an earlier cycle still says that it runs: readiness does   *)
(* not rest on it (stopGracefully, checkReadiness).                        *)
StoppedIsStopped ==
    \A h \in Hosts : On(h) /\ host[h].stop = "closed" =>
        /\ host[h].cycle = "none"
        /\ ReadyBy(h) => host[h].unseen
=============================================================================
