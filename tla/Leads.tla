-------------------------------- MODULE Leads --------------------------------
(***************************************************************************)
(* Franchise leads and the register of stores they open                    *)
(* (packages/db/src/field.ts, the field routes of app.ts).                 *)
(*                                                                         *)
(* A lead goes through six stages.  Between disclosure (2) and contract    *)
(* (3) the law asks for a wait that starts on the day of the disclosure    *)
(* document; opening (4 to 5) registers a store.  A move of a lead reads   *)
(* it, may commit a store, writes the stage and then commits its audit     *)
(* entries, each a transaction of its own; the lead's version is counted   *)
(* and never compared.  Stores are versioned aggregates.                   *)
(***************************************************************************)
EXTENDS Naturals, FiniteSets

CONSTANTS
    LeadIds, StoreIds, FieldUsers,
    NoStore, NoDay,
    LongWait, ShortWait,  \* days of reflection without and with an advisor
    LastDay,              \* bound: days that pass
    MaxMoves,             \* bound: moves of leads begun
    MaxFieldEdits         \* bound: other changes by the users

ASSUME WaitAssumption == LongWait \in Nat /\ ShortWait \in Nat
PosStoreRecord == [version : Nat \ {0}, name : Nat, active : Nat]

ASSUME FieldAssumption == NoStore \notin StoreIds \union PosStoreRecord /\ NoDay \notin Nat

VARIABLES
    lead,        \* franchise_leads
    storeReg,    \* the store aggregates: versions and two fields of theirs
    storeFor,    \* history: the lead each store was registered for
    kstToday,    \* the day in Seoul
    told,        \* history: the field values the committed audits tell
    fieldCall,   \* the request each user is in
    moves, fieldEdits  \* counted for the bounds

leadsVars == <<lead, storeReg, storeFor, kstToday, told, fieldCall, moves, fieldEdits>>

Days == 0 .. LastDay
LastStage == 5
Fields == {"name", "active"}

FranchiseLead ==
    [stage : 0 .. LastStage, docDate : Days \union {NoDay}, advisor : BOOLEAN,
     flag : BOOLEAN, storeId : StoreIds \union {NoStore}, deleted : BOOLEAN]

Idle == [at |-> "idle"]
Enter(u, c) == fieldCall' = [fieldCall EXCEPT ![u] = c]
In(u, at) == fieldCall[u].at = at
FieldEdit == fieldEdits < MaxFieldEdits /\ fieldEdits' = fieldEdits + 1

-----------------------------------------------------------------------------
(* Leads.                                                                  *)

updateLead(u) ==
    /\ In(u, "idle") /\ FieldEdit
    /\ \E l \in LeadIds, day \in Days \union {NoDay}, advisor \in BOOLEAN :
         /\ ~lead[l].deleted
         /\ lead' = [lead EXCEPT ![l].docDate = day, ![l].advisor = advisor]
    /\ UNCHANGED <<storeReg, storeFor, kstToday, told, fieldCall, moves>>

removeLead(u) ==
    /\ In(u, "idle") /\ FieldEdit
    /\ \E l \in LeadIds :
         /\ ~lead[l].deleted
         /\ lead' = [lead EXCEPT ![l].deleted = TRUE]
    /\ UNCHANGED <<storeReg, storeFor, kstToday, told, fieldCall, moves>>

\* coolingGate: the first day on which a contract may be signed.
Gate(r) == r.docDate + IF r.advisor THEN ShortWait ELSE LongWait
Cooled(r) == r.docDate # NoDay /\ kstToday >= Gate(r)

\* The flag of the record made afterwards: the user signs nevertheless.
MayEnterContract(r, override) == r.docDate # NoDay /\ (Cooled(r) \/ override)

getLead(u) ==
    /\ In(u, "idle") /\ moves < MaxMoves
    /\ \E l \in LeadIds, dir \in {"next", "back"}, override \in BOOLEAN :
         LET r == lead[l]
             contract == dir = "next" /\ r.stage = 2
             stage == IF dir = "next" THEN r.stage + 1 ELSE r.stage - 1 IN
         /\ ~r.deleted
         /\ IF dir = "next" THEN r.stage < LastStage ELSE r.stage > 0
         /\ contract => MayEnterContract(r, override)
         /\ Enter(u, [at |-> IF dir = "next" /\ r.stage = 4 /\ r.storeId = NoStore
                             THEN "register" ELSE "move",
                      lead |-> l, stage |-> stage, storeId |-> NoStore,
                      flag |-> r.flag \/ (contract /\ ~Cooled(r))])
    /\ moves' = moves + 1
    /\ UNCHANGED <<lead, storeReg, storeFor, kstToday, told, fieldEdits>>

NewStore == [version |-> 1, name |-> 0, active |-> 0]

CommitStore(s, l) ==
    /\ storeReg[s] = NoStore
    /\ storeReg' = [storeReg EXCEPT ![s] = NewStore]
    /\ storeFor' = [storeFor EXCEPT ![s] = l]
    /\ told' = [told EXCEPT ![s] = [f \in Fields |-> 0]]

KeepStore(old, new) == IF new = NoStore THEN old ELSE new

\* An absolute write: whatever happened since the lead was read.
MoveLead(c) ==
    lead' = IF lead[c.lead].deleted THEN lead
            ELSE [lead EXCEPT ![c.lead].stage = c.stage, ![c.lead].flag = c.flag,
                              ![c.lead].storeId = KeepStore(@, c.storeId)]

\* Variant: the lead is moved first, its store committed afterwards.
RegisterAfterwards(u) ==
    /\ UNCHANGED <<kstToday, moves, fieldEdits>>
    /\ \/ /\ In(u, "register")
          /\ \E s \in StoreIds :
               /\ storeReg[s] = NoStore
               /\ MoveLead([fieldCall[u] EXCEPT !.storeId = s])
               /\ Enter(u, [fieldCall[u] EXCEPT !.at = "commit", !.storeId = s])
          /\ UNCHANGED <<storeReg, storeFor, told>>
       \/ /\ In(u, "commit")
          /\ CommitStore(fieldCall[u].storeId, fieldCall[u].lead)
          /\ Enter(u, Idle)
          /\ UNCHANGED lead

\* The store is committed before the lead says that it has one.
RegisterStore(u) ==
    /\ In(u, "register")
    /\ \E s \in StoreIds :
         /\ CommitStore(s, fieldCall[u].lead)
         /\ Enter(u, [fieldCall[u] EXCEPT !.at = "move", !.storeId = s])
    /\ UNCHANGED <<lead, kstToday, moves, fieldEdits>>

setLeadStage(u) ==
    /\ In(u, "move")
    /\ MoveLead(fieldCall[u])
    /\ Enter(u, Idle)
    /\ UNCHANGED <<storeReg, storeFor, kstToday, told, moves, fieldEdits>>

\* The process dies, or the database does, between two steps of a request.
BreakOff(u) ==
    /\ fieldCall[u].at # "idle"
    /\ Enter(u, Idle)
    /\ UNCHANGED <<lead, storeReg, storeFor, kstToday, told, moves, fieldEdits>>

-----------------------------------------------------------------------------
(* The register of stores.                                                 *)

createStore(u) ==
    /\ In(u, "idle")
    /\ \E s \in StoreIds : CommitStore(s, "none")
    /\ UNCHANGED <<lead, kstToday, fieldCall, moves, fieldEdits>>

\* One field is changed in a copy of the whole record; the version to be
\* replaced is the one the user saw, or else the one just read.
ReadStore(u) ==
    /\ In(u, "idle") /\ FieldEdit
    /\ \E s \in StoreIds, f \in Fields, value \in {0, 1} :
         /\ storeReg[s] # NoStore
         /\ storeReg[s][f] # value
         /\ \E seen \in 1 .. storeReg[s].version :
              Enter(u, [at |-> "patch", store |-> s, expected |-> seen, field |-> f,
                        next |-> [storeReg[s] EXCEPT ![f] = value, !.version = @ + 1]])
    /\ UNCHANGED <<lead, storeReg, storeFor, kstToday, told, moves>>

\* Variant: the last writer wins.
AnyVersion(s, expected) == TRUE

IsCurrent(s, expected) == storeReg[s].version = expected

\* VERSION_CONFLICT when somebody was faster.
PatchStore(u) ==
    /\ In(u, "patch")
    /\ LET c == fieldCall[u] IN
         IF IsCurrent(c.store, c.expected)
         THEN /\ storeReg' = [storeReg EXCEPT ![c.store] = c.next]
              /\ told' = [told EXCEPT ![c.store][c.field] = c.next[c.field]]
         ELSE UNCHANGED <<storeReg, told>>
    /\ Enter(u, Idle)
    /\ UNCHANGED <<lead, storeFor, kstToday, moves, fieldEdits>>

-----------------------------------------------------------------------------
DayPasses ==
    /\ kstToday < LastDay
    /\ kstToday' = kstToday + 1
    /\ UNCHANGED <<lead, storeReg, storeFor, told, fieldCall, moves, fieldEdits>>

LeadsInit ==
    /\ \E advisor \in BOOLEAN :
          lead = [l \in LeadIds |-> [stage |-> 0, docDate |-> NoDay, advisor |-> advisor,
                                     flag |-> FALSE, storeId |-> NoStore, deleted |-> FALSE]]
    /\ storeReg = [s \in StoreIds |-> NoStore]
    /\ storeFor = [s \in StoreIds |-> "none"]
    /\ kstToday = 0
    /\ told = [s \in StoreIds |-> [f \in Fields |-> 0]]
    /\ fieldCall = [u \in FieldUsers |-> Idle]
    /\ moves = 0 /\ fieldEdits = 0

LeadsNext ==
    \/ \E u \in FieldUsers :
          \/ updateLead(u) \/ removeLead(u) \/ getLead(u) \/ RegisterStore(u)
          \/ setLeadStage(u) \/ BreakOff(u) \/ createStore(u) \/ ReadStore(u)
          \/ PatchStore(u)
    \/ DayPasses

LeadsSpec == LeadsInit /\ [][LeadsNext]_leadsVars

-----------------------------------------------------------------------------
\* A lead that is open has a store, registered for it and in the register, also
\* after moves back and forth, moves by two users at once and requests that
\* broke off (the stage route of app.ts, setLeadStage).
OpenedLeadHasStore ==
    \A l \in LeadIds :
        /\ lead[l].stage = LastStage => lead[l].storeId # NoStore
        /\ lead[l].storeId # NoStore =>
              storeReg[lead[l].storeId] # NoStore /\ storeFor[lead[l].storeId] = l

\* A store is what its audit entries say, field by field: no edit is lost to
\* another one made from an older copy (the store route of app.ts, commit).
AuditTellsStore ==
    \A s \in StoreIds : storeReg[s] # NoStore =>
        \A f \in Fields : storeReg[s][f] = told[s][f]

=============================================================================
