------------------------------- MODULE Openings -------------------------------
(***************************************************************************)
(* Projects of stores about to open (packages/db/src/openings.ts, the      *)
(* openings routes of app.ts).                                             *)
(*                                                                         *)
(* A project is created with the tasks of the template that fit its kind   *)
(* of store, in one transaction; what is due is never stored, it follows   *)
(* from the day of the opening.  Users tick tasks, add some of their own,  *)
(* move the project and its day; every write is absolute and nothing is    *)
(* compared with what the user saw.                                        *)
(***************************************************************************)
EXTENDS Integers, FiniteSets

CONSTANTS
    Projects, Titles,   \* openings; tasks users add
    Planners,           \* users
    StoreTypes,
    Template,           \* OPENING_TEMPLATE: records of title, storeType, offset
    AnyType, NoProject,
    OpeningDays,        \* days an opening may be planned for
    LastOpeningDay,     \* bound: days that pass
    MaxOpeningEdits     \* bound: changes by the users

ASSUME TemplateAssumption ==
    /\ \A item \in Template :
         item.storeType \in StoreTypes \union {AnyType} /\ item.offset \in Int /\ item.offset <= 0
    /\ Titles \intersect {item.title : item \in Template} = {}
    /\ OpeningDays \subseteq Int

VARIABLES
    opening,      \* store_openings
    tasks,        \* store_opening_tasks
    planner,      \* the request each user is in, with its open transaction
    openingDay,   \* seoulToday
    openingEdits  \* counted for the bound

openingsVars == <<opening, tasks, planner, openingDay, openingEdits>>

OpeningStages == {"consulting", "active", "on_hold", "done"}
templateFor(storeType) == {item \in Template : item.storeType \in {AnyType, storeType}}

NewTask(o, item, custom) ==
    [opening |-> o, title |-> item.title, offset |-> item.offset, custom |-> custom,
     done |-> FALSE, doneBy |-> "nobody"]

Planning(p, at) == planner[p].at = at
Rested == [at |-> "rest"]
CountEdit == openingEdits < MaxOpeningEdits /\ openingEdits' = openingEdits + 1

-----------------------------------------------------------------------------
(* create: the project, then its tasks one by one, then COMMIT.            *)

create(p) ==
    /\ Planning(p, "rest") /\ CountEdit
    /\ \E o \in Projects, type \in StoreTypes, day \in OpeningDays, stage \in {"consulting", "active"} :
         /\ opening[o] = NoProject /\ \A q \in Planners : Planning(q, "create") => planner[q].opening # o
         /\ planner' = [planner EXCEPT ![p] =
              [at |-> "create", opening |-> o, tasks |-> {},
               row |-> [storeType |-> type, openDate |-> day, stage |-> stage, confirmed |-> FALSE]]]
    /\ UNCHANGED <<opening, tasks, openingDay>>

ItemsLeft(p) ==
    {item \in templateFor(planner[p].row.storeType) :
        NewTask(planner[p].opening, item, FALSE) \notin planner[p].tasks}

(* Variant: every statement is committed on its own. *)
CommitsAtOnce(p) == TRUE
CommitsNow(p) == ItemsLeft(p) = {}

InsertTask(p) ==
    /\ Planning(p, "create")
    /\ IF CommitsNow(p)
       THEN /\ opening' = [opening EXCEPT ![planner[p].opening] = planner[p].row]
            /\ tasks' = tasks \union planner[p].tasks
       ELSE UNCHANGED <<opening, tasks>>
    /\ IF ItemsLeft(p) = {}
       THEN planner' = [planner EXCEPT ![p] = Rested]
       ELSE \E item \in ItemsLeft(p) :
              planner' = [planner EXCEPT ![p].tasks = @ \union {NewTask(planner[p].opening, item, FALSE)}]
    /\ UNCHANGED <<openingDay, openingEdits>>

OpeningRollback(p) ==
    /\ Planning(p, "create")
    /\ planner' = [planner EXCEPT ![p] = Rested]
    /\ UNCHANGED <<opening, tasks, openingDay, openingEdits>>

-----------------------------------------------------------------------------
(* The other requests are one statement each.                              *)

OldOpening == {o \in Projects : opening[o] # NoProject}

confirmOpen(p) ==
    /\ Planning(p, "rest") /\ CountEdit
    /\ \E o \in OldOpening :
         opening' = [opening EXCEPT ![o].confirmed = TRUE, ![o].stage = "done"]
    /\ UNCHANGED <<tasks, planner, openingDay>>

setStage(p) ==
    /\ Planning(p, "rest") /\ CountEdit
    /\ \E o \in OldOpening, stage \in OpeningStages : opening' = [opening EXCEPT ![o].stage = stage]
    /\ UNCHANGED <<tasks, planner, openingDay>>

reschedule(p) ==
    /\ Planning(p, "rest") /\ CountEdit
    /\ \E o \in OldOpening, day \in OpeningDays : opening' = [opening EXCEPT ![o].openDate = day]
    /\ UNCHANGED <<tasks, planner, openingDay>>

toggleTask(p) ==
    /\ Planning(p, "rest") /\ CountEdit
    /\ \E task \in tasks, done \in BOOLEAN :
         tasks' = (tasks \ {task}) \union
             {[task EXCEPT !.done = done, !.doneBy = IF done THEN p ELSE "nobody"]}
    /\ UNCHANGED <<opening, planner, openingDay>>

addTask(p) ==
    /\ Planning(p, "rest") /\ CountEdit
    /\ \E o \in OldOpening, title \in Titles, offset \in {-1, 1} :
         /\ \A task \in tasks : task.title # title
         /\ tasks' = tasks \union {NewTask(o, [title |-> title, offset |-> offset], TRUE)}
    /\ UNCHANGED <<opening, planner, openingDay>>

(* The routes: the first of the three changes that the request names. *)
PatchOpening(p) == confirmOpen(p) \/ setStage(p) \/ reschedule(p)
PatchTasks(p) == toggleTask(p) \/ addTask(p)

DayBreaks ==
    /\ openingDay < LastOpeningDay
    /\ openingDay' = openingDay + 1
    /\ UNCHANGED <<opening, tasks, planner, openingEdits>>

-----------------------------------------------------------------------------
(* decorateTasks, summarize, groupRows: what a board of one day shows.     *)

Deadline(row, task) == row.openDate + task.offset
Overdue(row, task, today) == row.stage = "active" /\ ~task.done /\ Deadline(row, task) < today

TasksOf(o) == {task \in tasks : task.opening = o}
Summary(o, today) ==
    [total |-> Cardinality(TasksOf(o)),
     done |-> Cardinality({task \in TasksOf(o) : task.done}),
     overdue |-> Cardinality({task \in TasksOf(o) : Overdue(opening[o], task, today)})]

OpeningsInit ==
    /\ opening = [o \in Projects |-> NoProject]
    /\ tasks = {}
    /\ planner = [p \in Planners |-> Rested]
    /\ openingDay = 0
    /\ openingEdits = 0

OpeningsNext ==
    \/ \E p \in Planners :
         create(p) \/ InsertTask(p) \/ OpeningRollback(p) \/ PatchOpening(p) \/ PatchTasks(p)
    \/ DayBreaks

OpeningsSpec == OpeningsInit /\ [][OpeningsNext]_openingsVars

-----------------------------------------------------------------------------
(* When the day of an active project has passed and its board shows        *)
(* nothing late, the whole template of its kind of store has been done,    *)
(* whoever broke off while creating it, moved it to another day or took    *)
(* back a tick (create, toggleTask, decorateTasks).                        *)
NothingLateIsReady ==
    \A o \in OldOpening :
        opening[o].stage = "active" /\ opening[o].openDate < openingDay
            /\ Summary(o, openingDay).overdue = 0
        => \A item \in templateFor(opening[o].storeType) :
              \E task \in TasksOf(o) : task.title = item.title /\ task.done
=============================================================================
