---------------------------- MODULE MCSubsystems ----------------------------
(***************************************************************************)
(* Small instances of the subsystems that share no state in the models,    *)
(* checked by one run of TLC: a behaviour picks one of Subsystems and takes*)
(* its steps, the others stay as they begin.  The names of processes are   *)
(* shared, so that one symmetry serves all of them.                        *)
(***************************************************************************)
EXTENDS Leads, LegacyBackfill, PostgresStore,
        SchemaMigrations, LegacyImport, Originals, MCAccess,
        MemoryStore, WorkerRuntime, Openings, Releases, DeliveryPhotos, Money,
        LossReports, PosSales, BankSync, Accounts, TLC

CONSTANTS
    Subsystems,                   \* those a behaviour may pick
    p1, p2,                       \* processes, requests, sessions, handlers, users
    c1, c2,                       \* transactions of the bank
    m1, u1,                       \* a master, an account to be made
    shop, item, o1, o2            \* store, product and orders of LegacyImport

VARIABLE picked

Symmetry == Permutations({p1, p2})

-----------------------------------------------------------------------------
(* Values of constants.                                                    *)

(* The second and third file sets change or leave out a file of the first. *)
FilesOfReleases ==
    {[v \in {1} |-> "a"], [v \in {1, 2} |-> "a"],
     [v \in {1, 2, 3} |-> IF v = 2 THEN "b" ELSE "a"], [v \in {1, 3} |-> "a"]}

(* Aggregates that are created take the one business key. *)
OneKey(a) == IF a \in Existing THEN {} ELSE StoreKeys
OneMemKey(a) == IF a \in MemSeeded THEN {} ELSE MemKeys

(* No two sets of days sell for the same. *)
PowersOfTwo == [d \in 0 .. LastToday |-> 2 ^ d]

StoreOfOrders == (o1 :> shop) @@ (o2 :> shop)
ProductOfOrders == (o1 :> item) @@ (o2 :> item)

OriginalsOfEvents == [e \in Tellings |-> IF e = "statement" THEN "rendered" ELSE "fetched"]
AppAndSms == <<"app", "sms">>

OpeningTemplate == {[title |-> "lease", storeType |-> "any", offset |-> -2],
                    [title |-> "tables", storeType |-> "table", offset |-> 0],
                    [title |-> "boxes", storeType |-> "takeout", offset |-> 0]}
PlannedDays == {-1, 0}

SomePictures == {[is |-> "jpeg", fits |-> TRUE, which |-> 1], [is |-> "png", fits |-> TRUE, which |-> 1],
                 [is |-> "text", fits |-> TRUE, which |-> 1], [is |-> "jpeg", fits |-> FALSE, which |-> 2]}

-----------------------------------------------------------------------------
(* One subsystem at a time.                                                *)

SubsystemsInit ==
    /\ picked \in Subsystems
    /\ LeadsInit /\ BackfillInit /\ PostgresInit
    /\ MigrationInit /\ ImportInit /\ OriginalsInit /\ AccessInit
    /\ MemInit /\ RuntimeInit /\ OpeningsInit /\ ReleasesInit /\ PhotosInit /\ MoneyInit /\ LossInit
    /\ PosInit /\ BankInit /\ AccountsInit
    \* one beginning for those at rest
    /\ picked # "leads" => \A l \in LeadIds : ~lead[l].advisor
    /\ picked # "access" => policy = NoPolicy
    /\ picked # "photos" => storageMode = "s3"

OthersRest ==
    /\ picked # "leads" => UNCHANGED leadsVars
    /\ picked # "backfill" => UNCHANGED backfillVars
    /\ picked # "postgres" => UNCHANGED postgresVars
    /\ picked # "migrations" => UNCHANGED migrationVars
    /\ picked # "import" => UNCHANGED importVars
    /\ picked # "originals" => UNCHANGED originalsVars
    /\ picked # "access" => UNCHANGED accessVars
    /\ picked # "memory" => UNCHANGED memVars
    /\ picked # "runtime" => UNCHANGED runtimeVars
    /\ picked # "openings" => UNCHANGED openingsVars
    /\ picked # "releases" => UNCHANGED releasesVars
    /\ picked # "photos" => UNCHANGED photosVars
    /\ picked # "money" => UNCHANGED quote
    /\ picked # "loss" => UNCHANGED lossVars
    /\ picked # "merchants" => UNCHANGED posVars
    /\ picked # "bank" => UNCHANGED bankVars
    /\ picked # "accounts" => UNCHANGED accountVars

SubsystemsNext ==
    /\ UNCHANGED picked /\ OthersRest
    /\ \/ picked = "leads" /\ LeadsNext
       \/ picked = "backfill" /\ BackfillNext
       \/ picked = "postgres" /\ PostgresNext
       \/ picked = "migrations" /\ MigrationNext
       \/ picked = "import" /\ ImportNext
       \/ picked = "originals" /\ OriginalsNext
       \/ picked = "access" /\ AccessNext
       \/ picked = "memory" /\ MemNext
       \/ picked = "runtime" /\ RuntimeNext
       \/ picked = "openings" /\ OpeningsNext
       \/ picked = "releases" /\ ReleasesNext
       \/ picked = "photos" /\ PhotosNext
       \/ picked = "money" /\ priceOrderItems
       \/ picked = "loss" /\ LossNext
       \/ picked = "merchants" /\ PosNext
       \/ picked = "bank" /\ BankNext
       \/ picked = "accounts" /\ AccountsNext

allVars == <<picked, leadsVars, backfillVars, postgresVars,
             migrationVars, importVars, originalsVars, accessVars, memVars,
             runtimeVars, openingsVars, releasesVars, photosVars, quote, lossVars, posVars, bankVars,
             accountVars>>

SubsystemsSpec == SubsystemsInit /\ [][SubsystemsNext]_allVars

=============================================================================
