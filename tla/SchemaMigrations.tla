-------------------------- MODULE SchemaMigrations --------------------------
(***************************************************************************)
(* The migration runner (packages/db/src/migration-runner.ts) and the      *)
(* readiness of an API instance against the ledger it leaves               *)
(* (postgres-repository.ts checkReadiness).                                *)
(*                                                                         *)
(* A release has an SQL file of some content for each of its versions.     *)
(* Deployments of two releases may run at once, and any statement may fail *)
(* or its process die.  External, the database: the statements of a        *)
(* transaction, those on the schema included, take effect when it commits. *)
(***************************************************************************)
EXTENDS Naturals

CONSTANTS
    Deployments,    \* processes that run migrate.ts
    ReleaseFiles,       \* what a release has: a partial function from version to content
    MaxMigrationFailures  \* bound

VARIABLES
    schemaLedger,   \* schema_migrations: the content of each version applied
    executed,       \* how often each version's SQL has been executed (history)
    deploy,         \* the transaction of each deployment
    migrationLock,  \* the deployments that hold the advisory lock
    migrationFailures

migrationVars == <<schemaLedger, executed, deploy, migrationLock, migrationFailures>>

\* The versions of all releases, lower ones first, and their contents.
FileVersions == UNION {DOMAIN r : r \in ReleaseFiles}
FileContents == UNION {{r[v] : v \in DOMAIN r} : r \in ReleaseFiles}

NotDeploying == [at |-> "idle"]

Applied == DOMAIN schemaLedger

-----------------------------------------------------------------------------
\* BEGIN.
BeginMigration(d) ==
    /\ deploy[d].at = "idle"
    /\ \E r \in ReleaseFiles :
         deploy' = [deploy EXCEPT ![d] = [at |-> "begun", release |-> r, known |-> {},
                                          ran |-> {}]]
    /\ UNCHANGED <<schemaLedger, executed, migrationLock, migrationFailures>>

\* Variant: the runner does not wait for another one.
RunAtOnce(d) == migrationLock' = migrationLock \union {d}

TakeMigrationLock(d) == migrationLock = {} /\ migrationLock' = {d}

LockMigrations(d) ==
    /\ deploy[d].at = "begun"
    /\ TakeMigrationLock(d)
    /\ deploy' = [deploy EXCEPT ![d].at = "locked"]
    /\ UNCHANGED <<schemaLedger, executed, migrationFailures>>

\* The applied versions are those of this release and unchanged, or it ends here.
LedgerMatches(r) == \A v \in Applied : v \in DOMAIN r /\ r[v] = schemaLedger[v]

RolledBack(d) ==
    /\ deploy' = [deploy EXCEPT ![d] = NotDeploying]
    /\ migrationLock' = migrationLock \ {d}
    /\ UNCHANGED <<schemaLedger, executed>>

ReadLedger(d) ==
    /\ deploy[d].at = "locked"
    /\ IF LedgerMatches(deploy[d].release)
       THEN /\ deploy' = [deploy EXCEPT ![d].at = "applying", ![d].known = Applied]
            /\ UNCHANGED <<schemaLedger, executed, migrationLock>>
       ELSE RolledBack(d)
    /\ UNCHANGED migrationFailures

Remaining(d) == DOMAIN deploy[d].release \ (deploy[d].known \union deploy[d].ran)

ApplyMigration(d) ==
    /\ deploy[d].at = "applying"
    /\ \E v \in Remaining(d) :
         /\ \A u \in Remaining(d) : v <= u
         /\ deploy' = [deploy EXCEPT ![d].ran = @ \union {v}]
    /\ UNCHANGED <<schemaLedger, executed, migrationLock, migrationFailures>>

\* A version that another transaction put into the ledger meanwhile is a key
\* conflict: then nothing of this one remains.
CommitMigrations(d) ==
    /\ deploy[d].at = "applying" /\ Remaining(d) = {}
    /\ IF deploy[d].ran \cap Applied = {}
       THEN /\ schemaLedger' = [v \in Applied \union deploy[d].ran |->
                                  IF v \in Applied THEN schemaLedger[v]
                                  ELSE deploy[d].release[v]]
            /\ executed' = [v \in FileVersions |->
                              executed[v] + IF v \in deploy[d].ran THEN 1 ELSE 0]
            /\ deploy' = [deploy EXCEPT ![d] = NotDeploying]
            /\ migrationLock' = migrationLock \ {d}
       ELSE RolledBack(d)
    /\ UNCHANGED migrationFailures

MigrationFails(d) ==
    /\ deploy[d].at # "idle"
    /\ migrationFailures < MaxMigrationFailures
    /\ migrationFailures' = migrationFailures + 1
    /\ RolledBack(d)

\* checkReadiness of an instance of release r, as far as the ledger goes.
LedgerReady(r) == Applied = DOMAIN r /\ \A v \in Applied : schemaLedger[v] = r[v]

-----------------------------------------------------------------------------
MigrationInit ==
    /\ schemaLedger = [v \in {} |-> 0]
    /\ executed = [v \in FileVersions |-> 0]
    /\ deploy = [d \in Deployments |-> NotDeploying]
    /\ migrationLock = {} /\ migrationFailures = 0

DeploymentStep(d) ==
    \/ BeginMigration(d) \/ LockMigrations(d) \/ ReadLedger(d)
    \/ ApplyMigration(d) \/ CommitMigrations(d) \/ MigrationFails(d)

MigrationNext == \E d \in Deployments : DeploymentStep(d)

MigrationSpec == MigrationInit /\ [][MigrationNext]_migrationVars

-----------------------------------------------------------------------------
(* Properties.                                                             *)

\* The ledger and the deployments have their types.
MigrationTypeOK ==
    /\ Applied \subseteq FileVersions /\ \A v \in Applied : schemaLedger[v] \in FileContents
    /\ executed \in [FileVersions -> Nat]
    /\ deploy \in [Deployments -> {NotDeploying} \union
         [at : {"begun", "locked", "applying"}, release : ReleaseFiles,
          known : SUBSET FileVersions, ran : SUBSET FileVersions]]
    /\ migrationLock \subseteq Deployments

\* The schema is what the ledger says, each version run once, and what a deployment
\* chose to run is still what is missing when it runs it: two deployments of one
\* release, or of two, never run into each other (pg_advisory_xact_lock before the
\* ledger is read).  Some release is always ready for the schema as it is.
MigratedOnce ==
    /\ Applied # {} => \E r \in ReleaseFiles : LedgerReady(r)
    /\ \A v \in FileVersions : executed[v] = IF v \in Applied THEN 1 ELSE 0
    /\ \A d \in Deployments :
         deploy[d].at = "applying" =>
             /\ deploy[d].known = Applied
             /\ deploy[d].ran \cap Applied = {}
=============================================================================
