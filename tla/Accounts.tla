------------------------------ MODULE Accounts ------------------------------
(***************************************************************************)
(* Accounts, credentials and sessions: login, lockout, step-up, change of  *)
(* the own password (apps/api/src/auth-service.ts, auth.ts) and the        *)
(* administration of accounts by masters.                                  *)
(*                                                                         *)
(* A request is a chain of queries; each query reads what is committed     *)
(* when it runs, and the final commit compares the versions it read.  So   *)
(* a request is a read step per query it decides on and a commit step.     *)
(* The clock is abstracted: a lock may end at any time, and a session or a *)
(* step-up that has expired is one that nobody presents any more.  The     *)
(* rate limit kept in memory, which only refuses requests, is left out.    *)
(***************************************************************************)
EXTENDS Naturals, FiniteSets

CONSTANTS
    Actors,         \* identities that exist or may be provisioned
    FirstMasters,   \* the masters that exist at the start
    Emails,         \* addresses free at the start; a first master has its own
    Passwords,      \* passwords anybody may type
    FirstPassword,  \* password of the first masters
    Callers,          \* concurrent requests
    Nothing,
    LockAfter,      \* failures that lock an account (5)
    MaxRetries,     \* attempts to record a failure (128)
    MaxVersion,     \* bound: versions of a credential explored
    MaxActorVersion  \* bound: versions of an actor explored

ASSUME ActorAssumption == FirstMasters \subseteq Actors /\ Nothing \notin Actors
ASSUME PasswordAssumption == FirstPassword \in Passwords
ASSUME CallerAssumption == IsFiniteSet(Callers)
ASSUME LimitAssumption == LockAfter \in Nat \ {0} /\ MaxRetries \in Nat /\ MaxRetries > LockAfter

VARIABLES
    account,        \* actor rows; authVersion is their version
    credential,     \* credential rows, by the actor they belong to
    masterRow,      \* version of the hq-master-liveness row, 0 before the first
    tokens,         \* session tokens issued
    guesses,        \* wrong passwords tried since the last success or lock (history)
    req             \* the request each process is serving

accountVars == <<account, credential, masterRow, tokens, guesses, req>>

Roles == {"hq_master", "store_owner"}
Account == [role : Roles, active : BOOLEAN, authVersion : Nat]
Credential == [id : Actors \union Emails, email : Actors \union Emails,
               password : Passwords, failed : Nat, locked : BOOLEAN,
               mustChange : BOOLEAN, version : Nat]
SessionPayload == [sub : Actors, ver : Nat, stepUp : BOOLEAN, password : Passwords]
CallerIdle == [op |-> "idle"]
Request ==
    [op : {"login"}, at : {"actor", "failure", "commit"}, who : Actors, pw : Passwords,
     cred : Credential, acct : Account \union {Nothing}, tries : Nat]
    \union [op : {"step-up", "change-password"}, at : {"cred", "failure", "fresh", "commit"},
            who : Actors, pw : Passwords, new : Passwords,
            cred : Credential \union {Nothing}, acct : Account, tries : Nat]
    \union [op : {"deactivate", "role", "reset"}, at : {"target", "count", "row", "commit"},
            by : Actors, who : Actors, acct : Account \union {Nothing},
            cred : Credential \union {Nothing}, row : Nat]
    \union [op : {"provision"}, at : {"commit"}, by : Actors, email : Emails]

ASSUME NothingAssumption == Nothing \notin Account \union Credential

Exists(a) == account[a] # Nothing
Live(t) == account[t.sub].active /\ account[t.sub].authVersion = t.ver

ActiveMasters ==
    {a \in Actors : Exists(a) /\ account[a].role = "hq_master" /\ account[a].active}

NewCredential(id, email, w, must) ==
    [id |-> id, email |-> email, password |-> w, failed |-> 0, locked |-> FALSE,
     mustChange |-> must, version |-> 1]

\* Masters made by bootstrap-admin, or provisioned and past their first login.
AccountsInit ==
    /\ account = [a \in Actors |-> IF a \in FirstMasters
                    THEN [role |-> "hq_master", active |-> TRUE, authVersion |-> 1]
                    ELSE Nothing]
    /\ credential = [a \in Actors |-> IF a \in FirstMasters
                       THEN NewCredential(a, a, FirstPassword, FALSE) ELSE Nothing]
    /\ masterRow = 0
    /\ tokens = {}
    /\ guesses = [a \in Actors |-> 0]
    /\ req = [p \in Callers |-> CallerIdle]

-----------------------------------------------------------------------------
(* Requests *)

Serve(p, r) == req' = [req EXCEPT ![p] = r]
CallerGoto(p, step) == Serve(p, [req[p] EXCEPT !.at = step])
End(p) == Serve(p, CallerIdle)

\* What resolveActor and the preHandler accept: the account as it is now, a
\* session of its present authVersion, and no password still to be changed.
ResolveActor(t) == t \in tokens /\ Live(t)
PreHandler(t) == ResolveActor(t) /\ ~credential[t.sub].mustChange

Payload(a, ver, stepUp, w) == [sub |-> a, ver |-> ver, stepUp |-> stepUp, password |-> w]

\* A credential commit that compares the version the request has read.
SameCredential(r) == credential[r.who].version = r.cred.version
SameAccount(a, row) == account[a].authVersion = row.authVersion

-----------------------------------------------------------------------------
(* Login *)

\* The address is looked up and the credential kept for the rest of the call.
LoginRead(p, a, w) ==
    /\ req[p] = CallerIdle /\ Exists(a)
    /\ Serve(p, [op |-> "login", at |-> "actor", who |-> a, pw |-> w,
                 cred |-> credential[a], acct |-> Nothing, tries |-> 0])
    /\ UNCHANGED <<account, credential, masterRow, tokens, guesses>>

\* Reading the actor, then the lock, the password and the account in this order.
LoginActor(p) ==
    /\ req[p].op = "login" /\ req[p].at = "actor"
    /\ LET r == req[p]
           right == r.pw = r.cred.password
           active == account[r.who].active
       IN \/ /\ r.cred.locked \/ (right /\ ~active)
             /\ End(p)
             /\ UNCHANGED guesses
          \/ /\ ~r.cred.locked /\ ~right
             /\ CallerGoto(p, "failure")
             /\ guesses' = [guesses EXCEPT ![r.who] = @ + 1]
          \/ /\ ~r.cred.locked /\ right /\ active
             /\ Serve(p, [r EXCEPT !.at = "commit", !.acct = account[r.who]])
             /\ UNCHANGED guesses
    /\ UNCHANGED <<account, credential, masterRow, tokens>>

\* finishLogin and the commit of stepUp: the failures are forgotten, and the
\* token carries the authVersion of the actor read before.
Succeed(p, stepUp) ==
    LET r == req[p] IN
    IF SameCredential(r)
    THEN /\ credential' = [credential EXCEPT ![r.who].failed = 0,
               ![r.who].locked = FALSE, ![r.who].version = @ + 1]
         /\ tokens' = tokens \union {Payload(r.who, r.acct.authVersion, stepUp, r.pw)}
         /\ guesses' = [guesses EXCEPT ![r.who] = 0]
         /\ End(p)
    ELSE End(p) /\ UNCHANGED <<credential, tokens, guesses>>

FinishLogin(p) ==
    /\ req[p].op = "login" /\ req[p].at = "commit"
    /\ credential[req[p].who].version < MaxVersion
    /\ Succeed(p, FALSE)
    /\ UNCHANGED <<account, masterRow>>

\* Variant: a failure that meets another commit is dropped.
RecordFailureOnce(p) ==
    /\ req[p].op \in {"login", "step-up", "change-password"} /\ req[p].at = "failure"
    /\ credential[req[p].who].version < MaxVersion
    /\ LET r == req[p] IN
       IF SameCredential(r)
       THEN credential' = [credential EXCEPT
                   ![r.who].failed = @ + 1,
                   ![r.who].locked = @ \/ r.cred.failed + 1 >= LockAfter,
                   ![r.who].version = @ + 1]
       ELSE UNCHANGED credential
    /\ End(p)
    /\ UNCHANGED <<account, masterRow, tokens, guesses>>

\* A failure is added to the count the request read; when another commit came
\* first the row is read again and the failure added to the new count.
RecordFailure(p) ==
    /\ req[p].op \in {"login", "step-up", "change-password"} /\ req[p].at = "failure"
    /\ credential[req[p].who].version < MaxVersion
    /\ LET r == req[p] IN
       IF SameCredential(r)
       THEN /\ credential' = [credential EXCEPT
                   ![r.who].failed = @ + 1,
                   ![r.who].locked = @ \/ r.cred.failed + 1 >= LockAfter,
                   ![r.who].version = @ + 1]
            /\ End(p)
       ELSE /\ IF r.tries + 1 < MaxRetries
               THEN Serve(p, [r EXCEPT !.cred = credential[r.who], !.tries = @ + 1])
               ELSE End(p)
            /\ UNCHANGED credential
    /\ UNCHANGED <<account, masterRow, tokens, guesses>>

-----------------------------------------------------------------------------
(* Step-up and change of the own password, by the bearer of a session *)

\* The preHandler reads the actor; it is the actor the handler works with.
Authenticate(p, t, kind, w, new) ==
    /\ req[p] = CallerIdle
    /\ Serve(p, [op |-> kind, at |-> "cred", who |-> t.sub, pw |-> w, new |-> new,
                 cred |-> Nothing, acct |-> account[t.sub], tries |-> 0])
    /\ UNCHANGED <<account, credential, masterRow, tokens, guesses>>

StepUp(p, t, w) == PreHandler(t) /\ Authenticate(p, t, "step-up", w, w)

\* Allowed although the first password has still to be changed.
ChangeOwnPassword(p, t, w, new) ==
    ResolveActor(t) /\ Authenticate(p, t, "change-password", w, new)

\* credentialForActor, assertCredentialAvailable and the verification; a new
\* password must be another one.
VerifyCredential(p) ==
    /\ req[p].op \in {"step-up", "change-password"} /\ req[p].at = "cred"
    /\ LET r == req[p]
           c == credential[r.who]
           right == r.pw = c.password
           same == r.op = "change-password" /\ r.new = c.password
       IN \/ /\ c.locked \/ (right /\ same)
             /\ End(p)
             /\ UNCHANGED guesses
          \/ /\ ~c.locked /\ ~right
             /\ Serve(p, [r EXCEPT !.at = "failure", !.cred = c])
             /\ guesses' = [guesses EXCEPT ![r.who] = @ + 1]
          \/ /\ ~c.locked /\ right /\ ~same
             /\ Serve(p, [r EXCEPT !.at = IF r.op = "step-up" THEN "commit" ELSE "fresh",
                                   !.cred = c])
             /\ UNCHANGED guesses
    /\ UNCHANGED <<account, credential, masterRow, tokens>>

StepUpCommit(p) ==
    /\ req[p].op = "step-up" /\ req[p].at = "commit"
    /\ credential[req[p].who].version < MaxVersion
    /\ Succeed(p, TRUE)
    /\ UNCHANGED <<account, masterRow>>

FreshActor(p) ==
    /\ req[p].op = "change-password" /\ req[p].at = "fresh"
    /\ Serve(p, [req[p] EXCEPT !.at = "commit", !.acct = account[req[p].who]])
    /\ UNCHANGED <<account, credential, masterRow, tokens, guesses>>

\* Both rows change in one commit; the new authVersion revokes every session
\* and the bearer gets one of the new version.
CommitOwnPassword(p) ==
    /\ req[p].op = "change-password" /\ req[p].at = "commit"
    /\ credential[req[p].who].version < MaxVersion
    /\ SameAccount(req[p].who, req[p].acct) => account[req[p].who].authVersion < MaxActorVersion
    /\ LET r == req[p] IN
       IF SameCredential(r) /\ SameAccount(r.who, r.acct)
       THEN /\ account' = [account EXCEPT ![r.who].authVersion = @ + 1]
            /\ credential' = [credential EXCEPT ![r.who].password = r.new,
                  ![r.who].failed = 0, ![r.who].locked = FALSE,
                  ![r.who].mustChange = FALSE, ![r.who].version = @ + 1]
            /\ tokens' = tokens \union
                  {Payload(r.who, r.acct.authVersion + 1, FALSE, r.new)}
            /\ guesses' = [guesses EXCEPT ![r.who] = 0]
       ELSE UNCHANGED <<account, credential, tokens, guesses>>
    /\ End(p)
    /\ UNCHANGED masterRow

-----------------------------------------------------------------------------
(* Administration of accounts, each call one READ COMMITTED transaction *)

\* assertMasterStepUp sees the actor the preHandler read.
MasterStepUp(t) ==
    PreHandler(t) /\ t.stepUp /\ account[t.sub].role = "hq_master"

AdminCall(p, t, op, a) ==
    /\ req[p] = CallerIdle
    /\ MasterStepUp(t)
    /\ Serve(p, [op |-> op, at |-> "target", by |-> t.sub, who |-> a,
                 acct |-> Nothing, cred |-> Nothing, row |-> 0])
    /\ UNCHANGED <<account, credential, masterRow, tokens, guesses>>

DeactivateActor(p, t, a) == a # t.sub /\ Exists(a) /\ AdminCall(p, t, "deactivate", a)
ChangeActorRole(p, t, a) == a # t.sub /\ Exists(a) /\ AdminCall(p, t, "role", a)
ResetActor(p, t, a) == Exists(a) /\ AdminCall(p, t, "reset", a)

\* requiredActorForAdmin: the row the commit will compare.
ReadTarget(p) ==
    /\ req[p].op \in {"deactivate", "role", "reset"} /\ req[p].at = "target"
    /\ LET r == req[p]
           row == account[r.who]
       IN IF r.op = "deactivate" /\ ~row.active THEN End(p)
          ELSE Serve(p, [r EXCEPT !.acct = row, !.cred = credential[r.who],
                   !.at = IF r.op # "reset" /\ row.role = "hq_master"
                          THEN "count" ELSE "commit"])
    /\ UNCHANGED <<account, credential, masterRow, tokens, guesses>>

\* The last active master is neither deactivated nor given another role.
CountMasters(p) ==
    /\ req[p].op \in {"deactivate", "role"} /\ req[p].at = "count"
    /\ IF Cardinality(ActiveMasters) > 1
       THEN CallerGoto(p, IF req[p].op = "deactivate" THEN "row" ELSE "commit")
       ELSE End(p)
    /\ UNCHANGED <<account, credential, masterRow, tokens, guesses>>

\* The row that serialises deactivations is read after the masters are counted.
ReadMasterRow(p) ==
    /\ req[p].op = "deactivate" /\ req[p].at = "row"
    /\ Serve(p, [req[p] EXCEPT !.at = "commit", !.row = masterRow])
    /\ UNCHANGED <<account, credential, masterRow, tokens, guesses>>

CommitDeactivation(p) ==
    /\ req[p].op = "deactivate" /\ req[p].at = "commit"
    /\ SameAccount(req[p].who, req[p].acct) => account[req[p].who].authVersion < MaxActorVersion
    /\ LET r == req[p]
           master == r.acct.role = "hq_master"
       IN IF SameAccount(r.who, r.acct) /\ (master => masterRow = r.row)
          THEN /\ account' = [account EXCEPT ![r.who].active = FALSE,
                                             ![r.who].authVersion = @ + 1]
               /\ masterRow' = IF master THEN r.row + 1 ELSE masterRow
          ELSE UNCHANGED <<account, masterRow>>
    /\ End(p)
    /\ UNCHANGED <<credential, tokens, guesses>>

\* A master becomes an owner, anybody else a master.
CommitRole(p) ==
    /\ req[p].op = "role" /\ req[p].at = "commit"
    /\ SameAccount(req[p].who, req[p].acct) => account[req[p].who].authVersion < MaxActorVersion
    /\ LET r == req[p] IN
       IF SameAccount(r.who, r.acct)
       THEN account' = [account EXCEPT
               ![r.who].role = IF r.acct.role = "hq_master" THEN "store_owner"
                               ELSE "hq_master",
               ![r.who].authVersion = @ + 1]
       ELSE UNCHANGED account
    /\ End(p)
    /\ UNCHANGED <<credential, masterRow, tokens, guesses>>

\* Variant: the sessions of the account survive the reset.
CommitResetKeepingSessions(p, w) ==
    /\ req[p].op = "reset" /\ req[p].at = "commit"
    /\ credential[req[p].who].version < MaxVersion
    /\ LET r == req[p] IN
       IF SameCredential(r)
       THEN /\ credential' = [credential EXCEPT ![r.who].password = w,
                  ![r.who].failed = 0, ![r.who].locked = FALSE,
                  ![r.who].mustChange = TRUE, ![r.who].version = @ + 1]
            /\ guesses' = [guesses EXCEPT ![r.who] = 0]
       ELSE UNCHANGED <<credential, guesses>>
    /\ End(p)
    /\ UNCHANGED <<account, masterRow, tokens>>

\* A password set by a master must be changed at the next login.
CommitReset(p, w) ==
    /\ req[p].op = "reset" /\ req[p].at = "commit"
    /\ credential[req[p].who].version < MaxVersion
    /\ SameAccount(req[p].who, req[p].acct) => account[req[p].who].authVersion < MaxActorVersion
    /\ LET r == req[p] IN
       IF SameCredential(r) /\ SameAccount(r.who, r.acct)
       THEN /\ account' = [account EXCEPT ![r.who].authVersion = @ + 1]
            /\ credential' = [credential EXCEPT ![r.who].password = w,
                  ![r.who].failed = 0, ![r.who].locked = FALSE,
                  ![r.who].mustChange = TRUE, ![r.who].version = @ + 1]
            /\ guesses' = [guesses EXCEPT ![r.who] = 0]
       ELSE UNCHANGED <<account, credential, guesses>>
    /\ End(p)
    /\ UNCHANGED <<masterRow, tokens>>

\* The address is normalised and must not be registered.
ProvisionActor(p, t, e) ==
    /\ req[p] = CallerIdle
    /\ MasterStepUp(t)
    /\ \A b \in Actors : Exists(b) => credential[b].email # e
    /\ Serve(p, [op |-> "provision", at |-> "commit", by |-> t.sub, email |-> e])
    /\ UNCHANGED <<account, credential, masterRow, tokens, guesses>>

\* The identifier of a credential is the hash of its address; that of an actor
\* is random: one that nobody has, and which makes no difference.
StableCredentialId(p) == req[p].email
randomUUID == CHOOSE a \in Actors : ~Exists(a)

CommitProvision(p, role, w) ==
    /\ req[p].op = "provision"
    /\ IF \E b \in Actors : Exists(b) /\ credential[b].id = StableCredentialId(p)
       THEN UNCHANGED <<account, credential>>
       ELSE /\ \E a \in Actors : ~Exists(a)
            /\ account' = [account EXCEPT ![randomUUID] =
                  [role |-> role, active |-> TRUE, authVersion |-> 1]]
            /\ credential' = [credential EXCEPT ![randomUUID] =
                  NewCredential(StableCredentialId(p), req[p].email, w, TRUE)]
    /\ End(p)
    /\ UNCHANGED <<masterRow, tokens, guesses>>

-----------------------------------------------------------------------------
(* Time *)

\* lockedUntil has passed, for whoever read it.  The count stays.
LockExpires(a) ==
    /\ Exists(a) /\ credential[a].locked
    /\ credential' = [credential EXCEPT ![a].locked = FALSE]
    /\ req' = [p \in Callers |->
          IF req[p].op = "login" /\ req[p].who = a
          THEN [req[p] EXCEPT !.cred.locked = FALSE] ELSE req[p]]
    /\ guesses' = [guesses EXCEPT ![a] = 0]
    /\ UNCHANGED <<account, masterRow, tokens>>

AccountsNext ==
    \/ \E p \in Callers :
         \/ \E a \in Actors, w \in Passwords : LoginRead(p, a, w)
         \/ LoginActor(p) \/ FinishLogin(p) \/ RecordFailure(p)
         \/ VerifyCredential(p) \/ StepUpCommit(p)
         \/ FreshActor(p) \/ CommitOwnPassword(p)
         \/ ReadTarget(p) \/ CountMasters(p) \/ ReadMasterRow(p)
         \/ CommitDeactivation(p) \/ CommitRole(p)
         \/ \E w \in Passwords : CommitReset(p, w)
         \/ \E role \in Roles, w \in Passwords : CommitProvision(p, role, w)
    \/ \E p \in Callers, t \in tokens :
         \/ \E w \in Passwords : StepUp(p, t, w)
         \/ \E w, new \in Passwords : ChangeOwnPassword(p, t, w, new)
         \/ \E a \in Actors : \/ DeactivateActor(p, t, a)
                              \/ ChangeActorRole(p, t, a)
                              \/ ResetActor(p, t, a)
         \/ \E e \in Emails : ProvisionActor(p, t, e)
    \/ \E a \in Actors : LockExpires(a)

AccountsSpec == AccountsInit /\ [][AccountsNext]_accountVars

-----------------------------------------------------------------------------
AccountsTypeOK ==
    /\ account \in [Actors -> Account \union {Nothing}]
    /\ credential \in [Actors -> Credential \union {Nothing}]
    /\ masterRow \in Nat
    /\ tokens \subseteq SessionPayload
    /\ guesses \in [Actors -> Nat]
    /\ req \in [Callers -> Request \union {CallerIdle}]

\* A session that resolveActor accepts was obtained with the password the
\* account has now: a change or reset of the password revokes every other
\* session, also those being issued meanwhile (auth-service.ts:88-115, 260-282).
LiveSessionKnowsPassword ==
    \A t \in tokens : Live(t) => t.password = credential[t.sub].password

\* Concurrent failures are all counted: before an account is locked, at most
\* the failures that lock it and one for each other request already under way
\* are tried (auth-service.ts:295-315).
GuessesAreBounded ==
    \A a \in Actors : guesses[a] <= LockAfter + Cardinality(Callers) - 1

\* "The last active master cannot be deactivated" nor demoted
\* (auth-service.ts:185, 236-240).
MasterRemains == ActiveMasters # {}
=============================================================================
