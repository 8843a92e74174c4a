---------------------------- MODULE AccountsProofs ----------------------------
(***************************************************************************)
(* Sessions know the password, and failures are counted: proof that        *)
(* LiveSessionKnowsPassword and GuessesAreBounded hold for any accounts,   *)
(* passwords, concurrent requests and bounds, and that a session that was  *)
(* revoked stays revoked.                                                  *)
(*                                                                         *)
(* A request decides on rows it read earlier.  What it remembers of a      *)
(* credential is at most as new as the row, and has the row's password as  *)
(* long as the row has the version that was read; what it remembers of the *)
(* account is at most as new.  A change of the password raises authVersion *)
(* in the same commit, so that a token issued from older rows is dead.     *)
(*                                                                         *)
(* The second half counts guesses in periods: one begins when the failures *)
(* are forgotten or a lock runs out.  While the account is unlocked every  *)
(* guess of the period is a commit of a failure, or belongs to a request   *)
(* that has still to record it.  Such a request loses only against commits *)
(* of its period, which are fewer than MaxRetries, so none gives up.  When *)
(* the account is locked only logins that read it unlocked guess on.       *)
(***************************************************************************)
EXTENDS Accounts, FiniteSetTheorems, TLAPS

Bearing(r) == r.op \in {"login", "step-up", "change-password"}
Administering(r) == r.op \in {"deactivate", "role", "reset"}

(* The memory of a credential fits the row.                                *)
Remembered(a, c) ==
    /\ c.version <= credential[a].version
    /\ c.version = credential[a].version => c.password = credential[a].password

(* A request of somebody with a password.                                  *)
BearingHonest(r) ==
    /\ Exists(r.who)
    /\ r.cred # Nothing => Remembered(r.who, r.cred)
    /\ r.acct # Nothing => r.acct.authVersion <= account[r.who].authVersion
    /\ r.at \in {"failure", "fresh", "commit"} => r.cred # Nothing
    /\ r.at = "commit" => r.acct # Nothing
    /\ r.at = "commit" /\ r.op # "change-password" => r.pw = r.cred.password

AdministeringHonest(r) ==
    /\ Exists(r.who)
    /\ r.at # "target" => r.acct # Nothing /\ r.cred # Nothing

Honest(r) ==
    /\ r \in Request \union {CallerIdle}
    /\ Bearing(r) => BearingHonest(r)
    /\ Administering(r) => AdministeringHonest(r)

RequestsHonest ==
    \A p \in Callers : \A r \in Request \union {CallerIdle} : req[p] = r => Honest(r)

(* An account has a credential, and no other identity does.                *)
Paired == \A a \in Actors : Exists(a) <=> credential[a] # Nothing

(* Tokens are of accounts there are, and not newer than these.             *)
TokensAreOld ==
    \A t \in tokens : Exists(t.sub) /\ t.ver <= account[t.sub].authVersion

(* The inductive invariant.                                                *)
AccountsInv ==
    AccountsTypeOK /\ Paired /\ TokensAreOld /\ LiveSessionKnowsPassword /\ RequestsHonest

(* The rows of a commit: nobody disappears, versions only grow, and a       *)
(* password is changed with the version of its row.                        *)
RowsGrow ==
    /\ account' \in [Actors -> Account \union {Nothing}]
    /\ credential' \in [Actors -> Credential \union {Nothing}]
    /\ Paired'
    /\ \A a \in Actors : Exists(a) =>
         /\ Exists(a)'
         /\ account[a].authVersion <= account'[a].authVersion
         /\ credential[a].version <= credential'[a].version
         /\ credential'[a].version = credential[a].version
              => credential'[a].password = credential[a].password

(* Another password, or an account made active, means another authVersion. *)
Revokes ==
    \A a \in Actors : Exists(a) /\ account'[a].authVersion = account[a].authVersion
      => /\ account'[a].active => account[a].active
         /\ credential'[a].password = credential[a].password

(* A token that is issued knows the password, or is dead.                  *)
Issued(t) ==
    /\ t \in SessionPayload
    /\ Exists(t.sub)
    /\ t.ver <= account[t.sub].authVersion
    /\ Live(t) => t.password = credential[t.sub].password

(* What every step keeps. *)
Kept == AccountsInv' /\ RowsGrow /\ Revokes

-----------------------------------------------------------------------------
(* Types of the rows that exist.                                           *)
LEMMA RowTypes ==
    ASSUME AccountsInv, NEW a \in Actors, Exists(a)
    PROVE  /\ account[a] \in Account /\ account[a].authVersion \in Nat
           /\ credential[a] \in Credential /\ credential[a].version \in Nat
           /\ credential[a] # Nothing
<1>1. /\ account[a] \in Account \union {Nothing} /\ credential[a] \in Credential \union {Nothing}
      /\ credential[a] # Nothing /\ account[a] # Nothing
    BY DEF AccountsInv, AccountsTypeOK, Paired, Exists
<1>2. account[a] \in Account /\ credential[a] \in Credential
    BY <1>1
<1> QED
    BY <1>1, <1>2 DEF Account, Credential

(* What a request with a password is made of.                              *)
LEMMA BearingTypes ==
    ASSUME NEW r, Honest(r), Bearing(r)
    PROVE  /\ r.who \in Actors /\ r.pw \in Passwords /\ r.tries \in Nat
           /\ r.cred \in Credential \union {Nothing}
           /\ r.acct \in Account \union {Nothing}
           /\ r.op = "change-password" => r.new \in Passwords
BY DEF Honest, Bearing, Request, CallerIdle

LEMMA AdministeringTypes ==
    ASSUME NEW r, Honest(r), Administering(r)
    PROVE  /\ r.who \in Actors /\ r.row \in Nat
           /\ r.cred \in Credential \union {Nothing}
           /\ r.acct \in Account \union {Nothing}
BY DEF Honest, Administering, Request, CallerIdle

(* A request stays honest while rows grow.                                 *)
LEMMA HonestStays ==
    ASSUME AccountsInv, RowsGrow, NEW r, Honest(r)
    PROVE  Honest(r)'
<1>1. ASSUME Bearing(r) PROVE BearingHonest(r)'
    <2>1. r.who \in Actors /\ Exists(r.who) /\ BearingHonest(r)
        BY <1>1, BearingTypes DEF Honest, BearingHonest
    <2>2. /\ credential[r.who].version \in Nat /\ account[r.who].authVersion \in Nat
        BY <2>1, RowTypes
    <2>3. /\ credential'[r.who].version \in Nat /\ account'[r.who].authVersion \in Nat
          /\ Exists(r.who)'
        <3>1. account'[r.who] # Nothing /\ credential'[r.who] # Nothing
            BY <2>1 DEF RowsGrow, Exists, Paired
        <3>2. account'[r.who] \in Account /\ credential'[r.who] \in Credential
            BY <2>1, <3>1 DEF RowsGrow
        <3> QED
            BY <3>1, <3>2 DEF Account, Credential, Exists
    <2>4. ASSUME r.cred # Nothing PROVE Remembered(r.who, r.cred)'
        <3>1. r.cred.version \in Nat
            BY <1>1, <2>4, BearingTypes DEF Credential
        <3>2. Remembered(r.who, r.cred)
            BY <2>1, <2>4 DEF BearingHonest
        <3> QED
            BY <2>1, <2>2, <2>3, <3>1, <3>2 DEF Remembered, RowsGrow
    <2>5. ASSUME r.acct # Nothing PROVE r.acct.authVersion <= account'[r.who].authVersion
        <3>1. r.acct.authVersion \in Nat
            BY <1>1, <2>5, BearingTypes DEF Account
        <3> QED
            BY <2>1, <2>2, <2>3, <2>5, <3>1 DEF BearingHonest, RowsGrow
    <2> QED
        BY <2>1, <2>3, <2>4, <2>5 DEF BearingHonest
<1>2. ASSUME Administering(r) PROVE AdministeringHonest(r)'
    BY <1>2, AdministeringTypes DEF Honest, AdministeringHonest, RowsGrow
<1> QED
    BY <1>1, <1>2 DEF Honest, Bearing, Administering

(* Rows change while requests are or become honest ones.                   *)
LEMMA RowsKeep ==
    ASSUME AccountsInv, RowsGrow, Revokes,
           req' \in [Callers -> Request \union {CallerIdle}],
           \A q \in Callers : \A r \in Request \union {CallerIdle} : req'[q] = r => Honest(r),
           \A t \in tokens' : t \in tokens \/ Issued(t)',
           masterRow' \in Nat, guesses' \in [Actors -> Nat]
    PROVE  Kept
<1>2. RequestsHonest'
    <2> SUFFICES ASSUME NEW q \in Callers, NEW r \in Request \union {CallerIdle}, req'[q] = r
                 PROVE  Honest(r)'
        BY DEF RequestsHonest
    <2> QED
        BY HonestStays
<1>3. AccountsTypeOK'
    <2>1. tokens' \subseteq SessionPayload
        BY DEF Issued, AccountsInv, AccountsTypeOK
    <2> QED
        BY <2>1 DEF RowsGrow, AccountsTypeOK
<1>4. TokensAreOld' /\ LiveSessionKnowsPassword'
    <2> SUFFICES ASSUME NEW t \in tokens'
                 PROVE  /\ Exists(t.sub)' /\ t.ver <= account'[t.sub].authVersion
                        /\ Live(t)' => t.password = credential'[t.sub].password
        BY DEF TokensAreOld, LiveSessionKnowsPassword
    <2>1. CASE Issued(t)'
        BY <2>1 DEF Issued
    <2>2. CASE t \in tokens
        <3>1. /\ t.sub \in Actors /\ t.ver \in Nat /\ Exists(t.sub)
              /\ t.ver <= account[t.sub].authVersion
              /\ Live(t) => t.password = credential[t.sub].password
            BY <2>2 DEF AccountsInv, AccountsTypeOK, TokensAreOld, LiveSessionKnowsPassword, SessionPayload
        <3>2. account[t.sub].authVersion \in Nat /\ account'[t.sub] \in Account /\ Exists(t.sub)'
            BY <3>1, RowTypes DEF RowsGrow, Exists
        <3>3. account'[t.sub].authVersion \in Nat /\ account[t.sub].authVersion <= account'[t.sub].authVersion
            BY <3>1, <3>2 DEF Account, RowsGrow
        <3>4. ASSUME Live(t)' PROVE t.password = credential'[t.sub].password
            <4>1. account'[t.sub].authVersion = t.ver /\ account'[t.sub].active
                BY <3>4 DEF Live
            <4>2. account'[t.sub].authVersion = account[t.sub].authVersion
                BY <3>1, <3>2, <3>3, <4>1
            <4> QED
                BY <3>1, <4>1, <4>2 DEF Revokes, Live
        <3> QED
            BY <3>1, <3>2, <3>3, <3>4
    <2> QED
        BY <2>1, <2>2
<1> QED
    BY <1>2, <1>3, <1>4 DEF AccountsInv, RowsGrow, Kept

(* The end of a request that changed rows, or none.                        *)
LEMMA RowStep ==
    ASSUME AccountsInv, RowsGrow, Revokes, NEW p \in Callers, End(p),
           \A t \in tokens' : t \in tokens \/ Issued(t)',
           masterRow' \in Nat, guesses' \in [Actors -> Nat]
    PROVE  Kept
<1>1. /\ req' \in [Callers -> Request \union {CallerIdle}]
      /\ \A q \in Callers : req'[q] = req[q] \/ req'[q] = CallerIdle
    BY DEF End, Serve, AccountsInv, AccountsTypeOK
<1>2. Honest(CallerIdle)
    BY DEF Honest, CallerIdle, Bearing, Administering
<1>3. ASSUME NEW q \in Callers, NEW r \in Request \union {CallerIdle}, req'[q] = r PROVE Honest(r)
    BY <1>1, <1>2, <1>3 DEF AccountsInv, RequestsHonest
<1> QED
    BY <1>1, <1>3, RowsKeep

LEMMA NothingGrows ==
    ASSUME AccountsInv, UNCHANGED <<account, credential>>
    PROVE  RowsGrow /\ Revokes
<1>1. Paired'
    BY DEF AccountsInv, Paired, Exists
<1> QED
    BY <1>1, RowTypes DEF RowsGrow, Revokes, AccountsInv, AccountsTypeOK, Exists

(* A request that goes on, or begins, and changes no row.                  *)
LEMMA RequestStep ==
    ASSUME AccountsInv, NEW p \in Callers, NEW r, Honest(r), Serve(p, r),
           UNCHANGED <<account, credential, masterRow, tokens>>,
           guesses' \in [Actors -> Nat]
    PROVE  Kept
<1>1. r \in Request \union {CallerIdle}
    BY DEF Honest
<1>2. /\ req' \in [Callers -> Request \union {CallerIdle}]
      /\ \A q \in Callers : req'[q] = IF q = p THEN r ELSE req[q]
    BY <1>1 DEF Serve, AccountsInv, AccountsTypeOK
<1>3. RequestsHonest'
    <2> SUFFICES ASSUME NEW q \in Callers, NEW h \in Request \union {CallerIdle}, req'[q] = h
                 PROVE  Honest(h)'
        BY DEF RequestsHonest
    <2>1. Honest(h)
        BY <1>2 DEF AccountsInv, RequestsHonest
    <2> QED
        BY <2>1 DEF Honest, BearingHonest, AdministeringHonest, Remembered, Exists
<1> QED
    BY <1>2, <1>3, NothingGrows DEF AccountsInv, AccountsTypeOK, Paired, TokensAreOld,
                                    LiveSessionKnowsPassword, Live, Exists, Kept

-----------------------------------------------------------------------------
LEMMA Ends ==
    ASSUME AccountsInv, NEW p \in Callers, End(p),
           UNCHANGED <<account, credential, masterRow, tokens>>,
           guesses' \in [Actors -> Nat]
    PROVE  Kept
<1>1. Honest(CallerIdle)
    BY DEF Honest, CallerIdle, Bearing, Administering
<1> QED
    BY <1>1, RequestStep DEF End

(* The account whose wrong password is counted.                            *)
LEMMA Counted ==
    ASSUME AccountsInv, NEW a \in Actors
    PROVE  [guesses EXCEPT ![a] = @ + 1] \in [Actors -> Nat]
BY DEF AccountsInv, AccountsTypeOK

(* What each request serves.                                               *)
LoginRequest ==
    [op : {"login"}, at : {"actor", "failure", "commit"}, who : Actors, pw : Passwords,
     cred : Credential, acct : Account \union {Nothing}, tries : Nat]
BearerRequest ==
    [op : {"step-up", "change-password"}, at : {"cred", "failure", "fresh", "commit"},
     who : Actors, pw : Passwords, new : Passwords,
     cred : Credential \union {Nothing}, acct : Account, tries : Nat]
AdminRequest ==
    [op : {"deactivate", "role", "reset"}, at : {"target", "count", "row", "commit"},
     by : Actors, who : Actors, acct : Account \union {Nothing},
     cred : Credential \union {Nothing}, row : Nat]

LEMMA Serving ==
    ASSUME AccountsInv, NEW p \in Callers
    PROVE  /\ Honest(req[p])
           /\ req[p].op = "login" => req[p] \in LoginRequest
           /\ req[p].op \in {"step-up", "change-password"} => req[p] \in BearerRequest
           /\ req[p].op \in {"deactivate", "role", "reset"} => req[p] \in AdminRequest
<1>1. req[p] \in Request \union {CallerIdle} /\ Honest(req[p])
    BY DEF AccountsInv, AccountsTypeOK, RequestsHonest
<1> QED
    BY <1>1 DEF Request, CallerIdle, LoginRequest, BearerRequest, AdminRequest

LEMMA Served ==
    ASSUME NEW r, r \in LoginRequest \/ r \in BearerRequest \/ r \in AdminRequest
    PROVE  r \in Request
BY DEF Request, LoginRequest, BearerRequest, AdminRequest

(* A row remembers itself.                                                 *)
LEMMA SameRow ==
    ASSUME AccountsInv, NEW a \in Actors, Exists(a)
    PROVE  /\ Remembered(a, credential[a]) /\ account[a].authVersion <= account[a].authVersion
           /\ credential[a] # Nothing /\ account[a] # Nothing
BY RowTypes DEF Remembered, Exists

-----------------------------------------------------------------------------
(* Login.                                                                  *)
LEMMA LoginReadKeeps ==
    ASSUME AccountsInv, NEW p \in Callers, NEW a \in Actors, NEW w \in Passwords, LoginRead(p, a, w)
    PROVE  Kept
<1> DEFINE r == [op |-> "login", at |-> "actor", who |-> a, pw |-> w,
                 cred |-> credential[a], acct |-> Nothing, tries |-> 0]
<1>1. Exists(a) /\ Serve(p, r) /\ UNCHANGED <<account, credential, masterRow, tokens, guesses>>
    BY DEF LoginRead
<1>2. r \in LoginRequest
    BY <1>1, RowTypes DEF LoginRequest
<1>3. Honest(r)
    BY <1>1, <1>2, SameRow, Served DEF Honest, Bearing, BearingHonest, Administering
<1> HIDE DEF r
<1> QED
    BY <1>1, <1>3, RequestStep DEF AccountsInv, AccountsTypeOK

LEMMA LoginActorKeeps ==
    ASSUME AccountsInv, NEW p \in Callers, LoginActor(p)
    PROVE  Kept
<1> DEFINE old == req[p]
<1>1. /\ old.op = "login" /\ old.at = "actor" /\ old \in LoginRequest /\ Honest(old)
      /\ UNCHANGED <<account, credential, masterRow, tokens>>
    BY Serving DEF LoginActor
<1>2. /\ old.who \in Actors /\ Exists(old.who) /\ old.cred # Nothing
      /\ Remembered(old.who, old.cred)
    BY <1>1, NothingAssumption DEF LoginRequest, Honest, Bearing, BearingHonest
<1>3. CASE End(p) /\ UNCHANGED guesses
    BY <1>1, <1>3, Ends DEF AccountsInv, AccountsTypeOK
<1>4. CASE CallerGoto(p, "failure") /\ guesses' = [guesses EXCEPT ![old.who] = @ + 1]
    <2> DEFINE r == [old EXCEPT !.at = "failure"]
    <2>1. /\ r \in LoginRequest /\ r.op = "login" /\ r.at = "failure" /\ r.who = old.who
          /\ r.cred = old.cred /\ r.acct = old.acct
        BY <1>1 DEF LoginRequest
    <2>2. Serve(p, r)
        BY <1>4 DEF CallerGoto
    <2> HIDE DEF r
    <2>3. Honest(r)
        BY <1>1, <1>2, <2>1, Served DEF Honest, Bearing, BearingHonest, Administering
    <2> QED
        BY <1>1, <1>2, <1>4, <2>2, <2>3, RequestStep, Counted
<1>5. CASE /\ old.pw = old.cred.password
           /\ Serve(p, [old EXCEPT !.at = "commit", !.acct = account[old.who]])
           /\ UNCHANGED guesses
    <2> DEFINE r == [old EXCEPT !.at = "commit", !.acct = account[old.who]]
    <2>1. account[old.who] \in Account
        BY <1>2, RowTypes
    <2>2. /\ r \in LoginRequest /\ r.op = "login" /\ r.at = "commit" /\ r.who = old.who
          /\ r.cred = old.cred /\ r.acct = account[old.who] /\ r.pw = old.pw
        BY <1>1, <2>1 DEF LoginRequest
    <2>3. Serve(p, r)
        BY <1>5
    <2> HIDE DEF r
    <2>4. Honest(r)
        BY <1>2, <1>5, <2>2, SameRow, Served DEF Honest, Bearing, BearingHonest, Administering
    <2> QED
        BY <1>1, <1>5, <2>3, <2>4, RequestStep DEF AccountsInv, AccountsTypeOK
<1> QED
    BY <1>3, <1>4, <1>5 DEF LoginActor

-----------------------------------------------------------------------------
(* Commits.  A version that a commit compares is the version it replaces.   *)

AccountMoves(a) ==
    \E x \in Account : /\ account' = [account EXCEPT ![a] = x]
                       /\ x.authVersion = account[a].authVersion + 1

(* The commits of a change of the account.                                 *)
LEMMA Moved ==
    ASSUME AccountsInv, NEW a \in Actors, Exists(a), NEW x \in Account,
           x.authVersion = account[a].authVersion + 1, account' = [account EXCEPT ![a] = x]
    PROVE  AccountMoves(a) /\ account'[a] = x
BY DEF AccountMoves, AccountsInv, AccountsTypeOK

LEMMA Bumped ==
    ASSUME AccountsInv, NEW a \in Actors, Exists(a),
           account' = [account EXCEPT ![a].authVersion = @ + 1]
    PROVE  AccountMoves(a) /\ account'[a].authVersion = account[a].authVersion + 1
<1>1. PICK y \in Account : y = account[a]
    BY RowTypes
<1>2. PICK v \in Nat : v = y.authVersion + 1
    BY DEF Account
<1>3. PICK x : x = [y EXCEPT !.authVersion = v]
    OBVIOUS
<1>4. x \in Account /\ x.authVersion = v
    BY <1>3 DEF Account
<1>5. account' = [account EXCEPT ![a] = x]
    BY <1>1, <1>2, <1>3
<1> QED
    BY <1>1, <1>2, <1>4, <1>5, Moved

(* A credential that changes, its password together with its version.      *)
LEMMA CredentialGrows ==
    ASSUME AccountsInv, NEW a \in Actors, Exists(a),
           NEW c \in Credential, credential' = [credential EXCEPT ![a] = c],
           \/ c.version = credential[a].version + 1
           \/ c.version = credential[a].version /\ c.password = credential[a].password,
           account' = account \/ AccountMoves(a)
    PROVE  /\ RowsGrow
           /\ account' # account \/ c.password = credential[a].password => Revokes
<1>1. /\ credential[a].version \in Nat /\ account[a].authVersion \in Nat /\ c # Nothing
      /\ c.version \in Nat
    BY RowTypes, NothingAssumption DEF Credential
<1>2. /\ account \in [Actors -> Account \union {Nothing}]
      /\ credential \in [Actors -> Credential \union {Nothing}]
    BY DEF AccountsInv, AccountsTypeOK
<1>3. /\ credential' \in [Actors -> Credential \union {Nothing}] /\ credential'[a] = c
      /\ \A b \in Actors : b # a => credential'[b] = credential[b]
    BY <1>2
<1>4. PICK x \in Account : /\ account' \in [Actors -> Account \union {Nothing}] /\ account'[a] = x
                           /\ \A b \in Actors : b # a => account'[b] = account[b]
                           /\ \/ account' = account /\ x = account[a]
                              \/ x.authVersion = account[a].authVersion + 1
    <2>1. CASE account' = account
        <3>1. account[a] \in Account
            BY RowTypes
        <3> QED
            BY <1>2, <2>1, <3>1
    <2>2. ASSUME NEW x \in Account, account' = [account EXCEPT ![a] = x],
                 x.authVersion = account[a].authVersion + 1
          PROVE  /\ account' \in [Actors -> Account \union {Nothing}] /\ account'[a] = x
                 /\ \A b \in Actors : b # a => account'[b] = account[b]
        BY <1>2, <2>2
    <2> QED
        BY <2>1, <2>2 DEF AccountMoves
<1>5. x # Nothing
    BY NothingAssumption
<1>6. \A b \in Actors : Exists(b) => account[b].authVersion \in Nat /\ credential[b].version \in Nat
    BY RowTypes
<1>7. Paired'
    BY <1>1, <1>3, <1>4, <1>5 DEF AccountsInv, Paired, Exists
<1>8. RowsGrow
    <2> SUFFICES ASSUME NEW b \in Actors, Exists(b)
                 PROVE  /\ Exists(b)'
                        /\ account[b].authVersion <= account'[b].authVersion
                        /\ credential[b].version <= credential'[b].version
                        /\ credential'[b].version = credential[b].version
                             => credential'[b].password = credential[b].password
        BY <1>3, <1>4, <1>7 DEF RowsGrow
    <2> QED
        BY <1>1, <1>3, <1>4, <1>5, <1>6 DEF Exists
<1>9. ASSUME account' # account \/ c.password = credential[a].password PROVE Revokes
    BY <1>1, <1>3, <1>4, <1>9 DEF Revokes
<1> QED
    BY <1>8, <1>9

(* The rows of an account without its credential: it changes with its      *)
(* authVersion.                                                            *)
LEMMA AccountGrows ==
    ASSUME AccountsInv, NEW a \in Actors, Exists(a), NEW x \in Account,
           account' = [account EXCEPT ![a] = x], UNCHANGED credential,
           x.authVersion = account[a].authVersion + 1
    PROVE  RowsGrow /\ Revokes
<1>1. credential[a] \in Credential /\ credential' = [credential EXCEPT ![a] = credential[a]]
    BY RowTypes DEF AccountsInv, AccountsTypeOK
<1>2. account' # account
    BY RowTypes DEF AccountsInv, AccountsTypeOK
<1>3. AccountMoves(a)
    BY DEF AccountMoves
<1> QED
    BY <1>1, <1>2, <1>3, CredentialGrows

(* What a commit writes to a credential.                                   *)
Written(row, w, f, l, must) ==
    [row EXCEPT !.password = w, !.failed = f, !.locked = l, !.mustChange = must,
                !.version = row.version + 1]

LEMMA CredentialUpdate ==
    ASSUME NEW row \in Credential, NEW f \in Nat, NEW l \in BOOLEAN, NEW w \in Passwords,
           NEW must \in BOOLEAN
    PROVE  /\ Written(row, w, f, l, must) \in Credential
           /\ Written(row, w, f, l, must).version = row.version + 1
           /\ Written(row, w, f, l, must).password = w
<1>1. PICK v \in Nat : v = row.version + 1
    BY DEF Credential
<1> DEFINE c == [row EXCEPT !.password = w, !.failed = f, !.locked = l, !.mustChange = must,
                            !.version = v]
<1>2. c \in Credential
    BY Zenon DEF Credential
<1>3. c.version = v /\ c.password = w
    BY DEF Credential
<1>4. Written(row, w, f, l, must) = c
    BY <1>1 DEF Written
<1> HIDE DEF c
<1> QED
    BY <1>1, <1>2, <1>3, <1>4

LEMMA CredentialWrites ==
    ASSUME AccountsInv, NEW a \in Actors, Exists(a), NEW w \in Passwords, NEW f \in Nat,
           NEW l \in BOOLEAN, NEW must \in BOOLEAN,
           credential' = [credential EXCEPT ![a] = Written(credential[a], w, f, l, must)],
           (account' = account /\ w = credential[a].password) \/ AccountMoves(a)
    PROVE  RowsGrow /\ Revokes /\ credential'[a].password = w
<1>1. PICK row \in Credential : row = credential[a]
    BY RowTypes
<1>2. PICK c \in Credential : /\ c = Written(row, w, f, l, must)
                              /\ c.version = row.version + 1 /\ c.password = w
    BY CredentialUpdate
<1>3. credential' = [credential EXCEPT ![a] = c]
    BY <1>1, <1>2
<1>4. credential'[a] = c
    BY <1>3 DEF AccountsInv, AccountsTypeOK
<1>5. account' # account \/ c.password = credential[a].password
    <2>1. ASSUME NEW x \in Account, account' = [account EXCEPT ![a] = x],
                 x.authVersion = account[a].authVersion + 1
          PROVE  account' # account
        BY <2>1, RowTypes DEF AccountsInv, AccountsTypeOK
    <2> QED
        BY <1>2, <2>1 DEF AccountMoves
<1>6. c.version = credential[a].version + 1
    BY <1>1, <1>2
<1>7. RowsGrow /\ Revokes
    BY <1>2, <1>3, <1>5, <1>6, CredentialGrows
<1> QED
    BY <1>2, <1>4, <1>7

(* finishLogin and the step-up: the token has what the request remembers.  *)
LEMMA SucceedKeeps ==
    ASSUME AccountsInv, NEW p \in Callers, NEW up \in BOOLEAN,
           req[p].op \in {"login", "step-up"}, req[p].at = "commit",
           Succeed(p, up), UNCHANGED <<account, masterRow>>
    PROVE  Kept
<1> DEFINE mine == req[p]
<1>1. /\ mine.who \in Actors /\ Exists(mine.who) /\ mine.pw \in Passwords
      /\ mine.pw = mine.cred.password
      /\ Remembered(mine.who, mine.cred) /\ mine.acct \in Account
      /\ mine.acct.authVersion <= account[mine.who].authVersion
    BY Serving DEF LoginRequest, BearerRequest, Honest, Bearing, BearingHonest
<1>2. masterRow' \in Nat
    BY DEF AccountsInv, AccountsTypeOK
<1>3. CASE ~SameCredential(mine)
    BY <1>3, Ends DEF Succeed, AccountsInv, AccountsTypeOK
<1>4. CASE SameCredential(mine)
    <2>1. /\ credential[mine.who] \in Credential /\ credential[mine.who].password = mine.pw
          /\ credential[mine.who].mustChange \in BOOLEAN
        BY <1>1, <1>4, RowTypes DEF Remembered, SameCredential, Credential
    <2>2. /\ credential' = [credential EXCEPT ![mine.who] =
                Written(credential[mine.who], mine.pw, 0, FALSE, credential[mine.who].mustChange)]
          /\ tokens' = tokens \union {Payload(mine.who, mine.acct.authVersion, up, mine.pw)}
          /\ End(p)
          /\ guesses' = [guesses EXCEPT ![mine.who] = 0]
        BY <1>4, <2>1 DEF Succeed, Written, Credential
    <2>3. RowsGrow /\ Revokes /\ credential'[mine.who].password = mine.pw
        BY <1>1, <2>1, <2>2, CredentialWrites
    <2>4. PICK t \in SessionPayload :
              /\ tokens' = tokens \union {t} /\ t.sub = mine.who
              /\ t.ver = mine.acct.authVersion /\ t.password = mine.pw
        <3>1. mine.acct.authVersion \in Nat
            BY <1>1 DEF Account
        <3>2. PICK t : t = Payload(mine.who, mine.acct.authVersion, up, mine.pw)
            OBVIOUS
        <3>3. /\ t \in SessionPayload /\ t.sub = mine.who
              /\ t.ver = mine.acct.authVersion /\ t.password = mine.pw
            BY <1>1, <3>1, <3>2 DEF Payload, SessionPayload
        <3> QED
            BY <2>2, <3>2, <3>3
    <2>5. guesses' \in [Actors -> Nat]
        BY <2>2 DEF AccountsInv, AccountsTypeOK
    <2>6. Issued(t)'
        BY <1>1, <2>3, <2>4 DEF Issued, Exists
    <2> QED
        BY <1>2, <2>2, <2>3, <2>4, <2>5, <2>6, RowStep
<1> QED
    BY <1>3, <1>4

LEMMA RecordFailureKeeps ==
    ASSUME AccountsInv, NEW p \in Callers, RecordFailure(p)
    PROVE  Kept
<1> DEFINE mine == req[p]
           row == credential[mine.who]
           again == [mine EXCEPT !.cred = row, !.tries = @ + 1]
<1>1. /\ mine.op \in {"login", "step-up", "change-password"} /\ mine.at = "failure"
      /\ UNCHANGED <<account, masterRow, tokens, guesses>>
      /\ mine \in LoginRequest \/ mine \in BearerRequest
      /\ mine.who \in Actors /\ Exists(mine.who) /\ mine.tries \in Nat
      /\ mine.acct # Nothing => mine.acct.authVersion <= account[mine.who].authVersion
    BY Serving DEF RecordFailure, LoginRequest, BearerRequest, Honest, Bearing, BearingHonest
<1>2. row \in Credential /\ masterRow' \in Nat /\ guesses' \in [Actors -> Nat]
    BY <1>1, RowTypes DEF AccountsInv, AccountsTypeOK
<1>3. CASE SameCredential(mine)
    <2>1. PICK l \in BOOLEAN : l = (row.locked \/ mine.cred.failed + 1 >= LockAfter)
        OBVIOUS
    <2>2. /\ credential' = [credential EXCEPT ![mine.who] =
                Written(credential[mine.who], credential[mine.who].password,
                        credential[mine.who].failed + 1, l, credential[mine.who].mustChange)]
          /\ End(p)
        BY <1>2, <1>3, <2>1 DEF RecordFailure, Written, Credential
    <2>3. /\ row.password \in Passwords /\ row.failed + 1 \in Nat /\ row.mustChange \in BOOLEAN
        BY <1>2 DEF Credential
    <2>4. RowsGrow /\ Revokes
        BY <1>1, <2>2, <2>3, CredentialWrites
    <2> QED
        BY <1>1, <1>2, <2>2, <2>4, RowStep
<1>4. CASE ~SameCredential(mine)
    <2>1. UNCHANGED credential /\ (End(p) \/ Serve(p, again))
        BY <1>4 DEF RecordFailure
    <2>2. CASE Serve(p, again)
        <3>1. PICK n \in Nat : n = mine.tries + 1
            BY <1>1
        <3>2. again = [mine EXCEPT !.cred = row, !.tries = n]
            BY <3>1
        <3>3. /\ again \in LoginRequest \/ again \in BearerRequest
              /\ again.op = mine.op /\ again.at = "failure" /\ again.who = mine.who
              /\ again.cred = row /\ again.acct = mine.acct
            BY <1>1, <1>2, <3>2 DEF LoginRequest, BearerRequest
        <3> HIDE DEF again
        <3>4. Honest(again)
            BY <1>1, <3>3, SameRow, Served DEF Honest, Bearing, BearingHonest, Administering
        <3> QED
            BY <1>1, <1>2, <2>1, <2>2, <3>4, RequestStep
    <2> QED
        BY <1>1, <1>2, <2>1, <2>2, Ends
<1> QED
    BY <1>3, <1>4

-----------------------------------------------------------------------------
(* Requests of the bearer of a session.                                    *)
LEMMA AuthenticateKeeps ==
    ASSUME AccountsInv, NEW p \in Callers, NEW t \in tokens, ResolveActor(t),
           NEW kind \in {"step-up", "change-password"}, NEW w \in Passwords, NEW new \in Passwords,
           Authenticate(p, t, kind, w, new)
    PROVE  Kept
<1>1. t.sub \in Actors /\ Exists(t.sub) /\ account[t.sub] \in Account
    BY RowTypes DEF AccountsInv, AccountsTypeOK, TokensAreOld, SessionPayload
<1>2. PICK r : r = [op |-> kind, at |-> "cred", who |-> t.sub, pw |-> w, new |-> new,
                    cred |-> Nothing, acct |-> account[t.sub], tries |-> 0]
    OBVIOUS
<1>3. Serve(p, r) /\ UNCHANGED <<account, credential, masterRow, tokens, guesses>>
    BY <1>2 DEF Authenticate
<1>4. /\ r \in BearerRequest /\ r.op = kind /\ r.at = "cred" /\ r.who = t.sub
      /\ r.cred = Nothing /\ r.acct = account[t.sub]
    BY <1>1, <1>2 DEF BearerRequest
<1>5. Honest(r)
    BY <1>1, <1>4, SameRow, Served DEF Honest, Bearing, BearingHonest, Administering
<1> QED
    BY <1>3, <1>5, RequestStep DEF AccountsInv, AccountsTypeOK

LEMMA VerifyKeeps ==
    ASSUME AccountsInv, NEW p \in Callers, VerifyCredential(p)
    PROVE  Kept
<1>1. PICK old : old = req[p]
    OBVIOUS
<1>2. /\ old.op \in {"step-up", "change-password"} /\ old.at = "cred"
      /\ old \in BearerRequest /\ Honest(old)
      /\ UNCHANGED <<account, credential, masterRow, tokens>>
    BY <1>1, Serving DEF VerifyCredential
<1>3. /\ old.who \in Actors /\ Exists(old.who) /\ old.acct \in Account
      /\ old.acct.authVersion <= account[old.who].authVersion
    BY <1>2, NothingAssumption DEF BearerRequest, Honest, Bearing, BearingHonest
<1>4. PICK c \in Credential : c = credential[old.who]
    BY <1>3, RowTypes
<1>5. CASE End(p) /\ UNCHANGED guesses
    BY <1>2, <1>5, Ends DEF AccountsInv, AccountsTypeOK
<1>6. ASSUME NEW at \in {"failure", "fresh", "commit"}, Serve(p, [old EXCEPT !.at = at, !.cred = c]),
             at = "commit" => old.pw = c.password /\ old.op = "step-up",
             guesses' \in [Actors -> Nat]
      PROVE  Kept
    <2>1. PICK r : r = [old EXCEPT !.at = at, !.cred = c]
        OBVIOUS
    <2>2. /\ r \in BearerRequest /\ r.op = old.op /\ r.at = at /\ r.who = old.who
          /\ r.cred = c /\ r.acct = old.acct /\ r.pw = old.pw
        BY <1>2, <1>4, <2>1 DEF BearerRequest
    <2>3. Honest(r)
        BY <1>2, <1>3, <1>4, <1>6, <2>2, SameRow, Served, NothingAssumption
        DEF Honest, Bearing, BearingHonest, Administering
    <2> QED
        BY <1>2, <1>6, <2>1, <2>3, RequestStep
<1>7. CASE /\ Serve(p, [old EXCEPT !.at = "failure", !.cred = c])
           /\ guesses' = [guesses EXCEPT ![old.who] = @ + 1]
    BY <1>3, <1>6, <1>7, Counted
<1>8. CASE /\ old.pw = c.password
           /\ Serve(p, [old EXCEPT !.at = IF old.op = "step-up" THEN "commit" ELSE "fresh", !.cred = c])
           /\ UNCHANGED guesses
    <2>1. guesses' \in [Actors -> Nat]
        BY <1>8 DEF AccountsInv, AccountsTypeOK
    <2>2. CASE old.op = "step-up"
        BY <1>6, <1>8, <2>1, <2>2
    <2>3. CASE old.op # "step-up"
        BY <1>6, <1>8, <2>1, <2>3
    <2> QED
        BY <2>2, <2>3
<1> QED
    BY <1>1, <1>4, <1>5, <1>7, <1>8 DEF VerifyCredential

LEMMA FreshKeeps ==
    ASSUME AccountsInv, NEW p \in Callers, FreshActor(p)
    PROVE  Kept
<1>1. PICK old : old = req[p]
    OBVIOUS
<1>2. /\ old.op = "change-password" /\ old.at = "fresh" /\ old \in BearerRequest
      /\ Honest(old) /\ UNCHANGED <<account, credential, masterRow, tokens, guesses>>
    BY <1>1, Serving DEF FreshActor
<1>3. /\ old.who \in Actors /\ Exists(old.who) /\ old.cred # Nothing /\ Remembered(old.who, old.cred)
    BY <1>2 DEF BearerRequest, Honest, Bearing, BearingHonest
<1>4. PICK x \in Account : x = account[old.who]
    BY <1>3, RowTypes
<1>5. PICK r : r = [old EXCEPT !.at = "commit", !.acct = x]
    OBVIOUS
<1>6. /\ r \in BearerRequest /\ r.op = old.op /\ r.at = "commit" /\ r.who = old.who
      /\ r.cred = old.cred /\ r.acct = x
    BY <1>2, <1>4, <1>5 DEF BearerRequest
<1>7. Honest(r)
    BY <1>2, <1>3, <1>4, <1>6, SameRow, Served DEF Honest, Bearing, BearingHonest, Administering
<1>8. Serve(p, r)
    BY <1>1, <1>2, <1>4, <1>5 DEF FreshActor
<1> QED
    BY <1>2, <1>7, <1>8, RequestStep DEF AccountsInv, AccountsTypeOK

(* The change of the own password: both rows, and one token that lives.    *)
LEMMA OwnPasswordKeeps ==
    ASSUME AccountsInv, NEW p \in Callers, CommitOwnPassword(p)
    PROVE  Kept
<1>1. PICK r : r = req[p]
    OBVIOUS
<1>2. /\ r.op = "change-password" /\ r.at = "commit" /\ r \in BearerRequest /\ Honest(r)
      /\ End(p) /\ UNCHANGED masterRow
    BY <1>1, Serving DEF CommitOwnPassword
<1>3. /\ r.who \in Actors /\ Exists(r.who) /\ r.new \in Passwords /\ r.acct \in Account
    BY <1>2 DEF BearerRequest, Honest, Bearing, BearingHonest
<1>4. CASE UNCHANGED <<account, credential, tokens, guesses>>
    BY <1>2, <1>4, Ends DEF AccountsInv, AccountsTypeOK
<1>5. CASE SameCredential(r) /\ SameAccount(r.who, r.acct)
    <2>1. /\ account' = [account EXCEPT ![r.who].authVersion = @ + 1]
          /\ credential' = [credential EXCEPT ![r.who].password = r.new,
                ![r.who].failed = 0, ![r.who].locked = FALSE,
                ![r.who].mustChange = FALSE, ![r.who].version = @ + 1]
          /\ tokens' = tokens \union {Payload(r.who, r.acct.authVersion + 1, FALSE, r.new)}
          /\ guesses' = [guesses EXCEPT ![r.who] = 0]
        BY <1>1, <1>5 DEF CommitOwnPassword
    <2>2. credential' = [credential EXCEPT ![r.who] =
                            Written(credential[r.who], r.new, 0, FALSE, FALSE)]
        BY <1>3, <2>1, RowTypes DEF Written, Credential
    <2>3. AccountMoves(r.who) /\ account'[r.who].authVersion = r.acct.authVersion + 1
        BY <1>3, <1>5, <2>1, Bumped DEF SameAccount
    <2>4. RowsGrow /\ Revokes /\ credential'[r.who].password = r.new
        BY <1>3, <2>2, <2>3, CredentialWrites
    <2>5. PICK t \in SessionPayload :
              /\ tokens' = tokens \union {t} /\ t.sub = r.who
              /\ t.ver = r.acct.authVersion + 1 /\ t.password = r.new
        <3>1. r.acct.authVersion + 1 \in Nat
            BY <1>3 DEF Account
        <3>2. PICK t : t = Payload(r.who, r.acct.authVersion + 1, FALSE, r.new)
            OBVIOUS
        <3>3. /\ t \in SessionPayload /\ t.sub = r.who
              /\ t.ver = r.acct.authVersion + 1 /\ t.password = r.new
            BY <1>3, <3>1, <3>2 DEF Payload, SessionPayload
        <3> QED
            BY <2>1, <3>2, <3>3
    <2>6. Issued(t)'
        <3>1. r.acct.authVersion + 1 <= r.acct.authVersion + 1
            BY <1>3 DEF Account
        <3>2. Exists(r.who)'
            BY <1>3, <2>4 DEF RowsGrow
        <3> QED
            BY <2>3, <2>4, <2>5, <3>1, <3>2 DEF Issued
    <2>7. masterRow' \in Nat /\ guesses' \in [Actors -> Nat]
        BY <1>2, <2>1 DEF AccountsInv, AccountsTypeOK
    <2> QED
        BY <1>2, <2>4, <2>5, <2>6, <2>7, RowStep
<1> QED
    BY <1>1, <1>4, <1>5 DEF CommitOwnPassword

-----------------------------------------------------------------------------
(* Administration.  The account of a live session exists.                  *)
LEMMA AdminCallKeeps ==
    ASSUME AccountsInv, NEW p \in Callers, NEW t \in tokens, NEW a \in Actors, Exists(a),
           NEW op \in {"deactivate", "role", "reset"}, AdminCall(p, t, op, a)
    PROVE  Kept
<1>1. PICK r : r = [op |-> op, at |-> "target", by |-> t.sub, who |-> a,
                    acct |-> Nothing, cred |-> Nothing, row |-> 0]
    OBVIOUS
<1>2. Serve(p, r) /\ UNCHANGED <<account, credential, masterRow, tokens, guesses>>
    BY <1>1 DEF AdminCall
<1>3. t.sub \in Actors
    BY DEF AccountsInv, AccountsTypeOK, SessionPayload
<1>4. r \in AdminRequest /\ r.op = op /\ r.at = "target" /\ r.who = a
    BY <1>1, <1>3 DEF AdminRequest
<1>5. Honest(r)
    BY <1>4, Served DEF Honest, Bearing, Administering, AdministeringHonest
<1> QED
    BY <1>2, <1>5, RequestStep DEF AccountsInv, AccountsTypeOK

LEMMA ReadTargetKeeps ==
    ASSUME AccountsInv, NEW p \in Callers, ReadTarget(p)
    PROVE  Kept
<1>1. PICK old : old = req[p]
    OBVIOUS
<1>2. /\ old.op \in {"deactivate", "role", "reset"} /\ old \in AdminRequest /\ Honest(old)
      /\ UNCHANGED <<account, credential, masterRow, tokens, guesses>>
    BY <1>1, Serving DEF ReadTarget
<1>3. old.who \in Actors /\ Exists(old.who)
    BY <1>2 DEF AdminRequest, Honest, Administering, AdministeringHonest
<1>4. PICK x \in Account, c \in Credential : x = account[old.who] /\ c = credential[old.who]
    BY <1>3, RowTypes
<1>5. guesses' \in [Actors -> Nat]
    BY <1>2 DEF AccountsInv, AccountsTypeOK
<1>6. CASE End(p)
    BY <1>2, <1>5, <1>6, Ends
<1>7. ASSUME NEW at \in {"count", "commit"},
             Serve(p, [old EXCEPT !.acct = x, !.cred = c, !.at = at])
      PROVE  Kept
    <2>1. PICK r : r = [old EXCEPT !.acct = x, !.cred = c, !.at = at]
        OBVIOUS
    <2>2. r \in AdminRequest /\ r.op = old.op /\ r.who = old.who /\ r.acct = x /\ r.cred = c
        BY <1>2, <2>1 DEF AdminRequest
    <2>3. Honest(r)
        BY <1>2, <1>3, <2>2, Served, NothingAssumption
        DEF Honest, Bearing, Administering, AdministeringHonest
    <2> QED
        BY <1>2, <1>5, <1>7, <2>1, <2>3, RequestStep
<1>8. \/ End(p)
      \/ \E at \in {"count", "commit"} : Serve(p, [old EXCEPT !.acct = x, !.cred = c, !.at = at])
    BY <1>1, <1>4 DEF ReadTarget
<1> QED
    BY <1>6, <1>7, <1>8

(* Counting the masters, and the row that serialises them.                 *)
LEMMA AdminGoesOn ==
    ASSUME AccountsInv, NEW p \in Callers, NEW old, old = req[p],
           old.op \in {"deactivate", "role", "reset"}, old.at # "target",
           NEW at \in {"row", "commit"}, NEW n \in Nat,
           Serve(p, [old EXCEPT !.at = at, !.row = n]),
           UNCHANGED <<account, credential, masterRow, tokens, guesses>>
    PROVE  Kept
<1>1. old \in AdminRequest /\ Honest(old)
    BY Serving
<1>2. PICK r : r = [old EXCEPT !.at = at, !.row = n]
    OBVIOUS
<1>3. /\ r \in AdminRequest /\ r.op = old.op /\ r.who = old.who /\ r.acct = old.acct
      /\ r.cred = old.cred
    BY <1>1, <1>2 DEF AdminRequest
<1>4. Honest(r)
    BY <1>1, <1>3, Served DEF Honest, Bearing, Administering, AdministeringHonest
<1> QED
    BY <1>2, <1>4, RequestStep DEF AccountsInv, AccountsTypeOK

LEMMA CountMastersKeeps ==
    ASSUME AccountsInv, NEW p \in Callers, CountMasters(p)
    PROVE  Kept
<1>1. PICK old : old = req[p]
    OBVIOUS
<1>2. /\ old.op \in {"deactivate", "role"} /\ old.at = "count" /\ old \in AdminRequest
      /\ UNCHANGED <<account, credential, masterRow, tokens, guesses>>
    BY <1>1, Serving DEF CountMasters
<1>3. PICK n \in Nat : n = old.row
    BY <1>2 DEF AdminRequest
<1>4. CASE End(p)
    BY <1>2, <1>4, Ends DEF AccountsInv, AccountsTypeOK
<1>5. ASSUME NEW at \in {"row", "commit"}, CallerGoto(p, at) PROVE Kept
    <2>1. [old EXCEPT !.at = at] = [old EXCEPT !.at = at, !.row = n]
        BY <1>2, <1>3 DEF AdminRequest
    <2>2. Serve(p, [old EXCEPT !.at = at, !.row = n])
        BY <1>1, <1>5, <2>1 DEF CallerGoto
    <2>3. old.op \in {"deactivate", "role", "reset"} /\ old.at # "target"
        BY <1>2
    <2> QED
        BY <1>1, <1>2, <2>2, <2>3, AdminGoesOn
<1>6. End(p) \/ \E at \in {"row", "commit"} : CallerGoto(p, at)
    BY <1>1, <1>2 DEF CountMasters
<1> QED
    BY <1>4, <1>5, <1>6

LEMMA ReadMasterRowKeeps ==
    ASSUME AccountsInv, NEW p \in Callers, ReadMasterRow(p)
    PROVE  Kept
<1>1. PICK old : old = req[p]
    OBVIOUS
<1>2. PICK n \in Nat : n = masterRow
    BY DEF AccountsInv, AccountsTypeOK
<1>3. /\ old.op = "deactivate" /\ old.at = "row"
      /\ Serve(p, [old EXCEPT !.at = "commit", !.row = n])
      /\ UNCHANGED <<account, credential, masterRow, tokens, guesses>>
    BY <1>1, <1>2 DEF ReadMasterRow
<1> QED
    BY <1>1, <1>3, AdminGoesOn

(* A commit of deactivation or role: another authVersion.                  *)
LEMMA AccountCommitKeeps ==
    ASSUME AccountsInv, NEW p \in Callers, NEW a \in Actors, Exists(a), NEW x \in Account,
           x.authVersion = account[a].authVersion + 1, account' = [account EXCEPT ![a] = x],
           masterRow' \in Nat, End(p), UNCHANGED <<credential, tokens, guesses>>
    PROVE  Kept
<1>1. RowsGrow /\ Revokes
    BY AccountGrows
<1>2. guesses' \in [Actors -> Nat]
    BY DEF AccountsInv, AccountsTypeOK
<1> QED
    BY <1>1, <1>2, RowStep

LEMMA DeactivationKeeps ==
    ASSUME AccountsInv, NEW p \in Callers, CommitDeactivation(p)
    PROVE  Kept
<1>1. PICK r : r = req[p]
    OBVIOUS
<1>2. /\ r.op = "deactivate" /\ r \in AdminRequest /\ Honest(r)
      /\ End(p) /\ UNCHANGED <<credential, tokens, guesses>>
    BY <1>1, Serving DEF CommitDeactivation
<1>3. r.who \in Actors /\ Exists(r.who) /\ r.row \in Nat
    BY <1>2 DEF AdminRequest, Honest, Administering, AdministeringHonest
<1>4. CASE UNCHANGED <<account, masterRow>>
    BY <1>2, <1>4, Ends DEF AccountsInv, AccountsTypeOK
<1>5. CASE account' = [account EXCEPT ![r.who].active = FALSE, ![r.who].authVersion = @ + 1]
           /\ masterRow' \in {masterRow, r.row + 1}
    <2>1. PICK y \in Account : y = account[r.who]
        BY <1>3, RowTypes
    <2>2. PICK v \in Nat : v = y.authVersion + 1
        BY DEF Account
    <2>3. PICK x : x = [y EXCEPT !.active = FALSE, !.authVersion = v]
        OBVIOUS
    <2>4. x \in Account /\ x.authVersion = v
        BY <2>3 DEF Account
    <2>5. account' = [account EXCEPT ![r.who] = x]
        BY <1>3, <1>5, <2>1, <2>2, <2>3 DEF AccountsInv, AccountsTypeOK
    <2>6. masterRow' \in Nat
        BY <1>3, <1>5 DEF AccountsInv, AccountsTypeOK
    <2> QED
        BY <1>2, <1>3, <2>1, <2>2, <2>4, <2>5, <2>6, AccountCommitKeeps
<1> QED
    BY <1>1, <1>4, <1>5 DEF CommitDeactivation

LEMMA RoleKeeps ==
    ASSUME AccountsInv, NEW p \in Callers, CommitRole(p)
    PROVE  Kept
<1>1. PICK r : r = req[p]
    OBVIOUS
<1>2. /\ r.op = "role" /\ r \in AdminRequest /\ Honest(r)
      /\ End(p) /\ UNCHANGED <<credential, masterRow, tokens, guesses>>
    BY <1>1, Serving DEF CommitRole
<1>3. r.who \in Actors /\ Exists(r.who)
    BY <1>2 DEF AdminRequest, Honest, Administering, AdministeringHonest
<1>4. CASE UNCHANGED account
    BY <1>2, <1>4, Ends DEF AccountsInv, AccountsTypeOK
<1>5. ASSUME NEW role \in Roles,
             account' = [account EXCEPT ![r.who].role = role, ![r.who].authVersion = @ + 1]
      PROVE  Kept
    <2>1. PICK y \in Account : y = account[r.who]
        BY <1>3, RowTypes
    <2>2. PICK v \in Nat : v = y.authVersion + 1
        BY DEF Account
    <2>3. PICK x : x = [y EXCEPT !.role = role, !.authVersion = v]
        OBVIOUS
    <2>4. x \in Account /\ x.authVersion = v
        BY <2>3 DEF Account
    <2>5. account' = [account EXCEPT ![r.who] = x]
        BY <1>3, <1>5, <2>1, <2>2, <2>3 DEF AccountsInv, AccountsTypeOK
    <2>6. masterRow' \in Nat
        BY <1>2 DEF AccountsInv, AccountsTypeOK
    <2> QED
        BY <1>2, <1>3, <2>1, <2>2, <2>4, <2>5, <2>6, AccountCommitKeeps
<1>6. \/ UNCHANGED account
      \/ \E role \in Roles :
            account' = [account EXCEPT ![r.who].role = role, ![r.who].authVersion = @ + 1]
    BY <1>1 DEF CommitRole, Roles
<1> QED
    BY <1>4, <1>5, <1>6

LEMMA ResetKeeps ==
    ASSUME AccountsInv, NEW p \in Callers, NEW w \in Passwords, CommitReset(p, w)
    PROVE  Kept
<1>1. PICK r : r = req[p]
    OBVIOUS
<1>2. /\ r.op = "reset" /\ r \in AdminRequest /\ Honest(r)
      /\ End(p) /\ UNCHANGED <<masterRow, tokens>>
    BY <1>1, Serving DEF CommitReset
<1>3. r.who \in Actors /\ Exists(r.who)
    BY <1>2 DEF AdminRequest, Honest, Administering, AdministeringHonest
<1>4. CASE UNCHANGED <<account, credential, guesses>>
    BY <1>2, <1>4, Ends DEF AccountsInv, AccountsTypeOK
<1>5. CASE /\ account' = [account EXCEPT ![r.who].authVersion = @ + 1]
           /\ credential' = [credential EXCEPT ![r.who].password = w,
                 ![r.who].failed = 0, ![r.who].locked = FALSE,
                 ![r.who].mustChange = TRUE, ![r.who].version = @ + 1]
           /\ guesses' = [guesses EXCEPT ![r.who] = 0]
    <2>1. credential' = [credential EXCEPT ![r.who] =
                            Written(credential[r.who], w, 0, FALSE, TRUE)]
        BY <1>3, <1>5, RowTypes DEF Written, Credential
    <2>2. AccountMoves(r.who)
        BY <1>3, <1>5, Bumped
    <2>3. RowsGrow /\ Revokes
        BY <1>3, <2>1, <2>2, CredentialWrites
    <2>4. masterRow' \in Nat /\ guesses' \in [Actors -> Nat]
        BY <1>2, <1>5 DEF AccountsInv, AccountsTypeOK
    <2> QED
        BY <1>2, <2>3, <2>4, RowStep
<1> QED
    BY <1>1, <1>4, <1>5 DEF CommitReset

LEMMA ProvisionActorKeeps ==
    ASSUME AccountsInv, NEW p \in Callers, NEW t \in tokens, NEW e \in Emails,
           ProvisionActor(p, t, e)
    PROVE  Kept
<1>1. PICK r : r = [op |-> "provision", at |-> "commit", by |-> t.sub, email |-> e]
    OBVIOUS
<1>2. Serve(p, r) /\ UNCHANGED <<account, credential, masterRow, tokens, guesses>>
    BY <1>1 DEF ProvisionActor
<1>3. t.sub \in Actors
    BY DEF AccountsInv, AccountsTypeOK, SessionPayload
<1>4. r \in Request /\ r.op = "provision"
    BY <1>1, <1>3 DEF Request
<1>5. Honest(r)
    BY <1>4 DEF Honest, Bearing, Administering
<1> QED
    BY <1>2, <1>5, RequestStep DEF AccountsInv, AccountsTypeOK

(* A new account, of an identity that nobody had.                          *)
LEMMA NewAccountGrows ==
    ASSUME AccountsInv, NEW a \in Actors, ~Exists(a), NEW x \in Account, NEW c \in Credential,
           account' = [account EXCEPT ![a] = x], credential' = [credential EXCEPT ![a] = c]
    PROVE  RowsGrow /\ Revokes
<1>1. /\ account \in [Actors -> Account \union {Nothing}]
      /\ credential \in [Actors -> Credential \union {Nothing}]
    BY DEF AccountsInv, AccountsTypeOK
<1>2. x # Nothing /\ c # Nothing
    BY NothingAssumption
<1>3. Paired'
    BY <1>1, <1>2 DEF AccountsInv, Paired, Exists
<1>4. \A b \in Actors : Exists(b) => account'[b] = account[b] /\ credential'[b] = credential[b]
    BY <1>1
<1>5. \A b \in Actors : Exists(b) => account[b].authVersion \in Nat /\ credential[b].version \in Nat
    BY RowTypes
<1> QED
    BY <1>1, <1>3, <1>4, <1>5 DEF RowsGrow, Revokes, Exists

LEMMA CommitProvisionKeeps ==
    ASSUME AccountsInv, NEW p \in Callers, NEW role \in Roles, NEW w \in Passwords,
           CommitProvision(p, role, w)
    PROVE  Kept
<1>1. PICK r : r = req[p]
    OBVIOUS
<1>2. r.op = "provision" /\ End(p) /\ UNCHANGED <<masterRow, tokens, guesses>>
    BY <1>1 DEF CommitProvision
<1>3. r.email \in Emails
    <2>1. r \in Request \union {CallerIdle}
        BY <1>1 DEF AccountsInv, AccountsTypeOK
    <2> QED
        BY <1>2, <2>1 DEF Request, CallerIdle
<1>4. CASE UNCHANGED <<account, credential>>
    BY <1>2, <1>4, Ends DEF AccountsInv, AccountsTypeOK
<1>5. CASE /\ \E a \in Actors : ~Exists(a)
           /\ account' = [account EXCEPT ![randomUUID] =
                 [role |-> role, active |-> TRUE, authVersion |-> 1]]
           /\ credential' = [credential EXCEPT ![randomUUID] =
                 NewCredential(r.email, r.email, w, TRUE)]
    <2>1. PICK a \in Actors : a = randomUUID /\ ~Exists(a)
        BY <1>5 DEF randomUUID
    <2>2. PICK x \in Account : x = [role |-> role, active |-> TRUE, authVersion |-> 1]
        BY DEF Account
    <2>3. PICK c \in Credential : c = NewCredential(r.email, r.email, w, TRUE)
        BY <1>3 DEF NewCredential, Credential
    <2>4. RowsGrow /\ Revokes
        BY <1>5, <2>1, <2>2, <2>3, NewAccountGrows
    <2> QED
        BY <1>2, <2>4, RowStep DEF AccountsInv, AccountsTypeOK
<1> QED
    BY <1>1, <1>4, <1>5 DEF CommitProvision, StableCredentialId

(* A lock that ends, in the row and for whoever read it.                   *)
LEMMA LockExpiresKeeps ==
    ASSUME AccountsInv, NEW a \in Actors, LockExpires(a)
    PROVE  Kept
<1>1. /\ Exists(a) /\ guesses' = [guesses EXCEPT ![a] = 0]
      /\ credential' = [credential EXCEPT ![a].locked = FALSE]
      /\ UNCHANGED <<account, masterRow, tokens>>
    BY DEF LockExpires
<1>2. PICK row \in Credential : row = credential[a]
    BY <1>1, RowTypes
<1>3. PICK c : c = [row EXCEPT !.locked = FALSE]
    OBVIOUS
<1>4. c \in Credential /\ c.version = row.version /\ c.password = row.password
    BY <1>3 DEF Credential
<1>5. credential' = [credential EXCEPT ![a] = c]
    BY <1>1, <1>2, <1>3
<1>6. RowsGrow /\ Revokes
    BY <1>1, <1>2, <1>4, <1>5, CredentialGrows
<1>7. ASSUME NEW q \in Callers
      PROVE  req'[q] \in Request \union {CallerIdle} /\ Honest(req'[q])
    <2>1. PICK old : old = req[q] /\ Honest(old)
        BY Serving
    <2>2. CASE req'[q] = old
        BY <2>1, <2>2 DEF Honest
    <2>3. CASE old.op = "login" /\ req'[q] = [old EXCEPT !.cred.locked = FALSE]
        <3>1. old \in LoginRequest
            BY <2>1, <2>3, Serving
        <3>2. PICK d \in Credential : d = old.cred
            BY <3>1 DEF LoginRequest
        <3>3. PICK n : n = [d EXCEPT !.locked = FALSE]
            OBVIOUS
        <3>4. n \in Credential /\ n.version = d.version /\ n.password = d.password
            BY <3>3 DEF Credential
        <3>5. PICK r : r = [old EXCEPT !.cred = n]
            OBVIOUS
        <3>6. /\ r \in LoginRequest /\ r.op = "login" /\ r.at = old.at /\ r.who = old.who
              /\ r.cred = n /\ r.acct = old.acct /\ r.pw = old.pw
            BY <2>3, <3>1, <3>4, <3>5 DEF LoginRequest
        <3>7. Exists(old.who) /\ Remembered(old.who, d) /\ BearingHonest(old) /\ d # Nothing
            BY <2>1, <2>3, <3>2, NothingAssumption DEF Honest, Bearing, BearingHonest
        <3>8. BearingHonest(r)
            <4>1. Remembered(old.who, n) /\ n # Nothing
                BY <3>4, <3>7, NothingAssumption DEF Remembered
            <4>2. r.at = "commit" => r.pw = n.password
                BY <2>3, <3>2, <3>4, <3>6, <3>7 DEF BearingHonest
            <4> QED
                BY <2>3, <3>6, <3>7, <4>1, <4>2 DEF BearingHonest
        <3>9. Honest(r)
            BY <3>6, <3>8, Served DEF Honest, Bearing, Administering
        <3> QED
            BY <2>3, <3>2, <3>3, <3>5, <3>9 DEF Honest
    <2> QED
        BY <2>1, <2>2, <2>3 DEF LockExpires
<1>8. req' \in [Callers -> Request \union {CallerIdle}]
    BY <1>7 DEF LockExpires
<1> QED
    BY <1>1, <1>6, <1>7, <1>8, RowsKeep DEF AccountsInv, AccountsTypeOK

-----------------------------------------------------------------------------
LEMMA InitInv == AccountsInit => AccountsInv
<1> SUFFICES ASSUME AccountsInit PROVE AccountsInv
    OBVIOUS
<1>1. ASSUME NEW a \in FirstMasters
      PROVE  /\ [role |-> "hq_master", active |-> TRUE, authVersion |-> 1] \in Account
             /\ NewCredential(a, a, FirstPassword, FALSE) \in Credential
    BY ActorAssumption, PasswordAssumption DEF Account, Credential, NewCredential, Roles
<1>2. /\ account \in [Actors -> Account \union {Nothing}]
      /\ credential \in [Actors -> Credential \union {Nothing}]
    BY <1>1 DEF AccountsInit
<1>3. Paired
    BY <1>1, NothingAssumption DEF AccountsInit, Paired, Exists
<1>4. AccountsTypeOK
    BY <1>2 DEF AccountsInit, AccountsTypeOK, Request
<1>5. Honest(CallerIdle)
    BY DEF Honest, CallerIdle, Bearing, Administering
<1> QED
    BY <1>3, <1>4, <1>5 DEF AccountsInit, AccountsInv, TokensAreOld, LiveSessionKnowsPassword,
                            RequestsHonest

LEMMA StepInv ==
    ASSUME AccountsInv, [AccountsNext]_accountVars
    PROVE  Kept
<1>1. CASE UNCHANGED accountVars
    <2>1. AccountsInv'
        BY <1>1 DEF accountVars, AccountsInv, AccountsTypeOK, Paired, TokensAreOld,
                    LiveSessionKnowsPassword, Live, RequestsHonest, Honest, BearingHonest,
                    AdministeringHonest, Remembered, Exists
    <2>2. RowsGrow /\ Revokes
        BY <1>1, NothingGrows DEF accountVars
    <2> QED
        BY <2>1, <2>2 DEF Kept
<1>2. ASSUME NEW p \in Callers, NEW a \in Actors, NEW w \in Passwords, LoginRead(p, a, w)
      PROVE  Kept
    BY <1>2, LoginReadKeeps
<1>3. ASSUME NEW p \in Callers,
             \/ LoginActor(p) \/ FinishLogin(p) \/ RecordFailure(p)
             \/ VerifyCredential(p) \/ StepUpCommit(p)
             \/ FreshActor(p) \/ CommitOwnPassword(p)
      PROVE  Kept
    BY <1>3, LoginActorKeeps, SucceedKeeps, RecordFailureKeeps, VerifyKeeps, FreshKeeps,
       OwnPasswordKeeps DEF FinishLogin, StepUpCommit
<1>4. ASSUME NEW p \in Callers,
             \/ ReadTarget(p) \/ CountMasters(p) \/ ReadMasterRow(p)
             \/ CommitDeactivation(p) \/ CommitRole(p)
             \/ \E w \in Passwords : CommitReset(p, w)
             \/ \E role \in Roles, w \in Passwords : CommitProvision(p, role, w)
      PROVE  Kept
    BY <1>4, ReadTargetKeeps, CountMastersKeeps, ReadMasterRowKeeps, DeactivationKeeps,
       RoleKeeps, ResetKeeps, CommitProvisionKeeps
<1>5. ASSUME NEW p \in Callers, NEW t \in tokens,
             \/ \E w \in Passwords : StepUp(p, t, w)
             \/ \E w, new \in Passwords : ChangeOwnPassword(p, t, w, new)
      PROVE  Kept
    BY <1>5, AuthenticateKeeps DEF StepUp, ChangeOwnPassword, PreHandler
<1>6. ASSUME NEW p \in Callers, NEW t \in tokens,
             \/ \E a \in Actors : \/ DeactivateActor(p, t, a)
                                  \/ ChangeActorRole(p, t, a)
                                  \/ ResetActor(p, t, a)
             \/ \E e \in Emails : ProvisionActor(p, t, e)
      PROVE  Kept
    BY <1>6, AdminCallKeeps, ProvisionActorKeeps DEF DeactivateActor, ChangeActorRole, ResetActor
<1> QED
    BY <1>1, <1>2, <1>3, <1>4, <1>5, <1>6, LockExpiresKeeps DEF AccountsNext

LEMMA Invariance == AccountsSpec => []AccountsInv
<1>1. AccountsInv /\ [AccountsNext]_accountVars => AccountsInv'
    BY StepInv DEF Kept
<1> QED
    BY <1>1, InitInv, PTL DEF AccountsSpec

(* AccountsTypeOK: rows, tokens and requests have their types.             *)
THEOREM AccountsTyped == AccountsSpec => []AccountsTypeOK
<1>1. AccountsInv => AccountsTypeOK
    BY DEF AccountsInv
<1> QED
    BY <1>1, Invariance, PTL

(* LiveSessionKnowsPassword: whoever holds a session that is accepted has   *)
(* typed the password of now (auth-service.ts:88-115, 260-282).            *)
THEOREM SessionsKnowPassword == AccountsSpec => []LiveSessionKnowsPassword
<1>1. AccountsInv => LiveSessionKnowsPassword
    BY DEF AccountsInv
<1> QED
    BY <1>1, Invariance, PTL

(* A session that is refused because its account changed or was            *)
(* deactivated is never accepted again, whatever commits meanwhile         *)
(* (auth-service.ts:88-115, 167-247, 260-282).                             *)
RevokedForGood == [][\A t \in tokens : ~Live(t) => ~Live(t)']_accountVars

THEOREM RevokedStaysRevoked == AccountsSpec => RevokedForGood
<1>1. AccountsInv /\ [AccountsNext]_accountVars
        => [\A t \in tokens : ~Live(t) => ~Live(t)']_accountVars
    <2> SUFFICES ASSUME AccountsInv, [AccountsNext]_accountVars, NEW t \in tokens
                 PROVE  ~Live(t) => ~Live(t)'
        OBVIOUS
    <2>1. /\ t.sub \in Actors /\ t.ver \in Nat /\ Exists(t.sub)
          /\ t.ver <= account[t.sub].authVersion /\ account[t.sub].authVersion \in Nat
        BY RowTypes DEF AccountsInv, AccountsTypeOK, TokensAreOld, SessionPayload
    <2>2. RowsGrow /\ Revokes
        BY StepInv DEF Kept
    <2>3. account[t.sub].authVersion <= account'[t.sub].authVersion
        BY <2>1, <2>2 DEF RowsGrow
    <2> QED
        BY <2>1, <2>2, <2>3 DEF Revokes, Live
<1> QED
    BY <1>1, Invariance, PTL DEF AccountsSpec, RevokedForGood

-----------------------------------------------------------------------------
(* Failures are counted.                                                   *)

(* Of the requests R: those that have still to record a failure of a, and  *)
(* the logins that found its credential unlocked and have not compared the *)
(* password yet.                                                           *)
Failing(R, a) == {p \in Callers : Bearing(R[p]) /\ R[p].at = "failure" /\ R[p].who = a}
Late(R, a) ==
    {p \in Callers : R[p].op = "login" /\ R[p].at = "actor" /\ R[p].who = a /\ ~R[p].cred.locked}

(* The guesses g since the version a period began with: the failures that  *)
(* were recorded, which are all commits of the period, and those of N that *)
(* are not recorded yet, each of which lost against commits of the period. *)
(* A lock that ran out leaves the failures counted; the next one locks.    *)
Accounted(c, g, R, since, N) ==
    /\ c.version - since <= IF c.failed < LockAfter THEN c.failed ELSE 0
    /\ g <= (c.version - since) + Cardinality(N)
    /\ \A p \in N : R[p].tries = 0 \/ since + R[p].tries <= R[p].cred.version + 1

Open(c, g, R, a) ==
    \E since \in 0 .. c.version : \E N \in SUBSET Failing(R, a) : Accounted(c, g, R, since, N)

(* Once it is locked only the late logins guess, and the request that      *)
(* locked it is none of them.                                              *)
Shut(c, g, R, a) ==
    /\ c.failed >= LockAfter
    /\ g + Cardinality(Late(R, a)) <= LockAfter - 1 + Cardinality(Callers)

Accountable(c, g, R, a) == IF c.locked THEN Shut(c, g, R, a) ELSE Open(c, g, R, a)

(* What a request remembers of a credential of the same version.           *)
SameCount(r) == Bearing(r) =>
    /\ r.cred # Nothing /\ r.cred.version = credential[r.who].version
          => r.cred.failed = credential[r.who].failed
    /\ r.at \in {"actor", "cred"} => r.tries = 0

CountInv ==
    /\ \A a \in Actors : IF Exists(a) THEN Accountable(credential[a], guesses[a], req, a)
                         ELSE guesses[a] = 0
    /\ \A p \in Callers : SameCount(req[p])

-----------------------------------------------------------------------------
(* Counting callers.                                                       *)
LEMMA CallersFinite ==
    ASSUME NEW S \in SUBSET Callers
    PROVE  IsFiniteSet(S) /\ Cardinality(S) \in Nat /\ Cardinality(S) <= Cardinality(Callers)
           /\ Cardinality(Callers) \in Nat
BY CallerAssumption, FS_Subset, FS_CardinalityType

LEMMA OneMoreCaller ==
    ASSUME NEW S \in SUBSET Callers, NEW p \in Callers, p \notin S
    PROVE  Cardinality(S \union {p}) = Cardinality(S) + 1 /\ Cardinality(S) + 1 <= Cardinality(Callers)
<1>1. Cardinality(S \union {p}) = Cardinality(S) + 1
  BY CallersFinite, FS_AddElement
<1>2. S \union {p} \in SUBSET Callers
  OBVIOUS
<1> QED BY <1>1, <1>2, CallersFinite

LEMMA OneCallerLess ==
    ASSUME NEW S \in SUBSET Callers, NEW p \in Callers
    PROVE  /\ p \in S => Cardinality(S \ {p}) + 1 = Cardinality(S)
           /\ Cardinality(S) <= Cardinality(S \ {p}) + 1
<1>1. Cardinality(S \ {p}) \in Nat
  BY CallersFinite
<1>2. p \in S => Cardinality(S \ {p}) + 1 = Cardinality(S)
  <2>1. p \in S => (S \ {p}) \union {p} = S
    OBVIOUS
  <2> QED BY <2>1, OneMoreCaller
<1>3. p \notin S => S \ {p} = S
  OBVIOUS
<1> QED BY <1>1, <1>2, <1>3

-----------------------------------------------------------------------------
(* What the requests of one account do.                                    *)
LEMMA AccountableBounds ==
    ASSUME NEW c \in Credential, NEW g \in Nat, NEW R, NEW a, Accountable(c, g, R, a)
    PROVE  g <= LockAfter + Cardinality(Callers) - 1
<1>1. PICK n \in Nat, k \in Nat \ {0} : n = Cardinality(Callers) /\ k = LockAfter
  BY CallersFinite, LimitAssumption
<1>2. CASE c.locked
  <2>1. Cardinality(Late(R, a)) \in Nat
    BY CallersFinite DEF Late
  <2> QED BY <1>1, <1>2, <2>1 DEF Accountable, Shut
<1>3. CASE ~c.locked
  <2>1. PICK since \in 0 .. c.version, N \in SUBSET Failing(R, a) : Accounted(c, g, R, since, N)
    BY <1>3 DEF Accountable, Open
  <2>2. PICK m \in Nat : m = Cardinality(N) /\ m <= n
    BY <1>1, CallersFinite DEF Failing
  <2>3. PICK v \in Nat, f \in Nat : v = c.version /\ f = c.failed
    BY DEF Credential
  <2>4. v - since <= k - 1
    BY <1>1, <2>1, <2>3 DEF Accounted
  <2> QED BY <1>1, <2>1, <2>2, <2>3, <2>4 DEF Accounted
<1> QED BY <1>2, <1>3

LEMMA OthersAccountable ==
    ASSUME NEW c \in Credential, NEW g \in Nat, NEW R, NEW S, NEW a, Accountable(c, g, R, a),
           c.locked => Late(S, a) \subseteq Late(R, a),
           \A q \in Failing(R, a) : S[q] = R[q]
    PROVE  Accountable(c, g, S, a)
<1>1. CASE c.locked
  <2>1. PICK x \in Nat, y \in Nat : x = Cardinality(Late(S, a)) /\ y = Cardinality(Late(R, a)) /\ x <= y
    <3>1. Late(R, a) \in SUBSET Callers /\ IsFiniteSet(Late(R, a))
      BY CallersFinite DEF Late
    <3> QED BY <1>1, <3>1, FS_Subset, FS_CardinalityType
  <2>2. PICK n \in Nat, k \in Nat \ {0} : n = Cardinality(Callers) /\ k = LockAfter
    BY CallersFinite, LimitAssumption
  <2> QED BY <1>1, <2>1, <2>2 DEF Accountable, Shut
<1>2. CASE ~c.locked
  <2>1. PICK since \in 0 .. c.version, N \in SUBSET Failing(R, a) : Accounted(c, g, R, since, N)
    BY <1>2 DEF Accountable, Open
  <2>2. N \in SUBSET Failing(S, a)
    BY DEF Failing
  <2>3. Accounted(c, g, S, since, N)
    BY <2>1 DEF Accounted
  <2> QED BY <1>2, <2>2, <2>3 DEF Accountable, Open
<1> QED BY <1>1, <1>2

LEMMA GuessAccountable ==
    ASSUME NEW c \in Credential, NEW g \in Nat, NEW R, NEW S, NEW a, Accountable(c, g, R, a),
           NEW p \in Callers, \A q \in Callers \ {p} : S[q] = R[q],
           p \notin Failing(R, a), p \in Failing(S, a), S[p].tries = 0,
           c.locked => p \in Late(R, a)
    PROVE  Accountable(c, g + 1, S, a)
<1>1. CASE c.locked
  <2>1. PICK L, M : L = Late(R, a) /\ M = Late(S, a)
    OBVIOUS
  <2>2. p \in L /\ L \in SUBSET Callers /\ M = L \ {p}
    BY <1>1, <2>1 DEF Late, Failing
  <2>3. PICK x \in Nat, y \in Nat : x = Cardinality(M) /\ y = Cardinality(L) /\ y = x + 1
    <3>1. Cardinality(M) + 1 = Cardinality(L)
      BY <2>2, OneCallerLess
    <3>2. Cardinality(M) \in Nat /\ Cardinality(L) \in Nat
      BY <2>2, CallersFinite
    <3> QED BY <3>1, <3>2
  <2>4. PICK n \in Nat, k \in Nat \ {0} : n = Cardinality(Callers) /\ k = LockAfter
    BY CallersFinite, LimitAssumption
  <2> QED BY <1>1, <2>1, <2>3, <2>4 DEF Accountable, Shut
<1>2. CASE ~c.locked
  <2>1. PICK since \in 0 .. c.version, N \in SUBSET Failing(R, a) : Accounted(c, g, R, since, N)
    BY <1>2 DEF Accountable, Open
  <2>2. PICK O : O = N \union {p} /\ O \in SUBSET Failing(S, a)
    <3>1. Failing(R, a) \subseteq Failing(S, a)
      BY DEF Failing
    <3> QED BY ONLY <3>1, N \in SUBSET Failing(R, a), p \in Failing(S, a)
  <2>3. p \notin N /\ N \in SUBSET Callers
    BY DEF Failing
  <2>4. PICK x \in Nat, y \in Nat : x = Cardinality(N) /\ y = Cardinality(O) /\ y = x + 1
    <3>1. Cardinality(O) = Cardinality(N) + 1 /\ Cardinality(N) \in Nat
      BY <2>2, <2>3, OneMoreCaller, CallersFinite
    <3> QED BY <3>1
  <2>5. PICK v \in Nat : v = c.version
    BY DEF Credential
  <2>6. Accounted(c, g + 1, S, since, O)
    <3>1. g + 1 <= (c.version - since) + Cardinality(O)
      BY <2>1, <2>4, <2>5 DEF Accounted
    <3>2. \A q \in O : S[q].tries = 0 \/ since + S[q].tries <= S[q].cred.version + 1
      BY <2>1, <2>2, <2>3 DEF Accounted
    <3> QED BY <2>1, <3>1, <3>2 DEF Accounted
  <2> QED BY <1>2, <2>2, <2>6 DEF Accountable, Open
<1> QED BY <1>1, <1>2

(* A conflict: some commit came first.                                     *)
LEMMA RetryAccountable ==
    ASSUME NEW c \in Credential, NEW g \in Nat, NEW R, NEW S, NEW a, Accountable(c, g, R, a),
           NEW p \in Callers, \A q \in Callers \ {p} : S[q] = R[q],
           p \in Failing(R, a), p \in Failing(S, a),
           R[p].tries \in Nat, R[p].cred.version \in Nat, R[p].cred.version < c.version,
           S[p].tries = R[p].tries + 1, S[p].cred.version = c.version
    PROVE  Accountable(c, g, S, a)
<1>1. CASE c.locked
  <2>1. Late(S, a) = Late(R, a)
    BY DEF Late, Failing
  <2> QED BY <1>1, <2>1 DEF Accountable, Shut
<1>2. CASE ~c.locked
  <2>1. PICK since \in 0 .. c.version, N \in SUBSET Failing(R, a) : Accounted(c, g, R, since, N)
    BY <1>2 DEF Accountable, Open
  <2>2. N \in SUBSET Failing(S, a)
    BY DEF Failing
  <2>3. PICK v \in Nat, t \in Nat, w \in Nat : v = c.version /\ t = R[p].tries /\ w = R[p].cred.version
    BY DEF Credential
  <2>4. p \in N => since + S[p].tries <= S[p].cred.version + 1
    <3>1. p \in N => t = 0 \/ since + t <= w + 1
      BY <2>1, <2>3 DEF Accounted
    <3>2. w < v /\ since <= v /\ since \in Nat /\ S[p].tries = t + 1 /\ S[p].cred.version = v
      BY <2>3
    <3> QED BY <3>1, <3>2
  <2>5. Accounted(c, g, S, since, N)
    <3>1. \A q \in N : S[q].tries = 0 \/ since + S[q].tries <= S[q].cred.version + 1
      <4>1. \A q \in N : q # p => S[q] = R[q]
        BY DEF Failing
      <4> QED BY <2>1, <2>4, <4>1 DEF Accounted
    <3> QED BY <2>1, <3>1 DEF Accounted
  <2> QED BY <1>2, <2>2, <2>5 DEF Accountable, Open
<1> QED BY <1>1, <1>2

(* A request gives up only a failure of an earlier period: in one period   *)
(* fewer commits than LockAfter lead to the lock.                          *)
LEMMA DropAccountable ==
    ASSUME NEW c \in Credential, NEW g \in Nat, NEW R, NEW S, NEW a, Accountable(c, g, R, a),
           NEW p \in Callers, \A q \in Callers \ {p} : S[q] = R[q],
           p \in Failing(R, a), p \notin Late(S, a),
           R[p].tries \in Nat, R[p].cred.version \in Nat, R[p].cred.version < c.version,
           R[p].tries + 1 >= MaxRetries
    PROVE  Accountable(c, g, S, a)
<1>1. CASE c.locked
  <2>1. Late(S, a) = Late(R, a)
    BY DEF Late, Failing
  <2> QED BY <1>1, <2>1 DEF Accountable, Shut
<1>2. CASE ~c.locked
  <2>1. PICK since \in 0 .. c.version, N \in SUBSET Failing(R, a) : Accounted(c, g, R, since, N)
    BY <1>2 DEF Accountable, Open
  <2>2. PICK v \in Nat, t \in Nat, w \in Nat, f \in Nat :
            v = c.version /\ t = R[p].tries /\ w = R[p].cred.version /\ f = c.failed
    BY DEF Credential
  <2>3. PICK k \in Nat \ {0}, m \in Nat : k = LockAfter /\ m = MaxRetries /\ m > k
    BY LimitAssumption
  <2>4. v - since <= k - 1
    BY <2>1, <2>2, <2>3 DEF Accounted
  <2>5. p \notin N
    <3>1. p \in N => t = 0 \/ since + t <= w + 1
      BY <2>1, <2>2 DEF Accounted
    <3>2. w < v /\ since \in Nat /\ since <= v /\ t + 1 >= m
      BY <2>2, <2>3
    <3> QED BY <2>3, <2>4, <3>1, <3>2
  <2>6. \A q \in N : S[q] = R[q]
    BY <2>5 DEF Failing
  <2>7. N \in SUBSET Failing(S, a)
    BY <2>6 DEF Failing
  <2>8. Accounted(c, g, S, since, N)
    BY <2>1, <2>6 DEF Accounted
  <2> QED BY <1>2, <2>7, <2>8 DEF Accountable, Open
<1> QED BY <1>1, <1>2

(* A failure is recorded, and locks the account or not.                    *)
LEMMA RecordAccountable ==
    ASSUME NEW c \in Credential, NEW d \in Credential, NEW g \in Nat, NEW R, NEW S, NEW a,
           Accountable(c, g, R, a),
           NEW p \in Callers, \A q \in Callers \ {p} : S[q] = R[q],
           p \in Failing(R, a), p \notin Late(S, a),
           d.version = c.version + 1, d.failed = c.failed + 1,
           d.locked <=> c.locked \/ c.failed + 1 >= LockAfter
    PROVE  Accountable(d, g, S, a)
<1>1. Late(S, a) = Late(R, a) /\ p \notin Late(R, a) /\ Late(R, a) \in SUBSET Callers
  BY DEF Late, Failing
<1>2. PICK n \in Nat, k \in Nat \ {0}, l \in Nat :
          n = Cardinality(Callers) /\ k = LockAfter /\ l = Cardinality(Late(R, a))
  BY <1>1, CallersFinite, LimitAssumption
<1>3. PICK v \in Nat, f \in Nat : v = c.version /\ f = c.failed
  BY DEF Credential
<1>4. CASE c.locked
  <2>1. f >= k /\ g + l <= k - 1 + n
    BY <1>2, <1>3, <1>4 DEF Accountable, Shut
  <2> QED BY <1>1, <1>2, <1>3, <1>4, <2>1 DEF Accountable, Shut
<1>5. CASE ~c.locked
  <2>1. PICK since \in 0 .. c.version, N \in SUBSET Failing(R, a) : Accounted(c, g, R, since, N)
    BY <1>5 DEF Accountable, Open
  <2>2. PICK m \in Nat : m = Cardinality(N) /\ N \in SUBSET Callers
    BY CallersFinite DEF Failing
  <2>3. v - since <= (IF f < k THEN f ELSE 0) /\ g <= (v - since) + m
    BY <1>2, <1>3, <2>1, <2>2 DEF Accounted
  <2>4. since \in Nat /\ since <= v
    BY <1>3
  <2>5. CASE d.locked
    <3>1. m + l <= n
      <4>1. N \intersect Late(R, a) = {} /\ N \union Late(R, a) \in SUBSET Callers
        BY <1>1, <2>2 DEF Late, Failing
      <4>2. Cardinality(N \union Late(R, a)) = m + l
        <5>1. IsFiniteSet(N) /\ IsFiniteSet(Late(R, a)) /\ Cardinality({}) = 0
          BY <1>1, <2>2, CallersFinite, FS_EmptySet
        <5>2. Cardinality(N \union Late(R, a)) =
                  Cardinality(N) + Cardinality(Late(R, a)) - Cardinality(N \intersect Late(R, a))
          BY <5>1, FS_Union
        <5> QED BY <1>2, <2>2, <4>1, <5>1, <5>2
      <4> QED BY <1>2, <4>1, <4>2, CallersFinite
    <3>2. f + 1 >= k /\ g + l <= k - 1 + n
      BY <1>2, <1>3, <1>5, <2>3, <2>4, <2>5, <3>1
    <3> QED BY <1>1, <1>2, <1>3, <2>5, <3>2 DEF Accountable, Shut
  <2>6. CASE ~d.locked
    <3>1. f + 1 < k
      BY <1>2, <1>3, <1>5, <2>6
    <3>2. PICK O : O = N \ {p} /\ O \in SUBSET Failing(S, a)
      <4>1. Failing(R, a) \ {p} \subseteq Failing(S, a)
        BY DEF Failing
      <4> QED BY ONLY <4>1, N \in SUBSET Failing(R, a)
    <3>3. PICK x \in Nat : x = Cardinality(O) /\ m <= x + 1
      BY <2>2, <3>2, OneCallerLess, CallersFinite
    <3>4. Accounted(d, g, S, since, O)
      <4>1. d.version - since <= IF d.failed < LockAfter THEN d.failed ELSE 0
        BY <1>2, <1>3, <2>3, <2>4, <3>1
      <4>2. g <= (d.version - since) + Cardinality(O)
        BY <1>3, <2>3, <2>4, <3>3
      <4>3. \A q \in O : S[q].tries = 0 \/ since + S[q].tries <= S[q].cred.version + 1
        <5>1. \A q \in O : S[q] = R[q] /\ q \in N
          BY <2>2, <3>2
        <5> QED BY <2>1, <5>1 DEF Accounted
      <4> QED BY <4>1, <4>2, <4>3 DEF Accounted
    <3>5. since \in 0 .. d.version
      BY <1>3, <2>4
    <3> QED BY <2>6, <3>2, <3>4, <3>5 DEF Accountable, Open
  <2> QED BY <2>5, <2>6
<1> QED BY <1>4, <1>5

(* A period begins.                                                        *)
LEMMA AnewAccountable ==
    ASSUME NEW d \in Credential, ~d.locked, NEW S, NEW a
    PROVE  Accountable(d, 0, S, a)
<1>1. PICK v \in Nat, f \in Nat : v = d.version /\ f = d.failed
  BY DEF Credential
<1>2. Cardinality({}) = 0 /\ {} \in SUBSET Failing(S, a)
  BY FS_EmptySet
<1>3. Accounted(d, 0, S, v, {})
  BY <1>1, <1>2, LimitAssumption DEF Accounted
<1>4. v \in 0 .. d.version
  BY <1>1
<1> QED BY <1>2, <1>3, <1>4 DEF Accountable, Open

-----------------------------------------------------------------------------
(* Steps.                                                                  *)
FailedStays == \A a \in Actors :
    Exists(a) /\ credential'[a].version = credential[a].version => credential'[a].failed = credential[a].failed

LEMMA SameCountStays ==
    ASSUME AccountsInv, RowsGrow, FailedStays, NEW r, Honest(r), SameCount(r)
    PROVE  SameCount(r)'
<1> SUFFICES ASSUME Bearing(r), r.cred # Nothing, r.cred.version = credential'[r.who].version
             PROVE  r.cred.failed = credential'[r.who].failed
  BY DEF SameCount, Bearing
<1>1. /\ r.who \in Actors /\ Exists(r.who) /\ r.cred \in Credential
      /\ r.cred.version <= credential[r.who].version
  BY BearingTypes DEF Honest, BearingHonest, Remembered
<1>2. credential[r.who].version <= credential'[r.who].version
  BY <1>1 DEF RowsGrow
<1>3. r.cred.version \in Nat /\ credential[r.who].version \in Nat
  BY <1>1, RowTypes DEF Credential
<1>4. credential[r.who].version = r.cred.version
  BY <1>1, <1>2, <1>3
<1> QED BY <1>1, <1>4 DEF FailedStays, SameCount

LEMMA SomeoneExists ==
    ASSUME AccountsInv, Kept
    PROVE  \A a \in Actors : /\ Exists(a) => Exists(a)'
                             /\ credential'[a] = credential[a] => (Exists(a)' <=> Exists(a))
<1>1. Paired /\ Paired' /\ RowsGrow
  BY DEF Kept, AccountsInv
<1> QED BY <1>1 DEF Paired, Exists, RowsGrow

(* The counts of an account that the step of another request leaves alone. *)
LEMMA AccountLeftAlone ==
    ASSUME AccountsInv, CountInv, Kept, NEW b \in Actors,
           credential'[b] = credential[b], guesses'[b] = guesses[b],
           Exists(b) /\ credential[b].locked => Late(req', b) \subseteq Late(req, b),
           \A q \in Failing(req, b) : req'[q] = req[q]
    PROVE  IF Exists(b)' THEN Accountable(credential'[b], guesses'[b], req', b) ELSE guesses'[b] = 0
<1>1. Exists(b)' <=> Exists(b)
  BY SomeoneExists
<1>2. CASE Exists(b)
  <2>1. credential[b] \in Credential /\ guesses[b] \in Nat
    BY <1>2, RowTypes DEF AccountsInv, AccountsTypeOK
  <2>2. Accountable(credential[b], guesses[b], req, b)
    BY <1>2 DEF CountInv
  <2>3. Accountable(credential[b], guesses[b], req', b)
    BY <1>2, <2>1, <2>2, OthersAccountable
  <2> QED BY <1>1, <1>2, <2>3
<1>3. CASE ~Exists(b)
  BY <1>1, <1>3 DEF CountInv
<1> QED BY <1>2, <1>3

LEMMA ServeIs ==
    ASSUME AccountsInv, NEW p \in Callers, NEW r, Serve(p, r)
    PROVE  req'[p] = r /\ \A q \in Callers \ {p} : req'[q] = req[q]
BY DEF Serve, AccountsInv, AccountsTypeOK

LEMMA IdleIs ==
    /\ ~Bearing(CallerIdle) /\ SameCount(CallerIdle) /\ CallerIdle.op = "idle"
    /\ SameCount(CallerIdle)'
BY DEF CallerIdle, Bearing, SameCount

(* A step that neither guesses nor writes a credential, of a request that  *)
(* has no failure to record.                                               *)
LEMMA QuietStep ==
    ASSUME AccountsInv, CountInv, Kept, NEW p \in Callers, NEW r, Serve(p, r),
           UNCHANGED <<credential, guesses>>,
           ~(Bearing(req[p]) /\ req[p].at = "failure"), SameCount(r)',
           r.op = "login" /\ r.at = "actor" /\ r.who \in Actors /\ Exists(r.who) /\ credential[r.who].locked
               => r.cred.locked
    PROVE  CountInv'
<1>1. req'[p] = r /\ \A q \in Callers \ {p} : req'[q] = req[q]
  BY ServeIs
<1>2. ASSUME NEW b \in Actors
      PROVE  IF Exists(b)' THEN Accountable(credential'[b], guesses'[b], req', b) ELSE guesses'[b] = 0
  <2>1. \A q \in Failing(req, b) : req'[q] = req[q]
    BY <1>1 DEF Failing
  <2>2. ASSUME Exists(b), credential[b].locked PROVE Late(req', b) \subseteq Late(req, b)
    BY <1>1, <2>2 DEF Late
  <2> QED BY <2>1, <2>2, AccountLeftAlone
<1>3. ASSUME NEW q \in Callers PROVE SameCount(req[q])'
  <2>1. CASE q = p
    BY <1>1, <2>1 DEF SameCount
  <2>2. CASE q # p
    BY <1>1, <2>2 DEF CountInv, SameCount
  <2> QED BY <2>1, <2>2
<1> QED BY <1>2, <1>3 DEF CountInv

LEMMA QuietEnd ==
    ASSUME AccountsInv, CountInv, Kept, NEW p \in Callers, End(p), UNCHANGED <<credential, guesses>>,
           ~(Bearing(req[p]) /\ req[p].at = "failure")
    PROVE  CountInv'
BY IdleIs, QuietStep DEF End

(* The password of a is found wrong.                                       *)
LEMMA GuessStep ==
    ASSUME AccountsInv, CountInv, Kept, NEW p \in Callers, NEW a \in Actors, NEW r, Serve(p, r),
           UNCHANGED credential, guesses' = [guesses EXCEPT ![a] = @ + 1],
           Bearing(req[p]), req[p].at # "failure", req[p].who = a, Exists(a),
           credential[a].locked => p \in Late(req, a),
           Bearing(r), r.at = "failure", r.who = a, r.tries = 0, SameCount(r)'
    PROVE  CountInv'
<1>1. req'[p] = r /\ \A q \in Callers \ {p} : req'[q] = req[q]
  BY ServeIs
<1>2. guesses'[a] = guesses[a] + 1 /\ \A b \in Actors \ {a} : guesses'[b] = guesses[b]
  BY DEF AccountsInv, AccountsTypeOK
<1>3. ASSUME NEW b \in Actors, b # a
      PROVE  IF Exists(b)' THEN Accountable(credential'[b], guesses'[b], req', b) ELSE guesses'[b] = 0
  <2>1. \A q \in Failing(req, b) : req'[q] = req[q]
    BY <1>1 DEF Failing
  <2>2. Late(req', b) \subseteq Late(req, b)
    BY <1>1, <1>3 DEF Late
  <2> QED BY <1>2, <1>3, <2>1, <2>2, AccountLeftAlone
<1>4. Exists(a)' /\ Accountable(credential'[a], guesses'[a], req', a)
  <2>1. credential[a] \in Credential /\ guesses[a] \in Nat /\ Accountable(credential[a], guesses[a], req, a)
    BY RowTypes DEF AccountsInv, AccountsTypeOK, CountInv
  <2>2. p \notin Failing(req, a) /\ p \in Failing(req', a) /\ req'[p].tries = 0
    BY <1>1 DEF Failing
  <2>3. Accountable(credential[a], guesses[a] + 1, req', a)
    BY <1>1, <2>1, <2>2, GuessAccountable
  <2> QED BY <1>2, <2>3, SomeoneExists
<1>5. ASSUME NEW q \in Callers PROVE SameCount(req[q])'
  <2>1. CASE q = p
    BY <1>1, <2>1 DEF SameCount
  <2>2. CASE q # p
    BY <1>1, <2>2 DEF CountInv, SameCount
  <2> QED BY <2>1, <2>2
<1> QED BY <1>3, <1>4, <1>5 DEF CountInv

(* A commit that forgets the failures of a.                                *)
LEMMA ForgetStep ==
    ASSUME AccountsInv, CountInv, Kept, NEW p \in Callers, NEW a \in Actors, End(p), Exists(a),
           NEW d \in Credential, credential' = [credential EXCEPT ![a] = d],
           ~d.locked, d.version = credential[a].version + 1,
           guesses' = [guesses EXCEPT ![a] = 0],
           ~(Bearing(req[p]) /\ req[p].at = "failure")
    PROVE  CountInv'
<1>1. req'[p] = CallerIdle /\ \A q \in Callers \ {p} : req'[q] = req[q]
  BY ServeIs DEF End
<1>2. /\ credential'[a] = d /\ \A b \in Actors \ {a} : credential'[b] = credential[b]
      /\ guesses'[a] = 0 /\ \A b \in Actors \ {a} : guesses'[b] = guesses[b]
  BY DEF AccountsInv, AccountsTypeOK
<1>3. ASSUME NEW b \in Actors, b # a
      PROVE  IF Exists(b)' THEN Accountable(credential'[b], guesses'[b], req', b) ELSE guesses'[b] = 0
  <2>1. \A q \in Failing(req, b) : req'[q] = req[q]
    BY <1>1 DEF Failing
  <2>2. Late(req', b) \subseteq Late(req, b)
    BY <1>1, IdleIs DEF Late
  <2> QED BY <1>2, <1>3, <2>1, <2>2, AccountLeftAlone
<1>4. Exists(a)' /\ Accountable(credential'[a], guesses'[a], req', a)
  BY <1>2, SomeoneExists, AnewAccountable
<1>5. RowsGrow /\ FailedStays
  <2>1. credential[a].version \in Nat
    BY RowTypes
  <2>2. d.version # credential[a].version
    BY <2>1
  <2>3. ASSUME NEW b \in Actors, Exists(b), credential'[b].version = credential[b].version
        PROVE  credential'[b].failed = credential[b].failed
    BY <1>2, <2>2, <2>3
  <2> QED BY <2>3 DEF Kept, FailedStays
<1>6. ASSUME NEW q \in Callers PROVE SameCount(req[q])'
  <2>1. CASE q = p
    BY <1>1, <2>1, IdleIs DEF SameCount
  <2>2. CASE q # p
    <3>1. PICK r : r = req[q] /\ r = req'[q] /\ Honest(r) /\ SameCount(r)
      BY <1>1, <2>2, Serving DEF CountInv
    <3>2. SameCount(r)'
      BY <1>5, <3>1, SameCountStays
    <3> QED BY <3>1, <3>2 DEF SameCount
  <2> QED BY <2>1, <2>2
<1> QED BY <1>3, <1>4, <1>6 DEF CountInv

-----------------------------------------------------------------------------
(* The requests of those with a password.                                  *)
LEMMA FreshCount ==
    ASSUME NEW r, SameCount(r), UNCHANGED credential
    PROVE  SameCount(r)'
BY DEF SameCount

LEMMA CountLoginRead ==
    ASSUME AccountsInv, CountInv, Kept, NEW p \in Callers, NEW a \in Actors, NEW w \in Passwords,
           LoginRead(p, a, w)
    PROVE  CountInv'
<1>1. PICK r : r = [op |-> "login", at |-> "actor", who |-> a, pw |-> w,
                    cred |-> credential[a], acct |-> Nothing, tries |-> 0]
  OBVIOUS
<1>2. Serve(p, r) /\ UNCHANGED <<credential, guesses>> /\ req[p] = CallerIdle
  BY <1>1 DEF LoginRead
<1>3. r.who = a /\ r.cred = credential[a] /\ r.tries = 0
  BY <1>1
<1>4. SameCount(r)'
  BY <1>2, <1>3 DEF SameCount
<1>5. ~Bearing(req[p])
  BY <1>2, IdleIs
<1>6. r.op = "login" /\ r.at = "actor" /\ r.who \in Actors /\ Exists(r.who) /\ credential[r.who].locked
          => r.cred.locked
  BY <1>3
<1> QED BY <1>2, <1>4, <1>5, <1>6, QuietStep

LEMMA CountLoginActor ==
    ASSUME AccountsInv, CountInv, Kept, NEW p \in Callers, LoginActor(p)
    PROVE  CountInv'
<1>1. PICK old : old = req[p]
  OBVIOUS
<1>2. /\ old.op = "login" /\ old.at = "actor" /\ old \in LoginRequest /\ Bearing(old)
      /\ UNCHANGED credential /\ SameCount(old)
  BY <1>1, Serving DEF LoginActor, CountInv, Bearing
<1>3. old.who \in Actors /\ Exists(old.who) /\ old.tries = 0
  BY <1>1, <1>2, Serving DEF LoginRequest, Honest, BearingHonest, SameCount
<1>4. CASE End(p) /\ UNCHANGED guesses
  BY <1>1, <1>2, <1>4, QuietEnd
<1>5. CASE /\ CallerGoto(p, "failure") /\ ~old.cred.locked
           /\ guesses' = [guesses EXCEPT ![old.who] = @ + 1]
  <2>1. PICK r : r = [old EXCEPT !.at = "failure"]
    OBVIOUS
  <2>2. r.op = "login" /\ r.at = "failure" /\ r.who = old.who /\ r.tries = 0 /\ r.cred = old.cred
    BY <1>2, <1>3, <2>1 DEF LoginRequest
  <2>3. Serve(p, r)
    BY <1>1, <1>5, <2>1 DEF CallerGoto
  <2>4. SameCount(r)'
    BY <1>2, <2>2 DEF SameCount, Bearing
  <2>5. p \in Late(req, old.who)
    BY <1>1, <1>2, <1>5 DEF Late
  <2>6. PICK a \in Actors : a = old.who
    BY <1>3
  <2> QED BY <1>1, <1>2, <1>3, <1>5, <2>2, <2>3, <2>4, <2>5, <2>6, GuessStep DEF Bearing
<1>6. CASE /\ Serve(p, [old EXCEPT !.at = "commit", !.acct = account[old.who]])
           /\ UNCHANGED guesses
  <2>1. PICK r : r = [old EXCEPT !.at = "commit", !.acct = account[old.who]]
    OBVIOUS
  <2>2. r.op = "login" /\ r.at = "commit" /\ r.who = old.who /\ r.cred = old.cred
    BY <1>2, <2>1 DEF LoginRequest
  <2>3. SameCount(r)'
    BY <1>2, <2>2 DEF SameCount, Bearing
  <2> QED BY <1>1, <1>2, <1>6, <2>1, <2>2, <2>3, QuietStep
<1> QED BY <1>1, <1>2, <1>4, <1>5, <1>6 DEF LoginActor

LEMMA CountVerify ==
    ASSUME AccountsInv, CountInv, Kept, NEW p \in Callers, VerifyCredential(p)
    PROVE  CountInv'
<1>1. PICK old : old = req[p]
  OBVIOUS
<1>2. /\ old.op \in {"step-up", "change-password"} /\ old.at = "cred" /\ old \in BearerRequest
      /\ Bearing(old) /\ UNCHANGED credential /\ SameCount(old)
  BY <1>1, Serving DEF VerifyCredential, CountInv, Bearing
<1>3. old.who \in Actors /\ Exists(old.who) /\ old.tries = 0
  BY <1>1, <1>2, Serving DEF BearerRequest, Honest, BearingHonest, SameCount
<1>4. PICK c : c = credential[old.who]
  OBVIOUS
<1>5. ASSUME NEW at \in {"failure", "fresh", "commit"}, NEW r, r = [old EXCEPT !.at = at, !.cred = c]
      PROVE  r.op = old.op /\ r.at = at /\ r.who = old.who /\ r.tries = 0 /\ r.cred = c /\ SameCount(r)'
  <2>1. r.op = old.op /\ r.at = at /\ r.who = old.who /\ r.tries = 0 /\ r.cred = c
    BY <1>2, <1>3, <1>5 DEF BearerRequest
  <2> QED BY <1>2, <1>4, <2>1 DEF SameCount
<1>6. CASE End(p) /\ UNCHANGED guesses
  BY <1>1, <1>2, <1>6, QuietEnd
<1>7. CASE /\ ~c.locked /\ Serve(p, [old EXCEPT !.at = "failure", !.cred = c])
           /\ guesses' = [guesses EXCEPT ![old.who] = @ + 1]
  <2>1. PICK r : r = [old EXCEPT !.at = "failure", !.cred = c]
    OBVIOUS
  <2>2. r.op = old.op /\ r.at = "failure" /\ r.who = old.who /\ r.tries = 0 /\ SameCount(r)'
    BY <1>5, <2>1
  <2>3. PICK a \in Actors : a = old.who
    BY <1>3
  <2>4. Serve(p, r) /\ Bearing(r) /\ ~credential[a].locked
    BY <1>2, <1>4, <1>7, <2>1, <2>2, <2>3 DEF Bearing
  <2> QED BY <1>1, <1>2, <1>3, <1>7, <2>2, <2>3, <2>4, GuessStep
<1>8. CASE /\ Serve(p, [old EXCEPT !.at = IF old.op = "step-up" THEN "commit" ELSE "fresh", !.cred = c])
           /\ UNCHANGED guesses
  <2>1. PICK at \in {"fresh", "commit"} : at = IF old.op = "step-up" THEN "commit" ELSE "fresh"
    OBVIOUS
  <2>2. PICK r : r = [old EXCEPT !.at = at, !.cred = c]
    OBVIOUS
  <2>3. r.op = old.op /\ r.at = at /\ SameCount(r)'
    BY <1>5, <2>1, <2>2
  <2>4. Serve(p, r)
    BY <1>8, <2>1, <2>2
  <2> QED BY <1>1, <1>2, <1>8, <2>1, <2>3, <2>4, QuietStep
<1> QED BY <1>1, <1>4, <1>6, <1>7, <1>8 DEF VerifyCredential

LEMMA CountFresh ==
    ASSUME AccountsInv, CountInv, Kept, NEW p \in Callers, FreshActor(p)
    PROVE  CountInv'
<1>1. PICK old : old = req[p]
  OBVIOUS
<1>2. /\ old.op = "change-password" /\ old.at = "fresh" /\ old \in BearerRequest
      /\ UNCHANGED <<credential, guesses>> /\ SameCount(old)
  BY <1>1, Serving DEF FreshActor, CountInv
<1>3. PICK r : r = [old EXCEPT !.at = "commit", !.acct = account[old.who]]
  OBVIOUS
<1>4. Serve(p, r)
  BY <1>1, <1>3 DEF FreshActor
<1>5. r.op = old.op /\ r.at = "commit" /\ r.who = old.who /\ r.cred = old.cred
  BY <1>2, <1>3 DEF BearerRequest
<1>6. SameCount(r)'
  BY <1>2, <1>5 DEF SameCount, Bearing
<1> QED BY <1>1, <1>2, <1>4, <1>5, <1>6, QuietStep

LEMMA CountAuthenticate ==
    ASSUME AccountsInv, CountInv, Kept, NEW p \in Callers, NEW t,
           NEW kind \in {"step-up", "change-password"}, NEW w, NEW new, Authenticate(p, t, kind, w, new)
    PROVE  CountInv'
<1>1. PICK r : r = [op |-> kind, at |-> "cred", who |-> t.sub, pw |-> w, new |-> new,
                    cred |-> Nothing, acct |-> account[t.sub], tries |-> 0]
  OBVIOUS
<1>2. Serve(p, r) /\ UNCHANGED <<credential, guesses>> /\ ~Bearing(req[p])
  BY <1>1, IdleIs DEF Authenticate
<1>3. r.op = kind /\ r.cred = Nothing /\ r.tries = 0
  BY <1>1
<1>4. SameCount(r)'
  BY <1>3 DEF SameCount
<1> QED BY <1>2, <1>3, <1>4, QuietStep

-----------------------------------------------------------------------------
(* Commits.                                                                *)
LEMMA CountForgets ==
    ASSUME AccountsInv, CountInv, Kept, NEW p \in Callers, NEW a \in Actors, Exists(a), End(p),
           NEW w \in Passwords, NEW must \in BOOLEAN,
           credential' = [credential EXCEPT ![a] = Written(credential[a], w, 0, FALSE, must)],
           guesses' = [guesses EXCEPT ![a] = 0],
           ~(Bearing(req[p]) /\ req[p].at = "failure")
    PROVE  CountInv'
<1>1. PICK row \in Credential : row = credential[a]
  BY RowTypes
<1>2. PICK d : d = Written(row, w, 0, FALSE, must)
  OBVIOUS
<1>3. d \in Credential /\ d.version = row.version + 1
  <2>1. PICK f \in Nat, l \in BOOLEAN : f = 0 /\ l = FALSE
    OBVIOUS
  <2>2. d = Written(row, w, f, l, must) /\ row \in Credential
    BY ONLY <1>1, <1>2, <2>1
  <2> QED BY ONLY <2>2, f \in Nat, l \in BOOLEAN, w \in Passwords, must \in BOOLEAN, CredentialUpdate
<1>4. ~d.locked
  BY <1>1, <1>2 DEF Written, Credential
<1>5. credential' = [credential EXCEPT ![a] = d] /\ d.version = credential[a].version + 1
  BY <1>1, <1>2, <1>3
<1> QED BY <1>3, <1>4, <1>5, ForgetStep

LEMMA CountSucceed ==
    ASSUME AccountsInv, CountInv, Kept, NEW p \in Callers, NEW up \in BOOLEAN,
           req[p].op \in {"login", "step-up"}, req[p].at = "commit", Succeed(p, up)
    PROVE  CountInv'
<1>1. PICK mine : mine = req[p]
  OBVIOUS
<1>2. mine.who \in Actors /\ Exists(mine.who)
  BY <1>1, Serving DEF LoginRequest, BearerRequest, Honest, Bearing, BearingHonest
<1>3. CASE ~SameCredential(mine)
  BY <1>1, <1>3, QuietEnd DEF Succeed
<1>4. CASE SameCredential(mine)
  <2>1. PICK row \in Credential : row = credential[mine.who]
    BY <1>2, RowTypes
  <2>2. PICK w \in Passwords, must \in BOOLEAN : w = row.password /\ must = row.mustChange
    BY <2>1 DEF Credential
  <2>3. credential' = [credential EXCEPT ![mine.who] = Written(credential[mine.who], w, 0, FALSE, must)]
    BY <1>1, <1>4, <2>1, <2>2 DEF Succeed, Written, Credential
  <2>4. End(p) /\ guesses' = [guesses EXCEPT ![mine.who] = 0]
    BY <1>1, <1>4 DEF Succeed
  <2> QED BY <1>2, <2>3, <2>4, CountForgets
<1> QED BY <1>3, <1>4

LEMMA CountOwnPassword ==
    ASSUME AccountsInv, CountInv, Kept, NEW p \in Callers, CommitOwnPassword(p)
    PROVE  CountInv'
<1>1. PICK r : r = req[p]
  OBVIOUS
<1>2. /\ r.op = "change-password" /\ r.at = "commit" /\ r \in BearerRequest /\ Honest(r) /\ End(p)
  BY <1>1, Serving DEF CommitOwnPassword
<1>3. r.who \in Actors /\ Exists(r.who) /\ r.new \in Passwords
  BY <1>2 DEF BearerRequest, Honest, Bearing, BearingHonest
<1>4. CASE UNCHANGED <<credential, guesses>>
  BY <1>1, <1>2, <1>4, QuietEnd
<1>5. CASE /\ credential' = [credential EXCEPT ![r.who].password = r.new,
                ![r.who].failed = 0, ![r.who].locked = FALSE,
                ![r.who].mustChange = FALSE, ![r.who].version = @ + 1]
           /\ guesses' = [guesses EXCEPT ![r.who] = 0]
  <2>1. credential' = [credential EXCEPT ![r.who] = Written(credential[r.who], r.new, 0, FALSE, FALSE)]
    BY <1>3, <1>5, RowTypes DEF Written, Credential
  <2> QED BY <1>1, <1>2, <1>3, <1>5, <2>1, CountForgets
<1> QED BY <1>1, <1>4, <1>5 DEF CommitOwnPassword

LEMMA CountReset ==
    ASSUME AccountsInv, CountInv, Kept, NEW p \in Callers, NEW w \in Passwords, CommitReset(p, w)
    PROVE  CountInv'
<1>1. PICK r : r = req[p]
  OBVIOUS
<1>2. r.op = "reset" /\ r \in AdminRequest /\ Honest(r) /\ End(p) /\ ~Bearing(r)
  BY <1>1, Serving DEF CommitReset, Bearing
<1>3. r.who \in Actors /\ Exists(r.who)
  BY <1>2 DEF AdminRequest, Honest, Administering, AdministeringHonest
<1>4. CASE UNCHANGED <<credential, guesses>>
  BY <1>1, <1>2, <1>4, QuietEnd
<1>5. CASE /\ credential' = [credential EXCEPT ![r.who].password = w,
                ![r.who].failed = 0, ![r.who].locked = FALSE,
                ![r.who].mustChange = TRUE, ![r.who].version = @ + 1]
           /\ guesses' = [guesses EXCEPT ![r.who] = 0]
  <2>1. credential' = [credential EXCEPT ![r.who] = Written(credential[r.who], w, 0, FALSE, TRUE)]
    BY <1>3, <1>5, RowTypes DEF Written, Credential
  <2> QED BY <1>1, <1>2, <1>3, <1>5, <2>1, CountForgets
<1> QED BY <1>1, <1>4, <1>5 DEF CommitReset

(* A failure of a that is recorded, read again or given up.                *)
LEMMA FailureStep ==
    ASSUME AccountsInv, CountInv, Kept, NEW p \in Callers, NEW a \in Actors, NEW r, Serve(p, r),
           Exists(a), req[p].who = a, NEW d \in Credential, guesses' = guesses,
           credential' = [credential EXCEPT ![a] = d],
           d.version = credential[a].version => d.failed = credential[a].failed,
           Accountable(d, guesses[a], req', a),
           SameCount(r)', ~(r.op = "login" /\ r.at = "actor")
    PROVE  CountInv'
<1>1. req'[p] = r /\ \A q \in Callers \ {p} : req'[q] = req[q]
  BY ServeIs
<1>2. credential'[a] = d /\ \A b \in Actors \ {a} : credential'[b] = credential[b]
  BY DEF AccountsInv, AccountsTypeOK
<1>3. ASSUME NEW b \in Actors, b # a
      PROVE  IF Exists(b)' THEN Accountable(credential'[b], guesses'[b], req', b) ELSE guesses'[b] = 0
  <2>1. \A q \in Failing(req, b) : req'[q] = req[q]
    BY <1>1, <1>3 DEF Failing
  <2>2. Late(req', b) \subseteq Late(req, b)
    BY <1>1 DEF Late
  <2> QED BY <1>2, <1>3, <2>1, <2>2, AccountLeftAlone
<1>4. Exists(a)' /\ Accountable(credential'[a], guesses'[a], req', a)
  BY <1>2, SomeoneExists
<1>5. RowsGrow /\ FailedStays
  <2>1. ASSUME NEW b \in Actors, Exists(b), credential'[b].version = credential[b].version
        PROVE  credential'[b].failed = credential[b].failed
    BY <1>2, <2>1
  <2> QED BY <2>1 DEF Kept, FailedStays
<1>6. ASSUME NEW q \in Callers PROVE SameCount(req[q])'
  <2>1. CASE q = p
    BY <1>1, <2>1 DEF SameCount
  <2>2. CASE q # p
    <3>1. PICK s : s = req[q] /\ s = req'[q] /\ Honest(s) /\ SameCount(s)
      BY <1>1, <2>2, Serving DEF CountInv
    <3>2. SameCount(s)'
      BY <1>5, <3>1, SameCountStays
    <3> QED BY <3>1, <3>2 DEF SameCount
  <2> QED BY <2>1, <2>2
<1> QED BY <1>3, <1>4, <1>6 DEF CountInv

LEMMA CountRecordFailure ==
    ASSUME AccountsInv, CountInv, Kept, NEW p \in Callers, RecordFailure(p)
    PROVE  CountInv'
<1>1. PICK mine : mine = req[p]
  OBVIOUS
<1>2. /\ mine.op \in {"login", "step-up", "change-password"} /\ mine.at = "failure"
      /\ mine \in LoginRequest \/ mine \in BearerRequest
      /\ Bearing(mine) /\ Honest(mine) /\ SameCount(mine) /\ guesses' = guesses
  BY <1>1, Serving DEF RecordFailure, Bearing, CountInv
<1>3. /\ mine.who \in Actors /\ Exists(mine.who) /\ mine.tries \in Nat
      /\ mine.cred \in Credential /\ mine.cred # Nothing /\ Remembered(mine.who, mine.cred)
  BY <1>2, BearingTypes DEF Honest, BearingHonest
<1>4. PICK a \in Actors, row \in Credential : a = mine.who /\ row = credential[a] /\ Exists(a)
  BY <1>3, RowTypes
<1>5. Accountable(row, guesses[a], req, a) /\ guesses[a] \in Nat /\ p \in Failing(req, a)
  BY <1>1, <1>2, <1>4 DEF CountInv, AccountsInv, AccountsTypeOK, Failing
<1>6. CASE SameCredential(mine)
  <2>1. mine.cred.failed = row.failed
    BY <1>2, <1>3, <1>4, <1>6 DEF SameCredential, SameCount
  <2>2. PICK l \in BOOLEAN : l = (row.locked \/ row.failed + 1 >= LockAfter)
    OBVIOUS
  <2>3. PICK f \in Nat, w \in Passwords, must \in BOOLEAN :
            f = row.failed + 1 /\ w = row.password /\ must = row.mustChange
    BY DEF Credential
  <2>4. PICK d : d = Written(row, w, f, l, must)
    OBVIOUS
  <2>5. d \in Credential /\ d.version = row.version + 1
    BY <2>4, CredentialUpdate
  <2>6. d.failed = f /\ d.locked = l
    BY <2>4 DEF Written, Credential
  <2>7. /\ credential' = [credential EXCEPT ![mine.who].failed = @ + 1,
                  ![mine.who].locked = @ \/ mine.cred.failed + 1 >= LockAfter,
                  ![mine.who].version = @ + 1]
        /\ End(p)
    BY <1>1, <1>6 DEF RecordFailure
  <2>8. credential' = [credential EXCEPT ![a] = d]
    BY <1>4, <2>1, <2>2, <2>3, <2>4, <2>7 DEF Written, Credential
  <2>9. req'[p] = CallerIdle /\ \A q \in Callers \ {p} : req'[q] = req[q]
    BY <2>7, ServeIs DEF End
  <2>10. p \notin Late(req', a)
    BY <2>9, IdleIs DEF Late
  <2>11. d.locked <=> row.locked \/ row.failed + 1 >= LockAfter
    BY <2>2, <2>6
  <2>12. Accountable(d, guesses[a], req', a)
    BY <1>5, <2>3, <2>5, <2>6, <2>9, <2>10, <2>11, RecordAccountable
  <2>13. d.version # credential[a].version
    BY <1>4, <2>5 DEF Credential
  <2>14. Serve(p, CallerIdle) /\ req[p].who = a
    BY <1>1, <1>4, <2>7 DEF End
  <2>15. SameCount(CallerIdle)' /\ CallerIdle.op # "login"
    BY IdleIs
  <2>16. guesses' = guesses
    BY <1>2
  <2> QED BY <1>4, <2>5, <2>8, <2>12, <2>13, <2>14, <2>15, <2>16, FailureStep
<1>7. CASE ~SameCredential(mine)
  <2>1. mine.cred.version \in Nat /\ row.version \in Nat /\ mine.cred.version < row.version
    <3>1. mine.cred.version \in Nat /\ row.version \in Nat
      BY <1>3, <1>4 DEF Credential
    <3>2. mine.cred.version <= row.version /\ mine.cred.version # row.version
      BY <1>3, <1>4, <1>7 DEF SameCredential, Remembered
    <3> QED BY <3>1, <3>2
  <2>2. credential' = [credential EXCEPT ![a] = row]
    BY <1>1, <1>4, <1>7 DEF RecordFailure, AccountsInv, AccountsTypeOK
  <2>3. CASE mine.tries + 1 < MaxRetries
    <3>1. PICK n \in Nat : n = mine.tries + 1
      BY <1>3
    <3>2. PICK again : again = [mine EXCEPT !.cred = row, !.tries = n]
      OBVIOUS
    <3>3. Serve(p, again)
      BY <1>1, <1>4, <1>7, <2>3, <3>1, <3>2 DEF RecordFailure
    <3>4. /\ again.op = mine.op /\ again.at = "failure" /\ again.who = a
          /\ again.cred = row /\ again.tries = n
      BY <1>2, <1>4, <3>2 DEF LoginRequest, BearerRequest
    <3>5. req'[p] = again /\ \A q \in Callers \ {p} : req'[q] = req[q]
      BY <3>3, ServeIs
    <3>6. p \in Failing(req', a)
      BY <1>2, <3>4, <3>5 DEF Failing, Bearing
    <3>7. /\ req[p].tries \in Nat /\ req[p].cred.version \in Nat /\ req[p].cred.version < row.version
          /\ req'[p].tries = req[p].tries + 1 /\ req'[p].cred.version = row.version
      BY <1>1, <1>3, <2>1, <3>1, <3>4, <3>5
    <3>8. Accountable(row, guesses[a], req', a)
      BY <1>5, <3>5, <3>6, <3>7, RetryAccountable
    <3>9. SameCount(again)'
      <4>1. credential'[a] = row
        BY <2>2 DEF AccountsInv, AccountsTypeOK
      <4> QED BY <3>4, <4>1 DEF SameCount
    <3> QED BY <1>1, <1>2, <1>4, <2>2, <3>3, <3>4, <3>8, <3>9, FailureStep
  <2>4. CASE ~(mine.tries + 1 < MaxRetries)
    <3>1. End(p)
      BY <1>1, <1>7, <2>4 DEF RecordFailure
    <3>2. req'[p] = CallerIdle /\ \A q \in Callers \ {p} : req'[q] = req[q]
      BY <3>1, ServeIs DEF End
    <3>3. p \notin Late(req', a)
      BY <3>2, IdleIs DEF Late
    <3>4. mine.tries + 1 >= MaxRetries
      BY <1>3, <2>4, LimitAssumption
    <3>5. Accountable(row, guesses[a], req', a)
      BY <1>1, <1>3, <1>5, <2>1, <3>2, <3>3, <3>4, DropAccountable
    <3>6. Serve(p, CallerIdle) /\ req[p].who = a
      BY <1>1, <1>4, <3>1 DEF End
    <3>7. SameCount(CallerIdle)' /\ CallerIdle.op # "login"
      BY IdleIs
    <3>8. guesses' = guesses
      BY <1>2
    <3> QED BY <1>4, <2>2, <3>5, <3>6, <3>7, <3>8, FailureStep
  <2> QED BY <2>3, <2>4
<1> QED BY <1>6, <1>7

-----------------------------------------------------------------------------
(* Administration and time.                                                *)
LEMMA CountAdminCall ==
    ASSUME AccountsInv, CountInv, Kept, NEW p \in Callers, NEW t, NEW a,
           NEW op \in {"deactivate", "role", "reset"}, AdminCall(p, t, op, a)
    PROVE  CountInv'
<1>1. PICK r : r = [op |-> op, at |-> "target", by |-> t.sub, who |-> a,
                    acct |-> Nothing, cred |-> Nothing, row |-> 0]
  OBVIOUS
<1>2. Serve(p, r) /\ UNCHANGED <<credential, guesses>> /\ ~Bearing(req[p])
  BY <1>1, IdleIs DEF AdminCall
<1>3. r.op = op /\ r.op # "login" /\ SameCount(r)'
  BY <1>1 DEF SameCount, Bearing
<1> QED BY <1>2, <1>3, QuietStep

LEMMA CountProvisionActor ==
    ASSUME AccountsInv, CountInv, Kept, NEW p \in Callers, NEW t, NEW e, ProvisionActor(p, t, e)
    PROVE  CountInv'
<1>1. PICK r : r = [op |-> "provision", at |-> "commit", by |-> t.sub, email |-> e]
  OBVIOUS
<1>2. Serve(p, r) /\ UNCHANGED <<credential, guesses>> /\ ~Bearing(req[p])
  BY <1>1, IdleIs DEF ProvisionActor
<1>3. r.op # "login" /\ SameCount(r)'
  BY <1>1 DEF SameCount, Bearing
<1> QED BY <1>2, <1>3, QuietStep

(* A request of an administrator that reads.                               *)
LEMMA CountAdminReads ==
    ASSUME AccountsInv, CountInv, Kept, NEW p \in Callers,
           ReadTarget(p) \/ CountMasters(p) \/ ReadMasterRow(p)
    PROVE  CountInv'
<1>1. PICK old : old = req[p]
  OBVIOUS
<1>2. /\ old.op \in {"deactivate", "role", "reset"} /\ old \in AdminRequest /\ ~Bearing(old)
      /\ UNCHANGED <<credential, guesses>>
  BY <1>1, Serving DEF ReadTarget, CountMasters, ReadMasterRow, Bearing
<1>3. CASE End(p)
  BY <1>1, <1>2, <1>3, QuietEnd
<1>4. ASSUME NEW r, r.op = old.op, Serve(p, r) PROVE CountInv'
  <2>1. r.op # "login" /\ SameCount(r)'
    BY <1>2, <1>4 DEF SameCount, Bearing
  <2> QED BY <1>1, <1>2, <1>4, <2>1, QuietStep
<1>5. ASSUME NEW x, NEW c, NEW at, Serve(p, [old EXCEPT !.acct = x, !.cred = c, !.at = at])
      PROVE  CountInv'
  <2>1. PICK r : r = [old EXCEPT !.acct = x, !.cred = c, !.at = at]
    OBVIOUS
  <2>2. r.op = old.op
    BY <1>2, <2>1 DEF AdminRequest
  <2> QED BY <1>4, <1>5, <2>1, <2>2
<1>6. ASSUME NEW at, Serve(p, [old EXCEPT !.at = at])
      PROVE  CountInv'
  <2>1. PICK r : r = [old EXCEPT !.at = at]
    OBVIOUS
  <2>2. r.op = old.op
    BY <1>2, <2>1 DEF AdminRequest
  <2> QED BY <1>4, <1>6, <2>1, <2>2
<1>7. ASSUME NEW at, NEW n, Serve(p, [old EXCEPT !.at = at, !.row = n])
      PROVE  CountInv'
  <2>1. PICK r : r = [old EXCEPT !.at = at, !.row = n]
    OBVIOUS
  <2>2. r.op = old.op
    BY <1>2, <2>1 DEF AdminRequest
  <2> QED BY <1>4, <1>7, <2>1, <2>2
<1>8. CASE ReadTarget(p)
  <2>1. \/ End(p)
        \/ \E x, c, at : Serve(p, [old EXCEPT !.acct = x, !.cred = c, !.at = at])
    BY <1>1, <1>8 DEF ReadTarget
  <2> QED BY <1>3, <1>5, <2>1
<1>9. CASE CountMasters(p)
  <2>1. End(p) \/ \E at : Serve(p, [old EXCEPT !.at = at])
    BY <1>1, <1>9 DEF CountMasters, CallerGoto
  <2> QED BY <1>3, <1>6, <2>1
<1>10. CASE ReadMasterRow(p)
  BY <1>1, <1>7, <1>10 DEF ReadMasterRow
<1> QED BY <1>8, <1>9, <1>10

LEMMA CountAccountCommits ==
    ASSUME AccountsInv, CountInv, Kept, NEW p \in Callers, CommitDeactivation(p) \/ CommitRole(p)
    PROVE  CountInv'
<1>1. /\ req[p].op \in {"deactivate", "role"} /\ ~Bearing(req[p])
      /\ End(p) /\ UNCHANGED <<credential, guesses>>
  BY DEF CommitDeactivation, CommitRole, Bearing
<1> QED BY <1>1, QuietEnd

LEMMA CountProvision ==
    ASSUME AccountsInv, CountInv, Kept, NEW p \in Callers, NEW role \in Roles, NEW w \in Passwords,
           CommitProvision(p, role, w)
    PROVE  CountInv'
<1>1. PICK mine : mine = req[p]
  OBVIOUS
<1>2. mine.op = "provision" /\ End(p) /\ UNCHANGED guesses /\ ~Bearing(mine)
  BY <1>1 DEF CommitProvision, Bearing
<1>3. CASE UNCHANGED credential
  BY <1>1, <1>2, <1>3, QuietEnd
<1>4. CASE /\ \E a \in Actors : ~Exists(a)
           /\ credential' = [credential EXCEPT ![randomUUID] =
                 NewCredential(mine.email, mine.email, w, TRUE)]
  <2>1. PICK a \in Actors : a = randomUUID /\ ~Exists(a)
    BY <1>4 DEF randomUUID
  <2>2. mine.email \in Emails
    <3>1. mine \in Request \union {CallerIdle}
      BY <1>1 DEF AccountsInv, AccountsTypeOK
    <3> QED BY <1>2, <3>1 DEF Request, CallerIdle
  <2>3. PICK d \in Credential : d = NewCredential(mine.email, mine.email, w, TRUE)
    BY <2>2 DEF NewCredential, Credential
  <2>4. ~d.locked
    BY <2>3 DEF NewCredential
  <2>5. credential'[a] = d /\ \A b \in Actors \ {a} : credential'[b] = credential[b]
    BY <1>4, <2>1, <2>3 DEF AccountsInv, AccountsTypeOK
  <2>6. req'[p] = CallerIdle /\ \A q \in Callers \ {p} : req'[q] = req[q]
    BY <1>2, ServeIs DEF End
  <2>7. ASSUME NEW b \in Actors, b # a
        PROVE  IF Exists(b)' THEN Accountable(credential'[b], guesses'[b], req', b) ELSE guesses'[b] = 0
    <3>1. \A q \in Failing(req, b) : req'[q] = req[q]
      BY <1>1, <1>2, <2>6 DEF Failing
    <3>2. Late(req', b) \subseteq Late(req, b)
      BY <2>6, IdleIs DEF Late
    <3> QED BY <1>2, <2>5, <2>7, <3>1, <3>2, AccountLeftAlone
  <2>8. guesses'[a] = 0 /\ Accountable(credential'[a], 0, req', a)
    BY <1>2, <2>1, <2>4, <2>5, AnewAccountable DEF CountInv
  <2>9. RowsGrow /\ FailedStays
    BY <2>1, <2>5 DEF Kept, FailedStays
  <2>10. ASSUME NEW q \in Callers PROVE SameCount(req[q])'
    <3>1. CASE q = p
      BY <2>6, <3>1, IdleIs DEF SameCount
    <3>2. CASE q # p
      <4>1. PICK s : s = req[q] /\ s = req'[q] /\ Honest(s) /\ SameCount(s)
        BY <2>6, <3>2, Serving DEF CountInv
      <4>2. SameCount(s)'
        BY <2>9, <4>1, SameCountStays
      <4> QED BY <4>1, <4>2 DEF SameCount
    <3> QED BY <3>1, <3>2
  <2> QED BY <2>7, <2>8, <2>10 DEF CountInv
<1> QED BY <1>1, <1>3, <1>4 DEF CommitProvision, StableCredentialId

(* A lock runs out: the period begins anew, with the failures it counted.  *)
LEMMA CountLockExpires ==
    ASSUME AccountsInv, CountInv, Kept, NEW a \in Actors, LockExpires(a)
    PROVE  CountInv'
<1>1. /\ Exists(a) /\ guesses' = [guesses EXCEPT ![a] = 0]
      /\ credential' = [credential EXCEPT ![a].locked = FALSE]
  BY DEF LockExpires
<1>2. PICK row \in Credential : row = credential[a]
  BY <1>1, RowTypes
<1>3. PICK d : d = [row EXCEPT !.locked = FALSE]
  OBVIOUS
<1>4. d \in Credential /\ d.version = row.version /\ d.failed = row.failed /\ ~d.locked
  BY <1>3 DEF Credential
<1>5. /\ credential'[a] = d /\ \A b \in Actors \ {a} : credential'[b] = credential[b]
      /\ guesses'[a] = 0 /\ \A b \in Actors \ {a} : guesses'[b] = guesses[b]
  BY <1>1, <1>2, <1>3 DEF AccountsInv, AccountsTypeOK
<1>6. ASSUME NEW q \in Callers
      PROVE  \/ req'[q] = req[q]
             \/ /\ req[q].op = "login" /\ req[q].who = a /\ req[q] \in LoginRequest
                /\ req'[q].op = "login" /\ req'[q].at = req[q].at /\ req'[q].who = a
                /\ req'[q].tries = req[q].tries
                /\ req'[q].cred.version = req[q].cred.version
                /\ req'[q].cred.failed = req[q].cred.failed /\ req[q].cred # Nothing
  <2>1. PICK old : old = req[q]
    OBVIOUS
  <2>2. CASE old.op = "login" /\ old.who = a
    <3>1. old \in LoginRequest
      BY <2>1, <2>2, Serving
    <3>2. PICK c \in Credential : c = old.cred
      BY <3>1 DEF LoginRequest
    <3>3. PICK n : n = [c EXCEPT !.locked = FALSE]
      OBVIOUS
    <3>4. n.version = c.version /\ n.failed = c.failed
      BY <3>3 DEF Credential
    <3>5. PICK r : r = [old EXCEPT !.cred = n]
      OBVIOUS
    <3>6. r.op = old.op /\ r.at = old.at /\ r.who = old.who /\ r.tries = old.tries /\ r.cred = n
      BY <3>1, <3>5 DEF LoginRequest
    <3>7. req'[q] = r
      BY <2>1, <2>2, <3>2, <3>3, <3>5 DEF LockExpires
    <3>8. c # Nothing
      BY NothingAssumption
    <3> QED BY <2>1, <2>2, <3>1, <3>2, <3>4, <3>6, <3>7, <3>8
  <2>3. CASE ~(old.op = "login" /\ old.who = a)
    BY <2>1, <2>3 DEF LockExpires
  <2> QED BY <2>2, <2>3
<1>7. ASSUME NEW b \in Actors, b # a
      PROVE  IF Exists(b)' THEN Accountable(credential'[b], guesses'[b], req', b) ELSE guesses'[b] = 0
  <2>1. \A q \in Failing(req, b) : req'[q] = req[q]
    BY <1>6, <1>7 DEF Failing
  <2>2. Late(req', b) \subseteq Late(req, b)
    <3>1. ASSUME NEW q \in Late(req', b) PROVE q \in Late(req, b)
      <4>1. q \in Callers /\ req'[q].who = b
        BY <3>1 DEF Late
      <4>2. req'[q] = req[q]
        BY <1>6, <1>7, <4>1
      <4> QED BY <3>1, <4>2 DEF Late
    <3> QED BY <3>1
  <2> QED BY <1>5, <1>7, <2>1, <2>2, AccountLeftAlone
<1>8. Exists(a)' /\ Accountable(credential'[a], guesses'[a], req', a)
  BY <1>1, <1>4, <1>5, SomeoneExists, AnewAccountable
<1>9. RowsGrow /\ FailedStays
  <2>1. ASSUME NEW b \in Actors PROVE credential'[b].failed = credential[b].failed
    BY <1>2, <1>4, <1>5
  <2> QED BY <2>1 DEF Kept, FailedStays
<1>10. ASSUME NEW q \in Callers PROVE SameCount(req[q])'
  <2>1. PICK s : s = req[q] /\ Honest(s) /\ SameCount(s)
    BY Serving DEF CountInv
  <2>2. SameCount(s)'
    BY <1>9, <2>1, SameCountStays
  <2>3. CASE req'[q] = req[q]
    BY <2>1, <2>2, <2>3 DEF SameCount
  <2>4. CASE req'[q] # req[q]
    <3>1. PICK r : r = req'[q]
      OBVIOUS
    <3>2. /\ Bearing(s) /\ s.cred # Nothing /\ r.who = s.who /\ r.at = s.at /\ r.tries = s.tries
          /\ r.cred.version = s.cred.version /\ r.cred.failed = s.cred.failed
      BY <1>6, <2>1, <2>4, <3>1 DEF Bearing
    <3>3. SameCount(r)'
      BY <2>2, <3>2 DEF SameCount, Bearing
    <3> QED BY <3>1, <3>3 DEF SameCount
  <2> QED BY <2>3, <2>4
<1> QED BY <1>7, <1>8, <1>10 DEF CountInv

-----------------------------------------------------------------------------
LEMMA CountInit == AccountsInit => CountInv
<1> SUFFICES ASSUME AccountsInit PROVE CountInv
  OBVIOUS
<1>1. ASSUME NEW a \in Actors, Exists(a) PROVE Accountable(credential[a], guesses[a], req, a)
  <2>1. credential[a] \in Credential
    BY <1>1, InitInv, RowTypes
  <2>2. a \in FirstMasters
    BY <1>1 DEF AccountsInit, Exists
  <2>3. ~credential[a].locked
    BY <2>2, ActorAssumption DEF AccountsInit, NewCredential
  <2>4. guesses[a] = 0
    BY DEF AccountsInit
  <2> QED BY <2>1, <2>3, <2>4, AnewAccountable
<1>2. \A a \in Actors : guesses[a] = 0
  BY DEF AccountsInit
<1>3. \A p \in Callers : SameCount(req[p])
  BY IdleIs DEF AccountsInit
<1> QED BY <1>1, <1>2, <1>3 DEF CountInv

LEMMA CountStays ==
    ASSUME AccountsInv, CountInv, UNCHANGED accountVars
    PROVE  CountInv'
BY DEF accountVars, CountInv, Exists, SameCount

LEMMA CountStep ==
    ASSUME AccountsInv, CountInv, [AccountsNext]_accountVars
    PROVE  CountInv'
<1> Kept
  BY StepInv
<1>1. CASE UNCHANGED accountVars
  BY <1>1, CountStays
<1>2. ASSUME NEW p \in Callers, NEW a \in Actors, NEW w \in Passwords, LoginRead(p, a, w)
      PROVE  CountInv'
  BY <1>2, CountLoginRead
<1>3. ASSUME NEW p \in Callers,
             \/ LoginActor(p) \/ FinishLogin(p) \/ RecordFailure(p)
             \/ VerifyCredential(p) \/ StepUpCommit(p)
             \/ FreshActor(p) \/ CommitOwnPassword(p)
      PROVE  CountInv'
  <2>1. CASE FinishLogin(p)
    BY <2>1, CountSucceed DEF FinishLogin
  <2>2. CASE StepUpCommit(p)
    BY <2>2, CountSucceed DEF StepUpCommit
  <2> QED BY <1>3, <2>1, <2>2, CountLoginActor, CountRecordFailure, CountVerify, CountFresh,
             CountOwnPassword
<1>4. ASSUME NEW p \in Callers,
             \/ ReadTarget(p) \/ CountMasters(p) \/ ReadMasterRow(p)
             \/ CommitDeactivation(p) \/ CommitRole(p)
             \/ \E w \in Passwords : CommitReset(p, w)
             \/ \E role \in Roles, w \in Passwords : CommitProvision(p, role, w)
      PROVE  CountInv'
  BY <1>4, CountAdminReads, CountAccountCommits, CountReset, CountProvision
<1>5. ASSUME NEW p \in Callers, NEW t \in tokens,
             \/ \E w \in Passwords : StepUp(p, t, w)
             \/ \E w, new \in Passwords : ChangeOwnPassword(p, t, w, new)
      PROVE  CountInv'
  BY <1>5, CountAuthenticate DEF StepUp, ChangeOwnPassword
<1>6. ASSUME NEW p \in Callers, NEW t \in tokens,
             \/ \E a \in Actors : \/ DeactivateActor(p, t, a)
                                  \/ ChangeActorRole(p, t, a)
                                  \/ ResetActor(p, t, a)
             \/ \E e \in Emails : ProvisionActor(p, t, e)
      PROVE  CountInv'
  BY <1>6, CountAdminCall, CountProvisionActor DEF DeactivateActor, ChangeActorRole, ResetActor
<1> QED
  BY <1>1, <1>2, <1>3, <1>4, <1>5, <1>6, CountLockExpires DEF AccountsNext

(* GuessesAreBounded: between two successes or locks of an account at most *)
(* the failures that lock it are tried, and one more by each other request *)
(* under way, though failures are recorded late, out of order, against     *)
(* rows that moved on, and given up (auth-service.ts:295-315).             *)
THEOREM FailuresAreCounted == AccountsSpec => []GuessesAreBounded
<1>1. AccountsInv /\ CountInv /\ [AccountsNext]_accountVars => CountInv'
  BY CountStep
<1>2. AccountsInv /\ CountInv => GuessesAreBounded
  <2> SUFFICES ASSUME AccountsInv, CountInv, NEW a \in Actors
               PROVE  guesses[a] <= LockAfter + Cardinality(Callers) - 1
    BY DEF GuessesAreBounded
  <2>1. CASE Exists(a)
    <3>1. credential[a] \in Credential /\ guesses[a] \in Nat
      BY <2>1, RowTypes DEF AccountsInv, AccountsTypeOK
    <3> QED BY <2>1, <3>1, AccountableBounds DEF CountInv
  <2>2. CASE ~Exists(a)
    <3>1. guesses[a] = 0
      BY <2>2 DEF CountInv
    <3>2. PICK n \in Nat, k \in Nat \ {0} : n = Cardinality(Callers) /\ k = LockAfter
      BY CallersFinite, LimitAssumption
    <3> QED BY <3>1, <3>2
  <2> QED BY <2>1, <2>2
<1> QED
  BY <1>1, <1>2, CountInit, Invariance, PTL DEF AccountsSpec
=============================================================================
