----------------------------- MODULE AccessPolicy -----------------------------
(***************************************************************************)
(* The choice of pages for roles and accounts (the access policy of        *)
(* service.ts, access-pages.ts of the domain).                             *)
(*                                                                         *)
(* One document holds the pages chosen for roles and for single accounts   *)
(* and the order of the menu.  A save reads the document, changes one part *)
(* of it and writes the whole back against the version it read, together   *)
(* with the catalogue of pages the release that saved it knew.  The role   *)
(* of an account changes on its own (Accounts), and releases add pages.    *)
(* What the menu and the routes make of the document is a computation      *)
(* without state, and left out.                                            *)
(***************************************************************************)
EXTENDS Naturals, Sequences

CONSTANTS
    Accts,           \* accounts
    AcctRoles,       \* their roles
    FirstRole,       \* the role each account has at the start
    AccessDomain,    \* accessDomainForRole: the area of a role
    Catalogues,      \* ACCESS_PAGES of successive releases, growing sequences
    PageDomain,      \* the area of a page
    PageChoices,     \* sets of pages asked for
    OrderChoices,    \* menu orders asked for
    Savers,          \* requests at work at once
    Unset,           \* no choice: the defaults apply
    MaxSaves,        \* bound: saves begun
    MaxRoleChanges   \* bound: changes of roles

ASSUME CatalogueAssumption == Len(Catalogues) > 0

VARIABLES
    release,         \* the release that runs
    acctRole,        \* the role of each account
    policy,          \* the access-policy document; version 0: none stored
    save,            \* the request each saver is in
    acknowledged,    \* history: the choices the requests that returned made
    saves, roleChanges  \* counted for the bounds

accessVars == <<release, acctRole, policy, save, acknowledged, saves, roleChanges>>

Listed(s) == {s[i] : i \in DOMAIN s}
Catalogue == Catalogues[release]

-----------------------------------------------------------------------------
(* The pages that may be chosen for a role.                                *)

selectablePagesForRole(r) ==
    SelectSeq(Catalogue, LAMBDA page : PageDomain[page] = AccessDomain[r])

-----------------------------------------------------------------------------
(* Saving.                                                                 *)

NoPolicy ==
    [version |-> 0, rolePages |-> [r \in AcctRoles |-> Unset],
     actorPages |-> [a \in Accts |-> Unset], menuOrder |-> <<>>, knownPaths |-> {}]

sanitizePages(r, pages) ==
    IF pages = Unset THEN Unset ELSE pages \intersect Listed(selectablePagesForRole(r))

ChoicesNow(p) == [rolePages |-> p.rolePages, actorPages |-> p.actorPages, menuOrder |-> p.menuOrder]

(* A document an earlier version left, without knownPaths. *)
OldPolicy(r, pages) == [NoPolicy EXCEPT !.version = 1, !.rolePages[r] = sanitizePages(r, pages)]

AccessInit ==
    /\ release = 1
    /\ acctRole = FirstRole
    /\ \E first \in {NoPolicy} \union {OldPolicy(r, pages) : r \in AcctRoles, pages \in PageChoices} :
         policy = first /\ acknowledged = ChoicesNow(first)
    /\ save = [s \in Savers |-> [at |-> "idle"]]
    /\ saves = 0 /\ roleChanges = 0

Saving(s, at) == save[s].at = at

(* loadAccessPolicy of a request for a role, an account or the order. *)
BeginSave(s) ==
    /\ Saving(s, "idle") /\ saves < MaxSaves
    /\ \E target \in {[kind |-> "role", of |-> r] : r \in AcctRoles}
                       \union {[kind |-> "actor", of |-> a] : a \in Accts} :
         \E pages \in PageChoices \union {Unset} :
           save' = [save EXCEPT ![s] = [at |-> "read", target |-> target, asked |-> pages, current |-> policy]]
    /\ saves' = saves + 1
    /\ UNCHANGED <<release, acctRole, policy, acknowledged, roleChanges>>

BeginOrder(s) ==
    /\ Saving(s, "idle") /\ saves < MaxSaves
    /\ \E order \in OrderChoices :
         save' = [save EXCEPT ![s] =
            [at |-> "commit", target |-> [kind |-> "order"], current |-> policy,
             next |-> [policy EXCEPT !.version = @ + 1,
                         !.menuOrder = SelectSeq(order, LAMBDA page : page \in Listed(Catalogue)),
                         !.knownPaths = Listed(Catalogue)]]]
    /\ saves' = saves + 1
    /\ UNCHANGED <<release, acctRole, policy, acknowledged, roleChanges>>

(* updateAccessPolicy: the pages the target's role may have, of the account *)
(* as it is read now, replace what the document read before says.           *)
ChoosePages(s) ==
    /\ Saving(s, "read")
    /\ LET target == save[s].target
           asked == save[s].asked
           chosen == IF target.kind = "role"
                     THEN [save[s].current EXCEPT !.rolePages[target.of] = sanitizePages(target.of, asked)]
                     ELSE [save[s].current EXCEPT
                             !.actorPages[target.of] = sanitizePages(acctRole[target.of], asked)]
       IN save' = [save EXCEPT ![s] =
             [at |-> "commit", target |-> target, current |-> save[s].current,
              next |-> [chosen EXCEPT !.version = @ + 1, !.knownPaths = Listed(Catalogue)]]]
    /\ UNCHANGED <<release, acctRole, policy, acknowledged, saves, roleChanges>>

AnyPolicyVersion(s) == TRUE
SameVersion(s) == policy.version = save[s].current.version

(* What the one who asked may rely on from now on. *)
Acknowledge(s) ==
    LET target == save[s].target
        next == save[s].next
    IN acknowledged' =
         CASE target.kind = "order" -> [acknowledged EXCEPT !.menuOrder = next.menuOrder]
           [] target.kind = "role" ->
                [acknowledged EXCEPT !.rolePages[target.of] = next.rolePages[target.of]]
           [] target.kind = "actor" ->
                [acknowledged EXCEPT !.actorPages[target.of] = next.actorPages[target.of]]

(* The commit, or the conflict with a save in between. *)
CommitPolicy(s) ==
    /\ Saving(s, "commit")
    /\ IF SameVersion(s)
       THEN /\ policy' = save[s].next
            /\ Acknowledge(s)
       ELSE UNCHANGED <<policy, acknowledged>>
    /\ save' = [save EXCEPT ![s] = [at |-> "idle"]]
    /\ UNCHANGED <<release, acctRole, saves, roleChanges>>

(* changeActorRole writes the account and nothing of the policy. *)
ChangeAcctRole(a) ==
    /\ roleChanges < MaxRoleChanges
    /\ \E r \in AcctRoles \ {acctRole[a]} : acctRole' = [acctRole EXCEPT ![a] = r]
    /\ roleChanges' = roleChanges + 1
    /\ UNCHANGED <<release, policy, save, acknowledged, saves>>

DeployPages ==
    /\ release < Len(Catalogues)
    /\ release' = release + 1
    /\ UNCHANGED <<acctRole, policy, save, acknowledged, saves, roleChanges>>

AccessNext ==
    \/ \E s \in Savers : BeginSave(s) \/ BeginOrder(s) \/ ChoosePages(s) \/ CommitPolicy(s)
    \/ \E a \in Accts : ChangeAcctRole(a)
    \/ DeployPages

AccessSpec == AccessInit /\ [][AccessNext]_accessVars

-----------------------------------------------------------------------------
(* A save that was acknowledged holds until another save of the same part: *)
(* requests that change other parts of the one document at the same time   *)
(* do not take it back.                                                    *)
SavedChoicesHold == ChoicesNow(policy) = acknowledged

=============================================================================
