------------------------------ MODULE Accounts ------------------------------
(***************************************************************************)
(* Who may act for a business: the organizations and memberships that      *)
(* Clerk keeps, their copy in the users and business_members tables, and   *)
(* the tokens requests carry (internal/business create and update,         *)
(* internal/webhooks, internal/api, internal/auth, internal/clerk).        *)
(*                                                                         *)
(* Clerk posts each change to the webhook at least once and in any order,  *)
(* also again while an attempt of it is under way; a membership takes two  *)
(* statements, between which others may run.                               *)
(* All organizations of the model ask for one slug, so a business that is  *)
(* created again after a failure meets what the failure left behind.       *)
(***************************************************************************)
EXTENDS Integers, FiniteSets

CONSTANTS
  Users,          \* accounts at Clerk
  Orgs,           \* organizations, each with the business made for it
  ClerkRoles,     \* roles an organization gives
  None,
  MaxChanges,     \* bound: changes posted to the webhook
  MaxTokens       \* bound: tokens alive at once

AccountsAssumption ==
  /\ "org:admin" \in ClerkRoles
  /\ None \notin ClerkRoles \union Users \union Orgs \union {"owner", "manager", "staff"}
  /\ MaxChanges \in Nat /\ MaxTokens \in Nat

VARIABLES
  org,            \* at Clerk: organization -> "none", "live" or "deleted"
  clerk,          \* at Clerk: organization -> user -> role, or None
  accounts,       \* at Clerk: users whose account is not deleted
  tokens,         \* session tokens that have not expired, or that a request under way carries
  posted,         \* webhook messages whose delivery is not over: not acknowledged, or
                  \* acknowledged while another attempt of it is still under way
  attempts,       \* attempts of memberships between their statements: the message, and
                  \* whether the user's row that was read or written is still there
  changes,        \* number of messages ever sent
  users,          \* users with a row
  business,       \* organization -> "none", or status of its business
  member,         \* organization -> user -> role of the row, or None
  call,           \* user -> creation of a business under way
  update,         \* auxiliary: who updated which business last
  last            \* auxiliary: organization -> user -> how the last change at Clerk was
                  \* made: "early", before the business was there; "apart", when the
                  \* change before it was delivered; or "overlapping"

clerkVars == <<org, clerk, accounts>>
vars == <<clerkVars, tokens, posted, attempts, changes, users, business, member, call, update, last>>

Roles == {"owner", "manager", "staff"}
Idle == [at |-> "idle", org |-> None, row |-> FALSE]

\* auth.MapClerkRole
MapClerkRole(r) == CASE r = "org:admin" -> "owner" [] r = "org:member" -> "staff" [] OTHER -> None

\* The role upsertMembership writes for a role of Clerk.
LocalRole(r) == IF MapClerkRole(r) = None THEN "staff" ELSE MapClerkRole(r)

About(o, u) == {e \in posted : e.user = u /\ (e.org = o \/ e.type = "user.deleted")}
-----------------------------------------------------------------------------
(* Clerk *)

Post(e) ==
  /\ changes < MaxChanges /\ changes' = changes + 1
  /\ posted' = posted \union {[type |-> e.type, org |-> e.org, user |-> e.user, role |-> e.role, n |-> changes]}

How(o, u) ==
  IF business[o] = "none" THEN "early" ELSE IF About(o, u) = {} THEN "apart" ELSE "overlapping"
Noted(o, u) == last' = [last EXCEPT ![o][u] = How(o, u)]

\* A member joins, or changes role.
SetRole(o, u, r) ==
  /\ org[o] = "live" /\ u \in accounts /\ clerk[o][u] # r
  /\ clerk' = [clerk EXCEPT ![o][u] = r]
  /\ Post([type |-> "membership", org |-> o, user |-> u, role |-> r])
  /\ Noted(o, u)
  /\ UNCHANGED <<org, accounts, tokens, attempts, users, business, member, call, update>>

RemoveMember(o, u) ==
  /\ org[o] = "live" /\ clerk[o][u] # None
  /\ clerk' = [clerk EXCEPT ![o][u] = None]
  /\ Post([type |-> "membership.deleted", org |-> o, user |-> u, role |-> None])
  /\ Noted(o, u)
  /\ UNCHANGED <<org, accounts, tokens, attempts, users, business, member, call, update>>

DeleteAccount(u) ==
  /\ u \in accounts /\ accounts' = accounts \ {u}
  /\ clerk' = [o \in Orgs |-> [clerk[o] EXCEPT ![u] = None]]
  /\ Post([type |-> "user.deleted", org |-> None, user |-> u, role |-> None])
  /\ last' = [o \in Orgs |-> [last[o] EXCEPT ![u] = How(o, u)]]
  /\ UNCHANGED <<org, tokens, attempts, users, business, member, call, update>>

UpdateAccount(u) ==
  /\ u \in accounts
  /\ Post([type |-> "user", org |-> None, user |-> u, role |-> None])
  /\ UNCHANGED <<clerkVars, tokens, attempts, users, business, member, call, update, last>>

IssueToken(o, u) ==
  /\ clerk[o][u] # None /\ Cardinality(tokens) < MaxTokens
  /\ tokens' = tokens \union {[user |-> u, org |-> o, role |-> clerk[o][u]]}
  /\ UNCHANGED <<clerkVars, posted, attempts, changes, users, business, member, call, update, last>>

ExpireToken(t) ==
  /\ t \in tokens /\ tokens' = tokens \ {t}
  /\ UNCHANGED <<clerkVars, posted, attempts, changes, users, business, member, call, update, last>>
-----------------------------------------------------------------------------
(* The queries *)

\* By its own column or by that of a member, which are the same organization here.
GetBusinessIDByClerkOrgID(o) == business[o] # "none"
GetBusinessMemberRole(o, u) == member[o][u]
UpsertUserFromClerk(u) == users' = users \union {u}

AddBusinessMember(o, u, role) == member' = [member EXCEPT ![o][u] = role]
DeleteBusinessMember(o, u) == member' = [member EXCEPT ![o][u] = None]

\* The memberships go with the row, and creations and attempts under way lose the row they
\* read: a row of the user made later has another id.
DeleteUserByClerkID(u) ==
  /\ users' = users \ {u}
  /\ member' = [o \in Orgs |-> [member[o] EXCEPT ![u] = None]]
  /\ call' = [call EXCEPT ![u].row = FALSE]
  /\ attempts' = {IF a.e.user = u THEN [a EXCEPT !.row = FALSE] ELSE a : a \in attempts}

ArchiveBusinessesByClerkOrgID(o) ==
  business' = IF GetBusinessIDByClerkOrgID(o) THEN [business EXCEPT ![o] = "archived"] ELSE business

\* The slug is unique in the table, whatever the status.
CreateBusiness(o) ==
  /\ \A p \in Orgs : business[p] = "none"
  /\ business' = [business EXCEPT ![o] = "active"]
-----------------------------------------------------------------------------
(* internal/webhooks *)

Begin(e) == attempts' = attempts \union {[e |-> e, row |-> TRUE]}

\* upsertMembership up to the row of the user.  An organization without a business is
\* answered as handled; a business that was found stays.
UpsertMembership(e) ==
  IF GetBusinessIDByClerkOrgID(e.org) THEN UpsertUserFromClerk(e.user) /\ Begin(e)
  ELSE UNCHANGED <<users, attempts>>

\* deleteMembership up to the row of the user.  Without one it is answered as handled.
DeleteMembership(e) == IF e.user \in users THEN Begin(e) ELSE UNCHANGED attempts

Dispatch(e) ==
  CASE e.type = "user"                 -> UpsertUserFromClerk(e.user) /\ UNCHANGED <<attempts, business, member, call>>
    [] e.type = "user.deleted"         -> DeleteUserByClerkID(e.user) /\ UNCHANGED business
    [] e.type = "organization.deleted" -> ArchiveBusinessesByClerkOrgID(e.org) /\ UNCHANGED <<attempts, users, member, call>>
    [] e.type = "membership"           -> UpsertMembership(e) /\ UNCHANGED <<business, member, call>>
    [] e.type = "membership.deleted"   -> DeleteMembership(e) /\ UNCHANGED <<users, business, member, call>>

\* An answer ends the delivery, unless it is lost and the message comes again, or another
\* attempt of the message is under way.
Answered(e) == posted' \in {posted \ {e}, posted} /\ \A a \in attempts' : a.e = e => posted' = posted

\* handleClerk, up to the end of the handler or between the statements of a membership.
HandleClerk(e) ==
  /\ e \in posted /\ Dispatch(e) /\ Answered(e)
  /\ UNCHANGED <<clerkVars, tokens, changes, update, last>>

\* An attempt ends; or it was one of two of its message that stand at the same place.
Ends(a) == attempts' \in {attempts \ {a}, attempts}

\* Mutant: a membership that has a row keeps its role.
InsertMember(a) ==
  /\ a \in attempts /\ a.e.type = "membership" /\ a.row
  /\ member' = IF member[a.e.org][a.e.user] = None
               THEN [member EXCEPT ![a.e.org][a.e.user] = LocalRole(a.e.role)] ELSE member
  /\ Ends(a) /\ Answered(a.e)
  /\ UNCHANGED <<clerkVars, tokens, changes, users, business, call, update, last>>

\* The second statement of upsertMembership, which the lost row of a user refuses.
UpsertMember(a) ==
  /\ a \in attempts /\ a.e.type = "membership" /\ a.row
  /\ AddBusinessMember(a.e.org, a.e.user, LocalRole(a.e.role))
  /\ Ends(a) /\ Answered(a.e)
  /\ UNCHANGED <<clerkVars, tokens, changes, users, business, call, update, last>>

\* That of deleteMembership, which finds nothing to delete of a lost row.
DeleteMember(a) ==
  /\ a \in attempts /\ a.e.type = "membership.deleted"
  /\ IF a.row THEN DeleteBusinessMember(a.e.org, a.e.user) ELSE UNCHANGED member
  /\ Ends(a) /\ Answered(a.e)
  /\ UNCHANGED <<clerkVars, tokens, changes, users, business, call, update, last>>

\* The second statement fails, or the process stops.
FailAttempt(a) ==
  /\ a \in attempts /\ attempts' = attempts \ {a}
  /\ UNCHANGED <<clerkVars, tokens, posted, changes, users, business, member, call, update, last>>
-----------------------------------------------------------------------------
(* internal/business *)

\* CurrentUser: every authenticated request writes the row of its user.
CurrentUser(u) == UpsertUserFromClerk(u)

\* create up to the answer of Clerk, which may be lost when the organization is made.
CreateOrganization(o, u) ==
  /\ call[u].at = "idle" /\ u \in accounts
  /\ org[o] = "none" /\ \A p \in Orgs : org[p] # "live"
  /\ CurrentUser(u)
  /\ org' = [org EXCEPT ![o] = "live"]
  /\ clerk' = [clerk EXCEPT ![o][u] = "org:admin"]
  /\ Post([type |-> "membership", org |-> o, user |-> u, role |-> "org:admin"])
  /\ call' \in {[call EXCEPT ![u] = [at |-> "made", org |-> o, row |-> TRUE]], call}
  /\ UNCHANGED <<accounts, tokens, attempts, business, member, update, last>>

\* The transaction: the business, its areas, its owner, its default location, the audit
\* row.  An error of Commit does not say whether it was done.
CommitBusiness(u) ==
  LET o == call[u].org IN
  /\ call[u].at = "made" /\ call[u].row
  /\ CreateBusiness(o) /\ AddBusinessMember(o, u, "owner")
  /\ call' \in {[call EXCEPT ![u] = Idle], [call EXCEPT ![u].at = "undo"]}
  /\ UNCHANGED <<clerkVars, tokens, posted, attempts, changes, users, update, last>>

\* An error of any statement: the slug is taken, the user's row is gone, or a failure.
FailBusiness(u) ==
  /\ call[u].at = "made" /\ call' = [call EXCEPT ![u].at = "undo"]
  /\ UNCHANGED <<clerkVars, tokens, posted, attempts, changes, users, business, member, update, last>>

\* DeleteOrganization after an error.
DeleteOrganization(u) ==
  LET o == call[u].org IN
  /\ call[u].at = "undo" /\ org[o] = "live"
  /\ org' = [org EXCEPT ![o] = "deleted"]
  /\ clerk' = [clerk EXCEPT ![o] = [v \in Users |-> None]]
  /\ Post([type |-> "organization.deleted", org |-> o, user |-> None, role |-> None])
  /\ call' = [call EXCEPT ![u] = Idle]
  /\ UNCHANGED <<accounts, tokens, attempts, users, business, member, update, last>>

\* The process stops, or DeleteOrganization fails and its error is dropped.
GiveUp(u) ==
  /\ call[u].at \in {"made", "undo"} /\ call' = [call EXCEPT ![u] = Idle]
  /\ UNCHANGED <<clerkVars, tokens, posted, attempts, changes, users, business, member, update, last>>

\* Mutant: the token is believed.
RequireTokenRole(t, allowed) == MapClerkRole(t.role) \in allowed

\* The role of the token and the role of the row.
RequireBusinessRole(t, allowed) ==
  MapClerkRole(t.role) \in allowed /\ GetBusinessMemberRole(t.org, t.user) \in allowed

\* A read of the business or of its hours.
Get(t) ==
  /\ t \in tokens /\ GetBusinessIDByClerkOrgID(t.org) /\ RequireBusinessRole(t, Roles)
  /\ CurrentUser(t.user)
  /\ UNCHANGED <<clerkVars, tokens, posted, attempts, changes, business, member, call, update, last>>

\* update, of which the status is kept here.  The UPDATE asks for the role in the row
\* itself; the token looked at before it and the commit after it are taken at its moment.
Update(t, status) ==
  /\ t \in tokens /\ GetBusinessIDByClerkOrgID(t.org) /\ RequireBusinessRole(t, {"owner", "manager"})
  /\ CurrentUser(t.user)
  /\ business' = [business EXCEPT ![t.org] = status]
  /\ update' = [user |-> t.user, org |-> t.org]
  /\ UNCHANGED <<clerkVars, tokens, posted, attempts, changes, member, call, last>>

\* A request that is refused, or GET /me, still writes the user's row.
Me(u) ==
  /\ (u \in accounts \/ \E t \in tokens : t.user = u) /\ CurrentUser(u)
  /\ UNCHANGED <<clerkVars, tokens, posted, attempts, changes, business, member, call, update, last>>
-----------------------------------------------------------------------------
Init ==
  /\ org = [o \in Orgs |-> "none"] /\ clerk = [o \in Orgs |-> [u \in Users |-> None]]
  /\ accounts = Users /\ tokens = {} /\ posted = {} /\ attempts = {} /\ changes = 0
  /\ users = {} /\ business = [o \in Orgs |-> "none"]
  /\ member = [o \in Orgs |-> [u \in Users |-> None]]
  /\ call = [u \in Users |-> Idle]
  /\ update = [user |-> None, org |-> None] /\ last = [o \in Orgs |-> [u \in Users |-> "early"]]

AtClerk ==
  \/ \E o \in Orgs, u \in Users : RemoveMember(o, u) \/ IssueToken(o, u) \/ \E r \in ClerkRoles : SetRole(o, u, r)
  \/ \E u \in Users : DeleteAccount(u) \/ UpdateAccount(u)
  \/ \E t \in tokens : ExpireToken(t)

Creating ==
  \/ \E o \in Orgs, u \in Users : CreateOrganization(o, u)
  \/ \E u \in Users : CommitBusiness(u) \/ FailBusiness(u) \/ DeleteOrganization(u) \/ GiveUp(u)

Requests ==
  \/ \E t \in tokens : Get(t) \/ \E s \in {"active", "archived"} : Update(t, s)
  \/ \E u \in Users : Me(u)

Webhook ==
  \/ \E e \in posted : HandleClerk(e)
  \/ \E a \in attempts : UpsertMember(a) \/ DeleteMember(a) \/ FailAttempt(a)

Next == AtClerk \/ Creating \/ Requests \/ Webhook

Spec == Init /\ [][Next]_vars
-----------------------------------------------------------------------------
TypeOK ==
  /\ org \in [Orgs -> {"none", "live", "deleted"}]
  /\ clerk \in [Orgs -> [Users -> ClerkRoles \union {None}]]
  /\ accounts \subseteq Users /\ users \subseteq Users
  /\ tokens \subseteq [user : Users, org : Orgs, role : ClerkRoles]
  /\ business \in [Orgs -> {"none", "active", "archived"}]
  /\ member \in [Orgs -> [Users -> Roles \union {None}]]
  /\ call \in [Users -> [at : {"idle", "made", "undo"}, org : Orgs \union {None}, row : BOOLEAN]]
  /\ changes \in 0..MaxChanges
  /\ \A o \in Orgs, u \in Users : member[o][u] # None => u \in users /\ GetBusinessIDByClerkOrgID(o)
  /\ \A a \in attempts : a.e \in posted /\ a.row \in BOOLEAN /\ (a.row => a.e.user \in users)

Settled == posted = {} /\ \A u \in Users : call[u].at = "idle"

\* When the delivery of each change of a member is over, with all its attempts, before the
\* next one is made, a delivered state of the table is the state at Clerk: whatever was
\* delivered twice or at once, whoever was deleted between the statements of an attempt,
\* and whichever requests wrote users in between.
SyncedWhenApart ==
  \A o \in Orgs, u \in Users :
    last[o][u] = "apart" /\ org[o] = "live" /\ About(o, u) = {} =>
      member[o][u] = IF clerk[o][u] = None THEN None ELSE LocalRole(clerk[o][u])

\* README.md:81: a role takes a token and a row.  An update (here: one that puts the
\* business on sale again) by somebody who is no longer an admin at Clerk takes a token of
\* before the change, and a change whose delivery is not over or that was delivered out of order.
StaleRoleNeedsBoth ==
  [][\A o \in Orgs, u \in Users :
       /\ business[o] = "archived" /\ business'[o] = "active"
       /\ update' = [user |-> u, org |-> o] /\ clerk[o][u] # "org:admin"
       => /\ [user |-> u, org |-> o, role |-> "org:admin"] \in tokens
          /\ About(o, u) # {} \/ last[o][u] # "apart" \/ org[o] # "live"]_vars

\* A creation that answered an error and deleted its organization leaves no business on
\* sale, also when its commit had been done: the organization's deletion archives it.
\* Only a token that outlived the organization brings it back.
FailedCreationIsArchived ==
  \A o \in Orgs : Settled /\ org[o] = "deleted" /\ business[o] = "active" => update.org = o

\* docs/openapi.yaml: the webhook receives "user, organization, and membership sync".
\* When every message was received, the members of a business are those at Clerk.
\* The code does not keep it.
MembershipsFollowClerk ==
  Settled => \A o \in Orgs, u \in Users :
    org[o] = "live" /\ GetBusinessIDByClerkOrgID(o) /\ last[o][u] # "early" =>
      (member[o][u] = None <=> clerk[o][u] = None)

\* docs/openapi.yaml: POST /businesses makes "a Clerk organization and the matching
\* Openlocal business".  No organization is left without a business.
\* The code does not keep it.
OrganizationHasBusiness ==
  Settled => \A o \in Orgs : org[o] = "live" => GetBusinessIDByClerkOrgID(o)
=============================================================================
