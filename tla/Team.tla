--------------------------------- MODULE Team ---------------------------------
(***************************************************************************)
(* The people of a business: sign-up, invitations, roles and removal.      *)
(*                                                                         *)
(*   backend/app/routers/users.py   the team page                          *)
(*   backend/app/routers/auth.py    sign_up, accept_invite                 *)
(*   backend/app/cli.py             create_platform_user                   *)
(*   backend/app/core/deps.py       get_session, require_tenant, require   *)
(*   backend/app/core/roles.py      PERMISSIONS                            *)
(*   backend/app/models/access.py   Invite                                 *)
(*                                                                         *)
(* A request opens (the session cookie is resolved into a user, as the row *)
(* reads then), checks (the queries of the handler) and commits.  Requests *)
(* overlap: PostgreSQL runs at READ COMMITTED and no row is locked, so     *)
(* what a request has read may be stale when it commits.                   *)
(***************************************************************************)
EXTENDS Integers, FiniteSets

CONSTANTS
  Accounts,     \* pool of user ids
  Emails,
  Businesses,   \* pool of tenants
  Invites,      \* pool of invitation ids
  Requests,     \* requests under way at once
  Founders,     \* the first members: a function from accounts to [email, business, role]
  Nobody,       \* no account, invitation or business
  MaxExpired    \* bound: invitations that expire

Roles == {"superuser", "admin", "owner", "employee"}
InvitableRoles == {"owner", "employee"}
PlatformRoles  == {"superuser", "admin"}

\* The permissions that this part asks for.
Permissions(role) ==
  CASE role = "superuser" -> {"users:manage", "platform:cross-tenant"}
    [] role = "admin"     -> {"platform:cross-tenant"}
    [] role = "owner"     -> {"users:manage"}
    [] OTHER              -> {}

UserRows   == [email : Emails, business : Businesses \cup {Nobody}, role : Roles,
               by : Invites \cup {Nobody}]
InviteRows == [business : Businesses, email : Emails, role : InvitableRoles,
               accepted : BOOLEAN, revoked : BOOLEAN, expired : BOOLEAN]

ASSUME TeamAssumption ==
  /\ MaxExpired \in Nat
  /\ Nobody \notin Accounts \cup Invites \cup Businesses \cup UserRows \cup InviteRows
  /\ DOMAIN Founders \subseteq Accounts
  /\ \A a \in DOMAIN Founders :
       Founders[a] \in [email : Emails, business : Businesses \cup {Nobody}, role : Roles, by : {Nobody}]
  /\ \A a, b \in DOMAIN Founders : Founders[a].email = Founders[b].email => a = b
  /\ \A a \in DOMAIN Founders : Founders[a].business = Nobody <=> Founders[a].role \in PlatformRoles
  /\ \A a \in DOMAIN Founders : Founders[a].business # Nobody =>
       \E o \in DOMAIN Founders : Founders[o].business = Founders[a].business /\ Founders[o].role = "owner"

VARIABLES
  user,      \* users: [email, business, role, by] or Nobody; by is the invitation used
  spent,     \* user ids that were used
  founded,   \* businesses
  invite,    \* invites: [business, email, role, accepted, revoked, expired] or Nobody
  request,   \* what each request is doing
  raced      \* history: businesses whose owners two overlapping requests took
             \* away, and <<business, email>> invited by two at once

team == <<user, spent, founded, invite, request, raced>>

Users     == {a \in Accounts : user[a] # Nobody}
Issued    == {i \in Invites : invite[i] # Nobody}
Owners(b) == {a \in Users : user[a].business = b /\ user[a].role = "owner"}
Taken(m)  == \E a \in Users : user[a].email = m
Pending(i) == i \in Issued /\ ~invite[i].accepted /\ ~invite[i].revoked /\ ~invite[i].expired
LinksTo(b, m) == {i \in Issued : Pending(i) /\ invite[i].business = b /\ invite[i].email = m}

Free == [op |-> "none"]

TeamInit ==
  /\ user    = [a \in Accounts |-> IF a \in DOMAIN Founders THEN Founders[a] ELSE Nobody]
  /\ spent   = DOMAIN Founders
  /\ founded = {Founders[a].business : a \in DOMAIN Founders} \ {Nobody}
  /\ invite  = [i \in Invites |-> Nobody]
  /\ request = [q \in Requests |-> Free]
  /\ raced   = {}

-----------------------------------------------------------------------------
(* A request: what it is, who makes it, on which business.                 *)

Finish(q) == request' = [request EXCEPT ![q] = Free]

\* get_session(), require_tenant() and require(P.USERS_MANAGE): the caller as
\* the row reads now, and the business the request acts on.  A tenant role is
\* pinned to its own; a platform role names one.
Reach(a) == IF user[a].role \in PlatformRoles THEN founded ELSE {user[a].business}

Open(q, a, b, op) ==
  /\ request[q] = Free
  /\ a \in Users
  /\ "users:manage" \in Permissions(user[a].role)
  /\ b \in Reach(a)
  /\ request' = [request EXCEPT ![q] = [op |-> op, step |-> "opened", caller |-> a, business |-> b]]
  /\ UNCHANGED <<user, spent, founded, invite, raced>>

At(q, op, step) == request[q].op = op /\ request[q].step = step
Target(q)       == request[q].target

\* A refusal ends a request at its checks, with nothing written.
Checked(q, t, role) ==
  /\ request' = [request EXCEPT ![q] = [op |-> @.op, step |-> "checked", caller |-> @.caller,
                                        business |-> @.business, target |-> t, role |-> role]]
  /\ UNCHANGED <<user, spent, founded, invite, raced>>

Refused(q) == Finish(q) /\ UNCHANGED <<user, spent, founded, invite, raced>>

\* _member_or_404(), and nobody manages themselves.
Manageable(q, a) == /\ a \in Users
                    /\ user[a].business = request[q].business
                    /\ a # request[q].caller

\* _guard_last_owner(): some other owner, as committed now.
OthersOwn_Any(q, a) == Owners(request[q].business) # {}
OthersOwn(q, a) == Owners(request[q].business) \ {a} # {}

\* A role that stays the same is not written.
CheckRole(q, a, role) ==
  /\ At(q, "role", "opened")
  /\ role \in InvitableRoles
  /\ Manageable(q, a)
  /\ IF user[a].role = role \/ (user[a].role = "owner" /\ ~OthersOwn(q, a))
     THEN Refused(q) ELSE Checked(q, a, role)

CheckRemove(q, a) ==
  /\ At(q, "remove", "opened")
  /\ Manageable(q, a)
  /\ IF user[a].role = "owner" /\ ~OthersOwn(q, a)
     THEN Refused(q) ELSE Checked(q, a, "none")

\* An owner goes while another request that may take one away has checked, but
\* not written.
Overlap(q, goes) ==
  LET b == request[q].business
      others == {p \in Requests \ {q} : /\ request[p].op \in {"role", "remove"}
                                        /\ request[p].step = "checked"
                                        /\ request[p].business = b
                                        /\ request[p].role # "owner"} IN
  raced' = IF goes /\ others # {} THEN raced \cup {b} ELSE raced

IsOwner(a) == a \in Users /\ user[a].role = "owner"

\* The row of a user that was removed meanwhile cannot be updated: the request
\* fails.  Deleting it again only warns.
CommitRole(q) ==
  /\ At(q, "role", "checked")
  /\ IF Target(q) \notin Users THEN Refused(q)
     ELSE /\ user' = [user EXCEPT ![Target(q)].role = request[q].role]
          /\ Overlap(q, IsOwner(Target(q)) /\ request[q].role # "owner")
          /\ Finish(q)
          /\ UNCHANGED <<spent, founded, invite>>

CommitRemove(q) ==
  /\ At(q, "remove", "checked")
  /\ user' = [user EXCEPT ![Target(q)] = Nobody]
  /\ Overlap(q, IsOwner(Target(q)))
  /\ Finish(q)
  /\ UNCHANGED <<spent, founded, invite>>

-----------------------------------------------------------------------------
(* Invitations.                                                            *)

\* create_invite(): the email has no account; a link that is still live is to
\* be replaced.  If there are several, whichever the query returns.
CheckInvite(q, m, role) ==
  /\ At(q, "invite", "opened")
  /\ role \in InvitableRoles
  /\ IF Taken(m) THEN Refused(q)
     ELSE LET live == LinksTo(request[q].business, m) IN
          \E old \in IF live = {} THEN {Nobody} ELSE live :
            Checked(q, [email |-> m, old |-> old], role)

Replaced_Kept(q) == invite
Replaced(q) == LET old == Target(q).old IN
               IF old = Nobody THEN invite ELSE [invite EXCEPT ![old].revoked = TRUE]

CommitInvite(q, i) ==
  LET b == request[q].business
      m == Target(q).email IN
  /\ At(q, "invite", "checked")
  /\ invite[i] = Nobody
  /\ invite' = [Replaced(q) EXCEPT ![i] =
                  [business |-> b, email |-> m, role |-> request[q].role,
                   accepted |-> FALSE, revoked |-> FALSE, expired |-> FALSE]]
  /\ raced' = IF \E p \in Requests \ {q} : /\ At(p, "invite", "checked")
                                           /\ request[p].business = b
                                           /\ Target(p).email = m
              THEN raced \cup {<<b, m>>} ELSE raced
  /\ Finish(q)
  /\ UNCHANGED <<user, spent, founded>>

\* revoke_invite() does not look whether the link was used.
CheckRevoke(q, i) ==
  /\ At(q, "revoke", "opened")
  /\ i \in Issued /\ invite[i].business = request[q].business
  /\ Checked(q, i, "none")

CommitRevoke(q) ==
  /\ At(q, "revoke", "checked")
  /\ invite' = [invite EXCEPT ![Target(q)].revoked = TRUE]
  /\ Finish(q)
  /\ UNCHANGED <<user, spent, founded, raced>>

Expire(i) ==
  /\ Pending(i)
  /\ Cardinality({j \in Issued : invite[j].expired}) < MaxExpired
  /\ invite' = [invite EXCEPT ![i].expired = TRUE]
  /\ UNCHANGED <<user, spent, founded, request, raced>>

\* accept_invite() needs no session: the link is the credential.
CheckAccept(q, i) ==
  /\ request[q] = Free
  /\ Pending(i)
  /\ ~Taken(invite[i].email)
  /\ request' = [request EXCEPT ![q] = [op |-> "accept", step |-> "checked", caller |-> Nobody,
                                        business |-> invite[i].business, target |-> i,
                                        role |-> invite[i].role]]
  /\ UNCHANGED <<user, spent, founded, invite, raced>>

\* users.email is unique: the second of two accounts is rolled back.
Insertable_Any(m) == TRUE
Insertable(m) == ~Taken(m)

CommitAccept(q, a) ==
  LET i == Target(q) IN
  /\ At(q, "accept", "checked")
  /\ IF ~Insertable(invite[i].email) THEN Refused(q)
     ELSE /\ a \notin spent
          /\ user'   = [user EXCEPT ![a] = [email |-> invite[i].email, business |-> invite[i].business,
                                            role |-> request[q].role, by |-> i]]
          /\ spent'  = spent \cup {a}
          /\ invite' = [invite EXCEPT ![i].accepted = TRUE]
          /\ Finish(q)
          /\ UNCHANGED <<founded, raced>>

-----------------------------------------------------------------------------

\* sign_up(): a business and its first owner, in one commit.
SignUp(a, m, b) ==
  /\ a \notin spent
  /\ ~Taken(m)
  /\ b \notin founded
  /\ user'  = [user EXCEPT ![a] = [email |-> m, business |-> b, role |-> "owner", by |-> Nobody]]
  /\ spent' = spent \cup {a}
  /\ founded' = founded \cup {b}
  /\ UNCHANGED <<invite, request, raced>>

\* create_platform_user(): at the console, never over HTTP.
CreatePlatformUser(a, m, role) ==
  /\ role \in PlatformRoles
  /\ a \notin spent
  /\ ~Taken(m)
  /\ user'  = [user EXCEPT ![a] = [email |-> m, business |-> Nobody, role |-> role, by |-> Nobody]]
  /\ spent' = spent \cup {a}
  /\ UNCHANGED <<founded, invite, request, raced>>

Operations == {"role", "remove", "invite", "revoke"}

TeamNext ==
  \/ \E q \in Requests, a \in Accounts, b \in Businesses, op \in Operations : Open(q, a, b, op)
  \/ \E q \in Requests, a \in Accounts, role \in Roles : CheckRole(q, a, role)
  \/ \E q \in Requests, a \in Accounts : CheckRemove(q, a)
  \/ \E q \in Requests : CommitRole(q)
  \/ \E q \in Requests : CommitRemove(q)
  \/ \E q \in Requests, m \in Emails, role \in Roles : CheckInvite(q, m, role)
  \/ \E q \in Requests, i \in Invites : CommitInvite(q, i)
  \/ \E q \in Requests, i \in Invites : CheckRevoke(q, i)
  \/ \E q \in Requests : CommitRevoke(q)
  \/ \E q \in Requests, i \in Invites : CheckAccept(q, i)
  \/ \E q \in Requests, a \in Accounts : CommitAccept(q, a)
  \/ \E i \in Invites : Expire(i)
  \/ \E a \in Accounts, m \in Emails, b \in Businesses : SignUp(a, m, b)
  \/ \E a \in Accounts, m \in Emails, role \in Roles : CreatePlatformUser(a, m, role)

TeamSpec == TeamInit /\ [][TeamNext]_team

-----------------------------------------------------------------------------
(* Properties.                                                             *)

TeamTypeOK ==
  /\ user \in [Accounts -> UserRows \cup {Nobody}]
  /\ Users \subseteq spent /\ spent \subseteq Accounts /\ founded \subseteq Businesses
  /\ invite \in [Invites -> InviteRows \cup {Nobody}]
  /\ \A q \in Requests : request[q].op \in Operations \cup {"none", "accept"}

\* A business never loses its last owner, unless two requests that take owners
\* away overlap: each leaves the other's target as the remaining owner.
LastOwnerKept == \A b \in founded : Owners(b) # {} \/ b \in raced

\* An email has one account, and an invitation seats one person, in the business
\* that sent it: also when the link is opened twice at once, sent to somebody
\* who signs up meanwhile, or replaced, revoked or expired while it is accepted.
OneSeat ==
  \A a \in Users :
    /\ \A b \in Users : user[a].email = user[b].email => a = b
    /\ user[a].by # Nobody => LET i == invite[user[a].by] IN
         /\ i.accepted /\ i.email = user[a].email /\ i.business = user[a].business
         /\ \A b \in Users : user[b].by = user[a].by => a = b

\* Re-inviting replaces the old link rather than leave two live ones, unless two
\* requests invite the same address at once.
LinksReplaced ==
  \A b \in Businesses, m \in Emails :
    Cardinality(LinksTo(b, m)) <= 1 \/ <<b, m>> \in raced

=============================================================================
