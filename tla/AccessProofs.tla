----------------------------- MODULE AccessProofs ------------------------------
(***************************************************************************)
(* Theorems about who gets in.  About Team: for every number of people,    *)
(* businesses, invitations and overlapping requests.  About Throttle: for  *)
(* every number of names, addresses and overlapping attempts, every limit, *)
(* and tables and clocks of any size.                                      *)
(***************************************************************************)
EXTENDS Team, Throttle, SetLemmas

-----------------------------------------------------------------------------
(* Types.  What a request has read is of the rows there have been.         *)

RequestOK(r) ==
  /\ r.op \in Operations \cup {"none", "accept"}
  /\ r.op # "none" => r.business \in founded
  /\ r.op # "none" /\ r.step = "checked" =>
       /\ r.op \in {"role", "invite", "accept"} => r.role \in InvitableRoles
       /\ r.op = "remove" => r.role = "none"
       /\ r.op \in {"role", "remove"} =>
            /\ r.target \in spent
            /\ r.target \in Users => user[r.target].business = r.business
       /\ r.op \in {"revoke", "accept"} => r.target \in Issued
       /\ r.op = "invite" => r.target.email \in Emails /\ r.target.old \in Issued \cup {Nobody}

RequestsOK == /\ request = [q \in Requests |-> request[q]]
              /\ \A q \in Requests : RequestOK(request[q])

\* Everybody belongs to a business that exists, and so does every invitation.
Placed == /\ \A a \in Users : user[a].business \in founded \cup {Nobody}
          /\ \A i \in Issued : invite[i].business \in founded

Typed == TeamTypeOK /\ RequestsOK /\ Placed

\* Rows of users and invitations as they are after a step: what TeamTypeOK says,
\* row by row.
LEMMA Rows ==
  ASSUME Typed
  PROVE  /\ \A a \in Users : user[a] \in UserRows /\ a \in Accounts /\ a \in spent
         /\ \A i \in Issued : invite[i] \in InviteRows /\ i \in Invites
         /\ Nobody \notin UserRows /\ Nobody \notin InviteRows /\ Nobody \notin Businesses
BY TeamAssumption DEF Typed, TeamTypeOK, Users, Issued

\* What every step leaves of the requests: each is still one that can be.
RequestsMove == /\ request' = [q \in Requests |-> request'[q]]
                /\ \A q \in Requests : RequestOK(request'[q])

\* A request moves along, or ends.
LEMMA Moved ==
  ASSUME Typed, NEW q \in Requests, NEW r, RequestOK(r), request' = [request EXCEPT ![q] = r]
  PROVE  RequestsMove
<1>1. /\ request' = [p \in Requests |-> request'[p]]
      /\ \A p \in Requests : request'[p] = IF p = q THEN r ELSE request[p]
  BY DEF Typed, RequestsOK
<1> QED  BY <1>1 DEF Typed, RequestsOK, RequestsMove

LEMMA Ended ==
  ASSUME Typed, NEW q \in Requests, Finish(q)
  PROVE  RequestsMove
<1>1. RequestOK(Free)  BY DEF RequestOK, Free, Operations
<1> QED  BY <1>1, Moved DEF Finish

\* The rows change as they may: nobody changes business, nobody comes back, no
\* invitation is taken out.
LEMMA Changed ==
  ASSUME Typed, RequestsMove,
         user' \in [Accounts -> UserRows \cup {Nobody}],
         invite' \in [Invites -> InviteRows \cup {Nobody}],
         spent \subseteq spent', spent' \subseteq Accounts, Users' \subseteq spent',
         founded \subseteq founded', founded' \subseteq Businesses,
         \A a \in Users' : user'[a].business \in founded' \cup {Nobody},
         \A a \in Users' \cap spent : a \in Users /\ user'[a].business = user[a].business,
         Issued \subseteq Issued',
         \A i \in Issued' : invite'[i].business \in founded'
  PROVE  Typed'
<1>1. ASSUME NEW q \in Requests  PROVE RequestOK(request[q])'
  <2>1. RequestOK(request'[q])  BY DEF RequestsMove
  <2>2. \A a \in spent : a \in Users' => a \in Users /\ user'[a].business = user[a].business
    OBVIOUS
  <2>3. /\ request'[q].op \in Operations \cup {"none", "accept"}
        /\ request'[q].op # "none" => request'[q].business \in founded'
    BY <2>1 DEF RequestOK
  <2>4. ASSUME request'[q].op # "none", request'[q].step = "checked"
        PROVE  /\ request'[q].op \in {"role", "invite", "accept"} => request'[q].role \in InvitableRoles
               /\ request'[q].op = "remove" => request'[q].role = "none"
               /\ request'[q].op \in {"role", "remove"} =>
                    /\ request'[q].target \in spent'
                    /\ request'[q].target \in Users' =>
                         user'[request'[q].target].business = request'[q].business
               /\ request'[q].op \in {"revoke", "accept"} => request'[q].target \in Issued'
               /\ request'[q].op = "invite" =>
                    request'[q].target.email \in Emails /\ request'[q].target.old \in Issued' \cup {Nobody}
    BY <2>1, <2>2, <2>4 DEF RequestOK
  <2> QED  BY <2>3, <2>4 DEF RequestOK
<1>2. RequestsOK'  BY <1>1 DEF RequestsOK, RequestsMove
<1>3. TeamTypeOK'
  <2>1. \A q \in Requests : request'[q].op \in Operations \cup {"none", "accept"}
    BY DEF RequestsMove, RequestOK
  <2> QED  BY <2>1 DEF TeamTypeOK
<1>4. Placed'  BY DEF Placed
<1> QED  BY <1>2, <1>3, <1>4 DEF Typed

\* A step that only moves a request along.
LEMMA OnlyRequests ==
  ASSUME Typed, RequestsMove, UNCHANGED <<user, spent, founded, invite>>
  PROVE  Typed'
<1>1. Users' = Users /\ Issued' = Issued  BY DEF Users, Issued
<1>2. /\ user \in [Accounts -> UserRows \cup {Nobody}] /\ invite \in [Invites -> InviteRows \cup {Nobody}]
      /\ Users \subseteq spent /\ spent \subseteq Accounts /\ founded \subseteq Businesses
  BY DEF Typed, TeamTypeOK
<1>3. Placed  BY DEF Typed
<1> QED  BY <1>1, <1>2, <1>3, Changed DEF Placed

LEMMA RefusedStep ==
  ASSUME Typed, NEW q \in Requests, Refused(q)
  PROVE  Typed'
BY Ended, OnlyRequests DEF Refused

LEMMA CheckedStep ==
  ASSUME Typed, NEW q \in Requests, request[q].op # "none", NEW t, NEW role, Checked(q, t, role),
         RequestOK([op |-> request[q].op, step |-> "checked", caller |-> request[q].caller,
                    business |-> request[q].business, target |-> t, role |-> role])
  PROVE  Typed'
<1>1. request' = [request EXCEPT ![q] =
                   [op |-> request[q].op, step |-> "checked", caller |-> request[q].caller,
                    business |-> request[q].business, target |-> t, role |-> role]]
  BY DEF Checked
<1>2. RequestsMove  BY <1>1, Moved
<1> QED  BY <1>2, OnlyRequests DEF Checked

\* What TeamTypeOK says, function by function, for the steps that change rows.
LEMMA Functions ==
  ASSUME Typed
  PROVE  /\ user \in [Accounts -> UserRows \cup {Nobody}]
         /\ invite \in [Invites -> InviteRows \cup {Nobody}]
         /\ Users \subseteq spent /\ spent \subseteq Accounts /\ founded \subseteq Businesses
         /\ \A a \in Users : user[a].business \in founded \cup {Nobody}
         /\ \A i \in Issued : invite[i].business \in founded
         /\ \A q \in Requests : RequestOK(request[q])
BY DEF Typed, TeamTypeOK, Placed, RequestsOK

\* Only users' rows change, one at a time and never the business.
LEMMA UserStep ==
  ASSUME Typed, RequestsMove, UNCHANGED <<spent, founded, invite>>,
         user' \in [Accounts -> UserRows \cup {Nobody}],
         \A a \in Users' : a \in Users /\ user'[a].business = user[a].business
  PROVE  Typed'
<1>1. Issued' = Issued  BY DEF Issued
<1> QED  BY <1>1, Functions, Changed

\* Only invitations change, and none is taken out.
LEMMA InviteStep ==
  ASSUME Typed, RequestsMove, UNCHANGED <<user, spent, founded>>,
         invite' \in [Invites -> InviteRows \cup {Nobody}],
         Issued \subseteq Issued',
         \A i \in Issued' : invite'[i].business \in founded
  PROVE  Typed'
<1>1. Users' = Users  BY DEF Users
<1> QED  BY <1>1, Functions, Changed

\* A flag of an invitation is set.
LEMMA FlagStep ==
  ASSUME Typed, RequestsMove, UNCHANGED <<user, spent, founded>>, NEW i \in Issued,
         NEW row \in InviteRows, row.business = invite[i].business,
         invite' = [invite EXCEPT ![i] = row]
  PROVE  Typed'
<1>1. invite' \in [Invites -> InviteRows \cup {Nobody}]  BY Functions
<1>2. \A j \in Invites : invite'[j] = IF j = i THEN row ELSE invite[j]  BY Functions
<1>3. Issued' = Issued  BY <1>2, Rows DEF Issued
<1>4. \A j \in Issued' : invite'[j].business \in founded  BY <1>2, <1>3, Functions, Rows
<1> QED  BY <1>1, <1>3, <1>4, InviteStep

LEMMA OpenStep ==
  ASSUME Typed, NEW q \in Requests, NEW a \in Accounts, NEW b \in Businesses,
         NEW op \in Operations, Open(q, a, b, op)
  PROVE  Typed'
<1>1. b \in founded
  <2>1. user[a].business \in founded \cup {Nobody}  BY Functions DEF Open
  <2> QED  BY <2>1, Rows DEF Open, Reach
<1>2. RequestOK([op |-> op, step |-> "opened", caller |-> a, business |-> b])
  BY <1>1 DEF RequestOK, Operations
<1>3. RequestsMove  BY <1>2, Moved DEF Open
<1> QED  BY <1>3, OnlyRequests DEF Open

LEMMA CheckMemberStep ==
  ASSUME Typed, NEW q \in Requests, NEW a \in Accounts, NEW role \in Roles,
         CheckRole(q, a, role) \/ CheckRemove(q, a)
  PROVE  Typed'
<1>1. a \in spent /\ user[a].business = request[q].business
  BY Rows DEF CheckRole, CheckRemove, Manageable
<1>2. RequestOK(request[q])  BY Functions
<1>3. CASE CheckRole(q, a, role) /\ ~Refused(q)
  <2>1. RequestOK([op |-> request[q].op, step |-> "checked", caller |-> request[q].caller,
                   business |-> request[q].business, target |-> a, role |-> role])
    BY <1>1, <1>2, <1>3 DEF RequestOK, CheckRole, At, Operations
  <2> QED  BY <1>3, <2>1, CheckedStep DEF CheckRole, At
<1>4. CASE CheckRemove(q, a) /\ ~Refused(q)
  <2>1. RequestOK([op |-> request[q].op, step |-> "checked", caller |-> request[q].caller,
                   business |-> request[q].business, target |-> a, role |-> "none"])
    BY <1>1, <1>2, <1>4 DEF RequestOK, CheckRemove, At, Operations
  <2> QED  BY <1>4, <2>1, CheckedStep DEF CheckRemove, At
<1> QED  BY <1>3, <1>4, RefusedStep

LEMMA CommitMemberStep ==
  ASSUME Typed, NEW q \in Requests, CommitRole(q) \/ CommitRemove(q)
  PROVE  Typed'
<1> DEFINE t == Target(q)
<1>1. RequestOK(request[q])  BY Functions
<1>2. CASE CommitRole(q) /\ t \notin Users  BY <1>2, RefusedStep DEF CommitRole
<1>3. CASE CommitRole(q) /\ t \in Users
  <2>1. user' = [user EXCEPT ![t].role = request[q].role] /\ Finish(q) /\ UNCHANGED <<spent, founded, invite>>
    BY <1>3 DEF CommitRole
  <2>2. request[q].role \in Roles  BY <1>1, <1>3 DEF RequestOK, CommitRole, At, InvitableRoles, Roles
  <2>3. user[t] \in UserRows /\ t \in Accounts  BY <1>3, Rows
  <2>4. [user[t] EXCEPT !.role = request[q].role] \in UserRows  BY <2>2, <2>3 DEF UserRows
  <2>5. user' = [user EXCEPT ![t] = [user[t] EXCEPT !.role = request[q].role]]  BY <2>1
  <2>6. user' \in [Accounts -> UserRows \cup {Nobody}]  BY <2>4, <2>5, Functions
  <2>7. \A a \in Accounts : user'[a] = IF a = t THEN [user[t] EXCEPT !.role = request[q].role] ELSE user[a]
    BY <2>5, Functions
  <2>8. [user[t] EXCEPT !.role = request[q].role].business = user[t].business  BY <2>3 DEF UserRows
  <2>9. \A a \in Users' : a \in Users /\ user'[a].business = user[a].business
    BY <1>3, <2>7, <2>8 DEF Users
  <2> QED  BY <2>1, <2>6, <2>9, Ended, UserStep
<1>4. CASE CommitRemove(q)
  <2>1. user' = [user EXCEPT ![t] = Nobody] /\ Finish(q) /\ UNCHANGED <<spent, founded, invite>>
    BY <1>4 DEF CommitRemove
  <2>2. user' \in [Accounts -> UserRows \cup {Nobody}]  BY <2>1, Functions
  <2>3. \A a \in Users' : a \in Users /\ user'[a].business = user[a].business
    BY <2>1, Functions DEF Users
  <2> QED  BY <2>1, <2>2, <2>3, Ended, UserStep
<1> QED  BY <1>2, <1>3, <1>4

LEMMA CheckInviteStep ==
  ASSUME Typed, NEW q \in Requests, NEW m \in Emails, NEW role \in Roles, CheckInvite(q, m, role)
  PROVE  Typed'
<1>1. CASE Taken(m)  BY <1>1, RefusedStep DEF CheckInvite
<1>2. CASE ~Taken(m)
  <2>1. PICK old \in Issued \cup {Nobody} : Checked(q, [email |-> m, old |-> old], role)
    BY <1>2 DEF CheckInvite, LinksTo
  <2>2. RequestOK(request[q])  BY Functions
  <2>3. RequestOK([op |-> request[q].op, step |-> "checked", caller |-> request[q].caller,
                   business |-> request[q].business, target |-> [email |-> m, old |-> old],
                   role |-> role])
    BY <2>2 DEF RequestOK, CheckInvite, At, Operations
  <2> QED  BY <2>1, <2>3, CheckedStep DEF CheckInvite, At
<1> QED  BY <1>1, <1>2

\* The rows of invitations after create_invite().
LEMMA InviteRow ==
  ASSUME Typed, NEW q \in Requests, NEW i \in Invites, CommitInvite(q, i)
  PROVE  LET b == request[q].business
             m == Target(q).email
             old == Target(q).old
             new == [business |-> b, email |-> m, role |-> request[q].role,
                     accepted |-> FALSE, revoked |-> FALSE, expired |-> FALSE] IN
         /\ new \in InviteRows /\ b \in founded /\ i \notin Issued
         /\ old \in Issued \cup {Nobody} /\ old # i
         /\ invite' \in [Invites -> InviteRows \cup {Nobody}]
         /\ \A j \in Invites : invite'[j] = IF j = i THEN new ELSE
                                            IF j = old THEN [invite[j] EXCEPT !.revoked = TRUE]
                                            ELSE invite[j]
         /\ Issued' = Issued \cup {i}
<1> DEFINE b == request[q].business
<1> DEFINE m == Target(q).email
<1> DEFINE old == Target(q).old
<1> DEFINE new == [business |-> b, email |-> m, role |-> request[q].role,
                   accepted |-> FALSE, revoked |-> FALSE, expired |-> FALSE]
<1>1. RequestOK(request[q])  BY Functions
<1>2. b \in founded /\ m \in Emails /\ request[q].role \in InvitableRoles /\ old \in Issued \cup {Nobody}
  BY <1>1 DEF RequestOK, CommitInvite, At, Target
<1>3. b \in Businesses  BY <1>2, Functions
<1>4. new \in InviteRows  BY <1>2, <1>3 DEF InviteRows
<1>5. i \notin Issued  BY DEF CommitInvite, Issued
<1>6. Nobody \notin Invites  BY TeamAssumption
<1>7. invite' = [Replaced(q) EXCEPT ![i] = new]  BY DEF CommitInvite
<1>8. /\ Replaced(q) \in [Invites -> InviteRows \cup {Nobody}]
      /\ \A j \in Invites : Replaced(q)[j] = IF j = old THEN [invite[j] EXCEPT !.revoked = TRUE]
                                             ELSE invite[j]
  <2>1. CASE old = Nobody  BY <2>1, <1>6, Functions DEF Replaced
  <2>2. CASE old # Nobody
    <3>1. old \in Issued  BY <1>2, <2>2
    <3>2. invite[old] \in InviteRows /\ old \in Invites  BY <3>1, Rows
    <3>3. [invite[old] EXCEPT !.revoked = TRUE] \in InviteRows  BY <3>2 DEF InviteRows
    <3>4. Replaced(q) = [invite EXCEPT ![old] = [invite[old] EXCEPT !.revoked = TRUE]]
      BY <2>2 DEF Replaced
    <3> QED  BY <3>2, <3>3, <3>4, Functions
  <2> QED  BY <2>1, <2>2
<1>9. invite' \in [Invites -> InviteRows \cup {Nobody}]  BY <1>4, <1>7, <1>8
<1>10. old # i  BY <1>2, <1>5, <1>6
<1>11. \A j \in Invites : invite'[j] = IF j = i THEN new ELSE
                                       IF j = old THEN [invite[j] EXCEPT !.revoked = TRUE]
                                       ELSE invite[j]
  BY <1>7, <1>8
<1>12. Issued' = Issued \cup {i}
  <2>1. ASSUME NEW j \in Invites, j # i  PROVE invite'[j] # Nobody <=> invite[j] # Nobody
    <3>1. CASE j = old
      <4>1. invite[j] \in InviteRows  BY <1>2, <1>6, <3>1, Rows
      <4>2. [invite[j] EXCEPT !.revoked = TRUE] \in InviteRows  BY <4>1 DEF InviteRows
      <4> QED  BY <4>1, <4>2, <3>1, <2>1, <1>11, Rows
    <3>2. CASE j # old  BY <2>1, <3>2, <1>11
    <3> QED  BY <3>1, <3>2
  <2>2. invite'[i] # Nobody  BY <1>4, <1>11, Rows
  <2> QED  BY <2>1, <2>2 DEF Issued
<1> QED  BY <1>2, <1>4, <1>5, <1>9, <1>10, <1>11, <1>12

LEMMA CommitInviteStep ==
  ASSUME Typed, NEW q \in Requests, NEW i \in Invites, CommitInvite(q, i)
  PROVE  Typed'
<1>0. PICK new \in InviteRows, old \in Issued \cup {Nobody} :
        /\ new.business \in founded /\ Issued' = Issued \cup {i}
        /\ \A j \in Invites : invite'[j] = IF j = i THEN new ELSE
                                           IF j = old THEN [invite[j] EXCEPT !.revoked = TRUE]
                                           ELSE invite[j]
  <2> DEFINE new == [business |-> request[q].business, email |-> Target(q).email,
                     role |-> request[q].role, accepted |-> FALSE, revoked |-> FALSE,
                     expired |-> FALSE]
  <2>1. /\ new \in InviteRows /\ request[q].business \in founded
        /\ Target(q).old \in Issued \cup {Nobody} /\ Issued' = Issued \cup {i}
        /\ \A j \in Invites : invite'[j] = IF j = i THEN new ELSE
                                           IF j = Target(q).old
                                           THEN [invite[j] EXCEPT !.revoked = TRUE] ELSE invite[j]
    BY InviteRow
  <2>2. new.business \in founded  BY <2>1
  <2> QED  BY <2>1, <2>2
<1>1. /\ Issued' = Issued \cup {i} /\ i \in Invites
      /\ invite'[i].business \in founded
      /\ \A j \in Invites \ {i} : invite'[j] = invite[j] \/ invite'[j] = [invite[j] EXCEPT !.revoked = TRUE]
  BY <1>0
<1>2. ASSUME NEW j \in Issued'  PROVE invite'[j].business \in founded
  <2>1. CASE j = i  BY <2>1, <1>1
  <2>2. CASE j # i
    <3>1. j \in Issued  BY <2>2, <1>1
    <3>2. invite[j] \in InviteRows /\ j \in Invites  BY <3>1, Rows
    <3>3. [invite[j] EXCEPT !.revoked = TRUE].business = invite[j].business  BY <3>2 DEF InviteRows
    <3>4. invite'[j].business = invite[j].business  BY <2>2, <3>2, <3>3, <1>1
    <3> QED  BY <3>1, <3>4, Functions
  <2> QED  BY <2>1, <2>2
<1>3. RequestsMove  BY Ended DEF CommitInvite
<1>4. Issued \subseteq Issued' /\ invite' \in [Invites -> InviteRows \cup {Nobody}]  BY InviteRow
<1>5. UNCHANGED <<user, spent, founded>>  BY DEF CommitInvite
<1> QED  BY <1>2, <1>3, <1>4, <1>5, InviteStep

LEMMA RevokeStep ==
  ASSUME Typed, NEW q \in Requests, (\E i \in Invites : CheckRevoke(q, i)) \/ CommitRevoke(q)
  PROVE  Typed'
<1>1. RequestOK(request[q])  BY Functions
<1>2. ASSUME NEW i \in Invites, CheckRevoke(q, i)  PROVE Typed'
  <2>1. RequestOK([op |-> request[q].op, step |-> "checked", caller |-> request[q].caller,
                   business |-> request[q].business, target |-> i, role |-> "none"])
    BY <1>1, <1>2 DEF RequestOK, CheckRevoke, At, Operations
  <2> QED  BY <1>2, <2>1, CheckedStep DEF CheckRevoke, At
<1>3. CASE CommitRevoke(q)
  <2> DEFINE i == Target(q)
  <2> DEFINE row == [invite[i] EXCEPT !.revoked = TRUE]
  <2>1. i \in Issued  BY <1>1, <1>3 DEF RequestOK, CommitRevoke, At, Target
  <2>2. invite[i] \in InviteRows  BY <2>1, Rows
  <2>3. row \in InviteRows /\ row.business = invite[i].business  BY <2>2 DEF InviteRows
  <2>4. invite' = [invite EXCEPT ![i] = row] /\ UNCHANGED <<user, spent, founded>> /\ RequestsMove
    BY <1>3, Ended DEF CommitRevoke
  <2> QED  BY <2>1, <2>3, <2>4, FlagStep
<1> QED  BY <1>2, <1>3

LEMMA ExpireStep ==
  ASSUME Typed, NEW i \in Invites, Expire(i)
  PROVE  Typed'
<1> DEFINE row == [invite[i] EXCEPT !.expired = TRUE]
<1>1. i \in Issued  BY DEF Expire, Pending
<1>2. invite[i] \in InviteRows  BY <1>1, Rows
<1>3. row \in InviteRows /\ row.business = invite[i].business  BY <1>2 DEF InviteRows
<1>4. RequestsMove  BY DEF Expire, Typed, RequestsOK, RequestsMove
<1> QED  BY <1>1, <1>3, <1>4, FlagStep DEF Expire

LEMMA CheckAcceptStep ==
  ASSUME Typed, NEW q \in Requests, NEW i \in Invites, CheckAccept(q, i)
  PROVE  Typed'
<1>1. i \in Issued /\ invite[i] \in InviteRows  BY Rows DEF CheckAccept, Pending
<1>2. invite[i].role \in InvitableRoles /\ invite[i].business \in founded
  BY <1>1, Functions DEF InviteRows
<1>3. RequestOK([op |-> "accept", step |-> "checked", caller |-> Nobody,
                 business |-> invite[i].business, target |-> i, role |-> invite[i].role])
  BY <1>1, <1>2 DEF RequestOK, Operations
<1>4. RequestsMove  BY <1>3, Moved DEF CheckAccept
<1> QED  BY <1>4, OnlyRequests DEF CheckAccept

\* The rows after accept_invite(): one more account, one more link used.
LEMMA AcceptRow ==
  ASSUME Typed, NEW q \in Requests, NEW a \in Accounts, CommitAccept(q, a), ~Refused(q)
  PROVE  LET i == Target(q)
             row == [email |-> invite[i].email, business |-> invite[i].business,
                     role |-> request[q].role, by |-> i] IN
         /\ i \in Issued /\ a \notin spent /\ row \in UserRows /\ Insertable(invite[i].email)
         /\ user' = [user EXCEPT ![a] = row] /\ spent' = spent \cup {a}
         /\ Users' = Users \cup {a}
         /\ invite' = [invite EXCEPT ![i] = [invite[i] EXCEPT !.accepted = TRUE]]
         /\ [invite[i] EXCEPT !.accepted = TRUE] \in InviteRows
         /\ Issued' = Issued
<1> DEFINE i == Target(q)
<1> DEFINE row == [email |-> invite[i].email, business |-> invite[i].business,
                   role |-> request[q].role, by |-> i]
<1>1. RequestOK(request[q])  BY Functions
<1>2. i \in Issued /\ request[q].role \in InvitableRoles
  BY <1>1 DEF RequestOK, CommitAccept, At, Target
<1>3. invite[i] \in InviteRows /\ i \in Invites  BY <1>2, Rows
<1>4. row \in UserRows
  <2>1. invite[i].email \in Emails /\ invite[i].business \in Businesses  BY <1>3 DEF InviteRows
  <2>2. request[q].role \in Roles  BY <1>2 DEF InvitableRoles, Roles
  <2> QED  BY <1>3, <2>1, <2>2 DEF UserRows
<1>5. a \notin spent /\ user' = [user EXCEPT ![a] = row] /\ spent' = spent \cup {a}
      /\ invite' = [invite EXCEPT ![i].accepted = TRUE] /\ Insertable(invite[i].email)
  BY DEF CommitAccept
<1>6. Users' = Users \cup {a}
  <2>1. \A c \in Accounts : user'[c] = IF c = a THEN row ELSE user[c]  BY <1>5, Functions
  <2> QED  BY <2>1, <1>4, Rows DEF Users
<1>7. [invite[i] EXCEPT !.accepted = TRUE] \in InviteRows  BY <1>3 DEF InviteRows
<1>8. invite' = [invite EXCEPT ![i] = [invite[i] EXCEPT !.accepted = TRUE]]  BY <1>5
<1>9. Issued' = Issued
  <2>1. \A j \in Invites : invite'[j] = IF j = i THEN [invite[i] EXCEPT !.accepted = TRUE] ELSE invite[j]
    BY <1>8, Functions
  <2> QED  BY <2>1, <1>2, <1>7, Rows DEF Issued
<1> QED  BY <1>2, <1>4, <1>5, <1>6, <1>7, <1>8, <1>9

LEMMA CommitAcceptStep ==
  ASSUME Typed, NEW q \in Requests, NEW a \in Accounts, CommitAccept(q, a)
  PROVE  Typed'
<1>1. CASE Refused(q)  BY <1>1, RefusedStep
<1>2. CASE ~Refused(q)
  <2> DEFINE i == Target(q)
  <2> DEFINE row == [email |-> invite[i].email, business |-> invite[i].business,
                     role |-> request[q].role, by |-> i]
  <2> DEFINE used == [invite[i] EXCEPT !.accepted = TRUE]
  <2>1. /\ i \in Issued /\ a \notin spent /\ row \in UserRows
        /\ user' = [user EXCEPT ![a] = row] /\ spent' = spent \cup {a} /\ Users' = Users \cup {a}
        /\ invite' = [invite EXCEPT ![i] = used] /\ used \in InviteRows /\ Issued' = Issued
    BY <1>2, AcceptRow
  <2>2. RequestsMove /\ founded' = founded  BY <1>2, Ended DEF CommitAccept
  <2>3. user' \in [Accounts -> UserRows \cup {Nobody}]  BY <2>1, Functions
  <2>4. invite' \in [Invites -> InviteRows \cup {Nobody}]  BY <2>1, Functions
  <2>5. spent \subseteq spent' /\ spent' \subseteq Accounts /\ Users' \subseteq spent'  BY <2>1, Functions
  <2>6. \A c \in Accounts : user'[c] = IF c = a THEN row ELSE user[c]  BY <2>1, Functions
  <2>7. invite[i].business \in founded  BY <2>1, Functions
  <2>8. \A c \in Users' : user'[c].business \in founded \cup {Nobody}
    BY <2>1, <2>6, <2>7, Functions, Rows
  <2>9. \A c \in Users' \cap spent : c \in Users /\ user'[c].business = user[c].business
    BY <2>1, <2>6, Rows
  <2>10. \A j \in Issued' : invite'[j].business \in founded
    <3>1. used.business = invite[i].business
      <4>1. invite[i] \in InviteRows  BY <2>1, Rows
      <4> QED  BY <4>1 DEF InviteRows
    <3>2. \A j \in Invites : invite'[j] = IF j = i THEN used ELSE invite[j]  BY <2>1, Functions
    <3> QED  BY <2>1, <2>7, <3>1, <3>2, Functions, Rows
  <2>11. founded \subseteq founded' /\ founded' \subseteq Businesses /\ Issued \subseteq Issued'
    BY <2>1, <2>2, Functions
  <2> QED  BY <2>2, <2>3, <2>4, <2>5, <2>8, <2>9, <2>10, <2>11, Changed
<1> QED  BY <1>1, <1>2

LEMMA SignUpStep ==
  ASSUME Typed, NEW a \in Accounts, NEW m \in Emails, NEW b \in Businesses, SignUp(a, m, b)
  PROVE  Typed'
<1> DEFINE row == [email |-> m, business |-> b, role |-> "owner", by |-> Nobody]
<1>1. row \in UserRows  BY DEF UserRows, Roles
<1>2. /\ user' = [user EXCEPT ![a] = row] /\ spent' = spent \cup {a} /\ founded' = founded \cup {b}
      /\ a \notin spent /\ UNCHANGED <<invite, request>>
  BY DEF SignUp
<1>3. user' \in [Accounts -> UserRows \cup {Nobody}]  BY <1>1, <1>2, Functions
<1>4. \A c \in Accounts : user'[c] = IF c = a THEN row ELSE user[c]  BY <1>2, Functions
<1>5. Users' = Users \cup {a}  BY <1>1, <1>4, Rows DEF Users
<1>6. spent \subseteq spent' /\ spent' \subseteq Accounts /\ Users' \subseteq spent'
  BY <1>2, <1>5, Functions
<1>7. \A c \in Users' : user'[c].business \in founded' \cup {Nobody}
  BY <1>2, <1>4, <1>5, Functions, Rows
<1>8. \A c \in Users' \cap spent : c \in Users /\ user'[c].business = user[c].business
  BY <1>2, <1>4, <1>5, Rows
<1>9. Issued' = Issued /\ \A j \in Issued' : invite'[j].business \in founded'
  BY <1>2, Functions DEF Issued
<1>10. RequestsMove  BY <1>2 DEF Typed, RequestsOK, RequestsMove
<1>11. invite' \in [Invites -> InviteRows \cup {Nobody}] /\ Issued \subseteq Issued'
       /\ founded \subseteq founded' /\ founded' \subseteq Businesses
  BY <1>2, <1>9, Functions
<1> QED  BY <1>3, <1>6, <1>7, <1>8, <1>9, <1>10, <1>11, Changed

LEMMA PlatformStep ==
  ASSUME Typed, NEW a \in Accounts, NEW m \in Emails, NEW role \in Roles, CreatePlatformUser(a, m, role)
  PROVE  Typed'
<1> DEFINE row == [email |-> m, business |-> Nobody, role |-> role, by |-> Nobody]
<1>1. row \in UserRows  BY DEF UserRows
<1>2. /\ user' = [user EXCEPT ![a] = row] /\ spent' = spent \cup {a}
      /\ a \notin spent /\ UNCHANGED <<founded, invite, request>>
  BY DEF CreatePlatformUser
<1>3. user' \in [Accounts -> UserRows \cup {Nobody}]  BY <1>1, <1>2, Functions
<1>4. \A c \in Accounts : user'[c] = IF c = a THEN row ELSE user[c]  BY <1>2, Functions
<1>5. Users' = Users \cup {a}  BY <1>1, <1>4, Rows DEF Users
<1>6. spent \subseteq spent' /\ spent' \subseteq Accounts /\ Users' \subseteq spent'
  BY <1>2, <1>5, Functions
<1>7. \A c \in Users' : user'[c].business \in founded' \cup {Nobody}
  BY <1>2, <1>4, <1>5, Functions, Rows
<1>8. \A c \in Users' \cap spent : c \in Users /\ user'[c].business = user[c].business
  BY <1>2, <1>4, <1>5, Rows
<1>9. Issued' = Issued /\ \A j \in Issued' : invite'[j].business \in founded'
  BY <1>2, Functions DEF Issued
<1>10. RequestsMove  BY <1>2 DEF Typed, RequestsOK, RequestsMove
<1>11. invite' \in [Invites -> InviteRows \cup {Nobody}] /\ Issued \subseteq Issued'
       /\ founded \subseteq founded' /\ founded' \subseteq Businesses
  BY <1>2, <1>9, Functions
<1> QED  BY <1>3, <1>6, <1>7, <1>8, <1>9, <1>10, <1>11, Changed

LEMMA TypeStep ==
  ASSUME Typed, [TeamNext]_team
  PROVE  Typed'
<1>1. CASE UNCHANGED team
  <2>1. RequestsMove  BY <1>1 DEF team, Typed, RequestsOK, RequestsMove
  <2> QED  BY <1>1, <2>1, OnlyRequests DEF team
<1>2. ASSUME NEW q \in Requests, NEW a \in Accounts, NEW b \in Businesses, NEW op \in Operations,
             Open(q, a, b, op)
      PROVE  Typed'
  BY <1>2, OpenStep
<1>3. ASSUME NEW q \in Requests, NEW a \in Accounts,
             (\E role \in Roles : CheckRole(q, a, role)) \/ CheckRemove(q, a)
      PROVE  Typed'
  <2>1. PICK role \in Roles : CheckRole(q, a, role) \/ CheckRemove(q, a)  BY <1>3 DEF Roles
  <2> QED  BY <2>1, CheckMemberStep
<1>4. ASSUME NEW q \in Requests, CommitRole(q) \/ CommitRemove(q)  PROVE Typed'
  BY <1>4, CommitMemberStep
<1>5. ASSUME NEW q \in Requests, NEW m \in Emails, NEW role \in Roles, CheckInvite(q, m, role)
      PROVE  Typed'
  BY <1>5, CheckInviteStep
<1>6. ASSUME NEW q \in Requests, NEW i \in Invites, CommitInvite(q, i)  PROVE Typed'
  BY <1>6, CommitInviteStep
<1>7. ASSUME NEW q \in Requests, (\E i \in Invites : CheckRevoke(q, i)) \/ CommitRevoke(q)
      PROVE  Typed'
  BY <1>7, RevokeStep
<1>8. ASSUME NEW q \in Requests, NEW i \in Invites, CheckAccept(q, i)  PROVE Typed'
  BY <1>8, CheckAcceptStep
<1>9. ASSUME NEW q \in Requests, NEW a \in Accounts, CommitAccept(q, a)  PROVE Typed'
  BY <1>9, CommitAcceptStep
<1>10. ASSUME NEW i \in Invites, Expire(i)  PROVE Typed'
  BY <1>10, ExpireStep
<1>11. ASSUME NEW a \in Accounts, NEW m \in Emails, NEW b \in Businesses, SignUp(a, m, b)
       PROVE  Typed'
  BY <1>11, SignUpStep
<1>12. ASSUME NEW a \in Accounts, NEW m \in Emails, NEW role \in Roles, CreatePlatformUser(a, m, role)
       PROVE  Typed'
  BY <1>12, PlatformStep
<1> QED  BY <1>1, <1>2, <1>3, <1>4, <1>5, <1>6, <1>7, <1>8, <1>9, <1>10, <1>11, <1>12 DEF TeamNext

LEMMA TypeInit == TeamInit => Typed
<1> SUFFICES ASSUME TeamInit  PROVE Typed
  OBVIOUS
<1>1. \A a \in DOMAIN Founders : Founders[a] \in UserRows /\ a \in Accounts
  BY TeamAssumption DEF UserRows
<1>2. /\ \A a \in Accounts : user[a] = IF a \in DOMAIN Founders THEN Founders[a] ELSE Nobody
      /\ user \in [Accounts -> UserRows \cup {Nobody}]
  BY <1>1 DEF TeamInit
<1>3. Users = DOMAIN Founders
  <2>1. \A a \in DOMAIN Founders : Founders[a] # Nobody
    BY <1>1, TeamAssumption DEF UserRows
  <2> QED  BY <1>1, <1>2, <2>1 DEF Users
<1>4. Issued = {}  BY DEF TeamInit, Issued
<1>5. founded \subseteq Businesses
  <2>1. \A a \in DOMAIN Founders : Founders[a].business \in Businesses \cup {Nobody}
    BY <1>1 DEF UserRows
  <2> QED  BY <2>1 DEF TeamInit
<1>6. TeamTypeOK
  <2>1. Users \subseteq spent /\ spent \subseteq Accounts  BY <1>1, <1>3 DEF TeamInit
  <2>2. invite \in [Invites -> InviteRows \cup {Nobody}]  BY DEF TeamInit
  <2>3. \A q \in Requests : request[q].op = "none"  BY DEF TeamInit, Free
  <2> QED  BY <1>2, <1>5, <2>1, <2>2, <2>3 DEF TeamTypeOK
<1>7. RequestsOK
  <2>1. RequestOK(Free)  BY DEF RequestOK, Free, Operations
  <2> QED  BY <2>1 DEF TeamInit, RequestsOK
<1>8. Placed
  <2>1. \A a \in Users : user[a].business = Founders[a].business  BY <1>1, <1>2, <1>3
  <2> QED  BY <1>3, <1>4, <2>1 DEF Placed, TeamInit
<1> QED  BY <1>6, <1>7, <1>8 DEF Typed

LEMMA AlwaysTyped == TeamSpec => []Typed
BY TypeInit, TypeStep, PTL DEF TeamSpec

\* The rows of people, invitations and requests keep their types.
THEOREM TypeCorrect == TeamSpec => []TeamTypeOK
<1>1. Typed => TeamTypeOK  BY DEF Typed
<1> QED  BY <1>1, AlwaysTyped, PTL

-----------------------------------------------------------------------------
(* Seats.  What a step leaves of the people and of the links.              *)

PeopleStay == \A a \in Users' : /\ a \in Users
                                /\ user'[a].email = user[a].email
                                /\ user'[a].business = user[a].business
                                /\ user'[a].by = user[a].by

LinksStay == \A i \in Issued : /\ i \in Issued'
                               /\ invite'[i].email = invite[i].email
                               /\ invite'[i].business = invite[i].business
                               /\ invite[i].accepted => invite'[i].accepted
                               /\ Pending(i)' => Pending(i)

\* One email an account; who came by an invitation is the person it was for.
Seats ==
  /\ \A a, b \in Users : user[a].email = user[b].email => a = b
  /\ \A a \in Users : user[a].by # Nobody =>
       /\ user[a].by \in Issued
       /\ invite[user[a].by].accepted
       /\ invite[user[a].by].email = user[a].email
       /\ invite[user[a].by].business = user[a].business

LEMMA SameRows ==
  ASSUME UNCHANGED <<user, invite>>
  PROVE  PeopleStay /\ LinksStay
BY DEF PeopleStay, LinksStay, Users, Issued, Pending

LEMMA MembersStay ==
  ASSUME Typed, NEW q \in Requests, CommitRole(q) \/ CommitRemove(q)
  PROVE  PeopleStay /\ LinksStay
<1> DEFINE t == Target(q)
<1>1. CASE CommitRole(q) /\ t \notin Users  BY <1>1, SameRows DEF CommitRole, Refused
<1>2. CASE CommitRole(q) /\ t \in Users
  <2> DEFINE row == [user[t] EXCEPT !.role = request[q].role]
  <2>1. user' = [user EXCEPT ![t] = row] /\ invite' = invite  BY <1>2 DEF CommitRole
  <2>2. user[t] \in UserRows  BY <1>2, Rows
  <2>3. row.email = user[t].email /\ row.business = user[t].business /\ row.by = user[t].by
    BY <2>2 DEF UserRows
  <2>4. \A a \in Accounts : user'[a] = IF a = t THEN row ELSE user[a]  BY <2>1, Functions
  <2>5. PeopleStay  BY <1>2, <2>3, <2>4 DEF PeopleStay, Users
  <2>6. LinksStay  BY <2>1 DEF LinksStay, Issued, Pending
  <2> QED  BY <2>5, <2>6
<1>3. CASE CommitRemove(q)
  <2>1. user' = [user EXCEPT ![t] = Nobody] /\ invite' = invite  BY <1>3 DEF CommitRemove
  <2>2. \A a \in Accounts : user'[a] = IF a = t THEN Nobody ELSE user[a]  BY <2>1, Functions
  <2>3. PeopleStay  BY <2>2 DEF PeopleStay, Users
  <2>4. LinksStay  BY <2>1 DEF LinksStay, Issued, Pending
  <2> QED  BY <2>3, <2>4
<1> QED  BY <1>1, <1>2, <1>3

LEMMA FlagsStay ==
  ASSUME Typed, NEW i \in Issued, UNCHANGED user,
         \/ invite' = [invite EXCEPT ![i] = [invite[i] EXCEPT !.revoked = TRUE]]
         \/ invite' = [invite EXCEPT ![i] = [invite[i] EXCEPT !.expired = TRUE]]
         \/ invite' = [invite EXCEPT ![i] = [invite[i] EXCEPT !.accepted = TRUE]]
  PROVE  LinksStay /\ Issued' = Issued
<1>1. invite[i] \in InviteRows /\ i \in Invites /\ Nobody \notin InviteRows  BY Rows
<1>2. PICK row \in InviteRows : /\ invite' = [invite EXCEPT ![i] = row]
                                /\ row.email = invite[i].email /\ row.business = invite[i].business
                                /\ invite[i].accepted => row.accepted
                                /\ invite[i].revoked => row.revoked
                                /\ invite[i].expired => row.expired
  BY <1>1 DEF InviteRows
<1>3. \A j \in Invites : invite'[j] = IF j = i THEN row ELSE invite[j]  BY <1>2, Functions
<1>4. Issued' = Issued  BY <1>1, <1>3 DEF Issued
<1>5. ASSUME NEW j \in Issued
      PROVE  /\ j \in Issued' /\ invite'[j].email = invite[j].email
             /\ invite'[j].business = invite[j].business
             /\ invite[j].accepted => invite'[j].accepted
             /\ Pending(j)' => Pending(j)
  <2>1. j \in Invites /\ invite[j] \in InviteRows  BY Rows
  <2>2. CASE j = i  BY <1>2, <1>3, <1>4, <2>1, <2>2 DEF Pending, InviteRows
  <2>3. CASE j # i  BY <1>3, <1>4, <2>1, <2>3 DEF Pending
  <2> QED  BY <2>2, <2>3
<1> QED  BY <1>4, <1>5 DEF LinksStay

LEMMA InvitesStay ==
  ASSUME Typed, NEW q \in Requests, NEW i \in Invites, CommitInvite(q, i)
  PROVE  PeopleStay /\ LinksStay
<1>1. PeopleStay  BY DEF CommitInvite, PeopleStay, Users
<1>2. ASSUME NEW j \in Issued
      PROVE  /\ j \in Issued' /\ invite'[j].email = invite[j].email
             /\ invite'[j].business = invite[j].business
             /\ invite[j].accepted => invite'[j].accepted
             /\ Pending(j)' => Pending(j)
  <2> DEFINE b == request[q].business
  <2> DEFINE m == Target(q).email
  <2> DEFINE old == Target(q).old
  <2> DEFINE new == [business |-> b, email |-> m, role |-> request[q].role,
                     accepted |-> FALSE, revoked |-> FALSE, expired |-> FALSE]
  <2>1. /\ i \notin Issued /\ Issued' = Issued \cup {i}
        /\ \A k \in Invites : invite'[k] = IF k = i THEN new ELSE
                                           IF k = old THEN [invite[k] EXCEPT !.revoked = TRUE]
                                           ELSE invite[k]
    BY InviteRow
  <2>2. j # i /\ j \in Issued' /\ j \in Invites /\ invite[j] \in InviteRows  BY <2>1, Rows
  <2>3. CASE j = old
    <3>1. invite'[j] = [invite[j] EXCEPT !.revoked = TRUE]  BY <2>1, <2>2, <2>3
    <3> QED  BY <2>2, <3>1 DEF Pending, InviteRows
  <2>4. CASE j # old
    <3>1. invite'[j] = invite[j]  BY <2>1, <2>2, <2>4
    <3> QED  BY <2>2, <3>1 DEF Pending
  <2> QED  BY <2>3, <2>4
<1> QED  BY <1>1, <1>2 DEF LinksStay

\* Only these steps bring somebody in.
Joins == \/ \E q \in Requests, a \in Accounts : CommitAccept(q, a) /\ ~Refused(q)
         \/ \E a \in Accounts, m \in Emails, b \in Businesses : SignUp(a, m, b)
         \/ \E a \in Accounts, m \in Emails, role \in Roles : CreatePlatformUser(a, m, role)

LEMMA Frame ==
  ASSUME Typed, [TeamNext]_team
  PROVE  LinksStay /\ (PeopleStay \/ Joins)
<1>1. CASE UNCHANGED team  BY <1>1, SameRows DEF team
<1>2. ASSUME NEW q \in Requests, NEW a \in Accounts, NEW b \in Businesses, NEW op \in Operations,
             Open(q, a, b, op)
      PROVE  LinksStay /\ (PeopleStay \/ Joins)
  BY <1>2, SameRows DEF Open
<1>3. ASSUME NEW q \in Requests, NEW a \in Accounts,
             (\E role \in Roles : CheckRole(q, a, role)) \/ CheckRemove(q, a)
      PROVE  LinksStay /\ (PeopleStay \/ Joins)
  BY <1>3, SameRows DEF CheckRole, CheckRemove, Checked, Refused
<1>4. ASSUME NEW q \in Requests, CommitRole(q) \/ CommitRemove(q)
      PROVE  LinksStay /\ (PeopleStay \/ Joins)
  BY <1>4, MembersStay
<1>5. ASSUME NEW q \in Requests, NEW m \in Emails, NEW role \in Roles, CheckInvite(q, m, role)
      PROVE  LinksStay /\ (PeopleStay \/ Joins)
  BY <1>5, SameRows DEF CheckInvite, Checked, Refused
<1>6. ASSUME NEW q \in Requests, NEW i \in Invites, CommitInvite(q, i)
      PROVE  LinksStay /\ (PeopleStay \/ Joins)
  BY <1>6, InvitesStay
<1>7. ASSUME NEW q \in Requests, \E i \in Invites : CheckRevoke(q, i)
      PROVE  LinksStay /\ (PeopleStay \/ Joins)
  BY <1>7, SameRows DEF CheckRevoke, Checked
<1>8. ASSUME NEW q \in Requests, CommitRevoke(q)
      PROVE  LinksStay /\ (PeopleStay \/ Joins)
  <2>1. RequestOK(request[q])  BY Functions
  <2>2. Target(q) \in Issued  BY <1>8, <2>1 DEF RequestOK, CommitRevoke, At, Target
  <2>3. PeopleStay  BY <1>8 DEF CommitRevoke, PeopleStay, Users
  <2> QED  BY <1>8, <2>2, <2>3, FlagsStay DEF CommitRevoke
<1>9. ASSUME NEW q \in Requests, NEW i \in Invites, CheckAccept(q, i)
      PROVE  LinksStay /\ (PeopleStay \/ Joins)
  BY <1>9, SameRows DEF CheckAccept
<1>10. ASSUME NEW q \in Requests, NEW a \in Accounts, CommitAccept(q, a)
       PROVE  LinksStay /\ (PeopleStay \/ Joins)
  <2>1. CASE Refused(q)  BY <2>1, SameRows DEF Refused
  <2>2. CASE ~Refused(q)
    <3>1. RequestOK(request[q])  BY Functions
    <3>2. Target(q) \in Issued  BY <1>10, <3>1 DEF RequestOK, CommitAccept, At, Target
    <3>3. [invite EXCEPT ![Target(q)].accepted = TRUE]
            = [invite EXCEPT ![Target(q)] = [invite[Target(q)] EXCEPT !.accepted = TRUE]]
      OBVIOUS
    <3>4. Joins  BY <1>10, <2>2 DEF Joins
    <3>5. invite' = [invite EXCEPT ![Target(q)].accepted = TRUE]  BY <1>10, <2>2 DEF CommitAccept
    <3>6. LinksStay
      <4>1. ASSUME NEW j \in Issued
            PROVE  /\ j \in Issued' /\ invite'[j].email = invite[j].email
                   /\ invite'[j].business = invite[j].business
                   /\ invite[j].accepted => invite'[j].accepted
                   /\ Pending(j)' => Pending(j)
        <5>1. j \in Invites /\ invite[j] \in InviteRows /\ invite[Target(q)] \in InviteRows
          BY <3>2, Rows
        <5>2. [invite[j] EXCEPT !.accepted = TRUE] \in InviteRows  BY <5>1 DEF InviteRows
        <5>3. \A k \in Invites : invite'[k] = IF k = Target(q) THEN [invite[k] EXCEPT !.accepted = TRUE]
                                              ELSE invite[k]
          BY <3>5, Functions
        <5>4. CASE j = Target(q)
          <6>1. invite'[j] = [invite[j] EXCEPT !.accepted = TRUE]  BY <5>1, <5>3, <5>4
          <6>2. j \in Issued'  BY <5>1, <5>2, <6>1, Rows DEF Issued
          <6> QED  BY <5>1, <6>1, <6>2 DEF Pending, InviteRows
        <5>5. CASE j # Target(q)
          <6>1. invite'[j] = invite[j]  BY <5>1, <5>3, <5>5
          <6> QED  BY <5>1, <6>1 DEF Pending, Issued
        <5> QED  BY <5>4, <5>5
      <4> QED  BY <4>1 DEF LinksStay
    <3> QED  BY <3>4, <3>6
  <2> QED  BY <2>1, <2>2
<1>11. ASSUME NEW i \in Invites, Expire(i)  PROVE LinksStay /\ (PeopleStay \/ Joins)
  <2>1. i \in Issued  BY <1>11 DEF Expire, Pending
  <2>2. PeopleStay  BY <1>11 DEF Expire, PeopleStay, Users
  <2> QED  BY <1>11, <2>1, <2>2, FlagsStay DEF Expire
<1>12. ASSUME NEW a \in Accounts, NEW m \in Emails, NEW b \in Businesses, SignUp(a, m, b)
       PROVE  LinksStay /\ (PeopleStay \/ Joins)
  BY <1>12 DEF SignUp, LinksStay, Issued, Pending, Joins
<1>13. ASSUME NEW a \in Accounts, NEW m \in Emails, NEW role \in Roles, CreatePlatformUser(a, m, role)
       PROVE  LinksStay /\ (PeopleStay \/ Joins)
  BY <1>13 DEF CreatePlatformUser, LinksStay, Issued, Pending, Joins
<1> QED  BY <1>1, <1>2, <1>3, <1>4, <1>5, <1>6, <1>7, <1>8, <1>9, <1>10, <1>11, <1>12, <1>13
         DEF TeamNext

\* Who joins is the only one with that email, and used the link if there was one.
LEMMA SeatsJoin ==
  ASSUME Typed, Seats, LinksStay, NEW a \in Accounts, NEW row \in UserRows, a \notin Users,
         user' = [user EXCEPT ![a] = row], ~Taken(row.email),
         row.by # Nobody => /\ row.by \in Issued' /\ invite'[row.by].accepted
                            /\ invite'[row.by].email = row.email
                            /\ invite'[row.by].business = row.business
  PROVE  Seats'
<1>1. \A c \in Accounts : user'[c] = IF c = a THEN row ELSE user[c]  BY Functions
<1>2. Users' = Users \cup {a}  BY <1>1, Rows DEF Users
<1>3. \A c \in Users : c # a /\ user'[c] = user[c] /\ user[c].email # row.email
  BY <1>1, Rows DEF Taken
<1>4. user'[a] = row  BY <1>1
<1>5. \A c, d \in Users' : user'[c].email = user'[d].email => c = d
  BY <1>2, <1>3, <1>4 DEF Seats
<1>6. ASSUME NEW c \in Users', user'[c].by # Nobody
      PROVE  /\ user'[c].by \in Issued' /\ invite'[user'[c].by].accepted
             /\ invite'[user'[c].by].email = user'[c].email
             /\ invite'[user'[c].by].business = user'[c].business
  <2>1. CASE c = a  BY <1>4, <1>6, <2>1
  <2>2. CASE c # a
    <3>1. c \in Users /\ user'[c] = user[c]  BY <1>2, <1>3, <2>2
    <3> QED  BY <1>6, <3>1 DEF Seats, LinksStay
  <2> QED  BY <2>1, <2>2
<1> QED  BY <1>5, <1>6 DEF Seats

LEMMA SeatsStep ==
  ASSUME Typed, Seats, [TeamNext]_team
  PROVE  Seats'
<1>1. LinksStay /\ (PeopleStay \/ Joins)  BY Frame
<1>2. CASE PeopleStay
  <2>1. \A c, d \in Users' : user'[c].email = user'[d].email => c = d
    BY <1>2 DEF PeopleStay, Seats
  <2>2. ASSUME NEW c \in Users', user'[c].by # Nobody
        PROVE  /\ user'[c].by \in Issued' /\ invite'[user'[c].by].accepted
               /\ invite'[user'[c].by].email = user'[c].email
               /\ invite'[user'[c].by].business = user'[c].business
    <3>1. /\ c \in Users /\ user'[c].by = user[c].by /\ user'[c].email = user[c].email
          /\ user'[c].business = user[c].business
      BY <1>2 DEF PeopleStay
    <3> QED  BY <1>1, <2>2, <3>1 DEF LinksStay, Seats
  <2> QED  BY <2>1, <2>2 DEF Seats
<1>3. ASSUME NEW q \in Requests, NEW a \in Accounts, CommitAccept(q, a), ~Refused(q)
      PROVE  Seats'
  <2> DEFINE i == Target(q)
  <2> DEFINE row == [email |-> invite[i].email, business |-> invite[i].business,
                     role |-> request[q].role, by |-> i]
  <2> DEFINE used == [invite[i] EXCEPT !.accepted = TRUE]
  <2>1. /\ i \in Issued /\ a \notin spent /\ row \in UserRows /\ Insertable(invite[i].email)
        /\ user' = [user EXCEPT ![a] = row]
        /\ invite' = [invite EXCEPT ![i] = used] /\ Issued' = Issued
    BY <1>3, AcceptRow
  <2>2. invite'[i] = used  BY <2>1, Functions, Rows
  <2>3. invite[i] \in InviteRows  BY <2>1, Rows
  <2>4. used.accepted /\ used.email = invite[i].email /\ used.business = invite[i].business
    BY <2>3 DEF InviteRows
  <2>5. a \notin Users /\ ~Taken(row.email)  BY <2>1, Rows DEF Insertable
  <2> QED  BY <1>1, <2>1, <2>2, <2>4, <2>5, SeatsJoin
<1>4. ASSUME NEW a \in Accounts, NEW m \in Emails, NEW b \in Businesses, SignUp(a, m, b)
      PROVE  Seats'
  <2> DEFINE row == [email |-> m, business |-> b, role |-> "owner", by |-> Nobody]
  <2>1. row \in UserRows  BY DEF UserRows, Roles
  <2>2. user' = [user EXCEPT ![a] = row] /\ ~Taken(row.email) /\ a \notin spent  BY <1>4 DEF SignUp
  <2>3. a \notin Users  BY <2>2, Rows
  <2> QED  BY <1>1, <2>1, <2>2, <2>3, SeatsJoin
<1>5. ASSUME NEW a \in Accounts, NEW m \in Emails, NEW role \in Roles, CreatePlatformUser(a, m, role)
      PROVE  Seats'
  <2> DEFINE row == [email |-> m, business |-> Nobody, role |-> role, by |-> Nobody]
  <2>1. row \in UserRows  BY DEF UserRows
  <2>2. user' = [user EXCEPT ![a] = row] /\ ~Taken(row.email) /\ a \notin spent
    BY <1>5 DEF CreatePlatformUser
  <2>3. a \notin Users  BY <2>2, Rows
  <2> QED  BY <1>1, <2>1, <2>2, <2>3, SeatsJoin
<1> QED  BY <1>1, <1>2, <1>3, <1>4, <1>5 DEF Joins

LEMMA SeatsInit == TeamInit => Seats
<1> SUFFICES ASSUME TeamInit  PROVE Seats
  OBVIOUS
<1>1. \A a \in Users : a \in DOMAIN Founders /\ user[a] = Founders[a]
  BY DEF TeamInit, Users
<1>2. \A a \in DOMAIN Founders : Founders[a].by = Nobody
  BY TeamAssumption
<1> QED  BY <1>1, <1>2, TeamAssumption DEF Seats

\* An email has one account, and an invitation seats one person, in the business
\* that sent it, however the requests overlap.
THEOREM OneSeatHolds == TeamSpec => []OneSeat
<1>1. Seats => OneSeat  BY DEF Seats, OneSeat
<1> QED  BY <1>1, SeatsInit, SeatsStep, AlwaysTyped, PTL DEF TeamSpec

-----------------------------------------------------------------------------
(* The last owner.  A request that has checked that some other owner       *)
(* remains is still right when it commits, unless it was overlapped.       *)

\* Requests about to take their target's ownership, or a member, of b.
Takes(q, b) == /\ request[q].op \in {"role", "remove"} /\ request[q].step = "checked"
               /\ request[q].business = b /\ request[q].role # "owner"

Safe(b) == /\ Owners(b) # {}
           /\ \A q \in Requests : Takes(q, b) => Owners(b) \ {Target(q)} # {}

Owned == \A b \in founded \ raced : Safe(b)

\* Requests stay where they are, or end.
Calm == \A q \in Requests : request'[q] = request[q] \/ request'[q] = Free

LEMMA FinishIsCalm ==
  ASSUME Typed, NEW q \in Requests, Finish(q)
  PROVE  Calm /\ request'[q] = Free
BY DEF Finish, Calm, Typed, RequestsOK

LEMMA OwnersGrow ==
  ASSUME NEW b \in founded, Safe(b), Calm, Owners(b) \subseteq Owners(b)'
  PROVE  Safe(b)'
<1>1. ASSUME NEW q \in Requests, Takes(q, b)'
      PROVE  Takes(q, b) /\ Target(q)' = Target(q)
  BY <1>1 DEF Takes, Calm, Free, Target
<1> QED  BY <1>1 DEF Safe

\* A request that leaves the users alone and may have made a check.
LEMMA OwnersChecked ==
  ASSUME Typed, Owned, UNCHANGED <<user, founded, raced>>,
         NEW q \in Requests, NEW r, request' = [request EXCEPT ![q] = r],
         \A b \in founded : r.op \in {"role", "remove"} /\ r.step = "checked"
                            /\ r.business = b /\ r.role # "owner" /\ Owners(b) # {}
                              => Owners(b) \ {r.target} # {}
  PROVE  Owned'
<1>1. \A p \in Requests : request'[p] = IF p = q THEN r ELSE request[p]
  BY DEF Typed, RequestsOK
<1>2. ASSUME NEW b \in founded \ raced  PROVE Safe(b)'
  <2>1. Owners(b)' = Owners(b)  BY DEF Owners, Users
  <2>2. Safe(b)  BY DEF Owned
  <2>3. ASSUME NEW p \in Requests, Takes(p, b)'  PROVE Owners(b) \ {Target(p)'} # {}
    <3>1. CASE p = q  BY <1>1, <2>2, <2>3, <3>1 DEF Takes, Target, Safe
    <3>2. CASE p # q
      <4>1. Takes(p, b) /\ Target(p)' = Target(p)  BY <1>1, <2>3, <3>2 DEF Takes, Target
      <4> QED  BY <2>2, <4>1 DEF Safe
    <3> QED  BY <3>1, <3>2
  <2> QED  BY <2>1, <2>2, <2>3 DEF Safe
<1> QED  BY <1>2 DEF Owned

\* Nothing happens to the users, and no check is made.
LEMMA OwnersSame ==
  ASSUME Owned, Calm, UNCHANGED <<user, founded>>, raced \subseteq raced'
  PROVE  Owned'
<1>1. ASSUME NEW b \in founded, b \notin raced'  PROVE Safe(b)'
  <2>1. Owners(b)' = Owners(b)  BY DEF Owners, Users
  <2> QED  BY <1>1, <2>1, OwnersGrow DEF Owned
<1> QED  BY <1>1 DEF Owned

LEMMA OwnersCheckMember ==
  ASSUME Typed, Owned, NEW q \in Requests, NEW a \in Accounts, NEW role \in Roles,
         CheckRole(q, a, role) \/ CheckRemove(q, a)
  PROVE  Owned'
<1>1. CASE Refused(q)
  BY <1>1, FinishIsCalm, OwnersSame DEF Refused
<1>2. CASE CheckRole(q, a, role) /\ ~Refused(q)
  <2> DEFINE r == [op |-> request[q].op, step |-> "checked", caller |-> request[q].caller,
                   business |-> request[q].business, target |-> a, role |-> role]
  <2>1. request' = [request EXCEPT ![q] = r] /\ UNCHANGED <<user, founded, raced>>
    BY <1>2 DEF CheckRole, Checked
  <2>2. ASSUME role # "owner", Owners(request[q].business) # {}
        PROVE  Owners(request[q].business) \ {a} # {}
    <3>1. CASE user[a].role = "owner"  BY <1>2, <2>2, <3>1 DEF CheckRole, OthersOwn
    <3>2. CASE user[a].role # "owner"  BY <2>2, <3>2 DEF Owners
    <3> QED  BY <3>1, <3>2
  <2>3. \A b \in founded : r.op \in {"role", "remove"} /\ r.step = "checked" /\ r.business = b
                           /\ r.role # "owner" /\ Owners(b) # {} => Owners(b) \ {r.target} # {}
    BY <2>2
  <2> HIDE DEF r
  <2> QED  BY <2>1, <2>3, OwnersChecked
<1>3. CASE CheckRemove(q, a) /\ ~Refused(q)
  <2> DEFINE r == [op |-> request[q].op, step |-> "checked", caller |-> request[q].caller,
                   business |-> request[q].business, target |-> a, role |-> "none"]
  <2>1. request' = [request EXCEPT ![q] = r] /\ UNCHANGED <<user, founded, raced>>
    BY <1>3 DEF CheckRemove, Checked
  <2>2. ASSUME Owners(request[q].business) # {}
        PROVE  Owners(request[q].business) \ {a} # {}
    <3>1. CASE user[a].role = "owner"  BY <1>3, <2>2, <3>1 DEF CheckRemove, OthersOwn
    <3>2. CASE user[a].role # "owner"  BY <2>2, <3>2 DEF Owners
    <3> QED  BY <3>1, <3>2
  <2>3. \A b \in founded : r.op \in {"role", "remove"} /\ r.step = "checked" /\ r.business = b
                           /\ r.role # "owner" /\ Owners(b) # {} => Owners(b) \ {r.target} # {}
    BY <2>2
  <2> HIDE DEF r
  <2> QED  BY <2>1, <2>3, OwnersChecked
<1> QED  BY <1>1, <1>2, <1>3

\* An owner goes: the request that took it had checked that another remains, and
\* every other request that relies on one is overlapped.
LEMMA OwnerGoes ==
  ASSUME Typed, Owned, NEW q \in Requests, Calm, request'[q] = Free, founded' = founded,
         NEW t, NEW c, request[q].business = c, Takes(q, c), Target(q) = t,
         Owners(c)' = Owners(c) \ {t},
         \A b \in founded : b # c => Owners(b) \subseteq Owners(b)',
         Overlap(q, t \in Owners(c))
  PROVE  Owned'
<1>1. raced \subseteq raced'  BY DEF Overlap
<1>2. ASSUME NEW b \in founded, b \notin raced'  PROVE Safe(b)'
  <2>1. Safe(b)  BY <1>1, <1>2 DEF Owned
  <2>2. CASE b # c  BY <2>1, <2>2, OwnersGrow
  <2>3. CASE b = c /\ t \notin Owners(c)
    <3>1. Owners(b) \subseteq Owners(b)'  BY <2>3
    <3> QED  BY <2>1, <3>1, OwnersGrow
  <2>4. CASE b = c /\ t \in Owners(c)
    <3>1. \A p \in Requests \ {q} : ~Takes(p, b)
      BY <1>2, <2>4 DEF Overlap, Takes
    <3>2. ASSUME NEW p \in Requests  PROVE ~Takes(p, b)'
      <4>1. CASE p = q  BY <4>1 DEF Takes, Free
      <4>2. CASE p # q  BY <3>1, <4>2 DEF Takes, Calm, Free
      <4> QED  BY <4>1, <4>2
    <3>3. Takes(q, b) /\ Target(q) = t /\ Owners(b)' = Owners(b) \ {t}  BY <2>4
    <3>4. Owners(b)' # {}  BY <2>1, <3>3 DEF Safe
    <3> QED  BY <3>2, <3>4 DEF Safe
  <2> QED  BY <2>2, <2>3, <2>4
<1> QED  BY <1>2 DEF Owned

LEMMA OwnersMore ==
  ASSUME Owned, Calm, founded' = founded, raced \subseteq raced',
         \A b \in founded : Owners(b) \subseteq Owners(b)'
  PROVE  Owned'
BY OwnersGrow DEF Owned

LEMMA OwnersCommitRole ==
  ASSUME Typed, Owned, NEW q \in Requests, CommitRole(q)
  PROVE  Owned'
<1>1. CASE Target(q) \notin Users
  BY <1>1, FinishIsCalm, OwnersSame DEF CommitRole, Refused
<1>2. CASE Target(q) \in Users
  <2>1. PICK t, c, role : t \in Users /\ Target(q) = t /\ request[q].business = c /\ request[q].role = role
    BY <1>2
  <2>2. /\ user' = [user EXCEPT ![t].role = role] /\ founded' = founded
        /\ Overlap(q, IsOwner(t) /\ role # "owner") /\ Calm /\ request'[q] = Free
    BY <1>2, <2>1, FinishIsCalm DEF CommitRole
  <2>3. user[t].business = c
    <3>1. RequestOK(request[q])  BY Functions
    <3> QED  BY <2>1, <3>1 DEF RequestOK, CommitRole, At, Target
  <2>4. \A a \in Accounts : user'[a] = IF a = t THEN [user[t] EXCEPT !.role = role] ELSE user[a]
    BY <2>2, Functions
  <2>5. LET row == [user[t] EXCEPT !.role = role] IN
        row.role = role /\ row.business = c /\ row # Nobody
    <3>1. user[t] \in UserRows  BY <2>1, Rows
    <3>2. role \in Roles
      <4>1. RequestOK(request[q])  BY Functions
      <4> QED  BY <2>1, <4>1 DEF RequestOK, CommitRole, At, InvitableRoles, Roles
    <3>3. [user[t] EXCEPT !.role = role] \in UserRows  BY <3>1, <3>2 DEF UserRows
    <3> QED  BY <2>3, <3>1, <3>3, Rows DEF UserRows
  <2>6. raced \subseteq raced'  BY <2>2 DEF Overlap
  <2>7. CASE role = "owner"
    <3>1. \A b \in founded : Owners(b) \subseteq Owners(b)'
      BY <2>4, <2>5, <2>7, <2>3 DEF Owners, Users
    <3> QED  BY <2>2, <2>6, <3>1, OwnersMore
  <2>8. CASE role # "owner"
    <3>1. Owners(c)' = Owners(c) \ {t}  BY <2>4, <2>5, <2>8 DEF Owners, Users
    <3>2. \A b \in founded : b # c => Owners(b) \subseteq Owners(b)'
      BY <2>3, <2>4, <2>5 DEF Owners, Users
    <3>3. IsOwner(t) <=> t \in Owners(c)  BY <2>3 DEF IsOwner, Owners
    <3>4. Overlap(q, t \in Owners(c))  BY <2>2, <2>8, <3>3 DEF Overlap
    <3>5. Takes(q, c)  BY <2>1, <2>8 DEF Takes, CommitRole, At
    <3> QED  BY <2>1, <2>2, <3>1, <3>2, <3>4, <3>5, OwnerGoes
  <2> QED  BY <2>7, <2>8
<1> QED  BY <1>1, <1>2

LEMMA OwnersCommitRemove ==
  ASSUME Typed, Owned, NEW q \in Requests, CommitRemove(q)
  PROVE  Owned'
<1>1. PICK t, c : Target(q) = t /\ request[q].business = c
  OBVIOUS
<1>2. /\ user' = [user EXCEPT ![t] = Nobody] /\ founded' = founded
      /\ Overlap(q, IsOwner(t)) /\ Calm /\ request'[q] = Free
  BY <1>1, FinishIsCalm DEF CommitRemove
<1>3. RequestOK(request[q])  BY Functions
<1>4. (t \in Users => user[t].business = c) /\ request[q].role = "none"
  BY <1>1, <1>3 DEF RequestOK, CommitRemove, At, Target
<1>5. \A a \in Accounts : user'[a] = IF a = t THEN Nobody ELSE user[a]  BY <1>2, Functions
<1>6. Owners(c)' = Owners(c) \ {t}  BY <1>5 DEF Owners, Users
<1>7. \A b \in founded : b # c => Owners(b) \subseteq Owners(b)'
  BY <1>4, <1>5 DEF Owners, Users
<1>8. IsOwner(t) <=> t \in Owners(c)  BY <1>4 DEF IsOwner, Owners
<1>9. Overlap(q, t \in Owners(c))  BY <1>2, <1>8 DEF Overlap
<1>10. Takes(q, c)  BY <1>1, <1>4 DEF Takes, CommitRemove, At
<1> QED  BY <1>1, <1>2, <1>6, <1>7, <1>9, <1>10, OwnerGoes

\* Somebody new leaves the others where they are.
LEMMA OwnersJoin ==
  ASSUME Typed, Owned, Calm, founded' = founded, raced \subseteq raced',
         NEW a \in Accounts, a \notin spent, NEW row \in UserRows, user' = [user EXCEPT ![a] = row]
  PROVE  Owned'
<1>1. \A c \in Accounts : user'[c] = IF c = a THEN row ELSE user[c]  BY Functions
<1>2. a \notin Users /\ row # Nobody  BY Rows
<1>3. \A b \in founded : Owners(b) \subseteq Owners(b)'  BY <1>1, <1>2 DEF Owners, Users
<1> QED  BY <1>3, OwnersMore

LEMMA OwnersSignUp ==
  ASSUME Typed, Owned, NEW a \in Accounts, NEW m \in Emails, NEW b \in Businesses, SignUp(a, m, b)
  PROVE  Owned'
<1> DEFINE row == [email |-> m, business |-> b, role |-> "owner", by |-> Nobody]
<1>1. /\ user' = [user EXCEPT ![a] = row] /\ founded' = founded \cup {b} /\ b \notin founded
      /\ a \notin spent /\ UNCHANGED <<request, raced>>
  BY DEF SignUp
<1>2. row \in UserRows  BY DEF UserRows, Roles
<1>3. \A c \in Accounts : user'[c] = IF c = a THEN row ELSE user[c]  BY <1>1, Functions
<1>4. a \notin Users /\ row # Nobody  BY <1>1, <1>2, Rows
<1>5. ASSUME NEW c \in founded, c \notin raced  PROVE Safe(c)'
  <2>1. Owners(c) \subseteq Owners(c)'  BY <1>3, <1>4 DEF Owners, Users
  <2>2. Calm  BY <1>1 DEF Calm
  <2> QED  BY <1>5, <2>1, <2>2, OwnersGrow DEF Owned
<1>6. Safe(b)'
  <2>1. a \in Owners(b)'  BY <1>3, <1>4 DEF Owners, Users
  <2>2. ASSUME NEW q \in Requests  PROVE ~Takes(q, b)'
    <3>1. RequestOK(request[q])  BY Functions
    <3> QED  BY <1>1, <3>1 DEF RequestOK, Takes
  <2> QED  BY <2>1, <2>2 DEF Safe
<1> QED  BY <1>1, <1>5, <1>6 DEF Owned

LEMMA OwnedStep ==
  ASSUME Typed, Owned, [TeamNext]_team
  PROVE  Owned'
<1>1. CASE UNCHANGED team
  BY <1>1, OwnersSame DEF team, Calm
<1>2. ASSUME NEW q \in Requests, NEW a \in Accounts, NEW b \in Businesses, NEW op \in Operations,
             Open(q, a, b, op)
      PROVE  Owned'
  <2> DEFINE r == [op |-> op, step |-> "opened", caller |-> a, business |-> b]
  <2>1. request' = [request EXCEPT ![q] = r] /\ UNCHANGED <<user, founded, raced>>
    BY <1>2 DEF Open
  <2>2. r.step # "checked"  OBVIOUS
  <2> HIDE DEF r
  <2> QED  BY <2>1, <2>2, OwnersChecked
<1>3. ASSUME NEW q \in Requests, NEW a \in Accounts,
             (\E role \in Roles : CheckRole(q, a, role)) \/ CheckRemove(q, a)
      PROVE  Owned'
  <2>1. PICK role \in Roles : CheckRole(q, a, role) \/ CheckRemove(q, a)  BY <1>3 DEF Roles
  <2> QED  BY <2>1, OwnersCheckMember
<1>4. ASSUME NEW q \in Requests, CommitRole(q) \/ CommitRemove(q)  PROVE Owned'
  BY <1>4, OwnersCommitRole, OwnersCommitRemove
<1>5. ASSUME NEW q \in Requests, NEW m \in Emails, NEW role \in Roles, CheckInvite(q, m, role)
      PROVE  Owned'
  <2>1. CASE Refused(q)  BY <2>1, FinishIsCalm, OwnersSame DEF Refused
  <2>2. CASE ~Refused(q)
    <3>1. PICK t : Checked(q, t, role)  BY <1>5, <2>2 DEF CheckInvite
    <3> DEFINE r == [op |-> request[q].op, step |-> "checked", caller |-> request[q].caller,
                     business |-> request[q].business, target |-> t, role |-> role]
    <3>2. request' = [request EXCEPT ![q] = r] /\ UNCHANGED <<user, founded, raced>>
      BY <3>1 DEF Checked
    <3>3. r.op = "invite"  BY <1>5 DEF CheckInvite, At
    <3> HIDE DEF r
    <3> QED  BY <3>2, <3>3, OwnersChecked
  <2> QED  BY <2>1, <2>2
<1>6. ASSUME NEW q \in Requests, NEW i \in Invites, CommitInvite(q, i)  PROVE Owned'
  BY <1>6, FinishIsCalm, OwnersSame DEF CommitInvite
<1>7. ASSUME NEW q \in Requests, NEW i \in Invites, CheckRevoke(q, i)  PROVE Owned'
  <2> DEFINE r == [op |-> request[q].op, step |-> "checked", caller |-> request[q].caller,
                   business |-> request[q].business, target |-> i, role |-> "none"]
  <2>1. request' = [request EXCEPT ![q] = r] /\ UNCHANGED <<user, founded, raced>>
    BY <1>7 DEF CheckRevoke, Checked
  <2>2. r.op = "revoke"  BY <1>7 DEF CheckRevoke, At
  <2> HIDE DEF r
  <2> QED  BY <2>1, <2>2, OwnersChecked
<1>8. ASSUME NEW q \in Requests, CommitRevoke(q)  PROVE Owned'
  BY <1>8, FinishIsCalm, OwnersSame DEF CommitRevoke
<1>9. ASSUME NEW q \in Requests, NEW i \in Invites, CheckAccept(q, i)  PROVE Owned'
  <2> DEFINE r == [op |-> "accept", step |-> "checked", caller |-> Nobody,
                   business |-> invite[i].business, target |-> i, role |-> invite[i].role]
  <2>1. request' = [request EXCEPT ![q] = r] /\ UNCHANGED <<user, founded, raced>>
    BY <1>9 DEF CheckAccept
  <2>2. r.op = "accept"  OBVIOUS
  <2> HIDE DEF r
  <2> QED  BY <2>1, <2>2, OwnersChecked
<1>10. ASSUME NEW q \in Requests, NEW a \in Accounts, CommitAccept(q, a)  PROVE Owned'
  <2>1. CASE Refused(q)  BY <2>1, FinishIsCalm, OwnersSame DEF Refused
  <2>2. CASE ~Refused(q)
    <3>1. PICK row \in UserRows : user' = [user EXCEPT ![a] = row] /\ a \notin spent
      BY <1>10, <2>2, AcceptRow
    <3>2. Calm /\ UNCHANGED <<founded, raced>>  BY <1>10, <2>2, FinishIsCalm DEF CommitAccept
    <3> QED  BY <3>1, <3>2, OwnersJoin
  <2> QED  BY <2>1, <2>2
<1>11. ASSUME NEW i \in Invites, Expire(i)  PROVE Owned'
  BY <1>11, OwnersSame DEF Expire, Calm
<1>12. ASSUME NEW a \in Accounts, NEW m \in Emails, NEW b \in Businesses, SignUp(a, m, b)
       PROVE  Owned'
  BY <1>12, OwnersSignUp
<1>13. ASSUME NEW a \in Accounts, NEW m \in Emails, NEW role \in Roles, CreatePlatformUser(a, m, role)
       PROVE  Owned'
  <2> DEFINE row == [email |-> m, business |-> Nobody, role |-> role, by |-> Nobody]
  <2>1. row \in UserRows  BY DEF UserRows
  <2>2. user' = [user EXCEPT ![a] = row] /\ a \notin spent /\ UNCHANGED <<founded, raced, request>>
    BY <1>13 DEF CreatePlatformUser
  <2>3. Calm  BY <2>2 DEF Calm
  <2> QED  BY <2>1, <2>2, <2>3, OwnersJoin
<1> QED  BY <1>1, <1>2, <1>3, <1>4, <1>5, <1>6, <1>7, <1>8, <1>9, <1>10, <1>11, <1>12, <1>13
         DEF TeamNext

LEMMA OwnedInit == TeamInit => Owned
<1> SUFFICES ASSUME TeamInit, NEW b \in founded  PROVE Safe(b)
  BY DEF Owned
<1>1. PICK a \in DOMAIN Founders : Founders[a].business = b /\ b # Nobody  BY DEF TeamInit
<1>2. PICK o \in DOMAIN Founders : Founders[o].business = b /\ Founders[o].role = "owner"
  BY <1>1, TeamAssumption
<1>3. o \in Accounts /\ Founders[o] \in UserRows  BY TeamAssumption DEF UserRows
<1>4. o \in Owners(b)
  <2>1. user[o] = Founders[o]  BY <1>3 DEF TeamInit
  <2> QED  BY <1>2, <1>3, <2>1, TeamAssumption DEF Owners, Users
<1>5. \A q \in Requests : ~Takes(q, b)  BY DEF TeamInit, Free, Takes
<1> QED  BY <1>4, <1>5 DEF Safe

\* A business keeps an owner, however its members' requests follow on each other;
\* only requests that overlap can take the last two at once.
THEOREM LastOwnerStays == TeamSpec => []LastOwnerKept
<1>1. Owned => LastOwnerKept  BY DEF Owned, LastOwnerKept, Safe
<1> QED  BY <1>1, OwnedInit, OwnedStep, AlwaysTyped, PTL DEF TeamSpec

-----------------------------------------------------------------------------
(* Links.  A request that is about to invite knows the one live link it    *)
(* has to replace, unless it was overlapped.                               *)

\* Requests about to invite m to b.
Renews(q, b, m) == /\ request[q].op = "invite" /\ request[q].step = "checked"
                   /\ request[q].business = b /\ request[q].target.email = m

Single(b, m) == \A i, j \in LinksTo(b, m) : i = j

Lone(b, m) == /\ Single(b, m)
              /\ \A q \in Requests : Renews(q, b, m) => LinksTo(b, m) \subseteq {request[q].target.old}

Linked == \A b \in Businesses, m \in Emails : <<b, m>> \in raced \/ Lone(b, m)

\* Links only end, and requests stay where they are, or end.
LEMMA LinksEnd ==
  ASSUME Linked, Calm, LinksStay, Issued' = Issued, raced \subseteq raced'
  PROVE  Linked'
<1>1. ASSUME NEW b \in Businesses, NEW m \in Emails, <<b, m>> \notin raced'  PROVE Lone(b, m)'
  <2>1. Lone(b, m)  BY <1>1 DEF Linked
  <2>2. LinksTo(b, m)' \subseteq LinksTo(b, m)  BY DEF LinksTo, LinksStay
  <2>3. ASSUME NEW q \in Requests, Renews(q, b, m)'
        PROVE  LinksTo(b, m)' \subseteq {request'[q].target.old}
    <3>1. request'[q] = request[q]  BY <2>3 DEF Renews, Calm, Free
    <3>2. Renews(q, b, m)  BY <2>3, <3>1 DEF Renews
    <3> QED  BY <2>1, <2>2, <3>1, <3>2 DEF Lone
  <2>4. Single(b, m)'  BY <2>1, <2>2 DEF Lone, Single
  <2> QED  BY <2>3, <2>4 DEF Lone
<1> QED  BY <1>1 DEF Linked

\* Nothing happens to the links, and no check is made.
LEMMA LinksSame ==
  ASSUME Linked, Calm, invite' = invite, raced \subseteq raced'
  PROVE  Linked'
<1>1. LinksStay /\ Issued' = Issued  BY DEF LinksStay, Issued, Pending
<1> QED  BY <1>1, LinksEnd

\* A request that leaves the links alone and may have made a check.
LEMMA LinksChecked ==
  ASSUME Typed, Linked, UNCHANGED <<invite, raced>>,
         NEW q \in Requests, NEW r, request' = [request EXCEPT ![q] = r],
         \A b \in Businesses, m \in Emails :
           r.op = "invite" /\ r.step = "checked" /\ r.business = b /\ r.target.email = m
           /\ Single(b, m) => LinksTo(b, m) \subseteq {r.target.old}
  PROVE  Linked'
<1>1. \A p \in Requests : request'[p] = IF p = q THEN r ELSE request[p]
  BY DEF Typed, RequestsOK
<1>2. ASSUME NEW b \in Businesses, NEW m \in Emails, <<b, m>> \notin raced  PROVE Lone(b, m)'
  <2>1. LinksTo(b, m)' = LinksTo(b, m)  BY DEF LinksTo, Issued, Pending
  <2>2. Lone(b, m)  BY <1>2 DEF Linked
  <2>3. Single(b, m)'  BY <2>1, <2>2 DEF Lone, Single
  <2>4. ASSUME NEW p \in Requests, Renews(p, b, m)'
        PROVE  LinksTo(b, m) \subseteq {request'[p].target.old}
    <3>1. CASE p = q  BY <1>1, <2>2, <2>4, <3>1 DEF Renews, Lone
    <3>2. CASE p # q  BY <1>1, <2>2, <2>4, <3>2 DEF Renews, Lone
    <3> QED  BY <3>1, <3>2
  <2> QED  BY <2>1, <2>3, <2>4 DEF Lone
<1> QED  BY <1>2 DEF Linked

LEMMA LinkedCheckInvite ==
  ASSUME Typed, Linked, NEW q \in Requests, NEW m \in Emails, NEW role \in Roles, CheckInvite(q, m, role)
  PROVE  Linked'
<1>1. CASE Refused(q)  BY <1>1, FinishIsCalm, LinksSame DEF Refused
<1>2. CASE ~Refused(q)
  <2>1. PICK c : request[q].business = c  OBVIOUS
  <2>2. PICK old : /\ old \in (IF LinksTo(c, m) = {} THEN {Nobody} ELSE LinksTo(c, m))
                   /\ Checked(q, [email |-> m, old |-> old], role)
    BY <1>2, <2>1 DEF CheckInvite
  <2> DEFINE r == [op |-> request[q].op, step |-> "checked", caller |-> request[q].caller,
                   business |-> request[q].business, target |-> [email |-> m, old |-> old],
                   role |-> role]
  <2>3. request' = [request EXCEPT ![q] = r] /\ UNCHANGED <<invite, raced>>
    BY <2>2 DEF Checked
  <2>4. Single(c, m) => LinksTo(c, m) \subseteq {old}  BY <2>2 DEF Single
  <2>5. \A b \in Businesses, n \in Emails :
          r.op = "invite" /\ r.step = "checked" /\ r.business = b /\ r.target.email = n
          /\ Single(b, n) => LinksTo(b, n) \subseteq {r.target.old}
    BY <2>1, <2>4
  <2> HIDE DEF r
  <2> QED  BY <2>3, <2>5, LinksChecked
<1> QED  BY <1>1, <1>2

\* The new link is the only live one: the other was revoked with the same commit.
LEMMA LinkedCommitInvite ==
  ASSUME Typed, Linked, NEW q \in Requests, NEW i \in Invites, CommitInvite(q, i)
  PROVE  Linked'
<1>1. PICK c, n, old : request[q].business = c /\ Target(q).email = n /\ Target(q).old = old
  OBVIOUS
<1>2. LinksStay /\ Calm /\ request'[q] = Free
  BY InvitesStay, FinishIsCalm DEF CommitInvite
<1>3. raced \subseteq raced'  BY DEF CommitInvite
<1>4. Renews(q, c, n)  BY <1>1 DEF CommitInvite, Renews, At, Target
<1>5. /\ Issued' = Issued \cup {i} /\ i \notin Issued /\ i \in Invites
      /\ invite'[i].business = c /\ invite'[i].email = n
      /\ old \in Issued => ~Pending(old)'
  <2> DEFINE new == [business |-> request[q].business, email |-> Target(q).email,
                     role |-> request[q].role, accepted |-> FALSE, revoked |-> FALSE,
                     expired |-> FALSE]
  <2>1. /\ i \notin Issued /\ Issued' = Issued \cup {i}
        /\ \A k \in Invites : invite'[k] = IF k = i THEN new ELSE
                                           IF k = Target(q).old THEN [invite[k] EXCEPT !.revoked = TRUE]
                                           ELSE invite[k]
    BY InviteRow
  <2>2. invite'[i].business = c /\ invite'[i].email = n
    <3>1. invite'[i] = new  BY <2>1
    <3>2. new.business = c /\ new.email = n  BY <1>1
    <3> QED  BY <3>1, <3>2
  <2>3. ASSUME old \in Issued  PROVE ~Pending(old)'
    <3>1. old # i /\ old \in Invites /\ invite[old] \in InviteRows  BY <2>1, <2>3, Rows
    <3>2. invite'[old] = [invite[old] EXCEPT !.revoked = TRUE]  BY <1>1, <2>1, <3>1
    <3>3. invite'[old].revoked  BY <3>1, <3>2 DEF InviteRows
    <3> QED  BY <3>3 DEF Pending
  <2> QED  BY <2>1, <2>2, <2>3
<1>6. ASSUME NEW b \in Businesses, NEW m \in Emails, <<b, m>> \notin raced'  PROVE Lone(b, m)'
  <2>1. Lone(b, m)  BY <1>3, <1>6 DEF Linked
  <2>2. CASE b = c /\ m = n
    <3>1. LinksTo(b, m) \subseteq {old}
      <4>1. request[q].target.old = old  BY <1>1 DEF Target
      <4> QED  BY <1>4, <2>1, <2>2, <4>1 DEF Lone
    <3>2. LinksTo(b, m)' \subseteq {i}
      <4>1. ASSUME NEW j \in Issued', j # i, Pending(j)', invite'[j].business = b, invite'[j].email = m
            PROVE  FALSE
        <5>1. j \in Issued  BY <1>5, <4>1
        <5>2. Pending(j) /\ invite[j].business = b /\ invite[j].email = m
          BY <1>2, <4>1, <5>1 DEF LinksStay
        <5>3. j = old  BY <3>1, <5>1, <5>2 DEF LinksTo
        <5> QED  BY <1>5, <4>1, <5>1, <5>3
      <4> QED  BY <4>1 DEF LinksTo
    <3>3. \A p \in Requests \ {q} : ~Renews(p, b, m)
      <4>1. raced' = IF \E p \in Requests \ {q} : /\ At(p, "invite", "checked")
                                                  /\ request[p].business = c
                                                  /\ Target(p).email = n
                     THEN raced \cup {<<c, n>>} ELSE raced
        BY <1>1 DEF CommitInvite
      <4> QED  BY <1>6, <2>2, <4>1 DEF Renews, At, Target
    <3>4. ASSUME NEW p \in Requests  PROVE ~Renews(p, b, m)'
      <4>1. CASE p = q  BY <1>2, <4>1 DEF Renews, Free
      <4>2. CASE p # q  BY <1>2, <3>3, <4>2 DEF Renews, Calm, Free
      <4> QED  BY <4>1, <4>2
    <3> QED  BY <3>2, <3>4 DEF Lone, Single
  <2>3. CASE ~(b = c /\ m = n)
    <3>1. LinksTo(b, m)' \subseteq LinksTo(b, m)  BY <1>2, <1>5, <2>3 DEF LinksTo, LinksStay
    <3>2. ASSUME NEW p \in Requests, Renews(p, b, m)'
          PROVE  LinksTo(b, m)' \subseteq {request'[p].target.old}
      <4>1. request'[p] = request[p]  BY <1>2, <3>2 DEF Renews, Calm, Free
      <4>2. Renews(p, b, m)  BY <3>2, <4>1 DEF Renews
      <4> QED  BY <2>1, <3>1, <4>1, <4>2 DEF Lone
    <3>3. Single(b, m)'  BY <2>1, <3>1 DEF Lone, Single
    <3> QED  BY <3>2, <3>3 DEF Lone
  <2> QED  BY <2>2, <2>3
<1> QED  BY <1>6 DEF Linked

LEMMA LinkedStep ==
  ASSUME Typed, Linked, [TeamNext]_team
  PROVE  Linked'
<1>1. CASE UNCHANGED team
  BY <1>1, LinksSame DEF team, Calm
<1>2. ASSUME NEW q \in Requests, NEW a \in Accounts, NEW b \in Businesses, NEW op \in Operations,
             Open(q, a, b, op)
      PROVE  Linked'
  <2> DEFINE r == [op |-> op, step |-> "opened", caller |-> a, business |-> b]
  <2>1. request' = [request EXCEPT ![q] = r] /\ UNCHANGED <<invite, raced>>
    BY <1>2 DEF Open
  <2>2. r.step # "checked"  OBVIOUS
  <2> HIDE DEF r
  <2> QED  BY <2>1, <2>2, LinksChecked
<1>3. ASSUME NEW q \in Requests, NEW a \in Accounts,
             (\E role \in Roles : CheckRole(q, a, role)) \/ CheckRemove(q, a)
      PROVE  Linked'
  <2>1. CASE Refused(q)  BY <2>1, FinishIsCalm, LinksSame DEF Refused
  <2>2. CASE ~Refused(q)
    <3>1. PICK role : Checked(q, a, role)  BY <1>3, <2>2 DEF CheckRole, CheckRemove
    <3> DEFINE r == [op |-> request[q].op, step |-> "checked", caller |-> request[q].caller,
                     business |-> request[q].business, target |-> a, role |-> role]
    <3>2. request' = [request EXCEPT ![q] = r] /\ UNCHANGED <<invite, raced>>
      BY <3>1 DEF Checked
    <3>3. r.op # "invite"  BY <1>3 DEF CheckRole, CheckRemove, At
    <3> HIDE DEF r
    <3> QED  BY <3>2, <3>3, LinksChecked
  <2> QED  BY <2>1, <2>2
<1>4. ASSUME NEW q \in Requests, CommitRole(q) \/ CommitRemove(q)  PROVE Linked'
  <2>1. Finish(q) /\ invite' = invite  BY <1>4 DEF CommitRole, CommitRemove, Refused
  <2>2. raced \subseteq raced'  BY <1>4 DEF CommitRole, CommitRemove, Refused, Overlap
  <2> QED  BY <2>1, <2>2, FinishIsCalm, LinksSame
<1>5. ASSUME NEW q \in Requests, NEW m \in Emails, NEW role \in Roles, CheckInvite(q, m, role)
      PROVE  Linked'
  BY <1>5, LinkedCheckInvite
<1>6. ASSUME NEW q \in Requests, NEW i \in Invites, CommitInvite(q, i)  PROVE Linked'
  BY <1>6, LinkedCommitInvite
<1>7. ASSUME NEW q \in Requests, NEW i \in Invites, CheckRevoke(q, i)  PROVE Linked'
  <2> DEFINE r == [op |-> request[q].op, step |-> "checked", caller |-> request[q].caller,
                   business |-> request[q].business, target |-> i, role |-> "none"]
  <2>1. request' = [request EXCEPT ![q] = r] /\ UNCHANGED <<invite, raced>>
    BY <1>7 DEF CheckRevoke, Checked
  <2>2. r.op = "revoke"  BY <1>7 DEF CheckRevoke, At
  <2> HIDE DEF r
  <2> QED  BY <2>1, <2>2, LinksChecked
<1>8. ASSUME NEW q \in Requests, CommitRevoke(q)  PROVE Linked'
  <2>1. PICK i : Target(q) = i  OBVIOUS
  <2>2. i \in Issued
    <3>1. RequestOK(request[q])  BY Functions
    <3> QED  BY <1>8, <2>1, <3>1 DEF RequestOK, CommitRevoke, At, Target
  <2>3. invite' = [invite EXCEPT ![i] = [invite[i] EXCEPT !.revoked = TRUE]] /\ UNCHANGED <<user, raced>>
    BY <1>8, <2>1 DEF CommitRevoke
  <2>4. Calm  BY <1>8, FinishIsCalm DEF CommitRevoke
  <2> QED  BY <2>2, <2>3, <2>4, FlagsStay, LinksEnd
<1>9. ASSUME NEW q \in Requests, NEW i \in Invites, CheckAccept(q, i)  PROVE Linked'
  <2> DEFINE r == [op |-> "accept", step |-> "checked", caller |-> Nobody,
                   business |-> invite[i].business, target |-> i, role |-> invite[i].role]
  <2>1. request' = [request EXCEPT ![q] = r] /\ UNCHANGED <<invite, raced>>
    BY <1>9 DEF CheckAccept
  <2>2. r.op = "accept"  OBVIOUS
  <2> HIDE DEF r
  <2> QED  BY <2>1, <2>2, LinksChecked
<1>10. ASSUME NEW q \in Requests, NEW a \in Accounts, CommitAccept(q, a)  PROVE Linked'
  <2>1. CASE Refused(q)  BY <2>1, FinishIsCalm, LinksSame DEF Refused
  <2>2. CASE ~Refused(q)
    <3>1. Issued' = Issued  BY <1>10, <2>2, AcceptRow
    <3>2. Calm /\ raced' = raced  BY <1>10, <2>2, FinishIsCalm DEF CommitAccept
    <3>3. LinksStay  BY <1>10, Frame DEF TeamNext
    <3> QED  BY <3>1, <3>2, <3>3, LinksEnd
  <2> QED  BY <2>1, <2>2
<1>11. ASSUME NEW i \in Invites, Expire(i)  PROVE Linked'
  <2>1. i \in Issued /\ invite' = [invite EXCEPT ![i] = [invite[i] EXCEPT !.expired = TRUE]]
        /\ UNCHANGED <<user, request, raced>>
    BY <1>11 DEF Expire, Pending
  <2>2. Calm  BY <2>1 DEF Calm
  <2> QED  BY <2>1, <2>2, FlagsStay, LinksEnd
<1>12. ASSUME NEW a \in Accounts, NEW m \in Emails, NEW b \in Businesses, SignUp(a, m, b)
       PROVE  Linked'
  BY <1>12, LinksSame DEF SignUp, Calm
<1>13. ASSUME NEW a \in Accounts, NEW m \in Emails, NEW role \in Roles, CreatePlatformUser(a, m, role)
       PROVE  Linked'
  BY <1>13, LinksSame DEF CreatePlatformUser, Calm
<1> QED  BY <1>1, <1>2, <1>3, <1>4, <1>5, <1>6, <1>7, <1>8, <1>9, <1>10, <1>11, <1>12, <1>13
         DEF TeamNext

LEMMA LinkedInit == TeamInit => Linked
<1> SUFFICES ASSUME TeamInit, NEW b \in Businesses, NEW m \in Emails  PROVE Lone(b, m)
  BY DEF Linked
<1>1. LinksTo(b, m) = {}  BY DEF TeamInit, LinksTo, Issued
<1>2. \A q \in Requests : ~Renews(q, b, m)  BY DEF TeamInit, Free, Renews
<1> QED  BY <1>1, <1>2 DEF Lone, Single

\* Inviting an address again leaves one live link, whatever else happens to the
\* links meanwhile; only two invitations at once can leave two.
THEOREM OneLinkLeft == TeamSpec => []LinksReplaced
<1>1. ASSUME Linked  PROVE LinksReplaced
  <2>1. ASSUME NEW b \in Businesses, NEW m \in Emails, Single(b, m)
        PROVE  Cardinality(LinksTo(b, m)) <= 1
    <3>1. CASE LinksTo(b, m) = {}  BY <3>1, FS_EmptySet
    <3>2. CASE LinksTo(b, m) # {}
      <4>1. PICK i : i \in LinksTo(b, m)  BY <3>2
      <4>2. LinksTo(b, m) = {i}  BY <2>1, <4>1 DEF Single
      <4>3. Cardinality({i}) = 1  BY FS_Singleton
      <4> QED  BY <4>2, <4>3
    <3> QED  BY <3>1, <3>2
  <2> QED  BY <1>1, <2>1 DEF Linked, Lone, LinksReplaced
<1> QED  BY <1>1, LinkedInit, LinkedStep, AlwaysTyped, PTL DEF TeamSpec

-----------------------------------------------------------------------------
(* Arithmetic of the limits.                                               *)

\* A power of two is at least one.
LEMMA PowerOfTwo ==
  ASSUME NEW k \in Nat
  PROVE  2 ^ k \in Nat /\ 2 ^ k >= 1
<1>1. IsFiniteSet(1..k) /\ Cardinality(1..k) = k
  BY FS_Interval
<1>2. IsFiniteSet(SUBSET (1..k)) /\ Cardinality(SUBSET (1..k)) = 2 ^ k
  BY <1>1, FS_SUBSET
<1>3. SUBSET (1..k) # {}
  OBVIOUS
<1>4. Cardinality(SUBSET (1..k)) \in Nat /\ Cardinality(SUBSET (1..k)) # 0
  BY <1>2, <1>3, FS_CardinalityType, FS_EmptySet
<1> QED
  BY <1>2, <1>4

\* No lock is shorter than the configured one, however many failures it follows.
LEMMA LockLasts ==
  ASSUME NEW failures \in Nat, failures >= MaxAttempts
  PROVE  LockFor(failures) \in Nat /\ LockFor(failures) >= LockTicks
<1> DEFINE k == failures \div MaxAttempts - 1
<1>1. MaxAttempts \in Nat \ {0} /\ LockTicks \in Nat \ {0} /\ MaxLock \in Nat /\ LockTicks <= MaxLock
  BY ThrottleAssumption
<1>2. k \in Nat
  BY <1>1
<1>3. 2 ^ k \in Nat /\ 2 ^ k >= 1
  BY <1>2, PowerOfTwo
<1>4. ASSUME NEW p \in Nat, p >= 1
      PROVE  LockTicks * p \in Nat /\ LockTicks * p >= LockTicks
  BY <1>1, <1>4
<1>5. LockTicks * 2 ^ k \in Nat /\ LockTicks * 2 ^ k >= LockTicks
  BY <1>3, <1>4
<1> HIDE DEF k
<1> QED
  BY <1>1, <1>5 DEF LockFor, Least, k

-----------------------------------------------------------------------------
(* The table of attempts.                                                  *)

AttemptRows == [name : Names, ip : Addresses, ok : BOOLEAN, time : Nat]

Numbered == /\ tried \in Nat
            /\ DOMAIN rows \subseteq 1..tried
            /\ \A i \in DOMAIN rows : rows[i] \in AttemptRows

ThrottleTyped == /\ now \in Nat
                 /\ Numbered
                 /\ employees \in SUBSET Names
                 /\ passed \in [Attempts -> (Names \X Addresses) \cup {NoAttempt}]

\* AttemptRows are numbered in the order of their times, and none is of the future.
InOrder == /\ \A i \in DOMAIN rows : rows[i].time <= now
           /\ \A i, j \in DOMAIN rows : i <= j => rows[i].time <= rows[j].time

\* Any set of rows is finite, and so is any set of attempts under way.
LEMMA NumbersFinite ==
  ASSUME NEW last \in Nat, NEW S \in SUBSET (1..last)
  PROVE  IsFiniteSet(S) /\ Cardinality(S) \in Nat
<1>1. IsFiniteSet(1..last)
  BY FS_Interval
<1>2. IsFiniteSet(S)
  BY <1>1, FS_Subset
<1> QED
  BY <1>2, FS_CardinalityType

LEMMA RowsFinite ==
  ASSUME Numbered
  PROVE  \A S \in SUBSET (DOMAIN rows) : IsFiniteSet(S) /\ Cardinality(S) \in Nat
BY NumbersFinite DEF Numbered

LEMMA AttemptsFinite ==
  /\ Cardinality(Attempts) \in Nat
  /\ \A S \in SUBSET Attempts : /\ IsFiniteSet(S)
                                /\ Cardinality(S) \in Nat
                                /\ Cardinality(S) <= Cardinality(Attempts)
BY ThrottleAssumption, FS_Subset, FS_CardinalityType

\* What record_attempt() does to the table, in the terms the proofs need: one row
\* is appended, and a success may take the oldest ones away.
Appended(row) ==
  /\ tried' = tried + 1 /\ tried' \notin DOMAIN rows
  /\ tried' \in DOMAIN rows' /\ rows'[tried'] = row
  /\ DOMAIN rows' \subseteq DOMAIN rows \cup {tried'}
  /\ \A i \in DOMAIN rows' : i # tried' => rows'[i] = rows[i]

\* The row sign_in() writes for an attempt.
RowOf(q, ok) == [name |-> passed[q][1], ip |-> passed[q][2], ok |-> ok, time |-> now]

LEMMA Appends ==
  ASSUME ThrottleTyped, InOrder, NEW q \in Attempts, NEW ok \in BOOLEAN, Record(q, ok)
  PROVE  /\ Appended(RowOf(q, ok)) /\ RowOf(q, ok) \in AttemptRows
         /\ ~ok => DOMAIN rows' = DOMAIN rows \cup {tried'}
         /\ \A i \in DOMAIN rows, j \in DOMAIN rows' : i >= j => i \in DOMAIN rows'
<1> DEFINE added == [i \in DOMAIN rows \cup {tried'} |-> IF i = tried' THEN RowOf(q, ok) ELSE rows[i]]
           kept == {i \in DOMAIN added : added[i].time >= now - Retention}
<1>1. /\ tried \in Nat /\ tried' = tried + 1 /\ now \in Nat /\ Retention \in Nat
      /\ DOMAIN rows \subseteq 1..tried
      /\ rows' = IF ok THEN Restrict(added, kept) ELSE added
  BY ThrottleAssumption DEF Record, ThrottleTyped, Numbered, RowOf
<1>2. RowOf(q, ok) \in AttemptRows
  <2>1. passed[q] \in Names \X Addresses
    BY DEF Record, ThrottleTyped
  <2> QED
    BY <1>1, <2>1 DEF RowOf, AttemptRows
<1>3. tried' \notin DOMAIN rows
  BY <1>1
<1>4. RowOf(q, ok).time = now
  BY DEF RowOf
<1>5. /\ DOMAIN added = DOMAIN rows \cup {tried'} /\ added[tried'] = RowOf(q, ok)
      /\ \A i \in DOMAIN rows : added[i] = rows[i]
  BY <1>3
<1> HIDE DEF added
<1>6. tried' \in kept
  BY <1>1, <1>4, <1>5
<1>7. CASE ok
  <2>1. rows' = Restrict(added, kept)
    BY <1>1, <1>7
  <2>2. DOMAIN rows' = kept /\ \A i \in kept : rows'[i] = added[i]
    BY <2>1 DEF Restrict
  <2>3. Appended(RowOf(q, ok))
    BY <1>1, <1>3, <1>5, <1>6, <2>2 DEF Appended
  <2>4. ASSUME NEW i \in DOMAIN rows, NEW j \in DOMAIN rows', i >= j PROVE i \in DOMAIN rows'
    <3>1. i \in 1..tried /\ j # tried'
      BY <1>1, <2>2, <2>4, <1>5
    <3>2. j \in DOMAIN rows /\ rows[j].time >= now - Retention
      BY <1>5, <2>2, <3>1
    <3>3. rows[j].time <= rows[i].time
      BY <1>1, <2>4, <3>1, <3>2 DEF InOrder
    <3>4. rows[i].time \in Nat /\ rows[j].time \in Nat
      BY <3>2 DEF ThrottleTyped, Numbered, AttemptRows
    <3>5. rows[i].time >= now - Retention
      BY <1>1, <3>2, <3>3, <3>4
    <3> QED
      BY <1>5, <2>2, <3>5
  <2> QED
    BY <1>2, <1>7, <2>3, <2>4
<1>8. CASE ~ok
  <2>1. rows' = added
    BY <1>1, <1>8
  <2>2. Appended(RowOf(q, ok))
    BY <1>1, <1>3, <1>5, <2>1 DEF Appended
  <2> QED
    BY <1>2, <1>5, <2>1, <2>2
<1> QED
  BY <1>7, <1>8

-----------------------------------------------------------------------------
(* Types and order.                                                        *)

LEMMA TypedInit ==
  ASSUME ThrottleInit
  PROVE  ThrottleTyped /\ InOrder
BY DEF ThrottleInit, ThrottleTyped, Numbered, InOrder

LEMMA TypedNext ==
  ASSUME ThrottleTyped, InOrder, [ThrottleNext]_throttle
  PROVE  ThrottleTyped' /\ InOrder'
<1>1. ASSUME NEW q \in Attempts, NEW n \in Names, NEW h \in Addresses, Check(q, n, h)
      PROVE  ThrottleTyped' /\ InOrder'
  <2>1. Attempt(n, h) \in Names \X Addresses
    BY DEF Attempt
  <2> QED
    BY <1>1, <2>1 DEF Check, ThrottleTyped, Numbered, InOrder
<1>2. ASSUME NEW q \in Attempts, NEW ok \in BOOLEAN, Record(q, ok)
      PROVE  ThrottleTyped' /\ InOrder'
  <2>1. /\ Appended(RowOf(q, ok)) /\ RowOf(q, ok) \in AttemptRows
    BY <1>2, Appends
  <2>2. now \in Nat /\ now' = now /\ tried \in Nat /\ DOMAIN rows \subseteq 1..tried
    BY <1>2 DEF Record, ThrottleTyped, Numbered
  <2>3. RowOf(q, ok).time = now
    BY DEF RowOf
  <2>4. ASSUME NEW i \in DOMAIN rows'
        PROVE  rows'[i] \in AttemptRows /\ rows'[i].time <= now /\ i \in 1..tried'
    <3>1. CASE i = tried'
      BY <2>1, <2>2, <2>3, <3>1 DEF Appended
    <3>2. CASE i # tried'
      <4>1. i \in DOMAIN rows /\ rows'[i] = rows[i]
        BY <2>1, <3>2 DEF Appended
      <4> QED
        BY <2>1, <2>2, <4>1 DEF ThrottleTyped, Numbered, InOrder, Appended
    <3> QED
      BY <3>1, <3>2
  <2>5. ASSUME NEW i \in DOMAIN rows', NEW j \in DOMAIN rows', i <= j
        PROVE  rows'[i].time <= rows'[j].time
    <3>1. CASE j = tried'
      BY <2>1, <2>3, <2>4, <3>1 DEF Appended
    <3>2. CASE j # tried'
      <4>1. j \in DOMAIN rows /\ rows'[j] = rows[j] /\ j \in 1..tried
        BY <2>1, <2>2, <3>2 DEF Appended
      <4>2. i # tried'
        BY <2>1, <2>2, <2>5, <4>1 DEF Appended
      <4>3. i \in DOMAIN rows /\ rows'[i] = rows[i]
        BY <2>1, <4>2 DEF Appended
      <4> QED
        BY <2>5, <4>1, <4>3 DEF InOrder
    <3> QED
      BY <3>1, <3>2
  <2>6. Numbered'
    BY <2>1, <2>2, <2>4 DEF Numbered, Appended
  <2>7. InOrder'
    BY <2>2, <2>4, <2>5 DEF InOrder
  <2>8. passed' \in [Attempts -> (Names \X Addresses) \cup {NoAttempt}] /\ employees' \in SUBSET Names
    BY <1>2 DEF Record, ThrottleTyped
  <2> QED
    BY <2>2, <2>6, <2>7, <2>8 DEF ThrottleTyped
<1>3. ASSUME Tick
      PROVE  ThrottleTyped' /\ InOrder'
  <2>1. now \in Nat /\ now' = now + 1 /\ rows' = rows
    BY <1>3 DEF Tick, ThrottleTyped
  <2>2. \A i \in DOMAIN rows : rows[i].time \in Nat
    BY DEF ThrottleTyped, Numbered, AttemptRows
  <2>3. InOrder'
    BY <2>1, <2>2 DEF InOrder
  <2> QED
    BY <1>3, <2>1, <2>3 DEF Tick, ThrottleTyped, Numbered
<1>4. ASSUME UNCHANGED throttle
      PROVE  ThrottleTyped' /\ InOrder'
  BY <1>4 DEF throttle, ThrottleTyped, Numbered, InOrder
<1> QED
  BY <1>1, <1>2, <1>3, <1>4 DEF ThrottleNext

-----------------------------------------------------------------------------
(* The inductive invariants.  A run of failures grows while attempts are   *)
(* under way: what has failed of late and what may still fail stay within  *)
(* the limit and the slack, as long as anything is under way.              *)

Under(n) == {q \in Attempts : passed[q] # NoAttempt /\ passed[q][1] = n}
From(h)  == {q \in Attempts : passed[q] # NoAttempt /\ passed[q][2] = h}

Of(n) == {i \in DOMAIN rows : rows[i].name = n}

\* Failures of a name within the length of a lock, since its last success.
Trail(n) == {i \in Of(n) : /\ rows[i].time > now - LockTicks
                           /\ \A k \in Of(n) : k >= i => ~rows[k].ok}

InWindow(h) == {i \in FailuresFrom(h) : rows[i].time >= now - WindowTicks}

Guessing(n) == Under(n) # {} =>
  Cardinality(Trail(n)) + Cardinality(Under(n)) <= MaxAttempts + Slack
Spraying(h) == From(h) # {} =>
  Cardinality(InWindow(h)) + Cardinality(From(h)) <= MaxIpAttempts + Slack

GuessInv == \A n \in Names \ employees : Guessing(n)
SprayInv == \A h \in Addresses : Spraying(h)

\* Adding up: a set of rows that has grown by the row of q, which is under way no
\* longer.
LEMMA OneMoves ==
  ASSUME NEW S, IsFiniteSet(S), NEW P, IsFiniteSet(P), NEW q \in P, NEW j, NEW bound \in Int,
         Cardinality(S) + Cardinality(P) <= bound,
         NEW T \in SUBSET (S \cup {j}), NEW Q, Q = P \ {q}
  PROVE  /\ IsFiniteSet(T) /\ Cardinality(T) <= bound
         /\ Cardinality(T) + Cardinality(Q) <= bound
<1>1. Cardinality(S) \in Nat /\ Cardinality(P) \in Nat
  BY FS_CardinalityType
<1>2. IsFiniteSet(S \cup {j}) /\ Cardinality(S \cup {j}) <= Cardinality(S) + 1
  <2>1. /\ IsFiniteSet(S \cup {j})
        /\ Cardinality(S \cup {j}) = IF j \in S THEN Cardinality(S) ELSE Cardinality(S) + 1
    BY FS_AddElement
  <2> QED
    BY <1>1, <2>1
<1>3. IsFiniteSet(T) /\ Cardinality(T) <= Cardinality(S \cup {j})
  BY <1>2, FS_Subset
<1>4. Cardinality(Q) = Cardinality(P) - 1 /\ IsFiniteSet(Q)
  BY FS_RemoveElement
<1>5. Cardinality(T) \in Nat /\ Cardinality(Q) \in Nat /\ Cardinality(S \cup {j}) \in Nat
  BY <1>2, <1>3, <1>4, FS_CardinalityType
<1> QED
  BY <1>1, <1>2, <1>3, <1>4, <1>5

\* Fewer rows and fewer attempts under way.
LEMMA NoneAdded ==
  ASSUME NEW S, IsFiniteSet(S), NEW P, IsFiniteSet(P), NEW bound \in Int,
         Cardinality(S) + Cardinality(P) <= bound,
         NEW T \in SUBSET S, NEW Q \in SUBSET P
  PROVE  Cardinality(T) + Cardinality(Q) <= bound
<1>1. IsFiniteSet(T) /\ Cardinality(T) <= Cardinality(S) /\ IsFiniteSet(Q) /\ Cardinality(Q) <= Cardinality(P)
  BY FS_Subset
<1>2. {Cardinality(S), Cardinality(P), Cardinality(T), Cardinality(Q)} \subseteq Nat
  BY <1>1, FS_CardinalityType
<1> QED
  BY <1>1, <1>2

-----------------------------------------------------------------------------
(* Passwords guessed at one name.                                          *)

\* A check that lets an attempt through finds little in the trail: the streak is
\* short, or the lock is over and with it the trail.
LEMMA CheckFindsTrail ==
  ASSUME ThrottleTyped, InOrder, NEW n \in Names \ employees, ~Locked(n)
  PROVE  Cardinality(Trail(n)) < MaxAttempts
<1>1. /\ MaxAttempts \in Nat /\ MaxAttempts >= 1 /\ LockTicks \in Nat /\ Lookback \in Nat
      /\ LockTicks <= Lookback /\ now \in Nat
  BY ThrottleAssumption DEF ThrottleTyped
<1>2. \A i \in DOMAIN rows : rows[i].time \in Nat /\ i \in Int
  BY DEF ThrottleTyped, Numbered, AttemptRows
<1>3. Streak(n) \subseteq DOMAIN rows /\ Trail(n) \subseteq DOMAIN rows
  BY DEF Streak, Recent, Trail, Of
<1>4. IsFiniteSet(Streak(n)) /\ Cardinality(Streak(n)) \in Nat /\ IsFiniteSet(Trail(n))
  BY <1>3, RowsFinite DEF ThrottleTyped
<1>5. Trail(n) \subseteq Streak(n)
  <2>1. ASSUME NEW i \in Trail(n) PROVE i \in Recent(n)
    BY <1>1, <1>2 DEF Trail, Recent, Of
  <2> QED
    BY <2>1 DEF Trail, Streak, Recent, Of
<1>6. Cardinality(Trail(n)) <= Cardinality(Streak(n)) /\ Cardinality(Trail(n)) \in Nat
  BY <1>4, <1>5, FS_Subset, FS_CardinalityType
<1>7. CASE Cardinality(Streak(n)) < MaxAttempts
  BY <1>1, <1>4, <1>6, <1>7
<1>8. CASE ~(Cardinality(Streak(n)) < MaxAttempts)
  <2> DEFINE s == Streak(n)
             l == Max(s)
             c == Cardinality(s)
  <2>1. c \in Nat /\ c >= MaxAttempts
    BY <1>1, <1>4, <1>8
  <2>2. s # {}
    BY <1>1, <2>1, FS_EmptySet
  <2>3. s \in SUBSET Int
    BY <1>2, <1>3
  <2>4. l \in s /\ \A y \in s : y <= l
    BY <1>4, <2>2, <2>3, LargestExists
  <2>5. LockFor(c) \in Nat /\ LockFor(c) >= LockTicks
    BY <2>1, LockLasts
  <2>6. LockedUntil(n) = rows[l].time + LockFor(c)
    BY <1>8 DEF LockedUntil
  <2>7. rows[l].time \in Nat
    BY <1>2, <1>3, <2>4
  <2>8. ~(now < rows[l].time + LockFor(c))
    BY <2>6 DEF Locked
  <2>9. ASSUME NEW i \in Trail(n) PROVE FALSE
    <3>1. i \in s /\ i <= l /\ i \in DOMAIN rows /\ l \in DOMAIN rows
      BY <1>3, <1>5, <2>4, <2>9
    <3>2. rows[i].time <= rows[l].time
      BY <3>1 DEF InOrder
    <3>3. rows[i].time > now - LockTicks
      BY DEF Trail
    <3> HIDE DEF s, l, c
    <3> QED
      BY <1>1, <1>2, <2>5, <2>7, <2>8, <3>1, <3>2, <3>3
  <2>10. Trail(n) = {}
    BY <2>9
  <2> QED
    BY <1>1, <2>10, FS_EmptySet
<1> QED
  BY <1>7, <1>8

\* How the trail of a name moves when an outcome is recorded.
LEMMA TrailMoves ==
  ASSUME ThrottleTyped, InOrder, NEW q \in Attempts, NEW ok \in BOOLEAN, Record(q, ok), NEW n \in Names
  PROVE  /\ Trail(n)' \subseteq Trail(n) \cup {tried'}
         /\ passed[q][1] # n => Trail(n)' \subseteq Trail(n)
         /\ passed[q][1] = n /\ ok => Trail(n)' = {}
<1>1. /\ Appended(RowOf(q, ok)) /\ RowOf(q, ok) \in AttemptRows
      /\ \A i \in DOMAIN rows, j \in DOMAIN rows' : i >= j => i \in DOMAIN rows'
  BY Appends
<1>2. /\ now' = now /\ tried \in Nat /\ DOMAIN rows \subseteq 1..tried /\ tried' = tried + 1
  BY <1>1 DEF Record, ThrottleTyped, Numbered, Appended
<1>3. /\ \A i \in Of(n)' : i # tried' => i \in Of(n) /\ rows'[i] = rows[i]
      /\ \A i \in Of(n), j \in DOMAIN rows' : i >= j => i \in Of(n)' /\ rows'[i] = rows[i]
  BY <1>1 DEF Of, Appended
<1>4. RowOf(q, ok).name = passed[q][1] /\ RowOf(q, ok).ok = ok
  BY DEF RowOf
<1>5. tried' \in Of(n)' <=> passed[q][1] = n
  BY <1>1, <1>4 DEF Of, Appended
<1>6. ASSUME NEW i \in Trail(n)', i # tried' PROVE i \in Trail(n)
  <2>1. i \in Of(n)' /\ rows'[i].time > now - LockTicks /\ \A k \in Of(n)' : k >= i => ~rows'[k].ok
    BY <1>2 DEF Trail
  <2>2. i \in Of(n) /\ rows'[i] = rows[i]
    BY <1>3, <1>6, <2>1
  <2>3. i \in DOMAIN rows'
    BY <2>1 DEF Of
  <2>4. \A k \in Of(n) : k >= i => ~rows[k].ok
    BY <1>3, <2>1, <2>3
  <2> QED
    BY <2>1, <2>2, <2>4 DEF Trail
<1>7. ASSUME passed[q][1] # n, NEW i \in Trail(n)' PROVE i # tried'
  BY <1>5, <1>7 DEF Trail
<1>8. ASSUME passed[q][1] = n, ok, NEW i \in Trail(n)' PROVE FALSE
  <2>1. rows'[tried'].ok /\ tried' \in Of(n)'
    BY <1>1, <1>4, <1>5, <1>8 DEF Appended
  <2>2. i \in DOMAIN rows' /\ \A k \in Of(n)' : k >= i => ~rows'[k].ok
    BY DEF Trail, Of
  <2>3. i \in 1..tried'
    BY <1>1, <1>2, <2>2 DEF Appended
  <2> QED
    BY <1>2, <2>1, <2>2, <2>3
<1> QED
  BY <1>6, <1>7, <1>8

\* Who is under way, as attempts come and go.
LEMMA UnderMoves ==
  ASSUME ThrottleTyped, NEW q \in Attempts, NEW ok \in BOOLEAN, Record(q, ok), NEW n, NEW h
  PROVE  /\ Under(n)' = IF passed[q][1] = n THEN Under(n) \ {q} ELSE Under(n)
         /\ From(h)' = IF passed[q][2] = h THEN From(h) \ {q} ELSE From(h)
         /\ passed[q][1] = n => q \in Under(n)
         /\ passed[q][2] = h => q \in From(h)
<1>1. /\ passed[q] # NoAttempt
      /\ \A p \in Attempts : passed'[p] = IF p = q THEN NoAttempt ELSE passed[p]
  BY DEF Record, ThrottleTyped
<1> QED
  BY <1>1 DEF Under, From

LEMMA SlackIs ==
  /\ Slack \in Int /\ Slack = Cardinality(Attempts) - 1
  /\ MaxAttempts + Slack \in Int /\ MaxIpAttempts + Slack \in Int
BY AttemptsFinite, ThrottleAssumption DEF Slack

LEMMA GuessingInit ==
  ASSUME ThrottleInit
  PROVE  GuessInv /\ GuessBudget
<1>1. \A n : Under(n) = {}
  BY DEF ThrottleInit, Under
<1>2. DOMAIN rows = {}
  BY DEF ThrottleInit
<1> QED
  BY <1>1, <1>2 DEF GuessInv, Guessing, GuessBudget

LEMMA GuessingCheck ==
  ASSUME ThrottleTyped, InOrder, GuessInv,
         NEW q \in Attempts, NEW n \in Names, NEW h \in Addresses, Check(q, n, h)
  PROVE  GuessInv'
<1> SUFFICES ASSUME NEW m \in Names \ employees PROVE Guessing(m)'
  BY DEF GuessInv, Check
<1>1. rows' = rows /\ now' = now /\ employees' = employees
  BY DEF Check
<1>2. Trail(m)' = Trail(m)
  BY <1>1 DEF Trail, Of
<1>3. Trail(m) \subseteq DOMAIN rows
  BY DEF Trail, Of
<1>4. Cardinality(Trail(m)) \in Nat
  BY <1>3, RowsFinite DEF ThrottleTyped
<1>5. CASE m = n
  <2>1. Cardinality(Trail(m)) < MaxAttempts
    BY <1>5, CheckFindsTrail DEF Check, Allowed
  <2>2. Under(m)' \in SUBSET Attempts
    BY DEF Under
  <2>3. Cardinality(Under(m)') \in Nat /\ Cardinality(Under(m)') <= Cardinality(Attempts)
    BY <2>2, AttemptsFinite
  <2>4. Slack = Cardinality(Attempts) - 1 /\ Cardinality(Attempts) \in Nat /\ MaxAttempts \in Nat
    BY SlackIs, AttemptsFinite, ThrottleAssumption
  <2>5. Cardinality(Trail(m)) + Cardinality(Under(m)') <= MaxAttempts + Slack
    BY <1>4, <2>1, <2>3, <2>4
  <2>6. (Cardinality(Trail(m)) + Cardinality(Under(m)) <= MaxAttempts + Slack)'
    BY <1>2, <2>5 DEF Slack
  <2> QED
    BY <2>6 DEF Guessing
<1>6. CASE m # n
  <2>1. \A p \in Attempts : passed'[p] = IF p = q THEN Attempt(n, h) ELSE passed[p]
    BY DEF Check, ThrottleTyped
  <2>2. passed[q] = NoAttempt /\ Attempt(n, h)[1] = n
    BY DEF Check, Attempt
  <2>3. Under(m)' = Under(m)
    BY <1>6, <2>1, <2>2 DEF Under
  <2> QED
    BY <1>2, <2>3 DEF GuessInv, Guessing, Slack
<1> QED
  BY <1>5, <1>6

LEMMA GuessingRecord ==
  ASSUME ThrottleTyped, InOrder, GuessInv,
         NEW q \in Attempts, NEW ok \in BOOLEAN, Record(q, ok)
  PROVE  /\ GuessInv'
         /\ \A n \in Names \ employees :
              passed[q][1] = n => Cardinality(Trail(n)') <= MaxAttempts + Slack
<1> SUFFICES ASSUME NEW n \in Names \ employees
             PROVE  /\ Guessing(n)'
                    /\ passed[q][1] = n => Cardinality(Trail(n)') <= MaxAttempts + Slack
  BY DEF GuessInv, Record
<1> DEFINE bound == MaxAttempts + Slack
           T == Trail(n)
           P == Under(n)
<1>1. bound \in Int /\ Slack' = Slack
  BY SlackIs DEF Slack
<1>2. IsFiniteSet(T) /\ IsFiniteSet(P)
  <2>1. T \in SUBSET (DOMAIN rows) /\ P \in SUBSET Attempts
    BY DEF Trail, Of, Under
  <2> QED
    BY <2>1, RowsFinite, AttemptsFinite DEF ThrottleTyped
<1>3. P # {} => Cardinality(T) + Cardinality(P) <= bound
  BY DEF GuessInv, Guessing
<1>4. CASE passed[q][1] = n
  <2>1. q \in P /\ P' = P \ {q}
    BY <1>4, UnderMoves
  <2>2. PICK j : j = tried' /\ T' \in SUBSET (T \cup {j})
    BY TrailMoves
  <2>3. Cardinality(T) + Cardinality(P) <= bound
    BY <1>3, <2>1
  <2> HIDE DEF T, P, bound
  <2>4. /\ Cardinality(T') <= bound
        /\ Cardinality(T') + Cardinality(P') <= bound
    BY <1>1, <1>2, <2>1, <2>2, <2>3, OneMoves
  <2> QED
    BY <1>1, <2>4 DEF Guessing, T, P, bound
<1>5. CASE passed[q][1] # n
  <2>1. P' = P /\ T' \subseteq T
    BY <1>5, UnderMoves, TrailMoves
  <2> HIDE DEF T, P, bound
  <2>2. P' # {} => Cardinality(T') + Cardinality(P') <= bound
    BY <1>1, <1>2, <1>3, <2>1, NoneAdded
  <2> QED
    BY <1>1, <1>5, <2>2 DEF Guessing, T, P, bound
<1> QED
  BY <1>4, <1>5

LEMMA GuessingNext ==
  ASSUME ThrottleTyped, InOrder, GuessInv, [ThrottleNext]_throttle
  PROVE  GuessInv'
<1>1. ASSUME Tick PROVE GuessInv'
  <2>1. \A n : Under(n)' = {}
    BY <1>1 DEF Tick, Under
  <2> QED
    BY <2>1 DEF GuessInv, Guessing
<1>2. ASSUME UNCHANGED throttle PROVE GuessInv'
  BY <1>2 DEF throttle, GuessInv, Guessing, Under, Trail, Of, Slack
<1> QED
  BY <1>1, <1>2, GuessingCheck, GuessingRecord DEF ThrottleNext

\* A run of failures that ends with the row just written is in the trail, unless
\* it spans the length of a lock.
LEMMA GuessBudgetRecord ==
  ASSUME ThrottleTyped, InOrder, ThrottleTyped', InOrder', GuessInv, GuessBudget,
         NEW q \in Attempts, NEW ok \in BOOLEAN, Record(q, ok)
  PROVE  GuessBudget'
<1>1. /\ Appended(RowOf(q, ok))
      /\ \A i \in DOMAIN rows, j \in DOMAIN rows' : i >= j => i \in DOMAIN rows'
  BY Appends
<1>2. /\ now' = now /\ employees' = employees /\ tried \in Nat /\ DOMAIN rows \subseteq 1..tried
      /\ tried' = tried + 1 /\ Slack' = Slack /\ DOMAIN rows' \subseteq 1..tried' /\ now \in Nat
  BY <1>1 DEF Record, ThrottleTyped, Numbered, Appended, Slack
<1>3. \A i \in DOMAIN rows' : rows'[i].time \in Nat
  BY DEF ThrottleTyped, Numbered, AttemptRows
<1>4. LockTicks \in Nat
  BY ThrottleAssumption
<1> SUFFICES ASSUME NEW n \in Names \ employees, NEW i \in Of(n)', NEW j \in Of(n)',
                    (Cardinality(Of(n) \cap i..j) > MaxAttempts + Slack)',
                    \A k \in Of(n)' \cap i..j : ~rows'[k].ok
             PROVE  rows'[j].time - rows'[i].time >= LockTicks
  BY <1>2 DEF GuessBudget, Of
<1>5. i \in DOMAIN rows' /\ j \in DOMAIN rows' /\ Of(n) \subseteq DOMAIN rows
      /\ Of(n)' \subseteq DOMAIN rows'
  BY DEF Of
<1>6. CASE j = tried'
  <2> SUFFICES ASSUME rows'[j].time - rows'[i].time < LockTicks PROVE FALSE
    BY <1>3, <1>4, <1>5
  <2>1. rows'[j].time = now /\ rows'[j].name = passed[q][1]
    BY <1>1, <1>6 DEF Appended, RowOf
  <2>2. passed[q][1] = n
    BY <2>1 DEF Of
  <2>3. Of(n)' \cap i..j \subseteq Trail(n)'
    <3> SUFFICES ASSUME NEW k \in Of(n)', k \in i..j
                 PROVE  /\ rows'[k].time > now - LockTicks
                        /\ \A m \in Of(n)' : m >= k => ~rows'[m].ok
      BY <1>2 DEF Trail
    <3>1. k \in Int /\ i <= k /\ k <= j /\ i \in Int /\ j \in Int
      BY <1>2, <1>5
    <3>2. rows'[i].time <= rows'[k].time
      BY <1>5, <3>1 DEF InOrder
    <3>3. rows'[k].time > now - LockTicks
      BY <1>2, <1>3, <1>4, <1>5, <2>1, <3>2
    <3>4. ASSUME NEW m \in Of(n)', m >= k PROVE ~rows'[m].ok
      <4>1. m \in 1..tried'
        BY <1>2, <1>5
      <4>2. m \in i..j
        BY <1>2, <1>6, <3>1, <3>4, <4>1
      <4> QED
        BY <4>2
    <3> QED
      BY <3>3, <3>4
  <2>4. Cardinality(Trail(n)') <= MaxAttempts + Slack
    BY <2>2, GuessingRecord
  <2>5. IsFiniteSet(Trail(n)') /\ Cardinality(Trail(n)') \in Nat
    <3>1. PICK last \in Nat : last = tried'
      BY <1>2
    <3>2. Trail(n)' \subseteq 1..last
      BY <1>2, <3>1 DEF Trail, Of
    <3> QED
      BY <3>2, NumbersFinite
  <2>6. /\ Cardinality(Of(n)' \cap i..j) <= Cardinality(Trail(n)')
        /\ Cardinality(Of(n)' \cap i..j) \in Nat
    BY <2>3, <2>5, FS_Subset, FS_CardinalityType
  <2>7. Cardinality(Of(n)' \cap i..j) > MaxAttempts + Slack
    BY <1>2
  <2> QED
    BY <2>4, <2>5, <2>6, <2>7, SlackIs
<1>7. CASE j # tried'
  <2>1. j \in DOMAIN rows /\ rows'[j] = rows[j] /\ j \in 1..tried /\ i \in Int
    BY <1>1, <1>2, <1>5, <1>7 DEF Appended
  <2>2. CASE i > j
    <3>1. i..j = {}
      BY <2>1, <2>2
    <3>2. Cardinality(Of(n)' \cap i..j) = 0
      BY <3>1, FS_EmptySet
    <3>3. Attempts # {} /\ IsFiniteSet(Attempts)
      BY ThrottleAssumption
    <3>4. Cardinality(Attempts) >= 1 /\ MaxAttempts \in Nat /\ MaxAttempts >= 1
      BY <3>3, AttemptsFinite, FS_EmptySet, ThrottleAssumption
    <3> QED
      BY <1>2, <3>2, <3>4, SlackIs, AttemptsFinite
  <2>3. CASE i <= j
    <3>1. i # tried' /\ i \in DOMAIN rows /\ rows'[i] = rows[i]
      BY <1>1, <1>2, <1>5, <2>1, <2>3 DEF Appended
    <3>2. \A k \in i..j : k \in Of(n)' <=> k \in Of(n)
      <4> TAKE k \in i..j
      <4>1. k # tried' /\ k >= i /\ k \in Int
        BY <1>2, <2>1
      <4>2. k \in DOMAIN rows' => k \in DOMAIN rows /\ rows'[k] = rows[k]
        BY <1>1, <4>1 DEF Appended
      <4>3. k \in DOMAIN rows => k \in DOMAIN rows'
        BY <1>1, <1>5, <4>1
      <4> QED
        BY <4>2, <4>3 DEF Of
    <3>3. Of(n)' \cap i..j = Of(n) \cap i..j
      BY <3>2
    <3>4. \A k \in Of(n) \cap i..j : ~rows[k].ok
      <4> TAKE k \in Of(n) \cap i..j
      <4>1. k \in Of(n)' /\ k \in i..j /\ k # tried'
        BY <1>2, <2>1, <3>2
      <4>2. rows'[k] = rows[k]
        BY <1>1, <1>5, <4>1 DEF Appended
      <4> QED
        BY <4>1, <4>2
    <3>5. i \in Of(n) /\ j \in Of(n)
      BY <2>1, <2>3, <3>1 DEF Of
    <3>6. Cardinality(Of(n) \cap i..j) > MaxAttempts + Slack
      BY <1>2, <3>3
    <3>7. rows[j].time - rows[i].time >= LockTicks
      BY <3>4, <3>5, <3>6 DEF GuessBudget, Of
    <3> QED
      BY <2>1, <3>1, <3>7
  <2> QED
    BY <1>2, <1>5, <2>1, <2>2, <2>3
<1> QED
  BY <1>6, <1>7

-----------------------------------------------------------------------------
(* Passwords sprayed from one address.                                     *)

\* How the failures of an address within the window move.
LEMMA WindowMoves ==
  ASSUME ThrottleTyped, InOrder, NEW q \in Attempts, NEW ok \in BOOLEAN, Record(q, ok), NEW h
  PROVE  /\ InWindow(h)' \subseteq InWindow(h) \cup {tried'}
         /\ passed[q][2] # h => InWindow(h)' \subseteq InWindow(h)
<1>1. Appended(RowOf(q, ok)) /\ now' = now /\ RowOf(q, ok).ip = passed[q][2]
  BY Appends DEF Record, RowOf
<1>2. ASSUME NEW i \in InWindow(h)', i # tried' PROVE i \in InWindow(h)
  <2>1. i \in DOMAIN rows /\ rows'[i] = rows[i]
    BY <1>1, <1>2 DEF InWindow, FailuresFrom, Appended
  <2> QED
    BY <1>1, <2>1 DEF InWindow, FailuresFrom
<1>3. ASSUME passed[q][2] # h, NEW i \in InWindow(h)' PROVE i # tried'
  BY <1>1, <1>3 DEF InWindow, FailuresFrom, Appended
<1> QED
  BY <1>2, <1>3

LEMMA SprayingInit ==
  ASSUME ThrottleInit
  PROVE  SprayInv /\ SprayBudget
<1>1. \A h : From(h) = {}
  BY DEF ThrottleInit, From
<1>2. DOMAIN rows = {}
  BY DEF ThrottleInit
<1> QED
  BY <1>1, <1>2 DEF SprayInv, Spraying, SprayBudget, FailuresFrom

LEMMA SprayingCheck ==
  ASSUME ThrottleTyped, SprayInv,
         NEW q \in Attempts, NEW n \in Names, NEW h \in Addresses, Check(q, n, h)
  PROVE  SprayInv'
<1> SUFFICES ASSUME NEW g \in Addresses PROVE Spraying(g)'
  BY DEF SprayInv
<1>1. rows' = rows /\ now' = now
  BY DEF Check
<1>2. InWindow(g)' = InWindow(g)
  BY <1>1 DEF InWindow, FailuresFrom
<1>3. Cardinality(InWindow(g)) \in Nat
  <2>1. InWindow(g) \subseteq DOMAIN rows
    BY DEF InWindow, FailuresFrom
  <2> QED
    BY <2>1, RowsFinite DEF ThrottleTyped
<1>4. CASE g = h
  <2>1. ~(Cardinality(InWindow(g)) >= MaxIpAttempts)
    BY <1>4 DEF Check, Allowed, IpSpent, IpFailures, InWindow
  <2>2. From(g)' \in SUBSET Attempts
    BY DEF From
  <2>3. Cardinality(From(g)') \in Nat /\ Cardinality(From(g)') <= Cardinality(Attempts)
    BY <2>2, AttemptsFinite
  <2>4. Slack = Cardinality(Attempts) - 1 /\ Cardinality(Attempts) \in Nat /\ MaxIpAttempts \in Nat
    BY SlackIs, AttemptsFinite, ThrottleAssumption
  <2>5. Cardinality(InWindow(g)) + Cardinality(From(g)') <= MaxIpAttempts + Slack
    BY <1>3, <2>1, <2>3, <2>4
  <2>6. (Cardinality(InWindow(g)) + Cardinality(From(g)) <= MaxIpAttempts + Slack)'
    BY <1>2, <2>5 DEF Slack
  <2> QED
    BY <2>6 DEF Spraying
<1>5. CASE g # h
  <2>1. \A p \in Attempts : passed'[p] = IF p = q THEN Attempt(n, h) ELSE passed[p]
    BY DEF Check, ThrottleTyped
  <2>2. passed[q] = NoAttempt /\ Attempt(n, h)[2] = h
    BY DEF Check, Attempt
  <2>3. From(g)' = From(g)
    BY <1>5, <2>1, <2>2 DEF From
  <2> QED
    BY <1>2, <2>3 DEF SprayInv, Spraying, Slack
<1> QED
  BY <1>4, <1>5

LEMMA SprayingRecord ==
  ASSUME ThrottleTyped, InOrder, SprayInv,
         NEW q \in Attempts, NEW ok \in BOOLEAN, Record(q, ok)
  PROVE  /\ SprayInv'
         /\ \A h \in Addresses :
              passed[q][2] = h => Cardinality(InWindow(h)') <= MaxIpAttempts + Slack
<1> SUFFICES ASSUME NEW h \in Addresses
             PROVE  /\ Spraying(h)'
                    /\ passed[q][2] = h => Cardinality(InWindow(h)') <= MaxIpAttempts + Slack
  BY DEF SprayInv
<1> DEFINE bound == MaxIpAttempts + Slack
           T == InWindow(h)
           P == From(h)
<1>1. bound \in Int /\ Slack' = Slack
  BY SlackIs DEF Slack
<1>2. IsFiniteSet(T) /\ IsFiniteSet(P)
  <2>1. T \in SUBSET (DOMAIN rows) /\ P \in SUBSET Attempts
    BY DEF InWindow, FailuresFrom, From
  <2> QED
    BY <2>1, RowsFinite, AttemptsFinite DEF ThrottleTyped
<1>3. P # {} => Cardinality(T) + Cardinality(P) <= bound
  BY DEF SprayInv, Spraying
<1>4. CASE passed[q][2] = h
  <2>1. q \in P /\ P' = P \ {q}
    BY <1>4, UnderMoves
  <2>2. PICK j : j = tried' /\ T' \in SUBSET (T \cup {j})
    BY WindowMoves
  <2>3. Cardinality(T) + Cardinality(P) <= bound
    BY <1>3, <2>1
  <2> HIDE DEF T, P, bound
  <2>4. /\ Cardinality(T') <= bound
        /\ Cardinality(T') + Cardinality(P') <= bound
    BY <1>1, <1>2, <2>1, <2>2, <2>3, OneMoves
  <2> QED
    BY <1>1, <2>4 DEF Spraying, T, P, bound
<1>5. CASE passed[q][2] # h
  <2>1. P' = P /\ T' \subseteq T
    BY <1>5, UnderMoves, WindowMoves
  <2> HIDE DEF T, P, bound
  <2>2. P' # {} => Cardinality(T') + Cardinality(P') <= bound
    BY <1>1, <1>2, <1>3, <2>1, NoneAdded
  <2> QED
    BY <1>1, <1>5, <2>2 DEF Spraying, T, P, bound
<1> QED
  BY <1>4, <1>5

LEMMA SprayingNext ==
  ASSUME ThrottleTyped, InOrder, SprayInv, [ThrottleNext]_throttle
  PROVE  SprayInv'
<1>1. ASSUME Tick PROVE SprayInv'
  <2>1. \A h : From(h)' = {}
    BY <1>1 DEF Tick, From
  <2> QED
    BY <2>1 DEF SprayInv, Spraying
<1>2. ASSUME UNCHANGED throttle PROVE SprayInv'
  BY <1>2 DEF throttle, SprayInv, Spraying, From, InWindow, FailuresFrom, Slack
<1> QED
  BY <1>1, <1>2, SprayingCheck, SprayingRecord DEF ThrottleNext

\* The failures between a failure and the row just written are in the window, unless
\* they span more than it.
LEMMA SprayBudgetRecord ==
  ASSUME ThrottleTyped, InOrder, ThrottleTyped', InOrder', SprayInv, SprayBudget,
         NEW q \in Attempts, NEW ok \in BOOLEAN, Record(q, ok)
  PROVE  SprayBudget'
<1>1. /\ Appended(RowOf(q, ok))
      /\ \A i \in DOMAIN rows, j \in DOMAIN rows' : i >= j => i \in DOMAIN rows'
  BY Appends
<1>2. /\ now' = now /\ tried \in Nat /\ DOMAIN rows \subseteq 1..tried
      /\ tried' = tried + 1 /\ Slack' = Slack /\ DOMAIN rows' \subseteq 1..tried' /\ now \in Nat
  BY <1>1 DEF Record, ThrottleTyped, Numbered, Appended, Slack
<1>3. \A i \in DOMAIN rows' : rows'[i].time \in Nat
  BY DEF ThrottleTyped, Numbered, AttemptRows
<1>4. WindowTicks \in Nat
  BY ThrottleAssumption
<1> SUFFICES ASSUME NEW h \in Addresses, NEW i \in FailuresFrom(h)', NEW j \in FailuresFrom(h)',
                    (Cardinality(FailuresFrom(h) \cap i..j) > MaxIpAttempts + Slack)'
             PROVE  rows'[j].time - rows'[i].time > WindowTicks
  BY <1>2 DEF SprayBudget
<1>5. i \in DOMAIN rows' /\ j \in DOMAIN rows' /\ FailuresFrom(h) \subseteq DOMAIN rows
      /\ FailuresFrom(h)' \subseteq DOMAIN rows'
  BY DEF FailuresFrom
<1>6. CASE j = tried'
  <2> SUFFICES ASSUME rows'[j].time - rows'[i].time <= WindowTicks PROVE FALSE
    BY <1>3, <1>4, <1>5
  <2>1. rows'[j].time = now /\ rows'[j].ip = passed[q][2]
    BY <1>1, <1>6 DEF Appended, RowOf
  <2>2. passed[q][2] = h
    BY <2>1 DEF FailuresFrom
  <2>3. FailuresFrom(h)' \cap i..j \subseteq InWindow(h)'
    <3> SUFFICES ASSUME NEW k \in FailuresFrom(h)', k \in i..j
                 PROVE  rows'[k].time >= now - WindowTicks
      BY <1>2 DEF InWindow
    <3>1. i <= k /\ rows'[i].time <= rows'[k].time
      BY <1>2, <1>5 DEF InOrder
    <3> QED
      BY <1>2, <1>3, <1>4, <1>5, <2>1, <3>1
  <2>4. Cardinality(InWindow(h)') <= MaxIpAttempts + Slack
    BY <2>2, SprayingRecord
  <2>5. IsFiniteSet(InWindow(h)') /\ Cardinality(InWindow(h)') \in Nat
    <3>1. PICK last \in Nat : last = tried'
      BY <1>2
    <3>2. InWindow(h)' \subseteq 1..last
      BY <1>2, <3>1 DEF InWindow, FailuresFrom
    <3> QED
      BY <3>2, NumbersFinite
  <2>6. /\ Cardinality(FailuresFrom(h)' \cap i..j) <= Cardinality(InWindow(h)')
        /\ Cardinality(FailuresFrom(h)' \cap i..j) \in Nat
    BY <2>3, <2>5, FS_Subset, FS_CardinalityType
  <2>7. Cardinality(FailuresFrom(h)' \cap i..j) > MaxIpAttempts + Slack
    BY <1>2
  <2> QED
    BY <2>4, <2>5, <2>6, <2>7, SlackIs
<1>7. CASE j # tried'
  <2>1. j \in DOMAIN rows /\ rows'[j] = rows[j] /\ j \in 1..tried /\ i \in Int
    BY <1>1, <1>2, <1>5, <1>7 DEF Appended
  <2>2. CASE i > j
    <3>1. i..j = {}
      BY <2>1, <2>2
    <3>2. Cardinality(FailuresFrom(h)' \cap i..j) = 0
      BY <3>1, FS_EmptySet
    <3>3. Attempts # {} /\ IsFiniteSet(Attempts)
      BY ThrottleAssumption
    <3>4. Cardinality(Attempts) >= 1 /\ MaxIpAttempts \in Nat /\ MaxIpAttempts >= 1
      BY <3>3, AttemptsFinite, FS_EmptySet, ThrottleAssumption
    <3> QED
      BY <1>2, <3>2, <3>4, SlackIs, AttemptsFinite
  <2>3. CASE i <= j
    <3>1. i # tried' /\ i \in DOMAIN rows /\ rows'[i] = rows[i]
      BY <1>1, <1>2, <1>5, <2>1, <2>3 DEF Appended
    <3>2. \A k \in i..j : k \in FailuresFrom(h)' <=> k \in FailuresFrom(h)
      <4> TAKE k \in i..j
      <4>1. k # tried' /\ k >= i /\ k \in Int
        BY <1>2, <2>1
      <4>2. k \in DOMAIN rows' => k \in DOMAIN rows /\ rows'[k] = rows[k]
        BY <1>1, <4>1 DEF Appended
      <4>3. k \in DOMAIN rows => k \in DOMAIN rows'
        BY <1>1, <1>5, <4>1
      <4> QED
        BY <4>2, <4>3 DEF FailuresFrom
    <3>3. FailuresFrom(h)' \cap i..j = FailuresFrom(h) \cap i..j
      BY <3>2
    <3>4. i \in FailuresFrom(h) /\ j \in FailuresFrom(h)
      BY <2>1, <2>3, <3>1 DEF FailuresFrom
    <3>5. Cardinality(FailuresFrom(h) \cap i..j) > MaxIpAttempts + Slack
      BY <1>2, <3>3
    <3>6. rows[j].time - rows[i].time > WindowTicks
      BY <3>4, <3>5 DEF SprayBudget
    <3> QED
      BY <2>1, <3>1, <3>6
  <2> QED
    BY <1>2, <1>5, <2>1, <2>2, <2>3
<1> QED
  BY <1>6, <1>7

-----------------------------------------------------------------------------
(* The theorems.                                                           *)

\* AttemptRows keep their types and the order of their times, whatever is swept.
THEOREM AttemptsInOrder == ThrottleSpec => [](ThrottleTyped /\ InOrder)
<1>1. ThrottleInit => ThrottleTyped /\ InOrder
  BY TypedInit
<1>2. ThrottleTyped /\ InOrder /\ [ThrottleNext]_throttle => (ThrottleTyped /\ InOrder)'
  BY TypedNext
<1> QED
  BY <1>1, <1>2, PTL DEF ThrottleSpec

\* GuessBudget: nobody who may be locked out gets more wrong passwords in a row
\* within the length of a lock than the limit and the attempts that overlap.
THEOREM GuessesBounded == ThrottleSpec => []GuessBudget
<1> DEFINE Inv == ThrottleTyped /\ InOrder /\ GuessInv /\ GuessBudget
<1>1. ThrottleInit => Inv
  BY TypedInit, GuessingInit
<1>2. Inv /\ [ThrottleNext]_throttle => Inv'
  <2> SUFFICES ASSUME Inv, [ThrottleNext]_throttle PROVE Inv'
    OBVIOUS
  <2>1. ThrottleTyped' /\ InOrder'
    BY TypedNext
  <2>2. GuessInv'
    BY GuessingNext
  <2>3. ASSUME NEW q \in Attempts, NEW ok \in BOOLEAN, Record(q, ok) PROVE GuessBudget'
    BY <2>1, <2>3, GuessBudgetRecord
  <2>4. ASSUME rows' = rows, employees' = employees PROVE GuessBudget'
    BY <2>4 DEF GuessBudget, Slack
  <2>5. GuessBudget'
    BY <2>3, <2>4 DEF ThrottleNext, Check, Tick, throttle
  <2> QED
    BY <2>1, <2>2, <2>5
<1> QED
  BY <1>1, <1>2, PTL DEF ThrottleSpec

\* SprayBudget: the failures of one address, over all accounts, within the window
\* stay within the limit and the attempts that overlap.
THEOREM SpraysBounded == ThrottleSpec => []SprayBudget
<1> DEFINE Inv == ThrottleTyped /\ InOrder /\ SprayInv /\ SprayBudget
<1>1. ThrottleInit => Inv
  BY TypedInit, SprayingInit
<1>2. Inv /\ [ThrottleNext]_throttle => Inv'
  <2> SUFFICES ASSUME Inv, [ThrottleNext]_throttle PROVE Inv'
    OBVIOUS
  <2>1. ThrottleTyped' /\ InOrder'
    BY TypedNext
  <2>2. SprayInv'
    BY SprayingNext
  <2>3. ASSUME NEW q \in Attempts, NEW ok \in BOOLEAN, Record(q, ok) PROVE SprayBudget'
    BY <2>1, <2>3, SprayBudgetRecord
  <2>4. ASSUME rows' = rows PROVE SprayBudget'
    BY <2>4 DEF SprayBudget, FailuresFrom, Slack
  <2>5. SprayBudget'
    BY <2>3, <2>4 DEF ThrottleNext, Check, Tick, throttle
  <2> QED
    BY <2>1, <2>2, <2>5
<1> QED
  BY <1>1, <1>2, PTL DEF ThrottleSpec

================================================================================
