------------------------------- MODULE OrgProofs -------------------------------
(***************************************************************************)
(* Theorems about the members, the invitations and the audit log of an     *)
(* organization, and about the assignees of a run while its members        *)
(* change, for any number of people, invitations and requests.             *)
(***************************************************************************)
EXTENDS RunCreation, FiniteSetTheorems, TLAPS


\* Row ids are keys, and the row a request creates is there only once it is done.
IdsAreKeys ==
  /\ \A m, n \in membership : m.id = n.id => m = n
  /\ \A m \in membership : m.id \in Reqs => req[m.id].phase = "done"

\* What a member request has read is still true: its row is there unchanged and,
\* if it was counted, another ADMIN is.
StillTrue(r) ==
  req[r].phase \in {"count", "commit"} /\ req[r].job.op \in {"role", "remove"} =>
    /\ req[r].row \in membership
    /\ req[r].phase = "commit" /\ Protects(req[r].row, req[r].job) =>
         Remaining(req[r].row) # {}

AdminInv ==
  /\ TypeOK
  /\ IdsAreKeys
  /\ ~raced => /\ Admins # {}
               /\ \A r \in Reqs \ outdated : StillTrue(r)

-------------------------------------------------------------------------------
\* What a step does to a request, told once for the proofs below.

LEMMA RequestForms ==
  ASSUME TypeOK, NEW r \in Reqs, req[r].phase # "unsent"
  PROVE  req[r] \in Requests
  BY DEF TypeOK, Unsent

LEMMA GotoKeepsForm ==
  ASSUME TypeOK, NEW r \in Reqs, req[r].phase # "unsent", NEW p \in Phases, Goto(r, p)
  PROVE  /\ req' \in [Reqs -> Requests \cup {Unsent}]
         /\ req'[r].phase = p /\ req'[r].job = req[r].job /\ req'[r].row = req[r].row
         /\ \A s \in Reqs \ {r} : req'[s] = req[s]
<1>1. req[r] \in Requests
  BY RequestForms
<1>2. [req[r] EXCEPT !.phase = p] \in Requests
  BY <1>1 DEF Requests
<1>3. req' = [req EXCEPT ![r] = [req[r] EXCEPT !.phase = p]]
  BY DEF Goto
<1>4. req \in [Reqs -> Requests \cup {Unsent}]
  BY DEF TypeOK
<1> QED
  BY <1>1, <1>2, <1>3, <1>4 DEF Requests

LEMMA ReadKeepsForm ==
  ASSUME TypeOK, NEW r \in Reqs, req[r].phase = "find", NEW row \in Memberships, Read(r, row)
  PROVE  /\ req' \in [Reqs -> Requests \cup {Unsent}]
         /\ req'[r].phase = IF Protects(row, req[r].job) THEN "count" ELSE "commit"
         /\ req'[r].job = req[r].job /\ req'[r].row = row
         /\ \A s \in Reqs \ {r} : req'[s] = req[s]
<1> DEFINE next == IF Protects(row, req[r].job) THEN "count" ELSE "commit"
<1>1. req[r] \in Requests
  BY RequestForms
<1>2. /\ next \in Phases
      /\ row \in Memberships \cup {NoRow}
  BY DEF Phases
<1> DEFINE new == [phase |-> next, job |-> req[r].job, row |-> row]
<1>3. new \in Requests
  BY <1>1, <1>2 DEF Requests
<1>4. req \in [Reqs -> Requests \cup {Unsent}]
  BY DEF TypeOK
<1>5. req' = [req EXCEPT ![r] = new]
  BY DEF Read
<1> QED
  BY <1>3, <1>4, <1>5

-------------------------------------------------------------------------------
\* Types

LEMMA TypeInit == Init => TypeOK
<1> SUFFICES ASSUME Init PROVE TypeOK
  OBVIOUS
<1>2. audit \in Seq(Records)
  BY DEF Init
<1>3. membership \subseteq Memberships
  BY OrgAssumption DEF Init, Memberships, RowIds
<1>4. \A r \in Reqs : req[r] = Unsent /\ req[r].phase = "unsent"
  BY DEF Init, Unsent
<1>5. QED
  BY OrgAssumption, <1>2, <1>3, <1>4 DEF Init, TypeOK, Statuses

LEMMA LogType ==
  ASSUME TypeOK, NEW id \in RowIds, NEW role \in Roles \cup {NoRole},
         NEW action \in {"MEMBER_JOINED", "MEMBER_ROLE_CHANGED", "MEMBER_REMOVED"},
         Log(action, id, role)
  PROVE  audit' \in Seq(Records)
  BY DEF Log, TypeOK, Records

LEMMA CommittedType ==
  ASSUME TypeOK, NEW r \in Reqs, NEW rs \in SUBSET Reqs, Committed(r, rs)
  PROVE  /\ outdated' \subseteq Reqs /\ raced' \in BOOLEAN
  BY DEF Committed, TypeOK

LEMMA RefuseType ==
  ASSUME TypeOK, NEW r \in Reqs, req[r].phase # "unsent", Refuse(r)
  PROVE  TypeOK'
<1>1. "done" \in Phases
  BY DEF Phases
<1>2. QED
  BY <1>1, GotoKeepsForm DEF Refuse, dbVars, TypeOK

LEMMA TypeStep == TypeOK /\ [Next]_vars => TypeOK'
<1> SUFFICES ASSUME TypeOK, [Next]_vars PROVE TypeOK'
  OBVIOUS
<1>0. /\ "count" \in Phases /\ "exists" \in Phases /\ "commit" \in Phases
      /\ "done" \in Phases
  BY DEF Phases
<1>1. ASSUME NEW r \in Reqs, NEW job \in Jobs, Receive(r, job) PROVE TypeOK'
  <2>1. [phase |-> "find", job |-> job, row |-> NoRow] \in Requests
    BY DEF Requests, Phases
  <2>2. req' \in [Reqs -> Requests \cup {Unsent}]
    BY <1>1, <2>1 DEF Receive, TypeOK
  <2>3. QED
    BY <1>1, <2>2 DEF Receive, TypeOK, dbVars
<1>2. ASSUME NEW r \in Reqs, FindMember(r) PROVE TypeOK'
  <2>1. CASE Refuse(r)
    BY <1>2, <2>1, RefuseType DEF FindMember, At
  <2>2. ASSUME NEW row \in RowOf(req[r].job.target), Read(r, row) PROVE TypeOK'
    <3>1. row \in Memberships
      BY DEF RowOf, TypeOK
    <3>2. /\ req[r].phase = "find" /\ req[r].job.op \in {"role", "remove"}
      BY <1>2 DEF FindMember, At
    <3>3. QED
      BY <2>2, <3>1, <3>2, ReadKeepsForm DEF Read, TypeOK, dbVars
  <2>3. QED
    BY <1>2, <2>1, <2>2 DEF FindMember
<1>3. ASSUME NEW r \in Reqs, CountAdmins(r) PROVE TypeOK'
  <2>1. CASE Refuse(r)
    BY <1>3, <2>1, RefuseType DEF CountAdmins, At
  <2>2. CASE Goto(r, "commit") /\ UNCHANGED <<dbVars, outdated, raced>>
    BY <1>0, <1>3, <2>2, GotoKeepsForm DEF CountAdmins, At, TypeOK, dbVars
  <2>3. QED
    BY <1>3, <2>1, <2>2 DEF CountAdmins
<1>4. ASSUME NEW r \in Reqs, ChangeRole(r) PROVE TypeOK'
  <2> DEFINE row == req[r].row  role == req[r].job.role
  <2>1. CASE Refuse(r)
    BY <1>4, <2>1, RefuseType DEF ChangeRole, At
  <2>2. CASE Current(row) # {}
    <3>1. /\ membership' = (membership \ Current(row))
                              \cup {[m EXCEPT !.role = role] : m \in Current(row)}
          /\ Log("MEMBER_ROLE_CHANGED", row.id, Diff(row.role, role))
          /\ Committed(r, Reading({"role", "remove"}))
          /\ Goto(r, "done")
          /\ UNCHANGED invitation
          /\ At(r, "commit", "role")
      BY <1>4, <2>2 DEF ChangeRole
    <3>2. /\ row \in Memberships /\ req[r] \in Requests
      BY <3>1, RequestForms DEF At, TypeOK
    <3>3. role \in Roles
      BY <3>1, <3>2 DEF At, Requests, Jobs
    <3>4. membership' \subseteq Memberships
      BY <3>1, <3>3 DEF Current, TypeOK, Memberships
    <3>5. audit' \in Seq(Records)
      BY <3>1, <3>2, <3>3, LogType DEF Memberships, Diff
    <3>6. /\ outdated' \subseteq Reqs /\ raced' \in BOOLEAN
      BY <3>1, CommittedType DEF Reading
    <3>7. req[r].phase # "unsent" /\ Goto(r, "done")
      BY <3>1 DEF At
    <3>8. /\ req' \in [Reqs -> Requests \cup {Unsent}]
          /\ req'[r].phase = "done"
          /\ \A s \in Reqs \ {r} : req'[s] = req[s]
      BY <1>0, <3>7, GotoKeepsForm
    <3>9. QED
      BY <3>1, <3>4, <3>5, <3>6, <3>8 DEF TypeOK
  <2>3. QED
    BY <1>4, <2>1, <2>2 DEF ChangeRole
<1>5. ASSUME NEW r \in Reqs, RemoveMember(r) PROVE TypeOK'
  <2> DEFINE row == req[r].row
  <2>1. CASE Refuse(r)
    BY <1>5, <2>1, RefuseType DEF RemoveMember, At
  <2>2. CASE Current(row) # {}
    <3>1. /\ membership' = membership \ Current(row)
          /\ Log("MEMBER_REMOVED", row.id, NoRole)
          /\ Committed(r, Reading({"role", "remove"}))
          /\ Goto(r, "done")
          /\ UNCHANGED invitation
          /\ At(r, "commit", "remove")
      BY <1>5, <2>2 DEF RemoveMember
    <3>2. row \in Memberships
      BY <3>1 DEF At, TypeOK
    <3>3. audit' \in Seq(Records)
      BY <3>1, <3>2, LogType DEF Memberships
    <3>4. /\ outdated' \subseteq Reqs /\ raced' \in BOOLEAN
      BY <3>1, CommittedType DEF Reading
    <3>5. req[r].phase # "unsent" /\ Goto(r, "done")
      BY <3>1 DEF At
    <3>6. /\ req' \in [Reqs -> Requests \cup {Unsent}]
          /\ req'[r].phase = "done"
          /\ \A s \in Reqs \ {r} : req'[s] = req[s]
      BY <1>0, <3>5, GotoKeepsForm
    <3>7. QED
      BY <3>1, <3>3, <3>4, <3>6 DEF TypeOK
  <2>3. QED
    BY <1>5, <2>1, <2>2 DEF RemoveMember
<1>6. ASSUME NEW r \in Reqs, FindRevoked(r) PROVE TypeOK'
  <2>1. CASE Refuse(r)
    BY <1>6, <2>1, RefuseType DEF FindRevoked, At
  <2>2. CASE Goto(r, "commit") /\ UNCHANGED <<dbVars, outdated, raced>>
    BY <1>0, <1>6, <2>2, GotoKeepsForm DEF FindRevoked, At, TypeOK, dbVars
  <2>3. QED
    BY <1>6, <2>1, <2>2 DEF FindRevoked
<1>7. ASSUME NEW r \in Reqs, Revoke(r) PROVE TypeOK'
  <2>1. req[r].phase # "unsent"
    BY <1>7 DEF Revoke, At
  <2>2. invitation' \in [Invitations -> [status : Statuses, email : Users, role : Roles,
                                         expired : BOOLEAN]]
    BY <1>7 DEF Revoke, TypeOK, Statuses
  <2>3. /\ outdated' \subseteq Reqs /\ raced' \in BOOLEAN
    BY <1>7, CommittedType DEF Revoke, Concerned, Reading
  <2>4. /\ req' \in [Reqs -> Requests \cup {Unsent}]
        /\ req'[r].phase = "done"
        /\ \A s \in Reqs \ {r} : req'[s] = req[s]
    BY <1>0, <1>7, <2>1, GotoKeepsForm DEF Revoke
  <2>5. UNCHANGED <<membership, audit>>
    BY <1>7 DEF Revoke
  <2>6. QED
    BY <2>2, <2>3, <2>4, <2>5 DEF TypeOK
<1>8. ASSUME NEW r \in Reqs, FindInvitation(r) PROVE TypeOK'
  <2>1. CASE Refuse(r)
    BY <1>8, <2>1, RefuseType DEF FindInvitation, At
  <2>2. CASE Goto(r, "exists") /\ UNCHANGED <<dbVars, outdated, raced>>
    BY <1>0, <1>8, <2>2, GotoKeepsForm DEF FindInvitation, At, TypeOK, dbVars
  <2>3. QED
    BY <1>8, <2>1, <2>2 DEF FindInvitation
<1>9. ASSUME NEW r \in Reqs, CheckNotMember(r) PROVE TypeOK'
  <2>1. CASE Refuse(r)
    BY <1>9, <2>1, RefuseType DEF CheckNotMember, At
  <2>2. CASE Goto(r, "commit") /\ UNCHANGED <<dbVars, outdated, raced>>
    BY <1>0, <1>9, <2>2, GotoKeepsForm DEF CheckNotMember, At, TypeOK, dbVars
  <2>3. QED
    BY <1>9, <2>1, <2>2 DEF CheckNotMember
<1>10. ASSUME NEW r \in Reqs, Join(r) PROVE TypeOK'
  <2> DEFINE job == req[r].job  i == job.inv  role == invitation[i].role
  <2>1. CASE Refuse(r)
    BY <1>10, <2>1, RefuseType DEF Join, At
  <2>2. CASE KeyFree(job.user)
    <3>1. /\ membership' = membership \cup {[id |-> r, user |-> job.user, role |-> role]}
          /\ invitation' = [invitation EXCEPT ![i].status = "ACCEPTED"]
          /\ Log("MEMBER_JOINED", r, NoRole)
          /\ Committed(r, Concerned({"revoke", "accept"}, i))
          /\ Goto(r, "done")
          /\ At(r, "commit", "accept")
      BY <1>10, <2>2 DEF Join
    <3>2. req[r] \in Requests
      BY <3>1, RequestForms DEF At
    <3>3. i \in Invitations /\ job.user \in Users
      BY <3>1, <3>2 DEF At, Requests, Jobs
    <3>4. role \in Roles
      BY <3>3 DEF TypeOK
    <3>5. membership' \subseteq Memberships
      BY <3>1, <3>3, <3>4 DEF TypeOK, Memberships, RowIds
    <3>6. audit' \in Seq(Records)
      BY <3>1, <3>4, LogType DEF RowIds
    <3>7. invitation' \in [Invitations -> [status : Statuses, email : Users, role : Roles,
                                           expired : BOOLEAN]]
      BY <3>1 DEF TypeOK, Statuses
    <3>8. /\ outdated' \subseteq Reqs /\ raced' \in BOOLEAN
      BY <3>1, CommittedType DEF Concerned, Reading
    <3>9. req[r].phase # "unsent" /\ Goto(r, "done")
      BY <3>1 DEF At
    <3>10. /\ req' \in [Reqs -> Requests \cup {Unsent}]
           /\ req'[r].phase = "done"
           /\ \A s \in Reqs \ {r} : req'[s] = req[s]
      BY <1>0, <3>9, GotoKeepsForm
    <3>11. QED
      BY <3>5, <3>6, <3>7, <3>8, <3>10 DEF TypeOK
  <2>3. QED
    BY <1>10, <2>1, <2>2 DEF Join
<1>11. ASSUME NEW i \in Invitations, Expire(i) PROVE TypeOK'
  BY <1>11 DEF Expire, TypeOK
<1>12. ASSUME NEW i \in Invitations, NEW email \in Users, NEW role \in Roles,
              Invite(i, email, role)
       PROVE  TypeOK'
  BY <1>12 DEF Invite, TypeOK, Statuses
<1>13. CASE UNCHANGED vars
  BY <1>13 DEF vars, TypeOK
<1>14. QED
  BY <1>1, <1>2, <1>3, <1>4, <1>5, <1>6, <1>7, <1>8, <1>9, <1>10, <1>11, <1>12, <1>13
  DEF Next, Serve, ServeMembers, ServeInvitations, ServeAccept

\* Every row, request and record of the services has its type, whatever races.
THEOREM TypeCorrect == Spec => []TypeOK
<1>1. QED
  BY TypeInit, TypeStep, PTL DEF Spec

-------------------------------------------------------------------------------
\* One membership per user

LEMMA UniqueInit == Init => OneMembershipPerUser
  BY DEF Init, OneMembershipPerUser

LEMMA UniqueStep ==
  TypeOK /\ OneMembershipPerUser /\ [Next]_vars => OneMembershipPerUser'
<1> SUFFICES ASSUME TypeOK, OneMembershipPerUser, [Next]_vars PROVE OneMembershipPerUser'
  OBVIOUS
<1>1. CASE membership' = membership
  BY <1>1 DEF OneMembershipPerUser
<1>2. ASSUME NEW r \in Reqs, ChangeRole(r), membership' # membership
      PROVE  OneMembershipPerUser'
  <2> DEFINE row == req[r].row  role == req[r].job.role
             Comes(n, m) == \/ n = m /\ m \notin Current(row)
                            \/ n = [m EXCEPT !.role = role] /\ m \in Current(row)
  <2>1. membership' = (membership \ Current(row))
                         \cup {[m EXCEPT !.role = role] : m \in Current(row)}
    BY <1>2 DEF ChangeRole, Refuse, dbVars
  <2>2. \A m \in Memberships : [m EXCEPT !.role = role].user = m.user
    BY DEF Memberships
  <2>3. \A n \in membership' : \E m \in membership : Comes(n, m)
    <3>1. membership \subseteq Memberships
      BY DEF TypeOK
    <3>2. Current(row) \subseteq membership
      BY DEF Current
    <3>3. QED
      BY <2>1, <2>2, <3>1, <3>2
  <2>4. ASSUME NEW n \in membership', NEW k \in membership', n.user = k.user PROVE n = k
    <3>1. PICK m \in membership : Comes(n, m)
      BY <2>3
    <3>2. PICK l \in membership : Comes(k, l)
      BY <2>3
    <3>3. m \in Memberships /\ l \in Memberships
      BY DEF TypeOK
    <3>4. n.user = m.user /\ k.user = l.user
      BY <2>2, <3>1, <3>2, <3>3
    <3>5. m = l
      BY <2>4, <3>4 DEF OneMembershipPerUser
    <3>6. QED
      BY <3>1, <3>2, <3>5
  <2>5. QED
    BY <2>4 DEF OneMembershipPerUser
<1>3. ASSUME NEW r \in Reqs, RemoveMember(r), membership' # membership
      PROVE  OneMembershipPerUser'
  BY <1>3 DEF RemoveMember, Refuse, dbVars, OneMembershipPerUser
<1>4. ASSUME NEW r \in Reqs, Join(r), membership' # membership
      PROVE  OneMembershipPerUser'
  BY <1>4 DEF Join, Refuse, dbVars, OneMembershipPerUser, KeyFree, RowOf
<1>5. membership' = membership \/ \E r \in Reqs : ChangeRole(r) \/ RemoveMember(r) \/ Join(r)
  BY DEF Next, Serve, ServeMembers, ServeInvitations, ServeAccept,
    vars, dbVars, Receive, FindMember, CountAdmins, FindRevoked, Revoke,
         FindInvitation, CheckNotMember, Refuse, Read, Invite, Expire
<1>6. QED
  BY <1>1, <1>2, <1>3, <1>4, <1>5

\* A user is a member at most once, however the acceptances of his invitations
\* interleave (invitations.service.ts accept, the unique key of Membership).
THEOREM MembersAreUnique == Spec => []OneMembershipPerUser
<1>1. QED
  BY TypeInit, TypeStep, UniqueInit, UniqueStep, PTL DEF Spec

-------------------------------------------------------------------------------
\* The last ADMIN

LEMMA AdminInit == Init => AdminInv
  BY TypeInit, OrgAssumption
  DEF Init, AdminInv, IdsAreKeys, Admins, StillTrue, Unsent

\* A step of r that writes no membership.
LEMMA AdminFrame ==
  ASSUME AdminInv, TypeOK', NEW r \in Reqs,
         membership' = membership, ~raced' => ~raced, outdated \subseteq outdated',
         \A s \in Reqs \ {r} : req'[s] = req[s],
         req[r].phase = "done" => req'[r].phase = "done",
         ~raced /\ r \notin outdated => StillTrue(r)'
  PROVE  AdminInv'
<1>1. IdsAreKeys'
  BY DEF AdminInv, IdsAreKeys
<1>2. Admins' = Admins
  BY DEF Admins
<1>3. ASSUME ~raced', NEW s \in Reqs \ outdated' PROVE StillTrue(s)'
  <2>1. CASE s = r
    BY <1>3, <2>1
  <2>2. CASE s # r
    <3>1. StillTrue(s) /\ req'[s] = req[s]
      BY <1>3, <2>2 DEF AdminInv
    <3>2. QED
      BY <3>1, <1>2 DEF StillTrue, Remaining, Protects
  <2>3. QED
    BY <2>1, <2>2
<1>4. QED
  BY <1>1, <1>2, <1>3 DEF AdminInv

LEMMA RefuseKeepsAdmin ==
  ASSUME AdminInv, TypeOK', NEW r \in Reqs, req[r].phase # "unsent", Refuse(r)
  PROVE  AdminInv'
<1>1. /\ req'[r].phase = "done" /\ \A s \in Reqs \ {r} : req'[s] = req[s]
  BY GotoKeepsForm DEF Refuse, AdminInv, Phases
<1>2. StillTrue(r)'
  BY <1>1 DEF StillTrue
<1>3. QED
  BY <1>1, <1>2, AdminFrame DEF Refuse, dbVars

\* A step of r from one reading to the next.
LEMMA GotoKeepsAdmin ==
  ASSUME AdminInv, TypeOK', NEW r \in Reqs, req[r].phase \notin {"unsent", "done"},
         NEW p \in Phases, Goto(r, p), UNCHANGED <<dbVars, outdated, raced>>,
         p = "commit" /\ req[r].job.op \in {"role", "remove"} =>
           req[r].phase = "count" /\ Remaining(req[r].row) # {},
         p # "count"
  PROVE  AdminInv'
<1>1. /\ req'[r].phase = p /\ req'[r].job = req[r].job /\ req'[r].row = req[r].row
      /\ \A s \in Reqs \ {r} : req'[s] = req[s]
  BY GotoKeepsForm DEF AdminInv
<1>2. membership' = membership /\ Admins' = Admins
  BY DEF dbVars, Admins
<1>3. ASSUME ~raced, r \notin outdated PROVE StillTrue(r)'
  <2>1. StillTrue(r)
    BY <1>3 DEF AdminInv
  <2>2. QED
    BY <1>1, <1>2, <2>1 DEF StillTrue, Remaining, Protects
<1>4. QED
  BY <1>1, <1>2, <1>3, AdminFrame DEF dbVars

\* The commit of a member request: with true readings an ADMIN is left, and every
\* other member request that is under way is outdated by it.
LEMMA WriteKeepsAdmin ==
  ASSUME AdminInv, TypeOK', NEW r \in Reqs,
         req[r].phase = "commit", req[r].job.op \in {"role", "remove"},
         Goto(r, "done"), Committed(r, Reading({"role", "remove"})),
         IdsAreKeys',
         \A m \in Admins : m.id # req[r].row.id => m \in membership',
         ~Protects(req[r].row, req[r].job) /\ req[r].row \in Admins =>
           \E m \in membership' : m.role = "ADMIN"
  PROVE  AdminInv'
<1>1. /\ req'[r].phase = "done" /\ \A s \in Reqs \ {r} : req'[s] = req[s]
  BY GotoKeepsForm DEF AdminInv, Phases
<1>2. ASSUME ~raced', NEW s \in Reqs \ outdated' PROVE StillTrue(s)'
  <2>1. CASE s = r
    BY <1>1, <2>1 DEF StillTrue
  <2>2. CASE s # r
    <3>1. req'[s] = req[s] /\ s \notin Reading({"role", "remove"})
      BY <1>1, <1>2, <2>2 DEF Committed
    <3>2. req[s].phase \in {"count", "commit"} => req[s] # Unsent
      BY DEF Unsent
    <3>3. QED
      BY <3>1, <3>2 DEF StillTrue, Reading
  <2>3. QED
    BY <2>1, <2>2
<1>3. ASSUME ~raced' PROVE Admins' # {}
  <2>1. ~raced /\ r \notin outdated
    BY <1>3 DEF Committed
  <2>2. Admins # {} /\ StillTrue(r)
    BY <2>1 DEF AdminInv
  <2>3. req[r].row \in membership
    BY <2>2 DEF StillTrue
  <2>4. CASE Protects(req[r].row, req[r].job)
    <3>1. PICK m \in Admins : m.id # req[r].row.id
      BY <2>2, <2>4 DEF StillTrue, Remaining
    <3>2. QED
      BY <3>1 DEF Admins
  <2>5. CASE ~Protects(req[r].row, req[r].job) /\ req[r].row \in Admins
    BY <2>5 DEF Admins
  <2>6. CASE req[r].row \notin Admins
    <3>1. PICK m \in Admins : TRUE
      BY <2>2
    <3>2. m.id # req[r].row.id
      BY <2>3, <2>6, <3>1 DEF AdminInv, IdsAreKeys, Admins
    <3>3. QED
      BY <3>1, <3>2 DEF Admins
  <2>7. QED
    BY <2>4, <2>5, <2>6
<1>4. QED
  BY <1>2, <1>3 DEF AdminInv

LEMMA AdminStep == AdminInv /\ [Next]_vars => AdminInv'
<1> SUFFICES ASSUME AdminInv, [Next]_vars PROVE AdminInv'
  OBVIOUS
<1>0. TypeOK /\ TypeOK'
  BY TypeStep DEF AdminInv
<1>1. ASSUME NEW r \in Reqs, NEW job \in Jobs, Receive(r, job) PROVE AdminInv'
  <2>1. /\ req[r].phase # "done" /\ req'[r].phase = "find"
        /\ \A s \in Reqs \ {r} : req'[s] = req[s]
    BY <1>0, <1>1 DEF Receive, Unsent, TypeOK
  <2>2. StillTrue(r)'
    BY <2>1 DEF StillTrue
  <2>3. QED
    BY <1>0, <1>1, <2>1, <2>2, AdminFrame DEF Receive, dbVars
<1>2. ASSUME NEW r \in Reqs, FindMember(r) PROVE AdminInv'
  <2>1. CASE Refuse(r)
    BY <1>0, <1>2, <2>1, RefuseKeepsAdmin DEF FindMember, At
  <2>2. ASSUME NEW row \in RowOf(req[r].job.target), Read(r, row) PROVE AdminInv'
    <3>1. /\ row \in membership /\ row \in Memberships
          /\ membership' = membership /\ outdated' = outdated /\ raced' = raced
      BY <1>0, <2>2 DEF RowOf, TypeOK, Read, dbVars
    <3>2. req[r].phase = "find"
      BY <1>2 DEF FindMember, At
    <3>3. /\ req'[r].phase = IF Protects(row, req[r].job) THEN "count" ELSE "commit"
          /\ req'[r].job = req[r].job /\ req'[r].row = row
          /\ \A s \in Reqs \ {r} : req'[s] = req[s]
      BY <1>0, <2>2, <3>1, <3>2, ReadKeepsForm
    <3>4. StillTrue(r)'
      BY <3>1, <3>3 DEF StillTrue, Protects
    <3>5. QED
      BY <1>0, <3>1, <3>2, <3>3, <3>4, AdminFrame
  <2>3. QED
    BY <1>2, <2>1, <2>2 DEF FindMember
<1>3. ASSUME NEW r \in Reqs, CountAdmins(r) PROVE AdminInv'
  <2>1. CASE Refuse(r)
    BY <1>0, <1>3, <2>1, RefuseKeepsAdmin DEF CountAdmins, At
  <2>2. CASE /\ Remaining(req[r].row) # {} /\ Goto(r, "commit")
             /\ UNCHANGED <<dbVars, outdated, raced>>
    BY <1>0, <1>3, <2>2, GotoKeepsAdmin DEF CountAdmins, At, Phases
  <2>3. QED
    BY <1>3, <2>1, <2>2 DEF CountAdmins
<1>4. ASSUME NEW r \in Reqs, ChangeRole(r) PROVE AdminInv'
  <2> DEFINE row == req[r].row  role == req[r].job.role
  <2>1. CASE Refuse(r)
    BY <1>0, <1>4, <2>1, RefuseKeepsAdmin DEF ChangeRole, At
  <2>2. CASE Current(row) # {}
    <3>1. /\ membership' = (membership \ Current(row))
                              \cup {[m EXCEPT !.role = role] : m \in Current(row)}
          /\ Committed(r, Reading({"role", "remove"}))
          /\ Goto(r, "done")
          /\ req[r].phase = "commit" /\ req[r].job.op = "role"
      BY <1>4, <2>2 DEF ChangeRole, At
    <3>2. membership \subseteq Memberships /\ Current(row) \subseteq membership
      BY <1>0 DEF TypeOK, Current
    <3>3. \A m \in Memberships : [m EXCEPT !.role = role].id = m.id
      BY DEF Memberships
    <3>4. \A n \in membership' : \E m \in membership :
            n.id = m.id /\ n = IF m \in Current(row) THEN [m EXCEPT !.role = role] ELSE m
      BY <3>1, <3>2, <3>3
    <3>5. /\ req'[r].phase = "done"
          /\ \A s \in Reqs \ {r} : req'[s] = req[s]
      BY <1>0, <3>1, GotoKeepsForm DEF Phases
    <3>6. IdsAreKeys'
      BY <3>4, <3>5 DEF AdminInv, IdsAreKeys
    <3>7. \A m \in Admins : m.id # row.id => m \in membership'
      BY <3>1 DEF Admins, Current
    <3>8. ~Protects(row, req[r].job) /\ row \in Admins => \E m \in membership' : m.role = "ADMIN"
      <4>1. SUFFICES ASSUME ~Protects(row, req[r].job), row \in Admins
                     PROVE  \E m \in membership' : m.role = "ADMIN"
        OBVIOUS
      <4>2. role = "ADMIN"
        BY <3>1, <4>1 DEF Protects, Admins
      <4>3. row \in Current(row) /\ row \in Memberships
        BY <3>2, <4>1 DEF Admins, Current
      <4>4. /\ [row EXCEPT !.role = role] \in membership'
            /\ [row EXCEPT !.role = role].role = role
        BY <3>1, <4>3 DEF Memberships
      <4>5. QED
        BY <4>2, <4>4
    <3>9. QED
      BY <1>0, <3>1, <3>6, <3>7, <3>8, WriteKeepsAdmin
  <2>3. QED
    BY <1>4, <2>1, <2>2 DEF ChangeRole
<1>5. ASSUME NEW r \in Reqs, RemoveMember(r) PROVE AdminInv'
  <2> DEFINE row == req[r].row
  <2>1. CASE Refuse(r)
    BY <1>0, <1>5, <2>1, RefuseKeepsAdmin DEF RemoveMember, At
  <2>2. CASE Current(row) # {}
    <3>1. /\ membership' = membership \ Current(row)
          /\ Committed(r, Reading({"role", "remove"}))
          /\ Goto(r, "done")
          /\ req[r].phase = "commit" /\ req[r].job.op = "remove"
      BY <1>5, <2>2 DEF RemoveMember, At
    <3>2. /\ req'[r].phase = "done"
          /\ \A s \in Reqs \ {r} : req'[s] = req[s]
      BY <1>0, <3>1, GotoKeepsForm DEF Phases
    <3>3. IdsAreKeys'
      BY <3>1, <3>2 DEF AdminInv, IdsAreKeys
    <3>4. \A m \in Admins : m.id # row.id => m \in membership'
      BY <3>1 DEF Admins, Current
    <3>5. row \in Admins => Protects(row, req[r].job)
      BY <3>1 DEF Protects, Admins
    <3>6. QED
      BY <1>0, <3>1, <3>3, <3>4, <3>5, WriteKeepsAdmin
  <2>3. QED
    BY <1>5, <2>1, <2>2 DEF RemoveMember
<1>6. ASSUME NEW r \in Reqs, FindRevoked(r) PROVE AdminInv'
  <2>1. CASE Refuse(r)
    BY <1>0, <1>6, <2>1, RefuseKeepsAdmin DEF FindRevoked, At
  <2>2. CASE Goto(r, "commit") /\ UNCHANGED <<dbVars, outdated, raced>>
    BY <1>0, <1>6, <2>2, GotoKeepsAdmin DEF FindRevoked, At, Phases
  <2>3. QED
    BY <1>6, <2>1, <2>2 DEF FindRevoked
<1>7. ASSUME NEW r \in Reqs, Revoke(r) PROVE AdminInv'
  <2>1. /\ membership' = membership /\ (~raced' => ~raced) /\ outdated \subseteq outdated'
        /\ Goto(r, "done") /\ req[r].phase = "commit"
    BY <1>7 DEF Revoke, Committed, At
  <2>2. /\ req'[r].phase = "done" /\ \A s \in Reqs \ {r} : req'[s] = req[s]
    BY <1>0, <2>1, GotoKeepsForm DEF Phases
  <2>3. StillTrue(r)'
    BY <2>2 DEF StillTrue
  <2>4. QED
    BY <1>0, <2>1, <2>2, <2>3, AdminFrame
<1>8. ASSUME NEW r \in Reqs, FindInvitation(r) PROVE AdminInv'
  <2>1. CASE Refuse(r)
    BY <1>0, <1>8, <2>1, RefuseKeepsAdmin DEF FindInvitation, At
  <2>2. CASE Goto(r, "exists") /\ UNCHANGED <<dbVars, outdated, raced>>
    BY <1>0, <1>8, <2>2, GotoKeepsAdmin DEF FindInvitation, At, Phases
  <2>3. QED
    BY <1>8, <2>1, <2>2 DEF FindInvitation
<1>9. ASSUME NEW r \in Reqs, CheckNotMember(r) PROVE AdminInv'
  <2>1. CASE Refuse(r)
    BY <1>0, <1>9, <2>1, RefuseKeepsAdmin DEF CheckNotMember, At
  <2>2. CASE Goto(r, "commit") /\ UNCHANGED <<dbVars, outdated, raced>>
    BY <1>0, <1>9, <2>2, GotoKeepsAdmin DEF CheckNotMember, At, Phases
  <2>3. QED
    BY <1>9, <2>1, <2>2 DEF CheckNotMember
<1>10. ASSUME NEW r \in Reqs, Join(r) PROVE AdminInv'
  <2> DEFINE job == req[r].job  new == [id |-> r, user |-> job.user,
                                        role |-> invitation[job.inv].role]
  <2>1. CASE Refuse(r)
    BY <1>0, <1>10, <2>1, RefuseKeepsAdmin DEF Join, At
  <2>2. CASE KeyFree(job.user)
    <3>1. /\ membership' = membership \cup {new}
          /\ (~raced' => ~raced) /\ outdated \subseteq outdated'
          /\ Goto(r, "done") /\ req[r].phase = "commit"
      BY <1>10, <2>2 DEF Join, Committed, At
    <3>2. /\ req'[r].phase = "done"
          /\ \A s \in Reqs \ {r} : req'[s] = req[s]
      BY <1>0, <3>1, GotoKeepsForm DEF Phases
    <3>3. \A m \in membership : m.id # r
      BY <3>1 DEF AdminInv, IdsAreKeys
    <3>4. IdsAreKeys'
      BY <3>1, <3>2, <3>3 DEF AdminInv, IdsAreKeys
    <3>5. Admins \subseteq Admins'
      BY <3>1 DEF Admins
    <3>6. ASSUME ~raced', NEW s \in Reqs \ outdated' PROVE StillTrue(s)'
      <4>1. CASE s = r
        BY <3>2, <4>1 DEF StillTrue
      <4>2. CASE s # r
        <5>1. StillTrue(s) /\ req'[s] = req[s]
          BY <3>1, <3>2, <3>6, <4>2 DEF AdminInv
        <5>2. QED
          BY <3>1, <3>5, <5>1 DEF StillTrue, Remaining, Protects
      <4>3. QED
        BY <4>1, <4>2
    <3>7. QED
      BY <1>0, <3>1, <3>4, <3>5, <3>6 DEF AdminInv
  <2>3. QED
    BY <1>10, <2>1, <2>2 DEF Join
<1>11. ASSUME UNCHANGED <<membership, req, outdated, raced>> PROVE AdminInv'
  BY <1>0, <1>11 DEF AdminInv, IdsAreKeys, Admins, StillTrue, Remaining, Protects
<1>12. QED
  BY <1>1, <1>2, <1>3, <1>4, <1>5, <1>6, <1>7, <1>8, <1>9, <1>10, <1>11
  DEF Next, Serve, ServeMembers, ServeInvitations, ServeAccept, vars, Expire, Invite

\* The organization keeps an ADMIN as long as no request commits on readings that
\* another has made outdated (members.service.ts, assertNotLastAdmin).
THEOREM LastAdminIsProtected == Spec => []AdminRemainsUnlessRaced
<1>1. AdminInv => AdminRemainsUnlessRaced
  BY DEF AdminInv, AdminRemainsUnlessRaced, AdminRemains
<1>2. QED
  BY AdminInit, AdminStep, <1>1, PTL DEF Spec

-------------------------------------------------------------------------------
\* Members and their log

HoldersMatch == \A m \in membership : m.user = Holder(m.id)

LogIsDone ==
  \A k \in DOMAIN audit : audit[k].target \in Reqs => req[audit[k].target].phase = "done"

MembersInv == AdminInv /\ HoldersMatch /\ LogIsDone

LogGrows ==
  /\ Len(audit) \in Nat /\ Len(audit') \in Nat /\ Len(audit) <= Len(audit')
  /\ DOMAIN audit \subseteq DOMAIN audit'
  /\ \A k \in DOMAIN audit : audit'[k] = audit[k]

\* Whoever stops being a member gets an entry that says so.
LeaversAreLogged ==
  \A m \in membership :
    \/ \E n \in membership' : n.user = m.user
    \/ \E k \in DOMAIN audit' : /\ k > Len(audit) /\ audit'[k].action = "MEMBER_REMOVED"
                                /\ audit'[k].target = m.id

LEMMA InitMembers == Init => MembersInv
  BY AdminInit, OrgAssumption DEF Init, MembersInv, HoldersMatch, LogIsDone, Holder

\* A request that is over stays as it is.
LEMMA DoneStays ==
  ASSUME TypeOK, [Next]_vars, NEW s \in Reqs, req[s].phase = "done"
  PROVE  req'[s] = req[s]
  <1>1. \A r \in Reqs, job \in Jobs : Receive(r, job) => req'[s] = req[s]
    BY DEF Receive, Unsent, TypeOK
  <1>2. \A r \in Reqs : Serve(r) => r # s
    BY DEF Serve, ServeMembers, ServeInvitations, ServeAccept,
      At, FindMember, CountAdmins, ChangeRole, RemoveMember, FindRevoked, Revoke,
           FindInvitation, CheckNotMember, Join
  <1>3. ASSUME NEW r \in Reqs, r # s, Serve(r) PROVE req'[s] = req[s]
    <2>1. \/ \E phase : Goto(r, phase)
          \/ \E row : Read(r, row)
      BY <1>3 DEF Serve, ServeMembers, ServeInvitations, ServeAccept,
        FindMember, CountAdmins, ChangeRole, RemoveMember, FindRevoked, Revoke,
                  FindInvitation, CheckNotMember, Join, Refuse
    <2>2. QED
      BY <1>3, <2>1 DEF Goto, Read, TypeOK
  <1>4. QED
    BY <1>1, <1>2, <1>3 DEF Next, vars, Invite, Expire

LEMMA LogAppends ==
  ASSUME TypeOK, NEW id \in RowIds, NEW role \in Roles \cup {NoRole},
         NEW action \in {"MEMBER_JOINED", "MEMBER_ROLE_CHANGED", "MEMBER_REMOVED"},
         Log(action, id, role)
  PROVE  /\ LogGrows /\ Len(audit') > Len(audit) /\ Len(audit') \in DOMAIN audit'
         /\ audit'[Len(audit')].action = action /\ audit'[Len(audit')].target = id
         /\ \A k \in DOMAIN audit' : k \in DOMAIN audit \/ k = Len(audit')
  BY DEF Log, TypeOK, LogGrows, Records

LEMMA LogStays ==
  ASSUME TypeOK, UNCHANGED audit
  PROVE  LogGrows
  BY DEF TypeOK, LogGrows

\* Which steps touch the rows or their log.
LEMMA Writers ==
  ASSUME [Next]_vars
  PROVE  \/ UNCHANGED <<membership, audit>>
         \/ \E r \in Reqs : \/ ChangeRole(r) /\ ~Refuse(r)
                            \/ RemoveMember(r) /\ ~Refuse(r)
                            \/ Join(r) /\ ~Refuse(r)
  BY DEF Next, Serve, ServeMembers, ServeInvitations, ServeAccept,
    vars, dbVars, Receive, FindMember, CountAdmins, FindRevoked, Revoke,
         FindInvitation, CheckNotMember, Refuse, Read, Invite, Expire

LEMMA MembersStep ==
  ASSUME MembersInv, [Next]_vars
  PROVE  MembersInv' /\ LogGrows /\ LeaversAreLogged
  <1>a. TypeOK /\ IdsAreKeys /\ AdminInv' /\ TypeOK'
    BY AdminStep DEF MembersInv, AdminInv
  <1>b. \A s \in Reqs : req[s].phase = "done" => req'[s] = req[s]
    BY <1>a, DoneStays
  <1>c. \A m \in membership : m \in Memberships /\ m.id \in RowIds
    BY <1>a DEF TypeOK, Memberships
  \* The rows that stay are held by whom they were.
  <1>d. \A m \in membership : Holder(m.id)' = m.user
    BY <1>a, <1>b, <1>c, OrgAssumption DEF MembersInv, HoldersMatch, IdsAreKeys, Holder, RowIds
  \* An entry about a row that is there.
  <1>e. ASSUME LogGrows, \A k \in DOMAIN audit' : k \in DOMAIN audit
                           \/ \E m \in membership : audit'[k].target = m.id
        PROVE  LogIsDone'
    BY <1>a, <1>b, <1>c, <1>e DEF MembersInv, LogIsDone, LogGrows, IdsAreKeys
  <1>1. CASE UNCHANGED <<membership, audit>>
    BY <1>1, <1>a, <1>d, <1>e, LogStays
    DEF MembersInv, HoldersMatch, LeaversAreLogged
  <1>2. ASSUME NEW r \in Reqs, ChangeRole(r), ~Refuse(r)
        PROVE  MembersInv' /\ LogGrows /\ LeaversAreLogged
    <2> DEFINE row == req[r].row
               role == req[r].job.role
    <2>1. /\ row \in Memberships /\ role \in Roles
      <3>1. req[r] \in Requests /\ req[r].phase = "commit" /\ req[r].job.op = "role"
        BY <1>2, <1>a DEF ChangeRole, At, TypeOK, Unsent
      <3>2. QED
        BY <1>a, <3>1 DEF TypeOK, Requests, Jobs
    <2>2. /\ membership' = (membership \ Current(row))
                              \cup {[m EXCEPT !.role = role] : m \in Current(row)}
          /\ Log("MEMBER_ROLE_CHANGED", row.id, Diff(row.role, role))
          /\ Current(row) # {}
      BY <1>2 DEF ChangeRole
    <2>3. Current(row) \subseteq membership /\ \A m \in Current(row) : m.id = row.id
      BY DEF Current
    <2>4. \A m \in Memberships : [m EXCEPT !.role = role].user = m.user
                              /\ [m EXCEPT !.role = role].id = m.id
      BY DEF Memberships
    <2>5. row.id \in RowIds
      BY <2>1 DEF Memberships
    <2>6. /\ LogGrows /\ audit'[Len(audit')].target = row.id
          /\ \A k \in DOMAIN audit' : k \in DOMAIN audit \/ k = Len(audit')
      <3> DEFINE named == Diff(row.role, role)
      <3>1. Log("MEMBER_ROLE_CHANGED", row.id, named)
        BY <2>2
      <3>2. named \in Roles \cup {NoRole}
        BY <2>1 DEF Diff
      <3> HIDE DEF row, role, named
      <3>3. QED
        BY <2>5, <1>a, <3>1, <3>2, LogAppends
    <2> HIDE DEF row, role
    <2>7. \A n \in membership' : \E m \in membership : n.id = m.id /\ n.user = m.user
      BY <2>2, <2>3, <2>4, <1>c
    <2>8. \A m \in membership : \E n \in membership' : n.user = m.user
      BY <2>2, <2>3, <2>4, <1>c
    <2>9. HoldersMatch'
      BY <2>7, <1>d DEF HoldersMatch
    <2>10. LogIsDone'
      BY <2>2, <2>3, <2>6, <1>e
    <2>11. QED
      BY <2>6, <2>8, <2>9, <2>10, <1>a DEF MembersInv, LeaversAreLogged
  <1>3. ASSUME NEW r \in Reqs, RemoveMember(r), ~Refuse(r)
        PROVE  MembersInv' /\ LogGrows /\ LeaversAreLogged
    <2> DEFINE row == req[r].row
    <2>1. row \in Memberships
      BY <1>3, <1>a DEF RemoveMember, At, TypeOK
    <2>2. /\ membership' = membership \ Current(row)
          /\ Log("MEMBER_REMOVED", row.id, NoRole)
          /\ Current(row) # {}
      BY <1>3 DEF RemoveMember
    <2>3. Current(row) \subseteq membership /\ \A m \in Current(row) : m.id = row.id
      BY DEF Current
    <2>5. row.id \in RowIds /\ row.role \in Roles
      BY <2>1 DEF Memberships
    <2>6. /\ LogGrows /\ audit'[Len(audit')].target = row.id
          /\ audit'[Len(audit')].action = "MEMBER_REMOVED"
          /\ Len(audit') > Len(audit) /\ Len(audit') \in DOMAIN audit'
          /\ \A k \in DOMAIN audit' : k \in DOMAIN audit \/ k = Len(audit')
      <3>1. Log("MEMBER_REMOVED", row.id, NoRole)
        BY <2>2
      <3> DEFINE id == row.id
      <3> HIDE DEF id
      <3>2. id \in RowIds /\ Log("MEMBER_REMOVED", id, NoRole)
        BY <2>5, <3>1 DEF id
      <3>3. QED
        BY <1>a, <3>2, LogAppends DEF id
    <2> HIDE DEF row
    <2>7. HoldersMatch'
      BY <2>2, <1>d DEF HoldersMatch
    <2>8. LogIsDone'
      BY <2>2, <2>3, <2>6, <1>e
    <2>9. LeaversAreLogged
      BY <2>2, <2>3, <2>6 DEF LeaversAreLogged
    <2>10. QED
      BY <2>6, <2>7, <2>8, <2>9, <1>a DEF MembersInv
  <1>4. ASSUME NEW r \in Reqs, Join(r), ~Refuse(r)
        PROVE  MembersInv' /\ LogGrows /\ LeaversAreLogged
    <2> DEFINE job == req[r].job
               role == invitation[job.inv].role
    <2>1. req[r] \in Requests /\ req[r].phase = "commit" /\ job.op = "accept"
      BY <1>4, <1>a DEF Join, At, TypeOK, Unsent
    <2>2. job.inv \in Invitations /\ role \in Roles
      BY <2>1, <1>a DEF Requests, Jobs, TypeOK
    <2>3. /\ membership' = membership \cup {[id |-> r, user |-> job.user, role |-> role]}
          /\ Log("MEMBER_JOINED", r, NoRole) /\ Goto(r, "done")
      BY <1>4 DEF Join
    <2>4. req'[r].phase = "done" /\ req'[r].job = job
      BY <2>1, <2>3, <1>a, GotoKeepsForm DEF Phases
    <2>5. /\ LogGrows /\ audit'[Len(audit')].target = r
          /\ \A k \in DOMAIN audit' : k \in DOMAIN audit \/ k = Len(audit')
      <3>1. Log("MEMBER_JOINED", r, NoRole) /\ r \in RowIds
        BY <2>3 DEF RowIds
      <3>2. QED
        BY <1>a, <3>1, LogAppends
    <2>6. HoldersMatch'
      BY <2>3, <2>4, <1>d, OrgAssumption DEF HoldersMatch, Holder
    <2>7. LogIsDone'
      BY <2>4, <2>5, <1>b DEF MembersInv, LogIsDone, LogGrows
    <2>8. LeaversAreLogged
      BY <2>3 DEF LeaversAreLogged
    <2>9. QED
      BY <2>5, <2>6, <2>7, <2>8, <1>a DEF MembersInv
  <1>5. QED
    BY <1>1, <1>2, <1>3, <1>4, Writers

-------------------------------------------------------------------------------
\* The assignees

TwoRuns == {Older, Newer}

RunTypes ==
  /\ run \in [TwoRuns -> [cases : SUBSET Cases, assignees : SUBSET Users]]
  /\ ask \in Asks
  /\ checked \in [TwoRuns -> Nat] /\ \A x \in TwoRuns : checked[x] <= Len(audit)

\* A member, or somebody whose removal came after entry n of the log.
Explained(u, n) == u \in Members \/ RemovedSince(u, n)

\* The strengthening: it is true of a list from the check on, and until it is written
\* nobody is assigned.
RunInv ==
  /\ RunTypes
  /\ ask.phase = "write" => \A u \in ask.list.users : Explained(u, checked[ask.of])
  /\ ask.phase # "ended" => \A x \in TwoRuns : run[x].assignees = {}
  /\ \A x \in TwoRuns : \A u \in run[x].assignees : Explained(u, checked[x])

LEMMA InitRun == RunInit => MembersInv /\ RunInv
  <1> SUFFICES ASSUME RunInit PROVE MembersInv /\ RunInv
    OBVIOUS
  <1>1. MembersInv
    BY InitMembers DEF RunInit
  <1>2. Len(audit) \in Nat
    BY <1>1 DEF MembersInv, AdminInv, TypeOK
  <1>3. RunTypes
    BY <1>2 DEF RunInit, RunTypes, TwoRuns, NoRun, Asks
  <1>4. QED
    BY <1>1, <1>3 DEF RunInit, RunInv, NoRun, TwoRuns

\* A change of the members leaves everybody explained.
LEMMA StillExplained ==
  ASSUME MembersInv, [Next]_vars, NEW u, NEW n \in Nat, n <= Len(audit), Explained(u, n)
  PROVE  Explained(u, n)'
  <1>1. LogGrows /\ LeaversAreLogged /\ TypeOK /\ MembersInv'
    BY MembersStep DEF MembersInv, AdminInv
  <1>2. \A k \in DOMAIN audit' : k \in Nat /\ audit'[k].target \in RowIds
    <2>1. audit' \in Seq(Records)
      <3>1. TypeOK'
        BY <1>1 DEF MembersInv, AdminInv
      <3>2. QED
        BY <3>1 DEF TypeOK
    <2>2. \A k \in DOMAIN audit' : k \in Nat /\ audit'[k] \in Records
      BY <2>1
    <2>3. QED
      BY <2>2 DEF Records
  <1>3. CASE u \in Members
    <2>1. PICK m \in membership : m.user = u
      BY <1>3 DEF Members
    <2>2. CASE \E x \in membership' : x.user = m.user
      BY <2>1, <2>2 DEF Explained, Members
    <2>3. CASE \E k \in DOMAIN audit' : /\ k > Len(audit)
                                        /\ audit'[k].action = "MEMBER_REMOVED"
                                        /\ audit'[k].target = m.id
      <3>1. PICK k \in DOMAIN audit' : /\ k > Len(audit)
                                       /\ audit'[k].action = "MEMBER_REMOVED"
                                       /\ audit'[k].target = m.id
        BY <2>3
      <3>2. Holder(m.id)' = u
        <4>1. m.id \in Reqs => req[m.id].phase = "done" /\ req'[m.id] = req[m.id]
          BY <1>1, DoneStays DEF MembersInv, AdminInv, IdsAreKeys
        <4>2. Holder(m.id) = u /\ m.id \in RowIds
          BY <2>1, <1>1 DEF MembersInv, HoldersMatch, TypeOK, Memberships
        <4>3. QED
          BY <4>1, <4>2 DEF Holder, RowIds
      <3>3. k > n
        BY <1>1, <1>2, <3>1 DEF LogGrows
      <3>4. QED
        BY <3>1, <3>2, <3>3 DEF Explained, RemovedSince
    <2>4. QED
      BY <1>1, <2>1, <2>2, <2>3 DEF LeaversAreLogged
  <1>4. CASE RemovedSince(u, n)
    <2>1. PICK k \in DOMAIN audit : /\ k > n /\ audit[k].action = "MEMBER_REMOVED"
                                    /\ Holder(audit[k].target) = u
      BY <1>4 DEF RemovedSince
    <2>2. k \in DOMAIN audit' /\ audit'[k] = audit[k]
      BY <1>1 DEF LogGrows
    <2>3. audit[k].target \in RowIds
      BY <1>2, <2>2
    <2>4. audit[k].target \in Reqs => req'[audit[k].target] = req[audit[k].target]
      BY <1>1, DoneStays DEF MembersInv, LogIsDone
    <2>5. Holder(audit[k].target)' = u
      <3>1. audit'[k].target = audit[k].target
        BY <2>2
      <3>2. CASE audit[k].target = Founding
        BY <2>1, <3>1, <3>2 DEF Holder
      <3>3. CASE audit[k].target # Founding
        BY <2>1, <2>3, <2>4, <3>1, <3>3 DEF Holder, RowIds
      <3>4. QED
        BY <3>2, <3>3
    <2>6. RemovedSince(u, n)'
      <3>1. k > n /\ audit'[k].action = "MEMBER_REMOVED"
        BY <2>1, <2>2
      <3>2. QED
        BY <2>2, <2>5, <3>1 DEF RemovedSince
    <2>7. QED
      BY <2>6 DEF Explained
  <1>5. QED
    BY <1>3, <1>4 DEF Explained

\* The run's own steps leave members and log alone.
LEMMA SameExplained ==
  ASSUME UNCHANGED vars
  PROVE  \A u, n : Explained(u, n)' <=> Explained(u, n)
  BY DEF vars, Explained, Members, RemovedSince, Holder

LEMMA NextRun ==
  ASSUME MembersInv, RunInv, [MembersAndRunsNext]_<<vars, runVars>>
  PROVE  MembersInv' /\ RunInv'
  <1> USE DEF TwoRuns
  <1>1. ASSUME [Next]_vars, UNCHANGED runVars PROVE MembersInv' /\ RunInv'
    <2>1. MembersInv' /\ LogGrows
      BY <1>1, MembersStep
    <2>2. UNCHANGED <<run, ask, checked>>
      BY <1>1 DEF runVars
    <2>3. RunTypes'
      BY <2>1, <2>2 DEF RunInv, RunTypes, LogGrows
    <2>4. \A x \in TwoRuns : checked[x] \in Nat /\ checked[x] <= Len(audit)
      BY DEF RunInv, RunTypes
    <2>5. ASSUME NEW x \in TwoRuns, NEW u, Explained(u, checked[x])
          PROVE  Explained(u, checked[x])'
      BY <1>1, <2>2, <2>4, <2>5, StillExplained
    <2>6. ask.phase = "write" => ask.of \in TwoRuns
      BY DEF RunInv, RunTypes, Asks
    <2>7. QED
      BY <2>1, <2>2, <2>3, <2>5, <2>6 DEF RunInv
  <1>2. ASSUME RunNext, UNCHANGED vars PROVE RunInv'
    <2>1. \A u, n : Explained(u, n)' <=> Explained(u, n)
      BY <1>2, SameExplained
    <2>2. UNCHANGED <<membership, audit>> /\ Len(audit) \in Nat
      BY <1>2 DEF vars, MembersInv, AdminInv, TypeOK
    <2>3. ASSUME Refused PROVE RunInv'
      BY <2>1, <2>2, <2>3 DEF Refused, Finish, RunInv, RunTypes, Asks
    <2>4. ASSUME NEW x \in TwoRuns, NEW found \in SUBSET Cases, NEW list \in Lists,
                 ask.phase = "new", UNCHANGED <<run, checked>>,
                 ask' = [phase |-> After(list), of |-> x, cases |-> found, list |-> list]
          PROVE  RunInv'
      <3>1. ask' \in Asks
        BY <2>4 DEF Asks, After
      <3>2. ask'.phase = "write" => ask'.list.users = {}
        BY <2>4 DEF After
      <3>3. ask'.phase # "ended"
        BY <2>4 DEF After
      <3>4. QED
        BY <2>1, <2>2, <2>4, <3>1, <3>2, <3>3 DEF RunInv, RunTypes
    <2>5. ASSUME NEW list \in Lists, FindRun(list) PROVE RunInv'
      BY <2>4, <2>5 DEF FindRun
    <2>6. ASSUME NEW found \in SUBSET Cases, NEW list \in Lists, FindCases(found, list)
          PROVE  RunInv'
      BY <2>3, <2>4, <2>6 DEF FindCases
    <2>7. ASSUME CheckMembers PROVE RunInv'
      <3>1. CASE Refused
        BY <2>3, <3>1
      <3>2. CASE /\ AreMembers(ask.list.users)
                 /\ ask' = [ask EXCEPT !.phase = "write"]
                 /\ checked' = [checked EXCEPT ![ask.of] = Len(audit)]
                 /\ UNCHANGED run
        <4>1. /\ ask.phase = "members" /\ ask.of \in TwoRuns /\ ask.list \in Lists
              /\ ask.cases \in SUBSET Cases /\ ask \in Asks
          BY <2>7 DEF CheckMembers, RunInv, RunTypes, Asks
        <4>2. ask.list.users \subseteq Users
          BY <4>1 DEF Lists
        <4>3. ask.list.users \subseteq Members
          <5>1. IsFiniteSet(ask.list.users)
            BY <4>2, RunsAssumption, FS_Subset
          <5>2. ask.list.users \cap Members = ask.list.users
            BY <3>2, <5>1, FS_Subset DEF AreMembers
          <5>3. QED
            BY <5>2
        <4>4. /\ ask'.phase = "write" /\ ask'.of = ask.of /\ ask'.list = ask.list
              /\ ask' \in Asks
          BY <3>2, <4>1 DEF Asks
        <4>5. \A x \in TwoRuns : run'[x].assignees = {}
          BY <3>2, <4>1 DEF RunInv
        <4>6. RunTypes'
          <5>1. checked' \in [TwoRuns -> Nat] /\ \A x \in TwoRuns : checked'[x] <= Len(audit')
            BY <2>2, <3>2, <4>1 DEF RunInv, RunTypes
          <5>2. run' = run
            BY <3>2
          <5>3. QED
            BY <4>4, <5>1, <5>2 DEF RunInv, RunTypes
        <4>7. QED
          BY <2>1, <4>3, <4>4, <4>5, <4>6 DEF RunInv, Explained
      <3>3. QED
        BY <2>7, <3>1, <3>2 DEF CheckMembers
    \* The list is written as it was judged.
    <2>8. ASSUME NEW x \in TwoRuns, NEW cs \in SUBSET Cases, ask.phase = "write", ask.of = x,
                 Finish, UNCHANGED checked,
                 run' = [run EXCEPT ![x] = [cases |-> cs, assignees |-> ask.list.users]]
          PROVE  RunInv'
      <3>1. ask.list.users \subseteq Users
        BY <2>8 DEF RunInv, RunTypes, Asks, Lists
      <3>2. RunTypes'
        BY <2>2, <2>8, <3>1 DEF RunInv, RunTypes, Finish, Asks
      <3>3. ASSUME NEW y \in TwoRuns, NEW u \in run'[y].assignees
            PROVE  Explained(u, checked[y])
        BY <2>8, <3>3 DEF RunInv, RunTypes
      <3>4. QED
        BY <2>1, <2>8, <3>2, <3>3 DEF RunInv, Finish
    <2>9. ASSUME CreateRun PROVE RunInv'
      <3>1. ask.cases \in SUBSET Cases
        BY <2>9 DEF CreateRun, RunInv, RunTypes, Asks
      <3>2. QED
        BY <2>3, <2>8, <2>9, <3>1 DEF CreateRun
    <2>10. ASSUME ReplaceAssignees PROVE RunInv'
      <3>1. CASE ~KeyBroken
        <4>1. run[Older].cases \in SUBSET Cases
          BY DEF RunInv, RunTypes
        <4>2. [run[Older] EXCEPT !.assignees = ask.list.users]
                = [cases |-> run[Older].cases, assignees |-> ask.list.users]
          BY DEF RunInv, RunTypes
        <4>3. run' = [run EXCEPT ![Older] = [cases |-> run[Older].cases,
                                           assignees |-> ask.list.users]]
          BY <2>10, <3>1, <4>2 DEF ReplaceAssignees, RunInv, RunTypes
        <4>4. QED
          BY <2>8, <2>10, <3>1, <4>1, <4>3 DEF ReplaceAssignees
      <3>2. CASE KeyBroken
        BY <2>3, <2>10, <3>2 DEF ReplaceAssignees
      <3>3. QED
        BY <3>1, <3>2
    <2>11. QED
      BY <1>2, <2>5, <2>6, <2>7, <2>9, <2>10 DEF RunNext
  <1>3. ASSUME UNCHANGED vars PROVE MembersInv'
    BY <1>3, MembersStep
  <1>4. QED
    BY <1>1, <1>2, <1>3 DEF MembersAndRunsNext

\* However invitations, removals and lists race, nobody is on the list of a run who
\* was not a member when the list was judged (assertAssigneesAreMembers).
THEOREM AssigneesAlwaysWereMembers == MembersAndRunsSpec => []AssigneesWereMembers
  <1>1. ASSUME RunInv PROVE AssigneesWereMembers
    BY <1>1 DEF RunInv, Explained, AssigneesWereMembers, TwoRuns
  <1>2. QED
    BY InitRun, NextRun, <1>1, PTL DEF MembersAndRunsSpec

-------------------------------------------------------------------------------
\* The log tells the members

\* What a member request has read is its row as it is now, unless it is outdated.
RowsRead ==
  \A r \in Reqs \ outdated :
    req[r].phase \in {"count", "commit"} /\ req[r].job.op \in {"role", "remove"} =>
      req[r].row \in membership

\* A row that a request made came of an invitation that was made.
JoinsKept ==
  \A m \in membership : m.id \in Reqs =>
    LET i == req[m.id].job.inv IN i \in Invitations /\ invitation[i].status # "none"

RowsLogged ==
  \A id \in RowIds :
    (\E m \in membership : m.id = id) <=>
      /\ id = Founding \/ Logged("MEMBER_JOINED", id)
      /\ ~Logged("MEMBER_REMOVED", id)

LastChange(id, k) == k \in RoleChanges(id) /\ \A j \in RoleChanges(id) : j <= k

\* LoggedRole, said of a record that is there instead of a chosen one.
RoleTold(m) ==
  \/ RoleChanges(m.id) = {} /\ m.role = FirstRole(m.id)
  \/ \E k : LastChange(m.id, k) /\ audit[k].role = m.role

RolesTold == \A m \in membership : ~Overlapped(m.id) => RoleTold(m)

LogTells == RowsRead /\ JoinsKept /\ RowsLogged /\ RolesTold

LEMMA LastChangeIsChosen ==
  ASSUME TypeOK, NEW id, NEW k, LastChange(id, k)
  PROVE  /\ RoleChanges(id) # {}
         /\ k = CHOOSE i \in RoleChanges(id) : \A j \in RoleChanges(id) : j <= i
  <1>1. \A i, j \in DOMAIN audit : i <= j /\ j <= i => i = j
    BY DEF TypeOK
  <1>2. RoleChanges(id) \subseteq DOMAIN audit
    BY DEF RoleChanges
  <1>3. \A i \in RoleChanges(id) : (\A j \in RoleChanges(id) : j <= i) <=> i = k
    BY <1>1, <1>2 DEF LastChange
  <1>4. QED
    BY <1>3 DEF LastChange

LEMMA LogTellsMembers == TypeOK /\ LogTells => AuditTellsMembership
  <1> SUFFICES ASSUME TypeOK, LogTells PROVE AuditTellsMembership
    OBVIOUS
  <1>1. ASSUME NEW m \in membership, ~Overlapped(m.id) PROVE m.role = LoggedRole(m.id)
    <2>1. RoleTold(m)
      BY <1>1 DEF LogTells, RolesTold
    <2>2. CASE RoleChanges(m.id) = {} /\ m.role = FirstRole(m.id)
      BY <2>2 DEF LoggedRole
    <2>3. ASSUME NEW k, LastChange(m.id, k), audit[k].role = m.role
          PROVE  m.role = LoggedRole(m.id)
      <3>1. RoleChanges(m.id) # {}
            /\ k = CHOOSE i \in RoleChanges(m.id) : \A j \in RoleChanges(m.id) : j <= i
        BY <2>3, LastChangeIsChosen
      <3>2. QED
        BY <2>3, <3>1 DEF LoggedRole
    <2>4. QED
      BY <2>1, <2>2, <2>3 DEF RoleTold
  <1>2. QED
    BY <1>1 DEF AuditTellsMembership, LogTells, RowsLogged

\* A request that is over stays over, and outdated if it was.
LEMMA OverlapStays ==
  ASSUME TypeOK, [Next]_vars, outdated \subseteq outdated', NEW id, Overlapped(id)
  PROVE  Overlapped(id)'
  <1>1. PICK r \in outdated : At(r, "done", "role") /\ req[r].row.id = id
    BY DEF Overlapped
  <1>2. r \in Reqs /\ req[r].phase = "done"
    BY <1>1 DEF TypeOK, At
  <1>3. req'[r] = req[r]
    BY <1>2, DoneStays
  <1>4. QED
    BY <1>1, <1>3 DEF Overlapped, At

LEMMA OutdatedGrows == ASSUME [Next]_vars PROVE outdated \subseteq outdated'
  BY DEF Next, Serve, ServeMembers, ServeInvitations, ServeAccept, vars, dbVars, Receive,
         FindMember, CountAdmins, FindRevoked, Revoke, FindInvitation, CheckNotMember,
         Refuse, Read, Invite, Expire, ChangeRole, RemoveMember, Join, Committed

\* What has become of the invitations.
InvitationsStay ==
  \A i \in Invitations : invitation[i].status # "none" =>
    invitation'[i].status # "none" /\ invitation'[i].role = invitation[i].role

LEMMA InvitationsKept == ASSUME TypeOK, [Next]_vars PROVE InvitationsStay
  <1>1. ASSUME NEW r \in Reqs, Revoke(r) PROVE InvitationsStay
    BY <1>1 DEF Revoke, TypeOK, InvitationsStay
  <1>2. ASSUME NEW r \in Reqs, Join(r) PROVE InvitationsStay
    BY <1>2 DEF Join, Refuse, dbVars, TypeOK, InvitationsStay
  <1>3. ASSUME NEW i \in Invitations, Expire(i) PROVE InvitationsStay
    BY <1>3 DEF Expire, TypeOK, InvitationsStay
  <1>4. ASSUME NEW i \in Invitations, NEW email \in Users, NEW role \in Roles,
               Invite(i, email, role)
        PROVE  InvitationsStay
    BY <1>4 DEF Invite, TypeOK, InvitationsStay
  <1>5. ASSUME UNCHANGED invitation PROVE InvitationsStay
    BY <1>5 DEF InvitationsStay
  <1>6. QED
    BY <1>1, <1>2, <1>3, <1>4, <1>5
    DEF Next, Serve, ServeMembers, ServeInvitations, ServeAccept, vars, dbVars, Receive,
        FindMember, CountAdmins, FindRevoked, FindInvitation, CheckNotMember, Refuse, Read,
        ChangeRole, RemoveMember

\* The first role of a row that is there.
LEMMA FirstRoleStays ==
  ASSUME MembersInv, JoinsKept, [Next]_vars, NEW m \in membership
  PROVE  FirstRole(m.id)' = FirstRole(m.id)
         /\ (m.id \in Reqs => /\ req'[m.id] = req[m.id]
                              /\ invitation'[req[m.id].job.inv].status # "none")
  <1>1. TypeOK /\ m.id \in RowIds /\ (m.id \in Reqs => req[m.id].phase = "done")
    BY DEF MembersInv, AdminInv, TypeOK, Memberships, IdsAreKeys
  <1>2. m.id \in Reqs => req'[m.id] = req[m.id]
    BY <1>1, DoneStays
  <1>3. InvitationsStay
    BY <1>1, InvitationsKept
  <1>4. QED
    BY <1>1, <1>2, <1>3 DEF JoinsKept, InvitationsStay, FirstRole, RowIds

\* The commit of a member request makes every reading of another outdated.
LEMMA RowsReadWrite ==
  ASSUME TypeOK, NEW r \in Reqs, req[r].phase = "commit", Goto(r, "done"),
         Committed(r, Reading({"role", "remove"}))
  PROVE  RowsRead'
  <1>1. req'[r].phase = "done" /\ \A s \in Reqs \ {r} : req'[s] = req[s]
    BY GotoKeepsForm DEF Phases
  <1>2. ASSUME NEW s \in Reqs \ outdated', req'[s].phase \in {"count", "commit"},
               req'[s].job.op \in {"role", "remove"}
        PROVE  FALSE
    <2>1. s # r /\ req'[s] = req[s]
      BY <1>1, <1>2
    <2>2. req[s] # Unsent
      BY <1>2, <2>1 DEF Unsent
    <2>3. s \in Reading({"role", "remove"})
      BY <1>2, <2>1, <2>2 DEF Reading
    <2>4. QED
      BY <1>2, <2>1, <2>3 DEF Committed
  <1>3. QED
    BY <1>2 DEF RowsRead

\* A request that only goes on, or reads its row.
LEMMA RowsReadStay ==
  ASSUME MembersInv, RowsRead, [Next]_vars, membership \subseteq membership'
  PROVE  RowsRead'
  <1>0. TypeOK /\ outdated \subseteq outdated'
    BY OutdatedGrows DEF MembersInv, AdminInv
  <1>1. SUFFICES ASSUME NEW s \in Reqs \ outdated', req'[s].phase \in {"count", "commit"},
                        req'[s].job.op \in {"role", "remove"}
                 PROVE  req'[s].row \in membership'
    BY DEF RowsRead
  <1>2. s \in Reqs /\ s \notin outdated
    BY <1>0, <1>1
  <1>3. CASE req'[s] = req[s]
    BY <1>1, <1>2, <1>3 DEF RowsRead
  <1>4. ASSUME NEW p \in Phases, Goto(s, p), req[s].phase \notin {"unsent", "find"}
        PROVE  req'[s].row \in membership'
    <2>1. req'[s].job = req[s].job /\ req'[s].row = req[s].row /\ req'[s].phase = p
      BY <1>0, <1>2, <1>4, GotoKeepsForm
    <2>2. req[s] \in Requests
      BY <1>0, <1>2, <1>4, RequestForms
    <2>3. CASE req[s].phase \in {"count", "commit"}
      BY <1>1, <1>2, <2>1, <2>3 DEF RowsRead
    <2>4. CASE req[s].phase = "exists"
      BY <1>0, <1>1, <1>2, <2>1, <2>4 DEF TypeOK
    <2>5. CASE req[s].phase = "done"
      BY <1>0, <1>1, <1>2, <2>5, DoneStays
    <2>6. QED
      BY <1>4, <2>2, <2>3, <2>4, <2>5 DEF Requests, Phases
  <1>5. ASSUME NEW r \in Reqs, NEW job \in Jobs, Receive(r, job) PROVE req'[s].row \in membership'
    <2>1. s # r => req'[s] = req[s]
      BY <1>0, <1>2, <1>5 DEF Receive, TypeOK
    <2>2. s = r => req'[s].phase = "find"
      BY <1>0, <1>2, <1>5 DEF Receive, TypeOK
    <2>3. QED
      BY <1>1, <1>3, <2>1, <2>2
  <1>6. ASSUME NEW r \in Reqs, Serve(r) PROVE req'[s].row \in membership'
    <2>1. CASE s # r
      <3>1. (\E phase : Goto(r, phase)) \/ (\E row : Read(r, row))
        BY <1>6 DEF Serve, ServeMembers, ServeInvitations, ServeAccept, FindMember,
                    CountAdmins, ChangeRole, RemoveMember, FindRevoked, Revoke,
                    FindInvitation, CheckNotMember, Join, Refuse
      <3>2. req'[s] = req[s]
        BY <1>0, <1>2, <2>1, <3>1 DEF Goto, Read, TypeOK
      <3>3. QED
        BY <1>3, <3>2
    <2>2. CASE s = r /\ req[r].phase = "find"
      <3>1. ASSUME NEW p \in {"done", "commit", "exists"}, Goto(r, p),
                   p = "done" \/ req[r].job.op \in {"revoke", "accept"}
            PROVE  FALSE
        <4>1. req'[r].phase = p /\ req'[r].job = req[r].job
          BY <1>0, <2>2, <3>1, GotoKeepsForm DEF Phases
        <4>2. QED
          BY <1>1, <2>2, <3>1, <4>1
      <3>2. ASSUME NEW row \in membership, Read(r, row) PROVE req'[s].row \in membership'
        <4>1. req'[r].row = row
          BY <1>0, <2>2, <3>2, ReadKeepsForm DEF TypeOK
        <4>2. QED
          BY <2>2, <3>2, <4>1
      <3>3. \/ \E row \in membership : Read(r, row)
            \/ \E p \in {"done", "commit", "exists"} :
                 Goto(r, p) /\ (p = "done" \/ req[r].job.op \in {"revoke", "accept"})
        BY <1>6, <2>2 DEF Serve, ServeMembers, ServeInvitations, ServeAccept, FindMember,
                          CountAdmins, ChangeRole, RemoveMember, FindRevoked, Revoke, RowOf,
                          FindInvitation, CheckNotMember, Join, Refuse, At
      <3>4. QED
        BY <3>1, <3>2, <3>3
    <2>3. CASE s = r /\ req[r].phase # "find"
      <3>1. req[r].phase # "unsent" /\ \E p \in Phases : Goto(r, p)
        BY <1>6, <2>3 DEF Serve, ServeMembers, ServeInvitations, ServeAccept, FindMember,
                          CountAdmins, ChangeRole, RemoveMember, FindRevoked, Revoke,
                          FindInvitation, CheckNotMember, Join, Refuse, At, Phases
      <3>2. QED
        BY <1>4, <2>3, <3>1
    <2>4. QED
      BY <2>1, <2>2, <2>3
  <1>7. QED
    BY <1>3, <1>5, <1>6 DEF Next, Invite, Expire, vars

\* One more record.
LEMMA OneMore ==
  ASSUME TypeOK, NEW id \in RowIds, NEW role \in Roles \cup {NoRole},
         NEW action \in {"MEMBER_JOINED", "MEMBER_ROLE_CHANGED", "MEMBER_REMOVED"},
         Log(action, id, role), NEW last, last = Len(audit) + 1
  PROVE  /\ \A x, a : Logged(a, x)' <=> Logged(a, x) \/ (a = action /\ x = id)
         /\ \A x : x # id \/ role = NoRole => RoleChanges(x)' = RoleChanges(x)
         /\ role # NoRole => LastChange(id, last)'
         /\ \A k \in DOMAIN audit : audit'[k] = audit[k]
         /\ audit'[last].role = role
  <1> DEFINE e == [action |-> action, target |-> id, role |-> role]
  <1>1. audit \in Seq(Records) /\ e \in Records /\ audit' = Append(audit, e)
    BY DEF TypeOK, Log, Records
  <1>2. /\ DOMAIN audit' = DOMAIN audit \cup {last} /\ last \notin DOMAIN audit
        /\ \A k \in DOMAIN audit : audit'[k] = audit[k] /\ k <= last
        /\ audit'[last] = e /\ last <= last
    BY <1>1
  <1>3. e.action = action /\ e.target = id /\ e.role = role
    OBVIOUS
  <1> HIDE DEF e
  <1>4. \A x, a : Logged(a, x)' <=> Logged(a, x) \/ (a = action /\ x = id)
    BY <1>2, <1>3 DEF Logged
  <1>5. \A x : RoleChanges(x)' = IF x = id /\ role # NoRole THEN RoleChanges(x) \cup {last}
                                 ELSE RoleChanges(x)
    BY <1>2, <1>3 DEF RoleChanges
  <1>6. RoleChanges(id) \subseteq DOMAIN audit
    BY DEF RoleChanges
  <1>7. ASSUME role # NoRole PROVE LastChange(id, last)'
    <2>1. last \in RoleChanges(id)'
      BY <1>5, <1>7
    <2>2. \A j \in RoleChanges(id)' : j <= last
      BY <1>2, <1>5, <1>6, <1>7
    <2>3. QED
      BY <2>1, <2>2 DEF LastChange
  <1>8. QED
    BY <1>2, <1>3, <1>4, <1>5, <1>7

\* A row of which nothing new is said.
LEMMA RoleStillTold ==
  ASSUME TypeOK, NEW m, NEW n, RoleTold(m), n.id = m.id, n.role = m.role,
         RoleChanges(m.id)' = RoleChanges(m.id), FirstRole(m.id)' = FirstRole(m.id),
         \A k \in DOMAIN audit : audit'[k] = audit[k]
  PROVE  \/ RoleChanges(n.id)' = {} /\ n.role = FirstRole(n.id)'
         \/ \E k : LastChange(n.id, k)' /\ audit'[k].role = n.role
  <1>1. CASE RoleChanges(m.id) = {} /\ m.role = FirstRole(m.id)
    BY <1>1
  <1>2. ASSUME NEW k, LastChange(m.id, k), audit[k].role = m.role
        PROVE  \E j : LastChange(n.id, j)' /\ audit'[j].role = n.role
    <2>1. k \in DOMAIN audit
      BY <1>2 DEF LastChange, RoleChanges
    <2>2. LastChange(n.id, k)' /\ audit'[k].role = n.role
      BY <1>2, <2>1 DEF LastChange
    <2>3. QED
      BY <2>2
  <1>3. QED
    BY <1>1, <1>2 DEF RoleTold

LEMMA LogTellsInit == Init => LogTells
  <1> SUFFICES ASSUME Init PROVE LogTells
    OBVIOUS
  <1>1. audit = <<>> /\ \A r \in Reqs : req[r].phase = "unsent"
    BY DEF Init, Unsent
  <1>2. membership = {[id |-> Founding, user |-> Founder, role |-> "ADMIN"]}
    BY DEF Init
  <1>3. DOMAIN audit = {}
    BY <1>1
  <1>4. \A x, a : ~Logged(a, x) /\ RoleChanges(x) = {}
    BY <1>3 DEF Logged, RoleChanges
  <1>5. \A m \in membership : m.id = Founding /\ m.role = "ADMIN"
    BY <1>2
  <1>6. RowsRead /\ JoinsKept
    BY <1>1, <1>5, OrgAssumption DEF RowsRead, JoinsKept
  <1>7. RowsLogged
    BY <1>2, <1>4, <1>5 DEF RowsLogged
  <1>8. RolesTold
    BY <1>4, <1>5 DEF RolesTold, RoleTold, FirstRole
  <1>9. QED
    BY <1>6, <1>7, <1>8 DEF LogTells

LEMMA LogTellsNext ==
  ASSUME MembersInv, LogTells, [Next]_vars
  PROVE  LogTells'
  <1>a. TypeOK /\ IdsAreKeys /\ membership \subseteq Memberships
    BY DEF MembersInv, AdminInv, TypeOK
  <1>b. /\ \A id : Overlapped(id) => Overlapped(id)'
        /\ \A m \in membership : FirstRole(m.id)' = FirstRole(m.id)
    BY <1>a, OverlapStays, OutdatedGrows, FirstRoleStays DEF LogTells
  <1>c. ASSUME NEW n \in membership', NEW m \in membership, n.id = m.id PROVE
          n.id \in Reqs => LET i == req'[n.id].job.inv IN
                             i \in Invitations /\ invitation'[i].status # "none"
    BY <1>c, FirstRoleStays DEF LogTells, JoinsKept
  <1>1. CASE UNCHANGED <<membership, audit>>
    <2>1. RowsRead'
      BY <1>1, RowsReadStay DEF LogTells
    <2>2. JoinsKept'
      BY <1>1, <1>c DEF JoinsKept
    <2>3. RowsLogged'
      BY <1>1 DEF LogTells, RowsLogged, Logged
    <2>4. ASSUME NEW m \in membership', ~Overlapped(m.id)' PROVE RoleTold(m)'
      <3>1. m \in membership /\ RoleTold(m)
        BY <1>1, <1>b, <2>4 DEF LogTells, RolesTold
      <3>2. RoleChanges(m.id)' = RoleChanges(m.id)
        BY <1>1 DEF RoleChanges
      <3>3. QED
        BY <1>1, <1>a, <1>b, <3>1, <3>2, RoleStillTold DEF RoleTold
    <2>5. QED
      BY <2>1, <2>2, <2>3, <2>4 DEF LogTells, RolesTold
  <1>2. ASSUME NEW r \in Reqs, ChangeRole(r), ~Refuse(r) PROVE LogTells'
    <2>p. PICK row, role, named, id : /\ row = req[r].row /\ role = req[r].job.role
                                      /\ named = Diff(row.role, role) /\ id = row.id
      OBVIOUS
    <2>q. PICK last : last = Len(audit) + 1
      OBVIOUS
    <2>1. id \in RowIds /\ role \in Roles /\ row.role \in Roles /\ row \in Memberships
          /\ req[r].phase = "commit" /\ req[r].job.op = "role"
      <3>1. req[r] \in Requests /\ req[r].phase = "commit" /\ req[r].job.op = "role"
        BY <1>2, <1>a DEF ChangeRole, At, TypeOK, Unsent
      <3>2. QED
        BY <1>a, <2>p, <3>1 DEF TypeOK, Requests, Jobs, Memberships
    <2>2. /\ membership' = (membership \ Current(row))
                              \cup {[m EXCEPT !.role = role] : m \in Current(row)}
          /\ Log("MEMBER_ROLE_CHANGED", id, named)
          /\ Current(row) # {} /\ Goto(r, "done")
          /\ Committed(r, Reading({"role", "remove"}))
      BY <1>2, <2>p DEF ChangeRole
    <2>3. \A m \in membership : m \in Current(row) <=> m.id = id
      BY <2>p DEF Current
    <2>4. \A m \in Memberships : [m EXCEPT !.role = role].role = role
                              /\ [m EXCEPT !.role = role].id = m.id
      BY DEF Memberships
    <2>5. Current(row) \subseteq membership
      BY DEF Current
    <2>6. \A n \in membership' : \/ n.id # id /\ n \in membership
                                 \/ /\ n.id = id /\ n.role = role
                                    /\ \E m \in membership : m.id = id
      BY <1>a, <2>2, <2>3, <2>4, <2>5
    <2>7. \A m \in membership : \E n \in membership' : n.id = m.id
      BY <1>a, <2>2, <2>3, <2>4
    <2>8. named \in Roles \cup {NoRole} /\ (named = NoRole => row.role = role)
          /\ (named # NoRole => named = role)
      BY <2>p, <2>1, NoRoleAssumption DEF Diff
    <2>9. req'[r].phase = "done" /\ req'[r].job = req[r].job /\ req'[r].row = row
      BY <1>a, <2>p, <2>1, <2>2, GotoKeepsForm DEF Phases
    <2>10. r \in outdated => Overlapped(id)'
      BY <2>p, <2>1, <2>2, <2>9 DEF Committed, Overlapped, At
    <2>11. r \notin outdated => row \in membership
      BY <2>p, <2>1 DEF LogTells, RowsRead
    <2>12. RowsRead'
      BY <1>a, <2>1, <2>2, RowsReadWrite
    <2>13. JoinsKept'
      <3>1. SUFFICES ASSUME NEW n \in membership', n.id \in Reqs
                     PROVE  LET i == req'[n.id].job.inv IN
                              i \in Invitations /\ invitation'[i].status # "none"
        BY DEF JoinsKept
      <3>2. PICK m \in membership : n.id = m.id
        BY <2>6
      <3>3. QED
        BY <1>c, <3>1, <3>2
    <2>14. /\ \A x, a : Logged(a, x)' <=>
                Logged(a, x) \/ (a = "MEMBER_ROLE_CHANGED" /\ x = id)
           /\ \A x : x # id \/ named = NoRole => RoleChanges(x)' = RoleChanges(x)
           /\ named # NoRole => LastChange(id, last)'
           /\ \A k \in DOMAIN audit : audit'[k] = audit[k]
           /\ audit'[last].role = named
      BY <1>a, <2>q, <2>1, <2>2, <2>8, OneMore
    <2>15. RowsLogged'
      <3>1. \A x \in RowIds : (\E n \in membership' : n.id = x) <=> \E m \in membership : m.id = x
        BY <2>6, <2>7
      <3>2. QED
        BY <2>14, <3>1 DEF LogTells, RowsLogged
    <2>16. ASSUME NEW n \in membership', ~Overlapped(n.id)' PROVE RoleTold(n)'
      <3>1. CASE n.id # id
        <4>1. n \in membership /\ RoleTold(n)
          BY <1>b, <2>6, <2>16, <3>1 DEF LogTells, RolesTold
        <4>2. QED
          BY <1>a, <1>b, <2>14, <3>1, <4>1, RoleStillTold DEF RoleTold
      <3>2. CASE n.id = id
        <4>1. row \in membership /\ row.id = id
          BY <2>p, <2>10, <2>11, <2>16, <3>2
        <4>2. RoleTold(row)
          BY <1>b, <2>16, <3>2, <4>1 DEF LogTells, RolesTold
        <4>3. n.role = role
          BY <2>6, <3>2
        <4>4. CASE named = NoRole
          <5>1. RoleChanges(id)' = RoleChanges(id) /\ FirstRole(id)' = FirstRole(id)
            BY <1>b, <2>14, <4>1, <4>4
          <5>2. n.id = row.id /\ n.role = row.role
            BY <2>8, <3>2, <4>1, <4>3, <4>4
          <5>3. \/ RoleChanges(n.id)' = {} /\ n.role = FirstRole(n.id)'
                \/ \E k : LastChange(n.id, k)' /\ audit'[k].role = n.role
            BY <1>a, <2>14, <4>1, <4>2, <5>1, <5>2, RoleStillTold
          <5>4. QED
            BY <5>3 DEF RoleTold
        <4>5. CASE named # NoRole
          <5>1. LastChange(n.id, last)' /\ audit'[last].role = n.role
            BY <2>8, <2>14, <3>2, <4>3, <4>5
          <5>2. QED
            BY <5>1 DEF RoleTold
        <4>6. QED
          BY <4>4, <4>5
      <3>3. QED
        BY <3>1, <3>2
    <2>17. QED
      BY <2>12, <2>13, <2>15, <2>16 DEF LogTells, RolesTold
  <1>3. ASSUME NEW r \in Reqs, RemoveMember(r), ~Refuse(r) PROVE LogTells'
    <2> DEFINE row == req[r].row
               id == row.id
    <2>1. id \in RowIds /\ req[r].phase = "commit"
      BY <1>3, <1>a DEF RemoveMember, At, TypeOK, Memberships
    <2>2. /\ membership' = membership \ Current(row)
          /\ Log("MEMBER_REMOVED", id, NoRole) /\ Goto(r, "done")
          /\ Committed(r, Reading({"role", "remove"}))
      BY <1>3 DEF RemoveMember
    <2>3. \A m \in membership : m \in membership' <=> m.id # id
      BY <2>2 DEF Current
    <2>4. membership' \subseteq membership
      BY <2>2
    <2> HIDE DEF row, id
    <2>5. RowsRead' /\ JoinsKept'
      BY <1>a, <1>c, <2>1, <2>2, <2>4, RowsReadWrite DEF JoinsKept
    <2>6. /\ \A x, a : Logged(a, x)' <=> Logged(a, x) \/ (a = "MEMBER_REMOVED" /\ x = id)
          /\ \A x : RoleChanges(x)' = RoleChanges(x)
          /\ \A k \in DOMAIN audit : audit'[k] = audit[k]
      <3>1. PICK last : last = Len(audit) + 1
        OBVIOUS
      <3>2. QED
        BY <1>a, <2>1, <2>2, <3>1, OneMore
    <2>7. RowsLogged'
      BY <2>3, <2>4, <2>6 DEF LogTells, RowsLogged
    <2>8. ASSUME NEW n \in membership', ~Overlapped(n.id)' PROVE RoleTold(n)'
      <3>1. n \in membership /\ RoleTold(n)
        BY <1>b, <2>4, <2>8 DEF LogTells, RolesTold
      <3>2. QED
        BY <1>a, <1>b, <2>6, <3>1, RoleStillTold DEF RoleTold
    <2>9. QED
      BY <2>5, <2>7, <2>8 DEF LogTells, RolesTold
  <1>4. ASSUME NEW r \in Reqs, Join(r), ~Refuse(r) PROVE LogTells'
    <2> DEFINE job == req[r].job
               role == invitation[job.inv].role
               new == [id |-> r, user |-> job.user, role |-> role]
    <2>1. req[r] \in Requests /\ req[r].phase = "commit" /\ job.op = "accept"
      BY <1>4, <1>a DEF Join, At, TypeOK, Unsent
    <2>2. job.inv \in Invitations /\ role \in Roles /\ r \in RowIds /\ r # Founding
      BY <2>1, <1>a, OrgAssumption DEF Requests, Jobs, TypeOK, RowIds
    <2>3. /\ membership' = membership \cup {new} /\ Log("MEMBER_JOINED", r, NoRole)
          /\ invitation' = [invitation EXCEPT ![job.inv].status = "ACCEPTED"]
          /\ Goto(r, "done")
      BY <1>4 DEF Join
    <2>4. new.id = r /\ new.role = role
      OBVIOUS
    <2>5. \A m \in membership : m.id # r
      BY <1>a, <2>1 DEF IdsAreKeys
    <2>6. req'[r].job = job
      BY <1>a, <2>1, <2>3, GotoKeepsForm DEF Phases
    <2>7. invitation'[job.inv].status # "none" /\ invitation'[job.inv].role = role
      BY <1>a, <2>2, <2>3 DEF TypeOK
    <2>8. FirstRole(r)' = role
      BY <2>2, <2>6, <2>7 DEF FirstRole
    <2>9. \A k \in DOMAIN audit : audit[k].target # r
      BY <2>1 DEF MembersInv, LogIsDone
    <2>10. RoleChanges(r) = {} /\ ~Logged("MEMBER_REMOVED", r)
      BY <2>9 DEF RoleChanges, Logged
    <2> HIDE DEF role, new
    <2>11. RowsRead'
      BY <2>3, RowsReadStay DEF LogTells
    <2>12. JoinsKept'
      BY <1>c, <2>2, <2>3, <2>4, <2>6, <2>7 DEF JoinsKept
    <2>13. /\ \A x, a : Logged(a, x)' <=> Logged(a, x) \/ (a = "MEMBER_JOINED" /\ x = r)
           /\ \A x : RoleChanges(x)' = RoleChanges(x)
           /\ \A k \in DOMAIN audit : audit'[k] = audit[k]
      <3>1. PICK last : last = Len(audit) + 1
        OBVIOUS
      <3>2. QED
        BY <1>a, <2>2, <2>3, <3>1, OneMore
    <2>14. RowsLogged'
      <3>1. \A x \in RowIds : (\E n \in membership' : n.id = x) <=>
              x = r \/ \E m \in membership : m.id = x
        BY <2>3, <2>4
      <3>2. QED
        BY <2>10, <2>13, <3>1 DEF LogTells, RowsLogged
    <2>15. ASSUME NEW n \in membership', ~Overlapped(n.id)' PROVE RoleTold(n)'
      <3>1. CASE n \in membership
        <4>1. RoleTold(n)
          BY <1>b, <2>15, <3>1 DEF LogTells, RolesTold
        <4>2. QED
          BY <1>a, <1>b, <2>13, <3>1, <4>1, RoleStillTold DEF RoleTold
      <3>2. CASE n = new
        BY <2>4, <2>8, <2>10, <2>13, <3>2 DEF RoleTold
      <3>3. QED
        BY <2>3, <3>1, <3>2
    <2>16. QED
      BY <2>11, <2>12, <2>14, <2>15 DEF LogTells, RolesTold
  <1>5. QED
    BY <1>1, <1>2, <1>3, <1>4, Writers

\* Whatever requests race, the log tells who is a member (InvitationsService.accept and
\* MembersService.remove record in the transaction that writes the row), and in which
\* role, unless a change of that member's role overlapped another request: updateRole
\* logs the difference from the role it read.
THEOREM LogAlwaysTells == Spec => []AuditTellsMembership
  <1>1. Init => MembersInv /\ LogTells
    BY InitMembers, LogTellsInit
  <1>2. MembersInv /\ LogTells /\ [Next]_vars => (MembersInv /\ LogTells)'
    BY MembersStep, LogTellsNext
  <1>3. MembersInv /\ LogTells => AuditTellsMembership
    BY LogTellsMembers DEF MembersInv, AdminInv
  <1>4. QED
    BY <1>1, <1>2, <1>3, PTL DEF Spec

-------------------------------------------------------------------------------
\* An invitation admits once

AdmitsOnce(i) ==
  /\ \A r, s \in JoinedBy(i) : r = s
  /\ invitation[i].status = "ACCEPTED" <=> JoinedBy(i) # {}

\* What a request has read of its invitation is still true.
StillPending(r) ==
  req[r].phase \in {"exists", "commit"} /\ req[r].job.op \in {"revoke", "accept"} =>
    invitation[req[r].job.inv].status = "PENDING"

InvitationInv ==
  ~raced => /\ \A i \in Invitations : AdmitsOnce(i)
            /\ \A r \in Reqs \ outdated : StillPending(r)

\* Who has joined changes with an entry that says so, and with nothing else.
LEMMA JoinedStays ==
  ASSUME MembersInv, [Next]_vars, LogGrows, NEW i,
         \A k \in DOMAIN audit' : k \in DOMAIN audit \/ audit'[k].action # "MEMBER_JOINED"
  PROVE  JoinedBy(i)' = JoinedBy(i)
  <1>1. \A s \in Reqs : req[s].phase = "done" => req'[s] = req[s]
    BY DoneStays DEF MembersInv, AdminInv
  <1>2. QED
    BY <1>1 DEF JoinedBy, LogGrows, MembersInv, LogIsDone

LEMMA JoinedGrows ==
  ASSUME MembersInv, [Next]_vars, LogGrows, NEW i, NEW r \in Reqs, NEW last \in DOMAIN audit',
         audit'[last].action = "MEMBER_JOINED", audit'[last].target = r,
         \A k \in DOMAIN audit' : k \in DOMAIN audit \/ k = last,
         req'[r].job = req[r].job
  PROVE  JoinedBy(i)' = IF req[r].job.inv = i THEN JoinedBy(i) \cup {r} ELSE JoinedBy(i)
  <1>1. \A s \in Reqs : req[s].phase = "done" => req'[s] = req[s]
    BY DoneStays DEF MembersInv, AdminInv
  <1>2. \A k \in DOMAIN audit : audit[k].target \in Reqs =>
          req'[audit[k].target] = req[audit[k].target]
    BY <1>1 DEF MembersInv, LogIsDone
  <1>3. \A s \in Reqs : s \in JoinedBy(i)' <=>
          s \in JoinedBy(i) \/ (s = r /\ req[r].job.inv = i)
    BY <1>2 DEF JoinedBy, LogGrows
  <1>4. JoinedBy(i)' \subseteq Reqs /\ JoinedBy(i) \subseteq Reqs
    BY DEF JoinedBy
  <1>5. QED
    BY <1>3, <1>4

\* A step of r that writes neither invitations nor the log.
LEMMA InvitationFrame ==
  ASSUME MembersInv, InvitationInv, [Next]_vars, NEW r \in Reqs,
         UNCHANGED <<invitation, audit>>, ~raced' => ~raced, outdated \subseteq outdated',
         \A s \in Reqs \ {r} : req'[s] = req[s],
         ~raced /\ r \notin outdated => StillPending(r)'
  PROVE  InvitationInv'
  <1>1. \A i \in Invitations : JoinedBy(i)' = JoinedBy(i)
    BY JoinedStays, MembersStep
  <1>2. ASSUME ~raced' PROVE \A i \in Invitations : AdmitsOnce(i)'
    BY <1>1, <1>2 DEF InvitationInv, AdmitsOnce
  <1>3. ASSUME ~raced', NEW s \in Reqs \ outdated' PROVE StillPending(s)'
    <2>1. CASE s = r
      BY <1>3, <2>1
    <2>2. CASE s # r
      BY <1>3, <2>2 DEF InvitationInv, StillPending
    <2>3. QED
      BY <2>1, <2>2
  <1>4. QED
    BY <1>2, <1>3 DEF InvitationInv

LEMMA GotoKeepsInvitations ==
  ASSUME MembersInv, InvitationInv, [Next]_vars, NEW r \in Reqs, NEW p \in Phases,
         req[r].phase # "unsent", Goto(r, p), UNCHANGED <<dbVars, outdated, raced>>,
         p \in {"exists", "commit"} /\ req[r].job.op \in {"revoke", "accept"} =>
           \/ invitation[req[r].job.inv].status = "PENDING"
           \/ req[r].phase = "exists"
  PROVE  InvitationInv'
  <1>1. /\ req'[r].phase = p /\ req'[r].job = req[r].job
        /\ \A s \in Reqs \ {r} : req'[s] = req[s]
    BY GotoKeepsForm DEF MembersInv, AdminInv
  <1>2. ASSUME ~raced, r \notin outdated PROVE StillPending(r)'
    BY <1>1, <1>2 DEF InvitationInv, StillPending, dbVars
  <1>3. QED
    BY <1>1, <1>2, InvitationFrame DEF dbVars

LEMMA RefuseKeepsInvitations ==
  ASSUME MembersInv, InvitationInv, [Next]_vars, NEW r \in Reqs,
         req[r].phase # "unsent", Refuse(r)
  PROVE  InvitationInv'
  BY GotoKeepsInvitations DEF Refuse, Phases

LEMMA InvitationStep ==
  ASSUME MembersInv, InvitationInv, [Next]_vars
  PROVE  InvitationInv'
  <1>a. TypeOK /\ IdsAreKeys /\ LogGrows
    BY MembersStep DEF MembersInv, AdminInv
  <1>b. {"find", "count", "exists", "commit", "done"} = Phases
    BY DEF Phases
  \* A commit about members tells of nobody who joined.
  <1>c. ASSUME NEW r \in Reqs, NEW id \in RowIds, NEW role \in Roles \cup {NoRole},
               NEW action \in {"MEMBER_ROLE_CHANGED", "MEMBER_REMOVED"},
               Log(action, id, role), UNCHANGED invitation, NEW rs, Committed(r, rs),
               req[r].phase = "commit", Goto(r, "done")
        PROVE  InvitationInv'
    <2>1. \A k \in DOMAIN audit' : k \in DOMAIN audit \/ audit'[k].action # "MEMBER_JOINED"
      BY <1>a, <1>c, LogAppends
    <2>2. \A i \in Invitations : JoinedBy(i)' = JoinedBy(i)
      BY <1>a, <2>1, JoinedStays
    <2>3. req'[r].phase = "done" /\ \A s \in Reqs \ {r} : req'[s] = req[s]
      BY <1>a, <1>b, <1>c, GotoKeepsForm
    <2>4. (~raced' => ~raced) /\ outdated \subseteq outdated'
      BY <1>c DEF Committed
    <2>5. QED
      BY <1>c, <2>2, <2>3, <2>4 DEF InvitationInv, AdmitsOnce, StillPending
  <1>1. ASSUME NEW r \in Reqs, NEW job \in Jobs, Receive(r, job) PROVE InvitationInv'
    <2>1. req'[r].phase = "find" /\ \A s \in Reqs \ {r} : req'[s] = req[s]
      BY <1>a, <1>1 DEF Receive, TypeOK
    <2>2. QED
      BY <1>1, <2>1, InvitationFrame DEF Receive, dbVars, StillPending
  <1>2. ASSUME NEW r \in Reqs, FindMember(r) PROVE InvitationInv'
    <2>1. CASE Refuse(r)
      BY <1>2, <2>1, RefuseKeepsInvitations DEF FindMember, At
    <2>2. ASSUME NEW row \in RowOf(req[r].job.target), Read(r, row) PROVE InvitationInv'
      <3>1. req[r].phase = "find" /\ req[r].job.op \in {"role", "remove"} /\ row \in Memberships
        BY <1>2, <1>a, <2>2 DEF FindMember, At, RowOf, TypeOK
      <3>2. req'[r].job = req[r].job /\ \A s \in Reqs \ {r} : req'[s] = req[s]
        BY <1>a, <2>2, <3>1, ReadKeepsForm
      <3>3. StillPending(r)'
        BY <3>1, <3>2 DEF StillPending
      <3>4. QED
        BY <2>2, <3>2, <3>3, InvitationFrame DEF Read, dbVars
    <2>3. QED
      BY <1>2, <2>1, <2>2 DEF FindMember
  <1>3. ASSUME NEW r \in Reqs, CountAdmins(r) PROVE InvitationInv'
    <2>1. CASE Refuse(r)
      BY <1>3, <2>1, RefuseKeepsInvitations DEF CountAdmins, At
    <2>2. CASE Goto(r, "commit") /\ UNCHANGED <<dbVars, outdated, raced>>
      BY <1>3, <1>b, <2>2, GotoKeepsInvitations DEF CountAdmins, At
    <2>3. QED
      BY <1>3, <2>1, <2>2 DEF CountAdmins
  <1>4. ASSUME NEW r \in Reqs, ChangeRole(r) PROVE InvitationInv'
    <2>1. CASE Refuse(r)
      BY <1>4, <2>1, RefuseKeepsInvitations DEF ChangeRole, At
    <2>2. CASE ~Refuse(r)
      <3> DEFINE id == req[r].row.id
                 role == Diff(req[r].row.role, req[r].job.role)
      <3>1. req[r] \in Requests /\ req[r].phase = "commit" /\ req[r].job.op = "role"
        BY <1>4, <1>a DEF ChangeRole, At, TypeOK, Unsent
      <3>2. id \in RowIds /\ role \in Roles \cup {NoRole}
        BY <1>a, <3>1 DEF TypeOK, Requests, Jobs, Memberships, Diff
      <3>3. /\ Log("MEMBER_ROLE_CHANGED", id, role) /\ Goto(r, "done")
            /\ Committed(r, Reading({"role", "remove"})) /\ UNCHANGED invitation
        BY <1>4, <2>2 DEF ChangeRole
      <3> HIDE DEF id, role
      <3>4. QED
        BY <3>1, <3>2, <3>3, <1>c
    <2>3. QED
      BY <2>1, <2>2
  <1>5. ASSUME NEW r \in Reqs, RemoveMember(r) PROVE InvitationInv'
    <2>1. CASE Refuse(r)
      BY <1>5, <2>1, RefuseKeepsInvitations DEF RemoveMember, At
    <2>2. CASE ~Refuse(r)
      <3> DEFINE id == req[r].row.id
                 role == NoRole
      <3>1. req[r].phase = "commit" /\ id \in RowIds
        BY <1>5, <1>a DEF RemoveMember, At, TypeOK, Memberships
      <3>2. /\ Log("MEMBER_REMOVED", id, role) /\ Goto(r, "done")
            /\ Committed(r, Reading({"role", "remove"})) /\ UNCHANGED invitation
        BY <1>5, <2>2 DEF RemoveMember
      <3> HIDE DEF id
      <3>3. QED
        BY <3>1, <3>2, <1>c
    <2>3. QED
      BY <2>1, <2>2
  <1>6. ASSUME NEW r \in Reqs, FindRevoked(r) PROVE InvitationInv'
    <2>1. CASE Refuse(r)
      BY <1>6, <2>1, RefuseKeepsInvitations DEF FindRevoked, At
    <2>2. CASE /\ invitation[req[r].job.inv].status = "PENDING"
               /\ Goto(r, "commit") /\ UNCHANGED <<dbVars, outdated, raced>>
      BY <1>6, <1>b, <2>2, GotoKeepsInvitations DEF FindRevoked, At
    <2>3. QED
      BY <1>6, <2>1, <2>2 DEF FindRevoked
  <1>7. ASSUME NEW r \in Reqs, Revoke(r) PROVE InvitationInv'
    <2> DEFINE i == req[r].job.inv
    <2>1. req[r] \in Requests /\ req[r].phase = "commit" /\ req[r].job.op = "revoke"
      BY <1>7, <1>a DEF Revoke, At, TypeOK, Unsent
    <2>2. i \in Invitations
      BY <2>1 DEF Requests, Jobs
    <2>3. /\ invitation' = [invitation EXCEPT ![i].status = "REVOKED"]
          /\ Committed(r, Concerned({"revoke", "accept"}, i))
          /\ Goto(r, "done") /\ UNCHANGED audit
      BY <1>7 DEF Revoke
    <2>4. invitation'[i].status = "REVOKED" /\ \A j \in Invitations \ {i} : invitation'[j] = invitation[j]
      BY <1>a, <2>2, <2>3 DEF TypeOK
    <2>5. req'[r].phase = "done" /\ \A s \in Reqs \ {r} : req'[s] = req[s]
      BY <1>a, <1>b, <2>1, <2>3, GotoKeepsForm
    <2>6. \A j \in Invitations : JoinedBy(j)' = JoinedBy(j)
      BY <1>a, <2>3, JoinedStays
    <2> SUFFICES ASSUME ~raced'
                 PROVE  /\ \A j \in Invitations : AdmitsOnce(j)'
                        /\ \A s \in Reqs \ outdated' : StillPending(s)'
      BY DEF InvitationInv
    <2>7. ~raced /\ r \notin outdated
      BY <2>3 DEF Committed
    <2>8. invitation[i].status = "PENDING" /\ JoinedBy(i) = {}
      BY <2>1, <2>2, <2>7 DEF InvitationInv, StillPending, AdmitsOnce
    <2>9. \A j \in Invitations : AdmitsOnce(j)'
      BY <2>4, <2>6, <2>7, <2>8 DEF InvitationInv, AdmitsOnce
    <2>10. ASSUME NEW s \in Reqs \ outdated' PROVE StillPending(s)'
      <3>1. s \in Reqs \ outdated /\ (s = r \/ s \notin Concerned({"revoke", "accept"}, i))
        BY <2>3 DEF Committed
      <3>2. CASE s = r
        BY <2>5, <3>2 DEF StillPending
      <3>3. ASSUME s # r, req[s].phase \in {"exists", "commit"},
                   req[s].job.op \in {"revoke", "accept"}
            PROVE  req[s].job.inv \in Invitations \ {i}
        <4>1. req[s] \in Requests /\ req[s] # Unsent
          BY <1>a, <3>3 DEF TypeOK, Unsent
        <4>2. QED
          BY <3>1, <3>3, <4>1 DEF Concerned, Reading, Requests, Jobs
      <3>4. QED
        BY <2>4, <2>5, <2>7, <3>1, <3>2, <3>3 DEF InvitationInv, StillPending
    <2>11. QED
      BY <2>9, <2>10
  <1>8. ASSUME NEW r \in Reqs, FindInvitation(r) PROVE InvitationInv'
    <2>1. CASE Refuse(r)
      BY <1>8, <2>1, RefuseKeepsInvitations DEF FindInvitation, At
    <2>2. CASE /\ Open(req[r].job.inv) /\ Goto(r, "exists")
               /\ UNCHANGED <<dbVars, outdated, raced>>
      BY <1>8, <1>b, <2>2, GotoKeepsInvitations DEF FindInvitation, At, Open
    <2>3. QED
      BY <1>8, <2>1, <2>2 DEF FindInvitation
  <1>9. ASSUME NEW r \in Reqs, CheckNotMember(r) PROVE InvitationInv'
    <2>1. CASE Refuse(r)
      BY <1>9, <2>1, RefuseKeepsInvitations DEF CheckNotMember, At
    <2>2. CASE Goto(r, "commit") /\ UNCHANGED <<dbVars, outdated, raced>>
      BY <1>9, <1>b, <2>2, GotoKeepsInvitations DEF CheckNotMember, At
    <2>3. QED
      BY <1>9, <2>1, <2>2 DEF CheckNotMember
  <1>10. ASSUME NEW r \in Reqs, Join(r) PROVE InvitationInv'
    <2>1. CASE Refuse(r)
      BY <1>10, <2>1, RefuseKeepsInvitations DEF Join, At
    <2>2. CASE ~Refuse(r)
      <3> DEFINE i == req[r].job.inv
                 role == invitation[i].role
                 last == Len(audit')
      <3>1. req[r] \in Requests /\ req[r].phase = "commit" /\ req[r].job.op = "accept"
        BY <1>10, <1>a DEF Join, At, TypeOK, Unsent
      <3>2. i \in Invitations /\ role \in Roles /\ r \in RowIds
        BY <1>a, <3>1 DEF Requests, Jobs, TypeOK, RowIds
      <3>3. /\ invitation' = [invitation EXCEPT ![i].status = "ACCEPTED"]
            /\ Log("MEMBER_JOINED", r, NoRole)
            /\ Committed(r, Concerned({"revoke", "accept"}, i))
            /\ Goto(r, "done")
        BY <1>10, <2>2 DEF Join
      <3>4. invitation'[i].status = "ACCEPTED" /\ \A j \in Invitations \ {i} : invitation'[j] = invitation[j]
        BY <1>a, <3>2, <3>3 DEF TypeOK
      <3>5. /\ req'[r].phase = "done" /\ req'[r].job = req[r].job
            /\ \A s \in Reqs \ {r} : req'[s] = req[s]
        BY <1>a, <1>b, <3>1, <3>3, GotoKeepsForm
      <3>6. /\ last \in DOMAIN audit' /\ audit'[last].action = "MEMBER_JOINED"
            /\ audit'[last].target = r
            /\ \A k \in DOMAIN audit' : k \in DOMAIN audit \/ k = last
        <4> HIDE DEF role
        <4>1. QED
          BY <1>a, <3>2, <3>3, LogAppends
      <3> HIDE DEF role, last
      <3>7. \A j \in Invitations : JoinedBy(j)' =
              IF i = j THEN JoinedBy(j) \cup {r} ELSE JoinedBy(j)
        BY <1>a, <3>5, <3>6, JoinedGrows
      <3> SUFFICES ASSUME ~raced'
                   PROVE  /\ \A j \in Invitations : AdmitsOnce(j)'
                          /\ \A s \in Reqs \ outdated' : StillPending(s)'
        BY DEF InvitationInv
      <3>8. ~raced /\ r \notin outdated
        BY <3>3 DEF Committed
      <3>9. invitation[i].status = "PENDING" /\ JoinedBy(i) = {}
        BY <3>1, <3>2, <3>8 DEF InvitationInv, StillPending, AdmitsOnce
      <3>10. \A j \in Invitations : AdmitsOnce(j)'
        BY <3>4, <3>7, <3>8, <3>9 DEF InvitationInv, AdmitsOnce
      <3>11. ASSUME NEW s \in Reqs \ outdated' PROVE StillPending(s)'
        <4>1. s \in Reqs \ outdated /\ (s = r \/ s \notin Concerned({"revoke", "accept"}, i))
          BY <3>3 DEF Committed
        <4>2. CASE s = r
          BY <3>5, <4>2 DEF StillPending
        <4>3. ASSUME s # r, req[s].phase \in {"exists", "commit"},
                     req[s].job.op \in {"revoke", "accept"}
              PROVE  req[s].job.inv \in Invitations \ {i}
          <5>1. req[s] \in Requests /\ req[s] # Unsent
            BY <1>a, <4>3 DEF TypeOK, Unsent
          <5>2. QED
            BY <4>1, <4>3, <5>1 DEF Concerned, Reading, Requests, Jobs
        <4>4. QED
          BY <3>4, <3>5, <3>8, <4>1, <4>2, <4>3 DEF InvitationInv, StillPending
      <3>12. QED
        BY <3>10, <3>11
    <2>3. QED
      BY <2>1, <2>2
  \* A new invitation, and one whose time has passed.
  <1>11. ASSUME UNCHANGED <<membership, req, audit, outdated, raced>>,
                NEW i \in Invitations, \A j \in Invitations \ {i} : invitation'[j] = invitation[j],
                \/ invitation'[i].status = invitation[i].status
                \/ invitation[i].status = "none" /\ invitation'[i].status = "PENDING"
         PROVE  InvitationInv'
    <2>1. \A j \in Invitations : JoinedBy(j)' = JoinedBy(j)
      BY <1>11 DEF JoinedBy
    <2>2. ASSUME NEW s \in Reqs, StillPending(s) PROVE StillPending(s)'
      <3>1. SUFFICES ASSUME req[s].phase \in {"exists", "commit"},
                            req[s].job.op \in {"revoke", "accept"}
                     PROVE  invitation'[req[s].job.inv].status = "PENDING"
        BY <1>11 DEF StillPending
      <3>2. req[s] \in Requests
        BY <1>a, <3>1 DEF TypeOK, Unsent
      <3>3. req[s].job.inv \in Invitations
        BY <3>1, <3>2 DEF Requests, Jobs
      <3>4. QED
        BY <1>11, <2>2, <3>1, <3>3 DEF StillPending
    <2>3. QED
      BY <1>11, <2>1, <2>2 DEF InvitationInv, AdmitsOnce
  <1>12. ASSUME NEW i \in Invitations, Expire(i) PROVE InvitationInv'
    BY <1>11, <1>12, <1>a DEF Expire, TypeOK
  <1>13. ASSUME NEW i \in Invitations, NEW email \in Users, NEW role \in Roles,
                Invite(i, email, role)
         PROVE  InvitationInv'
    BY <1>11, <1>13, <1>a DEF Invite, TypeOK
  <1>14. CASE UNCHANGED vars
    BY <1>14 DEF vars, InvitationInv, AdmitsOnce, StillPending, JoinedBy
  <1>15. QED
    BY <1>1, <1>2, <1>3, <1>4, <1>5, <1>6, <1>7, <1>8, <1>9, <1>10, <1>12, <1>13, <1>14
    DEF Next, Serve, ServeMembers, ServeInvitations, ServeAccept

\* As long as no request commits on readings another has made outdated, an invitation
\* admits one user and is ACCEPTED exactly then (accept and revoke of
\* invitations.service.ts).
THEOREM InvitationAdmitsOnce == Spec => []InvitationsAdmitOnce
  <1>1. Init => MembersInv /\ InvitationInv
    <2>1. Init => InvitationInv
      BY DEF Init, InvitationInv, AdmitsOnce, StillPending, JoinedBy, Unsent
    <2>2. QED
      BY <2>1, InitMembers
  <1>2. MembersInv /\ InvitationInv /\ [Next]_vars => (MembersInv /\ InvitationInv)'
    BY MembersStep, InvitationStep
  <1>3. InvitationInv => InvitationsAdmitOnce
    BY DEF InvitationInv, InvitationsAdmitOnce, AdmitsOnce
  <1>4. QED
    BY <1>1, <1>2, <1>3, PTL DEF Spec
===============================================================================
