------------------------------ MODULE Organization ------------------------------
(***************************************************************************)
(* The members and invitations of one organization: backend/src/           *)
(* organizations/members.service.ts, invitations.service.ts and create of  *)
(* organizations.service.ts.                                               *)
(*                                                                         *)
(* Every statement sees what is committed when it runs (READ COMMITTED).   *)
(* The writes of a transaction come last and lock only rows they change,   *)
(* so they and the commit are one step; the reads before it are steps of   *)
(* their own, and what they saw may be outdated when the step is taken.    *)
(***************************************************************************)
EXTENDS Naturals, Sequences, FiniteSets

CONSTANTS
  Users,        \* people with an account; their e-mail stands for them
  Founder,      \* the user whose request created the organization
  Roles,        \* enum Role
  Invitations,  \* invitations that may be made
  Reqs,         \* HTTP requests; a request also names the row it creates
  Founding      \* names the row made with the organization

ASSUME OrgAssumption ==
  /\ Founder \in Users
  /\ "ADMIN" \in Roles
  /\ Founding \notin Reqs

\* A record that names no role.
NoRole == "none"
ASSUME NoRoleAssumption == NoRole \notin Roles

VARIABLES
  membership,   \* Membership rows: [id, user, role]
  invitation,   \* Invitation rows
  req,          \* requests: what was asked, how far it is, what it has read
  audit,        \* AuditLog rows of target type MEMBERSHIP, in commit order
  outdated,     \* history: requests whose readings are no longer true
  raced         \* history: some request has committed on outdated readings

dbVars == <<membership, invitation, audit>>
vars == <<membership, invitation, req, audit, outdated, raced>>

RowIds      == Reqs \cup {Founding}
Memberships == [id : RowIds, user : Users, role : Roles]
NoRow       == [id |-> Founding]
Admins      == {m \in membership : m.role = "ADMIN"}
RowOf(u)    == {m \in membership : m.user = u}
IsAdmin(u)  == \E m \in Admins : m.user = u

Statuses == {"none", "PENDING", "ACCEPTED", "REVOKED"}
\* `role`: the new role, when the metadata of the record name one.
Records  == [action : {"MEMBER_JOINED", "MEMBER_ROLE_CHANGED", "MEMBER_REMOVED"},
             target : RowIds, role : Roles \cup {NoRole}]

\* The operations, with the fields each of them is given.
Jobs == [op : {"role"}, target : Users, role : Roles]
          \cup [op : {"remove"}, target : Users]
          \cup [op : {"revoke"}, inv : Invitations]
          \cup [op : {"accept"}, inv : Invitations, user : Users]

Phases   == {"find", "count", "exists", "commit", "done"}
Requests == [phase : Phases, job : Jobs, row : Memberships \cup {NoRow}]
Unsent   == [phase |-> "unsent"]

TypeOK ==
  /\ membership \subseteq Memberships
  /\ invitation \in [Invitations -> [status : Statuses, email : Users, role : Roles,
                                     expired : BOOLEAN]]
  /\ req \in [Reqs -> Requests \cup {Unsent}]
  /\ \A r \in Reqs :
       /\ req[r].phase = "count" => req[r].job.op \in {"role", "remove"}
       /\ req[r].phase = "exists" => req[r].job.op = "accept"
       /\ req[r].phase \in {"count", "commit"} /\ req[r].job.op \in {"role", "remove"} =>
            req[r].row \in Memberships
  /\ audit \in Seq(Records)
  /\ outdated \subseteq Reqs
  /\ raced \in BOOLEAN

\* organizations.service.ts create: the organization and its first ADMIN.  The record of
\* it, ORG_CREATED, is about the organization and names no membership.
Init ==
  /\ membership = {[id |-> Founding, user |-> Founder, role |-> "ADMIN"]}
  /\ invitation = [i \in Invitations |-> [status |-> "none", email |-> Founder,
                                          role |-> "ADMIN", expired |-> FALSE]]
  /\ req = [r \in Reqs |-> Unsent]
  /\ audit = <<>>
  /\ outdated = {}
  /\ raced = FALSE

-------------------------------------------------------------------------------
Goto(r, phase) == req' = [req EXCEPT ![r].phase = phase]
At(r, phase, op) == req[r].phase = phase /\ req[r].job.op = op

\* Fault: remove writes no audit record.
LogForgetsRemoval(action, id, role) ==
  audit' = IF action = "MEMBER_REMOVED" THEN audit
           ELSE Append(audit, [action |-> action, target |-> id, role |-> role])

\* AuditService.record, in the transaction it is given.
Log(action, id, role) ==
  audit' = Append(audit, [action |-> action, target |-> id, role |-> role])

\* Fault: before and after are swapped.
DiffSwapped(before, after) == IF before = after THEN NoRole ELSE before

\* diffFields of the role that was read and the role that was written.
Diff(before, after) == IF before = after THEN NoRole ELSE after

\* An error answer: nothing is written.
Refuse(r) == Goto(r, "done") /\ UNCHANGED <<dbVars, outdated, raced>>

\* History: a commit makes the readings of the requests in rs outdated, and shows
\* whether its own were.
Committed(r, rs) ==
  /\ raced' = (raced \/ r \in outdated)
  /\ outdated' = outdated \cup (rs \ {r})

\* Requests between their first reading and their commit.
Reading(ops) ==
  {s \in Reqs : /\ req[s] # Unsent
                /\ req[s].phase \in {"count", "exists", "commit"}
                /\ req[s].job.op \in ops}
Concerned(ops, i) == {s \in Reading(ops) : req[s].job.inv = i}

\* A request passes the guards: OrgContextGuard and @RequireRole(ADMIN) for all but
\* accept, which any signed-in user may send.
Receive(r, job) ==
  /\ req[r] = Unsent
  /\ job.op # "accept" => \E u \in Users : IsAdmin(u)
  /\ req' = [req EXCEPT ![r] = [phase |-> "find", job |-> job, row |-> NoRow]]
  /\ UNCHANGED <<dbVars, outdated, raced>>

-------------------------------------------------------------------------------
\* members.service.ts

\* assertNotLastAdmin is called when the row read is an ADMIN that will not be one.
Protects(row, job) ==
  row.role = "ADMIN" /\ (job.op = "role" => job.role # "ADMIN")

\* The row has been read: count next, or write at once.
Read(r, row) ==
  /\ req' = [req EXCEPT ![r] =
       [phase |-> IF Protects(row, req[r].job) THEN "count" ELSE "commit",
        job   |-> req[r].job,
        row   |-> row]]
  /\ UNCHANGED <<dbVars, outdated, raced>>

\* findFirst of the target's membership.
FindMember(r) ==
  /\ At(r, "find", "role") \/ At(r, "find", "remove")
  /\ IF RowOf(req[r].job.target) = {}
     THEN Refuse(r)                                                       \* 404
     ELSE \E row \in RowOf(req[r].job.target) : Read(r, row)

\* Fault: the target itself is counted too.
RemainingWithTarget(row) == Admins

\* count of the ADMIN rows other than the target's.
Remaining(row) == {m \in Admins : m.id # row.id}

CountAdmins(r) ==
  /\ At(r, "count", "role") \/ At(r, "count", "remove")
  /\ IF Remaining(req[r].row) = {}
     THEN Refuse(r)                                       \* MEMBER_LAST_ADMIN, 409
     ELSE Goto(r, "commit") /\ UNCHANGED <<dbVars, outdated, raced>>

\* The row a write addresses by id, if it is still there (else P2025, 500).
Current(row) == {m \in membership : m.id = row.id}

ChangeRole(r) ==
  /\ At(r, "commit", "role")
  /\ LET row == req[r].row  role == req[r].job.role IN
       IF Current(row) = {}
       THEN Refuse(r)
       ELSE /\ membership' = (membership \ Current(row))
                               \cup {[m EXCEPT !.role = role] : m \in Current(row)}
            /\ Log("MEMBER_ROLE_CHANGED", row.id, Diff(row.role, role))
            /\ Committed(r, Reading({"role", "remove"}))
            /\ Goto(r, "done")
            /\ UNCHANGED invitation

RemoveMember(r) ==
  /\ At(r, "commit", "remove")
  /\ LET row == req[r].row IN
       IF Current(row) = {}
       THEN Refuse(r)
       ELSE /\ membership' = membership \ Current(row)
            /\ Log("MEMBER_REMOVED", row.id, NoRole)
            /\ Committed(r, Reading({"role", "remove"}))
            /\ Goto(r, "done")
            /\ UNCHANGED invitation

-------------------------------------------------------------------------------
\* invitations.service.ts

\* create: one new row, for a request that some ADMIN sent.
Invite(i, email, role) ==
  /\ invitation[i].status = "none"
  /\ invitation' = [invitation EXCEPT ![i] =
       [status |-> "PENDING", email |-> email, role |-> role, expired |-> FALSE]]
  /\ UNCHANGED <<membership, req, audit, outdated, raced>>

\* expiresAt passes.
Expire(i) ==
  /\ invitation[i].status = "PENDING" /\ ~invitation[i].expired
  /\ invitation' = [invitation EXCEPT ![i].expired = TRUE]
  /\ UNCHANGED <<membership, req, audit, outdated, raced>>

\* Fault: an invitation that has been accepted can still be revoked.
FindRevokedAny(r) ==
  /\ At(r, "find", "revoke")
  /\ Goto(r, "commit") /\ UNCHANGED <<dbVars, outdated, raced>>

\* revoke: the status is read and then overwritten, in no transaction.
FindRevoked(r) ==
  /\ At(r, "find", "revoke")
  /\ IF invitation[req[r].job.inv].status # "PENDING"
     THEN Refuse(r)                                                       \* 404
     ELSE Goto(r, "commit") /\ UNCHANGED <<dbVars, outdated, raced>>

Revoke(r) ==
  /\ At(r, "commit", "revoke")
  /\ LET i == req[r].job.inv IN
       /\ invitation' = [invitation EXCEPT ![i].status = "REVOKED"]
       /\ Committed(r, Concerned({"revoke", "accept"}, i))
  /\ Goto(r, "done")
  /\ UNCHANGED <<membership, audit>>

Open(i) == invitation[i].status = "PENDING" /\ ~invitation[i].expired

\* accept up to its transaction: the invitation is read by the hash of its token.
FindInvitation(r) ==
  /\ At(r, "find", "accept")
  /\ LET job == req[r].job IN
       IF invitation[job.inv].email = job.user /\ Open(job.inv)
       THEN Goto(r, "exists") /\ UNCHANGED <<dbVars, outdated, raced>>
       ELSE Refuse(r)                                                \* 404 or 409

CheckNotMember(r) ==
  /\ At(r, "exists", "accept")
  /\ IF RowOf(req[r].job.user) # {}
     THEN Refuse(r)                                                  \* CONFLICT, 409
     ELSE Goto(r, "commit") /\ UNCHANGED <<dbVars, outdated, raced>>

\* Fault: no unique key on (userId, organizationId).
KeyFreeAlways(u) == TRUE

\* @@unique([userId, organizationId]): the insert fails otherwise (P2002, 409).
KeyFree(u) == RowOf(u) = {}

\* The membership, the status, written whatever it is by now, and the audit record.
Join(r) ==
  /\ At(r, "commit", "accept")
  /\ LET job == req[r].job  i == job.inv  role == invitation[i].role IN
       IF ~KeyFree(job.user)
       THEN Refuse(r)
       ELSE /\ membership' = membership \cup {[id |-> r, user |-> job.user, role |-> role]}
            /\ invitation' = [invitation EXCEPT ![i].status = "ACCEPTED"]
            /\ Log("MEMBER_JOINED", r, NoRole)
            /\ Committed(r, Concerned({"revoke", "accept"}, i))
            /\ Goto(r, "done")

-------------------------------------------------------------------------------
\* The routes of MembersController and InvitationsController, for ADMINs, and of
\* InvitationAcceptController, outside any organization.
ServeMembers(r)     == FindMember(r) \/ CountAdmins(r) \/ ChangeRole(r) \/ RemoveMember(r)
ServeInvitations(r) == FindRevoked(r) \/ Revoke(r)
ServeAccept(r)      == FindInvitation(r) \/ CheckNotMember(r) \/ Join(r)

Serve(r) == ServeMembers(r) \/ ServeInvitations(r) \/ ServeAccept(r)

Next ==
  \/ \E r \in Reqs : (\E job \in Jobs : Receive(r, job)) \/ Serve(r)
  \/ \E i \in Invitations :
       Expire(i) \/ \E email \in Users, role \in Roles : Invite(i, email, role)

Spec == Init /\ [][Next]_vars

-------------------------------------------------------------------------------
\* Properties

\* "조직에는 최소 1명의 ADMIN이 있어야 합니다." (members.service.ts:98)
AdminRemains == Admins # {}

\* assertNotLastAdmin keeps that promise as long as no request has committed on a
\* row or a count that another had changed meanwhile.
AdminRemainsUnlessRaced == ~raced => AdminRemains

\* A user is a member at most once, also when two invitations of the same person
\* are accepted together: the check of accept may be outdated, the unique key is not.
OneMembershipPerUser ==
  \A m, n \in membership : m.user = n.user => m = n

JoinedBy(i) == {r \in Reqs : \E k \in DOMAIN audit :
                  /\ audit[k].action = "MEMBER_JOINED" /\ audit[k].target = r
                  /\ req[r].job.inv = i}

\* An invitation admits once, and is ACCEPTED exactly when it has: a revoked or
\* used one admits nobody, and an accepted one does not end up REVOKED.
InvitationsAdmitOnce ==
  ~raced => \A i \in Invitations :
              /\ \A r, s \in JoinedBy(i) : r = s
              /\ invitation[i].status = "ACCEPTED" <=> JoinedBy(i) # {}

Logged(action, id) == \E k \in DOMAIN audit : audit[k].action = action /\ audit[k].target = id

\* The records that name a new role of the row, and the role it began with.
RoleChanges(id) == {k \in DOMAIN audit : audit[k].target = id /\ audit[k].role # NoRole}
FirstRole(id)   == IF id = Founding THEN "ADMIN" ELSE invitation[req[id].job.inv].role

LoggedRole(id) ==
  IF RoleChanges(id) = {} THEN FirstRole(id)
  ELSE audit[CHOOSE k \in RoleChanges(id) : \A j \in RoleChanges(id) : j <= k].role

\* A change of its role was answered although what it had read was no longer true.
Overlapped(id) == \E r \in outdated : At(r, "done", "role") /\ req[r].row.id = id

\* The audit log tells who is a member, whatever requests race: the founder and every
\* row whose joining is logged, until its removal is.  It also tells in which role: the
\* one of the invitation until a record names another, as long as no change of the
\* member's role overlapped another request.  Of two that overlap, the later one logs
\* the difference from a role the member no longer had, and so maybe none.
AuditTellsMembership ==
  /\ \A id \in RowIds :
       (\E m \in membership : m.id = id) <=>
         /\ id = Founding \/ Logged("MEMBER_JOINED", id)
         /\ ~Logged("MEMBER_REMOVED", id)
  /\ \A m \in membership : ~Overlapped(m.id) => m.role = LoggedRole(m.id)
===============================================================================
