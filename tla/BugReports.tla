------------------------------- MODULE BugReports -------------------------------
(***************************************************************************)
(* The bug reports of several organizations: create, update and read one   *)
(* bug, one action per awaited statement, with the organization every      *)
(* query is confined to, the audit entry of each change and the event that *)
(* follows the commit.                                                     *)
(***************************************************************************)
EXTENDS Integers, Sequences, FiniteSets

CONSTANTS Orgs, Bugs, RunCases, Reqs,
          OrgOf,      \* the organization of each run case
          Changes,    \* bodies of updates: functions from some columns to values
          None        \* no row, no run case, not resolved

ASSUME OrgOfAssumption == OrgOf \in [RunCases -> Orgs]
ASSUME NoneAssumption == None \notin RunCases \union Reqs

Statuses == {"OPEN", "IN_PROGRESS", "RESOLVED", "WONTFIX"}
Severities == {"MINOR", "MAJOR", "CRITICAL"}
Columns == {"status", "severity"}

ASSUME ChangesAssumption ==
  \A d \in Changes :
    /\ d = [c \in DOMAIN d |-> d[c]]
    /\ DOMAIN d \subseteq Columns
    /\ "status" \in DOMAIN d => d["status"] \in Statuses
    /\ "severity" \in DOMAIN d => d["severity"] \in Severities

\* resolvedAt is kept as the request that set it.
Rows == [org : Orgs, case : RunCases \union {None}, status : Statuses,
         severity : Severities, resolvedAt : Reqs \union {None}]

ASSUME NoRowAssumption == None \notin Rows

VARIABLES
  rows,    \* bug_reports by id
  audit,   \* audit_logs, in the order of commits
  clock,   \* milliseconds, of the createdAt stamps, which are taken before the commit
  pc,      \* idle, write, commit, emit, done
  job,     \* what the request asks for
  loc,     \* what its handler has read, and the row it is going to leave
  answers, \* history: what callers were told who named a row of another organization
  sent,    \* events sent to the rooms of organizations
  raced    \* history: bugs updated by a decision on a status that had changed

vars == <<rows, audit, clock, pc, job, loc, answers, sent, raced>>

Creates == [op : {"create"}, org : Orgs, case : RunCases \union {None}]
Updates == [op : {"update"}, org : Orgs, bug : Bugs, set : Changes]
Gets == [op : {"get"}, org : Orgs, bug : Bugs]
Jobs == Creates \union Updates \union Gets

NoRead == [bug |-> None, read |-> None, next |-> None, stamp |-> 0]

Reach(r, to) == pc' = [pc EXCEPT ![r] = to]

\* What a request names, if it is another organization's.
Foreign(j) ==
  IF j.op = "create" THEN j.case # None /\ OrgOf[j.case] # j.org
  ELSE rows[j.bug] # None /\ rows[j.bug].org # j.org

\* The request is over; a transaction not committed leaves nothing behind.
Reply(r, j, a) ==
  /\ Reach(r, "done")
  /\ answers' = IF Foreign(j) THEN answers \union {a} ELSE answers
  /\ job' = [job EXCEPT ![r] = None]
  /\ loc' = [loc EXCEPT ![r] = NoRead]

\* The request goes on to its next statement.
Go(r, j, to) ==
  /\ Reach(r, to)
  /\ job' = [job EXCEPT ![r] = j]
  /\ UNCHANGED answers

\* Fault: findUnique looks the id up in every organization.
InScopeAnywhere(org, of) == TRUE

\* The organization of the request is part of every where clause.
InScope(org, of) == of = org

Receive(r) == pc[r] = "idle" /\ UNCHANGED <<rows, audit, clock, sent, raced>>

\* A new bug may name a run case, which must be found.
FindCase(r, j) ==
  /\ j \in Creates /\ Receive(r)
  /\ IF j.case = None \/ InScope(j.org, OrgOf[j.case])
     THEN Go(r, j, "write") /\ UNCHANGED loc
     ELSE Reply(r, j, "NOT_FOUND")

Found(j) == rows[j.bug] # None /\ InScope(j.org, rows[j.bug].org)

\* update looks the bug up.
FindBug(r, j) ==
  /\ j \in Updates /\ Receive(r)
  /\ IF Found(j)
     THEN /\ Go(r, j, "write")
          /\ loc' = [loc EXCEPT ![r].bug = j.bug, ![r].read = rows[j.bug]]
     ELSE Reply(r, j, "NOT_FOUND")

getOne(r, j) ==
  /\ j \in Gets /\ Receive(r)
  /\ Reply(r, j, IF Found(j) THEN "ok" ELSE "NOT_FOUND")

\* The composite foreign key takes the run case only from the same organization.
KeyHolds(org, c) == c = None \/ OrgOf[c] = org

Taken(b) == rows[b] # None \/ \E s \in Reqs : pc[s] = "commit" /\ loc[s].bug = b

\* now(), to the millisecond, counted from the first stamp: two stamps may be the same.
Now == {clock, clock + 1} \ {0}

InsertBug(r, b) ==
  LET j == job[r]
  IN /\ pc[r] = "write" /\ j.op = "create" /\ ~Taken(b)
     /\ IF KeyHolds(j.org, j.case)
        THEN /\ Go(r, j, "commit")
             /\ clock' \in Now
             /\ loc' = [loc EXCEPT ![r] =
                  [bug |-> b, read |-> None, stamp |-> clock',
                   next |-> [org |-> j.org, case |-> j.case, status |-> "OPEN",
                             severity |-> "MAJOR", resolvedAt |-> None]]]
        ELSE Reply(r, j, "constraint") /\ UNCHANGED clock
     /\ UNCHANGED <<rows, audit, sent, raced>>

Asked(d, c, old) == IF c \in DOMAIN d THEN d[c] ELSE old

\* Fault: the column is always written.
ResolvedAtAlways(r, d, read, now) ==
  IF "status" \in DOMAIN d /\ d["status"] = "RESOLVED" /\ read # "RESOLVED" THEN r ELSE None

\* Stamped when the bug is to be resolved and was not when it was read; never
\* taken back.
ResolvedAt(r, d, read, now) ==
  IF "status" \in DOMAIN d /\ d["status"] = "RESOLVED" /\ read # "RESOLVED" THEN r ELSE now

\* The update waits for the row; it leaves alone the columns it was not given.
UpdateBug(r) ==
  LET b == loc[r].bug
      d == job[r].set
      row == rows[b]
  IN /\ pc[r] = "write" /\ job[r].op = "update"
     /\ ~\E s \in Reqs : pc[s] = "commit" /\ loc[s].bug = b
     /\ Go(r, job[r], "commit")
     /\ clock' \in Now
     /\ loc' = [loc EXCEPT
          ![r].stamp = clock',
          ![r].next = [row EXCEPT
             !.status = Asked(d, "status", row.status),
             !.severity = Asked(d, "severity", row.severity),
             !.resolvedAt = ResolvedAt(r, d, loc[r].read.status, row.resolvedAt)]]
     /\ raced' = IF row.status = loc[r].read.status THEN raced ELSE raced \union {b}
     /\ UNCHANGED <<rows, audit, sent>>

\* The columns asked for whose value is not what was read, with both values.
diffFields(old, new, keys) ==
  [c \in {k \in keys : old[k] # new[k]} |-> <<old[c], new[c]>>]

\* Fault: the status is compared with the row after the update.
ActionAfterwards(old, new, d) ==
  IF "status" \in DOMAIN d /\ d["status"] # new.status
  THEN "BUG_STATUS_CHANGED" ELSE "BUG_UPDATED"

Action(old, new, d) ==
  IF "status" \in DOMAIN d /\ d["status"] # old.status
  THEN "BUG_STATUS_CHANGED" ELSE "BUG_UPDATED"

Entry(r) ==
  LET l == loc[r]
  IN [req |-> r, org |-> job[r].org, bug |-> l.bug, stamp |-> l.stamp,
      action |-> IF job[r].op = "create" THEN "BUG_CREATED"
                 ELSE Action(l.read, l.next, job[r].set),
      diff |-> IF job[r].op = "create" THEN <<>>
               ELSE diffFields(l.read, l.next, DOMAIN job[r].set)]

Commit(r) ==
  /\ pc[r] = "commit" /\ Go(r, job[r], "emit")
  /\ rows' = [rows EXCEPT ![loc[r].bug] = loc[r].next]
  /\ audit' = Append(audit, Entry(r))
  /\ UNCHANGED <<clock, loc, sent, raced>>

Event(r) == [req |-> r, org |-> job[r].org, bug |-> loc[r].bug]

\* After nameOf, to the room of the organization.
Emit(r) ==
  /\ pc[r] = "emit"
  /\ sent' = sent \union {Event(r)}
  /\ Reply(r, job[r], "ok")
  /\ UNCHANGED <<rows, audit, clock, raced>>

\* A statement fails and the transaction is rolled back, nameOf fails after the
\* commit, or the process stops.
Fail(r) ==
  /\ pc[r] \in {"write", "commit", "emit"}
  /\ Reply(r, job[r], "failed")
  /\ UNCHANGED <<rows, audit, clock, sent, raced>>

Init ==
  /\ rows = [b \in Bugs |-> None]
  /\ audit = <<>> /\ clock = 0
  /\ pc = [r \in Reqs |-> "idle"]
  /\ job = [r \in Reqs |-> None]
  /\ loc = [r \in Reqs |-> NoRead]
  /\ answers = {} /\ sent = {} /\ raced = {}

Handle(r) ==
  \/ \E j \in Creates : FindCase(r, j)
  \/ \E j \in Updates : FindBug(r, j)
  \/ \E j \in Gets : getOne(r, j)
  \/ \E b \in Bugs : InsertBug(r, b)
  \/ UpdateBug(r) \/ Commit(r)

Next == \E r \in Reqs : Handle(r) \/ Emit(r) \/ Fail(r)

Spec == Init /\ [][Next]_vars

-------------------------------------------------------------------------------

Entries(b) == {i \in DOMAIN audit : audit[i].bug = b}
Latest(I) == CHOOSE i \in I : \A k \in I : k <= i

\* Entries that say the bug came to a status it did not have.
Moves(b) ==
  {i \in Entries(b) : audit[i].action \in {"BUG_CREATED", "BUG_STATUS_CHANGED"}}

\* The status an entry of Moves tells.
Told(e) == IF e.action = "BUG_CREATED" THEN "OPEN" ELSE e.diff["status"][2]

Reads == [bug : Bugs \union {None}, read : Rows \union {None},
          next : Rows \union {None}, stamp : Nat]

Diffs == UNION {[C -> (Statuses \union Severities) \X (Statuses \union Severities)] :
                  C \in SUBSET Columns}
Records == [req : Reqs, org : Orgs, bug : Bugs, stamp : Nat, diff : Diffs,
            action : {"BUG_CREATED", "BUG_STATUS_CHANGED", "BUG_UPDATED"}]

\* Every variable has its type; a request past its read holds a bug of its
\* organization, and one past its write the row it leaves.
TypeOK ==
  /\ rows \in [Bugs -> Rows \union {None}]
  /\ clock \in Nat
  /\ audit \in Seq(Records)
  /\ pc \in [Reqs -> {"idle", "write", "commit", "emit", "done"}]
  /\ job \in [Reqs -> Jobs \union {None}]
  /\ loc \in [Reqs -> Reads]
  /\ answers \subseteq {"ok", "NOT_FOUND", "constraint", "failed"}
  /\ \A e \in sent : e.req \in Reqs /\ e.org \in Orgs
  /\ raced \subseteq Bugs
  /\ \A r \in Reqs :
       /\ pc[r] \in {"write", "commit", "emit"} => job[r] \in Creates \union Updates
       /\ pc[r] \in {"write", "commit"} /\ job[r].op = "update" =>
            loc[r].bug \in Bugs /\ loc[r].read \in Rows
       /\ pc[r] \in {"commit", "emit"} => loc[r].bug \in Bugs /\ loc[r].next \in Rows

\* However updates race, a resolved bug carries resolvedAt: a request that saw it
\* resolved does not stamp it, but then it has been stamped and stays so (update).
ResolvedIsStamped ==
  \A b \in Bugs : rows[b] # None /\ rows[b].status = "RESOLVED" => rows[b].resolvedAt # None

\* The latest entry that claims a change of status tells the status, and the
\* latest that claims a resolution tells when it was resolved; both unless an
\* update was decided on a status that had changed meanwhile (update, diffFields).
LogTellsStatus ==
  \A b \in Bugs \ raced : rows[b] # None =>
    /\ Moves(b) # {} /\ rows[b].status = Told(audit[Latest(Moves(b))])
    /\ rows[b].status = "RESOLVED" => rows[b].resolvedAt = audit[Latest(Moves(b))].req

\* A request that names a row of another organization learns nothing of it: it is
\* answered like one that names no row, never by the database's own constraint; and a
\* bug stays in one organization with its run case, its log and what is sent of it,
\* which is sent only for a commit (applyTenantScope, "존재 은닉"; emitBug*).
OrgsStayApart ==
  /\ answers \subseteq {"NOT_FOUND"}
  /\ \A b \in Bugs : rows[b] # None => KeyHolds(rows[b].org, rows[b].case)
  /\ \A i \in DOMAIN audit : audit[i].org = rows[audit[i].bug].org
  /\ \A e \in sent : \E i \in DOMAIN audit :
       audit[i].req = e.req /\ audit[i].bug = e.bug /\ audit[i].org = e.org
===============================================================================
