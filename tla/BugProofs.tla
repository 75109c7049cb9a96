------------------------------- MODULE BugProofs -------------------------------
(***************************************************************************)
(* Bug reports for any organizations, bugs, run cases and requests: types, *)
(* the separation of the organizations, the stamp of resolved bugs, what   *)
(* the log tells, and what a browser's list and its walk through the log   *)
(* show.                                                                   *)
(***************************************************************************)
EXTENDS OrgScreens, FiniteSetTheorems, TLAPS

\* A request in one of its transactions, past the lookup.
Working(r) == pc[r] \in {"write", "commit", "emit"}

LEMMA InitTypeOK == Init => TypeOK
  BY DEF Init, TypeOK, NoRead, Reads, Records

\* A request that is answered, or goes on with what it has.
LEMMA ReplyType ==
  ASSUME TypeOK, NEW r \in Reqs, NEW j, NEW a, Reply(r, j, a),
         a \in {"NOT_FOUND", "constraint", "failed", "ok"}
  PROVE  /\ pc' = [pc EXCEPT ![r] = "done"]
         /\ job' \in [Reqs -> Jobs \union {None}] /\ loc' \in [Reqs -> Reads]
         /\ answers' \subseteq {"ok", "NOT_FOUND", "constraint", "failed"}
         /\ \A s \in Reqs : s # r => job'[s] = job[s] /\ loc'[s] = loc[s]
  BY DEF Reply, Reach, TypeOK, NoRead, Reads

LEMMA DiffType ==
  ASSUME NEW old \in Rows, NEW new \in Rows, NEW keys \in SUBSET Columns
  PROVE  diffFields(old, new, keys) \in Diffs
  <1> DEFINE C == {k \in keys : old[k] # new[k]}
  <1>1. C \in SUBSET Columns
    OBVIOUS
  <1>2. \A k \in C : /\ old[k] \in Statuses \union Severities
                     /\ new[k] \in Statuses \union Severities
    BY <1>1 DEF Columns, Rows
  <1>3. diffFields(old, new, keys)
          \in [C -> (Statuses \union Severities) \X (Statuses \union Severities)]
    BY <1>2 DEF diffFields
  <1>4. QED
    BY <1>1, <1>3 DEF Diffs

LEMMA EntryType ==
  ASSUME TypeOK, NEW r \in Reqs, pc[r] = "commit"
  PROVE  Entry(r) \in Records
  <1>1. /\ loc[r].bug \in Bugs /\ loc[r].next \in Rows /\ loc[r].stamp \in Nat
        /\ job[r] \in Creates \union Updates
    BY DEF TypeOK, Reads, Jobs, Creates, Updates, Gets
  <1>2. CASE job[r].op = "create"
    <2>1. job[r].org \in Orgs
      BY <1>1 DEF Creates, Updates
    <2>2. <<>> \in Diffs
      BY DEF Diffs
    <2>3. QED
      BY <1>1, <1>2, <2>1, <2>2 DEF Entry, Records
  <1>3. CASE job[r].op = "update"
    <2>1. job[r].org \in Orgs /\ job[r].set \in Changes /\ loc[r].read \in Rows
      BY <1>1, <1>3 DEF Creates, Updates, TypeOK
    <2>2. DOMAIN job[r].set \in SUBSET Columns
      BY <2>1, ChangesAssumption
    <2>3. diffFields(loc[r].read, loc[r].next, DOMAIN job[r].set) \in Diffs
      BY <1>1, <2>1, <2>2, DiffType
    <2>4. QED
      BY <1>1, <1>3, <2>1, <2>3 DEF Entry, Records, Action
  <1>4. QED
    BY <1>1, <1>2, <1>3 DEF Creates, Updates

\* The row an update leaves.
LEMMA UpdatedRow ==
  ASSUME TypeOK, NEW r \in Reqs, UpdateBug(r), rows[loc[r].bug] \in Rows
  PROVE  /\ loc' \in [Reqs -> Reads]
         /\ loc'[r].next \in Rows /\ loc'[r].bug = loc[r].bug /\ loc'[r].read = loc[r].read
         /\ loc'[r].next.org = rows[loc[r].bug].org
         /\ loc'[r].next.case = rows[loc[r].bug].case
         /\ loc'[r].next.status = Asked(job[r].set, "status", rows[loc[r].bug].status)
         /\ loc'[r].next.status # rows[loc[r].bug].status =>
              "status" \in DOMAIN job[r].set /\ loc'[r].next.status = job[r].set["status"]
         /\ loc'[r].next.resolvedAt
              = ResolvedAt(r, job[r].set, loc[r].read.status, rows[loc[r].bug].resolvedAt)
         /\ \A s \in Reqs : s # r => loc'[s] = loc[s]
  <1> DEFINE row == rows[loc[r].bug]
             d == job[r].set
             new == [row EXCEPT
                       !.status = Asked(d, "status", row.status),
                       !.severity = Asked(d, "severity", row.severity),
                       !.resolvedAt = ResolvedAt(r, d, loc[r].read.status, row.resolvedAt)]
  <1>1. /\ d \in Changes /\ loc[r] \in Reads /\ row \in Rows
      BY DEF UpdateBug, TypeOK, Jobs, Creates, Updates, Gets
  <1>2. /\ Asked(d, "status", row.status) \in Statuses
        /\ Asked(d, "severity", row.severity) \in Severities
        /\ ResolvedAt(r, d, loc[r].read.status, row.resolvedAt) \in Reqs \union {None}
    BY <1>1, ChangesAssumption DEF Asked, ResolvedAt, Rows
  <1>3. new \in Rows
    BY <1>1, <1>2 DEF Rows
  <1>t. PICK t : t = clock' /\ t \in Nat
    BY DEF UpdateBug, Now, TypeOK
  <1>4. loc' = [loc EXCEPT ![r].stamp = t, ![r].next = new]
    BY <1>t DEF UpdateBug
  <1>5. /\ new.org = row.org /\ new.case = row.case
        /\ new.status = Asked(d, "status", row.status)
        /\ new.resolvedAt = ResolvedAt(r, d, loc[r].read.status, row.resolvedAt)
    BY <1>1 DEF Rows
  <1> HIDE DEF new
  <1>6. /\ loc'[r].next = new /\ loc'[r].bug = loc[r].bug /\ loc'[r].read = loc[r].read
        /\ loc' \in [Reqs -> Reads]
        /\ \A s \in Reqs : s # r => loc'[s] = loc[s]
    <2>1. loc \in [Reqs -> Reads] /\ t \in Nat /\ new \in Rows \union {None}
      BY <1>t, <1>3 DEF TypeOK
    <2>2. [loc[r] EXCEPT !.stamp = t, !.next = new] \in Reads
      BY <1>1, <2>1 DEF Reads
    <2>3. loc' = [loc EXCEPT ![r] = [loc[r] EXCEPT !.stamp = t, !.next = new]]
      BY <1>4, <2>1
    <2>4. loc'[r] = [loc[r] EXCEPT !.stamp = t, !.next = new]
      BY <2>1, <2>3
    <2>5. QED
      BY <1>1, <2>1, <2>2, <2>3, <2>4 DEF Reads
  <1>7. QED
    BY <1>3, <1>5, <1>6 DEF Asked

-------------------------------------------------------------------------------
\* What the rows, the requests and the log have to do with each other

\* An update past its lookup has found a row of its organization, which stays; a
\* creation past its lookup names a run case of its organization, and takes an id
\* that nobody has.
RequestsOwnTheirRows ==
  \A r \in Reqs : Working(r) =>
    /\ job[r].op = "update" =>
         /\ loc[r].bug = job[r].bug /\ rows[loc[r].bug] # None
         /\ rows[loc[r].bug].org = job[r].org
    /\ job[r].op = "create" => KeyHolds(job[r].org, job[r].case)

\* Between write and commit a request has the row to itself, and what it leaves is
\* of the same organization and keeps the stamp.
WritersAreAlone ==
  \A r \in Reqs : pc[r] = "commit" =>
    /\ \A s \in Reqs : pc[s] = "commit" /\ loc[s].bug = loc[r].bug => s = r
    /\ loc[r].next.org = job[r].org
    /\ KeyHolds(loc[r].next.org, loc[r].next.case)
    /\ job[r].op = "create" => rows[loc[r].bug] = None
    /\ job[r].op = "update" /\ rows[loc[r].bug].resolvedAt # None =>
         loc[r].next.resolvedAt # None

\* Who has seen a bug resolved has seen it stamped, and it stays stamped.
SeenIsStamped ==
  \A r \in Reqs :
    /\ pc[r] = "write" /\ job[r].op = "update" /\ loc[r].read.status = "RESOLVED" =>
         rows[loc[r].bug].resolvedAt # None
    /\ pc[r] = "commit" /\ loc[r].next.status = "RESOLVED" => loc[r].next.resolvedAt # None

\* A commit is in the log.
CommitsAreLogged ==
  \A r \in Reqs : pc[r] = "emit" =>
    \E i \in DOMAIN audit :
      audit[i].req = r /\ audit[i].bug = loc[r].bug /\ audit[i].org = job[r].org

LogKnowsRows == \A i \in DOMAIN audit : rows[audit[i].bug] # None

BugInv ==
  /\ TypeOK
  /\ RequestsOwnTheirRows /\ WritersAreAlone /\ SeenIsStamped
  /\ CommitsAreLogged /\ LogKnowsRows
  /\ ResolvedIsStamped /\ OrgsStayApart

LEMMA InitBugInv == Init => BugInv
  BY InitTypeOK
  DEF Init, BugInv, RequestsOwnTheirRows, Working, WritersAreAlone, SeenIsStamped,
      CommitsAreLogged, LogKnowsRows, ResolvedIsStamped, OrgsStayApart

\* A request that is over, or has written nothing, disturbs none of it.
LEMMA Ends ==
  ASSUME BugInv, NEW r \in Reqs, NEW j, NEW a, Reply(r, j, a),
         a \in {"NOT_FOUND", "constraint", "failed", "ok"}, Foreign(j) => a = "NOT_FOUND",
         UNCHANGED <<rows, audit, raced>>, clock' \in Nat,
         sent' \in {sent, sent \union {Event(r)}}, sent' # sent => pc[r] = "emit"
  PROVE  BugInv'
  <1>1. TypeOK'
    <2>1. \A e \in sent' : e.req \in Reqs /\ e.org \in Orgs
      BY DEF BugInv, TypeOK, Event, Jobs, Creates, Updates, Gets
    <2>2. QED
      BY <2>1, ReplyType DEF BugInv, TypeOK
  <1>2. /\ pc'[r] = "done" /\ \A s \in Reqs : s # r => pc'[s] = pc[s]
        /\ \A s \in Reqs : s # r => job'[s] = job[s] /\ loc'[s] = loc[s]
    BY ReplyType DEF BugInv, TypeOK
  <1>3. RequestsOwnTheirRows'
    BY <1>2 DEF BugInv, RequestsOwnTheirRows, Working, KeyHolds
  <1>4. WritersAreAlone'
    BY <1>2 DEF BugInv, WritersAreAlone, KeyHolds
  <1>5. SeenIsStamped'
    BY <1>2 DEF BugInv, SeenIsStamped
  <1>6. CommitsAreLogged'
    BY <1>2 DEF BugInv, CommitsAreLogged
  <1>7. LogKnowsRows' /\ ResolvedIsStamped'
    BY DEF BugInv, LogKnowsRows, ResolvedIsStamped
  <1>8. OrgsStayApart'
    <2>1. answers' \subseteq {"NOT_FOUND"}
      BY DEF BugInv, OrgsStayApart, Reply
    <2>2. \A e \in sent' : \E i \in DOMAIN audit :
            audit[i].req = e.req /\ audit[i].bug = e.bug /\ audit[i].org = e.org
      BY DEF BugInv, OrgsStayApart, CommitsAreLogged, Event
    <2>3. QED
      BY <2>1, <2>2 DEF BugInv, OrgsStayApart, KeyHolds
  <1>9. QED
    BY <1>1, <1>3, <1>4, <1>5, <1>6, <1>7, <1>8 DEF BugInv

\* A request that goes on without touching the database.
LEMMA GoesOn ==
  ASSUME TypeOK, NEW r \in Reqs, NEW j \in Jobs, NEW to, Go(r, j, to),
         to \in {"write", "commit", "emit"}
  PROVE  /\ pc' \in [Reqs -> {"idle", "write", "commit", "emit", "done"}]
         /\ pc'[r] = to /\ \A s \in Reqs : s # r => pc'[s] = pc[s]
         /\ job' \in [Reqs -> Jobs \union {None}]
         /\ job'[r] = j /\ \A s \in Reqs : s # r => job'[s] = job[s]
         /\ answers' = answers
  BY DEF Go, Reach, TypeOK

LEMMA NextBugInv == BugInv /\ [Next]_vars => BugInv'
  <1> SUFFICES ASSUME BugInv, [Next]_vars PROVE BugInv'
    OBVIOUS
  <1>w. ASSUME NEW r \in Reqs, Working(r) PROVE ~Foreign(job[r])
    <2>1. job[r].op \in {"create", "update"}
      BY <1>w DEF BugInv, TypeOK, Working, Creates, Updates
    <2>2. QED
      BY <1>w, <2>1 DEF BugInv, RequestsOwnTheirRows, Working, Foreign, KeyHolds
  <1>1. ASSUME NEW r \in Reqs, NEW j \in Creates, FindCase(r, j) PROVE BugInv'
    <2>1. pc[r] = "idle" /\ j \in Jobs /\ j.op = "create"
          /\ UNCHANGED <<rows, audit, clock, sent, raced>>
      BY <1>1 DEF FindCase, Receive, Creates, Jobs
    <2>2. CASE Go(r, j, "write") /\ UNCHANGED loc /\ KeyHolds(j.org, j.case)
      <3>1. TypeOK'
        <4>1. /\ pc' \in [Reqs -> {"idle", "write", "commit", "emit", "done"}]
              /\ pc'[r] = "write" /\ \A s \in Reqs : s # r => pc'[s] = pc[s]
              /\ job' \in [Reqs -> Jobs \union {None}]
              /\ job'[r] = j /\ \A s \in Reqs : s # r => job'[s] = job[s]
              /\ answers' = answers
          BY <2>1, <2>2, GoesOn DEF BugInv
        <4>2. QED
          BY <2>1, <2>2, <4>1 DEF BugInv, TypeOK
      <3>2. RequestsOwnTheirRows'
        BY <2>1, <2>2, GoesOn DEF BugInv, RequestsOwnTheirRows, Working, KeyHolds
      <3>3. WritersAreAlone' /\ SeenIsStamped' /\ CommitsAreLogged'
        BY <2>1, <2>2, GoesOn
        DEF BugInv, WritersAreAlone, SeenIsStamped, CommitsAreLogged, KeyHolds
      <3>4. LogKnowsRows' /\ ResolvedIsStamped' /\ OrgsStayApart'
        BY <2>1, <2>2, GoesOn DEF BugInv, LogKnowsRows, ResolvedIsStamped, OrgsStayApart, KeyHolds
      <3>5. QED
        BY <3>1, <3>2, <3>3, <3>4 DEF BugInv
    <2>3. CASE Reply(r, j, "NOT_FOUND")
      BY <2>1, <2>3, Ends DEF BugInv, TypeOK
    <2>4. QED
      BY <1>1, <2>2, <2>3 DEF FindCase, InScope, KeyHolds
  <1>2. ASSUME NEW r \in Reqs, NEW j \in Updates, FindBug(r, j) PROVE BugInv'
    <2>1. pc[r] = "idle" /\ j \in Jobs /\ j.op = "update" /\ j.bug \in Bugs
          /\ UNCHANGED <<rows, audit, clock, sent, raced>>
      BY <1>2 DEF FindBug, Receive, Updates, Jobs
    <2>2. CASE /\ Found(j) /\ Go(r, j, "write")
               /\ loc' = [loc EXCEPT ![r].bug = j.bug, ![r].read = rows[j.bug]]
      <3>1. rows[j.bug] \in Rows /\ rows[j.bug] # None /\ rows[j.bug].org = j.org
        BY <2>1, <2>2 DEF Found, InScope, BugInv, TypeOK
      <3>2. /\ loc' \in [Reqs -> Reads] /\ loc'[r].bug = j.bug /\ loc'[r].read = rows[j.bug]
            /\ \A s \in Reqs : s # r => loc'[s] = loc[s]
        <4>1. loc[r] \in Reads /\ [loc[r] EXCEPT !.bug = j.bug, !.read = rows[j.bug]] \in Reads
          <5>1. loc[r] \in Reads /\ j.bug \in Bugs /\ rows[j.bug] \in Rows
            BY <2>1, <3>1 DEF BugInv, TypeOK
          <5>2. QED
            BY <5>1 DEF Reads
        <4>2. loc' = [loc EXCEPT ![r] = [loc[r] EXCEPT !.bug = j.bug, !.read = rows[j.bug]]]
          BY <2>2 DEF BugInv, TypeOK
        <4>3. QED
          BY <4>1, <4>2 DEF BugInv, TypeOK, Reads
      <3>3. TypeOK'
        BY <2>1, <2>2, <3>1, <3>2, GoesOn DEF BugInv, TypeOK
      <3>4. RequestsOwnTheirRows'
        BY <2>1, <2>2, <3>1, <3>2, GoesOn DEF BugInv, RequestsOwnTheirRows, Working, KeyHolds
      <3>5. WritersAreAlone' /\ CommitsAreLogged'
        BY <2>1, <2>2, <3>2, GoesOn DEF BugInv, WritersAreAlone, CommitsAreLogged, KeyHolds
      <3>6. SeenIsStamped'
        BY <2>1, <2>2, <3>1, <3>2, GoesOn DEF BugInv, SeenIsStamped, ResolvedIsStamped
      <3>7. LogKnowsRows' /\ ResolvedIsStamped' /\ OrgsStayApart'
        BY <2>1, <2>2, GoesOn DEF BugInv, LogKnowsRows, ResolvedIsStamped, OrgsStayApart, KeyHolds
      <3>8. QED
        BY <3>3, <3>4, <3>5, <3>6, <3>7 DEF BugInv
    <2>3. CASE Reply(r, j, "NOT_FOUND")
      BY <2>1, <2>3, Ends DEF BugInv, TypeOK
    <2>4. QED
      BY <1>2, <2>2, <2>3 DEF FindBug
  <1>3. ASSUME NEW r \in Reqs, NEW j \in Gets, getOne(r, j) PROVE BugInv'
    <2>1. Foreign(j) => ~Found(j)
      BY DEF Gets, Foreign, Found, InScope
    <2>2. QED
      BY <1>3, <2>1, Ends DEF getOne, Receive, BugInv, TypeOK
  <1>4. ASSUME NEW r \in Reqs, NEW b \in Bugs, InsertBug(r, b) PROVE BugInv'
    <2> DEFINE j == job[r]
               new == [org |-> j.org, case |-> j.case, status |-> "OPEN",
                       severity |-> "MAJOR", resolvedAt |-> None]
    <2>1. /\ pc[r] = "write" /\ j.op = "create" /\ j \in Creates /\ ~Taken(b)
          /\ UNCHANGED <<rows, audit, sent, raced>>
      BY <1>4 DEF InsertBug, BugInv, TypeOK, Jobs, Creates, Updates, Gets
    <2>2. KeyHolds(j.org, j.case)
      BY <2>1 DEF BugInv, RequestsOwnTheirRows, Working
    <2>t. PICK t : t = clock' /\ t \in Nat
      BY <1>4, <2>2 DEF InsertBug, Now, BugInv, TypeOK
    <2>3. /\ Go(r, j, "commit") /\ clock' = t /\ t \in Nat
          /\ loc' = [loc EXCEPT ![r] = [bug |-> b, read |-> None, stamp |-> t, next |-> new]]
      BY <1>4, <2>2, <2>t DEF InsertBug
    <2>4. new \in Rows
      BY <2>1 DEF Rows, Creates, Statuses, Severities
    <2>5. /\ loc' \in [Reqs -> Reads] /\ loc'[r].bug = b /\ loc'[r].next = new
          /\ \A s \in Reqs : s # r => loc'[s] = loc[s]
      BY <2>3, <2>4 DEF BugInv, TypeOK, Reads
    <2>6. /\ pc'[r] = "commit" /\ \A s \in Reqs : s # r => pc'[s] = pc[s]
          /\ job'[r] = j /\ \A s \in Reqs : s # r => job'[s] = job[s]
          /\ answers' = answers
      BY <2>1, <2>3, GoesOn DEF BugInv, Jobs
    <2>7. TypeOK'
      BY <2>1, <2>3, <2>4, <2>5, <2>6, GoesOn DEF BugInv, TypeOK, Jobs
    <2>8. rows[b] = None /\ \A s \in Reqs : pc[s] = "commit" => loc[s].bug # b
      BY <2>1 DEF Taken
    <2>9. RequestsOwnTheirRows'
      BY <2>1, <2>2, <2>5, <2>6 DEF BugInv, RequestsOwnTheirRows, Working, KeyHolds
    <2>10. WritersAreAlone'
      BY <2>1, <2>2, <2>5, <2>6, <2>8 DEF BugInv, WritersAreAlone, KeyHolds
    <2>11. SeenIsStamped' /\ CommitsAreLogged'
      BY <2>1, <2>5, <2>6 DEF BugInv, SeenIsStamped, CommitsAreLogged
    <2>12. LogKnowsRows' /\ ResolvedIsStamped' /\ OrgsStayApart'
      BY <2>1, <2>6 DEF BugInv, LogKnowsRows, ResolvedIsStamped, OrgsStayApart, KeyHolds
    <2>13. QED
      BY <2>7, <2>9, <2>10, <2>11, <2>12 DEF BugInv
  <1>5. ASSUME NEW r \in Reqs, UpdateBug(r) PROVE BugInv'
    <2>1. /\ pc[r] = "write" /\ job[r].op = "update" /\ job[r] \in Jobs
          /\ Go(r, job[r], "commit") /\ clock' \in Nat
          /\ \A s \in Reqs : pc[s] = "commit" => loc[s].bug # loc[r].bug
          /\ UNCHANGED <<rows, audit, sent>>
          /\ raced' \in {raced, raced \union {loc[r].bug}}
      <3>1. job[r] \in Jobs
        BY <1>5 DEF UpdateBug, BugInv, TypeOK, Jobs
      <3>2. QED
        BY <1>5, <3>1 DEF UpdateBug, Now, BugInv, TypeOK
    <2>2. /\ loc[r].bug \in Bugs /\ rows[loc[r].bug] \in Rows
          /\ rows[loc[r].bug] # None /\ rows[loc[r].bug].org = job[r].org
          /\ loc[r].bug = job[r].bug
      BY <2>1 DEF BugInv, TypeOK, RequestsOwnTheirRows, Working
    <2> DEFINE row == rows[loc[r].bug]
               new == loc'[r].next
    <2>3. /\ loc' \in [Reqs -> Reads] /\ new \in Rows /\ loc'[r].bug = loc[r].bug
          /\ loc'[r].read = loc[r].read
          /\ new.org = row.org /\ new.case = row.case
          /\ new.status # row.status =>
               "status" \in DOMAIN job[r].set /\ new.status = job[r].set["status"]
          /\ new.resolvedAt = ResolvedAt(r, job[r].set, loc[r].read.status, row.resolvedAt)
          /\ \A s \in Reqs : s # r => loc'[s] = loc[s]
      BY <1>5, <2>2, UpdatedRow DEF BugInv
    <2>4. /\ pc'[r] = "commit" /\ \A s \in Reqs : s # r => pc'[s] = pc[s]
          /\ job'[r] = job[r] /\ \A s \in Reqs : s # r => job'[s] = job[s]
          /\ answers' = answers
      BY <2>1, GoesOn DEF BugInv
    <2> HIDE DEF new
    <2>5. TypeOK'
      BY <2>1, <2>2, <2>3, <2>4, GoesOn DEF BugInv, TypeOK, new
    <2>6. RequestsOwnTheirRows'
      BY <2>1, <2>2, <2>3, <2>4 DEF BugInv, RequestsOwnTheirRows, Working, KeyHolds
    <2>7. KeyHolds(new.org, new.case)
      BY <2>2, <2>3 DEF BugInv, OrgsStayApart
    <2>8. row.resolvedAt # None => new.resolvedAt # None
      BY <2>3, NoneAssumption DEF ResolvedAt
    <2>9. new.status = "RESOLVED" => new.resolvedAt # None
      <3>1. CASE row.status = "RESOLVED"
        BY <2>2, <2>8, <3>1 DEF BugInv, ResolvedIsStamped
      <3>2. CASE row.status # "RESOLVED" /\ loc[r].read.status = "RESOLVED"
        BY <2>1, <2>8, <3>2 DEF BugInv, SeenIsStamped
      <3>3. CASE row.status # "RESOLVED" /\ loc[r].read.status # "RESOLVED"
        BY <2>3, <3>3, NoneAssumption DEF ResolvedAt
      <3>4. QED
        BY <3>1, <3>2, <3>3
    <2>10. WritersAreAlone'
      BY <2>1, <2>2, <2>3, <2>4, <2>7, <2>8 DEF BugInv, WritersAreAlone, KeyHolds, new
    <2>11. SeenIsStamped' /\ CommitsAreLogged'
      BY <2>1, <2>3, <2>4, <2>9 DEF BugInv, SeenIsStamped, CommitsAreLogged, new
    <2>12. LogKnowsRows' /\ ResolvedIsStamped' /\ OrgsStayApart'
      BY <2>1, <2>4 DEF BugInv, LogKnowsRows, ResolvedIsStamped, OrgsStayApart, KeyHolds
    <2>13. QED
      BY <2>5, <2>6, <2>10, <2>11, <2>12 DEF BugInv
  <1>6. ASSUME NEW r \in Reqs, Commit(r) PROVE BugInv'
    <2> DEFINE b == loc[r].bug
               new == loc[r].next
    <2>1. /\ pc[r] = "commit" /\ Go(r, job[r], "emit")
          /\ rows' = [rows EXCEPT ![b] = new]
          /\ audit' = Append(audit, Entry(r))
          /\ UNCHANGED <<clock, loc, sent, raced>>
      BY <1>6 DEF Commit
    <2>2. /\ b \in Bugs /\ new \in Rows /\ new # None
          /\ job[r] \in Jobs /\ job[r].op \in {"create", "update"}
      <3>1. job[r] \in Creates \union Updates
        BY <2>1 DEF BugInv, TypeOK
      <3>2. QED
        BY <2>1, <3>1, NoRowAssumption DEF BugInv, TypeOK, Creates, Updates, Jobs
    <2>3. /\ rows'[b] = new /\ \A x \in Bugs : x # b => rows'[x] = rows[x]
          /\ rows' \in [Bugs -> Rows \union {None}]
      BY <2>1, <2>2 DEF BugInv, TypeOK
    <2>4. /\ pc'[r] = "emit" /\ \A s \in Reqs : s # r => pc'[s] = pc[s]
          /\ job'[r] = job[r] /\ \A s \in Reqs : s # r => job'[s] = job[s]
          /\ answers' = answers
      BY <2>1, <2>2, GoesOn DEF BugInv
    <2>5. /\ audit' \in Seq(Records) /\ DOMAIN audit \subseteq DOMAIN audit'
          /\ \A i \in DOMAIN audit : audit'[i] = audit[i]
          /\ \A i \in DOMAIN audit' : i \in DOMAIN audit \/ audit'[i] = Entry(r)
          /\ \E i \in DOMAIN audit' : audit'[i] = Entry(r)
      <3>1. Entry(r) \in Records /\ audit \in Seq(Records)
        BY <2>1, EntryType DEF BugInv, TypeOK
      <3> HIDE DEF b, new
      <3>2. QED
        BY <2>1, <3>1
    <2>6. Entry(r).req = r /\ Entry(r).bug = b /\ Entry(r).org = job[r].org
      BY DEF Entry
    <2>7. \A i \in DOMAIN audit : audit[i].bug \in Bugs
      <3>1. \A i \in DOMAIN audit : audit[i] \in Records
        BY DEF BugInv, TypeOK
      <3>2. QED
        BY <3>1 DEF Records
    <2>8. /\ new.org = job[r].org /\ KeyHolds(new.org, new.case)
          /\ \A s \in Reqs : pc[s] = "commit" /\ loc[s].bug = b => s = r
          /\ rows[b] # None => rows[b].org = new.org
          /\ rows[b] # None /\ rows[b].resolvedAt # None => new.resolvedAt # None
          /\ new.status = "RESOLVED" => new.resolvedAt # None
      BY <2>1, <2>2 DEF BugInv, WritersAreAlone, SeenIsStamped, RequestsOwnTheirRows, Working
    <2> HIDE DEF b, new
    <2>9. TypeOK'
      BY <2>1, <2>2, <2>3, <2>4, <2>5, GoesOn DEF BugInv, TypeOK
    <2>10. \A s \in Reqs : Working(s)' => Working(s)
      BY <2>1, <2>4 DEF Working
    <2>11. \A s \in Reqs : Working(s) /\ job[s].op = "update" =>
             loc[s].bug \in Bugs /\ rows[loc[s].bug] # None
      BY DEF BugInv, TypeOK, RequestsOwnTheirRows, Working
    <2>12. RequestsOwnTheirRows'
      BY <2>1, <2>2, <2>3, <2>4, <2>8, <2>10, <2>11 DEF BugInv, RequestsOwnTheirRows, KeyHolds
    <2>13. \A s \in Reqs : pc'[s] = "commit" =>
             s # r /\ pc[s] = "commit" /\ loc[s].bug # b /\ loc[s].bug \in Bugs
      BY <2>4, <2>8 DEF BugInv, TypeOK
    <2>14. WritersAreAlone'
      BY <2>1, <2>3, <2>4, <2>13 DEF BugInv, WritersAreAlone, KeyHolds
    <2>15. SeenIsStamped'
      BY <2>1, <2>3, <2>4, <2>8, <2>11, <2>13 DEF BugInv, SeenIsStamped, Working
    <2>16. CommitsAreLogged'
      <3>1. SUFFICES ASSUME NEW s \in Reqs, pc'[s] = "emit"
                     PROVE  \E i \in DOMAIN audit' :
                              /\ audit'[i].req = s /\ audit'[i].bug = loc'[s].bug
                              /\ audit'[i].org = job'[s].org
        BY DEF CommitsAreLogged
      <3>2. CASE s = r
        BY <2>1, <2>4, <2>5, <2>6, <3>2 DEF b
      <3>3. CASE s # r
        <4>1. /\ loc'[s] = loc[s] /\ job'[s] = job[s]
              /\ \E i \in DOMAIN audit :
                   audit[i].req = s /\ audit[i].bug = loc[s].bug /\ audit[i].org = job[s].org
          BY <2>1, <2>4, <3>1, <3>3 DEF BugInv, CommitsAreLogged
        <4>2. QED
          BY <2>5, <4>1
      <3>4. QED
        BY <3>2, <3>3
    <2>17. LogKnowsRows'
      BY <2>2, <2>3, <2>5, <2>6, <2>7 DEF BugInv, LogKnowsRows
    <2>18. ResolvedIsStamped'
      BY <2>3, <2>8 DEF BugInv, ResolvedIsStamped
    <2>19. OrgsStayApart'
      <3>1. \A i \in DOMAIN audit' : audit'[i].org = rows'[audit'[i].bug].org
        BY <2>3, <2>5, <2>6, <2>7, <2>8 DEF BugInv, OrgsStayApart, LogKnowsRows
      <3>2. \A x \in Bugs : rows'[x] # None => KeyHolds(rows'[x].org, rows'[x].case)
        BY <2>3, <2>8 DEF BugInv, OrgsStayApart
      <3>3. QED
        BY <2>1, <2>4, <2>5, <3>1, <3>2 DEF BugInv, OrgsStayApart, KeyHolds
    <2>20. QED
      BY <2>9, <2>12, <2>14, <2>15, <2>16, <2>17, <2>18, <2>19 DEF BugInv
  <1>7. ASSUME NEW r \in Reqs, Emit(r) PROVE BugInv'
    BY <1>7, <1>w, Ends DEF Emit, Working, BugInv, TypeOK
  <1>8. ASSUME NEW r \in Reqs, Fail(r) PROVE BugInv'
    BY <1>8, <1>w, Ends DEF Fail, Working, BugInv, TypeOK
  <1>9. CASE UNCHANGED vars
    BY <1>9
    DEF vars, BugInv, TypeOK, RequestsOwnTheirRows, Working, WritersAreAlone, SeenIsStamped,
        CommitsAreLogged, LogKnowsRows, ResolvedIsStamped, OrgsStayApart, KeyHolds
  <1>10. QED
    BY <1>1, <1>2, <1>3, <1>4, <1>5, <1>6, <1>7, <1>8, <1>9 DEF Next, Handle

-------------------------------------------------------------------------------

\* Rows, requests, entries and events are well typed in every reachable state.
THEOREM TypeCorrect == Spec => []TypeOK
  BY InitBugInv, NextBugInv, PTL DEF Spec, BugInv

\* However many updates race, a resolved bug carries the stamp of a request that
\* resolved it (BugsService.update).
THEOREM ResolvedAlwaysStamped == Spec => []ResolvedIsStamped
  BY InitBugInv, NextBugInv, PTL DEF Spec, BugInv

\* For any organizations and requests, no row, entry, event or answer crosses from
\* one organization to another (applyTenantScope and the composite foreign key).
THEOREM OrgsAreApart == Spec => []OrgsStayApart
  BY InitBugInv, NextBugInv, PTL DEF Spec, BugInv

-------------------------------------------------------------------------------
\* The log tells the status

\* LogTellsStatus of one bug, said of an entry that is there instead of a chosen one.
StatusTold(b) ==
  \E k \in Moves(b) :
    /\ \A i \in Moves(b) : i <= k
    /\ rows[b].status = Told(audit[k])
    /\ rows[b].status = "RESOLVED" => rows[b].resolvedAt = audit[k].req

\* What is about to be committed was decided on the status the row has.
Prepared(r) ==
  pc[r] = "commit" =>
    /\ job[r].op = "create" => loc[r].next.status = "OPEN"
    /\ job[r].op = "update" /\ loc[r].bug \notin raced =>
         LET row == rows[loc[r].bug] IN
           /\ loc[r].read.status = row.status
           /\ loc[r].next.status = Asked(job[r].set, "status", row.status)
           /\ loc[r].next.resolvedAt = ResolvedAt(r, job[r].set, row.status, row.resolvedAt)

StatusInv ==
  /\ \A b \in Bugs \ raced : rows[b] # None => StatusTold(b)
  /\ \A r \in Reqs : Prepared(r)

LEMMA StatusInvTells == BugInv /\ StatusInv => LogTellsStatus
  <1> SUFFICES ASSUME BugInv, NEW b \in Bugs, StatusTold(b)
               PROVE  /\ Moves(b) # {} /\ rows[b].status = Told(audit[Latest(Moves(b))])
                      /\ rows[b].status = "RESOLVED" =>
                           rows[b].resolvedAt = audit[Latest(Moves(b))].req
    BY DEF StatusInv, LogTellsStatus
  <1>1. PICK k \in Moves(b) :
          /\ \A i \in Moves(b) : i <= k
          /\ rows[b].status = Told(audit[k])
          /\ rows[b].status = "RESOLVED" => rows[b].resolvedAt = audit[k].req
    BY DEF StatusTold
  <1>2. \A i, j \in DOMAIN audit : i <= j /\ j <= i => i = j
    BY DEF BugInv, TypeOK
  <1>3. Moves(b) \subseteq DOMAIN audit
    BY DEF Moves, Entries
  <1>4. \A j \in Moves(b) : (\A i \in Moves(b) : i <= j) <=> j = k
    BY <1>1, <1>2, <1>3
  <1>5. Latest(Moves(b)) = k
    BY <1>4 DEF Latest
  <1>6. QED
    BY <1>1, <1>5

\* A step that commits nothing leaves the rows told as they are.
LEMMA StatusFrame ==
  ASSUME BugInv, StatusInv, UNCHANGED <<rows, audit>>, raced \subseteq raced',
         NEW r \in Reqs, Prepared(r)',
         \A s \in Reqs : s # r => pc'[s] = pc[s] /\ job'[s] = job[s] /\ loc'[s] = loc[s]
  PROVE  StatusInv'
  <1>1. \A b \in Bugs \ raced' : rows'[b] # None => StatusTold(b)'
    BY DEF StatusInv, StatusTold, Moves, Entries
  <1>2. ASSUME NEW s \in Reqs PROVE Prepared(s)'
    <2>1. CASE s = r
      BY <2>1
    <2>2. CASE s # r
      BY <2>2 DEF StatusInv, Prepared
    <2>3. QED
      BY <2>1, <2>2
  <1>3. QED
    BY <1>1, <1>2 DEF StatusInv

LEMMA ReplyKeepsStatus ==
  ASSUME BugInv, StatusInv, NEW r \in Reqs, NEW j, NEW a, Reply(r, j, a),
         a \in {"NOT_FOUND", "constraint", "failed", "ok"}, UNCHANGED <<rows, audit, raced>>
  PROVE  StatusInv'
  <1>1. /\ pc'[r] = "done" /\ \A s \in Reqs : s # r => pc'[s] = pc[s]
        /\ \A s \in Reqs : s # r => job'[s] = job[s] /\ loc'[s] = loc[s]
    BY ReplyType DEF BugInv, TypeOK
  <1>2. Prepared(r)'
    BY <1>1 DEF Prepared
  <1>3. QED
    BY <1>1, <1>2, StatusFrame

\* The entry of a commit, and what it tells of the row that is left.
LEMMA CommitTold ==
  ASSUME BugInv, StatusInv, NEW r \in Reqs, pc[r] = "commit", loc[r].bug \notin raced
  PROVE  LET e == Entry(r)
             b == loc[r].bug
             new == loc[r].next
         IN \/ /\ e.action \in {"BUG_CREATED", "BUG_STATUS_CHANGED"}
               /\ new.status = Told(e)
               /\ new.status = "RESOLVED" => new.resolvedAt = e.req
            \/ /\ e.action = "BUG_UPDATED"
               /\ rows[b] # None /\ new.status = rows[b].status
               /\ new.status = "RESOLVED" => new.resolvedAt = rows[b].resolvedAt
  <1> DEFINE e == Entry(r)
             b == loc[r].bug
             new == loc[r].next
             old == loc[r].read
             d == job[r].set
  <1>1. /\ Prepared(r) /\ job[r] \in Creates \union Updates /\ new \in Rows
    BY DEF BugInv, StatusInv, TypeOK
  <1>2. CASE job[r].op = "create"
    <2>1. e.action = "BUG_CREATED"
      BY <1>2 DEF Entry
    <2>2. Told(e) = "OPEN"
      BY <2>1 DEF Told
    <2>3. QED
      BY <1>1, <1>2, <2>1, <2>2 DEF Prepared
  <1>3. CASE job[r].op = "update"
    <2>1. /\ old.status = rows[b].status
          /\ new.status = Asked(d, "status", rows[b].status)
          /\ new.resolvedAt = ResolvedAt(r, d, rows[b].status, rows[b].resolvedAt)
          /\ rows[b] # None
      BY <1>1, <1>3 DEF Prepared, BugInv, RequestsOwnTheirRows, Working
    <2>2. e.action = Action(old, new, d) /\ e.diff = diffFields(old, new, DOMAIN d) /\ e.req = r
      BY <1>3 DEF Entry
    <2> HIDE DEF e, new, old, b, d
    <2>3. CASE "status" \in DOMAIN d /\ d["status"] # old.status
      <3>1. e.action = "BUG_STATUS_CHANGED" /\ new.status = d["status"]
        BY <2>1, <2>2, <2>3 DEF Action, Asked
      <3>2. "status" \in {k \in DOMAIN d : old[k] # new[k]}
        BY <2>3, <3>1
      <3>3. e.diff["status"] = <<old["status"], new["status"]>>
        BY <2>2, <3>2 DEF diffFields
      <3>4. Told(e) = new.status
        BY <3>1, <3>3 DEF Told
      <3>5. new.status = "RESOLVED" => new.resolvedAt = r
        BY <2>1, <2>3, <3>1 DEF ResolvedAt
      <3>6. QED
        BY <2>2, <3>1, <3>4, <3>5 DEF e, new, b
    <2>4. CASE ~("status" \in DOMAIN d /\ d["status"] # old.status)
      <3>1. e.action = "BUG_UPDATED" /\ new.status = rows[b].status
        BY <2>1, <2>2, <2>4 DEF Action, Asked
      <3>2. new.status = "RESOLVED" => new.resolvedAt = rows[b].resolvedAt
        BY <2>1, <3>1 DEF ResolvedAt
      <3>3. QED
        BY <2>1, <3>1, <3>2 DEF e, new, b
    <2>5. QED
      BY <2>3, <2>4
  <1>4. QED
    BY <1>1, <1>2, <1>3 DEF Creates, Updates

LEMMA StatusStep ==
  ASSUME BugInv, StatusInv, [Next]_vars
  PROVE  StatusInv'
  <1>1. ASSUME NEW r \in Reqs, NEW j \in Creates, FindCase(r, j) PROVE StatusInv'
    <2>1. CASE Go(r, j, "write") /\ UNCHANGED loc
      <3>1. /\ pc'[r] = "write"
            /\ \A s \in Reqs : s # r => pc'[s] = pc[s] /\ job'[s] = job[s] /\ loc'[s] = loc[s]
        BY <2>1, GoesOn DEF BugInv, Jobs
      <3>2. QED
        BY <1>1, <3>1, StatusFrame DEF FindCase, Receive, Prepared
    <2>2. CASE Reply(r, j, "NOT_FOUND")
      BY <1>1, <2>2, ReplyKeepsStatus DEF FindCase, Receive
    <2>3. QED
      BY <1>1, <2>1, <2>2 DEF FindCase
  <1>2. ASSUME NEW r \in Reqs, NEW j \in Updates, FindBug(r, j) PROVE StatusInv'
    <2>1. CASE /\ Go(r, j, "write")
               /\ loc' = [loc EXCEPT ![r].bug = j.bug, ![r].read = rows[j.bug]]
      <3>1. /\ pc'[r] = "write"
            /\ \A s \in Reqs : s # r => pc'[s] = pc[s] /\ job'[s] = job[s]
        BY <2>1, GoesOn DEF BugInv, Jobs
      <3>2. \A s \in Reqs : s # r => loc'[s] = loc[s]
        BY <2>1 DEF BugInv, TypeOK
      <3>3. QED
        BY <1>2, <3>1, <3>2, StatusFrame DEF FindBug, Receive, Prepared
    <2>2. CASE Reply(r, j, "NOT_FOUND")
      BY <1>2, <2>2, ReplyKeepsStatus DEF FindBug, Receive
    <2>3. QED
      BY <1>2, <2>1, <2>2 DEF FindBug
  <1>3. ASSUME NEW r \in Reqs, NEW j \in Gets, getOne(r, j) PROVE StatusInv'
    BY <1>3, ReplyKeepsStatus DEF getOne, Receive
  <1>4. ASSUME NEW r \in Reqs, NEW b \in Bugs, InsertBug(r, b) PROVE StatusInv'
    <2>1. /\ pc[r] = "write" /\ job[r].op = "create" /\ job[r] \in Jobs
          /\ UNCHANGED <<rows, audit, raced>>
      BY <1>4 DEF InsertBug, BugInv, TypeOK, Jobs
    <2>2. CASE KeyHolds(job[r].org, job[r].case)
      <3>1. /\ Go(r, job[r], "commit")
            /\ loc' = [loc EXCEPT ![r] =
                 [bug |-> b, read |-> None, stamp |-> clock',
                  next |-> [org |-> job[r].org, case |-> job[r].case, status |-> "OPEN",
                            severity |-> "MAJOR", resolvedAt |-> None]]]
        BY <1>4, <2>2 DEF InsertBug
      <3>2. /\ loc'[r].next.status = "OPEN" /\ job'[r] = job[r]
            /\ \A s \in Reqs : s # r => pc'[s] = pc[s] /\ job'[s] = job[s] /\ loc'[s] = loc[s]
        BY <2>1, <3>1, GoesOn DEF BugInv, TypeOK
      <3>3. Prepared(r)'
        BY <2>1, <3>2 DEF Prepared
      <3>4. QED
        BY <2>1, <3>2, <3>3, StatusFrame
    <2>3. CASE ~KeyHolds(job[r].org, job[r].case)
      BY <1>4, <2>1, <2>3, ReplyKeepsStatus DEF InsertBug
    <2>4. QED
      BY <2>2, <2>3
  <1>5. ASSUME NEW r \in Reqs, UpdateBug(r) PROVE StatusInv'
    <2> DEFINE row == rows[loc[r].bug]
    <2>1. /\ pc[r] = "write" /\ job[r].op = "update" /\ job[r] \in Jobs
          /\ Go(r, job[r], "commit") /\ UNCHANGED <<rows, audit>>
          /\ raced' = IF row.status = loc[r].read.status THEN raced ELSE raced \union {loc[r].bug}
      BY <1>5 DEF UpdateBug, BugInv, TypeOK, Jobs
    <2>2. row \in Rows
      BY <2>1 DEF BugInv, TypeOK, RequestsOwnTheirRows, Working
    <2>3. /\ loc'[r].bug = loc[r].bug /\ loc'[r].read = loc[r].read
          /\ loc'[r].next.status = Asked(job[r].set, "status", row.status)
          /\ loc'[r].next.resolvedAt
               = ResolvedAt(r, job[r].set, loc[r].read.status, row.resolvedAt)
          /\ \A s \in Reqs : s # r => loc'[s] = loc[s]
      BY <1>5, <2>2, UpdatedRow DEF BugInv
    <2>4. /\ job'[r] = job[r]
          /\ \A s \in Reqs : s # r => pc'[s] = pc[s] /\ job'[s] = job[s]
      BY <2>1, GoesOn DEF BugInv
    <2>5. Prepared(r)'
      BY <2>1, <2>3, <2>4 DEF Prepared, Asked, ResolvedAt
    <2>6. raced \subseteq raced'
      BY <2>1
    <2>7. QED
      BY <2>1, <2>3, <2>4, <2>5, <2>6, StatusFrame
  <1>6. ASSUME NEW r \in Reqs, Commit(r) PROVE StatusInv'
    <2> DEFINE b == loc[r].bug
               new == loc[r].next
               e == Entry(r)
               n == Len(audit) + 1
    <2>1. /\ pc[r] = "commit" /\ Go(r, job[r], "emit") /\ job[r] \in Jobs
          /\ rows' = [rows EXCEPT ![b] = new] /\ audit' = Append(audit, e)
          /\ UNCHANGED <<loc, raced>> /\ b \in Bugs
      BY <1>6 DEF Commit, BugInv, TypeOK, Jobs
    <2>2. rows'[b] = new /\ \A x \in Bugs : x # b => rows'[x] = rows[x]
      BY <2>1 DEF BugInv, TypeOK
    <2>3. /\ pc'[r] = "emit" /\ \A s \in Reqs : s # r => pc'[s] = pc[s] /\ job'[s] = job[s]
      BY <2>1, GoesOn DEF BugInv
    <2>4. /\ DOMAIN audit' = DOMAIN audit \union {n} /\ n \notin DOMAIN audit /\ n <= n
          /\ \A i \in DOMAIN audit : audit'[i] = audit[i] /\ i <= n
          /\ audit'[n] = e
      <3>1. e \in Records /\ audit \in Seq(Records)
        BY <2>1, EntryType DEF BugInv, TypeOK
      <3> HIDE DEF e, b, new
      <3>2. QED
        BY <2>1, <3>1
    <2>5. e.bug = b
      BY DEF Entry
    <2>6. b \notin raced =>
            \/ /\ e.action \in {"BUG_CREATED", "BUG_STATUS_CHANGED"}
               /\ new.status = Told(e)
               /\ new.status = "RESOLVED" => new.resolvedAt = e.req
            \/ /\ e.action = "BUG_UPDATED"
               /\ rows[b] # None /\ new.status = rows[b].status
               /\ new.status = "RESOLVED" => new.resolvedAt = rows[b].resolvedAt
      BY <2>1, CommitTold
    <2> HIDE DEF b, new, e, n
    <2>7. \A x : Moves(x)' = IF x = b /\ e.action \in {"BUG_CREATED", "BUG_STATUS_CHANGED"}
                             THEN Moves(x) \union {n} ELSE Moves(x)
      BY <2>4, <2>5 DEF Moves, Entries
    <2>8. \A x : Moves(x) \subseteq DOMAIN audit
      BY DEF Moves, Entries
    <2>9. ASSUME NEW x \in Bugs \ raced', rows'[x] # None PROVE StatusTold(x)'
      <3>1. CASE x # b
        <4>1. /\ StatusTold(x) /\ rows'[x] = rows[x] /\ Moves(x)' = Moves(x)
          BY <2>1, <2>2, <2>7, <2>9, <3>1 DEF StatusInv
        <4>2. QED
          BY <2>4, <2>8, <4>1 DEF StatusTold, Told
      <3>2. CASE x = b /\ e.action \in {"BUG_CREATED", "BUG_STATUS_CHANGED"}
        <4>1. /\ new.status = Told(e)
              /\ new.status = "RESOLVED" => new.resolvedAt = e.req
          BY <2>1, <2>6, <2>9, <3>2
        <4>2. n \in Moves(x)' /\ \A i \in Moves(x)' : i <= n
          BY <2>4, <2>7, <2>8, <3>2
        <4>3. rows'[x] = new /\ audit'[n] = e
          BY <2>2, <2>4, <3>2
        <4>4. QED
          BY <4>1, <4>2, <4>3 DEF StatusTold, Told
      <3>3. CASE x = b /\ e.action = "BUG_UPDATED"
        <4>1. /\ rows[x] # None /\ new.status = rows[x].status
              /\ new.status = "RESOLVED" => new.resolvedAt = rows[x].resolvedAt
          BY <2>1, <2>6, <2>9, <3>3
        <4>2. StatusTold(x) /\ rows'[x] = new /\ Moves(x)' = Moves(x)
          BY <2>1, <2>2, <2>7, <2>9, <3>3, <4>1 DEF StatusInv
        <4>3. QED
          BY <2>4, <2>8, <4>1, <4>2 DEF StatusTold, Told
      <3>4. QED
        BY <2>1, <2>6, <2>9, <3>1, <3>2, <3>3
    <2>10. ASSUME NEW s \in Reqs PROVE Prepared(s)'
      <3>1. CASE pc'[s] # "commit"
        BY <3>1 DEF Prepared
      <3>2. CASE pc'[s] = "commit"
        <4>1. s # r /\ pc[s] = "commit" /\ job'[s] = job[s]
          BY <2>3, <3>2
        <4>2. loc[s].bug # b /\ loc[s].bug \in Bugs
          BY <2>1, <4>1 DEF BugInv, WritersAreAlone, TypeOK, b
        <4>3. rows'[loc[s].bug] = rows[loc[s].bug]
          BY <2>2, <4>2
        <4>4. QED
          BY <2>1, <4>1, <4>3 DEF StatusInv, Prepared
      <3>3. QED
        BY <3>1, <3>2
    <2>11. QED
      BY <2>9, <2>10 DEF StatusInv
  <1>7. ASSUME NEW r \in Reqs, Emit(r) \/ Fail(r) PROVE StatusInv'
    BY <1>7, ReplyKeepsStatus DEF Emit, Fail
  <1>8. CASE UNCHANGED vars
    BY <1>8 DEF vars, StatusInv, StatusTold, Prepared, Moves, Entries
  <1>9. QED
    BY <1>1, <1>2, <1>3, <1>4, <1>5, <1>6, <1>7, <1>8 DEF Next, Handle

\* For any bugs, changes and requests, the log's latest claim about a status is true,
\* unless an update was decided on a status that had changed (BugsService.update,
\* diffFields).
THEOREM LogAlwaysTellsStatus == Spec => []LogTellsStatus
  <1>1. Init => BugInv /\ StatusInv
    BY InitBugInv DEF Init, StatusInv, Prepared
  <1>2. BugInv /\ StatusInv /\ [Next]_vars => (BugInv /\ StatusInv)'
    BY NextBugInv, StatusStep
  <1>3. QED
    BY <1>1, <1>2, StatusInvTells, PTL DEF Spec

-------------------------------------------------------------------------------
\* The screens: the commits of the organization looked at

LEMMA HomeCounted ==
  ASSUME TypeOK
  PROVE  /\ OfHome \subseteq 1 .. Len(audit) /\ IsFiniteSet(OfHome) /\ Version \in Nat
         /\ audit \in Seq(Records)
  <1>1. audit \in Seq(Records) /\ DOMAIN audit = 1 .. Len(audit) /\ Len(audit) \in Nat
    BY DEF TypeOK
  <1>2. OfHome \subseteq 1 .. Len(audit)
    BY <1>1 DEF OfHome
  <1>3. IsFiniteSet(OfHome)
    <2>1. 1 \in Int /\ Len(audit) \in Int
      BY <1>1
    <2>2. IsFiniteSet(1 .. Len(audit))
      BY <2>1, FS_Interval
    <2>3. QED
      BY <1>2, <2>2, FS_Subset
  <1>4. QED
    BY <1>1, <1>2, <1>3, FS_CardinalityType DEF Version

LEMMA NumberBounds ==
  ASSUME TypeOK, NEW r
  PROVE  NumberOf(r) \in 0 .. Version
  <1> DEFINE I == {i \in OfHome : \E k \in OfHome : audit[k].req = r /\ i <= k}
  <1>1. I \in SUBSET OfHome
    OBVIOUS
  <1>2. Cardinality(I) \in Nat /\ Cardinality(I) <= Version
    BY <1>1, HomeCounted, FS_Subset, FS_CardinalityType DEF Version
  <1>3. QED
    BY <1>2, HomeCounted DEF NumberOf

\* The log only grows, by the entry of the request that commits.
LEMMA LogGrows ==
  ASSUME TypeOK, NEW r \in Reqs, Commit(r)
  PROVE  /\ Len(audit') = Len(audit) + 1 /\ audit' \in Seq(Records)
         /\ \A i \in 1 .. Len(audit) : audit'[i] = audit[i]
         /\ audit'[Len(audit) + 1] = Entry(r)
         /\ OfHome' = IF job[r].org = Home THEN OfHome \union {Len(audit) + 1} ELSE OfHome
  <1>1. pc[r] = "commit" /\ audit' = Append(audit, Entry(r)) /\ audit \in Seq(Records)
    BY DEF Commit, TypeOK
  <1>2. Entry(r) \in Records /\ Entry(r).org = job[r].org
    BY <1>1, EntryType DEF Entry
  <1>3. /\ Len(audit') = Len(audit) + 1 /\ audit' \in Seq(Records) /\ Len(audit) \in Nat
        /\ \A i \in 1 .. Len(audit) : audit'[i] = audit[i]
        /\ audit'[Len(audit) + 1] = Entry(r)
    BY <1>1, <1>2
  <1>4. /\ OfHome' = {i \in 1 .. Len(audit) + 1 : audit'[i].org = Home}
        /\ OfHome = {i \in 1 .. Len(audit) : audit[i].org = Home}
    BY <1>1, <1>3 DEF OfHome
  <1>5. \A i \in 1 .. Len(audit) + 1 : i \in 1 .. Len(audit) \/ i = Len(audit) + 1
    BY <1>3
  <1>6. OfHome' = IF job[r].org = Home THEN OfHome \union {Len(audit) + 1} ELSE OfHome
    BY <1>2, <1>3, <1>4, <1>5
  <1>7. QED
    BY <1>3, <1>6

\* The number of a request that has committed stays; that of the latest is the version.
LEMMA NumbersStay ==
  ASSUME TypeOK, NEW r \in Reqs, Commit(r)
  PROVE  /\ Version' \in Nat /\ Version <= Version'
         /\ \A s \in Reqs \ {r} : NumberOf(s)' = NumberOf(s)
         /\ job[r].org = Home => NumberOf(r)' = Version'
         /\ job[r].org # Home => Version' = Version
  <1> DEFINE n == Len(audit) + 1
  <1>1. /\ n \in Nat /\ OfHome \subseteq 1 .. Len(audit) /\ IsFiniteSet(OfHome) /\ Version \in Nat
        /\ \A i \in OfHome : audit'[i] = audit[i]
        /\ OfHome' = IF job[r].org = Home THEN OfHome \union {n} ELSE OfHome
    BY LogGrows, HomeCounted DEF TypeOK
  <1>2. audit'[n].req = r
    <2>1. audit'[n] = Entry(r)
      BY LogGrows
    <2>2. Entry(r).req = r
      BY DEF Entry
    <2>3. QED
      BY <2>1, <2>2
  <1>3. IsFiniteSet(OfHome') /\ Version' \in Nat /\ Version <= Version'
    BY <1>1, FS_AddElement, FS_CardinalityType, FS_Subset DEF Version
  <1>4. ASSUME NEW s \in Reqs \ {r} PROVE NumberOf(s)' = NumberOf(s)
    <2>1. {i \in OfHome' : \E k \in OfHome' : audit'[k].req = s /\ i <= k}
            = {i \in OfHome : \E k \in OfHome : audit[k].req = s /\ i <= k}
      BY <1>1, <1>2
    <2>2. QED
      BY <2>1 DEF NumberOf
  <1>5. ASSUME job[r].org = Home PROVE NumberOf(r)' = Version'
    <2>1. n \in OfHome' /\ \A i \in OfHome' : i <= n
      BY <1>1, <1>5
    <2>2. {i \in OfHome' : \E k \in OfHome' : audit'[k].req = r /\ i <= k} = OfHome'
      BY <1>2, <2>1
    <2>3. QED
      BY <2>2 DEF NumberOf, Version
  <1>6. QED
    BY <1>1, <1>3, <1>4, <1>5 DEF Version

\* Requests and the log are left alone by the browser; no other step than a commit
\* changes the log.
LEMMA LogStays ==
  ASSUME TypeOK, UNCHANGED audit
  PROVE  /\ Version' = Version /\ OfHome' = OfHome
         /\ \A r \in Reqs : NumberOf(r)' = NumberOf(r)
  BY DEF Version, OfHome, NumberOf

LEMMA LeastNat ==
  ASSUME NEW N \in SUBSET Nat, N # {}
  PROVE  \E n \in N : \A m \in N : n <= m
  <1>1. PICK n \in N : \A m \in N : ~(<<m, n>> \in OpToRel(<, Nat))
    BY NatLessThanWellFounded, WFMin
  <1>2. \A m \in N : ~(m < n)
    BY <1>1 DEF OpToRel
  <1>3. QED
    BY <1>2

\* The latest of some numbers and of what was missed before.
LEMMA MissingIs ==
  ASSUME NEW n \in Nat, NEW N \in SUBSET (0 .. n), missed \in 0 .. n
  PROVE  /\ Missing(N) \in 0 .. n
         /\ n \in N \/ missed = n => Missing(N) = n
  <1> DEFINE S == N \union {missed}
             D == {n - m : m \in S}
  <1>1. PICK d \in D : \A x \in D : d <= x
    <2>1. D \in SUBSET Nat /\ D # {}
      OBVIOUS
    <2>2. QED
      BY <2>1, LeastNat
  <1>2. n - d \in S /\ \A x \in S : x <= n - d
    BY <1>1
  <1>3. Missing(N) \in S /\ \A x \in S : x <= Missing(N)
    <2>1. \E m \in N \union {missed} : \A x \in N \union {missed} : x <= m
      BY <1>2
    <2>2. QED
      BY <2>1 DEF Missing
  <1>4. \A x \in S : x \in 0 .. n
    OBVIOUS
  <1>5. n \in S => Missing(N) = n
    <2>1. CASE n \in S
      <3>1. PICK k : k = Missing(N)
        OBVIOUS
      <3>2. k \in 0 .. n /\ n <= k
        BY <1>3, <1>4, <2>1, <3>1
      <3>3. QED
        BY <3>1, <3>2
    <2>2. QED
      BY <2>1
  <1>6. QED
    BY <1>3, <1>4, <1>5


-------------------------------------------------------------------------------
\* Steps

\* Requests go on one at a time.
LEMMA HandleOne ==
  ASSUME TypeOK, NEW r \in Reqs, Handle(r)
  PROVE  \/ Commit(r)
         \/ /\ audit' = audit /\ pc[r] \in {"idle", "write"}
            /\ \A s \in Reqs \ {r} : pc'[s] = pc[s] /\ job'[s] = job[s] /\ loc'[s] = loc[s]
  <1> DEFINE Others == \A s \in Reqs \ {r} :
                         pc'[s] = pc[s] /\ job'[s] = job[s] /\ loc'[s] = loc[s]
  <1>1. ASSUME NEW j, NEW a, Reply(r, j, a) PROVE Others /\ pc'[r] = "done"
    BY <1>1 DEF Reply, Reach, TypeOK
  <1>2. ASSUME NEW j, NEW to, Go(r, j, to)
        PROVE  /\ pc'[r] = to
               /\ \A s \in Reqs \ {r} : pc'[s] = pc[s] /\ job'[s] = job[s]
    BY <1>2 DEF Go, Reach, TypeOK
  <1>3. ASSUME NEW j \in Creates, FindCase(r, j)
        PROVE  audit' = audit /\ pc[r] = "idle" /\ Others
    <2>1. CASE Go(r, j, "write") /\ UNCHANGED loc
      BY <1>2, <1>3, <2>1 DEF FindCase, Receive
    <2>2. CASE Reply(r, j, "NOT_FOUND")
      BY <1>1, <1>3, <2>2 DEF FindCase, Receive
    <2>3. QED
      BY <1>3, <2>1, <2>2 DEF FindCase
  <1>4. ASSUME NEW j \in Updates, FindBug(r, j)
        PROVE  audit' = audit /\ pc[r] = "idle" /\ Others
    <2>1. CASE Go(r, j, "write")
               /\ loc' = [loc EXCEPT ![r].bug = j.bug, ![r].read = rows[j.bug]]
      <3>1. \A s \in Reqs \ {r} : loc'[s] = loc[s]
        BY <2>1 DEF TypeOK
      <3>2. audit' = audit /\ pc[r] = "idle"
        BY <1>4 DEF FindBug, Receive
      <3>3. Go(r, j, "write")
        BY <2>1
      <3>4. pc'[r] = "write" /\ \A s \in Reqs \ {r} : pc'[s] = pc[s] /\ job'[s] = job[s]
        BY <1>2, <3>3
      <3>5. QED
        BY <3>1, <3>2, <3>4
    <2>2. CASE Reply(r, j, "NOT_FOUND")
      BY <1>1, <1>4, <2>2 DEF FindBug, Receive
    <2>3. QED
      BY <1>4, <2>1, <2>2 DEF FindBug
  <1>5. ASSUME NEW j \in Gets, getOne(r, j)
        PROVE  audit' = audit /\ pc[r] = "idle" /\ Others
    BY <1>1, <1>5 DEF getOne, Receive
  <1>6. ASSUME NEW b \in Bugs, InsertBug(r, b)
        PROVE  audit' = audit /\ pc[r] = "write" /\ Others
    <2>1. CASE /\ Go(r, job[r], "commit")
               /\ loc' = [loc EXCEPT ![r] =
                    [bug |-> b, read |-> None, stamp |-> clock',
                     next |-> [org |-> job[r].org, case |-> job[r].case, status |-> "OPEN",
                               severity |-> "MAJOR", resolvedAt |-> None]]]
      <3>1. \A s \in Reqs \ {r} : loc'[s] = loc[s]
        BY <2>1 DEF TypeOK
      <3>2. QED
        BY <1>2, <1>6, <2>1, <3>1 DEF InsertBug
    <2>2. CASE Reply(r, job[r], "constraint") /\ UNCHANGED clock
      BY <1>1, <1>6, <2>2 DEF InsertBug
    <2>3. QED
      BY <1>6, <2>1, <2>2 DEF InsertBug
  <1>7. ASSUME UpdateBug(r)
        PROVE  audit' = audit /\ pc[r] = "write" /\ Others
    <2>1. \A s \in Reqs \ {r} : loc'[s] = loc[s]
      <3>1. \E new : loc' = [loc EXCEPT ![r].stamp = clock', ![r].next = new]
        BY <1>7 DEF UpdateBug
      <3>2. QED
        BY <3>1 DEF TypeOK, Reads
    <2>2. QED
      BY <1>2, <1>7, <2>1 DEF UpdateBug
  <1> HIDE DEF Others
  <1>8. QED
    BY <1>3, <1>4, <1>5, <1>6, <1>7 DEF Handle, Others

\* A request is over: nothing of the others changes, nor the log.
LEMMA EndOne ==
  ASSUME TypeOK, NEW r \in Reqs, Emit(r) \/ Fail(r)
  PROVE  /\ UNCHANGED <<audit, clock>> /\ pc'[r] = "done"
         /\ \A s \in Reqs \ {r} : pc'[s] = pc[s] /\ job'[s] = job[s] /\ loc'[s] = loc[s]
  <1>1. UNCHANGED <<audit, clock>> /\ \E a : Reply(r, job[r], a)
    BY DEF Emit, Fail
  <1>2. QED
    BY <1>1 DEF Reply, Reach, TypeOK

-------------------------------------------------------------------------------
\* The list

\* Whoever is about to announce the latest commit, or has its event on the way.
Announced == \E r \in Reqs : pc[r] = "emit" /\ job[r].org = Home /\ NumberOf(r) = Version
Queued == \E i \in 1 .. Len(queue) : queue[i] = Version

\* Nothing is fetched, but will be when the list is mounted.
Unfetched == fetch = "idle" /\ ~visible /\ ~fresh

\* The latest commit is shown, or being fetched, or will be, or is being announced,
\* or its announcement came to nothing.
LatestAccounted ==
  \/ listed = Version \/ (listed = NoData /\ fetch # "read")
  \/ fetch = "asked" \/ (fetch = "read" /\ got = Version) \/ Unfetched
  \/ Announced \/ Queued \/ missed = Version

\* A fetch never brings the list back to what was before.
ReadsForward == fetch = "read" => listed = NoData \/ got >= listed

\* What this browser was answered is shown, or being fetched, or will be.
ToldKept ==
  \/ told = 0 \/ (listed # NoData /\ listed >= told)
  \/ fetch = "asked" \/ (fetch = "read" /\ got >= told) \/ Unfetched

ListInv == ListTypeOK /\ LatestAccounted /\ ReadsForward /\ ToldKept

LEMMA ListNumbers ==
  ASSUME TypeOK, ListTypeOK
  PROVE  /\ Version \in Nat /\ got \in 0 .. Version /\ missed \in 0 .. Version
         /\ told \in 0 .. Version /\ NoData \notin Nat
         /\ listed \in 0 .. Version \/ listed = NoData
  BY HomeCounted, ListAssumption DEF ListTypeOK

\* The browser's own steps leave the requests and the log alone.
LEMMA BrowserApart ==
  ASSUME TypeOK, UNCHANGED vars
  PROVE  Version' = Version /\ (Announced => Announced')
  <1>1. Version' = Version /\ \A r \in Reqs : NumberOf(r)' = NumberOf(r)
    BY LogStays DEF vars
  <1>2. QED
    BY <1>1 DEF Announced, vars

\* Invalidating the list accounts for the commit it is about, and for what was
\* accounted for before.
LEMMA RefreshAccounts ==
  ASSUME TypeOK, ListInv, NEW n \in 0 .. Version, Refresh(n),
         UNCHANGED <<vars, screen, visible, listed, got, budget, online, checking, inRoom>>,
         told' = told \/ (~Stuck /\ told' = n), due' \subseteq due,
         \/ queue' = queue
         \/ queue # <<>> /\ n = Head(queue) /\ queue' = Tail(queue)
  PROVE  ListInv'
  <1>1. Version' = Version /\ (Announced => Announced')
    BY BrowserApart
  <1>2. /\ Version \in Nat /\ got \in 0 .. Version /\ missed \in 0 .. Version
        /\ told \in 0 .. Version /\ NoData \notin Nat
        /\ listed \in 0 .. Version \/ listed = NoData
    BY ListNumbers DEF ListInv
  <1>3. /\ missed' \in 0 .. Version
        /\ Stuck /\ n = Version => missed' = Version
        /\ missed = Version => missed' = Version
    <2>1. Missing({n}) \in 0 .. Version /\ (n = Version \/ missed = Version => Missing({n}) = Version)
      <3>1. {n} \in SUBSET (0 .. Version)
        OBVIOUS
      <3>2. /\ Missing({n}) \in 0 .. Version
            /\ Version \in {n} \/ missed = Version => Missing({n}) = Version
        BY <1>2, <3>1, MissingIs
      <3>3. QED
        BY <3>2
    <2>2. QED
      BY <1>2, <2>1 DEF Refresh
  <1>4. /\ queue' \in Seq(Nat) /\ \A i \in DOMAIN queue' : queue'[i] <= Version
        /\ Queued => Queued' \/ n = Version
    <2>1. CASE queue' = queue
      BY <1>1, <2>1 DEF ListInv, ListTypeOK, Queued
    <2>2. CASE queue # <<>> /\ n = Head(queue) /\ queue' = Tail(queue)
      <3>1. /\ queue \in Seq(Nat) /\ \A i \in 1 .. Len(queue) : queue[i] <= Version
        BY DEF ListInv, ListTypeOK
      <3>2. /\ queue' \in Seq(Nat) /\ Len(queue') = Len(queue) - 1 /\ n = queue[1]
            /\ Len(queue) \in Nat
            /\ \A i \in 1 .. Len(queue') : queue'[i] = queue[i + 1] /\ i + 1 \in 1 .. Len(queue)
        BY <2>2, <3>1
      <3>3. \A i \in 1 .. Len(queue) : i = 1 \/ (i - 1 \in 1 .. Len(queue') /\ queue[i] = queue'[i - 1])
        BY <3>2
      <3>4. DOMAIN queue' = 1 .. Len(queue')
        BY <3>2
      <3>5. Queued => Queued' \/ n = Version
        BY <1>1, <3>2, <3>3 DEF Queued
      <3>6. QED
        BY <3>1, <3>2, <3>4, <3>5
    <2>3. QED
      BY <2>1, <2>2
  <1>5. /\ fresh' = FALSE /\ fetch' \in {"asked", fetch}
        /\ fetch' = "asked" \/ Stuck \/ (fetch = "idle" /\ fetch' = "idle" /\ ~visible)
           \/ fetch = "asked"
    BY DEF Refresh, Stuck, ListInv, ListTypeOK
  <1>6. visible' = visible /\ listed' = listed /\ got' = got
    OBVIOUS
  <1>7. ListTypeOK'
    <2>1. told' \in 0 .. Version /\ due' \subseteq 0 .. Version
      BY <1>2 DEF ListInv, ListTypeOK
    <2>2. fetch' \in {"idle", "asked", "read"} /\ fresh' \in BOOLEAN
      BY <1>5 DEF ListInv, ListTypeOK
    <2>3. QED
      BY <1>1, <1>3, <1>4, <2>1, <2>2 DEF ListInv, ListTypeOK
  <1>8. LatestAccounted'
    <2>1. CASE n = Version
      BY <1>1, <1>3, <1>5, <1>6, <2>1 DEF LatestAccounted, Unfetched
    <2>2. CASE n # Version
      BY <1>1, <1>3, <1>4, <1>5, <1>6, <2>2 DEF LatestAccounted, Unfetched, ListInv
    <2>3. QED
      BY <2>1, <2>2
  <1>9. ReadsForward'
    BY <1>5, <1>6 DEF ReadsForward, ListInv
  <1>10. ToldKept'
    <2>1. CASE Stuck
      <3>1. told' = told /\ fetch = "read" /\ fetch' \in {"asked", "read"}
        BY <1>5, <2>1 DEF Stuck
      <3>2. QED
        BY <1>6, <3>1 DEF ToldKept, Unfetched, ListInv
    <2>2. CASE ~Stuck
      <3>1. fetch' = "asked" \/ (fetch' = "idle" /\ ~visible /\ fresh' = FALSE)
        BY <1>5, <2>2
      <3>2. QED
        BY <1>6, <3>1 DEF ToldKept, Unfetched
    <2>3. QED
      BY <2>1, <2>2
  <1>11. QED
    BY <1>7, <1>8, <1>9, <1>10 DEF ListInv

LEMMA DeliverListInv == TypeOK /\ ListInv /\ UNCHANGED screen /\ Deliver => ListInv'
  <1> SUFFICES ASSUME TypeOK, ListInv, UNCHANGED screen, Deliver PROVE ListInv'
    OBVIOUS
  <1>1. Head(queue) \in 0 .. Version
    <2>1. queue \in Seq(Nat) /\ queue # <<>> /\ \A i \in 1 .. Len(queue) : queue[i] <= Version
      BY DEF ListInv, ListTypeOK, Deliver
    <2>2. Head(queue) = queue[1] /\ 1 \in 1 .. Len(queue) /\ queue[1] \in Nat
      BY <2>1
    <2>3. QED
      BY <2>1, <2>2, HomeCounted
  <1>2. QED
    BY <1>1, RefreshAccounts DEF Deliver, log

LEMMA AnsweredListInv == TypeOK /\ ListInv /\ UNCHANGED screen /\ Answered => ListInv'
  <1> SUFFICES ASSUME TypeOK, ListInv, UNCHANGED screen,
                      NEW n \in due, due' = due \ {n}, Refresh(n),
                      told' = IF n > told /\ ~Stuck THEN n ELSE told,
                      UNCHANGED <<vars, link, visible, listed, got, log, budget>>
               PROVE  ListInv'
    BY DEF Answered
  <1>1. n \in 0 .. Version
    BY DEF ListInv, ListTypeOK
  <1>2. told' = told \/ (~Stuck /\ told' = n)
    OBVIOUS
  <1>3. due' \subseteq due
    OBVIOUS
  <1>4. QED
    BY <1>1, <1>2, <1>3, RefreshAccounts DEF link

\* The fetch itself, and what the page does with the list.
LEMMA FetchListInv ==
  ASSUME TypeOK, ListInv, UNCHANGED screen,
         \/ FetchRead \/ FetchDone \/ FetchFails \/ Hide \/ \E old \in BOOLEAN : Show(old)
  PROVE  ListInv'
  <1>1. Version' = Version /\ (Announced => Announced') /\ (Queued => Queued')
    BY BrowserApart DEF FetchRead, FetchDone, FetchFails, Hide, Show, link, Queued
  <1>2. /\ Version \in Nat /\ got \in 0 .. Version /\ missed \in 0 .. Version
        /\ told \in 0 .. Version /\ NoData \notin Nat
        /\ listed \in 0 .. Version \/ listed = NoData
    BY ListNumbers DEF ListInv
  <1>3. ASSUME Spend PROVE budget' \in 0 .. Budget
    BY <1>3, ListAssumption DEF Spend, ListInv, ListTypeOK
  <1>4. CASE FetchRead
    <2>1. ListTypeOK'
      BY <1>1, <1>2, <1>4 DEF FetchRead, ListInv, ListTypeOK, link, log
    <2>2. LatestAccounted' /\ ReadsForward' /\ ToldKept'
      BY <1>1, <1>2, <1>4 DEF FetchRead, LatestAccounted, ReadsForward, ToldKept
    <2>3. QED
      BY <2>1, <2>2 DEF ListInv
  <1>5. CASE FetchDone
    <2>1. ListTypeOK'
      BY <1>1, <1>2, <1>5 DEF FetchDone, ListInv, ListTypeOK, link, log
    <2>2. LatestAccounted' /\ ReadsForward' /\ ToldKept'
      BY <1>1, <1>2, <1>5
      DEF FetchDone, LatestAccounted, ReadsForward, ToldKept, ListInv, Unfetched
    <2>3. QED
      BY <2>1, <2>2 DEF ListInv
  <1>6. CASE FetchFails
    <2>1. ListTypeOK'
      BY <1>1, <1>2, <1>3, <1>6 DEF FetchFails, ListInv, ListTypeOK, link, log
    <2>2. LatestAccounted' /\ ReadsForward' /\ ToldKept'
      BY <1>1, <1>2, <1>6 DEF FetchFails, LatestAccounted, ReadsForward, ToldKept
    <2>3. QED
      BY <2>1, <2>2 DEF ListInv
  <1>7. CASE Hide
    <2>1. ListTypeOK'
      BY <1>1, <1>2, <1>3, <1>7 DEF Hide, ListInv, ListTypeOK, link, log
    <2>2. LatestAccounted' /\ ReadsForward' /\ ToldKept'
      BY <1>1, <1>2, <1>7
      DEF Hide, LatestAccounted, ReadsForward, ToldKept, ListInv, Unfetched
    <2>3. QED
      BY <2>1, <2>2 DEF ListInv
  <1>8. ASSUME NEW old \in BOOLEAN, Show(old) PROVE ListInv'
    <2>1. ListTypeOK'
      BY <1>1, <1>2, <1>8 DEF Show, ListInv, ListTypeOK, link, log
    <2>2. LatestAccounted' /\ ReadsForward' /\ ToldKept'
      BY <1>1, <1>2, <1>8
      DEF Show, LatestAccounted, ReadsForward, ToldKept, ListInv, Unfetched
    <2>3. QED
      BY <2>1, <2>2 DEF ListInv
  <1>9. QED
    BY <1>4, <1>5, <1>6, <1>7, <1>8

\* The list's page stays, and what else accounts for the latest commit remains.
LEMMA ListStays ==
  ASSUME TypeOK, ListInv, UNCHANGED <<screen, visible, fresh, listed, fetch, got, told>>,
         Version' = Version, due' \subseteq 0 .. Version, missed' \in 0 .. Version,
         online' \in BOOLEAN, inRoom' \in BOOLEAN, checking' \in Nat,
         budget' \in 0 .. Budget,
         queue' \in Seq(Nat), \A i \in DOMAIN queue' : queue'[i] <= Version,
         Announced \/ Queued \/ missed = Version => Announced' \/ Queued' \/ missed' = Version
  PROVE  ListInv'
  <1>1. ListTypeOK'
    BY DEF ListInv, ListTypeOK
  <1>2. LatestAccounted' /\ ReadsForward' /\ ToldKept'
    BY DEF ListInv, LatestAccounted, ReadsForward, ToldKept, Unfetched
  <1>3. QED
    BY <1>1, <1>2 DEF ListInv

LEMMA LinkListInv ==
  ASSUME TypeOK, ListInv, UNCHANGED screen, Connect \/ Enter \/ Drop \/ Rejoin
  PROVE  ListInv'
  <1>1. Version' = Version /\ (Announced => Announced')
    BY BrowserApart DEF Connect, Enter, Drop, Rejoin
  <1>2. /\ due \subseteq 0 .. Version /\ missed \in 0 .. Version /\ checking \in Nat
        /\ online \in BOOLEAN /\ inRoom \in BOOLEAN /\ budget \in 0 .. Budget
        /\ queue \in Seq(Nat) /\ \A i \in DOMAIN queue : queue[i] <= Version
    BY DEF ListInv, ListTypeOK
  <1>3. ASSUME Spend PROVE budget' \in 0 .. Budget
    BY <1>2, <1>3, ListAssumption DEF Spend
  <1>4. CASE Connect
    <2>1. Queued => Queued'
      BY <1>1, <1>4 DEF Connect, Queued
    <2>2. QED
      BY <1>1, <1>2, <1>4, <2>1, ListStays DEF Connect, list
  <1>5. CASE Enter
    <2>1. (Queued => Queued') /\ checking' \in Nat
      BY <1>1, <1>2, <1>5 DEF Enter, Queued
    <2>2. QED
      BY <1>1, <1>2, <1>5, <2>1, ListStays DEF Enter, list
  <1>6. CASE Rejoin
    <2>1. (Queued => Queued') /\ checking' \in Nat
      BY <1>1, <1>2, <1>6 DEF Rejoin, Queued
    <2>2. QED
      BY <1>1, <1>2, <1>3, <1>6, <2>1, ListStays DEF Rejoin, list
  <1>7. CASE Drop
    <2> DEFINE N == {queue[i] : i \in DOMAIN queue}
    <2>1. N \in SUBSET (0 .. Version) /\ (Queued => Version \in N)
      <3>1. \A i \in DOMAIN queue : queue[i] \in Nat
        BY <1>2
      <3>2. DOMAIN queue = 1 .. Len(queue)
        BY <1>2
      <3>3. QED
        BY <1>2, <3>1, <3>2, HomeCounted DEF Queued
    <2>2. missed' = Missing(N) /\ queue' = <<>>
      BY <1>7 DEF Drop
    <2> HIDE DEF N
    <2>3. /\ Missing(N) \in 0 .. Version
          /\ Version \in N \/ missed = Version => Missing(N) = Version
      BY <1>2, <2>1, HomeCounted, MissingIs
    <2>4. queue' \in Seq(Nat) /\ DOMAIN queue' = {}
      BY <2>2
    <2>5. QED
      BY <1>1, <1>2, <1>3, <1>7, <2>1, <2>2, <2>3, <2>4, ListStays DEF Drop
  <1>8. QED
    BY <1>4, <1>5, <1>6, <1>7

LEMMA CommitListInv ==
  ASSUME TypeOK, ListInv, NEW r \in Reqs, Commit(r), UNCHANGED screens
  PROVE  ListInv'
  <1>1. /\ Version' \in Nat /\ Version <= Version'
        /\ \A s \in Reqs \ {r} : NumberOf(s)' = NumberOf(s)
        /\ job[r].org = Home => NumberOf(r)' = Version'
        /\ job[r].org # Home => Version' = Version
    BY NumbersStay
  <1>2. /\ Version \in Nat /\ got \in 0 .. Version /\ missed \in 0 .. Version
        /\ told \in 0 .. Version /\ NoData \notin Nat
        /\ listed \in 0 .. Version \/ listed = NoData
    BY ListNumbers DEF ListInv
  <1>3. /\ pc[r] = "commit" /\ pc'[r] = "emit" /\ job'[r] = job[r]
        /\ \A s \in Reqs \ {r} : pc'[s] = pc[s] /\ job'[s] = job[s]
    BY DEF Commit, Go, Reach, TypeOK
  <1>4. /\ UNCHANGED <<screen, online, checking, inRoom, queue, visible, fresh, listed,
                       fetch, got, due, missed, told, budget>>
    BY DEF screens, link, list
  <1>5. \A n \in 0 .. Version : n \in 0 .. Version'
    BY <1>1, <1>2
  <1>6. ListTypeOK'
    <2>1. /\ queue \in Seq(Nat) /\ \A i \in DOMAIN queue : queue[i] <= Version
          /\ \A i \in DOMAIN queue : queue[i] \in Nat
      BY DEF ListInv, ListTypeOK
    <2>2. \A i \in DOMAIN queue : queue[i] <= Version'
      BY <1>1, <1>2, <2>1
    <2>3. due \subseteq 0 .. Version'
      BY <1>5 DEF ListInv, ListTypeOK
    <2>4. {got, missed, told} \subseteq 0 .. Version' /\ listed \in 0 .. Version' \union {NoData}
      BY <1>2, <1>5
    <2>5. QED
      BY <1>4, <2>2, <2>3, <2>4 DEF ListInv, ListTypeOK
  <1>7. LatestAccounted'
    <2>1. CASE job[r].org = Home
      BY <1>1, <1>3, <2>1 DEF LatestAccounted, Announced
    <2>2. CASE job[r].org # Home
      <3>1. Announced => Announced'
        BY <1>1, <1>3, <2>2 DEF Announced
      <3>2. Queued => Queued'
        BY <1>1, <1>4, <2>2 DEF Queued
      <3>3. QED
        BY <1>1, <1>4, <2>2, <3>1, <3>2 DEF ListInv, LatestAccounted, Unfetched
    <2>3. QED
      BY <2>1, <2>2
  <1>8. ReadsForward' /\ ToldKept'
    BY <1>4 DEF ListInv, ReadsForward, ToldKept, Unfetched
  <1>9. QED
    BY <1>6, <1>7, <1>8 DEF ListInv

LEMMA HandleListInv ==
  ASSUME TypeOK, ListInv, NEW r \in Reqs, Handle(r), UNCHANGED screens
  PROVE  ListInv'
  <1>1. CASE Commit(r)
    BY <1>1, CommitListInv
  <1>2. CASE /\ audit' = audit /\ pc[r] \in {"idle", "write"}
             /\ \A s \in Reqs \ {r} : pc'[s] = pc[s] /\ job'[s] = job[s]
    <2>1. Version' = Version /\ \A s \in Reqs : NumberOf(s)' = NumberOf(s)
      BY <1>2, LogStays
    <2>2. Announced => Announced'
      BY <1>2, <2>1 DEF Announced
    <2>3. Queued => Queued'
      BY <2>1 DEF Queued, screens, link
    <2>4. QED
      BY <2>1, <2>2, <2>3, ListStays DEF screens, link, list, ListInv, ListTypeOK
  <1>3. QED
    BY <1>1, <1>2, HandleOne

\* A request that is over has been heard of, or is missed.
LEMMA EndListInv ==
  ASSUME TypeOK, ListInv, NEW r \in Reqs,
         \/ /\ Emit(r) /\ Hears(r)
            /\ UNCHANGED <<screen, online, checking, inRoom, visible, fresh, listed, fetch,
                           got, told, log, budget>>
         \/ /\ Fail(r) /\ Spend /\ Unheard(r)
            /\ UNCHANGED <<screen, online, checking, inRoom, visible, fresh, listed, fetch,
                           got, due, told, log>>
  PROVE  ListInv'
  <1>1. /\ UNCHANGED audit
        /\ \A s \in Reqs \ {r} : pc'[s] = pc[s] /\ job'[s] = job[s]
    BY EndOne
  <1>2. Version' = Version /\ \A s \in Reqs : NumberOf(s)' = NumberOf(s)
    BY <1>1, LogStays
  <1>3. Announced => Announced' \/ (pc[r] = "emit" /\ job[r].org = Home /\ NumberOf(r) = Version)
    BY <1>1, <1>2 DEF Announced
  <1>4. /\ due \subseteq 0 .. Version /\ missed \in 0 .. Version /\ checking \in Nat
        /\ online \in BOOLEAN /\ inRoom \in BOOLEAN /\ budget \in 0 .. Budget
        /\ queue \in Seq(Nat) /\ \A i \in DOMAIN queue : queue[i] <= Version
    BY DEF ListInv, ListTypeOK
  <1>5. NumberOf(r) \in 0 .. Version /\ Version \in Nat
    BY NumberBounds, HomeCounted
  <1>6. PICK n : n = NumberOf(r)
    OBVIOUS
  <1>7. /\ Missing({n}) \in 0 .. Version
        /\ n = Version \/ missed = Version => Missing({n}) = Version
    <2>1. {n} \in SUBSET (0 .. Version)
      BY <1>5, <1>6
    <2>2. /\ Missing({n}) \in 0 .. Version
          /\ Version \in {n} \/ missed = Version => Missing({n}) = Version
      BY <1>4, <1>5, <2>1, MissingIs
    <2>3. QED
      BY <2>2
  <1>8. CASE /\ Emit(r) /\ Hears(r)
             /\ UNCHANGED <<screen, online, checking, inRoom, visible, fresh, listed, fetch,
                            got, told, log, budget>>
    <2>1. pc[r] = "emit" /\ due' \subseteq 0 .. Version
      BY <1>4, <1>5, <1>8 DEF Emit, Hears
    <2>2. CASE job[r].org # Home
      <3>1. queue' = queue /\ missed' = missed
        BY <1>8, <2>2 DEF Hears
      <3>2. Queued => Queued'
        BY <1>2, <3>1 DEF Queued
      <3>3. QED
        BY <1>2, <1>3, <1>4, <1>8, <2>1, <2>2, <3>1, <3>2, ListStays
    <2>3. CASE job[r].org = Home /\ inRoom
      <3>1. queue' = Append(queue, n) /\ missed' = missed
        BY <1>6, <1>8, <2>3 DEF Hears
      <3>2. /\ queue' \in Seq(Nat) /\ Len(queue') = Len(queue) + 1 /\ Len(queue) \in Nat
            /\ DOMAIN queue' = 1 .. Len(queue')
            /\ \A i \in 1 .. Len(queue) : queue'[i] = queue[i]
            /\ queue'[Len(queue) + 1] = n
        BY <1>4, <1>5, <1>6, <3>1
      <3>3. \A i \in DOMAIN queue' : queue'[i] <= Version
        <4>1. \A i \in 1 .. Len(queue) + 1 : i \in 1 .. Len(queue) \/ i = Len(queue) + 1
          BY <3>2
        <4>2. DOMAIN queue = 1 .. Len(queue)
          BY <1>4
        <4>3. \A i \in 1 .. Len(queue) : queue'[i] <= Version
          BY <1>4, <3>2, <4>2
        <4>4. queue'[Len(queue) + 1] <= Version
          BY <1>5, <1>6, <3>2
        <4>5. DOMAIN queue' = 1 .. Len(queue) + 1
          BY <3>2
        <4>6. QED
          BY <4>1, <4>3, <4>4, <4>5
      <3>4. (Queued => Queued') /\ (n = Version => Queued')
        BY <1>2, <3>2 DEF Queued
      <3>5. QED
        BY <1>2, <1>3, <1>4, <1>6, <1>8, <2>1, <3>1, <3>2, <3>3, <3>4, ListStays
    <2>4. CASE job[r].org = Home /\ ~inRoom
      <3>1. queue' = queue /\ missed' = Missing({n})
        BY <1>6, <1>8, <2>4 DEF Hears
      <3>2. Queued => Queued'
        BY <1>2, <3>1 DEF Queued
      <3>3. QED
        BY <1>2, <1>3, <1>4, <1>6, <1>7, <1>8, <2>1, <3>1, <3>2, ListStays
    <2>5. QED
      BY <2>2, <2>3, <2>4
  <1>9. CASE /\ Fail(r) /\ Spend /\ Unheard(r)
             /\ UNCHANGED <<screen, online, checking, inRoom, visible, fresh, listed, fetch,
                            got, due, told, log>>
    <2>1. queue' = queue /\ budget' \in 0 .. Budget
      BY <1>4, <1>9, ListAssumption DEF Unheard, Spend
    <2>2. Queued => Queued'
      BY <1>2, <2>1 DEF Queued
    <2>3. CASE pc[r] = "emit" /\ job[r].org = Home
      <3>1. missed' = Missing({n})
        BY <1>6, <1>9, <2>3 DEF Unheard
      <3>2. QED
        BY <1>2, <1>3, <1>4, <1>6, <1>7, <1>9, <2>1, <2>2, <3>1, ListStays
    <2>4. CASE ~(pc[r] = "emit" /\ job[r].org = Home)
      <3>1. missed' = missed
        BY <1>9, <2>4 DEF Unheard
      <3>2. QED
        BY <1>2, <1>3, <1>4, <1>9, <2>1, <2>2, <2>4, <3>1, ListStays
    <2>5. QED
      BY <2>3, <2>4
  <1>10. QED
    BY <1>8, <1>9

LEMMA ScreensStepIsNext == [Serve \/ Browse]_allVars => [Next]_vars
  BY DEF Serve, Browse, Next, allVars, ReadLog, Deliver, Answered, FetchRead, FetchDone,
         FetchFails, Hide, Show, Connect, Enter, Drop, Rejoin

LEMMA NextListInv == TypeOK /\ ListInv /\ [Serve \/ Browse]_allVars => ListInv'
  <1> SUFFICES ASSUME TypeOK, ListInv, [Serve \/ Browse]_allVars PROVE ListInv'
    OBVIOUS
  <1>1. CASE Serve
    BY <1>1, HandleListInv, EndListInv DEF Serve
  <1>2. CASE UNCHANGED <<vars, link, list, screen>> /\ budget' \in 0 .. Budget
    <2>1. Version' = Version /\ (Announced => Announced')
      BY <1>2, BrowserApart
    <2>2. Queued => Queued'
      BY <1>2, <2>1 DEF Queued, link
    <2>3. QED
      BY <1>2, <2>1, <2>2, ListStays DEF link, list, ListInv, ListTypeOK
  <1>3. CASE Browse
    <2>1. CASE ReadLog
      <3>1. UNCHANGED <<vars, link, list>> /\ (UNCHANGED budget \/ Spend)
        BY <2>1 DEF ReadLog
      <3>2. budget \in 0 .. Budget
        BY DEF ListInv, ListTypeOK
      <3>3. budget' \in 0 .. Budget
        BY <3>1, <3>2, ListAssumption DEF Spend
      <3>4. QED
        BY <1>2, <1>3, <3>1, <3>3 DEF Browse
    <2>2. CASE ~ReadLog
      BY <1>3, <2>2, DeliverListInv, AnsweredListInv, FetchListInv, LinkListInv DEF Browse
    <2>3. QED
      BY <2>1, <2>2
  <1>4. CASE UNCHANGED allVars
    BY <1>2, <1>4 DEF allVars, screens, ListInv, ListTypeOK
  <1>5. QED
    BY <1>1, <1>3, <1>4

LEMMA InitListInv == ScreensInit => ListInv
  <1> SUFFICES ASSUME ScreensInit PROVE ListInv
    OBVIOUS
  <1>1. TypeOK
    BY InitTypeOK DEF ScreensInit
  <1>2. Version \in Nat
    BY <1>1, HomeCounted
  <1>3. queue = <<>> /\ queue \in Seq(Nat) /\ DOMAIN queue = {}
    BY DEF ScreensInit
  <1>4. ListTypeOK
    <2>1. 0 \in 0 .. Version /\ Budget \in 0 .. Budget /\ 0 \in Nat
      BY <1>2, ListAssumption
    <2>2. QED
      BY <1>3, <2>1 DEF ScreensInit, ListTypeOK
  <1>5. LatestAccounted /\ ReadsForward /\ ToldKept
    BY DEF ScreensInit, LatestAccounted, ReadsForward, ToldKept
  <1>6. QED
    BY <1>4, <1>5 DEF ListInv

LEMMA ListInvShows == TypeOK /\ ListInv => ListShowsBugs
  <1> SUFFICES ASSUME TypeOK, ListInv, Quiet, listed \notin {NoData, Version}
               PROVE  missed = Version /\ listed >= told
    BY DEF ListShowsBugs
  <1>1. ~Announced /\ ~Queued /\ ~Unfetched /\ fetch = "idle"
    BY DEF Quiet, Announced, Queued, Unfetched
  <1>2. listed \in 0 .. Version /\ told \in 0 .. Version /\ Version \in Nat
    BY ListNumbers DEF ListInv
  <1>3. QED
    BY <1>1, <1>2 DEF ListInv, LatestAccounted, ToldKept

\* For any organizations, bugs, requests and interleaving with the events, answers and
\* fetches, a list at rest shows the latest commit, unless what would have told it of
\* that commit was lost; and all of this browser's changes that were answered
\* (useOrgRealtime, refreshBugs, useCreateBug, useUpdateBug).
THEOREM ListAlwaysShows == ScreensSpec => []ListShowsBugs
  <1>1. ScreensInit => BugInv /\ ListInv
    BY InitBugInv, InitListInv DEF ScreensInit
  <1>2. BugInv /\ ListInv /\ [Serve \/ Browse]_allVars => (BugInv /\ ListInv)'
    BY NextBugInv, NextListInv, ScreensStepIsNext DEF BugInv
  <1>3. BugInv /\ ListInv => ListShowsBugs
    BY ListInvShows DEF BugInv
  <1>4. QED
    BY <1>1, <1>2, <1>3, PTL DEF ScreensSpec

-------------------------------------------------------------------------------
\* The log, page by page

LEMMA StampIsNat == \A e \in Records : e.stamp \in Nat
  BY DEF Records

LEMMA FirstOf ==
  ASSUME NEW B, NEW n \in Nat, NEW s \in [1 .. n -> B], NEW m \in 0 .. n
  PROVE  /\ Len(s) = n /\ s \in Seq(B)
         /\ SubSeq(s, 1, m) \in Seq(B) /\ Len(SubSeq(s, 1, m)) = m
         /\ \A i \in 1 .. m : SubSeq(s, 1, m)[i] = s[i]
  <1>1. s \in Seq(B) /\ Len(s) = n
    OBVIOUS
  <1>2. QED
    BY <1>1

LEMMA BothOf ==
  ASSUME NEW B, NEW s \in Seq(B), NEW t \in Seq(B)
  PROVE  /\ s \o t \in Seq(B) /\ Len(s \o t) = Len(s) + Len(t)
         /\ \A i \in 1 .. Len(s) : (s \o t)[i] = s[i]
         /\ \A i \in 1 .. Len(t) : (s \o t)[Len(s) + i] = t[i]
  OBVIOUS

LEMMA RestOf ==
  ASSUME NEW B, NEW n \in Nat, NEW s \in [1 .. n -> B], NEW q \in 0 .. n
  PROVE  /\ SubSeq(s, 1 + q, Len(s)) \in Seq(B)
         /\ Len(SubSeq(s, 1 + q, Len(s))) = n - q
         /\ \A i \in 1 .. n - q : SubSeq(s, 1 + q, Len(s))[i] = s[q + i]
  <1>1. s \in Seq(B) /\ Len(s) = n
    OBVIOUS
  <1>2. \A i \in 1 + q .. n : s[i] \in B
    OBVIOUS
  <1>3. PICK p \in 1 .. n + 1 : p = 1 + q
    OBVIOUS
  <1>4. Len(SubSeq(s, p, n)) = n - q /\ SubSeq(s, p, n) \in Seq(B)
    BY <1>1, <1>2, <1>3
  <1>5. \A i \in 1 .. n - q : SubSeq(s, p, n)[i] = s[q + i]
    BY <1>1, <1>3
  <1>6. QED
    BY <1>1, <1>3, <1>4, <1>5

\* S in an order the database may choose.
Ordered(s, n, S) ==
  /\ s \in [1 .. n -> S]
  /\ \A i, k \in 1 .. n : i < k => s[i] # s[k] /\ s[i].stamp >= s[k].stamp
  /\ \A e \in S : \E i \in 1 .. n : s[i] = e

\* A page has the m rows of that order after the q-th, which is the cursor; all of them,
\* or some, the last of which is the next cursor.
IsPage(page, S, s, c, n, q, m, es) ==
  /\ Ordered(s, n, S) /\ q + m <= n
  /\ (q = 0 /\ c = None) \/ (q # 0 /\ c = s[q])
  /\ page.items = es /\ Len(es) = m /\ \A i \in 1 .. m : es[i] = s[q + i]
  /\ (page.next = None /\ m = n - q) \/ (m # 0 /\ page.next = es[m])

LEMMA PageIs ==
  ASSUME NEW S \in SUBSET Records, IsFiniteSet(S), NEW s \in NewestFirst(S),
         NEW c, c = None \/ c \in S, NEW page, page = Page(After(s, c))
  PROVE  \E n, q, m \in Nat, es \in Seq(S) : IsPage(page, S, s, c, n, q, m, es)
  <1>1. PICK n \in Nat : n = Cardinality(S)
    BY FS_CardinalityType
  <1>2. Ordered(s, n, S)
    <2>1. s \in [1 .. n -> S] /\ S \subseteq Range(s)
          /\ \A i, k \in DOMAIN s : i < k => s[i] # s[k] /\ s[i].stamp >= s[k].stamp
      BY <1>1 DEF NewestFirst
    <2>2. QED
      BY <2>1 DEF Ordered, Range
  <1>3. s \in [1 .. n -> S]
    BY <1>2 DEF Ordered
  <1>4. PICK after : after = After(s, c)
    OBVIOUS
  <1>5. \E q \in 0 .. n : /\ (q = 0 /\ c = None) \/ (q # 0 /\ c = s[q])
                          /\ after \in Seq(S) /\ Len(after) = n - q
                          /\ \A i \in 1 .. n - q : after[i] = s[q + i]
    <2>1. CASE c = None
      <3>1. after = s
        BY <1>4, <2>1 DEF After
      <3>2. after \in Seq(S) /\ Len(after) = n - 0 /\ \A i \in 1 .. n - 0 : after[i] = s[0 + i]
        BY <1>3, <3>1
      <3>3. 0 \in 0 .. n
        OBVIOUS
      <3>4. QED
        BY <2>1, <3>2, <3>3
    <2>2. CASE c # None
      <3>1. \E i \in DOMAIN s : s[i] = c
        BY <1>2, <2>2 DEF Ordered
      <3>2. PICK q : q = CHOOSE i \in DOMAIN s : s[i] = c
        OBVIOUS
      <3>3. q \in 1 .. n /\ s[q] = c
        BY <1>3, <3>1, <3>2
      <3>4. after = SubSeq(s, 1 + q, Len(s))
        BY <1>4, <2>2, <3>2 DEF After
      <3>5. after \in Seq(S) /\ Len(after) = n - q /\ \A i \in 1 .. n - q : after[i] = s[q + i]
        BY <1>3, <3>3, <3>4, RestOf
      <3>6. QED
        BY <3>3, <3>5
    <2>3. QED
      BY <2>1, <2>2
  <1>6. PICK q \in 0 .. n : /\ (q = 0 /\ c = None) \/ (q # 0 /\ c = s[q])
                            /\ after \in Seq(S) /\ Len(after) = n - q
                            /\ \A i \in 1 .. n - q : after[i] = s[q + i]
    BY <1>5
  <1>7. PICK l \in Nat : l = n - q
    OBVIOUS
  <1>8. Len(after) = l /\ after \in [1 .. l -> S] /\ \A i \in 1 .. l : after[i] = s[q + i]
    BY <1>6, <1>7
  <1>9. Take \in Nat \ {0}
    BY TakeAssumption
  <1>10. PICK k : k = IF l < Take + 1 THEN l ELSE Take + 1
    OBVIOUS
  <1>11. k \in 0 .. l /\ (l <= Take => k = l) /\ (l > Take => k = Take + 1)
    BY <1>7, <1>9, <1>10
  <1>12. PICK rowsRead : rowsRead = SubSeq(after, 1, k)
    OBVIOUS
  <1>13. /\ rowsRead \in Seq(S) /\ Len(rowsRead) = k
         /\ \A i \in 1 .. k : rowsRead[i] = after[i]
    BY <1>8, <1>11, <1>12, FirstOf
  <1>14. page =
           [items |-> IF k > Take THEN SubSeq(rowsRead, 1, Take) ELSE rowsRead,
            next |-> IF k > Take THEN Last(IF k > Take THEN SubSeq(rowsRead, 1, Take)
                                           ELSE rowsRead) ELSE None]
    <2>1. rowsRead = SubSeq(after, 1, IF Len(after) < Take + 1 THEN Len(after) ELSE Take + 1)
      BY <1>8, <1>10, <1>12
    <2>2. QED
      BY <1>4, <1>13, <2>1 DEF Page
  <1>15. CASE k > Take
    <2>1. PICK es : es = SubSeq(rowsRead, 1, Take)
      OBVIOUS
    <2>2. k = Take + 1 /\ Take \in 0 .. k /\ Take \in 1 .. k /\ Take \in 0 .. l
      BY <1>7, <1>9, <1>11, <1>15
    <2>3. rowsRead \in [1 .. k -> S] /\ k \in Nat
      BY <1>11, <1>13
    <2>4. /\ es \in Seq(S) /\ Len(es) = Take
          /\ \A i \in 1 .. Take : es[i] = rowsRead[i]
      BY <2>1, <2>2, <2>3, FirstOf
    <2>5. \A i \in 1 .. Take : es[i] = s[q + i]
      BY <1>8, <1>11, <1>13, <2>2, <2>4
    <2>6. page.items = es /\ page.next = es[Take]
      <3>1. page = [items |-> es, next |-> Last(es)]
        BY <1>14, <1>15, <2>1
      <3>2. Last(es) = es[Take]
        BY <2>4 DEF Last
      <3>3. QED
        BY <3>1, <3>2
    <2>7. Take # 0 /\ Take \in Nat /\ q \in Nat /\ q + Take <= n
      BY <1>7, <1>9, <2>2
    <2>8. IsPage(page, S, s, c, n, q, Take, es)
      BY <1>2, <1>6, <2>4, <2>5, <2>6, <2>7 DEF IsPage
    <2>9. QED
      BY <1>1, <2>4, <2>7, <2>8
  <1>16. CASE ~(k > Take)
    <2>1. k = l
      BY <1>7, <1>9, <1>11, <1>16
    <2>2. page.items = rowsRead /\ page.next = None
      BY <1>14, <1>16
    <2>3. \A i \in 1 .. k : rowsRead[i] = s[q + i]
      BY <1>8, <1>13, <2>1
    <2>4. k \in Nat /\ q \in Nat /\ q + k <= n /\ k = n - q
      BY <1>7, <2>1
    <2>5. IsPage(page, S, s, c, n, q, k, rowsRead)
      BY <1>2, <1>6, <1>13, <2>2, <2>3, <2>4 DEF IsPage
    <2>6. QED
      BY <1>1, <1>13, <2>4, <2>5
  <1>17. QED
    BY <1>15, <1>16

\* The entries of the organization looked at.
LogSet == {audit[i] : i \in OfHome}

Shown(e) == \E i \in 1 .. Len(walk.entries) : walk.entries[i] = e

\* The walk has read entries of the log, newest first; what it has not reached of what
\* was there at its beginning is older than its cursor, or of a millisecond in the midst
\* of which a page ended.
WalkInv ==
  /\ WalkTypeOK
  /\ \A i, k \in 1 .. Len(walk.entries) : i < k =>
       /\ walk.entries[i].stamp >= walk.entries[k].stamp
       /\ walk.entries[i] = walk.entries[k] => Cut(walk.entries[i].stamp)
  /\ \A i \in 1 .. Len(walk.entries) : walk.entries[i] \in LogSet
  /\ walk.state = "new" => walk.entries = <<>> /\ walk.cursor = None
  /\ walk.state = "more" =>
       /\ walk.entries # <<>> /\ walk.cursor = walk.entries[Len(walk.entries)]
       /\ walk.cursor \in walk.turns
  /\ begun \subseteq LogSet
  /\ walk.state # "new" => \A e \in begun :
       \/ Shown(e) \/ Cut(e.stamp)
       \/ walk.state = "more" /\ e.stamp < walk.cursor.stamp

LEMMA LogSetIs ==
  ASSUME TypeOK
  PROVE  /\ LogSet \in SUBSET Records /\ IsFiniteSet(LogSet)
         /\ \A e \in LogSet : e.org = Home
  <1>1. /\ OfHome \subseteq 1 .. Len(audit) /\ IsFiniteSet(OfHome)
        /\ audit \in Seq(Records)
    BY HomeCounted
  <1>2. LogSet \in SUBSET Records
    BY <1>1 DEF LogSet
  <1>3. IsFiniteSet(LogSet)
    <2> DEFINE f == [i \in OfHome |-> audit[i]]
    <2>1. f \in Surjection(OfHome, LogSet)
      BY DEF Surjection, LogSet
    <2> HIDE DEF f
    <2>2. QED
      BY <1>1, <2>1, FS_Surjection
  <1>4. \A e \in LogSet : e.org = Home
    BY DEF LogSet, OfHome
  <1>5. QED
    BY <1>2, <1>3, <1>4

\* A millisecond stays cut while the log and the walk grow.
LEMMA CutIs == \A t : Cut(t) <=> \E c \in walk.turns : c.stamp = t
                                   /\ \E e \in LogSet : e.stamp = t /\ e # c
  BY DEF Cut, LogSet

\* Only the log grows.
LEMMA WalkStays ==
  ASSUME TypeOK, WalkInv, UNCHANGED log, LogSet \subseteq LogSet'
  PROVE  WalkInv'
  <1>1. walk' = walk /\ begun' = begun
    BY DEF log
  <1>2. ASSUME NEW t, Cut(t) PROVE Cut(t)'
    <2>1. PICK c \in walk.turns : c.stamp = t /\ \E e \in LogSet : e.stamp = t /\ e # c
      BY <1>2, CutIs
    <2>2. QED
      BY <1>1, <2>1 DEF Cut, LogSet
  <1>3. \A e : Shown(e)' <=> Shown(e)
    BY <1>1 DEF Shown
  <1>4. QED
    BY <1>1, <1>2, <1>3 DEF WalkInv, WalkTypeOK

LEMMA LogSetGrows ==
  ASSUME TypeOK, [Next]_vars
  PROVE  LogSet \subseteq LogSet'
  <1>1. ASSUME UNCHANGED audit PROVE LogSet \subseteq LogSet'
    BY <1>1 DEF LogSet, OfHome
  <1>2. ASSUME NEW r \in Reqs, Commit(r) PROVE LogSet \subseteq LogSet'
    <2>1. /\ \A i \in OfHome : i \in OfHome' /\ i \in 1 .. Len(audit)
      BY <1>2, LogGrows, HomeCounted
    <2>2. \A i \in OfHome : audit'[i] = audit[i]
      BY <1>2, <2>1, LogGrows
    <2>3. LogSet' = {audit'[i] : i \in OfHome'}
      BY DEF LogSet
    <2>4. QED
      BY <2>1, <2>2, <2>3 DEF LogSet
  <1>3. ASSUME NEW r \in Reqs, Handle(r) PROVE LogSet \subseteq LogSet'
    BY <1>1, <1>2, <1>3, HandleOne
  <1>4. ASSUME NEW r \in Reqs, Emit(r) \/ Fail(r) PROVE LogSet \subseteq LogSet'
    BY <1>1, <1>4, EndOne
  <1>5. CASE UNCHANGED vars
    BY <1>1, <1>5 DEF vars
  <1>6. QED
    BY <1>3, <1>4, <1>5 DEF Next

LEMMA ReadLogWalkInv ==
  ASSUME TypeOK, WalkInv, ReadLog
  PROVE  WalkInv'
  <1>1. PICK S : S = LogSet
    OBVIOUS
  <1>2. S \in SUBSET Records /\ IsFiniteSet(S)
    BY <1>1, LogSetIs
  <1>3. PICK c, es : c = walk.cursor /\ es = walk.entries
    OBVIOUS
  <1>4. /\ es \in Seq(Records) /\ Len(es) \in Nat
        /\ \A i \in 1 .. Len(es) : es[i] \in S
        /\ \A i, k \in 1 .. Len(es) : i < k => /\ es[i].stamp >= es[k].stamp
                                               /\ es[i] = es[k] => Cut(es[i].stamp)
        /\ begun \subseteq S /\ walk.turns \in SUBSET Records
    BY <1>1, <1>3 DEF WalkInv, WalkTypeOK
  <1>5. walk.state # "over"
    BY DEF ReadLog
  <1>s. PICK s \in NewestFirst(S) :
          LET page == Page(After(s, c)) IN
          walk' = [entries |-> es \o page.items, cursor |-> page.next,
                   turns |-> walk.turns \union ({page.next} \ {None}),
                   state |-> IF page.next = None THEN "over" ELSE "more"]
    BY <1>1, <1>3 DEF ReadLog, LogSet
  <1>p. PICK page : page = Page(After(s, c))
    OBVIOUS
  <1>6. walk' = [entries |-> es \o page.items, cursor |-> page.next,
                turns |-> walk.turns \union ({page.next} \ {None}),
                state |-> IF page.next = None THEN "over" ELSE "more"]
    BY <1>s, <1>p
  <1>7. begun' = (IF walk.state = "new" THEN S ELSE begun) /\ UNCHANGED vars
    BY <1>1 DEF ReadLog, LogSet
  <1>8. LogSet' = S
    BY <1>1, <1>7 DEF LogSet, OfHome, vars
  <1>9. \/ walk.state = "new" /\ es = <<>> /\ Len(es) = 0 /\ c = None
        \/ walk.state = "more" /\ Len(es) \in 1 .. Len(es) /\ c = es[Len(es)]
             /\ c \in walk.turns
    <2>1. CASE walk.state = "new"
      BY <1>3, <2>1 DEF WalkInv
    <2>2. CASE walk.state = "more"
      BY <1>3, <1>4, <2>2 DEF WalkInv
    <2>3. QED
      BY <1>5, <2>1, <2>2 DEF WalkInv, WalkTypeOK
  <1>10. c = None \/ c \in S
    BY <1>4, <1>9
  <1>a. PICK n, q, m \in Nat, more \in Seq(S) : IsPage(page, S, s, c, n, q, m, more)
    BY <1>2, <1>s, <1>p, <1>10, PageIs
  <1>11. /\ Ordered(s, n, S) /\ q + m <= n
         /\ (q = 0 /\ c = None) \/ (q # 0 /\ c = s[q])
         /\ page.items = more /\ Len(more) = m /\ \A i \in 1 .. m : more[i] = s[q + i]
         /\ (page.next = None /\ m = n - q) \/ (m # 0 /\ page.next = more[m])
    BY <1>a DEF IsPage
  <1>12. PICK next, all : next = page.next /\ all = es \o more
    OBVIOUS
  <1>13. /\ walk'.entries = all /\ walk'.cursor = next
         /\ walk'.turns = walk.turns \union ({next} \ {None})
         /\ walk'.state = IF next = None THEN "over" ELSE "more"
    BY <1>6, <1>11, <1>12
  <1>14. /\ s \in [1 .. n -> S]
         /\ \A i, k \in 1 .. n : i < k => s[i] # s[k] /\ s[i].stamp >= s[k].stamp
         /\ \A e \in S : \E i \in 1 .. n : s[i] = e
    BY <1>11 DEF Ordered
  <1>15. /\ m \in Nat /\ \A i \in 1 .. m : q + i \in 1 .. n /\ more[i] = s[q + i] /\ more[i] \in S
    BY <1>a, <1>11, <1>14
  <1>16. \/ next = None /\ m = n - q
         \/ m \in 1 .. m /\ next = more[m] /\ next = s[q + m] /\ next \in Records /\ next # None
    <2>1. (next = None /\ m = n - q) \/ (m # 0 /\ next = more[m])
      BY <1>11, <1>12
    <2>2. ASSUME m # 0, next = more[m]
          PROVE  m \in 1 .. m /\ next = s[q + m] /\ next \in Records /\ next # None
      BY <1>2, <1>15, <2>2, NoEntryAssumption
    <2>3. QED
      BY <2>1, <2>2
  <1>17. /\ all \in Seq(Records) /\ Len(all) = Len(es) + m /\ Len(all) \in Nat
         /\ \A i \in 1 .. Len(es) : i \in 1 .. Len(all) /\ all[i] = es[i]
         /\ \A i \in 1 .. m : Len(es) + i \in 1 .. Len(all) /\ all[Len(es) + i] = more[i]
         /\ \A i \in 1 .. Len(all) :
              \/ i \in 1 .. Len(es) /\ all[i] = es[i]
              \/ i - Len(es) \in 1 .. m /\ all[i] = more[i - Len(es)]
    <2>1. more \in Seq(Records) /\ Len(more) = m
      BY <1>2, <1>11
    <2>a. /\ es \o more \in Seq(Records) /\ Len(es \o more) = Len(es) + Len(more)
          /\ \A i \in 1 .. Len(es) : (es \o more)[i] = es[i]
          /\ \A i \in 1 .. Len(more) : (es \o more)[Len(es) + i] = more[i]
      <3>1. es \in Seq(Records) /\ more \in Seq(Records)
        BY <1>4, <2>1
      <3>2. QED
        BY ONLY <3>1, BothOf
    <2>2. /\ all \in Seq(Records) /\ Len(all) = Len(es) + m
          /\ \A i \in 1 .. Len(es) : all[i] = es[i]
          /\ \A i \in 1 .. m : all[Len(es) + i] = more[i]
      BY <1>12, <2>1, <2>a
    <2>3. ASSUME NEW i \in 1 .. Len(all), i \notin 1 .. Len(es)
          PROVE  i - Len(es) \in 1 .. m /\ all[i] = more[i - Len(es)]
      <3>1. i - Len(es) \in 1 .. m /\ Len(es) + (i - Len(es)) = i
        BY <1>4, <1>15, <2>2, <2>3
      <3>2. QED
        BY <2>2, <3>1
    <2>4. QED
      BY <1>4, <1>15, <2>2, <2>3
  <1>18. \A t : Cut(t) => Cut(t)'
    <2>1. SUFFICES ASSUME NEW t, Cut(t) PROVE Cut(t)'
      OBVIOUS
    <2>2. PICK d \in walk.turns : d.stamp = t /\ \E e \in LogSet : e.stamp = t /\ e # d
      BY <2>1, CutIs
    <2>3. d \in walk'.turns /\ \E e \in LogSet' : e.stamp = t /\ e # d
      BY <1>1, <1>8, <1>13, <2>2
    <2>4. QED
      BY <2>2, <2>3 DEF Cut, LogSet
  <1>19. ASSUME NEW d \in walk'.turns, NEW e \in S, e.stamp = d.stamp, e # d PROVE Cut(e.stamp)'
    BY <1>8, <1>19 DEF Cut, LogSet
  <1>20. /\ \A e \in S : e.stamp \in Nat
         /\ \A i \in 1 .. Len(es) : es[i].stamp \in Nat
    BY <1>2, <1>4, StampIsNat
  <1>21. ASSUME NEW i \in 1 .. Len(es), NEW k \in 1 .. m
         PROVE  es[i].stamp >= more[k].stamp /\ (es[i] = more[k] => Cut(es[i].stamp)')
    <2>1. /\ Len(es) \in 1 .. Len(es) /\ c = es[Len(es)] /\ c \in walk'.turns
          /\ c \in S /\ q # 0
      BY <1>4, <1>9, <1>11, <1>13, <1>21, NoEntryAssumption, <1>2
    <2>2. q \in 1 .. n /\ c = s[q] /\ q < q + k
      BY <1>11, <2>1
    <2>3. c # more[k] /\ c.stamp >= more[k].stamp
      BY <1>14, <1>15, <2>2
    <2>4. es[i].stamp >= c.stamp
      BY <1>4, <1>20, <2>1
    <2>5. c.stamp \in Nat /\ more[k].stamp \in Nat /\ more[k] \in S
      BY <1>15, <1>20, <2>1
    <2>6. es[i].stamp >= more[k].stamp
      BY <1>20, <2>3, <2>4, <2>5
    <2>7. ASSUME es[i] = more[k] PROVE Cut(es[i].stamp)'
      <3>1. more[k].stamp = c.stamp
        BY <2>3, <2>4, <2>5, <2>7
      <3>2. Cut(more[k].stamp)'
        BY <1>19, <2>1, <2>3, <2>5, <3>1
      <3>3. QED
        BY <2>7, <3>2
    <2>8. QED
      BY <2>6, <2>7
  <1>22. ASSUME NEW i \in 1 .. Len(all), NEW k \in 1 .. Len(all), i < k
         PROVE  all[i].stamp >= all[k].stamp /\ (all[i] = all[k] => Cut(all[i].stamp)')
    <2>1. CASE i \in 1 .. Len(es) /\ k \in 1 .. Len(es)
      BY <1>4, <1>17, <1>18, <1>22, <2>1
    <2>2. CASE i \in 1 .. Len(es) /\ k \notin 1 .. Len(es)
      <3>1. k - Len(es) \in 1 .. m /\ all[k] = more[k - Len(es)] /\ all[i] = es[i]
        BY <1>17, <2>2
      <3>2. QED
        BY <1>21, <2>2, <3>1
    <2>3. CASE i \notin 1 .. Len(es)
      <3>1. k \notin 1 .. Len(es)
        BY <1>4, <1>17, <1>22, <2>3
      <3>2. /\ i - Len(es) \in 1 .. m /\ all[i] = more[i - Len(es)]
            /\ k - Len(es) \in 1 .. m /\ all[k] = more[k - Len(es)]
        BY <1>17, <2>3, <3>1
      <3>3. q + (i - Len(es)) < q + (k - Len(es))
        BY <1>4, <1>17, <1>22
      <3>4. all[i] = s[q + (i - Len(es))] /\ all[k] = s[q + (k - Len(es))]
            /\ q + (i - Len(es)) \in 1 .. n /\ q + (k - Len(es)) \in 1 .. n
        BY <1>15, <3>2
      <3>5. QED
        BY <1>14, <3>3, <3>4
    <2>4. QED
      BY <2>1, <2>2, <2>3
  <1>23. \A i \in 1 .. Len(all) : all[i] \in S
    BY <1>4, <1>15, <1>17
  <1>24. begun' \subseteq S
    BY <1>4, <1>7
  <1>25. ASSUME NEW e \in begun'
         PROVE  Shown(e)' \/ Cut(e.stamp)' \/ (next # None /\ e.stamp < next.stamp)
    <2>1. e \in S /\ e.stamp \in Nat
      BY <1>20, <1>24
    <2>2. CASE Shown(e)
      BY <1>3, <1>13, <1>17, <2>2 DEF Shown
    <2>3. CASE Cut(e.stamp)
      BY <1>18, <2>3
    <2>4. CASE c = None \/ e.stamp < c.stamp
      <3>1. PICK p \in 1 .. n : s[p] = e
        BY <1>14, <2>1
      <3>2. p > q
        <4>1. CASE q = 0
          BY <4>1
        <4>2. CASE q # 0
          <5>1. c = s[q] /\ q \in 1 .. n /\ c \in S
            BY <1>11, <1>14, <4>2
          <5>2. c # None
            BY <1>2, <5>1, NoEntryAssumption
          <5>3. ~(p < q) /\ p # q
            BY <1>14, <1>20, <2>1, <2>4, <3>1, <5>1, <5>2
          <5>4. QED
            BY <5>1, <5>3
        <4>3. QED
          BY <4>1, <4>2
      <3>3. CASE p - q \in 1 .. m
        <4>1. more[p - q] = e
          BY <1>15, <3>1, <3>3
        <4>2. Len(es) + (p - q) \in 1 .. Len(all) /\ all[Len(es) + (p - q)] = e
          BY <1>17, <3>3, <4>1
        <4>3. QED
          BY <1>13, <4>2 DEF Shown
      <3>4. CASE p - q \notin 1 .. m
        <4>1. q + m < p /\ ~(m = n - q)
          BY <1>11, <1>15, <3>1, <3>2, <3>4
        <4>2. m \in 1 .. m /\ next = s[q + m] /\ next \in Records /\ next # None
          BY <1>16, <4>1
        <4>3. q + m \in 1 .. n
          BY <1>15, <4>2
        <4>4. next # e /\ next.stamp >= e.stamp /\ next.stamp \in Nat
          BY <1>14, <3>1, <4>1, <4>2, <4>3, StampIsNat
        <4>5. CASE next.stamp = e.stamp
          BY <1>13, <1>19, <2>1, <4>2, <4>4, <4>5
        <4>6. CASE next.stamp # e.stamp
          BY <2>1, <4>2, <4>4, <4>6
        <4>7. QED
          BY <4>5, <4>6
      <3>5. QED
        BY <3>3, <3>4
    <2>5. QED
      <3>1. CASE walk.state = "new"
        BY <1>9, <2>4, <3>1
      <3>2. CASE walk.state = "more"
        <4>1. e \in begun
          BY <1>7, <3>2
        <4>2. Shown(e) \/ Cut(e.stamp) \/ e.stamp < c.stamp
          BY <1>3, <3>2, <4>1 DEF WalkInv
        <4>3. QED
          BY <2>2, <2>3, <2>4, <4>2
      <3>3. QED
        BY <1>9, <3>1, <3>2
  <1>26. WalkTypeOK'
    <2>1. next \in Records \union {None} /\ {next} \ {None} \subseteq Records
      BY <1>16
    <2>2. walk' = [entries |-> all, cursor |-> next, turns |-> walk.turns \union ({next} \ {None}),
                   state |-> IF next = None THEN "over" ELSE "more"]
      BY <1>6, <1>11, <1>12
    <2>3. QED
      BY <1>4, <1>17, <2>1, <2>2 DEF WalkTypeOK
  <1>27. ASSUME next # None
         PROVE  all # <<>> /\ next = all[Len(all)] /\ next \in walk'.turns
    <2>1. m \in 1 .. m /\ next = more[m]
      BY <1>16, <1>27
    <2>2. Len(all) # 0 /\ all[Len(all)] = more[m]
      BY <1>4, <1>17, <2>1
    <2>3. QED
      BY <1>13, <1>27, <2>1, <2>2
  <1>28. WalkInv'
    <2>1. /\ \A i \in 1 .. Len(walk'.entries) : walk'.entries[i] \in LogSet'
          /\ begun' \subseteq LogSet'
      BY <1>8, <1>13, <1>23, <1>24
    <2>2. /\ walk'.state # "new"
          /\ walk'.state = "more" =>
               /\ walk'.entries # <<>> /\ walk'.cursor = walk'.entries[Len(walk'.entries)]
               /\ walk'.cursor \in walk'.turns
      BY <1>13, <1>27
    <2>3. \A i, k \in 1 .. Len(walk'.entries) : i < k =>
            /\ walk'.entries[i].stamp >= walk'.entries[k].stamp
            /\ walk'.entries[i] = walk'.entries[k] => Cut(walk.entries[i].stamp)'
      BY <1>13, <1>22 DEF Cut
    <2>4. \A e \in begun' : Shown(e)' \/ Cut(e.stamp)'
                              \/ (walk'.state = "more" /\ e.stamp < walk'.cursor.stamp)
      BY <1>13, <1>25
    <2>5. QED
      BY <1>26, <2>1, <2>2, <2>3, <2>4 DEF WalkInv
  <1>29. QED
    BY <1>28

LEMMA NextWalkInv ==
  TypeOK /\ WalkInv /\ [Serve \/ Browse]_allVars => WalkInv'
  <1> SUFFICES ASSUME TypeOK, WalkInv, [Serve \/ Browse]_allVars PROVE WalkInv'
    OBVIOUS
  <1>1. CASE ReadLog
    BY <1>1, ReadLogWalkInv
  <1>2. CASE UNCHANGED log
    BY <1>2, WalkStays, LogSetGrows, ScreensStepIsNext
  <1>3. QED
    BY <1>1, <1>2
    DEF Serve, Browse, allVars, screens, Deliver, Answered, FetchRead, FetchDone,
        FetchFails, Hide, Show, Connect, Enter, Drop, Rejoin

LEMMA WalkInvSkipsNothing ==
  ASSUME TypeOK, WalkInv
  PROVE  WalkSkipsNothing
  <1>1. PICK es : es = walk.entries
    OBVIOUS
  <1>2. es \in Seq(Records) /\ DOMAIN es = 1 .. Len(es) /\ Len(es) \in Nat
    BY <1>1 DEF WalkInv, WalkTypeOK
  <1>3. /\ \A i, k \in DOMAIN es : i < k =>
             es[i].stamp >= es[k].stamp /\ (es[i] = es[k] => Cut(es[i].stamp))
        /\ \A i \in DOMAIN es : es[i].org = Home
    BY <1>1, <1>2, LogSetIs DEF WalkInv
  <1>4. ASSUME walk.state # "new", NEW e \in begun,
               walk.state = "over" \/ (es # <<>> /\ e.stamp > Last(es).stamp)
        PROVE  e \in Range(es) \/ Cut(e.stamp)
    <2>1. \/ Shown(e) \/ Cut(e.stamp)
          \/ walk.state = "more" /\ e.stamp < walk.cursor.stamp
      BY <1>1, <1>4 DEF WalkInv
    <2>2. ASSUME walk.state = "more", e.stamp < walk.cursor.stamp PROVE FALSE
      <3>1. walk.cursor = Last(es)
        BY <1>1, <2>2 DEF WalkInv, Last
      <3>2. Len(es) \in 1 .. Len(es)
        BY <1>1, <1>2, <2>2 DEF WalkInv
      <3>3. Last(es).stamp \in Nat
        BY <1>2, <3>2, StampIsNat DEF Last
      <3>4. e.stamp \in Nat
        BY LogSetIs, StampIsNat DEF WalkInv
      <3>5. QED
        BY <1>4, <2>2, <3>1, <3>3, <3>4
    <2>3. QED
      BY <1>1, <1>2, <2>1, <2>2 DEF Range, Shown
  <1>5. QED
    BY <1>1, <1>3, <1>4 DEF WalkSkipsNothing

\* For any entries, growth of the log and length of a page, and whatever order the
\* database gives the entries of one millisecond, reading the log page by page gives
\* each entry once, newest first, and skips none that was there at the start, except
\* entries of a millisecond in the midst of which a page ended
\* (AuditQueryService.list, useAuditLogs).
THEOREM WalkNeverSkips == ScreensSpec => []WalkSkipsNothing
  <1>1. ScreensInit => BugInv /\ WalkInv
    <2>1. ScreensInit => BugInv
      BY InitBugInv DEF ScreensInit
    <2>2. ScreensInit => WalkInv
      BY DEF ScreensInit, WalkInv, WalkTypeOK
    <2>3. QED
      BY <2>1, <2>2
  <1>2. BugInv /\ WalkInv /\ [Serve \/ Browse]_allVars => (BugInv /\ WalkInv)'
    BY NextBugInv, NextWalkInv, ScreensStepIsNext DEF BugInv
  <1>3. BugInv /\ WalkInv => WalkSkipsNothing
    BY WalkInvSkipsNothing DEF BugInv
  <1>4. QED
    BY <1>1, <1>2, <1>3, PTL DEF ScreensSpec

\* Every variable has its type, and no number exceeds that of the commits.
THEOREM ScreensTypeCorrect == ScreensSpec => []ScreensTypeOK
  <1>1. ScreensInit => BugInv /\ ListInv /\ WalkInv
    <2>1. ScreensInit => BugInv /\ ListInv
      BY InitBugInv, InitListInv DEF ScreensInit
    <2>2. ScreensInit => WalkInv
      BY DEF ScreensInit, Init, WalkInv, WalkTypeOK
    <2>3. QED
      BY <2>1, <2>2
  <1>2. BugInv /\ ListInv /\ WalkInv /\ [Serve \/ Browse]_allVars
          => (BugInv /\ ListInv /\ WalkInv)'
    BY NextBugInv, NextListInv, NextWalkInv, ScreensStepIsNext DEF BugInv
  <1>3. BugInv /\ ListInv /\ WalkInv => ScreensTypeOK
    <2>1. TypeOK /\ WalkInv => begun \subseteq Records
      BY LogSetIs DEF WalkInv
    <2>2. QED
      BY <2>1 DEF BugInv, ListInv, WalkInv, ScreensTypeOK
  <1>4. QED
    BY <1>1, <1>2, <1>3, PTL DEF ScreensSpec
===============================================================================
