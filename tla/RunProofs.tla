------------------------------- MODULE RunProofs -------------------------------
(***************************************************************************)
(* Theorems about runs, for any number of users, cases and requests, and   *)
(* the counting they rest on; then those that need transactions which do   *)
(* not meet on a case or do not overlap, and the dashboard's.              *)
(***************************************************************************)
EXTENDS Dashboard, FiniteSetTheorems, TLAPS


\* The shape of a step: what the request does next and what it leaves alone.
LEMMA NoLocalsOK == NoLocals \in Locals
  BY ResultsAssumption DEF NoLocals, Locals, Statuses

LEMMA InitTypeOK == Init => TypeOK
  <1> SUFFICES ASSUME Init PROVE TypeOK
    OBVIOUS
  <1>1. /\ counters \in [CounterFields -> Int]
        /\ result \in [Cases -> Results]
        /\ recordedBy \in [Cases -> Users \cup {Nobody}]
        /\ assignees \subseteq Users
    BY ResultsAssumption DEF Init
  <1>0. status \in Statuses /\ startedAt \in BOOLEAN /\ completedAt \in BOOLEAN
    BY DEF Init, Statuses
  <1>2. audit \in Seq(Entries)
    BY DEF Init
  <1>3. /\ lock \in [Rows -> Reqs \cup {Nobody}]
        /\ pc \in [Reqs -> PCs]
        /\ job \in [Reqs -> Jobs]
        /\ loc \in [Reqs -> Locals]
        /\ \A r \in Reqs : JobFits(pc[r], job[r])
    BY NoLocalsOK DEF Init, PCs, Jobs, JobFits
  <1>4. QED
    BY <1>1, <1>0, <1>2, <1>3 DEF TypeOK

LEMMA FinishTypeOK ==
  ASSUME TypeOK, NEW r \in Reqs, Finish(r)
  PROVE  /\ pc' \in [Reqs -> PCs]
         /\ job' \in [Reqs -> Jobs]
         /\ loc' \in [Reqs -> Locals]
         /\ \A q \in Reqs : JobFits(pc'[q], job'[q])
  BY NoLocalsOK DEF TypeOK, Finish, Goto, PCs, Jobs, JobFits

LEMMA StepTypeOK ==
  ASSUME TypeOK, NEW r \in Reqs, NEW step, Goto(r, step), UNCHANGED job,
         JobFits(step, job[r]), step \in PCs
  PROVE  /\ pc' \in [Reqs -> PCs]
         /\ job' \in [Reqs -> Jobs]
         /\ \A q \in Reqs : JobFits(pc'[q], job'[q])
  BY DEF TypeOK, Goto

\* The input of a request that is inside one of the handlers.
LEMMA JobOf ==
  ASSUME TypeOK, NEW r \in Reqs
  PROVE  /\ pc[r] \in RecordTx \cup {"record.emit"} => job[r] \in RecordJobs
         /\ pc[r] \in StatusTx \cup {"status.emit"} => job[r] \in StatusJobs
         /\ pc[r] \in AssignTx \cup {"assign.emit"} => job[r] \in AssignJobs
  BY DEF TypeOK, JobFits, RecordTx, StatusTx, AssignTx

LEMMA ReleasedOK ==
  ASSUME TypeOK, NEW R, lock' = Released(R)
  PROVE  lock' \in [Rows -> Reqs \cup {Nobody}]
  BY DEF TypeOK, Released

LEMMA ShiftedOK ==
  ASSUME NEW cs \in [CounterFields -> Int], NEW prev, NEW next
  PROVE  Shifted(cs, prev, next) \in [CounterFields -> Int]
  BY DEF Shifted, Delta

LEMMA TurnOK ==
  ASSUME NEW l \in Locals, NEW R \in SUBSET Users, NEW k \in Turn(l, R)
  PROVE  k \in Locals /\ k.rows = R /\ k.removed = l.removed
  <1>1. PICK u \in R \cup {Nobody} : k = [l EXCEPT !.rows = R, !.row = u]
    BY DEF Turn
  <1>2. QED
    BY <1>1 DEF Locals

\* What a step of updateAssignees is, apart from the commit and the event: the end of
\* the request, or a step inside the transaction that changes its locals.
LEMMA AssignMoves ==
  ASSUME TypeOK, NEW r \in Reqs, AssignStep(r)
  PROVE  \/ AssignCommit(r) \/ AssignEmit(r)
         \/ Finish(r) /\ UNCHANGED <<dbVars, lock, emitted>>
         \/ /\ pc[r] \in AssignTx /\ UNCHANGED <<dbVars, lock, job, emitted>>
            /\ \E step \in {"assign.rows", "assign.insert", "assign.commit"}, l \in Locals :
                 Goto(r, step) /\ loc' = [loc EXCEPT ![r] = l]
  <1> DEFINE Moves(step) ==
        /\ pc[r] \in AssignTx /\ UNCHANGED <<dbVars, lock, job, emitted>>
        /\ Goto(r, step) /\ \E l \in Locals : loc' = [loc EXCEPT ![r] = l]
  <1>0. /\ loc[r] \in Locals /\ assignees \in SUBSET Users /\ loc[r].rows \in SUBSET Users
        /\ loc[r].removed \in SUBSET Users
    BY DEF TypeOK, Locals
  <1>1. CASE AssignDelete(r)
    <2> DEFINE none == [loc[r] EXCEPT !.removed = {}]
    <2>1. PICK l \in Turn(none, assignees) : loc' = [loc EXCEPT ![r] = l]
      BY <1>1 DEF AssignDelete
    <2>0. none \in Locals
      BY <1>0 DEF Locals
    <2> HIDE DEF none
    <2>2. l \in Locals
      BY <1>0, <2>0, <2>1, TurnOK
    <2>3. Moves("assign.rows")
      BY <1>1, <2>1, <2>2 DEF AssignDelete, AssignTx
    <2>4. QED
      BY <2>3
  <1>2. CASE AssignDeleteRow(r)
    <2> DEFINE u == loc[r].row
    <2>1. PICK l \in Turn(loc[r], loc[r].rows \ {u}) :
            loc' = [loc EXCEPT ![r] = [l EXCEPT !.removed = @ \cup ({u} \cap loc[r].rows)]]
      BY <1>2 DEF AssignDeleteRow
    <2>2. l \in Locals /\ l.removed = loc[r].removed
      BY <1>0, <2>1, TurnOK
    <2>3. loc[r].removed \cup ({u} \cap loc[r].rows) \in SUBSET Users
      BY <1>0
    <2>4. [l EXCEPT !.removed = @ \cup ({u} \cap loc[r].rows)] \in Locals
      BY <2>2, <2>3 DEF Locals
    <2>5. pc[r] = "assign.rows" /\ pc' = [pc EXCEPT ![r] = "assign.rows"]
      BY <1>2 DEF AssignDeleteRow, TypeOK
    <2>6. Moves("assign.rows")
      BY <1>2, <2>1, <2>4, <2>5 DEF AssignDeleteRow, AssignTx, Goto
    <2>7. QED
      BY <2>6
  <1>3. CASE AssignDeleteDone(r)
    <2>1. PICK l \in Turn(loc[r], job[r].ids) : loc' = [loc EXCEPT ![r] = l]
      BY <1>3 DEF AssignDeleteDone
    <2>2. job[r].ids \in SUBSET Users
      BY <1>3, JobOf DEF AssignDeleteDone, AssignTx, AssignJobs
    <2>3. l \in Locals
      BY <1>0, <2>1, <2>2, TurnOK
    <2>4. Moves("assign.insert")
      BY <1>3, <2>1, <2>3 DEF AssignDeleteDone, AssignTx
    <2>5. QED
      BY <2>4
  <1>4. CASE AssignInsertRow(r)
    <2> DEFINE u == loc[r].row
    <2>1. CASE u \in assignees \ loc[r].removed
      BY <1>4, <2>1 DEF AssignInsertRow
    <2>2. CASE u \notin assignees \ loc[r].removed
      <3>1. PICK l \in Turn(loc[r], loc[r].rows \ {u}) : loc' = [loc EXCEPT ![r] = l]
        BY <1>4, <2>2 DEF AssignInsertRow
      <3>2. loc[r].rows \ {u} \in SUBSET Users
        BY <1>0
      <3>3. l \in Locals
        BY <1>0, <3>1, <3>2, TurnOK
      <3>4. pc[r] = "assign.insert" /\ pc' = [pc EXCEPT ![r] = "assign.insert"]
        BY <1>4, <2>2 DEF AssignInsertRow, TypeOK
      <3>5. Moves("assign.insert")
        BY <1>4, <2>2, <3>1, <3>3, <3>4 DEF AssignInsertRow, AssignTx, Goto
      <3>6. QED
        BY <3>5
    <2>3. QED
      BY <2>1, <2>2
  <1>5. CASE AssignLoad(r)
    <2>1. job[r].ids \in SUBSET Users
      BY <1>5, JobOf DEF AssignLoad, AssignTx, AssignJobs
    <2>2. [loc[r] EXCEPT !.roster = (assignees \ loc[r].removed) \cup job[r].ids] \in Locals
      BY <1>0, <2>1 DEF Locals
    <2>3. Moves("assign.commit")
      BY <1>5, <2>2 DEF AssignLoad, AssignTx
    <2>4. QED
      BY <2>3
  <1>6. QED
    BY <1>1, <1>2, <1>3, <1>4, <1>5 DEF AssignStep

\* A commit of a list changes nothing but the rows that others still have to do.
LEMMA AssignCommitLocals ==
  ASSUME TypeOK, NEW r \in Reqs, AssignCommit(r)
  PROVE  /\ loc' \in [Reqs -> Locals]
         /\ \A q \in Reqs :
              /\ loc'[q].prev = loc[q].prev
              /\ pc[q] # "assign.rows" \/ q = r => loc'[q] = loc[q]
  <1>1. loc' = [s \in Reqs |->
                  IF pc[s] = "assign.rows" /\ s # r
                  THEN [loc[s] EXCEPT !.rows = @ \ loc[r].removed] ELSE loc[s]]
    BY DEF AssignCommit
  <1>2. ASSUME NEW q \in Reqs
        PROVE  /\ [loc[q] EXCEPT !.rows = @ \ loc[r].removed] \in Locals
               /\ [loc[q] EXCEPT !.rows = @ \ loc[r].removed].prev = loc[q].prev
    BY DEF TypeOK, Locals
  <1>3. QED
    BY <1>1, <1>2 DEF TypeOK

\* Every step of any request keeps the types.
LEMMA NextTypeOK == TypeOK /\ [Next]_vars => TypeOK'
  <1> SUFFICES ASSUME TypeOK, [Next]_vars PROVE TypeOK'
    OBVIOUS
  <1> USE DEF Statuses
  <1>1. ASSUME NEW r \in Reqs, Receive(r) PROVE TypeOK'
    <2>1. PICK j \in RecordJobs \cup StatusJobs \cup AssignJobs,
               step \in {"record.run", "status.run", "assign.delete"} :
            Arrive(r, j, step) /\ JobFits(step, j)
      BY <1>1 DEF Receive, ArriveRecord, ArriveStatus, ArriveAssign, JobFits,
                  RecordTx, StatusTx, AssignTx
    <2>2. /\ pc' \in [Reqs -> PCs] /\ job' \in [Reqs -> Jobs]
          /\ \A q \in Reqs : JobFits(pc'[q], job'[q])
      <3>1. step \in PCs
        BY DEF PCs, InFlight, InTx, RecordTx, StatusTx, AssignTx
      <3>2. QED
        BY <2>1, <3>1 DEF Arrive, Goto, Jobs, TypeOK
    <2>3. QED
      BY <2>1, <2>2 DEF Arrive, TypeOK, dbVars
  <1>2. ASSUME NEW r \in Reqs, RecordStep(r) PROVE TypeOK'
    <2>1. CASE RecordReadRun(r)
      <3>1. CASE status = "IN_PROGRESS"
        <4>1. Goto(r, "record.case") /\ UNCHANGED <<dbVars, lock, job, loc>>
          BY <2>1, <3>1 DEF RecordReadRun
        <4>2. JobFits("record.case", job[r]) /\ "record.case" \in PCs
          BY <2>1, JobOf DEF RecordReadRun, JobFits, PCs, InFlight, InTx, RecordTx
        <4>3. QED
          BY <4>1, <4>2, StepTypeOK DEF TypeOK, dbVars
      <3>2. CASE status # "IN_PROGRESS"
        BY <2>1, <3>2, FinishTypeOK DEF RecordReadRun, TypeOK, dbVars
      <3>3. QED
        BY <3>1, <3>2
    <2>2. CASE RecordReadCase(r)
      <3>1. JobFits("record.update", job[r]) /\ "record.update" \in PCs
        BY <2>2, JobOf DEF RecordReadCase, JobFits, PCs, InFlight, InTx, RecordTx
      <3>2. loc' \in [Reqs -> Locals]
        <4>1. result[job[r].case] \in Results
          BY <2>2, JobOf DEF RecordReadCase, TypeOK, RecordJobs, RecordTx
        <4>2. [loc[r] EXCEPT !.prev = result[job[r].case]] \in Locals
          BY <4>1 DEF TypeOK, Locals
        <4>3. QED
          BY <2>2, <4>2 DEF RecordReadCase, TypeOK
      <3>3. QED
        BY <2>2, <3>1, <3>2, StepTypeOK DEF RecordReadCase, TypeOK, dbVars
    <2>3. CASE RecordUpdateCase(r)
      <3>1. JobFits("record.shift", job[r]) /\ "record.shift" \in PCs
        BY <2>3, JobOf DEF RecordUpdateCase, JobFits, PCs, InFlight, InTx, RecordTx
      <3>2. lock' \in [Rows -> Reqs \cup {Nobody}]
        BY <2>3 DEF RecordUpdateCase, Take, TypeOK
      <3>3. QED
        BY <2>3, <3>1, <3>2, StepTypeOK DEF RecordUpdateCase, TypeOK, dbVars
    <2>4. CASE RecordShift(r)
      <3>1. JobFits("record.commit", job[r]) /\ "record.commit" \in PCs
        BY <2>4, JobOf DEF RecordShift, JobFits, PCs, InFlight, InTx, RecordTx
      <3>2. lock' \in [Rows -> Reqs \cup {Nobody}]
        BY <2>4 DEF RecordShift, Take, TypeOK
      <3>3. loc' \in [Reqs -> Locals]
        <4>1. PICK c \in [CounterFields -> Int] : loc' = [loc EXCEPT ![r].counters = c]
          BY <2>4, ShiftedOK DEF RecordShift, TypeOK
        <4>2. [loc[r] EXCEPT !.counters = c] \in Locals
          BY <4>1 DEF TypeOK, Locals
        <4>3. QED
          BY <4>1, <4>2 DEF TypeOK
      <3>4. QED
        BY <2>4, <3>1, <3>2, <3>3, StepTypeOK DEF RecordShift, TypeOK, dbVars
    <2>5. CASE RecordCommit(r)
      <3>0. job[r] \in RecordJobs
        BY <2>5, JobOf DEF RecordCommit, RecordTx
      <3>1. JobFits("record.emit", job[r]) /\ "record.emit" \in PCs
        BY <3>0 DEF JobFits, PCs, InFlight, Emitting
      <3>2. lock' \in [Rows -> Reqs \cup {Nobody}]
        BY <2>5, ReleasedOK DEF RecordCommit, Release
      <3>3. /\ result' \in [Cases -> Results]
            /\ recordedBy' \in [Cases -> Users \cup {Nobody}]
        BY <2>5, <3>0 DEF RecordCommit, RecorderOf, TypeOK, RecordJobs
      <3>4. counters' \in [CounterFields -> Int]
        BY <2>5, ShiftedOK DEF RecordCommit, TypeOK
      <3>5. audit' \in Seq(Entries)
        <4>1. [op |-> "record", req |-> r, user |-> job[r].user,
               case |-> job[r].case, prev |-> loc[r].prev,
               next |-> job[r].result] \in Entries
          BY <3>0 DEF TypeOK, Locals, RecordJobs, Entries, RecordEntries
        <4>2. QED
          BY <2>5, <4>1 DEF RecordCommit, TypeOK
      <3>6. QED
        BY <2>5, <3>1, <3>2, <3>3, <3>4, <3>5, StepTypeOK DEF RecordCommit, TypeOK
    <2>6. CASE RecordEmit(r)
      BY <2>6, FinishTypeOK DEF RecordEmit, TypeOK, dbVars
    <2>7. QED
      BY <1>2, <2>1, <2>2, <2>3, <2>4, <2>5, <2>6 DEF RecordStep
  <1>3. ASSUME NEW r \in Reqs, StatusStep(r) PROVE TypeOK'
    <2>1. CASE StatusReadRun(r)
      <3>1. CASE ValidTransition(status, job[r].target)
        <4>1. JobFits("status.update", job[r]) /\ "status.update" \in PCs
          BY <2>1, JobOf DEF StatusReadRun, JobFits, PCs, InFlight, InTx, StatusTx
        <4>2. loc' \in [Reqs -> Locals]
          <5>1. [loc[r] EXCEPT !.seen = status, !.stamped = startedAt] \in Locals
            BY DEF TypeOK, Locals
          <5>2. QED
            BY <2>1, <3>1, <5>1 DEF StatusReadRun, TypeOK
        <4>3. QED
          BY <2>1, <3>1, <4>1, <4>2, StepTypeOK DEF StatusReadRun, TypeOK, dbVars
      <3>2. CASE ~ValidTransition(status, job[r].target)
        BY <2>1, <3>2, FinishTypeOK DEF StatusReadRun, TypeOK, dbVars
      <3>3. QED
        BY <3>1, <3>2
    <2>2. CASE StatusUpdateRun(r)
      <3>1. JobFits("status.commit", job[r]) /\ "status.commit" \in PCs
        BY <2>2, JobOf DEF StatusUpdateRun, JobFits, PCs, InFlight, InTx, StatusTx
      <3>2. lock' \in [Rows -> Reqs \cup {Nobody}]
        BY <2>2 DEF StatusUpdateRun, Take, TypeOK
      <3>3. QED
        BY <2>2, <3>1, <3>2, StepTypeOK DEF StatusUpdateRun, TypeOK, dbVars
    <2>3. CASE StatusCommit(r)
      <3>0. job[r] \in StatusJobs
        BY <2>3, JobOf DEF StatusCommit, StatusTx
      <3>1. JobFits("status.emit", job[r]) /\ "status.emit" \in PCs
        BY <3>0 DEF JobFits, PCs, InFlight, Emitting
      <3>2. lock' \in [Rows -> Reqs \cup {Nobody}]
        BY <2>3, ReleasedOK DEF StatusCommit, Release
      <3>3. status' \in Statuses
        BY <2>3, <3>0 DEF StatusCommit, StatusJobs, Targets
      <3>4. startedAt' \in BOOLEAN /\ completedAt' \in BOOLEAN
        BY <2>3 DEF StatusCommit, TypeOK
      <3>5. audit' \in Seq(Entries)
        <4>1. [op |-> "status", req |-> r, user |-> job[r].user,
               prev |-> loc[r].seen, next |-> job[r].target] \in Entries
          BY <3>0 DEF TypeOK, Locals, StatusJobs, Entries, StatusEntries
        <4>2. QED
          BY <2>3, <4>1 DEF StatusCommit, TypeOK
      <3>6. QED
        BY <2>3, <3>1, <3>2, <3>3, <3>4, <3>5, StepTypeOK DEF StatusCommit, TypeOK
    <2>4. CASE StatusEmit(r)
      BY <2>4, FinishTypeOK DEF StatusEmit, TypeOK, dbVars
    <2>5. QED
      BY <1>3, <2>1, <2>2, <2>3, <2>4 DEF StatusStep
  <1>4. ASSUME NEW r \in Reqs, AssignStep(r) PROVE TypeOK'
    <2>1. ASSUME NEW step \in {"assign.rows", "assign.insert", "assign.commit"},
                 NEW l \in Locals, pc[r] \in AssignTx, Goto(r, step),
                 loc' = [loc EXCEPT ![r] = l], UNCHANGED <<dbVars, lock, job, emitted>>
          PROVE  TypeOK'
      <3>1. JobFits(step, job[r]) /\ step \in PCs
        BY <2>1, JobOf DEF JobFits, PCs, InFlight, InTx, AssignTx
      <3>2. loc' \in [Reqs -> Locals]
        BY <2>1 DEF TypeOK
      <3>3. QED
        BY <2>1, <3>1, <3>2, StepTypeOK DEF TypeOK, dbVars
    <2>2. CASE Finish(r) /\ UNCHANGED <<dbVars, lock, emitted>>
      BY <2>2, FinishTypeOK DEF TypeOK, dbVars
    <2>3. CASE AssignCommit(r)
      <3>0. job[r] \in AssignJobs
        BY <2>3, JobOf DEF AssignCommit, AssignTx
      <3>1. JobFits("assign.emit", job[r]) /\ "assign.emit" \in PCs
        BY <3>0 DEF JobFits, PCs, InFlight, Emitting
      <3>2. assignees' \subseteq Users
        BY <2>3, <3>0 DEF AssignCommit, TypeOK, AssignJobs
      <3>3. audit' \in Seq(Entries)
        <4>1. [op |-> "assign", req |-> r, user |-> job[r].user,
               ids |-> job[r].ids] \in Entries
          BY <3>0 DEF AssignJobs, Entries, AssignEntries
        <4>2. QED
          BY <2>3, <4>1 DEF AssignCommit, TypeOK
      <3>4. loc' \in [Reqs -> Locals]
        BY <2>3, AssignCommitLocals
      <3>5. QED
        BY <2>3, <3>1, <3>2, <3>3, <3>4, StepTypeOK DEF AssignCommit, TypeOK
    <2>4. CASE AssignEmit(r)
      BY <2>4, FinishTypeOK DEF AssignEmit, TypeOK, dbVars
    <2>5. QED
      BY <1>4, <2>1, <2>2, <2>3, <2>4, AssignMoves
  <1>5. ASSUME NEW r \in Reqs, Abort(r) \/ DeadlockVictim(r) PROVE TypeOK'
    BY <1>5, FinishTypeOK, ReleasedOK DEF Abort, DeadlockVictim, Release, TypeOK, dbVars
  <1>6. ASSUME NEW r \in Reqs, NameOfFails(r) PROVE TypeOK'
    BY <1>6, FinishTypeOK DEF NameOfFails, TypeOK, dbVars
  <1>7. CASE Crash
    <2> DEFINE lost == {r \in Reqs : pc[r] \in InFlight}
    <2>1. lock' \in [Rows -> Reqs \cup {Nobody}]
      BY <1>7, ReleasedOK DEF Crash
    <2>2. /\ pc' = [r \in Reqs |-> IF r \in lost THEN "done" ELSE pc[r]]
          /\ job' = [r \in Reqs |-> IF r \in lost THEN NoJob ELSE job[r]]
          /\ loc' = [r \in Reqs |-> IF r \in lost THEN NoLocals ELSE loc[r]]
          /\ UNCHANGED dbVars
      BY <1>7 DEF Crash
    <2> HIDE DEF lost
    <2>3. /\ pc' \in [Reqs -> PCs] /\ job' \in [Reqs -> Jobs]
          /\ loc' \in [Reqs -> Locals]
      BY <2>2, NoLocalsOK DEF TypeOK, PCs, Jobs
    <2>4. \A q \in Reqs : JobFits(pc'[q], job'[q])
      BY <2>2 DEF TypeOK, JobFits
    <2>5. QED
      BY <2>1, <2>2, <2>3, <2>4 DEF TypeOK, dbVars
  <1>8. CASE UNCHANGED vars
    BY <1>8 DEF vars, TypeOK
  <1>9. QED
    BY <1>1, <1>2, <1>3, <1>4, <1>5, <1>6, <1>7, <1>8 DEF Next, Serve

\* The types hold in every reachable state, whatever requests and failures
\* interleave.
THEOREM TypeCorrect == Spec => []TypeOK
  <1>1. QED
    BY InitTypeOK, NextTypeOK, PTL DEF Spec

-------------------------------------------------------------------------------
\* The audit log as a history of the counters

\* What one more entry does to the sets the replay counts.
LEMMA AuditGrows ==
  ASSUME TypeOK, NEW e \in Entries, audit' = Append(audit, e), NEW f
  PROVE  /\ Gains(f)' = IF e.op = "record" /\ e.next = f
                        THEN Gains(f) \cup {Len(audit) + 1} ELSE Gains(f)
         /\ Losses(f)' = IF e.op = "record" /\ e.prev = f
                         THEN Losses(f) \cup {Len(audit) + 1} ELSE Losses(f)
         /\ Len(audit) + 1 \notin Gains(f) \cup Losses(f)
  <1>1. /\ audit \in Seq(Entries) /\ Len(audit) \in Nat
        /\ DOMAIN audit = 1..Len(audit)
    BY DEF TypeOK
  <1>2. /\ DOMAIN audit' = 1..(Len(audit) + 1)
        /\ \A i \in 1..Len(audit) : audit'[i] = audit[i]
        /\ audit'[Len(audit) + 1] = e
    BY <1>1
  <1>3. /\ DOMAIN audit' = DOMAIN audit \cup {Len(audit) + 1}
        /\ Len(audit) + 1 \notin DOMAIN audit
    BY <1>1, <1>2
  <1> HIDE DEF TypeOK
  <1>4. QED
    BY <1>1, <1>2, <1>3 DEF Gains, Losses, Records

LEMMA AuditFinite ==
  ASSUME TypeOK, NEW f
  PROVE  /\ IsFiniteSet(Gains(f)) /\ Cardinality(Gains(f)) \in Nat
         /\ IsFiniteSet(Losses(f)) /\ Cardinality(Losses(f)) \in Nat
  <1>1. DOMAIN audit = 1..Len(audit) /\ Len(audit) \in Nat
    BY DEF TypeOK
  <1>2. IsFiniteSet(1..Len(audit))
    BY <1>1, FS_Interval
  <1>3. Gains(f) \subseteq 1..Len(audit) /\ Losses(f) \subseteq 1..Len(audit)
    BY <1>1 DEF Gains, Losses, Records
  <1>4. IsFiniteSet(Gains(f)) /\ IsFiniteSet(Losses(f))
    BY <1>2, <1>3, FS_Subset
  <1>5. QED
    BY <1>4, FS_CardinalityType

\* Nothing but a commit is visible in the database.
LEMMA OnlyCommitsWrite ==
  Next => \/ UNCHANGED dbVars
          \/ \E r \in Reqs : RecordCommit(r) \/ StatusCommit(r) \/ AssignCommit(r)
  <1>1. ASSUME NEW r \in Reqs, Receive(r) PROVE UNCHANGED dbVars
    BY <1>1 DEF Receive, ArriveRecord, ArriveStatus, ArriveAssign, Arrive
  <1>2. ASSUME NEW r \in Reqs, Serve(r)
        PROVE  \/ UNCHANGED dbVars
               \/ RecordCommit(r) \/ StatusCommit(r) \/ AssignCommit(r)
    BY <1>2 DEF Serve, RecordStep, StatusStep, AssignStep, RecordReadRun,
         RecordReadCase, RecordUpdateCase, RecordShift, RecordEmit,
         StatusReadRun, StatusUpdateRun, StatusEmit, AssignDelete, AssignDeleteRow,
         AssignDeleteDone, AssignInsertRow, AssignLoad, AssignEmit, DeadlockVictim
  <1>3. QED
    BY <1>1, <1>2 DEF Next, Abort, NameOfFails, Crash

\* Only RecordCommit touches the counters, and it writes the entry that
\* accounts for the change.
LEMMA ReplayStep ==
  TypeOK /\ CountersReplayAudit /\ [Next]_vars => CountersReplayAudit'
  <1> SUFFICES ASSUME TypeOK, CountersReplayAudit, [Next]_vars,
                      NEW f \in CounterFields
               PROVE  counters'[f] = Cardinality(Gains(f)') - Cardinality(Losses(f)')
    BY DEF CountersReplayAudit
  <1>0. counters[f] = Cardinality(Gains(f)) - Cardinality(Losses(f))
    BY DEF CountersReplayAudit
  <1>1. CASE UNCHANGED <<counters, audit>>
    BY <1>0, <1>1 DEF Gains, Losses, Records
  <1>2. ASSUME NEW r \in Reqs, RecordCommit(r)
        PROVE  counters'[f] = Cardinality(Gains(f)') - Cardinality(Losses(f)')
    <2> DEFINE e == [op |-> "record", req |-> r, user |-> job[r].user,
                     case |-> job[r].case, prev |-> loc[r].prev,
                     next |-> job[r].result]
    <2>1. e \in Entries
      BY <1>2, JobOf DEF RecordCommit, RecordTx, TypeOK, Locals, RecordJobs,
                        Entries, RecordEntries
    <2>2. audit' = Append(audit, e)
      BY <1>2 DEF RecordCommit
    <2>3. e.op = "record" /\ e.next = job[r].result /\ e.prev = loc[r].prev
      OBVIOUS
    <2>4. counters'[f] = counters[f] + Delta(f, e.prev, e.next)
      BY <1>2 DEF RecordCommit, Shifted
    <2> HIDE DEF e
    <2>5. Cardinality(Gains(f)') = Cardinality(Gains(f)) + (IF e.next = f THEN 1 ELSE 0)
      <3>1. /\ Gains(f)' = IF e.next = f THEN Gains(f) \cup {Len(audit) + 1} ELSE Gains(f)
            /\ Len(audit) + 1 \notin Gains(f)
        BY <2>1, <2>2, <2>3, AuditGrows
      <3>2. Cardinality(Gains(f) \cup {Len(audit) + 1}) = Cardinality(Gains(f)) + 1
        BY <3>1, AuditFinite, FS_AddElement
      <3>3. Cardinality(Gains(f)) \in Nat
        BY AuditFinite
      <3>4. QED
        BY <3>1, <3>2, <3>3
    <2>6. Cardinality(Losses(f)') = Cardinality(Losses(f)) + (IF e.prev = f THEN 1 ELSE 0)
      <3>1. /\ Losses(f)' = IF e.prev = f THEN Losses(f) \cup {Len(audit) + 1} ELSE Losses(f)
            /\ Len(audit) + 1 \notin Losses(f)
        BY <2>1, <2>2, <2>3, AuditGrows
      <3>2. Cardinality(Losses(f) \cup {Len(audit) + 1}) = Cardinality(Losses(f)) + 1
        BY <3>1, AuditFinite, FS_AddElement
      <3>3. Cardinality(Losses(f)) \in Nat
        BY AuditFinite
      <3>4. QED
        BY <3>1, <3>2, <3>3
    <2>7. Cardinality(Gains(f)) \in Nat /\ Cardinality(Losses(f)) \in Nat
      BY AuditFinite
    <2>8. QED
      BY <1>0, <2>4, <2>5, <2>6, <2>7 DEF Delta
  <1>3. ASSUME NEW e \in Entries, e.op # "record", audit' = Append(audit, e),
               UNCHANGED counters
        PROVE  counters'[f] = Cardinality(Gains(f)') - Cardinality(Losses(f)')
    BY <1>0, <1>3, AuditGrows
  <1>4. ASSUME NEW r \in Reqs, StatusCommit(r)
        PROVE  counters'[f] = Cardinality(Gains(f)') - Cardinality(Losses(f)')
    <2> DEFINE e == [op |-> "status", req |-> r, user |-> job[r].user,
                     prev |-> loc[r].seen, next |-> job[r].target]
    <2>1. e \in Entries
      BY <1>4, JobOf DEF StatusCommit, StatusTx, TypeOK, Locals, StatusJobs,
                        Entries, StatusEntries
    <2>2. e.op # "record" /\ audit' = Append(audit, e) /\ UNCHANGED counters
      BY <1>4 DEF StatusCommit
    <2>3. QED
      BY <1>3, <2>1, <2>2
  <1>5. ASSUME NEW r \in Reqs, AssignCommit(r)
        PROVE  counters'[f] = Cardinality(Gains(f)') - Cardinality(Losses(f)')
    <2> DEFINE e == [op |-> "assign", req |-> r, user |-> job[r].user,
                     ids |-> job[r].ids]
    <2>1. e \in Entries
      BY <1>5, JobOf DEF AssignCommit, AssignTx, AssignJobs, Entries, AssignEntries
    <2>2. e.op # "record" /\ audit' = Append(audit, e) /\ UNCHANGED counters
      BY <1>5 DEF AssignCommit
    <2>3. QED
      BY <1>3, <2>1, <2>2
  <1>6. \/ UNCHANGED <<counters, audit>>
        \/ \E r \in Reqs : RecordCommit(r) \/ StatusCommit(r) \/ AssignCommit(r)
    BY OnlyCommitsWrite DEF dbVars, vars
  <1>7. QED
    BY <1>1, <1>2, <1>4, <1>5, <1>6

\* Replaying the audit log always gives the counter columns.
THEOREM CountersAlwaysReplay == Spec => []CountersReplayAudit
  <1>1. Init => CountersReplayAudit
    <2> SUFFICES ASSUME Init, NEW f \in CounterFields
                 PROVE  counters[f] = Cardinality(Gains(f)) - Cardinality(Losses(f))
      BY DEF CountersReplayAudit
    <2>1. Gains(f) = {} /\ Losses(f) = {}
      BY DEF Init, Gains, Losses, Records
    <2>2. QED
      BY <2>1, FS_EmptySet DEF Init
  <1>2. QED
    BY <1>1, ReplayStep, TypeCorrect, PTL DEF Spec

-------------------------------------------------------------------------------
\* The stamps of the run

\* A transition that is about to be written was valid from the status it read,
\* and what it read of startedAt has not been taken back.
StampsInTx == \A r \in Reqs :
  pc[r] \in {"status.update", "status.commit"} =>
    /\ ValidTransition(loc[r].seen, job[r].target)
    /\ loc[r].seen = "IN_PROGRESS" => startedAt
    /\ loc[r].stamped => startedAt

StampInv == TypeOK /\ StampsFollowStatus /\ StampsInTx

\* A step of r that neither is nor stays between the read and the commit.
LEMMA StampQuiet ==
  ASSUME StampInv, UNCHANGED <<status, startedAt, completedAt>>,
         \A q \in Reqs : \/ pc'[q] \notin {"status.update", "status.commit"}
                         \/ /\ pc[q] \in {"status.update", "status.commit"}
                            /\ job'[q] = job[q] /\ loc'[q] = loc[q],
         \A i \in Records("status")' : audit'[i].next = "COMPLETED" =>
            \E k \in Records("status") : audit[k].next = "COMPLETED"
  PROVE  StampsFollowStatus' /\ StampsInTx'
  BY DEF StampInv, StampsFollowStatus, StampsInTx, ValidTransition

LEMMA StatusRecords ==
  ASSUME TypeOK, NEW e \in Entries, audit' = Append(audit, e)
  PROVE  \A i \in Records("status")' :
           \/ i \in Records("status") /\ audit'[i] = audit[i]
           \/ audit'[i] = e /\ e.op = "status"
  BY DEF TypeOK, Records

LEMMA StampStep == StampInv /\ [Next]_vars => StampInv'
  <1> SUFFICES ASSUME StampInv, [Next]_vars PROVE StampInv'
    OBVIOUS
  <1>0. TypeOK /\ TypeOK'
    BY NextTypeOK DEF StampInv
  <1> SUFFICES StampsFollowStatus' /\ StampsInTx'
    BY <1>0 DEF StampInv
  <1>1. ASSUME NEW r \in Reqs, UNCHANGED dbVars,
               \A q \in Reqs \ {r} : pc'[q] = pc[q] /\ job'[q] = job[q] /\ loc'[q] = loc[q],
               pc'[r] \notin {"status.update", "status.commit"}
        PROVE  StampsFollowStatus' /\ StampsInTx'
    <2>1. \A i \in Records("status")' : audit'[i].next = "COMPLETED" =>
            \E k \in Records("status") : audit[k].next = "COMPLETED"
      BY <1>1 DEF dbVars, Records
    <2>2. QED
      BY <1>1, <2>1, StampQuiet DEF dbVars
  <1>2. ASSUME NEW r \in Reqs, UNCHANGED dbVars, NEW step, Goto(r, step),
               step \notin {"status.update", "status.commit"},
               \A q \in Reqs \ {r} : job'[q] = job[q] /\ loc'[q] = loc[q]
        PROVE  StampsFollowStatus' /\ StampsInTx'
    BY <1>0, <1>1, <1>2 DEF Goto, TypeOK
  <1>3. ASSUME NEW r \in Reqs, UNCHANGED dbVars, Finish(r)
        PROVE  StampsFollowStatus' /\ StampsInTx'
    BY <1>0, <1>2, <1>3 DEF Finish, TypeOK
  <1>4. ASSUME NEW r \in Reqs, Receive(r) PROVE StampsFollowStatus' /\ StampsInTx'
    <2>1. PICK j \in Jobs, step \in {"record.run", "status.run", "assign.delete"} :
            Arrive(r, j, step)
      BY <1>4 DEF Receive, ArriveRecord, ArriveStatus, ArriveAssign, Jobs
    <2>2. QED
      BY <1>0, <2>1, <1>2 DEF Arrive, TypeOK
  <1>5. ASSUME NEW r \in Reqs, RecordStep(r) PROVE StampsFollowStatus' /\ StampsInTx'
    <2>1. CASE RecordReadRun(r)
      <3>1. CASE status = "IN_PROGRESS"
        BY <2>1, <3>1, <1>2 DEF RecordReadRun
      <3>2. CASE status # "IN_PROGRESS"
        BY <2>1, <3>2, <1>3 DEF RecordReadRun
      <3>3. QED
        BY <3>1, <3>2
    <2>2. CASE RecordReadCase(r)
      BY <2>2, <1>0, <1>2 DEF RecordReadCase, TypeOK
    <2>3. CASE RecordUpdateCase(r)
      BY <2>3, <1>2 DEF RecordUpdateCase
    <2>4. CASE RecordShift(r)
      BY <2>4, <1>0, <1>2 DEF RecordShift, TypeOK
    <2>5. CASE RecordCommit(r)
      <3> DEFINE e == [op |-> "record", req |-> r, user |-> job[r].user,
                       case |-> job[r].case, prev |-> loc[r].prev,
                       next |-> job[r].result]
      <3>1. e \in Entries /\ audit' = Append(audit, e)
        BY <1>0, <2>5, JobOf DEF RecordCommit, RecordTx, TypeOK, Locals,
             RecordJobs, Entries, RecordEntries
      <3>2. e.op # "status"
        OBVIOUS
      <3> HIDE DEF e
      <3>3. \A i \in Records("status")' : audit'[i].next = "COMPLETED" =>
              \E k \in Records("status") : audit[k].next = "COMPLETED"
        BY <1>0, <3>1, <3>2, StatusRecords
      <3>4. QED
        BY <1>0, <2>5, <3>3, StampQuiet DEF RecordCommit, Goto, TypeOK
    <2>6. CASE RecordEmit(r)
      BY <2>6, <1>3 DEF RecordEmit
    <2>7. QED
      BY <1>5, <2>1, <2>2, <2>3, <2>4, <2>5, <2>6 DEF RecordStep
  <1>6. ASSUME NEW r \in Reqs, StatusReadRun(r)
        PROVE  StampsFollowStatus' /\ StampsInTx'
    <2>1. CASE ValidTransition(status, job[r].target)
      <3>1. /\ loc' = [loc EXCEPT ![r].seen = status, ![r].stamped = startedAt]
            /\ Goto(r, "status.update") /\ UNCHANGED <<dbVars, job>>
        BY <1>6, <2>1 DEF StatusReadRun
      <3>2. loc'[r].seen = status /\ loc'[r].stamped = startedAt
        BY <1>0, <3>1 DEF TypeOK, Locals
      <3>3. StampsFollowStatus'
        BY <3>1 DEF StampInv, StampsFollowStatus, Records, dbVars
      <3>4. ASSUME NEW q \in Reqs, pc'[q] \in {"status.update", "status.commit"}
            PROVE  /\ ValidTransition(loc'[q].seen, job'[q].target)
                   /\ loc'[q].seen = "IN_PROGRESS" => startedAt'
                   /\ loc'[q].stamped => startedAt'
        <4>1. CASE q = r
          BY <2>1, <3>1, <3>2, <4>1 DEF StampInv, StampsFollowStatus, dbVars
        <4>2. CASE q # r
          <5>1. pc'[q] = pc[q] /\ loc'[q] = loc[q] /\ job'[q] = job[q]
                /\ startedAt' = startedAt
            BY <1>0, <3>1, <4>2 DEF Goto, TypeOK, dbVars
          <5>2. QED
            BY <3>4, <5>1 DEF StampInv, StampsInTx
        <4>3. QED
          BY <4>1, <4>2
      <3>5. QED
        BY <3>3, <3>4 DEF StampsInTx, ValidTransition
    <2>2. CASE ~ValidTransition(status, job[r].target)
      BY <1>6, <2>2, <1>3 DEF StatusReadRun
    <2>3. QED
      BY <2>1, <2>2
  <1>7. ASSUME NEW r \in Reqs, StatusUpdateRun(r)
        PROVE  StampsFollowStatus' /\ StampsInTx'
    BY <1>0, <1>7 DEF StatusUpdateRun, Goto, TypeOK, dbVars, StampInv,
         StampsFollowStatus, StampsInTx, Records, ValidTransition
  <1>8. ASSUME NEW r \in Reqs, StatusCommit(r)
        PROVE  StampsFollowStatus' /\ StampsInTx'
    <2> DEFINE e == [op |-> "status", req |-> r, user |-> job[r].user,
                     prev |-> loc[r].seen, next |-> job[r].target]
    <2>1. e \in Entries /\ audit' = Append(audit, e)
      BY <1>0, <1>8, JobOf DEF StatusCommit, StatusTx, TypeOK, Locals,
           StatusJobs, Entries, StatusEntries
    <2>2. e.next = job[r].target
      OBVIOUS
    <2>3. /\ ValidTransition(loc[r].seen, job[r].target)
          /\ loc[r].seen = "IN_PROGRESS" => startedAt
          /\ loc[r].stamped => startedAt
      BY <1>8 DEF StampInv, StampsInTx, StatusCommit
    <2>4. /\ status' = job[r].target
          /\ startedAt' = (startedAt \/ (job[r].target = "IN_PROGRESS" /\ ~loc[r].stamped))
          /\ completedAt' = (completedAt \/ job[r].target \in Terminal)
          /\ UNCHANGED <<job, loc>> /\ Goto(r, "status.emit")
      BY <1>8 DEF StatusCommit
    <2> HIDE DEF e
    <2>5. startedAt => startedAt'
      BY <2>4
    <2>6. job[r].target \in {"IN_PROGRESS", "COMPLETED"} => startedAt'
      BY <2>3, <2>4 DEF ValidTransition
    <2>7. \A i \in Records("status")' : audit'[i].next = "COMPLETED" => startedAt'
      BY <1>0, <2>1, <2>2, <2>5, <2>6, StatusRecords DEF StampInv, StampsFollowStatus
    <2>8. StampsFollowStatus'
      BY <2>4, <2>6, <2>7 DEF StampsFollowStatus
    <2>9. StampsInTx'
      BY <1>0, <2>4, <2>5 DEF StampInv, StampsInTx, Goto, TypeOK, ValidTransition
    <2>10. QED
      BY <2>8, <2>9
  <1>9. ASSUME NEW r \in Reqs, StatusEmit(r)
        PROVE  StampsFollowStatus' /\ StampsInTx'
    BY <1>9, <1>3 DEF StatusEmit
  <1>10. ASSUME NEW r \in Reqs, AssignStep(r)
         PROVE  StampsFollowStatus' /\ StampsInTx'
    <2>1. ASSUME NEW step \in {"assign.rows", "assign.insert", "assign.commit"},
                 NEW l \in Locals, Goto(r, step),
                 loc' = [loc EXCEPT ![r] = l], UNCHANGED <<dbVars, job>>
          PROVE  StampsFollowStatus' /\ StampsInTx'
      <3>1. \A q \in Reqs \ {r} : job'[q] = job[q] /\ loc'[q] = loc[q]
        BY <2>1, <1>0 DEF TypeOK
      <3>2. QED
        BY <2>1, <3>1, <1>2
    <2>2. CASE Finish(r) /\ UNCHANGED <<dbVars, lock, emitted>>
      BY <2>2, <1>3
    <2>3. CASE AssignCommit(r)
      <3> DEFINE e == [op |-> "assign", req |-> r, user |-> job[r].user,
                       ids |-> job[r].ids]
      <3>1. e \in Entries /\ audit' = Append(audit, e)
        BY <1>0, <2>3, JobOf DEF AssignCommit, AssignTx, AssignJobs, Entries,
             AssignEntries
      <3>2. e.op # "status"
        OBVIOUS
      <3> HIDE DEF e
      <3>3. \A i \in Records("status")' : audit'[i].next = "COMPLETED" =>
              \E k \in Records("status") : audit[k].next = "COMPLETED"
        BY <1>0, <3>1, <3>2, StatusRecords
      <3>4. QED
        BY <1>0, <2>3, <3>3, StampQuiet, AssignCommitLocals DEF AssignCommit, Goto, TypeOK
    <2>4. CASE AssignEmit(r)
      BY <2>4, <1>3 DEF AssignEmit
    <2>5. QED
      BY <1>0, <1>10, <2>1, <2>2, <2>3, <2>4, AssignMoves
  <1>11. ASSUME NEW r \in Reqs, Abort(r) \/ NameOfFails(r) \/ DeadlockVictim(r)
         PROVE  StampsFollowStatus' /\ StampsInTx'
    BY <1>11, <1>3 DEF Abort, NameOfFails, DeadlockVictim, dbVars
  <1>12. ASSUME Crash PROVE StampsFollowStatus' /\ StampsInTx'
    <2>1. \A q \in Reqs : pc'[q] \notin {"status.update", "status.commit"}
      BY <1>12 DEF Crash, InFlight, InTx, StatusTx
    <2>2. \A i \in Records("status")' : audit'[i].next = "COMPLETED" =>
            \E k \in Records("status") : audit[k].next = "COMPLETED"
      BY <1>12 DEF Crash, dbVars, Records
    <2>3. QED
      BY <1>12, <2>1, <2>2, StampQuiet DEF Crash, dbVars
  <1>13. CASE UNCHANGED vars
    BY <1>13 DEF vars, StampInv, StampsFollowStatus, StampsInTx, Records, ValidTransition
  <1>14. QED
    BY <1>4, <1>5, <1>6, <1>7, <1>8, <1>9, <1>10, <1>11, <1>12, <1>13
    DEF Next, Serve, StatusStep

\* However transitions race, a run that is or was in progress has startedAt and
\* a closed one has completedAt.
THEOREM StampsAlwaysFollow == Spec => []StampsFollowStatus
  <1>1. Init => StampInv
    BY InitTypeOK DEF Init, StampInv, StampsFollowStatus, StampsInTx, Records, Terminal
  <1>2. StampInv => StampsFollowStatus
    BY DEF StampInv
  <1>3. QED
    BY <1>1, <1>2, StampStep, PTL DEF Spec

-------------------------------------------------------------------------------
\* The last word of the audit log

CaseHasLastWord(c) ==
  \/ RecordsOf(c) = {} /\ result[c] = "PENDING" /\ recordedBy[c] = Nobody
  \/ \E i \in RecordsOf(c) :
       /\ LastOf(RecordsOf(c), i)
       /\ result[c] = audit[i].next
       /\ recordedBy[c] = IF result[c] = "PENDING" THEN Nobody ELSE audit[i].user

StatusHasLastWord ==
  \/ Records("status") = {} /\ status = "PLANNED"
  \/ \E i \in Records("status") :
       LastOf(Records("status"), i) /\ status = audit[i].next

LEMMA LastWordParts ==
  AuditHasLastWord <=> (\A c \in Cases : CaseHasLastWord(c)) /\ StatusHasLastWord
  BY DEF AuditHasLastWord, CaseHasLastWord, StatusHasLastWord

\* One more entry is the last of its kind and no other's.
LEMMA NewestEntry ==
  ASSUME TypeOK, NEW e \in Entries, audit' = Append(audit, e)
  PROVE  \E n : /\ audit'[n] = e
                /\ \A i \in DOMAIN audit : audit'[i] = audit[i] /\ i <= n
                /\ n <= n
                /\ \A op : Records(op)' = IF e.op = op THEN Records(op) \cup {n}
                                          ELSE Records(op)
                /\ \A c : RecordsOf(c)' = IF e.op = "record" /\ e.case = c
                                          THEN RecordsOf(c) \cup {n} ELSE RecordsOf(c)
  <1> DEFINE n == Len(audit) + 1
  <1>1. audit \in Seq(Entries) /\ Len(audit) \in Nat /\ DOMAIN audit = 1..Len(audit)
    BY DEF TypeOK
  <1>2. /\ DOMAIN audit' = 1..(Len(audit) + 1) /\ audit'[n] = e
        /\ \A i \in 1..Len(audit) : audit'[i] = audit[i]
    BY <1>1
  <1>3. /\ DOMAIN audit' = DOMAIN audit \cup {n} /\ n \notin DOMAIN audit /\ n <= n
        /\ \A i \in DOMAIN audit : audit'[i] = audit[i] /\ i <= n
    BY <1>1, <1>2
  <1> HIDE DEF n
  <1>4. ASSUME NEW op
        PROVE  Records(op)' = IF e.op = op THEN Records(op) \cup {n} ELSE Records(op)
    BY <1>2, <1>3 DEF Records
  <1>5. ASSUME NEW c
        PROVE  RecordsOf(c)' = IF e.op = "record" /\ e.case = c
                               THEN RecordsOf(c) \cup {n} ELSE RecordsOf(c)
    BY <1>2, <1>3, <1>4 DEF RecordsOf, Records
  <1>6. QED
    BY <1>2, <1>3, <1>4, <1>5

\* An entry about something else leaves a case its last word.
LEMMA CaseKeepsWord ==
  ASSUME TypeOK, NEW e \in Entries, audit' = Append(audit, e),
         NEW c \in Cases, CaseHasLastWord(c), ~(e.op = "record" /\ e.case = c),
         result'[c] = result[c], recordedBy'[c] = recordedBy[c]
  PROVE  CaseHasLastWord(c)'
  <1>1. /\ RecordsOf(c)' = RecordsOf(c)
        /\ \A i \in DOMAIN audit : audit'[i] = audit[i]
    BY NewestEntry
  <1>2. RecordsOf(c) \subseteq DOMAIN audit
    BY DEF RecordsOf, Records
  <1>3. QED
    BY <1>1, <1>2 DEF CaseHasLastWord, LastOf

LEMMA StatusKeepsWord ==
  ASSUME TypeOK, NEW e \in Entries, audit' = Append(audit, e),
         StatusHasLastWord, e.op # "status", UNCHANGED status
  PROVE  StatusHasLastWord'
  <1>1. /\ Records("status")' = Records("status")
        /\ \A i \in DOMAIN audit : audit'[i] = audit[i]
    BY NewestEntry
  <1>2. Records("status") \subseteq DOMAIN audit
    BY DEF Records
  <1>3. QED
    BY <1>1, <1>2 DEF StatusHasLastWord, LastOf

LEMMA LastWordStep == TypeOK /\ AuditHasLastWord /\ [Next]_vars => AuditHasLastWord'
  <1> SUFFICES ASSUME TypeOK, AuditHasLastWord, [Next]_vars
               PROVE  (\A c \in Cases : CaseHasLastWord(c)') /\ StatusHasLastWord'
    BY LastWordParts DEF AuditHasLastWord, CaseHasLastWord, StatusHasLastWord
  <1>0. (\A c \in Cases : CaseHasLastWord(c)) /\ StatusHasLastWord
    BY LastWordParts
  <1>1. CASE UNCHANGED dbVars
    BY <1>0, <1>1 DEF dbVars, CaseHasLastWord, StatusHasLastWord, RecordsOf, Records, LastOf
  <1>2. ASSUME NEW r \in Reqs, RecordCommit(r)
        PROVE  (\A c \in Cases : CaseHasLastWord(c)') /\ StatusHasLastWord'
    <2> DEFINE e == [op |-> "record", req |-> r, user |-> job[r].user,
                     case |-> job[r].case, prev |-> loc[r].prev,
                     next |-> job[r].result]
    <2>1. e \in Entries /\ job[r].case \in Cases
      BY <1>2, JobOf DEF RecordCommit, RecordTx, TypeOK, Locals, RecordJobs,
                        Entries, RecordEntries
    <2>2. /\ audit' = Append(audit, e) /\ UNCHANGED status
          /\ result' = [result EXCEPT ![job[r].case] = job[r].result]
          /\ recordedBy' = [recordedBy EXCEPT ![job[r].case] = RecorderOf(job[r])]
      BY <1>2 DEF RecordCommit
    <2>3. /\ e.op = "record" /\ e.case = job[r].case /\ e.next = job[r].result
          /\ e.user = job[r].user
      OBVIOUS
    <2> HIDE DEF e
    <2>4. StatusHasLastWord'
      BY <1>0, <2>1, <2>2, <2>3, StatusKeepsWord
    <2>5. ASSUME NEW c \in Cases, c # e.case PROVE CaseHasLastWord(c)'
      <3>1. result'[c] = result[c] /\ recordedBy'[c] = recordedBy[c]
        BY <2>2, <2>3, <2>5 DEF TypeOK
      <3>2. QED
        BY <1>0, <2>1, <2>2, <2>5, <3>1, CaseKeepsWord
    <2>6. ASSUME NEW c \in Cases, c = e.case PROVE CaseHasLastWord(c)'
      <3>1. PICK n : /\ audit'[n] = e
                     /\ \A i \in DOMAIN audit : audit'[i] = audit[i] /\ i <= n
                     /\ n <= n
                     /\ \A d : RecordsOf(d)' = IF e.op = "record" /\ e.case = d
                                               THEN RecordsOf(d) \cup {n} ELSE RecordsOf(d)
        BY <2>1, <2>2, NewestEntry
      <3>2. RecordsOf(c)' = RecordsOf(c) \cup {n}
        BY <2>3, <2>6, <3>1
      <3>3. RecordsOf(c) \subseteq DOMAIN audit
        BY DEF RecordsOf, Records
      <3>4. n \in RecordsOf(c)' /\ \A i \in RecordsOf(c)' : i <= n
        BY <3>1, <3>2, <3>3
      <3>5. /\ result'[c] = e.next
            /\ recordedBy'[c] = IF e.next = "PENDING" THEN Nobody ELSE e.user
        BY <2>1, <2>2, <2>3, <2>6 DEF TypeOK, RecorderOf
      <3>6. QED
        BY <3>1, <3>4, <3>5 DEF CaseHasLastWord, LastOf
    <2>7. QED
      BY <2>4, <2>5, <2>6
  <1>3. ASSUME NEW r \in Reqs, StatusCommit(r)
        PROVE  (\A c \in Cases : CaseHasLastWord(c)') /\ StatusHasLastWord'
    <2> DEFINE e == [op |-> "status", req |-> r, user |-> job[r].user,
                     prev |-> loc[r].seen, next |-> job[r].target]
    <2>1. e \in Entries
      BY <1>3, JobOf DEF StatusCommit, StatusTx, TypeOK, Locals, StatusJobs,
                        Entries, StatusEntries
    <2>2. /\ audit' = Append(audit, e) /\ status' = e.next
          /\ UNCHANGED <<result, recordedBy>>
      BY <1>3 DEF StatusCommit
    <2>3. e.op = "status"
      OBVIOUS
    <2> HIDE DEF e
    <2>4. \A c \in Cases : CaseHasLastWord(c)'
      BY <1>0, <2>1, <2>2, <2>3, CaseKeepsWord
    <2>5. PICK n : /\ audit'[n] = e
                   /\ \A i \in DOMAIN audit : audit'[i] = audit[i] /\ i <= n
                   /\ n <= n
                   /\ Records("status")' = Records("status") \cup {n}
      BY <2>1, <2>2, <2>3, NewestEntry
    <2>6. LastOf(Records("status")', n)
      BY <2>5 DEF LastOf, Records
    <2>7. QED
      BY <2>2, <2>4, <2>5, <2>6 DEF StatusHasLastWord, LastOf
  <1>4. ASSUME NEW r \in Reqs, AssignCommit(r)
        PROVE  (\A c \in Cases : CaseHasLastWord(c)') /\ StatusHasLastWord'
    <2> DEFINE e == [op |-> "assign", req |-> r, user |-> job[r].user,
                     ids |-> job[r].ids]
    <2>1. e \in Entries
      BY <1>4, JobOf DEF AssignCommit, AssignTx, AssignJobs, Entries, AssignEntries
    <2>2. audit' = Append(audit, e) /\ UNCHANGED <<status, result, recordedBy>>
      BY <1>4 DEF AssignCommit
    <2>3. e.op = "assign"
      OBVIOUS
    <2> HIDE DEF e
    <2>4. QED
      BY <1>0, <2>1, <2>2, <2>3, CaseKeepsWord, StatusKeepsWord
  <1>5. QED
    BY <1>1, <1>2, <1>3, <1>4, OnlyCommitsWrite DEF vars, dbVars

\* However recordings and transitions race, fail or are cut off, a case shows the
\* result and the recorder of its latest entry in the log, and the run the status of
\* its latest (audit.record in the transaction of recordResult and updateStatus).
THEOREM LogHasLastWord == Spec => []AuditHasLastWord
  <1>1. Init => AuditHasLastWord
    BY DEF Init, AuditHasLastWord, RecordsOf, Records
  <1>2. QED
    BY <1>1, LastWordStep, TypeCorrect, PTL DEF Spec

-------------------------------------------------------------------------------
\* What events tell

\* An event tells what was committed (EventsTellCommittedHistory, of one event).
Committed(e) ==
  \E i \in DOMAIN audit :
    /\ audit[i].req = e.req /\ audit[i].op = e.op
    /\ e.op = "record" =>
         /\ e.case = audit[i].case /\ e.user = audit[i].user
         /\ e.prev = audit[i].prev /\ e.next = audit[i].next
         /\ \E n \in 0..i : /\ e.counters = Replay(n)
                            /\ e.prev # e.next => n = i
    /\ e.op = "status" => e.next = audit[i].next

\* The event that a request is about to send.
EventOf(r) ==
  CASE pc[r] = "record.emit" ->
         [op |-> "record", req |-> r, user |-> job[r].user, case |-> job[r].case,
          prev |-> loc[r].prev, next |-> job[r].result, counters |-> loc[r].counters]
    [] pc[r] = "status.emit" ->
         [op |-> "status", req |-> r, user |-> job[r].user, next |-> job[r].target]
    [] OTHER -> [op |-> "assign", req |-> r, roster |-> loc[r].roster]

\* The progress a recording is going to tell: if it shifts the columns it holds
\* the row of the run, so they are still those it has shifted; otherwise they were
\* those of some earlier commit.
ProgressHeld(r) ==
  pc[r] = "record.commit" =>
    IF loc[r].prev = job[r].result
    THEN \E n \in 0..Len(audit) : loc[r].counters = Replay(n)
    ELSE /\ lock[RunRow] = r
         /\ loc[r].counters = Shifted(counters, loc[r].prev, job[r].result)

EventsInv ==
  /\ \A e \in emitted : Committed(e)
  /\ \A r \in Reqs : pc[r] \in Emitting => Committed(EventOf(r))
  /\ \A r \in Reqs : ProgressHeld(r)

\* What the log says of the past does not change, and all of it gives the columns.
LEMMA ReplayOfPast ==
  ASSUME TypeOK, NEW e \in Entries, audit' = Append(audit, e), NEW n \in 0..Len(audit)
  PROVE  Replay(n)' = Replay(n)
  <1>1. Len(audit) \in Nat /\ ~(Len(audit) + 1 <= n)
    BY DEF TypeOK
  <1>2. ASSUME NEW f
        PROVE  /\ {i \in Gains(f)' : i <= n} = {i \in Gains(f) : i <= n}
               /\ {i \in Losses(f)' : i <= n} = {i \in Losses(f) : i <= n}
    BY <1>1, AuditGrows
  <1>3. QED
    BY <1>2 DEF Replay

LEMMA ReplayOfAll ==
  ASSUME TypeOK, CountersReplayAudit
  PROVE  Replay(Len(audit)) = counters
  <1>1. ASSUME NEW f
        PROVE  /\ {i \in Gains(f) : i <= Len(audit)} = Gains(f)
               /\ {i \in Losses(f) : i <= Len(audit)} = Losses(f)
    BY DEF TypeOK, Gains, Losses, Records
  <1>2. counters = [f \in CounterFields |-> counters[f]]
    BY DEF TypeOK
  <1>3. QED
    BY <1>1, <1>2 DEF Replay, CountersReplayAudit

\* One more entry leaves true what was.
LEMMA CommittedStays ==
  ASSUME TypeOK, NEW a \in Entries, audit' = Append(audit, a), NEW e, Committed(e)
  PROVE  \E i \in DOMAIN audit' :
           /\ audit'[i].req = e.req /\ audit'[i].op = e.op
           /\ e.op = "record" =>
                /\ e.case = audit'[i].case /\ e.user = audit'[i].user
                /\ e.prev = audit'[i].prev /\ e.next = audit'[i].next
                /\ \E n \in 0..i : /\ e.counters = Replay(n)'
                                   /\ e.prev # e.next => n = i
           /\ e.op = "status" => e.next = audit'[i].next
  <1>1. PICK i \in DOMAIN audit :
           /\ audit[i].req = e.req /\ audit[i].op = e.op
           /\ e.op = "record" =>
                /\ e.case = audit[i].case /\ e.user = audit[i].user
                /\ e.prev = audit[i].prev /\ e.next = audit[i].next
                /\ \E n \in 0..i : /\ e.counters = Replay(n)
                                   /\ e.prev # e.next => n = i
           /\ e.op = "status" => e.next = audit[i].next
    BY DEF Committed
  <1>2. /\ i \in DOMAIN audit' /\ audit'[i] = audit[i]
        /\ i \in 1..Len(audit) /\ Len(audit) \in Nat
    BY DEF TypeOK
  <1>3. \A n \in 0..i : n \in 0..Len(audit) /\ Replay(n)' = Replay(n)
    BY <1>2, ReplayOfPast
  <1>4. QED
    BY <1>1, <1>2, <1>3

\* A step that commits nothing: every request is where it was, or is not about to
\* commit or to send, or starts to send what the log has.
LEMMA EventsFrame ==
  ASSUME EventsInv, UNCHANGED <<audit, counters>>,
         \A e \in emitted' \ emitted : Committed(e),
         \A q \in Reqs :
           \/ pc'[q] = pc[q] /\ job'[q] = job[q] /\ loc'[q] = loc[q]
              /\ (lock[RunRow] = q => lock'[RunRow] = q)
           \/ pc'[q] \notin Emitting \cup {"record.commit"}
  PROVE  EventsInv'
  <1>1. \A e : Committed(e) => Committed(e)'
    BY DEF Committed, Replay, Gains, Losses, Records
  <1>2. \A e \in emitted' : Committed(e)'
    BY <1>1 DEF EventsInv
  <1>3. ASSUME NEW q \in Reqs, pc'[q] \in Emitting
        PROVE  Committed(EventOf(q))'
    <2>1. pc[q] = pc'[q] /\ EventOf(q)' = EventOf(q) /\ Committed(EventOf(q))
      BY <1>3 DEF EventOf, EventsInv
    <2>2. QED
      BY <1>1, <2>1
  <1>4. ASSUME NEW q \in Reqs PROVE ProgressHeld(q)'
    <2>1. \A n : Replay(n)' = Replay(n)
      BY DEF Replay, Gains, Losses, Records
    <2>2. ProgressHeld(q)
      BY DEF EventsInv
    <2>3. CASE pc'[q] = "record.commit"
      <3>1. /\ pc'[q] = pc[q] /\ job'[q] = job[q] /\ loc'[q] = loc[q]
            /\ lock[RunRow] = q => lock'[RunRow] = q
        BY <2>3
      <3>2. QED
        BY <2>1, <2>2, <3>1 DEF ProgressHeld, Shifted
    <2>4. QED
      BY <2>3 DEF ProgressHeld
  <1>5. QED
    BY <1>2, <1>3, <1>4 DEF EventsInv

\* A commit of r: its entry is the one its event will tell.
LEMMA EventsCommit ==
  ASSUME TypeOK, EventsInv, NEW r \in Reqs, NEW a \in Entries,
         audit' = Append(audit, a), UNCHANGED <<emitted, job>>,
         \A q \in Reqs : loc'[q] = loc[q] \/ pc[q] = "assign.rows",
         \E step \in Emitting : Goto(r, step),
         Committed(EventOf(r))',
         \A q \in Reqs \ {r} :
           pc[q] = "record.commit" /\ loc[q].prev # job[q].result =>
             UNCHANGED counters /\ (lock[RunRow] = q => lock'[RunRow] = q)
  PROVE  EventsInv'
  <1>1. \A q \in Reqs \ {r} : pc'[q] = pc[q]
    BY DEF Goto, TypeOK
  <1>2. pc'[r] \in Emitting
    BY DEF Goto, TypeOK
  <1>3. ASSUME NEW e \in emitted' PROVE Committed(e)'
    BY <1>3, CommittedStays DEF EventsInv, Committed
  <1>4. ASSUME NEW q \in Reqs, pc'[q] \in Emitting PROVE Committed(EventOf(q))'
    <2>1. CASE q # r
      <3>1. Committed(EventOf(q)) /\ EventOf(q)' = EventOf(q)
        BY <1>1, <1>4, <2>1 DEF EventsInv, EventOf, Emitting
      <3>2. QED
        BY <3>1, CommittedStays DEF Committed
    <2>2. QED
      BY <2>1
  <1>5. ASSUME NEW q \in Reqs, pc'[q] = "record.commit" PROVE ProgressHeld(q)'
    <2>1. q # r /\ pc[q] = "record.commit" /\ ProgressHeld(q)
      BY <1>1, <1>2, <1>5 DEF EventsInv, Emitting
    <2>5. loc'[q] = loc[q]
      BY <2>1
    <2>2. CASE loc[q].prev = job[q].result
      <3>1. PICK n \in 0..Len(audit) : loc[q].counters = Replay(n)
        BY <2>1, <2>2 DEF ProgressHeld
      <3>2. Replay(n)' = Replay(n) /\ n \in 0..Len(audit')
        BY ReplayOfPast DEF TypeOK
      <3>3. QED
        BY <2>2, <2>5, <3>1, <3>2 DEF ProgressHeld
    <2>3. CASE loc[q].prev # job[q].result
      BY <2>1, <2>3, <2>5 DEF ProgressHeld, Shifted
    <2>4. QED
      BY <2>2, <2>3
  <1>6. QED
    BY <1>3, <1>4, <1>5 DEF EventsInv, ProgressHeld

LEMMA RecordCommitTells ==
  ASSUME TypeOK, CountersReplayAudit, EventsInv, NEW r \in Reqs, RecordCommit(r),
         CountersReplayAudit', TypeOK'
  PROVE  EventsInv'
  <1> DEFINE a == [op |-> "record", req |-> r, user |-> job[r].user,
                   case |-> job[r].case, prev |-> loc[r].prev, next |-> job[r].result]
             last == Len(audit) + 1
  <1>1. a \in Entries
    BY JobOf DEF RecordCommit, RecordTx, TypeOK, Locals, RecordJobs, Entries, RecordEntries
  <1>2. /\ audit' = Append(audit, a) /\ UNCHANGED <<emitted, job, loc>>
        /\ Goto(r, "record.emit") /\ lock' = Released({r}) /\ pc[r] = "record.commit"
        /\ counters' = Shifted(counters, loc[r].prev, job[r].result)
    BY DEF RecordCommit, Release
  <1>3. /\ last \in DOMAIN audit' /\ audit'[last] = a /\ Len(audit') = last
        /\ last \in Nat /\ 0..Len(audit) \subseteq 0..last /\ last \in 0..last
    BY <1>1, <1>2 DEF TypeOK
  <1>4. EventOf(r)' = [op |-> "record", req |-> r, user |-> job[r].user,
          case |-> job[r].case, prev |-> loc[r].prev, next |-> job[r].result,
          counters |-> loc[r].counters]
    BY <1>2 DEF EventOf, Goto, TypeOK
  <1>5. \E n \in 0..last : /\ loc[r].counters = Replay(n)'
                           /\ loc[r].prev # job[r].result => n = last
    <2>1. ProgressHeld(r)
      BY DEF EventsInv
    <2>2. CASE loc[r].prev = job[r].result
      <3>1. PICK n \in 0..Len(audit) : loc[r].counters = Replay(n)
        BY <1>2, <2>1, <2>2 DEF ProgressHeld
      <3> HIDE DEF a
      <3>2. Replay(n)' = Replay(n)
        BY <1>1, <1>2, ReplayOfPast
      <3>3. QED
        BY <1>3, <2>2, <3>1, <3>2
    <2>3. CASE loc[r].prev # job[r].result
      <3>1. loc[r].counters = counters'
        BY <1>2, <2>1, <2>3 DEF ProgressHeld
      <3>2. (Replay(Len(audit)) = counters)'
        BY ReplayOfAll, PTL
      <3>3. QED
        BY <1>3, <3>1, <3>2
    <2>4. QED
      BY <2>2, <2>3
  <1>6. Committed(EventOf(r))'
    BY <1>3, <1>4, <1>5 DEF Committed
  <1>7. ASSUME NEW q \in Reqs \ {r}, pc[q] = "record.commit", loc[q].prev # job[q].result
        PROVE  UNCHANGED counters /\ (lock[RunRow] = q => lock'[RunRow] = q)
    <2>1. lock[RunRow] = q
      BY <1>7 DEF EventsInv, ProgressHeld
    <2>2. loc[r].prev = job[r].result
      BY <1>2, <1>7, <2>1 DEF EventsInv, ProgressHeld
    <2>3. counters' = counters
      BY <1>2, <2>2 DEF Shifted, Delta, TypeOK
    <2>4. lock'[RunRow] = q
      BY <1>2, <2>1, <1>7 DEF Released, Rows
    <2>5. QED
      BY <2>3, <2>4
  <1> HIDE DEF a, last
  <1>8. QED
    BY <1>1, <1>2, <1>6, <1>7, EventsCommit DEF Emitting

LEMMA OtherCommitsTell ==
  ASSUME TypeOK, EventsInv, NEW r \in Reqs, StatusCommit(r) \/ AssignCommit(r)
  PROVE  EventsInv'
  <1>1. ASSUME NEW q \in Reqs \ {r}, lock[RunRow] = q, lock' = lock \/ lock' = Released({r})
        PROVE  lock'[RunRow] = q
    BY <1>1 DEF Released, Rows
  <1>2. CASE StatusCommit(r)
    <2> DEFINE a == [op |-> "status", req |-> r, user |-> job[r].user,
                     prev |-> loc[r].seen, next |-> job[r].target]
    <2>1. a \in Entries
      BY <1>2, JobOf DEF StatusCommit, StatusTx, TypeOK, Locals, StatusJobs,
                        Entries, StatusEntries
    <2>2. /\ audit' = Append(audit, a) /\ UNCHANGED <<emitted, job, loc, counters>>
          /\ Goto(r, "status.emit") /\ lock' = Released({r})
      BY <1>2 DEF StatusCommit, Release
    <2>3. audit'[Len(audit) + 1] = a /\ Len(audit) + 1 \in DOMAIN audit'
      BY <2>1, <2>2 DEF TypeOK
    <2>4. EventOf(r)' = [op |-> "status", req |-> r, user |-> job[r].user,
                         next |-> job[r].target]
      BY <2>2 DEF EventOf, Goto, TypeOK
    <2>5. Committed(EventOf(r))'
      BY <2>3, <2>4 DEF Committed
    <2> HIDE DEF a
    <2>6. QED
      BY <1>1, <2>1, <2>2, <2>5, EventsCommit DEF Emitting
  <1>3. CASE AssignCommit(r)
    <2> DEFINE a == [op |-> "assign", req |-> r, user |-> job[r].user, ids |-> job[r].ids]
    <2>1. a \in Entries
      BY <1>3, JobOf DEF AssignCommit, AssignTx, AssignJobs, Entries, AssignEntries
    <2>2. /\ audit' = Append(audit, a) /\ UNCHANGED <<emitted, job, counters, lock>>
          /\ Goto(r, "assign.emit") /\ loc'[r] = loc[r]
          /\ \A q \in Reqs : loc'[q] = loc[q] \/ pc[q] = "assign.rows"
      BY <1>3, AssignCommitLocals DEF AssignCommit
    <2>3. audit'[Len(audit) + 1] = a /\ Len(audit) + 1 \in DOMAIN audit'
      BY <2>1, <2>2 DEF TypeOK
    <2>4. EventOf(r)' = [op |-> "assign", req |-> r, roster |-> loc[r].roster]
      BY <2>2 DEF EventOf, Goto, TypeOK
    <2>5. Committed(EventOf(r))'
      BY <2>3, <2>4 DEF Committed
    <2> HIDE DEF a
    <2>6. QED
      BY <1>1, <2>1, <2>2, <2>5, EventsCommit DEF Emitting
  <1>4. QED
    BY <1>2, <1>3

\* A request goes to a step that neither commits a recording nor sends.
LEMMA EventsQuiet ==
  ASSUME TypeOK, EventsInv, UNCHANGED <<dbVars, emitted>>, NEW r \in Reqs,
         NEW step, Goto(r, step), step \notin Emitting \cup {"record.commit"},
         \A q \in Reqs \ {r} : job'[q] = job[q] /\ loc'[q] = loc[q]
                               /\ (lock[RunRow] = q => lock'[RunRow] = q)
  PROVE  EventsInv'
  <1>1. \A q \in Reqs \ {r} : pc'[q] = pc[q]
    BY DEF TypeOK, Goto
  <1>2. pc'[r] \notin Emitting \cup {"record.commit"}
    BY DEF TypeOK, Goto
  <1>3. QED
    BY <1>1, <1>2, EventsFrame DEF dbVars

\* A request is over; it may have sent what it had to tell.
LEMMA EventsFinish ==
  ASSUME TypeOK, EventsInv, UNCHANGED <<audit, counters>>, NEW r \in Reqs, Finish(r),
         \A e \in emitted' \ emitted : Committed(e),
         lock' = lock \/ lock' = Released({r})
  PROVE  EventsInv'
  <1>1. ASSUME NEW q \in Reqs \ {r}
        PROVE  /\ pc'[q] = pc[q] /\ job'[q] = job[q] /\ loc'[q] = loc[q]
               /\ (lock[RunRow] = q => lock'[RunRow] = q)
    BY DEF TypeOK, Finish, Goto, Released, Rows
  <1>2. pc'[r] \notin Emitting \cup {"record.commit"}
    BY DEF TypeOK, Finish, Goto, Emitting
  <1>3. QED
    BY <1>1, <1>2, EventsFrame

LEMMA EventsSend ==
  ASSUME TypeOK, EventsInv, NEW r \in Reqs, RecordEmit(r) \/ StatusEmit(r) \/ AssignEmit(r)
  PROVE  EventsInv'
  <1>1. pc[r] \in Emitting /\ emitted' = emitted \cup {EventOf(r)}
    BY DEF RecordEmit, StatusEmit, AssignEmit, EventOf, Emitting
  <1>2. Committed(EventOf(r))
    BY <1>1 DEF EventsInv
  <1>3. \A e \in emitted' \ emitted : Committed(e)
    BY <1>1, <1>2
  <1>4. Finish(r) /\ UNCHANGED <<audit, counters, lock>>
    BY DEF RecordEmit, StatusEmit, AssignEmit, dbVars
  <1>5. QED
    BY <1>3, <1>4, EventsFinish

\* The columns are shifted: the row of the run is taken, unless none changes.
LEMMA EventsShift ==
  ASSUME TypeOK, CountersReplayAudit, EventsInv, NEW r \in Reqs, RecordShift(r)
  PROVE  EventsInv'
  <1>1. /\ UNCHANGED <<audit, counters, emitted, job>>
        /\ pc' = [pc EXCEPT ![r] = "record.commit"] /\ pc[r] = "record.shift"
        /\ loc' = [loc EXCEPT ![r].counters = Shifted(counters, loc[r].prev, job[r].result)]
        /\ IF loc[r].prev = job[r].result THEN UNCHANGED lock ELSE Take(r, RunRow)
    BY DEF RecordShift, Goto, dbVars
  <1>2. \A e : Committed(e) => Committed(e)'
    BY <1>1 DEF Committed, Replay, Gains, Losses, Records
  <1>3. \A n : Replay(n)' = Replay(n)
    BY <1>1 DEF Replay, Gains, Losses, Records
  <1>4. ASSUME NEW q \in Reqs \ {r}
        PROVE  /\ pc'[q] = pc[q] /\ job'[q] = job[q] /\ loc'[q] = loc[q]
               /\ (lock[RunRow] = q => lock'[RunRow] = q)
    BY <1>1, NobodyAssumption DEF TypeOK, Take
  <1>5. \A e \in emitted' : Committed(e)'
    BY <1>1, <1>2 DEF EventsInv
  <1>6. ASSUME NEW q \in Reqs, pc'[q] \in Emitting PROVE Committed(EventOf(q))'
    <2>1. q # r
      BY <1>1, <1>6 DEF TypeOK, Emitting
    <2>2. EventOf(q)' = EventOf(q) /\ Committed(EventOf(q))
      BY <1>4, <1>6, <2>1 DEF EventsInv, EventOf
    <2>3. QED
      BY <1>2, <2>2
  <1>7. ASSUME NEW q \in Reqs \ {r} PROVE ProgressHeld(q)'
    <2>1. ProgressHeld(q)
      BY DEF EventsInv
    <2>2. QED
      BY <1>1, <1>3, <1>4, <2>1 DEF ProgressHeld, Shifted
  <1>8. ProgressHeld(r)'
    <2>1. /\ loc'[r].prev = loc[r].prev
          /\ loc'[r].counters = Shifted(counters, loc[r].prev, job[r].result)
      BY <1>1 DEF TypeOK, Locals
    <2>2. CASE loc[r].prev = job[r].result
      <3>1. Shifted(counters, loc[r].prev, job[r].result) = counters
        BY <2>2 DEF Shifted, Delta, TypeOK
      <3>2. Replay(Len(audit))' = counters /\ Len(audit) \in 0..Len(audit')
        BY <1>1, <1>3, ReplayOfAll DEF TypeOK
      <3>3. QED
        BY <1>1, <2>1, <2>2, <3>1, <3>2, <1>3 DEF ProgressHeld
    <2>3. CASE loc[r].prev # job[r].result
      <3>1. lock'[RunRow] = r
        BY <1>1, <2>3 DEF Take, TypeOK, Rows
      <3>2. QED
        BY <1>1, <2>1, <2>3, <3>1 DEF ProgressHeld
    <2>4. QED
      BY <2>2, <2>3
  <1>9. QED
    BY <1>5, <1>6, <1>7, <1>8 DEF EventsInv

LEMMA EventsStep ==
  TypeOK /\ CountersReplayAudit /\ EventsInv /\ [Next]_vars => EventsInv'
  <1> SUFFICES ASSUME TypeOK, CountersReplayAudit, EventsInv, [Next]_vars
               PROVE  EventsInv'
    OBVIOUS
  <1>0. ASSUME NEW r \in Reqs, NEW step, Goto(r, step),
               step \notin Emitting \cup {"record.commit"},
               UNCHANGED <<dbVars, lock, emitted>>,
               \A q \in Reqs \ {r} : job'[q] = job[q] /\ loc'[q] = loc[q]
        PROVE  EventsInv'
    BY <1>0, EventsQuiet
  <1>1. ASSUME NEW r \in Reqs, Receive(r) PROVE EventsInv'
    <2>1. PICK j \in Jobs, step \in {"record.run", "status.run", "assign.delete"} :
            Arrive(r, j, step)
      BY <1>1 DEF Receive, ArriveRecord, ArriveStatus, ArriveAssign, Jobs
    <2>2. QED
      BY <2>1, <1>0 DEF Arrive, TypeOK, Emitting
  <1>2. ASSUME NEW r \in Reqs, RecordStep(r) PROVE EventsInv'
    <2>1. CASE RecordReadRun(r)
      <3>1. CASE status = "IN_PROGRESS"
        BY <2>1, <3>1, <1>0 DEF RecordReadRun, Emitting
      <3>2. CASE status # "IN_PROGRESS"
        BY <2>1, <3>2, EventsFinish DEF RecordReadRun, dbVars
      <3>3. QED
        BY <3>1, <3>2
    <2>2. CASE RecordReadCase(r)
      BY <2>2, <1>0 DEF RecordReadCase, Emitting, TypeOK
    <2>3. CASE RecordUpdateCase(r)
      <3>1. /\ UNCHANGED <<dbVars, job, loc, emitted>> /\ Goto(r, "record.shift")
            /\ Take(r, job[r].case)
        BY <2>3 DEF RecordUpdateCase
      <3>2. job[r].case # RunRow
        BY <2>3, JobOf, CasesAssumption DEF RecordUpdateCase, RecordTx, RecordJobs
      <3>3. lock'[RunRow] = lock[RunRow]
        BY <3>1, <3>2 DEF Take, TypeOK, Rows
      <3>4. QED
        BY <3>1, <3>3, EventsQuiet DEF Emitting
    <2>4. CASE RecordShift(r)
      BY <2>4, EventsShift
    <2>5. CASE RecordCommit(r)
      <3>1. CountersReplayAudit' /\ TypeOK'
        BY ReplayStep, NextTypeOK
      <3>2. QED
        BY <2>5, <3>1, RecordCommitTells
    <2>6. CASE RecordEmit(r)
      BY <2>6, EventsSend
    <2>7. QED
      BY <1>2, <2>1, <2>2, <2>3, <2>4, <2>5, <2>6 DEF RecordStep
  <1>3. ASSUME NEW r \in Reqs, StatusStep(r) PROVE EventsInv'
    <2>1. CASE StatusReadRun(r)
      <3>1. CASE ValidTransition(status, job[r].target)
        <4>1. /\ Goto(r, "status.update") /\ UNCHANGED <<dbVars, lock, job, emitted>>
              /\ loc' = [loc EXCEPT ![r].seen = status, ![r].stamped = startedAt]
          BY <2>1, <3>1 DEF StatusReadRun
        <4>2. \A q \in Reqs \ {r} : loc'[q] = loc[q]
          BY <4>1 DEF TypeOK
        <4>3. QED
          BY <4>1, <4>2, <1>0 DEF Emitting
      <3>2. CASE ~ValidTransition(status, job[r].target)
        BY <2>1, <3>2, EventsFinish DEF StatusReadRun, dbVars
      <3>3. QED
        BY <3>1, <3>2
    <2>2. CASE StatusUpdateRun(r)
      <3>1. /\ UNCHANGED <<dbVars, job, loc, emitted>> /\ Goto(r, "status.commit")
            /\ lock[RunRow] = Nobody
        BY <2>2 DEF StatusUpdateRun, Take
      <3>2. \A q \in Reqs : lock[RunRow] # q
        BY <3>1, NobodyAssumption
      <3>3. QED
        BY <3>1, <3>2, EventsQuiet DEF Emitting
    <2>3. CASE StatusCommit(r)
      BY <2>3, OtherCommitsTell
    <2>4. CASE StatusEmit(r)
      BY <2>4, EventsSend
    <2>5. QED
      BY <1>3, <2>1, <2>2, <2>3, <2>4 DEF StatusStep
  <1>4. ASSUME NEW r \in Reqs, AssignStep(r) PROVE EventsInv'
    <2>1. ASSUME NEW step \in {"assign.rows", "assign.insert", "assign.commit"},
                 NEW l \in Locals, Goto(r, step),
                 loc' = [loc EXCEPT ![r] = l], UNCHANGED <<dbVars, lock, job, emitted>>
          PROVE  EventsInv'
      <3>1. \A q \in Reqs \ {r} : job'[q] = job[q] /\ loc'[q] = loc[q]
        BY <2>1 DEF TypeOK
      <3>2. step \notin Emitting \cup {"record.commit"}
        BY DEF Emitting
      <3>3. QED
        BY <2>1, <3>1, <3>2, <1>0
    <2>2. CASE Finish(r) /\ UNCHANGED <<dbVars, lock, emitted>>
      BY <2>2, EventsFinish DEF dbVars
    <2>3. CASE AssignCommit(r)
      BY <2>3, OtherCommitsTell
    <2>4. CASE AssignEmit(r)
      BY <2>4, EventsSend
    <2>5. QED
      BY <1>4, <2>1, <2>2, <2>3, <2>4, AssignMoves
  <1>5. ASSUME NEW r \in Reqs, Abort(r) \/ NameOfFails(r) \/ DeadlockVictim(r)
        PROVE  EventsInv'
    BY <1>5, EventsFinish DEF Abort, NameOfFails, DeadlockVictim, Release, dbVars
  <1>6. CASE Crash
    <2>1. ASSUME NEW q \in Reqs
          PROVE  \/ pc'[q] = pc[q] /\ job'[q] = job[q] /\ loc'[q] = loc[q]
                    /\ (lock[RunRow] = q => lock'[RunRow] = q)
                 \/ pc'[q] \notin Emitting \cup {"record.commit"}
      BY <1>6 DEF Crash, TypeOK, Emitting, Released, Rows
    <2>2. QED
      BY <1>6, <2>1, EventsFrame DEF Crash, dbVars
  <1>7. CASE UNCHANGED vars
    BY <1>7, EventsFrame DEF vars
  <1>8. QED
    BY <1>1, <1>2, <1>3, <1>4, <1>5, <1>6, <1>7 DEF Next, Serve

\* However requests race, fail or are cut off after their commits, an event tells what
\* was committed, and the progress of a moment that there was (recordResult,
\* updateStatus, updateAssignees: the emits after tx.run).
THEOREM EventsTellHistory == Spec => []EventsTellCommittedHistory
  <1>1. Init => EventsInv
    BY DEF Init, EventsInv, ProgressHeld, Emitting
  <1>2. EventsInv => EventsTellCommittedHistory
    BY DEF EventsInv, EventsTellCommittedHistory, Committed
  <1>3. QED
    BY <1>1, <1>2, EventsStep, TypeCorrect, CountersAlwaysReplay, PTL DEF Spec

Count(f) == {c \in Cases : result[c] = f}

\* The strengthening: what a transaction read as the previous result is still
\* the case's result when it is about to shift the counters.
PrevIsCurrent == \A r \in Reqs, c \in Cases : OnCase(r, c) => loc[r].prev = result[c]

CountInv == TypeOK /\ ~Contended /\ PrevIsCurrent /\ CountersCountCases

LEMMA CountFinite ==
  ASSUME NEW f
  PROVE  IsFiniteSet(Count(f)) /\ Cardinality(Count(f)) \in Nat
  <1>1. Count(f) \subseteq Cases
    BY DEF Count
  <1>2. QED
    BY <1>1, CasesAssumption, FS_Subset, FS_CardinalityType

\* Moving one case from prev to next changes the number of cases with result f
\* by what applyCounterShift adds to column f.
LEMMA CountShift ==
  ASSUME TypeOK, NEW c \in Cases, NEW v \in Results,
         result' = [result EXCEPT ![c] = v], NEW f
  PROVE  Cardinality(Count(f)') = Cardinality(Count(f)) + Delta(f, result[c], v)
  <1>0. Cardinality(Count(f)) \in Nat /\ IsFiniteSet(Count(f))
    BY CountFinite
  <1>1. CASE result[c] = v \/ (f # v /\ f # result[c])
    <2>1. Count(f)' = Count(f)
      BY <1>1 DEF Count, TypeOK
    <2>2. Delta(f, result[c], v) = 0
      BY <1>1 DEF Delta
    <2>3. QED
      BY <1>0, <2>1, <2>2
  <1>2. CASE result[c] # v /\ f = v
    <2>1. Count(f)' = Count(f) \cup {c} /\ c \notin Count(f)
      BY <1>2 DEF Count, TypeOK
    <2>2. Delta(f, result[c], v) = 1
      BY <1>2 DEF Delta
    <2>3. Cardinality(Count(f) \cup {c}) = Cardinality(Count(f)) + 1
      BY <1>0, <2>1, FS_AddElement
    <2>4. QED
      BY <1>0, <2>1, <2>2, <2>3
  <1>3. CASE result[c] # v /\ f = result[c]
    <2>1. Count(f)' = Count(f) \ {c} /\ c \in Count(f)
      BY <1>3 DEF Count, TypeOK
    <2>2. Delta(f, result[c], v) = -1
      BY <1>3 DEF Delta
    <2>3. Cardinality(Count(f) \ {c}) = Cardinality(Count(f)) - 1
      BY <1>0, <2>1, FS_RemoveElement
    <2>4. QED
      BY <1>0, <2>1, <2>2, <2>3
  <1>4. QED
    BY <1>1, <1>2, <1>3

\* What a step does to the three variables the invariant relates.
LEMMA CountFrame ==
  ASSUME TypeOK, Next
  PROVE  \/ UNCHANGED <<result, counters>> /\
              \A r \in Reqs, c \in Cases :
                OnCase(r, c)' => OnCase(r, c) /\ loc'[r].prev = loc[r].prev
         \/ \E r \in Reqs : RecordReadCase(r) \/ RecordCommit(r)
  <1> DEFINE Quiet == /\ UNCHANGED <<result, counters>>
                      /\ \A r \in Reqs, c \in Cases :
                           OnCase(r, c)' => OnCase(r, c) /\ loc'[r].prev = loc[r].prev
  <1>1. ASSUME NEW r \in Reqs, Finish(r), UNCHANGED <<result, counters>>
        PROVE  Quiet
    BY <1>1 DEF Finish, Goto, OnCase, TypeOK
  <1>2. ASSUME NEW r \in Reqs, NEW step, Goto(r, step), UNCHANGED job,
               step \notin {"record.update", "record.shift", "record.commit"},
               \A q \in Reqs : q # r => loc'[q].prev = loc[q].prev,
               UNCHANGED <<result, counters>>
        PROVE  Quiet
    BY <1>2 DEF Goto, OnCase, TypeOK
  <1>3. ASSUME NEW r \in Reqs, Receive(r) PROVE Quiet
    <2>1. PICK j \in Jobs, step \in {"record.run", "status.run", "assign.delete"} :
            Arrive(r, j, step)
      BY <1>3 DEF Receive, ArriveRecord, ArriveStatus, ArriveAssign, Jobs
    <2>2. QED
      BY <2>1 DEF Arrive, Goto, OnCase, TypeOK, dbVars
  <1>4. ASSUME NEW r \in Reqs, RecordStep(r)
        PROVE  Quiet \/ RecordReadCase(r) \/ RecordCommit(r)
    <2>1. CASE RecordReadRun(r)
      <3>1. CASE status = "IN_PROGRESS"
        BY <2>1, <3>1, <1>2 DEF RecordReadRun, dbVars
      <3>2. CASE status # "IN_PROGRESS"
        BY <2>1, <3>2, <1>1 DEF RecordReadRun, dbVars
      <3>3. QED
        BY <3>1, <3>2
    <2>2. CASE RecordUpdateCase(r)
      BY <2>2 DEF RecordUpdateCase, Goto, OnCase, TypeOK, dbVars
    <2>3. CASE RecordShift(r)
      <3>1. \A q \in Reqs : loc'[q].prev = loc[q].prev
        BY <2>3 DEF RecordShift, TypeOK, Locals
      <3>2. QED
        BY <2>3, <3>1 DEF RecordShift, Goto, OnCase, TypeOK, dbVars
    <2>4. CASE RecordEmit(r)
      BY <2>4, <1>1 DEF RecordEmit, dbVars
    <2>5. QED
      BY <1>4, <2>1, <2>2, <2>3, <2>4 DEF RecordStep
  <1>5. ASSUME NEW r \in Reqs, StatusStep(r) PROVE Quiet
    <2>1. CASE StatusReadRun(r)
      <3>1. CASE ValidTransition(status, job[r].target)
        BY <2>1, <3>1, <1>2 DEF StatusReadRun, dbVars, TypeOK
      <3>2. CASE ~ValidTransition(status, job[r].target)
        BY <2>1, <3>2, <1>1 DEF StatusReadRun, dbVars
      <3>3. QED
        BY <3>1, <3>2
    <2>2. CASE StatusUpdateRun(r)
      BY <2>2, <1>2 DEF StatusUpdateRun, dbVars
    <2>3. CASE StatusCommit(r)
      BY <2>3, <1>2 DEF StatusCommit
    <2>4. CASE StatusEmit(r)
      BY <2>4, <1>1 DEF StatusEmit, dbVars
    <2>5. QED
      BY <1>5, <2>1, <2>2, <2>3, <2>4 DEF StatusStep
  <1>6. ASSUME NEW r \in Reqs, AssignStep(r) PROVE Quiet
    <2>1. ASSUME NEW step \in {"assign.rows", "assign.insert", "assign.commit"},
                 NEW l \in Locals, Goto(r, step),
                 loc' = [loc EXCEPT ![r] = l], UNCHANGED <<dbVars, lock, job, emitted>>
          PROVE  Quiet
      <3>1. \A q \in Reqs : q # r => loc'[q].prev = loc[q].prev
        BY <2>1 DEF TypeOK
      <3>2. QED
        BY <2>1, <3>1, <1>2 DEF dbVars
    <2>2. CASE Finish(r) /\ UNCHANGED <<dbVars, lock, emitted>>
      BY <2>2, <1>1 DEF dbVars
    <2>3. CASE AssignCommit(r)
      BY <2>3, <1>2, AssignCommitLocals DEF AssignCommit
    <2>4. CASE AssignEmit(r)
      BY <2>4, <1>1 DEF AssignEmit, dbVars
    <2>5. QED
      BY <1>6, <2>1, <2>2, <2>3, <2>4, AssignMoves
  <1>7. ASSUME NEW r \in Reqs, Abort(r) \/ NameOfFails(r) \/ DeadlockVictim(r) PROVE Quiet
    BY <1>7, <1>1 DEF Abort, NameOfFails, DeadlockVictim, dbVars
  <1>8. ASSUME Crash PROVE Quiet
    BY <1>8 DEF Crash, OnCase, TypeOK, InFlight, InTx, RecordTx, dbVars
  <1>9. QED
    BY <1>3, <1>4, <1>5, <1>6, <1>7, <1>8 DEF Next, Serve

LEMMA CountStep == CountInv /\ [UncontendedNext]_vars => CountInv'
  <1> SUFFICES ASSUME CountInv, [UncontendedNext]_vars PROVE CountInv'
    OBVIOUS
  <1>0. TypeOK /\ ~Contended /\ PrevIsCurrent /\ CountersCountCases
    BY DEF CountInv
  <1>1. TypeOK'
    BY <1>0, NextTypeOK DEF UncontendedNext, vars
  <1>2. CASE UNCHANGED vars
    <2>1. ~Contended' /\ PrevIsCurrent' /\ CountersCountCases'
      BY <1>0, <1>2 DEF vars, Contended, OnCase, PrevIsCurrent, CountersCountCases
    <2>2. QED
      BY <1>1, <2>1 DEF CountInv
  <1>3. CASE UncontendedNext
    <2>1. Next /\ ~Contended'
      BY <1>3 DEF UncontendedNext
    <2>2. CASE UNCHANGED <<result, counters>> /\
               \A r \in Reqs, c \in Cases :
                 OnCase(r, c)' => OnCase(r, c) /\ loc'[r].prev = loc[r].prev
      <3>1. PrevIsCurrent' /\ CountersCountCases'
        BY <1>0, <2>2 DEF PrevIsCurrent, CountersCountCases
      <3>2. QED
        BY <1>1, <2>1, <3>1 DEF CountInv
    <2>3. ASSUME NEW r \in Reqs, RecordReadCase(r) PROVE CountInv'
      <3>1. UNCHANGED <<result, counters, job>>
        BY <2>3 DEF RecordReadCase, dbVars
      <3>2. ASSUME NEW q \in Reqs, NEW c \in Cases, OnCase(q, c)'
            PROVE  loc'[q].prev = result'[c]
        <4>1. CASE q = r
          BY <2>3, <3>2, <4>1 DEF RecordReadCase, OnCase, TypeOK, CountInv, Locals, dbVars
        <4>2. CASE q # r
          <5>1. OnCase(q, c) /\ loc'[q] = loc[q]
            BY <2>3, <3>2, <4>2, <1>0 DEF RecordReadCase, OnCase, TypeOK, Goto
          <5>2. QED
            BY <1>0, <5>1, <3>1 DEF PrevIsCurrent
        <4>3. QED
          BY <4>1, <4>2
      <3>3. PrevIsCurrent' /\ CountersCountCases'
        BY <1>0, <3>1, <3>2 DEF PrevIsCurrent, CountersCountCases
      <3>4. QED
        BY <1>1, <2>1, <3>3 DEF CountInv
    <2>4. ASSUME NEW r \in Reqs, RecordCommit(r) PROVE CountInv'
      <3> DEFINE cc == job[r].case
                 v  == job[r].result
      <3>1. cc \in Cases /\ v \in Results /\ OnCase(r, cc)
        BY <2>4, <1>0, JobOf DEF RecordCommit, RecordTx, RecordJobs, OnCase
      <3>2. /\ result' = [result EXCEPT ![cc] = v]
            /\ counters' = Shifted(counters, loc[r].prev, v)
            /\ UNCHANGED <<job, loc>>
            /\ Goto(r, "record.emit")
        BY <2>4 DEF RecordCommit
      <3>3. loc[r].prev = result[cc]
        BY <1>0, <3>1 DEF PrevIsCurrent
      <3> HIDE DEF cc, v
      <3>4. CountersCountCases'
        <4>1. ASSUME NEW f \in CounterFields
              PROVE  counters'[f] = Cardinality(Count(f)')
          <5>1. counters'[f] = counters[f] + Delta(f, result[cc], v)
            BY <3>2, <3>3 DEF Shifted
          <5>2. counters[f] = Cardinality(Count(f))
            BY <1>0 DEF CountersCountCases, Count
          <5>3. Cardinality(Count(f)') = Cardinality(Count(f)) + Delta(f, result[cc], v)
            BY <1>0, <3>1, <3>2, CountShift
          <5>4. QED
            BY <5>1, <5>2, <5>3
        <4>2. QED
          BY <4>1 DEF CountersCountCases, Count
      <3>5. PrevIsCurrent'
        <4>1. ASSUME NEW q \in Reqs, NEW c \in Cases, OnCase(q, c)'
              PROVE  loc'[q].prev = result'[c]
          <5>1. q # r /\ OnCase(q, c)
            BY <3>2, <4>1, <1>0 DEF OnCase, Goto, TypeOK
          <5>2. c # cc
            BY <1>0, <3>1, <5>1 DEF Contended
          <5>3. loc[q].prev = result[c]
            BY <1>0, <5>1 DEF PrevIsCurrent
          <5>4. QED
            BY <1>0, <3>2, <5>2, <5>3 DEF TypeOK
        <4>2. QED
          BY <4>1 DEF PrevIsCurrent
      <3>6. QED
        BY <1>1, <2>1, <3>4, <3>5 DEF CountInv
    <2>5. QED
      BY <1>0, <2>1, <2>2, <2>3, <2>4, CountFrame
  <1>4. QED
    BY <1>2, <1>3

LEMMA CountInit == Init => CountInv
  <1> SUFFICES ASSUME Init PROVE CountInv
    OBVIOUS
  <1>1. ~Contended /\ PrevIsCurrent
    BY DEF Init, Contended, PrevIsCurrent, OnCase
  <1>2. ASSUME NEW f \in CounterFields
        PROVE  counters[f] = Cardinality({c \in Cases : result[c] = f})
    <2>1. {c \in Cases : result[c] = f} = {}
      BY DEF Init, CounterFields
    <2>2. QED
      BY <2>1, FS_EmptySet DEF Init
  <1>3. QED
    BY InitTypeOK, <1>1, <1>2 DEF CountInv, CountersCountCases

\* Without contention on a case the columns are the number of cases with each
\* result, so what computeCounters derives is the progress of the cases.
THEOREM CountersCount == UncontendedSpec => []CountersCountCases
  <1>1. CountInv => CountersCountCases
    BY DEF CountInv
  <1>2. QED
    BY CountInit, <1>1, CountStep, PTL DEF UncontendedSpec

-------------------------------------------------------------------------------
\* The handlers implement RunBoard when their transactions do not overlap

\* What a transaction read of the run is still so while it is open.
Fresh(r) ==
  /\ pc[r] \in {"record.case", "record.update", "record.shift", "record.commit"} =>
       status = "IN_PROGRESS"
  /\ pc[r] \in {"status.update", "status.commit"} =>
       /\ ValidTransition(status, job[r].target)
       /\ loc[r].seen = status
       /\ loc[r].stamped = startedAt
  /\ pc[r] = "assign.rows" => loc[r].removed \cup loc[r].rows = assignees
  /\ pc[r] \in {"assign.insert", "assign.commit"} => loc[r].removed = assignees

SerialInv == CountInv /\ ~Overlap /\ \A r \in Reqs : Fresh(r)

LEMMA SerialIsUncontended == [SerialNext]_vars => [UncontendedNext]_vars
  BY DEF SerialNext, UncontendedNext, Contended, OnCase, Overlap, InTx, RecordTx

\* A request that is not the one that steps keeps its place and its locals.
LEMMA FreshOther ==
  ASSUME NEW q \in Reqs, Fresh(q), pc'[q] = pc[q], job'[q] = job[q],
         loc'[q] = loc[q], UNCHANGED <<status, startedAt, assignees>>
  PROVE  Fresh(q)'
  BY DEF Fresh, ValidTransition

\* A request that goes where Fresh asks nothing.
FreeStep == PCs \ {"record.case", "record.update", "record.shift",
                   "record.commit", "status.update", "status.commit",
                   "assign.rows", "assign.insert", "assign.commit"}

LEMMA FreshFree ==
  ASSUME NEW q \in Reqs, pc'[q] \in FreeStep
  PROVE  Fresh(q)'
  BY DEF Fresh, FreeStep

LEMMA FreeSteps ==
  /\ {"idle", "done", "record.run", "status.run", "assign.delete"} \subseteq FreeStep
  /\ Emitting \subseteq FreeStep
  BY DEF FreeStep, PCs, InFlight, InTx, RecordTx, StatusTx, AssignTx, Emitting

\* Nobody else has a transaction open while a request is inside its own.
LEMMA Alone ==
  ASSUME SerialInv, NEW r \in Reqs, pc[r] \in InTx, NEW q \in Reqs, q # r
  PROVE  pc[q] \in FreeStep
  BY DEF SerialInv, CountInv, Overlap, TypeOK, FreeStep, InTx, RecordTx, StatusTx, AssignTx

LEMMA SerialStep ==
  ASSUME SerialInv, SerialNext
  PROVE  \A q \in Reqs : Fresh(q)'
  <1> USE DEF SerialInv, CountInv
  <1>0. TypeOK /\ Next
    BY DEF SerialNext
  <1>1. ASSUME NEW r \in Reqs, \A q \in Reqs \ {r} : pc'[q] = pc[q]
                               /\ job'[q] = job[q] /\ loc'[q] = loc[q],
               UNCHANGED <<status, startedAt, assignees>>, Fresh(r)'
        PROVE  \A q \in Reqs : Fresh(q)'
    BY <1>1, FreshOther
  <1>2. ASSUME NEW r \in Reqs, Finish(r), UNCHANGED <<status, startedAt, assignees>>
        PROVE  \A q \in Reqs : Fresh(q)'
    <2>1. Fresh(r)'
      BY <1>2, FreshFree, FreeSteps DEF Finish, Goto, TypeOK
    <2>2. QED
      BY <1>1, <1>2, <2>1 DEF Finish, Goto, TypeOK
  <1>3. ASSUME NEW r \in Reqs, NEW step \in FreeStep, Goto(r, step),
               \A q \in Reqs \ {r} : job'[q] = job[q] /\ loc'[q] = loc[q],
               UNCHANGED <<status, startedAt, assignees>>
        PROVE  \A q \in Reqs : Fresh(q)'
    <2>1. Fresh(r)'
      BY <1>3, FreshFree DEF Goto, TypeOK
    <2>2. QED
      BY <1>1, <1>3, <2>1 DEF Goto, TypeOK
  <1>4. ASSUME NEW r \in Reqs, pc[r] \in InTx, Goto(r, pc'[r]), pc'[r] \in FreeStep
        PROVE  \A q \in Reqs : Fresh(q)'
    <2>1. \A q \in Reqs : pc'[q] \in FreeStep
      BY <1>4, Alone DEF Goto, TypeOK
    <2>2. QED
      BY <2>1, FreshFree
  <1>5. ASSUME NEW r \in Reqs, Receive(r) PROVE \A q \in Reqs : Fresh(q)'
    <2>1. PICK j \in Jobs, step \in {"record.run", "status.run", "assign.delete"} :
            Arrive(r, j, step)
      BY <1>5 DEF Receive, ArriveRecord, ArriveStatus, ArriveAssign, Jobs
    <2>2. QED
      BY <2>1, <1>3, FreeSteps DEF Arrive, TypeOK, dbVars
  <1>6. ASSUME NEW r \in Reqs, RecordStep(r) PROVE \A q \in Reqs : Fresh(q)'
    <2>1. CASE RecordReadRun(r)
      <3>1. CASE status = "IN_PROGRESS"
        BY <2>1, <3>1, <1>1 DEF RecordReadRun, Goto, Fresh, TypeOK, dbVars
      <3>2. CASE status # "IN_PROGRESS"
        BY <2>1, <3>2, <1>2 DEF RecordReadRun, dbVars
      <3>3. QED
        BY <3>1, <3>2
    <2>2. CASE RecordReadCase(r)
      BY <2>2, <1>1 DEF RecordReadCase, Goto, Fresh, TypeOK, dbVars
    <2>3. CASE RecordUpdateCase(r)
      BY <2>3, <1>1 DEF RecordUpdateCase, Goto, Fresh, TypeOK, dbVars
    <2>4. CASE RecordShift(r)
      BY <2>4, <1>1 DEF RecordShift, Goto, Fresh, TypeOK, dbVars
    <2>5. CASE RecordCommit(r)
      BY <2>5, <1>3, FreeSteps DEF RecordCommit, Emitting
    <2>6. CASE RecordEmit(r)
      BY <2>6, <1>2 DEF RecordEmit, dbVars
    <2>7. QED
      BY <1>6, <2>1, <2>2, <2>3, <2>4, <2>5, <2>6 DEF RecordStep
  <1>7. ASSUME NEW r \in Reqs, StatusStep(r) PROVE \A q \in Reqs : Fresh(q)'
    <2>1. CASE StatusReadRun(r)
      <3>1. CASE ValidTransition(status, job[r].target)
        <4>1. /\ loc' = [loc EXCEPT ![r].seen = status, ![r].stamped = startedAt]
              /\ Goto(r, "status.update")
              /\ UNCHANGED <<job, status, startedAt, assignees>>
          BY <2>1, <3>1 DEF StatusReadRun, dbVars
        <4>2. loc'[r].seen = status /\ loc'[r].stamped = startedAt
          BY <4>1 DEF TypeOK, Locals
        <4>3. Fresh(r)'
          BY <4>1, <4>2, <3>1 DEF Goto, Fresh, TypeOK, ValidTransition
        <4>4. QED
          BY <4>1, <4>3, <1>1 DEF Goto, TypeOK
      <3>2. CASE ~ValidTransition(status, job[r].target)
        BY <2>1, <3>2, <1>2 DEF StatusReadRun, dbVars
      <3>3. QED
        BY <3>1, <3>2
    <2>2. CASE StatusUpdateRun(r)
      <3>1. Fresh(r)'
        BY <2>2 DEF StatusUpdateRun, Goto, Fresh, TypeOK, dbVars, ValidTransition
      <3>2. QED
        BY <2>2, <3>1, <1>1 DEF StatusUpdateRun, Goto, TypeOK, dbVars
    <2>3. CASE StatusCommit(r)
      BY <2>3, <1>4, FreeSteps DEF StatusCommit, Emitting, InTx, StatusTx, Goto, TypeOK
    <2>4. CASE StatusEmit(r)
      BY <2>4, <1>2 DEF StatusEmit, dbVars
    <2>5. QED
      BY <1>7, <2>1, <2>2, <2>3, <2>4 DEF StatusStep
  <1>8. ASSUME NEW r \in Reqs, AssignStep(r) PROVE \A q \in Reqs : Fresh(q)'
    <2>0. /\ loc[r] \in Locals /\ assignees \in SUBSET Users /\ loc[r].rows \in SUBSET Users
          /\ loc[r].removed \in SUBSET Users
      BY DEF TypeOK, Locals
    <2>1. ASSUME NEW l \in Locals, loc' = [loc EXCEPT ![r] = l], UNCHANGED <<dbVars, job>>,
                 NEW step, Goto(r, step),
                 \/ step = "assign.rows" /\ l.removed \cup l.rows = assignees
                 \/ step \in {"assign.insert", "assign.commit"} /\ l.removed = assignees
          PROVE  \A q \in Reqs : Fresh(q)'
      <3>1. Fresh(r)'
        BY <2>1 DEF Goto, Fresh, TypeOK, dbVars
      <3>2. QED
        BY <2>1, <3>1, <1>1 DEF Goto, TypeOK, dbVars
    <2>2. CASE AssignDelete(r)
      <3> DEFINE none == [loc[r] EXCEPT !.removed = {}]
      <3>1. PICK l \in Turn(none, assignees) : loc' = [loc EXCEPT ![r] = l]
        BY <2>2 DEF AssignDelete
      <3>2. none \in Locals /\ none.removed = {}
        BY <2>0 DEF Locals
      <3> HIDE DEF none
      <3>3. l \in Locals /\ l.rows = assignees /\ l.removed = {}
        BY <2>0, <3>1, <3>2, TurnOK
      <3>4. QED
        BY <2>1, <2>2, <3>1, <3>3 DEF AssignDelete
    <2>3. CASE AssignDeleteRow(r)
      <3> DEFINE u == loc[r].row
                 k(l) == [l EXCEPT !.removed = @ \cup ({u} \cap loc[r].rows)]
      <3>1. PICK l \in Turn(loc[r], loc[r].rows \ {u}) : loc' = [loc EXCEPT ![r] = k(l)]
        BY <2>3 DEF AssignDeleteRow
      <3>2. l \in Locals /\ l.rows = loc[r].rows \ {u} /\ l.removed = loc[r].removed
        BY <2>0, <3>1, TurnOK
      <3>3. /\ k(l) \in Locals /\ k(l).rows = loc[r].rows \ {u}
            /\ k(l).removed = loc[r].removed \cup ({u} \cap loc[r].rows)
        BY <2>0, <3>2 DEF Locals
      <3>4. pc[r] = "assign.rows" /\ Goto(r, "assign.rows") /\ UNCHANGED <<dbVars, job>>
        BY <2>3 DEF AssignDeleteRow, Goto, TypeOK
      <3>5. loc[r].removed \cup loc[r].rows = assignees
        BY <3>4 DEF Fresh
      <3>6. k(l).removed \cup k(l).rows = assignees
        BY <3>3, <3>5
      <3> HIDE DEF k
      <3>7. QED
        BY <2>1, <3>1, <3>3, <3>4, <3>6
    <2>4. CASE AssignDeleteDone(r)
      <3>1. PICK l \in Turn(loc[r], job[r].ids) : loc' = [loc EXCEPT ![r] = l]
        BY <2>4 DEF AssignDeleteDone
      <3>2. job[r].ids \in SUBSET Users
        BY <2>4, JobOf DEF AssignDeleteDone, AssignTx, AssignJobs
      <3>3. l \in Locals /\ l.removed = loc[r].removed
        BY <2>0, <3>1, <3>2, TurnOK
      <3>4. loc[r].removed = assignees
        BY <2>4 DEF AssignDeleteDone, Fresh
      <3>5. QED
        BY <2>1, <2>4, <3>1, <3>3, <3>4 DEF AssignDeleteDone
    <2>5. CASE AssignInsertRow(r)
      <3> DEFINE u == loc[r].row
      <3>1. CASE u \in assignees \ loc[r].removed
        BY <2>5, <3>1, <1>2 DEF AssignInsertRow, dbVars
      <3>2. CASE u \notin assignees \ loc[r].removed
        <4>1. PICK l \in Turn(loc[r], loc[r].rows \ {u}) : loc' = [loc EXCEPT ![r] = l]
          BY <2>5, <3>2 DEF AssignInsertRow
        <4>2. loc[r].rows \ {u} \in SUBSET Users
          BY <2>0
        <4>3. l \in Locals /\ l.removed = loc[r].removed
          BY <2>0, <4>1, <4>2, TurnOK
        <4>4. /\ pc[r] = "assign.insert" /\ Goto(r, "assign.insert")
              /\ UNCHANGED <<dbVars, job>>
          BY <2>5, <3>2 DEF AssignInsertRow, Goto, TypeOK
        <4>5. loc[r].removed = assignees
          BY <4>4 DEF Fresh
        <4>6. QED
          BY <2>1, <4>1, <4>3, <4>4, <4>5
      <3>3. QED
        BY <3>1, <3>2
    <2>6. CASE AssignLoad(r)
      <3> DEFINE l == [loc[r] EXCEPT !.roster = (assignees \ loc[r].removed) \cup job[r].ids]
      <3>1. job[r].ids \in SUBSET Users
        BY <2>6, JobOf DEF AssignLoad, AssignTx, AssignJobs
      <3>2. l \in Locals /\ l.removed = loc[r].removed
        BY <2>0, <3>1 DEF Locals
      <3>3. loc[r].removed = assignees
        BY <2>6 DEF AssignLoad, Fresh
      <3>4. /\ loc' = [loc EXCEPT ![r] = l] /\ Goto(r, "assign.commit")
            /\ UNCHANGED <<dbVars, job>>
        BY <2>6 DEF AssignLoad
      <3> HIDE DEF l
      <3>5. QED
        BY <2>1, <3>2, <3>3, <3>4
    <2>7. CASE AssignCommit(r)
      BY <2>7, <1>4, FreeSteps DEF AssignCommit, Emitting, InTx, AssignTx, Goto, TypeOK
    <2>8. CASE AssignEmit(r)
      BY <2>8, <1>2 DEF AssignEmit, dbVars
    <2>9. QED
      BY <1>8, <2>2, <2>3, <2>4, <2>5, <2>6, <2>7, <2>8 DEF AssignStep
  <1>9. ASSUME NEW r \in Reqs, Abort(r) \/ NameOfFails(r) \/ DeadlockVictim(r)
        PROVE  \A q \in Reqs : Fresh(q)'
    BY <1>9, <1>2 DEF Abort, NameOfFails, DeadlockVictim, dbVars
  <1>10. ASSUME Crash PROVE \A q \in Reqs : Fresh(q)'
    <2>1. \A q \in Reqs : pc'[q] \in FreeStep
      BY <1>0, <1>10, FreeSteps DEF Crash, TypeOK, PCs
    <2>2. QED
      BY <2>1, FreshFree
  <1>11. QED
    BY <1>0, <1>5, <1>6, <1>7, <1>8, <1>9, <1>10 DEF Next, Serve

LEMMA SerialInvariant == SerialSpec => []SerialInv
  <1>1. Init => SerialInv
    <2> SUFFICES ASSUME Init PROVE SerialInv
      OBVIOUS
    <2>1. ~Overlap /\ \A r \in Reqs : Fresh(r)
      BY DEF Init, Overlap, Fresh, InTx, RecordTx, StatusTx, AssignTx
    <2>2. QED
      BY <2>1, CountInit DEF SerialInv
  <1>2. SerialInv /\ [SerialNext]_vars => SerialInv'
    <2> SUFFICES ASSUME SerialInv, [SerialNext]_vars PROVE SerialInv'
      OBVIOUS
    <2>1. CountInv'
      BY SerialIsUncontended, CountStep DEF SerialInv
    <2>2. CASE SerialNext
      BY <2>1, <2>2, SerialStep DEF SerialInv, SerialNext
    <2>3. CASE UNCHANGED vars
      <3>1. ~Overlap' /\ \A r \in Reqs : Fresh(r)'
        BY <2>3, FreshOther DEF SerialInv, Overlap, vars
      <3>2. QED
        BY <2>1, <3>1 DEF SerialInv
    <2>4. QED
      BY <2>2, <2>3
  <1>3. QED
    BY <1>1, <1>2, PTL DEF SerialSpec

\* The counter columns are the counts of the cases, as one function.
LEMMA CountersAreRecount ==
  ASSUME NEW cs \in [CounterFields -> Int], NEW res,
         \A f \in CounterFields : cs[f] = Cardinality({c \in Cases : res[c] = f})
  PROVE  cs = Board!Recount(res)
  <1> DEFINE C(f) == Cardinality({c \in Cases : res[c] = f})
  <1>1. Board!Recount(res) = [f \in CounterFields |-> C(f)]
    BY DEF Board!Recount, CounterFields, Cardinality, Board!Cardinality
  <1>2. \A f \in CounterFields : cs[f] = C(f)
    OBVIOUS
  <1> HIDE DEF C
  <1>3. QED
    BY <1>1, <1>2

\* Only the three commits change the board, and each does what the board's own
\* operation does.
LEMMA StepRefinesBoard ==
  SerialInv /\ SerialInv' /\ [SerialNext]_vars => [Board!Next]_(Board!board)
  <1> SUFFICES ASSUME SerialInv, SerialInv', [SerialNext]_vars
               PROVE  [Board!Next]_(Board!board)
    OBVIOUS
  <1>0. /\ TypeOK /\ TypeOK' /\ CountersCountCases'
        /\ \A r \in Reqs : Fresh(r)
    BY DEF SerialInv, CountInv
  <1>1. CASE UNCHANGED dbVars
    BY <1>1 DEF dbVars, Board!board
  <1>2. ASSUME NEW r \in Reqs, RecordCommit(r) PROVE Board!Next
    <2> DEFINE u == job[r].user
               c == job[r].case
               v == job[r].result
    <2>1. u \in Users /\ c \in Cases /\ v \in Results
      BY <1>0, <1>2, JobOf DEF RecordCommit, RecordTx, RecordJobs
    <2>2. status = "IN_PROGRESS"
      BY <1>0, <1>2 DEF RecordCommit, Fresh
    <2>3. loc[r].prev = result[c]
      BY <1>2, <2>1 DEF SerialInv, CountInv, PrevIsCurrent, OnCase, RecordCommit
    <2>4. counters' = Board!Recount(result')
      BY <1>0, CountersAreRecount DEF TypeOK, CountersCountCases
    <2>5. Board!Record(r, u, c, v)
      BY <1>2, <2>2, <2>3, <2>4 DEF RecordCommit, RecorderOf, Board!Record, Board!Log
    <2>6. QED
      BY <2>1, <2>5 DEF Board!Next
  <1>3. ASSUME NEW r \in Reqs, StatusCommit(r) PROVE Board!Next
    <2> DEFINE u == job[r].user
    <2>1. u \in Users /\ job[r].target \in Targets
      BY <1>0, <1>3, JobOf DEF StatusCommit, StatusTx, StatusJobs
    <2>2. /\ ValidTransition(status, job[r].target)
          /\ loc[r].seen = status /\ loc[r].stamped = startedAt
      BY <1>0, <1>3 DEF StatusCommit, Fresh
    <2>3. /\ status' = job[r].target
          /\ startedAt' = (startedAt \/ (job[r].target = "IN_PROGRESS" /\ ~loc[r].stamped))
          /\ completedAt' = (completedAt \/ job[r].target \in Terminal)
          /\ startedAt \in BOOLEAN /\ completedAt \in BOOLEAN
      BY <1>0, <1>3 DEF StatusCommit, TypeOK
    <2>4. Board!Start \/ Board!Complete \/ Board!Stop
      <3>1. CASE job[r].target = "IN_PROGRESS"
        BY <2>2, <2>3, <3>1 DEF ValidTransition, Terminal, Board!Start
      <3>2. CASE job[r].target = "COMPLETED"
        BY <2>2, <2>3, <3>2 DEF ValidTransition, Terminal, Board!Complete
      <3>3. CASE job[r].target = "ABORTED"
        BY <2>2, <2>3, <3>3 DEF ValidTransition, Terminal, Board!Stop, Board!Closed
      <3>4. QED
        BY <2>1, <3>1, <3>2, <3>3 DEF Targets, Statuses
    <2>5. Board!Move(r, u)
      BY <1>3, <2>2, <2>3, <2>4 DEF StatusCommit, Board!Move, Board!Log
    <2>6. QED
      BY <2>1, <2>5 DEF Board!Next
  <1>4. ASSUME NEW r \in Reqs, AssignCommit(r) PROVE Board!Next
    <2> DEFINE u == job[r].user
    <2>1. u \in Users /\ job[r].ids \in SUBSET Users
      BY <1>0, <1>4, JobOf DEF AssignCommit, AssignTx, AssignJobs
    <2>2. assignees' = job[r].ids
      BY <1>0, <1>4 DEF AssignCommit, Fresh
    <2>3. Board!Replace(r, u, job[r].ids)
      BY <1>4, <2>2 DEF AssignCommit, Board!Replace, Board!Log
    <2>4. QED
      BY <2>1, <2>3 DEF Board!Next
  <1>5. \/ UNCHANGED dbVars
        \/ \E r \in Reqs : RecordCommit(r) \/ StatusCommit(r) \/ AssignCommit(r)
    BY OnlyCommitsWrite DEF SerialNext, vars, dbVars
  <1>6. QED
    BY <1>1, <1>2, <1>3, <1>4, <1>5

\* Run one transaction at a time, the guards, statements, locks, rollbacks and
\* events of the three handlers are RunBoard: results recorded only while in
\* progress, closed runs closed for good, counters that count, assignees
\* replaced as a whole, an audit entry with the true before and after.
THEOREM SerialImplementsBoard == SerialSpec => ImplementsBoard
  <1>1. Init => Board!Init
    <2> SUFFICES ASSUME Init PROVE Board!Init
      OBVIOUS
    <2>1. counters = Board!Recount(result)
      BY CountInit, CountersAreRecount DEF CountInv, TypeOK, CountersCountCases
    <2>2. QED
      BY <2>1 DEF Init, Board!Init
  <1>2. QED
    BY <1>1, SerialInvariant, StepRefinesBoard, PTL
    DEF SerialSpec, ImplementsBoard, Board!Spec

-------------------------------------------------------------------------------
\* What the dashboard makes of the columns

\* Disjoint finite sets add up.
LEMMA DisjointUnion ==
  ASSUME NEW S, NEW T, IsFiniteSet(S), IsFiniteSet(T), S \cap T = {}
  PROVE  /\ IsFiniteSet(S \cup T)
         /\ Cardinality(S \cup T) = Cardinality(S) + Cardinality(T)
  <1>1. /\ IsFiniteSet(S \cup T)
        /\ Cardinality(S \cup T)
             = Cardinality(S) + Cardinality(T) - Cardinality(S \cap T)
    BY FS_Union
  <1>2. Cardinality(S \cap T) = 0
    BY FS_EmptySet
  <1>3. Cardinality(S) \in Nat /\ Cardinality(T) \in Nat
    BY FS_CardinalityType
  <1>4. QED
    BY <1>1, <1>2, <1>3

\* Every case shows one of five results.
LEMMA Partition ==
  ASSUME TypeOK
  PROVE  /\ \A f : Cardinality(Count(f)) \in Nat /\ IsFiniteSet(Count(f))
         /\ Total \in Nat
         /\ Total = Cardinality(Count("PENDING")) + Cardinality(Count("PASS"))
                    + Cardinality(Count("FAIL")) + Cardinality(Count("BLOCKED"))
                    + Cardinality(Count("SKIPPED"))
  <1> DEFINE N(f) == Cardinality(Count(f))
  <1>1. \A f : N(f) \in Nat /\ IsFiniteSet(Count(f))
    BY CountFinite
  <1>2. \A f, g : f # g => Count(f) \cap Count(g) = {}
    BY DEF Count
  <1> DEFINE A == Count("PENDING") \cup Count("PASS")
             B == A \cup Count("FAIL")
             C == B \cup Count("BLOCKED")
             D == C \cup Count("SKIPPED")
  <1>3. IsFiniteSet(A) /\ Cardinality(A) = N("PENDING") + N("PASS")
    <2>1. Count("PENDING") \cap Count("PASS") = {}
      BY <1>2
    <2>2. QED
      BY <1>1, <2>1, DisjointUnion
  <1>4. IsFiniteSet(B) /\ Cardinality(B) = Cardinality(A) + N("FAIL")
    <2>1. A \cap Count("FAIL") = {}
      BY <1>2
    <2>2. QED
      BY <1>1, <1>3, <2>1, DisjointUnion
  <1>5. IsFiniteSet(C) /\ Cardinality(C) = Cardinality(B) + N("BLOCKED")
    <2>1. B \cap Count("BLOCKED") = {}
      BY <1>2
    <2>2. QED
      BY <1>1, <1>4, <2>1, DisjointUnion
  <1>6. Cardinality(D) = Cardinality(C) + N("SKIPPED")
    <2>1. C \cap Count("SKIPPED") = {}
      BY <1>2
    <2>2. QED
      BY <1>1, <1>5, <2>1, DisjointUnion
  <1>7. Cases = D
    BY ResultsAssumption DEF Count, TypeOK
  <1> HIDE DEF N, A, B, C, D
  <1>8. Total = N("PENDING") + N("PASS") + N("FAIL") + N("BLOCKED") + N("SKIPPED")
    BY <1>1, <1>3, <1>4, <1>5, <1>6, <1>7 DEF Total
  <1>9. Total \in Nat
    BY <1>1, <1>8
  <1>10. QED
    BY <1>1, <1>8, <1>9 DEF N

\* A column of a result not in use is 0, and so is the number of its cases.
LEMMA ColumnCounts ==
  ASSUME TypeOK, CountersCountCases, NEW f, f # "PENDING"
  PROVE  Column(f) = Cardinality(Count(f))
  <1>1. CASE f \in CounterFields
    BY <1>1 DEF Column, CountersCountCases, Count
  <1>2. CASE f \notin CounterFields
    <2>1. Count(f) = {}
      BY <1>2 DEF Count, TypeOK, CounterFields
    <2>2. QED
      BY <1>2, <2>1, FS_EmptySet DEF Column
  <1>3. QED
    BY <1>1, <1>2

\* Whatever requests on different cases do at once, the dashboard counts the cases
\* although it never looks at them.
THEOREM DashboardCounts == UncontendedSpec => []SummaryCountsCases
  <1>1. ASSUME CountInv PROVE SummaryCountsCases
    <2> DEFINE N(f) == Cardinality(Count(f))
    <2>1. TypeOK /\ CountersCountCases
      BY <1>1 DEF CountInv
    <2>2. /\ Column("PASS") = N("PASS") /\ Column("FAIL") = N("FAIL")
          /\ Column("BLOCKED") = N("BLOCKED") /\ Column("SKIPPED") = N("SKIPPED")
      BY <2>1, ColumnCounts
    <2>3. /\ \A f : N(f) \in Nat /\ IsFiniteSet(Count(f))
          /\ Total \in Nat
          /\ Total = N("PENDING") + N("PASS") + N("FAIL") + N("BLOCKED") + N("SKIPPED")
      BY <2>1, Partition
    <2>4. \A f : N(f) = Cardinality({c \in Cases : result[c] = f})
      BY DEF Count
    <2>5. N("PENDING") = 0 <=> Count("PENDING") = {}
      BY <2>3, FS_EmptySet
    <2>6. Total = 0 <=> Cases = {}
      BY FS_EmptySet, CasesAssumption DEF Total
    <2>7. \A v \in Results \ {"PENDING"} : Column(v) = N(v)
      BY <2>1, ColumnCounts
    <2> HIDE DEF N
    <2>8. Recorded = Total - N("PENDING") /\ Recorded \in Nat
      BY <2>2, <2>3 DEF Recorded
    <2>9. Pending = N("PENDING")
      BY <2>3, <2>8 DEF Pending
    <2>10. \A v \in Results : ResultDistribution[v] = N(v)
      BY <2>7, <2>9 DEF ResultDistribution
    <2>11. Progress = <<1, 1>> <=> Total # 0 /\ N("PENDING") = 0
      <3>1. CASE Total = 0
        BY <3>1 DEF Progress, Share
      <3>2. CASE Total # 0 /\ N("PENDING") = 0
        BY <2>3, <2>8, <3>2 DEF Progress, Share
      <3>3. CASE Total # 0 /\ N("PENDING") # 0
        <4>1. Total > 0 /\ Recorded < Total /\ Recorded >= 0 /\ ~(Recorded >= Total)
          BY <2>3, <2>8, <3>3
        <4>2. CASE Recorded = 0
          BY <4>1, <4>2, <2>3, <2>8 DEF Progress, Share
        <4>3. CASE Recorded # 0
          <5>1. Progress = <<Recorded, Total>> /\ Total # 1
            BY <4>1, <4>3, <2>3, <2>8 DEF Progress, Share
          <5>2. QED
            BY <5>1, <3>3
        <4>4. QED
          BY <4>2, <4>3
      <3>4. QED
        BY <3>1, <3>2, <3>3
    <2>12. Count("PENDING") = {} <=> \A c \in Cases : result[c] # "PENDING"
      BY DEF Count
    <2>13. QED
      BY <2>4, <2>5, <2>6, <2>10, <2>11, <2>12 DEF SummaryCountsCases
  <1>2. QED
    BY CountInit, <1>1, CountStep, PTL DEF UncontendedSpec

\* Whatever requests do at once, the trend of a completed run does not move any more
\* when those that had read the run before it was completed have ended.
THEOREM TrendAlwaysSettles == Spec => TrendSettles
  <1>1. ASSUME TypeOK, Next, Trend # <<>>, UnderWay = {}
        PROVE  Trend' = Trend /\ UnderWay' = {}
    <2>1. status = "COMPLETED"
      BY <1>1 DEF Trend
    <2>2. \A r \in Reqs : ~ RecordCommit(r) /\ ~ StatusCommit(r)
      BY <1>1 DEF UnderWay, RecordCommit, StatusCommit
    <2>3. UNCHANGED <<status, counters>>
      BY <1>1, <2>2, OnlyCommitsWrite DEF dbVars, AssignCommit
    <2>4. \A r \in Reqs : pc'[r] \in {"record.case", "record.update", "record.shift",
                                   "record.commit", "status.update", "status.commit"}
                        => pc'[r] = pc[r]
      <3>1. ASSUME NEW q \in Reqs, NEW step, Goto(q, step),
                   step \notin {"record.case", "record.update", "record.shift",
                                "record.commit", "status.update", "status.commit"}
            PROVE  \A r \in Reqs : \/ pc'[r] = pc[r]
                                   \/ pc'[r] \notin {"record.case", "record.update",
                                        "record.shift", "record.commit", "status.update",
                                        "status.commit"}
        BY <1>1, <3>1 DEF Goto, TypeOK
      <3>2. ASSUME NEW q \in Reqs, Receive(q) \/ Abort(q) \/ NameOfFails(q)
            PROVE  \E step : Goto(q, step) /\
                     step \in {"record.run", "status.run", "assign.delete", "done"}
        BY <3>2 DEF Receive, ArriveRecord, ArriveStatus, ArriveAssign, Arrive, Abort,
             NameOfFails, Finish
      <3>3. ASSUME NEW q \in Reqs, RecordStep(q) \/ StatusStep(q)
            PROVE  Goto(q, "done")
        BY <1>1, <2>1, <3>3 DEF UnderWay, RecordStep, StatusStep, RecordReadRun, RecordReadCase,
             RecordUpdateCase, RecordShift, RecordCommit, RecordEmit, StatusReadRun,
             StatusUpdateRun, StatusCommit, StatusEmit, Finish, ValidTransition, Terminal
      <3>4. ASSUME NEW q \in Reqs, AssignStep(q) \/ DeadlockVictim(q)
            PROVE  \E step : Goto(q, step) /\
                     step \in {"assign.rows", "assign.insert", "assign.commit",
                               "assign.emit", "done"}
        BY <1>1, <3>4, AssignMoves DEF AssignCommit, AssignEmit, DeadlockVictim, Finish
      <3>5. CASE Crash
        BY <1>1, <3>5 DEF Crash
      <3>6. QED
        BY <1>1, <3>1, <3>2, <3>3, <3>4, <3>5 DEF Next, Serve
    <2>5. UnderWay' = {}
      BY <1>1, <2>4 DEF UnderWay
    <2>6. QED
      BY <2>3, <2>5 DEF Trend, PassRate, Recorded, Column, Total
  <1>2. TypeOK /\ [Next]_vars => [Trend # <<>> /\ UnderWay = {} =>
                                   Trend' = Trend /\ UnderWay' = {}]_vars
    BY <1>1
  <1>3. QED
    BY <1>2, TypeCorrect, PTL DEF Spec, TrendSettles
===============================================================================
