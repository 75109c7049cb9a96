------------------------------- MODULE PageProofs -------------------------------
(***************************************************************************)
(* The run page and its cache, for any number of requests and cases.       *)
(***************************************************************************)
EXTENDS RunPage, TLAPS

-------------------------------------------------------------------------------
\* Fields, requests and the operators of the cache

LEMMA Parts ==
  /\ \A f \in Fields : KeyOf(f) \in Keys /\ f \in Part(KeyOf(f))
  /\ \A k \in Keys : \A f \in Part(k) : f \in Fields /\ KeyOf(f) = k
  /\ "status" \in Fields /\ "counters" \in Fields /\ "assignees" \in Fields
  BY CasesAssumption DEF Fields, Detail, KeyOf, Keys, Part

LEMMA JobsWrite ==
  ASSUME NEW j \in Jobs
  PROVE  /\ Writes(j) \subseteq Fields
         /\ "status" \in Writes(j) => j.op = "status" /\ j.next \in {1, 2}
         /\ j.op = "record" => Writes(j) = {j.case, "counters"}
         /\ j.op = "status" => Writes(j) = {"status"}
         /\ j.op = "assign" => Writes(j) = {"assignees"}
         /\ j.op \in {"record", "status", "assign"}
  <1>1. CASE j.op = "record"
    <2>1. j.case \in Cases
      BY <1>1 DEF Jobs
    <2>2. Writes(j) = {j.case, "counters"}
      BY <1>1 DEF Writes
    <2>3. QED
      BY <1>1, <2>1, <2>2, CasesAssumption DEF Fields, Detail
  <1>2. CASE j.op = "status"
    BY <1>2 DEF Jobs, Writes, Fields, Detail
  <1>3. CASE j.op = "assign"
    BY <1>3 DEF Jobs, Writes, Fields, Detail
  <1>4. j.op \in {"record", "status", "assign"}
    BY DEF Jobs
  <1>5. QED
    BY <1>1, <1>2, <1>3, <1>4

\* What v says of the fields it has.
Says(v) == DOMAIN v \subseteq Fields /\ \A f \in DOMAIN v : v[f] \in Nat

LEMMA Taken ==
  ASSUME CacheTypes, NEW v, Says(v), NEW L \in SUBSET Losses, Take(v, L)
  PROVE  /\ shown' \in [Fields -> Values]
         /\ \A f \in Fields : shown'[f] = IF f \in DOMAIN v THEN v[f] ELSE shown[f]
         /\ lost' \subseteq L
         /\ \A l \in L : l \in lost' \/ (l.field \in DOMAIN v /\ l.value <= v[l.field])
         /\ \A l \in lost' : l.field \in DOMAIN v => l.value > v[l.field]
  <1>1. /\ shown' = [f \in Fields |-> IF f \in DOMAIN v THEN v[f] ELSE shown[f]]
        /\ lost' = {l \in L : l.field \in DOMAIN v => l.value > v[l.field]}
    BY DEF Take
  <1>2. shown' \in [Fields -> Values]
    BY <1>1 DEF CacheTypes, Says, Values
  <1>3. \A l \in L : l.value \in Nat
    BY DEF Losses
  <1>4. \A l \in L : l \in lost' \/ (l.field \in DOMAIN v /\ l.value <= v[l.field])
    <2>1. ASSUME NEW l \in L, l \notin lost' PROVE l.field \in DOMAIN v /\ l.value <= v[l.field]
      <3>1. l.field \in DOMAIN v /\ ~(l.value > v[l.field])
        BY <1>1, <2>1
      <3>2. l.value \in Nat /\ v[l.field] \in Nat
        BY <1>3, <3>1 DEF Says
      <3>3. QED
        BY <3>1, <3>2
    <2>2. QED
      BY <2>1
  <1>5. QED
    BY <1>1, <1>2, <1>4

LEMMA LostMore ==
  ASSUME HistoryTypes, NEW E \in SUBSET Notes, NEW why \in Causes
  PROVE  /\ lost \subseteq Lose(E, why) /\ Lose(E, why) \subseteq Losses
         /\ \A e \in E : Behind(e.field, e.value) =>
              [field |-> e.field, value |-> e.value, cause |-> why] \in Lose(E, why)
         /\ \A l \in Lose(E, why) :
              l \in lost \/ (l.cause = why /\ Behind(l.field, l.value) /\
                             \E e \in E : l.field = e.field /\ l.value = e.value)
  BY DEF Lose, HistoryTypes, Losses, Notes

\* The fields of v that have data are set to v, the losses v makes good are gone.
LEMMA Patched ==
  ASSUME CacheTypes, HistoryTypes, NEW v, Says(v), Patch(v)
  PROVE  /\ shown' \in [Fields -> Values] /\ fresh' \in [Keys -> BOOLEAN]
         /\ lost' \subseteq Losses
         /\ \A f \in Fields : shown'[f] = IF f \in DOMAIN v /\ shown[f] # NoData
                                          THEN v[f] ELSE shown[f]
         /\ \A l \in lost : l \in lost' \/ (l.field \in DOMAIN v /\ shown[l.field] # NoData
                                            /\ l.value <= v[l.field])
         /\ \A l \in lost' :
              /\ l \in lost \/ (l.field \in DOMAIN v /\ shown[l.field] = NoData)
              /\ l.field \in DOMAIN v /\ shown[l.field] # NoData => l.value > v[l.field]
         /\ \A f \in DOMAIN v : shown[f] = NoData =>
              [field |-> f, value |-> v[f], cause |-> "early"] \in lost'
  <1> DEFINE hit == {f \in DOMAIN v : shown[f] # NoData}
             w == [f \in hit |-> v[f]]
             E == {[field |-> f, value |-> v[f]] : f \in DOMAIN v \ hit}
             L == Lose(E, "early")
  <1>1. Take(w, L) /\ fresh' = [k \in Keys |-> fresh[k] \/ \E f \in hit : KeyOf(f) = k]
    BY DEF Patch
  <1>2. DOMAIN w = hit /\ \A f \in hit : w[f] = v[f]
    OBVIOUS
  <1>3. E \in SUBSET Notes /\ \A e \in E : e.field \in DOMAIN v /\ shown[e.field] = NoData
    BY DEF Says, Notes
  <1>4. hit \subseteq DOMAIN v /\ \A f : f \in hit <=> f \in DOMAIN v /\ shown[f] # NoData
    OBVIOUS
  <1>5. Says(w)
    BY <1>2, <1>4 DEF Says
  <1>early. \A f \in DOMAIN v : shown[f] = NoData =>
              [field |-> f, value |-> v[f], cause |-> "early"] \in L
    <2>1. SUFFICES ASSUME NEW f \in DOMAIN v, shown[f] = NoData
                   PROVE  [field |-> f, value |-> v[f], cause |-> "early"] \in L
      OBVIOUS
    <2>2. PICK e : e = [field |-> f, value |-> v[f]]
      OBVIOUS
    <2>3. e \in E /\ e.field = f /\ e.value = v[f] /\ Behind(e.field, e.value)
      BY <2>1, <2>2 DEF Behind
    <2> HIDE DEF E
    <2>4. [field |-> e.field, value |-> e.value, cause |-> "early"] \in L
      BY <1>3, <2>3, LostMore DEF Causes
    <2>5. QED
      BY <2>3, <2>4
  <1> HIDE DEF hit, w, E
  <1>6. /\ L \in SUBSET Losses /\ lost \subseteq L
        /\ \A l \in L : l \in lost \/ (l.field \in DOMAIN v /\ shown[l.field] = NoData)
    BY <1>3, LostMore DEF Causes
  <1> HIDE DEF L
  <1>7. /\ shown' \in [Fields -> Values]
        /\ \A f \in Fields : shown'[f] = IF f \in DOMAIN w THEN w[f] ELSE shown[f]
        /\ lost' \subseteq L
        /\ \A l \in L : l \in lost' \/ (l.field \in DOMAIN w /\ l.value <= w[l.field])
        /\ \A l \in lost' : l.field \in DOMAIN w => l.value > w[l.field]
    BY <1>1, <1>5, <1>6, Taken
  <1>8. fresh' \in [Keys -> BOOLEAN]
    BY <1>1 DEF CacheTypes
  <1>9. ASSUME NEW f \in DOMAIN v, shown[f] = NoData
        PROVE  [field |-> f, value |-> v[f], cause |-> "early"] \in lost'
    <2>1. PICK l \in L : l = [field |-> f, value |-> v[f], cause |-> "early"]
      BY <1>9, <1>early
    <2>2. l.field = f /\ f \notin DOMAIN w
      BY <1>2, <1>4, <1>9, <2>1
    <2>3. l \in lost'
      BY <1>7, <2>2
    <2>4. QED
      BY <2>1, <2>3
  <1>10. QED
    BY <1>2, <1>4, <1>6, <1>7, <1>8, <1>9

\* What the server read is kept for the queries still in "read".
LEMMA Fetching ==
  ASSUME CacheTypes, NEW q \in [Keys -> {"idle", "asked", "read"}], Fetches(q),
         \A k \in Keys : q[k] = "read" => query[k] = "read"
  PROVE  /\ query' = q /\ snap' \in [Fields -> Values]
         /\ \A f \in Fields : q[KeyOf(f)] = "read" => snap'[f] = snap[f] /\ snap'[f] # NoData
  <1>1. query' = q /\ snap' = [f \in Fields |-> IF q[KeyOf(f)] = "read" THEN snap[f] ELSE NoData]
    BY DEF Fetches
  <1>2. snap' \in [Fields -> Values]
    BY <1>1 DEF CacheTypes, Values
  <1>3. QED
    BY <1>1, <1>2, Parts DEF CacheTypes

LEMMA Invalidated ==
  ASSUME CacheTypes, NEW K, Invalidate(K)
  PROVE  /\ fresh' \in [Keys -> BOOLEAN] /\ snap' \in [Fields -> Values]
         /\ query' \in [Keys -> {"idle", "asked", "read"}]
         /\ \A k \in Keys : query'[k] = IF k \in K /\ open /\ (HasData(k) \/ query[k] = "idle")
                                        THEN "asked" ELSE query[k]
         /\ \A f \in Fields : query'[KeyOf(f)] = "read" => snap'[f] = snap[f] /\ snap'[f] # NoData
  <1> DEFINE q == [k \in Keys |->
                     IF k \in K /\ open /\ (HasData(k) \/ query[k] = "idle") THEN "asked" ELSE query[k]]
  <1>1. /\ fresh' = [k \in Keys |-> fresh[k] /\ k \notin K]
        /\ Fetches(q)
    BY DEF Invalidate
  <1>2. q \in [Keys -> {"idle", "asked", "read"}] /\ \A k \in Keys : q[k] = "read" => query[k] = "read"
    BY DEF CacheTypes
  <1>3. fresh' \in [Keys -> BOOLEAN]
    BY <1>1 DEF CacheTypes
  <1>4. \A k \in Keys : q[k] = IF k \in K /\ open /\ (HasData(k) \/ query[k] = "idle")
                               THEN "asked" ELSE query[k]
    OBVIOUS
  <1> HIDE DEF q
  <1>5. QED
    BY <1>1, <1>2, <1>3, <1>4, Fetching

\* Only the cause changes.
LEMMA Blamed ==
  ASSUME HistoryTypes, NEW K, NEW why \in Causes
  PROVE  /\ {Blame(l, K, why) : l \in lost} \subseteq Losses
         /\ \A l \in lost : /\ Blame(l, K, why).field = l.field /\ Blame(l, K, why).value = l.value
                            /\ Blame(l, K, why).cause = IF KeyOf(l.field) \in K /\ l.cause # "preread"
                                                        THEN why ELSE l.cause
  BY DEF Blame, HistoryTypes, Losses

-------------------------------------------------------------------------------
\* Types

Answered == {"committed", "emitted", "settled"}

LEMMA Values0 == Nat \subseteq Values /\ NoData \in Values /\ \A v \in Values : v # NoData <=> v \in Nat
  BY NoDataAssumption DEF Values

LEMMA WrittenValues ==
  ASSUME ServerTypes, NEW r \in Reqs, pc[r] \in Answered
  PROVE  /\ job[r] \in Jobs /\ DOMAIN value[r] = Writes(job[r]) /\ Says(value[r])
         /\ \A f \in Writes(job[r]) : f \in Fields /\ value[r][f] \in Nat
  <1>1. job[r] \in Jobs /\ value[r] \in [Writes(job[r]) -> Nat]
    BY DEF ServerTypes, Answered
  <1>2. Writes(job[r]) \subseteq Fields
    BY <1>1, JobsWrite
  <1>3. DOMAIN value[r] = Writes(job[r]) /\ \A f \in Writes(job[r]) : value[r][f] \in Nat
    BY <1>1
  <1>4. QED
    BY <1>1, <1>2, <1>3 DEF Says

\* The events of a request carry what it wrote.
LEMMA EventTypes ==
  ASSUME ServerTypes, NEW r \in Reqs, pc[r] \in Answered
  PROVE  /\ {Event(r, f) : f \in Writes(job[r])} \in SUBSET Notes
         /\ EventsOf(r) \in Seq(Notes)
         /\ \A i \in 1 .. Len(EventsOf(r)) : \E f \in Writes(job[r]) : EventsOf(r)[i] = Event(r, f)
         /\ \A f \in Writes(job[r]) : \E i \in 1 .. Len(EventsOf(r)) : EventsOf(r)[i] = Event(r, f)
         /\ \A f : Event(r, f).field = f /\ Event(r, f).value = value[r][f]
  <1>1. \A f \in Writes(job[r]) : Event(r, f) \in Notes
    BY WrittenValues DEF Event, Notes
  <1>2. job[r] \in Jobs
    BY WrittenValues
  <1> HIDE DEF Event
  <1>3. CASE job[r].op = "record"
    <2>1. Writes(job[r]) = {job[r].case, "counters"}
      BY <1>2, <1>3, JobsWrite
    <2>2. EventsOf(r) = <<Event(r, job[r].case), Event(r, "counters")>>
      BY <1>3 DEF EventsOf
    <2>3. EventsOf(r) \in Seq(Notes) /\ Len(EventsOf(r)) = 2
          /\ EventsOf(r)[1] = Event(r, job[r].case) /\ EventsOf(r)[2] = Event(r, "counters")
      BY <1>1, <2>1, <2>2
    <2>4. 1 .. 2 = {1, 2}
      OBVIOUS
    <2>5. QED
      BY <1>1, <2>1, <2>3, <2>4 DEF Event
  <1>4. CASE job[r].op # "record"
    <2>1. PICK f : /\ Writes(job[r]) = {f} /\ EventsOf(r) = <<Event(r, f)>>
      BY <1>2, <1>4, JobsWrite DEF EventsOf
    <2>2. EventsOf(r) \in Seq(Notes) /\ Len(EventsOf(r)) = 1 /\ EventsOf(r)[1] = Event(r, f)
      BY <1>1, <2>1
    <2>3. QED
      BY <1>1, <2>1, <2>2 DEF Event
  <1>5. QED
    BY <1>3, <1>4

LEMMA FinishTypes ==
  ASSUME ServerTypes, NEW R, Finish(R), version' = version
  PROVE  ServerTypes'
  <1>1. [op |-> "assign"] \in Jobs
    BY DEF Jobs
  <1>2. /\ pc' = [r \in Reqs |-> IF r \in R THEN "done" ELSE pc[r]]
        /\ job' = [r \in Reqs |-> IF r \in R THEN [op |-> "assign"] ELSE job[r]]
        /\ value' = [r \in Reqs |-> IF r \in R THEN <<>> ELSE value[r]]
    BY DEF Finish
  <1>3. \A r \in Reqs : pc'[r] \in Answered =>
          pc'[r] = pc[r] /\ job'[r] = job[r] /\ value'[r] = value[r]
    BY <1>2 DEF Answered
  <1>4. pc' \in [Reqs -> {"idle", "sent", "committed", "emitted", "settled", "done"}]
        /\ job' \in [Reqs -> Jobs] /\ DOMAIN value' = Reqs
    BY <1>1, <1>2 DEF ServerTypes
  <1>5. \A r \in Reqs : pc'[r] \in Answered => value'[r] \in [Writes(job'[r]) -> Nat]
    BY <1>3 DEF ServerTypes, Answered
  <1>6. QED
    BY <1>4, <1>5 DEF ServerTypes, Answered

LEMMA AskTypes ==
  ASSUME TypeOK, NEW r \in Reqs, NEW j \in Jobs, Ask(r, j)
  PROVE  TypeOK'
  <1>1. /\ pc[r] = "idle" /\ pc' = [pc EXCEPT ![r] = "sent"] /\ job' = [job EXCEPT ![r] = j]
        /\ UNCHANGED <<version, value, open, joined, link, cache, budget, history>>
    BY DEF Ask
  <1>2. ServerTypes'
    <2>1. pc' \in [Reqs -> {"idle", "sent", "committed", "emitted", "settled", "done"}]
          /\ job' \in [Reqs -> Jobs]
      BY <1>1 DEF TypeOK, ServerTypes
    <2>2. \A x \in Reqs : pc'[x] \in Answered => pc'[x] = pc[x] /\ job'[x] = job[x]
      BY <1>1 DEF TypeOK, ServerTypes, Answered
    <2>3. \A x \in Reqs : pc'[x] \in Answered => value'[x] \in [Writes(job'[x]) -> Nat]
      BY <1>1, <2>2 DEF TypeOK, ServerTypes, Answered
    <2>4. QED
      BY <1>1, <2>1, <2>3 DEF TypeOK, ServerTypes, Answered
  <1>3. QED
    BY <1>1, <1>2 DEF TypeOK, LinkTypes, CacheTypes, HistoryTypes, link, cache, history

LEMMA Follows ==
  ASSUME ServerTypes, NEW j \in Jobs, Allows(j), NEW f \in Writes(j)
  PROVE  /\ f \in Fields /\ Following(f, j) \in Nat /\ Following(f, j) > version[f]
         /\ f = "status" => Following(f, j) \in 1 .. 2
  <1>1. f \in Fields /\ version[f] \in Nat
    BY JobsWrite DEF ServerTypes
  <1>2. CASE f = "status"
    <2>1. j.op = "status" /\ j.next \in {1, 2} /\ version["status"] < j.next
      BY <1>2, JobsWrite DEF Allows
    <2>2. QED
      BY <1>1, <1>2, <2>1 DEF Following
  <1>3. CASE f # "status"
    BY <1>1, <1>3 DEF Following
  <1>4. QED
    BY <1>2, <1>3

LEMMA CommitTypes ==
  ASSUME TypeOK, NEW r \in Reqs, NEW j \in Jobs, Commit(r, j)
  PROVE  TypeOK'
  <1>1. /\ Allows(j)
        /\ version' = [f \in Fields |-> IF f \in Writes(j) THEN Following(f, j) ELSE version[f]]
        /\ job' = [job EXCEPT ![r] = j] /\ pc' = [pc EXCEPT ![r] = "committed"]
        /\ value' = [value EXCEPT ![r] = [f \in Writes(j) |-> Following(f, j)]]
        /\ crowded' = crowded \union {f \in Writes(j) : UnderWay(f)}
        /\ UNCHANGED <<open, joined, link, cache, budget, lost>>
    BY DEF Commit
  <1>2. ServerTypes /\ Writes(j) \subseteq Fields
    BY JobsWrite DEF TypeOK
  <1>3. \A f \in Writes(j) : Following(f, j) \in Nat /\ (f = "status" => Following(f, j) \in 1 .. 2)
    BY <1>1, <1>2, Follows
  <1>4. version' \in [Fields -> Nat] /\ version'["status"] \in 0..2
    <2>1. version \in [Fields -> Nat] /\ version["status"] \in 0 .. 2 /\ "status" \in Fields
      BY <1>2, Parts DEF ServerTypes
    <2>2. QED
      BY <1>1, <1>3, <2>1
  <1>5. pc' \in [Reqs -> {"idle", "sent", "committed", "emitted", "settled", "done"}]
        /\ job' \in [Reqs -> Jobs] /\ DOMAIN value' = Reqs
    BY <1>1, <1>2 DEF ServerTypes
  <1>6. \A x \in Reqs : pc'[x] \in Answered => value'[x] \in [Writes(job'[x]) -> Nat]
    <2>1. value'[r] \in [Writes(j) -> Nat] /\ job'[r] = j
      BY <1>1, <1>2, <1>3 DEF ServerTypes
    <2>2. \A x \in Reqs \ {r} : value'[x] = value[x] /\ job'[x] = job[x] /\ pc'[x] = pc[x]
      BY <1>1, <1>2 DEF ServerTypes
    <2>3. QED
      BY <1>2, <2>1, <2>2 DEF ServerTypes, Answered
  <1>7. ServerTypes'
    BY <1>4, <1>5, <1>6 DEF ServerTypes, Answered
  <1>8. HistoryTypes'
    BY <1>1, <1>2 DEF TypeOK, HistoryTypes
  <1>9. QED
    BY <1>1, <1>7, <1>8 DEF TypeOK, LinkTypes, CacheTypes, link, cache

LEMMA RefuseTypes ==
  ASSUME TypeOK, NEW r \in Reqs, Refuse(r)
  PROVE  TypeOK'
  <1>1. Finish({r}) /\ UNCHANGED <<version, open, joined, link, cache, budget, history>>
    BY DEF Refuse
  <1>2. ServerTypes'
    BY <1>1, FinishTypes DEF TypeOK
  <1>3. QED
    BY <1>1, <1>2 DEF TypeOK, LinkTypes, CacheTypes, HistoryTypes, link, cache, history

LEMMA CauseIs == Cause \in Causes
  BY DEF Cause, Causes

LEMMA EmitTypes ==
  ASSUME TypeOK, NEW r \in Reqs, Emit(r)
  PROVE  TypeOK'
  <1>1. /\ pc[r] = "committed"
        /\ UNCHANGED <<version, open, joined, online, checking, inRoom, cache, budget, crowded>>
    BY DEF Emit
  <1>2. ServerTypes'
    <2>1. CASE r \in Mine
      <3>1. pc' = [pc EXCEPT ![r] = "emitted"] /\ UNCHANGED <<job, value>>
        BY <2>1 DEF Emit
      <3>2. pc' \in [Reqs -> {"idle", "sent", "committed", "emitted", "settled", "done"}]
        BY <3>1 DEF TypeOK, ServerTypes
      <3>3. \A x \in Reqs : pc'[x] \in Answered => pc[x] \in Answered
        BY <1>1, <3>1 DEF TypeOK, ServerTypes, Answered
      <3>4. QED
        BY <1>1, <3>1, <3>2, <3>3 DEF TypeOK, ServerTypes, Answered
    <2>2. CASE r \notin Mine
      <3>1. Finish({r})
        BY <2>2 DEF Emit
      <3>2. QED
        BY <1>1, <3>1, FinishTypes DEF TypeOK
    <2>3. QED
      BY <2>1, <2>2
  <1>3. EventsOf(r) \in Seq(Notes) /\ {Event(r, f) : f \in Writes(job[r])} \in SUBSET Notes
    BY <1>1, EventTypes DEF TypeOK, Answered
  <1>4. down' \in Seq(Notes) /\ lost' \subseteq Losses
    <2>1. CASE inRoom
      <3>1. down' = down \o EventsOf(r) /\ lost' = lost
        BY <2>1 DEF Emit
      <3>2. QED
        BY <1>3, <3>1 DEF TypeOK, LinkTypes, HistoryTypes
    <2>2. CASE ~inRoom
      <3>1. lost' = Lose({Event(r, f) : f \in Writes(job[r])}, Cause) /\ down' = down
        BY <2>2 DEF Emit
      <3>2. QED
        BY <1>3, <3>1, LostMore, CauseIs DEF TypeOK, LinkTypes
    <2>3. QED
      BY <2>1, <2>2
  <1>5. QED
    BY <1>1, <1>2, <1>4 DEF TypeOK, LinkTypes, CacheTypes, HistoryTypes, cache

LEMMA SettleTypes ==
  ASSUME TypeOK, NEW r \in Reqs, Settle(r)
  PROVE  TypeOK'
  <1>1. /\ pc[r] = "emitted" /\ pc' = [pc EXCEPT ![r] = "settled"]
        /\ UNCHANGED <<version, job, value, open, joined, link, budget, crowded>>
    BY DEF Settle
  <1>2. job[r] \in Jobs /\ Says(value[r]) /\ CacheTypes /\ HistoryTypes
    BY <1>1, WrittenValues DEF TypeOK, Answered
  <1>3. ServerTypes'
    <2>1. pc' \in [Reqs -> {"idle", "sent", "committed", "emitted", "settled", "done"}]
      BY <1>1 DEF TypeOK, ServerTypes
    <2>2. \A x \in Reqs : pc'[x] \in Answered => pc[x] \in Answered
      BY <1>1 DEF TypeOK, ServerTypes, Answered
    <2>3. QED
      BY <1>1, <2>1, <2>2 DEF TypeOK, ServerTypes, Answered
  <1>4. CacheTypes' /\ lost' \subseteq Losses
    <2>1. CASE job[r].op = "record"
      <3>1. Patch(value[r]) /\ UNCHANGED <<query, snap>>
        BY <2>1 DEF Settle
      <3>2. shown' \in [Fields -> Values] /\ fresh' \in [Keys -> BOOLEAN] /\ lost' \subseteq Losses
        BY <1>2, <3>1, Patched
      <3>3. QED
        BY <1>2, <3>1, <3>2 DEF CacheTypes
    <2>2. CASE job[r].op # "record"
      <3>1. PICK K : Invalidate(K) /\ UNCHANGED <<shown, lost>>
        BY <1>2, <2>2, JobsWrite DEF Settle
      <3>2. QED
        BY <1>2, <3>1, Invalidated DEF CacheTypes, HistoryTypes
    <2>3. QED
      BY <2>1, <2>2
  <1>5. QED
    BY <1>1, <1>3, <1>4 DEF TypeOK, LinkTypes, HistoryTypes, link

LEMMA FailTypes ==
  ASSUME TypeOK, NEW r \in Reqs, Fail(r)
  PROVE  TypeOK'
  <1>1. /\ pc[r] \in Answered /\ Finish({r}) /\ budget' = budget - 1 /\ budget > 0
        /\ UNCHANGED <<version, open, joined, link, cache, crowded>>
        /\ lost' = lost \/ lost' = Lose({Event(r, f) : f \in Writes(job[r])}, "unsent")
    BY DEF Fail, Answered
  <1>2. ServerTypes'
    BY <1>1, FinishTypes DEF TypeOK
  <1>3. {Event(r, f) : f \in Writes(job[r])} \in SUBSET Notes
    BY <1>1, EventTypes DEF TypeOK
  <1>4. lost' \subseteq Losses
    BY <1>1, <1>3, LostMore DEF TypeOK, HistoryTypes, Causes
  <1>5. HistoryTypes'
    BY <1>1, <1>4, BudgetAssumption DEF TypeOK, HistoryTypes
  <1>6. QED
    BY <1>1, <1>2, <1>5 DEF TypeOK, LinkTypes, CacheTypes, link, cache

LEMMA FetchReadTypes ==
  ASSUME TypeOK, NEW k \in Keys, FetchRead(k)
  PROVE  TypeOK'
  <1>1. /\ query' = [query EXCEPT ![k] = "read"]
        /\ snap' = [f \in Fields |-> IF f \in Part(k) THEN version[f] ELSE snap[f]]
        /\ UNCHANGED <<server, open, joined, link, shown, fresh, budget, history>>
    BY DEF FetchRead
  <1>2. \A f \in Fields : version[f] \in Nat /\ snap[f] \in Values
    BY DEF TypeOK, ServerTypes, CacheTypes
  <1>3. snap' \in [Fields -> Values] /\ query' \in [Keys -> {"idle", "asked", "read"}]
    BY <1>1, <1>2, Values0 DEF TypeOK, CacheTypes
  <1>4. ASSUME NEW f \in Fields, query'[KeyOf(f)] = "read" PROVE snap'[f] # NoData
    <2>1. KeyOf(f) \in Keys /\ f \in Part(KeyOf(f))
      BY Parts
    <2>2. CASE KeyOf(f) = k
      BY <1>1, <1>2, <2>1, <2>2, Values0
    <2>3. CASE KeyOf(f) # k
      <3>1. f \notin Part(k) /\ query[KeyOf(f)] = "read"
        BY <1>1, <1>4, <2>1, <2>3, Parts DEF TypeOK, CacheTypes
      <3>2. QED
        BY <1>1, <3>1 DEF TypeOK, CacheTypes
    <2>4. QED
      BY <2>2, <2>3
  <1>5. CacheTypes'
    BY <1>1, <1>3, <1>4 DEF TypeOK, CacheTypes
  <1>6. QED
    BY <1>1, <1>5 DEF TypeOK, ServerTypes, LinkTypes, HistoryTypes, server, link, history

\* The fetch of k ends.
LEMMA Ended ==
  ASSUME CacheTypes, NEW k \in Keys, Fetches([query EXCEPT ![k] = "idle"])
  PROVE  /\ query' \in [Keys -> {"idle", "asked", "read"}] /\ snap' \in [Fields -> Values]
         /\ \A x \in Keys : query'[x] = IF x = k THEN "idle" ELSE query[x]
         /\ \A f \in Fields : query'[KeyOf(f)] = "read" => snap'[f] = snap[f] /\ snap'[f] # NoData
  <1> DEFINE q == [query EXCEPT ![k] = "idle"]
  <1>1. /\ q \in [Keys -> {"idle", "asked", "read"}]
        /\ \A x \in Keys : q[x] = IF x = k THEN "idle" ELSE query[x]
    BY DEF CacheTypes
  <1>2. Fetches(q) /\ \A x \in Keys : q[x] = "read" => query[x] = "read"
    BY <1>1
  <1> HIDE DEF q
  <1>3. QED
    BY <1>1, <1>2, Fetching

\* What the server read reaches the cache, and what that takes back is noted.
LEMMA Fetched ==
  ASSUME TypeOK, NEW k \in Keys, FetchDone(k)
  PROVE  /\ query[k] = "read" /\ \A f \in Part(k) : snap[f] \in Nat
         /\ shown' \in [Fields -> Values] /\ lost' \subseteq Losses
         /\ \A f \in Part(k) : shown[f] # NoData /\ snap[f] < shown[f] =>
              [field |-> f, value |-> shown[f], cause |-> "preread"] \in lost'
         /\ \A f \in Fields : shown'[f] = IF f \in Part(k) THEN snap[f] ELSE shown[f]
         /\ \A l \in lost : l \in lost' \/ (l.field \in Part(k) /\ l.value <= snap[l.field])
  <1> DEFINE v == [f \in Part(k) |-> snap[f]]
             L == lost \union TakenBack(k)
  <1>1. query[k] = "read" /\ Take(v, L)
    BY DEF FetchDone
  <1>2. \A f \in Part(k) : f \in Fields /\ snap[f] \in Nat
    <2>1. \A f \in Part(k) : f \in Fields /\ KeyOf(f) = k
      BY Parts
    <2>2. QED
      BY <1>1, <2>1, Values0 DEF TypeOK, CacheTypes
  <1>3. DOMAIN v = Part(k) /\ \A f \in Part(k) : v[f] = snap[f]
    OBVIOUS
  <1>4. Says(v)
    BY <1>2, <1>3 DEF Says
  <1>5. L \in SUBSET Losses
    <2>1. ASSUME NEW f \in Part(k), shown[f] # NoData
          PROVE  [field |-> f, value |-> shown[f], cause |-> "preread"] \in Losses
      BY <1>2, <2>1, Values0 DEF TypeOK, CacheTypes, Losses, Causes
    <2>2. TakenBack(k) \subseteq Losses
      BY <2>1 DEF TakenBack
    <2>3. QED
      BY <2>2 DEF TypeOK, HistoryTypes
  <1>6. lost \subseteq L
    OBVIOUS
  <1>7. ASSUME NEW f \in Part(k), shown[f] # NoData, snap[f] < shown[f]
        PROVE  [field |-> f, value |-> shown[f], cause |-> "preread"] \in L
    BY <1>7 DEF TakenBack
  <1> HIDE DEF v, L
  <1>8. /\ shown' \in [Fields -> Values]
        /\ \A f \in Fields : shown'[f] = IF f \in DOMAIN v THEN v[f] ELSE shown[f]
        /\ lost' \subseteq L
        /\ \A l \in L : l \in lost' \/ (l.field \in DOMAIN v /\ l.value <= v[l.field])
    BY <1>1, <1>4, <1>5, Taken DEF TypeOK
  <1>9. ASSUME NEW f \in Part(k), shown[f] # NoData, snap[f] < shown[f]
        PROVE  [field |-> f, value |-> shown[f], cause |-> "preread"] \in lost'
    <2>1. PICK l \in L : l = [field |-> f, value |-> shown[f], cause |-> "preread"]
      BY <1>7, <1>9
    <2>2. l.field = f /\ l.value = shown[f] /\ shown[f] \in Nat /\ snap[f] \in Nat
      BY <1>2, <1>9, <2>1, Values0 DEF TypeOK, CacheTypes
    <2>3. ~(l.value <= v[l.field])
      BY <1>3, <1>9, <2>2
    <2>4. QED
      BY <1>8, <2>1, <2>3
  <1>10. QED
    BY <1>1, <1>2, <1>3, <1>5, <1>6, <1>8, <1>9

LEMMA FetchDoneTypes ==
  ASSUME TypeOK, NEW k \in Keys, FetchDone(k)
  PROVE  TypeOK'
  <1>1. /\ Fetches([query EXCEPT ![k] = "idle"]) /\ fresh' = [fresh EXCEPT ![k] = TRUE]
        /\ UNCHANGED <<server, open, joined, link, budget, crowded>>
    BY DEF FetchDone
  <1>2. shown' \in [Fields -> Values] /\ lost' \subseteq Losses
    BY Fetched
  <1>3. /\ query' \in [Keys -> {"idle", "asked", "read"}] /\ snap' \in [Fields -> Values]
        /\ \A f \in Fields : query'[KeyOf(f)] = "read" => snap'[f] # NoData
    BY <1>1, Ended DEF TypeOK
  <1>4. CacheTypes'
    BY <1>1, <1>2, <1>3 DEF TypeOK, CacheTypes
  <1>5. QED
    BY <1>1, <1>2, <1>4 DEF TypeOK, ServerTypes, LinkTypes, HistoryTypes, server, link

LEMMA Spend ==
  ASSUME TypeOK, budget > 0, budget' = budget - 1
  PROVE  budget' \in 0 .. Budget
  BY BudgetAssumption DEF TypeOK, HistoryTypes

LEMMA FetchFailsTypes ==
  ASSUME TypeOK, NEW k \in Keys, FetchFails(k)
  PROVE  TypeOK'
  <1>1. /\ Fetches([query EXCEPT ![k] = "idle"]) /\ budget > 0 /\ budget' = budget - 1
        /\ lost' = {Blame(l, {k}, "failed") : l \in lost}
        /\ UNCHANGED <<server, open, joined, link, shown, fresh, crowded>>
    BY DEF FetchFails
  <1>2. /\ query' \in [Keys -> {"idle", "asked", "read"}] /\ snap' \in [Fields -> Values]
        /\ \A f \in Fields : query'[KeyOf(f)] = "read" => snap'[f] # NoData
    BY <1>1, Ended DEF TypeOK
  <1>3. CacheTypes'
    BY <1>1, <1>2 DEF TypeOK, CacheTypes
  <1>4. HistoryTypes /\ "failed" \in Causes
    BY DEF TypeOK, Causes
  <1>5. {Blame(l, {k}, "failed") : l \in lost} \subseteq Losses
    BY <1>4, Blamed
  <1>6. lost' \subseteq Losses /\ budget' \in 0 .. Budget
    BY <1>1, <1>5, Spend
  <1>7. QED
    BY <1>1, <1>3, <1>6 DEF TypeOK, ServerTypes, LinkTypes, HistoryTypes, server, link

LEMMA RefocusTypes ==
  ASSUME TypeOK, NEW k \in Keys, Refocus(k)
  PROVE  TypeOK'
  <1>1. /\ query' = [query EXCEPT ![k] = "asked"] /\ budget > 0 /\ budget' = budget - 1
        /\ UNCHANGED <<server, open, joined, link, shown, fresh, snap, history>>
    BY DEF Refocus
  <1>2. CacheTypes'
    BY <1>1, Parts DEF TypeOK, CacheTypes
  <1>3. QED
    BY <1>1, <1>2, Spend DEF TypeOK, ServerTypes, LinkTypes, HistoryTypes, server, link, history

LEMMA OpenTypes ==
  ASSUME TypeOK, NEW old, Open(old)
  PROVE  TypeOK'
  <1>1. /\ open' = TRUE /\ joined' = online /\ checking' = IF online THEN checking + 1 ELSE checking
        /\ query' = [k \in Keys |-> IF query[k] = "idle" /\ ~(HasData(k) /\ fresh[k] /\ k \notin old)
                                    THEN "asked" ELSE query[k]]
        /\ UNCHANGED <<server, online, inRoom, down, shown, fresh, snap, budget, history>>
    BY DEF Open
  <1>2. query' \in [Keys -> {"idle", "asked", "read"}]
        /\ \A k \in Keys : query'[k] = "read" => query[k] = "read"
    BY <1>1 DEF TypeOK, CacheTypes
  <1>3. CacheTypes'
    BY <1>1, <1>2, Parts DEF TypeOK, CacheTypes
  <1>4. LinkTypes'
    BY <1>1 DEF TypeOK, LinkTypes
  <1>5. QED
    BY <1>1, <1>3, <1>4 DEF TypeOK, ServerTypes, HistoryTypes, server, history

LEMMA CloseTypes ==
  ASSUME TypeOK, Close
  PROVE  TypeOK'
  <1>1. /\ budget > 0 /\ budget' = budget - 1 /\ open' = FALSE /\ inRoom' = FALSE
        /\ lost' = {Blame(l, Keys, "closed") : l \in lost}
        /\ UNCHANGED <<server, joined, online, checking, down, cache, crowded>>
    BY DEF Close
  <1>2. lost' \subseteq Losses /\ budget' \in 0 .. Budget
    BY <1>1, Blamed, Spend DEF TypeOK, Causes
  <1>3. QED
    BY <1>1, <1>2 DEF TypeOK, ServerTypes, LinkTypes, CacheTypes, HistoryTypes, server, cache

\* The fields a reconnection may blame: those of a query that keeps its first fetch.
Blind == {k \in Keys : ~HasData(k) /\ query[k] # "idle"}

LEMMA Connected ==
  ASSUME Connect
  PROVE  /\ ~online /\ online' = TRUE /\ joined' = (joined \/ open)
         /\ checking' = IF open THEN 1 ELSE 0
         /\ UNCHANGED <<server, open, inRoom, down, shown, budget, crowded>>
         /\ IF open /\ joined
            THEN Invalidate(Keys) /\ lost' = {Blame(l, Blind, "blind") : l \in lost}
            ELSE UNCHANGED <<fresh, query, snap, lost>>
  BY DEF Connect, Blind

LEMMA ConnectTypes ==
  ASSUME TypeOK, Connect
  PROVE  TypeOK'
  <1>1. /\ online' = TRUE /\ joined' = (joined \/ open) /\ checking' = IF open THEN 1 ELSE 0
        /\ UNCHANGED <<server, open, inRoom, down, shown, budget, crowded>>
    BY Connected
  <1>2. LinkTypes'
    BY <1>1 DEF TypeOK, LinkTypes
  <1>3. CacheTypes' /\ lost' \subseteq Losses
    <2>1. CASE open /\ joined
      <3>1. Invalidate(Keys) /\ lost' = {Blame(l, Blind, "blind") : l \in lost}
        BY <2>1, Connected
      <3>2. /\ fresh' \in [Keys -> BOOLEAN] /\ snap' \in [Fields -> Values]
            /\ query' \in [Keys -> {"idle", "asked", "read"}]
            /\ \A f \in Fields : query'[KeyOf(f)] = "read" => snap'[f] # NoData
        BY <3>1, Invalidated DEF TypeOK
      <3>3. lost' \subseteq Losses
        <4>1. HistoryTypes /\ "blind" \in Causes
          BY DEF TypeOK, Causes
        <4>2. {Blame(l, Blind, "blind") : l \in lost} \subseteq Losses
          BY <4>1, Blamed
        <4>3. QED
          BY <3>1, <4>2
      <3>4. QED
        BY <1>1, <3>2, <3>3 DEF TypeOK, CacheTypes
    <2>2. CASE ~(open /\ joined)
      <3>1. UNCHANGED <<fresh, query, snap, lost>>
        BY <2>2, Connected
      <3>2. QED
        BY <1>1, <3>1 DEF TypeOK, CacheTypes, HistoryTypes
    <2>3. QED
      BY <2>1, <2>2
  <1>4. QED
    BY <1>1, <1>2, <1>3 DEF TypeOK, ServerTypes, HistoryTypes, server

\* What is cut off is lost.
LEMMA WasCut ==
  ASSUME TypeOK, NEW L \in SUBSET Losses, Cut(L)
  PROVE  /\ online' = FALSE /\ inRoom' = FALSE /\ checking' = 0 /\ down' = <<>>
         /\ L \subseteq lost' /\ lost' \subseteq Losses
         /\ lost' = L \union Lose({down[i] : i \in DOMAIN down}, IF open THEN "offline" ELSE "closed")
         /\ {down[i] : i \in DOMAIN down} \in SUBSET Notes
         /\ (IF open THEN "offline" ELSE "closed") \in Causes
  <1>1. {down[i] : i \in DOMAIN down} \in SUBSET Notes
    BY DEF TypeOK, LinkTypes
  <1>2. (IF open THEN "offline" ELSE "closed") \in Causes
    BY DEF Causes
  <1>3. HistoryTypes
    BY DEF TypeOK
  <1>4. Lose({down[i] : i \in DOMAIN down}, IF open THEN "offline" ELSE "closed") \subseteq Losses
    <2> DEFINE E == {down[i] : i \in DOMAIN down}
               why == IF open THEN "offline" ELSE "closed"
    <2>1. E \in SUBSET Notes /\ why \in Causes
      BY <1>1, <1>2
    <2> HIDE DEF E, why
    <2>2. Lose(E, why) \subseteq Losses
      BY <1>3, <2>1, LostMore
    <2>3. QED
      BY <2>2 DEF E, why
  <1>5. QED
    BY <1>1, <1>2, <1>4 DEF Cut

LEMMA NothingDown == <<>> \in Seq(Notes)
  OBVIOUS

LEMMA DropTypes ==
  ASSUME TypeOK, Drop
  PROVE  TypeOK'
  <1>1. /\ budget > 0 /\ budget' = budget - 1 /\ Cut(lost)
        /\ UNCHANGED <<server, open, joined, cache, crowded>>
    BY DEF Drop
  <1>2. lost \in SUBSET Losses
    BY DEF TypeOK, HistoryTypes
  <1>3. /\ online' = FALSE /\ inRoom' = FALSE /\ checking' = 0 /\ down' = <<>>
        /\ lost' \subseteq Losses
    BY <1>1, <1>2, WasCut
  <1>4. LinkTypes'
    BY <1>1, <1>3, NothingDown DEF TypeOK, LinkTypes
  <1>5. QED
    BY <1>1, <1>3, <1>4, Spend DEF TypeOK, ServerTypes, CacheTypes, HistoryTypes, server, cache

LEMMA EnterTypes ==
  ASSUME TypeOK, Enter
  PROVE  TypeOK'
  <1>1. /\ checking > 0 /\ checking' = checking - 1 /\ inRoom' = TRUE
        /\ UNCHANGED <<server, open, joined, online, down, cache, budget, history>>
    BY DEF Enter
  <1>2. LinkTypes'
    BY <1>1 DEF TypeOK, LinkTypes
  <1>3. QED
    BY <1>1, <1>2 DEF TypeOK, ServerTypes, CacheTypes, HistoryTypes, server, cache, history

\* An event of the page is patched in, any other is lost.
LEMMA Delivered ==
  ASSUME TypeOK, Deliver
  PROVE  /\ down # <<>> /\ down' = Tail(down) /\ Head(down) \in Notes
         /\ Head(down).field \in Fields /\ Head(down).value \in Nat
         /\ \/ /\ open /\ Head(down).field \in Handled
               /\ Patch([f \in {Head(down).field} |-> Head(down).value])
               /\ Says([f \in {Head(down).field} |-> Head(down).value])
            \/ /\ ~(open /\ Head(down).field \in Handled)
               /\ lost' = Lose({Head(down)}, IF open THEN "ignored" ELSE "closed")
               /\ {Head(down)} \in SUBSET Notes /\ (IF open THEN "ignored" ELSE "closed") \in Causes
               /\ UNCHANGED <<shown, fresh>>
         /\ UNCHANGED <<server, open, joined, online, checking, inRoom, query, snap, budget, crowded>>
  <1>1. /\ down # <<>> /\ down' = Tail(down)
        /\ IF open /\ Head(down).field \in Handled
           THEN Patch([f \in {Head(down).field} |-> Head(down).value])
           ELSE /\ lost' = Lose({Head(down)}, IF open THEN "ignored" ELSE "closed")
                /\ UNCHANGED <<shown, fresh>>
        /\ UNCHANGED <<server, open, joined, online, checking, inRoom, query, snap, budget, crowded>>
    BY DEF Deliver
  <1>2. Head(down) \in Notes
    BY <1>1 DEF TypeOK, LinkTypes
  <1>3. PICK e \in Notes : e = Head(down)
    BY <1>2
  <1>4. e.field \in Fields /\ e.value \in Nat
    BY DEF Notes
  <1>5. Says([f \in {e.field} |-> e.value])
    BY <1>4 DEF Says
  <1>6. (IF open THEN "ignored" ELSE "closed") \in Causes
    BY DEF Causes
  <1>7. QED
    BY <1>1, <1>2, <1>3, <1>4, <1>5, <1>6

LEMMA DeliverTypes ==
  ASSUME TypeOK, Deliver
  PROVE  TypeOK'
  <1> DEFINE e == Head(down)
             v == [f \in {e.field} |-> e.value]
             why == IF open THEN "ignored" ELSE "closed"
  <1>1. /\ down # <<>> /\ down' = Tail(down)
        /\ UNCHANGED <<server, open, joined, online, checking, inRoom, query, snap, budget, crowded>>
        /\ \/ Patch(v) /\ Says(v)
           \/ /\ lost' = Lose({e}, why) /\ {e} \in SUBSET Notes /\ why \in Causes
              /\ UNCHANGED <<shown, fresh>>
    BY Delivered
  <1> HIDE DEF e, v, why
  <1>2. CacheTypes /\ HistoryTypes
    BY DEF TypeOK
  <1>3. shown' \in [Fields -> Values] /\ fresh' \in [Keys -> BOOLEAN] /\ lost' \subseteq Losses
    <2>1. CASE Patch(v) /\ Says(v)
      BY <1>2, <2>1, Patched
    <2>2. CASE /\ lost' = Lose({e}, why) /\ {e} \in SUBSET Notes /\ why \in Causes
               /\ UNCHANGED <<shown, fresh>>
      BY <1>2, <2>2, LostMore DEF CacheTypes
    <2>3. QED
      BY <1>1, <2>1, <2>2
  <1>4. LinkTypes'
    BY <1>1 DEF TypeOK, LinkTypes
  <1>5. QED
    BY <1>1, <1>3, <1>4 DEF TypeOK, ServerTypes, CacheTypes, HistoryTypes, server

\* The requests a restart ends before their events have left.
Unsent == UNION {{Event(r, f) : f \in Writes(job[r])} : r \in {r \in Reqs : pc[r] = "committed"}}
CrashCause == IF open /\ joined THEN "offline" ELSE Cause

LEMMA Crashed ==
  ASSUME TypeOK, Crash
  PROVE  /\ online /\ budget > 0 /\ budget' = budget - 1
         /\ Finish({r \in Reqs : pc[r] \in {"sent", "committed", "emitted"}})
         /\ Unsent \in SUBSET Notes /\ CrashCause \in Causes
         /\ Lose(Unsent, CrashCause) \in SUBSET Losses
         /\ Cut(Lose(Unsent, CrashCause))
         /\ UNCHANGED <<version, open, joined, shown, fresh, crowded>>
         /\ query' \in [Keys -> {"idle", "asked", "read"}] /\ snap' \in [Fields -> Values]
         /\ \A k \in Keys : query'[k] = IF query[k] = "idle" THEN "idle" ELSE "asked"
         /\ \A f \in Fields : query'[KeyOf(f)] # "read"
  <1>1. /\ online /\ budget > 0 /\ budget' = budget - 1
        /\ Finish({r \in Reqs : pc[r] \in {"sent", "committed", "emitted"}})
        /\ Cut(Lose(Unsent, CrashCause))
        /\ UNCHANGED <<version, open, joined, shown, fresh, crowded>>
    BY DEF Crash, Unsent, CrashCause
  <1>2. Unsent \in SUBSET Notes
    <2>1. \A r \in Reqs : pc[r] = "committed" => {Event(r, f) : f \in Writes(job[r])} \in SUBSET Notes
      BY EventTypes DEF TypeOK, Answered
    <2>2. QED
      BY <2>1 DEF Unsent
  <1>3. CrashCause \in Causes
    BY CauseIs DEF CrashCause, Causes
  <1>4. Lose(Unsent, CrashCause) \in SUBSET Losses
    BY <1>2, <1>3, LostMore DEF TypeOK
  <1> DEFINE q == [k \in Keys |-> IF query[k] = "idle" THEN "idle" ELSE "asked"]
  <1>5. q \in [Keys -> {"idle", "asked", "read"}] /\ \A k \in Keys : q[k] # "read"
        /\ q[k] = IF query[k] = "idle" THEN "idle" ELSE "asked"
    OBVIOUS
  <1>6. Fetches(q)
    BY DEF Crash
  <1> HIDE DEF q
  <1>7. query' = q /\ snap' \in [Fields -> Values]
    BY <1>5, <1>6, Fetching DEF TypeOK
  <1>8. QED
    BY <1>1, <1>2, <1>3, <1>4, <1>5, <1>7, Parts

LEMMA CrashTypes ==
  ASSUME TypeOK, Crash
  PROVE  TypeOK'
  <1>1. ServerTypes'
    BY Crashed, FinishTypes DEF TypeOK
  <1>2. /\ online' = FALSE /\ inRoom' = FALSE /\ checking' = 0 /\ down' = <<>>
        /\ lost' \subseteq Losses
    BY Crashed, WasCut
  <1>3. UNCHANGED <<open, joined, shown, fresh, crowded>> /\ budget' \in 0 .. Budget
    BY Crashed, Spend
  <1>4. LinkTypes'
    BY <1>2, <1>3, NothingDown DEF TypeOK, LinkTypes
  <1>5. CacheTypes'
    BY <1>3, Crashed DEF TypeOK, CacheTypes
  <1>6. QED
    BY <1>1, <1>2, <1>3, <1>4, <1>5 DEF TypeOK, HistoryTypes

LEMMA InitTypes == Init => TypeOK
  <1> SUFFICES ASSUME Init PROVE TypeOK
    OBVIOUS
  <1>1. version \in [Fields -> Nat] /\ version["status"] \in 0..2
    BY Parts DEF Init
  <1>2. ServerTypes
    BY <1>1 DEF Init, ServerTypes, Jobs
  <1>3. LinkTypes
    BY NothingDown DEF Init, LinkTypes
  <1>4. CacheTypes
    BY Parts DEF Init, CacheTypes, Values
  <1>5. HistoryTypes
    BY BudgetAssumption DEF Init, HistoryTypes
  <1>6. QED
    BY <1>2, <1>3, <1>4, <1>5 DEF TypeOK

LEMMA TypeStep == TypeOK /\ [Next]_vars => TypeOK'
  <1> SUFFICES ASSUME TypeOK, [Next]_vars PROVE TypeOK'
    OBVIOUS
  <1>1. CASE Browser
    BY <1>1, DeliverTypes, FetchDoneTypes DEF Browser
  <1>2. CASE Server
    BY <1>2, EnterTypes, FetchReadTypes, CommitTypes, RefuseTypes, EmitTypes, SettleTypes DEF Server
  <1>3. CASE Connect
    BY <1>3, ConnectTypes
  <1>4. CASE User
    BY <1>4, CloseTypes, OpenTypes, RefocusTypes, AskTypes DEF User
  <1>5. CASE World
    BY <1>5, DropTypes, CrashTypes, FetchFailsTypes, FailTypes DEF World
  <1>6. CASE UNCHANGED vars
    BY <1>6 DEF TypeOK, ServerTypes, LinkTypes, CacheTypes, HistoryTypes,
                vars, server, link, cache, history
  <1>7. QED
    BY <1>1, <1>2, <1>3, <1>4, <1>5, <1>6 DEF Next

\* Type correctness: the page shows values or nothing, a request that has committed has
\* the values of the fields it wrote, and what the server read for a query is there as
\* long as its answer is under way (features/runs/cache.ts, hooks.ts).
THEOREM TypeCorrect == Spec => []TypeOK
  BY InitTypes, TypeStep, PTL DEF Spec

-------------------------------------------------------------------------------
\* What a step does to the requests, the events, the fetches and the cache

Committed == {"committed", "emitted"}

\* Any request but the one that commits keeps what it wrote.
KeepsWhatItWrote(r) ==
  /\ pc'[r] \in Answered => pc[r] \in Answered /\ job'[r] = job[r] /\ value'[r] = value[r]
  /\ pc'[r] \in Committed => pc[r] \in Committed
  /\ pc'[r] = "settled" => pc[r] = "settled" \/ Settle(r)
  /\ pc'[r] = "sent" => pc[r] = "sent" \/ Shows

LEMMA Finished ==
  ASSUME ServerTypes, NEW R, Finish(R), NEW r \in Reqs
  PROVE  KeepsWhatItWrote(r) /\ (r \notin R => pc'[r] = pc[r] /\ job'[r] = job[r] /\ value'[r] = value[r])
                             /\ (r \in R => pc'[r] = "done")
  BY DEF Finish, KeepsWhatItWrote, Answered, Committed

LEMMA RequestsStand ==
  ASSUME TypeOK, [Next]_vars, ~ \E r \in Reqs, j \in Jobs : Commit(r, j)
  PROVE  version' = version /\ crowded' = crowded /\ \A r \in Reqs : KeepsWhatItWrote(r)
  <1>1. CASE UNCHANGED <<pc, job, value, version, crowded>>
    BY <1>1 DEF KeepsWhatItWrote
  <1>2. ASSUME NEW r \in Reqs, NEW j \in Jobs, Ask(r, j)
        PROVE  version' = version /\ crowded' = crowded /\ \A x \in Reqs : KeepsWhatItWrote(x)
    BY <1>2 DEF Ask, Offers, KeepsWhatItWrote, history, TypeOK, ServerTypes, Answered, Committed
  <1>3. ASSUME NEW r \in Reqs, Refuse(r)
        PROVE  version' = version /\ crowded' = crowded /\ \A x \in Reqs : KeepsWhatItWrote(x)
    BY <1>3, Finished DEF Refuse, history, TypeOK
  <1>4. ASSUME NEW r \in Reqs, Emit(r)
        PROVE  version' = version /\ crowded' = crowded /\ \A x \in Reqs : KeepsWhatItWrote(x)
    <2>1. CASE r \in Mine
      BY <1>4, <2>1 DEF Emit, KeepsWhatItWrote, TypeOK, ServerTypes, Answered, Committed
    <2>2. CASE r \notin Mine
      BY <1>4, <2>2, Finished DEF Emit, TypeOK
    <2>3. QED
      BY <2>1, <2>2
  <1>5. ASSUME NEW r \in Reqs, Settle(r)
        PROVE  version' = version /\ crowded' = crowded /\ \A x \in Reqs : KeepsWhatItWrote(x)
    BY <1>5 DEF Settle, KeepsWhatItWrote, TypeOK, ServerTypes, Answered, Committed
  <1>6. ASSUME NEW r \in Reqs, Fail(r)
        PROVE  version' = version /\ crowded' = crowded /\ \A x \in Reqs : KeepsWhatItWrote(x)
    BY <1>6, Finished DEF Fail, TypeOK
  <1>7. CASE Crash
    BY <1>7, Crashed, Finished DEF TypeOK
  <1>8. CASE Browser \/ Enter \/ (\E k \in Keys : FetchRead(k)) \/ Connect \/ Close
             \/ (\E old \in SUBSET Keys : Open(old)) \/ (\E k \in Keys : Refocus(k))
             \/ Drop \/ (\E k \in Keys : FetchFails(k)) \/ UNCHANGED vars
    BY <1>1, <1>8 DEF Browser, Deliver, FetchDone, Enter, FetchRead, Connect, Close, Open, Refocus,
                      Drop, FetchFails, vars, server, history
  <1>9. QED
    BY <1>2, <1>3, <1>4, <1>5, <1>6, <1>7, <1>8 DEF Next, Server, User, World

\* An event on its way was there before or is one of a request that had committed.
LEMMA DownFrom ==
  ASSUME TypeOK, [Next]_vars, NEW i \in 1 .. Len(down')
  PROVE  \/ \E n \in 1 .. Len(down) : down'[i] = down[n]
         \/ \E r \in Reqs : /\ pc[r] = "committed"
                            /\ \E f \in Writes(job[r]) : down'[i] = Event(r, f)
  <1>1. CASE down' = down
    BY <1>1
  <1>2. CASE down' = <<>>
    BY <1>2
  <1>3. CASE Deliver
    <2>1. down # <<>> /\ down' = Tail(down) /\ down \in Seq(Notes)
      BY <1>3 DEF Deliver, TypeOK, LinkTypes
    <2>2. i + 1 \in 1 .. Len(down) /\ down'[i] = down[i + 1]
      BY <2>1
    <2>3. QED
      BY <2>2
  <1>4. ASSUME NEW r \in Reqs, Emit(r)
        PROVE  \/ \E n \in 1 .. Len(down) : down'[i] = down[n]
               \/ /\ pc[r] = "committed"
                  /\ \E f \in Writes(job[r]) : down'[i] = Event(r, f)
    <2>1. pc[r] = "committed" /\ (down' = down \/ down' = down \o EventsOf(r))
      BY <1>4 DEF Emit
    <2>2. down \in Seq(Notes) /\ EventsOf(r) \in Seq(Notes)
          /\ \A n \in 1 .. Len(EventsOf(r)) : \E f \in Writes(job[r]) : EventsOf(r)[n] = Event(r, f)
      BY <2>1, EventTypes DEF TypeOK, LinkTypes, Answered
    <2>3. CASE down' = down \o EventsOf(r)
      <3>1. PICK E \in Seq(Notes) : E = EventsOf(r)
        BY <2>2
      <3>2. down' = down \o E /\ i \in 1 .. Len(down) + Len(E)
        BY <2>2, <2>3, <3>1
      <3>3. CASE i <= Len(down)
        <4>1. i \in 1 .. Len(down) /\ down'[i] = down[i]
          BY <2>2, <3>2, <3>3
        <4>2. QED
          BY <4>1
      <3>4. CASE i > Len(down)
        <4>1. i - Len(down) \in 1 .. Len(E) /\ down'[i] = E[i - Len(down)]
          BY <2>2, <3>2, <3>4
        <4>2. QED
          BY <2>1, <2>2, <3>1, <4>1
      <3>5. QED
        BY <2>2, <3>2, <3>3, <3>4
    <2>4. QED
      BY <2>1, <2>3
  <1>5. ASSUME Drop \/ Crash PROVE down' = <<>>
    BY <1>5 DEF Drop, Crash, Cut
  <1>6. ASSUME Next, ~Deliver, ~Drop, ~Crash, ~ \E r \in Reqs : Emit(r) PROVE down' = down
    BY <1>6 DEF Next, Browser, Server, User, World, FetchDone, Enter, FetchRead, Connect, Close,
                Open, Refocus, FetchFails, Commit, Refuse, Settle, Fail, Ask, link
  <1>7. QED
    BY <1>1, <1>2, <1>3, <1>4, <1>5, <1>6 DEF vars, link

\* What the server has read for a query it had read before, or it has read it now.
LEMMA SnapFrom ==
  ASSUME TypeOK, [Next]_vars, NEW f \in Fields, query'[KeyOf(f)] = "read"
  PROVE  \/ query[KeyOf(f)] = "read" /\ snap'[f] = snap[f]
         \/ query[KeyOf(f)] = "asked" /\ snap'[f] = version[f]
  <1>1. KeyOf(f) \in Keys /\ f \in Part(KeyOf(f)) /\ CacheTypes
    BY Parts DEF TypeOK
  <1>2. CASE UNCHANGED <<query, snap>>
    BY <1>2
  <1>3. ASSUME NEW k \in Keys, FetchRead(k)
        PROVE  \/ query[KeyOf(f)] = "read" /\ snap'[f] = snap[f]
               \/ query[KeyOf(f)] = "asked" /\ snap'[f] = version[f]
    <2>1. query[k] = "asked" /\ query' = [query EXCEPT ![k] = "read"]
          /\ snap' = [x \in Fields |-> IF x \in Part(k) THEN version[x] ELSE snap[x]]
      BY <1>3 DEF FetchRead
    <2>2. f \in Part(k) <=> KeyOf(f) = k
      BY Parts
    <2>3. QED
      BY <1>1, <2>1, <2>2 DEF CacheTypes
  <1>4. ASSUME NEW k \in Keys, Fetches([query EXCEPT ![k] = "idle"])
        PROVE  query[KeyOf(f)] = "read" /\ snap'[f] = snap[f]
    BY <1>1, <1>4, Ended
  <1>5. ASSUME NEW k \in Keys, Refocus(k) \/ \E old \in SUBSET Keys : Open(old)
        PROVE  query[KeyOf(f)] = "read" /\ snap'[f] = snap[f]
    BY <1>1, <1>5 DEF Refocus, Open, CacheTypes
  <1>6. ASSUME NEW K, Invalidate(K)
        PROVE  query[KeyOf(f)] = "read" /\ snap'[f] = snap[f]
    BY <1>1, <1>6, Invalidated
  <1>7. CASE Connect
    <2>1. (\E K : Invalidate(K)) \/ UNCHANGED <<query, snap>>
      BY <1>7, Connected
    <2>2. QED
      BY <1>2, <1>6, <2>1
  <1>8. ASSUME NEW r \in Reqs, Settle(r)
        PROVE  query[KeyOf(f)] = "read" /\ snap'[f] = snap[f]
    <2>1. (\E K : Invalidate(K)) \/ UNCHANGED <<query, snap>>
      <3>1. job[r] \in Jobs
        BY DEF TypeOK, ServerTypes
      <3>2. QED
        BY <1>8, <3>1, JobsWrite DEF Settle
    <2>2. QED
      BY <1>6, <2>1
  <1>9. ~Crash
    BY <1>1, Crashed
  <1>10. ASSUME Next, ~Connect, ~ \E k \in Keys : FetchRead(k) \/ FetchDone(k) \/ FetchFails(k) \/ Refocus(k),
                ~ \E old \in SUBSET Keys : Open(old), ~ \E r \in Reqs : Settle(r)
         PROVE  UNCHANGED <<query, snap>>
    BY <1>9, <1>10 DEF Next, Browser, Server, User, World, Deliver, Enter, Close, Drop, Commit, Refuse,
                Emit, Fail, Ask, cache
  <1>11. ASSUME NEW k \in Keys, FetchDone(k) \/ FetchFails(k)
         PROVE  query[KeyOf(f)] = "read" /\ snap'[f] = snap[f]
    BY <1>4, <1>11 DEF FetchDone, FetchFails
  <1>12. CASE UNCHANGED vars
    BY <1>2, <1>12 DEF vars, cache
  <1>13. QED
    BY <1>1, <1>2, <1>3, <1>5, <1>7, <1>8, <1>10, <1>11, <1>12

\* A field of the page changes by the answer to a request, by an event or by a fetch.
TakesAnswer(f) == \E r \in Reqs : /\ Settle(r) /\ pc[r] = "emitted" /\ f \in Writes(job[r])
                                  /\ shown[f] # NoData /\ shown'[f] = value[r][f]
TakesEvent(f) == /\ Deliver /\ down # <<>> /\ Head(down).field = f
                 /\ shown[f] # NoData /\ shown'[f] = Head(down).value
TakesFetched(f) == FetchDone(KeyOf(f)) /\ query[KeyOf(f)] = "read" /\ shown'[f] = snap[f]

LEMMA ShownFrom ==
  ASSUME TypeOK, [Next]_vars, NEW f \in Fields
  PROVE  shown'[f] = shown[f] \/ TakesAnswer(f) \/ TakesEvent(f) \/ TakesFetched(f)
  <1>1. CacheTypes /\ HistoryTypes /\ ServerTypes
    BY DEF TypeOK
  <1>2. ASSUME NEW r \in Reqs, Settle(r)
        PROVE  shown'[f] = shown[f] \/ TakesAnswer(f)
    <2>1. pc[r] = "emitted" /\ job[r] \in Jobs /\ Says(value[r]) /\ DOMAIN value[r] = Writes(job[r])
      BY <1>1, <1>2, WrittenValues DEF Settle, Answered
    <2>2. CASE job[r].op = "record"
      <3>1. Patch(value[r])
        BY <1>2, <2>2 DEF Settle
      <3>2. shown'[f] = IF f \in Writes(job[r]) /\ shown[f] # NoData THEN value[r][f] ELSE shown[f]
        BY <1>1, <2>1, <3>1, Patched
      <3>3. QED
        BY <1>2, <2>1, <3>2 DEF TakesAnswer
    <2>3. CASE job[r].op # "record"
      BY <1>2, <2>1, <2>3, JobsWrite DEF Settle
    <2>4. QED
      BY <2>2, <2>3
  <1>3. CASE Deliver
    <2> DEFINE e == Head(down)
               v == [x \in {e.field} |-> e.value]
    <2>1. down # <<>> /\ ((Patch(v) /\ Says(v)) \/ UNCHANGED shown)
      BY <1>3, Delivered
    <2>2. DOMAIN v = {e.field} /\ v[e.field] = e.value
      OBVIOUS
    <2> HIDE DEF v
    <2>3. CASE Patch(v) /\ Says(v)
      <3>1. shown'[f] = IF f \in DOMAIN v /\ shown[f] # NoData THEN v[f] ELSE shown[f]
        BY <1>1, <2>3, Patched
      <3>2. QED
        BY <1>3, <2>1, <2>2, <3>1 DEF TakesEvent
    <2>4. QED
      BY <2>1, <2>3
  <1>4. ASSUME NEW k \in Keys, FetchDone(k)
        PROVE  shown'[f] = shown[f] \/ TakesFetched(f)
    <2>1. query[k] = "read" /\ shown'[f] = IF f \in Part(k) THEN snap[f] ELSE shown[f]
      BY <1>4, Fetched
    <2>2. QED
      BY <1>4, <2>1, Parts DEF TakesFetched
  <1>5. ASSUME Next, ~Deliver, ~ \E r \in Reqs : Settle(r), ~ \E k \in Keys : FetchDone(k)
        PROVE  shown' = shown
    BY <1>5 DEF Next, Browser, Server, User, World, Enter, FetchRead, Connect, Close, Open, Refocus,
                Drop, Crash, FetchFails, Commit, Refuse, Emit, Fail, Ask, cache
  <1>6. CASE UNCHANGED vars
    BY <1>6 DEF vars, cache
  <1>7. QED
    BY <1>2, <1>3, <1>4, <1>5, <1>6

-------------------------------------------------------------------------------
\* A field that is changed one commit at a time

\* What events and answers may still write into the cache is the committed value; what
\* is shown or has been read for a fetch is not newer.
LatestAt(f) ==
  /\ shown[f] # NoData => shown[f] <= version[f]
  /\ \A r \in Reqs : pc[r] \in Committed /\ f \in Writes(job[r]) => value[r][f] = version[f]
  /\ \A i \in 1 .. Len(down) : down[i].field = f => down[i].value = version[f]
  /\ query[KeyOf(f)] = "read" => snap[f] <= version[f]

Latest == \A f \in Fields \ crowded : LatestAt(f)

\* A fetch brings what the server had read before the latest commit.
TakesOld(f) == TakesFetched(f) /\ snap[f] \in Nat /\ snap[f] < version[f]

\* What the page takes of such a field is the committed value, unless a fetch was read
\* before.
LEMMA TakesLatest ==
  ASSUME TypeOK, Latest, [Next]_vars, NEW f \in Fields \ crowded, shown'[f] # shown[f]
  PROVE  shown'[f] = version[f] \/ TakesOld(f)
  <1>1. LatestAt(f)
    BY DEF Latest
  <1>2. CASE TakesAnswer(f)
    BY <1>1, <1>2 DEF TakesAnswer, LatestAt, Committed
  <1>3. CASE TakesEvent(f)
    <2>1. down \in Seq(Notes) /\ down # <<>> /\ Head(down).field = f /\ shown'[f] = Head(down).value
      BY <1>3 DEF TakesEvent, TypeOK, LinkTypes
    <2>2. 1 \in 1 .. Len(down) /\ Head(down) = down[1]
      BY <2>1
    <2>3. QED
      BY <1>1, <2>1, <2>2 DEF LatestAt
  <1>4. CASE TakesFetched(f)
    <2>1. query[KeyOf(f)] = "read" /\ shown'[f] = snap[f] /\ snap[f] <= version[f]
      BY <1>1, <1>4 DEF TakesFetched, LatestAt
    <2>2. snap[f] \in Nat /\ version[f] \in Nat
      BY <2>1, Values0 DEF TypeOK, CacheTypes, ServerTypes
    <2>3. QED
      BY <1>4, <2>1, <2>2 DEF TakesOld
  <1>5. QED
    BY <1>2, <1>3, <1>4, ShownFrom

LEMMA LatestCommit ==
  ASSUME TypeOK, Latest, NEW r \in Reqs, NEW j \in Jobs, Commit(r, j)
  PROVE  Latest'
  <1>1. /\ Allows(j)
        /\ version' = [f \in Fields |-> IF f \in Writes(j) THEN Following(f, j) ELSE version[f]]
        /\ job' = [job EXCEPT ![r] = j] /\ pc' = [pc EXCEPT ![r] = "committed"]
        /\ value' = [value EXCEPT ![r] = [f \in Writes(j) |-> Following(f, j)]]
        /\ crowded' = crowded \union {f \in Writes(j) : UnderWay(f)}
        /\ UNCHANGED <<down, shown, query, snap>>
    BY DEF Commit, link, cache
  <1>2. ServerTypes /\ CacheTypes /\ LinkTypes
    BY DEF TypeOK
  <1>3. SUFFICES ASSUME NEW f \in Fields, f \notin crowded' PROVE LatestAt(f)'
    BY DEF Latest
  <1>4. LatestAt(f) /\ (f \in Writes(j) => ~UnderWay(f))
    BY <1>1, <1>3 DEF Latest
  <1>5. /\ pc'[r] = "committed" /\ job'[r] = j
        /\ \A g \in Writes(j) : value'[r][g] = Following(g, j)
        /\ \A x \in Reqs \ {r} : pc'[x] = pc[x] /\ job'[x] = job[x] /\ value'[x] = value[x]
        /\ version'[f] = IF f \in Writes(j) THEN Following(f, j) ELSE version[f]
    BY <1>1, <1>2 DEF ServerTypes
  <1>6. CASE f \notin Writes(j)
    BY <1>1, <1>4, <1>5, <1>6 DEF LatestAt
  <1>7. CASE f \in Writes(j)
    <2>1. version[f] \in Nat /\ version'[f] \in Nat /\ version'[f] > version[f]
      BY <1>1, <1>2, <1>5, <1>7, Follows DEF ServerTypes
    <2>2. shown'[f] # NoData => shown'[f] <= version'[f]
      <3>1. shown[f] # NoData => shown[f] \in Nat /\ shown[f] <= version[f]
        BY <1>2, <1>4, Values0 DEF LatestAt, CacheTypes
      <3>2. QED
        BY <1>1, <2>1, <3>1
    <2>3. \A x \in Reqs : pc'[x] \in Committed /\ f \in Writes(job'[x]) => value'[x][f] = version'[f]
      <3>1. \A x \in Reqs \ {r} : ~(pc'[x] \in Committed /\ f \in Writes(job'[x]))
        BY <1>4, <1>5, <1>7 DEF UnderWay, Committed
      <3>2. QED
        BY <1>5, <1>7, <3>1
    <2>4. \A i \in 1 .. Len(down) : down[i].field # f
      BY <1>2, <1>4, <1>7 DEF UnderWay, LinkTypes
    <2>5. query[KeyOf(f)] = "read" => snap[f] <= version'[f]
      <3>1. query[KeyOf(f)] = "read" => snap[f] \in Nat /\ snap[f] <= version[f]
        BY <1>2, <1>4, Values0 DEF LatestAt, CacheTypes
      <3>2. QED
        BY <2>1, <3>1
    <2>6. QED
      BY <1>1, <2>2, <2>3, <2>4, <2>5 DEF LatestAt
  <1>8. QED
    BY <1>6, <1>7

LEMMA LatestStep == TypeOK /\ Latest /\ [Next]_vars => Latest'
  <1> SUFFICES ASSUME TypeOK, Latest, [Next]_vars PROVE Latest'
    OBVIOUS
  <1>1. CASE \E r \in Reqs, j \in Jobs : Commit(r, j)
    BY <1>1, LatestCommit
  <1>2. CASE ~ \E r \in Reqs, j \in Jobs : Commit(r, j)
    <2>1. version' = version /\ crowded' = crowded /\ \A r \in Reqs : KeepsWhatItWrote(r)
      BY <1>2, RequestsStand
    <2>2. SUFFICES ASSUME NEW f \in Fields \ crowded PROVE LatestAt(f)'
      BY <2>1 DEF Latest
    <2>3. LatestAt(f) /\ version[f] \in Nat
      BY DEF Latest, TypeOK, ServerTypes
    <2>4. shown'[f] # NoData => shown'[f] <= version[f]
      BY <2>3, TakesLatest DEF LatestAt, TakesOld, TakesFetched
    <2>5. \A r \in Reqs : pc'[r] \in Committed /\ f \in Writes(job'[r]) => value'[r][f] = version[f]
      BY <2>1, <2>3 DEF LatestAt, KeepsWhatItWrote, Answered, Committed
    <2>6. ASSUME NEW i \in 1 .. Len(down'), down'[i].field = f
          PROVE  down'[i].value = version[f]
      <3>1. CASE \E n \in 1 .. Len(down) : down'[i] = down[n]
        BY <2>3, <2>6, <3>1 DEF LatestAt
      <3>2. ASSUME NEW r \in Reqs, pc[r] = "committed", NEW g \in Writes(job[r]), down'[i] = Event(r, g)
            PROVE  down'[i].value = version[f]
        <4>1. g = f /\ down'[i].value = value[r][f]
          BY <2>6, <3>2 DEF Event
        <4>2. QED
          BY <2>3, <3>2, <4>1 DEF LatestAt, Committed
      <3>3. QED
        BY <3>1, <3>2, DownFrom
    <2>7. query'[KeyOf(f)] = "read" => snap'[f] <= version[f]
      BY <2>3, SnapFrom DEF LatestAt
    <2>8. QED
      BY <2>1, <2>4, <2>5, <2>6, <2>7 DEF LatestAt
  <1>3. QED
    BY <1>1, <1>2

LEMMA LatestInit == Init => Latest
  BY Parts DEF Init, Latest, LatestAt, Committed

\* A field whose changes follow each other, each after the events and answers of the
\* last, goes back on a page only by a fetch that the server had read before the commit
\* that the page shows: whatever event or answer it takes carries the committed value
\* (features/runs/cache.ts, hooks.ts, use-run-socket.ts).
THEOREM NoneGoesBack == Spec => NeverBackwards
  <1> DEFINE Forward == \A f \in Fields \ crowded : shown[f] # NoData =>
               /\ shown'[f] # NoData
               /\ \/ shown'[f] >= shown[f]
                  \/ FetchDone(KeyOf(f)) /\ snap[f] < version[f] /\ shown'[f] = snap[f]
  <1>1. ASSUME TypeOK, Latest, [Next]_vars PROVE Forward
    <2> SUFFICES ASSUME NEW f \in Fields \ crowded, shown[f] # NoData
                 PROVE  /\ shown'[f] # NoData
                        /\ \/ shown'[f] >= shown[f]
                           \/ /\ FetchDone(KeyOf(f)) /\ snap[f] < version[f]
                              /\ shown'[f] = snap[f]
      OBVIOUS
    <2>1. shown[f] \in Nat /\ version[f] \in Nat /\ shown[f] <= version[f]
      BY <1>1, Values0 DEF Latest, LatestAt, TypeOK, ServerTypes, CacheTypes
    <2>2. shown'[f] = shown[f] \/ shown'[f] = version[f] \/ TakesOld(f)
      BY <1>1, TakesLatest
    <2>3. QED
      BY <2>1, <2>2, Values0 DEF TakesOld, TakesFetched
  <1>2. TypeOK /\ Latest /\ [Next]_vars => [Forward]_vars
    BY <1>1
  <1>3. QED
    BY <1>2, InitTypes, TypeStep, LatestInit, LatestStep, PTL DEF Spec, NeverBackwards

-------------------------------------------------------------------------------
\* What the page has done itself

\* Data that is there stays, and what the page takes is data.
LEMMA DataStays ==
  ASSUME TypeOK, [Next]_vars, NEW f \in Fields
  PROVE  /\ shown[f] # NoData \/ TakesFetched(f) => shown'[f] # NoData
         /\ shown'[f] # NoData => shown[f] # NoData \/ TakesFetched(f)
  <1>1. CASE TakesFetched(f)
    BY <1>1, Parts DEF TakesFetched, TypeOK, CacheTypes
  <1>2. CASE TakesAnswer(f)
    <2>1. PICK r \in Reqs : /\ pc[r] = "emitted" /\ f \in Writes(job[r])
                            /\ shown[f] # NoData /\ shown'[f] = value[r][f]
      BY <1>2 DEF TakesAnswer
    <2>2. value[r][f] \in Nat
      BY <2>1, WrittenValues DEF TypeOK, Answered
    <2>3. QED
      BY <2>1, <2>2, NoDataAssumption
  <1>3. CASE TakesEvent(f)
    <2>1. Head(down).value \in Nat
      BY <1>3, Delivered DEF TakesEvent
    <2>2. QED
      BY <1>3, <2>1, NoDataAssumption DEF TakesEvent
  <1>4. CASE shown'[f] = shown[f]
    BY <1>1, <1>4
  <1>5. QED
    BY <1>1, <1>2, <1>3, <1>4, ShownFrom

\* What is asked on the page is asked on one that shows the run.
Asked == \A r \in Mine : pc[r] \in Answered \union {"sent"} => Shows

LEMMA ShowsStays ==
  ASSUME TypeOK, [Next]_vars, Shows
  PROVE  Shows'
  <1>1. \A k \in Keys : \A f \in Part(k) : shown'[f] # NoData
    BY DataStays, Parts DEF Shows, HasData
  <1>2. QED
    BY <1>1 DEF Shows, HasData

LEMMA AskedStep == TypeOK /\ Asked /\ [Next]_vars => Asked'
  <1> SUFFICES ASSUME TypeOK, Asked, [Next]_vars, NEW r \in Mine,
                      pc'[r] \in Answered \union {"sent"}
               PROVE  Shows'
    BY DEF Asked
  <1>1. r \in Reqs
    BY RequestAssumption
  <1>2. CASE \E x \in Reqs, j \in Jobs : Commit(x, j)
    <2>1. PICK x \in Reqs, j \in Jobs : Commit(x, j)
      BY <1>2
    <2>2. Reaches(x, j) /\ pc' = [pc EXCEPT ![x] = "committed"]
      BY <2>1 DEF Commit
    <2>3. pc[r] \in Answered \union {"sent"}
      BY <1>1, <2>2 DEF Reaches, TypeOK, ServerTypes
    <2>4. QED
      BY <2>3, ShowsStays DEF Asked
  <1>3. CASE ~ \E x \in Reqs, j \in Jobs : Commit(x, j)
    <2>1. KeepsWhatItWrote(r)
      BY <1>1, <1>3, RequestsStand
    <2>2. pc[r] \in Answered \union {"sent"} \/ Shows
      BY <2>1 DEF KeepsWhatItWrote, Answered
    <2>3. QED
      BY <2>2, ShowsStays DEF Asked
  <1>4. QED
    BY <1>2, <1>3

\* A record of this page has been answered.
Recorded(r) == pc[r] = "settled" /\ job[r].op = "record"

\* A settled request stays as it is; before, it is settled in this step.
LEMMA SettledFrom ==
  ASSUME TypeOK, [Next]_vars, NEW r \in Reqs, Recorded(r)'
  PROVE  /\ pc[r] \in Answered /\ job'[r] = job[r] /\ value'[r] = value[r] /\ job[r].op = "record"
         /\ Recorded(r) \/ (Settle(r) /\ pc[r] = "emitted")
         /\ crowded \subseteq crowded'
  <1>1. CASE \E x \in Reqs, j \in Jobs : Commit(x, j)
    <2>1. PICK x \in Reqs, j \in Jobs : Commit(x, j)
      BY <1>1
    <2>2. /\ pc' = [pc EXCEPT ![x] = "committed"] /\ job' = [job EXCEPT ![x] = j]
          /\ value' = [value EXCEPT ![x] = [f \in Writes(j) |-> Following(f, j)]]
          /\ crowded \subseteq crowded'
      BY <2>1 DEF Commit
    <2>3. pc'[r] = "settled" /\ x # r
      BY <2>2 DEF Recorded, TypeOK, ServerTypes
    <2>4. pc[r] = "settled" /\ job'[r] = job[r] /\ value'[r] = value[r]
      BY <2>2, <2>3 DEF TypeOK, ServerTypes
    <2>5. QED
      BY <2>2, <2>4 DEF Recorded, Answered
  <1>2. CASE ~ \E x \in Reqs, j \in Jobs : Commit(x, j)
    <2>1. KeepsWhatItWrote(r) /\ crowded' = crowded
      BY <1>2, RequestsStand
    <2>2. QED
      BY <1>2, <2>1 DEF KeepsWhatItWrote, Recorded, Answered, Settle
  <1>3. QED
    BY <1>1, <1>2

\* The answer to a record puts what it wrote into the cache.
LEMMA OwnSettles ==
  ASSUME TypeOK, Asked, NEW r \in Mine, Settle(r), job[r].op = "record"
  PROVE  \A f \in Writes(job[r]) : f \in Fields /\ shown[f] # NoData /\ shown'[f] = value[r][f]
                                   /\ value[r][f] \in Nat
  <1>1. r \in Reqs /\ pc[r] = "emitted" /\ Patch(value[r])
    BY RequestAssumption DEF Settle
  <1>2. /\ DOMAIN value[r] = Writes(job[r]) /\ Says(value[r])
        /\ \A f \in Writes(job[r]) : f \in Fields /\ value[r][f] \in Nat
    BY <1>1, WrittenValues DEF TypeOK, Answered
  <1>3. \A f \in Fields : shown[f] # NoData
    BY <1>1, Parts DEF Asked, Answered, Shows, HasData
  <1>4. \A f \in Fields : shown'[f] = IF f \in DOMAIN value[r] /\ shown[f] # NoData
                                      THEN value[r][f] ELSE shown[f]
    BY <1>1, <1>2, Patched DEF TypeOK
  <1>5. QED
    BY <1>2, <1>3, <1>4

-------------------------------------------------------------------------------
\* Every value the page does not show yet

\* An open page that is connected has joined.
HasJoined == open /\ online => joined

LEMMA JoinedStep == TypeOK /\ HasJoined /\ [Next]_vars => HasJoined'
  <1> SUFFICES ASSUME TypeOK, HasJoined, [Next]_vars PROVE HasJoined'
    OBVIOUS
  <1>1. CASE (\E old \in SUBSET Keys : Open(old)) \/ Close \/ Connect
    <2>1. CASE \E old \in SUBSET Keys : Open(old)
      <3>1. joined' = online /\ online' = online
        BY <2>1 DEF Open
      <3>2. QED
        BY <3>1 DEF HasJoined
    <2>2. CASE Close
      BY <2>2 DEF Close, HasJoined
    <2>3. CASE Connect
      <3>1. joined' = (joined \/ open) /\ open' = open
        BY <2>3, Connected
      <3>2. QED
        BY <3>1 DEF HasJoined
    <2>4. QED
      BY <1>1, <2>1, <2>2, <2>3
  <1>2. CASE Drop \/ Crash
    BY <1>2 DEF Drop, Crash, Cut, HasJoined
  <1>3. ASSUME Next, ~Close, ~Connect, ~ \E old \in SUBSET Keys : Open(old), ~Drop, ~Crash
        PROVE  UNCHANGED <<open, online, joined>>
    BY <1>3 DEF Next, Browser, Server, User, World, Deliver, FetchDone, Enter, FetchRead, Refocus,
                FetchFails, Commit, Refuse, Emit, Settle, Fail, Ask, link
  <1>4. QED
    BY <1>1, <1>2, <1>3 DEF HasJoined, vars, link

\* The committed value of f is on its way.
ComingFrom(r, f) == pc[r] = "committed" /\ f \in Writes(job[r]) /\ value[r][f] = version[f]
ComingDown(f) == \E i \in 1 .. Len(down) : down[i].field = f /\ down[i].value = version[f]
Coming(f) == ComingDown(f) \/ \E r \in Reqs : ComingFrom(r, f)

\* It will be fetched: on the next join, or by a fetch under way.
Refetched(f) ==
  \/ open /\ joined /\ ~online
  \/ query[KeyOf(f)] = "asked"
  \/ query[KeyOf(f)] = "read" /\ snap[f] = version[f]

\* Its loss is noted, with a cause that explains it.
Excuses(l, f) ==
  /\ l.field = f /\ l.value = version[f]
  /\ l.cause = "ignored" => f = "status"
  /\ l.cause = "offline" => Refetched(f)
Noted(f) == \E l \in lost : Excuses(l, f)

\* The page shows an old value, or will once its first fetch is answered.
Stale(f) ==
  \/ shown[f] # NoData /\ shown[f] < version[f]
  \/ shown[f] = NoData /\ query[KeyOf(f)] = "read" /\ snap[f] < version[f]

Accounted == \A f \in Fields \ crowded : Stale(f) => Coming(f) \/ Noted(f)

\* What ends the prospect of a fetch changes the cause of the loss.
Overruled(f) ==
  Close \/ FetchFails(KeyOf(f)) \/ (Connect /\ open /\ joined /\ KeyOf(f) \in Blind)

LEMMA RefetchedStays ==
  ASSUME TypeOK, Latest, [Next]_vars, NEW f \in Fields \ crowded, Refetched(f),
         version'[f] = version[f], shown'[f] # version[f], ~Overruled(f)
  PROVE  Refetched(f)'
  <1> DEFINE k == KeyOf(f)
  <1>1. k \in Keys /\ f \in Part(k) /\ CacheTypes /\ ServerTypes
    BY Parts DEF TypeOK
  <1>3. CASE \E x \in Keys : FetchRead(x)
    <2>1. PICK x \in Keys : FetchRead(x)
      BY <1>3
    <2>2. /\ query[x] = "asked" /\ query' = [query EXCEPT ![x] = "read"]
          /\ snap' = [g \in Fields |-> IF g \in Part(x) THEN version[g] ELSE snap[g]]
          /\ UNCHANGED <<open, joined, online>>
      BY <2>1 DEF FetchRead, link
    <2>3. f \in Part(x) <=> k = x
      BY Parts
    <2>4. QED
      BY <1>1, <2>2, <2>3 DEF Refetched, CacheTypes
  <1>4. ASSUME NEW x \in Keys, FetchDone(x) \/ FetchFails(x)
        PROVE  Refetched(f)'
    <2>1. Fetches([query EXCEPT ![x] = "idle"]) /\ UNCHANGED <<open, joined, online>>
      BY <1>4 DEF FetchDone, FetchFails, link
    <2>2. CASE FetchDone(x) /\ x = k
      <3>1. shown'[f] = snap[f] /\ query[k] = "read"
        BY <1>1, <2>2, Fetched
      <3>2. open /\ joined /\ ~online
        BY <3>1 DEF Refetched
      <3>3. QED
        BY <2>1, <3>2 DEF Refetched
    <2>3. ~(FetchFails(x) /\ x = k)
      BY DEF Overruled
    <2>4. CASE x # k
      <3>1. query'[k] = query[k] /\ (query'[k] = "read" => snap'[f] = snap[f])
        BY <1>1, <2>1, <2>4, Ended
      <3>2. QED
        BY <2>1, <3>1 DEF Refetched
    <2>5. QED
      BY <1>4, <2>2, <2>3, <2>4
  <1>5. ASSUME NEW K, Invalidate(K), UNCHANGED <<open, joined, online>>
        PROVE  Refetched(f)'
    <2>1. (query'[k] = "asked" \/ query'[k] = query[k]) /\ (query'[k] = "read" => snap'[f] = snap[f])
      BY <1>1, <1>5, Invalidated
    <2>2. QED
      BY <1>5, <2>1 DEF Refetched
  <1>6. CASE \E r \in Reqs : Settle(r)
    <2>1. PICK r \in Reqs : Settle(r)
      BY <1>6
    <2>2. job[r] \in Jobs
      BY <1>1 DEF ServerTypes
    <2>3. UNCHANGED <<open, joined, online>> /\ ((\E K : Invalidate(K)) \/ UNCHANGED <<query, snap>>)
      BY <2>1, <2>2, JobsWrite DEF Settle, link
    <2>4. QED
      BY <1>5, <2>3 DEF Refetched
  <1>7. CASE Connect
    <2>1. CASE open /\ joined
      <3>1. Invalidate(Keys) /\ (HasData(k) \/ query[k] = "idle")
        BY <1>1, <1>7, <2>1, Connected DEF Overruled, Blind
      <3>2. query'[k] = "asked"
        BY <1>1, <2>1, <3>1, Invalidated
      <3>3. QED
        BY <3>2 DEF Refetched
    <2>2. CASE ~(open /\ joined)
      <3>1. UNCHANGED <<query, snap>>
        BY <1>7, <2>2, Connected
      <3>2. QED
        BY <2>2, <3>1 DEF Refetched
    <2>3. QED
      BY <2>1, <2>2
  <1>8. CASE \E old \in SUBSET Keys : Open(old)
    <2>1. ~open /\ snap' = snap /\ (query[k] # "idle" => query'[k] = query[k])
      BY <1>1, <1>8 DEF Open
    <2>2. QED
      BY <2>1 DEF Refetched
  <1>9. CASE \E x \in Keys : Refocus(x)
    <2>1. UNCHANGED <<open, joined, online, snap>> /\ (query[k] # "idle" => query'[k] = query[k])
      BY <1>1, <1>9 DEF Refocus, CacheTypes, link
    <2>2. QED
      BY <2>1 DEF Refetched
  <1>10. CASE Crash
    <2>1. online /\ \A x \in Keys : query'[x] = IF query[x] = "idle" THEN "idle" ELSE "asked"
      BY <1>10, Crashed
    <2>2. QED
      BY <1>1, <2>1 DEF Refetched
  <1>11. CASE Drop
    <2>1. online /\ UNCHANGED <<query, snap>>
      BY <1>11 DEF Drop, cache
    <2>2. QED
      BY <2>1 DEF Refetched
  <1>12. ~Close
    BY DEF Overruled
  <1>13. CASE UNCHANGED <<open, joined, online, query, snap>>
    BY <1>13 DEF Refetched
  <1>14. ASSUME Next, ~Connect, ~Drop, ~Crash, ~ \E old \in SUBSET Keys : Open(old),
                ~ \E x \in Keys : FetchRead(x) \/ FetchDone(x) \/ FetchFails(x) \/ Refocus(x),
                ~ \E r \in Reqs : Settle(r)
         PROVE  UNCHANGED <<open, joined, online, query, snap>>
    BY <1>12, <1>14 DEF Next, Browser, Server, User, World, Deliver, Enter, Commit, Refuse, Emit,
                        Fail, Ask, link, cache
  <1>15. CASE UNCHANGED vars
    BY <1>13, <1>15 DEF vars, link, cache
  <1>16. QED
    BY <1>3, <1>4, <1>6, <1>7, <1>8, <1>9, <1>10, <1>11, <1>13, <1>14, <1>15

\* A noted loss stays, is blamed on something that excuses it for good, or is made good.
LEMMA LossKept ==
  ASSUME TypeOK, [Next]_vars, NEW l \in lost
  PROVE  \/ l \in lost' /\ (~Overruled(l.field) \/ l.cause = "preread")
         \/ /\ l.cause # "preread"
            /\ \E m \in lost' : /\ m.field = l.field /\ m.value = l.value
                                /\ m.cause \in {"closed", "failed", "blind"}
         \/ shown'[l.field] \in Nat /\ shown'[l.field] >= l.value
  <1> DEFINE Made == shown'[l.field] \in Nat /\ shown'[l.field] >= l.value
  <1>1. HistoryTypes /\ CacheTypes /\ ServerTypes /\ l \in Losses /\ l.field \in Fields
    BY DEF TypeOK, HistoryTypes, Losses
  <1>2. ASSUME NEW K, NEW why \in {"closed", "failed", "blind"}, KeyOf(l.field) \in K,
               lost' = {Blame(m, K, why) : m \in lost}
        PROVE  \/ l.cause = "preread" /\ l \in lost'
               \/ /\ l.cause # "preread"
                  /\ \E m \in lost' : /\ m.field = l.field /\ m.value = l.value
                                      /\ m.cause \in {"closed", "failed", "blind"}
    <2>1. why \in Causes /\ Blame(l, K, why) \in lost'
      BY <1>2 DEF Causes
    <2>2. CASE l.cause = "preread"
      BY <2>1, <2>2 DEF Blame
    <2>3. CASE l.cause # "preread"
      <3>1. Blame(l, K, why).field = l.field /\ Blame(l, K, why).value = l.value
            /\ Blame(l, K, why).cause = why
        BY <1>1, <1>2, <2>1, <2>3, Blamed
      <3>2. QED
        BY <2>1, <2>3, <3>1
    <2>4. QED
      BY <2>2, <2>3
  <1>3. CASE Overruled(l.field)
    <2>1. CASE Close
      BY <1>1, <1>2, <2>1, Parts DEF Close
    <2>2. CASE FetchFails(KeyOf(l.field))
      BY <1>2, <2>2 DEF FetchFails
    <2>3. CASE Connect /\ open /\ joined /\ KeyOf(l.field) \in Blind
      BY <1>2, <2>3, Connected
    <2>4. QED
      BY <1>3, <2>1, <2>2, <2>3 DEF Overruled
  <1>4. ASSUME NEW K, KeyOf(l.field) \notin K, NEW why, lost' = {Blame(m, K, why) : m \in lost}
        PROVE  l \in lost'
    BY <1>4 DEF Blame
  <1>5. ASSUME NEW v, Says(v), Patch(v)
        PROVE  l \in lost' \/ Made
    <2>1. l \in lost' \/ (/\ l.field \in DOMAIN v /\ shown[l.field] # NoData /\ l.value <= v[l.field])
      BY <1>1, <1>5, Patched
    <2>2. shown'[l.field] = IF l.field \in DOMAIN v /\ shown[l.field] # NoData
                            THEN v[l.field] ELSE shown[l.field]
      BY <1>1, <1>5, Patched
    <2>3. l.value \in Nat /\ (l.field \in DOMAIN v => v[l.field] \in Nat)
      BY <1>1, <1>5 DEF Losses, Says
    <2>4. QED
      BY <2>1, <2>2, <2>3
  <1>6. ASSUME NEW E \in SUBSET Notes, NEW why \in Causes PROVE l \in Lose(E, why)
    BY <1>1, LostMore
  <1>7. ASSUME NEW k \in Keys, FetchFails(k), ~Overruled(l.field) PROVE l \in lost'
    <2>1. KeyOf(l.field) \notin {k}
      BY <1>7 DEF Overruled
    <2>2. QED
      BY <1>4, <1>7, <2>1 DEF FetchFails
  <1>8. ASSUME Connect, ~Overruled(l.field) PROVE l \in lost'
    BY <1>4, <1>8, Connected DEF Overruled
  <1>9. CASE Deliver
    <2> DEFINE e == Head(down)
               v == [f \in {e.field} |-> e.value]
               why == IF open THEN "ignored" ELSE "closed"
    <2>1. \/ Patch(v) /\ Says(v)
          \/ lost' = Lose({e}, why) /\ {e} \in SUBSET Notes /\ why \in Causes
      BY <1>9, Delivered
    <2> HIDE DEF e, v, why
    <2>2. l \in lost' \/ Made
      BY <1>5, <1>6, <2>1
    <2>3. QED
      BY <1>3, <2>2
  <1>10. ASSUME NEW r \in Reqs, Settle(r)
         PROVE  l \in lost' \/ Made
    <2>1. job[r] \in Jobs /\ Says(value[r])
      BY <1>1, <1>10, WrittenValues DEF Settle, Answered
    <2>2. Patch(value[r]) \/ lost' = lost
      BY <1>10, <2>1, JobsWrite DEF Settle
    <2>3. QED
      BY <1>5, <2>1, <2>2
  <1>11. ASSUME NEW r \in Reqs, Emit(r) \/ Fail(r)
         PROVE  l \in lost'
    <2>1. pc[r] \in Answered
      BY <1>11 DEF Emit, Fail, Answered
    <2> DEFINE E == {Event(r, f) : f \in Writes(job[r])}
    <2>2. E \in SUBSET Notes /\ "unsent" \in Causes
      BY <1>1, <2>1, EventTypes DEF Causes
    <2>3. lost' = lost \/ lost' = Lose(E, Cause) \/ lost' = Lose(E, "unsent")
      BY <1>11 DEF Emit, Fail
    <2> HIDE DEF E
    <2>4. QED
      BY <1>6, <2>2, <2>3, CauseIs
  <1>12. CASE Drop \/ Crash
    <2>1. PICK L \in SUBSET Losses : Cut(L) /\ (L = lost \/ (Crash /\ L = Lose(Unsent, CrashCause)))
      BY <1>1, <1>12, Crashed DEF Drop, HistoryTypes
    <2>2. l \in L
      BY <1>6, <2>1, Crashed
    <2>3. l \in lost'
      BY <2>1, <2>2, WasCut
    <2>4. QED
      BY <1>3, <2>3
  <1>13. ASSUME NEW k \in Keys, FetchDone(k)
         PROVE  l \in lost' \/ Made
    <2>1. l \in lost' \/ (l.field \in Part(k) /\ l.value <= snap[l.field])
      BY <1>13, Fetched
    <2>2. l.field \in Part(k) => shown'[l.field] = snap[l.field] /\ snap[l.field] \in Nat
      BY <1>1, <1>13, Fetched
    <2>3. QED
      BY <2>1, <2>2
  <1>14. CASE UNCHANGED lost
    BY <1>3, <1>14
  <1>15. ASSUME Next, ~Close, ~Connect, ~Deliver, ~Drop, ~Crash,
                ~ \E k \in Keys : FetchFails(k) \/ FetchDone(k),
                ~ \E r \in Reqs : Settle(r) \/ Emit(r) \/ Fail(r)
         PROVE  UNCHANGED lost
    BY <1>15 DEF Next, Browser, Server, User, World, Enter, FetchRead, Open, Refocus, Commit,
                 Refuse, Ask, history
  <1>16. ASSUME ~Overruled(l.field) PROVE ~Close
    BY <1>16 DEF Overruled
  <1>17. QED
    BY <1>3, <1>7, <1>8, <1>9, <1>10, <1>11, <1>12, <1>13, <1>14, <1>15, <1>16 DEF vars, history

\* What the page has recorded it shows, or its being taken back is noted.
LEMMA OwnRecordStep ==
  ASSUME TypeOK, Latest, Asked, OwnRecordIsShown, [Next]_vars
  PROVE  OwnRecordIsShown'
  <1> SUFFICES ASSUME NEW r \in Mine, Recorded(r)', NEW f \in Writes(job[r]'), f \notin crowded'
               PROVE  /\ shown'[f] # NoData
                      /\ \/ shown'[f] >= value'[r][f]
                         \/ \E l \in lost' : /\ l.field = f /\ l.cause = "preread"
                                             /\ l.value >= value'[r][f]
    BY DEF OwnRecordIsShown, Recorded
  <1>1. r \in Reqs
    BY RequestAssumption
  <1>2. /\ pc[r] \in Answered /\ f \in Writes(job[r]) /\ value'[r] = value[r] /\ f \notin crowded
        /\ Recorded(r) \/ (Settle(r) /\ job[r].op = "record")
    BY <1>1, SettledFrom
  <1>3. f \in Fields /\ value[r][f] \in Nat
    BY <1>1, <1>2, WrittenValues DEF TypeOK
  <1>4. CASE Recorded(r)
    <2>1. /\ shown[f] # NoData
          /\ \/ shown[f] >= value[r][f]
             \/ \E l \in lost : /\ l.field = f /\ l.cause = "preread"
                                /\ l.value >= value[r][f]
      BY <1>2, <1>4 DEF OwnRecordIsShown, Recorded
    <2>2. shown[f] \in Nat /\ version[f] \in Nat /\ shown[f] <= version[f]
      BY <1>2, <1>3, <2>1, Values0 DEF Latest, LatestAt, TypeOK, ServerTypes, CacheTypes
    <2>3. shown'[f] = shown[f] \/ shown'[f] = version[f] \/ TakesOld(f)
      BY <1>2, <1>3, TakesLatest
    <2>4. shown'[f] # NoData /\ shown'[f] \in Nat
      BY <2>2, <2>3, NoDataAssumption DEF TakesOld, TakesFetched
    <2>5. CASE shown[f] >= value[r][f]
      <3>1. CASE TakesOld(f) /\ snap[f] < shown[f]
        <4>1. /\ KeyOf(f) \in Keys /\ f \in Part(KeyOf(f)) /\ FetchDone(KeyOf(f))
          BY <1>3, <3>1, Parts DEF TakesOld, TakesFetched
        <4>2. PICK l \in lost' : l = [field |-> f, value |-> shown[f], cause |-> "preread"]
          BY <2>1, <3>1, <4>1, Fetched
        <4>3. l.field = f /\ l.cause = "preread" /\ l.value >= value[r][f]
          BY <2>5, <4>2
        <4>4. QED
          BY <1>2, <2>4, <4>3
      <3>2. CASE ~(TakesOld(f) /\ snap[f] < shown[f])
        <4>1. shown'[f] >= shown[f]
          BY <2>2, <2>3, <3>2 DEF TakesOld, TakesFetched
        <4>2. QED
          BY <1>2, <1>3, <2>2, <2>4, <2>5, <4>1
      <3>3. QED
        BY <3>1, <3>2
    <2>6. CASE \E l \in lost : /\ l.field = f /\ l.cause = "preread"
                               /\ l.value >= value[r][f]
      <3>1. PICK l \in lost : l.field = f /\ l.cause = "preread" /\ l.value >= value[r][f]
        BY <2>6
      <3>2. l \in lost' \/ (shown'[f] \in Nat /\ shown'[f] >= l.value)
        BY <3>1, LossKept
      <3>3. l.value \in Nat
        BY DEF TypeOK, HistoryTypes, Losses
      <3>4. QED
        BY <1>2, <1>3, <2>4, <3>1, <3>2, <3>3
    <2>7. QED
      BY <2>1, <2>5, <2>6
  <1>5. CASE Settle(r) /\ job[r].op = "record"
    <2>1. shown'[f] = value[r][f]
      BY <1>2, <1>5, OwnSettles
    <2>2. QED
      BY <1>2, <1>3, <2>1, NoDataAssumption
  <1>6. QED
    BY <1>2, <1>4, <1>5

\* What goes by is noted with its cause.
LEMMA GoesBy ==
  ASSUME TypeOK, NEW f \in Fields, version'[f] = version[f], Behind(f, version[f]),
         NEW E \in SUBSET Notes, NEW why \in Causes, NEW e \in E,
         e.field = f, e.value = version[f], Lose(E, why) \subseteq lost',
         why = "ignored" => f = "status", why = "offline" => Refetched(f)'
  PROVE  Noted(f)'
  <1> DEFINE l == [field |-> e.field, value |-> e.value, cause |-> why]
  <1>1. l \in Lose(E, why)
    BY LostMore DEF TypeOK
  <1>2. l \in lost' /\ l.field = f /\ l.value = version'[f] /\ l.cause = why
    BY <1>1
  <1> HIDE DEF l
  <1>3. QED
    BY <1>2 DEF Noted, Excuses

\* Once the connection is gone, an open page that had joined fetches on the next join.
LEMMA CutExcuses ==
  ASSUME TypeOK, HasJoined, Drop \/ Crash, NEW f \in Fields
  PROVE  /\ open => Refetched(f)'
         /\ \E L \in SUBSET Losses : Cut(L) /\ (Crash => L = Lose(Unsent, CrashCause))
         /\ CrashCause # "ignored" /\ (Crash /\ CrashCause = "offline" => Refetched(f)')
  <1>1. online /\ open' = open /\ joined' = joined
    BY Crashed DEF Drop
  <1>2. lost \in SUBSET Losses
    BY DEF TypeOK, HistoryTypes
  <1>3. \E L \in SUBSET Losses : Cut(L) /\ (Crash => L = Lose(Unsent, CrashCause))
    BY <1>2, Crashed DEF Drop
  <1>4. ~online'
    BY <1>3, WasCut
  <1>5. open => Refetched(f)'
    BY <1>1, <1>4 DEF HasJoined, Refetched
  <1>6. CrashCause # "ignored" /\ (CrashCause = "offline" => open)
    BY <1>1 DEF CrashCause, Cause
  <1>7. QED
    BY <1>3, <1>5, <1>6

LEMMA DownStays ==
  ASSUME TypeOK, HasJoined, [Next]_vars, NEW f \in Fields, ComingDown(f),
         version'[f] = version[f], Behind(f, version[f]), shown'[f] # version[f]
  PROVE  ComingDown(f)' \/ Noted(f)'
  <1>1. PICK i \in 1 .. Len(down) : down[i].field = f /\ down[i].value = version[f]
    BY DEF ComingDown
  <1>2. down \in Seq(Notes) /\ CacheTypes /\ HistoryTypes /\ version[f] \in Nat
    BY DEF TypeOK, LinkTypes, ServerTypes
  <1>3. CASE down' = down
    BY <1>1, <1>3 DEF ComingDown
  <1>4. CASE Deliver
    <2>1. down # <<>> /\ down' = Tail(down)
      BY <1>4, Delivered
    <2>2. CASE i # 1
      <3>1. i - 1 \in 1 .. Len(down') /\ down'[i - 1] = down[i]
        BY <1>2, <2>1, <2>2
      <3>2. QED
        BY <1>1, <3>1 DEF ComingDown
    <2>3. CASE i = 1
      <3> DEFINE e == Head(down)
                 v == [x \in {e.field} |-> e.value]
                 why == IF open THEN "ignored" ELSE "closed"
      <3>1. e = down[1]
        BY <1>2, <2>1
      <3>2. e.field = f /\ e.value = version[f]
        BY <1>1, <2>3, <3>1
      <3>3. DOMAIN v = {f} /\ v[f] = version[f] /\ why # "offline" /\ (why = "ignored" => open)
        BY <3>2
      <3>4. \/ open /\ e.field \in Handled /\ Patch(v) /\ Says(v)
            \/ /\ ~(open /\ e.field \in Handled)
               /\ lost' = Lose({e}, why) /\ {e} \in SUBSET Notes /\ why \in Causes
        BY <1>4, Delivered
      <3> HIDE DEF e, v, why
      <3>5. CASE Patch(v) /\ Says(v)
        <4>1. shown[f] # NoData => shown'[f] = version[f]
          BY <1>2, <3>3, <3>5, Patched
        <4>2. PICK l \in lost' : l = [field |-> f, value |-> version[f], cause |-> "early"]
          BY <1>2, <3>3, <3>5, <4>1, Patched
        <4>3. l.field = f /\ l.value = version'[f] /\ l.cause = "early"
          BY <4>2
        <4>4. QED
          BY <4>3 DEF Noted, Excuses
      <3>6. CASE /\ ~(open /\ e.field \in Handled)
                 /\ lost' = Lose({e}, why) /\ {e} \in SUBSET Notes /\ why \in Causes
        <4>1. why = "ignored" => f = "status"
          BY <3>2, <3>3, <3>6 DEF Handled
        <4>2. e \in {e}
          OBVIOUS
        <4>3. QED
          BY <1>2, <3>2, <3>3, <3>6, <4>1, <4>2, GoesBy
      <3>7. QED
        BY <3>4, <3>5, <3>6
    <2>4. QED
      BY <2>2, <2>3
  <1>5. CASE \E r \in Reqs : Emit(r)
    <2>1. PICK r \in Reqs : Emit(r)
      BY <1>5
    <2>2. pc[r] = "committed" /\ (down' = down \/ down' = down \o EventsOf(r))
      BY <2>1 DEF Emit
    <2>3. PICK E \in Seq(Notes) : E = EventsOf(r)
      BY <2>2, EventTypes DEF TypeOK, Answered
    <2>4. CASE down' = down \o E
      <3>1. i \in 1 .. Len(down') /\ down'[i] = down[i]
        BY <1>2, <2>4
      <3>2. QED
        BY <1>1, <3>1 DEF ComingDown
    <2>5. QED
      BY <1>3, <2>2, <2>3, <2>4
  <1>6. CASE Drop \/ Crash
    <2> DEFINE E == {down[n] : n \in DOMAIN down}
               why == IF open THEN "offline" ELSE "closed"
    <2>1. PICK L \in SUBSET Losses : Cut(L)
      BY <1>6, CutExcuses
    <2>2. Lose(E, why) \subseteq lost' /\ E \in SUBSET Notes /\ why \in Causes
      BY <2>1, WasCut
    <2>3. why # "ignored" /\ (why = "offline" => Refetched(f)')
      BY <1>6, CutExcuses
    <2>4. down[i] \in E
      BY <1>2
    <2> HIDE DEF E, why
    <2>5. QED
      BY <1>1, <1>2, <2>2, <2>3, <2>4, GoesBy
  <1>7. ASSUME Next, ~Deliver, ~Drop, ~Crash, ~ \E r \in Reqs : Emit(r) PROVE down' = down
    BY <1>7 DEF Next, Browser, Server, User, World, FetchDone, Enter, FetchRead, Connect, Close,
                Open, Refocus, FetchFails, Commit, Refuse, Settle, Fail, Ask, link
  <1>8. QED
    BY <1>3, <1>4, <1>5, <1>6, <1>7 DEF vars, link

\* The event of a request that has committed.
LEMMA EventOfField ==
  ASSUME TypeOK, NEW r \in Reqs, NEW f \in Fields, ComingFrom(r, f)
  PROVE  /\ {Event(r, g) : g \in Writes(job[r])} \in SUBSET Notes
         /\ Event(r, f) \in {Event(r, g) : g \in Writes(job[r])}
         /\ Event(r, f).field = f /\ Event(r, f).value = version[f]
         /\ EventsOf(r) \in Seq(Notes)
         /\ \E i \in 1 .. Len(EventsOf(r)) : EventsOf(r)[i] = Event(r, f)
  <1>1. pc[r] \in Answered /\ f \in Writes(job[r]) /\ value[r][f] = version[f]
    BY DEF ComingFrom, Answered
  <1>2. QED
    BY <1>1, EventTypes DEF TypeOK

LEMMA RequestStays ==
  ASSUME TypeOK, HasJoined, [Next]_vars, NEW r \in Reqs, NEW f \in Fields, ComingFrom(r, f),
         version'[f] = version[f], Behind(f, version[f])
  PROVE  ComingFrom(r, f)' \/ ComingDown(f)' \/ Noted(f)'
  <1>1. /\ pc[r] = "committed" /\ ServerTypes /\ down \in Seq(Notes)
        /\ HistoryTypes
    BY DEF ComingFrom, TypeOK, LinkTypes
  <1> DEFINE E == {Event(r, g) : g \in Writes(job[r])}
  <1>2. /\ E \in SUBSET Notes /\ Event(r, f) \in E
        /\ Event(r, f).field = f /\ Event(r, f).value = version[f]
        /\ EventsOf(r) \in Seq(Notes)
        /\ \E i \in 1 .. Len(EventsOf(r)) : EventsOf(r)[i] = Event(r, f)
    BY EventOfField
  <1>3. ASSUME pc'[r] = pc[r], job'[r] = job[r], value'[r] = value[r] PROVE ComingFrom(r, f)'
    BY <1>3 DEF ComingFrom
  <1>4. ASSUME NEW R, Finish(R), r \notin R PROVE ComingFrom(r, f)'
    BY <1>1, <1>3, <1>4, Finished
  <1>5. CASE Emit(r)
    <2>1. CASE inRoom
      <3>1. PICK S \in Seq(Notes) : S = EventsOf(r)
        BY <1>2
      <3>2. PICK i \in 1 .. Len(S) : S[i] = Event(r, f)
        BY <1>2, <3>1
      <3>3. down' = down \o S
        BY <1>5, <2>1, <3>1 DEF Emit
      <3>4. Len(down) + i \in 1 .. Len(down') /\ down'[Len(down) + i] = S[i]
        BY <1>1, <3>3
      <3>5. QED
        BY <1>2, <3>2, <3>4 DEF ComingDown
    <2>2. CASE ~inRoom
      <3>1. lost' = Lose(E, Cause) /\ UNCHANGED <<open, joined, online>>
        BY <1>5, <2>2 DEF Emit
      <3>2. Cause # "ignored" /\ (Cause = "offline" => Refetched(f)')
        BY <3>1 DEF Cause, Refetched
      <3> HIDE DEF E
      <3>3. QED
        BY <1>1, <1>2, <3>1, <3>2, CauseIs, GoesBy
    <2>3. QED
      BY <2>1, <2>2
  <1>6. CASE Fail(r)
    <2>1. lost' = Lose(E, "unsent") /\ "unsent" \in Causes
      BY <1>1, <1>6 DEF Fail, Causes
    <2> HIDE DEF E
    <2>2. QED
      BY <1>1, <1>2, <2>1, GoesBy
  <1>7. CASE Crash
    <2>1. PICK L \in SUBSET Losses : Cut(L) /\ L = Lose(Unsent, CrashCause)
      BY <1>7, CutExcuses
    <2>2. Lose(Unsent, CrashCause) \subseteq lost' /\ Unsent \in SUBSET Notes /\ CrashCause \in Causes
      BY <1>7, <2>1, WasCut, Crashed
    <2>3. Event(r, f) \in Unsent
      BY <1>1, <1>2 DEF Unsent
    <2>4. CrashCause # "ignored" /\ (CrashCause = "offline" => Refetched(f)')
      BY <1>7, CutExcuses
    <2>5. QED
      BY <1>1, <1>2, <2>2, <2>3, <2>4, GoesBy
  <1>8. ASSUME NEW x \in Reqs, NEW j \in Jobs, Commit(x, j) \/ Ask(x, j)
        PROVE  ComingFrom(r, f)'
    <2>1. pc[x] \in {"sent", "idle"}
      BY <1>8 DEF Commit, Ask, Reaches
    <2>2. pc'[r] = pc[r] /\ job'[r] = job[r] /\ value'[r] = value[r]
      BY <1>1, <1>8, <2>1 DEF Commit, Ask, ServerTypes
    <2>3. QED
      BY <1>3, <2>2
  <1>9. ASSUME NEW x \in Reqs, Refuse(x) \/ Settle(x) \/ (x # r /\ (Emit(x) \/ Fail(x)))
        PROVE  ComingFrom(r, f)'
    <2>1. x # r
      BY <1>1, <1>9 DEF Refuse, Settle
    <2>2. CASE Finish({x})
      BY <1>4, <2>1, <2>2
    <2>3. CASE /\ pc' = [pc EXCEPT ![x] = "emitted"] \/ pc' = [pc EXCEPT ![x] = "settled"]
               /\ UNCHANGED <<job, value>>
      <3>1. pc'[r] = pc[r]
        BY <1>1, <2>1, <2>3 DEF ServerTypes
      <3>2. QED
        BY <1>3, <2>3, <3>1
    <2>4. QED
      BY <1>9, <2>2, <2>3 DEF Refuse, Settle, Emit, Fail
  <1>10. ASSUME Next, ~Crash, ~ \E x \in Reqs : Refuse(x) \/ Emit(x) \/ Settle(x) \/ Fail(x),
                ~ \E x \in Reqs, j \in Jobs : Commit(x, j) \/ Ask(x, j)
         PROVE  UNCHANGED <<pc, job, value>>
    BY <1>10 DEF Next, Browser, Server, User, World, Deliver, FetchDone, Enter, FetchRead, Connect,
                 Close, Open, Refocus, Drop, FetchFails, server
  <1>11. CASE UNCHANGED vars
    BY <1>3, <1>11 DEF vars, server
  <1>12. QED
    BY <1>3, <1>5, <1>6, <1>7, <1>8, <1>9, <1>10, <1>11

LEMMA NotedStays ==
  ASSUME TypeOK, Latest, [Next]_vars, NEW f \in Fields \ crowded, Noted(f),
         version'[f] = version[f], ~(shown'[f] \in Nat /\ shown'[f] >= version[f])
  PROVE  Noted(f)'
  <1>1. PICK l \in lost : Excuses(l, f)
    BY DEF Noted
  <1>2. l.field = f /\ l.value = version[f] /\ version[f] \in Nat
    BY <1>1 DEF Excuses, TypeOK, ServerTypes
  <1>3. CASE l \in lost' /\ (~Overruled(f) \/ l.cause = "preread")
    <2>1. l.cause = "offline" => Refetched(f)'
      <3>1. shown'[f] # version[f]
        BY <1>2
      <3>2. QED
        BY <1>1, <1>2, <1>3, <3>1, RefetchedStays DEF Excuses
    <2>2. QED
      BY <1>1, <1>2, <1>3, <2>1 DEF Noted, Excuses
  <1>4. CASE \E m \in lost' : /\ m.field = f /\ m.value = version[f]
                              /\ m.cause \in {"closed", "failed", "blind"}
    BY <1>4 DEF Noted, Excuses
  <1>5. QED
    BY <1>2, <1>3, <1>4, LossKept

LEMMA AccountedStep ==
  ASSUME TypeOK, Latest, HasJoined, Accounted, [Next]_vars
  PROVE  Accounted'
  <1>1. SUFFICES ASSUME NEW f \in Fields, f \notin crowded', Stale(f)'
                 PROVE  Coming(f)' \/ Noted(f)'
    BY DEF Accounted
  <1>2. ASSUME version'[f] = version[f], f \notin crowded
        PROVE  Coming(f)' \/ Noted(f)'
    <2>1. /\ version[f] \in Nat /\ shown'[f] # version[f]
          /\ ~(shown'[f] \in Nat /\ shown'[f] >= version[f])
      <3>1. shown'[f] = NoData \/ shown'[f] < version[f]
        BY <1>1, <1>2 DEF Stale
      <3>2. version[f] \in Nat
        BY DEF TypeOK, ServerTypes
      <3>3. QED
        BY <3>1, <3>2, NoDataAssumption
    <2>2. CASE shown[f] = version[f]
      <3>1. TakesOld(f) /\ shown[f] \in Nat /\ shown[f] # NoData
        BY <1>2, <2>1, <2>2, TakesLatest, NoDataAssumption
      <3>2. /\ KeyOf(f) \in Keys /\ f \in Part(KeyOf(f)) /\ FetchDone(KeyOf(f))
            /\ snap[f] < shown[f]
        BY <2>2, <3>1, Parts DEF TakesOld, TakesFetched
      <3>3. PICK l \in lost' : l = [field |-> f, value |-> shown[f], cause |-> "preread"]
        BY <3>1, <3>2, Fetched
      <3>4. l.field = f /\ l.value = version'[f] /\ l.cause = "preread"
        BY <1>2, <2>2, <3>3
      <3>5. QED
        BY <3>4 DEF Noted, Excuses
    <2>3. CASE shown[f] # version[f]
      <3>1. Stale(f) /\ Behind(f, version[f])
        <4>1. CASE shown[f] # NoData
          <5>1. shown[f] \in Nat /\ shown[f] <= version[f]
            BY <1>2, <4>1, Values0 DEF Latest, LatestAt, TypeOK, CacheTypes
          <5>2. QED
            BY <2>1, <2>3, <4>1, <5>1 DEF Stale, Behind
        <4>2. CASE shown[f] = NoData /\ shown'[f] # NoData
          BY <1>2, <2>1, <4>2, TakesLatest DEF Stale, Behind, TakesOld, TakesFetched
        <4>3. CASE shown[f] = NoData /\ shown'[f] = NoData
          <5>1. query'[KeyOf(f)] = "read" /\ snap'[f] < version[f]
            BY <1>1, <1>2, <4>3 DEF Stale
          <5>2. query[KeyOf(f)] = "read" /\ snap'[f] = snap[f]
            BY <2>1, <5>1, SnapFrom
          <5>3. QED
            BY <4>3, <5>1, <5>2 DEF Stale, Behind
        <4>4. QED
          BY <4>1, <4>2, <4>3
      <3>2. Coming(f) \/ Noted(f)
        BY <1>2, <3>1 DEF Accounted
      <3>3. CASE Noted(f)
        BY <1>2, <2>1, <3>3, NotedStays
      <3>4. CASE ComingDown(f)
        BY <1>2, <2>1, <3>1, <3>4, DownStays DEF Coming
      <3>5. CASE \E r \in Reqs : ComingFrom(r, f)
        <4>1. PICK r \in Reqs : ComingFrom(r, f)
          BY <3>5
        <4>2. ComingFrom(r, f)' \/ ComingDown(f)' \/ Noted(f)'
          BY <1>2, <3>1, <4>1, RequestStays
        <4>3. QED
          BY <4>2 DEF Coming
      <3>6. QED
        BY <3>2, <3>3, <3>4, <3>5 DEF Coming
    <2>4. QED
      BY <2>2, <2>3
  <1>3. CASE \E r \in Reqs, j \in Jobs : Commit(r, j)
    <2>1. PICK r \in Reqs, j \in Jobs : Commit(r, j)
      BY <1>3
    <2>2. /\ version' = [g \in Fields |-> IF g \in Writes(j) THEN Following(g, j) ELSE version[g]]
          /\ job' = [job EXCEPT ![r] = j] /\ pc' = [pc EXCEPT ![r] = "committed"]
          /\ value' = [value EXCEPT ![r] = [g \in Writes(j) |-> Following(g, j)]]
          /\ crowded \subseteq crowded'
      BY <2>1 DEF Commit
    <2>3. CASE f \in Writes(j)
      <3>1. pc'[r] = "committed" /\ job'[r] = j /\ value'[r][f] = Following(f, j)
        BY <2>2, <2>3 DEF TypeOK, ServerTypes
      <3>2. version'[f] = Following(f, j)
        BY <2>2, <2>3
      <3>3. ComingFrom(r, f)'
        BY <2>3, <3>1, <3>2 DEF ComingFrom
      <3>4. QED
        BY <3>3 DEF Coming
    <2>4. CASE f \notin Writes(j)
      BY <1>1, <1>2, <2>2, <2>4
    <2>5. QED
      BY <2>3, <2>4
  <1>4. CASE ~ \E r \in Reqs, j \in Jobs : Commit(r, j)
    BY <1>1, <1>2, <1>4, RequestsStand
  <1>5. QED
    BY <1>3, <1>4

-------------------------------------------------------------------------------
\* The run page

PageInv == /\ TypeOK /\ Latest /\ HasJoined /\ Accounted
           /\ Asked /\ OwnRecordIsShown

LEMMA PageInit == Init => PageInv
  <1> SUFFICES ASSUME Init PROVE PageInv
    OBVIOUS
  <1>0. HasJoined /\ \A f \in Fields : ~Stale(f)
    BY Parts DEF Init, HasJoined, Stale
  <1>1. HasJoined /\ Accounted
    BY <1>0 DEF Accounted
  <1>2. \A r \in Mine : r \in Reqs /\ pc[r] = "idle"
    BY RequestAssumption DEF Init
  <1>3. Asked /\ OwnRecordIsShown
    BY <1>2 DEF Asked, OwnRecordIsShown, Answered
  <1>4. QED
    BY <1>1, <1>3, InitTypes, LatestInit DEF PageInv

LEMMA PageStep == PageInv /\ [Next]_vars => PageInv'
  BY TypeStep, LatestStep, JoinedStep, AccountedStep, AskedStep, OwnRecordStep DEF PageInv

\* Who has recorded a result and got the answer sees it or what came after it, case and
\* counters, whatever became of its events, unless others changed the field so that an
\* older event or answer was still under way, or a fetch read before the commit took it
\* off the screen (useRecordResult and patchRunCaseResult, features/runs).
THEOREM RecorderSeesRecord == Spec => []OwnRecordIsShown
  <1>1. PageInv => OwnRecordIsShown
    BY DEF PageInv
  <1>2. QED
    BY <1>1, PageInit, PageStep, PTL DEF Spec

\* Once things settle, an open page shows what is committed, except a field whose latest
\* value came by when the page could not take it or was taken back by a fetch read
\* before, or which changed while an older event or answer was under way; what was lost
\* with the connection is made good by the fetch on the next join (use-run-socket.ts,
\* features/runs/cache.ts and hooks.ts).
THEOREM PageComesToShow == Spec => []PageShowsRun
  <1>1. ASSUME PageInv PROVE PageShowsRun
    <2>1. SUFFICES ASSUME Quiet, NEW f \in Fields, shown[f] # NoData, shown[f] # version[f], f \notin crowded
                   PROVE  \E l \in lost : /\ l.field = f /\ l.value = version[f] /\ l.cause # "offline"
                                          /\ l.cause = "ignored" => f = "status"
      BY DEF PageShowsRun
    <2>2. TypeOK /\ Latest /\ Accounted
      BY <1>1 DEF PageInv
    <2>3. shown[f] \in Nat /\ version[f] \in Nat /\ shown[f] <= version[f]
      BY <2>1, <2>2, Values0 DEF Latest, LatestAt, TypeOK, ServerTypes, CacheTypes
    <2>4. Coming(f) \/ Noted(f)
      BY <2>1, <2>2, <2>3 DEF Accounted, Stale
    <2>5. ~Coming(f)
      BY <2>1 DEF Quiet, Coming, ComingDown, ComingFrom
    <2>6. ~Refetched(f)
      BY <2>1, Parts DEF Quiet, Refetched
    <2>7. QED
      BY <2>4, <2>5, <2>6 DEF Noted, Excuses
  <1>2. QED
    BY <1>1, PageInit, PageStep, PTL DEF Spec
===============================================================================
