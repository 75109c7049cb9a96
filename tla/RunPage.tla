-------------------------------- MODULE RunPage --------------------------------
(***************************************************************************)
(* An open run page: what its query cache shows of the run while requests  *)
(* of this page and of others commit, their events and answers arrive in   *)
(* any order, queries are fetched again, and the connection comes and goes.*)
(* Pages only meet at the server, so one page is modelled; requests        *)
(* outside Mine come from anywhere else.                                   *)
(*                                                                         *)
(* The value of a field of the run is the number of changes committed to   *)
(* it; of the status it is the step it has reached: 0 planned, 1 in        *)
(* progress, 2 completed or aborted.                                       *)
(***************************************************************************)
EXTENDS Integers, Sequences, FiniteSets

CONSTANTS Reqs,      \* requests that change the run, each made once
          Mine,      \* those made on this page
          Cases,     \* the cases of the run
          NoData,    \* what a query shows before its first answer
          Budget     \* bound: visits, disconnections and failures taken together

ASSUME RequestAssumption == Mine \subseteq Reqs
ASSUME NoDataAssumption == NoData \notin Nat
ASSUME CasesAssumption == Cases \intersect {"counters", "status", "assignees"} = {}
ASSUME BudgetAssumption == Budget \in Nat

VARIABLES
  version,   \* committed value of each field
  pc,        \* where a request is: idle, sent, committed, emitted, settled, done
  job,       \* what it asks for
  value,     \* values of the fields it wrote, as of its commit
  open,      \* the page is mounted
  joined,    \* hasJoinedOnceRef
  online,    \* the socket is connected
  checking,  \* run:join messages sent whose check (assertReadable) is not over
  inRoom,    \* the socket is in the room of the run
  down,      \* events on their way to the page
  shown,     \* the cached fields
  fresh,     \* queries whose data has not been invalidated
  query,     \* the fetch of a query: idle, asked, or read by the server
  snap,      \* what the server read for it, NoData for a query not in "read"
  budget,    \* of visits, disconnections and failures
  lost,      \* history: values that came by when the page could not take them
  crowded    \* history: fields changed while an older event or answer was under way

server == <<version, pc, job, value>>
link == <<online, checking, inRoom, down>>
cache == <<shown, fresh, query, snap>>
history == <<lost, crowded>>
vars == <<server, open, joined, link, cache, budget, history>>

Detail == {"counters", "status", "assignees"}
Fields == Cases \union Detail
Keys == {"detail", "cases"}
Part(k) == IF k = "detail" THEN Detail ELSE Cases
KeyOf(f) == IF f \in Detail THEN "detail" ELSE "cases"

Jobs == [op : {"record"}, case : Cases] \union [op : {"status"}, next : {1, 2}]
          \union {[op |-> "assign"]}

Writes(j) == CASE j.op = "record" -> {j.case, "counters"}
               [] j.op = "status" -> {"status"}
               [] j.op = "assign" -> {"assignees"}

HasData(k) == \A f \in Part(k) : shown[f] # NoData
Shows == \A k \in Keys : HasData(k)

Behind(f, v) == shown[f] = NoData \/ shown[f] < v

\* Why an event that goes by now does not reach the page.
Cause == CASE ~open -> "closed"
           [] open /\ ~online /\ joined -> "offline"
           [] OTHER -> "entering"

Lose(E, why) ==
  lost \union {[field |-> e.field, value |-> e.value, cause |-> why] :
                 e \in {d \in E : Behind(d.field, d.value)}}

Blame(l, K, why) ==
  IF KeyOf(l.field) \in K /\ l.cause # "preread" THEN [l EXCEPT !.cause = why] ELSE l

-------------------------------------------------------------------------------
\* The cache

\* The cache takes the values v, a function on some fields; what was lost but
\* is not newer no longer matters.
Take(v, L) ==
  /\ shown' = [f \in Fields |-> IF f \in DOMAIN v THEN v[f] ELSE shown[f]]
  /\ lost' = {l \in L : l.field \in DOMAIN v => l.value > v[l.field]}

\* Fault: the counters of an answer are not written into the cache.
PatchCaseOnly(v) ==
  LET hit == {f \in DOMAIN v \ {"counters"} : shown[f] # NoData}
  IN /\ Take([f \in hit |-> v[f]], lost)
     /\ fresh' = [k \in Keys |-> fresh[k] \/ \E f \in hit : KeyOf(f) = k]

\* setQueryData with a function of the previous data: without data, nothing.
Patch(v) ==
  LET hit == {f \in DOMAIN v : shown[f] # NoData}
  IN /\ Take([f \in hit |-> v[f]],
             Lose({[field |-> f, value |-> v[f]] : f \in DOMAIN v \ hit}, "early"))
     /\ fresh' = [k \in Keys |-> fresh[k] \/ \E f \in hit : KeyOf(f) = k]

\* The state of the fetches; what the server read for one that is over is dropped.
Fetches(q) ==
  /\ query' = q
  /\ snap' = [f \in Fields |-> IF q[KeyOf(f)] = "read" THEN snap[f] ELSE NoData]

\* invalidateQueries: an active query is fetched again; a fetch under way is
\* given up for a new one only if there is data already.
Invalidate(K) ==
  /\ fresh' = [k \in Keys |-> fresh[k] /\ k \notin K]
  /\ Fetches([k \in Keys |->
       IF k \in K /\ open /\ (HasData(k) \/ query[k] = "idle") THEN "asked" ELSE query[k]])

FetchRead(k) ==
  /\ query[k] = "asked"
  /\ query' = [query EXCEPT ![k] = "read"]
  /\ snap' = [f \in Fields |-> IF f \in Part(k) THEN version[f] ELSE snap[f]]
  /\ UNCHANGED <<server, open, joined, link, shown, fresh, budget, history>>

\* What an answer takes back that was committed after the server had read for it.
TakenBack(k) ==
  {[field |-> f, value |-> shown[f], cause |-> "preread"] :
     f \in {g \in Part(k) : shown[g] # NoData /\ snap[g] < shown[g]}}

\* The answer of a fetch replaces what is shown, also what an event or an answer has
\* brought since the server read: patches do not cancel a fetch under way.
FetchDone(k) ==
  /\ query[k] = "read"
  /\ Fetches([query EXCEPT ![k] = "idle"])
  /\ fresh' = [fresh EXCEPT ![k] = TRUE]
  /\ Take([f \in Part(k) |-> snap[f]], lost \union TakenBack(k))
  /\ UNCHANGED <<server, open, joined, link, budget, crowded>>

\* The fetch and its one retry fail; whatever data there is stays.
FetchFails(k) ==
  /\ query[k] # "idle" /\ budget > 0 /\ budget' = budget - 1
  /\ Fetches([query EXCEPT ![k] = "idle"])
  /\ lost' = {Blame(l, {k}, "failed") : l \in lost}
  /\ UNCHANGED <<server, open, joined, link, shown, fresh, crowded>>

\* The window gets the focus back after staleTime: the query is fetched.
Refocus(k) ==
  /\ open /\ query[k] = "idle"
  /\ budget > 0 /\ budget' = budget - 1
  /\ query' = [query EXCEPT ![k] = "asked"]
  /\ UNCHANGED <<server, open, joined, link, shown, fresh, snap, history>>

-------------------------------------------------------------------------------
\* The page and its connection

\* Mounting fetches what is missing, was invalidated or is older than staleTime;
\* younger data is shown as it is. The first join does not fetch.
Open(old) ==
  /\ ~open /\ open' = TRUE
  /\ joined' = online
  /\ checking' = IF online THEN checking + 1 ELSE checking
  /\ query' = [k \in Keys |->
       IF query[k] = "idle" /\ ~(HasData(k) /\ fresh[k] /\ k \notin old)
       THEN "asked" ELSE query[k]]
  /\ UNCHANGED <<server, online, inRoom, down, shown, fresh, snap, budget, history>>

\* run:leave takes effect; a check under way goes on and may enter afterwards.
Close ==
  /\ open /\ budget > 0 /\ budget' = budget - 1
  /\ open' = FALSE /\ inRoom' = FALSE
  /\ lost' = {Blame(l, Keys, "closed") : l \in lost}
  /\ UNCHANGED <<server, joined, online, checking, down, cache, crowded>>

\* Fault: a page that joins again does not fetch what it missed.
ConnectWithoutFetch ==
  /\ ~online /\ online' = TRUE
  /\ joined' = (joined \/ open)
  /\ checking' = IF open THEN 1 ELSE 0
  /\ UNCHANGED <<server, open, inRoom, down, cache, budget, history>>

\* The connect event: an open page joins, and fetches if it had joined before.
\* A query without data whose fetch is under way keeps that fetch.
Connect ==
  LET again == open /\ joined
      blind == {k \in Keys : ~HasData(k) /\ query[k] # "idle"}
  IN /\ ~online /\ online' = TRUE
     /\ joined' = (joined \/ open)
     /\ checking' = IF open THEN 1 ELSE 0
     /\ IF again
        THEN Invalidate(Keys) /\ lost' = {Blame(l, blind, "blind") : l \in lost}
        ELSE UNCHANGED <<fresh, query, snap, lost>>
     /\ UNCHANGED <<server, open, inRoom, down, shown, budget, crowded>>

\* The connection is gone, and with it the room and what was on its way.
Cut(L) ==
  /\ online' = FALSE /\ inRoom' = FALSE /\ checking' = 0 /\ down' = <<>>
  /\ lost' = L \union
       Lose({down[i] : i \in DOMAIN down}, IF open THEN "offline" ELSE "closed")

Drop ==
  /\ online /\ budget > 0 /\ budget' = budget - 1
  /\ Cut(lost)
  /\ UNCHANGED <<server, open, joined, cache, crowded>>

Enter ==
  /\ checking > 0 /\ checking' = checking - 1
  /\ inRoom' = TRUE
  /\ UNCHANGED <<server, open, joined, online, down, cache, budget, history>>

\* Events the page listens to; run:status.changed is not one of them.
Handled == Fields \ {"status"}

Deliver ==
  LET e == Head(down)
  IN /\ down # <<>> /\ down' = Tail(down)
     /\ IF open /\ e.field \in Handled
        THEN Patch([f \in {e.field} |-> e.value])
        ELSE /\ lost' = Lose({e}, IF open THEN "ignored" ELSE "closed")
             /\ UNCHANGED <<shown, fresh>>
     /\ UNCHANGED <<server, open, joined, online, checking, inRoom, query, snap,
                    budget, crowded>>

-------------------------------------------------------------------------------
\* Requests that change the run

\* ExecCaseRow: one record of a case at a time, while the run is in progress.
OffersRecord(j) ==
  /\ shown["status"] = 1
  /\ \A r \in Mine : pc[r] \in {"sent", "committed", "emitted"} => job[r] # j

\* RunStatusControls: nothing once the run is over.
OffersStatus(j) == shown["status"] < j.next

Offers(j) ==
  /\ open /\ Shows
  /\ j.op = "record" => OffersRecord(j)
  /\ j.op = "status" => OffersStatus(j)

\* Nothing is kept of requests that are over.
Finish(R) ==
  /\ pc' = [r \in Reqs |-> IF r \in R THEN "done" ELSE pc[r]]
  /\ job' = [r \in Reqs |-> IF r \in R THEN [op |-> "assign"] ELSE job[r]]
  /\ value' = [r \in Reqs |-> IF r \in R THEN <<>> ELSE value[r]]

Ask(r, j) ==
  /\ r \in Mine /\ pc[r] = "idle" /\ Offers(j)
  /\ pc' = [pc EXCEPT ![r] = "sent"]
  /\ job' = [job EXCEPT ![r] = j]
  /\ UNCHANGED <<version, value, open, joined, link, cache, budget, history>>

Allows(j) ==
  /\ j.op = "record" => version["status"] = 1
  /\ j.op = "status" => version["status"] < j.next

\* The event or the answer of an older change has yet to reach the page, or may do so.
UnderWay(f) ==
  \/ \E s \in Reqs : pc[s] \in {"committed", "emitted"} /\ f \in Writes(job[s])
  \/ \E i \in DOMAIN down : down[i].field = f

\* Counted up by one, except that a status goes to the one asked for.
Following(f, j) == IF f = "status" THEN j.next ELSE version[f] + 1

\* A request of this page has taken its time to get there; when the others were
\* sent makes no difference to it.
Reaches(r, j) ==
  IF r \in Mine THEN pc[r] = "sent" /\ j = job[r] ELSE pc[r] = "idle"

Commit(r, j) ==
  /\ Reaches(r, j) /\ Allows(j)
  /\ version' = [f \in Fields |-> IF f \in Writes(j) THEN Following(f, j) ELSE version[f]]
  /\ job' = [job EXCEPT ![r] = j]
  /\ value' = [value EXCEPT ![r] = [f \in Writes(j) |-> Following(f, j)]]
  /\ pc' = [pc EXCEPT ![r] = "committed"]
  /\ crowded' = crowded \union {f \in Writes(j) : UnderWay(f)}
  /\ UNCHANGED <<open, joined, link, cache, budget, lost>>

Refuse(r) ==
  /\ pc[r] = "sent" /\ ~Allows(job[r])
  /\ Finish({r})
  /\ UNCHANGED <<version, open, joined, link, cache, budget, history>>

Event(r, f) == [field |-> f, value |-> value[r][f]]

\* Fault: the progress sent is that of the run as read before the shift.
EventsOfRunAsRead(r) ==
  IF job[r].op = "record"
  THEN <<Event(r, job[r].case),
         [field |-> "counters", value |-> value[r]["counters"] - 1]>>
  ELSE <<Event(r, IF job[r].op = "status" THEN "status" ELSE "assignees")>>

\* run:case.recorded before run:progress.updated; one event otherwise.  Left out: the
\* former always names who has recorded, while the row of a case that is set back to
\* PENDING, and with it answers and fetches, names nobody.
EventsOf(r) ==
  IF job[r].op = "record"
  THEN <<Event(r, job[r].case), Event(r, "counters")>>
  ELSE <<Event(r, IF job[r].op = "status" THEN "status" ELSE "assignees")>>

\* Events leave after the commit, in the order in which the handlers get there.
Emit(r) ==
  /\ pc[r] = "committed"
  /\ IF r \in Mine
     THEN pc' = [pc EXCEPT ![r] = "emitted"] /\ UNCHANGED <<job, value>>
     ELSE Finish({r})
  /\ IF inRoom
     THEN down' = down \o EventsOf(r) /\ UNCHANGED lost
     ELSE /\ lost' = Lose({Event(r, f) : f \in Writes(job[r])}, Cause)
          /\ UNCHANGED down
  /\ UNCHANGED <<version, open, joined, online, checking, inRoom, cache, budget,
                 crowded>>

\* The answer to a request of this page: a record is written into the cache,
\* after the others the queries concerned are fetched.
Settle(r) ==
  /\ pc[r] = "emitted" /\ pc' = [pc EXCEPT ![r] = "settled"]
  /\ CASE job[r].op = "record" -> Patch(value[r]) /\ UNCHANGED <<query, snap>>
       [] job[r].op = "status" -> Invalidate(Keys) /\ UNCHANGED <<shown, lost>>
       [] job[r].op = "assign" -> Invalidate({"detail"}) /\ UNCHANGED <<shown, lost>>
  /\ UNCHANGED <<version, job, value, open, joined, link, budget, crowded>>

\* nameOf fails, or the answer is lost on its way.
Fail(r) ==
  /\ pc[r] \in {"committed", "emitted"} /\ budget > 0 /\ budget' = budget - 1
  /\ Finish({r})
  /\ lost' = IF pc[r] = "committed"
             THEN Lose({Event(r, f) : f \in Writes(job[r])}, "unsent") ELSE lost
  /\ UNCHANGED <<version, open, joined, link, cache, crowded>>

\* The server restarts: what it was doing ends, every connection with it, and
\* the queries under way are tried again.
Crash ==
  LET unsent == {r \in Reqs : pc[r] = "committed"}
  IN /\ online /\ budget > 0 /\ budget' = budget - 1
     /\ Finish({r \in Reqs : pc[r] \in {"sent", "committed", "emitted"}})
     /\ Cut(Lose(UNION {{Event(r, f) : f \in Writes(job[r])} : r \in unsent},
                 IF open /\ joined THEN "offline" ELSE Cause))
     /\ Fetches([k \in Keys |-> IF query[k] = "idle" THEN "idle" ELSE "asked"])
     /\ UNCHANGED <<version, open, joined, shown, fresh, crowded>>

-------------------------------------------------------------------------------

Init ==
  /\ version \in {[f \in Fields |-> IF f = "status" THEN s ELSE 0] : s \in {0, 1}}
  /\ pc = [r \in Reqs |-> "idle"]
  /\ job = [r \in Reqs |-> [op |-> "assign"]]
  /\ value = [r \in Reqs |-> <<>>]
  /\ open = FALSE /\ joined = FALSE /\ online = FALSE
  /\ checking = 0 /\ inRoom = FALSE /\ down = <<>>
  /\ shown = [f \in Fields |-> NoData]
  /\ fresh = [k \in Keys |-> FALSE]
  /\ query = [k \in Keys |-> "idle"]
  /\ snap = [f \in Fields |-> NoData]
  /\ budget = Budget
  /\ lost = {} /\ crowded = {}

Browser == Deliver \/ \E k \in Keys : FetchDone(k)
Server ==
  \/ Enter
  \/ \E k \in Keys : FetchRead(k)
  \/ \E r \in Reqs, j \in Jobs : Commit(r, j)
  \/ \E r \in Reqs : Refuse(r) \/ Emit(r) \/ Settle(r)
User ==
  \/ Close \/ \E old \in SUBSET Keys : Open(old)
  \/ \E k \in Keys : Refocus(k)
  \/ \E r \in Reqs, j \in Jobs : Ask(r, j)
World ==
  \/ Drop \/ Crash
  \/ \E k \in Keys : FetchFails(k)
  \/ \E r \in Reqs : Fail(r)

Next == Browser \/ Server \/ Connect \/ User \/ World

Spec == Init /\ [][Next]_vars

-------------------------------------------------------------------------------

Values == Nat \union {NoData}
Notes == [field : Fields, value : Nat]

Causes == {"closed", "offline", "entering", "early", "ignored", "failed", "blind", "unsent",
           "preread"}
Losses == [field : Fields, value : Nat, cause : Causes]

ServerTypes ==
  /\ version \in [Fields -> Nat] /\ version["status"] \in 0..2
  /\ pc \in [Reqs -> {"idle", "sent", "committed", "emitted", "settled", "done"}]
  /\ job \in [Reqs -> Jobs] /\ DOMAIN value = Reqs
  /\ \A r \in Reqs : pc[r] \in {"committed", "emitted", "settled"} =>
       value[r] \in [Writes(job[r]) -> Nat]

LinkTypes ==
  /\ {open, joined, online, inRoom} \subseteq BOOLEAN
  /\ checking \in Nat /\ down \in Seq(Notes)

CacheTypes ==
  /\ shown \in [Fields -> Values] /\ snap \in [Fields -> Values]
  /\ fresh \in [Keys -> BOOLEAN] /\ query \in [Keys -> {"idle", "asked", "read"}]
  /\ \A f \in Fields : query[KeyOf(f)] = "read" => snap[f] # NoData

HistoryTypes == budget \in 0..Budget /\ lost \subseteq Losses /\ crowded \subseteq Fields

\* Every variable has its type.
TypeOK == ServerTypes /\ LinkTypes /\ CacheTypes /\ HistoryTypes

Quiet ==
  /\ open /\ online /\ inRoom /\ checking = 0 /\ down = <<>>
  /\ \A k \in Keys : query[k] = "idle"
  /\ \A r \in Reqs : pc[r] \in {"idle", "settled", "done"}

\* Once things settle, an open page shows what is committed, except a field whose
\* latest value came by when the page could not take it (closed, not yet in the
\* room, no data yet, never sent, a failed fetch; the status, for which it has no
\* handler), was taken back by a fetch read before, or was committed while an older
\* event or answer was under way. What was lost with the connection is no such
\* exception: the fetch on the next join makes it good (useRunSocket,
\* "유실 이벤트 복구", useRecordResult and the query cache together).
PageShowsRun ==
  Quiet => \A f \in Fields :
    \/ shown[f] \in {NoData, version[f]}
    \/ f \in crowded
    \/ \E l \in lost : /\ l.field = f /\ l.value = version[f] /\ l.cause # "offline"
                       /\ l.cause = "ignored" => f = "status"

\* A field whose changes follow each other, each after the events and answers of the
\* last, goes back on a page in one way only: a fetch brings what the server had read
\* before the commit that the page shows. No event and no answer to a record takes it
\* back, and no connection, visit or failed fetch (cache.ts, useRunSocket). Events of
\* changes that overtake each other after their commits may well do so.
NeverBackwards ==
  [][\A f \in Fields \ crowded : shown[f] # NoData =>
       /\ shown'[f] # NoData
       /\ \/ shown'[f] >= shown[f]
          \/ FetchDone(KeyOf(f)) /\ snap[f] < version[f] /\ shown'[f] = snap[f]]_vars

\* Who has recorded a result and got the answer sees it or what came after it, case and
\* counters, whatever became of its events, unless others changed the field so that an
\* older event or answer was still under way, or a fetch that the server had read before
\* the commit took it off the screen (useRecordResult, patchRunCaseResult: setQueryData
\* does not cancel the fetch).
OwnRecordIsShown ==
  \A r \in Mine : pc[r] = "settled" /\ job[r].op = "record" =>
    \A f \in Writes(job[r]) \ crowded :
      /\ shown[f] # NoData
      /\ \/ shown[f] >= value[r][f]
         \/ \E l \in lost : /\ l.field = f /\ l.cause = "preread"
                            /\ l.value >= value[r][f]
===============================================================================
