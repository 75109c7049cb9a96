------------------------------- MODULE OrgScreens -------------------------------
(***************************************************************************)
(* A browser that looks at one organization while its bugs change: either  *)
(* at the bug list, fetched again on each event of the organization's      *)
(* room, or at the audit log, read page by page while it grows.            *)
(***************************************************************************)
EXTENDS BugReports, SequencesExt

CONSTANTS Home,      \* the organization looked at
          Own,       \* requests that this browser sends
          Take,      \* rows per page of the log
          NoData,    \* what the list shows before its first answer
          Budget     \* bound: disconnections, token refreshes, visits, failures

ASSUME HomeAssumption == Home \in Orgs /\ Own \subseteq Reqs
ASSUME TakeAssumption == Take \in Nat \ {0}
ASSUME ListAssumption == NoData \notin Nat /\ Budget \in Nat
ASSUME NoEntryAssumption == None \notin Records

VARIABLES
  screen,   \* the page looked at, "bugs" or "audit"; for the log the rest stays idle
  online, checking, inRoom,  \* the socket, its org:join under check, its room
  queue,    \* events on their way, each as the number of its commit
  visible,  \* the list is mounted
  fresh,    \* its data has not been invalidated
  listed,   \* what it shows: the number of commits it was read after
  fetch,    \* its fetch: idle, asked, or read by the server
  got,      \* what was read for it
  due,      \* own requests answered with success, as the numbers of their commits
  missed,   \* history: the latest commit whose event came to nothing
  told,     \* history: the latest commit whose answer made the list be fetched
  walk,     \* the log so far: entries, next cursor, all cursors, and whether there is more
  begun,    \* history: what had been committed when the walk began
  budget

link == <<online, checking, inRoom, queue>>
list == <<visible, fresh, listed, fetch, got, due, missed, told>>
log == <<walk, begun>>
screens == <<screen, link, list, log, budget>>
allVars == <<vars, screens>>

Spend == budget > 0 /\ budget' = budget - 1

OfHome == {i \in DOMAIN audit : audit[i].org = Home}
Version == Cardinality(OfHome)

-------------------------------------------------------------------------------
\* The bug list

Missing(N) == CHOOSE n \in N \union {missed} : \A m \in N \union {missed} : m <= n

\* A fetch under way is replaced only if the list is mounted and has data; otherwise
\* it goes on, and what it has read may be too old.
Stuck == fetch = "read" /\ (~visible \/ listed = NoData)

\* Fault: a list that is not mounted is not told.
RefreshMounted(n) ==
  /\ fresh' = (fresh /\ ~visible)
  /\ fetch' = IF visible THEN "asked" ELSE fetch
  /\ UNCHANGED missed

\* invalidateQueries for all bug queries: fetched again if mounted, otherwise when
\* it is.
Refresh(n) ==
  /\ fresh' = FALSE
  /\ fetch' = IF visible /\ (listed # NoData \/ fetch = "idle") THEN "asked" ELSE fetch
  /\ missed' = IF Stuck THEN Missing({n}) ELSE missed

Deliver ==
  /\ queue # <<>> /\ queue' = Tail(queue)
  /\ Refresh(Head(queue))
  /\ UNCHANGED <<vars, online, checking, inRoom, visible, listed, got, due, told, log, budget>>

\* onSuccess of useCreateBug and useUpdateBug.
Answered ==
  \E n \in due :
    /\ due' = due \ {n} /\ Refresh(n)
    /\ told' = IF n > told /\ ~Stuck THEN n ELSE told
    /\ UNCHANGED <<vars, link, visible, listed, got, log, budget>>

FetchRead ==
  /\ fetch = "asked" /\ fetch' = "read" /\ got' = Version
  /\ UNCHANGED <<vars, link, visible, fresh, listed, due, missed, told, log, budget>>

FetchDone ==
  /\ fetch = "read" /\ fetch' = "idle"
  /\ listed' = got /\ fresh' = TRUE /\ got' = 0
  /\ UNCHANGED <<vars, link, visible, due, missed, told, log, budget>>

FetchFails ==
  /\ fetch # "idle" /\ Spend
  /\ fetch' = "idle" /\ got' = 0 /\ missed' = Version /\ told' = 0
  /\ UNCHANGED <<vars, link, visible, fresh, listed, due, log>>

\* Mounted again within staleTime, the list shows what it has unless invalidated.
Show(old) ==
  /\ ~visible /\ visible' = TRUE
  /\ fetch' = IF fetch = "idle" /\ (listed = NoData \/ ~fresh \/ old) THEN "asked" ELSE fetch
  /\ UNCHANGED <<vars, link, fresh, listed, got, due, missed, told, log, budget>>

Hide ==
  /\ visible /\ Spend /\ visible' = FALSE
  /\ UNCHANGED <<vars, link, fresh, listed, fetch, got, due, missed, told, log>>

-------------------------------------------------------------------------------
\* The room of the organization

Connect ==
  /\ ~online /\ online' = TRUE /\ checking' = 1
  /\ UNCHANGED <<vars, inRoom, queue, list, log, budget>>

Enter ==
  /\ checking > 0 /\ checking' = checking - 1 /\ inRoom' = TRUE
  /\ UNCHANGED <<vars, online, queue, list, log, budget>>

Drop ==
  /\ online /\ Spend
  /\ online' = FALSE /\ checking' = 0 /\ inRoom' = FALSE /\ queue' = <<>>
  /\ missed' = Missing({queue[i] : i \in DOMAIN queue})
  /\ UNCHANGED <<vars, visible, fresh, listed, fetch, got, due, told, log>>

\* A new access token runs the effect of useOrgRealtime again: org:leave at once,
\* then org:join, which is checked.
Rejoin ==
  /\ online /\ Spend
  /\ inRoom' = FALSE /\ checking' = checking + 1
  /\ UNCHANGED <<vars, online, queue, list, log>>

\* The number of the commit of request r among those of Home.
NumberOf(r) == Cardinality({i \in OfHome : \E k \in OfHome : audit[k].req = r /\ i <= k})

\* The events of other organizations go to other rooms; a request of this browser
\* is answered.
Hears(r) ==
  /\ due' = IF r \in Own /\ job[r].org = Home THEN due \union {NumberOf(r)} ELSE due
  /\ IF job[r].org # Home THEN UNCHANGED <<queue, missed>>
     ELSE IF inRoom THEN queue' = Append(queue, NumberOf(r)) /\ UNCHANGED missed
     ELSE missed' = Missing({NumberOf(r)}) /\ UNCHANGED queue

\* An update that fails after its commit is announced by nobody.
Unheard(r) ==
  /\ UNCHANGED queue
  /\ missed' = IF pc[r] = "emit" /\ job[r].org = Home THEN Missing({NumberOf(r)}) ELSE missed

-------------------------------------------------------------------------------
\* The audit log, newest first, in pages that start after a cursor

\* What the database may return of S: entries of one millisecond come in any order.
NewestFirst(S) ==
  {s \in [1 .. Cardinality(S) -> S] :
     /\ S \subseteq Range(s)
     /\ \A i, k \in DOMAIN s : i < k => s[i] # s[k] /\ s[i].stamp >= s[k].stamp}

\* The rows after the cursor's, which is found by its id.
After(s, cursor) ==
  IF cursor = None THEN s
  ELSE SubSeq(s, 1 + CHOOSE i \in DOMAIN s : s[i] = cursor, Len(s))

\* Fault: as many rows are asked for as are shown.
PageWithoutPeek(after) ==
  LET rowsRead == SubSeq(after, 1, IF Len(after) < Take THEN Len(after) ELSE Take)
      more == Len(rowsRead) > Take
  IN [items |-> rowsRead, next |-> IF more THEN Last(rowsRead) ELSE None]

\* One row more than shown is asked for; the last row shown is the next cursor.
Page(after) ==
  LET rowsRead == SubSeq(after, 1, IF Len(after) < Take + 1 THEN Len(after) ELSE Take + 1)
      more == Len(rowsRead) > Take
      page == IF more THEN SubSeq(rowsRead, 1, Take) ELSE rowsRead
  IN [items |-> page, next |-> IF more THEN Last(page) ELSE None]

\* useInfiniteQuery appends the page after the cursor of the last one.
ReadLog ==
  LET S == {audit[i] : i \in OfHome} IN
  /\ walk.state # "over"
  /\ \E s \in NewestFirst(S) :
       LET page == Page(After(s, walk.cursor)) IN
       /\ walk' = [entries |-> walk.entries \o page.items, cursor |-> page.next,
                   turns |-> walk.turns \union ({page.next} \ {None}),
                   state |-> IF page.next = None THEN "over" ELSE "more"]
       /\ IF Range(page.items) \cap Range(walk.entries) = {} THEN UNCHANGED budget ELSE Spend
  /\ begun' = IF walk.state = "new" THEN S ELSE begun
  /\ UNCHANGED <<vars, link, list>>

-------------------------------------------------------------------------------

ScreensInit ==
  /\ Init
  /\ screen \in {"bugs", "audit"}
  /\ online = FALSE /\ checking = 0 /\ inRoom = FALSE /\ queue = <<>>
  /\ visible = FALSE /\ fresh = FALSE /\ listed = NoData
  /\ fetch = "idle" /\ got = 0 /\ due = {} /\ missed = 0 /\ told = 0
  /\ walk = [entries |-> <<>>, cursor |-> None, turns |-> {}, state |-> "new"]
  /\ begun = {}
  /\ budget = Budget

Browse ==
  /\ UNCHANGED screen
  /\ IF screen = "audit" THEN ReadLog
     ELSE \/ Deliver \/ Answered \/ FetchRead \/ FetchDone \/ FetchFails \/ Hide
          \/ \E old \in BOOLEAN : Show(old)
          \/ Connect \/ Enter \/ Drop \/ Rejoin

Serve ==
  \/ \E r \in Reqs :
       \/ Handle(r) /\ UNCHANGED screens
       \/ Emit(r) /\ Hears(r)
            /\ UNCHANGED <<screen, online, checking, inRoom, visible, fresh, listed, fetch, got,
                           told, log, budget>>
       \/ Fail(r) /\ Spend /\ Unheard(r)
            /\ UNCHANGED <<screen, online, checking, inRoom, visible, fresh, listed, fetch, got,
                           due, told, log>>

ScreensSpec == ScreensInit /\ [][Serve \/ Browse]_allVars

-------------------------------------------------------------------------------

ListTypeOK ==
  /\ screen \in {"bugs", "audit"}
  /\ {online, inRoom, visible, fresh} \subseteq BOOLEAN
  /\ checking \in Nat /\ queue \in Seq(Nat) /\ due \subseteq 0 .. Version
  /\ \A i \in DOMAIN queue : queue[i] <= Version
  /\ listed \in 0 .. Version \union {NoData} /\ fetch \in {"idle", "asked", "read"}
  /\ {got, missed, told} \subseteq 0 .. Version
  /\ budget \in 0 .. Budget

WalkTypeOK ==
  walk \in [entries : Seq(Records), cursor : Records \union {None},
            turns : SUBSET Records, state : {"new", "more", "over"}]

\* Every variable has its type; no number exceeds that of the commits so far.
ScreensTypeOK == ListTypeOK /\ WalkTypeOK /\ begun \subseteq Records

Quiet ==
  /\ screen = "bugs"
  /\ visible /\ online /\ inRoom /\ checking = 0 /\ queue = <<>> /\ fetch = "idle"
  /\ due = {}
  /\ \A r \in Reqs : pc[r] \in {"idle", "done"}

\* Once things settle, a mounted list shows the latest commit, also if it was not
\* mounted when the bug changed, unless the event of that commit came while the
\* socket was outside the room or during a fetch nobody could replace, or was never
\* sent, or the fetch failed; and even then it shows every change of this browser
\* that has been answered, unless the answer came during such a fetch or a fetch has
\* failed since (useOrgRealtime, refreshBugs, useCreateBug, useUpdateBug).
ListShowsBugs ==
  Quiet => \/ listed \in {NoData, Version}
           \/ missed = Version /\ listed >= told

\* A page ended at an entry of this millisecond, which is not the only one.
Cut(t) ==
  \E c \in walk.turns : /\ c.stamp = t
                       /\ \E i \in OfHome : audit[i].stamp = t /\ audit[i] # c

\* Reading the log page by page while it grows gives its entries newest first, none of
\* another organization, each at most once, and skips none that was there at the start;
\* only entries of one millisecond, in the midst of which a page ended, may come twice
\* or not at all: the cursor is an id, but the order is that of createdAt alone
\* (AuditQueryService.list, useAuditLogs).
WalkSkipsNothing ==
  LET es == walk.entries
      passed(e) == walk.state = "over" \/ (es # <<>> /\ e.stamp > Last(es).stamp)
  IN /\ \A i, k \in DOMAIN es : i < k =>
          es[i].stamp >= es[k].stamp /\ (es[i] = es[k] => Cut(es[i].stamp))
     /\ \A i \in DOMAIN es : es[i].org = Home
     /\ walk.state # "new" =>
          \A e \in begun : passed(e) => e \in Range(es) \/ Cut(e.stamp)
===============================================================================
