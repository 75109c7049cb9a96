-------------------------------- MODULE RunRoom --------------------------------
(***************************************************************************)
(* Who is looking at a run: backend/src/runs/runs.gateway.ts and           *)
(* run-presence.service.ts on one side, features/runs/use-run-socket.ts of *)
(* the browser tabs on the other.                                          *)
(*                                                                         *)
(* The handlers keep the socket.io room of a run and its presence map      *)
(* together, so `room` stands for both.  run:join first awaits the         *)
(* membership check (assertReadable) and only then enters the room;        *)
(* run:leave and the disconnect handler do not wait for it.                *)
(***************************************************************************)
EXTENDS Naturals, SequencesExt

CONSTANTS
  Tabs,       \* browser tabs, each with one socket singleton (lib/socket.ts)
  Runs,       \* runs of the organization
  UserOf,     \* [Tabs -> users]: who is signed in
  Readable,   \* pairs of a user and a run that assertReadable accepts
  NoRun, NoConn,
  MaxVisits,  \* [Tabs -> Nat], a bound: run pages a tab opens
  MaxConns,   \* [Tabs -> Nat], a bound: connections a tab makes
  Budget      \* a bound: pages opened, connections made and checks that end in an
              \* error, in all

\* A database keeps finitely many rows.
ASSUME RunsAssumption == IsFiniteSet(Runs)
ASSUME RoomAssumption ==
  /\ DOMAIN UserOf = Tabs
  /\ NoRun \notin Runs
  /\ MaxVisits \in [Tabs -> Nat] /\ MaxConns \in [Tabs -> Nat] /\ Budget \in Nat
\* Every tab starts with a connection.
ASSUME FirstConnAssumption == \A t \in Tabs : MaxConns[t] >= 1

\* One per successful handshake: the tab and which one of its it is.
Conns == UNION {{t} \X (1 .. MaxConns[t]) : t \in Tabs}
ASSUME NoConnAssumption == NoConn \notin Conns

VARIABLES
  page,       \* per tab: the run its page shows
  visit,      \* per tab: how many run pages it has opened
  conn,       \* per tab: the connection it believes it has
  view,       \* per tab: `participants` of the page
  outbox,     \* per tab: emits kept by the client while it is disconnected
  opened,     \* per tab: how many connections it has made
  up,         \* connections the server has open
  toServer, toClient,   \* per connection: messages on their way, in order
  checking,   \* run:join handlers that await assertReadable
  room,       \* per run: connections in the room and in the presence map
  overtaken,  \* history: joins whose check was passed by a leave or disconnect
  unchecked   \* history: joins whose check ended in an error

vars == <<page, visit, conn, view, outbox, opened, up, toServer, toClient,
          checking, room, overtaken, unchecked>>

Users    == {UserOf[t] : t \in Tabs}
Visits   == UNION {1 .. MaxVisits[t] : t \in Tabs}
Requests == [type : {"join", "leave"}, run : Runs, visit : Visits]
Notices  == [type : {"ack"}, visit : Visits, users : SUBSET Users]
              \cup [type : {"presence"}, users : SUBSET Users]
Checks   == [conn : Conns, run : Runs, visit : Visits]

TypeOK ==
  /\ page \in [Tabs -> Runs \cup {NoRun}]
  /\ visit \in [Tabs -> {0} \cup Visits]
  /\ conn \in [Tabs -> Conns \cup {NoConn}]
  /\ view \in [Tabs -> SUBSET Users]
  /\ outbox \in [Tabs -> Seq(Requests)]
  /\ opened \in [Tabs -> Nat]
  /\ \A t \in Tabs : /\ opened[t] <= MaxConns[t]
                     /\ visit[t] <= MaxVisits[t]
                     /\ page[t] # NoRun => visit[t] # 0
                     /\ page[t] = NoRun => view[t] = {}
                     /\ conn[t] # NoConn => conn[t] = <<t, opened[t]>> /\ outbox[t] = <<>>
  /\ up \subseteq Conns
  /\ toServer \in [Conns -> Seq(Requests)]
  /\ toClient \in [Conns -> Seq(Notices)]
  /\ \A c \in Conns : /\ c \in up => c[2] <= opened[c[1]]
                      /\ c \notin up => toServer[c] = <<>>
  /\ checking \subseteq Checks
  /\ room \in [Runs -> SUBSET Conns]
  /\ overtaken \subseteq [conn : Conns, run : Runs]
  /\ unchecked \subseteq Checks

\* Signed in and connected (AppShell mounts useOrgRealtime), no run page open yet.
Init ==
  /\ page = [t \in Tabs |-> NoRun]
  /\ visit = [t \in Tabs |-> 0]
  /\ conn = [t \in Tabs |-> <<t, 1>>]
  /\ view = [t \in Tabs |-> {}]
  /\ outbox = [t \in Tabs |-> <<>>]
  /\ opened = [t \in Tabs |-> 1]
  /\ up = {<<t, 1>> : t \in Tabs}
  /\ toServer = [c \in Conns |-> <<>>]
  /\ toClient = [c \in Conns |-> <<>>]
  /\ checking = {}
  /\ room = [r \in Runs |-> {}]
  /\ overtaken = {}
  /\ unchecked = {}

-------------------------------------------------------------------------------
\* The browser tab

Spent == FoldFunction(+, 0, visit) + FoldFunction(+, 0, opened) + Cardinality(unchecked)

Request(type, t, r) == [type |-> type, run |-> r, visit |-> visit'[t]]

\* socket.emit: sent at once, or kept until the next connect; lost when the
\* server has already closed the connection.
Emit(t, messages) ==
  IF conn[t] = NoConn
  THEN outbox' = [outbox EXCEPT ![t] = @ \o messages] /\ UNCHANGED toServer
  ELSE /\ toServer' = [toServer EXCEPT ![conn[t]] =
                         IF conn[t] \in up THEN @ \o messages ELSE @]
       /\ UNCHANGED outbox

\* The run page is mounted: run:join now if the socket is connected, else on
\* its connect event.
Open(t, r) ==
  /\ page[t] = NoRun
  /\ visit[t] < MaxVisits[t] /\ Spent < Budget
  /\ page' = [page EXCEPT ![t] = r]
  /\ visit' = [visit EXCEPT ![t] = @ + 1]
  /\ Emit(t, IF conn[t] = NoConn THEN <<>> ELSE <<Request("join", t, r)>>)
  /\ UNCHANGED <<conn, view, opened, up, toClient, checking, room, overtaken, unchecked>>

\* The page is left: run:leave, and the state of the hook is gone.
Close(t) ==
  /\ page[t] # NoRun
  /\ page' = [page EXCEPT ![t] = NoRun]
  /\ view' = [view EXCEPT ![t] = {}]
  /\ UNCHANGED visit
  /\ Emit(t, <<Request("leave", t, page[t])>>)
  /\ UNCHANGED <<conn, opened, up, toClient, checking, room, overtaken, unchecked>>

\* Fault: the page joins when it is mounted, not when the socket connects again.
GreetingWithoutJoin(t) == outbox[t]

\* What a new connection carries first: the kept emits, then the join of the
\* connect handler.
Greeting(t) ==
  outbox[t] \o IF page[t] = NoRun THEN <<>>
               ELSE <<[type |-> "join", run |-> page[t], visit |-> visit[t]]>>

\* The handshake succeeds.
Connect(t) ==
  /\ conn[t] = NoConn
  /\ opened[t] < MaxConns[t] /\ Spent < Budget
  /\ opened' = [opened EXCEPT ![t] = @ + 1]
  /\ LET c == <<t, opened'[t]>>
     IN /\ conn' = [conn EXCEPT ![t] = c]
        /\ up' = up \cup {c}
        /\ toServer' = [toServer EXCEPT ![c] = Greeting(t)]
  /\ outbox' = [outbox EXCEPT ![t] = <<>>]
  /\ UNCHANGED <<page, visit, view, toClient, checking, room, overtaken, unchecked>>

\* The tab finds its connection dead; what was still on its way to it is lost.
Drop(t) ==
  /\ conn[t] # NoConn
  /\ conn' = [conn EXCEPT ![t] = NoConn]
  /\ toClient' = [toClient EXCEPT ![conn[t]] = <<>>]
  /\ UNCHANGED <<page, visit, view, outbox, opened, up, toServer, checking, room,
                 overtaken, unchecked>>

\* The ack of run:join belongs to the visit that sent it, run:presence.updated to
\* whatever page is mounted: its handler does not look at payload.runId.
Concerns(notice, t) ==
  /\ page[t] # NoRun
  /\ notice.type = "ack" => notice.visit = visit[t]

Deliver(t) ==
  /\ conn[t] # NoConn
  /\ toClient[conn[t]] # <<>>
  /\ LET notice == Head(toClient[conn[t]])
     IN view' = IF Concerns(notice, t) THEN [view EXCEPT ![t] = notice.users]
                                       ELSE view
  /\ toClient' = [toClient EXCEPT ![conn[t]] = Tail(@)]
  /\ UNCHANGED <<page, visit, conn, outbox, opened, up, toServer, checking, room,
                 overtaken, unchecked>>

-------------------------------------------------------------------------------
\* The gateway

\* RunPresenceService.list: every user once, however many sockets.
Participants(members) == {UserOf[c[1]] : c \in members}

\* Connections a message of the server can still reach.
Reachable == {c \in up : conn[c[1]] = c}

\* Fault: the list is taken before the room changes.
AnnounceBefore(rs) ==
  [c \in Conns |->
     LET told == SetToSeq({r \in rs : c \in room'[r] \cap Reachable})
     IN toClient[c] \o [i \in 1 .. Len(told) |->
                          [type |-> "presence", users |-> Participants(room[told[i]])]]]

\* broadcastPresence(r) for every run of rs: the messages added to toClient.
Announce(rs) ==
  [c \in Conns |->
     LET told == SetToSeq({r \in rs : c \in room'[r] \cap Reachable})
     IN toClient[c] \o [i \in 1 .. Len(told) |->
                          [type |-> "presence", users |-> Participants(room'[told[i]])]]]

\* run:join up to the await of assertReadable.
ReceiveJoin(c) ==
  /\ c \in up /\ toServer[c] # <<>> /\ Head(toServer[c]).type = "join"
  /\ LET request == Head(toServer[c])
     IN checking' = checking \cup {[conn |-> c, run |-> request.run,
                                    visit |-> request.visit]}
  /\ toServer' = [toServer EXCEPT ![c] = Tail(@)]
  /\ UNCHANGED <<page, visit, conn, view, outbox, opened, up, toClient, room, overtaken,
                 unchecked>>

\* The rest of run:join, once the check is answered: also for a socket that has
\* left or is gone by now.
FinishJoin(j) ==
  /\ j \in checking
  /\ checking' = checking \ {j}
  /\ IF <<UserOf[j.conn[1]], j.run>> \in Readable
     THEN /\ room' = [room EXCEPT ![j.run] = @ \cup {j.conn}]
          /\ LET ack == [type |-> "ack", visit |-> j.visit,
                         users |-> Participants(room'[j.run])]
             IN toClient' = [Announce({j.run}) EXCEPT
                               ![j.conn] = IF j.conn \in Reachable
                                           THEN Append(@, ack) ELSE @]
     ELSE UNCHANGED <<room, toClient>>                       \* ack NOT_FOUND
  /\ UNCHANGED <<page, visit, conn, view, outbox, opened, up, toServer, overtaken,
                 unchecked>>

\* The database does not answer the check: the handler throws before the room is
\* entered, and no ack is sent.
JoinFails(j) ==
  /\ j \in checking /\ Spent < Budget
  /\ checking' = checking \ {j}
  /\ unchecked' = unchecked \cup {j}
  /\ UNCHANGED <<page, visit, conn, view, outbox, opened, up, toServer, toClient, room,
                 overtaken>>

\* run:leave.
ReceiveLeave(c) ==
  /\ c \in up /\ toServer[c] # <<>> /\ Head(toServer[c]).type = "leave"
  /\ LET r == Head(toServer[c]).run
     IN /\ room' = [room EXCEPT ![r] = @ \ {c}]
        /\ toClient' = Announce({r})
        /\ overtaken' = overtaken \cup {[conn |-> j.conn, run |-> j.run] :
                            j \in {k \in checking : k.conn = c /\ k.run = r}}
  /\ toServer' = [toServer EXCEPT ![c] = Tail(@)]
  /\ UNCHANGED <<page, visit, conn, view, outbox, opened, up, checking, unchecked>>

\* Fault: no handleDisconnect.
DisconnectForgotten(c) ==
  /\ c \in up
  /\ up' = up \ {c}
  /\ toServer' = [toServer EXCEPT ![c] = <<>>]
  /\ UNCHANGED <<page, visit, conn, view, outbox, opened, toClient, checking, room,
                 overtaken, unchecked>>

\* handleDisconnect, after the server closed the connection (client gone, ping
\* timeout): leaveAll, and a broadcast to every room it was in.
Disconnect(c) ==
  /\ c \in up
  /\ up' = up \ {c}
  /\ toServer' = [toServer EXCEPT ![c] = <<>>]
  /\ room' = [r \in Runs |-> room[r] \ {c}]
  /\ toClient' = Announce({r \in Runs : c \in room[r]})
  /\ overtaken' = overtaken \cup {[conn |-> j.conn, run |-> j.run] :
                                    j \in {k \in checking : k.conn = c}}
  /\ UNCHANGED <<page, visit, conn, view, outbox, opened, checking, unchecked>>

\* The server process restarts: rooms and presence are in memory only.
Restart ==
  /\ up # {}
  /\ up' = {}
  /\ toServer' = [c \in Conns |-> <<>>]
  /\ checking' = {}
  /\ room' = [r \in Runs |-> {}]
  /\ UNCHANGED <<page, visit, conn, view, outbox, opened, toClient, overtaken, unchecked>>

-------------------------------------------------------------------------------
Handle ==
  \/ \E c \in Conns : ReceiveJoin(c) \/ ReceiveLeave(c)
  \/ \E j \in checking : FinishJoin(j) \/ JoinFails(j)
\* One end finds out that the other has closed the connection.
Notice ==
  \/ \E c \in Conns : Disconnect(c) /\ conn[c[1]] # c
  \/ \E t \in Tabs : conn[t] \notin up /\ Drop(t)

Next ==
  \/ \E t \in Tabs : \/ (\E r \in Runs : Open(t, r)) \/ Close(t)
                     \/ Connect(t) \/ Drop(t) \/ Deliver(t)
  \/ \E c \in Conns : Disconnect(c)
  \/ Handle \/ Restart

Spec == Init /\ [][Next]_vars

\* The server handles what it receives and the database answers; what arrives at
\* a tab is handled; each end finds out that the other has closed the connection.
\* Each of these uses up work of which there is finitely much, so it is enough that
\* some of it is always done.  Pages, reconnects and failures are free.
FairSpec ==
  Spec /\ WF_vars(Handle) /\ WF_vars(\E t \in Tabs : Deliver(t)) /\ WF_vars(Notice)

-------------------------------------------------------------------------------
\* Properties

MayRead(c, r) == <<UserOf[c[1]], r>> \in Readable

\* The tab shows a run it may read, and the check of its join did not end in an error:
\* the page ignores a missing ack and joins again only when the socket reconnects.
Attending(t) ==
  /\ page[t] # NoRun /\ conn[t] # NoConn /\ MayRead(conn[t], page[t])
  /\ [conn |-> conn[t], run |-> page[t], visit |-> visit[t]] \notin unchecked

\* No message under way, no check under way, and both ends agree on what is open.
Quiet ==
  /\ checking = {}
  /\ \A c \in Conns : toServer[c] = <<>> /\ toClient[c] = <<>>
  /\ up = {conn[t] : t \in Tabs} \ {NoConn}

\* Once things have settled the presence of a run is its open pages, "지금 그
\* TestRun 화면에 실시간 연결되어 있는 Member" (UBIQUITOUS_LANGUAGE.md:42): none is
\* missing, whatever was lost, restarted or reconnected, unless the check of its own
\* join ended in an error, and one too many stands there only because its join was
\* overtaken by a leave or a disconnect.
PresenceIsOpenPages ==
  Quiet =>
    /\ \A t \in Tabs : Attending(t) => conn[t] \in room[page[t]]
    /\ \A r \in Runs : \A c \in room[r] :
         /\ MayRead(c, r)
         /\ \/ conn[c[1]] = c /\ page[c[1]] = r
            \/ [conn |-> c, run |-> r] \in overtaken

\* Once things have settled every page shows the presence the server has, unless
\* an overtaken join keeps its connection in the room of another run: the handler
\* of run:presence.updated then takes that run's list for its own.
PagesShowPresence ==
  Quiet =>
    \A t \in Tabs :
      /\ Attending(t)
      /\ \A r \in Runs \ {page[t]} : conn[t] \notin room[r]
      => view[t] = Participants(room[page[t]])

\* A page open on a connection is not left outside for good: it is admitted and
\* sees its own user, also when it was opened while the socket was down; a join whose
\* check ended in an error is not repeated on the same connection.
PagesGetIn ==
  []<>(\A t \in Tabs : Attending(t) => UserOf[t] \in view[t])
===============================================================================
