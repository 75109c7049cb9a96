-------------------------------- MODULE RoomProofs --------------------------------
(***************************************************************************)
(* Presence, for any number of tabs, connections, runs and messages.       *)
(***************************************************************************)
EXTENDS RunRoom, FiniteSetTheorems, TLAPS

-------------------------------------------------------------------------------
\* Connections, lists and announcements

LEMMA ConnIs ==
  /\ \A c \in Conns : /\ c[1] \in Tabs /\ c[2] \in 1 .. MaxConns[c[1]]
                      /\ c = <<c[1], c[2]>>
  /\ \A t \in Tabs : \A n \in 1 .. MaxConns[t] : <<t, n>> \in Conns
  BY DEF Conns

LEMMA SetToSeqIs ==
  ASSUME NEW S, IsFiniteSet(S)
  PROVE  /\ SetToSeq(S) \in Seq(S) /\ Len(SetToSeq(S)) = Cardinality(S)
         /\ S = {} => Len(SetToSeq(S)) = 0
         /\ \A x : S = {x} => SetToSeq(S) = <<x>>
  <1> DEFINE n == Cardinality(S)
             q == SetToSeq(S)
  <1>1. n \in Nat /\ ExistsBijection(1 .. n, S)
    BY FS_CardinalityType
  <1>2. \E f \in [1 .. n -> S] : IsInjective(f)
    BY <1>1 DEF ExistsBijection, Bijection, Injection
  <1>3. q \in [1 .. n -> S]
    BY <1>2 DEF SetToSeq
  <1> HIDE DEF q
  <1>4. q \in Seq(S) /\ Len(q) = n
    BY <1>1, <1>3
  <1>5. S = {} => n = 0
    BY FS_EmptySet
  <1>6. ASSUME NEW x, S = {x} PROVE q = <<x>>
    <2>1. n = 1
      BY <1>6, FS_Singleton
    <2>2. q[1] = x /\ Len(q) = 1 /\ q \in Seq({x})
      BY <1>3, <1>4, <1>6, <2>1
    <2>3. QED
      BY <2>2
  <1>7. QED
    BY <1>4, <1>5, <1>6 DEF q

\* The runs of rs whose announcement c hears.
Told(rs, c) == {r \in rs : c \in room'[r] \cap Reachable}

Presence(U) == [type |-> "presence", users |-> U]

LEMMA ParticipantsAreUsers ==
  ASSUME NEW members \in SUBSET Conns
  PROVE  Participants(members) \in SUBSET Users
  BY ConnIs DEF Participants, Users

LEMMA Announced ==
  ASSUME toClient \in [Conns -> Seq(Notices)], room' \in [Runs -> SUBSET Conns],
         NEW rs \in SUBSET Runs, NEW c \in Conns
  PROVE  /\ Announce(rs) \in [Conns -> Seq(Notices)]
         /\ Told(rs, c) = {} => Announce(rs)[c] = toClient[c]
         /\ \A r \in Runs : Told(rs, c) = {r} =>
              Announce(rs)[c] = Append(toClient[c], Presence(Participants(room'[r])))
  <1> DEFINE told(d) == SetToSeq(Told(rs, d))
             news(d) == [i \in 1 .. Len(told(d)) |->
                           [type |-> "presence", users |-> Participants(room'[told(d)[i]])]]
  <1>1. ASSUME NEW d \in Conns
        PROVE  /\ told(d) \in Seq(Runs) /\ news(d) \in Seq(Notices)
               /\ Told(rs, d) = {} => news(d) = <<>>
               /\ \A r \in Runs : Told(rs, d) = {r} =>
                    news(d) = <<Presence(Participants(room'[r]))>>
    <2>1. Told(rs, d) \subseteq Runs /\ IsFiniteSet(Told(rs, d))
      <3>1. Told(rs, d) \subseteq Runs
        BY DEF Told
      <3>2. QED
        BY <3>1, RunsAssumption, FS_Subset
    <2>2. told(d) \in Seq(Told(rs, d)) /\ (Told(rs, d) = {} => Len(told(d)) = 0)
          /\ \A x : Told(rs, d) = {x} => told(d) = <<x>>
      BY <2>1, SetToSeqIs
    <2> HIDE DEF told
    <2>3. told(d) \in Seq(Runs) /\ Len(told(d)) \in Nat
      BY <2>1, <2>2
    <2>4. \A i \in 1 .. Len(told(d)) :
            [type |-> "presence", users |-> Participants(room'[told(d)[i]])] \in Notices
      <3>1. SUFFICES ASSUME NEW i \in 1 .. Len(told(d))
                     PROVE  Participants(room'[told(d)[i]]) \in SUBSET Users
        BY DEF Notices
      <3>2. told(d)[i] \in Runs
        BY <2>3
      <3>3. room'[told(d)[i]] \in SUBSET Conns
        BY <3>2
      <3>4. QED
        BY <3>3, ParticipantsAreUsers
    <2>5. news(d) \in Seq(Notices)
      BY <2>3, <2>4
    <2>6. Told(rs, d) = {} => news(d) = <<>>
      BY <2>2
    <2>7. ASSUME NEW r \in Runs, Told(rs, d) = {r}
          PROVE  news(d) = <<Presence(Participants(room'[r]))>>
      <3>1. told(d) = <<r>>
        BY <2>2, <2>7
      <3>2. Len(told(d)) = 1 /\ told(d)[1] = r
        BY <3>1
      <3>3. Len(news(d)) = 1 /\ news(d)[1] = Presence(Participants(room'[r]))
        BY <3>2 DEF Presence
      <3> HIDE DEF news
      <3>4. QED
        BY <2>5, <3>3
    <2>8. QED
      BY <2>3, <2>5, <2>6, <2>7
  <1>2. Announce(rs) = [d \in Conns |-> toClient[d] \o news(d)]
    BY DEF Announce, Told
  <1> HIDE DEF news, told
  <1>3. \A d \in Conns : toClient[d] \in Seq(Notices)
    OBVIOUS
  <1>4. Announce(rs) \in [Conns -> Seq(Notices)]
    BY <1>1, <1>2, <1>3
  <1>5. Announce(rs)[c] = toClient[c] \o news(c)
    BY <1>2
  <1>6. Told(rs, c) = {} => Announce(rs)[c] = toClient[c]
    BY <1>1, <1>3, <1>5
  <1>7. ASSUME NEW r \in Runs, Told(rs, c) = {r}
        PROVE  Announce(rs)[c] = Append(toClient[c], Presence(Participants(room'[r])))
    <2>1. news(c) = <<Presence(Participants(room'[r]))>>
      BY <1>1, <1>7
    <2>2. Announce(rs)[c] = toClient[c] \o <<Presence(Participants(room'[r]))>>
      BY <1>5, <2>1
    <2>3. QED
      BY <1>3, <2>2
  <1>8. QED
    BY <1>4, <1>6, <1>7

-------------------------------------------------------------------------------
\* Types

LEMMA VisitTypes ==
  /\ Visits \subseteq Nat \ {0} /\ \A n \in {0} \cup Visits : n \in Nat
  /\ \A t \in Tabs : \A n \in Nat : n # 0 /\ n <= MaxVisits[t] => n \in Visits
  BY RoomAssumption DEF Visits

LEMMA ConnTypes ==
  ASSUME TypeOK, NEW t \in Tabs, conn[t] # NoConn
  PROVE  conn[t] \in Conns /\ conn[t][1] = t /\ conn[t][2] = opened[t]
  BY DEF TypeOK

\* What is emitted waits on the connection, is kept for the next one, or is lost.
LEMMA Emitted ==
  ASSUME TypeOK, NEW t \in Tabs, NEW messages \in Seq(Requests), Emit(t, messages)
  PROVE  /\ outbox' \in [Tabs -> Seq(Requests)] /\ toServer' \in [Conns -> Seq(Requests)]
         /\ \A x \in Tabs : outbox'[x] = IF x = t /\ conn[t] = NoConn
                                         THEN outbox[x] \o messages ELSE outbox[x]
         /\ \A c \in Conns : toServer'[c] = IF c = conn[t] /\ c \in up
                                            THEN toServer[c] \o messages ELSE toServer[c]
  <1>1. /\ outbox \in [Tabs -> Seq(Requests)] /\ toServer \in [Conns -> Seq(Requests)]
        /\ outbox[t] \o messages \in Seq(Requests)
        /\ \A c \in Conns : toServer[c] \o messages \in Seq(Requests)
    BY DEF TypeOK
  <1>2. CASE conn[t] = NoConn
    BY <1>1, <1>2, NoConnAssumption DEF Emit
  <1>3. CASE conn[t] # NoConn
    <2>1. conn[t] \in Conns
      BY <1>3, ConnTypes
    <2>2. QED
      BY <1>1, <1>3, <2>1 DEF Emit
  <1>4. QED
    BY <1>2, <1>3

LEMMA TypeInit == Init => TypeOK
  <1> SUFFICES ASSUME Init PROVE TypeOK
    OBVIOUS
  <1>1. ASSUME NEW t \in Tabs, 1 \notin 1 .. MaxConns[t] PROVE FALSE
    BY <1>1, FirstConnAssumption, RoomAssumption
  <1>2. \A t \in Tabs : <<t, 1>> \in Conns
    BY <1>1, ConnIs
  <1>3. \A t \in Tabs : <<t, 1>> # NoConn
    BY <1>2, NoConnAssumption
  <1>4. \A t \in Tabs : 1 <= MaxConns[t] /\ 0 <= MaxVisits[t]
    BY <1>1, RoomAssumption
  <1>5. up \subseteq Conns /\ \A c \in up : c[2] = 1 /\ c[1] \in Tabs
    BY <1>2 DEF Init
  <1>6. QED
    BY <1>2, <1>3, <1>4, <1>5 DEF Init, TypeOK

LEMMA OpenTypes ==
  ASSUME TypeOK, NEW t \in Tabs, NEW r \in Runs, Open(t, r)
  PROVE  TypeOK'
  <1>1. visit'[t] = visit[t] + 1 /\ visit'[t] \in Visits /\ visit'[t] <= MaxVisits[t]
        /\ visit'[t] # 0
    <2>a. visit' = [visit EXCEPT ![t] = @ + 1] /\ visit[t] < MaxVisits[t]
      BY DEF Open
    <2>b. visit \in [Tabs -> {0} \cup Visits]
      BY DEF TypeOK
    <2>1. visit[t] \in {0} \cup Visits /\ visit'[t] = visit[t] + 1 /\ visit[t] < MaxVisits[t]
      BY <2>a, <2>b
    <2>2. visit[t] \in Nat /\ MaxVisits[t] \in Nat
      BY <2>1, VisitTypes, RoomAssumption
    <2>3. visit'[t] \in Nat \ {0} /\ visit'[t] <= MaxVisits[t]
      BY <2>1, <2>2
    <2>4. QED
      BY <2>1, <2>3, VisitTypes
  <1> DEFINE messages == IF conn[t] = NoConn THEN <<>> ELSE <<Request("join", t, r)>>
  <1>2. messages \in Seq(Requests) /\ Emit(t, messages)
    <2>1. Request("join", t, r) \in Requests
      BY <1>1 DEF Request, Requests
    <2>2. Emit(t, messages)
      BY DEF Open
    <2>3. QED
      BY <2>1, <2>2
  <1> HIDE DEF messages
  <1>3. /\ outbox' \in [Tabs -> Seq(Requests)] /\ toServer' \in [Conns -> Seq(Requests)]
        /\ \A x \in Tabs : conn[x] # NoConn => outbox'[x] = <<>>
        /\ \A c \in Conns : c \notin up => toServer'[c] = <<>>
    BY <1>2, Emitted DEF TypeOK
  <1>4. /\ page' = [page EXCEPT ![t] = r] /\ visit' = [visit EXCEPT ![t] = @ + 1]
        /\ UNCHANGED <<conn, view, opened, up, toClient, checking, room, overtaken,
                       unchecked>>
    BY DEF Open
  <1>5. visit' \in [Tabs -> {0} \cup Visits]
    BY <1>1, <1>4 DEF TypeOK
  <1>6. page' \in [Tabs -> Runs \cup {NoRun}]
    BY <1>4 DEF TypeOK
  <1>7. \A x \in Tabs : /\ visit'[x] <= MaxVisits[x]
                        /\ page'[x] # NoRun => visit'[x] # 0
                        /\ page'[x] = NoRun => view'[x] = {}
    BY <1>1, <1>4, RoomAssumption DEF TypeOK
  <1>8. \A x \in Tabs : /\ opened'[x] <= MaxConns[x]
                        /\ conn'[x] # NoConn => conn'[x] = <<x, opened'[x]>> /\ outbox'[x] = <<>>
    BY <1>3, <1>4 DEF TypeOK
  <1>9. /\ conn' \in [Tabs -> Conns \cup {NoConn}] /\ view' \in [Tabs -> SUBSET Users]
        /\ opened' \in [Tabs -> Nat] /\ up' \subseteq Conns
        /\ toClient' \in [Conns -> Seq(Notices)] /\ checking' \subseteq Checks
        /\ room' \in [Runs -> SUBSET Conns] /\ overtaken' \subseteq [conn : Conns, run : Runs]
        /\ unchecked' \subseteq Checks
        /\ \A c \in Conns : /\ c \in up' => c[2] <= opened'[c[1]]
                            /\ c \notin up' => toServer'[c] = <<>>
    BY <1>3, <1>4 DEF TypeOK
  <1>a. \A x \in Tabs : /\ opened'[x] <= MaxConns[x]
                        /\ visit'[x] <= MaxVisits[x]
                        /\ page'[x] # NoRun => visit'[x] # 0
                        /\ page'[x] = NoRun => view'[x] = {}
                        /\ conn'[x] # NoConn => conn'[x] = <<x, opened'[x]>> /\ outbox'[x] = <<>>
    BY <1>7, <1>8
  <1>10. QED
    BY ONLY <1>3, <1>5, <1>6, <1>a, <1>9 DEF TypeOK

LEMMA CloseTypes ==
  ASSUME TypeOK, NEW t \in Tabs, Close(t)
  PROVE  TypeOK'
  <1>1. page[t] \in Runs /\ visit' = visit /\ visit[t] \in Visits
    BY DEF Close, TypeOK
  <1> DEFINE messages == <<Request("leave", t, page[t])>>
  <1>2. messages \in Seq(Requests) /\ Emit(t, messages)
    BY <1>1 DEF Close, Request, Requests
  <1> HIDE DEF messages
  <1>3. /\ outbox' \in [Tabs -> Seq(Requests)] /\ toServer' \in [Conns -> Seq(Requests)]
        /\ \A x \in Tabs : conn[x] # NoConn => outbox'[x] = <<>>
        /\ \A c \in Conns : c \notin up => toServer'[c] = <<>>
    BY <1>2, Emitted DEF TypeOK
  <1>4. /\ page' = [page EXCEPT ![t] = NoRun] /\ view' = [view EXCEPT ![t] = {}]
        /\ UNCHANGED <<conn, opened, up, toClient, checking, room, overtaken, unchecked>>
    BY DEF Close
  <1>5. page' \in [Tabs -> Runs \cup {NoRun}] /\ view' \in [Tabs -> SUBSET Users]
    BY <1>4 DEF TypeOK
  <1>6. \A x \in Tabs : /\ page'[x] # NoRun => visit[x] # 0
                        /\ page'[x] = NoRun => view'[x] = {}
    BY <1>4 DEF TypeOK
  <1>7. \A x \in Tabs : /\ opened'[x] <= MaxConns[x] /\ visit'[x] <= MaxVisits[x]
                        /\ conn'[x] # NoConn => conn'[x] = <<x, opened'[x]>> /\ outbox'[x] = <<>>
    BY <1>1, <1>3, <1>4 DEF TypeOK
  <1>8. /\ conn' \in [Tabs -> Conns \cup {NoConn}] /\ visit' \in [Tabs -> {0} \cup Visits]
        /\ opened' \in [Tabs -> Nat] /\ up' \subseteq Conns
        /\ toClient' \in [Conns -> Seq(Notices)] /\ checking' \subseteq Checks
        /\ room' \in [Runs -> SUBSET Conns] /\ overtaken' \subseteq [conn : Conns, run : Runs]
        /\ unchecked' \subseteq Checks
        /\ \A c \in Conns : /\ c \in up' => c[2] <= opened'[c[1]]
                            /\ c \notin up' => toServer'[c] = <<>>
    BY <1>1, <1>3, <1>4 DEF TypeOK
  <1>a. \A x \in Tabs : /\ opened'[x] <= MaxConns[x]
                        /\ visit'[x] <= MaxVisits[x]
                        /\ page'[x] # NoRun => visit'[x] # 0
                        /\ page'[x] = NoRun => view'[x] = {}
                        /\ conn'[x] # NoConn => conn'[x] = <<x, opened'[x]>> /\ outbox'[x] = <<>>
    BY <1>1, <1>6, <1>7
  <1>9. QED
    BY ONLY <1>3, <1>5, <1>a, <1>8 DEF TypeOK

\* The next connection of a tab.
Next1(t) == <<t, opened[t] + 1>>

LEMMA Connected ==
  ASSUME TypeOK, NEW t \in Tabs, Connect(t)
  PROVE  /\ Next1(t) \in Conns /\ Next1(t) # NoConn /\ Next1(t) \notin up
         /\ opened' = [opened EXCEPT ![t] = @ + 1] /\ opened'[t] = opened[t] + 1
         /\ conn' = [conn EXCEPT ![t] = Next1(t)]
         /\ up' = up \cup {Next1(t)}
         /\ toServer' = [toServer EXCEPT ![Next1(t)] = Greeting(t)]
         /\ Greeting(t) \in Seq(Requests)
  <1>1. opened[t] \in Nat /\ opened'[t] = opened[t] + 1 /\ opened[t] + 1 <= MaxConns[t]
    <2>1. opened \in [Tabs -> Nat] /\ opened' = [opened EXCEPT ![t] = @ + 1]
          /\ opened[t] < MaxConns[t] /\ MaxConns[t] \in Nat
      BY RoomAssumption DEF Connect, TypeOK
    <2>2. QED
      BY <2>1
  <1>2. Next1(t) \in Conns
    BY <1>1, ConnIs, RoomAssumption DEF Next1
  <1>3. Next1(t) \notin up
    BY <1>1 DEF TypeOK, Next1
  <1>4. Greeting(t) \in Seq(Requests)
    <2>1. page[t] # NoRun => [type |-> "join", run |-> page[t], visit |-> visit[t]] \in Requests
      BY DEF TypeOK, Requests
    <2>2. outbox[t] \in Seq(Requests)
      BY DEF TypeOK
    <2>3. QED
      BY <2>1, <2>2 DEF Greeting
  <1>5. QED
    BY <1>1, <1>2, <1>3, <1>4, NoConnAssumption DEF Connect, Next1

LEMMA ConnectTypes ==
  ASSUME TypeOK, NEW t \in Tabs, Connect(t)
  PROVE  TypeOK'
  <1>1. /\ outbox' = [outbox EXCEPT ![t] = <<>>]
        /\ UNCHANGED <<page, visit, view, toClient, checking, room, overtaken, unchecked>>
        /\ opened[t] < MaxConns[t]
    BY DEF Connect
  <1> DEFINE d == Next1(t)
  <1>2. /\ d \in Conns /\ d # NoConn /\ d = <<t, opened'[t]>> /\ opened'[t] = opened[t] + 1
        /\ opened' = [opened EXCEPT ![t] = @ + 1]
        /\ conn' = [conn EXCEPT ![t] = d] /\ up' = up \cup {d}
        /\ toServer' = [toServer EXCEPT ![d] = Greeting(t)] /\ Greeting(t) \in Seq(Requests)
    BY Connected DEF Next1
  <1> HIDE DEF d
  <1>3. /\ opened' \in [Tabs -> Nat] /\ conn' \in [Tabs -> Conns \cup {NoConn}]
        /\ outbox' \in [Tabs -> Seq(Requests)] /\ toServer' \in [Conns -> Seq(Requests)]
    BY <1>1, <1>2 DEF TypeOK
  <1>4. \A x \in Tabs : /\ opened'[x] <= MaxConns[x] /\ opened[x] <= opened'[x]
                        /\ conn'[x] # NoConn => conn'[x] = <<x, opened'[x]>> /\ outbox'[x] = <<>>
    <2>1. ASSUME NEW x \in Tabs
          PROVE  /\ opened[x] \in Nat /\ MaxConns[x] \in Nat /\ opened[x] <= MaxConns[x]
                 /\ conn[x] # NoConn => conn[x] = <<x, opened[x]>> /\ outbox[x] = <<>>
      BY RoomAssumption DEF TypeOK
    <2>2. \A x \in Tabs : opened'[x] = IF x = t THEN opened[x] + 1 ELSE opened[x]
      BY <1>2 DEF TypeOK
    <2>3. \A x \in Tabs : conn'[x] = IF x = t THEN d ELSE conn[x]
      BY <1>2 DEF TypeOK
    <2>4. \A x \in Tabs : outbox'[x] = IF x = t THEN <<>> ELSE outbox[x]
      BY <1>1 DEF TypeOK
    <2>5. \A x \in Tabs : opened'[x] <= MaxConns[x] /\ opened[x] <= opened'[x]
      BY <1>1, <2>1, <2>2
    <2>6. \A x \in Tabs : conn'[x] # NoConn => conn'[x] = <<x, opened'[x]>> /\ outbox'[x] = <<>>
      BY <1>2, <2>1, <2>2, <2>3, <2>4
    <2>7. QED
      BY <2>5, <2>6
  <1>5. \A c \in Conns : /\ c \in up' => c[2] <= opened'[c[1]]
                         /\ c \notin up' => toServer'[c] = <<>>
    <2>1. ASSUME NEW c \in up PROVE c[2] <= opened'[c[1]]
      <3>1. c[1] \in Tabs /\ c[2] \in Nat /\ c[2] <= opened[c[1]] /\ c \in Conns
        BY ConnIs, RoomAssumption DEF TypeOK
      <3>2. QED
        BY <1>3, <1>4, <3>1 DEF TypeOK
    <2>2. d[2] <= opened'[d[1]]
      BY <1>2, <1>3
    <2>3. QED
      BY <1>2, <2>1, <2>2 DEF TypeOK
  <1>6. QED
    BY <1>1, <1>2, <1>3, <1>4, <1>5 DEF TypeOK

LEMMA DropTypes ==
  ASSUME TypeOK, NEW t \in Tabs, Drop(t)
  PROVE  TypeOK'
  BY NoConnAssumption DEF Drop, TypeOK

LEMMA DeliverTypes ==
  ASSUME TypeOK, NEW t \in Tabs, Deliver(t)
  PROVE  TypeOK'
  <1> DEFINE c == conn[t]
             notice == Head(toClient[c])
  <1>1. c \in Conns /\ toClient[c] \in Seq(Notices) /\ toClient[c] # <<>>
    BY ConnTypes DEF Deliver, TypeOK
  <1>2. notice \in Notices /\ notice.users \in SUBSET Users /\ Tail(toClient[c]) \in Seq(Notices)
    <2>1. notice \in Notices /\ Tail(toClient[c]) \in Seq(Notices)
      BY <1>1
    <2>2. QED
      BY <2>1 DEF Notices
  <1>3. /\ view' = IF Concerns(notice, t) THEN [view EXCEPT ![t] = notice.users] ELSE view
        /\ toClient' = [toClient EXCEPT ![c] = Tail(@)]
        /\ UNCHANGED <<page, visit, conn, outbox, opened, up, toServer, checking, room, overtaken,
                       unchecked>>
    BY DEF Deliver
  <1> HIDE DEF c, notice
  <1>4. toClient' \in [Conns -> Seq(Notices)]
    BY <1>1, <1>2, <1>3 DEF TypeOK
  <1>5. view' \in [Tabs -> SUBSET Users]
    BY <1>2, <1>3 DEF TypeOK
  <1>6. \A x \in Tabs : page[x] = NoRun => view'[x] = {}
    BY <1>3 DEF TypeOK, Concerns
  <1>7. QED
    BY <1>3, <1>4, <1>5, <1>6 DEF TypeOK

\* What a connection still has under way is taken from the front.
LEMMA Received ==
  ASSUME TypeOK, NEW c \in Conns, toServer[c] # <<>>
  PROVE  /\ Head(toServer[c]) \in Requests /\ Tail(toServer[c]) \in Seq(Requests)
         /\ Head(toServer[c]) = toServer[c][1]
         /\ toServer[c] \in Seq(Requests) /\ Len(toServer[c]) \in Nat \ {0}
         /\ Len(Tail(toServer[c])) = Len(toServer[c]) - 1
         /\ \A i \in 1 .. Len(toServer[c]) - 1 : Tail(toServer[c])[i] = toServer[c][i + 1]
  <1>1. toServer[c] \in Seq(Requests)
    BY DEF TypeOK
  <1>2. QED
    BY <1>1

LEMMA ReceiveJoinTypes ==
  ASSUME TypeOK, NEW c \in Conns, ReceiveJoin(c)
  PROVE  TypeOK'
  <1> DEFINE request == Head(toServer[c])
             j == [conn |-> c, run |-> request.run, visit |-> request.visit]
  <1>1. request \in Requests /\ Tail(toServer[c]) \in Seq(Requests)
    BY Received DEF ReceiveJoin
  <1>2. j \in Checks
    BY <1>1 DEF Requests, Checks
  <1>3. /\ checking' = checking \cup {j} /\ c \in up
        /\ toServer' = [toServer EXCEPT ![c] = Tail(@)]
        /\ UNCHANGED <<page, visit, conn, view, outbox, opened, up, toClient, room, overtaken,
                       unchecked>>
    BY DEF ReceiveJoin
  <1> HIDE DEF request, j
  <1>4. QED
    BY <1>1, <1>2, <1>3 DEF TypeOK

LEMMA CheckTypes ==
  ASSUME TypeOK, NEW j \in checking
  PROVE  j.conn \in Conns /\ j.run \in Runs /\ j.visit \in Visits
         /\ j = [conn |-> j.conn, run |-> j.run, visit |-> j.visit]
  BY DEF TypeOK, Checks

\* The ack of a join that was answered.
Ack(j, U) == [type |-> "ack", visit |-> j.visit, users |-> U]

\* A check that was answered with yes.
LEMMA Joined ==
  ASSUME TypeOK, NEW j \in checking, FinishJoin(j),
         <<UserOf[j.conn[1]], j.run>> \in Readable
  PROVE  /\ room' = [room EXCEPT ![j.run] = @ \cup {j.conn}]
         /\ room' \in [Runs -> SUBSET Conns]
         /\ toClient' \in [Conns -> Seq(Notices)]
         /\ Announce({j.run}) \in [Conns -> Seq(Notices)]
         /\ Ack(j, Participants(room'[j.run])) \in Notices
         /\ \A c \in Conns :
              toClient'[c] = IF c = j.conn /\ c \in Reachable
                             THEN Append(Announce({j.run})[c],
                                         Ack(j, Participants(room'[j.run])))
                             ELSE Announce({j.run})[c]
  <1> DEFINE told == Announce({j.run})
             ack == Ack(j, Participants(room'[j.run]))
  <1>1. /\ room' = [room EXCEPT ![j.run] = @ \cup {j.conn}]
        /\ toClient' = [told EXCEPT ![j.conn] = IF j.conn \in Reachable
                                                THEN Append(@, ack) ELSE @]
    BY DEF FinishJoin, Ack
  <1>2. room' \in [Runs -> SUBSET Conns]
    BY <1>1, CheckTypes DEF TypeOK
  <1>3. told \in [Conns -> Seq(Notices)]
    BY <1>2, CheckTypes, Announced DEF TypeOK
  <1>4. ack \in Notices
    BY <1>2, CheckTypes, ParticipantsAreUsers DEF Ack, Notices
  <1> HIDE DEF told, ack
  <1>5. \A c \in Conns : Append(told[c], ack) \in Seq(Notices)
    BY <1>3, <1>4
  <1>6. toClient' \in [Conns -> Seq(Notices)]
    BY <1>1, <1>3, <1>5
  <1>7. \A c \in Conns : toClient'[c] = IF c = j.conn /\ c \in Reachable
                                        THEN Append(told[c], ack) ELSE told[c]
    BY <1>1, <1>3
  <1>8. QED
    BY <1>1, <1>2, <1>3, <1>4, <1>6, <1>7 DEF told, ack

LEMMA FinishJoinTypes ==
  ASSUME TypeOK, NEW j \in checking, FinishJoin(j)
  PROVE  TypeOK'
  <1>1. /\ checking' = checking \ {j}
        /\ UNCHANGED <<page, visit, conn, view, outbox, opened, up, toServer, overtaken,
                       unchecked>>
    BY DEF FinishJoin
  <1>2. room' \in [Runs -> SUBSET Conns] /\ toClient' \in [Conns -> Seq(Notices)]
    <2>1. CASE <<UserOf[j.conn[1]], j.run>> \in Readable
      BY <2>1, Joined
    <2>2. CASE <<UserOf[j.conn[1]], j.run>> \notin Readable
      BY <2>2 DEF FinishJoin, TypeOK
    <2>3. QED
      BY <2>1, <2>2
  <1>3. QED
    BY <1>1, <1>2 DEF TypeOK

LEMMA OvertakenTypes ==
  ASSUME TypeOK, NEW S \in SUBSET checking
  PROVE  overtaken \cup {[conn |-> j.conn, run |-> j.run] : j \in S}
           \subseteq [conn : Conns, run : Runs]
  BY CheckTypes DEF TypeOK

LEMMA ReceiveLeaveTypes ==
  ASSUME TypeOK, NEW c \in Conns, ReceiveLeave(c)
  PROVE  TypeOK'
  <1> DEFINE r == Head(toServer[c]).run
             S == {k \in checking : k.conn = c /\ k.run = r}
  <1>1. r \in Runs /\ Tail(toServer[c]) \in Seq(Requests)
    BY Received DEF ReceiveLeave, Requests
  <1>2. /\ room' = [room EXCEPT ![r] = @ \ {c}] /\ toClient' = Announce({r}) /\ c \in up
        /\ overtaken' = overtaken \cup {[conn |-> j.conn, run |-> j.run] : j \in S}
        /\ toServer' = [toServer EXCEPT ![c] = Tail(@)]
        /\ UNCHANGED <<page, visit, conn, view, outbox, opened, up, checking, unchecked>>
    BY DEF ReceiveLeave
  <1>3. S \in SUBSET checking
    OBVIOUS
  <1> HIDE DEF r, S
  <1>4. room' \in [Runs -> SUBSET Conns]
    BY <1>1, <1>2 DEF TypeOK
  <1>5. toClient' \in [Conns -> Seq(Notices)]
    BY <1>1, <1>2, <1>4, Announced DEF TypeOK
  <1>6. overtaken' \subseteq [conn : Conns, run : Runs]
    BY <1>2, <1>3, OvertakenTypes
  <1>7. QED
    BY <1>1, <1>2, <1>4, <1>5, <1>6 DEF TypeOK

LEMMA DisconnectTypes ==
  ASSUME TypeOK, NEW c \in Conns, Disconnect(c)
  PROVE  TypeOK'
  <1> DEFINE rs == {r \in Runs : c \in room[r]}
             S == {k \in checking : k.conn = c}
  <1>1. /\ room' = [r \in Runs |-> room[r] \ {c}] /\ toClient' = Announce(rs)
        /\ overtaken' = overtaken \cup {[conn |-> j.conn, run |-> j.run] : j \in S}
        /\ up' = up \ {c} /\ toServer' = [toServer EXCEPT ![c] = <<>>]
        /\ UNCHANGED <<page, visit, conn, view, outbox, opened, checking, unchecked>>
    BY DEF Disconnect
  <1>2. rs \in SUBSET Runs /\ S \in SUBSET checking
    OBVIOUS
  <1> HIDE DEF rs, S
  <1>3. room' \in [Runs -> SUBSET Conns]
    BY <1>1 DEF TypeOK
  <1>4. toClient' \in [Conns -> Seq(Notices)]
    BY <1>1, <1>2, <1>3, Announced DEF TypeOK
  <1>5. overtaken' \subseteq [conn : Conns, run : Runs]
    BY <1>1, <1>2, OvertakenTypes
  <1>6. /\ toServer' \in [Conns -> Seq(Requests)] /\ up' \subseteq Conns
        /\ \A d \in Conns : /\ d \in up' => d[2] <= opened'[d[1]]
                            /\ d \notin up' => toServer'[d] = <<>>
    BY <1>1 DEF TypeOK
  <1>7. QED
    BY <1>1, <1>3, <1>4, <1>5, <1>6 DEF TypeOK

LEMMA JoinFailsTypes ==
  ASSUME TypeOK, NEW j \in checking, JoinFails(j)
  PROVE  TypeOK'
  BY DEF JoinFails, TypeOK

LEMMA RestartTypes == TypeOK /\ Restart => TypeOK'
  BY DEF Restart, TypeOK

-------------------------------------------------------------------------------
\* Who is admitted

JoinOf(t)  == [type |-> "join", run |-> page[t], visit |-> visit[t]]
CheckOf(t) == [conn |-> conn[t], run |-> page[t], visit |-> visit[t]]

\* The tab may read the run, and the check of its join did not end in an error.
Awaited(t) == MayRead(conn[t], page[t]) /\ CheckOf(t) \notin unchecked

\* The join of the page is the last request under way or has been answered.
AdmittedAt(t) ==
  \/ toServer[conn[t]] # <<>> /\ Last(toServer[conn[t]]) = JoinOf(t)
  \/ /\ toServer[conn[t]] = <<>>
     /\ Awaited(t) => CheckOf(t) \in checking \/ conn[t] \in room[page[t]]

Serving  == {t \in Tabs : page[t] # NoRun /\ conn[t] \in up}
Admitted == \A t \in Serving : AdmittedAt(t)

\* A tab keeps leaves only: the connect handler joins for the page that is open then.
LeavesKept == \A t \in Tabs : \A i \in 1 .. Len(outbox[t]) : outbox[t][i].type = "leave"

LEMMA ServingTabs ==
  ASSUME TypeOK, NEW t \in Serving
  PROVE  /\ t \in Tabs /\ page[t] \in Runs /\ conn[t] \in Conns /\ conn[t] \in up
         /\ conn[t] # NoConn /\ conn[t][1] = t /\ outbox[t] = <<>>
         /\ toServer[conn[t]] \in Seq(Requests)
         /\ \A x \in Tabs \ {t} : conn[x] # conn[t]
  <1>1. t \in Tabs /\ page[t] \in Runs /\ conn[t] \in Conns /\ conn[t] \in up
    BY DEF Serving, TypeOK
  <1>2. conn[t] # NoConn
    BY <1>1, NoConnAssumption
  <1>3. \A x \in Tabs \ {t} : conn[x] # conn[t]
    BY <1>1, <1>2, ConnTypes
  <1>4. QED
    BY <1>1, <1>2, <1>3, ConnTypes DEF TypeOK

\* A step elsewhere.
LEMMA AdmittedStays ==
  ASSUME TypeOK, NEW x \in Serving, AdmittedAt(x),
         page'[x] = page[x], visit'[x] = visit[x], conn'[x] = conn[x],
         toServer'[conn[x]] = toServer[conn[x]],
         unchecked \subseteq unchecked',
         CheckOf(x) \in checking => \/ CheckOf(x) \in checking'
                                    \/ conn[x] \in room'[page[x]]
                                    \/ ~MayRead(conn[x], page[x])
                                    \/ CheckOf(x) \in unchecked',
         conn[x] \in room[page[x]] => conn[x] \in room'[page[x]]
  PROVE  AdmittedAt(x)'
  <1>1. JoinOf(x)' = JoinOf(x) /\ CheckOf(x)' = CheckOf(x)
        /\ (MayRead(conn[x], page[x])' <=> MayRead(conn[x], page[x]))
    BY DEF JoinOf, CheckOf, MayRead
  <1>2. Awaited(x)' => Awaited(x) /\ CheckOf(x) \notin unchecked'
    BY <1>1 DEF Awaited
  <1>3. Awaited(x) => MayRead(conn[x], page[x])
    BY DEF Awaited
  <1> HIDE DEF JoinOf, CheckOf, MayRead, Awaited
  <1>4. QED
    BY <1>1, <1>2, <1>3 DEF AdmittedAt

LEMMA NoneOf == \A s \in Seq(Requests) : Len(s) = 0 <=> s = <<>>
  OBVIOUS

LEMMA Joint ==
  ASSUME NEW q \in Seq(Requests), NEW more \in Seq(Requests)
  PROVE  /\ q \o more \in Seq(Requests) /\ Len(q) \in Nat /\ Len(more) \in Nat
         /\ Len(q \o more) = Len(q) + Len(more)
         /\ \A i \in 1 .. Len(q) + Len(more) :
              (q \o more)[i] = IF i <= Len(q) THEN q[i] ELSE more[i - Len(q)]
         /\ \A i \in 1 .. Len(q) : (q \o more)[i] = q[i]
  OBVIOUS

LEMMA Appended ==
  ASSUME NEW q \in Seq(Requests), NEW more \in Seq(Requests), Len(more) = 1
  PROVE  /\ q \o more \in Seq(Requests)
         /\ Len(q) \in Nat /\ Len(q \o more) = Len(q) + 1
         /\ (q \o more)[Len(q) + 1] = more[1]
         /\ \A i \in 1 .. Len(q) : (q \o more)[i] = q[i]
  <1>1. q \o more \in Seq(Requests) /\ Len(q) \in Nat
    BY Joint
  <1>2. Len(q \o more) = Len(q) + Len(more)
    BY Joint
  <1>3. \A i \in 1 .. Len(q) + Len(more) :
          (q \o more)[i] = IF i <= Len(q) THEN q[i] ELSE more[i - Len(q)]
    BY Joint
  <1>4. PICK n \in Nat : n = Len(q)
    BY <1>1
  <1>5. n + 1 \in 1 .. n + 1 /\ ~(n + 1 <= n) /\ (n + 1) - n = 1
    BY <1>4
  <1>6. (q \o more)[n + 1] = more[1]
    BY ONLY <1>3, <1>4, <1>5, Len(more) = 1
  <1>7. \A i \in 1 .. Len(q) : (q \o more)[i] = q[i]
    BY Joint
  <1>8. QED
    BY <1>1, <1>2, <1>4, <1>6, <1>7

LEMMA LastOf ==
  /\ \A s \in Seq(Requests) : \A m \in Requests :
       s \o <<m>> # <<>> /\ Last(s \o <<m>>) = m
  /\ \A s \in Seq(Requests) : s # <<>> =>
       /\ Tail(s) # <<>> => Last(Tail(s)) = Last(s)
       /\ Tail(s) = <<>> => Last(s) = Head(s)
  <1>1. ASSUME NEW s \in Seq(Requests), NEW m \in Requests
        PROVE  s \o <<m>> # <<>> /\ Last(s \o <<m>>) = m
    <2>1. Len(s \o <<m>>) = Len(s) + 1 /\ (s \o <<m>>)[Len(s) + 1] = m
      OBVIOUS
    <2>2. QED
      BY <2>1 DEF Last
  <1>2. ASSUME NEW s \in Seq(Requests), s # <<>>
        PROVE  /\ Tail(s) # <<>> => Last(Tail(s)) = Last(s)
               /\ Tail(s) = <<>> => Last(s) = Head(s)
    <2>1. Len(s) \in Nat \ {0} /\ Head(s) = s[1] /\ Len(Tail(s)) = Len(s) - 1
      BY <1>2
    <2>2. \A i \in 1 .. Len(s) - 1 : Tail(s)[i] = s[i + 1]
      BY <1>2
    <2>3. ASSUME Tail(s) # <<>> PROVE Last(Tail(s)) = Last(s)
      <3>1. Len(s) - 1 \in 1 .. Len(s) - 1
        BY <1>2, <2>1, <2>3
      <3>2. Tail(s)[Len(s) - 1] = s[Len(s)]
        BY <2>1, <2>2, <3>1
      <3>3. QED
        BY <2>1, <3>2 DEF Last
    <2>4. ASSUME Tail(s) = <<>> PROVE Last(s) = Head(s)
      <3> DEFINE rest == Tail(s)
      <3>a. Len(rest) = Len(s) - 1
        BY <2>1
      <3>1. Tail(s) \in Seq(Requests)
        BY <1>2
      <3>2. Len(Tail(s)) = 0
        BY <2>4, <3>1, NoneOf
      <3>b. Len(rest) = 0
        BY <3>2
      <3> HIDE DEF rest
      <3>3. Len(s) = 1
        BY <2>1, <3>a, <3>b
      <3>4. QED
        BY <2>1, <3>3 DEF Last
    <2>5. QED
      BY <2>3, <2>4
  <1>3. QED
    BY <1>1, <1>2

LEMMA JoinIsRequest ==
  ASSUME TypeOK, NEW t \in Tabs, page[t] # NoRun
  PROVE  JoinOf(t) \in Requests /\ JoinOf(t).type = "join"
  BY DEF TypeOK, JoinOf, Requests

LEMMA AdmittedOpen ==
  ASSUME TypeOK, Admitted, NEW t \in Tabs, NEW r \in Runs, Open(t, r)
  PROVE  Admitted'
  <1>1. /\ page' = [page EXCEPT ![t] = r] /\ visit' = [visit EXCEPT ![t] = @ + 1]
        /\ page[t] = NoRun /\ UNCHANGED <<conn, up, checking, room, unchecked>>
        /\ Emit(t, IF conn[t] = NoConn THEN <<>> ELSE <<Request("join", t, r)>>)
    BY DEF Open
  <1>2. TypeOK'
    BY OpenTypes
  <1>3. ASSUME NEW x \in Serving', x # t PROVE AdmittedAt(x)'
    <2>1. x \in Serving /\ page'[x] = page[x] /\ visit'[x] = visit[x]
      BY <1>1, <1>3 DEF Serving, TypeOK
    <2>2. toServer'[conn[x]] = toServer[conn[x]]
      <3> DEFINE messages == IF conn[t] = NoConn THEN <<>> ELSE <<Request("join", t, r)>>
      <3>1. Request("join", t, r) = JoinOf(t)'
        BY <1>1 DEF Request, JoinOf, TypeOK
      <3>2. page'[t] # NoRun
        BY <1>1, RoomAssumption DEF TypeOK
      <3>3. JoinOf(t)' \in Requests
        BY <1>2, <3>2, RoomAssumption DEF TypeOK, JoinOf, Requests
      <3>4. messages \in Seq(Requests)
        BY <3>1, <3>3
      <3>5. Emit(t, messages)
        BY <1>1
      <3> HIDE DEF messages
      <3>6. \A c \in Conns : c # conn[t] => toServer'[c] = toServer[c]
        BY <3>4, <3>5, Emitted
      <3>7. conn[x] \in Conns /\ conn[x] # conn[t]
        BY <1>3, <2>1, ServingTabs
      <3>8. QED
        BY <3>6, <3>7
    <2>3. AdmittedAt(x)
      BY <2>1 DEF Admitted
    <2>4. QED
      BY <1>1, <2>1, <2>2, <2>3, AdmittedStays
  <1>4. ASSUME t \in Serving' PROVE AdmittedAt(t)'
    <2>1. conn[t] \in up /\ conn[t] # NoConn /\ conn[t] \in Conns /\ page'[t] = r
      BY <1>1, <1>4, NoConnAssumption DEF Serving, TypeOK
    <2>2. Request("join", t, r) = JoinOf(t)'
      BY <1>1, <2>1 DEF Request, JoinOf
    <2>3. JoinOf(t)' \in Requests
      BY <1>2, <2>1, RoomAssumption DEF TypeOK, JoinOf, Requests
    <2>4. toServer'[conn[t]] = toServer[conn[t]] \o <<JoinOf(t)'>>
      <3> DEFINE messages == <<JoinOf(t)'>>
      <3>1. messages \in Seq(Requests) /\ Emit(t, messages)
        BY <1>1, <2>1, <2>2, <2>3
      <3> HIDE DEF messages
      <3>2. toServer'[conn[t]] = toServer[conn[t]] \o messages
        BY <2>1, <3>1, Emitted
      <3>3. QED
        BY <3>2 DEF messages
    <2>5. toServer[conn[t]] \in Seq(Requests)
      BY <2>1 DEF TypeOK
    <2>6. toServer'[conn'[t]] # <<>> /\ Last(toServer'[conn'[t]]) = JoinOf(t)'
      BY <1>1, <2>3, <2>4, <2>5, LastOf
    <2>7. QED
      BY <2>6 DEF AdmittedAt
  <1>5. QED
    BY <1>3, <1>4 DEF Admitted

LEMMA AdmittedClose ==
  ASSUME TypeOK, Admitted, NEW t \in Tabs, Close(t)
  PROVE  Admitted'
  <1>1. /\ page' = [page EXCEPT ![t] = NoRun] /\ visit' = visit
        /\ page[t] \in Runs /\ UNCHANGED <<conn, up, checking, room, unchecked>>
        /\ Emit(t, <<Request("leave", t, page[t])>>)
    BY DEF Close, TypeOK
  <1>2. visit[t] \in Visits
    BY <1>1, RoomAssumption DEF TypeOK
  <1>3. Request("leave", t, page[t]) \in Requests
    BY <1>1, <1>2 DEF Request, Requests
  <1>4. SUFFICES ASSUME NEW x \in Serving' PROVE AdmittedAt(x)'
    BY DEF Admitted
  <1>5. x \in Serving /\ x # t /\ page'[x] = page[x]
    BY <1>1 DEF Serving, TypeOK
  <1>6. toServer'[conn[x]] = toServer[conn[x]]
    <2> DEFINE messages == <<Request("leave", t, page[t])>>
    <2>1. messages \in Seq(Requests) /\ Emit(t, messages)
      BY <1>1, <1>3
    <2> HIDE DEF messages
    <2>2. conn[x] \in Conns /\ conn[x] # conn[t]
      BY <1>5, ServingTabs
    <2>3. QED
      BY <2>1, <2>2, Emitted
  <1>7. AdmittedAt(x)
    BY <1>5 DEF Admitted
  <1>8. QED
    BY <1>1, <1>5, <1>6, <1>7, AdmittedStays

LEMMA AdmittedConnect ==
  ASSUME TypeOK, Admitted, NEW t \in Tabs, Connect(t)
  PROVE  Admitted'
  <1> DEFINE d == Next1(t)
  <1>1. /\ d \in Conns /\ d # NoConn /\ d \notin up /\ conn' = [conn EXCEPT ![t] = d]
        /\ up' = up \cup {d} /\ toServer' = [toServer EXCEPT ![d] = Greeting(t)]
        /\ UNCHANGED <<page, visit, checking, room, unchecked>>
    BY Connected DEF Connect
  <1> HIDE DEF d
  <1>2. ASSUME NEW x \in Serving', x # t PROVE AdmittedAt(x)'
    <2>1. conn'[x] = conn[x] /\ x \in Tabs /\ page[x] # NoRun /\ conn[x] \in up'
      BY <1>1, <1>2 DEF Serving, TypeOK
    <2>2. conn[x] # d
      <3>1. d[1] = t
        BY DEF d, Next1
      <3>2. QED
        BY <1>1, <1>2, <2>1, <3>1, ConnTypes
    <2>3. x \in Serving /\ conn[x] \in Conns
      BY <1>1, <2>1, <2>2 DEF Serving, TypeOK
    <2>4. toServer'[conn[x]] = toServer[conn[x]]
      BY <1>1, <2>2, <2>3 DEF TypeOK
    <2>5. QED
      BY <1>1, <2>1, <2>3, <2>4, AdmittedStays DEF Admitted
  <1>3. ASSUME t \in Serving' PROVE AdmittedAt(t)'
    <2>1. page[t] # NoRun /\ conn'[t] = d /\ toServer'[d] = Greeting(t)
      BY <1>1, <1>3 DEF Serving, TypeOK
    <2>2. Greeting(t) = outbox[t] \o <<JoinOf(t)>> /\ outbox[t] \in Seq(Requests)
      BY <2>1 DEF Greeting, JoinOf, TypeOK
    <2>3. JoinOf(t)' = JoinOf(t)
      BY <1>1 DEF JoinOf
    <2>4. toServer'[conn'[t]] # <<>> /\ Last(toServer'[conn'[t]]) = JoinOf(t)'
      BY <2>1, <2>2, <2>3, LastOf, JoinIsRequest
    <2>5. QED
      BY <2>4 DEF AdmittedAt
  <1>4. QED
    BY <1>2, <1>3 DEF Admitted

LEMMA AdmittedDrop ==
  ASSUME TypeOK, Admitted, NEW t \in Tabs, Drop(t)
  PROVE  Admitted'
  <1>1. conn' = [conn EXCEPT ![t] = NoConn]
        /\ UNCHANGED <<page, visit, up, toServer, checking, room, unchecked>>
    BY DEF Drop
  <1>2. SUFFICES ASSUME NEW x \in Serving' PROVE AdmittedAt(x)'
    BY DEF Admitted
  <1>3. x # t /\ x \in Serving /\ conn'[x] = conn[x]
    BY <1>1, NoConnAssumption DEF Serving, TypeOK
  <1>4. QED
    BY <1>1, <1>3, AdmittedStays DEF Admitted

LEMMA AdmittedReceiveJoin ==
  ASSUME TypeOK, Admitted, NEW c \in Conns, ReceiveJoin(c)
  PROVE  Admitted'
  <1> DEFINE q == toServer[c]
             j == [conn |-> c, run |-> Head(q).run, visit |-> Head(q).visit]
  <1>1. /\ q # <<>> /\ q \in Seq(Requests) /\ toServer' = [toServer EXCEPT ![c] = Tail(q)]
        /\ checking' = checking \cup {j} /\ UNCHANGED <<page, visit, conn, up, room,
                                                        unchecked>>
    BY DEF ReceiveJoin, TypeOK
  <1>2. SUFFICES ASSUME NEW x \in Serving' PROVE AdmittedAt(x)'
    BY DEF Admitted
  <1>3. x \in Serving /\ AdmittedAt(x)
    BY <1>1, <1>2 DEF Serving, Admitted
  <1>4. CASE conn[x] # c
    <2>1. toServer'[conn[x]] = toServer[conn[x]]
      BY <1>1, <1>3, <1>4, ServingTabs DEF TypeOK
    <2>2. QED
      BY <1>1, <1>3, <2>1, AdmittedStays
  <1>5. CASE conn[x] = c
    <2>1. Last(q) = JoinOf(x) /\ toServer'[c] = Tail(q)
      BY <1>1, <1>3, <1>5 DEF AdmittedAt, TypeOK
    <2>2. JoinOf(x)' = JoinOf(x) /\ CheckOf(x)' = CheckOf(x) /\ conn'[x] = c
      BY <1>1, <1>5 DEF JoinOf, CheckOf
    <2>3. CASE Tail(q) # <<>>
      <3>1. Last(Tail(q)) = JoinOf(x)
        BY <1>1, <2>1, <2>3, LastOf
      <3>2. QED
        BY <2>1, <2>2, <2>3, <3>1 DEF AdmittedAt
    <2>4. CASE Tail(q) = <<>>
      <3>1. Head(q) = JoinOf(x)
        BY <1>1, <2>1, <2>4, LastOf
      <3>2. j = CheckOf(x)
        BY <1>5, <3>1 DEF JoinOf, CheckOf
      <3>3. CheckOf(x)' \in checking' /\ toServer'[conn'[x]] = <<>>
        BY <1>1, <2>1, <2>2, <2>4, <3>2
      <3>4. QED
        BY <3>3 DEF AdmittedAt
    <2>5. QED
      BY <2>3, <2>4
  <1>6. QED
    BY <1>4, <1>5

LEMMA AdmittedFinishJoin ==
  ASSUME TypeOK, Admitted, NEW j \in checking, FinishJoin(j)
  PROVE  Admitted'
  <1>1. /\ checking' = checking \ {j} /\ UNCHANGED <<page, visit, conn, up, toServer,
                                                     unchecked>>
    BY DEF FinishJoin
  <1>2. SUFFICES ASSUME NEW x \in Serving' PROVE AdmittedAt(x)'
    BY DEF Admitted
  <1>3. x \in Serving /\ AdmittedAt(x)
    BY <1>1, <1>2 DEF Serving, Admitted
  <1>4. j.conn \in Conns /\ j.run \in Runs /\ page[x] \in Runs
    BY <1>3, CheckTypes, ServingTabs
  <1>5. conn[x] \in room[page[x]] => conn[x] \in room'[page[x]]
    <2>1. room' = room \/ room' = [room EXCEPT ![j.run] = @ \cup {j.conn}]
      BY DEF FinishJoin
    <2>2. room \in [Runs -> SUBSET Conns]
      BY DEF TypeOK
    <2>3. ASSUME room' = [room EXCEPT ![j.run] = @ \cup {j.conn}]
          PROVE  room[page[x]] \subseteq room'[page[x]]
      BY <1>4, <2>2, <2>3
    <2>4. QED
      BY <2>1, <2>3
  <1>6. ASSUME j = CheckOf(x)
        PROVE  conn[x] \in room'[page[x]] \/ ~MayRead(conn[x], page[x])
    <2>1. j.conn = conn[x] /\ j.run = page[x]
      BY <1>6 DEF CheckOf
    <2>2. QED
      <3>1. ASSUME MayRead(conn[x], page[x]) PROVE conn[x] \in room'[page[x]]
        <4>1. <<UserOf[j.conn[1]], j.run>> \in Readable
          BY <2>1, <3>1 DEF MayRead
        <4>2. room' = [room EXCEPT ![j.run] = @ \cup {j.conn}]
          BY <4>1 DEF FinishJoin
        <4>3. QED
          BY <1>4, <2>1, <4>2 DEF TypeOK
      <3>2. QED
        BY <3>1
  <1>7. QED
    BY <1>1, <1>3, <1>5, <1>6, AdmittedStays

LEMMA AdmittedJoinFails ==
  ASSUME TypeOK, Admitted, NEW j \in checking, JoinFails(j)
  PROVE  Admitted'
  <1>1. /\ checking' = checking \ {j} /\ unchecked' = unchecked \cup {j}
        /\ UNCHANGED <<page, visit, conn, up, toServer, room>>
    BY DEF JoinFails
  <1>2. SUFFICES ASSUME NEW x \in Serving' PROVE AdmittedAt(x)'
    BY DEF Admitted
  <1>3. x \in Serving /\ AdmittedAt(x)
    BY <1>1, <1>2 DEF Serving, Admitted
  <1>4. CheckOf(x) \in checking => CheckOf(x) \in checking' \/ CheckOf(x) \in unchecked'
    BY <1>1
  <1>5. QED
    BY <1>1, <1>3, <1>4, AdmittedStays

LEMMA AdmittedReceiveLeave ==
  ASSUME TypeOK, Admitted, NEW c \in Conns, ReceiveLeave(c)
  PROVE  Admitted'
  <1> DEFINE q == toServer[c]
             r == Head(q).run
  <1>1. /\ q # <<>> /\ q \in Seq(Requests) /\ toServer' = [toServer EXCEPT ![c] = Tail(q)]
        /\ Head(q).type = "leave" /\ room' = [room EXCEPT ![r] = @ \ {c}]
        /\ UNCHANGED <<page, visit, conn, up, checking, unchecked>>
    BY DEF ReceiveLeave, TypeOK
  <1>2. SUFFICES ASSUME NEW x \in Serving' PROVE AdmittedAt(x)'
    BY DEF Admitted
  <1>3. x \in Serving /\ AdmittedAt(x)
    BY <1>1, <1>2 DEF Serving, Admitted
  <1>4. CASE conn[x] # c
    <2>1. toServer'[conn[x]] = toServer[conn[x]]
      BY <1>1, <1>3, <1>4, ServingTabs DEF TypeOK
    <2>2. conn[x] \in room[page[x]] => conn[x] \in room'[page[x]]
      BY <1>1, <1>3, <1>4, ServingTabs DEF TypeOK
    <2>3. QED
      BY <1>1, <1>3, <2>1, <2>2, AdmittedStays
  <1>5. CASE conn[x] = c
    <2>1. Last(q) = JoinOf(x) /\ toServer'[c] = Tail(q)
      BY <1>1, <1>3, <1>5 DEF AdmittedAt, TypeOK
    <2>2. JoinOf(x)' = JoinOf(x) /\ conn'[x] = c /\ JoinOf(x).type = "join"
      BY <1>1, <1>5 DEF JoinOf
    <2>3. Tail(q) # <<>>
      BY <1>1, <2>1, <2>2, LastOf
    <2>4. Last(Tail(q)) = JoinOf(x)
      BY <1>1, <2>1, <2>3, LastOf
    <2>5. QED
      BY <2>1, <2>2, <2>3, <2>4 DEF AdmittedAt
  <1>6. QED
    BY <1>4, <1>5

LEMMA AdmittedDisconnect ==
  ASSUME TypeOK, Admitted, NEW c \in Conns, Disconnect(c)
  PROVE  Admitted'
  <1>1. /\ up' = up \ {c} /\ toServer' = [toServer EXCEPT ![c] = <<>>]
        /\ room' = [r \in Runs |-> room[r] \ {c}]
        /\ UNCHANGED <<page, visit, conn, checking, unchecked>>
    BY DEF Disconnect
  <1>2. SUFFICES ASSUME NEW x \in Serving' PROVE AdmittedAt(x)'
    BY DEF Admitted
  <1>3. x \in Serving /\ AdmittedAt(x) /\ conn[x] # c
    BY <1>1, <1>2 DEF Serving, Admitted
  <1>4. /\ toServer'[conn[x]] = toServer[conn[x]]
        /\ conn[x] \in room[page[x]] => conn[x] \in room'[page[x]]
    BY <1>1, <1>3, ServingTabs DEF TypeOK
  <1>5. QED
    BY <1>1, <1>3, <1>4, AdmittedStays

-------------------------------------------------------------------------------
\* Who is one too many

\* The requests q hold a leave of r after the n-th.
HasLeave(q, r, n) == \E k \in 1 .. Len(q) : k > n /\ q[k].type = "leave" /\ q[k].run = r

LEMMA LeaveStays ==
  ASSUME NEW q \in Seq(Requests), NEW more \in Seq(Requests), NEW r, NEW n, HasLeave(q, r, n)
  PROVE  HasLeave(q \o more, r, n)
  <1>1. PICK k \in 1 .. Len(q) : k > n /\ q[k].type = "leave" /\ q[k].run = r
    BY DEF HasLeave
  <1>2. k \in 1 .. Len(q \o more) /\ (q \o more)[k] = q[k]
    OBVIOUS
  <1>3. QED
    BY <1>1, <1>2 DEF HasLeave

\* Taking the first request moves the leaves forward.
LEMMA LeaveShifts ==
  ASSUME NEW q \in Seq(Requests), q # <<>>, NEW r, NEW n \in Nat, HasLeave(q, r, n),
         n # 0 \/ Head(q).type # "leave" \/ Head(q).run # r
  PROVE  HasLeave(Tail(q), r, IF n = 0 THEN 0 ELSE n - 1)
  <1>1. PICK k \in 1 .. Len(q) : k > n /\ q[k].type = "leave" /\ q[k].run = r
    BY DEF HasLeave
  <1>2. Head(q) = q[1] /\ Len(q) \in Nat \ {0} /\ Len(Tail(q)) = Len(q) - 1
    OBVIOUS
  <1>3. k # 1
    BY <1>1, <1>2
  <1>4. k - 1 \in 1 .. Len(Tail(q)) /\ Tail(q)[k - 1] = q[k]
    BY <1>2, <1>3
  <1>5. k - 1 > IF n = 0 THEN 0 ELSE n - 1
    BY <1>1, <1>3
  <1>6. QED
    BY <1>1, <1>4, <1>5 DEF HasLeave

\* Connection c may stand in the room of r, or be let in, after its n-th request:
\* its tab has left it, shows r, or has a leave of r under way.
Accounted(c, r, n) == conn[c[1]] # c \/ page[c[1]] = r \/ HasLeave(toServer[c], r, n)

Explained(c, r) ==
  \/ [conn |-> c, run |-> r] \in overtaken
  \/ c \in up /\ Accounted(c, r, 0)

RoomsExplained  == \A r \in Runs : \A c \in room[r] : MayRead(c, r) /\ Explained(c, r)
ChecksExplained == \A j \in checking : Explained(j.conn, j.run)
JoinsAccounted  ==
  \A c \in up : \A i \in 1 .. Len(toServer[c]) :
    toServer[c][i].type = "join" => Accounted(c, toServer[c][i].run, i)

NoneTooMany == RoomsExplained /\ ChecksExplained /\ JoinsAccounted

\* A step that takes nobody out, lets nobody in and keeps every account.
LEMMA ExplainedStays ==
  ASSUME TypeOK, RoomsExplained, ChecksExplained,
         overtaken \subseteq overtaken', checking' \subseteq checking,
         \A r \in Runs : room'[r] \subseteq room[r],
         \A c \in up : \A r \in Runs :
           Accounted(c, r, 0) => c \in up' /\ Accounted(c, r, 0)'
  PROVE  RoomsExplained' /\ ChecksExplained'
  <1>1. ASSUME NEW c \in Conns, NEW r \in Runs, Explained(c, r) PROVE Explained(c, r)'
    BY <1>1 DEF Explained
  <1>2. ASSUME NEW r \in Runs, NEW c \in room'[r] PROVE MayRead(c, r)' /\ Explained(c, r)'
    <2>1. c \in room[r] /\ c \in Conns
      BY DEF TypeOK
    <2>2. MayRead(c, r) /\ Explained(c, r)
      BY <2>1 DEF RoomsExplained
    <2>3. QED
      BY <1>1, <2>1, <2>2 DEF MayRead
  <1>3. ASSUME NEW j \in checking' PROVE Explained(j.conn, j.run)'
    <2>1. j \in checking /\ Explained(j.conn, j.run)
      BY DEF ChecksExplained
    <2>2. QED
      BY <1>1, <2>1, CheckTypes
  <1>4. QED
    BY <1>2, <1>3 DEF RoomsExplained, ChecksExplained

LEMMA QueueTypes ==
  ASSUME TypeOK, NEW c \in Conns
  PROVE  /\ toServer[c] \in Seq(Requests) /\ Len(toServer[c]) \in Nat
         /\ \A i \in 1 .. Len(toServer[c]) : toServer[c][i] \in Requests /\ toServer[c][i].run \in Runs
  <1>1. toServer[c] \in Seq(Requests)
    BY DEF TypeOK
  <1>2. \A i \in 1 .. Len(toServer[c]) : toServer[c][i] \in Requests
    BY <1>1
  <1>3. QED
    BY <1>1, <1>2 DEF Requests

LEMMA NoneTooManyOpen ==
  ASSUME TypeOK, NoneTooMany, NEW t \in Tabs, NEW r \in Runs, Open(t, r)
  PROVE  NoneTooMany'
  <1> DEFINE messages == IF conn[t] = NoConn THEN <<>> ELSE <<Request("join", t, r)>>
  <1>1. /\ page' = [page EXCEPT ![t] = r] /\ page[t] = NoRun /\ Emit(t, messages)
        /\ UNCHANGED <<conn, up, checking, room, overtaken>>
    BY DEF Open
  <1>2. messages \in Seq(Requests)
    <2>1. visit' \in [Tabs -> {0} \cup Visits] /\ page'[t] # NoRun /\ visit'[t] # 0
      BY <1>1, OpenTypes, RoomAssumption DEF TypeOK
    <2>2. Request("join", t, r) \in Requests
      BY <2>1 DEF Request, Requests
    <2>3. QED
      BY <2>2
  <1>3. Len(messages) <= 1 /\ \A i \in 1 .. Len(messages) : messages[i].run = r
    BY DEF Request
  <1> HIDE DEF messages
  <1>4. \A c \in Conns : toServer'[c] = IF c = conn[t] /\ c \in up
                                        THEN toServer[c] \o messages ELSE toServer[c]
    BY <1>1, <1>2, Emitted
  <1>5. ASSUME NEW c \in up, NEW s \in Runs, NEW n, Accounted(c, s, n)
        PROVE  Accounted(c, s, n)'
    <2>1. c \in Conns /\ c[1] \in Tabs
      BY ConnIs DEF TypeOK
    <2>2. conn' = conn /\ (page[c[1]] = s => page'[c[1]] = s)
      BY <1>1, <2>1, RoomAssumption DEF TypeOK
    <2>3. HasLeave(toServer[c], s, n) => HasLeave(toServer'[c], s, n)
      BY <1>2, <1>4, <2>1, LeaveStays, QueueTypes
    <2>4. QED
      BY <1>5, <2>2, <2>3 DEF Accounted
  <1>6. RoomsExplained' /\ ChecksExplained'
    BY <1>1, <1>5, ExplainedStays DEF NoneTooMany
  <1>7. ASSUME NEW c \in up', NEW i \in 1 .. Len(toServer'[c]), toServer'[c][i].type = "join"
        PROVE  Accounted(c, toServer[c][i].run, i)'
    <2>1. c \in up /\ c \in Conns
      BY <1>1 DEF TypeOK
    <2>2. CASE i \in 1 .. Len(toServer[c])
      <3>1. toServer'[c][i] = toServer[c][i]
        <4>1. toServer[c] \in Seq(Requests)
          BY <2>1, QueueTypes
        <4>2. (toServer[c] \o messages)[i] = toServer[c][i]
          BY <1>2, <2>2, <4>1
        <4>3. QED
          BY <1>4, <2>1, <4>2
      <3>2. Accounted(c, toServer[c][i].run, i)
        BY <1>7, <2>1, <2>2, <3>1 DEF NoneTooMany, JoinsAccounted
      <3>3. PICK s \in Runs : s = toServer[c][i].run /\ s = toServer'[c][i].run
        BY <2>1, <2>2, <3>1, QueueTypes
      <3>4. Accounted(c, s, i)'
        BY <1>5, <2>1, <3>2, <3>3
      <3>5. QED
        BY <3>3, <3>4 DEF Accounted
    <2>3. CASE i \notin 1 .. Len(toServer[c])
      <3>1. c = conn[t] /\ toServer'[c] = toServer[c] \o messages
        BY <1>4, <2>1, <2>3
      <3>2. i - Len(toServer[c]) \in 1 .. Len(messages)
            /\ toServer'[c][i] = messages[i - Len(toServer[c])]
        BY <1>2, <2>1, <2>3, <3>1, QueueTypes
      <3>3. toServer'[c][i].run = r
        BY <1>3, <3>2
      <3>4. c[1] = t
        BY <2>1, <3>1, ConnTypes, NoConnAssumption
      <3>5. page'[c[1]] = r
        BY <1>1, <3>4 DEF TypeOK
      <3>6. QED
        BY <3>3, <3>5 DEF Accounted
    <2>4. QED
      BY <2>2, <2>3
  <1>8. QED
    BY <1>6, <1>7 DEF NoneTooMany, JoinsAccounted

LEMMA NoneTooManyClose ==
  ASSUME TypeOK, NoneTooMany, NEW t \in Tabs, Close(t)
  PROVE  NoneTooMany'
  <1> DEFINE messages == <<Request("leave", t, page[t])>>
  <1>1. /\ page' = [page EXCEPT ![t] = NoRun] /\ page[t] \in Runs /\ Emit(t, messages)
        /\ UNCHANGED <<visit, conn, up, checking, room, overtaken>>
    BY DEF Close, TypeOK
  <1>2. messages \in Seq(Requests) /\ Len(messages) = 1
        /\ messages[1].type = "leave" /\ messages[1].run = page[t]
    <2>1. visit[t] \in Visits
      BY <1>1, RoomAssumption DEF TypeOK
    <2>2. Request("leave", t, page[t]) \in Requests
      BY <1>1, <2>1 DEF Request, Requests
    <2>3. QED
      BY <2>2 DEF Request
  <1> HIDE DEF messages
  <1>3. \A c \in Conns : toServer'[c] = IF c = conn[t] /\ c \in up
                                        THEN toServer[c] \o messages ELSE toServer[c]
    BY <1>1, <1>2, Emitted
  <1>4. ASSUME NEW c \in up, NEW s \in Runs, NEW n \in 0 .. Len(toServer[c]), Accounted(c, s, n)
        PROVE  Accounted(c, s, n)'
    <2>1. c \in Conns /\ c[1] \in Tabs /\ toServer[c] \in Seq(Requests) /\ conn' = conn
      BY <1>1, ConnIs, QueueTypes DEF TypeOK
    <2>2. HasLeave(toServer[c], s, n) => HasLeave(toServer'[c], s, n)
      BY <1>2, <1>3, <2>1, LeaveStays
    <2>3. ASSUME conn[c[1]] = c, page[c[1]] = s
          PROVE  page'[c[1]] = s \/ HasLeave(toServer'[c], s, n)
      <3>1. CASE c[1] # t
        BY <1>1, <2>1, <2>3, <3>1 DEF TypeOK
      <3>2. CASE c[1] = t
        <4>1. toServer'[c] = toServer[c] \o messages
          BY <1>3, <2>1, <2>3, <3>2
        <4> DEFINE k == Len(toServer[c]) + 1
        <4>2. k \in 1 .. Len(toServer'[c]) /\ k > n /\ toServer'[c][k] = messages[1]
          <5>1. /\ Len(toServer[c]) \in Nat /\ Len(toServer'[c]) = Len(toServer[c]) + 1
                /\ toServer'[c][Len(toServer[c]) + 1] = messages[1]
            BY <1>2, <2>1, <4>1, Appended
          <5>2. QED
            BY <5>1
        <4> HIDE DEF k
        <4>3. QED
          BY <1>2, <2>3, <3>2, <4>2 DEF HasLeave
      <3>3. QED
        BY <3>1, <3>2
    <2>4. QED
      BY <1>4, <2>1, <2>2, <2>3 DEF Accounted
  <1>5. RoomsExplained' /\ ChecksExplained'
    <2>1. \A c \in up : 0 \in 0 .. Len(toServer[c])
      BY QueueTypes DEF TypeOK
    <2>2. QED
      BY <1>1, <1>4, <2>1, ExplainedStays DEF NoneTooMany
  <1>6. ASSUME NEW c \in up', NEW i \in 1 .. Len(toServer'[c]), toServer'[c][i].type = "join"
        PROVE  Accounted(c, toServer[c][i].run, i)'
    <2>1. c \in up /\ c \in Conns /\ toServer[c] \in Seq(Requests)
      BY <1>1, QueueTypes DEF TypeOK
    <2>2. i \in 1 .. Len(toServer[c]) /\ toServer'[c][i] = toServer[c][i]
      <3>1. CASE toServer'[c] = toServer[c]
        BY <3>1
      <3>2. CASE toServer'[c] = toServer[c] \o messages
        <4>1. i # Len(toServer[c]) + 1
          BY <1>2, <1>6, <2>1, <3>2
        <4>2. i \in 1 .. Len(toServer[c])
          <5>1. Len(toServer[c]) \in Nat /\ Len(toServer'[c]) = Len(toServer[c]) + 1
            BY <1>2, <2>1, <3>2, Appended
          <5>2. QED
            BY <1>6, <4>1, <5>1
        <4>3. QED
          BY <1>2, <2>1, <3>2, <4>2
      <3>3. QED
        BY <1>3, <2>1, <3>1, <3>2
    <2>3. PICK s \in Runs : s = toServer[c][i].run /\ s = toServer'[c][i].run
      BY <2>1, <2>2, QueueTypes
    <2>4. Accounted(c, s, i)
      BY <1>6, <2>1, <2>2, <2>3 DEF NoneTooMany, JoinsAccounted
    <2>5. Accounted(c, s, i)'
      <3>1. i \in 0 .. Len(toServer[c])
        BY <2>1, <2>2
      <3>2. QED
        BY <1>4, <2>1, <2>4, <3>1
    <2>6. QED
      BY <2>3, <2>5 DEF Accounted
  <1>7. QED
    BY <1>5, <1>6 DEF NoneTooMany, JoinsAccounted

LEMMA NoneTooManyConnect ==
  ASSUME TypeOK, LeavesKept, NoneTooMany, NEW t \in Tabs, Connect(t)
  PROVE  NoneTooMany'
  <1> DEFINE d == Next1(t)
  <1>1. /\ d \in Conns /\ d \notin up /\ d # NoConn /\ conn' = [conn EXCEPT ![t] = d]
        /\ up' = up \cup {d} /\ toServer' = [toServer EXCEPT ![d] = Greeting(t)]
        /\ Greeting(t) \in Seq(Requests)
        /\ UNCHANGED <<page, checking, room, overtaken>>
    BY Connected DEF Connect
  <1>2. d[1] = t
    BY DEF Next1
  <1> HIDE DEF d
  <1>3. ASSUME NEW c \in up, NEW s \in Runs, NEW n, Accounted(c, s, n)
        PROVE  Accounted(c, s, n)'
    <2>1. c # d /\ c \in Conns /\ c[1] \in Tabs
      BY <1>1, ConnIs DEF TypeOK
    <2>2. toServer'[c] = toServer[c] /\ (conn[c[1]] # c => conn'[c[1]] # c)
      BY <1>1, <2>1 DEF TypeOK
    <2>3. QED
      BY <1>1, <1>3, <2>2 DEF Accounted
  <1>4. RoomsExplained' /\ ChecksExplained'
    BY <1>1, <1>3, ExplainedStays DEF NoneTooMany
  <1>5. ASSUME NEW c \in up, NEW i \in 1 .. Len(toServer'[c]), toServer'[c][i].type = "join"
        PROVE  Accounted(c, toServer[c][i].run, i)'
    <2>1. c # d /\ c \in Conns
      BY <1>1 DEF TypeOK
    <2>2. toServer'[c] = toServer[c]
      BY <1>1, <2>1 DEF TypeOK
    <2>3. PICK s \in Runs : s = toServer[c][i].run /\ s = toServer'[c][i].run
      BY <2>1, <2>2, QueueTypes
    <2>4. Accounted(c, s, i)
      BY <1>5, <2>2, <2>3 DEF NoneTooMany, JoinsAccounted
    <2>5. Accounted(c, s, i)'
      BY <1>3, <2>4
    <2>6. QED
      BY <2>3, <2>5 DEF Accounted
  <1>6. ASSUME NEW i \in 1 .. Len(toServer'[d]), toServer'[d][i].type = "join"
        PROVE  page'[d[1]] = toServer'[d][i].run
    <2>1. toServer'[d] = Greeting(t) /\ outbox[t] \in Seq(Requests)
      BY <1>1 DEF TypeOK
    <2>2. ASSUME i \in 1 .. Len(outbox[t]) PROVE FALSE
      <3>1. Greeting(t)[i] = outbox[t][i]
        <4>1. CASE page[t] = NoRun
          BY <2>1, <2>2, <4>1 DEF Greeting
        <4>2. CASE page[t] # NoRun
          BY <2>1, <2>2, <4>2 DEF Greeting
        <4>3. QED
          BY <4>1, <4>2
      <3>2. QED
        BY <1>6, <2>1, <2>2, <3>1 DEF LeavesKept
    <2>3. page[t] # NoRun /\ Greeting(t) = outbox[t] \o <<JoinOf(t)>>
      <3>1. CASE page[t] = NoRun
        <4>1. Greeting(t) = outbox[t]
          BY <2>1, <3>1 DEF Greeting
        <4>2. QED
          BY <2>1, <2>2, <4>1
      <3>2. CASE page[t] # NoRun
        BY <3>2 DEF Greeting, JoinOf
      <3>3. QED
        BY <3>1, <3>2
    <2>4. JoinOf(t) \in Requests
      BY <2>3, JoinIsRequest
    <2>5. i = Len(outbox[t]) + 1 /\ Greeting(t)[i] = JoinOf(t)
      BY <2>1, <2>2, <2>3, <2>4
    <2>6. QED
      BY <1>1, <1>2, <2>1, <2>5 DEF JoinOf
  <1>7. ASSUME NEW c \in up', NEW i \in 1 .. Len(toServer'[c]), toServer'[c][i].type = "join"
        PROVE  Accounted(c, toServer[c][i].run, i)'
    <2>1. CASE c \in up
      BY <1>5, <1>7, <2>1
    <2>2. CASE c = d
      BY <1>6, <1>7, <2>2 DEF Accounted
    <2>3. QED
      BY <1>1, <2>1, <2>2
  <1>8. QED
    BY <1>4, <1>7 DEF NoneTooMany, JoinsAccounted

LEMMA NoneTooManyDrop ==
  ASSUME TypeOK, NoneTooMany, NEW t \in Tabs, Drop(t)
  PROVE  NoneTooMany'
  <1>1. conn' = [conn EXCEPT ![t] = NoConn]
        /\ UNCHANGED <<page, up, toServer, checking, room, overtaken>>
    BY DEF Drop
  <1>2. ASSUME NEW c \in up, NEW s, NEW n, Accounted(c, s, n) PROVE Accounted(c, s, n)'
    <2>1. c \in Conns /\ c[1] \in Tabs /\ c # NoConn
      BY ConnIs, NoConnAssumption DEF TypeOK
    <2>2. conn[c[1]] # c => conn'[c[1]] # c
      BY <1>1, <2>1 DEF TypeOK
    <2>3. QED
      BY <1>1, <1>2, <2>2 DEF Accounted
  <1>3. RoomsExplained' /\ ChecksExplained'
    BY <1>1, <1>2, ExplainedStays DEF NoneTooMany
  <1>4. ASSUME NEW c \in up', NEW i \in 1 .. Len(toServer'[c]), toServer'[c][i].type = "join"
        PROVE  Accounted(c, toServer[c][i].run, i)'
    <2>1. c \in up /\ toServer' = toServer
      BY <1>1
    <2>2. Accounted(c, toServer[c][i].run, i)
      BY <1>4, <2>1 DEF NoneTooMany, JoinsAccounted
    <2>3. PICK s : s = toServer[c][i].run
      OBVIOUS
    <2>4. Accounted(c, s, i)'
      BY <1>2, <2>1, <2>2, <2>3
    <2>5. QED
      BY <2>1, <2>3, <2>4 DEF Accounted
  <1>5. QED
    BY <1>3, <1>4 DEF NoneTooMany, JoinsAccounted

\* The first request of a connection is taken and is no leave of s.
LEMMA AccountMoves ==
  ASSUME TypeOK, NEW c \in Conns, toServer[c] # <<>>,
         UNCHANGED <<conn, page>>, toServer' = [toServer EXCEPT ![c] = Tail(@)],
         NEW s \in Runs, Head(toServer[c]).type # "leave" \/ Head(toServer[c]).run # s
  PROVE  Accounted(c, s, 0) => Accounted(c, s, 0)'
  <1>1. toServer[c] \in Seq(Requests) /\ toServer'[c] = Tail(toServer[c])
    BY DEF TypeOK
  <1>2. HasLeave(toServer[c], s, 0) => HasLeave(toServer'[c], s, 0)
    BY <1>1, LeaveShifts
  <1>3. QED
    BY <1>2 DEF Accounted

\* The joins behind it.
LEMMA JoinsMove ==
  ASSUME TypeOK, JoinsAccounted, NEW c \in Conns, toServer[c] # <<>>,
         UNCHANGED <<conn, page, up>>, toServer' = [toServer EXCEPT ![c] = Tail(@)]
  PROVE  JoinsAccounted'
  <1>1. ASSUME NEW d \in up', NEW i \in 1 .. Len(toServer'[d]), toServer'[d][i].type = "join"
        PROVE  Accounted(d, toServer[d][i].run, i)'
    <2>1. d \in up /\ d \in Conns
      BY DEF TypeOK
    <2>2. CASE d # c
      <3>1. toServer'[d] = toServer[d]
        BY <2>1, <2>2 DEF TypeOK
      <3>2. Accounted(d, toServer[d][i].run, i)
        BY <1>1, <2>1, <3>1 DEF JoinsAccounted
      <3>3. QED
        BY <3>1, <3>2 DEF Accounted
    <2>3. CASE d = c
      <3> DEFINE rest == Tail(toServer[c])
      <3>1. toServer[c] \in Seq(Requests) /\ toServer'[c] = rest
        BY Received DEF TypeOK
      <3>2. PICK n \in Nat \ {0} : /\ n = Len(toServer[c]) /\ Len(rest) = n - 1
                                   /\ \A k \in 1 .. n - 1 : rest[k] = toServer[c][k + 1]
        BY Received
      <3>a. HasLeave(toServer[c], toServer[c][i + 1].run, i + 1) =>
              HasLeave(rest, toServer[c][i + 1].run, i)
        <4>1. i \in Nat /\ i + 1 \in Nat \ {0} /\ (i + 1) - 1 = i
          OBVIOUS
        <4>2. PICK k \in Nat \ {0} : k = i + 1 /\ k - 1 = i
          BY <4>1
        <4>3. \A s : HasLeave(toServer[c], s, k) => HasLeave(Tail(toServer[c]), s, k - 1)
          BY <3>1, <4>2, LeaveShifts
        <4>4. QED
          BY <4>2, <4>3
      <3> HIDE DEF rest
      <3>3. i \in 1 .. n - 1 /\ i + 1 \in 1 .. n /\ toServer'[c][i] = toServer[c][i + 1]
        BY <2>3, <3>1, <3>2
      <3>4. Accounted(c, toServer[c][i + 1].run, i + 1)
        BY <1>1, <2>1, <2>3, <3>2, <3>3 DEF JoinsAccounted
      <3>5. PICK s : s = toServer[c][i + 1].run
        OBVIOUS
      <3>6. HasLeave(toServer[c], s, i + 1) => HasLeave(toServer'[c], s, i)
        BY <3>1, <3>5, <3>a
      <3>7. QED
        BY <2>3, <3>3, <3>4, <3>5, <3>6 DEF Accounted
    <2>4. QED
      BY <2>2, <2>3
  <1>2. QED
    BY <1>1 DEF JoinsAccounted

LEMMA NoneTooManyReceiveJoin ==
  ASSUME TypeOK, NoneTooMany, NEW c \in Conns, ReceiveJoin(c)
  PROVE  NoneTooMany'
  <1> DEFINE q == toServer[c]
             j == [conn |-> c, run |-> Head(q).run, visit |-> Head(q).visit]
  <1>1. /\ q # <<>> /\ toServer' = [toServer EXCEPT ![c] = Tail(@)] /\ c \in up
        /\ Head(q).type = "join" /\ checking' = checking \cup {j}
        /\ UNCHANGED <<page, conn, up, room, overtaken>>
    BY DEF ReceiveJoin
  <1>2. Head(q) \in Requests /\ Head(q).run \in Runs /\ Head(q) = q[1]
        /\ 1 \in 1 .. Len(q) /\ q \in Seq(Requests)
    <2>1. Head(q) \in Requests /\ Head(q) = q[1] /\ q \in Seq(Requests)
          /\ Len(q) \in Nat \ {0}
      BY <1>1, Received
    <2>2. Head(q).run \in Runs
      BY <2>1 DEF Requests
    <2> HIDE DEF q
    <2>3. QED
      BY <2>1, <2>2
  <1>3. ASSUME NEW d \in Conns, NEW s \in Runs, Explained(d, s) PROVE Explained(d, s)'
    <2>1. Accounted(d, s, 0) => Accounted(d, s, 0)'
      <3>1. CASE d = c
        BY <1>1, <3>1, AccountMoves
      <3>2. CASE d # c
        BY <1>1, <3>2 DEF Accounted, TypeOK
      <3>3. QED
        BY <3>1, <3>2
    <2>2. QED
      BY <1>1, <1>3, <2>1 DEF Explained
  <1>4. ASSUME NEW s \in Runs, s = Head(q).run PROVE Explained(c, s)'
    <2>1. s = Head(q).run
      BY <1>4
    <2>2. Accounted(c, s, 1)
      BY <1>1, <1>2, <2>1 DEF NoneTooMany, JoinsAccounted
    <2>3. HasLeave(q, s, 1) => HasLeave(Tail(q), s, 0)
      <3>1. HasLeave(q, s, 1) => HasLeave(Tail(q), s, IF 1 = 0 THEN 0 ELSE 1 - 1)
        BY <1>1, <1>2, LeaveShifts
      <3>2. QED
        BY <3>1
    <2>4. toServer'[c] = Tail(q)
      BY <1>1 DEF TypeOK
    <2>5. Accounted(c, s, 0)'
      BY <1>1, <2>2, <2>3, <2>4 DEF Accounted
    <2>6. QED
      BY <1>1, <2>5 DEF Explained
  <1>5. RoomsExplained'
    <2>1. ASSUME NEW r \in Runs, NEW d \in room[r] PROVE MayRead(d, r) /\ Explained(d, r)'
      BY <1>3 DEF NoneTooMany, RoomsExplained, TypeOK
    <2>2. QED
      BY <1>1, <2>1 DEF RoomsExplained, MayRead
  <1>6. ChecksExplained'
    <2>1. ASSUME NEW k \in checking PROVE Explained(k.conn, k.run)'
      BY <1>3, CheckTypes DEF NoneTooMany, ChecksExplained
    <2>2. ASSUME NEW k, k = j PROVE Explained(k.conn, k.run)'
      <3>1. k.conn = c /\ k.run = Head(q).run
        BY <2>2
      <3>2. QED
        BY <1>2, <1>4, <3>1
    <2>3. \A k \in checking' : k \in checking \/ k = j
      BY <1>1
    <2> HIDE DEF j
    <2>4. QED
      BY <2>1, <2>2, <2>3 DEF ChecksExplained
  <1>7. JoinsAccounted'
    BY <1>1, JoinsMove DEF NoneTooMany
  <1>8. QED
    BY <1>5, <1>6, <1>7 DEF NoneTooMany

LEMMA NoneTooManyFinishJoin ==
  ASSUME TypeOK, NoneTooMany, NEW j \in checking, FinishJoin(j)
  PROVE  NoneTooMany'
  <1>1. /\ checking' = checking \ {j}
        /\ UNCHANGED <<page, conn, up, toServer, overtaken>>
    BY DEF FinishJoin
  <1>2. j.conn \in Conns /\ j.run \in Runs /\ Explained(j.conn, j.run)
    BY CheckTypes DEF NoneTooMany, ChecksExplained
  <1>3. ASSUME NEW d, NEW s, Accounted(d, s, 0) PROVE Accounted(d, s, 0)'
    BY <1>1, <1>3 DEF Accounted
  <1>4. ASSUME NEW d, NEW s, Explained(d, s) PROVE Explained(d, s)'
    BY <1>1, <1>3, <1>4 DEF Explained
  <1>5. ASSUME NEW r \in Runs, NEW d \in room'[r] PROVE MayRead(d, r)' /\ Explained(d, r)'
    <2>1. CASE d \in room[r]
      BY <1>4, <2>1 DEF NoneTooMany, RoomsExplained, MayRead
    <2>2. CASE d \notin room[r]
      <3>1. room' # room
        BY <1>5, <2>2
      <3>2. <<UserOf[j.conn[1]], j.run>> \in Readable
            /\ room' = [room EXCEPT ![j.run] = @ \cup {j.conn}]
        BY <3>1 DEF FinishJoin
      <3>3. d = j.conn /\ r = j.run
        BY <1>2, <1>5, <2>2, <3>2 DEF TypeOK
      <3>4. QED
        BY <1>2, <1>4, <3>2, <3>3 DEF MayRead
    <2>3. QED
      BY <2>1, <2>2
  <1>6. RoomsExplained'
    BY <1>5 DEF RoomsExplained
  <1>7. ChecksExplained'
    BY <1>1, <1>4 DEF NoneTooMany, ChecksExplained
  <1>8. JoinsAccounted'
    BY <1>1 DEF NoneTooMany, JoinsAccounted, Accounted
  <1>9. QED
    BY <1>6, <1>7, <1>8 DEF NoneTooMany

LEMMA NoneTooManyJoinFails ==
  ASSUME TypeOK, NoneTooMany, NEW j \in checking, JoinFails(j)
  PROVE  NoneTooMany'
  <1>1. checking' \subseteq checking /\ UNCHANGED <<page, conn, up, toServer, room, overtaken>>
    BY DEF JoinFails
  <1>2. RoomsExplained' /\ ChecksExplained'
    BY <1>1, ExplainedStays DEF NoneTooMany, Accounted
  <1>3. JoinsAccounted'
    BY <1>1 DEF NoneTooMany, JoinsAccounted, Accounted
  <1>4. QED
    BY <1>2, <1>3 DEF NoneTooMany

LEMMA NoneTooManyReceiveLeave ==
  ASSUME TypeOK, NoneTooMany, NEW c \in Conns, ReceiveLeave(c)
  PROVE  NoneTooMany'
  <1> DEFINE q == toServer[c]
             r == Head(q).run
             passed == {[conn |-> j.conn, run |-> j.run] :
                          j \in {k \in checking : k.conn = c /\ k.run = r}}
  <1>1. /\ q # <<>> /\ toServer' = [toServer EXCEPT ![c] = Tail(@)] /\ c \in up
        /\ room' = [room EXCEPT ![r] = @ \ {c}] /\ overtaken' = overtaken \cup passed
        /\ UNCHANGED <<page, conn, up, checking>>
    BY DEF ReceiveLeave
  <1>2. r \in Runs
    BY <1>1, Received DEF Requests
  <1>3. ASSUME NEW d \in Conns, NEW s \in Runs, d # c \/ s # r, Explained(d, s)
        PROVE  Explained(d, s)'
    <2>1. Accounted(d, s, 0) => Accounted(d, s, 0)'
      <3>1. CASE d = c
        BY <1>1, <1>3, <3>1, AccountMoves
      <3>2. CASE d # c
        BY <1>1, <3>2 DEF Accounted, TypeOK
      <3>3. QED
        BY <3>1, <3>2
    <2> HIDE DEF passed
    <2>2. QED
      BY <1>1, <1>3, <2>1 DEF Explained
  <1>4. ASSUME NEW s \in Runs, NEW d \in room'[s] PROVE MayRead(d, s)' /\ Explained(d, s)'
    <2>1. d \in room[s] /\ (d # c \/ s # r) /\ d \in Conns
      BY <1>1, <1>2, <1>4 DEF TypeOK
    <2>2. MayRead(d, s) /\ Explained(d, s)
      BY <2>1 DEF NoneTooMany, RoomsExplained
    <2>3. QED
      BY <1>3, <2>1, <2>2 DEF MayRead
  <1>5. ASSUME NEW j \in checking PROVE Explained(j.conn, j.run)'
    <2>1. CASE j.conn = c /\ j.run = r
      <3>1. [conn |-> j.conn, run |-> j.run] \in passed
        BY <2>1
      <3> HIDE DEF passed
      <3>2. QED
        BY <1>1, <3>1 DEF Explained
    <2>2. CASE j.conn # c \/ j.run # r
      BY <1>3, <2>2, CheckTypes DEF NoneTooMany, ChecksExplained
    <2>3. QED
      BY <2>1, <2>2
  <1>6. RoomsExplained' /\ ChecksExplained'
    BY <1>1, <1>4, <1>5 DEF RoomsExplained, ChecksExplained
  <1>7. JoinsAccounted'
    BY <1>1, JoinsMove DEF NoneTooMany
  <1>8. QED
    BY <1>6, <1>7 DEF NoneTooMany

LEMMA NoneTooManyDisconnect ==
  ASSUME TypeOK, NoneTooMany, NEW c \in Conns, Disconnect(c)
  PROVE  NoneTooMany'
  <1> DEFINE passed == {[conn |-> j.conn, run |-> j.run] : j \in {k \in checking : k.conn = c}}
  <1>1. /\ toServer' = [toServer EXCEPT ![c] = <<>>] /\ up' = up \ {c}
        /\ room' = [r \in Runs |-> room[r] \ {c}] /\ overtaken' = overtaken \cup passed
        /\ UNCHANGED <<page, conn, checking>>
    BY DEF Disconnect
  <1>2. ASSUME NEW d \in Conns \ {c}, NEW s, NEW n, Accounted(d, s, n)
        PROVE  Accounted(d, s, n)'
    BY <1>1, <1>2 DEF Accounted, TypeOK
  <1>3. ASSUME NEW d \in Conns \ {c}, NEW s, Explained(d, s) PROVE Explained(d, s)'
    <2>1. Accounted(d, s, 0) => Accounted(d, s, 0)'
      BY <1>2
    <2> HIDE DEF passed
    <2>2. QED
      BY <1>1, <1>3, <2>1 DEF Explained
  <1>4. ASSUME NEW s \in Runs, NEW d \in room'[s] PROVE MayRead(d, s)' /\ Explained(d, s)'
    <2>1. d \in room[s] /\ d \in Conns \ {c}
      BY <1>1, <1>4 DEF TypeOK
    <2>2. MayRead(d, s) /\ Explained(d, s)
      BY <2>1 DEF NoneTooMany, RoomsExplained
    <2>3. QED
      BY <1>3, <2>1, <2>2 DEF MayRead
  <1>5. ASSUME NEW j \in checking PROVE Explained(j.conn, j.run)'
    <2>1. CASE j.conn = c
      <3>1. [conn |-> j.conn, run |-> j.run] \in passed
        BY <2>1
      <3> HIDE DEF passed
      <3>2. QED
        BY <1>1, <3>1 DEF Explained
    <2>2. CASE j.conn # c
      BY <1>3, <2>2, CheckTypes DEF NoneTooMany, ChecksExplained
    <2>3. QED
      BY <2>1, <2>2
  <1>6. RoomsExplained' /\ ChecksExplained'
    BY <1>1, <1>4, <1>5 DEF RoomsExplained, ChecksExplained
  <1>7. ASSUME NEW d \in up', NEW i \in 1 .. Len(toServer'[d]), toServer'[d][i].type = "join"
        PROVE  Accounted(d, toServer[d][i].run, i)'
    <2>1. d \in up /\ d \in Conns \ {c} /\ toServer'[d] = toServer[d]
      BY <1>1 DEF TypeOK
    <2>2. Accounted(d, toServer[d][i].run, i)
      BY <1>7, <2>1 DEF NoneTooMany, JoinsAccounted
    <2>3. QED
      BY <1>1, <2>1, <2>2 DEF Accounted
  <1>8. QED
    BY <1>6, <1>7 DEF NoneTooMany, JoinsAccounted

LEMMA LeavesKeptStep ==
  ASSUME TypeOK, LeavesKept, [Next]_vars
  PROVE  LeavesKept'
  <1>1. ASSUME NEW t \in Tabs, NEW messages \in Seq(Requests), Emit(t, messages),
               conn[t] = NoConn => \A i \in 1 .. Len(messages) : messages[i].type = "leave"
        PROVE  LeavesKept'
    <2>1. SUFFICES ASSUME NEW x \in Tabs, NEW i \in 1 .. Len(outbox'[x])
                   PROVE  outbox'[x][i].type = "leave"
      BY DEF LeavesKept
    <2>2. CASE outbox'[x] = outbox[x]
      BY <2>2 DEF LeavesKept
    <2>3. CASE x = t /\ conn[t] = NoConn /\ outbox'[x] = outbox[x] \o messages
      <3>1. outbox[x] \in Seq(Requests)
        BY DEF TypeOK
      <3>2. CASE i \in 1 .. Len(outbox[x])
        BY <2>3, <3>1, <3>2, Joint DEF LeavesKept
      <3>3. CASE i \notin 1 .. Len(outbox[x])
        <4>1. i - Len(outbox[x]) \in 1 .. Len(messages)
              /\ outbox'[x][i] = messages[i - Len(outbox[x])]
          BY <2>3, <3>1, <3>3, Joint
        <4>2. QED
          BY <1>1, <2>3, <4>1
      <3>4. QED
        BY <3>2, <3>3
    <2>4. QED
      BY <1>1, <2>2, <2>3, Emitted
  <1>2. ASSUME NEW t \in Tabs, NEW r \in Runs, Open(t, r) PROVE LeavesKept'
    <2> DEFINE messages == IF conn[t] = NoConn THEN <<>> ELSE <<Request("join", t, r)>>
    <2>1. page'[t] = r /\ visit' \in [Tabs -> {0} \cup Visits] /\ visit'[t] # 0
      BY <1>2, OpenTypes, RoomAssumption DEF Open, TypeOK
    <2>2. Request("join", t, r) \in Requests
      BY <2>1 DEF Request, Requests
    <2>3. messages \in Seq(Requests) /\ Emit(t, messages)
          /\ (conn[t] = NoConn => messages = <<>>)
      BY <1>2, <2>2 DEF Open
    <2> HIDE DEF messages
    <2>4. QED
      BY <1>1, <2>3
  <1>3. ASSUME NEW t \in Tabs, Close(t) PROVE LeavesKept'
    <2> DEFINE messages == <<Request("leave", t, page[t])>>
    <2>1. page[t] \in Runs /\ visit' = visit /\ visit[t] \in Visits
      BY <1>3 DEF Close, TypeOK
    <2>2. Request("leave", t, page[t]) \in Requests
      BY <2>1 DEF Request, Requests
    <2>3. Request("leave", t, page[t]).type = "leave"
      BY DEF Request
    <2>4. messages \in Seq(Requests) /\ Emit(t, messages)
          /\ \A i \in 1 .. Len(messages) : messages[i].type = "leave"
      BY <1>3, <2>2, <2>3 DEF Close
    <2> HIDE DEF messages
    <2>5. QED
      BY <1>1, <2>4
  <1>4. ASSUME NEW t \in Tabs, Connect(t) PROVE LeavesKept'
    BY <1>4 DEF Connect, LeavesKept, TypeOK
  <1>5. CASE outbox' = outbox
    BY <1>5 DEF LeavesKept
  <1>6. ASSUME NEW t \in Tabs, Drop(t) \/ Deliver(t) PROVE outbox' = outbox
    BY <1>6 DEF Drop, Deliver
  <1>7. ASSUME NEW c \in Conns, Disconnect(c) \/ ReceiveJoin(c) \/ ReceiveLeave(c)
        PROVE  outbox' = outbox
    BY <1>7 DEF Disconnect, ReceiveJoin, ReceiveLeave
  <1>8. ASSUME NEW j \in checking, FinishJoin(j) \/ JoinFails(j) PROVE outbox' = outbox
    BY <1>8 DEF FinishJoin, JoinFails
  <1>9. Restart \/ UNCHANGED vars => outbox' = outbox
    BY DEF Restart, vars
  <1>10. QED
    BY <1>2, <1>3, <1>4, <1>5, <1>6, <1>7, <1>8, <1>9 DEF Next, Handle

-------------------------------------------------------------------------------
\* What a page will have seen

\* The notice is for the visit v: an ack of its own join, or any presence.
For(notice, v) == notice.type = "ack" => notice.visit = v

\* Once w has arrived, a page of visit v that shows `shown` now shows U.
Shows(w, v, shown, U) ==
  \E n \in 0 .. Len(w) :
    /\ \A i \in n + 1 .. Len(w) : ~For(w[i], v)
    /\ IF n = 0 THEN shown = U ELSE For(w[n], v) /\ w[n].users = U

LEMMA ShowsNews ==
  ASSUME NEW w \in Seq(Notices), NEW m \in Notices, NEW v, NEW shown, For(m, v)
  PROVE  Shows(Append(w, m), v, shown, m.users)
  <1>1. PICK n \in Nat : n = Len(w)
    OBVIOUS
  <1>2. Len(Append(w, m)) = n + 1 /\ Append(w, m)[n + 1] = m
    BY <1>1
  <1> DEFINE after == Append(w, m)
  <1> HIDE DEF after
  <1>3. n + 1 \in 0 .. Len(after) /\ n + 1 # 0 /\ (n + 1) + 1 .. Len(after) = {}
    BY <1>1, <1>2 DEF after
  <1>4. For(after[n + 1], v) /\ after[n + 1].users = m.users
    BY <1>2 DEF after
  <1>5. Shows(after, v, shown, m.users)
    BY <1>3, <1>4 DEF Shows
  <1>6. QED
    BY <1>5 DEF after

LEMMA ShowsOther ==
  ASSUME NEW w \in Seq(Notices), NEW m \in Notices, NEW v, NEW shown, NEW U,
         ~For(m, v), Shows(w, v, shown, U)
  PROVE  Shows(Append(w, m), v, shown, U)
  <1>1. PICK l \in Nat : l = Len(w)
    OBVIOUS
  <1>2. /\ Len(Append(w, m)) = l + 1 /\ Append(w, m)[l + 1] = m
        /\ \A i \in 1 .. l : Append(w, m)[i] = w[i]
    BY <1>1
  <1>3. PICK n \in 0 .. l :
          /\ \A i \in n + 1 .. l : ~For(w[i], v)
          /\ IF n = 0 THEN shown = U ELSE For(w[n], v) /\ w[n].users = U
    BY <1>1 DEF Shows
  <1> DEFINE after == Append(w, m)
  <1> HIDE DEF after
  <1>4. n \in 0 .. Len(after) /\ (n # 0 => after[n] = w[n])
    BY <1>2, <1>3 DEF after
  <1>5. ASSUME NEW i \in n + 1 .. Len(after) PROVE ~For(after[i], v)
    <2>1. i \in n + 1 .. l \/ i = l + 1
      BY <1>2, <1>3, <1>5 DEF after
    <2>2. i \in n + 1 .. l => after[i] = w[i]
      BY <1>2, <1>3 DEF after
    <2>3. after[l + 1] = m
      BY <1>2 DEF after
    <2>4. QED
      BY <1>3, <2>1, <2>2, <2>3
  <1>6. Shows(after, v, shown, U)
    BY <1>3, <1>4, <1>5 DEF Shows
  <1>7. QED
    BY <1>6 DEF after

LEMMA ShowsArrival ==
  ASSUME NEW w \in Seq(Notices), w # <<>>, NEW v, NEW shown, NEW U, Shows(w, v, shown, U)
  PROVE  Shows(Tail(w), v, IF For(Head(w), v) THEN Head(w).users ELSE shown, U)
  <1>1. PICK l \in Nat \ {0} : l = Len(w)
    OBVIOUS
  <1>2. Head(w) = w[1] /\ Len(Tail(w)) = l - 1 /\ \A i \in 1 .. l - 1 : Tail(w)[i] = w[i + 1]
    BY <1>1
  <1>3. PICK n \in 0 .. l :
          /\ \A i \in n + 1 .. l : ~For(w[i], v)
          /\ IF n = 0 THEN shown = U ELSE For(w[n], v) /\ w[n].users = U
    BY <1>1 DEF Shows
  <1> DEFINE rest == Tail(w)
             now == IF For(Head(w), v) THEN Head(w).users ELSE shown
  <1>4. n = 0 => now = U
    <2>1. n = 0 => ~For(w[1], v)
      BY <1>1, <1>3
    <2>2. QED
      BY <1>2, <1>3, <2>1
  <1>5. n = 1 => now = U
    BY <1>2, <1>3
  <1>6. PICK k \in 0 .. l - 1 : k = IF n = 0 THEN 0 ELSE n - 1
    BY <1>1, <1>3
  <1>7. Len(rest) = l - 1 /\ \A i \in 1 .. l - 1 : rest[i] = w[i + 1]
    BY <1>2
  <1> HIDE DEF rest, now
  <1>8. k # 0 => rest[k] = w[n]
    <2>1. k # 0 => k \in 1 .. l - 1 /\ k + 1 = n
      BY <1>3, <1>6
    <2>2. QED
      BY <1>7, <2>1
  <1>9. ASSUME NEW i \in k + 1 .. l - 1 PROVE ~For(rest[i], v)
    <2>1. i \in 1 .. l - 1 /\ i + 1 \in n + 1 .. l
      BY <1>1, <1>3, <1>6, <1>9
    <2>2. QED
      BY <1>3, <1>7, <2>1
  <1>10. IF k = 0 THEN now = U ELSE For(rest[k], v) /\ rest[k].users = U
    <2>1. CASE k = 0
      <3>1. n = 0 \/ n = 1
        BY <1>3, <1>6, <2>1
      <3>2. QED
        BY <1>4, <1>5, <2>1, <3>1
    <2>2. CASE k # 0
      <3>1. n # 0
        BY <1>6, <2>2
      <3>2. QED
        BY <1>3, <1>8, <2>2, <3>1
    <2>3. QED
      BY <2>1, <2>2
  <1>11. Shows(rest, v, now, U)
    BY <1>6, <1>7, <1>9, <1>10 DEF Shows
  <1>12. QED
    BY <1>11 DEF rest, now

LEMMA ShowsNow ==
  ASSUME NEW v, NEW shown, NEW U, Shows(<<>>, v, shown, U)
  PROVE  shown = U
  BY DEF Shows

\* The server has read everything of the tab and answered the join of its page.
Settled(t) == toServer[conn[t]] = <<>> /\ CheckOf(t) \notin checking

\* Its connection is in the room of no other run.
Alone(t) == \A r \in Runs \ {page[t]} : conn[t] \notin room[r]

SeesAt(t) ==
  Awaited(t) /\ Settled(t) /\ Alone(t) =>
    Shows(toClient[conn[t]], visit[t], view[t], Participants(room[page[t]]))

\* A settled page shows the presence of its run, or the last notice on its way does.
SeesRoom == \A t \in Serving : SeesAt(t)

\* A step elsewhere.
LEMMA SeesStays ==
  ASSUME TypeOK, NEW x \in Serving, SeesAt(x),
         page'[x] = page[x], visit'[x] = visit[x], conn'[x] = conn[x], view'[x] = view[x],
         toClient'[conn[x]] = toClient[conn[x]], room'[page[x]] = room[page[x]],
         unchecked \subseteq unchecked',
         Settled(x)' => Settled(x), Alone(x)' => Alone(x)
  PROVE  SeesAt(x)'
  <1>1. Awaited(x)' => Awaited(x)
    BY DEF Awaited, MayRead, CheckOf
  <1>2. Participants(room[page[x]])' = Participants(room[page[x]])
    BY DEF Participants
  <1>3. QED
    BY <1>1, <1>2 DEF SeesAt

\* A step that announces the room of the page.
LEMMA SeesNews ==
  ASSUME TypeOK, room' \in [Runs -> SUBSET Conns], NEW x \in Serving, NEW rs \in SUBSET Runs,
         page'[x] = page[x], visit'[x] = visit[x], conn'[x] = conn[x], view'[x] = view[x],
         toClient'[conn[x]] = Announce(rs)[conn[x]], Told(rs, conn[x]) = {page[x]}
  PROVE  SeesAt(x)'
  <1> DEFINE U == Participants(room'[page[x]])
             w == toClient[conn[x]]
  <1>1. page[x] \in Runs /\ conn[x] \in Conns /\ w \in Seq(Notices)
    BY ServingTabs DEF TypeOK
  <1>2. toClient'[conn[x]] = Append(w, Presence(U))
    <2>1. toClient \in [Conns -> Seq(Notices)]
      BY DEF TypeOK
    <2>2. \A r \in Runs : Told(rs, conn[x]) = {r} =>
            Announce(rs)[conn[x]] = Append(toClient[conn[x]], Presence(Participants(room'[r])))
      BY <1>1, <2>1, Announced
    <2>3. QED
      BY <1>1, <2>2
  <1>3. Presence(U) \in Notices /\ Presence(U).users = U
    BY <1>1, ParticipantsAreUsers DEF Presence, Notices
  <1>4. For(Presence(U), visit[x])
    BY DEF For, Presence
  <1> HIDE DEF U, w
  <1>5. Shows(Append(w, Presence(U)), visit[x], view[x], U)
    BY <1>1, <1>3, <1>4, ShowsNews
  <1>6. Participants(room[page[x]])' = U
    BY DEF U, Participants
  <1>7. QED
    BY <1>2, <1>5, <1>6 DEF SeesAt

LEMMA SeesOpen ==
  ASSUME TypeOK, SeesRoom, NEW t \in Tabs, NEW r \in Runs, Open(t, r)
  PROVE  SeesRoom'
  <1> DEFINE messages == IF conn[t] = NoConn THEN <<>> ELSE <<Request("join", t, r)>>
  <1>1. /\ page' = [page EXCEPT ![t] = r] /\ visit' = [visit EXCEPT ![t] = @ + 1]
        /\ Emit(t, messages)
        /\ UNCHANGED <<conn, view, up, toClient, checking, room, unchecked>>
    BY DEF Open
  <1>2. messages \in Seq(Requests)
    <2>1. visit' \in [Tabs -> {0} \cup Visits] /\ page'[t] # NoRun /\ visit'[t] # 0
      BY <1>1, OpenTypes, RoomAssumption DEF TypeOK
    <2>2. Request("join", t, r) \in Requests
      BY <2>1 DEF Request, Requests
    <2>3. QED
      BY <2>2
  <1>3. conn[t] # NoConn => Len(messages) = 1
    OBVIOUS
  <1> HIDE DEF messages
  <1>4. SUFFICES ASSUME NEW x \in Serving' PROVE SeesAt(x)'
    BY DEF SeesRoom
  <1>5. x \in Tabs /\ conn[x] \in up /\ conn[x] \in Conns /\ conn[x] # NoConn
    BY <1>1, <1>4, NoConnAssumption DEF Serving, TypeOK
  <1>6. CASE x = t
    <2>1. toServer'[conn[t]] = toServer[conn[t]] \o messages
      BY <1>1, <1>2, <1>5, <1>6, Emitted
    <2>2. toServer[conn[t]] \o messages # <<>>
      <3>1. toServer[conn[t]] \in Seq(Requests)
        BY <1>5, <1>6 DEF TypeOK
      <3>2. Len(toServer[conn[t]] \o messages) # 0
        BY <1>2, <1>3, <1>5, <1>6, <3>1, Appended
      <3>3. QED
        BY <1>2, <3>1, <3>2, NoneOf, Joint
    <2>3. QED
      BY <1>1, <1>6, <2>1, <2>2 DEF SeesAt, Settled
  <1>7. CASE x # t
    <2>1. x \in Serving /\ page'[x] = page[x] /\ visit'[x] = visit[x]
      BY <1>1, <1>4, <1>7 DEF Serving, TypeOK
    <2>2. toServer'[conn[x]] = toServer[conn[x]]
      <3>1. conn[x] \in Conns /\ conn[x] # conn[t]
        BY <1>7, <2>1, ServingTabs
      <3>2. QED
        BY <1>1, <1>2, <3>1, Emitted
    <2>3. (Settled(x)' => Settled(x)) /\ (Alone(x)' => Alone(x))
      BY <1>1, <2>1, <2>2 DEF Settled, Alone, CheckOf
    <2>4. QED
      BY <1>1, <2>1, <2>3, SeesStays DEF SeesRoom
  <1>8. QED
    BY <1>6, <1>7

LEMMA SeesClose ==
  ASSUME TypeOK, SeesRoom, NEW t \in Tabs, Close(t)
  PROVE  SeesRoom'
  <1> DEFINE messages == <<Request("leave", t, page[t])>>
  <1>1. /\ page' = [page EXCEPT ![t] = NoRun] /\ visit' = visit /\ Emit(t, messages)
        /\ view' = [view EXCEPT ![t] = {}] /\ page[t] \in Runs
        /\ UNCHANGED <<conn, up, toClient, checking, room, unchecked>>
    BY DEF Close, TypeOK
  <1>2. messages \in Seq(Requests)
    <2>1. visit[t] \in Visits
      BY <1>1, RoomAssumption DEF TypeOK
    <2>2. Request("leave", t, page[t]) \in Requests
      BY <1>1, <2>1 DEF Request, Requests
    <2>3. QED
      BY <2>2
  <1> HIDE DEF messages
  <1>3. SUFFICES ASSUME NEW x \in Serving' PROVE SeesAt(x)'
    BY DEF SeesRoom
  <1>4. x \in Serving /\ x # t /\ page'[x] = page[x] /\ view'[x] = view[x]
    BY <1>1, <1>3 DEF Serving, TypeOK
  <1>5. toServer'[conn[x]] = toServer[conn[x]]
    BY <1>1, <1>2, <1>4, Emitted, ServingTabs
  <1>6. (Settled(x)' => Settled(x)) /\ (Alone(x)' => Alone(x))
    BY <1>1, <1>4, <1>5 DEF Settled, Alone, CheckOf
  <1>7. QED
    BY <1>1, <1>4, <1>6, SeesStays DEF SeesRoom

LEMMA SeesConnect ==
  ASSUME TypeOK, SeesRoom, NEW t \in Tabs, Connect(t)
  PROVE  SeesRoom'
  <1> DEFINE d == Next1(t)
  <1>1. /\ d \in Conns /\ d \notin up /\ conn' = [conn EXCEPT ![t] = d]
        /\ up' = up \cup {d} /\ toServer' = [toServer EXCEPT ![d] = Greeting(t)]
        /\ UNCHANGED <<page, visit, view, toClient, checking, room, unchecked>>
    BY Connected DEF Connect
  <1>2. d[1] = t
    BY DEF Next1
  <1> HIDE DEF d
  <1>3. SUFFICES ASSUME NEW x \in Serving' PROVE SeesAt(x)'
    BY DEF SeesRoom
  <1>4. CASE x = t
    <2>1. page[t] # NoRun /\ toServer'[conn'[t]] = Greeting(t)
      BY <1>1, <1>3, <1>4 DEF Serving, TypeOK
    <2>2. Greeting(t) = outbox[t] \o <<JoinOf(t)>> /\ outbox[t] \in Seq(Requests)
      BY <2>1 DEF Greeting, JoinOf, TypeOK
    <2>3. Greeting(t) # <<>>
      BY <2>1, <2>2, LastOf, JoinIsRequest
    <2>4. QED
      BY <1>4, <2>1, <2>3 DEF SeesAt, Settled
  <1>5. CASE x # t
    <2>1. conn'[x] = conn[x] /\ x \in Tabs /\ page[x] # NoRun /\ conn[x] \in up'
      BY <1>1, <1>3, <1>5 DEF Serving, TypeOK
    <2>2. conn[x] # d
      BY <1>1, <1>2, <1>5, <2>1, ConnTypes, NoConnAssumption
    <2>3. x \in Serving /\ conn[x] \in Conns
      BY <1>1, <2>1, <2>2 DEF Serving, TypeOK
    <2>4. toServer'[conn[x]] = toServer[conn[x]]
      BY <1>1, <2>2, <2>3 DEF TypeOK
    <2>5. (Settled(x)' => Settled(x)) /\ (Alone(x)' => Alone(x))
      BY <1>1, <2>1, <2>4 DEF Settled, Alone, CheckOf
    <2>6. QED
      BY <1>1, <2>1, <2>3, <2>5, SeesStays DEF SeesRoom
  <1>6. QED
    BY <1>4, <1>5

LEMMA SeesDrop ==
  ASSUME TypeOK, SeesRoom, NEW t \in Tabs, Drop(t)
  PROVE  SeesRoom'
  <1>1. /\ conn' = [conn EXCEPT ![t] = NoConn] /\ toClient' = [toClient EXCEPT ![conn[t]] = <<>>]
        /\ UNCHANGED <<page, visit, view, up, toServer, checking, room, unchecked>>
    BY DEF Drop
  <1>2. SUFFICES ASSUME NEW x \in Serving' PROVE SeesAt(x)'
    BY DEF SeesRoom
  <1>3. x # t /\ x \in Serving /\ conn'[x] = conn[x]
    BY <1>1, <1>2, NoConnAssumption DEF Serving, TypeOK
  <1>4. toClient'[conn[x]] = toClient[conn[x]]
    BY <1>1, <1>3, ServingTabs DEF TypeOK
  <1>5. (Settled(x)' => Settled(x)) /\ (Alone(x)' => Alone(x))
    BY <1>1, <1>3 DEF Settled, Alone, CheckOf
  <1>6. QED
    BY <1>1, <1>3, <1>4, <1>5, SeesStays DEF SeesRoom

LEMMA SeesDeliver ==
  ASSUME TypeOK, SeesRoom, NEW t \in Tabs, Deliver(t)
  PROVE  SeesRoom'
  <1> DEFINE w == toClient[conn[t]]
             notice == Head(w)
  <1>1. /\ conn[t] \in Conns /\ w \in Seq(Notices) /\ w # <<>>
        /\ view' = IF Concerns(notice, t) THEN [view EXCEPT ![t] = notice.users] ELSE view
        /\ toClient' = [toClient EXCEPT ![conn[t]] = Tail(w)]
        /\ UNCHANGED <<page, visit, conn, up, toServer, checking, room, unchecked>>
    BY ConnTypes DEF Deliver, TypeOK
  <1>2. SUFFICES ASSUME NEW x \in Serving' PROVE SeesAt(x)'
    BY DEF SeesRoom
  <1>3. x \in Serving /\ SeesAt(x)
    BY <1>1, <1>2 DEF Serving, SeesRoom
  <1>4. (Settled(x)' => Settled(x)) /\ (Alone(x)' => Alone(x))
    BY <1>1 DEF Settled, Alone, CheckOf
  <1>5. CASE x # t
    <2>1. toClient'[conn[x]] = toClient[conn[x]] /\ view'[x] = view[x]
      <3> HIDE DEF notice, w
      <3>1. conn[x] \in Conns /\ conn[x] # conn[t] /\ x \in Tabs
        BY <1>3, <1>5, ServingTabs
      <3>2. toClient'[conn[x]] = toClient[conn[x]]
        BY <1>1, <3>1 DEF TypeOK
      <3>3. QED
        BY <1>1, <1>5, <3>1, <3>2 DEF TypeOK
    <2>2. QED
      BY <1>1, <1>3, <1>4, <2>1, SeesStays
  <1>6. CASE x = t
    <2> DEFINE U == Participants(room[page[t]])
               now == IF For(notice, visit[t]) THEN notice.users ELSE view[t]
    <2>1. page[t] # NoRun /\ t \in Tabs /\ (Concerns(notice, t) <=> For(notice, visit[t]))
      BY <1>3, <1>6 DEF Serving, Concerns, For
    <2>2. view'[t] = now /\ toClient'[conn[t]] = Tail(w)
      <3> HIDE DEF notice, w
      <3>1. toClient'[conn[t]] = Tail(w)
        BY <1>1 DEF TypeOK
      <3>2. QED
        BY <1>1, <2>1, <3>1 DEF TypeOK
    <2>3. Shows(w, visit[t], view[t], U) => Shows(Tail(w), visit[t], now, U)
      BY <1>1, ShowsArrival
    <2>4. Participants(room[page[t]])' = U /\ conn'[t] = conn[t] /\ visit'[t] = visit[t]
      BY <1>1 DEF Participants
    <2>5. Awaited(t)' => Awaited(t)
      BY <1>1 DEF Awaited, MayRead, CheckOf
    <2> HIDE DEF now, U
    <2>6. ASSUME Awaited(t)', Settled(t)', Alone(t)'
          PROVE  Shows(toClient'[conn'[t]], visit'[t], view'[t], Participants(room[page[t]])')
      <3>1. Shows(w, visit[t], view[t], U)
        BY <1>3, <1>4, <1>6, <2>5, <2>6 DEF SeesAt, U
      <3>2. Shows(Tail(w), visit[t], now, U)
        BY <2>3, <3>1
      <3>3. QED
        BY <2>2, <2>4, <3>2
    <2>7. QED
      BY <1>6, <2>6 DEF SeesAt
  <1>7. QED
    BY <1>5, <1>6

\* Before the last join of x is answered it is not settled.
LEMMA NotYetSettled ==
  ASSUME TypeOK, NEW x \in Serving, AdmittedAt(x), toServer[conn[x]] # <<>>,
         page'[x] = page[x], visit'[x] = visit[x], conn'[x] = conn[x],
         toServer'[conn[x]] = Tail(toServer[conn[x]]),
         Head(toServer[conn[x]]).type = "join" =>
           [conn |-> conn[x], run |-> Head(toServer[conn[x]]).run,
            visit |-> Head(toServer[conn[x]]).visit] \in checking'
  PROVE  ~Settled(x)'
  <1> DEFINE q == toServer[conn[x]]
  <1>1. q \in Seq(Requests) /\ Last(q) = JoinOf(x)
    BY ServingTabs DEF AdmittedAt
  <1>2. CheckOf(x)' = CheckOf(x)
    BY DEF CheckOf
  <1>3. SUFFICES ASSUME Tail(q) = <<>> PROVE CheckOf(x) \in checking'
    BY <1>2 DEF Settled
  <1>4. Head(q) = JoinOf(x)
    BY <1>1, <1>3, LastOf
  <1>5. Head(q).type = "join" /\ Head(q).run = page[x] /\ Head(q).visit = visit[x]
    BY <1>4 DEF JoinOf
  <1> HIDE DEF q
  <1>6. QED
    BY <1>5 DEF CheckOf, q

LEMMA SeesReceiveJoin ==
  ASSUME TypeOK, Admitted, SeesRoom, NEW c \in Conns, ReceiveJoin(c)
  PROVE  SeesRoom'
  <1> DEFINE j == [conn |-> c, run |-> Head(toServer[c]).run, visit |-> Head(toServer[c]).visit]
  <1>1. /\ toServer[c] # <<>> /\ toServer' = [toServer EXCEPT ![c] = Tail(@)]
        /\ checking' = checking \cup {j}
        /\ UNCHANGED <<page, visit, conn, view, up, toClient, room, unchecked>>
    BY DEF ReceiveJoin
  <1>2. SUFFICES ASSUME NEW x \in Serving' PROVE SeesAt(x)'
    BY DEF SeesRoom
  <1>3. x \in Serving /\ AdmittedAt(x) /\ SeesAt(x) /\ conn[x] \in Conns
    BY <1>1, <1>2, ServingTabs DEF Serving, SeesRoom, Admitted
  <1>4. CASE conn[x] = c
    <2>1. toServer'[c] = Tail(toServer[c]) /\ j \in checking'
      BY <1>1 DEF TypeOK
    <2>2. ~Settled(x)'
      BY <1>1, <1>3, <1>4, <2>1, NotYetSettled
    <2>3. QED
      BY <2>2 DEF SeesAt
  <1>5. CASE conn[x] # c
    <2>1. toServer'[conn[x]] = toServer[conn[x]]
      BY <1>1, <1>3, <1>5 DEF TypeOK
    <2>2. (Settled(x)' => Settled(x)) /\ (Alone(x)' => Alone(x))
      BY <1>1, <2>1 DEF Settled, Alone, CheckOf
    <2>3. QED
      BY <1>1, <1>3, <2>2, SeesStays
  <1>6. QED
    BY <1>4, <1>5

\* A settled page that may be read is in the room of its run.
LEMMA SettledIsIn ==
  ASSUME NEW x \in Serving, AdmittedAt(x), Settled(x), Awaited(x)
  PROVE  conn[x] \in room[page[x]]
  BY DEF AdmittedAt, Settled

LEMMA ServingReachable == ASSUME TypeOK, NEW x \in Serving PROVE conn[x] \in Reachable
  BY ServingTabs DEF Reachable

LEMMA AnnouncedOne ==
  ASSUME TypeOK, room' \in [Runs -> SUBSET Conns], NEW r \in Runs, NEW c \in Conns
  PROVE  /\ Told({r}, c) = {} => Announce({r})[c] = toClient[c]
         /\ Told({r}, c) = {r} =>
              Announce({r})[c] = Append(toClient[c], Presence(Participants(room'[r])))
  <1>1. {r} \in SUBSET Runs /\ toClient \in [Conns -> Seq(Notices)]
    BY DEF TypeOK
  <1>2. QED
    BY <1>1, Announced

LEMMA SeesFinishJoin ==
  ASSUME TypeOK, Admitted, SeesRoom, NEW j \in checking, FinishJoin(j)
  PROVE  SeesRoom'
  <1>1. /\ checking' = checking \ {j}
        /\ UNCHANGED <<page, visit, conn, view, up, toServer, unchecked>>
    BY DEF FinishJoin
  <1>2. SUFFICES ASSUME NEW x \in Serving' PROVE SeesAt(x)'
    BY DEF SeesRoom
  <1> DEFINE c == conn[x]
  <1>3. x \in Serving /\ AdmittedAt(x) /\ SeesAt(x) /\ c \in Conns /\ page[x] \in Runs
        /\ c \in Reachable
    BY <1>1, <1>2, ServingTabs, ServingReachable DEF Serving, SeesRoom, Admitted
  <1>4. j.conn \in Conns /\ j.run \in Runs
    BY CheckTypes
  <1>5. j # CheckOf(x) => (Settled(x)' => Settled(x))
    BY <1>1 DEF Settled, CheckOf
  <1>6. Awaited(x)' => Awaited(x) /\ MayRead(c, page[x])
    BY <1>1 DEF Awaited, MayRead, CheckOf
  <1>7. CASE <<UserOf[j.conn[1]], j.run>> \notin Readable
    <2>1. room' = room /\ toClient' = toClient
      BY <1>7 DEF FinishJoin
    <2>2. CASE j = CheckOf(x)
      <3>1. ~MayRead(c, page[x])
        BY <1>7, <2>2 DEF CheckOf, MayRead
      <3>2. QED
        BY <1>1, <1>6, <3>1 DEF SeesAt
    <2>3. CASE j # CheckOf(x)
      <3>1. Alone(x)' => Alone(x)
        BY <1>1, <2>1 DEF Alone
      <3>2. QED
        BY <1>1, <1>3, <1>5, <2>1, <2>3, <3>1, SeesStays
    <2>4. QED
      BY <2>2, <2>3
  <1>8. CASE <<UserOf[j.conn[1]], j.run>> \in Readable
    <2> DEFINE U == Participants(room'[j.run])
               ack == Ack(j, U)
               w == Announce({j.run})[c]
    <2>1. /\ room' = [room EXCEPT ![j.run] = @ \cup {j.conn}]
          /\ room' \in [Runs -> SUBSET Conns]
          /\ w \in Seq(Notices) /\ ack \in Notices
          /\ toClient'[c] = IF c = j.conn THEN Append(w, ack) ELSE w
      BY <1>3, <1>8, Joined
    <2>2. CASE j.run # page[x]
      <3>1. room'[page[x]] = room[page[x]] /\ j # CheckOf(x)
        BY <1>3, <2>1, <2>2 DEF CheckOf, TypeOK
      <3>2. ASSUME Alone(x)' PROVE toClient'[c] = toClient[c] /\ Alone(x)
        <4>1. c \notin room'[j.run]
          BY <1>1, <1>4, <2>2, <3>2 DEF Alone
        <4>2. c # j.conn /\ Told({j.run}, c) = {}
          BY <1>4, <2>1, <4>1 DEF Told, TypeOK
        <4>3. w = toClient[c]
          BY <1>3, <1>4, <2>1, <4>2, AnnouncedOne
        <4>4. \A r \in Runs : room[r] \subseteq room'[r]
          BY <2>1 DEF TypeOK
        <4>5. Alone(x)
          BY <1>1, <3>2, <4>4 DEF Alone
        <4>6. QED
          BY <2>1, <4>2, <4>3, <4>5
      <3> HIDE DEF c
      <3>3. ASSUME ~Alone(x)' PROVE SeesAt(x)'
        BY <3>3 DEF SeesAt
      <3>4. ASSUME Alone(x)' PROVE SeesAt(x)'
        BY <1>1, <1>3, <1>5, <3>1, <3>2, <3>4, SeesStays DEF c
      <3>5. QED
        BY <3>3, <3>4
    <2>3. CASE j.run = page[x]
      <3>1. ASSUME Awaited(x), Settled(x)' PROVE c \in room'[page[x]]
        <4>1. CASE j = CheckOf(x)
          BY <1>3, <1>4, <2>1, <2>3, <4>1 DEF CheckOf, TypeOK
        <4>2. CASE j # CheckOf(x)
          <5>1. c \in room[page[x]]
            BY <1>3, <1>5, <3>1, <4>2, SettledIsIn
          <5>2. QED
            BY <1>3, <1>4, <2>1, <5>1 DEF TypeOK
        <4>3. QED
          BY <4>1, <4>2
      <3>2. SUFFICES ASSUME Awaited(x), Settled(x)', Alone(x)'
                     PROVE  Shows(toClient'[c], visit[x], view[x], U)
        <4>1. Participants(room[page[x]])' = U
          BY <1>1, <2>3 DEF Participants
        <4> HIDE DEF U
        <4>2. QED
          BY <1>1, <1>6, <4>1 DEF SeesAt
      <3>3. Told({j.run}, c) = {page[x]}
        BY <1>3, <2>3, <3>1, <3>2 DEF Told
      <3>4. w = Append(toClient[c], Presence(U))
        <4>1. Told({j.run}, c) = {j.run} =>
                w = Append(toClient[c], Presence(U))
          BY <1>3, <1>4, <2>1, AnnouncedOne
        <4>2. QED
          BY <2>3, <3>3, <4>1
      <3>5. toClient[c] \in Seq(Notices) /\ Presence(U) \in Notices /\ Presence(U).users = U
            /\ For(Presence(U), visit[x]) /\ ack.users = U
        <4>1. U \in SUBSET Users
          BY <1>4, <2>1, ParticipantsAreUsers
        <4> HIDE DEF U
        <4>2. QED
          BY <1>3, <4>1 DEF Presence, Notices, For, Ack, TypeOK
      <3> HIDE DEF U, w, ack, c
      <3>6. Shows(w, visit[x], view[x], U)
        BY <3>4, <3>5, ShowsNews
      <3>7. Shows(Append(w, ack), visit[x], view[x], U)
        <4>1. CASE For(ack, visit[x])
          BY <2>1, <3>5, <4>1, ShowsNews
        <4>2. CASE ~For(ack, visit[x])
          BY <2>1, <3>6, <4>2, ShowsOther
        <4>3. QED
          BY <4>1, <4>2
      <3>8. QED
        BY <2>1, <3>6, <3>7
    <2>4. QED
      BY <2>2, <2>3
  <1>9. QED
    BY <1>7, <1>8

LEMMA SeesJoinFails ==
  ASSUME TypeOK, SeesRoom, NEW j \in checking, JoinFails(j)
  PROVE  SeesRoom'
  <1>1. /\ checking' = checking \ {j} /\ unchecked' = unchecked \cup {j}
        /\ UNCHANGED <<page, visit, conn, view, up, toServer, toClient, room>>
    BY DEF JoinFails
  <1>2. SUFFICES ASSUME NEW x \in Serving' PROVE SeesAt(x)'
    BY DEF SeesRoom
  <1>3. x \in Serving /\ SeesAt(x)
    BY <1>1, <1>2 DEF Serving, SeesRoom
  <1>4. CASE j = CheckOf(x)
    BY <1>1, <1>4 DEF SeesAt, Awaited, CheckOf
  <1>5. CASE j # CheckOf(x)
    <2>1. (Settled(x)' => Settled(x)) /\ (Alone(x)' => Alone(x))
      BY <1>1, <1>5 DEF Settled, Alone, CheckOf
    <2>2. QED
      BY <1>1, <1>3, <2>1, SeesStays
  <1>6. QED
    BY <1>4, <1>5

LEMMA SeesReceiveLeave ==
  ASSUME TypeOK, Admitted, SeesRoom, NEW c \in Conns, ReceiveLeave(c)
  PROVE  SeesRoom'
  <1> DEFINE r == Head(toServer[c]).run
  <1>1. /\ toServer[c] # <<>> /\ toServer' = [toServer EXCEPT ![c] = Tail(@)]
        /\ Head(toServer[c]).type = "leave"
        /\ room' = [room EXCEPT ![r] = @ \ {c}] /\ toClient' = Announce({r})
        /\ UNCHANGED <<page, visit, conn, view, up, checking, unchecked>>
    BY DEF ReceiveLeave
  <1>2. r \in Runs
    BY <1>1, Received DEF Requests
  <1>3. SUFFICES ASSUME NEW x \in Serving' PROVE SeesAt(x)'
    BY DEF SeesRoom
  <1>4. x \in Serving /\ AdmittedAt(x) /\ SeesAt(x) /\ conn[x] \in Conns /\ page[x] \in Runs
        /\ conn[x] \in Reachable
    BY <1>1, <1>3, ServingTabs, ServingReachable DEF Serving, SeesRoom, Admitted
  <1>5. CASE conn[x] = c
    <2>1. toServer'[c] = Tail(toServer[c])
      BY <1>1 DEF TypeOK
    <2>2. ~Settled(x)'
      BY <1>1, <1>4, <1>5, <2>1, NotYetSettled
    <2>3. QED
      BY <2>2 DEF SeesAt
  <1>6. CASE conn[x] # c
    <2> HIDE DEF r
    <2>1. toServer'[conn[x]] = toServer[conn[x]]
      BY <1>1, <1>4, <1>6 DEF TypeOK
    <2>2. Settled(x)' => Settled(x)
      BY <1>1, <2>1 DEF Settled, CheckOf
    <2>3. \A s \in Runs : conn[x] \in room'[s] <=> conn[x] \in room[s]
      BY <1>1, <1>2, <1>6 DEF TypeOK
    <2>4. Alone(x)' => Alone(x)
      BY <1>1, <2>3 DEF Alone
    <2>5. room' \in [Runs -> SUBSET Conns]
      BY <1>1, <1>2 DEF TypeOK
    <2>6. CASE r = page[x]
      <3>1. CASE conn[x] \in room[page[x]]
        <4>1. Told({r}, conn[x]) = {page[x]}
          BY <1>2, <1>4, <2>3, <2>6, <3>1 DEF Told
        <4>2. QED
          <5>1. {r} \in SUBSET Runs /\ toClient'[conn[x]] = Announce({r})[conn[x]]
            BY <1>1, <1>2
          <5>2. QED
            BY <1>1, <1>4, <2>5, <4>1, <5>1, SeesNews
      <3>2. CASE conn[x] \notin room[page[x]]
        <4>1. ~(Settled(x) /\ Awaited(x))
          BY <1>4, <3>2, SettledIsIn
        <4>2. QED
          BY <1>1, <2>2, <4>1 DEF SeesAt, Awaited, MayRead, CheckOf
      <3>3. QED
        BY <3>1, <3>2
    <2>7. CASE r # page[x]
      <3>1. room'[page[x]] = room[page[x]]
        BY <1>1, <1>2, <1>4, <2>7 DEF TypeOK
      <3>2. ASSUME Alone(x)' PROVE SeesAt(x)'
        <4>1. conn[x] \notin room'[r]
          BY <1>1, <1>2, <2>7, <3>2 DEF Alone
        <4>2. Told({r}, conn[x]) = {}
          BY <4>1 DEF Told
        <4>3. toClient \in [Conns -> Seq(Notices)]
          BY DEF TypeOK
        <4>4. toClient'[conn[x]] = toClient[conn[x]]
          <5>1. {r} \in SUBSET Runs /\ toClient'[conn[x]] = Announce({r})[conn[x]]
            BY <1>1, <1>2
          <5>2. QED
            BY <1>4, <2>5, <4>2, <4>3, <5>1, Announced
        <4>5. QED
          BY <1>1, <1>4, <2>2, <2>4, <3>1, <4>4, SeesStays
      <3>3. QED
        BY <3>2 DEF SeesAt
    <2>8. QED
      BY <2>6, <2>7
  <1>7. QED
    BY <1>5, <1>6

LEMMA SeesDisconnect ==
  ASSUME TypeOK, Admitted, SeesRoom, NEW c \in Conns, Disconnect(c)
  PROVE  SeesRoom'
  <1> DEFINE rs == {r \in Runs : c \in room[r]}
  <1>1. /\ up' = up \ {c} /\ toServer' = [toServer EXCEPT ![c] = <<>>]
        /\ room' = [r \in Runs |-> room[r] \ {c}] /\ toClient' = Announce(rs)
        /\ UNCHANGED <<page, visit, conn, view, checking, unchecked>>
    BY DEF Disconnect
  <1>2. SUFFICES ASSUME NEW x \in Serving' PROVE SeesAt(x)'
    BY DEF SeesRoom
  <1>3. x \in Serving /\ conn[x] # c
    BY <1>1, <1>2 DEF Serving
  <1>4. AdmittedAt(x) /\ SeesAt(x) /\ conn[x] \in Conns /\ page[x] \in Runs
        /\ conn[x] \in Reachable
    BY <1>3, ServingTabs, ServingReachable DEF SeesRoom, Admitted
  <1>5. toServer'[conn[x]] = toServer[conn[x]]
    BY <1>1, <1>3, <1>4 DEF TypeOK
  <1>6. Settled(x)' => Settled(x)
    BY <1>1, <1>5 DEF Settled, CheckOf
  <1>7. \A s \in Runs : conn[x] \in room'[s] <=> conn[x] \in room[s]
    BY <1>1, <1>3 DEF TypeOK
  <1>8. Alone(x)' => Alone(x)
    BY <1>1, <1>7 DEF Alone
  <1>9. room' \in [Runs -> SUBSET Conns] /\ rs \in SUBSET Runs
    BY <1>1 DEF TypeOK
  <1>10. SUFFICES ASSUME Awaited(x), Settled(x), Alone(x) PROVE SeesAt(x)'
    BY <1>1, <1>6, <1>8 DEF SeesAt, Awaited, MayRead, CheckOf
  <1>11. conn[x] \in room[page[x]]
    BY <1>3, <1>4, <1>10, SettledIsIn
  <1>12. \A r \in Runs : conn[x] \in room'[r] <=> r = page[x]
    BY <1>4, <1>7, <1>10, <1>11 DEF Alone
  <1>13. CASE c \in room[page[x]]
    <2>1. Told(rs, conn[x]) = {page[x]}
      BY <1>4, <1>12, <1>13 DEF Told
    <2> HIDE DEF rs
    <2>2. QED
      BY <1>1, <1>3, <1>9, <2>1, SeesNews
  <1>14. CASE c \notin room[page[x]]
    <2>1. Told(rs, conn[x]) = {}
      BY <1>12, <1>14 DEF Told
    <2>2. room'[page[x]] = room[page[x]]
      <3>1. room'[page[x]] = room[page[x]] \ {c}
        BY <1>1, <1>4
      <3>2. QED
        BY <1>14, <3>1
    <2> HIDE DEF rs
    <2>3. toClient \in [Conns -> Seq(Notices)]
      BY DEF TypeOK
    <2>4. toClient'[conn[x]] = toClient[conn[x]]
      BY <1>1, <1>4, <1>9, <2>1, <2>3, Announced
    <2>5. QED
      BY <1>1, <1>3, <1>4, <1>6, <1>8, <2>2, <2>4, SeesStays
  <1>15. QED
    BY <1>13, <1>14

-------------------------------------------------------------------------------
\* The theorems

PresenceInv == TypeOK /\ LeavesKept /\ Admitted /\ NoneTooMany

LEMMA PresenceInit == Init => PresenceInv
  <1> SUFFICES ASSUME Init PROVE PresenceInv
    OBVIOUS
  <1>1. \A c \in Conns : toServer[c] = <<>>
    BY DEF Init
  <1>2. TypeOK
    BY TypeInit
  <1>3. LeavesKept /\ Admitted
    BY DEF Init, LeavesKept, Admitted, Serving
  <1>4. RoomsExplained /\ ChecksExplained
    BY DEF Init, RoomsExplained, ChecksExplained
  <1>5. JoinsAccounted
    BY <1>1, <1>2 DEF JoinsAccounted, TypeOK
  <1>6. QED
    BY <1>2, <1>3, <1>4, <1>5 DEF PresenceInv, NoneTooMany

LEMMA TypeStep == TypeOK /\ [Next]_vars => TypeOK'
  <1> SUFFICES ASSUME TypeOK, [Next]_vars PROVE TypeOK'
    OBVIOUS
  <1>1. ASSUME NEW t \in Tabs, \E r \in Runs : Open(t, r) PROVE TypeOK'
    BY <1>1, OpenTypes
  <1>2. ASSUME NEW t \in Tabs, Close(t) \/ Connect(t) \/ Drop(t) \/ Deliver(t) PROVE TypeOK'
    BY <1>2, CloseTypes, ConnectTypes, DropTypes, DeliverTypes
  <1>3. ASSUME NEW c \in Conns, Disconnect(c) \/ ReceiveJoin(c) \/ ReceiveLeave(c) PROVE TypeOK'
    BY <1>3, DisconnectTypes, ReceiveJoinTypes, ReceiveLeaveTypes
  <1>4. ASSUME NEW j \in checking, FinishJoin(j) \/ JoinFails(j) PROVE TypeOK'
    BY <1>4, FinishJoinTypes, JoinFailsTypes
  <1>5. CASE Restart
    BY <1>5, RestartTypes
  <1>6. CASE UNCHANGED vars
    BY <1>6 DEF vars, TypeOK
  <1>7. QED
    BY <1>1, <1>2, <1>3, <1>4, <1>5, <1>6 DEF Next, Handle

\* Type correctness: what is on a connection are requests and notices, a page
\* belongs to a visit, a tab believes in its latest connection or in none, and the
\* server reads nothing from a connection that is closed (use-run-socket.ts,
\* lib/socket.ts, runs.gateway.ts).
THEOREM TypeCorrect == Spec => []TypeOK
  BY TypeInit, TypeStep, PTL DEF Spec

LEMMA PresenceStep == PresenceInv /\ [Next]_vars => PresenceInv'
  <1> SUFFICES ASSUME PresenceInv, [Next]_vars PROVE PresenceInv'
    OBVIOUS
  <1>1. TypeOK /\ LeavesKept /\ Admitted /\ NoneTooMany
    BY DEF PresenceInv
  <1>2. TypeOK' /\ LeavesKept'
    BY <1>1, TypeStep, LeavesKeptStep
  <1> DEFINE Good == Admitted' /\ NoneTooMany'
  <1>3. ASSUME NEW t \in Tabs, NEW r \in Runs, Open(t, r) PROVE Good
    BY <1>1, <1>3, AdmittedOpen, NoneTooManyOpen
  <1>4. ASSUME NEW t \in Tabs, Close(t) PROVE Good
    BY <1>1, <1>4, AdmittedClose, NoneTooManyClose
  <1>5. ASSUME NEW t \in Tabs, Connect(t) PROVE Good
    BY <1>1, <1>5, AdmittedConnect, NoneTooManyConnect
  <1>6. ASSUME NEW t \in Tabs, Drop(t) PROVE Good
    BY <1>1, <1>6, AdmittedDrop, NoneTooManyDrop
  <1>7. ASSUME UNCHANGED <<page, visit, conn, up, toServer, checking, room, overtaken, unchecked>>
        PROVE  Good
    BY <1>1, <1>7 DEF Admitted, AdmittedAt, Awaited, Serving, JoinOf, CheckOf, MayRead, NoneTooMany,
                      RoomsExplained, ChecksExplained, JoinsAccounted, Explained, Accounted
  <1>8. ASSUME NEW t \in Tabs, Deliver(t) PROVE Good
    BY <1>7, <1>8 DEF Deliver
  <1>9. ASSUME NEW c \in Conns, Disconnect(c) PROVE Good
    BY <1>1, <1>9, AdmittedDisconnect, NoneTooManyDisconnect
  <1>10. ASSUME NEW c \in Conns, ReceiveJoin(c) PROVE Good
    BY <1>1, <1>10, AdmittedReceiveJoin, NoneTooManyReceiveJoin
  <1>11. ASSUME NEW c \in Conns, ReceiveLeave(c) PROVE Good
    BY <1>1, <1>11, AdmittedReceiveLeave, NoneTooManyReceiveLeave
  <1>12. ASSUME NEW j \in checking, FinishJoin(j) PROVE Good
    BY <1>1, <1>12, AdmittedFinishJoin, NoneTooManyFinishJoin
  <1>a. ASSUME NEW j \in checking, JoinFails(j) PROVE Good
    BY <1>1, <1>a, AdmittedJoinFails, NoneTooManyJoinFails
  <1>13. ASSUME Restart PROVE Good
    <2>1. up' = {} /\ checking' = {} /\ \A r \in Runs : room'[r] = {}
      BY <1>13 DEF Restart
    <2>2. QED
      BY <2>1 DEF Admitted, Serving, NoneTooMany, RoomsExplained, ChecksExplained,
                  JoinsAccounted
  <1>14. ASSUME UNCHANGED vars PROVE Good
    BY <1>7, <1>14 DEF vars
  <1>15. [Next]_vars =>
           \/ \E t \in Tabs : \/ \E r \in Runs : Open(t, r)
                              \/ Close(t) \/ Connect(t) \/ Drop(t) \/ Deliver(t)
           \/ \E c \in Conns : Disconnect(c) \/ ReceiveJoin(c) \/ ReceiveLeave(c)
           \/ \E j \in checking : FinishJoin(j) \/ JoinFails(j)
           \/ Restart \/ UNCHANGED vars
    BY DEF Next, Handle
  <1> HIDE DEF Good
  <1>16. Good
    BY <1>3, <1>4, <1>5, <1>6, <1>8, <1>9, <1>10, <1>11, <1>12, <1>a, <1>13, <1>14,
       <1>15
  <1>17. QED
    BY <1>2, <1>16 DEF PresenceInv, Good

LEMMA PresenceInvHolds == Spec => []PresenceInv
  BY PresenceInit, PresenceStep, PTL DEF Spec

\* Once everything has arrived on both sides, the presence of a run is its open pages:
\* no page that may read its run is missing, and a connection too many stands there only
\* because its join was passed by a leave or a disconnect (RunsGateway.handleJoin awaits
\* assertReadable, runs.gateway.ts, and handleDisconnect does not wait for it).
THEOREM PresenceKept == Spec => []PresenceIsOpenPages
  <1>1. PresenceInv => PresenceIsOpenPages
    <2> SUFFICES ASSUME PresenceInv, Quiet PROVE PresenceIsOpenPages
      BY DEF PresenceIsOpenPages
    <2>1. TypeOK /\ Admitted /\ NoneTooMany
      BY DEF PresenceInv
    <2>2. checking = {} /\ (\A c \in Conns : toServer[c] = <<>>)
          /\ up = {conn[t] : t \in Tabs} \ {NoConn}
      BY DEF Quiet
    <2>3. ASSUME NEW t \in Tabs, Attending(t)
          PROVE  conn[t] \in room[page[t]]
      <3>1. t \in Serving /\ conn[t] \in Conns /\ Awaited(t)
        BY <2>1, <2>2, <2>3, ConnTypes DEF Serving, Attending, Awaited, CheckOf
      <3>2. QED
        BY <2>1, <2>2, <2>3, <3>1 DEF Admitted, AdmittedAt
    <2>4. ASSUME NEW r \in Runs, NEW c \in room[r]
          PROVE  /\ MayRead(c, r)
                 /\ \/ conn[c[1]] = c /\ page[c[1]] = r
                    \/ [conn |-> c, run |-> r] \in overtaken
      <3>1. MayRead(c, r) /\ Explained(c, r) /\ c \in Conns
        BY <2>1 DEF NoneTooMany, RoomsExplained, TypeOK
      <3>2. ~HasLeave(toServer[c], r, 0)
        BY <2>2, <3>1 DEF HasLeave
      <3>3. c \in up => conn[c[1]] = c
        <4>1. ASSUME c \in up PROVE conn[c[1]] = c
          <5>1. PICK t \in Tabs : c = conn[t] /\ conn[t] # NoConn
            BY <2>2, <4>1
          <5>2. QED
            BY <2>1, <5>1, ConnTypes
        <4>2. QED
          BY <4>1
      <3>4. QED
        BY <3>1, <3>2, <3>3 DEF Explained, Accounted
    <2>5. QED
      BY <2>3, <2>4 DEF PresenceIsOpenPages
  <1>2. QED
    BY <1>1, PresenceInvHolds, PTL

LEMMA SeesInit == Init => SeesRoom
  BY DEF Init, SeesRoom, Serving

LEMMA SeesStep == PresenceInv /\ SeesRoom /\ [Next]_vars => SeesRoom'
  <1> SUFFICES ASSUME PresenceInv, SeesRoom, [Next]_vars PROVE SeesRoom'
    OBVIOUS
  <1>1. TypeOK /\ Admitted
    BY DEF PresenceInv
  <1>2. ASSUME NEW t \in Tabs, \E r \in Runs : Open(t, r) PROVE SeesRoom'
    BY <1>1, <1>2, SeesOpen
  <1>3. ASSUME NEW t \in Tabs, Close(t) \/ Connect(t) \/ Drop(t) \/ Deliver(t) PROVE SeesRoom'
    BY <1>1, <1>3, SeesClose, SeesConnect, SeesDrop, SeesDeliver
  <1>4. ASSUME NEW c \in Conns, Disconnect(c) \/ ReceiveJoin(c) \/ ReceiveLeave(c) PROVE SeesRoom'
    BY <1>1, <1>4, SeesDisconnect, SeesReceiveJoin, SeesReceiveLeave
  <1>5. ASSUME NEW j \in checking, FinishJoin(j) \/ JoinFails(j) PROVE SeesRoom'
    BY <1>1, <1>5, SeesFinishJoin, SeesJoinFails
  <1>6. CASE Restart
    BY <1>6 DEF Restart, SeesRoom, Serving
  <1>7. CASE UNCHANGED vars
    <2>1. ASSUME NEW x \in Serving' PROVE SeesAt(x)'
      <3>1. x \in Serving /\ SeesAt(x)
        BY <1>7 DEF vars, Serving, SeesRoom
      <3>2. QED
        BY <1>7, <3>1 DEF vars, SeesAt, Settled, Alone, Awaited, CheckOf, MayRead, Participants
    <2>2. QED
      BY <2>1 DEF SeesRoom
  <1>8. QED
    BY <1>2, <1>3, <1>4, <1>5, <1>6, <1>7 DEF Next, Handle

\* Once everything has arrived on both sides, every page shows the presence the server
\* has of its run, however its ack and the run:presence.updated of others were ordered
\* (use-run-socket.ts), unless its connection also stands in the room of another run.
THEOREM PagesShow == Spec => []PagesShowPresence
  <1>1. PresenceInv /\ SeesRoom => PagesShowPresence
    <2> SUFFICES ASSUME PresenceInv, SeesRoom, Quiet,
                        NEW t \in Tabs, Attending(t),
                        \A r \in Runs \ {page[t]} : conn[t] \notin room[r]
                 PROVE  view[t] = Participants(room[page[t]])
      BY DEF PagesShowPresence
    <2>1. TypeOK
      BY DEF PresenceInv
    <2>2. conn[t] \in Conns /\ t \in Serving /\ Awaited(t)
      BY <2>1, ConnTypes DEF Quiet, Serving, Attending, Awaited, CheckOf
    <2>3. Settled(t) /\ Alone(t) /\ toClient[conn[t]] = <<>>
      BY <2>2 DEF Quiet, Settled, Alone
    <2>4. Shows(<<>>, visit[t], view[t], Participants(room[page[t]]))
      BY <2>2, <2>3 DEF SeesRoom, SeesAt
    <2>5. QED
      BY <2>4, ShowsNow
  <1>2. Spec => [](PresenceInv /\ SeesRoom)
    BY PresenceInvHolds, SeesInit, SeesStep, PTL DEF Spec
  <1>3. QED
    BY <1>1, <1>2, PTL
===============================================================================
