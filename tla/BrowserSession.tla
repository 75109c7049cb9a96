----------------------------- MODULE BrowserSession -----------------------------
(***************************************************************************)
(* What a tab keeps besides the tokens of AuthClient, from one sign-in to  *)
(* the next: the query cache (lib/query-client.ts) and the socket          *)
(* (lib/socket.ts).  useLogout of features/auth/hooks.ts empties the one   *)
(* and closes the other; a session that a failed refresh ends             *)
(* (lib/api-client.ts) only loses its tokens.                              *)
(*                                                                         *)
(* A session is a family of tokens.                                        *)
(***************************************************************************)
EXTENDS AuthClient

VARIABLES
  cached,   \* per tab: the sessions whose answers the query cache holds
  asker,    \* per tab and call: the session it is sent for, if its answer is awaited
  socket,   \* per tab: the session the socket is connected for, or NoToken
  undone    \* history, per tab: sessions that ended without logout since the page was
            \* last emptied

keptVars == <<cached, asker, socket, undone>>
sessionVars == <<vars, keptVars>>

SessionOf(t) == family[held[t]]

SessionInit ==
  /\ Init
  /\ cached = [t \in Tabs |-> {}]
  /\ asker = [t \in Tabs |-> [c \in Calls |-> NoToken]]
  /\ socket = [t \in Tabs |-> NoToken]
  /\ undone = [t \in Tabs |-> {}]

\* A query is fetched.
SendQuery(t, c) ==
  /\ Send(t, c)
  /\ asker' = IF c = Logout THEN asker ELSE [asker EXCEPT ![t][c] = SessionOf(t)]
  /\ UNCHANGED <<cached, socket, undone>>

\* The answer is cached for the query that still waits for it.
ServeQuery(t, c) ==
  /\ Serve(t, c)
  /\ IF c = Logout THEN UNCHANGED <<cached, asker>>
     ELSE /\ cached' = [cached EXCEPT ![t] = @ \cup ({asker[t][c]} \ {NoToken})]
          /\ asker' = [asker EXCEPT ![t][c] = NoToken]
  /\ UNCHANGED <<socket, undone>>

\* A failed answer is not cached.
FailQuery(t, c) ==
  /\ CallFails(t, c)
  /\ asker' = IF c = Logout THEN asker ELSE [asker EXCEPT ![t][c] = NoToken]
  /\ UNCHANGED <<cached, socket, undone>>

\* Calls that waited for a refresh are repeated for session s, or given up.
Repeated(t, s) ==
  asker' = [asker EXCEPT ![t] = [c \in Calls |->
    IF call'[t][c] = "again" /\ asker[t][c] # NoToken THEN s
    ELSE IF call'[t][c] = "idle" THEN NoToken ELSE asker[t][c]]]

\* The session held until now ends here, unless it is s.
EndsUnless(t, s) ==
  undone' = IF held[t] = NoToken THEN undone
            ELSE [undone EXCEPT ![t] = @ \cup ({SessionOf(t)} \ {s})]

UnauthorizedQuery(t, c) ==
  /\ Unauthorized(t, c)
  /\ Repeated(t, NoToken)
  /\ UNCHANGED <<cached, socket, undone>>

\* The tokens that come are those of the session that asked for them, whichever the
\* tab holds by now.
RefreshSession(t) ==
  LET s == IF refresh[t].phase = "rotated" THEN family[refresh[t].token] ELSE NoToken
  IN /\ RefreshDone(t)
     /\ Repeated(t, s) /\ EndsUnless(t, s)
     /\ UNCHANGED <<cached, socket>>

\* The catch of the interceptor clears the tokens and nothing else.
LoseSession(t) ==
  /\ RefreshFails(t)
  /\ Repeated(t, NoToken) /\ EndsUnless(t, NoToken)
  /\ UNCHANGED <<cached, socket>>

Emptied(t) ==
  /\ cached' = [cached EXCEPT ![t] = {}]
  /\ asker' = [asker EXCEPT ![t] = [c \in Calls |-> NoToken]]
  /\ socket' = [socket EXCEPT ![t] = NoToken]
  /\ undone' = [undone EXCEPT ![t] = {}]

\* Fault: logout leaves the socket connected.
LeaveWithSocket(t) ==
  /\ LogoutDone(t)
  /\ cached' = [cached EXCEPT ![t] = {}]
  /\ asker' = [asker EXCEPT ![t] = [c \in Calls |-> NoToken]]
  /\ undone' = [undone EXCEPT ![t] = {}]
  /\ UNCHANGED socket

\* useLogout: queryClient.clear, which also makes nobody wait for the answers still
\* to come, and disconnectSocket.
Leave(t) == LogoutDone(t) /\ Emptied(t)

\* Cache and socket live in the page's memory.
LoadPage(t) == Load(t) /\ Emptied(t)

\* connectSocket of AppShell, or a reconnection: with the token the store has by then,
\* if the socket is not connected already.
Connect(t) ==
  /\ socket[t] = NoToken /\ access[t] = "valid"
  /\ socket' = [socket EXCEPT ![t] = SessionOf(t)]
  /\ UNCHANGED <<vars, cached, asker, undone>>

\* The connection breaks.
ConnectionLost(t) ==
  /\ "lost" \in Faults
  /\ socket[t] # NoToken
  /\ socket' = [socket EXCEPT ![t] = NoToken]
  /\ UNCHANGED <<vars, cached, asker, undone>>

SessionNext ==
  \/ \E t \in Tabs :
       \/ (SignIn(t) \/ AccessExpires(t) \/ ServeRefresh(t)) /\ UNCHANGED keptVars
       \/ \E c \in AllCalls : \/ SendQuery(t, c) \/ ServeQuery(t, c)
                             \/ UnauthorizedQuery(t, c) \/ FailQuery(t, c)
       \/ RefreshSession(t) \/ LoseSession(t) \/ Leave(t) \/ LoadPage(t)
       \/ Connect(t) \/ ConnectionLost(t)
  \/ (ServeOrphan \/ TokenExpires) /\ UNCHANGED keptVars

SessionSpec == SessionInit /\ [][SessionNext]_sessionVars /\ Fairness

-------------------------------------------------------------------------------

\* "다음 로그인이 다른 사용자일 수 있으므로" (auth/hooks.ts:69): whoever is signed in
\* sees answers and events of his own session only, also when calls of an earlier one
\* are answered late -- unless that session ended without a logout, by a failed refresh
\* or the late answer to a refresh that another session had started: those leave cache
\* and socket to whoever signs in next.
SignOutLeavesNothing ==
  \A t \in Tabs : held[t] # NoToken =>
    (cached[t] \cup {socket[t]}) \ {NoToken} \subseteq {SessionOf(t)} \cup undone[t]
===============================================================================
