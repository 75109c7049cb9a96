------------------------------ MODULE AuthClient ------------------------------
(***************************************************************************)
(* The session of a browser: the interceptor of frontend/src/lib/          *)
(* api-client.ts, the store of stores/auth-store.ts and useLogout of       *)
(* features/auth/hooks.ts, over the one-step server of TokenFamilies.      *)
(*                                                                         *)
(* Every tab has its own memory copy of the store; localStorage is one,    *)
(* written by each change and read only when a page loads.  A call that    *)
(* meets a 401 joins the refresh under way in its tab or starts one; with  *)
(* its outcome it is sent again, once, or given up.                        *)
(***************************************************************************)
EXTENDS Naturals, FiniteSets, TokenFamilies

CONSTANTS
  Tabs,      \* browser tabs of one origin
  Calls,     \* ordinary API calls a tab may have under way
  Faults,    \* "lost": calls fail or their answers get lost, "reload": pages are reloaded
  Expiries   \* bound: so many tokens run out

Logout == "logout"
ASSUME CallsAssumption == Logout \notin Calls
ASSUME ExpiriesAssumption == Expiries \in Nat
AllCalls == Calls \cup {Logout}

VARIABLES
  held,      \* per tab: refreshToken of the store
  access,    \* per tab: accessToken of the store, "none", "valid" or "stale"
  stored,    \* refreshToken in localStorage
  refresh,   \* per tab: inFlightRefresh, and the token it sent or brings
  call,      \* per tab and call: where it is
  payload,   \* per tab: the token in the body of its logout call
  orphans,   \* refresh requests whose page is gone
  disturbed  \* families whose page was reloaded or whose logout was served

clientVars == <<held, access, stored, refresh, call, payload, orphans, disturbed>>
vars == <<family, revoked, expired, reported, held, access, stored, refresh, call,
          payload, orphans, disturbed>>

NoRefresh   == [phase |-> "none", token |-> NoToken]
Pending(t)  == refresh[t].phase # "none"
CallStates  == {"idle", "fresh", "stale", "waiting", "again", "served",
                "failed"}

TypeOK ==
  /\ FamilyTypeOK
  /\ held \in [Tabs -> Issued \cup {NoToken}]
  /\ access \in [Tabs -> {"none", "valid", "stale"}]
  /\ stored \in Issued \cup {NoToken}
  /\ refresh \in [Tabs -> [phase : {"none", "asked", "rotated", "refused"},
                           token : Issued \cup {NoToken}]]
  /\ \A t \in Tabs : /\ refresh[t].phase \in {"asked", "rotated"} <=> refresh[t].token # NoToken
                     /\ held[t] = NoToken <=> access[t] = "none"
  /\ call \in [Tabs -> [AllCalls -> CallStates]]
  /\ payload \in [Tabs -> Issued \cup {NoToken}]
  /\ \A t \in Tabs : call[t][Logout] # "idle" => payload[t] # NoToken
  /\ orphans \cup disturbed \subseteq Issued

Init ==
  /\ FamilyInit
  /\ held = [t \in Tabs |-> NoToken]
  /\ access = [t \in Tabs |-> "none"]
  /\ stored = NoToken
  /\ refresh = [t \in Tabs |-> NoRefresh]
  /\ call = [t \in Tabs |-> [c \in AllCalls |-> "idle"]]
  /\ payload = [t \in Tabs |-> NoToken]
  /\ orphans = {}
  /\ disturbed = {}

\* The store's setters; persist writes localStorage on each of them.
SetTokens(t, token) ==
  /\ held' = [held EXCEPT ![t] = token]
  /\ access' = [access EXCEPT ![t] = "valid"]
  /\ stored' = token
ClearAuth(t) ==
  /\ held' = [held EXCEPT ![t] = NoToken]
  /\ access' = [access EXCEPT ![t] = "none"]
  /\ stored' = NoToken
KeepStore == UNCHANGED <<held, access, stored>>
Move(t, c, state) == call' = [call EXCEPT ![t][c] = state]

\* A call that fails, or whose refresh failed, is given up; logout catches the
\* failure and goes on to clear the session.
GivenUp(c) == IF c = Logout THEN "failed" ELSE "idle"
\* Every call that waits for the tab's refresh goes on with its outcome.
Resume(t, ok) ==
  call' = [call EXCEPT ![t] = [c \in AllCalls |->
             IF call[t][c] # "waiting" THEN call[t][c]
             ELSE IF ok THEN "again" ELSE GivenUp(c)]]

-------------------------------------------------------------------------------
\* A token is random: which of the unused ones it is makes no difference.
\* TokensUsedUp is the bound of the model.
TokensUsedUp == Issued = Tokens
NewToken == IF TokensUsedUp THEN NoToken ELSE CHOOSE token \in Tokens : token \notin Issued

SignIn(t) ==
  /\ held[t] = NoToken
  /\ Issue(NewToken) /\ SetTokens(t, NewToken)
  /\ UNCHANGED <<refresh, call, payload, orphans, disturbed>>

\* The fifteen minutes of an access token pass.
AccessExpires(t) ==
  /\ access[t] = "valid"
  /\ access' = [access EXCEPT ![t] = "stale"]
  /\ UNCHANGED <<familyVars, held, stored, refresh, call, payload, orphans, disturbed>>

Send(t, c) ==
  /\ call[t][c] = "idle" /\ access[t] # "none"
  /\ Move(t, c, IF access[t] = "valid" THEN "fresh" ELSE "stale")
  /\ payload' = IF c = Logout THEN [payload EXCEPT ![t] = held[t]] ELSE payload
  /\ KeepStore
  /\ UNCHANGED <<familyVars, refresh, orphans, disturbed>>

\* Fault: logout is forgotten by the server.
ServeWithoutRetiring(t, c) ==
  /\ call[t][c] \in {"fresh", "again"}
  /\ Move(t, c, IF c = Logout THEN "served" ELSE "idle")
  /\ disturbed' = IF c = Logout THEN disturbed \cup {family[payload[t]]} ELSE disturbed
  /\ KeepStore
  /\ UNCHANGED <<familyVars, refresh, payload, orphans>>

\* The server takes a call with a valid access token.
Serve(t, c) ==
  /\ call[t][c] \in {"fresh", "again"}
  /\ Move(t, c, IF c = Logout THEN "served" ELSE "idle")
  /\ IF c = Logout
     THEN Retire(payload[t]) /\ disturbed' = disturbed \cup {family[payload[t]]}
     ELSE UNCHANGED <<familyVars, disturbed>>
  /\ KeepStore
  /\ UNCHANGED <<refresh, payload, orphans>>

\* The call or its answer is lost, or the server answers with another error than
\* 401: the interceptor passes it on.
CallFails(t, c) ==
  /\ "lost" \in Faults
  /\ call[t][c] \in {"fresh", "stale", "again"}
  /\ Move(t, c, GivenUp(c))
  /\ KeepStore
  /\ UNCHANGED <<familyVars, refresh, payload, orphans, disturbed>>

\* Fault: each 401 starts a refresh of its own.
UnauthorizedAlone(t, c) ==
  /\ call[t][c] = "stale"
  /\ held[t] # NoToken
  /\ refresh' = [refresh EXCEPT ![t] = [phase |-> "asked", token |-> held[t]]]
  /\ Move(t, c, "waiting")
  /\ KeepStore
  /\ UNCHANGED <<familyVars, payload, orphans, disturbed>>

\* The server answers 401; the interceptor joins or starts a refresh.
Unauthorized(t, c) ==
  /\ call[t][c] = "stale"
  /\ \/ /\ ~Pending(t) /\ held[t] # NoToken
        /\ refresh' = [refresh EXCEPT ![t] = [phase |-> "asked", token |-> held[t]]]
        /\ Move(t, c, "waiting")
     \/ /\ Pending(t)
        /\ Move(t, c, "waiting")
        /\ UNCHANGED refresh
     \/ /\ ~Pending(t) /\ held[t] = NoToken
        /\ Move(t, c, GivenUp(c))
        /\ UNCHANGED refresh
  /\ KeepStore
  /\ UNCHANGED <<familyVars, payload, orphans, disturbed>>

Refused(token) ==
  \/ DetectReuse(token)
  \/ token \in expired \ revoked /\ UNCHANGED familyVars

ServeRefresh(t) ==
  /\ refresh[t].phase = "asked"
  /\ \/ /\ Rotate(refresh[t].token, NewToken)
        /\ refresh' = [refresh EXCEPT ![t] = [phase |-> "rotated", token |-> NewToken]]
     \/ /\ Refused(refresh[t].token)
        /\ refresh' = [refresh EXCEPT ![t] = [phase |-> "refused", token |-> NoToken]]
  /\ KeepStore
  /\ UNCHANGED <<call, payload, orphans, disturbed>>

\* Fault: the rotated refreshToken is not stored.
RefreshDoneAccessOnly(t) ==
  /\ refresh[t].phase \in {"rotated", "refused"}
  /\ IF refresh[t].phase = "rotated" /\ held[t] # NoToken
     THEN SetTokens(t, held[t]) /\ Resume(t, TRUE)
     ELSE ClearAuth(t) /\ Resume(t, FALSE)
  /\ refresh' = [refresh EXCEPT ![t] = NoRefresh]
  /\ UNCHANGED <<familyVars, payload, orphans, disturbed>>

\* The shared promise settles.
RefreshDone(t) ==
  /\ refresh[t].phase \in {"rotated", "refused"}
  /\ IF refresh[t].phase = "rotated"
     THEN SetTokens(t, refresh[t].token) /\ Resume(t, TRUE)
     ELSE ClearAuth(t) /\ Resume(t, FALSE)
  /\ refresh' = [refresh EXCEPT ![t] = NoRefresh]
  /\ UNCHANGED <<familyVars, payload, orphans, disturbed>>

\* Fault: a failed refresh leaves the calls that share it waiting.
RefreshFailsAlone(t) ==
  /\ "lost" \in Faults
  /\ Pending(t)
  /\ ClearAuth(t)
  /\ refresh' = [refresh EXCEPT ![t] = NoRefresh]
  /\ orphans' = orphans \cup
       (IF refresh[t].phase = "asked" THEN {refresh[t].token} ELSE {})
  /\ UNCHANGED <<familyVars, call, payload, disturbed>>

\* The refresh request or its answer is lost: the catch clears the session.
RefreshFails(t) ==
  /\ "lost" \in Faults
  /\ Pending(t)
  /\ ClearAuth(t) /\ Resume(t, FALSE)
  /\ refresh' = [refresh EXCEPT ![t] = NoRefresh]
  /\ orphans' = orphans \cup
       (IF refresh[t].phase = "asked" THEN {refresh[t].token} ELSE {})
  /\ UNCHANGED <<familyVars, payload, disturbed>>

\* useLogout after its request ended, well or not.
LogoutDone(t) ==
  /\ call[t][Logout] \in {"served", "failed"}
  /\ ClearAuth(t)
  /\ Move(t, Logout, "idle")
  /\ payload' = [payload EXCEPT ![t] = NoToken]
  /\ UNCHANGED <<familyVars, refresh, orphans, disturbed>>

\* A page loads: the store is read from localStorage, what was under way is
\* forgotten, though a refresh request may still reach the server.
Load(t) ==
  /\ "reload" \in Faults
  /\ held' = [held EXCEPT ![t] = stored]
  /\ access' = [access EXCEPT ![t] = IF stored = NoToken THEN "none" ELSE "stale"]
  /\ orphans' = orphans \cup
       (IF refresh[t].phase = "asked" THEN {refresh[t].token} ELSE {})
  /\ refresh' = [refresh EXCEPT ![t] = NoRefresh]
  /\ call' = [call EXCEPT ![t] = [c \in AllCalls |-> "idle"]]
  /\ payload' = [payload EXCEPT ![t] = NoToken]
  /\ disturbed' = disturbed \cup
       {family[token] : token \in {stored, held[t], refresh[t].token} \ {NoToken}}
  /\ UNCHANGED <<familyVars, stored>>

ServeOrphan ==
  /\ \E token \in orphans :
       /\ Refused(token) \/ Rotate(token, NewToken)
       /\ orphans' = orphans \ {token}
  /\ UNCHANGED <<held, access, stored, refresh, call, payload, disturbed>>

\* That a retired token runs out makes no difference.
TokenExpires ==
  /\ Cardinality(expired) < Expiries
  /\ \E token \in Live : Expire(token)
  /\ UNCHANGED clientVars

Answered(t) ==
  \/ \E c \in AllCalls : Serve(t, c) \/ Unauthorized(t, c)
  \/ ServeRefresh(t) \/ RefreshDone(t) \/ LogoutDone(t)

Next ==
  \/ \E t \in Tabs :
       \/ SignIn(t) \/ AccessExpires(t) \/ (\E c \in AllCalls : Send(t, c) \/ CallFails(t, c))
       \/ Answered(t) \/ RefreshFails(t) \/ Load(t)
  \/ ServeOrphan \/ TokenExpires

Spec == Init /\ [][Next]_vars

\* The server answers what reaches it and the browser runs the handlers of what
\* was answered; users and clocks need not act.
Fairness ==
  \A t \in Tabs :
    /\ \A c \in AllCalls : WF_vars(Serve(t, c)) /\ WF_vars(Unauthorized(t, c))
    /\ WF_vars(ServeRefresh(t)) /\ WF_vars(RefreshDone(t)) /\ WF_vars(LogoutDone(t))

FairSpec == Spec /\ Fairness

-------------------------------------------------------------------------------
\* Properties

\* One tab never shows the server a retired token, so it is never signed out by
\* reuse detection, however many of its calls meet a 401 together or late, unless
\* its page was reloaded or it logged out meanwhile (inFlightRefresh,
\* api-client.ts:26-33).
NoForcedLogout == reported \subseteq disturbed

\* With no refresh under way the tab holds the one token of its family that can be
\* rotated (auth-store.ts, setTokens).
HoldsLiveToken ==
  \A t \in Tabs :
    ~Pending(t) /\ held[t] # NoToken /\ family[held[t]] \notin disturbed =>
      held[t] \in Live

\* Every call comes to an end, logout included, also when the refresh it waits
\* for is refused or lost.
CallsSettle ==
  \A t \in Tabs, c \in AllCalls :
    (call[t][c] # "idle") ~> (call[t][c] = "idle" \/ TokensUsedUp)

\* After a served logout no token of the session can be rotated any more, "내 세션
\* 종료" (auth.service.ts:157), if the body of the call still names the token the tab
\* holds and no refresh of another call is under way: not so when the logout met
\* a 401 and was repeated after a rotation (api-client.ts:71-77).
LogoutEndsSession ==
  \A t \in Tabs :
    call[t][Logout] = "served" /\ payload[t] = held[t] /\ ~Pending(t) =>
      FamilyOf(payload[t]) \cap Live \subseteq expired
===============================================================================
