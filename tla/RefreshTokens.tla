----------------------------- MODULE RefreshTokens -----------------------------
(***************************************************************************)
(* AuthService.register, login, refresh and logout                         *)
(* (backend/src/auth/auth.service.ts) statement by statement.              *)
(*                                                                         *)
(* refresh reads the token's row outside any transaction and decides by    *)
(* what it read; the rotation then updates the row by its id, whatever has *)
(* become of it.  The family revocation is one UPDATE of the rows it sees  *)
(* when it starts; it waits for rows others hold, and looks at them again  *)
(* once they are free.  An INSERT of a random token meets no other row, so *)
(* it is part of the step that commits it.  What was committed is answered *)
(* in a later step: the server may die, or the connection, in between.     *)
(***************************************************************************)
EXTENDS TokenFamilies, FiniteSets

CONSTANTS
  Reqs,      \* identities of the HTTP requests
  Emails,    \* e-mail addresses of registrations
  Ops,       \* "register", "refresh", "logout"
  Faults,    \* "abort", "crash", "lost"
  NoReq      \* no lock holder

ASSUME NoReqAssumption == NoReq \notin Reqs
ASSUME EmailsAssumption == NoToken \notin Emails

VARIABLES
  accounts,  \* e-mails with a row in users
  lock,      \* holder of each token row's lock
  pc,        \* per request: its next step
  given,     \* per request: the token or e-mail it came with
  targets,   \* per request: rows the family revocation has seen
  outcome,   \* per request: what it has committed
  answer     \* per request: what the client was told

vars == <<family, revoked, expired, reported, accounts, lock, pc, given,
          targets, outcome, answer>>

InTx    == {"rotate.update", "rotate.commit", "reuse.update", "reuse.wait",
            "reuse.commit"}
Waiting == InTx \cup {"register.create", "register.issue"}
Effective == {"signedIn", "rotated", "reuse", "loggedOut"}
Failures  == {"conflict", "expired", "error"}

TypeOK ==
  /\ FamilyTypeOK
  /\ accounts \subseteq Emails
  /\ lock \in [Tokens -> Reqs \cup {NoReq}]
  /\ pc \in [Reqs -> Waiting \cup {"idle", "answer", "done"}]
  /\ given \in [Reqs -> Tokens \cup Emails \cup {NoToken}]
  /\ targets \in [Reqs -> SUBSET Tokens]
  /\ outcome \in [Reqs -> Effective \cup {"none"}]
  /\ answer \in [Reqs -> Effective \cup Failures \cup {"none", "lost"}]
  /\ \A r \in Reqs : /\ answer[r] = "none" <=> pc[r] # "done"
                     /\ outcome[r] # "none" => pc[r] \in {"answer", "done"}
                     /\ outcome[r] = "none" => pc[r] # "answer"
  /\ \A r \in Reqs : /\ pc[r] \in InTx => given[r] \in Issued
                     /\ pc[r] \in Waiting \ InTx => given[r] \in Emails
                     /\ targets[r] \subseteq Issued
  /\ \A t \in Tokens : lock[t] # NoReq => pc[lock[t]] \in {"rotate.commit", "reuse.commit"}

Init ==
  /\ FamilyInit
  /\ accounts = {}
  /\ lock = [t \in Tokens |-> NoReq]
  /\ pc = [r \in Reqs |-> "idle"]
  /\ given = [r \in Reqs |-> NoToken]
  /\ targets = [r \in Reqs |-> {}]
  /\ outcome = [r \in Reqs |-> "none"]
  /\ answer = [r \in Reqs |-> "none"]

Locked(r)     == {t \in Tokens : lock[t] = r}
Free(rows)    == \A t \in rows : lock[t] = NoReq
Take(r, rows) == lock' = [t \in Tokens |-> IF t \in rows THEN r ELSE lock[t]]
Release(r)    == lock' = [t \in Tokens |-> IF lock[t] = r THEN NoReq ELSE lock[t]]
Goto(r, step) == /\ pc' = [pc EXCEPT ![r] = step]
                 /\ UNCHANGED <<outcome, answer>>
Commit(r, o)  == /\ pc' = [pc EXCEPT ![r] = "answer"]
                 /\ outcome' = [outcome EXCEPT ![r] = o]
                 /\ UNCHANGED answer
Reply(r, a)   == /\ pc' = [pc EXCEPT ![r] = "done"]
                 /\ answer' = [answer EXCEPT ![r] = a]
                 /\ UNCHANGED outcome

-------------------------------------------------------------------------------
\* register: the user and the token are two statements in no transaction.

RegisterFind(r, e) ==
  /\ pc[r] = "idle" /\ "register" \in Ops
  /\ given' = [given EXCEPT ![r] = e]
  /\ IF e \in accounts THEN Reply(r, "conflict") ELSE Goto(r, "register.create")
  /\ UNCHANGED <<familyVars, accounts, lock, targets>>

\* Fault: no unique key on users.email.
RegisterCreateTwice(r) ==
  /\ pc[r] = "register.create"
  /\ accounts' = accounts \cup {given[r]}
  /\ Goto(r, "register.issue")
  /\ UNCHANGED <<familyVars, lock, given, targets>>

\* The unique key on users.email refuses the second of two registrations.
RegisterCreate(r) ==
  /\ pc[r] = "register.create"
  /\ accounts' = accounts \cup {given[r]}
  /\ IF given[r] \in accounts THEN Reply(r, "conflict")
                              ELSE Goto(r, "register.issue")
  /\ UNCHANGED <<familyVars, lock, given, targets>>

RegisterIssue(r) ==
  /\ pc[r] = "register.issue"
  /\ \E new \in Tokens : Issue(new)
  /\ Commit(r, "signedIn")
  /\ UNCHANGED <<accounts, lock, given, targets>>

\* login: the token and its audit entry in one transaction.
Login(r) ==
  /\ pc[r] = "idle"
  /\ \E new \in Tokens : Issue(new)
  /\ Commit(r, "signedIn")
  /\ UNCHANGED <<accounts, lock, given, targets>>

-------------------------------------------------------------------------------
\* refresh

\* Fault: revokedAt is not looked at.
RefreshFindUnchecked(r, t) ==
  /\ pc[r] = "idle" /\ "refresh" \in Ops
  /\ t \in Issued
  /\ given' = [given EXCEPT ![r] = t]
  /\ IF t \in expired THEN Reply(r, "expired") ELSE Goto(r, "rotate.update")
  /\ UNCHANGED <<familyVars, accounts, lock, targets>>

\* A request with a token that was never issued is refused and left out.
RefreshFind(r, t) ==
  /\ pc[r] = "idle" /\ "refresh" \in Ops
  /\ t \in Issued
  /\ given' = [given EXCEPT ![r] = t]
  /\ IF t \in revoked THEN Goto(r, "reuse.update")
     ELSE IF t \in expired THEN Reply(r, "expired")
     ELSE Goto(r, "rotate.update")
  /\ UNCHANGED <<familyVars, accounts, lock, targets>>

RotateUpdate(r) ==
  /\ pc[r] = "rotate.update"
  /\ Free({given[r]})
  /\ Take(r, {given[r]})
  /\ Goto(r, "rotate.commit")
  /\ UNCHANGED <<familyVars, accounts, given, targets>>

\* Fault: the update is missing from the transaction.
RotateCommitKeeps(r) ==
  /\ pc[r] = "rotate.commit"
  /\ \E new \in Tokens \ Issued :
       family' = [family EXCEPT ![new] = family[given[r]]]
  /\ Release(r)
  /\ Commit(r, "rotated")
  /\ UNCHANGED <<revoked, expired, reported, accounts, given, targets>>

RotateCommit(r) ==
  /\ pc[r] = "rotate.commit"
  /\ \E new \in Tokens \ Issued :
       family' = [family EXCEPT ![new] = family[given[r]]]
  /\ revoked' = revoked \cup {given[r]}
  /\ Release(r)
  /\ Commit(r, "rotated")
  /\ UNCHANGED <<expired, reported, accounts, given, targets>>

\* updateMany sees the rows that are live when it starts.
ReuseUpdate(r) ==
  /\ pc[r] = "reuse.update"
  /\ LET rows == FamilyOf(given[r]) \ revoked IN
       /\ targets' = [targets EXCEPT ![r] = rows]
       /\ IF Free(rows) THEN Take(r, rows) /\ Goto(r, "reuse.commit")
                        ELSE UNCHANGED lock /\ Goto(r, "reuse.wait")
  /\ UNCHANGED <<familyVars, accounts, given>>

ReuseUpdateDone(r) ==
  /\ pc[r] = "reuse.wait"
  /\ Free(targets[r])
  /\ Take(r, targets[r] \ revoked)
  /\ Goto(r, "reuse.commit")
  /\ UNCHANGED <<familyVars, accounts, given, targets>>

\* Fault: the exception is thrown inside the transaction and rolls it back, the
\* bug the comment in refresh recalls.
ReuseCommitUndone(r) ==
  /\ pc[r] = "reuse.commit"
  /\ Release(r)
  /\ Commit(r, "reuse")
  /\ UNCHANGED <<familyVars, accounts, given, targets>>

ReuseCommit(r) ==
  /\ pc[r] = "reuse.commit"
  /\ revoked' = revoked \cup targets[r]
  /\ reported' = reported \cup {family[given[r]]}
  /\ Release(r)
  /\ Commit(r, "reuse")
  /\ UNCHANGED <<family, expired, accounts, given, targets>>

\* logout: one statement, which waits for whoever holds the row.
Logout(r, t) ==
  /\ pc[r] = "idle" /\ "logout" \in Ops
  /\ Free({t})
  /\ Retire(t)
  /\ given' = [given EXCEPT ![r] = t]
  /\ Commit(r, "loggedOut")
  /\ UNCHANGED <<accounts, lock, targets>>

-------------------------------------------------------------------------------
\* Failures

\* The service returns, and the answer is on its way.
Answer(r) ==
  /\ pc[r] = "answer"
  /\ Reply(r, outcome[r])
  /\ UNCHANGED <<familyVars, accounts, lock, given, targets>>

\* Fault: the revocation of the old token survives the rollback of the new one.
AbortKeepsUpdate(r) ==
  /\ "abort" \in Faults
  /\ pc[r] \in Waiting
  /\ revoked' = revoked \cup Locked(r)
  /\ Release(r)
  /\ Reply(r, "error")
  /\ UNCHANGED <<family, expired, reported, accounts, given, targets>>

\* A statement fails or the transaction times out.
Abort(r) ==
  /\ "abort" \in Faults
  /\ pc[r] \in Waiting
  /\ Release(r)
  /\ Reply(r, "error")
  /\ UNCHANGED <<familyVars, accounts, given, targets>>

\* The connection breaks after the commit.
LoseAnswer(r) ==
  /\ "lost" \in Faults
  /\ pc[r] = "answer"
  /\ Reply(r, "lost")
  /\ UNCHANGED <<familyVars, accounts, lock, given, targets>>

\* What is not committed is rolled back, what is committed is not answered.
Crash ==
  /\ "crash" \in Faults
  /\ \E r \in Reqs : pc[r] \in Waiting \cup {"answer"}
  /\ pc' = [r \in Reqs |-> IF pc[r] \in Waiting \cup {"answer"} THEN "done" ELSE pc[r]]
  /\ answer' = [r \in Reqs |-> CASE pc[r] \in Waiting -> "error"
                                 [] pc[r] = "answer" -> "lost"
                                 [] OTHER -> answer[r]]
  /\ lock' = [t \in Tokens |-> NoReq]
  /\ UNCHANGED <<familyVars, accounts, given, targets, outcome>>

TokenExpires ==
  /\ \E t \in Tokens : Expire(t)
  /\ UNCHANGED <<accounts, lock, pc, given, targets, outcome, answer>>

Serve(r) ==
  \/ RegisterCreate(r) \/ RegisterIssue(r)
  \/ RotateUpdate(r) \/ RotateCommit(r)
  \/ ReuseUpdate(r) \/ ReuseUpdateDone(r) \/ ReuseCommit(r)
  \/ Answer(r)

Arrive(r) ==
  \/ Login(r)
  \/ \E e \in Emails : RegisterFind(r, e)
  \/ \E t \in Tokens : RefreshFind(r, t) \/ Logout(r, t)

Next ==
  \/ \E r \in Reqs : Arrive(r) \/ Serve(r) \/ Abort(r) \/ LoseAnswer(r)
  \/ TokenExpires
  \/ Crash

Spec == Init /\ [][Next]_vars

-------------------------------------------------------------------------------
\* When the requests on one family are served one after the other

OnFamily(r, f) == pc[r] \in InTx /\ family[given[r]] = f
Overlap        == \E r, q \in Reqs : r # q /\ \E f \in Tokens : OnFamily(r, f) /\ OnFamily(q, f)

\* A logout lands between a refresh's reading of the row and its commit, or the
\* token runs out there.
Interferes ==
  \/ \E r, q \in Reqs : /\ outcome[r] = "none" /\ outcome'[r] = "loggedOut"
                        /\ OnFamily(q, family[given'[r]])
  \/ \E r \in Reqs : pc[r] \in InTx /\ given[r] \in expired' \ expired

SerialNext == Next /\ ~Overlap' /\ ~Interferes
SerialSpec == Init /\ [][SerialNext]_vars

\* The statements then amount to the one-step operations of TokenFamilies.
ImplementsFamilies == FamilySpec

-------------------------------------------------------------------------------
\* Under every interleaving

\* Tokens, commits and answers account for each other, whatever races, rolls back,
\* dies or is lost: a token is retired only by a committed rotation, logout or
\* family revocation, which always retires what it was given, and there are as
\* many tokens as committed sign-ins and rotations (the transaction of refresh,
\* auth.service.ts:142); two registrations of one e-mail never both succeed,
\* though both may have found it free (register, auth.service.ts:37-54).  A client
\* is told what was committed or, if nothing was, of a failure, so a token that
\* nobody holds costs a lost answer.
TokensAccountedFor ==
  /\ \A r \in Reqs : outcome[r] \in {"rotated", "loggedOut"} => given[r] \in revoked
  /\ \A t \in revoked : \E r \in Reqs :
       \/ outcome[r] \in {"rotated", "loggedOut"} /\ given[r] = t
       \/ outcome[r] = "reuse" /\ t \in targets[r]
  /\ Cardinality(Issued) = Cardinality({r \in Reqs : outcome[r] \in {"signedIn", "rotated"}})
  /\ \A r, q \in {x \in Reqs : outcome[x] = "signedIn"} :
       given[r] \in Emails /\ given[r] = given[q] => r = q
  /\ \A r \in Reqs : /\ answer[r] \in Effective => outcome[r] = answer[r]
                     /\ answer[r] \in Failures => outcome[r] = "none"

\* What a reuse answer says is true from its commit on and stays true: the rows the
\* revocation saw are revoked and the report is in the audit log, the exception
\* notwithstanding (auth.service.ts:113-128).
ReuseIsCarriedOut ==
  \A r \in Reqs : "reuse" \in {outcome[r], answer[r]} =>
    /\ targets[r] \subseteq revoked
    /\ family[given[r]] \in reported
    /\ given[r] \in revoked
===============================================================================
