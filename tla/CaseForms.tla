------------------------------- MODULE CaseForms -------------------------------
(***************************************************************************)
(* The form of a browser that edits cases while others work on the same    *)
(* suites: CaseEditModal of frontend/src/pages/SuitesPage.tsx and          *)
(* components/cases/CaseFormModal.tsx over the query cache of              *)
(* features/cases/hooks.ts.                                                *)
(*                                                                         *)
(* The form is filled once, with what the cache holds when it is opened,   *)
(* and a save sends every field of it, changed or not.  The field that     *)
(* stands for all of them is the suite of the case: a save that was only   *)
(* to change the title sends it along.                                     *)
(***************************************************************************)
EXTENDS SuiteTree

CONSTANTS
  NoData,       \* nothing in the cache, no form, no save
  SmallTrees    \* bound: forms are opened on trees of at most so many suites

ASSUME FormAssumption == NoData \notin Suites /\ SmallTrees \in Nat

Answers == [suite : Suites \cup {Top}, others : Nat, crossed : BOOLEAN]
Fillings == [case : Cases, suite : Suites \cup {Top}, others : Nat, sound : BOOLEAN]
Saves == [form : Fillings, kept : BOOLEAN, alone : BOOLEAN, shown : BOOLEAN,
          answer : {"none", "ok", "error"}]

ASSUME NoDataAssumption == NoData \notin Answers \cup Fillings \cup [case : Cases] \cup Saves

VARIABLES
  others,   \* history: per case, how often others have moved it
  detail,   \* per case: the cached answer
  fresh,    \* cases whose cached answer has not been invalidated
  fetch,    \* per case: whether it is being fetched, and the answer on its way
  form,     \* the form shown
  save,     \* per request of this browser: the form it was sent from
  undone    \* history: a save that kept the suite has moved a case it should not

screen == <<others, detail, fresh, fetch, form, save, undone>>
formVars == <<vars, screen>>

Idle == [phase |-> "idle"]
Asked == [phase |-> "asked"]

Saving == {r \in Reqs : save[r] # NoData}

\* An answer to GET case: the suite, how many moves of others it knows, and whether a
\* save of this browser was under way, or had been written without being answered since.
Answer(c) == [suite |-> suiteOf[c], others |-> others[c], crossed |-> Saving # {}]

\* CaseFormModal: a form filled with answer a; "sound" if no save crossed that
\* answer, and none is under way.
Filled(c, a, current) ==
  [case |-> c, suite |-> a.suite, others |-> a.others,
   sound |-> current /\ ~a.crossed /\ Saving = {}]
Loading(c) == [case |-> c]
IsFilled == form # NoData /\ "suite" \in DOMAIN form

\* CaseEditModal: cached data fills the form at once, however old; a query that is
\* stale is fetched behind it.  Without data the form waits for the fetch.
OpenForm(c, old) ==
  /\ form = NoData
  /\ Cardinality(suites) <= SmallTrees
  /\ form' = IF detail[c] = NoData THEN Loading(c)
             ELSE Filled(c, detail[c], c \in fresh /\ fetch[c] = Idle)
  /\ fetch' = IF fetch[c] = Idle /\ (detail[c] = NoData \/ c \notin fresh \/ old)
              THEN [fetch EXCEPT ![c] = Asked] ELSE fetch
  /\ UNCHANGED <<vars, others, detail, fresh, save, undone>>

\* There is no way out of the form while it waits.
Cancel ==
  /\ IsFilled
  /\ form' = NoData
  /\ save' = [r \in Reqs |-> IF r \in Saving THEN [save[r] EXCEPT !.shown = FALSE]
                             ELSE NoData]
  /\ UNCHANGED <<vars, others, detail, fresh, fetch, undone>>

FetchRead(c) ==
  /\ fetch[c] = Asked
  /\ fetch' = [fetch EXCEPT ![c] =
       IF c \in cases THEN [phase |-> "read", answer |-> Answer(c)] ELSE Idle]
  /\ UNCHANGED <<vars, others, detail, fresh, form, save, undone>>

\* After a retry the query stays as it was, and a form that has waited for it goes on
\* waiting.
FetchFails(c) ==
  /\ fetch[c] # Idle
  /\ fetch' = [fetch EXCEPT ![c] = Idle]
  /\ UNCHANGED <<vars, others, detail, fresh, form, save, undone>>

FetchDone(c) ==
  /\ fetch[c].phase = "read"
  /\ detail' = [detail EXCEPT ![c] = fetch[c].answer]
  /\ fresh' = fresh \cup {c}
  /\ fetch' = [fetch EXCEPT ![c] = Idle]
  /\ form' = IF form = Loading(c) THEN Filled(c, fetch[c].answer, TRUE) ELSE form
  /\ UNCHANGED <<vars, others, save, undone>>

\* handleSubmit: every field goes into the request.  The suite is the one filled in,
\* or another one that the user has chosen.  One save at a time from one form.
Submit(r, s) ==
  /\ IsFilled
  /\ \A q \in Saving : ~save[q].shown
  /\ Receive(r, [op |-> "updateCase", case |-> form.case, suite |-> s])
  /\ save' = [q \in Reqs |->
       IF q = r THEN [form |-> form, kept |-> s = form.suite, alone |-> Saving = {},
                      shown |-> TRUE, answer |-> "none"]
       ELSE IF q \in Saving THEN [save[q] EXCEPT !.alone = FALSE] ELSE NoData]
  /\ UNCHANGED <<others, detail, fresh, fetch, form, undone>>

\* The update can be written: the row and its new suite are there.
Writable(r) ==
  LET job == req[r].job
  IN /\ At(r, "commit", "updateCase") /\ job.case \in cases
     /\ (IF job.suite = Same THEN suiteOf[job.case] ELSE job.suite) \in suites

\* History: what the browser knows of case c crossed a save.
Crossed(c) ==
  /\ detail' = IF detail[c] = NoData THEN detail ELSE [detail EXCEPT ![c].crossed = TRUE]
  /\ fetch' = IF fetch[c].phase = "read" THEN [fetch EXCEPT ![c].answer.crossed = TRUE]
              ELSE fetch
  /\ form' = IF IsFilled /\ form.case = c THEN [form EXCEPT !.sound = FALSE] ELSE form

\* The server takes a step for a request of anybody.  The answer to a save that it has
\* written may be lost, which the browser takes for an error.
ServeAny(r) ==
  LET moved == {c \in Cases : suiteOf'[c] # suiteOf[c]}
      over == r \in Saving /\ req'[r] = Done
      undoes == /\ r \in Saving
                /\ save[r].kept /\ save[r].alone /\ save[r].form.sound
                /\ \E c \in moved : others[c] = save[r].form.others
  IN /\ Serve(r)
     /\ others' = [c \in Cases |->
          IF c \in moved /\ r \notin Saving THEN others[c] + 1 ELSE others[c]]
     /\ undone' = (undone \/ undoes)
     /\ \/ /\ save' = IF ~over THEN save
                     ELSE [save EXCEPT ![r].answer = IF Writable(r) THEN "ok" ELSE "error"]
           /\ UNCHANGED <<detail, fetch, form>>
        \/ /\ over /\ Writable(r)
           /\ save' = [save EXCEPT ![r].answer = "error"]
           /\ Crossed(req[r].job.case)
     /\ UNCHANGED fresh

\* Fault: a save invalidates the lists of cases and not the case.
InvalidateListsOnly == UNCHANGED <<fresh, fetch>>

\* invalidateCases: all queries of cases.  The case whose form is shown is fetched
\* again; a fetch under way goes on if there is no data yet or no form, and its
\* answer will count as fresh.
Invalidate ==
  /\ fresh' = {}
  /\ fetch' = [c \in Cases |->
       IF /\ form # NoData /\ form.case = c
          /\ detail[c] # NoData \/ fetch[c] = Idle
       THEN Asked
       ELSE IF fetch[c].phase = "read" THEN [fetch[c] EXCEPT !.answer.crossed = TRUE]
       ELSE fetch[c]]

\* The answer: the form it was sent from closes; after an error it stays, and nothing is
\* fetched again.
Settle(r) ==
  /\ r \in Saving /\ save[r].answer # "none"
  /\ save' = [save EXCEPT ![r] = NoData]
  /\ IF save[r].answer = "ok"
     THEN /\ Invalidate
          /\ form' = IF save[r].shown THEN NoData ELSE form
     ELSE UNCHANGED <<fresh, fetch, form>>
  /\ UNCHANGED <<vars, others, detail, undone>>

FormInit ==
  /\ Init
  /\ others = [c \in Cases |-> 0]
  /\ detail = [c \in Cases |-> NoData] /\ fresh = {}
  /\ fetch = [c \in Cases |-> Idle]
  /\ form = NoData
  /\ save = [r \in Reqs |-> NoData]
  /\ undone = FALSE

FormNext ==
  \/ \E r \in Reqs :
       \/ \E job \in Jobs : Receive(r, job) /\ UNCHANGED screen
       \/ ServeAny(r) \/ Settle(r)
       \/ \E s \in Suites : Submit(r, s)
  \/ \E c \in MadeCases : \/ FetchRead(c) \/ FetchDone(c) \/ FetchFails(c)
                          \/ \E old \in BOOLEAN : OpenForm(c, old)
  \/ Cancel

FormSpec == FormInit /\ [][FormNext]_formVars

-------------------------------------------------------------------------------

\* Every variable has its type.
FormTypeOK ==
  /\ others \in [Cases -> Nat]
  /\ detail \in [Cases -> Answers \cup {NoData}]
  /\ fresh \subseteq Cases
  /\ fetch \in [Cases -> [phase : {"read"}, answer : Answers] \cup {Idle, Asked}]
  /\ form \in Fillings \cup [case : Cases] \cup {NoData}
  /\ save \in [Reqs -> Saves \cup {NoData}]
  /\ undone \in BOOLEAN

\* Whoever saves a case without choosing another suite does not move it, above all
\* not back from where he has moved it himself, although every save sends the suite
\* along: unless somebody else has moved it since the form's data was read, that data
\* was being fetched again or crossed a save, two of his saves overtook each other, or
\* the answer to one that had been written was lost: it is taken for an error, and no
\* data is fetched again after one (CaseEditModal, invalidateCases).
SaveKeepsTheRest == ~undone
===============================================================================
