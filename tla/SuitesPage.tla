------------------------------- MODULE SuitesPage -------------------------------
(***************************************************************************)
(* The page of suites and cases in a browser that edits the tree while     *)
(* others do: frontend/src/pages/SuitesPage.tsx with components/suites and *)
(* components/cases/CaseList.tsx over the cached tree of                   *)
(* features/suites/hooks.ts.                                               *)
(*                                                                         *)
(* The tree of the cache is all the page knows: it names the suites that   *)
(* can be selected, edited, deleted and chosen as parents, and it may be   *)
(* old.  A new form is filled with the suite selected last.                *)
(***************************************************************************)
EXTENDS CaseForms

VARIABLES
  seen,       \* the cached answer: the suites the tree shows
  treeFetch,  \* whether the tree is being fetched, and the answer on its way
  selected,   \* selectedSuiteId, Top for all cases
  modal,      \* the form of a suite, or of a new case, that is shown
  sent,       \* per request of this page: what was asked
  mine, gone, \* history: suites it made, suites it deleted, as far as it was told
  displaced   \* history: a suite was moved by a save that left its place alone

page == <<seen, treeFetch, selected, modal, sent, mine, gone, displaced>>
pageVars == <<formVars, page>>

Sending == {r \in Reqs : sent[r] # NoData}
Loaded == seen # NoData

\* Bound: a behaviour uses this page or the form that edits a case, not both.
NoCaseForm ==
  /\ form = NoData /\ Saving = {}
  /\ \A c \in Cases : detail[c] = NoData /\ fetch[c] = Idle
NoPage == ~Loaded /\ treeFetch = Idle

\* The last fetch of the tree has failed.
Failed == [phase |-> "failed"]

-------------------------------------------------------------------------------
\* useSuiteTree: the page is opened.  Bounds: on a small tree, and the window is not left
\* and shown again, which would fetch a tree that is ten seconds old once more.
AskTree ==
  /\ NoPage /\ NoCaseForm
  /\ Cardinality(suites) + Cardinality(cases) <= SmallTrees
  /\ treeFetch' = Asked
  /\ UNCHANGED <<formVars, seen, selected, modal, sent, mine, gone, displaced>>

ReadTree ==
  /\ treeFetch = Asked
  /\ treeFetch' = [phase |-> "read", answer |-> Shown]
  /\ UNCHANGED <<formVars, seen, selected, modal, sent, mine, gone, displaced>>

TreeArrives ==
  /\ treeFetch.phase = "read"
  /\ seen' = treeFetch.answer
  /\ treeFetch' = Idle
  /\ UNCHANGED <<formVars, selected, modal, sent, mine, gone, displaced>>

\* Fault: a fetch that fails leaves nothing of it to be seen.
FailsUnnoticed ==
  /\ treeFetch \notin {Idle, Failed}
  /\ treeFetch' = Idle
  /\ UNCHANGED <<formVars, seen, selected, modal, sent, mine, gone, displaced>>

\* After a retry the old tree is kept, none if there was none, until the next change.
TreeFails ==
  /\ treeFetch \notin {Idle, Failed}
  /\ treeFetch' = Failed
  /\ UNCHANGED <<formVars, seen, selected, modal, sent, mine, gone, displaced>>

\* SuiteTree: a suite, or all cases; what is selected stays so when it is deleted.
Select(s) ==
  /\ Loaded /\ s \in seen \cup {Top}
  /\ modal = NoData /\ selected # s
  /\ selected' = s
  /\ UNCHANGED <<formVars, seen, treeFetch, modal, sent, mine, gone, displaced>>

\* The forms start with the suite selected as the parent, or as the suite of the case,
\* also the form that edits a suite: the tree does not tell its parent.  The buttons
\* for a new suite and a new case are there before the tree is.
OpenModal(edits, of) ==
  /\ modal = NoData /\ ~NoPage
  /\ edits = "suite" /\ of # NoData => Loaded /\ of \in seen
  /\ edits = "case" => of = NoData
  /\ modal' = [edits |-> edits, of |-> of, parent |-> selected]
  /\ UNCHANGED <<formVars, seen, treeFetch, selected, sent, mine, gone, displaced>>

CloseModal ==
  /\ modal # NoData
  /\ modal' = NoData
  /\ sent' = [r \in Reqs |-> IF r \in Sending THEN [sent[r] EXCEPT !.shown = FALSE]
                             ELSE NoData]
  /\ UNCHANGED <<formVars, seen, treeFetch, selected, mine, gone, displaced>>

Send(r, job, shown, untouched) ==
  /\ Receive(r, job)
  /\ sent' = [sent EXCEPT ![r] = [shown |-> shown, untouched |-> untouched,
                                  answer |-> "none", made |-> {}, cut |-> {}]]
  /\ UNCHANGED <<screen, seen, treeFetch, selected, modal, mine, gone, displaced>>

\* Fault: a parent left empty is sent as null.
ParentSentAsNull(p) == p

\* suiteFormSchema: a parent left empty is not sent, and the server keeps the old one.
ParentSent(p) == IF p = Top THEN Same ELSE p

\* SuiteFormModal and CaseFormModal, handleSubmit: the parent p is what the form was
\* filled with or one of its options.  A case needs a suite.
SubmitModal(r, p) ==
  /\ modal # NoData
  /\ \A q \in Sending : ~sent[q].shown
  /\ \/ p = modal.parent
     \/ p = Top /\ modal.edits = "suite"
     \/ Loaded /\ p \in seen \ {modal.of}
  /\ \/ /\ modal.edits = "case" /\ p # Top
        /\ Send(r, [op |-> "createCase", suite |-> p], TRUE, FALSE)
     \/ /\ modal.edits = "suite" /\ modal.of = NoData
        /\ Send(r, [op |-> "createSuite", parent |-> p], TRUE, FALSE)
     \/ /\ modal.edits = "suite" /\ modal.of # NoData
        /\ Send(r, [op |-> "updateSuite", suite |-> modal.of, parent |-> ParentSent(p)],
                TRUE, p = modal.parent /\ p = Top)

\* SuiteNode: the nodes have buttons to edit and to delete; the latter asks, and then
\* sends at once, also while other requests are under way.
DeleteSuite(r) ==
  /\ modal = NoData /\ Loaded
  /\ \E s \in seen : Send(r, [op |-> "removeSuite", suite |-> s], FALSE, FALSE)

\* CaseList: the same for a case of the list, which may be gone by now.
DeleteCase(r) ==
  /\ modal = NoData /\ ~NoPage
  /\ \E c \in MadeCases : Send(r, [op |-> "removeCase", case |-> c], FALSE, FALSE)

\* What request r is about to write can be written.
Granted(r) ==
  LET job == req[r].job
  IN /\ req[r].phase = "commit"
     /\ "suite" \in DOMAIN job => job.suite \in suites
     /\ "parent" \in DOMAIN job => job.parent \in suites \cup {Top, Same}
     /\ "case" \in DOMAIN job => job.case \in cases

\* The server takes a step for a request of anybody; its answer may be lost.
ServePage(r) ==
  /\ ServeAny(r)
  /\ IF r \notin Sending \/ req'[r] # Done THEN UNCHANGED sent
     ELSE \E answer \in IF Granted(r) THEN {"ok", "error"} ELSE {"error"} :
            sent' = [sent EXCEPT ![r].answer = answer,
                                 ![r].made = suites' \ suites, ![r].cut = suites \ suites']
  /\ displaced' = (displaced \/ (r \in Sending /\ sent[r].untouched /\ parent' # parent))
  /\ UNCHANGED <<seen, treeFetch, selected, modal, mine, gone>>

\* Fault: another key than that of the tree is invalidated.
InvalidateElsewhere == UNCHANGED treeFetch

\* invalidateQueries: the tree is fetched again.  A fetch under way is given up for it,
\* but not the first one.
InvalidateTree ==
  treeFetch' = IF ~Loaded /\ treeFetch \notin {Idle, Failed} THEN treeFetch ELSE Asked

\* onSuccess and onError of the mutations.  Deleting a suite and all changes of cases
\* invalidate the queries of cases as well, which no form of this page shows.
Answered(r) ==
  /\ r \in Sending /\ sent[r].answer # "none"
  /\ sent' = [sent EXCEPT ![r] = NoData]
  /\ IF sent[r].answer = "ok"
     THEN /\ InvalidateTree
          /\ modal' = IF sent[r].shown THEN NoData ELSE modal
          /\ mine' = IF Loaded THEN mine \cup sent[r].made ELSE mine
          /\ gone' = IF Loaded THEN gone \cup sent[r].cut ELSE gone
     ELSE UNCHANGED <<treeFetch, modal, mine, gone>>
  /\ UNCHANGED <<formVars, seen, selected, displaced>>

PageInit ==
  /\ FormInit
  /\ seen = NoData /\ treeFetch = Idle
  /\ selected = Top /\ modal = NoData
  /\ sent = [r \in Reqs |-> NoData]
  /\ mine = {} /\ gone = {} /\ displaced = FALSE

PageNext ==
  \/ \E r \in Reqs :
       \/ \E job \in Jobs : Receive(r, job) /\ UNCHANGED <<screen, page>>
       \/ ServePage(r) \/ Answered(r) \/ DeleteSuite(r) \/ DeleteCase(r)
       \/ \E p \in Suites \cup {Top} : SubmitModal(r, p)
       \/ Settle(r) /\ UNCHANGED page
       \/ \E s \in Suites : Submit(r, s) /\ UNCHANGED page
  \/ \E c \in MadeCases : (\/ FetchRead(c) \/ FetchDone(c) \/ FetchFails(c)
                           \/ NoPage /\ \E old \in BOOLEAN : OpenForm(c, old))
                          /\ UNCHANGED page
  \/ Cancel /\ UNCHANGED page
  \/ AskTree \/ ReadTree \/ TreeArrives \/ TreeFails \/ CloseModal
  \/ \E s \in Suites \cup {Top} : Select(s)
  \/ \E edits \in {"suite", "case"}, s \in Suites \cup {NoData} : OpenModal(edits, s)

PageSpec == PageInit /\ [][PageNext]_pageVars

-------------------------------------------------------------------------------

Modals == [edits : {"suite", "case"}, of : Suites \cup {NoData}, parent : Suites \cup {Top}]
Sendings == [shown : BOOLEAN, untouched : BOOLEAN, answer : {"none", "ok", "error"},
             made : SUBSET Suites, cut : SUBSET Suites]

\* Every variable has its type.
PageTypeOK ==
  /\ seen \in (SUBSET Suites) \cup {NoData}
  /\ treeFetch \in [phase : {"read"}, answer : SUBSET Suites]
                    \cup {Idle, Asked, Failed}
  /\ selected \in Suites \cup {Top}
  /\ modal \in Modals \cup {NoData}
  /\ sent \in [Reqs -> Sendings \cup {NoData}]
  /\ mine \subseteq Suites /\ gone \subseteq Suites
  /\ displaced \in BOOLEAN

\* When no fetch is under way and the last one has not failed, the tree shows what this
\* browser has done to it and was told of: the suites it made, unless somebody has deleted
\* them, and none it deleted, however the fetches, its own changes and those of others
\* overtook each other (useCreateSuite, useUpdateSuite, useDeleteSuite).  A change answered
\* before the tree was there for the first time may be missing, and a tree in a cycle may
\* hide it; after a failed fetch the old tree stays until the next change is answered.
TreeShowsOwnChanges ==
  Loaded /\ treeFetch = Idle =>
    /\ ~raced => mine \cap suites \subseteq seen
    /\ seen \cap gone = {}

\* A save keeps what its user left alone.  That of a case, see SaveKeepsTheRest; that of
\* a suite whose parent field stayed empty never moves it: "실수로 지워지는 일은 없지만"
\* (SuiteFormModal.tsx:24).  But the field stays empty only if no suite was selected
\* when the form was opened; otherwise the save moves the suite under the selected one.
SavesKeepTheRest == SaveKeepsTheRest /\ ~displaced
===============================================================================
