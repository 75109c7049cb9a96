# Runboard in TLA+

Runboard is a test-management service: organizations keep suites of test cases,
make *runs* of them, record a result for each case of a run, and watch each other
do so live. The backend (`src/backend`, NestJS over Prisma and PostgreSQL) answers
REST calls and sends socket.io events; the frontend (`src/frontend`, React with
TanStack Query) patches its cache from both. This directory models the parts of it
where steps of several actors meet.

Read `RunService` first, then `RunProperties`. Each other component starts with a
module of its own (`RunPage`, `RefreshTokens`, `RunRoom`, `Organization`, `SuiteTree`,
`BugReports`), and browser modules extend the server's module they talk to.

## 1. Inventory

| Component | State | Operations | Where |
|---|---|---|---|
| Runs | run row (status, stamps, four counters), case rows (result, recorder), assignee rows | record a result, change status, replace assignees, create, read | `runs/runs.service.ts`, `runs/lib/` |
| Run events | none | six kinds of events to a run room or an org room | `runs/run-events.service.ts`, `run-socket.registry.ts` |
| Realtime gateway | socket.io rooms, presence map (memory only) | connect, `org:join/leave`, `run:join/leave`, disconnect | `runs/runs.gateway.ts`, `run-presence.service.ts` |
| Run page | query cache, participants | mount, unmount, patch, refetch | `features/runs/*` |
| Refresh tokens | users, token rows in families | register, login, refresh, logout | `auth/auth.service.ts` |
| Browser session | store in memory, localStorage, the refresh under way | intercept 401, refresh, repeat, sign out | `lib/api-client.ts`, `stores/auth-store.ts`, `features/auth/hooks.ts` |
| Organizations | memberships, invitations | create, change role, remove, invite, revoke, accept | `organizations/*.service.ts` |
| Suites and cases | a tree of suites, cases in it | create, update (move), remove | `suites/*`, `cases/*` |
| Page of suites and cases | cached tree and cases, selection, forms | select, fill, save, delete, refetch | `pages/SuitesPage.tsx`, `components/suites`, `components/cases`, `features/suites`, `features/cases` |
| Bugs | bug rows | create, update, list | `bugs/bugs.service.ts` |
| Bug list, audit page | cached list, socket in the org room, pages of the log | mount, refetch, join, next page | `features/bugs`, `features/realtime`, `features/audit` |
| Audit log | one row per change | `record`, `recordGlobal`, paged query | `audit/*` |
| Tenant isolation | request context | scope every query to the organization | `prisma/*`, `common/context` |
| Guards | none | signed in, member, role, assigned | `common/guards/*` |
| Dashboard | none | aggregates | `dashboard/*` |

**How they interact.** A REST handler passes its guards (each of which reads the
database once), opens one Prisma transaction, reads, decides, writes, appends its audit
row and commits. Only then does it look up the actor's name and send events. The
events go to socket.io rooms; which sockets are in a room follows from `run:join` and
`run:leave`, which browsers send when a run page is opened and closed and when a
socket connects. Pages merge REST answers and events into one cache. Nothing but the
database survives a restart of the server.

**What is hard.** PostgreSQL runs these transactions at READ COMMITTED, which the code
does not change: each statement sees what is committed when it starts. Every
"read, decide, write" is therefore open to a second request that commits in between,
except where an atomic update, a unique key or a foreign key closes it. After the
commit there is a gap in which the process may stop. In the gateway an `await` in
`run:join` lets the socket's own later messages overtake it. In the browser several
calls share one refresh, and a tab may be reloaded or its answers lost at any time.

**What would make each part correct.**

- Runs: the counters account for every committed record and count the cases; status,
  stamps and results are those of the latest audit entries; events tell only what was
  committed; no request waits for ever.
- Tokens: at most one live token per family; a token shown twice closes its family
  for good; a reuse report is never undone; one account per e-mail.
- Browser session: the tab never shows the server a retired token by itself; calls
  settle; logout ends the session.
- Realtime: once things settle, presence is the open pages, and pages show it.
- Organizations: an ADMIN remains; one membership per user; an invitation admits once;
  the log tells who is a member.
- Suites and cases: the tree stays a tree, three levels deep, and nothing vanishes
  without a log entry; a form changes what its user changed and nothing else.
- Run creation: assignees are members, or were when the list was judged.
- Bugs: a resolved bug is stamped, the log tells the status, organizations stay apart.
- Screens: once things settle, a page shows what is committed, above all what its own
  user did; only a fetch read before a commit takes it back; the log read page by
  page skips nothing but what one millisecond leaves without an order.
- Dashboard: the distribution computed from counters counts cases; the trend settles.
- After a logout nothing of the session is left in the browser.

## 2. Modules

| Module | Models | Checked by |
|---|---|---|
| `RunService` | the three writing handlers of a run, one action per awaited statement, with row locks, rollback, crash, and the events | `run_history`, `run_live`, `run_serial`, `run_doc_counters` |
| `RunBoard` | what a run promises: the same operations in one step each | refined in `run_serial` |
| `RunProperties` | the properties of `RunService`, its uncontended and serial variants, the refinement | |
| `Dashboard` | what the dashboard computes from a run's row | `run_serial`, `run_history` |
| `RunProofs` | proofs about them | |
| `RunPage` | the cache of an open run page, its fetches, its socket | `page` |
| `PageProofs` | proofs about `RunPage` | |
| `RunRoom` | gateway, presence, tabs and the network between them | `room` |
| `RoomProofs` | proofs about `RunRoom` | |
| `TokenFamilies` | what the token operations promise, one step each | refined in `auth_serial` |
| `RefreshTokens` | register, login, refresh, logout by statement, and their properties | `auth_race`, `auth_serial` |
| `AuthProofs` | proofs about both | |
| `AuthClient` | the browser's session over the one-step server | `auth_client` |
| `BrowserSession` | what a session leaves in the query cache and the socket | `auth_client` |
| `ClientProofs` | proofs about both | |
| `Organization` | members and invitations by statement | `org` |
| `RunCreation` | creation of a run and replacement of assignees while members change | `org` |
| `OrgProofs` | proofs about both: members, assignees, log and invitations | |
| `SuiteTree` | suites and cases by statement, the tree rules as operators | `tree` |
| `CaseForms` | the form that edits a case, over its cached answer | `tree` |
| `SuitesPage` | the page of suites: cached tree, selection, forms, deletion | `tree` |
| `TreeProofs` | proofs about these three | |
| `BugReports` | bugs of several organizations by statement | `bugs` |
| `OrgScreens` | the bug list and the audit log on a browser's screen | `bugs` |
| `BugProofs` | proofs about both | |
| `MCRun`, `MCPage`, `MCRoom`, `MCAuth`, `MCOrg`, `MCTree`, `MCBugs` | small instances: roles, inputs, symmetry | |

An operator whose comment starts with "Fault:" is not part of a model. It is a
plausible bug of the definition that follows it; with it in that definition's place the
run named in `PROJECT.json` finds its property violated, which shows that the property
depends on that code.

### State and actions against the code

*`RunService`.* `status`, `startedAt`, `completedAt`, `counters`, `result`,
`recordedBy` and `assignees` are columns; a timestamp is kept as "set or not". `audit`
is the run's part of `audit_logs` in commit order. `pc`, `job` and `loc` are where a
request is, what it came with, and what its handler has in local variables. A write
takes its row in `lock` when the statement runs and becomes visible in the
`...Commit` action, which also appends the audit entry; the locks go with it.
`RecordShift` is the atomic increment of `applyCounterShift`: PostgreSQL applies it to
the row's latest version, so `RecordCommit` computes it from the counters of that
moment. The rows of `test_run_assignees` have no lock of their own in the model:
`AssignDeleteRow` and `AssignInsertRow` take the rows of `deleteMany` and `createMany`
one by one and wait for the uncommitted deletes and inserts (`Deleting`, `Inserting`) of
others, which is what the row locks and the unique key do; a delete keeps to the rows
of its snapshot and skips one that has been deleted since. The order of the rows is
free. `Blockers` says what a waiting statement waits for, and `DeadlockVictim` is the
rollback by which PostgreSQL ends a cycle of them.
A request that a guard refuses changes nothing and does not arrive.

*`RunPage`.* The value of a field is the number of changes committed to it, so "shows
something older" can be said. `shown`, `fresh`, `query` and `snap` are TanStack Query's
data, invalidation and fetch of the two queries of the page (`detail`, `cases`), `down`
the events on their way. Left out: `run:case.recorded` always names who has recorded,
while the row of a case set back to PENDING names nobody (`runs.service.ts:230`,
`:259`). `Patch` is `setQueryData` with a function of the previous data,
`Invalidate` is `invalidateQueries`. `lost` remembers why a value did not reach the page
or was taken back (`TakenBack`): `setQueryData` does not cancel a fetch under way, so an
answer that the server read before a commit replaces what the event of that commit, or
the answer to the page's own record, has just written.

*`RunRoom`.* The gateway's handlers change the socket.io room and the presence map
together, so `room` is both. Messages of a connection are a queue per direction.
`checking` holds the `run:join` handlers that await `assertReadable`; `overtaken`
is a history variable that remembers which of them were passed by a leave or disconnect.
A check that fails (`JoinFails`, a database error) drops the join and sends no ack;
`unchecked` remembers it.
A tab keeps one socket; emits made while it is down are kept by socket.io-client and
sent first when it connects (`outbox`).

*`RefreshTokens`.* `refresh` reads its token outside any transaction (`RefreshFind`)
and writes by id later (`RotateUpdate`, `RotateCommit`). The revocation of a family
sees the rows that are live when it starts (`ReuseUpdate`), waits for held ones
(`ReuseUpdateDone`) and commits before the exception is thrown. `register` is two
statements in no transaction. A token that was never issued cannot be shown. Commit and
answer are two steps: `outcome` is what a request has committed, `answer` what its
caller was told, and between the two the process may stop (`Crash`) or the answer be
lost (`LoseAnswer`).

*`AuthClient`, `BrowserSession`.* `refresh[t]` is the module variable `inFlightRefresh`
with the request it stands for; a call that met a 401 is "waiting" on it, then "again". A
call may fail for another reason (`CallFails`), after which a logout still clears what the
tab has. `held` and `access` are a tab's store, `stored` is localStorage, written by every
setter and read when a page loads. The server is `TokenFamilies` in single steps. A
session is a family; `cached` and `socket` are the sessions whose answers and connection a
tab keeps.

*`Organization`* and *`SuiteTree`.* Here the writes of each transaction come last and
touch rows that only they need, so writes and commit are one step (`ChangeRole`,
`Join`, `UpdateSuite`, ...); every read before them is a step of its own. Two history
variables name the hazard: a request is `outdated` once another has committed a
change to what it has read, and `raced` is set when an outdated request commits.
An audit record has a role only where the code logs one: the difference to the row read
before (`Diff`) for a role change, none for a joining, a removal or a founding, so the
role somebody joined with is that of his invitation (`FirstRole`).
`SuiteTree` starts from every tree that requests one after the other can build, and
its `branchMoved` records a move of a suite with children. The rows of deleted suites and
cases keep their last parent, which the log property looks at.

*`RunCreation`.* The request goes from `FindCases` or `FindRun` through `CheckMembers`
(`assertAssigneesAreMembers`) to the write, while `Organization` goes on; `checked` is
how long the log was when the list was judged.

*`CaseForms`, `SuitesPage`.* `detail` and `seen` are the cached case and the cached tree,
`fetch` and `treeFetch` their fetches, `form` and `modal` the form on the screen, `save`
and `sent` what its requests were sent from. `undone`, `displaced`, `mine` and `gone` are
history: what a save changed that its user left alone, and what the browser was told.
The answer to a save that was written may be lost (`Crossed`, `ServePage`), and fetches
may fail for good (`FetchFails`, `TreeFails`); neither invalidates anything.

*`BugReports`.* An update looks its row up, writes under the row's lock (`pc` is
"commit" from the write on) and commits with the audit entry. `clock` is `createdAt`,
taken at the write, so entries can become visible in another order than their stamps;
it counts milliseconds, and two writes may fall into one (`Now`).
`InScope` is the where clause of the tenant extension, `KeyHolds` the composite foreign key.

*`OrgScreens`.* `listed` is the number of commits the list was read after; `walk` is the
infinite query over the log with its cursor, `begun` what was committed when it began.
Each page is read from an order the database may give (`NewestFirst`): by `createdAt`
alone, entries of one millisecond in any order, each time another.

## 3. Runs and what they show

Each run finishes within two and a half minutes on two cores.

| Run | Instance | Shows |
|---|---|---|
| `run_history` | a lead and a tester, one case, results PENDING and PASS, 4 requests, crash and failing `nameOf` | under every interleaving the counters are the replay of the log, the log has the last word, stamps follow status, events tell committed history; the point of a completed run settles once what raced with its completion has ended |
| `run_live` | a lead and a viewer, lists of up to two assignees, one case, 3 requests of all three kinds, rollbacks | every request is answered: results and transitions form no cycle of locks, and one of two crossing lists is ended; every commit is announced while the process stays up |
| `run_serial` | one lead, two cases, 4 requests, all failures | if the run's transactions do not overlap, the statements implement `RunBoard`, and the dashboard counts the cases |
| `run_doc_counters` | 3 requests, one case | *violated*: two records of one case leave a counter that does not count the cases |
| `auth_race` | 4 tokens, 4 requests, one e-mail, rollbacks, crashes and lost answers | tokens and commits account for each other and answers tell what was committed, one registration per e-mail included; reuse reports are carried out |
| `auth_serial` | 4 tokens, 4 requests, the same failures | one live token per family, closed families stay closed, the statements implement `TokenFamilies`, if requests on one family do not overlap |
| `auth_client` | one tab, one call and logout, 3 tokens, lost answers, reloads, one token that expires | no sign-out by the tab's own doing, the tab holds the live token, logout ends the session it names and leaves nothing of it behind, calls settle |
| `room` | two tabs (one may open two pages and connect twice), two runs, one readable by one user only | once quiet, presence is the open pages and pages show it, except for joins overtaken or whose check failed; no page stays outside for good |
| `org` | two people, two invitations, 3 requests, one of which may be about a run | one membership per user, a truthful log and assignees that were members always; an ADMIN remains and invitations admit once unless an outdated request commits |
| `tree` | four suites, one case, 2 requests on any initial tree, a browser with its forms | nothing vanishes without a log entry; every suite is shown unless an outdated move commits, and the depth is three unless children move along; saves keep what their user left alone unless an answer was lost or crossed; the tree on the screen shows what its own browser did unless its last fetch failed |
| `page` | one run page, one case, one request of its own and one from elsewhere, `Budget` = 2 | once quiet the page shows the run, with the exceptions the property names; own records are shown, and nothing goes back but by a fetch read before the commit |
| `bugs` | two organizations, one bug, 3 requests, one of the browser's, `Budget` = 1 | resolved bugs are stamped, the log tells the status, organizations stay apart; the list catches up; a walk through the log skips and repeats nothing but entries of one millisecond |

### Bounds and why they are enough

- *Requests.* Every hazard listed is between two requests; a third or fourth is needed
  to start the run first, to close it, or to come after the race. `Reqs`, `Tokens`
  (issued at most once each, `TokensUsedUp`) and the ids of rows are bounded by their
  sets. In `SuiteTree` two requests are enough because the initial tree is arbitrary.
- *Results.* All counters behave alike. PENDING and one other result give an increment,
  a decrement, the case that neither happens, and a counter that has no column.
- *Users.* One who needs to be assigned and one who does not; in `Organization` two, so
  that the last two ADMINs can meet; symmetric in requests, tokens and row ids.
- *Assignee lists.* Two ids and two requests make two lists cross. In `run_live` the
  requests arrive in the order of their numbers and the last one records, which is a
  reduction of the instance and not of the model (`InOrder`, `LastIsRecord`).
- *`RunRoom`.* `MaxVisits`, `MaxConns` and `Budget` bound pages opened and connections
  made, not the order of anything; `Budget` counts checks that fail, too. One tab that can
  reconnect and visit twice and a second that cannot are enough for a leave and a join of
  one connection to meet a check, a restart, and somebody to be told.
- *Suites.* Four: a fourth level needs no more, and a cycle needs two. Forms and the page
  open on trees of at most `SmallTrees` suites (and cases), which is a suite to edit and
  one to be selected; a behaviour uses the form of a case or the rest of the page, not
  both (`NoCaseForm`, `NoPage`), and the page is not left and shown again.
- *`RunPage`, `OrgScreens`.* `Budget` bounds visits, disconnections, token refreshes and
  failed fetches taken together. `page` has two, a loss during the recovery from another;
  `bugs` has one, because what the list owes is owed after each of them alone. With
  `Take` = 1 a log of two entries already needs a second page, and pages grow under way.
- *`AuthClient`.* `Expiries` = 1: one token runs out by the clock. One tab, because tabs
  share nothing in the model but localStorage; signing in again from a tab that still
  holds a session is not modelled (`SignIn` needs a tab without one).
- *`RunCreation`.* `WithinRequests` counts the request about the run with the others.

`CHECK_DEADLOCK FALSE` is set everywhere: requests are finitely many, so every run ends
when they are answered. That nobody waits before that is `EveryRequestAnswered`,
`CallsSettle` and `PagesGetIn`.

### Fairness

- `RunService`: weak fairness of the next step of each request. The event loop and the
  database keep serving what has arrived. A waiting statement is granted because its row
  is released by a later step of its holder, and nobody can take it infinitely often:
  requests are finitely many; a cycle of waiting transactions is found by the database, so
  `DeadlockVictim` is among the steps that are served. Arrivals, rollbacks and crashes
  need not happen; `run_live` has no crash, because after one nothing is announced, as
  `run_history` shows.
- `AuthClient`, `BrowserSession`: the server answers what reaches it and the browser runs
  the handlers of what was answered. Users, clocks and failures are free.
- `RunRoom`: what a server or tab has received is handled, and each end notices that
  the other has closed. Weak fairness of the union is enough as each step uses up work.

## 4. What the code does that its words do not say

One run is expected to be violated. It states what a document says:

1. `run_doc_counters`. `recordResult` reads the previous result without a lock and
   shifts the counters by it, so two records of one case corrupt the counters
   for good. `DATA-MODEL.md:374` says they stay right under contention.

Others show in the conditions of the properties that hold:

- *`AdminRemainsUnlessRaced`*: `assertNotLastAdmin` counts without a lock, so two ADMINs
  can demote each other. `members.service.ts:98` says at least one ADMIN remains.
- *`DepthKeptForLeaves`*: `exceedsMaxDepth` measures the new parent only, so moving a
  suite with children makes a fourth level, without any race. `suite-tree-rules.ts:3` and
  `SPEC.md:63` say three.
- *`SavesKeepTheRest`*, suites: `SuitesPage.tsx:72` hands the selected suite to the form
  that edits another, and `SuiteFormModal.tsx:39` fills the parent with it. Renaming B
  while A is selected moves B under A; renaming the selected suite itself is refused as
  a cycle; and after the selected suite was deleted the form shows "top level" and sends
  a parent that is gone. The comment at `SuiteFormModal.tsx:20` says the field starts
  empty and an empty field changes nothing, which is the part that holds. An empty field
  also means that a suite cannot be moved to the top from the page.
- *`SavesKeepTheRest`*, cases: the form is filled once, from the cache, and a save sends
  every field; what others changed meanwhile is taken back, and so may be the user's own
  earlier save if an answer read before it arrives after it. While the data of the form
  is loading there is no way to close it (`SuitesPage.tsx:107`). A save that was written
  and whose answer is lost counts as failed: `useUpdateCase` has no `onError`
  (`cases/hooks.ts:67-80`), so the form opened next has the old suite, and saving it
  moves the case back with nobody else involved.
- *`TreeShowsOwnChanges`*: a fetch of the tree that fails after its retry leaves the old
  tree and says nothing, until the next change is answered.
- *`NeverBackwards`, `OwnRecordIsShown`*: a fetch that the server read before a commit and
  that arrives after its event or answer takes the new value off the screen again, also
  the record of the page's own user. Events of commits that overtake each other leave
  the page with the older value (`crowded`), until its next fetch.
- *`TrendSettles`*: a result recorded while the run was being completed changes a point
  the trend has already had, and a transition that read the run before it was closed
  takes it back from ABORTED to IN_PROGRESS, which `API.md:103` excludes.
- *`AuditTellsMembership`*: of two overlapping role changes the later one logs the
  difference to a row that is no longer there, or nothing (`members.service.ts:54`).
- *`WalkSkipsNothing`*: the order of the log is `createdAt`, of milliseconds, and the
  cursor an id. `ARCHITECTURE.md:265` names the id as a second key, the code has none;
  `REVIEW.md:93` knows it.
- *`TokensAccountedFor`*: when the process stops or the answer is lost after the commit of
  a rotation, the old token is retired and the new one in nobody's hands.
- *`PageShowsRun`*, "ignored": no handler listens to `run:status.changed`, though
  `API.md:150` and `run-events.service.ts:62` give it to pages; an open page goes on
  offering to record. And an event between the first answer and the join is lost, since
  the first join fetches nothing.
- *`SignOutLeavesNothing`*: a session that a failed refresh ends leaves its query cache
  and its socket to whoever signs in next; only `useLogout` clears them.
- *`AssigneesWereMembers`*: a removed member stays on the lists of runs and is assigned
  again when invited again; `SPEC.md:89` says a removal takes effect at once. A list
  that names a user twice passes the check and fails on the primary key (500).
- *`LogTellsStatus`*: an update decides by a status it read without a lock; when it has
  changed, the log misses a change or tells one that was not.
- *`ListShowsBugs`*: an event lost between leaving and joining the org room, or during a
  first fetch, is not made good until the list is fetched for another reason.
- *Serial only* (`RunBoard`, `TokenFamilies`): overlapping `updateStatus` requests can
  reopen a closed run; a result can be committed after the run was closed; two
  assignee lists can end up united; two refreshes with one token leave two live ones,
  and a refresh that races the reuse report leaves one.
- *`overtaken`, `unchecked`*: a join whose check fails gets no ack and leaves its page
  outside the room until it connects again. A `run:join` whose check is passed by the
  leave or disconnect of its socket leaves an entry in the presence list that no page
  stands for, until that connection, if it still exists, closes. As the presence handler
  of the page ignores `runId`, such a connection shows one run's participants on another's
  page.
- *`raced`*: an invitation that is accepted and revoked at once ends up REVOKED although
  it admitted somebody, and two moves of suites can make a cycle, whose suites
  disappear from the tree that the frontend gets.
- *`LogoutEndsSession`*: a logout that met a 401 is repeated with the body it had, which
  names the token that the refresh has just retired; the rotated token stays valid
  until it expires. A second tab of the same browser has its own copy of the store:
  it shows a token the first has rotated, and both are signed out.
- Not in a model: the form of a new run says "하위 케이스 전체 포함"
  (`RunFormModal.tsx:85`) and `create` takes the cases directly in the suites only; and
  the dashboard's parallel queries may see different snapshots.

## 5. Proofs

TLAPS checks these for all values of the constants under the named assumptions of
the modules (`RoleAssumption`, `CasesAssumption`, `NoTokenAssumption`, ...: model
values are distinct, the cases of a run are finitely many).

| Theorem | States | Argument |
|---|---|---|
| `RunProofs!TypeCorrect` | `Spec => []TypeOK` | inductive as it stands; it carries which handler's input a request has, without which an audit entry's kind is unknown |
| `RunProofs!CountersAlwaysReplay` | `Spec => []CountersReplayAudit` | with `TypeOK`: only `RecordCommit` changes either side, and `Delta` is the difference of the two cardinalities after an `Append` |
| `RunProofs!StampsAlwaysFollow` | `Spec => []StampsFollowStatus` | strengthened with what a request between its check and its commit has seen: a started run was stamped, and stamps are never taken back |
| `RunProofs!EventsTellHistory` | `Spec => []EventsTellCommittedHistory` | `EventsInv`: what a request past its commit will send is the record of its entry and the counters the log gives up to it; the log is only appended to, so a prefix once there stays |
| `RunProofs!LogHasLastWord` | `Spec => []AuditHasLastWord` | inductive with `TypeOK`: a commit changes a case or the status only together with its entry, which becomes the greatest index of its kind and leaves those of every other kind alone |
| `RunProofs!CountersCount` | `UncontendedSpec => []CountersCountCases` | strengthened with "a request past its read of a case still holds the true previous result" (`PrevIsCurrent`), which two requests on one case would break |
| `RunProofs!SerialImplementsBoard` | `SerialSpec => ImplementsBoard` | with that and "what the request in its transaction has seen is still so" every commit is the `RunBoard` step and every other step a stutter |
| `RunProofs!DashboardCounts` | `UncontendedSpec => []SummaryCountsCases` | from `CountersCount`: the cases that are not pending are the disjoint union over the columns, so what the total leaves is the number of pending ones and no clamp is ever reached |
| `RunProofs!TrendAlwaysSettles` | `Spec => TrendSettles` | a request reads the run before it writes and is refused by a completed one, so while none is under way none comes to be, and no other step touches columns or status |
| `AuthProofs!FamiliesKeepTheirPromises` | the one-step operations keep one live token per family and closed families closed | with family types: a family is named by one of its tokens, and a reported one has none alive, so nothing can rotate in it |
| `AuthProofs!TypeCorrect` | `Spec => []TypeOK` | carries that only a request between update and commit holds rows |
| `AuthProofs!ReuseAlwaysCarriedOut` | `Spec => []ReuseIsCarriedOut` | revoked tokens and reports only grow; a request past `RefreshFind` towards reuse was given a revoked token |
| `AuthProofs!TokensAlwaysAccountedFor` | `Spec => []TokensAccountedFor` | `IssuedInv` counts: each step that issues a token is the commit of exactly one request (`outcome`), and what becomes of its answer later changes none of this; `RegisteredInv`: an e-mail whose user row is written belongs to one request, before and after it gets its token |
| `AuthProofs!SerialImplementsFamilies`, `SerialKeepsPromises` | `SerialSpec => ImplementsFamilies`, and the promises with it | "what the request has read is still so" (`StillSo`), from which each commit is the `TokenFamilies` step |
| `OrgProofs!TypeCorrect` | `Spec => []TypeOK` | one step per action |
| `OrgProofs!MembersAreUnique` | `Spec => []OneMembershipPerUser` | the key is looked at in the step that inserts |
| `OrgProofs!LastAdminIsProtected` | `Spec => []AdminRemainsUnlessRaced` | `AdminInv`: row ids are keys, and unless something raced the readings of every request that is not outdated are true, so the one that writes leaves the ADMIN it counted |
| `OrgProofs!AssigneesAlwaysWereMembers` | `MembersAndRunsSpec => []AssigneesWereMembers` | every step that takes somebody's last membership appends his removal, so "is a member or was removed since the check" is kept from the check to the write and after; row ids must name their users for good (`HoldersMatch`) |
| `OrgProofs!LogAlwaysTells` | `Spec => []AuditTellsMembership` | `LogTells`: a row is logged exactly by its founding or joining and its removal (`RowsLogged`); what a request has read and is not outdated is the row as it is (`RowsRead`), so the difference it logs tells the new role (`RolesTold`), which the last entry with a role keeps (`LastChangeIsChosen`) |
| `OrgProofs!InvitationAdmitsOnce` | `Spec => []InvitationsAdmitOnce` | unless raced, a request about to accept or revoke and not outdated still finds its invitation pending and nobody admitted by it |
| `ClientProofs!TypeCorrect` | `Spec => []TypeOK` | one step per action of the tab, the server and the clock |
| `ClientProofs!LogoutLeavesNothing` | `SessionSpec => []SignOutLeavesNothing` | `Accounted`: everything kept, and every call that will still be cached, belongs to the session held or to one that ended without logout |
| `ClientProofs!NeverForcedOut`, `AlwaysHoldsLive` | `Spec => []NoForcedLogout`, `Spec => []HoldsLiveToken` | `TokenInv`: a family that no reload and no logout has disturbed has its live token in one place, the tab, its refresh or the answer on its way, so no one can show a retired one; for any number of tabs |
| `ClientProofs!LogoutEndsIt` | `Spec => []LogoutEndsSession` for one tab | `LogoutInv`: one live token per family, what is stored is what the tab holds, and an answer under way carries the newest token; a second tab may hold a newer token than the one the logout names, hence the hypothesis |
| `BugProofs!TypeCorrect` | `Spec => []TypeOK` | with `diffFields` and the row an update leaves as lemmas |
| `BugProofs!ResolvedAlwaysStamped` | `Spec => []ResolvedIsStamped` | `SeenIsStamped`: a request that read the bug as resolved read a stamped row, and stamps are never cleared; nobody writes between an update's write and its commit (`WritersAreAlone`) |
| `BugProofs!OrgsAreApart` | `Spec => []OrgsStayApart` | `RequestsOwnTheirRows`: past its lookup a request is about a row of its own organization, which no update changes |
| `BugProofs!LogAlwaysTellsStatus` | `Spec => []LogTellsStatus` | `StatusInv`: unless the bug is in `raced`, what is about to be committed was decided on the status the row has, so the entry compares the true before and after |
| `BugProofs!ScreensTypeCorrect` | `ScreensSpec => []ScreensTypeOK` | the numbers of commits are bounded by their count, which never falls |
| `BugProofs!ListAlwaysShows` | `ScreensSpec => []ListShowsBugs` | `LatestAccounted`: the latest commit is listed, being fetched, to be fetched on mounting, about to be announced, on its way or noted as missed; `ReadsForward`: a fetch never brings back an older list; `ToldKept`: the same for what this browser was answered |
| `BugProofs!WalkNeverSkips` | `ScreensSpec => []WalkSkipsNothing` | `PageIs`: whatever order the database gives the entries of a millisecond, the rows after the cursor hold all that are older than it and none that are newer; `WalkInv`: an entry there at the start has been read, is older than the cursor, or is of a millisecond in whose midst a page ended (`Cut`) |
| `TreeProofs!TypeCorrect` | `Spec => []TypeOK` | the rows a delete takes along are closed under "is in" (`CascadeIsBelow`), so no parent is left dangling |
| `TreeProofs!NothingVanishes` | `Spec => []LossesAreLogged` | `LossesTraced`: a suite that is gone was deleted or lost with its parent, and its row keeps that parent, so the chain that explains the loss is frozen although suites further up still move |
| `TreeProofs!NoneIsHidden` | `Spec => []EverySuiteIsShown` | `JudgedRightly`: unless a move has overtaken the request, what it judged of the parent is still so, so a move never closes a cycle; and the levels of the assembled tree are the suites with a chain to the top (`ShownIsRooted`) |
| `TreeProofs!LeavesKeepTheLimit` | `Spec => []DepthKeptForLeaves` | the same, with the lengths of the chains: creating and moving a leaf adds one to that of the parent, moving to the top only shortens |
| `TreeProofs!FormsTypeCorrect` | `PageSpec => [](FormTypeOK /\ PageTypeOK)` | the fetched answers, the forms filled from them and the saves sent from those have their types (`NoDataAssumption`: the value for "nothing there" is none of these) |
| `TreeProofs!PageIsAClient` | `PageSpec => Spec` | every step of the forms and the page is one of `SuiteTree` or leaves its variables alone, so the theorems above hold of the tree the browser works on |
| `TreeProofs!SavesKeep` | `PageSpec => []SavesKeepTheRest` | `Holds`: data names the suite of its case as long as others have not moved it since; it is so of the cache and of forms while no save of this browser is news (`CachedHolds`, `FilledHolds`), and of a save sent alone until it is written (`SavedHolds`); a lost answer marks all that the browser knows of the case; a save of a suite whose parent field was left empty names no parent (`LeavesAlone`) |
| `TreeProofs!TreeShows` | `PageSpec => []TreeShowsOwnChanges` | `TreeCovers`: the tree shown when no fetch is under way and none has failed, and the answer on its way, have what the browser was told it made and nothing it deleted; suites are made once and never come back (`RowsGrow`), and what is new comes with a new fetch |
| `PageProofs!TypeCorrect` | `Spec => []TypeOK` | what the server read for a query is there as long as its answer is under way |
| `PageProofs!NoneGoesBack` | `Spec => NeverBackwards` | `Latest`: of a field whose changes follow each other, every event and answer that may still be written into the cache carries the committed value, and what is shown is at most that; only what a fetch has read can be older |
| `PageProofs!RecorderSeesRecord` | `Spec => []OwnRecordIsShown` | a request is made on a page that has data (`Asked`), so its answer is patched in; by `NoneGoesBack` only a fetch takes it off again, and that is noted (`TakenBack`) |
| `PageProofs!PageComesToShow` | `Spec => []PageShowsRun` | `Accounted`: a committed value that the page does not show, or will not show once its first fetch is answered (`Stale`), is on its way (`Coming`) or noted as lost or taken back, and a loss blamed on the connection has a fetch ahead of it (`Refetched`): the one on the next join or one not yet answered |
| `RoomProofs!TypeCorrect` | `Spec => []TypeOK` | a connection belongs to one tab, and what a tab keeps while offline is sent on its next one |
| `RoomProofs!PresenceKept` | `Spec => []PresenceIsOpenPages` | `Admitted`: the join of an open page is the last request of its connection on its way, or it has been read and is in its check or in the room; `NoneTooMany`: of a connection in a room or about to enter one, the tab shows that run, has left the connection or has a leave on its way, unless it was overtaken |
| `RoomProofs!PagesShow` | `Spec => []PagesShowPresence` | `SeesRoom`: a page admitted to its room shows its presence, or the last notice about it that is on its way does |

`ancestorChain` and `Shown` are recursive functions, and the suites may be in a cycle.
The lemmas of `TreeProofs` need no induction theorem: a least natural number
(`LeastNat`, from `NatLessThanWellFounded`) refutes each claim at its smallest
counterexample. They show that the recursion is well defined (`ClimbsExist`), that the
chain is the least set with the suite which the parent edges do not leave, and that its
length is the size of that set (`ChainIsLeast`); the state proofs use nothing else.
`SuitesAssumption` says that there are finitely many suites.

Only model-checked: liveness (`EveryRequestAnswered`, `CommitsAreAnnounced`,
`CallsSettle`, `PagesGetIn`), which is out of the prover's reach.

## 6. Not modelled, and why

- *Reading* that keeps no state: run lists and their paging, `bugDraft`, the member and
  invitation lists, counts of the dashboard over several tables. It changes nothing.
- *The remaining pages* (login, members, runs, dashboard, invitation): they send the
  requests that the models take from anywhere, and their caches follow the pattern that
  `RunPage`, `OrgScreens` and `SuitesPage` model.
- *A removed member in socket rooms*: `RunRoom` takes who may read a run as a constant.
- *Two tabs of one browser with different tokens in memory*: no document promises
  anything that would hold.
- *Data and wiring* without interleavings of their own: passwords, JWTs, hashes, CORS,
  configuration, validation, rendering, health, the seed script.
- *Tenant scoping* is in `BugReports` only; the other models have one organization.

`PROJECT.json` lists every component, and every hazard with the line at which it bites.

## 7. Plan

Done, in the order of importance: `RunService` and `RunBoard`; tokens and sessions;
`RunRoom`; `Organization`; `SuiteTree`; `RunPage`; `RunCreation`; `BugReports` and
`OrgScreens`; `Dashboard`; the page of suites and cases. Left:

1. `Organization` with `RunRoom`: a removed member in rooms.
2. The switch between organizations in one browser (`stores/org-store.ts`), whose query
   keys carry the organization.
