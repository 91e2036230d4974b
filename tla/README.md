# Verification of the compliance hub

TLA+ models, TLC runs and TLAPS proofs for the workflow and enterprise
compliance hub: the concurrent core of its Go backend, and the session, list,
form and page code of its React console. Paths below are relative to `src/`;
`B/` stands for `backend/internal/`, `F/` for `frontend/src/`.

## The system

Several replicas of one Go process (k8s `Deployment`) share PostgreSQL, Redis
and NATS. An HTTP request changes a row and inserts an outbox row; the outbox
publishes the event; every replica's saga engine receives it and drives a
workflow whose state is one Redis key; every replica's hub pushes it to
websocket clients. Without Redis or NATS the process falls back to in-process
replacements of the cache, the lock and the bus.

| Part | State | Operations | Interacts with |
|---|---|---|---|
| Saga orchestrator `B/saga/saga.go` | one Redis key per (definition, entity): step, status, payload, times; per process: dedupe map, counters, recent ring | HandleEvent, claim, step loop, persist, finish, fail, sweepOnce | bus (handler), cache, step bodies |
| Four saga definitions `B/saga/sagas.go` | rows of compliances, violations, corrective actions, audits; payload of the saga | step actions, triggers, compensators | database, outbox |
| Outbox `B/outbox/outbox.go` | table of rows with attempts and published_at | Insert, Enqueue, dispatchOnce, deliver, markPublished, recordFailure, deadLetter | lock, breaker, bus, database |
| Distributed lock `B/lock/lock.go` | a Redis key with a token and a TTL, or an in-process map | TryAcquire, Release, WithLock | outbox, deadline job, re-encryption |
| Circuit breaker, retry `B/resilience` | state, failures, openedAt | Allow, Success, Failure, Execute, Do | outbox, AI and notification clients |
| Event bus `B/bus` | NATS subscriptions, or a map of handlers | Publish, Subscribe | outbox to engine and hub |
| Cache `B/cache` | Redis, or a map with expiries | Get, Set, SetNX, Del, Keys | everything |
| Repository and CRUD `B/repository`, `B/crud` | rows, cached rows (15 min) | Create, GetByID, Update, Delete, invalidate | cache, outbox, audit log |
| Deadline job `B/modules/deadline` | status of deadlines | evaluate, complete | lock, outbox |
| Sessions and accounts `B/auth`, `B/modules/auth`, `B/modules/user` | one session hash per user, lockout counter, user rows | login, logout, RenewIfNeeded, change password, update | cache |
| RBAC `B/rbac`, `B/permissions` | role permissions, cached 15 min | roleAllows, seed, grant | cache |
| Real-time hub `B/ws` | clients with 64-slot channels | Register, Unregister, Broadcast, Close | bus |
| Pagination `B/pagination` | none (pure) | cursor, keyset conditions, summaries | CRUD |
| Encryption at rest `B/crypto`, `B/reencrypt` | key ring, encrypted columns | Encrypt, Decrypt, MigrateColumn | lock |
| Audit log `B/auditlog` | append-only rows | diff, record, retention | CRUD, sagas |
| Server `B/server` | rate limit counters | middleware, start, shutdown | all |
| API client, session `F/services/api/client.ts`, `F/store/auth.slice.ts`, `F/router.tsx`, `F/hooks/useAuth.ts`, `F/features/auth` | token of the client, auth slice, localStorage, `["me"]` query | request, 401 handling, bootstrap, guards, login, logout, reload | sessions over HTTP |
| List hook `F/hooks/useCursorList.ts`, `F/components/ui/PaginationBar.tsx` | page stack, active index, query cache | render with effects, next, previous, refetch | pagination over HTTP |
| List toolbar `F/features/*/pages`, `F/hooks/useDebounce.ts`, `F/components/ui` | text box and timer, selects, dates, sort | type, choose, clear, sort | list hook, search handlers |
| Entity pages `F/features/*`, `F/services` | dialogs, form, mutations in flight, cached list | open, type, save, delete, row actions | list hook, CRUD handlers, RBAC |

What is hard in it:

* every replica handles every event, with nothing but a `SET NX` and the
  persisted step between them, and event delivery is at least once;
* the engine reads a saga, runs a step body against the database, and writes
  the saga back, in separate calls that may each fail, and that a crash, a
  sweeper or another event's handler may come between;
* the step bodies share their tables with officers;
* the outbox's dispatchers decide on copies of rows under a lock with a TTL;
* caches are filled beside the writes that invalidate them;
* in the browser, effects run after renders and answers arrive after the user
  has moved on: to another filter, page, dialog, route or account; lists are
  changed optimistically and put back; the token lives in three places.

What makes each part correct is stated by the properties below for the parts
that are modelled; `PROJECT.json` lists the hazards at their lines, with the
properties that cover them or the reason none does yet, and says of each component
that is not modelled what there is to model.

## Modules

| Module | Models | Kind |
|---|---|---|
| `SagaEngine` | `saga.go`: the engines of all replicas over one Redis, with open step bodies | detailed |
| `ViolationSaga` | ViolationProcessing of `sagas.go` with the violation and corrective action handlers | superposed on `SagaEngine` |
| `ComplianceSaga` | ComplianceCheck of `sagas.go` with the compliance handler | superposed on `SagaEngine` |
| `Delivery` | what the outbox keeps for its events | abstract |
| `Outbox` | `outbox.go`, `bus.go`, `nats.go`: Enqueue, the dispatchers and the bus clients of all replicas | composes `CircuitBreaker` and `DistLock`, implements `Delivery` |
| `DistLock` | the Redis lock | abstract (also composed in `Outbox`) |
| `MemoryLock` | the in-process lock | implements `DistLock` |
| `CircuitBreaker` | the breaker as pure operators on a record | used by the next and by `Outbox` |
| `BreakerCalls` | concurrent callers of `Execute` | |
| `InProcess` | what a replica guards with its own mutexes | composes `MemoryLock` and `BreakerCalls` |
| `ApiSession` | the session of one browser tab against the server's | |
| `CursorList` | `useCursorList` and the page buttons over keyset pages | |
| `ListToolbar` | the toolbars and sort headers of the eleven list pages, their requests, and the columns the search handlers accept | |
| `Forms` | the nine forms, column by column: row to form to body to row | pure operators |
| `Pages` | the ten entity pages: routes, permissions, forms, row actions | pure operators, extends `Forms` |
| `EntityPage` | an entity page at work | extends `Pages` |
| `MCSagaEngine`, `MCViolationSaga`, `MCComplianceSaga`, `MCOutbox`, `MCApiSession`, `MCEntityPage` | instances for TLC | |
| `SagaEngineProofs`, `ViolationSagaProofs`, `ComplianceSagaProofs`, `OutboxProofs`, `InProcessProofs`, `ApiSessionProofs`, `ListProofs`, `EntityPageProofs` | theorems | |

`PROJECT.json` maps every definition to the lines it stands for. Operators
headed "Mutant of X" are plausible bugs of X; each listed property is refuted by
one of them, which shows that the property depends on that code.

### SagaEngine

`store` is Redis: saga to persisted record or `Absent`. A *job* is one goroutine's run over one saga: the handler of an
event, or a sweeper at a key. Its `pc` names the next shared access:

    load -> claim -> act -> persist -> (act | idle | finish)
                     act fails -> comp -> failset -> faildel

and `s` is the local `*Saga`. `Load`, `Claim`, `Persist`, `Finish`, `FailSet`,
`FailDel` are one Redis call each; a call in `Faults` may return an error, which
the code treats as the comments say (a failing GET is a miss, a failing SET NX
"fails open", SET and DEL errors are dropped). `Persist` ends with
the head of the loop over `def.Steps` (`Dispatch`), which is local. A step body is
`ActOk` or `ActErr` with any payload; compensators are `Compensate`, one per
step downwards.

The payload matters to the engine in one respect: `Saga.Payload` is omitted from
the JSON when it is empty. A saga that `claim` stored is loaded back with a nil
map (`Loaded`, `NilPayload`), every step body assigns into the map, and nothing
recovers on a handler's goroutine: such a handler takes its process down
(`ActPanic`, `Panic`), so that nobody but the claimer ever runs the first step
of a saga to its end. A panicking replica restarts with an empty dedupe map as
long as the bound `MaxForgets` allows. `panics` remembers why engines went down.

`HandleEvent` records the ID in the dedupe map before anything
else happens; `Forget` is its window (10 minutes) or its capacity (4096).
`Sweep` is one key of `sweepOnce`; for a saga with `CurrentStep = len(Steps)`
it indexes out of range, which is the other panic. `Age`, `Expire` are
the passing of 24 hours and 7 days without a write. They wait for handlers in
flight, which finish within seconds; `Forget` likewise.

Left out: the recent ring, audit rows, metrics and logs, the admin queries, the
time stamps other than `aged`. The counters `started`, `completed`, `failed`
are the engine's own, kept per saga. `runs` is history.

### ViolationSaga and ComplianceSaga

Each step body is cut at its database accesses. A body queries into `held`
(`Hold`), and its last access is conjoined with the engine's action: for
instance the insert of `DetectCreate` and `ActOk`. So every step of these modules is a step of
`SagaEngine` or leaves `vars` unchanged, whatever the bodies do; that is how they
are built and no result about them. The proofs use it as a lemma (`StepRefines`),
to carry the engine's invariants over.

`ViolationSaga`: the violation's row and the corrective actions with status and
creator (`saga` or `officer`). Every query and write of a body may fail; errors
of a compensator are dropped, as `fail` does. Queueing `correctiveaction.*`
events is best effort in both bodies and touches nothing of this saga, so it is
part of the write before it. Officers create, update, complete and delete
actions and resolve or delete the violation through the CRUD handlers, which
look at no current status. The ids of rows are interchangeable: `NewId` takes
one that is unused. `disturbed` is history: a compensator could not reach the
database or an officer set a row back to open. The compensator reads through the
repository's cache; the model reads the row (the cache is planned).

`ComplianceSaga`: the row is its status and whether its due date has passed
without a later review, which is all `evaluateCompliance` looks at. `evaluate`
loads, writes, queues the alert; `alert` waits; the compensator restores, unless
its own write fails (`compFailed`). The payload is the recorded status and the
outcome; `exempt` stands for the reason that a draft or archived row leaves in
it; `had` is the history of the row's statuses. The manual check (`CheckLoad`, `CheckWrite`, `CheckAlert`) does the same
from an HTTP handler. Alert events of both come from the same small set; when
it is used up, queueing fails.

### Outbox, Delivery, DistLock, MemoryLock, CircuitBreaker

`Insert` and `FastPublish` are `Enqueue`. A dispatcher cycle is
`Acquire -> AskBreaker -> Query -> (DeliverOk -> MarkPublished | DeliverErr ->
RecordFailure -> DeadLetter)* -> ReleaseLock`, each one access. `snap` holds the
attempts of the fetched copy: what `recordFailure` increments is that copy and
not the table. A delivery with its retries is one action with two outcomes.

`conn` is the replica's bus client. `nats.go` publishes without flush or
acknowledgement: while the client is `down`, which it may not have noticed,
`Publish` puts the event into its `buffer` and returns nil, and an error comes
only from a full buffer (a second outcome of `down`, `Refuses`) or a `closed` client. `Reconnect` sends
what of the buffer is left, `GiveUp` (after `MaxReconnects(5)`) and `Crash` lose it. A replica
that found no broker at its start keeps a `local` bus, which never reaches
another. `published` counts what clients accepted, `arrived` is what reached the
broker. `Flaky` names the replicas whose connection may fail.

The lock's key expires under a live holder at most `MaxOverruns` times and
freely after a crash. The breaker is per replica, as in the code.

`DistLock` is a key that holds a token or is free. `MemoryLock` keeps an expired
entry until it is looked at, as the code does; the mapping to `DistLock` reads
an expired entry as a free key.

`InProcess` puts the lock and the breaker of one replica side by side; a step is
a step of one of them.

### ApiSession

JavaScript runs a handler to its end, so each action is one: a mount, an answer,
a click. `token` is the client's, `auth` the store's slice, `stored` the copy in
localStorage, `me` the cached data of the `["me"]` query (as the token whose
request they answered) with its error and freshness, `asking` its request.
`Boot` is the mount of `SessionBootstrap`, `Land` what a route change unmounts
(which cancels the query's request), `Unauthorized` the 401 handler, which looks
at the client's present token and not at the one the request was sent with.
Requests of pages and logouts (`calls`) keep the token they were sent with and
are answered whatever happens to the tab. The server holds one token per user; a
login replaces it. Left out: what is in a role (EntityPage has that), the status
field of the slice, which nothing but `isAuthenticated` reads, and other tabs.

### CursorList

A render computes the query key from props and state, moves the query's observer,
and runs the reset effect and the commit effect; `Effects` is the state they
leave, from the state of that render. User actions and answers make the last render stale,
and the next happens before the user acts again. `pages` is the array with its
holes, `depth` its length. The cache maps query keys to answers and may drop
those nobody observes. `Page` is the server's keyset page over rows that change. The cursor of
an answer is the key of its last row. An answer to a key that is not observed
any more is cancelled, as the hook's `signal` does.

### ListToolbar

`XSearch` and `XTable` are page X's request columns, sortable columns and the
filters its "Clear filters" resets; the search handlers' columns are
`SearchColumns` with `DefaultColumns`. `timers` is a set because the mutant needs
one; the code's cleanup keeps at most one. `Visible` is the early return of
`DataTable`: on an error the toolbar is gone with the table. The request is
`waiting`, answered (`rows`) or an `error`; pages of the answer are
`CursorList`'s.

### Forms, Pages, EntityPage

A row is the value of one column, chosen with the page in `Init`, which is how
nine forms of six to seven fields stay checkable; rules between columns are lost
(the entity type that empties the entity id). `Field` kinds say how a control
loads, validates and sends; `Load`, `Accepts`, `Body`, `Strip`, `Patched` and
`Posted` are the way of a value from the row to the form and back. A date is a
day with a clock, since the form cuts the one off and writes a fixed other.
`Patched` keeps what the handler takes for the old value: the row itself in
`crud.go`, but in `modules/user/handler.go` the answer of `GetByID`, which may be
a JSON copy of up to 15 minutes ago without the password hash (`Hidden`), and
which is then saved whole (`copies`, `Update`). A column of a user can so take the
value of the copy back.
`Pages` gives each page the routes of its service, the permissions of its
buttons and the statuses for which its menu offers an action.

In `EntityPage` the mutations are `calls` that are sent, answered or refused by
the server, and handled by the page's callbacks in any order, also after the user left
(`visit`). `ConfirmDelete` is `onMutate`, `Reject` is `onError` with `onSettled`,
`Succeed` is `onSuccess` and the end of the awaited `onSubmit`, which closes
whatever dialog is open. `unsure` marks rows that changed without the page being
told, until it reads the list again; `joined` marks that it was told while its
first list was on its way. TanStack Query drops a running request for a refetch
only when the query has data; without any, `invalidateQueries` joins the request
(`Joins`), whose rows may be older than the change. `touched` is history. A
handler of the server is one action, so a copy that `GetByID` fills beside another
handler's write is not in the model.

## Runs

| Run | Asks | Instance | States |
|---|---|---|---|
| `saga_replicas` | Do steps run in order and is completion earned when two engines handle everything? | 2 replicas (symmetric), 2 steps, 2 events, all Redis calls may fail, both timeouts | 752 thousand |
| `saga_single` | What does one engine guarantee after its dedupe window and a crash, and does every saga leave Redis? | 1 replica, 3 steps and events, 1 redelivery after the window, the 24 h timeout, 1 crash | 243 thousand |
| `saga_sweep_panic` | Violation: the sweeper takes the engine down | 1 replica, 1 crash | |
| `violation_officers` | Is the automatic action unique, known to the saga, never lost and always settled? | 1 replica, 1 resolution, 1 manual action, 1 redelivery, timeout | 236 thousand |
| `compliance_checks` | Is a failed check undone, with a status that was there, and a waiting one evaluated? | 1 replica, 1 edit, 1 alert, 1 manual check, 1 redelivery | 559 thousand |
| `in_process` | Does the in-process lock behave as the Redis lock, and what do late results do to the breaker? | 2 clients, 3 tokens; 4 callers, threshold 3 | 9 thousand |
| `outbox_safety` | Is only what a client took retired, and every dead letter earned? How often do batches overlap and rows repeat? Is the promise kept? | 2 replicas (symmetric), 1 row, every connection may fail, 1 database error, 1 overrun, 1 crash | 1.5 million |
| `outbox_liveness` | Is every row retired, with a poison row ahead? | 2 replicas, one with a failing connection, 2 rows, batch of 1, first row cannot be decrypted, 1 crash | 208 thousand |
| `cursor_list` | Can renders, answers and clicks mix up the page stack, or leave the list waiting? | 2 filters, 2 rows, pages of 1, 2 pages, 1 row change, 1 eviction | 101 thousand |
| `session` | Do the copies of the token agree, is signing out final, does the loader end? | 2 users, 3 tokens, 1 call in flight, 1 reload | 328 thousand |
| `list_toolbar` | Does the request say what the toolbar says, and does the server know its columns? | all 11 pages, 2 words, 4 edits | 64 thousand |
| `entity_page` | Does the row become what was entered, and the list what the server has? | all 10 pages, 25 columns of them, 2 rows, 2 calls, 2 visits, 1 write of others | 439 thousand |

`saga_sweep_panic` expects a violation, the others none.

The properties:

* `TypeOK`, `VTypeOK`, `CTypeOK`: types, among them that
  `CurrentStep <= len(Steps)` and that a column of a row holds what it can store. Those of `InProcess`, `ApiSession`, `CursorList`
  and `ListToolbar` (`ToolbarTypeOK`) are proved and no run repeats them.
* `StepOrder`, `CompletionEarned`: no step body runs before the one in front of
  it has succeeded and only sagas that ran all count as completed, although two
  handlers may continue the same saga from the same Redis state, a failed SET
  leaves Redis behind, and a sweeper may fail it meanwhile.
* `RunsOncePerLife`: a step body runs at most once per started saga, and once
  more per crash, until an engine panics (its other handlers then die uncounted).
  For one replica and one event per step: two replicas may both run a step that
  has been persisted once.
* `EveryLifeEnds`: completion, failure or the sweeper removes every key, unless
  a panic took the engine down, or a crash inside `fail` left a failed key, which only
  Redis's seven days remove (`FailedGone`).
* `OneAutomaticAction`, `NoOrphanAction`, `AutoActionSettles`: of the corrective
  actions a saga creates at most one is live; an open one is always known to the saga, a handler or a
  compensator; and it is closed or rolled back in the end. The last two are for
  sagas without redeliveries, crashes, panics, failed compensators and actions
  of officers' own, which the definition `Undisturbed` lists.
* `KnowsItsAction`: every copy of the saga past `detect`, in Redis or in a handler,
  names a corrective action that was created: its compensator has something to
  find.
* `AllOrNothing`: when all is quiet and no officer interfered, a failed check
  has left the row's first status and a completed one its verdict.
  `EvaluatedBeforeAlert`: while the saga waits for its alert the row shows the
  verdict. `RestoresWhatWas`: whatever copy of the saga a compensator runs from, the
  status it would write back is one that the row once had.
* `ImplementsDistLock`, `LockIsSafe`: releases by token never free another
  owner's lock.
* `ClosedBelowThreshold`, `OpenUntilCooled`: the breaker's two promises when
  results arrive late.
* `HandedOver`, `DeadLetterEarned`, `ImplementsDelivery`: an event is retired only
  after a bus client took it or `MaxAttempts` deliveries failed, and only what a client
  took is delivered. That it arrives is not promised (`AtLeastOnce` below).
* `OneDispatcher`, `PublishedPerCause`: overlapping batches are paid for by
  overruns, repeated publications by overruns, crashes and database errors, one each.
* `EventuallyRetired`: every queued row is published or dead-lettered.
* `OneFilter`, `OwnSlot`: the page stack holds answers for the filters on screen
  only, each at the index it was asked for, although a change of filters renders
  once with the old stack and cached answers are committed in the same pass as the
  reset. `EveryLoadEnds`: no order of answers, cancellations and effects leaves
  the list waiting with nothing on its way.
* `OneToken`: client and store hold the same token, it is the stored one, and the
  console is not on screen without it. `SignOutIsFinal`: no late answer, cached
  session, reload or later login brings back a session the user signed out of.
  `LoaderEnds`: the console never stays on its loader.
* `SearchAccepted`: no request names a column its handler refuses.
  `ClearIsComplete`: once settled, a cleared list is unfiltered, also when a
  timer was running. `TextIsCurrent`, `ListSettles`: the debounced text is never
  an old one, and a pausing user sees the list for what is in the box.
* `EnteredSticks`: what the user entered is what the row then shows in the form,
  through trimming, dates, dropped empty strings and the partial update.
  `FreshForm`: an opened form shows its row or nothing, never earlier input.
  `ListConverges`: once all calls are answered the list shows the server's rows,
  through optimistic deletes, rollbacks, cancelled refetches and remounts, but for
  what the page was not told (`unsure`) or told during its first load (`joined`).
  `OnlyGranted`: no request is sent that the role may not make.

### Bounds

Two replicas are where every race of this code starts: nothing in it counts
replicas, and a third would only repeat the role of one of two. Two steps
separate "first" and "later" steps; three (`saga_single`) add a middle one. One
saga per run: sagas of different entities share nothing but the sweeper's
sequential loop. The redeliveries and one crash allow a repetition before, in and
after a life of the saga. A third redelivery or a second crash would begin a second
life that meets nothing the first did not leave. The counters saturate at `MaxCount`, the largest value
the run's properties distinguish. One row in `outbox_safety` is enough for
overlapping dispatchers to meet on it; two rows with a batch of one put a
poison row ahead of a good one. `MaxAttempts = 2` (25 in the code) gives one
failure that is not the last; `MaxPublished` is above what the causes of the run allow. Threshold 3 (5 in the code) and four callers let more failures arrive
late than the threshold counts.

Two filters and two pages are the smallest list with somewhere to go from and
come back to; pages of one row let one change of the rows move a page's boundary. One reload, one call in
flight and three tokens let one user sign in twice, or two users once and one of
them again, with an answer to the first session still out. Four edits let the
user enter two things, clear them and start again. `MCEntityPage` takes a kind of
column on one page, since columns of a kind go through the same operators; the
status, whose choices and actions differ, on every page with row actions; and a
role that lacks one permission on a cheap column of every page. Two calls, two
visits and a write of another user are explored on the alerts page, which has no
form, and two calls on a page with one: the list's code is the same on all.

Deadlock is not checked where the bounds let the modelled world stop: when
events, calls or edits are used up nobody need act again. `session`,
`cursor_list` and `in_process` never stop and are checked for deadlock. The proofs cover every value for the safety properties
named below.

### Fairness

Weak fairness of each running goroutine's next access, which the Go scheduler
and the request timeouts of the clients give. Weak fairness of the sweep and
of time passing: the sweeper's ticker fires in at least one replica. In
`Outbox`, each dispatcher's cycle (its ticker) and the cooldown of its breaker.
Publishing, delivery, crashes, evictions, officers and the state of the bus are
never forced. `EventuallyRetired` needs no working bus, since failures are
counted: a row on a dead bus ends as a dead letter.

In the console, React renders what is due (`Render`, `Boot`), a timer that was
set fires (`Settle`), and a request is answered or fails, which the browser's own
timeout gives. The user is never forced to do anything.

### Findings

One disagreement of code and comment is a run of its own, `saga_sweep_panic`. A
crash (or a failing DEL) after the last persist leaves an active key with
`CurrentStep = len(Steps)`. The next sweep calls `fail` with that index and
`def.Steps[i]` panics, in every replica, at every sweep until the key expires.

Other definitions under "What comments of the code claim and the code does not
keep" state further claims that TLC refutes with the same modules; no run lists
them: `OneReaper` (two sweepers fail the same saga), `StartedOnce` (a start
event after the window), `FailedGone` (crash inside `fail`), `ClosedWhenCompleted`
(the resolution closes an officer's action instead of the saga's),
`OnlyOwnRolledBack` (`detect` adopts an officer's action and the compensator
deletes it), `UpdateEvaluated` (an edit while the saga waits), `ExemptUntouched`
(a row archived between load and write), `SingleTrial` (half-open admits every
caller), `NoPayloadPanic` (two events of one entity: the second handler loads the
nil payload of the claim and assigns into it), `AlertDrivesStep` (an alert handled
before `evaluate` is persisted is lost), `EndsOncePerLife` (the sweeper fails a
saga whose last event is being handled).

In the console: `PageFollows` (a committed page is asked for again without its
cursor, so page two is replaced by page one), `StackIsDense` (a cached answer
committed above an emptied stack), `OwnIdentity` (the `["me"]` data of a session
that ended by 401 greet the next user), `OwnUnauthorized` (a late 401 of an old
session ends the new one), `RetryMayHelp` (a half typed id makes the search fail,
and the toolbar to correct it in is gone), `OwnDialog` (a save that ends closes
another row's dialog), `ClearSticks` (an emptied text is dropped from the body and
the old one stays).

And between server and clients: `AtLeastOnce` in `Outbox` ("re-delivering until acknowledged",
`B/outbox/outbox.go:4`: an event in the buffer of a client that closes or dies is
marked published and lost), `BlankKeepsPassword` in `EntityPage` ("Leave blank to keep the
current password.", `F/features/users/components/UserFormModal.tsx:114`: the
second edit within the cache's 15 minutes saves an empty hash), `SavedIsShown` in
`EntityPage` (a row created while the page's first list was on its way is not
in the list, and nothing asks for it again).

## Proofs

| Theorem | States |
|---|---|
| `SagaEngineProofs!TypeCorrect`, `StepsInOrder`, `CompletionIsEarned` | `Spec => []TypeOK`, `[]StepOrder`, `[]CompletionEarned` |
| `SagaEngineProofs!NothingUncaused` | no handler, sweep or key without a published event |
| `SagaEngineProofs!OncePerLife` | `Spec => []RunsOncePerLife`, given one replica, one event per step, SET and DEL that succeed |
| `ViolationSagaProofs!ViolationTypes`, `ActionIsKnown` | `VSpec => []VTypeOK`, `[]KnowsItsAction` |
| `ViolationSagaProofs!OneAction` | `VSpec => []OneAutomaticAction`, given one replica |
| `ComplianceSagaProofs!ComplianceTypes`, `RestoredWasThere` | `CSpec => []CTypeOK`, `[]RestoresWhatWas` |
| `OutboxProofs!TypeCorrect`, `RetiredWasAccepted`, `DeadLettersAreEarned` | `Spec => []TypeOK`, `[]HandedOver`, `[]DeadLetterEarned` |
| `OutboxProofs!OneDispatcherAtATime` | `Spec => []OneDispatcher` |
| `OutboxProofs!PublicationsArePaidFor` | `Spec => []PublishedPerCause` |
| `OutboxProofs!OutboxImplementsDelivery` | `Spec => Promise!Spec` |
| `OutboxProofs!LateReleaseIsSafe` | `Spec => LockIsSafe` |
| `InProcessProofs!MemoryLockRefines` | `Spec => Redis!Spec` |
| `InProcessProofs!ClosedIsHealthy`, `OpenIsPatient` | `CallsSpec => []ClosedBelowThreshold`, `CallsSpec => OpenUntilCooled` |
| `InProcessProofs!ReplicaTypes`, `ReplicaLockRefines`, `ReplicaBreaker` | the same of `InProcess`, beside each other |
| `ApiSessionProofs!SessionTypes`, `TokensAgree`, `SignedOutStays` | `Spec => []TypeOK`, `[]OneToken`, `[]SignOutIsFinal` |
| `ListProofs!ListTypes`, `StackHasOneFilter`, `PagesKeepTheirSlot` | `Spec => []TypeOK`, `[]OneFilter`, `[]OwnSlot` |
| `ListProofs!ToolbarTypes`, `NoSearchRefused`, `ClearClearsAll`, `SearchesTheBox` | `ToolbarSpec => []ToolbarTypeOK`, `[]SearchAccepted`, `[]ClearIsComplete`, `TextIsCurrent` |
| `EntityPageProofs!PageTypes`, `ListTellsTheTruth`, `FormsOpenFresh` | `Spec => []TypeOK`, `[]ListConverges`, `[]FreshForm` |
| `EntityPageProofs!NothingForbiddenIsSent`, `WhatIsEnteredSticks` | `Spec => []OnlyGranted`, `EnteredSticks` |

They hold for every number of sagas, steps, events, rows, clients and tokens and
every bound, under the modules' named assumptions, which only give types, and
the conditions in the table. Those conditions are hypotheses of the theorems
because the code does not keep the property without them; TLC finds each
counterexample in a small instance:

| Property | fails with |
|---|---|
| `RunsOncePerLife` | a second replica (both load the same persisted step); two events for one step; a failing SET (the step is loaded again); a failing DEL (the completed saga is still there for the next event) |
| `OneAutomaticAction` | a second replica and one crash: the state a crash inside `fail` leaves is loaded by both, which both run `detect` |

*Saga engine.* `StepOrder` is about history, and a handler runs the step its
local copy says. `IInv` adds that neither a persisted nor a local `CurrentStep`
is ahead of the bodies that have run (`StateOK`), and what each `pc` knows:
at `act` the step exists, at `persist` its body has run, at `finish` all have.
A copy may be arbitrarily old, so nothing is said of the order between copies,
and nothing needs to be: `runs` only grows. The proof has one
case per action. `Woken` and `Caused` add the causes: a running handler has
recorded its event in the dedupe map, and where there is a key or a sweep an
event of that saga was published. All later saga proofs use both.

*Once per life.* A count is not inductive without what may still happen. For
each saga and step, `Due` is the set of steps from which the body can
still be reached without another start: the step of the key, if an event that
triggers it may yet be read, the steps handlers are at, and the step a failing
job would put back. `Budget` says `runs + |Due| <= started + crashes`. An
action moves an element of `Due`, turns it into a run, or brings a new one
together with a start or a crash.

*What copies carry.* A saga's payload is written by one body and read by
another handler's, after claims, persists, failing SETs, sweeps and reloads. The lemmas
at the end of `SagaEngineProofs` follow it through all of them: if what a body
may leave at all and what it leaves when it succeeds are two sets (`Carriers`),
then every copy's payload is in the one, and in the other too once the copy is past its first
step (`StoreCarries`, `JobsCarry`), for any replicas and faults. What is left for a saga is one
obligation per body.

*Violation saga.* `ActionIsKnown` takes the created actions for the second set
(`KnowInv`): `detect` leaves one it found or inserted, nothing else changes it, and
rows are never freed again (`KnownGrows`). `OneAction`: whoever has found no live
row (`held = NotFound`) is the only one who may insert (`OneInv`).

*Compliance saga.* `RestoredWasThere` takes the payloads whose recorded status
the row has had for both sets (`CarryInv`). `evaluate` records the status of the row that it holds, not
of the row that is there by then, so the invariant says of every held row that its status
was once the table's (`HadOK`). Since the row's history only grows, an edit,
a check or another handler in between does not disturb it.

*Outbox.* Dispatchers work on stale copies and may overlap, so the lock is no
part of the argument for delivery. `IInv` says that the attempts of the table and of every
copy are at most the failed deliveries, that a row about to be marked has been
accepted by a bus client, that a row about to be buried has failed `MaxAttempts`
times, and that buffers and broker hold only what was accepted (`BusOK`). The
refinement of `Delivery` follows from the same invariant: each action is `Queue`,
`Send`, `Deliver`, `Fail`, `Retire` or a stutter.

The counts need the lock. `LockInv`: a dispatcher at work has a token that no
other has, and those whose token is not the key's (`Late`) are at most
as many as the overruns. `PublishedPerCause` is an account
(`Account`): publications made, plus one that `Enqueue` may make, plus one the
lock's owner of the day may make, plus one for every dispatcher that still
has the row ahead of it, are at most two plus crashes, overruns and database errors.

*Lock.* The mapping makes the abstract key free at the moment of expiry; the
in-process `Release` of an expired holder then maps to a `Release` that finds
another token or none.

*Breaker.* `CallsTypeOK` and `ClosedBelowThreshold` together are inductive. `InProcess` implements both
specifications step by step, so its theorems follow from theirs.

*Toolbar.* `ClearIsComplete` needs two facts: a running timer is for the text in
the box (`TimersCurrent`), and after clearing nothing but the debounced text is
left until something is entered (`StaysCleared`). That every page's columns are known is
one lemma over the eleven pages.

*Session.* `SignOutIsFinal` alone is not inductive: a token could come back from
any place that still holds it. `Held` says that client, localStorage, the query's
request and the cached data hold tokens that were issued and not ended, or none;
a login takes an unissued one; `Mounted` gives that a sign-out always ends a token that
the tab was really using.

*List.* The commit effect takes what the cache holds under the key of its render;
`CacheInv` says such an answer names the filters and index of that key, and
`StackInv` that the stack agrees with the filters the reset effect saw last. The
type invariant needs that a page with a successor has a last row, which is a
well-foundedness argument about the keys (`SmallestKey`).

*Entity pages.* The run explores a selection of pages and columns; the theorems are
about every column of all ten pages, every number of rows, mutations and visits. That a page
is put together well (`PagesAreGood`: its columns are of a known kind, each row
action's result is a status the column holds, each operation's control asks for
the endpoint it calls) is checked page by page. What a form does to a value is one
lemma per direction, by the column's kind: `EditArrives` and `NewArrives` say that what a
form accepted is, after the body and the server's handler, a value the column
holds, and on an edit the one the user entered. `Sound`, the types with
two additions, is then inductive: a call that was sent carries such a body
(`Arrives`), and slots not yet used are empty (`Unsent`). Without the first, the server might
store what the column does not hold. The cached copies of users hold what JSON
shows of a value, which the column holds too: a password hash may be empty. `OnlyGranted` needs that an open dialog
was offered (`Offered`), because permissions are asked for on opening and not on submit. `Convergent` says that while
the page is shown and its first load was not joined and nobody changed rows behind
its back the list is right, or is being read, or is owed a refetch by
a call that is not settled (`Owed`); a rollback's older snapshot is put
back only together with a refetch. `FreshForm` is inductive by itself.
The assumptions say that the special values are neither
texts nor stamps nor options, and that markers (`NoRows`, `NoCall`, ...) are no lists
or calls.

Only model-checked are the liveness properties (`EveryLifeEnds`,
`AutoActionSettles`, `EventuallyRetired`, `EveryLoadEnds`, `LoaderEnds`,
`ListSettles`), which are out of the prover's reach, and three safety properties,
`NoOrphanAction`, `AllOrNothing` and `EvaluatedBeforeAlert`. These three are for one
replica whose Redis calls succeed, and say nothing of the deployed three: they
fail with a second replica; `NoOrphanAction` also with a failing SET or a key that expires while
its action is open, `EvaluatedBeforeAlert` with a crash inside a sweep,
`AllOrNothing` with a crash between evaluation and persist or a sweep beside the
handler. What does hold in every deployment is `KnowsItsAction` and
`RestoresWhatWas`.

## Not modelled

The step bodies of AuditExecution and CorrectiveActionFlow (in `SagaEngine` as
open bodies), the bus's own goroutines (external: any replica may get an event
once, again or never), and the components `PROJECT.json` lists as
`not_modelled`. Configuration, migrations, metrics, routing, swagger, analytics,
the landing page, dashboards and the read-only pages are start-up code, pure I/O or
rendering. The picker of linked records and the toasts have state, timers and an
order of events of their own, but no model yet. Forms are modelled column by column,
so what a save does to several columns at once is not.

## Plan

In this order; the most contended state first.

1. `AuditSaga` and `CorrectiveActionSaga`: the two open bodies, as refinements
   of `SagaEngine`.
2. `RepositoryCache`: cache-aside reads beside writes (`B/repository/crud.go`)
   with the abstract specification "a read returns a value that was current
   within the TTL"; `UserAccounts` and `DeadlineJob` as its clients.
3. `AuthSession`: login, logout, renewal, password change, lockout over the
   cache; abstract specification: a revoked session is never valid again.
4. `RoleCache` and `PermissionSeed`: `B/rbac`, `B/permissions` with two replicas.
5. `KeyRotation`: key ring and `MigrateColumn` against concurrent writes;
   abstract specification: no value is lost or becomes unreadable.
6. `WsHub`: registration, full channels, shutdown; deadlock and liveness.
7. `Picker`: `SearchableSelect` inside a form's dialog, with answers that move the
   highlighted item.
8. `RateLimit`, in-memory `Cache`, audit log diff and retention.

Runs will be merged where a later module subsumes an earlier question.
Theorems planned: the safety property of each module above.
