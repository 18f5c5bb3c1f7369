# LifeMerge: formal models, checks and proofs

TLA+ models of LifeMerge (a Flutter client, `Flutter/`, and a FastAPI backend,
`Backend/`), TLC configurations that check them on small instances, and TLAPS
proofs of the most important results. Paths below are relative to the
repository root.

## 1. The system

### 1.1 Inventory

| Component | State | Operations | Hard behaviour | What makes it correct |
|---|---|---|---|---|
| **Offline calendar** (`Flutter/lib/presentation/blocs/calendar`, `.../remote/calendar_api_service.dart`) | events shown, queue of pending operations, offline flag, retry timer; remote events | add / update / delete, toggle offline, refresh, flush, retry timer | flushes overlap at every `await`; queued operations keep local ids; write-back overwrites the queue | queued edits are not lost, sent once, and applied in order; the queue drains |
| **Flutter tasks** (`blocs/tasks`, `tasks_repository_impl.dart`, `tasks_cache.dart`) | list shown, cached list, remote list | refresh, create, update, remove with rollback | optimistic removal rolled back to a stale list; cache rewritten twice per request, across awaits | screen, cache and server agree |
| **Planner service** (`Backend/app/services/planner_service.py`, `planner_orchestration.py`, `planner/components.py`) | generated plans in process memory, tasks in the database, idempotency keys | run, replan, get, decide | plan objects are replaced while another request holds them; memory is not rolled back with the database; keys of run and replan are never committed | an accepted plan has its tasks; a decision is applied once; histories are complete |
| **Planner algorithms** (`planner/components.py`, `ai_service/main.py`) | none (pure) | windows, scheduling, conflicts, breaks | day offsets against weekdays, interval subtraction, splitting a window | slots lie in the schedule, do not overlap; no task is dropped or refused without need |
| **Batch sync** (`Backend/app/services/batch_sync_service.py`, `api/v1/batch_sync.py`) | tasks with `updated_at` and `deleted` | batch of upserts and deletes, last write wins | batches arrive late, repeated and concurrently | the newest write wins in any order of arrival |
| **Sync queue worker** (`Backend/app/services/background_tasks.py`) | rows with status, attempts, lock | poll and process a batch | two workers read the same rows; a failing operation takes the pass with it | each row processed once at a time, eventually done |
| **Digests and push router** (`background_tasks.py`, `push_service.py`) | digest schedules, devices | dispatch, route over providers, mark | sent before committed; overlapping passes; lost answers of a provider | once a period, on every device, and always in the end |
| **Auth tokens** (`Backend/app/services/auth_service.py`, `repositories/refresh_tokens_repo.py`, `core/security.py`) | refresh token rows per user and device | sign up, login, refresh (rotation), logout | concurrent refreshes; tokens minted in the same second are identical | a token is exchanged once; a rotated token is dead |
| **Idempotency** (`Backend/app/api/idempotency.py`, `middleware/idempotency_snapshot.py`) | claimed keys, stored responses | claim with the handler's transaction; replay | duplicates while the first is in flight; the middleware runs before authentication | a repeated request takes effect once |
| **Tasks and subtasks API** (`api/v1/tasks.py`, `subtasks.py`, `application/services`, `app/repositories/*`) | rows | list by cursor, create, patch with `updated_at` check, delete | check and write are separate statements; rows move between pages | no lost update; a walk shows every row that does not move, once |
| **Productivity CRUD, AI rules** (`api/v1/productivity.py`, `ai_rules.py`) | goals, events, inbox, finance, rules | create, patch, convert, delete, upsert, lists with `updated_from` | loaded objects are written back later; first insert twice; `updated_at` older than its commit | patches do not undo each other; a client that pulls changes has them all |
| **Subscription, feature flags** (`services/subscription_service.py`, `feature_flags.py`) | columns of the user | activate a trial, status | the activation is not stored | a trial that is over stays over |
| **AI service** (`ai_service/main.py`) | none | plan, replan | a second copy of the algorithms | its plans keep what the caller's do |
| **Client session** (`auth_repository_impl.dart`, `interceptors.dart`, `blocs/auth`) | stored tokens, the refresh in flight | sign up, login, logout, authorised request with refresh-and-retry | many requests fail with 401 at once; logout races a refresh | (not modelled, section 6) |
| **Flutter inbox, SyncService, rate limit, planner use cases** | | | | (not modelled, section 6) |

Not modelled either: Flutter pages, widgets, theme, localisation and routing;
Alembic migrations; mappers; configuration and logging; the aiosqlite shim used
by the tests.

### 1.2 How the parts meet

The Flutter client keeps its own optimistic state; its calendar talks to an
in-memory stand-in, its task list to the backend. Every mutating endpoint of
tasks, subtasks and planner claims an idempotency key in its own database
transaction, calls a service, and commits; the endpoints of `productivity.py`
change objects of the ORM and commit. The planner keeps generated plans in a
dictionary of the process; its plans come from the AI service or, when that
does not answer, from its own copy of the same algorithm, and accepting one
writes the tasks table. Batch sync is called from its endpoint and from the
background worker, which replays stored operations.

In the models they meet at the tables: what batch sync and the planner do to
tasks is `OthersWrite` in `TasksApi`, a task batch sync deletes is `DeleteTask`
in `PlannerService`, what batch sync does with an operation is its `outcome` in
`SyncQueue`, a plan is a sequence of slots in `PlannerService` and is worked out
in `PlannerScheduling`, the backend is `Serve` in `TasksController`. The claim of
an idempotency key is written the same way in both modules that have it.

### 1.3 State of the code at this commit

Some parts cannot do what they are there for. The models follow the code:

- `application/use_cases/apply_decision.py` is empty and `app.application.ports`
  does not exist, so `infrastructure/di_planner.py` and what imports it fail to
  import. Of `PlannerOrchestrator` HTTP therefore reaches `replan` only;
  `PlannerService` models run and decide as the orchestrator states them.
- `ai_service/main.py:480` is indented wrongly and keeps the service from
  starting. `PlannerScheduling` reads the line aligned with its neighbours.
- `SQLTaskRepository.save` calls `tasks_repo.create`, which does not exist:
  `POST /tasks` answers 500 (`PostTask` claims its key and fails), and so does a
  decision on a slot without a task (`CreateTask`).
- `api/v1/tasks.py` uses names it does not import: `DeleteTask`,
  `CreateTaskReminder` and `GetTaskReminders` fail. `NotificationTrigger` and
  `DigestSchedule` have no column `deleted`, which their lists ask for.
- `create_notification_trigger` and `create_transaction` always fail, and
  `set_budget` does unless the budget is there already; `activate_trial_plan`
  answers with a trial it does not commit.
- The `updated_at` a PATCH of a task or subtask expects is relabelled as UTC
  (`.replace(tzinfo=utc)`) and not converted: a time written with another offset
  is compared as another moment (`OverwritesTheExpected` excepts it).
- `get_by_user_id` of the AI rules looks past rows marked deleted, while
  `user_id` is unique: such a user's rules are refused every time. Nothing in
  the application marks one (`RulesRefusedOnlyAtFirst` excepts it).
- The task list of the client asks for one page of 50 and follows no cursor:
  with more tasks it shows the first page (`ScreenIsServer` excepts what a page
  left out).
- The cursor of every list is compared as a Python tuple, which leaves the
  comparison of its first members: rows that share the `updated_at` of the last
  row of a page are never shown (`WalkIsExact` excepts them as `tied`).
- The fallback generator takes `day_of_week` for the distance from
  `week_start`, the AI service for a weekday; its own conflict check does the
  latter. No generator looks at the latest hour, or at which tasks were
  rescheduled, and the detectors do: they complain of slots of their own planner
  (`ComplaintsExplained` names each case).

## 2. Plan

### 2.1 Modules

| Module | Models | Composition |
|---|---|---|
| `CalendarController` | the offline calendar | with its in-memory server |
| `TasksController` | the client's task list | with any server that lists a page and carries out or refuses each write |
| `BatchSync`, `LastWriteWins` | batch sync and the store it promises to be | `BatchSync` maps its rows to the store |
| `SyncQueue` | the worker that carries stored operations out | stands on `BatchSync` by `outcome` |
| `AuthTokens` | sign-up, login, rotation, logout | |
| `PlannerScheduling` | both planners' algorithms | `PlannerService` stands on it by its slots |
| `PlannerService` | runs, replans, decisions, keys | |
| `TasksApi` | handlers of tasks and subtasks; paging of every list | |
| `Digests` | `dispatch_digests`, push router | |
| `Productivity` | handlers of productivity, AI rules, subscription | |

Each has an `MC...` module with its small instances, and proofs in a module of
its own: `Tasks_proofs` has those of `TasksApi` and `TasksController`, the two
ends of a task's way, `BackgroundTasks_proofs` those of `SyncQueue` and
`Digests`, which run beside the requests; the others are named after their
module.

### 2.2 Runs

Each question has one run; a module's invariants and liveness share one where
the state space allows it. One violation run is kept, for the disagreement that
loses a user's data; the other disagreements are told in sections 1.3 and 4.1.

### 2.3 Theorems

Section 5: every safety property and action property that a run checks, the
refinement of `LastWriteWins` included. What is left to model checking is
liveness. No module declares a RECURSIVE operator.

## 3. What is modelled

Every action is the code between two awaits. `PROJECT.json` names, for every
definition, the lines it stands for. Operators marked "Mutant of ..." are
plausible wrong versions of the definition after them; no specification uses
them. They are the evidence that the properties can fail: with the mutant in
the place of its original, the property named in `PROJECT.json` is violated.
Where a property has an exception ("unless two flushes held it"), a history
variable records the exception, so that it says exactly when the code may do
what it should not, and the property says that it does so never else.

### 3.1 `CalendarController`

State: the fields of `CalendarState` (`events`, `pendingOperations`,
`isOffline`, `isLoading`, `errorMessage`), `retryTimer`, the suspended
activations of `_flushQueue` and `_loadEvents` (`flushes`), the requests of
`_execute...` in flight (`calls`), and the service's `remoteEvents` and `lastId`.
An event is its id, the edit that created it and the edit it shows.

Actions: `AddEvent`, `UpdateEvent`, `DeleteEvent` (queued when offline, a call
otherwise), `CallSent`, `CallFailed`, `RetryTick`, `SyncPending`,
`ToggleOfflineMode`, `Refresh`, `FlushSent`, `FlushFailed` (one awaited request
each; the last one writes the remaining list back), `Fetched`, `FetchFailed`,
`ClearError`.

Worth knowing when reading it:
- the branch `isOffline && !force` of `_flushQueue` is dead: every caller passes
  `force: true`;
- `copyWith` drops `errorMessage` unless it is given, so every transition that
  does not mention it clears it;
- the in-memory service never throws. `FailureModes` is what another
  `CalendarRepository` could do: throw before the server acted, or lose the
  answer after it did;
- `_generateId` is assumed to give a new id each time.

### 3.2 `BatchSync`, `LastWriteWins`

State: `committed` rows; per session its batch, the operations still `todo`,
its `own` uncommitted rows (which are locked), the `change` its next flush
sends, and what it reports as `applied`; the operations clients have had an
answer for. A task is its title, its deleted flag and its `updated_at`; the
other columns are written the same way. The database is external: PostgreSQL at
READ COMMITTED, as the header of the module says.

Actions: `Submit` (a batch of operations that were not answered yet),
`Select` (the SELECT of an operation, its refusals, or the change it prepares),
`Flush`, `FlushThrows`, `DeadlockAborts`, `Abort`, `Commit`.

Worth knowing:
- a handler that throws before its flush (for example at a `due_at` that JSON
  gives as text and nothing converts) ends the request as `FlushThrows` does;
- the idempotency middleware stands in front of the endpoint but never acts:
  nothing sets `request.state.user_id` before it runs. A repeated batch is
  processed again, and a repeated upsert without an id makes a second task;
- other entities than "task" are answered with "unsupported" and change nothing.

`LastWriteWins` is a store to which the writes of a batch are applied in order
and at once: a write is kept unless it is malformed or not newer, and a delete
names no fields, whatever data comes with it. `BatchSync` maps the committed rows
of client-made ids to the store (`LWW`) and claims `LWW!Spec`
(`LastWriteWinsSpec`). This says nothing about batches that overlap; that is what
the `raced` history of the overlapping run is for.

### 3.3 `SyncQueue`

State: the `queue` table; per worker the operations of its pass, the rows as it
`loaded` them, the rows it holds, those it marked `locked`, and the results it
will commit. `outcome` says what batch sync does with each payload: applies,
refuses, throws in Python, or breaks the session in the database.

Actions: `Begin` (the SELECT), `Take` (flush of the lock mark), `Run`, `Breaks`,
`Commit`, `DeadlockAborts`, `Crash`, `Tick` (time makes rows old enough again).
`locked` is only ever flushed, never committed, so it keeps no other worker
away. `scheduled` are the rows whose `scheduled_at` is still to come. The SELECT
has a LIMIT and no ORDER BY, so a pass begins with any `BatchSize` of the rows
that wait, in any order; a row that throws waits again after the retry period,
for ever, since nothing bounds `attempts`. Nothing in the repository enqueues
operations or schedules the worker: both are the environment.

### 3.4 `AuthTokens`

State: committed `refresh_tokens` rows (`issued`, `revoked`), each named by the
request that made it; per request how far it is, the `device` it names, the
`token` it presents, the rows its statement found (`seen`) and the token it
makes (`minted`). A token is a device and a second, because `iat` and `exp` are
the only claims that vary.

Actions: `BeginSignupOrLogin`, `BeginRefresh` (any token a client was ever
given), `BeginLogout`, `Lookup`, `CreateUser`, `Login`, `FindToken`, `Rotate`,
`FindDevice`, `RevokeDevice`, `Commit`, `Fail` (the request and what its session
had not committed are gone), `Tick`.

One account is modelled, with the right password. Rate limits, published events
and the stubs behind /forgot and /reset are left out, and so is the order in
which two logouts of one device lock its rows.

### 3.5 `PlannerScheduling`

State: the request (`req`: source, schedule, breaks, events, no-plan days,
tasks, completed and rescheduled tasks, edits), the `phase`, the `tasks` still
`todo`, the free `windows`, how many `block`s were cut out of them, the `slots`
and `refused` tasks, the slots as `edited`, the `conflicts` found.

Actions: `GenerateSlots` / `ServiceGenerateSlots` (sources "fallback" and
"service"), `SubtractBlock` / `ServiceSubtractBlock` once per break and event,
`SortWindows`, `ScheduleTask` / `ServiceScheduleTask` once per task in the order
of priority and due date, `EndOfTasks`, `DetectConflicts` /
`ServiceDetectConflicts`, `ValidateSlots`. The code is sequential; its loops are
steps so that no definition is recursive. The reference the algorithm is
compared with is declarative: `Admissible` says when a slot may be, and
`Openings` where one could begin.

Times are minutes from the midnight before the week, naive and aware ones not
told apart; titles and texts are left out. A week need not have seven days nor a
day 1440 minutes: the proofs hold for every `Day` and `Week`. A filler slot of
"fallback" has a fresh uuid4 for its task, so its id is that of no task
(`None`).

### 3.6 `PlannerService`

State: `store` (`_GENERATED_PLANS`) from plan requests to plan objects, the
`plans` themselves, the `live` tasks and the `keys` of decisions as committed;
per request how far it is (`pc`) and its `local` variables. A plan object is
named by the request that made it, because a replan replaces the object that
others may still hold. Its slots are told apart by their position, as the code
tells them by `slot_id`: two slots may be of one task, or of none.

Actions: `TurnAway`, `BeginRun`, `BeginReplan`, `BeginDecision`, `Enqueue`,
`Install` (the answer of the AI service, or the own generator when there is
none, without the plan, or without slots; version and status are the next one
and "ready", which is also what the repository's AI service answers,
`ai_service/main.py:187-193`), `PlanNotFound`, `AlreadyDecided`,
`Decide`, `GetTask`, `CreateTask`, `UpdateTask`, `Commit`, `Duplicate`; faults:
`Restart` (memory is gone, keys and tasks stay), `CommitFails`,
`DeadlockAborts`, `DeleteTask`. Only decisions commit, so only their keys last.
Edits of slots are in `PlannerScheduling`; `restore_version`, which nothing
calls, and the reads are left out.

### 3.7 `TasksApi`

State: one `table` at a time with its `rows`, the `parent` of the subtasks,
`keys`, requests with `pc` and `local`, the `cursor` and state of a client's
`walk`. Actions: `BeginPatch`, `BeginCreate`, `BeginPost`, `DeleteTask`; `Claim`
and `Duplicate` of the key; `PatchTask`, `PatchSubtask` (SELECT and comparison),
`UpdateTask`, `UpdateSubtask` (the UPDATE, which waits for the row),
`CommitPatch`; `CreateForTask`, `CreateSubtask`, `CommitCreate`; `PostTask`,
`CreateTaskReminder`; a page of the walk (`GetTasks`, `GetSubtasks`,
`GetTaskReminders`, `ListGoals`, ... `ListTriggers`); `OthersWrite`,
`DeleteParent`. Every repository has its own list, because they differ in what
they filter. The expectation of a patch is a time and the `offset` it is written
with, or missing (`expected`, `Expected`). `OthersWrite` is what batch sync and
planner decisions do to a row: it may bring any `updated_at`, since a batch
takes it from its client. `lowered` records the rows that a write gave an older
`updated_at`: a walk may meet such a row again further down. A cursor that
cannot be parsed is ignored by the code; the walk sends back what it was given.

### 3.8 `Digests`

State: `nextRun` of the schedules as committed, `now`; per pass the schedules
selected, marked and flushed (locked), and the `routes` each device still has.
Actions: `DispatchDigests` (the SELECT), `SendDigest`, `LoadDevices` (its query
flushes the marks, or must `Wait` for a row), `Route` (one platform of one
device: skipped, delivered or failed; FCM's answer may be lost), `Mark`,
`CommitPass`, `PassFails`, `Deadlocked`, `ClockTick`. Nothing in the repository schedules
passes or writes `digest_schedules`: both are the environment.

### 3.9 `Productivity`

State: one `table` at a time with its `rows` (two columns that matter,
`updated_at`, live or deleted), the `user`, requests with what they loaded, will
write and have written, the `copy` of a client that pulls. Actions: one `Begin`
per kind of request, the handlers (`UpdateGoal`, `UpdateEvent`, `CreateEvent`,
`ConvertInboxNote`, `DeleteTransaction`, `UpsertAiRules`, ...), `Flush` (the
UPDATE or INSERT, which waits for locks and meets constraints), `Commit`,
`ActivateTrialPlan`, `SetBudget` (an update of the budget that is
there, a free user's cut to `FreeLimit`; a failure otherwise), `CreateNotificationTrigger`, `Pull`,
`Tick`. `FoundRules` is the rules row as its lookup finds it: a live one. A
`Pull` asks for what was updated since the client's own clock said it asked
last; that clock may be behind the server's and is assumed not to be ahead. It
is answered with live rows, so the client never learns of a deletion. The unit
of work of the ORM is external: at the flush it writes the columns whose values
differ from the loaded ones.

### 3.10 `TasksController`

State: `items`, `isLoading`, the `cache`, the requests in flight (`calls`: how
far, the task, the list a fetch was answered or a removal will restore), the
server's tasks (`remote`). Actions: `Refresh`, `Create`, `SendUpdate`, `Delete`
(which takes the task off screen and cache first); `Serve`; `AnswerCall` (the
repository's write of the cache) and `Fetched` / `Merge` (the controller's
part), two steps because the first awaits its write; `Deleted`; `Fail` and
`Undelete` (the catch blocks); `Restart` (the app shows the cache and fetches),
`OthersChange`. A request may be refused, fail before the server acts, or lose
its answer. A fetch is answered with one page: every task if there are no more
than `PageSize` (50 in the code), else any `PageSize` of them (`Pages`). What is
left out is `LeftOut`, and `unsure` remembers it until a fetch lists it. At this
commit the server refuses every create and delete (section 1.3); the model lets it
carry out or refuse any write, so the results hold with either server.

## 4. What is checked

| Run | Instance | States | What it shows |
|---|---|---|---|
| `calendar` | 2 overlapping flushes, 2 edits, 2 failures of either kind, fair | 631,550 | the timer runs exactly while something is queued; what entered the queue outside a flush is queued or carried out, and delivered in the end; an event exists twice only after overlapping flushes or a lost answer; the screen is explained; a deleted event stays deleted |
| `calendar_data_loss` | 2 flushes, 2 edits | - | violation: an edit queued while a flush is suspended is dropped by its write-back |
| `tasks_screen` | 3 overlapping requests out of 4, 1 fault (failure, lost answer, restart, write of another device), pages of 2 and up to 3 tasks | 3,313,242 | screen, cache and server agree on every task about which no requests crossed and which the last page did not leave out |
| `batch_overlapping` | 2 sessions, batches of up to 2 out of 5 operations on 2 tasks, fair | 207,694 | without a race the newest write shows and nothing goes back; every batch ends |
| `batch_one_at_a_time` | 1 session, batches of up to 2 out of 10 operations, odd ones included (a delete with data, no id, another user's row), 1 failure | 338,144 | every commit is a step of `LastWriteWins` |
| `queue_passes` | 2 workers, 3 operations of every kind, one of them for later, 2 rows a pass, 1 crash, fair | 390,775 | no row stays locked; attempts are counted and fine operations run once unless selected together; they get done unless a row breaks the session, as many rows throw as a pass selects, or passes deadlock for ever |
| `auth_tokens` | 2 sign-ups for one e-mail, 1 login, 2 refreshes, 1 logout, 2 devices, 1 lost request, 3 seconds | 1,613,733 | a token is exchanged once; a logout revokes every token its device had when its UPDATE began; a rotation is whole |
| `planner_scheduling` | both planners, 4 schedules, 3 lists of breaks, 3 of events, 4 of tasks, weeks from Monday and Saturday | 96,768 | slots lie in admissible time and are disjoint; every task is placed or refused, and refused only if there was no room; the planner's own detectors complain of its slots only where that is explained; no edit leaves a slot empty |
| `planner_service` | 1 run, 2 replans, 2 decisions with equal or different keys, plans with two slots of one task among them, 1 fault, fair | 1,944,722 | an accepted plan is in the tasks; one decision per key; histories are complete, versions differ; a decided plan stays decided; every request ends |
| `tasks_api` | 2 requests with equal or different keys on 3 rows of each table, offsets of 0 and 1, 1 write of others with any time, pages of 1 and 2 | 6,781,912 | a patch replaces a live row, and the version its client has seen if it named one in UTC; one request per key; a walk misses no row, and shows one twice only if a write has given it an older `updated_at` |
| `digests` | 2 workers, a daily and a weekly schedule, 3 devices of every platform, 5 half days, 1 fault, fair | 1,388,643 | once a period; every usable device, none twice; what is due is sent |
| `productivity` | 2 requests on 2 rows of each table, every combination of columns, a deleted rules row, 3 moments | 685,134 | an event ends after it starts; patches keep to their columns; rules are refused only at first or over a deleted row; a client's copy is current |

The type invariants of `CalendarController`, `BatchSync`, `SyncQueue` and
`AuthTokens` are checked by these runs. The other modules state theirs, and the
runs are left to what the code could get wrong. All are theorems. The inductive invariants of section 5 were
model-checked on these instances before they were proved.

### 4.1 What the violation means, and other disagreements

- **Lost edits** (`calendar_data_loss`). `_flushQueue` computes `remaining` from
  the queue it saw before its first await. An edit enqueued meanwhile is in
  neither list. `NoQuietLoss` says that this is the only way to lose one.
- **Duplicates.** Nothing keeps a second flush from starting; both send the same
  create, and the service gives each a new id. `CreatedTwiceOnlyIfContended`
  says that this, and a lost answer, are the only ways. A queued update that
  still has the local id of its event is taken over as a second event; a queued
  delete never reaches the one the server has. `ScreenExplained` allows for it.
- **Last write wins** holds for batches that do not overlap
  (`LastWriteWinsSpec`) and, per task, for those that did not race
  (`NewestApplied`). The stamp is compared with the loaded row and not in the
  UPDATE, so of racing batches the older may win. A delete leaves no trace when
  its task is not there yet, so an older create that comes later stands.
- **The queue stops** at an operation whose statement fails in the database: the
  session is unusable, the handler that records the error throws as well, and
  the pass is rolled back with all its attempts, every time.
  It may also starve: rows that throw are retried for ever, and the SELECT has
  a LIMIT without an ORDER BY, so as many of them as a pass selects can keep the
  others out. `FineOperationsGetDone` excepts both, and says that fewer rows
  that throw keep nothing out.
- **Token reuse.** Two tokens of one device made in one second are the same
  text. The test `Backend/tests/test_auth.py:77` passes or fails with the clock;
  `ExchangedOnce` excepts tokens made twice.
- **Optimistic locking** of tasks compares before the UPDATE and not in it: two
  patches with the same expectation may both pass (`raced` in
  `OverwritesTheExpected`). A patch without an expectation replaces what is
  there, one written with an offset may replace another version. The same holds
  for the start and end of an event.
- **Accepting** counts slots: a client that accepts as many slots of an old
  version as the new one has makes the plan "accepted"
  (`AcceptedIsApplied` excepts it), as does a commit that fails after the plan
  in memory was marked.
- **Pulling** with `updated_from` misses a change whose `updated_at` was taken
  before the pull and committed after it (`unseen` in `CopyIsCurrent`). No
  answer carries the server's time, so a client has its own clock to go by, and
  one that is ahead would miss more; nor does any answer carry deletions.
- **Detectors and generators** disagree about the latest hour, rescheduled
  tasks, and the days of a week that does not begin on a Monday
  (`ComplaintsExplained`).

### 4.2 Bounds, and why they are enough

Two flushes, sessions, workers, refreshes or requests are what the interleavings
need: the code relates an actor to "some other one" and never counts them. The
task list has three, for one request that changes a task while another that
will restore it is crossed by a fetch. The planner has five, because a decision
must meet another and a replan that meets another. Two edits make a create and
a later edit of the same event. Two operations per batch let two batches lock
two tasks in opposite order; so do two schedules per pass. `MaxNow = 2`,
`RefreshTTL = 2` and `AccessTTL = 1` let a token be rotated in its own second,
in a later one, and expire. A digest "week" is two days, so that a period of one
and one of several both pass within `MaxNow`. Three rows and pages of one and two
let a walk have several pages and a last one that is full; `MaxNow = 3`
lets the two requests, or one and another writer, each move a row that is there
at the start. Up to three tasks on a server that lists two let a page leave one
out. `BatchSize = 2` of three operations lets a pass leave one out as well. The
times of `PlannerScheduling` are real minutes: entries that touch, overlap or are
missing, breaks at and across the edges of windows, an event over two days,
tasks that fit exactly, not at all or only before a due date.

`DevicesOf` fixes the device of the requests for which the choice changes
nothing. `MaxFailures`, `MaxCrashes`, `MaxFaults` and `MaxWrites` bound how much
goes wrong, not when. `MaxCount` bounds the counting of attempts and executions,
not the attempts: a payload that throws is selected and tried for ever, as in
the code (`Docs/` speaks of five attempts), while its counters stay at the bound.

Only `tasks_api` uses symmetry, of its two requests: its choices of keys are
closed under swapping them, and it checks no liveness. `CHECK_DEADLOCK FALSE` is
set where the system really may stop: when every edit was answered, every
request has ended, every plan was examined, or the clock's bound is reached.

### 4.3 Fairness

- Calendar: the event loop runs what is ready. A periodic timer ticks
  (`WF RetryTick`), and every request is answered or throws (`WF` on the pair,
  so nothing is assumed about which). Failures are bounded, which is to say
  that the connection comes back in the end.
- Batch sync: a session that can go on does (`WF Step`). PostgreSQL grants a row
  lock in the order of the waiters, so a session that waits for a row that is
  free again and again gets it (`SF Flush \/ FlushThrows`). A deadlock is
  detected (`WF DeadlockAborts`).
- Worker: as above; the scheduler starts passes and time passes. It is not
  assumed that overlapping passes stop deadlocking: `FineOperationsGetDone`
  excepts that.
- Planner: a handler that can run on does; the call of the AI service has a
  timeout. A request runs once, so weak fairness is enough for those that wait
  for a key.
- Digests: a pass goes on and passes are started again and again (weak
  fairness). Row locks are queued for (`Wait`), so none is overtaken for ever.

The other runs check safety only and assume none. No fairness is assumed of
users, clocks or faults: none of them has to act.

## 5. What is proved

All theorems are about the specification without fairness, for every value of
the constants that meets the module's assumption (sets of actors of any size,
any bounds). The assumptions say that the kinds of ids or requests are disjoint
and that bounds are numbers; TLC evaluates them in every run.

An invariant that a run checks is seldom inductive. The table names what each
proof adds to it.

| Theorem | Property | Argument |
|---|---|---|
| `CalendarController_proofs!TypeCorrect`, `RetryTimerCorrect` | `TypeOK`, `RetryArmed` | inductive together |
| `..!NothingLostQuietly` | `NoQuietLoss` | a write-back replaces the queue by a list the flush carries. `Ledger`: every outstanding edit (queued outside a flush, not yet carried out) is in the queue and in the lists each suspended flush holds |
| `..!CreatedOnce` | `CreatedTwiceOnlyIfContended` | `StampsInv`: an edit is a request of its own or was queued, no list has it twice, and of two suspended flushes one holds only contended edits; what was carried out and is not contended is held by no flush. `RemoteInv`: what the service created from an edit was sent |
| `..!DeletedForGood` | `DeletedStaysDeleted` | ids of the service are unique and known (`RemoteInv`), so an update or a create never makes an event under an old id |
| `..!WhatIsShownIsExplained` | `ScreenExplained` | `ScreenInv`: events of one id come from one edit; an unsent edit that is shown is shown under its operation's id (`ShownAsUnsent`); what was sent and is not the service's event any more is `Outdated` by a contended edit, or `CreatedUnseen` because the answer was lost |
| `BatchSync_proofs!TypeCorrect` | `TypeOK` | inductive |
| `..!OnlyRacesLoseWrites` | `RegressesOnlyIfRaced` | `IInv`: a pending change of a task that was not raced is newer than the committed row (`ChangeIsNewer`), so are the rows a session has flushed (`OwnIsNewer`), and no two sessions hold one row (`Exclusive`). A commit of a task that was not raced then only moves forward |
| `..!TasksShowTheNewest` | `NewestApplied` | `NInv`: the flush of a pending change would make the row show its operation, and each row a session wrote shows the newest of what it applied |
| `..!OneAtATimeLastWriteWins` | `LastWriteWinsSpec` | the refinement, supposing one open batch. `StageInv`: what a session sees is the stage of the store its batch has come to; a row that does not exist is not marked deleted; a pending change is what its operation makes of the row. A commit is then the last stage, every other step a stutter. `StagesAre`: the recursive function has its equations, by a least number for which it would not |
| `BackgroundTasks_proofs!TypeCorrect` | `TypeOK` | with `Progress`: a pass has results for the operations it is done with |
| `..!NoRowLeftLocked` | `NoRowStaysLocked` | `OnlyTheCurrentOne`: a pass has marked at most the row it is working on, and its commit comes when there is none |
| `..!AttemptsAreCounted` | `CountedAndRunOnce` | `CInv`: of an operation that one pass has selected, what it loaded is what the table holds, so the attempts it writes are the next number; one that ran without an exception is done, so nobody selects it again |
| `AuthTokens_proofs!TypeCorrect` | `TypeOK` | with `RowsAreDone`: a row belongs to a request that has answered |
| `..!ExchangeOnce` | `ExchangedOnce` | `FoundRows`: what a refresh found are rows of its token; `DoneRevoked`: what an answered one found is revoked; `Meetings`: running together is mutual; hence `Apart`: refreshes that did not meet found different rows, and two rows of one token mean it was made twice |
| `..!LogoutIsComplete` | `LogoutRevokes` | `EarlierFound`: the UPDATE of a logout finds every row its device had when it began; `DoneRevoked` does the rest |
| `..!RotationsAreWhole` | `RotationIsWhole` | `OfTheDevice`: what a request found belongs to its device; `DoneIssued`: an answered request has its row |
| `PlannerScheduling_proofs!TypeCorrect` | `TypeOK` | `PlanInv` of the next row, with `OnProposals`: the detectors speak of proposed slots only |
| `PlannerScheduling_proofs!SlotsAreAdmissible`, `RefusedForLackOfRoom`, `ComplaintsAreExplained` | `SlotsAdmissible`, `RefusedOnlyIfNoRoom`, `ComplaintsExplained` | one invariant, `PlanInv`. After each block, window and slot: the windows lie in free time (`WindowsAreFree`), so do the slots (`SlotsAreFree`); windows and slots are pairwise apart unless the schedule's entries overlap (`AllIsApart`); the windows are all there is of free time that no slot takes (`WindowsAreAll`); hence a task for which no window was found has no room (`RefusedHaveNoRoom`) |
| `PlannerService_proofs!DecisionsAreSingle` | `DecidedOncePerKey` | `KeysInv`: of all that hold a key, committed or not, no two hold the same |
| `..!DecidedPlansStay` | `TerminalStays` | `LoopsInv`: two decisions in their loops over one plan object, or one over a decided object, have raced |
| `..!AcceptedPlansAreApplied` | `AcceptedIsApplied` | `AppliedInv`: of each accepted position the task is still to come, written or gone; what a committed decision wrote is applied. `SlotsAreCounted`: a plan has at most as many slot ids as positions, which the code's comparison of counts rests on |
| `..!HistoriesAreComplete` | `HistoryIsComplete` | `HistoryInv`: what a request in flight has read of the plan it will replace (`FlightInv`) is what is stored, unless requests overlapped on the plan (`CurrentInv`); the stored version is the newest (`NewestInv`) |
| `..!DigestsAreSpacedOut` | `SpacedOut` | `DInv`: of a schedule that was not disturbed (`Tracked`), the days a digest was sent for are a period apart, and at most one pass holds it; while no pass has marked it, its next run is a period after each of them (`Planned`); a pass that has marked it sent it for its own day, and for none less than a period before |
| `..!DevicesAreReached` | `DevicesReachedOnce` | `RInv`: while a pass routes, a device that still has platforms to try is an enabled one of the user and has not got the digest, or an answer was lost; one that has none left has got it, or its chain cannot reach it (`OnItsWay`, `Stuck`); before and after there is nothing on the way (`AtRest`) |
| `..!DigestsTypes` | `DigestsTypeOK` | `SInv`: the rows of two passes are apart (`LocksAreApart`), also when the end of a pass hands its rows to those that wait |
| `Tasks_proofs!RequestsAreSingle` | `CarriedOutOnce` | `KeysInv`, as for decisions |
| `..!PatchesReplaceTheExpected` | `OverwritesTheExpected` | `VersionsInv`: a patch that waits to write still finds a live row, and the version it compared, or has raced; the version compared is the one its client named when the client wrote it in UTC (`IsExpected`) |
| `..!WalksAreExact` | `WalkIsExact` | `WalkInv`: what was shown is not below the cursor, what is still to be shown is. `LastOfPage`: a page that leaves rows out ends with one listed before all of them, for any finite number of rows and any limit |
| `..!ScreenShowsServer`, `CacheShowsScreen` | `ScreenIsServer`, `CacheIsScreen` | one invariant, `AgreeInv`, and `ScreenTypes` (`ScreenTypeOK`) with it. Requests that run at the same time have met (`MeetInv`), so a task in no doubt has one request about it at most, without a fetch (`Alone`). `TaskInv`: where such a task stands on screen, cache and server while nobody is at work on it, at each moment of its one request (`EditInv`), and in the old list a running removal may bring back (`RemovalInv`). `FetchInv`: what a fetch has met is in doubt, what its page left out is remembered, and the rest of its list is what the server has (`ListedShows`). `WithoutIs`, `ReplacedShows`, `PrependShows`, `ListShows`: what the lists of any length show after they are filtered, rewritten, extended or made from the server's set |
| `Productivity_proofs!PatchesKeepToTheirColumns` | `OthersColumnsStay` | `WrittenInv`: what is written is what differs from what was loaded |
| `..!EventsEndAfterTheyStart` | `EventEndsAfterStart` | `ObjectsInv`: the object of a request that has not raced is the row, and was checked; `EventsInv`: an event that does not end after it starts was left by one that had |
| `..!RulesAreRefusedOnlyAtFirst` | `RulesRefusedOnlyAtFirst` | `RulesInv`: a rules row that was found stays, and none is stored over a deleted one; with `ObjectsInv` and `WrittenInv` |
| `..!CopiesAreCurrent` | `CopyIsCurrent` | `PulledInv`: what is being written with an older time than that of the last pull is known |

`OneAtATimeLastWriteWins` is the one theorem with a hypothesis besides the
constants' assumptions: `OneAtATime`, at most one session. It cannot be spared,
since of overlapping batches the older may win (section 4.1). Its proof also
corrected the abstract specification: `LastWriteWins` had let a delete that
carries data change the title, which `_apply_task_delete` does not, and no
instance had such a delete; now one has.

Only model-checked:
- all liveness (`QueuedIsDelivered`, `BatchesEnd`, `FineOperationsGetDone`,
  `RequestsEnd`, `DueIsSent`): the provers used do not reason about fairness.

Facts about recursive functions (`StagesAre`, `WithoutIs`) are inductions over
data. Where they were needed they are proved by the least number for which the
fact would fail (`LeastNumber`), which asks for no theorem with an operator as a
parameter.

## 6. What is not modelled

`PROJECT.json` lists every component with its status and reason.

- **Client session.** The preferences never hold a `device_id`; login, refresh
  and logout send an empty one, which `schemas/auth.py` refuses. Only a sign-up
  can begin a session, and it is never renewed. Noticed while reading it:
  `onUnauthorized` signs out through the same Dio, whose expired token earns
  another 401 and another refresh (`interceptors.dart:49`).
- **Flutter inbox.** The in-memory repository suspends nobody but in a load, so
  the handlers run one at a time.
- **Flutter SyncService.** Nothing creates it.
- **Planner use cases, SQL planner repository.** They cannot be imported.
- **Rate limit.** Two Redis commands; a request lost between them leaves a
  counter without an end (`rate_limit.py:30`).
- **Idempotency middleware.** It passes everything through: nothing sets
  `request.state.user_id` before it runs. The claim of keys is modelled.
- **Limits of plans, feature flags.** No code asks for them, but for
  `FREE_BUDGET_LIMIT` in `set_budget` (`Productivity`).
- Migrations, mappers, configuration, logging, metrics, the user interface, and
  the aiosqlite shim of the tests: no state, or none of the program's own.

Two observations that no model is about: `ok()` answers a flat body while the
tests read `["data"]`, and a `due_at` that JSON gives as text is stored
unconverted by batch sync, half-way through a handler that then throws.
