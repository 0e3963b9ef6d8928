# Formal model of the price-alert service

This directory holds TLA+ specifications of the service in `src/`, the TLC
configurations that model-check them and the proofs that TLAPS checks.

The repository is a price tracker for flight and lodging searches: a FastAPI
backend with taskiq workers and an aiogram bot (`src/services/api/src`), a
Next.js frontend (`src/services/frontend/src`), PostgreSQL, Redis and RabbitMQ.
A user subscribes to a search; a cron task starts an Apify actor run for it; the
platform calls a webhook when the run ends; a task evaluates the results and
inserts an alert; an event published after that commit makes another worker send
the alert to the user's Telegram chat. Paths below are relative to
`src/services/api/src` unless they name the frontend.

## Components

| Part | State | Operations | Hard because | Status |
|---|---|---|---|---|
| Poll scheduler, `domains/subscriptions/tasks.py:263` | `last_checked_at`, a crontab expression | select a batch, claim and commit, dispatch, record the run | overlapping polls, a session that dies in mid-batch, intervals that do not fit a crontab field | `PollDispatch`, `CronSchedule` |
| Apify adapter, `adapters/` | external runs | dispatch, fetch the dataset | lost answers, endings without a webhook | outcomes only |
| Apify webhook, `domains/webhooks/router.py` | `SearchRun.status` | one handler with two commits and an enqueue | duplicate, early and repeated callbacks; a failure after the commit is answered 200 | `RunCallbacks` |
| Stale-run sweep, `domains/search_runs/` | `SearchRun.status` | list stale rows, fail them | works on a stale list | `RunCallbacks` |
| Evaluation task, `tasks.py:172` | alerts | load, fetch, check, insert | retries, redelivery, check-then-insert | `PriceEvaluation` |
| Subscriptions service, `domains/subscriptions/service.py` | subscription rows | create, edit, toggle, delete | cascade into running work; a check of several columns before a write of some | `SearchPipeline`, `Subscriptions` |
| Unit of work, `db/database.py`, `core/events/` | the session, events in memory | collect, flush, commit, roll back, publish | several commits, swallowed exceptions, publication after the commit | `UnitOfWork`, `AlertDelivery` |
| Event idempotency, `core/events/idempotency.py` | Redis key of the event | acquire, mark, release | crash with the key, failing release | `AlertDelivery` |
| Alert delivery, `domains/alerts/` | alert status, `telegram_chat_id` | load, send, commit | send and commit are not atomic; a failure is raised for a retry that does not come | `AlertDelivery`, `AlertLifecycle` |
| Telegram linking, `domains/users/service.py`, `bot/handlers/start.py` | one-time tokens, `telegram_chat_id` | issue, redeem, link | concurrent redemptions | `TelegramLink` |
| Sessions, `domains/auth/`, `core/security/redis_auth.py` | refresh rows; blacklist, lock and cache in Redis | login, refresh, logout, logout_all, change_password | two stores, concurrent rotations, Redis away | `TokenRotation` |
| Login throttle, `domains/auth/service.py:105` | a counter per email | check, count, reset | check before the count, Redis away | `Accounts` |
| Registration and profiles, `domains/auth/service.py:40`, `domains/users/service.py` | `users.email`, `password_hash` | register, seed, change the address, change the password | check-then-insert; a login during a revocation | `Accounts` |
| Import task, `tasks.py:41` | subscription rows of the system user | load the deals that are there, insert the others | retries, redelivery, no unique column, rows that can be edited | `Subscriptions` |
| Frontend hook `useSubscriptions` | the cached list | query, optimistic toggle, rollback | fetches, answers and rollbacks that overlap | `OptimisticToggle` |
| Frontend sessions and wizard, JWT, passwords, routers, entry points, migrations | - | - | thin, views, or pure library calls | not modelled |

### How they interact

* Poll, webhook, sweep and evaluation share only PostgreSQL rows and the external
  runs. `SearchState` declares that state, each process has a module of its own,
  and `SearchPipeline` interleaves them.
* Evaluation hands an alert to delivery through an event in the memory of the
  process, published after the commit and received from RabbitMQ at least once.
* Delivery reads and clears `users.telegram_chat_id`, which linking sets:
  `AlertDelivery` extends `TelegramLink`, and their steps interleave.
* Every request handler and task runs in a unit of work; `UnitOfWork` is one such
  session with any handler. Sessions share nothing but the database.
* The browser's list is a cache of the subscription rows, which other devices, the
  API and the import task change as well: `OptimisticToggle` extends
  `Subscriptions`, and their steps interleave.
* A password change revokes the sessions of an account. `Accounts` has the race of
  logins with that, `TokenRotation` the race of rotations.

### What makes each part correct

* **Polls**: overlapping polls repeat a search only in the window between SELECT and
  commit; a search that starts is recorded.
* **Callbacks**: a completed run gets its evaluation; a repeated callback enqueues
  nothing; a pending run does not stay pending.
* **Evaluations**: a match leads to an alert; one alert per subscription and day.
* **Delivery**: one execution per event at a time; one message per alert; a status
  that says what happened; every alert is resolved.
* **Linking**: a token links once; a chat serves one user.
* **Sessions**: a session is a chain with one live token; Redis does not run ahead
  of the database for good; ending all sessions ends them.
* **Units of work**: an event goes out once, only after the commit of its row, and
  is not forgotten unless a fault comes between the two.
* **Accounts**: an address has one account, and a conflict is a 409; the throttle
  bounds wrong passwords; a session opened with a former password ends.
* **Subscriptions**: a range of dates stays in order under partial edits; an import
  that runs again imports nothing twice.
* **The list in the browser**: it shows what the user clicked, and in the end what
  the server has.
* **The schedule**: polls are as far apart as the setting says.

## The modules

A transaction is one step at its commit, and what a process read before is kept in
variables of its own, as under READ COMMITTED.

| Module | State and actions in the code |
|---|---|
| `SearchState` | The rows, the external runs, and the environment: toggle, a run that ends, a row that ages. |
| `PollDispatch` | `poll_all_active_subscriptions_task`. `PollSelect` is the query, `PollClaim` the bulk UPDATE with its commit, `PollDispatched`, `PollDispatchLost` and `PollSkip` an iteration of the loop, `PollRecord` and `PollRecordFails` the INSERT and its commit. `poisoned` is the SQLAlchemy session that a failed flush or commit deactivates: the loop logs the error and goes on without a rollback, so the later INSERTs of the same poll raise too. |
| `RunCallbacks` | `apify_webhook_endpoint`: `HookRead` to `HookNoDatasetFails` are its branches between the load, the commits and `kiq()`, and their failures; `SweepList` and `SweepCommit` are the cleanup task. A caught error is answered 200 (`hookPc` is "failed"), so the platform does not retry it; a 404 or no answer is retried. |
| `PriceEvaluation` | `evaluate_apify_results_task`. Messages and executions are apart: a message is what a callback enqueued, or what `SimpleRetryMiddleware` enqueued (`Retry`) after an execution raised; an execution takes one message, may save one alert, and acknowledges the message at its end. A message that is not acknowledged is executed again, also next to an execution that still runs (`redelivery`) or to its own retry. |
| `SearchPipeline` | Composition, deletion with its cascades, the properties, the fairness and the mapping to `SearchRunLifecycle`. |
| `SearchRunLifecycle` | No code: what the pipeline promises of a search run, its row and its alerts, with no word about polls, callbacks, sweeps, tasks and retries. |
| `TelegramLink` | `generate_telegram_link` and `start_handler`; `GETDEL` is `Getdel`, the unique constraint `Taken`. |
| `AlertDelivery` | The dispatcher after the commit (`Publish`, `PublishFails`), the broker (`Receive`, `Crash`, `ConnectionLost`), `idempotent_event` (`Acquire` to `ReleaseFails`), the middleware (`OnError`), `process_and_send_alert` (`Load` to `CommitDeleted`). |
| `AlertLifecycle` | No code: what `AlertDelivery` promises of one alert and its messages, with no word about workers, brokers and keys. `AlertDelivery` gives the mapping (`INSTANCE ... WITH`). |
| `UnitOfWork` | `get_db` and `db_transaction` with the dispatcher's listeners. `Record`, `Flush`, `HandlerCommits` and their failures are what a handler does, `HandlerReturns` and `HandlerRaises` how it ends; `ExitCommit`, `ExitInactive`, `PublishEvent` and `Rollback` are what follows the `yield`. |
| `Accounts` | `register`, `create_user`, `create_first_superuser`, `update_user`, `login` (`LoginCheck` to `LoginIssue`) and `change_password`. |
| `Subscriptions` | `create`, `update` (`EditLoad`, `EditWrite`: dates, `is_active`, and the route, which is the key of a deal), `delete`, and `import_external_subscriptions_task` (`ImportStart` to `ImportAck`). |
| `OptimisticToggle` | `useSubscriptions`: `onMutate` is `Mutate`, `onError` and `onSettled` are `Fail`, the query is `Refocus`, `FetchRead`, `FetchArrives`, `FetchFails`. |
| `CronSchedule` | `get_cron_expression` against the minutes of the day, and the threshold of `last_checked_at`. |
| `TokenRotation` | `AuthService.refresh` from the blacklist check (`Present`) over lock, row, rotation, grace period and reuse detection to the answer; `logout`, `logout_all` and `change_password`. |
| `MC*` | Instances for TLC: fault sets, providers, symmetries. |
| `*Proofs` | Theorems and their proofs. |

History variables (named in each module) are read by properties only: who claimed
a subscription, which handlers overlapped, how many messages arrived, which
rotation was under way during a logout. Operators named `..._something` after a
definition are its mutants, each the change a plausible bug would make; no
specification uses them.

### Details worth knowing

* `Deliver` may happen before the poll has recorded the run: the webhook answers
  404 and the platform calls again.
* `adapters/apify_airbnb.py:32` registers the webhook for two endings only, so an
  aborted run is resolved by nothing but the sweep.
* The sweep writes its whole list in one transaction: one deleted row fails it all.
* `core/events/taskiq_publisher.py:35` sends messages with empty labels. The retry
  middleware of that broker reads `retry_on_error` from the labels of the message and
  has no default, so an execution that raises consumes the message (`OnError`,
  `dropped`), whatever the labels of the task say. Evaluations and imports are
  enqueued through the task and carry its labels: they are retried.
* A command or a commit that fails may have been applied, only its answer lost:
  `CommitFails`, `FinishFails`, `AcquireFails`, `ReleaseFails`, `PollClaimFails`,
  `PollRecordFails`, `HookCompleteFails`, `HookNoDatasetFails` have both outcomes.
* `apify_webhook_endpoint` answers 200 to every exception but its own 404
  (`domains/webhooks/router.py:89`). A success without a dataset is COMPLETED before
  it is FAILED; when the second commit fails it stays COMPLETED, and no later callback
  or sweep looks at it again (`interrupted`).
* The route of an imported row is its key, and a superuser may PATCH it: rename the
  row, import again, rename it back, and a deal has two active rows (`copies`).
* The commit of a refused message clears `telegram_chat_id` whatever it is by then,
  and the message may go to a chat the user has left since the load: both are in
  the model and no property forbids them.
* `revoke_all_user` and `revoke_family` are two steps each: the rows the UPDATE
  found when it began, and its commit. A row that a rotation inserts in between is
  not among them.
* A token pair is put in the cache before the rotation commits, so a concurrent
  request can receive a token whose row is not there yet, or never will be.
* `extract_events` (`core/events/dispatcher.py:19`) empties the list of the object
  it collects from. Without that, the flush and the commit of one request would
  both collect the event.
* A flush that fails makes the session inactive, and the end of such a session
  publishes without a commit. The handlers that swallow such a failure are the poll and
  the webhook (`domains/webhooks/router.py:89`), and their rows record no event
  (`recording`).
* A NULL in the body of a PATCH is taken for "not set" when the range is checked and
  is written as NULL: a range without one of its ends is always in order. A NULL
  `is_active` ends in the error of the column.
* `*/90` is no field of a crontab. `pycron` matches such a step at 0 only, so an
  interval of 90 minutes polls every hour, and one of 2880 (`0 */48 * * *`) daily:
  more often than asked, never less.
* `onError` of a toggle restores the list as it was before that toggle, not the one
  row: a later toggle of another row vanishes from the screen until the next fetch.
* Addresses that differ in case are two accounts with one login counter.
* A lock is never released, it expires. `outlived` holds the rotations for which it
  expired too early.

## The runs

Every property of a passing run has a mutant: a plausible bug in one definition
that TLC refutes under the same configuration.

| Run | Instance | Shows |
|---|---|---|
| `poll` | 2 polls, 3 subscriptions, one with an unknown provider, 3 runs, batches of 2 | `RepeatScheduleOnlyByOverlap`, `StartedRunIsRecorded` under lost dispatches, worker crashes, failing statements and commits, deletions and pauses |
| `callbacks` | 1 poll, 1 run, 2 callbacks, 3 executions of evaluations, 1 sweep, 2 tries, all faults; endings with a match, without a dataset, and failed | `TypeOK`, `CompletedIsRequested`, `DuplicateOnlyByOverlap`, `RepeatAlertOnlyByOverlap`, `ImplementsRunLifecycle` |
| `search_live` | 1 poll, 1 run, 1 callback with the platform's retries, 2 executions, 1 sweep, 2 tries, all faults; endings with and without a match, failed, and aborted | `MatchLeadsToAlert`, `PendingIsResolved` |
| `delivery` | 1 alert, 2 executions, any 2 faults, 2 users, 1 chat, 1 token, 2 messages with it, failing handlers | `TypeOK`, `CompletedIsFinal`, `OneExecutionPerEvent`, `AtMostOneMessage`, `StatusIsTruthful`, `TokenRedeemedOnce`, `ChatIsUnique`, `AlertIsResolved`, `ImplementsLifecycle` |
| `rotation` | 2 refreshes, 1 session of 3 tokens, 1 logout of any kind; Redis away, rollbacks, slow rotations | `TypeOK`, `FamilyIsAChain`, `BlacklistedIsSpent`, `LogoutLeavesOnlyRacers` |
| `unit_of_work` | 3 events, every fault | `TypeOK`, `PublishedOnce`, `PublishedIsCommitted`, `CommittedIsPublished` |
| `accounts` | 3 calls of any kind, 2 accounts, 2 addresses that share a counter, 2 passwords, Redis away | `TypeOK`, `ErrorOnlyByOverlap`, `ThrottleHolds`, `OldPasswordSessionsEnd` |
| `subscriptions` | 2 calls of any kind, 2 rows, 2 dates, 2 routes, 1 deal, 2 tries; a flaky source, worker crashes, lost answers | `TypeOK`, `RangeBrokenOnlyByOverlap`, `DealImportedOnce`, `CacheConverges`, `ToggleIsShown` |
| `poll_schedule` | 14 intervals, all minutes of the day, up to 2 polls missed in a row | `TypeOK`, `PollsAreNeverLate`, `EvenIntervalsAreExact`, `RecheckIsBounded` |
| `sweep_race` | 1 callback, 1 sweep | violation, below |
| `grace` | 2 refreshes, no fault | violation, below |
| `rate_limit` | 1 alert, 2 executions, one failing send | violation, below |

**Bounds.** All the races here are between two actors about one row, so two of each
suffice to reach them; the third execution, refresh, run or subscription shows that
the conditions still hold when two races chain. Counters are bounded by these sets
and by `MaxTries` and `MaxFaults`. `clock` and `issuedAt` grow only with polls and
tokens. The only state constraint is `FewProcesses` of `callbacks`: at most four of its
two callbacks and three executions are used, so two callbacks meet two executions, and
one callback three: a redelivered message, its original and their retry. An execution
that left neither an alert nor a retry is used again, so redeliveries that do nothing
are unlimited. `search_live` has one callback and two executions for the cost of
checking liveness; the platform's retries make the one callback come any number of
times. `poll` and `callbacks` divide the
pipeline because the poll only meets the rest in the row it records, and
`callbacks` has one poll for that. Executions of `AlertDelivery` are slots that are
used again, so two of them see any number of redeliveries that the faults allow.
`accounts` has three calls for the account that two of them race about, and because
a throttle of one attempt is exceeded by two logins that overtake a third. In
`subscriptions` the two calls start from any two rows that can exist and any two
kinds of call: two edits, two imports, two toggles, an edit of a row whose toggle is
under way; an imported row may have been renamed already and a second copy imported,
so that one edit more renames it back. Toggle and fetch share one query, which the user can ask for any number
of times. The intervals of `poll_schedule` are the kinds that `get_cron_expression`
tells apart and each of their boundaries (59, 60, 61; 1440, 1500); its days repeat, so
nothing is bounded but the polls missed in a row.

**Deadlock** is checked in `poll_schedule`, whose clock never stops. The other
instances are finite: polls end, tokens, callbacks and calls are used up, and the
system stops.

**Fairness.** Safety needs none. `search_live` assumes weak fairness of recording
a dispatched run, of handlers, of the platform's retry of an answer other than
200, of delivering a message, of the evaluation task, of the sweep and of time. Users,
actor runs and the poll itself are under no obligation. `delivery` assumes it of the
publisher, the broker and the executions: these are server processes and a loop in a
library that call the next statement when the last returns, and a broker that delivers
what it holds. There weak fairness is enough, since faults are bounded.

In `search_live` every fault can happen any number of times. A crash takes a process
back to its begin, and its next step would be enabled again and again and never
for good; so the steps that a fault can keep off for ever are strongly fair:
`HookComplete`, `EvalCheck`, `EvalSave`, `EvalRetry`, `EvalAck` and `SweepCommit`. That
says that crashes and failing statements do not hit *every* attempt. No fault is fair,
here or elsewhere.

What the code loses for good, the properties name. `MatchLeadsToAlert`: the poll stopped
or its INSERT failed (`lost`, `insertFailed`); a handler caught an error and answered 200
("failed"), or was stopped after its commit (`interrupted`); the evaluation failed
`MaxTries` times ("dropped"). Its last disjunct is the bound of the instance: every
element of `Evals` has been used up by a retry. `PendingIsResolved` has no exception.
`AlertIsResolved`: no outbox republishes a lost event (`core/events/dispatcher.py:73`);
a crash leaves the idempotency key behind, and the redelivered event is ignored
(`Abandoned`); an execution that raised has consumed the message (`dropped`).

**The abstract specifications.** `AlertLifecycle` says that an alert is created
pending, gets one message, and has its status written once and to what happened.
Only an alert *in doubt*, after an answer or a commit or the marking of a key that
failed, may get its message again. `ImplementsLifecycle` checks that every behaviour
of `AlertDelivery` with all its faults is one of that specification: workers,
redeliveries and keys show outside in no other way.

`SearchRunLifecycle` has the life of a search run: its row is recorded once, after
the run was started; only a run that succeeded completes it; after that it fails only
for want of a dataset or, late, by the sweep, and may be completed again; an alert
comes only of a match whose row was completed; what is deleted stays deleted, with
its alerts. `ImplementsRunLifecycle` checks this of `SearchPipeline`. The mapping is
the identity on runs and rows; `alerted` is computed: some execution has
left an alert of the run that is not deleted.

## Where the code and its texts disagree

* `sweep_race`: a test says of a completed run "should not be touched". The sweep
  fails the rows it listed, whatever they are by then.
* `grace`: a test comment promises the child token to a second refresh within the
  grace period. The rotation has blacklisted the token, and the blacklist is looked
  at first. The Redis of that test is a mock that answers every GET with nothing.

* `rate_limit`: a comment at `domains/alerts/service.py:209` and a test promise that an
  alert that meets flood control is tried again. The event was published with empty
  labels (`core/events/taskiq_publisher.py:35`), so the middleware does not retry it;
  the message is acknowledged and the alert stays PENDING, one fault and full fairness
  notwithstanding.

Three more texts say too much. No run is about them, since a property of a passing
run says exactly what holds in their place:

* The comment at `tasks.py:336` calls the claim a "distributed mutex". Two polls that
  select before either commits both dispatch (`RepeatScheduleOnlyByOverlap`).
* The log at `core/events/idempotency.py:51` says an ignored event "has already been
  processed or is being processed". After a crash neither is so, and the alert stays
  pending for the 24 hours of the key, after which nobody sends it again
  (`AlertIsResolved`, `Abandoned`).
* `get_cron_expression` (`tasks.py:263`) promises a valid crontab pattern, and `*/90`
  is none. The library reads it as every hour, which is early and never late
  (`PollsAreNeverLate`).

Races that appear in the properties as exceptions:

* two executions, of two messages or of one, both alert (`RepeatAlertOnlyByOverlap`), and overlapping callbacks
  both enqueue (`DuplicateOnlyByOverlap`);
* a rotation during `logout_all` leaves a live token (`LogoutLeavesOnlyRacers`), a
  rolled-back rotation leaves its token blacklisted (`BlacklistedIsSpent`), and without
  Redis, or with a rotation longer than five seconds, a session forks
  (`FamilyIsAChain`);
* a send whose answer, commit or key is in doubt can be sent again when its message is
  redelivered (`AtMostOneMessage`);
* two registrations of one address, both of which found it free: the second ends in
  an error 500, not in a 409 (`ErrorOnlyByOverlap`);
* logins that others overtake between check and count, right or wrong ones, each let one
  wrong password through beyond the limit (`ThrottleHolds`);
* a login with the old password that overlaps its change keeps its session
  (`OldPasswordSessionsEnd`);
* two edits of the two ends of one range leave it out of order
  (`RangeBrokenOnlyByOverlap`);
* two imports that both look before either commits import a deal twice, and so does
  an edit, of `is_active` or of the route, that makes a row a copy of a deal which an
  import has replaced (`DealImportedOnce`).

## The proofs

All theorems are about every value of the constants, under the assumptions the
modules name (`ASSUME`): fault sets are subsets of the kinds listed, providers and
owners are total functions, batch sizes and tries are positive, rows are a finite
set, the bodies of edits set the fields of a PATCH, `None` is none of the values it is compared with. Each proof has the
shape: an inductive invariant holds initially and is preserved by each action, one
case per action; the last step is temporal.

`SearchPipelineProofs`:

* `TypeCorrect`: `TypeOK`, by a lemma for each process. `MessageInv` adds that only
  what was enqueued is taken, and only an execution below the limit of tries has a retry.
* `ClaimIsMutex`: `RepeatScheduleOnlyByOverlap`. The property says nothing of a poll
  that has selected and not claimed yet, so it is not inductive. `ClaimInv` extends
  it to such polls and adds that a claimed subscription is not due, so that no later
  poll selects it.
* `DuplicatesOverlap`: `DuplicateOnlyByOverlap`. `LinkInv` says how rows, external
  runs, callbacks and evaluations belong together; `MarkInv` adds that a handler
  between read and commit overlapped every handler whose COMPLETED is in the row.
* `CompletedRunsAreRequested`: `CompletedIsRequested`, which is inductive next to
  `TypeOK` and `LinkInv`; `RequestInv` only names its witness.
* `RepeatAlertsOverlap`: `RepeatAlertOnlyByOverlap`. `AlertInv` carries the property
  over to executions that have checked and not inserted yet, whichever message they have.
* `StartedRunsAreRecorded`: `StartedRunIsRecorded`. `ClaimedInv` says that a poll has
  claimed what it has still to reach; `RecordInv`, which poll holds an unrecorded run,
  and that a session is deactivated only by a deleted subscription of its poll
  (`Orphaned`) or by the database.
* `PipelineRefinesLifecycle`: the refinement, below.

`AlertDeliveryProofs`:

* `DeliveryTypeCorrect`: `TypeOK`, the linking's with it.
* `EventsAreExclusive`: `OneExecutionPerEvent`. `MutexInv` adds that whoever
  processes an event has its key set to "processing"; without it, a second
  execution could take a free key.
* `CompletionIsFinal`: `CompletedIsFinal`. `CompletedInv` adds that an execution
  about to mark its key has written a final status, which deletion only replaces
  by another.
* `MessagesAreUnique` and `StatusesAreTruthful`: `AtMostOneMessage` and
  `StatusIsTruthful`. `OutcomeInv` says, for an alert not in doubt, that a free key
  and an execution before its send mean that nobody was told and the status is open,
  or that the alert is deleted; `MutexInv` gives that no other execution can
  invalidate what one knows.
* `TokensAreSpent`: `TokenRedeemedOnce`. `TokenInv` adds that a redeemed token was
  issued and is gone from Redis, and that a token there was issued: so it is not
  handed out again.
* `ChatsAreUnique`: `ChatIsUnique`, inductive next to the types. The lemmas for both are
  in `TelegramLinkProofs`, about the steps of the linking; the delivery adds only the
  clearing of a chat.

`UnitOfWorkProofs`:

* `UnitTypeCorrect`: `TypeOK`.
* `EventsGoOutOnce`: `PublishedOnce`. `PlaceInv` says that an event is in one place:
  on its object, once in the list of the session, or published.
* `EventsFollowCommits`: `PublishedIsCommitted`. `OpenInv` and `PublishInv` say where
  the row of a collected event is: still in the open transaction, or committed, and
  after the session's last commit it is committed.
* `CommitsAreAnnounced`: `CommittedIsPublished`. `InactiveInv` and `ActiveInv` say what
  a session that a failed flush has deactivated, and one that works, still hold;
  `EndInv` that a closed session holds no event of a committed row.

`AccountsProofs`:

* `AccountsTypeCorrect`: `TypeOK`; `FieldInv` adds what a call that is about to write
  has been given.
* `ConflictsOverlap`: `ErrorOnlyByOverlap`. `WriterInv` says that a call that found its
  address free, and finds it taken now, is already on record as overtaken.
* `FormerPasswordsAreOut`: `OldPasswordSessionsEnd`. `SessionInv` extends the property
  to logins that have compared the password and not opened their session yet;
  `RevokeInv` says that the list of sessions a password change has read misses only
  those of logins that overlapped it, so that its commit ends all others.
* `GuessesAreLimited`: `ThrottleHolds`. `PassInv` says that a login nobody overtook since
  its check finds the counter still below the limit; `CountInv` bounds the wrong
  passwords by the counter, and by the limit, plus the logins that are excused.

`SubscriptionsProofs`, of the rows and of the list in the browser:

* `SubscriptionsTypeCorrect`: `TypeOK`.
* `RangesAreOrdered`: `RangeBrokenOnlyByOverlap`. `EditInv`: an edit that nobody overtook
  has checked the row as it is.
* `DealsAreImportedOnce`: `DealImportedOnce`. The property asks for one marked row among
  the active ones; `DealInv` strengthens it to all but one of them, and says what an
  import that found no row, and was not overtaken, may still meet.
* `ListsConverge`: `CacheConverges`. `FetchInv`: a fetch that has read the rows holds them
  as they are, or a toggle is under way that another fetch follows.
* `TogglesAreShown`: `ToggleIsShown`. `ShownInv`: a fetch under way was asked for after
  every toggle under way.

`TokenRotationProofs`:

* `Types`: `TypeOK`. The size of `Tokens` is finite (`TokensAssumption`: ids are UUIDs),
  which the age of a token, a count, needs.
* `LogoutEndsSessions`: `LogoutLeavesOnlyRacers`. `OriginInv` says where tokens come from:
  what is held, stored or presented was generated, and an uncommitted token is a row of
  its own. `LogoutInv` (`Kept`): in a family that the UPDATE of a logout saw, a row it
  will not revoke is due to a racer, and a rotation under way is a racer or follows one.
* `BlacklistHoldsSpentTokens`: `BlacklistedIsSpent`. `SpentInv` extends it to what a
  request, a logout or a reuse detection is about to revoke (`Reused`, `Doomed`): the
  blacklist is written before or after the commit, depending on who writes.
* `LockIsExclusive`: `LockInv`, that two rotations of one token are never both under way
  unless one has no lock or has outlived it. No run states it; the next theorem rests
  on it.
* `FamiliesAreChains`: `FamilyIsAChain`. `ChainInv` says that a family that has not forked
  has one unused token, and that a rotation about to commit is of that token.

`CronScheduleProofs`, for every interval, recheck time and number of missed polls:

* The lemmas are about the clock. In any `m` consecutive minutes one is a multiple of
  `m`; a field with a step that is too large matches at 0 only; midnight matches always.
  So the wait is at most the interval (`WaitIsBounded`), the minute of the poll after it
  is on the schedule again (`StaysOnSchedule`), and the wait *is* the interval if that
  divides the hour or the day (`MatchesExactly`).
* `Types`, `PollsKeepTheInterval`, `EvenIntervalsAreKept`: `TypeOK`, `PollsAreNeverLate`,
  `EvenIntervalsAreExact`. `GapInv` counts the intervals that a gap spans, with the polls
  missed so far and the one under way; `OnSchedule` is needed for the next wait.
* `RechecksAreBounded`: `RecheckIsBounded`. `AgeInv`: a poll leaves no subscription older
  than the recheck time, so it grows older only by the gap of missed polls.

### The refinements

`DeliveryRefinesLifecycle`, `Spec => ImplementsLifecycle`, is in `AlertDeliveryProofs`.
The mapping is the identity on `status`, `sends` and `doubt`. `OutcomeInv` gives the
guards of `Deliver` and `Settle`: who is about to send knows that nobody was told, who is
about to commit knows what was sent. `BornInv` (nothing is published, queued or worked on
before its row is there) excludes a status or a doubt for a row that was never created.
Workers, keys and the broker stutter. A commit that fails refines the same write or a
stutter.

`PipelineRefinesLifecycle`, `Spec => ImplementsRunLifecycle`, is in `SearchPipelineProofs`.
`LifeInv` gives the guards: what a sweep has listed was late when listed and stays so, a
callback is about a run that calls back, what it has completed is not pending any more,
and a row is gone only with its subscription, for which no alert is saved. The step of a
process (`PollLife`, `HookLife`) is first reduced to what it does to rows; selecting,
claiming, reading, enqueuing, evaluating without a match and every retry stutter.

### Only model-checked

The liveness properties (`MatchLeadsToAlert`, `PendingIsResolved`, `AlertIsResolved`),
which need fairness and ENABLED. The two expected violations are counterexamples of
TLC. Every invariant of a passing run is proved, and TLC has checked each inductive
invariant on the run of its module.

## Not modelled

* The 24 hours of the idempotency key, expiry of refresh tokens, and loss of
  Redis's data: a message is not redelivered for a day, and sessions are followed
  for less than their life. Several users in `TokenRotation`: rows and keys of
  different users never meet.
* Failures of the database in logout (the exception is swallowed), and of the commit
  that ends an evaluation or an import (for the import, a crash is like it).
* Row locks between a revoking UPDATE and a rotation. `rotated_at` is set a little
  before the commit at which the model's grace period begins.
* The photo and its text fallback: a message is accepted, refused, or fails.
* The content of datasets and its parsing, comparison of prices, formatting; the
  fields of a subscription other than its dates, its activity and its deal.
* Access tokens, and the checks of ownership and of roles in the routers: guards of
  one call over data that no other call changes.
* `telegram_chat_id` and a NULL email in the PATCH of a profile, the account of the
  importer in `Accounts` (it has no password), and accounts that are inactive or not
  local: nothing creates them.
* In the frontend, silent refresh, the wizard, `useTelegramLink` and the pages.
* In `CronSchedule`, delays of a poll by more than seconds, a scheduler that restarts
  within a minute and sends a task twice, and changes of the hour: the schedule is in
  UTC.

## Plan

Done: the search pipeline, delivery and linking, units of work, accounts,
subscriptions with the import and the list in the browser, sessions and the schedule,
all with their proofs; the life cycles of an alert and of a search run as abstract
specifications that the delivery and the pipeline are proved to implement.

1. Prove more: that an abstract specification has the properties it is meant to have
   (an alert comes only of a completed match, a message once unless in doubt), so that
   every implementation inherits them.
2. Extend the model: `SearchPipeline` and `AlertDelivery` composed at the alert, on a
   small instance; `PriceMatch`, the price filter against a reference definition;
   silent refresh of the frontend.
