# IntelliScaleSim: TLA+ models and proofs

This directory holds TLA+ models of the backend of IntelliScaleSim
(`backend/app`), TLC configurations that check them on small instances, and
TLAPS proofs about them. Paths below are relative to `backend/app`.

- [Inventory](#inventory)
- [Plan](#plan)
- [AutoScaler](#autoscaler) and [Fleet](#fleet)
- [LoadTest](#loadtest) and [TestReport](#testreport)
- [Deployment](#deployment)
- [Metering](#metering)
- [Accounts](#accounts) and [Credentials](#credentials)
- [Runs](#runs)
- [Proofs](#proofs)
- [Seen while modelling](#seen-while-modelling)
- [What is left out](#what-is-left-out)

## Inventory

The backend is one process: a FastAPI application on one asyncio event loop.
`async def` routes, background tasks and the two endless loops started in
`main.py` are coroutines of that loop; they interleave only where they await.
`def` routes run in threadpool threads and interleave with everything, between
any two database statements. Every request, round or load test has its own
SQLAlchemy session (`database/session.py`). A commit or rollback expires the
session's objects; they are read again at the next access, and if the row has
gone by then the access raises. A flush that fails leaves the session unusable
until a rollback. The database is PostgreSQL in the README and SQLite by default
(`core/config.py:11`).

| component | state | operations | hard part | what makes it correct |
|---|---|---|---|---|
| Auto-scaler: `services/autoscaler_service.py`, `api/routes_autoscaling.py`, `models/scaling_policy.py` | `scaling_policies`, `scaling_events`, replica rows of `containers`, docker containers | a round over all enabled policies (loop of `main.py`, or `POST /autoscaling/evaluate-now`), scale up, scale down; create, update, toggle, delete a policy | two rounds at once, awaits between load and use of a policy, docker-then-commit, users editing under it | fleet within bounds, one scaling per cooldown, rows agree with docker, rounds end, low load is followed |
| Load tester: `services/loadtest_service.py`, `api/routes_loadtest.py`, `models/loadtest.py` | `load_tests`, `load_test_metrics`, `results` dict of the activation | start, run (request tasks, metrics task), cancel, stream | three kinds of coroutine on one session, cancellation, patience of 2 s, delete under it, restart | counters add up, a final row stays final, every test and stream ends |
| Container routes: `api/routes_containers.py`, `models/container.py` | `containers`, docker containers | deploy (docker hub, GitHub, simulated), start, stop, delete, logs | check-then-insert of names and ports, docker before commit, deletes that leave docker alone | unique names and ports, no container without a row |
| Docker adapter: `services/docker_service.py` | none | run, stop, rm, stats, build, pull, logs through the docker CLI | refusals that leave things behind | outcomes told apart by callers |
| Git and build: `services/git_service.py` | a temporary clone | clone, find Dockerfile, parse EXPOSE, clean up | clean-up on every path | no clone left that its caller knows of |
| Billing: `services/billing_service.py`, `api/routes_billing.py`, loop in `main.py:89-133` | `resource_usage`, `resource_quotas`, `billing_snapshots`, `pricing_models` | collect every minute, snapshot, simulate cost | one failed save poisons the session of the round; containers come and go during it | every running container metered once a round; a round fails only for a reason; metering goes on |
| Authentication: `api/routes_auth.py`, `services/tokens.py`, `core/security.py` | `users`, `user_tokens` | register, login, verify, forgot, reset | check, then write, in threads; tokens that expire or are used in between | an account stays its owner's, token and effect change together, a token is used once |
| Monitoring: `services/prometheus_metrics_service.py`, `services/container_stats_service.py`, `api/routes_monitoring.py` | gauges in memory | update, expose | gauges are lost in a restart and outlive containers | a running container has gauges |
| Mailer: `services/mailer.py` | none | send | none | - |
| Dashboard: `api/routes_dashboard.py` | none | reads | none | - |
| Startup: `main.py:136-188`, `database/init_db.py` | schema, seed rows | create tables, add columns, seed | nothing reconciles rows with docker or with interrupted work; two processes seed at once | all or none of the price list |
| Frontend: `frontend/src` | local state | polls the API, reads the stream | - | - |
| Placeholders: `services/autoscale_service.py`, `services/monitoring_service.py`, `schemas/autoscale.py`, `schemas/billing.py` | - | - | - | - |

Interactions: users change `containers` and `scaling_policies` under the
auto-scaler; the auto-scaler, the load tester, the billing loop and monitoring
all await `docker stats`; load raises the CPU the auto-scaler reads; deleting a
container removes its policies, events, load tests and billing rows.

`PROJECT.json` lists every hazard found, at its line, with the properties that
would catch it.

## Plan

In order of importance. All of these exist.

1. `AutoScaler`, with `AutoScalerProofs`, `FleetProofs`, `MirrorProofs` and
   `CooldownProofs`; `Fleet`, the abstract specification it implements.
2. `LoadTest` with `LoadTestProofs`; `TestReport`, the abstract specification it
   implements.
3. `Deployment` with `DeploymentProofs`.
4. `Metering` (billing loop and gauges) with `MeteringProofs`.
5. `Accounts` (registration, tokens, seeding) with `AccountsProofs`; `Credentials`,
   the abstract specification it implements.

`MCAutoScaler`, `MCLoadTest`, `MCDeployment`, `MCMetering` and `MCAccounts` hold
the constants of the runs. The five models share no variable. What couples them
is a row of `containers` changed by its user, which each model that depends on it
has as actions of its own.

Left for later: SQLite in `Deployment` (ids given twice, the write lock), and
abstract specifications of what `Deployment` and `Metering` promise.

No module declares a RECURSIVE operator.

## AutoScaler

### State

| variable | code |
|---|---|
| `status`, `family`, `index` | row of `containers`: `status`, `parent_id`, and the replica count that went into `name` and `port` |
| `docker` | what docker has for the replica: nothing, a container that holds its name ("down") or one that runs ("up") |
| `pstate`, `policy` | the row of `scaling_policies`; `cooldown` is its `cooldown_period` in ticks; `age` is the time since `last_scaled_at`, up to the longest cooldown |
| `creating` | create requests between the existence query and the insert |
| `pc`, `queue`, `cur`, `target` | where an activation of `evaluate_all_policies` is, the policies left, the policy and the replica in hand |
| `snap`, `expired` | the policy objects of its session, and those a commit or rollback expired |
| `starts`, `stops` | users' own starts and stops per family; they bound the model and appear in the fleet bounds |

### Actions

| action | code |
|---|---|
| `autoscaler_background_task`, `evaluate_policies_now` | `main.py:62-86`, `routes_autoscaling.py:177-205`; both call `evaluate_all_policies` |
| `SkipPolicy`, `SamplePolicy`, `AbortRound`, `EndRound` | loop of `evaluate_all_policies` (315-325), `get_container_metrics` (39-103) |
| `Decide` | `evaluate_policy` after the await (289-310) with `should_scale_up`, `should_scale_down` |
| `RunReplica`, `RunFails`, `RecordReplica`, `RecordFails` | `scale_up` (154-226), split between docker run and the commit |
| `PickReplica`, `RetireReplica`, `RetireFails` | `scale_down` (228-278), split between docker and the commit |
| `start_container`, `stop_container`, `delete_container` | the routes of the same names; rows only |
| `CheckNoPolicy`, `InsertPolicy`, `update_`, `toggle_`, `delete_scaling_policy` | `routes_autoscaling.py` |
| `Crash` | the process dies and restarts (`main.py:136-188`) |
| `Tick` | time passes |

An evaluator that is neither idle nor awaiting stats holds the event loop
(`LoopFree`); the routes do not need the loop.

### Abstractions

- A parent is a constant; policies are for parents only. (The API also accepts
  a policy on a replica's row.) Ids of policies are not reused.
- A replica is named by the `docker run` that created it. Its `created_at` order
  is that order; ties do not occur.
- Every status but running is "stopped".
- A metrics sample is the pair of outcomes of the two threshold tests. The
  thresholds are not ordered by the code, so all four pairs are possible.
- The count of `get_current_replica_count` (two queries) and the decision read
  one state; the count that `scale_up` repeats is taken at its own step.
- Of a policy's fields the model keeps those a decision reads; an update gives any
  of them, together or not (`Fields`, `Overwritten`). Cooldowns are in ticks, and
  `MaxCooldown` bounds them.
- `created_at` of replicas on PostgreSQL is the start of the inserting transaction;
  `Newest` takes the order of launches, which no property tells apart.
- `CpuLimit` is a parameter. The code passes the integer column to `subprocess`,
  which raises for every value but 0 (0 is replaced by the text "0.5"). The API
  stores 100 to 4000 (`schemas/container.py:32`), so for a container deployed through
  it **no launch succeeds**; the run `int_cpu` takes 500, the schema's default, and
  shows that. `fleet`, `cooldown` and `cooldown_race` take 0, so that what the code
  does after a launch is checked too; `fleet` and `cooldown` have the fault "run" as
  well, after which a launch that raises is what the other values always do. No
  passing run claims that load is followed upwards. The theorems hold for any
  `CpuLimit`.
- `Postgres` is a parameter: SQLite does not enforce foreign keys, and loses the
  time zone of `last_scaled_at`.
- `docker run` on a port in use leaves a created container that holds the name.

### Properties

`FleetBound`, `FleetFloor`, `ImplementsFleet`, `CooldownRespected`, `LostForCause`,
`RoundsEnd` and `ScalesDown`; `ScalesUp` is violated. Each is stated in words above its
definition. `LostForCause` lists, for all behaviours, how the row and the container of
a replica come to disagree; `FleetMirrorsDocker`, which is proved and not checked by a
run, says that they agree while nothing on that list happens. `CooldownRespected` is
about the cooldown period that the activation loaded: one that a user raises between
the load and the commit is not respected by that round.

### Fairness

`FairSpec` assumes: a coroutine that is ready runs (asyncio serves its ready
queue in FIFO order), which is weak fairness of `Step(e)` plus strong fairness of
`Decide(e)`, since the loop may be taken by others in between; `docker stats`
answers (it is a subprocess that exits; its failure is an outcome); the
background loop starts again after every round (it catches everything and
sleeps 10 s); time passes. Nothing is assumed of users.

## Fleet

What the auto-scaler promises, without policies, sessions, evaluators or docker:
a family is a number of running members. `Grow` adds one below the ceiling,
`Shrink` removes one above the floor; a user may make one `Join` or `Depart`.
`AutoScaler` instantiates it with the count of running rows for the size, and
users' starts and stops for the rest. The step of `scale_up` and `scale_down` that
the users see is the commit (`RecordReplica`, `RetireReplica`, `RetireFails` when
docker refused but the row is marked); everything before it, a policy edited
meanwhile and a crash are steps that `Fleet` does not see. That the guards of
`Grow` and `Shrink` hold at the commit, although the code tested them several
steps earlier, is what makes the refinement more than a restatement.

## LoadTest

### State

| variable | code |
|---|---|
| `container` | the container under test: row there or not |
| `row`, `samples` | rows of `load_tests` by id with the activation each was inserted for; which activations wrote `load_test_metrics` for the id |
| `rowOf` | `test.id` of the activation |
| `pc`, `metrics` | the awaits of `execute_load_test`/`_run_test` and of `_collect_metrics` |
| `created`, `results`, `lost` | `request_count`, the `results` dict, and the requests that raised after `results["active"] += 1` |
| `sess`, `sent` | the `LoadTest` object in the activation's session |
| `elapsed` | `duration_seconds` are over |
| `cancelled` | cancel requests answered "Load test cancelled" |
| `stream` | the generator of the metrics stream |

### Actions

`start_load_test`, `cancel_load_test`, `stream_load_test_metrics`, `PollStream`
(routes); `execute_load_test`, `Launch`, `Linger`, `Drained`, `Join`,
`save_final_stats`, `Complete`, `Fail` (the activation, in that order);
`StartRequest`, `FinishRequest` (`send_request`); `FindContainer`, `Snapshot`,
`Progress` (one turn of `_collect_metrics`); `delete_container`,
`deploy_container`, `Crash`.

The interesting translations: `StopMetrics` (`metrics_task.cancel()` ends a task
that has not started or sleeps, but the bare `except:` at
`loadtest_service.py:188` swallows the cancellation during `docker stats`);
`Commit`/`CommitFails` (a commit whose UPDATE finds no row, or that the database
refuses, leaves the session needing a rollback that this code never issues);
`NextId` (a PostgreSQL sequence; on SQLite the largest id in the table plus
one, so the id of a deleted row returns).

### Abstractions

- All tests target one container; running or absent is all that matters of it.
- Requests are counted. The reason a request fails, the response times and the
  peaks are left out, and so is the cancellation of activations at shutdown.
- Durations are nondeterministic: the test may be cut off at any turn of the
  launch loop, and the 2 s of patience may end at any moment after the first
  look.
- The check and the insert of `start_load_test` are one step.
- Time-outs are requests that fail.
- A commit that fails is refused at its flush, so that its session needs a rollback.

### Properties

`RowsAddUp`, `TerminalIsFinal`, `EndedForCause`, `ImplementsReport`, `TestsFinish`,
`StreamsEnd`; on a real container `TestsFinish` is violated. `EndedForCause` ties a row
that is left unfinished to the statement that failed: the session remembers whether
the database refused one of its commits ("refused") or its row was gone ("broken"),
and only the first excuses the error handler.

### Fairness

Strong fairness per coroutine, for the same reason as above; requests are
answered or time out after 5 s (`loadtest_service.py:111`). Nothing is assumed of
users, of the duration, or of a client leaving.

## TestReport

What a reader of `load_tests` sees of the above: per id a report, of one test, with
a status and three counters. `Accept` puts a pending one under an id that was never
given before, `Begin` makes it running, `Update` moves its counters up, or ends it;
`Discard` removes all reports with their container. `LoadTest` instantiates it with
the table itself and with the ids its activations hold. No session, task or
container is left in it. What makes the refinement hold is that three kinds of
coroutine write one row through one session, each from values it read or kept
before an await, and that after a delete they go on writing.

## Deployment

### State

| variable | code |
|---|---|
| `row` | `containers.status` of the row each request inserts, once committed |
| `port` | `assigned_port` |
| `docker` | what docker has for it: nothing, a container it created but could not start ("down"), or one that runs ("up") |
| `clone`, `stray` | requests with a temporary directory on disk: one the route has the path of, and one that `clone_repository` made and then raised without removing |
| `pc` | where `deploy_container` is; "over" is a request that was answered with its outcome stored, "lost" one that died or could not store it |
| `started` | rows users set to running themselves |

### Actions

`deploy_container` (name lookup, lines 61-71), `AssignPort` with
`find_available_port`, `CheckDocker`, `InsertPending`, `Refresh`, `pull_image`
(Docker Hub), `clone_repository`, `build_image_from_path` (GitHub),
`run_container`, `SavePullError` (the handler at 133), `SaveError` (those at 266 and
300; both are `StoreError`), `SaveRunning` (the commit at 294); `start_container`, `stop_container`, `delete_container`; `Crash`.
A simulated deployment goes from `AssignPort` to `SaveRunning`.

A row becomes visible to other requests, and can be deleted, with its first
commit: before the pull for Docker Hub, at the end for GitHub. When a user has
deleted the row meanwhile, the next commit (or refresh) raises, and so does the
generic handler, whose session needs a rollback: the request is "lost", and a
container it started stays.

### Abstractions

- PostgreSQL. On SQLite, in addition, ids are reused and the flush of a GitHub
  deployment holds the write lock while it clones and builds.
- `Name` is owner and name. Two values are enough for a race and a bystander.
- A payload without image or URL is refused as a missing docker is.
- Images, limits, `build_status`, build logs and the EXPOSE port are left out.
  `cpu_limit` is converted to text here, unlike in `scale_up`.
- The clean-up in `finally` is one step with the statement before it.
- A commit that fails is refused at its flush, so that its session needs a rollback.
- The fault "exec" is a git that is not there or prints what cannot be decoded;
  "git" is one that ran and failed.

### Properties

`PortsDistinct`, `AnswerTrue`, `NoneLeftPending` and `KnownClonesRemoved`; `ClonesRemoved`,
which is what the comment in the code says, is violated by a stray directory. Requests that
are "lost" are excepted, and so are rows users started themselves: starting sets
the status and does not call docker. `AbandonedForCause` is about those that are
lost: when one may leave a pending row, a directory or a container behind.

## Metering

### State

| variable | code |
|---|---|
| `row` | `containers.status`, "gone" once deleted |
| `deleting`, `late` | a delete request between its bulk delete of `resource_usage` and its commit, and whether a usage row of the container was committed in between |
| `pc`, `queue`, `cur`, `stale` | where the billing loop is, the containers left, the one in hand, and whether its session still shows what the query of the round read (no commit has expired it) |
| `wedged` | a COMMIT of the round failed after its flush: the session is left prepared and does no more SQL |
| `collect`, `overview` | `POST /billing/collect-metrics` and `GET /monitoring/overview` while they await docker stats |
| `gauge` | existing containers with Prometheus gauges in memory |
| `steady`, `billed`, `upset` | what the properties say about a round: the containers that have been running since it began, the usage rows it has given out, and whether a container was deleted meanwhile |

### Actions

| action | code |
|---|---|
| `StartRound`, `Visit`, `Sample`, `Save`, `SaveFails`, `Reload`, `UpdateGauge`, `EndRound` | `main.py:89-133`, split at its awaits and around the commit of `save_resource_usage` |
| `collect_and_save_metrics`, `CollectSave` | `routes_billing.py`, before and after the await |
| `get_monitoring_overview`, `OverviewGauge` | `routes_monitoring.py`, `prometheus_metrics_service.py` |
| `deploy_container`, `start_container`, `stop_container`, `EmptyUsage`, `delete_container` | `routes_containers.py`; the delete in two statements |
| `Crash` | the process dies and restarts |

A save that is refused ends the round: the handler around the container reads
`container.id`, which raises again when the row has gone or the session needs a
rollback (`main.py:125`), and the outer handler catches that. A COMMIT that fails by
itself expires nothing: the handler logs the error, and the round goes on in a session
in which every later save fails, until it is over or reaches an object that an earlier
commit expired.

### Abstractions

- PostgreSQL: ids are not reused, a usage row needs its container and keeps it
  from being removed.
- What docker stats says is left out. A failed sample of the billing loop is
  stored as zeros; only the gauges depend on success.
- Usage rows of earlier rounds are not kept, nor gauges of deleted containers.
- Containers are as many at a time as there are names: a deleted one whose id nobody
  has in mind any more makes room for a new one, so deployments and deletes never run
  out. To a round that is going on a deployment is a start.
- At a time there is one overview, or one delete and one metering on demand of the
  same container; those of different containers touch no row in common.

### Properties

`RoundCovers`, `AbortOnlyForCause`, `MeteredAgain` and `Scraped`. The last two are about
rounds that are left alone from some time on (`LeftAlone`): users who deploy and delete
a container during every single round keep all of them from their end, and the code
then owes nobody a usage row.

### Fairness

Weak fairness of the billing loop as a whole: it is a task of the event loop, it
sleeps for a minute and starts again whatever happened, and docker stats answers
(a subprocess that exits; the code sets no timeout, see below). The requests it
shares the loop with take single steps that leave its step enabled. Strong fairness
of a gauge that is set: docker may fail to give the loop stats of a container as often
as it likes, but not every time. Nothing is assumed of users or requests.

## Accounts

### State

| variable | code |
|---|---|
| `user` | rows of `users` by email: `is_verified` and the password whose hash is stored |
| `tokens` | rows of `user_tokens` that were mailed, in the order of mailing |
| `prices` | providers with a row in `pricing_models` |
| `call` | each request under way: what it read, and the statement it is at |
| `kept`, `wrote`, `done` | what the properties say: passwords of registrations answered 201, tokens with which a password was set, tokens for which a call was answered ok |

### Actions

`register`, `InsertUser`, `InsertToken` (two commits: the user, then the token);
`request_email_verification`, `ConfirmLookup`, `ConfirmSave`; `forgot_password`,
`ResetLookup`, `ResetSave` (`routes_auth.py`); `on_startup`, `InsertDemo`,
`get_pricing_models`, `CheckPrice`, `InsertPrices` (`main.py:136-188`,
`billing_service.py:51-71`); `Expire`, `Crash`. Every commit may fail, every mail
may, and every unique column refuses the later of two inserts. Crash ends the
calls of all requests; with two backend processes that is the stronger fault.

### Abstractions

- `{p}` is the hash of password p; the n-th token mailed is number n, and its hash
  and value are one. A token that was stored and not mailed is known to nobody.
- Addresses are lower case (the code lowers them before every query).
- PostgreSQL reading committed rows; a commit is one step.
- Answers are told apart only where a property is about them.
- A commit that fails is refused at its flush.
- Login and the check of the bearer token read only.

### Properties

`AccountKept`, `ConsumedWhole`, `ResetOnce`, `ConfirmIdempotent`, `AllOrNoPrices` and
`ImplementsCredentials`. No fairness: a call that nobody finishes owes nothing.

## Credentials

What the owner of an account is promised, without calls, statements, commits or
processes: an account is opened once (`Open`) and never taken away, tokens are mailed
to those that exist (`Mail`), a good one may be shown (`Show`, with the new password
for a reset) and then redeemed (`Redeem`: verified or new password, and the token
used, in one step), or nothing comes of it (`Drop`). `Accounts` instantiates it with
its two tables; the claims are the calls between their lookup and their commit. That
two overlapping calls may show the same token, and both redeem it, is in `Credentials`
because it is in the code; that a token which was used or had expired when it was
shown changes anything is not.

## Runs

| run | configuration | checks | states |
|---|---|---|---|
| `fleet` | 1 parent, 1 policy with minimum at least 2 and maximum at most 3, 2 evaluators, all calls, failing launches, stats and commits, crashes | `TypeOK`, `FleetBound`, `FleetFloor`, `ImplementsFleet`, `LostForCause` | 474 k |
| `cooldown` | 1 evaluator, 2 policies created for one parent by concurrent requests, high and low load, all calls but start, failing launches, stats and commits, crashes, cooldowns of 1 and 2 ticks | `CooldownRespected`, `RoundsEnd` | 126 k |
| `scales_down` | low load, 2 evaluators, 2 replicas at the start, users start, stop, delete and drop, docker stop fails | `ScalesDown`, `LostForCause` | 47 k |
| `cooldown_race` | 2 evaluators | `CooldownRespected`, violated | - |
| `int_cpu` | `CpuLimit` 500 | `ScalesUp`, violated | - |
| `load_safety` | 2 tests of 2 requests, one at a time, real container, PostgreSQL, delete and deploy again, failing commits, crashes | `TypeOK`, `RowsAddUp`, `TerminalIsFinal`, `EndedForCause`, `ImplementsReport` | 1.8 M |
| `load_finish` | 1 test of 3 requests, 2 at a time, simulated container, SQLite, deletes, cancels and streams, no faults | `RowsAddUp`, `TerminalIsFinal`, `ImplementsReport`, `TestsFinish`, `StreamsEnd` | 19 k |
| `load_swallow` | real container | `TestsFinish`, violated | - |
| `deploy` | one request of each kind, two with one name, all within reach of one port, all calls and faults | `TypeOK`, `PortsDistinct`, `AnswerTrue`, `NoneLeftPending`, `KnownClonesRemoved`, `AbandonedForCause` | 92 k |
| `deploy_clone` | the same requests, git cannot be run or decoded | `ClonesRemoved`, violated | - |
| `metering` | 3 containers, one simulated, all calls, any number of faults of any kind | `TypeOK`, `RoundCovers`, `AbortOnlyForCause`, `MeteredAgain`, `Scraped` | 245 k |
| `accounts` | 2 requests at a time, the demo address and one of an older database, 2 passwords, 2 tokens, 2 providers, all faults | `TypeOK`, `AccountKept`, `ConsumedWhole`, `ResetOnce`, `ConfirmIdempotent`, `AllOrNoPrices`, `ImplementsCredentials` | 1.2 M |

Bounds. Two evaluators are the background loop and one request; a third adds no
new pair of steps, since one holds the loop at a time. `MaxLaunches` lets a
family grow past its maximum if the code let it. One user start and one user
stop per family are enough to make the decision stale in either direction. The
cooldown is 1 or 2 ticks where users change it (`cooldown`) and 1 elsewhere. With two
policies a commit of one expires the other, which a user may delete before the round
reaches it: the least that lets `AbortRound` happen. One launch is enough there, since
the next one is refused like any other. Three
requests with two at a time (`load_finish`) are the least that has a request running,
one waiting at the semaphore and one not created. `load_safety` trades the third
request for a second test: two tests are what it takes for one to be shown, or to
write, what is the other's, and two requests are the least with which requests and
sampler run before the launch loop has ended. Its two tests are interchangeable,
which the symmetry of the run uses. It leaves out cancelling and streams, which
write nothing in the database. `fleet` leaves out a docker stop that fails, one of the
causes `LostForCause` names; `scales_down` has it, and the proof of `LostForCause` all of
them.

In `metering` two real containers give a round an order: one is visited before the
first commit expires the session and one after it; the third shows that those
without a docker container are passed over. Neither faults nor deployments are
bounded in number. In `accounts` two calls make every race of two statements, and two tokens a token and
a bystander, or a verify and a reset token of one account; calls are interchangeable
and so are providers, which the symmetry of the run uses (it has no liveness
property). The proofs of both cover all other bounds.

`scales_down` has a failing docker stop and no other fault: its progress takes commits
that succeed. `load_finish` leaves out crashes (no recovery exists) and failed commits
(see below). `deploy_clone` has one fault and no calls, so that the behaviour it shows is the short one.

`CHECK_DEADLOCK FALSE` in the load-test runs, in `deploy` and in `accounts`: once
every test or request is done and nobody asks for anything (or the bound on tokens
is met) the model has no step. `AutoScaler` and `Metering` never stop: time passes,
and the loop starts again.

Every property of a passing run has a mutant in `PROJECT.json`: an operator,
placed before the definition it replaces, with a plausible mistake that makes
TLC find the property violated.

## Proofs

`AutoScalerProofs` proves `TypeCorrect == Spec => []TypeOK`, one lemma per action.

`FleetProofs` proves `FleetInvariant == Spec => []IInv`, and from it
`FleetIsBounded` (`FleetBound`) and `FleetHasFloor` (`FleetFloor`), for any
parents, policies, evaluators, samples, settings, faults and bounds that meet the
three assumptions of `AutoScaler` (`IdAssumption`, `BoundAssumption`,
`SeedAssumption`; the last says the families already there at the start are
within their limits).

`FleetBound` alone is not inductive: between the decision to scale up and the
commit of the new row, other activations must not add one too. The invariant
`IInv` adds

- `Exclusive`: at most one evaluator is between two awaits;
- `Room` and `Spare`: from decision to commit there is room for one more, or one
  to spare (user starts and stops in between are counted on both sides);
- `TargetKnown` and `Unlaunched`: the replica in flight belongs to the family of
  the policy in hand, and was not running before it is recorded;
- `MinKept`: neither a live policy nor a snapshot an evaluator may act on has a
  minimum below `InitMin`.

TLC checks `IInv`'s consequences in run `fleet`. Lemmas about cardinality say how
the running members of a family change when one row does; each action then has
a step per conjunct it can disturb. `FleetRefinement == Spec => ImplementsFleet`
uses the same invariant: `Room` and `Spare` are the guards of `Grow` and `Shrink` at
the commit, and every action is shown to be one of `Fleet`'s steps or a stutter.

`MirrorProofs` proves `RowsMatchDocker` (`FleetMirrorsDocker`) under `RowsFollowDocker`:
commits and docker's removals succeed, the process does not die, and users leave
replicas alone.
Its invariant adds where a replica in flight is (`InFlight`: up without a row
before the commit of a launch, without a container before that of a removal), and
that the commits of a round find their rows (`RoundLive`). `LostOnlyForCause`
(`LostForCause`) assumes nothing: with `Held` (what an evaluator has in hand is up
when it records it, and a replica nobody ever recorded has no container) every step
of every action is shown to keep a row and its container together, or to be one of
the causes listed.

`CooldownProofs` proves `CooldownHolds` (`CooldownRespected`) under `OneEvaluator` alone,
on either database. `OneEvaluator` is needed: `cooldown_race` violates the property with
two. The code decides on a copy of the row, so the invariant `CInv` is about the
age in that copy: what the round has not expired agrees with the row as long as the
row is there (`Fresh`), because only the evaluator itself resets the age and ticks
reach both; and the row stays cooled down, by the cooldown period of the copy, from
the decision to the commit (`Decided`). Users may write any field of the row in
between.

`LoadTestProofs` assumes `NoReuse`, that the database is PostgreSQL or that users do
not both delete the container and deploy another, and proves `TypeCorrect`,
`CountersAddUp` (`RowsAddUp`), `FinalIsFinal` (`TerminalIsFinal`), `EndedOnlyForCause`
(`EndedForCause`) and `ReportRefinement` (`ImplementsReport`). The assumption is tight: on SQLite, with delete and deploy both
allowed, TLC finds `TerminalIsFinal` and `ImplementsReport` violated, because an id is
given again while its old activation runs (see below).

- `LInv` says that the session's `requests_sent` is the number of requests that counted
  themselves, wherever that number is kept at the moment (`Counted`), so no row is
  ahead of its session; that nobody works for a test that is over (`Placed`); and that
  ids have been given in order, each once, with no row beyond the last (`IdsGiven`).
  `IdsKept` says why SQLite, which gives the largest id plus one, gives a new one: while
  the container is running, and so while a test can start, every test started still has
  its row; and where nobody deletes, the container stays running.
- `Told` is what the refinement needs on top: while a test runs its row reads running
  and has no answers that its `results` do not have. A commit is then a forward step
  of one report, whichever coroutine makes it.
- `Excused`: a session is broken only once its row has gone, and an activation that is
  on its way to the error handler, or whose sampler has died, with its row still there
  has a session in which the database refused a commit. Only its own coroutines touch
  that session (`KeepsToItself`), and a delete or a deploy never brings a row back.

`DeploymentProofs` proves `LeastFreePort`, that the port search ends and returns the
least port no committed row has, by counting and the well-foundedness of `<`; then
`TypeCorrect` and, from `DInv`, the four invariants of the run: `RunningPortsDiffer`,
`AnswersAreTrue`, `NothingPending` and `NoKnownCloneLeft`, and the action property
`AbandonedOnlyForCause` (`AbandonedForCause`). The ports of rows alone are not
distinct. `DInv` says that those of the docker containers that are up are
(`UpPortsApart`, docker refuses the second), that a row reads running only when its
container is up or simulated or its user said so (`RunningIsEarned`), and where a
request's row and directory are at each statement (`RowsFollow`, `ClonePlaces`).

`MeteringProofs` proves `TypeCorrect`, `RoundsCover` (`RoundCovers`) and `RoundsGoOn`
(`AbortOnlyForCause`). `MInv` says that a container has its row of the round exactly
when the round is done with it, unless a COMMIT has failed (`OnceEach`), that what has been running all the while
still does (`SteadyRuns`), and that a container the round has in mind is gone only
if one was deleted meanwhile (`GoneIsUpset`).

`AccountsProofs` proves `TypeCorrect`, `RegistrationsKept` (`AccountKept`),
`TokensConsumedWhole` (`ConsumedWhole`), `ResetAnsweredOnce` (`ResetOnce`),
`ConfirmAnsweredAgain` (`ConfirmIdempotent`), `PriceListWhole` (`AllOrNoPrices`) and
`CredentialRefinement` (`ImplementsCredentials`). `AInv` adds what a call has
found and still holds when it writes (`Found`), what an answer means for its
token (`DoneMeans`), that a registration between its two commits is the only one of
its address (`SoleOwner`), and that while there are no prices a call misses every
provider it has looked up (`Counted`), which is why a commit never stores a part. The
refinement rests on the same invariant: a lookup that finds its token is `Show`, the
commit that follows it is `Redeem`, and every other step of a call is one of the other
actions of `Credentials` or a `Drop`.

Each theorem holds for all constants that meet the assumptions of its model, named
in the module that declares them, and TLC evaluates those on every run.

Only model-checked: the liveness properties `RoundsEnd`, `ScalesDown`, `TestsFinish`,
`StreamsEnd`, `MeteredAgain` and `Scraped` (liveness under fairness is out of the
prover's reach). What `LoadTest` does on SQLite when a container is deleted
and another deployed is outside `NoReuse`: there the code does not have the properties.

## Seen while modelling

The violated runs show four disagreements between the code and what it says of
itself; `PROJECT.json` quotes them. The models also contain the following, which
no run states as a property:

- On SQLite the comparison of `last_scaled_at` with the current time raises
  (naive against aware), so a policy scales once (`CooledDown`).
- The port of a replica is computed (`autoscaler_service.py:169`) and may belong
  to the next parent; the launch then fails and its name stays taken
  (`RunReplica`, docker "down").
- If the commit of a scale-up fails, for example because the policy was deleted
  meanwhile, the docker container stays without a row (`RecordFails`).
- A cooldown period that is raised while a round awaits docker stats is not respected
  by that round: it decides on the copy it loaded (`Decide`).
- Concurrent creates insert two policies for one container (`CheckNoPolicy`,
  `InsertPolicy`).
- Cancelling a load test marks and stops nothing: each request has a service of
  its own whose `active_tests` is empty (`cancel_load_test`), although
  `routes_loadtest.py:262` says "Cancel a running load test".
- Two concurrent deploys insert two rows of one name, and are given one port
  (`deploy_container`, `AssignPort`); a container whose row was deleted keeps
  its port, which is then given to others.
- The statistics of a load test can be taken before its last request has had a
  turn; with `total_requests` 1 it never counts (`Drained` while
  `Waiting(x) > 0`).
- After a failed commit the status FAILED cannot be stored (`Fail`), and the row
  stays pending or running.
- Deleting a container with a sampled load test is refused by PostgreSQL and
  leaves orphaned metrics on SQLite (`delete_container` of `LoadTest`).
- On SQLite the id of a deleted load test, or of its container, is given again
  while the old activation still runs, which then writes the counters of the new
  test (`NextId`, `loadtest_service.py:38`).
- A load test whose process dies stays pending or running, and its stream never
  ends: nothing at startup looks for it (`Crash` of `LoadTest` and `Deployment`).
- The handler around one container of the billing loop (`main.py:124`) reads
  `container.id`, which raises again when the row has gone or a save was refused, so one
  deleted container ends the round for the rest (`AbortRound`). When the COMMIT itself
  fails the handler works, and the rest of the round then commits nothing (`SaveFails`).
- A container that is deleted during every round keeps the others from being billed at
  all (`LeftAlone`).
- `collect_container_metrics` reads `memory_mb` (`billing_service.py:96`), which the
  docker adapter calls `memory_usage_mb`: the memory that is billed is always 0.
- docker stats is awaited without a timeout (`docker_service.py:272`); one that hangs
  stops the billing loop and the auto-scaler's for good.
- Deleting a container whose usage row came between the bulk delete and the commit
  is refused by PostgreSQL with a 500 (`delete_container` of `Metering`); on SQLite
  the row is orphaned and goes to the next container with that id.
- Gauges of stopped or deleted containers are never removed
  (`prometheus_metrics_service.py`).
- The route that computes costs raises a 400 inside its own `except Exception` and
  answers 500 (`routes_billing.py:139-154`).
- Two resets that overlap both find the token unused and both succeed; the later
  password stays. Older reset tokens stay valid after a reset (`ResetLookup`,
  `ResetSave`).
- If `register` dies, or mailing fails, after its first commit, the account exists
  although the answer was an error, and registering again is refused
  (`InsertToken`).
- On SQLite `expires_at` comes back naive and its comparison with the current time
  raises a `TypeError` (`routes_auth.py:173`). The model is of PostgreSQL.
- `main.py:63` says the loop runs every 30 seconds; it sleeps 10.

## What is left out

### Not modelled

- Dashboard, reading routes, login and the check of the bearer token: they read
  and keep nothing.
- Mailer: output; that it may fail is in `Accounts`. Hashing and JWT
  (`core/security.py`) are calls of libraries.
- Frontend: polling clients of the API; the reader of a load test's stream is in
  `LoadTest`. Placeholders: files of one line.
- Schema creation and the added columns (`database/init_db.py`): run once before
  anything else; what they make of older accounts is the constant `Legacy` of
  `Accounts`.
- Costs, averages and response times: floating point, out of TLC's reach. The
  snapshots (`billing_snapshots`) and quotas they are stored in are read by no other
  code.
- Logs and inspect of the docker adapter.
- How the auto-scaler treats load that the load tester causes: it is an outcome of
  docker stats in `AutoScaler`, and not a composition of the two modules, which
  share only the container's row.
- Vendored libraries. `backend/.deps` holds most of the repository's lines:
  SQLAlchemy, FastAPI, pywin32 and others. The models have what the backend relies
  on: a session's commit, rollback and expiry, tasks and their cancellation,
  foreign keys and unique columns.
