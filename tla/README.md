# A verification project for the timetable generation platform

TLA+ models, TLC runs and TLAPS proofs for the multi-tenant timetable
generator (Django + Celery + FastAPI + Redis + PostgreSQL). Paths below are
relative to `backend/` unless they say otherwise.

## 1. Inventory

A timetable is produced by a *generation job*. One HTTP request to Django
creates a row of `generation_jobs`; a daemon thread hands the job to Celery; a
Celery task posts it to FastAPI; FastAPI runs a six-stage saga in the
background (load, cluster, solve, search, refine, persist), writes the row
itself with psycopg2 and publishes a Celery callback; a browser follows the job
over a server-sent event stream and the review pages, which answer from caches.
Nothing coordinates these actors: they share rows and Redis keys.

| component | state it keeps | operations | interacts through |
|---|---|---|---|
| Generation saga (`fastapi/core/patterns/saga.py`) | `stage_completed`, `job_data` | six stages, `_persist_results`, `_compensate` | row, `progress:`, result key, callback message |
| Cancellation (`fastapi/core/cancellation.py`) | `cancel:job:<id>`, deferral flag of the atomic section | `is_cancelled`, `acknowledge`, `SafePoint`, `AtomicSection`, `request_cancellation`, `clear_cancellation` | Redis |
| Generation service (`fastapi/core/services/generation_service.py`) | `start_time:job:<id>` | `generate_timetable`, timeout / shutdown / error handlers, `_cleanup` | Redis, row |
| Progress tracker (`fastapi/utils/progress_tracker.py`) | `progress:job:<id>` | start, update, complete, `mark_*` | Redis |
| Generation API (`fastapi/api/routers/generation.py`) | - | generate, cancel, reads | background task |
| Job queueing (`django/academics/services/generation_job_service.py`) | the row, `generation_queue:<id>` | create, configure, queue, Celery, direct fallback | broker, FastAPI |
| Celery tasks (`django/academics/celery_tasks.py`) | an ORM instance | generate, callback, cache warm, cleanup | row, FastAPI, caches |
| Job endpoints (`django/academics/views/generation_views.py`) | an ORM instance, cached job | create, cancel, approve/reject, retrieve | row, FastAPI, cache |
| Workflow view (`django/academics/views/workflow_views.py`) | an ORM instance, cached pages | self-healing retrieve, list, approve, reject | row, progress key, cache, callback |
| Progress stream (`django/academics/views/progress_endpoints.py`) | last event sent, Redis client, reconnect counter | SSE loop | progress key, row |
| Job data loading (`fastapi/utils/django_client.py`) | - | six parallel fetches, sections, time grid | pool, data cache |
| Database pool (same file) | pool, connections, wake-up lock | create, reset, borrow, wake up, return, close | threads |
| Data cache (`fastapi/utils/cache_manager.py`, `django/academics/signals.py`) | versioned Redis entries, chunks | read-through fill, invalidate, expire | Redis, database |
| Course clustering (`fastapi/engine/stage1_clustering.py`) | constraint graph | edges by chunks, Louvain, size optimisation | threads |
| Partitioned solving (`fastapi/engine/cpsat/*`, `core/services/course_partitioner.py`) | committed registry | partition, department phase, shared phase, merge, monolithic fallback | solver threads, worker processes |
| Cluster solver (`fastapi/engine/cpsat/solver.py`) | CP-SAT model | domains, three strategies, greedy fallback | OR-tools |
| Genetic algorithm (`fastapi/engine/ga/`) | populations, variants | fitness, crossover, mutation, three variants | saga |
| Q-learning (`fastapi/engine/rl/qlearning.py`) | Q-table, access counts, saved policies | learn, evict, freeze, save, load | files |
| Offering conflict graph (`fastapi/core/services/graph_builder.py`) | pairs of offerings | build, inject constraints | CP-SAT (no caller yet) |
| List and detail caches (`django/core/cache_service.py`, `academics/mixins.py`) | version counters, entries | list, create/update/delete, warm | Redis, signals, transactions |
| Stampede lock (`CacheService.get_or_set`) | lock key, value | lock, compute, store, poll | Redis |
| Dashboard statistics (`django/academics/views/dashboard_views.py`) | process dictionary, Redis copy | answer | database |
| Variant and conflict reports (`django/academics/services/`, variant views) | - (reads the row) | detect conflicts; show entries | row, cache |
| Rate limiter (`fastapi/engine/rate_limiter.py`) | request times per client | check | middleware |
| Circuit breaker, bulkhead, adaptive executor, memory monitor, auth, CRUD views, frontend | - | - | not modelled, section 7 |

What makes it hard, and what must hold in spite of it:

* **Interleaving.** Two deliveries of one job may run at once (nothing checks
  for a running job); every Redis and database call is a point where another
  actor moves. *A finished job is never taken back; a timetable that was saved
  stays saved.*
* **Cancellation** arrives at any moment, is cooperative, and is deferred over
  the save. *A request made before the last safe point stops the run before it
  saves; the flag and the other control keys do not outlive the job's runs.*
* **Partial failure.** Redis and database errors are swallowed almost
  everywhere, and the process may be killed. *What was written stays, and it is
  known which failure loses what; no database connection is lost, whoever fails.*
  (The timetable itself is in one place, the row: section 5.)
* **Three copies of one status** (row, progress key, answer), and cached pages
  of it. *They agree when the run is over; the stream ends; what the pages show
  settles on the row.*
* **Lost answers and retries** between Celery and FastAPI. *The job is handed
  over at most once.*
* **Whole-instance saves** in Django. *A row says `completed` only if a
  timetable was produced; the row settles.* (Here the code also breaks what its
  comments say: section 5.)
* **Caches filled while data changes.** Versions are incremented before the
  transaction commits, locks expire under their holder, copies of copies start
  a new life. *How stale may an answer be, and for how long?*
* **Pure algorithms with edges**: rounding up sections, a lunch break at the
  edge of the day, chunks of a parallel loop, a cut list of rooms, an eviction at
  a limit. *No course, session, slot or pair is lost or counted twice.*

## 2. Modules

| module | what it is |
|---|---|
| `RunContract` | abstract specification: a run is submitted, starts, passes the milestones *feasible* and *saved*, ends with one verdict its milestones justify |
| `GenerationSaga` | the FastAPI side of one job: saga, cancellation, service handlers, tracker, row, Redis; refines `RunContract` |
| `GenerationJob` | extends `GenerationSaga` with Django and Celery: queueing thread, Celery task and its retries, callback, self-healing view, cancel, reject, approve |
| `JobData` | stage 0: configuration, parallel fetches, sections, time grid |
| `DbPool` | the connection pool under those fetches and the persisting thread, over a database that suspends itself |
| `Clustering` | stage 1: constraint graph, communities, cluster sizes |
| `RoomDomain` | the candidate rooms of a course |
| `PartitionedSolve` | stage 2: partition, registry, cluster solver, fallbacks, merge |
| `ConflictGraph` | pairs of offerings that may not coincide, and constraints from them |
| `Optimise` | stages 2B and 3: the genetic algorithm's variants and what is persisted of them |
| `QLearning` | the bounded Q-table and its policies |
| `VariantReports` | a variant's conflict report |
| `DataCache` | FastAPI's cached lists and Django's invalidation of them |
| `ListCache` | Django's versioned lists |
| `Dogpile` | `get_or_set` under one key |
| `StatsCache` | the dashboard's two cache layers |
| `ReviewCache` | cached workflow, job and list pages against the row |
| `ProgressStream` | one event stream over the progress key and the row |
| `RateLimit` | the sliding window |
| `GenerationSaga_proofs`, `GenerationJob_proofs`, `PartitionedSolve_proofs`, `DbPool_proofs`, `Optimise_proofs`, `JobData_proofs` | TLAPS proofs about the module they are named for (section 6) |
| `Stages_proofs` | proofs about the smaller stages: `Clustering`, `ConflictGraph`, `RoomDomain`, `QLearning`, `VariantReports` |
| `Serving_proofs` | proofs about the serving side: `ListCache`, `Dogpile`, `StatsCache`, `RateLimit` |
| `MCGenerationSaga`, `MCGenerationJob`, `MCPartitionedSolve` | instances of one module for TLC |
| `MCSolving`, `MCServing` | compositions of the pipeline's stages and of the serving side for TLC |

`GenerationSaga` and `GenerationJob` know a stage of the pipeline only as
"returns, raises or sees the flag"; the stage modules model what it computes.
The two meet at a value (`job_data`, a solution), not at shared variables.

### `GenerationSaga`: state and actions

`Run` is the set of deliveries of `POST /api/generate_variants` for the job.

| variable | code |
|---|---|
| `row` | the job's row: status, what `timetable_data` holds (configuration or timetable), whether the creating transaction has committed, and (history) the runs whose `UPDATE` took effect |
| `store` | Redis: reachable?, `progress:job:` status, which of `cancel:`/`start_time:`/`state:` exist, what the result key can be read as: nothing, scores or a timetable (the code writes scores) |
| `callbacks` | `fastapi_callback_task` messages waiting at the broker |
| `pc[r]` | where run r is: a stage, a half of the save, a handler |
| `stageDone[r]`, `deferred[r]`, `held[r]` | `saga.stage_completed`, `AtomicSection._deferred_cancellation`, does `job_data` hold a CP-SAT solution |
| `answer[r]`, `outcome[r]` | the schedule in the answer of `execute()`, and how the run ends |
| `asked`, `faults` | history: runs asked to stop in time; failures so far |

One action per piece of code between two calls another actor can observe:
`Accept` (the route), `Begin` (start of `generate_timetable` up to the first safe
point), `LeaveStage` (a stage returns: exit check of its safe point, entry check
of the next), `CheckInside` (checks inside CP-SAT and GA), `StageRaises`,
`EnterPersist` / `PersistAborts` / `StoreResult` / `WriteRow` / `LeavePersist`
(`_persist_results` in its atomic section), `MarkCompleted`, `MarkStopped`,
`Compensate`, `HandleError`, `HandleTimeout`, `HandleShutdown`, `Cleanup`,
`Interrupted` (timeout or task cancellation, only in the stages that suspend:
loading and solving), `Kill`. The environment requests cancellation, commits the
row, and takes Redis away and back.

Abstractions. The timetable is one value. Percentages and ETA are left out. Keys
live 1 h to 24 h and a run at most 60 minutes, so none expires under a run; the
progress key expires after it (`ProgressExpires` in `GenerationJob`, where views
and cancel requests still want it). Consecutive Redis
calls of one run that touch keys no other step distinguishes are one action;
a Redis outage therefore begins between two actions. The stages' inside is
"returns, raises or sees the flag". An `UPDATE` that finds no row, because the
creating request has not committed, counts as a fault like an `UPDATE` that raises.

### `GenerationJob`: state and actions

Each Django actor has a small program counter and, when it saves the whole
instance (`job.save()`), the copy of `timetable_data` it loaded: `task[i]` is
attempt i of the Celery task, `callback` the callback being executed, `heal`,
`cancel`, `reject` the requests. `SaveAll` is `job.save()`, `SaveStatus` is
`save(update_fields=...)`. A retry publishes the next attempt and then falls into
the task's own `except Exception`, as `raise self.retry(...)` does in the code;
the hardware check may use one more retry than the task (`max_retries=3` against 2).
`CancelNotify` either reaches FastAPI's cancel endpoint or is lost: the flag
Django itself sets carries Django's cache prefix and is never seen by FastAPI.
The approve branch of `GenerationJobViewSet.approve` and `select_variant` raise
before they change anything, so only reject and the workflow view's `Decide`
write. `ProgressExpires` takes the progress key away when no run is under way (two
hours after its last write, so no request that has begun is still in the middle).
A publish that raises is taken to have published nothing. Django's own
database statements do not raise (the saga's may). A Celery worker or a request
that dies takes no further step: `JobSpec` has those behaviours, because broker
messages are acknowledged when a task starts and nothing takes the work up again;
only the fairness of `JobFairSpec` excludes them.

### Stage modules: state and actions

Each of these modules keeps its state in one record or a few variables; an
action stands for the code between two points where another actor can move, or,
where one thread computes alone, for one function.

* `JobData` (`jd`). `ResolvedConfigs` is the configuration a job may carry (form,
  stored row, defaults, with Django's clamp), `FetchCourses`, `FetchFaculty`,
  `FetchRooms`, `FetchTimeSlots`, `FetchStudents`, `FetchEnrollments` end in any
  order, `FetchFails` is an exception in one of them: courses, time slots and
  enrollments answer with an empty list, the others let `gather` raise. A
  configuration says which of its times are written `HH:MM:SS`: `MaxSlots` (Django)
  makes 0 of them, `PageMaxSlots` (the form page) and the grid do not.
  `SectionsOf` and `TimeGrid` are `fetch_courses`' split and
  `fetch_time_slots`' loop.
* `DbPool` (`db`). Threads (the client, its fetches, the persister), pools ever
  made with their idle and used connections, open and live connections, and the
  wake-up lock. `StartFetch` is `_borrow_conn`; `GetConn` / `ConnectFails` / `Ping` are
  an attempt of `_get_healthy_conn`, and with `PoolGone` also of
  `_try_borrow_from_existing_pool`; `EnterWake` is the taking of `_wake_lock` in
  `_wake_db_and_get_conn`, `ResetPool` its `_reset_pool`; `Suspend` and `Resume` are
  the server's. A connection is named by the address of its object, which may be used
  again. `sleeps` and `rebuilt` are history: how often the server suspended itself,
  and whether the pool was replaced since it last answered.
* `Clustering` (`cl`). `BuildConstraintGraph` over `GraphChunks`, `RunLouvain`
  (any partition) or `LouvainFails` (`SequentialFallback`), `OptimizeSizes`. A
  course is its place in the list the stage is given, a community is named by its
  first course, and a cluster is a record of the communities it comes from, the
  piece it is of them and its courses.
* `RoomDomain` (`rd`). `CandidateRooms` is the four-stage filter with its cuts.
* `PartitionedSolve`. `Load`, `Partition`, then for each bucket (`Dispatch`) a
  cluster at a time (`NextCluster`): the pre-flight check (`ClusterOverloaded`), or
  a strategy returns any model of its constraints (`StrategyAnswers`, `Models`), or
  none does (`StrategiesFail`) and the greedy fallback places session by session
  (`GreedyPlace`, `GreedyDone`), an empty domain at `catalogue.first`.
  `CommitBucket` adds a bucket to `registry`, `Merge` ends the stage;
  `PartitionedFails` is any exception: the answers are discarded and the monolithic
  mode starts, in worker processes (`WorkerErrs`, `WorkerDies`, `PoolFails`) or
  sequentially. `how` and `epoch` are history: which code placed a session, and
  after how many commits.
* `ConflictGraph` (`cg`). Rows arrive, `StudentPairs` and `TeacherPairs` are the
  two builders, the constraints are drawn from their union.
* `Optimise` (`ga`). `StartVariant`, `Evaluate`, `Evolve`, `FinishVariant`,
  `VariantFails`, `GaCancel` at the safe points, `RefinePassThrough` (stage 3),
  `BuildPayload`. `Fitness` computes the four scores in hundredths; `VariantScores`,
  `ListedScore` and `Recommended` round as `saga.py` and the list of variants do.
* `QLearning` (`ql`). `ChooseBestSwap`, `UpdateQValue` with eviction,
  `FreezePolicy`, `UnfreezePolicy`, `SavePolicy`, `LoadPolicy`. An eviction whose
  key is not in the table raises and the lesson is lost.
* `VariantReports` (`vr`). Persisted entries are records with the keys the saga
  writes; `Get` of a key that is not there is `Missing`. `Detect` makes the report,
  a list cut to `ReportLimit` and a summary of all conflicts beside it. Which conflicts
  come first depends on the order of the entries and is left open (`Listed`).

### Serving modules: state and actions

* `DataCache` (`dc`). A loader runs `StartLoad`, `CompareVersions`, `DropList`,
  `ReadMain`, `ReadChunks`, `QueryRows`, `StoreMain`, `StoreChunks`,
  `StoreVersion`; a change runs `BeginChange`, `SignalDeletes`,
  `SignalBumpsVersion` (or `SignalFails`), `EndChange` (commit or rollback, after
  the signals). Every key expires by itself. Data is named by the number of
  changes it reflects.
* `ListCache`. A request reads the counter (and makes it up), gets the entry,
  queries, stores; a change saves, bumps by signal, bumps by the view, commits or
  rolls back. `SetTwo` is the unconditional `SET 2` when an increment found no
  counter. The configuration list has an unversioned key.
* `Dogpile`. `LookInCache`, `AddLock`, `Fetch`, `StoreValue`, `Release`, `Poll`,
  `ComputeDirectly`; `ExpireLock` and `ExpireValue`. A computation stores a value or,
  after `None` or an exception, nothing.
* `StatsCache` (`sc`). A copy is its age and the time it has left. `AnswerFromL1`,
  `AnswerFromL2`, `AnswerFromDatabase`, `AnswerZeros`, and a clock.
* `ReviewCache` (`rv`). A request runs `AskPage`, `ReadRow` (with the self-healing
  save), `StorePage`, `EndPage`; a decision deletes keys and commits afterwards;
  the worker ends and the callback task warms or cleans up.
* `ProgressStream` (`ps`). `ConnectRedis`, `ReadKey`, `AnswerFromKey`,
  `AnswerFromRow`, `SkipRow` are one round of the loop; worker, row, decisions,
  deletion, key expiry and the browser move between them.
* `RateLimit` (`rl`). `CheckRateLimit` (prune, count, record in one step, the code
  has no `await` in between) and a clock.

`MCSolving` and `MCServing` check these modules in one run each. Their parts
share no variable, so their product would only multiply states: `part` chooses
the one that moves, the others keep an initial value. The checks are those of
each module by itself. In `MCServing` no action that a fairness condition
mentions is enabled in the initial values of the idle parts, so the fairness of
one part asks nothing of another's behaviours.

## 3. Runs

| run | instance | shows |
|---|---|---|
| `saga_run` | 2 runs, 1 fault of any infrastructure, fair | `TypeOK`, `SavedUnlessWriteFails`, `AgreeWhenQuiet`, `CancelHonoured`, `EphemeralKeysCleared`, `CompletedIsNeverTakenBack`, `ProgressSettles`, refinement of `RunContract` |
| `job_faults` | 2 runs, 1 fault of any infrastructure, `MaxRetries` = 1, runs symmetric | `JobTypeOK`, `NoPhantomCompletion`, `NoDoubleRun` |
| `job_settles` | 1 run, no fault, fair | `JobSettles` |
| `solving` | the nine stage modules | their fourteen invariants, section 4 |
| `serving` | the seven serving modules, fair | four invariants and three liveness properties, section 4 |
| `saga_agree`, `saga_partial`, `job_decision`, `job_data`, `job_pickup`, `job_cancelling`, `solve_merged` | smallest that shows it | violations, section 5 |

`saga_run` and its companions. Two runs are enough for every pairwise
interference through the row and Redis; the properties quantify over at most two
runs. One fault is enough to lose either half of the save (the theorem covers every
number of faults). `MaxRetries =
1` gives a first attempt, a retry and the extra hardware retry, so a retry
overlaps its predecessor's late save. `job_settles` needs one run since
`NoDoubleRun` shows there is never a second. The number of callback messages is
bounded by the steps that publish them: a callback leads the row to a terminal
status, which stops healing.

`solving`. The constants scale the code's limits down so that each boundary is
crossed: offerings with none, exactly the limit and more students, with and
without a primary teacher; days that fit and do not fit, with a break at every
place and periods of length zero; two fetches, the client and a persister over a
pool of one to three connections with four addresses and one suspension, one
attempt per stage; seven courses in chunks of every size, every partition of
them; room lists up to four with a cut at three; three courses in two departments
and the shared pool over two slots and two rooms, with a teacher in two
departments, a student in two courses, a fixed slot and courses without rooms; a
population of three over two generations; three keys in a table of two;
variants of up to four entries under a report of one conflict.

`serving`. Two concurrent loaders, requests or changes wherever two can
interfere, three callers of the lock (a holder, one that takes the expired lock,
one that polls), two processes for the layered statistics, one client of the
limiter (clients share nothing but the dictionary), two decisions on one job.
Time is counted in a few units (`MaxClock`, `StatsTtl`, `Minute`) since only the
comparison with a limit matters.

`CHECK_DEADLOCK FALSE` in every configuration: a job that is over stops, a stage
that has ended stops, a closed stream stops.

Fairness. `FairSpec`: weak fairness of `Advance(r)`, the steps an accepted run
takes by itself, because the event loop resumes every task that can go on.
`CheckInside` is excluded since it may leave the run in its stage; nothing is
promised about who posts, cancels, kills or repairs. `JobFairSpec` adds what is
already under way in Django: the queueing thread, Celery attempts, callbacks,
requests that have begun, the commit of the creating request; and that somebody
keeps opening the workflow page of a live job (`HealLoad`), the first time before the
two hours of its progress key are over (`SeenInTime`). The last two are assumptions on
users, and necessary ones: no periodic task heals rows, and without the key the page
cannot. They say nothing of what is done to a job after its key has expired.
`CacheFairness`, `ReviewFairness`: a load, request, decision or callback that has
begun goes on (or fails), and a key with a time to live expires.
`StreamFairness`: the generator keeps running its rounds, a key expires, and
rounds without a key do not all fall into the waiting time of the row or a
database outage (strong fairness of `AnswerFromRow`: a round may meet the waiting
time again and again, but the waiting time is finite). Nothing is assumed of
Redis.

## 4. Properties

The job:

* `SavedUnlessWriteFails`: when a run reports success and its `UPDATE` took effect, the
  row is completed and holds the timetable, whatever the job's other run, timeouts and
  cancellations do before and after. When it did not, something failed, and if nothing
  else did the scores at least are in Redis. (They are no substitute: section 5.)
* `CompletedIsNeverTakenBack`: no saga step changes a completed status or
  removes a timetable (the guards of four separate `UPDATE`s must fit together).
* `CancelHonoured`: a request made before the last safe point stops the run
  before it saves. It excludes the two ways the code does lose a request: Redis
  failing, and the end of another run deleting the shared flag.
* `AgreeWhenQuiet`: after a single fault-free run the row and the progress key
  show the same terminal status, except after a kill, a shutdown or a
  cancellation deferred over the save.
* `EphemeralKeysCleared`: no control key outlives the runs, except a
  cancellation that arrives after the end.
* `ProgressSettles`: the progress key ends in a terminal status for good.
* `ImplementsContract`: verdicts are justified by milestones, and only the
  stages that suspend can be interrupted.
* `NoPhantomCompletion`: no callback, healing view or stale save completes a job
  without a produced timetable.
* `NoDoubleRun`: retries and the direct fallback never deliver a job twice.
* `JobSettles`: the row reaches and keeps a terminal status in spite of the late
  `running` and `cancelling` saves. The exception is a cancellation sent after the
  progress key has expired, which `CancellingEnds` shows (section 5).

The pipeline:

* `JobDataSound`: every student of an offering is in exactly one section and no
  section exceeds the limit, whatever the rounding; the grid has the requested
  number of periods in every day that has room for them and none ends after the
  day; and when the times of a form are written `HH:MM`, the day has the periods the
  form page showed: Django cuts no further and FastAPI has nothing to clamp. (A period
  may run into lunch: only its start is compared with the break.)
* `AnsweringPoolKept`: however many threads find the database suspended, once the pool
  has been replaced while the server answers none of them throws it away again, unless
  it is exhausted. It is the second look under the lock that does it. (Before the server
  answers, and when the pool is exhausted, the code does reset repeatedly: section 5.)
* `NoConnectionLost`: when all threads have ended, every open connection is an
  idle one of a pool, whichever pools were replaced meanwhile; except the one a
  thread keeps that fails while looking up the new pool.
* `ClusteringSound`: the chunks together find every edge of the graph; every
  course is in one cluster; no cluster exceeds what the solver is sized for.
* `RoomDomainSound`: a course is offered some room whenever there is one, and an ideal
  room is left out only by a full cut: for rooms that fit better, or, in the stages that
  cut in the order of the catalogue, for rooms listed before it. (So it may be left out:
  with few ideal rooms and more typed ones than the cut keeps, the order decides.)
* `CrossPhaseExclusion`: what CP-SAT or the greedy fallback draws from a filtered
  domain never clashes with an earlier bucket.
* `RegistryExact`: the registry holds what the committed entries occupy, no more
  (sentinels, discarded answers) and no less.
* `MissingOnlyWhenBlocked`: a session left out of a department's answer had no
  free pair.
* `OverlapGraphSound`: two offerings are constrained exactly when they share a
  student or a teacher; an offering is paired with itself only through a
  duplicate enrolment row.
* `SessionsSurviveSearch`, `SearchNeverWorsens`, `VariantPayloadSound`: the genetic
  algorithm keeps the sessions, never ends below where it started, and what is
  persisted is the first of the fittest variants, shown with the full score and
  recommended however the scores are rounded; every other recommended variant is at
  most half a percent below it; and conflicts are shown exactly where there are some.
  (A near-tie may be shown with the full score too: section 5.)
* `QTableBounded`: no order of learning, evicting, loading and rolling back
  exceeds the limit.
* `FacultyClashesReported`: two classes of one teacher at one time are in the report's
  summary, and in its list too unless that is full (it is cut to 100).

The serving side:

* `EventuallyFresh`: a stale list may be stored with the new version, but once
  changes stop, what the data cache serves ends up being what the database holds.
* `ListIncludesEarlierChanges`: a list under a version holds every change
  committed before the version was made.
* `OneHolderPerLock`: the stampede lock has one holder more than the number of
  times it expired, at most.
* `StatsAgeBounded`: shown counts are younger than twice the time to live.
* `ReviewSettles`: once decisions stop, cached pages end up showing the row.
* `StreamEnds`: a stream over a job that stays completed, failed or cancelled
  is closed.
* `WindowNeverExceeded`: in no minute more requests pass than the limit.

## 5. Where code and documentation disagree

Each is a run TLC must find violated.

1. `CompensatedStatusesAgree` (`saga.py:1704`): a cancellation seen on entry to
   the atomic section is raised after the save; the row stays `completed`, the
   progress key says `cancelled`.
2. `PartialSuccessKeepsSolution` (`saga.py:432-440`): `_compensate` empties
   `job_data` before the partial-success answer reads the solution from it.
3. `ReviewDecisionStands` (`workflow_views.py:148`): approved jobs are cached as
   immutable; late saves overwrite them.
4. `VariantDataImmutable` (`celery_tasks.py:264`): whole-instance saves put the
   configuration back over a generated timetable.
5. `RefusedJobIsPickedUp` (`generation_job_service.py:304`): nothing reads the
   queue entry from which "a worker will pick it up".
6. `MergedConflictFree` (`solver.py:274` against `timetable_merger.py:4-6`): a
   session whose domain is empty is put into the first slot and room, whatever is
   committed there, and the merger does not skip it.
7. `CancellingEnds` (`generation_views.py:231` and `:260`): "job will stop shortly"; a
   failed or decided job is accepted at any time, and after its progress key has expired
   (`progress_tracker.py:67`) nobody takes `cancelling` back.

Met while modelling, without a run of their own:

* "Result is still in Redis" when the `UPDATE` failed (`saga.py:1658`): Redis holds
  scores and no entry (`saga.py:1534`), so one failure of the database loses the
  timetable of a run that reports success. `store.result` says what is there.
* The two ceilings "always agree [...] regardless of who sends the request"
  (`generation_job_service.py:44-50`): Django's `to_minutes` makes 0 of `HH:MM:SS`, which
  FastAPI parses. `JobDataSound` speaks of times written `HH:MM`.
* "Exactly ONE reset + rebuild cycle per cold-start event" (`django_client.py:280`): a
  thread that waited resets again when the first gave up on a slow server, or when the
  new pool is exhausted. `AnsweringPoolKept` is what holds.
* A room is double-booked and no report shows it (`conflict_service.py:31` and `:66`): the
  report reads `room_number`, the persisted entries say `room_code`.
* "The variant with highest overall_score" (`timetable_variant_views.py:414` and `:442`): a
  score rounded to whole percents is compared with an unrounded one, so others within
  half a percent are recommended with it (`VariantPayloadSound`).
* Warmed entries are "identical payloads" (`celery_tasks.py:179-183`), but cut at 500
  where the view's are cut at 2000. (Read in the source; entries shown are not modelled.)
* `strategies.py:17` promises every course is assigned; a session whose domain is
  empty has no variable and is missing from the answer (`MissingOnlyWhenBlocked`
  says exactly when).
* A worker process that dies drops its clusters without an error
  (`saga.py:992`), so a monolithic answer may be incomplete.
* `cache_service.py:65-71` speaks of a 60 s lock, `get_or_set` uses 30 s, and
  "exactly one worker hits the DB" ends when the lock expires (`OneHolderPerLock`
  counts it).
* A list read between a change's increments and its commit is cached under the
  newest version: "write-through" promises more than `ListIncludesEarlierChanges`
  can say. The configuration list's key holds no version although its docstring
  says it is invalidated automatically; the warm-up's keys hold none, so nobody
  reads them; `SET 2` after a failed increment may set the counter back.
* "TTL = 5 min at every layer" adds up to an age of nearly ten minutes.
* The invalidation endpoint's pattern misses the faculty, room, student and
  configuration keys.
* The rate limiter's middleware answers 429 for any exception of the handler, and
  each process counts for itself.
* Faculty conflicts are reported for any two classes of one day, since
  `time_slot` is not in an entry.

## 6. Proofs

`GenerationSaga_proofs` proves, for every set of runs, every `Infra` and every
`MaxFaults` (assumptions `InfraAssumption`, `MaxFaultsAssumption`):

| theorem | property |
|---|---|
| `TypeCorrect` | `TypeOK` |
| `VerdictsSound` | `SoundInv` |
| `SagaRefinesContract` | `ImplementsContract` |
| `CompletedStays` | `CompletedIsNeverTakenBack` |
| `SuccessIsDurable` | `SavedUnlessWriteFails` |
| `CancellationHonoured` | `CancelHonoured` |
| `KeysCleared` | `EphemeralKeysCleared` |
| `StatusesAgree` | `AgreeWhenQuiet` |

`GenerationJob_proofs` proves, with `MaxRetriesAssumption` added and for any number
of retries:

| theorem | property |
|---|---|
| `JobTypeCorrect` | `JobTypeOK` |
| `JobVerdictsSound` | `SoundInv`, now in the whole job |
| `HandedOverOnce` | `NoDoubleRun` |
| `CompletionsAreReal` | `NoPhantomCompletion` |
| `JobRefinesContract` | `ImplementsContract`, now of the whole job |
| `JobHonoursCancellation` | `CancelHonoured`, now of the whole job |
| `JobKeysCleared` | `EphemeralKeysCleared`, now of the whole job |

The saga's other promises are about the row (`SavedUnlessWriteFails`,
`AgreeWhenQuiet`, `CompletedIsNeverTakenBack`) and stay theorems of the saga alone:
Django's whole-instance saves break them (section 5, runs 3 and 4).

The modules of the pipeline and the serving side:

| module | theorem | property | for every |
|---|---|---|---|
| `PartitionedSolve_proofs` | `SolveTypeCorrect`, `RegistryAlwaysExact`, `CrossPhasesExclude`, `MissingWereBlocked` | `SolveTypeOK`, `RegistryExact`, `CrossPhaseExclusion`, `MissingOnlyWhenBlocked` | catalogue (`CataloguesAssumption`), departments that are not named like a bucket (`BucketsAssumption`), sentinels that are no slot or room (`SentinelAssumption`) |
| `DbPool_proofs` | `PoolTypeCorrect`, `NothingIsLost`, `RebuiltPoolKept` | `PoolTypeOK`, `NoConnectionLost`, `AnsweringPoolKept` | threads, addresses, pool limits and numbers of tries (`PoolSizesAssumption`) |
| `Optimise_proofs` | `SearchKeepsSessions`, `SearchNeverLoses`, `BestIsPersisted` | `SessionsSurviveSearch`, `SearchNeverWorsens`, `VariantPayloadSound` | courses with finitely many students, answers of the solver, weights that are not negative, sizes and numbers of generations (`GaAssumption`, `GaInputsAssumption`) |
| `JobData_proofs` | `JobDataStaysSound` | `JobDataSound` | section limit >= 1, offerings (`RowsAssumption`: the query aggregates distinct students), configurations of natural numbers whose default slot takes time (`ConfigsAssumption`) |
| `Stages_proofs` | `ClustersAreSound` | `ClusteringSound` | courses, threads, communities, sizes that fit each other as the code's constants do (`SizesAssumption`, `ClusterInputsAssumption`) |
| | `RoomsNeverRunOut` | `RoomDomainSound` | rooms, class size, bounds (`RoomBoundsAssumption`, `RoomInputsAssumption`) |
| | `OverlapExact` | `OverlapGraphSound` | offerings, students, staff lists (`StaffListsAssumption`) and enrolment rows |
| | `QTableStaysBounded` | `QTableBounded` | keys, semesters, `MaxTable` >= 1 |
| | `ReportsTellTheTruth` | `FacultyClashesReported` | entries the saga stores (`StoredAssumption`: with a day and a start time, without `time_slot`), limit of the list (`ReportsAssumption`) |
| `Serving_proofs` | `ListTypeCorrect`, `ListsIncludeEarlierChanges` | `ListTypeOK`, `ListIncludesEarlierChanges` | requests, changes, bound on versions |
| | `DogpileTypeCorrect`, `OneHolderPerLockHolds` | `DogpileTypeOK`, `OneHolderPerLock` | finite set of callers, retries, expiries |
| | `StatsStayYoung` | `StatsAgeBounded` | processes, `StatsTtl` >= 1 |
| | `WindowsNeverExceeded` | `WindowNeverExceeded` | number of clients, limit and window >= 1 (`RateAssumption`) |

The argument. `SoundInv` ties each run's control point to the milestones in
`stageDone` and to the outcome it is heading for: a run at a handler must carry
that handler's outcome, a run past CP-SAT its milestone. It is what makes the
refinement step go through, since `End` may only choose a verdict the milestone
justifies. `NothingLost` says what no step may undo (a completed row, a saved
timetable, the stored scores, the fault count), and gives `CompletedStays`
directly. `SavingInv` adds what holds between the two halves of the save;
`SavedUnlessWriteFails` is not inductive alone because it speaks only of runs
that already succeeded. `AskedInv` says where a requested cancellation is while
its run works: the flag is still in Redis and the run still before its last safe
point; it needs `SavingInv` for "no fault means Redis is up". `KeysInv` says that
a control key left in Redis has a run that will clear it. `AgreeInv` follows an
undisturbed run from its stages through one handler to its end and says at each
control point what the row and the progress key hold: `AgreeWhenQuiet` speaks only
of the end and is not inductive.

For the job, `OutsideSteps` says that whatever Django and Celery do is a step of the
saga or leaves its runs alone, so `SoundInv` carries over. `HandOverInv` says who may
still post the request (the thread, or one attempt of the task) and that nobody may
once a run was posted: the retry hands the token on, a lost answer burns it.
`PhantomInv` names every place from which an actor may learn that the job completed
(row, progress key, a message, the callback being executed, the healing view), says
that none of them says so before some run has passed its last stage, and that a run
in its save has.

`SolveInvariant` knows which sessions the bucket at hand may still place: buckets to
come are fresh (`BucketsToComeFresh`), the sessions of the bucket at hand are
unplaced or of the current epoch (`EpochOfBucket`), so an answer never touches a
settled session and the registry stays exact until the commit, which adds precisely
the current epoch. `CrossPhaseExclusion` then follows at each answer from the filter
of the domain and the exactness of the registry; neither is inductive alone.
`MissingInvariant` extends the third property to the greedy fallback at work.

`ListInvariant` adds to the property what a request holds: every version in use was
made, and what a request has queried holds the base of the version it will store
under. `HoldersCounted` counts the lock as one unit next to its holders, which is
why an expiry costs exactly one. `AgesBounded` follows a copy: in Redis age and time
left make one time to live, in a process at most two. `GraphBuilt` says what each
step of the graph leaves behind; the pairs are then exact by the two lemmas on
pairs of rows. `TablesBounded` is `QTableBounded` with the fact that the limit
applies to the stored policies a load puts back.

`OutsideSteps` gives more than the verdicts: the steps outside the saga are steps of the
saga's own environment or `LeftAlone` (runs, Redis and the requests to stop as they were,
at most one more fault), so the lemmas about what one step of the saga keeps
(`StepRefines`, `RedisStep`, `AskedStep`, `KeysStep`) are proved once and serve both
specifications. That is how the refinement, the cancellation and the control keys carry
over to the whole job; the row is not among the things left alone.

`PoolInvariant` has two halves. `Accounted` says where every connection is: threads that
ask hold none, no two threads hold the same, idle ones are nobody's, the pools share none,
and every open one is held or idle. The last part is `NoConnectionLost` once nobody is
running; the others are what it needs when an address is used again by a later connection.
`WakeSound` says who is waking the server: whoever does holds the lock, in its first
attempts it asks the current pool, and after the rebuild (`AfterRebuild`) the current
pool's connections answer, so a thread that reaches the reset again got there because the
pool was exhausted, not because the server slept. Neither half is a consequence of the
property it gives. A thread's step is described by what it changes (`Moves`, `WakeStep`),
and each of the lemmas on keeping, closing, giving back, taking and creating a connection
serves several actions.

`JobDataStaysSound` is arithmetic: where section i begins (`Begin`) makes the sections a
partition of the places of the list (`OneSectionPerPlace`), rounding up keeps each within
the limit, and the loop of a day is followed through its passes (`PassesExist`,
`DayInOrder`, `DayAfterPasses`) to the last period. `ClustersAreSound` rests on one fact:
the places of a set of courses in a list form a bijection with 0..n-1 (`PlacesOfList`).
From it follow how large a piece is (`SizeOfPiece`), that cutting loses and repeats nothing
(`PiecesCover`, `SplitDropsNothing`: with the code's constants no piece is ever below the
minimum and not the last), that large, kept and small communities cover
together what each covers (`CoversBoth`), and that the chunks of the threads reach every
pair (`ChunksReachAll`). `RoomsNeverRunOut` follows each of the four filters and the cuts
after them: a full cut keeps the limit (`FewerAhead`), and what it leaves out fits worse
than all it keeps (`LeftOutByFit`) or is listed later (`LeftOutInOrder`).

`SearchInvariant` says of a search under way that its best is no worse than the answer it
began with and carries its true fitness, and of the finished ones that each was measured by
its own weights and that the chosen one is the first of the fittest (`FirstBest`). That the
fitness is a natural number, whatever the solution, is most of the work
(`FitnessIsNat`); it is what makes the initial `-1` lose. `VariantPayloadSound` then needs
that rounding leaves the best with the full score (`BestScoresFull`) and no score above it
(`NoneAboveFull`), so that the best is recommended whatever the others are
(`FullIsRecommended`), and that rounding to whole percents adds half a percent at most
(`ListedIsClose`), so that nothing else recommended is far below (`RecommendedIsClose`).

`PagesExact` says of the conflict report what it was computed from; `ClashesFound` finds
the clash among all conflicts, and `ShorterListIsFull` that a list without it was cut.
`RecordsExact` says of the limiter that the recent ones among the requests it remembers
are exactly those it let through in the last minute, and that it never remembers more than
the limit.

Two devices recur. States kept in one record are proved about through lemmas on constants
(a record in, a record out), so that no leaf has to unfold a record and a set at once. Where
a fact needs induction over the naturals (passes of a loop, places of a list), the least
counterexample is taken instead, because the library's induction theorems cannot be
instantiated.

Every step lemma has one case per action. Temporal steps are closed by the
propositional temporal logic backend.

Every safety property of a passing run is a theorem. Only model-checked: the liveness
properties `ProgressSettles`, `JobSettles`, `EventuallyFresh`, `StreamEnds` and
`ReviewSettles`, since liveness under fairness is out of the prover's reach.

## 7. Not modelled, and what is left

Left to do: an abstract specification of what the connection pool promises its threads (a
connection is lent to one of them at a time), refined by `DbPool`; safety properties of
`DataCache`, `ProgressStream` and `ReviewCache`, which today promise only liveness, with
their proofs; a refinement that puts the stage modules into the saga's stages (today they
meet at a value).

Parts of modelled components left out: HC3, HC4 and HC5 of CP-SAT (switched off in
every strategy); of the review pages the acknowledgements (read, extended and written
back without a lock), the summary, the department filter, the comparison of two
variants, and the entries of a variant as the view caches them or the task warms them;
what the views behind `get_or_set` answer; the rewards and states of Q-learning; what
four of the six fetches make of their rows, `fetch_batches` and `save_timetable` (no
caller); `mget`, `mset`,
`cache_on_commit` and `cached_view` (no caller); the in-process cache when Redis is
missing at start; connection settings remembered by `id()`; percentages, ETA and
labels. Three hazards have no property and say why in `PROJECT.json`: the first
uncaught Redis delete of the handlers (`generation_service.py:118`), which leaves a
row `running` and which no document denies; the solver thread that outlives a
timeout (`saga.py:696`), which writes nothing the models can see; and the two cuts of
warmed entries (`celery_tasks.py:183`), which are sequential and plain in the source.

Components left out: circuit breaker, bulkhead and adaptive executor (nothing calls
through them at this commit); memory monitor (measured memory against thresholds);
authentication (delegated to simplejwt); CRUD views, serializers, models and
migrations (generated by the framework); the frontend.
