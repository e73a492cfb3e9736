# TLA+ verification of the async AI document pipeline

The pipeline takes an uploaded document, queues it on a Redis stream, and lets
worker processes extract a structured record from it with a language model.
PostgreSQL is the record of truth, Redis only carries events. Delivery is at
least once; the code is meant to make the effects happen once. This directory
models that machinery in TLA+, checks it with TLC, and proves with TLAPS what
holds for every number of documents, workers and requests.

## 1. Inventory

| Component | State | Operations | Talks to | Hard because |
|---|---|---|---|---|
| Job service (`app/services/job_service.py`, models, migration) | rows of `processing_jobs`, `extraction_results` | create, `claim_job`, `mark_*`, `reset_for_manual_retry` | called by API and workers | `claim_job` is one conditional UPDATE; the others flush an object loaded earlier, without a version check |
| Redis queue (`app/services/queue.py`) | stream, pending entries list, retry set | publish, schedule, pop, read, claim, ack | called by API and workers | redelivery, delivery counts, calls whose reply is lost |
| API (`app/api/routes`) | requests in flight | upload, manual retry | job service, then queue | commit and publish are two steps; requests race each other and the workers |
| Worker (`app/worker`) | three asyncio tasks per process | consume, recover, reschedule, shut down | queue, job service, provider | crashes, signals, slow attempts, two thresholds that must fit together |
| One attempt (`processor._run`, `app/llm/openai_provider.py`) | calls made, time spent | read, extract text, classify, extract, repair, persist | storage, provider | retries at three levels; should end before the row is stale, which no setting ensures |
| Upload validation, storage, text extraction | the file | read the body, validate, save; read back, extract | API writes, worker reads | partial writes; two tables of file types |
| Failure classification (`exceptions.py`, `retry_policy.py`) | none | `is_retryable`, `should_retry`, `compute_delay` | worker | what is retried decides cost and end |
| Startup and shutdown (`worker/main.py`, `api/main.py`, `db/session.py`, `queue.connect`, `health.py`) | open connections, the consumer group | wait for dependencies, create the group, build the provider, `/ready`, close | PostgreSQL, Redis, orchestrator | any start order; dependencies that refuse, hang and come back; signals before the loops run |
| Reads (`GET` handlers, `metrics.py`) and the connection pool | requests in flight, connections checked out | page, job, metrics summary | tables, Redis | several statements over rows that move; connections held while Redis is asked |
| Dashboard (`static/dashboard.js`) | the table shown, the upload form | poll, retry, upload | API | polls overlap, fail and are answered out of order |
| Configuration, logging, prompts, deployment | none | | | thresholds nobody checks against each other |

What makes each correct:

- job service: completed is final and has its result; a processing row can go
  stale; the retry count stays in its budget and counts every retry; every
  setback has a reason;
- queue and workers: one attempt per job at a time; every unfinished job is
  carried by an entry, a scheduled retry, an attempt or a request; every entry
  is eventually acknowledged; every document settles; shutdown ends and loses
  nothing;
- API: a job exists before its event; a job nothing delivers can be retried;
- attempt: the model is asked again only for an unusable answer; the attempt
  ends after at most four calls, in a classified outcome; what is stored fits
  its document type;
- intake: a committed job has a whole, genuine, readable file;
- startup: every start ends, a sound deployment comes up once its dependencies
  stay up, nobody serves without the group, a stop completes and releases;
- reads: a reply is coherent although it is read in several statements, every
  job is counted once, every connection returns to the pool;
- dashboard: what it shows comes to agree with the tables, and the form comes
  back after every upload.

`PROJECT.json` lists the hazards behind these, each at its source line.

## 2. Modules

| Module | Models | Source |
|---|---|---|
| `Environment` | what happens to the system: faults by kind and number, manual retries | external |
| `JobService` | the tables and every function that writes them | `job_service.py`, `db/models`, `db/session.py` |
| `RetryPolicy` | `should_retry`, and the delays `compute_delay` can draw | `retry_policy.py` |
| `RedisQueue` | stream with one consumer group, pending list, retry set | `queue.py`, `events.py` |
| `Api` | `upload_document` and `retry_job` as interleaved steps | `api/routes/documents.py`, `jobs.py`, `publisher.py` |
| `Worker` | the three tasks of every worker, `process`, `_handle_failure`, signals, crash, restart | `app/worker` |
| `Pipeline` | the composition, time, fairness, and all properties | |
| `JobLifecycle` | abstract: the life of a job as a client sees it | `ALLOWED_TRANSITIONS` and the functions that move a job |
| `MCPipeline` | `Pipeline` for TLC | |
| `Attempt` | one `_run` with either provider, and the schemas | `processor.py`, `app/llm`, `schemas/extraction.py`, `exceptions.py`, `retry_policy.py` |
| `WorkStage` | abstract: what `Worker` assumes of an attempt | |
| `Intake` | one upload from its body to the text read back | `documents.py`, `file_validation.py`, `file_storage.py`, `text_extraction.py` |
| `Startup` | the API and worker processes from start to exit | `worker/main.py`, `api/main.py`, `session.py`, `queue.py`, `factory.py`, `health.py` |
| `Reads` | requests as sequences of SQL statements, and the pool; extends `JobLifecycle` | `job_service.py`, `jobs.py`, `metrics.py`, `session.py` |
| `Dashboard` | the browser over `Reads` | `static/dashboard.js` |
| `PipelineProofs` | table invariants of `Pipeline`, unconditionally | |
| `ExclusionProofs` | exclusion, and the refinement of `JobLifecycle`, under their conditions; extends `PipelineProofs` | |
| `CarrierProofs` | no job is stranded, under the conditions each part needs; extends `ExclusionProofs` | |
| `AttemptProofs`, `IntakeProofs`, `StartupProofs`, `DashboardProofs` | inductive invariant and theorems of the module each is named after | |

How state and steps correspond to the code:

- **Rows and objects.** `job[j]` is the row. A session's object is a copy
  (`obj` of a request or slot) taken by `get_job`. `Flush(row, old, new)`
  writes the columns in which `new` differs from what was loaded and leaves the
  rest of the row alone, as SQLAlchemy does; transitions are checked on the
  object (`is_transition_allowed(obj.status, ...)`), not on the row.
- **Steps.** Each database or Redis call is one step; everything between two
  calls belongs to one of them. A slot's `pc` names the call it makes next.
  The commit of `_persist` and the UPDATE of `claim_job` are one step each.
- **Raising calls.** Each call has a companion action (`...Raises`), which
  takes a fault from the budget; the call may or may not have had its effect.
  Where the exception goes is the code's: `_run` failures to `_handle_failure`,
  a failed `schedule_retry` to `mark_failed`, others out of `process` with the
  entry left pending, a failed final `ack` out of the TaskGroup, ending the
  process.
- **Redis.** The stream keeps every entry with its state, delivery count and
  idle time; `redis_read_count` is 1. A scheduled retry is its job and the
  ticks left. The group exists from the start (`ensure_group` precedes use).
- **Time.** `Tick` ages `started_at`, idle entries, scheduled retries and
  running attempts. With `PromptIO` no tick passes between two calls of a slot
  except while it extracts; without it calls may take any time. An attempt
  lasts at most `MaxWork` ticks. That is an assumption on the provider and the
  network and follows from no setting: `llm_timeout_seconds` is httpx's timeout
  of one network operation (to connect, to write, each read of the reply), so a
  reply that arrives in pieces may take any multiple of it. `Attempt` models the
  operations of a call and shows what does follow: the time of four calls.
- **Delays.** `compute_delay` gives the set of ticks a jittered backoff may fall
  in: the bounds of the jitter are rounded outwards, since a delay is a real
  number of seconds.
- **Answers.** `Attempt` keeps of a model answer which schema it satisfies and
  its confidence; `Accepts` is what `_parsed_model` lets pass. A ValidationError
  raised by the SDK's own parsing is not caught by `_complete` and ends the
  attempt (`Mismatch`). The fake provider guesses the type from the keywords
  that occur and may raise on its invoice marker.
- **Startup.** `pc` names the call a process makes next. Beside up and down
  PostgreSQL may be starting (it answers and refuses sessions) and Redis may be
  silent, which the code treats differently. What asyncpg raises for a starting
  server is no `SQLAlchemyError` unless SQLAlchemy wraps it, and
  `pyproject.toml` leaves the version open, so both outcomes are allowed. One
  thing may be wrong with the deployment (`misconfigured`): the storage root,
  the stream key, the API key. `held` is what a process has opened and not
  closed, `unclosed` what it tried to close in vain.
- **Reads.** `Statements` lists the SQL statements and Redis calls of each
  handler in order; each is a step that sees the tables of that moment (READ
  COMMITTED). The jobs move by the steps of `JobLifecycle`, which `exclusive`
  shows to be what the tables do. The three statements of the metrics are one
  step, because only the GROUP BY is kept. The job page's `get_job` runs the
  first two statements of a page and has no action of its own. `RequestFails` is
  any way a request can end without a reply.
- **Dashboard.** `board` is the table, `submit` the upload form. A request's
  `Deliver` is the settling of its promise.
- **Mutants.** Definitions marked "Faulty" are the mutated forms the mutation
  runs substitute; no specification uses them.

`started_at` is kept as an age that saturates just above `StaleAfter`, and only
its being NULL matters in a loaded object. Timestamps for display, consumer
names, durations and the texts of messages are left out; `error_message` keeps
which place wrote it.

## 3. Runs

All pipeline runs use `MCPipeline`. The default configuration has 60 s pending
idle and 600 s stale, and `exclusive`, `progress` and the violations assume of
the provider that an attempt ends between the two (with calls that each take
their 60 s at most, the longest attempt is 240 s): `MinIdle = 1 < MaxWork = 2 <
StaleAfter = 3`. `overlap` is the run without that assumption. "Repaired
order" below means `MinIdle = 2 > StaleAfter = 1 >= MaxWork = 1`: an entry is
redelivered only when its row is stale.

| Run | Bounds | Shows | Properties |
|---|---|---|---|
| `overlap` | 1 job, 1 worker (2 slots), every fault kind, 1 fault, 1 manual retry, `StaleAfter = 0`, slow I/O | tables stay consistent although attempts overlap and stale objects are flushed | `TypeOK`, `CompletedHasResult`, `ProcessingHasStart`, `RetryCountBounded` |
| `exclusive` | 1 job, 2 workers, 1 request, 1 fault (worker crash, signal, failed call, API crash), 1 manual retry, default order | one attempt at a time; no second extraction; completed is final; every retry is counted; the tables implement `JobLifecycle` | `AtMostOneAttempt`, `NoSecondExtraction`, `SetbackHasReason`, `CompletedIsForever`, `RetriesAreCounted`, `ImplementsLifecycle` |
| `crash_recovery` | 2 jobs of which one kills its worker, 1 worker (2 slots), 1 fault (crash, signal, failed call, foreign entry) besides the kills, 1 manual retry, no automatic retries, repaired order; fair | no entry is redelivered too early; no queued or processing job is ever without a carrier; the delivery count gives up the poison document, the other settles, every entry is finally acknowledged | `TimelySweep`, `ProcessingIsCarried`, `QueuedIsCarried`, `EveryJobSettles`, `StreamDrains` |
| `progress` | 1 job, 2 workers, 2 retries with backoff 2 and 50% jitter (1 to 3 ticks), 1 fault (signal or foreign entry), default order; fair | every document settles; shutdown ends, and abandons neither a job nor a popped retry | `EveryJobSettles`, `ShutdownEnds`, `ProcessingIsCarried`, `RetryingIsCarried` |
| `attempt` | both providers, every declared type, every answer; tick = `llm_timeout_seconds`, up to 3 network operations per call; fair | at most four calls, each repair for an unusable answer, stores what the type promises, implements `WorkStage` | `AttemptTypeOK`, `RepairOnlyUnusable`, `StoredFitsType`, `ImplementsWorkStage` |
| `startup` | 1 API, 1 worker, 2 attempts per loop, 3 faults (outage, kill, signal), any initial state of the dependencies, any one misconfiguration; fair | a start always ends; a sound deployment comes up; a stop completes; `/ready` follows the dependencies | `StartupTypeOK`, `GroupBeforeServing`, `StoppedReleases`, `StartupDecides`, `ComesUp`, `SignalEnds`, `ReadinessFollows` |
| `dashboard` | 1 job, 1 automatic retry, 2 requests in flight, a pool of 1, unbounded failures, manual retries and polls; fair | replies are coherent, connections return, the table converges, the form comes back | `DashboardTypeOK`, `PageIsCoherent`, `EveryJobCountedOnce`, `ConnectionsReturned`, `BoardConverges`, `SubmitReenabled` |
| `intake` | every combination of name, type, content and size up to twice the limit, failure or crash at every step | a committed job has a whole, genuine, readable file | `RowHasFile`, `EventHasRow`, `OnlyGenuineIsStored`, `AcceptedIsReadable` |

Bounds. One job suffices for most runs because jobs share only the stream and
the tasks that serve it; `crash_recovery` has two because there the sharing is the
point. Two workers give four slots, enough for a redelivery
to race both a live attempt and another redelivery. `MaxRetries = 1` reaches
first attempt, retry and exhaustion. One fault at every place is what the
single-failure claims of the repository are about; in `crash_recovery` the kills
of the poison document are not counted, so a failure during recovery from
another happens as well. Three faults of `startup` are an outage of each
dependency and a kill or a signal. Two requests in flight are what it takes for
replies to overtake each other, and a pool of 1 is one that is exhausted. Three
network operations per call let a call outlast its timeout in each of its parts.
The stream needs no bound of its own: faults, retries and manual retries limit
what is published. `CHECK_DEADLOCK FALSE` is
set only for `Attempt` and `Intake`, which end, and for `Startup`, where every
process may have been told to stop.

### What the code does not do

Each of these runs is expected to end in a violation; the finding in
`PROJECT.json` quotes the line of the repository that says otherwise.

| Run | Property | What happens |
|---|---|---|
| `abandoned_by_crash` | `ProcessingIsCarried` | A worker dies. The sweeper reclaims the entry at 60 s idle, `claim_job` refuses the row (stale only at 600 s), `SKIPPED` is acknowledged. The job is processing forever. |
| `lost_retry` | `RetryingIsCarried` | `schedule_retry` precedes `mark_retrying`. If the event is delivered in between it is skipped and acknowledged. No fault needed, only a commit slower than the retry delay (2 s minus jitter). |
| `double_retry` | `AtMostOneAttempt` | Two concurrent manual retries both see `failed`; the second flushes `queued` over a row being processed. |
| `ambiguous_publish` | `CompletedIsForever` | `XADD` succeeds, its reply is lost, a worker completes the job, then `upload_document` writes `failed` from its old copy. |

The passing runs above say under which conditions the same properties hold:
`crash_recovery` with the repaired order of thresholds, `progress`
with prompt calls, `exclusive` with one request at a time and no lost reply to
the API.

`crash_recovery` sets `MaxRetries = 0` because a crash between popping a due retry and
publishing it loses that retry, as the repository's README says in its
limitations; with automatic retries `EveryJobSettles` does not survive a crash.

Smaller disagreements, met while modelling, without a run:

- `services/publisher.py:4-6` and the README's limitations say that a job left
  `queued` by an API crash between commit and publish, or left `retrying` by a
  lost retry, is recoverable with a manual retry. `ALLOWED_TRANSITIONS` has no
  edge from either to `queued`, so `retry_job` answers 409.
- The README's "one event in flight per worker process" does not hold: the
  TaskGroup runs the consumer and the recovery loop concurrently and both call
  `StreamConsumer.handle` (a slot is one of the two for this reason).
- `_map_openai_error` makes every provider status other than 401, 403 and 429
  retryable, while the README lists only rate limits, timeouts and 5xx.
- `validate_magic_bytes` refuses every `.txt` upload that is not UTF-8, so the
  cp1252 fallback of `extract_txt` is never reached.
- An answer that violates the schema inside the SDK's `parse` raises pydantic's
  ValidationError there; `_complete` does not catch it, so the repair that
  `_parse` describes is not attempted for it.
- `FakeLLMProvider` promises a schema-valid payload, but `_find_after` raises
  IndexError when the text ends right after the marker.
- `connect` is to wait "until Redis answers or the budget runs out"; a silent
  Redis raises `redis.TimeoutError`, which is not caught, at the first attempt.
  The restart policy makes up for it (`ComesUp`).
- "Both thresholds exist so a *live* worker is never robbed of work it is still
  doing" (`README.md:344-345`): nothing keeps an attempt below
  `stale_processing_seconds`. A provider whose replies come slowly, each piece
  within the timeout, makes attempts overlap. The tables survive that
  (`overlap`), but two overlapping attempts that fail can both schedule a retry
  and write the same `retry_count`, two retries for a budget of one.
- `documents.py:20-21` says that an oversized file is rejected before it has
  been buffered as a whole; the framework has spooled the whole upload before
  `_read_within_limit` runs, and the accepted chunks are joined into a second
  copy.
- `check_database` "never raises, so a readiness probe cannot 500"
  (`session.py:128`): an unwrapped error of a starting server does
  (`answer = "error"`), and lets `wait_for_database` end at its first attempt.
- `schemas/events.py:50-52` says `attempt` is for the backoff calculation;
  `_handle_failure` uses the row's `retry_count`.
- The README and `JobSummary.is_terminal` call a terminal status the dashboard's
  signal to stop polling; `dashboard.js` never stops, and must not, since a
  failed job may be retried (`BoardConverges` fails for a dashboard that does).

### Fairness

`FairSpec` assumes weak fairness of each slot's steps, each scheduler and
process step, each accepted request, and time. The event loop resumes a task
whose await has completed; every network operation of a provider call ends in an
answer or a timeout (`AsyncOpenAI(timeout=...)`) and a reply has finitely many
pieces, every Redis read in a reply or the end of its
block time; and Compose restarts a worker that exits (`restart:
unless-stopped`). Nothing is assumed about which way a choice goes: extraction
may fail every time, and no fault or manual retry has to happen. A choice
between failing and succeeding is inside one slot's fairness, so success is
never assumed.

`StartupSpec` assumes that a process runs, that the orchestrator restarts one
that failed without being told to stop, and that it keeps probing; nothing makes
an outage end, which is why `ComesUp` has the dependencies' staying up as its
hypothesis. `DashboardSpec` assumes that the timer keeps firing, that the pool
serves its waiters in turn (strong fairness of `Acquire`; SQLAlchemy's queue is
first in, first out), that each statement ends and each promise settles. The
fairness of polling is strong because the limit on requests in flight is the
model's. `BoardConverges` has as its hypothesis that jobs stop moving and
requests stop failing.

## 4. Proofs

All theorems hold for all values of the constants that satisfy the assumptions
named in the modules that declare them (`EnvironmentAssumption`,
`JobServiceAssumption`, `QueueAssumption`, `RetryPolicyAssumption`,
`WorkerAssumption`, `PromptIOAssumption`, `AttemptAssumption`,
`IntakeAssumption`, `StartupAssumption`, and `ReadsAssumption`, by which jobs
and requests are finite sets). Five kinds of hypothesis go beyond that; the
code enforces none of them, and each theorem that needs one says so:

- on the settings: `EveryAllowedIsParsed` (every allowed extension has an
  extractor), which the shipped settings satisfy and no validator checks.
  `DelaysLast`, no retry is due in the tick in which it is scheduled, holds of
  the shipped delays (at least 1.6 s) when a tick is no longer than that.
  `RepairedOrder` (`StaleAfter < MinIdle`) does not hold of the shipped
  settings; only `RepairedIsTimely`, which says what they would have to be,
  uses it.
- on speed: `PromptClaims`, that no tick passes between two calls of a slot
  while it is not extracting (`PromptIO`) and that an attempt ends before its
  row is stale (`MaxWork <= StaleAfter`). Both are about PostgreSQL, Redis and the
  provider; with 600 s the shipped settings leave room for the second, and
  ensure it as little as the first.
- on the sweep: `[]TimelySweep`, no entry is redelivered while a task still
  handles it, or while the row of its job is processing and not stale. With the
  shipped settings some behaviours satisfy it (no redelivery comes early) and
  some do not: those are the finding of `abandoned_by_crash`.
- on the API: `[]QuietApi`, no request is about to write `failed` after a
  publish that raised, and no two requests are about to reset the same job.
  `double_retry` and `ambiguous_publish` show that exclusion and finality fail
  without it. `CalmIsQuiet` shows that every instance without API faults and
  with one request at a time, or one manual retry, is quiet; that of the run
  `exclusive` is one.
- on the faults: `ReliableApi` (neither `apiIo` nor `apiCrash`) and
  `LosslessWorkers` (neither `io` nor `crash`, and no poison document). What is
  not excluded may happen in any number and order.

### The pipeline

| Theorem | Statement | Hypotheses |
|---|---|---|
| `TypeCorrect` | `Spec => []TypeOK` | |
| `ResultBeforeCompleted` | `Spec => []CompletedHasResult` | |
| `ProcessingCanGoStale` | `Spec => []ProcessingHasStart` | |
| `RetriesWithinBudget` | `Spec => []RetryCountBounded` | |
| `OneAttemptAtATime` | `Spec /\ []QuietApi => []AtMostOneAttempt` | `PromptClaims` |
| `ExtractedOnce` | `Spec /\ []QuietApi => []NoSecondExtraction` | `PromptClaims` |
| `SetbacksAreExplained` | `Spec /\ []QuietApi => []SetbackHasReason` | `PromptClaims` |
| `PipelineIsLifecycle` | `Spec /\ []QuietApi => ImplementsLifecycle` | `PromptClaims` |
| `EveryRetryCounted` | `Spec /\ []QuietApi => RetriesAreCounted` | `PromptClaims` |
| `CompletedIsFinal` | `Spec /\ []QuietApi => CompletedIsForever` | `PromptClaims` |
| `CalmIsQuiet` | `Spec => []QuietApi` | `CalmInstance` |
| `QueuedNeverStranded` | `Spec /\ []QuietApi => []QueuedIsCarried` | `PromptClaims`, `ReliableApi` |
| `CrashNeverStrands` | `Spec /\ []QuietApi /\ []TimelySweep => []ProcessingIsCarried` | `PromptClaims` |
| `RepairedIsTimely` | `Spec /\ []QuietApi => []TimelySweep` | `PromptClaims`, `RepairedOrder` |
| `AttemptNeverAbandoned` | `Spec /\ []QuietApi => []ProcessingIsCarried` | `PromptClaims`, `LosslessWorkers` |
| `RetryNeverLost` | `Spec /\ []QuietApi => []RetryingIsCarried` | `PromptClaims`, `LosslessWorkers`, `DelaysLast` |

The first four are unconditional: they survive overlapping attempts, slow calls
and every fault. `CompletedHasResult`, `ProcessingHasStart` and `RetryCountBounded`
are not inductive, because a flush writes what an object says: a slot or request
that loaded the row long ago decides what the row becomes. The inductive
invariant `Inv` adds what requests and slots know about the objects they will
flush. A request about to reset its job loaded it as `failed`, so its flush
writes the status together with the NULL `started_at` (otherwise a row could end
up processing without a start). A slot about to schedule a retry, or to mark the
row `retrying`, has seen a retry count below the budget, so the count it writes
is within it. Whoever names a job or an entry names one that exists. Nothing in
`Inv` relates an object to the current row.

`Sound`, the inductive invariant of `ExclusionProofs`, is the relation `Inv`
leaves out. A slot that holds a job finds its row processing with `started_at`
as old as the slot's attempt, or completed by its own commit whose reply was
lost; the object a slot or request will flush agrees with the row; the row of a
request about to reset is `failed`; a stored result belongs to a completed row; a
setback carries its reason; and no two slots hold one job. It is inductive because
`claim_job` is the only way to a row that somebody holds, and its staleness
test cannot succeed while the holder's age, at most `MaxWork`, equals
`started_at`: that is where both parts of `PromptClaims` are used. The proof has
a frame lemma (what a step on one job leaves true of the other slots), one
lemma per step of a slot, and one step per action; each action is also shown to
be a step of `JobLifecycle` or invisible, since the same case analysis decides
both. `PipelineIsLifecycle` and, from it, `CompletedIsFinal` follow.
`EveryRetryCounted` follows from the agreement of the flushed object with the row.

The theorems of `CarrierProofs` generalise the runs `crash_recovery` (which
satisfies the hypotheses of the first three) and `progress` (of the last two).
`CrashNeverStrands` assumes nothing of the order of the thresholds: it says that
an early redelivery is the only way in which a crash or a failed call strands a
processing job, with the shipped settings too. Each
hypothesis is needed: `abandoned_by_crash` refutes `ProcessingIsCarried` with
neither `TimelySweep` nor `LosslessWorkers`, and `lost_retry` refutes
`RetryingIsCarried` when a delay can run out before the row is written; a
request that dies between the commit and the publish leaves a queued job with
no event, which is why the first needs `ReliableApi`.

`OnStream` is not inductive: an entry that is still unacknowledged may be about
to be acknowledged. The invariants therefore speak of *live* entries, which no
slot is about to acknowledge. `Moves` summarises, for every action but `Tick`,
what a step can do to an entry, a slot and a row (one lemma per action); the
invariants are then preserved by arguments about `Moves` and `Tick` alone:

- `QueuedLive`: only `publish_job` ends a request with a queued row, and it
  appends a live entry. An entry stops being live only when a slot settles its
  job (`Settles`: the claim is refused, or the row is written), and neither
  happens to a row that stays queued, because `claim_job` accepts it.
- `Owned` and `ProcessingRecovers`, under `[]TimelySweep`: a slot is alone with
  the entry it handles, which is pending and has been idle no longer than the
  slot has been working, since no sweep takes an entry from a task. So the entry
  of a processing row has never been idle longer than the row has been
  processing; when it is redelivered the sweep is timely, so the row is stale,
  and `claim_job` takes the job over instead of refusing it and acknowledging
  its only entry.
- `RepairedIsTimely`: under `RepairedOrder` `Owned` keeps itself going. A handled
  entry is idle no longer than an attempt lasts, which is less than `MinIdle`,
  so an entry idle for `MinIdle` is handled by nobody.
- `ProcessingAttempted`, under `LosslessWorkers`: a slot that lets go of a job it
  had claimed leaves its row out of `processing` (`HoldsOn`).
- `NotYetDue` and `RetryingLive`: between `schedule_retry` and `mark_retrying`
  the retry is in the sorted set with at least a tick left, and no tick passes;
  so when the row becomes `retrying` its event is still scheduled. From then on
  `claim_job` accepts the row, so no delivery of the event is refused.

`Inv`, `Sound` and all of these were also checked by TLC on instances of the
runs before they were proved.

### The components

| Theorem | Statement | Hypothesis |
|---|---|---|
| `AttemptTypeCorrect` | `Spec => []AttemptTypeOK` | |
| `RepairsAreBounded` | `Spec => []RepairOnlyUnusable` | |
| `CommittedFitsType` | `Spec => []StoredFitsType` | |
| `AttemptIsWorkStage` | `Spec => Stage!Init /\ [][Stage!Next]_(Stage!stageVars)` | |
| `CommittedHasFile` | `Spec => []RowHasFile` | |
| `PublishedIsCommitted` | `Spec => []EventHasRow` | |
| `StoredIsGenuine` | `Spec => []OnlyGenuineIsStored` | `EveryAllowedIsParsed` |
| `AcceptedCanBeRead` | `Spec => []AcceptedIsReadable` | `EveryAllowedIsParsed` |
| `StartupTypeCorrect` | `StartupSpec => []StartupTypeOK` | |
| `GroupExistsFirst` | `StartupSpec => []GroupBeforeServing` | |
| `StoppedHasReleased` | `StartupSpec => []StoppedReleases` | |
| `DashboardTypeCorrect` | `DashboardSpec => []DashboardTypeOK` | |
| `PagesAreCoherent` | `DashboardSpec => []PageIsCoherent` | |
| `JobsAreCountedOnce` | `DashboardSpec => []EveryJobCountedOnce` | |
| `NoConnectionLeaks` | `DashboardSpec => []ConnectionsReturned` | |

- `AttemptInv`: the call an attempt waits for is the last of the log, for the
  operation it is at; the log is classifications followed by extractions, each
  operation at most twice and the first of two answered unusably; the time
  spent is at most `CallTime` (one timeout per network operation) for each call,
  less what is left of the outstanding one; an output that is ready to be stored
  fits its type. Hence at most four calls, and a step of `WorkStage` for every
  step, with `MaxWork` the time of four calls.
- `IntakeInv`: each stage of `upload_document` keeps what the stages before it
  established (the upload validated, the file whole, the row committed), also
  when the process dies there.
- `StartupInv`: which phases an API and a worker go through, that past
  `ensure_group` the group exists, and which of the things a process holds may
  be left when a given close comes next (`ClosedInOrder`, of which
  `StoppedReleases` is the last case).
- `DashboardInv`: a request's snapshots relate to the tables of now, not of the
  time they were taken. It works because rows are never deleted and results
  never withdrawn (`Grow`): a row seen as completed has its result in every later
  read, and a later count covers every row seen before. For the metrics the five
  counters are cardinalities of disjoint sets that together hold exactly the
  jobs there were. The pool has one connection out per request being served.

### Only model-checked

- All liveness properties, and with them the fairness half of
  `ImplementsWorkStage`: fairness and ENABLED are out of the prover's reach.

## 5. Not modelled

- Parsing inside pypdf and python-docx, the formatting of `normalise`, prompts,
  logging, the rendering of error bodies, templates, infrastructure code.
- The fields of the extraction schemas beyond which schema an answer satisfies.
- Filters and offsets of the job list. With a status filter a job may leave the
  filter between the page and the count, so a filtered total may be below the
  rows shown; with an offset, uploads shift the pages.
- `LocalFileStorage.delete` and `exists`, which have no caller.
- The settings are constants. Their only cross-field rule that matters, the
  order of the thresholds, is in no validator; the runs of section 3 say what each
  order gives.
- Loss of data inside PostgreSQL or Redis (a vanished consumer group is created
  again only by a restart), clock skew between workers, and a file lost by the
  operating system after `write_bytes` returned (there is no `fsync`).
- The growth of the stream: `XADD` has no `MAXLEN`, so acknowledged entries stay.
- A database connection that hangs in `SELECT 1` after it was accepted: the
  driver sets no command timeout there, so the attempt lasts as long as the
  hang.
- The memory an upload takes: the chunk that exceeds the limit, the joined copy
  and the framework's spool file are not counted (`Intake` counts chunks only to
  decide when `_read_within_limit` refuses).

## 6. Plan

1. Done: the pipeline with its faults, the retry policy, the attempt with both
   providers, the intake, startup and shutdown, the reads and the dashboard.
2. Done: every invariant and every safety action property of the runs, as
   theorems: type correctness and the table invariants, exclusion and the
   refinement of `JobLifecycle`, the carrier invariants, the invariants of the
   component modules, the safety half of the refinement of `WorkStage`.
3. Next: drop `PromptClaims` from `QueuedNeverStranded`. TLC finds no
   counterexample when calls are slow (one job, one worker, every worker fault),
   but the summary `Moves` rests on `Sound`, which needs it. `RetryNeverLost`
   cannot be extended to crashes: a worker that dies after it popped a due retry
   and before it published it takes the event with it, in any order of the
   thresholds.
