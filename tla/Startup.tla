------------------------------ MODULE Startup ------------------------------
(***************************************************************************)
(* The API and the worker processes from their start to their exit: what   *)
(* each waits for, what it gives up on, what it holds and releases, and    *)
(* the readiness probe.  What a serving worker does is in Worker.          *)
(*                                                                         *)
(* A process that fails is started again by the orchestrator, unless it    *)
(* was told to stop (docker-compose: restart: unless-stopped).             *)
(***************************************************************************)
EXTENDS Naturals

CONSTANTS
    Apis, Workers,  \* the processes
    MaxAttempts,    \* db_connect_max_attempts and redis_connect_max_attempts
    MaxFaults       \* bound: outages, kills and stop signals

ASSUME StartupAssumption == /\ MaxAttempts \in Nat
                            /\ MaxFaults \in Nat
                            /\ Apis \cap Workers = {}

VARIABLES
    pc,             \* pc[p]: what p is doing
    attempt,        \* attempt[p]: failed attempts of the loop p is in
    held,           \* held[p]: what p has opened and not closed
    unclosed,       \* unclosed[p]: what p has tried to close in vain
    stop,           \* stop[p]: p has received SIGTERM or SIGINT
    probe,          \* probe[p]: the first half of a readiness probe
    answer,         \* answer[p]: what /ready said last
    db,             \* PostgreSQL: "up", "down", or "starting": connects but refuses sessions
    redis,          \* Redis: "up", "down", or "hanging": connects but is silent
    group,          \* the consumer group exists
    misconfigured,  \* the one thing wrong with the deployment
    faults          \* faults so far

processVars == <<pc, attempt, held, unclosed, stop, probe, answer>>
startupVars == <<processVars, db, redis, group, misconfigured, faults>>

Processes == Apis \cup Workers

\* lifespan and run_worker.
First(p) == IF p \in Apis THEN "storage" ELSE "database"

After(p) == IF p \in Apis
            THEN [storage |-> "database", database |-> "redis", redis |-> "group",
                  group |-> "serving"]
            ELSE [database |-> "redis", redis |-> "group", group |-> "provider",
                  provider |-> "storage", storage |-> "serving"]

StartupInit == /\ pc = [p \in Processes |-> First(p)]
               /\ attempt = [p \in Processes |-> 0]
               /\ held = [p \in Processes |-> {}]
               /\ unclosed = [p \in Processes |-> {}]
               /\ stop = [p \in Processes |-> FALSE]
               /\ probe = [p \in Processes |-> "idle"]
               /\ answer = [p \in Processes |-> "none"]
               /\ db \in {"up", "down", "starting"}
               /\ redis \in {"up", "down", "hanging"}
               /\ group = FALSE
               /\ misconfigured \in {"nothing", "storage", "stream", "key"}
               /\ faults = 0

-----------------------------------------------------------------------------
Opens(p, things) == /\ pc' = [pc EXCEPT ![p] = After(p)[@]]
                    /\ attempt' = [attempt EXCEPT ![p] = 0]
                    /\ held' = [held EXCEPT ![p] = @ \cup things]
                    /\ UNCHANGED <<unclosed, stop, probe, answer>>

\* The exception ends the process: main returns 1 for an AppError, any other one
\* is a traceback; under uvicorn the lifespan fails.
Exit(p) == /\ pc' = [pc EXCEPT ![p] = "failed"]
           /\ UNCHANGED <<attempt, held, unclosed, stop, probe, answer>>

Pause(p) == /\ attempt' = [attempt EXCEPT ![p] = @ + 1]
            /\ UNCHANGED <<pc, held, unclosed, stop, probe, answer>>

Environs == <<db, redis, misconfigured, faults>>

\* Faulty: a worker that is ready forgets the signals of its startup.
EarlySignalIsLost(p) ==
    /\ pc[p] = "storage"
    /\ pc' = [pc EXCEPT ![p] = IF misconfigured = "storage" THEN "failed" ELSE After(p)[@]]
    /\ stop' = [stop EXCEPT ![p] = @ /\ p \notin Workers]
    /\ UNCHANGED <<attempt, held, unclosed, probe, answer, Environs, group>>

\* The last step of a worker's startup, the first of the API's.
get_file_storage(p) == /\ pc[p] = "storage"
                       /\ IF misconfigured = "storage" THEN Exit(p) ELSE Opens(p, {})
                       /\ UNCHANGED <<Environs, group>>

\* Faulty: a refused connection is not counted as an attempt.
WaitsForever(p) == /\ pc[p] = "database"
                   /\ db = "up"
                   /\ Opens(p, {"engine"})
                   /\ UNCHANGED <<Environs, group>>

\* What a server that is starting up answers is asyncpg's CannotConnectNowError.
\* It leaves the loop, which catches SQLAlchemyError and OSError, unless the
\* version of SQLAlchemy wraps it.
wait_for_database(p) ==
    /\ pc[p] = "database"
    /\ CASE attempt[p] = MaxAttempts -> Exit(p)
         [] attempt[p] < MaxAttempts /\ db = "up"       -> Opens(p, {"engine"})
         [] attempt[p] < MaxAttempts /\ db = "down"     -> Pause(p)
         [] attempt[p] < MaxAttempts /\ db = "starting" -> Pause(p) \/ Exit(p)
    /\ UNCHANGED <<Environs, group>>

\* Faulty: the range of the loop is one too long.
OneAttemptMore(p) ==
    /\ pc[p] = "redis"
    /\ CASE redis = "up" -> Opens(p, {"queue"})
         [] redis = "hanging" \/ (redis = "down" /\ attempt[p] > MaxAttempts) -> Exit(p)
         [] redis = "down" /\ attempt[p] <= MaxAttempts -> Pause(p)
    /\ UNCHANGED <<Environs, group>>

\* A silent Redis is redis.TimeoutError, which is no RedisConnectionError and no
\* OSError: it leaves the loop at once.
connect(p) ==
    /\ pc[p] = "redis"
    /\ CASE attempt[p] = MaxAttempts -> Exit(p)
         [] attempt[p] < MaxAttempts /\ redis = "up"      -> Opens(p, {"queue"})
         [] attempt[p] < MaxAttempts /\ redis = "down"    -> Pause(p)
         [] attempt[p] < MaxAttempts /\ redis = "hanging" -> Exit(p)
    /\ UNCHANGED <<Environs, group>>

\* Faulty: the group that another process has created is an error.
ExistingGroupIsFatal(p) ==
    /\ pc[p] = "group"
    /\ IF redis # "up" \/ misconfigured = "stream" \/ group
       THEN Exit(p) /\ UNCHANGED group
       ELSE Opens(p, {}) /\ group' = TRUE
    /\ UNCHANGED Environs

\* Faulty: only the workers create the group.
OnlyWorkersCreate(p) ==
    /\ pc[p] = "group"
    /\ IF redis # "up" \/ misconfigured = "stream"
       THEN Exit(p) /\ UNCHANGED group
       ELSE Opens(p, {}) /\ group' = (group \/ p \in Workers)
    /\ UNCHANGED Environs

\* BUSYGROUP is fine; another ResponseError (the key is no stream) is a QueueError,
\* and a lost connection is not caught here.
ensure_group(p) ==
    /\ pc[p] = "group"
    /\ IF redis # "up" \/ misconfigured = "stream"
       THEN Exit(p) /\ UNCHANGED group
       ELSE Opens(p, {}) /\ group' = TRUE
    /\ UNCHANGED Environs

build_provider(p) == /\ pc[p] = "provider"
                     /\ IF misconfigured = "key" THEN Exit(p) ELSE Opens(p, {"provider"})
                     /\ UNCHANGED <<Environs, group>>

-----------------------------------------------------------------------------
\* The loops (or uvicorn) see the signal, a signal of the startup included.
stop_serving(p) ==
    /\ pc[p] = "serving"
    /\ stop[p]
    /\ pc' = [pc EXCEPT ![p] = IF p \in Workers THEN "close_provider" ELSE "close_queue"]
    /\ probe' = [probe EXCEPT ![p] = "idle"]
    /\ UNCHANGED <<attempt, held, unclosed, stop, answer, Environs, group>>

Closed(p, thing, next) == /\ pc' = [pc EXCEPT ![p] = next]
                          /\ held' = [held EXCEPT ![p] = @ \ {thing}]
                          /\ UNCHANGED unclosed

StaysOpen(p, thing, next) == /\ pc' = [pc EXCEPT ![p] = next]
                             /\ unclosed' = [unclosed EXCEPT ![p] = @ \cup {thing}]
                             /\ UNCHANGED held

\* What a failed close leads to: _shutdown reports it and goes on, the finally of
\* lifespan does not.
AfterFailure(p, next) == IF p \in Workers THEN next ELSE "failed"

\* Faulty: the first failure ends the closing.
CloseUntilFailure(p) ==
    /\ \/ /\ pc[p] = "close_provider"
          /\ Closed(p, "provider", "close_queue") \/ StaysOpen(p, "provider", "stopped")
       \/ /\ pc[p] = "close_queue"
          /\ Closed(p, "queue", "close_engine") \/ StaysOpen(p, "queue", "stopped")
       \/ pc[p] = "close_engine" /\ Closed(p, "engine", "stopped")
    /\ UNCHANGED <<attempt, stop, probe, answer, Environs, group>>

\* The model client, the queue and the engine, of which only a worker has the
\* first.
close(p) ==
    /\ \/ /\ pc[p] = "close_provider"
          /\ \/ Closed(p, "provider", "close_queue")
             \/ StaysOpen(p, "provider", "close_queue")
       \/ /\ pc[p] = "close_queue"
          /\ \/ Closed(p, "queue", "close_engine")
             \/ redis # "up" /\ StaysOpen(p, "queue", AfterFailure(p, "close_engine"))
       \/ /\ pc[p] = "close_engine"
          /\ \/ Closed(p, "engine", "stopped")
             \/ db # "up" /\ StaysOpen(p, "engine", AfterFailure(p, "stopped"))
    /\ UNCHANGED <<attempt, stop, probe, answer, Environs, group>>

\* check_database of /ready, which catches what wait_for_database catches: a
\* starting server is "down" or, unwrapped, an internal error.
check_database(p) ==
    /\ p \in Apis /\ pc[p] = "serving"
    /\ probe[p] = "idle"
    /\ \/ probe' = [probe EXCEPT ![p] = IF db = "up" THEN "up" ELSE "down"] /\ UNCHANGED answer
       \/ db = "starting" /\ answer' = [answer EXCEPT ![p] = "error"] /\ UNCHANGED probe
    /\ UNCHANGED <<pc, attempt, held, unclosed, stop, Environs, group>>

\* Faulty: readiness is that of the database.
IgnoresRedis(p) == /\ probe[p] # "idle"
                   /\ probe' = [probe EXCEPT ![p] = "idle"]
                   /\ answer' = [answer EXCEPT ![p] = IF probe[p] = "up" THEN "ready" ELSE "not_ready"]
                   /\ UNCHANGED <<pc, attempt, held, unclosed, stop, Environs, group>>

\* queue.health(), and the reply.
ready(p) == /\ probe[p] # "idle"
            /\ probe' = [probe EXCEPT ![p] = "idle"]
            /\ answer' = [answer EXCEPT ![p] = IF probe[p] = "up" /\ redis = "up"
                                               THEN "ready" ELSE "not_ready"]
            /\ UNCHANGED <<pc, attempt, held, unclosed, stop, Environs, group>>

-----------------------------------------------------------------------------
restart(p) == /\ pc[p] = "failed"
              /\ ~ stop[p]
              /\ pc' = [pc EXCEPT ![p] = First(p)]
              /\ attempt' = [attempt EXCEPT ![p] = 0]
              /\ held' = [held EXCEPT ![p] = {}]
              /\ unclosed' = [unclosed EXCEPT ![p] = {}]
              /\ answer' = [answer EXCEPT ![p] = "none"]
              /\ UNCHANGED <<stop, probe, Environs, group>>

\* The handlers are installed before the startup and only set the event.
signal(p) == /\ pc[p] \notin {"failed", "stopped"} /\ ~ stop[p]
             /\ faults < MaxFaults
             /\ faults' = faults + 1
             /\ stop' = [stop EXCEPT ![p] = TRUE]
             /\ UNCHANGED <<pc, attempt, held, unclosed, probe, answer, db, redis, group, misconfigured>>

kill(p) == /\ pc[p] \notin {"failed", "stopped"}
           /\ faults < MaxFaults
           /\ faults' = faults + 1
           /\ pc' = [pc EXCEPT ![p] = "failed"]
           /\ probe' = [probe EXCEPT ![p] = "idle"]
           /\ UNCHANGED <<attempt, held, unclosed, stop, answer, db, redis, group, misconfigured>>

Outage == /\ faults < MaxFaults
          /\ faults' = faults + 1
          /\ \/ db = "up" /\ db' \in {"down", "starting"} /\ UNCHANGED redis
             \/ redis = "up" /\ redis' \in {"down", "hanging"} /\ UNCHANGED db
          /\ UNCHANGED <<processVars, group, misconfigured>>

Recovery == /\ \/ db = "down" /\ db' \in {"starting", "up"} /\ UNCHANGED redis
               \/ db = "starting" /\ db' = "up" /\ UNCHANGED redis
               \/ redis # "up" /\ redis' = "up" /\ UNCHANGED db
            /\ UNCHANGED <<processVars, group, misconfigured, faults>>

\* What p does by itself.
Run(p) == \/ get_file_storage(p) \/ wait_for_database(p) \/ connect(p)
          \/ ensure_group(p) \/ build_provider(p)
          \/ stop_serving(p) \/ close(p)

Probe(p) == check_database(p) \/ ready(p)

StartupNext == \/ \E p \in Processes : \/ Run(p) \/ Probe(p) \/ restart(p)
                                       \/ signal(p) \/ kill(p)
               \/ Outage \/ Recovery

\* The event loop runs, the orchestrator restarts and probes.  Nothing makes an
\* outage end.
StartupSpec ==
    /\ StartupInit /\ [][StartupNext]_startupVars
    /\ \A p \in Processes : /\ WF_startupVars(Run(p))
                            /\ WF_startupVars(Probe(p))
                            /\ WF_startupVars(restart(p))

-----------------------------------------------------------------------------
Starting(p) == pc[p] \in DOMAIN After(p)
DependenciesUp == db = "up" /\ redis = "up"

StartupTypeOK ==
    /\ \A p \in Processes : pc[p] \in DOMAIN After(p) \cup {"serving", "close_provider",
                                "close_queue", "close_engine", "stopped", "failed"}
    /\ attempt \in [Processes -> 0 .. MaxAttempts]
    /\ held \in [Processes -> SUBSET {"engine", "queue", "provider"}]
    /\ unclosed \in [Processes -> SUBSET {"engine", "queue", "provider"}]
    /\ stop \in [Processes -> BOOLEAN]
    /\ probe \in [Processes -> {"idle", "up", "down"}]
    /\ answer \in [Processes -> {"none", "ready", "not_ready", "error"}]
    /\ db \in {"up", "down", "starting"} /\ redis \in {"up", "down", "hanging"}
    /\ group \in BOOLEAN
    /\ faults \in 0 .. MaxFaults

\* No process serves before the consumer group exists, whichever started first:
\* no upload is published into a stream nobody reads.
GroupBeforeServing == \A p \in Processes : pc[p] = "serving" => group

\* A process that has stopped holds nothing but what it tried to close in vain:
\* the failure of one close costs a worker none of the others.
StoppedReleases == \A p \in Processes : pc[p] = "stopped" => held[p] \subseteq unclosed[p]

\* A start never waits for ever: whatever the dependencies do, the process comes
\* to serve or exits.
StartupDecides == \A p \in Processes : Starting(p) ~> ~ Starting(p)

\* Once the dependencies stay up, every process of a sound deployment that is not
\* told to stop comes to serve and keeps serving, in whatever order they started
\* and however often they had given up.
ComesUp ==
    \A p \in Processes :
        <>[](DependenciesUp /\ misconfigured = "nothing" /\ ~ stop[p]) => <>[](pc[p] = "serving")

\* A process that receives a signal ends, also one that is still starting.
SignalEnds == \A p \in Processes : stop[p] ~> pc[p] \in {"stopped", "failed"}

\* /ready comes to agree with the dependencies when they stay as they are, an
\* internal error being no agreement that they are up.
ReadinessFollows ==
    \A p \in Apis :
        /\ <>[](pc[p] = "serving" /\ DependenciesUp) => <>[](answer[p] = "ready")
        /\ <>[](pc[p] = "serving" /\ ~ DependenciesUp) => <>[](answer[p] \in {"not_ready", "error"})
=============================================================================
