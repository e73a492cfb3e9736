------------------------------ MODULE Pipeline ------------------------------
(***************************************************************************)
(* The whole pipeline: API processes, PostgreSQL, Redis and workers, and   *)
(* the passage of time.                                                    *)
(*                                                                         *)
(* A tick is longer than a database or Redis round trip and shorter than   *)
(* the configured thresholds.  With PromptIO no tick passes while a slot   *)
(* is between two such calls; an attempt in _run lasts at most MaxWork     *)
(* ticks.  No setting bounds it: the timeout of the client is one of each  *)
(* network operation and not of a call (Attempt), so MaxWork stands for    *)
(* how slow the provider can be, and MaxWork <= StaleAfter is a condition. *)
(***************************************************************************)
EXTENDS Api, Worker

CONSTANT PromptIO

ASSUME PromptIOAssumption == PromptIO \in BOOLEAN

vars == <<dbVars, queueVars, envVars, request, worker, slot, due>>

Init == /\ DbInit
        /\ QueueInit
        /\ EnvInit
        /\ ApiInit
        /\ WorkerInit

\* Entries appended by a producer of another version or by hand.
ForeignEntry == /\ Fault("foreign")
                /\ publish(Malformed)
                /\ UNCHANGED <<dbVars, request, worker, slot, due>>

RestPcs == {"idle", "stopped", "work"}

Tick == /\ \A s \in Slots : At(s, "work") => slot[s].age < MaxWork
        /\ PromptIO => \A s \in Slots : slot[s].pc \in RestPcs
        /\ DbTick
        /\ QueueTick
        /\ slot' = [s \in Slots |-> IF At(s, "work")
                                    THEN [slot[s] EXCEPT !.age = @ + 1] ELSE slot[s]]
        /\ UNCHANGED <<envVars, request, worker, due>>

Next == \/ ApiNext /\ UNCHANGED <<worker, slot, due>>
        \/ WorkerNext /\ UNCHANGED request
        \/ ForeignEntry
        \/ Tick

Spec == Init /\ [][Next]_vars

\* Every task, request and process keeps running: an asyncio task whose await
\* has completed is resumed, every provider call ends, as each of its network
\* operations is answered or timed out (so _run ends), and the orchestrator
\* restarts a worker that exits.  Nothing says that extraction ever succeeds, or
\* that a call ever raises.
Fairness == /\ WF_vars(Tick)
            /\ \A r \in Requests : WF_vars(RequestProgress(r) /\ UNCHANGED <<worker, slot, due>>)
            /\ \A s \in Slots : WF_vars(SlotStep(s) /\ UNCHANGED request)
            /\ \A w \in Workers : WF_vars((SchedulerStep(w) \/ ProcessStep(w)) /\ UNCHANGED request)

FairSpec == Spec /\ Fairness

-----------------------------------------------------------------------------
(* What carries a job that is not finished yet.                            *)

Holds(s, j) == slot[s].pc \in ClaimedPcs /\ slot[s].job = j
Attempted(j) == \E s \in Slots : Holds(s, j)
OnStream(j) == \E m \in Ids : stream[m].payload = j /\ stream[m].state # "acked"
Scheduled(j) == \/ \E d \in 0 .. MaxDelay : retries[<<j, d>>] > 0
                \/ \E w \in Workers : due[w][j] > 0
BeingPublished(j) == \E r \in Requests : request[r].job = j /\ request[r].pc \in {"publish", "fail"}

-----------------------------------------------------------------------------
(* Safety.                                                                 *)

TypeOK == DbTypeOK /\ QueueTypeOK /\ EnvTypeOK /\ ApiTypeOK /\ WorkerTypeOK

\* A job is never completed without its extraction result: the promise of
\* _persist, which stores both in one transaction.
CompletedHasResult == \A j \in Jobs : job[j].status = "completed" => result[j]

\* A processing row always has the timestamp claim_job needs to find it stale;
\* without it a dead worker's job could never be claimed again.
ProcessingHasStart == \A j \in Jobs : job[j].status = "processing" => job[j].started_at # Null

\* The column retry_count stays within the budget, whatever is redelivered, lost
\* or flushed from a stale object.  It is the column that is bounded and not the
\* retries: two overlapping attempts that refresh the same count both schedule a
\* retry and flush the same increment (RetriesAreCounted excludes it when
\* attempts do not overlap).
RetryCountBounded == \A j \in Jobs : job[j].retry_count <= MaxRetries

\* When attempts do not overlap no increment is lost: every mark_retrying that
\* returns has written a count one higher than the one in the row, which was
\* below the budget.  (A slot at mark_retrying has scheduled its retry.)
RetriesAreCounted ==
    [][\A s \in Slots : At(s, "mark_retrying") /\ slot'[s].pc = "ack" =>
          LET j == slot[s].job
          IN  /\ job[j].retry_count < MaxRetries
              /\ job'[j].retry_count = job[j].retry_count + 1]_vars

\* Two tasks never work on the same job at the same time: what the conditional
\* UPDATE of claim_job and the guard of retry_job are for.
AtMostOneAttempt == \A s, t \in Slots : \A j \in Jobs : Holds(s, j) /\ Holds(t, j) => s = t

\* Completed is final: no request, redelivery or late writer moves a job out
\* of it (the comment above ALLOWED_TRANSITIONS).
CompletedIsForever ==
    [][\A j \in Jobs : job[j].status = "completed" => job'[j].status = "completed"]_vars

\* A document whose result is stored is never extracted again, even when its
\* event is redelivered or a retry of it was already scheduled.
NoSecondExtraction == \A s \in Slots : At(s, "work") => ~result[slot[s].job]

\* A job an operator finds retrying or failed says why.
SetbackHasReason ==
    \A j \in Jobs : job[j].status \in {"retrying", "failed"} => job[j].error_message # "null"

\* A queued job has an event on the stream, or a request that is publishing it.
QueuedIsCarried == \A j \in Jobs : job[j].status = "queued" => OnStream(j) \/ BeingPublished(j)

\* A processing job is being worked on, or has an unacknowledged entry that
\* will be redelivered: nothing else ever picks it up again.
ProcessingIsCarried == \A j \in Jobs : job[j].status = "processing" => Attempted(j) \/ OnStream(j)

\* A retrying job has its next event scheduled, popped or on the stream.
RetryingIsCarried == \A j \in Jobs : job[j].status = "retrying" => Scheduled(j) \/ OnStream(j)

\* An entry is redelivered only when no task handles it and its job's row, if it
\* has been processing for as long as the entry was idle, is stale: the delivery
\* then resumes the job instead of being skipped and acknowledged.  The order of
\* the two thresholds decides it.
HandlingPcs == ClaimedPcs \cup {"claim", "drop", "ack"}
Handled(m) == \E s \in Slots : slot[s].pc \in HandlingPcs /\ slot[s].msg = m

TimelySweep ==
    \A s \in Slots : At(s, "xclaim") /\ IsIdle(slot[s].msg) =>
        LET m == slot[s].msg
        IN  /\ ~Handled(m)
            /\ \A j \in Jobs : stream[m].payload = j /\ job[j].status = "processing" =>
                   job[j].started_at \notin MinIdle .. StaleAfter

\* The tables go through the life of a job that JobLifecycle describes, each
\* job by its own steps: the result, the status and the retry count of a row
\* change together or not at all.
Lifecycle == INSTANCE JobLifecycle WITH
                 status    <- [j \in Jobs |-> job[j].status],
                 attempts  <- [j \in Jobs |-> job[j].retry_count],
                 extracted <- result

ImplementsLifecycle == Lifecycle!Spec

-----------------------------------------------------------------------------
(* Liveness, of FairSpec.                                                  *)

\* Every document reaches a terminal state.
EveryJobSettles ==
    \A j \in Jobs : (job[j].status \notin {"absent", "completed", "failed"})
                      ~> (job[j].status \in {"completed", "failed"})

\* Every entry eventually leaves the pending list: nothing is redelivered
\* forever, not even a payload that does not decode.
StreamDrains == <>[](\A m \in Ids : stream[m].state = "acked")

\* A worker told to stop does stop.
ShutdownEnds == \A w \in Workers : (worker[w] = "stopping") ~> (worker[w] # "stopping")
=============================================================================
