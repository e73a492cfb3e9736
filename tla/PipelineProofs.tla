--------------------------- MODULE PipelineProofs ---------------------------
(***************************************************************************)
(* Theorems about Pipeline, for any number of jobs, workers and requests,  *)
(* any thresholds and any number of faults and manual retries.             *)
(***************************************************************************)
EXTENDS Pipeline, SequenceTheorems, TLAPS

(***************************************************************************)
(* The inductive invariant.  What the tables promise is preserved because  *)
(* of what requests and slots know about the objects they will flush:      *)
(*   - a request about to reset its job loaded it as failed, so the reset  *)
(*     writes the status along with the NULL started_at;                   *)
(*   - a slot that schedules a retry has seen a retry count below the      *)
(*     budget, so the count it writes is within it;                        *)
(*   - whoever names a job or an entry names one that exists.              *)
(***************************************************************************)
RequestOK(x) == /\ x \in RequestState
                /\ x.pc # "idle" => x.job \in Jobs
                /\ x.pc = "reset" => x.obj.status = "failed"

RequestsInv == /\ ApiTypeOK
               /\ \A r \in Requests : RequestOK(request[r])

\* n is the number of entries on the stream.
SlotOK(x, n) == /\ x \in SlotState
                /\ x.pc \notin {"idle", "stopped"} => x.msg \in 1 .. n
                /\ x.pc \in ClaimedPcs \cup {"claim"} => x.job \in Jobs
                /\ x.pc \in {"schedule", "mark_retrying"} => x.obj.retry_count < MaxRetries

WorkersInv == /\ WorkerTypeOK
              /\ \A s \in Slots : SlotOK(slot[s], Len(stream))

TablesInv == DbTypeOK /\ CompletedHasResult /\ ProcessingHasStart /\ RetryCountBounded

Inv == /\ TablesInv
       /\ QueueTypeOK
       /\ EnvTypeOK
       /\ RequestsInv
       /\ WorkersInv

\* The longest delay of compute_delay is a number of ticks.
LEMMA MaxDelayNat == MaxDelay \in Nat
BY RetryPolicyAssumption

USE EnvironmentAssumption, JobServiceAssumption, QueueAssumption, MaxDelayNat, WorkerAssumption

\* compute_delay never exceeds it, whatever the number of attempts.
LEMMA DelayBounded ==
    ASSUME NEW n, NEW d \in compute_delay(n)
    PROVE  d \in 0 .. MaxDelay
BY DEF compute_delay

-----------------------------------------------------------------------------
(* The tables.                                                             *)

\* NoRow and what a session loads are rows.
LEMMA RowTypes ==
    /\ NoRow \in ProcessingJob
    /\ DbTypeOK => \A j \in Jobs : get_job(j) \in ProcessingJob
BY DEF NoRow, ProcessingJob, JobStatus, Reasons, Null, DbTypeOK, get_job

\* The mark_* functions turn rows into rows.
LEMMA MarkTypes ==
    ASSUME NEW obj \in ProcessingJob, NEW reason \in Reasons \cup {"null"}
    PROVE  /\ mark_completed(obj) \in ProcessingJob
           /\ mark_retrying(obj, reason) \in ProcessingJob
           /\ mark_failed(obj, reason) \in ProcessingJob
           /\ reset_for_manual_retry(obj) \in ProcessingJob
<1>1. mark_completed(obj) \in ProcessingJob
  BY DEF ProcessingJob, JobStatus, mark_completed
<1>2. mark_retrying(obj, reason) \in ProcessingJob
  BY DEF ProcessingJob, JobStatus, mark_retrying
<1>3. mark_failed(obj, reason) \in ProcessingJob
  BY DEF ProcessingJob, JobStatus, mark_failed
<1>4. reset_for_manual_retry(obj) \in ProcessingJob
  BY DEF ProcessingJob, JobStatus, Null, reset_for_manual_retry
<1> QED BY <1>1, <1>2, <1>3, <1>4

\* Flushing a row into a row gives a row.
LEMMA FlushType ==
    ASSUME NEW row \in ProcessingJob, NEW old \in ProcessingJob, NEW new \in ProcessingJob
    PROVE  Flush(row, old, new) \in ProcessingJob
BY DEF Flush, ProcessingJob

\* A flush that moves to a status other than completed and processing keeps
\* what the tables promise if it leaves started_at alone or writes the status
\* too, and keeps the retry count within the budget.
LEMMA CommitKeeps ==
    ASSUME TablesInv,
           NEW j, NEW old \in ProcessingJob, NEW new \in ProcessingJob,
           new.status \notin {"completed", "processing"},
           new.started_at = old.started_at \/ new.status # old.status,
           new.retry_count <= MaxRetries \/ new.retry_count = old.retry_count,
           Commit(j, old, new),
           UNCHANGED result
    PROVE  TablesInv'
<1>1. job' \in [Jobs -> ProcessingJob]
  BY FlushType DEF TablesInv, DbTypeOK, Commit
<1>2. \A k \in Jobs : k # j => job'[k] = job[k]
  BY DEF TablesInv, DbTypeOK, Commit
<1>3. j \in Jobs => job'[j] = Flush(job[j], old, new)
  BY DEF TablesInv, DbTypeOK, Commit
<1>4. ASSUME NEW k \in Jobs
      PROVE  /\ job'[k].status = "completed" => result'[k]
             /\ job'[k].status = "processing" => job'[k].started_at # Null
             /\ job'[k].retry_count <= MaxRetries
  <2>1. CASE k # j
    BY <2>1, <1>2 DEF TablesInv, CompletedHasResult, ProcessingHasStart, RetryCountBounded
  <2>2. CASE k = j
    BY <2>2, <1>3 DEF TablesInv, DbTypeOK, CompletedHasResult, ProcessingHasStart, RetryCountBounded, Flush
  <2> QED BY <2>1, <2>2
<1> QED
  BY <1>1, <1>4 DEF TablesInv, DbTypeOK, CompletedHasResult, ProcessingHasStart, RetryCountBounded

\* Creating a job keeps what the tables promise.
LEMMA CreateKeeps ==
    ASSUME TablesInv, NEW j \in Jobs, create_document_and_job(j)
    PROVE  TablesInv'
<1> DEFINE new == [NoRow EXCEPT !.status = "queued"]
<1>1. /\ new \in ProcessingJob
      /\ new.status = "queued" /\ new.retry_count = 0
  BY RowTypes DEF NoRow, ProcessingJob, JobStatus
<1>2. job' = [job EXCEPT ![j] = new] /\ result' = result
  BY DEF create_document_and_job
<1> HIDE DEF new
<1> QED
  BY <1>1, <1>2 DEF TablesInv, DbTypeOK, CompletedHasResult, ProcessingHasStart, RetryCountBounded

\* Claiming a job keeps what the tables promise: the claim stamps started_at.
LEMMA ClaimKeeps ==
    ASSUME TablesInv, NEW j \in Jobs, claim_job(j)
    PROVE  TablesInv'
<1> DEFINE new == [status |-> "processing", retry_count |-> job[j].retry_count,
                   started_at |-> 0, error_message |-> job[j].error_message]
<1>1. /\ new \in ProcessingJob
      /\ new.status = "processing" /\ new.started_at # Null
      /\ new.retry_count <= MaxRetries
  BY DEF TablesInv, DbTypeOK, RetryCountBounded, ProcessingJob, JobStatus, Null
<1>2. job' = [job EXCEPT ![j] = new] /\ result' = result
  BY DEF claim_job
<1> HIDE DEF new
<1> QED
  BY <1>1, <1>2 DEF TablesInv, DbTypeOK, CompletedHasResult, ProcessingHasStart, RetryCountBounded

\* Storing a result completes the job in the same step.
LEMMA StoreKeeps ==
    ASSUME TablesInv, NEW j \in Jobs, NEW obj \in ProcessingJob, StoreResult(j, obj)
    PROVE  TablesInv'
<1> DEFINE new == Flush(job[j], obj, mark_completed(obj))
<1>1. job[j] \in ProcessingJob /\ job[j].retry_count <= MaxRetries
  BY DEF TablesInv, DbTypeOK, RetryCountBounded
<1>2. new \in ProcessingJob
  BY <1>1, MarkTypes, FlushType
<1>3. new.retry_count = job[j].retry_count /\ new.started_at = job[j].started_at
  BY <1>1 DEF Flush, mark_completed, ProcessingJob
<1>4. new.status = "processing" => job[j].status = "processing"
  BY <1>1 DEF Flush, mark_completed, ProcessingJob
<1>5. job' = [job EXCEPT ![j] = new] /\ result' = [result EXCEPT ![j] = TRUE]
  BY DEF StoreResult, Commit
<1> HIDE DEF new
<1> QED
  BY <1>1, <1>2, <1>3, <1>4, <1>5
  DEF TablesInv, DbTypeOK, CompletedHasResult, ProcessingHasStart, RetryCountBounded

\* Time changes only the age of started_at.
LEMMA DbTickKeeps ==
    ASSUME TablesInv, DbTick
    PROVE  TablesInv'
<1>1. ASSUME NEW j \in Jobs
      PROVE  /\ job'[j] \in ProcessingJob
             /\ job'[j].status = job[j].status
             /\ job'[j].retry_count = job[j].retry_count
             /\ job[j].started_at # Null => job'[j].started_at # Null
  <2>1. job[j] \in ProcessingJob
    BY DEF TablesInv, DbTypeOK
  <2>2. CASE job[j].status = "processing" /\ job[j].started_at \in 0 .. StaleAfter
    BY <2>1, <2>2 DEF DbTick, ProcessingJob, Null
  <2>3. CASE ~(job[j].status = "processing" /\ job[j].started_at \in 0 .. StaleAfter)
    BY <2>1, <2>3 DEF DbTick
  <2> QED BY <2>2, <2>3
<1>2. job' = [j \in Jobs |-> job'[j]] /\ result' = result
  BY DEF DbTick
<1> QED
  BY <1>1, <1>2 DEF TablesInv, DbTypeOK, CompletedHasResult, ProcessingHasStart, RetryCountBounded

-----------------------------------------------------------------------------
(* The queue.                                                              *)

\* What every queue operation keeps: the types, and the entries there are.
QueueStep == QueueTypeOK' /\ Len(stream) <= Len(stream')

\* An entry of the stream is an entry.
LEMMA EntryAt ==
    ASSUME QueueTypeOK, NEW m \in Ids
    PROVE  stream[m] \in Entry
BY ElementOfSeq DEF QueueTypeOK, Ids

\* Appending an entry.
LEMMA PublishKeeps ==
    ASSUME QueueTypeOK, NEW p \in Payloads, publish(p)
    PROVE  QueueStep
BY DEF QueueTypeOK, QueueStep, publish, Entry

\* Adding a retry that compute_delay may ask for.
LEMMA ScheduleKeeps ==
    ASSUME QueueTypeOK, NEW j \in Jobs, NEW d \in 0 .. MaxDelay, schedule_retry(j, d)
    PROVE  QueueStep
<1>1. <<j, d>> \in Jobs \X (0 .. MaxDelay)
  OBVIOUS
<1>2. retries[<<j, d>>] + 1 \in Nat
  BY <1>1 DEF QueueTypeOK
<1>3. retries' \in [Jobs \X (0 .. MaxDelay) -> Nat]
  BY <1>1, <1>2 DEF QueueTypeOK, schedule_retry
<1> QED BY <1>3 DEF QueueTypeOK, QueueStep, schedule_retry

\* Popping the due retries.
LEMMA PopKeeps ==
    ASSUME QueueTypeOK, pop_due_retries
    PROVE  QueueStep /\ DueRetries \in [Jobs -> Nat]
<1>1. DueRetries \in [Jobs -> Nat]
  BY DEF QueueTypeOK, DueRetries
<1>2. ASSUME NEW k \in Jobs \X (0 .. MaxDelay)
      PROVE  (IF k[2] = 0 THEN 0 ELSE retries[k]) \in Nat
  BY DEF QueueTypeOK
<1>3. retries' \in [Jobs \X (0 .. MaxDelay) -> Nat]
  BY <1>2 DEF pop_due_retries
<1> QED BY <1>1, <1>3 DEF QueueTypeOK, QueueStep, pop_due_retries

\* Delivering an entry, for the first time or again.
LEMMA DeliverKeeps ==
    ASSUME QueueTypeOK, NEW m \in Ids, Deliver(m)
    PROVE  QueueStep
<1>1. [payload |-> stream[m].payload, state |-> "pending",
       times |-> stream[m].times + 1, idle |-> 0] \in Entry
  BY EntryAt DEF Entry
<1> QED BY <1>1, ExceptSeq DEF QueueTypeOK, QueueStep, Deliver, Ids

\* XCLAIM delivers the entry or does nothing.
LEMMA XClaimKeeps ==
    ASSUME QueueTypeOK, NEW m \in Ids, XClaim(m)
    PROVE  QueueStep
<1>1. CASE IsIdle(m)
  BY <1>1, DeliverKeeps DEF XClaim
<1>2. CASE ~IsIdle(m)
  BY <1>2 DEF XClaim, QueueTypeOK, QueueStep, queueVars
<1> QED BY <1>1, <1>2

\* Acknowledging an entry.
LEMMA AckKeeps ==
    ASSUME QueueTypeOK, NEW m \in Ids, ack(m)
    PROVE  QueueStep
<1>1. [payload |-> stream[m].payload, state |-> "acked", times |-> 0, idle |-> 0] \in Entry
  BY EntryAt DEF Entry
<1> QED BY <1>1, ExceptSeq DEF QueueTypeOK, QueueStep, ack, Ids

\* Time ages pending entries and brings retries closer.
LEMMA QueueTickKeeps ==
    ASSUME QueueTypeOK, QueueTick
    PROVE  QueueStep
<1>1. ASSUME NEW m \in Ids
      PROVE  (IF stream[m].state = "pending" /\ stream[m].idle < MinIdle
              THEN [stream[m] EXCEPT !.idle = @ + 1] ELSE stream[m]) \in Entry
  BY EntryAt DEF Entry
<1>2. stream' \in Seq(Entry) /\ Len(stream') = Len(stream)
  <2>1. Len(stream) \in Nat
    BY DEF QueueTypeOK
  <2>2. stream' \in [1 .. Len(stream) -> Entry]
    BY <1>1 DEF QueueTick, Ids
  <2> QED BY <2>1, <2>2
<1>3. retries' \in [Jobs \X (0 .. MaxDelay) -> Nat]
  <2>1. ASSUME NEW k \in Jobs \X (0 .. MaxDelay)
        PROVE  retries'[k] \in Nat
    BY DEF QueueTick, QueueTypeOK
  <2> QED BY <2>1 DEF QueueTick
<1> QED BY <1>2, <1>3 DEF QueueTypeOK, QueueStep

\* An operation that leaves Redis alone.
LEMMA QueueStutters ==
    ASSUME QueueTypeOK, UNCHANGED queueVars
    PROVE  QueueStep
BY DEF QueueTypeOK, QueueStep, queueVars

-----------------------------------------------------------------------------
(* The environment and the requests.                                       *)

\* A fault only lowers the number of faults left.
LEMMA FaultKeeps ==
    ASSUME EnvTypeOK, NEW kind, Fault(kind)
    PROVE  EnvTypeOK'
BY DEF EnvTypeOK, Fault

\* Replacing one request by a sound one.
LEMMA RequestKeeps ==
    ASSUME RequestsInv, NEW r \in Requests, NEW x, RequestOK(x),
           request' = [request EXCEPT ![r] = x]
    PROVE  RequestsInv'
BY DEF RequestsInv, ApiTypeOK, RequestOK

\* A request that ends leaves nothing behind.
LEMMA RespondKeeps ==
    ASSUME RequestsInv, NEW r \in Requests, Respond(r)
    PROVE  RequestsInv'
<1>1. RequestOK(IdleRequest)
  BY RowTypes DEF RequestOK, RequestState, IdleRequest
<1> QED BY <1>1, RequestKeeps DEF Respond

-----------------------------------------------------------------------------
(* The slots.                                                              *)

\* A stream that has grown disturbs no slot.
LEMMA SlotGrows ==
    ASSUME NEW x, NEW n \in Nat, NEW k \in Nat, n <= k, SlotOK(x, n)
    PROVE  SlotOK(x, k)
BY DEF SlotOK

\* Nothing happens to the workers.
LEMMA WorkersStutter ==
    ASSUME QueueTypeOK, WorkersInv, QueueStep, UNCHANGED <<worker, slot, due>>
    PROVE  WorkersInv'
<1>1. Len(stream) \in Nat /\ Len(stream') \in Nat /\ Len(stream) <= Len(stream')
  BY DEF QueueTypeOK, QueueStep
<1> QED BY <1>1, SlotGrows DEF WorkersInv, WorkerTypeOK

\* Replacing one slot by a sound one.
LEMMA SlotKeeps ==
    ASSUME QueueTypeOK, WorkersInv, QueueStep, NEW s \in Slots,
           NEW x, SlotOK(x, Len(stream)),
           slot' = [slot EXCEPT ![s] = x],
           UNCHANGED <<worker, due>>
    PROVE  WorkersInv'
<1>1. Len(stream) \in Nat /\ Len(stream') \in Nat /\ Len(stream) <= Len(stream')
  BY DEF QueueTypeOK, QueueStep
<1>2. slot' \in [Slots -> SlotState]
  BY DEF WorkersInv, WorkerTypeOK, SlotOK
<1>3. \A t \in Slots : SlotOK(slot'[t], Len(stream))
  BY DEF WorkersInv, WorkerTypeOK
<1> QED BY <1>1, <1>2, <1>3, SlotGrows DEF WorkersInv, WorkerTypeOK

\* A slot that has just been given something to do, or nothing, is sound.
LEMMA HoldingOK ==
    ASSUME NEW n, NEW pc \in Pcs, NEW m \in Nat, NEW count \in Nat, NEW j \in Jobs \cup {"none"},
           pc \notin {"idle", "stopped"} => m \in 1 .. n,
           pc \in ClaimedPcs \cup {"claim"} => j \in Jobs,
           pc \notin {"schedule", "mark_retrying"}
    PROVE  SlotOK(Holding(pc, m, count, j), n)
<1>1. Holding(pc, m, count, j) \in SlotState
  BY RowTypes DEF Holding, SlotState
<1> QED BY <1>1 DEF SlotOK, Holding

\* A slot that is done with its entry is sound.
LEMMA ReleaseKeeps ==
    ASSUME QueueTypeOK, WorkersInv, QueueStep, NEW s \in Slots, Release(s),
           UNCHANGED <<worker, due>>
    PROVE  WorkersInv'
<1> DEFINE pc == IF worker[s[1]] = "stopping" THEN "stopped" ELSE "idle"
<1>1. pc \in {"idle", "stopped"}
  OBVIOUS
<1>2. slot' = [slot EXCEPT ![s] = Holding(pc, 0, 0, "none")]
  BY DEF Release
<1> HIDE DEF pc
<1>3. SlotOK(Holding(pc, 0, 0, "none"), Len(stream))
  BY <1>1, HoldingOK DEF Pcs, ClaimedPcs
<1> QED BY <1>2, <1>3, SlotKeeps

\* A slot that takes an entry off the stream or the pending list is sound:
\* an entry that does not decode never names a job.
LEMMA AcceptKeeps ==
    ASSUME QueueTypeOK, WorkersInv, QueueStep, NEW s \in Slots, NEW m \in Ids, NEW count \in Nat,
           Accept(s, m, count),
           UNCHANGED <<worker, due>>
    PROVE  WorkersInv'
<1>1. stream[m].payload \in Jobs \cup {Malformed} /\ m \in Nat /\ m \in 1 .. Len(stream)
  BY EntryAt DEF Entry, Payloads, Ids
<1>2. CASE stream[m].payload = Malformed
  <2>1. SlotOK(Holding("drop", m, count, "none"), Len(stream))
    BY <1>1, HoldingOK DEF Pcs, ClaimedPcs
  <2> QED BY <1>2, <2>1, SlotKeeps DEF Accept
<1>3. CASE stream[m].payload # Malformed
  <2>1. SlotOK(Holding("claim", m, count, stream[m].payload), Len(stream))
    BY <1>1, <1>3, HoldingOK DEF Pcs, ClaimedPcs
  <2> QED BY <1>3, <2>1, SlotKeeps DEF Accept
<1> QED BY <1>2, <1>3

\* A slot that only moves on to another call.
LEMMA StepKeeps ==
    ASSUME QueueTypeOK, WorkersInv, QueueStep, NEW s \in Slots, NEW pc \in Pcs, Step(s, pc),
           slot[s].pc \notin {"idle", "stopped"} \/ pc = "stopped",
           pc \in ClaimedPcs \cup {"claim"} => slot[s].job \in Jobs,
           pc \in {"schedule", "mark_retrying"} => slot[s].obj.retry_count < MaxRetries,
           UNCHANGED <<worker, due>>
    PROVE  WorkersInv'
<1> DEFINE x == [slot[s] EXCEPT !.pc = pc]
<1>1. slot[s] \in SlotState /\ SlotOK(slot[s], Len(stream))
  BY DEF WorkersInv, WorkerTypeOK
<1>2. x \in SlotState
  BY <1>1 DEF SlotState
<1>3. /\ x.pc = pc /\ x.msg = slot[s].msg /\ x.job = slot[s].job
      /\ x.obj = slot[s].obj
  BY <1>1 DEF SlotState
<1>4. slot' = [slot EXCEPT ![s] = x]
  BY DEF Step
<1> HIDE DEF x
<1>5. SlotOK(x, Len(stream))
  BY <1>1, <1>2, <1>3 DEF SlotOK
<1> QED BY <1>4, <1>5, SlotKeeps

\* The whole process goes down.
LEMMA DieKeeps ==
    ASSUME QueueTypeOK, WorkersInv, QueueStep, NEW w \in Workers, Die(w)
    PROVE  WorkersInv'
<1>1. Len(stream) \in Nat /\ Len(stream') \in Nat /\ Len(stream) <= Len(stream')
  BY DEF QueueTypeOK, QueueStep
<1>2. SlotOK(Free, Len(stream))
  BY HoldingOK DEF Free, Pcs, ClaimedPcs
<1>3. slot' \in [Slots -> SlotState]
  BY <1>2 DEF WorkersInv, WorkerTypeOK, Die, SlotOK
<1>4. \A t \in Slots : SlotOK(slot'[t], Len(stream))
  BY <1>2 DEF WorkersInv, Die
<1>5. /\ worker' \in [Workers -> {"up", "stopping", "down"}]
      /\ due' \in [Workers -> [Jobs -> Nat]]
  BY DEF WorkersInv, WorkerTypeOK, Die, NoneDue
<1> QED BY <1>1, <1>3, <1>4, <1>5, SlotGrows DEF WorkersInv, WorkerTypeOK

-----------------------------------------------------------------------------
(* Every step of the API keeps the invariant.                              *)

\* Every step of a request, and the loss of the API process.
LEMMA ApiStep ==
    ASSUME Inv, ApiNext, UNCHANGED <<worker, slot, due>>
    PROVE  Inv'
<1> USE DEF Inv
<1>1. ASSUME QueueStep PROVE QueueTypeOK' /\ WorkersInv'
  BY <1>1, WorkersStutter DEF QueueStep
<1>2. ASSUME UNCHANGED dbVars PROVE TablesInv'
  BY <1>2 DEF dbVars, TablesInv, DbTypeOK, CompletedHasResult, ProcessingHasStart, RetryCountBounded
<1>3. ASSUME UNCHANGED envVars PROVE EnvTypeOK'
  BY <1>3 DEF envVars, EnvTypeOK
<1>4. ASSUME NEW r \in Requests
      PROVE  /\ request[r] \in RequestState
             /\ request[r].obj \in ProcessingJob
             /\ request[r].pc # "idle" => request[r].job \in Jobs
             /\ request[r].pc = "reset" => request[r].obj.status = "failed"
  BY DEF RequestsInv, RequestOK, RequestState
<1>5. ASSUME NEW r \in Requests, NEW j \in Jobs, Upload(r, j)
      PROVE  Inv'
  <2> DEFINE obj == [NoRow EXCEPT !.status = "queued"]
             x == [pc |-> "publish", job |-> j, obj |-> obj]
  <2>1. obj \in ProcessingJob
    BY RowTypes DEF ProcessingJob, JobStatus
  <2>2. request' = [request EXCEPT ![r] = x]
    BY <1>5 DEF Upload
  <2> HIDE DEF obj
  <2>3. RequestOK(x)
    BY <2>1 DEF RequestOK, RequestState
  <2> HIDE DEF x
  <2> QED BY <1>1, <1>3, <1>5, <2>2, <2>3, RequestKeeps, CreateKeeps, QueueStutters DEF Upload
<1>6. ASSUME NEW r \in Requests, NEW j \in Jobs, UploadRaises(r, j)
      PROVE  Inv'
  <2>1. RequestsInv'
    BY <1>6 DEF UploadRaises, RequestsInv, ApiTypeOK
  <2> QED BY <1>1, <1>6, <2>1, CreateKeeps, FaultKeeps, QueueStutters DEF UploadRaises
<1>7. ASSUME NEW r \in Requests, NEW j \in Jobs, LoadForRetry(r, j)
      PROVE  Inv'
  <2> DEFINE x == [pc |-> "reset", job |-> j, obj |-> get_job(j)]
  <2>1. job[j] \in ProcessingJob /\ get_job(j) \in ProcessingJob
    BY RowTypes DEF TablesInv, DbTypeOK
  <2>2. get_job(j).status = "failed"
    BY <1>7, <2>1 DEF LoadForRetry, get_job, is_transition_allowed, ALLOWED_TRANSITIONS,
                      JobStatus, ProcessingJob
  <2>3. RequestOK(x)
    BY <2>1, <2>2 DEF RequestOK, RequestState
  <2>4. request' = [request EXCEPT ![r] = x]
    BY <1>7 DEF LoadForRetry
  <2> HIDE DEF x
  <2>5. EnvTypeOK'
    BY <1>7 DEF LoadForRetry, OperatorRetries, EnvTypeOK
  <2> QED BY <1>1, <1>2, <1>7, <2>3, <2>4, <2>5, RequestKeeps, QueueStutters DEF LoadForRetry
<1>8. ASSUME NEW r \in Requests, request[r].pc = "reset", UNCHANGED result,
             Commit(request[r].job, request[r].obj, reset_for_manual_retry(request[r].obj))
      PROVE  TablesInv'
  <2> DEFINE new == reset_for_manual_retry(request[r].obj)
  <2>1. new \in ProcessingJob
    BY <1>4, MarkTypes
  <2>2. new.status = "queued" /\ new.retry_count = 0
    BY DEF reset_for_manual_retry
  <2>3. new.status # request[r].obj.status
    BY <2>2, <1>4, <1>8
  <2>4. new.retry_count <= MaxRetries
    BY <2>2
  <2>5. Commit(request[r].job, request[r].obj, new)
    BY <1>8
  <2> HIDE DEF new
  <2> QED BY <1>4, <1>8, <2>1, <2>2, <2>3, <2>4, <2>5, CommitKeeps
<1>9. ASSUME NEW r \in Requests, Reset(r)
      PROVE  Inv'
  <2> DEFINE new == reset_for_manual_retry(request[r].obj)
             x == [request[r] EXCEPT !.pc = "publish", !.obj = new]
  <2>1. new \in ProcessingJob
    BY <1>4, MarkTypes
  <2>2. request' = [request EXCEPT ![r] = x]
    BY <1>9 DEF Reset
  <2>3. TablesInv'
    BY <1>8, <1>9 DEF Reset
  <2> HIDE DEF new
  <2>4. RequestOK(x)
    BY <1>4, <1>9, <2>1 DEF RequestOK, RequestState, Reset
  <2> HIDE DEF x
  <2> QED BY <1>1, <1>3, <1>9, <2>2, <2>3, <2>4, RequestKeeps, QueueStutters DEF Reset
<1>10. ASSUME NEW r \in Requests, ResetRaises(r)
       PROVE  Inv'
  <2>1. TablesInv'
    BY <1>2, <1>8, <1>10 DEF ResetRaises, dbVars
  <2> QED BY <1>1, <1>10, <2>1, RespondKeeps, FaultKeeps, QueueStutters DEF ResetRaises
<1>11. ASSUME NEW r \in Requests, publish_job(r)
       PROVE  Inv'
  <2>1. QueueStep
    BY <1>4, <1>11, PublishKeeps DEF publish_job, Payloads
  <2> QED BY <1>1, <1>2, <1>3, <1>11, <2>1, RespondKeeps DEF publish_job
<1>12. ASSUME NEW r \in Requests, PublishRaises(r)
       PROVE  Inv'
  <2> DEFINE x == [request[r] EXCEPT !.pc = "fail"]
  <2>1. QueueStep
    BY <1>4, <1>12, PublishKeeps, QueueStutters DEF PublishRaises, Payloads
  <2>2. RequestOK(x)
    BY <1>4, <1>12 DEF RequestOK, RequestState, PublishRaises
  <2>3. request' = [request EXCEPT ![r] = x]
    BY <1>12 DEF PublishRaises, Goto
  <2> HIDE DEF x
  <2> QED BY <1>1, <1>2, <1>12, <2>1, <2>2, <2>3, RequestKeeps, FaultKeeps DEF PublishRaises
<1>13. ASSUME NEW r \in Requests, request[r].pc = "fail", UNCHANGED result,
              Commit(request[r].job, request[r].obj, mark_failed(request[r].obj, "unqueued"))
       PROVE  TablesInv'
  <2> DEFINE new == mark_failed(request[r].obj, "unqueued")
  <2>1. new \in ProcessingJob
    BY <1>4, MarkTypes DEF Reasons
  <2>2. /\ new.status = "failed"
        /\ new.retry_count = request[r].obj.retry_count
        /\ new.started_at = request[r].obj.started_at
    BY <1>4 DEF mark_failed, ProcessingJob
  <2>3. Commit(request[r].job, request[r].obj, new)
    BY <1>13
  <2> HIDE DEF new
  <2> QED BY <1>4, <1>13, <2>1, <2>2, <2>3, CommitKeeps
<1>14. ASSUME NEW r \in Requests, FailUnqueued(r)
       PROVE  Inv'
  <2>1. TablesInv'
    BY <1>13, <1>14 DEF FailUnqueued
  <2> QED BY <1>1, <1>3, <1>14, <2>1, RespondKeeps, QueueStutters DEF FailUnqueued
<1>15. ASSUME NEW r \in Requests, FailUnqueuedRaises(r)
       PROVE  Inv'
  <2>1. TablesInv'
    BY <1>2, <1>13, <1>15 DEF FailUnqueuedRaises, dbVars
  <2> QED BY <1>1, <1>15, <2>1, RespondKeeps, FaultKeeps, QueueStutters DEF FailUnqueuedRaises
<1>16. ASSUME ApiCrash
       PROVE  Inv'
  <2>1. RequestOK(IdleRequest)
    BY RowTypes DEF RequestOK, RequestState, IdleRequest
  <2>2. RequestsInv'
    BY <1>16, <2>1 DEF ApiCrash, RequestsInv, ApiTypeOK, RequestOK
  <2> QED BY <1>1, <1>2, <1>16, <2>2, FaultKeeps, QueueStutters DEF ApiCrash
<1> QED
  BY <1>5, <1>6, <1>7, <1>9, <1>10, <1>11, <1>12, <1>14, <1>15, <1>16
  DEF ApiNext, RequestStep, RequestProgress, RequestRaises

-----------------------------------------------------------------------------
(* Every step of a worker keeps the invariant.                             *)

\* What the invariant says of one slot.
LEMMA SlotFacts ==
    ASSUME WorkersInv, NEW s \in Slots
    PROVE  /\ slot[s] \in SlotState
           /\ s[1] \in Workers
           /\ slot[s].msg \in Nat /\ slot[s].count \in Nat
           /\ slot[s].obj \in ProcessingJob
           /\ slot[s].error \in Reasons \cup {"null"}
           /\ slot[s].pc \notin {"idle", "stopped"} => slot[s].msg \in Ids
           /\ slot[s].pc \in ClaimedPcs \cup {"claim"} => slot[s].job \in Jobs
           /\ slot[s].pc \in {"schedule", "mark_retrying"} => slot[s].obj.retry_count < MaxRetries
BY DEF WorkersInv, WorkerTypeOK, SlotOK, SlotState, Ids, Slots

\* The mark_* call of a slot keeps what the tables promise.
LEMMA MarkedKeeps ==
    ASSUME TablesInv, WorkersInv, NEW s \in Slots, slot[s].pc \in MarkPcs,
           Commit(slot[s].job, slot[s].obj, Marked(s)), UNCHANGED result
    PROVE  TablesInv'
<1> DEFINE obj == slot[s].obj
           new == Marked(s)
<1>1. /\ obj \in ProcessingJob
      /\ slot[s].error \in Reasons \cup {"null"}
      /\ slot[s].pc = "mark_retrying" => obj.retry_count < MaxRetries
  BY SlotFacts
<1>2. /\ new \in ProcessingJob
      /\ new.status \notin {"completed", "processing"}
      /\ new.started_at = obj.started_at
      /\ new.retry_count <= MaxRetries \/ new.retry_count = obj.retry_count
  <2>1. CASE slot[s].pc = "mark_retrying"
    <3>1. new = mark_retrying(obj, slot[s].error)
      BY <2>1 DEF Marked
    <3>2. mark_retrying(obj, slot[s].error) \in ProcessingJob
      BY <1>1, MarkTypes
    <3> QED BY <1>1, <2>1, <3>1, <3>2 DEF mark_retrying, ProcessingJob
  <2>2. CASE slot[s].pc = "fail"
    <3>1. new = mark_failed(obj, slot[s].error)
      BY <2>2 DEF Marked
    <3>2. mark_failed(obj, slot[s].error) \in ProcessingJob
      BY <1>1, MarkTypes
    <3> QED BY <1>1, <3>1, <3>2 DEF mark_failed, ProcessingJob
  <2>3. CASE slot[s].pc = "deadletter"
    <3>1. new = mark_failed(obj, "redelivered")
      BY <2>3 DEF Marked
    <3>2. mark_failed(obj, "redelivered") \in ProcessingJob
      BY <1>1, MarkTypes DEF Reasons
    <3> QED BY <1>1, <3>1, <3>2 DEF mark_failed, ProcessingJob
  <2> QED BY <2>1, <2>2, <2>3 DEF MarkPcs
<1>3. Commit(slot[s].job, obj, new)
  OBVIOUS
<1> HIDE DEF obj, new
<1> QED BY <1>1, <1>2, <1>3, CommitKeeps

\* The steps of one task, and the calls of it that raise.
LEMMA SlotSteps ==
    ASSUME Inv, UNCHANGED request, NEW s \in Slots, SlotStep(s) \/ SlotRaises(s)
    PROVE  Inv'
<1> USE DEF Inv
<1>1. ASSUME UNCHANGED dbVars PROVE TablesInv'
  BY <1>1 DEF dbVars, TablesInv, DbTypeOK, CompletedHasResult, ProcessingHasStart, RetryCountBounded
<1>2. ASSUME UNCHANGED envVars PROVE EnvTypeOK'
  BY <1>2 DEF envVars, EnvTypeOK
<1>3. RequestsInv'
  BY DEF RequestsInv, ApiTypeOK
<1>4. ASSUME QueueStep PROVE QueueTypeOK'
  BY <1>4 DEF QueueStep
<1>5. ASSUME UNCHANGED queueVars PROVE QueueStep
  BY <1>5, QueueStutters
<1>6. ASSUME UNCHANGED <<dbVars, queueVars, envVars>>, WorkersInv' PROVE Inv'
  BY <1>1, <1>2, <1>3, <1>4, <1>5, <1>6
<1>7. CASE Read(s)
  <2>1. PICK m \in Ids : Deliver(m) /\ Accept(s, m, 1)
    BY <1>7 DEF Read
  <2>2. QueueStep
    BY <2>1, DeliverKeeps
  <2> QED BY <1>1, <1>2, <1>3, <1>4, <1>7, <2>1, <2>2, AcceptKeeps DEF Read
<1>8. CASE ReadRaises(s)
  <2>1. QueueStep
    BY <1>8, DeliverKeeps DEF ReadRaises
  <2> QED BY <1>1, <1>3, <1>4, <1>8, <2>1, ReleaseKeeps, FaultKeeps DEF ReadRaises
<1>9. CASE Sweep(s)
  <2>1. PICK m \in Ids :
          slot' = [slot EXCEPT ![s] = Holding("xclaim", m, stream[m].times + 1, "none")]
    BY <1>9 DEF Sweep
  <2>2. m \in Nat /\ m \in 1 .. Len(stream) /\ stream[m].times + 1 \in Nat
    BY EntryAt DEF Entry, Ids
  <2>3. SlotOK(Holding("xclaim", m, stream[m].times + 1, "none"), Len(stream))
    BY <2>2, HoldingOK DEF Pcs, ClaimedPcs
  <2> QED BY <1>5, <1>6, <1>9, <2>1, <2>3, SlotKeeps DEF Sweep
<1>10. CASE ClaimStale(s)
  <2>1. slot[s].msg \in Ids /\ slot[s].count \in Nat
    BY <1>10, SlotFacts DEF ClaimStale, At
  <2>2. QueueStep
    BY <1>10, <2>1, XClaimKeeps DEF ClaimStale
  <2>3. WorkersInv'
    BY <1>10, <2>1, <2>2, AcceptKeeps, ReleaseKeeps DEF ClaimStale
  <2> QED BY <1>1, <1>2, <1>3, <1>4, <1>10, <2>2, <2>3 DEF ClaimStale
<1>11. CASE ClaimStaleRaises(s)
  <2>1. slot[s].msg \in Ids
    BY <1>11, SlotFacts DEF ClaimStaleRaises, At
  <2>2. QueueStep
    BY <1>5, <1>11, <2>1, XClaimKeeps DEF ClaimStaleRaises
  <2> QED BY <1>1, <1>3, <1>4, <1>11, <2>2, ReleaseKeeps, FaultKeeps DEF ClaimStaleRaises
<1>12. CASE Drop(s)
  <2>1. slot[s].msg \in Ids
    BY <1>12, SlotFacts DEF Drop, At
  <2>2. QueueStep
    BY <1>12, <2>1, AckKeeps DEF Drop
  <2> QED BY <1>1, <1>2, <1>3, <1>4, <1>12, <2>2, ReleaseKeeps DEF Drop
<1>13. CASE DropRaises(s)
  <2>1. slot[s].msg \in Ids
    BY <1>13, SlotFacts DEF DropRaises, At
  <2>2. QueueStep
    BY <1>5, <1>13, <2>1, AckKeeps DEF DropRaises
  <2> QED BY <1>1, <1>3, <1>4, <1>13, <2>2, ReleaseKeeps, FaultKeeps DEF DropRaises
<1>14. CASE Claim(s)
  <2>1. slot[s].job \in Jobs
    BY <1>14, SlotFacts DEF Claim, At
  <2>2. QueueStep
    BY <1>5, <1>14 DEF Claim
  <2>3. WorkersInv'
    BY <1>14, <2>1, <2>2, StepKeeps DEF Claim, At, Pcs, ClaimedPcs
  <2> QED BY <1>2, <1>3, <1>4, <1>14, <2>1, <2>2, <2>3, ClaimKeeps DEF Claim
<1>15. CASE Skip(s)
  <2>1. WorkersInv'
    BY <1>5, <1>15, StepKeeps DEF Skip, At, Pcs, ClaimedPcs
  <2> QED BY <1>6, <1>15, <2>1 DEF Skip
<1>16. CASE Load(s)
  <2> DEFINE pc == IF slot[s].count > MaxDelivery THEN "deadletter" ELSE "work"
             x == [slot[s] EXCEPT !.obj = get_job(slot[s].job), !.pc = pc]
  <2>1. slot[s] \in SlotState /\ slot[s].job \in Jobs /\ slot[s].msg \in Ids
    BY <1>16, SlotFacts DEF Load, At, ClaimedPcs
  <2>2. get_job(slot[s].job) \in ProcessingJob
    BY <2>1, RowTypes DEF TablesInv
  <2>3. slot' = [slot EXCEPT ![s] = x]
    BY <1>16 DEF Load
  <2>4. pc \in {"deadletter", "work"}
    OBVIOUS
  <2> HIDE DEF pc
  <2>5. SlotOK(x, Len(stream))
    BY <2>1, <2>2, <2>4 DEF SlotOK, SlotState, Pcs, ClaimedPcs, Ids
  <2> HIDE DEF x
  <2> QED BY <1>5, <1>6, <1>16, <2>3, <2>5, SlotKeeps DEF Load
<1>17. ASSUME NEW e \in {"transient", "permanent"}, At(s, "work"), QueueStep,
              slot' = [slot EXCEPT ![s].pc = "refresh", ![s].error = e],
              UNCHANGED <<worker, due>>
       PROVE  WorkersInv'
  <2> DEFINE x == [slot[s] EXCEPT !.pc = "refresh", !.error = e]
  <2>1. slot[s] \in SlotState /\ slot[s].job \in Jobs /\ slot[s].msg \in Ids
    BY <1>17, SlotFacts DEF At, ClaimedPcs
  <2>2. slot' = [slot EXCEPT ![s] = x]
    BY <1>17
  <2>3. SlotOK(x, Len(stream))
    BY <1>17, <2>1 DEF SlotOK, SlotState, Pcs, ClaimedPcs, Ids, Reasons
  <2> HIDE DEF x
  <2> QED BY <1>17, <2>2, <2>3, SlotKeeps
<1>18. CASE WorkFails(s)
  BY <1>5, <1>6, <1>17, <1>18 DEF WorkFails
<1>19. CASE Persist(s)
  <2>1. slot[s].job \in Jobs /\ slot[s].obj \in ProcessingJob
    BY <1>19, SlotFacts DEF Persist, At, ClaimedPcs
  <2>2. TablesInv'
    BY <1>19, <2>1, StoreKeeps DEF Persist
  <2>3. QueueStep
    BY <1>5, <1>19 DEF Persist
  <2>4. WorkersInv'
    BY <1>19, <2>3, StepKeeps DEF Persist, At, Pcs, ClaimedPcs
  <2> QED BY <1>2, <1>3, <1>4, <1>19, <2>2, <2>3, <2>4 DEF Persist
<1>20. CASE PersistRefused(s)
  <2>1. QueueStep
    BY <1>5, <1>20 DEF PersistRefused
  <2>2. ASSUME Step(s, "ack") PROVE WorkersInv'
    BY <1>20, <2>1, <2>2, StepKeeps DEF PersistRefused, At, Pcs, ClaimedPcs
  <2>3. WorkersInv'
    BY <1>17, <1>20, <2>1, <2>2 DEF PersistRefused
  <2> QED BY <1>6, <1>20, <2>3 DEF PersistRefused
<1>21. CASE PersistRaises(s)
  <2>1. slot[s].job \in Jobs /\ slot[s].obj \in ProcessingJob
    BY <1>21, SlotFacts DEF PersistRaises, At, ClaimedPcs
  <2>2. TablesInv'
    BY <1>1, <1>21, <2>1, StoreKeeps DEF PersistRaises
  <2>3. QueueStep
    BY <1>5, <1>21 DEF PersistRaises
  <2> QED BY <1>3, <1>4, <1>17, <1>21, <2>2, <2>3, FaultKeeps DEF PersistRaises
<1>22. CASE Refresh(s)
  <2> DEFINE obj == get_job(slot[s].job)
             pc == IF should_retry(slot[s].error, obj.retry_count, MaxRetries) THEN "schedule" ELSE "fail"
             x == [slot[s] EXCEPT !.obj = obj, !.pc = pc]
  <2>1. slot[s] \in SlotState /\ slot[s].job \in Jobs /\ slot[s].msg \in Ids
    BY <1>22, SlotFacts DEF Refresh, At, ClaimedPcs
  <2>2. obj \in ProcessingJob
    BY <2>1, RowTypes DEF TablesInv
  <2>3. slot' = [slot EXCEPT ![s] = x]
    BY <1>22 DEF Refresh
  <2>4. pc \in {"schedule", "fail"} /\ (pc = "schedule" => obj.retry_count < MaxRetries)
    BY DEF should_retry
  <2> HIDE DEF obj, pc
  <2>5. SlotOK(x, Len(stream))
    BY <2>1, <2>2, <2>4 DEF SlotOK, SlotState, Pcs, ClaimedPcs, Ids
  <2> HIDE DEF x
  <2> QED BY <1>5, <1>6, <1>22, <2>3, <2>5, SlotKeeps DEF Refresh
<1>23. CASE Schedule(s)
  <2>1. slot[s].job \in Jobs /\ slot[s].obj.retry_count < MaxRetries
    BY <1>23, SlotFacts DEF Schedule, At, ClaimedPcs
  <2>2. QueueStep
    BY <1>23, <2>1, ScheduleKeeps, DelayBounded DEF Schedule
  <2>3. WorkersInv'
    BY <1>23, <2>1, <2>2, StepKeeps DEF Schedule, At, Pcs, ClaimedPcs
  <2> QED BY <1>1, <1>2, <1>3, <1>4, <1>23, <2>2, <2>3 DEF Schedule
<1>24. CASE ScheduleRaises(s)
  <2> DEFINE x == [slot[s] EXCEPT !.pc = "fail", !.error = "unscheduled"]
  <2>1. slot[s] \in SlotState /\ slot[s].job \in Jobs /\ slot[s].msg \in Ids
    BY <1>24, SlotFacts DEF ScheduleRaises, At, ClaimedPcs
  <2>2. QueueStep
    BY <1>5, <1>24, <2>1, ScheduleKeeps, DelayBounded DEF ScheduleRaises
  <2>3. slot' = [slot EXCEPT ![s] = x]
    BY <1>24 DEF ScheduleRaises
  <2>4. SlotOK(x, Len(stream))
    BY <2>1 DEF SlotOK, SlotState, Pcs, ClaimedPcs, Ids, Reasons
  <2> HIDE DEF x
  <2> QED BY <1>1, <1>3, <1>4, <1>24, <2>2, <2>3, <2>4, SlotKeeps, FaultKeeps DEF ScheduleRaises
<1>25. CASE Mark(s)
  <2>1. TablesInv'
    BY <1>25, MarkedKeeps DEF Mark
  <2>2. QueueStep
    BY <1>5, <1>25 DEF Mark
  <2>3. WorkersInv'
    BY <1>25, <2>2, StepKeeps DEF Mark, MarkPcs, Pcs, ClaimedPcs
  <2> QED BY <1>2, <1>3, <1>4, <1>25, <2>1, <2>2, <2>3 DEF Mark
<1>26. CASE MarkRefused(s)
  BY <1>5, <1>6, <1>26, ReleaseKeeps DEF MarkRefused
<1>27. CASE CallRaises(s)
  <2>1. ASSUME At(s, "claim"), claim_job(slot[s].job) PROVE TablesInv'
    BY <2>1, SlotFacts, ClaimKeeps DEF At
  <2>2. TablesInv'
    BY <1>1, <1>27, <2>1, MarkedKeeps DEF CallRaises
  <2>3. QueueStep
    BY <1>5, <1>27 DEF CallRaises
  <2> QED BY <1>3, <1>4, <1>27, <2>2, <2>3, ReleaseKeeps, FaultKeeps DEF CallRaises
<1>28. CASE Ack(s)
  <2>1. slot[s].msg \in Ids
    BY <1>28, SlotFacts DEF Ack, At
  <2>2. QueueStep
    BY <1>28, <2>1, AckKeeps DEF Ack
  <2> QED BY <1>1, <1>2, <1>3, <1>4, <1>28, <2>2, ReleaseKeeps DEF Ack
<1>29. CASE AckRaises(s)
  <2>1. slot[s].msg \in Ids /\ s[1] \in Workers
    BY <1>29, SlotFacts DEF AckRaises, At
  <2>2. QueueStep
    BY <1>5, <1>29, <2>1, AckKeeps DEF AckRaises
  <2> QED BY <1>1, <1>3, <1>4, <1>29, <2>1, <2>2, DieKeeps, FaultKeeps DEF AckRaises
<1>30. CASE PoisonCrash(s)
  BY <1>5, <1>6, <1>30, SlotFacts, DieKeeps DEF PoisonCrash
<1>31. CASE StopTask(s)
  <2>1. WorkersInv'
    BY <1>5, <1>31, StepKeeps DEF StopTask, Pcs, ClaimedPcs
  <2> QED BY <1>6, <1>31, <2>1 DEF StopTask
<1> QED
  BY <1>7, <1>8, <1>9, <1>10, <1>11, <1>12, <1>13, <1>14, <1>15, <1>16, <1>18, <1>19, <1>20,
     <1>21, <1>22, <1>23, <1>24, <1>25, <1>26, <1>27, <1>28, <1>29, <1>30, <1>31
  DEF SlotStep, SlotRaises

\* The retry scheduler and the life of the process.
LEMMA ProcessSteps ==
    ASSUME Inv, UNCHANGED request, NEW w \in Workers,
           \/ SchedulerStep(w) \/ SchedulerRaises(w) \/ ProcessStep(w)
           \/ Crash(w) \/ Sigterm(w)
    PROVE  Inv'
<1> USE DEF Inv
<1>1. ASSUME UNCHANGED dbVars PROVE TablesInv'
  BY <1>1 DEF dbVars, TablesInv, DbTypeOK, CompletedHasResult, ProcessingHasStart, RetryCountBounded
<1>2. ASSUME UNCHANGED envVars PROVE EnvTypeOK'
  BY <1>2 DEF envVars, EnvTypeOK
<1>3. RequestsInv'
  BY DEF RequestsInv, ApiTypeOK
<1>4. ASSUME QueueStep, UNCHANGED slot,
             worker' \in [Workers -> {"up", "stopping", "down"}],
             due' \in [Workers -> [Jobs -> Nat]]
      PROVE  QueueTypeOK' /\ WorkersInv'
  <2>1. Len(stream) \in Nat /\ Len(stream') \in Nat /\ Len(stream) <= Len(stream')
    BY <1>4 DEF QueueTypeOK, QueueStep
  <2> QED BY <1>4, <2>1, SlotGrows DEF WorkersInv, WorkerTypeOK, QueueStep
<1>5. /\ worker \in [Workers -> {"up", "stopping", "down"}]
      /\ due \in [Workers -> [Jobs -> Nat]]
  BY DEF WorkersInv, WorkerTypeOK
<1>6. NoneDue \in [Jobs -> Nat]
  BY DEF NoneDue
<1>7. CASE PopDue(w)
  <2>1. QueueStep /\ DueRetries \in [Jobs -> Nat]
    BY <1>7, PopKeeps DEF PopDue
  <2>2. due' \in [Workers -> [Jobs -> Nat]]
    BY <1>5, <1>7, <2>1 DEF PopDue
  <2> QED BY <1>1, <1>2, <1>3, <1>4, <1>5, <1>7, <2>1, <2>2 DEF PopDue
<1>8. CASE PopDueRaises(w)
  <2>1. QueueStep
    BY <1>8, PopKeeps DEF PopDueRaises
  <2> QED BY <1>1, <1>3, <1>4, <1>5, <1>8, <2>1, FaultKeeps DEF PopDueRaises
<1>9. ASSUME NEW j \in Jobs, Republish(w, j)
      PROVE  Inv'
  <2>1. QueueStep
    BY <1>9, PublishKeeps DEF Republish, Payloads
  <2>2. due[w][j] - 1 \in Nat
    BY <1>5, <1>9 DEF Republish
  <2>3. due' \in [Workers -> [Jobs -> Nat]]
    BY <1>5, <1>9, <2>2 DEF Republish
  <2> QED BY <1>1, <1>2, <1>3, <1>4, <1>5, <1>9, <2>1, <2>3 DEF Republish
<1>10. ASSUME NEW j \in Jobs, RepublishRaises(w, j)
       PROVE  Inv'
  <2>1. QueueStep
    BY <1>10, PublishKeeps, QueueStutters DEF RepublishRaises, Payloads
  <2>2. due' \in [Workers -> [Jobs -> Nat]]
    BY <1>5, <1>6, <1>10 DEF RepublishRaises
  <2> QED BY <1>1, <1>3, <1>4, <1>5, <1>10, <2>1, <2>2, FaultKeeps DEF RepublishRaises
<1>11. CASE Exit(w)
  <2>1. QueueStep
    BY <1>11, QueueStutters DEF Exit
  <2> QED BY <1>1, <1>2, <1>3, <1>11, <2>1, DieKeeps DEF Exit, QueueStep
<1>12. CASE Crash(w)
  <2>1. QueueStep
    BY <1>12, QueueStutters DEF Crash
  <2> QED BY <1>1, <1>3, <1>12, <2>1, DieKeeps, FaultKeeps DEF Crash, QueueStep
<1>13. CASE Restart(w)
  <2>1. QueueStep /\ worker' \in [Workers -> {"up", "stopping", "down"}]
    BY <1>5, <1>13, QueueStutters DEF Restart
  <2> QED BY <1>1, <1>2, <1>3, <1>4, <1>5, <1>13, <2>1 DEF Restart
<1>14. CASE Sigterm(w)
  <2>1. QueueStep /\ worker' \in [Workers -> {"up", "stopping", "down"}]
    BY <1>5, <1>14, QueueStutters DEF Sigterm
  <2> QED BY <1>1, <1>3, <1>4, <1>5, <1>14, <2>1, FaultKeeps DEF Sigterm
<1> QED
  BY <1>7, <1>8, <1>9, <1>10, <1>11, <1>12, <1>13, <1>14
  DEF SchedulerStep, SchedulerRaises, ProcessStep

\* A foreign entry on the stream.
LEMMA ForeignStep ==
    ASSUME Inv, ForeignEntry
    PROVE  Inv'
<1> USE DEF Inv
<1>1. QueueStep
  BY PublishKeeps DEF ForeignEntry, Payloads
<1>2. TablesInv' /\ RequestsInv'
  BY DEF ForeignEntry, dbVars, TablesInv, DbTypeOK, CompletedHasResult, ProcessingHasStart,
         RetryCountBounded, RequestsInv, ApiTypeOK
<1> QED BY <1>1, <1>2, WorkersStutter, FaultKeeps DEF ForeignEntry, QueueStep

\* Time passes.
LEMMA TickStep ==
    ASSUME Inv, Tick
    PROVE  Inv'
<1> USE DEF Inv
<1>1. QueueStep /\ TablesInv'
  BY QueueTickKeeps, DbTickKeeps DEF Tick
<1>2. EnvTypeOK' /\ RequestsInv'
  BY DEF Tick, envVars, EnvTypeOK, RequestsInv, ApiTypeOK
<1>3. ASSUME NEW s \in Slots
      PROVE  SlotOK(slot'[s], Len(stream))
  <2>1. slot[s] \in SlotState /\ SlotOK(slot[s], Len(stream))
    BY DEF WorkersInv, WorkerTypeOK
  <2>2. CASE At(s, "work")
    <3> DEFINE x == [slot[s] EXCEPT !.age = @ + 1]
    <3>1. slot[s].age + 1 \in 0 .. MaxWork
      BY <2>1, <2>2 DEF Tick, SlotState
    <3>2. x \in SlotState
      BY <2>1, <3>1 DEF SlotState
    <3>3. /\ x.pc = slot[s].pc /\ x.msg = slot[s].msg
          /\ x.job = slot[s].job /\ x.obj = slot[s].obj
      BY <2>1 DEF SlotState
    <3>4. slot'[s] = x
      BY <2>2 DEF Tick
    <3> HIDE DEF x
    <3> QED BY <2>1, <3>2, <3>3, <3>4 DEF SlotOK
  <2>3. CASE ~At(s, "work")
    BY <2>1, <2>3 DEF Tick
  <2> QED BY <2>2, <2>3
<1>4. slot' \in [Slots -> SlotState]
  BY <1>3 DEF Tick, SlotOK
<1>5. Len(stream) \in Nat /\ Len(stream') \in Nat /\ Len(stream) <= Len(stream')
  BY <1>1 DEF QueueTypeOK, QueueStep
<1>6. WorkersInv'
  BY <1>3, <1>4, <1>5, SlotGrows DEF WorkersInv, WorkerTypeOK, Tick
<1> QED BY <1>1, <1>2, <1>6 DEF QueueStep

-----------------------------------------------------------------------------
(* The theorems.                                                           *)

\* The pipeline starts in the invariant.
LEMMA InitInv == Init => Inv
<1> SUFFICES ASSUME Init PROVE Inv
  OBVIOUS
<1> USE DEF Init
<1>1. TablesInv
  BY RowTypes DEF DbInit, TablesInv, DbTypeOK, CompletedHasResult, ProcessingHasStart,
                  RetryCountBounded, NoRow, ProcessingJob
<1>2. QueueTypeOK
  BY DEF QueueInit, QueueTypeOK
<1>3. EnvTypeOK
  BY DEF EnvInit, EnvTypeOK
<1>4. RequestsInv
  <2>1. RequestOK(IdleRequest)
    BY RowTypes DEF RequestOK, RequestState, IdleRequest
  <2> QED BY <2>1 DEF ApiInit, RequestsInv, ApiTypeOK, RequestOK
<1>5. WorkersInv
  <2>1. SlotOK(Free, Len(stream))
    BY HoldingOK DEF Free, Pcs, ClaimedPcs
  <2> QED BY <2>1 DEF WorkerInit, WorkersInv, WorkerTypeOK, SlotOK, NoneDue
<1> QED BY <1>1, <1>2, <1>3, <1>4, <1>5 DEF Inv

\* Every step stays in it.
LEMMA NextInv == Inv /\ [Next]_vars => Inv'
<1> SUFFICES ASSUME Inv, [Next]_vars PROVE Inv'
  OBVIOUS
<1>1. CASE ApiNext /\ UNCHANGED <<worker, slot, due>>
  BY <1>1, ApiStep
<1>2. CASE WorkerNext /\ UNCHANGED request
  BY <1>2, SlotSteps, ProcessSteps DEF WorkerNext
<1>3. CASE ForeignEntry
  BY <1>3, ForeignStep
<1>4. CASE Tick
  BY <1>4, TickStep
<1>5. CASE UNCHANGED vars
  BY <1>5 DEF vars, dbVars, queueVars, envVars, Inv, TablesInv, DbTypeOK, CompletedHasResult,
              ProcessingHasStart, RetryCountBounded, QueueTypeOK, EnvTypeOK, RequestsInv, ApiTypeOK,
              WorkersInv, WorkerTypeOK
<1> QED BY <1>1, <1>2, <1>3, <1>4, <1>5 DEF Next

\* The invariant holds throughout every behaviour.
THEOREM Invariance == Spec => []Inv
BY InitInv, NextInv, PTL DEF Spec

\* Type correctness, for every instance.
THEOREM TypeCorrect == Spec => []TypeOK
<1>1. Inv => TypeOK
  BY DEF Inv, TypeOK, TablesInv, RequestsInv, WorkersInv
<1> QED BY <1>1, Invariance, PTL

\* No job is ever completed without its result, whatever crashes, whatever
\* call raises and however late a stale object is flushed.
THEOREM ResultBeforeCompleted == Spec => []CompletedHasResult
<1>1. Inv => CompletedHasResult
  BY DEF Inv, TablesInv
<1> QED BY <1>1, Invariance, PTL

\* A processing row can always be found stale, so redelivery can always take
\* an abandoned job over in the end.
THEOREM ProcessingCanGoStale == Spec => []ProcessingHasStart
<1>1. Inv => ProcessingHasStart
  BY DEF Inv, TablesInv
<1> QED BY <1>1, Invariance, PTL

\* The retry budget of a job is never exceeded, even by attempts that overlap.
THEOREM RetriesWithinBudget == Spec => []RetryCountBounded
<1>1. Inv => RetryCountBounded
  BY DEF Inv, TablesInv
<1> QED BY <1>1, Invariance, PTL
=============================================================================
