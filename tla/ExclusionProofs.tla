-------------------------- MODULE ExclusionProofs --------------------------
(***************************************************************************)
(* Theorems about Pipeline under the conditions its exclusion of workers   *)
(* rests on, for any number of jobs, workers, requests, faults and retries *)
(* and any thresholds that meet them:                                      *)
(*   - calls are prompt, and the longest attempt is over before its row    *)
(*     counts as stale (PromptClaims);                                     *)
(*   - no publish of the API raises, and no two manual retries of one job  *)
(*     overlap (QuietApi).                                                 *)
(* The runs Overlap, AmbiguousPublish, LostRetry and DoubleRetry show what *)
(* happens without them.  Workers may crash, be stopped and lose replies   *)
(* at any step.                                                            *)
(***************************************************************************)
EXTENDS PipelineProofs

USE EnvironmentAssumption, JobServiceAssumption, QueueAssumption, MaxDelayNat, WorkerAssumption

PromptClaims == PromptIO /\ MaxWork <= StaleAfter

QuietApi ==
    /\ \A r \in Requests : request[r].pc # "fail"
    /\ \A r, q \in Requests :
         /\ request[r].pc = "reset" /\ request[q].pc = "reset"
         /\ request[r].job = request[q].job
         => r = q

-----------------------------------------------------------------------------
(* The inductive invariant.  A slot that holds a job finds its row as it   *)
(* claimed it: processing since as long as the slot has worked on it, and  *)
(* so not claimable; or completed, when its own commit took effect and the *)
(* reply was lost.  Objects that will be flushed are what the row holds.   *)

\* What a session holds after loading row.
Loaded(row) == [row EXCEPT !.started_at = IF @ = Null THEN Null ELSE 0]

FailurePcs == {"refresh", "schedule", "mark_retrying", "fail"}
LoadedPcs  == {"deadletter", "work", "schedule", "mark_retrying", "fail"}

SlotSound(x, row) ==
    /\ x.pc \in {"claim", "load"} => x.age = 0
    /\ x.pc \in ClaimedPcs =>
         /\ row.status \in {"processing", "completed"}
         /\ row.status = "processing" => row.started_at = x.age
         /\ row.status = "completed" => x.pc \in FailurePcs
    /\ x.pc \in LoadedPcs => x.obj = Loaded(row)
    /\ x.pc \in FailurePcs => x.error # "null"

RequestSound(y, row) == y.pc = "reset" => row.status = "failed" /\ y.obj = Loaded(row)

RowSound(row, stored) ==
    /\ stored => row.status = "completed"
    /\ row.status = "absent" => row.retry_count = 0
    /\ row.status \in {"retrying", "failed"} => row.error_message # "null"

Sound == /\ \A s \in Slots : SlotSound(slot[s], job[slot[s].job])
         /\ \A r \in Requests : RequestSound(request[r], job[request[r].job])
         /\ \A j \in Jobs : RowSound(job[j], result[j])
         /\ AtMostOneAttempt

LifecycleStep == [Lifecycle!Next]_(Lifecycle!lifecycleVars)

-----------------------------------------------------------------------------
(* What one step does to the others.                                       *)

\* Only the row of j changes.
OnlyRowOf(j) == \A k \in Jobs : k # j => job'[k] = job[k] /\ result'[k] = result[k]

\* Of the slots and the requests about to reset a job, at most s holds j, at
\* most r is about it.
HeldOnlyBy(s, j)  == \A t \in Slots : Holds(t, j) => t = s
HeldByNone(j)     == \A t \in Slots : ~ Holds(t, j)
ResetOnlyBy(r, j) == \A q \in Requests : request[q].pc = "reset" /\ request[q].job = j => q = r

\* A slot that no longer holds a job, with the tables as they are.
LEMMA SlotLetsGo ==
    ASSUME Inv, Sound, UNCHANGED <<job, result, request>>,
           NEW s \in Slots, NEW x, slot' = [slot EXCEPT ![s] = x],
           x.pc \notin ClaimedPcs, x.pc = "claim" => x.age = 0
    PROVE  Sound'
<1>1. \A t \in Slots : slot'[t] = IF t = s THEN x ELSE slot[t]
  BY DEF Inv, WorkersInv, WorkerTypeOK
<1>2. SlotSound(x, job[x.job])
  BY DEF SlotSound, ClaimedPcs, LoadedPcs, FailurePcs
<1>3. \A t \in Slots : SlotSound(slot'[t], job'[slot'[t].job])
  BY <1>1, <1>2 DEF Sound
<1>4. AtMostOneAttempt'
  BY <1>1 DEF Sound, AtMostOneAttempt, Holds
<1> QED BY <1>3, <1>4 DEF Sound

\* A slot moves on with the job it holds, or has just claimed a job nobody
\* holds; only the row of that job changes, and no pending reset is about it.
LEMMA SlotMoves ==
    ASSUME Inv, Inv', Sound, UNCHANGED request,
           NEW s \in Slots, NEW x, slot' = [slot EXCEPT ![s] = x],
           NEW j \in Jobs,
           OnlyRowOf(j), HeldOnlyBy(s, j),
           job[j].status = "failed" => job'[j] = job[j],
           RowSound(job'[j], result'[j]),
           x.pc \in ClaimedPcs => x.job = j /\ SlotSound(x, job'[j]),
           x.pc = "claim" => x.age = 0
    PROVE  Sound'
<1> USE DEF OnlyRowOf, HeldOnlyBy
<1>1. \A t \in Slots : slot'[t] = IF t = s THEN x ELSE slot[t]
  BY DEF Inv, WorkersInv, WorkerTypeOK
<1>2. \A t \in Slots : SlotSound(slot'[t], job'[slot'[t].job])
  <2> SUFFICES ASSUME NEW t \in Slots PROVE SlotSound(slot'[t], job'[slot'[t].job])
    OBVIOUS
  <2>1. CASE t = s
    BY <1>1, <2>1 DEF SlotSound, ClaimedPcs, LoadedPcs, FailurePcs
  <2>2. CASE t # s /\ slot[t].pc \in ClaimedPcs
    <3>1. slot[t].job \in Jobs /\ slot[t].job # j
      BY <2>2 DEF Inv, WorkersInv, SlotOK, Holds
    <3> QED BY <1>1, <2>2, <3>1 DEF Sound
  <2>3. CASE t # s /\ slot[t].pc \notin ClaimedPcs
    BY <1>1, <2>3 DEF Sound, SlotSound, ClaimedPcs, LoadedPcs, FailurePcs
  <2> QED BY <2>1, <2>2, <2>3
<1>3. \A r \in Requests : RequestSound(request'[r], job'[request'[r].job])
  <2> SUFFICES ASSUME NEW r \in Requests, request[r].pc = "reset"
               PROVE  RequestSound(request[r], job'[request[r].job])
    BY DEF RequestSound
  <2>1. request[r].job \in Jobs /\ job[request[r].job].status = "failed"
    BY DEF Inv, RequestsInv, RequestOK, Sound, RequestSound
  <2>2. job'[request[r].job] = job[request[r].job]
    BY <2>1
  <2> QED BY <2>2 DEF Sound
<1>4. \A k \in Jobs : RowSound(job'[k], result'[k])
  BY DEF Sound
<1>5. AtMostOneAttempt'
  BY <1>1 DEF Sound, AtMostOneAttempt, Holds
<1> QED BY <1>2, <1>3, <1>4, <1>5 DEF Sound

\* A request moves on; only the row of a job changes that no slot holds and no
\* other request is about to reset.
LEMMA RequestMoves ==
    ASSUME Inv, Inv', Sound, UNCHANGED slot,
           NEW r \in Requests, NEW y, request' = [request EXCEPT ![r] = y],
           NEW j \in Jobs,
           OnlyRowOf(j), HeldByNone(j), ResetOnlyBy(r, j),
           RowSound(job'[j], result'[j]),
           RequestSound(y, job'[y.job])
    PROVE  Sound'
<1> USE DEF OnlyRowOf, HeldByNone, ResetOnlyBy
<1>1. \A q \in Requests : request'[q] = IF q = r THEN y ELSE request[q]
  BY DEF Inv, RequestsInv, ApiTypeOK
<1>2. \A t \in Slots : SlotSound(slot'[t], job'[slot'[t].job])
  <2> SUFFICES ASSUME NEW t \in Slots PROVE SlotSound(slot[t], job'[slot[t].job])
    OBVIOUS
  <2>1. CASE slot[t].pc \in ClaimedPcs
    <3>1. slot[t].job \in Jobs /\ Holds(t, slot[t].job)
      BY <2>1 DEF Inv, WorkersInv, SlotOK, Holds
    <3>2. job'[slot[t].job] = job[slot[t].job]
      BY <3>1
    <3> QED BY <3>2 DEF Sound
  <2>2. CASE slot[t].pc \notin ClaimedPcs
    BY <2>2 DEF Sound, SlotSound, ClaimedPcs, LoadedPcs, FailurePcs
  <2> QED BY <2>1, <2>2
<1>3. \A q \in Requests : RequestSound(request'[q], job'[request'[q].job])
  <2> SUFFICES ASSUME NEW q \in Requests PROVE RequestSound(request'[q], job'[request'[q].job])
    OBVIOUS
  <2>1. CASE q = r
    BY <1>1, <2>1
  <2>2. CASE q # r /\ request[q].pc = "reset"
    <3>1. request[q].job \in Jobs
      BY <2>2 DEF Inv, RequestsInv, RequestOK
    <3>2. job'[request[q].job] = job[request[q].job]
      BY <2>2, <3>1
    <3> QED BY <1>1, <2>2, <3>2 DEF Sound
  <2>3. CASE q # r /\ request[q].pc # "reset"
    BY <1>1, <2>3 DEF RequestSound
  <2> QED BY <2>1, <2>2, <2>3
<1>4. \A k \in Jobs : RowSound(job'[k], result'[k])
  BY DEF Sound
<1>5. AtMostOneAttempt'
  BY DEF Sound, AtMostOneAttempt, Holds
<1> QED BY <1>2, <1>3, <1>4, <1>5 DEF Sound

-----------------------------------------------------------------------------
(* The tables, step by step, as JobLifecycle sees them.                    *)

\* Nothing a client of the API sees has changed.
LEMMA LifecycleStutters ==
    ASSUME UNCHANGED <<job, result>>
    PROVE  LifecycleStep
BY DEF LifecycleStep, Lifecycle!lifecycleVars

\* One row changes its status and its retry count: the move JobLifecycle has
\* for it.
LEMMA LifecycleMove ==
    ASSUME DbTypeOK, NEW j \in Jobs, NEW row, NEW from, NEW to,
           job' = [job EXCEPT ![j] = row],
           from = job[j].status, to = row.status,
           \/ /\ <<from, to>> \in {<<"absent", "queued">>, <<"queued", "processing">>,
                                  <<"retrying", "processing">>, <<"processing", "failed">>,
                                  <<"processing", "processing">>}
              /\ row.retry_count = job[j].retry_count
              /\ UNCHANGED result
           \/ /\ from = "processing" /\ to = "completed"
              /\ row.retry_count = job[j].retry_count
              /\ ~ result[j] /\ result' = [result EXCEPT ![j] = TRUE]
           \/ /\ from = "processing" /\ to = "retrying"
              /\ job[j].retry_count < MaxRetries /\ row.retry_count = job[j].retry_count + 1
              /\ UNCHANGED result
           \/ /\ from = "failed" /\ to = "queued" /\ row.retry_count = 0
              /\ UNCHANGED result
    PROVE  LifecycleStep
<1> DEFINE status == [k \in Jobs |-> job[k].status]
           attempts == [k \in Jobs |-> job[k].retry_count]
<1>1. job \in [Jobs -> ProcessingJob]
  BY DEF DbTypeOK
<1>2. [k \in Jobs |-> job'[k].status] = [status EXCEPT ![j] = to]
  BY <1>1
<1>3. [k \in Jobs |-> job'[k].retry_count] = [attempts EXCEPT ![j] = row.retry_count]
  BY <1>1
<1>4. row.retry_count = job[j].retry_count => [attempts EXCEPT ![j] = row.retry_count] = attempts
  BY <1>1
<1>5. from = to => [status EXCEPT ![j] = to] = status
  BY <1>1
<1>6. status[j] = from /\ attempts[j] = job[j].retry_count
  OBVIOUS
<1> USE DEF LifecycleStep, Lifecycle!Next, Lifecycle!Move, Lifecycle!lifecycleVars
<1>7. CASE from = "absent" /\ to = "queued"
  <2>1. Lifecycle!Submit(j)
    BY <1>2, <1>3, <1>4, <1>6, <1>7 DEF Lifecycle!Submit
  <2> QED BY <2>1
<1>8. CASE from \in {"queued", "retrying"} /\ to = "processing"
  <2>1. Lifecycle!Start(j)
    BY <1>2, <1>3, <1>4, <1>6, <1>8 DEF Lifecycle!Start
  <2> QED BY <2>1
<1>9. CASE from = "processing" /\ to = "failed"
  <2>1. Lifecycle!Fail(j)
    BY <1>2, <1>3, <1>4, <1>6, <1>9 DEF Lifecycle!Fail
  <2> QED BY <2>1
<1>10. CASE from = "processing" /\ to = "processing"
  BY <1>2, <1>3, <1>4, <1>5, <1>10
<1>11. CASE from = "processing" /\ to = "completed"
  <2>1. Lifecycle!Complete(j)
    BY <1>2, <1>3, <1>4, <1>6, <1>11 DEF Lifecycle!Complete
  <2> QED BY <2>1
<1>12. CASE from = "processing" /\ to = "retrying"
  <2>1. Lifecycle!Retry(j)
    BY <1>2, <1>3, <1>6, <1>12 DEF Lifecycle!Retry
  <2> QED BY <2>1
<1>13. CASE from = "failed" /\ to = "queued"
  <2>1. Lifecycle!Requeue(j)
    BY <1>2, <1>3, <1>6, <1>13 DEF Lifecycle!Requeue
  <2> QED BY <2>1
<1> QED BY <1>7, <1>8, <1>9, <1>10, <1>11, <1>12, <1>13

\* The state machine, read backwards.
LEMMA TransitionSources ==
    ASSUME NEW from
    PROVE  /\ is_transition_allowed(from, "completed") => from = "processing"
           /\ is_transition_allowed(from, "retrying") => from = "processing"
           /\ is_transition_allowed(from, "failed") => from \in {"queued", "processing", "retrying"}
           /\ is_transition_allowed(from, "queued") => from = "failed"
BY DEF is_transition_allowed, ALLOWED_TRANSITIONS, JobStatus

\* get_job is what a session loads.
LEMMA GetJobLoads ==
    ASSUME DbTypeOK, NEW j \in Jobs
    PROVE  /\ get_job(j) = Loaded(job[j])
           /\ get_job(j).status = job[j].status
           /\ get_job(j).retry_count = job[j].retry_count
           /\ get_job(j).error_message = job[j].error_message
<1>1. job[j] \in ProcessingJob
  BY DEF DbTypeOK
<1> QED BY <1>1 DEF get_job, Loaded, ProcessingJob

\* An object as the row is: what flushing it after a mark_* leaves in the row.
LEMMA FlushLoaded ==
    ASSUME NEW row \in ProcessingJob, NEW o, o = Loaded(row), NEW reason
    PROVE  /\ o.status = row.status /\ o.retry_count = row.retry_count
           /\ Flush(row, o, mark_completed(o)).status = "completed"
           /\ Flush(row, o, mark_completed(o)).retry_count = row.retry_count
           /\ Flush(row, o, mark_retrying(o, reason)).status = "retrying"
           /\ Flush(row, o, mark_retrying(o, reason)).retry_count = row.retry_count + 1
           /\ Flush(row, o, mark_retrying(o, reason)).error_message = reason
           /\ Flush(row, o, mark_failed(o, reason)).status = "failed"
           /\ Flush(row, o, mark_failed(o, reason)).retry_count = row.retry_count
           /\ Flush(row, o, mark_failed(o, reason)).error_message = reason
           /\ Flush(row, o, reset_for_manual_retry(o)).status = "queued"
           /\ Flush(row, o, reset_for_manual_retry(o)).retry_count = 0
<1>1. /\ o \in [status : JobStatus \cup {"absent"}, retry_count : Nat,
                started_at : {Null, 0}, error_message : Reasons \cup {"null"}]
      /\ o.status = row.status /\ o.retry_count = row.retry_count
      /\ o.error_message = row.error_message
  BY DEF Loaded, ProcessingJob, Null
<1>2. /\ Flush(row, o, mark_completed(o)).status = "completed"
      /\ Flush(row, o, mark_completed(o)).retry_count = row.retry_count
  BY <1>1 DEF Flush, mark_completed
<1>3. /\ Flush(row, o, mark_retrying(o, reason)).status = "retrying"
      /\ Flush(row, o, mark_retrying(o, reason)).retry_count = row.retry_count + 1
      /\ Flush(row, o, mark_retrying(o, reason)).error_message = reason
  BY <1>1 DEF Flush, mark_retrying
<1>4. /\ Flush(row, o, mark_failed(o, reason)).status = "failed"
      /\ Flush(row, o, mark_failed(o, reason)).retry_count = row.retry_count
      /\ Flush(row, o, mark_failed(o, reason)).error_message = reason
  BY <1>1 DEF Flush, mark_failed
<1>5. /\ Flush(row, o, reset_for_manual_retry(o)).status = "queued"
      /\ Flush(row, o, reset_for_manual_retry(o)).retry_count = 0
  BY <1>1 DEF Flush, reset_for_manual_retry
<1> QED BY <1>1, <1>2, <1>3, <1>4, <1>5

\* A row that claim_job would take is held by nobody and has no result.
LEMMA ClaimableIsFree ==
    ASSUME PromptClaims, Inv, Sound, NEW j \in Jobs, IsClaimable(job[j])
    PROVE  /\ HeldByNone(j)
           /\ ~ result[j]
           /\ job[j].status \in {"queued", "retrying", "processing"}
<1>1. job[j].status \in {"queued", "retrying", "processing"}
  BY DEF IsClaimable, CLAIMABLE_STATUSES
<1>2. ~ result[j]
  BY <1>1 DEF Sound, RowSound
<1>3. ASSUME NEW t \in Slots, Holds(t, j) PROVE FALSE
  <2>1. SlotSound(slot[t], job[j]) /\ slot[t].pc \in ClaimedPcs /\ slot[t].age \in 0 .. MaxWork
    BY <1>3 DEF Sound, Holds, Inv, WorkersInv, WorkerTypeOK, SlotState
  <2>2. job[j].status = "processing" /\ job[j].started_at = slot[t].age
    BY <1>1, <2>1 DEF SlotSound
  <2> QED BY <2>1, <2>2 DEF IsClaimable, CLAIMABLE_STATUSES, PromptClaims
<1> QED BY <1>1, <1>2, <1>3 DEF HeldByNone

-----------------------------------------------------------------------------
(* Every step.  Step by step both facts are shown: the invariant is kept,  *)
(* and the tables move as JobLifecycle allows.                             *)

Good == Sound' /\ LifecycleStep

\* The death of a worker process, at any of its steps.
LEMMA DieGood ==
    ASSUME Inv, Sound, UNCHANGED <<job, result, request>>, NEW w \in Workers, Die(w)
    PROVE  Good
<1>1. \A t \in Slots : slot'[t] = IF t[1] = w THEN Free ELSE slot[t]
  BY DEF Die
<1>2. Free.pc = "idle"
  BY DEF Free, Holding
<1>3. \A t \in Slots : SlotSound(slot'[t], job'[slot'[t].job])
  BY <1>1, <1>2 DEF Sound, SlotSound, ClaimedPcs, LoadedPcs, FailurePcs
<1>4. AtMostOneAttempt'
  BY <1>1, <1>2 DEF Sound, AtMostOneAttempt, Holds, ClaimedPcs
<1> QED BY <1>3, <1>4, LifecycleStutters DEF Good, Sound

\* A slot that is done with its entry.
LEMMA ReleaseGood ==
    ASSUME Inv, Sound, UNCHANGED <<job, result, request>>, NEW s \in Slots, Release(s)
    PROVE  Good
<1> DEFINE pc == IF worker[s[1]] = "stopping" THEN "stopped" ELSE "idle"
           x == Holding(pc, 0, 0, "none")
<1>1. slot' = [slot EXCEPT ![s] = x]
  BY DEF Release
<1>2. x.pc \in {"stopped", "idle"}
  BY DEF Holding
<1> HIDE DEF x
<1> QED BY <1>1, <1>2, SlotLetsGo, LifecycleStutters DEF Good, ClaimedPcs

\* A slot that takes an entry has not claimed its job yet.
LEMMA AcceptGood ==
    ASSUME Inv, Sound, UNCHANGED <<job, result, request>>, NEW s \in Slots, NEW m, NEW count,
           Accept(s, m, count)
    PROVE  Good
<1> DEFINE x == IF stream[m].payload = Malformed THEN Holding("drop", m, count, "none")
                ELSE Holding("claim", m, count, stream[m].payload)
<1>1. slot' = [slot EXCEPT ![s] = x]
  BY DEF Accept
<1>2. x.pc \in {"drop", "claim"} /\ x.age = 0
  BY DEF Holding
<1> HIDE DEF x
<1> QED BY <1>1, <1>2, SlotLetsGo, LifecycleStutters DEF Good, ClaimedPcs

\* A slot that holds its job goes on to another call, the tables left alone.
LEMMA HolderGood ==
    ASSUME Inv, Inv', Sound, UNCHANGED <<job, result, request>>,
           NEW s \in Slots, NEW x, slot' = [slot EXCEPT ![s] = x],
           slot[s].pc \in ClaimedPcs,
           x.pc \in ClaimedPcs => x.job = slot[s].job /\ SlotSound(x, job[slot[s].job]),
           x.pc # "claim"
    PROVE  Good
<1>1. slot[s].job \in Jobs /\ Holds(s, slot[s].job)
  BY DEF Inv, WorkersInv, SlotOK, Holds
<1>2. HeldOnlyBy(s, slot[s].job)
  BY <1>1 DEF Sound, AtMostOneAttempt, HeldOnlyBy
<1>3. RowSound(job[slot[s].job], result[slot[s].job])
  BY <1>1 DEF Sound
<1> DEFINE j == slot[s].job
<1>4. /\ OnlyRowOf(j)
      /\ job'[j] = job[j] /\ RowSound(job'[j], result'[j])
      /\ x.pc \in ClaimedPcs => x.job = j /\ SlotSound(x, job'[j])
  BY <1>3 DEF OnlyRowOf
<1> HIDE DEF j
<1>5. Sound'
  BY <1>1, <1>2, <1>4, SlotMoves DEF j
<1> QED BY <1>5, LifecycleStutters DEF Good

\* A request that will not reset its job goes on, the tables left alone.
LEMMA RequestGood ==
    ASSUME Inv, Sound, UNCHANGED <<job, result, slot>>,
           NEW r \in Requests, NEW y, request' = [request EXCEPT ![r] = y],
           RequestSound(y, job[y.job])
    PROVE  Good
<1>1. \A q \in Requests : request'[q] = IF q = r THEN y ELSE request[q]
  BY DEF Inv, RequestsInv, ApiTypeOK
<1>2. \A q \in Requests : RequestSound(request'[q], job'[request'[q].job])
  BY <1>1 DEF Sound
<1>3. AtMostOneAttempt'
  BY DEF Sound, AtMostOneAttempt, Holds
<1> QED BY <1>2, <1>3, LifecycleStutters DEF Good, Sound

\* Creating a job: nobody holds a job that does not exist yet.
LEMMA CreateGood ==
    ASSUME Inv, Inv', Sound, UNCHANGED slot, NEW j \in Jobs, create_document_and_job(j),
           NEW r \in Requests, NEW y, y.pc # "reset", request' = [request EXCEPT ![r] = y]
    PROVE  Good
<1> DEFINE row == [NoRow EXCEPT !.status = "queued"]
<1>1. row.status = "queued" /\ row.retry_count = 0
  BY DEF NoRow
<1>2. job[j].status = "absent" /\ job' = [job EXCEPT ![j] = row] /\ result' = result
  BY DEF create_document_and_job
<1> HIDE DEF row
<1>3. job'[j] = row /\ OnlyRowOf(j)
  BY <1>2 DEF Inv, TablesInv, DbTypeOK, OnlyRowOf
<1>4. HeldByNone(j)
  BY <1>2 DEF Sound, SlotSound, Holds, HeldByNone
<1>5. ResetOnlyBy(r, j)
  BY <1>2 DEF Sound, RequestSound, ResetOnlyBy
<1>6. RowSound(job'[j], result'[j])
  BY <1>1, <1>2, <1>3 DEF Sound, RowSound
<1>7. RequestSound(y, job'[y.job])
  BY DEF RequestSound
<1>8. Sound'
  BY <1>3, <1>4, <1>5, <1>6, <1>7, RequestMoves
<1>9. job[j].retry_count = 0
  BY <1>2 DEF Sound, RowSound
<1>10. LifecycleStep
  BY <1>1, <1>2, <1>9, LifecycleMove DEF Inv, TablesInv
<1> QED BY <1>8, <1>10 DEF Good

\* Resetting a job that failed: nobody holds it, and no other request is about
\* to do the same.
LEMMA ResetGood ==
    ASSUME Inv, Inv', Sound, QuietApi, UNCHANGED <<slot, result>>,
           NEW r \in Requests, request[r].pc = "reset",
           Commit(request[r].job, request[r].obj, reset_for_manual_retry(request[r].obj)),
           NEW y, y.pc # "reset", request' = [request EXCEPT ![r] = y]
    PROVE  Good
<1>0. PICK j \in Jobs : j = request[r].job
  BY DEF Inv, RequestsInv, RequestOK
<1> DEFINE row == Flush(job[j], request[r].obj, reset_for_manual_retry(request[r].obj))
<1>1. job[j] \in ProcessingJob
  BY DEF Inv, TablesInv, DbTypeOK
<1>2. job[j].status = "failed" /\ request[r].obj = Loaded(job[j])
  BY <1>0 DEF Sound, RequestSound
<1>3. row.status = "queued" /\ row.retry_count = 0
  BY <1>1, <1>2, FlushLoaded
<1>4. job' = [job EXCEPT ![j] = row]
  BY <1>0 DEF Commit
<1> HIDE DEF row
<1>5. job'[j] = row /\ OnlyRowOf(j)
  BY <1>1, <1>4 DEF Inv, TablesInv, DbTypeOK, OnlyRowOf
<1>6. HeldByNone(j)
  BY <1>2 DEF Sound, SlotSound, Holds, HeldByNone
<1>7. ResetOnlyBy(r, j)
  BY <1>0 DEF QuietApi, ResetOnlyBy
<1>8. RowSound(job'[j], result'[j])
  BY <1>1, <1>2, <1>3, <1>5 DEF Sound, RowSound
<1>9. RequestSound(y, job'[y.job])
  BY DEF RequestSound
<1>10. Sound'
  BY <1>5, <1>6, <1>7, <1>8, <1>9, RequestMoves
<1>11. LifecycleStep
  BY <1>2, <1>3, <1>4, LifecycleMove DEF Inv, TablesInv
<1> QED BY <1>10, <1>11 DEF Good

\* Every step of a request, and the loss of the API process.
LEMMA ApiGood ==
    ASSUME Inv, Inv', Sound, QuietApi, ApiNext, UNCHANGED <<worker, slot, due>>
    PROVE  Good
<1>1. IdleRequest.pc = "idle" /\ RequestSound(IdleRequest, job[IdleRequest.job])
  BY DEF IdleRequest, RequestSound
<1>2. ASSUME NEW r \in Requests, Respond(r), UNCHANGED dbVars
      PROVE  Good
  BY <1>1, <1>2, RequestGood DEF Respond, dbVars
<1>3. ASSUME NEW r \in Requests, NEW j \in Jobs, Upload(r, j)
      PROVE  Good
  <2> DEFINE y == [pc |-> "publish", job |-> j, obj |-> [NoRow EXCEPT !.status = "queued"]]
  <2>1. y.pc # "reset" /\ request' = [request EXCEPT ![r] = y]
    BY <1>3 DEF Upload
  <2> HIDE DEF y
  <2> QED BY <1>3, <2>1, CreateGood DEF Upload
<1>4. ASSUME NEW r \in Requests, NEW j \in Jobs, UploadRaises(r, j)
      PROVE  Good
  <2>1. request[r].pc # "reset" /\ request' = [request EXCEPT ![r] = request[r]]
    BY <1>4 DEF UploadRaises, Inv, RequestsInv, ApiTypeOK
  <2> QED BY <1>4, <2>1, CreateGood DEF UploadRaises
<1>5. ASSUME NEW r \in Requests, NEW j \in Jobs, LoadForRetry(r, j)
      PROVE  Good
  <2> DEFINE y == [pc |-> "reset", job |-> j, obj |-> get_job(j)]
  <2>1. get_job(j) = Loaded(job[j])
    BY GetJobLoads DEF Inv, TablesInv
  <2>2. job[j].status = "failed"
    BY <1>5, TransitionSources DEF LoadForRetry
  <2>3. RequestSound(y, job[y.job]) /\ request' = [request EXCEPT ![r] = y]
    BY <1>5, <2>1, <2>2 DEF LoadForRetry, RequestSound
  <2> HIDE DEF y
  <2> QED BY <1>5, <2>3, RequestGood DEF LoadForRetry, dbVars
<1>6. ASSUME NEW r \in Requests, Reset(r)
      PROVE  Good
  <2> DEFINE y == [request[r] EXCEPT !.pc = "publish", !.obj = reset_for_manual_retry(request[r].obj)]
  <2>1. y.pc # "reset"
    BY DEF Inv, RequestsInv, RequestOK, RequestState
  <2>2. request' = [request EXCEPT ![r] = y]
    BY <1>6 DEF Reset
  <2> HIDE DEF y
  <2> QED BY <1>6, <2>1, <2>2, ResetGood DEF Reset
<1>7. ASSUME NEW r \in Requests, ResetRaises(r)
      PROVE  Good
  <2>1. CASE UNCHANGED job
    BY <1>2, <1>7, <2>1 DEF ResetRaises, dbVars
  <2>2. CASE Commit(request[r].job, request[r].obj, reset_for_manual_retry(request[r].obj))
    BY <1>1, <1>7, <2>2, ResetGood DEF ResetRaises, Respond
  <2> QED BY <1>7, <2>1, <2>2 DEF ResetRaises
<1>8. ASSUME NEW r \in Requests, publish_job(r)
      PROVE  Good
  BY <1>2, <1>8 DEF publish_job
<1>9. ASSUME NEW r \in Requests, PublishRaises(r)
      PROVE  Good
  <2> DEFINE y == [request[r] EXCEPT !.pc = "fail"]
  <2>1. RequestSound(y, job[y.job])
    BY DEF Inv, RequestsInv, RequestOK, RequestState, RequestSound
  <2>2. request' = [request EXCEPT ![r] = y]
    BY <1>9 DEF PublishRaises, Goto
  <2> HIDE DEF y
  <2> QED BY <1>9, <2>1, <2>2, RequestGood DEF PublishRaises, dbVars
<1>10. ASSUME NEW r \in Requests, FailUnqueued(r) \/ FailUnqueuedRaises(r)
       PROVE  Good
  BY <1>10 DEF FailUnqueued, FailUnqueuedRaises, QuietApi
<1>11. ASSUME ApiCrash
       PROVE  Good
  <2>1. \A r \in Requests : RequestSound(request'[r], job'[request'[r].job])
    BY <1>1, <1>11 DEF ApiCrash, RequestSound
  <2>2. AtMostOneAttempt'
    BY DEF Sound, AtMostOneAttempt, Holds
  <2> QED BY <1>11, <2>1, <2>2, LifecycleStutters DEF ApiCrash, dbVars, Good, Sound
<1> QED
  BY <1>3, <1>4, <1>5, <1>6, <1>7, <1>8, <1>9, <1>10, <1>11
  DEF ApiNext, RequestStep, RequestProgress, RequestRaises

-----------------------------------------------------------------------------
(* The steps of a worker that write the tables.                            *)

\* A row in the table of rows.
LEMMA WriteRow ==
    ASSUME DbTypeOK, NEW j \in Jobs, NEW row, job' = [job EXCEPT ![j] = row],
           UNCHANGED result \/ result' = [result EXCEPT ![j] = TRUE]
    PROVE  job'[j] = row /\ OnlyRowOf(j)
BY DEF DbTypeOK, OnlyRowOf

\* claim_job takes a job nobody holds.  The slot goes on with it, or loses the
\* reply and lets go of its entry.
LEMMA ClaimGood ==
    ASSUME PromptClaims, Inv, Inv', Sound, UNCHANGED request, NEW j \in Jobs, claim_job(j),
           NEW s \in Slots, NEW x, slot' = [slot EXCEPT ![s] = x],
           x.pc # "claim",
           x.pc \in ClaimedPcs => x.pc = "load" /\ x.job = j /\ x.age = 0
    PROVE  Good
<1> DEFINE row == [status |-> "processing", retry_count |-> job[j].retry_count,
                   started_at |-> 0, error_message |-> job[j].error_message]
<1>1. row.status = "processing" /\ row.retry_count = job[j].retry_count /\ row.started_at = 0
  OBVIOUS
<1>2. job' = [job EXCEPT ![j] = row] /\ result' = result
  BY DEF claim_job
<1> HIDE DEF row
<1>3. job'[j] = row /\ OnlyRowOf(j)
  BY <1>2, WriteRow DEF Inv, TablesInv
<1>4. /\ HeldByNone(j) /\ ~ result[j]
      /\ job[j].status \in {"queued", "retrying", "processing"}
  BY ClaimableIsFree DEF claim_job
<1>5. HeldOnlyBy(s, j) /\ job[j].status # "failed"
  BY <1>4 DEF HeldByNone, HeldOnlyBy
<1>6. RowSound(job'[j], result'[j])
  BY <1>1, <1>2, <1>3, <1>4 DEF RowSound
<1>7. x.pc \in ClaimedPcs => x.job = j /\ SlotSound(x, job'[j])
  BY <1>1, <1>3 DEF SlotSound, LoadedPcs, FailurePcs
<1>8. Sound'
  BY <1>3, <1>5, <1>6, <1>7, SlotMoves
<1>9. LifecycleStep
  BY <1>1, <1>2, <1>4, LifecycleMove DEF Inv, TablesInv
<1> QED BY <1>8, <1>9 DEF Good

\* What a slot that holds its job knows.
LEMMA HolderFacts ==
    ASSUME Inv, Sound, NEW s \in Slots, slot[s].pc \in ClaimedPcs
    PROVE  /\ slot[s].job \in Jobs
           /\ HeldOnlyBy(s, slot[s].job)
           /\ SlotSound(slot[s], job[slot[s].job])
           /\ job[slot[s].job] \in ProcessingJob
           /\ job[slot[s].job].status \in {"processing", "completed"}
           /\ RowSound(job[slot[s].job], result[slot[s].job])
<1>1. slot[s].job \in Jobs /\ Holds(s, slot[s].job)
  BY DEF Inv, WorkersInv, SlotOK, Holds
<1>2. HeldOnlyBy(s, slot[s].job)
  BY <1>1 DEF Sound, AtMostOneAttempt, HeldOnlyBy
<1>3. SlotSound(slot[s], job[slot[s].job]) /\ RowSound(job[slot[s].job], result[slot[s].job])
  BY <1>1 DEF Sound
<1>4. job[slot[s].job] \in ProcessingJob
  BY <1>1 DEF Inv, TablesInv, DbTypeOK
<1> QED BY <1>1, <1>2, <1>3, <1>4 DEF SlotSound

\* _persist commits: from processing, and with the first result of the job.
LEMMA StoreGood ==
    ASSUME Inv, Inv', Sound, UNCHANGED request, NEW s \in Slots, At(s, "work"),
           StoreResult(slot[s].job, slot[s].obj),
           is_transition_allowed(slot[s].obj.status, "completed"),
           NEW x, slot' = [slot EXCEPT ![s] = x],
           x.pc # "claim",
           x.pc \in ClaimedPcs => x.pc = "refresh" /\ x.job = slot[s].job /\ x.error # "null"
    PROVE  Good
<1>0. slot[s].pc \in ClaimedPcs /\ slot[s].pc \in LoadedPcs
  BY DEF At, ClaimedPcs, LoadedPcs
<1>1. PICK j \in Jobs : j = slot[s].job
  BY <1>0, HolderFacts
<1> DEFINE row == Flush(job[j], slot[s].obj, mark_completed(slot[s].obj))
<1>2. /\ HeldOnlyBy(s, j) /\ job[j] \in ProcessingJob
      /\ slot[s].obj = Loaded(job[j]) /\ slot[s].obj.status = "processing"
  BY <1>0, <1>1, HolderFacts, TransitionSources DEF SlotSound
<1>3. /\ job[j].status = "processing"
      /\ row.status = "completed" /\ row.retry_count = job[j].retry_count
  BY <1>2, FlushLoaded
<1>4. ~ result[j] /\ result' = [result EXCEPT ![j] = TRUE] /\ job' = [job EXCEPT ![j] = row]
  BY <1>1 DEF StoreResult, Commit
<1> HIDE DEF row
<1>5. job'[j] = row /\ OnlyRowOf(j)
  BY <1>4, WriteRow DEF Inv, TablesInv
<1>6. RowSound(job'[j], result'[j])
  BY <1>3, <1>5 DEF RowSound
<1>7. x.pc \in ClaimedPcs => x.job = j /\ SlotSound(x, job'[j])
  BY <1>1, <1>3, <1>5 DEF SlotSound, LoadedPcs, FailurePcs
<1>8. Sound'
  BY <1>2, <1>3, <1>5, <1>6, <1>7, SlotMoves
<1>9. LifecycleStep
  BY <1>3, <1>4, LifecycleMove DEF Inv, TablesInv
<1> QED BY <1>8, <1>9 DEF Good

\* mark_retrying and mark_failed commit: from processing, and with a reason.
LEMMA MarkGood ==
    ASSUME Inv, Inv', Sound, UNCHANGED <<request, result>>, NEW s \in Slots,
           slot[s].pc \in MarkPcs,
           is_transition_allowed(slot[s].obj.status, Target(s)),
           Commit(slot[s].job, slot[s].obj, Marked(s)),
           NEW x, slot' = [slot EXCEPT ![s] = x],
           x.pc # "claim", x.pc \notin ClaimedPcs
    PROVE  Good
<1>0. slot[s].pc \in ClaimedPcs /\ slot[s].pc \in LoadedPcs
  BY DEF MarkPcs, ClaimedPcs, LoadedPcs
<1>1. PICK j \in Jobs : j = slot[s].job
  BY <1>0, HolderFacts
<1> DEFINE obj == slot[s].obj
           row == Flush(job[j], obj, Marked(s))
<1>2. /\ HeldOnlyBy(s, j) /\ job[j] \in ProcessingJob
      /\ obj = Loaded(job[j])
      /\ job[j].status \in {"processing", "completed"}
      /\ RowSound(job[j], result[j])
      /\ slot[s].pc \in FailurePcs => slot[s].error # "null"
  BY <1>0, <1>1, HolderFacts DEF SlotSound
<1>3. obj.status = job[j].status /\ obj.retry_count = job[j].retry_count
  BY <1>2, FlushLoaded
<1>4. Target(s) \in {"retrying", "failed"}
  BY DEF Target
<1>5. job[j].status = "processing" /\ ~ result[j]
  <2>1. job[j].status # "completed"
    BY <1>3, <1>4, TransitionSources
  <2> QED BY <1>2, <2>1 DEF RowSound
<1>6. /\ job[j].status = "processing"
      /\ \/ /\ row.status = "retrying" /\ row.retry_count = job[j].retry_count + 1
            /\ job[j].retry_count < MaxRetries
         \/ row.status = "failed" /\ row.retry_count = job[j].retry_count
      /\ row.error_message # "null"
  <2>1. CASE slot[s].pc = "mark_retrying"
    <3>1. Marked(s) = mark_retrying(obj, slot[s].error)
      BY <2>1 DEF Marked
    <3>2. slot[s].error # "null" /\ obj.retry_count < MaxRetries
      BY <1>2, <2>1, SlotFacts DEF FailurePcs, Inv
    <3> QED BY <1>2, <1>3, <1>5, <3>1, <3>2, FlushLoaded
  <2>2. CASE slot[s].pc = "fail"
    <3>1. Marked(s) = mark_failed(obj, slot[s].error)
      BY <2>2 DEF Marked
    <3>2. slot[s].error # "null"
      BY <1>2, <2>2 DEF FailurePcs
    <3> QED BY <1>2, <1>5, <3>1, <3>2, FlushLoaded
  <2>3. CASE slot[s].pc = "deadletter"
    <3>1. Marked(s) = mark_failed(obj, "redelivered")
      BY <2>3 DEF Marked
    <3> QED BY <1>2, <1>5, <3>1, FlushLoaded
  <2> QED BY <2>1, <2>2, <2>3 DEF MarkPcs
<1>7. job' = [job EXCEPT ![j] = row]
  BY <1>1 DEF Commit
<1> HIDE DEF row, obj
<1>8. job'[j] = row /\ OnlyRowOf(j)
  BY <1>7, WriteRow DEF Inv, TablesInv
<1>9. RowSound(job'[j], result'[j])
  BY <1>5, <1>6, <1>8 DEF RowSound
<1>10. Sound'
  BY <1>2, <1>5, <1>8, <1>9, SlotMoves
<1>11. LifecycleStep
  BY <1>6, <1>7, LifecycleMove DEF Inv, TablesInv
<1> QED BY <1>10, <1>11 DEF Good

-----------------------------------------------------------------------------
(* Every step of a worker.                                                 *)

\* A slot that goes on to another call of the job it holds.
LEMMA StepGood ==
    ASSUME Inv, Inv', Sound, UNCHANGED <<job, result, request>>,
           NEW s \in Slots, slot[s].pc \in ClaimedPcs,
           NEW x, slot' = [slot EXCEPT ![s] = x],
           x.job = slot[s].job, x.age = slot[s].age, x.pc \notin {"claim", "load"},
           job[slot[s].job].status = "completed" => x.pc \in FailurePcs,
           x.pc \in LoadedPcs => x.obj = Loaded(job[slot[s].job]),
           x.pc \in FailurePcs => x.error # "null"
    PROVE  Good
<1>1. SlotSound(slot[s], job[slot[s].job])
  BY DEF Sound
<1>2. SlotSound(x, job[slot[s].job])
  BY <1>1 DEF SlotSound
<1> QED BY <1>2, HolderGood

\* The steps of one task, and the calls of it that raise.
LEMMA SlotGood ==
    ASSUME PromptClaims, Inv, Inv', Sound, UNCHANGED request, NEW s \in Slots,
           SlotStep(s) \/ SlotRaises(s)
    PROVE  Good
<1>1. ASSUME NEW pc, Step(s, pc), UNCHANGED dbVars, pc \notin ClaimedPcs, pc # "claim"
      PROVE  Good
  <2> DEFINE x == [slot[s] EXCEPT !.pc = pc]
  <2>1. x.pc = pc
    BY SlotFacts DEF Inv, SlotState
  <2>2. slot' = [slot EXCEPT ![s] = x]
    BY <1>1 DEF Step
  <2> HIDE DEF x
  <2>3. Sound'
    BY <1>1, <2>1, <2>2, SlotLetsGo DEF dbVars
  <2> QED BY <1>1, <2>3, LifecycleStutters DEF Good, dbVars
<1>2. ASSUME Release(s), UNCHANGED dbVars
      PROVE  Good
  BY <1>2, ReleaseGood DEF dbVars
<1>3. s[1] \in Workers
  BY SlotFacts DEF Inv
<1>4. \A pc \in {"load", "work", "refresh", "schedule", "mark_retrying", "fail", "deadletter"} :
         At(s, pc) => slot[s].pc \in ClaimedPcs
  BY DEF At, ClaimedPcs
<1>5. CASE Read(s) \/ Sweep(s) \/ ClaimStale(s) \/ Drop(s) \/ Ack(s)
  <2>1. CASE Read(s)
    <3>1. PICK m \in Ids : Accept(s, m, 1)
      BY <2>1 DEF Read
    <3>2. UNCHANGED <<job, result, request>>
      BY <2>1 DEF Read, dbVars
    <3> QED BY <3>1, <3>2, AcceptGood
  <2>2. CASE Sweep(s)
    <3>1. PICK m \in Ids : slot' = [slot EXCEPT ![s] = Holding("xclaim", m, stream[m].times + 1, "none")]
      BY <2>2 DEF Sweep
    <3> DEFINE x == Holding("xclaim", m, stream[m].times + 1, "none")
    <3>2. x.pc = "xclaim"
      BY DEF Holding
    <3>3. UNCHANGED <<job, result, request>>
      BY <2>2 DEF Sweep, dbVars
    <3> HIDE DEF x
    <3>4. Sound'
      BY <3>1, <3>2, <3>3, SlotLetsGo DEF ClaimedPcs, x
    <3> QED BY <3>3, <3>4, LifecycleStutters DEF Good
  <2>3. CASE ClaimStale(s)
    <3>1. UNCHANGED <<job, result, request>>
      BY <2>3 DEF ClaimStale, dbVars
    <3>2. Accept(s, slot[s].msg, slot[s].count) \/ Release(s)
      BY <2>3 DEF ClaimStale
    <3> QED BY <3>1, <3>2, AcceptGood, ReleaseGood
  <2>4. CASE Drop(s) \/ Ack(s)
    BY <1>2, <2>4 DEF Drop, Ack
  <2> QED BY <1>5, <2>1, <2>2, <2>3, <2>4
<1>6. CASE Claim(s)
  <2> DEFINE x == [slot[s] EXCEPT !.pc = "load"]
  <2>1. x.pc = "load" /\ x.job = slot[s].job /\ x.age = slot[s].age
    BY SlotFacts DEF Inv, SlotState
  <2>2. slot[s].job \in Jobs /\ slot[s].age = 0
    <3>1. SlotSound(slot[s], job[slot[s].job])
      BY DEF Sound
    <3> QED BY <1>6, <3>1, SlotFacts DEF Claim, At, Inv, SlotSound
  <2>3. slot' = [slot EXCEPT ![s] = x] /\ claim_job(slot[s].job)
    BY <1>6 DEF Claim, Step
  <2> HIDE DEF x
  <2> QED BY <2>1, <2>2, <2>3, ClaimGood
<1>7. CASE Skip(s)
  BY <1>1, <1>7 DEF Skip, ClaimedPcs
<1>8. CASE Load(s)
  <2> DEFINE pc == IF slot[s].count > MaxDelivery THEN "deadletter" ELSE "work"
             obj == get_job(slot[s].job)
  <2>1. slot[s].pc \in ClaimedPcs
    BY <1>4, <1>8 DEF Load
  <2>2. obj = Loaded(job[slot[s].job])
    BY <2>1, HolderFacts, GetJobLoads DEF Inv, TablesInv
  <2>3. slot' = [slot EXCEPT ![s].obj = obj, ![s].pc = pc]
    BY <1>8 DEF Load
  <2>4. pc \in {"deadletter", "work"}
    OBVIOUS
  <2>5. job[slot[s].job].status # "completed"
    BY <1>8, <2>1, HolderFacts DEF Load, At, SlotSound, FailurePcs
  <2> HIDE DEF pc, obj
  <2> DEFINE x == [slot[s] EXCEPT !.obj = obj, !.pc = pc]
  <2>6. /\ x.pc = pc /\ x.obj = obj /\ x.error = slot[s].error
        /\ x.job = slot[s].job /\ x.age = slot[s].age
    BY SlotFacts DEF Inv, SlotState
  <2>7. slot' = [slot EXCEPT ![s] = x] /\ UNCHANGED <<job, result, request>>
    BY <1>8, <2>3 DEF Load, dbVars
  <2> HIDE DEF x
  <2>8. x.pc \notin {"claim", "load"} /\ x.pc \notin FailurePcs
    BY <2>4, <2>6 DEF FailurePcs
  <2> QED BY <2>1, <2>2, <2>5, <2>6, <2>7, <2>8, StepGood
<1>9. ASSUME NEW error \in Reasons, At(s, "work"), UNCHANGED dbVars,
             slot' = [slot EXCEPT ![s].pc = "refresh", ![s].error = error]
      PROVE  Good
  <2> DEFINE x == [slot[s] EXCEPT !.pc = "refresh", !.error = error]
  <2>1. slot[s].pc \in ClaimedPcs
    BY <1>4, <1>9
  <2>2. /\ x.pc = "refresh" /\ x.error = error
        /\ x.job = slot[s].job /\ x.age = slot[s].age
    BY SlotFacts DEF Inv, SlotState
  <2>3. slot' = [slot EXCEPT ![s] = x] /\ UNCHANGED <<job, result, request>>
    BY <1>9 DEF dbVars
  <2> HIDE DEF x
  <2>4. x.pc \notin {"claim", "load"} /\ x.pc \in FailurePcs /\ x.pc \notin LoadedPcs /\ x.error # "null"
    BY <2>2 DEF FailurePcs, LoadedPcs, Reasons
  <2> QED BY <2>1, <2>2, <2>3, <2>4, StepGood
<1>10. CASE WorkFails(s)
  <2>1. PICK e \in {"transient", "permanent"} : slot' = [slot EXCEPT ![s].pc = "refresh", ![s].error = e]
    BY <1>10 DEF WorkFails
  <2>2. e \in Reasons
    BY DEF Reasons
  <2> QED BY <1>9, <1>10, <2>1, <2>2 DEF WorkFails
<1>11. CASE Persist(s)
  <2> DEFINE x == [slot[s] EXCEPT !.pc = "ack"]
  <2>1. x.pc = "ack"
    BY SlotFacts DEF Inv, SlotState
  <2>2. slot' = [slot EXCEPT ![s] = x]
    BY <1>11 DEF Persist, Step
  <2> HIDE DEF x
  <2> QED BY <1>11, <2>1, <2>2, StoreGood DEF Persist, ClaimedPcs
<1>12. CASE PersistRefused(s)
  <2>1. CASE Step(s, "ack")
    BY <1>1, <1>12, <2>1 DEF PersistRefused, ClaimedPcs
  <2>2. CASE slot' = [slot EXCEPT ![s].pc = "refresh", ![s].error = "permanent"]
    BY <1>9, <1>12, <2>2 DEF PersistRefused, Reasons
  <2> QED BY <1>12, <2>1, <2>2 DEF PersistRefused
<1>13. CASE PersistRaises(s)
  <2>1. CASE UNCHANGED dbVars
    BY <1>9, <1>13, <2>1 DEF PersistRaises, Reasons
  <2>2. CASE StoreResult(slot[s].job, slot[s].obj)
    <3> DEFINE x == [slot[s] EXCEPT !.pc = "refresh", !.error = "transient"]
    <3>1. x.pc = "refresh" /\ x.error # "null" /\ x.job = slot[s].job
      BY SlotFacts DEF Inv, SlotState
    <3>2. slot' = [slot EXCEPT ![s] = x]
      BY <1>13 DEF PersistRaises
    <3> HIDE DEF x
    <3> QED BY <1>13, <2>2, <3>1, <3>2, StoreGood DEF PersistRaises
  <2> QED BY <1>13, <2>1, <2>2 DEF PersistRaises
<1>14. CASE Refresh(s)
  <2>1. slot[s].pc \in ClaimedPcs
    BY <1>4, <1>14 DEF Refresh
  <2> DEFINE obj == get_job(slot[s].job)
             pc == IF should_retry(slot[s].error, obj.retry_count, MaxRetries) THEN "schedule" ELSE "fail"
  <2>2. obj = Loaded(job[slot[s].job])
    BY <2>1, HolderFacts, GetJobLoads DEF Inv, TablesInv
  <2>3. slot' = [slot EXCEPT ![s].obj = obj, ![s].pc = pc]
    BY <1>14 DEF Refresh
  <2>4. pc \in {"schedule", "fail"}
    OBVIOUS
  <2>5. slot[s].error # "null"
    BY <1>14, <2>1, HolderFacts DEF Refresh, At, SlotSound, FailurePcs
  <2> HIDE DEF pc, obj
  <2> DEFINE x == [slot[s] EXCEPT !.obj = obj, !.pc = pc]
  <2>6. /\ x.pc = pc /\ x.obj = obj /\ x.error = slot[s].error
        /\ x.job = slot[s].job /\ x.age = slot[s].age
    BY SlotFacts DEF Inv, SlotState
  <2>7. slot' = [slot EXCEPT ![s] = x] /\ UNCHANGED <<job, result, request>>
    BY <1>14, <2>3 DEF Refresh, dbVars
  <2> HIDE DEF x
  <2>8. x.pc \notin {"claim", "load"} /\ x.pc \in FailurePcs
    BY <2>4, <2>6 DEF FailurePcs
  <2> QED BY <2>1, <2>2, <2>5, <2>6, <2>7, <2>8, StepGood
<1>15. CASE Schedule(s) \/ ScheduleRaises(s)
  <2>1. /\ slot[s].pc \in ClaimedPcs
        /\ slot[s].obj = Loaded(job[slot[s].job]) /\ slot[s].error # "null"
    BY <1>4, <1>15, HolderFacts DEF Schedule, ScheduleRaises, At, SlotSound, FailurePcs, LoadedPcs
  <2>2. UNCHANGED <<job, result, request>>
    BY <1>15 DEF Schedule, ScheduleRaises, dbVars
  <2>3. \E pc \in {"mark_retrying", "fail"} : \E error \in Reasons :
            slot' = [slot EXCEPT ![s] = [slot[s] EXCEPT !.pc = pc, !.error = error]]
    <3>1. CASE Schedule(s)
      <4>1. slot[s].error \in Reasons
        BY <2>1, SlotFacts DEF Inv
      <4>2. [slot[s] EXCEPT !.pc = "mark_retrying"]
              = [slot[s] EXCEPT !.pc = "mark_retrying", !.error = slot[s].error]
        BY SlotFacts DEF Inv, SlotState
      <4>3. slot' = [slot EXCEPT ![s] = [slot[s] EXCEPT !.pc = "mark_retrying"]]
        BY <3>1 DEF Schedule, Step
      <4> QED BY <4>1, <4>2, <4>3
    <3>2. CASE ScheduleRaises(s)
      BY <3>2 DEF ScheduleRaises, Reasons
    <3> QED BY <1>15, <3>1, <3>2
  <2>4. PICK pc \in {"mark_retrying", "fail"}, error \in Reasons :
            slot' = [slot EXCEPT ![s] = [slot[s] EXCEPT !.pc = pc, !.error = error]]
    BY <2>3
  <2> DEFINE x == [slot[s] EXCEPT !.pc = pc, !.error = error]
  <2>5. /\ x.pc = pc /\ x.error = error /\ x.obj = slot[s].obj
        /\ x.job = slot[s].job /\ x.age = slot[s].age
    BY SlotFacts DEF Inv, SlotState
  <2>6. slot' = [slot EXCEPT ![s] = x]
    BY <2>4
  <2> HIDE DEF x
  <2>7. x.pc \notin {"claim", "load"} /\ x.pc \in FailurePcs /\ x.error # "null"
    BY <2>5 DEF FailurePcs, Reasons
  <2> QED BY <2>1, <2>2, <2>5, <2>6, <2>7, StepGood
<1>16. CASE Mark(s)
  <2> DEFINE x == [slot[s] EXCEPT !.pc = "ack"]
  <2>1. x.pc = "ack"
    BY SlotFacts DEF Inv, SlotState
  <2>2. slot' = [slot EXCEPT ![s] = x]
    BY <1>16 DEF Mark, Step
  <2> HIDE DEF x
  <2> QED BY <1>16, <2>1, <2>2, MarkGood DEF Mark, ClaimedPcs
<1>17. CASE MarkRefused(s)
  BY <1>2, <1>17 DEF MarkRefused
<1>18. CASE PoisonCrash(s) \/ AckRaises(s)
  BY <1>3, <1>18, DieGood DEF PoisonCrash, AckRaises, dbVars
<1>19. CASE StopTask(s)
  BY <1>1, <1>19 DEF StopTask, ClaimedPcs
<1>20. CASE ReadRaises(s) \/ ClaimStaleRaises(s) \/ DropRaises(s)
  BY <1>2, <1>20 DEF ReadRaises, ClaimStaleRaises, DropRaises
<1>21. CASE CallRaises(s)
  <2> DEFINE x == Holding(IF worker[s[1]] = "stopping" THEN "stopped" ELSE "idle", 0, 0, "none")
  <2>1. x.pc \in {"stopped", "idle"}
    BY DEF Holding
  <2>2. slot' = [slot EXCEPT ![s] = x] /\ Release(s)
    BY <1>21 DEF CallRaises, Release
  <2> HIDE DEF x
  <2>3. x.pc # "claim" /\ x.pc \notin ClaimedPcs
    BY <2>1 DEF ClaimedPcs
  <2>4. CASE UNCHANGED dbVars
    BY <1>2, <2>2, <2>4
  <2>5. CASE At(s, "claim") /\ claim_job(slot[s].job)
    <3>1. slot[s].job \in Jobs
      BY <2>5, SlotFacts DEF At, Inv
    <3> QED BY <2>2, <2>3, <2>5, <3>1, ClaimGood
  <2>6. CASE /\ slot[s].pc \in MarkPcs
             /\ is_transition_allowed(slot[s].obj.status, Target(s))
             /\ Commit(slot[s].job, slot[s].obj, Marked(s))
             /\ UNCHANGED result
    BY <2>2, <2>3, <2>6, MarkGood
  <2> QED BY <1>21, <2>4, <2>5, <2>6 DEF CallRaises
<1> QED
  BY <1>5, <1>6, <1>7, <1>8, <1>10, <1>11, <1>12, <1>13, <1>14, <1>15, <1>16, <1>17, <1>18,
     <1>19, <1>20, <1>21
  DEF SlotStep, SlotRaises

\* A step that touches neither the tables, the requests nor the slots.
LEMMA ElsewhereGood ==
    ASSUME Sound, UNCHANGED <<job, result, request, slot>>
    PROVE  Good
<1>1. AtMostOneAttempt'
  BY DEF Sound, AtMostOneAttempt, Holds
<1> QED BY <1>1, LifecycleStutters DEF Good, Sound

\* The retry scheduler and the process itself.
LEMMA ProcessGood ==
    ASSUME Inv, Sound, UNCHANGED request, NEW w \in Workers,
           \/ SchedulerStep(w) \/ SchedulerRaises(w)
           \/ ProcessStep(w) \/ Crash(w) \/ Sigterm(w)
    PROVE  Good
<1>1. CASE SchedulerStep(w) \/ SchedulerRaises(w)
  BY <1>1, ElsewhereGood
  DEF SchedulerStep, SchedulerRaises, PopDue, PopDueRaises, Republish, RepublishRaises, dbVars
<1>2. CASE Exit(w) \/ Crash(w)
  BY <1>2, DieGood DEF Exit, Crash, dbVars
<1>3. CASE Restart(w) \/ Sigterm(w)
  BY <1>3, ElsewhereGood DEF Restart, Sigterm, dbVars
<1> QED BY <1>1, <1>2, <1>3 DEF ProcessStep

\* Time passes: with prompt calls only slots at work hold a job, and each of
\* them ages with the row it has claimed.
LEMMA TickGood ==
    ASSUME PromptClaims, Inv, Sound, Tick
    PROVE  Good
<1>1. ASSUME NEW j \in Jobs
      PROVE  /\ job'[j].status = job[j].status
             /\ job'[j].retry_count = job[j].retry_count
             /\ job'[j].error_message = job[j].error_message
             /\ job[j].status # "processing" => job'[j] = job[j]
             /\ job[j].status = "processing" /\ job[j].started_at \in 0 .. StaleAfter
                  => job'[j].started_at = job[j].started_at + 1 /\ Loaded(job'[j]) = Loaded(job[j])
  <2>1. job[j] \in ProcessingJob
    BY DEF Inv, TablesInv, DbTypeOK
  <2>2. CASE job[j].status = "processing" /\ job[j].started_at \in 0 .. StaleAfter
    <3>1. job'[j] = [job[j] EXCEPT !.started_at = @ + 1]
      BY <2>2 DEF Tick, DbTick
    <3>2. /\ job'[j].status = job[j].status /\ job'[j].retry_count = job[j].retry_count
          /\ job'[j].error_message = job[j].error_message
          /\ job'[j].started_at = job[j].started_at + 1
      BY <2>1, <3>1 DEF ProcessingJob
    <3>3. job[j].started_at # Null /\ job[j].started_at + 1 # Null
      BY <2>2 DEF Null
    <3>4. /\ Loaded(job[j]) = [job[j] EXCEPT !.started_at = 0]
          /\ Loaded(job'[j]) = [job'[j] EXCEPT !.started_at = 0]
      BY <3>2, <3>3 DEF Loaded
    <3>5. Loaded(job'[j]) = Loaded(job[j])
      BY <2>1, <3>1, <3>4 DEF ProcessingJob
    <3> QED BY <2>2, <3>2, <3>5
  <2>3. CASE ~(job[j].status = "processing" /\ job[j].started_at \in 0 .. StaleAfter)
    <3>1. job'[j] = job[j]
      BY <2>3 DEF Tick, DbTick
    <3> QED BY <2>3, <3>1
  <2> QED BY <2>2, <2>3
<1>2. result' = result /\ request' = request
  BY DEF Tick, DbTick
<1>3. ASSUME NEW t \in Slots
      PROVE  /\ slot'[t].pc = slot[t].pc /\ slot'[t].job = slot[t].job
             /\ SlotSound(slot'[t], job'[slot'[t].job])
  <2>1. slot[t] \in SlotState /\ SlotSound(slot[t], job[slot[t].job])
    BY SlotFacts DEF Inv, Sound
  <2>2. CASE At(t, "work")
    <3>1. slot'[t] = [slot[t] EXCEPT !.age = @ + 1] /\ slot[t].age < MaxWork
      BY <2>2 DEF Tick
    <3>2. slot'[t].pc = "work" /\ slot'[t].job = slot[t].job /\ slot'[t].obj = slot[t].obj
          /\ slot'[t].age = slot[t].age + 1 /\ slot[t].age \in 0 .. MaxWork
      BY <2>1, <2>2, <3>1 DEF SlotState, At
    <3>3. slot[t].job \in Jobs
      BY <2>2, SlotFacts DEF Inv, At, ClaimedPcs
    <3>4. /\ job[slot[t].job].status = "processing" /\ job[slot[t].job].started_at = slot[t].age
          /\ slot[t].obj = Loaded(job[slot[t].job])
      BY <2>1, <2>2 DEF SlotSound, At, ClaimedPcs, LoadedPcs, FailurePcs
    <3>5. slot[t].age \in 0 .. StaleAfter
      BY <3>2, <3>1 DEF PromptClaims
    <3>6. /\ job'[slot[t].job].status = "processing"
          /\ job'[slot[t].job].started_at = slot[t].age + 1
          /\ Loaded(job'[slot[t].job]) = Loaded(job[slot[t].job])
      BY <1>1, <3>3, <3>4, <3>5
    <3>7. SlotSound(slot'[t], job'[slot[t].job])
      BY <3>2, <3>4, <3>6 DEF SlotSound, FailurePcs
    <3> QED BY <2>2, <3>2, <3>7 DEF At
  <2>3. CASE ~At(t, "work")
    <3>1. slot'[t] = slot[t]
      BY <2>3 DEF Tick
    <3>2. slot[t].pc \in {"idle", "stopped"}
      BY <2>3 DEF Tick, PromptClaims, RestPcs, At
    <3> QED BY <3>1, <3>2 DEF SlotSound, ClaimedPcs, LoadedPcs, FailurePcs
  <2> QED BY <2>2, <2>3
<1>4. ASSUME NEW r \in Requests
      PROVE  RequestSound(request'[r], job'[request'[r].job])
  <2>1. CASE request[r].pc = "reset"
    <3>1. request[r].job \in Jobs /\ job[request[r].job].status = "failed"
      BY <2>1 DEF Inv, RequestsInv, RequestOK, Sound, RequestSound
    <3>2. job'[request[r].job] = job[request[r].job]
      BY <1>1, <3>1
    <3> QED BY <1>2, <3>2 DEF Sound
  <2>2. CASE request[r].pc # "reset"
    BY <1>2, <2>2 DEF RequestSound
  <2> QED BY <2>1, <2>2
<1>5. \A j \in Jobs : RowSound(job'[j], result'[j])
  BY <1>1, <1>2 DEF Sound, RowSound
<1>6. AtMostOneAttempt'
  BY <1>3 DEF Sound, AtMostOneAttempt, Holds
<1>7. LifecycleStep
  <2>1. [j \in Jobs |-> job'[j].status] = [j \in Jobs |-> job[j].status]
    BY <1>1
  <2>2. [j \in Jobs |-> job'[j].retry_count] = [j \in Jobs |-> job[j].retry_count]
    BY <1>1
  <2> QED BY <1>2, <2>1, <2>2 DEF LifecycleStep, Lifecycle!lifecycleVars
<1> QED BY <1>3, <1>4, <1>5, <1>6, <1>7 DEF Good, Sound

-----------------------------------------------------------------------------
(* The theorems.                                                           *)

\* The pipeline starts in the invariant, as JobLifecycle starts.
LEMMA InitSound == Init => Sound /\ Lifecycle!Init
<1> SUFFICES ASSUME Init PROVE Sound /\ Lifecycle!Init
  OBVIOUS
<1> USE DEF Init
<1>1. \A j \in Jobs : job[j] = NoRow /\ result[j] = FALSE
  BY DEF DbInit
<1>2. NoRow.status = "absent" /\ NoRow.retry_count = 0
  BY DEF NoRow
<1>3. \A s \in Slots : slot[s].pc = "idle"
  BY DEF WorkerInit, Free, Holding
<1>4. \A r \in Requests : request[r].pc = "idle"
  BY DEF ApiInit, IdleRequest
<1>5. \A s \in Slots : SlotSound(slot[s], job[slot[s].job])
  BY <1>3 DEF SlotSound, ClaimedPcs, LoadedPcs, FailurePcs
<1>6. \A r \in Requests : RequestSound(request[r], job[request[r].job])
  BY <1>4 DEF RequestSound
<1>7. \A j \in Jobs : RowSound(job[j], result[j])
  BY <1>1, <1>2 DEF RowSound
<1>8. AtMostOneAttempt
  BY <1>3 DEF AtMostOneAttempt, Holds, ClaimedPcs
<1>9. Lifecycle!Init
  BY <1>1, <1>2 DEF Lifecycle!Init, DbInit
<1> QED BY <1>5, <1>6, <1>7, <1>8, <1>9 DEF Sound

\* Every step of the pipeline.
LEMMA NextGood ==
    ASSUME PromptClaims
    PROVE  Inv /\ Sound /\ QuietApi /\ [Next]_vars => Sound' /\ LifecycleStep
<1> SUFFICES ASSUME Inv, Sound, QuietApi, [Next]_vars PROVE Good
  BY DEF Good
<1>0. Inv'
  BY NextInv
<1>1. CASE ApiNext /\ UNCHANGED <<worker, slot, due>>
  BY <1>0, <1>1, ApiGood
<1>2. CASE WorkerNext /\ UNCHANGED request
  BY <1>0, <1>2, SlotGood, ProcessGood DEF WorkerNext
<1>3. CASE ForeignEntry
  BY <1>3, ElsewhereGood DEF ForeignEntry, dbVars
<1>4. CASE Tick
  BY <1>4, TickGood
<1>5. CASE UNCHANGED vars
  BY <1>5, ElsewhereGood DEF vars, dbVars
<1> QED BY <1>1, <1>2, <1>3, <1>4, <1>5 DEF Next

\* The invariant holds throughout every behaviour in which no publish of the
\* API raises and no two manual retries of a job overlap.
THEOREM SoundThroughout ==
    ASSUME PromptClaims
    PROVE  Spec /\ []QuietApi => [](Inv /\ Sound)
BY InitInv, InitSound, NextInv, NextGood, PTL DEF Spec

\* The conditional UPDATE of claim_job excludes a second attempt at a job, for
\* any number of workers and whatever crashes, redelivers or loses a reply.
THEOREM OneAttemptAtATime ==
    ASSUME PromptClaims
    PROVE  Spec /\ []QuietApi => []AtMostOneAttempt
<1>1. Sound => AtMostOneAttempt
  BY DEF Sound
<1> QED BY <1>1, SoundThroughout, PTL

\* No task reads or extracts a document whose result is stored.
THEOREM ExtractedOnce ==
    ASSUME PromptClaims
    PROVE  Spec /\ []QuietApi => []NoSecondExtraction
<1>1. Inv /\ Sound => NoSecondExtraction
  <2> SUFFICES ASSUME Inv, Sound, NEW s \in Slots, At(s, "work") PROVE ~ result[slot[s].job]
    BY DEF NoSecondExtraction
  <2>1. slot[s].pc \in ClaimedPcs
    BY DEF At, ClaimedPcs
  <2>2. job[slot[s].job].status # "completed"
    BY <2>1, HolderFacts DEF At, SlotSound, FailurePcs
  <2> QED BY <2>1, <2>2, HolderFacts DEF RowSound
<1> QED BY <1>1, SoundThroughout, PTL

\* Whoever finds a job retrying or failed finds the reason with it.
THEOREM SetbacksAreExplained ==
    ASSUME PromptClaims
    PROVE  Spec /\ []QuietApi => []SetbackHasReason
<1>1. Sound => SetbackHasReason
  BY DEF Sound, RowSound, SetbackHasReason
<1> QED BY <1>1, SoundThroughout, PTL

\* The tables go through the life of a job that a client of the API is
\* promised: the pipeline implements JobLifecycle.
THEOREM PipelineIsLifecycle ==
    ASSUME PromptClaims
    PROVE  Spec /\ []QuietApi => ImplementsLifecycle
BY InitInv, InitSound, NextInv, NextGood, PTL
DEF Spec, ImplementsLifecycle, Lifecycle!Spec, LifecycleStep

\* No step of any actor moves a job out of completed.
THEOREM CompletedIsFinal ==
    ASSUME PromptClaims
    PROVE  Spec /\ []QuietApi => CompletedIsForever
<1>1. ASSUME LifecycleStep, NEW j \in Jobs, job[j].status = "completed"
      PROVE  job'[j].status = "completed"
  <2> DEFINE status == [k \in Jobs |-> job[k].status]
             next == [k \in Jobs |-> job'[k].status]
  <2>1. status[j] = "completed" /\ next[j] = job'[j].status
    BY <1>1
  <2>2. CASE next = status
    BY <2>1, <2>2
  <2>3. ASSUME NEW k \in Jobs, NEW from, NEW to, "completed" \notin from,
               status[k] \in from, next = [status EXCEPT ![k] = to]
        PROVE  next[j] = "completed"
    BY <2>1, <2>3
  <2>4. CASE Lifecycle!Next
    BY <2>1, <2>3, <2>4
    DEF Lifecycle!Next, Lifecycle!Move, Lifecycle!Submit, Lifecycle!Start, Lifecycle!Complete,
        Lifecycle!Retry, Lifecycle!Fail, Lifecycle!Requeue
  <2> QED BY <1>1, <2>1, <2>2, <2>4 DEF LifecycleStep, Lifecycle!lifecycleVars
<1>2. LifecycleStep => \A j \in Jobs : job[j].status = "completed" => job'[j].status = "completed"
  BY <1>1
<1> QED BY <1>2, InitInv, InitSound, NextInv, NextGood, PTL DEF Spec, CompletedIsForever

-----------------------------------------------------------------------------
(* Every retry of _run is counted in the row.                              *)

\* Another slot moves, or the processes do: s keeps its place or loses its job.
LEMMA MarkElsewhere ==
    ASSUME Inv, NEW s \in Slots, At(s, "mark_retrying"),
           \/ \E t \in Slots : t # s /\ (SlotStep(t) \/ SlotRaises(t))
           \/ \E w \in Workers : \/ SchedulerStep(w) \/ SchedulerRaises(w)
                                 \/ ProcessStep(w) \/ Crash(w) \/ Sigterm(w)
           \/ Tick \/ UNCHANGED slot
    PROVE  slot'[s].pc # "ack"
<1>0. slot \in [Slots -> SlotState] /\ slot[s].pc = "mark_retrying"
  BY DEF Inv, WorkersInv, WorkerTypeOK, At
<1>1. Free.pc = "idle"
  BY DEF Free, Holding
<1>2. ASSUME NEW w, Die(w) PROVE slot'[s].pc # "ack"
  BY <1>0, <1>1, <1>2 DEF Die
<1>3. ASSUME NEW t \in Slots, t # s, NEW x, slot' = [slot EXCEPT ![t] = x]
      PROVE  slot'[s].pc # "ack"
  BY <1>0, <1>3
<1>4. ASSUME NEW t \in Slots, t # s, SlotStep(t) \/ SlotRaises(t)
      PROVE  slot'[s].pc # "ack"
  <2>1. CASE PoisonCrash(t) \/ AckRaises(t)
    BY <1>2, <2>1 DEF PoisonCrash, AckRaises
  <2>2. CASE ~ (PoisonCrash(t) \/ AckRaises(t))
    <3>1. \E x : slot' = [slot EXCEPT ![t] = x]
      BY <1>4, <2>2
      DEF SlotStep, SlotRaises, Read, Sweep, ClaimStale, Drop, Claim, Skip, Load, WorkFails,
          Persist, PersistRefused, Refresh, Schedule, Mark, MarkRefused, Ack, StopTask, Accept,
          Release, Step, ReadRaises, ClaimStaleRaises, DropRaises, PersistRaises,
          ScheduleRaises, CallRaises
    <3> QED BY <1>3, <1>4, <3>1
  <2> QED BY <2>1, <2>2
<1>5. ASSUME NEW w \in Workers,
             SchedulerStep(w) \/ SchedulerRaises(w) \/ ProcessStep(w) \/ Crash(w) \/ Sigterm(w)
      PROVE  slot'[s].pc # "ack"
  <2>1. CASE Exit(w) \/ Crash(w)
    BY <1>2, <2>1 DEF Exit, Crash
  <2>2. CASE ~ (Exit(w) \/ Crash(w))
    <3>1. UNCHANGED slot
      BY <1>5, <2>2
      DEF SchedulerStep, SchedulerRaises, ProcessStep, PopDue, PopDueRaises, Republish,
          RepublishRaises, Restart, Sigterm
    <3> QED BY <1>0, <3>1
  <2> QED BY <2>1, <2>2
<1>6. CASE Tick
  BY <1>0, <1>6 DEF Tick, At
<1> QED BY <1>0, <1>4, <1>5, <1>6

\* The slot itself: mark_retrying commits, or the entry is left.
LEMMA MarkCommits ==
    ASSUME Inv, NEW s \in Slots, At(s, "mark_retrying"), slot'[s].pc = "ack",
           SlotStep(s) \/ SlotRaises(s)
    PROVE  Mark(s)
<1>1. ~ Release(s)
  <2> DEFINE x == Holding(IF worker[s[1]] = "stopping" THEN "stopped" ELSE "idle", 0, 0, "none")
  <2>1. x.pc # "ack"
    BY DEF Holding
  <2>2. Release(s) => slot'[s] = x
    BY DEF Release, Inv, WorkersInv, WorkerTypeOK
  <2> HIDE DEF x
  <2> QED BY <2>1, <2>2
<1> QED
  BY <1>1
  DEF SlotStep, SlotRaises, At, Read, Sweep, ClaimStale, Drop, Claim, Skip, Load, WorkFails,
      Persist, PersistRefused, Refresh, Schedule, MarkRefused, Ack, PoisonCrash, StopTask,
      ReadRaises, ClaimStaleRaises, DropRaises, PersistRaises, ScheduleRaises, CallRaises,
      AckRaises

\* What mark_retrying writes.
LEMMA MarkCounts ==
    ASSUME Inv, Sound, NEW s \in Slots, At(s, "mark_retrying"), Mark(s)
    PROVE  /\ job[slot[s].job].retry_count < MaxRetries
           /\ job'[slot[s].job].retry_count = job[slot[s].job].retry_count + 1
<1>1. slot[s].pc = "mark_retrying" /\ slot[s].pc \in ClaimedPcs /\ slot[s].pc \in LoadedPcs
  BY DEF At, ClaimedPcs, LoadedPcs
<1>2. PICK j \in Jobs : j = slot[s].job
  BY <1>1, HolderFacts
<1> DEFINE obj == slot[s].obj
           row == Flush(job[j], obj, Marked(s))
<1>3. job[j] \in ProcessingJob /\ obj = Loaded(job[j])
  BY <1>1, <1>2, HolderFacts DEF SlotSound
<1>4. Marked(s) = mark_retrying(obj, slot[s].error)
  BY <1>1 DEF Marked
<1>5. row.retry_count = job[j].retry_count + 1 /\ obj.retry_count = job[j].retry_count
  BY <1>3, <1>4, FlushLoaded
<1>6. obj.retry_count < MaxRetries
  BY <1>1, SlotFacts DEF Inv
<1>7. job' = [job EXCEPT ![j] = row] /\ UNCHANGED result
  BY <1>2 DEF Mark, Commit
<1> HIDE DEF row, obj
<1>8. job'[j] = row
  BY <1>7, WriteRow DEF Inv, TablesInv
<1> QED BY <1>2, <1>5, <1>6, <1>8

\* No increment of retry_count is lost when attempts exclude each other: the
\* object that mark_retrying flushes is the row, and _handle_failure compared
\* its count with the budget.
THEOREM EveryRetryCounted ==
    ASSUME PromptClaims
    PROVE  Spec /\ []QuietApi => RetriesAreCounted
<1>1. ASSUME Inv, Sound, [Next]_vars, NEW s \in Slots, At(s, "mark_retrying"), slot'[s].pc = "ack"
      PROVE  /\ job[slot[s].job].retry_count < MaxRetries
             /\ job'[slot[s].job].retry_count = job[slot[s].job].retry_count + 1
  <2>1. SlotStep(s) \/ SlotRaises(s)
    BY <1>1, MarkElsewhere DEF Next, WorkerNext, ForeignEntry, vars
  <2> QED BY <1>1, <2>1, MarkCommits, MarkCounts
<1> DEFINE Counted == \A s \in Slots : At(s, "mark_retrying") /\ slot'[s].pc = "ack" =>
                         LET j == slot[s].job
                         IN  /\ job[j].retry_count < MaxRetries
                             /\ job'[j].retry_count = job[j].retry_count + 1
<1>2. Inv /\ Sound /\ [Next]_vars => Counted
  BY <1>1
<1> QED BY <1>2, InitInv, InitSound, NextInv, NextGood, PTL DEF Spec, RetriesAreCounted

-----------------------------------------------------------------------------
(* Instances in which the API is quiet by themselves, such as that of the  *)
(* run Exclusive: no call of it raises, and it serves one request at a     *)
(* time or is asked for one manual retry at most.                          *)

CalmInstance == /\ "apiIo" \notin Faults
                /\ MaxManualRetries <= 1 \/ \A r, q \in Requests : r = q

Calm == /\ EnvTypeOK
        /\ \A r \in Requests : request[r].pc # "fail"
        /\ \/ \A r, q \in Requests : r = q
           \/ /\ manualLeft <= 1
              /\ \A r \in Requests : request[r].pc = "reset" => manualLeft = 0
              /\ \A r, q \in Requests : request[r].pc = "reset" /\ request[q].pc = "reset" => r = q

\* A request that does not come to reset a job, and no manual retry is used up.
LEMMA CalmRequest ==
    ASSUME Inv, Inv', Calm, NEW r \in Requests, NEW y, request' = [request EXCEPT ![r] = y],
           y.pc \notin {"reset", "fail"}, UNCHANGED manualLeft
    PROVE  Calm'
<1>1. \A q \in Requests : request'[q] = IF q = r THEN y ELSE request[q]
  BY DEF Inv, RequestsInv, ApiTypeOK
<1> QED BY <1>1 DEF Calm, Inv

\* A step that touches neither the requests nor the manual retries.
LEMMA CalmElsewhere ==
    ASSUME Inv, Inv', Calm, UNCHANGED <<request, manualLeft>>
    PROVE  Calm'
BY DEF Calm, Inv

\* Only the API is asked for manual retries.
LEMMA ManualLeftAlone ==
    ASSUME WorkerNext \/ ForeignEntry \/ Tick
    PROVE  UNCHANGED manualLeft
<1> USE DEF envVars, Fault
<1>1. ASSUME NEW s \in Slots, SlotStep(s) PROVE UNCHANGED manualLeft
  BY <1>1 DEF SlotStep, Read, Sweep, ClaimStale, Drop, Claim, Skip, Load, WorkFails, Persist,
     PersistRefused, Refresh, Schedule, Mark, MarkRefused, Ack, PoisonCrash, StopTask
<1>2. ASSUME NEW s \in Slots, SlotRaises(s) PROVE UNCHANGED manualLeft
  BY <1>2 DEF SlotRaises, ReadRaises, ClaimStaleRaises, DropRaises, PersistRaises,
     ScheduleRaises, CallRaises, AckRaises
<1>3. ASSUME NEW w \in Workers, SchedulerStep(w) \/ SchedulerRaises(w) PROVE UNCHANGED manualLeft
  BY <1>3 DEF SchedulerStep, SchedulerRaises, PopDue, PopDueRaises, Republish, RepublishRaises
<1>4. ASSUME NEW w \in Workers, ProcessStep(w) \/ Crash(w) \/ Sigterm(w) PROVE UNCHANGED manualLeft
  BY <1>4 DEF ProcessStep, Exit, Restart, Crash, Sigterm
<1> QED BY <1>1, <1>2, <1>3, <1>4 DEF WorkerNext, ForeignEntry, Tick

\* Every step of such an instance.
LEMMA NextCalm ==
    ASSUME CalmInstance
    PROVE  Inv /\ Calm /\ [Next]_vars => Calm'
<1> SUFFICES ASSUME Inv, Calm, [Next]_vars PROVE Calm'
  OBVIOUS
<1>0. Inv'
  BY NextInv
<1>1. IdleRequest.pc = "idle"
  BY DEF IdleRequest
<1>2. ASSUME NEW r \in Requests, NEW j \in Jobs, Upload(r, j) \/ UploadRaises(r, j)
      PROVE  Calm'
  <2>1. CASE Upload(r, j)
    <3> DEFINE y == [pc |-> "publish", job |-> j, obj |-> [NoRow EXCEPT !.status = "queued"]]
    <3>1. y.pc = "publish" /\ request' = [request EXCEPT ![r] = y] /\ UNCHANGED manualLeft
      BY <2>1 DEF Upload, envVars
    <3> HIDE DEF y
    <3> QED BY <1>0, <3>1, CalmRequest
  <2>2. CASE UploadRaises(r, j)
    BY <1>0, <2>2, CalmElsewhere DEF UploadRaises, Fault
  <2> QED BY <1>2, <2>1, <2>2
<1>3. ASSUME NEW r \in Requests, NEW j \in Jobs, LoadForRetry(r, j)
      PROVE  Calm'
  <2> DEFINE y == [pc |-> "reset", job |-> j, obj |-> get_job(j)]
  <2>1. y.pc = "reset" /\ request' = [request EXCEPT ![r] = y]
    BY <1>3 DEF LoadForRetry
  <2> HIDE DEF y
  <2>2. \A q \in Requests : request'[q] = IF q = r THEN y ELSE request[q]
    BY <2>1 DEF Inv, RequestsInv, ApiTypeOK
  <2>3. manualLeft > 0 /\ manualLeft' = manualLeft - 1
    BY <1>3 DEF LoadForRetry, OperatorRetries
  <2> QED BY <1>0, <2>1, <2>2, <2>3 DEF Calm, Inv, EnvTypeOK
<1>4. ASSUME NEW r \in Requests, RequestProgress(r) \/ ResetRaises(r)
      PROVE  Calm'
  <2>1. CASE Reset(r)
    <3> DEFINE y == [request[r] EXCEPT !.pc = "publish", !.obj = reset_for_manual_retry(request[r].obj)]
    <3>1. y.pc = "publish"
      BY DEF Inv, RequestsInv, RequestOK, RequestState
    <3>2. request' = [request EXCEPT ![r] = y] /\ UNCHANGED manualLeft
      BY <2>1 DEF Reset, envVars
    <3> HIDE DEF y
    <3> QED BY <1>0, <3>1, <3>2, CalmRequest
  <2>2. CASE publish_job(r) \/ FailUnqueued(r) \/ ResetRaises(r)
    <3>1. request' = [request EXCEPT ![r] = IdleRequest] /\ UNCHANGED manualLeft
      BY <2>2 DEF publish_job, FailUnqueued, ResetRaises, Respond, envVars, Fault
    <3> QED BY <1>0, <1>1, <3>1, CalmRequest
  <2> QED BY <1>4, <2>1, <2>2 DEF RequestProgress
<1>5. ASSUME NEW r \in Requests, PublishRaises(r) \/ FailUnqueuedRaises(r)
      PROVE  Calm'
  BY <1>5 DEF PublishRaises, FailUnqueuedRaises, Fault, CalmInstance
<1>6. CASE ApiCrash
  <2>1. UNCHANGED manualLeft /\ \A r \in Requests : request'[r].pc = "idle"
    BY <1>1, <1>6 DEF ApiCrash, Fault
  <2> QED BY <1>0, <2>1 DEF Calm, Inv
<1>7. CASE (WorkerNext /\ UNCHANGED request) \/ ForeignEntry \/ Tick \/ UNCHANGED vars
  <2>1. UNCHANGED <<request, manualLeft>>
    BY <1>7, ManualLeftAlone DEF ForeignEntry, Tick, vars, envVars
  <2> QED BY <1>0, <2>1, CalmElsewhere
<1> QED
  BY <1>2, <1>3, <1>4, <1>5, <1>6, <1>7
  DEF Next, ApiNext, RequestStep, RequestRaises

\* In such an instance the condition on the API holds of every behaviour, and
\* so do the theorems above.
THEOREM CalmIsQuiet ==
    ASSUME CalmInstance
    PROVE  Spec => []QuietApi
<1>1. Init => Calm
  <2> SUFFICES ASSUME Init PROVE Calm
    OBVIOUS
  <2>1. \A r \in Requests : request[r].pc = "idle"
    BY DEF Init, ApiInit, IdleRequest
  <2>2. EnvTypeOK /\ manualLeft = MaxManualRetries
    BY DEF Init, EnvInit, EnvTypeOK
  <2> QED BY <2>1, <2>2 DEF Calm, CalmInstance
<1>2. Calm => QuietApi
  BY DEF Calm, QuietApi
<1> QED BY <1>1, <1>2, InitInv, NextInv, NextCalm, PTL DEF Spec
=============================================================================
