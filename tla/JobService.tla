----------------------------- MODULE JobService -----------------------------
(***************************************************************************)
(* The processing_jobs and extraction_results tables and the service layer *)
(* that is the only writer of them (app/services/job_service.py).          *)
(*                                                                         *)
(* Two ways to write exist.  claim_job is one conditional UPDATE, atomic   *)
(* in PostgreSQL.  The mark_* and reset_* functions change an object the   *)
(* caller loaded earlier and let SQLAlchemy flush it: the transition is    *)
(* checked against the object, and the UPDATE writes only the columns that *)
(* differ from what was loaded, whatever the row holds by then (there is   *)
(* no version column).                                                     *)
(*                                                                         *)
(* started_at is kept as the age of the timestamp in ticks, saturating     *)
(* just above StaleAfter.  Columns that steer nothing are left out.        *)
(***************************************************************************)
EXTENDS Integers, Environment

CONSTANTS
    MaxRetries,     \* max_retries, snapshotted into the row
    StaleAfter      \* stale_processing_seconds, in ticks

ASSUME JobServiceAssumption == /\ MaxRetries \in Nat
                               /\ StaleAfter \in Nat

VARIABLES
    job,            \* job[j]: the row of j in processing_jobs
    result          \* result[j]: a row for j exists in extraction_results

dbVars == <<job, result>>

JobStatus == {"queued", "processing", "retrying", "completed", "failed"}
CLAIMABLE_STATUSES == {"queued", "retrying"}

Null == -1

\* The texts error_message can hold, one per place that writes the column.
Reasons == {"transient", "permanent", "unscheduled", "unqueued", "redelivered"}

ProcessingJob == [status : JobStatus \cup {"absent"},
                  retry_count : Nat,
                  started_at : Null .. StaleAfter + 1,
                  error_message : Reasons \cup {"null"}]

NoRow == [status |-> "absent", retry_count |-> 0,
          started_at |-> Null, error_message |-> "null"]

DbInit == /\ job = [j \in Jobs |-> NoRow]
          /\ result = [j \in Jobs |-> FALSE]

-----------------------------------------------------------------------------
\* Faulty: a finished job may be queued again.
CompletedMayBeRequeued ==
    [s \in JobStatus |->
        CASE s = "queued"     -> {"processing", "failed"}
          [] s = "processing" -> {"completed", "retrying", "failed"}
          [] s = "retrying"   -> {"processing", "failed"}
          [] s = "completed"  -> {"queued"}
          [] s = "failed"     -> {"queued"}]

ALLOWED_TRANSITIONS ==
    [s \in JobStatus |->
        CASE s = "queued"     -> {"processing", "failed"}
          [] s = "processing" -> {"completed", "retrying", "failed"}
          [] s = "retrying"   -> {"processing", "failed"}
          [] s = "completed"  -> {}
          [] s = "failed"     -> {"queued"}]

is_transition_allowed(current, target) ==
    current \in JobStatus /\ target \in ALLOWED_TRANSITIONS[current]

\* What a session holds after loading a row.  Only whether started_at is NULL
\* matters to the object: no caller computes with its value.
get_job(j) == [job[j] EXCEPT !.started_at = IF @ = Null THEN Null ELSE 0]

\* session.commit() of an object loaded as old and changed to new.
Flush(row, old, new) ==
    [status        |-> IF new.status = old.status
                       THEN row.status ELSE new.status,
     retry_count   |-> IF new.retry_count = old.retry_count
                       THEN row.retry_count ELSE new.retry_count,
     started_at    |-> IF new.started_at = old.started_at
                       THEN row.started_at ELSE new.started_at,
     error_message |-> IF new.error_message = old.error_message
                       THEN row.error_message ELSE new.error_message]

Commit(j, old, new) == job' = [job EXCEPT ![j] = Flush(@, old, new)]

-----------------------------------------------------------------------------
create_document_and_job(j) ==
    /\ job[j].status = "absent"
    /\ job' = [job EXCEPT ![j] = [NoRow EXCEPT !.status = "queued"]]
    /\ UNCHANGED result

\* Faulty: the age of the previous claim is not looked at.
ClaimableWhenBusy(row) == row.status \in CLAIMABLE_STATUSES \cup {"processing"}

\* Faulty: the status is not looked at.
ClaimableAlways(row) == row.status \in JobStatus

\* Faulty: an abandoned processing row is never available again.
ClaimableOnlyWaiting(row) == row.status \in CLAIMABLE_STATUSES

\* Faulty: a retrying row is not available.
ClaimableOnlyQueued(row) == \/ row.status = "queued"
                            \/ row.status = "processing" /\ row.started_at > StaleAfter

IsClaimable(row) == \/ row.status \in CLAIMABLE_STATUSES
                    \/ /\ row.status = "processing"
                       /\ row.started_at # Null
                       /\ row.started_at > StaleAfter

\* Faulty: the claim does not record when it happened.
ClaimWithoutStart(j) ==
    /\ IsClaimable(job[j])
    /\ job' = [job EXCEPT ![j].status = "processing"]
    /\ UNCHANGED result

claim_job(j) ==
    /\ IsClaimable(job[j])
    /\ job' = [job EXCEPT ![j] = [status |-> "processing", retry_count |-> @.retry_count,
                                  started_at |-> 0, error_message |-> @.error_message]]
    /\ UNCHANGED result

mark_completed(obj) == [obj EXCEPT !.status = "completed", !.error_message = "null"]

\* Faulty: the reason is not recorded.
RetryingWithoutReason(obj, reason) == [obj EXCEPT !.status = "retrying",
                                                  !.retry_count = @ + 1]

mark_retrying(obj, reason) == [status |-> "retrying", retry_count |-> obj.retry_count + 1,
                               started_at |-> obj.started_at, error_message |-> reason]

mark_failed(obj, reason) == [obj EXCEPT !.status = "failed",
                                        !.error_message = reason]

\* Faulty: the retry budget is not restored.
ResetKeepsCount(obj) == [obj EXCEPT !.status = "queued",
                                    !.error_message = "null",
                                    !.started_at = Null]

reset_for_manual_retry(obj) == [status |-> "queued", retry_count |-> 0,
                                started_at |-> Null, error_message |-> "null"]

\* Faulty: the terminal status is committed in a transaction of its own.
StatusWithoutResult(j, obj) == Commit(j, obj, mark_completed(obj)) /\ UNCHANGED result

\* The transaction of _persist: the result row and the terminal status.  The
\* unique constraint on extraction_results.job_id is the guard.
StoreResult(j, obj) ==
    /\ ~result[j]
    /\ result' = [result EXCEPT ![j] = TRUE]
    /\ Commit(j, obj, mark_completed(obj))

\* The age of started_at is read only while the row is processing.
DbTick ==
    /\ job' = [j \in Jobs |->
                  IF job[j].status = "processing" /\ job[j].started_at \in 0 .. StaleAfter
                  THEN [job[j] EXCEPT !.started_at = @ + 1]
                  ELSE job[j]]
    /\ UNCHANGED result

DbTypeOK == /\ job \in [Jobs -> ProcessingJob]
            /\ result \in [Jobs -> BOOLEAN]
=============================================================================
