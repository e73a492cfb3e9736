-------------------------------- MODULE Api --------------------------------
(***************************************************************************)
(* The two handlers of the FastAPI process that write: upload_document     *)
(* (app/api/routes/documents.py) and retry_job (app/api/routes/jobs.py).   *)
(* A request runs through                                                  *)
(*   upload:  create -> "publish" -> done                                  *)
(*   retry:   load -> "reset" -> "publish" -> done                         *)
(* and through "fail" when publishing raises.  It keeps the job object its *)
(* session loaded; other requests and the workers run between its steps.   *)
(* A request that is refused (404, 409) changes nothing.                   *)
(***************************************************************************)
EXTENDS JobService, RedisQueue

CONSTANT Requests       \* requests in flight at the same time

VARIABLE request

RequestState == [pc : {"idle", "reset", "publish", "fail"},
                 job : Jobs \cup {"none"}, obj : ProcessingJob]

IdleRequest == [pc |-> "idle", job |-> "none", obj |-> NoRow]

ApiInit == request = [r \in Requests |-> IdleRequest]

Goto(r, pc) == request' = [request EXCEPT ![r].pc = pc]
Respond(r)  == request' = [request EXCEPT ![r] = IdleRequest]

-----------------------------------------------------------------------------
\* The rows are committed before anything is published.
Upload(r, j) ==
    /\ request[r].pc = "idle"
    /\ create_document_and_job(j)
    /\ request' = [request EXCEPT ![r] =
                     [pc |-> "publish", job |-> j, obj |-> [NoRow EXCEPT !.status = "queued"]]]
    /\ UNCHANGED <<queueVars, envVars>>

\* The commit or the refresh after it raises once the rows are in: HTTP 500.
UploadRaises(r, j) ==
    /\ request[r].pc = "idle"
    /\ Fault("apiIo")
    /\ create_document_and_job(j)
    /\ UNCHANGED <<request, queueVars>>

\* retry_job up to the guard of reset_for_manual_retry.
LoadForRetry(r, j) ==
    /\ request[r].pc = "idle"
    /\ is_transition_allowed(job[j].status, "queued")
    /\ OperatorRetries
    /\ request' = [request EXCEPT ![r] = [pc |-> "reset", job |-> j, obj |-> get_job(j)]]
    /\ UNCHANGED <<dbVars, queueVars>>

\* The session keeps the object it has just committed.
Reset(r) ==
    LET q == request[r]
        new == reset_for_manual_retry(q.obj)
    IN  /\ q.pc = "reset"
        /\ Commit(q.job, q.obj, new)
        /\ request' = [request EXCEPT ![r].pc = "publish", ![r].obj = new]
        /\ UNCHANGED <<result, queueVars, envVars>>

ResetRaises(r) ==
    LET q == request[r]
    IN  /\ q.pc = "reset"
        /\ Fault("apiIo")
        /\ \/ Commit(q.job, q.obj, reset_for_manual_retry(q.obj))
           \/ UNCHANGED job
        /\ Respond(r)
        /\ UNCHANGED <<result, queueVars>>

publish_job(r) ==
    /\ request[r].pc = "publish"
    /\ publish(request[r].job)
    /\ Respond(r)
    /\ UNCHANGED <<dbVars, envVars>>

PublishRaises(r) ==
    /\ request[r].pc = "publish"
    /\ Fault("apiIo")
    /\ publish(request[r].job) \/ UNCHANGED queueVars
    /\ Goto(r, "fail")
    /\ UNCHANGED dbVars

\* mark_failed on the object loaded or committed before the publish.
FailUnqueued(r) ==
    LET q == request[r]
    IN  /\ q.pc = "fail"
        /\ is_transition_allowed(q.obj.status, "failed")
        /\ Commit(q.job, q.obj, mark_failed(q.obj, "unqueued"))
        /\ Respond(r)
        /\ UNCHANGED <<result, queueVars, envVars>>

FailUnqueuedRaises(r) ==
    LET q == request[r]
    IN  /\ q.pc = "fail"
        /\ Fault("apiIo")
        /\ \/ Commit(q.job, q.obj, mark_failed(q.obj, "unqueued"))
           \/ UNCHANGED job
        /\ Respond(r)
        /\ UNCHANGED <<result, queueVars>>

\* Every request in flight is lost with the process.
ApiCrash ==
    /\ \E r \in Requests : request[r].pc # "idle"
    /\ Fault("apiCrash")
    /\ request' = [r \in Requests |-> IdleRequest]
    /\ UNCHANGED <<dbVars, queueVars>>

\* What a request does once it is accepted.
RequestProgress(r) == Reset(r) \/ publish_job(r) \/ FailUnqueued(r)

RequestStep(r) == \/ \E j \in Jobs : Upload(r, j) \/ LoadForRetry(r, j)
                  \/ RequestProgress(r)

RequestRaises(r) == \/ \E j \in Jobs : UploadRaises(r, j)
                    \/ ResetRaises(r) \/ PublishRaises(r) \/ FailUnqueuedRaises(r)

ApiNext == ApiCrash \/ \E r \in Requests : RequestStep(r) \/ RequestRaises(r)

ApiTypeOK == request \in [Requests -> RequestState]
=============================================================================
