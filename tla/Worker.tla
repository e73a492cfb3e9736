------------------------------- MODULE Worker -------------------------------
(***************************************************************************)
(* The worker processes (app/worker).  Each runs three concurrent tasks:   *)
(*   - the stream consumer and the pending-entry recovery loop, which both *)
(*     end up in StreamConsumer.handle and DocumentProcessor.process; a    *)
(*     slot is one of these two tasks of one worker;                       *)
(*   - the retry scheduler, which moves due retries back to the stream.    *)
(*                                                                         *)
(* A slot's pc names the database or Redis call it makes next:             *)
(*   "idle"       between events        "xclaim"   XPENDING answered       *)
(*   "drop"       ack of an undecodable entry                              *)
(*   "claim"      claim_job             "load"     get_job after the claim *)
(*   "deadletter" mark_failed of a message delivered too often             *)
(*   "work"       _run: read, extract, _persist                            *)
(*   "refresh" "schedule" "mark_retrying" "fail"   _handle_failure         *)
(*   "ack"        the final XACK        "stopped"  the task has returned   *)
(* An exception that leaves process() frees the slot and leaves the entry  *)
(* pending.                                                                *)
(***************************************************************************)
EXTENDS JobService, RedisQueue

CONSTANTS
    Workers,
    MaxDelivery,    \* max_delivery_count
    MaxWork,        \* the ticks the slowest _run takes (no setting bounds it: Attempt)
    Poison          \* jobs whose extraction kills the process

ASSUME WorkerAssumption == /\ MaxDelivery \in Nat
                           /\ MaxWork \in Nat
                           /\ Poison \subseteq Jobs

VARIABLES
    worker,         \* worker[w]: "up", "stopping" after SIGTERM, or "down"
    slot,           \* slot[s]: what task s is doing
    due             \* due[w]: retries w has popped and not yet published

Tasks == {"consumer", "recovery"}
Slots == Workers \X Tasks

ClaimedPcs == {"load", "deadletter", "work", "refresh", "schedule", "mark_retrying", "fail"}
Pcs == ClaimedPcs \cup {"idle", "xclaim", "drop", "claim", "ack", "stopped"}

SlotState == [pc : Pcs, msg : Nat, count : Nat, job : Jobs \cup {"none"},
              obj : ProcessingJob, error : Reasons \cup {"null"}, age : 0 .. MaxWork]

\* A slot at pc with the entry m, delivered count times, for job j.
Holding(pc, m, count, j) == [pc |-> pc, msg |-> m, count |-> count, job |-> j,
                             obj |-> NoRow, error |-> "null", age |-> 0]

Free == Holding("idle", 0, 0, "none")

NoneDue == [j \in Jobs |-> 0]

WorkerInit == /\ worker = [w \in Workers |-> "up"]
              /\ slot = [s \in Slots |-> Free]
              /\ due = [w \in Workers |-> NoneDue]

At(s, pc) == slot[s].pc = pc
Step(s, pc) == slot' = [slot EXCEPT ![s].pc = pc]

\* The loops look at the shutdown event between events.
Release(s) ==
    slot' = [slot EXCEPT ![s] =
               Holding(IF worker[s[1]] = "stopping" THEN "stopped" ELSE "idle", 0, 0, "none")]

-----------------------------------------------------------------------------
(* Taking an entry: RedisQueue.read, claim_stale and _decode_messages.     *)

\* Faulty: an entry that does not decode is handed on.
AcceptUndecoded(s, m, count) ==
    slot' = [slot EXCEPT ![s] = Holding("claim", m, count, stream[m].payload)]

Accept(s, m, count) ==
    slot' = [slot EXCEPT ![s] =
               IF stream[m].payload = Malformed
               THEN Holding("drop", m, count, "none")
               ELSE Holding("claim", m, count, stream[m].payload)]

\* A read that was blocked when SIGTERM arrived may still return an entry.
Read(s) ==
    /\ s[2] = "consumer" /\ At(s, "idle")
    /\ worker[s[1]] # "down"
    /\ \E m \in Ids : IsNext(m) /\ Deliver(m) /\ Accept(s, m, 1)
    /\ UNCHANGED <<dbVars, envVars, worker, due>>

\* XREADGROUP took effect and its reply was lost.
ReadRaises(s) ==
    /\ s[2] = "consumer" /\ At(s, "idle")
    /\ worker[s[1]] # "down"
    /\ Fault("io")
    /\ \E m \in Ids : IsNext(m) /\ Deliver(m)
    /\ Release(s)
    /\ UNCHANGED <<dbVars, worker, due>>

\* XPENDING reports the deliveries so far; the XCLAIM to come adds one.
Sweep(s) ==
    /\ s[2] = "recovery" /\ At(s, "idle")
    /\ worker[s[1]] = "up"
    /\ \E m \in Ids :
         /\ IsOldestIdle(m)
         /\ slot' = [slot EXCEPT ![s] = Holding("xclaim", m, stream[m].times + 1, "none")]
    /\ UNCHANGED <<dbVars, queueVars, envVars, worker, due>>

ClaimStale(s) ==
    /\ At(s, "xclaim")
    /\ XClaim(slot[s].msg)
    /\ IF IsIdle(slot[s].msg) THEN Accept(s, slot[s].msg, slot[s].count) ELSE Release(s)
    /\ UNCHANGED <<dbVars, envVars, worker, due>>

ClaimStaleRaises(s) ==
    /\ At(s, "xclaim")
    /\ Fault("io")
    /\ XClaim(slot[s].msg) \/ UNCHANGED queueVars
    /\ Release(s)
    /\ UNCHANGED <<dbVars, worker, due>>

Drop(s) ==
    /\ At(s, "drop")
    /\ ack(slot[s].msg)
    /\ Release(s)
    /\ UNCHANGED <<dbVars, envVars, worker, due>>

\* The QueueError is caught by the loop around the read.
DropRaises(s) ==
    /\ At(s, "drop")
    /\ Fault("io")
    /\ ack(slot[s].msg) \/ UNCHANGED queueVars
    /\ Release(s)
    /\ UNCHANGED <<dbVars, worker, due>>

-----------------------------------------------------------------------------
(* DocumentProcessor.process.                                              *)

Claim(s) ==
    /\ At(s, "claim")
    /\ claim_job(slot[s].job)
    /\ Step(s, "load")
    /\ UNCHANGED <<queueVars, envVars, worker, due>>

\* Not claimable: the outcome is SKIPPED, and SKIPPED is acknowledged.
Skip(s) ==
    /\ At(s, "claim")
    /\ ~IsClaimable(job[slot[s].job])
    /\ Step(s, "ack")
    /\ UNCHANGED <<dbVars, queueVars, envVars, worker, due>>

\* Faulty: an event delivered too often is acknowledged and its job left alone.
LoadDropsSpent(s) ==
    /\ At(s, "load")
    /\ slot' = [slot EXCEPT ![s].obj = get_job(slot[s].job),
                            ![s].pc = IF slot[s].count > MaxDelivery
                                      THEN "ack" ELSE "work"]
    /\ UNCHANGED <<dbVars, queueVars, envVars, worker, due>>

Load(s) ==
    /\ At(s, "load")
    /\ slot' = [slot EXCEPT ![s].obj = get_job(slot[s].job),
                            ![s].pc = IF slot[s].count > MaxDelivery
                                      THEN "deadletter" ELSE "work"]
    /\ UNCHANGED <<dbVars, queueVars, envVars, worker, due>>

\* A provider, storage or extraction failure, as retry_policy classifies it.
WorkFails(s) ==
    /\ At(s, "work")
    /\ \E e \in {"transient", "permanent"} :
         slot' = [slot EXCEPT ![s].pc = "refresh", ![s].error = e]
    /\ UNCHANGED <<dbVars, queueVars, envVars, worker, due>>

Persist(s) ==
    /\ At(s, "work")
    /\ slot[s].job \notin Poison
    /\ is_transition_allowed(slot[s].obj.status, "completed")
    /\ StoreResult(slot[s].job, slot[s].obj)
    /\ Step(s, "ack")
    /\ UNCHANGED <<queueVars, envVars, worker, due>>

\* mark_completed refuses, or the unique constraint fires.  The IntegrityError
\* handler returns as if done, unless its own read of job.id (an attribute the
\* rollback expired) raises.
PersistRefused(s) ==
    /\ At(s, "work")
    /\ slot[s].job \notin Poison
    /\ \/ /\ result[slot[s].job]
          /\ is_transition_allowed(slot[s].obj.status, "completed")
          /\ Step(s, "ack")
       \/ /\ result[slot[s].job] \/ ~is_transition_allowed(slot[s].obj.status, "completed")
          /\ slot' = [slot EXCEPT ![s].pc = "refresh", ![s].error = "permanent"]
    /\ UNCHANGED <<dbVars, queueVars, envVars, worker, due>>

\* The commit raises a driver error, which is retryable.
PersistRaises(s) ==
    /\ At(s, "work")
    /\ slot[s].job \notin Poison
    /\ is_transition_allowed(slot[s].obj.status, "completed")
    /\ Fault("io")
    /\ StoreResult(slot[s].job, slot[s].obj) \/ UNCHANGED dbVars
    /\ slot' = [slot EXCEPT ![s].pc = "refresh", ![s].error = "transient"]
    /\ UNCHANGED <<queueVars, worker, due>>

\* _handle_failure: rollback, refresh, decide.
Refresh(s) ==
    /\ At(s, "refresh")
    /\ LET obj == get_job(slot[s].job)
           again == should_retry(slot[s].error, obj.retry_count, MaxRetries)
       IN  slot' = [slot EXCEPT ![s].obj = obj,
                                ![s].pc = IF again THEN "schedule" ELSE "fail"]
    /\ UNCHANGED <<dbVars, queueVars, envVars, worker, due>>

\* The retry is scheduled before the row says so.
Schedule(s) ==
    /\ At(s, "schedule")
    /\ \E d \in compute_delay(slot[s].obj.retry_count) : schedule_retry(slot[s].job, d)
    /\ Step(s, "mark_retrying")
    /\ UNCHANGED <<dbVars, envVars, worker, due>>

ScheduleRaises(s) ==
    /\ At(s, "schedule")
    /\ Fault("io")
    /\ \/ \E d \in compute_delay(slot[s].obj.retry_count) : schedule_retry(slot[s].job, d)
       \/ UNCHANGED queueVars
    /\ slot' = [slot EXCEPT ![s].pc = "fail", ![s].error = "unscheduled"]
    /\ UNCHANGED <<dbVars, worker, due>>

\* The object the mark_* call at pc would flush, and the status it moves to.
Target(s) == IF At(s, "mark_retrying") THEN "retrying" ELSE "failed"

Marked(s) ==
    LET x == slot[s]
    IN  CASE x.pc = "mark_retrying" -> mark_retrying(x.obj, x.error)
          [] x.pc = "fail"          -> mark_failed(x.obj, x.error)
          [] x.pc = "deadletter"    -> mark_failed(x.obj, "redelivered")

MarkPcs == {"mark_retrying", "fail", "deadletter"}

Mark(s) ==
    /\ slot[s].pc \in MarkPcs
    /\ is_transition_allowed(slot[s].obj.status, Target(s))
    /\ Commit(slot[s].job, slot[s].obj, Marked(s))
    /\ Step(s, "ack")
    /\ UNCHANGED <<result, queueVars, envVars, worker, due>>

\* InvalidJobTransitionError leaves process(): the entry stays pending.
MarkRefused(s) ==
    /\ slot[s].pc \in MarkPcs
    /\ ~is_transition_allowed(slot[s].obj.status, Target(s))
    /\ Release(s)
    /\ UNCHANGED <<dbVars, queueVars, envVars, worker, due>>

\* Faulty: the entry is acknowledged whatever process() did.
CallRaisesAndAcks(s) ==
    /\ slot[s].pc \in MarkPcs \cup {"claim", "load", "refresh"}
    /\ Fault("io")
    /\ ack(slot[s].msg)
    /\ Release(s)
    /\ UNCHANGED <<dbVars, worker, due>>

\* A database call outside the guarded part of process() raises, with or
\* without its effect: the entry stays pending.
CallRaises(s) ==
    /\ slot[s].pc \in MarkPcs \cup {"claim", "load", "refresh"}
    /\ Fault("io")
    /\ \/ UNCHANGED dbVars
       \/ At(s, "claim") /\ claim_job(slot[s].job)
       \/ /\ slot[s].pc \in MarkPcs
          /\ is_transition_allowed(slot[s].obj.status, Target(s))
          /\ Commit(slot[s].job, slot[s].obj, Marked(s))
          /\ UNCHANGED result
    /\ Release(s)
    /\ UNCHANGED <<queueVars, worker, due>>

Ack(s) ==
    /\ At(s, "ack")
    /\ ack(slot[s].msg)
    /\ Release(s)
    /\ UNCHANGED <<dbVars, envVars, worker, due>>

-----------------------------------------------------------------------------
(* The retry scheduler.                                                    *)

PopDue(w) ==
    /\ worker[w] = "up"
    /\ due[w] = NoneDue
    /\ pop_due_retries
    /\ due' = [due EXCEPT ![w] = DueRetries]
    /\ UNCHANGED <<worker, slot, dbVars, envVars>>

\* The script ran and its reply was lost.
PopDueRaises(w) ==
    /\ worker[w] = "up"
    /\ due[w] = NoneDue
    /\ Fault("io")
    /\ pop_due_retries
    /\ UNCHANGED <<worker, slot, due, dbVars>>

Republish(w, j) ==
    /\ due[w][j] > 0
    /\ publish(j)
    /\ due' = [due EXCEPT ![w][j] = @ - 1]
    /\ UNCHANGED <<worker, slot, dbVars, envVars>>

\* The event at hand and those still to be published are dropped.
RepublishRaises(w, j) ==
    /\ due[w][j] > 0
    /\ Fault("io")
    /\ publish(j) \/ UNCHANGED queueVars
    /\ due' = [due EXCEPT ![w] = NoneDue]
    /\ UNCHANGED <<worker, slot, dbVars>>

-----------------------------------------------------------------------------
(* The process: run_worker and the signals.                                *)

Die(w) ==
    /\ worker' = [worker EXCEPT ![w] = "down"]
    /\ slot' = [s \in Slots |-> IF s[1] = w THEN Free ELSE slot[s]]
    /\ due' = [due EXCEPT ![w] = NoneDue]

Crash(w) ==
    /\ worker[w] # "down"
    /\ Fault("crash")
    /\ Die(w)
    /\ UNCHANGED <<dbVars, queueVars>>

PoisonCrash(s) ==
    /\ At(s, "work")
    /\ slot[s].job \in Poison
    /\ Die(s[1])
    /\ UNCHANGED <<dbVars, queueVars, envVars>>

\* A QueueError from the final ack leaves handle() and its loop: the TaskGroup
\* cancels the other tasks and the process exits.
AckRaises(s) ==
    /\ At(s, "ack")
    /\ Fault("io")
    /\ ack(slot[s].msg) \/ UNCHANGED queueVars
    /\ Die(s[1])
    /\ UNCHANGED dbVars

Sigterm(w) ==
    /\ worker[w] = "up"
    /\ Fault("sigterm")
    /\ worker' = [worker EXCEPT ![w] = "stopping"]
    /\ UNCHANGED <<slot, due, dbVars, queueVars>>

\* Faulty: the recovery loop does not look at the shutdown event.
OnlyConsumerStops(s) ==
    /\ worker[s[1]] = "stopping"
    /\ s[2] = "consumer" /\ At(s, "idle")
    /\ Step(s, "stopped")
    /\ UNCHANGED <<dbVars, queueVars, envVars, worker, due>>

StopTask(s) ==
    /\ worker[s[1]] = "stopping"
    /\ At(s, "idle")
    /\ Step(s, "stopped")
    /\ UNCHANGED <<dbVars, queueVars, envVars, worker, due>>

\* Faulty: shutdown cancels an event that is being handled.
ExitMidEvent(w) ==
    /\ worker[w] = "stopping"
    /\ Die(w)
    /\ UNCHANGED <<dbVars, queueVars, envVars>>

Exit(w) ==
    /\ worker[w] = "stopping"
    /\ \A t \in Tasks : At(<<w, t>>, "stopped")
    /\ due[w] = NoneDue
    /\ Die(w)
    /\ UNCHANGED <<dbVars, queueVars, envVars>>

Restart(w) ==
    /\ worker[w] = "down"
    /\ worker' = [worker EXCEPT ![w] = "up"]
    /\ UNCHANGED <<slot, due, dbVars, queueVars, envVars>>

-----------------------------------------------------------------------------
SlotStep(s) == \/ Read(s) \/ Sweep(s) \/ ClaimStale(s) \/ Drop(s)
               \/ Claim(s) \/ Skip(s) \/ Load(s)
               \/ WorkFails(s) \/ Persist(s) \/ PersistRefused(s)
               \/ Refresh(s) \/ Schedule(s) \/ Mark(s) \/ MarkRefused(s)
               \/ Ack(s) \/ PoisonCrash(s) \/ StopTask(s)

SlotRaises(s) == \/ ReadRaises(s) \/ ClaimStaleRaises(s) \/ DropRaises(s)
                 \/ PersistRaises(s) \/ ScheduleRaises(s)
                 \/ CallRaises(s) \/ AckRaises(s)

SchedulerStep(w) == PopDue(w) \/ \E j \in Jobs : Republish(w, j)

SchedulerRaises(w) == PopDueRaises(w) \/ \E j \in Jobs : RepublishRaises(w, j)

ProcessStep(w) == Exit(w) \/ Restart(w)

WorkerNext == \/ \E s \in Slots : SlotStep(s) \/ SlotRaises(s)
              \/ \E w \in Workers : \/ SchedulerStep(w) \/ SchedulerRaises(w)
                                    \/ ProcessStep(w) \/ Crash(w) \/ Sigterm(w)

WorkerTypeOK ==
    /\ worker \in [Workers -> {"up", "stopping", "down"}]
    /\ slot \in [Slots -> SlotState]
    /\ due \in [Workers -> [Jobs -> Nat]]
=============================================================================
