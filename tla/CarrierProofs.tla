--------------------------- MODULE CarrierProofs ---------------------------
(***************************************************************************)
(* No job is stranded: what is queued, being processed or to be retried is *)
(* always carried by something that will pick it up.  Of which jobs that   *)
(* holds depends on what may fail:                                         *)
(*   - a queued job, as long as the API does not fail between the commit   *)
(*     and the publish (ReliableApi);                                      *)
(*   - a processing job, whatever dies or raises and in any order of the   *)
(*     thresholds, as long as no entry is redelivered early (TimelySweep); *)
(*     none is when the pending idle time is the longer (RepairedOrder);   *)
(*   - a processing or retrying job, in any order of the thresholds, when  *)
(*     no worker loses what it has popped (LosslessWorkers) and no retry   *)
(*     is due at once (DelaysLast).                                        *)
(* All of it under the conditions of ExclusionProofs.                      *)
(***************************************************************************)
EXTENDS ExclusionProofs

USE EnvironmentAssumption, JobServiceAssumption, QueueAssumption, MaxDelayNat, WorkerAssumption

\* Nothing goes wrong in a request between create_job or reset_for_manual_retry
\* and publish_job.
ReliableApi == "apiIo" \notin Faults /\ "apiCrash" \notin Faults

\* The pending idle time is longer than the stale threshold.  The default
\* settings have it shorter: there TimelySweep depends on the behaviour.
RepairedOrder == StaleAfter < MinIdle

\* No worker dies, no call of one raises and no document makes one die.
LosslessWorkers == "io" \notin Faults /\ "crash" \notin Faults /\ Poison = {}

\* The shortest delay is a whole tick, so it outlasts the calls of one tick.  The
\* default delays are at least 1.6 s, a base of 2 s less a jitter of 20 %.
DelaysLast == \A n \in Nat : 0 \notin compute_delay(n)

-----------------------------------------------------------------------------
(* The inductive invariants.  Entries relates every slot to the entry it   *)
(* handles.  With timely sweeps a slot is alone with its entry, which has  *)
(* been idle no longer than the slot has been working (Owned).             *)

\* A slot x and the entry e it was given.
EntryOf(x, e) ==
    /\ x.pc \in HandlingPcs \cup {"xclaim"} => e.state # "new"
    /\ x.pc \in ClaimedPcs \cup {"claim"} => e.payload = x.job
    /\ x.pc = "drop" => e.payload = Malformed

Entries == \A s \in Slots : EntryOf(slot[s], stream[slot[s].msg])

PendingWith(x, e) == x.pc \in HandlingPcs => e.state = "pending" /\ e.idle <= x.age

Alone == \A s, t \in Slots :
            /\ slot[s].pc \in HandlingPcs /\ slot[t].pc \in HandlingPcs
            /\ slot[s].msg = slot[t].msg
            => s = t

Owned == Alone /\ \A s \in Slots : PendingWith(slot[s], stream[slot[s].msg])

\* An entry of j that nobody is about to acknowledge.
Live(m, j) == /\ m \in Ids
              /\ stream[m].payload = j
              /\ stream[m].state # "acked"
              /\ \A s \in Slots : At(s, "ack") => slot[s].msg # m

HasLive(j) == \E m \in Ids : Live(m, j)

\* An entry of j whose next delivery finds the row of j stale: it has not been
\* idle longer than the row has been processing, and nobody looks at it before.
Recovers(m, j) ==
    /\ Live(m, j)
    /\ stream[m].state = "pending"
    /\ \/ job[j].started_at > StaleAfter
       \/ /\ stream[m].idle <= job[j].started_at
          /\ \A s \in Slots : At(s, "claim") => slot[s].msg # m

Publishing(j) == \E r \in Requests : request[r].pc = "publish" /\ request[r].job = j

QueuedLive == \A j \in Jobs : job[j].status = "queued" => Publishing(j) \/ HasLive(j)

ProcessingRecovers ==
    \A j \in Jobs : job[j].status = "processing" => \E m \in Ids : Recovers(m, j)

ProcessingAttempted == \A j \in Jobs : job[j].status = "processing" => Attempted(j)

RetryingLive == \A j \in Jobs : job[j].status = "retrying" => Scheduled(j) \/ HasLive(j)

\* The retry a slot is about to write into the row is not due in this tick.
NotYetDue == \A s \in Slots : At(s, "mark_retrying") =>
                \E d \in 1 .. MaxDelay : retries[<<slot[s].job, d>>] > 0

-----------------------------------------------------------------------------
(* What a step other than a tick may do to an entry, a slot and a row.     *)

Kept(m) == stream'[m] = stream[m]

\* The sweep has chosen the entry, and XCLAIM still finds it idle.
Reclaimed(m) == IsIdle(m) /\ \E s \in Slots : At(s, "xclaim") /\ slot[s].msg = m

Delivered(m) == /\ stream[m].state = "new" \/ Reclaimed(m)
                /\ stream'[m].payload = stream[m].payload
                /\ stream'[m].state = "pending" /\ stream'[m].idle = 0

LetsGo(s) == slot'[s].pc \in {"idle", "stopped"}

AckedBy(s, m) == /\ slot[s].pc \in {"ack", "drop"} /\ slot[s].msg = m
                 /\ LetsGo(s)
                 /\ stream'[m].payload = stream[m].payload
                 /\ stream'[m].state = "acked"

EntryMoves(m) == /\ m \in Ids'
                 /\ Kept(m) \/ Delivered(m) \/ \E s \in Slots : AckedBy(s, m)

StreamMoves == \A m \in Ids : EntryMoves(m)

Stays(s) == slot'[s] = slot[s]

\* Reading or claiming an entry, for the job it names.
Takes(s) == /\ slot[s].pc \in {"idle", "xclaim"}
            /\ slot'[s].pc \in {"claim", "drop"}
            /\ slot'[s].msg \in Ids /\ Delivered(slot'[s].msg)
            /\ slot'[s].age = 0
            /\ slot'[s].pc = "claim" => stream[slot'[s].msg].payload = slot'[s].job
            /\ slot'[s].pc = "drop" => stream[slot'[s].msg].payload = Malformed

Peeks(s) == /\ slot[s].pc = "idle"
            /\ slot'[s].pc = "xclaim"
            /\ slot'[s].msg \in Ids /\ stream[slot'[s].msg].state # "new"

\* Why an entry may be acknowledged: its job is not to be had, it has ended,
\* or its retry is on its way.
Settles(s, j) == \/ At(s, "claim") /\ ~ IsClaimable(job[j]) /\ job'[j] = job[j]
                 \/ At(s, "mark_retrying") /\ job'[j].status = "retrying"
                 \/ slot[s].pc \in ClaimedPcs /\ job'[j].status \in {"completed", "failed"}

Advances(s) == /\ slot[s].pc \in ClaimedPcs \cup {"claim"}
               /\ slot'[s].pc \in ClaimedPcs \cup {"ack"}
               /\ slot'[s].msg = slot[s].msg
               /\ slot'[s].job = slot[s].job
               /\ slot'[s].age = slot[s].age
               /\ slot'[s].pc = "ack" => Settles(s, slot[s].job)
               /\ slot'[s].pc = "mark_retrying" => Schedule(s)

OnlySlot(s) == \A t \in Slots : t # s => Stays(t)

\* One slot moves, or some end.
SlotsMove == \/ \A t \in Slots : Stays(t) \/ LetsGo(t)
             \/ \E s \in Slots : (Takes(s) \/ Peeks(s) \/ Advances(s)) /\ OnlySlot(s)

ClaimedBy(s, j) == /\ At(s, "claim") /\ slot[s].job = j
                   /\ job'[j].status = "processing" /\ job'[j].started_at = 0
                   /\ slot'[s].pc \in {"load", "idle", "stopped"}
                   /\ OnlySlot(s) /\ UNCHANGED queueVars
                   /\ LosslessWorkers => slot'[s].pc = "load" /\ slot'[s].job = j

RetriedBy(s, j) == /\ At(s, "mark_retrying") /\ slot[s].job = j
                   /\ job'[j].status = "retrying"
                   /\ UNCHANGED <<retries, due>>

RowMoves(j) == \/ job'[j] = job[j]
               \/ job'[j].status \in {"completed", "failed"}
               \/ \E s \in Slots : ClaimedBy(s, j)
               \/ \E s \in Slots : RetriedBy(s, j)
               \/ job'[j].status = "queued" /\ (ReliableApi => Publishing(j)')

RowsMove == \A j \in Jobs : RowMoves(j)

\* A slot of a lossless worker lets go of its job only when that has ended.
HoldsOn(s) == slot[s].pc \in ClaimedPcs /\ LetsGo(s) => job'[slot[s].job].status # "processing"

Moves == /\ StreamMoves /\ SlotsMove /\ RowsMove
         /\ LosslessWorkers => \A s \in Slots : HoldsOn(s)

-----------------------------------------------------------------------------
(* The entries.                                                            *)

\* Nothing happens to the stream.
LEMMA StreamKept ==
    ASSUME UNCHANGED stream
    PROVE  StreamMoves
BY DEF StreamMoves, EntryMoves, Kept, Ids

\* XADD leaves the entries there are alone, and the new one is its job's.
LEMMA StreamPublished ==
    ASSUME QueueTypeOK, NEW p, publish(p)
    PROVE  /\ StreamMoves
           /\ Len(stream) + 1 \in Ids'
           /\ stream'[Len(stream) + 1].payload = p
           /\ stream'[Len(stream) + 1].state = "new"
<1>1. Len(stream) \in Nat /\ stream \in Seq(Entry)
  BY DEF QueueTypeOK
<1> DEFINE e == [payload |-> p, state |-> "new", times |-> 0, idle |-> 0]
<1>2. stream' = Append(stream, e) /\ e.payload = p /\ e.state = "new"
  BY DEF publish
<1> HIDE DEF e
<1>3. Len(stream') = Len(stream) + 1 /\ stream'[Len(stream) + 1] = e
  BY <1>1, <1>2
<1>4. \A m \in 1 .. Len(stream) : stream'[m] = stream[m]
  BY <1>1, <1>2
<1> QED BY <1>1, <1>2, <1>3, <1>4 DEF StreamMoves, EntryMoves, Kept, Ids

\* One entry is replaced.
LEMMA StreamReplaced ==
    ASSUME QueueTypeOK, NEW i \in Ids, NEW e, stream' = [stream EXCEPT ![i] = e]
    PROVE  /\ Ids' = Ids
           /\ \A m \in Ids : stream'[m] = IF m = i THEN e ELSE stream[m]
<1>1. stream \in Seq(Entry) /\ DOMAIN stream = Ids
  BY DEF QueueTypeOK, Ids
<1>2. DOMAIN stream' = DOMAIN stream /\ Len(stream') = Len(stream)
  <2>1. stream \in Seq(Entry \cup {e}) /\ i \in 1 .. Len(stream) /\ e \in Entry \cup {e}
    BY <1>1 DEF Ids
  <2> QED BY <2>1, ExceptSeq
<1> QED BY <1>1, <1>2 DEF Ids

\* XREADGROUP and XCLAIM deliver an entry.
LEMMA StreamDelivered ==
    ASSUME QueueTypeOK, NEW i \in Ids, stream[i].state = "new" \/ Reclaimed(i), Deliver(i)
    PROVE  StreamMoves /\ Delivered(i)
<1> DEFINE e == [payload |-> stream[i].payload, state |-> "pending",
                 times |-> stream[i].times + 1, idle |-> 0]
<1>1. /\ stream' = [stream EXCEPT ![i] = e]
      /\ e.payload = stream[i].payload /\ e.state = "pending" /\ e.idle = 0
  BY DEF Deliver
<1> HIDE DEF e
<1>2. Ids' = Ids /\ \A m \in Ids : stream'[m] = IF m = i THEN e ELSE stream[m]
  BY <1>1, StreamReplaced
<1>3. Delivered(i)
  BY <1>1, <1>2 DEF Delivered
<1> QED BY <1>2, <1>3 DEF StreamMoves, EntryMoves, Kept

\* XCLAIM that finds its entry acknowledged or delivered again does nothing.
LEMMA StreamClaimed ==
    ASSUME QueueTypeOK, NEW s \in Slots, At(s, "xclaim"), NEW i \in Ids, slot[s].msg = i, XClaim(i)
    PROVE  StreamMoves /\ (IsIdle(i) => Delivered(i))
BY StreamDelivered, StreamKept DEF XClaim, Reclaimed, queueVars

\* XACK by the slot that has the entry.
LEMMA StreamAcked ==
    ASSUME QueueTypeOK, NEW s \in Slots, slot[s].pc \in {"ack", "drop"}, slot[s].msg \in Ids,
           LetsGo(s), ack(slot[s].msg)
    PROVE  StreamMoves
<1> DEFINE i == slot[s].msg
           e == [payload |-> stream[i].payload, state |-> "acked", times |-> 0, idle |-> 0]
<1>1. /\ stream' = [stream EXCEPT ![i] = e]
      /\ e.payload = stream[i].payload /\ e.state = "acked"
  BY DEF ack
<1> HIDE DEF e
<1>2. Ids' = Ids /\ \A m \in Ids : stream'[m] = IF m = i THEN e ELSE stream[m]
  BY <1>1, StreamReplaced
<1>3. AckedBy(s, i)
  BY <1>1, <1>2 DEF AckedBy
<1> QED BY <1>2, <1>3 DEF StreamMoves, EntryMoves, Kept

-----------------------------------------------------------------------------
(* The slots and the rows.                                                 *)

\* One slot is replaced.
LEMMA SlotReplaced ==
    ASSUME Inv, NEW s \in Slots, NEW x, slot' = [slot EXCEPT ![s] = x]
    PROVE  slot'[s] = x /\ OnlySlot(s)
BY DEF Inv, WorkersInv, WorkerTypeOK, OnlySlot, Stays

\* A slot that is done with its entry.
LEMMA ReleaseMoves ==
    ASSUME Inv, NEW s \in Slots, Release(s)
    PROVE  LetsGo(s) /\ OnlySlot(s)
<1> DEFINE x == Holding(IF worker[s[1]] = "stopping" THEN "stopped" ELSE "idle", 0, 0, "none")
<1>1. x.pc \in {"stopped", "idle"} /\ slot' = [slot EXCEPT ![s] = x]
  BY DEF Holding, Release
<1> HIDE DEF x
<1> QED BY <1>1, SlotReplaced DEF LetsGo

\* The slots of a process that dies.
LEMMA DieMoves ==
    ASSUME NEW w, Die(w)
    PROVE  \A t \in Slots : IF t[1] = w THEN LetsGo(t) ELSE Stays(t)
<1>1. \A t \in Slots : slot'[t] = IF t[1] = w THEN Free ELSE slot[t]
  BY DEF Die
<1>2. Free.pc = "idle"
  BY DEF Free, Holding
<1> QED BY <1>1, <1>2 DEF LetsGo, Stays

\* A slot that is given an entry.
LEMMA AcceptMoves ==
    ASSUME Inv, NEW s \in Slots, NEW m \in Ids, NEW count, Accept(s, m, count), Delivered(m),
           slot[s].pc \in {"idle", "xclaim"}
    PROVE  Takes(s) /\ OnlySlot(s)
<1> DEFINE x == IF stream[m].payload = Malformed THEN Holding("drop", m, count, "none")
                ELSE Holding("claim", m, count, stream[m].payload)
<1>1. /\ slot' = [slot EXCEPT ![s] = x]
      /\ x.pc \in {"claim", "drop"} /\ x.msg = m /\ x.age = 0
      /\ x.pc = "claim" => stream[m].payload = x.job
      /\ x.pc = "drop" => stream[m].payload = Malformed
  BY DEF Accept, Holding
<1> HIDE DEF x
<1>2. slot'[s] = x /\ OnlySlot(s)
  BY <1>1, SlotReplaced
<1> QED BY <1>1, <1>2 DEF Takes

\* A slot that goes on to its next call.
LEMMA AdvanceMoves ==
    ASSUME Inv, NEW s \in Slots, slot[s].pc \in ClaimedPcs \cup {"claim"},
           NEW x, slot' = [slot EXCEPT ![s] = x],
           x.pc \in ClaimedPcs \cup {"ack"},
           x.msg = slot[s].msg, x.job = slot[s].job, x.age = slot[s].age,
           x.pc = "ack" => Settles(s, slot[s].job),
           x.pc = "mark_retrying" => Schedule(s)
    PROVE  Advances(s) /\ OnlySlot(s)
<1>1. slot'[s] = x /\ OnlySlot(s)
  BY SlotReplaced
<1> QED BY <1>1 DEF Advances

\* The tables are left alone, or one row is written.
LEMMA RowsKept ==
    ASSUME UNCHANGED job
    PROVE  RowsMove
BY DEF RowsMove, RowMoves

LEMMA RowWritten ==
    ASSUME DbTypeOK, NEW j \in Jobs, NEW row, job' = [job EXCEPT ![j] = row], RowMoves(j)
    PROVE  RowsMove
<1>1. \A k \in Jobs : k # j => job'[k] = job[k]
  BY DEF DbTypeOK
<1> QED BY <1>1 DEF RowsMove, RowMoves

\* Putting together the step of one slot.
LEMMA OneSlotMoves ==
    ASSUME StreamMoves, RowsMove, NEW s \in Slots, OnlySlot(s),
           LetsGo(s) \/ Takes(s) \/ Peeks(s) \/ Advances(s),
           LosslessWorkers => HoldsOn(s)
    PROVE  Moves
<1>1. \A t \in Slots : t # s => HoldsOn(t)
  BY DEF OnlySlot, Stays, HoldsOn, LetsGo, ClaimedPcs
<1>2. SlotsMove
  BY DEF SlotsMove, OnlySlot
<1> QED BY <1>1, <1>2 DEF Moves

\* A slot that has not claimed a job, or goes on, lets go of none.
LEMMA NothingHeld ==
    ASSUME NEW s \in Slots, slot[s].pc \notin ClaimedPcs \/ slot'[s].pc \notin {"idle", "stopped"}
    PROVE  HoldsOn(s)
BY DEF HoldsOn, LetsGo

\* A call of a lossless worker does not raise.
LEMMA NoRaise == Fault("io") \/ Fault("crash") => ~ LosslessWorkers
BY DEF Fault, LosslessWorkers

\* _persist commits.
LEMMA StoreRow ==
    ASSUME Inv, Sound, NEW s \in Slots, At(s, "work"), StoreResult(slot[s].job, slot[s].obj)
    PROVE  RowsMove /\ job'[slot[s].job].status = "completed"
<1>0. slot[s].pc \in ClaimedPcs /\ slot[s].pc \in LoadedPcs
  BY DEF At, ClaimedPcs, LoadedPcs
<1>1. PICK j \in Jobs : j = slot[s].job
  BY <1>0, HolderFacts
<1> DEFINE row == Flush(job[j], slot[s].obj, mark_completed(slot[s].obj))
<1>2. job[j] \in ProcessingJob /\ slot[s].obj = Loaded(job[j])
  BY <1>0, <1>1, HolderFacts DEF SlotSound
<1>3. row.status = "completed"
  BY <1>2, FlushLoaded
<1>4. job' = [job EXCEPT ![j] = row] /\ DbTypeOK
  BY <1>1 DEF StoreResult, Commit, Inv, TablesInv
<1> HIDE DEF row
<1>5. job'[j].status = "completed"
  BY <1>3, <1>4 DEF DbTypeOK
<1> QED BY <1>1, <1>4, <1>5, RowWritten DEF RowMoves

\* mark_retrying and mark_failed commit.
LEMMA MarkRow ==
    ASSUME Inv, Sound, NEW s \in Slots, slot[s].pc \in MarkPcs,
           Commit(slot[s].job, slot[s].obj, Marked(s)), UNCHANGED <<retries, due>>
    PROVE  /\ RowsMove
           /\ \/ At(s, "mark_retrying") /\ job'[slot[s].job].status = "retrying"
              \/ job'[slot[s].job].status = "failed"
<1>0. slot[s].pc \in ClaimedPcs /\ slot[s].pc \in LoadedPcs
  BY DEF MarkPcs, ClaimedPcs, LoadedPcs
<1>1. PICK j \in Jobs : j = slot[s].job
  BY <1>0, HolderFacts
<1> DEFINE row == Flush(job[j], slot[s].obj, Marked(s))
<1>2. job[j] \in ProcessingJob /\ slot[s].obj = Loaded(job[j])
  BY <1>0, <1>1, HolderFacts DEF SlotSound
<1>3. \/ At(s, "mark_retrying") /\ row.status = "retrying"
      \/ row.status = "failed"
  <2>1. CASE slot[s].pc = "mark_retrying"
    <3>1. Marked(s) = mark_retrying(slot[s].obj, slot[s].error)
      BY <2>1 DEF Marked
    <3> QED BY <1>2, <2>1, <3>1, FlushLoaded DEF At
  <2>2. CASE slot[s].pc = "fail"
    <3>1. Marked(s) = mark_failed(slot[s].obj, slot[s].error)
      BY <2>2 DEF Marked
    <3> QED BY <1>2, <3>1, FlushLoaded
  <2>3. CASE slot[s].pc = "deadletter"
    <3>1. Marked(s) = mark_failed(slot[s].obj, "redelivered")
      BY <2>3 DEF Marked
    <3> QED BY <1>2, <3>1, FlushLoaded
  <2> QED BY <2>1, <2>2, <2>3 DEF MarkPcs
<1>4. job' = [job EXCEPT ![j] = row] /\ DbTypeOK
  BY <1>1 DEF Commit, Inv, TablesInv
<1> HIDE DEF row
<1>5. job'[j] = row
  BY <1>4 DEF DbTypeOK
<1>6. RowMoves(j)
  BY <1>1, <1>3, <1>5 DEF RowMoves, RetriedBy
<1> QED BY <1>1, <1>3, <1>4, <1>5, <1>6, RowWritten

\* claim_job takes a job.
LEMMA ClaimRow ==
    ASSUME Inv, NEW s \in Slots, At(s, "claim"), claim_job(slot[s].job), OnlySlot(s),
           UNCHANGED queueVars, slot'[s].pc \in {"load", "idle", "stopped"},
           LosslessWorkers => slot'[s].pc = "load" /\ slot'[s].job = slot[s].job
    PROVE  RowsMove
<1>1. PICK j \in Jobs : j = slot[s].job
  BY SlotFacts DEF Inv, At
<1> DEFINE row == [status |-> "processing", retry_count |-> job[j].retry_count,
                   started_at |-> 0, error_message |-> job[j].error_message]
<1>2. job' = [job EXCEPT ![j] = row] /\ DbTypeOK /\ row.status = "processing" /\ row.started_at = 0
  BY <1>1 DEF claim_job, Inv, TablesInv
<1> HIDE DEF row
<1>3. job'[j] = row
  BY <1>2 DEF DbTypeOK
<1>4. ClaimedBy(s, j)
  BY <1>1, <1>2, <1>3 DEF ClaimedBy
<1> QED BY <1>2, <1>4, RowWritten DEF RowMoves

-----------------------------------------------------------------------------
(* Every step but a tick.                                                  *)

\* The steps of one task, and the calls of it that raise.
LEMMA SlotStepMoves ==
    ASSUME Inv, Sound, NEW s \in Slots, SlotStep(s) \/ SlotRaises(s)
    PROVE  Moves
<1>0. QueueTypeOK /\ slot[s] \in SlotState
  BY SlotFacts DEF Inv
<1>1. ASSUME Release(s), StreamMoves, RowsMove, slot[s].pc \notin ClaimedPcs \/ ~ LosslessWorkers
      PROVE  Moves
  BY <1>1, ReleaseMoves, NothingHeld, OneSlotMoves
<1>2. ASSUME UNCHANGED <<dbVars, queueVars>>
      PROVE  StreamMoves /\ RowsMove
  BY <1>2, StreamKept, RowsKept DEF dbVars, queueVars
<1>3. ASSUME StreamMoves, RowsMove, OnlySlot(s), Takes(s) \/ Peeks(s) \/ Advances(s)
      PROVE  Moves
  <2>1. slot'[s].pc \notin {"idle", "stopped"}
    BY <1>3 DEF Takes, Peeks, Advances, ClaimedPcs
  <2> QED BY <1>3, <2>1, NothingHeld, OneSlotMoves
<1>4. ASSUME NEW pc \in ClaimedPcs \cup {"ack"}, Step(s, pc), StreamMoves, RowsMove,
             slot[s].pc \in ClaimedPcs \cup {"claim"},
             pc = "ack" => Settles(s, slot[s].job),
             pc = "mark_retrying" => Schedule(s)
      PROVE  Moves
  <2> DEFINE x == [slot[s] EXCEPT !.pc = pc]
  <2>1. /\ x.pc = pc /\ x.msg = slot[s].msg /\ x.job = slot[s].job /\ x.age = slot[s].age
        /\ slot' = [slot EXCEPT ![s] = x]
    BY <1>0, <1>4 DEF SlotState, Step
  <2> HIDE DEF x
  <2> QED BY <1>3, <1>4, <2>1, AdvanceMoves
<1>5. \A pc \in {"load", "work", "refresh", "schedule", "mark_retrying", "fail", "deadletter"} :
         /\ pc \in ClaimedPcs
         /\ At(s, pc) => slot[s].pc \in ClaimedPcs
  BY DEF At, ClaimedPcs
<1>6. slot[s].pc \notin {"idle", "stopped"} => slot[s].msg \in Ids
  BY SlotFacts DEF Inv
<1>7. CASE Read(s)
  <2>1. PICK m \in Ids : stream[m].state = "new" /\ Deliver(m) /\ Accept(s, m, 1)
    BY <1>7 DEF Read, IsNext
  <2>2. StreamMoves /\ Delivered(m)
    BY <1>0, <2>1, StreamDelivered
  <2>3. RowsMove
    BY <1>7, RowsKept DEF Read, dbVars
  <2> QED BY <1>3, <1>7, <2>1, <2>2, <2>3, AcceptMoves DEF Read, At
<1>8. CASE ReadRaises(s)
  <2>1. PICK m \in Ids : stream[m].state = "new" /\ Deliver(m)
    BY <1>8 DEF ReadRaises, IsNext
  <2>2. StreamMoves
    BY <1>0, <2>1, StreamDelivered
  <2> QED BY <1>1, <1>8, <2>2, RowsKept, NoRaise DEF ReadRaises, dbVars
<1>9. CASE Sweep(s)
  <2>1. PICK m \in Ids : /\ stream[m].state = "pending"
                         /\ slot' = [slot EXCEPT ![s] = Holding("xclaim", m, stream[m].times + 1, "none")]
    BY <1>9 DEF Sweep, IsOldestIdle, IsIdle
  <2> DEFINE x == Holding("xclaim", m, stream[m].times + 1, "none")
  <2>2. x.pc = "xclaim" /\ x.msg = m /\ slot' = [slot EXCEPT ![s] = x]
    BY <2>1 DEF Holding
  <2> HIDE DEF x
  <2>3. Peeks(s) /\ OnlySlot(s)
    BY <1>9, <2>1, <2>2, SlotReplaced DEF Sweep, At, Peeks
  <2> QED BY <1>2, <1>3, <1>9, <2>3 DEF Sweep
<1>10. CASE ClaimStale(s)
  <2>1. slot[s].msg \in Ids /\ slot[s].pc \notin ClaimedPcs
    BY <1>6, <1>10 DEF ClaimStale, At, ClaimedPcs
  <2>2. StreamMoves /\ (IsIdle(slot[s].msg) => Delivered(slot[s].msg))
    BY <1>0, <1>10, <2>1, StreamClaimed DEF ClaimStale
  <2>3. RowsMove
    BY <1>10, RowsKept DEF ClaimStale, dbVars
  <2>4. CASE IsIdle(slot[s].msg)
    BY <1>3, <1>10, <2>1, <2>2, <2>3, <2>4, AcceptMoves DEF ClaimStale, At
  <2>5. CASE ~ IsIdle(slot[s].msg)
    BY <1>1, <1>10, <2>1, <2>2, <2>3, <2>5 DEF ClaimStale
  <2> QED BY <2>4, <2>5
<1>11. CASE ClaimStaleRaises(s)
  <2>1. slot[s].msg \in Ids
    BY <1>6, <1>11 DEF ClaimStaleRaises, At
  <2>2. StreamMoves
    BY <1>0, <1>11, <2>1, StreamClaimed, StreamKept DEF ClaimStaleRaises, queueVars
  <2> QED BY <1>1, <1>11, <2>2, RowsKept, NoRaise DEF ClaimStaleRaises, dbVars
<1>12. CASE Drop(s) \/ DropRaises(s) \/ Ack(s)
  <2>1. slot[s].pc \in {"ack", "drop"} /\ Release(s) /\ UNCHANGED job
    BY <1>12 DEF Drop, DropRaises, Ack, At, dbVars
  <2>2. ack(slot[s].msg) \/ UNCHANGED queueVars
    BY <1>12 DEF Drop, DropRaises, Ack
  <2>3. slot[s].msg \in Ids /\ slot[s].pc \notin ClaimedPcs
    BY <1>6, <2>1 DEF ClaimedPcs
  <2>4. StreamMoves
    BY <1>0, <2>1, <2>2, <2>3, ReleaseMoves, StreamAcked, StreamKept DEF queueVars
  <2> QED BY <1>1, <2>1, <2>3, <2>4, RowsKept
<1>13. CASE Claim(s)
  <2> DEFINE x == [slot[s] EXCEPT !.pc = "load"]
  <2>1. /\ x.pc = "load" /\ x.job = slot[s].job
        /\ slot' = [slot EXCEPT ![s] = x]
    BY <1>0, <1>13 DEF SlotState, Claim, Step
  <2> HIDE DEF x
  <2>2. slot'[s] = x /\ OnlySlot(s)
    BY <2>1, SlotReplaced
  <2>3. RowsMove
    BY <1>13, <2>1, <2>2, ClaimRow DEF Claim
  <2> QED BY <1>4, <1>5, <1>13, <2>3, StreamKept DEF Claim, At, queueVars
<1>14. CASE Skip(s)
  <2>1. Settles(s, slot[s].job)
    BY <1>14 DEF Skip, Settles, dbVars
  <2> QED BY <1>2, <1>4, <1>14, <2>1 DEF Skip, At
<1>15. ASSUME NEW x, slot' = [slot EXCEPT ![s] = x], slot[s].pc \in ClaimedPcs,
              StreamMoves, RowsMove, x.pc \in ClaimedPcs, x.pc # "mark_retrying",
              x.msg = slot[s].msg, x.job = slot[s].job, x.age = slot[s].age
       PROVE  Moves
  BY <1>3, <1>15, AdvanceMoves DEF ClaimedPcs
<1>16. CASE Load(s)
  <2> DEFINE pc == IF slot[s].count > MaxDelivery THEN "deadletter" ELSE "work"
             x == [slot[s] EXCEPT !.obj = get_job(slot[s].job), !.pc = pc]
  <2>1. slot' = [slot EXCEPT ![s] = x] /\ slot[s].pc \in ClaimedPcs /\ StreamMoves /\ RowsMove
    BY <1>2, <1>5, <1>16 DEF Load
  <2>2. pc \in {"deadletter", "work"}
    OBVIOUS
  <2> HIDE DEF pc
  <2>3. /\ x.pc \in ClaimedPcs /\ x.pc # "mark_retrying"
        /\ x.msg = slot[s].msg /\ x.job = slot[s].job /\ x.age = slot[s].age
    BY <1>0, <1>5, <2>2 DEF SlotState
  <2> HIDE DEF x
  <2> QED BY <1>15, <2>1, <2>3
<1>17. ASSUME NEW error, slot' = [slot EXCEPT ![s].pc = "refresh", ![s].error = error],
              At(s, "work"), StreamMoves, RowsMove
       PROVE  Moves
  <2> DEFINE x == [slot[s] EXCEPT !.pc = "refresh", !.error = error]
  <2>1. slot' = [slot EXCEPT ![s] = x] /\ slot[s].pc \in ClaimedPcs
    BY <1>5, <1>17
  <2>2. /\ x.pc \in ClaimedPcs /\ x.pc # "mark_retrying"
        /\ x.msg = slot[s].msg /\ x.job = slot[s].job /\ x.age = slot[s].age
    BY <1>0, <1>5 DEF SlotState
  <2> HIDE DEF x
  <2> QED BY <1>15, <1>17, <2>1, <2>2
<1>18. CASE WorkFails(s)
  BY <1>2, <1>17, <1>18 DEF WorkFails
<1>19. CASE Persist(s)
  <2>1. RowsMove /\ job'[slot[s].job].status = "completed" /\ slot[s].pc \in ClaimedPcs
    BY <1>5, <1>19, StoreRow DEF Persist
  <2>2. Settles(s, slot[s].job)
    BY <2>1 DEF Settles
  <2> QED BY <1>4, <1>19, <2>1, <2>2, StreamKept DEF Persist, queueVars
<1>20. CASE PersistRefused(s)
  <2>1. ~ result[slot[s].job]
    <3>1. slot[s].pc \in ClaimedPcs
      BY <1>5, <1>20 DEF PersistRefused
    <3> QED BY <1>20, <3>1, HolderFacts DEF PersistRefused, At, SlotSound, RowSound, FailurePcs
  <2> QED BY <1>2, <1>17, <1>20, <2>1 DEF PersistRefused
<1>21. CASE PersistRaises(s)
  <2>1. RowsMove
    BY <1>21, StoreRow, RowsKept DEF PersistRaises, dbVars
  <2> QED BY <1>17, <1>21, <2>1, StreamKept DEF PersistRaises, queueVars
<1>22. CASE Refresh(s)
  <2> DEFINE obj == get_job(slot[s].job)
             pc == IF should_retry(slot[s].error, obj.retry_count, MaxRetries) THEN "schedule" ELSE "fail"
             x == [slot[s] EXCEPT !.obj = obj, !.pc = pc]
  <2>1. slot' = [slot EXCEPT ![s] = x] /\ slot[s].pc \in ClaimedPcs /\ StreamMoves /\ RowsMove
    BY <1>2, <1>5, <1>22 DEF Refresh
  <2>2. pc \in {"schedule", "fail"}
    OBVIOUS
  <2> HIDE DEF obj, pc
  <2>3. /\ x.pc \in ClaimedPcs /\ x.pc # "mark_retrying"
        /\ x.msg = slot[s].msg /\ x.job = slot[s].job /\ x.age = slot[s].age
    BY <1>0, <1>5, <2>2 DEF SlotState
  <2> HIDE DEF x
  <2> QED BY <1>15, <2>1, <2>3
<1>23. CASE Schedule(s)
  <2>1. StreamMoves /\ RowsMove
    BY <1>23, StreamKept, RowsKept DEF Schedule, schedule_retry, dbVars
  <2> QED BY <1>4, <1>5, <1>23, <2>1 DEF Schedule
<1>24. CASE ScheduleRaises(s)
  <2> DEFINE x == [slot[s] EXCEPT !.pc = "fail", !.error = "unscheduled"]
  <2>1. slot' = [slot EXCEPT ![s] = x] /\ slot[s].pc \in ClaimedPcs
    BY <1>5, <1>24 DEF ScheduleRaises
  <2>2. StreamMoves /\ RowsMove
    BY <1>24, StreamKept, RowsKept DEF ScheduleRaises, schedule_retry, dbVars, queueVars
  <2>3. /\ x.pc \in ClaimedPcs /\ x.pc # "mark_retrying"
        /\ x.msg = slot[s].msg /\ x.job = slot[s].job /\ x.age = slot[s].age
    BY <1>0, <1>5 DEF SlotState
  <2> HIDE DEF x
  <2> QED BY <1>15, <2>1, <2>2, <2>3
<1>25. CASE Mark(s)
  <2>1. /\ RowsMove
        /\ \/ At(s, "mark_retrying") /\ job'[slot[s].job].status = "retrying"
           \/ job'[slot[s].job].status = "failed"
    BY <1>25, MarkRow DEF Mark, queueVars
  <2>2. slot[s].pc \in ClaimedPcs
    BY <1>25 DEF Mark, MarkPcs, ClaimedPcs
  <2>3. Settles(s, slot[s].job)
    BY <2>1, <2>2 DEF Settles
  <2> QED BY <1>4, <1>25, <2>1, <2>2, <2>3, StreamKept DEF Mark, queueVars
<1>26. CASE MarkRefused(s)
  <2>1. StreamMoves /\ RowsMove /\ LetsGo(s) /\ OnlySlot(s)
    BY <1>2, <1>26, ReleaseMoves DEF MarkRefused
  <2>2. slot[s].pc \in ClaimedPcs /\ slot[s].pc \in LoadedPcs
    BY <1>26 DEF MarkRefused, MarkPcs, ClaimedPcs, LoadedPcs
  <2>3. job[slot[s].job].status # "processing"
    <3>1. slot[s].obj.status = job[slot[s].job].status
      <4>1. slot[s].obj = Loaded(job[slot[s].job]) /\ job[slot[s].job] \in ProcessingJob
        BY <2>2, HolderFacts DEF SlotSound
      <4> QED BY <4>1 DEF Loaded, ProcessingJob
    <3>2. is_transition_allowed("processing", Target(s))
      BY DEF is_transition_allowed, ALLOWED_TRANSITIONS, JobStatus, Target
    <3> QED BY <1>26, <3>1, <3>2 DEF MarkRefused
  <2>4. HoldsOn(s)
    BY <1>26, <2>3 DEF HoldsOn, MarkRefused, dbVars
  <2> QED BY <2>1, <2>4, OneSlotMoves
<1>27. CASE CallRaises(s)
  <2>1. Release(s) /\ UNCHANGED <<queueVars, due>> /\ ~ LosslessWorkers
    BY <1>27, NoRaise DEF CallRaises
  <2>2. LetsGo(s) /\ OnlySlot(s)
    BY <2>1, ReleaseMoves
  <2>3. RowsMove
    <3>1. CASE UNCHANGED dbVars
      BY <3>1, RowsKept DEF dbVars
    <3>2. CASE At(s, "claim") /\ claim_job(slot[s].job)
      BY <2>1, <2>2, <3>2, ClaimRow DEF LetsGo
    <3>3. CASE slot[s].pc \in MarkPcs /\ Commit(slot[s].job, slot[s].obj, Marked(s))
      BY <2>1, <3>3, MarkRow DEF queueVars
    <3> QED BY <1>27, <3>1, <3>2, <3>3 DEF CallRaises
  <2> QED BY <1>1, <2>1, <2>3, StreamKept DEF queueVars
<1>28. CASE AckRaises(s) \/ PoisonCrash(s)
  <2>1. Die(s[1]) /\ UNCHANGED job /\ ~ LosslessWorkers
    BY <1>28, NoRaise DEF AckRaises, PoisonCrash, dbVars, LosslessWorkers
  <2>2. \A t \in Slots : Stays(t) \/ LetsGo(t)
    BY <2>1, DieMoves
  <2>3. LetsGo(s)
    BY <2>1, DieMoves
  <2>4. StreamMoves
    <3>1. CASE UNCHANGED queueVars
      BY <3>1, StreamKept DEF queueVars
    <3>2. CASE At(s, "ack") /\ ack(slot[s].msg)
      BY <1>0, <1>6, <2>3, <3>2, StreamAcked DEF At
    <3> QED BY <1>28, <3>1, <3>2 DEF AckRaises, PoisonCrash
  <2> QED BY <2>1, <2>2, <2>4, RowsKept DEF Moves, SlotsMove
<1>29. CASE StopTask(s)
  <2> DEFINE x == [slot[s] EXCEPT !.pc = "stopped"]
  <2>1. x.pc = "stopped" /\ slot' = [slot EXCEPT ![s] = x] /\ slot[s].pc \notin ClaimedPcs
    BY <1>0, <1>29 DEF SlotState, StopTask, Step, At, ClaimedPcs
  <2> HIDE DEF x
  <2>2. LetsGo(s) /\ OnlySlot(s)
    BY <2>1, SlotReplaced DEF LetsGo
  <2> QED BY <1>2, <1>29, <2>1, <2>2, NothingHeld, OneSlotMoves DEF StopTask
<1> QED
  BY <1>7, <1>8, <1>9, <1>10, <1>11, <1>12, <1>13, <1>14, <1>16, <1>18, <1>19, <1>20, <1>21,
     <1>22, <1>23, <1>24, <1>25, <1>26, <1>27, <1>28, <1>29
  DEF SlotStep, SlotRaises

\* A step in which no slot takes part.
LEMMA ElsewhereMoves ==
    ASSUME UNCHANGED slot, StreamMoves, RowsMove, Inv
    PROVE  Moves
BY DEF Moves, SlotsMove, Stays, HoldsOn, LetsGo, ClaimedPcs

\* The retry scheduler and the process itself.
LEMMA ProcessMoves ==
    ASSUME Inv, NEW w \in Workers,
           \/ SchedulerStep(w) \/ SchedulerRaises(w)
           \/ ProcessStep(w) \/ Crash(w) \/ Sigterm(w)
    PROVE  Moves
<1>0. QueueTypeOK
  BY DEF Inv
<1>1. CASE SchedulerStep(w) \/ SchedulerRaises(w)
  <2>1. UNCHANGED slot /\ RowsMove
    BY <1>1, RowsKept
    DEF SchedulerStep, SchedulerRaises, PopDue, PopDueRaises, Republish, RepublishRaises, dbVars
  <2>2. UNCHANGED stream \/ \E j \in Jobs : publish(j)
    BY <1>1 DEF SchedulerStep, SchedulerRaises, PopDue, PopDueRaises, Republish, RepublishRaises,
       queueVars, pop_due_retries
  <2> QED BY <1>0, <2>1, <2>2, StreamKept, StreamPublished, ElsewhereMoves
<1>2. CASE Exit(w) \/ Crash(w)
  <2>1. Die(w) /\ StreamMoves /\ RowsMove
    BY <1>2, StreamKept, RowsKept DEF Exit, Crash, dbVars, queueVars
  <2>2. SlotsMove
    BY <2>1, DieMoves DEF SlotsMove
  <2>3. ASSUME LosslessWorkers, NEW s \in Slots PROVE HoldsOn(s)
    <3>1. CASE s[1] = w
      <4>1. s = <<w, s[2]>> /\ s[2] \in Tasks
        BY <3>1 DEF Slots
      <4>2. At(s, "stopped")
        BY <1>2, <2>3, <4>1, NoRaise DEF Exit, Crash
      <4> QED BY <4>2, NothingHeld DEF At, ClaimedPcs
    <3>2. CASE s[1] # w
      <4>1. Stays(s)
        BY <2>1, <3>2, DieMoves
      <4> QED BY <4>1 DEF Stays, HoldsOn, LetsGo, ClaimedPcs
    <3> QED BY <3>1, <3>2
  <2> QED BY <2>1, <2>2, <2>3 DEF Moves
<1>3. CASE Restart(w) \/ Sigterm(w)
  BY <1>3, StreamKept, RowsKept, ElsewhereMoves DEF Restart, Sigterm, dbVars, queueVars
<1> QED BY <1>1, <1>2, <1>3 DEF ProcessStep

\* One request is replaced.
LEMMA RequestReplaced ==
    ASSUME Inv, NEW r \in Requests, NEW y, request' = [request EXCEPT ![r] = y]
    PROVE  /\ request'[r] = y
           /\ \A q \in Requests : q # r => request'[q] = request[q]
BY DEF Inv, RequestsInv, ApiTypeOK

\* Only a fault of the API can lose a request.
LEMMA NoApiRaise == Fault("apiIo") \/ Fault("apiCrash") => ~ ReliableApi
BY DEF Fault, ReliableApi

\* A manual retry, or one whose reply is lost, queues its job.
LEMMA ResetRow ==
    ASSUME Inv, Sound, NEW r \in Requests, request[r].pc = "reset",
           Commit(request[r].job, request[r].obj, reset_for_manual_retry(request[r].obj)),
           ReliableApi => request'[r].pc = "publish" /\ request'[r].job = request[r].job
    PROVE  RowsMove
<1>1. PICK j \in Jobs : j = request[r].job
  BY DEF Inv, RequestsInv, RequestOK
<1> DEFINE row == Flush(job[j], request[r].obj, reset_for_manual_retry(request[r].obj))
<1>2. job[j] \in ProcessingJob /\ request[r].obj = Loaded(job[j])
  BY <1>1 DEF Inv, TablesInv, DbTypeOK, Sound, RequestSound
<1>3. row.status = "queued"
  BY <1>2, FlushLoaded
<1>4. job' = [job EXCEPT ![j] = row] /\ DbTypeOK
  BY <1>1 DEF Commit, Inv, TablesInv
<1> HIDE DEF row
<1>5. job'[j].status = "queued"
  BY <1>3, <1>4 DEF DbTypeOK
<1>6. ReliableApi => Publishing(j)'
  BY <1>1 DEF Publishing
<1> QED BY <1>4, <1>5, <1>6, RowWritten DEF RowMoves

\* An upload creates its job as queued.
LEMMA CreateRow ==
    ASSUME Inv, NEW j \in Jobs, create_document_and_job(j), ReliableApi => Publishing(j)'
    PROVE  RowsMove
<1> DEFINE row == [NoRow EXCEPT !.status = "queued"]
<1>1. job' = [job EXCEPT ![j] = row] /\ DbTypeOK /\ row.status = "queued"
  BY DEF create_document_and_job, NoRow, Inv, TablesInv
<1> HIDE DEF row
<1>2. job'[j].status = "queued"
  BY <1>1 DEF DbTypeOK
<1> QED BY <1>1, <1>2, RowWritten DEF RowMoves

\* The steps of the API.
LEMMA ApiMoves ==
    ASSUME Inv, Sound, QuietApi, ApiNext, UNCHANGED slot
    PROVE  Moves
<1>0. QueueTypeOK
  BY DEF Inv
<1>1. ASSUME UNCHANGED queueVars, RowsMove PROVE Moves
  BY <1>1, StreamKept, ElsewhereMoves DEF queueVars
<1>2. CASE ApiCrash
  BY <1>1, <1>2, RowsKept DEF ApiCrash, dbVars
<1>3. ASSUME NEW r \in Requests, NEW j \in Jobs, Upload(r, j) PROVE Moves
  <2> DEFINE y == [pc |-> "publish", job |-> j, obj |-> [NoRow EXCEPT !.status = "queued"]]
  <2>1. y.pc = "publish" /\ y.job = j /\ request' = [request EXCEPT ![r] = y]
    BY <1>3 DEF Upload
  <2> HIDE DEF y
  <2>2. Publishing(j)'
    BY <2>1, RequestReplaced DEF Publishing
  <2> QED BY <1>1, <1>3, <2>2, CreateRow DEF Upload
<1>4. ASSUME NEW r \in Requests, NEW j \in Jobs, UploadRaises(r, j) PROVE Moves
  BY <1>1, <1>4, CreateRow, NoApiRaise DEF UploadRaises
<1>5. ASSUME NEW r \in Requests, NEW j \in Jobs, LoadForRetry(r, j) PROVE Moves
  BY <1>1, <1>5, RowsKept DEF LoadForRetry, dbVars
<1>6. ASSUME NEW r \in Requests, Reset(r) PROVE Moves
  <2> DEFINE y == [request[r] EXCEPT !.pc = "publish", !.obj = reset_for_manual_retry(request[r].obj)]
  <2>1. y.pc = "publish" /\ y.job = request[r].job
    BY DEF Inv, RequestsInv, ApiTypeOK, RequestState
  <2>2. request' = [request EXCEPT ![r] = y]
    BY <1>6 DEF Reset
  <2> HIDE DEF y
  <2>3. RowsMove
    BY <1>6, <2>1, <2>2, RequestReplaced, ResetRow DEF Reset
  <2> QED BY <1>1, <1>6, <2>3 DEF Reset
<1>7. ASSUME NEW r \in Requests, ResetRaises(r) PROVE Moves
  <2>1. RowsMove
    BY <1>7, ResetRow, RowsKept, NoApiRaise DEF ResetRaises
  <2> QED BY <1>1, <1>7, <2>1 DEF ResetRaises
<1>8. ASSUME NEW r \in Requests, publish_job(r) \/ PublishRaises(r) PROVE Moves
  <2>1. publish(request[r].job) \/ UNCHANGED queueVars
    BY <1>8 DEF publish_job, PublishRaises
  <2>2. StreamMoves
    BY <1>0, <2>1, StreamPublished, StreamKept DEF queueVars
  <2> QED BY <1>8, <2>2, RowsKept, ElsewhereMoves DEF publish_job, PublishRaises, dbVars
<1>9. ASSUME NEW r \in Requests, FailUnqueued(r) \/ FailUnqueuedRaises(r) PROVE Moves
  BY <1>9 DEF FailUnqueued, FailUnqueuedRaises, QuietApi
<1> QED
  BY <1>2, <1>3, <1>4, <1>5, <1>6, <1>7, <1>8, <1>9
  DEF ApiNext, RequestStep, RequestProgress, RequestRaises

\* Every step but a tick.
LEMMA StepMoves ==
    ASSUME Inv, Sound, QuietApi, [Next]_vars
    PROVE  Tick \/ Moves
<1>1. CASE ApiNext /\ UNCHANGED <<worker, slot, due>>
  BY <1>1, ApiMoves
<1>2. CASE WorkerNext
  BY <1>2, SlotStepMoves, ProcessMoves DEF WorkerNext
<1>3. CASE ForeignEntry
  <2>1. StreamMoves
    BY <1>3, StreamPublished DEF ForeignEntry, Inv
  <2> QED BY <1>3, <2>1, RowsKept, ElsewhereMoves DEF ForeignEntry, dbVars
<1>4. CASE UNCHANGED vars
  BY <1>4, StreamKept, RowsKept, ElsewhereMoves DEF vars, dbVars, queueVars
<1> QED BY <1>1, <1>2, <1>3, <1>4 DEF Next

-----------------------------------------------------------------------------
(* What becomes of an entry, at a tick and otherwise.                      *)

\* An entry keeps its payload, and is never undelivered again.
LEMMA EntryAfter ==
    ASSUME StreamMoves, NEW m \in Ids
    PROVE  /\ m \in Ids'
           /\ stream'[m].payload = stream[m].payload
           /\ stream[m].state # "new" => stream'[m].state # "new"
BY DEF StreamMoves, EntryMoves, Kept, Delivered, AckedBy

\* A tick makes pending entries older.
LEMMA EntryTick ==
    ASSUME Inv, Tick, NEW m \in Ids
    PROVE  /\ m \in Ids'
           /\ stream'[m].payload = stream[m].payload
           /\ stream'[m].state = stream[m].state
           /\ stream[m].idle \in 0 .. MinIdle
           /\ stream'[m].idle = IF stream[m].state = "pending" /\ stream[m].idle < MinIdle
                                THEN stream[m].idle + 1 ELSE stream[m].idle
<1>1. /\ QueueTypeOK /\ stream[m] \in Entry
      /\ stream' = [i \in Ids |-> IF stream[i].state = "pending" /\ stream[i].idle < MinIdle
                                  THEN [stream[i] EXCEPT !.idle = @ + 1] ELSE stream[i]]
  BY EntryAt DEF Inv, Tick, QueueTick
<1>2. Inv'
  BY TickStep
<1>3. DOMAIN stream' = Ids /\ DOMAIN stream' = 1 .. Len(stream')
  BY <1>1, <1>2 DEF Inv, QueueTypeOK
<1> QED BY <1>1, <1>3 DEF Entry, Ids

\* A tick finds every slot idle, stopped or extracting, and ages the latter.
LEMMA SlotTick ==
    ASSUME PromptClaims, Inv, Tick, NEW s \in Slots
    PROVE  /\ slot[s].pc \in {"idle", "stopped", "work"}
           /\ slot'[s].pc = slot[s].pc
           /\ slot'[s].msg = slot[s].msg
           /\ slot'[s].job = slot[s].job
           /\ At(s, "work") => slot'[s].age = slot[s].age + 1 /\ slot[s].age < MaxWork
<1>1. slot[s] \in SlotState
  BY SlotFacts DEF Inv
<1>2. slot'[s] = IF At(s, "work") THEN [slot[s] EXCEPT !.age = @ + 1] ELSE slot[s]
  BY DEF Tick
<1> QED BY <1>1, <1>2 DEF Tick, PromptClaims, RestPcs, SlotState, At

\* A tick leaves the status of every row.
LEMMA RowTick ==
    ASSUME Inv, Tick, NEW j \in Jobs
    PROVE  /\ job'[j].status = job[j].status
           /\ job[j].status = "processing" =>
                /\ job[j].started_at \in 0 .. StaleAfter + 1
                /\ job'[j].started_at = IF job[j].started_at > StaleAfter
                                        THEN job[j].started_at ELSE job[j].started_at + 1
<1>1. job[j] \in ProcessingJob /\ (job[j].status = "processing" => job[j].started_at # Null)
  BY DEF Inv, TablesInv, DbTypeOK, ProcessingHasStart
<1>2. job'[j] = IF job[j].status = "processing" /\ job[j].started_at \in 0 .. StaleAfter
                THEN [job[j] EXCEPT !.started_at = @ + 1] ELSE job[j]
  BY DEF Tick, DbTick
<1> QED BY <1>1, <1>2 DEF ProcessingJob, Null

\* Where a slot's entry and its task come from.
LEMMA SlotAfter ==
    ASSUME SlotsMove, NEW s \in Slots
    PROVE  Stays(s) \/ LetsGo(s) \/ Takes(s) \/ Peeks(s) \/ Advances(s)
BY DEF SlotsMove, OnlySlot

\* Entries is kept by every step.
LEMMA EntriesKept ==
    ASSUME PromptClaims, Inv, Inv', Entries, Tick \/ Moves
    PROVE  Entries'
<1> SUFFICES ASSUME NEW s \in Slots PROVE EntryOf(slot'[s], stream'[slot'[s].msg])
  BY DEF Entries
<1>0. EntryOf(slot[s], stream[slot[s].msg])
  BY DEF Entries
<1>1. slot[s].pc \notin {"idle", "stopped"} => slot[s].msg \in Ids
  BY SlotFacts DEF Inv
<1>2. CASE Tick
  <2>1. slot'[s].pc = slot[s].pc /\ slot'[s].msg = slot[s].msg /\ slot'[s].job = slot[s].job
    BY <1>2, SlotTick
  <2>2. slot[s].pc \notin {"idle", "stopped"} =>
          /\ stream'[slot[s].msg].payload = stream[slot[s].msg].payload
          /\ stream'[slot[s].msg].state = stream[slot[s].msg].state
    BY <1>1, <1>2, EntryTick
  <2> QED BY <1>0, <2>1, <2>2 DEF EntryOf, HandlingPcs, ClaimedPcs
<1>3. CASE Moves
  <2>0. StreamMoves /\ SlotsMove
    BY <1>3 DEF Moves
  <2>1. slot[s].pc \notin {"idle", "stopped"} =>
          /\ stream'[slot[s].msg].payload = stream[slot[s].msg].payload
          /\ stream[slot[s].msg].state # "new" => stream'[slot[s].msg].state # "new"
    BY <1>1, <2>0, EntryAfter
  <2>2. CASE Stays(s)
    BY <1>0, <2>1, <2>2 DEF Stays, EntryOf, HandlingPcs, ClaimedPcs
  <2>3. CASE LetsGo(s)
    BY <2>3 DEF LetsGo, EntryOf, HandlingPcs, ClaimedPcs
  <2>4. CASE Takes(s)
    BY <2>4 DEF Takes, Delivered, EntryOf, HandlingPcs, ClaimedPcs
  <2>5. CASE Peeks(s)
    BY <2>0, <2>5, EntryAfter DEF Peeks, EntryOf, HandlingPcs, ClaimedPcs
  <2>6. CASE Advances(s)
    BY <1>0, <2>1, <2>6 DEF Advances, EntryOf, HandlingPcs, ClaimedPcs
  <2> QED BY <2>0, <2>2, <2>3, <2>4, <2>5, <2>6, SlotAfter
<1> QED BY <1>2, <1>3

\* What a timely sweep redelivers.
LEMMA SweptInTime ==
    ASSUME TimelySweep, NEW m, Reclaimed(m)
    PROVE  /\ ~ Handled(m)
           /\ \A j \in Jobs : stream[m].payload = j /\ job[j].status = "processing" =>
                 job[j].started_at \notin MinIdle .. StaleAfter
BY DEF TimelySweep, Reclaimed

\* An entry somebody handles is not delivered to anybody else.
LEMMA HandledIsBusy ==
    ASSUME TimelySweep, Inv, Owned, NEW s \in Slots, slot[s].pc \in HandlingPcs
    PROVE  /\ slot[s].msg \in Ids
           /\ stream[slot[s].msg].state = "pending" /\ stream[slot[s].msg].idle <= slot[s].age
           /\ stream[slot[s].msg].idle \in 0 .. MinIdle
           /\ ~ Delivered(slot[s].msg)
<1>1. slot[s].msg \in Ids
  BY SlotFacts DEF Inv, HandlingPcs, ClaimedPcs
<1>2. stream[slot[s].msg].state = "pending" /\ stream[slot[s].msg].idle <= slot[s].age
  BY DEF Owned, PendingWith
<1>3. stream[slot[s].msg].idle \in 0 .. MinIdle
  BY <1>1, EntryAt DEF Inv, Entry
<1>4. ~ Reclaimed(slot[s].msg)
  BY SweptInTime DEF Handled
<1> QED BY <1>1, <1>2, <1>3, <1>4 DEF Delivered

\* Owned is kept by every step.
LEMMA OwnedKept ==
    ASSUME PromptClaims, TimelySweep, Inv, Owned, Tick \/ Moves
    PROVE  Owned'
<1>1. CASE Tick
  <2>1. ASSUME NEW s \in Slots PROVE PendingWith(slot'[s], stream'[slot'[s].msg])
    <3>1. /\ slot'[s].pc = slot[s].pc /\ slot'[s].msg = slot[s].msg
          /\ slot[s].pc \in {"idle", "stopped", "work"}
      BY <1>1, SlotTick
    <3>2. CASE At(s, "work")
      <4>1. /\ slot[s].pc \in HandlingPcs
            /\ slot'[s].age = slot[s].age + 1 /\ slot[s].age < MaxWork
            /\ slot[s].age \in 0 .. MaxWork
        BY <1>1, <3>2, SlotTick, SlotFacts DEF At, HandlingPcs, ClaimedPcs, Inv, SlotState
      <4>2. /\ slot[s].msg \in Ids /\ stream[slot[s].msg].state = "pending"
            /\ stream[slot[s].msg].idle <= slot[s].age
            /\ stream[slot[s].msg].idle \in 0 .. MinIdle
        BY <4>1, HandledIsBusy
      <4>3. /\ stream'[slot[s].msg].state = "pending"
            /\ stream'[slot[s].msg].idle <= stream[slot[s].msg].idle + 1
            /\ stream'[slot[s].msg].idle \in Nat
        BY <1>1, <4>2, EntryTick
      <4>4. stream'[slot[s].msg].idle <= slot'[s].age
        BY <4>1, <4>2, <4>3
      <4> QED BY <3>1, <4>3, <4>4 DEF PendingWith
    <3>3. CASE ~ At(s, "work")
      BY <3>1, <3>3 DEF At, PendingWith, HandlingPcs, ClaimedPcs
    <3> QED BY <3>2, <3>3
  <2>2. Alone'
    BY <1>1, SlotTick DEF Owned, Alone
  <2> QED BY <2>1, <2>2 DEF Owned
<1>2. CASE Moves
  <2>0. StreamMoves /\ SlotsMove
    BY <1>2 DEF Moves
  <2>1. ASSUME NEW s \in Slots, slot'[s].pc \in HandlingPcs
        PROVE  \/ Takes(s)
               \/ /\ slot[s].pc \in HandlingPcs
                  /\ slot'[s].msg = slot[s].msg /\ slot'[s].age = slot[s].age
    BY <2>0, <2>1, SlotAfter DEF Stays, LetsGo, Peeks, Advances, HandlingPcs, ClaimedPcs
  <2>2. ASSUME NEW s \in Slots PROVE PendingWith(slot'[s], stream'[slot'[s].msg])
    <3> SUFFICES ASSUME slot'[s].pc \in HandlingPcs
                 PROVE  stream'[slot'[s].msg].state = "pending" /\ stream'[slot'[s].msg].idle <= slot'[s].age
      BY DEF PendingWith
    <3>1. CASE Takes(s)
      BY <3>1 DEF Takes, Delivered
    <3>2. CASE /\ slot[s].pc \in HandlingPcs
               /\ slot'[s].msg = slot[s].msg /\ slot'[s].age = slot[s].age
      <4>1. /\ slot[s].msg \in Ids /\ stream[slot[s].msg].state = "pending"
            /\ stream[slot[s].msg].idle <= slot[s].age
            /\ ~ Delivered(slot[s].msg)
        BY <3>2, HandledIsBusy
      <4>2. ASSUME NEW t \in Slots, AckedBy(t, slot[s].msg) PROVE FALSE
        <5>1. t = s
          BY <3>2, <4>2 DEF AckedBy, Owned, Alone, HandlingPcs
        <5> QED BY <4>2, <5>1 DEF AckedBy, LetsGo, HandlingPcs, ClaimedPcs
      <4>3. Kept(slot[s].msg)
        BY <2>0, <4>1, <4>2 DEF StreamMoves, EntryMoves
      <4> QED BY <3>2, <4>1, <4>3 DEF Kept
    <3> QED BY <2>1, <3>1, <3>2
  <2>3. ASSUME NEW s \in Slots, NEW t \in Slots, s # t, Stays(t),
               slot'[s].pc \in HandlingPcs, slot'[t].pc \in HandlingPcs,
               slot'[s].msg = slot'[t].msg
        PROVE  FALSE
    <3>1. slot[t].pc \in HandlingPcs /\ slot'[t].msg = slot[t].msg
      BY <2>3 DEF Stays
    <3>2. ~ Takes(s)
      BY <2>3, <3>1, HandledIsBusy DEF Takes
    <3> QED BY <2>1, <2>3, <3>1, <3>2 DEF Owned, Alone
  <2>4. ASSUME NEW s \in Slots, NEW t \in Slots, s # t,
               slot'[s].pc \in HandlingPcs, slot'[t].pc \in HandlingPcs
        PROVE  Stays(s) \/ Stays(t)
    BY <2>0, <2>4 DEF SlotsMove, OnlySlot, LetsGo, HandlingPcs, ClaimedPcs
  <2>5. Alone'
    BY <2>3, <2>4 DEF Alone
  <2> QED BY <2>2, <2>5 DEF Owned
<1> QED BY <1>1, <1>2

\* An entry stops carrying its job only when its slot settles the job.
LEMMA LiveStays ==
    ASSUME Inv, Entries, Moves, NEW j \in Jobs, NEW m, Live(m, j)
    PROVE  \/ Live(m, j)'
           \/ \E s \in Slots : slot[s].msg = m /\ Settles(s, j)
<1>0. StreamMoves /\ SlotsMove /\ m \in Ids
  BY DEF Moves, Live
<1>1. m \in Ids' /\ stream'[m].payload = j
  BY <1>0, EntryAfter DEF Live
<1>2. ASSUME NEW s \in Slots, AckedBy(s, m) PROVE FALSE
  <2>1. slot[s].pc = "drop" /\ slot[s].msg = m
    BY <1>2 DEF AckedBy, Live, At
  <2>2. stream[m].payload = Malformed
    BY <2>1 DEF Entries, EntryOf
  <2> QED BY <2>2 DEF Live
<1>3. stream'[m].state # "acked"
  BY <1>0, <1>2 DEF StreamMoves, EntryMoves, Kept, Delivered, Live
<1>4. ASSUME NEW s \in Slots, slot'[s].pc = "ack", slot'[s].msg = m
      PROVE  slot[s].msg = m /\ Settles(s, j)
  <2>1. ~ Stays(s) /\ ~ LetsGo(s) /\ ~ Takes(s) /\ ~ Peeks(s)
    BY <1>4 DEF Stays, LetsGo, Takes, Peeks, Live, At
  <2>2. Advances(s)
    BY <1>0, <2>1, SlotAfter
  <2>3. slot[s].msg = m /\ Settles(s, slot[s].job) /\ slot[s].pc \in ClaimedPcs \cup {"claim"}
    BY <1>4, <2>2 DEF Advances
  <2>4. slot[s].job = j
    BY <2>3 DEF Entries, EntryOf, Live
  <2> QED BY <2>3, <2>4
<1> QED BY <1>1, <1>3, <1>4 DEF Live, At

\* Nor does a tick.
LEMMA LiveTick ==
    ASSUME PromptClaims, Inv, Tick, NEW j, NEW m, Live(m, j)
    PROVE  Live(m, j)'
<1>1. m \in Ids' /\ stream'[m].payload = j /\ stream'[m].state # "acked"
  BY EntryTick DEF Live
<1>2. \A s \in Slots : slot'[s].pc # "ack"
  BY SlotTick
<1> QED BY <1>1, <1>2 DEF Live, At

\* An entry just published carries its job.
LEMMA LivePublished ==
    ASSUME Inv, NEW j, publish(j), UNCHANGED slot
    PROVE  HasLive(j)'
<1>0. PICK m : m = Len(stream) + 1
  OBVIOUS
<1>1. m \in Ids' /\ stream'[m].payload = j /\ stream'[m].state = "new"
  BY <1>0, StreamPublished DEF Inv
<1>2. \A s \in Slots : At(s, "ack") => slot[s].msg \in Ids
  BY SlotFacts DEF Inv, At
<1>3. m \notin Ids
  <2>1. Len(stream) \in Nat
    BY DEF Inv, QueueTypeOK
  <2> QED BY <1>0, <2>1 DEF Ids
<1>4. Live(m, j)'
  BY <1>1, <1>2, <1>3 DEF Live, At
<1> QED BY <1>1, <1>4 DEF HasLive

-----------------------------------------------------------------------------
(* Queued jobs.                                                            *)

\* A request of a reliable API that is to publish does so, or waits.
LEMMA PublishGoesOn ==
    ASSUME ReliableApi, Inv, QuietApi, [Next]_vars,
           NEW r \in Requests, request[r].pc = "publish", NEW j, request[r].job = j
    PROVE  request'[r] = request[r] \/ HasLive(j)'
<1>1. CASE ApiNext /\ UNCHANGED <<worker, slot, due>>
  <2>1. ASSUME NEW q \in Requests, RequestStep(q) \/ RequestRaises(q), q = r
        PROVE  HasLive(j)'
    <3>1. publish_job(r)
      BY <2>1, NoApiRaise
      DEF RequestStep, RequestProgress, RequestRaises, Upload, LoadForRetry, Reset, FailUnqueued,
          UploadRaises, ResetRaises, PublishRaises, FailUnqueuedRaises
    <3> QED BY <1>1, <3>1, LivePublished DEF publish_job
  <2>2. ASSUME NEW q \in Requests, RequestStep(q) \/ RequestRaises(q), q # r
        PROVE  request'[r] = request[r]
    <3>1. request \in [Requests -> RequestState]
      BY DEF Inv, RequestsInv, ApiTypeOK
    <3> QED BY <2>2, <3>1
      DEF RequestStep, RequestProgress, RequestRaises, Upload, LoadForRetry, Reset, FailUnqueued,
          UploadRaises, ResetRaises, PublishRaises, FailUnqueuedRaises, publish_job, Respond, Goto
  <2>3. CASE ApiCrash
    BY <2>3, NoApiRaise DEF ApiCrash
  <2> QED BY <1>1, <2>1, <2>2, <2>3 DEF ApiNext
<1>2. CASE WorkerNext /\ UNCHANGED request
  BY <1>2
<1>3. CASE ForeignEntry \/ Tick \/ UNCHANGED vars
  BY <1>3 DEF ForeignEntry, Tick, vars
<1> QED BY <1>1, <1>2, <1>3 DEF Next

\* QueuedLive is kept by every step.
LEMMA QueuedKept ==
    ASSUME PromptClaims, ReliableApi, Inv, Entries, QuietApi, QueuedLive,
           [Next]_vars, Tick \/ Moves
    PROVE  QueuedLive'
<1> SUFFICES ASSUME NEW j \in Jobs, job'[j].status = "queued"
             PROVE  Publishing(j)' \/ HasLive(j)'
  BY DEF QueuedLive
<1>1. ASSUME Publishing(j) PROVE Publishing(j)' \/ HasLive(j)'
  <2>1. PICK r \in Requests : request[r].pc = "publish" /\ request[r].job = j
    BY <1>1 DEF Publishing
  <2>2. request'[r] = request[r] \/ HasLive(j)'
    BY <2>1, PublishGoesOn
  <2> QED BY <2>1, <2>2 DEF Publishing
<1>2. CASE Tick
  <2>1. job[j].status = "queued"
    BY <1>2, RowTick
  <2>2. ASSUME NEW m, Live(m, j) PROVE HasLive(j)'
    <3>1. Live(m, j)'
      BY <1>2, <2>2, LiveTick
    <3> QED BY <3>1 DEF HasLive, Live
  <2> QED BY <1>1, <2>1, <2>2 DEF QueuedLive, HasLive
<1>3. CASE Moves
  <2>1. CASE job'[j] = job[j]
    <3>1. job[j].status = "queued" /\ IsClaimable(job[j])
      BY <2>1 DEF IsClaimable, CLAIMABLE_STATUSES
    <3>2. \A s \in Slots : ~ Settles(s, j)
      BY <2>1, <3>1 DEF Settles
    <3>3. ASSUME NEW m, Live(m, j) PROVE HasLive(j)'
      <4>1. Live(m, j)'
        BY <1>3, <3>2, <3>3, LiveStays
      <4> QED BY <4>1 DEF HasLive, Live
    <3> QED BY <1>1, <3>1, <3>3 DEF QueuedLive, HasLive
  <2>2. CASE job'[j] # job[j]
    <3>1. RowMoves(j)
      BY <1>3 DEF Moves, RowsMove
    <3> QED BY <2>2, <3>1 DEF RowMoves, ClaimedBy, RetriedBy
  <2> QED BY <2>1, <2>2
<1> QED BY <1>2, <1>3

-----------------------------------------------------------------------------
(* Jobs being processed.                                                   *)

\* ProcessingRecovers is kept by every step.
LEMMA ProcessingKept ==
    ASSUME PromptClaims, TimelySweep, Inv, Sound, Entries, Owned, ProcessingRecovers,
           Tick \/ Moves
    PROVE  ProcessingRecovers'
<1> SUFFICES ASSUME NEW j \in Jobs, job'[j].status = "processing"
             PROVE  \E m \in Ids' : Recovers(m, j)'
  BY DEF ProcessingRecovers
<1>1. CASE Tick
  <2>1. /\ job[j].status = "processing" /\ job[j].started_at \in 0 .. StaleAfter + 1
        /\ job'[j].started_at = IF job[j].started_at > StaleAfter
                                THEN job[j].started_at ELSE job[j].started_at + 1
    BY <1>1, RowTick
  <2>2. PICK m \in Ids : Recovers(m, j)
    BY <2>1 DEF ProcessingRecovers
  <2>3. Live(m, j)'
    BY <1>1, <2>2, LiveTick DEF Recovers
  <2>4. /\ stream'[m].state = "pending" /\ stream[m].idle \in 0 .. MinIdle
        /\ stream'[m].idle <= stream[m].idle + 1
    BY <1>1, <2>2, EntryTick DEF Recovers
  <2>5. \A s \in Slots : slot'[s].pc # "claim"
    BY <1>1, SlotTick
  <2>6. job'[j].started_at > StaleAfter \/ stream'[m].idle <= job'[j].started_at
    <3>1. job[j].started_at > StaleAfter \/ stream[m].idle <= job[j].started_at
      BY <2>2 DEF Recovers
    <3>2. stream'[m].idle \in Nat
      BY <1>1, <2>4, EntryTick
    <3> QED BY <2>1, <2>4, <3>1, <3>2
  <2>7. Recovers(m, j)'
    BY <2>3, <2>4, <2>5, <2>6 DEF Recovers, At
  <2> QED BY <2>3, <2>7 DEF Live
<1>2. CASE Moves
  <2>0. StreamMoves /\ SlotsMove /\ RowMoves(j)
    BY <1>2 DEF Moves, RowsMove
  <2>1. CASE job'[j] = job[j]
    <3>1. /\ job[j].status = "processing"
          /\ job[j].started_at \in 0 .. StaleAfter + 1 /\ job[j].started_at # Null
      BY <2>1 DEF Inv, TablesInv, DbTypeOK, ProcessingHasStart, ProcessingJob, Null
    <3>2. PICK m \in Ids : Recovers(m, j)
      BY <3>1 DEF ProcessingRecovers
    <3>3. Live(m, j)'
      <4>1. ASSUME NEW s \in Slots, slot[s].msg = m, Settles(s, j) PROVE FALSE
        <5>1. At(s, "claim") /\ ~ IsClaimable(job[j])
          BY <2>1, <3>1, <4>1 DEF Settles
        <5> QED BY <3>1, <3>2, <4>1, <5>1 DEF Recovers, IsClaimable
      <4> QED BY <1>2, <3>2, <4>1, LiveStays DEF Recovers
    <3>4. CASE Delivered(m)
      <4>0. Reclaimed(m) /\ stream[m].payload = j
        BY <3>2, <3>4 DEF Recovers, Live, Delivered
      <4>1. stream[m].idle >= MinIdle /\ stream[m].idle \in 0 .. MinIdle
        BY <3>2, <4>0, EntryAt DEF Reclaimed, IsIdle, Inv, Entry
      <4>2. job[j].started_at > StaleAfter
        <5>1. job[j].started_at \notin MinIdle .. StaleAfter
          BY <3>1, <4>0, SweptInTime
        <5> QED BY <3>1, <3>2, <4>1, <5>1 DEF Recovers
      <4>3. Recovers(m, j)'
        BY <2>1, <3>3, <3>4, <4>2 DEF Recovers, Delivered
      <4> QED BY <3>3, <4>3 DEF Live
    <3>5. CASE ~ Delivered(m)
      <4>1. Kept(m)
        <5>1. \A s \in Slots : ~ AckedBy(s, m)
          BY <3>3 DEF Live, AckedBy
        <5> QED BY <2>0, <3>2, <3>5, <5>1 DEF StreamMoves, EntryMoves
      <4>2. ASSUME NEW s \in Slots, slot'[s].pc = "claim", slot'[s].msg = m
            PROVE  At(s, "claim") /\ slot[s].msg = m
        <5>1. ~ LetsGo(s) /\ ~ Takes(s) /\ ~ Peeks(s) /\ ~ Advances(s)
          BY <3>5, <4>2 DEF LetsGo, Takes, Peeks, Advances, ClaimedPcs
        <5> QED BY <2>0, <4>2, <5>1, SlotAfter DEF Stays, At
      <4>3. Recovers(m, j)'
        BY <2>1, <3>2, <3>3, <4>1, <4>2 DEF Recovers, Kept, At
      <4> QED BY <3>3, <4>3 DEF Live
    <3> QED BY <3>4, <3>5
  <2>2. CASE job'[j] # job[j]
    <3>1. PICK s \in Slots : ClaimedBy(s, j)
      BY <2>0, <2>2 DEF RowMoves, RetriedBy
    <3>2. PICK m \in Ids : m = slot[s].msg
      BY <3>1, SlotFacts DEF ClaimedBy, At, Inv
    <3>3. slot[s].pc \in HandlingPcs /\ slot[s].pc = "claim"
      BY <3>1 DEF ClaimedBy, At, HandlingPcs
    <3>4. stream[m].payload = j
      BY <3>1, <3>2, <3>3 DEF ClaimedBy, Entries, EntryOf
    <3>5. stream[m].state = "pending" /\ stream[m].idle = 0
      <4>1. slot[s].age = 0
        BY <3>3 DEF Sound, SlotSound
      <4> QED BY <3>2, <3>3, <4>1, HandledIsBusy
    <3>6. stream' = stream /\ job'[j].started_at = 0 /\ slot'[s].pc \notin {"ack", "claim"}
      BY <3>1 DEF ClaimedBy, queueVars
    <3>7. ASSUME NEW t \in Slots, slot'[t].pc \in {"ack", "claim"} PROVE slot'[t].msg # m
      <4>1. t # s /\ slot'[t] = slot[t]
        BY <3>1, <3>6, <3>7 DEF ClaimedBy, OnlySlot, Stays
      <4> QED BY <3>2, <3>3, <3>7, <4>1 DEF Owned, Alone, HandlingPcs
    <3>8. Live(m, j)'
      BY <3>4, <3>5, <3>6, <3>7 DEF Live, Ids, At
    <3>9. Recovers(m, j)'
      BY <3>5, <3>6, <3>7, <3>8 DEF Recovers, At
    <3> QED BY <3>8, <3>9 DEF Live
  <2> QED BY <2>1, <2>2
<1> QED BY <1>1, <1>2

\* ProcessingAttempted is kept by every step of lossless workers.
LEMMA AttemptedKept ==
    ASSUME PromptClaims, LosslessWorkers, Inv, ProcessingAttempted, Tick \/ Moves
    PROVE  ProcessingAttempted'
<1> SUFFICES ASSUME NEW j \in Jobs, job'[j].status = "processing"
             PROVE  \E s \in Slots : slot'[s].pc \in ClaimedPcs /\ slot'[s].job = j
  BY DEF ProcessingAttempted, Attempted, Holds
<1>1. CASE Tick
  <2>1. job[j].status = "processing"
    BY <1>1, RowTick
  <2>2. PICK s \in Slots : slot[s].pc \in ClaimedPcs /\ slot[s].job = j
    BY <2>1 DEF ProcessingAttempted, Attempted, Holds
  <2> QED BY <1>1, <2>2, SlotTick
<1>2. CASE Moves
  <2>0. SlotsMove /\ RowMoves(j)
    BY <1>2 DEF Moves, RowsMove
  <2>1. CASE job'[j] = job[j]
    <3>1. PICK s \in Slots : slot[s].pc \in ClaimedPcs /\ slot[s].job = j
      BY <2>1 DEF ProcessingAttempted, Attempted, Holds
    <3>2. ~ LetsGo(s)
      BY <1>2, <3>1 DEF Moves, HoldsOn
    <3>3. ~ Takes(s) /\ ~ Peeks(s)
      BY <3>1 DEF Takes, Peeks, ClaimedPcs
    <3>4. CASE Stays(s)
      BY <3>1, <3>4 DEF Stays
    <3>5. CASE Advances(s)
      <4>1. slot'[s].pc # "ack"
        BY <3>1, <3>5 DEF Advances, Settles, At, ClaimedPcs
      <4> QED BY <3>1, <3>5, <4>1 DEF Advances
    <3> QED BY <2>0, <3>2, <3>3, <3>4, <3>5, SlotAfter
  <2>2. CASE job'[j] # job[j]
    <3>1. PICK s \in Slots : ClaimedBy(s, j)
      BY <2>0, <2>2 DEF RowMoves, RetriedBy
    <3> QED BY <3>1 DEF ClaimedBy, ClaimedPcs
  <2> QED BY <2>1, <2>2
<1> QED BY <1>1, <1>2

-----------------------------------------------------------------------------
(* Jobs to be retried.                                                     *)

\* What a step does to the retry set and to what schedulers have popped.
RetriesKept == /\ \A k \in Jobs \X (0 .. MaxDelay) : retries'[k] >= retries[k]
               /\ UNCHANGED due

Popped(w) == /\ \A k \in Jobs \X (0 .. MaxDelay) : k[2] # 0 => retries'[k] = retries[k]
             /\ due[w] = NoneDue
             /\ due' = [due EXCEPT ![w] = [j \in Jobs |-> retries[<<j, 0>>]]]

Republished(w, j) == /\ UNCHANGED <<retries, slot>> /\ publish(j)
                     /\ due' = [due EXCEPT ![w][j] = @ - 1]

\* Nothing happens to the retries, or one is added.
LEMMA RetriesLeft ==
    ASSUME QueueTypeOK, UNCHANGED due,
           \/ UNCHANGED retries
           \/ \E j \in Jobs, d \in 0 .. MaxDelay : schedule_retry(j, d)
    PROVE  RetriesKept
<1>1. \A k \in Jobs \X (0 .. MaxDelay) : retries[k] \in Nat
  BY DEF QueueTypeOK
<1>2. CASE UNCHANGED retries
  BY <1>1, <1>2 DEF RetriesKept
<1>3. ASSUME NEW j \in Jobs, NEW d \in 0 .. MaxDelay, schedule_retry(j, d)
      PROVE  RetriesKept
  <2>1. retries' = [retries EXCEPT ![<<j, d>>] = retries[<<j, d>>] + 1]
    BY <1>3 DEF schedule_retry
  <2>2. ASSUME NEW k \in Jobs \X (0 .. MaxDelay)
        PROVE  retries'[k] = IF k = <<j, d>> THEN retries[k] + 1 ELSE retries[k]
    BY <2>1 DEF QueueTypeOK
  <2> QED BY <1>1, <2>2 DEF RetriesKept
<1> QED BY <1>2, <1>3

\* Every step but a tick, with lossless workers.
LEMMA RetriesMove ==
    ASSUME LosslessWorkers, Inv, [Next]_vars
    PROVE  \/ Tick
           \/ RetriesKept
           \/ \E w \in Workers : Popped(w)
           \/ \E w \in Workers, j \in Jobs : Republished(w, j)
<1>0. QueueTypeOK /\ due \in [Workers -> [Jobs -> Nat]]
  BY DEF Inv, WorkersInv, WorkerTypeOK
<1>1. CASE ApiNext /\ UNCHANGED <<worker, slot, due>>
  <2>1. UNCHANGED retries
    BY <1>1
    DEF ApiNext, ApiCrash, RequestStep, RequestProgress, RequestRaises, Upload, LoadForRetry, Reset,
        FailUnqueued, UploadRaises, ResetRaises, PublishRaises, FailUnqueuedRaises, publish_job,
        publish, queueVars
  <2> QED BY <1>0, <1>1, <2>1, RetriesLeft
<1>2. ASSUME NEW s \in Slots, SlotStep(s) PROVE RetriesKept
  <2>1. CASE Schedule(s)
    <3>1. slot[s].job \in Jobs
      BY <2>1, SlotFacts DEF Inv, Schedule, At, ClaimedPcs
    <3>2. \E d \in 0 .. MaxDelay : schedule_retry(slot[s].job, d)
      BY <2>1, DelayBounded DEF Schedule
    <3> QED BY <1>0, <2>1, <3>1, <3>2, RetriesLeft DEF Schedule
  <2>2. CASE ~ Schedule(s)
    <3>1. ~ PoisonCrash(s)
      BY DEF LosslessWorkers, PoisonCrash
    <3>2. UNCHANGED retries /\ UNCHANGED due
      BY <1>2, <2>2, <3>1
      DEF SlotStep, Read, Sweep, ClaimStale, Drop, Claim, Skip, Load, WorkFails, Persist,
          PersistRefused, Refresh, Mark, MarkRefused, Ack, StopTask, Deliver, XClaim, ack, queueVars
    <3> QED BY <1>0, <3>2, RetriesLeft
  <2> QED BY <2>1, <2>2
<1>3. ASSUME NEW s \in Slots, SlotRaises(s) PROVE FALSE
  BY <1>3, NoRaise
  DEF SlotRaises, ReadRaises, ClaimStaleRaises, DropRaises, PersistRaises, ScheduleRaises,
      CallRaises, AckRaises
<1>4. ASSUME NEW w \in Workers, PopDue(w) PROVE Popped(w)
  <2>1. /\ retries' = [k \in Jobs \X (0 .. MaxDelay) |-> IF k[2] = 0 THEN 0 ELSE retries[k]]
        /\ due[w] = NoneDue
        /\ due' = [due EXCEPT ![w] = [j \in Jobs |-> retries[<<j, 0>>]]]
    BY <1>4 DEF PopDue, pop_due_retries, DueRetries
  <2> QED BY <2>1 DEF Popped
<1>5. ASSUME NEW w \in Workers, NEW j \in Jobs, Republish(w, j) PROVE Republished(w, j)
  BY <1>5 DEF Republish, Republished, publish
<1>6. ASSUME NEW w \in Workers, SchedulerRaises(w) \/ Crash(w) PROVE FALSE
  BY <1>6, NoRaise DEF SchedulerRaises, PopDueRaises, RepublishRaises, Crash
<1>7. ASSUME NEW w \in Workers, ProcessStep(w) \/ Sigterm(w) PROVE RetriesKept
  <2>1. UNCHANGED retries
    BY <1>7 DEF ProcessStep, Exit, Restart, Sigterm, queueVars
  <2>2. CASE Exit(w)
    <3>1. due' = [due EXCEPT ![w] = due[w]]
      BY <2>2 DEF Exit, Die
    <3> QED BY <1>0, <2>1, <3>1, RetriesLeft
  <2>3. CASE Restart(w) \/ Sigterm(w)
    BY <1>0, <2>1, <2>3, RetriesLeft DEF Restart, Sigterm
  <2> QED BY <1>7, <2>2, <2>3 DEF ProcessStep
<1>8. CASE WorkerNext
  BY <1>2, <1>3, <1>4, <1>5, <1>6, <1>7, <1>8 DEF WorkerNext, SchedulerStep
<1>9. CASE ForeignEntry \/ UNCHANGED vars
  BY <1>0, <1>9, RetriesLeft DEF ForeignEntry, vars, publish, queueVars
<1> QED BY <1>1, <1>8, <1>9 DEF Next

\* A tick brings every retry one tick closer.
LEMMA ScheduledTick ==
    ASSUME Inv, Tick, NEW j \in Jobs, Scheduled(j)
    PROVE  Scheduled(j)'
<1>0. \A k \in Jobs \X (0 .. MaxDelay) : retries[k] \in Nat
  BY DEF Inv, QueueTypeOK
<1>1. ASSUME NEW d \in 0 .. MaxDelay, retries[<<j, d>>] > 0 PROVE Scheduled(j)'
  <2>1. CASE d = 0
    <3>1. <<j, 0>> \in Jobs \X (0 .. MaxDelay) /\ retries[<<j, 0>>] \in Nat
      BY <1>0
    <3>2. retries'[<<j, 0>>] = retries[<<j, 0>>] + (IF 0 < MaxDelay THEN retries[<<j, 0 + 1>>] ELSE 0)
      BY <3>1 DEF Tick, QueueTick
    <3>3. 0 < MaxDelay => retries[<<j, 0 + 1>>] \in Nat
      BY <1>0
    <3>4. retries'[<<j, 0>>] > 0
      BY <1>1, <2>1, <3>1, <3>2, <3>3
    <3> QED BY <3>4 DEF Scheduled
  <2>2. CASE d # 0
    <3>1. PICK e \in 0 .. MaxDelay : e + 1 = d /\ e < MaxDelay
      <4>1. d - 1 \in 0 .. MaxDelay /\ (d - 1) + 1 = d /\ d - 1 < MaxDelay
        BY <2>2
      <4> QED BY <4>1
    <3>2. retries'[<<j, e>>] = (IF e = 0 THEN retries[<<j, e>>] ELSE 0) + retries[<<j, e + 1>>]
      BY <3>1 DEF Tick, QueueTick
    <3>3. retries[<<j, e>>] \in Nat /\ retries[<<j, d>>] \in Nat
      BY <1>0
    <3>4. retries'[<<j, e>>] > 0
      BY <1>1, <3>1, <3>2, <3>3
    <3> QED BY <3>4 DEF Scheduled
  <2> QED BY <2>1, <2>2
<1>2. ASSUME NEW w \in Workers, due[w][j] > 0 PROVE Scheduled(j)'
  BY <1>2 DEF Tick, Scheduled
<1> QED BY <1>1, <1>2 DEF Scheduled

\* A retry stays scheduled, is popped, or is published.
LEMMA ScheduledGoesOn ==
    ASSUME LosslessWorkers, Inv, [Next]_vars, NEW j \in Jobs, Scheduled(j)
    PROVE  Scheduled(j)' \/ HasLive(j)'
<1>0. /\ due \in [Workers -> [Jobs -> Nat]]
      /\ \A d \in 0 .. MaxDelay : <<j, d>> \in Jobs \X (0 .. MaxDelay) /\ retries[<<j, d>>] \in Nat
  BY DEF Inv, QueueTypeOK, WorkersInv, WorkerTypeOK
<1>1. CASE Tick
  BY <1>1, ScheduledTick
<1>2. CASE RetriesKept
  <2>1. ASSUME NEW d \in 0 .. MaxDelay, retries[<<j, d>>] > 0 PROVE retries'[<<j, d>>] > 0
    <3>1. retries'[<<j, d>>] \in Nat /\ retries'[<<j, d>>] >= retries[<<j, d>>]
      <4>1. Inv'
        BY NextInv
      <4> QED BY <1>0, <1>2, <4>1 DEF RetriesKept, Inv, QueueTypeOK
    <3> QED BY <1>0, <2>1, <3>1
  <2> QED BY <1>2, <2>1 DEF RetriesKept, Scheduled
<1>3. ASSUME NEW w \in Workers, Popped(w) PROVE Scheduled(j)'
  <2>1. /\ due'[w][j] = retries[<<j, 0>>]
        /\ \A v \in Workers : v # w => due'[v] = due[v]
    BY <1>0, <1>3 DEF Popped
  <2>2. due[w][j] = 0
    BY <1>3 DEF Popped, NoneDue
  <2>3. ASSUME NEW d \in 0 .. MaxDelay, retries[<<j, d>>] > 0 PROVE Scheduled(j)'
    <3>1. CASE d = 0
      BY <2>1, <2>3, <3>1 DEF Scheduled
    <3>2. CASE d # 0
      <4>1. retries'[<<j, d>>] = retries[<<j, d>>]
        BY <1>0, <1>3, <3>2 DEF Popped
      <4> QED BY <2>3, <4>1 DEF Scheduled
    <3> QED BY <3>1, <3>2
  <2>4. ASSUME NEW v \in Workers, due[v][j] > 0 PROVE Scheduled(j)'
    <3>1. due'[v][j] > 0
      BY <2>1, <2>2, <2>4
    <3> QED BY <3>1 DEF Scheduled
  <2> QED BY <2>3, <2>4 DEF Scheduled
<1>4. ASSUME NEW w \in Workers, NEW k \in Jobs, Republished(w, k)
      PROVE  Scheduled(j)' \/ HasLive(j)'
  <2>1. CASE k = j
    BY <1>4, <2>1, LivePublished DEF Republished
  <2>2. CASE k # j
    <3>1. \A v \in Workers : due'[v][j] = due[v][j]
      BY <1>0, <1>4, <2>2 DEF Republished
    <3> QED BY <1>4, <3>1 DEF Republished, Scheduled
  <2> QED BY <2>1, <2>2
<1> QED BY <1>1, <1>2, <1>3, <1>4, RetriesMove

\* NotYetDue is kept by every step.
LEMMA NotYetDueKept ==
    ASSUME PromptClaims, LosslessWorkers, DelaysLast, Inv, NotYetDue, [Next]_vars, Tick \/ Moves
    PROVE  NotYetDue'
<1> SUFFICES ASSUME NEW s \in Slots, slot'[s].pc = "mark_retrying"
             PROVE  \E d \in 1 .. MaxDelay : retries'[<<slot'[s].job, d>>] > 0
  BY DEF NotYetDue, At
<1>0. \A k \in Jobs \X (0 .. MaxDelay) : retries[k] \in Nat /\ retries'[k] \in Nat
  <2>1. Inv'
    BY NextInv
  <2> QED BY <2>1 DEF Inv, QueueTypeOK
<1>1. CASE Tick
  BY <1>1, SlotTick
<1>2. CASE Moves
  <2>0. SlotsMove
    BY <1>2 DEF Moves
  <2>1. Stays(s) \/ Schedule(s)
    BY <2>0, SlotAfter DEF LetsGo, Takes, Peeks, Advances
  <2>2. CASE Schedule(s)
    <3>1. PICK d \in compute_delay(slot[s].obj.retry_count) : schedule_retry(slot[s].job, d)
      BY <2>2 DEF Schedule
    <3>2. slot[s].job \in Jobs /\ slot[s].obj.retry_count \in Nat /\ slot[s] \in SlotState
      BY <2>2, SlotFacts DEF Schedule, At, ClaimedPcs, Inv, ProcessingJob
    <3>3. d \in 0 .. MaxDelay /\ d # 0
      BY <3>1, <3>2, DelayBounded DEF DelaysLast
    <3>4. d \in 1 .. MaxDelay /\ <<slot[s].job, d>> \in Jobs \X (0 .. MaxDelay)
      BY <3>2, <3>3
    <3>5. retries' = [retries EXCEPT ![<<slot[s].job, d>>] = retries[<<slot[s].job, d>>] + 1]
      BY <3>1 DEF schedule_retry
    <3>6. retries'[<<slot[s].job, d>>] = retries[<<slot[s].job, d>>] + 1
      BY <3>4, <3>5 DEF Inv, QueueTypeOK
    <3>7. slot'[s].job = slot[s].job
      <4>1. slot' = [slot EXCEPT ![s] = [slot[s] EXCEPT !.pc = "mark_retrying"]]
        BY <2>2 DEF Schedule, Step
      <4>2. slot'[s] = [slot[s] EXCEPT !.pc = "mark_retrying"]
        BY <4>1, SlotReplaced
      <4> QED BY <3>2, <4>2 DEF SlotState
    <3> QED BY <1>0, <3>4, <3>6, <3>7
  <2>3. CASE Stays(s)
    <3>1. slot[s].pc = "mark_retrying" /\ slot'[s].job = slot[s].job /\ slot[s].job \in Jobs
      BY <2>3, SlotFacts DEF Stays, Inv, ClaimedPcs
    <3>2. PICK d \in 1 .. MaxDelay : retries[<<slot[s].job, d>>] > 0
      BY <3>1 DEF NotYetDue, At
    <3>3. <<slot[s].job, d>> \in Jobs \X (0 .. MaxDelay) /\ d # 0
      BY <3>1
    <3>4. retries'[<<slot[s].job, d>>] >= retries[<<slot[s].job, d>>]
      <4>1. CASE Tick
        BY <1>1, <3>1, <4>1, SlotTick
      <4>2. CASE RetriesKept
        BY <3>3, <4>2 DEF RetriesKept
      <4>3. ASSUME NEW w \in Workers, Popped(w)
            PROVE  retries'[<<slot[s].job, d>>] = retries[<<slot[s].job, d>>]
        BY <3>3, <4>3 DEF Popped
      <4>4. ASSUME NEW w \in Workers, NEW j \in Jobs, Republished(w, j)
            PROVE  retries'[<<slot[s].job, d>>] = retries[<<slot[s].job, d>>]
        BY <4>4 DEF Republished
      <4> QED BY <1>0, <3>3, <4>1, <4>2, <4>3, <4>4, RetriesMove
    <3> QED BY <1>0, <3>1, <3>2, <3>3, <3>4
  <2> QED BY <2>1, <2>2, <2>3
<1> QED BY <1>1, <1>2

\* RetryingLive is kept by every step.
LEMMA RetryingKept ==
    ASSUME PromptClaims, LosslessWorkers, Inv, Sound, Entries, NotYetDue, RetryingLive,
           [Next]_vars, Tick \/ Moves
    PROVE  RetryingLive'
<1> SUFFICES ASSUME NEW j \in Jobs, job'[j].status = "retrying"
             PROVE  Scheduled(j)' \/ HasLive(j)'
  BY DEF RetryingLive
<1>1. CASE Tick
  <2>1. job[j].status = "retrying"
    BY <1>1, RowTick
  <2>2. ASSUME NEW m, Live(m, j) PROVE HasLive(j)'
    <3>1. Live(m, j)'
      BY <1>1, <2>2, LiveTick
    <3> QED BY <3>1 DEF HasLive, Live
  <2> QED BY <1>1, <2>1, <2>2, ScheduledTick DEF RetryingLive, HasLive
<1>2. CASE Moves
  <2>1. CASE job'[j] = job[j]
    <3>1. job[j].status = "retrying" /\ IsClaimable(job[j])
      BY <2>1 DEF IsClaimable, CLAIMABLE_STATUSES
    <3>2. ASSUME NEW m, Live(m, j) PROVE HasLive(j)'
      <4>1. ASSUME NEW s \in Slots, slot[s].msg = m, Settles(s, j) PROVE FALSE
        <5>1. At(s, "mark_retrying")
          BY <2>1, <3>1, <4>1 DEF Settles
        <5>2. slot[s].job = j
          BY <3>2, <4>1, <5>1 DEF Live, Entries, EntryOf, At, ClaimedPcs
        <5> QED BY <3>1, <5>1, <5>2, HolderFacts DEF At, ClaimedPcs
      <4>2. Live(m, j)'
        BY <1>2, <3>2, <4>1, LiveStays
      <4> QED BY <4>2 DEF HasLive, Live
    <3> QED BY <3>1, <3>2, ScheduledGoesOn DEF RetryingLive, HasLive
  <2>2. CASE job'[j] # job[j]
    <3>1. RowMoves(j)
      BY <1>2 DEF Moves, RowsMove
    <3>2. PICK s \in Slots : RetriedBy(s, j)
      BY <2>2, <3>1 DEF RowMoves, ClaimedBy
    <3>3. PICK d \in 1 .. MaxDelay : retries[<<j, d>>] > 0
      BY <3>2 DEF RetriedBy, NotYetDue
    <3>4. d \in 0 .. MaxDelay /\ retries'[<<j, d>>] > 0
      BY <3>2, <3>3 DEF RetriedBy
    <3> QED BY <3>4 DEF Scheduled
  <2> QED BY <2>1, <2>2
<1> QED BY <1>1, <1>2

-----------------------------------------------------------------------------
(* The theorems.  No step of any actor breaks an invariant in a state in   *)
(* which Inv and Sound hold and the API is quiet.                          *)

LEMMA InitCarried ==
    Init => /\ Entries /\ Owned /\ NotYetDue
            /\ QueuedLive /\ ProcessingRecovers /\ ProcessingAttempted /\ RetryingLive
<1> SUFFICES ASSUME Init
             PROVE  /\ Entries /\ Owned /\ NotYetDue
                    /\ QueuedLive /\ ProcessingRecovers /\ ProcessingAttempted /\ RetryingLive
  OBVIOUS
<1>1. \A s \in Slots : slot[s].pc = "idle"
  BY DEF Init, WorkerInit, Free, Holding
<1>2. \A j \in Jobs : job[j].status = "absent"
  BY DEF Init, DbInit, NoRow
<1>3. Entries
  BY <1>1 DEF Entries, EntryOf, HandlingPcs, ClaimedPcs
<1>4. Owned
  BY <1>1 DEF Owned, Alone, PendingWith, HandlingPcs, ClaimedPcs
<1>5. NotYetDue
  BY <1>1 DEF NotYetDue, At
<1>6. QueuedLive /\ ProcessingRecovers /\ ProcessingAttempted /\ RetryingLive
  BY <1>2 DEF QueuedLive, ProcessingRecovers, ProcessingAttempted, RetryingLive
<1> QED BY <1>3, <1>4, <1>5, <1>6

LEMMA NextEntries ==
    ASSUME PromptClaims
    PROVE  Inv /\ Sound /\ QuietApi /\ Entries /\ [Next]_vars => Entries'
BY NextInv, StepMoves, EntriesKept

LEMMA NextOwned ==
    ASSUME PromptClaims
    PROVE  Inv /\ Sound /\ QuietApi /\ TimelySweep /\ Owned /\ [Next]_vars => Owned'
BY StepMoves, OwnedKept

LEMMA NextQueued ==
    ASSUME PromptClaims, ReliableApi
    PROVE  Inv /\ Sound /\ QuietApi /\ Entries /\ QueuedLive /\ [Next]_vars => QueuedLive'
BY StepMoves, QueuedKept

LEMMA NextProcessing ==
    ASSUME PromptClaims
    PROVE  /\ Inv /\ Sound /\ QuietApi /\ TimelySweep /\ Entries /\ Owned
           /\ ProcessingRecovers /\ [Next]_vars
           => ProcessingRecovers'
BY StepMoves, ProcessingKept

LEMMA NextAttempted ==
    ASSUME PromptClaims, LosslessWorkers
    PROVE  Inv /\ Sound /\ QuietApi /\ ProcessingAttempted /\ [Next]_vars => ProcessingAttempted'
BY StepMoves, AttemptedKept

LEMMA NextNotYetDue ==
    ASSUME PromptClaims, LosslessWorkers, DelaysLast
    PROVE  Inv /\ Sound /\ QuietApi /\ NotYetDue /\ [Next]_vars => NotYetDue'
BY StepMoves, NotYetDueKept

LEMMA NextRetrying ==
    ASSUME PromptClaims, LosslessWorkers
    PROVE  /\ Inv /\ Sound /\ QuietApi /\ Entries /\ NotYetDue
           /\ RetryingLive /\ [Next]_vars
           => RetryingLive'
BY StepMoves, RetryingKept

LEMMA LiveOnStream == \A j \in Jobs : HasLive(j) => OnStream(j)
BY DEF HasLive, Live, OnStream

\* An upload that was answered is never forgotten: as long as no call of the
\* API fails between create_job's commit and publish_job, a queued job has an
\* entry that no worker has acknowledged.  Workers may crash, raise, meet
\* poison documents and lose replies: a slot acknowledges an entry only when
\* the row has left queued.
THEOREM QueuedNeverStranded ==
    ASSUME PromptClaims, ReliableApi
    PROVE  Spec /\ []QuietApi => []QueuedIsCarried
<1>1. QueuedLive => QueuedIsCarried
  BY LiveOnStream DEF QueuedLive, QueuedIsCarried, Publishing, BeingPublished
<1> QED
  BY <1>1, SoundThroughout, InitCarried, NextEntries, NextQueued, PTL DEF Spec

\* An early redelivery is the only way to strand a job that is processing: in a
\* behaviour in which the sweep of pending entries takes none that a task still
\* handles or whose row is not stale yet, a job whose worker crashed or raised
\* anywhere between the claim and the acknowledgement has an entry that brings
\* it back.  Nothing is assumed of the order of the two thresholds.  With the
\* default ones a sweep may be early, and the run abandoned_by_crash shows it.
THEOREM CrashNeverStrands ==
    ASSUME PromptClaims
    PROVE  Spec /\ []QuietApi /\ []TimelySweep => []ProcessingIsCarried
<1>1. ProcessingRecovers => ProcessingIsCarried
  BY DEF ProcessingRecovers, Recovers, Live, ProcessingIsCarried, OnStream
<1> QED
  BY <1>1, SoundThroughout, InitCarried, NextEntries, NextOwned, NextProcessing, PTL DEF Spec

\* A handled entry is idle no longer than the attempt at it lasts.
LEMMA RepairedSweep ==
    ASSUME PromptClaims, RepairedOrder
    PROVE  Inv /\ Owned => TimelySweep
<1> SUFFICES ASSUME Inv, Owned, NEW s \in Slots, At(s, "xclaim"), IsIdle(slot[s].msg)
             PROVE  /\ ~ Handled(slot[s].msg)
                    /\ \A j \in Jobs : job[j].started_at \notin MinIdle .. StaleAfter
  BY DEF TimelySweep
<1>1. ASSUME NEW t \in Slots, slot[t].pc \in HandlingPcs, slot[t].msg = slot[s].msg PROVE FALSE
  <2>1. slot[t].age \in 0 .. MaxWork /\ slot[t].msg \in Ids
    BY <1>1, SlotFacts DEF Inv, SlotState, HandlingPcs, ClaimedPcs
  <2>2. stream[slot[t].msg].idle <= slot[t].age /\ stream[slot[t].msg].idle \in 0 .. MinIdle
    BY <1>1, <2>1, EntryAt DEF Owned, PendingWith, Inv, Entry
  <2>3. stream[slot[t].msg].idle >= MinIdle
    BY <1>1 DEF IsIdle
  <2> QED BY <2>1, <2>2, <2>3 DEF PromptClaims, RepairedOrder
<1>2. \A i : i \notin MinIdle .. StaleAfter
  BY DEF RepairedOrder
<1> QED BY <1>1, <1>2 DEF Handled

\* No sweep is early when the pending idle time is longer than the stale
\* threshold, and that is longer than any attempt: an entry that has been idle
\* for long enough is handled by nobody, and its row is stale.
THEOREM RepairedIsTimely ==
    ASSUME PromptClaims, RepairedOrder
    PROVE  Spec /\ []QuietApi => []TimelySweep
BY SoundThroughout, InitCarried, NextOwned, RepairedSweep, PTL DEF Spec

\* In either order of the thresholds, as long as no worker dies and none of its
\* calls raises, a slot lets go of a job it has claimed only after the row has
\* left processing: _persist, mark_retrying or mark_failed comes before the
\* acknowledgement on every path through process and _handle_failure.
THEOREM AttemptNeverAbandoned ==
    ASSUME PromptClaims, LosslessWorkers
    PROVE  Spec /\ []QuietApi => []ProcessingIsCarried
<1>1. ProcessingAttempted => ProcessingIsCarried
  BY DEF ProcessingAttempted, ProcessingIsCarried
<1> QED
  BY <1>1, SoundThroughout, InitCarried, NextAttempted, PTL DEF Spec

\* A retrying job has its next event in the sorted set, popped or on the
\* stream.  The retry is scheduled before mark_retrying writes the row, which
\* is sound because a delay outlasts the write: were it due at once, the event
\* could be delivered, dropped by claim_job as not claimable and acknowledged
\* while the row still says processing.
THEOREM RetryNeverLost ==
    ASSUME PromptClaims, LosslessWorkers, DelaysLast
    PROVE  Spec /\ []QuietApi => []RetryingIsCarried
<1>1. RetryingLive => RetryingIsCarried
  BY LiveOnStream DEF RetryingLive, RetryingIsCarried
<1> QED
  BY <1>1, SoundThroughout, InitCarried, NextEntries, NextNotYetDue, NextRetrying, PTL DEF Spec
=============================================================================
