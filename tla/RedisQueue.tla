----------------------------- MODULE RedisQueue -----------------------------
(***************************************************************************)
(* The Redis side of app/services/queue.py: the stream with its single     *)
(* consumer group, and the sorted set of scheduled retries.                *)
(*                                                                         *)
(* The stream is append only and never trimmed.  An entry is "new" until   *)
(* XREADGROUP delivers it, "pending" while it is in the group's pending    *)
(* entries list (with its delivery count and its idle time in ticks,       *)
(* saturating at MinIdle), and "acked" afterwards.  A message ID is the    *)
(* position of the entry.                                                  *)
(*                                                                         *)
(* A scheduled retry is identified only by its job and the ticks left      *)
(* until it is due: retries counts the members of each kind (next_attempt  *)
(* draws a fresh event_id, so no two members are equal).                   *)
(***************************************************************************)
EXTENDS Integers, Sequences, Environment, RetryPolicy

CONSTANTS
    Malformed,      \* the payload of an entry _decode_one rejects
    MinIdle         \* pending_min_idle_ms, in ticks

ASSUME QueueAssumption == /\ Malformed \notin Jobs
                          /\ MinIdle \in Nat \ {0}

VARIABLES stream, retries

queueVars == <<stream, retries>>

Payloads == Jobs \cup {Malformed}

Entry == [payload : Payloads, state : {"new", "pending", "acked"},
          times : Nat, idle : 0 .. MinIdle]

QueueInit == /\ stream = << >>
             /\ retries = [k \in Jobs \X (0 .. MaxDelay) |-> 0]

Ids == 1 .. Len(stream)

-----------------------------------------------------------------------------
\* XADD.
publish(p) ==
    /\ stream' = Append(stream, [payload |-> p, state |-> "new", times |-> 0, idle |-> 0])
    /\ UNCHANGED retries

\* ZADD.
schedule_retry(j, delay) ==
    /\ retries' = [retries EXCEPT ![<<j, delay>>] = @ + 1]
    /\ UNCHANGED stream

\* The Lua script: the due members are returned and removed in one step.
DueRetries == [j \in Jobs |-> retries[<<j, 0>>]]

pop_due_retries ==
    /\ \E j \in Jobs : DueRetries[j] > 0
    /\ retries' = [k \in Jobs \X (0 .. MaxDelay) |-> IF k[2] = 0 THEN 0 ELSE retries[k]]
    /\ UNCHANGED stream

\* XREADGROUP with ">" and COUNT 1: the oldest entry not yet delivered.
IsNext(m) == /\ m \in Ids
             /\ stream[m].state = "new"
             /\ \A i \in Ids : stream[i].state = "new" => m <= i

Deliver(m) ==
    /\ stream' = [stream EXCEPT ![m] = [payload |-> @.payload, state |-> "pending",
                                        times |-> @.times + 1, idle |-> 0]]
    /\ UNCHANGED retries

\* Faulty: off by one, no entry is ever idle for longer than the threshold.
IdleForLonger(m) == /\ m \in Ids
                    /\ stream[m].state = "pending"
                    /\ stream[m].idle > MinIdle

\* Faulty: the idle time is not passed on.
AnyPending(m) == /\ m \in Ids
                 /\ stream[m].state = "pending"

\* XPENDING with IDLE and COUNT 1: the oldest entry idle for long enough.
IsIdle(m) == /\ m \in Ids
             /\ stream[m].state = "pending"
             /\ stream[m].idle >= MinIdle

IsOldestIdle(m) == IsIdle(m) /\ \A i \in Ids : IsIdle(i) => m <= i

\* XCLAIM skips an entry acknowledged or delivered again since XPENDING.
XClaim(m) == IF IsIdle(m) THEN Deliver(m) ELSE UNCHANGED queueVars

\* XACK.  The counters of an acknowledged entry are gone.
ack(m) ==
    /\ stream' = [stream EXCEPT ![m] = [payload |-> @.payload, state |-> "acked",
                                        times |-> 0, idle |-> 0]]
    /\ UNCHANGED retries

QueueTick ==
    /\ stream' = [m \in Ids |->
                    IF stream[m].state = "pending" /\ stream[m].idle < MinIdle
                    THEN [stream[m] EXCEPT !.idle = @ + 1] ELSE stream[m]]
    /\ retries' = [k \in Jobs \X (0 .. MaxDelay) |->
                    (IF k[2] = 0 THEN retries[k] ELSE 0)
                      + (IF k[2] < MaxDelay THEN retries[<<k[1], k[2] + 1>>] ELSE 0)]

QueueTypeOK == /\ stream \in Seq(Entry)
               /\ retries \in [Jobs \X (0 .. MaxDelay) -> Nat]
=============================================================================
