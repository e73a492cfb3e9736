---------------------------- MODULE RetryPolicy ----------------------------
(***************************************************************************)
(* app/worker/retry_policy.py: whether a failure earns another attempt,    *)
(* and after which delay.  A delay is a real number of seconds; in ticks   *)
(* it may fall on any tick from the one it begins in to the one it ends    *)
(* in, so the bounds of the jitter are rounded outwards.                   *)
(***************************************************************************)
EXTENDS Integers

CONSTANTS
    BaseDelay,      \* retry_base_delay_seconds, in ticks
    MaxBackoff,     \* retry_max_delay_seconds, in ticks
    JitterPercent,  \* retry_jitter_ratio, in percent
    MaxDelay        \* the longest delay that can be drawn

ASSUME RetryPolicyAssumption ==
    /\ BaseDelay \in Nat
    /\ MaxBackoff \in Nat
    /\ JitterPercent \in 0 .. 100
    /\ MaxDelay \in Nat
    /\ MaxBackoff * (100 + JitterPercent) <= 100 * MaxDelay

\* Faulty: one retry too many.
RetriesOnceMore(error, retry_count, max_retries) ==
    error = "transient" /\ retry_count <= max_retries

should_retry(error, retry_count, max_retries) ==
    error = "transient" /\ retry_count < max_retries

Backoff(attempt) == LET raw == BaseDelay * 2 ^ attempt
                    IN  IF raw < MaxBackoff THEN raw ELSE MaxBackoff

\* Faulty: full jitter, anywhere between nothing and the backoff.
FullJitter(attempt) == 0 .. Backoff(attempt)

\* The delays that may be drawn after the given number of completed attempts.
compute_delay(attempt) ==
    {d \in 0 .. MaxDelay :
        /\ Backoff(attempt) * (100 - JitterPercent) < 100 * (d + 1)
        /\ 100 * (d - 1) < Backoff(attempt) * (100 + JitterPercent)}
=============================================================================
