---------------------------- MODULE JobLifecycle ----------------------------
(***************************************************************************)
(* What the pipeline promises about one document, without workers, queue,  *)
(* sessions or time: the life of a job as a client of the API sees it.     *)
(* The states and moves are those of README section 11 and of              *)
(* ALLOWED_TRANSITIONS; the moves also say what must happen together.      *)
(***************************************************************************)
EXTENDS Naturals

CONSTANTS Jobs, MaxRetries

VARIABLES
    status,     \* status[j]
    attempts,   \* attempts[j]: failed attempts since j was last queued
    extracted   \* extracted[j]: the extraction result of j is stored

lifecycleVars == <<status, attempts, extracted>>

Init == /\ status = [j \in Jobs |-> "absent"]
        /\ attempts = [j \in Jobs |-> 0]
        /\ extracted = [j \in Jobs |-> FALSE]

Move(j, from, to) == /\ status[j] \in from
                     /\ status' = [status EXCEPT ![j] = to]

Submit(j) == /\ Move(j, {"absent"}, "queued")
             /\ UNCHANGED <<attempts, extracted>>

Start(j) == /\ Move(j, {"queued", "retrying"}, "processing")
            /\ UNCHANGED <<attempts, extracted>>

\* The result and the terminal status appear together, and only once.
Complete(j) == /\ Move(j, {"processing"}, "completed")
               /\ ~extracted[j]
               /\ extracted' = [extracted EXCEPT ![j] = TRUE]
               /\ UNCHANGED attempts

Retry(j) == /\ Move(j, {"processing"}, "retrying")
            /\ attempts[j] < MaxRetries
            /\ attempts' = [attempts EXCEPT ![j] = @ + 1]
            /\ UNCHANGED extracted

Fail(j) == /\ Move(j, {"queued", "processing"}, "failed")
           /\ UNCHANGED <<attempts, extracted>>

\* The operator's retry starts over with a full budget.
Requeue(j) == /\ Move(j, {"failed"}, "queued")
              /\ attempts' = [attempts EXCEPT ![j] = 0]
              /\ UNCHANGED extracted

Next == \E j \in Jobs : \/ Submit(j) \/ Start(j) \/ Complete(j)
                        \/ Retry(j) \/ Fail(j) \/ Requeue(j)

Spec == Init /\ [][Next]_lifecycleVars
=============================================================================
