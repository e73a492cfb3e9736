----------------------------- MODULE WorkStage -----------------------------
(***************************************************************************)
(* What a slot of Worker assumes of one attempt while its pc is "work":    *)
(* it ends, within MaxWork ticks, in an extraction that is ready to commit *)
(* or in a failure that retry_policy has classified.                       *)
(***************************************************************************)
EXTENDS Naturals

CONSTANT MaxWork

VARIABLES stage, error, age

stageVars == <<stage, error, age>>

Init == stage = "work" /\ error = "null" /\ age = 0

Wait == /\ stage = "work"
        /\ age < MaxWork
        /\ age' = age + 1
        /\ UNCHANGED <<stage, error>>

Succeed == /\ stage = "work"
           /\ stage' = "succeeded"
           /\ UNCHANGED <<error, age>>

Fail == /\ stage = "work"
        /\ stage' = "failed"
        /\ error' \in {"transient", "permanent"}
        /\ UNCHANGED age

Next == Wait \/ Succeed \/ Fail

Spec == Init /\ [][Next]_stageVars /\ WF_stageVars(Next)
=============================================================================
