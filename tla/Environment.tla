---------------------------- MODULE Environment ----------------------------
(***************************************************************************)
(* What the pipeline is exposed to: the documents uploaded, the operator's *)
(* manual retries, and faults.  The faults are                             *)
(*   "crash"     a worker process dies (kill, OOM, power loss)             *)
(*   "sigterm"   a worker receives SIGTERM or SIGINT                       *)
(*   "io"        a PostgreSQL or Redis call of a worker raises             *)
(*   "apiCrash"  the API process dies                                      *)
(*   "apiIo"     a PostgreSQL or Redis call of the API raises              *)
(*   "foreign"   another producer appends an entry that does not decode    *)
(* A call that raises may or may not have taken effect on the server: the  *)
(* reply can be what was lost.  An instance explores every placement of at *)
(* most MaxFaults faults of the kinds in Faults.                           *)
(***************************************************************************)
EXTENDS Naturals

FaultKinds == {"crash", "sigterm", "io", "apiCrash", "apiIo", "foreign"}

CONSTANTS
    Jobs,               \* the documents that may be uploaded, one job each
    Faults,             \* the kinds of fault that may happen
    MaxFaults,          \* how many may happen altogether
    MaxManualRetries    \* how many manual retries are requested

ASSUME EnvironmentAssumption == /\ Faults \subseteq FaultKinds
                                /\ MaxFaults \in Nat
                                /\ MaxManualRetries \in Nat

VARIABLES faultsLeft, manualLeft

envVars == <<faultsLeft, manualLeft>>

EnvInit == /\ faultsLeft = MaxFaults
           /\ manualLeft = MaxManualRetries

Fault(kind) == /\ kind \in Faults
               /\ faultsLeft > 0
               /\ faultsLeft' = faultsLeft - 1
               /\ UNCHANGED manualLeft

OperatorRetries == /\ manualLeft > 0
                   /\ manualLeft' = manualLeft - 1
                   /\ UNCHANGED faultsLeft

EnvTypeOK == faultsLeft \in Nat /\ manualLeft \in Nat
=============================================================================
