---------------------------- MODULE TransferPolicy ----------------------------
(* What apps/bridge/lib/bridge/transition-policy.ts promises of the status of *)
(* a transfer: each change is one the policy allows.  Nothing in src/ calls   *)
(* assertBridgeStateTransition; the workers are held to it here.              *)
CONSTANT Transfers

VARIABLE status

States == {"CREATED", "SOURCE_SUBMITTING", "SOURCE_SUBMITTED",
           "SOURCE_FINALIZED", "MESSAGE_OBSERVED", "DESTINATION_SUBMITTED",
           "DESTINATION_FINALIZED", "RECONCILIATION_REQUIRED", "COMPLETED",
           "FAILED"}

(* Any state but the last two may also be given up. *)
Allowed(from) ==
    CASE from = "CREATED" -> {"SOURCE_SUBMITTING", "FAILED"}
      [] from = "SOURCE_SUBMITTING" -> {"SOURCE_SUBMITTED", "FAILED"}
      [] from = "SOURCE_SUBMITTED" ->
           {"SOURCE_FINALIZED", "RECONCILIATION_REQUIRED", "FAILED"}
      [] from = "SOURCE_FINALIZED" ->
           {"MESSAGE_OBSERVED", "DESTINATION_SUBMITTED",
            "RECONCILIATION_REQUIRED", "FAILED"}
      [] from = "MESSAGE_OBSERVED" ->
           {"DESTINATION_SUBMITTED", "RECONCILIATION_REQUIRED", "FAILED"}
      [] from = "DESTINATION_SUBMITTED" ->
           {"DESTINATION_FINALIZED", "RECONCILIATION_REQUIRED", "FAILED"}
      [] from = "DESTINATION_FINALIZED" ->
           {"RECONCILIATION_REQUIRED", "COMPLETED", "FAILED"}
      [] from = "RECONCILIATION_REQUIRED" -> {"COMPLETED", "FAILED"}
      [] from \in {"COMPLETED", "FAILED"} -> {}

(* A transfer is stored before or while its source transaction is signed. *)
Init == status \in [Transfers -> {"CREATED", "SOURCE_SUBMITTING"}]

(* assertBridgeStateTransition *)
Move(t, to) ==
    /\ to \in Allowed(status[t])
    /\ status' = [status EXCEPT ![t] = to]

Next == \E t \in Transfers, to \in States : Move(t, to)

Spec == Init /\ [][Next]_status
===============================================================================
