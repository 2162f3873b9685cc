----------------------------- MODULE MillTypes -----------------------------
(***************************************************************************)
(* What every part of the cluster shares: allocation ids and the status of *)
(* an allocation (crates/config/src/types/runtime.rs).                     *)
(***************************************************************************)

CONSTANTS
    AllocIds,       \* allocation ids
    None            \* an absent map entry, or Option::None

ASSUME NoneAssumption == None \notin AllocIds

NodeStatuses == {"Ready", "Draining", "Down"}
AllocKinds == {"Service", "Task"}
AllocStatuses == {"Pulling", "Starting", "Running", "Healthy", "Stopped", "Failed"}

\* AllocStatus::is_active and AllocStatus::is_terminal.
Active == {"Running", "Healthy"}
Terminal == {"Stopped", "Failed"}

=============================================================================
