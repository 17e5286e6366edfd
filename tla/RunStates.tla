----------------------------- MODULE RunStates -----------------------------
(***************************************************************************)
(* The run state machine shared by every component: the statuses of a run, *)
(* which of them are final, and the moves the runtime's transition table   *)
(* allows (runtime/state_machine.py, domain/runs.py).                      *)
(***************************************************************************)

\* The statuses in which a run needs neither a worker nor a human.
TERMINAL_RUN_STATUSES == {"COMPLETED", "FAILED", "CANCELLED"}

\* Parked: the worker released the lease and the run waits for the outside.
Parked == {"WAITING_FOR_APPROVAL", "WAITING_FOR_USER"}

RunStatus == {"QUEUED", "RUNNING"} \cup Parked \cup TERMINAL_RUN_STATUSES

\* A run whose row has not been inserted yet.
NotCreated == "NOT_CREATED"

\* The only moves a guarded status update accepts.
ALLOWED_TRANSITIONS ==
  [s \in RunStatus |->
     CASE s = "QUEUED"  -> {"RUNNING", "CANCELLED", "FAILED"}
       [] s = "RUNNING" -> Parked \cup TERMINAL_RUN_STATUSES \cup {"QUEUED"}
       [] s \in Parked  -> {"QUEUED", "CANCELLED", "FAILED"}
       [] OTHER         -> {}]
=============================================================================
