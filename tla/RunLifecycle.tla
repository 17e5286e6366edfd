---------------------------- MODULE RunLifecycle ----------------------------
(***************************************************************************)
(* What the queue promises about a run, with workers, leases and failures  *)
(* abstracted away: a run is created queued, moves only along the          *)
(* transition table, and begins a new generation exactly when it starts to *)
(* run.  A generation is what a worker's lease epoch names.  Runs are      *)
(* independent, and one step may move several of them: the maintenance     *)
(* worker reclaims a batch.                                                *)
(***************************************************************************)
EXTENDS Naturals, RunStates

CONSTANT Run            \* the runs a client may submit

VARIABLES status,       \* status of each run, NotCreated before submission
          generation    \* how many times each run has been started

vars == <<status, generation>>

Init == /\ status = [r \in Run |-> NotCreated]
        /\ generation = [r \in Run |-> 0]

Create(r) == /\ status[r] = NotCreated
             /\ status'[r] = "QUEUED"
             /\ generation'[r] = generation[r]

Start(r) == /\ status[r] = "QUEUED"
            /\ status'[r] = "RUNNING"
            /\ generation'[r] = generation[r] + 1

Move(r) == /\ status[r] \in RunStatus
           /\ status'[r] \in ALLOWED_TRANSITIONS[status[r]] \ {"RUNNING"}
           /\ generation'[r] = generation[r]

Stay(r) == /\ status'[r] = status[r]
           /\ generation'[r] = generation[r]

Next == /\ DOMAIN status' = Run
        /\ DOMAIN generation' = Run
        /\ \A r \in Run : Create(r) \/ Start(r) \/ Move(r) \/ Stay(r)

Spec == Init /\ [][Next]_vars
=============================================================================
