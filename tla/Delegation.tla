----------------------------- MODULE Delegation -----------------------------
(***************************************************************************)
(* Delegation: a parent run hands briefs to child runs, parks, and is      *)
(* joined when its last child ends (application/delegations.py, the        *)
(* delegate branch of tools/executor.py, the suspension, cancellation and  *)
(* post-run hooks of runtime/executor.py and bootstrap.py).                *)
(*                                                                         *)
(* Children are ordinary queued runs: other workers may finish them before *)
(* the parent has parked.  The join and the wake-up are two hooks that run *)
(* outside any lease after a run was finalized, one in the process that    *)
(* ran a child, one in the process that parked the parent.  Leases and     *)
(* fencing are the subject of RunQueue: here a run has one worker, which   *)
(* may crash, whereupon the run is queued again.                           *)
(***************************************************************************)
EXTENDS Naturals, FiniteSets, RunStates

CONSTANTS
  Child,          \* the child runs of the one delegation
  MaxCost,        \* the parent's cost limit; a child costs one unit
  MaxOwn,         \* bound: units of usage the parent records for itself
  MaxCrashes,     \* bound: crashes of the parent's worker
  MaxParks,       \* bound: how often a child waits for an approval
  MaxLosses       \* bound: hooks that are lost

ASSUME DelegationAssumption ==
  /\ IsFiniteSet(Child) /\ Child # {}
  /\ {MaxCost, MaxOwn, MaxCrashes, MaxParks, MaxLosses} \subseteq Nat

VARIABLES
  \* The parent run.
  parent,         \* its status
  waitingFor,     \* the kind of its suspension
  usage,          \* runs.usage of the parent
  inv,            \* its delegate invocation: RUNNING, SUSPENDED once marked, or settled
  pc,             \* its worker: idle, dispatch, suspend (about to), work
  mem,            \* the worker's copy of usage
  parked,         \* the parent_parked hook: none, due, wake
  own,            \* what the parent itself recorded
  crashes,        \* crashes so far
  \* The delegation and its children.
  delegation,     \* status of the ledger row
  child,          \* status of each child run
  cancelAsked,    \* cancel_requested_at of each child
  hook,           \* the after_run hook of each child: none, due, joining
  parks,          \* how often each child was parked
  \* What the properties need to know of the past.
  losses,         \* hooks lost so far
  joinedAt        \* where the parent's worker was at the join

parentVars == <<parent, waitingFor, usage, inv, pc, mem, parked, own, crashes>>
history    == <<losses, joinedAt>>
childVars  == <<child, cancelAsked, hook, parks, history>>
vars == <<parentVars, delegation, childVars>>

TypeOK ==
  /\ parent \in RunStatus
  /\ waitingFor \in {"none", "child_run", "approval"}
  /\ usage \in Nat /\ mem \in Nat
  /\ own \in 0..MaxOwn
  /\ crashes \in 0..MaxCrashes
  /\ inv \in {"RUNNING", "SUSPENDED", "SUCCEEDED", "FAILED"}
  /\ pc \in {"idle", "dispatch", "suspend", "work"}
  /\ parked \in {"none", "due", "wake"}
  /\ delegation \in {"none", "RUNNING", "JOINED", "CANCELLED"}
  /\ child \in [Child -> RunStatus \cup {NotCreated}]
  /\ cancelAsked \in [Child -> BOOLEAN]
  /\ hook \in [Child -> {"none", "due", "joining"}]
  /\ parks \in [Child -> 0..MaxParks]
  /\ losses \in 0..MaxLosses /\ joinedAt \in {"none", "idle", "dispatch", "suspend", "work"}
  /\ pc # "idle" <=> parent = "RUNNING"

\* The parent's model has called delegate.run; the call is authorized.
Init ==
  /\ parent = "QUEUED"
  /\ waitingFor = "none"
  /\ usage = 0 /\ mem = 0 /\ own = 0 /\ crashes = 0
  /\ inv = "RUNNING"
  /\ pc = "idle"
  /\ parked = "none"
  /\ delegation = "none"
  /\ child = [c \in Child |-> NotCreated]
  /\ cancelAsked = [c \in Child |-> FALSE]
  /\ hook = [c \in Child |-> "none"]
  /\ parks = [c \in Child |-> 0]
  /\ losses = 0 /\ joinedAt = "none"

Terminal(c) == child[c] \in TERMINAL_RUN_STATUSES

-----------------------------------------------------------------------------
(* The parent's worker *)

\* The worker keeps the row it claimed, its usage included.
ClaimParent ==
  /\ parent = "QUEUED"
  /\ parent' = "RUNNING"
  /\ pc' = "dispatch"
  /\ mem' = usage
  /\ UNCHANGED <<waitingFor, usage, inv, parked, own, crashes, delegation, childVars>>

\* _create_child for every brief: each child is a run of its own, queued.
CreateChildren == [c \in Child |-> "QUEUED"]

\* materialize: children, ledger row and suspended invocation, all or nothing.
Materialize ==
  /\ pc = "dispatch"
  /\ inv = "RUNNING"
  /\ delegation = "none"
  /\ child' = CreateChildren
  /\ delegation' = "RUNNING"
  /\ inv' = "SUSPENDED"
  /\ pc' = "suspend"
  /\ UNCHANGED <<parent, waitingFor, usage, mem, parked, own, crashes, cancelAsked, hook, parks, history>>

\* The request is invalid or over a cap: the call fails and the run goes on.
RejectDelegation ==
  /\ pc = "dispatch"
  /\ inv = "RUNNING"
  /\ delegation = "none"
  /\ inv' = "FAILED"
  /\ pc' = "work"
  /\ UNCHANGED <<parent, waitingFor, usage, mem, parked, own, crashes, delegation, childVars>>

\* A resumed run dispatches the call again: it waits for the delegation it
\* already has, or takes the result the join left.
Redispatch ==
  /\ pc = "dispatch"
  /\ inv # "RUNNING"
  /\ pc' = IF inv = "SUSPENDED" THEN "suspend" ELSE "work"
  /\ UNCHANGED <<parent, waitingFor, usage, inv, mem, parked, own, crashes, delegation, childVars>>

\* Slip: what the parent itself has spent is all that counts.
RecordedOwn == own + 1

\* What record_tool_usage and the model-call accounting write: the worker's copy.
RecordedUsage == mem + 1

RecordUsage ==
  /\ pc \in {"dispatch", "work"}
  /\ own < MaxOwn
  /\ own' = own + 1
  /\ usage' = RecordedUsage
  /\ mem' = RecordedUsage
  /\ UNCHANGED <<parent, waitingFor, inv, pc, parked, crashes, delegation, childVars>>

\* finalize of a suspension on child runs; the hook comes after the commit.
ParkForChildren ==
  /\ pc = "suspend"
  /\ parent' = "WAITING_FOR_APPROVAL"
  /\ waitingFor' = "child_run"
  /\ pc' = "idle"
  /\ parked' = "due"
  /\ UNCHANGED <<usage, inv, mem, own, crashes, delegation, childVars>>

\* A later call of the parent needs an approval.
ParkForApproval ==
  /\ pc = "work"
  /\ parent' = "WAITING_FOR_APPROVAL"
  /\ waitingFor' = "approval"
  /\ pc' = "idle"
  /\ UNCHANGED <<usage, inv, mem, parked, own, crashes, delegation, childVars>>

\* The parent ends: it answers, fails, or notices a cancellation; a suspension
\* that cannot be committed is finalized as a failure.
EndParent ==
  /\ \/ pc = "dispatch" /\ parent' \in {"FAILED", "CANCELLED"}
     \/ pc = "work" /\ parent' \in {"FAILED", "CANCELLED", "COMPLETED"}
     \/ pc = "suspend" /\ parent' = "FAILED"
  /\ pc' = "idle"
  /\ UNCHANGED <<waitingFor, usage, inv, mem, parked, own, crashes, delegation, childVars>>

\* The worker dies and the run is queued again, or fails for good.
CrashParent ==
  /\ pc # "idle"
  /\ crashes < MaxCrashes
  /\ crashes' = crashes + 1
  /\ parent' \in {"QUEUED", "FAILED"}
  /\ pc' = "idle"
  /\ UNCHANGED <<waitingFor, usage, inv, mem, parked, own, delegation, childVars>>

\* The approval the parent waits for is resolved.
ApprovalResolved ==
  /\ parent = "WAITING_FOR_APPROVAL"
  /\ waitingFor = "approval"
  /\ parent' = "QUEUED"
  /\ waitingFor' = "none"
  /\ UNCHANGED <<usage, inv, pc, mem, parked, own, crashes, delegation, childVars>>

-----------------------------------------------------------------------------
(* Waking and joining *)

\* _wake_parent, guarded by the status it expects.
WakeParent(spent) ==
  IF parent = "WAITING_FOR_APPROVAL"
    THEN /\ parent' = IF spent > MaxCost THEN "FAILED" ELSE "QUEUED"
         /\ waitingFor' = "none"
    ELSE UNCHANGED <<parent, waitingFor>>

\* Slip: the parked parent relies on its children to wake it.
ParentParkedUnchecked ==
  /\ parked # "none"
  /\ parked' = "none"
  /\ UNCHANGED <<parent, waitingFor>>

\* parent_parked: the children are dispatched, and a join that found the parent
\* still running is made good.
ParentParked ==
  \/ /\ parked = "due"
     /\ parked' = IF delegation = "JOINED" THEN "wake" ELSE "none"
     /\ UNCHANGED <<parent, waitingFor>>
  \/ /\ parked = "wake"
     /\ parked' = "none"
     /\ WakeParent(usage)

ParkedHook ==
  /\ ParentParked
  /\ UNCHANGED <<usage, inv, pc, mem, own, crashes, delegation, childVars>>

\* after_run: a terminal child of a delegation that is still running.
AfterRun(c) ==
  /\ hook[c] = "due"
  /\ hook' = [hook EXCEPT ![c] = IF delegation = "RUNNING" THEN "joining" ELSE "none"]
  /\ UNCHANGED <<parentVars, delegation, child, cancelAsked, parks, history>>

\* Slip: the first child that ends joins the delegation.
AnyTerminal == \E c \in Child : Terminal(c)

\* Every sibling is terminal.
AllTerminal == \A c \in Child : Terminal(c)

\* Slip: the ledger row is joined whatever its status was.
JoinableAlways == AllTerminal

\* The ledger row is the gate: the first join moves it out of RUNNING.
Joinable == AllTerminal /\ delegation = "RUNNING"

\* _child_terminal: ledger, invocation, usage and wake-up in one transaction.
Join(c) ==
  /\ hook[c] = "joining"
  /\ hook' = [hook EXCEPT ![c] = "none"]
  /\ \/ /\ ~Joinable
        /\ UNCHANGED <<delegation, inv, usage, parent, waitingFor, joinedAt>>
     \/ /\ Joinable
        /\ delegation' = "JOINED"
        /\ inv' = IF inv # "SUSPENDED" THEN inv
                  ELSE IF \A d \in Child : child[d] = "COMPLETED" THEN "SUCCEEDED" ELSE "FAILED"
        /\ usage' = usage + Cardinality(Child)
        /\ joinedAt' = pc
        /\ WakeParent(usage')
  /\ UNCHANGED <<pc, mem, parked, own, crashes, child, cancelAsked, parks, losses>>

\* The process dies before its hook is done, or the hook's transaction is aborted
\* (the join and a claim of the parent lock session and run row in opposite
\* orders); the failure is logged and nothing runs the hook again.
LoseHook ==
  /\ losses < MaxLosses
  /\ losses' = losses + 1
  /\ \/ parked # "none" /\ parked' = "none" /\ UNCHANGED hook
     \/ \E c \in Child : /\ hook[c] # "none"
                         /\ hook' = [hook EXCEPT ![c] = "none"]
                         /\ UNCHANGED parked
  /\ UNCHANGED <<parent, waitingFor, usage, inv, pc, mem, own, crashes, delegation,
                 child, cancelAsked, parks, joinedAt>>

-----------------------------------------------------------------------------
(* The children *)

ClaimChild(c) ==
  /\ child[c] = "QUEUED"
  /\ child' = [child EXCEPT ![c] = "RUNNING"]
  /\ UNCHANGED <<parentVars, delegation, cancelAsked, hook, parks, history>>

\* A child ends, and its process runs the hook.
EndChild(c) ==
  /\ child[c] = "RUNNING"
  /\ \E s \in TERMINAL_RUN_STATUSES : child' = [child EXCEPT ![c] = s]
  /\ hook' = [hook EXCEPT ![c] = "due"]
  /\ UNCHANGED <<parentVars, delegation, cancelAsked, parks, history>>

\* A child waits for an approval; its hook finds it not terminal.
ParkChild(c) ==
  /\ child[c] = "RUNNING"
  /\ parks[c] < MaxParks
  /\ parks' = [parks EXCEPT ![c] = @ + 1]
  /\ child' = [child EXCEPT ![c] = "WAITING_FOR_APPROVAL"]
  /\ UNCHANGED <<parentVars, delegation, cancelAsked, hook, history>>

\* The child's approval is answered or expires.
ResumeChild(c) ==
  /\ child[c] = "WAITING_FOR_APPROVAL"
  /\ child' = [child EXCEPT ![c] = "QUEUED"]
  /\ UNCHANGED <<parentVars, delegation, cancelAsked, hook, parks, history>>

\* reclaim_expired gives up on a child whose workers keep dying: no process of
\* the child is left to run a hook.
ReapChild(c) ==
  /\ losses < MaxLosses
  /\ losses' = losses + 1
  /\ child[c] = "RUNNING"
  /\ child' = [child EXCEPT ![c] = "FAILED"]
  /\ UNCHANGED <<parentVars, delegation, cancelAsked, hook, parks, joinedAt>>

\* Cancelling one child: a parked one ends at once, with the hook of its own.
CancelChild(c) ==
  \/ /\ child[c] \in {"QUEUED"} \cup Parked
     /\ child' = [child EXCEPT ![c] = "CANCELLED"]
     /\ hook' = [hook EXCEPT ![c] = "due"]
     /\ UNCHANGED <<parentVars, delegation, cancelAsked, parks, history>>
  \/ /\ child[c] = "RUNNING"
     /\ cancelAsked' = [cancelAsked EXCEPT ![c] = TRUE]
     /\ UNCHANGED <<parentVars, delegation, child, hook, parks, history>>

\* Slip: the cascade stops what is running and forgets what waits.
CascadeRunningOnly ==
  /\ UNCHANGED child
  /\ cancelAsked' = [c \in Child |-> cancelAsked[c] \/ child[c] = "RUNNING"]

\* Every child that is not terminal is cancelled, or asked to stop.
Cascade ==
  /\ child' = [c \in Child |-> IF child[c] \in {"QUEUED"} \cup Parked
                                 THEN "CANCELLED" ELSE child[c]]
  /\ cancelAsked' = [c \in Child |-> cancelAsked[c] \/ child[c] = "RUNNING"]

\* cancel_parked_run of the parent; only a suspended one takes its children along.
CancelParent ==
  /\ parent \in {"QUEUED", "WAITING_FOR_APPROVAL"}
  /\ parent' = "CANCELLED"
  /\ waitingFor' = "none"
  /\ IF parent = "WAITING_FOR_APPROVAL" /\ inv = "SUSPENDED" /\ delegation = "RUNNING"
       THEN Cascade /\ delegation' = "CANCELLED" /\ inv' = "FAILED"
       ELSE UNCHANGED <<child, cancelAsked, delegation, inv>>
  /\ UNCHANGED <<usage, pc, mem, parked, own, crashes, hook, parks, history>>

-----------------------------------------------------------------------------
ParentStep ==
  \/ ClaimParent \/ Materialize \/ RejectDelegation \/ Redispatch \/ RecordUsage
  \/ ParkForChildren \/ ParkForApproval \/ EndParent

ChildStep(c) == ClaimChild(c) \/ EndChild(c) \/ ParkChild(c) \/ ResumeChild(c)

HookStep(c) == AfterRun(c) \/ Join(c)

Next ==
  \/ ParentStep \/ ParkedHook \/ ApprovalResolved
  \/ \E c \in Child : ChildStep(c) \/ HookStep(c) \/ CancelChild(c) \/ ReapChild(c)
  \/ CancelParent \/ CrashParent \/ LoseHook

Spec == Init /\ [][Next]_vars

\* Workers poll, executions end, approvals are answered or expire, and a hook
\* that was started is finished.  Clients, crashes and the choice to park are
\* not forced.
Fairness ==
  /\ WF_vars(ParentStep)
  /\ WF_vars(ParkedHook)
  /\ \A c \in Child : /\ WF_vars(ClaimChild(c) \/ EndChild(c) \/ ResumeChild(c))
                      /\ WF_vars(HookStep(c))

FairSpec == Spec /\ Fairness

-----------------------------------------------------------------------------
(* Properties *)

\* The ledger row and the parent's invocation always move together: the call is
\* suspended exactly while the delegation runs, and a joined delegation has only
\* terminal children (materialize, _child_terminal, _cancel_delegated_children).
LedgerMatchesInvocation ==
  /\ delegation = "RUNNING" <=> inv = "SUSPENDED"
  /\ delegation = "JOINED" => (\A c \in Child : Terminal(c)) /\ inv \in {"SUCCEEDED", "FAILED"}

\* The children's usage is charged to the parent at most once, however many of
\* their hooks race to join.
ChargedAtMostOnce ==
  usage <= own + (IF delegation = "JOINED" THEN Cardinality(Child) ELSE 0)

\* Cancelling a suspended parent leaves no child behind: each is terminal or has
\* been asked to stop.
CascadeReachesEveryChild ==
  delegation = "CANCELLED" => \A c \in Child : Terminal(c) \/ cancelAsked[c]

\* After the join the parent's usage equals its own plus its children's, unless a
\* worker held the parent at the join and writes back a copy from before it.
\* (_child_terminal and update_counters, across claims and crashes.)
UsageIsAdditive == delegation = "JOINED" /\ joinedAt = "idle" => usage = own + Cardinality(Child)

\* A parent that waits for its children does not wait forever: whether the join
\* comes before the parent has parked or after, one of the two hooks wakes it,
\* unless a hook was lost (DelegationJoin.after_run and parent_parked).
ParentIsJoined == waitingFor = "child_run" ~> waitingFor # "child_run" \/ losses > 0
=============================================================================
