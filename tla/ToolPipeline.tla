---------------------------- MODULE ToolPipeline ----------------------------
(***************************************************************************)
(* The tool pipeline of one run: dispatching a batch of tool calls through *)
(* policy, approval, effect watermark, execution and settlement, with the  *)
(* recovery of whatever an earlier worker left behind (tools/executor.py,  *)
(* the invocation and approval repositories, application/approval_service  *)
(* and the parts of runtime/executor.py that suspend, finalize and cancel).*)
(*                                                                         *)
(* The calls of the batch repeat one tool with the same arguments, in      *)
(* order; their rows differ by call id, as the idempotency key does.       *)
(* One action is one transaction or one external step.  A worker works on  *)
(* the copy of the invocation row it last read or wrote; only leased       *)
(* writes notice that the run was taken away from it.                      *)
(***************************************************************************)
EXTENDS Naturals, RunStates

CONSTANTS
  Worker,          \* worker processes
  NoWorker,        \* lease_owner IS NULL
  NumCalls,        \* calls in the batch
  Classes,         \* idempotency classes of the tools considered
  Authorities,     \* policy answers considered
  MaxAttempts,     \* lease expirations before the reaper fails the run
  MaxPolicyChanges \* bound: how often policy or grants change during the run

IdempotencyClass == {"READ_ONLY", "IDEMPOTENT", "CONDITIONALLY_IDEMPOTENT", "NON_IDEMPOTENT"}

\* What the policy engine and the standing grants say of the call, from the
\* most lenient to the strictest.  STANDING is REQUIRE_APPROVAL covered by a
\* standing authorization.
Authority == {"ALLOW", "STANDING", "REQUIRE_APPROVAL", "DENY"}

ASSUME ToolPipelineAssumption ==
  /\ NoWorker \notin Worker
  /\ NumCalls \in Nat \ {0}
  /\ Classes \subseteq IdempotencyClass
  /\ Authorities \subseteq Authority
  /\ MaxAttempts \in Nat \ {0}
  /\ MaxPolicyChanges \in Nat

VARIABLES
  \* The run row.
  status,          \* runs.status
  owner,           \* runs.lease_owner
  epoch,           \* runs.lease_epoch
  expirations,     \* runs.lease_expirations
  \* The tool and the rules that hold for it.
  tool,            \* its idempotency class, and whether its side effect is not NONE
  authority,       \* what policy and grants say now
  lenient,         \* the most lenient authority so far, for the properties
  policyVersion,   \* the version of the policy
  \* tool_invocations and approvals, one of each per call.
  inv,             \* status and effect_sent_at of the row
  approval,        \* status of the approval and the policy version it was asked under
  \* The outside world.
  effects,         \* how often the call's effect happened
  \* The worker processes.
  pc,              \* where the worker is in the pipeline
  lease,           \* the epoch of its claim
  cur,             \* the call it works on
  seen,            \* its copy of the invocation row
  decision,        \* the authority it was given, or APPROVED by its owner
  under,           \* the policy version of that decision
  result,          \* the tool's result
  \* A cancellation in progress.
  cancelRead       \* the parked status the endpoint read, or none

rowVars    == <<status, owner, epoch, expirations>>
policyVars == <<authority, lenient, policyVersion>>
localVars  == <<seen, decision, under, result>>
workerVars == <<pc, lease, cur, localVars>>
vars == <<rowVars, tool, policyVars, inv, approval, effects, workerVars, cancelRead>>

Call == 1..NumCalls

-----------------------------------------------------------------------------
(* Types and tables *)

ToolInvocationStatus == {"PROPOSED", "AUTHORIZED", "WAITING_FOR_APPROVAL", "RUNNING",
                         "SUCCEEDED", "FAILED", "DENIED", "UNCERTAIN"}

Settled == {"SUCCEEDED", "FAILED", "DENIED", "UNCERTAIN"}

ApprovalStatus == {"PENDING", "APPROVED", "DENIED", "EXPIRED", "CANCELLED"}

\* The only moves an invocation row may make.
ALLOWED_TOOL_TRANSITIONS ==
  [s \in ToolInvocationStatus |->
     CASE s = "PROPOSED"             -> {"AUTHORIZED", "WAITING_FOR_APPROVAL", "DENIED"}
       [] s = "AUTHORIZED"           -> {"RUNNING", "WAITING_FOR_APPROVAL"}
       [] s = "WAITING_FOR_APPROVAL" -> {"AUTHORIZED", "DENIED"}
       [] s = "RUNNING"              -> {"RUNNING", "SUCCEEDED", "FAILED", "UNCERTAIN"}
       [] OTHER                      -> {}]

NoRow == [status |-> "none", sent |-> FALSE]

Invocation == [status : ToolInvocationStatus \cup {"none"}, sent : BOOLEAN]

NoApproval == [status |-> "none", version |-> 0]

Approval == [status : ApprovalStatus \cup {"none"}, version : 0..MaxPolicyChanges]

\* idle; the pipeline's steps; the run outcomes a worker is about to finalize.
Outcomes == {"complete", "fail", "stop", "suspend"}
Step == {"dispatch", "lookup", "mark_uncertain", "approval", "decide", "effect", "finish",
         "reap"}

ToolResult == {"SUCCEEDED", "FAILED", "UNCERTAIN"}

TypeOK ==
  /\ status \in RunStatus
  /\ owner \in Worker \cup {NoWorker}
  /\ epoch \in Nat
  /\ expirations \in Nat
  /\ tool \in [class : IdempotencyClass, sideEffect : BOOLEAN]
  /\ authority \in Authority
  /\ lenient \in Authority
  /\ policyVersion \in 0..MaxPolicyChanges
  /\ inv \in [Call -> Invocation]
  /\ approval \in [Call -> Approval]
  /\ effects \in [Call -> Nat]
  /\ pc \in [Worker -> {"idle"} \cup Step \cup Outcomes]
  /\ lease \in [Worker -> Nat]
  /\ cur \in [Worker -> Call]
  /\ seen \in [Worker -> Invocation]
  /\ decision \in [Worker -> Authority \cup {"APPROVED"}]
  /\ under \in [Worker -> 0..MaxPolicyChanges]
  /\ result \in [Worker -> ToolResult]
  /\ cancelRead \in {"none", "QUEUED", "WAITING_FOR_APPROVAL"}

\* The run has just been enqueued, its model having proposed the batch.
Init ==
  /\ status = "QUEUED"
  /\ owner = NoWorker
  /\ epoch = 0
  /\ expirations = 0
  /\ tool \in [class : Classes, sideEffect : BOOLEAN]
  /\ authority \in Authorities
  /\ lenient = authority
  /\ policyVersion = 0
  /\ inv = [c \in Call |-> NoRow]
  /\ approval = [c \in Call |-> NoApproval]
  /\ effects = [c \in Call |-> 0]
  /\ pc = [w \in Worker |-> "idle"]
  /\ lease = [w \in Worker |-> 0]
  /\ cur = [w \in Worker |-> 1]
  /\ seen = [w \in Worker |-> NoRow]
  /\ decision = [w \in Worker |-> "DENY"]
  /\ under = [w \in Worker |-> 0]
  /\ result = [w \in Worker |-> "FAILED"]
  /\ cancelRead = "none"

-----------------------------------------------------------------------------
(* Parts of a worker's steps *)

Owns(w) == owner = w /\ epoch = lease[w]

Goto(w, label) == pc' = [pc EXCEPT ![w] = label]

\* The worker forgets the call it was working on.
Forget(w) ==
  /\ seen' = [seen EXCEPT ![w] = NoRow]
  /\ decision' = [decision EXCEPT ![w] = "DENY"]
  /\ under' = [under EXCEPT ![w] = 0]
  /\ result' = [result EXCEPT ![w] = "FAILED"]

\* WorkerFencedError, a crash, or the end of the run: the worker is done.
Leave(w) ==
  /\ Goto(w, "idle")
  /\ lease' = [lease EXCEPT ![w] = 0]
  /\ cur' = [cur EXCEPT ![w] = 1]
  /\ Forget(w)

\* The call has its result: on to the next one, or to the end of the batch.
Advance(w) ==
  /\ IF cur[w] < NumCalls
       THEN Goto(w, "dispatch") /\ cur' = [cur EXCEPT ![w] = @ + 1]
       ELSE Goto(w, "complete") /\ UNCHANGED cur
  /\ Forget(w)
  /\ UNCHANGED lease

\* An exception other than a fence ends the execution as internal_error.
Fail(w) == Goto(w, "fail") /\ Forget(w) /\ UNCHANGED <<lease, cur>>

\* InvocationRepository.transition refuses: the lease first, then the row.
Fenced(w) == ~Owns(w) /\ Leave(w) /\ UNCHANGED <<inv, approval>>

Conflict(w, new) ==
  /\ Owns(w)
  /\ \/ inv[cur[w]].status # seen[w].status
     \/ new \notin ALLOWED_TOOL_TRANSITIONS[seen[w].status]
  /\ Fail(w)
  /\ UNCHANGED <<inv, approval>>

\* InvocationRepository.transition succeeds: the row becomes the worker's copy.
Write(w, new, sent) ==
  /\ Owns(w)
  /\ inv[cur[w]].status = seen[w].status
  /\ new \in ALLOWED_TOOL_TRANSITIONS[seen[w].status]
  /\ inv' = [inv EXCEPT ![cur[w]] = [status |-> new, sent |-> sent]]

\* A write after which the worker goes on with the same call.
WriteAndGo(w, new, sent, authorized, label) ==
  \/ /\ Write(w, new, sent)
     /\ seen' = [seen EXCEPT ![w] = [status |-> new, sent |-> sent]]
     /\ decision' = [decision EXCEPT ![w] = authorized]
     /\ Goto(w, label)
     /\ UNCHANGED <<approval, lease, cur, under, result>>
  \/ Fenced(w)
  \/ Conflict(w, new)

\* A write that settles the call.
Settle(w, new) ==
  \/ Write(w, new, seen[w].sent) /\ Advance(w) /\ UNCHANGED approval
  \/ Fenced(w)
  \/ Conflict(w, new)

\* What most steps of a worker leave alone.
Untouched == <<rowVars, tool, policyVars, cancelRead>>

-----------------------------------------------------------------------------
(* Dispatching a call *)

\* Slip: the classes that may be repeated and those that may not are swapped.
UncertainPriorSwapped ==
  /\ tool.class \in {"READ_ONLY", "IDEMPOTENT"}
  /\ \E c \in Call : inv[c].status = "UNCERTAIN"

\* An earlier call with the same arguments has an unknown outcome.
UncertainPrior ==
  /\ tool.class \notin {"READ_ONLY", "IDEMPOTENT"}
  /\ \E c \in Call : inv[c].status = "UNCERTAIN"

\* _dispatch_one refuses to repeat a call whose outcome is unknown.
Refuse(w) ==
  /\ pc[w] = "dispatch"
  /\ UncertainPrior
  /\ \/ Owns(w) /\ Advance(w)
     \/ ~Owns(w) /\ Leave(w)
  /\ UNCHANGED <<Untouched, inv, approval, effects>>

\* What the policy engine answers, which knows nothing of standing grants.
PolicyAnswer == IF authority = "STANDING" THEN "REQUIRE_APPROVAL" ELSE authority

\* The policy is asked before the invocation row is looked up.
Evaluate(w) ==
  /\ pc[w] = "dispatch"
  /\ ~UncertainPrior
  /\ decision' = [decision EXCEPT ![w] = PolicyAnswer]
  /\ under' = [under EXCEPT ![w] = policyVersion]
  /\ Goto(w, "lookup")
  /\ UNCHANGED <<Untouched, inv, approval, effects, lease, cur, seen, result>>

\* The token is looked at before and after each call, and before an approval is
\* asked for: a cancellation or a deadline stops the execution.
StopAtToken(w) ==
  /\ \/ pc[w] \in {"dispatch", "complete"}
     \/ pc[w] = "decide" /\ decision[w] = "REQUIRE_APPROVAL"
  /\ Goto(w, "stop")
  /\ UNCHANGED <<Untouched, inv, approval, effects, lease, cur, localVars>>

\* Slip: a sent call is replayed with its key, whatever its class.
RecoveryReplaysSent(row) ==
  CASE row.status \in Settled                      -> "RETURN_OUTCOME"
    [] row.status \in {"PROPOSED", "AUTHORIZED"}   -> "RESUME_AUTHORIZATION"
    [] row.status = "WAITING_FOR_APPROVAL"         -> "RESUME_APPROVAL"
    [] row.status = "RUNNING" /\ ~row.sent         -> "REEXECUTE"
    [] OTHER                                       -> "REPLAY_IDEMPOTENCY_KEY"

\* tool_recovery_action: what to do with the row an earlier worker left.
tool_recovery_action(row) ==
  LET repeatable == tool.class \in {"READ_ONLY", "IDEMPOTENT"} \/ ~row.sent
      keyed == tool.class = "CONDITIONALLY_IDEMPOTENT" IN
  CASE row.status \in Settled                              -> "RETURN_OUTCOME"
    [] row.status \in {"PROPOSED", "AUTHORIZED"}           -> "RESUME_AUTHORIZATION"
    [] row.status = "WAITING_FOR_APPROVAL"                 -> "RESUME_APPROVAL"
    [] row.status = "RUNNING" /\ repeatable                -> "REEXECUTE"
    [] row.status = "RUNNING" /\ ~repeatable /\ keyed      -> "REPLAY_IDEMPOTENCY_KEY"
    [] OTHER                                               -> "MARK_UNCERTAIN"

\* The row is found, whoever holds the lease, or created under the lease.
Lookup(w) ==
  /\ pc[w] = "lookup"
  /\ LET row == inv[cur[w]]
         recovery == tool_recovery_action(row) IN
     \/ /\ row = NoRow
        /\ Owns(w)
        /\ inv' = [inv EXCEPT ![cur[w]].status = "PROPOSED"]
        /\ seen' = [seen EXCEPT ![w].status = "PROPOSED"]
        /\ Goto(w, "decide")
        /\ UNCHANGED <<approval, lease, cur, decision, under, result>>
     \/ row = NoRow /\ Fenced(w)
     \/ /\ row # NoRow
        /\ recovery = "RETURN_OUTCOME"
        /\ Advance(w)
        /\ UNCHANGED <<inv, approval>>
     \/ /\ row # NoRow
        /\ recovery # "RETURN_OUTCOME"
        /\ seen' = [seen EXCEPT ![w] = row]
        /\ Goto(w, CASE recovery = "MARK_UNCERTAIN"  -> "mark_uncertain"
                     [] recovery = "RESUME_APPROVAL" -> "approval"
                     [] OTHER                        -> "decide")
        /\ UNCHANGED <<inv, approval, lease, cur, decision, under, result>>
  /\ UNCHANGED <<Untouched, effects>>

\* An effect that may have been sent and must not be repeated.
MarkUncertain(w) ==
  /\ pc[w] = "mark_uncertain"
  /\ Settle(w, "UNCERTAIN")
  /\ UNCHANGED <<Untouched, effects>>

-----------------------------------------------------------------------------
(* Policy and approval *)

\* Slip: everything that is not denied may run.
PermittedUnlessDenied(w) == decision[w] # "DENY"

\* The call may be executed without asking.
Permitted(w) == decision[w] \in {"ALLOW", "STANDING", "APPROVED"}

\* _deny_invocation on a policy that says DENY.
DenyByPolicy(w) ==
  /\ pc[w] = "decide"
  /\ decision[w] = "DENY"
  /\ Settle(w, "DENIED")
  /\ UNCHANGED <<Untouched, effects>>

\* A standing grant covers the call; when it cannot be read in time the call
\* takes the ordinary approval path.
UseStandingAuthorization(w) ==
  /\ pc[w] = "decide"
  /\ decision[w] = "REQUIRE_APPROVAL"
  /\ authority = "STANDING"
  /\ decision' = [decision EXCEPT ![w] = "STANDING"]
  /\ UNCHANGED <<Untouched, inv, approval, effects, pc, lease, cur, seen, under, result>>

\* Slip: the approval is committed before the invocation write is tried.
RequestApprovalFirst(w) ==
  /\ pc[w] = "decide"
  /\ decision[w] = "REQUIRE_APPROVAL"
  /\ approval[cur[w]] = NoApproval
  /\ approval' = [approval EXCEPT ![cur[w]] = [status |-> "PENDING", version |-> under[w]]]
  /\ \/ Write(w, "WAITING_FOR_APPROVAL", seen[w].sent)
     \/ ~Owns(w) /\ UNCHANGED inv
  /\ Goto(w, "suspend")
  /\ Forget(w)
  /\ UNCHANGED <<Untouched, effects, lease, cur>>

\* _request_approval: approval and waiting invocation are one transaction; an
\* invocation has at most one approval, whatever became of it.
RequestApproval(w) ==
  /\ pc[w] = "decide"
  /\ decision[w] = "REQUIRE_APPROVAL"
  /\ \/ /\ approval[cur[w]] # NoApproval
        /\ Fail(w)
        /\ UNCHANGED <<inv, approval>>
     \/ /\ approval[cur[w]] = NoApproval
        /\ \/ /\ Write(w, "WAITING_FOR_APPROVAL", seen[w].sent)
              /\ approval' = [approval EXCEPT ![cur[w]] =
                                [status |-> "PENDING", version |-> under[w]]]
              /\ Goto(w, "suspend")
              /\ Forget(w)
              /\ UNCHANGED <<lease, cur>>
           \/ Fenced(w)
           \/ Conflict(w, "WAITING_FOR_APPROVAL")
  /\ UNCHANGED <<Untouched, effects>>

\* revalidation_denial_reason: the rules as they are now refuse an approved call.
Invalidated(c) ==
  \/ authority = "DENY"
  \/ approval[c].version # policyVersion /\ PolicyAnswer # "ALLOW"

\* _resume_approval acts on the approval as it stands.
ResumeApproval(w) ==
  /\ pc[w] = "approval"
  /\ LET c == cur[w] IN
     \/ /\ approval[c] = NoApproval
        /\ Fail(w)
        /\ UNCHANGED <<inv, approval>>
     \/ /\ approval[c].status = "PENDING"
        /\ Goto(w, "suspend")
        /\ Forget(w)
        /\ UNCHANGED <<inv, approval, lease, cur>>
     \/ /\ approval[c].status \in {"DENIED", "EXPIRED", "CANCELLED"}
        /\ Settle(w, "DENIED")
     \/ /\ approval[c].status = "APPROVED"    \* its owner may have lost a scope
        /\ \E scopesShrank \in BOOLEAN :
             IF Invalidated(c) \/ scopesShrank
               THEN Settle(w, "DENIED")
               ELSE WriteAndGo(w, "AUTHORIZED", seen[w].sent, "APPROVED", "lookup")
  /\ UNCHANGED <<Untouched, effects>>

-----------------------------------------------------------------------------
(* Execution *)

Authorize(w) ==
  /\ pc[w] = "decide"
  /\ Permitted(w)
  /\ seen[w].status = "PROPOSED"
  /\ WriteAndGo(w, "AUTHORIZED", seen[w].sent, decision[w], "decide")
  /\ UNCHANGED <<Untouched, effects>>

Start(w) ==
  /\ pc[w] = "decide"
  /\ Permitted(w)
  /\ seen[w].status = "AUTHORIZED"
  /\ WriteAndGo(w, "RUNNING", seen[w].sent, decision[w], "decide")
  /\ UNCHANGED <<Untouched, effects>>

\* The tool declares a side effect and the worker's copy has no watermark yet.
WatermarkNeeded(w) == tool.sideEffect /\ ~seen[w].sent

\* mark_effect_sent: the watermark is committed under the lease before a tool
\* with a side effect is called; the copy of it spares a second write.
MarkEffectSent(w) ==
  /\ pc[w] = "decide"
  /\ Permitted(w)
  /\ seen[w].status = "RUNNING"
  /\ IF WatermarkNeeded(w)
       THEN WriteAndGo(w, "RUNNING", TRUE, decision[w], "effect")
       ELSE /\ Goto(w, "effect")
            /\ UNCHANGED <<inv, approval, lease, cur, localVars>>
  /\ UNCHANGED <<Untouched, effects>>

\* The pre-effect check refuses, or no time is left to call the tool.
PreEffectFails(w) ==
  /\ pc[w] = "decide"
  /\ Permitted(w)
  /\ seen[w].status = "RUNNING"
  /\ result' = [result EXCEPT ![w] = "FAILED"]
  /\ Goto(w, "finish")
  /\ UNCHANGED <<Untouched, inv, approval, effects, lease, cur, seen, decision, under>>

\* The outside world: the tool is called, and its effect happens or not.
Effect(w, happens) ==
  effects' = IF happens THEN [effects EXCEPT ![cur[w]] = @ + 1] ELSE effects

\* tool.execute returns, or raises: a result that claims success is one.
Execute(w) ==
  /\ pc[w] = "effect"
  /\ \E happens \in BOOLEAN, r \in ToolResult :
       /\ r = "SUCCEEDED" => happens
       /\ Effect(w, happens)
       /\ result' = [result EXCEPT ![w] = r]
  /\ Goto(w, "finish")
  /\ UNCHANGED <<Untouched, inv, approval, lease, cur, seen, decision, under>>

\* A cancellation, an exhausted budget or a missing row is not turned into a
\* result: it unwinds the execution and leaves the invocation running.
Interrupt(w) ==
  /\ pc[w] = "effect"
  /\ \E happens \in BOOLEAN : Effect(w, happens)
  /\ \E label \in {"stop", "fail"} : Goto(w, label)
  /\ Forget(w)
  /\ UNCHANGED <<Untouched, inv, approval, lease, cur>>

\* The call's time is over before the tool answers; media generation fails.
TimeOut(w) ==
  /\ pc[w] = "effect"
  /\ \E happens \in BOOLEAN : Effect(w, happens)
  /\ \E mediaGeneration \in BOOLEAN :
       result' = [result EXCEPT ![w] =
         IF seen[w].sent /\ tool.class = "NON_IDEMPOTENT" /\ ~mediaGeneration
           THEN "UNCERTAIN" ELSE "FAILED"]
  /\ Goto(w, "finish")
  /\ UNCHANGED <<Untouched, inv, approval, lease, cur, seen, decision, under>>

\* _finish settles the invocation under the lease.
Finish(w) ==
  /\ pc[w] = "finish"
  /\ Settle(w, result[w])
  /\ UNCHANGED <<Untouched, effects>>

-----------------------------------------------------------------------------
(* The run around the batch *)

\* A worker takes the run and dispatches its batch, answered calls included.
Claim(w) ==
  /\ pc[w] = "idle"
  /\ status = "QUEUED"
  /\ expirations < MaxAttempts
  /\ status' = "RUNNING"
  /\ owner' = w
  /\ epoch' = epoch + 1
  /\ lease' = [lease EXCEPT ![w] = epoch + 1]
  /\ Goto(w, "dispatch")
  /\ UNCHANGED <<expirations, tool, policyVars, inv, approval, effects, cur, localVars, cancelRead>>

\* The status a run is finalized with.
FinalStatus(label) ==
  CASE label = "complete" -> {"COMPLETED"}
    [] label = "fail"     -> {"FAILED"}
    [] label = "stop"     -> {"CANCELLED", "FAILED"}
    [] label = "suspend"  -> {"WAITING_FOR_APPROVAL"}

Finalize(w) ==
  /\ pc[w] \in Outcomes
  /\ \/ Owns(w) /\ status' \in FinalStatus(pc[w]) /\ owner' = NoWorker
     \/ ~Owns(w) /\ UNCHANGED <<status, owner>>
  /\ Leave(w)
  /\ UNCHANGED <<epoch, expirations, tool, policyVars, inv, approval, effects, cancelRead>>

\* The approvals of the run that nobody answered.
cancel_for_run ==
  approval' = [c \in Call |-> IF approval[c].status = "PENDING"
                                THEN [approval[c] EXCEPT !.status = "CANCELLED"]
                                ELSE approval[c]]

\* The suspension cannot be committed: its transaction rolls back.
SuspendFails(w) ==
  /\ pc[w] = "suspend"
  /\ Owns(w)
  /\ Goto(w, "reap")
  /\ UNCHANGED <<Untouched, inv, approval, effects, lease, cur, localVars>>

\* finalize then cancels the approvals, without a lease, and fails the run.
Reap(w) ==
  /\ pc[w] = "reap"
  /\ cancel_for_run
  /\ Goto(w, "fail")
  /\ UNCHANGED <<Untouched, inv, effects, lease, cur, localVars>>

Crash(w) ==
  /\ pc[w] # "idle"
  /\ Leave(w)
  /\ UNCHANGED <<Untouched, inv, approval, effects>>

\* The lease expired, with its worker dead or only slow.
Reclaim ==
  /\ status = "RUNNING"
  /\ expirations' = expirations + 1
  /\ status' = IF expirations' >= MaxAttempts THEN "FAILED" ELSE "QUEUED"
  /\ owner' = NoWorker
  /\ UNCHANGED <<epoch, tool, policyVars, inv, approval, effects, workerVars, cancelRead>>

-----------------------------------------------------------------------------
(* The owner, the policy and the reaper of approvals *)

\* ApprovalService.resolve and expire_due: the first answer counts, and wakes
\* the run if it is parked by then.
Resolve(c, answer) ==
  /\ approval[c].status = "PENDING"
  /\ approval' = [approval EXCEPT ![c].status = answer]
  /\ status' = IF status = "WAITING_FOR_APPROVAL" THEN "QUEUED" ELSE status
  /\ UNCHANGED <<owner, epoch, expirations, tool, policyVars, inv, effects, workerVars, cancelRead>>

Rank(a) == CASE a = "ALLOW" -> 0 [] a = "STANDING" -> 1 [] a = "REQUIRE_APPROVAL" -> 2 [] a = "DENY" -> 3

\* From now on other rules hold for the call.
Rule(a) ==
  /\ authority' = a
  /\ lenient' = IF Rank(a) < Rank(lenient) THEN a ELSE lenient
  /\ UNCHANGED <<rowVars, tool, inv, approval, effects, workerVars, cancelRead>>

\* A new policy version.
ChangePolicy ==
  /\ policyVersion < MaxPolicyChanges
  /\ policyVersion' = policyVersion + 1
  /\ \E a \in Authorities : Rule(a)

\* A standing grant is given, used up or revoked.
ChangeGrant ==
  /\ authority \in {"STANDING", "REQUIRE_APPROVAL"}
  /\ \E a \in (Authorities \cap {"STANDING", "REQUIRE_APPROVAL"}) \ {authority} : Rule(a)
  /\ UNCHANGED policyVersion

\* The cancel endpoint reads the run without locking it.
CancelRead ==
  /\ cancelRead = "none"
  /\ status \in {"QUEUED", "WAITING_FOR_APPROVAL"}
  /\ cancelRead' = status
  /\ UNCHANGED <<rowVars, tool, policyVars, inv, approval, effects, workerVars>>

\* It cancels the approvals of a run it saw waiting, then the run, if that is
\* still as it was.  A run that moved on to a worker, or ended, makes the
\* handler keep what it did so far; anything else rolls back.
CancelCommit ==
  /\ cancelRead # "none"
  /\ cancelRead' = "none"
  /\ LET moved == status # cancelRead
         kept  == ~moved \/ status = "RUNNING" \/ status \in TERMINAL_RUN_STATUSES IN
     /\ status' = IF moved THEN status ELSE "CANCELLED"
     /\ IF kept /\ cancelRead = "WAITING_FOR_APPROVAL" THEN cancel_for_run
                                                       ELSE UNCHANGED approval
  /\ UNCHANGED <<owner, epoch, expirations, tool, policyVars, inv, effects, workerVars>>

-----------------------------------------------------------------------------
PipelineStep(w) ==
  \/ Refuse(w) \/ Evaluate(w) \/ StopAtToken(w) \/ Lookup(w) \/ MarkUncertain(w)
  \/ DenyByPolicy(w) \/ UseStandingAuthorization(w) \/ RequestApproval(w) \/ ResumeApproval(w)
  \/ Authorize(w) \/ Start(w) \/ MarkEffectSent(w) \/ PreEffectFails(w)
  \/ Execute(w) \/ Interrupt(w) \/ TimeOut(w) \/ Finish(w)

RunStep(w) == Claim(w) \/ Finalize(w) \/ SuspendFails(w) \/ Reap(w) \/ Crash(w)

Next ==
  \/ \E w \in Worker : PipelineStep(w) \/ RunStep(w)
  \/ \E c \in Call, answer \in {"APPROVED", "DENIED", "EXPIRED"} : Resolve(c, answer)
  \/ Reclaim
  \/ ChangePolicy
  \/ ChangeGrant
  \/ CancelRead
  \/ CancelCommit

Spec == Init /\ [][Next]_vars

-----------------------------------------------------------------------------
(* Properties *)

\* The effect of a non-idempotent call happens at most once, whatever workers
\* crash, stall past their lease or take the call up again: the watermark is
\* committed first, under the lease, recovery never repeats a sent call, and no
\* later write of any worker forgets effect_sent_at.
AtMostOnceEffect ==
  tool.sideEffect =>
    \A c \in Call :
      /\ effects[c] > 0 => inv[c].sent
      /\ tool.class = "NON_IDEMPOTENT" => effects[c] <= 1

\* Nothing is performed against the rules: while policy and grants have never
\* been more lenient than REQUIRE_APPROVAL, an effect has an approved approval.
EffectIsAuthorized ==
  Rank(lenient) >= Rank("REQUIRE_APPROVAL") =>
    \A c \in Call : effects[c] > 0 => approval[c].status = "APPROVED"

\* A call whose outcome is unknown is not repeated by a later identical call.
UncertainIsNotRepeated ==
  tool.class \notin {"READ_ONLY", "IDEMPOTENT"} =>
    \A c, d \in Call : inv[c].status = "UNCERTAIN" /\ c < d => effects[d] = 0

\* A waiting invocation has its approval, and an unanswered approval still has
\* its invocation waiting for it ("a proposed invocation with no approval row is
\* a run that waits forever").
ApprovalAndInvocationAgree ==
  \A c \in Call :
    /\ inv[c].status = "WAITING_FOR_APPROVAL" => approval[c] # NoApproval
    /\ approval[c].status = "PENDING" => inv[c].status = "WAITING_FOR_APPROVAL"
=============================================================================
