------------------------- MODULE ToolPipelineProofs -------------------------
(***************************************************************************)
(* Proofs about ToolPipeline, for any set of workers, any batch, any       *)
(* number of attempts and of policy changes.                               *)
(***************************************************************************)
EXTENDS ToolPipeline, TLAPS

\* The steps at which a worker acts on its copy of the row.
Acting == {"mark_uncertain", "approval", "decide", "effect", "finish"}

\* The copy has the status that the step was chosen for, and a tool is called only
\* when the call is permitted and, if it has a side effect, watermarked.
CopyFitsStep ==
  \A w \in Worker :
    /\ pc[w] \in {"mark_uncertain", "effect", "finish"} => seen[w].status = "RUNNING"
    /\ pc[w] = "approval" => seen[w].status = "WAITING_FOR_APPROVAL"
    /\ pc[w] = "decide" => seen[w].status \in {"PROPOSED", "AUTHORIZED", "RUNNING"}
    /\ pc[w] = "effect" => Permitted(w) /\ (tool.sideEffect => seen[w].sent)

\* The copy of a worker that still holds the lease is the row: only a worker that
\* has lost the lease can be acting on an old one.
OwnerHasTheRow == \A w \in Worker : Owns(w) /\ pc[w] \in Acting => seen[w] = inv[cur[w]]

\* The watermark is never taken back, and it comes only with the start of the call.
Late(row) == row.sent => row.status \in {"RUNNING"} \cup Settled

WatermarkStays ==
  /\ \A w \in Worker : Late(seen[w]) /\ (seen[w].sent => inv[cur[w]].sent)
  /\ \A c \in Call : Late(inv[c])

\* Of a non-idempotent call with a side effect: nobody is about to repeat a sent
\* call, and a worker that is about to call the tool is the first and the only one.
OneSender ==
  tool.sideEffect /\ tool.class = "NON_IDEMPOTENT" =>
    /\ \A w \in Worker : pc[w] = "decide" /\ seen[w].status = "RUNNING" => ~seen[w].sent
    /\ \A w \in Worker : pc[w] = "effect" => effects[cur[w]] = 0
    /\ \A v, w \in Worker : pc[v] = "effect" /\ pc[w] = "effect" /\ cur[v] = cur[w] => v = w

\* The rules have always asked for an approval, or refused.
Strict == Rank(lenient) >= Rank("REQUIRE_APPROVAL")

\* A worker that was told "approved" works on a call whose approval stands, and one
\* that was told more lenient rules was told so by rules that held.
DecisionIsEarned ==
  /\ \A w \in Worker : decision[w] = "APPROVED" => approval[cur[w]].status = "APPROVED"
  /\ Strict => /\ authority \in {"REQUIRE_APPROVAL", "DENY"}
               /\ \A w \in Worker : decision[w] \notin {"ALLOW", "STANDING"}

\* The calls are answered in order: what lies behind a worker, or before a call with
\* an effect, is settled with a known outcome; only a refused call is left behind.
Known(c) == inv[c].status \in Settled \ {"UNCERTAIN"}

CallsInOrder ==
  tool.class \notin {"READ_ONLY", "IDEMPOTENT"} =>
    /\ \A w \in Worker : pc[w] \in Acting \cup {"lookup"} => \A c \in 1..(cur[w] - 1) : Known(c)
    /\ \A w \in Worker : pc[w] = "dispatch" =>
         (\E c \in Call : inv[c].status = "UNCERTAIN") \/ \A c \in 1..(cur[w] - 1) : Known(c)
    /\ \A d \in Call : effects[d] > 0 => \A c \in 1..(d - 1) : Known(c)

\* A worker between runs is at the first call with nothing in hand.
IdleIsFresh ==
  \A w \in Worker :
    /\ pc[w] = "idle" => cur[w] = 1
    /\ pc[w] \in {"idle", "dispatch"} => seen[w] = NoRow

Promises ==
  /\ IdleIsFresh
  /\ CopyFitsStep
  /\ OwnerHasTheRow
  /\ WatermarkStays
  /\ OneSender
  /\ AtMostOnceEffect
  /\ DecisionIsEarned
  /\ EffectIsAuthorized
  /\ ApprovalAndInvocationAgree
  /\ CallsInOrder

\* The inductive invariant.
PipelineInv == TypeOK /\ Promises

-----------------------------------------------------------------------------
(* Types *)

USE ToolPipelineAssumption

\* The types of what the workers hold.
LocalsTyped ==
  /\ pc \in [Worker -> {"idle"} \cup Step \cup Outcomes]
  /\ lease \in [Worker -> Nat]
  /\ cur \in [Worker -> Call]
  /\ seen \in [Worker -> Invocation]
  /\ decision \in [Worker -> Authority \cup {"APPROVED"}]
  /\ under \in [Worker -> 0..MaxPolicyChanges]
  /\ result \in [Worker -> ToolResult]

\* The rows that the workers share.
RowsTyped == inv \in [Call -> Invocation] /\ approval \in [Call -> Approval]

\* A worker that forgets its call, leaves, fails or goes on keeps its types.
LEMMA LocalSteps ==
  ASSUME TypeOK, NEW w \in Worker
  PROVE  /\ Leave(w) => LocalsTyped'
         /\ Advance(w) => LocalsTyped'
         /\ Fail(w) => LocalsTyped'
<1> USE DEF LocalsTyped, Forget, Goto, Step, Outcomes, Authority, ToolResult
<1>1. /\ LocalsTyped /\ NoRow \in Invocation /\ 1 \in Call /\ 0 \in 0..MaxPolicyChanges
      /\ cur[w] < NumCalls => cur[w] + 1 \in Call
  BY SMTT(30) DEF TypeOK, NoRow, Invocation, Call
<1>2. Leave(w) => LocalsTyped' BY <1>1 DEF Leave
<1>3. Advance(w) => LocalsTyped' BY <1>1 DEF Advance
<1>4. Fail(w) => LocalsTyped' BY <1>1 DEF Fail
<1> QED BY <1>2, <1>3, <1>4

\* A refused write keeps the types of the rows and of what the worker holds.
LEMMA RefusedTyped ==
  ASSUME TypeOK, NEW w \in Worker, NEW new, Fenced(w) \/ Conflict(w, new)
  PROVE  LocalsTyped' /\ RowsTyped'
  BY LocalSteps DEF Fenced, Conflict, RowsTyped, TypeOK

\* So does a write that settles the call.
LEMMA SettleTyped ==
  ASSUME TypeOK, NEW w \in Worker, NEW new \in ToolInvocationStatus, Settle(w, new)
  PROVE  LocalsTyped' /\ RowsTyped'
<1>1. CASE Fenced(w) \/ Conflict(w, new) BY <1>1, RefusedTyped
<1>2. CASE Write(w, new, seen[w].sent) /\ Advance(w) /\ UNCHANGED approval
  <2>1. [status |-> new, sent |-> seen[w].sent] \in Invocation
    BY DEF TypeOK, Invocation
  <2>2. inv' \in [Call -> Invocation]
    BY <1>2, <2>1 DEF Write, TypeOK
  <2> QED BY <1>2, <2>2, LocalSteps DEF RowsTyped, TypeOK
<1> QED BY <1>1, <1>2 DEF Settle

\* So does a write after which the worker goes on.
LEMMA WriteAndGoTyped ==
  ASSUME TypeOK, NEW w \in Worker, NEW new \in ToolInvocationStatus, NEW sent \in BOOLEAN,
         NEW dec \in Authority \cup {"APPROVED"}, NEW label \in Step,
         WriteAndGo(w, new, sent, dec, label)
  PROVE  LocalsTyped' /\ RowsTyped'
<1>1. CASE Fenced(w) \/ Conflict(w, new) BY <1>1, RefusedTyped
<1>2. CASE ~(Fenced(w) \/ Conflict(w, new))
  <2>1. /\ inv' = [inv EXCEPT ![cur[w]] = [status |-> new, sent |-> sent]]
        /\ seen' = [seen EXCEPT ![w] = [status |-> new, sent |-> sent]]
        /\ decision' = [decision EXCEPT ![w] = dec]
        /\ pc' = [pc EXCEPT ![w] = label]
        /\ UNCHANGED <<approval, lease, cur, under, result>>
    BY <1>2 DEF WriteAndGo, Write, Goto
  <2>2. [status |-> new, sent |-> sent] \in Invocation
    BY DEF Invocation
  <2> QED BY <2>1, <2>2 DEF LocalsTyped, RowsTyped, TypeOK
<1> QED BY <1>1, <1>2

\* What recovery does with a row that an earlier worker left.
LEMMA RecoveryFacts ==
  ASSUME NEW row \in Invocation
  PROVE  /\ tool_recovery_action(row) = "RETURN_OUTCOME" <=> row.status \in Settled
         /\ tool_recovery_action(row) = "RESUME_APPROVAL" <=> row.status = "WAITING_FOR_APPROVAL"
         /\ tool_recovery_action(row) = "MARK_UNCERTAIN" =>
              row.status \in {"RUNNING", "none"}
         /\ tool_recovery_action(row) \in {"RESUME_AUTHORIZATION", "REEXECUTE", "REPLAY_IDEMPOTENCY_KEY"} =>
              /\ row.status \in {"PROPOSED", "AUTHORIZED", "RUNNING"}
              /\ row.status = "RUNNING" /\ tool.class = "NON_IDEMPOTENT" => ~row.sent
         /\ tool_recovery_action(row) \in {"RETURN_OUTCOME", "RESUME_APPROVAL", "MARK_UNCERTAIN",
              "RESUME_AUTHORIZATION", "REEXECUTE", "REPLAY_IDEMPOTENCY_KEY"}
<1> USE DEF Settled
<1>1. row.status \in ToolInvocationStatus \cup {"none"} /\ row.sent \in BOOLEAN
  BY DEF Invocation
<1>2. CASE row.status \in Settled
  <2>1. tool_recovery_action(row) = "RETURN_OUTCOME" BY <1>2 DEF tool_recovery_action
  <2> QED BY <1>2, <2>1
<1>3. CASE row.status \in {"PROPOSED", "AUTHORIZED"}
  <2>1. tool_recovery_action(row) = "RESUME_AUTHORIZATION" BY <1>3 DEF tool_recovery_action
  <2> QED BY <1>3, <2>1
<1>4. CASE row.status = "WAITING_FOR_APPROVAL"
  <2>1. tool_recovery_action(row) = "RESUME_APPROVAL" BY <1>4 DEF tool_recovery_action
  <2> QED BY <1>4, <2>1
<1>5. CASE row.status = "RUNNING"
  <2>1. CASE tool.class \in {"READ_ONLY", "IDEMPOTENT"} \/ ~row.sent
    <3>1. tool_recovery_action(row) = "REEXECUTE" BY <1>5, <2>1 DEF tool_recovery_action
    <3> QED BY <1>5, <2>1, <3>1
  <2>2. CASE ~(tool.class \in {"READ_ONLY", "IDEMPOTENT"} \/ ~row.sent)
    <3>1. CASE tool.class = "CONDITIONALLY_IDEMPOTENT"
      <4>1. tool_recovery_action(row) = "REPLAY_IDEMPOTENCY_KEY" BY <1>5, <2>2, <3>1 DEF tool_recovery_action
      <4> QED BY <1>5, <3>1, <4>1
    <3>2. CASE tool.class # "CONDITIONALLY_IDEMPOTENT"
      <4>1. tool_recovery_action(row) = "MARK_UNCERTAIN" BY <1>5, <2>2, <3>2 DEF tool_recovery_action
      <4> QED BY <1>5, <2>2, <4>1
    <3> QED BY <3>1, <3>2
  <2> QED BY <2>1, <2>2
<1>6. CASE row.status = "none"
  <2>1. tool_recovery_action(row) = "MARK_UNCERTAIN" BY <1>6 DEF tool_recovery_action
  <2> QED BY <1>6, <2>1
<1> QED BY <1>1, <1>2, <1>3, <1>4, <1>5, <1>6 DEF ToolInvocationStatus

\* The step that recovery chooses for a row.
Resumes(row, label) ==
  \/ label = "mark_uncertain" /\ row.status \in {"RUNNING", "none"}
  \/ label = "approval" /\ row.status = "WAITING_FOR_APPROVAL"
  \/ /\ label = "decide" /\ row.status \in {"PROPOSED", "AUTHORIZED", "RUNNING"}
     /\ row.status = "RUNNING" /\ tool.class = "NON_IDEMPOTENT" => ~row.sent

\* A lookup creates the row, is fenced, finds an answer, or takes the row up.
LEMMA LookupCases ==
  ASSUME TypeOK, NEW w \in Worker, Lookup(w)
  PROVE  LET row == inv[cur[w]] IN
         \/ /\ row = NoRow /\ Owns(w)
            /\ inv' = [inv EXCEPT ![cur[w]].status = "PROPOSED"]
            /\ seen' = [seen EXCEPT ![w].status = "PROPOSED"]
            /\ Goto(w, "decide")
            /\ UNCHANGED <<approval, lease, cur, decision, under, result>>
         \/ Fenced(w)
         \/ row.status \in Settled /\ Advance(w) /\ UNCHANGED <<inv, approval>>
         \/ /\ row # NoRow
            /\ seen' = [seen EXCEPT ![w] = row]
            /\ \E label \in {"mark_uncertain", "approval", "decide"} : Resumes(row, label) /\ Goto(w, label)
            /\ UNCHANGED <<inv, approval, lease, cur, decision, under, result>>
<1> DEFINE row == inv[cur[w]]
           recovery == tool_recovery_action(row)
<1>1. row \in Invocation
  BY DEF TypeOK
<1>2. CASE row = NoRow BY <1>2 DEF Lookup
<1>3. CASE row # NoRow /\ recovery = "RETURN_OUTCOME"
  BY <1>1, <1>3, RecoveryFacts DEF Lookup
<1>4. CASE row # NoRow /\ recovery # "RETURN_OUTCOME"
  <2>1. /\ seen' = [seen EXCEPT ![w] = row]
        /\ Goto(w, CASE recovery = "MARK_UNCERTAIN"  -> "mark_uncertain"
                     [] recovery = "RESUME_APPROVAL" -> "approval"
                     [] OTHER                        -> "decide")
        /\ UNCHANGED <<inv, approval, lease, cur, decision, under, result>>
    BY <1>4 DEF Lookup
  <2>2. CASE recovery = "MARK_UNCERTAIN"
    <3>1. Resumes(row, "mark_uncertain") BY <1>1, <2>2, RecoveryFacts DEF Resumes
    <3>2. Goto(w, "mark_uncertain") BY <2>1, <2>2
    <3> QED BY <1>4, <2>1, <3>1, <3>2
  <2>3. CASE recovery = "RESUME_APPROVAL"
    <3>1. Resumes(row, "approval") BY <1>1, <2>3, RecoveryFacts DEF Resumes
    <3>2. Goto(w, "approval") BY <2>1, <2>3
    <3> QED BY <1>4, <2>1, <3>1, <3>2
  <2>4. CASE recovery \notin {"MARK_UNCERTAIN", "RESUME_APPROVAL"}
    <3>1. Resumes(row, "decide") BY <1>1, <1>4, <2>4, RecoveryFacts DEF Resumes
    <3>2. Goto(w, "decide") BY <2>1, <2>4
    <3> QED BY <1>4, <2>1, <3>1, <3>2
  <2> QED BY <2>2, <2>3, <2>4
<1> QED BY <1>2, <1>3, <1>4

\* Every step keeps types.
LEMMA PipelineTypeStep == TypeOK /\ [Next]_vars => TypeOK'
<1> SUFFICES ASSUME TypeOK, [Next]_vars PROVE TypeOK'
  OBVIOUS
<1>0. /\ LocalsTyped /\ RowsTyped /\ effects \in [Call -> Nat]
      /\ \A w \in Worker : /\ seen[w] \in Invocation /\ seen[w].sent \in BOOLEAN
                           /\ cur[w] \in Call /\ decision[w] \in Authority \cup {"APPROVED"}
                           /\ result[w] \in ToolInvocationStatus
      /\ {"PROPOSED", "AUTHORIZED", "RUNNING", "UNCERTAIN", "DENIED", "WAITING_FOR_APPROVAL"}
           \subseteq ToolInvocationStatus
      /\ {"decide", "lookup", "effect"} \subseteq Step
  BY DEF TypeOK, LocalsTyped, RowsTyped, Invocation, ToolInvocationStatus, ToolResult, Step
<1>1. ASSUME LocalsTyped', RowsTyped', effects' \in [Call -> Nat], UNCHANGED Untouched PROVE TypeOK'
  BY <1>1 DEF LocalsTyped, RowsTyped, Untouched, rowVars, policyVars, TypeOK
<1>2. ASSUME NEW w \in Worker, Refuse(w) \/ MarkUncertain(w) \/ DenyByPolicy(w) \/ Finish(w)
      PROVE TypeOK'
  BY <1>0, <1>1, <1>2, LocalSteps, SettleTyped
     DEF Refuse, MarkUncertain, DenyByPolicy, Finish, RowsTyped
<1>3. ASSUME NEW w \in Worker, Evaluate(w) PROVE TypeOK'
  <2>1. PolicyAnswer \in Authority \cup {"APPROVED"} /\ policyVersion \in 0..MaxPolicyChanges
    BY DEF PolicyAnswer, Authority, TypeOK
  <2> QED BY <1>0, <1>1, <1>3, <2>1 DEF Evaluate, Goto, LocalsTyped, RowsTyped
<1>4. ASSUME NEW w \in Worker,
             \/ StopAtToken(w) \/ UseStandingAuthorization(w) \/ PreEffectFails(w) \/ SuspendFails(w)
      PROVE TypeOK'
  BY <1>0, <1>1, <1>4
     DEF StopAtToken, UseStandingAuthorization, PreEffectFails, SuspendFails, Goto, localVars,
         LocalsTyped, RowsTyped, Outcomes, Step, Authority, ToolResult
<1>5. ASSUME NEW w \in Worker, Lookup(w) PROVE TypeOK'
  <2>1. UNCHANGED <<Untouched, effects>>
    BY <1>5 DEF Lookup
  <2>2. CASE Fenced(w) BY <1>0, <1>1, <2>1, <2>2, RefusedTyped
  <2>3. CASE Advance(w) /\ UNCHANGED <<inv, approval>>
    BY <1>0, <1>1, <2>1, <2>3, LocalSteps DEF RowsTyped
  <2>4. CASE /\ inv' = [inv EXCEPT ![cur[w]].status = "PROPOSED"]
             /\ seen' = [seen EXCEPT ![w].status = "PROPOSED"]
             /\ Goto(w, "decide")
             /\ UNCHANGED <<approval, lease, cur, decision, under, result>>
    <3>1. \A row \in Invocation : [row EXCEPT !.status = "PROPOSED"] \in Invocation
      BY <1>0 DEF Invocation
    <3>2. /\ inv' \in [Call -> Invocation] /\ seen' \in [Worker -> Invocation]
          /\ pc' \in [Worker -> {"idle"} \cup Step \cup Outcomes]
      BY <1>0, <2>4, <3>1 DEF Goto, LocalsTyped, RowsTyped
    <3> QED BY <1>0, <1>1, <2>1, <2>4, <3>2 DEF LocalsTyped, RowsTyped
  <2>5. CASE /\ seen' = [seen EXCEPT ![w] = inv[cur[w]]]
             /\ \E label \in {"mark_uncertain", "approval", "decide"} : Goto(w, label)
             /\ UNCHANGED <<inv, approval, lease, cur, decision, under, result>>
    <3>1. seen' \in [Worker -> Invocation] /\ pc' \in [Worker -> {"idle"} \cup Step \cup Outcomes]
      BY <1>0, <2>5 DEF Goto, LocalsTyped, RowsTyped, Step
    <3> QED BY <1>0, <1>1, <2>1, <2>5, <3>1 DEF LocalsTyped, RowsTyped
  <2> QED BY <1>5, <2>2, <2>3, <2>4, <2>5, LookupCases
<1>6. ASSUME NEW w \in Worker, RequestApproval(w) PROVE TypeOK'
  <2>1. UNCHANGED <<Untouched, effects>>
    BY <1>6 DEF RequestApproval
  <2>2. CASE Fail(w) /\ UNCHANGED <<inv, approval>>
    BY <1>0, <1>1, <2>1, <2>2, LocalSteps DEF RowsTyped
  <2>3. CASE Fenced(w) \/ Conflict(w, "WAITING_FOR_APPROVAL")
    BY <1>0, <1>1, <2>1, <2>3, RefusedTyped
  <2>4. CASE /\ Write(w, "WAITING_FOR_APPROVAL", seen[w].sent)
             /\ approval' = [approval EXCEPT ![cur[w]] = [status |-> "PENDING", version |-> under[w]]]
             /\ Goto(w, "suspend") /\ Forget(w) /\ UNCHANGED <<lease, cur>>
    <3>1. /\ [status |-> "WAITING_FOR_APPROVAL", sent |-> seen[w].sent] \in Invocation
          /\ [status |-> "PENDING", version |-> under[w]] \in Approval
          /\ NoRow \in Invocation
      BY <1>0 DEF Invocation, Approval, ApprovalStatus, LocalsTyped, NoRow
    <3>2. RowsTyped'
      BY <1>0, <2>4, <3>1 DEF Write, RowsTyped
    <3>3. LocalsTyped'
      BY <1>0, <2>4, <3>1 DEF LocalsTyped, Goto, Forget, Outcomes, Authority, ToolResult
    <3> QED BY <1>0, <1>1, <2>1, <3>2, <3>3
  <2> QED BY <1>6, <2>2, <2>3, <2>4 DEF RequestApproval
<1>7. ASSUME NEW w \in Worker, ResumeApproval(w) PROVE TypeOK'
  <2>1. UNCHANGED <<Untouched, effects>>
    BY <1>7 DEF ResumeApproval
  <2>2. CASE Fail(w) /\ UNCHANGED <<inv, approval>>
    BY <1>0, <1>1, <2>1, <2>2, LocalSteps DEF RowsTyped
  <2>3. CASE Goto(w, "suspend") /\ Forget(w) /\ UNCHANGED <<inv, approval, lease, cur>>
    <3>1. NoRow \in Invocation
      BY DEF Invocation, NoRow
    <3>2. LocalsTyped'
      BY <1>0, <2>3, <3>1 DEF LocalsTyped, Goto, Forget, Outcomes, Authority, ToolResult
    <3> QED BY <1>0, <1>1, <2>1, <2>3, <3>2 DEF RowsTyped
  <2>4. CASE Settle(w, "DENIED")
    BY <1>0, <1>1, <2>1, <2>4, SettleTyped
  <2>5. CASE WriteAndGo(w, "AUTHORIZED", seen[w].sent, "APPROVED", "lookup")
    BY <1>0, <1>1, <2>1, <2>5, WriteAndGoTyped
  <2> QED BY <1>7, <2>2, <2>3, <2>4, <2>5 DEF ResumeApproval
<1>8. ASSUME NEW w \in Worker, Authorize(w) \/ Start(w) PROVE TypeOK'
  BY <1>0, <1>1, <1>8, WriteAndGoTyped DEF Authorize, Start
<1>9. ASSUME NEW w \in Worker, MarkEffectSent(w) PROVE TypeOK'
  <2>1. UNCHANGED <<Untouched, effects>>
    BY <1>9 DEF MarkEffectSent
  <2>2. CASE WriteAndGo(w, "RUNNING", TRUE, decision[w], "effect")
    BY <1>0, <1>1, <2>1, <2>2, WriteAndGoTyped
  <2>3. CASE Goto(w, "effect") /\ UNCHANGED <<inv, approval, lease, cur, localVars>>
    BY <1>0, <1>1, <2>1, <2>3 DEF Goto, localVars, LocalsTyped, RowsTyped
  <2> QED BY <1>9, <2>2, <2>3 DEF MarkEffectSent
<1>10. ASSUME NEW w \in Worker, NEW happens \in BOOLEAN, Effect(w, happens)
       PROVE effects' \in [Call -> Nat]
  BY <1>0, <1>10 DEF Effect
<1>11. ASSUME NEW w \in Worker, Execute(w) \/ TimeOut(w) PROVE TypeOK'
  <2>1. effects' \in [Call -> Nat]
    BY <1>10, <1>11 DEF Execute, TimeOut
  <2>2. LocalsTyped'
    BY <1>0, <1>11 DEF Execute, TimeOut, LocalsTyped, Goto, Step, ToolResult
  <2> QED BY <1>0, <1>1, <1>11, <2>1, <2>2 DEF Execute, TimeOut, RowsTyped
<1>12. ASSUME NEW w \in Worker, Interrupt(w) PROVE TypeOK'
  <2>1. effects' \in [Call -> Nat]
    BY <1>10, <1>12 DEF Interrupt
  <2>2. NoRow \in Invocation
    BY DEF Invocation, NoRow
  <2>3. LocalsTyped'
    BY <1>0, <1>12, <2>2 DEF Interrupt, LocalsTyped, Goto, Forget, Outcomes, Authority, ToolResult
  <2> QED BY <1>0, <1>1, <1>12, <2>1, <2>3 DEF Interrupt, RowsTyped
<1>13. ASSUME NEW w \in Worker, Claim(w) PROVE TypeOK'
  <2>1. LocalsTyped'
    BY <1>0, <1>13 DEF Claim, Goto, LocalsTyped, localVars, Step, TypeOK
  <2> QED BY <1>13, <2>1 DEF Claim, LocalsTyped, policyVars, TypeOK, RunStatus
<1>14. ASSUME NEW w \in Worker, Finalize(w) PROVE TypeOK'
  <2>1. LocalsTyped'
    BY <1>14, LocalSteps DEF Finalize
  <2>2. FinalStatus(pc[w]) \subseteq RunStatus
    <3>1. pc[w] \in Outcomes BY <1>14 DEF Finalize
    <3>2. CASE pc[w] = "complete" BY <3>2 DEF FinalStatus, RunStatus, TERMINAL_RUN_STATUSES
    <3>3. CASE pc[w] = "fail" BY <3>3 DEF FinalStatus, RunStatus, TERMINAL_RUN_STATUSES
    <3>4. CASE pc[w] = "stop" BY <3>4 DEF FinalStatus, RunStatus, TERMINAL_RUN_STATUSES
    <3>5. CASE pc[w] = "suspend" BY <3>5 DEF FinalStatus, RunStatus, Parked
    <3> QED BY <3>1, <3>2, <3>3, <3>4, <3>5 DEF Outcomes
  <2>3. status' \in RunStatus /\ owner' \in Worker \cup {NoWorker}
    BY <1>14, <2>2 DEF Finalize, TypeOK
  <2> QED BY <1>14, <2>1, <2>3 DEF Finalize, LocalsTyped, policyVars, TypeOK
<1>15. ASSUME cancel_for_run PROVE approval' \in [Call -> Approval]
  BY <1>0, <1>15 DEF cancel_for_run, RowsTyped, Approval, ApprovalStatus
<1>16. ASSUME NEW w \in Worker, Reap(w) PROVE TypeOK'
  BY <1>0, <1>1, <1>15, <1>16 DEF Reap, Goto, LocalsTyped, RowsTyped, localVars, Outcomes
<1>17. ASSUME NEW w \in Worker, Crash(w) PROVE TypeOK'
  BY <1>0, <1>1, <1>17, LocalSteps DEF Crash, RowsTyped
<1>18. ASSUME UNCHANGED <<inv, effects, workerVars, tool>>,
              approval' \in [Call -> Approval],
              status' \in RunStatus, owner' \in Worker \cup {NoWorker}, UNCHANGED epoch,
              expirations' \in Nat,
              authority' \in Authority, lenient' \in Authority, policyVersion' \in 0..MaxPolicyChanges,
              cancelRead' \in {"none", "QUEUED", "WAITING_FOR_APPROVAL"}
       PROVE  TypeOK'
  BY <1>18 DEF TypeOK, workerVars, localVars
<1>19. CASE Reclaim
  BY <1>18, <1>19 DEF Reclaim, TypeOK, policyVars, RunStatus, TERMINAL_RUN_STATUSES
<1>20. ASSUME NEW c \in Call, NEW answer \in {"APPROVED", "DENIED", "EXPIRED"}, Resolve(c, answer)
       PROVE TypeOK'
  <2>1. approval' \in [Call -> Approval]
    BY <1>0, <1>20 DEF Resolve, RowsTyped, Approval, ApprovalStatus
  <2> QED BY <1>18, <1>20, <2>1 DEF Resolve, TypeOK, policyVars, RunStatus
<1>21. CASE ChangePolicy \/ ChangeGrant
  <2>1. authority' \in Authority /\ lenient' \in Authority /\ policyVersion' \in 0..MaxPolicyChanges
    BY <1>21 DEF ChangePolicy, ChangeGrant, Rule, TypeOK
  <2> QED BY <1>18, <1>21, <2>1 DEF ChangePolicy, ChangeGrant, Rule, TypeOK, rowVars
<1>22. CASE CancelRead
  BY <1>18, <1>22 DEF CancelRead, TypeOK, policyVars, rowVars
<1>23. CASE CancelCommit
  <2>1. approval' \in [Call -> Approval]
    BY <1>0, <1>15, <1>23 DEF CancelCommit, RowsTyped
  <2>2. status' \in RunStatus
    BY <1>23 DEF CancelCommit, TypeOK, RunStatus, TERMINAL_RUN_STATUSES
  <2> QED BY <1>18, <1>23, <2>1, <2>2 DEF CancelCommit, TypeOK, policyVars
<1>24. CASE UNCHANGED vars
  BY <1>24 DEF vars, rowVars, policyVars, workerVars, localVars, TypeOK
<1> QED
  BY <1>2, <1>3, <1>4, <1>5, <1>6, <1>7, <1>8, <1>9, <1>11, <1>12, <1>13, <1>14, <1>16, <1>17,
     <1>19, <1>20, <1>21, <1>22, <1>23, <1>24 DEF Next, PipelineStep, RunStep

-----------------------------------------------------------------------------
(* The steps of a worker, by what they do to what it holds *)

\* The worker is at label with call k, a copy and a decision; the others as before.
Local(w, label, k, copy, dec) ==
  /\ pc'[w] = label /\ cur'[w] = k /\ seen'[w] = copy /\ decision'[w] = dec
  /\ \A v \in Worker \ {w} :
       /\ pc'[v] = pc[v] /\ cur'[v] = cur[v] /\ seen'[v] = seen[v]
       /\ decision'[v] = decision[v] /\ lease'[v] = lease[v]

\* The worker is done with the call, or with the run.
Quits(w) ==
  \/ Local(w, "idle", 1, NoRow, "DENY")
  \/ \E label \in {"reap"} \cup Outcomes, copy \in {NoRow, seen[w]}, dec \in {"DENY", decision[w]} :
       Local(w, label, cur[w], copy, dec)

\* The worker goes on to the next call, or has been through the batch.
Advances(w) ==
  \/ cur[w] < NumCalls /\ Local(w, "dispatch", cur[w] + 1, NoRow, "DENY")
  \/ cur[w] = NumCalls /\ Local(w, "complete", cur[w], NoRow, "DENY")

\* Leave and Fail quit, Advance advances.
LEMMA LocalShapes ==
  ASSUME TypeOK, NEW w \in Worker
  PROVE  /\ Leave(w) => Local(w, "idle", 1, NoRow, "DENY")
         /\ Fail(w) => Local(w, "fail", cur[w], NoRow, "DENY")
         /\ Advance(w) => Advances(w) /\ UNCHANGED lease
<1> USE DEF TypeOK, Local, Goto, Forget
<1>1. Leave(w) => Local(w, "idle", 1, NoRow, "DENY") BY DEF Leave
<1>2. Fail(w) => Local(w, "fail", cur[w], NoRow, "DENY") BY DEF Fail
<1>3. Advance(w) => Advances(w) /\ UNCHANGED lease
  <2>1. cur[w] \in 1..NumCalls BY DEF Call
  <2> QED BY <2>1 DEF Advance, Advances
<1> QED BY <1>1, <1>2, <1>3

\* No other worker gains the lease.
NoNewOwner(w) == \A v \in Worker \ {w} : Owns(v)' => Owns(v)

\* The approvals that were not open stand, and the open ones are at most answered.
ApprovalsStand ==
  \A c \in Call : \/ approval'[c] = approval[c]
                  \/ approval[c].status = "PENDING" /\ approval'[c].status \notin {"PENDING", "none"}

\* A worker that quits without touching a row breaks no promise.
LEMMA QuitKeeps ==
  ASSUME PipelineInv, TypeOK', NEW w \in Worker, Quits(w), NoNewOwner(w), ApprovalsStand,
         UNCHANGED <<inv, effects, tool, authority, lenient>>
  PROVE  Promises'
<1>1. /\ Promises /\ TypeOK
      /\ pc'[w] \in {"idle", "reap"} \cup Outcomes
      /\ pc'[w] = "idle" => cur'[w] = 1 /\ seen'[w] = NoRow
      /\ seen'[w] = NoRow \/ (seen'[w] = seen[w] /\ cur'[w] = cur[w])
      /\ decision'[w] = "DENY" \/ (decision'[w] = decision[w] /\ cur'[w] = cur[w])
      /\ \A v \in Worker \ {w} :
           /\ pc'[v] = pc[v] /\ cur'[v] = cur[v] /\ seen'[v] = seen[v]
           /\ decision'[v] = decision[v] /\ lease'[v] = lease[v]
      /\ cur'[w] \in Call /\ cur[w] \in Call
  <2>1. Promises /\ TypeOK /\ cur'[w] \in Call /\ cur[w] \in Call
    BY DEF PipelineInv, TypeOK
  <2>2. CASE Local(w, "idle", 1, NoRow, "DENY")
    BY <2>1, <2>2 DEF Local
  <2>3. CASE \E label \in {"reap"} \cup Outcomes, copy \in {NoRow, seen[w]}, dec \in {"DENY", decision[w]} :
               Local(w, label, cur[w], copy, dec)
    <3>1. PICK label \in {"reap"} \cup Outcomes, copy \in {NoRow, seen[w]}, dec \in {"DENY", decision[w]} :
                 Local(w, label, cur[w], copy, dec)
      BY <2>3
    <3>2. label # "idle" BY DEF Outcomes
    <3> QED BY <2>1, <3>1, <3>2 DEF Local
  <2> QED BY <2>1, <2>2, <2>3 DEF Quits
<1> USE DEF Promises
<1>2. IdleIsFresh' BY <1>1 DEF IdleIsFresh, Outcomes
<1>3. CopyFitsStep' BY <1>1 DEF CopyFitsStep, Permitted, Outcomes
<1>4. OwnerHasTheRow' BY <1>1 DEF OwnerHasTheRow, NoNewOwner, Acting, Outcomes
<1>5. WatermarkStays' BY <1>1 DEF WatermarkStays, Late, NoRow
<1>6. OneSender' BY <1>1 DEF OneSender, Outcomes
<1>7. AtMostOnceEffect' BY <1>1 DEF AtMostOnceEffect
<1>8. DecisionIsEarned'
  <2>1. \A c \in Call : approval[c].status = "APPROVED" => approval'[c].status = "APPROVED"
    BY DEF ApprovalsStand
  <2>2. Strict' <=> Strict BY DEF Strict
  <2> QED BY <1>1, <2>1, <2>2 DEF DecisionIsEarned, TypeOK
<1>9. EffectIsAuthorized'
  <2>1. \A c \in Call : approval[c].status = "APPROVED" => approval'[c].status = "APPROVED"
    BY DEF ApprovalsStand
  <2> QED BY <1>1, <2>1 DEF EffectIsAuthorized
<1>10. ApprovalAndInvocationAgree' BY <1>1 DEF ApprovalAndInvocationAgree, ApprovalsStand, NoApproval
<1>11. CallsInOrder' BY <1>1 DEF CallsInOrder, Known, Acting, Outcomes
<1> QED BY <1>2, <1>3, <1>4, <1>5, <1>6, <1>7, <1>8, <1>9, <1>10, <1>11

\* The row of the worker's call is written under the lease, or stays as it is: a
\* settled row is not written, and a watermark is kept.
RowStep(w, row) ==
  /\ inv'[cur[w]] = row
  /\ \A c \in Call \ {cur[w]} : inv'[c] = inv[c]
  /\ \/ row = inv[cur[w]]
     \/ /\ Owns(w) /\ inv[cur[w]].status \notin Settled
        /\ inv[cur[w]].sent => row.sent
        /\ Late(row)
  /\ row.status = "WAITING_FOR_APPROVAL" => approval'[cur[w]] # NoApproval
  /\ approval'[cur[w]].status = "PENDING" => row.status = "WAITING_FOR_APPROVAL"

\* Such a step takes back no watermark and no settlement.
LEMMA RowStepFacts ==
  ASSUME PipelineInv, NEW w \in Worker, NEW row, RowStep(w, row)
  PROVE  \A c \in Call : /\ inv[c].sent => inv'[c].sent
                         /\ Late(inv'[c])
                         /\ inv[c].status \in Settled => inv'[c] = inv[c]
<1>1. cur[w] \in Call
  BY DEF PipelineInv, TypeOK
<1>2. \A c \in Call : Late(inv[c])
  BY DEF PipelineInv, Promises, WatermarkStays
<1> TAKE c \in Call
<1>3. CASE c = cur[w] BY <1>2, <1>3 DEF RowStep
<1>4. CASE c # cur[w] BY <1>2, <1>4 DEF RowStep
<1> QED BY <1>3, <1>4

\* Another worker that holds the lease after it finds its row as it was.
LEMMA RowStepOwners ==
  ASSUME PipelineInv, NEW w \in Worker, NEW row, RowStep(w, row), NoNewOwner(w)
  PROVE  \A v \in Worker \ {w} : Owns(v)' => Owns(v) /\ inv'[cur[v]] = inv[cur[v]]
<1>1. cur[w] \in Call /\ \A v \in Worker : cur[v] \in Call
  BY DEF PipelineInv, TypeOK
<1>2. \A v \in Worker \ {w} : Owns(v)' => Owns(v)
  BY DEF NoNewOwner
<1>3. \A v \in Worker \ {w} : Owns(v) => ~Owns(w)
  BY DEF Owns
<1> QED BY <1>1, <1>2, <1>3 DEF RowStep

\* A worker goes on with its call at label, with a copy and a decision that fit.
GoesOn(w, label, copy, dec, row) ==
  /\ Local(w, label, cur[w], copy, dec)
  /\ label \in {"mark_uncertain", "effect", "finish"} => copy.status = "RUNNING"
  /\ label = "approval" => copy.status = "WAITING_FOR_APPROVAL"
  /\ label = "decide" => copy.status \in {"PROPOSED", "AUTHORIZED", "RUNNING"}
  /\ label = "effect" => /\ dec \in {"ALLOW", "STANDING", "APPROVED"}
                         /\ tool.sideEffect => copy.sent
  /\ label \in Acting /\ Owns(w) => copy = row
  /\ Late(copy) /\ (copy.sent => row.sent)
  /\ tool.sideEffect /\ tool.class = "NON_IDEMPOTENT" =>
       /\ label = "decide" /\ copy.status = "RUNNING" => ~copy.sent
       /\ label = "effect" => ~inv[cur[w]].sent
  /\ dec = "APPROVED" => approval[cur[w]].status = "APPROVED"
  /\ Strict => dec \notin {"ALLOW", "STANDING"}
  /\ tool.class \notin {"READ_ONLY", "IDEMPOTENT"} => \A c \in 1..(cur[w] - 1) : Known(c)

\* Such a step breaks no promise.
LEMMA GoesOnKeeps ==
  ASSUME PipelineInv, TypeOK', NEW w \in Worker, NEW label \in Acting \cup {"lookup"},
         NEW copy, NEW dec, NEW row, GoesOn(w, label, copy, dec, row), RowStep(w, row),
         NoNewOwner(w), Owns(w)' => Owns(w),
         UNCHANGED <<approval, effects, tool, authority, lenient>>
  PROVE  Promises'
<1>1. /\ Promises
      /\ pc'[w] = label /\ cur'[w] = cur[w] /\ seen'[w] = copy /\ decision'[w] = dec
      /\ \A v \in Worker \ {w} :
           /\ pc'[v] = pc[v] /\ cur'[v] = cur[v] /\ seen'[v] = seen[v]
           /\ decision'[v] = decision[v] /\ lease'[v] = lease[v]
      /\ \A v \in Worker : cur[v] \in Call
  BY DEF PipelineInv, TypeOK, GoesOn, Local
<1>2. \A c \in Call : /\ inv[c].sent => inv'[c].sent
                      /\ Late(inv'[c])
                      /\ inv[c].status \in Settled => inv'[c] = inv[c]
  BY RowStepFacts
<1>0. \A v \in Worker \ {w} : Owns(v)' => Owns(v) /\ inv'[cur[v]] = inv[cur[v]]
  BY RowStepOwners
<1>3. inv'[cur[w]] = row
  BY DEF RowStep
<1> USE DEF Promises
<1>4. IdleIsFresh' BY <1>1 DEF IdleIsFresh, Acting
<1>5. CopyFitsStep' BY <1>1 DEF CopyFitsStep, GoesOn, Permitted
<1>6. OwnerHasTheRow' BY <1>0, <1>1, <1>2, <1>3 DEF OwnerHasTheRow, GoesOn
<1>7. WatermarkStays' BY <1>1, <1>2, <1>3 DEF WatermarkStays, GoesOn
<1>8. OneSender'
  <2> SUFFICES ASSUME tool.sideEffect, tool.class = "NON_IDEMPOTENT"
               PROVE /\ \A v \in Worker : pc'[v] = "decide" /\ seen'[v].status = "RUNNING" => ~seen'[v].sent
                     /\ \A v \in Worker : pc'[v] = "effect" => effects[cur'[v]] = 0
                     /\ \A u, v \in Worker :
                          pc'[u] = "effect" /\ pc'[v] = "effect" /\ cur'[u] = cur'[v] => u = v
    BY DEF OneSender
  <2>1. \A v \in Worker : pc'[v] = "decide" /\ seen'[v].status = "RUNNING" => ~seen'[v].sent
    BY <1>1 DEF OneSender, GoesOn
  <2>2. label = "effect" => /\ effects[cur[w]] = 0
                            /\ \A v \in Worker \ {w} : pc[v] = "effect" => cur[v] # cur[w]
    <3>1. label = "effect" => ~inv[cur[w]].sent
      BY DEF GoesOn
    <3>2. ~inv[cur[w]].sent => effects[cur[w]] = 0
      BY <1>1 DEF AtMostOnceEffect, PipelineInv, TypeOK
    <3>3. \A v \in Worker : pc[v] = "effect" => inv[cur[v]].sent
      BY <1>1 DEF CopyFitsStep, WatermarkStays
    <3> QED BY <3>1, <3>2, <3>3
  <2> QED BY <1>1, <2>1, <2>2 DEF OneSender
<1>9. AtMostOnceEffect' BY <1>1, <1>2 DEF AtMostOnceEffect
<1>10. DecisionIsEarned' BY <1>1 DEF DecisionIsEarned, GoesOn, Strict
<1>11. EffectIsAuthorized' BY <1>1 DEF EffectIsAuthorized
<1>12. ApprovalAndInvocationAgree'
  BY <1>1 DEF ApprovalAndInvocationAgree, RowStep
<1>13. CallsInOrder'
  <2>1. \A c \in Call : Known(c) => Known(c)'
    BY <1>2 DEF Known
  <2>2. \A c \in Call : inv[c].status = "UNCERTAIN" => inv'[c].status = "UNCERTAIN"
    BY <1>2 DEF Settled
  <2>3. \A d \in Call : \A c \in 1..(d - 1) : c \in Call
    BY DEF Call
  <2> QED BY <1>1, <2>1, <2>2, <2>3 DEF CallsInOrder, GoesOn, Acting
<1> QED BY <1>4, <1>5, <1>6, <1>7, <1>8, <1>9, <1>10, <1>11, <1>12, <1>13

\* A worker goes on to the next call: what it leaves behind is settled with a known
\* outcome, or some outcome is unknown.
LEMMA AdvanceKeeps ==
  ASSUME PipelineInv, TypeOK', NEW w \in Worker, NEW row, Advances(w), RowStep(w, row),
         NoNewOwner(w), UNCHANGED <<approval, effects, tool, authority, lenient>>,
         tool.class \notin {"READ_ONLY", "IDEMPOTENT"} =>
           \/ \E c \in Call : inv'[c].status = "UNCERTAIN"
           \/ row.status \in Settled /\ \A c \in 1..(cur[w] - 1) : Known(c)
  PROVE  Promises'
<1>1. /\ Promises
      /\ \/ pc'[w] = "dispatch" /\ cur'[w] = cur[w] + 1
         \/ pc'[w] = "complete" /\ cur'[w] = cur[w]
      /\ seen'[w] = NoRow /\ decision'[w] = "DENY"
      /\ \A v \in Worker \ {w} :
           /\ pc'[v] = pc[v] /\ cur'[v] = cur[v] /\ seen'[v] = seen[v]
           /\ decision'[v] = decision[v] /\ lease'[v] = lease[v]
      /\ \A v \in Worker : cur[v] \in Call /\ cur'[v] \in Call
  BY DEF PipelineInv, TypeOK, Advances, Local
<1>2. \A c \in Call : /\ inv[c].sent => inv'[c].sent
                      /\ Late(inv'[c])
                      /\ inv[c].status \in Settled => inv'[c] = inv[c]
  BY RowStepFacts
<1>0. \A v \in Worker \ {w} : Owns(v)' => Owns(v) /\ inv'[cur[v]] = inv[cur[v]]
  BY RowStepOwners
<1> USE DEF Promises
<1>3. IdleIsFresh' BY <1>1 DEF IdleIsFresh
<1>4. CopyFitsStep' BY <1>1 DEF CopyFitsStep, Permitted
<1>5. OwnerHasTheRow' BY <1>0, <1>1, <1>2 DEF OwnerHasTheRow, Acting
<1>6. WatermarkStays' BY <1>1, <1>2 DEF WatermarkStays, Late, NoRow
<1>7. OneSender' BY <1>1 DEF OneSender
<1>8. AtMostOnceEffect' BY <1>1, <1>2 DEF AtMostOnceEffect
<1>9. DecisionIsEarned' BY <1>1 DEF DecisionIsEarned, Strict
<1>10. EffectIsAuthorized' BY <1>1 DEF EffectIsAuthorized
<1>11. ApprovalAndInvocationAgree' BY <1>1 DEF ApprovalAndInvocationAgree, RowStep
<1>12. CallsInOrder'
  <2> SUFFICES ASSUME tool.class \notin {"READ_ONLY", "IDEMPOTENT"}
               PROVE  CallsInOrder'
    BY DEF CallsInOrder
  <2>1. \A c \in Call : Known(c) => Known(c)'
    BY <1>2 DEF Known
  <2>2. \A c \in Call : inv[c].status = "UNCERTAIN" => inv'[c].status = "UNCERTAIN"
    BY <1>2 DEF Settled
  <2>3. \A d \in Call : \A c \in 1..(d - 1) : c \in Call
    BY DEF Call
  <2>4. pc'[w] = "dispatch" =>
          (\E c \in Call : inv'[c].status = "UNCERTAIN") \/ \A c \in 1..(cur'[w] - 1) : Known(c)'
    <3> SUFFICES ASSUME pc'[w] = "dispatch", ~\E c \in Call : inv'[c].status = "UNCERTAIN",
                        NEW c \in 1..(cur'[w] - 1)
                 PROVE  Known(c)'
      OBVIOUS
    <3>1. cur'[w] = cur[w] + 1 BY <1>1
    <3>2. cur[w] \in 1..NumCalls BY <1>1 DEF Call
    <3>3. CASE c = cur[w]
      BY <1>1, <3>3 DEF RowStep, Known
    <3>4. CASE c # cur[w]
      <4>1. c \in 1..(cur[w] - 1) BY <3>1, <3>2, <3>4
      <4> QED BY <1>1, <2>1, <2>3, <4>1
    <3> QED BY <3>3, <3>4
  <2>5. \A v \in Worker : pc'[v] \in Acting \cup {"lookup"} => v # w
    BY <1>1 DEF Acting
  <2> QED BY <1>1, <2>1, <2>2, <2>3, <2>4, <2>5 DEF CallsInOrder
<1> QED BY <1>3, <1>4, <1>5, <1>6, <1>7, <1>8, <1>9, <1>10, <1>11, <1>12

\* A refused write ends the execution and breaks no promise.
LEMMA RefusedKeeps ==
  ASSUME PipelineInv, TypeOK', NEW w \in Worker, NEW new, Fenced(w) \/ Conflict(w, new),
         UNCHANGED <<Untouched, effects>>
  PROVE  Promises'
<1>1. TypeOK /\ "fail" \in Outcomes
  BY DEF PipelineInv, Outcomes
<1>2. Quits(w)
  BY <1>1, LocalShapes DEF Fenced, Conflict, Quits
<1>3. NoNewOwner(w)
  BY <1>2 DEF NoNewOwner, Owns, Untouched, rowVars, Quits, Local
<1>4. ApprovalsStand /\ UNCHANGED <<inv, effects, tool, authority, lenient>>
  BY DEF Fenced, Conflict, ApprovalsStand, Untouched, policyVars
<1> QED BY <1>2, <1>3, <1>4, QuitKeeps

\* A write of a worker that acts on its call is a step of its row, which was its copy.
LEMMA WriteIsRowStep ==
  ASSUME PipelineInv, NEW w \in Worker, pc[w] \in Acting, NEW new, NEW sent, Write(w, new, sent),
         seen[w].sent => sent, sent => new \in {"RUNNING"} \cup Settled,
         new = "WAITING_FOR_APPROVAL" => approval'[cur[w]] # NoApproval,
         approval'[cur[w]].status = "PENDING" => new = "WAITING_FOR_APPROVAL"
  PROVE  /\ RowStep(w, [status |-> new, sent |-> sent])
         /\ inv[cur[w]] = seen[w]
<1>1. cur[w] \in Call /\ inv \in [Call -> Invocation]
  BY DEF PipelineInv, TypeOK
<1>2. Owns(w) /\ inv' = [inv EXCEPT ![cur[w]] = [status |-> new, sent |-> sent]]
  BY DEF Write
<1>3. inv[cur[w]] = seen[w]
  BY <1>2 DEF PipelineInv, Promises, OwnerHasTheRow
<1>4. seen[w].status \notin Settled
  BY DEF PipelineInv, Promises, CopyFitsStep, Acting, Settled
<1>5. Late([status |-> new, sent |-> sent])
  BY DEF Late
<1> QED BY <1>1, <1>2, <1>3, <1>4, <1>5 DEF RowStep

\* Settling a call breaks no promise.
LEMMA SettleKeeps ==
  ASSUME PipelineInv, TypeOK', NEW w \in Worker, pc[w] \in Acting,
         NEW new \in Settled, Settle(w, new),
         pc[w] = "approval" => approval[cur[w]].status # "PENDING",
         UNCHANGED <<Untouched, effects>>
  PROVE  Promises'
<1>1. CASE Fenced(w) \/ Conflict(w, new)
  BY <1>1, RefusedKeeps
<1>2. CASE Write(w, new, seen[w].sent) /\ Advance(w) /\ UNCHANGED approval
  <2> DEFINE row == [status |-> new, sent |-> seen[w].sent]
  <2>1. inv[cur[w]].status = seen[w].status /\ cur[w] \in Call
    BY <1>2 DEF Write, PipelineInv, TypeOK
  <2>2. approval[cur[w]].status # "PENDING"
    BY <2>1 DEF PipelineInv, Promises, CopyFitsStep, Acting, ApprovalAndInvocationAgree
  <2>3. RowStep(w, row)
    BY <1>2, <2>2, WriteIsRowStep DEF Settled
  <2>4. Advances(w) /\ UNCHANGED lease
    BY <1>2, LocalShapes DEF PipelineInv
  <2>5. NoNewOwner(w) /\ UNCHANGED <<approval, effects, tool, authority, lenient>>
    BY <1>2, <2>4 DEF NoNewOwner, Owns, Untouched, rowVars, policyVars
  <2>6. tool.class \notin {"READ_ONLY", "IDEMPOTENT"} =>
          row.status \in Settled /\ \A c \in 1..(cur[w] - 1) : Known(c)
    BY DEF PipelineInv, Promises, CallsInOrder
  <2> HIDE DEF row
  <2> QED BY <2>3, <2>4, <2>5, <2>6, AdvanceKeeps
<1> QED BY <1>1, <1>2 DEF Settle

\* A write after which the worker goes on breaks no promise.
LEMMA WriteAndGoKeeps ==
  ASSUME PipelineInv, TypeOK', NEW w \in Worker, pc[w] \in Acting,
         NEW new, NEW sent, NEW dec, NEW label \in {"decide", "effect", "lookup"},
         WriteAndGo(w, new, sent, dec, label),
         pc[w] = "approval" => approval[cur[w]].status # "PENDING",
         new # "WAITING_FOR_APPROVAL",
         seen[w].sent => sent, sent => new = "RUNNING",
         label = "decide" => new \in {"PROPOSED", "AUTHORIZED", "RUNNING"},
         label = "effect" => /\ new = "RUNNING" /\ sent /\ ~seen[w].sent
                            /\ dec \in {"ALLOW", "STANDING", "APPROVED"},
         tool.sideEffect /\ tool.class = "NON_IDEMPOTENT" /\ label = "decide" => ~sent,
         dec = "APPROVED" => approval[cur[w]].status = "APPROVED",
         Strict => dec \notin {"ALLOW", "STANDING"},
         UNCHANGED <<Untouched, effects>>
  PROVE  Promises'
<1>1. CASE Fenced(w) \/ Conflict(w, new)
  BY <1>1, RefusedKeeps
<1>2. CASE ~(Fenced(w) \/ Conflict(w, new))
  <2> DEFINE row == [status |-> new, sent |-> sent]
  <2>1. /\ Write(w, new, sent)
        /\ seen' = [seen EXCEPT ![w] = row]
        /\ decision' = [decision EXCEPT ![w] = dec]
        /\ pc' = [pc EXCEPT ![w] = label]
        /\ UNCHANGED <<approval, lease, cur, under, result>>
    BY <1>2 DEF WriteAndGo, Goto
  <2>2. inv[cur[w]].status = seen[w].status /\ cur[w] \in Call
    BY <2>1 DEF Write, PipelineInv, TypeOK
  <2>3. approval[cur[w]].status # "PENDING"
    BY <2>2 DEF PipelineInv, Promises, CopyFitsStep, Acting, ApprovalAndInvocationAgree
  <2>4. RowStep(w, row) /\ inv[cur[w]] = seen[w]
    BY <2>1, <2>3, WriteIsRowStep
  <2>5. Local(w, label, cur[w], row, dec)
    BY <2>1 DEF PipelineInv, TypeOK, Local
  <2>6. row.status = new /\ row.sent = sent
    OBVIOUS
  <2> HIDE DEF row
  <2>7. Late(row)
    BY <2>6 DEF Late
  <2>8. tool.class \notin {"READ_ONLY", "IDEMPOTENT"} => \A c \in 1..(cur[w] - 1) : Known(c)
    BY DEF PipelineInv, Promises, CallsInOrder
  <2>9. GoesOn(w, label, row, dec, row)
    BY <2>4, <2>5, <2>6, <2>7, <2>8 DEF GoesOn
  <2>10. NoNewOwner(w) /\ (Owns(w)' => Owns(w))
    BY <2>1 DEF NoNewOwner, Owns, Untouched, rowVars
  <2>11. UNCHANGED <<approval, effects, tool, authority, lenient>>
    BY <2>1 DEF Untouched, policyVars
  <2>12. label \in Acting \cup {"lookup"}
    BY DEF Acting
  <2> QED BY <2>4, <2>9, <2>10, <2>11, <2>12, GoesOnKeeps
<1> QED BY <1>1, <1>2

-----------------------------------------------------------------------------
(* The promises, action by action *)

\* A worker that leaves the shared rows alone does so with its own row, too.
LEMMA SameRow ==
  ASSUME PipelineInv, NEW w \in Worker, UNCHANGED <<inv, approval>>
  PROVE  RowStep(w, inv[cur[w]])
<1>1. cur[w] \in Call
  BY DEF PipelineInv, TypeOK
<1> QED BY <1>1 DEF RowStep, PipelineInv, Promises, ApprovalAndInvocationAgree

\* A worker that quits with the rows untouched.
LEMMA QuietQuit ==
  ASSUME PipelineInv, TypeOK', NEW w \in Worker, Quits(w),
         UNCHANGED <<Untouched, inv, approval, effects>>
  PROVE  Promises'
<1>1. NoNewOwner(w)
  BY DEF NoNewOwner, Owns, Untouched, rowVars, Quits, Local
<1>2. ApprovalsStand /\ UNCHANGED <<inv, effects, tool, authority, lenient>>
  BY DEF ApprovalsStand, Untouched, policyVars
<1> QED BY <1>1, <1>2, QuitKeeps

\* A worker that goes on with the rows untouched.
LEMMA QuietGo ==
  ASSUME PipelineInv, TypeOK', NEW w \in Worker, NEW label \in Acting \cup {"lookup"}, NEW copy, NEW dec,
         GoesOn(w, label, copy, dec, inv[cur[w]]),
         UNCHANGED <<Untouched, inv, approval, effects, lease>>
  PROVE  Promises'
<1>1. NoNewOwner(w) /\ (Owns(w)' => Owns(w))
  BY DEF NoNewOwner, Owns, Untouched, rowVars
<1>2. UNCHANGED <<approval, effects, tool, authority, lenient>>
  BY DEF Untouched, policyVars
<1> QED BY <1>1, <1>2, SameRow, GoesOnKeeps

\* The answers to a dispatched call: refused, or evaluated by the policy.
LEMMA DispatchKeeps ==
  ASSUME PipelineInv, TypeOK', NEW w \in Worker, Refuse(w) \/ Evaluate(w) \/ StopAtToken(w)
  PROVE  Promises'
<1>0. TypeOK /\ Promises /\ cur[w] \in Call
  BY DEF PipelineInv, TypeOK
<1>1. CASE Refuse(w)
  <2>1. UNCHANGED <<Untouched, inv, approval, effects>>
    BY <1>1 DEF Refuse
  <2>2. CASE Leave(w)
    BY <1>0, <2>1, <2>2, LocalShapes, QuietQuit DEF Quits
  <2>3. CASE Advance(w)
    <3>1. Advances(w) /\ UNCHANGED lease
      BY <1>0, <2>3, LocalShapes
    <3>2. NoNewOwner(w) /\ UNCHANGED <<approval, effects, tool, authority, lenient>>
      BY <2>1, <3>1 DEF NoNewOwner, Owns, Untouched, rowVars, policyVars
    <3>3. \E c \in Call : inv'[c].status = "UNCERTAIN"
      BY <1>1, <2>1 DEF Refuse, UncertainPrior
    <3> QED BY <2>1, <3>1, <3>2, <3>3, SameRow, AdvanceKeeps
  <2> QED BY <1>1, <2>2, <2>3 DEF Refuse
<1>2. CASE Evaluate(w)
  <2>1. Local(w, "lookup", cur[w], seen[w], PolicyAnswer)
    BY <1>0, <1>2 DEF Evaluate, Goto, TypeOK, Local
  <2>2. Late(seen[w]) /\ (seen[w].sent => inv[cur[w]].sent)
    BY <1>0 DEF Promises, WatermarkStays
  <2>3. PolicyAnswer # "APPROVED" /\ (Strict => PolicyAnswer \notin {"ALLOW", "STANDING"})
    BY <1>0 DEF Promises, DecisionIsEarned, PolicyAnswer, TypeOK, Authority
  <2>4. tool.class \notin {"READ_ONLY", "IDEMPOTENT"} => \A c \in 1..(cur[w] - 1) : Known(c)
    BY <1>0, <1>2 DEF Evaluate, UncertainPrior, Promises, CallsInOrder
  <2>5. GoesOn(w, "lookup", seen[w], PolicyAnswer, inv[cur[w]])
    BY <2>1, <2>2, <2>3, <2>4 DEF GoesOn, Acting
  <2>6. UNCHANGED <<Untouched, inv, approval, effects, lease>>
    BY <1>2 DEF Evaluate
  <2> QED BY <2>5, <2>6, QuietGo
<1>3. CASE StopAtToken(w)
  <2>1. Local(w, "stop", cur[w], seen[w], decision[w])
    BY <1>0, <1>3 DEF StopAtToken, Goto, TypeOK, Local, localVars
  <2>2. Quits(w)
    BY <2>1 DEF Quits, Outcomes
  <2> QED BY <1>3, <2>2, QuietQuit DEF StopAtToken
<1> QED BY <1>1, <1>2, <1>3

\* Looking up the row of a call.
LEMMA LookupKeeps ==
  ASSUME PipelineInv, TypeOK', NEW w \in Worker, Lookup(w)
  PROVE  Promises'
<1> DEFINE row == inv[cur[w]]
<1>0. /\ TypeOK /\ Promises /\ cur[w] \in Call /\ row \in Invocation /\ seen[w] \in Invocation
      /\ pc[w] = "lookup" /\ UNCHANGED <<Untouched, effects>>
      /\ decision[w] = "APPROVED" => approval[cur[w]].status = "APPROVED"
      /\ Strict => decision[w] \notin {"ALLOW", "STANDING"}
      /\ tool.class \notin {"READ_ONLY", "IDEMPOTENT"} => \A c \in 1..(cur[w] - 1) : Known(c)
      /\ Late(row) /\ (seen[w].sent => row.sent)
  BY DEF PipelineInv, TypeOK, Lookup, Promises, DecisionIsEarned, CallsInOrder, WatermarkStays
<1>1. CASE Fenced(w)
  BY <1>0, <1>1, RefusedKeeps
<1>2. CASE row.status \in Settled /\ Advance(w) /\ UNCHANGED <<inv, approval>>
  <2>1. Advances(w) /\ UNCHANGED lease
    BY <1>0, <1>2, LocalShapes
  <2>2. NoNewOwner(w) /\ UNCHANGED <<approval, effects, tool, authority, lenient>>
    BY <1>0, <1>2, <2>1 DEF NoNewOwner, Owns, Untouched, rowVars, policyVars
  <2>3. RowStep(w, row)
    BY <1>2, SameRow
  <2> HIDE DEF row
  <2> QED BY <1>0, <1>2, <2>1, <2>2, <2>3, AdvanceKeeps
<1>3. CASE /\ row = NoRow /\ Owns(w)
           /\ inv' = [inv EXCEPT ![cur[w]].status = "PROPOSED"]
           /\ seen' = [seen EXCEPT ![w].status = "PROPOSED"]
           /\ Goto(w, "decide")
           /\ UNCHANGED <<approval, lease, cur, decision, under, result>>
  <2> DEFINE new == [status |-> "PROPOSED", sent |-> FALSE]
  <2>1. ~seen[w].sent /\ row.status = "none" /\ ~row.sent
    BY <1>0, <1>3 DEF NoRow
  <2>2. inv'[cur[w]] = new /\ seen'[w] = new /\ \A c \in Call \ {cur[w]} : inv'[c] = inv[c]
    BY <1>0, <1>3, <2>1, ZenonT(30) DEF TypeOK, Invocation, NoRow
  <2>3. Local(w, "decide", cur[w], new, decision[w])
    BY <1>0, <1>3, <2>2 DEF TypeOK, Local, Goto
  <2>4. new.status = "PROPOSED" /\ ~new.sent /\ Late(new)
    BY DEF Late
  <2> HIDE DEF new
  <2>5. approval[cur[w]].status # "PENDING"
    BY <1>0, <2>1 DEF Promises, ApprovalAndInvocationAgree
  <2>6. RowStep(w, new)
    BY <1>3, <2>1, <2>2, <2>4, <2>5 DEF RowStep, Settled
  <2>7. GoesOn(w, "decide", new, decision[w], new)
    BY <1>0, <2>3, <2>4 DEF GoesOn
  <2>8. NoNewOwner(w) /\ (Owns(w)' => Owns(w)) /\ "decide" \in Acting
    BY <1>0, <1>3 DEF NoNewOwner, Owns, Untouched, rowVars, Acting
  <2>9. UNCHANGED <<approval, effects, tool, authority, lenient>>
    BY <1>0, <1>3 DEF Untouched, policyVars
  <2> QED BY <2>6, <2>7, <2>8, <2>9, GoesOnKeeps
<1>4. CASE /\ row # NoRow
           /\ seen' = [seen EXCEPT ![w] = row]
           /\ \E label \in {"mark_uncertain", "approval", "decide"} : Resumes(row, label) /\ Goto(w, label)
           /\ UNCHANGED <<inv, approval, lease, cur, decision, under, result>>
  <2>1. PICK label \in {"mark_uncertain", "approval", "decide"} : Resumes(row, label) /\ Goto(w, label)
    BY <1>4
  <2>2. row.status # "none"
    BY <1>0, <1>4 DEF Late, Invocation, NoRow, Settled
  <2>3. Local(w, label, cur[w], row, decision[w])
    BY <1>0, <1>4, <2>1 DEF TypeOK, Local, Goto
  <2> HIDE DEF row
  <2>4. GoesOn(w, label, row, decision[w], row)
    BY <1>0, <2>1, <2>2, <2>3 DEF GoesOn, Resumes
  <2>5. label \in Acting \cup {"lookup"} /\ row = inv[cur[w]]
    BY DEF Acting, row
  <2> QED BY <1>0, <1>4, <2>4, <2>5, QuietGo
<1> QED BY <1>0, <1>1, <1>2, <1>3, <1>4, LookupCases

\* The write that opens an approval sets the row to wait for it.
LEMMA RequestKeeps ==
  ASSUME PipelineInv, TypeOK', NEW w \in Worker, RequestApproval(w)
  PROVE  Promises'
<1>0. /\ TypeOK /\ Promises /\ cur[w] \in Call /\ pc[w] = "decide" /\ pc[w] \in Acting
      /\ UNCHANGED <<Untouched, effects>>
      /\ \A v \in Worker : cur[v] \in Call
  BY DEF PipelineInv, TypeOK, RequestApproval, Acting
<1>1. CASE Fail(w) /\ UNCHANGED <<inv, approval>>
  <2>1. Quits(w)
    BY <1>0, <1>1, LocalShapes DEF Quits, Outcomes
  <2> QED BY <1>0, <1>1, <2>1, QuietQuit
<1>2. CASE Fenced(w) \/ Conflict(w, "WAITING_FOR_APPROVAL")
  BY <1>0, <1>2, RefusedKeeps
<1>3. CASE /\ approval[cur[w]] = NoApproval
           /\ Write(w, "WAITING_FOR_APPROVAL", seen[w].sent)
           /\ approval' = [approval EXCEPT ![cur[w]] = [status |-> "PENDING", version |-> under[w]]]
           /\ Goto(w, "suspend")
           /\ Forget(w)
           /\ UNCHANGED <<lease, cur>>
  <2> DEFINE row == [status |-> "WAITING_FOR_APPROVAL", sent |-> seen[w].sent]
  <2>1. /\ approval'[cur[w]].status = "PENDING" /\ approval'[cur[w]] # NoApproval
        /\ \A c \in Call \ {cur[w]} : approval'[c] = approval[c]
        /\ approval[cur[w]].status = "none"
    BY <1>0, <1>3 DEF TypeOK, NoApproval
  <2>2. ~seen[w].sent
    <3>1. inv[cur[w]].status = seen[w].status /\ inv[cur[w]] = seen[w]
      BY <1>0, <1>3 DEF Write, Promises, OwnerHasTheRow
    <3>2. seen[w].status \in {"PROPOSED", "AUTHORIZED"}
      <4>1. "WAITING_FOR_APPROVAL" \in ALLOWED_TOOL_TRANSITIONS[seen[w].status]
        BY <1>3 DEF Write
      <4>2. seen[w].status \in {"PROPOSED", "AUTHORIZED", "RUNNING"}
        BY <1>0 DEF Promises, CopyFitsStep
      <4>3. ALLOWED_TOOL_TRANSITIONS["RUNNING"] = {"RUNNING", "SUCCEEDED", "FAILED", "UNCERTAIN"}
        BY DEF ALLOWED_TOOL_TRANSITIONS, ToolInvocationStatus
      <4> QED BY <4>1, <4>2, <4>3
    <3> QED BY <1>0, <3>2 DEF Promises, WatermarkStays, Late, Settled
  <2>3. RowStep(w, row)
    BY <1>0, <1>3, <2>1, <2>2, WriteIsRowStep
  <2>4. /\ pc'[w] = "suspend" /\ cur'[w] = cur[w] /\ seen'[w] = NoRow /\ decision'[w] = "DENY"
        /\ \A v \in Worker \ {w} :
             /\ pc'[v] = pc[v] /\ cur'[v] = cur[v] /\ seen'[v] = seen[v]
             /\ decision'[v] = decision[v] /\ lease'[v] = lease[v]
    BY <1>0, <1>3 DEF TypeOK, Goto, Forget
  <2>5. NoNewOwner(w) /\ UNCHANGED <<effects, tool, authority, lenient>>
    BY <1>0, <1>3 DEF NoNewOwner, Owns, Untouched, rowVars, policyVars
  <2>6. \A c \in Call : /\ inv[c].sent => inv'[c].sent
                        /\ Late(inv'[c])
                        /\ inv[c].status \in Settled => inv'[c] = inv[c]
    BY <2>3, RowStepFacts
  <2>7. \A v \in Worker \ {w} : Owns(v)' => Owns(v) /\ inv'[cur[v]] = inv[cur[v]]
    BY <2>3, <2>5, RowStepOwners
  <2>8. \A c \in Call : approval[c].status = "APPROVED" => approval'[c].status = "APPROVED"
    BY <2>1
  <2> HIDE DEF row
  <2> USE DEF Promises
  <2>9. IdleIsFresh' BY <1>0, <2>4 DEF IdleIsFresh
  <2>10. CopyFitsStep' BY <1>0, <2>4, <2>5 DEF CopyFitsStep, Permitted
  <2>11. OwnerHasTheRow' BY <1>0, <2>4, <2>7 DEF OwnerHasTheRow, Acting
  <2>12. WatermarkStays' BY <1>0, <2>4, <2>6 DEF WatermarkStays, Late, NoRow
  <2>13. OneSender' BY <1>0, <2>4, <2>5 DEF OneSender
  <2>14. AtMostOnceEffect' BY <1>0, <2>5, <2>6 DEF AtMostOnceEffect
  <2>15. DecisionIsEarned' BY <1>0, <2>4, <2>5, <2>8 DEF DecisionIsEarned, Strict
  <2>16. EffectIsAuthorized' BY <1>0, <2>5, <2>8 DEF EffectIsAuthorized
  <2>17. ApprovalAndInvocationAgree' BY <1>0, <2>1, <2>3 DEF ApprovalAndInvocationAgree, RowStep
  <2>18. CallsInOrder'
    <3>1. \A c \in Call : Known(c) => Known(c)'
      BY <2>6 DEF Known
    <3>2. \A c \in Call : inv[c].status = "UNCERTAIN" => inv'[c].status = "UNCERTAIN"
      BY <2>6 DEF Settled
    <3>3. \A d \in Call : \A c \in 1..(d - 1) : c \in Call
      BY DEF Call
    <3> QED BY <1>0, <2>4, <2>5, <3>1, <3>2, <3>3 DEF CallsInOrder, Acting
  <2> QED BY <2>9, <2>10, <2>11, <2>12, <2>13, <2>14, <2>15, <2>16, <2>17, <2>18
<1> QED BY <1>0, <1>1, <1>2, <1>3 DEF RequestApproval

\* Acting on the approval as it stands.
LEMMA ResumeKeeps ==
  ASSUME PipelineInv, TypeOK', NEW w \in Worker, ResumeApproval(w)
  PROVE  Promises'
<1>0. /\ TypeOK /\ Promises /\ pc[w] = "approval" /\ pc[w] \in Acting
      /\ UNCHANGED <<Untouched, effects>> /\ "DENIED" \in Settled
  BY DEF PipelineInv, ResumeApproval, Acting, Settled
<1>1. CASE Fail(w) /\ UNCHANGED <<inv, approval>>
  <2>1. Quits(w)
    BY <1>0, <1>1, LocalShapes DEF Quits, Outcomes
  <2> QED BY <1>0, <1>1, <2>1, QuietQuit
<1>2. CASE Goto(w, "suspend") /\ Forget(w) /\ UNCHANGED <<inv, approval, lease, cur>>
  <2>1. Local(w, "suspend", cur[w], NoRow, "DENY")
    BY <1>0, <1>2 DEF TypeOK, Goto, Forget, Local
  <2>2. Quits(w)
    BY <2>1 DEF Quits, Outcomes
  <2> QED BY <1>0, <1>2, <2>2, QuietQuit
<1>3. CASE Settle(w, "DENIED") /\ approval[cur[w]].status # "PENDING"
  BY <1>0, <1>3, SettleKeeps
<1>4. CASE /\ WriteAndGo(w, "AUTHORIZED", seen[w].sent, "APPROVED", "lookup")
           /\ approval[cur[w]].status = "APPROVED"
  <2>1. ~seen[w].sent
    BY <1>0 DEF Promises, CopyFitsStep, WatermarkStays, Late, Settled
  <2> QED BY <1>0, <1>4, <2>1, WriteAndGoKeeps
<1> QED BY <1>1, <1>2, <1>3, <1>4 DEF ResumeApproval

\* The steps that lead to the call of the tool.
LEMMA StartKeeps ==
  ASSUME PipelineInv, TypeOK', NEW w \in Worker,
         \/ UseStandingAuthorization(w) \/ Authorize(w) \/ Start(w)
         \/ MarkEffectSent(w) \/ PreEffectFails(w)
  PROVE  Promises'
<1>0. /\ TypeOK /\ Promises /\ pc[w] = "decide" /\ pc[w] \in Acting
      /\ UNCHANGED <<Untouched, effects>> /\ {"decide", "effect", "finish"} \subseteq Acting
      /\ decision[w] = "APPROVED" => approval[cur[w]].status = "APPROVED"
      /\ Strict => /\ decision[w] \notin {"ALLOW", "STANDING"}
                   /\ authority \in {"REQUIRE_APPROVAL", "DENY"}
      /\ tool.class \notin {"READ_ONLY", "IDEMPOTENT"} => \A c \in 1..(cur[w] - 1) : Known(c)
      /\ Late(seen[w]) /\ (seen[w].sent => inv[cur[w]].sent)
      /\ Owns(w) => seen[w] = inv[cur[w]]
      /\ seen[w].status \in {"PROPOSED", "AUTHORIZED", "RUNNING"}
      /\ tool.sideEffect /\ tool.class = "NON_IDEMPOTENT" /\ seen[w].status = "RUNNING" => ~seen[w].sent
  BY DEF PipelineInv, Acting, Promises, DecisionIsEarned, CallsInOrder, WatermarkStays, OwnerHasTheRow,
         CopyFitsStep, OneSender, UseStandingAuthorization, Authorize, Start, MarkEffectSent, PreEffectFails
<1>1. CASE UseStandingAuthorization(w)
  <2>1. Local(w, "decide", cur[w], seen[w], "STANDING")
    BY <1>0, <1>1 DEF UseStandingAuthorization, TypeOK, Local
  <2>2. ~Strict
    BY <1>0, <1>1 DEF UseStandingAuthorization
  <2>3. GoesOn(w, "decide", seen[w], "STANDING", inv[cur[w]])
    BY <1>0, <2>1, <2>2 DEF GoesOn
  <2> QED BY <1>0, <1>1, <2>3, QuietGo DEF UseStandingAuthorization
<1>2. CASE Authorize(w) \/ Start(w)
  <2>1. seen[w].status \in {"PROPOSED", "AUTHORIZED"}
    BY <1>2 DEF Authorize, Start
  <2>2. ~seen[w].sent
    BY <1>0, <2>1 DEF Late, Settled
  <2>3. \E new \in {"AUTHORIZED", "RUNNING"} : WriteAndGo(w, new, seen[w].sent, decision[w], "decide")
    BY <1>2 DEF Authorize, Start
  <2> QED BY <1>0, <2>2, <2>3, WriteAndGoKeeps
<1>3. CASE MarkEffectSent(w)
  <2>1. Permitted(w) /\ seen[w].status = "RUNNING"
    BY <1>3 DEF MarkEffectSent
  <2>2. CASE WatermarkNeeded(w)
    <3>1. WriteAndGo(w, "RUNNING", TRUE, decision[w], "effect") /\ ~seen[w].sent
      BY <1>3, <2>2 DEF MarkEffectSent, WatermarkNeeded
    <3> QED BY <1>0, <2>1, <3>1, WriteAndGoKeeps DEF Permitted
  <2>3. CASE ~WatermarkNeeded(w)
    <3>1. Goto(w, "effect") /\ UNCHANGED <<inv, approval, lease, cur, localVars>>
      BY <1>3, <2>3 DEF MarkEffectSent
    <3>2. Local(w, "effect", cur[w], seen[w], decision[w])
      BY <1>0, <3>1 DEF TypeOK, Local, Goto, localVars
    <3>3. GoesOn(w, "effect", seen[w], decision[w], inv[cur[w]])
      BY <1>0, <2>1, <2>3, <3>2 DEF GoesOn, WatermarkNeeded, Permitted
    <3> QED BY <1>0, <3>1, <3>3, QuietGo
  <2> QED BY <2>2, <2>3
<1>4. CASE PreEffectFails(w)
  <2>1. Local(w, "finish", cur[w], seen[w], decision[w]) /\ seen[w].status = "RUNNING"
    BY <1>0, <1>4 DEF PreEffectFails, TypeOK, Local, Goto
  <2>2. GoesOn(w, "finish", seen[w], decision[w], inv[cur[w]])
    BY <1>0, <2>1 DEF GoesOn
  <2> QED BY <1>0, <1>4, <2>2, QuietGo DEF PreEffectFails
<1> QED BY <1>1, <1>2, <1>3, <1>4

\* The call of the tool: the one step at which an effect happens.
LEMMA EffectKeeps ==
  ASSUME PipelineInv, TypeOK', NEW w \in Worker, Execute(w) \/ Interrupt(w) \/ TimeOut(w)
  PROVE  Promises'
<1>0. /\ TypeOK /\ Promises /\ pc[w] = "effect" /\ cur[w] \in Call
      /\ effects \in [Call -> Nat]
      /\ \A v \in Worker : cur[v] \in Call
      /\ UNCHANGED <<inv, approval, lease, cur, tool, authority, lenient, owner, epoch>>
  BY DEF PipelineInv, TypeOK, Execute, Interrupt, TimeOut, Untouched, rowVars, policyVars
<1>1. /\ pc'[w] \in {"finish", "stop", "fail"}
      /\ \/ seen'[w] = seen[w] /\ decision'[w] = decision[w]
         \/ seen'[w] = NoRow /\ decision'[w] = "DENY" /\ pc'[w] # "finish"
      /\ \A v \in Worker \ {w} : pc'[v] = pc[v] /\ seen'[v] = seen[v] /\ decision'[v] = decision[v]
  BY <1>0 DEF TypeOK, Execute, Interrupt, TimeOut, Goto, Forget
<1>2. /\ \A c \in Call \ {cur[w]} : effects'[c] = effects[c]
      /\ effects'[cur[w]] = effects[cur[w]] \/ effects'[cur[w]] = effects[cur[w]] + 1
  <2>1. \E happens \in BOOLEAN : Effect(w, happens)
    BY DEF Execute, Interrupt, TimeOut
  <2> QED BY <1>0, <2>1 DEF Effect
<1>3. \A v \in Worker : Owns(v)' <=> Owns(v)
  BY <1>0 DEF Owns
<1>4. /\ Permitted(w) /\ (tool.sideEffect => inv[cur[w]].sent) /\ seen[w].status = "RUNNING"
      /\ decision[w] = "APPROVED" => approval[cur[w]].status = "APPROVED"
      /\ Strict => decision[w] \notin {"ALLOW", "STANDING"}
  BY <1>0 DEF Promises, CopyFitsStep, WatermarkStays, DecisionIsEarned
<1> USE DEF Promises
<1>5. IdleIsFresh' BY <1>0, <1>1 DEF IdleIsFresh
<1>6. CopyFitsStep' BY <1>0, <1>1, <1>4 DEF CopyFitsStep, Permitted
<1>7. OwnerHasTheRow' BY <1>0, <1>1, <1>3 DEF OwnerHasTheRow, Acting
<1>8. WatermarkStays' BY <1>0, <1>1 DEF WatermarkStays, Late, NoRow
<1>9. OneSender'
  BY <1>0, <1>1, <1>2 DEF OneSender
<1>10. AtMostOnceEffect'
  BY <1>0, <1>2, <1>4 DEF AtMostOnceEffect, OneSender
<1>11. DecisionIsEarned' BY <1>0, <1>1 DEF DecisionIsEarned, Strict
<1>12. EffectIsAuthorized'
  BY <1>0, <1>2, <1>4 DEF EffectIsAuthorized, Strict, Permitted
<1>13. ApprovalAndInvocationAgree' BY <1>0 DEF ApprovalAndInvocationAgree
<1>14. CallsInOrder' BY <1>0, <1>1, <1>2 DEF CallsInOrder, Known, Acting
<1> QED BY <1>5, <1>6, <1>7, <1>8, <1>9, <1>10, <1>11, <1>12, <1>13, <1>14

\* The settling steps.
LEMMA FinishKeeps ==
  ASSUME PipelineInv, TypeOK', NEW w \in Worker, MarkUncertain(w) \/ DenyByPolicy(w) \/ Finish(w)
  PROVE  Promises'
<1>1. /\ pc[w] \in Acting /\ pc[w] # "approval" /\ UNCHANGED <<Untouched, effects>>
      /\ result[w] \in Settled /\ {"UNCERTAIN", "DENIED"} \subseteq Settled
  BY DEF PipelineInv, TypeOK, MarkUncertain, DenyByPolicy, Finish, Acting, ToolResult, Settled
<1> QED BY <1>1, SettleKeeps DEF MarkUncertain, DenyByPolicy, Finish

\* A claim takes the lease from whoever had it, at the first call and with nothing
\* in hand.
LEMMA ClaimKeeps ==
  ASSUME PipelineInv, TypeOK', NEW w \in Worker, Claim(w)
  PROVE  Promises'
<1>1. /\ Promises /\ pc[w] = "idle" /\ cur[w] = 1 /\ seen[w] = NoRow
      /\ pc'[w] = "dispatch" /\ \A v \in Worker \ {w} : pc'[v] = pc[v] /\ ~Owns(v)'
      /\ UNCHANGED <<inv, approval, effects, tool, authority, lenient, cur, seen, decision>>
  BY DEF PipelineInv, Promises, IdleIsFresh, TypeOK, Claim, Goto, Owns, policyVars, localVars
<1> USE DEF Promises
<1>2. IdleIsFresh' BY <1>1 DEF IdleIsFresh
<1>3. CopyFitsStep' BY <1>1 DEF CopyFitsStep, Permitted
<1>4. OwnerHasTheRow' BY <1>1 DEF OwnerHasTheRow, Acting
<1>5. WatermarkStays' BY <1>1 DEF WatermarkStays
<1>6. OneSender' BY <1>1 DEF OneSender
<1>7. AtMostOnceEffect' BY <1>1 DEF AtMostOnceEffect
<1>8. DecisionIsEarned' BY <1>1 DEF DecisionIsEarned, Strict
<1>9. EffectIsAuthorized' BY <1>1 DEF EffectIsAuthorized
<1>10. ApprovalAndInvocationAgree' BY <1>1 DEF ApprovalAndInvocationAgree
<1>11. CallsInOrder' BY <1>1 DEF CallsInOrder, Known, Acting
<1> QED BY <1>2, <1>3, <1>4, <1>5, <1>6, <1>7, <1>8, <1>9, <1>10, <1>11

\* cancel_for_run answers the open approvals and leaves the others.
LEMMA CancelStands == TypeOK /\ cancel_for_run => ApprovalsStand
<1> SUFFICES ASSUME TypeOK, cancel_for_run, NEW c \in Call,
                    approval'[c] # approval[c]
             PROVE  approval[c].status = "PENDING" /\ approval'[c].status \notin {"PENDING", "none"}
  BY DEF ApprovalsStand
<1> QED BY DEF TypeOK, Approval, cancel_for_run

\* The end of a worker's run.
LEMMA LeaveKeeps ==
  ASSUME PipelineInv, TypeOK', NEW w \in Worker, Finalize(w) \/ SuspendFails(w) \/ Reap(w) \/ Crash(w)
  PROVE  Promises'
<1>0. TypeOK /\ Promises
  BY DEF PipelineInv
<1>1. CASE Finalize(w)
  <2>1. Local(w, "idle", 1, NoRow, "DENY")
    BY <1>0, <1>1, LocalShapes DEF Finalize
  <2>2. NoNewOwner(w)
    BY <1>1, <2>1 DEF NoNewOwner, Owns, Finalize, Local
  <2>3. Quits(w) /\ ApprovalsStand /\ UNCHANGED <<inv, effects, tool, authority, lenient>>
    BY <1>1, <2>1 DEF Quits, Finalize, ApprovalsStand, policyVars
  <2> QED BY <2>2, <2>3, QuitKeeps
<1>2. CASE SuspendFails(w)
  <2>1. Local(w, "reap", cur[w], seen[w], decision[w])
    BY <1>0, <1>2 DEF SuspendFails, TypeOK, Local, Goto, localVars
  <2>2. Quits(w) BY <2>1 DEF Quits
  <2> QED BY <1>2, <2>2, QuietQuit DEF SuspendFails
<1>3. CASE Reap(w)
  <2>1. Local(w, "fail", cur[w], seen[w], decision[w])
    BY <1>0, <1>3 DEF Reap, TypeOK, Local, Goto, localVars
  <2>2. Quits(w) BY <2>1 DEF Quits, Outcomes
  <2>3. NoNewOwner(w) /\ UNCHANGED <<inv, effects, tool, authority, lenient>>
    BY <1>3 DEF NoNewOwner, Owns, Reap, Untouched, rowVars, policyVars
  <2>4. ApprovalsStand
    BY <1>0, <1>3, CancelStands DEF Reap
  <2> QED BY <2>2, <2>3, <2>4, QuitKeeps
<1>4. CASE Crash(w)
  <2>1. Quits(w)
    BY <1>0, <1>4, LocalShapes DEF Crash, Quits
  <2> QED BY <1>4, <2>1, QuietQuit DEF Crash
<1> QED BY <1>1, <1>2, <1>3, <1>4

\* The order of the authorities.
LEMMA RankFacts ==
  /\ Rank("ALLOW") = 0 /\ Rank("STANDING") = 1 /\ Rank("REQUIRE_APPROVAL") = 2 /\ Rank("DENY") = 3
  /\ \A a \in Authority : Rank(a) \in Nat
<1>1. Rank("ALLOW") = 0 BY DEF Rank
<1>2. Rank("STANDING") = 1 BY DEF Rank
<1>3. Rank("REQUIRE_APPROVAL") = 2 BY DEF Rank
<1>4. Rank("DENY") = 3 BY DEF Rank
<1> QED BY <1>1, <1>2, <1>3, <1>4 DEF Authority

\* The others: the reaper, the owner's answers, the policy and the cancel endpoint.
LEMMA WorldKeeps ==
  ASSUME PipelineInv, TypeOK', UNCHANGED <<inv, effects, tool, workerVars>>, ApprovalsStand,
         owner' \in {owner, NoWorker}, UNCHANGED epoch,
         Strict' => Strict /\ authority' \in {"REQUIRE_APPROVAL", "DENY"}
  PROVE  Promises'
<1>1. /\ Promises /\ UNCHANGED <<pc, lease, cur, seen, decision>>
      /\ \A v \in Worker : cur[v] \in Call
  BY DEF PipelineInv, workerVars, localVars, TypeOK
<1>2. \A v \in Worker : Owns(v)' => Owns(v)
  BY <1>1 DEF Owns
<1>3. \A c \in Call : approval[c].status = "APPROVED" => approval'[c].status = "APPROVED"
  BY DEF ApprovalsStand
<1> USE DEF Promises
<1>4. IdleIsFresh' BY <1>1 DEF IdleIsFresh
<1>5. CopyFitsStep' BY <1>1 DEF CopyFitsStep, Permitted
<1>6. OwnerHasTheRow' BY <1>1, <1>2 DEF OwnerHasTheRow
<1>7. WatermarkStays' BY <1>1 DEF WatermarkStays
<1>8. OneSender' BY <1>1 DEF OneSender
<1>9. AtMostOnceEffect' BY <1>1 DEF AtMostOnceEffect
<1>10. DecisionIsEarned' BY <1>1, <1>3 DEF DecisionIsEarned
<1>11. EffectIsAuthorized' BY <1>1, <1>3 DEF EffectIsAuthorized, Strict
<1>12. ApprovalAndInvocationAgree' BY <1>1 DEF ApprovalAndInvocationAgree, ApprovalsStand, NoApproval
<1>13. CallsInOrder' BY <1>1 DEF CallsInOrder, Known
<1> QED BY <1>4, <1>5, <1>6, <1>7, <1>8, <1>9, <1>10, <1>11, <1>12, <1>13

\* No step breaks a promise.
LEMMA PromisesStep == PipelineInv /\ [Next]_vars => Promises'
<1> SUFFICES ASSUME PipelineInv, [Next]_vars PROVE Promises'
  OBVIOUS
<1>0. TypeOK /\ TypeOK' /\ (Strict => authority \in {"REQUIRE_APPROVAL", "DENY"})
  BY PipelineTypeStep DEF PipelineInv, Promises, DecisionIsEarned
<1>1. ASSUME NEW w \in Worker, PipelineStep(w) PROVE Promises'
  BY <1>0, <1>1, DispatchKeeps, LookupKeeps, FinishKeeps, RequestKeeps, ResumeKeeps, StartKeeps, EffectKeeps
     DEF PipelineStep
<1>2. ASSUME NEW w \in Worker, RunStep(w) PROVE Promises'
  BY <1>0, <1>2, ClaimKeeps, LeaveKeeps DEF RunStep
<1>3. ASSUME UNCHANGED <<authority, lenient>>
      PROVE Strict' => Strict /\ authority' \in {"REQUIRE_APPROVAL", "DENY"}
  BY <1>0, <1>3 DEF Strict
<1>4. CASE Reclaim
  BY <1>0, <1>3, <1>4, WorldKeeps DEF Reclaim, policyVars, ApprovalsStand
<1>5. ASSUME NEW c \in Call, NEW answer \in {"APPROVED", "DENIED", "EXPIRED"}, Resolve(c, answer)
      PROVE Promises'
  <2>1. ApprovalsStand
    BY <1>0, <1>5 DEF Resolve, ApprovalsStand, TypeOK, Approval
  <2> QED BY <1>0, <1>3, <1>5, <2>1, WorldKeeps DEF Resolve, policyVars
<1>6. CASE ChangePolicy \/ ChangeGrant
  <2>1. PICK a \in Authority : Rule(a)
    BY <1>6 DEF ChangePolicy, ChangeGrant, Authority
  <2>2. Strict' => Strict /\ authority' \in {"REQUIRE_APPROVAL", "DENY"}
    <3>1. authority' = a /\ lenient' = IF Rank(a) < Rank(lenient) THEN a ELSE lenient
      BY <2>1 DEF Rule
    <3>2. Rank(a) \in Nat /\ Rank(lenient) \in Nat
      BY <1>0, RankFacts DEF TypeOK
    <3>3. Rank(lenient') >= Rank("REQUIRE_APPROVAL") =>
            Rank(lenient) >= Rank("REQUIRE_APPROVAL") /\ Rank(a) >= Rank("REQUIRE_APPROVAL")
      BY <3>1, <3>2, RankFacts
    <3> QED BY <3>1, <3>3, RankFacts DEF Strict, Authority
  <2> QED BY <1>0, <2>1, <2>2, WorldKeeps DEF Rule, rowVars, ApprovalsStand
<1>7. CASE CancelRead
  BY <1>0, <1>3, <1>7, WorldKeeps DEF CancelRead, rowVars, policyVars, ApprovalsStand
<1>8. CASE CancelCommit
  <2>1. cancel_for_run \/ UNCHANGED approval
    BY <1>8 DEF CancelCommit
  <2>2. ApprovalsStand
    BY <1>0, <2>1, CancelStands DEF ApprovalsStand
  <2> QED BY <1>0, <1>3, <1>8, <2>2, WorldKeeps DEF CancelCommit, policyVars
<1>9. CASE UNCHANGED vars
  BY <1>0, <1>3, <1>9, WorldKeeps DEF vars, rowVars, policyVars, ApprovalsStand
<1> QED BY <1>1, <1>2, <1>4, <1>5, <1>6, <1>7, <1>8, <1>9 DEF Next

\* The pipeline starts in a state of the invariant.
LEMMA PipelineInit == Init => PipelineInv
<1> SUFFICES ASSUME Init PROVE PipelineInv
  OBVIOUS
<1>1. TypeOK
  BY DEF Init, TypeOK, RunStatus, Invocation, NoRow, Approval, NoApproval, Call, Authority, ToolResult
<1>2. IdleIsFresh /\ CopyFitsStep /\ OwnerHasTheRow /\ OneSender /\ CallsInOrder
  BY DEF Init, IdleIsFresh, CopyFitsStep, OwnerHasTheRow, OneSender, CallsInOrder, Acting
<1>3. WatermarkStays /\ AtMostOnceEffect /\ EffectIsAuthorized /\ ApprovalAndInvocationAgree
  BY DEF Init, WatermarkStays, Late, NoRow, NoApproval, AtMostOnceEffect, EffectIsAuthorized,
         ApprovalAndInvocationAgree, Call
<1>4. DecisionIsEarned
  <2>1. Strict => authority \in {"REQUIRE_APPROVAL", "DENY"}
    BY <1>1, RankFacts DEF Strict, Init, TypeOK, Authority
  <2> QED BY <2>1 DEF Init, DecisionIsEarned
<1> QED BY <1>1, <1>2, <1>3, <1>4 DEF PipelineInv, Promises

\* The invariant holds of every state the pipeline can reach.
LEMMA PipelineInvariant == Spec => []PipelineInv
<1>1. PipelineInv /\ [Next]_vars => PipelineInv'
  BY PipelineTypeStep, PromisesStep DEF PipelineInv
<1> QED BY PipelineInit, <1>1, PTL DEF Spec

-----------------------------------------------------------------------------
\* Types of the rows, and of what every worker holds.
THEOREM PipelineTypeCorrect == Spec => []TypeOK
  BY PipelineInvariant, PTL DEF PipelineInv

\* The effect of a non-idempotent call happens at most once, and no effect happens
\* before its watermark is on record (mark_effect_sent, tool_recovery_action), for
\* any number of workers, crashes and lost leases.
THEOREM PipelineEffectAtMostOnce == Spec => []AtMostOnceEffect
  BY PipelineInvariant, PTL DEF PipelineInv, Promises

\* While the rules have never been more lenient than REQUIRE_APPROVAL, an effect has
\* an approved approval (_request_approval, _resume_approval).
THEOREM PipelineEffectAuthorized == Spec => []EffectIsAuthorized
  BY PipelineInvariant, PTL DEF PipelineInv, Promises

\* A waiting invocation has its approval, and an unanswered approval its waiting
\* invocation (_request_approval in one transaction).
THEOREM PipelineApprovalsAgree == Spec => []ApprovalAndInvocationAgree
  BY PipelineInvariant, PTL DEF PipelineInv, Promises

\* A call whose outcome is unknown is not repeated by a later identical call
\* (_dispatch_one), for any length of the batch.
THEOREM PipelineUncertainNotRepeated == Spec => []UncertainIsNotRepeated
<1>1. PipelineInv => UncertainIsNotRepeated
  <2> SUFFICES ASSUME PipelineInv, tool.class \notin {"READ_ONLY", "IDEMPOTENT"},
                      NEW c \in Call, NEW d \in Call, inv[c].status = "UNCERTAIN", c < d
               PROVE  effects[d] = 0
    BY DEF UncertainIsNotRepeated
  <2>1. c \in 1..(d - 1) /\ effects[d] \in Nat
    BY DEF Call, PipelineInv, TypeOK
  <2>2. ~Known(c)
    BY DEF Known
  <2> QED BY <2>1, <2>2 DEF PipelineInv, Promises, CallsInOrder
<1> QED BY <1>1, PipelineInvariant, PTL
=============================================================================
