-------------------------- MODULE DelegationProofs --------------------------
(***************************************************************************)
(* Proofs about Delegation, for any number of children, any cost limit and *)
(* any number of crashes and lost hooks.                                   *)
(***************************************************************************)
EXTENDS Delegation, FiniteSetTheorems, TLAPS

\* The children exist as soon as there is a ledger row: materialize inserts both.
ChildrenExist == delegation # "none" => \A c \in Child : child[c] \in RunStatus

\* The worker's copy of the usage is bounded as the row is: what it writes back
\* cannot charge more than has been recorded and joined.
CopyIsBounded == mem <= own + (IF delegation = "JOINED" THEN Cardinality(Child) ELSE 0)

\* The row holds exactly what was recorded, and so does the copy of a worker that
\* holds the parent, unless the join came while it was held.
UsageIsExact ==
  /\ delegation # "JOINED" => usage = own
  /\ UsageIsAdditive
  /\ pc # "idle" /\ (delegation = "JOINED" => joinedAt = "idle") => mem = usage

\* The inductive invariant.
DelegationInv ==
  /\ TypeOK
  /\ LedgerMatchesInvocation
  /\ ChildrenExist
  /\ CascadeReachesEveryChild
  /\ ChargedAtMostOnce
  /\ CopyIsBounded
  /\ UsageIsExact

-----------------------------------------------------------------------------
\* The number of children, which a join charges, is a natural number.
LEMMA ChildCount == Cardinality(Child) \in Nat
  BY FS_CardinalityType, DelegationAssumption

\* The delegation starts in a state of the invariant.
LEMMA DelegationInit == Init => DelegationInv
  BY ChildCount, DelegationAssumption
     DEF Init, DelegationInv, TypeOK, LedgerMatchesInvocation, ChildrenExist,
         CascadeReachesEveryChild, ChargedAtMostOnce, CopyIsBounded, UsageIsExact,
         UsageIsAdditive, RunStatus,
         Parked, TERMINAL_RUN_STATUSES, NotCreated

\* Every step keeps types: in particular a worker is at the parent exactly while
\* the parent runs.
LEMMA DelegationTypeStep == TypeOK /\ [Next]_vars => TypeOK'
<1> SUFFICES ASSUME TypeOK, [Next]_vars PROVE TypeOK'
  OBVIOUS
<1> USE DelegationAssumption, ChildCount
    DEF TypeOK, RunStatus, Parked, TERMINAL_RUN_STATUSES, history
<1>1. CASE ClaimParent BY <1>1 DEF ClaimParent, childVars
<1>2. CASE Materialize BY <1>2 DEF Materialize, CreateChildren
<1>3. CASE RejectDelegation BY <1>3 DEF RejectDelegation, childVars
<1>4. CASE Redispatch BY <1>4 DEF Redispatch, childVars
<1>5. CASE RecordUsage BY <1>5 DEF RecordUsage, RecordedUsage, childVars
<1>6. CASE ParkForChildren BY <1>6 DEF ParkForChildren, childVars
<1>7. CASE ParkForApproval BY <1>7 DEF ParkForApproval, childVars
<1>8. CASE EndParent BY <1>8 DEF EndParent, childVars
<1>9. CASE ParkedHook BY <1>9 DEF ParkedHook, ParentParked, WakeParent, childVars
<1>10. CASE ApprovalResolved BY <1>10 DEF ApprovalResolved, childVars
<1>11. ASSUME NEW c \in Child, ChildStep(c) PROVE TypeOK'
  BY <1>11 DEF ChildStep, ClaimChild, EndChild, ParkChild, ResumeChild, parentVars
<1>12. ASSUME NEW c \in Child, AfterRun(c) PROVE TypeOK'
  BY <1>12 DEF AfterRun, parentVars
<1>13. ASSUME NEW c \in Child, Join(c) PROVE TypeOK'
  BY <1>13 DEF Join, WakeParent
<1>14. ASSUME NEW c \in Child, CancelChild(c) PROVE TypeOK'
  <2>1. CASE child[c] \in {"QUEUED"} \cup Parked
    BY <1>14, <2>1 DEF CancelChild, parentVars
  <2>2. CASE child[c] = "RUNNING"
    <3>1. /\ cancelAsked' = [cancelAsked EXCEPT ![c] = TRUE]
          /\ UNCHANGED <<parentVars, delegation, child, hook, parks, history>>
      BY <1>14, <2>2 DEF CancelChild
    <3>2. cancelAsked' \in [Child -> BOOLEAN]
      BY <3>1, Zenon
    <3> QED BY <3>1, <3>2 DEF parentVars
  <2> QED BY <1>14, <2>1, <2>2 DEF CancelChild
<1>15. ASSUME NEW c \in Child, ReapChild(c) PROVE TypeOK'
  BY <1>15 DEF ReapChild, parentVars
<1>16. CASE CancelParent BY <1>16 DEF CancelParent, Cascade
<1>17. CASE CrashParent BY <1>17 DEF CrashParent, childVars
<1>18. CASE LoseHook BY <1>18 DEF LoseHook
<1>19. CASE UNCHANGED vars BY <1>19 DEF vars, parentVars, childVars
<1> QED
  BY <1>1, <1>2, <1>3, <1>4, <1>5, <1>6, <1>7, <1>8, <1>9, <1>10, <1>11, <1>12,
     <1>13, <1>14, <1>15, <1>16, <1>17, <1>18, <1>19
     DEF Next, ParentStep, HookStep

\* Ledger row and invocation move together, and the children of a ledger row exist.
LEMMA LedgerStep ==
  TypeOK /\ LedgerMatchesInvocation /\ ChildrenExist /\ [Next]_vars
    => (LedgerMatchesInvocation /\ ChildrenExist)'
<1> SUFFICES ASSUME TypeOK, LedgerMatchesInvocation, ChildrenExist, [Next]_vars
             PROVE (LedgerMatchesInvocation /\ ChildrenExist)'
  OBVIOUS
<1> USE DelegationAssumption
    DEF TypeOK, LedgerMatchesInvocation, ChildrenExist, Terminal, RunStatus, Parked,
        TERMINAL_RUN_STATUSES
<1>1. CASE Materialize BY <1>1 DEF Materialize, CreateChildren
<1>2. CASE RejectDelegation BY <1>2 DEF RejectDelegation, childVars
<1>3. ASSUME UNCHANGED <<inv, delegation, child>>
      PROVE (LedgerMatchesInvocation /\ ChildrenExist)'
  BY <1>3
<1>4. CASE ClaimParent \/ Redispatch \/ RecordUsage \/ ParkForChildren \/ ParkForApproval \/ EndParent
  BY <1>3, <1>4 DEF ClaimParent, Redispatch, RecordUsage, ParkForChildren, ParkForApproval,
                    EndParent, childVars
<1>5. CASE ParkedHook \/ ApprovalResolved \/ CrashParent \/ LoseHook
  BY <1>3, <1>5 DEF ParkedHook, ApprovalResolved, CrashParent, LoseHook, childVars
<1>6. ASSUME NEW c \in Child, ChildStep(c) PROVE (LedgerMatchesInvocation /\ ChildrenExist)'
  BY <1>6 DEF ChildStep, ClaimChild, EndChild, ParkChild, ResumeChild, parentVars
<1>7. ASSUME NEW c \in Child, AfterRun(c) PROVE (LedgerMatchesInvocation /\ ChildrenExist)'
  BY <1>3, <1>7 DEF AfterRun, parentVars
<1>8. ASSUME NEW c \in Child, Join(c) PROVE (LedgerMatchesInvocation /\ ChildrenExist)'
  BY <1>8 DEF Join, Joinable, AllTerminal
<1>9. ASSUME NEW c \in Child, CancelChild(c) \/ ReapChild(c)
      PROVE (LedgerMatchesInvocation /\ ChildrenExist)'
  BY <1>9 DEF CancelChild, ReapChild, parentVars
<1>10. CASE CancelParent BY <1>10 DEF CancelParent, Cascade
<1>11. CASE UNCHANGED vars BY <1>3, <1>11 DEF vars, parentVars, childVars
<1> QED
  BY <1>1, <1>2, <1>4, <1>5, <1>6, <1>7, <1>8, <1>9, <1>10, <1>11
     DEF Next, ParentStep, HookStep

\* A cancelled delegation keeps every child terminal or asked to stop: no step
\* takes a child out of a terminal status or takes a request back.
LEMMA CascadeStep ==
  TypeOK /\ ChildrenExist /\ CascadeReachesEveryChild /\ [Next]_vars
    => CascadeReachesEveryChild'
<1> SUFFICES ASSUME TypeOK, ChildrenExist, CascadeReachesEveryChild, [Next]_vars,
                    delegation' = "CANCELLED", NEW d \in Child
             PROVE (Terminal(d) \/ cancelAsked[d])'
  BY DEF CascadeReachesEveryChild
<1> USE DEF Terminal, RunStatus, Parked, TERMINAL_RUN_STATUSES
<1>1. /\ child \in [Child -> RunStatus \cup {NotCreated}]
      /\ cancelAsked \in [Child -> BOOLEAN]
  BY Zenon DEF TypeOK
<1>2. CASE CancelParent /\ delegation = "RUNNING"
  <2>1. /\ child[d] \in RunStatus
        /\ Cascade
    BY <1>2 DEF CancelParent, ChildrenExist
  <2> QED BY <2>1, <1>1 DEF Cascade
<1>3. CASE delegation = "CANCELLED"
  <2>1. Terminal(d) \/ cancelAsked[d]
    BY <1>3 DEF CascadeReachesEveryChild
  <2>2. ASSUME UNCHANGED <<child, cancelAsked>> PROVE (Terminal(d) \/ cancelAsked[d])'
    BY <2>1, <2>2
  <2>3. CASE ClaimParent \/ Redispatch \/ RecordUsage \/ ParkForChildren \/ ParkForApproval
             \/ EndParent \/ RejectDelegation
    BY <2>2, <2>3 DEF ClaimParent, Redispatch, RecordUsage, ParkForChildren, ParkForApproval,
                      EndParent, RejectDelegation, childVars
  <2>4. CASE ParkedHook \/ ApprovalResolved \/ CrashParent \/ LoseHook
    BY <2>2, <2>4 DEF ParkedHook, ApprovalResolved, CrashParent, LoseHook, childVars
  <2>5. ASSUME NEW c \in Child, ChildStep(c) \/ ReapChild(c)
        PROVE (Terminal(d) \/ cancelAsked[d])'
    BY <2>1, <2>5, <1>1 DEF ChildStep, ClaimChild, EndChild, ParkChild, ResumeChild, ReapChild
  <2>6. ASSUME NEW c \in Child, AfterRun(c) \/ Join(c) PROVE (Terminal(d) \/ cancelAsked[d])'
    BY <2>2, <2>6 DEF AfterRun, Join
  <2>7. ASSUME NEW c \in Child, CancelChild(c) PROVE (Terminal(d) \/ cancelAsked[d])'
    BY <2>1, <2>7, <1>1 DEF CancelChild
  <2>8. CASE CancelParent BY <2>2, <2>8, <1>3 DEF CancelParent
  <2>9. CASE Materialize BY <2>9, <1>3 DEF Materialize
  <2>10. CASE UNCHANGED vars BY <2>2, <2>10 DEF vars, childVars
  <2> QED
    BY <2>3, <2>4, <2>5, <2>6, <2>7, <2>8, <2>9, <2>10 DEF Next, ParentStep, HookStep
<1>4. (CancelParent /\ delegation = "RUNNING") \/ delegation = "CANCELLED"
  <2>1. CASE CancelParent BY <2>1 DEF CancelParent
  <2>2. CASE Materialize BY <2>2 DEF Materialize
  <2>3. ASSUME NEW c \in Child, Join(c) PROVE delegation = "CANCELLED"
    BY <2>3 DEF Join
  <2>4. CASE UNCHANGED delegation BY <2>4
  <2>5. CASE ClaimParent \/ Redispatch \/ RecordUsage \/ ParkForChildren \/ ParkForApproval
             \/ EndParent \/ RejectDelegation \/ ParkedHook \/ ApprovalResolved \/ CrashParent
             \/ LoseHook
    BY <2>4, <2>5 DEF ClaimParent, Redispatch, RecordUsage, ParkForChildren, ParkForApproval,
                      EndParent, RejectDelegation, ParkedHook, ApprovalResolved, CrashParent,
                      LoseHook
  <2>6. ASSUME NEW c \in Child, ChildStep(c) \/ AfterRun(c) \/ CancelChild(c) \/ ReapChild(c)
        PROVE UNCHANGED delegation
    BY <2>6 DEF ChildStep, ClaimChild, EndChild, ParkChild, ResumeChild, AfterRun, CancelChild,
                ReapChild
  <2> QED
    BY <2>1, <2>2, <2>3, <2>4, <2>5, <2>6 DEF Next, ParentStep, HookStep, vars
<1> QED BY <1>2, <1>3, <1>4

\* Neither the row nor the worker's copy ever counts the children twice.
LEMMA ChargeStep ==
  TypeOK /\ ChargedAtMostOnce /\ CopyIsBounded /\ [Next]_vars
    => (ChargedAtMostOnce /\ CopyIsBounded)'
<1> SUFFICES ASSUME TypeOK, ChargedAtMostOnce, CopyIsBounded, [Next]_vars
             PROVE (ChargedAtMostOnce /\ CopyIsBounded)'
  OBVIOUS
<1> USE ChildCount, DelegationAssumption DEF ChargedAtMostOnce, CopyIsBounded
<1>1. /\ usage \in Nat /\ mem \in Nat /\ own \in Nat
  BY DEF TypeOK
<1>2. ASSUME UNCHANGED <<usage, mem, own, delegation>>
      PROVE (ChargedAtMostOnce /\ CopyIsBounded)'
  BY <1>2
<1>3. CASE ClaimParent BY <1>1, <1>3 DEF ClaimParent
<1>4. CASE RecordUsage BY <1>1, <1>4 DEF RecordUsage, RecordedUsage
<1>5. CASE Materialize BY <1>1, <1>5 DEF Materialize
<1>6. CASE CancelParent BY <1>1, <1>6 DEF CancelParent
<1>7. ASSUME NEW c \in Child, Join(c) PROVE (ChargedAtMostOnce /\ CopyIsBounded)'
  BY <1>1, <1>7 DEF Join, Joinable
<1>8. CASE Redispatch \/ ParkForChildren \/ ParkForApproval \/ EndParent \/ RejectDelegation
           \/ ParkedHook \/ ApprovalResolved \/ CrashParent \/ LoseHook
  BY <1>2, <1>8 DEF Redispatch, ParkForChildren, ParkForApproval, EndParent, RejectDelegation,
                    ParkedHook, ApprovalResolved, CrashParent, LoseHook
<1>9. ASSUME NEW c \in Child, ChildStep(c) \/ AfterRun(c) \/ CancelChild(c) \/ ReapChild(c)
      PROVE (ChargedAtMostOnce /\ CopyIsBounded)'
  BY <1>2, <1>9 DEF ChildStep, ClaimChild, EndChild, ParkChild, ResumeChild, AfterRun,
                    CancelChild, ReapChild, parentVars
<1>10. CASE UNCHANGED vars BY <1>2, <1>10 DEF vars, parentVars
<1> QED
  BY <1>3, <1>4, <1>5, <1>6, <1>7, <1>8, <1>9, <1>10 DEF Next, ParentStep, HookStep

\* Every write of the parent's usage starts from the usage in the row, but for a
\* worker that was overtaken by the join.
LEMMA UsageStep == TypeOK /\ UsageIsExact /\ [Next]_vars => UsageIsExact'
<1> SUFFICES ASSUME TypeOK, UsageIsExact, [Next]_vars PROVE UsageIsExact'
  OBVIOUS
<1> USE ChildCount, DelegationAssumption DEF UsageIsExact, UsageIsAdditive
<1>1. /\ usage \in Nat /\ mem \in Nat /\ own \in Nat
  BY DEF TypeOK
<1>2. ASSUME UNCHANGED <<usage, mem, own, delegation, joinedAt>>, pc' = pc \/ pc' = "idle" \/ pc # "idle"
      PROVE UsageIsExact'
  BY <1>2
<1>3. CASE ClaimParent BY <1>1, <1>3 DEF ClaimParent, childVars, history
<1>4. CASE RecordUsage BY <1>1, <1>4 DEF RecordUsage, RecordedUsage, childVars, history
<1>5. CASE Materialize BY <1>1, <1>5 DEF Materialize, history
<1>6. CASE CancelParent BY <1>1, <1>6 DEF CancelParent, history
<1>7. ASSUME NEW c \in Child, Join(c) PROVE UsageIsExact'
  BY <1>1, <1>7 DEF Join, Joinable
<1>8. CASE Redispatch \/ ParkForChildren \/ ParkForApproval \/ EndParent \/ RejectDelegation
           \/ CrashParent
  BY <1>2, <1>8 DEF Redispatch, ParkForChildren, ParkForApproval, EndParent, RejectDelegation,
                    CrashParent, childVars, history
<1>9. CASE ParkedHook \/ ApprovalResolved \/ LoseHook
  BY <1>2, <1>9 DEF ParkedHook, ApprovalResolved, LoseHook, childVars, history
<1>10. ASSUME NEW c \in Child, ChildStep(c) \/ AfterRun(c) \/ CancelChild(c) \/ ReapChild(c)
      PROVE UsageIsExact'
  BY <1>2, <1>10 DEF ChildStep, ClaimChild, EndChild, ParkChild, ResumeChild, AfterRun,
                     CancelChild, ReapChild, parentVars, history
<1>11. CASE UNCHANGED vars BY <1>2, <1>11 DEF vars, parentVars, childVars, history
<1> QED
  BY <1>3, <1>4, <1>5, <1>6, <1>7, <1>8, <1>9, <1>10, <1>11 DEF Next, ParentStep, HookStep

-----------------------------------------------------------------------------
\* The invariant holds in every reachable state.
THEOREM DelegationInvariance == Spec => []DelegationInv
<1>1. DelegationInv /\ [Next]_vars => DelegationInv'
  BY DelegationTypeStep, LedgerStep, CascadeStep, ChargeStep, UsageStep DEF DelegationInv
<1> QED BY <1>1, DelegationInit, PTL DEF Spec

\* For any set of children: the parent's call is suspended exactly while its
\* delegation runs, and a joined delegation has only terminal children
\* (materialize, _child_terminal, _cancel_delegated_children).
THEOREM DelegationLedger == Spec => []LedgerMatchesInvocation
<1>1. DelegationInv => LedgerMatchesInvocation
  BY DEF DelegationInv
<1> QED BY <1>1, DelegationInvariance, PTL

\* For any set of children: however their hooks race with each other and with the
\* parent's own accounting, their usage is charged at most once (_child_terminal).
THEOREM DelegationCharges == Spec => []ChargedAtMostOnce
<1>1. DelegationInv => ChargedAtMostOnce
  BY DEF DelegationInv
<1> QED BY <1>1, DelegationInvariance, PTL

\* For any set of children: the cancellation of a suspended parent leaves each of
\* them terminal or asked to stop, for good (_cancel_delegated_children).
THEOREM DelegationCascade == Spec => []CascadeReachesEveryChild
<1>1. DelegationInv => CascadeReachesEveryChild
  BY DEF DelegationInv
<1> QED BY <1>1, DelegationInvariance, PTL

\* For any set of children: after a join that found the parent at rest the parent's
\* usage is its own plus the children's, for good (_child_terminal, update_counters).
THEOREM DelegationUsage == Spec => []UsageIsAdditive
<1>1. DelegationInv => UsageIsAdditive
  BY DEF DelegationInv, UsageIsExact
<1> QED BY <1>1, DelegationInvariance, PTL

\* For any set of children: the variables keep their types, and a worker is at the
\* parent exactly while the parent runs.
THEOREM DelegationTypeCorrect == Spec => []TypeOK
<1>1. DelegationInv => TypeOK
  BY DEF DelegationInv
<1> QED BY <1>1, DelegationInvariance, PTL
=============================================================================
