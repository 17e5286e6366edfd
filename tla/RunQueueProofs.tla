-------------------------- MODULE RunQueueProofs --------------------------
(***************************************************************************)
(* Proofs about the durable run queue, for any number of runs and workers  *)
(* and any allowance of lease expirations.                                 *)
(*                                                                         *)
(* The lease discipline is inductive together with the type invariant:     *)
(* the lease column follows the status, and every live worker's epoch is   *)
(* at most the row's, so the epoch a claim hands out is new.               *)
(***************************************************************************)
EXTENDS RunQueue, FiniteSetTheorems, TLAPS

USE RunQueueAssumption

\* The inductive invariant of the queue.
LeaseInv == TypeOK /\ LeaseIffRunning /\ EpochNamesOneExecution

-----------------------------------------------------------------------------
(* Types *)

\* The queue starts well typed.
LEMMA TypeInit == Init => TypeOK
  BY DEF Init, TypeOK, Phase

\* One appended event keeps a journal a journal.
LEMMA RecordType ==
  ASSUME TypeOK, NEW r \in Run, NEW type \in EventType, NEW e \in Nat,
         Record(r, type, e)
  PROVE  journal' \in [Run -> Seq(Events)]
  <1>1. Event(type, e) \in Events
    BY DEF Event, Events
  <1>2. Append(journal[r], Event(type, e)) \in Seq(Events)
    BY <1>1 DEF TypeOK
  <1> QED
    BY <1>2 DEF TypeOK, Record

\* The event of a status is an event of the journal.
LEMMA EventOfType == \A s \in RunStatus : EventOf(s) \in EventType
  BY DEF EventOf, EventType, RunStatus, Parked, TERMINAL_RUN_STATUSES

\* A finished worker is idle, without a run, lease or token.
LEMMA ReleaseType ==
  ASSUME TypeOK, NEW w \in Worker, Release(w)
  PROVE  /\ job' \in [Worker -> Run \cup {NoRun}]
         /\ lease' \in [Worker -> Nat]
         /\ phase' \in [Worker -> Phase]
         /\ token' \in [Worker -> CancelReason \cup {"none"}]
         /\ \A v \in Worker : phase'[v] = "idle" <=> job'[v] = NoRun
  BY DEF TypeOK, Release, Phase

\* Every step keeps the types.
LEMMA TypeStep == TypeOK /\ [Next]_vars => TypeOK'
  <1> SUFFICES ASSUME TypeOK, [Next]_vars PROVE TypeOK'
    OBVIOUS
  <1> USE DEF RunStatus, Parked, TERMINAL_RUN_STATUSES
  <1>1. ASSUME NEW r \in Run, Enqueue(r) PROVE TypeOK'
    <2>1. journal' \in [Run -> Seq(Events)]
      BY <1>1, RecordType DEF Enqueue, EventType
    <2> QED
      BY <1>1, <2>1 DEF Enqueue, TypeOK, workerVars
  <1>2. ASSUME NEW r \in Run, BecomeReady(r) PROVE TypeOK'
    BY <1>2 DEF BecomeReady, TypeOK, workerVars
  <1>3. ASSUME NEW r \in Run, Resume(r) PROVE TypeOK'
    <2>2. resumes' \in [Run -> 0..MaxResumes]
      <3>1. resumes[r] + 1 \in 0..MaxResumes
        BY <1>3 DEF Resume, TypeOK
      <3> QED
        BY <1>3, <3>1 DEF Resume, TypeOK
    <2> QED
      BY <1>3, <2>2 DEF Resume, TypeOK, workerVars
  <1>4. ASSUME NEW r \in Run, FailSuspendedOnBudget(r) PROVE TypeOK'
    <2>1. journal' \in [Run -> Seq(Events)]
      BY <1>4, RecordType DEF FailSuspendedOnBudget, EventType, TypeOK
    <2> QED
      BY <1>4, <2>1 DEF FailSuspendedOnBudget, TypeOK, workerVars
  <1>5. ASSUME NEW r \in Run, CancelParkedRun(r) PROVE TypeOK'
    <2>1. journal' \in [Run -> Seq(Events)]
      BY <1>5, RecordType DEF CancelParkedRun, EventType, TypeOK
    <2> QED
      BY <1>5, <2>1 DEF CancelParkedRun, TypeOK, workerVars
  <1>6. ASSUME NEW r \in Run, RequestCancellation(r) PROVE TypeOK'
    BY <1>6 DEF RequestCancellation, TypeOK, workerVars
  <1>7. ASSUME NEW r \in Run, LeaseLapses(r) PROVE TypeOK'
    BY <1>7 DEF LeaseLapses, TypeOK, workerVars
  <1>8. ASSUME NEW w \in Worker, NEW r \in Run, Claim(w, r) PROVE TypeOK'
    <2>1. NextEpoch(r) \in Nat
      BY DEF NextEpoch, TypeOK
    <2>2. journal' \in [Run -> Seq(Events)]
      BY <1>8, <2>1, RecordType DEF Claim, EventType
    <2> QED
      BY <1>8, <2>1, <2>2 DEF Claim, TypeOK, Phase
  <1>9. ASSUME NEW w \in Worker, StartExecution(w) PROVE TypeOK'
    BY <1>9 DEF StartExecution, TypeOK, tableVars, Phase
  <1>10. ASSUME NEW w \in Worker, Heartbeat(w) PROVE TypeOK'
    BY <1>10 DEF Heartbeat, TypeOK, CancelReason
  <1>11. ASSUME NEW w \in Worker, LosesHeartbeat(w) PROVE TypeOK'
    <2>1. CASE Release(w)
      BY <1>11, <2>1, ReleaseType DEF LosesHeartbeat, TypeOK, tableVars
    <2>2. CASE ~Release(w)
      BY <1>11, <2>2 DEF LosesHeartbeat, TypeOK, tableVars, CancelReason
    <2> QED
      BY <2>1, <2>2
  <1>12. ASSUME NEW w \in Worker, ObserveDeadline(w) PROVE TypeOK'
    BY <1>12 DEF ObserveDeadline, TypeOK, tableVars, CancelReason
  <1>13. ASSUME NEW w \in Worker, Progress(w) PROVE TypeOK'
    <2>1. job[w] \in Run /\ lease[w] \in Nat
      BY <1>13 DEF Progress, TypeOK
    <2>2. CASE Owns(w, job[w])
      <3>1. journal' \in [Run -> Seq(Events)]
        BY <1>13, <2>1, <2>2, RecordType DEF Progress, EventType
      <3> QED
        BY <1>13, <2>2, <3>1 DEF Progress, TypeOK, workerVars
    <2>3. CASE ~Owns(w, job[w])
      BY <1>13, <2>3, ReleaseType DEF Progress, TypeOK
    <2> QED
      BY <2>2, <2>3
  <1>14. ASSUME NEW w \in Worker, NEW outcome \in RunStatus, Finalize(w, outcome)
         PROVE TypeOK'
    <2>1. job[w] \in Run /\ lease[w] \in Nat
      BY <1>14 DEF Finalize, TypeOK
    <2>2. EventOf(outcome) \in EventType
      BY EventOfType
    <2>3. journal' \in [Run -> Seq(Events)]
      BY <1>14, <2>1, <2>2, RecordType DEF Finalize
    <2> QED
      BY <1>14, <2>1, <2>3, ReleaseType DEF Finalize, TypeOK, LeaseReleased
  <1>15. ASSUME NEW w \in Worker, FinalizeFenced(w) PROVE TypeOK'
    BY <1>15, ReleaseType DEF FinalizeFenced, TypeOK, tableVars
  <1>16. ASSUME NEW w \in Worker, Crash(w) PROVE TypeOK'
    BY <1>16, ReleaseType DEF Crash, TypeOK, tableVars
  <1>17. ASSUME NEW batch \in SUBSET Run, ReclaimExpired(batch) PROVE TypeOK'
    <2>1. \A r \in Run : Expired(r) \in Nat
      BY DEF Expired, TypeOK
    <2>2. \A r \in Run :
            Append(journal[r],
                   Event(IF Exhausted(r) THEN "run.failed" ELSE "run.requeued", epoch[r]))
              \in Seq(Events)
      <3> TAKE r \in Run
      <3> DEFINE ev == Event(IF Exhausted(r) THEN "run.failed" ELSE "run.requeued", epoch[r])
      <3>1. ev \in Events
        BY DEF Event, Events, EventType, TypeOK
      <3>2. journal[r] \in Seq(Events)
        BY DEF TypeOK
      <3> HIDE DEF ev
      <3>3. Append(journal[r], ev) \in Seq(Events)
        BY <3>1, <3>2
      <3> QED
        BY <3>3 DEF ev
    <2>3. journal' \in [Run -> Seq(Events)]
      BY <1>17, <2>2 DEF ReclaimExpired, TypeOK
    <2> QED
      BY <1>17, <2>1, <2>3 DEF ReclaimExpired, TypeOK, workerVars
  <1>18. CASE Redeploy
    BY <1>18 DEF Redeploy, TypeOK, tableVars, workerVars
  <1>19. CASE UNCHANGED vars
    BY <1>19 DEF vars, tableVars, workerVars, TypeOK
  <1> QED
    BY <1>1, <1>2, <1>3, <1>4, <1>5, <1>6, <1>7, <1>8, <1>9, <1>10, <1>11, <1>12,
       <1>13, <1>14, <1>15, <1>16, <1>17, <1>18, <1>19
    DEF Next, Submission, Cancellation, WorkerStep, Maintenance

\* Every value the queue, its workers and its journals take has its type, and a
\* worker process is idle exactly when it holds no claimed run.
THEOREM QueueTypeCorrect == Spec => []TypeOK
  BY TypeInit, TypeStep, PTL DEF Spec

-----------------------------------------------------------------------------
(* The lease discipline *)

\* At the start nothing is leased and nobody works.
LEMMA LeaseInit == Init => LeaseIffRunning /\ EpochNamesOneExecution
  BY DEF Init, LeaseIffRunning, EpochNamesOneExecution, NotCreated

\* A released worker holds no run, so it can no longer clash with anybody.
LEMMA ReleaseKeepsEpochs ==
  ASSUME LeaseInv, NEW w \in Worker, Release(w), UNCHANGED <<status, owner, epoch>>
  PROVE  LeaseIffRunning' /\ EpochNamesOneExecution'
  BY DEF LeaseInv, TypeOK, LeaseIffRunning, EpochNamesOneExecution, Release

\* What a step that leaves workers, epochs and owners alone must respect: it
\* neither starts a run nor takes one out of a worker's hands.
LEMMA UnheldMoveKeepsLeases ==
  ASSUME LeaseInv, UNCHANGED <<owner, epoch, job, lease>>,
         \A r \in Run : status'[r] = "RUNNING" <=> status[r] = "RUNNING"
  PROVE  LeaseIffRunning' /\ EpochNamesOneExecution'
  BY DEF LeaseInv, TypeOK, LeaseIffRunning, EpochNamesOneExecution

\* Every step keeps leases and epochs as they should be.
LEMMA LeaseStep == LeaseInv /\ [Next]_vars => LeaseIffRunning' /\ EpochNamesOneExecution'
  <1> SUFFICES ASSUME LeaseInv, [Next]_vars
               PROVE  LeaseIffRunning' /\ EpochNamesOneExecution'
    OBVIOUS
  <1>0. TypeOK
    BY DEF LeaseInv
  <1> USE DEF Parked
  <1>1. ASSUME NEW r \in Run, Enqueue(r) PROVE LeaseIffRunning' /\ EpochNamesOneExecution'
    BY <1>0, <1>1, UnheldMoveKeepsLeases DEF Enqueue, TypeOK, workerVars, NotCreated
  <1>2. ASSUME NEW r \in Run, BecomeReady(r) PROVE LeaseIffRunning' /\ EpochNamesOneExecution'
    BY <1>0, <1>2, UnheldMoveKeepsLeases DEF BecomeReady, TypeOK, workerVars, NotCreated
  <1>3. ASSUME NEW r \in Run, CancelParkedRun(r) PROVE LeaseIffRunning' /\ EpochNamesOneExecution'
    BY <1>0, <1>3, UnheldMoveKeepsLeases DEF CancelParkedRun, TypeOK, workerVars, NotCreated
  <1>4. ASSUME NEW r \in Run, RequestCancellation(r) PROVE LeaseIffRunning' /\ EpochNamesOneExecution'
    BY <1>0, <1>4, UnheldMoveKeepsLeases DEF RequestCancellation, TypeOK, workerVars, NotCreated
  <1>5. ASSUME NEW r \in Run, Resume(r) PROVE LeaseIffRunning' /\ EpochNamesOneExecution'
    BY <1>0, <1>5, UnheldMoveKeepsLeases DEF Resume, TypeOK, workerVars, NotCreated
  <1>6. ASSUME NEW r \in Run, FailSuspendedOnBudget(r) PROVE LeaseIffRunning' /\ EpochNamesOneExecution'
    BY <1>0, <1>6, UnheldMoveKeepsLeases DEF FailSuspendedOnBudget, TypeOK, workerVars, NotCreated
  <1>7. ASSUME NEW r \in Run, LeaseLapses(r) PROVE LeaseIffRunning' /\ EpochNamesOneExecution'
    BY <1>0, <1>7, UnheldMoveKeepsLeases DEF LeaseLapses, TypeOK, workerVars, NotCreated
  <1>8. ASSUME NEW w \in Worker, NEW r \in Run, Claim(w, r)
       PROVE  LeaseIffRunning' /\ EpochNamesOneExecution'
    <2>1. /\ status' = [status EXCEPT ![r] = "RUNNING"]
          /\ owner' = [owner EXCEPT ![r] = w]
          /\ epoch' = [epoch EXCEPT ![r] = epoch[r] + 1]
          /\ job' = [job EXCEPT ![w] = r]
          /\ lease' = [lease EXCEPT ![w] = epoch[r] + 1]
      BY <1>8 DEF Claim, NextEpoch
    <2>2. LeaseIffRunning'
      BY <1>0, <2>1 DEF LeaseInv, TypeOK, LeaseIffRunning
    <2>3. \A v \in Worker \ {w} : job[v] = r => lease[v] < epoch'[r]
      <3> TAKE v \in Worker \ {w}
      <3> HAVE job[v] = r
      <3>1. lease[v] <= epoch[r] /\ lease[v] \in Nat /\ epoch[r] \in Nat
        BY <1>0 DEF LeaseInv, TypeOK, EpochNamesOneExecution
      <3>2. epoch'[r] = epoch[r] + 1
        BY <1>0, <2>1 DEF TypeOK
      <3> QED
        BY <3>1, <3>2
    <2>4. EpochNamesOneExecution'
      BY <1>0, <2>1, <2>3, SMTT(30) DEF LeaseInv, TypeOK, EpochNamesOneExecution
    <2> QED
      BY <2>2, <2>4
  <1>9. ASSUME NEW w \in Worker, StartExecution(w) PROVE LeaseIffRunning' /\ EpochNamesOneExecution'
    BY <1>0, <1>9, UnheldMoveKeepsLeases DEF StartExecution, TypeOK, tableVars
  <1>10. ASSUME NEW w \in Worker, Heartbeat(w) PROVE LeaseIffRunning' /\ EpochNamesOneExecution'
    BY <1>0, <1>10, UnheldMoveKeepsLeases DEF Heartbeat, TypeOK
  <1>11. ASSUME NEW w \in Worker, ObserveDeadline(w) PROVE LeaseIffRunning' /\ EpochNamesOneExecution'
    BY <1>0, <1>11, UnheldMoveKeepsLeases DEF ObserveDeadline, TypeOK, tableVars
  <1>12. ASSUME NEW w \in Worker, LosesHeartbeat(w)
        PROVE  LeaseIffRunning' /\ EpochNamesOneExecution'
    <2>1. CASE Release(w)
      BY <1>12, <2>1, ReleaseKeepsEpochs DEF LosesHeartbeat, tableVars
    <2>2. CASE ~Release(w)
      BY <1>0, <1>12, <2>2, UnheldMoveKeepsLeases DEF LosesHeartbeat, tableVars, TypeOK
    <2> QED
      BY <2>1, <2>2
  <1>13. ASSUME NEW w \in Worker, Progress(w)
        PROVE  LeaseIffRunning' /\ EpochNamesOneExecution'
    <2>1. CASE Owns(w, job[w])
      BY <1>0, <1>13, <2>1, UnheldMoveKeepsLeases DEF Progress, workerVars, TypeOK
    <2>2. CASE ~Owns(w, job[w])
      BY <1>13, <2>2, ReleaseKeepsEpochs DEF Progress
    <2> QED
      BY <2>1, <2>2
  <1>14. ASSUME NEW w \in Worker, NEW outcome \in RunStatus, Finalize(w, outcome)
        PROVE  LeaseIffRunning' /\ EpochNamesOneExecution'
    <2>1. outcome # "RUNNING" /\ job[w] \in Run
      BY <1>0, <1>14 DEF Finalize, Outcome, TypeOK
    <2>2. /\ status' = [status EXCEPT ![job[w]] = outcome]
          /\ owner' = [owner EXCEPT ![job[w]] = NoWorker]
          /\ epoch' = epoch
          /\ job' = [job EXCEPT ![w] = NoRun]
          /\ lease' = [lease EXCEPT ![w] = 0]
      BY <1>14 DEF Finalize, LeaseReleased, Release
    <2>3. LeaseIffRunning'
      BY <1>0, <2>1, <2>2 DEF LeaseInv, TypeOK, LeaseIffRunning
    <2>4. EpochNamesOneExecution'
      BY <1>0, <2>1, <2>2, SMTT(30) DEF LeaseInv, TypeOK, EpochNamesOneExecution
    <2> QED
      BY <2>3, <2>4
  <1>15. ASSUME NEW w \in Worker, FinalizeFenced(w) PROVE LeaseIffRunning' /\ EpochNamesOneExecution'
    BY <1>15, ReleaseKeepsEpochs DEF FinalizeFenced, tableVars
  <1>16. ASSUME NEW w \in Worker, Crash(w) PROVE LeaseIffRunning' /\ EpochNamesOneExecution'
    BY <1>16, ReleaseKeepsEpochs DEF Crash, tableVars
  <1>17. ASSUME NEW batch \in SUBSET Run, ReclaimExpired(batch)
        PROVE  LeaseIffRunning' /\ EpochNamesOneExecution'
    <2>1. \A r \in Run : /\ r \in batch => status'[r] # "RUNNING" /\ owner'[r] = NoWorker
                         /\ r \notin batch => status'[r] = status[r] /\ owner'[r] = owner[r]
      BY <1>17 DEF ReclaimExpired
    <2>2. UNCHANGED <<epoch, job, lease>>
      BY <1>17 DEF ReclaimExpired, workerVars
    <2>3. LeaseIffRunning'
      BY <2>1 DEF LeaseInv, LeaseIffRunning
    <2>4. \A w \in Worker : job[w] # NoRun => job[w] \in Run
      BY <1>0 DEF TypeOK
    <2>5. EpochNamesOneExecution'
      BY <2>1, <2>2, <2>4 DEF LeaseInv, EpochNamesOneExecution
    <2> QED
      BY <2>3, <2>5
  <1>18. CASE Redeploy
    BY <1>18, UnheldMoveKeepsLeases DEF Redeploy, tableVars, workerVars
  <1>19. CASE UNCHANGED vars
    BY <1>19, UnheldMoveKeepsLeases DEF vars, tableVars, workerVars
  <1> QED
    BY <1>1, <1>2, <1>3, <1>4, <1>5, <1>6, <1>7, <1>8, <1>9, <1>10, <1>11,
       <1>12, <1>13, <1>14, <1>15, <1>16, <1>17, <1>18, <1>19
    DEF Next, Submission, Cancellation, WorkerStep, Maintenance

\* Types, leases and epochs together are an invariant.
LEMMA LeaseInvariant == Spec => []LeaseInv
  <1>1. Init => LeaseInv
    BY TypeInit, LeaseInit DEF LeaseInv
  <1>2. LeaseInv /\ [Next]_vars => LeaseInv'
    BY TypeStep, LeaseStep DEF LeaseInv
  <1> QED
    BY <1>1, <1>2, PTL DEF Spec

\* A run row holds a lease exactly while the run is RUNNING, whatever claims,
\* heartbeats, finalizations, crashes, cancellations and reclaims interleave.
THEOREM QueueLeases == Spec => []LeaseIffRunning
  BY LeaseInvariant, PTL DEF LeaseInv

\* An epoch names one execution: two workers never act for the same run under
\* the same epoch, for any number of workers, crashes and reclaims.
THEOREM QueueEpochs == Spec => []EpochNamesOneExecution
  BY LeaseInvariant, PTL DEF LeaseInv

-----------------------------------------------------------------------------
(* The queue implements the run lifecycle *)

\* The lifecycle module speaks of the same statuses and the same table.
LEMMA SameTable == /\ Lifecycle!RunStatus = RunStatus
                   /\ Lifecycle!ALLOWED_TRANSITIONS = ALLOWED_TRANSITIONS
                   /\ Lifecycle!NotCreated = NotCreated
  <1>1. Lifecycle!TERMINAL_RUN_STATUSES = TERMINAL_RUN_STATUSES /\ Lifecycle!Parked = Parked
    BY DEF Lifecycle!TERMINAL_RUN_STATUSES, TERMINAL_RUN_STATUSES, Lifecycle!Parked, Parked
  <1>2. Lifecycle!RunStatus = RunStatus
    BY <1>1 DEF Lifecycle!RunStatus, RunStatus
  <1>3. Lifecycle!ALLOWED_TRANSITIONS = ALLOWED_TRANSITIONS
    BY <1>1, <1>2 DEF Lifecycle!ALLOWED_TRANSITIONS, ALLOWED_TRANSITIONS
  <1> QED
    BY <1>2, <1>3 DEF Lifecycle!NotCreated, NotCreated

\* The initial states are initial states of the lifecycle.
LEMMA LifecycleInit == Init => Lifecycle!Init
  BY SameTable DEF Init, Lifecycle!Init

\* A step that moves one run along the transition table, without starting it.
LEMMA RowMove ==
  ASSUME TypeOK, NEW r \in Run, NEW s \in RunStatus, status[r] \in RunStatus,
         s \in ALLOWED_TRANSITIONS[status[r]] \ {"RUNNING"},
         status' = [status EXCEPT ![r] = s], epoch' = epoch
  PROVE  Lifecycle!Next
  <1>1. DOMAIN status' = Run /\ DOMAIN epoch' = Run
    BY DEF TypeOK
  <1>2. Lifecycle!Move(r)
    BY SameTable DEF TypeOK, Lifecycle!Move
  <1>3. \A q \in Run \ {r} : Lifecycle!Stay(q)
    BY DEF TypeOK, Lifecycle!Stay
  <1> QED
    BY <1>1, <1>2, <1>3 DEF Lifecycle!Next

\* The table's rows, as the actions use them.
LEMMA TransitionRows ==
  /\ ALLOWED_TRANSITIONS["QUEUED"] = {"RUNNING", "CANCELLED", "FAILED"}
  /\ ALLOWED_TRANSITIONS["RUNNING"] = Parked \cup TERMINAL_RUN_STATUSES \cup {"QUEUED"}
  /\ \A s \in Parked : ALLOWED_TRANSITIONS[s] = {"QUEUED", "CANCELLED", "FAILED"}
  BY DEF ALLOWED_TRANSITIONS, RunStatus, Parked, TERMINAL_RUN_STATUSES

\* Every step is a step of the lifecycle or a stutter.
LEMMA LifecycleStep == TypeOK /\ [Next]_vars => [Lifecycle!Next]_(Lifecycle!vars)
  <1> SUFFICES ASSUME TypeOK, [Next]_vars, ~UNCHANGED <<status, epoch>>
               PROVE  Lifecycle!Next
    BY DEF Lifecycle!vars
  <1> USE DEF RunStatus, Parked, TERMINAL_RUN_STATUSES
  <1>1. ASSUME NEW r \in Run, Enqueue(r) PROVE Lifecycle!Next
    <2>1. Lifecycle!Create(r)
      BY <1>1, SameTable DEF Enqueue, TypeOK, Lifecycle!Create
    <2>2. \A q \in Run \ {r} : Lifecycle!Stay(q)
      BY <1>1 DEF Enqueue, TypeOK, Lifecycle!Stay
    <2> QED
      BY <1>1, <2>1, <2>2 DEF Enqueue, TypeOK, Lifecycle!Next
  <1>2. ASSUME NEW r \in Run, CancelParkedRun(r) PROVE Lifecycle!Next
    BY <1>2, RowMove, TransitionRows DEF CancelParkedRun
  <1>3. ASSUME NEW r \in Run, Resume(r) PROVE Lifecycle!Next
    BY <1>3, RowMove, TransitionRows DEF Resume
  <1>4. ASSUME NEW r \in Run, FailSuspendedOnBudget(r) PROVE Lifecycle!Next
    BY <1>4, RowMove, TransitionRows DEF FailSuspendedOnBudget
  <1>5. ASSUME NEW w \in Worker, NEW r \in Run, Claim(w, r) PROVE Lifecycle!Next
    <2>1. Lifecycle!Start(r)
      BY <1>5 DEF Claim, Claimable, NextEpoch, TypeOK, Lifecycle!Start
    <2>2. \A q \in Run \ {r} : Lifecycle!Stay(q)
      BY <1>5 DEF Claim, TypeOK, Lifecycle!Stay
    <2> QED
      BY <1>5, <2>1, <2>2 DEF Claim, TypeOK, Lifecycle!Next
  <1>6. ASSUME NEW w \in Worker, NEW outcome \in RunStatus, Finalize(w, outcome)
        PROVE Lifecycle!Next
    <2>1. job[w] \in Run
      BY <1>6 DEF Finalize, TypeOK
    <2>2. outcome \in ALLOWED_TRANSITIONS["RUNNING"] \ {"RUNNING"}
      BY <1>6, TransitionRows DEF Finalize, Outcome
    <2> QED
      BY <1>6, <2>1, <2>2, RowMove DEF Finalize
  <1>7. ASSUME NEW batch \in SUBSET Run, ReclaimExpired(batch) PROVE Lifecycle!Next
    <2>1. DOMAIN status' = Run /\ DOMAIN epoch' = Run
      BY <1>7 DEF ReclaimExpired, TypeOK
    <2>2. ASSUME NEW r \in batch PROVE Lifecycle!Move(r)
      <3>1. status'[r] = IF Exhausted(r) THEN "FAILED" ELSE "QUEUED"
        BY <1>7 DEF ReclaimExpired
      <3>2. status[r] = "QUEUED" => Exhausted(r)
        BY <1>7 DEF ReclaimExpired, Reclaimable, Exhausted, Expired, TypeOK
      <3>3. status[r] \in {"RUNNING", "QUEUED"}
        BY <1>7 DEF ReclaimExpired, Reclaimable
      <3>4. epoch'[r] = epoch[r]
        BY <1>7 DEF ReclaimExpired
      <3> QED
        BY <3>1, <3>2, <3>3, <3>4, TransitionRows, SameTable DEF Lifecycle!Move
    <2>3. \A r \in Run \ batch : Lifecycle!Stay(r)
      BY <1>7 DEF ReclaimExpired, Lifecycle!Stay
    <2> QED
      BY <2>1, <2>2, <2>3 DEF Lifecycle!Next
  <1>8. ASSUME NEW r \in Run,
               BecomeReady(r) \/ RequestCancellation(r) \/ LeaseLapses(r)
        PROVE  UNCHANGED <<status, epoch>>
    BY <1>8 DEF BecomeReady, RequestCancellation, LeaseLapses
  <1>9. ASSUME NEW w \in Worker,
               \/ StartExecution(w) \/ Heartbeat(w) \/ LosesHeartbeat(w)
               \/ ObserveDeadline(w) \/ Progress(w) \/ FinalizeFenced(w) \/ Crash(w)
        PROVE  UNCHANGED <<status, epoch>>
    BY <1>9 DEF StartExecution, Heartbeat, LosesHeartbeat, ObserveDeadline, Progress,
                FinalizeFenced, Crash, tableVars
  <1>10. CASE Redeploy \/ UNCHANGED vars
    BY <1>10 DEF Redeploy, vars, tableVars
  <1> QED
    BY <1>1, <1>2, <1>3, <1>4, <1>5, <1>6, <1>7, <1>8, <1>9, <1>10
    DEF Next, Submission, Cancellation, WorkerStep, Maintenance

\* The queue implements the run lifecycle: with leases, workers and the reaper
\* hidden, every run moves only along ALLOWED_TRANSITIONS, and its epoch grows
\* exactly when it is started.
THEOREM QueueImplementsLifecycle == Spec => ImplementsLifecycle
  <1>1. TypeOK /\ [Next]_vars => [Lifecycle!Next]_(Lifecycle!vars)
    BY LifecycleStep
  <1> QED
    BY LifecycleInit, <1>1, QueueTypeCorrect, PTL DEF Spec, ImplementsLifecycle, Lifecycle!Spec

-----------------------------------------------------------------------------
(* The journal replays the row and holds nothing of a fenced worker *)

\* Position k of journal s is the latest before i that is not mere progress.
Handover(s, i, k) ==
  /\ k \in 1..(i-1)
  /\ s[k].type # "step"
  /\ \A j \in (k+1)..(i-1) : s[j].type = "step"

\* The claims that journal s records.
Claims(s) == {i \in DOMAIN s : s[i].type = "run.claimed"}

\* Journal s is that of a run in status st at epoch ep: it is the record of a
\* submission onwards, its latest handover accounts for the status and, while
\* the run is running, for the epoch, its claims are counted by the epoch, and
\* each leased event follows the claim whose epoch it carries.
Accounts(s, st, ep) ==
  IF st = NotCreated
  THEN s = <<>> /\ ep = 0
  ELSE /\ Len(s) > 0
       /\ \E k \in 1..Len(s) : /\ Handover(s, Len(s) + 1, k)
                               /\ st \in StatusesAfter(s[k].type)
                               /\ st = "RUNNING" => s[k] = Event("run.claimed", ep)
       /\ IsFiniteSet(Claims(s)) /\ ep = Cardinality(Claims(s))
       /\ \A i \in 1..Len(s) : s[i].type \in LeasedEvents =>
            \E k \in 1..Len(s) :
              Handover(s, i, k) /\ s[k] = Event("run.claimed", s[i].epoch)

\* Every journal accounts for its run's row.
JournalsAccount == \A r \in Run : Accounts(journal[r], status[r], epoch[r])

\* What appending an event does to a journal.
LEMMA AppendFacts ==
  ASSUME NEW s \in Seq(Events), NEW e \in Events
  PROVE  /\ Append(s, e) \in Seq(Events)
         /\ Len(Append(s, e)) = Len(s) + 1
         /\ Len(s) \in Nat
         /\ DOMAIN s = 1..Len(s)
         /\ DOMAIN Append(s, e) = 1..(Len(s) + 1)
         /\ \A i \in 1..Len(s) : Append(s, e)[i] = s[i]
         /\ Append(s, e)[Len(s) + 1] = e
  OBVIOUS

\* A handover stays the handover of its position when an event is appended.
LEMMA AppendKeepsHandovers ==
  ASSUME NEW s \in Seq(Events), NEW e \in Events, NEW i \in 1..(Len(s) + 1), NEW k,
         Handover(s, i, k)
  PROVE  Handover(Append(s, e), i, k) /\ Append(s, e)[k] = s[k]
  <1> DEFINE t == Append(s, e)
  <1>1. Len(s) \in Nat /\ \A j \in 1..Len(s) : t[j] = s[j]
    BY AppendFacts
  <1> HIDE DEF t
  <1>2. k \in 1..Len(s) /\ \A j \in (k+1)..(i-1) : j \in 1..Len(s)
    BY <1>1 DEF Handover
  <1>3. Handover(t, i, k) /\ t[k] = s[k]
    BY <1>1, <1>2 DEF Handover
  <1> QED
    BY <1>3 DEF t

\* The epoch counts one claim more exactly when a claim is appended.
LEMMA AppendCountsClaims ==
  ASSUME NEW s \in Seq(Events), NEW e \in Events, IsFiniteSet(Claims(s))
  PROVE  /\ IsFiniteSet(Claims(Append(s, e)))
         /\ Cardinality(Claims(Append(s, e)))
              = Cardinality(Claims(s)) + IF e.type = "run.claimed" THEN 1 ELSE 0
  <1> DEFINE t == Append(s, e)
             n == Len(s) + 1
  <1>1. /\ Len(s) \in Nat
        /\ DOMAIN s = 1..Len(s)
        /\ DOMAIN t = 1..n
        /\ \A i \in 1..Len(s) : t[i] = s[i]
        /\ t[n] = e
    BY AppendFacts
  <1>2. n \notin Claims(s) /\ Cardinality(Claims(s)) \in Nat
    BY <1>1, FS_CardinalityType DEF Claims
  <1> HIDE DEF t
  <1>3. CASE e.type = "run.claimed"
    <2>1. Claims(t) = Claims(s) \cup {n}
      BY <1>1, <1>3 DEF Claims
    <2> QED
      BY <1>2, <1>3, <2>1, FS_AddElement DEF t
  <1>4. CASE e.type # "run.claimed"
    <2>1. Claims(t) = Claims(s)
      BY <1>1, <1>4 DEF Claims
    <2> QED
      BY <1>2, <1>4, <2>1 DEF t
  <1> QED
    BY <1>3, <1>4

\* A leased event under the row's lease may be appended to the journal of a
\* running run; any other event but progress may always be.
LEMMA AppendAccounts ==
  ASSUME NEW s \in Seq(Events), NEW e \in Events,
         NEW st \in RunStatus \cup {NotCreated}, NEW ep \in Nat,
         NEW st2 \in RunStatus, NEW ep2 \in Nat,
         Accounts(s, st, ep),
         e.type \in LeasedEvents => st = "RUNNING" /\ e.epoch = ep,
         ep2 = ep + IF e.type = "run.claimed" THEN 1 ELSE 0,
         IF e.type = "step" THEN st2 = st ELSE st2 \in StatusesAfter(e.type),
         st2 = "RUNNING" => e.type = "step" \/ e = Event("run.claimed", ep2)
  PROVE  Accounts(Append(s, e), st2, ep2)
  <1> DEFINE t == Append(s, e)
             n == Len(s) + 1
  <1>1. /\ Len(s) \in Nat
        /\ Len(t) = n
        /\ \A i \in 1..Len(s) : t[i] = s[i]
        /\ t[n] = e
        /\ DOMAIN s = 1..Len(s)
    BY AppendFacts
  <1>2. st2 # NotCreated
    BY DEF NotCreated, RunStatus, Parked, TERMINAL_RUN_STATUSES
  <1>3. IsFiniteSet(Claims(s)) /\ ep = Cardinality(Claims(s))
    <2>1. CASE st = NotCreated
      <3>1. Claims(s) = {}
        BY <2>1 DEF Accounts, Claims
      <3> QED
        BY <2>1, <3>1, FS_EmptySet DEF Accounts
    <2> QED
      BY <2>1 DEF Accounts
  <1>4. IsFiniteSet(Claims(t)) /\ ep2 = Cardinality(Claims(t))
    BY <1>3, AppendCountsClaims
  <1>5. \A i \in 1..n : \A k : Handover(s, i, k) => Handover(t, i, k) /\ t[k] = s[k]
    BY AppendKeepsHandovers
  <1> HIDE DEF t
  <1>6. \E k \in 1..n : /\ Handover(t, n + 1, k)
                        /\ st2 \in StatusesAfter(t[k].type)
                        /\ st2 = "RUNNING" => t[k] = Event("run.claimed", ep2)
    <2>1. CASE e.type # "step"
      <3>1. Handover(t, n + 1, n)
        BY <1>1, <2>1 DEF Handover
      <3> QED
        BY <1>1, <2>1, <3>1
    <2>2. CASE e.type = "step"
      <3>1. st = "RUNNING" /\ st # NotCreated /\ ep2 = ep /\ st2 = st
        BY <2>2 DEF LeasedEvents, NotCreated
      <3>2. PICK k \in 1..Len(s) : /\ Handover(s, n, k)
                                   /\ st \in StatusesAfter(s[k].type)
                                   /\ s[k] = Event("run.claimed", ep)
        BY <3>1 DEF Accounts
      <3>3. Handover(t, n, k) /\ t[k] = s[k]
        BY <1>1, <1>5, <3>2
      <3>4. Handover(t, n + 1, k)
        BY <1>1, <2>2, <3>3 DEF Handover
      <3> QED
        BY <1>1, <3>1, <3>2, <3>3, <3>4
    <2> QED
      BY <2>1, <2>2
  <1>7. ASSUME NEW i \in 1..n, t[i].type \in LeasedEvents
        PROVE  \E k \in 1..n : Handover(t, i, k) /\ t[k] = Event("run.claimed", t[i].epoch)
    <2>1. CASE i = n
      <3>1. st = "RUNNING" /\ st # NotCreated /\ e.epoch = ep
        BY <1>1, <1>7, <2>1 DEF NotCreated
      <3>2. PICK k \in 1..Len(s) : Handover(s, n, k) /\ s[k] = Event("run.claimed", ep)
        BY <3>1 DEF Accounts
      <3>3. Handover(t, n, k) /\ t[k] = s[k]
        BY <1>1, <1>5, <3>2
      <3> QED
        BY <1>1, <2>1, <3>1, <3>2, <3>3
    <2>2. CASE i # n
      <3>1. i \in 1..Len(s) /\ t[i] = s[i]
        BY <1>1, <2>2
      <3>2. st # NotCreated
        <4>1. s = <<>> => Len(s) = 0
          OBVIOUS
        <4> QED
          BY <1>1, <3>1, <4>1 DEF Accounts
      <3>3. PICK k \in 1..Len(s) : Handover(s, i, k) /\ s[k] = Event("run.claimed", s[i].epoch)
        BY <1>7, <3>1, <3>2 DEF Accounts
      <3> QED
        BY <1>1, <1>5, <3>1, <3>3
    <2> QED
      BY <2>1, <2>2
  <1>8. Accounts(t, st2, ep2)
    BY <1>1, <1>2, <1>4, <1>6, <1>7 DEF Accounts
  <1> QED
    BY <1>8 DEF t

\* The empty journals account for rows that do not exist yet.
LEMMA AccountsInit == Init => JournalsAccount
  BY DEF Init, JournalsAccount, Accounts

\* A step that appends one event to the journal of one run.
LEMMA RecordAccounts ==
  ASSUME TypeOK, JournalsAccount, NEW r \in Run, NEW type \in EventType, NEW e \in Nat,
         NEW st2 \in RunStatus, NEW ep2 \in Nat,
         Record(r, type, e),
         status' = [status EXCEPT ![r] = st2], epoch' = [epoch EXCEPT ![r] = ep2],
         type \in LeasedEvents => status[r] = "RUNNING" /\ e = epoch[r],
         ep2 = epoch[r] + IF type = "run.claimed" THEN 1 ELSE 0,
         IF type = "step" THEN st2 = status[r] ELSE st2 \in StatusesAfter(type),
         st2 = "RUNNING" => type = "step" \/ (type = "run.claimed" /\ e = ep2)
  PROVE  JournalsAccount'
  <1> DEFINE ev == Event(type, e)
  <1>1. ev \in Events /\ ev.type = type /\ ev.epoch = e
    BY DEF Event, Events
  <1>2. journal[r] \in Seq(Events) /\ status[r] \in RunStatus \cup {NotCreated}
          /\ epoch[r] \in Nat /\ Accounts(journal[r], status[r], epoch[r])
    BY DEF TypeOK, JournalsAccount
  <1>3. st2 = "RUNNING" => ev.type = "step" \/ ev = Event("run.claimed", ep2)
    BY DEF Event
  <1> HIDE DEF ev
  <1>4. Accounts(Append(journal[r], ev), st2, ep2)
    BY <1>1, <1>2, <1>3, AppendAccounts
  <1>5. /\ journal'[r] = Append(journal[r], ev)
        /\ status'[r] = st2
        /\ epoch'[r] = ep2
    BY DEF TypeOK, Record, ev
  <1>6. \A q \in Run \ {r} : /\ journal'[q] = journal[q]
                            /\ status'[q] = status[q]
                            /\ epoch'[q] = epoch[q]
    BY DEF TypeOK, Record
  <1>7. ASSUME NEW q \in Run PROVE Accounts(journal'[q], status'[q], epoch'[q])
    BY <1>4, <1>5, <1>6, <1>7 DEF JournalsAccount
  <1> QED
    BY <1>7 DEF JournalsAccount

\* A step that appends one event of a transition other than a claim.
LEMMA TransitionAccounts ==
  ASSUME TypeOK, JournalsAccount, NEW r \in Run, NEW st2 \in RunStatus,
         NEW type \in EventType \ {"step", "run.claimed"}, st2 \in StatusesAfter(type),
         Record(r, type, epoch[r]),
         status' = [status EXCEPT ![r] = st2], epoch' = epoch,
         type \in LeasedEvents => status[r] = "RUNNING"
  PROVE  JournalsAccount'
  <1>1. epoch[r] \in Nat /\ epoch' = [epoch EXCEPT ![r] = epoch[r]]
    BY DEF TypeOK
  <1>2. epoch[r] = epoch[r] + IF type = "run.claimed" THEN 1 ELSE 0
    BY <1>1
  <1>3. st2 # "RUNNING"
    BY DEF StatusesAfter, EventType
  <1> QED
    BY <1>1, <1>2, <1>3, RecordAccounts

\* Every step keeps the journals accounting for their rows.
LEMMA AccountsStep == LeaseInv /\ JournalsAccount /\ [Next]_vars => JournalsAccount'
  <1> SUFFICES ASSUME LeaseInv, JournalsAccount, [Next]_vars PROVE JournalsAccount'
    OBVIOUS
  <1>0. TypeOK /\ LeaseIffRunning
    BY DEF LeaseInv
  <1>a. /\ "QUEUED" \in StatusesAfter("run.queued")
        /\ "QUEUED" \in StatusesAfter("run.requeued")
        /\ "FAILED" \in StatusesAfter("run.failed")
        /\ "CANCELLED" \in StatusesAfter("run.cancelled")
        /\ "RUNNING" \in StatusesAfter("run.claimed")
    BY DEF StatusesAfter
  <1>b. {"run.queued", "run.requeued", "run.failed", "run.cancelled"}
          \subseteq EventType \ ({"step", "run.claimed"} \cup LeasedEvents)
    BY DEF EventType, LeasedEvents
  <1>c. {"QUEUED", "FAILED", "CANCELLED", "RUNNING"} \subseteq RunStatus
    BY DEF RunStatus, TERMINAL_RUN_STATUSES
  <1>1. ASSUME NEW r \in Run, Enqueue(r) PROVE JournalsAccount'
    <2>1. Record(r, "run.queued", epoch[r])
      BY <1>0, <1>1 DEF Enqueue, JournalsAccount, Accounts
    <2> QED
      BY <1>0, <1>a, <1>b, <1>c, <1>1, <2>1, TransitionAccounts DEF Enqueue
  <1>2. ASSUME NEW r \in Run, Resume(r) PROVE JournalsAccount'
    <2>1. /\ \A q \in Run \ {r} : status'[q] = status[q]
          /\ status'[r] = "QUEUED" /\ status[r] \in Parked
          /\ journal' = journal /\ epoch' = epoch
      BY <1>0, <1>2 DEF Resume, TypeOK
    <2>2. Accounts(journal[r], status[r], epoch[r])
      BY DEF JournalsAccount
    <2>3. PICK k \in 1..Len(journal[r]) :
            /\ Handover(journal[r], Len(journal[r]) + 1, k)
            /\ status[r] \in StatusesAfter(journal[r][k].type)
      BY <2>1, <2>2 DEF Accounts, Parked, NotCreated
    <2>4. "QUEUED" \in StatusesAfter(journal[r][k].type)
      <3>1. PICK s \in Seq(Events) : s = journal[r]
        BY <1>0 DEF TypeOK
      <3>2. s[k] \in Events
        BY <2>3, <3>1
      <3>3. journal[r][k].type \in EventType \ {"step"}
        BY <2>3, <3>1, <3>2 DEF Events, Handover
      <3> QED
        BY <2>1, <2>3, <3>3 DEF StatusesAfter, EventType, Parked
    <2>5. Accounts(journal[r], "QUEUED", epoch[r])
      BY <2>1, <2>2, <2>3, <2>4 DEF Accounts, Parked, NotCreated
    <2> QED
      BY <2>1, <2>5 DEF JournalsAccount
  <1>3. ASSUME NEW r \in Run, FailSuspendedOnBudget(r) PROVE JournalsAccount'
    BY <1>0, <1>a, <1>b, <1>c, <1>3, TransitionAccounts DEF FailSuspendedOnBudget
  <1>4. ASSUME NEW r \in Run, CancelParkedRun(r) PROVE JournalsAccount'
    BY <1>0, <1>a, <1>b, <1>c, <1>4, TransitionAccounts DEF CancelParkedRun
  <1>5. ASSUME NEW w \in Worker, NEW r \in Run, Claim(w, r) PROVE JournalsAccount'
    <2>1. NextEpoch(r) = epoch[r] + 1 /\ NextEpoch(r) \in Nat
      BY <1>0 DEF NextEpoch, TypeOK
    <2> QED
      BY <1>0, <1>a, <1>c, <1>5, <2>1, RecordAccounts DEF Claim, EventType, LeasedEvents
  <1>6. ASSUME NEW w \in Worker, Progress(w) PROVE JournalsAccount'
    <2>1. CASE Owns(w, job[w])
      <3>1. PICK r \in Run : r = job[w]
        BY <1>0, <1>6 DEF Progress, TypeOK
      <3>2. status[r] = "RUNNING" /\ lease[w] = epoch[r] /\ epoch[r] \in Nat
        BY <1>0, <2>1, <3>1 DEF Owns, LeaseIffRunning, TypeOK
      <3>3. /\ Record(r, "step", epoch[r])
            /\ status' = [status EXCEPT ![r] = "RUNNING"]
            /\ epoch' = [epoch EXCEPT ![r] = epoch[r]]
        BY <1>0, <1>6, <2>1, <3>1, <3>2 DEF Progress, TypeOK
      <3>4. epoch[r] = epoch[r] + IF "step" = "run.claimed" THEN 1 ELSE 0
        BY <3>2
      <3>5. "step" \in EventType /\ "RUNNING" \in RunStatus
        BY <1>c DEF EventType
      <3> QED
        BY <1>0, <3>2, <3>3, <3>4, <3>5, RecordAccounts
    <2>2. CASE ~Owns(w, job[w])
      BY <1>6, <2>2 DEF Progress, JournalsAccount
    <2> QED
      BY <2>1, <2>2
  <1>7. ASSUME NEW w \in Worker, NEW outcome \in RunStatus, Finalize(w, outcome)
        PROVE  JournalsAccount'
    <2>1. PICK r \in Run : r = job[w]
      BY <1>0, <1>7 DEF Finalize, TypeOK
    <2>2. status[r] = "RUNNING" /\ lease[w] = epoch[r] /\ epoch[r] \in Nat
      BY <1>0, <1>7, <2>1 DEF Finalize, Owns, TypeOK
    <2>3. /\ Record(r, EventOf(outcome), epoch[r])
          /\ status' = [status EXCEPT ![r] = outcome]
          /\ epoch' = epoch
      BY <1>0, <1>7, <2>1, <2>2 DEF Finalize, TypeOK
    <2>4. outcome \in {"COMPLETED", "FAILED", "CANCELLED"} \cup Parked
      BY <1>7 DEF Finalize, Outcome
    <2>5. /\ EventOf(outcome) \in EventType \ {"step", "run.claimed"}
          /\ outcome \in StatusesAfter(EventOf(outcome))
      BY <2>4 DEF Parked, EventOf, EventType, StatusesAfter
    <2> QED
      BY <1>0, <2>2, <2>3, <2>5, TransitionAccounts
  <1>8. ASSUME NEW batch \in SUBSET Run, ReclaimExpired(batch) PROVE JournalsAccount'
    <2>1. ASSUME NEW r \in Run PROVE Accounts(journal'[r], status'[r], epoch'[r])
      <3>1. epoch'[r] = epoch[r]
        BY <1>8 DEF ReclaimExpired
      <3>2. CASE r \notin batch
        <4>1. journal'[r] = journal[r] /\ status'[r] = status[r]
          BY <1>8, <3>2 DEF ReclaimExpired
        <4> QED
          BY <3>1, <4>1 DEF JournalsAccount
      <3>3. CASE r \in batch
        <4> DEFINE type == IF Exhausted(r) THEN "run.failed" ELSE "run.requeued"
                   ev == Event(type, epoch[r])
                   st2 == IF Exhausted(r) THEN "FAILED" ELSE "QUEUED"
        <4>1. journal'[r] = Append(journal[r], ev) /\ status'[r] = st2
          BY <1>8, <3>3 DEF ReclaimExpired
        <4>2. /\ ev \in Events
              /\ ev.type \in {"run.failed", "run.requeued"}
              /\ st2 \in StatusesAfter(ev.type)
              /\ st2 \in RunStatus \ {"RUNNING"}
          BY <1>0, <1>a, <1>b, <1>c DEF Event, Events, TypeOK
        <4>3. /\ journal[r] \in Seq(Events)
              /\ status[r] \in RunStatus \cup {NotCreated}
              /\ epoch[r] \in Nat
              /\ Accounts(journal[r], status[r], epoch[r])
          BY <1>0 DEF TypeOK, JournalsAccount
        <4> HIDE DEF ev, st2
        <4>4. ev.type \notin LeasedEvents \cup {"step", "run.claimed"}
          BY <4>2, <1>b
        <4>5. epoch[r] = epoch[r] + IF ev.type = "run.claimed" THEN 1 ELSE 0
          BY <4>3, <4>4
        <4>6. Accounts(Append(journal[r], ev), st2, epoch[r])
          BY <4>2, <4>3, <4>4, <4>5, AppendAccounts
        <4> QED
          BY <3>1, <4>1, <4>6
      <3> QED
        BY <3>2, <3>3
    <2> QED
      BY <2>1 DEF JournalsAccount
  <1>9. CASE UNCHANGED <<journal, status, epoch>>
    BY <1>9 DEF JournalsAccount
  <1>10. ASSUME NEW r \in Run, BecomeReady(r) \/ RequestCancellation(r) \/ LeaseLapses(r)
         PROVE  UNCHANGED <<journal, status, epoch>>
    BY <1>10 DEF BecomeReady, RequestCancellation, LeaseLapses
  <1>11. ASSUME NEW w \in Worker,
                \/ StartExecution(w) \/ Heartbeat(w) \/ LosesHeartbeat(w)
                \/ ObserveDeadline(w) \/ FinalizeFenced(w) \/ Crash(w)
         PROVE  UNCHANGED <<journal, status, epoch>>
    BY <1>11 DEF StartExecution, Heartbeat, LosesHeartbeat, ObserveDeadline,
                 FinalizeFenced, Crash, tableVars
  <1>12. ASSUME Redeploy \/ UNCHANGED vars PROVE UNCHANGED <<journal, status, epoch>>
    BY <1>12 DEF Redeploy, vars, tableVars
  <1> QED
    BY <1>1, <1>2, <1>3, <1>4, <1>5, <1>6, <1>7, <1>8, <1>9, <1>10, <1>11, <1>12
    DEF Next, Submission, Cancellation, WorkerStep, Maintenance

\* The journals always account for their rows.
LEMMA AccountsInvariant == Spec => [](TypeOK /\ JournalsAccount)
  <1>1. Init => LeaseInv /\ JournalsAccount
    BY TypeInit, LeaseInit, AccountsInit DEF LeaseInv
  <1>2. LeaseInv /\ JournalsAccount /\ [Next]_vars => (LeaseInv /\ JournalsAccount)'
    BY TypeStep, LeaseStep, AccountsStep DEF LeaseInv
  <1>3. LeaseInv /\ JournalsAccount => TypeOK /\ JournalsAccount
    BY DEF LeaseInv
  <1> QED
    BY <1>1, <1>2, <1>3, PTL DEF Spec

\* The position the properties choose is the handover.
LEMMA LastHandoverIs ==
  ASSUME TypeOK, NEW r \in Run, NEW i \in 1..(Len(journal[r]) + 1), NEW k,
         Handover(journal[r], i, k)
  PROVE  LastHandover(r, i) = journal[r][k]
  <1> DEFINE before == {j \in 1..(i-1) : journal[r][j].type # "step"}
             latest(j) == j \in before /\ \A m \in before : m <= j
  <1>1. Len(journal[r]) \in Nat
    BY DEF TypeOK
  <1>2. latest(k)
    BY <1>1 DEF Handover
  <1>3. ASSUME NEW j, latest(j) PROVE j = k
    BY <1>1, <1>2, <1>3
  <1>4. (CHOOSE j \in before : \A m \in before : m <= j) = k
    BY <1>2, <1>3
  <1> QED
    BY <1>4 DEF LastHandover

\* No journal ever holds a leased event of a worker that had lost its run: it
\* lies behind the claim whose epoch it carries, with nothing but progress of
\* the same execution in between.
THEOREM QueueJournalIsFenced == Spec => []JournalIsFenced
  <1>1. TypeOK /\ JournalsAccount => JournalIsFenced
    <2> SUFFICES ASSUME TypeOK, JournalsAccount, NEW r \in Run,
                        NEW i \in DOMAIN journal[r], journal[r][i].type \in LeasedEvents
                 PROVE  LastHandover(r, i) = Event("run.claimed", journal[r][i].epoch)
      BY DEF JournalIsFenced
    <2>1. Len(journal[r]) \in Nat /\ i \in 1..Len(journal[r]) /\ i \in 1..(Len(journal[r]) + 1)
      BY DEF TypeOK
    <2>2. status[r] # NotCreated
      <3>1. journal[r] = <<>> => Len(journal[r]) = 0
        OBVIOUS
      <3> QED
        BY <2>1, <3>1 DEF JournalsAccount, Accounts
    <2>3. PICK k \in 1..Len(journal[r]) :
            /\ Handover(journal[r], i, k)
            /\ journal[r][k] = Event("run.claimed", journal[r][i].epoch)
      BY <2>1, <2>2 DEF JournalsAccount, Accounts
    <2> QED
      BY <2>1, <2>3, LastHandoverIs
  <1> QED
    BY <1>1, AccountsInvariant, PTL

\* After any interleaving a run's events replay to its status, up to a
\* resumption of a parked run that no event records, and its epoch counts the
\* claims they record.
THEOREM QueueJournalReplaysRow == Spec => []JournalReplaysRow
  <1>1. TypeOK /\ JournalsAccount => JournalReplaysRow
    <2> SUFFICES ASSUME TypeOK, JournalsAccount, NEW r \in Run, status[r] # NotCreated
                 PROVE  /\ status[r] \in
                             StatusesAfter(LastHandover(r, Len(journal[r]) + 1).type)
                        /\ epoch[r] = Count(r, "run.claimed")
      BY DEF JournalReplaysRow
    <2>1. Len(journal[r]) \in Nat /\ Len(journal[r]) + 1 \in 1..(Len(journal[r]) + 1)
      BY DEF TypeOK
    <2>2. PICK k : Handover(journal[r], Len(journal[r]) + 1, k)
                   /\ status[r] \in StatusesAfter(journal[r][k].type)
      BY DEF JournalsAccount, Accounts
    <2>3. LastHandover(r, Len(journal[r]) + 1) = journal[r][k]
      BY <2>1, <2>2, LastHandoverIs
    <2>5. epoch[r] = Count(r, "run.claimed")
      BY DEF JournalsAccount, Accounts, Claims, Count
    <2> QED
      BY <2>2, <2>3, <2>5
  <1> QED
    BY <1>1, AccountsInvariant, PTL
=============================================================================
