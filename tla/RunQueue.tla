------------------------------ MODULE RunQueue ------------------------------
(***************************************************************************)
(* The durable run queue: the runs table used as a queue, its lease and    *)
(* epoch fencing, the workers that claim and finalize runs, the            *)
(* maintenance worker that reclaims expired leases, and the services that  *)
(* cancel and resume runs (adapters/persistence/queue.py and               *)
(* repositories.py, runtime/worker.py, runtime/executor.py,                *)
(* application/run_service.py).                                            *)
(*                                                                         *)
(* One action is one committed transaction.  Each one locks the run row it *)
(* writes and repeats its precondition in the WHERE clause of the update,  *)
(* so a precondition read earlier is re-checked when the write commits.    *)
(* Wall-clock time appears only through what it enables: a lease that has  *)
(* lapsed, a run whose scheduled time has come, a deadline that is over.   *)
(***************************************************************************)
EXTENDS Naturals, Sequences, FiniteSets, RunStates

CONSTANTS
  Run,            \* the runs clients submit
  ChildRun,       \* those of them that have a parent run
  Worker,         \* worker processes (worker_id)
  NoWorker,       \* lease_owner IS NULL
  NoRun,          \* a worker without a claimed run
  MaxAttempts,    \* largest lease-expiration allowance a deployment is given
  MaxResumes,     \* bound: how often a parked run is resumed
  MaxSteps        \* bound: progress records per run

ASSUME RunQueueAssumption ==
  /\ ChildRun \subseteq Run
  /\ NoWorker \notin Worker
  /\ NoRun \notin Run
  /\ MaxAttempts \in Nat \ {0}
  /\ MaxResumes \in Nat
  /\ MaxSteps \in Nat

VARIABLES
  \* The runs table.
  status,         \* runs.status
  owner,          \* runs.lease_owner; lease_expires_at is NULL exactly with it
  epoch,          \* runs.lease_epoch
  lapsed,         \* lease_expires_at <= now()
  ready,          \* scheduled_for IS NULL OR scheduled_for <= now()
  expirations,    \* runs.lease_expirations
  cancelAsked,    \* cancel_requested_at IS NOT NULL
  journal,        \* the run's lifecycle events, in commit order
  resumes,        \* how often the run was resumed, for the bound
  \* The deployment.
  maxAttempts,    \* the queue's configured max_attempts
  \* Each worker process.
  job,            \* the run it claimed
  lease,          \* the epoch its claim returned
  phase,          \* idle, claimed (no token yet), executing
  token           \* the cancellation token's reason, or none

tableVars  == <<status, owner, epoch, lapsed, ready, expirations, cancelAsked,
                journal, resumes>>
workerVars == <<job, lease, phase, token>>
vars == <<tableVars, maxAttempts, workerVars>>

-----------------------------------------------------------------------------
(* Types *)

CancelReason == {"requested", "deadline", "fenced"}

Phase == {"idle", "claimed", "executing"}

EventType == {"run.queued", "run.claimed", "step", "run.requeued",
              "run.waiting_for_approval", "run.waiting_for_user",
              "run.completed", "run.failed", "run.cancelled"}

\* The event a run's move to a status is recorded by.
EventOf(s) == CASE s = "QUEUED"               -> "run.queued"
                [] s = "RUNNING"              -> "run.claimed"
                [] s = "WAITING_FOR_APPROVAL" -> "run.waiting_for_approval"
                [] s = "WAITING_FOR_USER"     -> "run.waiting_for_user"
                [] s = "COMPLETED"            -> "run.completed"
                [] s = "FAILED"               -> "run.failed"
                [] s = "CANCELLED"            -> "run.cancelled"

\* A lifecycle event carries the epoch under which it was written.
Event(type, e) == [type |-> type, epoch |-> e]

Events == [type : EventType, epoch : Nat]

TypeOK ==
  /\ status \in [Run -> RunStatus \cup {NotCreated}]
  /\ owner \in [Run -> Worker \cup {NoWorker}]
  /\ epoch \in [Run -> Nat]
  /\ lapsed \in [Run -> BOOLEAN]
  /\ ready \in [Run -> BOOLEAN]
  /\ expirations \in [Run -> Nat]
  /\ cancelAsked \in [Run -> BOOLEAN]
  /\ journal \in [Run -> Seq(Events)]
  /\ resumes \in [Run -> 0..MaxResumes]
  /\ maxAttempts \in 1..MaxAttempts
  /\ job \in [Worker -> Run \cup {NoRun}]
  /\ lease \in [Worker -> Nat]
  /\ phase \in [Worker -> Phase]
  /\ token \in [Worker -> CancelReason \cup {"none"}]
  /\ \A w \in Worker : phase[w] = "idle" <=> job[w] = NoRun

Init ==
  /\ status = [r \in Run |-> NotCreated]
  /\ owner = [r \in Run |-> NoWorker]
  /\ epoch = [r \in Run |-> 0]
  /\ lapsed = [r \in Run |-> FALSE]
  /\ ready = [r \in Run |-> FALSE]
  /\ expirations = [r \in Run |-> 0]
  /\ cancelAsked = [r \in Run |-> FALSE]
  /\ journal = [r \in Run |-> <<>>]
  /\ resumes = [r \in Run |-> 0]
  /\ maxAttempts = MaxAttempts
  /\ job = [w \in Worker |-> NoRun]
  /\ lease = [w \in Worker |-> 0]
  /\ phase = [w \in Worker |-> "idle"]
  /\ token = [w \in Worker |-> "none"]

-----------------------------------------------------------------------------
(* Guards and parts of transactions *)

\* Slip: the leased writes compare only the epoch, which a reclaim leaves alone.
OwnsByEpochAlone(w, r) == epoch[r] = lease[w]

\* The lease predicate every leased write repeats in its WHERE clause.
Owns(w, r) == owner[r] = w /\ epoch[r] = lease[w]

\* How many events of a type the run's journal holds.
Count(r, type) == Cardinality({i \in DOMAIN journal[r] : journal[r][i].type = type})

\* EventRepository.append, within the transaction of the caller.
Record(r, type, e) ==
  journal' = [journal EXCEPT ![r] = Append(@, Event(type, e))]

\* The worker is done with its run, whatever became of it.
Release(w) ==
  /\ job' = [job EXCEPT ![w] = NoRun]
  /\ lease' = [lease EXCEPT ![w] = 0]
  /\ phase' = [phase EXCEPT ![w] = "idle"]
  /\ token' = [token EXCEPT ![w] = "none"]

-----------------------------------------------------------------------------
(* Submission, cancellation and resumption: the API process *)

\* RunService.submit: the run is inserted queued, now or for a later time.
Enqueue(r) ==
  /\ status[r] = NotCreated
  /\ status' = [status EXCEPT ![r] = "QUEUED"]
  /\ \E now \in BOOLEAN : ready' = [ready EXCEPT ![r] = now]
  /\ Record(r, "run.queued", 0)
  /\ UNCHANGED <<owner, epoch, lapsed, expirations, cancelAsked, resumes,
                 maxAttempts, workerVars>>

\* The scheduled time of a queued run, or its backoff, is over.
BecomeReady(r) ==
  /\ status[r] = "QUEUED"
  /\ ~ready[r]
  /\ ready' = [ready EXCEPT ![r] = TRUE]
  /\ UNCHANGED <<status, owner, epoch, lapsed, expirations, cancelAsked,
                 journal, resumes, maxAttempts, workerVars>>

\* Cancelling a run nobody holds ends it at once.
CancelParkedRun(r) ==
  /\ status[r] \in {"QUEUED"} \cup Parked
  /\ status' = [status EXCEPT ![r] = "CANCELLED"]
  /\ Record(r, "run.cancelled", epoch[r])
  /\ UNCHANGED <<owner, epoch, lapsed, ready, expirations, cancelAsked,
                 resumes, maxAttempts, workerVars>>

\* Cancelling a running run only leaves a request for its worker.
RequestCancellation(r) ==
  /\ status[r] = "RUNNING"
  /\ ~cancelAsked[r]
  /\ cancelAsked' = [cancelAsked EXCEPT ![r] = TRUE]
  /\ UNCHANGED <<status, owner, epoch, lapsed, ready, expirations, journal,
                 resumes, maxAttempts, workerVars>>

\* requeue_after_approval, requeue_after_input and requeue_after_child: the row
\* alone moves, no lifecycle event records it.
Resume(r) ==
  /\ status[r] \in Parked
  /\ resumes[r] < MaxResumes
  /\ resumes' = [resumes EXCEPT ![r] = @ + 1]
  /\ status' = [status EXCEPT ![r] = "QUEUED"]
  /\ UNCHANGED <<owner, epoch, lapsed, ready, expirations, cancelAsked, journal,
                 maxAttempts, workerVars>>

\* fail_suspended_on_budget: the children of a parked parent overspent.
FailSuspendedOnBudget(r) ==
  /\ status[r] = "WAITING_FOR_APPROVAL"
  /\ status' = [status EXCEPT ![r] = "FAILED"]
  /\ Record(r, "run.failed", epoch[r])
  /\ UNCHANGED <<owner, epoch, lapsed, ready, expirations, cancelAsked,
                 resumes, maxAttempts, workerVars>>

-----------------------------------------------------------------------------
(* A durable worker *)

\* Slip: any run without a worker is taken, parked ones included.
ClaimableParked(r) ==
  /\ status[r] \in {"QUEUED"} \cup Parked
  /\ ready[r]
  /\ expirations[r] < maxAttempts

\* The rows claim may select.
Claimable(r) ==
  /\ status[r] = "QUEUED"
  /\ ready[r]
  /\ expirations[r] < maxAttempts

\* Slip: a run keeps the epoch of its previous owner.
SameEpoch(r) == epoch[r]

\* Every claim fences whoever held the run before.
NextEpoch(r) == epoch[r] + 1

\* PostgresQueue.claim with the two events DurableWorker.claim appends to it.
Claim(w, r) ==
  /\ phase[w] = "idle"
  /\ Claimable(r)
  /\ status' = [status EXCEPT ![r] = "RUNNING"]
  /\ owner' = [owner EXCEPT ![r] = w]
  /\ epoch' = [epoch EXCEPT ![r] = NextEpoch(r)]
  /\ lapsed' = [lapsed EXCEPT ![r] = FALSE]
  /\ Record(r, "run.claimed", NextEpoch(r))
  /\ job' = [job EXCEPT ![w] = r]
  /\ lease' = [lease EXCEPT ![w] = NextEpoch(r)]
  /\ phase' = [phase EXCEPT ![w] = "claimed"]
  /\ UNCHANGED <<ready, expirations, cancelAsked, resumes, maxAttempts, token>>

\* The executor hands its cancellation token to the worker's heartbeat loop.
\* A request the loop saw before that is passed on to the token.
StartExecution(w) ==
  /\ phase[w] = "claimed"
  /\ phase' = [phase EXCEPT ![w] = "executing"]
  /\ UNCHANGED <<tableVars, maxAttempts, job, lease, token>>

\* A beat that finds the lease: it is extended, and a request to cancel is
\* passed to the token, which keeps the first reason it was given.
Heartbeat(w) ==
  /\ phase[w] # "idle"
  /\ token[w] # "fenced"
  /\ status[job[w]] = "RUNNING"
  /\ Owns(w, job[w])
  /\ lapsed' = [lapsed EXCEPT ![job[w]] = FALSE]
  /\ token' = [token EXCEPT ![w] = IF cancelAsked[job[w]] /\ @ = "none"
                                     THEN "requested" ELSE @]
  /\ UNCHANGED <<status, owner, epoch, ready, expirations, cancelAsked, journal,
                 resumes, maxAttempts, job, lease, phase>>

\* A beat that does not find the lease fences the execution through its token,
\* or stops it outright when there is no token yet.
LosesHeartbeat(w) ==
  /\ phase[w] # "idle"
  /\ ~(status[job[w]] = "RUNNING" /\ Owns(w, job[w]))
  /\ \/ /\ phase[w] = "executing"
        /\ token[w] = "none"
        /\ token' = [token EXCEPT ![w] = "fenced"]
        /\ UNCHANGED <<job, lease, phase>>
     \/ /\ phase[w] = "claimed"
        /\ Release(w)
  /\ UNCHANGED <<tableVars, maxAttempts>>

\* The run's deadline is noticed when the token is next looked at.
ObserveDeadline(w) ==
  /\ phase[w] = "executing"
  /\ token[w] = "none"
  /\ token' = [token EXCEPT ![w] = "deadline"]
  /\ UNCHANGED <<tableVars, maxAttempts, job, lease, phase>>

\* A leased progress write: an event, a counter or a checkpoint of the loop.
Progress(w) ==
  /\ phase[w] = "executing"
  /\ LET r == job[w] IN
     \/ /\ Owns(w, r)
        /\ Count(r, "step") < MaxSteps
        /\ Record(r, "step", lease[w])
        /\ UNCHANGED workerVars
     \/ /\ ~Owns(w, r)          \* WorkerFencedError: nothing is written
        /\ Release(w)
        /\ UNCHANGED journal
  /\ UNCHANGED <<status, owner, epoch, lapsed, ready, expirations, cancelAsked,
                 resumes, maxAttempts>>

\* The outcomes the executor can reach under the token's reason: a token that
\* is already set may not have been looked at since.  An execution is also
\* cancelled without a reason, when the memory snapshot it would use has been
\* erased; a deadline fails a run that has no parent and cancels a child, and
\* a fenced execution is never written as cancelled.
Outcome(w) ==
  {"COMPLETED", "FAILED"} \cup Parked
    \cup IF \/ token[w] = "fenced"
            \/ token[w] = "deadline" /\ job[w] \notin ChildRun
           THEN {} ELSE {"CANCELLED"}

\* Slip: the run moves on and its lease is not released.
LeaseKept(r) == owner

\* PostgresQueue.release.
LeaseReleased(r) == [owner EXCEPT ![r] = NoWorker]

\* finalize: the terminal or parking event, the transition and the release of
\* the lease are one transaction under the lease.
Finalize(w, outcome) ==
  /\ phase[w] = "executing"
  /\ outcome \in Outcome(w)
  /\ status[job[w]] = "RUNNING"
  /\ Owns(w, job[w])
  /\ LET r == job[w] IN
     /\ status' = [status EXCEPT ![r] = outcome]
     /\ owner' = LeaseReleased(r)
     /\ lapsed' = [lapsed EXCEPT ![r] = FALSE]
     /\ Record(r, EventOf(outcome), lease[w])
  /\ Release(w)
  /\ UNCHANGED <<epoch, ready, expirations, cancelAsked, resumes, maxAttempts>>

\* A fenced outcome writes nothing, and so does a finalize the lease refuses.
FinalizeFenced(w) ==
  /\ phase[w] = "executing"
  /\ token[w] = "fenced" \/ ~Owns(w, job[w])
  /\ Release(w)
  /\ UNCHANGED <<tableVars, maxAttempts>>

\* The process dies, or run_once is unwound by an exception: the row keeps its
\* lease and nobody beats for it any more.
Crash(w) ==
  /\ phase[w] # "idle"
  /\ Release(w)
  /\ UNCHANGED <<tableVars, maxAttempts>>

-----------------------------------------------------------------------------
(* Time, deployment and the maintenance worker *)

\* The lease runs out: its worker is dead, stalled or partitioned.
LeaseLapses(r) ==
  /\ status[r] = "RUNNING"
  /\ ~lapsed[r]
  /\ lapsed' = [lapsed EXCEPT ![r] = TRUE]
  /\ UNCHANGED <<status, owner, epoch, ready, expirations, cancelAsked, journal,
                 resumes, maxAttempts, workerVars>>

\* Slip: only lapsed leases are looked for.
ReclaimableLapsedOnly(r) == status[r] = "RUNNING" /\ lapsed[r]

\* The rows reclaim_expired selects: lapsed leases, and queued runs that no
\* worker may claim any more.
Reclaimable(r) ==
  \/ status[r] = "RUNNING" /\ lapsed[r]
  \/ status[r] = "QUEUED" /\ expirations[r] >= maxAttempts

Expired(r) == expirations[r] + IF status[r] = "RUNNING" THEN 1 ELSE 0

Exhausted(r) == Expired(r) >= maxAttempts

\* reclaim_expired over the batch it could lock; the epoch is left alone.
ReclaimExpired(batch) ==
  /\ batch # {}
  /\ \A r \in batch : Reclaimable(r)
  /\ expirations' = [r \in Run |-> IF r \in batch THEN Expired(r) ELSE expirations[r]]
  /\ status' = [r \in Run |-> IF r \notin batch THEN status[r]
                              ELSE IF Exhausted(r) THEN "FAILED" ELSE "QUEUED"]
  /\ ready' = [r \in Run |-> ready[r] /\ (r \in batch => Exhausted(r))]
  /\ owner' = [r \in Run |-> IF r \in batch THEN NoWorker ELSE owner[r]]
  /\ lapsed' = [r \in Run |-> lapsed[r] /\ r \notin batch]
  /\ journal' = [r \in Run |->
       IF r \notin batch THEN journal[r]
       ELSE Append(journal[r],
                   Event(IF Exhausted(r) THEN "run.failed" ELSE "run.requeued", epoch[r]))]
  /\ UNCHANGED <<epoch, cancelAsked, resumes, maxAttempts, workerVars>>

\* A new deployment may allow fewer lease expirations than the last one.
Redeploy ==
  /\ maxAttempts > 1
  /\ maxAttempts' = maxAttempts - 1
  /\ UNCHANGED <<tableVars, workerVars>>

-----------------------------------------------------------------------------
Submission(r) == Enqueue(r) \/ BecomeReady(r) \/ Resume(r) \/ FailSuspendedOnBudget(r)

Cancellation(r) == CancelParkedRun(r) \/ RequestCancellation(r)

WorkerStep(w) ==
  \/ \E r \in Run : Claim(w, r)
  \/ StartExecution(w)
  \/ Heartbeat(w)
  \/ LosesHeartbeat(w)
  \/ ObserveDeadline(w)
  \/ Progress(w)
  \/ \E outcome \in RunStatus : Finalize(w, outcome)
  \/ FinalizeFenced(w)
  \/ Crash(w)

Maintenance == \E batch \in SUBSET Run : ReclaimExpired(batch)

Next ==
  \/ \E r \in Run : Submission(r) \/ Cancellation(r) \/ LeaseLapses(r)
  \/ \E w \in Worker : WorkerStep(w)
  \/ Maintenance
  \/ Redeploy

Spec == Init /\ [][Next]_vars

\* The lease of a run that no live worker beats for runs out.
OrphanLapses(r) ==
  /\ ~\E w \in Worker : job[w] = r /\ Owns(w, r)
  /\ LeaseLapses(r)

Finish(w) == FinalizeFenced(w) \/ \E outcome \in RunStatus : Finalize(w, outcome)

\* Time passes; the maintenance worker and the run workers keep polling, and
\* an execution that is not interrupted reaches an outcome (the deadline and
\* the step budget bound it).  Nothing is assumed of clients or of crashes.
Fairness ==
  /\ \A r \in Run : /\ WF_vars(BecomeReady(r))
                    /\ WF_vars(OrphanLapses(r))
                    /\ WF_vars(\E w \in Worker : Claim(w, r))
  /\ \A w \in Worker : WF_vars(StartExecution(w)) /\ WF_vars(Finish(w))
  /\ WF_vars(Maintenance)

FairSpec == Spec /\ Fairness

-----------------------------------------------------------------------------
(* Properties *)

\* A run row carries a lease exactly while the run is RUNNING: claim takes it,
\* finalize and reclaim_expired give it back with the status in one
\* transaction, and nothing else may cancel, resume or fail a held run.
LeaseIffRunning == \A r \in Run : owner[r] # NoWorker <=> status[r] = "RUNNING"

\* An epoch names one execution: no two workers work for the same run under
\* the same epoch, none is ahead of the row, and a worker that is at the row's
\* epoch of a running run is the worker the row names (queue.py claim and
\* reclaim_expired, across crashes, stalls and reclaims).
EpochNamesOneExecution ==
  /\ \A v, w \in Worker :
       job[v] # NoRun /\ job[v] = job[w] /\ lease[v] = lease[w] => v = w
  /\ \A w \in Worker : job[w] # NoRun =>
       /\ lease[w] <= epoch[job[w]]
       /\ lease[w] = epoch[job[w]] /\ status[job[w]] = "RUNNING" => owner[job[w]] = w

\* The events a worker writes under its lease.
LeasedEvents == {"step", "run.waiting_for_approval", "run.waiting_for_user", "run.completed"}

\* The latest claim or loss of the run before position i of its journal.
LastHandover(r, i) ==
  LET before == {k \in 1..(i-1) : journal[r][k].type # "step"}
  IN  journal[r][CHOOSE k \in before : \A j \in before : j <= k]

\* The journal of a run is never written by a worker that lost it: between a
\* leased event and the claim whose epoch it carries lies nothing but progress
\* of the same execution, so a reclaimed or superseded worker left no trace
\* (the lease predicate in repositories.py and queue.py).
JournalIsFenced ==
  \A r \in Run : \A i \in DOMAIN journal[r] :
    journal[r][i].type \in LeasedEvents =>
      LastHandover(r, i) = Event("run.claimed", journal[r][i].epoch)

\* The statuses that an event of a run's journal leaves the run in, when it is
\* the last one but for progress: one, except that a parked run may have been
\* requeued since, which no event says.
StatusesAfter(type) ==
  CASE type = "run.claimed" -> {"RUNNING"}
    [] type \in {"run.queued", "run.requeued"} -> {"QUEUED"}
    [] type = "run.waiting_for_approval" -> {"WAITING_FOR_APPROVAL", "QUEUED"}
    [] type = "run.waiting_for_user" -> {"WAITING_FOR_USER", "QUEUED"}
    [] type = "run.completed" -> {"COMPLETED"}
    [] type = "run.failed" -> {"FAILED"}
    [] type = "run.cancelled" -> {"CANCELLED"}

\* The event log lags behind the row only where a resumption requeued a parked
\* run: otherwise the status replayed from a run's events is its status, and
\* its epoch counts the claims they record, because claim, finalize, cancel and
\* the reaper write event and row in one transaction.
JournalReplaysRow ==
  \A r \in Run : status[r] # NotCreated =>
    /\ status[r] \in StatusesAfter(LastHandover(r, Len(journal[r]) + 1).type)
    /\ epoch[r] = Count(r, "run.claimed")

Lifecycle == INSTANCE RunLifecycle WITH generation <- epoch

\* The queue implements the run lifecycle: with workers, leases, crashes and
\* reclaims hidden, runs move only along ALLOWED_TRANSITIONS and start a new
\* generation exactly when a worker claims them.
ImplementsLifecycle == Lifecycle!Spec

\* No run is stuck in the queue or under a dead worker's lease: it comes to
\* rest, and a run whose lease keeps expiring, or that a redeployment made
\* unclaimable, is failed by the reaper (reclaim_expired).
RunsComeToRest ==
  \A r \in Run : status[r] \in {"QUEUED", "RUNNING"}
                   ~> status[r] \in Parked \cup TERMINAL_RUN_STATUSES
=============================================================================
