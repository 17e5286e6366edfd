----------------------------- MODULE CallPlans -----------------------------
(***************************************************************************)
(* A call plan: a one-time schedule whose first call may be followed by    *)
(* retries, by a follow-up and by a report (domain/call_plans.py,          *)
(* application/call_plans.py, scheduling/materializer.py).  The scheduler  *)
(* fires each step and leaves the schedule ACTIVE with no next firing; the *)
(* maintenance sweep reads the call ledger (CallLedger), decides the       *)
(* next step, records it and sets the next firing.  Scheduler, sweep and   *)
(* accountant each hold the schedule's lock for a whole transaction.       *)
(*                                                                         *)
(* A run may place any number of calls, each under a key of its own: that  *)
(* it places one is only what its instruction asks of the language model.  *)
(* Instants are Nat and 0 is "no instant".                                 *)
(***************************************************************************)
EXTENDS CallLedger, Integers, Sequences, FiniteSets

CONSTANTS
  First,          \* the time of the first call
  RetryEvery,     \* retry_every_minutes, 0 when the plan has no retries
  RetryUntil,     \* retry_until
  FollowUpAfter,  \* follow_up_after_answer_minutes, 0 when there is no follow-up
  ResultWait,     \* RESULT_WAIT
  Grace,          \* misfire_grace_seconds
  Limit,          \* max_consecutive_failures
  MayDeny,        \* authority, configuration or admission may refuse a firing
  OwnerMayAct,    \* the owner may pause or cancel the plan
  RunOf,          \* the run (by number) whose dispatch each call is
  MaxTime         \* bound: the clock

ASSUME PlanAssumption ==
  /\ {First, ResultWait, Limit, MaxTime} \subseteq Nat \ {0}
  /\ {RetryEvery, RetryUntil, FollowUpAfter, Grace} \subseteq Nat
  /\ RetryEvery > 0 => RetryUntil > First
  /\ MayDeny \in BOOLEAN /\ OwnerMayAct \in BOOLEAN

VARIABLES
  now,            \* the clock
  row,            \* the schedule row: state, next, failures
  tries,          \* the materialized occurrences with their run
  step            \* the recorded schedule.call_plan.step event of each attempt

planVars == <<now, row, tries, step>>
vars == <<ledgerVars, planVars>>

None == 0
Later(a, b) == IF a > b THEN a ELSE b
Over == {"COMPLETED", "FAILED", "CANCELLED"}
NoStep == [kind |-> "none", fire_at |-> None]
Last == tries[Len(tries)]

\* max_calls, and room for a follow-up and the report
MaxCalls == IF RetryEvery = 0 THEN 1 ELSE 1 + (RetryUntil - First) \div RetryEvery
Attempts == 1..(MaxCalls + 2)

\* The run_id of a dispatch says whose it is.
ASSUME CallAssumption == RunOf \in [Call -> Nat]

CallsOf(n) == {k \in Call : RunOf[k] = n}

TypeOK ==
  /\ LedgerTypeOK
  /\ now \in 0..MaxTime
  /\ row \in [state: {"ACTIVE", "PAUSED", "COMPLETED", "CANCELLED"}, next: Nat, failures: Nat]
  /\ Len(tries) \in 0..(MaxCalls + 2)
  /\ \A i \in DOMAIN tries :
       tries[i] \in [kind: {"first", "retry", "follow_up", "report"}, nominal: Nat, at: Nat,
                     run: {"active"} \cup Over, hook: BOOLEAN, ended: Nat]
  /\ step \in [Attempts -> [kind: {"none", "retry", "follow_up", "report"}, fire_at: Nat]]
  /\ row.state \in {"COMPLETED", "CANCELLED"} => row.next = None

Init ==
  /\ LedgerInit
  /\ now = 0
  /\ row = [state |-> "ACTIVE", next |-> First, failures |-> 0]
  /\ tries = <<>>
  /\ step = [n \in Attempts |-> NoStep]

----------------------------------------------------------------------------
(* The scheduler: materialize, for a revision with a call plan *)

Attempt == Len(tries) + 1
Kind == IF Attempt = 1 THEN "first" ELSE step[Attempt].kind
Due == row.state = "ACTIVE" /\ row.next # None /\ row.next <= now
InFlight == tries # <<>> /\ Last.run = "active"
Late == now > row.next + Grace

\* _record_failure and _advanced_schedule: a one-time cadence is completed.
EndWithout(failed) ==
  /\ row' = [state |-> "COMPLETED", next |-> None,
             failures |-> row.failures + (IF failed THEN 1 ELSE 0)]
  /\ UNCHANGED <<now, tries, step, ledgerVars>>

SkipOverlap == Due /\ InFlight /\ EndWithout(FALSE)

Miss == Due /\ ~InFlight /\ Late /\ EndWithout(TRUE)

Deny == MayDeny /\ Due /\ ~InFlight /\ ~Late /\ EndWithout(TRUE)

\* _start_run; the report completes the schedule, a call leaves it waiting.
Fire ==
  /\ Due /\ ~InFlight /\ ~Late
  /\ Kind # "none"
  /\ tries' = Append(tries, [kind |-> Kind, nominal |-> row.next, at |-> now,
                             run |-> "active", hook |-> FALSE, ended |-> None])
  /\ row' = [row EXCEPT !.next = None,
                        !.state = IF Kind = "report" THEN "COMPLETED" ELSE "ACTIVE"]
  /\ UNCHANGED <<now, step, ledgerVars>>

Materialize == SkipOverlap \/ Miss \/ Deny \/ Fire

----------------------------------------------------------------------------
(* The runs and their calls *)

\* A run places calls while it is executed; a report run has no scope for it.
RunCalls(n) ==
  /\ tries[n].run = "active" /\ tries[n].kind # "report"
  /\ \E k \in CallsOf(n) : Open(k) \/ Place(k) \/ GiveUp(k)
  /\ UNCHANGED planVars

\* A run may end with its calls in any state: the answer of the dial can be lost.
RunEnds(n, status) ==
  /\ tries[n].run = "active"
  /\ tries' = [tries EXCEPT ![n].run = status, ![n].hook = TRUE]
  /\ UNCHANGED <<now, row, step, ledgerVars>>

\* account, for a run of the cadence
Account(n) ==
  LET failures == IF tries[n].run = "COMPLETED" THEN 0
                  ELSE IF tries[n].run = "FAILED" THEN row.failures + 1
                  ELSE row.failures IN
  /\ tries[n].hook
  /\ tries' = [tries EXCEPT ![n].hook = FALSE]
  /\ row' = [row EXCEPT !.failures = failures,
                        !.state = IF /\ tries[n].run = "FAILED" /\ failures >= Limit
                                     /\ row.state = "ACTIVE"
                                  THEN "PAUSED" ELSE @]
  /\ UNCHANGED <<now, step, ledgerVars>>

\* The end of an answered call is its start plus its length, from the ledger; of
\* several answered calls the first counts (_ended_at).
CallFinishes(n) ==
  /\ \E k \in CallsOf(n) :
       /\ End(k)
       /\ tries' = [tries EXCEPT ![n].ended =
                      IF truth'[k] = "completed" /\ @ = None THEN now ELSE @]
  /\ UNCHANGED <<now, row, step>>

ResultArrives(n) == (\E k \in CallsOf(n) : Close(k)) /\ UNCHANGED planVars

----------------------------------------------------------------------------
(* The sweep *)

NotReached == {"no_answer"}

Statuses(n) == {ledger[k] : k \in CallsOf(n)} \ {"none"}

\* Slip: a call that was not reached is reported before one still in flight.
ResultGuessed(n) ==
  IF tries[n].run \notin Over THEN "pending"
  ELSE IF "completed" \in Statuses(n) THEN "answered"
  ELSE IF "no_answer" \in Statuses(n) THEN "no_answer"
  ELSE IF "open" \in Statuses(n) THEN "pending"
  ELSE "no_call"

\* CallPlanSweep._result chooses among the dispatches of the run: an answered one
\* comes before one in flight, and that before one that was not reached.
ResultOf(n) ==
  IF tries[n].run \notin Over THEN "pending"
  ELSE IF "completed" \in Statuses(n) THEN "answered"
  ELSE IF "open" \in Statuses(n) THEN "pending"
  ELSE IF "no_answer" \in Statuses(n) THEN "no_answer"
  ELSE "no_call"

Report == [kind |-> "report", fire_at |-> Later(now, Last.nominal + 1)]

Calls == Cardinality({n \in DOMAIN tries : tries[n].kind \in {"first", "retry"}})

RetryLeft(fire_at) == RetryEvery > 0 /\ Calls < MaxCalls /\ fire_at <= RetryUntil

\* Slip: a result that never comes keeps the plan waiting.
AwaitedForGood(result) == result = "pending"

Awaited(result) == result = "pending" /\ now < Last.at + ResultWait

\* next_call_plan_step
NextStep ==
  LET result == ResultOf(Len(tries))
      retry_at == Later(now, Last.nominal + RetryEvery) IN
  IF Last.kind = "follow_up" THEN Report
  ELSE IF result = "answered"
  THEN IF FollowUpAfter = 0 THEN Report
       ELSE [kind |-> "follow_up", fire_at |-> Later(now, Last.ended + FollowUpAfter)]
  ELSE IF result \in NotReached /\ RetryLeft(retry_at)
  THEN [kind |-> "retry", fire_at |-> retry_at]
  ELSE Report

\* _advance
Sweep ==
  /\ row.state = "ACTIVE" /\ row.next = None
  /\ tries # <<>> /\ Last.kind # "report"
  /\ ~Awaited(ResultOf(Len(tries)))
  /\ step' = [step EXCEPT ![Attempt] = IF @ = NoStep THEN NextStep ELSE @]
  /\ row' = [row EXCEPT !.next = step'[Attempt].fire_at]
  /\ UNCHANGED <<now, tries, ledgerVars>>

----------------------------------------------------------------------------
(* The owner *)

Pause ==
  /\ OwnerMayAct
  /\ row.state = "ACTIVE"
  /\ row' = [row EXCEPT !.state = "PAUSED", !.next = None]
  /\ UNCHANGED <<now, tries, step, ledgerVars>>

\* next_after: a plan whose first call is due or past cannot be resumed.
Resume ==
  /\ OwnerMayAct
  /\ row.state = "PAUSED" /\ First > now
  /\ row' = [row EXCEPT !.state = "ACTIVE", !.next = First]
  /\ UNCHANGED <<now, tries, step, ledgerVars>>

Cancel ==
  /\ OwnerMayAct
  /\ row.state \in {"ACTIVE", "PAUSED"}
  /\ row' = [row EXCEPT !.state = "CANCELLED", !.next = None]
  /\ UNCHANGED <<now, tries, step, ledgerVars>>

Tick ==
  /\ now < MaxTime
  /\ now' = now + 1
  /\ UNCHANGED <<row, tries, step, ledgerVars>>

Next ==
  \/ Materialize \/ Sweep
  \/ \E n \in DOMAIN tries :
       \/ RunCalls(n) \/ CallFinishes(n) \/ ResultArrives(n) \/ Account(n)
       \/ \E s \in Over : RunEnds(n, s)
  \/ Pause \/ Resume \/ Cancel
  \/ Tick

Spec == Init /\ [][Next]_vars

\* The scheduler and the maintenance sweep poll, time passes, and the hooks of
\* ended runs are called.  A run may go on, and a call may stay unresolved.
FairSpec ==
  /\ Spec
  /\ WF_vars(Materialize) /\ WF_vars(Sweep) /\ WF_vars(Tick)
  /\ WF_vars(\E n \in DOMAIN tries : Account(n))

----------------------------------------------------------------------------
(* Properties *)

\* "A duplicate call is worse than a missed retry": a retry is fired only when a
\* call of the run before was not reached and none of that run's calls was answered,
\* is ringing, or ever will be; a follow-up only when one of them was answered; a
\* missing or unknown result ends the plan (_result, next_call_plan_step).  And the
\* plan stays within what the owner approved: its firings and its window, and one
\* follow-up, after which nobody is called (max_calls).
NextCallIsWarranted ==
  /\ Calls <= MaxCalls
  /\ \A n \in DOMAIN tries :
       /\ tries[n].kind = "retry" =>
            /\ \E k \in CallsOf(n - 1) : truth[k] = "no_answer"
            /\ \A k \in CallsOf(n - 1) : truth[k] \in {"none", "no_answer"}
            /\ tries[n].nominal <= RetryUntil
       /\ tries[n].kind = "follow_up" => \E k \in CallsOf(n - 1) : truth[k] = "completed"
       /\ n > 1 => tries[n - 1].kind # "report"
       /\ n > 1 /\ tries[n - 1].kind = "follow_up" => tries[n].kind = "report"

\* The clock of the model ends before the next firing or the end of the wait.
BeyondTheClock ==
  \/ row.next > MaxTime
  \/ row.next = None /\ tries # <<>> /\ Last.at + ResultWait > MaxTime

\* The plan never rests with the schedule ACTIVE: a call whose run hangs or whose
\* result is lost ends it after the wait (RESULT_WAIT, materialize).
PlanComesToRest == <>[](row.state # "ACTIVE" \/ BeyondTheClock)
=============================================================================
