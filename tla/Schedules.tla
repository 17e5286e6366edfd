----------------------------- MODULE Schedules -----------------------------
(***************************************************************************)
(* One schedule: its row, its revisions, its occurrences and their runs.   *)
(* Three parties write the row.  The scheduler (scheduling/materializer.py)*)
(* and the accountant (scheduling/accounting.py) hold its lock for a whole *)
(* transaction, so each of their transactions is one action.  The owner's  *)
(* pause, resume, cancel and update (application/schedule_service.py) read *)
(* the row without a lock and replace it later, if it is still the row     *)
(* they read.                                                              *)
(*                                                                         *)
(* The scheduler and a run on demand read the clock before they wait for   *)
(* the lock, and decide by that reading: t is at most now, and may be      *)
(* older than what was committed while they waited.                        *)
(*                                                                         *)
(* Instants are Nat; 0 is "no instant".  The clock of the code counts      *)
(* microseconds, so that no two manual runs, and no manual run and a       *)
(* nominal instant, share a reading (FreshInstant).                        *)
(***************************************************************************)
EXTENDS Nominals, Sequences

CONSTANTS
  Definitions,    \* schedule definitions: cadence, limit (max_consecutive_failures)
  Grace,          \* misfire_grace_seconds
  KeepsFeed,      \* its runs may publish a Cockpit feed (_keeps_a_feed)
  Keys,           \* request keys of the owner's Run-now
  ManualPerDay,   \* MANUAL_RUNS_PER_DAY
  Day,            \* the length of a day
  RefreshMinute,  \* COCKPIT_REFRESH_MIN_AGE, and the width of a refresh key
  MayBeBusy,      \* the tenant may be at its limit of active scheduled runs
  MaxTime,        \* bound: the clock
  MaxRequests,    \* bound: pauses, resumptions, cancellations and updates
  MaxRevisions,   \* bound: revisions
  MaxOccurrences  \* bound: occurrences

NoKey == "none"
Refresh == "refresh"

Once(d) == Cardinality(d.cadence) = 1

\* A recurring cadence never runs out of instants.
ASSUME SchedulesAssumption ==
  /\ \A d \in Definitions : /\ d.cadence \subseteq Nat \ {None}
                            /\ IsFiniteSet(d.cadence)
                            /\ Once(d) \/ \E n \in d.cadence : n > MaxTime
                            /\ d.limit \in Nat \ {0}
  /\ MayBeBusy \in BOOLEAN /\ KeepsFeed \in BOOLEAN
  /\ {NoKey, Refresh} \cap Keys = {}
  /\ {Grace, ManualPerDay, Day, RefreshMinute, MaxRequests, MaxOccurrences} \subseteq Nat
  /\ {MaxTime, MaxRevisions} \subseteq Nat \ {0}

VARIABLES
  now,            \* the clock
  row,            \* the schedule row
  revs,           \* the definition of each revision
  occ,            \* the occurrences, in the order in which they were inserted
  coalesced,      \* schedule.misfires_coalesced events: revision, first, last
  log,            \* the process events that count: "ok" or "failed"
  owner,          \* the owner's request in progress
  since,          \* when the current cadence began to run (history)
  requests

vars == <<now, row, revs, occ, coalesced, log, owner, since, requests>>

Terminal == {"COMPLETED", "FAILED", "CANCELLED"}
Over == {"COMPLETED", "CANCELLED"}
NoRequest == [op |-> "none", from |-> <<>>, to |-> <<>>, def |-> <<>>, at |-> 0, stale |-> FALSE]

Revision == revs[row.revision]
Cadence == Revision.cadence

Rows == [state: {"ACTIVE", "PAUSED", "COMPLETED", "CANCELLED"},
         pause_reason: {"none", "user", "failure_limit"},
         revision: 1..MaxRevisions, next: Nat, failures: Nat]

Occurrences ==
  [nominal: Nat, at: Nat, key: Keys \cup {NoKey, Refresh}, rev: 1..MaxRevisions,
   disposition: {"MATERIALIZED", "MISSED", "SKIPPED_OVERLAP", "DENIED"},
   run: {"none", "active"} \cup Terminal, hook: BOOLEAN]

\* The occurrences' run is "none" unless the occurrence is MATERIALIZED.
TypeOK ==
  /\ now \in 1..MaxTime
  /\ row \in Rows
  /\ revs \in Seq(Definitions) /\ row.revision = Len(revs)
  /\ occ \in Seq(Occurrences)
  /\ log \in Seq({"ok", "failed"})
  /\ requests \in 0..MaxRequests
  /\ row.state = "PAUSED" <=> row.pause_reason # "none"
  /\ row.state \in Over => row.next = None

\* create: the first instant at or after the creation; the schedule is inserted.
Init ==
  /\ now = 1
  /\ \E d \in Definitions :
       /\ revs = <<d>>
       /\ next_after(d.cadence, 0) # None
       /\ row = [state |-> "ACTIVE", pause_reason |-> "none", revision |-> 1,
                 next |-> next_after(d.cadence, 0), failures |-> 0]
  /\ occ = <<>> /\ coalesced = {} /\ log = <<>> /\ owner = NoRequest /\ since = 0
  /\ requests = 0

----------------------------------------------------------------------------
(* The scheduler *)

\* Every write of the row moves updated_at.
Touch == owner' = [owner EXCEPT !.stale = owner.op # "none"]

Ids == DOMAIN occ
Scheduled(i) == occ[i].key = NoKey
Materialized == {i \in Ids : occ[i].disposition = "MATERIALIZED"}

\* Slip: the latest occurrence, whatever its disposition.
InFlightLatest ==
  \E i \in Ids :
    /\ \A j \in Ids : occ[j].nominal <= occ[i].nominal
    /\ occ[i].run = "active"

\* latest_materialized: ordered by the nominal instant, not by the insertion.
InFlight ==
  \E i \in Materialized :
    /\ \A j \in Materialized : occ[j].nominal <= occ[i].nominal
    /\ occ[i].run = "active"

\* The readings of the clock that a transaction may hold.
Readings == 1..now

Nominal(t) == latest_at_or_before(Cadence, t)

\* lock_due, and the three early returns of materialize that follow it.
Due(t) ==
  /\ row.state = "ACTIVE" /\ row.next # None /\ row.next <= t
  /\ Nominal(t) # None /\ Nominal(t) >= row.next
  /\ \A i \in Ids : Scheduled(i) => occ[i].nominal # Nominal(t)

Misfires(first, last) == [rev |-> row.revision, first |-> first, last |-> last]

\* Slip: two instants are not yet worth an event.
CoalesceFromThree(t) ==
  IF count_between(Cadence, row.next, Nominal(t)) > 2
  THEN {Misfires(row.next, Nominal(t))} ELSE {}

\* _append_coalesced_misfires: the event it appends, if any.
Coalesce(t) ==
  IF count_between(Cadence, row.next, Nominal(t)) > 1
  THEN {Misfires(row.next, Nominal(t))} ELSE {}

\* The event is keyed by revision and last instant, and carries a new id: the
\* append of one that is on record raises, and the transaction is rolled back.
CoalesceConflicts(t) ==
  \E e \in Coalesce(t), f \in coalesced : e.rev = f.rev /\ e.last = f.last

\* _advanced_schedule
Advanced(t, failed) ==
  LET next == next_after(Cadence, t)
      failures == row.failures + (IF failed THEN 1 ELSE 0)
      moved == [row EXCEPT !.failures = failures, !.next = next] IN
  IF Once(Revision) \/ next = None
  THEN [moved EXCEPT !.state = "COMPLETED", !.next = None]
  ELSE IF failed /\ failures >= Revision.limit
  THEN [moved EXCEPT !.state = "PAUSED", !.pause_reason = "failure_limit", !.next = None]
  ELSE moved

Occurrence(t, nominal, key, disposition) ==
  [nominal |-> nominal, at |-> t, key |-> key, rev |-> row.revision,
   disposition |-> disposition, hook |-> FALSE,
   run |-> IF disposition = "MATERIALIZED" THEN "active" ELSE "none"]

\* Inserts the occurrence of the due instant and advances the schedule.
Decide(t, disposition, failed) ==
  /\ Due(t) /\ ~CoalesceConflicts(t)
  /\ Len(occ) < MaxOccurrences
  /\ occ' = Append(occ, Occurrence(t, Nominal(t), NoKey, disposition))
  /\ coalesced' = coalesced \cup Coalesce(t)
  /\ row' = Advanced(t, failed)
  /\ log' = IF failed THEN Append(log, "failed") ELSE log
  /\ Touch
  /\ UNCHANGED <<now, revs, since, requests>>

SkipOverlap(t) == InFlight /\ Decide(t, "SKIPPED_OVERLAP", FALSE)

Late(t) == t > Nominal(t) + Grace

Miss(t) == ~InFlight /\ Late(t) /\ Decide(t, "MISSED", TRUE)

\* The owner's authority, the agent version or the policy is not what the
\* revision asks for (DENIED), or admission rejects the run (MISSED).
Refuse(t) == ~InFlight /\ ~Late(t) /\ \E d \in {"DENIED", "MISSED"} : Decide(t, d, TRUE)

Fire(t) == ~InFlight /\ ~Late(t) /\ Decide(t, "MATERIALIZED", FALSE)

\* Admission is busy: materialize returns, and what it wrote is committed.
AdmissionBusy(t) ==
  /\ MayBeBusy
  /\ Due(t) /\ ~CoalesceConflicts(t) /\ ~InFlight /\ ~Late(t)
  /\ Coalesce(t) # {}
  /\ coalesced' = coalesced \cup Coalesce(t)
  /\ UNCHANGED <<now, row, revs, occ, log, owner, since, requests>>

Materialize(t) == SkipOverlap(t) \/ Miss(t) \/ Refuse(t) \/ Fire(t)

----------------------------------------------------------------------------
(* Runs the owner asks for *)

FreshInstant(t) ==
  /\ \A d \in Definitions : t \notin d.cadence
  /\ \A i \in Ids : occ[i].at # t

StartManual(t, key) ==
  /\ Len(occ) < MaxOccurrences
  /\ occ' = Append(occ, Occurrence(t, t, key, "MATERIALIZED"))
  /\ UNCHANGED <<now, row, revs, coalesced, log, owner, since, requests>>

\* materialize_manual; an earlier request with the key is replayed, any other
\* failed check refused, and neither writes.
RunNow(t, key) ==
  /\ FreshInstant(t)
  /\ \A i \in Ids : occ[i].key # key
  /\ row.state \in {"ACTIVE", "PAUSED"}
  /\ ~Once(Revision)
  /\ ~InFlight
  /\ Cardinality({i \in Ids : occ[i].key \in Keys /\ occ[i].at + Day >= t}) < ManualPerDay
  /\ StartManual(t, key)

\* _refresh_one, for a schedule that keeps a feed
RefreshFeed(t) ==
  /\ KeepsFeed
  /\ FreshInstant(t)
  /\ row.state = "ACTIVE"
  /\ ~Once(Revision)
  /\ ~InFlight
  /\ \A i \in Materialized :
       (\A j \in Materialized : occ[j].nominal <= occ[i].nominal)
         => t >= occ[i].at + RefreshMinute
  /\ \A i \in Ids : occ[i].key = Refresh => occ[i].at \div RefreshMinute # t \div RefreshMinute
  /\ StartManual(t, Refresh)

----------------------------------------------------------------------------
(* The runs, and the post-run hook that accounts for them *)

\* The executor ends the run, and its worker will call the hook.
RunEnds(i, status) ==
  /\ occ[i].run = "active"
  /\ occ' = [occ EXCEPT ![i].run = status, ![i].hook = TRUE]
  /\ UNCHANGED <<now, row, revs, coalesced, log, owner, since, requests>>

\* A run cancelled while queued or parked, and one the reaper fails for its
\* attempts, end in a transaction that no hook follows.
RunEndsUnhooked(i, status) ==
  /\ status \in {"CANCELLED", "FAILED"}
  /\ occ[i].run = "active"
  /\ occ' = [occ EXCEPT ![i].run = status]
  /\ UNCHANGED <<now, row, revs, coalesced, log, owner, since, requests>>

\* The worker dies, or the hook's time limit runs out, before it commits.
HookIsLost(i) ==
  /\ occ[i].hook
  /\ occ' = [occ EXCEPT ![i].hook = FALSE]
  /\ UNCHANGED <<now, row, revs, coalesced, log, owner, since, requests>>

Failures(i) ==
  IF ~Scheduled(i) THEN row.failures
  ELSE IF occ[i].run = "COMPLETED" THEN 0
  ELSE IF occ[i].run = "FAILED" THEN row.failures + 1
  ELSE row.failures

\* account: an auto-pause leaves next_fire_at as it is.
Account(i) ==
  LET failures == Failures(i)
      auto_paused == /\ Scheduled(i) /\ occ[i].run = "FAILED"
                     /\ failures >= revs[occ[i].rev].limit
                     /\ row.state = "ACTIVE" IN
  /\ occ[i].hook
  /\ occ' = [occ EXCEPT ![i].hook = FALSE]
  /\ row' = IF auto_paused
            THEN [row EXCEPT !.failures = failures, !.state = "PAUSED",
                             !.pause_reason = "failure_limit"]
            ELSE [row EXCEPT !.failures = failures]
  /\ log' = IF Scheduled(i) /\ occ[i].run \in {"COMPLETED", "FAILED"}
            THEN Append(log, IF occ[i].run = "COMPLETED" THEN "ok" ELSE "failed") ELSE log
  /\ Touch
  /\ UNCHANGED <<now, revs, coalesced, since, requests>>

----------------------------------------------------------------------------
(* The owner *)

\* One transaction: it reads the row and decides what to write for it.
Request(op, to, def) ==
  /\ owner.op = "none"
  /\ requests < MaxRequests
  /\ requests' = requests + 1
  /\ owner' = [op |-> op, from |-> row, to |-> to, def |-> def, at |-> now, stale |-> FALSE]
  /\ UNCHANGED <<now, row, revs, occ, coalesced, log, since>>

Pause ==
  /\ row.state = "ACTIVE"
  /\ Request("pause", [row EXCEPT !.state = "PAUSED", !.pause_reason = "user",
                                  !.next = None], Revision)

\* Slip: the row keeps the next firing that the auto-pause left in it.
ResumedAt(t) == IF row.next # None THEN row.next ELSE next_after(Cadence, t)

NextOnResume(t) == next_after(Cadence, t)

Resume ==
  /\ row.state = "PAUSED"
  /\ NextOnResume(now) # None
  /\ Request("resume", [row EXCEPT !.state = "ACTIVE", !.pause_reason = "none",
                                   !.next = NextOnResume(now)], Revision)

Cancel ==
  /\ row.state \notin Over
  /\ Request("cancel", [row EXCEPT !.state = "CANCELLED", !.pause_reason = "none",
                                   !.next = None], Revision)

\* update and patch
Update(def) ==
  LET next == IF row.state = "ACTIVE" THEN next_after(def.cadence, now) ELSE None IN
  /\ row.state \notin Over
  /\ Len(revs) < MaxRevisions
  /\ row.state = "ACTIVE" => next # None
  /\ Request("update", [row EXCEPT !.revision = @ + 1, !.next = next], def)

\* Slip: the replacement does not compare updated_at.
UnchangedButForTime ==
  /\ row.revision = owner.from.revision
  /\ row.state = owner.from.state
  /\ row.next = owner.from.next

\* The WHERE clause of PostgresScheduleRepository.replace.
UnchangedSinceRead ==
  /\ row.revision = owner.from.revision
  /\ row.state = owner.from.state
  /\ row.next = owner.from.next
  /\ ~owner.stale

Replace ==
  /\ owner.op # "none"
  /\ IF UnchangedSinceRead
     THEN /\ row' = owner.to
          /\ revs' = IF owner.op = "update" THEN Append(revs, owner.def) ELSE revs
          /\ since' = IF owner.op \in {"resume", "update"} THEN owner.at ELSE since
     ELSE UNCHANGED <<row, revs, since>>
  /\ owner' = NoRequest
  /\ UNCHANGED <<now, occ, coalesced, log, requests>>

Tick ==
  /\ now < MaxTime
  /\ now' = now + 1
  /\ UNCHANGED <<row, revs, occ, coalesced, log, owner, since, requests>>

OwnerActs ==
  \/ Pause \/ Resume \/ Cancel \/ \E d \in Definitions : Update(d)
  \/ \E t \in Readings : RefreshFeed(t) \/ \E k \in Keys : RunNow(t, k)

RunSteps(i) ==
  \/ \E s \in Terminal : RunEnds(i, s) \/ RunEndsUnhooked(i, s)
  \/ HookIsLost(i) \/ Account(i)

Next ==
  \/ \E t \in Readings : Materialize(t) \/ AdmissionBusy(t)
  \/ \E i \in Ids : RunSteps(i)
  \/ OwnerActs \/ Replace
  \/ Tick

Spec == Init /\ [][Next]_vars

----------------------------------------------------------------------------
(* Properties *)

\* A run hides one that is started after it for an earlier instant: a cadence instant
\* fired late after a run on demand, or a run on demand whose reading of the clock
\* grew old while it waited for the lock.
Hides(k, i) ==
  /\ k < i /\ k \in Materialized
  /\ occ[k].nominal > occ[i].nominal
  /\ ~Scheduled(k) \/ ~Scheduled(i)

\* The runs of one schedule overlap only behind a run that hides the older of them
\* from the check for a run in flight; two cadence instants never do that by
\* themselves (materialize, materialize_manual, latest_materialized).
OverlapNeedsHiddenRun ==
  \A i, j \in Ids : i < j /\ occ[i].run = "active" /\ occ[j].run = "active" =>
    \E k \in Ids : Hides(k, i)

\* No instant of the running cadence is passed over in silence: one that the
\* schedule has left behind has an occurrence or lies in the range of a
\* misfires event (_append_coalesced_misfires, _advanced_schedule), however
\* late the scheduler came.
NothingIsSkippedSilently ==
  row.state = "ACTIVE" /\ row.next # None =>
    \A n \in Cadence : since < n /\ n < row.next =>
      \/ \E i \in Ids : Scheduled(i) /\ occ[i].nominal = n
      \/ \E e \in coalesced : e.first <= n /\ n <= e.last

\* The failure count of the row is what the process events say, the failures
\* since the last success, although the owner replaces the whole row from an
\* unlocked read while the scheduler and the accountant count (replace, advance).
CountMatchesEvents ==
  row.failures = Len(log) - LastOf({i \in DOMAIN log : log[i] = "ok"})

\* A pause is never caught up with: an occurrence inserted after a resume is of
\* an instant after it, also when an auto-pause left a next firing in the row
\* (resume, account).
NoBackfill ==
  [][\A i \in DOMAIN occ' \ DOMAIN occ : occ'[i].key = NoKey => occ'[i].nominal > since]_vars
=============================================================================
