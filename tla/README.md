# Verification of the agent runtime

This directory holds TLA+ models of the durable parts of the agent runtime in
`src/src/agent_core`: how a run is queued, leased, executed, parked, resumed and
ended; how its loop of model calls and tool calls is put together again after a crash;
how a tool call is authorized, performed at most once and recovered after a
crash; how a run delegates work to child runs and is joined with them; how
notifications and chat replies leave the system; how schedules fire, misfire and are
accounted; and how telephone calls are placed, reconciled and planned. TLC checks the
models on small instances, TLAPS proves the invariants that matter most for every
instance. `PROJECT.json` lists components, runs, mutants, the map from definitions to
source lines, findings, hazards and theorems.

Paths below are relative to `src/src/agent_core` unless they start with `docs/`.

## 1. Inventory

### The system

A client submits a *run* (a prompt in a session). A run is a row of PostgreSQL that
workers claim under a lease; the worker's executor drives a loop of model calls and
tool calls and ends in a *finalize* transaction. A run that needs an approval, an
answer or a child run is *parked*: the lease is released and something outside
requeues the run later. Everything that survives a process lives in the database;
every write repeats its precondition in its `WHERE` clause, and leased writes also
compare the lease's owner and epoch.

| Component | State | Operations | What makes it correct |
|---|---|---|---|
| Run state machine (`runtime/state_machine.py`) | `runs.status` | guarded transitions | only table moves, terminal is final |
| Run queue (`adapters/persistence/queue.py`) | status, lease owner, epoch, expiry, expirations, scheduled_for | enqueue, claim, heartbeat, release, reclaim_expired | one execution per epoch, a lease exactly while running, nothing stuck |
| Durable worker (`runtime/worker.py`, `runtime/cancellation.py`) | claimed run, lease, token | claim, heartbeat loop, run_once, maintenance | a worker that lost its run writes nothing |
| Run executor (`runtime/executor.py`) | the execution in memory | execute, finalize, requeue, cancel parked, cascade | row, lease and event log move together |
| Tool pipeline (`tools/executor.py`) | `tool_invocations` with `effect_sent_at` | dispatch, recover, request/resume approval, execute, finish | effects at most once, on record and authorized |
| Approvals (`application/approval_service.py`) | `approvals` | resolve, expire, cancel | asked and waiting together; an answer wakes the run |
| Delegation (`application/delegations.py`) | `delegations` ledger, child runs | materialize, after_run, parent_parked, join, cascade | joined once, charged once, always woken |
| Agent loop, checkpoints, budgets (`runtime/loop.py`, `checkpoints.py`, `budgets.py`) | counters, checkpoints, the run's events | step, model attempt, fit, refuse, dispatch, record, resume | resumption neither repeats nor skips work, counts it once, and can build the next request |
| Event log and stream (`adapters/persistence/repositories.py`, `api/sse.py`) | `events` with a sequence per session | append, replay, tail | no gaps, no duplicates, derived once |
| Schedules (`scheduling/`, `application/schedule_service.py`) | schedule row, revisions, occurrences, process events | materialize, account, run now, pause, resume, cancel, update | no due instant passed over in silence, no overlap, failures counted as logged, no backfill after a pause |
| Recurrence calculator (`domain/recurrence.py`) | none | next_after, latest_at_or_before, count_between | agrees with the calendar over leap years, month ends and changes of the clock |
| Notifications (`application/notification_*.py`) | outbox row, delivery ledger | enqueue, claim, deliver, record, settle | each device told, repeats explained, retries bounded, always settled |
| Push devices (`application/device_management.py`) | device rows, tokens, process events | register, revoke, delete, invalidate | a token belongs to one device |
| Surfaces (`application/surface_worker.py`) | reply row with claim and chunk count | claim, deliver, record, retry, settle | chunks in order, none lost, always settled |
| Calling (`application/calling.py`, `application/call_worker.py`) | dispatch rows, receipts, call rows | reserve, dial, record, scan, reconcile, erase | one call at a time, none placed twice, results true and final |
| Call plans (`application/call_plans.py`) | schedule row, attempts, recorded steps | materialize, sweep, account | no call without the result of the last, none beyond the approval, an end |
| Jobs, device channel, browser leases and grants | own tables and claims | claim, lease, grant, use | leases exclusive, grants bounded |
| Policy engine, model router, context, memory, knowledge, people, email, skills, MCP, folders, persona, titles, cockpit, API, CLI, evals, Apple client | mostly data | evaluation, rendering, I/O | quality of data; not a question of interleavings |

### Interaction

- The API process and the workers share only the database. The cancel endpoint
  writes the row of an unheld run, and leaves a request on the row of a held one
  that the worker's heartbeat reads.
- The tool pipeline runs inside an execution; its writes are leased. Its *lookup*
  of an invocation is not.
- An approval is answered by the API process or by the expiry sweep; either requeues
  the run if it finds it parked.
- Children of a delegation are ordinary runs on the same queue. Two in-process hooks
  connect them with the parent: `after_run` in the process that ended a child and
  `parent_parked` in the process that parked the parent.
- The maintenance worker reclaims expired leases, and sweeps call plans.
- The outboxes (notifications, chat replies) are written in the transactions of the
  runtime and drained by polling processes that hold no transaction while they talk to
  a provider; a claim with a lease is all that keeps two of them apart.
- The scheduler creates runs; the post-run hook of the worker that ended one accounts
  it on the schedule. Scheduler, accountant and sweep lock the schedule row, the owner's
  requests do not.
- A telephone call is a tool call of a run. Its truth is at the provider and comes back
  through callbacks, scans and a reconciler; call plans read the resulting ledger.

### What is hard

Workers that stall past their lease and come back; crashes between an effect and its
record; approvals that are answered before the run has parked; policy that changes between
approval and use; hooks of several children that join at once, before the parent has
parked, or never; copies of rows that are written back after the row has moved; messages
that were delivered and not recorded; a provider's answer that is lost or late; a
scheduler that comes back after many instants; a claim that is checked in one statement
and used in the next. `PROJECT.json` lists these under `hazards`, each at its line, with
the properties that would catch it.

## 2. Modules

| Module | Models | Notes |
|---|---|---|
| `RunStates` | statuses and transition table | constants only, extended by the others |
| `RunLifecycle` | the abstract promise of the queue | several runs may move in one step, as the reaper does |
| `RunQueue` | queue, workers, finalize, cancellation, resumption, reaper | refines `RunLifecycle` |
| `ToolPipeline` | one run's batch of tool calls, approvals, policy changes, cancellation | several workers in succession or at once |
| `AgentLoop` | the loop of one run and its recovery from checkpoint and log | leases belong to `RunQueue`, the inside of a call to `ToolPipeline` |
| `Delegation` | a parent, its children, both hooks, cascade, usage | one worker per run; leases belong to `RunQueue` |
| `PushDevices` | the device registry: tokens, revocation, deletion | part of `NotificationOutbox` |
| `NotificationOutbox` | one outbox row, its ledger and its dispatchers | extends `PushDevices`, whose actions interleave with the sends |
| `SurfaceReplies` | one chat reply and the workers that send it | statement by statement |
| `Nominals` | what a cadence is: a set of instants | the interface between the next two |
| `Schedules` | one schedule under scheduler, accountant and owner | uses `Nominals` |
| `Recurrence` | the calendar arithmetic behind `Nominals` | a reference definition per day, checked against the code's searches and formulas |
| `CallLedger` | the abstract promise of outbound calling | refined by `Calls`, composed with `CallPlans` |
| `Calls` | reservation, dial, reconciliation, erasure | refines `CallLedger` |
| `CallPlans` | a plan's schedule and sweep on top of the ledger | extends `CallLedger` |
| `MC*` | values of constants that a cfg cannot write, and symmetry | only where needed |
| `RunQueueProofs`, `ToolPipelineProofs`, `DelegationProofs`, `NotificationOutboxProofs`, `SurfaceRepliesProofs`, `SchedulesProofs`, `CallingProofs`, `AgentLoopProofs` | theorems | extend the component and TLAPS; `CallingProofs` covers `Calls` and `CallPlans` |

One action is one committed transaction or one external step. Each definition that
stands for code is in `map`, with the lines it stands for. A definition whose comment
begins with "Slip:" is never used by a specification: it is a plausible error of the
definition that follows it, and a mutant run replaces the one by the other to show that
a property notices.

### RunQueue

`status`, `owner`, `epoch`, `expirations` and `cancelAsked` are columns of `runs`.
`lapsed` and `ready` are the two comparisons the code makes with the clock
(`lease_expires_at <= now`, `scheduled_for <= now`). `journal` is the sequence of
lifecycle events of a run with the epoch under which they were written; a resumption of
a parked run writes the row alone, as `requeue_after_approval` and its like do. `job`,
`lease`, `phase` and `token` belong to a worker process; `phase = "claimed"` is the
window in which the heartbeat loop has no token to set yet. Of an execution only what
it commits is kept: progress records under the lease, then one outcome. Which
outcomes are possible depends on the token's reason, as in `finalize`: a deadline
cancels a child run but fails a root run.

### ToolPipeline

`inv` and `approval` are the rows; `seen` is the copy of the invocation row a worker
works on, so a worker that has lost the run keeps going on its copy until a leased
write refuses it. `pc` names the step of `_execute_once` a worker is at. The policy's
answer is taken at `Evaluate`, before the row is looked up, and used later; `lenient`
remembers the most lenient rule there ever was, so that authorization can be stated
over the whole history. `effects` counts what happened in the outside world, which is
`external`: a call may have its effect and still fail, time out or be interrupted.
The calls of a batch repeat the same tool with the same arguments, the case in which
the refusal to repeat an uncertain call matters.

### AgentLoop

`log` holds the events that recovery reads: responses with the number of their calls and
the two controls recorded with them (`tool_call_count_before_turn`, `synthesis_reserve`),
results with who produced them (a tool, a refusal of the pipeline, the budget, the owner),
the owner's messages and the reply. A call that the pipeline refuses has no invocation, so
that it is refused, and its result logged, each time it is dispatched; `log` keeps a
call's first result and `repeated` the calls that have more. `Refusals` says whether calls
are refused at all, and if so whether what refuses a call refuses it at every dispatch
(`lasting`: its arguments, its tool) or may be gone by the next one (`passing`: a scope,
the uncertain outcome of another call). `row` has the counters of the run row, `ckpts` the
checkpoints: as in the code, one holds no conversation but a position in the log, its
pending calls, and the two counters it was written with. `done` are the settled
invocations by idempotency key, of which the step number is the part that matters here.
`pc` names the commit the execution is at and `work` what it has in memory; a crash at any
of them starts again from `Start`, and `Lose` lets the latest checkpoints, or all of them,
be gone by then. `time` is where the clock stands: before the final time reserve, in it,
or past the deadline. A model's answer, its failure, tokens and cost over their limits and
a call repeated too often are choices of the environment. A run that waits for its
children is the subject of `Delegation`, whose join settles the call.

### Delegation

The parent's worker (`pc`) materializes the delegation, parks, is woken, and goes on;
`mem` is its copy of the usage. Each child has a status and a hook (`due` when its
process has finalized it, `joining` between the two transactions of the hook); the
parent's own hook is `parked`. `losses` counts the hooks whose process died or whose
transaction was aborted, and the children the reaper failed, for which no process runs a
hook. `joinedAt` remembers where the parent's worker was at the join.

### NotificationOutbox and PushDevices

`row` holds the columns of the outbox row; instants are kept as the time left until
them (`lease`, `wait`, `expiry`), so that `Tick` is the only clock. A dispatcher claims,
reads its targets with their tokens, checks before each send whether the attention has
been dealt with, sends, and commits ledger, token invalidations and verdict in one
transaction that fails as a whole when its claim is gone or a derivation key is taken.
`got` is what the devices really received and `lost` the attempts whose claim was taken
over; both are history. Providers answer anything at any time.

### SurfaceReplies

`record_chunk`, `settle` and `retry` first select the row under the claim and then update
it by id: each is two actions (`...Read`, `...Write`), between which another worker may
claim. A delivery, of a chunk or of a template, may succeed with its answer lost. WhatsApp
takes free text for a limited time after the chat's last message. The worker looks at this
window before it begins and sends the template instead of the reply when it has closed;
the adapter looks again at each chunk, by the message the worker read, and sends the
template in place of that chunk. `inbound` numbers the messages of the chat, `closed` is
the last one that is too old. `chat` is the sequence of what the chat received, each with
the part it stands for (a chunk, or the whole reply) and its form (text or template);
`lapses` counts the claims that ran out under a live worker.

### Schedules, Nominals and Recurrence

A transaction of the scheduler or of the accountant holds the row's lock and is one
action. Scheduler, run on demand and feed refresh read the clock before they wait for the
lock, so the action takes a reading `t` that is any time up to `now`. A request of the
owner is two actions, and the second succeeds only on the row the first has read. `log` is
the sequence of process events that count as success or failure, `since` the time from
which the running cadence is owed. A cadence is a set of instants. `Recurrence` justifies
this: it models the searches and the closed counting formulas of the calculator in hours,
over a calendar that contains 2100, and compares them with a definition that goes through
the days one by one. A search that meets a date of the cadence whose remaining hours the
clocks skip fails, as `_resolve_civil` does. The schedules of `Schedules` have no such
date.

### Calls, CallLedger and CallPlans

In `Calls` the dispatch row (`dispatch`) is committed before the dial; the dial, its
answer and its record are separate steps, and a worker may die between any two. The
provider (external) rings, ends, and has the content of a call later. A reconciler reads
the provider and applies what it saw in a later transaction, perhaps after another one,
perhaps after the owner erased the call. An answer that is malformed, for another number,
account or recipient, or too old is rejected, which drops the receipt (`receipt`) for
good, as does its age when the provider cannot be read; the dispatch row stays as it is.
`CallLedger` hides all of this: an entry is
opened, placed once, and closed with the truth. `CallPlans` composes that ledger with
the plan's schedule. A run may place any number of calls (`RunOf` says whose each one is),
and the sweep takes one result from all of them, in the order of `_result`: an answered
call, one in flight, one not reached, none dispatched, unknown.

## 3. Runs

Distinct states are those of TLC with the configuration in the cfg.

| Run | Instance | Checks |
|---|---|---|
| `RunQueue` | 1 child run, 2 workers, 3 lease expirations, 1 resume, 1 progress record (169 thousand states) | `LeaseIffRunning`, `EpochNamesOneExecution`, `JournalIsFenced`, `JournalReplaysRow`, `RunsComeToRest`, `ImplementsLifecycle` |
| `ToolPipeline_batch` | 2 calls, 2 workers, the two classes that must not be repeated freely (1.2 million) | `AtMostOnceEffect`, `UncertainIsNotRepeated` |
| `ToolPipeline_policy` | 1 call, 2 workers, all policy answers, 1 policy change, any number of grant changes (1.6 million) | `EffectIsAuthorized`, `ApprovalAndInvocationAgree` |
| `AgentLoop` | 2 steps, 3 model calls, 2 tool calls, batches of 2, a model-call reserve of 1, 2 crashes, 1 loss of checkpoints, 1 suspension, 1 extra checkpoint, refusals that last (3.7 million) | `WorkIsDoneOnce`, `OnlyRefusalsRepeat`, `UsageMatchesResults` |
| `AgentLoop_question` | 4 model calls, with questions beside other calls, without faults and refusals | `RequestAssembles`, which is violated (section 4) |
| `Delegation` | 2 children, 1 lost hook, 1 crash, 1 park (429 thousand) | `LedgerMatchesInvocation`, `ChargedAtMostOnce`, `CascadeReachesEveryChild`, `UsageIsAdditive`, `ParentIsJoined` |
| `NotificationOutbox` | 3 devices of 2 providers, one of them new, 1 shared token, 2 dispatchers, 1 retry delay, 1 fault (1.4 million) | `RepeatNeedsRetryOrLostClaim`, `FailureIsEarned`, `TokenHasOneDevice`, `DispatchedReachesAll`, `RowIsSettled` |
| `SurfaceReplies` | 2 chunks, 2 workers, 2 attempts, 1 lapse, 1 crash, 2 messages of the chat (2.1 million) | `ReplyArrivesWhole`, `OneCopyPerClaim`, `ReplyIsSettled` |
| `Schedules` | instants 2, 4 and 9, clock to 4, failure limit 1, no grace, 1 request, 3 occurrences, busy admission, a run on demand and a refresh with any reading of the clock (848 thousand) | `NothingIsSkippedSilently`, `CountMatchesEvents`, `OverlapNeedsHiddenRun`, `NoBackfill` |
| `Recurrence` | 113 cadences of every kind, 5 clocks, 6 starts, 9 steps, 2094 to 2150 (23 thousand) | `NextInstantIsFound`, `LatestIsTheOneBefore`, `CountIsTheNumberOfSteps` |
| `Calls` | 2 calls, 2 workers, 2 reconcilers, 1 crash, rejected answers (340 thousand) | `OneCallAtATime`, `NeverRedials`, `ResultsAreFinal`, `ImplementsLedger`, `ReachedCallIsReleased` |
| `CallPlans` | 2 firings, of which the first may place two calls, a follow-up and a report, failure limit 2, clock to 4, an owner who pauses and cancels (1.6 million) | `NextCallIsWarranted`, `PlanComesToRest` |

Several properties say exactly when something bad may happen rather than that it never
does, because the code allows it in one case: a push is repeated only after a retry or a
lost claim (`RepeatNeedsRetryOrLostClaim`), runs of a schedule overlap only behind a run
for a later instant that started before the older of them, one of the two on demand or a
refresh (`OverlapNeedsHiddenRun`), a part of a reply is copied at most once per claim
(`OneCopyPerClaim`), the event log of a run says another status than its row only when a
parked run was requeued (`JournalReplaysRow`), a call keeps the line only when its receipt
was dropped (`ReachedCallIsReleased`), next_after fails only over a date without its hours
(`NextInstantIsFound`), a call has two results only when it was refused again
(`OnlyRefusalsRepeat`), usage is dropped only when a worker held the parent at the join
(`UsageIsAdditive`), a second reply needs a lost checkpoint (`WorkIsDoneOnce`), a batch
counted twice needs a response without calls (`UsageMatchesResults`). Section 4 says what
the documents promise in those cases.

`AgentLoop` passes with questions that are the only call of their turn (`LoneQuestions`),
and with calls beside each other that need an approval, and with refusals that last.
`OnlyRefusalsRepeat` says what is left of `RequestAssembles` when calls are refused, and
section 4 what happens with passing ones.

Most modules have a type invariant (`TypeOK`, `CallsTypeOK`, `LedgerTypeOK`). It is proved
wherever there is a proof module, and no run repeats it there.

Bounds. Runs are independent rows, so one run with two workers shows every race for a row.
Two workers suffice for a stale worker and its successor; three expirations allow a run to
be lost twice and to be claimed once more. Two calls are the smallest batch in which a
later call can repeat an earlier one, or be open while the earlier one is settled, and
with a limit of two the limit may cut it. Two steps let a batch be taken up again after a
later step has begun, two crashes let a resume be interrupted. Two children are the
smallest set whose hooks race. Two providers are needed for a row that one dispatcher must
leave to another, a third device for a token that moves. Two chunks let the window close,
a worker die or a claim run out between them, two messages let the window open again. Two
instants within the clock, uneven, allow one to be coalesced, fired late or skipped, and
the third keeps the cadence from running out. Two calls compete for the line, and two of
one run have different results. Nine steps of a yearly cadence cross the eight years
without a 29 February. All constants named `Max...` bound what could go on for ever.
Deadlock is checked in `AgentLoop`, where an ended run stays ended by `Rest`; elsewhere it
is not: a run that has ended, or is parked with nobody to answer, a settled row or a
completed plan may really stop.

Symmetry is used for workers in the two safety runs of `ToolPipeline` only.

Fairness. `RunQueue`: time passes (`BecomeReady`, `OrphanLapses`), workers and the
maintenance worker poll (`Claim`, `Maintenance`), and an execution reaches an outcome,
since the deadline and the step budget bound it. A live worker's lease is never forced
to lapse. `Delegation`: workers poll and executions end, approvals of children are
answered or expire, a started hook ends. `NotificationOutbox`: dispatchers poll and go
on, time passes. `SurfaceReplies`: the same, and a dead worker's claim runs out. `Calls`:
a call ends and its content arrives, the scan learns of it, and reconcilers poll; strong
fairness for a reconciler's fetch of one call, since reconcilers take the open calls in
turn and may be busy with another one. That the provider can be read is assumed, that its
answers are valid is not. `CallPlans`: scheduler, sweep and accountant poll
and time passes; runs and results are not forced. Clients, crashes, owners and
cancellations are never forced, nor is any particular outcome. `Schedules`,
`ToolPipeline`, `AgentLoop` and `Recurrence` are checked for safety only; that an
execution ends is what `RunQueue` assumes of the loop, on the ground of the deadline and
the step limit, and the graph of `AgentLoop` is too large to check it here.

## 4. Findings

One run is expected to be violated. It states a sentence of the repository's documents
that the code does not keep.

- `AgentLoop_question` (`runtime/executor.py:1353`): a turn holds a call that is performed
  and a `conversation.ask_user` question. The owner's answer is logged as a message
  before the question's result, so that `_latest_turn` stops at it and finds only the
  question answered. The performed call, still pending, is dispatched again; its effect
  is not repeated, but its recorded result enters the conversation a second time (in the
  time reserve it is even refused a second time, in the log), and `validate_tool_pairs`
  fails the run. `docs/plan/event-log-and-persistence.md:628`: "a result already in the
  log is not appended twice".

Other places where code and documents differ, met while modelling. The models contain
the code's behaviour; where a checked property is limited because of it, it is named.

- Answered too early (`tools/executor.py:2250`): `_request_approval` commits the pending
  approval while the run is RUNNING, and `finalize` parks the run later. An answer in
  between requeues nothing (`application/approval_service.py:114`), and the run parks
  with no approval left to answer. `docs/plan/policy-and-approvals.md:932`: "every step
  before the lease release must be durable, because after the lease is released no
  worker is watching".
- Lost join (`application/delegations.py:614`): the join runs only in the post-run hook of
  the process that finished the last child; when it dies after `finalize`, or the reaper
  fails the child, nothing joins and the parent waits for good (`ParentIsJoined` excludes
  lost hooks). `docs/plan/subagents-and-delegation.md:362`: "Recovery needs nothing new".
- Counted twice (`runtime/executor.py:1267`): a later response without calls hides the
  turn's watermark from `_turn_controls`. When the run is then resumed from a checkpoint
  that still has the answered and counted batch pending, the batch is counted again
  (`UsageMatchesResults` excludes it). It happens when checkpoints are lost, and after
  three crashes without a loss, because a resume that finds nothing left of the batch
  writes no checkpoint. `docs/plan/event-log-and-persistence.md:639`:
  "count an answered fitted batch exactly once even after all checkpoints are lost".
- Replied twice (`runtime/executor.py:1279`): a reply is recognized only among the events
  after the restored checkpoint; when all checkpoints are lost the new one is seeded
  behind it, and the run replies again (`WorkIsDoneOnce` excludes it).
- Refused again (`tools/executor.py:2697`): a refused call has no invocation, and a resume
  dispatches a suspended batch again with the calls that are answered. A turn with a call
  that is refused and one that needs an approval therefore has two results of the first in
  the log when the approval is answered; the run in memory goes on, but once the
  conversation is built from the log again, `validate_tool_pairs` fails the run
  (`OnlyRefusalsRepeat` says that nothing else makes it fail).
  `event-log-and-persistence.md:628`: "a result already in the log is not appended twice".
- Refused for a time (`tools/executor.py:964`): when what refused a call has passed by the
  next dispatch, the call is performed behind its refusal or suspends the batch after the
  usage was counted. `UsageMatchesResults` then fails, and with a limit of three calls and
  a lost checkpoint `WorkIsDoneOnce` too, because the checkpoint of a suspension has the
  run's step, not the batch's. Both are checked and proved for refusals that last.
- Resumed without a word (`runtime/executor.py:379`): the functions that requeue a parked
  run write its row and no event, so that its log says that it waits until the next claim
  (`JournalReplaysRow` allows exactly this).
- Reserved for good (`application/calling.py:136`): a process that dies between the
  reservation of a call and its dial leaves a row that nothing releases, and every later
  call is refused as busy (`ReachedCallIsReleased` is about calls that reached the
  provider). So does a receipt that is closed early: one answer that is malformed or does
  not match (`calling.py:262`, `calling.py:292`), or a provider that cannot be read for
  the retention time (`calling.py:571`), and nobody asks for the call any more.
- Cancellation (`adapters/persistence/repositories.py:738`): a cancellation accepted for
  a RUNNING run is read by nothing but a heartbeat; a run that parks before the next one
  waits as if nothing had happened. `docs/plan/http-api-and-streaming.md:2110`: "A run
  cancelled through the endpoint while `RUNNING` in a separate process reaches
  `CANCELLED`".
- Re-execution (`repositories.py:1670`): a worker that dies after an approved call was
  started and before its watermark leaves a call whose re-execution needs a second
  approval, which `approvals.create` refuses, so that the run fails.
  `docs/plan/tool-system.md:726`: "A worker that dies before the executor commits the
  watermark can be retried safely".
- Usage (`repositories.py:809`): `update_counters` writes the caller's copy; a worker that
  holds the parent during the join drops the children's usage (`UsageIsAdditive`
  excludes exactly this). `docs/plan/subagents-and-delegation.md:620`: "After the join
  the parent's usage equals its own plus every child's".
- Wake-up (`application/delegations.py:644`): a late `parent_parked` hook requeues a
  parent that meanwhile waits for an approval, since both waits have one status.
  `docs/plan/subagents-and-delegation.md:114`: "The parent resumes exactly once".
- Rejection (`application/notification_dispatcher.py:289`): a rejection by one provider
  settles the row FAILED while a device of another one has received nothing
  (`FailureIsEarned` says no more than the code does).
  `docs/plan/notifications-and-devices.md:435`: "Settles the row only when no provider
  has an undelivered target".
- Retry schedule (`notification_dispatcher.py:274`): the delay is indexed by the claims of
  all dispatchers, so that one provider's attempts use up another's schedule.
  `notifications-and-devices.md:454`: "the attempt after a `RETRY` happens at +30
  seconds, +2 minutes, +10 minutes, +1 hour, and then the row is `failed`".
- Revocation (`application/device_management.py:216`): the event key `device.revoked:{id}`
  is used once; a device that was registered again cannot be revoked again, because the
  event conflicts and the transaction is rolled back. `notifications-and-devices.md:873`:
  "Revocation takes effect before the next claim".
- Repeated chunks (`application/surface_worker.py:171`): a chunk is delivered before it is
  recorded, and delivered again after a crash or a lost answer (`OneCopyPerClaim` bounds
  the copies). `docs/plan/inbound-surfaces.md:707`: "a retry resumes without duplicates".
- Lost chunks (`adapters/persistence/surfaces.py:999`): a worker whose claim is taken over
  between select and update overwrites the new claim's count; chunks are skipped and the
  reply is settled without them (`ReplyArrivesWhole` excludes a claim that ran out under
  its worker). `inbound-surfaces.md:552`: "a retry resumes at the next chunk".
- Template for a chunk (`adapters/whatsapp.py:391`): when the window closes in the middle of
  a reply, each chunk that is left goes out as the same template and is recorded as the
  chunk. Its text never arrives, and the chat has the template several times. The last
  part of `ReplyArrivesWhole` says that a closed window is the only cause;
  `OneCopyPerClaim` counts a template for the chunk it stands for.
- Overlap (`adapters/persistence/schedules.py:794`): the run in flight is looked for by
  nominal instant. A cadence run fired late hides behind a finished run on demand, and a
  run on demand or a refresh behind any finished run that started while it waited for the
  lock with an old reading of the clock (`scheduling/materializer.py:347`, `446`). A run
  that is hidden is not found (`OverlapNeedsHiddenRun`). `docs/plan/scheduling.md:337`:
  "do not overlap occurrences from the same schedule".
- No time left (`domain/recurrence.py:351`): where a change of the clock skips the rest of a
  date, as some zones do towards midnight, `next_after` and `latest_at_or_before` raise,
  and the schedule fails at each poll. A monthly or yearly cadence resolves all dates of
  the month or year, so that one lost date blocks the others (`NextInstantIsFound` says
  when this happens). `scheduling.md:297`: "advances to the first valid local instant on
  that date".
- Several calls (`application/call_plans.py:212`): nothing limits a run of a plan to one
  call. The plan's limit counts firings, not calls, and an answered call wins over one
  that is still in flight, so that a follow-up may be fired while a call of the run before
  rings. `NextCallIsWarranted` says this much and no more; a retry waits for all of them.
  `docs/adr/0221-unattended-call-plans.md:48`: "A plan places at most ten calls".
- Backoff (`scheduling/materializer.py:243`): when admission is busy after misfires were
  coalesced, their event is committed and every retry of that instant fails on it.
  `scheduling.md:566`: "the schedule remains due and is retried after a bounded admission
  backoff".
- Accounting (`application/run_service.py:194`): a scheduled run that is cancelled while
  queued or parked, or failed by the reaper, is never accounted.
  `scheduling/accounting.py:155`: "a run that failed or was cancelled always tells the
  owner".
- Report (`scheduling/materializer.py:149`): the report of a call plan is skipped as an
  overlap, which completes the plan, when the run of the last call outlives the wait for
  its result. `docs/adr/0221-unattended-call-plans.md:69`: "Ended, for any reason: one
  more occurrence runs with no scopes at all".

## 5. Proofs

Every theorem holds for all values of the constants that satisfy the named `ASSUME` of
its component, which says no more than that limits are numbers, that placeholders such as
`NoWorker` are no real values, and that sets are finite where they are counted. Each is
proved along one line: an inductive invariant, one lemma per action (or per group of
actions that change the same things), and the property as a part or a consequence. Each
invariant was first checked by TLC on the instance of the component's run.

Constants that bound a run for TLC (`Max...`) stay in the actions' guards but may have any
value, so the theorems cover any number of crashes, lapses, resumes, retries and changes.

### RunQueueProofs (any runs and workers, `RunQueueAssumption`)

- `QueueTypeCorrect`: `TypeOK`, inductive as it stands.
- `QueueLeases` and `QueueEpochs`: `LeaseIffRunning` and `EpochNamesOneExecution` are
  inductive together with `TypeOK`. Neither is alone: that a worker at the row's epoch
  of a running run is the one the row names is what makes a claim's new epoch exclude
  every other worker, and that a lease is held exactly while the run is running is
  what keeps cancellation and resumption from touching a held run.
- `QueueJournalIsFenced` and `QueueJournalReplaysRow`: both follow from `JournalsAccount`.
  The properties search a journal for its latest handover with `CHOOSE`; the inductive
  form says that there *is* a handover that accounts for the status (`StatusesAfter`: a
  parked run may have been requeued since) and, while the run is running, for the epoch,
  that claims are counted by the epoch, and that each leased event follows its claim.
  Appending keeps the handovers of the earlier positions, so only the appended event has
  to be considered. The step needs the lease invariant: a leased write comes from the
  worker whose claim is the latest handover.
- `QueueImplementsLifecycle`: the initial states map, and each action is a step of
  `RunLifecycle` or a stutter, with `generation <- epoch`. `RowMove` reduces a step on
  one row to the case of that row; `ReclaimExpired` moves several.

### ToolPipelineProofs (any workers, batch, attempts, policy changes, `ToolPipelineAssumption`)

`PipelineInv` is `TypeOK` (`PipelineTypeCorrect`) and `Promises`, whose parts are the
properties `AtMostOnceEffect` (`PipelineEffectAtMostOnce`), `EffectIsAuthorized`
(`PipelineEffectAuthorized`), `ApprovalAndInvocationAgree` (`PipelineApprovalsAgree`), and
what carries them:

- `OwnerHasTheRow`: the copy of a worker that holds the lease is the row. It is why a
  leased write overwrites nothing, and it says nothing of a worker that lost the lease,
  which is the hard case: that one may still call the tool.
- `CopyFitsStep`, `WatermarkStays`: the tool is called only on a copy that is RUNNING,
  permitted and watermarked, and a watermark is never taken back. `OneSender` then says
  that a worker about to call a non-idempotent tool is the first and the only one: a
  second one would have found the watermark.
- `DecisionIsEarned`: an "approved" that a worker has in hand belongs to an approval that
  stands, and a lenient answer to rules that once held.
- `CallsInOrder`: what lies behind a worker is settled with a known outcome, or the batch
  has an uncertain call and nobody passes it. `UncertainIsNotRepeated`
  (`PipelineUncertainNotRepeated`) is its consequence.

A step of a worker is one of three shapes (it leaves, it goes on, it writes a row and goes
on), and what each shape preserves is proved once (`QuitKeeps`, `GoesOnKeeps`,
`WriteAndGoKeeps`).

### DelegationProofs (any finite nonempty set of children, `DelegationAssumption`)

`DelegationInv` has `TypeOK` (`DelegationTypeCorrect`), `LedgerMatchesInvocation`
(`DelegationLedger`), `ChargedAtMostOnce` (`DelegationCharges`),
`CascadeReachesEveryChild` (`DelegationCascade`) and `UsageIsAdditive` (`DelegationUsage`)
as parts or consequences. Three conjuncts are there for the induction: `ChildrenExist`,
without which a cascade could pass over a child that is not created yet; `CopyIsBounded`,
which bounds the worker's copy of the usage as the row is bounded, since the copy is
written back; and `UsageIsExact`, which says what row and copy hold before and after a join
that found no worker on the parent.

### NotificationOutboxProofs (any dispatchers, devices, tokens, delays, `DevicesAssumption`, `OutboxAssumption`)

- `OutboxTokenHasOneDevice` (`TokenHasOneDevice`) needs that only an active device holds a
  token (`HoldersAreActive`), since registration takes a token away from active devices.
- `OutboxRepeatsAreEarned` (`RepeatNeedsRetryOrLostClaim`) turns on the attempt number of a
  claim: dispatchers at work have different ones, and the claim of an attempt at work is
  the row's or was taken over (`AttemptsAreApart`). So the ledger rows of an attempt that
  was not taken over are written before the next attempt reads the ledger
  (`SentIsAccounted`, `LastWordStands`), and a push that arrived is among the outcomes its
  dispatcher has in hand (`SentIsKnown`).
- `OutboxFailuresAreEarned` (`FailureIsEarned`): ledger rows stay, and the verdict is
  computed from the outcomes that are committed with it.
- `OutboxDispatchReachesAll` (`DispatchedReachesAll`, an action property):
  `TargetsAreCovered` follows each device whose token the dispatcher read from its targets
  to its outcomes and to the ledger.

### SurfaceRepliesProofs (any workers, chunks, attempts, lapses, crashes, `RepliesAssumption`)

- `RepliesTypeCorrect`: `TypeOK`.
- `RepliesOneCopyPerClaim` (`OneCopyPerClaim`): what is counted is not copies alone but
  copies and the workers that may still send one; together they are at most the claims
  (`CopiesHaveClaims`). A send turns a sender into a copy, a claim makes one new sender,
  and no other step makes either. A template in place of a chunk counts as the chunk.
- `RepliesArriveWhole` (`ReplyArrivesWhole`): as long as no claim lapsed under its worker,
  a worker at work holds the row (`Holds`), so what its select returned is still so at its
  update, and the row counts what has arrived (`RowIsTrue`), as text or as a template.
  Where a delivery with its outcomes leaves the worker is proved once (`WorkerLands`).
  That it is text while no window closed is `TextWhileOpen`. Crashes are covered.

### SchedulesProofs (any definitions, clock, limits, requests, `SchedulesAssumption`)

A cadence is any finite set of instants with one beyond the clock. First and last instants
of a set exist by well-foundedness (`LeastExists`, `GreatestExists`).

- `ScheduleTypeCorrect`: `TypeOK`.
- `ScheduleCountMatches` (`CountMatchesEvents`): the owner's write replaces the whole row,
  its count of failures with it. `RequestFits` says that a request which can still be
  written carries the count of the present row, because every other write makes it stale.
- `ScheduleSkipsNothing` (`NothingIsSkippedSilently`) and `ScheduleNoBackfill`
  (`NoBackfill`, an action property) need `NextIsAhead`: the next firing lies after
  everything decided and after the time from which the cadence is owed. For a resumption
  that is computed from an old reading of the clock this again rests on `RequestFits`.
- `ScheduleOverlaps` (`OverlapNeedsHiddenRun`): `LaterRunsAreHidden` says it of every later
  run, ended or not. The search finds the run of the latest nominal instant; the instants
  of the cadence are in order (`OccurrencesInOrder`), those of runs on demand are readings
  of the clock in any order, so that a run it misses is one the property names.

### CallingProofs: Calls (any finite set of calls, any workers, reconcilers, crashes, `CallsAssumption`)

`CallsInv` relates the four places that speak of a call: a worker until it has an answer is
at its own reservation (`WorkersHoldTheirCall`, `KeysAreApart`), the provider knows exactly
the calls that were dialed (`DialedOnceIfReached`), the ringing call has the one active row
(`LineIsHeld`), and views and records agree with the provider about an end
(`ViewsAreTrue`, `RowMatchesRecord`). From it:

- `CallsAreTyped` (`CallsTypeOK`), `CallsNeverRedial` (`NeverRedials`), `CallsOneAtATime`
  (`OneCallAtATime`) and the action property `CallsResultsAreFinal` (`ResultsAreFinal`).
- `CallsImplementLedger` (`ImplementsLedger`): every step moves one entry of `CallLedger` or
  none (`OneEntryMoves`, `LedgerStep`); that a reconciler closes an entry with the truth is
  `ViewsAreTrue`.

### CallingProofs: CallPlans (any times, window, follow-up, grace, limit, `PlanAssumption`, `CallAssumption`)

`CallAssumption` says that each call of the ledger belongs to a run, to the n-th of the plan
or to any other; a run may have none or many.

- `PlanTypeCorrect`: `TypeOK`. The length of a plan is bounded because its calls are.
- `PlanNextCallIsWarranted` (`NextCallIsWarranted`): the sweep decides and the scheduler
  fires later. `StepsAreJustified` says that the one step recorded ahead is still
  justified by what the ledger has closed, since a closed entry is true and never changes
  (`LedgerIsTrue`), and a run that has ended opens no more; `RowFitsSteps` that nothing
  but that step is fired; and `KindsInOrder` that calls, follow-up and report come in this
  order.

### AgentLoopProofs (any limits, reserves, batches, crashes, losses, suspensions, `LoopAssumption`, `LoneQuestions`, `Refusals # "passing"`)

A resume rebuilds the state of the loop from a checkpoint that may be old and from a
search of the log. `LoopInv` says at each commit what such a search would find:

- `LogInv`: results belong to the response that proposed the call and follow it with
  nothing but results and an owner's answer between, one for each call; a reply follows a
  response without calls.
- `OpenInv`: a call without a result belongs to the last response, whose step and count
  are still those of the row. A crash therefore leaves one batch open, never two.
- `CheckpointInv`: *every* checkpoint, not only the latest, describes the batch of one
  response under that response's step and count. Since checkpoints may be lost, the
  latest one of tomorrow may be any of today's.
- `DoneInv`: the key of a settled call has the step of its response, and the settled calls
  are those with a result of a tool or the owner. A call refused by the pipeline has none,
  and is refused again whenever it is dispatched (`UnsettledIsOpen`).
- `ResponseInv`, `BatchInv`, `WaitInv`, `SuspensionInv`: what the execution has in memory,
  and what a parked run waits for, is that same batch. `ReplyInv`: without a loss no
  checkpoint lies behind a reply.

From these `ResumeFinds` follows: a resume finds nothing to do, or the rest of that one
batch, under the step its calls were first dispatched with. That is the heart of the step
`Resume`, and with it

- `LoopTypes` (`TypeOK`; it does not stand alone, since a resume and an answer take the
  response they continue from the log and the last checkpoint, which must be there),
  `WorkIsNotRepeated` (`WorkIsDoneOnce`) and `ContextAssembles` (`OnlyRefusalsRepeat`) are
  parts or consequences of `LoopInv`. For the last one `BatchInv` says that only a call
  whose result is in the log again stands twice in the conversation in memory.
- `UsageIsExact` (`UsageMatchesResults`) needs a second invariant on top, `UsageInv`: the
  count recorded with each response lies between the calls performed or refused by the
  pipeline before it and those together with the ones the owner answered, and at each
  commit of a step the row has what it owes (`CountCovers`, `CountIsPaid`, `Owed`).

The two hypotheses are about constants of the model: the theorems say nothing of a turn with
a question beside other calls, nor of a refusal that has passed when the call is
dispatched again. Calls that need an approval may stand beside
others.

### Only model-checked

- Liveness (`RunsComeToRest`, `ParentIsJoined`, `RowIsSettled`, `ReplyIsSettled`,
  `ReachedCallIsReleased`, `PlanComesToRest`): the prover does not treat fairness.
- `Recurrence` (`NextInstantIsFound`, `LatestIsTheOneBefore`, `CountIsTheNumberOfSteps`):
  what its searches and formulas compute would need induction over days.
- `AgentLoop` with questions beside other calls: there is nothing to prove,
  `RequestAssembles` is false (section 4). With refusals that pass `UsageMatchesResults`
  is false.

Every other invariant and action property of a run is a theorem.

## 6. Not modelled, and the plan

Not modelled: evaluation of policy rules, model calls, prompts, retrieval, rendering, and
the clients. Their results reach the models as nondeterministic inputs. They are most of
the code: of the 250 thousand lines under `src/src` the greater part is services around
data (memory, people, email), page automation, persistence mappings, schemas, commands and
evaluations, whose correctness is a question of their content and not of the states they
pass through. In the modelled components: priorities among queued runs, parallel dispatch
of read-only calls (`AgentLoop` takes a batch in order), arguments modified by policy, the
process without leases, the browser's own recovery reads, the chain of checkpoint deltas,
the producers' choice of notifications, chat ingress and pairing, inbound calls, calls
that a worker without its lease opens after its run has ended, validation and listing of
schedules.

In order:

1. `ToolPipeline`: parallel dispatch and argument modification.
2. `AgentLoop`: parallel dispatch and cost.
3. Event log: sequence per session, derivation keys, stream resumption.
4. Job, device and browser leases, and the in-process dispatcher, as far as they differ
   from the queue.
