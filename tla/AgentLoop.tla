----------------------------- MODULE AgentLoop -----------------------------
(***************************************************************************)
(* The agent loop of one run and its recovery (runtime/loop.py, RunExecutor*)
(* in runtime/executor.py, runtime/budgets.py, runtime/checkpoints.py).  A *)
(* step asks the model and performs the tool calls it proposes.  Its       *)
(* commits are separate: the response event, the usage, a checkpoint, the  *)
(* refusals, another checkpoint, each result, the usage of the batch, a    *)
(* third checkpoint.  A worker may die between any two, and the next one   *)
(* puts the step together again from what it finds.                        *)
(*                                                                         *)
(* A checkpoint holds no conversation but a position in the session's      *)
(* history, which is built from the events (log).  Events that recovery    *)
(* does not read are left out; of a call with several results the log has  *)
(* the first, and repeated tells that there are more.  A call is <<t, i>>, *)
(* the i-th call of the response at position t of the log.  Leases are the *)
(* subject of RunQueue, what happens inside one call is that of            *)
(* ToolPipeline, the join of children that of Delegation; the questions    *)
(* and reads the browser recovery adds to a turn are not modelled.         *)
(***************************************************************************)
EXTENDS Naturals, Sequences, FiniteSets

CONSTANTS
  MaxSteps, MaxModels, MaxTools,              \* RunLimits
  ReserveSteps, ReserveModels, ReserveTools,  \* synthesis reserves of RunLimits
  MaxAttempts,    \* max_internal_attempts
  LoneQuestions,  \* a question to the owner is never one of several calls
  Refusals,       \* calls are never refused, or refused for good, or for any time
  Waits,          \* what a call may wait for
  MaxBatch,       \* bound: calls of a turn
  MaxCrashes,     \* bound: crashes
  MaxLosses,      \* bound: how often checkpoints are lost
  MaxParks,       \* bound: suspensions
  MaxExtras       \* bound: checkpoints for a recall or a compaction

ASSUME LoopAssumption ==
  /\ {MaxSteps, MaxModels, MaxTools, MaxAttempts, MaxBatch} \subseteq Nat \ {0}
  /\ {MaxCrashes, MaxLosses, MaxParks, MaxExtras} \subseteq Nat
  /\ ReserveSteps \in 0..(MaxSteps - 1)
  /\ ReserveModels \in 0..(MaxModels - 1)
  /\ ReserveTools \in 0..(MaxTools - 1)
  /\ LoneQuestions \in BOOLEAN
  /\ Refusals \in {"none", "lasting", "passing"}
  /\ Waits \subseteq {"approval", "user"}

VARIABLES
  log,            \* the run's events: model responses, results, owner messages, the reply
  repeated,       \* the calls with more than one result event
  row,            \* counters of the run row: steps, models, tools
  ckpts,          \* checkpoints, the latest last
  done,           \* settled invocations: <<step number of the key, call>>
  wait,           \* the suspended invocation, what it waits for, whether that has come
  time,           \* of the deadline: early, in the final reserve, over
  pc, work,       \* the execution in memory
  crashes, losses, parks, extras

durable == <<log, repeated, row, ckpts, done, wait>>
bounds == <<crashes, losses, parks, extras>>
vars == <<durable, time, pc, work, bounds>>

Terminal == {"COMPLETED", "FAILED", "CANCELLED"}
Running == {"repair", "resume", "settle", "recall", "dispatch", "usage", "save", "loop", "build",
            "suspend", "ask", "charge", "respond", "fit", "pend", "reply", "end"}
NoWait == [key |-> <<0, <<0, 0>>>>, for |-> "none", over |-> FALSE]

Checkpoint(pending, steps, tools) ==
  [through |-> Len(log), pending |-> pending, steps |-> steps, tools |-> tools, approval |-> FALSE]

Latest == ckpts[Len(ckpts)]

\* When no more checkpoints can be lost, only the latest is kept.
Write(c) == ckpts' = IF losses < MaxLosses THEN Append(ckpts, c) ELSE <<c>>

\* attempt, reserve and answer belong to a step.  Of a batch: key is the step number
\* in its idempotency keys, base the tool-call count before it, owed how its usage is
\* recorded, known the results that the resume found, twice the calls whose result
\* the conversation in memory holds a second time.
Fresh == [attempt |-> 0, reserve |-> "none", answer |-> "none", batch |-> {}, todo |-> {},
          key |-> 0, base |-> 0, owed |-> "all", extra |-> 0, known |-> {}, twice |-> {},
          outcome |-> "none"]

\* A call, a response, a result; the dimensions of a reserve.
CallId == Nat \X Nat
Dimension == {"none", "tool_calls", "time", "steps", "model_calls"}
Responses == [type: {"response"}, calls: 0..MaxBatch, base: Nat, reserve: Dimension, step: Nat]
Results == [type: {"result"}, call: CallId, by: {"tool", "refusal", "budget", "owner"}]
Event == Responses \cup Results \cup [type: {"user", "reply"}]
Checkpoints == [through: Nat, pending: SUBSET CallId, steps: Nat, tools: Nat, approval: BOOLEAN]
Memory == [attempt: Nat, reserve: Dimension, answer: {"none", "tools", "text", "empty"},
           batch: SUBSET CallId, todo: SUBSET CallId, key: Nat, base: Nat,
           owed: {"all", "extra", "reconcile"}, extra: Nat, known: SUBSET CallId,
           twice: SUBSET CallId, outcome: {"none", "SUSPENDED"} \cup Terminal]

TypeOK ==
  /\ log \in Seq(Event)
  /\ repeated \subseteq CallId
  /\ row \in [steps: Nat, models: Nat, tools: Nat]
  /\ ckpts \in Seq(Checkpoints)
  /\ done \subseteq Nat \X CallId
  /\ wait \in [key: Nat \X CallId, for: {"none"} \cup Waits, over: BOOLEAN]
  /\ time \in {"early", "final", "over"}
  /\ pc \in {"start", "parked"} \cup Running \cup Terminal
  /\ work \in Memory
  /\ pc = "end" <=> work.outcome # "none"
  /\ crashes \in 0..MaxCrashes /\ losses \in 0..MaxLosses
  /\ parks \in 0..MaxParks /\ extras \in 0..MaxExtras

Init ==
  /\ log = <<>> /\ repeated = {}
  /\ row = [steps |-> 0, models |-> 0, tools |-> 0]
  /\ ckpts = <<>>
  /\ done = {} /\ wait = NoWait
  /\ time = "early"
  /\ pc = "start" /\ work = Fresh
  /\ crashes = 0 /\ losses = 0 /\ parks = 0 /\ extras = 0

\* The execution ends with an outcome; finalize commits it.
EndWith(outcome) == pc' = "end" /\ work' = [Fresh EXCEPT !.outcome = outcome]

\* A checkpoint that a recall or a compaction may write.
WriteExtra(c) ==
  \/ UNCHANGED <<ckpts, extras>>
  \/ extras < MaxExtras /\ Write(c) /\ extras' = extras + 1

Keep == UNCHANGED <<time, bounds>>

----------------------------------------------------------------------------
(* The conversation *)

Is(type, i) == log[i].type = type

\* A response with calls is part of the conversation, one without is not.
IsTurn(i) == Is("response", i) /\ log[i].calls > 0

LatestIn(S) == IF S = {} THEN 0 ELSE CHOOSE i \in S : \A j \in S : j <= i

\* _latest_turn of the first n events: where the results at their end begin, the calls
\* that stand there, and the calls answered.
TurnAt(n) == LatestIn({i \in 1..n : IsTurn(i) \/ Is("user", i) \/ Is("reply", i)})
CallsAt(t) == IF t > 0 /\ IsTurn(t) THEN {t} \X (1..log[t].calls) ELSE {}
ResultsAfter(t, n) == {log[i] : i \in {j \in (t + 1)..n : Is("result", j)}}
Answered(t, n) == {r.call : r \in ResultsAfter(t, n)}

Answers(t) == t > 0 /\ Is("reply", t)

\* _budget_refused_calls
Refused(t) == {r.call : r \in {s \in ResultsAfter(t, Len(log)) : s.by = "budget"}}

\* _turn_controls finds the response that proposed the calls at t.
HasControls(t) == CallsAt(t) # {} /\ t = LatestIn({i \in DOMAIN log : Is("response", i)})

Result(c, by) == [type |-> "result", call |-> c, by |-> by]

\* _record_refusals: one transaction, in the order of the batch.
Refuse(calls) ==
  \E n \in 0..MaxBatch : \E order \in [1..n -> calls] :
    /\ calls = {order[i] : i \in 1..n}
    /\ \A i, j \in 1..n : i < j => order[i][2] < order[j][2]
    /\ log' = log \o [i \in 1..n |-> Result(order[i], "budget")]

----------------------------------------------------------------------------
(* Budgets *)

One(b) == IF b THEN 1 ELSE 0

\* _synthesis_reserve_dimension, without cost.
Reserve(withTime, inProgress, beforeAttempt) ==
  IF row.tools >= MaxTools THEN "tool_calls"
  ELSE IF {ReserveSteps, ReserveModels, ReserveTools} = {0} THEN "none"
  ELSE IF withTime /\ time # "early" THEN "time"
  ELSE IF MaxSteps + One(inProgress) <= row.steps + ReserveSteps THEN "steps"
  ELSE IF MaxModels <= row.models + One(beforeAttempt) + ReserveModels THEN "model_calls"
  ELSE IF MaxTools <= row.tools + ReserveTools THEN "tool_calls"
  ELSE "none"

\* The calls of a batch that fit a tool-call count, in the order of the batch.
FirstOf(calls, used) ==
  {c \in calls : used + Cardinality({d \in calls : d[2] < c[2]}) < MaxTools}

\* _fit_tool_batch at the present time.
FitNow(calls, used) == IF Reserve(TRUE, TRUE, FALSE) = "time" THEN {} ELSE FirstOf(calls, used)

\* guard_tool_turn, without the count of repeated calls.
GuardPasses(requested) == requested # "time" /\ Reserve(FALSE, TRUE, FALSE) = "none"

\* record_tool_usage: the count is committed, then compared with its limit.
RecordTools(n, next) ==
  /\ row' = [row EXCEPT !.tools = @ + n]
  /\ IF row.tools + n > MaxTools THEN EndWith("FAILED")
     ELSE pc' = next /\ UNCHANGED work

----------------------------------------------------------------------------
(* Resume *)

\* The latest checkpoint is loaded, or a new one is seeded.
Start ==
  /\ pc = "start"
  /\ IF ckpts = <<>> THEN Write(Checkpoint({}, row.steps, row.tools)) ELSE UNCHANGED ckpts
  /\ pc' = "repair" /\ work' = [Fresh EXCEPT !.twice = repeated]
  /\ UNCHANGED <<log, repeated, row, done, wait>> /\ Keep

\* The tool-call count of a turn once all its calls are answered.
Watermark(t) == log[t].base + Cardinality(FirstOf(CallsAt(t), log[t].base) \ Refused(t))

\* Slip: no repair.
NoRepair == 0

\* _resume_pending_tools, first part: the history is adopted, and the usage of a turn
\* that is answered in full is brought up to its watermark.
Missing ==
  LET t == TurnAt(Len(log))
  IN  IF HasControls(t) /\ CallsAt(t) \subseteq Answered(t, Len(log)) /\ Watermark(t) > row.tools
      THEN Watermark(t) - row.tools ELSE 0

Repair ==
  /\ pc = "repair"
  /\ RecordTools(Missing, "resume")
  /\ UNCHANGED <<log, repeated, ckpts, done, wait>> /\ Keep

\* Slip: a batch is dispatched again at the current step.
CurrentKey(adopted, c) == row.steps

\* The step number in the idempotency keys of a batch that is dispatched again.
BatchKey(adopted, c) == IF adopted THEN row.steps ELSE c.steps

\* What the resume finds.  own: the checkpoint's pending calls; turn: those that only
\* its conversation holds; adopted: the log holds model output after it.
Found ==
  LET c == Latest
      t == TurnAt(Len(log))
      s == TurnAt(c.through)
      adopted == \E i \in (c.through + 1)..Len(log) : IsTurn(i) \/ Is("reply", i)
      turn == IF c.pending # {} \/ CallsAt(s) \subseteq Answered(s, c.through) THEN {} ELSE CallsAt(s)
      latest == CallsAt(t)
  IN  [adopted |-> adopted,
       calls |-> IF adopted THEN latest ELSE IF turn # {} THEN turn ELSE c.pending,
       guarded |-> Answered(t, Len(log)) = {} /\ (IF adopted THEN latest # {} ELSE turn # {}),
       answered |-> Answered(t, Len(log)),
       refused |-> Refused(t),
       requested |-> IF HasControls(t) THEN log[t].reserve ELSE "none",
       base |-> IF ~adopted THEN c.tools ELSE IF HasControls(t) THEN log[t].base ELSE row.tools,
       key |-> BatchKey(adopted, c)]

\* _resolved_approval_calls
Decided ==
  IF Latest.approval /\ wait.for = "approval" /\ wait.over THEN {wait.key[2]} ELSE {}

\* Slip: a call with a result is refused as well.
RefuseAll(f, fitted) == (f.calls \ fitted) \ Decided

LateRefusals(f, fitted) == ((f.calls \ fitted) \ Decided) \ f.answered

\* _fit_resumed_batch: the calls to dispatch again, and those to refuse.
Refit(f) ==
  LET fitted == FitNow(f.calls, f.base)
  IN  [batch |-> FirstOf(f.calls, f.base) \cap ((fitted \cup Decided \cup f.answered) \ f.refused),
       refused |-> LateRefusals(f, fitted)]

\* _resume_pending_tools, second part, up to the recall.
Resume ==
  /\ pc = "resume"
  /\ LET f == Found
         r == Refit(f)
         left == IF f.adopted THEN r.batch \ f.answered ELSE r.batch
         extra == LET n == f.base + Cardinality(r.batch) IN IF n > row.tools THEN n - row.tools ELSE 0
     IN  \/ /\ f.guarded
            /\ EndWith("FAILED")            \* also a call repeated too often
            /\ UNCHANGED log
         \/ /\ f.guarded => GuardPasses(f.requested)
            /\ Refuse(r.refused)
            /\ work' = [work EXCEPT !.batch = r.batch, !.todo = r.batch, !.key = f.key, !.base = f.base,
                                    !.owed = IF f.adopted THEN "extra" ELSE "reconcile",
                                    !.extra = extra, !.known = f.answered]
            /\ pc' = IF left # {} THEN "recall" ELSE IF f.adopted THEN "settle" ELSE "loop"
  /\ UNCHANGED <<repeated, row, ckpts, done, wait>> /\ Keep

\* The adopted turn is answered: its usage is recorded, and a reply completes the run.
Settle ==
  /\ pc = "settle"
  /\ row' = [row EXCEPT !.tools = @ + work.extra]
  /\ IF row.tools + work.extra > MaxTools THEN EndWith("FAILED")
     ELSE IF Answers(TurnAt(Len(log))) THEN EndWith("COMPLETED")
     ELSE pc' = "loop" /\ UNCHANGED work
  /\ UNCHANGED <<log, repeated, ckpts, done, wait>> /\ Keep

----------------------------------------------------------------------------
(* The batch *)

\* prepare_recall may write a checkpoint; the batch still belongs to its proposing step.
Recall ==
  /\ pc = "recall"
  /\ WriteExtra(Checkpoint(work.batch, work.key, work.base))
  /\ pc' = "dispatch"
  /\ UNCHANGED <<log, repeated, row, done, wait, work, time, crashes, losses, parks>>

\* dispatch takes the calls in the order of the batch.
IsNext(c) == c \in work.todo /\ \A d \in work.todo : c[2] <= d[2]

HasResult(c) == \E i \in DOMAIN log : Is("result", i) /\ log[i].call = c

\* The call returns.  Its result joins the conversation, unless the resume found one there.
Return(c) ==
  work' = [work EXCEPT !.todo = @ \ {c},
                       !.twice = IF HasResult(c) /\ c \notin work.known THEN @ \cup {c} ELSE @]

\* A result event, in the log if it is the call's first.
LogResult(c, by) ==
  /\ log' = IF HasResult(c) THEN log ELSE Append(log, Result(c, by))
  /\ repeated' = IF HasResult(c) THEN repeated \cup {c} ELSE repeated

\* What refused the call at an earlier dispatch, if anything did, is gone.
Pardoned(c) ==
  \A i \in DOMAIN log : log[i] = Result(c, "refusal") => Refusals = "passing"

\* A call that is settled under its key returns the recorded outcome, any other is
\* performed (or denied) and its result logged.
Call(c) ==
  /\ pc = "dispatch" /\ time # "over" /\ IsNext(c)
  /\ Return(c)
  /\ LET key == <<work.key, c>>
     IN  IF key \in done
         THEN UNCHANGED <<log, repeated, done, wait>>
         ELSE /\ Pardoned(c)
              /\ wait.key = key => wait.over
              /\ done' = done \cup {key}
              /\ LogResult(c, "tool")
              /\ wait' = IF wait.key = key THEN NoWait ELSE wait
  /\ UNCHANGED <<row, ckpts, pc>> /\ Keep

\* _refusal: a call of an unknown or disabled tool, with bad arguments or without its
\* scopes, or one whose like (or itself) has an unknown outcome, gets a result and no
\* invocation, whenever it is dispatched.  A question is refused for good.
Refusal(c) ==
  /\ Refusals # "none" /\ pc = "dispatch" /\ time # "over" /\ IsNext(c)
  /\ wait.key = <<work.key, c>> => Refusals = "passing" /\ wait.for # "user"
  /\ Return(c)
  /\ LogResult(c, "refusal")
  /\ UNCHANGED <<row, ckpts, done, wait, pc>> /\ Keep

\* A call needs an approval or the owner's answer.  The loop and the resume write the
\* same checkpoint.
Suspend(c, for) ==
  /\ pc = "dispatch" /\ time # "over" /\ IsNext(c) /\ <<work.key, c>> \notin done /\ Pardoned(c)
  /\ wait' = [key |-> <<work.key, c>>, for |-> for, over |-> FALSE]
  /\ \/ /\ wait.key # <<work.key, c>> /\ parks < MaxParks
        /\ for = "user" => ~HasResult(c) /\ (LoneQuestions => log[c[1]].calls = 1)
        /\ parks' = parks + 1
     \/ wait' = wait /\ UNCHANGED parks
  /\ pc' = "suspend"
  /\ UNCHANGED <<log, repeated, row, ckpts, done, work, time, crashes, losses, extras>>

SaveSuspension ==
  /\ pc = "suspend"
  /\ Write([Checkpoint(work.batch, row.steps, row.tools) EXCEPT !.approval = (wait.for = "approval")])
  /\ EndWith("SUSPENDED")
  /\ UNCHANGED <<log, repeated, row, done, wait>> /\ Keep

\* The usage of a batch is recorded once all its calls have returned.
Usage ==
  /\ pc = "dispatch" /\ work.todo = {}
  /\ LET n == Cardinality(work.batch)
     IN  \/ work.owed = "all" /\ RecordTools(n, "save")
         \/ work.owed = "extra" /\ RecordTools(work.extra, "save")
         \/ work.owed = "reconcile" /\ row.tools = work.base /\ RecordTools(n, "save")
         \/ work.owed = "reconcile" /\ row.tools = work.base + n /\ n > 0 /\ RecordTools(0, "save")
         \/ /\ work.owed = "reconcile" /\ row.tools \notin {work.base, work.base + n}
            /\ EndWith("FAILED") /\ UNCHANGED row
  /\ UNCHANGED <<log, repeated, ckpts, done, wait>> /\ Keep

SaveBatch ==
  /\ pc = "save"
  /\ Write(Checkpoint({}, row.steps, row.tools))
  /\ \/ pc' = "loop" /\ work' = [Fresh EXCEPT !.twice = work.twice]
     \/ work.owed = "all" /\ EndWith("FAILED")      \* an action denied too often
  /\ UNCHANGED <<log, repeated, row, done, wait>> /\ Keep

----------------------------------------------------------------------------
(* The loop *)

Step ==
  /\ pc = "loop"
  /\ IF time = "over" \/ row.steps >= MaxSteps
     THEN EndWith("FAILED") /\ UNCHANGED row
     ELSE /\ row' = [row EXCEPT !.steps = @ + 1]
          /\ work' = [Fresh EXCEPT !.reserve = Reserve(TRUE, FALSE, FALSE), !.twice = work.twice]
          /\ pc' = "build"
  /\ UNCHANGED <<log, repeated, ckpts, done, wait>> /\ Keep

\* validate_tool_pairs: every call of the conversation has one result.
OneResultEach ==
  /\ \A i, j \in DOMAIN log :
       Is("result", i) /\ Is("result", j) /\ log[i].call = log[j].call => i = j
  /\ \A t \in DOMAIN log : CallsAt(t) \subseteq Answered(t, Len(log))

PairsMatch == work.twice = {} /\ OneResultEach

\* build_with_pressure: a recall or a compaction writes a checkpoint.
Build ==
  /\ pc = "build"
  /\ WriteExtra(Checkpoint({}, row.steps, row.tools))
  /\ IF PairsMatch THEN pc' = "ask" /\ UNCHANGED work ELSE EndWith("FAILED")
  /\ UNCHANGED <<log, repeated, row, done, wait, time, crashes, losses, parks>>

\* An attempt of _invoke_model: no answer, or a response of n calls.
Refusing == time = "over" \/ row.models >= MaxModels

AskFails ==
  /\ pc = "ask"
  /\ \/ EndWith("FAILED") /\ UNCHANGED row          \* over the budget, or a broken stream
     \/ /\ ~Refusing
        /\ row' = [row EXCEPT !.models = @ + 1]
        /\ IF work.attempt + 1 < MaxAttempts
           THEN pc' = "ask" /\ work' = [work EXCEPT !.attempt = @ + 1]
           ELSE EndWith("FAILED")
  /\ UNCHANGED <<log, repeated, ckpts, done, wait>> /\ Keep

Ask(n, answer) ==
  /\ pc = "ask" /\ ~Refusing
  /\ (n > 0) = (answer = "tools")
  /\ LET reserve == IF work.reserve # "none" THEN work.reserve ELSE Reserve(TRUE, TRUE, TRUE)
     IN  log' = Append(log, [type |-> "response", calls |-> n, base |-> row.tools,
                                reserve |-> reserve, step |-> row.steps])
  /\ work' = [work EXCEPT !.attempt = @ + 1, !.answer = answer]
  /\ pc' = "charge"
  /\ UNCHANGED <<repeated, row, ckpts, done, wait>> /\ Keep

\* record_model_usage; its tokens or its cost may be the ones that exceed the limit.
Charge ==
  /\ pc = "charge"
  /\ row' = [row EXCEPT !.models = @ + 1]
  /\ \/ EndWith("FAILED")
     \/ /\ ~(work.answer = "tools" /\ log[Len(log)].reserve = "time")
        /\ \/ work.answer # "empty" /\ pc' = "respond"
           \/ work.answer = "empty" /\ work.attempt < MaxAttempts /\ pc' = "ask"
        /\ UNCHANGED work
  /\ UNCHANGED <<log, repeated, ckpts, done, wait>> /\ Keep

Respond ==
  /\ pc = "respond" /\ time # "over"
  /\ Write(Checkpoint({}, row.steps, row.tools))
  /\ pc' = IF work.answer = "tools" THEN "fit" ELSE "reply"
  /\ UNCHANGED <<log, repeated, row, done, wait, work>> /\ Keep

Fit ==
  /\ pc = "fit"
  /\ LET calls == CallsAt(Len(log))
         batch == FitNow(calls, row.tools)
     IN  \/ EndWith("FAILED") /\ UNCHANGED log      \* the guard, or a call repeated too often
         \/ /\ GuardPasses("none")
            /\ Refuse(calls \ batch)
            /\ work' = [work EXCEPT !.batch = batch, !.todo = batch, !.key = row.steps, !.base = row.tools]
            /\ pc' = "pend"
  /\ UNCHANGED <<repeated, row, ckpts, done, wait>> /\ Keep

Pend ==
  /\ pc = "pend"
  /\ Write(Checkpoint(work.batch, row.steps, row.tools))
  /\ pc' = IF work.batch = {} THEN "loop" ELSE "recall"
  /\ UNCHANGED <<log, repeated, row, done, wait, work>> /\ Keep

\* complete_reply
Reply ==
  /\ pc = "reply"
  /\ log' = Append(log, [type |-> "reply"])
  /\ EndWith("COMPLETED")
  /\ UNCHANGED <<repeated, row, ckpts, done, wait>> /\ Keep

\* The token is cancelled, by request or by the deadline.
Cancelled ==
  /\ pc \in {"loop", "respond", "recall", "dispatch"}
  /\ EndWith(IF time = "over" THEN "FAILED" ELSE "CANCELLED")
  /\ UNCHANGED durable /\ Keep

\* finalize: the outcome and a last checkpoint in one transaction.  Nobody reads that
\* of an ended run.
Finalize ==
  /\ pc = "end"
  /\ IF work.outcome = "SUSPENDED"
     THEN Write([Latest EXCEPT !.through = Len(log)]) /\ pc' = "parked"
     ELSE UNCHANGED ckpts /\ pc' = work.outcome
  /\ work' = Fresh
  /\ UNCHANGED <<log, repeated, row, done, wait>> /\ Keep

----------------------------------------------------------------------------
(* The environment *)

\* The approval is resolved.
Resolve ==
  /\ pc = "parked" /\ wait.for = "approval"
  /\ wait' = [wait EXCEPT !.over = TRUE]
  /\ pc' = "start"
  /\ UNCHANGED <<log, repeated, row, ckpts, done, work>> /\ Keep

\* _deliver_input_in: the message, the result of the question and a checkpoint in
\* which the question is no longer pending.
Answer ==
  /\ pc = "parked" /\ wait.for = "user" /\ time # "over"
  /\ log' = log \o <<[type |-> "user"], Result(wait.key[2], "owner")>>
  /\ done' = done \cup {wait.key}
  /\ Write([Latest EXCEPT !.through = Len(log) + 2, !.pending = @ \ {wait.key[2]}])
  /\ wait' = NoWait
  /\ pc' = "start"
  /\ UNCHANGED <<repeated, row, work>> /\ Keep

CancelParked ==
  /\ pc = "parked"
  /\ pc' = "CANCELLED"
  /\ UNCHANGED <<durable, work>> /\ Keep

Crash ==
  /\ pc \in Running /\ crashes < MaxCrashes
  /\ crashes' = crashes + 1
  /\ pc' = "start" /\ work' = Fresh
  /\ UNCHANGED <<durable, time, losses, parks, extras>>

\* Checkpoints written last are gone when the run is taken up again.
Lose ==
  /\ pc = "start" /\ losses < MaxLosses
  /\ \E n \in 0..(Len(ckpts) - 1) : ckpts' = SubSeq(ckpts, 1, n)
  /\ losses' = losses + 1
  /\ UNCHANGED <<log, repeated, row, done, wait, time, pc, work, crashes, parks, extras>>

Pass ==
  /\ time # "over" /\ pc \notin Terminal
  /\ time' = IF time = "early" THEN "final" ELSE "over"
  /\ UNCHANGED <<durable, pc, work, bounds>>

Rest == pc \in Terminal /\ UNCHANGED vars

Worker ==
  \/ Start \/ Repair \/ Resume \/ Settle \/ Recall \/ SaveSuspension \/ Usage \/ SaveBatch
  \/ Step \/ Build \/ AskFails \/ Charge \/ Respond \/ Fit \/ Pend \/ Reply \/ Cancelled \/ Finalize
  \/ \E c \in work.todo : Call(c) \/ Refusal(c) \/ \E for \in Waits : Suspend(c, for)
  \/ \E n \in 0..MaxBatch, answer \in {"tools", "text", "empty"} : Ask(n, answer)

Next == Worker \/ Resolve \/ Answer \/ CancelParked \/ Crash \/ Lose \/ Pass \/ Rest

Spec == Init /\ [][Next]_vars

----------------------------------------------------------------------------
(* Properties *)

\* Nothing is done twice, whatever the crash and whatever checkpoints are lost: a call
\* is settled under one key, however often it is dispatched again, and while no
\* checkpoint is lost the run replies once (_resume_pending_tools).
WorkIsDoneOnce ==
  /\ \A a, b \in done : a[2] = b[2] => a = b
  /\ losses = 0 => Cardinality({i \in DOMAIN log : Is("reply", i)}) <= 1

\* Whenever the context of a step is built, every call of the conversation has one
\* result, so that no resumed run is refused by validate_tool_pairs.
RequestAssembles == pc = "build" => PairsMatch

\* Whatever crashes, losses and suspensions came before, a step whose context
\* validate_tool_pairs refuses is one of a run in which a refused call was dispatched
\* again (_refusal): every call has a result, the budget refuses none that has one, and
\* the conversation holds two only of a call whose result was logged again.
OnlyRefusalsRepeat == pc = "build" => OneResultEach /\ work.twice \subseteq repeated

By(who) == Cardinality({i \in DOMAIN log : Is("result", i) /\ log[i].by \in who})

\* When a step begins, the tool-call count covers every call performed or refused by the
\* pipeline, whatever crash or loss came before; and it counts no call twice, not even
\* one refused again, as long as every response proposed calls.  A question the owner
\* answers counts or does not.
\* (record_tool_usage, _resume_pending_tools)
UsageMatchesResults ==
  /\ pc = "build" => By({"tool", "refusal"}) <= row.tools
  /\ (\A i \in DOMAIN log : Is("response", i) => IsTurn(i)) =>
       row.tools <= By({"tool", "refusal", "owner"})

=============================================================================
