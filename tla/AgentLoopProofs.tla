-------------------------- MODULE AgentLoopProofs --------------------------
(***************************************************************************)
(* Proofs about AgentLoop: a run is resumed without repeating work, with a *)
(* conversation that can be sent, and with a tool-call count that neither  *)
(* forgets nor repeats a call, for every limit, batch size and number of   *)
(* crashes, lost checkpoints and suspensions.                              *)
(*                                                                         *)
(* Two invariants carry the proofs.  LoopInv says what the log, the        *)
(* checkpoints, the settled keys and the execution in memory know of one   *)
(* another: only the calls of the last response can be without a result,   *)
(* each checkpoint describes the batch of one response under its own step  *)
(* and count, and a settled key is that of the response's step.  What a    *)
(* resume finds (ResumeFinds) is then nothing, or the rest of that one     *)
(* batch.  UsageInv stands on LoopInv and bounds the tool-call count from  *)
(* both sides at every response and at every point of a step.              *)
(*                                                                         *)
(* Everything is proved under LoneQuestions and for refusals that last:    *)
(* without the one the statements are false, as the run AgentLoop_question *)
(* shows, and without the other a call refused for a while, then suspended *)
(* after its checkpoint was lost, is dispatched under another step.        *)
(***************************************************************************)
EXTENDS AgentLoop, FiniteSetTheorems, FunctionTheorems, WellFoundedInduction, TLAPS

-----------------------------------------------------------------------------
(* The inductive invariant *)

\* Has: the call has a result among the first n events.  Given: it has one.
Has(c, n) == \E i \in 1..n : Is("result", i) /\ log[i].call = c
Given(c) == Has(c, Len(log))
GivenBy(c, who) == \E i \in DOMAIN log : Is("result", i) /\ log[i].call = c /\ log[i].by \in who
Performed(c) == GivenBy(c, {"tool", "owner"})

\* The call fits the tool-call limit, from the count at its response.
Fits(c) == c \in FirstOf(CallsAt(c[1]), log[c[1]].base)

\* Up to n nothing but results and the owner's message follow the response, or
\* neither calls nor a reply do.
Undisturbed(t, n) == \A j \in (t + 1)..n : Is("result", j) \/ Is("user", j)
LastUpTo(t, n) == \A j \in (t + 1)..n : ~IsTurn(j) /\ ~Is("reply", j)
IsLast(t) == t \in DOMAIN log /\ IsTurn(t) /\ LastUpTo(t, Len(log))

ResultsBelong ==
  \A i \in DOMAIN log : Is("result", i) =>
    LET c == log[i].call
    IN  /\ c[1] \in 1..(i - 1) /\ c \in CallsAt(c[1])
        /\ Undisturbed(c[1], i - 1)
        /\ log[i].by # "budget" => Fits(c)

ResultsAreUnique ==
  \A i, j \in DOMAIN log :
    Is("result", i) /\ Is("result", j) /\ log[i].call = log[j].call => i = j

UsersAnswerOne ==
  \A i \in DOMAIN log : Is("user", i) =>
    /\ i + 1 \in DOMAIN log /\ Is("result", i + 1) /\ log[i + 1].by = "owner"
    /\ log[log[i + 1].call[1]].calls = 1

RepliesFollowText ==
  \A i \in DOMAIN log : Is("reply", i) =>
    i - 1 \in DOMAIN log /\ Is("response", i - 1) /\ ~IsTurn(i - 1)

LogInv == ResultsBelong /\ ResultsAreUnique /\ UsersAnswerOne /\ RepliesFollowText

\* Where a call may not be without its result.
Quiet == {"settle", "save", "loop", "build", "ask", "reply"}
AtBatch == {"pend", "recall", "dispatch", "suspend"}

\* A call without a result belongs to the last response, which the run is still at.
OpenInv ==
  \A t \in DOMAIN log : \A c \in CallsAt(t) : ~Given(c) =>
    /\ \A j \in (t + 1)..Len(log) : Is("result", j)
    /\ log[t].step = row.steps /\ log[t].base = row.tools
    /\ pc \notin Quiet
    /\ pc \in {"charge", "respond"} => work.answer = "tools"
    /\ pc \in AtBatch => c \in work.todo

\* The response that is being handled is the last event.
ResponseInv ==
  /\ pc \in {"charge", "respond"} => work.answer # "none"
  /\ pc \in {"charge", "respond", "fit", "reply"} => Len(log) > 0 /\ Is("response", Len(log))
  /\ pc \in {"charge", "respond"} => (IsTurn(Len(log)) <=> work.answer = "tools")
  /\ pc = "fit" => IsTurn(Len(log))
  /\ pc = "reply" => ~IsTurn(Len(log))

\* A call is settled under the step of its response, if it has been performed.
DoneInv ==
  /\ \A a \in done : a[2][1] \in DOMAIN log /\ a[1] = log[a[2][1]].step /\ Performed(a[2])
  /\ \A i \in DOMAIN log : Is("result", i) /\ log[i].by \in {"tool", "owner"} =>
       <<log[log[i].call[1]].step, log[i].call>> \in done

BatchInv ==
  /\ work.twice \subseteq repeated
  /\ pc \in AtBatch =>
       /\ work.todo \subseteq work.batch
       /\ pc # "pend" => work.batch # {}
       /\ \A c \in work.batch :
            /\ IsLast(c[1]) /\ Fits(c) /\ ~GivenBy(c, {"budget"})
            /\ work.key = log[c[1]].step /\ work.base = log[c[1]].base
            /\ \A d \in CallsAt(c[1]) : d \in work.batch \/ GivenBy(d, {"budget", "owner"})
       /\ \A c \in work.todo : Given(c) => c \in work.known
       /\ pc = "pend" => work.todo = work.batch /\ \A c \in work.todo : ~Given(c)

WaitInv ==
  wait.for # "none" =>
    LET c == wait.key[2]
    IN  /\ c[1] \in DOMAIN log /\ Fits(c) /\ wait.key[1] = log[c[1]].step
        /\ wait.for = "user" => log[c[1]].calls = 1

Suspending == pc \in {"suspend", "parked"} \/ work.outcome = "SUSPENDED"

SuspensionInv ==
  Suspending =>
    /\ wait.for # "none" /\ ~Given(wait.key[2])
    /\ pc = "suspend" => wait.key[2] \in work.batch
    /\ pc # "suspend" => Latest.through = Len(log)

\* What every checkpoint says of the batch it holds, or of the response it was
\* written for.
CheckpointFits(c) ==
  /\ c.through <= Len(log)
  /\ \A p \in c.pending :
       /\ p[1] \in 1..c.through /\ Fits(p) /\ LastUpTo(p[1], c.through)
       /\ c.steps = log[p[1]].step /\ c.tools = log[p[1]].base
       /\ \A d \in CallsAt(p[1]) : d \in c.pending \/ GivenBy(d, {"budget", "owner"})
  /\ c.pending = {} =>
       \A s \in 1..c.through : \A d \in CallsAt(s) :
         (\A j \in (s + 1)..c.through : ~IsTurn(j) /\ ~Is("user", j) /\ ~Is("reply", j)) /\ ~Has(d, c.through)
           => c.steps = log[s].step /\ c.tools = log[s].base

CheckpointInv ==
  /\ \A k \in DOMAIN ckpts : CheckpointFits(ckpts[k])
  /\ ckpts = <<>> => pc = "start" /\ (losses = 0 => log = <<>>)

\* A reply is the end of the log, and the checkpoints do not know of it.
ReplyInv ==
  losses = 0 =>
    \A i \in DOMAIN log : Is("reply", i) =>
      /\ i = Len(log) /\ Latest.through < i
      /\ pc \in {"start", "repair", "resume", "settle", "end"} \cup Terminal
      /\ work.outcome # "SUSPENDED"

LoopInv ==
  /\ TypeOK /\ LogInv /\ OpenInv /\ ResponseInv /\ DoneInv /\ BatchInv /\ WaitInv /\ SuspensionInv
  /\ CheckpointInv /\ ReplyInv

-----------------------------------------------------------------------------
(* Positions and events *)

Below == OpToRel(<, Nat)

\* A set of positions that is not empty has a last one.
LEMMA LatestExists ==
  ASSUME NEW n \in Nat, NEW S \in SUBSET (1..n), S # {}
  PROVE  LatestIn(S) \in S /\ \A j \in S : j <= LatestIn(S)
<1> DEFINE Gaps == {n - i : i \in S}
<1>0. \A i \in S : n - i \in Nat
  OBVIOUS
<1>1. Gaps \subseteq Nat /\ Gaps # {}
  BY <1>0
<1>2. PICK m \in Gaps : \A g \in Gaps : ~(<<g, m>> \in Below)
  <2>1. IsWellFoundedOn(Below, Nat)
    BY NatLessThanWellFounded DEF Below
  <2> QED BY <1>1, <2>1, WFMin
<1>3. \A g \in Nat : g < m => <<g, m>> \in Below
  BY <1>1 DEF Below, OpToRel
<1>4. \A g \in Gaps : ~(g < m)
  <2> HIDE DEF Gaps
  <2> QED BY <1>1, <1>2, <1>3, Zenon
<1>5. PICK i \in S : m = n - i
  OBVIOUS
<1>6. \A j \in S : n - j \in Gaps
  OBVIOUS
<1>7. \A j \in S : j <= i
  <2> HIDE DEF Gaps
  <2> QED BY <1>4, <1>5, <1>6
<1> QED BY <1>7 DEF LatestIn

\* An event is a response, a result, a message of the owner or a reply.
LEMMA EventKinds ==
  ASSUME log \in Seq(Event)
  PROVE  \A i \in DOMAIN log :
           /\ log[i] \in Event
           /\ Is("response", i) => log[i] \in Responses
           /\ Is("result", i) => log[i] \in Results
           /\ log[i].type \in {"response", "result", "user", "reply"}
<1> QED BY DEF Is, Event, Responses, Results

\* What _latest_turn finds among the first n events.
LEMMA TurnFound ==
  ASSUME log \in Seq(Event), NEW n \in 0..Len(log)
  PROVE  /\ TurnAt(n) \in 0..n
         /\ TurnAt(n) # 0 =>
              IsTurn(TurnAt(n)) \/ Is("user", TurnAt(n)) \/ Is("reply", TurnAt(n))
         /\ \A j \in (TurnAt(n) + 1)..n : ~IsTurn(j) /\ ~Is("user", j) /\ ~Is("reply", j)
<1> DEFINE S == {i \in 1..n : IsTurn(i) \/ Is("user", i) \/ Is("reply", i)}
<1>1. TurnAt(n) = LatestIn(S)
  BY DEF TurnAt
<1>2. CASE S = {}
  <2>1. TurnAt(n) = 0
    BY <1>1, <1>2 DEF LatestIn
  <2> QED BY <1>2, <2>1
<1>3. CASE S # {}
  <2>1. LatestIn(S) \in S /\ \A j \in S : j <= LatestIn(S)
    <3>1. S \in SUBSET (1..n) /\ n \in Nat
      OBVIOUS
    <3> HIDE DEF S
    <3> QED BY <1>3, <3>1, LatestExists
  <2>2. LatestIn(S) \in 1..n /\ n \in Nat
    BY <2>1
  <2>3. \A j \in (LatestIn(S) + 1)..n : j \notin S /\ j \in 1..n
    <3> HIDE DEF S
    <3> QED BY <2>1, <2>2
  <2> QED BY <1>1, <2>1, <2>2, <2>3
<1> QED BY <1>2, <1>3

\* _turn_controls finds the response if no other one follows.
LEMMA ControlsFound ==
  ASSUME log \in Seq(Event), NEW t \in DOMAIN log, CallsAt(t) # {}
  PROVE  HasControls(t) <=> \A j \in (t + 1)..Len(log) : ~Is("response", j)
<1> DEFINE S == {i \in DOMAIN log : Is("response", i)}
<1>1. t \in S /\ S \in SUBSET (1..Len(log)) /\ Len(log) \in Nat
  BY DEF CallsAt, IsTurn
<1>2. LatestIn(S) \in S /\ \A j \in S : j <= LatestIn(S)
  <2> HIDE DEF S
  <2> QED BY <1>1, LatestExists
<1>3. HasControls(t) <=> t = LatestIn(S)
  BY DEF HasControls
<1>4. (\A j \in (t + 1)..Len(log) : j \notin S) <=> t = LatestIn(S)
  <2> HIDE DEF S
  <2> QED BY <1>1, <1>2
<1>5. \A j \in (t + 1)..Len(log) : j \in S <=> Is("response", j)
  BY <1>1
<1> QED BY <1>3, <1>4, <1>5

LEMMA AnsweredMeans ==
  ASSUME log \in Seq(Event), NEW t \in 0..Len(log)
  PROVE  /\ \A n \in 0..Len(log) : \A c : c \in Answered(t, n) <=>
              \E j \in (t + 1)..n : Is("result", j) /\ log[j].call = c
         /\ \A c : c \in Refused(t) <=>
              \E j \in (t + 1)..Len(log) : Is("result", j) /\ log[j].call = c /\ log[j].by = "budget"
<1> QED BY DEF Answered, Refused, ResultsAfter

-----------------------------------------------------------------------------
(* Calls *)

LEMMA CallsOf ==
  ASSUME log \in Seq(Event), NEW t \in DOMAIN log
  PROVE  /\ \A c \in CallsAt(t) : c \in CallId /\ c[1] = t /\ IsTurn(t)
         /\ IsFiniteSet(CallsAt(t))
         /\ IsTurn(t) => <<t, 1>> \in CallsAt(t)
         /\ IsTurn(t) /\ log[t].calls = 1 => CallsAt(t) = {<<t, 1>>}
<1>1. IsTurn(t) => log[t].calls \in Nat /\ log[t].calls > 0
  BY EventKinds DEF IsTurn, Responses
<1>2. IsFiniteSet(CallsAt(t))
  <2>1. CASE IsTurn(t)
    <3>1. IsFiniteSet({t}) BY FS_Singleton
    <3>3. 1 \in Int /\ log[t].calls \in Int BY <1>1, <2>1
    <3>4. IsFiniteSet(1..log[t].calls) BY <3>3, FS_Interval
    <3>2. IsFiniteSet({t} \X (1..log[t].calls))
      BY <3>1, <3>4, FS_Product
    <3> QED BY <2>1, <3>2 DEF CallsAt
  <2>2. CASE ~IsTurn(t)
    BY <2>2, FS_EmptySet DEF CallsAt
  <2> QED BY <2>1, <2>2
<1>3. \A c \in CallsAt(t) : c \in CallId /\ c[1] = t /\ IsTurn(t)
  BY <1>1 DEF CallsAt, CallId
<1>4. IsTurn(t) => <<t, 1>> \in CallsAt(t)
  BY <1>1 DEF CallsAt
<1>5. IsTurn(t) /\ log[t].calls = 1 => CallsAt(t) = {<<t, 1>>}
  <2> SUFFICES ASSUME IsTurn(t), log[t].calls = 1 PROVE CallsAt(t) = {<<t, 1>>}
    OBVIOUS
  <2>1. CallsAt(t) = {t} \X (1..1)
    BY DEF CallsAt
  <2> QED BY <2>1
<1> QED BY <1>2, <1>3, <1>4, <1>5

\* A call that fits a batch fits every part of the batch.
LEMMA FitsPart ==
  ASSUME NEW X, NEW Y, IsFiniteSet(Y), X \subseteq Y, NEW used \in Nat,
         NEW c \in X, c \in FirstOf(Y, used), MaxTools \in Nat
  PROVE  c \in FirstOf(X, used)
<1> DEFINE A == {d \in X : d[2] < c[2]}
           B == {d \in Y : d[2] < c[2]}
<1>1. A \subseteq B /\ B \subseteq Y
  OBVIOUS
<1>2. IsFiniteSet(B)
  <2> HIDE DEF A, B
  <2> QED BY <1>1, FS_Subset
<1>3. IsFiniteSet(A) /\ Cardinality(A) <= Cardinality(B)
  <2> HIDE DEF A, B
  <2> QED BY <1>1, <1>2, FS_Subset
<1>4. Cardinality(A) \in Nat /\ Cardinality(B) \in Nat
  <2> HIDE DEF A, B
  <2> QED BY <1>2, <1>3, FS_CardinalityType
<1>5. used + Cardinality(B) < MaxTools
  BY DEF FirstOf
<1>6. used + Cardinality(A) < MaxTools
  <2> HIDE DEF A, B
  <2> QED BY <1>3, <1>4, <1>5
<1> QED BY <1>6 DEF FirstOf

-----------------------------------------------------------------------------
(* The log grows *)

Grew ==
  /\ log \in Seq(Event) /\ log' \in Seq(Event)
  /\ Len(log) <= Len(log') /\ \A i \in 1..Len(log) : log'[i] = log[i]

\* What is known of the events that were there stays.
LEMMA GrewKeeps ==
  ASSUME Grew
  PROVE  /\ \A i \in 1..Len(log) : /\ i \in DOMAIN log /\ i \in DOMAIN log' /\ log'[i] = log[i]
                                   /\ IsTurn(i)' <=> IsTurn(i)
                                   /\ CallsAt(i)' = CallsAt(i)
                                   /\ \A type : Is(type, i)' <=> Is(type, i)
         /\ \A c : c[1] \in 1..Len(log) => (Fits(c)' <=> Fits(c))
         /\ \A n \in 0..Len(log) : \A c : Has(c, n)' <=> Has(c, n)
         /\ \A c : Given(c) => Given(c)'
         /\ \A c, who : GivenBy(c, who) => GivenBy(c, who)'
         /\ \A t \in Nat, n \in 0..Len(log) :
              (Undisturbed(t, n)' <=> Undisturbed(t, n)) /\ (LastUpTo(t, n)' <=> LastUpTo(t, n))
<1>0. /\ Len(log) \in Nat /\ Len(log') \in Nat /\ Len(log) <= Len(log')
      /\ DOMAIN log = 1..Len(log) /\ DOMAIN log' = 1..Len(log')
      /\ \A i \in 1..Len(log) : i \in 1..Len(log') /\ log'[i] = log[i]
  BY DEF Grew
<1>1. \A i \in 1..Len(log) : \A type : Is(type, i)' <=> Is(type, i)
  BY <1>0 DEF Is
<1>2. \A i \in 1..Len(log) : IsTurn(i)' <=> IsTurn(i)
  BY <1>0 DEF Is, IsTurn
<1>3. \A i \in 1..Len(log) : CallsAt(i)' = CallsAt(i)
  BY <1>0, <1>2 DEF CallsAt
<1>4. \A c : c[1] \in 1..Len(log) => (Fits(c)' <=> Fits(c))
  BY <1>0, <1>3 DEF Fits, FirstOf
<1>5. \A n \in 0..Len(log) : \A c : Has(c, n)' <=> Has(c, n)
  <2> TAKE n \in 0..Len(log)
  <2>1. \A i \in 1..n : i \in 1..Len(log)
    BY <1>0
  <2> QED BY <1>0, <1>1, <2>1 DEF Has
<1>6. \A c : Given(c) => Given(c)'
  BY <1>0, <1>1 DEF Given, Has
<1>7. \A c, who : GivenBy(c, who) => GivenBy(c, who)'
  BY <1>0, <1>1 DEF GivenBy
<1>8. \A t \in Nat, n \in 0..Len(log) :
        (Undisturbed(t, n)' <=> Undisturbed(t, n)) /\ (LastUpTo(t, n)' <=> LastUpTo(t, n))
  <2> TAKE t \in Nat, n \in 0..Len(log)
  <2>1. \A i \in (t + 1)..n : i \in 1..Len(log)
    BY <1>0
  <2> QED BY <1>1, <1>2, <2>1 DEF Undisturbed, LastUpTo
<1> QED BY <1>0, <1>1, <1>2, <1>3, <1>4, <1>5, <1>6, <1>7, <1>8

LEMMA SameGrew ==
  ASSUME TypeOK, UNCHANGED log
  PROVE  Grew /\ Len(log') = Len(log)
<1> QED BY DEF TypeOK, Grew

LEMMA SameLog ==
  ASSUME UNCHANGED log
  PROVE  /\ LogInv => LogInv'
         /\ \A c : Given(c)' <=> Given(c)
         /\ \A c, who : GivenBy(c, who)' <=> GivenBy(c, who)
         /\ \A c : Fits(c)' <=> Fits(c)
         /\ \A t : (IsLast(t)' <=> IsLast(t)) /\ CallsAt(t)' = CallsAt(t)
<1>1. \A c : (Given(c)' <=> Given(c)) /\ (Fits(c)' <=> Fits(c))
  BY DEF Given, Has, Fits, FirstOf, CallsAt, IsTurn, Is
<1>2. \A c, who : GivenBy(c, who)' <=> GivenBy(c, who)
  BY DEF GivenBy, Is
<1>3. \A t : (IsLast(t)' <=> IsLast(t)) /\ CallsAt(t)' = CallsAt(t)
  BY DEF IsLast, LastUpTo, IsTurn, CallsAt, Is
<1>4. LogInv => LogInv'
  <2>1. ASSUME ResultsBelong PROVE ResultsBelong'
    <3>1. \A t, n : Undisturbed(t, n)' <=> Undisturbed(t, n)
      BY DEF Undisturbed, Is
    <3>2. \A i : Is("result", i)' <=> Is("result", i)
      BY DEF Is
    <3> QED BY <1>1, <1>3, <2>1, <3>1, <3>2 DEF ResultsBelong
  <2>2. ResultsAreUnique => ResultsAreUnique'
    BY DEF ResultsAreUnique, Is
  <2>3. UsersAnswerOne => UsersAnswerOne'
    BY DEF UsersAnswerOne, Is
  <2>4. RepliesFollowText => RepliesFollowText'
    BY DEF RepliesFollowText, IsTurn, Is
  <2> QED BY <2>1, <2>2, <2>3, <2>4 DEF LogInv
<1> QED BY <1>1, <1>2, <1>3, <1>4

\* The results of calls that had none follow the response of those calls.
LEMMA ResultsAppended ==
  ASSUME LogInv, Grew, NEW t \in DOMAIN log, Undisturbed(t, Len(log)),
         \A i \in (Len(log) + 1)..Len(log') :
           /\ log'[i] \in Results /\ log'[i].call \in CallsAt(t) /\ ~Given(log'[i].call)
           /\ log'[i].by # "budget" => Fits(log'[i].call),
         \A i, j \in (Len(log) + 1)..Len(log') : log'[i].call = log'[j].call => i = j
  PROVE  LogInv'
<1>0. /\ Len(log) \in Nat /\ Len(log') \in Nat /\ Len(log) <= Len(log')
      /\ DOMAIN log = 1..Len(log) /\ DOMAIN log' = 1..Len(log') /\ log \in Seq(Event)
  BY DEF Grew
<1>1. \A i \in DOMAIN log' : i \in DOMAIN log \/ i \in (Len(log) + 1)..Len(log')
  BY <1>0
<1>2. \A i \in (Len(log) + 1)..Len(log') : log'[i].type = "result"
  BY DEF Results
<1>3. \A i \in DOMAIN log : log'[i] = log[i] /\ \A type : Is(type, i)' <=> Is(type, i)
  BY <1>0, GrewKeeps
<1>4. ResultsBelong'
  <2> SUFFICES ASSUME NEW i \in DOMAIN log', Is("result", i)',
                      NEW c, c = log'[i].call
               PROVE  /\ c[1] \in 1..(i - 1) /\ c \in CallsAt(c[1])'
                      /\ Undisturbed(c[1], i - 1)'
                      /\ log'[i].by # "budget" => Fits(c)'
    BY DEF ResultsBelong
  <2>1. CASE i \in DOMAIN log
    <3>1. /\ c[1] \in 1..(i - 1) /\ c \in CallsAt(c[1]) /\ Undisturbed(c[1], i - 1)
          /\ log[i].by # "budget" => Fits(c)
      BY <1>3, <2>1 DEF LogInv, ResultsBelong
    <3>2. c[1] \in 1..Len(log) /\ c[1] \in Nat /\ i - 1 \in 0..Len(log)
      BY <1>0, <2>1, <3>1
    <3> QED BY <1>3, <2>1, <3>1, <3>2, GrewKeeps
  <2>2. CASE i \in (Len(log) + 1)..Len(log')
    <3>1. c \in CallsAt(t) /\ c[1] = t /\ t \in 1..Len(log)
      BY <1>0, <2>2, CallsOf
    <3>2. \A j \in (t + 1)..(i - 1) : j \in (t + 1)..Len(log) \/ j \in (Len(log) + 1)..Len(log')
      BY <1>0, <2>2, <3>1
    <3>3. \A j \in (t + 1)..Len(log) : Is("result", j)' \/ Is("user", j)'
      <4> TAKE j \in (t + 1)..Len(log)
      <4>1. j \in DOMAIN log BY <1>0, <3>1
      <4> QED BY <1>3, <4>1 DEF Undisturbed
    <3>4. Undisturbed(t, i - 1)'
      BY <1>2, <3>2, <3>3 DEF Undisturbed, Is
    <3>5. c \in CallsAt(c[1])' /\ (log'[i].by # "budget" => Fits(c)')
      BY <2>2, <3>1, GrewKeeps
    <3>6. c[1] \in 1..(i - 1)
      BY <1>0, <2>2, <3>1
    <3> QED BY <3>1, <3>4, <3>5, <3>6
  <2> QED BY <1>1, <2>1, <2>2
<1>5. ResultsAreUnique'
  <2> SUFFICES ASSUME NEW i \in DOMAIN log', NEW j \in DOMAIN log', Is("result", i)', Is("result", j)',
                      log'[i].call = log'[j].call
               PROVE  i = j
    BY DEF ResultsAreUnique
  <2>1. CASE i \in DOMAIN log /\ j \in DOMAIN log
    BY <1>3, <2>1 DEF LogInv, ResultsAreUnique
  <2>2. CASE i \in (Len(log) + 1)..Len(log') /\ j \in (Len(log) + 1)..Len(log')
    BY <2>2
  <2>3. \A k \in DOMAIN log : Is("result", k)' => Given(log'[k].call)
    BY <1>0, <1>3 DEF Given, Has
  <2> QED BY <1>1, <2>1, <2>2, <2>3
<1>6. UsersAnswerOne'
  <2> SUFFICES ASSUME NEW i \in DOMAIN log', Is("user", i)'
               PROVE  /\ i + 1 \in DOMAIN log' /\ Is("result", i + 1)' /\ log'[i + 1].by = "owner"
                      /\ log'[log'[i + 1].call[1]].calls = 1
    BY DEF UsersAnswerOne
  <2>1. i \in DOMAIN log /\ Is("user", i)
    BY <1>1, <1>2, <1>3 DEF Is
  <2>2. /\ i + 1 \in DOMAIN log /\ Is("result", i + 1) /\ log[i + 1].by = "owner"
        /\ log[log[i + 1].call[1]].calls = 1
    BY <2>1 DEF LogInv, UsersAnswerOne
  <2>3. log[i + 1].call[1] \in DOMAIN log
    BY <1>0, <2>2 DEF LogInv, ResultsBelong
  <2> QED BY <1>0, <1>3, <2>2, <2>3
<1>7. RepliesFollowText'
  <2> SUFFICES ASSUME NEW i \in DOMAIN log', Is("reply", i)'
               PROVE  i - 1 \in DOMAIN log' /\ Is("response", i - 1)' /\ ~IsTurn(i - 1)'
    BY DEF RepliesFollowText
  <2>1. i \in DOMAIN log /\ Is("reply", i)
    BY <1>1, <1>2, <1>3 DEF Is
  <2>2. i - 1 \in DOMAIN log /\ Is("response", i - 1) /\ ~IsTurn(i - 1)
    BY <2>1 DEF LogInv, RepliesFollowText
  <2> QED BY <1>0, <1>3, <2>2, GrewKeeps
<1> QED BY <1>4, <1>5, <1>6, <1>7 DEF LogInv

LEMMA OneAppended ==
  ASSUME log \in Seq(Event), NEW e \in Event, log' = Append(log, e)
  PROVE  Grew /\ Len(log') = Len(log) + 1 /\ log'[Len(log) + 1] = e
<1> QED BY DEF Grew

LEMMA TwoAppended ==
  ASSUME log \in Seq(Event), NEW d \in Event, NEW e \in Event, log' = log \o <<d, e>>
  PROVE  /\ Grew /\ Len(log') = Len(log) + 2
         /\ log'[Len(log) + 1] = d /\ log'[Len(log) + 2] = e
<1>1. <<d, e>> \in Seq(Event) /\ Len(<<d, e>>) = 2
  OBVIOUS
<1>2. log' \in Seq(Event) /\ Len(log') = Len(log) + 2
  BY <1>1
<1>3. \A i \in 1..Len(log) : log'[i] = log[i]
  BY <1>1
<1>4. log'[Len(log) + 1] = d /\ log'[Len(log) + 2] = e
  BY <1>1
<1> QED BY <1>2, <1>3, <1>4 DEF Grew

\* Each of the refused calls has a result, and one only.
LEMMA RefusalsAppended ==
  ASSUME log \in Seq(Event), NEW calls \in SUBSET CallId, Refuse(calls), MaxBatch \in Nat
  PROVE  /\ Grew
         /\ \A i \in (Len(log) + 1)..Len(log') :
              log'[i] \in Results /\ log'[i].call \in calls /\ log'[i].by = "budget"
         /\ \A i, j \in (Len(log) + 1)..Len(log') : log'[i].call = log'[j].call => i = j
         /\ \A c \in calls : Given(c)' /\ GivenBy(c, {"budget"})'
         /\ calls = {} => log' = log
<1>0. PICK n \in 0..MaxBatch :
        \E order \in [1..n -> calls] :
          /\ calls = {order[i] : i \in 1..n}
          /\ \A i, j \in 1..n : i < j => order[i][2] < order[j][2]
          /\ log' = log \o [i \in 1..n |-> Result(order[i], "budget")]
  BY DEF Refuse
<1>1. PICK order \in [1..n -> calls] :
        /\ calls = {order[i] : i \in 1..n}
        /\ \A i, j \in 1..n : i < j => order[i][2] < order[j][2]
        /\ log' = log \o [i \in 1..n |-> Result(order[i], "budget")]
  BY <1>0
<1> DEFINE added == [i \in 1..n |-> Result(order[i], "budget")]
<1>2. n \in Nat /\ Len(log) \in Nat
  OBVIOUS
<1>3. \A i \in 1..n : Result(order[i], "budget") \in Results /\ Result(order[i], "budget").call = order[i]
                      /\ Result(order[i], "budget").by = "budget"
  BY DEF Result, Results
<1>4. added \in Seq(Event) /\ Len(added) = n /\ \A i \in 1..n : added[i] = Result(order[i], "budget")
  <2>1. \A i \in 1..n : Result(order[i], "budget") \in Event
    BY <1>3 DEF Event
  <2> QED BY <1>2, <2>1
<1>5. /\ log' \in Seq(Event) /\ Len(log') = Len(log) + n
      /\ \A i \in 1..Len(log) : log'[i] = log[i]
      /\ \A i \in 1..n : log'[Len(log) + i] = added[i]
  <2> HIDE DEF added
  <2> log' = log \o added
    BY <1>1 DEF added
  <2>0. log \in Seq(Event) /\ added \in Seq(Event)
    BY <1>4
  <2>1. log \o added \in Seq(Event) /\ Len(log \o added) = Len(log) + Len(added)
    BY <2>0
  <2>2. \A i \in 1..Len(log) : (log \o added)[i] = log[i]
    BY <1>4
  <2>3. \A i \in 1..n : (log \o added)[Len(log) + i] = added[i]
    BY <1>2, <1>4
  <2> QED BY <1>4, <2>1, <2>2, <2>3
<1>6. Grew
  BY <1>2, <1>5 DEF Grew
<1>7. \A i \in (Len(log) + 1)..Len(log') :
        i - Len(log) \in 1..n /\ log'[i] = Result(order[i - Len(log)], "budget")
  <2> TAKE i \in (Len(log) + 1)..Len(log')
  <2>1. i - Len(log) \in 1..n /\ Len(log) + (i - Len(log)) = i
    BY <1>2, <1>5
  <2>2. log'[Len(log) + (i - Len(log))] = added[i - Len(log)]
    BY <1>5, <2>1
  <2> QED BY <1>4, <2>1, <2>2
<1>8. \A i \in (Len(log) + 1)..Len(log') :
        log'[i] \in Results /\ log'[i].call \in calls /\ log'[i].by = "budget"
  BY <1>3, <1>7
<1>9. \A i, j \in 1..n : order[i] = order[j] => i = j
  <2> SUFFICES ASSUME NEW i \in 1..n, NEW j \in 1..n, order[i] = order[j], i # j PROVE FALSE
    OBVIOUS
  <2>1. order[i] \in CallId /\ order[j] \in CallId
    OBVIOUS
  <2>2. order[i][2] \in Nat /\ order[i][2] = order[j][2]
    BY <2>1 DEF CallId
  <2>3. i < j \/ j < i
    OBVIOUS
  <2>4. order[i][2] < order[j][2] \/ order[j][2] < order[i][2]
    BY <1>1, <2>3
  <2> QED BY <2>2, <2>4
<1>10. \A i, j \in (Len(log) + 1)..Len(log') : log'[i].call = log'[j].call => i = j
  <2> TAKE i, j \in (Len(log) + 1)..Len(log')
  <2>1. log'[i].call = order[i - Len(log)] /\ log'[j].call = order[j - Len(log)]
    BY <1>3, <1>7
  <2>2. i - Len(log) = j - Len(log) => i = j
    BY <1>2, <1>5
  <2> QED BY <1>7, <1>9, <2>1, <2>2
<1>11. \A c \in calls : Given(c)' /\ GivenBy(c, {"budget"})'
  <2> TAKE c \in calls
  <2>1. PICK k \in 1..n : c = order[k]
    BY <1>1
  <2>2. log'[Len(log) + k] = Result(c, "budget") /\ Len(log) + k \in 1..Len(log')
    BY <1>2, <1>4, <1>5, <2>1
  <2>3. DOMAIN log' = 1..Len(log')
    BY <1>5
  <2> QED BY <2>2, <2>3 DEF Given, GivenBy, Has, Is, Result
<1>12. calls = {} => log' = log
  <2> SUFFICES ASSUME calls = {} PROVE log' = log
    OBVIOUS
  <2>1. n = 0
    BY <1>2
  <2>2. Len(log') = Len(log)
    BY <1>2, <1>5, <2>1
  <2> QED BY <1>2, <1>5, <2>2
<1> QED BY <1>6, <1>8, <1>10, <1>11, <1>12

\* A response is added, or the reply after a response without calls.
LEMMA AnswerAppended ==
  ASSUME LogInv, Grew, Len(log') = Len(log) + 1,
         \/ log'[Len(log) + 1].type = "response"
         \/ /\ log'[Len(log) + 1].type = "reply"
            /\ Len(log) > 0 /\ Is("response", Len(log)) /\ ~IsTurn(Len(log))
  PROVE  LogInv'
<1> DEFINE n == Len(log) + 1
<1>0. /\ Len(log) \in Nat /\ n \in Nat /\ Len(log') = n
      /\ DOMAIN log = 1..Len(log) /\ DOMAIN log' = 1..n /\ log \in Seq(Event)
      /\ \A i \in DOMAIN log' : i \in DOMAIN log \/ i = n
  BY DEF Grew
<1>1. \A i \in DOMAIN log : log'[i] = log[i] /\ \A type : Is(type, i)' <=> Is(type, i)
  BY <1>0, GrewKeeps
<1>2. log'[n].type \in {"response", "reply"}
  OBVIOUS
<1> HIDE DEF n
<1>3. \A i \in DOMAIN log' : Is("result", i)' \/ Is("user", i)' => i \in DOMAIN log
  BY <1>0, <1>2 DEF Is
<1>4. ResultsBelong'
  <2> SUFFICES ASSUME NEW i \in DOMAIN log', Is("result", i)',
                      NEW c, c = log'[i].call
               PROVE  /\ c[1] \in 1..(i - 1) /\ c \in CallsAt(c[1])'
                      /\ Undisturbed(c[1], i - 1)'
                      /\ log'[i].by # "budget" => Fits(c)'
    BY DEF ResultsBelong
  <2>1. /\ i \in DOMAIN log /\ c[1] \in 1..(i - 1) /\ c \in CallsAt(c[1]) /\ Undisturbed(c[1], i - 1)
        /\ log[i].by # "budget" => Fits(c)
    BY <1>1, <1>3 DEF LogInv, ResultsBelong
  <2>2. c[1] \in 1..Len(log) /\ c[1] \in Nat /\ i - 1 \in 0..Len(log)
    BY <1>0, <2>1
  <2> QED BY <1>1, <2>1, <2>2, GrewKeeps
<1>5. ResultsAreUnique'
  BY <1>1, <1>3 DEF LogInv, ResultsAreUnique
<1>6. UsersAnswerOne'
  <2> SUFFICES ASSUME NEW i \in DOMAIN log', Is("user", i)'
               PROVE  /\ i + 1 \in DOMAIN log' /\ Is("result", i + 1)' /\ log'[i + 1].by = "owner"
                      /\ log'[log'[i + 1].call[1]].calls = 1
    BY DEF UsersAnswerOne
  <2>1. i \in DOMAIN log /\ Is("user", i)
    BY <1>1, <1>3
  <2>2. /\ i + 1 \in DOMAIN log /\ Is("result", i + 1) /\ log[i + 1].by = "owner"
        /\ log[log[i + 1].call[1]].calls = 1
    BY <2>1 DEF LogInv, UsersAnswerOne
  <2>3. log[i + 1].call[1] \in DOMAIN log
    BY <1>0, <2>2 DEF LogInv, ResultsBelong
  <2> QED BY <1>0, <1>1, <2>2, <2>3
<1>7. RepliesFollowText'
  <2> SUFFICES ASSUME NEW i \in DOMAIN log', Is("reply", i)'
               PROVE  i - 1 \in DOMAIN log' /\ Is("response", i - 1)' /\ ~IsTurn(i - 1)'
    BY DEF RepliesFollowText
  <2>1. CASE i \in DOMAIN log
    <3>1. i - 1 \in DOMAIN log /\ Is("response", i - 1) /\ ~IsTurn(i - 1)
      BY <1>1, <2>1 DEF LogInv, RepliesFollowText
    <3> QED BY <1>0, <1>1, <3>1, GrewKeeps
  <2>2. CASE i = n
    <3>1. Len(log) > 0 /\ Is("response", Len(log)) /\ ~IsTurn(Len(log)) /\ i - 1 = Len(log)
      BY <1>0, <2>2 DEF n, Is
    <3> QED BY <1>0, <1>1, <3>1, GrewKeeps
  <2> QED BY <1>0, <2>1, <2>2
<1> QED BY <1>4, <1>5, <1>6, <1>7 DEF LogInv

\* The owner's message and the result of the question, the only call of its response.
LEMMA OwnerAppended ==
  ASSUME LogInv, Grew, Len(log') = Len(log) + 2, log'[Len(log) + 1].type = "user",
         NEW q, q[1] \in DOMAIN log, q \in CallsAt(q[1]), log[q[1]].calls = 1,
         log'[Len(log) + 2] = Result(q, "owner"),
         Undisturbed(q[1], Len(log)), ~Given(q), Fits(q)
  PROVE  LogInv'
<1> DEFINE u == Len(log) + 1
           n == Len(log) + 2
<1>0. /\ Len(log) \in Nat /\ n \in Nat /\ u \in Nat /\ n = u + 1 /\ u = Len(log) + 1 /\ Len(log') = n
      /\ DOMAIN log = 1..Len(log) /\ DOMAIN log' = 1..n /\ log \in Seq(Event)
      /\ \A i \in DOMAIN log' : i \in DOMAIN log \/ i = u \/ i = n
  BY DEF Grew
<1>1. \A i \in DOMAIN log : log'[i] = log[i] /\ \A type : Is(type, i)' <=> Is(type, i)
  BY <1>0, GrewKeeps
<1>2. log'[u].type = "user" /\ log'[n] = Result(q, "owner")
  OBVIOUS
<1> HIDE DEF n, u
<1>3. log'[n].type = "result" /\ log'[n].call = q /\ log'[n].by = "owner"
  BY <1>2 DEF Result
<1>4. \A i \in DOMAIN log' : /\ Is("result", i)' => i \in DOMAIN log \/ i = n
                             /\ Is("user", i)' => i \in DOMAIN log \/ i = u
                             /\ Is("reply", i)' => i \in DOMAIN log
  BY <1>0, <1>2, <1>3 DEF Is
<1>5. ResultsBelong'
  <2> SUFFICES ASSUME NEW i \in DOMAIN log', Is("result", i)',
                      NEW c, c = log'[i].call
               PROVE  /\ c[1] \in 1..(i - 1) /\ c \in CallsAt(c[1])'
                      /\ Undisturbed(c[1], i - 1)'
                      /\ log'[i].by # "budget" => Fits(c)'
    BY DEF ResultsBelong
  <2>1. CASE i \in DOMAIN log
    <3>1. /\ c[1] \in 1..(i - 1) /\ c \in CallsAt(c[1]) /\ Undisturbed(c[1], i - 1)
          /\ log[i].by # "budget" => Fits(c)
      BY <1>1, <2>1 DEF LogInv, ResultsBelong
    <3>2. c[1] \in 1..Len(log) /\ c[1] \in Nat /\ i - 1 \in 0..Len(log)
      BY <1>0, <2>1, <3>1
    <3> QED BY <1>1, <2>1, <3>1, <3>2, GrewKeeps
  <2>2. CASE i = n
    <3>1. c = q /\ c[1] \in 1..(i - 1) /\ c[1] \in 1..Len(log) /\ i - 1 = u
      BY <1>0, <1>3, <2>2
    <3>2. \A j \in (q[1] + 1)..u : Is("result", j)' \/ Is("user", j)'
      <4> TAKE j \in (q[1] + 1)..u
      <4>1. CASE j = u BY <1>2, <4>1 DEF Is
      <4>2. CASE j # u
        <5>1. j \in (q[1] + 1)..Len(log) /\ j \in DOMAIN log BY <1>0, <4>2
        <5> QED BY <1>1, <5>1 DEF Undisturbed
      <4> QED BY <4>1, <4>2
    <3>3. Undisturbed(c[1], i - 1)'
      BY <3>1, <3>2 DEF Undisturbed
    <3>4. c \in CallsAt(c[1])' /\ Fits(c)'
      BY <3>1, GrewKeeps
    <3> QED BY <3>1, <3>3, <3>4
  <2> QED BY <1>4, <2>1, <2>2
<1>6. ResultsAreUnique'
  <2>1. \A k \in DOMAIN log : Is("result", k)' => Given(log'[k].call)
    BY <1>0, <1>1 DEF Given, Has
  <2>2. \A i, j \in DOMAIN log : Is("result", i)' /\ Is("result", j)' /\ log'[i].call = log'[j].call => i = j
    BY <1>1 DEF LogInv, ResultsAreUnique
  <2> QED BY <1>3, <1>4, <2>1, <2>2 DEF ResultsAreUnique
<1>7. UsersAnswerOne'
  <2> SUFFICES ASSUME NEW i \in DOMAIN log', Is("user", i)'
               PROVE  /\ i + 1 \in DOMAIN log' /\ Is("result", i + 1)' /\ log'[i + 1].by = "owner"
                      /\ log'[log'[i + 1].call[1]].calls = 1
    BY DEF UsersAnswerOne
  <2>1. CASE i \in DOMAIN log
    <3>1. /\ i + 1 \in DOMAIN log /\ Is("result", i + 1) /\ log[i + 1].by = "owner"
          /\ log[log[i + 1].call[1]].calls = 1
      BY <1>1, <2>1 DEF LogInv, UsersAnswerOne
    <3>2. log[i + 1].call[1] \in DOMAIN log
      BY <1>0, <3>1 DEF LogInv, ResultsBelong
    <3> QED BY <1>0, <1>1, <3>1, <3>2
  <2>2. CASE i = u
    BY <1>0, <1>1, <1>3, <2>2 DEF Is
  <2> QED BY <1>4, <2>1, <2>2
<1>8. RepliesFollowText'
  <2> SUFFICES ASSUME NEW i \in DOMAIN log', Is("reply", i)'
               PROVE  i - 1 \in DOMAIN log' /\ Is("response", i - 1)' /\ ~IsTurn(i - 1)'
    BY DEF RepliesFollowText
  <2>1. i - 1 \in DOMAIN log /\ Is("response", i - 1) /\ ~IsTurn(i - 1)
    BY <1>1, <1>4 DEF LogInv, RepliesFollowText
  <2> QED BY <1>0, <1>1, <2>1, GrewKeeps
<1> QED BY <1>5, <1>6, <1>7, <1>8 DEF LogInv

-----------------------------------------------------------------------------
(* Checkpoints *)

LEMMA CheckpointKeeps ==
  ASSUME Grew, NEW c \in Checkpoints, CheckpointFits(c)
  PROVE  CheckpointFits(c)'
<1>0. /\ Len(log) \in Nat /\ Len(log') \in Nat /\ Len(log) <= Len(log')
      /\ c.through \in Nat /\ c.through <= Len(log) /\ c.through \in 0..Len(log)
      /\ c.pending \in SUBSET CallId
  BY DEF Grew, CheckpointFits, Checkpoints
<1>1. \A p \in c.pending :
        /\ p[1] \in 1..c.through /\ Fits(p)' /\ LastUpTo(p[1], c.through)'
        /\ c.steps = log'[p[1]].step /\ c.tools = log'[p[1]].base
        /\ \A d \in CallsAt(p[1])' : d \in c.pending \/ GivenBy(d, {"budget", "owner"})'
  <2> TAKE p \in c.pending
  <2>1. /\ p[1] \in 1..c.through /\ Fits(p) /\ LastUpTo(p[1], c.through)
        /\ c.steps = log[p[1]].step /\ c.tools = log[p[1]].base
        /\ \A d \in CallsAt(p[1]) : d \in c.pending \/ GivenBy(d, {"budget", "owner"})
    BY DEF CheckpointFits
  <2>2. p[1] \in 1..Len(log) /\ p[1] \in Nat
    BY <1>0, <2>1
  <2> QED BY <1>0, <2>1, <2>2, GrewKeeps
<1>2. ASSUME c.pending = {}, NEW s \in 1..c.through, NEW d \in CallsAt(s)',
             \A j \in (s + 1)..c.through : ~IsTurn(j)' /\ ~Is("user", j)' /\ ~Is("reply", j)',
             ~Has(d, c.through)'
      PROVE  c.steps = log'[s].step /\ c.tools = log'[s].base
  <2>1. s \in 1..Len(log) /\ \A j \in (s + 1)..c.through : j \in 1..Len(log)
    BY <1>0
  <2>2. log'[s] = log[s] /\ d \in CallsAt(s) /\ ~Has(d, c.through)
    BY <1>0, <1>2, <2>1, GrewKeeps
  <2>3. \A j \in (s + 1)..c.through : ~IsTurn(j) /\ ~Is("user", j) /\ ~Is("reply", j)
    BY <1>2, <2>1, GrewKeeps
  <2> QED BY <1>2, <2>2, <2>3 DEF CheckpointFits
<1>3. c.through <= Len(log')
  BY <1>0
<1> QED BY <1>1, <1>2, <1>3 DEF CheckpointFits

AllFit == \A k \in DOMAIN ckpts : CheckpointFits(ckpts[k])

LEMMA WriteKeeps ==
  ASSUME Grew, ckpts \in Seq(Checkpoints), AllFit,
         NEW c \in Checkpoints, CheckpointFits(c)', Write(c)
  PROVE  ckpts' \in Seq(Checkpoints) /\ ckpts' # <<>> /\ Latest' = c /\ AllFit'
<1>1. CASE losses < MaxLosses
  <2>1. ckpts' = Append(ckpts, c)
    BY <1>1 DEF Write
  <2>2. ckpts' \in Seq(Checkpoints) /\ Len(ckpts') = Len(ckpts) + 1 /\ Len(ckpts) \in Nat
    BY <2>1
  <2>3. ckpts'[Len(ckpts) + 1] = c /\ \A k \in 1..Len(ckpts) : ckpts'[k] = ckpts[k] /\ ckpts[k] \in Checkpoints
    BY <2>1
  <2>4. \A k \in DOMAIN ckpts' : CheckpointFits(ckpts[k])'
    <3> TAKE k \in DOMAIN ckpts'
    <3>1. CASE k = Len(ckpts) + 1
      BY <2>3, <3>1
    <3>2. CASE k # Len(ckpts) + 1
      <4>1. k \in 1..Len(ckpts) /\ k \in DOMAIN ckpts
        BY <2>2, <3>2
      <4>2. CheckpointFits(ckpts[k]) /\ ckpts[k] \in Checkpoints
        BY <4>1 DEF AllFit
      <4>3. \A e \in Checkpoints : CheckpointFits(e) => CheckpointFits(e)'
        BY CheckpointKeeps
      <4>4. PICK e \in Checkpoints : e = ckpts[k]
        BY <4>2
      <4>5. CheckpointFits(e)
        BY <4>2, <4>4
      <4>6. CheckpointFits(e)'
        BY <4>3, <4>5
      <4>7. e = ckpts'[k]
        BY <2>3, <4>1, <4>4
      <4> QED BY <4>6, <4>7
    <3> QED BY <3>1, <3>2
  <2> QED BY <2>2, <2>3, <2>4 DEF Latest, AllFit
<1>2. CASE ~(losses < MaxLosses)
  <2>1. ckpts' = <<c>>
    BY <1>2 DEF Write
  <2>2. ckpts' \in Seq(Checkpoints) /\ Len(ckpts') = 1 /\ ckpts'[1] = c /\ DOMAIN ckpts' = {1}
    BY <2>1
  <2>3. \A k \in DOMAIN ckpts' : CheckpointFits(ckpts[k])'
    BY <2>2
  <2>4. ckpts' # <<>> /\ Latest' = c
    BY <2>1, <2>2 DEF Latest
  <2> QED BY <2>2, <2>3, <2>4 DEF AllFit
<1> QED BY <1>1, <1>2

\* Without a pending batch, a checkpoint of the current count fits.
LEMMA PlainCheckpoint ==
  ASSUME TypeOK, OpenInv
  PROVE  LET c == Checkpoint({}, row.steps, row.tools)
         IN  c \in Checkpoints /\ CheckpointFits(c)
<1> DEFINE c == Checkpoint({}, row.steps, row.tools)
<1>0. Len(log) \in Nat /\ DOMAIN log = 1..Len(log)
  BY DEF TypeOK
<1>1. /\ c \in Checkpoints /\ c.through = Len(log) /\ c.pending = {}
      /\ c.steps = row.steps /\ c.tools = row.tools
  BY <1>0 DEF Checkpoint, Checkpoints, TypeOK
<1> HIDE DEF c
<1>2. \A s \in 1..c.through : \A d \in CallsAt(s) :
        ~Has(d, c.through) => c.steps = log[s].step /\ c.tools = log[s].base
  BY <1>0, <1>1 DEF OpenInv, Given
<1>3. CheckpointFits(c)
  BY <1>0, <1>1, <1>2 DEF CheckpointFits
<1> QED BY <1>1, <1>3 DEF c

\* A checkpoint that holds the batch at hand fits.
LEMMA BatchCheckpoint ==
  ASSUME TypeOK, OpenInv, BatchInv, pc \in AtBatch, work.batch # {},
         NEW steps, NEW tools, steps = work.key, tools = work.base
  PROVE  LET c == Checkpoint(work.batch, steps, tools)
         IN  c \in Checkpoints /\ CheckpointFits(c)
<1> DEFINE c == Checkpoint(work.batch, steps, tools)
<1>0. /\ Len(log) \in Nat /\ DOMAIN log = 1..Len(log)
      /\ work.batch \in SUBSET CallId /\ work.key \in Nat /\ work.base \in Nat
  <2>1. log \in Seq(Event) /\ work \in Memory
    BY DEF TypeOK
  <2>2. work.batch \in SUBSET CallId /\ work.key \in Nat /\ work.base \in Nat
    BY <2>1 DEF Memory
  <2> QED BY <2>1, <2>2
<1>1. /\ c \in Checkpoints /\ c.through = Len(log) /\ c.pending = work.batch
      /\ c.steps = work.key /\ c.tools = work.base
  BY <1>0 DEF Checkpoint, Checkpoints
<1> HIDE DEF c
<1>2. \A p \in c.pending :
        /\ p[1] \in 1..c.through /\ Fits(p) /\ LastUpTo(p[1], c.through)
        /\ c.steps = log[p[1]].step /\ c.tools = log[p[1]].base
        /\ \A d \in CallsAt(p[1]) : d \in c.pending \/ GivenBy(d, {"budget", "owner"})
  BY <1>0, <1>1 DEF BatchInv, IsLast
<1>3. CheckpointFits(c)
  BY <1>0, <1>1, <1>2 DEF CheckpointFits
<1> QED BY <1>1, <1>3 DEF c

-----------------------------------------------------------------------------
(* What a resume finds *)

NoneOpen == \A t \in DOMAIN log : \A c \in CallsAt(t) : Given(c)

\* A call with a result has it after its response.
LEMMA GivenLater ==
  ASSUME log \in Seq(Event), ResultsBelong, NEW c \in CallId, NEW n \in 0..Len(log)
  PROVE  Has(c, n) <=> \E j \in (c[1] + 1)..n : Is("result", j) /\ log[j].call = c
<1>1. ASSUME Has(c, n) PROVE \E j \in (c[1] + 1)..n : Is("result", j) /\ log[j].call = c
  <2>1. PICK i \in 1..n : Is("result", i) /\ log[i].call = c
    BY <1>1 DEF Has
  <2>2. i \in DOMAIN log /\ i \in Nat /\ n \in Nat
    OBVIOUS
  <2>3. c[1] \in 1..(i - 1)
    BY <2>1, <2>2 DEF ResultsBelong
  <2>4. i \in (c[1] + 1)..n
    BY <2>2, <2>3
  <2> QED BY <2>1, <2>4
<1>2. ASSUME NEW j \in (c[1] + 1)..n, Is("result", j), log[j].call = c PROVE Has(c, n)
  <2>1. c[1] \in Nat /\ j \in 1..n
    BY DEF CallId
  <2> QED BY <1>2, <2>1 DEF Has
<1> QED BY <1>1, <1>2

\* The results after the last response with calls are those of its calls.
LEMMA ResultsOfLast ==
  ASSUME log \in Seq(Event), ResultsBelong, NEW p, IsLast(p),
         NEW i \in DOMAIN log, Is("result", i), i > p
  PROVE  log[i].call \in CallsAt(p) /\ log[i].call[1] = p
<1> DEFINE c == log[i].call
<1>1. c[1] \in 1..(i - 1) /\ c \in CallsAt(c[1]) /\ Undisturbed(c[1], i - 1)
  BY DEF ResultsBelong
<1>2. p \in DOMAIN log /\ IsTurn(p) /\ LastUpTo(p, Len(log))
  BY DEF IsLast
<1>3. c[1] \in DOMAIN log /\ IsTurn(c[1])
  <2>1. c[1] \in DOMAIN log BY <1>1
  <2> HIDE DEF c
  <2> QED BY <1>1, <2>1, CallsOf
<1>4. ~(c[1] < p)
  <2> SUFFICES ASSUME c[1] < p PROVE FALSE
    OBVIOUS
  <2>1. p \in (c[1] + 1)..(i - 1)
    BY <1>1, <1>2
  <2>2. Is("result", p) \/ Is("user", p)
    BY <1>1, <2>1 DEF Undisturbed
  <2> QED BY <1>2, <2>2 DEF IsTurn, Is
<1>5. ~(c[1] > p)
  <2> SUFFICES ASSUME c[1] > p PROVE FALSE
    OBVIOUS
  <2>1. c[1] \in (p + 1)..Len(log)
    BY <1>1, <1>2
  <2> QED BY <1>2, <1>3, <2>1 DEF LastUpTo
<1>6. c[1] = p
  BY <1>1, <1>2, <1>4, <1>5
<1> QED BY <1>1, <1>6

LEMMA OneLast ==
  ASSUME log \in Seq(Event), NEW p, IsLast(p), NEW t, IsLast(t)
  PROVE  p = t
<1>1. /\ p \in 1..Len(log) /\ IsTurn(p) /\ t \in 1..Len(log) /\ IsTurn(t)
      /\ \A j \in (p + 1)..Len(log) : ~IsTurn(j)
      /\ \A j \in (t + 1)..Len(log) : ~IsTurn(j)
  BY DEF IsLast, LastUpTo
<1>2. ~(p < t) BY <1>1
<1>3. ~(t < p) BY <1>1
<1> QED BY <1>1, <1>2, <1>3

\* The latest turn of the history is that response, or the owner's answer to its
\* only call; what the resume reads as answered is answered.
LEMMA LastIsFound ==
  ASSUME log \in Seq(Event), LogInv, NEW p, IsLast(p)
  PROVE  LET t == TurnAt(Len(log))
         IN  /\ \A c : c \in Answered(t, Len(log)) <=> c \in CallsAt(p) /\ Given(c)
             /\ \A c \in CallsAt(p) : c \in Refused(t) <=> GivenBy(c, {"budget"})
             /\ t = p \/ (t > p /\ Is("user", t) /\ \A c \in CallsAt(p) : GivenBy(c, {"owner"}))
<1> DEFINE L == Len(log)
           t == TurnAt(L)
<1>0. /\ L \in Nat /\ DOMAIN log = 1..L /\ p \in 1..L /\ IsTurn(p)
      /\ \A j \in (p + 1)..L : ~IsTurn(j) /\ ~Is("reply", j)
      /\ ResultsBelong /\ ResultsAreUnique /\ UsersAnswerOne
  BY DEF IsLast, LastUpTo, LogInv
<1>1. /\ t \in 0..L /\ (t # 0 => IsTurn(t) \/ Is("user", t) \/ Is("reply", t))
      /\ \A j \in (t + 1)..L : ~IsTurn(j) /\ ~Is("user", j) /\ ~Is("reply", j)
  <2> L \in 0..Len(log)
    BY <1>0
  <2> HIDE DEF L
  <2> QED BY TurnFound
<1>2. /\ \A c : c \in Answered(t, L) <=> \E j \in (t + 1)..L : Is("result", j) /\ log[j].call = c
      /\ \A c : c \in Refused(t) <=>
           \E j \in (t + 1)..L : Is("result", j) /\ log[j].call = c /\ log[j].by = "budget"
  <2>1. t \in 0..Len(log) /\ L \in 0..Len(log)
    BY <1>0, <1>1
  <2> HIDE DEF t
  <2> QED BY <2>1, AnsweredMeans
<1> HIDE DEF t
<1>3. ~(t < p)
  BY <1>0, <1>1
<1>4. \A c \in CallsAt(p) : c[1] = p /\ c \in CallId
  BY <1>0, CallsOf
<1>5. CASE t = p
  <2>1. \A c : c \in Answered(t, L) => c \in CallsAt(p) /\ Given(c)
    <3> SUFFICES ASSUME NEW c, c \in Answered(t, L) PROVE c \in CallsAt(p) /\ Given(c)
      OBVIOUS
    <3>1. PICK j \in (p + 1)..L : Is("result", j) /\ log[j].call = c
      BY <1>2, <1>5
    <3>2. j \in DOMAIN log /\ j > p
      BY <1>0
    <3> QED BY <1>0, <3>1, <3>2, ResultsOfLast DEF Given, Has
  <2>2. \A c \in CallsAt(p) : Given(c) => c \in Answered(t, L)
    <3> SUFFICES ASSUME NEW c \in CallsAt(p), Given(c) PROVE c \in Answered(t, L)
      OBVIOUS
    <3>1. Has(c, L) /\ L \in 0..Len(log) /\ c[1] = p /\ c \in CallId
      BY <1>0, <1>4 DEF Given
    <3>2. \E j \in (p + 1)..L : Is("result", j) /\ log[j].call = c
      <4> HIDE DEF L
      <4> QED BY <1>0, <3>1, GivenLater
    <3> QED BY <1>2, <1>5, <3>2
  <2>3. \A c \in CallsAt(p) : c \in Refused(t) <=> GivenBy(c, {"budget"})
    <3> TAKE c \in CallsAt(p)
    <3>1. c \in Refused(t) => GivenBy(c, {"budget"})
      BY <1>0, <1>2, <1>5 DEF GivenBy
    <3>2. ASSUME GivenBy(c, {"budget"}) PROVE c \in Refused(t)
      <4>1. PICK i \in DOMAIN log : Is("result", i) /\ log[i].call = c /\ log[i].by = "budget"
        BY <3>2 DEF GivenBy
      <4>2. c[1] = p /\ c[1] \in 1..(i - 1)
        BY <1>0, <1>4, <4>1 DEF ResultsBelong
      <4>3. i \in (p + 1)..L
        BY <1>0, <4>2
      <4> QED BY <1>2, <1>5, <4>1, <4>3
    <3> QED BY <3>1, <3>2
  <2> QED BY <1>5, <2>1, <2>2, <2>3 DEF t
<1>6. CASE t # p
  <2>1. t \in (p + 1)..L /\ t \in DOMAIN log /\ t # 0
    BY <1>0, <1>1, <1>3, <1>6
  <2>2. Is("user", t)
    BY <1>0, <1>1, <2>1
  <2>3. /\ t + 1 \in DOMAIN log /\ Is("result", t + 1) /\ log[t + 1].by = "owner"
        /\ log[log[t + 1].call[1]].calls = 1
    BY <1>0, <2>1, <2>2 DEF UsersAnswerOne
  <2>4. PICK q : q = log[t + 1].call
    OBVIOUS
  <2>5. q \in CallsAt(p) /\ q[1] = p
    <3>1. t + 1 > p
      BY <1>0, <2>1
    <3> QED BY <1>0, <2>3, <2>4, <3>1, ResultsOfLast
  <2>6. CallsAt(p) = {q}
    <3>1. log[p].calls = 1 /\ p \in DOMAIN log
      BY <1>0, <2>3, <2>4, <2>5
    <3>2. CallsAt(p) = {<<p, 1>>}
      BY <1>0, <3>1, CallsOf
    <3> QED BY <2>5, <3>2
  <2>7. \A j \in (t + 1)..L : Is("result", j) => log[j].call = q
    <3> TAKE j \in (t + 1)..L
    <3>1. j \in DOMAIN log /\ j > p
      BY <1>0, <2>1
    <3> QED BY <1>0, <2>6, <3>1, ResultsOfLast
  <2>8. t + 1 \in (t + 1)..L
    BY <1>0, <2>1, <2>3
  <2>9. \A c : c \in Answered(t, L) <=> c = q
    BY <1>2, <2>3, <2>4, <2>7, <2>8
  <2>10. Given(q) /\ GivenBy(q, {"owner"})
    BY <1>0, <2>3, <2>4 DEF Given, GivenBy, Has
  <2>11. ~GivenBy(q, {"budget"})
    <3> SUFFICES ASSUME NEW i \in DOMAIN log, Is("result", i), log[i].call = q, log[i].by = "budget"
                 PROVE  FALSE
      BY DEF GivenBy
    <3>1. i = t + 1
      BY <1>0, <2>3, <2>4 DEF ResultsAreUnique
    <3> QED BY <2>3, <3>1
  <2>12. q \notin Refused(t)
    <3> SUFFICES ASSUME NEW j \in (t + 1)..L, Is("result", j), log[j].call = q, log[j].by = "budget"
                 PROVE  FALSE
      BY <1>2
    <3>1. j \in DOMAIN log
      BY <1>0, <2>1
    <3> QED BY <2>11, <3>1 DEF GivenBy
  <2>13. t > p
    BY <1>0, <2>1
  <2> QED BY <2>2, <2>6, <2>9, <2>10, <2>11, <2>12, <2>13 DEF t
<1> QED BY <1>5, <1>6

LEMMA OpenIsLast ==
  ASSUME log \in Seq(Event), OpenInv, NEW t \in DOMAIN log, NEW c \in CallsAt(t), ~Given(c)
  PROVE  /\ IsLast(t) /\ Undisturbed(t, Len(log)) /\ c[1] = t /\ IsTurn(t)
         /\ \A j \in (t + 1)..Len(log) : Is("result", j) /\ ~Is("response", j) /\ ~IsTurn(j)
                                         /\ ~Is("user", j) /\ ~Is("reply", j)
         /\ log[t].step = row.steps /\ log[t].base = row.tools
<1>1. c[1] = t /\ IsTurn(t)
  BY CallsOf
<1>2. /\ \A j \in (t + 1)..Len(log) : Is("result", j)
      /\ log[t].step = row.steps /\ log[t].base = row.tools
  BY DEF OpenInv
<1>3. \A j \in (t + 1)..Len(log) : Is("result", j) /\ ~Is("response", j) /\ ~IsTurn(j)
                                   /\ ~Is("user", j) /\ ~Is("reply", j)
  BY <1>2 DEF Is, IsTurn
<1> QED BY <1>1, <1>2, <1>3 DEF IsLast, LastUpTo, Undisturbed

Adopted == \E i \in (Latest.through + 1)..Len(log) : IsTurn(i) \/ Is("reply", i)
HeldTurn ==
  LET s == TurnAt(Latest.through)
  IN  IF Latest.pending # {} \/ CallsAt(s) \subseteq Answered(s, Latest.through) THEN {} ELSE CallsAt(s)

LEMMA FoundFields ==
  LET t == TurnAt(Len(log))
  IN  /\ Found.adopted = Adopted
      /\ Found.calls = IF Adopted THEN CallsAt(t) ELSE IF HeldTurn # {} THEN HeldTurn ELSE Latest.pending
      /\ Found.answered = Answered(t, Len(log))
      /\ Found.refused = Refused(t)
      /\ Found.base = IF ~Adopted THEN Latest.tools ELSE IF HasControls(t) THEN log[t].base ELSE row.tools
      /\ Found.key = IF Adopted THEN row.steps ELSE Latest.steps
<1> QED BY DEF Found, Adopted, HeldTurn, BatchKey

\* There is nothing left to do,
NothingFound ==
  /\ NoneOpen /\ Found.calls \subseteq Found.answered
  /\ Found.adopted \/ Found.calls = {}

\* or a batch of the response t, under its step and from its count.
BatchFound(t) ==
  /\ IsLast(t) /\ Found.calls # {} /\ Found.calls \subseteq CallsAt(t)
  /\ Found.key = log[t].step /\ Found.base = log[t].base
  /\ \A c : c \in Found.answered <=> c \in CallsAt(t) /\ Given(c)
  /\ \A c \in CallsAt(t) : c \in Found.refused <=> GivenBy(c, {"budget"})
  /\ \A c \in CallsAt(t) : c \in Found.calls \/ GivenBy(c, {"budget", "owner"})
  /\ Found.calls = CallsAt(t) \/ \A c \in Found.calls : Fits(c)

LEMMA LatestFits ==
  ASSUME TypeOK, CheckpointInv, pc # "start"
  PROVE  /\ ckpts # <<>> /\ Len(ckpts) \in DOMAIN ckpts
         /\ Latest \in Checkpoints /\ CheckpointFits(Latest)
         /\ Latest.through \in 0..Len(log) /\ Latest.pending \subseteq CallId
<1>1. ckpts \in Seq(Checkpoints) /\ ckpts # <<>>
  BY DEF TypeOK, CheckpointInv
<1>2. Len(ckpts) \in 1..Len(ckpts) /\ Len(ckpts) \in DOMAIN ckpts
  BY <1>1
<1>3. Latest \in Checkpoints /\ CheckpointFits(Latest)
  BY <1>1, <1>2 DEF Latest, CheckpointInv
<1>4. Latest.through \in Nat /\ Latest.through <= Len(log) /\ Latest.pending \subseteq CallId
  BY <1>3 DEF CheckpointFits, Checkpoints
<1>5. Latest.through \in 0..Len(log)
  BY <1>4 DEF TypeOK
<1> QED BY <1>1, <1>2, <1>3, <1>4, <1>5

LEMMA ResumeFinds ==
  ASSUME TypeOK, LogInv, OpenInv, CheckpointInv, pc # "start"
  PROVE  NothingFound \/ \E t \in DOMAIN log : BatchFound(t)
<1> DEFINE L == Len(log)
           T == TurnAt(L)
           n == Latest.through
<1>0. /\ log \in Seq(Event) /\ L \in Nat /\ DOMAIN log = 1..L
      /\ n \in 0..L /\ n \in 0..Len(log) /\ n \in Nat /\ CheckpointFits(Latest)
      /\ Latest.pending \subseteq CallId /\ ResultsBelong
  BY LatestFits DEF TypeOK, LogInv
<1>1. /\ Found.adopted = Adopted
      /\ Found.calls = IF Adopted THEN CallsAt(T) ELSE IF HeldTurn # {} THEN HeldTurn ELSE Latest.pending
      /\ Found.answered = Answered(T, L)
      /\ Found.refused = Refused(T)
      /\ Found.base = IF ~Adopted THEN Latest.tools ELSE IF HasControls(T) THEN log[T].base ELSE row.tools
      /\ Found.key = IF Adopted THEN row.steps ELSE Latest.steps
  BY FoundFields
<1>2. T \in 0..L /\ T \in 0..Len(log)
  BY <1>0, TurnFound
<1>3. \A p : IsLast(p) =>
        /\ \A c : c \in Answered(T, L) <=> c \in CallsAt(p) /\ Given(c)
        /\ \A c \in CallsAt(p) : c \in Refused(T) <=> GivenBy(c, {"budget"})
        /\ T = p \/ \A c \in CallsAt(p) : GivenBy(c, {"owner"})
  BY <1>0, LastIsFound
<1>4. \A c : GivenBy(c, {"owner"}) => Given(c)
  BY <1>0 DEF GivenBy, Given, Has
<1> HIDE DEF L, T, n
<1>5. CASE Adopted /\ NoneOpen
  <2>1. CallsAt(T) \subseteq Answered(T, L)
    <3> SUFFICES ASSUME NEW c \in CallsAt(T) PROVE c \in Answered(T, L)
      OBVIOUS
    <3>1. T \in DOMAIN log
      BY <1>0, <1>2 DEF CallsAt
    <3>2. c \in CallId /\ c[1] = T /\ Given(c)
      BY <1>0, <1>5, <3>1, CallsOf DEF NoneOpen
    <3>3. Has(c, L) /\ L \in 0..Len(log)
      BY <1>0, <3>2 DEF Given, L
    <3>4. \E j \in (T + 1)..L : Is("result", j) /\ log[j].call = c
      BY <1>0, <3>2, <3>3, GivenLater
    <3> QED BY <1>0, <1>2, <3>3, <3>4, AnsweredMeans
  <2> QED BY <1>1, <1>5, <2>1 DEF NothingFound
<1>6. CASE Adopted /\ ~NoneOpen
  <2>1. PICK t \in DOMAIN log : \E c \in CallsAt(t) : ~Given(c)
    BY <1>6 DEF NoneOpen
  <2>2. PICK c \in CallsAt(t) : ~Given(c)
    BY <2>1
  <2>3. /\ IsLast(t) /\ log[t].step = row.steps
        /\ \A j \in (t + 1)..Len(log) : ~Is("response", j)
    BY <1>0, <2>2, OpenIsLast
  <2>4. T = t
    BY <1>3, <1>4, <2>2, <2>3
  <2>5. HasControls(T)
    BY <1>0, <2>2, <2>3, <2>4, ControlsFound
  <2>6. BatchFound(t)
    BY <1>1, <1>3, <1>6, <2>2, <2>3, <2>4, <2>5 DEF BatchFound
  <2> QED BY <2>6
<1>7. CASE ~Adopted /\ Latest.pending # {}
  <2>1. Found.calls = Latest.pending
    BY <1>1, <1>7 DEF HeldTurn
  <2>2. \A j \in (n + 1)..L : ~IsTurn(j) /\ ~Is("reply", j)
    BY <1>7 DEF Adopted, n, L
  <2>3. \A p \in Latest.pending : p[1] \in DOMAIN log /\ IsLast(p[1]) /\ p \in CallsAt(p[1]) /\ Fits(p)
    <3> TAKE p \in Latest.pending
    <3>1. p[1] \in 1..n /\ Fits(p) /\ \A j \in (p[1] + 1)..n : ~IsTurn(j) /\ ~Is("reply", j)
      BY <1>0 DEF CheckpointFits, LastUpTo, n
    <3>2. p \in CallsAt(p[1]) /\ p[1] \in DOMAIN log
      BY <1>0, <3>1 DEF Fits, FirstOf
    <3>3. IsTurn(p[1])
      BY <1>0, <3>2, CallsOf
    <3>4. \A j \in (p[1] + 1)..L : j \in (p[1] + 1)..n \/ j \in (n + 1)..L
      BY <1>0, <3>1
    <3> QED BY <2>2, <3>1, <3>2, <3>3, <3>4 DEF IsLast, LastUpTo, L
  <2>4. PICK p \in Latest.pending : TRUE
    BY <1>7
  <2>5. PICK t \in DOMAIN log : t = p[1]
    BY <2>3
  <2>6. \A q \in Latest.pending : q \in CallsAt(t)
    BY <1>0, <2>3, <2>5, OneLast
  <2>7. /\ Latest.steps = log[t].step /\ Latest.tools = log[t].base
        /\ \A d \in CallsAt(t) : d \in Latest.pending \/ GivenBy(d, {"budget", "owner"})
    BY <1>0, <2>5 DEF CheckpointFits
  <2>8. BatchFound(t)
    BY <1>1, <1>3, <1>7, <2>1, <2>3, <2>5, <2>6, <2>7 DEF BatchFound
  <2> QED BY <2>8
<1>8. CASE ~Adopted /\ Latest.pending = {}
  <2> DEFINE s == TurnAt(n)
  <2>1. \A j \in (n + 1)..L : ~IsTurn(j) /\ ~Is("reply", j)
    BY <1>8 DEF Adopted, n, L
  <2>2. s \in 0..n /\ \A j \in (s + 1)..n : ~IsTurn(j) /\ ~Is("user", j) /\ ~Is("reply", j)
    BY <1>0, TurnFound
  <2>3. s \in 0..Len(log)
    BY <1>0, <2>2 DEF L
  <2> HIDE DEF s
  <2>4. \A c : c \in Answered(s, n) <=> \E j \in (s + 1)..n : Is("result", j) /\ log[j].call = c
    BY <1>0, <2>3, AnsweredMeans
  <2>5. HeldTurn = IF CallsAt(s) \subseteq Answered(s, n) THEN {} ELSE CallsAt(s)
    BY <1>8 DEF HeldTurn, s, n
  <2>6. CASE CallsAt(s) \subseteq Answered(s, n)
    <3>1. Found.calls = {}
      BY <1>1, <1>8, <2>5, <2>6
    <3>2. NoneOpen
      <4> SUFFICES ASSUME NEW t \in DOMAIN log, NEW c \in CallsAt(t), ~Given(c) PROVE FALSE
        BY DEF NoneOpen
      <4>1. /\ c[1] = t /\ IsTurn(t) /\ t \in 1..L
            /\ \A j \in (t + 1)..L : ~IsTurn(j) /\ ~Is("user", j) /\ ~Is("reply", j)
        BY <1>0, OpenIsLast DEF L
      <4>2. t <= n
        BY <1>0, <2>1, <4>1
      <4>3. ~(s < t)
        BY <1>0, <2>2, <4>1, <4>2
      <4>4. s # 0 => IsTurn(s) \/ Is("user", s) \/ Is("reply", s)
        BY <1>0, TurnFound DEF s
      <4>5. ~(t < s)
        BY <1>0, <2>2, <4>1, <4>4
      <4>6. s = t
        BY <1>0, <2>2, <4>1, <4>3, <4>5
      <4>7. \E j \in (t + 1)..n : Is("result", j) /\ log[j].call = c
        BY <2>4, <2>6, <4>6
      <4>8. PICK j \in (t + 1)..n : Is("result", j) /\ log[j].call = c
        BY <4>7
      <4>9. j \in 1..Len(log)
        BY <1>0, <4>1 DEF L
      <4> QED BY <4>8, <4>9 DEF Given, Has
    <3> QED BY <3>1, <3>2 DEF NothingFound
  <2>7. CASE ~(CallsAt(s) \subseteq Answered(s, n))
    <3>1. PICK d \in CallsAt(s) : d \notin Answered(s, n)
      BY <2>7
    <3>2. s \in 1..n /\ s \in DOMAIN log
      BY <1>0, <2>2, <3>1 DEF CallsAt
    <3>3. d \in CallId /\ d[1] = s /\ IsTurn(s)
      BY <1>0, <3>1, <3>2, CallsOf
    <3>4. ~Has(d, n)
      BY <1>0, <2>4, <3>1, <3>3, GivenLater
    <3>5. Latest.steps = log[s].step /\ Latest.tools = log[s].base
      BY <1>0, <1>8, <2>2, <3>1, <3>2, <3>4 DEF CheckpointFits, n
    <3>6. IsLast(s)
      <4>1. \A j \in (s + 1)..L : j \in (s + 1)..n \/ j \in (n + 1)..L
        BY <1>0, <3>2
      <4> QED BY <2>1, <2>2, <3>2, <3>3, <4>1 DEF IsLast, LastUpTo, L
    <3>7. Found.calls = CallsAt(s) /\ CallsAt(s) # {}
      BY <1>1, <1>8, <2>5, <2>7
    <3>8. BatchFound(s)
      BY <1>1, <1>3, <1>8, <3>5, <3>6, <3>7 DEF BatchFound
    <3> QED BY <3>2, <3>8
  <2> QED BY <2>6, <2>7
<1> QED BY <1>5, <1>6, <1>7, <1>8

\* Of the batch that is found, each call is dispatched again, is refused now, or was
\* refused or answered by the owner before.
LEMMA ResumedBatch ==
  ASSUME TypeOK, LogInv, WaitInv, NEW t \in DOMAIN log, BatchFound(t),
         NEW r, r = Refit(Found)
  PROVE  /\ r.batch \subseteq Found.calls /\ r.refused \subseteq Found.calls
         /\ \A c \in r.batch : Fits(c) /\ ~GivenBy(c, {"budget"}) /\ c \notin r.refused
         /\ \A c \in r.refused : ~Given(c)
         /\ \A c \in CallsAt(t) : c \in r.batch \/ c \in r.refused \/ GivenBy(c, {"budget", "owner"})
<1> DEFINE calls == Found.calls
           fitted == FitNow(calls, log[t].base)
<1>0. /\ log \in Seq(Event) /\ DOMAIN log = 1..Len(log)
      /\ calls \subseteq CallsAt(t) /\ Found.base = log[t].base /\ IsTurn(t)
      /\ \A c : c \in Found.answered <=> c \in CallsAt(t) /\ Given(c)
      /\ \A c \in CallsAt(t) : c \in Found.refused <=> GivenBy(c, {"budget"})
      /\ \A c \in CallsAt(t) : c \in calls \/ GivenBy(c, {"budget", "owner"})
      /\ calls = CallsAt(t) \/ \A c \in calls : Fits(c)
  BY DEF TypeOK, BatchFound, IsLast
<1>1. /\ r.batch = FirstOf(calls, log[t].base) \cap ((fitted \cup Decided \cup Found.answered) \ Found.refused)
      /\ r.refused = ((calls \ fitted) \ Decided) \ Found.answered
  BY <1>0 DEF Refit, LateRefusals
<1>2. fitted \subseteq FirstOf(calls, log[t].base) /\ FirstOf(calls, log[t].base) \subseteq calls
  BY DEF FitNow, FirstOf
<1>3. \A c \in CallsAt(t) : c[1] = t
  BY <1>0, CallsOf
<1>4. \A c \in calls : Fits(c) <=> c \in FirstOf(calls, log[t].base)
  <2> SUFFICES ASSUME NEW c \in calls PROVE Fits(c) <=> c \in FirstOf(calls, log[t].base)
    OBVIOUS
  <2>1. Fits(c) <=> c \in FirstOf(CallsAt(t), log[t].base)
    BY <1>0, <1>3 DEF Fits
  <2>2. log[t].base \in Nat /\ MaxTools \in Nat
    BY <1>0, EventKinds, LoopAssumption DEF IsTurn, Responses
  <2>3. ASSUME c \in FirstOf(CallsAt(t), log[t].base) PROVE c \in FirstOf(calls, log[t].base)
    <3>1. IsFiniteSet(CallsAt(t))
      BY <1>0, CallsOf
    <3> HIDE DEF calls
    <3> QED BY <1>0, <2>2, <2>3, <3>1, FitsPart
  <2>4. ASSUME c \in FirstOf(calls, log[t].base) PROVE Fits(c)
    BY <1>0, <2>1, <2>4
  <2> QED BY <2>1, <2>3, <2>4
<1> HIDE DEF calls, fitted
<1>5. r.batch \subseteq calls /\ r.refused \subseteq calls
  BY <1>1, <1>2
<1>6. \A c \in r.batch : Fits(c) /\ ~GivenBy(c, {"budget"}) /\ c \notin r.refused
  BY <1>0, <1>1, <1>2, <1>4, <1>5
<1>7. \A c \in r.refused : ~Given(c)
  BY <1>0, <1>1, <1>5
<1>8. ASSUME NEW c \in CallsAt(t), c \notin r.batch, c \notin r.refused
      PROVE  GivenBy(c, {"budget", "owner"})
  <2>1. CASE c \notin calls
    BY <1>0, <2>1
  <2>2. CASE c \in calls /\ c \in Found.refused
    BY <1>0, <2>2 DEF GivenBy
  <2>3. CASE c \in calls /\ c \notin Found.refused /\ c \in Found.answered
    <3>1. PICK i \in DOMAIN log : Is("result", i) /\ log[i].call = c
      BY <1>0, <2>3 DEF Given, Has
    <3>2. log[i].by # "budget" => Fits(c)
      BY <3>1 DEF LogInv, ResultsBelong
    <3>3. ~Fits(c)
      BY <1>1, <1>4, <1>8, <2>3
    <3> QED BY <3>1, <3>2, <3>3 DEF GivenBy
  <2>4. CASE c \in calls /\ c \notin Found.refused /\ c \notin Found.answered
    <3>1. c \in fitted \/ c \in Decided
      BY <1>1, <1>8, <2>4
    <3>2. c \in Decided => Fits(c)
      BY DEF Decided, WaitInv
    <3>3. c \in FirstOf(calls, log[t].base)
      BY <1>2, <1>4, <2>4, <3>1, <3>2
    <3> QED BY <1>1, <1>8, <2>4, <3>1, <3>3
  <2> QED BY <2>1, <2>2, <2>3, <2>4
<1> QED BY <1>5, <1>6, <1>7, <1>8 DEF calls

LEMMA NothingResumed ==
  ASSUME NothingFound, NEW r, r = Refit(Found)
  PROVE  /\ r.refused = {} /\ r.batch \subseteq Found.calls
         /\ r.batch \ Found.answered = {}
         /\ ~Found.adopted => r.batch = {}
<1>1. Found.calls \subseteq Found.answered /\ (Found.adopted \/ Found.calls = {})
  BY DEF NothingFound
<1>2. r.batch \subseteq FirstOf(Found.calls, Found.base)
  BY DEF Refit
<1>3. FirstOf(Found.calls, Found.base) \subseteq Found.calls
  BY DEF FirstOf
<1>4. r.refused \subseteq Found.calls \ Found.answered
  BY DEF Refit, LateRefusals
<1> QED BY <1>1, <1>2, <1>3, <1>4

\* The calls found are finitely many, and of the right type.
LEMMA CallsFound ==
  ASSUME TypeOK, NothingFound \/ \E t \in DOMAIN log : BatchFound(t)
  PROVE  IsFiniteSet(Found.calls) /\ Found.calls \subseteq CallId
<1>0. log \in Seq(Event) /\ DOMAIN log = 1..Len(log) /\ Len(log) \in 0..Len(log)
  BY DEF TypeOK
<1>1. \A t : t \in DOMAIN log => IsFiniteSet(CallsAt(t)) /\ CallsAt(t) \subseteq CallId
  BY <1>0, CallsOf
<1>2. CASE \E t \in DOMAIN log : BatchFound(t)
  <2>1. PICK t \in DOMAIN log : Found.calls \subseteq CallsAt(t)
    BY <1>2 DEF BatchFound
  <2> QED BY <1>1, <2>1, FS_Subset
<1>3. CASE NothingFound
  <2>1. Found.calls = {} \/ Found.calls = CallsAt(TurnAt(Len(log)))
    BY <1>3, FoundFields DEF NothingFound
  <2>2. TurnAt(Len(log)) \in DOMAIN log \/ CallsAt(TurnAt(Len(log))) = {}
    BY <1>0, TurnFound DEF CallsAt
  <2> QED BY <1>1, <2>1, <2>2, FS_EmptySet
<1> QED BY <1>2, <1>3

-----------------------------------------------------------------------------
(* Types *)

Outcome == {"SUSPENDED"} \cup Terminal

LEMMA FreshTyped ==
  /\ Fresh \in Memory /\ Fresh.outcome = "none" /\ Fresh.twice = {} /\ Fresh.todo = {}
  /\ \A o \in Outcome : /\ [Fresh EXCEPT !.outcome = o] \in Memory
                        /\ [Fresh EXCEPT !.outcome = o].outcome = o
                        /\ [Fresh EXCEPT !.outcome = o].twice = {}
<1> QED BY DEF Fresh, Memory, Outcome, Terminal, Dimension

LEMMA EndWithTyped ==
  ASSUME NEW o \in Outcome, EndWith(o)
  PROVE  pc' = "end" /\ work' \in Memory /\ work'.outcome = o /\ o # "none" /\ work'.twice = {}
<1> QED BY FreshTyped DEF EndWith, Outcome, Terminal

LEMMA ReserveTyped ==
  \A a, b, d \in BOOLEAN : Reserve(a, b, d) \in Dimension
<1> QED BY DEF Reserve, Dimension

LEMMA MissingTyped ==
  ASSUME TypeOK
  PROVE  Missing \in Nat
<1> DEFINE t == TurnAt(Len(log))
           S == FirstOf(CallsAt(t), log[t].base) \ Refused(t)
<1>0. log \in Seq(Event) /\ DOMAIN log = 1..Len(log) /\ Len(log) \in 0..Len(log) /\ row.tools \in Nat
  BY DEF TypeOK
<1>1. CASE HasControls(t)
  <2>1. t \in DOMAIN log /\ IsTurn(t)
    BY <1>0, <1>1, TurnFound DEF HasControls, CallsAt
  <2>2. IsFiniteSet(CallsAt(t)) /\ S \subseteq CallsAt(t)
    BY <1>0, <2>1, CallsOf DEF FirstOf
  <2>3. IsFiniteSet(S)
    <3> HIDE DEF S
    <3> QED BY <2>2, FS_Subset
  <2>4. Cardinality(S) \in Nat
    <3> HIDE DEF S
    <3> QED BY <2>3, FS_CardinalityType
  <2>5. log[t].base \in Nat
    BY <1>0, <2>1, EventKinds DEF IsTurn, Responses
  <2>6. Watermark(t) \in Nat
    BY <2>4, <2>5 DEF Watermark
  <2> QED BY <1>0, <2>6 DEF Missing
<1>2. CASE ~HasControls(t)
  BY <1>2 DEF Missing
<1> QED BY <1>1, <1>2

LEMMA RecordTyped ==
  ASSUME row \in [steps: Nat, models: Nat, tools: Nat], NEW n \in Nat, NEW next, RecordTools(n, next)
  PROVE  /\ row' \in [steps: Nat, models: Nat, tools: Nat]
         /\ row'.tools = row.tools + n /\ row'.steps = row.steps /\ row'.models = row.models
         /\ EndWith("FAILED") \/ (pc' = next /\ UNCHANGED work)
<1>1. row' = [row EXCEPT !.tools = @ + n]
  BY DEF RecordTools
<1>2. EndWith("FAILED") \/ (pc' = next /\ UNCHANGED work)
  BY DEF RecordTools
<1> QED BY <1>1, <1>2

LEMMA FoundTyped ==
  ASSUME TypeOK, CheckpointInv, pc # "start"
  PROVE  Found.base \in Nat /\ Found.key \in Nat /\ Found.answered \subseteq CallId
<1> DEFINE t == TurnAt(Len(log))
<1>0. /\ log \in Seq(Event) /\ DOMAIN log = 1..Len(log) /\ Len(log) \in 0..Len(log)
      /\ row.tools \in Nat /\ row.steps \in Nat
  BY DEF TypeOK
<1>1. Latest.tools \in Nat /\ Latest.steps \in Nat
  BY LatestFits DEF Checkpoints
<1>2. t \in 0..Len(log)
  BY <1>0, TurnFound
<1>3. HasControls(t) => log[t].base \in Nat
  <2> SUFFICES ASSUME HasControls(t) PROVE log[t].base \in Nat
    OBVIOUS
  <2>1. t \in DOMAIN log /\ IsTurn(t)
    BY <1>0, <1>2 DEF HasControls, CallsAt
  <2> QED BY <1>0, <2>1, EventKinds DEF IsTurn, Responses
<1>4. Answered(t, Len(log)) \subseteq CallId
  <2> SUFFICES ASSUME NEW c \in Answered(t, Len(log)) PROVE c \in CallId
    OBVIOUS
  <2>1. PICK j \in (t + 1)..Len(log) : Is("result", j) /\ log[j].call = c
    BY <1>0, <1>2, AnsweredMeans
  <2>2. j \in DOMAIN log
    BY <1>0, <1>2
  <2> QED BY <1>0, <2>1, <2>2, EventKinds DEF Results
<1> QED BY <1>0, <1>1, <1>3, <1>4, FoundFields

\* A resume without a failed guard.
LEMMA ResumeMeans ==
  ASSUME TypeOK, CheckpointInv, NothingFound \/ \E t \in DOMAIN log : BatchFound(t), Resume
  PROVE  \/ EndWith("FAILED") /\ UNCHANGED log
         \/ /\ Refuse(Refit(Found).refused)
            /\ work' \in Memory
            /\ work'.batch = Refit(Found).batch /\ work'.todo = Refit(Found).batch
            /\ work'.key = Found.key /\ work'.base = Found.base /\ work'.known = Found.answered
            /\ work'.owed = (IF Found.adopted THEN "extra" ELSE "reconcile")
            /\ work'.extra = (LET n == Found.base + Cardinality(Refit(Found).batch)
                              IN  IF n > row.tools THEN n - row.tools ELSE 0)
            /\ work'.twice = work.twice /\ work'.outcome = work.outcome
            /\ pc' = (IF (IF Found.adopted THEN Refit(Found).batch \ Found.answered ELSE Refit(Found).batch) # {}
                      THEN "recall" ELSE IF Found.adopted THEN "settle" ELSE "loop")
<1> DEFINE f == Found
           r == Refit(f)
           n == f.base + Cardinality(r.batch)
           x == IF n > row.tools THEN n - row.tools ELSE 0
<1>0. work \in Memory /\ row.tools \in Nat
  BY DEF TypeOK
<1>1. IsFiniteSet(Found.calls) /\ Found.calls \subseteq CallId
  BY CallsFound
<1>2. r.batch \subseteq Found.calls
  BY DEF Refit, FirstOf
<1>3. Cardinality(r.batch) \in Nat /\ r.batch \subseteq CallId
  <2>1. IsFiniteSet(r.batch)
    <3> HIDE DEF r
    <3> QED BY <1>1, <1>2, FS_Subset
  <2> HIDE DEF r
  <2> QED BY <1>1, <1>2, <2>1, FS_CardinalityType
<1>4. f.base \in Nat /\ f.key \in Nat
  BY FoundTyped DEF Resume
<1>5. f.answered \subseteq CallId
  BY FoundTyped DEF Resume
<1>6. x \in Nat
  <2> HIDE DEF f, r
  <2> QED BY <1>0, <1>3, <1>4
<1>7. CASE EndWith("FAILED") /\ UNCHANGED log
  BY <1>7
<1>8. CASE ~(EndWith("FAILED") /\ UNCHANGED log)
  <2>1. /\ Refuse(r.refused)
        /\ work' = [work EXCEPT !.batch = r.batch, !.todo = r.batch, !.key = f.key, !.base = f.base,
                                !.owed = IF f.adopted THEN "extra" ELSE "reconcile",
                                !.extra = x, !.known = f.answered]
        /\ pc' = (IF (IF f.adopted THEN r.batch \ f.answered ELSE r.batch) # {}
                  THEN "recall" ELSE IF f.adopted THEN "settle" ELSE "loop")
    BY <1>8 DEF Resume
  <2> HIDE DEF x, r, f
  <2>2. work' \in Memory
    BY <1>0, <1>3, <1>4, <1>5, <1>6, <2>1 DEF Memory
  <2>3. /\ work'.batch = r.batch /\ work'.todo = r.batch
        /\ work'.key = f.key /\ work'.base = f.base /\ work'.known = f.answered
        /\ work'.owed = (IF f.adopted THEN "extra" ELSE "reconcile")
        /\ work'.extra = x /\ work'.twice = work.twice /\ work'.outcome = work.outcome
    BY <1>0, <2>1 DEF Memory
  <2> QED BY <2>1, <2>2, <2>3 DEF x, r, f
<1> QED BY <1>7, <1>8

LEMMA LatestWritten ==
  ASSUME ckpts \in Seq(Checkpoints), NEW c \in Checkpoints, Write(c)
  PROVE  ckpts' \in Seq(Checkpoints) /\ ckpts' # <<>> /\ Latest' = c
<1>1. CASE losses < MaxLosses
  <2>1. ckpts' = Append(ckpts, c)
    BY <1>1 DEF Write
  <2>2. ckpts' \in Seq(Checkpoints) /\ Len(ckpts') = Len(ckpts) + 1 /\ ckpts'[Len(ckpts) + 1] = c
    BY <2>1
  <2> QED BY <2>2 DEF Latest
<1>2. CASE ~(losses < MaxLosses)
  <2>1. ckpts' = <<c>>
    BY <1>2 DEF Write
  <2> QED BY <2>1 DEF Latest
<1> QED BY <1>1, <1>2

LEMMA ExtraTyped ==
  ASSUME ckpts \in Seq(Checkpoints), NEW c \in Checkpoints, WriteExtra(c),
         extras \in 0..MaxExtras, MaxExtras \in Nat
  PROVE  /\ ckpts' \in Seq(Checkpoints) /\ extras' \in 0..MaxExtras
         /\ UNCHANGED ckpts \/ Write(c)
<1>1. \/ UNCHANGED <<ckpts, extras>>
      \/ extras < MaxExtras /\ Write(c) /\ extras' = extras + 1
  BY DEF WriteExtra
<1> QED BY <1>1, LatestWritten

LEMMA RowTyped ==
  ASSUME row \in [steps: Nat, models: Nat, tools: Nat], NEW n \in Nat
  PROVE  /\ [row EXCEPT !.tools = @ + n] \in [steps: Nat, models: Nat, tools: Nat]
         /\ [row EXCEPT !.steps = @ + n] \in [steps: Nat, models: Nat, tools: Nat]
         /\ [row EXCEPT !.models = @ + n] \in [steps: Nat, models: Nat, tools: Nat]
<1> QED OBVIOUS

LEMMA FreshWith ==
  ASSUME NEW s \in SUBSET CallId, NEW d \in Dimension
  PROVE  /\ [Fresh EXCEPT !.twice = s] \in Memory
         /\ [Fresh EXCEPT !.twice = s].outcome = "none"
         /\ [Fresh EXCEPT !.twice = s].twice = s
         /\ [Fresh EXCEPT !.reserve = d, !.twice = s] \in Memory
         /\ [Fresh EXCEPT !.reserve = d, !.twice = s].outcome = "none"
         /\ [Fresh EXCEPT !.reserve = d, !.twice = s].twice = s
<1> QED BY DEF Fresh, Memory, Dimension

LEMMA ApprovalTyped ==
  ASSUME NEW c \in Checkpoints, NEW b \in BOOLEAN
  PROVE  /\ [c EXCEPT !.approval = b] \in Checkpoints
         /\ [c EXCEPT !.approval = b].through = c.through
         /\ [c EXCEPT !.approval = b].pending = c.pending
         /\ [c EXCEPT !.approval = b].steps = c.steps
         /\ [c EXCEPT !.approval = b].tools = c.tools
<1> QED BY DEF Checkpoints

LEMMA CheckpointTyped ==
  ASSUME log \in Seq(Event), NEW b \in SUBSET CallId, NEW s \in Nat, NEW n \in Nat
  PROVE  Checkpoint(b, s, n) \in Checkpoints
<1> QED BY DEF Checkpoint, Checkpoints

Step1 ==
  Start \/ Repair \/ Settle \/ Recall \/ SaveSuspension \/ Usage \/ SaveBatch \/ Step \/ Build
Step2 == AskFails \/ Charge \/ Respond \/ Pend \/ Cancelled \/ Finalize
Step3 == Resolve \/ CancelParked \/ Crash \/ Lose \/ Pass \/ Rest

\* The steps, those that leave the log as it is and those that add to it.
LEMMA Steps ==
  ASSUME [Next]_vars
  PROVE  \/ Step1 \/ Step2 \/ Step3 \/ UNCHANGED vars
         \/ \E c \in work.todo : \E for \in Waits : Suspend(c, for)
         \/ Resume \/ Fit \/ Reply \/ Answer
         \/ \E c \in work.todo : Call(c) \/ Refusal(c)
         \/ \E n \in 0..MaxBatch, answer \in {"tools", "text", "empty"} : Ask(n, answer)
<1> QED BY DEF Next, Worker, Step1, Step2, Step3

LEMMA SilentSteps ==
  ASSUME \/ Step1 \/ Step2 \/ Step3 \/ UNCHANGED vars
         \/ \E c \in work.todo : \E for \in Waits : Suspend(c, for)
  PROVE  UNCHANGED <<log, repeated, done>>
<1> QED BY DEF Step1, Step2, Step3, Start, Repair, Settle, Recall, SaveSuspension, Usage, SaveBatch, Step,
               Build, AskFails, Charge, Respond, Pend, Cancelled, Finalize, Resolve, CancelParked, Crash,
               Lose, Pass, Rest, Suspend, durable, vars, WriteExtra

\* A batch is part of one response.
LEMMA BatchIsFinite ==
  ASSUME TypeOK, BatchInv, pc \in AtBatch
  PROVE  IsFiniteSet(work.batch) /\ Cardinality(work.batch) \in Nat
<1>0. log \in Seq(Event)
  BY DEF TypeOK
<1>1. \A c \in work.batch : IsLast(c[1]) /\ c \in CallsAt(c[1])
  BY DEF BatchInv, Fits, FirstOf
<1>2. IsFiniteSet(work.batch)
  <2>1. CASE work.batch = {}
    BY <2>1, FS_EmptySet
  <2>2. CASE work.batch # {}
    <3>1. PICK c \in work.batch : TRUE
      BY <2>2
    <3>2. \A d \in work.batch : d \in CallsAt(c[1])
      BY <1>0, <1>1, <3>1, OneLast
    <3>3. c[1] \in DOMAIN log
      BY <1>1, <3>1 DEF IsLast
    <3>4. IsFiniteSet(CallsAt(c[1]))
      BY <1>0, <3>3, CallsOf
    <3> QED BY <3>2, <3>4, FS_Subset
  <2> QED BY <2>1, <2>2
<1> QED BY <1>2, FS_CardinalityType

\* What a call that returns leaves in memory, and its result in the log.
LEMMA ReturnTyped ==
  ASSUME work \in Memory, NEW c \in CallId, Return(c)
  PROVE  /\ work' \in Memory /\ work'.outcome = work.outcome
         /\ work'.todo = work.todo \ {c} /\ work'.batch = work.batch /\ work'.known = work.known
         /\ work'.key = work.key /\ work'.base = work.base
         /\ work'.owed = work.owed /\ work'.extra = work.extra
         /\ ~HasResult(c) \/ c \in work.known => work'.twice = work.twice
<1>1. PICK s : s = IF HasResult(c) /\ c \notin work.known THEN work.twice \cup {c} ELSE work.twice
  OBVIOUS
<1>2. s \in SUBSET CallId /\ work.todo \in SUBSET CallId /\ (~HasResult(c) \/ c \in work.known => s = work.twice)
  BY <1>1 DEF Memory
<1>3. work' = [work EXCEPT !.todo = @ \ {c}, !.twice = s]
  BY <1>1 DEF Return
<1> QED BY <1>2, <1>3 DEF Memory

LEMMA ResultMeans ==
  ASSUME log \in Seq(Event), NEW c
  PROVE  HasResult(c) <=> Given(c)
<1> QED BY DEF HasResult, Given, Has

LEMMA LogResultTyped ==
  ASSUME log \in Seq(Event), repeated \subseteq CallId, NEW c \in CallId, NEW by \in {"tool", "refusal"},
         LogResult(c, by)
  PROVE  /\ Grew /\ repeated' \subseteq CallId
         /\ \A i \in (Len(log) + 1)..Len(log') : log'[i].type = "result"
<1>1. Result(c, by) \in Event /\ Result(c, by).type = "result"
  BY DEF Event, Results, Result
<1>2. repeated' \subseteq CallId
  BY DEF LogResult
<1>3. CASE HasResult(c)
  <2>1. Grew /\ Len(log') = Len(log)
    BY <1>3 DEF LogResult, Grew
  <2>2. \A i \in (Len(log) + 1)..Len(log') : FALSE
    BY <2>1
  <2> QED BY <1>2, <2>1, <2>2
<1>4. CASE ~HasResult(c)
  <2>1. log' = Append(log, Result(c, by))
    BY <1>4 DEF LogResult
  <2>2. Grew /\ Len(log') = Len(log) + 1 /\ log'[Len(log) + 1] = Result(c, by)
    BY <1>1, <2>1, OneAppended
  <2>3. \A i \in (Len(log) + 1)..Len(log') : i = Len(log) + 1
    BY <2>2
  <2> QED BY <1>1, <1>2, <2>2, <2>3
<1> QED BY <1>3, <1>4

LEMMA TypesKept1 ==
  ASSUME TypeOK, BatchInv, Step1
  PROVE  TypeOK'
<1> USE LoopAssumption
<1>0. /\ log \in Seq(Event) /\ row \in [steps: Nat, models: Nat, tools: Nat] /\ ckpts \in Seq(Checkpoints)
      /\ work \in Memory /\ row.steps \in Nat /\ row.tools \in Nat
      /\ work.batch \in SUBSET CallId /\ work.key \in Nat /\ work.base \in Nat /\ work.extra \in Nat
      /\ (pc = "end" <=> work.outcome # "none")
  BY DEF TypeOK, Memory
<1>00. {} \in SUBSET CallId /\ "FAILED" \in Outcome /\ "COMPLETED" \in Outcome /\ "SUSPENDED" \in Outcome
  BY DEF Outcome, Terminal
<1>1. CASE Start
  <2>1. ckpts' \in Seq(Checkpoints)
    BY <1>0, <1>00, <1>1, CheckpointTyped, LatestWritten DEF Start
  <2>2. /\ pc' = "repair" /\ work' = [Fresh EXCEPT !.twice = repeated]
        /\ UNCHANGED <<log, repeated, row, done, wait, time, bounds>>
    BY <1>1 DEF Start, Keep
  <2>3. work' \in Memory /\ work'.outcome = "none"
    <3>1. repeated \in SUBSET CallId /\ "none" \in Dimension
      BY DEF TypeOK, Dimension
    <3> QED BY <2>2, <3>1, FreshWith
  <2> QED BY <2>1, <2>2, <2>3 DEF TypeOK, bounds, Running
<1>2. CASE Repair
  <2>1. RecordTools(Missing, "resume") /\ UNCHANGED <<log, repeated, ckpts, done, wait, time, bounds>>
    BY <1>2 DEF Repair, Keep
  <2>2. /\ row' \in [steps: Nat, models: Nat, tools: Nat]
        /\ EndWith("FAILED") \/ (pc' = "resume" /\ UNCHANGED work)
    BY <1>0, <2>1, MissingTyped, RecordTyped
  <2>3. work' \in Memory /\ pc' \in {"end", "resume"} /\ (pc' = "end" <=> work'.outcome # "none")
    BY <1>0, <1>00, <1>2, <2>2, EndWithTyped DEF Repair
  <2> QED BY <2>1, <2>2, <2>3 DEF TypeOK, bounds, Running
<1>3. CASE Settle
  <2>1. row' = [row EXCEPT !.tools = @ + work.extra] /\ UNCHANGED <<log, repeated, ckpts, done, wait, time, bounds>>
    BY <1>3 DEF Settle, Keep
  <2>2. EndWith("FAILED") \/ EndWith("COMPLETED") \/ (pc' = "loop" /\ UNCHANGED work)
    BY <1>3 DEF Settle
  <2>3. work' \in Memory /\ pc' \in {"end", "loop"} /\ (pc' = "end" <=> work'.outcome # "none")
    BY <1>0, <1>00, <1>3, <2>2, EndWithTyped DEF Settle
  <2>4. row' \in [steps: Nat, models: Nat, tools: Nat]
    BY <1>0, <2>1, RowTyped
  <2> QED BY <2>1, <2>3, <2>4 DEF TypeOK, bounds, Running
<1>4. CASE Recall
  <2>1. ckpts' \in Seq(Checkpoints) /\ extras' \in 0..MaxExtras
    <3>1. Checkpoint(work.batch, work.key, work.base) \in Checkpoints
      BY <1>0, CheckpointTyped
    <3>2. WriteExtra(Checkpoint(work.batch, work.key, work.base)) /\ extras \in 0..MaxExtras /\ MaxExtras \in Nat
      BY <1>4 DEF Recall, TypeOK
    <3> QED BY <1>0, <3>1, <3>2, ExtraTyped
  <2>2. pc' = "dispatch" /\ UNCHANGED <<log, repeated, row, done, wait, work, time, crashes, losses, parks>> /\ pc # "end"
    BY <1>4 DEF Recall
  <2> QED BY <1>0, <2>1, <2>2 DEF TypeOK, Running
<1>5. CASE SaveSuspension
  <2> DEFINE c == [Checkpoint(work.batch, row.steps, row.tools) EXCEPT !.approval = (wait.for = "approval")]
  <2>1. c \in Checkpoints
    <3>1. Checkpoint(work.batch, row.steps, row.tools) \in Checkpoints /\ (wait.for = "approval") \in BOOLEAN
      BY <1>0, CheckpointTyped
    <3> QED BY <3>1, ApprovalTyped
  <2>2. Write(c) /\ EndWith("SUSPENDED") /\ UNCHANGED <<log, repeated, row, done, wait, time, bounds>>
    BY <1>5 DEF SaveSuspension, Keep
  <2>3. ckpts' \in Seq(Checkpoints)
    <3> HIDE DEF c
    <3> QED BY <1>0, <2>1, <2>2, LatestWritten
  <2>4. pc' = "end" /\ work' \in Memory /\ work'.outcome # "none"
    BY <1>00, <2>2, EndWithTyped
  <2> QED BY <2>2, <2>3, <2>4 DEF TypeOK, bounds, Running
<1>6. CASE Usage
  <2>1. UNCHANGED <<log, repeated, ckpts, done, wait, time, bounds>> /\ pc = "dispatch"
    BY <1>6 DEF Usage, Keep
  <2>2. \/ EndWith("FAILED") /\ UNCHANGED row
        \/ \E n \in {Cardinality(work.batch), work.extra, 0} : RecordTools(n, "save")
    BY <1>6 DEF Usage
  <2>3. Cardinality(work.batch) \in Nat
    BY <1>6, <2>1, BatchIsFinite DEF AtBatch
  <2>4. /\ row' \in [steps: Nat, models: Nat, tools: Nat]
        /\ EndWith("FAILED") \/ (pc' = "save" /\ UNCHANGED work)
    BY <1>0, <2>2, <2>3, RecordTyped
  <2>5. work' \in Memory /\ pc' \in {"end", "save"} /\ (pc' = "end" <=> work'.outcome # "none")
    BY <1>0, <1>00, <2>1, <2>4, EndWithTyped
  <2> QED BY <2>1, <2>4, <2>5 DEF TypeOK, bounds, Running
<1>7. CASE SaveBatch
  <2>1. /\ Write(Checkpoint({}, row.steps, row.tools)) /\ UNCHANGED <<log, repeated, row, done, wait, time, bounds>>
        /\ (pc' = "loop" /\ work' = [Fresh EXCEPT !.twice = work.twice]) \/ EndWith("FAILED")
    BY <1>7 DEF SaveBatch, Keep
  <2>2. ckpts' \in Seq(Checkpoints)
    BY <1>0, <1>00, <2>1, CheckpointTyped, LatestWritten
  <2>3. work' \in Memory /\ pc' \in {"end", "loop"} /\ (pc' = "end" <=> work'.outcome # "none")
    <3>1. work.twice \in SUBSET CallId /\ "none" \in Dimension
      BY <1>0 DEF Memory, Dimension
    <3>2. CASE EndWith("FAILED")
      BY <1>00, <3>2, EndWithTyped
    <3>3. CASE pc' = "loop" /\ work' = [Fresh EXCEPT !.twice = work.twice]
      <4>1. work' \in Memory /\ work'.outcome = "none"
        BY <3>1, <3>3, FreshWith
      <4> QED BY <3>3, <4>1
    <3> QED BY <2>1, <3>2, <3>3
  <2> QED BY <2>1, <2>2, <2>3 DEF TypeOK, bounds, Running
<1>8. CASE Step
  <2>1. /\ UNCHANGED <<log, repeated, ckpts, done, wait, time, bounds>>
        /\ \/ EndWith("FAILED") /\ UNCHANGED row
           \/ /\ row' = [row EXCEPT !.steps = @ + 1] /\ pc' = "build"
              /\ work' = [Fresh EXCEPT !.reserve = Reserve(TRUE, FALSE, FALSE), !.twice = work.twice]
    BY <1>8 DEF Step, Keep
  <2>2. row' \in [steps: Nat, models: Nat, tools: Nat]
    BY <1>0, <2>1, RowTyped
  <2>3. Reserve(TRUE, FALSE, FALSE) \in Dimension
    BY ReserveTyped
  <2>4. work' \in Memory /\ pc' \in {"end", "build"} /\ (pc' = "end" <=> work'.outcome # "none")
    <3>1. work.twice \in SUBSET CallId
      BY <1>0 DEF Memory
    <3>2. CASE EndWith("FAILED")
      BY <1>00, <3>2, EndWithTyped
    <3>3. CASE ~EndWith("FAILED")
      <4> DEFINE d == Reserve(TRUE, FALSE, FALSE)
      <4>1. work' = [Fresh EXCEPT !.reserve = d, !.twice = work.twice] /\ pc' = "build" /\ d \in Dimension
        BY <2>1, <2>3, <3>3
      <4> HIDE DEF d
      <4>2. work' \in Memory /\ work'.outcome = "none"
        BY <3>1, <4>1, FreshWith
      <4> QED BY <4>1, <4>2
    <3> QED BY <3>2, <3>3
  <2> QED BY <2>1, <2>2, <2>4 DEF TypeOK, bounds, Running
<1>9. CASE Build
  <2>1. ckpts' \in Seq(Checkpoints) /\ extras' \in 0..MaxExtras
    <3>1. Checkpoint({}, row.steps, row.tools) \in Checkpoints
      BY <1>0, <1>00, CheckpointTyped
    <3>2. WriteExtra(Checkpoint({}, row.steps, row.tools)) /\ extras \in 0..MaxExtras /\ MaxExtras \in Nat
      BY <1>9 DEF Build, TypeOK
    <3> QED BY <1>0, <3>1, <3>2, ExtraTyped
  <2>2. /\ UNCHANGED <<log, repeated, row, done, wait, time, crashes, losses, parks>> /\ pc # "end"
        /\ (pc' = "ask" /\ UNCHANGED work) \/ EndWith("FAILED")
    BY <1>9 DEF Build
  <2>3. work' \in Memory /\ pc' \in {"end", "ask"} /\ (pc' = "end" <=> work'.outcome # "none")
    BY <1>0, <1>00, <2>2, EndWithTyped
  <2> QED BY <2>1, <2>2, <2>3 DEF TypeOK, Running
<1> QED BY <1>1, <1>2, <1>3, <1>4, <1>5, <1>6, <1>7, <1>8, <1>9 DEF Step1

LEMMA AttemptTyped ==
  ASSUME work \in Memory, NEW a \in {"none", "tools", "text", "empty"}
  PROVE  /\ [work EXCEPT !.attempt = @ + 1] \in Memory
         /\ [work EXCEPT !.attempt = @ + 1].outcome = work.outcome
         /\ [work EXCEPT !.attempt = @ + 1].twice = work.twice
         /\ [work EXCEPT !.attempt = @ + 1, !.answer = a] \in Memory
         /\ [work EXCEPT !.attempt = @ + 1, !.answer = a].outcome = work.outcome
         /\ [work EXCEPT !.attempt = @ + 1, !.answer = a].twice = work.twice
         /\ [work EXCEPT !.attempt = @ + 1, !.answer = a].answer = a
<1>1. work.attempt \in Nat
  BY DEF Memory
<1>2. PICK m \in Nat : m = work.attempt + 1
  BY <1>1
<1> QED BY <1>2 DEF Memory

LEMMA TypesKept2 ==
  ASSUME TypeOK, CheckpointInv, Step2
  PROVE  TypeOK'
<1> USE LoopAssumption
<1>0. /\ log \in Seq(Event) /\ row \in [steps: Nat, models: Nat, tools: Nat] /\ ckpts \in Seq(Checkpoints)
      /\ work \in Memory /\ row.steps \in Nat /\ row.tools \in Nat /\ work.batch \in SUBSET CallId
      /\ (pc = "end" <=> work.outcome # "none")
  BY DEF TypeOK, Memory
<1>00. {} \in SUBSET CallId /\ "FAILED" \in Outcome /\ "CANCELLED" \in Outcome
  BY DEF Outcome, Terminal
<1>1. CASE AskFails
  <2>1. /\ UNCHANGED <<log, repeated, ckpts, done, wait, time, bounds>> /\ pc = "ask"
        /\ row' = row \/ row' = [row EXCEPT !.models = @ + 1]
        /\ EndWith("FAILED") \/ (pc' = "ask" /\ work' = [work EXCEPT !.attempt = @ + 1])
    BY <1>1 DEF AskFails, Keep
  <2>2. row' \in [steps: Nat, models: Nat, tools: Nat]
    BY <1>0, <2>1, RowTyped
  <2>3. [work EXCEPT !.attempt = @ + 1] \in Memory /\ [work EXCEPT !.attempt = @ + 1].outcome = work.outcome
    BY <1>0, AttemptTyped
  <2>4. work' \in Memory /\ pc' \in {"end", "ask"} /\ (pc' = "end" <=> work'.outcome # "none")
    BY <1>0, <1>00, <2>1, <2>3, EndWithTyped
  <2> QED BY <2>1, <2>2, <2>4 DEF TypeOK, bounds, Running
<1>2. CASE Charge
  <2>1. /\ UNCHANGED <<log, repeated, ckpts, done, wait, time, bounds>> /\ pc = "charge"
        /\ row' = [row EXCEPT !.models = @ + 1]
        /\ EndWith("FAILED") \/ (pc' \in {"ask", "respond"} /\ UNCHANGED work)
    BY <1>2 DEF Charge, Keep
  <2>2. row' \in [steps: Nat, models: Nat, tools: Nat]
    BY <1>0, <2>1, RowTyped
  <2>3. work' \in Memory /\ pc' \in {"end", "ask", "respond"} /\ (pc' = "end" <=> work'.outcome # "none")
    BY <1>0, <1>00, <2>1, EndWithTyped
  <2> QED BY <2>1, <2>2, <2>3 DEF TypeOK, bounds, Running
<1>3. CASE Respond
  <2>1. /\ Write(Checkpoint({}, row.steps, row.tools)) /\ pc' \in {"fit", "reply"} /\ pc = "respond"
        /\ UNCHANGED <<log, repeated, row, done, wait, work, time, bounds>>
    BY <1>3 DEF Respond, Keep
  <2>2. ckpts' \in Seq(Checkpoints)
    BY <1>0, <1>00, <2>1, CheckpointTyped, LatestWritten
  <2> QED BY <1>0, <2>1, <2>2 DEF TypeOK, bounds, Running
<1>4. CASE Pend
  <2>1. /\ Write(Checkpoint(work.batch, row.steps, row.tools)) /\ pc' \in {"loop", "recall"} /\ pc = "pend"
        /\ UNCHANGED <<log, repeated, row, done, wait, work, time, bounds>>
    BY <1>4 DEF Pend, Keep
  <2>2. ckpts' \in Seq(Checkpoints)
    BY <1>0, <2>1, CheckpointTyped, LatestWritten
  <2> QED BY <1>0, <2>1, <2>2 DEF TypeOK, bounds, Running
<1>5. CASE Cancelled
  <2>1. /\ UNCHANGED <<log, repeated, row, ckpts, done, wait, time, bounds>>
        /\ EndWith("FAILED") \/ EndWith("CANCELLED")
    BY <1>5 DEF Cancelled, Keep, durable
  <2>2. work' \in Memory /\ pc' = "end" /\ work'.outcome # "none"
    BY <1>00, <2>1, EndWithTyped
  <2> QED BY <2>1, <2>2 DEF TypeOK, bounds, Running
<1>6. CASE Finalize
  <2> DEFINE c == [Latest EXCEPT !.through = Len(log)]
  <2>1. /\ UNCHANGED <<log, repeated, row, done, wait, time, bounds>> /\ work' = Fresh /\ pc = "end"
        /\ \/ work.outcome = "SUSPENDED" /\ Write(c) /\ pc' = "parked"
           \/ work.outcome # "SUSPENDED" /\ UNCHANGED ckpts /\ pc' = work.outcome
    BY <1>6 DEF Finalize, Keep
  <2>2. Latest \in Checkpoints /\ Len(log) \in Nat
    BY <1>0, <2>1, LatestFits
  <2>3. c \in Checkpoints
    BY <2>2 DEF Checkpoints
  <2>4. ckpts' \in Seq(Checkpoints)
    <3> HIDE DEF c
    <3> QED BY <1>0, <2>1, <2>3, LatestWritten
  <2>5. pc' \in {"parked"} \cup Terminal
    BY <1>0, <2>1 DEF Memory
  <2>6. work' \in Memory /\ work'.outcome = "none" /\ pc' # "end"
    BY <2>1, <2>5, FreshTyped DEF Terminal
  <2> QED BY <2>1, <2>4, <2>5, <2>6 DEF TypeOK, bounds
<1> QED BY <1>1, <1>2, <1>3, <1>4, <1>5, <1>6 DEF Step2

LEMMA PartTyped ==
  ASSUME NEW S, NEW s \in Seq(S), NEW n \in 0..(Len(s) - 1)
  PROVE  /\ SubSeq(s, 1, n) \in Seq(S) /\ Len(SubSeq(s, 1, n)) = n
         /\ \A k \in 1..n : k \in DOMAIN s /\ SubSeq(s, 1, n)[k] = s[k]
<1>1. Len(s) \in Nat /\ DOMAIN s = 1..Len(s) /\ n \in Nat /\ n <= Len(s)
  OBVIOUS
<1>2. \A k \in 1..n : k \in DOMAIN s /\ s[k] \in S
  BY <1>1
<1>3. SubSeq(s, 1, n) = [k \in 1..n |-> s[k]]
  BY <1>1, <1>2
<1> QED BY <1>1, <1>2, <1>3

LEMMA TypesKept3 ==
  ASSUME TypeOK, CheckpointInv,
         Step3 \/ UNCHANGED vars \/ \E c \in work.todo : \E for \in Waits : Suspend(c, for)
  PROVE  TypeOK'
<1> USE LoopAssumption
<1>0. /\ log \in Seq(Event) /\ ckpts \in Seq(Checkpoints) /\ wait.key \in Nat \X CallId
      /\ work \in Memory /\ (pc = "end" <=> work.outcome # "none")
      /\ work.todo \in SUBSET CallId /\ work.key \in Nat
      /\ wait \in [key: Nat \X CallId, for: {"none"} \cup Waits, over: BOOLEAN]
  BY DEF TypeOK, Memory
<1>1. CASE Resolve
  <2>1. wait' \in [key: Nat \X CallId, for: {"none"} \cup Waits, over: BOOLEAN]
    BY <1>0, <1>1 DEF Resolve
  <2> QED BY <1>0, <1>1, <2>1 DEF Resolve, TypeOK, bounds, Keep
<1>2. CASE CancelParked
  BY <1>0, <1>2 DEF CancelParked, TypeOK, bounds, durable, Keep, Terminal
<1>3. CASE Crash
  <2>1. /\ UNCHANGED <<log, repeated, row, ckpts, done, wait, time, losses, parks, extras>>
        /\ crashes' = crashes + 1 /\ crashes < MaxCrashes /\ crashes \in 0..MaxCrashes /\ MaxCrashes \in Nat
        /\ pc' = "start" /\ work' = Fresh
    BY <1>3 DEF Crash, TypeOK, durable
  <2>2. crashes' \in 0..MaxCrashes
    BY <2>1
  <2> QED BY <2>1, <2>2, FreshTyped DEF TypeOK
<1>4. CASE Lose
  <2>1. PICK n \in 0..(Len(ckpts) - 1) : ckpts' = SubSeq(ckpts, 1, n)
    BY <1>4 DEF Lose
  <2>2. ckpts' \in Seq(Checkpoints)
    <3>1. ckpts \in Seq(Checkpoints)
      BY <1>0
    <3> QED BY <2>1, <3>1, PartTyped
  <2>3. /\ losses' \in 0..MaxLosses
        /\ UNCHANGED <<log, repeated, row, done, wait, time, pc, work, crashes, parks, extras>>
    <3>1. /\ losses < MaxLosses /\ losses' = losses + 1 /\ losses \in 0..MaxLosses /\ MaxLosses \in Nat
          /\ UNCHANGED <<log, repeated, row, done, wait, time, pc, work, crashes, parks, extras>>
      BY <1>4 DEF Lose, TypeOK
    <3>2. losses' \in 0..MaxLosses
      BY <3>1
    <3> QED BY <3>1, <3>2
  <2> QED BY <2>2, <2>3 DEF TypeOK
<1>5. CASE Pass
  BY <1>0, <1>5 DEF Pass, TypeOK, durable, bounds
<1>6. CASE Rest \/ UNCHANGED vars
  BY <1>0, <1>6 DEF Rest, TypeOK, vars, durable, bounds
<1>7. ASSUME NEW c \in work.todo, NEW for \in Waits, Suspend(c, for) PROVE TypeOK'
  <2>1. /\ UNCHANGED <<log, repeated, row, ckpts, done, work, time, crashes, losses, extras>>
        /\ pc' = "suspend" /\ pc = "dispatch" /\ parks' \in 0..MaxParks
        /\ wait' = [key |-> <<work.key, c>>, for |-> for, over |-> FALSE]
    <3>1. parks \in 0..MaxParks /\ MaxParks \in Nat
      BY DEF TypeOK
    <3>2. (parks < MaxParks /\ parks' = parks + 1) \/ parks' = parks
      BY <1>7 DEF Suspend
    <3>3. parks' \in 0..MaxParks
      BY <3>1, <3>2
    <3> QED BY <1>7, <3>3 DEF Suspend
  <2>2. wait' \in [key: Nat \X CallId, for: {"none"} \cup Waits, over: BOOLEAN]
    BY <1>0, <2>1
  <2> QED BY <1>0, <2>1, <2>2 DEF TypeOK, Running
<1> QED BY <1>1, <1>2, <1>3, <1>4, <1>5, <1>6, <1>7 DEF Step3

LEMMA TypesKept4 ==
  ASSUME TypeOK, CheckpointInv, ResponseInv, NothingFound \/ \E t \in DOMAIN log : BatchFound(t),
         \/ Resume \/ Fit \/ Reply \/ Answer
         \/ \E c \in work.todo : Call(c) \/ Refusal(c)
         \/ \E n \in 0..MaxBatch, answer \in {"tools", "text", "empty"} : Ask(n, answer)
  PROVE  TypeOK'
<1> USE LoopAssumption
<1>0. /\ log \in Seq(Event) /\ ckpts \in Seq(Checkpoints) /\ wait.key \in Nat \X CallId
      /\ row \in [steps: Nat, models: Nat, tools: Nat] /\ row.steps \in Nat /\ row.tools \in Nat
      /\ work \in Memory /\ (pc = "end" <=> work.outcome # "none") /\ MaxBatch \in Nat
      /\ work.todo \in SUBSET CallId /\ work.key \in Nat /\ done \subseteq Nat \X CallId
      /\ wait \in [key: Nat \X CallId, for: {"none"} \cup Waits, over: BOOLEAN]
  BY DEF TypeOK, Memory
<1>00. "FAILED" \in Outcome /\ "COMPLETED" \in Outcome
  BY DEF Outcome, Terminal
<1>1. CASE Resume
  <2>1. UNCHANGED <<repeated, row, ckpts, done, wait, time, bounds>> /\ pc = "resume"
    BY <1>1 DEF Resume, Keep
  <2>2. CASE EndWith("FAILED") /\ UNCHANGED log
    <3>1. pc' = "end" /\ work' \in Memory /\ work'.outcome # "none"
      BY <1>00, <2>2, EndWithTyped
    <3> QED BY <1>0, <2>1, <2>2, <3>1 DEF TypeOK, bounds, Running
  <2>3. CASE ~(EndWith("FAILED") /\ UNCHANGED log)
    <3>1. /\ Refuse(Refit(Found).refused) /\ work' \in Memory /\ work'.outcome = work.outcome
          /\ pc' \in {"recall", "settle", "loop"}
      BY <1>1, <2>3, ResumeMeans
    <3>2. Refit(Found).refused \subseteq CallId
      BY CallsFound DEF Refit, LateRefusals
    <3>3. log' \in Seq(Event)
      BY <1>0, <3>1, <3>2, RefusalsAppended DEF Grew
    <3> QED BY <1>0, <2>1, <3>1, <3>3 DEF TypeOK, bounds, Running
  <2> QED BY <2>2, <2>3
<1>2. CASE Fit
  <2> DEFINE calls == CallsAt(Len(log))
             batch == FitNow(calls, row.tools)
  <2>1. UNCHANGED <<repeated, row, ckpts, done, wait, time, bounds>> /\ pc = "fit"
    BY <1>2 DEF Fit, Keep
  <2>2. CASE EndWith("FAILED") /\ UNCHANGED log
    <3>1. pc' = "end" /\ work' \in Memory /\ work'.outcome # "none"
      BY <1>00, <2>2, EndWithTyped
    <3> QED BY <1>0, <2>1, <2>2, <3>1 DEF TypeOK, bounds, Running
  <2>3. CASE ~(EndWith("FAILED") /\ UNCHANGED log)
    <3>1. /\ Refuse(calls \ batch) /\ pc' = "pend"
          /\ work' = [work EXCEPT !.batch = batch, !.todo = batch, !.key = row.steps, !.base = row.tools]
      BY <1>2, <2>3 DEF Fit
    <3>2. calls \subseteq CallId /\ batch \subseteq CallId
      <4>0. Len(log) > 0 /\ Len(log) \in Nat /\ DOMAIN log = 1..Len(log)
        BY <1>0, <2>1 DEF ResponseInv
      <4>1. Len(log) \in DOMAIN log
        BY <4>0
      <4>2. calls \subseteq CallId
        BY <1>0, <4>1, CallsOf
      <4> QED BY <4>2 DEF FitNow, FirstOf
    <3> HIDE DEF calls, batch
    <3>3. log' \in Seq(Event)
      <4> calls \ batch \in SUBSET CallId BY <3>2
      <4> QED BY <1>0, <3>1, <3>2, RefusalsAppended DEF Grew
    <3>4. work' \in Memory /\ work'.outcome = work.outcome
      BY <1>0, <3>1, <3>2 DEF Memory
    <3> QED BY <1>0, <2>1, <3>1, <3>3, <3>4 DEF TypeOK, bounds, Running
  <2> QED BY <2>2, <2>3
<1>3. CASE Reply
  <2>1. /\ log' = Append(log, [type |-> "reply"]) /\ EndWith("COMPLETED")
        /\ UNCHANGED <<repeated, row, ckpts, done, wait, time, bounds>>
    BY <1>3 DEF Reply, Keep
  <2>2. log' \in Seq(Event)
    BY <1>0, <2>1 DEF Event
  <2>3. pc' = "end" /\ work' \in Memory /\ work'.outcome # "none"
    BY <1>00, <2>1, EndWithTyped
  <2> QED BY <2>1, <2>2, <2>3 DEF TypeOK, bounds, Running
<1>4. CASE Answer
  <2> DEFINE c == [Latest EXCEPT !.through = Len(log) + 2, !.pending = @ \ {wait.key[2]}]
  <2>1. /\ log' = log \o <<[type |-> "user"], Result(wait.key[2], "owner")>>
        /\ done' = done \cup {wait.key} /\ Write(c) /\ wait' = NoWait /\ pc' = "start" /\ pc = "parked"
        /\ UNCHANGED <<repeated, row, work, time, bounds>>
    BY <1>4 DEF Answer, Keep
  <2>2. [type |-> "user"] \in Event /\ Result(wait.key[2], "owner") \in Event
    BY <1>0 DEF Event, Result, Results
  <2>3. log' \in Seq(Event)
    BY <1>0, <2>1, <2>2, TwoAppended DEF Grew
  <2>4. Latest \in Checkpoints /\ Len(log) + 2 \in Nat
    BY <1>0, <2>1, LatestFits
  <2>5. c \in Checkpoints
    BY <2>4 DEF Checkpoints
  <2>6. ckpts' \in Seq(Checkpoints)
    <3> HIDE DEF c
    <3> QED BY <1>0, <2>1, <2>5, LatestWritten
  <2>7. wait' \in [key: Nat \X CallId, for: {"none"} \cup Waits, over: BOOLEAN]
    BY <2>1 DEF NoWait, CallId
  <2> QED BY <1>0, <2>1, <2>3, <2>6, <2>7 DEF TypeOK, bounds
<1>5. ASSUME NEW c \in work.todo, Call(c) PROVE TypeOK'
  <2>1. /\ UNCHANGED <<row, ckpts, pc, time, bounds>> /\ pc = "dispatch" /\ c \in CallId
        /\ Return(c) /\ repeated \subseteq CallId
    BY <1>0, <1>5 DEF Call, Keep, TypeOK
  <2>2. work' \in Memory /\ work'.outcome = work.outcome
    BY <1>0, <2>1, ReturnTyped
  <2>3. CASE <<work.key, c>> \in done
    <3>1. UNCHANGED <<log, repeated, done, wait>>
      BY <1>5, <2>3 DEF Call
    <3> QED BY <1>0, <2>1, <2>2, <3>1 DEF TypeOK, bounds
  <2>4. CASE <<work.key, c>> \notin done
    <3>1. /\ done' = done \cup {<<work.key, c>>} /\ LogResult(c, "tool")
          /\ wait' = NoWait \/ wait' = wait
      BY <1>5, <2>4 DEF Call
    <3>2. log' \in Seq(Event) /\ repeated' \subseteq CallId
      BY <1>0, <2>1, <3>1, LogResultTyped DEF Grew
    <3>3. wait' \in [key: Nat \X CallId, for: {"none"} \cup Waits, over: BOOLEAN]
      <4>1. NoWait \in [key: Nat \X CallId, for: {"none"} \cup Waits, over: BOOLEAN]
        BY DEF NoWait, CallId
      <4> QED BY <1>0, <3>1, <4>1
    <3>4. done' \subseteq Nat \X CallId
      <4>1. <<work.key, c>> \in Nat \X CallId
        BY <1>0, <2>1
      <4> QED BY <1>0, <3>1, <4>1
    <3> QED BY <1>0, <2>1, <2>2, <3>2, <3>3, <3>4 DEF TypeOK, bounds
  <2> QED BY <2>3, <2>4
<1>7. ASSUME NEW c \in work.todo, Refusal(c) PROVE TypeOK'
  <2>1. /\ UNCHANGED <<row, ckpts, done, wait, pc, time, bounds>> /\ pc = "dispatch" /\ c \in CallId
        /\ Return(c) /\ LogResult(c, "refusal") /\ repeated \subseteq CallId
    BY <1>0, <1>7 DEF Refusal, Keep, TypeOK
  <2>2. work' \in Memory /\ work'.outcome = work.outcome
    BY <1>0, <2>1, ReturnTyped
  <2>3. log' \in Seq(Event) /\ repeated' \subseteq CallId
    BY <1>0, <2>1, LogResultTyped DEF Grew
  <2> QED BY <1>0, <2>1, <2>2, <2>3 DEF TypeOK, bounds
<1>6. ASSUME NEW n \in 0..MaxBatch, NEW answer \in {"tools", "text", "empty"}, Ask(n, answer) PROVE TypeOK'
  <2>1. PICK d : /\ d = (IF work.reserve # "none" THEN work.reserve ELSE Reserve(TRUE, TRUE, TRUE))
                 /\ log' = Append(log, [type |-> "response", calls |-> n, base |-> row.tools,
                                        reserve |-> d, step |-> row.steps])
    BY <1>6 DEF Ask
  <2>2. d \in Dimension
    BY <1>0, <2>1, ReserveTyped DEF Memory
  <2>3. [type |-> "response", calls |-> n, base |-> row.tools, reserve |-> d, step |-> row.steps] \in Event
    BY <1>0, <2>2 DEF Event, Responses
  <2>4. log' \in Seq(Event)
    BY <1>0, <2>1, <2>3
  <2>5. /\ UNCHANGED <<repeated, row, ckpts, done, wait, time, bounds>> /\ pc' = "charge" /\ pc = "ask"
        /\ work' = [work EXCEPT !.attempt = @ + 1, !.answer = answer]
    BY <1>6 DEF Ask, Keep
  <2>6. work' \in Memory /\ work'.outcome = work.outcome
    BY <1>0, <2>5, AttemptTyped
  <2> QED BY <1>0, <2>4, <2>5, <2>6 DEF TypeOK, bounds, Running
<1> QED BY <1>1, <1>2, <1>3, <1>4, <1>5, <1>6, <1>7

-----------------------------------------------------------------------------
(* What the parts of the invariant need of a step that leaves the log as it is *)

Replying == {"start", "repair", "resume", "settle", "end"} \cup Terminal

LEMMA OpenKept ==
  ASSUME OpenInv, UNCHANGED log,
         \/ NoneOpen
         \/ /\ row'.steps = row.steps /\ row'.tools = row.tools /\ pc' \notin Quiet
            /\ pc' \in {"charge", "respond"} => pc \in {"charge", "respond"} /\ work'.answer = work.answer
            /\ pc' \in AtBatch => pc \in AtBatch /\ work'.todo = work.todo
  PROVE  OpenInv'
<1> SUFFICES ASSUME NEW t \in DOMAIN log, NEW c \in CallsAt(t), ~Given(c)
             PROVE  /\ \A j \in (t + 1)..Len(log) : Is("result", j)
                    /\ log[t].step = row'.steps /\ log[t].base = row'.tools
                    /\ pc' \notin Quiet
                    /\ pc' \in {"charge", "respond"} => work'.answer = "tools"
                    /\ pc' \in AtBatch => c \in work'.todo
  <2>1. /\ \A u : CallsAt(u)' = CallsAt(u)
        /\ \A d : Given(d)' <=> Given(d)
        /\ \A j : Is("result", j)' <=> Is("result", j)
    BY SameLog DEF Is
  <2> QED BY <2>1 DEF OpenInv
<1>1. ~NoneOpen
  BY DEF NoneOpen
<1> QED BY <1>1 DEF OpenInv

LEMMA CheckpointsKept ==
  ASSUME TypeOK, Grew, CheckpointInv,
         \/ UNCHANGED ckpts /\ ckpts # <<>>
         \/ \E c \in Checkpoints : Write(c) /\ CheckpointFits(c)'
  PROVE  CheckpointInv' /\ ckpts' # <<>>
<1>0. ckpts \in Seq(Checkpoints)
  BY DEF TypeOK
<1>1. CASE UNCHANGED ckpts /\ ckpts # <<>>
  <2>1. \A k \in DOMAIN ckpts : ckpts[k] \in Checkpoints /\ CheckpointFits(ckpts[k])
    BY <1>0 DEF CheckpointInv
  <2>2. \A e \in Checkpoints : CheckpointFits(e) => CheckpointFits(e)'
    BY CheckpointKeeps
  <2>3. \A k \in DOMAIN ckpts : CheckpointFits(ckpts[k])'
    <3> TAKE k \in DOMAIN ckpts
    <3>1. PICK e \in Checkpoints : e = ckpts[k] /\ CheckpointFits(e)
      BY <2>1
    <3>2. CheckpointFits(e)' /\ e = ckpts'[k]
      BY <1>1, <2>2, <3>1
    <3> QED BY <3>2
  <2> QED BY <1>1, <2>3 DEF CheckpointInv
<1>2. CASE \E c \in Checkpoints : Write(c) /\ CheckpointFits(c)'
  <2>1. PICK c \in Checkpoints : Write(c) /\ CheckpointFits(c)'
    BY <1>2
  <2>2. AllFit
    BY DEF CheckpointInv, AllFit
  <2>3. ckpts' # <<>> /\ AllFit'
    BY <1>0, <2>1, <2>2, WriteKeeps
  <2> QED BY <2>3 DEF CheckpointInv, AllFit
<1> QED BY <1>1, <1>2

LEMMA RepliesKept ==
  ASSUME ReplyInv, UNCHANGED <<log, losses>>,
         \/ pc \notin Replying
         \/ losses = 0 => \A i \in DOMAIN log : ~Is("reply", i)
         \/ UNCHANGED ckpts /\ pc' \in Replying /\ work'.outcome # "SUSPENDED"
  PROVE  ReplyInv'
<1> QED BY DEF ReplyInv, Replying, Is, Latest

\* Where no call is open.
LEMMA NoneOpenAt ==
  ASSUME OpenInv,
         \/ pc \in Quiet
         \/ pc \in {"charge", "respond"} /\ work.answer # "tools"
         \/ pc \in AtBatch /\ work.todo = {}
  PROVE  NoneOpen
<1> QED BY DEF OpenInv, NoneOpen

LEMMA SameFits ==
  ASSUME UNCHANGED log
  PROVE  \A c : CheckpointFits(c)' <=> CheckpointFits(c)
<1> QED BY DEF CheckpointFits, Fits, FirstOf, LastUpTo, GivenBy, Has, Is, IsTurn, CallsAt

LEMMA BatchKept ==
  ASSUME BatchInv, UNCHANGED <<log, repeated, work>>,
         pc' \in AtBatch => /\ pc \in AtBatch
                            /\ pc' # "pend" => work.batch # {}
                            /\ pc' = "pend" => pc = "pend"
  PROVE  BatchInv'
<1>1. \A c : /\ (Fits(c)' <=> Fits(c)) /\ (Given(c)' <=> Given(c))
             /\ (IsLast(c[1])' <=> IsLast(c[1])) /\ CallsAt(c[1])' = CallsAt(c[1])
             /\ (GivenBy(c, {"budget"})' <=> GivenBy(c, {"budget"}))
             /\ (GivenBy(c, {"budget", "owner"})' <=> GivenBy(c, {"budget", "owner"}))
  BY SameLog
<1>2. CASE pc' \notin AtBatch
  BY <1>2 DEF BatchInv
<1>3. CASE pc' \in AtBatch
  <2>1. \A c \in work.batch :
          /\ IsLast(c[1])' /\ Fits(c)' /\ ~GivenBy(c, {"budget"})'
          /\ work'.key = log'[c[1]].step /\ work'.base = log'[c[1]].base
          /\ \A d \in CallsAt(c[1])' : d \in work'.batch \/ GivenBy(d, {"budget", "owner"})'
    BY <1>1, <1>3 DEF BatchInv
  <2>2. /\ \A c \in work.todo : Given(c)' => c \in work.known
        /\ pc' = "pend" => \A c \in work.todo : ~Given(c)'
    BY <1>1, <1>3 DEF BatchInv
  <2> QED BY <1>3, <2>1, <2>2 DEF BatchInv
<1> QED BY <1>2, <1>3

\* A step that is neither at a response nor at a batch, and suspends nothing.
LEMMA PlainStep ==
  ASSUME LoopInv, TypeOK', UNCHANGED <<log, repeated, done, wait, losses>>,
         pc' \notin AtBatch \cup {"charge", "respond", "fit", "reply", "parked"},
         work'.twice \subseteq repeated', work'.outcome # "SUSPENDED",
         NoneOpen \/ (row'.steps = row.steps /\ row'.tools = row.tools /\ pc' \notin Quiet),
         \/ UNCHANGED ckpts /\ ckpts # <<>>
         \/ \E c \in Checkpoints : Write(c) /\ CheckpointFits(c),
         \/ pc \notin Replying
         \/ losses = 0 => \A i \in DOMAIN log : ~Is("reply", i)
         \/ UNCHANGED ckpts /\ pc' \in Replying
  PROVE  LoopInv'
<1>1. LogInv' /\ \A c : Fits(c)' <=> Fits(c)
  BY SameLog DEF LoopInv
<1>2. OpenInv'
  BY OpenKept DEF LoopInv
<1>3. ResponseInv'
  BY DEF ResponseInv
<1>4. DoneInv'
  BY DEF LoopInv, DoneInv, Is, Performed, GivenBy
<1>5. BatchInv'
  BY DEF BatchInv
<1>6. WaitInv'
  BY <1>1 DEF LoopInv, WaitInv
<1>7. SuspensionInv'
  BY DEF SuspensionInv, Suspending, AtBatch
<1>8. Grew /\ \A c : CheckpointFits(c)' <=> CheckpointFits(c)
  <2>1. Grew
    BY SameGrew DEF LoopInv
  <2> QED BY <2>1, SameFits
<1>9. CheckpointInv'
  BY <1>8, CheckpointsKept DEF LoopInv
<1>10. ReplyInv'
  BY RepliesKept DEF LoopInv
<1> QED BY <1>1, <1>2, <1>3, <1>4, <1>5, <1>6, <1>7, <1>9, <1>10 DEF LoopInv

-----------------------------------------------------------------------------
(* The steps that leave the log as it is *)

\* A run that repairs its usage has no open call.
LEMMA RepairsNothingOpen ==
  ASSUME TypeOK, LogInv, OpenInv, Missing # 0
  PROVE  NoneOpen
<1> DEFINE T == TurnAt(Len(log))
<1>0. log \in Seq(Event)
  BY DEF TypeOK
<1>1. CallsAt(T) \subseteq Answered(T, Len(log))
  BY DEF Missing
<1>2. SUFFICES ASSUME NEW t \in DOMAIN log, NEW c \in CallsAt(t), ~Given(c) PROVE FALSE
  BY DEF NoneOpen
<1>3. IsLast(t)
  BY <1>0, <1>2, OpenIsLast
<1>4. /\ \A d : d \in Answered(T, Len(log)) <=> d \in CallsAt(t) /\ Given(d)
      /\ T = t \/ \A d \in CallsAt(t) : GivenBy(d, {"owner"})
  BY <1>0, <1>3, LastIsFound
<1>5. GivenBy(c, {"owner"}) => Given(c)
  BY <1>0 DEF GivenBy, Given, Has
<1>6. T = t
  BY <1>2, <1>4, <1>5
<1> HIDE DEF T
<1> QED BY <1>1, <1>2, <1>4, <1>6

\* The first steps of a worker, and those of a step that has its results.
LEMMA Kept1 ==
  ASSUME LoopInv, TypeOK', Start \/ Repair \/ Settle \/ Usage \/ SaveBatch \/ Step \/ Build
  PROVE  LoopInv'
<1>0. /\ TypeOK /\ LogInv /\ OpenInv /\ BatchInv /\ CheckpointInv
      /\ work.twice \subseteq repeated /\ (pc = "end" <=> work.outcome # "none")
      /\ row \in [steps: Nat, models: Nat, tools: Nat] /\ row.tools \in Nat /\ work.extra \in Nat
  BY DEF LoopInv, BatchInv, TypeOK, Memory
<1>00. "FAILED" \in Outcome /\ "COMPLETED" \in Outcome
  BY DEF Outcome, Terminal
<1>p. \E c \in Checkpoints : c = Checkpoint({}, row.steps, row.tools) /\ CheckpointFits(c)
  BY <1>0, PlainCheckpoint
<1>1. CASE Start
  <2>1. /\ pc' = "repair" /\ work' = [Fresh EXCEPT !.twice = repeated]
        /\ UNCHANGED <<log, repeated, row, done, wait, losses>>
        /\ (UNCHANGED ckpts /\ ckpts # <<>>) \/ (ckpts = <<>> /\ Write(Checkpoint({}, row.steps, row.tools)))
    BY <1>1 DEF Start, Keep, bounds
  <2>2. work'.twice \subseteq repeated' /\ work'.outcome # "SUSPENDED"
    <3>1. repeated \in SUBSET CallId /\ "none" \in Dimension
      BY <1>0 DEF TypeOK, Dimension
    <3> QED BY <2>1, <3>1, FreshWith
  <2>3. pc' \in Replying /\ pc' \notin Quiet \cup AtBatch
    BY <2>1 DEF Replying, AtBatch, Quiet
  <2>4. (losses = 0 => \A i \in DOMAIN log : ~Is("reply", i)) \/ UNCHANGED ckpts
    BY <1>0, <2>1 DEF CheckpointInv
  <2> QED BY <1>p, <2>1, <2>2, <2>3, <2>4, PlainStep
<1>2. CASE Repair
  <2>1. RecordTools(Missing, "resume") /\ UNCHANGED <<log, repeated, ckpts, done, wait, losses>> /\ pc = "repair"
    BY <1>2 DEF Repair, Keep, bounds
  <2>2. /\ row'.tools = row.tools + Missing /\ row'.steps = row.steps
        /\ EndWith("FAILED") \/ (pc' = "resume" /\ UNCHANGED work)
    BY <1>0, <2>1, MissingTyped, RecordTyped
  <2>3. work'.twice \subseteq repeated' /\ pc' \in {"end", "resume"} /\ work'.outcome # "SUSPENDED"
    BY <1>0, <1>00, <2>1, <2>2, EndWithTyped
  <2>4. NoneOpen \/ row'.tools = row.tools
    BY <1>0, <2>2, RepairsNothingOpen
  <2>5. pc' \in Replying /\ pc' \notin Quiet \cup AtBatch \cup {"charge", "respond", "fit", "reply", "parked"}
    BY <2>3 DEF Replying, AtBatch, Quiet
  <2>6. ckpts # <<>>
    BY <1>0, <2>1 DEF CheckpointInv
  <2> QED BY <2>1, <2>2, <2>3, <2>4, <2>5, <2>6, PlainStep
<1>3. CASE Settle
  <2>1. UNCHANGED <<log, repeated, ckpts, done, wait, losses>> /\ pc = "settle"
    BY <1>3 DEF Settle, Keep, bounds
  <2>2. EndWith("FAILED") \/ EndWith("COMPLETED") \/ (~Answers(TurnAt(Len(log))) /\ pc' = "loop" /\ UNCHANGED work)
    BY <1>3 DEF Settle
  <2>3. work'.twice \subseteq repeated' /\ work'.outcome # "SUSPENDED" /\ pc' \in {"end", "loop"}
    BY <1>0, <1>00, <2>1, <2>2, EndWithTyped
  <2>4. NoneOpen
    BY <1>0, <2>1, NoneOpenAt DEF Quiet
  <2>5. pc' \in Replying \/ \A i \in DOMAIN log : Is("reply", i) => losses # 0
    <3>1. CASE pc' = "end"
      BY <3>1 DEF Replying
    <3>2. CASE pc' # "end"
      <4>1. ~Answers(TurnAt(Len(log)))
        BY <1>00, <2>2, <3>2, EndWithTyped
      <4> SUFFICES ASSUME NEW i \in DOMAIN log, Is("reply", i), losses = 0 PROVE FALSE
        OBVIOUS
      <4>2. i = Len(log)
        BY DEF LoopInv, ReplyInv
      <4>0. log \in Seq(Event)
        BY <1>0 DEF TypeOK
      <4>3. log \in Seq(Event) /\ Len(log) \in 0..Len(log) /\ i \in 1..Len(log)
        BY <4>0
      <4>4. /\ TurnAt(Len(log)) \in 0..Len(log)
            /\ \A j \in (TurnAt(Len(log)) + 1)..Len(log) : ~Is("reply", j)
        BY <4>3, TurnFound
      <4>5. TurnAt(Len(log)) = i
        BY <4>2, <4>3, <4>4
      <4> QED BY <4>1, <4>3, <4>5 DEF Answers
    <3> QED BY <3>1, <3>2
  <2>6. pc' \notin AtBatch \cup {"charge", "respond", "fit", "reply", "parked"}
    BY <2>3 DEF AtBatch
  <2>7. ckpts # <<>>
    BY <1>0, <2>1 DEF CheckpointInv
  <2> QED BY <2>1, <2>3, <2>4, <2>5, <2>6, <2>7, PlainStep
<1>4. CASE Usage
  <2>1. UNCHANGED <<log, repeated, ckpts, done, wait, losses>> /\ pc = "dispatch" /\ work.todo = {}
    BY <1>4 DEF Usage, Keep, bounds
  <2>2. EndWith("FAILED") \/ (pc' = "save" /\ UNCHANGED work)
    BY <1>4 DEF Usage, RecordTools
  <2>3. work'.twice \subseteq repeated' /\ work'.outcome # "SUSPENDED" /\ pc' \in {"end", "save"}
    BY <1>0, <1>00, <2>1, <2>2, EndWithTyped
  <2>4. NoneOpen
    BY <1>0, <2>1, NoneOpenAt DEF AtBatch
  <2>5. pc \notin Replying /\ pc' \notin AtBatch \cup {"charge", "respond", "fit", "reply", "parked"}
    BY <2>1, <2>3 DEF Replying, AtBatch, Terminal
  <2>6. ckpts # <<>>
    BY <1>0, <2>1 DEF CheckpointInv
  <2> QED BY <2>1, <2>3, <2>4, <2>5, <2>6, PlainStep
<1>5. CASE SaveBatch
  <2>1. /\ UNCHANGED <<log, repeated, row, done, wait, losses>> /\ pc = "save"
        /\ Write(Checkpoint({}, row.steps, row.tools))
        /\ EndWith("FAILED") \/ (pc' = "loop" /\ work' = [Fresh EXCEPT !.twice = work.twice])
    BY <1>5 DEF SaveBatch, Keep, bounds
  <2>3. work'.twice \subseteq repeated' /\ work'.outcome # "SUSPENDED" /\ pc' \in {"end", "loop"}
    <3>1. [Fresh EXCEPT !.twice = work.twice].twice = work.twice /\ [Fresh EXCEPT !.twice = work.twice].outcome = "none"
      BY <1>0 DEF Fresh
    <3> QED BY <1>0, <1>00, <2>1, <3>1, EndWithTyped
  <2>4. NoneOpen
    BY <1>0, <2>1, NoneOpenAt DEF Quiet
  <2>5. pc \notin Replying /\ pc' \notin AtBatch \cup {"charge", "respond", "fit", "reply", "parked"}
    BY <2>1, <2>3 DEF Replying, AtBatch, Terminal
  <2> QED BY <1>p, <2>1, <2>3, <2>4, <2>5, PlainStep
<1>6. CASE Step
  <2>1. /\ UNCHANGED <<log, repeated, ckpts, done, wait, losses>> /\ pc = "loop"
        /\ \/ EndWith("FAILED")
           \/ /\ pc' = "build"
              /\ work' = [Fresh EXCEPT !.reserve = Reserve(TRUE, FALSE, FALSE), !.twice = work.twice]
    BY <1>6 DEF Step, Keep, bounds
  <2>3. work'.twice \subseteq repeated' /\ work'.outcome # "SUSPENDED" /\ pc' \in {"end", "build"}
    <3>1. \A d : /\ [Fresh EXCEPT !.reserve = d, !.twice = work.twice].twice = work.twice
                 /\ [Fresh EXCEPT !.reserve = d, !.twice = work.twice].outcome = "none"
      BY <1>0 DEF Fresh
    <3> QED BY <1>0, <1>00, <2>1, <3>1, EndWithTyped
  <2>4. NoneOpen
    BY <1>0, <2>1, NoneOpenAt DEF Quiet
  <2>5. pc \notin Replying /\ pc' \notin AtBatch \cup {"charge", "respond", "fit", "reply", "parked"}
    BY <2>1, <2>3 DEF Replying, AtBatch, Terminal
  <2>6. ckpts # <<>>
    BY <1>0, <2>1 DEF CheckpointInv
  <2> QED BY <2>1, <2>3, <2>4, <2>5, <2>6, PlainStep
<1>7. CASE Build
  <2>1. /\ UNCHANGED <<log, repeated, row, done, wait, losses>> /\ pc = "build"
        /\ UNCHANGED ckpts \/ Write(Checkpoint({}, row.steps, row.tools))
        /\ EndWith("FAILED") \/ (pc' = "ask" /\ UNCHANGED work)
    BY <1>7 DEF Build, WriteExtra
  <2>3. work'.twice \subseteq repeated' /\ work'.outcome # "SUSPENDED" /\ pc' \in {"end", "ask"}
    BY <1>0, <1>00, <2>1, EndWithTyped
  <2>4. NoneOpen
    BY <1>0, <2>1, NoneOpenAt DEF Quiet
  <2>5. pc \notin Replying /\ pc' \notin AtBatch \cup {"charge", "respond", "fit", "reply", "parked"}
    BY <2>1, <2>3 DEF Replying, AtBatch, Terminal
  <2>6. ckpts # <<>>
    BY <1>0, <2>1 DEF CheckpointInv
  <2> QED BY <1>p, <2>1, <2>3, <2>4, <2>5, <2>6, PlainStep
<1> QED BY <1>1, <1>2, <1>3, <1>4, <1>5, <1>6, <1>7

\* The steps of a response that ends the execution or asks again, and those of the
\* environment.
LEMMA Kept2 ==
  ASSUME LoopInv, TypeOK', AskFails \/ Cancelled \/ CancelParked \/ Crash
  PROVE  LoopInv'
<1>0. /\ TypeOK /\ OpenInv /\ CheckpointInv
      /\ work.twice \subseteq repeated /\ work \in Memory /\ (pc = "end" <=> work.outcome # "none")
  BY DEF LoopInv, BatchInv, TypeOK
<1>00. "FAILED" \in Outcome /\ "CANCELLED" \in Outcome
  BY DEF Outcome, Terminal
<1>1. CASE AskFails
  <2>1. /\ UNCHANGED <<log, repeated, ckpts, done, wait, losses>> /\ pc = "ask"
        /\ EndWith("FAILED") \/ (pc' = "ask" /\ work' = [work EXCEPT !.attempt = @ + 1])
    BY <1>1 DEF AskFails, Keep, bounds
  <2>2. work'.twice \subseteq repeated' /\ work'.outcome # "SUSPENDED" /\ pc' \in {"end", "ask"}
    BY <1>0, <1>00, <2>1, EndWithTyped, AttemptTyped
  <2>3. NoneOpen
    BY <1>0, <2>1, NoneOpenAt DEF Quiet
  <2>4. pc \notin Replying /\ pc' \notin AtBatch \cup {"charge", "respond", "fit", "reply", "parked"}
    BY <2>1, <2>2 DEF Replying, AtBatch, Terminal
  <2>5. ckpts # <<>>
    BY <1>0, <2>1 DEF CheckpointInv
  <2> QED BY <2>1, <2>2, <2>3, <2>4, <2>5, PlainStep
<1>2. CASE Cancelled
  <2>1. /\ UNCHANGED <<log, repeated, row, ckpts, done, wait, losses>> /\ pc # "start"
        /\ EndWith("FAILED") \/ EndWith("CANCELLED")
    BY <1>2 DEF Cancelled, Keep, bounds, durable
  <2>2. work'.twice \subseteq repeated' /\ work'.outcome # "SUSPENDED" /\ pc' = "end"
    BY <1>00, <2>1, EndWithTyped
  <2>3. pc' \in Replying /\ pc' \notin Quiet \cup AtBatch \cup {"charge", "respond", "fit", "reply", "parked"}
    BY <2>2 DEF Replying, AtBatch, Quiet
  <2>4. ckpts # <<>>
    BY <1>0, <2>1 DEF CheckpointInv
  <2> QED BY <2>1, <2>2, <2>3, <2>4, PlainStep
<1>3. CASE CancelParked
  <2>1. UNCHANGED <<log, repeated, row, ckpts, done, wait, losses, work>> /\ pc = "parked" /\ pc' = "CANCELLED"
    BY <1>3 DEF CancelParked, Keep, bounds, durable
  <2>2. pc' \in Replying /\ pc' \notin Quiet \cup AtBatch \cup {"charge", "respond", "fit", "reply", "parked"}
    BY <2>1 DEF Replying, AtBatch, Quiet, Terminal
  <2>3. ckpts # <<>> /\ work'.twice \subseteq repeated' /\ work'.outcome # "SUSPENDED"
    BY <1>0, <2>1 DEF CheckpointInv
  <2> QED BY <2>1, <2>2, <2>3, PlainStep
<1>4. CASE Crash
  <2>1. UNCHANGED <<log, repeated, row, ckpts, done, wait, losses>> /\ pc \in Running /\ pc' = "start" /\ work' = Fresh
    BY <1>4 DEF Crash, durable
  <2>2. pc' \in Replying /\ pc' \notin Quiet \cup AtBatch \cup {"charge", "respond", "fit", "reply", "parked"}
    BY <2>1 DEF Replying, AtBatch, Quiet
  <2>3. ckpts # <<>> /\ work'.twice \subseteq repeated' /\ work'.outcome # "SUSPENDED"
    BY <1>0, <2>1, FreshTyped DEF CheckpointInv, Running
  <2> QED BY <2>1, <2>2, <2>3, PlainStep
<1> QED BY <1>1, <1>2, <1>3, <1>4

\* Time passes, or nothing changes.
LEMMA Kept3 ==
  ASSUME LoopInv, TypeOK', UNCHANGED <<durable, pc, work, bounds>>
  PROVE  LoopInv'
<1>1. UNCHANGED <<log, repeated, row, ckpts, done, wait, pc, work, losses>>
  BY DEF durable, bounds
<1>2. LogInv' /\ \A c : (Fits(c)' <=> Fits(c)) /\ (Given(c)' <=> Given(c))
  BY <1>1, SameLog DEF LoopInv
<1>3. OpenInv'
  <2>1. NoneOpen \/ pc \notin Quiet
    BY NoneOpenAt DEF LoopInv
  <2> QED BY <1>1, <2>1, OpenKept DEF LoopInv
<1>4. ResponseInv' /\ DoneInv'
  BY <1>1 DEF LoopInv, ResponseInv, DoneInv, Is, IsTurn, Performed, GivenBy
<1>5. BatchInv'
  <2>1. pc \in AtBatch /\ pc # "pend" => work.batch # {}
    BY DEF LoopInv, BatchInv
  <2> QED BY <1>1, <2>1, BatchKept DEF LoopInv
<1>6. WaitInv' /\ SuspensionInv'
  BY <1>1, <1>2 DEF LoopInv, WaitInv, SuspensionInv, Suspending, Latest
<1>7. CheckpointInv'
  <2>1. \A c : CheckpointFits(c)' <=> CheckpointFits(c)
    BY <1>1, SameFits
  <2>2. \A k \in DOMAIN ckpts : CheckpointFits(ckpts[k])'
    <3> TAKE k \in DOMAIN ckpts
    <3>1. PICK e : e = ckpts[k] /\ CheckpointFits(e)
      BY DEF LoopInv, CheckpointInv
    <3>2. CheckpointFits(e)' /\ e = ckpts'[k]
      BY <1>1, <2>1, <3>1
    <3> QED BY <3>2
  <2> QED BY <1>1, <2>2 DEF LoopInv, CheckpointInv
<1>8. ReplyInv'
  BY <1>1 DEF LoopInv, ReplyInv, Is, Latest
<1> QED BY <1>2, <1>3, <1>4, <1>5, <1>6, <1>7, <1>8 DEF LoopInv

\* The model has answered: the answer is charged, written, and taken up.
LEMMA Kept4 ==
  ASSUME LoopInv, TypeOK', Charge \/ Respond
  PROVE  LoopInv'
<1>0. /\ TypeOK /\ OpenInv /\ ResponseInv /\ BatchInv /\ CheckpointInv /\ LogInv /\ WaitInv /\ ReplyInv
      /\ work.twice \subseteq repeated /\ work \in Memory /\ (pc = "end" <=> work.outcome # "none")
      /\ row.models \in Nat /\ row \in [steps: Nat, models: Nat, tools: Nat]
  BY DEF LoopInv, BatchInv, TypeOK
<1>00. "FAILED" \in Outcome
  BY DEF Outcome, Terminal
<1>1. CASE Charge
  <2>1. /\ UNCHANGED <<log, repeated, ckpts, done, wait, losses>> /\ pc = "charge"
        /\ row' = [row EXCEPT !.models = @ + 1]
        /\ \/ EndWith("FAILED")
           \/ UNCHANGED work /\ (pc' = "respond" \/ (work.answer = "empty" /\ pc' = "ask"))
    BY <1>1 DEF Charge, Keep, bounds
  <2>2. row'.steps = row.steps /\ row'.tools = row.tools
    BY <1>0, <2>1
  <2>3. work'.twice \subseteq repeated' /\ work'.outcome # "SUSPENDED"
    BY <1>0, <1>00, <2>1, EndWithTyped
  <2>4. ckpts # <<>> /\ pc \notin Replying
    BY <1>0, <2>1 DEF CheckpointInv, Replying, Terminal
  <2>5. CASE pc' # "respond"
    <3>1. pc' = "end" \/ (work.answer = "empty" /\ pc' = "ask")
      BY <1>00, <2>1, <2>5, EndWithTyped
    <3>2. NoneOpen \/ pc' \notin Quiet
      BY <1>0, <2>1, <3>1, NoneOpenAt DEF Quiet
    <3>3. pc' \notin AtBatch \cup {"charge", "respond", "fit", "reply", "parked"}
      BY <3>1 DEF AtBatch
    <3> QED BY <2>1, <2>2, <2>3, <2>4, <3>2, <3>3, PlainStep
  <2>6. CASE pc' = "respond"
    <3>1. UNCHANGED work
      BY <1>00, <2>1, <2>6, EndWithTyped
    <3>2. OpenInv'
      BY <1>0, <2>1, <2>2, <2>6, <3>1, OpenKept DEF Quiet, AtBatch
    <3>3. ResponseInv'
      BY <1>0, <2>1, <2>6, <3>1 DEF ResponseInv, IsTurn, Is
    <3>4. BatchInv'
      BY <1>0, <2>1, <2>6, <3>1, BatchKept DEF AtBatch
    <3>5. LogInv' /\ WaitInv' /\ DoneInv'
      <4>1. \A c : Fits(c)' <=> Fits(c)
        BY <2>1, SameLog
      <4> QED BY <1>0, <2>1, <4>1, SameLog DEF LoopInv, WaitInv, DoneInv, Is, Performed, GivenBy
    <3>6. SuspensionInv'
      BY <2>3, <2>6 DEF SuspensionInv, Suspending
    <3>7. CheckpointInv' /\ ReplyInv'
      <4>1. Grew
        BY <1>0, <2>1, SameGrew
      <4> QED BY <1>0, <2>1, <2>4, <4>1, CheckpointsKept, RepliesKept
    <3> QED BY <3>2, <3>3, <3>4, <3>5, <3>6, <3>7 DEF LoopInv
  <2> QED BY <2>5, <2>6
<1>2. CASE Respond
  <2>1. /\ UNCHANGED <<log, repeated, row, done, wait, losses, work>> /\ pc = "respond"
        /\ Write(Checkpoint({}, row.steps, row.tools))
        /\ pc' = IF work.answer = "tools" THEN "fit" ELSE "reply"
    BY <1>2 DEF Respond, Keep, bounds
  <2>2. OpenInv'
    <3>1. CASE work.answer = "tools"
      BY <1>0, <2>1, <3>1, OpenKept DEF Quiet, AtBatch
    <3>2. CASE work.answer # "tools"
      <4>1. NoneOpen
        BY <1>0, <2>1, <3>2, NoneOpenAt
      <4> QED BY <1>0, <2>1, <4>1, OpenKept
    <3> QED BY <3>1, <3>2
  <2>3. ResponseInv'
    BY <1>0, <2>1 DEF ResponseInv, IsTurn, Is
  <2>4. BatchInv'
    BY <1>0, <2>1, BatchKept DEF AtBatch
  <2>5. LogInv' /\ WaitInv' /\ DoneInv'
    <3>1. \A c : Fits(c)' <=> Fits(c)
      BY <2>1, SameLog
    <3> QED BY <1>0, <2>1, <3>1, SameLog DEF LoopInv, WaitInv, DoneInv, Is, Performed, GivenBy
  <2>6. SuspensionInv'
    BY <1>0, <2>1 DEF SuspensionInv, Suspending
  <2>7. CheckpointInv'
    <3>1. Grew /\ \A c : CheckpointFits(c)' <=> CheckpointFits(c)
      BY <1>0, <2>1, SameGrew, SameFits
    <3>2. \E c \in Checkpoints : Write(c) /\ CheckpointFits(c)
      BY <1>0, <2>1, PlainCheckpoint
    <3> QED BY <1>0, <3>1, <3>2, CheckpointsKept
  <2>8. ReplyInv'
    <3>1. pc \notin Replying
      BY <2>1 DEF Replying, Terminal
    <3> QED BY <1>0, <2>1, <3>1, RepliesKept
  <2> QED BY <2>2, <2>3, <2>4, <2>5, <2>6, <2>7, <2>8 DEF LoopInv
<1> QED BY <1>1, <1>2

\* A step from a batch to itself.
LEMMA BatchStep ==
  ASSUME LoopInv, TypeOK', UNCHANGED <<log, repeated, row, done, work, losses>>,
         pc \in AtBatch, pc' \in AtBatch \ {"pend"}, work.batch # {},
         UNCHANGED ckpts \/ \E c \in Checkpoints : Write(c) /\ CheckpointFits(c),
         WaitInv', SuspensionInv'
  PROVE  LoopInv'
<1>0. /\ TypeOK /\ OpenInv /\ LogInv /\ BatchInv /\ CheckpointInv /\ ReplyInv
      /\ pc \notin Replying /\ pc # "start"
  BY DEF LoopInv, AtBatch, Replying, Terminal
<1>1. OpenInv'
  <2>1. pc' \notin Quiet \cup {"charge", "respond"}
    BY DEF AtBatch, Quiet
  <2> QED BY <1>0, <2>1, OpenKept
<1>2. ResponseInv'
  BY DEF ResponseInv, AtBatch
<1>3. BatchInv'
  BY <1>0, BatchKept
<1>4. LogInv' /\ DoneInv'
  BY <1>0, SameLog DEF LoopInv, DoneInv, Is, Performed, GivenBy
<1>5. CheckpointInv'
  <2>1. Grew /\ \A c : CheckpointFits(c)' <=> CheckpointFits(c)
    BY <1>0, SameGrew, SameFits
  <2>2. ckpts # <<>>
    BY <1>0 DEF CheckpointInv
  <2> QED BY <1>0, <2>1, <2>2, CheckpointsKept
<1>6. ReplyInv'
  BY <1>0, RepliesKept
<1> QED BY <1>1, <1>2, <1>3, <1>4, <1>5, <1>6 DEF LoopInv

\* The open calls of a batch, and the count and the step it goes by.
LEMMA BatchIsOpen ==
  ASSUME TypeOK, OpenInv, BatchInv, pc \in AtBatch, NEW c \in work.batch, ~Given(c)
  PROVE  row.steps = work.key /\ row.tools = work.base
<1>1. IsLast(c[1]) /\ Fits(c) /\ work.key = log[c[1]].step /\ work.base = log[c[1]].base
  BY DEF BatchInv
<1>2. c[1] \in DOMAIN log /\ c \in CallsAt(c[1])
  BY <1>1 DEF IsLast, Fits, FirstOf
<1> QED BY <1>1, <1>2 DEF OpenInv

\* A call of the batch that is not settled has no result, unless the pipeline refused it.
LEMMA UnsettledIsOpen ==
  ASSUME TypeOK, BatchInv, DoneInv, pc = "dispatch", NEW c \in work.todo, <<work.key, c>> \notin done,
         Refusals # "passing", Pardoned(c)
  PROVE  ~Given(c)
<1>1. c \in work.batch /\ ~GivenBy(c, {"budget"}) /\ work.key = log[c[1]].step
  BY DEF BatchInv, AtBatch
<1>2. SUFFICES ASSUME NEW i \in DOMAIN log, Is("result", i), log[i].call = c PROVE FALSE
  BY DEF Given, Has, TypeOK
<1>3. log[i].by # "budget"
  BY <1>1, <1>2 DEF GivenBy
<1>4. log[i] \in Results
  BY <1>2, EventKinds DEF TypeOK
<1>5. log[i].by # "refusal"
  <2>1. log[i] # Result(c, "refusal")
    BY <1>2 DEF Pardoned
  <2> QED BY <1>2, <1>4, <2>1 DEF Result, Results
<1>6. log[i].by \in {"tool", "owner"}
  BY <1>3, <1>4, <1>5 DEF Results
<1>7. <<log[log[i].call[1]].step, log[i].call>> \in done
  BY <1>2, <1>6 DEF DoneInv
<1> QED BY <1>1, <1>2, <1>7

LEMMA Kept5 ==
  ASSUME LoopInv, TypeOK', Recall \/ Pend
  PROVE  LoopInv'
<1>0. /\ TypeOK /\ OpenInv /\ BatchInv /\ CheckpointInv /\ WaitInv /\ SuspensionInv
      /\ work.twice \subseteq repeated /\ (pc = "end" <=> work.outcome # "none")
  BY DEF LoopInv, BatchInv, TypeOK
<1>1. CASE Recall
  <2>1. /\ UNCHANGED <<log, repeated, row, done, wait, work, losses>> /\ pc = "recall" /\ pc' = "dispatch"
        /\ UNCHANGED ckpts \/ Write(Checkpoint(work.batch, work.key, work.base))
    BY <1>1 DEF Recall, WriteExtra
  <2>2. pc \in AtBatch /\ pc' \in AtBatch \ {"pend"} /\ work.batch # {}
    BY <1>0, <2>1 DEF AtBatch, BatchInv
  <2>3. UNCHANGED ckpts \/ \E c \in Checkpoints : Write(c) /\ CheckpointFits(c)
    BY <1>0, <2>1, <2>2, BatchCheckpoint
  <2>4. WaitInv' /\ SuspensionInv'
    <3>1. \A c : Fits(c)' <=> Fits(c)
      BY <2>1, SameLog
    <3> QED BY <1>0, <2>1, <3>1 DEF WaitInv, SuspensionInv, Suspending
  <2> QED BY <2>1, <2>2, <2>3, <2>4, BatchStep
<1>2. CASE Pend
  <2>1. /\ UNCHANGED <<log, repeated, row, done, wait, work, losses>> /\ pc = "pend"
        /\ Write(Checkpoint(work.batch, row.steps, row.tools))
        /\ pc' = IF work.batch = {} THEN "loop" ELSE "recall"
    BY <1>2 DEF Pend, Keep, bounds
  <2>2. work.todo = work.batch /\ \A c \in work.todo : ~Given(c)
    BY <1>0, <2>1 DEF BatchInv, AtBatch
  <2>3. pc \in AtBatch /\ pc \notin Replying
    BY <2>1 DEF AtBatch, Replying, Terminal
  <2>4. CASE work.batch = {}
    <3>1. NoneOpen
      BY <1>0, <2>2, <2>3, <2>4, NoneOpenAt
    <3>2. \E c \in Checkpoints : Write(c) /\ CheckpointFits(c)
      BY <1>0, <2>1, <2>4, PlainCheckpoint
    <3>3. pc' \notin AtBatch \cup {"charge", "respond", "fit", "reply", "parked"}
      BY <2>1, <2>4 DEF AtBatch
    <3> QED BY <1>0, <2>1, <2>3, <3>1, <3>2, <3>3, PlainStep
  <2>5. CASE work.batch # {}
    <3>1. row.steps = work.key /\ row.tools = work.base
      BY <1>0, <2>2, <2>3, <2>5, BatchIsOpen
    <3>2. \E c \in Checkpoints : Write(c) /\ CheckpointFits(c)
      BY <1>0, <2>1, <2>3, <2>5, <3>1, BatchCheckpoint
    <3>3. pc' \in AtBatch \ {"pend"}
      BY <2>1, <2>5 DEF AtBatch
    <3>4. WaitInv' /\ SuspensionInv'
      <4>1. \A c : Fits(c)' <=> Fits(c)
        BY <2>1, SameLog
      <4> QED BY <1>0, <2>1, <2>5, <4>1 DEF WaitInv, SuspensionInv, Suspending
    <3> QED BY <2>1, <2>3, <2>5, <3>2, <3>3, <3>4, BatchStep
  <2> QED BY <2>4, <2>5
<1> QED BY <1>1, <1>2

LEMMA SuspendKept ==
  ASSUME LoneQuestions, Refusals # "passing", LoopInv, TypeOK', NEW c \in work.todo, NEW for \in Waits,
         Suspend(c, for)
  PROVE  LoopInv'
<1>0. /\ TypeOK /\ OpenInv /\ BatchInv /\ DoneInv /\ WaitInv /\ (pc = "end" <=> work.outcome # "none")
  BY DEF LoopInv, TypeOK
<1>1. /\ UNCHANGED <<log, repeated, row, ckpts, done, work, losses>> /\ pc = "dispatch" /\ pc' = "suspend"
      /\ <<work.key, c>> \notin done /\ Pardoned(c)
      /\ wait' = [key |-> <<work.key, c>>, for |-> for, over |-> FALSE]
      /\ wait' = wait \/ (for = "user" => log[c[1]].calls = 1)
  BY DEF Suspend
<1>2. pc \in AtBatch /\ pc' \in AtBatch \ {"pend"} /\ work.batch # {} /\ c \in work.batch
  BY <1>0, <1>1 DEF AtBatch, BatchInv
<1>3. IsLast(c[1]) /\ Fits(c) /\ work.key = log[c[1]].step
  BY <1>0, <1>2 DEF BatchInv
<1>4. ~Given(c)
  BY <1>0, <1>1, UnsettledIsOpen
<1>5. wait'.for = for /\ wait'.key = <<work.key, c>> /\ for # "none"
  BY <1>1, LoopAssumption
<1>6. WaitInv'
  <2>1. for = "user" => log[c[1]].calls = 1
    BY <1>0, <1>1, <1>5 DEF WaitInv
  <2>2. \A d : Fits(d)' <=> Fits(d)
    BY <1>1, SameLog
  <2> QED BY <1>1, <1>3, <1>5, <2>1, <2>2 DEF WaitInv, IsLast
<1>7. SuspensionInv'
  <2>1. \A d : Given(d)' <=> Given(d)
    BY <1>1, SameLog
  <2> QED BY <1>1, <1>2, <1>4, <1>5, <2>1 DEF SuspensionInv
<1> QED BY <1>1, <1>2, <1>6, <1>7, BatchStep

\* What a checkpoint says of its batch does not depend on the approval flag.
LEMMA SameCheckpoint ==
  ASSUME NEW c, NEW d, CheckpointFits(c), d.through = c.through, d.pending = c.pending,
         d.steps = c.steps, d.tools = c.tools
  PROVE  CheckpointFits(d)
<1> QED BY DEF CheckpointFits

\* A suspension is saved, and the run parks.
LEMMA Kept6 ==
  ASSUME LoopInv, TypeOK', SaveSuspension \/ Finalize
  PROVE  LoopInv'
<1>0. /\ TypeOK /\ OpenInv /\ LogInv /\ BatchInv /\ CheckpointInv /\ WaitInv /\ SuspensionInv /\ ReplyInv
      /\ work.twice \subseteq repeated /\ work \in Memory /\ (pc = "end" <=> work.outcome # "none")
      /\ ckpts \in Seq(Checkpoints) /\ log \in Seq(Event) /\ row.steps \in Nat /\ row.tools \in Nat
      /\ work.batch \in SUBSET CallId
  BY DEF LoopInv, BatchInv, TypeOK, Memory
<1>1. ASSUME UNCHANGED <<log, repeated, row, done, wait, losses>>, pc \in {"suspend", "end"}, pc' \in {"end", "parked"},
             Suspending, work'.twice \subseteq repeated', NEW c \in Checkpoints, Write(c), CheckpointFits(c), c.through = Len(log)
      PROVE  LoopInv'
  <2>1. OpenInv'
    BY <1>0, <1>1, OpenKept DEF Quiet, AtBatch
  <2>2. ResponseInv' /\ BatchInv'
    BY <1>1 DEF ResponseInv, BatchInv, AtBatch
  <2>3. \A d : (Fits(d)' <=> Fits(d)) /\ (Given(d)' <=> Given(d))
    BY <1>1, SameLog
  <2>4. LogInv' /\ WaitInv' /\ DoneInv'
    BY <1>0, <1>1, <2>3, SameLog DEF LoopInv, WaitInv, DoneInv, Is, Performed, GivenBy
  <2>5. Latest' = c
    BY <1>0, <1>1, LatestWritten
  <2>6. SuspensionInv'
    BY <1>0, <1>1, <2>3, <2>5 DEF SuspensionInv
  <2>7. CheckpointInv'
    <3>1. Grew /\ CheckpointFits(c)'
      BY <1>0, <1>1, SameGrew, SameFits
    <3> QED BY <1>0, <1>1, <3>1, CheckpointsKept
  <2>8. ReplyInv'
    <3>1. losses = 0 => \A i \in DOMAIN log : ~Is("reply", i)
      BY <1>0, <1>1 DEF ReplyInv, Suspending, Terminal
    <3> QED BY <1>0, <1>1, <3>1, RepliesKept
  <2> QED BY <1>1, <2>1, <2>2, <2>4, <2>6, <2>7, <2>8 DEF LoopInv
<1>2. CASE SaveSuspension
  <2> DEFINE b == Checkpoint(work.batch, row.steps, row.tools)
             c == [b EXCEPT !.approval = (wait.for = "approval")]
  <2>1. /\ UNCHANGED <<log, repeated, row, done, wait, losses>> /\ pc = "suspend" /\ Write(c) /\ EndWith("SUSPENDED")
    BY <1>2 DEF SaveSuspension, Keep, bounds
  <2>2. pc \in AtBatch /\ wait.key[2] \in work.batch /\ ~Given(wait.key[2]) /\ Suspending
    BY <1>0, <2>1 DEF SuspensionInv, Suspending, AtBatch
  <2>3. row.steps = work.key /\ row.tools = work.base
    BY <1>0, <2>2, BatchIsOpen
  <2>4. b \in Checkpoints /\ CheckpointFits(b)
    BY <1>0, <2>2, <2>3, BatchCheckpoint
  <2>5. b.through = Len(log) /\ (wait.for = "approval") \in BOOLEAN
    BY DEF Checkpoint
  <2>6. c \in Checkpoints /\ c.through = b.through /\ c.pending = b.pending /\ c.steps = b.steps /\ c.tools = b.tools
    <3> HIDE DEF b
    <3> QED BY <2>4, <2>5, ApprovalTyped
  <2>7. pc' = "end" /\ work'.twice \subseteq repeated'
    <3>1. "SUSPENDED" \in Outcome
      BY DEF Outcome
    <3> QED BY <2>1, <3>1, EndWithTyped
  <2> HIDE DEF b, c
  <2>8. CheckpointFits(c)
    BY <2>4, <2>6, SameCheckpoint
  <2> QED BY <1>1, <2>1, <2>2, <2>5, <2>6, <2>7, <2>8
<1>3. CASE Finalize
  <2> DEFINE c == [Latest EXCEPT !.through = Len(log)]
  <2>1. /\ UNCHANGED <<log, repeated, row, done, wait, losses>> /\ work' = Fresh /\ pc = "end"
        /\ \/ work.outcome = "SUSPENDED" /\ Write(c) /\ pc' = "parked"
           \/ work.outcome # "SUSPENDED" /\ UNCHANGED ckpts /\ pc' = work.outcome
    BY <1>3 DEF Finalize, Keep, bounds
  <2>2. /\ ckpts # <<>> /\ Latest \in Checkpoints /\ CheckpointFits(Latest) /\ Len(log) \in Nat
    BY <1>0, <2>1, LatestFits
  <2>3. work'.twice \subseteq repeated' /\ work'.outcome # "SUSPENDED"
    BY <2>1, FreshTyped
  <2>4. CASE work.outcome = "SUSPENDED"
    <3>1. Suspending /\ Latest.through = Len(log)
      BY <1>0, <2>1, <2>4 DEF SuspensionInv, Suspending
    <3>2. /\ c \in Checkpoints /\ c.through = Len(log)
          /\ c.pending = Latest.pending /\ c.steps = Latest.steps /\ c.tools = Latest.tools
      BY <2>2 DEF Checkpoints
    <3>3. Write(c) /\ pc' = "parked"
      BY <2>1, <2>4
    <3> HIDE DEF c
    <3>4. CheckpointFits(c)
      BY <2>2, <3>1, <3>2, SameCheckpoint
    <3> QED BY <1>1, <2>1, <2>3, <3>1, <3>2, <3>3, <3>4
  <2>5. CASE work.outcome # "SUSPENDED"
    <3>1. UNCHANGED ckpts /\ pc' \in Terminal
      BY <1>0, <2>1, <2>5 DEF Memory
    <3>2. pc' \in Replying /\ pc' \notin Quiet \cup AtBatch \cup {"charge", "respond", "fit", "reply", "parked"}
      BY <3>1 DEF Replying, Terminal, Quiet, AtBatch
    <3> QED BY <2>1, <2>2, <2>3, <3>1, <3>2, PlainStep
  <2> QED BY <2>4, <2>5
<1> QED BY <1>2, <1>3

\* What the run waits for has come, or checkpoints are lost.
LEMMA Kept7 ==
  ASSUME LoopInv, TypeOK', Resolve \/ Lose
  PROVE  LoopInv'
<1>0. /\ TypeOK /\ OpenInv /\ LogInv /\ BatchInv /\ CheckpointInv /\ WaitInv /\ SuspensionInv /\ ReplyInv
      /\ work.twice \subseteq repeated /\ (pc = "end" <=> work.outcome # "none")
      /\ ckpts \in Seq(Checkpoints) /\ log \in Seq(Event) /\ losses \in 0..MaxLosses
      /\ wait \in [key: Nat \X CallId, for: {"none"} \cup Waits, over: BOOLEAN]
  BY DEF LoopInv, BatchInv, TypeOK
<1>1. UNCHANGED <<log, repeated, row, done, work>> /\ pc' = "start" /\ pc \in {"parked", "start"}
  BY DEF Resolve, Lose
<1>2. OpenInv'
  BY <1>0, <1>1, OpenKept DEF Quiet, AtBatch
<1>3. ResponseInv' /\ BatchInv' /\ SuspensionInv'
  BY <1>0, <1>1 DEF ResponseInv, BatchInv, AtBatch, SuspensionInv, Suspending
<1>4. \A d : (Fits(d)' <=> Fits(d)) /\ (CheckpointFits(d)' <=> CheckpointFits(d))
  BY <1>1, SameLog, SameFits
<1>5. LogInv' /\ DoneInv'
  BY <1>0, <1>1, SameLog DEF LoopInv, DoneInv, Is, Performed, GivenBy
<1>6. CASE Resolve
  <2>1. wait' = [wait EXCEPT !.over = TRUE] /\ UNCHANGED <<ckpts, losses>> /\ pc = "parked"
    BY <1>6 DEF Resolve, Keep, bounds
  <2>2. wait'.for = wait.for /\ wait'.key = wait.key
    BY <1>0, <2>1
  <2>3. WaitInv'
    BY <1>0, <1>1, <1>4, <2>2 DEF WaitInv
  <2>4. CheckpointInv' /\ ReplyInv'
    <3>1. Grew
      BY <1>0, <1>1, SameGrew
    <3>2. ckpts # <<>>
      BY <1>0, <2>1 DEF CheckpointInv
    <3>3. pc \notin Replying
      BY <2>1 DEF Replying, Terminal
    <3> QED BY <1>0, <1>1, <2>1, <3>1, <3>2, <3>3, CheckpointsKept, RepliesKept
  <2> QED BY <1>2, <1>3, <1>5, <2>3, <2>4 DEF LoopInv
<1>7. CASE Lose
  <2>1. UNCHANGED wait /\ losses' = losses + 1
    BY <1>7 DEF Lose
  <2>2. PICK n \in 0..(Len(ckpts) - 1) : ckpts' = SubSeq(ckpts, 1, n)
    BY <1>7 DEF Lose
  <2>3. losses' # 0
    BY <1>0, <2>1
  <2>4. WaitInv' /\ ReplyInv'
    BY <1>0, <1>1, <1>4, <2>1, <2>3 DEF WaitInv, ReplyInv
  <2>5. /\ ckpts' \in Seq(Checkpoints) /\ Len(ckpts') = n
        /\ \A k \in 1..n : k \in DOMAIN ckpts /\ ckpts'[k] = ckpts[k]
    BY <1>0, <2>2, PartTyped
  <2>6. \A k \in DOMAIN ckpts' : CheckpointFits(ckpts[k])'
    <3> TAKE k \in DOMAIN ckpts'
    <3>1. k \in 1..n
      BY <2>5
    <3>2. PICK e : e = ckpts[k] /\ CheckpointFits(e)
      BY <1>0, <2>5, <3>1 DEF CheckpointInv
    <3>3. CheckpointFits(e)' /\ e = ckpts'[k]
      BY <1>4, <2>5, <3>1, <3>2
    <3> QED BY <3>3
  <2>7. CheckpointInv'
    BY <1>1, <2>3, <2>6 DEF CheckpointInv
  <2> QED BY <1>2, <1>3, <1>5, <2>4, <2>7 DEF LoopInv
<1> QED BY <1>6, <1>7

-----------------------------------------------------------------------------
(* What the parts of the invariant need of a step that adds to the log *)

LEMMA OpenGrows ==
  ASSUME OpenInv, Grew, \A i \in (Len(log) + 1)..Len(log') : log'[i].type = "result",
         row'.steps = row.steps, row'.tools = row.tools, pc' \notin {"charge", "respond"},
         \A t \in DOMAIN log : \A c \in CallsAt(t) : ~Given(c)' =>
           pc' \notin Quiet /\ (pc' \in AtBatch => c \in work'.todo)
  PROVE  OpenInv'
<1>0. /\ Len(log) \in Nat /\ Len(log') \in Nat /\ Len(log) <= Len(log')
      /\ DOMAIN log = 1..Len(log) /\ DOMAIN log' = 1..Len(log')
  BY DEF Grew
<1>1. SUFFICES ASSUME NEW t \in DOMAIN log', NEW c \in CallsAt(t)', ~Given(c)'
               PROVE  /\ \A j \in (t + 1)..Len(log') : Is("result", j)'
                      /\ log'[t].step = row'.steps /\ log'[t].base = row'.tools
                      /\ pc' \notin Quiet
                      /\ pc' \in AtBatch => c \in work'.todo
  BY DEF OpenInv
<1>2. t \in DOMAIN log
  <2>1. t > 0 /\ IsTurn(t)'
    BY <1>0, <1>1 DEF CallsAt
  <2>2. log'[t].type = "response"
    BY <2>1 DEF IsTurn, Is
  <2>3. t \notin (Len(log) + 1)..Len(log')
    BY <2>2
  <2> QED BY <1>0, <2>3
<1>3. c \in CallsAt(t) /\ log'[t] = log[t] /\ ~Given(c)
  BY <1>0, <1>1, <1>2, GrewKeeps
<1>4. /\ \A j \in (t + 1)..Len(log) : Is("result", j)
      /\ log[t].step = row.steps /\ log[t].base = row.tools
  BY <1>2, <1>3 DEF OpenInv
<1>5. \A j \in (t + 1)..Len(log') : Is("result", j)'
  <2> TAKE j \in (t + 1)..Len(log')
  <2>1. CASE j \in (t + 1)..Len(log)
    <3>1. j \in 1..Len(log)
      BY <1>0, <1>2, <2>1
    <3> QED BY <1>4, <2>1, <3>1, GrewKeeps
  <2>2. CASE j \in (Len(log) + 1)..Len(log')
    BY <2>2 DEF Is
  <2> QED BY <1>0, <1>2, <2>1, <2>2
<1> QED BY <1>1, <1>2, <1>3, <1>4, <1>5

\* The last response with calls stays the last if results follow.
LEMMA LastGrows ==
  ASSUME Grew, \A i \in (Len(log) + 1)..Len(log') : log'[i].type = "result", NEW t, IsLast(t)
  PROVE  IsLast(t)' /\ t \in 1..Len(log)
<1>0. /\ Len(log) \in Nat /\ Len(log') \in Nat /\ Len(log) <= Len(log')
      /\ DOMAIN log = 1..Len(log) /\ DOMAIN log' = 1..Len(log')
  BY DEF Grew
<1>1. t \in 1..Len(log) /\ IsTurn(t) /\ \A j \in (t + 1)..Len(log) : ~IsTurn(j) /\ ~Is("reply", j)
  BY <1>0 DEF IsLast, LastUpTo
<1>2. \A j \in (t + 1)..Len(log') : ~IsTurn(j)' /\ ~Is("reply", j)'
  <2> TAKE j \in (t + 1)..Len(log')
  <2>1. CASE j \in (t + 1)..Len(log)
    <3>1. j \in 1..Len(log)
      BY <1>0, <1>1, <2>1
    <3> QED BY <1>1, <2>1, <3>1, GrewKeeps
  <2>2. CASE j \in (Len(log) + 1)..Len(log')
    BY <2>2 DEF IsTurn, Is
  <2> QED BY <1>0, <1>1, <2>1, <2>2
<1>3. IsTurn(t)' /\ t \in DOMAIN log'
  BY <1>0, <1>1, GrewKeeps
<1> QED BY <1>1, <1>2, <1>3 DEF IsLast, LastUpTo

LEMMA WaitGrows ==
  ASSUME WaitInv, Grew, wait' = wait \/ wait'.for = "none"
  PROVE  WaitInv'
<1>0. DOMAIN log = 1..Len(log)
  BY DEF Grew
<1> QED BY <1>0, GrewKeeps DEF WaitInv

LEMMA DoneGrows ==
  ASSUME DoneInv, ResultsBelong, Grew, done \subseteq done',
         \A a \in done' \ done : a[2][1] \in DOMAIN log' /\ a[1] = log'[a[2][1]].step /\ Performed(a[2])',
         \A i \in (Len(log) + 1)..Len(log') : log'[i].type = "result" /\ log'[i].by \in {"tool", "owner"} =>
           <<log'[log'[i].call[1]].step, log'[i].call>> \in done'
  PROVE  DoneInv'
<1>0. /\ Len(log) \in Nat /\ Len(log') \in Nat /\ Len(log) <= Len(log')
      /\ DOMAIN log = 1..Len(log) /\ DOMAIN log' = 1..Len(log')
  BY DEF Grew
<1>1. \A a \in done : a[2][1] \in DOMAIN log' /\ a[1] = log'[a[2][1]].step /\ Performed(a[2])'
  <2> TAKE a \in done
  <2>1. a[2][1] \in 1..Len(log) /\ a[1] = log[a[2][1]].step /\ Performed(a[2])
    BY <1>0 DEF DoneInv
  <2>2. Performed(a[2])'
    BY <2>1, GrewKeeps DEF Performed
  <2> QED BY <2>1, <2>2, GrewKeeps
<1>2. \A i \in DOMAIN log' : Is("result", i)' /\ log'[i].by \in {"tool", "owner"} =>
        <<log'[log'[i].call[1]].step, log'[i].call>> \in done'
  <2> TAKE i \in DOMAIN log'
  <2>1. CASE i \in DOMAIN log
    <3>1. log'[i] = log[i] /\ (Is("result", i)' <=> Is("result", i))
      BY <1>0, <2>1, GrewKeeps
    <3>2. SUFFICES ASSUME Is("result", i), log[i].by \in {"tool", "owner"}
                   PROVE  <<log'[log[i].call[1]].step, log[i].call>> \in done'
      BY <3>1
    <3>3. log[i].call[1] \in 1..(i - 1) /\ <<log[log[i].call[1]].step, log[i].call>> \in done
      BY <2>1, <3>2 DEF ResultsBelong, DoneInv
    <3>4. log[i].call[1] \in 1..Len(log)
      BY <1>0, <2>1, <3>3
    <3> QED BY <3>3, <3>4, GrewKeeps
  <2>2. CASE i \in (Len(log) + 1)..Len(log')
    BY <2>2 DEF Is
  <2> QED BY <1>0, <2>1, <2>2
<1> QED BY <1>1, <1>2 DEF DoneInv

LEMMA RepliesGrow ==
  ASSUME ReplyInv, Grew, UNCHANGED losses,
         pc \notin Replying \/ (losses = 0 => \A i \in DOMAIN log : ~Is("reply", i)),
         \A i \in (Len(log) + 1)..Len(log') : log'[i].type # "reply"
  PROVE  ReplyInv'
<1>0. /\ Len(log) \in Nat /\ Len(log') \in Nat /\ Len(log) <= Len(log')
      /\ DOMAIN log = 1..Len(log) /\ DOMAIN log' = 1..Len(log')
  BY DEF Grew
<1>1. SUFFICES ASSUME losses = 0, NEW i \in DOMAIN log', Is("reply", i)' PROVE FALSE
  BY DEF ReplyInv
<1>2. i \in 1..Len(log)
  BY <1>0, <1>1 DEF Is
<1>3. Is("reply", i)
  BY <1>1, <1>2, GrewKeeps
<1> QED BY <1>0, <1>1, <1>2, <1>3 DEF ReplyInv, Replying

\* Where the result of a call comes from.
LEMMA NewResults ==
  ASSUME Grew
  PROVE  /\ \A c : Given(c)' => Given(c) \/
              \E i \in (Len(log) + 1)..Len(log') : log'[i].type = "result" /\ log'[i].call = c
         /\ \A c, who : GivenBy(c, who)' => GivenBy(c, who) \/
              \E i \in (Len(log) + 1)..Len(log') :
                log'[i].type = "result" /\ log'[i].call = c /\ log'[i].by \in who
         /\ \A c : \A i \in (Len(log) + 1)..Len(log') : log'[i].type = "result" /\ log'[i].call = c =>
              Given(c)' /\ \A who : log'[i].by \in who => GivenBy(c, who)'
         /\ \A c, who : GivenBy(c, who) => Given(c)
<1>0. /\ Len(log) \in Nat /\ Len(log') \in Nat /\ Len(log) <= Len(log')
      /\ DOMAIN log = 1..Len(log) /\ DOMAIN log' = 1..Len(log')
      /\ \A i \in 1..Len(log') : i \in 1..Len(log) \/ i \in (Len(log) + 1)..Len(log')
      /\ \A i \in (Len(log) + 1)..Len(log') : i \in 1..Len(log')
  BY DEF Grew
<1>1. \A i \in 1..Len(log) : log'[i] = log[i]
  BY DEF Grew
<1>2. \A c : Given(c)' => Given(c) \/
        \E i \in (Len(log) + 1)..Len(log') : log'[i].type = "result" /\ log'[i].call = c
  BY <1>0, <1>1 DEF Given, Has, Is
<1>3. \A c, who : GivenBy(c, who)' => GivenBy(c, who) \/
        \E i \in (Len(log) + 1)..Len(log') :
          log'[i].type = "result" /\ log'[i].call = c /\ log'[i].by \in who
  BY <1>0, <1>1 DEF GivenBy, Is
<1>4. \A c : \A i \in (Len(log) + 1)..Len(log') : log'[i].type = "result" /\ log'[i].call = c =>
        Given(c)' /\ \A who : log'[i].by \in who => GivenBy(c, who)'
  BY <1>0 DEF Given, Has, GivenBy, Is
<1>5. \A c, who : GivenBy(c, who) => Given(c)
  BY <1>0 DEF Given, Has, GivenBy
<1> QED BY <1>2, <1>3, <1>4, <1>5

\* The model answers.
LEMMA AskKept ==
  ASSUME LoopInv, TypeOK', NEW n \in 0..MaxBatch, NEW answer \in {"tools", "text", "empty"}, Ask(n, answer)
  PROVE  LoopInv'
<1>0. /\ TypeOK /\ OpenInv /\ LogInv /\ BatchInv /\ CheckpointInv /\ WaitInv /\ ReplyInv /\ DoneInv
      /\ work.twice \subseteq repeated /\ work \in Memory /\ (pc = "end" <=> work.outcome # "none") /\ log \in Seq(Event)
  BY DEF LoopInv, BatchInv, TypeOK
<1>1. /\ UNCHANGED <<repeated, row, ckpts, done, wait, losses>> /\ pc = "ask" /\ pc' = "charge"
      /\ work' = [work EXCEPT !.attempt = @ + 1, !.answer = answer]
      /\ (n > 0) = (answer = "tools")
  BY DEF Ask, Keep, bounds
<1>2. PICK d : log' = Append(log, [type |-> "response", calls |-> n, base |-> row.tools,
                                   reserve |-> d, step |-> row.steps])
  BY DEF Ask
<1>3. work'.twice \subseteq repeated' /\ work'.outcome = "none" /\ work'.answer = answer
  BY <1>0, <1>1, AttemptTyped
<1>4. /\ Len(log) \in Nat /\ Len(log') = Len(log) + 1 /\ DOMAIN log' = 1..Len(log')
      /\ log'[Len(log')] = [type |-> "response", calls |-> n, base |-> row.tools,
                            reserve |-> d, step |-> row.steps]
      /\ \A i \in 1..Len(log) : log'[i] = log[i]
  BY <1>0, <1>2
<1>5. Grew
  BY <1>4 DEF Grew, LoopInv, TypeOK
<1>6. LogInv'
  BY <1>0, <1>4, <1>5, AnswerAppended
<1>7. NoneOpen
  BY <1>0, <1>1, NoneOpenAt DEF Quiet
<1>8. OpenInv'
  <2> SUFFICES ASSUME NEW t \in DOMAIN log', NEW c \in CallsAt(t)', ~Given(c)'
               PROVE  /\ \A j \in (t + 1)..Len(log') : Is("result", j)'
                      /\ log'[t].step = row'.steps /\ log'[t].base = row'.tools
                      /\ answer = "tools"
    BY <1>1, <1>3 DEF OpenInv, Quiet, AtBatch
  <2>1. t = Len(log')
    <3> SUFFICES ASSUME t \in 1..Len(log) PROVE FALSE
      BY <1>4
    <3>1. c \in CallsAt(t) /\ ~Given(c) /\ t \in DOMAIN log
      BY <1>5, GrewKeeps
    <3> QED BY <1>7, <3>1 DEF NoneOpen
  <2>2. log'[t].calls > 0
    BY DEF CallsAt, IsTurn
  <2>3. \A j \in (t + 1)..Len(log') : FALSE
    BY <1>4, <2>1
  <2> QED BY <1>1, <1>4, <2>1, <2>2, <2>3
<1>9. ResponseInv'
  BY <1>1, <1>3, <1>4 DEF ResponseInv, IsTurn, Is
<1>10. BatchInv' /\ SuspensionInv'
  BY <1>1, <1>3 DEF BatchInv, AtBatch, SuspensionInv, Suspending
<1>11. DoneInv'
  <2>1. \A i \in (Len(log) + 1)..Len(log') : log'[i].type # "result"
    BY <1>4
  <2> QED BY <1>0, <1>1, <1>5, <2>1, DoneGrows DEF LogInv
<1>12. WaitInv'
  BY <1>0, <1>1, <1>5, WaitGrows
<1>13. CheckpointInv'
  <2>1. ckpts # <<>>
    BY <1>0, <1>1 DEF CheckpointInv
  <2> QED BY <1>0, <1>1, <1>5, <2>1, CheckpointsKept
<1>14. ReplyInv'
  <2>1. pc \notin Replying
    BY <1>1 DEF Replying, Terminal
  <2>2. \A i \in (Len(log) + 1)..Len(log') : log'[i].type # "reply"
    BY <1>4
  <2> QED BY <1>0, <1>1, <1>5, <2>1, <2>2, RepliesGrow
<1> QED BY <1>6, <1>8, <1>9, <1>10, <1>11, <1>12, <1>13, <1>14 DEF LoopInv

\* The run replies.
LEMMA ReplyKept ==
  ASSUME LoopInv, TypeOK', Reply
  PROVE  LoopInv'
<1>0. /\ TypeOK /\ OpenInv /\ LogInv /\ CheckpointInv /\ WaitInv /\ ReplyInv /\ DoneInv /\ ResponseInv
      /\ log \in Seq(Event)
  BY DEF LoopInv, TypeOK
<1>1. /\ UNCHANGED <<repeated, row, ckpts, done, wait, losses>> /\ pc = "reply" /\ EndWith("COMPLETED")
      /\ log' = Append(log, [type |-> "reply"])
  BY DEF Reply, Keep, bounds
<1>2. pc' = "end" /\ work'.twice \subseteq repeated' /\ work'.outcome = "COMPLETED"
  <2>1. "COMPLETED" \in Outcome
    BY DEF Outcome, Terminal
  <2> QED BY <1>1, <2>1, EndWithTyped
<1>3. /\ Len(log) \in Nat /\ Len(log') = Len(log) + 1 /\ DOMAIN log' = 1..Len(log') /\ DOMAIN log = 1..Len(log)
      /\ log'[Len(log')] = [type |-> "reply"]
      /\ \A i \in 1..Len(log) : log'[i] = log[i]
  BY <1>0, <1>1
<1>4. Grew
  BY <1>3 DEF Grew, LoopInv, TypeOK
<1>5. LogInv'
  BY <1>0, <1>1, <1>3, <1>4, AnswerAppended DEF ResponseInv
<1>6. NoneOpen
  BY <1>0, <1>1, NoneOpenAt DEF Quiet
<1>7. OpenInv'
  <2> SUFFICES ASSUME NEW t \in DOMAIN log', NEW c \in CallsAt(t)', ~Given(c)' PROVE FALSE
    BY DEF OpenInv
  <2>1. log'[t].type = "response"
    BY DEF CallsAt, IsTurn, Is
  <2>2. t \in 1..Len(log)
    BY <1>3, <2>1
  <2>3. c \in CallsAt(t) /\ ~Given(c) /\ t \in DOMAIN log
    BY <1>4, <2>2, GrewKeeps
  <2> QED BY <1>6, <2>3 DEF NoneOpen
<1>8. ResponseInv' /\ BatchInv' /\ SuspensionInv'
  BY <1>2 DEF ResponseInv, BatchInv, AtBatch, SuspensionInv, Suspending
<1>9. DoneInv'
  <2>1. \A i \in (Len(log) + 1)..Len(log') : log'[i].type # "result"
    BY <1>3
  <2> QED BY <1>0, <1>1, <1>4, <2>1, DoneGrows DEF LogInv
<1>10. WaitInv'
  BY <1>0, <1>1, <1>4, WaitGrows
<1>11. CheckpointInv' /\ Latest.through <= Len(log) /\ Latest.through \in Nat
  <2>1. ckpts # <<>> /\ Latest.through \in 0..Len(log)
    BY <1>0, <1>1, LatestFits
  <2> QED BY <1>0, <1>1, <1>3, <1>4, <2>1, CheckpointsKept
<1>12. ReplyInv'
  <2> SUFFICES ASSUME losses = 0, NEW i \in DOMAIN log', Is("reply", i)'
               PROVE  i = Len(log') /\ Latest'.through < i
    BY <1>1, <1>2 DEF ReplyInv
  <2>1. ASSUME i \in 1..Len(log) PROVE FALSE
    <3>1. Is("reply", i) /\ i \in DOMAIN log
      BY <1>3, <1>4, <2>1, GrewKeeps
    <3> QED BY <1>0, <1>1, <3>1 DEF ReplyInv, Terminal
  <2>2. i = Len(log')
    BY <1>3, <2>1
  <2>3. Latest' = Latest
    BY <1>1 DEF Latest
  <2> QED BY <1>3, <1>11, <2>2, <2>3
<1> QED BY <1>5, <1>7, <1>8, <1>9, <1>10, <1>11, <1>12 DEF LoopInv

\* A call that has a result returns.
LEMMA ReturnKept ==
  ASSUME LoopInv, TypeOK', NEW c \in work.todo, pc = "dispatch", Given(c), Return(c),
         UNCHANGED <<log, row, ckpts, done, wait, losses, pc>>, repeated \subseteq repeated'
  PROVE  LoopInv'
<1>0. /\ TypeOK /\ OpenInv /\ LogInv /\ ResultsBelong /\ BatchInv /\ CheckpointInv /\ WaitInv /\ ReplyInv /\ DoneInv
      /\ work.twice \subseteq repeated /\ work \in Memory /\ (pc = "end" <=> work.outcome # "none") /\ log \in Seq(Event)
      /\ c \in CallId
  BY DEF LoopInv, BatchInv, TypeOK, Memory, LogInv
<1>a. pc \in AtBatch /\ (HasResult(c) <=> Given(c))
  BY <1>0, ResultMeans DEF AtBatch
<1>b. /\ c \in work.batch /\ work.batch # {} /\ work.todo \subseteq work.batch
      /\ IsLast(c[1]) /\ Fits(c) /\ work.key = log[c[1]].step
  BY <1>0, <1>a DEF BatchInv
<1>c. c[1] \in DOMAIN log /\ c \in CallsAt(c[1])
  BY <1>b DEF IsLast, Fits, FirstOf
<1>d. ckpts # <<>> /\ pc \notin Replying /\ pc \notin Quiet \cup {"charge", "respond"}
  BY <1>0 DEF CheckpointInv, Replying, Terminal, Quiet
<1>3. c \in work.known
  BY <1>0, <1>a DEF BatchInv
<1>4. /\ work'.todo = work.todo \ {c} /\ work'.twice \subseteq repeated' /\ work'.batch = work.batch
      /\ work'.key = work.key /\ work'.base = work.base /\ work'.known = work.known
      /\ work'.outcome = "none"
  BY <1>0, <1>3, ReturnTyped
<1>5. Grew /\ Len(log') = Len(log)
  BY <1>0, SameGrew
<1>6. \A d : /\ (Fits(d)' <=> Fits(d)) /\ (Given(d)' <=> Given(d))
             /\ (IsLast(d[1])' <=> IsLast(d[1])) /\ CallsAt(d[1])' = CallsAt(d[1])
             /\ (GivenBy(d, {"budget"})' <=> GivenBy(d, {"budget"}))
             /\ (GivenBy(d, {"budget", "owner"})' <=> GivenBy(d, {"budget", "owner"}))
  BY SameLog
<1>7. OpenInv'
  <2>1. \A t \in DOMAIN log : \A d \in CallsAt(t) : ~Given(d)' => d \in work'.todo
    BY <1>0, <1>a, <1>4, <1>6 DEF OpenInv
  <2>2. \A i \in (Len(log) + 1)..Len(log') : FALSE
    BY <1>0, <1>5
  <2> QED BY <1>0, <1>a, <1>d, <1>5, <2>1, <2>2, OpenGrows
<1>8. BatchInv'
  <2>1. \A d \in work.batch :
          /\ IsLast(d[1])' /\ Fits(d)' /\ ~GivenBy(d, {"budget"})'
          /\ work'.key = log'[d[1]].step /\ work'.base = log'[d[1]].base
          /\ \A e \in CallsAt(d[1])' : e \in work'.batch \/ GivenBy(e, {"budget", "owner"})'
    BY <1>0, <1>a, <1>4, <1>6 DEF BatchInv
  <2>2. \A d \in work'.todo : Given(d)' => d \in work'.known
    BY <1>0, <1>a, <1>4, <1>6 DEF BatchInv
  <2> QED BY <1>a, <1>b, <1>4, <2>1, <2>2 DEF BatchInv
<1>9. LogInv' /\ DoneInv' /\ WaitInv'
  BY <1>0, <1>6, SameLog DEF DoneInv, Is, Performed, GivenBy, WaitInv
<1>10. CheckpointInv' /\ ReplyInv'
  BY <1>0, <1>a, <1>d, <1>5, CheckpointsKept, RepliesKept
<1>11. ResponseInv' /\ SuspensionInv'
  BY <1>a, <1>4 DEF ResponseInv, SuspensionInv, Suspending
<1> QED BY <1>7, <1>8, <1>9, <1>10, <1>11 DEF LoopInv

\* A call gets its first result, and is settled unless it is refused.
LEMMA ResultKept ==
  ASSUME LoopInv, TypeOK', NEW c \in work.todo, pc = "dispatch", ~Given(c), Return(c),
         NEW by \in {"tool", "refusal"}, log' = Append(log, Result(c, by)),
         done' = IF by = "tool" THEN done \cup {<<work.key, c>>} ELSE done,
         wait' = NoWait \/ wait' = wait, UNCHANGED <<repeated, row, ckpts, losses, pc>>
  PROVE  LoopInv'
<1>0. /\ TypeOK /\ OpenInv /\ LogInv /\ ResultsBelong /\ BatchInv /\ CheckpointInv /\ WaitInv /\ ReplyInv /\ DoneInv
      /\ work.twice \subseteq repeated /\ work \in Memory /\ (pc = "end" <=> work.outcome # "none") /\ log \in Seq(Event)
      /\ c \in CallId
  BY DEF LoopInv, BatchInv, TypeOK, Memory, LogInv
<1>a. pc \in AtBatch /\ (HasResult(c) <=> Given(c))
  BY <1>0, ResultMeans DEF AtBatch
<1>b. /\ c \in work.batch /\ work.batch # {} /\ work.todo \subseteq work.batch
      /\ IsLast(c[1]) /\ Fits(c) /\ work.key = log[c[1]].step
  BY <1>0, <1>a DEF BatchInv
<1>c. c[1] \in DOMAIN log /\ c \in CallsAt(c[1])
  BY <1>b DEF IsLast, Fits, FirstOf
<1>d. ckpts # <<>> /\ pc \notin Replying /\ pc \notin Quiet \cup {"charge", "respond"}
  BY <1>0 DEF CheckpointInv, Replying, Terminal, Quiet
<1>3. /\ IsLast(c[1]) /\ Undisturbed(c[1], Len(log))
  BY <1>0, <1>c, OpenIsLast
<1>4. /\ work'.todo = work.todo \ {c} /\ work'.twice \subseteq repeated' /\ work'.batch = work.batch
      /\ work'.key = work.key /\ work'.base = work.base /\ work'.known = work.known
      /\ work'.outcome = "none"
  BY <1>0, <1>a, ReturnTyped
<1>5. /\ Grew /\ Len(log) \in Nat /\ DOMAIN log = 1..Len(log) /\ DOMAIN log' = 1..Len(log')
      /\ Len(log') = Len(log) + 1 /\ log'[Len(log) + 1] = Result(c, by)
  <2>1. Result(c, by) \in Event
    BY <1>0 DEF Result, Event, Results
  <2>2. Grew /\ Len(log') = Len(log) + 1 /\ log'[Len(log) + 1] = Result(c, by)
    BY <1>0, <2>1, OneAppended
  <2> QED BY <2>2 DEF Grew
<1>6. \A i \in (Len(log) + 1)..Len(log') :
        /\ i = Len(log) + 1 /\ log'[i] \in Results /\ log'[i].call = c /\ log'[i].by = by
        /\ log'[i].type = "result"
  <2>1. \A i \in (Len(log) + 1)..Len(log') : i = Len(log) + 1 /\ log'[i] = Result(c, by)
    BY <1>5
  <2>2. /\ Result(c, by) \in Results /\ Result(c, by).call = c /\ Result(c, by).by = by
        /\ Result(c, by).type = "result"
    BY <1>0 DEF Result, Results
  <2> QED BY <2>1, <2>2
<1>7. LogInv'
  <2>1. \A i \in (Len(log) + 1)..Len(log') :
         /\ log'[i] \in Results /\ log'[i].call \in CallsAt(c[1]) /\ ~Given(log'[i].call)
         /\ log'[i].by # "budget" => Fits(log'[i].call)
    BY <1>b, <1>c, <1>6
  <2>2. \A i, j \in (Len(log) + 1)..Len(log') : log'[i].call = log'[j].call => i = j
    BY <1>6
  <2> QED BY <1>0, <1>c, <1>3, <1>5, <2>1, <2>2, ResultsAppended
<1>8. Given(c)' /\ (by = "tool" => Performed(c)') /\ Len(log) + 1 \in (Len(log) + 1)..Len(log')
  <2>1. Len(log) + 1 \in (Len(log) + 1)..Len(log')
    BY <1>5
  <2>2. log'[Len(log) + 1].type = "result" /\ log'[Len(log) + 1].call = c /\ log'[Len(log) + 1].by = by
    BY <1>6, <2>1
  <2>3. Given(c)' /\ \A who : by \in who => GivenBy(c, who)'
    BY <1>5, <2>1, <2>2, NewResults
  <2> QED BY <2>1, <2>3 DEF Performed
<1>9. OpenInv'
  <2>1. \A t \in DOMAIN log : \A d \in CallsAt(t) : ~Given(d)' => d \in work'.todo
    <3> TAKE t \in DOMAIN log
    <3> TAKE d \in CallsAt(t)
    <3>1. Given(d) => Given(d)'
      BY <1>5, GrewKeeps
    <3> QED BY <1>0, <1>a, <1>4, <1>8, <3>1 DEF OpenInv
  <2> QED BY <1>0, <1>a, <1>d, <1>5, <1>6, <2>1, OpenGrows
<1>10. BatchInv'
  <2>1. \A d \in work.batch :
          /\ IsLast(d[1])' /\ Fits(d)' /\ ~GivenBy(d, {"budget"})'
          /\ work'.key = log'[d[1]].step /\ work'.base = log'[d[1]].base
          /\ \A e \in CallsAt(d[1])' : e \in work'.batch \/ GivenBy(e, {"budget", "owner"})'
    <3> TAKE d \in work.batch
    <3>1. /\ IsLast(d[1]) /\ Fits(d) /\ ~GivenBy(d, {"budget"})
          /\ work.key = log[d[1]].step /\ work.base = log[d[1]].base
          /\ \A e \in CallsAt(d[1]) : e \in work.batch \/ GivenBy(e, {"budget", "owner"})
      BY <1>0, <1>a DEF BatchInv
    <3>2. IsLast(d[1])' /\ d[1] \in 1..Len(log)
      BY <1>5, <1>6, <3>1, LastGrows
    <3>3. Fits(d)' /\ CallsAt(d[1])' = CallsAt(d[1]) /\ log'[d[1]] = log[d[1]]
      BY <1>5, <3>1, <3>2, GrewKeeps
    <3>4. ~GivenBy(d, {"budget"})'
      BY <1>5, <1>6, <3>1, NewResults
    <3>5. \A e : GivenBy(e, {"budget", "owner"}) => GivenBy(e, {"budget", "owner"})'
      BY <1>5, GrewKeeps
    <3> QED BY <1>4, <3>1, <3>2, <3>3, <3>4, <3>5
  <2>2. \A d \in work'.todo : Given(d)' => d \in work'.known
    <3> TAKE d \in work'.todo
    <3>1. Given(d)' => Given(d)
      BY <1>4, <1>5, <1>6, NewResults
    <3> QED BY <1>0, <1>a, <1>4, <3>1 DEF BatchInv
  <2> QED BY <1>a, <1>b, <1>4, <2>1, <2>2 DEF BatchInv
<1>11. DoneInv'
  <2>1. c[1] \in DOMAIN log' /\ log'[c[1]] = log[c[1]]
    BY <1>c, <1>5, GrewKeeps
  <2>2. \A a \in done' \ done : a[2][1] \in DOMAIN log' /\ a[1] = log'[a[2][1]].step /\ Performed(a[2])'
    <3> TAKE a \in done' \ done
    <3>1. by = "tool" /\ a = <<work.key, c>> /\ a[1] = work.key /\ a[2] = c
      OBVIOUS
    <3> QED BY <1>b, <1>8, <2>1, <3>1
  <2>3. \A i \in (Len(log) + 1)..Len(log') : log'[i].type = "result" /\ log'[i].by \in {"tool", "owner"} =>
          <<log'[log'[i].call[1]].step, log'[i].call>> \in done'
    BY <1>b, <1>6, <2>1
  <2>4. done \subseteq done'
    OBVIOUS
  <2> QED BY <1>0, <1>5, <2>2, <2>3, <2>4, DoneGrows
<1>12. WaitInv'
  <2>1. NoWait.for = "none"
    BY DEF NoWait
  <2> QED BY <1>0, <1>5, <2>1, WaitGrows
<1>13. CheckpointInv' /\ ReplyInv'
  <2>1. \A i \in (Len(log) + 1)..Len(log') : log'[i].type # "reply"
    BY <1>6
  <2> QED BY <1>0, <1>a, <1>d, <1>5, <2>1, CheckpointsKept, RepliesGrow
<1>14. ResponseInv' /\ SuspensionInv'
  BY <1>a, <1>4 DEF ResponseInv, SuspensionInv, Suspending
<1> QED BY <1>7, <1>9, <1>10, <1>11, <1>12, <1>13, <1>14 DEF LoopInv

\* A settled call returns again, any other is settled.
LEMMA CallKept ==
  ASSUME Refusals # "passing", LoopInv, TypeOK', NEW c \in work.todo, Call(c)
  PROVE  LoopInv'
<1>0. TypeOK /\ BatchInv /\ DoneInv /\ log \in Seq(Event)
  BY DEF LoopInv, TypeOK
<1>1. UNCHANGED <<row, ckpts, losses, pc>> /\ pc = "dispatch" /\ Return(c) /\ (HasResult(c) <=> Given(c))
  BY <1>0, ResultMeans DEF Call, Keep, bounds
<1>2. CASE <<work.key, c>> \in done
  <2>1. UNCHANGED <<log, repeated, done, wait>>
    BY <1>2 DEF Call
  <2>2. Given(c)
    <3>1. Performed(<<work.key, c>>[2]) /\ <<work.key, c>>[2] = c
      BY <1>0, <1>2 DEF DoneInv
    <3> QED BY <1>0, <3>1 DEF Performed, GivenBy, Given, Has
  <2> QED BY <1>1, <2>1, <2>2, ReturnKept
<1>3. CASE <<work.key, c>> \notin done
  <2>1. /\ done' = done \cup {<<work.key, c>>} /\ LogResult(c, "tool") /\ Pardoned(c)
        /\ wait' = NoWait \/ wait' = wait
    BY <1>3 DEF Call
  <2>2. ~Given(c)
    BY <1>0, <1>1, <1>3, <2>1, UnsettledIsOpen
  <2>3. log' = Append(log, Result(c, "tool")) /\ repeated' = repeated
    BY <1>1, <2>1, <2>2 DEF LogResult
  <2> QED BY <1>1, <2>1, <2>2, <2>3, ResultKept
<1> QED BY <1>2, <1>3

\* A call is refused, for the first time or again.
LEMMA RefusalKept ==
  ASSUME LoopInv, TypeOK', NEW c \in work.todo, Refusal(c)
  PROVE  LoopInv'
<1>0. TypeOK /\ log \in Seq(Event)
  BY DEF LoopInv, TypeOK
<1>1. /\ UNCHANGED <<row, ckpts, done, wait, losses, pc>> /\ pc = "dispatch" /\ Return(c)
      /\ LogResult(c, "refusal") /\ (HasResult(c) <=> Given(c))
  BY <1>0, ResultMeans DEF Refusal, Keep, bounds
<1>2. CASE Given(c)
  <2>1. UNCHANGED log /\ repeated \subseteq repeated'
    BY <1>1, <1>2 DEF LogResult
  <2> QED BY <1>1, <1>2, <2>1, ReturnKept
<1>3. CASE ~Given(c)
  <2>1. log' = Append(log, Result(c, "refusal")) /\ repeated' = repeated
    BY <1>1, <1>3 DEF LogResult
  <2> QED BY <1>1, <1>3, <2>1, ResultKept
<1> QED BY <1>2, <1>3

\* Calls of the last response are refused.
LEMMA RefusalsKept ==
  ASSUME LoopInv, pc # "start", UNCHANGED <<ckpts, done, wait>>,
         NEW t \in DOMAIN log, IsLast(t), NEW R, R \subseteq CallsAt(t), \A c \in R : ~Given(c), Refuse(R)
  PROVE  /\ Grew /\ LogInv' /\ DoneInv' /\ WaitInv' /\ CheckpointInv' /\ IsLast(t)'
         /\ \A i \in (Len(log) + 1)..Len(log') : log'[i].type = "result"
         /\ \A c \in R : Given(c)' /\ GivenBy(c, {"budget"})'
         /\ \A c : c \notin R => (Given(c)' <=> Given(c)) /\ (GivenBy(c, {"budget"})' => GivenBy(c, {"budget"}))
         /\ R = {} => log' = log
<1>0. /\ TypeOK /\ LogInv /\ OpenInv /\ DoneInv /\ WaitInv /\ CheckpointInv /\ ResultsBelong /\ log \in Seq(Event)
  BY DEF LoopInv, LogInv, TypeOK
<1>1. R \in SUBSET CallId /\ MaxBatch \in Nat
  BY <1>0, CallsOf, LoopAssumption
<1>2. /\ Grew
      /\ \A i \in (Len(log) + 1)..Len(log') :
           log'[i] \in Results /\ log'[i].call \in R /\ log'[i].by = "budget"
      /\ \A i, j \in (Len(log) + 1)..Len(log') : log'[i].call = log'[j].call => i = j
      /\ \A c \in R : Given(c)' /\ GivenBy(c, {"budget"})'
      /\ R = {} => log' = log
  BY <1>0, <1>1, RefusalsAppended
<1>3. \A i \in (Len(log) + 1)..Len(log') : log'[i].type = "result"
  BY <1>2 DEF Results
<1>4. LogInv'
  <2>1. CASE R = {}
    BY <1>0, <1>2, <2>1, SameLog
  <2>2. CASE R # {}
    <3>1. PICK c \in R : TRUE
      BY <2>2
    <3>2. Undisturbed(t, Len(log))
      BY <1>0, <3>1, OpenIsLast
    <3> QED BY <1>0, <1>2, <3>2, ResultsAppended
  <2> QED BY <2>1, <2>2
<1>5. DoneInv'
  BY <1>0, <1>2, DoneGrows
<1>6. WaitInv'
  BY <1>0, <1>2, WaitGrows
<1>7. CheckpointInv'
  <2>1. ckpts # <<>>
    BY <1>0 DEF CheckpointInv
  <2> QED BY <1>0, <1>2, <2>1, CheckpointsKept
<1>8. IsLast(t)'
  BY <1>2, <1>3, LastGrows
<1>9. \A c : c \notin R => (Given(c)' <=> Given(c)) /\ (GivenBy(c, {"budget"})' => GivenBy(c, {"budget"}))
  BY <1>2, NewResults, GrewKeeps
<1> QED BY <1>2, <1>3, <1>4, <1>5, <1>6, <1>7, <1>8, <1>9

\* The batch of a new response is fitted.
LEMMA FitKept ==
  ASSUME LoopInv, TypeOK', Fit
  PROVE  LoopInv'
<1>L. PICK L : L = Len(log)
  OBVIOUS
<1> DEFINE calls == CallsAt(L)
           batch == FitNow(calls, row.tools)
<1>0. /\ TypeOK /\ OpenInv /\ LogInv /\ ResultsBelong /\ BatchInv /\ ResponseInv /\ CheckpointInv /\ ReplyInv
      /\ work.twice \subseteq repeated /\ work \in Memory /\ (pc = "end" <=> work.outcome # "none") /\ log \in Seq(Event)
      /\ row.tools \in Nat /\ row.steps \in Nat
  BY DEF LoopInv, BatchInv, TypeOK, LogInv
<1>1. UNCHANGED <<repeated, row, ckpts, done, wait, losses>> /\ pc = "fit" /\ pc \notin Replying
  BY DEF Fit, Keep, bounds, Replying, Terminal
<1>2. CASE EndWith("FAILED") /\ UNCHANGED log
  <2>1. pc' = "end" /\ work'.twice \subseteq repeated' /\ work'.outcome = "FAILED"
    <3>1. "FAILED" \in Outcome
      BY DEF Outcome, Terminal
    <3> QED BY <1>2, <3>1, EndWithTyped
  <2>2. pc' \notin Quiet \cup AtBatch \cup {"charge", "respond", "fit", "reply", "parked"}
    BY <2>1 DEF Quiet, AtBatch
  <2>3. ckpts # <<>>
    BY <1>0, <1>1 DEF CheckpointInv
  <2> QED BY <1>1, <1>2, <2>1, <2>2, <2>3, PlainStep
<1>3. CASE ~(EndWith("FAILED") /\ UNCHANGED log)
  <2>1. /\ Refuse(calls \ batch) /\ pc' = "pend"
        /\ work' = [work EXCEPT !.batch = batch, !.todo = batch, !.key = row.steps, !.base = row.tools]
    BY <1>L, <1>3 DEF Fit
  <2>2. L \in DOMAIN log /\ IsTurn(L) /\ L \in Nat /\ DOMAIN log = 1..L
    <3>1. Len(log) > 0 /\ IsTurn(Len(log)) /\ Len(log) \in Nat /\ DOMAIN log = 1..Len(log)
      BY <1>0, <1>1 DEF ResponseInv
    <3> QED BY <1>L, <3>1
  <2>3. \A c \in calls : c \in CallId /\ c[1] = L
    BY <1>0, <2>2, CallsOf
  <2>4. \A c \in calls : ~Given(c)
    <3> SUFFICES ASSUME NEW c \in calls, NEW i \in 1..L, Is("result", i), log[i].call = c PROVE FALSE
      BY <1>L DEF Given, Has
    <3>1. c[1] \in 1..(i - 1) /\ c[1] = L
      BY <1>0, <2>2, <2>3 DEF ResultsBelong
    <3> QED BY <2>2, <3>1
  <2>5. \A c \in calls : log[L].step = row.steps /\ log[L].base = row.tools
    BY <1>0, <2>2, <2>4 DEF OpenInv
  <2>6. IsLast(L)
    <3>1. \A j \in (L + 1)..Len(log) : FALSE
      BY <1>L, <2>2
    <3> QED BY <2>2, <3>1 DEF IsLast, LastUpTo
  <2>7. batch \subseteq calls /\ \A c \in batch : c \in FirstOf(calls, row.tools)
    BY DEF FitNow, FirstOf
  <2>8. \A c \in batch : Fits(c)
    BY <2>3, <2>5, <2>7 DEF Fits
  <2>9. /\ work'.batch = batch /\ work'.todo = batch /\ work'.key = row.steps /\ work'.base = row.tools
        /\ work'.twice \subseteq repeated' /\ work'.outcome = "none"
    <3> HIDE DEF batch
    <3> QED BY <1>0, <1>1, <2>1 DEF Memory
  <2> DEFINE R == calls \ batch
  <2>10. R \subseteq CallsAt(L) /\ (\A c \in R : ~Given(c)) /\ Refuse(R)
    BY <2>1, <2>4
  <2> HIDE DEF R
  <2>11. /\ Grew /\ LogInv' /\ DoneInv' /\ WaitInv' /\ CheckpointInv' /\ IsLast(L)'
         /\ \A i \in (Len(log) + 1)..Len(log') : log'[i].type = "result"
         /\ \A c \in R : Given(c)' /\ GivenBy(c, {"budget"})'
         /\ \A c : c \notin R => (Given(c)' <=> Given(c)) /\ (GivenBy(c, {"budget"})' => GivenBy(c, {"budget"}))
    BY <1>1, <2>2, <2>6, <2>10, RefusalsKept
  <2>12. \A c \in calls : c \in R \/ c \in batch
    BY DEF R
  <2>13. \A c \in batch : ~Given(c)' /\ ~GivenBy(c, {"budget"})'
    <3>1. \A c \in batch : c \notin R /\ ~Given(c)
      BY <2>4, <2>7 DEF R
    <3>2. \A c : GivenBy(c, {"budget"}) => Given(c)
      BY <2>11, NewResults
    <3> QED BY <2>11, <3>1, <3>2
  <2>14. OpenInv'
    <3>1. \A t \in DOMAIN log : \A c \in CallsAt(t) : ~Given(c)' => c \in work'.todo
      <4> TAKE t \in DOMAIN log
      <4> TAKE c \in CallsAt(t)
      <4> HAVE ~Given(c)'
      <4>1. ~Given(c)
        BY <2>11, GrewKeeps
      <4>2. IsLast(t)
        BY <1>0, <4>1, OpenIsLast
      <4>3. t = L
        BY <1>0, <2>6, <4>2, OneLast
      <4>4. c \in calls /\ c \notin R
        BY <2>11, <4>3
      <4> HIDE DEF calls, batch
      <4> QED BY <2>9, <2>12, <4>4
    <3>2. pc' \notin Quiet \cup {"charge", "respond"}
      BY <2>1 DEF Quiet
    <3> QED BY <1>0, <1>1, <2>11, <3>1, <3>2, OpenGrows
  <2>15. BatchInv'
    <3>0. L \in 1..Len(log)
      BY <1>L, <2>2
    <3>1. CallsAt(L)' = CallsAt(L) /\ log'[L] = log[L] /\ \A c \in batch : c[1] = L /\ Fits(c)'
      <4>1. \A c \in batch : c[1] = L
        BY <2>3, <2>7
      <4> HIDE DEF batch
      <4> QED BY <2>8, <2>11, <3>0, <4>1, GrewKeeps
    <3>2. \A c \in R : GivenBy(c, {"budget", "owner"})'
      BY <2>11 DEF GivenBy
    <3> HIDE DEF batch
    <3>3. \A c \in work'.batch :
            /\ IsLast(c[1])' /\ Fits(c)' /\ ~GivenBy(c, {"budget"})'
            /\ work'.key = log'[c[1]].step /\ work'.base = log'[c[1]].base
            /\ \A d \in CallsAt(c[1])' : d \in work'.batch \/ GivenBy(d, {"budget", "owner"})'
      BY <2>5, <2>7, <2>9, <2>11, <2>12, <2>13, <3>1, <3>2
    <3> QED BY <2>1, <2>9, <2>13, <3>3 DEF BatchInv
  <2>16. ReplyInv'
    <3>1. \A i \in (Len(log) + 1)..Len(log') : log'[i].type # "reply"
      BY <2>11
    <3> QED BY <1>0, <1>1, <2>11, <3>1, RepliesGrow
  <2>17. ResponseInv' /\ SuspensionInv'
    BY <2>1, <2>9 DEF ResponseInv, SuspensionInv, Suspending
  <2> QED BY <2>11, <2>14, <2>15, <2>16, <2>17 DEF LoopInv
<1> QED BY <1>2, <1>3

\* The owner answers the question the run is parked for.
LEMMA AnswerKept ==
  ASSUME LoopInv, TypeOK', Answer
  PROVE  LoopInv'
<1>q. PICK q : q = wait.key[2]
  OBVIOUS
<1>0. /\ TypeOK /\ OpenInv /\ LogInv /\ ResultsBelong /\ CheckpointInv /\ WaitInv /\ SuspensionInv /\ ReplyInv
      /\ DoneInv /\ work.twice \subseteq repeated /\ (pc = "end" <=> work.outcome # "none")
      /\ log \in Seq(Event) /\ ckpts \in Seq(Checkpoints) /\ wait.key \in Nat \X CallId
  BY DEF LoopInv, BatchInv, TypeOK, LogInv
<1>1. /\ log' = log \o <<[type |-> "user"], Result(q, "owner")>>
      /\ done' = done \cup {wait.key}
      /\ Write([Latest EXCEPT !.through = Len(log) + 2, !.pending = @ \ {q}])
      /\ wait' = NoWait /\ pc' = "start" /\ pc = "parked" /\ wait.for = "user"
      /\ UNCHANGED <<repeated, row, work, losses>>
  BY <1>q DEF Answer, Keep, bounds
<1>2. /\ q[1] \in DOMAIN log /\ Fits(q) /\ wait.key[1] = log[q[1]].step /\ log[q[1]].calls = 1
      /\ ~Given(q) /\ Latest.through = Len(log) /\ q \in CallId
  BY <1>0, <1>1, <1>q DEF WaitInv, SuspensionInv, Suspending
<1>3. q \in CallsAt(q[1])
  BY <1>2 DEF Fits, FirstOf
<1>4. IsLast(q[1]) /\ Undisturbed(q[1], Len(log)) /\ IsTurn(q[1])
  BY <1>0, <1>2, <1>3, OpenIsLast
<1>5. CallsAt(q[1]) = {q}
  <2>1. CallsAt(q[1]) = {<<q[1], 1>>}
    BY <1>0, <1>2, <1>4, CallsOf
  <2> QED BY <1>3, <2>1
<1>6. /\ Grew /\ Len(log') = Len(log) + 2 /\ Len(log) \in Nat
      /\ log'[Len(log) + 1] = [type |-> "user"] /\ log'[Len(log) + 2] = Result(q, "owner")
      /\ DOMAIN log = 1..Len(log) /\ DOMAIN log' = 1..Len(log')
  <2>1. [type |-> "user"] \in Event /\ Result(q, "owner") \in Event
    BY <1>2 DEF Event, Result, Results
  <2>2. /\ Grew /\ Len(log') = Len(log) + 2
        /\ log'[Len(log) + 1] = [type |-> "user"] /\ log'[Len(log) + 2] = Result(q, "owner")
    BY <1>0, <1>1, <2>1, TwoAppended
  <2> QED BY <2>2 DEF Grew
<1>7. /\ Result(q, "owner").type = "result" /\ Result(q, "owner").call = q /\ Result(q, "owner").by = "owner"
      /\ \A i \in (Len(log) + 1)..Len(log') : i = Len(log) + 1 \/ i = Len(log) + 2
      /\ Len(log) + 2 \in (Len(log) + 1)..Len(log')
  BY <1>6 DEF Result
<1>8. LogInv'
  BY <1>0, <1>2, <1>3, <1>4, <1>6, OwnerAppended
<1>9. Given(q)' /\ Performed(q)'
  <2>1. /\ log'[Len(log) + 2].type = "result" /\ log'[Len(log) + 2].call = q
        /\ log'[Len(log) + 2].by \in {"tool", "owner"}
    BY <1>6, <1>7
  <2> QED BY <1>6, <1>7, <2>1, NewResults DEF Performed
<1>10. \A t \in DOMAIN log' : \A c \in CallsAt(t)' : Given(c)'
  <2> TAKE t \in DOMAIN log'
  <2> TAKE c \in CallsAt(t)'
  <2>1. log'[t].type = "response"
    BY DEF CallsAt, IsTurn, Is
  <2>2. t \in 1..Len(log)
    <3>1. t # Len(log) + 1 /\ t # Len(log) + 2
      BY <1>6, <1>7, <2>1
    <3> QED BY <1>6, <3>1
  <2>3. c \in CallsAt(t) /\ t \in DOMAIN log /\ (Given(c) => Given(c)')
    BY <1>6, <2>2, GrewKeeps
  <2>4. ASSUME ~Given(c) PROVE c = q
    <3>1. IsLast(t)
      BY <1>0, <2>3, <2>4, OpenIsLast
    <3>2. t = q[1]
      BY <1>0, <1>4, <3>1, OneLast
    <3> QED BY <1>5, <2>3, <3>2
  <2> QED BY <1>9, <2>3, <2>4
<1>11. OpenInv'
  BY <1>10 DEF OpenInv
<1>12. ResponseInv' /\ BatchInv' /\ SuspensionInv'
  BY <1>0, <1>1 DEF ResponseInv, BatchInv, AtBatch, SuspensionInv, Suspending
<1>13. DoneInv'
  <2>1. q[1] \in DOMAIN log' /\ log'[q[1]] = log[q[1]]
    BY <1>2, <1>6, GrewKeeps
  <2>2. \A a \in done' \ done : a[2][1] \in DOMAIN log' /\ a[1] = log'[a[2][1]].step /\ Performed(a[2])'
    <3> TAKE a \in done' \ done
    <3>1. a = wait.key /\ a[2] = q
      BY <1>1, <1>q
    <3> QED BY <1>2, <1>9, <2>1, <3>1
  <2>3. wait.key = <<log'[q[1]].step, q>>
    BY <1>0, <1>2, <1>q, <2>1
  <2>4. \A i \in (Len(log) + 1)..Len(log') : log'[i].type = "result" /\ log'[i].by \in {"tool", "owner"} =>
          <<log'[log'[i].call[1]].step, log'[i].call>> \in done'
    <3> TAKE i \in (Len(log) + 1)..Len(log')
    <3> HAVE log'[i].type = "result" /\ log'[i].by \in {"tool", "owner"}
    <3>1. i = Len(log) + 2
      BY <1>6, <1>7
    <3>2. log'[i].call = q
      BY <1>6, <1>7, <3>1
    <3> QED BY <1>1, <2>3, <3>2
  <2> QED BY <1>0, <1>1, <1>6, <2>2, <2>4, DoneGrows
<1>14. WaitInv'
  BY <1>1 DEF WaitInv, NoWait
<1>15. CheckpointInv'
  <2>c. PICK c : c = [Latest EXCEPT !.through = Len(log) + 2, !.pending = @ \ {q}]
    OBVIOUS
  <2>1. Latest \in Checkpoints /\ CheckpointFits(Latest)
    BY <1>0, <1>1, LatestFits
  <2>2. c \in Checkpoints /\ c.through = Len(log') /\ c.pending = Latest.pending \ {q}
    <3>1. PICK n \in Nat : n = Len(log) + 2
      BY <1>6
    <3>2. c = [Latest EXCEPT !.through = n, !.pending = Latest.pending \ {q}]
      BY <2>c, <3>1
    <3>3. Latest.pending \ {q} \in SUBSET CallId
      BY <2>1 DEF Checkpoints
    <3> QED BY <1>6, <2>1, <3>1, <3>2, <3>3 DEF Checkpoints
  <2>3. Write(c)
    BY <1>1, <2>c
  <2>4. c.pending = {}
    <3> SUFFICES ASSUME NEW p \in Latest.pending PROVE p = q
      BY <2>2
    <3>1. p[1] \in 1..Len(log) /\ Fits(p) /\ LastUpTo(p[1], Len(log))
      BY <1>2, <2>1 DEF CheckpointFits
    <3>2. p \in CallsAt(p[1]) /\ p[1] \in DOMAIN log
      BY <1>6, <3>1 DEF Fits, FirstOf
    <3>3. IsLast(p[1])
      BY <1>0, <3>1, <3>2, CallsOf DEF IsLast
    <3>4. p[1] = q[1]
      BY <1>0, <1>4, <3>3, OneLast
    <3> QED BY <1>5, <3>2, <3>4
  <2>5. CheckpointFits(c)'
    <3>1. \A s \in 1..Len(log') : \A d \in CallsAt(s)' : Has(d, c.through)'
      BY <1>6, <1>10, <2>2 DEF Given
    <3>2. \A s \in 1..c.through : \A d \in CallsAt(s)' : Has(d, c.through)'
      BY <2>2, <3>1
    <3>3. c.through <= Len(log')
      BY <1>6, <2>2
    <3> QED BY <2>4, <3>2, <3>3 DEF CheckpointFits
  <2> QED BY <1>0, <1>6, <2>2, <2>3, <2>5, CheckpointsKept
<1>16. ReplyInv'
  <2>1. pc \notin Replying
    BY <1>1 DEF Replying, Terminal
  <2>2. \A i \in (Len(log) + 1)..Len(log') : log'[i].type # "reply"
    BY <1>6, <1>7
  <2> QED BY <1>0, <1>1, <1>6, <2>1, <2>2, RepliesGrow
<1> QED BY <1>8, <1>11, <1>12, <1>13, <1>14, <1>15, <1>16 DEF LoopInv

\* A worker takes up what it finds.
LEMMA ResumeKept ==
  ASSUME LoopInv, TypeOK', Resume
  PROVE  LoopInv'
<1>r. PICK r : r = Refit(Found)
  OBVIOUS
<1>0. /\ TypeOK /\ OpenInv /\ LogInv /\ CheckpointInv /\ WaitInv /\ ReplyInv
      /\ work.twice \subseteq repeated /\ (pc = "end" <=> work.outcome # "none") /\ log \in Seq(Event)
  BY DEF LoopInv, BatchInv, TypeOK
<1>1. UNCHANGED <<repeated, row, ckpts, done, wait, losses>> /\ pc = "resume"
  BY DEF Resume, Keep, bounds
<1>2. ckpts # <<>> /\ Latest.through \in 0..Len(log)
  BY <1>0, <1>1, LatestFits
<1>3. NothingFound \/ \E t \in DOMAIN log : BatchFound(t)
  BY <1>0, <1>1, ResumeFinds
<1>4. CASE EndWith("FAILED") /\ UNCHANGED log
  <2>1. pc' = "end" /\ work'.twice \subseteq repeated' /\ work'.outcome = "FAILED"
    <3>1. "FAILED" \in Outcome
      BY DEF Outcome, Terminal
    <3> QED BY <1>4, <3>1, EndWithTyped
  <2>2. pc' \in Replying /\ pc' \notin Quiet \cup AtBatch \cup {"charge", "respond", "fit", "reply", "parked"}
    BY <2>1 DEF Quiet, AtBatch, Replying
  <2> QED BY <1>1, <1>2, <1>4, <2>1, <2>2, PlainStep
<1>5. CASE ~(EndWith("FAILED") /\ UNCHANGED log)
  <2>1. /\ Refuse(r.refused)
        /\ work'.batch = r.batch /\ work'.todo = r.batch
        /\ work'.key = Found.key /\ work'.base = Found.base /\ work'.known = Found.answered
        /\ work'.twice \subseteq repeated' /\ work'.outcome = "none"
        /\ pc' = (IF (IF Found.adopted THEN r.batch \ Found.answered ELSE r.batch) # {}
                  THEN "recall" ELSE IF Found.adopted THEN "settle" ELSE "loop")
    BY <1>0, <1>1, <1>3, <1>5, <1>r, ResumeMeans
  <2>2. CASE NothingFound
    <3>1. /\ r.refused = {} /\ r.batch \ Found.answered = {} /\ (~Found.adopted => r.batch = {})
      BY <1>r, <2>2, NothingResumed
    <3>2. pc' = IF Found.adopted THEN "settle" ELSE "loop"
      BY <2>1, <3>1
    <3>3. UNCHANGED log
      <4>1. {} \in SUBSET CallId /\ MaxBatch \in Nat /\ Refuse({})
        BY <2>1, <3>1, LoopAssumption
      <4> QED BY <1>0, <4>1, RefusalsAppended
    <3>4. NoneOpen
      BY <2>2 DEF NothingFound
    <3>5. (losses = 0 => \A i \in DOMAIN log : ~Is("reply", i)) \/ pc' \in Replying
      <4> SUFFICES ASSUME losses = 0, NEW i \in DOMAIN log, Is("reply", i) PROVE Found.adopted
        BY <3>2 DEF Replying
      <4>1. i = Len(log) /\ Latest.through < i
        BY <1>0 DEF ReplyInv
      <4>2. i \in (Latest.through + 1)..Len(log)
        BY <1>0, <1>2, <4>1
      <4>3. Adopted
        BY <4>2 DEF Adopted
      <4> QED BY <4>3, FoundFields
    <3>6. pc' \notin AtBatch \cup {"charge", "respond", "fit", "reply", "parked"}
      BY <3>2 DEF AtBatch
    <3> QED BY <1>1, <1>2, <2>1, <3>3, <3>4, <3>5, <3>6, PlainStep
  <2>3. ASSUME NEW t \in DOMAIN log, BatchFound(t) PROVE LoopInv'
    <3>1. /\ r.batch \subseteq Found.calls /\ r.refused \subseteq Found.calls
          /\ \A c \in r.batch : Fits(c) /\ ~GivenBy(c, {"budget"}) /\ c \notin r.refused
          /\ \A c \in r.refused : ~Given(c)
          /\ \A c \in CallsAt(t) : c \in r.batch \/ c \in r.refused \/ GivenBy(c, {"budget", "owner"})
      BY <1>0, <1>r, <2>3, ResumedBatch
    <3>2. /\ IsLast(t) /\ Found.calls \subseteq CallsAt(t) /\ Found.key = log[t].step /\ Found.base = log[t].base
          /\ \A c : c \in Found.answered <=> c \in CallsAt(t) /\ Given(c)
      BY <2>3 DEF BatchFound
    <3>3. /\ Grew /\ LogInv' /\ DoneInv' /\ WaitInv' /\ CheckpointInv' /\ IsLast(t)'
          /\ \A i \in (Len(log) + 1)..Len(log') : log'[i].type = "result"
          /\ \A c \in r.refused : Given(c)' /\ GivenBy(c, {"budget"})'
          /\ \A c : c \notin r.refused =>
               (Given(c)' <=> Given(c)) /\ (GivenBy(c, {"budget"})' => GivenBy(c, {"budget"}))
      <4>1. r.refused \subseteq CallsAt(t) /\ \A c \in r.refused : ~Given(c)
        BY <3>1, <3>2
      <4>2. PICK R : R = r.refused
        OBVIOUS
      <4>3. /\ Grew /\ LogInv' /\ DoneInv' /\ WaitInv' /\ CheckpointInv' /\ IsLast(t)'
            /\ \A i \in (Len(log) + 1)..Len(log') : log'[i].type = "result"
            /\ \A c \in R : Given(c)' /\ GivenBy(c, {"budget"})'
            /\ \A c : c \notin R =>
                 (Given(c)' <=> Given(c)) /\ (GivenBy(c, {"budget"})' => GivenBy(c, {"budget"}))
        <5>1. R \subseteq CallsAt(t) /\ (\A c \in R : ~Given(c)) /\ Refuse(R)
          BY <2>1, <4>1, <4>2
        <5> QED BY <1>1, <3>2, <5>1, RefusalsKept
      <4> QED BY <4>2, <4>3
    <3>4. t \in 1..Len(log) /\ CallsAt(t)' = CallsAt(t) /\ log'[t] = log[t] /\ \A c \in CallsAt(t) : c[1] = t
      <4>1. t \in 1..Len(log)
        BY <1>0
      <4> QED BY <1>0, <3>3, <4>1, GrewKeeps, CallsOf
    <3>5. \A c \in CallsAt(t) : c \in r.batch \/ Given(c)'
      <4>1. \A c : GivenBy(c, {"budget", "owner"}) => Given(c) /\ Given(c)'
        BY <3>3, NewResults, GrewKeeps
      <4> QED BY <3>1, <3>3, <4>1
    <3>6. \A u \in DOMAIN log : \A c \in CallsAt(u) : ~Given(c)' => pc' = "recall" /\ c \in work'.todo
      <4> TAKE u \in DOMAIN log
      <4> TAKE c \in CallsAt(u)
      <4> HAVE ~Given(c)'
      <4>1. ~Given(c)
        BY <3>3, GrewKeeps
      <4>2. IsLast(u)
        BY <1>0, <4>1, OpenIsLast
      <4>3. u = t
        BY <1>0, <3>2, <4>2, OneLast
      <4>4. c \in r.batch /\ c \notin Found.answered
        BY <3>2, <3>5, <4>1, <4>3
      <4> QED BY <2>1, <4>4
    <3>7. pc' \in {"recall", "settle", "loop"}
      BY <2>1
    <3>8. OpenInv'
      <4>1. pc' = "recall" => pc' \notin Quiet
        BY DEF Quiet
      <4> QED BY <1>0, <1>1, <3>3, <3>6, <3>7, <4>1, OpenGrows
    <3>9. BatchInv'
      <4>1. CASE pc' # "recall"
        BY <2>1, <3>7, <4>1 DEF BatchInv, AtBatch
      <4>2. CASE pc' = "recall"
        <5>1. r.batch # {}
          BY <2>1, <4>2
        <5>2. \A c \in r.batch : c[1] = t /\ Fits(c)' /\ ~GivenBy(c, {"budget"})'
          <6> TAKE c \in r.batch
          <6>1. c[1] = t /\ Fits(c) /\ ~GivenBy(c, {"budget"}) /\ c \notin r.refused
            BY <3>1, <3>2, <3>4
          <6> QED BY <3>3, <3>4, <6>1, GrewKeeps
        <5>3. \A d \in CallsAt(t) : d \in r.batch \/ GivenBy(d, {"budget", "owner"})'
          <6>1. \A d \in r.refused : GivenBy(d, {"budget", "owner"})'
            BY <3>3 DEF GivenBy
          <6>2. \A d : GivenBy(d, {"budget", "owner"}) => GivenBy(d, {"budget", "owner"})'
            BY <3>3, GrewKeeps
          <6> QED BY <3>1, <6>1, <6>2
        <5>4. \A c \in work'.batch :
                /\ IsLast(c[1])' /\ Fits(c)' /\ ~GivenBy(c, {"budget"})'
                /\ work'.key = log'[c[1]].step /\ work'.base = log'[c[1]].base
                /\ \A d \in CallsAt(c[1])' : d \in work'.batch \/ GivenBy(d, {"budget", "owner"})'
          BY <2>1, <3>2, <3>3, <3>4, <5>2, <5>3
        <5>5. \A c \in work'.todo : Given(c)' => c \in work'.known
          BY <2>1, <3>1, <3>2, <3>3
        <5> QED BY <2>1, <4>2, <5>1, <5>4, <5>5 DEF BatchInv
      <4> QED BY <4>1, <4>2
    <3>10. ReplyInv'
      <4>1. losses = 0 => \A i \in DOMAIN log : ~Is("reply", i)
        <5> SUFFICES ASSUME losses = 0, NEW i \in DOMAIN log, Is("reply", i) PROVE FALSE
          OBVIOUS
        <5>1. i = Len(log)
          BY <1>0 DEF ReplyInv
        <5>2. IsTurn(t) /\ \A j \in (t + 1)..Len(log) : ~Is("reply", j)
          BY <3>2 DEF IsLast, LastUpTo
        <5>3. i # t
          BY <5>2 DEF IsTurn, Is
        <5> QED BY <1>0, <5>1, <5>2, <5>3
      <4>2. \A i \in (Len(log) + 1)..Len(log') : log'[i].type # "reply"
        BY <3>3
      <4> QED BY <1>0, <1>1, <3>3, <4>1, <4>2, RepliesGrow
    <3>11. ResponseInv' /\ SuspensionInv'
      BY <2>1, <3>7 DEF ResponseInv, SuspensionInv, Suspending
    <3> QED BY <3>3, <3>8, <3>9, <3>10, <3>11 DEF LoopInv
  <2> QED BY <1>3, <2>2, <2>3
<1> QED BY <1>4, <1>5

-----------------------------------------------------------------------------
(* The invariant and what follows from it *)

LEMMA LoopStarts ==
  ASSUME Init
  PROVE  LoopInv
<1>1. TypeOK
  <2>1. /\ log = <<>> /\ ckpts = <<>> /\ done = {} /\ wait = NoWait /\ work = Fresh
    BY DEF Init
  <2>2. log \in Seq(Event) /\ ckpts \in Seq(Checkpoints)
    BY <2>1
  <2>3. wait \in [key: Nat \X CallId, for: {"none"} \cup Waits, over: BOOLEAN]
    BY <2>1 DEF NoWait, CallId
  <2>4. work \in Memory /\ work.outcome = "none"
    BY <2>1, FreshTyped
  <2> QED BY <2>2, <2>3, <2>4, LoopAssumption DEF TypeOK, Init
<1>2. log = <<>> /\ DOMAIN log = {} /\ ckpts = <<>> /\ DOMAIN ckpts = {} /\ pc = "start" /\ done = {}
      /\ wait.for = "none" /\ work.twice \subseteq repeated /\ work.outcome = "none"
  BY FreshTyped DEF Init, NoWait
<1>3. LogInv /\ OpenInv /\ ResponseInv /\ DoneInv
  BY <1>2 DEF LogInv, ResultsBelong, ResultsAreUnique, UsersAnswerOne, RepliesFollowText, OpenInv, ResponseInv, DoneInv
<1>4. BatchInv /\ WaitInv /\ SuspensionInv /\ CheckpointInv /\ ReplyInv
  BY <1>2 DEF BatchInv, AtBatch, WaitInv, SuspensionInv, Suspending, CheckpointInv, ReplyInv
<1> QED BY <1>1, <1>3, <1>4 DEF LoopInv

LEMMA LoopKept ==
  ASSUME LoneQuestions, Refusals # "passing", LoopInv, [Next]_vars
  PROVE  LoopInv'
<1>0. /\ TypeOK /\ BatchInv /\ CheckpointInv /\ ResponseInv /\ LogInv /\ OpenInv
  BY DEF LoopInv
<1>1. CASE Step1
  <2>1. TypeOK'
    BY <1>0, <1>1, TypesKept1
  <2> QED BY <1>1, <2>1, Kept1, Kept5, Kept6 DEF Step1
<1>2. CASE Step2
  <2>1. TypeOK'
    BY <1>0, <1>2, TypesKept2
  <2> QED BY <1>2, <2>1, Kept2, Kept4, Kept5, Kept6 DEF Step2
<1>3. CASE Step3 \/ UNCHANGED vars
  <2>1. TypeOK'
    BY <1>0, <1>3, TypesKept3
  <2>2. CASE Resolve \/ CancelParked \/ Crash \/ Lose
    BY <2>1, <2>2, Kept2, Kept7
  <2>3. CASE Pass \/ Rest \/ UNCHANGED vars
    <3>1. UNCHANGED <<durable, pc, work, bounds>>
      BY <2>3 DEF Pass, Rest, vars
    <3> QED BY <2>1, <3>1, Kept3
  <2> QED BY <1>3, <2>2, <2>3 DEF Step3
<1>4. ASSUME NEW c \in work.todo, NEW for \in Waits, Suspend(c, for) PROVE LoopInv'
  <2>1. TypeOK'
    BY <1>0, <1>4, TypesKept3
  <2> QED BY <1>4, <2>1, SuspendKept
<1>5. CASE Resume \/ Fit \/ Reply \/ Answer
  <2>1. pc # "start"
    BY <1>5 DEF Resume, Fit, Reply, Answer
  <2>2. NothingFound \/ \E t \in DOMAIN log : BatchFound(t)
    BY <1>0, <2>1, ResumeFinds
  <2>3. TypeOK'
    BY <1>0, <1>5, <2>2, TypesKept4
  <2> QED BY <1>5, <2>3, ResumeKept, FitKept, ReplyKept, AnswerKept
<1>6. ASSUME NEW c \in work.todo, Call(c) PROVE LoopInv'
  <2>1. pc # "start"
    BY <1>6 DEF Call
  <2>2. NothingFound \/ \E t \in DOMAIN log : BatchFound(t)
    BY <1>0, <2>1, ResumeFinds
  <2>3. TypeOK'
    BY <1>0, <1>6, <2>2, TypesKept4
  <2> QED BY <1>6, <2>3, CallKept
<1>8. ASSUME NEW c \in work.todo, Refusal(c) PROVE LoopInv'
  <2>1. pc # "start"
    BY <1>8 DEF Refusal
  <2>2. NothingFound \/ \E t \in DOMAIN log : BatchFound(t)
    BY <1>0, <2>1, ResumeFinds
  <2>3. TypeOK'
    BY <1>0, <1>8, <2>2, TypesKept4
  <2> QED BY <1>8, <2>3, RefusalKept
<1>7. ASSUME NEW n \in 0..MaxBatch, NEW answer \in {"tools", "text", "empty"}, Ask(n, answer) PROVE LoopInv'
  <2>1. pc # "start"
    BY <1>7 DEF Ask
  <2>2. NothingFound \/ \E t \in DOMAIN log : BatchFound(t)
    BY <1>0, <2>1, ResumeFinds
  <2>3. TypeOK'
    BY <1>0, <1>7, <2>2, TypesKept4
  <2> QED BY <1>7, <2>3, AskKept
<1> QED BY <1>1, <1>2, <1>3, <1>4, <1>5, <1>6, <1>7, <1>8, Steps

\* The invariant holds however the run crashes, parks, loses checkpoints and is resumed,
\* provided a question to the owner is the only call of its turn and what refuses a call
\* once refuses it for good.
THEOREM LoopIsInvariant ==
  ASSUME LoneQuestions, Refusals # "passing"
  PROVE  Spec => []LoopInv
<1>1. Init => LoopInv
  BY LoopStarts
<1>2. LoopInv /\ [Next]_vars => LoopInv'
  BY LoopKept
<1> QED BY <1>1, <1>2, PTL DEF Spec

\* The state of the loop and of its recovery stays within its types: the counters, the
\* events, the checkpoints, the batch in memory (RunExecutor, AgentLoop).
THEOREM LoopTypes ==
  ASSUME LoneQuestions, Refusals # "passing"
  PROVE  Spec => []TypeOK
<1>1. LoopInv => TypeOK
  BY DEF LoopInv
<1> QED BY <1>1, LoopIsInvariant, PTL

\* A call is settled under one key, however often a worker dies and whatever checkpoints
\* are lost, and a run that loses none replies once (_resume_pending_tools).
THEOREM WorkIsNotRepeated ==
  ASSUME LoneQuestions, Refusals # "passing"
  PROVE  Spec => []WorkIsDoneOnce
<1>1. ASSUME LoopInv PROVE WorkIsDoneOnce
  <2>0. TypeOK /\ DoneInv /\ ReplyInv
    BY <1>1 DEF LoopInv
  <2>1. ASSUME NEW a \in done, NEW b \in done, a[2] = b[2] PROVE a = b
    <3>1. a \in Nat \X CallId /\ b \in Nat \X CallId
      BY <2>0 DEF TypeOK
    <3>2. a[1] = b[1]
      BY <2>0, <2>1 DEF DoneInv
    <3> QED BY <2>1, <3>1, <3>2
  <2>2. ASSUME losses = 0 PROVE Cardinality({i \in DOMAIN log : Is("reply", i)}) <= 1
    <3> DEFINE S == {i \in DOMAIN log : Is("reply", i)}
    <3>1. S \subseteq {Len(log)}
      BY <2>0, <2>2 DEF ReplyInv
    <3>2. IsFiniteSet({Len(log)}) /\ Cardinality({Len(log)}) = 1
      BY FS_Singleton
    <3>3. Cardinality(S) <= Cardinality({Len(log)})
      <4> HIDE DEF S
      <4> QED BY <3>1, <3>2, FS_Subset
    <3> QED BY <3>2, <3>3
  <2> QED BY <2>1, <2>2 DEF WorkIsDoneOnce
<1> QED BY <1>1, LoopIsInvariant, PTL

\* Whenever a step builds its context, every call of the conversation has a result, and
\* validate_tool_pairs finds two only of calls that were refused again (_refusal).
THEOREM ContextAssembles ==
  ASSUME LoneQuestions, Refusals # "passing"
  PROVE  Spec => []OnlyRefusalsRepeat
<1>1. ASSUME LoopInv PROVE OnlyRefusalsRepeat
  <2>0. /\ TypeOK /\ LogInv /\ ResultsBelong /\ ResultsAreUnique /\ OpenInv /\ work.twice \subseteq repeated
        /\ log \in Seq(Event) /\ DOMAIN log = 1..Len(log) /\ Len(log) \in Nat
    BY <1>1 DEF LoopInv, LogInv, BatchInv, TypeOK
  <2> SUFFICES ASSUME pc = "build" PROVE OneResultEach
    BY <2>0 DEF OnlyRefusalsRepeat
  <2>1. NoneOpen
    BY <2>0, NoneOpenAt DEF Quiet
  <2>2. ASSUME NEW t \in DOMAIN log, NEW c \in CallsAt(t) PROVE c \in Answered(t, Len(log))
    <3>1. Given(c) /\ c \in CallId /\ c[1] = t
      BY <2>0, <2>1, <2>2, CallsOf DEF NoneOpen
    <3>2. Len(log) \in 0..Len(log) /\ t \in 0..Len(log)
      BY <2>0
    <3>3. \E j \in (t + 1)..Len(log) : Is("result", j) /\ log[j].call = c
      BY <2>0, <3>1, <3>2, GivenLater DEF Given
    <3> QED BY <2>0, <3>2, <3>3, AnsweredMeans
  <2> QED BY <2>0, <2>2 DEF OneResultEach, ResultsAreUnique
<1> QED BY <1>1, LoopIsInvariant, PTL

-----------------------------------------------------------------------------
(* The tool-call count *)

\* How many of the first n events are results given by one of these.
Count(n, who) == Cardinality({i \in 1..n : Is("result", i) /\ log[i].by \in who})
Working == {"tool", "refusal"}
Paying == {"tool", "refusal", "owner"}
AllTurns == \A i \in DOMAIN log : Is("response", i) => IsTurn(i)

\* The count a response was given lies between the performed calls and the paid ones
\* before it.
ResponsesCount ==
  \A i \in DOMAIN log : Is("response", i) =>
    /\ Count(i, Working) <= log[i].base /\ log[i].base <= row.tools
    /\ AllTurns => log[i].base <= Count(i, Paying)

\* Where the count covers every performed call, and where it will once the batch at
\* hand is recorded.
CountCovers ==
  /\ pc \in {"save", "loop", "build", "ask", "pend"} => Count(Len(log), Working) <= row.tools
  /\ pc = "resume" /\ NoneOpen => Count(Len(log), Working) <= row.tools
  /\ pc = "settle" => Count(Len(log), Working) <= row.tools + work.extra

\* Only calls that were answered are counted, if every response proposed calls.
CountIsPaid ==
  AllTurns =>
    /\ row.tools <= Count(Len(log), Paying)
    /\ pc = "settle" => row.tools + work.extra <= Count(Len(log), Paying)

\* What the batch at hand adds to the count.
Owed ==
  /\ pc \in {"build", "ask", "charge", "respond", "fit", "pend"} => work.owed = "all"
  /\ pc \in AtBatch /\ work.owed = "all" => row.tools = work.base
  /\ pc \in AtBatch /\ work.owed = "extra" =>
       LET n == work.base + Cardinality(work.batch)
       IN  n <= row.tools + work.extra /\ (work.extra = 0 \/ row.tools + work.extra = n)

UsageInv == ResponsesCount /\ CountCovers /\ CountIsPaid /\ Owed

\* Results are finitely many, and those of the first events are no more than all.
LEMMA CountTyped ==
  ASSUME log \in Seq(Event), NEW n \in Nat, NEW who
  PROVE  /\ IsFiniteSet({i \in 1..n : Is("result", i) /\ log[i].by \in who})
         /\ Count(n, who) \in Nat
<1> DEFINE S == {i \in 1..n : Is("result", i) /\ log[i].by \in who}
<1>1. IsFiniteSet(1..n)
  <2>1. 1 \in Int /\ n \in Int
    OBVIOUS
  <2> QED BY <2>1, FS_Interval
<1>2. S \subseteq 1..n
  OBVIOUS
<1>3. IsFiniteSet(S)
  <2> HIDE DEF S
  <2> QED BY <1>1, <1>2, FS_Subset
<1>4. Cardinality(S) \in Nat
  <2> HIDE DEF S
  <2> QED BY <1>3, FS_CardinalityType
<1> QED BY <1>3, <1>4 DEF Count

After(t, who) == {i \in (t + 1)..Len(log) : Is("result", i) /\ log[i].by \in who}

\* The results are those up to a position and those after it.
LEMMA CountSplits ==
  ASSUME log \in Seq(Event), NEW t \in 0..Len(log), NEW who
  PROVE  /\ IsFiniteSet(After(t, who)) /\ Cardinality(After(t, who)) \in Nat
         /\ Count(Len(log), who) = Count(t, who) + Cardinality(After(t, who))
<1> DEFINE S == {i \in 1..t : Is("result", i) /\ log[i].by \in who}
           A == {i \in 1..Len(log) : Is("result", i) /\ log[i].by \in who}
           B == After(t, who)
<1>0. Len(log) \in Nat /\ t \in Nat /\ t <= Len(log)
  OBVIOUS
<1>1. IsFiniteSet(S) /\ IsFiniteSet(A) /\ Count(t, who) = Cardinality(S) /\ Count(Len(log), who) = Cardinality(A)
  <2>1. IsFiniteSet(S) /\ IsFiniteSet(A)
    BY <1>0, CountTyped
  <2> QED BY <2>1 DEF Count
<1>2. A = S \cup B /\ S \cap B = {} /\ B \subseteq A
  BY <1>0 DEF After
<1> HIDE DEF S, A, B
<1>3. IsFiniteSet(B)
  BY <1>1, <1>2, FS_Subset
<1>4. Cardinality(A) = Cardinality(S) + Cardinality(B) - Cardinality({})
  BY <1>1, <1>2, <1>3, FS_Union
<1>5. Cardinality({}) = 0 /\ Cardinality(S) \in Nat /\ Cardinality(B) \in Nat
  BY <1>1, <1>3, FS_EmptySet, FS_CardinalityType
<1> QED BY <1>1, <1>3, <1>4, <1>5 DEF B

\* The results after a position are no more than the calls they can be of,
LEMMA CountAtMost ==
  ASSUME log \in Seq(Event), ResultsAreUnique, NEW t \in 0..Len(log), NEW who, NEW B, IsFiniteSet(B),
         \A i \in After(t, who) : log[i].call \in B
  PROVE  Count(Len(log), who) <= Count(t, who) + Cardinality(B)
<1> DEFINE f == [i \in After(t, who) |-> log[i].call]
<1>0. Len(log) \in Nat /\ t \in Nat /\ DOMAIN log = 1..Len(log)
  OBVIOUS
<1>1. \A i \in After(t, who) : i \in DOMAIN log /\ Is("result", i)
  BY <1>0 DEF After
<1>2. f \in [After(t, who) -> B] /\ \A i \in After(t, who) : f[i] = log[i].call
  OBVIOUS
<1>3. \A i, j \in After(t, who) : f[i] = f[j] => i = j
  BY <1>1, <1>2 DEF ResultsAreUnique
<1>4. f \in Injection(After(t, who), B)
  <2> HIDE DEF f
  <2> QED BY <1>2, <1>3, Fun_IsInj
<1>5. Cardinality(After(t, who)) <= Cardinality(B)
  <2> HIDE DEF f
  <2> QED BY <1>4, FS_Injection
<1>6. /\ Cardinality(After(t, who)) \in Nat /\ Cardinality(B) \in Nat /\ Count(t, who) \in Nat
      /\ Count(Len(log), who) = Count(t, who) + Cardinality(After(t, who))
  BY <1>0, CountSplits, CountTyped, FS_CardinalityType
<1> QED BY <1>5, <1>6

\* and no fewer than the calls that have one.
LEMMA CountAtLeast ==
  ASSUME log \in Seq(Event), NEW t \in 0..Len(log), NEW who, NEW B,
         \A c \in B : \E i \in After(t, who) : log[i].call = c
  PROVE  /\ IsFiniteSet(B) /\ Cardinality(B) \in Nat
         /\ Count(t, who) + Cardinality(B) <= Count(Len(log), who)
<1> DEFINE f == [c \in B |-> CHOOSE i \in After(t, who) : log[i].call = c]
<1>0. Len(log) \in Nat /\ t \in Nat
  OBVIOUS
<1>1. \A c \in B : f[c] \in After(t, who) /\ log[f[c]].call = c
  OBVIOUS
<1>2. f \in [B -> After(t, who)]
  BY <1>1
<1>3. \A c, d \in B : f[c] = f[d] => c = d
  <2> HIDE DEF f
  <2> QED BY <1>1
<1>4. f \in Injection(B, After(t, who))
  <2> HIDE DEF f
  <2> QED BY <1>2, <1>3, Fun_IsInj
<1>5. /\ IsFiniteSet(After(t, who)) /\ Cardinality(After(t, who)) \in Nat /\ Count(t, who) \in Nat
      /\ Count(Len(log), who) = Count(t, who) + Cardinality(After(t, who))
  BY <1>0, CountSplits, CountTyped
<1>6. IsFiniteSet(B) /\ Cardinality(B) <= Cardinality(After(t, who))
  <2> HIDE DEF f
  <2> QED BY <1>4, <1>5, FS_Injection
<1>7. Cardinality(B) \in Nat
  BY <1>6, FS_CardinalityType
<1> QED BY <1>5, <1>6, <1>7

Final(u) == u \in DOMAIN log /\ Is("response", u) /\ \A j \in (u + 1)..Len(log) : ~Is("response", j)

\* There is a last response, unless there is none.
LEMMA FinalExists ==
  ASSUME log \in Seq(Event)
  PROVE  (\A i \in DOMAIN log : ~Is("response", i)) \/ \E u : Final(u)
<1> DEFINE S == {i \in DOMAIN log : Is("response", i)}
<1>0. Len(log) \in Nat /\ DOMAIN log = 1..Len(log) /\ S \in SUBSET (1..Len(log))
  OBVIOUS
<1>1. CASE S = {}
  BY <1>1
<1>2. CASE S # {}
  <2>1. LatestIn(S) \in S /\ \A j \in S : j <= LatestIn(S)
    <3> HIDE DEF S
    <3> QED BY <1>0, <1>2, LatestExists
  <2>2. LatestIn(S) \in DOMAIN log /\ Is("response", LatestIn(S)) /\ LatestIn(S) \in Nat
    BY <2>1
  <2>3. \A j \in (LatestIn(S) + 1)..Len(log) : j \in DOMAIN log /\ j \notin S
    <3> HIDE DEF S
    <3> QED BY <1>0, <2>1, <2>2
  <2> QED BY <2>2, <2>3 DEF Final
<1> QED BY <1>1, <1>2

\* The results after the last response are of its calls.
LEMMA FinalResults ==
  ASSUME log \in Seq(Event), LogInv, NEW u, Final(u), NEW i \in DOMAIN log, Is("result", i), i > u
  PROVE  log[i].call \in CallsAt(u)
<1>0. Len(log) \in Nat /\ DOMAIN log = 1..Len(log) /\ u \in DOMAIN log /\ u \in Nat /\ i \in Nat
  BY DEF Final
<1> DEFINE c == log[i].call
<1>1. c[1] \in 1..(i - 1) /\ c \in CallsAt(c[1]) /\ Undisturbed(c[1], i - 1)
  BY DEF LogInv, ResultsBelong
<1>2. c[1] \in DOMAIN log /\ Is("response", c[1])
  <2>1. c[1] \in DOMAIN log
    BY <1>0, <1>1
  <2> QED BY <1>1, <2>1 DEF CallsAt, IsTurn
<1>3. ~(u < c[1])
  <2> SUFFICES ASSUME u < c[1] PROVE FALSE
    OBVIOUS
  <2>1. c[1] \in (u + 1)..Len(log)
    BY <1>0, <1>2
  <2> QED BY <1>2, <2>1 DEF Final
<1>4. ~(c[1] < u)
  <2> SUFFICES ASSUME c[1] < u PROVE FALSE
    OBVIOUS
  <2>1. u \in (c[1] + 1)..(i - 1)
    BY <1>0, <1>1
  <2>2. Is("result", u) \/ Is("user", u)
    BY <1>1, <2>1 DEF Undisturbed
  <2> QED BY <2>2 DEF Final, Is
<1>5. c[1] = u
  BY <1>0, <1>2, <1>3, <1>4
<1> QED BY <1>1, <1>5

\* The last response is the last with calls if it has calls.
LEMMA FinalIsLast ==
  ASSUME log \in Seq(Event), LogInv, NEW u, Final(u), IsTurn(u)
  PROVE  IsLast(u)
<1>0. Len(log) \in Nat /\ DOMAIN log = 1..Len(log) /\ u \in DOMAIN log /\ u \in Nat
  BY DEF Final
<1>1. \A j \in (u + 1)..Len(log) : ~IsTurn(j)
  BY DEF Final, IsTurn
<1>2. ASSUME NEW j \in (u + 1)..Len(log), Is("reply", j) PROVE FALSE
  <2>1. j \in DOMAIN log
    BY <1>0
  <2>2. Is("response", j - 1) /\ ~IsTurn(j - 1)
    BY <1>2, <2>1 DEF LogInv, RepliesFollowText
  <2>3. j - 1 = u \/ j - 1 \in (u + 1)..Len(log)
    BY <1>0, <1>2
  <2> QED BY <2>2, <2>3 DEF Final
<1> QED BY <1>0, <1>1, <1>2 DEF IsLast, LastUpTo

\* A call has one result, so one giver.
LEMMA OneGiver ==
  ASSUME ResultsAreUnique, NEW c, NEW A, NEW B, GivenBy(c, A), GivenBy(c, B)
  PROVE  A \cap B # {}
<1> QED BY DEF GivenBy, ResultsAreUnique

\* A count covers the performed calls if it covers those of the last response.
LEMMA Covered ==
  ASSUME TypeOK, LogInv, ResponsesCount, NEW n \in Nat, row.tools <= n, NEW B, IsFiniteSet(B),
         \A u : Final(u) /\ IsTurn(u) =>
           /\ \A c \in CallsAt(u) : GivenBy(c, Working) => c \in B
           /\ log[u].base + Cardinality(B) <= n
  PROVE  Count(Len(log), Working) <= n
<1>0. /\ log \in Seq(Event) /\ Len(log) \in Nat /\ DOMAIN log = 1..Len(log) /\ row.tools \in Nat
      /\ ResultsAreUnique /\ ResultsBelong
  BY DEF TypeOK, LogInv
<1>1. ASSUME \A i \in DOMAIN log : ~Is("response", i) PROVE Count(Len(log), Working) <= n
  <2>1. \A i \in DOMAIN log : ~Is("result", i)
    <3> SUFFICES ASSUME NEW i \in DOMAIN log, Is("result", i) PROVE FALSE
      OBVIOUS
    <3>1. log[i].call[1] \in 1..(i - 1) /\ log[i].call \in CallsAt(log[i].call[1])
      BY <1>0 DEF ResultsBelong
    <3>2. log[i].call[1] \in DOMAIN log
      BY <1>0, <3>1
    <3> QED BY <1>1, <3>1, <3>2 DEF CallsAt, IsTurn
  <2>2. {i \in 1..Len(log) : Is("result", i) /\ log[i].by \in Working} = {}
    BY <1>0, <2>1
  <2>3. Count(Len(log), Working) = 0
    BY <2>2, FS_EmptySet DEF Count
  <2> QED BY <2>3
<1>2. ASSUME NEW u, Final(u) PROVE Count(Len(log), Working) <= n
  <2>0. u \in DOMAIN log /\ u \in 0..Len(log) /\ u \in Nat /\ Is("response", u)
    BY <1>0, <1>2 DEF Final
  <2>1. Count(u, Working) <= log[u].base /\ log[u].base <= row.tools /\ log[u].base \in Nat
    BY <1>0, <2>0, EventKinds DEF ResponsesCount, Responses
  <2>2. Count(u, Working) \in Nat /\ Count(Len(log), Working) \in Nat
    BY <1>0, <2>0, CountTyped
  <2>3. \A i \in After(u, Working) : log[i].call \in CallsAt(u) /\ GivenBy(log[i].call, Working)
    <3> TAKE i \in After(u, Working)
    <3>1. i \in DOMAIN log /\ i > u /\ Is("result", i) /\ log[i].by \in Working
      BY <1>0, <2>0 DEF After
    <3> QED BY <1>0, <1>2, <3>1, FinalResults DEF GivenBy
  <2>4. CASE IsTurn(u)
    <3>1. \A i \in After(u, Working) : log[i].call \in B
      BY <1>2, <2>3, <2>4
    <3>2. Count(Len(log), Working) <= Count(u, Working) + Cardinality(B)
      BY <1>0, <2>0, <3>1, CountAtMost
    <3>3. log[u].base + Cardinality(B) <= n /\ Cardinality(B) \in Nat
      BY <1>2, <2>4, FS_CardinalityType
    <3> QED BY <2>1, <2>2, <3>2, <3>3
  <2>5. CASE ~IsTurn(u)
    <3>1. CallsAt(u) = {}
      BY <2>5 DEF CallsAt
    <3>2. \A i \in After(u, Working) : log[i].call \in {}
      BY <2>3, <3>1
    <3>3. IsFiniteSet({}) /\ Cardinality({}) = 0
      BY FS_EmptySet
    <3>4. Count(Len(log), Working) <= Count(u, Working) + Cardinality({})
      BY <1>0, <2>0, <3>2, <3>3, CountAtMost
    <3> QED BY <1>0, <2>1, <2>2, <3>3, <3>4
  <2> QED BY <2>4, <2>5
<1> QED BY <1>0, <1>1, <1>2, FinalExists

\* What a response counted and calls of it that were answered are paid for.
LEMMA PaidFor ==
  ASSUME TypeOK, LogInv, ResponsesCount, AllTurns, NEW t \in DOMAIN log, IsTurn(t),
         NEW B, B \subseteq CallsAt(t), \A c \in B : GivenBy(c, Paying)
  PROVE  IsFiniteSet(B) /\ Cardinality(B) \in Nat /\ log[t].base + Cardinality(B) <= Count(Len(log), Paying)
<1>0. /\ log \in Seq(Event) /\ Len(log) \in Nat /\ DOMAIN log = 1..Len(log) /\ t \in 0..Len(log) /\ t \in Nat
      /\ ResultsBelong
  BY DEF TypeOK, LogInv
<1>1. \A c \in B : \E i \in After(t, Paying) : log[i].call = c
  <2> TAKE c \in B
  <2>1. PICK i \in DOMAIN log : Is("result", i) /\ log[i].call = c /\ log[i].by \in Paying
    BY DEF GivenBy
  <2>2. c[1] = t /\ c[1] \in 1..(i - 1)
    BY <1>0, <2>1, CallsOf DEF ResultsBelong
  <2>3. i \in (t + 1)..Len(log)
    BY <1>0, <2>1, <2>2
  <2> QED BY <2>1, <2>3 DEF After
<1>2. IsFiniteSet(B) /\ Cardinality(B) \in Nat /\ Count(t, Paying) + Cardinality(B) <= Count(Len(log), Paying)
  BY <1>0, <1>1, CountAtLeast
<1>3. log[t].base <= Count(t, Paying) /\ log[t].base \in Nat
  BY <1>0, EventKinds DEF ResponsesCount, IsTurn, Responses
<1>4. Count(t, Paying) \in Nat /\ Count(Len(log), Paying) \in Nat
  BY <1>0, CountTyped
<1> QED BY <1>2, <1>3, <1>4


-----------------------------------------------------------------------------
(* The count over a step *)

\* The results among the first events stay; new results only add to the count.
LEMMA CountGrows ==
  ASSUME Grew, NEW who
  PROVE  /\ \A n \in 0..Len(log) : Count(n, who)' = Count(n, who)
         /\ Count(Len(log), who) <= Count(Len(log), who)'
         /\ (\A i \in (Len(log) + 1)..Len(log') : ~(log'[i].type = "result" /\ log'[i].by \in who)) =>
              Count(Len(log), who)' = Count(Len(log), who)
<1>0. /\ Len(log) \in Nat /\ Len(log') \in Nat /\ Len(log) <= Len(log') /\ log \in Seq(Event) /\ log' \in Seq(Event)
      /\ \A i \in 1..Len(log) : log'[i] = log[i]
  BY DEF Grew
<1>1. \A n \in 0..Len(log) : Count(n, who)' = Count(n, who)
  <2> TAKE n \in 0..Len(log)
  <2>1. \A i \in 1..n : log'[i] = log[i]
    BY <1>0
  <2>2. {i \in 1..n : log'[i].type = "result" /\ log'[i].by \in who}
          = {i \in 1..n : log[i].type = "result" /\ log[i].by \in who}
    BY <2>1
  <2> QED BY <2>2 DEF Count, Is
<1>2. PICK m \in Nat : m = Len(log')
  BY <1>0
<1> DEFINE S == {i \in 1..Len(log) : log[i].type = "result" /\ log[i].by \in who}
           A == {i \in 1..m : log'[i].type = "result" /\ log'[i].by \in who}
<1>3. Count(Len(log), who) = Cardinality(S) /\ Count(Len(log), who)' = Cardinality(A)
  BY <1>2 DEF Count, Is
<1>4. S \subseteq A
  BY <1>0, <1>2
<1>5. IsFiniteSet(A)
  <2>1. IsFiniteSet(1..m)
    BY <1>2, FS_Interval
  <2>2. A \subseteq 1..m
    OBVIOUS
  <2> HIDE DEF A
  <2> QED BY <2>1, <2>2, FS_Subset
<1>6. Cardinality(S) <= Cardinality(A)
  <2> HIDE DEF S, A
  <2> QED BY <1>4, <1>5, FS_Subset
<1>7. (\A i \in (Len(log) + 1)..Len(log') : ~(log'[i].type = "result" /\ log'[i].by \in who)) => A \subseteq S
  BY <1>0, <1>2
<1> HIDE DEF S, A
<1>8. (\A i \in (Len(log) + 1)..Len(log') : ~(log'[i].type = "result" /\ log'[i].by \in who)) => A = S
  BY <1>4, <1>7
<1> QED BY <1>1, <1>3, <1>6, <1>8

LEMMA SameCount ==
  ASSUME UNCHANGED log
  PROVE  /\ \A n, who : Count(n, who)' = Count(n, who)
         /\ \A who : Count(Len(log), who)' = Count(Len(log), who)
         /\ AllTurns' <=> AllTurns
         /\ NoneOpen' <=> NoneOpen
<1> QED BY DEF Count, Is, AllTurns, IsTurn, NoneOpen, CallsAt, Given, Has

\* A response that proposed no calls stays in the log.
LEMMA TurnsGrow ==
  ASSUME Grew, AllTurns'
  PROVE  AllTurns
<1>1. \A i \in DOMAIN log : i \in 1..Len(log) /\ i \in DOMAIN log'
  BY DEF Grew
<1> QED BY <1>1, GrewKeeps DEF AllTurns

\* What the responses counted stays between the bounds, and what the row counts stays paid,
\* as long as the model does not answer.
LEMMA ResponsesStay ==
  ASSUME TypeOK, TypeOK', ResponsesCount, Grew, row.tools <= row'.tools,
         \A i \in (Len(log) + 1)..Len(log') : log'[i].type # "response"
  PROVE  ResponsesCount'
<1>0. /\ Len(log) \in Nat /\ Len(log') \in Nat /\ log \in Seq(Event) /\ DOMAIN log = 1..Len(log)
      /\ DOMAIN log' = 1..Len(log') /\ row.tools \in Nat /\ row'.tools \in Nat
  <2>1. row.tools \in Nat /\ row'.tools \in Nat
    BY DEF TypeOK
  <2> QED BY <2>1 DEF Grew
<1> SUFFICES ASSUME NEW i \in DOMAIN log', Is("response", i)'
             PROVE  /\ Count(i, Working)' <= log'[i].base /\ log'[i].base <= row'.tools
                    /\ AllTurns' => log'[i].base <= Count(i, Paying)'
  BY DEF ResponsesCount
<1>1. i \in 1..Len(log)
  BY <1>0 DEF Is
<1>2. log'[i] = log[i] /\ Is("response", i)
  BY <1>1, GrewKeeps
<1>3. /\ Count(i, Working) <= log[i].base /\ log[i].base <= row.tools /\ log[i].base \in Nat
      /\ AllTurns => log[i].base <= Count(i, Paying)
  BY <1>0, <1>1, <1>2, EventKinds DEF ResponsesCount, Responses
<1>4. Count(i, Working)' = Count(i, Working) /\ Count(i, Paying)' = Count(i, Paying)
  <2>1. i \in 0..Len(log)
    BY <1>0, <1>1
  <2>2. \A who : \A n \in 0..Len(log) : Count(n, who)' = Count(n, who)
    BY CountGrows
  <2> QED BY <2>1, <2>2 DEF Paying
<1> QED BY <1>0, <1>2, <1>3, <1>4, TurnsGrow

LEMMA PaidGrows ==
  ASSUME TypeOK, CountIsPaid, Grew, row'.tools = row.tools, AllTurns'
  PROVE  row'.tools <= Count(Len(log), Paying)'
<1>0. Len(log) \in Nat /\ Len(log') \in Nat /\ log \in Seq(Event) /\ log' \in Seq(Event) /\ row.tools \in Nat
  BY DEF TypeOK, Grew
<1>1. row.tools <= Count(Len(log), Paying)
  BY TurnsGrow DEF CountIsPaid
<1>2. \A who : Count(Len(log), who) <= Count(Len(log), who)'
  BY CountGrows
<1>3. Count(Len(log), Paying) <= Count(Len(log), Paying)'
  BY <1>2 DEF Paying
<1>4. \A who : Count(Len(log), who) \in Nat
  BY <1>0, CountTyped
<1>5. \A n \in Nat : \A who : Count(n, who)' \in Nat
  <2> SUFFICES ASSUME NEW n \in Nat, NEW who PROVE Count(n, who)' \in Nat
    OBVIOUS
  <2> DEFINE S == {i \in 1..n : log'[i].type = "result" /\ log'[i].by \in who}
  <2>1. Count(n, who)' = Cardinality(S)
    BY DEF Count, Is
  <2>2. IsFiniteSet(1..n) /\ S \subseteq 1..n
    BY FS_Interval
  <2> HIDE DEF S
  <2> QED BY <2>1, <2>2, FS_Subset, FS_CardinalityType
<1>6. Count(Len(log), Paying)' \in Nat
  <2>1. PICK m \in Nat : m = Len(log')
    BY <1>0
  <2>2. Count(Len(log), Paying)' = Count(m, Paying)'
    BY <2>1 DEF Count, Paying, Is
  <2> QED BY <1>5, <2>1, <2>2 DEF Paying
<1> QED BY <1>0, <1>1, <1>3, <1>4, <1>6

\* A step that leaves the log and the count as they are.
LEMMA UsageKept ==
  ASSUME TypeOK, TypeOK', UsageInv, UNCHANGED log, row'.tools = row.tools,
         pc' \in {"save", "loop", "build", "ask", "pend"} => Count(Len(log), Working) <= row.tools,
         pc' \notin {"resume", "settle"}, Owed'
  PROVE  UsageInv'
<1>0. Grew /\ Len(log') = Len(log) /\ row.tools \in Nat
  BY SameGrew DEF TypeOK
<1>1. ResponsesCount'
  <2>1. \A i \in (Len(log) + 1)..Len(log') : FALSE
    BY <1>0 DEF Grew
  <2> QED BY <1>0, <2>1, ResponsesStay DEF UsageInv
<1>2. CountIsPaid'
  BY <1>0, PaidGrows DEF UsageInv, CountIsPaid
<1>3. CountCovers'
  BY SameCount DEF CountCovers
<1> QED BY <1>1, <1>2, <1>3 DEF UsageInv

LEMMA SameUsage ==
  ASSUME UsageInv, UNCHANGED <<log, repeated, row, pc, work>>
  PROVE  UsageInv'
<1>1. ResponsesCount'
  BY SameCount DEF UsageInv, ResponsesCount, Is
<1>2. CountCovers'
  BY SameCount DEF UsageInv, CountCovers
<1>3. CountIsPaid'
  BY SameCount DEF UsageInv, CountIsPaid
<1>4. Owed'
  BY DEF UsageInv, Owed
<1> QED BY <1>1, <1>2, <1>3, <1>4 DEF UsageInv

-----------------------------------------------------------------------------
(* The count at steps that leave it as it is *)

\* A step to where the count says nothing of a batch.
LEMMA UsageIdle ==
  ASSUME TypeOK, TypeOK', UsageInv, UNCHANGED log, row'.tools = row.tools,
         pc' \in {"start", "repair", "reply", "end", "parked"} \cup Terminal
  PROVE  UsageInv'
<1>1. pc' \notin {"save", "loop", "build", "ask", "pend", "resume", "settle", "charge", "respond", "fit"} \cup AtBatch
  BY DEF Terminal, AtBatch
<1>2. Owed'
  BY <1>1 DEF Owed
<1> QED BY <1>1, <1>2, UsageKept

LEMMA UsageKept1 ==
  ASSUME TypeOK, TypeOK', UsageInv, Start \/ Recall \/ SaveSuspension \/ SaveBatch \/ Step \/ Build
  PROVE  UsageInv'
<1>0. row.tools \in Nat /\ work \in Memory /\ row \in [steps: Nat, models: Nat, tools: Nat]
      /\ CountCovers /\ Owed
  BY DEF TypeOK, UsageInv
<1>1. CASE Start \/ SaveSuspension
  <2>1. UNCHANGED <<log, repeated, row>> /\ pc' \in {"repair", "end"}
    BY <1>1 DEF Start, SaveSuspension, EndWith
  <2> QED BY <2>1, UsageIdle
<1>2. CASE Recall
  <2>1. UNCHANGED <<log, repeated, row, work>> /\ pc = "recall" /\ pc' = "dispatch"
    BY <1>2 DEF Recall
  <2>2. Owed'
    BY <1>0, <2>1 DEF Owed, AtBatch
  <2> QED BY <2>1, <2>2, UsageKept
<1>3. CASE SaveBatch
  <2>1. UNCHANGED <<log, repeated, row>> /\ pc = "save" /\ pc' \in {"loop", "end"}
    BY <1>3 DEF SaveBatch, EndWith
  <2>2. Owed'
    BY <2>1 DEF Owed, AtBatch
  <2> QED BY <1>0, <2>1, <2>2, UsageKept DEF CountCovers
<1>4. CASE Step
  <2>1. CASE EndWith("FAILED") /\ UNCHANGED row
    <3>1. UNCHANGED <<log, repeated, row>> /\ pc' = "end"
      BY <1>4, <2>1 DEF Step, EndWith
    <3> QED BY <3>1, UsageIdle
  <2>2. CASE ~(EndWith("FAILED") /\ UNCHANGED row)
    <3>1. /\ UNCHANGED log /\ row' = [row EXCEPT !.steps = @ + 1] /\ pc = "loop" /\ pc' = "build"
          /\ work' = [Fresh EXCEPT !.reserve = Reserve(TRUE, FALSE, FALSE), !.twice = work.twice]
      BY <1>4, <2>2 DEF Step
    <3>2. row'.tools = row.tools /\ work'.owed = "all"
      BY <1>0, <3>1 DEF Fresh
    <3>3. Owed'
      BY <3>1, <3>2 DEF Owed, AtBatch
    <3> QED BY <1>0, <3>1, <3>2, <3>3, UsageKept DEF CountCovers
  <2> QED BY <2>1, <2>2
<1>5. CASE Build
  <2>1. CASE pc' = "end"
    <3>1. UNCHANGED <<log, repeated, row>>
      BY <1>5 DEF Build
    <3> QED BY <2>1, <3>1, UsageIdle
  <2>2. CASE pc' # "end"
    <3>1. UNCHANGED <<log, repeated, row, work>> /\ pc = "build" /\ pc' = "ask"
      BY <1>5, <2>2 DEF Build, EndWith
    <3>2. Owed'
      BY <1>0, <3>1 DEF Owed, AtBatch
    <3> QED BY <1>0, <3>1, <3>2, UsageKept DEF CountCovers
  <2> QED BY <2>1, <2>2
<1> QED BY <1>1, <1>2, <1>3, <1>4, <1>5

LEMMA UsageKept2 ==
  ASSUME LoopInv, TypeOK', UsageInv, AskFails \/ Charge \/ Respond \/ Pend
  PROVE  UsageInv'
<1>0. /\ TypeOK /\ row.tools \in Nat /\ work \in Memory /\ row \in [steps: Nat, models: Nat, tools: Nat]
      /\ CountCovers /\ Owed /\ ResponseInv /\ ResponsesCount /\ log \in Seq(Event)
  BY DEF LoopInv, TypeOK, UsageInv
<1>1. CASE pc' = "end"
  <2>1. UNCHANGED log /\ (UNCHANGED row \/ row' = [row EXCEPT !.models = @ + 1])
    BY DEF AskFails, Charge, Respond, Pend
  <2>2. row'.tools = row.tools
    BY <1>0, <2>1
  <2> QED BY <1>0, <1>1, <2>1, <2>2, UsageIdle
<1>2. CASE AskFails /\ pc' # "end"
  <2>1. /\ UNCHANGED log /\ row' = [row EXCEPT !.models = @ + 1] /\ pc = "ask" /\ pc' = "ask"
        /\ work' = [work EXCEPT !.attempt = @ + 1]
    BY <1>2 DEF AskFails, EndWith
  <2>2. row'.tools = row.tools /\ work'.owed = work.owed
    BY <1>0, <2>1 DEF Memory
  <2>3. Owed'
    BY <1>0, <2>1, <2>2 DEF Owed, AtBatch
  <2> QED BY <1>0, <2>1, <2>2, <2>3, UsageKept DEF CountCovers
<1>3. CASE Charge /\ pc' # "end"
  <2>1. /\ UNCHANGED <<log, repeated, work>> /\ row' = [row EXCEPT !.models = @ + 1] /\ pc = "charge"
        /\ pc' \in {"respond", "ask"}
    BY <1>3 DEF Charge, EndWith
  <2>2. row'.tools = row.tools
    BY <1>0, <2>1
  <2>3. Owed'
    BY <1>0, <2>1, <2>2 DEF Owed, AtBatch
  <2>4. Len(log) > 0 /\ Is("response", Len(log)) /\ Len(log) \in DOMAIN log /\ Len(log) \in Nat
    BY <1>0, <2>1 DEF ResponseInv
  <2>5. /\ Count(Len(log), Working) <= log[Len(log)].base /\ log[Len(log)].base <= row.tools
        /\ log[Len(log)].base \in Nat /\ Count(Len(log), Working) \in Nat
    BY <1>0, <2>4, EventKinds, CountTyped DEF ResponsesCount, Responses
  <2>6. Count(Len(log), Working) <= row.tools
    BY <1>0, <2>5
  <2> QED BY <1>0, <2>1, <2>2, <2>3, <2>6, UsageKept
<1>4. CASE Respond
  <2>1. UNCHANGED <<log, repeated, row, work>> /\ pc = "respond" /\ pc' \in {"fit", "reply"}
    BY <1>4 DEF Respond
  <2>2. Owed'
    BY <1>0, <2>1 DEF Owed, AtBatch
  <2> QED BY <1>0, <2>1, <2>2, UsageKept
<1>5. CASE Pend
  <2>1. UNCHANGED <<log, repeated, row, work>> /\ pc = "pend" /\ pc' \in {"loop", "recall"}
    BY <1>5 DEF Pend
  <2>2. Owed'
    BY <1>0, <2>1 DEF Owed, AtBatch
  <2> QED BY <1>0, <2>1, <2>2, UsageKept DEF CountCovers
<1> QED BY <1>1, <1>2, <1>3, <1>4, <1>5

LEMMA UsageKept3 ==
  ASSUME TypeOK, TypeOK', UsageInv,
         Cancelled \/ Finalize \/ Resolve \/ CancelParked \/ Crash \/ Lose
  PROVE  UsageInv'
<1>1. UNCHANGED <<log, repeated, row>>
  BY DEF Cancelled, Finalize, Resolve, CancelParked, Crash, Lose, durable
<1>2. pc' \in {"start", "repair", "reply", "end", "parked"} \cup Terminal
  <2>1. pc = "end" /\ work.outcome # "SUSPENDED" => work.outcome \in Terminal
    BY DEF TypeOK, Memory
  <2> QED BY <2>1 DEF Cancelled, Finalize, Resolve, CancelParked, Crash, Lose, EndWith, Terminal
<1> QED BY <1>1, <1>2, UsageIdle

LEMMA SuspendUsage ==
  ASSUME TypeOK, TypeOK', UsageInv, NEW c, NEW for, Suspend(c, for)
  PROVE  UsageInv'
<1>1. UNCHANGED <<log, repeated, row, work>> /\ pc = "dispatch" /\ pc' = "suspend"
  BY DEF Suspend
<1>2. Owed'
  BY <1>1 DEF UsageInv, Owed, AtBatch
<1> QED BY <1>1, <1>2, UsageKept

-----------------------------------------------------------------------------
(* The count is brought up *)

\* A repaired count covers the performed calls,
LEMMA RepairCovers ==
  ASSUME TypeOK, LogInv, ResponsesCount, NoneOpen
  PROVE  Count(Len(log), Working) <= row.tools + Missing
<1> DEFINE T == TurnAt(Len(log))
           n == row.tools + Missing
<1>0. /\ log \in Seq(Event) /\ row.tools \in Nat /\ Missing \in Nat /\ n \in Nat /\ row.tools <= n
      /\ ResultsAreUnique /\ ResultsBelong
  BY MissingTyped DEF TypeOK, LogInv
<1>1. CASE \E u : Final(u) /\ IsTurn(u) /\ T = u
  <2>1. PICK u : Final(u) /\ IsTurn(u) /\ T = u
    BY <1>1
  <2>2. u \in DOMAIN log /\ IsLast(u) /\ \A v : Final(v) /\ IsTurn(v) => v = u
    BY <1>0, <2>1, FinalIsLast, OneLast DEF Final
  <2>3. IsFiniteSet(CallsAt(u)) /\ CallsAt(u) # {} /\ \A c \in CallsAt(u) : c[1] = u
    BY <1>0, <2>1, <2>2, CallsOf
  <2>4. HasControls(u)
    BY <1>0, <2>1, <2>2, <2>3, ControlsFound DEF Final
  <2>5. /\ \A c : c \in Answered(u, Len(log)) <=> c \in CallsAt(u) /\ Given(c)
        /\ \A c \in CallsAt(u) : c \in Refused(u) <=> GivenBy(c, {"budget"})
    BY <1>0, <2>1, <2>2, LastIsFound
  <2>6. CallsAt(u) \subseteq Answered(u, Len(log))
    BY <2>2, <2>5 DEF NoneOpen
  <2>7. PICK B : B = FirstOf(CallsAt(u), log[u].base) \ Refused(u)
    OBVIOUS
  <2>8. IsFiniteSet(B) /\ Cardinality(B) \in Nat
    <3>1. B \subseteq CallsAt(u)
      BY <2>7 DEF FirstOf
    <3> QED BY <2>3, <3>1, FS_Subset, FS_CardinalityType
  <2>9. log[u].base + Cardinality(B) <= n
    <3>1. log[u].base \in Nat
      BY <1>0, <2>1, <2>2, EventKinds DEF Final, Responses
    <3>2. Watermark(u) = log[u].base + Cardinality(B)
      BY <2>7 DEF Watermark
    <3>3. Missing = IF Watermark(u) > row.tools THEN Watermark(u) - row.tools ELSE 0
      BY <2>1, <2>4, <2>6 DEF Missing
    <3>4. PICK w \in Nat : w = log[u].base + Cardinality(B)
      BY <2>8, <3>1
    <3>5. Missing = IF w > row.tools THEN w - row.tools ELSE 0
      BY <3>2, <3>3, <3>4
    <3>6. w <= row.tools + Missing
      BY <1>0, <3>4, <3>5
    <3> QED BY <3>4, <3>6
  <2>10. ASSUME NEW c \in CallsAt(u), GivenBy(c, Working) PROVE c \in B
    <3>1. Fits(c)
      BY <1>0, <2>10 DEF GivenBy, ResultsBelong, Working
    <3>2. ~GivenBy(c, {"budget"})
      BY <1>0, <2>10, OneGiver DEF Working
    <3> QED BY <2>3, <2>5, <2>7, <2>10, <3>1, <3>2 DEF Fits
  <2> HIDE DEF n
  <2> QED BY <1>0, <2>2, <2>8, <2>9, <2>10, Covered DEF n
<1>2. CASE ~\E u : Final(u) /\ IsTurn(u) /\ T = u
  <2>1. IsFiniteSet({}) /\ Cardinality({}) = 0
    BY FS_EmptySet
  <2>2. ASSUME NEW u, Final(u), IsTurn(u)
        PROVE  /\ \A c \in CallsAt(u) : GivenBy(c, Working) => c \in {}
               /\ log[u].base + Cardinality({}) <= n
    <3>1. u \in DOMAIN log /\ IsLast(u) /\ T # u /\ Is("response", u)
      BY <1>0, <1>2, <2>2, FinalIsLast DEF Final
    <3>2. \A c \in CallsAt(u) : GivenBy(c, {"owner"})
      BY <1>0, <3>1, LastIsFound
    <3>3. \A c \in CallsAt(u) : ~GivenBy(c, Working)
      BY <1>0, <3>2, OneGiver DEF Working
    <3>4. log[u].base \in Nat /\ log[u].base <= row.tools
      BY <1>0, <3>1, EventKinds DEF Responses, ResponsesCount
    <3> HIDE DEF n
    <3> QED BY <1>0, <2>1, <3>3, <3>4
  <2> HIDE DEF n
  <2> QED BY <1>0, <2>1, <2>2, Covered DEF n
<1> QED BY <1>1, <1>2

\* and counts only calls that were answered.
LEMMA RepairIsPaid ==
  ASSUME TypeOK, LogInv, UsageInv, AllTurns
  PROVE  row.tools + Missing <= Count(Len(log), Paying)
<1> DEFINE T == TurnAt(Len(log))
<1>0. /\ log \in Seq(Event) /\ row.tools \in Nat /\ Missing \in Nat /\ ResponsesCount
      /\ row.tools <= Count(Len(log), Paying) /\ DOMAIN log = 1..Len(log) /\ Len(log) \in 0..Len(log)
  BY MissingTyped DEF TypeOK, LogInv, UsageInv, CountIsPaid
<1>1. CASE Missing = 0
  BY <1>0, <1>1
<1>2. CASE Missing # 0
  <2>1. HasControls(T) /\ CallsAt(T) \subseteq Answered(T, Len(log)) /\ Missing = Watermark(T) - row.tools
    BY <1>2 DEF Missing
  <2>2. T \in DOMAIN log /\ IsTurn(T) /\ T \in 0..Len(log)
    BY <1>0, <2>1, TurnFound DEF HasControls, CallsAt
  <2> HIDE DEF T
  <2>3. PICK B : B = FirstOf(CallsAt(T), log[T].base) \ Refused(T)
    OBVIOUS
  <2>4. B \subseteq CallsAt(T)
    BY <2>3 DEF FirstOf
  <2>5. ASSUME NEW c \in B PROVE GivenBy(c, Paying)
    <3>1. PICK j \in (T + 1)..Len(log) : Is("result", j) /\ log[j].call = c
      BY <1>0, <2>1, <2>2, <2>4, <2>5, AnsweredMeans
    <3>2. log[j].by # "budget"
      BY <1>0, <2>2, <2>3, <2>5, <3>1, AnsweredMeans
    <3>3. j \in DOMAIN log
      BY <1>0, <2>2
    <3>4. log[j].by \in Paying
      BY <1>0, <3>1, <3>2, <3>3, EventKinds DEF Results, Paying
    <3> QED BY <3>1, <3>3, <3>4 DEF GivenBy
  <2>6. Cardinality(B) \in Nat /\ log[T].base + Cardinality(B) <= Count(Len(log), Paying)
    BY <1>0, <2>2, <2>4, <2>5, PaidFor
  <2>7. Watermark(T) = log[T].base + Cardinality(B) /\ log[T].base \in Nat
    BY <1>0, <2>2, <2>3, EventKinds DEF Watermark, IsTurn, Responses
  <2> QED BY <1>0, <2>1, <2>6, <2>7
<1> QED BY <1>1, <1>2

\* A batch whose calls have returned: counted from its base, the performed calls are covered,
LEMMA BatchCovers ==
  ASSUME TypeOK, LogInv, BatchInv, ResponsesCount, pc \in AtBatch, work.batch # {},
         NEW n \in Nat, row.tools <= n, work.base + Cardinality(work.batch) <= n
  PROVE  Count(Len(log), Working) <= n
<1>0. log \in Seq(Event) /\ ResultsAreUnique /\ IsFiniteSet(work.batch)
  BY BatchIsFinite DEF TypeOK, LogInv
<1>1. PICK c \in work.batch :
        /\ IsLast(c[1]) /\ work.base = log[c[1]].base
        /\ \A d \in CallsAt(c[1]) : d \in work.batch \/ GivenBy(d, {"budget", "owner"})
  BY DEF BatchInv
<1>2. ASSUME NEW u, Final(u), IsTurn(u)
      PROVE  /\ \A d \in CallsAt(u) : GivenBy(d, Working) => d \in work.batch
             /\ log[u].base + Cardinality(work.batch) <= n
  <2>1. c[1] = u
    BY <1>0, <1>1, <1>2, FinalIsLast, OneLast
  <2>2. \A d : GivenBy(d, Working) => ~GivenBy(d, {"budget", "owner"})
    BY <1>0, OneGiver DEF Working
  <2> QED BY <1>1, <2>1, <2>2
<1> QED BY <1>0, <1>2, Covered

\* and every call of it is paid for.
LEMMA BatchIsPaid ==
  ASSUME TypeOK, LogInv, BatchInv, ResponsesCount, AllTurns, NoneOpen, pc \in AtBatch, work.batch # {}
  PROVE  work.base + Cardinality(work.batch) <= Count(Len(log), Paying)
<1>0. log \in Seq(Event)
  BY DEF TypeOK
<1>1. \A d \in work.batch : /\ IsLast(d[1]) /\ d \in CallsAt(d[1]) /\ ~GivenBy(d, {"budget"})
                            /\ work.base = log[d[1]].base
  BY DEF BatchInv, Fits, FirstOf
<1>2. PICK t : IsLast(t) /\ \E d \in work.batch : t = d[1]
  BY <1>1
<1>3. t \in DOMAIN log /\ IsTurn(t) /\ work.base = log[t].base
  BY <1>1, <1>2 DEF IsLast
<1>4. work.batch \subseteq CallsAt(t)
  BY <1>0, <1>1, <1>2, OneLast
<1>5. ASSUME NEW d \in work.batch PROVE GivenBy(d, Paying)
  <2>1. PICK i \in DOMAIN log : Is("result", i) /\ log[i].call = d
    BY <1>0, <1>3, <1>4, <1>5 DEF NoneOpen, Given, Has
  <2>2. log[i].by # "budget"
    BY <1>1, <1>5, <2>1 DEF GivenBy
  <2>3. log[i].by \in Paying
    BY <1>0, <2>1, <2>2, EventKinds DEF Results, Paying
  <2> QED BY <2>1, <2>3 DEF GivenBy
<1> QED BY <1>3, <1>4, <1>5, PaidFor

\* The count is brought up.
LEMMA UsageRecorded ==
  ASSUME TypeOK, TypeOK', UsageInv, UNCHANGED log, NEW n \in Nat, row'.tools = row.tools + n,
         pc' \in {"end", "resume", "save", "loop"},
         pc' \in {"save", "loop"} \/ (pc' = "resume" /\ NoneOpen) => Count(Len(log), Working) <= row.tools + n,
         AllTurns => row.tools + n <= Count(Len(log), Paying)
  PROVE  UsageInv'
<1>0. Grew /\ Len(log') = Len(log) /\ row.tools \in Nat /\ row.tools <= row'.tools
  <2>1. Grew /\ Len(log') = Len(log)
    BY SameGrew
  <2>2. row.tools \in Nat
    BY DEF TypeOK
  <2> QED BY <2>1, <2>2
<1>1. ResponsesCount'
  <2>1. \A i \in (Len(log) + 1)..Len(log') : FALSE
    BY <1>0 DEF Grew
  <2> QED BY <1>0, <2>1, ResponsesStay DEF UsageInv
<1>2. CountIsPaid'
  BY SameCount DEF CountIsPaid
<1>3. CountCovers'
  BY SameCount DEF CountCovers
<1>4. Owed'
  BY DEF Owed, AtBatch
<1> QED BY <1>1, <1>2, <1>3, <1>4 DEF UsageInv

LEMMA UsageKept4 ==
  ASSUME LoopInv, TypeOK', UsageInv, Repair \/ Settle \/ Usage
  PROVE  UsageInv'
<1>0. /\ TypeOK /\ LogInv /\ OpenInv /\ BatchInv /\ CountCovers /\ CountIsPaid /\ Owed /\ ResponsesCount
      /\ row.tools \in Nat /\ row \in [steps: Nat, models: Nat, tools: Nat] /\ work.extra \in Nat /\ work.base \in Nat
  BY DEF LoopInv, TypeOK, UsageInv, Memory
<1>1. CASE Repair
  <2>1. Missing \in Nat /\ RecordTools(Missing, "resume") /\ UNCHANGED log
    BY <1>0, <1>1, MissingTyped DEF Repair
  <2>2. row'.tools = row.tools + Missing /\ pc' \in {"end", "resume"}
    BY <1>0, <2>1, RecordTyped DEF EndWith
  <2>3. NoneOpen => Count(Len(log), Working) <= row.tools + Missing
    BY <1>0, RepairCovers
  <2>4. AllTurns => row.tools + Missing <= Count(Len(log), Paying)
    BY <1>0, RepairIsPaid
  <2> QED BY <1>0, <2>1, <2>2, <2>3, <2>4, UsageRecorded
<1>2. CASE Settle
  <2>1. row' = [row EXCEPT !.tools = @ + work.extra] /\ UNCHANGED log /\ pc = "settle" /\ pc' \in {"end", "loop"}
    BY <1>2 DEF Settle, EndWith
  <2>2. row'.tools = row.tools + work.extra
    BY <1>0, <2>1
  <2> QED BY <1>0, <2>1, <2>2, UsageRecorded DEF CountCovers, CountIsPaid
<1>3. CASE Usage
  <2>1. pc = "dispatch" /\ pc \in AtBatch /\ work.todo = {} /\ UNCHANGED log
    BY <1>3 DEF Usage, AtBatch
  <2>2. NoneOpen /\ work.batch # {}
    BY <1>0, <2>1, NoneOpenAt DEF BatchInv
  <2>3. PICK m \in Nat : m = Cardinality(work.batch)
    BY <1>0, <2>1, BatchIsFinite
  <2>4. \A n \in Nat : row.tools <= n /\ work.base + m <= n => Count(Len(log), Working) <= n
    BY <1>0, <2>1, <2>2, <2>3, BatchCovers
  <2>5. AllTurns => work.base + m <= Count(Len(log), Paying) /\ row.tools <= Count(Len(log), Paying)
    BY <1>0, <2>1, <2>2, <2>3, BatchIsPaid DEF CountIsPaid
  <2>6. ASSUME NEW n \in Nat, RecordTools(n, "save"), work.base + m <= row.tools + n,
               n = 0 \/ row.tools + n = work.base + m
        PROVE  UsageInv'
    <3>1. row'.tools = row.tools + n /\ pc' \in {"end", "save"}
      BY <1>0, <2>6, RecordTyped DEF EndWith
    <3>2. row.tools + n \in Nat /\ row.tools <= row.tools + n
      BY <1>0
    <3>3. Count(Len(log), Working) <= row.tools + n
      BY <2>4, <2>6, <3>2
    <3>4. AllTurns => row.tools + n <= Count(Len(log), Paying)
      BY <1>0, <2>5, <2>6
    <3> QED BY <1>0, <2>1, <3>1, <3>3, <3>4, UsageRecorded
  <2>7. CASE work.owed = "all" /\ RecordTools(m, "save")
    <3>1. row.tools = work.base
      BY <1>0, <2>1, <2>7 DEF Owed
    <3> QED BY <1>0, <2>6, <2>7, <3>1
  <2>8. CASE work.owed = "extra" /\ RecordTools(work.extra, "save")
    <3>1. work.base + m <= row.tools + work.extra /\ (work.extra = 0 \/ row.tools + work.extra = work.base + m)
      BY <1>0, <2>1, <2>3, <2>8 DEF Owed
    <3> QED BY <1>0, <2>6, <2>8, <3>1
  <2>9. CASE row.tools = work.base /\ RecordTools(m, "save")
    BY <1>0, <2>6, <2>9
  <2>10. CASE row.tools = work.base + m /\ RecordTools(0, "save")
    BY <1>0, <2>6, <2>10
  <2>11. CASE EndWith("FAILED") /\ UNCHANGED row
    BY <1>0, <2>1, <2>11, UsageIdle DEF EndWith
  <2> QED BY <1>3, <2>3, <2>7, <2>8, <2>9, <2>10, <2>11 DEF Usage
<1> QED BY <1>1, <1>2, <1>3

-----------------------------------------------------------------------------
(* The count when the log grows *)

\* A step that adds events to the log, but no response.
LEMMA UsageGrows ==
  ASSUME TypeOK, TypeOK', UsageInv, Grew, row'.tools = row.tools,
         \A i \in (Len(log) + 1)..Len(log') : log'[i].type # "response",
         pc' \in {"save", "loop", "build", "ask", "pend"} => Count(Len(log), Working)' <= row.tools,
         pc' = "settle" => /\ Count(Len(log), Working)' <= row.tools + work'.extra
                           /\ AllTurns' => row.tools + work'.extra <= Count(Len(log), Paying)',
         pc' # "resume", Owed'
  PROVE  UsageInv'
<1>0. row.tools \in Nat /\ row.tools <= row'.tools
  <2>1. row.tools \in Nat
    BY DEF TypeOK
  <2> QED BY <2>1
<1>1. ResponsesCount'
  BY <1>0, ResponsesStay DEF UsageInv
<1>2. CountIsPaid'
  BY PaidGrows DEF UsageInv, CountIsPaid
<1>3. CountCovers'
  BY DEF CountCovers
<1> QED BY <1>1, <1>2, <1>3 DEF UsageInv

LEMMA AskUsage ==
  ASSUME TypeOK, TypeOK', UsageInv, NEW n, NEW answer, Ask(n, answer)
  PROVE  UsageInv'
<1>0. /\ row.tools \in Nat /\ work \in Memory /\ CountCovers /\ CountIsPaid /\ Owed /\ ResponsesCount
      /\ log \in Seq(Event)
  BY DEF TypeOK, UsageInv
<1>1. /\ UNCHANGED row /\ pc = "ask" /\ pc' = "charge"
      /\ work' = [work EXCEPT !.attempt = @ + 1, !.answer = answer]
  BY DEF Ask
<1>2. PICK d : log' = Append(log, [type |-> "response", calls |-> n, base |-> row.tools,
                                   reserve |-> d, step |-> row.steps])
  BY DEF Ask
<1>3. work'.owed = "all"
  BY <1>0, <1>1 DEF Owed, Memory
<1>4. Owed'
  BY <1>1, <1>3 DEF Owed, AtBatch
<1>5. /\ Len(log) \in Nat /\ Len(log') = Len(log) + 1 /\ DOMAIN log' = 1..Len(log') /\ DOMAIN log = 1..Len(log)
      /\ log'[Len(log')] = [type |-> "response", calls |-> n, base |-> row.tools,
                            reserve |-> d, step |-> row.steps]
      /\ \A i \in 1..Len(log) : log'[i] = log[i]
  BY <1>0, <1>2
<1>6. Grew
  BY <1>5 DEF Grew, TypeOK
<1>7. \A who : Count(Len(log), who)' = Count(Len(log), who)
  <2>1. \A i \in (Len(log) + 1)..Len(log') : log'[i].type # "result"
    BY <1>5
  <2> QED BY <1>6, <2>1, CountGrows
<1>8. CountCovers'
  BY <1>1 DEF CountCovers
<1>9. CountIsPaid'
  BY <1>0, <1>1, <1>6, PaidGrows DEF CountIsPaid
<1>10. ResponsesCount'
  <2> SUFFICES ASSUME NEW i \in DOMAIN log', Is("response", i)'
               PROVE  /\ Count(i, Working)' <= log'[i].base /\ log'[i].base <= row'.tools
                      /\ AllTurns' => log'[i].base <= Count(i, Paying)'
    BY DEF ResponsesCount
  <2>1. CASE i \in 1..Len(log)
    <3>1. log'[i] = log[i] /\ Is("response", i) /\ i \in DOMAIN log /\ i \in 0..Len(log)
      BY <1>5, <1>6, <2>1, GrewKeeps
    <3>2. /\ Count(i, Working) <= log[i].base /\ log[i].base <= row.tools
          /\ AllTurns => log[i].base <= Count(i, Paying)
      BY <1>0, <3>1 DEF ResponsesCount
    <3>3. \A who : \A m \in 0..Len(log) : Count(m, who)' = Count(m, who)
      BY <1>6, CountGrows
    <3>4. Count(i, Working)' = Count(i, Working) /\ Count(i, Paying)' = Count(i, Paying)
      BY <3>1, <3>3 DEF Paying
    <3> QED BY <1>1, <1>6, <3>1, <3>2, <3>4, TurnsGrow
  <2>2. CASE i \notin 1..Len(log)
    <3>1. i = Len(log')
      BY <1>5, <2>2
    <3>2. log'[i].base = row.tools
      BY <1>5, <3>1
    <3>3. Count(i, Working)' = Count(Len(log), Working) /\ Count(i, Paying)' = Count(Len(log), Paying)
      <4>1. Count(i, Working)' = Count(Len(log), Working)' /\ Count(i, Paying)' = Count(Len(log), Paying)'
        BY <3>1 DEF Count, Is
      <4> QED BY <1>7, <4>1 DEF Paying
    <3>4. Count(Len(log), Working) <= row.tools
      BY <1>0, <1>1 DEF CountCovers
    <3>5. AllTurns' => row.tools <= Count(Len(log), Paying)
      BY <1>0, <1>6, TurnsGrow DEF CountIsPaid
    <3> QED BY <1>0, <1>1, <3>2, <3>3, <3>4, <3>5
  <2> QED BY <2>1, <2>2
<1> QED BY <1>4, <1>8, <1>9, <1>10 DEF UsageInv

LEMMA ReplyUsage ==
  ASSUME TypeOK, TypeOK', UsageInv, Reply \/ (Answer /\ WaitInv)
  PROVE  UsageInv'
<1>0. log \in Seq(Event)
  BY DEF TypeOK
<1>1. UNCHANGED row /\ pc' \in {"end", "start"}
  BY DEF Reply, Answer, EndWith
<1>2. Grew /\ \A i \in (Len(log) + 1)..Len(log') : log'[i].type # "response"
  <2>1. CASE Reply
    <3>1. [type |-> "reply"] \in Event
      BY DEF Event
    <3>2. Grew /\ Len(log') = Len(log) + 1 /\ log'[Len(log) + 1] = [type |-> "reply"]
      BY <1>0, <2>1, <3>1, OneAppended DEF Reply
    <3> QED BY <1>0, <3>2
  <2>2. CASE Answer
    <3>1. wait.key[2] \in CallId
      BY DEF TypeOK
    <3>2. [type |-> "user"] \in Event /\ Result(wait.key[2], "owner") \in Event
      BY <3>1 DEF Event, Result, Results
    <3>3. /\ Grew /\ Len(log') = Len(log) + 2
          /\ log'[Len(log) + 1] = [type |-> "user"] /\ log'[Len(log) + 2] = Result(wait.key[2], "owner")
      BY <1>0, <2>2, <3>2, TwoAppended DEF Answer
    <3> QED BY <1>0, <3>3 DEF Result
  <2> QED BY <2>1, <2>2
<1>3. Owed'
  BY <1>1 DEF Owed, AtBatch
<1> QED BY <1>1, <1>2, <1>3, UsageGrows

\* A call that returns, with a result event or without one.
LEMMA ReturnUsage ==
  ASSUME TypeOK, TypeOK', UsageInv, NEW c \in work.todo, pc = "dispatch", Return(c), UNCHANGED <<row, pc>>,
         UNCHANGED log \/ \E by \in {"tool", "refusal"} : LogResult(c, by)
  PROVE  UsageInv'
<1>0. log \in Seq(Event) /\ work \in Memory /\ c \in CallId /\ repeated \subseteq CallId
  BY DEF TypeOK, Memory
<1>1. /\ work'.owed = work.owed /\ work'.base = work.base /\ work'.batch = work.batch /\ work'.extra = work.extra
  BY <1>0, ReturnTyped
<1>2. Grew /\ \A i \in (Len(log) + 1)..Len(log') : log'[i].type # "response"
  <2>1. CASE UNCHANGED log
    <3>1. Grew /\ Len(log') = Len(log)
      BY <2>1, SameGrew
    <3>2. \A i \in (Len(log) + 1)..Len(log') : FALSE
      BY <1>0, <3>1
    <3> QED BY <3>1, <3>2
  <2>2. CASE \E by \in {"tool", "refusal"} : LogResult(c, by)
    BY <1>0, <2>2, LogResultTyped
  <2> QED BY <2>1, <2>2
<1>3. Owed'
  BY <1>1 DEF UsageInv, Owed, AtBatch
<1> QED BY <1>1, <1>2, <1>3, UsageGrows

LEMMA CallUsage ==
  ASSUME TypeOK, TypeOK', UsageInv, NEW c \in work.todo, Call(c)
  PROVE  UsageInv'
<1>1. /\ UNCHANGED <<row, pc>> /\ pc = "dispatch" /\ Return(c)
      /\ UNCHANGED log \/ LogResult(c, "tool")
  BY DEF Call
<1> QED BY <1>1, ReturnUsage

LEMMA RefusalUsage ==
  ASSUME TypeOK, TypeOK', UsageInv, NEW c \in work.todo, Refusal(c)
  PROVE  UsageInv'
<1>1. UNCHANGED <<row, pc>> /\ pc = "dispatch" /\ Return(c) /\ LogResult(c, "refusal")
  BY DEF Refusal
<1> QED BY <1>1, ReturnUsage

\* The budget's refusals add to no count.
LEMMA RefusalsUsage ==
  ASSUME TypeOK, NEW R \in SUBSET CallId, Refuse(R)
  PROVE  /\ Grew /\ \A i \in (Len(log) + 1)..Len(log') : log'[i].type # "response"
         /\ Count(Len(log), Working)' = Count(Len(log), Working)
         /\ Count(Len(log), Paying)' = Count(Len(log), Paying)
<1>1. /\ Grew
      /\ \A i \in (Len(log) + 1)..Len(log') : log'[i] \in Results /\ log'[i].by = "budget"
  BY RefusalsAppended, LoopAssumption DEF TypeOK
<1>2. \A i \in (Len(log) + 1)..Len(log') : log'[i].type # "response"
  BY <1>1 DEF Results
<1>3. \A who : "budget" \notin who => Count(Len(log), who)' = Count(Len(log), who)
  BY <1>1, CountGrows
<1> QED BY <1>1, <1>2, <1>3 DEF Paying, Working

LEMMA FitUsage ==
  ASSUME LoopInv, TypeOK', UsageInv, Fit
  PROVE  UsageInv'
<1>L. PICK L : L = Len(log)
  OBVIOUS
<1>0. /\ TypeOK /\ ResponseInv /\ CountCovers /\ Owed /\ ResponsesCount
      /\ row.tools \in Nat /\ work \in Memory /\ log \in Seq(Event)
  BY DEF LoopInv, TypeOK, UsageInv
<1>1. UNCHANGED row /\ pc = "fit"
  BY DEF Fit
<1>2. CASE EndWith("FAILED") /\ UNCHANGED log
  BY <1>0, <1>1, <1>2, UsageIdle DEF EndWith
<1>3. CASE ~(EndWith("FAILED") /\ UNCHANGED log)
  <2>1. PICK B : /\ Refuse(CallsAt(L) \ B) /\ pc' = "pend"
                 /\ work' = [work EXCEPT !.batch = B, !.todo = B, !.key = row.steps, !.base = row.tools]
    BY <1>L, <1>3 DEF Fit
  <2>2. Len(log) > 0 /\ Is("response", Len(log)) /\ Len(log) \in DOMAIN log /\ Len(log) \in Nat
    BY <1>0, <1>1 DEF ResponseInv
  <2>3. /\ Count(Len(log), Working) <= log[Len(log)].base /\ log[Len(log)].base <= row.tools
        /\ log[Len(log)].base \in Nat /\ Count(Len(log), Working) \in Nat
    BY <1>0, <2>2, EventKinds, CountTyped DEF ResponsesCount, Responses
  <2>4. PICK R \in SUBSET CallId : R = CallsAt(L) \ B
    BY <1>0, <1>L, <2>2, CallsOf
  <2>5. /\ Grew /\ \A i \in (Len(log) + 1)..Len(log') : log'[i].type # "response"
        /\ Count(Len(log), Working)' = Count(Len(log), Working)
    BY <1>0, <2>1, <2>4, RefusalsUsage
  <2>6. work'.owed = "all" /\ work'.base = row.tools
    BY <1>0, <1>1, <2>1 DEF Owed, Memory
  <2>7. Owed'
    BY <1>1, <2>1, <2>6 DEF Owed, AtBatch
  <2>8. Count(Len(log), Working)' <= row.tools
    BY <1>0, <2>3, <2>5
  <2> QED BY <1>0, <1>1, <2>1, <2>5, <2>7, <2>8, UsageGrows
<1> QED BY <1>2, <1>3

\* What a resume finds to do again, counted from its base, covers the performed calls,
LEMMA ResumeCovers ==
  ASSUME LoopInv, UsageInv, NEW t \in DOMAIN log, BatchFound(t), NEW r, r = Refit(Found),
         NEW n \in Nat, row.tools <= n, Found.base + Cardinality(r.batch) <= n
  PROVE  Count(Len(log), Working) <= n
<1>0. /\ TypeOK /\ LogInv /\ WaitInv /\ ResponsesCount /\ ResultsAreUnique /\ log \in Seq(Event)
      /\ DOMAIN log = 1..Len(log)
  BY DEF LoopInv, TypeOK, LogInv, UsageInv
<1>1. /\ r.batch \subseteq Found.calls
      /\ \A c \in r.refused : ~Given(c)
      /\ \A c \in CallsAt(t) : c \in r.batch \/ c \in r.refused \/ GivenBy(c, {"budget", "owner"})
  BY <1>0, ResumedBatch
<1>2. IsLast(t) /\ Found.base = log[t].base
  BY DEF BatchFound
<1>3. IsFiniteSet(r.batch)
  BY <1>0, <1>1, CallsFound, FS_Subset
<1>4. ASSUME NEW u, Final(u), IsTurn(u)
      PROVE  /\ \A c \in CallsAt(u) : GivenBy(c, Working) => c \in r.batch
             /\ log[u].base + Cardinality(r.batch) <= n
  <2>1. u = t
    BY <1>0, <1>2, <1>4, FinalIsLast, OneLast
  <2>2. \A c : GivenBy(c, Working) => Given(c) /\ ~GivenBy(c, {"budget", "owner"})
    <3>1. \A c : GivenBy(c, Working) => Given(c)
      BY <1>0 DEF GivenBy, Given, Has
    <3> QED BY <1>0, <3>1, OneGiver DEF Working
  <2> QED BY <1>1, <1>2, <2>1, <2>2
<1> QED BY <1>0, <1>3, <1>4, Covered

\* and, once it is answered, counts only calls that were.
LEMMA ResumeIsPaid ==
  ASSUME LoopInv, UsageInv, AllTurns, NothingFound \/ \E t \in DOMAIN log : BatchFound(t),
         Found.adopted, NEW r, r = Refit(Found), r.batch \subseteq Found.answered
  PROVE  Found.base + Cardinality(r.batch) <= Count(Len(log), Paying)
<1> DEFINE T == TurnAt(Len(log))
<1>0. /\ TypeOK /\ LogInv /\ WaitInv /\ ResponsesCount /\ log \in Seq(Event) /\ row.tools \in Nat
      /\ DOMAIN log = 1..Len(log) /\ Len(log) \in 0..Len(log) /\ row.tools <= Count(Len(log), Paying)
  BY DEF LoopInv, TypeOK, LogInv, UsageInv, CountIsPaid
<1>1. /\ Found.calls = CallsAt(T) /\ Found.answered = Answered(T, Len(log)) /\ Found.refused = Refused(T)
      /\ Found.base = IF HasControls(T) THEN log[T].base ELSE row.tools
  BY FoundFields
<1>2. r.batch \subseteq CallsAt(T) /\ \A c \in r.batch : c \notin Refused(T)
  BY <1>1 DEF Refit, FirstOf
<1>3. T \in 0..Len(log) /\ \A j \in (T + 1)..Len(log) : ~IsTurn(j)
  BY <1>0, TurnFound
<1> HIDE DEF T
<1>4. CASE HasControls(T)
  <2>1. T \in DOMAIN log /\ IsTurn(T)
    BY <1>0, <1>3, <1>4 DEF HasControls, CallsAt
  <2>2. ASSUME NEW c \in r.batch PROVE GivenBy(c, Paying)
    <3>1. PICK j \in (T + 1)..Len(log) : Is("result", j) /\ log[j].call = c
      BY <1>0, <1>1, <1>3, <2>2, AnsweredMeans
    <3>2. log[j].by # "budget"
      BY <1>0, <1>2, <1>3, <2>2, <3>1, AnsweredMeans
    <3>3. j \in DOMAIN log
      BY <1>0, <1>3
    <3>4. log[j].by \in Paying
      BY <1>0, <3>1, <3>2, <3>3, EventKinds DEF Results, Paying
    <3> QED BY <3>1, <3>3, <3>4 DEF GivenBy
  <2>3. log[T].base + Cardinality(r.batch) <= Count(Len(log), Paying)
    BY <1>0, <1>2, <2>1, <2>2, PaidFor
  <2> QED BY <1>1, <1>4, <2>3
<1>5. CASE ~HasControls(T)
  <2>1. CallsAt(T) = {}
    <3> SUFFICES ASSUME CallsAt(T) # {} PROVE FALSE
      OBVIOUS
    <3>1. T \in DOMAIN log
      BY <1>0, <1>3 DEF CallsAt
    <3>2. \A j \in (T + 1)..Len(log) : j \in DOMAIN log /\ ~Is("response", j)
      BY <1>0, <1>3 DEF AllTurns
    <3> QED BY <1>0, <1>5, <3>1, <3>2, ControlsFound
  <2>2. r.batch = {}
    BY <1>2, <2>1
  <2>3. Cardinality(r.batch) = 0
    BY <2>2, FS_EmptySet
  <2> QED BY <1>0, <1>1, <1>5, <2>3
<1> QED BY <1>4, <1>5

LEMMA ResumeUsage ==
  ASSUME LoopInv, TypeOK', UsageInv, Resume
  PROVE  UsageInv'
<1>r. PICK r : r = Refit(Found)
  OBVIOUS
<1>0. /\ TypeOK /\ LogInv /\ OpenInv /\ WaitInv /\ CheckpointInv /\ CountCovers /\ CountIsPaid /\ ResponsesCount
      /\ row.tools \in Nat /\ log \in Seq(Event)
  BY DEF LoopInv, TypeOK, UsageInv
<1>1. UNCHANGED row /\ pc = "resume" /\ pc # "start"
  BY DEF Resume
<1>2. NothingFound \/ \E t \in DOMAIN log : BatchFound(t)
  BY <1>0, <1>1, ResumeFinds
<1>3. CASE EndWith("FAILED") /\ UNCHANGED log
  BY <1>0, <1>1, <1>3, UsageIdle DEF EndWith
<1>4. CASE ~(EndWith("FAILED") /\ UNCHANGED log)
  <2>1. /\ Refuse(r.refused)
        /\ work'.batch = r.batch /\ work'.base = Found.base
        /\ work'.owed = (IF Found.adopted THEN "extra" ELSE "reconcile")
        /\ work'.extra = (LET n == Found.base + Cardinality(r.batch)
                          IN  IF n > row.tools THEN n - row.tools ELSE 0)
        /\ pc' = (IF (IF Found.adopted THEN r.batch \ Found.answered ELSE r.batch) # {}
                  THEN "recall" ELSE IF Found.adopted THEN "settle" ELSE "loop")
    BY <1>0, <1>2, <1>4, <1>r, ResumeMeans
  <2>2. /\ IsFiniteSet(Found.calls) /\ Found.calls \subseteq CallId /\ Found.base \in Nat
        /\ r.batch \subseteq Found.calls /\ r.refused \subseteq Found.calls
    <3>1. r.batch \subseteq Found.calls /\ r.refused \subseteq Found.calls
      BY <1>r DEF Refit, FirstOf, LateRefusals
    <3> QED BY <1>0, <1>1, <1>2, <3>1, CallsFound, FoundTyped
  <2>3. PICK m \in Nat : m = Cardinality(r.batch)
    BY <2>2, FS_Subset, FS_CardinalityType
  <2>4. PICK x \in Nat : /\ x = work'.extra /\ Found.base + m <= row.tools + x
                         /\ x = 0 \/ row.tools + x = Found.base + m
    BY <1>0, <2>1, <2>2, <2>3
  <2>5. /\ Grew /\ \A i \in (Len(log) + 1)..Len(log') : log'[i].type # "response"
        /\ Count(Len(log), Working)' = Count(Len(log), Working)
        /\ Count(Len(log), Paying)' = Count(Len(log), Paying)
    <3>1. PICK R \in SUBSET CallId : R = r.refused
      BY <2>2
    <3> QED BY <1>0, <2>1, <3>1, RefusalsUsage
  <2>6. pc' \in {"recall", "settle", "loop"}
    BY <2>1
  <2>7. Owed'
    BY <1>1, <2>1, <2>3, <2>4, <2>6 DEF Owed, AtBatch
  <2>8. ASSUME NEW n \in Nat, row.tools <= n, Found.base + m <= n \/ r.batch = {}
        PROVE  Count(Len(log), Working) <= n
    <3>1. CASE NothingFound
      <4>1. Count(Len(log), Working) <= row.tools
        BY <1>0, <1>1, <3>1 DEF NothingFound, CountCovers
      <4>2. Len(log) \in Nat
        BY <1>0
      <4>3. Count(Len(log), Working) \in Nat
        BY <1>0, <4>2, CountTyped
      <4> QED BY <1>0, <2>8, <4>1, <4>3
    <3>2. ASSUME NEW t \in DOMAIN log, BatchFound(t) PROVE Count(Len(log), Working) <= n
      <4>1. Found.base + m <= n
        <5>1. CASE r.batch = {}
          <6>1. m = 0
            BY <2>3, <5>1, FS_EmptySet
          <6>2. Found.base <= row.tools
            BY <3>2 DEF BatchFound, IsLast, IsTurn, UsageInv, ResponsesCount
          <6> QED BY <1>0, <2>2, <2>8, <6>1, <6>2
        <5> QED BY <2>8, <5>1
      <4> QED BY <1>r, <2>3, <2>8, <3>2, <4>1, ResumeCovers
    <3> QED BY <1>2, <3>1, <3>2
  <2>9. pc' = "loop" => Count(Len(log), Working) <= row.tools
    <3> SUFFICES ASSUME pc' = "loop" PROVE Count(Len(log), Working) <= row.tools
      OBVIOUS
    <3>1. r.batch = {}
      BY <2>1
    <3> QED BY <1>0, <2>8, <3>1
  <2>10. Count(Len(log), Working) <= row.tools + x
    <3>1. row.tools + x \in Nat /\ row.tools <= row.tools + x
      BY <1>0
    <3> QED BY <2>4, <2>8, <3>1
  <2>11. ASSUME pc' = "settle", AllTurns' PROVE row.tools + x <= Count(Len(log), Paying)
    <3>1. AllTurns
      BY <2>5, <2>11, TurnsGrow
    <3>2. Found.adopted /\ r.batch \subseteq Found.answered
      BY <2>1, <2>11
    <3>3. Found.base + Cardinality(r.batch) <= Count(Len(log), Paying)
      BY <1>2, <1>r, <3>1, <3>2, ResumeIsPaid
    <3>4. row.tools <= Count(Len(log), Paying)
      BY <1>0, <3>1 DEF CountIsPaid
    <3> QED BY <1>0, <2>3, <2>4, <3>3, <3>4
  <2> QED BY <1>0, <1>1, <2>4, <2>5, <2>6, <2>7, <2>9, <2>10, <2>11, UsageGrows
<1> QED BY <1>3, <1>4

-----------------------------------------------------------------------------
(* The count is exact *)

LEMMA UsageStarts ==
  ASSUME Init
  PROVE  UsageInv
<1>1. log = <<>> /\ DOMAIN log = {} /\ Len(log) = 0 /\ pc = "start" /\ row.tools = 0
  BY DEF Init
<1>2. ResponsesCount /\ CountCovers /\ Owed
  BY <1>1 DEF ResponsesCount, CountCovers, Owed, AtBatch
<1>3. Count(Len(log), Paying) = 0
  <2>1. {i \in 1..Len(log) : Is("result", i) /\ log[i].by \in Paying} = {}
    BY <1>1
  <2> QED BY <2>1, FS_EmptySet DEF Count
<1>4. CountIsPaid
  BY <1>1, <1>3 DEF CountIsPaid
<1> QED BY <1>2, <1>4 DEF UsageInv

LEMMA UsageStays ==
  ASSUME LoopInv, TypeOK', UsageInv, [Next]_vars
  PROVE  UsageInv'
<1>0. TypeOK /\ WaitInv
  BY DEF LoopInv
<1>1. CASE Step1
  BY <1>0, <1>1, UsageKept1, UsageKept4 DEF Step1
<1>2. CASE Step2
  BY <1>0, <1>2, UsageKept2, UsageKept3 DEF Step2
<1>3. CASE Step3 \/ UNCHANGED vars
  <2>1. CASE Resolve \/ CancelParked \/ Crash \/ Lose
    BY <1>0, <2>1, UsageKept3
  <2>2. CASE Pass \/ Rest \/ UNCHANGED vars
    <3>1. UNCHANGED <<log, repeated, row, pc, work>>
      BY <2>2 DEF Pass, Rest, vars, durable
    <3> QED BY <3>1, SameUsage
  <2> QED BY <1>3, <2>1, <2>2 DEF Step3
<1>4. ASSUME NEW c \in work.todo, NEW for \in Waits, Suspend(c, for) PROVE UsageInv'
  BY <1>0, <1>4, SuspendUsage
<1>5. CASE Resume \/ Fit \/ Reply \/ Answer
  BY <1>0, <1>5, ResumeUsage, FitUsage, ReplyUsage
<1>6. ASSUME NEW c \in work.todo, Call(c) PROVE UsageInv'
  BY <1>0, <1>6, CallUsage
<1>7. ASSUME NEW n \in 0..MaxBatch, NEW answer \in {"tools", "text", "empty"}, Ask(n, answer) PROVE UsageInv'
  BY <1>0, <1>7, AskUsage
<1>8. ASSUME NEW c \in work.todo, Refusal(c) PROVE UsageInv'
  BY <1>0, <1>8, RefusalUsage
<1> QED BY <1>1, <1>2, <1>3, <1>4, <1>5, <1>6, <1>7, <1>8, Steps

\* When a step begins, the tool-call count covers every call performed or refused by the
\* pipeline, whatever crash or loss came before, and it counts no call twice, not even one
\* refused again, as long as every response proposed calls (record_tool_usage,
\* _resume_pending_tools).
THEOREM UsageIsExact ==
  ASSUME LoneQuestions, Refusals # "passing"
  PROVE  Spec => []UsageMatchesResults
<1>1. Init => LoopInv /\ UsageInv
  BY LoopStarts, UsageStarts
<1>2. ASSUME LoopInv, UsageInv, [Next]_vars PROVE LoopInv' /\ UsageInv'
  <2>1. LoopInv' /\ TypeOK'
    BY <1>2, LoopKept DEF LoopInv
  <2> QED BY <1>2, <2>1, UsageStays
<1>3. ASSUME LoopInv, UsageInv PROVE UsageMatchesResults
  <2>0. /\ log \in Seq(Event) /\ Len(log) \in Nat /\ DOMAIN log = 1..Len(log)
        /\ CountCovers /\ CountIsPaid
    BY <1>3 DEF LoopInv, TypeOK, UsageInv
  <2>1. \A who : By(who) = Count(Len(log), who)
    BY <2>0 DEF By, Count
  <2> QED BY <2>0, <2>1 DEF UsageMatchesResults, CountCovers, CountIsPaid, AllTurns, Working, Paying
<1>4. LoopInv /\ UsageInv /\ [Next]_vars => LoopInv' /\ UsageInv'
  BY <1>2
<1>5. LoopInv /\ UsageInv => UsageMatchesResults
  BY <1>3
<1> QED BY <1>1, <1>4, <1>5, PTL DEF Spec

=============================================================================
