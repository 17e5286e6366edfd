------------------------ MODULE SurfaceRepliesProofs ------------------------
(***************************************************************************)
(* Proofs about the reply outbox of the messaging surfaces, for any number *)
(* of workers, chunks, attempts, lapses and crashes.                       *)
(*                                                                         *)
(* Two arguments.  Copies are counted: what the chat has of a chunk and    *)
(* the workers that may still send it are together at most the claims.     *)
(* And as long as no claim lapsed under its worker, a worker at work holds *)
(* the row, so what it read of the row is still so when it writes.         *)
(***************************************************************************)
EXTENDS SurfaceReplies, FiniteSetTheorems, TLAPS

USE RepliesAssumption

-----------------------------------------------------------------------------
(* The inductive invariant *)

\* What a worker carries from step to step.
Fits(x) ==
  /\ x.pc \in {"load", "choose", "send", "template", "record", "recordWrite"} => x.next >= 1
  /\ x.pc \in {"choose", "send", "template", "record", "recordWrite"} => x.inbound >= 1
  /\ x.pc \in {"send", "record", "recordWrite"} => x.next <= Chunks
  /\ x.pc \in {"record", "recordWrite"} => x.then \in {"send", "DISPATCHED"}
  /\ x.pc \in {"record", "recordWrite"} /\ x.then = "DISPATCHED" => x.next = 1
  /\ x.pc \in {"settle", "settleWrite"} => x.then \in {"DISPATCHED", "FAILED"}

WorkFits == \A w \in Worker : Fits(work[w])

\* The worker may still send chunk c, or the template, under its claim.
MaySend(x, c) ==
  \/ x.pc \in {"load", "choose"} /\ (c = Whole \/ x.next <= c)
  \/ x.pc = "template" /\ c = Whole
  \/ x.pc = "send" /\ c # Whole /\ x.next <= c
  \/ x.pc \in {"record", "recordWrite"} /\ x.then = "send" /\ c # Whole /\ x.next < c

Senders(c) == {w \in Worker : MaySend(work[w], c)}
Copies(c) == {i \in 1..Len(chat) : chat[i].part = c}

\* Every copy, and every worker that may still send one, has a claim of its own.
CopiesHaveClaims ==
  \A c \in 0..Chunks : Cardinality(Copies(c)) + Cardinality(Senders(c)) <= row.attempts

\* A chunk only after the one before it.
InOrder ==
  \A i \in 1..Len(chat) :
    chat[i].part > 1 => \E j \in 1..(i - 1) : chat[j].part = chat[i].part - 1

Arrived(n) == 1..n \subseteq Received
Complete == Arrived(Chunks) \/ Whole \in Received

\* What is true of the row and of a worker at work while it holds the row.
Holds(w) ==
  LET x == work[w] IN x.pc # "idle" =>
    /\ row.owner = w /\ row.live
    /\ x.pc \in {"load", "choose", "send", "template", "record", "recordWrite"} =>
         x.next = row.sent + 1
    /\ x.pc \in {"load", "choose", "template"} => x.total = row.total
    /\ x.pc = "send" => row.total \in {0, Chunks}
    /\ x.pc \in {"record", "recordWrite"} /\ x.then = "send" => Arrived(x.next)
    /\ x.pc \in {"record", "recordWrite"} /\ x.then = "DISPATCHED" => Whole \in Received
    /\ x.pc = "recordWrite" => x.read = row.sent
    /\ x.pc \in {"settle", "settleWrite"} /\ x.then = "DISPATCHED" => Complete

\* The row counts what has arrived, or the template that stands for it.
RowIsTrue ==
  /\ Arrived(row.sent) \/ (row.total = 1 /\ Whole \in Received)
  /\ row.status = "DISPATCHED" => Complete

Undisturbed == lapses = 0 => InOrder /\ RowIsTrue /\ \A w \in Worker : Holds(w)

\* While no message of the chat is too old, no template is sent.
TextWhileOpen ==
  closed = 0 => /\ \A i \in 1..Len(chat) : chat[i].form = "text"
                /\ \A w \in Worker : work[w].pc # "template"

RepliesInv == TypeOK /\ WorkFits /\ CopiesHaveClaims /\ Undisturbed /\ TextWhileOpen

-----------------------------------------------------------------------------
(* Types, and what a worker carries *)

Moves(w, y) == work' = [work EXCEPT ![w] = y]

\* A worker that moves to a typed record leaves the others as they are.
LEMMA MoveIsTyped ==
  ASSUME TypeOK, WorkFits, NEW w \in Worker, NEW y \in Works, Fits(y), Moves(w, y)
  PROVE  /\ work' \in [Worker -> Works]
         /\ WorkFits'
         /\ work'[w] = y
         /\ \A v \in Worker : v # w => work'[v] = work[v]
BY DEF TypeOK, WorkFits, Moves

\* What the steps of a worker leave in its record.  (Goto and Settle.)
LEMMA GotoMoves ==
  ASSUME TypeOK, NEW w \in Worker, NEW pc, Goto(w, pc)
  PROVE  Moves(w, [work[w] EXCEPT !.pc = pc])
BY DEF TypeOK, Goto, Moves

\* So does the step to the settling of the row.
LEMMA SettleMoves ==
  ASSUME TypeOK, NEW w \in Worker, NEW status, Settle(w, status)
  PROVE  Moves(w, [Idle EXCEPT !.pc = "settle", !.then = status])
BY DEF Settle, Moves

\* And the step to a retry.
LEMMA RetryMoves ==
  ASSUME TypeOK, NEW w \in Worker, Retry(w)
  PROVE  Moves(w, [Idle EXCEPT !.pc = "retry", !.attempts = work[w].attempts])
BY DEF Retry, Moves

\* Where they leave the worker.  (_dispatch on its way to settle or retry.)
LEMMA WorkerLands ==
  ASSUME TypeOK, NEW w \in Worker
  PROVE  /\ \A status : Settle(w, status) => work'[w].pc = "settle" /\ work'[w].then = status
         /\ Retry(w) => work'[w].pc = "retry"
         /\ \A pc : Goto(w, pc) => /\ work'[w].pc = pc /\ work'[w].next = work[w].next
                                  /\ work'[w].total = work[w].total /\ work'[w].then = work[w].then
<1>0. work \in [Worker -> Works] /\ work[w] \in Works
  BY DEF TypeOK
<1>1. ASSUME NEW status, Settle(w, status)
      PROVE  work'[w].pc = "settle" /\ work'[w].then = status
  <2>1. work'[w] = [Idle EXCEPT !.pc = "settle", !.then = status]
    BY <1>0, <1>1 DEF Settle
  <2> QED BY <2>1 DEF Idle
<1>2. ASSUME Retry(w) PROVE work'[w].pc = "retry"
  <2>1. work'[w] = [Idle EXCEPT !.pc = "retry", !.attempts = work[w].attempts]
    BY <1>0, <1>2 DEF Retry
  <2> QED BY <2>1 DEF Idle
<1>3. ASSUME NEW pc, Goto(w, pc)
      PROVE  /\ work'[w].pc = pc /\ work'[w].next = work[w].next
             /\ work'[w].total = work[w].total /\ work'[w].then = work[w].then
  BY <1>0, <1>3 DEF Goto, Works
<1> QED BY <1>1, <1>2, <1>3

\* Every step of a worker moves it to a record that fits.  (_dispatch.)
LEMMA StepsMove ==
  ASSUME TypeOK, WorkFits, NEW w \in Worker, Step(w) \/ Crash(w)
  PROVE  \E y \in Works : Fits(y) /\ Moves(w, y)
<1> DEFINE x == work[w]
<1>0. x \in Works /\ Fits(x) /\ row \in Rows /\ x = work[w]
  BY DEF TypeOK, WorkFits
<1>i. Idle \in Works /\ Fits(Idle)
  BY DEF Idle, Works, Fits
<1>c. Chunks \in Nat /\ Chunks >= 1
  OBVIOUS
<1> HIDE DEF x
<1>1. CASE Claim(w)
  <2>1. row.attempts + 1 \in Nat /\ NextChunk \in 1..(Chunks + 1) /\ row.total \in {0, 1, Chunks}
    BY <1>0, <1>c DEF Rows, NextChunk
  <2>2. PICK a \in Nat, n \in 1..(Chunks + 1), t \in {0, 1, Chunks} :
          a = row.attempts + 1 /\ n = NextChunk /\ t = row.total
    BY <2>1
  <2>3. PICK z \in Works : z = Idle
    BY <1>i
  <2> DEFINE y == [z EXCEPT !.pc = "load", !.attempts = a, !.next = n, !.total = t]
  <2>4. y \in Works /\ y.pc = "load" /\ y.next = n
    <3>1. n \in 0..(Chunks + 1)
      BY <1>c
    <3> QED BY <3>1 DEF Works
  <2>5. Fits(y)
    BY <2>4 DEF Fits
  <2>6. work' = [work EXCEPT ![w] = y]
    BY <1>1, <2>2, <2>3 DEF Claim
  <2> QED BY <2>4, <2>5, <2>6 DEF Moves
<1>s. ASSUME NEW t \in {"FAILED", "DISPATCHED"}, Settle(w, t)
      PROVE  \E y \in Works : Fits(y) /\ Moves(w, y)
  <2>1. PICK z \in Works : z = Idle
    BY <1>i
  <2>2. [z EXCEPT !.pc = "settle", !.then = t] \in Works /\ Fits([z EXCEPT !.pc = "settle", !.then = t])
    BY DEF Works, Fits
  <2> QED BY <1>s, <2>1, <2>2, SettleMoves
<1>r. ASSUME Retry(w) PROVE \E y \in Works : Fits(y) /\ Moves(w, y)
  <2>1. PICK z \in Works, a \in Nat : z = Idle /\ a = work[w].attempts
    BY <1>i, <1>0 DEF Works
  <2>2. [z EXCEPT !.pc = "retry", !.attempts = a] \in Works /\ Fits([z EXCEPT !.pc = "retry", !.attempts = a])
    BY DEF Works, Fits
  <2> QED BY <1>r, <2>1, <2>2, RetryMoves
<1>2. CASE Load(w)
  <2>1. PICK n \in Nat : n = inbound /\ n >= 1
    BY DEF TypeOK
  <2>2. CASE work' = [work EXCEPT ![w].pc = "choose", ![w].inbound = inbound]
    <3> [x EXCEPT !.pc = "choose", !.inbound = n] \in Works /\ Fits([x EXCEPT !.pc = "choose", !.inbound = n])
      BY <1>0, <1>2, <2>1 DEF Works, Fits, Load
    <3> Moves(w, [x EXCEPT !.pc = "choose", !.inbound = n])
      BY <2>1, <2>2, <1>0 DEF Moves, TypeOK
    <3> QED OBVIOUS
  <2> QED BY <1>2, <1>s, <2>2 DEF Load
<1>2a. CASE Choose(w)
  <2>1. CASE Goto(w, "template")
    <3> [x EXCEPT !.pc = "template"] \in Works /\ Fits([x EXCEPT !.pc = "template"])
      BY <1>0, <1>2a DEF Works, Fits, Choose
    <3> QED BY <2>1, GotoMoves, <1>0
  <2>2. CASE work[w].next <= Chunks /\ Goto(w, "send")
    <3> [x EXCEPT !.pc = "send"] \in Works /\ Fits([x EXCEPT !.pc = "send"])
      BY <1>0, <1>2a, <2>2 DEF Works, Fits, Choose
    <3> QED BY <2>2, GotoMoves, <1>0
  <2> QED BY <1>2a, <1>s, <1>r, <2>1, <2>2 DEF Choose
<1>3. CASE Send(w)
  <2>1. CASE work' = [work EXCEPT ![w].pc = "record", ![w].then = "send"]
    <3> [x EXCEPT !.pc = "record", !.then = "send"] \in Works
        /\ Fits([x EXCEPT !.pc = "record", !.then = "send"])
      BY <1>0, <1>3 DEF Works, Fits, Send
    <3> Moves(w, [x EXCEPT !.pc = "record", !.then = "send"])
      BY <2>1, <1>0 DEF Moves, TypeOK
    <3> QED OBVIOUS
  <2> QED BY <1>3, <1>s, <1>r, <2>1 DEF Send
<1>4. CASE SendTemplate(w)
  <2>1. CASE work[w].next = 1 /\ work' = [work EXCEPT ![w].pc = "record", ![w].then = "DISPATCHED"]
    <3> DEFINE y == [x EXCEPT !.pc = "record", !.then = "DISPATCHED"]
    <3>1. y \in Works /\ y.pc = "record" /\ y.then = "DISPATCHED" /\ y.next = 1 /\ y.inbound = x.inbound
      BY <1>0, <2>1 DEF Works
    <3>i. x.inbound >= 1
      BY <1>0, <1>4 DEF Fits, SendTemplate
    <3>2. Fits(y)
      BY <3>1, <3>i, <1>c DEF Fits
    <3> Moves(w, [x EXCEPT !.pc = "record", !.then = "DISPATCHED"])
      BY <2>1, <1>0 DEF Moves, TypeOK
    <3> QED BY <3>1, <3>2
  <2> QED BY <1>4, <1>s, <1>r, <2>1 DEF SendTemplate
<1>5. CASE RecordRead(w)
  <2>1. CASE work' = [work EXCEPT ![w] = Idle]
    BY <2>1, <1>i DEF Moves
  <2>2. CASE work' = [work EXCEPT ![w].pc = "recordWrite", ![w].read = row.sent]
    <3> [x EXCEPT !.pc = "recordWrite", !.read = row.sent] \in Works
        /\ Fits([x EXCEPT !.pc = "recordWrite", !.read = row.sent])
      BY <1>0, <1>5 DEF Works, Rows, Fits, RecordRead
    <3> Moves(w, [x EXCEPT !.pc = "recordWrite", !.read = row.sent])
      BY <2>2, <1>0 DEF Moves, TypeOK
    <3> QED OBVIOUS
  <2> QED BY <1>5, <1>r, <2>1, <2>2 DEF RecordRead
<1>6. CASE RecordWrite(w)
  <2>1. CASE GoesOnTo(w) <= Chunks /\ work' = [work EXCEPT ![w].pc = "send", ![w].next = GoesOnTo(w)]
    <3>1. PICK n \in 1..Chunks : n = GoesOnTo(w)
      BY <1>0, <1>c, <1>6, <2>1 DEF GoesOnTo, Works
    <3>2. n \in 0..(Chunks + 1)
      BY <1>c
    <3>i. x.inbound >= 1
      BY <1>0, <1>6 DEF Fits, RecordWrite
    <3> DEFINE y == [x EXCEPT !.pc = "send", !.next = n]
    <3>3. y \in Works /\ y.pc = "send" /\ y.next = n /\ y.inbound = x.inbound
      BY <1>0, <3>2 DEF Works
    <3>4. Fits(y)
      BY <3>1, <3>i, <3>3, <1>c DEF Fits
    <3> Moves(w, [x EXCEPT !.pc = "send", !.next = n])
      BY <1>0, <2>1, <3>1 DEF Moves, TypeOK
    <3> QED BY <3>3, <3>4
  <2> QED BY <1>6, <1>s, <1>r, <2>1 DEF RecordWrite
<1>7. CASE SettleRead(w)
  <2> [x EXCEPT !.pc = "settleWrite"] \in Works /\ Fits([x EXCEPT !.pc = "settleWrite"])
    BY <1>0, <1>7 DEF SettleRead, Works, Fits
  <2> QED BY <1>7, GotoMoves, <1>0, <1>i DEF SettleRead, Moves
<1>8. CASE RetryRead(w)
  <2>1. [x EXCEPT !.pc = "retryWrite"] \in Works /\ Fits([x EXCEPT !.pc = "retryWrite"])
    BY <1>0 DEF Works, Fits
  <2>2. CASE Goto(w, "retryWrite")
    BY <2>1, <2>2, GotoMoves, <1>0
  <2> QED BY <1>8, <1>s, <2>2, <1>i DEF RetryRead, Moves
<1>9. CASE SettleWrite(w) \/ RetryWrite(w) \/ Crash(w)
  BY <1>9, <1>i DEF SettleWrite, RetryWrite, Crash, Moves
<1> QED
  BY <1>1, <1>2, <1>2a, <1>3, <1>4, <1>5, <1>6, <1>7, <1>8, <1>9 DEF Step

\* A chunk's message is the chunk's, whatever its form.  (deliver.)
LEMMA SentMessage ==
  ASSUME TypeOK, WorkFits, NEW w \in Worker, Send(w)
  PROVE  \E m \in Messages :
           /\ m = ChunkMessage(w) /\ m.part = work[w].next /\ work[w].next \in 1..Chunks
           /\ m.form = "template" => ~FreeformAllowed(w)
           /\ chat' = chat \/ chat' = Append(chat, m)
<1>1. work[w].next \in 1..Chunks
  <2>1. work[w] \in Works /\ Fits(work[w]) /\ work[w].pc = "send" /\ Chunks \in Nat
    BY DEF TypeOK, WorkFits, Send
  <2> QED BY <2>1 DEF Works, Fits
<1>2. /\ ChunkMessage(w) \in Messages /\ ChunkMessage(w).part = work[w].next
      /\ ChunkMessage(w).form = "template" => ~FreeformAllowed(w)
  BY <1>1 DEF ChunkMessage, Messages
<1>3. chat' = chat \/ chat' = Append(chat, ChunkMessage(w))
  BY DEF Send, MayArrive
<1> QED BY <1>1, <1>2, <1>3

\* The template for the whole reply.  (deliver_template.)
LEMMA WholeMessage ==
  ASSUME NEW w \in Worker, SendTemplate(w)
  PROVE  \E m \in Messages :
           /\ m = Template /\ m.part = Whole
           /\ chat' = chat \/ chat' = Append(chat, m)
<1>1. Template \in Messages /\ Template.part = Whole
  BY DEF Template, Messages, Whole
<1>2. chat' = chat \/ chat' = Append(chat, Template)
  BY DEF SendTemplate, MayArrive
<1> QED BY <1>1, <1>2

\* Every step keeps the types and what a worker carries.  (All handlers.)
LEMMA TypesAreKept ==
  ASSUME TypeOK, WorkFits, [Next]_vars
  PROVE  TypeOK' /\ WorkFits'
<1> DEFINE RowOK == /\ row \in Rows
                    /\ row.total # 0 => row.sent <= row.total
                    /\ row.live => row.owner # Nobody
           RestOK == /\ routed \in BOOLEAN /\ inbound \in 1..MaxInbound /\ closed \in 0..inbound
                     /\ chat \in Seq(Messages)
                     /\ lapses \in 0..MaxLapses /\ crashes \in 0..MaxCrashes
           WorkOK == work \in [Worker -> Works] /\ WorkFits
<1>0. RowOK /\ RestOK /\ WorkOK
  BY DEF TypeOK
<1>c. Chunks \in Nat /\ Chunks >= 1 /\ MaxLapses \in Nat /\ MaxCrashes \in Nat /\ MaxInbound \in Nat
  OBVIOUS
<1>s. SUFFICES RowOK' /\ RestOK' /\ WorkOK'
  BY DEF TypeOK
<1>1. ASSUME NEW w \in Worker, Step(w) \/ Crash(w)
      PROVE  RowOK' /\ RestOK' /\ WorkOK'
  <2>1. WorkOK'
    <3>1. PICK y \in Works : Fits(y) /\ Moves(w, y)
      BY <1>1, StepsMove
    <3> QED BY <3>1, MoveIsTyped
  <2>2. work[w] \in Works /\ Fits(work[w]) /\ w # Nobody
    BY DEF TypeOK, WorkFits
  <2>3. CASE Claim(w)
    <3>0. PICK a \in Nat : a = row.attempts + 1
      BY <1>0 DEF Rows
    <3>1. row' = [row EXCEPT !.owner = w, !.live = TRUE, !.attempts = a]
      BY <2>3, <1>0, <3>0 DEF Claim
    <3>2. row' \in Rows /\ row'.total = row.total /\ row'.sent = row.sent /\ row'.owner = w
      BY <3>1, <1>0 DEF Rows
    <3>3. RestOK'
      BY <2>3, <1>0 DEF Claim, counters
    <3> QED BY <2>1, <2>2, <3>2, <3>3, <1>0
  <2>4. CASE Load(w) \/ Choose(w) \/ RecordRead(w) \/ SettleRead(w) \/ RetryRead(w)
    BY <2>4, <2>1, <1>0 DEF Load, Choose, RecordRead, SettleRead, RetryRead, counters
  <2>5. CASE Send(w) \/ SendTemplate(w)
    <3>1. row' = row /\ routed' = routed /\ inbound' = inbound /\ closed' = closed
          /\ counters' = counters
      BY <2>5 DEF Send, SendTemplate
    <3>2. chat' \in Seq(Messages)
      <4>1. PICK m \in Messages : chat' = chat \/ chat' = Append(chat, m)
        BY <2>5, SentMessage, WholeMessage DEF MayArrive
      <4> QED BY <4>1, <1>0
    <3> QED BY <3>1, <3>2, <2>1, <1>0 DEF counters
  <2>6. CASE RecordWrite(w)
    <3> DEFINE n == NewCount(w)
               t == TotalOf(w)
    <3>1. n \in Nat /\ t \in {1, Chunks}
      BY <2>2 DEF NewCount, TotalOf, Works
    <3>2. RestOK'
      BY <2>6, <1>0 DEF RecordWrite, counters
    <3>3. CASE n > t
      BY <3>3, <2>6, <2>1, <3>2, <1>0 DEF RecordWrite
    <3>4. CASE ~(n > t)
      <4>1. row' = [row EXCEPT !.sent = n, !.total = t]
        BY <3>4, <2>6 DEF RecordWrite
      <4>2. n \in 0..Chunks /\ n <= t
        BY <3>1, <3>4, <1>c
      <4> HIDE DEF n, t
      <4>3. row' \in Rows /\ row'.sent = n /\ row'.total = t /\ row'.live = row.live
            /\ row'.owner = row.owner
        BY <4>1, <4>2, <3>1, <1>0 DEF Rows
      <4> QED BY <4>2, <4>3, <3>2, <2>1, <1>0
    <3> QED BY <3>3, <3>4
  <2>7. CASE SettleWrite(w)
    <3>1. work[w].then \in {"DISPATCHED", "FAILED"}
      BY <2>2, <2>7 DEF SettleWrite, Fits
    <3>2. RowOK'
      BY <2>7, <3>1, <1>0 DEF SettleWrite, Settlement, Rows
    <3> QED BY <2>7, <3>2, <2>1, <1>0 DEF SettleWrite, counters
  <2>8. CASE RetryWrite(w)
    <3>1. RowOK'
      BY <2>8, <1>0 DEF RetryWrite, Rows
    <3> QED BY <2>8, <3>1, <2>1, <1>0 DEF RetryWrite, counters
  <2>9. CASE Crash(w)
    BY <2>9, <2>1, <1>0, <1>c DEF Crash
  <2> QED BY <1>1, <2>3, <2>4, <2>5, <2>6, <2>7, <2>8, <2>9 DEF Step
<1>2. CASE BecomeDue
  BY <1>2, <1>0 DEF BecomeDue, Rows, counters, WorkFits
<1>3. CASE ClaimLapses
  <2>1. RowOK'
    BY <1>3, <1>0 DEF ClaimLapses, Rows
  <2>2. lapses' \in 0..MaxLapses
    BY <1>3, <1>0, <1>c DEF ClaimLapses
  <2> QED BY <1>3, <1>0, <2>1, <2>2 DEF ClaimLapses, WorkFits
<1>4. CASE ChatWrites \/ WindowCloses
  <2>1. inbound' \in 1..MaxInbound /\ closed' \in 0..inbound'
    BY <1>4, <1>0, <1>c DEF ChatWrites, WindowCloses
  <2> QED BY <1>4, <1>0, <2>1 DEF ChatWrites, WindowCloses, WorkFits, counters
<1>5. CASE Unpair
  BY <1>5, <1>0 DEF Unpair, WorkFits, counters
<1>6. CASE UNCHANGED vars
  BY <1>6, <1>0 DEF vars, WorkFits, counters
<1> QED
  BY <1>1, <1>2, <1>3, <1>4, <1>5, <1>6 DEF Next

-----------------------------------------------------------------------------
(* Copies are counted *)

\* The bookkeeping of a chunk is of finite sets.
LEMMA CountsAreFinite ==
  ASSUME TypeOK, NEW c
  PROVE  /\ IsFiniteSet(Copies(c)) /\ Cardinality(Copies(c)) \in Nat
         /\ IsFiniteSet(Senders(c)) /\ Cardinality(Senders(c)) \in Nat
<1>1. IsFiniteSet(1..Len(chat))
  BY FS_Interval DEF TypeOK
<1>2. Copies(c) \subseteq 1..Len(chat) /\ Senders(c) \subseteq Worker
  BY DEF Copies, Senders
<1> QED BY <1>1, <1>2, FS_Subset, FS_CardinalityType

\* A step that sends nothing and lets no further worker send keeps the count.
LEMMA QuietStepsCount ==
  ASSUME TypeOK, CopiesHaveClaims, chat' = chat,
         row'.attempts = row.attempts,
         \A v \in Worker, c \in 0..Chunks : MaySend(work'[v], c) => MaySend(work[v], c)
  PROVE  CopiesHaveClaims'
<1> SUFFICES ASSUME NEW c \in 0..Chunks
             PROVE  Cardinality(Copies(c)') + Cardinality(Senders(c)') <= row'.attempts
  BY DEF CopiesHaveClaims
<1>1. Copies(c)' = Copies(c)
  BY DEF Copies
<1>2. Senders(c)' \subseteq Senders(c)
  BY DEF Senders
<1>3. Cardinality(Senders(c)') \in Nat /\ Cardinality(Senders(c)') <= Cardinality(Senders(c))
  BY <1>2, CountsAreFinite, FS_Subset, FS_CardinalityType
<1>4. Cardinality(Copies(c)) + Cardinality(Senders(c)) <= row.attempts /\ row.attempts \in Nat
  BY DEF CopiesHaveClaims, TypeOK, Rows
<1> QED BY <1>1, <1>3, <1>4, CountsAreFinite

\* A claim makes room for one more sender.
LEMMA ClaimsCount ==
  ASSUME TypeOK, CopiesHaveClaims, NEW w \in Worker, chat' = chat,
         row'.attempts = row.attempts + 1,
         \A v \in Worker : v # w => work'[v] = work[v]
  PROVE  CopiesHaveClaims'
<1> SUFFICES ASSUME NEW c \in 0..Chunks
             PROVE  Cardinality(Copies(c)') + Cardinality(Senders(c)') <= row'.attempts
  BY DEF CopiesHaveClaims
<1>1. Copies(c)' = Copies(c)
  BY DEF Copies
<1>2. Senders(c)' \subseteq Senders(c) \cup {w}
  BY DEF Senders
<1>3. /\ IsFiniteSet(Senders(c) \cup {w})
      /\ Cardinality(Senders(c) \cup {w}) <= Cardinality(Senders(c)) + 1
  <2>1. Cardinality(Senders(c)) \in Nat /\ IsFiniteSet(Senders(c))
    BY CountsAreFinite
  <2>2. /\ IsFiniteSet(Senders(c) \cup {w})
        /\ Cardinality(Senders(c) \cup {w})
             = IF w \in Senders(c) THEN Cardinality(Senders(c)) ELSE Cardinality(Senders(c)) + 1
    BY <2>1, FS_AddElement
  <2> QED BY <2>1, <2>2
<1>4. /\ Cardinality(Senders(c)') \in Nat
      /\ Cardinality(Senders(c) \cup {w}) \in Nat
      /\ Cardinality(Senders(c)') <= Cardinality(Senders(c) \cup {w})
  BY <1>2, <1>3, FS_Subset, FS_CardinalityType
<1>5. Cardinality(Copies(c)) + Cardinality(Senders(c)) <= row.attempts /\ row.attempts \in Nat
  BY DEF CopiesHaveClaims, TypeOK, Rows
<1> QED BY <1>1, <1>3, <1>4, <1>5, CountsAreFinite

\* What arrives was owed by its sender, which owes it no more.
LEMMA SendsCount ==
  ASSUME TypeOK, CopiesHaveClaims, NEW w \in Worker, NEW n \in 0..Chunks, NEW m, m.part = n,
         chat' = Append(chat, m), row' = row,
         MaySend(work[w], n), ~MaySend(work'[w], n),
         \A v \in Worker, c \in 0..Chunks : MaySend(work'[v], c) => MaySend(work[v], c)
  PROVE  CopiesHaveClaims'
<1> SUFFICES ASSUME NEW c \in 0..Chunks
             PROVE  Cardinality(Copies(c)') + Cardinality(Senders(c)') <= row'.attempts
  BY DEF CopiesHaveClaims
<1> DEFINE k == Len(chat) + 1
<1>0. Len(chat) \in Nat /\ Len(chat') = k /\ chat'[k].part = n /\ \A i \in 1..Len(chat) : chat'[i] = chat[i]
  BY DEF TypeOK
<1>1. Senders(c)' \subseteq Senders(c)
  BY DEF Senders
<1>2. Cardinality(Senders(c)') \in Nat /\ Cardinality(Senders(c)') <= Cardinality(Senders(c))
  BY <1>1, CountsAreFinite, FS_Subset, FS_CardinalityType
<1>3. Cardinality(Copies(c)) + Cardinality(Senders(c)) <= row.attempts /\ row.attempts \in Nat
  BY DEF CopiesHaveClaims, TypeOK, Rows
<1>4. CASE c # n
  <2>1. Copies(c)' = Copies(c)
    BY <1>0, <1>4 DEF Copies
  <2> QED BY <2>1, <1>2, <1>3, CountsAreFinite
<1>5. CASE c = n
  <2>1. Copies(c)' = Copies(c) \cup {k}
    BY <1>0, <1>5 DEF Copies
  <2>2. k \notin Copies(c)
    BY <1>0 DEF Copies
  <2>3. Cardinality(Copies(c)') = Cardinality(Copies(c)) + 1
    BY <2>1, <2>2, CountsAreFinite, FS_AddElement
  <2>4. w \in Senders(c) /\ Senders(c)' \subseteq Senders(c) \ {w}
    BY <1>5, <1>1 DEF Senders
  <2>5. /\ IsFiniteSet(Senders(c) \ {w})
        /\ Cardinality(Senders(c) \ {w}) = Cardinality(Senders(c)) - 1
    BY <2>4, CountsAreFinite, FS_RemoveElement
  <2>6. Cardinality(Senders(c)') <= Cardinality(Senders(c) \ {w})
    BY <2>4, <2>5, FS_Subset
  <2> QED BY <2>3, <2>5, <2>6, <1>2, <1>3, CountsAreFinite
<1> QED BY <1>4, <1>5

\* A step of one worker leaves the others where they are.
LEMMA OthersStay ==
  ASSUME TypeOK, WorkFits, NEW w \in Worker, Step(w) \/ Crash(w)
  PROVE  \A v \in Worker : v # w => work'[v] = work[v]
<1>1. PICK y \in Works : Fits(y) /\ Moves(w, y)
  BY StepsMove
<1> QED BY <1>1, MoveIsTyped

\* An idle worker sends nothing.
LEMMA NobodyMaySend == \A c : ~MaySend(Idle, c)
BY DEF MaySend, Idle

\* Every step keeps the count of copies within the claims.  (All handlers.)
LEMMA CopiesAreCounted ==
  ASSUME TypeOK, WorkFits, CopiesHaveClaims, [Next]_vars
  PROVE  CopiesHaveClaims'
<1>1. ASSUME NEW w \in Worker, Step(w) \/ Crash(w)
      PROVE  CopiesHaveClaims'
  <2>0. work[w] \in Works /\ Fits(work[w]) /\ work \in [Worker -> Works]
    BY DEF TypeOK, WorkFits
  <2>o. \A v \in Worker : v # w => work'[v] = work[v]
    BY <1>1, OthersStay
  <2>a. SUFFICES ASSUME ~Claim(w) PROVE CopiesHaveClaims'
    <3>1. CASE Claim(w)
      <4>1. chat' = chat /\ row'.attempts = row.attempts + 1
        BY <3>1 DEF Claim, TypeOK, Rows
      <4> QED BY <4>1, <2>o, ClaimsCount
    <3> QED BY <3>1
  <2> DEFINE Keeps == \A c \in 0..Chunks : MaySend(work'[w], c) => MaySend(work[w], c)
  <2>k. Keeps => \A v \in Worker, c \in 0..Chunks : MaySend(work'[v], c) => MaySend(work[v], c)
    BY <2>o
  <2>1. CASE Load(w) \/ Choose(w)
    <3>1. Keeps
      <4>1. \/ work'[w].pc \in {"retry", "settle"}
            \/ /\ work[w].pc \in {"load", "choose"} /\ work'[w].next = work[w].next
               /\ work'[w].pc \in {"choose", "template", "send"}
        BY <2>1, <2>0, WorkerLands DEF Load, Choose, Works
      <4> QED BY <4>1, <2>0 DEF MaySend
    <3> HIDE DEF Keeps
    <3> QED BY <2>1, <2>k, <3>1, QuietStepsCount DEF Load, Choose
  <2>2. CASE Send(w)
    <3>1. work[w].pc = "send" /\ row' = row /\ work[w].next \in 0..Chunks /\ work[w].next >= 1
      BY <2>2, <2>0 DEF Send, Fits, Works
    <3>2. \/ work'[w].next = work[w].next /\ work'[w].pc = "record"
          \/ work'[w].pc \in {"retry", "settle"}
      BY <2>2, <2>0, WorkerLands DEF Send, Works
    <3>3. Keeps
      BY <3>1, <3>2, <2>0 DEF MaySend, Works
    <3>4. MaySend(work[w], work[w].next) /\ ~MaySend(work'[w], work[w].next)
      BY <3>1, <3>2 DEF MaySend, Whole
    <3>5. PICK m \in Messages :
            m.part = work[w].next /\ (chat' = chat \/ chat' = Append(chat, m))
      BY <2>2, SentMessage
    <3> HIDE DEF Keeps
    <3>6. CASE chat' = chat
      BY <3>6, <3>1, <3>3, <2>k, QuietStepsCount
    <3>7. CASE chat' = Append(chat, m)
      <4> PICK n \in 0..Chunks : n = work[w].next
        BY <3>1
      <4> QED BY <3>5, <3>7, <3>1, <3>3, <3>4, <2>k, SendsCount
    <3> QED BY <3>5, <3>6, <3>7
  <2>3. CASE SendTemplate(w)
    <3>1. work[w].pc = "template" /\ row' = row
      BY <2>3 DEF SendTemplate
    <3>2. \/ work'[w].pc = "record" /\ work'[w].then = "DISPATCHED"
          \/ work'[w].pc \in {"retry", "settle"}
      BY <2>3, <2>0, WorkerLands DEF SendTemplate, Works
    <3>3. \A c : ~MaySend(work'[w], c)
      BY <3>2 DEF MaySend
    <3>4. MaySend(work[w], Whole) /\ Whole \in 0..Chunks
      BY <3>1 DEF MaySend, Whole
    <3>5. PICK m \in Messages : m.part = Whole /\ (chat' = chat \/ chat' = Append(chat, m))
      BY <2>3, WholeMessage
    <3>6. CASE chat' = chat
      BY <3>6, <3>1, <3>3, <2>k, QuietStepsCount
    <3>7. CASE chat' = Append(chat, m)
      <4> PICK n \in 0..Chunks : n = Whole
        BY <3>4
      <4> QED BY <3>5, <3>7, <3>1, <3>3, <3>4, <2>k, SendsCount
    <3> QED BY <3>5, <3>6, <3>7
  <2>4. CASE RecordRead(w)
    <3>1. \/ work'[w] = Idle
          \/ work'[w].pc = "retry"
          \/ /\ work'[w].pc = "recordWrite" /\ work[w].pc = "record"
             /\ work'[w].then = work[w].then /\ work'[w].next = work[w].next
      BY <2>4, <2>0, WorkerLands DEF RecordRead, Works
    <3>2. Keeps
      BY <3>1, NobodyMaySend DEF MaySend
    <3> HIDE DEF Keeps
    <3> QED BY <2>4, <2>k, <3>2, QuietStepsCount DEF RecordRead
  <2>5. CASE RecordWrite(w)
    <3>1. \/ work'[w].pc \in {"retry", "settle"}
          \/ /\ work'[w].pc = "send" /\ work[w].pc = "recordWrite" /\ work[w].then = "send"
             /\ work'[w].next = work[w].next + 1
      BY <2>5, <2>0, WorkerLands DEF RecordWrite, GoesOnTo, Works
    <3>2. work[w].next \in Nat
      BY <2>0 DEF Works
    <3>3. Keeps
      BY <3>1, <3>2 DEF MaySend
    <3>4. chat' = chat /\ row'.attempts = row.attempts
      BY <2>5 DEF RecordWrite, TypeOK, Rows
    <3> HIDE DEF Keeps
    <3> QED BY <3>3, <3>4, <2>k, QuietStepsCount
  <2>6. CASE SettleRead(w) \/ RetryRead(w) \/ SettleWrite(w) \/ RetryWrite(w) \/ Crash(w)
    <3>1. work'[w] = Idle \/ work'[w].pc \in {"settle", "settleWrite", "retryWrite"}
      BY <2>6, <2>0, WorkerLands DEF SettleRead, RetryRead, SettleWrite, RetryWrite, Crash, Works
    <3>2. Keeps
      BY <3>1, NobodyMaySend DEF MaySend
    <3>3. chat' = chat /\ row'.attempts = row.attempts
      BY <2>6 DEF SettleRead, RetryRead, SettleWrite, RetryWrite, Crash, Settlement, TypeOK, Rows
    <3> HIDE DEF Keeps
    <3> QED BY <3>2, <3>3, <2>k, QuietStepsCount
  <2> QED BY <1>1, <2>a, <2>1, <2>2, <2>3, <2>4, <2>5, <2>6 DEF Step
<1>2. CASE BecomeDue \/ ClaimLapses \/ ChatWrites \/ WindowCloses \/ Unpair \/ UNCHANGED vars
  <2>1. work' = work /\ chat' = chat /\ row'.attempts = row.attempts
    BY <1>2 DEF BecomeDue, ClaimLapses, ChatWrites, WindowCloses, Unpair, vars, TypeOK, Rows
  <2> QED BY <2>1, QuietStepsCount
<1> QED
  BY <1>1, <1>2 DEF Next

-----------------------------------------------------------------------------
(* While no claim lapsed *)

\* What the chat received grows by what is sent.
LEMMA ReceivedGrows ==
  ASSUME TypeOK, NEW m, chat' = Append(chat, m)
  PROVE  /\ Received' = Received \cup {m.part}
         /\ Len(chat') = Len(chat) + 1 /\ chat'[Len(chat) + 1] = m
         /\ \A i \in 1..Len(chat) : chat'[i] = chat[i]
<1>1. Len(chat) \in Nat /\ Len(chat') = Len(chat) + 1 /\ chat'[Len(chat) + 1] = m
      /\ \A i \in 1..Len(chat) : chat'[i] = chat[i]
  BY DEF TypeOK
<1>2. 1..Len(chat') = 1..Len(chat) \cup {Len(chat) + 1}
  BY <1>1
<1>3. Received' = {chat'[i].part : i \in 1..Len(chat')}
  BY DEF Received
<1>4. Received' = {chat'[i].part : i \in 1..Len(chat)} \cup {m.part}
  BY <1>1, <1>2, <1>3
<1>5. {chat'[i].part : i \in 1..Len(chat)} = Received
  BY <1>1 DEF Received
<1> QED BY <1>1, <1>4, <1>5

\* A worker at work is the only one.
LEMMA WorkersAreAlone ==
  ASSUME \A v \in Worker : Holds(v), NEW w \in Worker, work[w].pc # "idle"
  PROVE  \A v \in Worker : v # w => work[v].pc = "idle"
BY DEF Holds

\* The steps of a worker, while no claim lapsed: it holds the row that it read.
\* (claim_due, _dispatch, record_chunk, settle, retry and crashes between them.)
LEMMA StepsAreUndisturbed ==
  ASSUME TypeOK, WorkFits, TypeOK', lapses = 0, InOrder, RowIsTrue,
         \A v \in Worker : Holds(v),
         NEW w \in Worker, Step(w) \/ Crash(w)
  PROVE  InOrder' /\ RowIsTrue' /\ \A v \in Worker : Holds(v)'
<1>0. /\ work[w] \in Works /\ Fits(work[w]) /\ row \in Rows /\ work' \in [Worker -> Works]
      /\ Holds(w) /\ work \in [Worker -> Works]
  BY DEF TypeOK, WorkFits
<1>c. Chunks \in Nat /\ Chunks >= 1
  OBVIOUS
<1>1. \A v \in Worker : v # w => work[v].pc = "idle"
  <2>1. CASE Claim(w)
    BY <2>1 DEF Claim, Claimable, Holds
  <2>2. CASE ~Claim(w)
    <3>1. work[w].pc # "idle"
      BY <2>2 DEF Step, Crash, Load, Choose, Send, SendTemplate, RecordRead, RecordWrite, SettleRead,
                  SettleWrite, RetryRead, RetryWrite
    <3> QED BY <3>1, WorkersAreAlone
  <2> QED BY <2>1, <2>2
<1>2. \A v \in Worker : v # w => Holds(v)'
  BY <1>1, OthersStay DEF Holds
<1>3. SUFFICES InOrder' /\ RowIsTrue' /\ Holds(w)'
  BY <1>2
<1>q. chat' = chat => /\ InOrder' /\ Received' = Received
                      /\ \A n : Arrived(n)' <=> Arrived(n)
                      /\ Complete' <=> Complete
  BY DEF InOrder, Received, Arrived, Complete
<1>r. chat' = chat /\ row' = row => InOrder' /\ RowIsTrue'
  BY <1>q DEF RowIsTrue
<1>i. work'[w] = Idle => Holds(w)'
  BY DEF Holds, Idle
<1>4. CASE Claim(w)
  <2>1. chat' = chat /\ row'.sent = row.sent /\ row'.total = row.total /\ row'.status = row.status
        /\ row'.owner = w /\ row'.live = TRUE
    BY <1>0, <1>4 DEF Claim, Rows
  <2>2. RowIsTrue'
    BY <2>1, <1>q DEF RowIsTrue
  <2>3. work'[w].pc = "load" /\ work'[w].next = row.sent + 1 /\ work'[w].total = row.total
    BY <1>0, <1>4 DEF Claim, NextChunk, Idle
  <2>4. Holds(w)'
    BY <2>1, <2>3 DEF Holds
  <2> QED BY <2>1, <2>2, <2>4, <1>q
<1>5. CASE Load(w) \/ Choose(w)
  <2>1. chat' = chat /\ row' = row /\ work[w].pc \in {"load", "choose"}
    BY <1>5 DEF Load, Choose
  <2>2. \/ work'[w].pc = "settle" /\ work'[w].then = "FAILED"
        \/ work'[w].pc = "retry"
        \/ work'[w].pc = "settle" /\ work[w].next > Chunks
        \/ /\ work'[w].next = work[w].next /\ work'[w].total = work[w].total
           /\ \/ work'[w].pc \in {"choose", "template"}
              \/ work'[w].pc = "send" /\ work[w].total \in {0, Chunks}
    BY <1>0, <1>5, WorkerLands DEF Load, Choose, Works
  <2>3. work[w].next = row.sent + 1 /\ work[w].total = row.total /\ row.owner = w /\ row.live
    BY <1>0, <2>1 DEF Holds
  <2>4. work[w].next > Chunks => Complete
    <3>1. work[w].next > Chunks => row.sent = Chunks
      BY <2>3, <1>0, <1>c DEF Rows
    <3> QED BY <3>1 DEF RowIsTrue, Complete
  <2>5. Holds(w)'
    BY <2>1, <2>2, <2>3, <2>4, <1>q DEF Holds
  <2> QED BY <2>1, <2>5, <1>r
<1>6. CASE Send(w)
  <2>1. work[w].pc = "send" /\ row' = row
    BY <1>6 DEF Send
  <2>n. PICK n \in 1..Chunks : n = work[w].next
    BY <2>1, <1>0, <1>c DEF Works, Fits
  <2>2. row.owner = w /\ row.live /\ n = row.sent + 1 /\ row.total \in {0, Chunks}
    BY <2>1, <2>n, <1>0 DEF Holds
  <2>3. n \in 1..Chunks /\ row.sent \in Nat
    BY <2>1, <1>0, <1>c DEF Works, Fits, Rows
  <2>4. n > 1 => n - 1 \in Received
    BY <2>2, <2>3, <1>c DEF RowIsTrue, Arrived
  <2>5. Arrived(n - 1)
    BY <2>2, <2>3, <1>c DEF RowIsTrue, Arrived
  <2>m. PICK m \in Messages : m = ChunkMessage(w) /\ m.part = n
    BY <1>6, <2>n, SentMessage
  <2>6. \/ /\ chat' = Append(chat, m)
           /\ work'[w].pc = "record" /\ work'[w].then = "send" /\ work'[w].next = n
        \/ /\ chat' = chat \/ chat' = Append(chat, m)
           /\ work'[w].pc = "retry" \/ (work'[w].pc = "settle" /\ work'[w].then = "FAILED")
    BY <1>6, <1>0, <2>n, <2>m, WorkerLands DEF Send, MayArrive, Works
  <2>7. CASE chat' = chat
    <3>1. Holds(w)'
      BY <2>1, <2>2, <2>6, <2>7, <1>0 DEF Holds
    <3> QED BY <3>1, <2>1, <2>7, <1>r
  <2>8. CASE chat' = Append(chat, m)
    <3>1. /\ Received' = Received \cup {n} /\ Len(chat) \in Nat
          /\ Len(chat') = Len(chat) + 1 /\ chat'[Len(chat) + 1].part = n
          /\ \A i \in 1..Len(chat) : chat'[i] = chat[i]
      BY <2>m, <2>8, ReceivedGrows DEF TypeOK
    <3>2. Arrived(n)'
      BY <2>3, <2>5, <3>1 DEF Arrived
    <3>3. RowIsTrue'
      BY <2>1, <3>1 DEF RowIsTrue, Arrived, Complete
    <3>4. Holds(w)'
      BY <2>1, <2>2, <2>6, <3>2 DEF Holds
    <3>5. InOrder'
      <4> SUFFICES ASSUME NEW i \in 1..Len(chat'), chat'[i].part > 1
                   PROVE  \E j \in 1..(i - 1) : chat'[j].part = chat'[i].part - 1
        BY DEF InOrder
      <4>1. CASE i \in 1..Len(chat)
        <5>1. PICK j \in 1..(i - 1) : chat[j].part = chat[i].part - 1
          BY <4>1, <3>1 DEF InOrder
        <5> QED BY <5>1, <4>1, <3>1
      <4>2. CASE i = Len(chat) + 1
        <5>1. PICK j \in 1..Len(chat) : chat[j].part = n - 1
          BY <4>2, <3>1, <2>4 DEF Received
        <5> QED BY <5>1, <4>2, <3>1
      <4> QED BY <4>1, <4>2, <3>1
    <3> QED BY <3>3, <3>4, <3>5
  <2> QED BY <2>6, <2>7, <2>8
<1>7. CASE SendTemplate(w)
  <2>1. work[w].pc = "template" /\ row' = row
    BY <1>7 DEF SendTemplate
  <2>2. row.owner = w /\ row.live /\ work[w].next = row.sent + 1
    BY <2>1, <1>0 DEF Holds
  <2>m. PICK m \in Messages : m = Template /\ m.part = Whole
    BY <1>7, WholeMessage
  <2>3. \/ /\ chat' = Append(chat, m) /\ work'[w].then = "DISPATCHED"
           /\ \/ work'[w].pc = "record" /\ work'[w].next = work[w].next
              \/ work'[w].pc = "settle"
        \/ /\ chat' = chat \/ chat' = Append(chat, m)
           /\ work'[w].pc = "retry" \/ (work'[w].pc = "settle" /\ work'[w].then = "FAILED")
    <3>1. CASE work' = [work EXCEPT ![w].pc = "record", ![w].then = "DISPATCHED"]
      <4>1. work'[w].pc = "record" /\ work'[w].then = "DISPATCHED" /\ work'[w].next = work[w].next
        BY <3>1, <1>0 DEF Works
      <4>2. chat' = Append(chat, m)
        BY <1>7, <2>m, <4>1, WorkerLands DEF SendTemplate
      <4> QED BY <4>1, <4>2
    <3>2. CASE chat' = Append(chat, Template) /\ Settle(w, "DISPATCHED")
      BY <3>2, <2>m, WorkerLands
    <3>3. CASE MayArrive(Template) /\ (Retry(w) \/ Settle(w, "FAILED"))
      BY <3>3, <2>m, WorkerLands DEF MayArrive
    <3> QED BY <1>7, <3>1, <3>2, <3>3 DEF SendTemplate
  <2>4. CASE chat' = chat
    <3>1. \/ work'[w].pc = "retry" \/ (work'[w].pc = "settle" /\ work'[w].then = "FAILED")
      BY <2>3, <2>4 DEF TypeOK
    <3>2. Holds(w)'
      BY <2>1, <2>2, <3>1 DEF Holds
    <3> QED BY <3>2, <2>1, <2>4, <1>r
  <2>5. CASE chat' = Append(chat, m)
    <3>1. /\ Received' = Received \cup {Whole} /\ Len(chat) \in Nat
          /\ Len(chat') = Len(chat) + 1 /\ chat'[Len(chat) + 1].part = Whole
          /\ \A i \in 1..Len(chat) : chat'[i] = chat[i]
      BY <2>m, <2>5, ReceivedGrows DEF TypeOK
    <3>2. RowIsTrue'
      BY <2>1, <3>1 DEF RowIsTrue, Arrived, Complete
    <3>3. Holds(w)'
      BY <2>1, <2>2, <2>3, <3>1 DEF Holds, Complete
    <3>4. InOrder'
      <4> SUFFICES ASSUME NEW i \in 1..Len(chat'), chat'[i].part > 1
                   PROVE  \E j \in 1..(i - 1) : chat'[j].part = chat'[i].part - 1
        BY DEF InOrder
      <4>1. i \in 1..Len(chat)
        BY <3>1 DEF Whole
      <4>2. PICK j \in 1..(i - 1) : chat[j].part = chat[i].part - 1
        BY <4>1, <3>1 DEF InOrder
      <4> QED BY <4>1, <4>2, <3>1
    <3> QED BY <3>2, <3>3, <3>4
  <2> QED BY <2>3, <2>4, <2>5
<1>8. CASE RecordRead(w)
  <2>1. work[w].pc = "record" /\ row' = row /\ chat' = chat
    BY <1>8 DEF RecordRead
  <2>2. \/ work'[w] = Idle
        \/ work'[w].pc = "retry"
        \/ /\ work'[w].pc = "recordWrite" /\ work'[w].read = row.sent
           /\ work'[w].then = work[w].then /\ work'[w].next = work[w].next
    BY <1>8, <1>0, WorkerLands DEF RecordRead, Works
  <2>3. Holds(w)'
    BY <2>1, <2>2, <1>0, <1>i, <1>q DEF Holds
  <2> QED BY <2>1, <2>3, <1>r
<1>9. CASE RecordWrite(w)
  <2>1. /\ work[w].pc = "recordWrite" /\ chat' = chat /\ work[w].then \in {"send", "DISPATCHED"}
        /\ work[w].next \in 1..Chunks
    BY <1>9, <1>0, <1>c DEF RecordWrite, Fits, Works
  <2>2. /\ row.owner = w /\ row.live /\ work[w].read = row.sent /\ work[w].next = row.sent + 1
        /\ work[w].then = "send" => Arrived(work[w].next)
        /\ work[w].then = "DISPATCHED" => Whole \in Received
    BY <2>1, <1>0 DEF Holds
  <2>3. NewCount(w) = work[w].next /\ GoesOnTo(w) = work[w].next + 1
    BY <2>2 DEF NewCount, GoesOnTo
  <2>4. CASE NewCount(w) > TotalOf(w)
    <3>1. row' = row /\ work'[w].pc = "retry"
      BY <2>4, <1>9, <1>0, WorkerLands DEF RecordWrite, Works
    <3>2. Holds(w)'
      BY <3>1, <2>2 DEF Holds
    <3> QED BY <3>1, <3>2, <2>1, <1>r
  <2>5. CASE ~(NewCount(w) > TotalOf(w))
    <3>1. /\ row'.sent = work[w].next /\ row'.total = TotalOf(w) /\ row'.status = row.status
          /\ row'.owner = row.owner /\ row'.live = row.live
      BY <2>3, <2>5, <1>9, <1>0 DEF RecordWrite, Rows
    <3>2. RowIsTrue'
      BY <2>1, <2>2, <3>1, <1>q DEF RowIsTrue, TotalOf
    <3>3. \/ /\ work[w].then = "send" /\ work'[w].pc = "send" /\ work'[w].next = work[w].next + 1
          \/ /\ ~(work[w].then = "send" /\ work[w].next + 1 <= Chunks)
             /\ work'[w].pc = "settle" /\ work'[w].then = "DISPATCHED"
      BY <2>3, <2>5, <1>9, <1>0, WorkerLands DEF RecordWrite, Works
    <3>l. row'.live = TRUE
      BY <3>1, <2>2, <1>0 DEF Rows
    <3>4. CASE work'[w].pc = "send"
      <4>1. work[w].then = "send"
        BY <3>3, <3>4
      <4>2. row'.total = Chunks /\ row'.owner = w
        BY <4>1, <3>1, <2>2 DEF TotalOf
      <4>3. work'[w].next = row'.sent + 1
        BY <3>1, <3>3, <3>4
      <4> QED BY <4>2, <4>3, <3>2, <3>4, <3>l, <2>1, <1>q DEF Holds
    <3>5. CASE work'[w].pc = "settle"
      <4>1. Complete
        <5>1. work[w].then = "send" => work[w].next = Chunks
          BY <3>3, <3>5, <2>1, <1>c
        <5> QED BY <5>1, <2>1, <2>2 DEF Complete
      <4>2. Complete' /\ row'.owner = w
        BY <4>1, <2>1, <2>2, <3>1, <1>q
      <4> QED BY <3>2, <3>5, <4>2, <3>l, <2>1, <1>q DEF Holds
    <3> QED BY <3>2, <3>3, <3>4, <3>5, <2>1, <1>q
  <2> QED BY <2>4, <2>5
<1>10. CASE SettleRead(w) \/ RetryRead(w)
  <2>1. row' = row /\ chat' = chat /\ work[w].pc \in {"settle", "retry"}
    BY <1>10 DEF SettleRead, RetryRead
  <2>2. \/ work'[w] = Idle
        \/ work'[w].pc = "retryWrite"
        \/ work'[w].pc = "settle" /\ work'[w].then = "FAILED"
        \/ work'[w].pc = "settleWrite" /\ work[w].pc = "settle" /\ work'[w].then = work[w].then
    BY <1>10, <1>0, WorkerLands DEF SettleRead, RetryRead, Works
  <2>3. Holds(w)'
    BY <2>1, <2>2, <1>0, <1>i, <1>q DEF Holds
  <2> QED BY <2>1, <2>3, <1>r
<1>11. CASE SettleWrite(w)
  <2>1. /\ work[w].pc = "settleWrite" /\ chat' = chat /\ work'[w] = Idle
        /\ row'.sent = row.sent /\ row'.total = row.total /\ row'.status = work[w].then
    BY <1>11, <1>0 DEF SettleWrite, Settlement, Rows
  <2>2. RowIsTrue'
    BY <2>1, <1>0, <1>q DEF RowIsTrue, Holds
  <2> QED BY <2>1, <2>2, <1>i, <1>q
<1>12. CASE RetryWrite(w)
  <2>1. /\ chat' = chat /\ work'[w] = Idle
        /\ row'.sent = row.sent /\ row'.total = row.total /\ row'.status = row.status
    BY <1>12, <1>0 DEF RetryWrite, Rows
  <2>2. RowIsTrue'
    BY <2>1, <1>q DEF RowIsTrue
  <2> QED BY <2>1, <2>2, <1>i, <1>q
<1>13. CASE Crash(w)
  BY <1>13, <1>0, <1>i, <1>r DEF Crash
<1> QED
  BY <1>4, <1>5, <1>6, <1>7, <1>8, <1>9, <1>10, <1>11, <1>12, <1>13 DEF Step

\* Time, the chat and the owner disturb nothing either: without a lapse a claim
\* runs out only when its worker is gone.  (claimed_until.)
LEMMA UndisturbedIsKept ==
  ASSUME TypeOK, WorkFits, TypeOK', Undisturbed, [Next]_vars
  PROVE  Undisturbed'
<1> SUFFICES ASSUME lapses' = 0
             PROVE  InOrder' /\ RowIsTrue' /\ \A v \in Worker : Holds(v)'
  BY DEF Undisturbed
<1>1. lapses = 0
  <2>1. CASE ClaimLapses
    BY <2>1 DEF ClaimLapses, TypeOK
  <2>2. CASE ~ClaimLapses
    <3>1. lapses' = lapses
      BY <2>2 DEF Next, Step, Claim, Load, Send, SendTemplate, RecordRead, RecordWrite,
                  SettleRead, SettleWrite, RetryRead, RetryWrite, Crash, BecomeDue, Choose,
                  ChatWrites, WindowCloses, Unpair, vars, counters
    <3> QED BY <3>1
  <2> QED BY <2>1, <2>2
<1>2. InOrder /\ RowIsTrue /\ \A v \in Worker : Holds(v)
  BY <1>1 DEF Undisturbed
<1>3. ASSUME NEW w \in Worker, Step(w) \/ Crash(w)
      PROVE  InOrder' /\ RowIsTrue' /\ \A v \in Worker : Holds(v)'
  BY <1>1, <1>2, <1>3, StepsAreUndisturbed
<1>4. CASE BecomeDue \/ ClaimLapses \/ ChatWrites \/ WindowCloses \/ Unpair \/ UNCHANGED vars
  <2>1. /\ chat' = chat /\ work' = work
        /\ row'.sent = row.sent /\ row'.total = row.total /\ row'.status = row.status
        /\ row'.owner = row.owner
    BY <1>4 DEF BecomeDue, ClaimLapses, ChatWrites, WindowCloses, Unpair, vars, TypeOK, Rows
  <2>2. \A v \in Worker : work[v].pc # "idle" => row'.live = row.live
    <3>1. CASE ClaimLapses
      <4>1. ~AtWork
        BY <3>1, <1>1 DEF ClaimLapses
      <4>2. \A v \in Worker : work[v].pc = "idle"
        BY <4>1, <1>2 DEF AtWork, Holds
      <4> QED BY <4>2
    <3>2. CASE ~ClaimLapses
      BY <3>2, <1>4 DEF BecomeDue, ChatWrites, WindowCloses, Unpair, vars, TypeOK, Rows
    <3> QED BY <3>1, <3>2
  <2> QED
    BY <2>1, <2>2, <1>2 DEF InOrder, RowIsTrue, Holds, Received, Arrived, Complete
<1> QED
  BY <1>3, <1>4 DEF Next

-----------------------------------------------------------------------------
(* While no message of the chat is too old *)

\* A template needs a window that closed.  (freeform_allowed.)
LEMMA TextIsKept ==
  ASSUME TypeOK, WorkFits, TypeOK', TextWhileOpen, [Next]_vars
  PROVE  TextWhileOpen'
<1> SUFFICES ASSUME closed' = 0
             PROVE  /\ \A i \in 1..Len(chat') : chat'[i].form = "text"
                    /\ \A v \in Worker : work'[v].pc # "template"
  BY DEF TextWhileOpen
<1>1. closed = 0
  <2>1. CASE WindowCloses
    BY <2>1 DEF WindowCloses, TypeOK
  <2>2. CASE ~WindowCloses
    BY <2>2 DEF Next, Step, Claim, Load, Choose, Send, SendTemplate, RecordRead, RecordWrite,
                SettleRead, SettleWrite, RetryRead, RetryWrite, Crash, BecomeDue,
                ClaimLapses, ChatWrites, Unpair, vars
  <2> QED BY <2>1, <2>2
<1>2. /\ \A i \in 1..Len(chat) : chat[i].form = "text"
      /\ \A v \in Worker : work[v].pc # "template"
  BY <1>1 DEF TextWhileOpen
<1>3. ASSUME NEW w \in Worker, Step(w) \/ Crash(w)
      PROVE  /\ \A i \in 1..Len(chat') : chat'[i].form = "text"
             /\ \A v \in Worker : work'[v].pc # "template"
  <2>0. work[w] \in Works /\ Fits(work[w]) /\ work \in [Worker -> Works]
    BY DEF TypeOK, WorkFits
  <2>o. \A v \in Worker : v # w => work'[v] = work[v]
    BY <1>3, OthersStay
  <2>f. work[w].pc \in {"choose", "send"} => FreeformAllowed(w)
    BY <2>0, <1>1 DEF Fits, FreeformAllowed, Works
  <2>1. work'[w].pc # "template"
    <3>i. Idle.pc = "idle"
      BY DEF Idle
    <3>1. CASE Claim(w)
      BY <3>1, <2>0 DEF Claim, Idle
    <3>2. CASE Load(w) \/ Choose(w)
      BY <3>2, <2>0, <2>f, WorkerLands DEF Load, Choose, Works
    <3>3. CASE Send(w) \/ SendTemplate(w)
      BY <3>3, <2>0, WorkerLands DEF Send, SendTemplate, Works
    <3>4. CASE RecordRead(w) \/ RecordWrite(w)
      BY <3>4, <3>i, <2>0, WorkerLands DEF RecordRead, RecordWrite, Works
    <3>5. CASE SettleRead(w) \/ SettleWrite(w) \/ RetryRead(w) \/ RetryWrite(w) \/ Crash(w)
      BY <3>5, <3>i, <2>0, WorkerLands DEF SettleRead, SettleWrite, RetryRead, RetryWrite, Crash
    <3> QED BY <1>3, <3>1, <3>2, <3>3, <3>4, <3>5 DEF Step
  <2>2. CASE Send(w)
    <3>1. PICK m \in Messages : /\ m.form = "template" => ~FreeformAllowed(w)
                                /\ chat' = chat \/ chat' = Append(chat, m)
      BY <2>2, SentMessage
    <3>2. m.form = "text"
      BY <2>2, <2>f, <3>1 DEF Send, Messages
    <3>3. CASE chat' = Append(chat, m)
      <4>1. Len(chat) \in Nat /\ Len(chat') = Len(chat) + 1 /\ chat'[Len(chat) + 1] = m
            /\ \A i \in 1..Len(chat) : chat'[i] = chat[i]
        BY <3>3 DEF TypeOK
      <4> QED BY <1>2, <2>1, <2>o, <3>2, <4>1
    <3> QED BY <1>2, <2>1, <2>o, <3>1, <3>3
  <2>3. CASE ~Send(w)
    <3>1. chat' = chat
      BY <1>2, <1>3, <2>3 DEF Step, Claim, Load, Choose, SendTemplate, RecordRead, RecordWrite,
         SettleRead, SettleWrite, RetryRead, RetryWrite, Crash
    <3> QED BY <1>2, <2>1, <2>o, <3>1
  <2> QED BY <2>2, <2>3
<1>4. CASE BecomeDue \/ ClaimLapses \/ ChatWrites \/ WindowCloses \/ Unpair \/ UNCHANGED vars
  BY <1>2, <1>4 DEF BecomeDue, ClaimLapses, ChatWrites, WindowCloses, Unpair, vars
<1> QED BY <1>3, <1>4 DEF Next

-----------------------------------------------------------------------------
(* The theorems *)

\* The invariant holds.
LEMMA RepliesInvHolds == Spec => []RepliesInv
<1>1. Init => RepliesInv
  <2> SUFFICES ASSUME Init PROVE RepliesInv
    OBVIOUS
  <2>c. Chunks \in Nat /\ MaxLapses \in Nat /\ MaxCrashes \in Nat /\ MaxInbound \in Nat \ {0}
    OBVIOUS
  <2>1. Idle \in Works /\ Fits(Idle) /\ \A c : ~MaySend(Idle, c)
    BY NobodyMaySend DEF Idle, Works, Fits
  <2>2. TypeOK /\ WorkFits
    BY <2>1, <2>c DEF Init, TypeOK, WorkFits, Rows
  <2>3. \A c : Copies(c) = {} /\ Senders(c) = {}
    BY <2>1 DEF Init, Copies, Senders
  <2>4. CopiesHaveClaims
    <3>1. row.attempts = 0 /\ Cardinality({}) = 0
      BY FS_EmptySet DEF Init
    <3> QED BY <2>3, <3>1 DEF CopiesHaveClaims
  <2>5. Undisturbed
    BY DEF Init, Undisturbed, InOrder, RowIsTrue, Arrived, Holds, Idle
  <2>6. TextWhileOpen
    BY DEF Init, TextWhileOpen, Idle
  <2> QED BY <2>2, <2>4, <2>5, <2>6 DEF RepliesInv
<1>2. RepliesInv /\ [Next]_vars => RepliesInv'
  BY TypesAreKept, CopiesAreCounted, UndisturbedIsKept, TextIsKept DEF RepliesInv
<1> QED BY <1>1, <1>2, PTL DEF Spec

\* The variables keep their types: no more chunks are counted than the reply has,
\* and a claim that is live names its worker.  (record_chunk's check constraint,
\* claim_due, settle, retry.)
THEOREM RepliesTypeCorrect == Spec => []TypeOK
BY RepliesInvHolds, PTL DEF RepliesInv

\* Whatever lapses, crashes and lost answers there are, no chunk, as text or as the
\* template in its place, and no template for the whole reply reaches the chat more
\* often than the reply was claimed.  (_dispatch, deliver, claim_due.)
THEOREM RepliesOneCopyPerClaim == Spec => []OneCopyPerClaim
<1>1. RepliesInv => OneCopyPerClaim
  <2> SUFFICES ASSUME RepliesInv, NEW c \in 0..Chunks
               PROVE  Cardinality(Copies(c)) <= row.attempts
    BY DEF OneCopyPerClaim, Copies
  <2>1. Cardinality(Copies(c)) \in Nat /\ Cardinality(Senders(c)) \in Nat
    BY CountsAreFinite DEF RepliesInv
  <2>2. Cardinality(Copies(c)) + Cardinality(Senders(c)) <= row.attempts /\ row.attempts \in Nat
    BY DEF RepliesInv, CopiesHaveClaims, TypeOK, Rows
  <2> QED BY <2>1, <2>2
<1> QED BY <1>1, RepliesInvHolds, PTL

\* As long as no claim ran out under its worker, the chunks, or templates in their
\* places, arrive in order and a reply is settled as dispatched only when the chat has
\* them all, or the template for the whole; and without a message of the chat that
\* grew too old they arrive as text, whatever crashes and retries came in between.
\* (_dispatch, deliver, record_chunk, settle.)
THEOREM RepliesArriveWhole == Spec => []ReplyArrivesWhole
<1>1. RepliesInv => ReplyArrivesWhole
  BY DEF RepliesInv, Undisturbed, TextWhileOpen, ReplyArrivesWhole, InOrder, RowIsTrue, Complete,
         Arrived
<1> QED BY <1>1, RepliesInvHolds, PTL
=============================================================================
