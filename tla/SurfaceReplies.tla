--------------------------- MODULE SurfaceReplies ---------------------------
(***************************************************************************)
(* The reply outbox of the messaging surfaces: one row of surface_replies  *)
(* and the surface workers that send its text to a chat, chunk by chunk    *)
(* (application/surface_worker.py, PostgresSurfaceReplyOutbox).            *)
(*                                                                         *)
(* A claim names its worker and nothing else.  Each of record_chunk,       *)
(* settle and retry first selects the row, checking the claim, and then    *)
(* writes it by its id: two statements, between which another worker may   *)
(* claim the row.                                                          *)
(*                                                                         *)
(* WhatsApp takes free text only for a while after the chat last wrote.    *)
(* The messages of the chat are numbered, and closed is the last one that  *)
(* is too old.  A worker goes by the message it read when it began: once   *)
(* that is too old, a template without the reply's text goes out in the    *)
(* place of the reply, or of each chunk that is left.                      *)
(***************************************************************************)
EXTENDS Naturals, Sequences, FiniteSets

CONSTANTS
  Worker,         \* surface worker processes
  Chunks,         \* number of chunks of the reply
  MaxAttempts,    \* reply_max_attempts
  HasTemplates,   \* the channel replaces late freeform text by a template
  MaxLapses,      \* bound: claims that run out
  MaxCrashes,     \* bound: crashes of workers
  MaxInbound      \* bound: messages of the chat

Nobody == "nobody"

ASSUME RepliesAssumption ==
  /\ IsFiniteSet(Worker) /\ Nobody \notin Worker
  /\ Chunks \in Nat \ {0}
  /\ MaxAttempts \in Nat \ {0}
  /\ HasTemplates \in BOOLEAN
  /\ {MaxLapses, MaxCrashes} \subseteq Nat
  /\ MaxInbound \in Nat \ {0}

VARIABLES
  row,            \* status, owner, live (claimed_until ahead), due, attempts, sent, total
  routed,         \* the surface still has a route to the chat
  inbound,        \* the last message of the chat (last_inbound_at)
  closed,         \* the last one that is older than the freeform window
  work,           \* what each worker is doing
  chat,           \* what the chat received, in order
  lapses, crashes

counters == <<lapses, crashes>>
vars == <<row, routed, inbound, closed, work, chat, counters>>

Whole == 0
Idle == [pc |-> "idle", attempts |-> 0, next |-> 0, read |-> 0, total |-> 0, inbound |-> 0,
         then |-> "none"]

\* A message to the chat stands for a chunk, or for the whole reply.
Messages == [part: 0..Chunks, form: {"text", "template"}]

Rows == [status: {"PENDING", "DISPATCHED", "FAILED"}, owner: Worker \cup {Nobody},
         live: BOOLEAN, due: BOOLEAN, attempts: Nat, sent: 0..Chunks, total: {0, 1, Chunks}]

Works == [pc: {"idle", "load", "choose", "send", "template", "record", "recordWrite", "settle",
               "settleWrite", "retry", "retryWrite"},
          attempts: Nat, next: 0..(Chunks + 1), read: 0..Chunks, total: {0, 1, Chunks},
          inbound: Nat, then: {"none", "send", "DISPATCHED", "FAILED"}]

\* The total is unknown (0) until the first chunk is recorded.
TypeOK ==
  /\ row \in Rows
  /\ routed \in BOOLEAN /\ inbound \in 1..MaxInbound /\ closed \in 0..inbound
  /\ work \in [Worker -> Works]
  /\ chat \in Seq(Messages)
  /\ lapses \in 0..MaxLapses /\ crashes \in 0..MaxCrashes
  /\ row.total # 0 => row.sent <= row.total
  /\ row.live => row.owner # Nobody

\* _finalize_once has enqueued the reply of a run that came from the chat.
Init ==
  /\ row = [status |-> "PENDING", owner |-> Nobody, live |-> FALSE, due |-> TRUE,
            attempts |-> 0, sent |-> 0, total |-> 0]
  /\ routed = TRUE
  /\ inbound = 1 /\ closed = 0
  /\ work = [w \in Worker |-> Idle]
  /\ chat = <<>>
  /\ lapses = 0 /\ crashes = 0

-----------------------------------------------------------------------------
(* The worker *)

Goto(w, pc) == work' = [work EXCEPT ![w].pc = pc]
Settle(w, status) == work' = [work EXCEPT ![w] = [Idle EXCEPT !.pc = "settle", !.then = status]]
Retry(w) ==
  work' = [work EXCEPT ![w] = [Idle EXCEPT !.pc = "retry", !.attempts = work[w].attempts]]

\* Slip: a claim that has run out is not taken over.
ClaimableUnowned == row.status = "PENDING" /\ row.due /\ row.owner = Nobody

Claimable == row.status = "PENDING" /\ row.due /\ ~row.live

\* Slip: off by one in the slice.
NextChunkSkipped == row.sent + 2

\* The slice of the chunks begins after the recorded ones.
NextChunk == row.sent + 1

\* claim_due; the worker goes on with the row it was given.
Claim(w) ==
  /\ work[w].pc = "idle"
  /\ Claimable
  /\ row' = [row EXCEPT !.owner = w, !.live = TRUE, !.attempts = @ + 1]
  /\ work' = [work EXCEPT ![w] = [Idle EXCEPT !.pc = "load", !.attempts = row.attempts + 1,
                                              !.next = NextChunk, !.total = row.total]]
  /\ UNCHANGED <<routed, inbound, closed, chat, counters>>

\* _dispatch reads the route and the last message of the chat.
Load(w) ==
  /\ work[w].pc = "load"
  /\ \/ ~routed /\ Settle(w, "FAILED")
     \/ routed /\ work' = [work EXCEPT ![w].pc = "choose", ![w].inbound = inbound]
  /\ UNCHANGED <<row, routed, inbound, closed, chat, counters>>

\* freeform_allowed, for the message the worker has read
FreeformAllowed(w) == ~HasTemplates \/ work[w].inbound > closed

\* _dispatch before the first send: template policy, chunks as before.
Choose(w) ==
  /\ work[w].pc = "choose"
  /\ \/ ~FreeformAllowed(w) /\ Goto(w, "template")
     \/ /\ FreeformAllowed(w)
        /\ \/ work[w].total \notin {0, Chunks} /\ Retry(w)
           \/ work[w].total \in {0, Chunks} /\ work[w].next > Chunks /\ Settle(w, "DISPATCHED")
           \/ work[w].total \in {0, Chunks} /\ work[w].next <= Chunks /\ Goto(w, "send")
  /\ UNCHANGED <<row, routed, inbound, closed, chat, counters>>

\* A message that is refused, or whose answer is lost or makes no sense, may
\* have arrived nevertheless.
MayArrive(message) == chat' \in {chat, Append(chat, message)}

ChunkMessage(w) ==
  [part |-> work[w].next, form |-> IF FreeformAllowed(w) THEN "text" ELSE "template"]

\* Delivery of the next chunk, which looks at the window again: accepted, to be
\* retried (an exception, too), or rejected.
Send(w) ==
  /\ work[w].pc = "send"
  /\ \/ /\ chat' = Append(chat, ChunkMessage(w))
        /\ work' = [work EXCEPT ![w].pc = "record", ![w].then = "send"]
     \/ MayArrive(ChunkMessage(w)) /\ Retry(w)
     \/ MayArrive(ChunkMessage(w)) /\ Settle(w, "FAILED")
  /\ UNCHANGED <<row, routed, inbound, closed, counters>>

Template == [part |-> Whole, form |-> "template"]

\* deliver_template; a reply without a recorded chunk counts it as its only one.
SendTemplate(w) ==
  /\ work[w].pc = "template"
  /\ \/ /\ chat' = Append(chat, Template)
        /\ IF work[w].next = 1 /\ work[w].total = 0
           THEN work' = [work EXCEPT ![w].pc = "record", ![w].then = "DISPATCHED"]
           ELSE Settle(w, "DISPATCHED")
     \/ MayArrive(Template) /\ Retry(w)
     \/ MayArrive(Template) /\ Settle(w, "FAILED")
  /\ UNCHANGED <<row, routed, inbound, closed, counters>>

\* _claimed: the row carries the worker's name.
Claimed(w) == row.owner = w

\* The total the worker records: its chunks, or the one template.
TotalOf(w) == IF work[w].then = "send" THEN Chunks ELSE 1

\* The select of record_chunk.  A claim that is gone raises, and so does the
\* retry that the exception leads to: the scan ends.
RecordRead(w) ==
  /\ work[w].pc = "record"
  /\ IF ~Claimed(w) THEN work' = [work EXCEPT ![w] = Idle]
     ELSE IF row.total \notin {0, TotalOf(w)} THEN Retry(w)
     ELSE work' = [work EXCEPT ![w].pc = "recordWrite", ![w].read = row.sent]
  /\ UNCHANGED <<row, routed, inbound, closed, chat, counters>>

\* The count is the one that was read, plus one.
NewCount(w) == work[w].read + 1

\* Slip: the loop stays at its chunk.
StillAt(w) == work[w].next

\* The loop of _dispatch goes on to the next chunk.
GoesOnTo(w) == work[w].next + 1

\* The update of record_chunk; a check constraint keeps the count in bounds.
RecordWrite(w) ==
  /\ work[w].pc = "recordWrite"
  /\ IF NewCount(w) > TotalOf(w)
     THEN row' = row /\ Retry(w)
     ELSE /\ row' = [row EXCEPT !.sent = NewCount(w), !.total = TotalOf(w)]
          /\ IF work[w].then = "send" /\ GoesOnTo(w) <= Chunks
             THEN work' = [work EXCEPT ![w].pc = "send", ![w].next = GoesOnTo(w)]
             ELSE Settle(w, "DISPATCHED")
  /\ UNCHANGED <<routed, inbound, closed, chat, counters>>

SettleRead(w) ==
  /\ work[w].pc = "settle"
  /\ IF Claimed(w) THEN Goto(w, "settleWrite") ELSE work' = [work EXCEPT ![w] = Idle]
  /\ UNCHANGED <<row, routed, inbound, closed, chat, counters>>

\* The columns settle writes.
Settlement(status) == [row EXCEPT !.status = status, !.owner = Nobody, !.live = FALSE]

SettleWrite(w) ==
  /\ work[w].pc = "settleWrite"
  /\ row' = Settlement(work[w].then)
  /\ work' = [work EXCEPT ![w] = Idle]
  /\ UNCHANGED <<routed, inbound, closed, chat, counters>>

\* The claim that reaches the limit is the last.
Exhausted(w) == work[w].attempts >= MaxAttempts

RetryRead(w) ==
  /\ work[w].pc = "retry"
  /\ IF Exhausted(w) THEN Settle(w, "FAILED")
     ELSE IF Claimed(w) THEN Goto(w, "retryWrite") ELSE work' = [work EXCEPT ![w] = Idle]
  /\ UNCHANGED <<row, routed, inbound, closed, chat, counters>>

RetryWrite(w) ==
  /\ work[w].pc = "retryWrite"
  /\ row' = [row EXCEPT !.due = FALSE, !.owner = Nobody, !.live = FALSE]
  /\ work' = [work EXCEPT ![w] = Idle]
  /\ UNCHANGED <<routed, inbound, closed, chat, counters>>

Crash(w) ==
  /\ work[w].pc # "idle"
  /\ crashes < MaxCrashes
  /\ crashes' = crashes + 1
  /\ work' = [work EXCEPT ![w] = Idle]
  /\ UNCHANGED <<row, routed, inbound, closed, chat, lapses>>

-----------------------------------------------------------------------------
(* Time, the chat and the owner *)

BecomeDue ==
  /\ ~row.due
  /\ row' = [row EXCEPT !.due = TRUE]
  /\ UNCHANGED <<routed, inbound, closed, work, chat, counters>>

\* The worker that holds the claim is still at it.
AtWork == \E w \in Worker : row.owner = w /\ work[w].pc # "idle"

\* claimed_until passes; for a worker still at work this is a lapse.
ClaimLapses ==
  /\ row.live
  /\ AtWork => lapses < MaxLapses
  /\ lapses' = IF AtWork THEN lapses + 1 ELSE lapses
  /\ row' = [row EXCEPT !.live = FALSE]
  /\ UNCHANGED <<routed, inbound, closed, work, chat, crashes>>

\* The chat writes again.
ChatWrites ==
  /\ inbound < MaxInbound
  /\ inbound' = inbound + 1
  /\ UNCHANGED <<row, routed, closed, work, chat, counters>>

\* Messages of the chat grow too old for free text.
WindowCloses ==
  /\ HasTemplates
  /\ closed' \in (closed + 1)..inbound
  /\ UNCHANGED <<row, routed, inbound, work, chat, counters>>

\* The pairing is revoked.
Unpair ==
  /\ routed
  /\ routed' = FALSE
  /\ UNCHANGED <<row, inbound, closed, work, chat, counters>>

Step(w) ==
  \/ Claim(w) \/ Load(w) \/ Choose(w) \/ Send(w) \/ SendTemplate(w)
  \/ RecordRead(w) \/ RecordWrite(w)
  \/ SettleRead(w) \/ SettleWrite(w)
  \/ RetryRead(w) \/ RetryWrite(w)

Next ==
  \/ \E w \in Worker : Step(w) \/ Crash(w)
  \/ BecomeDue \/ ClaimLapses \/ ChatWrites \/ WindowCloses \/ Unpair

Spec == Init /\ [][Next]_vars

\* Every worker polls and goes on, and time passes.
FairSpec ==
  /\ Spec
  /\ \A w \in Worker : WF_vars(Step(w))
  /\ WF_vars(BecomeDue) /\ WF_vars(ClaimLapses)

-----------------------------------------------------------------------------
(* Properties *)

\* The parts of the reply that the chat has, as text or as a template in its place.
Received == {chat[i].part : i \in 1..Len(chat)}

\* Unless a claim ran out under its worker, nothing of the reply is passed over: a
\* chunk, or the template in its place, arrives only after those before it, and a
\* reply is settled as dispatched only when each of its chunks has arrived so, or the
\* template for the whole.  And it is the text that arrives as long as no message of
\* the chat grew too old.  (the slice of _dispatch, record_chunk, settle and the two
\* looks at the window, across claims, crashes and answers of the chat.)
ReplyArrivesWhole ==
  /\ lapses = 0 =>
       /\ \A i \in 1..Len(chat) :
            chat[i].part > 1 => \E j \in 1..(i - 1) : chat[j].part = chat[i].part - 1
       /\ row.status = "DISPATCHED" => 1..Chunks \subseteq Received \/ Whole \in Received
  /\ closed = 0 => \A i \in 1..Len(chat) : chat[i].form = "text"

\* A part of the reply reaches the chat twice, as text or as a template in its place,
\* only because two claims sent it: the claims, not the crashes and lost answers
\* within them, bound the copies, also when a claim is taken over from a worker that
\* goes on.  (_dispatch, claim_due.)  The template has no text of its own: a claim
\* whose window closes sends it once for every chunk that is left.
OneCopyPerClaim ==
  \A c \in 0..Chunks : Cardinality({i \in 1..Len(chat) : chat[i].part = c}) <= row.attempts

\* A reply comes to an end.  (retry, lease and reply_max_attempts together.)
ReplyIsSettled == <>(row.status # "PENDING")
=============================================================================
