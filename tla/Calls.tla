------------------------------- MODULE Calls -------------------------------
(***************************************************************************)
(* Outbound telephone calls (application/calling.py).  A run asks for a    *)
(* call with its tool invocation's id as key.  The service reserves a      *)
(* dispatch row before it dials, dials at the provider, and records the    *)
(* answer; the provider's own view of the call comes back through a        *)
(* callback or a scan, a receipt, and a reconciler that asks the provider  *)
(* and merges what it says.  Every transaction on the ledger holds the     *)
(* owner's advisory lock and is one action; a dial and a provider read lie *)
(* between transactions.                                                   *)
(***************************************************************************)
EXTENDS Naturals, FiniteSets

CONSTANTS
  Invocation,     \* keys of the calls: tool invocation ids
  Worker,         \* executions that may place calls
  Reconciler,     \* processes that run reconcile
  NoCall,         \* the key of a process that is at no call
  MaxCrashes      \* bound: crashes of workers and reconcilers

ASSUME CallsAssumption ==
  /\ IsFiniteSet(Invocation) /\ NoCall \notin Invocation
  /\ MaxCrashes \in Nat

VARIABLES
  dispatch,       \* the dispatch row of each call: status and active
  provider,       \* what the provider knows of each call
  work,           \* what each worker is doing
  receipt,        \* the receipt of each call; neither "done" nor "dropped" is active
  record,         \* the call row: "none" or the last view accepted
  view,           \* what each reconciler has read and not yet applied
  dialed,         \* how often each call reached the provider (history)
  crashes

callVars == <<dispatch, provider, work, receipt, record, view, dialed, crashes>>

\* A call can be over before the provider has its summary and transcript.
Bare == "completed_bare"
Ended == {"no_answer", Bare, "completed"}

\* The status that the provider's view of a call stands for.
StatusOf(v) == IF v = Bare THEN "completed" ELSE IF v = "ringing" THEN "active" ELSE v

InFlightStatus == {"uncertain", "accepted", "active"}
Settled == {"completed", "no_answer", "not_dispatched"}

IdleWork == [pc |-> "idle", key |-> NoCall]
NoView == [key |-> NoCall, saw |-> "none"]
Receipts == {"none", "active", "done", "dropped"}
Views == {"none", "ringing", "invalid"} \cup Ended

CallsTypeOK ==
  /\ dispatch \in [Invocation -> [status: {"none"} \cup InFlightStatus \cup Settled, active: BOOLEAN]]
  /\ provider \in [Invocation -> {"none", "ringing"} \cup Ended]
  /\ work \in [Worker -> [pc: {"idle", "reserved", "accepted", "refused"}, key: Invocation \cup {NoCall}]]
  /\ receipt \in [Invocation -> Receipts]
  /\ record \in [Invocation -> {"none", "ringing", "erased"} \cup Ended]
  /\ view \in [Reconciler -> [key: Invocation \cup {NoCall}, saw: Views]]
  /\ dialed \in [Invocation -> Nat] /\ crashes \in 0..MaxCrashes
  /\ \A k \in Invocation : dispatch[k].active <=> dispatch[k].status \in InFlightStatus

CallsInit ==
  /\ dispatch = [k \in Invocation |-> [status |-> "none", active |-> FALSE]]
  /\ provider = [k \in Invocation |-> "none"]
  /\ work = [w \in Worker |-> IdleWork]
  /\ receipt = [k \in Invocation |-> "none"]
  /\ record = [k \in Invocation |-> "none"]
  /\ view = [r \in Reconciler |-> NoView]
  /\ dialed = [k \in Invocation |-> 0] /\ crashes = 0

----------------------------------------------------------------------------
(* invoke *)

At(w, pc) == work[w].pc = pc
Key(w) == work[w].key

Row(status) == [status |-> status, active |-> status \in InFlightStatus]

\* Slip: a reservation without an answer may be taken again.
FreeOrUnanswered(k) ==
  /\ dispatch[k].status \in {"none", "uncertain"}
  /\ \A j \in Invocation \ {k} : ~dispatch[j].active

\* Slip: only a call the provider has accepted keeps the line busy.
FreeUnlessAccepted(k) ==
  /\ dispatch[k].status = "none"
  /\ \A j \in Invocation : dispatch[j].status \notin {"accepted", "active"}

\* No earlier dispatch with this key, and no active one with any.
Free(k) ==
  /\ dispatch[k].status = "none"
  /\ \A j \in Invocation : ~dispatch[j].active

\* Otherwise the earlier answer, "outcome unknown" or "busy" is returned.
Reserve(w, k) ==
  /\ At(w, "idle") /\ Free(k)
  /\ dispatch' = [dispatch EXCEPT ![k] = Row("uncertain")]
  /\ work' = [work EXCEPT ![w] = [pc |-> "reserved", key |-> k]]
  /\ UNCHANGED <<provider, receipt, record, view, dialed, crashes>>

\* The run is cancelled, or the effect watermark cannot be written.
Withdraw(w) ==
  /\ At(w, "reserved")
  /\ dispatch' = [dispatch EXCEPT ![Key(w)] = Row("not_dispatched")]
  /\ work' = [work EXCEPT ![w] = IdleWork]
  /\ UNCHANGED <<provider, receipt, record, view, dialed, crashes>>

\* Slip: an answer that is lost is taken for a refusal.
DialLostIsRefused(w) ==
  /\ At(w, "reserved")
  /\ provider' = [provider EXCEPT ![Key(w)] = "ringing"]
  /\ dialed' = [dialed EXCEPT ![Key(w)] = @ + 1]
  /\ \E pc \in {"accepted", "refused"} : work' = [work EXCEPT ![w].pc = pc]
  /\ UNCHANGED <<dispatch, receipt, record, view, crashes>>

\* The provider places the call; its answer arrives, or is lost or malformed.
Dial(w) ==
  /\ At(w, "reserved")
  /\ provider' = [provider EXCEPT ![Key(w)] = "ringing"]
  /\ dialed' = [dialed EXCEPT ![Key(w)] = @ + 1]
  /\ \E answer \in {[work[w] EXCEPT !.pc = "accepted"], IdleWork} :
       work' = [work EXCEPT ![w] = answer]
  /\ UNCHANGED <<dispatch, receipt, record, view, crashes>>

\* The provider places no call; it says so (not_applied), or nobody hears it.
DialFails(w) ==
  /\ At(w, "reserved")
  /\ \E answer \in {[work[w] EXCEPT !.pc = "refused"], IdleWork} :
       work' = [work EXCEPT ![w] = answer]
  /\ UNCHANGED <<dispatch, provider, receipt, record, view, dialed, crashes>>

Enqueued(k) == IF receipt[k] = "none" THEN [receipt EXCEPT ![k] = "active"] ELSE receipt

\* Slip: the answer of the dial is the last word.
StillOpenAlways(k) == TRUE

\* The reconciler may have recorded the call before its dial returned.
StillOpen(k) == dispatch[k].status \in {"uncertain", "accepted"}

RecordAccepted(w) ==
  /\ At(w, "accepted")
  /\ IF StillOpen(Key(w))
     THEN /\ dispatch' = [dispatch EXCEPT ![Key(w)] = Row("accepted")]
          /\ receipt' = Enqueued(Key(w))
     ELSE UNCHANGED <<dispatch, receipt>>
  /\ work' = [work EXCEPT ![w] = IdleWork]
  /\ UNCHANGED <<provider, record, view, dialed, crashes>>

RecordRefused(w) ==
  /\ At(w, "refused")
  /\ dispatch' = [dispatch EXCEPT ![Key(w)] = Row("not_dispatched")]
  /\ work' = [work EXCEPT ![w] = IdleWork]
  /\ UNCHANGED <<provider, receipt, record, view, dialed, crashes>>

WorkerCrashes(w) ==
  /\ ~At(w, "idle") /\ crashes < MaxCrashes
  /\ crashes' = crashes + 1
  /\ work' = [work EXCEPT ![w] = IdleWork]
  /\ UNCHANGED <<dispatch, provider, receipt, record, view, dialed>>

----------------------------------------------------------------------------
(* The provider, and reconcile *)

\* The call is answered or not, or stopped at the owner's request (_cancel_requested).
CallEnds(k) ==
  /\ provider[k] = "ringing"
  /\ \E v \in Ended : provider' = [provider EXCEPT ![k] = v]
  /\ UNCHANGED <<dispatch, work, receipt, record, view, dialed, crashes>>

ContentArrives(k) ==
  /\ provider[k] = Bare
  /\ provider' = [provider EXCEPT ![k] = "completed"]
  /\ UNCHANGED <<dispatch, work, receipt, record, view, dialed, crashes>>

\* A callback (receive) or a page of the provider's list (_scan) names the call.
LearnOf(k) ==
  /\ provider[k] # "none"
  /\ receipt[k] = "none"
  /\ receipt' = Enqueued(k)
  /\ UNCHANGED <<dispatch, provider, work, record, view, dialed, crashes>>

\* The provider answers with what it knows of the call, or with what is taken
\* for no answer about it: malformed, of another number, too old, or of a
\* dispatch that is missing or for another account or recipient.
Fetch(r, k) ==
  /\ view[r] = NoView
  /\ receipt[k] = "active"
  /\ \E saw \in {provider[k], "invalid"} : view' = [view EXCEPT ![r] = [key |-> k, saw |-> saw]]
  /\ UNCHANGED <<dispatch, provider, work, receipt, record, dialed, crashes>>

\* An active receipt is closed without a result; a closed one stays closed.
Dropped(k) == IF receipt[k] = "active" THEN [receipt EXCEPT ![k] = "dropped"] ELSE receipt

\* A failed read of the provider postpones the receipt, until it is older than
\* the retention time and nobody asks for the call any more (_retry).
Retry(k) ==
  /\ receipt[k] = "active"
  /\ receipt' = Dropped(k)
  /\ UNCHANGED <<dispatch, provider, work, record, view, dialed, crashes>>

\* One answer that is not about the call closes its receipt; the dispatch row
\* is left as it is.
Reject(r) ==
  /\ view[r].saw = "invalid"
  /\ receipt' = Dropped(view[r].key)
  /\ view' = [view EXCEPT ![r] = NoView]
  /\ UNCHANGED <<dispatch, provider, work, record, dialed, crashes>>

\* Slip: the latest answer replaces an earlier one.
MergedBlindly(old, saw) == saw

\* A terminal record takes only content that had not arrived.
Merged(old, saw) ==
  IF old \in {"none", "ringing"} THEN saw
  ELSE IF old = Bare /\ saw = "completed" THEN saw
  ELSE old

\* A terminal record with its content, and a tombstone, take nothing any more.
Final(old) == old \in {"no_answer", "completed", "erased"}

Apply(r) ==
  LET k == view[r].key
      new == Merged(record[k], view[r].saw) IN
  /\ view[r] # NoView /\ view[r].saw # "invalid"
  /\ IF Final(record[k])
     THEN UNCHANGED <<record, receipt, dispatch>>
     ELSE /\ record' = [record EXCEPT ![k] = new]
          /\ receipt' = [receipt EXCEPT ![k] = IF new \in {"ringing", Bare}
                                               THEN "active" ELSE "done"]
          /\ dispatch' = [dispatch EXCEPT ![k] = Row(StatusOf(new))]
  /\ view' = [view EXCEPT ![r] = NoView]
  /\ UNCHANGED <<provider, work, dialed, crashes>>

ReconcilerCrashes(r) ==
  /\ view[r] # NoView /\ crashes < MaxCrashes
  /\ crashes' = crashes + 1
  /\ view' = [view EXCEPT ![r] = NoView]
  /\ UNCHANGED <<dispatch, provider, work, receipt, record, dialed>>

\* delete, asked for by the owner or by the retention sweep (expire)
Erase(k) ==
  /\ record[k] \in Ended
  /\ record' = [record EXCEPT ![k] = "erased"]
  /\ receipt' = [receipt EXCEPT ![k] = "done"]
  /\ UNCHANGED <<dispatch, provider, work, view, dialed, crashes>>

WorkerStep(w) ==
  \/ Withdraw(w) \/ Dial(w) \/ DialFails(w)
  \/ RecordAccepted(w) \/ RecordRefused(w) \/ WorkerCrashes(w)

ReconcileStep ==
  \/ \E k \in Invocation : CallEnds(k) \/ ContentArrives(k) \/ LearnOf(k) \/ Retry(k)
  \/ \E r \in Reconciler : \/ Apply(r) \/ Reject(r) \/ ReconcilerCrashes(r)
                          \/ \E k \in Invocation : Fetch(r, k)

CallsNext ==
  \/ \E w \in Worker : WorkerStep(w) \/ \E k \in Invocation : Reserve(w, k)
  \/ ReconcileStep
  \/ \E k \in Invocation : Erase(k)

CallsSpec == CallsInit /\ [][CallsNext]_callVars

\* Calls end, the provider tells of them, and a reconciler works through the
\* receipts and can read the provider; that its answers are valid is not assumed.
CallsFair ==
  \A k \in Invocation :
    /\ WF_callVars(CallEnds(k))
    /\ WF_callVars(ContentArrives(k))
    /\ WF_callVars(LearnOf(k))
    /\ SF_callVars(\E r \in Reconciler : Fetch(r, k))
    /\ WF_callVars(\E r \in Reconciler : view[r].key = k /\ (Apply(r) \/ Reject(r)))

CallsFairSpec == CallsSpec /\ CallsFair

----------------------------------------------------------------------------
(* What the readers of the ledger rely on *)

Ledger == INSTANCE CallLedger WITH
  Call <- Invocation,
  ledger <- [k \in Invocation |-> IF dispatch[k].active THEN "open" ELSE dispatch[k].status],
  truth <- [k \in Invocation |-> IF provider[k] = Bare THEN "completed" ELSE provider[k]]

\* The ledger promises what CallLedger says, whatever crashes, is lost or comes
\* late: one entry per call, one open entry, closed only with what happened.
ImplementsLedger == Ledger!LedgerSpec

----------------------------------------------------------------------------
(* Properties *)

\* One outbound call at a time: the reservation admits the next call only when
\* the provider has ended the last one, whatever the crash, the lost answer or
\* the order of the answers (invoke, reconcile).
OneCallAtATime == Cardinality({k \in Invocation : provider[k] = "ringing"}) <= 1

\* A call is never dialed again: not after a lost answer, and not when its run
\* is executed again after a crash (the reservation in invoke).
NeverRedials == \A k \in Invocation : dialed[k] <= 1

\* No answer that comes late or twice undoes a result, brings back erased
\* content or overwrites accepted content (invoke, reconcile, delete).
ResultsAreFinal ==
  [][\A k \in Invocation :
       /\ dispatch[k].status \in Settled => dispatch'[k] = dispatch[k]
       /\ record[k] = "erased" => record'[k] = "erased"
       /\ record[k] \in {"no_answer", "completed"} => record'[k] \in {record[k], "erased"}]_callVars

\* A call that reached the provider gives the line free again for good, also when the
\* worker that dialed it never recorded anything (_scan, reconcile), unless its receipt
\* is dropped, for an answer that is rejected or for its age: the one way in which the
\* line stays taken.
ReachedCallIsReleased ==
  \A k \in Invocation :
    provider[k] = "ringing" ~> [](~dispatch[k].active \/ receipt[k] = "dropped")
=============================================================================
