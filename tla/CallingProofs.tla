--------------------------- MODULE CallingProofs ---------------------------
(***************************************************************************)
(* Proofs about calling.  The first part is about Calls, for any set of    *)
(* calls, workers and reconcilers and any number of crashes: one call at a *)
(* time, none dialed twice, results that stay, and the refinement of       *)
(* CallLedger.  It uses no assumption but that of Calls.                   *)
(*                                                                         *)
(* The second part is about CallPlans, which is built on CallLedger, for   *)
(* any times, retry window, follow-up, grace and failure limit.  A plan is *)
(* a first call and retries, then at most one follow-up, then at most one  *)
(* report; the one step that may be recorded ahead is justified by what    *)
(* the ledger has closed, and a closed entry never changes.                *)
(***************************************************************************)
EXTENDS Calls, CallPlans, FiniteSetTheorems, TLAPS

\* A worker that is at a call holds a key of its own, and until it has an answer
\* from the provider the row is still the reservation it made.
WorkersHoldTheirCall ==
  \A w \in Worker :
    /\ At(w, "idle") => Key(w) = NoCall
    /\ ~At(w, "idle") => Key(w) \in Invocation
    /\ At(w, "reserved") \/ At(w, "refused")
         => dispatch[Key(w)].status = "uncertain" /\ provider[Key(w)] = "none"
    /\ At(w, "accepted") => provider[Key(w)] # "none"

KeysAreApart == \A v, w \in Worker : Key(v) \in Invocation /\ Key(v) = Key(w) => v = w

\* The provider knows exactly the calls that were dialed, and the rows that claim
\* or deny an answer are right about it.
DialedOnceIfReached ==
  \A k \in Invocation :
    /\ dialed[k] = (IF provider[k] = "none" THEN 0 ELSE 1)
    /\ dispatch[k].status \in {"none", "not_dispatched"} => provider[k] = "none"
    /\ dispatch[k].status \in {"accepted", "active"} => provider[k] # "none"
    /\ receipt[k] # "none" \/ record[k] # "none" => provider[k] # "none"

\* One active row, and it is the row of the call that rings.
LineIsHeld ==
  /\ \A j, k \in Invocation : dispatch[j].active /\ dispatch[k].active => j = k
  /\ \A k \in Invocation : provider[k] = "ringing" => dispatch[k].active

\* What is said of the end of a call agrees with what the provider says.
True(k, v) == v \in Ended => provider[k] \in Ended /\ StatusOf(v) = StatusOf(provider[k])

ViewsAreTrue ==
  \A r \in Reconciler :
    \/ view[r] = NoView
    \/ /\ view[r].key \in Invocation
       /\ view[r].saw # "none"
       /\ provider[view[r].key] # "none"
       /\ True(view[r].key, view[r].saw)

\* A row is closed with a result exactly when a result, or its tombstone, is on record.
RowMatchesRecord ==
  \A k \in Invocation :
    /\ True(k, record[k])
    /\ record[k] \in Ended => dispatch[k].status = StatusOf(record[k])
    /\ record[k] = "erased" =>
         provider[k] \in Ended /\ dispatch[k].status = StatusOf(provider[k])
    /\ record[k] \in {"none", "ringing"} => dispatch[k].status \notin {"completed", "no_answer"}

\* The inductive invariant.
CallsInv ==
  /\ CallsTypeOK
  /\ WorkersHoldTheirCall
  /\ KeysAreApart
  /\ DialedOnceIfReached
  /\ LineIsHeld
  /\ ViewsAreTrue
  /\ RowMatchesRecord

-----------------------------------------------------------------------------
\* Calling starts with no call, in a state of the invariant.
LEMMA CallsInvInit == CallsInit => CallsInv
  BY CallsAssumption
     DEF CallsInit, CallsInv, CallsTypeOK, WorkersHoldTheirCall, KeysAreApart, DialedOnceIfReached,
         LineIsHeld, ViewsAreTrue, RowMatchesRecord, True, At, Key, IdleWork, NoView, InFlightStatus,
         Receipts, Views,
         Settled, Ended, Bare

Status == {"none"} \cup InFlightStatus \cup Settled

\* A row written with a status has it, and is active exactly when it is in flight.
LEMMA RowFacts ==
  ASSUME NEW s \in Status
  PROVE  /\ Row(s) \in [status: Status, active: BOOLEAN]
         /\ Row(s).status = s
         /\ Row(s).active <=> s \in InFlightStatus
<1>1. (s \in InFlightStatus) \in BOOLEAN
  OBVIOUS
<1>2. Row(s).status = s /\ (Row(s).active <=> s \in InFlightStatus)
  BY Zenon DEF Row
<1>3. Row(s) \in [status: Status, active: BOOLEAN]
  BY <1>1, Zenon DEF Row
<1> QED BY <1>2, <1>3

\* Writing a row changes that row alone, and keeps the type of the rows.
LEMMA RowWritten ==
  ASSUME CallsTypeOK, NEW k \in Invocation, NEW s \in Status,
         dispatch' = [dispatch EXCEPT ![k] = Row(s)]
  PROVE  /\ dispatch' \in [Invocation -> [status: Status, active: BOOLEAN]]
         /\ \A j \in Invocation : dispatch'[j].active <=> dispatch'[j].status \in InFlightStatus
         /\ \A j \in Invocation \ {k} : dispatch'[j] = dispatch[j]
         /\ dispatch'[k].status = s
         /\ dispatch'[k].active <=> s \in InFlightStatus
<1> USE RowFacts
<1>1. dispatch \in [Invocation -> [status: Status, active: BOOLEAN]]
  BY DEF CallsTypeOK, Status
<1>2. /\ dispatch'[k] = Row(s)
      /\ \A j \in Invocation \ {k} : dispatch'[j] = dispatch[j]
  BY <1>1
<1>3. \A j \in Invocation : dispatch'[j].active <=> dispatch'[j].status \in InFlightStatus
  <2> TAKE j \in Invocation
  <2>1. CASE j = k BY <2>1, <1>2
  <2>2. CASE j # k BY <2>2, <1>2 DEF CallsTypeOK
  <2> QED BY <2>1, <2>2
<1> QED BY <1>1, <1>2, <1>3

\* Entering a receipt for a call keeps the one that is there.
LEMMA EnqueuedFacts ==
  ASSUME CallsTypeOK, NEW k \in Invocation
  PROVE  /\ Enqueued(k) \in [Invocation -> Receipts]
         /\ \A j \in Invocation : Enqueued(k)[j] = "none" <=> receipt[j] = "none" /\ j # k
  BY DEF CallsTypeOK, Enqueued, Receipts

\* What a reconciler applies: nothing to a final record, and otherwise a view of a
\* call that has reached the provider, which agrees with the provider.
Applied(r, k, new, rc) ==
  /\ provider[k] # "none"
  /\ \/ UNCHANGED <<record, receipt, dispatch>>
     \/ /\ record[k] \in {"none", "ringing", Bare}
        /\ record[k] = Bare => new \in {Bare, "completed"}
        /\ True(k, new)
        /\ record' = [record EXCEPT ![k] = new]
        /\ receipt' = [receipt EXCEPT ![k] = rc]
        /\ dispatch' = [dispatch EXCEPT ![k] = Row(StatusOf(new))]
  /\ view' = [view EXCEPT ![r] = NoView]
  /\ UNCHANGED <<provider, work, dialed, crashes>>

\* Every application of a view is of that form.
LEMMA ApplyFacts ==
  ASSUME CallsInv, NEW r \in Reconciler, Apply(r)
  PROVE  \E k \in Invocation, new \in {"ringing"} \cup Ended, rc \in {"active", "done"} :
           Applied(r, k, new, rc)
<1> DEFINE k == view[r].key
           new == Merged(record[k], view[r].saw)
<1>1. /\ k \in Invocation /\ provider[k] # "none"
      /\ view[r].saw \in {"ringing"} \cup Ended /\ True(k, view[r].saw)
  BY DEF Apply, CallsInv, CallsTypeOK, ViewsAreTrue, Views
<1>2. record[k] \in {"none", "ringing", "erased"} \cup Ended /\ True(k, record[k])
  BY <1>1 DEF CallsInv, CallsTypeOK, RowMatchesRecord
<1>3. CASE Final(record[k])
  <2>1. /\ UNCHANGED <<record, receipt, dispatch>>
        /\ view' = [view EXCEPT ![r] = NoView]
        /\ UNCHANGED <<provider, work, dialed, crashes>>
    BY <1>3 DEF Apply
  <2> QED BY <1>1, <2>1 DEF Applied
<1>4. CASE ~Final(record[k])
  <2>1. /\ record[k] \in {"none", "ringing", Bare}
        /\ record[k] = Bare => new \in {Bare, "completed"}
        /\ new \in {"ringing"} \cup Ended
        /\ True(k, new)
    BY <1>1, <1>2, <1>4 DEF Final, Merged, Ended, Bare
  <2>2. /\ record' = [record EXCEPT ![k] = new]
        /\ receipt' = [receipt EXCEPT ![k] = IF new \in {"ringing", Bare} THEN "active" ELSE "done"]
        /\ dispatch' = [dispatch EXCEPT ![k] = Row(StatusOf(new))]
        /\ view' = [view EXCEPT ![r] = NoView]
        /\ UNCHANGED <<provider, work, dialed, crashes>>
    BY <1>4 DEF Apply
  <2> HIDE DEF k, new
  <2>3. \E rc \in {"active", "done"} : receipt' = [receipt EXCEPT ![k] = rc]
    BY <2>2
  <2> QED BY <1>1, <2>1, <2>2, <2>3 DEF Applied
<1> QED BY <1>3, <1>4

\* Every step keeps types: in particular a row is active exactly while its status
\* is in flight.
LEMMA CallsTypeStep == CallsInv /\ [CallsNext]_callVars => CallsTypeOK'
<1> SUFFICES ASSUME CallsInv, [CallsNext]_callVars PROVE CallsTypeOK'
  OBVIOUS
<1> USE CallsAssumption
    DEF CallsInv, CallsTypeOK, WorkersHoldTheirCall, At, Key, IdleWork, NoView, Status,
        InFlightStatus, Settled, Ended, Bare, Receipts, Views
<1>1. ASSUME NEW w \in Worker, NEW k \in Invocation, Reserve(w, k) PROVE CallsTypeOK'
  BY <1>1, RowWritten DEF Reserve
<1>2. ASSUME NEW w \in Worker, Withdraw(w) PROVE CallsTypeOK'
  BY <1>2, RowWritten DEF Withdraw
<1>3. ASSUME NEW w \in Worker, Dial(w) PROVE CallsTypeOK'
  <2>1. PICK answer \in {[work[w] EXCEPT !.pc = "accepted"], IdleWork} :
               work' = [work EXCEPT ![w] = answer]
    BY <1>3 DEF Dial
  <2>2. answer \in [pc: {"idle", "reserved", "accepted", "refused"}, key: Invocation \cup {NoCall}]
    OBVIOUS
  <2> QED BY <1>3, <2>1, <2>2 DEF Dial
<1>4. ASSUME NEW w \in Worker, DialFails(w) PROVE CallsTypeOK'
  BY <1>4 DEF DialFails
<1>5. ASSUME NEW w \in Worker, RecordAccepted(w) PROVE CallsTypeOK'
  <2>1. CASE StillOpen(Key(w))
    <3>1. Key(w) \in Invocation BY <1>5 DEF RecordAccepted
    <3>2. receipt' \in [Invocation -> Receipts]
      BY <1>5, <2>1, <3>1, EnqueuedFacts DEF RecordAccepted
    <3>3. /\ dispatch' \in [Invocation -> [status: Status, active: BOOLEAN]]
          /\ \A j \in Invocation : dispatch'[j].active <=> dispatch'[j].status \in InFlightStatus
      BY <1>5, <2>1, <3>1, RowWritten DEF RecordAccepted
    <3> QED BY <1>5, <3>2, <3>3 DEF RecordAccepted
  <2>2. CASE ~StillOpen(Key(w)) BY <1>5, <2>2 DEF RecordAccepted
  <2> QED BY <2>1, <2>2
<1>6. ASSUME NEW w \in Worker, RecordRefused(w) PROVE CallsTypeOK'
  BY <1>6, RowWritten DEF RecordRefused
<1>7. ASSUME NEW w \in Worker, WorkerCrashes(w) PROVE CallsTypeOK'
  BY <1>7 DEF WorkerCrashes
<1>8. ASSUME NEW k \in Invocation, CallEnds(k) \/ ContentArrives(k) PROVE CallsTypeOK'
  <2>1. CASE CallEnds(k) BY <2>1 DEF CallEnds
  <2>2. CASE ContentArrives(k) BY <2>2 DEF ContentArrives
  <2> QED BY <1>8, <2>1, <2>2
<1>13. ASSUME NEW k \in Invocation, LearnOf(k) \/ Erase(k) PROVE CallsTypeOK'
  <2>1. CASE LearnOf(k) BY <2>1, EnqueuedFacts DEF LearnOf
  <2>2. CASE Erase(k) BY <2>2 DEF Erase
  <2> QED BY <1>13, <2>1, <2>2
<1>9. ASSUME NEW r \in Reconciler, NEW k \in Invocation, Fetch(r, k) PROVE CallsTypeOK'
  <2>1. PICK saw \in {provider[k], "invalid"} : view' = [view EXCEPT ![r] = [key |-> k, saw |-> saw]]
    BY <1>9 DEF Fetch
  <2>2. [key |-> k, saw |-> saw] \in [key: Invocation \cup {NoCall}, saw: Views]
    OBVIOUS
  <2>3. view' \in [Reconciler -> [key: Invocation \cup {NoCall}, saw: Views]]
    BY <2>1, <2>2
  <2> QED BY <1>9, <2>3 DEF Fetch
<1>10. ASSUME NEW r \in Reconciler, Apply(r) PROVE CallsTypeOK'
  <2>1. PICK k \in Invocation, new \in {"ringing"} \cup Ended, rc \in {"active", "done"} :
               Applied(r, k, new, rc)
    BY <1>10, ApplyFacts
  <2>2. StatusOf(new) \in Status
    BY DEF StatusOf
  <2>3. /\ dispatch' \in [Invocation -> [status: Status, active: BOOLEAN]]
        /\ \A j \in Invocation : dispatch'[j].active <=> dispatch'[j].status \in InFlightStatus
    <3>1. CASE UNCHANGED dispatch BY <3>1
    <3>2. CASE dispatch' = [dispatch EXCEPT ![k] = Row(StatusOf(new))]
      BY <2>2, <3>2, RowWritten
    <3> QED BY <2>1, <3>1, <3>2 DEF Applied
  <2>4. /\ record' \in [Invocation -> {"none", "ringing", "erased"} \cup Ended]
        /\ receipt' \in [Invocation -> Receipts]
    <3>1. CASE UNCHANGED <<record, receipt>> BY <3>1
    <3>2. CASE /\ record' = [record EXCEPT ![k] = new]
               /\ receipt' = [receipt EXCEPT ![k] = rc]
      BY <3>2
    <3> QED BY <2>1, <3>1, <3>2 DEF Applied
  <2> QED BY <2>1, <2>3, <2>4 DEF Applied
<1>11. ASSUME NEW r \in Reconciler, ReconcilerCrashes(r) PROVE CallsTypeOK'
  BY <1>11 DEF ReconcilerCrashes
<1>12. CASE UNCHANGED callVars BY <1>12 DEF callVars
<1>14. ASSUME NEW k \in Invocation, Retry(k) PROVE CallsTypeOK'
  BY <1>14 DEF Retry, Dropped
<1>15. ASSUME NEW r \in Reconciler, Reject(r) PROVE CallsTypeOK'
  BY <1>15 DEF Reject, Dropped
<1> QED
  BY <1>1, <1>2, <1>3, <1>4, <1>5, <1>6, <1>7, <1>8, <1>9, <1>10, <1>11, <1>12,
     <1>13, <1>14, <1>15
     DEF CallsNext, WorkerStep, ReconcileStep

\* A worker keeps its call until it has an answer or gives up, and only it moves
\* the row before the provider knows of the call.
LEMMA WorkersStep ==
  CallsInv /\ [CallsNext]_callVars => (WorkersHoldTheirCall /\ KeysAreApart)'
<1> SUFFICES ASSUME CallsInv, [CallsNext]_callVars
             PROVE  (WorkersHoldTheirCall /\ KeysAreApart)'
  OBVIOUS
<1> USE CallsAssumption DEF CallsInv, WorkersHoldTheirCall, KeysAreApart, At, Key
<1>0. /\ work \in [Worker -> [pc: {"idle", "reserved", "accepted", "refused"}, key: Invocation \cup {NoCall}]]
      /\ provider \in [Invocation -> {"none", "ringing"} \cup Ended]
      /\ dispatch \in [Invocation -> [status: Status, active: BOOLEAN]]
      /\ view \in [Reconciler -> [key: Invocation \cup {NoCall}, saw: Views]]
  BY DEF CallsTypeOK, Status
<1>a. \A w \in Worker : Key(w) \in Invocation => dispatch[Key(w)].status # "none"
  BY <1>0 DEF DialedOnceIfReached
<1>1. ASSUME NEW w \in Worker, NEW k \in Invocation, Reserve(w, k)
      PROVE (WorkersHoldTheirCall /\ KeysAreApart)'
  <2>1. /\ dispatch[k].status = "none" /\ provider[k] = "none"
        /\ \A v \in Worker : Key(v) # k
        /\ work' = [work EXCEPT ![w] = [pc |-> "reserved", key |-> k]] /\ UNCHANGED provider
    BY <1>1, <1>a DEF Reserve, Free, DialedOnceIfReached
  <2>2. /\ dispatch'[k].status = "uncertain"
        /\ \A j \in Invocation \ {k} : dispatch'[j] = dispatch[j]
    BY <1>1, RowWritten DEF Reserve, Status, InFlightStatus
  <2>3. /\ work'[w] = [pc |-> "reserved", key |-> k]
        /\ \A v \in Worker \ {w} : work'[v] = work[v]
    BY <1>0, <2>1
  <2>4. KeysAreApart' BY <2>1, <2>3
  <2>5. WorkersHoldTheirCall' BY <2>1, <2>2, <2>3
  <2> QED BY <2>4, <2>5
<1>2. ASSUME NEW w \in Worker, Withdraw(w) PROVE (WorkersHoldTheirCall /\ KeysAreApart)'
  BY <1>0, <1>2, RowWritten DEF Withdraw, IdleWork, Status, Settled
<1>3. ASSUME NEW w \in Worker, Dial(w) PROVE (WorkersHoldTheirCall /\ KeysAreApart)'
  BY <1>0, <1>3 DEF Dial, IdleWork
<1>4. ASSUME NEW w \in Worker, DialFails(w) PROVE (WorkersHoldTheirCall /\ KeysAreApart)'
  BY <1>0, <1>4 DEF DialFails, IdleWork
<1>5. ASSUME NEW w \in Worker, RecordAccepted(w) PROVE (WorkersHoldTheirCall /\ KeysAreApart)'
  <2>1. CASE StillOpen(Key(w))
    BY <1>0, <1>5, <2>1, RowWritten DEF RecordAccepted, IdleWork, Status, InFlightStatus
  <2>2. CASE ~StillOpen(Key(w))
    BY <1>0, <1>5, <2>2 DEF RecordAccepted, IdleWork
  <2> QED BY <2>1, <2>2
<1>6. ASSUME NEW w \in Worker, RecordRefused(w) PROVE (WorkersHoldTheirCall /\ KeysAreApart)'
  BY <1>0, <1>6, RowWritten DEF RecordRefused, IdleWork, Status, Settled
<1>7. ASSUME NEW w \in Worker, WorkerCrashes(w) PROVE (WorkersHoldTheirCall /\ KeysAreApart)'
  BY <1>0, <1>7 DEF WorkerCrashes, IdleWork
<1>8. ASSUME NEW k \in Invocation, CallEnds(k) \/ ContentArrives(k)
      PROVE (WorkersHoldTheirCall /\ KeysAreApart)'
  BY <1>0, <1>8 DEF CallEnds, ContentArrives, Ended, Bare
<1>9. ASSUME UNCHANGED <<dispatch, provider, work>> PROVE (WorkersHoldTheirCall /\ KeysAreApart)'
  BY <1>9
<1>10. ASSUME NEW k \in Invocation, LearnOf(k) \/ Erase(k) PROVE (WorkersHoldTheirCall /\ KeysAreApart)'
  BY <1>9, <1>10 DEF LearnOf, Erase
<1>11. ASSUME NEW r \in Reconciler, Apply(r) PROVE (WorkersHoldTheirCall /\ KeysAreApart)'
  <2>1. PICK k \in Invocation, new \in {"ringing"} \cup Ended, rc \in {"active", "done"} :
               Applied(r, k, new, rc)
    BY <1>11, ApplyFacts
  <2>2. \A j \in Invocation \ {k} : dispatch'[j] = dispatch[j]
    BY <1>0, <2>1 DEF Applied
  <2> QED BY <1>0, <2>1, <2>2 DEF Applied
<1>12. ASSUME NEW r \in Reconciler, ReconcilerCrashes(r) \/ \E k \in Invocation : Fetch(r, k)
       PROVE (WorkersHoldTheirCall /\ KeysAreApart)'
  BY <1>9, <1>12 DEF ReconcilerCrashes, Fetch
<1>13. CASE UNCHANGED callVars BY <1>9, <1>13 DEF callVars
<1>14. ASSUME NEW k \in Invocation, Retry(k) PROVE (WorkersHoldTheirCall /\ KeysAreApart)'
  BY <1>9, <1>14 DEF Retry, Dropped
<1>15. ASSUME NEW r \in Reconciler, Reject(r) PROVE (WorkersHoldTheirCall /\ KeysAreApart)'
  BY <1>9, <1>15 DEF Reject, Dropped
<1> QED
  BY <1>1, <1>2, <1>3, <1>4, <1>5, <1>6, <1>7, <1>8, <1>10, <1>11, <1>12, <1>13, <1>14, <1>15
     DEF CallsNext, WorkerStep, ReconcileStep

\* A dial counts once and only for the holder of a fresh reservation; a reservation
\* is made only while no row is active, and no row is released while its call rings.
LEMMA LineStep ==
  CallsInv /\ [CallsNext]_callVars => (DialedOnceIfReached /\ LineIsHeld)'
<1> SUFFICES ASSUME CallsInv, [CallsNext]_callVars
             PROVE  (DialedOnceIfReached /\ LineIsHeld)'
  OBVIOUS
<1> USE DEF DialedOnceIfReached, LineIsHeld, At, Key
<1>0. /\ CallsTypeOK /\ DialedOnceIfReached /\ LineIsHeld
      /\ provider \in [Invocation -> {"none", "ringing"} \cup Ended]
      /\ dispatch \in [Invocation -> [status: Status, active: BOOLEAN]]
      /\ receipt \in [Invocation -> Receipts]
      /\ record \in [Invocation -> {"none", "ringing", "erased"} \cup Ended]
      /\ dialed \in [Invocation -> Nat]
      /\ \A k \in Invocation : dispatch[k].active <=> dispatch[k].status \in InFlightStatus
  BY DEF CallsInv, CallsTypeOK, Status
<1>1. ASSUME NEW w \in Worker, NEW k \in Invocation, Reserve(w, k)
      PROVE (DialedOnceIfReached /\ LineIsHeld)'
  <2>1. /\ dispatch[k].status = "none" /\ \A j \in Invocation : ~dispatch[j].active
        /\ UNCHANGED <<provider, receipt, record, dialed>>
    BY <1>1 DEF Reserve, Free
  <2>2. /\ dispatch'[k].status = "uncertain" /\ dispatch'[k].active
        /\ \A j \in Invocation \ {k} : dispatch'[j] = dispatch[j]
    BY <1>0, <1>1, RowWritten DEF Reserve, Status, InFlightStatus
  <2>3. DialedOnceIfReached' BY <1>0, <2>1, <2>2
  <2>4. LineIsHeld' BY <1>0, <2>1, <2>2
  <2> QED BY <2>3, <2>4
<1>2. ASSUME NEW w \in Worker, Withdraw(w) \/ RecordRefused(w)
      PROVE (DialedOnceIfReached /\ LineIsHeld)'
  <2>1. Key(w) \in Invocation /\ provider[Key(w)] = "none" /\ UNCHANGED <<provider, receipt, record, dialed>>
    BY <1>2 DEF Withdraw, RecordRefused, CallsInv, WorkersHoldTheirCall
  <2>2. /\ dispatch'[Key(w)].status = "not_dispatched"
        /\ ~dispatch'[Key(w)].active
        /\ \A j \in Invocation \ {Key(w)} : dispatch'[j] = dispatch[j]
    BY <1>0, <1>2, <2>1, RowWritten DEF Withdraw, RecordRefused, Status, Settled, InFlightStatus
  <2> QED BY <1>0, <2>1, <2>2
<1>3. ASSUME NEW w \in Worker, Dial(w) PROVE (DialedOnceIfReached /\ LineIsHeld)'
  <2>1. /\ Key(w) \in Invocation /\ provider[Key(w)] = "none" /\ dispatch[Key(w)].status = "uncertain"
        /\ provider' = [provider EXCEPT ![Key(w)] = "ringing"]
        /\ dialed' = [dialed EXCEPT ![Key(w)] = @ + 1]
        /\ UNCHANGED <<dispatch, receipt, record>>
    BY <1>3 DEF Dial, CallsInv, WorkersHoldTheirCall
  <2> HIDE DEF Key
  <2> QED BY <1>0, <2>1 DEF InFlightStatus
<1>4. ASSUME NEW w \in Worker, RecordAccepted(w) PROVE (DialedOnceIfReached /\ LineIsHeld)'
  <2>1. Key(w) \in Invocation /\ provider[Key(w)] # "none" /\ UNCHANGED <<provider, record, dialed>>
    BY <1>4 DEF RecordAccepted, CallsInv, WorkersHoldTheirCall
  <2>2. CASE StillOpen(Key(w))
    <3>1. /\ dispatch'[Key(w)].status = "accepted"
          /\ dispatch'[Key(w)].active /\ dispatch[Key(w)].active
          /\ \A j \in Invocation \ {Key(w)} : dispatch'[j] = dispatch[j]
      BY <1>0, <1>4, <2>1, <2>2, RowWritten DEF RecordAccepted, StillOpen, Status, InFlightStatus
    <3>2. \A j \in Invocation : receipt'[j] = "none" <=> receipt[j] = "none" /\ j # Key(w)
      BY <1>0, <1>4, <2>1, <2>2, EnqueuedFacts DEF RecordAccepted
    <3> HIDE DEF Key
    <3> QED BY <1>0, <2>1, <3>1, <3>2
  <2>3. CASE ~StillOpen(Key(w))
    BY <1>0, <1>4, <2>1, <2>3 DEF RecordAccepted
  <2> QED BY <2>2, <2>3
<1>5. ASSUME NEW k \in Invocation, CallEnds(k) \/ ContentArrives(k)
      PROVE (DialedOnceIfReached /\ LineIsHeld)'
  BY <1>0, <1>5 DEF CallEnds, ContentArrives, Ended, Bare
<1>6. ASSUME NEW k \in Invocation, LearnOf(k) PROVE (DialedOnceIfReached /\ LineIsHeld)'
  BY <1>0, <1>6, EnqueuedFacts DEF LearnOf
<1>7. ASSUME NEW k \in Invocation, Erase(k) PROVE (DialedOnceIfReached /\ LineIsHeld)'
  BY <1>0, <1>7 DEF Erase, Ended, Bare
<1>8. ASSUME NEW r \in Reconciler, Apply(r) PROVE (DialedOnceIfReached /\ LineIsHeld)'
  <2>1. PICK k \in Invocation, new \in {"ringing"} \cup Ended, rc \in {"active", "done"} :
               Applied(r, k, new, rc)
    BY <1>8, ApplyFacts
  <2>2. CASE UNCHANGED <<record, receipt, dispatch>>
    BY <1>0, <2>1, <2>2 DEF Applied
  <2>3. CASE ~UNCHANGED <<record, receipt, dispatch>>
    <3>1. /\ record[k] \in {"none", "ringing", Bare}
          /\ record[k] = Bare => new \in {Bare, "completed"}
          /\ True(k, new)
          /\ record' = [record EXCEPT ![k] = new]
          /\ receipt' = [receipt EXCEPT ![k] = rc]
          /\ dispatch' = [dispatch EXCEPT ![k] = Row(StatusOf(new))]
          /\ provider[k] # "none" /\ UNCHANGED <<provider, dialed>>
      BY <2>1, <2>3 DEF Applied
    <3>2. StatusOf(new) \in {"active", "completed", "no_answer"}
      BY DEF StatusOf, Ended, Bare
    <3>3. /\ dispatch'[k].status = StatusOf(new)
          /\ dispatch'[k].active <=> StatusOf(new) = "active"
          /\ \A j \in Invocation \ {k} : dispatch'[j] = dispatch[j]
      BY <1>0, <3>1, <3>2, RowWritten DEF Status, InFlightStatus, Settled
    <3>4. dispatch'[k].active => dispatch[k].active
      BY <1>0, <3>1, <3>2, <3>3 DEF CallsInv, RowMatchesRecord, StatusOf, Ended, Bare, Status,
                                    InFlightStatus, Settled
    <3>5. provider[k] = "ringing" => dispatch'[k].active
      BY <3>1, <3>2, <3>3 DEF True, StatusOf, Ended, Bare
    <3>6. LineIsHeld'
      BY <1>0, <3>1, <3>3, <3>4, <3>5
    <3>7. DialedOnceIfReached'
      BY <1>0, <3>1, <3>2, <3>3
    <3> QED BY <3>6, <3>7
  <2> QED BY <2>2, <2>3
<1>9. ASSUME UNCHANGED <<dispatch, provider, receipt, record, dialed>>
      PROVE (DialedOnceIfReached /\ LineIsHeld)'
  BY <1>0, <1>9
<1>10. ASSUME NEW r \in Reconciler, ReconcilerCrashes(r) \/ \E k \in Invocation : Fetch(r, k)
       PROVE (DialedOnceIfReached /\ LineIsHeld)'
  BY <1>9, <1>10 DEF ReconcilerCrashes, Fetch
<1>11. ASSUME NEW w \in Worker, DialFails(w) \/ WorkerCrashes(w)
       PROVE (DialedOnceIfReached /\ LineIsHeld)'
  BY <1>9, <1>11 DEF DialFails, WorkerCrashes
<1>12. CASE UNCHANGED callVars BY <1>9, <1>12 DEF callVars
<1>13. ASSUME NEW k \in Invocation, Retry(k) PROVE (DialedOnceIfReached /\ LineIsHeld)'
  BY <1>0, <1>13 DEF Retry, Dropped, Receipts
<1>14. ASSUME NEW r \in Reconciler, Reject(r) PROVE (DialedOnceIfReached /\ LineIsHeld)'
  <2>1. view[r].key \in Invocation /\ provider[view[r].key] # "none"
    BY <1>14 DEF Reject, CallsInv, ViewsAreTrue, NoView
  <2> QED BY <1>0, <1>14, <2>1 DEF Reject, Dropped, Receipts
<1> QED
  BY <1>1, <1>2, <1>3, <1>4, <1>5, <1>6, <1>7, <1>8, <1>10, <1>11, <1>12, <1>13, <1>14
     DEF CallsNext, WorkerStep, ReconcileStep

\* Views and records stay true: an ended call only gains its content, a final
\* record is not overwritten, and the row is written together with the record.
LEMMA TruthStep ==
  CallsInv /\ [CallsNext]_callVars => (ViewsAreTrue /\ RowMatchesRecord)'
<1> SUFFICES ASSUME CallsInv, [CallsNext]_callVars
             PROVE  (ViewsAreTrue /\ RowMatchesRecord)'
  OBVIOUS
<1> USE DEF ViewsAreTrue, RowMatchesRecord, True
<1>0. /\ CallsTypeOK /\ ViewsAreTrue /\ RowMatchesRecord /\ DialedOnceIfReached
      /\ provider \in [Invocation -> {"none", "ringing"} \cup Ended]
      /\ dispatch \in [Invocation -> [status: Status, active: BOOLEAN]]
      /\ record \in [Invocation -> {"none", "ringing", "erased"} \cup Ended]
      /\ view \in [Reconciler -> [key: Invocation \cup {NoCall}, saw: Views]]
  BY DEF CallsInv, CallsTypeOK, Status
<1>1. ASSUME NEW k \in Invocation, NEW s \in {"uncertain", "accepted", "not_dispatched"},
             dispatch[k].status \notin {"completed", "no_answer"},
             dispatch' = [dispatch EXCEPT ![k] = Row(s)], UNCHANGED <<provider, record, view>>
      PROVE  (ViewsAreTrue /\ RowMatchesRecord)'
  <2>1. /\ dispatch'[k].status = s
        /\ \A j \in Invocation \ {k} : dispatch'[j] = dispatch[j]
    BY <1>0, <1>1, RowWritten DEF Status, InFlightStatus, Settled
  <2>2. record[k] \notin {"erased"} \cup Ended
    BY <1>0, <1>1 DEF StatusOf, Ended, Bare
  <2> QED BY <1>0, <1>1, <2>1, <2>2
<1>2. ASSUME NEW w \in Worker, NEW k \in Invocation, Reserve(w, k)
      PROVE (ViewsAreTrue /\ RowMatchesRecord)'
  BY <1>1, <1>2 DEF Reserve, Free
<1>3. ASSUME NEW w \in Worker, Withdraw(w) \/ RecordRefused(w)
      PROVE (ViewsAreTrue /\ RowMatchesRecord)'
  <2>1. Key(w) \in Invocation /\ dispatch[Key(w)].status = "uncertain"
    BY <1>3 DEF Withdraw, RecordRefused, CallsInv, WorkersHoldTheirCall, At
  <2> QED BY <1>1, <1>3, <2>1 DEF Withdraw, RecordRefused
<1>4. ASSUME NEW w \in Worker, RecordAccepted(w) PROVE (ViewsAreTrue /\ RowMatchesRecord)'
  <2>1. Key(w) \in Invocation
    BY <1>4 DEF RecordAccepted, CallsInv, WorkersHoldTheirCall, At
  <2>2. CASE StillOpen(Key(w)) BY <1>1, <1>4, <2>1, <2>2 DEF RecordAccepted, StillOpen
  <2>3. CASE ~StillOpen(Key(w)) BY <1>0, <1>4, <2>3 DEF RecordAccepted
  <2> QED BY <2>2, <2>3
<1>5. ASSUME NEW w \in Worker, Dial(w) PROVE (ViewsAreTrue /\ RowMatchesRecord)'
  <2>1. /\ Key(w) \in Invocation /\ provider[Key(w)] = "none"
        /\ provider' = [provider EXCEPT ![Key(w)] = "ringing"]
        /\ UNCHANGED <<dispatch, record, view>>
    BY <1>5 DEF Dial, CallsInv, WorkersHoldTheirCall, At
  <2>2. record[Key(w)] = "none" /\ \A r \in Reconciler : view[r] # NoView => view[r].key # Key(w)
    BY <1>0, <2>1 DEF DialedOnceIfReached
  <2> QED BY <1>0, <2>1, <2>2 DEF Ended, Bare
<1>6. ASSUME NEW k \in Invocation, CallEnds(k) PROVE (ViewsAreTrue /\ RowMatchesRecord)'
  <2>1. PICK v \in Ended : provider' = [provider EXCEPT ![k] = v]
    BY <1>6 DEF CallEnds
  <2>2. provider[k] = "ringing" /\ UNCHANGED <<dispatch, record, view>>
    BY <1>6 DEF CallEnds
  <2> QED BY <1>0, <2>1, <2>2 DEF Ended, Bare, StatusOf
<1>7. ASSUME NEW k \in Invocation, ContentArrives(k) PROVE (ViewsAreTrue /\ RowMatchesRecord)'
  BY <1>0, <1>7 DEF ContentArrives, Ended, Bare, StatusOf
<1>8. ASSUME NEW k \in Invocation, Erase(k) PROVE (ViewsAreTrue /\ RowMatchesRecord)'
  BY <1>0, <1>8 DEF Erase, Ended, Bare
<1>9. ASSUME NEW r \in Reconciler, NEW k \in Invocation, Fetch(r, k)
      PROVE (ViewsAreTrue /\ RowMatchesRecord)'
  <2>1. PICK saw \in {provider[k], "invalid"} : view' = [view EXCEPT ![r] = [key |-> k, saw |-> saw]]
    BY <1>9 DEF Fetch
  <2>2. /\ provider[k] # "none" /\ UNCHANGED <<dispatch, provider, record>>
        /\ "invalid" \notin Ended /\ saw # "none"
    BY <1>0, <1>9 DEF Fetch, DialedOnceIfReached, Ended, Bare
  <2> QED BY <1>0, <2>1, <2>2 DEF StatusOf
<1>10. ASSUME NEW r \in Reconciler, ReconcilerCrashes(r) PROVE (ViewsAreTrue /\ RowMatchesRecord)'
  BY <1>0, <1>10 DEF ReconcilerCrashes
<1>11. ASSUME NEW r \in Reconciler, Apply(r) PROVE (ViewsAreTrue /\ RowMatchesRecord)'
  <2>1. PICK k \in Invocation, new \in {"ringing"} \cup Ended, rc \in {"active", "done"} :
               Applied(r, k, new, rc)
    BY <1>11, ApplyFacts
  <2>2. ViewsAreTrue'
    BY <1>0, <2>1 DEF Applied
  <2>3. CASE UNCHANGED <<record, receipt, dispatch>>
    BY <1>0, <2>1, <2>2, <2>3 DEF Applied
  <2>4. CASE ~UNCHANGED <<record, receipt, dispatch>>
    <3>1. /\ True(k, new)
          /\ record' = [record EXCEPT ![k] = new]
          /\ dispatch' = [dispatch EXCEPT ![k] = Row(StatusOf(new))]
          /\ UNCHANGED provider
      BY <2>1, <2>4 DEF Applied
    <3>2. StatusOf(new) \in {"active", "completed", "no_answer"}
      BY DEF StatusOf, Ended, Bare
    <3>3. /\ dispatch'[k].status = StatusOf(new)
          /\ \A j \in Invocation \ {k} : dispatch'[j] = dispatch[j]
      BY <1>0, <3>1, <3>2, RowWritten DEF Status, InFlightStatus, Settled
    <3>4. RowMatchesRecord'
      BY <1>0, <3>1, <3>2, <3>3 DEF StatusOf, Ended, Bare
    <3> QED BY <2>2, <3>4
  <2> QED BY <2>3, <2>4
<1>12. ASSUME UNCHANGED <<dispatch, provider, record, view>>
       PROVE (ViewsAreTrue /\ RowMatchesRecord)'
  BY <1>0, <1>12
<1>13. ASSUME NEW w \in Worker, DialFails(w) \/ WorkerCrashes(w)
       PROVE (ViewsAreTrue /\ RowMatchesRecord)'
  BY <1>12, <1>13 DEF DialFails, WorkerCrashes
<1>14. ASSUME NEW k \in Invocation, LearnOf(k) PROVE (ViewsAreTrue /\ RowMatchesRecord)'
  BY <1>12, <1>14 DEF LearnOf
<1>15. CASE UNCHANGED callVars BY <1>12, <1>15 DEF callVars
<1>16. ASSUME NEW k \in Invocation, Retry(k) PROVE (ViewsAreTrue /\ RowMatchesRecord)'
  BY <1>12, <1>16 DEF Retry, Dropped
<1>17. ASSUME NEW r \in Reconciler, Reject(r) PROVE (ViewsAreTrue /\ RowMatchesRecord)'
  BY <1>0, <1>17 DEF Reject, Dropped
<1> QED
  BY <1>2, <1>3, <1>4, <1>5, <1>6, <1>7, <1>8, <1>9, <1>10, <1>11, <1>13, <1>14, <1>15,
     <1>16, <1>17
     DEF CallsNext, WorkerStep, ReconcileStep

\* The invariant holds of every state that calling can reach.
LEMMA CallsInvariant == CallsSpec => []CallsInv
<1>1. CallsInv /\ [CallsNext]_callVars => CallsInv'
  BY CallsTypeStep, WorkersStep, LineStep, TruthStep DEF CallsInv
<1> QED BY CallsInvInit, <1>1, PTL DEF CallsSpec

-----------------------------------------------------------------------------
\* Types, and: a dispatch row is active exactly while its status is in flight
\* (the partial unique index of the ledger sees the rows that hold the line).
THEOREM CallsAreTyped == CallsSpec => []CallsTypeOK
  BY CallsInvariant, PTL DEF CallsInv

\* A call is never dialed again (invoke): a dial needs a fresh reservation, and a
\* key is reserved once.
THEOREM CallsNeverRedial == CallsSpec => []NeverRedials
<1>1. CallsInv => NeverRedials
  BY DEF CallsInv, DialedOnceIfReached, NeverRedials
<1> QED BY <1>1, CallsInvariant, PTL

\* One call rings at a time (invoke, reconcile): a call that rings holds an active
\* row, and there is one.
THEOREM CallsOneAtATime == CallsSpec => []OneCallAtATime
<1>1. CallsInv => OneCallAtATime
  <2> SUFFICES ASSUME CallsInv PROVE OneCallAtATime
    OBVIOUS
  <2> DEFINE R == {k \in Invocation : provider[k] = "ringing"}
  <2>1. \A j, k \in R : j = k
    BY DEF CallsInv, LineIsHeld
  <2>2. CASE R = {}
    BY <2>2, FS_EmptySet DEF OneCallAtATime
  <2>3. CASE R # {}
    <3>1. PICK k \in R : TRUE
      BY <2>3
    <3>2. R = {k}
      BY <2>1, <3>1
    <3>3. Cardinality(R) = 1
      BY <3>2, FS_Singleton
    <3> QED BY <3>3 DEF OneCallAtATime
  <2> QED BY <2>2, <2>3
<1> QED BY <1>1, CallsInvariant, PTL

\* A result, an erasure and accepted content of a call survive a step.
StaysFinal(k) ==
  /\ dispatch[k].status \in Settled => dispatch'[k] = dispatch[k]
  /\ record[k] = "erased" => record'[k] = "erased"
  /\ record[k] \in {"no_answer", "completed"} => record'[k] \in {record[k], "erased"}

\* A settled row is written again only by a reconciler that adds the content of a
\* completed call, which is the same row.
LEMMA FinalStep == CallsInv /\ CallsNext => \A k \in Invocation : StaysFinal(k)
<1> SUFFICES ASSUME CallsInv, CallsNext, NEW k \in Invocation PROVE StaysFinal(k)
  OBVIOUS
<1> USE DEF StaysFinal
<1>0. /\ CallsTypeOK
      /\ dispatch \in [Invocation -> [status: Status, active: BOOLEAN]]
      /\ \A j \in Invocation : dispatch[j].active <=> dispatch[j].status \in InFlightStatus
      /\ record \in [Invocation -> {"none", "ringing", "erased"} \cup Ended]
  BY DEF CallsInv, CallsTypeOK, Status
<1>1. ASSUME NEW j \in Invocation, dispatch[j].status \notin Settled, NEW s,
             dispatch' = [dispatch EXCEPT ![j] = Row(s)], UNCHANGED record
      PROVE StaysFinal(k)
  BY <1>0, <1>1
<1>2. ASSUME NEW w \in Worker, NEW j \in Invocation, Reserve(w, j) PROVE StaysFinal(k)
  BY <1>1, <1>2 DEF Reserve, Free, Settled
<1>3. ASSUME NEW w \in Worker, Withdraw(w) \/ RecordRefused(w) PROVE StaysFinal(k)
  <2>1. Key(w) \in Invocation /\ dispatch[Key(w)].status \notin Settled
    BY <1>3 DEF Withdraw, RecordRefused, CallsInv, WorkersHoldTheirCall, At, Settled
  <2> QED BY <1>1, <1>3, <2>1 DEF Withdraw, RecordRefused
<1>4. ASSUME NEW w \in Worker, RecordAccepted(w) PROVE StaysFinal(k)
  <2>1. Key(w) \in Invocation
    BY <1>4 DEF RecordAccepted, CallsInv, WorkersHoldTheirCall, At
  <2>2. CASE StillOpen(Key(w)) BY <1>1, <1>4, <2>1, <2>2 DEF RecordAccepted, StillOpen, Settled
  <2>3. CASE ~StillOpen(Key(w)) BY <1>4, <2>3 DEF RecordAccepted
  <2> QED BY <2>2, <2>3
<1>5. ASSUME NEW j \in Invocation, Erase(j) PROVE StaysFinal(k)
  BY <1>0, <1>5 DEF Erase, Ended, Bare
<1>6. ASSUME NEW r \in Reconciler, Apply(r) PROVE StaysFinal(k)
  <2>1. PICK j \in Invocation, new \in {"ringing"} \cup Ended, rc \in {"active", "done"} :
               Applied(r, j, new, rc)
    BY <1>6, ApplyFacts
  <2>2. CASE UNCHANGED <<record, receipt, dispatch>>
    BY <2>2
  <2>3. CASE ~UNCHANGED <<record, receipt, dispatch>>
    <3>1. /\ record[j] \in {"none", "ringing", Bare}
          /\ record[j] = Bare => new \in {Bare, "completed"}
          /\ record' = [record EXCEPT ![j] = new]
          /\ dispatch' = [dispatch EXCEPT ![j] = Row(StatusOf(new))]
          /\ provider[j] # "none"
      BY <2>1, <2>3 DEF Applied
    <3>2. record[k] = "erased" \/ record[k] \in {"no_answer", "completed"} => record'[k] = record[k]
      BY <1>0, <3>1 DEF Bare
    <3>3. ASSUME dispatch[k].status \in Settled, k = j PROVE dispatch'[k] = dispatch[k]
      <4>1. record[j] = Bare /\ dispatch[j].status = "completed"
        BY <3>1, <3>3 DEF CallsInv, RowMatchesRecord, DialedOnceIfReached, Settled, StatusOf, Ended
      <4>2. StatusOf(new) = "completed" /\ dispatch'[j] = Row("completed")
        BY <1>0, <3>1, <4>1 DEF StatusOf, Bare
      <4>3. Row("completed").status = "completed" /\ ~Row("completed").active
            /\ Row("completed") \in [status: Status, active: BOOLEAN]
        BY RowFacts DEF Status, Settled, InFlightStatus
      <4>4. ~dispatch[j].active
        BY <1>0, <4>1 DEF InFlightStatus
      <4> QED BY <1>0, <3>3, <4>1, <4>2, <4>3, <4>4
    <3>4. k # j => dispatch'[k] = dispatch[k]
      BY <1>0, <3>1
    <3> QED BY <3>2, <3>3, <3>4
  <2> QED BY <2>2, <2>3
<1>7. ASSUME UNCHANGED <<dispatch, record>> PROVE StaysFinal(k)
  BY <1>7
<1>8. ASSUME NEW w \in Worker, Dial(w) \/ DialFails(w) \/ WorkerCrashes(w) PROVE StaysFinal(k)
  BY <1>7, <1>8 DEF Dial, DialFails, WorkerCrashes
<1>9. ASSUME NEW j \in Invocation, CallEnds(j) \/ ContentArrives(j) \/ LearnOf(j) PROVE StaysFinal(k)
  BY <1>7, <1>9 DEF CallEnds, ContentArrives, LearnOf
<1>10. ASSUME NEW r \in Reconciler, ReconcilerCrashes(r) \/ \E j \in Invocation : Fetch(r, j)
       PROVE StaysFinal(k)
  BY <1>7, <1>10 DEF ReconcilerCrashes, Fetch
<1>11. ASSUME NEW j \in Invocation, Retry(j) PROVE StaysFinal(k)
  BY <1>7, <1>11 DEF Retry, Dropped
<1>12. ASSUME NEW r \in Reconciler, Reject(r) PROVE StaysFinal(k)
  BY <1>7, <1>12 DEF Reject, Dropped
<1> QED
  BY <1>2, <1>3, <1>4, <1>5, <1>6, <1>8, <1>9, <1>10, <1>11, <1>12 DEF CallsNext, WorkerStep, ReconcileStep

\* No late or repeated answer undoes a result, an erasure or accepted content
\* (invoke, reconcile, delete).
THEOREM CallsResultsAreFinal == CallsSpec => ResultsAreFinal
<1>1. CallsInv /\ [CallsNext]_callVars => [\A k \in Invocation : StaysFinal(k)]_callVars
  BY FinalStep
<1> QED BY <1>1, CallsInvariant, PTL DEF CallsSpec, ResultsAreFinal, StaysFinal

-----------------------------------------------------------------------------
(* The refinement of CallLedger *)

Entry(k) == IF dispatch[k].active THEN "open" ELSE dispatch[k].status
Truth(k) == IF provider[k] = Bare THEN "completed" ELSE provider[k]

\* A step of one call that is a step, or no step, of its entry in the ledger.
LedgerMove(k) ==
  \/ Entry(k)' = Entry(k) /\ Truth(k)' = Truth(k)
  \/ Entry(k) = "none" /\ (\A j \in Invocation : Entry(j) # "open") /\ Entry(k)' = "open" /\ Truth(k)' = Truth(k)
  \/ Entry(k) = "open" /\ Truth(k) = "none" /\ Entry(k)' = Entry(k) /\ Truth(k)' = "ringing"
  \/ Truth(k) = "ringing" /\ Entry(k)' = Entry(k) /\ Truth(k)' \in {"completed", "no_answer"}
  \/ Entry(k) = "open" /\ Truth(k) = "none" /\ Entry(k)' = "not_dispatched" /\ Truth(k)' = Truth(k)
  \/ Entry(k) = "open" /\ Truth(k) \in {"completed", "no_answer"} /\ Entry(k)' = Truth(k)
     /\ Truth(k)' = Truth(k)

\* A step that moves one entry so, and no other, is a step of the ledger.
LEMMA OneEntryMoves ==
  ASSUME CallsTypeOK, NEW k \in Invocation, LedgerMove(k),
         \A j \in Invocation \ {k} : Entry(j)' = Entry(j) /\ Truth(j)' = Truth(j)
  PROVE  [Ledger!LedgerNext]_(Ledger!ledgerVars)
<1> DEFINE L == [j \in Invocation |-> Entry(j)]
           T == [j \in Invocation |-> Truth(j)]
<1>1. L' = [L EXCEPT ![k] = Entry(k)'] /\ T' = [T EXCEPT ![k] = Truth(k)']
  OBVIOUS
<1>2. L[k] = Entry(k) /\ T[k] = Truth(k) /\ \A j \in Invocation : L[j] = Entry(j)
  OBVIOUS
<1>3. (Entry(k)' = Entry(k) => UNCHANGED L) /\ (Truth(k)' = Truth(k) => UNCHANGED T)
  OBVIOUS
<1>4. CASE Entry(k)' = Entry(k) /\ Truth(k)' = Truth(k)
  <2>1. UNCHANGED <<L, T>> BY <1>3, <1>4
  <2> QED BY <2>1 DEF Ledger!ledgerVars, Entry, Truth
<1>5. CASE /\ Entry(k) = "none" /\ \A j \in Invocation : Entry(j) # "open"
           /\ Entry(k)' = "open" /\ Truth(k)' = Truth(k)
  <2>1. /\ L[k] = "none" /\ \A j \in Invocation : L[j] # "open"
        /\ L' = [L EXCEPT ![k] = "open"] /\ UNCHANGED T
    BY <1>1, <1>2, <1>3, <1>5
  <2>2. Ledger!Open(k) BY <2>1 DEF Ledger!Open, Entry, Truth
  <2> QED BY <2>2 DEF Ledger!LedgerNext
<1>6. CASE /\ Entry(k) = "open" /\ Truth(k) = "none"
           /\ Entry(k)' = Entry(k) /\ Truth(k)' = "ringing"
  <2>1. L[k] = "open" /\ T[k] = "none" /\ T' = [T EXCEPT ![k] = "ringing"] /\ UNCHANGED L
    BY <1>1, <1>2, <1>3, <1>6
  <2>2. Ledger!Place(k) BY <2>1 DEF Ledger!Place, Entry, Truth
  <2> QED BY <2>2 DEF Ledger!LedgerNext
<1>7. CASE /\ Truth(k) = "ringing" /\ Entry(k)' = Entry(k)
           /\ Truth(k)' \in {"completed", "no_answer"}
  <2>1. /\ T[k] = "ringing" /\ UNCHANGED L
        /\ \E v \in {"completed", "no_answer"} : T' = [T EXCEPT ![k] = v]
    BY <1>1, <1>2, <1>3, <1>7
  <2>2. Ledger!End(k) BY <2>1 DEF Ledger!End, Ledger!Result, Entry, Truth
  <2> QED BY <2>2 DEF Ledger!LedgerNext
<1>8. CASE /\ Entry(k) = "open" /\ Truth(k) = "none"
           /\ Entry(k)' = "not_dispatched" /\ Truth(k)' = Truth(k)
  <2>1. L[k] = "open" /\ T[k] = "none" /\ L' = [L EXCEPT ![k] = "not_dispatched"] /\ UNCHANGED T
    BY <1>1, <1>2, <1>3, <1>8
  <2>2. Ledger!GiveUp(k) BY <2>1 DEF Ledger!GiveUp, Entry, Truth
  <2> QED BY <2>2 DEF Ledger!LedgerNext
<1>9. CASE /\ Entry(k) = "open" /\ Truth(k) \in {"completed", "no_answer"}
           /\ Entry(k)' = Truth(k) /\ Truth(k)' = Truth(k)
  <2>1. /\ L[k] = "open" /\ T[k] \in {"completed", "no_answer"}
        /\ L' = [L EXCEPT ![k] = T[k]] /\ UNCHANGED T
    BY <1>1, <1>2, <1>3, <1>9
  <2>2. Ledger!Close(k) BY <2>1 DEF Ledger!Close, Ledger!Result, Entry, Truth
  <2> QED BY <2>2 DEF Ledger!LedgerNext
<1> QED BY <1>4, <1>5, <1>6, <1>7, <1>8, <1>9 DEF LedgerMove

\* Every step of calling is a step of the ledger, or invisible to its readers.
LEMMA LedgerStep == CallsInv /\ [CallsNext]_callVars => [Ledger!LedgerNext]_(Ledger!ledgerVars)
<1> SUFFICES ASSUME CallsInv, [CallsNext]_callVars PROVE [Ledger!LedgerNext]_(Ledger!ledgerVars)
  OBVIOUS
<1>0. /\ CallsTypeOK
      /\ dispatch \in [Invocation -> [status: Status, active: BOOLEAN]]
      /\ provider \in [Invocation -> {"none", "ringing"} \cup Ended]
      /\ \A j \in Invocation : dispatch[j].active <=> dispatch[j].status \in InFlightStatus
  BY DEF CallsInv, CallsTypeOK, Status
<1>1. ASSUME UNCHANGED <<dispatch, provider>> PROVE [Ledger!LedgerNext]_(Ledger!ledgerVars)
  BY <1>1 DEF Ledger!ledgerVars
<1>2. ASSUME NEW w \in Worker, NEW k \in Invocation, Reserve(w, k)
      PROVE [Ledger!LedgerNext]_(Ledger!ledgerVars)
  <2>1. dispatch[k].status = "none" /\ (\A j \in Invocation : ~dispatch[j].active) /\ UNCHANGED provider
    BY <1>2 DEF Reserve, Free
  <2>2. dispatch'[k].active /\ \A j \in Invocation \ {k} : dispatch'[j] = dispatch[j]
    BY <1>0, <1>2, RowWritten DEF Reserve, Status, InFlightStatus
  <2>3. \A j \in Invocation : Entry(j) # "open"
    BY <1>0, <2>1 DEF Entry, Status, InFlightStatus, Settled
  <2>4. LedgerMove(k) /\ \A j \in Invocation \ {k} : Entry(j)' = Entry(j) /\ Truth(j)' = Truth(j)
    BY <2>1, <2>2, <2>3 DEF LedgerMove, Entry, Truth
  <2> QED BY <1>0, <2>4, OneEntryMoves
<1>3. ASSUME NEW w \in Worker, Withdraw(w) \/ RecordRefused(w)
      PROVE [Ledger!LedgerNext]_(Ledger!ledgerVars)
  <2>1. PICK k \in Invocation : k = Key(w)
    BY <1>3 DEF Withdraw, RecordRefused, CallsInv, WorkersHoldTheirCall, At
  <2>2. /\ provider[k] = "none" /\ dispatch[k].status = "uncertain"
        /\ dispatch' = [dispatch EXCEPT ![k] = Row("not_dispatched")] /\ UNCHANGED provider
    BY <1>3, <2>1 DEF Withdraw, RecordRefused, CallsInv, WorkersHoldTheirCall, At
  <2>3. /\ dispatch'[k].status = "not_dispatched" /\ ~dispatch'[k].active
        /\ \A j \in Invocation \ {k} : dispatch'[j] = dispatch[j]
    <3>1. "not_dispatched" \in Status /\ "not_dispatched" \notin InFlightStatus
      BY DEF Status, Settled, InFlightStatus
    <3> QED BY <1>0, <2>2, <3>1, RowWritten
  <2>4. LedgerMove(k) /\ \A j \in Invocation \ {k} : Entry(j)' = Entry(j) /\ Truth(j)' = Truth(j)
    BY <1>0, <2>2, <2>3 DEF LedgerMove, Entry, Truth, InFlightStatus, Bare
  <2> QED BY <1>0, <2>4, OneEntryMoves
<1>4. ASSUME NEW w \in Worker, Dial(w) PROVE [Ledger!LedgerNext]_(Ledger!ledgerVars)
  <2>1. PICK k \in Invocation : k = Key(w)
    BY <1>4 DEF Dial, CallsInv, WorkersHoldTheirCall, At
  <2>2. /\ provider[k] = "none" /\ dispatch[k].status = "uncertain"
        /\ provider' = [provider EXCEPT ![k] = "ringing"] /\ UNCHANGED dispatch
    BY <1>4, <2>1 DEF Dial, CallsInv, WorkersHoldTheirCall, At
  <2>3. provider'[k] = "ringing" /\ \A j \in Invocation \ {k} : provider'[j] = provider[j]
    BY <1>0, <2>2
  <2>4. LedgerMove(k) /\ \A j \in Invocation \ {k} : Entry(j)' = Entry(j) /\ Truth(j)' = Truth(j)
    BY <1>0, <2>2, <2>3 DEF LedgerMove, Entry, Truth, InFlightStatus, Bare
  <2> QED BY <1>0, <2>4, OneEntryMoves
<1>5. ASSUME NEW w \in Worker, RecordAccepted(w) PROVE [Ledger!LedgerNext]_(Ledger!ledgerVars)
  <2>1. PICK k \in Invocation : k = Key(w)
    BY <1>5 DEF RecordAccepted, CallsInv, WorkersHoldTheirCall, At
  <2>2. CASE StillOpen(k)
    <3>1. /\ dispatch'[k].active /\ dispatch[k].active /\ UNCHANGED provider
          /\ \A j \in Invocation \ {k} : dispatch'[j] = dispatch[j]
      BY <1>0, <1>5, <2>1, <2>2, RowWritten DEF RecordAccepted, StillOpen, Status, InFlightStatus
    <3>2. LedgerMove(k) /\ \A j \in Invocation \ {k} : Entry(j)' = Entry(j) /\ Truth(j)' = Truth(j)
      BY <3>1 DEF LedgerMove, Entry, Truth
    <3> QED BY <1>0, <3>2, OneEntryMoves
  <2>3. CASE ~StillOpen(k) BY <1>1, <1>5, <2>1, <2>3 DEF RecordAccepted
  <2> QED BY <2>2, <2>3
<1>6. ASSUME NEW k \in Invocation, CallEnds(k) \/ ContentArrives(k)
      PROVE [Ledger!LedgerNext]_(Ledger!ledgerVars)
  <2>1. /\ UNCHANGED dispatch
        /\ \A j \in Invocation \ {k} : provider'[j] = provider[j]
        /\ \/ provider[k] = "ringing" /\ provider'[k] \in Ended
           \/ provider[k] = Bare /\ provider'[k] = "completed"
    BY <1>0, <1>6 DEF CallEnds, ContentArrives
  <2>2. LedgerMove(k) /\ \A j \in Invocation \ {k} : Entry(j)' = Entry(j) /\ Truth(j)' = Truth(j)
    BY <2>1 DEF LedgerMove, Entry, Truth, Ended, Bare
  <2> QED BY <1>0, <2>2, OneEntryMoves
<1>7. ASSUME NEW r \in Reconciler, Apply(r) PROVE [Ledger!LedgerNext]_(Ledger!ledgerVars)
  <2>1. PICK k \in Invocation, new \in {"ringing"} \cup Ended, rc \in {"active", "done"} :
               Applied(r, k, new, rc)
    BY <1>7, ApplyFacts
  <2>2. CASE UNCHANGED <<record, receipt, dispatch>>
    BY <1>1, <2>1, <2>2 DEF Applied
  <2>3. CASE ~UNCHANGED <<record, receipt, dispatch>>
    <3>1. /\ record[k] \in {"none", "ringing", Bare}
          /\ record[k] = Bare => new \in {Bare, "completed"}
          /\ True(k, new)
          /\ dispatch' = [dispatch EXCEPT ![k] = Row(StatusOf(new))]
          /\ provider[k] # "none" /\ UNCHANGED provider
      BY <2>1, <2>3 DEF Applied
    <3>2. StatusOf(new) \in {"active", "completed", "no_answer"}
      BY DEF StatusOf, Ended, Bare
    <3>3. /\ dispatch'[k].status = StatusOf(new)
          /\ dispatch'[k].active <=> StatusOf(new) = "active"
          /\ \A j \in Invocation \ {k} : dispatch'[j] = dispatch[j]
      BY <1>0, <3>1, <3>2, RowWritten DEF Status, InFlightStatus, Settled
    <3>4. Entry(k)' = IF new = "ringing" THEN "open" ELSE StatusOf(new)
      BY <3>2, <3>3 DEF Entry, StatusOf, Ended, Bare
    <3>5. new # "ringing" => StatusOf(new) = Truth(k) /\ Truth(k) \in {"completed", "no_answer"}
      BY <1>0, <3>1 DEF True, StatusOf, Truth, Ended, Bare
    <3>6. record[k] # Bare => Entry(k) = "open"
      BY <1>0, <3>1 DEF CallsInv, RowMatchesRecord, DialedOnceIfReached, Entry, Status, InFlightStatus,
                        Settled
    <3>7. record[k] = Bare => Entry(k) = "completed" /\ new # "ringing" /\ StatusOf(new) = "completed"
      BY <1>0, <3>1 DEF CallsInv, RowMatchesRecord, Entry, StatusOf, Ended, Bare, InFlightStatus
    <3>8. LedgerMove(k)
      BY <3>1, <3>4, <3>5, <3>6, <3>7 DEF LedgerMove, Truth
    <3>9. \A j \in Invocation \ {k} : Entry(j)' = Entry(j) /\ Truth(j)' = Truth(j)
      BY <3>1, <3>3 DEF Entry, Truth
    <3> QED BY <1>0, <3>8, <3>9, OneEntryMoves
  <2> QED BY <2>2, <2>3
<1>8. ASSUME NEW w \in Worker, DialFails(w) \/ WorkerCrashes(w)
      PROVE [Ledger!LedgerNext]_(Ledger!ledgerVars)
  BY <1>1, <1>8 DEF DialFails, WorkerCrashes
<1>9. ASSUME NEW k \in Invocation, LearnOf(k) \/ Erase(k) PROVE [Ledger!LedgerNext]_(Ledger!ledgerVars)
  BY <1>1, <1>9 DEF LearnOf, Erase
<1>10. ASSUME NEW r \in Reconciler, ReconcilerCrashes(r) \/ \E k \in Invocation : Fetch(r, k)
       PROVE [Ledger!LedgerNext]_(Ledger!ledgerVars)
  BY <1>1, <1>10 DEF ReconcilerCrashes, Fetch
<1>11. CASE UNCHANGED callVars BY <1>1, <1>11 DEF callVars
<1>12. ASSUME NEW k \in Invocation, Retry(k) PROVE [Ledger!LedgerNext]_(Ledger!ledgerVars)
  BY <1>1, <1>12 DEF Retry, Dropped
<1>13. ASSUME NEW r \in Reconciler, Reject(r) PROVE [Ledger!LedgerNext]_(Ledger!ledgerVars)
  BY <1>1, <1>13 DEF Reject, Dropped
<1> QED
  BY <1>2, <1>3, <1>4, <1>5, <1>6, <1>7, <1>8, <1>9, <1>10, <1>11, <1>12, <1>13
     DEF CallsNext, WorkerStep, ReconcileStep

\* The rows of calling implement the ledger that its readers see: one entry per
\* call, one open entry, closed only with what happened at the provider.
THEOREM CallsImplementLedger == CallsSpec => ImplementsLedger
<1>1. CallsInit => Ledger!LedgerInit
  BY DEF CallsInit, Ledger!LedgerInit, Bare
<1> QED
  BY <1>1, LedgerStep, CallsInvariant, PTL DEF CallsSpec, ImplementsLedger, Ledger!LedgerSpec

-----------------------------------------------------------------------------
(* Call plans *)

USE PlanAssumption, CallAssumption

-----------------------------------------------------------------------------
(* The inductive invariant *)

Try == [kind: {"first", "retry", "follow_up", "report"}, nominal: Nat, at: Nat,
        run: {"active"} \cup Over, hook: BOOLEAN, ended: Nat]

Dialing == {"first", "retry"}

\* A closed entry of the ledger says what happened, and without an open entry
\* nothing did.
LedgerIsTrue ==
  \A k \in Call : /\ ledger[k] \in Result => truth[k] = ledger[k]
                  /\ ledger[k] \in {"none", "not_dispatched"} => truth[k] = "none"

\* The run is over, it has not reached anyone, and none of its calls is open.
Missed(n) ==
  /\ tries[n].run \in Over
  /\ \E k \in CallsOf(n) : ledger[k] = "no_answer"
  /\ \A k \in CallsOf(n) : ledger[k] \in {"none", "not_dispatched", "no_answer"}

Answered(n) == \E k \in CallsOf(n) : ledger[k] = "completed"

\* The calls come first, one after the other, then the follow-up, then the report.
KindsInOrder ==
  \A n \in DOMAIN tries :
    /\ tries[n].kind = "first" <=> n = 1
    /\ tries[n].kind # "report" => \A m \in 1..(n - 1) : tries[m].kind \in Dialing
    /\ n > 1 => /\ tries[n - 1].kind # "report"
                /\ \A m \in 1..(n - 2) : tries[m].kind \in Dialing

CallsAreFew == Calls <= MaxCalls

\* Every call after the first has its reason in what happened before.
CallsHaveReasons ==
  \A n \in DOMAIN tries :
    /\ tries[n].kind = "retry" => Missed(n - 1) /\ tries[n].nominal <= RetryUntil
    /\ tries[n].kind = "follow_up" => Answered(n - 1)

\* A step that is recorded and not fired yet is justified by the closed ledger.
Justified(x) ==
  /\ tries # <<>> /\ Last.kind # "report"
  /\ x.kind \in {"retry", "follow_up", "report"}
  /\ x.kind # "report" => Last.kind \in Dialing
  /\ x.kind = "retry" => /\ Missed(Len(tries))
                         /\ Calls < MaxCalls /\ x.fire_at <= RetryUntil
  /\ x.kind = "follow_up" => Answered(Len(tries))
  /\ x.fire_at >= First

\* Nothing is recorded beyond the next attempt.
StepsAreJustified ==
  \A n \in Attempts :
    /\ n > Attempt => step[n] = NoStep
    /\ n = Attempt /\ step[n] # NoStep => Justified(step[n])

\* A firing that is set is the first call or the recorded step, a plan that has
\* begun is past its first call, and a plan that has reported is over.
RowFitsSteps ==
  /\ row.next # None =>
       /\ row.next >= First
       /\ tries # <<>> => step[Attempt] # NoStep /\ row.next = step[Attempt].fire_at
  /\ tries # <<>> => First <= now
  /\ tries # <<>> /\ Last.kind = "report" => row.state \in {"COMPLETED", "CANCELLED"}

\* The inductive invariant of a plan.
PlanInv ==
  /\ TypeOK
  /\ tries \in Seq(Try)
  /\ LedgerIsTrue
  /\ KindsInOrder
  /\ CallsAreFew
  /\ CallsHaveReasons
  /\ StepsAreJustified
  /\ RowFitsSteps

-----------------------------------------------------------------------------
(* The bounds and the types *)

\* Division of natural numbers gives a natural number.
LEMMA DivisionOfNats == \A a \in Nat, b \in Nat \ {0} : a \div b \in Nat
  OBVIOUS

\* A plan allows its first call at least.
LEMMA MaxCallsType == MaxCalls \in Nat /\ MaxCalls >= 1
  <1>1. CASE RetryEvery = 0
    BY <1>1 DEF MaxCalls
  <1>2. CASE RetryEvery # 0
    <2>1. RetryUntil - First \in Nat /\ RetryEvery \in Nat \ {0}
      BY <1>2
    <2>2. (RetryUntil - First) \div RetryEvery \in Nat
      BY <2>1, DivisionOfNats
    <2>3. MaxCalls = 1 + (RetryUntil - First) \div RetryEvery
      BY <1>2 DEF MaxCalls
    <2> QED
      BY <2>2, <2>3
  <1> QED
    BY <1>1, <1>2

RowRecord == [state: {"ACTIVE", "PAUSED", "COMPLETED", "CANCELLED"}, next: Nat, failures: Nat]

StepRecord == [kind: {"none", "retry", "follow_up", "report"}, fire_at: Nat]

\* The type invariant, with the sequence of tries made explicit.
Types ==
  /\ LedgerTypeOK
  /\ now \in 0..MaxTime
  /\ row \in RowRecord
  /\ row.state \in {"COMPLETED", "CANCELLED"} => row.next = None
  /\ tries \in Seq(Try)
  /\ Len(tries) <= MaxCalls + 2
  /\ step \in [Attempts -> StepRecord]

\* The rest of the inductive invariant.
Reasons ==
  /\ LedgerIsTrue
  /\ KindsInOrder
  /\ CallsAreFew
  /\ CallsHaveReasons
  /\ StepsAreJustified
  /\ RowFitsSteps

\* The invariant in the two parts in which it is kept: types and reasons.
LEMMA PlanInvIs == PlanInv <=> Types /\ Reasons
  <1>1. PlanInv => Types /\ Reasons
    BY DEF PlanInv, TypeOK, Types, Reasons, RowRecord, StepRecord
  <1>2. ASSUME Types, Reasons PROVE PlanInv
    <2>1. Len(tries) \in 0..(MaxCalls + 2)
      BY <1>2, MaxCallsType DEF Types
    <2>2. \A i \in DOMAIN tries : tries[i] \in Try
      BY <1>2 DEF Types
    <2> QED
      BY <1>2, <2>1, <2>2 DEF PlanInv, TypeOK, Types, Reasons, RowRecord, StepRecord, Try
  <1> QED
    BY <1>1, <1>2

\* The same of the next state.
LEMMA PlanInvNext == ASSUME Types', Reasons' PROVE PlanInv'
  <1>1. Len(tries') \in 0..(MaxCalls + 2)
    BY MaxCallsType DEF Types
  <1>2. \A i \in DOMAIN tries' : tries'[i] \in Try
    BY DEF Types
  <1> QED
    BY <1>1, <1>2 DEF PlanInv, TypeOK, Types, Reasons, RowRecord, StepRecord, Try

\* A plan starts in a state of the invariant.
LEMMA PlanStart == Init => PlanInv
  <1> SUFFICES ASSUME Init PROVE Types /\ Reasons
    BY PlanInvIs
  <1>1. tries = <<>> /\ Len(tries) = 0 /\ tries \in Seq(Try) /\ DOMAIN tries = {}
    BY DEF Init
  <1>2. Types
    <2>1. LedgerTypeOK
      BY DEF Init, LedgerInit, LedgerTypeOK
    <2>2. row \in RowRecord /\ row.state = "ACTIVE"
      BY DEF Init, RowRecord
    <2>3. step \in [Attempts -> StepRecord]
      BY DEF Init, NoStep, StepRecord, None
    <2>4. now \in 0..MaxTime
      BY DEF Init
    <2> QED
      BY <1>1, <2>1, <2>2, <2>3, <2>4, MaxCallsType DEF Types
  <1>3. LedgerIsTrue
    BY DEF Init, LedgerInit, LedgerIsTrue, Result
  <1>4. KindsInOrder /\ CallsHaveReasons
    BY <1>1 DEF KindsInOrder, CallsHaveReasons
  <1>5. CallsAreFew
    <2>1. {n \in DOMAIN tries : tries[n].kind \in {"first", "retry"}} = {}
      BY <1>1
    <2>2. Calls = 0
      BY <2>1, FS_EmptySet DEF Calls
    <2> QED
      BY <2>2, MaxCallsType DEF CallsAreFew
  <1>6. StepsAreJustified
    BY DEF Init, StepsAreJustified
  <1>7. RowFitsSteps
    BY <1>1 DEF Init, RowFitsSteps
  <1> QED
    BY <1>2, <1>3, <1>4, <1>5, <1>6, <1>7 DEF Reasons

-----------------------------------------------------------------------------
(* The ledger *)

\* What closed stays closed, and a run that is over opens nothing any more.
LedgerStands ==
  \A k \in Call :
    /\ ledger[k] \in Result \cup {"not_dispatched"} => ledger'[k] = ledger[k]
    /\ /\ ledger[k] = "none" /\ RunOf[k] \in DOMAIN tries
       /\ tries[RunOf[k]].run \in Over
       => ledger'[k] = "none"

\* A step of the ledger keeps its types, its truth and what it has closed.
LEMMA LedgerMoves ==
  ASSUME LedgerTypeOK, LedgerIsTrue, NEW k \in Call,
         \/ Open(k) /\ tries[RunOf[k]].run \notin Over
         \/ Place(k) \/ GiveUp(k) \/ End(k) \/ Close(k)
  PROVE  LedgerTypeOK' /\ LedgerIsTrue' /\ LedgerStands
  <1> USE DEF LedgerTypeOK, LedgerIsTrue, LedgerStands, Result
  <1>1. CASE Open(k) /\ tries[RunOf[k]].run \notin Over
    BY <1>1 DEF Open
  <1>2. CASE Place(k)
    BY <1>2 DEF Place
  <1>3. CASE GiveUp(k)
    BY <1>3 DEF GiveUp
  <1>4. CASE End(k)
    BY <1>4 DEF End
  <1>5. CASE Close(k)
    BY <1>5 DEF Close
  <1> QED
    BY <1>1, <1>2, <1>3, <1>4, <1>5

\* So does a step that leaves the ledger alone.
LEMMA LedgerRests ==
  ASSUME LedgerTypeOK, LedgerIsTrue, UNCHANGED ledgerVars
  PROVE  LedgerTypeOK' /\ LedgerIsTrue' /\ LedgerStands
  BY DEF LedgerTypeOK, LedgerIsTrue, LedgerStands, ledgerVars

-----------------------------------------------------------------------------
(* Steps that neither fire nor plan anything *)

\* The same tries of the same kinds, and what is over stays over.
SameTries ==
  /\ Len(tries') = Len(tries)
  /\ \A n \in 1..Len(tries) : /\ tries'[n].kind = tries[n].kind
                              /\ tries'[n].nominal = tries[n].nominal
                              /\ tries[n].run \in Over => tries'[n].run \in Over

\* What the runs did not reach, and what they did, stays so.
LEMMA ResultsStand ==
  ASSUME tries \in Seq(Try), SameTries, LedgerStands, NEW n \in 1..Len(tries)
  PROVE  (Missed(n) => Missed(n)') /\ (Answered(n) => Answered(n)')
  <1>1. n \in DOMAIN tries
    OBVIOUS
  <1>2. \A k \in CallsOf(n) : k \in Call /\ RunOf[k] = n
    BY DEF CallsOf
  <1>3. CallsOf(n)' = CallsOf(n)
    BY DEF CallsOf
  <1>4. ASSUME Missed(n) PROVE Missed(n)'
    <2>1. \A k \in CallsOf(n) : ledger'[k] = ledger[k]
      BY <1>1, <1>2, <1>4 DEF Missed, LedgerStands, Result
    <2>2. tries'[n].run \in Over
      BY <1>4 DEF Missed, SameTries
    <2> QED
      BY <1>3, <1>4, <2>1, <2>2 DEF Missed
  <1>5. ASSUME Answered(n) PROVE Answered(n)'
    BY <1>2, <1>3, <1>5 DEF Answered, LedgerStands, Result
  <1> QED
    BY <1>4, <1>5

\* Tries that keep their kinds and instants keep what is said of their order.
LEMMA SameTriesFacts ==
  ASSUME tries \in Seq(Try), tries' \in Seq(Try), SameTries
  PROVE  /\ Len(tries) \in Nat
         /\ DOMAIN tries = 1..Len(tries) /\ DOMAIN tries' = 1..Len(tries)
         /\ Calls' = Calls /\ Attempt' = Attempt
         /\ tries' = <<>> <=> tries = <<>>
         /\ tries # <<>> => Last'.kind = Last.kind
  <1>1. /\ Len(tries) \in Nat
        /\ DOMAIN tries = 1..Len(tries) /\ DOMAIN tries' = 1..Len(tries)
    BY DEF SameTries
  <1>2. {n \in DOMAIN tries' : tries'[n].kind \in {"first", "retry"}}
          = {n \in DOMAIN tries : tries[n].kind \in {"first", "retry"}}
    BY <1>1 DEF SameTries
  <1>3. Calls' = Calls /\ Attempt' = Attempt
    BY <1>2 DEF Calls, Attempt, SameTries
  <1>4. (tries' = <<>> <=> Len(tries') = 0) /\ (tries = <<>> <=> Len(tries) = 0)
    OBVIOUS
  <1>5. tries # <<>> => Len(tries) \in 1..Len(tries)
    BY <1>1, <1>4
  <1>6. tries # <<>> => Last'.kind = Last.kind
    BY <1>5 DEF Last, SameTries
  <1> QED
    BY <1>1, <1>3, <1>4, <1>6 DEF SameTries

\* A step that fires nothing and records nothing keeps the reasons.
LEMMA RestKeeps ==
  ASSUME Types, Types', Reasons, SameTries, step' = step, LedgerIsTrue', LedgerStands,
         now' >= now,
         \/ row'.next = row.next
         \/ row'.next = None
         \/ tries = <<>> /\ row'.next = First,
         row.state \in {"COMPLETED", "CANCELLED"} => row'.state \in {"COMPLETED", "CANCELLED"}
  PROVE  Reasons'
  <1>1. /\ Len(tries) \in Nat
        /\ DOMAIN tries = 1..Len(tries) /\ DOMAIN tries' = 1..Len(tries)
        /\ Calls' = Calls /\ Attempt' = Attempt
        /\ tries' = <<>> <=> tries = <<>>
        /\ tries # <<>> => Last'.kind = Last.kind
    BY SameTriesFacts DEF Types
  <1>2. \A n \in 1..Len(tries) : (Missed(n) => Missed(n)') /\ (Answered(n) => Answered(n)')
    BY ResultsStand DEF Types
  <1>3. KindsInOrder'
    <2> SUFFICES ASSUME NEW n \in 1..Len(tries)
                 PROVE  /\ tries'[n].kind = "first" <=> n = 1
                        /\ tries'[n].kind # "report" => \A m \in 1..(n - 1) : tries'[m].kind \in Dialing
                        /\ n > 1 => /\ tries'[n - 1].kind # "report"
                                    /\ \A m \in 1..(n - 2) : tries'[m].kind \in Dialing
      BY <1>1 DEF KindsInOrder
    <2>1. /\ \A m \in 1..(n - 1) : m \in 1..Len(tries)
          /\ \A m \in 1..(n - 2) : m \in 1..Len(tries)
          /\ n > 1 => n - 1 \in 1..Len(tries)
      BY <1>1
    <2>2. \A m \in 1..Len(tries) : tries'[m].kind = tries[m].kind
      BY DEF SameTries
    <2>3. /\ tries[n].kind = "first" <=> n = 1
          /\ tries[n].kind # "report" => \A m \in 1..(n - 1) : tries[m].kind \in Dialing
          /\ n > 1 => /\ tries[n - 1].kind # "report"
                      /\ \A m \in 1..(n - 2) : tries[m].kind \in Dialing
      BY <1>1 DEF Reasons, KindsInOrder
    <2> QED
      BY <2>1, <2>2, <2>3
  <1>4. CallsAreFew'
    BY <1>1 DEF Reasons, CallsAreFew
  <1>5. CallsHaveReasons'
    <2> SUFFICES ASSUME NEW n \in 1..Len(tries)
                 PROVE  /\ tries'[n].kind = "retry" =>
                             Missed(n - 1)' /\ tries'[n].nominal <= RetryUntil
                        /\ tries'[n].kind = "follow_up" => Answered(n - 1)'
      BY <1>1 DEF CallsHaveReasons
    <2>1. tries'[n].kind = tries[n].kind /\ tries'[n].nominal = tries[n].nominal
      BY DEF SameTries
    <2>a. tries[n].kind = "first" <=> n = 1
      BY <1>1 DEF Reasons, KindsInOrder
    <2>b. n # 1 => n - 1 \in 1..Len(tries)
      BY <1>1
    <2>2. tries[n].kind # "first" => n - 1 \in 1..Len(tries)
      BY <2>a, <2>b
    <2>3. /\ tries[n].kind = "retry" => Missed(n - 1) /\ tries[n].nominal <= RetryUntil
          /\ tries[n].kind = "follow_up" => Answered(n - 1)
      BY <1>1 DEF Reasons, CallsHaveReasons
    <2> QED
      BY <1>2, <2>1, <2>2, <2>3
  <1>6. StepsAreJustified'
    <2>1. tries # <<>> => Len(tries) \in 1..Len(tries)
      BY <1>1
    <2>2. ASSUME NEW x, Justified(x) PROVE Justified(x)'
      <3>1. Len(tries') = Len(tries)
        BY DEF SameTries
      <3> QED
        BY <1>1, <1>2, <2>1, <2>2, <3>1 DEF Justified
    <2> QED
      BY <1>1, <2>2 DEF Reasons, StepsAreJustified
  <1>7. RowFitsSteps'
    <2>1. tries # <<>> => First <= now'
      BY DEF Reasons, RowFitsSteps, Types
    <2> QED
      BY <1>1, <2>1 DEF Reasons, RowFitsSteps
  <1> QED
    BY <1>3, <1>4, <1>5, <1>6, <1>7 DEF Reasons

\* A step of the schedule row alone.
LEMMA RowStepKeeps ==
  ASSUME PlanInv, NEW st \in {"ACTIVE", "PAUSED", "COMPLETED", "CANCELLED"},
         NEW next \in Nat, NEW f \in Nat,
         row' = [state |-> st, next |-> next, failures |-> f],
         next = row.next \/ next = None \/ (tries = <<>> /\ next = First),
         st \in {"COMPLETED", "CANCELLED"} => next = None,
         row.state \in {"COMPLETED", "CANCELLED"} => st \in {"COMPLETED", "CANCELLED"},
         tries' \in Seq(Try), SameTries, UNCHANGED <<now, step, ledgerVars>>
  PROVE  PlanInv'
  <1>0. Types /\ Reasons
    BY PlanInvIs
  <1>1. LedgerTypeOK' /\ LedgerIsTrue' /\ LedgerStands
    BY <1>0, LedgerRests DEF Types, Reasons
  <1>2. row' \in RowRecord /\ row'.state = st /\ row'.next = next
    BY DEF RowRecord
  <1>3. Types'
    BY <1>0, <1>1, <1>2 DEF Types, SameTries
  <1>4. now' >= now
    BY <1>0 DEF Types
  <1>5. Reasons'
    BY <1>0, <1>1, <1>2, <1>3, <1>4, RestKeeps
  <1> QED
    BY <1>3, <1>5, PlanInvNext

\* A step that leaves the schedule row alone.
LEMMA CallStepKeeps ==
  ASSUME PlanInv, LedgerTypeOK', LedgerIsTrue', LedgerStands, tries' \in Seq(Try), SameTries,
         now' \in 0..MaxTime, now' >= now, UNCHANGED <<row, step>>
  PROVE  PlanInv'
  <1>0. Types /\ Reasons
    BY PlanInvIs
  <1>1. Types'
    BY <1>0 DEF Types, SameTries
  <1>2. Reasons'
    BY <1>0, <1>1, RestKeeps
  <1> QED
    BY <1>1, <1>2, PlanInvNext

\* Tries that do not change are the same tries.
LEMMA SameTriesRefl == ASSUME tries' = tries PROVE SameTries
  BY DEF SameTries

\* A try whose run, hook or end is written remains the try it is.
LEMMA TryEdit ==
  ASSUME tries \in Seq(Try), NEW n \in DOMAIN tries, NEW x \in Try,
         x.kind = tries[n].kind, x.nominal = tries[n].nominal,
         tries[n].run \in Over => x.run \in Over,
         tries' = [tries EXCEPT ![n] = x]
  PROVE  tries' \in Seq(Try) /\ SameTries
  <1>1. n \in 1..Len(tries) /\ Len(tries) \in Nat
    OBVIOUS
  <1>2. tries' \in Seq(Try) /\ Len(tries') = Len(tries)
    OBVIOUS
  <1>3. \A m \in 1..Len(tries) : tries'[m] = IF m = n THEN x ELSE tries[m]
    OBVIOUS
  <1> QED
    BY <1>1, <1>2, <1>3 DEF SameTries

\* An end or a failure without an occurrence keeps the invariant.
LEMMA EndWithoutKeeps ==
  ASSUME PlanInv, NEW failed \in BOOLEAN, EndWithout(failed)
  PROVE  PlanInv'
  <1>0. Types
    BY PlanInvIs
  <1> DEFINE f == row.failures + (IF failed THEN 1 ELSE 0)
  <1>1. f \in Nat /\ None \in Nat
    BY <1>0 DEF Types, RowRecord, None
  <1>2. row' = [state |-> "COMPLETED", next |-> None, failures |-> f]
    BY DEF EndWithout
  <1>3. UNCHANGED <<now, tries, step, ledgerVars>>
    BY DEF EndWithout
  <1> HIDE DEF f
  <1> QED
    BY <1>0, <1>1, <1>2, <1>3, SameTriesRefl, RowStepKeeps DEF Types

\* Pause, resume and cancel keep the invariant.
LEMMA OwnerKeeps ==
  ASSUME PlanInv, Pause \/ Resume \/ Cancel
  PROVE  PlanInv'
  <1>0. Types /\ Reasons
    BY PlanInvIs
  <1>1. row \in RowRecord /\ row.failures \in Nat /\ row.next \in Nat /\ None \in Nat
    BY <1>0 DEF Types, RowRecord, None
  <1>2. tries \in Seq(Try)
    BY <1>0 DEF Types
  <1>3. CASE Pause
    <2>1. row' = [state |-> "PAUSED", next |-> None, failures |-> row.failures]
      BY <1>1, <1>3 DEF Pause, RowRecord
    <2>2. row.state = "ACTIVE" /\ UNCHANGED <<now, tries, step, ledgerVars>>
      BY <1>3 DEF Pause
    <2> QED
      BY <1>1, <1>2, <2>1, <2>2, SameTriesRefl, RowStepKeeps
  <1>4. CASE Resume
    <2>1. row' = [state |-> "ACTIVE", next |-> First, failures |-> row.failures]
      BY <1>1, <1>4 DEF Resume, RowRecord
    <2>2. row.state = "PAUSED" /\ UNCHANGED <<now, tries, step, ledgerVars>> /\ First > now
      BY <1>4 DEF Resume
    <2>3. tries = <<>>
      BY <1>0, <2>2 DEF Types, Reasons, RowFitsSteps
    <2> QED
      BY <1>1, <1>2, <2>1, <2>2, <2>3, SameTriesRefl, RowStepKeeps
  <1>5. CASE Cancel
    <2>1. row' = [state |-> "CANCELLED", next |-> None, failures |-> row.failures]
      BY <1>1, <1>5 DEF Cancel, RowRecord
    <2>2. row.state \in {"ACTIVE", "PAUSED"} /\ UNCHANGED <<now, tries, step, ledgerVars>>
      BY <1>5 DEF Cancel
    <2> QED
      BY <1>1, <1>2, <2>1, <2>2, SameTriesRefl, RowStepKeeps
  <1> QED
    BY <1>3, <1>4, <1>5

\* The accountant keeps the invariant.
LEMMA AccountKeeps == ASSUME PlanInv, NEW n \in DOMAIN tries, Account(n) PROVE PlanInv'
  <1>0. Types
    BY PlanInvIs
  <1>1. row \in RowRecord /\ tries \in Seq(Try) /\ tries[n] \in Try
    BY <1>0 DEF Types
  <1>2. PICK f \in Nat : f = IF tries[n].run = "COMPLETED" THEN 0
                             ELSE IF tries[n].run = "FAILED" THEN row.failures + 1
                             ELSE row.failures
    BY <1>1 DEF RowRecord
  <1>3. PICK st : st = IF tries[n].run = "FAILED" /\ f >= Limit /\ row.state = "ACTIVE"
                       THEN "PAUSED" ELSE row.state
    OBVIOUS
  <1>4. row' = [row EXCEPT !.failures = f, !.state = st]
    BY <1>2, <1>3 DEF Account
  <1>5. row' = [state |-> st, next |-> row.next, failures |-> f]
    BY <1>1, <1>4 DEF RowRecord
  <1>6. /\ st \in {"ACTIVE", "PAUSED", "COMPLETED", "CANCELLED"} /\ row.next \in Nat
        /\ row.state \in {"COMPLETED", "CANCELLED"} <=> st \in {"COMPLETED", "CANCELLED"}
    BY <1>1, <1>3 DEF RowRecord
  <1>7. st \in {"COMPLETED", "CANCELLED"} => row.next = None
    BY <1>0, <1>6 DEF Types
  <1> DEFINE x == [tries[n] EXCEPT !.hook = FALSE]
  <1>8. tries' = [tries EXCEPT ![n] = x] /\ UNCHANGED <<now, step, ledgerVars>>
    BY <1>1 DEF Account
  <1>9. /\ x \in Try /\ x.kind = tries[n].kind /\ x.nominal = tries[n].nominal
        /\ x.run = tries[n].run
    BY <1>1 DEF Try
  <1> HIDE DEF x
  <1>10. tries' \in Seq(Try) /\ SameTries
    BY <1>1, <1>8, <1>9, TryEdit
  <1> QED
    BY <1>5, <1>6, <1>7, <1>8, <1>10, RowStepKeeps

\* The steps of a run and of its call keep the invariant.
LEMMA RunAndCallKeep ==
  ASSUME PlanInv, NEW n \in DOMAIN tries,
         \/ RunCalls(n) \/ CallFinishes(n) \/ ResultArrives(n)
         \/ \E s \in Over : RunEnds(n, s)
  PROVE  PlanInv'
  <1>0. Types /\ Reasons
    BY PlanInvIs
  <1>1. /\ tries \in Seq(Try) /\ tries[n] \in Try
        /\ now \in 0..MaxTime /\ now \in Nat /\ now >= now
        /\ LedgerTypeOK /\ LedgerIsTrue
    BY <1>0 DEF Types, Reasons
  <1>2. \A k \in CallsOf(n) : k \in Call /\ RunOf[k] = n
    BY DEF CallsOf
  <1>3. CASE RunCalls(n) \/ ResultArrives(n)
    <2>1. UNCHANGED <<now, row, tries, step>>
      BY <1>3 DEF RunCalls, ResultArrives, planVars
    <2>2. PICK k \in CallsOf(n) : \/ Open(k) /\ tries[RunOf[k]].run \notin Over
                                 \/ Place(k) \/ GiveUp(k) \/ Close(k)
      <3>1. "active" \notin Over
        BY DEF Over
      <3> QED
        BY <1>2, <1>3, <3>1 DEF RunCalls, ResultArrives
    <2>3. LedgerTypeOK' /\ LedgerIsTrue' /\ LedgerStands
      BY <1>1, <1>2, <2>2, LedgerMoves
    <2> QED
      BY <1>1, <2>1, <2>3, SameTriesRefl, CallStepKeeps
  <1>4. CASE CallFinishes(n)
    <2> PICK k \in CallsOf(n) :
          /\ End(k)
          /\ tries' = [tries EXCEPT ![n].ended =
                         IF truth'[k] = "completed" /\ @ = None THEN now ELSE @]
      BY <1>4 DEF CallFinishes
    <2>1. LedgerTypeOK' /\ LedgerIsTrue' /\ LedgerStands
      BY <1>1, <1>2, LedgerMoves
    <2> DEFINE at == IF truth'[k] = "completed" /\ tries[n].ended = None
                     THEN now ELSE tries[n].ended
               x == [tries[n] EXCEPT !.ended = at]
    <2>2. tries' = [tries EXCEPT ![n] = x] /\ UNCHANGED <<now, row, step>>
      BY <1>1, <1>4 DEF CallFinishes
    <2>a. at \in Nat
      BY <1>1 DEF Try
    <2> HIDE DEF at
    <2>3. /\ x \in Try /\ x.kind = tries[n].kind /\ x.nominal = tries[n].nominal
          /\ x.run = tries[n].run
      BY <1>1, <2>a DEF Try
    <2> HIDE DEF x
    <2>4. tries' \in Seq(Try) /\ SameTries
      BY <1>1, <2>2, <2>3, TryEdit
    <2> QED
      BY <1>1, <2>1, <2>2, <2>4, CallStepKeeps
  <1>5. ASSUME NEW s \in Over, RunEnds(n, s) PROVE PlanInv'
    <2>1. LedgerTypeOK' /\ LedgerIsTrue' /\ LedgerStands
      BY <1>1, <1>5, LedgerRests DEF RunEnds
    <2> DEFINE x == [tries[n] EXCEPT !.run = s, !.hook = TRUE]
    <2>2. tries' = [tries EXCEPT ![n] = x] /\ UNCHANGED <<now, row, step>>
      BY <1>1, <1>5 DEF RunEnds
    <2>3. /\ x \in Try /\ x.kind = tries[n].kind /\ x.nominal = tries[n].nominal
          /\ x.run \in Over
      BY <1>1 DEF Try
    <2> HIDE DEF x
    <2>4. tries' \in Seq(Try) /\ SameTries
      BY <1>1, <2>2, <2>3, TryEdit
    <2> QED
      BY <1>1, <2>1, <2>2, <2>4, CallStepKeeps
  <1> QED
    BY <1>3, <1>4, <1>5

\* The clock keeps the invariant.
LEMMA TickKeeps == ASSUME PlanInv, Tick PROVE PlanInv'
  <1>0. Types /\ Reasons
    BY PlanInvIs
  <1>1. now' \in 0..MaxTime /\ now' >= now
    BY <1>0 DEF Types, Tick
  <1>2. LedgerTypeOK' /\ LedgerIsTrue' /\ LedgerStands
    BY <1>0, LedgerRests DEF Types, Reasons, Tick
  <1>3. tries' \in Seq(Try) /\ SameTries /\ UNCHANGED <<row, step>>
    BY <1>0, SameTriesRefl DEF Types, Tick
  <1> QED
    BY <1>1, <1>2, <1>3, CallStepKeeps

-----------------------------------------------------------------------------
(* Firing and planning *)

\* 1..k has k elements.
LEMMA CardinalityUpTo == ASSUME NEW k \in Nat PROVE Cardinality(1..k) = k
  BY FS_Interval

\* The calls of a plan whose first k tries are its calls.
LEMMA CallsAre ==
  ASSUME tries \in Seq(Try), NEW k \in 0..Len(tries),
         \A m \in 1..k : tries[m].kind \in Dialing,
         \A m \in (k + 1)..Len(tries) : tries[m].kind \notin Dialing
  PROVE  Calls = k
  <1>1. Len(tries) \in Nat /\ DOMAIN tries = 1..Len(tries)
    OBVIOUS
  <1>2. {n \in DOMAIN tries : tries[n].kind \in {"first", "retry"}} = 1..k
    BY <1>1 DEF Dialing
  <1>3. Cardinality(1..k) = k
    BY <1>1, CardinalityUpTo
  <1> QED
    BY <1>2, <1>3 DEF Calls

\* Until it reports, a plan has tried once per call and at most a follow-up.
LEMMA RoomForTheNext ==
  ASSUME Types, Reasons, tries # <<>> => Last.kind # "report"
  PROVE  Attempt \in Attempts /\ Attempt = Len(tries) + 1 /\ Len(tries) \in Nat
  <1>1. Len(tries) \in Nat /\ DOMAIN tries = 1..Len(tries) /\ tries \in Seq(Try)
    BY DEF Types
  <1>2. CASE tries = <<>>
    <2>1. Len(tries) = 0
      BY <1>2
    <2> QED
      BY <1>1, <2>1, MaxCallsType DEF Attempt, Attempts
  <1>3. CASE tries # <<>>
    <2>1. Len(tries) >= 1 /\ Len(tries) \in 1..Len(tries)
      BY <1>1, <1>3
    <2>2. \A m \in 1..(Len(tries) - 1) : tries[m].kind \in Dialing
      BY <1>1, <1>3, <2>1 DEF Reasons, KindsInOrder, Last
    <2>3. Calls <= MaxCalls
      BY DEF Reasons, CallsAreFew
    <2>4. CASE Last.kind \in Dialing
      <3>1. \A m \in 1..Len(tries) : tries[m].kind \in Dialing
        BY <1>1, <2>1, <2>2, <2>4 DEF Last
      <3>2. Calls = Len(tries)
        BY <1>1, <3>1, CallsAre
      <3> QED
        BY <1>1, <2>3, <3>2, MaxCallsType DEF Attempt, Attempts
    <2>5. CASE Last.kind \notin Dialing
      <3>1. \A m \in ((Len(tries) - 1) + 1)..Len(tries) : tries[m].kind \notin Dialing
        BY <1>1, <2>1, <2>5 DEF Last
      <3>2. Len(tries) - 1 \in 0..Len(tries)
        BY <1>1, <2>1
      <3>3. Calls = Len(tries) - 1
        BY <1>1, <2>2, <3>1, <3>2, CallsAre
      <3> QED
        BY <1>1, <2>1, <2>3, <3>3, MaxCallsType DEF Attempt, Attempts
    <2> QED
      BY <2>4, <2>5
  <1> QED
    BY <1>2, <1>3

\* The sweep records a step only with the result of the last call in hand.
LEMMA SweepKeeps == ASSUME PlanInv, Sweep PROVE PlanInv'
  <1>0. Types /\ Reasons
    BY PlanInvIs
  <1>1. /\ row.state = "ACTIVE" /\ row.next = None
        /\ tries # <<>> /\ Last.kind # "report"
        /\ step' = [step EXCEPT ![Attempt] = IF @ = NoStep THEN NextStep ELSE @]
        /\ row' = [row EXCEPT !.next = step'[Attempt].fire_at]
        /\ UNCHANGED <<now, tries, ledgerVars>>
    BY DEF Sweep
  <1>2. Attempt \in Attempts /\ Attempt = Len(tries) + 1 /\ Len(tries) \in Nat
    BY <1>0, <1>1, RoomForTheNext
  <1>3. /\ Len(tries) \in DOMAIN tries
        /\ Last \in Try /\ now \in Nat /\ First <= now
    <2>1. Len(tries) \in 1..Len(tries) /\ tries \in Seq(Try)
      BY <1>0, <1>1, <1>2 DEF Types
    <2>2. now \in Nat /\ First <= now
      BY <1>0, <1>1 DEF Types, Reasons, RowFitsSteps
    <2> QED
      BY <2>1, <2>2 DEF Last
  <1>4. NextStep \in StepRecord /\ Justified(NextStep)
    <2> DEFINE result == ResultOf(Len(tries))
               retry_at == Later(now, Last.nominal + RetryEvery)
               follow_at == Later(now, Last.ended + FollowUpAfter)
    <2>1. /\ retry_at \in Nat /\ retry_at >= First
          /\ follow_at \in Nat /\ follow_at >= First
          /\ Report.fire_at \in Nat /\ Report.fire_at >= First
      <3>1. /\ Last.nominal \in Nat /\ Last.ended \in Nat /\ now \in Nat /\ First <= now
            /\ First \in Nat /\ RetryEvery \in Nat /\ FollowUpAfter \in Nat
        BY <1>3 DEF Try
      <3>2. \A a, b \in Nat : Later(a, b) \in Nat /\ Later(a, b) >= a
        BY DEF Later
      <3>3. Last.nominal + RetryEvery \in Nat /\ Last.ended + FollowUpAfter \in Nat
        BY <3>1
      <3>4. retry_at \in Nat /\ retry_at >= now /\ follow_at \in Nat /\ follow_at >= now
        BY <3>1, <3>2, <3>3
      <3>5. Report.fire_at \in Nat /\ Report.fire_at >= now
        <4>1. Report.fire_at = Later(now, Last.nominal + 1)
          BY DEF Report
        <4>2. Last.nominal + 1 \in Nat
          BY <3>1
        <4> QED
          BY <4>1, <4>2, <3>1, <3>2
      <3> QED
        BY <3>1, <3>4, <3>5
    <2>2. /\ result = "answered" => Answered(Len(tries))
          /\ result \in NotReached => Missed(Len(tries))
      <3> DEFINE seen == Statuses(Len(tries))
      <3>1. \A k \in CallsOf(Len(tries)) : /\ ledger[k] = "none" \/ ledger[k] \in seen
                                           /\ ledger[k] \in {"none", "open", "not_dispatched",
                                                            "completed", "no_answer"}
        BY <1>0 DEF Types, LedgerTypeOK, Result, CallsOf, Statuses
      <3>2. \A s \in seen : \E k \in CallsOf(Len(tries)) : ledger[k] = s
        BY DEF Statuses
      <3>3. /\ result = "answered" => "completed" \in seen
            /\ result \in NotReached =>
                 /\ tries[Len(tries)].run \in Over
                 /\ "no_answer" \in seen /\ "completed" \notin seen /\ "open" \notin seen
        BY DEF ResultOf, NotReached
      <3> HIDE DEF seen, result
      <3> QED
        BY <3>1, <3>2, <3>3 DEF Missed, Answered
    <2>3. Last.kind # "follow_up" => Last.kind \in Dialing
      BY <1>1, <1>3 DEF Try, Dialing
    <2>4. \/ NextStep = Report
          \/ /\ NextStep = [kind |-> "follow_up", fire_at |-> follow_at]
             /\ Last.kind # "follow_up" /\ result = "answered"
          \/ /\ NextStep = [kind |-> "retry", fire_at |-> retry_at]
             /\ Last.kind # "follow_up" /\ result \in NotReached /\ RetryLeft(retry_at)
      BY DEF NextStep
    <2> HIDE DEF result, retry_at, follow_at
    <2>5. CASE NextStep = Report
      BY <1>1, <2>1, <2>5 DEF Report, StepRecord, Justified
    <2>6. CASE NextStep = [kind |-> "follow_up", fire_at |-> follow_at]
               /\ Last.kind # "follow_up" /\ result = "answered"
      BY <1>1, <2>1, <2>2, <2>3, <2>6 DEF StepRecord, Justified
    <2>7. CASE NextStep = [kind |-> "retry", fire_at |-> retry_at]
               /\ Last.kind # "follow_up" /\ result \in NotReached /\ RetryLeft(retry_at)
      BY <1>1, <2>1, <2>2, <2>3, <2>7 DEF StepRecord, Justified, RetryLeft
    <2> QED
      BY <2>4, <2>5, <2>6, <2>7
  <1>5. NextStep # NoStep
    BY <1>4 DEF Justified, NoStep
  <1>6. /\ step' \in [Attempts -> StepRecord]
        /\ \A n \in Attempts \ {Attempt} : step'[n] = step[n]
        /\ step'[Attempt] # NoStep /\ Justified(step'[Attempt])
    <2>1. step[Attempt] # NoStep => Justified(step[Attempt])
      BY <1>0, <1>2 DEF Reasons, StepsAreJustified
    <2> QED
      BY <1>0, <1>1, <1>2, <1>4, <1>5, <2>1 DEF Types
  <1>7. LedgerTypeOK' /\ LedgerIsTrue' /\ LedgerStands
    BY <1>0, <1>1, LedgerRests DEF Types, Reasons
  <1>8. row' \in RowRecord /\ row'.state = "ACTIVE" /\ row'.next = step'[Attempt].fire_at
    <2>1. step'[Attempt].fire_at \in Nat
      BY <1>2, <1>6 DEF StepRecord
    <2> QED
      BY <1>0, <1>1, <2>1 DEF Types, RowRecord
  <1>9. Types'
    BY <1>0, <1>1, <1>6, <1>7, <1>8 DEF Types
  <1>10. /\ Attempt' = Attempt /\ Last' = Last /\ Calls' = Calls
         /\ \A n : (Missed(n)' <=> Missed(n)) /\ (Answered(n)' <=> Answered(n))
    BY <1>1 DEF Attempt, Last, Calls, ledgerVars, Missed, Answered, CallsOf
  <1>11. KindsInOrder' /\ CallsAreFew' /\ CallsHaveReasons'
    BY <1>0, <1>1, <1>10 DEF Reasons, KindsInOrder, CallsAreFew, CallsHaveReasons
  <1>12. StepsAreJustified'
    <2>1. ASSUME NEW x, Justified(x) PROVE Justified(x)'
      BY <1>1, <1>10, <2>1 DEF Justified
    <2>2. \A n \in Attempts : n > Attempt => n # Attempt
      BY <1>2 DEF Attempts
    <2> QED
      BY <1>0, <1>6, <1>10, <2>1, <2>2 DEF Reasons, StepsAreJustified
  <1>13. RowFitsSteps'
    <2>1. step'[Attempt].fire_at >= First
      BY <1>6 DEF Justified
    <2> QED
      BY <1>1, <1>3, <1>6, <1>8, <1>10, <2>1 DEF RowFitsSteps
  <1> QED
    BY <1>7, <1>9, <1>11, <1>12, <1>13, PlanInvNext DEF Reasons

\* The scheduler fires the first call or the step that was recorded.
LEMMA FireKeeps == ASSUME PlanInv, Fire PROVE PlanInv'
  <1>0. Types /\ Reasons
    BY PlanInvIs
  <1> DEFINE N == Len(tries)
             x == [kind |-> Kind, nominal |-> row.next, at |-> now,
                   run |-> "active", hook |-> FALSE, ended |-> None]
  <1>1. /\ row.state = "ACTIVE" /\ row.next # None /\ row.next <= now
        /\ Kind # "none"
        /\ tries' = Append(tries, x)
        /\ row' = [row EXCEPT !.next = None,
                              !.state = IF Kind = "report" THEN "COMPLETED" ELSE "ACTIVE"]
        /\ UNCHANGED <<now, step, ledgerVars>>
    BY DEF Fire, Due
  <1>2. tries # <<>> => Last.kind # "report"
    BY <1>0, <1>1 DEF Reasons, RowFitsSteps
  <1>3. Attempt \in Attempts /\ Attempt = N + 1 /\ N \in Nat /\ N + 1 <= MaxCalls + 2
    BY <1>0, <1>2, RoomForTheNext, MaxCallsType DEF Attempts
  <1>4. (tries = <<>> <=> N = 0) /\ DOMAIN tries = 1..N /\ tries \in Seq(Try)
    BY <1>0 DEF Types
  <1>5. N > 0 => /\ step[N + 1] # NoStep /\ Justified(step[N + 1])
                 /\ row.next = step[N + 1].fire_at /\ Kind = step[N + 1].kind
    <2> SUFFICES ASSUME N > 0 PROVE /\ step[N + 1] # NoStep /\ Justified(step[N + 1])
                                    /\ row.next = step[N + 1].fire_at /\ Kind = step[N + 1].kind
      OBVIOUS
    <2>1. step[N + 1] # NoStep /\ row.next = step[N + 1].fire_at
      BY <1>0, <1>1, <1>3, <1>4 DEF Reasons, RowFitsSteps
    <2>2. Justified(step[N + 1])
      BY <1>0, <1>3, <2>1 DEF Reasons, StepsAreJustified
    <2>3. Kind = step[N + 1].kind
      BY <1>3 DEF Kind
    <2> QED
      BY <2>1, <2>2, <2>3
  <1>6. N = 0 => Kind = "first"
    BY <1>3 DEF Kind
  <1>7. N > 0 => Kind \in {"retry", "follow_up", "report"}
    BY <1>5 DEF Justified
  <1>8. x \in Try /\ x.kind = Kind /\ x.nominal = row.next
    <2>1. Kind \in {"first", "retry", "follow_up", "report"}
      BY <1>3, <1>6, <1>7
    <2>2. row.next \in Nat /\ now \in Nat /\ None \in Nat
      BY <1>0 DEF Types, RowRecord, None
    <2> QED
      BY <2>1, <2>2 DEF Try
  <1> HIDE DEF x
  <1>9. /\ tries' \in Seq(Try) /\ Len(tries') = N + 1 /\ DOMAIN tries' = 1..(N + 1)
        /\ \A m \in 1..N : tries'[m] = tries[m]
        /\ tries'[N + 1] = x
        /\ tries' # <<>>
    BY <1>1, <1>4, <1>8
  <1>10. Last' = x /\ Attempt' = N + 2
    BY <1>3, <1>9 DEF Last, Attempt
  <1> HIDE DEF N
  <1>11. /\ LedgerTypeOK' /\ LedgerIsTrue'
         /\ \A n \in 1..N : (Missed(n)' <=> Missed(n)) /\ (Answered(n)' <=> Answered(n))
    <2>1. LedgerTypeOK' /\ LedgerIsTrue' /\ ledger' = ledger
      BY <1>0, <1>1, LedgerRests DEF Types, Reasons, ledgerVars
    <2> QED
      BY <1>9, <2>1 DEF Missed, Answered, CallsOf
  <1>12. /\ row' \in RowRecord /\ row'.next = None
         /\ row'.state = IF Kind = "report" THEN "COMPLETED" ELSE "ACTIVE"
    BY <1>0, <1>1 DEF Types, RowRecord, None
  <1>13. Types'
    BY <1>0, <1>1, <1>3, <1>9, <1>11, <1>12 DEF Types
  <1>14. N > 0 => N \in DOMAIN tries /\ Last = tries[N]
    BY <1>3, <1>4 DEF Last, N
  <1>15. Kind # "report" => \A m \in 1..N : tries[m].kind \in Dialing
    <2> SUFFICES ASSUME Kind # "report", N > 0 PROVE \A m \in 1..N : tries[m].kind \in Dialing
      BY <1>3
    <2>1. tries[N].kind \in Dialing
      BY <1>5, <1>14 DEF Justified
    <2>2. \A m \in 1..(N - 1) : tries[m].kind \in Dialing
      BY <1>0, <1>14, <2>1 DEF Reasons, KindsInOrder, Dialing
    <2> QED
      BY <1>3, <2>1, <2>2
  <1>16. KindsInOrder'
    <2> DEFINE Ordered(t, n) ==
          /\ t[n].kind = "first" <=> n = 1
          /\ t[n].kind # "report" => \A m \in 1..(n - 1) : t[m].kind \in Dialing
          /\ n > 1 => /\ t[n - 1].kind # "report"
                      /\ \A m \in 1..(n - 2) : t[m].kind \in Dialing
    <2>1. ASSUME NEW n \in 1..N PROVE Ordered(tries', n)
      <3>1. Ordered(tries, n)
        BY <1>0, <1>4 DEF Reasons, KindsInOrder
      <3>2. /\ \A m \in 1..(n - 1) : m \in 1..N
            /\ \A m \in 1..(n - 2) : m \in 1..N
            /\ n > 1 => n - 1 \in 1..N
        BY <1>3
      <3> QED
        BY <1>9, <3>1, <3>2
    <2>2. Ordered(tries', N + 1)
      <3>1. tries'[N + 1].kind = Kind
        BY <1>8, <1>9
      <3>2. Kind = "first" <=> N + 1 = 1
        BY <1>3, <1>6, <1>7
      <3>3. Kind # "report" => \A m \in 1..((N + 1) - 1) : tries'[m].kind \in Dialing
        BY <1>3, <1>9, <1>15
      <3>4. ASSUME N + 1 > 1
            PROVE  /\ tries'[(N + 1) - 1].kind # "report"
                   /\ \A m \in 1..((N + 1) - 2) : tries'[m].kind \in Dialing
        <4>1. N > 0 /\ (N + 1) - 1 = N /\ (N + 1) - 2 = N - 1 /\ N \in 1..N
          BY <1>3, <3>4
        <4>2. tries[N].kind # "report"
          BY <1>2, <1>4, <1>14, <4>1
        <4>a. KindsInOrder
          BY <1>0 DEF Reasons
        <4>b. \A m \in 1..(N - 1) : tries[m].kind \in Dialing
          BY <1>14, <4>1, <4>2, <4>a DEF KindsInOrder
        <4>3. \A m \in 1..(N - 1) : tries[m].kind \in Dialing /\ m \in 1..N
          BY <1>3, <4>b
        <4> QED
          BY <1>9, <4>1, <4>2, <4>3
      <3> QED
        BY <3>1, <3>2, <3>3, <3>4
    <2> HIDE DEF Ordered
    <2>3. \A n \in 1..(N + 1) : Ordered(tries', n)
      BY <1>3, <2>1, <2>2
    <2> QED
      BY <1>9, <2>3 DEF Ordered, KindsInOrder
  <1>17. CallsAreFew'
    <2> DEFINE D(t) == {n \in DOMAIN t : t[n].kind \in {"first", "retry"}}
    <2>1. Calls = Cardinality(D(tries)) /\ Calls' = Cardinality(D(tries'))
      BY DEF Calls
    <2>2. CASE Kind \in Dialing
      <3>1. \A m \in 1..(N + 1) : tries'[m].kind \in Dialing
        BY <1>3, <1>8, <1>9, <1>15, <2>2 DEF Dialing
      <3>2. D(tries') = 1..(N + 1) /\ D(tries) = 1..N
        BY <1>4, <1>9, <1>15, <2>2, <3>1 DEF Dialing
      <3>3. Calls' = N + 1 /\ Calls = N
        <4>1. Cardinality(1..(N + 1)) = N + 1 /\ Cardinality(1..N) = N
          BY <1>3, CardinalityUpTo
        <4> HIDE DEF D
        <4> QED
          BY <2>1, <3>2, <4>1
      <3>4. N = 0 \/ Kind = "retry"
        BY <1>3, <1>7, <2>2 DEF Dialing
      <3>5. N > 0 => Calls < MaxCalls
        BY <1>5, <1>7, <3>4 DEF Justified
      <3> QED
        BY <1>3, <3>3, <3>5, MaxCallsType DEF CallsAreFew
    <2>3. CASE Kind \notin Dialing
      <3>1. D(tries') = D(tries)
        BY <1>3, <1>4, <1>8, <1>9, <2>3 DEF Dialing
      <3> QED
        BY <1>0, <2>1, <3>1 DEF Reasons, CallsAreFew
    <2> QED
      BY <2>2, <2>3
  <1>18. CallsHaveReasons'
    <2>1. ASSUME NEW m \in 1..N, m = N
          PROVE  /\ Kind = "retry" => Missed(m)' /\ row.next <= RetryUntil
                 /\ Kind = "follow_up" => Answered(m)'
      <3>1. N > 0
        BY <1>3, <2>1
      <3>2. N = Len(tries)
        BY DEF N
      <3>3. /\ Kind = "retry" => Missed(m) /\ row.next <= RetryUntil
            /\ Kind = "follow_up" => Answered(m)
        BY <1>5, <2>1, <3>1, <3>2 DEF Justified
      <3> QED
        BY <1>11, <3>3
    <2> SUFFICES ASSUME NEW n \in 1..(N + 1)
                 PROVE  /\ tries'[n].kind = "retry" =>
                             Missed(n - 1)' /\ tries'[n].nominal <= RetryUntil
                        /\ tries'[n].kind = "follow_up" => Answered(n - 1)'
      BY <1>9 DEF CallsHaveReasons
    <2>3. CASE n = N + 1
      <3>1. tries'[n].kind = Kind /\ tries'[n].nominal = row.next
        BY <1>8, <1>9, <2>3
      <3>2. N # 0 => n - 1 \in 1..N /\ n - 1 = N
        BY <1>3, <2>3
      <3> QED
        BY <1>6, <2>1, <3>1, <3>2
    <2>4. CASE n # N + 1
      <3>1. n \in 1..N /\ (n # 1 => n - 1 \in 1..N)
        BY <1>3, <2>4
      <3>2. /\ tries[n].kind = "first" <=> n = 1
            /\ tries[n].kind = "retry" => Missed(n - 1) /\ tries[n].nominal <= RetryUntil
            /\ tries[n].kind = "follow_up" => Answered(n - 1)
        BY <1>0, <1>4, <3>1 DEF Reasons, KindsInOrder, CallsHaveReasons
      <3> QED
        BY <1>9, <1>11, <3>1, <3>2
    <2> QED
      BY <2>3, <2>4
  <1>19. StepsAreJustified'
    <2>1. \A n \in Attempts : n >= N + 2 => step[n] = NoStep
      BY <1>0, <1>3 DEF Reasons, StepsAreJustified, Attempts
    <2>2. step' = step
      BY <1>1
    <2> QED
      BY <1>3, <1>10, <2>1, <2>2 DEF StepsAreJustified, Attempts
  <1>20. RowFitsSteps'
    <2>1. First <= now
      BY <1>0, <1>1 DEF Reasons, RowFitsSteps, Types, RowRecord
    <2>2. now' = now
      BY <1>1
    <2> QED
      BY <1>8, <1>10, <1>12, <2>1, <2>2 DEF RowFitsSteps
  <1> QED
    BY <1>11, <1>13, <1>16, <1>17, <1>18, <1>19, <1>20, PlanInvNext DEF Reasons

\* Every step keeps the invariant.
LEMMA PlanStep == PlanInv /\ [Next]_vars => PlanInv'
  <1> SUFFICES ASSUME PlanInv, [Next]_vars PROVE PlanInv'
    OBVIOUS
  <1>1. CASE Materialize
    BY <1>1, EndWithoutKeeps, FireKeeps DEF Materialize, SkipOverlap, Miss, Deny
  <1>2. CASE UNCHANGED vars
    <2>1. Types /\ Reasons
      BY PlanInvIs
    <2>2. /\ LedgerTypeOK' /\ LedgerIsTrue' /\ LedgerStands
          /\ now' \in 0..MaxTime /\ now' >= now
          /\ tries' \in Seq(Try) /\ SameTries /\ UNCHANGED <<row, step>>
      BY <1>2, <2>1, LedgerRests, SameTriesRefl DEF Types, Reasons, vars, planVars
    <2> QED
      BY <2>2, CallStepKeeps
  <1> QED
    BY <1>1, <1>2, SweepKeeps, RunAndCallKeep, AccountKeeps, OwnerKeeps, TickKeeps DEF Next

\* The invariant holds.
LEMMA PlanInvariant == Spec => []PlanInv
  BY PlanStart, PlanStep, PTL DEF Spec

-----------------------------------------------------------------------------
(* The results *)

\* Every value of a plan, its schedule row, its tries and its recorded steps has
\* its type; in particular a plan never needs more attempts than its calls, one
\* follow-up and one report.
THEOREM PlanTypeCorrect == Spec => []TypeOK
  <1>1. PlanInv => TypeOK
    BY DEF PlanInv
  <1> QED
    BY <1>1, PlanInvariant, PTL

\* For every retry window and follow-up delay, whatever scheduler, sweep, runs,
\* calls, owner and clock do, and however many calls each run places: a retry needs
\* a run all of whose calls ended unanswered, a follow-up one that was answered, and
\* a plan never fires beyond the owner's limits.
THEOREM PlanNextCallIsWarranted == Spec => []NextCallIsWarranted
  <1>1. PlanInv => NextCallIsWarranted
    <2> SUFFICES ASSUME PlanInv PROVE NextCallIsWarranted
      OBVIOUS
    <2>0. Types /\ Reasons
      BY PlanInvIs
    <2>1. Calls <= MaxCalls
      BY <2>0 DEF Reasons, CallsAreFew
    <2>2. ASSUME NEW n \in DOMAIN tries, n > 1, tries[n - 1].kind = "follow_up"
          PROVE  tries[n].kind = "report"
      <3> SUFFICES ASSUME tries[n].kind # "report" PROVE FALSE
        OBVIOUS
      <3>1. n - 1 \in 1..(n - 1)
        BY <2>0, <2>2 DEF Types
      <3>2. tries[n - 1].kind \in Dialing
        BY <2>0, <3>1 DEF Reasons, KindsInOrder
      <3> QED
        BY <2>2, <3>2 DEF Dialing
    <2>3. \A n \in DOMAIN tries :
            /\ tries[n].kind = "retry" => Missed(n - 1) /\ tries[n].nominal <= RetryUntil
            /\ tries[n].kind = "follow_up" => Answered(n - 1)
            /\ n > 1 => tries[n - 1].kind # "report"
      BY <2>0 DEF Reasons, KindsInOrder, CallsHaveReasons
    <2>4. ASSUME NEW n
          PROVE  /\ Missed(n) => /\ \E k \in CallsOf(n) : truth[k] = "no_answer"
                                 /\ \A k \in CallsOf(n) : truth[k] \in {"none", "no_answer"}
                 /\ Answered(n) => \E k \in CallsOf(n) : truth[k] = "completed"
      <3>1. \A k \in CallsOf(n) : k \in Call
        BY DEF CallsOf
      <3>2. \A k \in CallsOf(n) :
              /\ ledger[k] = "no_answer" => truth[k] = "no_answer"
              /\ ledger[k] = "completed" => truth[k] = "completed"
              /\ ledger[k] \in {"none", "not_dispatched"} => truth[k] = "none"
        BY <2>0, <3>1 DEF Reasons, LedgerIsTrue, Result
      <3> QED
        BY <3>2 DEF Missed, Answered
    <2> QED
      BY <2>1, <2>2, <2>3, <2>4 DEF NextCallIsWarranted
  <1> QED
    BY <1>1, PlanInvariant, PTL
=============================================================================
