---------------------- MODULE NotificationOutboxProofs ----------------------
(***************************************************************************)
(* Proofs about the notification outbox, for any number of dispatchers,    *)
(* devices, tokens and retry delays, and any lease.                        *)
(*                                                                         *)
(* The attempt number of a claim is what the argument turns on: dispatchers*)
(* at work have different ones, and an attempt whose claim was not taken   *)
(* over is the row's latest, so its ledger rows are written before the     *)
(* next attempt reads the ledger.                                          *)
(***************************************************************************)
EXTENDS NotificationOutbox, TLAPS

USE DevicesAssumption, OutboxAssumption

-----------------------------------------------------------------------------
(* The inductive invariant *)

AtWork(p) == work[p].pc # "idle"

\* Dispatchers at work have different attempts, and the claim of an attempt at
\* work is the row's or was taken over.
AttemptsAreApart ==
  \A p \in Dispatcher : AtWork(p) =>
    /\ work[p].attempt \in 1..row.attempts
    /\ work[p].attempt \in lost \/ (work[p].attempt = row.attempts /\ row.claimed)
    /\ \A q \in Dispatcher : AtWork(q) /\ work[q].attempt = work[p].attempt => q = p

\* What a dispatcher holds at each step: targets with a token and no outcome
\* yet, none before it has read them and none when it records.
Fits(x) ==
  /\ x.pc \in {"idle", "open", "release"} =>
       x.todo = {} /\ \A d \in Device : x.out[d] = "none"
  /\ x.pc = "record" => x.todo = {}
  /\ \A d \in Device :
       /\ d \in x.todo => x.out[d] = "none"
       /\ d \in x.todo \/ x.out[d] # "none" => x.token[d] # NoToken

WorkFitsStep == \A p \in Dispatcher : Fits(work[p])

\* A dispatcher that knows of no targets of others accounts for every addressed
\* device it read a token of.
TargetsAreCovered ==
  \A p \in Dispatcher :
    work[p].pc \in {"check", "send", "record", "release"} /\ ~work[p].others =>
      \A d \in Addressed : work[p].token[d] # NoToken =>
        d \in work[p].todo \/ work[p].out[d] # "none" \/ d \in TerminalDevices

\* A push that arrived in an attempt at work is among its outcomes.
SentIsKnown ==
  \A p \in Dispatcher : AtWork(p) =>
    \A d \in Device : work[p].attempt \in got[d] => work[p].out[d] \in {"DELIVERED", "RETRY"}

\* A push that arrived is in the ledger, or its claim was lost or still stands.
SentIsAccounted ==
  \A d \in Device : \A m \in got[d] :
    /\ m \in 1..row.attempts
    /\ \/ m \in lost
       \/ m = row.attempts /\ row.claimed
       \/ \E o \in {"DELIVERED", "RETRY"} : [dev |-> d, attempt |-> m, outcome |-> o] \in deliveries

\* After a last word in the ledger, of a claim that was not lost, the device is
\* not sent to and not a target any more.
LastWordStands ==
  \A r \in deliveries :
    /\ r.attempt \in 1..row.attempts
    /\ r.outcome # "RETRY" /\ r.attempt \notin lost =>
         /\ \A n \in got[r.dev] : n <= r.attempt
         /\ \A p \in Dispatcher :
              AtWork(p) /\ work[p].attempt > r.attempt => r.dev \notin work[p].todo

\* Only an active device holds a token.
HoldersAreActive == \A d \in Device : device[d].token # NoToken => device[d].status = "ACTIVE"

DevicesInv == DeviceType /\ HoldersAreActive /\ TokenHasOneDevice

\* What makes the dispatchers' work add up.
Ledgers ==
  /\ AttemptsAreApart
  /\ WorkFitsStep
  /\ TargetsAreCovered
  /\ SentIsKnown
  /\ SentIsAccounted
  /\ LastWordStands

\* The inductive invariant of the outbox.
OutboxInv == TypeOK /\ DevicesInv /\ Ledgers /\ FailureIsEarned

-----------------------------------------------------------------------------
(* The device registry *)

DeviceRecord == [status: {"none", "ACTIVE", "REVOKED", "deleted"}, token: Token \cup {NoToken}]

EventKeys == ({"revoked"} \X Device \X {NoToken}) \cup ({"invalidated"} \X Device \X Token)

\* The registry starts in a state of its invariant.
LEMMA DevicesStart == ASSUME DeviceInit(Registered) PROVE DevicesInv
  <1>1. PICK t \in [Registered -> Token] :
          /\ \A c, d \in Registered : c # d /\ Provider[c] = Provider[d] => t[c] # t[d]
          /\ device = [d \in Device |-> IF d \in Registered
                                        THEN [status |-> "ACTIVE", token |-> t[d]]
                                        ELSE [status |-> "none", token |-> NoToken]]
          /\ events = {}
          /\ regs = 0
    BY DEF DeviceInit
  <1>2. \A d \in Device :
          /\ device[d] \in DeviceRecord
          /\ d \in Registered => device[d].status = "ACTIVE" /\ device[d].token = t[d]
          /\ d \notin Registered => device[d].status = "none" /\ device[d].token = NoToken
    BY <1>1 DEF DeviceRecord
  <1>3. DeviceType
    BY <1>1, <1>2 DEF DeviceType, DeviceRecord
  <1>4. HoldersAreActive
    BY <1>2 DEF HoldersAreActive
  <1>5. TokenHasOneDevice
    <2> SUFFICES ASSUME NEW c \in Device, NEW d \in Device, c # d, Provider[c] = Provider[d],
                        device[c].status = "ACTIVE", device[d].status = "ACTIVE"
                 PROVE  device[c].token # device[d].token
      BY DEF TokenHasOneDevice
    <2>1. c \in Registered /\ d \in Registered
      BY <1>2
    <2> QED
      BY <1>1, <1>2, <2>1
  <1> QED
    BY <1>3, <1>4, <1>5 DEF DevicesInv

\* A step in which every device keeps its row, or loses its token, or d alone
\* becomes active with a token that no other active device of its provider has.
LEMMA DevicesKeep ==
  ASSUME DevicesInv, device' \in [Device -> DeviceRecord], events' \subseteq EventKeys,
         regs' \in 0..MaxRegs,
         NEW D,
         \A c \in Device \ D : \/ device'[c] = device[c]
                               \/ device'[c].token = NoToken,
         \A c \in Device \cap D : /\ device'[c].status = "ACTIVE"
                                  /\ \A d \in Device : c # d /\ Provider[c] = Provider[d]
                                       => device'[d].token # device'[c].token
  PROVE  DevicesInv'
  <1>1. DeviceType'
    BY DEF DeviceType, DeviceRecord, EventKeys
  <1>2. HoldersAreActive'
    BY DEF DevicesInv, HoldersAreActive
  <1>3. TokenHasOneDevice'
    <2> SUFFICES ASSUME NEW c \in Device, NEW d \in Device, c # d, Provider[c] = Provider[d],
                        device'[c].status = "ACTIVE", device'[d].status = "ACTIVE",
                        device'[c].token = device'[d].token, device'[c].token # NoToken
                 PROVE  FALSE
      BY DEF TokenHasOneDevice
    <2>1. c \notin D /\ d \notin D
      OBVIOUS
    <2>2. device'[c] = device[c] /\ device'[d] = device[d]
      BY <2>1
    <2>3. {device[c].status, device[d].status} = {"ACTIVE"}
      BY <2>2
    <2> QED
      BY <2>2, <2>3 DEF DevicesInv, TokenHasOneDevice
  <1> QED
    BY <1>1, <1>2, <1>3 DEF DevicesInv

\* A step in which devices only lose tokens.
LEMMA DevicesLoseTokens ==
  ASSUME DevicesInv, device' \in [Device -> DeviceRecord], events' \subseteq EventKeys,
         regs' = regs, \A c \in Device : device'[c] = device[c] \/ device'[c].token = NoToken
  PROVE  DevicesInv'
  <1> DEFINE none == {}
  <1>1. none = {}
    OBVIOUS
  <1>2. regs' \in 0..MaxRegs
    BY DEF DevicesInv, DeviceType
  <1> HIDE DEF none
  <1>3. \A c \in Device \ none : device'[c] = device[c] \/ device'[c].token = NoToken
    OBVIOUS
  <1>4. \A c \in Device \cap none :
          /\ device'[c].status = "ACTIVE"
          /\ \A d \in Device : c # d /\ Provider[c] = Provider[d]
               => device'[d].token # device'[c].token
    BY <1>1
  <1> QED
    BY <1>2, <1>3, <1>4, DevicesKeep

\* The types of the registry, spelled out.
LEMMA DeviceTypes ==
  ASSUME DeviceType
  PROVE  /\ device \in [Device -> DeviceRecord]
         /\ events \subseteq EventKeys
         /\ regs \in 0..MaxRegs
         /\ \A d \in Device : device[d].token \in Token \cup {NoToken}
  BY DEF DeviceType, DeviceRecord, EventKeys

\* Registration, revocation and deletion keep a token with one device.
LEMMA OwnerKeepsDevices == ASSUME DevicesInv, OwnerActs PROVE DevicesInv'
  <1>0. DeviceType
    BY DEF DevicesInv
  <1>1. PICK d \in Device : \/ \E tok \in Token : Register(d, tok)
                            \/ Revoke(d)
                            \/ Delete(d, \E r \in deliveries : r.dev = d)
    BY DEF OwnerActs
  <1>2. ASSUME NEW tok \in Token, Register(d, tok) PROVE DevicesInv'
    <2>1. device'[d] = [status |-> "ACTIVE", token |-> tok]
      BY <1>2 DEF Register, TakeToken
    <2>2. ASSUME NEW c \in Device \ {d}
          PROVE  /\ device'[c] \in DeviceRecord
                 /\ device'[c] = device[c] \/ device'[c].token = NoToken
                 /\ Provider[c] = Provider[d] => device'[c].token # tok
      <3>1. device[c] \in DeviceRecord
        BY <1>0, DeviceTypes
      <3>2. CASE Provider[c] = Provider[d] /\ device[c] = [status |-> "ACTIVE", token |-> tok]
        <4>1. device'[c] = [device[c] EXCEPT !.token = NoToken]
          BY <1>2, <3>2 DEF Register, TakeToken
        <4> QED
          BY <3>1, <4>1 DEF DeviceRecord
      <3>3. CASE ~(Provider[c] = Provider[d] /\ device[c] = [status |-> "ACTIVE", token |-> tok])
        <4>1. device'[c] = device[c]
          BY <1>2, <3>3 DEF Register, TakeToken
        <4>2. Provider[c] = Provider[d] => device[c].token # tok
          <5> SUFFICES ASSUME Provider[c] = Provider[d], device[c].token = tok PROVE FALSE
            OBVIOUS
          <5>1. device[c].status = "ACTIVE"
            BY DEF DevicesInv, HoldersAreActive
          <5>2. device[c] = [status |-> "ACTIVE", token |-> tok]
            BY <3>1, <5>1 DEF DeviceRecord
          <5> QED
            BY <3>3, <5>2
        <4> QED
          BY <3>1, <4>1, <4>2
      <3> QED
        BY <3>2, <3>3
    <2>3. device' \in [Device -> DeviceRecord]
      <3>1. device' = [c \in Device |-> device'[c]]
        BY <1>2 DEF Register, TakeToken
      <3>2. device'[d] \in DeviceRecord
        BY <2>1 DEF DeviceRecord
      <3> QED
        BY <2>2, <3>1, <3>2
    <2>4. regs' \in 0..MaxRegs /\ events' \subseteq EventKeys
      BY <1>0, <1>2, DeviceTypes DEF Register
    <2>5. \A c \in Device \ {d} : device'[c] = device[c] \/ device'[c].token = NoToken
      BY <2>2
    <2>6. \A c \in Device \cap {d} :
            /\ device'[c].status = "ACTIVE"
            /\ \A e \in Device : c # e /\ Provider[c] = Provider[e] => device'[e].token # device'[c].token
      BY <2>1, <2>2
    <2> QED
      BY <2>3, <2>4, <2>5, <2>6, DevicesKeep
  <1>3. CASE Revoke(d)
    <2> DEFINE key == <<"revoked", d, NoToken>>
               fails == device[d].status = "REVOKED" \/ ~CanAppend(key)
    <2>1. /\ device' = IF fails THEN device
                       ELSE [device EXCEPT ![d] = [status |-> "REVOKED", token |-> NoToken]]
          /\ events' = IF fails THEN events ELSE events \cup {key}
          /\ regs' = regs
      BY <1>3 DEF Revoke
    <2>2. key \in EventKeys
      BY DEF EventKeys
    <2> HIDE DEF fails, key
    <2>3. events' \subseteq EventKeys
      BY <1>0, <2>1, <2>2, DeviceTypes
    <2>4. /\ device' \in [Device -> DeviceRecord]
          /\ \A c \in Device : device'[c] = device[c] \/ device'[c].token = NoToken
      BY <1>0, <2>1, DeviceTypes DEF DeviceRecord
    <2> QED
      BY <2>1, <2>3, <2>4, DevicesLoseTokens
  <1>4. CASE Delete(d, \E r \in deliveries : r.dev = d)
    <2>1. /\ device' = [device EXCEPT ![d] = [status |-> "deleted", token |-> NoToken]]
          /\ events' = events /\ regs' = regs
      BY <1>4 DEF Delete
    <2>2. /\ device' \in [Device -> DeviceRecord]
          /\ \A c \in Device : device'[c] = device[c] \/ device'[c].token = NoToken
      BY <1>0, <2>1, DeviceTypes DEF DeviceRecord
    <2> QED
      BY <1>0, <2>1, <2>2, DeviceTypes, DevicesLoseTokens
  <1> QED
    BY <1>1, <1>2, <1>3, <1>4

\* Invalidating tokens, with the events that say so.
LEMMA InvalidationKeepsDevices ==
  ASSUME DevicesInv, NEW D, device' = TokensInvalidated(D), events' \subseteq EventKeys,
         regs' = regs
  PROVE  DevicesInv'
  <1>0. DeviceType
    BY DEF DevicesInv
  <1>1. ASSUME NEW c \in Device
        PROVE  /\ device'[c] \in DeviceRecord
               /\ device'[c] = device[c] \/ device'[c].token = NoToken
    <2>1. device[c] \in DeviceRecord
      BY <1>0, DeviceTypes
    <2>2. device'[c] = IF c \in D THEN [device[c] EXCEPT !.token = NoToken] ELSE device[c]
      BY DEF TokensInvalidated
    <2> QED
      BY <2>1, <2>2 DEF DeviceRecord
  <1>2. device' \in [Device -> DeviceRecord]
    BY <1>1 DEF TokensInvalidated
  <1>3. \A c \in Device : device'[c] = device[c] \/ device'[c].token = NoToken
    BY <1>1
  <1> QED
    BY <1>2, <1>3, DevicesLoseTokens

\* A step that leaves the registry alone keeps its invariant.
LEMMA DevicesStutter == ASSUME DevicesInv, UNCHANGED deviceVars PROVE DevicesInv'
  BY DEF DevicesInv, DeviceType, HoldersAreActive, TokenHasOneDevice, deviceVars

-----------------------------------------------------------------------------
(* The row and the work *)

RowRecord == [status: {"PENDING"} \cup Terminal, attempts: Nat, claimed: BOOLEAN,
              lease: 0..Lease, wait: Nat]

WorkRecord ==
  [pc: {"idle", "open", "check", "send", "record", "release"}, attempt: Nat,
   todo: SUBSET Device, others: BOOLEAN, token: [Device -> Token \cup {NoToken}],
   out: [Device -> DeliveryOutcome \cup {"none"}],
   obsolete: {"none", "SUPERSEDED", "EXPIRED"}, age: 0..Lease]

DeliveryRecord == [dev: Device, attempt: Nat, outcome: DeliveryOutcome]

RowType == row \in RowRecord /\ (row.status # "PENDING" => ~row.claimed)

\* The type invariant without the devices.
Types ==
  /\ RowType
  /\ expiry \in 0..Expiry
  /\ stale \in BOOLEAN
  /\ deliveries \subseteq DeliveryRecord
  /\ work \in [Dispatcher -> WorkRecord]
  /\ got \in [Device -> SUBSET Nat]
  /\ lost \subseteq Nat
  /\ faults \in 0..MaxFaults

\* The types of the outbox are those of the registry and of the rest.
LEMMA TypesAre == TypeOK <=> DeviceType /\ Types
  BY DEF TypeOK, Types, RowType, RowRecord, WorkRecord, DeliveryRecord

\* The parts from which the invariant of the next state is put together.
LEMMA OutboxInvNext ==
  ASSUME DevicesInv', Types', Ledgers', FailureIsEarned'
  PROVE  OutboxInv'
  BY DEF OutboxInv, DevicesInv, TypeOK, Types, RowType, RowRecord, WorkRecord, DeliveryRecord

\* An idle dispatcher holds nothing.
LEMMA IdleFacts ==
  /\ Idle \in WorkRecord
  /\ Idle.pc = "idle" /\ Idle.todo = {} /\ \A d \in Device : Idle.out[d] = "none"
  BY DEF Idle, WorkRecord

\* A dispatcher that finishes is idle, and only that one changes.
LEMMA FinishFacts ==
  ASSUME work \in [Dispatcher -> WorkRecord], NEW p \in Dispatcher, Finish(p)
  PROVE  /\ work' \in [Dispatcher -> WorkRecord]
         /\ work'[p] = Idle
         /\ \A q \in Dispatcher \ {p} : work'[q] = work[q]
  BY IdleFacts DEF Finish

\* Settling leaves the row alone, or gives up the claim of this very attempt.
LEMMA SettledFacts ==
  ASSUME RowType, NEW attempt, NEW status \in {"PENDING"} \cup Terminal, NEW wait \in Nat,
         row' = Settled(attempt, status, wait)
  PROVE  /\ RowType'
         /\ row'.attempts = row.attempts
         /\ \/ row' = row
            \/ /\ HoldsClaim(attempt)
               /\ row'.claimed = FALSE
               /\ row'.status = status
  <1>1. CASE ~HoldsClaim(attempt)
    BY <1>1 DEF Settled, RowType
  <1>2. CASE HoldsClaim(attempt) /\ status = "PENDING"
    <2>1. row' = [row EXCEPT !.claimed = FALSE, !.lease = 0, !.wait = wait]
      BY <1>2 DEF Settled
    <2>2. row \in RowRecord /\ row.status = "PENDING"
      BY <1>2 DEF RowType, HoldsClaim
    <2>3. /\ row' \in RowRecord
          /\ row'.attempts = row.attempts
          /\ row'.claimed = FALSE
          /\ row'.status = status
      <3>1. row' = [status |-> status, attempts |-> row.attempts, claimed |-> FALSE,
                    lease |-> 0, wait |-> wait]
        BY <1>2, <2>1, <2>2 DEF RowRecord
      <3>2. row.attempts \in Nat
        BY <2>2 DEF RowRecord
      <3>3. 0 \in 0..Lease
        OBVIOUS
      <3> QED
        BY <3>1, <3>2, <3>3 DEF RowRecord
    <2> QED
      BY <1>2, <2>3 DEF RowType
  <1>3. CASE HoldsClaim(attempt) /\ status # "PENDING"
    <2>1. row' = [row EXCEPT !.claimed = FALSE, !.lease = 0, !.status = status]
      BY <1>3 DEF Settled
    <2>2. row \in RowRecord /\ row.status = "PENDING"
      BY <1>3 DEF RowType, HoldsClaim
    <2>3. /\ row' \in RowRecord
          /\ row'.attempts = row.attempts
          /\ row'.claimed = FALSE
          /\ row'.status = status
      <3>1. row' = [status |-> status, attempts |-> row.attempts, claimed |-> FALSE,
                    lease |-> 0, wait |-> row.wait]
        BY <2>1, <2>2 DEF RowRecord
      <3>2. row.attempts \in Nat /\ row.wait \in Nat
        BY <2>2 DEF RowRecord
      <3>3. 0 \in 0..Lease
        OBVIOUS
      <3> QED
        BY <3>1, <3>2, <3>3 DEF RowRecord
    <2> QED
      BY <1>3, <2>3 DEF RowType
  <1> QED
    BY <1>1, <1>2, <1>3

\* The ledger only grows, and so do the devices that had their last word.
LEMMA TerminalDevicesGrow ==
  ASSUME deliveries \subseteq deliveries'
  PROVE  TerminalDevices \subseteq TerminalDevices'
  BY DEF TerminalDevices

\* The verdict of the last transaction is a status and a delay; a failure has
\* a rejection, or a retry beyond the schedule, among the outcomes.
LEMMA VerdictFacts ==
  ASSUME Types, NEW p \in Dispatcher, work[p].attempt > 0
  PROVE  /\ Verdict(p)[1] \in {"PENDING"} \cup Terminal
         /\ Verdict(p)[2] \in Nat
         /\ Verdict(p)[1] = "FAILED" =>
              Saw(p, "REJECTED") \/ (Saw(p, "RETRY") /\ ~RetryLeft(p))
         /\ Verdict(p)[1] = "DISPATCHED" => ~work[p].others /\ ~Saw(p, "RETRY")
  <1>1. /\ work[p].obsolete \in {"none", "SUPERSEDED", "EXPIRED"}
        /\ work[p].others \in BOOLEAN
        /\ work[p].attempt \in Nat
        /\ work[p].age \in Nat
    BY DEF Types, WorkRecord
  <1>2. RetryLeft(p) => RetryWait(p) \in Nat
    <2> SUFFICES ASSUME RetryLeft(p) PROVE RetryWait(p) \in Nat
      OBVIOUS
    <2>1. work[p].attempt \in 1..Len(RetryDelays) /\ RetryDelays \in Seq(Nat)
      BY <1>1 DEF RetryLeft
    <2>2. RetryDelays[work[p].attempt] \in Nat
      BY <2>1
    <2> QED
      BY <1>1, <2>2 DEF RetryWait
  <1>3. CASE work[p].obsolete # "none"
    <2>1. Verdict(p) = <<work[p].obsolete, 0>>
      BY <1>3 DEF Verdict
    <2> QED
      BY <1>1, <1>3, <2>1 DEF Terminal
  <1>4. CASE work[p].obsolete = "none" /\ Saw(p, "RETRY") /\ RetryLeft(p)
    <2>1. Verdict(p) = <<"PENDING", RetryWait(p)>>
      BY <1>4 DEF Verdict
    <2> QED
      BY <1>2, <1>4, <2>1 DEF Terminal
  <1>5. CASE work[p].obsolete = "none" /\ Saw(p, "RETRY") /\ ~RetryLeft(p)
    <2>1. Verdict(p) = <<"FAILED", 0>>
      BY <1>5 DEF Verdict
    <2> QED
      BY <1>5, <2>1 DEF Terminal
  <1>6. CASE work[p].obsolete = "none" /\ ~Saw(p, "RETRY") /\ Saw(p, "REJECTED")
    <2>1. Verdict(p) = <<"FAILED", 0>>
      BY <1>6 DEF Verdict
    <2> QED
      BY <1>6, <2>1 DEF Terminal
  <1>7. CASE work[p].obsolete = "none" /\ ~Saw(p, "RETRY") /\ ~Saw(p, "REJECTED")
    <2>1. Verdict(p) = IF work[p].others THEN <<"PENDING", 0>> ELSE <<"DISPATCHED", 0>>
      BY <1>7 DEF Verdict
    <2> QED
      BY <1>1, <1>7, <2>1 DEF Terminal
  <1> QED
    BY <1>3, <1>4, <1>5, <1>6, <1>7

-----------------------------------------------------------------------------
(* What the steps of a dispatcher do to the ledgers *)

\* A dispatcher is done: it recorded nothing but outcomes of its own attempt,
\* and if that gave up the claim, it recorded every push that arrived in it.
LEMMA FinishKeepsLedgers ==
  ASSUME Types, Types', Ledgers, NEW p \in Dispatcher, AtWork(p), Finish(p),
         UNCHANGED <<got, lost>>, row'.attempts = row.attempts,
         deliveries \subseteq deliveries',
         \A r \in deliveries' \ deliveries : r.attempt = work[p].attempt,
         \/ row'.claimed = row.claimed
         \/ /\ row'.claimed = FALSE
            /\ row.attempts = work[p].attempt
            /\ \A d \in Device : work[p].attempt \in got[d] =>
                 \E o \in {"DELIVERED", "RETRY"} :
                   [dev |-> d, attempt |-> work[p].attempt, outcome |-> o] \in deliveries'
  PROVE  Ledgers'
  <1>1. /\ ~AtWork(p)'
        /\ work'[p].pc = "idle" /\ work'[p].todo = {} /\ \A d \in Device : work'[p].out[d] = "none"
        /\ \A q \in Dispatcher \ {p} : work'[q] = work[q]
    BY FinishFacts, IdleFacts DEF Types, AtWork
  <1>2. \A q \in Dispatcher : AtWork(q)' => q # p /\ AtWork(q) /\ work'[q] = work[q]
    BY <1>1 DEF AtWork
  <1>3. AttemptsAreApart'
    BY <1>2 DEF Ledgers, AttemptsAreApart
  <1>4. WorkFitsStep'
    BY <1>1 DEF Ledgers, WorkFitsStep, Fits
  <1>5. TargetsAreCovered'
    BY <1>1, TerminalDevicesGrow DEF Ledgers, TargetsAreCovered
  <1>6. SentIsKnown'
    BY <1>2 DEF Ledgers, SentIsKnown
  <1>7. SentIsAccounted'
    BY DEF Ledgers, SentIsAccounted
  <1>8. LastWordStands'
    <2> SUFFICES ASSUME NEW r \in deliveries'
                 PROVE  /\ r.attempt \in 1..row.attempts
                        /\ r.outcome # "RETRY" /\ r.attempt \notin lost =>
                             /\ \A n \in got[r.dev] : n <= r.attempt
                             /\ \A q \in Dispatcher :
                                  AtWork(q)' /\ work'[q].attempt > r.attempt => r.dev \notin work'[q].todo
      BY DEF LastWordStands
    <2>1. CASE r \in deliveries
      BY <1>2, <2>1 DEF Ledgers, LastWordStands
    <2>2. CASE r \notin deliveries
      <3>1. r.attempt = work[p].attempt /\ r.dev \in Device
        BY <2>2 DEF Types, DeliveryRecord
      <3>2. r.attempt \in 1..row.attempts /\ (r.attempt \in lost \/ r.attempt = row.attempts)
        BY <3>1 DEF Ledgers, AttemptsAreApart
      <3>3. /\ \A n \in got[r.dev] : n \in 1..row.attempts
            /\ \A q \in Dispatcher : AtWork(q)' => work'[q].attempt \in 1..row.attempts
        BY <1>2, <3>1 DEF Ledgers, AttemptsAreApart, SentIsAccounted
      <3>4. row.attempts \in Nat
        BY DEF Types, RowType, RowRecord
      <3> QED
        BY <3>2, <3>3, <3>4
    <2> QED
      BY <2>1, <2>2
  <1> QED
    BY <1>3, <1>4, <1>5, <1>6, <1>7, <1>8 DEF Ledgers

\* Before it has sent anything, a dispatcher may settle with nothing to record.
LEMMA NothingSent ==
  ASSUME Types, Ledgers, NEW p \in Dispatcher, work[p].pc \in {"open", "release"}
  PROVE  \A d \in Device : work[p].attempt \notin got[d]
  BY DEF Ledgers, WorkFitsStep, Fits, SentIsKnown, AtWork

\* A claim opens an attempt that no ledger row and no other dispatcher has.
LEMMA ClaimKeepsLedgers ==
  ASSUME Types, Types', Ledgers, NEW p \in Dispatcher, Claim(p)
  PROVE  Ledgers'
  <1> DEFINE n == row.attempts + 1
  <1>1. row.attempts \in Nat
    BY DEF Types, RowType, RowRecord
  <1>2. row'.attempts = n /\ row'.claimed = TRUE
    BY DEF Claim, Types, RowType, RowRecord
  <1>3. /\ work'[p] = [Idle EXCEPT !.pc = "open", !.attempt = n]
        /\ \A q \in Dispatcher \ {p} : work'[q] = work[q]
    BY DEF Claim, Types
  <1>4. /\ work'[p].pc = "open" /\ work'[p].attempt = n /\ work'[p].todo = {}
        /\ \A d \in Device : work'[p].out[d] = "none"
    BY <1>3 DEF Idle
  <1>5. UNCHANGED <<deliveries, got>> /\ lost \subseteq lost'
    BY DEF Claim
  <1>6. row.claimed => row.attempts \in lost'
    BY DEF Claim
  <1>7. TerminalDevices' = TerminalDevices
    BY <1>5 DEF TerminalDevices
  <1> HIDE DEF n
  <1>8. \A q \in Dispatcher \ {p} : AtWork(q)' <=> AtWork(q)
    BY <1>3 DEF AtWork
  <1>9. /\ n \in Nat
        /\ \A m \in 1..row.attempts : m \in 1..n /\ m # n
        /\ n \in 1..n
    BY <1>1 DEF n
  <1>10. AttemptsAreApart'
    <2> SUFFICES ASSUME NEW q \in Dispatcher, AtWork(q)'
                 PROVE  /\ work'[q].attempt \in 1..n
                        /\ work'[q].attempt \in lost' \/ work'[q].attempt = n
                        /\ \A o \in Dispatcher : AtWork(o)' /\ work'[o].attempt = work'[q].attempt => o = q
      BY <1>2 DEF AttemptsAreApart
    <2>1. CASE q = p
      BY <1>3, <1>4, <1>8, <1>9, <2>1 DEF Ledgers, AttemptsAreApart
    <2>2. CASE q # p
      BY <1>3, <1>4, <1>5, <1>6, <1>8, <1>9, <2>2, ZenonT(30) DEF Ledgers, AttemptsAreApart
    <2> QED
      BY <2>1, <2>2
  <1>11. WorkFitsStep'
    <2>1. \A q \in Dispatcher : Fits(work[q])
      BY DEF Ledgers, WorkFitsStep
    <2>2. Fits(work'[p])
      BY <1>4 DEF Fits
    <2>3. \A q \in Dispatcher : Fits(work'[q])
      BY <1>3, <2>1, <2>2
    <2> QED
      BY <2>3 DEF WorkFitsStep
  <1>12. TargetsAreCovered'
    BY <1>3, <1>4, <1>7 DEF Ledgers, TargetsAreCovered
  <1>13. SentIsKnown'
    <2>1. \A d \in Device : n \notin got[d]
      BY <1>9 DEF Ledgers, SentIsAccounted
    <2> QED
      BY <1>3, <1>4, <1>5, <1>8, <2>1 DEF Ledgers, SentIsKnown
  <1>14. SentIsAccounted'
    BY <1>2, <1>5, <1>6, <1>9 DEF Ledgers, SentIsAccounted
  <1>15. LastWordStands'
    BY <1>2, <1>3, <1>4, <1>5, <1>8, <1>9 DEF Ledgers, LastWordStands
  <1> QED
    BY <1>10, <1>11, <1>12, <1>13, <1>14, <1>15 DEF Ledgers

\* A dispatcher goes on within its attempt and nothing else is written.
LEMMA GoesOnKeepsLedgers ==
  ASSUME Types, Types', Ledgers, NEW p \in Dispatcher, AtWork(p), AtWork(p)',
         \A q \in Dispatcher \ {p} : work'[q] = work[q],
         work'[p].attempt = work[p].attempt,
         UNCHANGED <<lost, deliveries>>,
         row'.attempts = row.attempts, row'.claimed = row.claimed,
         WorkFitsStep', TargetsAreCovered',
         \A r \in deliveries : r.outcome # "RETRY" => r.dev \notin work'[p].todo
                                  \/ r.dev \in work[p].todo,
         \A d \in Device : work[p].out[d] # "none" => work'[p].out[d] = work[p].out[d],
         \A d \in Device :
           \/ got'[d] = got[d]
           \/ /\ got'[d] = got[d] \cup {work[p].attempt}
              /\ d \in work[p].todo
              /\ work'[p].out[d] \in {"DELIVERED", "RETRY"}
  PROVE  Ledgers'
  <1>1. \A q \in Dispatcher : AtWork(q)' <=> AtWork(q)
    BY DEF AtWork
  <1>2. \A q \in Dispatcher : work'[q].attempt = work[q].attempt
    OBVIOUS
  <1>3. /\ work[p].attempt \in 1..row.attempts
        /\ work[p].attempt \in lost \/ (work[p].attempt = row.attempts /\ row.claimed)
        /\ row.attempts \in Nat
    BY DEF Ledgers, AttemptsAreApart, Types, RowType, RowRecord
  <1>4. AttemptsAreApart'
    BY <1>1, <1>2 DEF Ledgers, AttemptsAreApart
  <1>5. SentIsKnown'
    <2> SUFFICES ASSUME NEW q \in Dispatcher, AtWork(q), NEW d \in Device,
                        work[q].attempt \in got'[d]
                 PROVE  work'[q].out[d] \in {"DELIVERED", "RETRY"}
      BY <1>1, <1>2 DEF SentIsKnown
    <2>1. CASE work[q].attempt \in got[d]
      BY <2>1 DEF Ledgers, SentIsKnown
    <2>2. CASE work[q].attempt \notin got[d]
      <3>1. work[q].attempt = work[p].attempt /\ work'[p].out[d] \in {"DELIVERED", "RETRY"}
        BY <2>2
      <3>2. q = p
        BY <3>1 DEF Ledgers, AttemptsAreApart
      <3> QED
        BY <3>1, <3>2
    <2> QED
      BY <2>1, <2>2
  <1>6. SentIsAccounted'
    BY <1>3, ZenonT(30) DEF Ledgers, SentIsAccounted
  <1>7. LastWordStands'
    <2> SUFFICES ASSUME NEW r \in deliveries
                 PROVE  /\ r.attempt \in 1..row.attempts
                        /\ r.outcome # "RETRY" /\ r.attempt \notin lost =>
                             /\ \A n \in got'[r.dev] : n <= r.attempt
                             /\ \A q \in Dispatcher :
                                  AtWork(q) /\ work[q].attempt > r.attempt => r.dev \notin work'[q].todo
      BY <1>1, <1>2 DEF LastWordStands
    <2>1. r.attempt \in 1..row.attempts /\ r.dev \in Device
      BY DEF Ledgers, LastWordStands, Types, DeliveryRecord
    <2>2. ASSUME r.outcome # "RETRY", r.attempt \notin lost
          PROVE  /\ \A n \in got'[r.dev] : n <= r.attempt
                 /\ \A q \in Dispatcher :
                      AtWork(q) /\ work[q].attempt > r.attempt => r.dev \notin work'[q].todo
      <3>1. /\ \A n \in got[r.dev] : n <= r.attempt
            /\ \A q \in Dispatcher :
                 AtWork(q) /\ work[q].attempt > r.attempt => r.dev \notin work[q].todo
        BY <2>2 DEF Ledgers, LastWordStands
      <3>2. r.dev \in work[p].todo => work[p].attempt <= r.attempt
        BY <1>3, <2>1, <3>1
      <3>3. \A n \in got'[r.dev] : n <= r.attempt
        BY <2>1, <3>1, <3>2
      <3>4. ASSUME NEW q \in Dispatcher, AtWork(q), work[q].attempt > r.attempt
            PROVE  r.dev \notin work'[q].todo
        <4>1. r.dev \notin work[q].todo
          BY <3>1, <3>4
        <4> QED
          BY <2>2, <4>1
      <3> QED
        BY <3>3, <3>4
    <2> QED
      BY <2>1, <2>2
  <1> QED
    BY <1>4, <1>5, <1>6, <1>7 DEF Ledgers

\* A step that touches none of it.
LEMMA LedgersStutter ==
  ASSUME Ledgers, UNCHANGED <<got, lost, deliveries>>,
         row'.attempts = row.attempts, row'.claimed = row.claimed,
         \A p \in Dispatcher :
           /\ work'[p].pc = work[p].pc /\ work'[p].attempt = work[p].attempt
           /\ work'[p].todo = work[p].todo /\ work'[p].others = work[p].others
           /\ work'[p].token = work[p].token /\ work'[p].out = work[p].out
  PROVE  Ledgers'
  <1>1. TerminalDevices' = TerminalDevices
    BY DEF TerminalDevices
  <1>2. \A p \in Dispatcher : AtWork(p)' <=> AtWork(p)
    BY DEF AtWork
  <1>3. AttemptsAreApart'
    BY <1>2 DEF Ledgers, AttemptsAreApart
  <1>4. WorkFitsStep'
    BY DEF Ledgers, WorkFitsStep, Fits
  <1>5. TargetsAreCovered'
    BY <1>1 DEF Ledgers, TargetsAreCovered
  <1>6. SentIsKnown'
    BY <1>2 DEF Ledgers, SentIsKnown
  <1>7. SentIsAccounted'
    BY DEF Ledgers, SentIsAccounted
  <1>8. LastWordStands'
    BY <1>2 DEF Ledgers, LastWordStands
  <1> QED
    BY <1>3, <1>4, <1>5, <1>6, <1>7, <1>8 DEF Ledgers

\* A failure once earned stays earned.
LEMMA FailureKept ==
  ASSUME FailureIsEarned, deliveries \subseteq deliveries',
         row'.status = "FAILED" => row.status = "FAILED"
  PROVE  FailureIsEarned'
  BY DEF FailureIsEarned

-----------------------------------------------------------------------------
(* The actions *)

\* The outbox starts in a state of the invariant.
LEMMA OutboxStart == Init => OutboxInv
  <1> SUFFICES ASSUME Init PROVE OutboxInv
    OBVIOUS
  <1>1. DevicesInv
    BY DevicesStart DEF Init
  <1>2. Types
    <2>1. row \in RowRecord /\ row.status = "PENDING"
      BY DEF Init, RowRecord
    <2>2. work \in [Dispatcher -> WorkRecord]
      BY IdleFacts DEF Init
    <2>3. deliveries = {} /\ lost = {} /\ faults = 0 /\ expiry = Expiry /\ stale = FALSE
      BY DEF Init
    <2>4. got \in [Device -> SUBSET Nat]
      BY DEF Init
    <2>5. expiry \in 0..Expiry /\ faults \in 0..MaxFaults
      <3>1. Expiry \in Nat /\ MaxFaults \in Nat
        OBVIOUS
      <3> QED
        BY <2>3, <3>1
    <2> QED
      BY <2>1, <2>2, <2>3, <2>4, <2>5 DEF Types, RowType
  <1>3. /\ \A p \in Dispatcher : work[p].pc = "idle" /\ work[p].todo = {}
                                /\ \A d \in Device : work[p].out[d] = "none"
        /\ deliveries = {}
        /\ \A d \in Device : got[d] = {}
        /\ row.status = "PENDING"
    BY IdleFacts DEF Init
  <1>4. Ledgers
    BY <1>3 DEF Ledgers, AttemptsAreApart, WorkFitsStep, Fits, TargetsAreCovered, SentIsKnown,
                SentIsAccounted, LastWordStands, AtWork
  <1>5. FailureIsEarned
    BY <1>3 DEF FailureIsEarned
  <1> QED
    BY <1>1, <1>2, <1>4, <1>5, TypesAre DEF OutboxInv, DevicesInv

\* A claim keeps the invariant.
LEMMA ClaimKeeps == ASSUME OutboxInv, NEW p \in Dispatcher, Claim(p) PROVE OutboxInv'
  <1>0. Types /\ DevicesInv /\ Ledgers /\ FailureIsEarned
    BY TypesAre DEF OutboxInv
  <1>1. row \in RowRecord /\ row.status = "PENDING" /\ row.attempts \in Nat
    BY <1>0 DEF Types, RowType, RowRecord, Claim, Claimable
  <1>2. /\ row' \in RowRecord
        /\ row'.status = row.status
    <2>1. row' = [status |-> row.status, attempts |-> row.attempts + 1, claimed |-> TRUE,
                  lease |-> Lease, wait |-> row.wait]
      BY <1>1 DEF Claim, RowRecord
    <2>2. row.attempts + 1 \in Nat /\ Lease \in 0..Lease
      BY <1>1
    <2> QED
      BY <1>1, <2>1, <2>2 DEF RowRecord
  <1>3. [Idle EXCEPT !.pc = "open", !.attempt = row.attempts + 1] \in WorkRecord
    <2>1. row.attempts + 1 \in Nat
      BY <1>1
    <2> QED
      BY <2>1, IdleFacts DEF WorkRecord
  <1>4. Types'
    BY <1>0, <1>1, <1>2, <1>3 DEF Types, RowType, Claim
  <1>5. Ledgers'
    BY <1>0, <1>4, ClaimKeepsLedgers
  <1>6. DevicesInv'
    BY <1>0, DevicesStutter DEF Claim
  <1>7. FailureIsEarned'
    BY <1>0, <1>2, FailureKept DEF Claim
  <1> QED
    BY <1>4, <1>5, <1>6, <1>7, OutboxInvNext

\* Settling without having sent anything.
LEMMA SettleKeeps ==
  ASSUME OutboxInv, NEW p \in Dispatcher, NEW status \in ({"PENDING"} \cup Terminal) \ {"FAILED"},
         work[p].pc \in {"open", "release"},
         row' = Settled(work[p].attempt, status, 0), Finish(p),
         UNCHANGED <<expiry, stale, deliveries, got, lost, faults, deviceVars>>
  PROVE  OutboxInv'
  <1>0. Types /\ DevicesInv /\ Ledgers /\ FailureIsEarned
    BY TypesAre DEF OutboxInv
  <1>1. /\ RowType'
        /\ row'.attempts = row.attempts
        /\ \/ row' = row
           \/ HoldsClaim(work[p].attempt) /\ row'.claimed = FALSE /\ row'.status = status
    <2>1. RowType
      BY <1>0 DEF Types
    <2> QED
      BY <2>1, SettledFacts
  <1>2. Types'
    BY <1>0, <1>1, FinishFacts DEF Types
  <1>3. Ledgers'
    BY <1>0, <1>1, <1>2, NothingSent, FinishKeepsLedgers DEF AtWork, HoldsClaim
  <1>4. DevicesInv'
    BY <1>0, DevicesStutter
  <1>5. FailureIsEarned'
    BY <1>0, <1>1, FailureKept
  <1> QED
    BY <1>2, <1>3, <1>4, <1>5, OutboxInvNext

\* A dispatcher that dies keeps the invariant.
LEMMA CrashKeeps == ASSUME OutboxInv, NEW p \in Dispatcher, Crash(p) PROVE OutboxInv'
  <1>0. Types /\ DevicesInv /\ Ledgers /\ FailureIsEarned
    BY TypesAre DEF OutboxInv
  <1>1. Types'
    BY <1>0, FinishFacts DEF Types, Crash, RowType
  <1>2. Ledgers'
    BY <1>0, <1>1, FinishKeepsLedgers DEF Crash, AtWork
  <1>3. DevicesInv'
    BY <1>0, DevicesStutter DEF Crash
  <1>4. FailureIsEarned'
    BY <1>0, FailureKept DEF Crash
  <1> QED
    BY <1>1, <1>2, <1>3, <1>4, OutboxInvNext

\* A dispatcher goes on, and only its work and the pushes that arrived change.
LEMMA GoesOnKeeps ==
  ASSUME OutboxInv, NEW p \in Dispatcher, Types', Ledgers',
         UNCHANGED <<row, deliveries, deviceVars>>
  PROVE  OutboxInv'
  <1>1. DevicesInv'
    BY DevicesStutter DEF OutboxInv
  <1>2. FailureIsEarned'
    BY FailureKept DEF OutboxInv
  <1> QED
    BY <1>1, <1>2, OutboxInvNext

\* Reading the targets keeps the invariant.
LEMMA OpenKeeps == ASSUME OutboxInv, NEW p \in Dispatcher, Open(p) PROVE OutboxInv'
  <1>0. Types /\ DevicesInv /\ Ledgers
    BY TypesAre DEF OutboxInv
  <1> DEFINE mine == PendingTargets \cap Mine(p)
             rest == PendingTargets \ Mine(p)
             pc2 == IF mine = {} THEN "release" ELSE "check"
             tokens == [d \in Device |-> device[d].token]
  <1>1. work[p] \in WorkRecord /\ work[p].pc = "open"
    BY <1>0 DEF Types, Open
  <1>2. /\ work' = [work EXCEPT ![p] = [work[p] EXCEPT !.pc = pc2, !.todo = mine,
                      !.others = (rest # {}), !.token = tokens, !.age = 0]]
    BY <1>0, <1>1 DEF Open, Types, WorkRecord
  <1>3. mine \subseteq Device /\ tokens \in [Device -> Token \cup {NoToken}]
    BY <1>0, DeviceTypes DEF PendingTargets, Targets, DevicesInv
  <1>4. mine \cup rest = PendingTargets
    OBVIOUS
  <1>5. \A d \in Device : tokens[d] = device[d].token
    OBVIOUS
  <1> HIDE DEF mine, rest, tokens
  <1>6. [work[p] EXCEPT !.pc = pc2, !.todo = mine, !.others = (rest # {}),
                        !.token = tokens, !.age = 0] \in WorkRecord
    <2>1. pc2 \in {"release", "check"} /\ 0 \in 0..Lease /\ (rest # {}) \in BOOLEAN
      OBVIOUS
    <2> HIDE DEF pc2
    <2> QED
      BY <1>1, <1>3, <2>1 DEF WorkRecord
  <1>7. /\ work'[p].pc = pc2 /\ work'[p].attempt = work[p].attempt /\ work'[p].todo = mine
        /\ work'[p].others = (rest # {}) /\ work'[p].token = tokens /\ work'[p].out = work[p].out
        /\ \A q \in Dispatcher \ {p} : work'[q] = work[q]
    BY <1>0, <1>1, <1>2 DEF Types, WorkRecord
  <1>8. Types'
    <2>1. work' \in [Dispatcher -> WorkRecord]
      BY <1>0, <1>2, <1>6 DEF Types
    <2> QED
      BY <1>0, <2>1 DEF Types, Open, RowType
  <1>9. \A d \in Device : work[p].out[d] = "none"
    BY <1>0, <1>1 DEF Ledgers, WorkFitsStep, Fits
  <1>10. \A d \in mine : d \in Device /\ device[d].token # NoToken /\ d \notin TerminalDevices
    BY <1>3, <1>4 DEF PendingTargets, Targets
  <1>11. WorkFitsStep'
    <2>1. /\ pc2 = "release" => mine = {}
          /\ pc2 \in {"release", "check"}
          /\ \A d \in Device : d \in mine => tokens[d] # NoToken
      BY <1>5, <1>10
    <2> HIDE DEF pc2
    <2> QED
      BY <1>0, <1>7, <1>9, <2>1 DEF Ledgers, WorkFitsStep, Fits
  <1>12. TargetsAreCovered'
    <2>1. TerminalDevices' = TerminalDevices
      BY DEF Open, TerminalDevices
    <2>2. ASSUME rest = {}, NEW d \in Addressed, tokens[d] # NoToken
          PROVE  d \in mine \/ d \in TerminalDevices
      <3>1. device[d].status = "ACTIVE" /\ device[d].token # NoToken
        BY <1>0, <1>5, <2>2 DEF DevicesInv, HoldersAreActive
      <3> QED
        BY <1>4, <2>2, <3>1 DEF PendingTargets, Targets
    <2> HIDE DEF pc2
    <2> QED
      BY <1>0, <1>7, <2>1, <2>2 DEF Ledgers, TargetsAreCovered
  <1>13. \A r \in deliveries : r.outcome # "RETRY" => r.dev \notin work'[p].todo
    BY <1>7, <1>10 DEF TerminalDevices
  <1>14. AtWork(p) /\ AtWork(p)'
    BY <1>1, <1>7 DEF AtWork
  <1>15. UNCHANGED <<lost, deliveries, got, row>>
    BY DEF Open
  <1> HIDE DEF pc2
  <1>16. Ledgers'
    BY <1>0, <1>7, <1>8, <1>9, <1>11, <1>12, <1>13, <1>14, <1>15, GoesOnKeepsLedgers
  <1> QED
    BY <1>8, <1>16, GoesOnKeeps DEF Open

\* A dispatcher is done with target d, skipped or sent to.
LEMMA TargetDoneKeeps ==
  ASSUME OutboxInv, Types', NEW p \in Dispatcher, work[p].pc \in {"check", "send"},
         NEW d \in work[p].todo, NEW o \in DeliveryOutcome,
         \A q \in Dispatcher \ {p} : work'[q] = work[q],
         work'[p].pc = AfterTarget(p, d), work'[p].attempt = work[p].attempt,
         work'[p].todo = work[p].todo \ {d}, work'[p].others = work[p].others,
         work'[p].token = work[p].token, work'[p].out[d] = o,
         \A c \in Device \ {d} : work'[p].out[c] = work[p].out[c],
         \A c \in Device :
           \/ got'[c] = got[c]
           \/ /\ c = d /\ got'[c] = got[c] \cup {work[p].attempt}
              /\ o \in {"DELIVERED", "RETRY"},
         UNCHANGED <<row, lost, deliveries, deviceVars>>
  PROVE  OutboxInv'
  <1>0. Types /\ Ledgers
    BY TypesAre DEF OutboxInv
  <1>1. work[p] \in WorkRecord /\ d \in Device
    BY <1>0 DEF Types, WorkRecord
  <1>2. /\ work'[p].out[d] = o /\ o # "none"
        /\ \A c \in Device \ {d} : work'[p].out[c] = work[p].out[c]
    BY <1>1 DEF WorkRecord, DeliveryOutcome
  <1>3. /\ work'[p].pc \in {"check", "record"}
        /\ work'[p].pc = "record" => work'[p].todo = {}
    BY DEF AfterTarget
  <1>4. AtWork(p) /\ AtWork(p)'
    BY <1>3 DEF AtWork
  <1>5. /\ work[p].out[d] = "none" /\ work[p].token[d] # NoToken
        /\ \A c \in Device :
             /\ c \in work[p].todo => work[p].out[c] = "none"
             /\ c \in work[p].todo \/ work[p].out[c] # "none" => work[p].token[c] # NoToken
    BY <1>0, <1>1 DEF Ledgers, WorkFitsStep, Fits
  <1>6. WorkFitsStep'
    <2>1. Fits(work'[p])
      <3>1. /\ work'[p].pc \notin {"idle", "open", "release"}
            /\ \A c \in Device :
                 /\ c \in work'[p].todo => work'[p].out[c] = "none"
                 /\ c \in work'[p].todo \/ work'[p].out[c] # "none" => work'[p].token[c] # NoToken
        BY <1>2, <1>3, <1>5
      <3> QED
        BY <1>3, <3>1 DEF Fits
    <2> QED
      BY <1>0, <2>1 DEF Ledgers, WorkFitsStep
  <1>7. TargetsAreCovered'
    <2>1. TerminalDevices' = TerminalDevices
      BY DEF TerminalDevices
    <2>2. ASSUME ~work[p].others, NEW c \in Addressed, work[p].token[c] # NoToken
          PROVE  c \in work'[p].todo \/ work'[p].out[c] # "none" \/ c \in TerminalDevices
      <3>1. c \in work[p].todo \/ work[p].out[c] # "none" \/ c \in TerminalDevices
        BY <1>0, <2>2 DEF Ledgers, TargetsAreCovered
      <3> QED
        BY <1>2, <3>1
    <2> QED
      BY <1>0, <2>1, <2>2 DEF Ledgers, TargetsAreCovered
  <1>8. \A c \in Device :
          \/ got'[c] = got[c]
          \/ /\ got'[c] = got[c] \cup {work[p].attempt}
             /\ c \in work[p].todo
             /\ work'[p].out[c] \in {"DELIVERED", "RETRY"}
    BY <1>0, <1>2 DEF Types
  <1>9. \A c \in Device : work[p].out[c] # "none" => work'[p].out[c] = work[p].out[c]
    BY <1>2, <1>5
  <1>10. Ledgers'
    BY <1>0, <1>4, <1>6, <1>7, <1>8, <1>9, GoesOnKeepsLedgers
  <1> QED
    BY <1>10, GoesOnKeeps

\* Leaving a target out keeps the invariant.
LEMMA SkipKeeps == ASSUME OutboxInv, NEW p \in Dispatcher, Skip(p) PROVE OutboxInv'
  <1>0. Types
    BY TypesAre DEF OutboxInv
  <1> DEFINE pc2(d) == AfterTarget(p, d)
             ob == IF stale THEN "SUPERSEDED" ELSE "EXPIRED"
  <1>1. PICK d \in work[p].todo :
          work' = [work EXCEPT ![p].pc = pc2(d), ![p].todo = @ \ {d},
                               ![p].out[d] = "SKIPPED", ![p].obsolete = ob]
    BY DEF Skip
  <1>2. work[p] \in WorkRecord /\ d \in Device /\ pc2(d) \in {"check", "record"}
    BY <1>0 DEF Types, WorkRecord, AfterTarget
  <1>3. ob \in {"none", "SUPERSEDED", "EXPIRED"} /\ "SKIPPED" \in DeliveryOutcome
    BY DEF DeliveryOutcome
  <1> HIDE DEF pc2, ob
  <1> DEFINE y == [work[p] EXCEPT !.pc = pc2(d), !.todo = @ \ {d}, !.out[d] = "SKIPPED",
                                  !.obsolete = ob]
  <1>4. /\ y \in WorkRecord
        /\ y.pc = pc2(d) /\ y.attempt = work[p].attempt /\ y.todo = work[p].todo \ {d}
        /\ y.others = work[p].others /\ y.token = work[p].token
        /\ y.out[d] = "SKIPPED" /\ \A c \in Device \ {d} : y.out[c] = work[p].out[c]
    BY <1>2, <1>3 DEF WorkRecord
  <1>5. work' = [work EXCEPT ![p] = y]
    BY <1>0, <1>1, <1>2 DEF Types, WorkRecord
  <1> HIDE DEF y
  <1>6. work' \in [Dispatcher -> WorkRecord] /\ work'[p] = y
          /\ \A q \in Dispatcher \ {p} : work'[q] = work[q]
    BY <1>0, <1>4, <1>5 DEF Types
  <1>7. Types'
    BY <1>0, <1>6 DEF Types, RowType, Skip
  <1>8. work[p].pc = "check" /\ UNCHANGED <<row, lost, deliveries, deviceVars, got>>
    BY DEF Skip
  <1> QED
    BY <1>3, <1>4, <1>6, <1>7, <1>8, TargetDoneKeeps DEF pc2

\* The look at the attention before a send keeps the invariant.
LEMMA CheckKeeps == ASSUME OutboxInv, NEW p \in Dispatcher, Check(p) PROVE OutboxInv'
  <1>0. Types /\ Ledgers
    BY TypesAre DEF OutboxInv
  <1>1. work[p] \in WorkRecord /\ work[p].pc = "check"
    BY <1>0 DEF Types, Check
  <1>2. /\ work' \in [Dispatcher -> WorkRecord]
        /\ work'[p].pc = "send" /\ work'[p].attempt = work[p].attempt
        /\ work'[p].todo = work[p].todo /\ work'[p].others = work[p].others
        /\ work'[p].token = work[p].token /\ work'[p].out = work[p].out
        /\ \A q \in Dispatcher \ {p} : work'[q] = work[q]
    BY <1>0, <1>1 DEF Types, Check, WorkRecord
  <1>3. Types'
    BY <1>0, <1>2 DEF Types, RowType, Check
  <1>4. AtWork(p) /\ AtWork(p)'
    BY <1>1, <1>2 DEF AtWork
  <1>5. WorkFitsStep'
    BY <1>0, <1>1, <1>2 DEF Ledgers, WorkFitsStep, Fits
  <1>6. TargetsAreCovered'
    <2>1. TerminalDevices' = TerminalDevices
      BY DEF Check, TerminalDevices
    <2> QED
      BY <1>0, <1>1, <1>2, <2>1 DEF Ledgers, TargetsAreCovered
  <1>7. UNCHANGED <<row, lost, got, deliveries>>
    BY DEF Check
  <1>8. Ledgers'
    BY <1>0, <1>2, <1>3, <1>4, <1>5, <1>6, <1>7, GoesOnKeepsLedgers
  <1> QED
    BY <1>3, <1>8, GoesOnKeeps DEF Check

\* A send keeps the invariant, whatever the provider answers.
LEMMA SendKeeps == ASSUME OutboxInv, NEW p \in Dispatcher, Send(p) PROVE OutboxInv'
  <1>0. Types
    BY TypesAre DEF OutboxInv
  <1> DEFINE pc2(d) == AfterTarget(p, d)
  <1>1. PICK d \in work[p].todo, arrived \in BOOLEAN,
             o \in {"DELIVERED", "RETRY", "UNREGISTERED", "REJECTED"} :
          /\ arrived => o \in {"DELIVERED", "RETRY"}
          /\ got' = IF arrived THEN [got EXCEPT ![d] = @ \cup {work[p].attempt}] ELSE got
          /\ work' = [work EXCEPT ![p].pc = pc2(d), ![p].todo = @ \ {d}, ![p].out[d] = o]
    BY DEF Send
  <1>2. work[p] \in WorkRecord /\ d \in Device /\ pc2(d) \in {"check", "record"}
          /\ work[p].attempt \in Nat
    BY <1>0 DEF Types, WorkRecord, AfterTarget
  <1>3. o \in DeliveryOutcome
    BY DEF DeliveryOutcome
  <1> HIDE DEF pc2
  <1> DEFINE y == [work[p] EXCEPT !.pc = pc2(d), !.todo = @ \ {d}, !.out[d] = o]
  <1>4. /\ y \in WorkRecord
        /\ y.pc = pc2(d) /\ y.attempt = work[p].attempt /\ y.todo = work[p].todo \ {d}
        /\ y.others = work[p].others /\ y.token = work[p].token
        /\ y.out[d] = o /\ \A c \in Device \ {d} : y.out[c] = work[p].out[c]
    BY <1>2, <1>3 DEF WorkRecord
  <1>5. work' = [work EXCEPT ![p] = y]
    BY <1>0, <1>1, <1>2 DEF Types, WorkRecord
  <1> HIDE DEF y
  <1>6. work' \in [Dispatcher -> WorkRecord] /\ work'[p] = y
          /\ \A q \in Dispatcher \ {p} : work'[q] = work[q]
    BY <1>0, <1>4, <1>5 DEF Types
  <1>7. got' \in [Device -> SUBSET Nat]
    BY <1>0, <1>1, <1>2 DEF Types
  <1>8. Types'
    BY <1>0, <1>6, <1>7 DEF Types, RowType, Send
  <1>9. \A c \in Device : \/ got'[c] = got[c]
                          \/ /\ c = d /\ got'[c] = got[c] \cup {work[p].attempt}
                             /\ o \in {"DELIVERED", "RETRY"}
    BY <1>0, <1>1, <1>2 DEF Types
  <1>10. work[p].pc = "send" /\ UNCHANGED <<row, lost, deliveries, deviceVars>>
    BY DEF Send
  <1> QED
    BY <1>3, <1>4, <1>6, <1>8, <1>9, <1>10, TargetDoneKeeps DEF pc2

\* What the last transaction writes to the ledger, when it commits.
LEMMA RecordWrites ==
  ASSUME OutboxInv, NEW p \in Dispatcher, Record(p), ~RecordFails(p)
  PROVE  /\ deliveries \subseteq deliveries'
         /\ deliveries' \subseteq DeliveryRecord
         /\ \A r \in deliveries' \ deliveries : r.attempt = work[p].attempt
         /\ \A d \in Device : work[p].out[d] # "none" =>
              [dev |-> d, attempt |-> work[p].attempt, outcome |-> work[p].out[d]] \in deliveries'
  <1>0. Types
    BY TypesAre DEF OutboxInv
  <1> DEFINE entry(d) == [dev |-> d, attempt |-> work[p].attempt, outcome |-> work[p].out[d]]
  <1>1. deliveries' = deliveries \cup {entry(d) : d \in Tried(p)}
    BY DEF Record
  <1>2. ASSUME NEW d \in Tried(p)
        PROVE  entry(d) \in DeliveryRecord /\ entry(d).attempt = work[p].attempt
    <2>1. /\ d \in Device /\ work[p].attempt \in Nat
          /\ work[p].out[d] \in DeliveryOutcome
      BY <1>0 DEF Tried, Types, WorkRecord
    <2> QED
      BY <2>1 DEF DeliveryRecord
  <1>3. \A d \in Device : work[p].out[d] # "none" => d \in Tried(p)
    BY DEF Tried
  <1>4. deliveries \subseteq DeliveryRecord
    BY <1>0 DEF Types
  <1>5. \A d \in Device : work[p].out[d] # "none" => entry(d) \in deliveries'
    BY <1>1, <1>3
  <1> HIDE DEF entry
  <1>6. /\ deliveries \subseteq deliveries'
        /\ deliveries' \subseteq DeliveryRecord
        /\ \A r \in deliveries' \ deliveries : r.attempt = work[p].attempt
    BY <1>1, <1>2, <1>4
  <1> QED
    BY <1>5, <1>6 DEF entry

\* The transaction that records an attempt keeps the invariant.
LEMMA RecordKeeps == ASSUME OutboxInv, NEW p \in Dispatcher, Record(p) PROVE OutboxInv'
  <1>0. Types /\ DevicesInv /\ Ledgers /\ FailureIsEarned
    BY TypesAre DEF OutboxInv
  <1>1. /\ work[p].pc = "record" /\ Finish(p)
        /\ UNCHANGED <<expiry, stale, got, lost, faults, regs>>
    BY DEF Record
  <1>2. AtWork(p)
    BY <1>1 DEF AtWork
  <1>3. CASE RecordFails(p)
    <2>1. UNCHANGED <<row, deliveries, device, events>>
      BY <1>3 DEF Record
    <2>2. Types'
      BY <1>0, <1>1, <2>1, FinishFacts DEF Types, RowType
    <2>3. Ledgers'
      BY <1>0, <1>1, <1>2, <2>1, <2>2, FinishKeepsLedgers
    <2>4. DevicesInv'
      BY <1>0, <1>1, <2>1, DevicesStutter DEF deviceVars
    <2>5. FailureIsEarned'
      BY <1>0, <2>1, FailureKept
    <2> QED
      BY <2>2, <2>3, <2>4, <2>5, OutboxInvNext
  <1>4. CASE ~RecordFails(p)
    <2>1. /\ device' = TokensInvalidated(Unregistered(p))
          /\ events' = events \cup InvalidationKeys(p)
          /\ row' = Settled(work[p].attempt, Verdict(p)[1], Verdict(p)[2])
      BY <1>4 DEF Record
    <2>2. /\ deliveries \subseteq deliveries'
          /\ deliveries' \subseteq DeliveryRecord
          /\ \A r \in deliveries' \ deliveries : r.attempt = work[p].attempt
          /\ \A d \in Device : work[p].out[d] # "none" =>
               [dev |-> d, attempt |-> work[p].attempt, outcome |-> work[p].out[d]] \in deliveries'
      BY <1>4, RecordWrites
    <2>3. work[p].attempt \in Nat /\ work[p].attempt > 0
      BY <1>0, <1>2 DEF Ledgers, AttemptsAreApart
    <2>4. /\ RowType'
          /\ row'.attempts = row.attempts
          /\ \/ row' = row
             \/ /\ HoldsClaim(work[p].attempt) /\ row'.claimed = FALSE
                /\ row'.status = Verdict(p)[1]
      BY <1>0, <2>1, <2>3, VerdictFacts, SettledFacts DEF Types
    <2>5. Types'
      BY <1>0, <1>1, <2>2, <2>4, FinishFacts DEF Types
    <2>6. Ledgers'
      <3>1. \A d \in Device : work[p].attempt \in got[d] =>
              \E o \in {"DELIVERED", "RETRY"} :
                [dev |-> d, attempt |-> work[p].attempt, outcome |-> o] \in deliveries'
        <4> TAKE d \in Device
        <4> HAVE work[p].attempt \in got[d]
        <4>1. work[p].out[d] \in {"DELIVERED", "RETRY"}
          BY <1>0, <1>2 DEF Ledgers, SentIsKnown
        <4> QED
          BY <2>2, <4>1
      <3> QED
        BY <1>0, <1>1, <1>2, <2>2, <2>4, <2>5, <3>1, FinishKeepsLedgers DEF HoldsClaim
    <2>7. DevicesInv'
      <3>1. InvalidationKeys(p) \subseteq EventKeys
        <4> SUFFICES ASSUME NEW d \in Unregistered(p)
                     PROVE  <<"invalidated", d, work[p].token[d]>> \in EventKeys
          BY DEF InvalidationKeys
        <4>1. d \in Device /\ work[p].out[d] # "none"
          BY DEF Unregistered
        <4>2. work[p].token[d] \in Token
          BY <1>0, <4>1 DEF Ledgers, WorkFitsStep, Fits, Types, WorkRecord
        <4> QED
          BY <4>1, <4>2 DEF EventKeys
      <3>2. events' \subseteq EventKeys
        BY <1>0, <2>1, <3>1, DeviceTypes DEF DevicesInv
      <3> QED
        BY <1>0, <1>1, <2>1, <3>2, InvalidationKeepsDevices
    <2>8. FailureIsEarned'
      <3>1. CASE row' = row \/ Verdict(p)[1] # "FAILED"
        BY <1>0, <2>2, <2>4, <3>1, FailureKept
      <3>2. CASE Verdict(p)[1] = "FAILED"
        <4>1. Saw(p, "REJECTED") \/ (Saw(p, "RETRY") /\ ~RetryLeft(p))
          BY <1>0, <2>3, <3>2, VerdictFacts
        <4>2. PICK d \in Device : \/ work[p].out[d] = "REJECTED"
                                  \/ work[p].out[d] = "RETRY" /\ ~RetryLeft(p)
          BY <4>1 DEF Saw
        <4> DEFINE r == [dev |-> d, attempt |-> work[p].attempt, outcome |-> work[p].out[d]]
        <4>3. r \in deliveries' /\ r.outcome = work[p].out[d] /\ r.attempt = work[p].attempt
          BY <2>2, <4>2
        <4>4. ~RetryLeft(p) => work[p].attempt > Len(RetryDelays)
          <5>1. Len(RetryDelays) \in Nat
            OBVIOUS
          <5> QED
            BY <2>3, <5>1 DEF RetryLeft
        <4> HIDE DEF r
        <4> QED
          BY <4>2, <4>3, <4>4 DEF FailureIsEarned
      <3> QED
        BY <3>1, <3>2
    <2> QED
      BY <2>5, <2>6, <2>7, <2>8, OutboxInvNext
  <1> QED
    BY <1>3, <1>4

\* Attention that is dealt with keeps the invariant.
LEMMA ResolveKeeps == ASSUME OutboxInv, Resolve PROVE OutboxInv'
  <1>0. Types /\ DevicesInv /\ Ledgers /\ FailureIsEarned
    BY TypesAre DEF OutboxInv
  <1>1. Types'
    BY <1>0 DEF Types, RowType, Resolve
  <1>2. Ledgers'
    BY <1>0, LedgersStutter DEF Resolve
  <1>3. DevicesInv' /\ FailureIsEarned'
    BY <1>0, DevicesStutter, FailureKept DEF Resolve
  <1> QED
    BY <1>1, <1>2, <1>3, OutboxInvNext

\* The owner's requests keep the invariant.
LEMMA OwnerKeeps == ASSUME OutboxInv, OwnerActs PROVE OutboxInv'
  <1>0. Types /\ DevicesInv /\ Ledgers /\ FailureIsEarned
    BY TypesAre DEF OutboxInv
  <1>1. UNCHANGED <<row, expiry, stale, deliveries, work, got, lost, faults>>
    BY DEF OwnerActs
  <1>2. Types'
    BY <1>0, <1>1 DEF Types, RowType
  <1>3. Ledgers'
    BY <1>0, <1>1, LedgersStutter
  <1>4. DevicesInv'
    BY <1>0, OwnerKeepsDevices
  <1>5. FailureIsEarned'
    BY <1>0, <1>1, FailureKept
  <1> QED
    BY <1>2, <1>3, <1>4, <1>5, OutboxInvNext

\* The clock keeps the invariant.
LEMMA TickKeeps == ASSUME OutboxInv, Tick PROVE OutboxInv'
  <1>0. Types /\ DevicesInv /\ Ledgers /\ FailureIsEarned
    BY TypesAre DEF OutboxInv
  <1>1. Lease \in Nat /\ Expiry \in Nat /\ MaxFaults \in Nat
    OBVIOUS
  <1>2. /\ row' \in RowRecord /\ row'.status = row.status
        /\ row'.attempts = row.attempts /\ row'.claimed = row.claimed
    <2>1. row \in RowRecord
      BY <1>0 DEF Types, RowType
    <2>2. row' = [status |-> row.status, attempts |-> row.attempts, claimed |-> row.claimed,
                  lease |-> Decrement(row.lease), wait |-> Decrement(row.wait)]
      BY <2>1 DEF Tick, RowRecord
    <2>3. Decrement(row.lease) \in 0..Lease /\ Decrement(row.wait) \in Nat
      BY <1>1, <2>1 DEF Decrement, RowRecord
    <2> QED
      BY <2>1, <2>2, <2>3 DEF RowRecord
  <1>3. ASSUME NEW p \in Dispatcher
        PROVE  /\ work'[p] \in WorkRecord
               /\ work'[p].pc = work[p].pc /\ work'[p].attempt = work[p].attempt
               /\ work'[p].todo = work[p].todo /\ work'[p].others = work[p].others
               /\ work'[p].token = work[p].token /\ work'[p].out = work[p].out
    <2>1. work[p] \in WorkRecord
      BY <1>0 DEF Types
    <2>2. CASE work[p].pc \in {"idle", "open"} \/ work[p].age = Lease
      BY <2>1, <2>2 DEF Tick
    <2>3. CASE ~(work[p].pc \in {"idle", "open"} \/ work[p].age = Lease)
      <3>1. work'[p] = [work[p] EXCEPT !.age = work[p].age + 1]
        BY <2>3 DEF Tick
      <3>2. work[p].age + 1 \in 0..Lease
        BY <1>1, <2>1, <2>3 DEF WorkRecord
      <3> QED
        BY <2>1, <3>1, <3>2 DEF WorkRecord
    <2> QED
      BY <2>2, <2>3
  <1>4. work' \in [Dispatcher -> WorkRecord]
    BY <1>3 DEF Tick
  <1>5. expiry' \in 0..Expiry /\ faults' \in 0..MaxFaults
    BY <1>0, <1>1 DEF Types, Tick, Decrement
  <1>6. Types'
    BY <1>0, <1>2, <1>4, <1>5 DEF Types, RowType, Tick
  <1>7. Ledgers'
    BY <1>0, <1>2, <1>3, LedgersStutter DEF Tick
  <1>8. DevicesInv' /\ FailureIsEarned'
    BY <1>0, <1>2, DevicesStutter, FailureKept DEF Tick
  <1> QED
    BY <1>6, <1>7, <1>8, OutboxInvNext

\* A stuttering step keeps the invariant.
LEMMA OutboxStutter == ASSUME OutboxInv, UNCHANGED vars PROVE OutboxInv'
  <1>0. Types /\ DevicesInv /\ Ledgers /\ FailureIsEarned
    BY TypesAre DEF OutboxInv
  <1>1. Types' /\ Ledgers' /\ DevicesInv' /\ FailureIsEarned'
    BY <1>0, LedgersStutter, DevicesStutter, FailureKept DEF vars, Types, RowType
  <1> QED
    BY <1>1, OutboxInvNext

\* Every step keeps the invariant.
LEMMA OutboxStep == OutboxInv /\ [Next]_vars => OutboxInv'
  <1> SUFFICES ASSUME OutboxInv, [Next]_vars PROVE OutboxInv'
    OBVIOUS
  <1>1. ASSUME NEW p \in Dispatcher, OpenObsolete(p) PROVE OutboxInv'
    <2>1. PICK status \in {"SUPERSEDED", "EXPIRED"} :
            status = IF stale THEN "SUPERSEDED" ELSE "EXPIRED"
      OBVIOUS
    <2>2. row' = Settled(work[p].attempt, status, 0)
      BY <1>1, <2>1 DEF OpenObsolete
    <2> QED
      BY <1>1, <2>2, SettleKeeps DEF OpenObsolete, Terminal
  <1>2. ASSUME NEW p \in Dispatcher, Release(p) PROVE OutboxInv'
    <2>1. PICK status \in {"PENDING", "DISPATCHED"} :
            status = IF work[p].others THEN "PENDING" ELSE "DISPATCHED"
      OBVIOUS
    <2>2. row' = Settled(work[p].attempt, status, 0)
      BY <1>2, <2>1 DEF Release
    <2> QED
      BY <1>2, <2>2, SettleKeeps DEF Release, Terminal
  <1> QED
    BY <1>1, <1>2, ClaimKeeps, OpenKeeps, SkipKeeps, CheckKeeps, SendKeeps, RecordKeeps,
       CrashKeeps, ResolveKeeps, OwnerKeeps, TickKeeps, OutboxStutter
    DEF Next, Step

\* The invariant holds.
LEMMA OutboxInvariant == Spec => []OutboxInv
  BY OutboxStart, OutboxStep, PTL DEF Spec

-----------------------------------------------------------------------------
(* The results *)

\* Whatever devices are registered, revoked, deleted or unregistered by the push
\* provider, two active devices of a provider never share a token.
THEOREM OutboxTokenHasOneDevice == Spec => []TokenHasOneDevice
  <1>1. OutboxInv => TokenHasOneDevice
    BY DEF OutboxInv, DevicesInv
  <1> QED
    BY <1>1, OutboxInvariant, PTL

\* For any number of dispatchers, crashes and lapsed leases: a device is sent a
\* push again only after a RETRY in the ledger or under a claim that was lost.
THEOREM OutboxRepeatsAreEarned == Spec => []RepeatNeedsRetryOrLostClaim
  <1>1. OutboxInv => RepeatNeedsRetryOrLostClaim
    <2> SUFFICES ASSUME OutboxInv, NEW d \in Device, NEW m \in got[d], NEW n \in got[d], m < n,
                        m \notin lost
                 PROVE  [dev |-> d, attempt |-> m, outcome |-> "RETRY"] \in deliveries
      BY DEF RepeatNeedsRetryOrLostClaim
    <2>0. Types /\ Ledgers
      BY TypesAre DEF OutboxInv
    <2>1. m \in 1..row.attempts /\ n \in 1..row.attempts /\ row.attempts \in Nat
      BY <2>0 DEF Ledgers, SentIsAccounted, Types, RowType, RowRecord
    <2>2. PICK o \in {"DELIVERED", "RETRY"} :
            [dev |-> d, attempt |-> m, outcome |-> o] \in deliveries
      BY <2>0, <2>1 DEF Ledgers, SentIsAccounted
    <2> DEFINE r == [dev |-> d, attempt |-> m, outcome |-> o]
    <2>3. r.dev = d /\ r.attempt = m /\ r.outcome = o /\ r \in deliveries
      BY <2>2
    <2> HIDE DEF r
    <2>4. o = "RETRY"
      <3> SUFFICES ASSUME o # "RETRY" PROVE FALSE
        OBVIOUS
      <3>1. \A k \in got[d] : k <= m
        BY <2>0, <2>3 DEF Ledgers, LastWordStands
      <3> QED
        BY <2>1, <3>1
    <2> QED
      BY <2>2, <2>4
  <1> QED
    BY <1>1, OutboxInvariant, PTL

\* A notification is given up as FAILED only after a rejection, or a retry after
\* the last delay of the schedule, whatever the schedule.
THEOREM OutboxFailuresAreEarned == Spec => []FailureIsEarned
  <1>1. OutboxInv => FailureIsEarned
    BY DEF OutboxInv
  <1> QED
    BY <1>1, OutboxInvariant, PTL

\* Settling the row as dispatched is final only when every device that the
\* settling dispatcher saw as a target has its last word in the ledger, whatever
\* providers the dispatchers serve and however they interleave.
THEOREM OutboxDispatchReachesAll == Spec => DispatchedReachesAll
  <1> DEFINE Reached(p) ==
        /\ work[p].attempt = row.attempts
        /\ work'[p].pc = "idle"
        /\ \A d \in Addressed :
             work[p].token[d] # NoToken => \E r \in deliveries' : r.dev = d /\ r.outcome # "RETRY"
      Settles == row'.status = "DISPATCHED" /\ row.status = "PENDING"
  <1>1. ASSUME OutboxInv, [Next]_vars, Settles PROVE \E p \in Dispatcher : Reached(p)
    <2>0. Types /\ Ledgers
      BY <1>1, TypesAre DEF OutboxInv
    <2>1. ASSUME NEW p \in Dispatcher, Release(p) PROVE Reached(p)
      <3>1. PICK status \in {"PENDING", "DISPATCHED"} :
              status = IF work[p].others THEN "PENDING" ELSE "DISPATCHED"
        OBVIOUS
      <3>2. row' = Settled(work[p].attempt, status, 0)
        BY <2>1, <3>1 DEF Release
      <3>3. HoldsClaim(work[p].attempt) /\ status = "DISPATCHED"
        BY <1>1, <2>0, <3>2, SettledFacts DEF Types, Terminal
      <3>4. work[p].pc = "release" /\ ~work[p].others /\ Finish(p) /\ deliveries' = deliveries
        BY <2>1, <3>1, <3>3 DEF Release
      <3>5. work'[p].pc = "idle"
        BY <2>0, <3>4, FinishFacts, IdleFacts DEF Types
      <3>6. \A d \in Addressed : work[p].token[d] # NoToken => d \in TerminalDevices
        BY <2>0, <3>4 DEF Ledgers, TargetsAreCovered, WorkFitsStep, Fits
      <3> QED
        BY <3>3, <3>4, <3>5, <3>6 DEF HoldsClaim, TerminalDevices
    <2>2. ASSUME NEW p \in Dispatcher, Record(p) PROVE Reached(p)
      <3>1. /\ work[p].pc = "record" /\ Finish(p) /\ AtWork(p)
            /\ work[p].attempt \in Nat /\ work[p].attempt > 0
        BY <2>0, <2>2 DEF Record, AtWork, Ledgers, AttemptsAreApart
      <3>2. ~RecordFails(p)
        BY <1>1, <2>2 DEF Record
      <3>3. row' = Settled(work[p].attempt, Verdict(p)[1], Verdict(p)[2])
        BY <2>2, <3>2 DEF Record
      <3>4. HoldsClaim(work[p].attempt) /\ Verdict(p)[1] = "DISPATCHED"
        BY <1>1, <2>0, <3>1, <3>3, VerdictFacts, SettledFacts DEF Types
      <3>5. ~work[p].others /\ ~Saw(p, "RETRY")
        BY <2>0, <3>1, <3>4, VerdictFacts
      <3>6. work'[p].pc = "idle"
        BY <2>0, <3>1, FinishFacts, IdleFacts DEF Types
      <3>7. ASSUME NEW d \in Addressed, work[p].token[d] # NoToken
            PROVE  \E r \in deliveries' : r.dev = d /\ r.outcome # "RETRY"
        <4>1. work[p].out[d] # "none" \/ d \in TerminalDevices
          BY <2>0, <3>1, <3>5, <3>7 DEF Ledgers, TargetsAreCovered, WorkFitsStep, Fits
        <4>2. CASE work[p].out[d] # "none"
          <5> DEFINE r == [dev |-> d, attempt |-> work[p].attempt, outcome |-> work[p].out[d]]
          <5>1. r \in deliveries' /\ r.dev = d /\ r.outcome = work[p].out[d]
            BY <1>1, <2>2, <3>2, <4>2, RecordWrites
          <5>2. work[p].out[d] # "RETRY"
            BY <3>5 DEF Saw
          <5> HIDE DEF r
          <5> QED
            BY <5>1, <5>2
        <4>3. CASE d \in TerminalDevices
          BY <1>1, <2>2, <3>2, <4>3, RecordWrites DEF TerminalDevices
        <4> QED
          BY <4>1, <4>2, <4>3
      <3> QED
        BY <3>4, <3>6, <3>7 DEF HoldsClaim
    <2>3. ASSUME NEW p \in Dispatcher, OpenObsolete(p) PROVE FALSE
      <3>1. PICK status \in {"SUPERSEDED", "EXPIRED"} :
              status = IF stale THEN "SUPERSEDED" ELSE "EXPIRED"
        OBVIOUS
      <3>2. row' = Settled(work[p].attempt, status, 0)
        BY <2>3, <3>1 DEF OpenObsolete
      <3> QED
        BY <1>1, <2>0, <3>2, SettledFacts DEF Types, Terminal
    <2>4. ASSUME NEW p \in Dispatcher,
                 Claim(p) \/ Open(p) \/ Skip(p) \/ Check(p) \/ Send(p) \/ Crash(p)
          PROVE  FALSE
      <3>1. row'.status = row.status
        BY <2>0, <2>4 DEF Claim, Open, Skip, Check, Send, Crash, Types, RowType, RowRecord
      <3> QED
        BY <1>1, <3>1
    <2>5. ASSUME Resolve \/ OwnerActs \/ Tick \/ UNCHANGED vars PROVE FALSE
      <3>1. row'.status = row.status
        BY <2>0, <2>5 DEF Resolve, OwnerActs, Tick, vars, Types, RowType, RowRecord
      <3> QED
        BY <1>1, <3>1
    <2> HIDE DEF Reached
    <2> QED
      BY <1>1, <2>1, <2>2, <2>3, <2>4, <2>5 DEF Next, Step
  <1>2. OutboxInv /\ [Next]_vars => [Settles => \E p \in Dispatcher : Reached(p)]_vars
    BY <1>1
  <1>3. Spec => [][Settles => \E p \in Dispatcher : Reached(p)]_vars
    BY <1>2, OutboxInvariant, PTL DEF Spec
  <1> QED
    BY <1>3 DEF DispatchedReachesAll
=============================================================================
