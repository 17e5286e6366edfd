------------------------- MODULE NotificationOutbox -------------------------
(***************************************************************************)
(* The notification outbox and its dispatchers: one row of                 *)
(* notification_outbox, the ledger of its deliveries, and the processes    *)
(* that claim it, send it to the principal's devices and settle it         *)
(* (application/notification_dispatcher.py, PostgresNotificationOutbox).   *)
(*                                                                         *)
(* A dispatcher holds no transaction while it talks to a push provider:    *)
(* between its claim, its reads, each send and its last transaction other  *)
(* dispatchers, the owner and the clock move.  Each dispatcher serves some *)
(* providers; a row may need several dispatchers.  The instants of the row *)
(* are kept as the time left until them.                                   *)
(***************************************************************************)
EXTENDS Naturals, Sequences, FiniteSets, PushDevices

CONSTANTS
  Dispatcher,   \* dispatcher processes
  Serves,       \* the providers each of them can deliver to
  Addressed,    \* the devices the notification's kind is meant for
  Registered,   \* the devices registered at the start
  RetryDelays,  \* delay before the next attempt, by attempt
  Lease,        \* length of a claim
  Expiry,       \* time until expires_at
  MaxFaults     \* bound: crashes, and leases that run out under a live dispatcher

ASSUME OutboxAssumption ==
  /\ RetryDelays \in Seq(Nat \ {0}) /\ RetryDelays # <<>>
  /\ Lease \in Nat \ {0}
  /\ {Expiry, MaxFaults} \subseteq Nat
  /\ Serves \in [Dispatcher -> SUBSET {Provider[d] : d \in Device}]
  /\ Addressed \subseteq Device /\ Registered \subseteq Device

VARIABLES
  row,          \* status, attempts, claimed, lease (time left), wait (until next_attempt_at)
  expiry,       \* time left until expires_at
  stale,        \* what the notification asks for has been dealt with
  deliveries,   \* the delivery ledger: [dev, attempt, outcome]
  work,         \* what each dispatcher is doing
  got,          \* the attempts in which each device received the push
  lost,         \* the attempts whose claim was taken over
  faults        \* crashes, and leases run out under a live dispatcher, so far

vars == <<row, expiry, stale, deliveries, work, got, lost, faults, deviceVars>>

Terminal == {"DISPATCHED", "SUPERSEDED", "EXPIRED", "FAILED"}
DeliveryOutcome == {"DELIVERED", "RETRY", "UNREGISTERED", "REJECTED", "SKIPPED"}

Idle == [pc |-> "idle", attempt |-> 0, todo |-> {}, others |-> FALSE,
         token |-> [d \in Device |-> NoToken], out |-> [d \in Device |-> "none"],
         obsolete |-> "none", age |-> 0]

TypeOK ==
  /\ DeviceType
  /\ row \in [status: {"PENDING"} \cup Terminal, attempts: Nat, claimed: BOOLEAN,
              lease: 0..Lease, wait: Nat]
  /\ expiry \in 0..Expiry
  /\ stale \in BOOLEAN
  /\ deliveries \subseteq [dev: Device, attempt: Nat, outcome: DeliveryOutcome]
  /\ work \in [Dispatcher ->
       [pc: {"idle", "open", "check", "send", "record", "release"}, attempt: Nat,
        todo: SUBSET Device, others: BOOLEAN, token: [Device -> Token \cup {NoToken}],
        out: [Device -> DeliveryOutcome \cup {"none"}],
        obsolete: {"none", "SUPERSEDED", "EXPIRED"}, age: 0..Lease]]
  /\ got \in [Device -> SUBSET Nat]
  /\ lost \subseteq Nat
  /\ faults \in 0..MaxFaults
  /\ row.status # "PENDING" => ~row.claimed

\* NotificationProducer has enqueued the row, due at once.
Init ==
  /\ DeviceInit(Registered)
  /\ row = [status |-> "PENDING", attempts |-> 0, claimed |-> FALSE, lease |-> 0, wait |-> 0]
  /\ expiry = Expiry
  /\ stale = FALSE
  /\ deliveries = {}
  /\ work = [p \in Dispatcher |-> Idle]
  /\ got = [d \in Device |-> {}]
  /\ lost = {}
  /\ faults = 0

-----------------------------------------------------------------------------
(* The repository *)

\* Slip: a delivery is not the last word.
DevicesGivenUp == {r.dev : r \in {r \in deliveries : r.outcome \in {"UNREGISTERED", "REJECTED"}}}

\* Slip: a retry counts as the last word.
DevicesTried == {r.dev : r \in deliveries}

\* A device that had its last word: any outcome but RETRY.
TerminalDevices == {r.dev : r \in {r \in deliveries : r.outcome # "RETRY"}}

\* push_targets, confined to the addressed devices.
Targets == {d \in Addressed : device[d].status = "ACTIVE" /\ device[d].token # NoToken}

\* _pending_target_exists, as the set of such targets.
PendingTargets == Targets \ TerminalDevices

Mine(p) == {d \in Device : Provider[d] \in Serves[p]}

\* settle applies: the row is still pending, and the claim of this attempt is live.
HoldsClaim(attempt) ==
  /\ row.status = "PENDING"
  /\ row.attempts = attempt
  /\ row.claimed
  /\ row.lease > 0

\* The row after settle; a lost claim leaves it alone.
Settled(attempt, status, wait) ==
  IF ~HoldsClaim(attempt) THEN row
  ELSE IF status = "PENDING"
       THEN [row EXCEPT !.claimed = FALSE, !.lease = 0, !.wait = wait]
       ELSE [row EXCEPT !.claimed = FALSE, !.lease = 0, !.status = status]

\* Slip: a claim that has run out is not taken over.
ClaimableUnclaimed(p) ==
  /\ row.status = "PENDING"
  /\ row.wait = 0
  /\ ~row.claimed
  /\ PendingTargets = {} \/ PendingTargets \cap Mine(p) # {}

\* Nobody else's claim is live, and p can deliver to somebody, or there is nobody left.
Claimable(p) ==
  /\ row.status = "PENDING"
  /\ row.wait = 0
  /\ row.lease = 0
  /\ PendingTargets = {} \/ PendingTargets \cap Mine(p) # {}

-----------------------------------------------------------------------------
(* A dispatcher *)

Finish(p) == work' = [work EXCEPT ![p] = Idle]

\* run_once: claim_due, in a transaction of its own.
Claim(p) ==
  /\ work[p].pc = "idle"
  /\ Claimable(p)
  /\ row' = [row EXCEPT !.attempts = @ + 1, !.claimed = TRUE, !.lease = Lease]
  /\ lost' = IF row.claimed THEN lost \cup {row.attempts} ELSE lost
  /\ work' = [work EXCEPT ![p] = [Idle EXCEPT !.pc = "open", !.attempt = row.attempts + 1]]
  /\ UNCHANGED <<expiry, stale, deliveries, got, faults, deviceVars>>

\* _dispatch, first transaction, when there is nothing to send any more.
OpenObsolete(p) ==
  /\ work[p].pc = "open"
  /\ stale \/ expiry = 0
  /\ row' = Settled(work[p].attempt, IF stale THEN "SUPERSEDED" ELSE "EXPIRED", 0)
  /\ Finish(p)
  /\ UNCHANGED <<expiry, stale, deliveries, got, lost, faults, deviceVars>>

\* _dispatch, first transaction: the targets and what became of them so far.
Open(p) ==
  LET mine == PendingTargets \cap Mine(p)
      rest == PendingTargets \ Mine(p)
  IN /\ work[p].pc = "open"
     /\ ~stale /\ expiry > 0
     /\ work' = [work EXCEPT ![p].pc = IF mine = {} THEN "release" ELSE "check",
                             ![p].todo = mine,
                             ![p].others = rest # {},
                             ![p].token = [d \in Device |-> device[d].token],
                             ![p].age = 0]
     /\ UNCHANGED <<row, expiry, stale, deliveries, got, lost, faults, deviceVars>>

\* No target of p's providers: leave the row to the others, or be done.
Release(p) ==
  /\ work[p].pc = "release"
  /\ row' = Settled(work[p].attempt, IF work[p].others THEN "PENDING" ELSE "DISPATCHED", 0)
  /\ Finish(p)
  /\ UNCHANGED <<expiry, stale, deliveries, got, lost, faults, deviceVars>>

\* Where p goes after it is done with d.
AfterTarget(p, d) == IF work[p].todo = {d} THEN "record" ELSE "check"

\* notification_obsolete before each target.
Obsolete == stale \/ expiry = 0

\* The next target is skipped: what the push is about is over.
Skip(p) ==
  /\ work[p].pc = "check"
  /\ Obsolete
  /\ \E d \in work[p].todo :
       work' = [work EXCEPT ![p].pc = AfterTarget(p, d), ![p].todo = @ \ {d},
                            ![p].out[d] = "SKIPPED",
                            ![p].obsolete = IF stale THEN "SUPERSEDED" ELSE "EXPIRED"]
  /\ UNCHANGED <<row, expiry, stale, deliveries, got, lost, faults, deviceVars>>

\* The next target may be sent to.
Check(p) ==
  /\ work[p].pc = "check"
  /\ ~Obsolete
  /\ work' = [work EXCEPT ![p].pc = "send"]
  /\ UNCHANGED <<row, expiry, stale, deliveries, got, lost, faults, deviceVars>>

\* transport.deliver: an exception is a RETRY, whether or not the push arrived.
Send(p) ==
  /\ work[p].pc = "send"
  /\ \E d \in work[p].todo, arrived \in BOOLEAN,
        outcome \in {"DELIVERED", "RETRY", "UNREGISTERED", "REJECTED"} :
       /\ outcome = "DELIVERED" => arrived
       /\ arrived => outcome \in {"DELIVERED", "RETRY"}
       /\ got' = IF arrived THEN [got EXCEPT ![d] = @ \cup {work[p].attempt}] ELSE got
       /\ work' = [work EXCEPT ![p].pc = AfterTarget(p, d), ![p].todo = @ \ {d},
                               ![p].out[d] = outcome]
  /\ UNCHANGED <<row, expiry, stale, deliveries, lost, faults, deviceVars>>

Tried(p) == {d \in Device : work[p].out[d] # "none"}
Saw(p, outcome) == \E d \in Device : work[p].out[d] = outcome

\* The delay of the next attempt, counted from the moment p read the clock.
RetryWait(p) ==
  LET delay == RetryDelays[work[p].attempt] IN
  IF delay > work[p].age THEN delay - work[p].age ELSE 0

\* Slip: off by one, the last delay of the schedule is never used.
RetryLeftButOne(p) == work[p].attempt < Len(RetryDelays)

\* A retry is left: attempts - 1 indexes the delays.
RetryLeft(p) == work[p].attempt <= Len(RetryDelays)

\* What the last transaction makes of the outcomes, in the order of its tests.
Verdict(p) ==
  CASE work[p].obsolete # "none"          -> <<work[p].obsolete, 0>>
    [] work[p].obsolete = "none" /\ Saw(p, "RETRY") /\ RetryLeft(p)
                                          -> <<"PENDING", RetryWait(p)>>
    [] work[p].obsolete = "none" /\ Saw(p, "RETRY") /\ ~RetryLeft(p)
                                          -> <<"FAILED", 0>>
    [] work[p].obsolete = "none" /\ ~Saw(p, "RETRY") /\ Saw(p, "REJECTED")
                                          -> <<"FAILED", 0>>
    [] OTHER                              -> IF work[p].others THEN <<"PENDING", 0>>
                                             ELSE <<"DISPATCHED", 0>>

\* The devices whose token the provider no longer knows, and that still have one.
Unregistered(p) == {d \in Device : work[p].out[d] = "UNREGISTERED" /\ device[d].token # NoToken}
InvalidationKeys(p) == {<<"invalidated", d, work[p].token[d]>> : d \in Unregistered(p)}

\* The last transaction raises: a device is gone, or an event is on record.
RecordFails(p) ==
  \/ \E d \in Tried(p) : ~Exists(d)
  \/ \E key \in InvalidationKeys(p) : ~CanAppend(key)

\* _dispatch, last transaction: ledger, tokens and settlement.
Record(p) ==
  /\ work[p].pc = "record"
  /\ IF RecordFails(p)
     THEN UNCHANGED <<row, deliveries, device, events>>
     ELSE /\ deliveries' = deliveries \cup
               {[dev |-> d, attempt |-> work[p].attempt, outcome |-> work[p].out[d]] : d \in Tried(p)}
          /\ device' = TokensInvalidated(Unregistered(p))
          /\ events' = events \cup InvalidationKeys(p)
          /\ row' = Settled(work[p].attempt, Verdict(p)[1], Verdict(p)[2])
  /\ Finish(p)
  /\ UNCHANGED <<expiry, stale, got, lost, faults, regs>>

Crash(p) ==
  /\ work[p].pc # "idle"
  /\ faults < MaxFaults
  /\ faults' = faults + 1
  /\ Finish(p)
  /\ UNCHANGED <<row, expiry, stale, deliveries, got, lost, deviceVars>>

-----------------------------------------------------------------------------
(* The rest of the world *)

\* The approval is resolved, the question answered, the run seen by its owner.
Resolve ==
  /\ ~stale
  /\ stale' = TRUE
  /\ UNCHANGED <<row, expiry, deliveries, work, got, lost, faults, deviceVars>>

OwnerActs ==
  /\ \E d \in Device :
       \/ \E tok \in Token : Register(d, tok)
       \/ Revoke(d)
       \/ Delete(d, \E r \in deliveries : r.dev = d)
  /\ UNCHANGED <<row, expiry, stale, deliveries, work, got, lost, faults>>

Decrement(n) == IF n = 0 THEN 0 ELSE n - 1

\* The claim is about to run out while its dispatcher is still at work.
LeaseSlips == row.lease = 1 /\ \E p \in Dispatcher : work[p].pc # "idle" /\ work[p].attempt = row.attempts

Tick ==
  /\ row.lease > 0 \/ row.wait > 0 \/ expiry > 0
  /\ LeaseSlips => faults < MaxFaults
  /\ faults' = IF LeaseSlips THEN faults + 1 ELSE faults
  /\ row' = [row EXCEPT !.lease = Decrement(@), !.wait = Decrement(@)]
  /\ expiry' = Decrement(expiry)
  /\ work' = [p \in Dispatcher |->
                IF work[p].pc \in {"idle", "open"} \/ work[p].age = Lease THEN work[p]
                ELSE [work[p] EXCEPT !.age = @ + 1]]
  /\ UNCHANGED <<stale, deliveries, got, lost, deviceVars>>

Step(p) ==
  Claim(p) \/ OpenObsolete(p) \/ Open(p) \/ Release(p) \/ Skip(p) \/ Check(p) \/ Send(p) \/ Record(p)

Next ==
  \/ \E p \in Dispatcher : Step(p) \/ Crash(p)
  \/ Resolve
  \/ OwnerActs
  \/ Tick

Spec == Init /\ [][Next]_vars

\* Every dispatcher polls and goes on with what it does, and time passes.
FairSpec == Spec /\ (\A p \in Dispatcher : WF_vars(Step(p))) /\ WF_vars(Tick)

-----------------------------------------------------------------------------
(* Properties *)

\* A device is sent the push again only after a RETRY, or when the earlier
\* attempt never committed its ledger rows in time: its claim was taken over.
\* (notification_dispatcher._dispatch, the claim and the ledger together.)
RepeatNeedsRetryOrLostClaim ==
  \A d \in Device : \A m, n \in got[d] :
    m < n => m \in lost \/ [dev |-> d, attempt |-> m, outcome |-> "RETRY"] \in deliveries

\* A row fails only because a provider rejected it, or because an attempt
\* after the last delay of the schedule still asked for a retry.
\* (the retry index of _dispatch.)
FailureIsEarned ==
  row.status = "FAILED" =>
    \E r \in deliveries : \/ r.outcome = "REJECTED"
                          \/ r.outcome = "RETRY" /\ r.attempt > Len(RetryDelays)

\* When a dispatcher settles the row as dispatched, every device it saw as a
\* target has its last word in the ledger, whoever delivered to it.
\* (the other_targets of _dispatch.)
DispatchedReachesAll ==
  [][row'.status = "DISPATCHED" /\ row.status = "PENDING" =>
       \E p \in Dispatcher :
         /\ work[p].attempt = row.attempts
         /\ work'[p].pc = "idle"
         /\ \A d \in Addressed :
              work[p].token[d] # NoToken => \E r \in deliveries' : r.dev = d /\ r.outcome # "RETRY"]_vars

\* Whatever dispatchers, providers, owner and clock do, the row is settled.
\* (retry schedule, lease, expiry and provider partition together.)
RowIsSettled == <>(row.status # "PENDING")
=============================================================================
