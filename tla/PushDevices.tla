---------------------------- MODULE PushDevices -----------------------------
(***************************************************************************)
(* The device registry of one principal: which devices exist, which push   *)
(* token each holds, and the process events that audit their lifecycle     *)
(* (application/device_management.py, PostgresDeviceRegistry of            *)
(* adapters/persistence/notifications.py).                                 *)
(*                                                                         *)
(* A process event has a derivation key.  Appending a second event under   *)
(* a key raises a ConflictError, because the stored event differs from the *)
(* new one in its id, and so undoes the transaction it is part of.         *)
(***************************************************************************)
EXTENDS Naturals, FiniteSets

CONSTANTS
  Device,       \* device rows, one per client_device_id and registration
  Token,        \* push tokens
  NoToken,      \* push_token is NULL
  Provider,     \* the push provider that serves each device
  MaxRegs       \* bound: registrations of a device that exists already

ASSUME DevicesAssumption ==
  /\ NoToken \notin Token
  /\ MaxRegs \in Nat

VARIABLES
  device,       \* [status, token] of each device
  events,       \* derivation keys of the process events
  regs          \* registrations of existing devices so far

deviceVars == <<device, events, regs>>

DeviceType ==
  /\ device \in [Device -> [status: {"none", "ACTIVE", "REVOKED", "deleted"},
                            token: Token \cup {NoToken}]]
  /\ events \subseteq ({"revoked"} \X Device \X {NoToken})
                        \cup ({"invalidated"} \X Device \X Token)
  /\ regs \in 0..MaxRegs

\* Devices in D are registered with a token of their own, the others are new.
DeviceInit(D) ==
  \E t \in [D -> Token] :
    /\ \A c, d \in D : c # d /\ Provider[c] = Provider[d] => t[c] # t[d]
    /\ device = [d \in Device |-> IF d \in D THEN [status |-> "ACTIVE", token |-> t[d]]
                                  ELSE [status |-> "none", token |-> NoToken]]
    /\ events = {}
    /\ regs = 0

\* ProcessEventRepository.append does not raise.
CanAppend(key) == key \notin events

Exists(d) == device[d].status \in {"ACTIVE", "REVOKED"}

\* Slip: the token is not taken from the device that held it.
CopyToken(dev, d, tok) == [dev EXCEPT ![d] = [status |-> "ACTIVE", token |-> tok]]

\* upsert: the token moves here from the active device that holds it.
TakeToken(dev, d, tok) ==
  [c \in Device |->
     IF c = d THEN [status |-> "ACTIVE", token |-> tok]
     ELSE IF /\ Provider[c] = Provider[d]
             /\ dev[c] = [status |-> "ACTIVE", token |-> tok]
          THEN [dev[c] EXCEPT !.token = NoToken]
     ELSE dev[c]]

\* DeviceService.register: a new row, or the existing one, a revoked one too.
Register(d, tok) ==
  /\ device[d].status # "deleted"
  /\ IF Exists(d) THEN regs < MaxRegs /\ regs' = regs + 1 ELSE regs' = regs
  /\ device' = TakeToken(device, d, tok)
  /\ UNCHANGED events

\* DeviceService.revoke: a revoked device is left alone; the event is part of
\* the transaction.
Revoke(d) ==
  LET key == <<"revoked", d, NoToken>>
      fails == device[d].status = "REVOKED" \/ ~CanAppend(key)
  IN /\ Exists(d)
     /\ device' = IF fails THEN device
                  ELSE [device EXCEPT ![d] = [status |-> "REVOKED", token |-> NoToken]]
     /\ events' = IF fails THEN events ELSE events \cup {key}
     /\ UNCHANGED regs

\* DeviceService.delete: delivery rows that refer to the device forbid it.
Delete(d, referenced) ==
  /\ Exists(d)
  /\ ~referenced
  /\ device' = [device EXCEPT ![d] = [status |-> "deleted", token |-> NoToken]]
  /\ UNCHANGED <<events, regs>>

\* What invalidating the tokens of the devices in D leaves: whatever token
\* each of them now holds is gone.
TokensInvalidated(D) ==
  [d \in Device |-> IF d \in D THEN [device[d] EXCEPT !.token = NoToken] ELSE device[d]]

-----------------------------------------------------------------------------
(* Properties *)

\* Two active devices of one provider never hold the same token: a push for
\* one installation cannot reach another.  (upsert moves a token.)
TokenHasOneDevice ==
  \A c, d \in Device :
    /\ c # d
    /\ Provider[c] = Provider[d]
    /\ {device[c].status, device[d].status} = {"ACTIVE"}
    => device[c].token # device[d].token \/ device[c].token = NoToken
=============================================================================
