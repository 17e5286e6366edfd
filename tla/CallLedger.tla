----------------------------- MODULE CallLedger -----------------------------
(***************************************************************************)
(* What outbound calling promises to those who read its ledger, without    *)
(* workers, receipts, reconcilers and crashes: a call has one entry, the   *)
(* line is taken by one entry at a time, and an entry is closed with what  *)
(* happened at the provider.  Module Calls implements it; module CallPlans *)
(* is built on it.                                                         *)
(***************************************************************************)
CONSTANT Call     \* keys of the calls

VARIABLES
  ledger,         \* the entry of each call
  truth           \* what happened to each call at the provider

ledgerVars == <<ledger, truth>>

Result == {"completed", "no_answer"}

LedgerTypeOK ==
  /\ ledger \in [Call -> {"none", "open", "not_dispatched"} \cup Result]
  /\ truth \in [Call -> {"none", "ringing"} \cup Result]

LedgerInit ==
  /\ ledger = [k \in Call |-> "none"]
  /\ truth = [k \in Call |-> "none"]

\* The line is reserved before anything is dialed.
Open(k) ==
  /\ ledger[k] = "none"
  /\ \A j \in Call : ledger[j] # "open"
  /\ ledger' = [ledger EXCEPT ![k] = "open"]
  /\ UNCHANGED truth

\* The call reaches the provider, once.
Place(k) ==
  /\ ledger[k] = "open" /\ truth[k] = "none"
  /\ truth' = [truth EXCEPT ![k] = "ringing"]
  /\ UNCHANGED ledger

End(k) ==
  /\ truth[k] = "ringing"
  /\ \E r \in Result : truth' = [truth EXCEPT ![k] = r]
  /\ UNCHANGED ledger

\* The entry is given up before the call has reached the provider.
GiveUp(k) ==
  /\ ledger[k] = "open" /\ truth[k] = "none"
  /\ ledger' = [ledger EXCEPT ![k] = "not_dispatched"]
  /\ UNCHANGED truth

Close(k) ==
  /\ ledger[k] = "open" /\ truth[k] \in Result
  /\ ledger' = [ledger EXCEPT ![k] = truth[k]]
  /\ UNCHANGED truth

LedgerNext == \E k \in Call : Open(k) \/ Place(k) \/ End(k) \/ GiveUp(k) \/ Close(k)

LedgerSpec == LedgerInit /\ [][LedgerNext]_ledgerVars
=============================================================================
