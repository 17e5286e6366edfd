----------------------------- MODULE Nominals -----------------------------
(***************************************************************************)
(* What RecurrenceCalculator (domain/recurrence.py) promises of a cadence, *)
(* which here is simply the set of its nominal instants.  Module Schedules *)
(* takes these definitions for the calculator; module Recurrence checks    *)
(* that the calendar arithmetic of the code computes them.                 *)
(***************************************************************************)
EXTENDS Naturals, FiniteSets

None == 0

FirstOf(S) == IF S = {} THEN None ELSE CHOOSE t \in S : \A u \in S : t <= u
LastOf(S) == IF S = {} THEN None ELSE CHOOSE t \in S : \A u \in S : t >= u

next_after(C, t) == FirstOf({n \in C : n > t})

latest_at_or_before(C, t) == LastOf({n \in C : n <= t})

count_between(C, first, last) == Cardinality({n \in C : first <= n /\ n <= last})
=============================================================================
