---------------------------- MODULE MCSchedules ----------------------------
(* Model-checking instance of Schedules. *)
EXTENDS Schedules

Uneven == [cadence |-> {2, 4, 9}, limit |-> 1]

MCDefinitions == {Uneven}
=============================================================================
