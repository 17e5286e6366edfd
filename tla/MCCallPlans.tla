---------------------------- MODULE MCCallPlans ----------------------------
(* Model-checking instance of CallPlans: the first run may place two calls. *)
EXTENDS CallPlans

Places == <<1, 1, 2, 3>>

Numbers == DOMAIN Places
=============================================================================
