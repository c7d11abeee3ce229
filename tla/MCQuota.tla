------------------------------ MODULE MCQuota ------------------------------
(* Instances of Quota for TLC: a limit of one unit, for good or for a period of one tick. *)
EXTENDS Quota

Plans == {[limit |-> 1, days |-> 0], [limit |-> 1, days |-> 1]}
=============================================================================
