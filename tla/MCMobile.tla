------------------------------ MODULE MCMobile ------------------------------
(* Instances of Mobile for TLC: one engine that carries packets, and two of *)
(* which the second takes the place of the first.                           *)
EXTENDS Mobile

B(start, packet, fail) == [starts |-> start, packets |-> packet, fails |-> fail]

Small == {B(1, 3, 1), B(2, 0, 1)}
=============================================================================
