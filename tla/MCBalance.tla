----------------------------- MODULE MCBalance -----------------------------
(* An instance of Balance for TLC: two flows and two candidates, on paths   *)
(* of 20 and 50 ms.                                                         *)
EXTENDS Balance
=============================================================================
