---------------------------- MODULE MCClientRun ----------------------------
(* Instances of ClientRun for TLC: a machine with two adapters, a TCP flow *)
(* and a UDP flow, and one place in each queue of the engine.              *)
EXTENDS ClientRun
CONSTANTS t, u

Flows2 == {t, u}
UdpFlows == {u}
=============================================================================
