----------------------------- MODULE MCCluster -----------------------------
(* Instances of Cluster for TLC: a first master and its replicas. *)
EXTENDS Cluster
CONSTANTS n1, n2, n3

Three == {n1, n2, n3}
Two == {n1, n2}
=============================================================================
