----------------------------- MODULE MCNodeData -----------------------------
(***************************************************************************)
(* Instances for TLC of the two modules about the data a node keeps of its *)
(* own: HotSwap, with local rows of different tables, and TrafficReport,   *)
(* with a master and a replica.  They share no variable, so a behaviour is *)
(* of one or of the other.                                                 *)
(***************************************************************************)
EXTENDS HotSwap, TrafficReport, TLC
CONSTANTS n1, n2, w1, w2
VARIABLE part

Two == {n1, n2}
TwoTables == w1 :> "devices" @@ w2 :> "traffic"

Filing == part = "filing"
Counting == part = "counting"

DataInit == Init /\ ReportInit /\ part \in {"filing", "counting"}

DataNext ==
    /\ \/ Filing /\ Next /\ UNCHANGED reportVars
       \/ Counting /\ ReportNext /\ UNCHANGED vars
    /\ UNCHANGED part

\* The fairness of ReportFairSpec; HotSwap is checked for safety only.
DataSpec ==
    /\ DataInit /\ [][DataNext]_<<vars, reportVars, part>>
    /\ \A n \in Node :
          /\ WF_reportVars(Counting /\ Beats(n) /\ UNCHANGED <<vars, part>>)
          /\ WF_reportVars(Counting /\ Pulls(n) /\ UNCHANGED <<vars, part>>)
=============================================================================
