------------------------------ MODULE MCExits ------------------------------
(***************************************************************************)
(* Instances for TLC of the two modules about the way out: FlowRoute, with *)
(* a master and a replica, and Balance, with two candidates.  They share   *)
(* no variable, so a behaviour is of one or of the other.                  *)
(***************************************************************************)
EXTENDS FlowRoute, Balance
CONSTANTS a, b, f1, f2
VARIABLE part

Two == {a, b}

Routing == part = "routing"
Choosing == part = "choosing"

ExitsInit == Init /\ BalanceInit /\ part \in {"routing", "choosing"}

ExitsNext ==
    /\ \/ Routing /\ Next /\ UNCHANGED balanceVars
       \/ Choosing /\ BalanceNext /\ UNCHANGED vars
    /\ UNCHANGED part

\* The fairness of FairSpec and of BalanceFairSpec.
ExitsSpec ==
    /\ ExitsInit /\ [][ExitsNext]_<<vars, balanceVars, part>>
    /\ \A f \in Flow : WF_vars(Routing /\ Step(f) /\ UNCHANGED <<balanceVars, part>>)
    /\ \A n \in Node : WF_vars(Routing /\ Reload(n) /\ UNCHANGED <<balanceVars, part>>)
    /\ WF_balanceVars(Choosing /\ Tick /\ UNCHANGED <<vars, part>>)
    /\ \A n \in Neighbour : WF_balanceVars(Choosing /\ Observe(n) /\ UNCHANGED <<vars, part>>)
    /\ \A p \in Picker : /\ WF_balanceVars(Choosing /\ Gather(p) /\ UNCHANGED <<vars, part>>)
                         /\ WF_balanceVars(Choosing /\ Pick(p) /\ UNCHANGED <<vars, part>>)
=============================================================================
