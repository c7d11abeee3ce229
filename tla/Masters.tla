------------------------------ MODULE Masters ------------------------------
(***************************************************************************)
(* What a network promises about its master, whatever beats, snapshots and *)
(* promotions of its nodes overlap.  Declarations are numbered, and each   *)
(* takes the number after the newest; a node knows one of them or none; it *)
(* moves to a newer one, except when it puts another node's database in    *)
(* place, which is not older than what it knew when it asked.              *)
(***************************************************************************)
EXTENDS Naturals

CONSTANTS Node, None, FirstMaster

VARIABLES
    row,            \* the declaration each node knows
    issued,         \* those that were made
    asked           \* asked[n]: the number n knew when it asked for a database, 0 if it has not

vars == <<row, issued, asked>>

Nothing == [epoch |-> 0, master |-> None]
First == [epoch |-> 1, master |-> FirstMaster]

Init ==
    /\ row = [n \in Node |-> Nothing]
    /\ issued = {First}
    /\ asked = [n \in Node |-> 0]

\* Node n is told of the first master, or is it.
Join(n) ==
    /\ row[n].epoch = 0
    /\ row' = [row EXCEPT ![n] = First]
    /\ UNCHANGED <<issued, asked>>

\* Only a node that knows the newest declaration keeps the next one; if a database was put in place
\* under it meanwhile, the next one is made, and nobody knows it.
Declare(n) ==
    \E t \in Node, p \in issued :
        LET r == [epoch |-> p.epoch + 1, master |-> t] IN
        /\ \A q \in issued : q.epoch <= p.epoch
        /\ issued' = issued \cup {r}
        /\ row' = row \/ (row[n] = p /\ row' = [row EXCEPT ![n] = r])
        /\ UNCHANGED asked

Follow(n) ==
    /\ \E r \in issued : r.epoch > row[n].epoch /\ row' = [row EXCEPT ![n] = r]
    /\ UNCHANGED <<issued, asked>>

Ask(n) ==
    /\ asked[n] = 0 /\ row[n].epoch > 0
    /\ asked' = [asked EXCEPT ![n] = row[n].epoch]
    /\ UNCHANGED <<row, issued>>

\* Requests of the nodes of S come to nothing.
Drop(S) == asked' = [n \in Node |-> IF n \in S THEN 0 ELSE asked[n]]

GiveUp == (\E S \in SUBSET Node : Drop(S)) /\ UNCHANGED <<row, issued>>

\* Requests to n for its former database may end with it.
Replace(n) ==
    /\ asked[n] > 0
    /\ \E r \in issued : r.epoch >= asked[n] /\ row' = [row EXCEPT ![n] = r]
    /\ \E S \in SUBSET Node : n \in S /\ Drop(S)
    /\ UNCHANGED issued

Next == GiveUp \/ \E n \in Node : Join(n) \/ Declare(n) \/ Follow(n) \/ Ask(n) \/ Replace(n)

Spec == Init /\ [][Next]_vars
=============================================================================
