--------------------------- MODULE TrafficReport ---------------------------
(***************************************************************************)
(* How much one client used the network, as the master adds it up.         *)
(*                                                                         *)
(* Each node counts the bytes of its own sessions in the table traffic     *)
(* (accounting.go TouchSession) and reports the absolute count with its    *)
(* heartbeat (heartbeat.go report, beat); the master keeps one row per     *)
(* node in node_traffic and sums them for panel and quota (net_traffic.go).*)
(* The master's snapshots carry its node_traffic AND its own traffic row   *)
(* to the replicas, where carryLocal keeps the larger count (local.go).    *)
(*                                                                         *)
(* Bytes in and out are one number.  A swap is one step and loses nothing  *)
(* (HotSwap is about that); every node knows who the master is (Cluster is *)
(* about that).                                                            *)
(***************************************************************************)
EXTENDS Naturals

CONSTANTS
    Node,
    FirstMaster,
    MaxBytes,       \* bound: bytes passed in the whole network
    MaxLoss,        \* bound: beats lost
    MaxPromote,     \* bound: promotions
    MaxRestart      \* bound: restarts

ASSUME TrafficAssumption ==
    /\ FirstMaster \in Node
    /\ MaxBytes \in Nat /\ MaxLoss \in Nat /\ MaxPromote \in Nat /\ MaxRestart \in Nat

VARIABLES
    master,
    traffic,    \* the client's row of table traffic on each node
    table,      \* table[d][n]: the row of node n in the node_traffic of node d
    sent,       \* Beater.sent: the count each node last put into a report
    beat,       \* the report in flight
    snap,       \* the snapshot a replica is receiving
    total,      \* history: bytes passed in the network
    passed,     \* history: bytes passed through each node
    losses, promotes, restarts

reportVars == <<master, traffic, table, sent, beat, snap, total, passed, losses, promotes, restarts>>

Rows == [Node -> Nat]
NoBeat == [st |-> "idle", to |-> FirstMaster, v |-> 0]
Beat == [st : {"idle", "asked"}, to : Node, v : Nat]
Zero == [n \in Node |-> 0]
NoSnap == [st |-> "idle", traffic |-> 0, rows |-> Zero]
Snap == [st : {"idle", "got"}, traffic : Nat, rows : Rows]

\* MAX of the carried row and the snapshot's.
Larger(a, b) == IF a > b THEN a ELSE b

ReportInit ==
    /\ master = FirstMaster
    /\ traffic = Zero /\ sent = Zero /\ passed = Zero
    /\ table = [d \in Node |-> Zero]
    /\ beat = [n \in Node |-> NoBeat]
    /\ snap = [n \in Node |-> NoSnap]
    /\ total = 0 /\ losses = 0 /\ promotes = 0 /\ restarts = 0

-----------------------------------------------------------------------------
\* A session flushes what it passed (TouchSession).
Pass(n) ==
    /\ total < MaxBytes
    /\ total' = total + 1
    /\ passed' = [passed EXCEPT ![n] = @ + 1]
    /\ traffic' = [traffic EXCEPT ![n] = @ + 1]
    /\ UNCHANGED <<master, table, sent, beat, snap, losses, promotes, restarts>>

\* Wrong: the first byte after a report is not worth another.
ReportedCoarse(n) == IF traffic[n] > sent[n] + 1 THEN traffic[n] ELSE 0

\* report: only a count that differs from the one sent last (0: no row).
Reported(n) == IF traffic[n] # sent[n] THEN traffic[n] ELSE 0

\* ReportNodeTraffic replaces the row.
Accept(d, n, v) == table' = IF v = 0 THEN table ELSE [table EXCEPT ![d][n] = v]

\* The count is marked as sent before the request goes out.
BeatStart(n) ==
    /\ beat[n].st = "idle" /\ n # master
    /\ beat' = [beat EXCEPT ![n] = [st |-> "asked", to |-> master, v |-> Reported(n)]]
    /\ sent' = [sent EXCEPT ![n] = traffic[n]]
    /\ UNCHANGED <<master, traffic, table, snap, total, passed, losses, promotes, restarts>>

\* serveHeartbeat takes the report, whether or not the node is a master still.
BeatServe(n) ==
    /\ beat[n].st = "asked"
    /\ Accept(beat[n].to, n, beat[n].v)
    /\ beat' = [beat EXCEPT ![n] = NoBeat]
    /\ UNCHANGED <<master, traffic, sent, snap, total, passed, losses, promotes, restarts>>

BeatLost(n) ==
    /\ beat[n].st = "asked" /\ losses < MaxLoss
    /\ beat' = [beat EXCEPT ![n] = NoBeat]
    /\ losses' = losses + 1
    /\ UNCHANGED <<master, traffic, table, sent, snap, total, passed, promotes, restarts>>

\* The master puts its own report into its own table.
MasterBeat(n) ==
    /\ n = master /\ beat[n].st = "idle"
    /\ Accept(n, n, Reported(n))
    /\ sent' = [sent EXCEPT ![n] = traffic[n]]
    /\ UNCHANGED <<master, traffic, beat, snap, total, passed, losses, promotes, restarts>>

-----------------------------------------------------------------------------
\* The master's whole database, traffic row included, is on its way.
PullSnapshot(n) ==
    /\ n # master /\ snap[n].st = "idle"
    /\ snap' = [snap EXCEPT ![n] =
                  [st |-> "got", traffic |-> traffic[master], rows |-> table[master]]]
    /\ UNCHANGED <<master, traffic, table, sent, beat, total, passed, losses, promotes, restarts>>

\* carryLocal: the larger of the two counts stays.
PullInstall(n) ==
    /\ snap[n].st = "got"
    /\ traffic' = [traffic EXCEPT ![n] = Larger(traffic[n], snap[n].traffic)]
    /\ table' = [table EXCEPT ![n] = snap[n].rows]
    /\ snap' = [snap EXCEPT ![n] = NoSnap]
    /\ UNCHANGED <<master, sent, beat, total, passed, losses, promotes, restarts>>

Promote(n) ==
    /\ n # master /\ promotes < MaxPromote
    /\ master' = n
    /\ promotes' = promotes + 1
    /\ UNCHANGED <<traffic, table, sent, beat, snap, total, passed, losses, restarts>>

\* What was sent is remembered in memory only.
Restart(n) ==
    /\ restarts < MaxRestart
    /\ restarts' = restarts + 1
    /\ sent' = [sent EXCEPT ![n] = 0]
    /\ beat' = [beat EXCEPT ![n] = NoBeat]
    /\ snap' = [snap EXCEPT ![n] = NoSnap]
    /\ UNCHANGED <<master, traffic, table, total, passed, losses, promotes>>

-----------------------------------------------------------------------------
Beats(n) == BeatStart(n) \/ BeatServe(n) \/ MasterBeat(n)
Pulls(n) == PullSnapshot(n) \/ PullInstall(n)

ReportNext == \E n \in Node :
    Pass(n) \/ Beats(n) \/ BeatLost(n) \/ Pulls(n) \/ Promote(n) \/ Restart(n)

ReportSpec == ReportInit /\ [][ReportNext]_reportVars

\* Both tickers run for ever.
ReportFairSpec == ReportSpec /\ \A n \in Node : WF_reportVars(Beats(n)) /\ WF_reportVars(Pulls(n))

-----------------------------------------------------------------------------
ReportTypeOK ==
    /\ master \in Node
    /\ traffic \in Rows /\ sent \in Rows /\ passed \in Rows
    /\ table \in [Node -> Rows]
    /\ beat \in [Node -> Beat] /\ snap \in [Node -> Snap]
    /\ total \in Nat /\ losses \in Nat /\ promotes \in Nat /\ restarts \in Nat

\* A node's count covers what went through it, through any sequence of swaps
\* (local.go: a smaller number must not overwrite it), and never exceeds what
\* went through the whole network.
CountCoversTraffic == \A n \in Node : passed[n] <= traffic[n] /\ traffic[n] <= total

\* No database attributes to a node more than that node counted: late snapshots,
\* repeated, lost and misdirected reports only ever understate.
ReportsNeverAhead == \A d, n \in Node : table[d][n] <= traffic[n]

\* What makes both inductive: nothing in flight is ahead of the counts.
InFlightBehind == \A d, n \in Node :
    /\ beat[n].v <= traffic[n]
    /\ snap[d].rows[n] <= traffic[n] /\ snap[d].traffic <= total

\* The master never sums up more than each node passed (net_traffic.go
\* NetworkTrafficOf: each node sees only its own share).
SharesAddUp == \A n \in Node : table[master][n] <= passed[n]

\* Unless a report was lost or went to a replaced master, the master's sum
\* catches up with the counts, restarts included (net_traffic.go
\* ReportNodeTraffic; heartbeat.go report).
Undisturbed == losses = 0 /\ promotes = 0
Agree == \A n \in Node : table[master][n] = traffic[n]
ReportsConverge == []Undisturbed => <>[]Agree

\* Unless a report was lost or misdirected, what a node remembers as sent is in the master's table
\* or in the report under way: a report that is left out because its count was sent before
\* (heartbeat.go report) is one the master has, though the node is restarted and puts snapshots in place.
Arrives(n) == sent[n] <= table[master][n] \/ (beat[n].st = "asked" /\ beat[n].v = sent[n])
SentArrives == Undisturbed => \A n \in Node : Arrives(n)

\* Once every count was sent and nothing is under way, the master's sums are right.
NothingToSend == \A n \in Node : beat[n].st = "idle" /\ sent[n] = traffic[n]
RestIsAgreement == Undisturbed /\ NothingToSend => Agree

\* The same after any break (heartbeat.go beatReport: the node reports again);
\* false with MaxLoss = 1 or MaxPromote = 1.
ReportsConvergeAfterBreaks == <>[]Agree
=============================================================================
