------------------------------ MODULE Cluster ------------------------------
(***************************************************************************)
(* Who is the master of the QUIC Diver network, as each node believes it.  *)
(*                                                                         *)
(* Every node keeps one row "cluster" (epoch, master) in its database.     *)
(* The row changes in three ways: an administrator promotes a node through *)
(* that node's API (cluster.go Promote), a heartbeat brings back the       *)
(* master's newer row (heartbeat.go beat, cluster.go AdoptCluster), and a  *)
(* snapshot pulled from the master replaces the whole database             *)
(* (replica.go pull, swap.go SwapFile).  None of the three is atomic: a    *)
(* handler keeps the database handle it took at its start, so a step that  *)
(* completes after a hot swap lands in the retired database.               *)
(***************************************************************************)
EXTENDS Naturals, FiniteSets

CONSTANTS
    Node,           \* the server nodes
    None,           \* the empty master_id
    FirstMaster,    \* the node the others are installed against (-master)
    Discipline,     \* how the administrator uses the promote API, see MayPromote
    MaxEpoch,       \* bound: no promotion once the row reads this epoch
    MaxBusy         \* bound: operations in flight in the whole network

ASSUME ClusterAssumption ==
    /\ FirstMaster \in Node
    /\ None \notin Node
    /\ Discipline \in {"none", "any", "latest", "acting"}
    /\ MaxEpoch \in Nat
    /\ MaxBusy \in Nat

VARIABLES
    up,         \* nodes whose process runs
    row,        \* the cluster row of each node's live database
    old,        \* the cluster row of the database the last swap retired
    pull,       \* the replicator of each node
    beat,       \* the heartbeat of each node
    admin,      \* the promote request each node serves
    promoted    \* history: every row a promotion (or an installation) issued

vars == <<up, row, old, pull, beat, admin, promoted>>

Row == [epoch : Nat, master : Node \cup {None}]

\* ClusterState of an empty table.
NoRow == [epoch |-> 0, master |-> None]

\* A handler holds the live database or the one retired under it.
Handle == {"cur", "old"}

\* IsMaster: a node nobody has told otherwise is its own master.
IsMaster(n) == row[n].master \in {None, n}

\* What a handler of node n reads through the handle it took at its start.
Seen(n, h) == IF h = "cur" THEN row[n] ELSE old[n]

\* Writing through a handle: after a swap the write goes to the retired file.
Write(n, h, r) ==
    /\ row' = IF h = "cur" THEN [row EXCEPT ![n] = r] ELSE row
    /\ old' = IF h = "old" THEN [old EXCEPT ![n] = r] ELSE old

NoPull  == [st |-> "idle", epoch |-> 0, peer |-> None, src |-> "cur", got |-> 0, snap |-> NoRow]
NoBeat  == [st |-> "idle", h |-> "cur", epoch |-> 0, peer |-> None, ans |-> NoRow]
NoAdmin == [st |-> "idle", h |-> "cur", epoch |-> 0, target |-> None]

Pull  == [st : {"idle", "asked", "header", "body"}, epoch : Nat,
          peer : Node \cup {None}, src : Handle, got : Nat, snap : Row]
Beat  == [st : {"idle", "asked", "answered", "adopting"}, h : Handle, epoch : Nat,
          peer : Node \cup {None}, ans : Row]
Admin == [st : {"idle", "reading", "writing"}, h : Handle, epoch : Nat,
          target : Node \cup {None}]

Busy == Cardinality({n \in Node : pull[n].st # "idle"})
      + Cardinality({n \in Node : beat[n].st # "idle"})
      + Cardinality({n \in Node : admin[n].st # "idle"})

Init ==
    /\ up = {}
    /\ row = [n \in Node |-> NoRow]
    /\ old = [n \in Node |-> NoRow]
    /\ pull = [n \in Node |-> NoPull]
    /\ beat = [n \in Node |-> NoBeat]
    /\ admin = [n \in Node |-> NoAdmin]
    /\ promoted = {[epoch |-> 1, master |-> FirstMaster]}

-----------------------------------------------------------------------------
(* Start and stop of a node. *)

\* BootstrapMaster runs at the start of every node installed with -master and
\* does nothing once the node knows a network.
Start(n) ==
    /\ n \notin up
    /\ up' = up \cup {n}
    /\ row' = IF n # FirstMaster /\ row[n].epoch = 0
              THEN [row EXCEPT ![n] = [epoch |-> 1, master |-> FirstMaster]]
              ELSE row
    /\ UNCHANGED <<old, pull, beat, admin, promoted>>

\* The process dies: what its goroutines and handlers held is gone, and so are
\* the snapshots it was about to write for others.
Crash(n) ==
    /\ n \in up
    /\ up' = up \ {n}
    /\ pull' = [p \in Node |->
                 IF p = n \/ (pull[p].peer = n /\ pull[p].st = "header")
                 THEN NoPull ELSE pull[p]]
    /\ beat' = [beat EXCEPT ![n] = NoBeat]
    /\ admin' = [admin EXCEPT ![n] = NoAdmin]
    /\ UNCHANGED <<row, old, promoted>>

-----------------------------------------------------------------------------
(* The administrator. *)

Top(e) == \A p \in promoted : p.epoch <= e

\* What is assumed of the administrator; no line of the code checks it.
\* "any":    nothing, the API as it is: any node may be asked at any time.
\* "latest": one promotion at a time, asked of a node that knows the newest
\*           epoch (or declaring the first master at the first master).
\* "acting": the same, and asked of the acting master itself.
MayPromote(n, t) ==
    \/ Discipline = "any"
    \/ /\ Discipline \in {"latest", "acting"}
       /\ \A m \in Node : admin[m].st = "idle"
       /\ \/ /\ row[n].epoch > 0
             /\ Top(row[n].epoch)
             /\ Discipline = "acting" => row[n].master = n
          \/ /\ n = FirstMaster /\ t = FirstMaster
             /\ row[n] = NoRow /\ Top(1)

\* Wrong: the epoch is not raised.
AdminPromoteSameEpoch(n, t) ==
    /\ n \in up /\ admin[n].st = "idle" /\ Busy < MaxBusy
    /\ row[n].epoch < MaxEpoch
    /\ MayPromote(n, t)
    /\ admin' = [admin EXCEPT ![n] =
                   [st |-> "writing", h |-> "cur", epoch |-> row[n].epoch, target |-> t]]
    /\ UNCHANGED <<up, row, old, pull, beat, promoted>>

\* POST {"node": t, "confirm": true}: Promote reads the row ...
AdminPromote(n, t) ==
    /\ n \in up /\ admin[n].st = "idle" /\ Busy < MaxBusy
    /\ row[n].epoch < MaxEpoch
    /\ MayPromote(n, t)
    /\ admin' = [admin EXCEPT ![n] =
                   [st |-> "writing", h |-> "cur", epoch |-> row[n].epoch + 1, target |-> t]]
    /\ UNCHANGED <<up, row, old, pull, beat, promoted>>

\* PUT re-announces the master the row names; Promote then reads the row again.
AdminRebroadcast(n) ==
    /\ n \in up /\ admin[n].st = "idle" /\ Busy < MaxBusy
    /\ row[n].epoch < MaxEpoch
    /\ MayPromote(n, row[n].master)
    /\ admin' = [admin EXCEPT ![n] =
                   [st |-> "reading", h |-> "cur", epoch |-> 0, target |-> row[n].master]]
    /\ UNCHANGED <<up, row, old, pull, beat, promoted>>

AdminRead(n) ==
    /\ admin[n].st = "reading"
    /\ admin' = [admin EXCEPT ![n].st = "writing",
                              ![n].epoch = Seen(n, admin[n].h).epoch + 1]
    /\ UNCHANGED <<up, row, old, pull, beat, promoted>>

\* ... and writes the next epoch, in a statement of its own.
AdminWrite(n) ==
    LET r == [epoch |-> admin[n].epoch, master |-> admin[n].target] IN
    /\ admin[n].st = "writing"
    /\ Write(n, admin[n].h, r)
    /\ promoted' = promoted \cup {r}
    /\ admin' = [admin EXCEPT ![n] = NoAdmin]
    /\ UNCHANGED <<up, pull, beat>>

\* The second read or the write fails, and the request with it.
AdminFail(n) ==
    /\ admin[n].st # "idle"
    /\ admin' = [admin EXCEPT ![n] = NoAdmin]
    /\ UNCHANGED <<up, row, old, pull, beat, promoted>>

-----------------------------------------------------------------------------
(* The heartbeat: a replica asks its master once a minute.  Here and in a  *)
(* pull the address of the master is taken from the registry; a master it  *)
(* does not list is not asked, and the tick changes nothing.               *)

BeatStart(n) ==
    /\ n \in up /\ beat[n].st = "idle" /\ Busy < MaxBusy
    /\ ~IsMaster(n)
    /\ beat' = [beat EXCEPT ![n] =
                  [st |-> "asked", h |-> "cur", epoch |-> row[n].epoch,
                   peer |-> row[n].master, ans |-> NoRow]]
    /\ UNCHANGED <<up, row, old, pull, admin, promoted>>

\* serveHeartbeat answers with the row of the database live at that moment.
BeatServe(n) ==
    /\ beat[n].st = "asked" /\ beat[n].peer \in up
    /\ beat' = [beat EXCEPT ![n].st = "answered", ![n].ans = row[beat[n].peer]]
    /\ UNCHANGED <<up, row, old, pull, admin, promoted>>

BeatChecked(n, newer) ==
    /\ beat[n].st = "answered"
    /\ beat' = [beat EXCEPT ![n] =
                  IF beat[n].ans.master # None /\ newer
                  THEN [beat[n] EXCEPT !.st = "adopting"] ELSE NoBeat]
    /\ UNCHANGED <<up, row, old, pull, admin, promoted>>

\* Wrong: any answer is adopted.
BeatCheckAnyEpoch(n) == BeatChecked(n, TRUE)

\* The answer is weighed against the epoch read before the round trip; then
\* AdoptCluster reads the row through the handle taken back then ...
BeatCheck(n) ==
    BeatChecked(n, /\ beat[n].ans.epoch > beat[n].epoch
                   /\ beat[n].ans.epoch > Seen(n, beat[n].h).epoch)

\* ... and writes it in a second statement.
BeatAdopt(n) ==
    /\ beat[n].st = "adopting"
    /\ Write(n, beat[n].h, beat[n].ans)
    /\ beat' = [beat EXCEPT ![n] = NoBeat]
    /\ UNCHANGED <<up, pull, admin, promoted>>

\* A round trip that fails, or a database closed under the write, ends the beat.
BeatFail(n) ==
    /\ beat[n].st \in {"asked", "adopting"}
    /\ beat' = [beat EXCEPT ![n] = NoBeat]
    /\ UNCHANGED <<up, row, old, pull, admin, promoted>>

-----------------------------------------------------------------------------
(* Replication: a replica pulls a snapshot of the whole database. *)

PullStart(n) ==
    /\ n \in up /\ pull[n].st = "idle" /\ Busy < MaxBusy
    /\ ~IsMaster(n)
    /\ pull' = [pull EXCEPT ![n] =
                  [NoPull EXCEPT !.st = "asked", !.epoch = row[n].epoch, !.peer = row[n].master]]
    /\ UNCHANGED <<up, row, old, beat, admin, promoted>>

\* serveReplica reads the row for the header first ...
PullHeader(n) ==
    /\ pull[n].st = "asked" /\ pull[n].peer \in up
    /\ pull' = [pull EXCEPT ![n].st = "header", ![n].src = "cur",
                            ![n].got = row[pull[n].peer].epoch]
    /\ UNCHANGED <<up, row, old, beat, admin, promoted>>

\* ... and then runs the backup, on the same handle.
PullBackup(n) ==
    /\ pull[n].st = "header"
    /\ pull' = [pull EXCEPT ![n].st = "body", ![n].snap = Seen(pull[n].peer, pull[n].src)]
    /\ UNCHANGED <<up, row, old, beat, admin, promoted>>

\* Wrong: what was decided on the database before a swap is written to the one after it.
RetiredFollows(op, idle) == op

\* What a hot swap of node n does to an operation that holds its database: the
\* live handle becomes the retired one, a handle retired before is closed.
Retired(op, idle) == IF op.st = "idle" THEN op
                     ELSE IF op.h = "cur" THEN [op EXCEPT !.h = "old"] ELSE idle

RetiredSource(op, n) ==
    IF op.st # "header" \/ op.peer # n THEN op
    ELSE IF op.src = "cur" THEN [op EXCEPT !.src = "old"] ELSE NoPull

\* Wrong: the header is not compared; equal epochs are refused.
AcceptableAlways(n) == TRUE
AcceptableNewer(n) == pull[n].got > pull[n].epoch

\* The header is compared with the epoch read at the start of the pull; the
\* swap itself compares nothing.
Acceptable(n) == pull[n].got >= pull[n].epoch

PullInstall(n) ==
    /\ pull[n].st = "body" /\ Acceptable(n)
    /\ row' = [row EXCEPT ![n] = pull[n].snap]
    /\ old' = [old EXCEPT ![n] = row[n]]
    /\ pull' = [p \in Node |-> IF p = n THEN NoPull ELSE RetiredSource(pull[p], n)]
    /\ beat' = [beat EXCEPT ![n] = Retired(beat[n], NoBeat)]
    /\ admin' = [admin EXCEPT ![n] = Retired(admin[n], NoAdmin)]
    /\ UNCHANGED <<up, promoted>>

PullRefuse(n) ==
    /\ pull[n].st = "body" /\ ~Acceptable(n)
    /\ pull' = [pull EXCEPT ![n] = NoPull]
    /\ UNCHANGED <<up, row, old, beat, admin, promoted>>

\* The request, the transfer or the swap fails; the node keeps what it has.
PullFail(n) ==
    /\ \/ pull[n].st \in {"asked", "header"}
       \/ pull[n].st = "body" /\ Acceptable(n)
    /\ pull' = [pull EXCEPT ![n] = NoPull]
    /\ UNCHANGED <<up, row, old, beat, admin, promoted>>

-----------------------------------------------------------------------------
Beats(n) == BeatStart(n) \/ BeatServe(n) \/ BeatCheck(n) \/ BeatAdopt(n)
Pulls(n) == PullStart(n) \/ PullHeader(n) \/ PullBackup(n) \/ PullInstall(n) \/ PullRefuse(n)
Admins(n) ==
    \/ \E t \in Node : AdminPromote(n, t)
    \/ AdminRebroadcast(n) \/ AdminRead(n) \/ AdminWrite(n)

Next == \E n \in Node :
    Start(n) \/ Crash(n) \/ Beats(n) \/ BeatFail(n) \/ Pulls(n) \/ PullFail(n)
    \/ Admins(n) \/ AdminFail(n)

Spec == Init /\ [][Next]_vars

Fault == \E n \in Node : Crash(n) \/ BeatFail(n) \/ PullFail(n) \/ AdminFail(n)

\* Stopped nodes are started again, an accepted request is answered, beats and
\* pulls are retried on a ticker for ever and find their master in the
\* registry, and at some point the network and the processes hold for long
\* enough.
Fairness ==
    /\ \A n \in Node :
         /\ WF_vars(Start(n))
         /\ WF_vars(AdminRead(n) \/ AdminWrite(n))
         /\ WF_vars(Beats(n)) /\ SF_vars(BeatStart(n))
         /\ WF_vars(Pulls(n)) /\ SF_vars(PullStart(n))
    /\ <>[][~Fault]_vars

FairSpec == Spec /\ Fairness

-----------------------------------------------------------------------------
TypeOK ==
    /\ up \subseteq Node
    /\ row \in [Node -> Row]
    /\ old \in [Node -> Row]
    /\ pull \in [Node -> Pull]
    /\ beat \in [Node -> Beat]
    /\ admin \in [Node -> Admin]
    /\ promoted \subseteq Row

\* The inductive invariant behind the next three properties, in parts.
\* A stopped node does nothing and serves nothing.
StoppedIsIdle == \A n \in Node \ up :
    /\ beat[n].st = "idle" /\ admin[n].st = "idle"
    /\ \A p \in Node : ~(pull[p].st = "header" /\ pull[p].peer = n)

\* No number is issued twice, and every row in the network was issued.
IssuedOnce ==
    /\ [epoch |-> 1, master |-> FirstMaster] \in promoted
    /\ \A p \in promoted : p.epoch >= 1
    /\ \A p, q \in promoted : p.epoch = q.epoch => p = q

Issued == promoted \cup {NoRow}

OnlyIssuedRows == \A n \in Node :
    row[n] \in Issued /\ old[n] \in Issued /\ beat[n].ans \in Issued /\ pull[n].snap \in Issued

\* A beat belongs to a node of a network; what it is about to adopt is newer
\* than what it will overwrite.
BeatsGoForward == \A n \in Node : beat[n].st # "idle" =>
    /\ Seen(n, beat[n].h).epoch >= 1
    /\ beat[n].st = "adopting" => beat[n].ans.epoch > Seen(n, beat[n].h).epoch

\* The body of a snapshot is not older than its header said.
SnapshotsMatchHeaders == \A n \in Node :
    /\ pull[n].st = "header" => /\ pull[n].peer \in Node
                                /\ pull[n].got <= Seen(pull[n].peer, pull[n].src).epoch
    /\ pull[n].st = "body" => pull[n].got <= pull[n].snap.epoch

\* One promotion at a time, of a node that knows the newest epoch (or of the
\* first master, declaring itself).
PromotionsFresh == \A n \in Node : admin[n].st # "idle" =>
    /\ \A m \in Node \ {n} : admin[m].st = "idle"
    /\ admin[n].st = "reading" => Top(Seen(n, admin[n].h).epoch)
    /\ admin[n].st = "writing" =>
         /\ admin[n].epoch = Seen(n, admin[n].h).epoch + 1
         /\ \/ Top(Seen(n, admin[n].h).epoch)
            \/ admin[n].target = FirstMaster /\ Top(1) /\ Seen(n, admin[n].h).epoch = 0

Inv == StoppedIsIdle /\ IssuedOnce /\ OnlyIssuedRows /\ BeatsGoForward
       /\ SnapshotsMatchHeaders /\ PromotionsFresh

\* Two nodes that are both masters do not know the same epoch: the number has to
\* grow with a promotion, or the network gets two nodes that write (the comment
\* at Promote, cluster.go:46-47).  Not so: it grows in the row of the node that
\* is asked, and two nodes may be.
Writes(n) == row[n].epoch > 0 /\ IsMaster(n)

OneWriterPerEpoch == \A m, n \in Node :
    Writes(m) /\ Writes(n) /\ row[m].epoch = row[n].epoch => m = n

\* The network has one master (admin_cluster.go:66).  Not so even if every
\* promotion is asked of the acting master: with two of them, a snapshot that
\* was asked for before the first makes a node master again that had handed over.
OneWriter == \A m, n \in Node : Writes(m) /\ Writes(n) => m = n

\* The database a swap puts in place is never older than what the node knew
\* when it asked for it, though header and body are read at different moments
\* and the node's own row moves meanwhile (replica.go pull).
SnapshotNotBelowRequest == [][\A n \in Node :
    PullInstall(n) => row'[n].epoch >= pull[n].epoch]_vars

\* The network keeps what Masters promises: the rows that nodes read and write through two handles,
\* in statements of their own, are numbered declarations that nobody makes twice, and a node goes
\* back only with a snapshot, and not behind its request (cluster.go, heartbeat.go, replica.go).
Asked == [n \in Node |-> IF pull[n].st = "idle" THEN 0 ELSE pull[n].epoch]
Network == INSTANCE Masters WITH issued <- promoted, asked <- Asked
KeepsItsMasters == Network!Spec

\* Outside a snapshot the epoch of a node only grows: the check and the write
\* of AdoptCluster, and the read and the write of Promote, interleave with each
\* other and with swaps, and still never roll a node back.
OnlySnapshotsRollBack == [][\A n \in Node :
    row'[n].epoch < row[n].epoch => pull[n].st = "body" /\ pull'[n].st = "idle"]_vars

\* No step rolls a node back to an older epoch (the rule replica.go pull and
\* cluster.go AdoptCluster are written to keep).
EpochNeverRollsBack == [][\A n \in Node : row'[n].epoch >= row[n].epoch]_vars

\* A master that knows less than another node asks nobody, so that it is never told, and what it
\* serves is refused.  A first master that nobody has declared is one.  Later it takes a second
\* promotion to make one: a late snapshot may then take the acting master back (OneWriter).
Superseded(n) == IsMaster(n) /\ \E m \in Node : row[m].epoch > row[n].epoch
TakenBack == Cardinality(promoted) > 2 /\ \E n \in Node : Superseded(n)

\* A promotion declared at the acting master reaches every node, if that master is not taken back.
Declared == row[FirstMaster].epoch > 0
Agreed == \A m, n \in Node : row[m] = row[n]
PromotionSpreads == Declared ~> (Agreed \/ TakenBack)

\* Every replica goes on receiving fresh snapshots of its master's database.
KeepsSyncing(n) == []<><<PullInstall(n)>>_vars \/ <>[]IsMaster(n)

\* So it is once the first master is declared, if no acting master stays taken back.
ReplicasSync == <>[](Declared /\ ~TakenBack) => \A n \in Node : KeepsSyncing(n)

\* Not so if nobody declares the first master: a freshly installed replica gets its base from the
\* master it was told of (replica.go:210).
FreshReplicaSyncs == \A n \in Node \ {FirstMaster} : KeepsSyncing(n)

\* A master that a newer epoch has replaced stops believing in itself (db/sqlite.go:65).
OldMasterStepsDown == \A n \in Node : Superseded(n) ~> ~IsMaster(n)
=============================================================================
