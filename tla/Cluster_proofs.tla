--------------------------- MODULE Cluster_proofs ---------------------------
(***************************************************************************)
(* Proofs about Cluster, for any set of nodes and any number of epochs and *)
(* of operations in flight: when the administrator promotes at nodes that  *)
(* know the newest epoch, no number is used twice, nothing but a late      *)
(* snapshot rolls a node back, and every step is one of Masters.           *)
(***************************************************************************)
EXTENDS Cluster, TLAPS

USE ClusterAssumption

\* The source of a snapshot being written is a node, not the empty master id:
\* only a running node answers (replica.go serveReplica).
SourceKnown == \A n \in Node : pull[n].st = "header" => pull[n].peer \in Node

\* What a handler reads through its handle is a row.
LEMMA SeenTyped ==
    ASSUME TypeOK, NEW n \in Node, NEW h \in Handle
    PROVE  Seen(n, h) \in Row
BY DEF TypeOK, Seen

\* A write through a handle keeps both databases rows.
LEMMA WriteTyped ==
    ASSUME TypeOK, NEW n \in Node, NEW h \in Handle, NEW r \in Row, Write(n, h, r)
    PROVE  row' \in [Node -> Row] /\ old' \in [Node -> Row]
BY DEF TypeOK, Write

\* The idle records and the types of the records the handlers hold.
LEMMA IdleTyped == NoRow \in Row /\ NoPull \in Pull /\ NoBeat \in Beat /\ NoAdmin \in Admin
BY DEF NoRow, Row, NoPull, Pull, NoBeat, Beat, NoAdmin, Admin, Handle

\* What a swap does to the operations in flight leaves their types alone.
LEMMA RetiredTyped ==
    /\ \A b \in Beat : Retired(b, NoBeat) \in Beat
    /\ \A a \in Admin : Retired(a, NoAdmin) \in Admin
    /\ \A q \in Pull, n \in Node : RetiredSource(q, n) \in Pull
<1>1. \A b \in Beat : Retired(b, NoBeat) \in Beat
  BY IdleTyped DEF Retired, Beat, Handle
<1>2. \A a \in Admin : Retired(a, NoAdmin) \in Admin
  BY IdleTyped DEF Retired, Admin, Handle
<1>3. \A q \in Pull, n \in Node : RetiredSource(q, n) \in Pull
  BY IdleTyped DEF RetiredSource, Pull, Handle
<1> QED
  BY <1>1, <1>2, <1>3

\* The types and the source of a snapshot are kept by every step.
LEMMA TypeStep ==
    ASSUME TypeOK, SourceKnown, [Next]_vars
    PROVE  TypeOK' /\ SourceKnown'
<1> DEFINE Goal == TypeOK' /\ SourceKnown'
<1> SUFFICES Goal
  OBVIOUS
<1> USE DEF TypeOK, SourceKnown
<1>1. ASSUME NEW n \in Node, Start(n) PROVE Goal
  BY <1>1 DEF Start, Row
<1>2. ASSUME NEW n \in Node, Crash(n) PROVE Goal
  <2>1. pull' \in [Node -> Pull] /\ beat' \in [Node -> Beat] /\ admin' \in [Node -> Admin]
    BY <1>2, IdleTyped DEF Crash
  <2>2. SourceKnown'
    BY <1>2 DEF Crash, NoPull
  <2> QED
    BY <1>2, <2>1, <2>2 DEF Crash
<1>3. ASSUME NEW n \in Node, Beats(n) \/ BeatFail(n) PROVE Goal
  <2> SUFFICES beat' \in [Node -> Beat] /\ row' \in [Node -> Row] /\ old' \in [Node -> Row]
    BY <1>3 DEF Beats, BeatStart, BeatServe, BeatCheck, BeatChecked, BeatAdopt, BeatFail
  <2>1. CASE BeatStart(n)
    <3>1. [st |-> "asked", h |-> "cur", epoch |-> row[n].epoch,
           peer |-> row[n].master, ans |-> NoRow] \in Beat
      BY IdleTyped DEF Beat, Row, Handle
    <3> QED
      BY <2>1, <3>1 DEF BeatStart
  <2>2. CASE BeatServe(n)
    <3>1. row[beat[n].peer] \in Row /\ beat[n] \in Beat
      BY <2>2 DEF BeatServe
    <3>2. [beat[n] EXCEPT !.st = "answered", !.ans = row[beat[n].peer]] \in Beat
      BY <3>1 DEF Beat
    <3> QED
      BY <2>2, <3>1, <3>2 DEF BeatServe
  <2>3. CASE BeatCheck(n)
    <3>1. [beat[n] EXCEPT !.st = "adopting"] \in Beat
      BY DEF Beat
    <3> QED
      BY <2>3, <3>1, IdleTyped DEF BeatCheck, BeatChecked
  <2>4. CASE BeatAdopt(n)
    <3>1. beat[n].h \in Handle /\ beat[n].ans \in Row
      BY DEF Beat
    <3> QED
      BY <2>4, <3>1, WriteTyped, IdleTyped DEF BeatAdopt
  <2>5. CASE BeatFail(n)
    BY <2>5, IdleTyped DEF BeatFail
  <2> QED
    BY <1>3, <2>1, <2>2, <2>3, <2>4, <2>5 DEF Beats
<1>4. ASSUME NEW n \in Node, Pulls(n) \/ PullFail(n) PROVE Goal
  <2>1. CASE PullStart(n)
    <3>1. [NoPull EXCEPT !.st = "asked", !.epoch = row[n].epoch, !.peer = row[n].master] \in Pull
      BY IdleTyped DEF Pull, Row
    <3>2. pull'[n].st = "asked"
      BY <2>1, IdleTyped DEF PullStart, Pull, NoPull
    <3> QED
      BY <2>1, <3>1, <3>2 DEF PullStart
  <2>2. CASE PullHeader(n)
    <3>1. row[pull[n].peer] \in Row /\ pull[n] \in Pull /\ pull[n].peer \in Node
      BY <2>2 DEF PullHeader
    <3>2. [pull[n] EXCEPT !.st = "header", !.src = "cur", !.got = row[pull[n].peer].epoch] \in Pull
      BY <3>1 DEF Pull, Row, Handle
    <3>3. pull'[n].peer = pull[n].peer
      BY <2>2, <3>1 DEF PullHeader, Pull
    <3> QED
      BY <2>2, <3>1, <3>2, <3>3 DEF PullHeader
  <2>3. CASE PullBackup(n)
    <3>1. pull[n] \in Pull /\ pull[n].peer \in Node
      BY <2>3 DEF PullBackup
    <3>2. Seen(pull[n].peer, pull[n].src) \in Row
      BY <3>1, SeenTyped DEF Pull
    <3>3. [pull[n] EXCEPT !.st = "body", !.snap = Seen(pull[n].peer, pull[n].src)] \in Pull
      BY <3>1, <3>2 DEF Pull
    <3> QED
      BY <2>3, <3>1, <3>3 DEF PullBackup, Pull
  <2>4. CASE PullInstall(n)
    <3>1. pull[n].snap \in Row
      BY DEF Pull
    <3>2. pull' \in [Node -> Pull] /\ beat' \in [Node -> Beat] /\ admin' \in [Node -> Admin]
      BY <2>4, RetiredTyped, IdleTyped DEF PullInstall
    <3>3. \A p \in Node : pull'[p].st = "header" => pull[p].st = "header" /\ pull'[p].peer = pull[p].peer
      BY <2>4 DEF PullInstall, RetiredSource, NoPull, Pull
    <3> QED
      BY <2>4, <3>1, <3>2, <3>3 DEF PullInstall
  <2>5. CASE PullRefuse(n) \/ PullFail(n)
    BY <2>5, IdleTyped DEF PullRefuse, PullFail, NoPull
  <2> QED
    BY <1>4, <2>1, <2>2, <2>3, <2>4, <2>5 DEF Pulls
<1>5. ASSUME NEW n \in Node, Admins(n) \/ AdminFail(n) PROVE Goal
  <2>1. CASE \E t \in Node : AdminPromote(n, t)
    <3>1. PICK t \in Node : AdminPromote(n, t)
      BY <2>1
    <3>2. [st |-> "writing", h |-> "cur", epoch |-> row[n].epoch + 1, target |-> t] \in Admin
      BY DEF Admin, Row, Handle
    <3> QED
      BY <3>1, <3>2 DEF AdminPromote
  <2>2. CASE AdminRebroadcast(n)
    <3>1. [st |-> "reading", h |-> "cur", epoch |-> 0, target |-> row[n].master] \in Admin
      BY DEF Admin, Row, Handle
    <3> QED
      BY <2>2, <3>1 DEF AdminRebroadcast
  <2>3. CASE AdminRead(n)
    <3>1. admin[n].h \in Handle
      BY DEF Admin
    <3>2. Seen(n, admin[n].h) \in Row
      BY <3>1, SeenTyped
    <3>3. Seen(n, admin[n].h).epoch + 1 \in Nat
      BY <3>2 DEF Row
    <3>4. \A e \in Nat : [admin[n] EXCEPT !.st = "writing", !.epoch = e] \in Admin
      BY DEF Admin
    <3> QED
      BY <2>3, <3>3, <3>4 DEF AdminRead
  <2>4. CASE AdminWrite(n)
    <3> DEFINE r == [epoch |-> admin[n].epoch, master |-> admin[n].target]
    <3>1. r \in Row /\ admin[n].h \in Handle
      BY DEF Admin, Row
    <3>2. row' \in [Node -> Row] /\ old' \in [Node -> Row]
      BY <2>4, <3>1, WriteTyped DEF AdminWrite
    <3> QED
      BY <2>4, <3>1, <3>2, IdleTyped DEF AdminWrite
  <2>5. CASE AdminFail(n)
    BY <2>5, IdleTyped DEF AdminFail
  <2> QED
    BY <1>5, <2>1, <2>2, <2>3, <2>4, <2>5 DEF Admins
<1>6. CASE UNCHANGED vars
  BY <1>6 DEF vars
<1> QED
  BY <1>1, <1>2, <1>3, <1>4, <1>5, <1>6 DEF Next

\* Every variable keeps its type, however the administrator uses the API.
THEOREM TypeCorrect == Spec => []TypeOK
<1>1. Init => TypeOK /\ SourceKnown
  BY IdleTyped DEF Init, TypeOK, SourceKnown, NoPull, Row
<1>2. TypeOK /\ SourceKnown /\ [Next]_vars => TypeOK' /\ SourceKnown'
  BY TypeStep
<1> QED
  BY <1>1, <1>2, PTL DEF Spec

-----------------------------------------------------------------------------
(* The administrator promotes one node at a time, where the newest epoch is *)
(* known.                                                                   *)

\* A write through a handle changes what that handle shows, and nothing else.
LEMMA SeenWritten ==
    ASSUME TypeOK, NEW n \in Node, NEW h \in Handle, NEW r \in Row, Write(n, h, r)
    PROVE  \A m \in Node, g \in Handle :
             Seen(m, g)' = IF m = n /\ g = h THEN r ELSE Seen(m, g)
BY DEF TypeOK, Write, Seen, Handle

\* Every row read through a handle was issued, or is the empty row.
LEMMA SeenIssued ==
    ASSUME OnlyIssuedRows, NEW n \in Node, NEW h \in Handle
    PROVE  Seen(n, h) \in Issued
BY DEF OnlyIssuedRows, Seen

\* A beat that is about to write, and the promotion that is about to write,
\* never hold the same database: the promotion knows the newest epoch.
LEMMA NoBeatUnderPromotion ==
    ASSUME TypeOK, Inv, NEW n \in Node, admin[n].st = "writing", beat[n].st = "adopting"
    PROVE  beat[n].h # admin[n].h
<1> SUFFICES ASSUME beat[n].h = admin[n].h PROVE FALSE
  OBVIOUS
<1>1. beat[n].h \in Handle /\ beat[n].ans \in Row
  BY DEF TypeOK, Beat
<1>2. Seen(n, beat[n].h).epoch \in Nat
  BY <1>1, SeenTyped DEF Row
<1>3. Seen(n, beat[n].h).epoch >= 1 /\ beat[n].ans.epoch > Seen(n, beat[n].h).epoch
  BY DEF Inv, BeatsGoForward
<1>4. Top(Seen(n, beat[n].h).epoch)
  BY <1>2, <1>3 DEF Inv, PromotionsFresh
<1>5. beat[n].ans \in promoted
  BY <1>1, <1>2, <1>3 DEF Inv, OnlyIssuedRows, Issued, NoRow, Row
<1> QED
  BY <1>1, <1>2, <1>3, <1>4, <1>5 DEF Top, Row

\* Steps that write no row keep what every handle shows.
Quiet == UNCHANGED <<row, old, promoted>>

LEMMA QuietSteps ==
    ASSUME TypeOK, Quiet
    PROVE  /\ \A m \in Node, g \in Handle : Seen(m, g)' = Seen(m, g)
           /\ \A e \in Nat : Top(e)' <=> Top(e)
           /\ Issued' = Issued
           /\ IssuedOnce => IssuedOnce'
BY DEF Quiet, Seen, Top, Issued, IssuedOnce

\* Beats up to the write of the answer.
LEMMA BeatStep ==
    ASSUME TypeOK, TypeOK', Inv, NEW n \in Node,
           BeatStart(n) \/ BeatServe(n) \/ BeatCheck(n) \/ BeatFail(n)
    PROVE  Inv'
<1>1. Quiet /\ UNCHANGED <<up, pull, admin>>
  BY DEF BeatStart, BeatServe, BeatCheck, BeatChecked, BeatFail, Quiet
<1>2. \A m \in Node : m # n => beat'[m] = beat[m]
  BY DEF BeatStart, BeatServe, BeatCheck, BeatChecked, BeatFail, TypeOK
<1>3. \A m \in Node, g \in Handle : Seen(m, g)' = Seen(m, g)
  BY <1>1, QuietSteps
<1>4. IssuedOnce' /\ Issued' = Issued
  BY <1>1, QuietSteps DEF Inv
<1>5. n \in up
  BY DEF BeatStart, BeatServe, BeatCheck, BeatChecked, BeatFail, Inv, StoppedIsIdle
<1>6. StoppedIsIdle'
  BY <1>1, <1>2, <1>5 DEF Inv, StoppedIsIdle
<1>7. beat'[n].ans \in Issued
  <2>1. CASE BeatServe(n)
    BY <2>1 DEF BeatServe, TypeOK, Beat, Inv, OnlyIssuedRows
  <2>2. CASE BeatStart(n) \/ BeatCheck(n) \/ BeatFail(n)
    BY <2>2 DEF BeatStart, BeatCheck, BeatChecked, BeatFail, NoBeat, TypeOK, Beat, Issued, Inv, OnlyIssuedRows
  <2> QED
    BY <2>1, <2>2
<1>8. OnlyIssuedRows'
  BY <1>1, <1>2, <1>4, <1>7 DEF Inv, OnlyIssuedRows, Quiet
<1>9. beat'[n].st # "idle" =>
        /\ Seen(n, beat'[n].h).epoch >= 1
        /\ beat'[n].st = "adopting" => beat'[n].ans.epoch > Seen(n, beat'[n].h).epoch
  <2>1. CASE BeatStart(n)
    <3>1. row[n] \in promoted
      BY <2>1 DEF BeatStart, IsMaster, Inv, OnlyIssuedRows, Issued, NoRow
    <3>2. row[n].epoch >= 1
      BY <3>1 DEF Inv, IssuedOnce
    <3> QED
      BY <2>1, <3>2 DEF BeatStart, TypeOK, Seen
  <2>2. CASE BeatServe(n) \/ BeatFail(n)
    BY <2>2 DEF BeatServe, BeatFail, NoBeat, TypeOK, Beat, Inv, BeatsGoForward
  <2>3. CASE BeatCheck(n)
    BY <2>3 DEF BeatCheck, BeatChecked, NoBeat, TypeOK, Beat, Inv, BeatsGoForward
  <2> QED
    BY <2>1, <2>2, <2>3
<1>10. BeatsGoForward'
  <2> SUFFICES ASSUME NEW m \in Node, beat'[m].st # "idle"
               PROVE  /\ Seen(m, beat'[m].h).epoch >= 1
                      /\ beat'[m].st = "adopting" =>
                           beat'[m].ans.epoch > Seen(m, beat'[m].h).epoch
    <3>1. \A m \in Node : beat'[m].h \in Handle
      BY DEF TypeOK, Beat
    <3>2. \A m \in Node : Seen(m, beat[m].h)' = Seen(m, beat'[m].h)
      BY <1>3, <3>1, <1>1 DEF Seen, Quiet
    <3> QED
      BY <3>2 DEF BeatsGoForward
  <2> QED
    BY <1>2, <1>9 DEF Inv, BeatsGoForward
<1>11. SnapshotsMatchHeaders' /\ PromotionsFresh'
  BY <1>1 DEF Quiet, Seen, Top, Inv, SnapshotsMatchHeaders, PromotionsFresh
<1> QED
  BY <1>4, <1>6, <1>8, <1>10, <1>11 DEF Inv

\* Pulls up to the swap.
LEMMA PullStep ==
    ASSUME TypeOK, TypeOK', Inv, NEW n \in Node,
           PullStart(n) \/ PullHeader(n) \/ PullBackup(n) \/ PullRefuse(n) \/ PullFail(n)
    PROVE  Inv'
<1>1. Quiet /\ UNCHANGED <<up, beat, admin>>
  BY DEF PullStart, PullHeader, PullBackup, PullRefuse, PullFail, Quiet
<1>2. \A m \in Node : m # n => pull'[m] = pull[m]
  BY DEF PullStart, PullHeader, PullBackup, PullRefuse, PullFail, TypeOK
<1> DEFINE asked == [NoPull EXCEPT !.st = "asked", !.epoch = row[n].epoch, !.peer = row[n].master]
<1>a. asked.st = "asked" /\ asked.snap = NoRow
  BY DEF NoPull
<1>b. PullStart(n) => pull'[n].st = "asked" /\ pull'[n].snap = NoRow
  BY <1>a DEF PullStart, TypeOK
<1>c. PullRefuse(n) \/ PullFail(n) => pull'[n].st = "idle" /\ pull'[n].snap = NoRow
  BY DEF PullRefuse, PullFail, TypeOK, NoPull
<1>3. IssuedOnce' /\ Issued' = Issued
  BY <1>1, QuietSteps DEF Inv
<1>4. BeatsGoForward' /\ PromotionsFresh'
  BY <1>1 DEF Quiet, Seen, Top, Inv, BeatsGoForward, PromotionsFresh
<1>5. pull'[n].st = "header" => pull'[n].peer \in up
  BY <1>b, <1>c DEF PullHeader, PullBackup, TypeOK, Pull
<1>6. StoppedIsIdle'
  BY <1>1, <1>2, <1>5 DEF Inv, StoppedIsIdle
<1>7. pull'[n].snap \in Issued
  <2>1. CASE PullBackup(n)
    <3>1. pull[n].peer \in Node /\ pull[n].src \in Handle
      BY <2>1 DEF PullBackup, Inv, SnapshotsMatchHeaders, TypeOK, Pull
    <3>2. Seen(pull[n].peer, pull[n].src) \in Issued
      BY <3>1, SeenIssued DEF Inv
    <3> QED
      BY <2>1, <3>2 DEF PullBackup, TypeOK, Pull
  <2>2. CASE PullStart(n) \/ PullHeader(n) \/ PullRefuse(n) \/ PullFail(n)
    BY <2>2, <1>b, <1>c DEF PullHeader, TypeOK, Pull, Issued, Inv, OnlyIssuedRows
  <2> QED
    BY <2>1, <2>2
<1>8. OnlyIssuedRows'
  BY <1>1, <1>2, <1>3, <1>7 DEF Inv, OnlyIssuedRows, Quiet
<1>9. /\ pull'[n].st = "header" => /\ pull'[n].peer \in Node
                                   /\ pull'[n].got <= Seen(pull'[n].peer, pull'[n].src).epoch
      /\ pull'[n].st = "body" => pull'[n].got <= pull'[n].snap.epoch
  <2>1. CASE PullHeader(n)
    <3>1. pull[n].peer \in Node /\ row[pull[n].peer].epoch \in Nat
      BY <2>1 DEF PullHeader, TypeOK, Row
    <3>2. pull'[n].peer = pull[n].peer /\ pull'[n].src = "cur"
          /\ pull'[n].got = row[pull[n].peer].epoch /\ pull'[n].st = "header"
      BY <2>1 DEF PullHeader, TypeOK, Pull
    <3> QED
      BY <3>1, <3>2 DEF Seen
  <2>2. CASE PullBackup(n)
    <3>1. pull'[n].st = "body" /\ pull'[n].got = pull[n].got
          /\ pull'[n].snap = Seen(pull[n].peer, pull[n].src)
      BY <2>2 DEF PullBackup, TypeOK, Pull
    <3> QED
      BY <2>2, <3>1 DEF PullBackup, Inv, SnapshotsMatchHeaders
  <2>3. CASE PullStart(n) \/ PullRefuse(n) \/ PullFail(n)
    BY <2>3, <1>b, <1>c
  <2> QED
    BY <2>1, <2>2, <2>3
<1>10. SnapshotsMatchHeaders'
  BY <1>1, <1>2, <1>9 DEF Quiet, Seen, Inv, SnapshotsMatchHeaders
<1> QED
  BY <1>3, <1>4, <1>6, <1>8, <1>10 DEF Inv

\* A crash forgets what was in flight.
LEMMA CrashStep ==
    ASSUME TypeOK, TypeOK', Inv, NEW n \in Node, Crash(n)
    PROVE  Inv'
<1>1. Quiet
  BY DEF Crash, Quiet
<1>2. IssuedOnce' /\ Issued' = Issued
  BY <1>1, QuietSteps DEF Inv
<1>3. \A p \in Node : \/ pull'[p] = pull[p] /\ p # n /\ ~(pull[p].peer = n /\ pull[p].st = "header")
                      \/ pull'[p].st = "idle" /\ pull'[p].snap = NoRow
  BY DEF Crash, NoPull
<1>4. \A p \in Node : /\ p = n => beat'[p] = NoBeat /\ admin'[p] = NoAdmin
                      /\ p # n => beat'[p] = beat[p] /\ admin'[p] = admin[p]
  BY DEF Crash, TypeOK
<1>5. StoppedIsIdle'
  BY <1>3, <1>4 DEF Inv, StoppedIsIdle, Crash, NoBeat, NoAdmin
<1>6. OnlyIssuedRows'
  <2>1. \A p \in Node : beat'[p].ans \in Issued /\ pull'[p].snap \in Issued
    BY <1>3, <1>4 DEF Inv, OnlyIssuedRows, Issued, NoBeat
  <2> QED
    BY <1>1, <1>2, <2>1 DEF Inv, OnlyIssuedRows, Quiet
<1>7. BeatsGoForward'
  BY <1>1, <1>4 DEF Inv, BeatsGoForward, Quiet, Seen, NoBeat
<1>8. SnapshotsMatchHeaders'
  BY <1>1, <1>3 DEF Inv, SnapshotsMatchHeaders, Quiet, Seen
<1>9. PromotionsFresh'
  BY <1>1, <1>4 DEF Inv, PromotionsFresh, Quiet, Seen, Top, NoAdmin
<1> QED
  BY <1>2, <1>5, <1>6, <1>7, <1>8, <1>9 DEF Inv

\* A start writes at most the row of a fresh installation.
LEMMA StartStep ==
    ASSUME TypeOK, TypeOK', Inv, NEW n \in Node, Start(n)
    PROVE  Inv'
<1>1. UNCHANGED <<old, pull, beat, admin, promoted>> /\ n \notin up /\ up' = up \cup {n}
  BY DEF Start
<1>2. /\ \A m \in Node : m # n => row'[m] = row[m]
      /\ \/ row'[n] = row[n]
         \/ row[n].epoch = 0 /\ row'[n] = [epoch |-> 1, master |-> FirstMaster]
  BY DEF Start, TypeOK
<1>3. IssuedOnce' /\ Issued' = Issued
  BY <1>1 DEF Inv, IssuedOnce, Issued
<1>4. StoppedIsIdle'
  BY <1>1 DEF Inv, StoppedIsIdle
<1>5. OnlyIssuedRows'
  <2>1. \A m \in Node : row'[m] \in Issued
    BY <1>2 DEF Inv, OnlyIssuedRows, Issued, IssuedOnce
  <2> QED
    BY <1>1, <1>3, <2>1 DEF Inv, OnlyIssuedRows
<1>6. beat[n].st = "idle" /\ admin[n].st = "idle"
  BY <1>1 DEF Inv, StoppedIsIdle
<1>7. \A m \in Node, g \in Handle : m # n => Seen(m, g)' = Seen(m, g)
  BY <1>1, <1>2 DEF Seen
<1>8. BeatsGoForward'
  BY <1>1, <1>2, <1>6 DEF Inv, BeatsGoForward, Seen
<1>9. SnapshotsMatchHeaders'
  BY <1>1, <1>2 DEF Inv, SnapshotsMatchHeaders, StoppedIsIdle, Seen
<1>10. PromotionsFresh'
  BY <1>1, <1>2, <1>6 DEF Inv, PromotionsFresh, Seen, Top
<1> QED
  BY <1>3, <1>4, <1>5, <1>8, <1>9, <1>10 DEF Inv

\* Under the discipline a promotion starts from the newest epoch.
LEMMA PromotionStep ==
    ASSUME TypeOK, TypeOK', Inv, Discipline # "any", NEW n \in Node,
           (\E t \in Node : AdminPromote(n, t)) \/ AdminRebroadcast(n) \/ AdminRead(n) \/ AdminFail(n)
    PROVE  Inv'
<1>1. Quiet /\ UNCHANGED <<up, pull, beat>>
  BY DEF AdminPromote, AdminRebroadcast, AdminRead, AdminFail, Quiet
<1>2. \A m \in Node : m # n => admin'[m] = admin[m]
  BY DEF AdminPromote, AdminRebroadcast, AdminRead, AdminFail, TypeOK
<1>3. IssuedOnce' /\ Issued' = Issued
  BY <1>1, QuietSteps DEF Inv
<1>4. n \in up
  BY DEF AdminPromote, AdminRebroadcast, AdminRead, AdminFail, Inv, StoppedIsIdle
<1>5. StoppedIsIdle' /\ OnlyIssuedRows' /\ BeatsGoForward' /\ SnapshotsMatchHeaders'
  BY <1>1, <1>2, <1>3, <1>4 DEF Quiet, Seen, Inv, StoppedIsIdle, OnlyIssuedRows,
     BeatsGoForward, SnapshotsMatchHeaders
<1>6. \A m \in Node : m # n => admin[m].st = "idle"
  BY DEF AdminPromote, AdminRebroadcast, AdminRead, AdminFail, MayPromote, Inv, PromotionsFresh
<1> DEFINE Fresh ==
      /\ admin'[n].st = "reading" => Top(Seen(n, admin'[n].h).epoch)
      /\ admin'[n].st = "writing" =>
           /\ admin'[n].epoch = Seen(n, admin'[n].h).epoch + 1
           /\ \/ Top(Seen(n, admin'[n].h).epoch)
              \/ admin'[n].target = FirstMaster /\ Top(1) /\ Seen(n, admin'[n].h).epoch = 0
<1>7. Fresh
  <2>1. ASSUME NEW t \in Node, AdminPromote(n, t) PROVE Fresh
    BY <2>1 DEF AdminPromote, MayPromote, Seen, NoRow, TypeOK
  <2>2. CASE AdminRebroadcast(n)
    BY <2>2 DEF AdminRebroadcast, MayPromote, Seen, NoRow, TypeOK
  <2>3. CASE AdminRead(n)
    BY <2>3 DEF AdminRead, Inv, PromotionsFresh, TypeOK, Admin
  <2>4. CASE AdminFail(n)
    BY <2>4 DEF AdminFail, NoAdmin, TypeOK
  <2> QED
    BY <2>1, <2>2, <2>3, <2>4
<1>8. PromotionsFresh'
  BY <1>1, <1>2, <1>6, <1>7 DEF PromotionsFresh, Quiet, Seen, Top
<1> QED
  BY <1>3, <1>5, <1>8 DEF Inv

\* Every operation of the administrator and of the beat only raises an epoch.
LEMMA WritesRaise ==
    ASSUME TypeOK, Inv, NEW n \in Node,
           Start(n) \/ BeatAdopt(n) \/ AdminWrite(n)
    PROVE  \A m \in Node, g \in Handle : Seen(m, g)'.epoch >= Seen(m, g).epoch
<1>1. \A m \in Node, g \in Handle : Seen(m, g).epoch \in Nat
  BY SeenTyped DEF Row
<1>2. CASE Start(n)
  BY <1>2, <1>1 DEF Start, Seen, TypeOK
<1>3. CASE BeatAdopt(n)
  <2>1. beat[n].h \in Handle /\ beat[n].ans \in Row
    BY DEF TypeOK, Beat
  <2>2. beat[n].ans.epoch > Seen(n, beat[n].h).epoch /\ Write(n, beat[n].h, beat[n].ans)
    BY <1>3 DEF BeatAdopt, Inv, BeatsGoForward
  <2>3. \A m \in Node, g \in Handle :
          Seen(m, g)' = IF m = n /\ g = beat[n].h THEN beat[n].ans ELSE Seen(m, g)
    BY <2>1, <2>2, SeenWritten
  <2>4. beat[n].ans.epoch \in Nat
    BY <2>1 DEF Row
  <2> QED
    BY <1>1, <2>1, <2>2, <2>3, <2>4
<1>4. CASE AdminWrite(n)
  <2> DEFINE r == [epoch |-> admin[n].epoch, master |-> admin[n].target]
  <2>1. admin[n].h \in Handle /\ r \in Row
    BY DEF TypeOK, Admin, Row
  <2>2. r.epoch = Seen(n, admin[n].h).epoch + 1 /\ Write(n, admin[n].h, r)
    BY <1>4 DEF AdminWrite, Inv, PromotionsFresh
  <2> HIDE DEF r
  <2>3. \A m \in Node, g \in Handle :
          Seen(m, g)' = IF m = n /\ g = admin[n].h THEN r ELSE Seen(m, g)
    BY <2>1, <2>2, SeenWritten
  <2> QED
    BY <1>1, <2>1, <2>2, <2>3
<1> QED
  BY <1>2, <1>3, <1>4

\* A write keeps the header of a snapshot below its body.
LEMMA HeadersKept ==
    ASSUME TypeOK, TypeOK', Inv, UNCHANGED pull,
           \A m \in Node, g \in Handle : Seen(m, g)'.epoch >= Seen(m, g).epoch
    PROVE  SnapshotsMatchHeaders'
<1>1. \A n \in Node : pull[n].got \in Nat /\ pull[n].src \in Handle
  BY DEF TypeOK, Pull
<1>2. \A m \in Node, g \in Handle : Seen(m, g).epoch \in Nat /\ Seen(m, g)'.epoch \in Nat
  BY DEF Seen, TypeOK, Row
<1>3. \A n \in Node : pull[n].st = "header" => pull[n].peer \in Node
                       /\ pull[n].got <= Seen(pull[n].peer, pull[n].src).epoch
  BY DEF Inv, SnapshotsMatchHeaders
<1>4. \A m \in Node, g \in Handle, k \in Nat : k <= Seen(m, g).epoch => k <= Seen(m, g)'.epoch
  BY <1>2
<1>5. \A n \in Node : pull[n].st = "header" =>
                       pull[n].got <= Seen(pull[n].peer, pull[n].src)'.epoch
  BY <1>1, <1>3, <1>4 DEF Seen
<1> QED
  BY <1>3, <1>5 DEF Inv, SnapshotsMatchHeaders

\* A promotion in flight goes on as long as nobody writes what it read.
LEMMA PromotionsKept ==
    ASSUME TypeOK, PromotionsFresh, UNCHANGED <<admin, promoted>>,
           \A m \in Node : admin[m].st # "idle" => Seen(m, admin[m].h)' = Seen(m, admin[m].h)
    PROVE  PromotionsFresh'
<1>1. \A e : Top(e)' <=> Top(e)
  BY DEF Top
<1>2. admin' = admin
  OBVIOUS
<1> SUFFICES ASSUME NEW n \in Node, admin[n].st # "idle"
             PROVE  /\ \A m \in Node \ {n} : admin[m].st = "idle"
                    /\ admin[n].st = "reading" => Top(Seen(n, admin[n].h).epoch)'
                    /\ admin[n].st = "writing" =>
                         /\ admin[n].epoch = Seen(n, admin[n].h)'.epoch + 1
                         /\ \/ Top(Seen(n, admin[n].h).epoch)'
                            \/ /\ admin[n].target = FirstMaster /\ Top(1)'
                               /\ Seen(n, admin[n].h)'.epoch = 0
  BY <1>2 DEF PromotionsFresh
<1>3. Seen(n, admin[n].h)' = Seen(n, admin[n].h)
  OBVIOUS
<1>4. Top(Seen(n, admin[n].h).epoch)' <=> Top(Seen(n, admin[n].h).epoch)
  BY <1>3 DEF Top
<1> QED
  BY <1>1, <1>3, <1>4 DEF PromotionsFresh

\* The beat writes what it brought.
LEMMA AdoptStep ==
    ASSUME TypeOK, TypeOK', Inv, NEW n \in Node, BeatAdopt(n)
    PROVE  Inv'
<1>1. UNCHANGED <<up, pull, admin, promoted>> /\ beat' = [beat EXCEPT ![n] = NoBeat]
      /\ beat[n].st = "adopting" /\ Write(n, beat[n].h, beat[n].ans)
  BY DEF BeatAdopt
<1>2. beat[n].h \in Handle /\ beat[n].ans \in Row /\ beat[n].ans \in Issued
  BY DEF TypeOK, Beat, Inv, OnlyIssuedRows
<1>3. \A m \in Node, g \in Handle :
        Seen(m, g)' = IF m = n /\ g = beat[n].h THEN beat[n].ans ELSE Seen(m, g)
  BY <1>1, <1>2, SeenWritten
<1>4. \A m \in Node : m # n => beat'[m] = beat[m]
  BY <1>1 DEF TypeOK
<1>5. beat'[n] = NoBeat
  BY <1>1 DEF TypeOK
<1>6. IssuedOnce' /\ Issued' = Issued
  BY <1>1 DEF Inv, IssuedOnce, Issued
<1>7. StoppedIsIdle'
  BY <1>1, <1>4, <1>5 DEF Inv, StoppedIsIdle, NoBeat
<1>8. OnlyIssuedRows'
  <2>1. \A m \in Node : row'[m] \in Issued /\ old'[m] \in Issued
    BY <1>1, <1>2 DEF Write, Inv, OnlyIssuedRows, TypeOK
  <2>2. \A m \in Node : beat'[m].ans \in Issued
    BY <1>4, <1>5 DEF Inv, OnlyIssuedRows, NoBeat, Issued
  <2> QED
    BY <1>1, <1>6, <2>1, <2>2 DEF Inv, OnlyIssuedRows
<1>9. BeatsGoForward'
  <2>1. \A m \in Node : m # n => row'[m] = row[m] /\ old'[m] = old[m]
    BY <1>1 DEF Write, TypeOK
  <2> QED
    BY <1>4, <1>5, <2>1 DEF Inv, BeatsGoForward, Seen, NoBeat
<1>10. SnapshotsMatchHeaders'
  BY <1>1, WritesRaise, HeadersKept
<1>11. PromotionsFresh'
  <2> SUFFICES ASSUME NEW m \in Node, admin[m].st # "idle"
               PROVE  Seen(m, admin[m].h)' = Seen(m, admin[m].h)
    BY <1>1, PromotionsKept DEF Inv
  <2>1. admin[m].h \in Handle /\ admin[m].st \in {"reading", "writing"}
    BY DEF TypeOK, Admin
  <2>2. m = n => beat[n].h # admin[n].h
    <3>1. CASE admin[n].st = "writing"
      BY <3>1, <1>1, NoBeatUnderPromotion
    <3>2. CASE m = n /\ admin[n].st = "reading"
      <4>1. Top(Seen(n, admin[n].h).epoch)
        BY <3>2 DEF Inv, PromotionsFresh
      <4>2. beat[n].ans.epoch > Seen(n, beat[n].h).epoch /\ Seen(n, beat[n].h).epoch >= 1
        BY <1>1 DEF Inv, BeatsGoForward
      <4>3. Seen(n, beat[n].h).epoch \in Nat /\ beat[n].ans.epoch \in Nat
        BY <1>2, SeenTyped DEF Row
      <4>4. beat[n].ans \in promoted
        BY <1>2, <4>2, <4>3 DEF Issued, NoRow
      <4> QED
        BY <4>1, <4>2, <4>3, <4>4 DEF Top
    <3> QED
      BY <2>1, <3>1, <3>2
  <2> QED
    BY <1>1, <1>3, <2>1, <2>2 DEF Seen
<1> QED
  BY <1>6, <1>7, <1>8, <1>9, <1>10, <1>11 DEF Inv

\* A promotion writes a number nobody holds, or the first one once more.
LEMMA PromotionWritten ==
    ASSUME TypeOK, TypeOK', Inv, NEW n \in Node, AdminWrite(n)
    PROVE  Inv'
<1> DEFINE r == [epoch |-> admin[n].epoch, master |-> admin[n].target]
<1>1. UNCHANGED <<up, pull, beat>> /\ admin' = [admin EXCEPT ![n] = NoAdmin]
      /\ admin[n].st = "writing" /\ Write(n, admin[n].h, r) /\ promoted' = promoted \cup {r}
  BY DEF AdminWrite
<1>2. r \in Row /\ admin[n].h \in Handle /\ r.epoch = admin[n].epoch /\ r.master = admin[n].target
  BY DEF TypeOK, Admin, Row
<1>3. Seen(n, admin[n].h).epoch \in Nat /\ r.epoch = Seen(n, admin[n].h).epoch + 1
  BY <1>1, <1>2, SeenTyped DEF Inv, PromotionsFresh, Row
<1>4. r \in promoted \/ \A p \in promoted : p.epoch < r.epoch
  <2>1. CASE Top(Seen(n, admin[n].h).epoch)
    BY <2>1, <1>3 DEF Top, TypeOK, Row
  <2>2. CASE admin[n].target = FirstMaster /\ Seen(n, admin[n].h).epoch = 0
    BY <2>2, <1>2, <1>3 DEF Inv, IssuedOnce
  <2> QED
    BY <1>1, <2>1, <2>2 DEF Inv, PromotionsFresh
<1> HIDE DEF r
<1>5. IssuedOnce'
  <2>1. \A p \in promoted' : p.epoch >= 1
    BY <1>1, <1>3 DEF Inv, IssuedOnce
  <2>2. ASSUME NEW p \in promoted', NEW q \in promoted', p.epoch = q.epoch PROVE p = q
    <3>1. \A x \in promoted : x.epoch \in Nat
      BY DEF TypeOK, Row
    <3>2. p \in promoted \/ p = r
      BY <1>1
    <3>3. q \in promoted \/ q = r
      BY <1>1
    <3> QED
      BY <1>3, <1>4, <2>2, <3>1, <3>2, <3>3 DEF Inv, IssuedOnce
  <2> QED
    BY <1>1, <2>1, <2>2 DEF Inv, IssuedOnce
<1>6. \A x \in Issued : x \in Issued'
  BY <1>1 DEF Issued
<1>7. admin'[n] = NoAdmin /\ \A m \in Node : m # n => admin'[m] = admin[m]
  BY <1>1 DEF TypeOK
<1>8. StoppedIsIdle'
  BY <1>1, <1>7 DEF Inv, StoppedIsIdle, NoAdmin
<1>9. OnlyIssuedRows'
  <2>1. \A m \in Node : row'[m] \in {row[m], r} /\ old'[m] \in {old[m], r}
    BY <1>1 DEF Write, TypeOK
  <2>2. r \in Issued'
    BY <1>1 DEF Issued
  <2> QED
    BY <1>1, <1>6, <2>1, <2>2 DEF Inv, OnlyIssuedRows
<1>10. \A m \in Node, g \in Handle :
         Seen(m, g)' = IF m = n /\ g = admin[n].h THEN r ELSE Seen(m, g)
  BY <1>1, <1>2, SeenWritten
<1>11. BeatsGoForward'
  <2>1. \A m \in Node : beat[m].st # "idle" => Seen(m, beat[m].h)'.epoch >= 1
    <3>1. \A m \in Node : beat[m].h \in Handle
      BY DEF TypeOK, Beat
    <3>2. \A m \in Node : beat[m].st # "idle" => Seen(m, beat[m].h).epoch >= 1
      BY DEF Inv, BeatsGoForward
    <3> QED
      BY <1>1, <1>3, <1>10, <3>1, <3>2 DEF Seen
  <2>2. \A m \in Node : beat[m].st = "adopting" => beat[m].ans.epoch > Seen(m, beat[m].h)'.epoch
    <3>1. \A m \in Node : beat[m].h \in Handle
      BY DEF TypeOK, Beat
    <3>2. \A m \in Node : beat[m].st = "adopting" =>
            beat[m].ans.epoch > Seen(m, beat[m].h).epoch
      BY DEF Inv, BeatsGoForward
    <3>3. beat[n].st = "adopting" => beat[n].h # admin[n].h
      BY <1>1, NoBeatUnderPromotion
    <3> QED
      BY <1>1, <1>10, <3>1, <3>2, <3>3 DEF Seen
  <2> QED
    BY <1>1, <2>1, <2>2 DEF BeatsGoForward
<1>12. SnapshotsMatchHeaders'
  BY <1>1, WritesRaise, HeadersKept
<1>13. PromotionsFresh'
  BY <1>1, <1>7 DEF Inv, PromotionsFresh, NoAdmin
<1> QED
  BY <1>5, <1>8, <1>9, <1>11, <1>12, <1>13 DEF Inv

\* A hot swap: what the handlers of the node hold becomes the retired database.
LEMMA InstallStep ==
    ASSUME TypeOK, TypeOK', Inv, NEW n \in Node, PullInstall(n)
    PROVE  Inv'
<1>1. /\ UNCHANGED <<up, promoted>> /\ pull[n].st = "body"
      /\ row' = [row EXCEPT ![n] = pull[n].snap] /\ old' = [old EXCEPT ![n] = row[n]]
      /\ pull' = [p \in Node |-> IF p = n THEN NoPull ELSE RetiredSource(pull[p], n)]
      /\ beat' = [beat EXCEPT ![n] = Retired(beat[n], NoBeat)]
      /\ admin' = [admin EXCEPT ![n] = Retired(admin[n], NoAdmin)]
  BY DEF PullInstall
<1>2. /\ \A m \in Node : m # n => row'[m] = row[m] /\ old'[m] = old[m]
      /\ row'[n] = pull[n].snap /\ old'[n] = row[n]
  BY <1>1 DEF TypeOK
<1>3. /\ \A m \in Node : m # n => beat'[m] = beat[m] /\ admin'[m] = admin[m]
      /\ \/ beat'[n] = NoBeat
         \/ beat[n].st = "idle" /\ beat'[n] = beat[n]
         \/ beat[n].h = "cur" /\ beat'[n] = [beat[n] EXCEPT !.h = "old"]
      /\ \/ admin'[n] = NoAdmin
         \/ admin[n].st = "idle" /\ admin'[n] = admin[n]
         \/ admin[n].h = "cur" /\ admin'[n] = [admin[n] EXCEPT !.h = "old"]
  BY <1>1 DEF TypeOK, Retired
<1>4. \A p \in Node :
        \/ pull'[p] = NoPull
        \/ pull'[p] = pull[p] /\ (pull[p].st # "header" \/ pull[p].peer # n)
        \/ pull[p].peer = n /\ pull[p].src = "cur" /\ pull'[p] = [pull[p] EXCEPT !.src = "old"]
  BY <1>1 DEF RetiredSource
<1>5. IssuedOnce' /\ Issued' = Issued
  BY <1>1 DEF Inv, IssuedOnce, Issued
<1>6. /\ \A p \in Node : beat'[p].st \in {beat[p].st, "idle"}
      /\ \A p \in Node : admin'[p].st \in {admin[p].st, "idle"}
      /\ \A p \in Node : pull'[p].st = "header" =>
                           pull[p].st = "header" /\ pull'[p].peer = pull[p].peer
  <2>1. \A p \in Node : beat'[p].st \in {beat[p].st, "idle"}
    BY <1>3 DEF TypeOK, Beat, NoBeat
  <2>2. \A p \in Node : admin'[p].st \in {admin[p].st, "idle"}
    BY <1>3 DEF TypeOK, Admin, NoAdmin
  <2>3. \A p \in Node : pull'[p].st = "header" =>
                         pull[p].st = "header" /\ pull'[p].peer = pull[p].peer
    BY <1>4 DEF TypeOK, Pull, NoPull
  <2> QED
    BY <2>1, <2>2, <2>3
<1>7. StoppedIsIdle'
  BY <1>1, <1>6 DEF Inv, StoppedIsIdle
<1>8. OnlyIssuedRows'
  <2>1. \A m \in Node : row'[m] \in Issued /\ old'[m] \in Issued
    BY <1>2 DEF Inv, OnlyIssuedRows
  <2>2. \A m \in Node : beat'[m].ans \in {beat[m].ans, NoRow}
    BY <1>3 DEF TypeOK, Beat, NoBeat
  <2>3. \A m \in Node : pull'[m].snap \in {pull[m].snap, NoRow}
    BY <1>4 DEF TypeOK, Pull, NoPull
  <2>4. NoRow \in Issued
    BY DEF Issued
  <2> QED
    BY <1>5, <2>1, <2>2, <2>3, <2>4 DEF Inv, OnlyIssuedRows
<1>9. BeatsGoForward'
  <2>1. beat'[n].st # "idle" => beat'[n].h = "old" /\ beat[n].h = "cur"
          /\ beat'[n].st = beat[n].st /\ beat'[n].ans = beat[n].ans
    BY <1>3 DEF TypeOK, Beat, NoBeat
  <2> QED
    BY <1>2, <1>3, <2>1 DEF Inv, BeatsGoForward, Seen
<1>10. SnapshotsMatchHeaders'
  <2>1. \A p \in Node : pull'[p].st = "header" =>
          \/ pull'[p] = pull[p] /\ pull[p].peer # n
          \/ /\ pull[p].st = "header" /\ pull'[p].peer = n /\ pull'[p].src = "old"
             /\ pull'[p].got = pull[p].got /\ pull[p].peer = n /\ pull[p].src = "cur"
    BY <1>4 DEF TypeOK, Pull, NoPull
  <2>2. \A p \in Node : pull'[p].st = "header" =>
          /\ pull'[p].peer \in Node
          /\ pull'[p].got <= (IF pull'[p].src = "cur" THEN row'[pull'[p].peer]
                                                      ELSE old'[pull'[p].peer]).epoch
    BY <1>2, <2>1 DEF Inv, SnapshotsMatchHeaders, Seen
  <2>3. \A p \in Node : pull'[p].st = "body" =>
          pull[p].st = "body" /\ pull'[p].got = pull[p].got /\ pull'[p].snap = pull[p].snap
    BY <1>4 DEF TypeOK, Pull, NoPull
  <2> QED
    BY <2>2, <2>3 DEF Inv, SnapshotsMatchHeaders, Seen
<1>11. PromotionsFresh'
  <2>1. admin'[n].st # "idle" =>
          /\ admin'[n].h = "old" /\ admin[n].h = "cur" /\ admin'[n].st = admin[n].st
          /\ admin'[n].epoch = admin[n].epoch /\ admin'[n].target = admin[n].target
    BY <1>3 DEF TypeOK, Admin, NoAdmin
  <2> QED
    BY <1>1, <1>2, <1>3, <1>6, <2>1 DEF Inv, PromotionsFresh, Seen, Top
<1> QED
  BY <1>5, <1>7, <1>8, <1>9, <1>10, <1>11 DEF Inv

\* The inductive step.
LEMMA InvStep ==
    ASSUME TypeOK, TypeOK', Inv, Discipline # "any", [Next]_vars
    PROVE  Inv'
<1>1. ASSUME NEW n \in Node, Beats(n) \/ BeatFail(n) PROVE Inv'
  BY <1>1, BeatStep, AdoptStep DEF Beats
<1>2. ASSUME NEW n \in Node, Pulls(n) \/ PullFail(n) PROVE Inv'
  BY <1>2, PullStep, InstallStep DEF Pulls
<1>3. ASSUME NEW n \in Node, Admins(n) \/ AdminFail(n) PROVE Inv'
  BY <1>3, PromotionStep, PromotionWritten DEF Admins
<1>4. ASSUME NEW n \in Node, Start(n) \/ Crash(n) PROVE Inv'
  BY <1>4, StartStep, CrashStep
<1>5. CASE UNCHANGED vars
  <2>1. Quiet /\ UNCHANGED <<up, pull, beat, admin>>
    BY <1>5 DEF vars, Quiet
  <2> QED
    BY <2>1 DEF Quiet, Inv, StoppedIsIdle, IssuedOnce, OnlyIssuedRows, Issued,
       BeatsGoForward, SnapshotsMatchHeaders, PromotionsFresh, Seen, Top
<1> QED
  BY <1>1, <1>2, <1>3, <1>4, <1>5 DEF Next

\* Promotions one at a time, at nodes that know the newest epoch, keep the
\* whole invariant: what beats, snapshots and promotions hold is in order.
THEOREM Invariant == Discipline # "any" /\ Spec => [](TypeOK /\ Inv)
<1>1. Init => TypeOK /\ SourceKnown /\ Inv
  <2>1. Init => TypeOK /\ SourceKnown
    BY IdleTyped DEF Init, TypeOK, SourceKnown, NoPull, Row
  <2>2. Init => Inv
    BY DEF Init, Inv, StoppedIsIdle, IssuedOnce, OnlyIssuedRows, Issued, BeatsGoForward,
       SnapshotsMatchHeaders, PromotionsFresh, Seen, NoRow, NoPull, NoBeat, NoAdmin
  <2> QED
    BY <2>1, <2>2
<1>2. TypeOK /\ SourceKnown /\ Inv /\ Discipline # "any" /\ [Next]_vars
        => TypeOK' /\ SourceKnown' /\ Inv'
  BY TypeStep, InvStep
<1>3. CASE Discipline # "any"
  <2>1. TypeOK /\ SourceKnown /\ Inv /\ [Next]_vars => TypeOK' /\ SourceKnown' /\ Inv'
    BY <1>2, <1>3
  <2>2. Spec => [](TypeOK /\ Inv)
    BY <1>1, <2>1, PTL DEF Spec
  <2> QED
    BY <2>2
<1> QED
  BY <1>3

\* A snapshot is never older than the row the replica read before asking.
THEOREM SnapshotsFresh == Discipline # "any" /\ Spec => SnapshotNotBelowRequest
<1>1. TypeOK /\ Inv /\ [Next]_vars =>
        [\A n \in Node : PullInstall(n) => row'[n].epoch >= pull[n].epoch]_vars
  <2> SUFFICES ASSUME TypeOK, Inv, NEW n \in Node, PullInstall(n)
               PROVE  row'[n].epoch >= pull[n].epoch
    OBVIOUS
  <2>1. row'[n] = pull[n].snap /\ pull[n].got >= pull[n].epoch /\ pull[n].st = "body"
    BY DEF PullInstall, Acceptable, TypeOK
  <2>2. pull[n].got \in Nat /\ pull[n].epoch \in Nat /\ pull[n].snap.epoch \in Nat
    BY DEF TypeOK, Pull, Row
  <2> QED
    BY <2>1, <2>2 DEF Inv, SnapshotsMatchHeaders
<1> QED
  BY <1>1, Invariant, PTL DEF Spec, SnapshotNotBelowRequest

\* Only a snapshot can roll a node back.
THEOREM NothingElseRollsBack == Discipline # "any" /\ Spec => OnlySnapshotsRollBack
<1> DEFINE A == \A n \in Node :
               row'[n].epoch < row[n].epoch => pull[n].st = "body" /\ pull'[n].st = "idle"
<1>1. TypeOK /\ TypeOK' /\ Inv /\ [Next]_vars => [A]_vars
  <2> SUFFICES ASSUME TypeOK, TypeOK', Inv, Next PROVE A
    OBVIOUS
  <2>1. \A m \in Node : row[m].epoch \in Nat /\ row'[m].epoch \in Nat
    BY DEF TypeOK, Row
  <2>2. ASSUME UNCHANGED row PROVE A
    BY <2>1, <2>2
  <2>3. ASSUME NEW n \in Node, Start(n) \/ BeatAdopt(n) \/ AdminWrite(n) PROVE A
    <3>1. \A m \in Node, g \in Handle : Seen(m, g)'.epoch >= Seen(m, g).epoch
      BY <2>3, WritesRaise
    <3>2. \A m \in Node : row'[m].epoch >= row[m].epoch
      BY <3>1 DEF Seen, Handle
    <3> QED
      BY <2>1, <3>2
  <2>4. ASSUME NEW n \in Node, PullInstall(n) PROVE A
    <3>1. \A m \in Node : m # n => row'[m] = row[m]
      BY <2>4 DEF PullInstall, TypeOK
    <3>2. pull[n].st = "body" /\ pull'[n].st = "idle"
      BY <2>4 DEF PullInstall, NoPull
    <3> QED
      BY <2>1, <3>1, <3>2
  <2>5. ASSUME NEW n \in Node,
               Crash(n) \/ BeatStart(n) \/ BeatServe(n) \/ BeatCheck(n) \/ BeatFail(n)
                 \/ PullStart(n) \/ PullHeader(n) \/ PullBackup(n) \/ PullRefuse(n)
                 \/ PullFail(n) \/ (\E t \in Node : AdminPromote(n, t))
                 \/ AdminRebroadcast(n) \/ AdminRead(n) \/ AdminFail(n)
        PROVE  UNCHANGED row
    BY <2>5 DEF Crash, BeatStart, BeatServe, BeatCheck, BeatChecked, BeatFail, PullStart, PullHeader,
       PullBackup, PullRefuse, PullFail, AdminPromote, AdminRebroadcast, AdminRead, AdminFail
  <2> QED
    BY <2>2, <2>3, <2>4, <2>5 DEF Next, Beats, Pulls, Admins
<1> QED
  BY <1>1, Invariant, PTL DEF Spec, OnlySnapshotsRollBack
-----------------------------------------------------------------------------
(***************************************************************************)
(* Cluster implements Masters.                                             *)
(***************************************************************************)

\* What the refinement needs besides Inv: a declaration names a node, and a node that asks for a
\* database knows a declaration.
Named ==
    /\ \A p \in promoted : p.master \in Node
    /\ \A n \in Node : admin[n].st # "idle" => admin[n].target \in Node
    /\ \A n \in Node : pull[n].st # "idle" => pull[n].epoch >= 1

\* A row that is not empty was issued.
LEMMA KnownIssued ==
    ASSUME TypeOK, Inv, NEW r \in Issued, r.epoch # 0 \/ r.master # None
    PROVE  r \in promoted /\ r.epoch \in Nat /\ r.epoch >= 1
BY DEF TypeOK, Inv, IssuedOnce, Issued, NoRow, Row

LEMMA NamedStep ==
    ASSUME TypeOK, Inv, Named, Discipline # "any", [Next]_vars
    PROVE  Named'
<1> DEFINE Goal == Named'
<1> SUFFICES Goal
  OBVIOUS
<1> USE DEF Named
<1>0. \A n \in Node : row[n] \in Issued /\ pull[n] \in Pull /\ admin[n] \in Admin
  BY DEF TypeOK, Inv, OnlyIssuedRows
<1>1. ASSUME UNCHANGED <<pull, admin, promoted>> PROVE Goal
  BY <1>1
<1>2. ASSUME NEW n \in Node, Crash(n) PROVE Goal
  BY <1>2 DEF Crash, NoPull, NoAdmin, TypeOK
<1>3. ASSUME NEW n \in Node, PullStart(n) PROVE Goal
  <2>1. row[n] \in promoted /\ row[n].epoch >= 1
    BY <1>0, <1>3, KnownIssued DEF PullStart, IsMaster
  <2>2. pull'[n].epoch = row[n].epoch
    BY <1>3 DEF PullStart, NoPull, TypeOK
  <2> QED
    BY <1>3, <2>1, <2>2 DEF PullStart, TypeOK
<1>4. ASSUME NEW n \in Node, PullHeader(n) \/ PullBackup(n) \/ PullRefuse(n) \/ PullFail(n) PROVE Goal
  <2>1. UNCHANGED <<admin, promoted>> /\ \A m \in Node : m # n => pull'[m] = pull[m]
    BY <1>4 DEF PullHeader, PullBackup, PullRefuse, PullFail, TypeOK
  <2>2. pull'[n].st # "idle" => pull[n].st # "idle" /\ pull'[n].epoch = pull[n].epoch
    BY <1>0, <1>4 DEF PullHeader, PullBackup, PullRefuse, PullFail, NoPull, Pull, TypeOK
  <2> QED
    BY <2>1, <2>2
<1>5. ASSUME NEW n \in Node, PullInstall(n) PROVE Goal
  <2>1. \A m \in Node : pull'[m].st # "idle" => pull[m].st # "idle" /\ pull'[m].epoch = pull[m].epoch
    BY <1>0, <1>5 DEF PullInstall, RetiredSource, NoPull, Pull
  <2>2. \A m \in Node : admin'[m].st # "idle" => admin[m].st # "idle" /\ admin'[m].target = admin[m].target
    BY <1>0, <1>5 DEF PullInstall, Retired, NoAdmin, Admin, TypeOK
  <2> QED
    BY <1>5, <2>1, <2>2 DEF PullInstall
<1>6. ASSUME NEW n \in Node, NEW t \in Node, AdminPromote(n, t) PROVE Goal
  BY <1>6 DEF AdminPromote, TypeOK
<1>7. ASSUME NEW n \in Node, AdminRebroadcast(n) PROVE Goal
  <2>1. row[n].master \in Node
    BY <1>0, <1>7, KnownIssued DEF AdminRebroadcast, MayPromote, NoRow
  <2> QED
    BY <1>7, <2>1 DEF AdminRebroadcast, TypeOK
<1>8. ASSUME NEW n \in Node, AdminRead(n) PROVE Goal
  BY <1>0, <1>8 DEF AdminRead, TypeOK, Admin
<1>9. ASSUME NEW n \in Node, AdminWrite(n) \/ AdminFail(n) PROVE Goal
  BY <1>9 DEF AdminWrite, AdminFail, NoAdmin, TypeOK
<1>10. ASSUME NEW n \in Node, Start(n) \/ Beats(n) \/ BeatFail(n) PROVE Goal
  BY <1>1, <1>10 DEF Start, Beats, BeatStart, BeatServe, BeatCheck, BeatChecked, BeatAdopt, BeatFail
<1>11. CASE UNCHANGED vars
  BY <1>1, <1>11 DEF vars
<1> QED
  BY <1>2, <1>3, <1>4, <1>5, <1>6, <1>7, <1>8, <1>9, <1>10, <1>11 DEF Next, Pulls, Admins

\* A step of the cluster that leaves the rows and the declarations ends requests, if anything.
LEMMA DropsAllowed ==
    ASSUME UNCHANGED <<row, promoted>>,
           NEW S \in SUBSET Node, Asked' = [n \in Node |-> IF n \in S THEN 0 ELSE Asked[n]]
    PROVE  Network!Next
BY DEF Network!Next, Network!GiveUp, Network!Drop

\* Every step is a step of Masters, or none.
LEMMA MastersStep ==
    ASSUME TypeOK, TypeOK', Inv, Named, Discipline # "any", [Next]_vars
    PROVE  [Network!Next]_Network!vars
<1> DEFINE Goal == [Network!Next]_Network!vars
<1> SUFFICES Goal
  OBVIOUS
<1>0. \A n \in Node : row[n] \in Issued /\ row[n] \in Row /\ old[n] \in Issued /\ pull[n] \in Pull
  BY DEF TypeOK, Inv, OnlyIssuedRows
<1>a. UNCHANGED pull => Asked' = Asked
  BY DEF Asked
<1>1. ASSUME UNCHANGED <<row, pull, promoted>> PROVE Goal
  BY <1>1, <1>a DEF Network!vars
<1>2. ASSUME NEW n \in Node, Start(n) PROVE Goal
  <2>1. CASE UNCHANGED row
    BY <1>1, <1>2, <2>1 DEF Start
  <2>2. CASE row[n].epoch = 0 /\ row' = [row EXCEPT ![n] = [epoch |-> 1, master |-> FirstMaster]]
    <3>1. Network!Join(n)
      BY <1>2, <1>a, <2>2 DEF Start, Network!Join, Network!First
    <3> QED
      BY <3>1 DEF Network!Next
  <2> QED
    BY <1>2, <2>1, <2>2 DEF Start
<1>3. ASSUME NEW n \in Node, Crash(n) PROVE Goal
  <2> DEFINE S == {p \in Node : p = n \/ (pull[p].peer = n /\ pull[p].st = "header")}
  <2>1. Asked' = [p \in Node |-> IF p \in S THEN 0 ELSE Asked[p]]
    BY <1>3 DEF Crash, Asked, NoPull
  <2> QED
    BY <1>3, <2>1, DropsAllowed DEF Crash
<1>4. ASSUME NEW n \in Node, BeatAdopt(n) PROVE Goal
  <2>1. CASE beat[n].h # "cur"
    BY <1>1, <1>4, <2>1 DEF BeatAdopt, Write
  <2>2. CASE beat[n].h = "cur"
    <3>1. beat[n].ans \in Issued /\ beat[n].ans.epoch > row[n].epoch /\ row[n].epoch >= 1
      BY <1>4, <2>2 DEF Inv, OnlyIssuedRows, BeatsGoForward, Seen, BeatAdopt
    <3>2. beat[n].ans.epoch \in Nat /\ row[n].epoch \in Nat
      BY <1>0 DEF TypeOK, Beat, Row
    <3>3. beat[n].ans \in promoted
      BY <3>1, <3>2, KnownIssued
    <3>4. Network!Follow(n)
      BY <1>4, <1>a, <2>2, <3>1, <3>3 DEF BeatAdopt, Write, Network!Follow
    <3> QED
      BY <3>4 DEF Network!Next
  <2> QED
    BY <2>1, <2>2
<1>5. ASSUME NEW n \in Node, PullStart(n) PROVE Goal
  <2>1. row[n] \in promoted /\ row[n].epoch >= 1 /\ row[n].epoch \in Nat
    BY <1>0, <1>5, KnownIssued DEF PullStart, IsMaster
  <2>2. Asked[n] = 0
    BY <1>5 DEF PullStart, Asked
  <2>3. Asked' = [Asked EXCEPT ![n] = row[n].epoch]
    BY <1>5 DEF PullStart, Asked, NoPull, TypeOK
  <2>4. Network!Ask(n)
    BY <1>5, <2>1, <2>2, <2>3 DEF PullStart, Network!Ask
  <2> QED
    BY <2>4 DEF Network!Next
<1>6. ASSUME NEW n \in Node, PullHeader(n) \/ PullBackup(n) PROVE Goal
  <2>1. Asked' = Asked
    BY <1>0, <1>6 DEF PullHeader, PullBackup, Asked, Pull, TypeOK
  <2> QED
    BY <1>6, <2>1 DEF PullHeader, PullBackup, Network!vars
<1>7. ASSUME NEW n \in Node, PullRefuse(n) \/ PullFail(n) PROVE Goal
  <2> DEFINE S == {p \in Node : p = n}
  <2>1. Asked' = [p \in Node |-> IF p \in S THEN 0 ELSE Asked[p]]
    BY <1>7 DEF PullRefuse, PullFail, Asked, NoPull, TypeOK
  <2> QED
    BY <1>7, <2>1, DropsAllowed DEF PullRefuse, PullFail
<1>8. ASSUME NEW n \in Node, PullInstall(n) PROVE Goal
  <2> DEFINE S == {p \in Node : pull'[p].st = "idle"}
  <2>1. Asked' = [p \in Node |-> IF p \in S THEN 0 ELSE Asked[p]] /\ n \in S
    BY <1>0, <1>8 DEF PullInstall, RetiredSource, Asked, NoPull, Pull
  <2>2. /\ Asked[n] = pull[n].epoch /\ pull[n].epoch \in Nat /\ pull[n].epoch >= 1
        /\ pull[n].got \in Nat /\ pull[n].got >= pull[n].epoch
        /\ pull[n].snap \in Issued /\ pull[n].snap \in Row /\ pull[n].got <= pull[n].snap.epoch
    BY <1>0, <1>8 DEF PullInstall, Acceptable, Asked, Named, Pull, Inv, OnlyIssuedRows, SnapshotsMatchHeaders
  <2>3. pull[n].snap \in promoted /\ pull[n].snap.epoch >= Asked[n] /\ Asked[n] > 0
    BY <2>2, KnownIssued DEF Row
  <2>4. Network!Replace(n)
    BY <1>8, <2>1, <2>3 DEF PullInstall, Network!Replace, Network!Drop
  <2> QED
    BY <2>4 DEF Network!Next
<1>9. ASSUME NEW n \in Node, AdminWrite(n) PROVE Goal
  <2> DEFINE s == Seen(n, admin[n].h)
             r == [epoch |-> admin[n].epoch, master |-> admin[n].target]
  <2>0. /\ s \in Issued /\ s \in Row /\ admin[n].epoch = s.epoch + 1 /\ admin[n].target \in Node
        /\ \/ Top(s.epoch)
           \/ admin[n].target = FirstMaster /\ s.epoch = 0
    BY <1>9, SeenTyped, SeenIssued DEF AdminWrite, Inv, PromotionsFresh, Named, TypeOK, Admin
  <2>1. /\ promoted' = promoted \cup {r} /\ UNCHANGED pull
        /\ row' = IF admin[n].h = "cur" THEN [row EXCEPT ![n] = r] ELSE row
    BY <1>9 DEF AdminWrite, Write
  <2>2. CASE Top(s.epoch)
    <3>1. s \in promoted /\ \A q \in promoted : q.epoch <= s.epoch
      <4>1. s.epoch >= 1
        BY <2>0, <2>2 DEF Top, Inv, IssuedOnce, Row
      <4> QED
        BY <2>0, <2>2, <4>1, KnownIssued DEF Top, Row
    <3>2. r = [epoch |-> s.epoch + 1, master |-> admin[n].target]
      BY <2>0
    <3>3. row' = row \/ (row[n] = s /\ row' = [row EXCEPT ![n] = r])
      BY <2>1 DEF Seen
    <3> HIDE DEF s, r
    <3>4. Network!Declare(n)
      BY <1>a, <2>0, <2>1, <3>1, <3>2, <3>3 DEF Network!Declare
    <3> QED
      BY <3>4 DEF Network!Next
  <2>3. CASE admin[n].target = FirstMaster /\ s.epoch = 0
    <3>1. r = [epoch |-> 1, master |-> FirstMaster] /\ promoted' = promoted
      BY <2>0, <2>1, <2>3 DEF Inv, IssuedOnce
    <3>2. CASE admin[n].h = "cur"
      <4>1. Network!Join(n)
        BY <1>a, <2>1, <2>3, <3>1, <3>2 DEF Network!Join, Network!First, Seen
      <4> QED
        BY <4>1 DEF Network!Next
    <3>3. CASE admin[n].h # "cur"
      BY <1>1, <2>1, <3>1, <3>3
    <3> QED
      BY <3>2, <3>3
  <2> QED
    BY <2>0, <2>2, <2>3
<1>10. ASSUME NEW n \in Node, BeatStart(n) \/ BeatServe(n) \/ BeatCheck(n) \/ BeatFail(n)
                              \/ (\E t \in Node : AdminPromote(n, t)) \/ AdminRebroadcast(n) \/ AdminRead(n)
                              \/ AdminFail(n)
       PROVE  Goal
  BY <1>1, <1>10 DEF BeatStart, BeatServe, BeatCheck, BeatChecked, BeatFail,
     AdminPromote, AdminRebroadcast, AdminRead, AdminFail
<1>11. CASE UNCHANGED vars
  BY <1>1, <1>11 DEF vars
<1> QED
  BY <1>2, <1>3, <1>4, <1>5, <1>6, <1>7, <1>8, <1>9, <1>10, <1>11 DEF Next, Beats, Pulls, Admins

\* When promotions are asked of nodes that know the newest epoch, the cluster implements Masters, with
\* any number of nodes: every number is declared once, a node knows a declaration that was made, and
\* goes back with a snapshot alone, and not behind its request (cluster.go, heartbeat.go, replica.go).
THEOREM ImplementsMasters == Discipline # "any" /\ Spec => KeepsItsMasters
<1>1. Init => Network!Init /\ Named
  BY DEF Init, Network!Init, Network!Nothing, Network!First, Asked, NoRow, NoPull, NoAdmin, Named
<1>2. CASE Discipline # "any"
  <2>1. TypeOK /\ Inv /\ Named /\ [Next]_vars => Named'
    BY <1>2, NamedStep
  <2>2. TypeOK /\ TypeOK' /\ Inv /\ Named /\ [Next]_vars => [Network!Next]_Network!vars
    BY <1>2, MastersStep
  <2>3. Spec => [](TypeOK /\ Inv)
    BY <1>2, Invariant
  <2> QED
    BY <1>1, <2>1, <2>2, <2>3, PTL DEF Spec, KeepsItsMasters, Network!Spec
<1> QED
  BY <1>2
=============================================================================
