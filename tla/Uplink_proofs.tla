---------------------------- MODULE Uplink_proofs ----------------------------
(***************************************************************************)
(* Uplink, for any addresses, number of sockets, faults and times: its     *)
(* types, that no migration leaves a socket behind, and, for times that    *)
(* leave room for it, that a lost mapping is repaired before the session   *)
(* is idle for too long.                                                   *)
(***************************************************************************)
EXTENDS Uplink, FiniteSetTheorems, WellFoundedInduction, TLAPS

\* A session that lives has not been idle for too long.
AwakeInv == Alive => quiet < IdleTimeout

\* A mover that rests names the first socket, which is never lost; the one that is about to retire
\* a socket has put it on the list under the lock before.
MoversInv ==
    /\ \A g \in Mover : mig[g].step = "idle" => mig[g].sock = 0
    /\ closing # "done" =>
         /\ 0 \in prev \cup {cur}
         /\ \A g \in Mover : mig[g].step = "retire" => mig[g].sock \in prev

UplinkInv == TypeOK /\ AwakeInv /\ MoversInv /\ SocketsHeld

SocketType == [at : Addr, buf : {"none", "armed", "disarmed", "closed"}]
Migration == [step : {"idle", "probe", "switch", "store", "retire"}, sock : Socket,
              age : 0..MigrateTimeout, id : BOOLEAN]
Channel == {<<>>} \cup {<<a>> : a \in Addr}

LEMMA Bounds ==
    /\ None \notin Addr /\ Budgets \subseteq [moves : Nat, faults : Nat]
    /\ MaxSockets \in Nat /\ MaxIds \in Nat /\ KeepAlive \in Nat /\ SilenceLimit \in Nat
    /\ RepairEvery \in Nat /\ MigrateTimeout \in Nat /\ MaxRepairs \in Nat
    /\ IdleTimeout \in Nat /\ IdleTimeout > 0
BY UplinkAssumption

\* What changes together, with its types.
NetTyped ==
    /\ addr \in Addr \cup {None} /\ isp \in BOOLEAN /\ mapped \subseteq Socket
    /\ left \in [moves : Nat, faults : Nat]
ConnTyped ==
    /\ sock \in [Socket -> SocketType] /\ active \in Socket /\ cur \in Socket
    /\ prev \subseteq Socket /\ ids \in 0..MaxIds /\ died \in {"no", "idle", "closed"}
    /\ closing \in {"no", "locked", "done"}
TrafficTyped ==
    /\ quiet \in 0..IdleTimeout
    /\ sentNew \in BOOLEAN /\ recvNew \in BOOLEAN /\ unacked \in BOOLEAN /\ whole \in BOOLEAN
WatcherTyped == wlast \in Addr /\ wsend \in Addr \cup {None} /\ ch \in Channel /\ tried \in Addr
HealthTyped ==
    /\ silent \in 0..(SilenceLimit + 1) /\ rest \in 0..RepairEvery /\ tries \in 0..MaxRepairs
MoversTyped ==
    /\ run \in {"loop", "dead", "stopped"} /\ cancelled \in BOOLEAN
    /\ due \subseteq {"watch", "path"} /\ mig \in [Mover -> Migration]

-----------------------------------------------------------------------------
(* Lemmas about the helpers. *)

\* Every set of numbers that has one has a least one.
LEMMA Lowermost == ASSUME NEW S \in SUBSET Nat, S # {} PROVE Lowest(S) \in S
<1> DEFINE R == {ss \in Nat \X Nat : ss[1] < ss[2]}
<1>1. IsWellFoundedOn(R, Nat)
  BY NatLessThanWellFounded DEF OpToRel
<1>2. ASSUME NEW x \in S, NEW y \in S, <<y, x>> \notin R PROVE x <= y
  <2>1. x \in Nat /\ y \in Nat /\ <<y, x>> \in Nat \X Nat
    OBVIOUS
  <2>2. ~(y < x)
    BY <1>2, <2>1
  <2> QED
    BY <2>1, <2>2
<1> HIDE DEF R
<1>3. \E x \in S : \A y \in S : ~(<<y, x>> \in R)
  BY <1>1, WFMin
<1>4. \E x \in S : \A y \in S : x <= y
  BY <1>2, <1>3
<1> QED
  BY <1>4 DEF Lowest

LEMMA HoldingCounted ==
    /\ Cardinality(Holding) \in Nat
    /\ \A g \in Mover : Cardinality(Holding \ {g}) \in Nat
<1>1. IsFiniteSet(Mover)
  <2>1. Mover = {"handle"} \cup {"repair"}
    BY DEF Mover
  <2> QED
    BY <2>1, FS_Singleton, FS_Union
<1>2. Holding \subseteq Mover /\ \A g \in Mover : Holding \ {g} \subseteq Mover
  BY DEF Holding
<1> QED
  BY <1>1, <1>2, FS_Subset, FS_CardinalityType

\* What a received packet sets.
LEMMA AnswerTyped ==
    ASSUME NEW probes \in Nat, Answered(probes)
    PROVE  /\ quiet' = 0 /\ recvNew' = TRUE /\ unacked' = FALSE /\ whole' = TRUE
           /\ ids' \in 0..MaxIds
BY Bounds DEF Answered

LEMMA AnswerTraffic ==
    ASSUME NEW probes \in Nat, Answered(probes), sentNew' = TRUE
    PROVE  TrafficTyped'
<1>1. quiet' \in 0..IdleTimeout
  BY Bounds DEF Answered
<1>2. sentNew' \in BOOLEAN /\ recvNew' \in BOOLEAN /\ unacked' \in BOOLEAN /\ whole' \in BOOLEAN
  <2>1. recvNew' = TRUE /\ unacked' = FALSE /\ whole' = TRUE
    BY DEF Answered
  <2> QED
    BY <2>1, Zenon
<1> QED
  BY <1>1, <1>2 DEF TrafficTyped

LEMMA DisarmTyped ==
    ASSUME sock \in [Socket -> SocketType], NEW s \in Socket
    PROVE  /\ Disarm(s) \in [Socket -> SocketType]
           /\ \A t \in Socket : Disarm(s)[t].buf \in {"armed", "disarmed"} <=>
                               sock[t].buf \in {"armed", "disarmed"}
<1> DEFINE b == IF sock[s].buf = "armed" THEN "disarmed" ELSE sock[s].buf
           v == [sock[s] EXCEPT !.buf = b]
<1>1. Disarm(s) = [sock EXCEPT ![s] = v]
  BY DEF Disarm
<1>2. sock[s] \in SocketType
  OBVIOUS
<1>3. b \in {"none", "armed", "disarmed", "closed"}
  BY <1>2 DEF SocketType
<1>4. b \in {"armed", "disarmed"} <=> sock[s].buf \in {"armed", "disarmed"}
  OBVIOUS
<1> HIDE DEF b
<1>5. v \in SocketType /\ v.buf = b
  BY <1>2, <1>3 DEF SocketType
<1> HIDE DEF v
<1> QED
  BY <1>1, <1>4, <1>5

\* A migration that begins opens a socket of its own and nothing else.
LEMMA BeginTyped ==
    ASSUME sock \in [Socket -> SocketType], mig \in [Mover -> Migration], ids \in 0..MaxIds,
           NEW g \in Mover, NEW a \in Addr, Begin(g, a)
    PROVE  /\ sock' \in [Socket -> SocketType] /\ mig' \in [Mover -> Migration]
           /\ ids' \in 0..MaxIds
           /\ \A f \in Mover \ {g} : mig'[f] = mig[f]
           /\ mig'[g] = mig[g] \/ mig'[g].step = "probe"
           /\ \A t \in Socket : sock'[t].buf \in {"armed", "disarmed"} =>
                  sock[t].buf \in {"armed", "disarmed"} \/ t = mig'[g].sock
<1>1. CASE addr # a
  BY <1>1 DEF Begin
<1>2. CASE addr = a
  <2> DEFINE s == Lowest(Fresh)
             v == [at |-> a, buf |-> "armed"]
             i == (ids > 0)
             m == [step |-> "probe", sock |-> s, age |-> 0, id |-> i]
  <2>1. s \in Socket
    <3>1. Fresh \in SUBSET Nat /\ Fresh \subseteq Socket
      BY Bounds DEF Fresh, Socket
    <3> QED
      BY <1>2, <3>1, Lowermost DEF Begin
  <2>2. /\ sock' = [sock EXCEPT ![s] = v] /\ mig' = [mig EXCEPT ![g] = m]
        /\ ids' = IF ids > 0 THEN ids - 1 ELSE 0
    BY <1>2 DEF Begin
  <2>3. v \in SocketType /\ v.buf = "armed"
    BY DEF SocketType
  <2>4. i \in BOOLEAN
    OBVIOUS
  <2> HIDE DEF s, v, i
  <2>5. m \in Migration /\ m.step = "probe" /\ m.sock = s
    BY <2>1, <2>4, Bounds DEF Migration
  <2> HIDE DEF m
  <2>6. sock' \in [Socket -> SocketType] /\ mig' \in [Mover -> Migration]
    BY <2>1, <2>2, <2>3, <2>5
  <2>7. ids' \in 0..MaxIds
    BY <2>2, Bounds
  <2>8. mig'[g] = m /\ \A f \in Mover \ {g} : mig'[f] = mig[f]
    BY <2>2
  <2>9. \A t \in Socket : t # s => sock'[t] = sock[t]
    BY <2>2
  <2> QED
    BY <2>5, <2>6, <2>7, <2>8, <2>9
<1> QED
  BY <1>1, <1>2

-----------------------------------------------------------------------------
(* Types. *)

LEMMA UplinkInit == Init => UplinkInv
<1> SUFFICES ASSUME Init PROVE UplinkInv
  OBVIOUS
<1> USE Bounds
<1>1. 0 \in Socket
  BY DEF Socket
<1>2. Resting \in Migration /\ Resting.step = "idle" /\ Resting.sock = 0
  BY <1>1 DEF Resting, Migration
<1>3. mig \in [Mover -> Migration] /\ \A g \in Mover : mig[g] = Resting
  BY <1>2 DEF Init
<1>4. sock \in [Socket -> SocketType]
  BY DEF Init, SocketType
<1>5. \A s \in Socket : sock[s].buf \in {"armed", "disarmed"} => s = 0
  BY DEF Init
<1>6. left \in [moves : Nat, faults : Nat]
  BY DEF Init
<1>7. TypeOK
  BY <1>1, <1>3, <1>4, <1>6 DEF Init, TypeOK, SocketType, Migration
<1>8. AwakeInv
  BY DEF Init, AwakeInv
<1>9. MoversInv
  BY <1>2, <1>3 DEF Init, MoversInv
<1>10. SocketsHeld
  BY <1>5 DEF Init, SocketsHeld
<1> QED
  BY <1>7, <1>8, <1>9, <1>10 DEF UplinkInv

LEMMA Parts ==
    TypeOK <=> NetTyped /\ ConnTyped /\ TrafficTyped /\ WatcherTyped /\ HealthTyped /\ MoversTyped
BY DEF TypeOK, NetTyped, ConnTyped, TrafficTyped, WatcherTyped, HealthTyped, MoversTyped, SocketType, Migration, Channel

\* A reading of watchPath counts up to its limits.
LEMMA ReadingTyped ==
    ASSUME HealthTyped
    PROVE  /\ Since \in 0..(SilenceLimit + 1) /\ Tries \in 0..MaxRepairs
           /\ RepairDue => Tries + 1 \in 0..MaxRepairs
BY Bounds DEF HealthTyped, Since, Tries, RepairDue

LEMMA StepTyped ==
    ASSUME NEW g \in Mover, mig \in [Mover -> Migration],
           NEW step \in {"idle", "probe", "switch", "store", "retire"}, To(g, step)
    PROVE  /\ mig' \in [Mover -> Migration] /\ mig'[g].step = step /\ mig'[g].sock = mig[g].sock
           /\ \A f \in Mover \ {g} : mig'[f] = mig[f]
<1> DEFINE m == [mig[g] EXCEPT !.step = step]
<1>1. mig' = [mig EXCEPT ![g] = m]
  BY DEF To
<1>2. m \in Migration /\ m.step = step /\ m.sock = mig[g].sock
  BY DEF Migration
<1> HIDE DEF m
<1> QED
  BY <1>1, <1>2

LEMMA RestingTyped == Resting \in Migration /\ Resting.step = "idle" /\ Resting.sock = 0
BY Bounds DEF Resting, Migration, Socket

LEMMA AbandonTyped ==
    ASSUME ConnTyped, MoversTyped, NEW g \in Mover, Abandon(g)
    PROVE  /\ sock' \in [Socket -> SocketType] /\ prev' \subseteq Socket
           /\ mig' \in [Mover -> Migration]
           /\ prev' = prev \cup {mig[g].sock} /\ mig'[g] = Resting
           /\ \A f \in Mover \ {g} : mig'[f] = mig[f]
           /\ \A t \in Socket : sock'[t].buf \in {"armed", "disarmed"} <=>
                               sock[t].buf \in {"armed", "disarmed"}
<1>1. mig[g].sock \in Socket
  BY DEF MoversTyped, Migration
<1>2. sock' = Disarm(mig[g].sock) /\ prev' = prev \cup {mig[g].sock} /\ mig' = [mig EXCEPT ![g] = Resting]
  BY DEF Abandon
<1>3. mig' \in [Mover -> Migration] /\ mig'[g] = Resting /\ \A f \in Mover \ {g} : mig'[f] = mig[f]
  BY <1>2, RestingTyped DEF MoversTyped
<1>4. /\ sock' \in [Socket -> SocketType]
      /\ \A t \in Socket : sock'[t].buf \in {"armed", "disarmed"} <=>
                           sock[t].buf \in {"armed", "disarmed"}
  BY <1>1, <1>2, DisarmTyped DEF ConnTyped
<1> QED
  BY <1>1, <1>2, <1>3, <1>4 DEF ConnTyped

LEMMA TypesKept == TypeOK /\ AwakeInv /\ [Next]_vars => TypeOK' /\ AwakeInv'
<1> SUFFICES ASSUME TypeOK, AwakeInv, [Next]_vars PROVE TypeOK' /\ AwakeInv'
  OBVIOUS
<1>a. NetTyped /\ ConnTyped /\ TrafficTyped /\ WatcherTyped /\ HealthTyped /\ MoversTyped
  BY Parts
<1> DEFINE G == /\ NetTyped' /\ ConnTyped' /\ TrafficTyped' /\ WatcherTyped' /\ HealthTyped'
                /\ MoversTyped' /\ AwakeInv'
<1>s. SUFFICES G
  BY DEF TypeOK, NetTyped, ConnTyped, TrafficTyped, WatcherTyped, HealthTyped, MoversTyped, SocketType, Migration, Channel
<1> USE <1>a DEF net, conn, traffic, watcher, health, AwakeInv, Alive
<1>1. ASSUME UNCHANGED <<conn, traffic, watcher, run, cancelled, health, due, mig>>, NetTyped'
      PROVE  G
  BY <1>1 DEF ConnTyped, TrafficTyped, WatcherTyped, HealthTyped, MoversTyped
<1>2. CASE Move
  <2>1. /\ ConnTyped' /\ WatcherTyped' /\ HealthTyped' /\ MoversTyped'
    BY <1>2 DEF Move, ConnTyped, WatcherTyped, HealthTyped, MoversTyped
  <2>2. NetTyped' /\ AwakeInv'
    BY <1>2 DEF Move, NetTyped
  <2>3. TrafficTyped'
    BY <1>2 DEF Move, TrafficTyped
  <2> QED
    BY <2>1, <2>2, <2>3
<1>3. CASE LinkDown
  <2>1. /\ ConnTyped' /\ WatcherTyped' /\ HealthTyped' /\ MoversTyped'
    BY <1>3 DEF LinkDown, ConnTyped, WatcherTyped, HealthTyped, MoversTyped
  <2>2. NetTyped' /\ AwakeInv'
    <3>1. isp' = FALSE /\ left' = [left EXCEPT !.faults = @ - 1] /\ left.faults > 0
          /\ addr' = addr /\ mapped' = mapped /\ quiet' = quiet /\ died' = died
      BY <1>3 DEF LinkDown
    <3>2. isp' \in BOOLEAN
      BY <3>1, Zenon
    <3>3. left' \in [moves : Nat, faults : Nat]
      BY <3>1 DEF NetTyped
    <3> QED
      BY <3>1, <3>2, <3>3 DEF NetTyped
  <2>3. TrafficTyped'
    BY <1>3 DEF LinkDown, TrafficTyped
  <2> QED
    BY <2>1, <2>2, <2>3
<1>4. CASE LinkUp
  <2>1. NetTyped'
    BY <1>4 DEF LinkUp, NetTyped
  <2> QED
    BY <1>1, <1>4, <2>1 DEF LinkUp
<1>5. CASE MappingLost
  <2>1. NetTyped'
    BY <1>5 DEF MappingLost, NetTyped
  <2> QED
    BY <1>1, <1>5, <2>1 DEF MappingLost
<1>6. CASE Send
  <2>1. NetTyped' /\ WatcherTyped' /\ HealthTyped' /\ MoversTyped'
    BY <1>6 DEF Send, NetTyped, WatcherTyped, HealthTyped, MoversTyped
  <2>2. CASE Works(active)
    <3>1. Answered(Cardinality(Holding)) /\ sentNew' = TRUE /\ UNCHANGED <<sock, active, cur, prev, died, closing>>
      BY <1>6, <2>2 DEF Send
    <3>2. quiet' = 0 /\ recvNew' = TRUE /\ unacked' = FALSE /\ whole' = TRUE /\ ids' \in 0..MaxIds
      BY <3>1, HoldingCounted, AnswerTyped
    <3>3. ConnTyped' /\ AwakeInv'
      BY <3>1, <3>2, Bounds DEF ConnTyped
    <3>4. TrafficTyped'
      BY <3>1, HoldingCounted, AnswerTraffic
    <3> QED
      BY <2>1, <3>3, <3>4
  <2>3. CASE ~Works(active)
    <3>1. TrafficTyped' /\ ConnTyped' /\ AwakeInv'
      BY <1>6, <2>3 DEF Send, Unanswered, TrafficTyped, ConnTyped
    <3> QED
      BY <2>1, <3>1
  <2> QED
    BY <2>2, <2>3
<1>7. ASSUME NEW g \in Mover, ProbeAnswered(g) PROVE G
  <2>1. WatcherTyped' /\ HealthTyped'
    BY <1>7 DEF ProbeAnswered, WatcherTyped, HealthTyped
  <2>2. mig' \in [Mover -> Migration]
    BY <1>7, StepTyped DEF ProbeAnswered, MoversTyped
  <2>3. mig[g].sock \in Socket
    BY DEF MoversTyped, Migration
  <2>4. NetTyped' /\ MoversTyped'
    BY <1>7, <2>2, <2>3 DEF ProbeAnswered, NetTyped, MoversTyped
  <2>5. quiet' = 0 /\ recvNew' = TRUE /\ unacked' = FALSE /\ whole' = TRUE /\ ids' \in 0..MaxIds
    BY <1>7, HoldingCounted, AnswerTyped DEF ProbeAnswered
  <2>6. ConnTyped' /\ AwakeInv'
    BY <1>7, <2>5, Bounds DEF ProbeAnswered, ConnTyped
  <2>7. TrafficTyped'
    BY <1>7, HoldingCounted, AnswerTraffic DEF ProbeAnswered
  <2> QED
    BY <2>1, <2>4, <2>6, <2>7
<1>8. ASSUME NEW g \in Mover, ProbeFails(g) PROVE G
  <2>1. NetTyped' /\ TrafficTyped' /\ WatcherTyped' /\ HealthTyped' /\ AwakeInv'
    BY <1>8 DEF ProbeFails, NetTyped, TrafficTyped, WatcherTyped, HealthTyped
  <2>2. sock' \in [Socket -> SocketType] /\ prev' \subseteq Socket /\ mig' \in [Mover -> Migration]
    BY <1>8, AbandonTyped DEF ProbeFails
  <2>3. ConnTyped' /\ MoversTyped'
    BY <1>8, <2>2 DEF ProbeFails, ConnTyped, MoversTyped
  <2> QED
    BY <2>1, <2>3
<1>9. ASSUME NEW g \in Mover, Switch(g) PROVE G
  <2>1. NetTyped' /\ TrafficTyped' /\ WatcherTyped' /\ HealthTyped' /\ AwakeInv'
    BY <1>9 DEF Switch, NetTyped, TrafficTyped, WatcherTyped, HealthTyped
  <2>2. CASE Alive
    <3>1. active' = mig[g].sock /\ To(g, "store") /\ UNCHANGED <<sock, prev>>
      BY <1>9, <2>2 DEF Switch
    <3>2. mig' \in [Mover -> Migration] /\ mig[g].sock \in Socket
      BY <3>1, StepTyped DEF MoversTyped, Migration
    <3>3. ConnTyped' /\ MoversTyped'
      BY <1>9, <3>1, <3>2 DEF Switch, ConnTyped, MoversTyped
    <3> QED
      BY <2>1, <3>3
  <2>3. CASE ~Alive
    <3>1. Abandon(g) /\ active' = active
      BY <1>9, <2>3 DEF Switch
    <3>2. sock' \in [Socket -> SocketType] /\ prev' \subseteq Socket /\ mig' \in [Mover -> Migration]
      BY <3>1, AbandonTyped
    <3>3. ConnTyped' /\ MoversTyped'
      BY <1>9, <3>1, <3>2 DEF Switch, ConnTyped, MoversTyped
    <3> QED
      BY <2>1, <3>3
  <2> QED
    BY <2>2, <2>3
<1>10. ASSUME NEW g \in Mover, Store(g) PROVE G
  <2>1. NetTyped' /\ TrafficTyped' /\ WatcherTyped' /\ HealthTyped' /\ AwakeInv'
    BY <1>10 DEF Store, NetTyped, TrafficTyped, WatcherTyped, HealthTyped
  <2>2. mig' \in [Mover -> Migration] /\ mig[g].sock \in Socket
    BY <1>10 DEF Store, MoversTyped, Migration, ConnTyped
  <2>3. ConnTyped' /\ MoversTyped'
    BY <1>10, <2>2 DEF Store, ConnTyped, MoversTyped
  <2> QED
    BY <2>1, <2>3
<1>11. ASSUME NEW g \in Mover, Retire(g) PROVE G
  <2>1. NetTyped' /\ TrafficTyped' /\ WatcherTyped' /\ HealthTyped' /\ AwakeInv'
    BY <1>11 DEF Retire, NetTyped, TrafficTyped, WatcherTyped, HealthTyped
  <2>2. mig[g].sock \in Socket
    BY DEF MoversTyped, Migration
  <2>3. Retired(mig[g].sock) \in [Socket -> SocketType]
    BY <2>2, DisarmTyped DEF Retired, ConnTyped
  <2>4. mig' \in [Mover -> Migration]
    BY <1>11, RestingTyped DEF Retire, MoversTyped
  <2>5. ConnTyped' /\ MoversTyped'
    BY <1>11, <2>3, <2>4 DEF Retire, ConnTyped, MoversTyped
  <2> QED
    BY <2>1, <2>5
<1>12. CASE CloseSession
  <2>1. NetTyped' /\ TrafficTyped' /\ WatcherTyped' /\ HealthTyped' /\ MoversTyped'
    BY <1>12 DEF CloseSession, NetTyped, TrafficTyped, WatcherTyped, HealthTyped, MoversTyped
  <2>2. ConnTyped' /\ AwakeInv'
    BY <1>12 DEF CloseSession, ConnTyped
  <2> QED
    BY <2>1, <2>2
<1>13. CASE CloseTransports
  <2>1. NetTyped' /\ TrafficTyped' /\ WatcherTyped' /\ HealthTyped' /\ MoversTyped' /\ AwakeInv'
    BY <1>13 DEF CloseTransports, NetTyped, TrafficTyped, WatcherTyped, HealthTyped, MoversTyped
  <2>2. sock' \in [Socket -> SocketType]
    BY <1>13 DEF CloseTransports, ConnTyped, SocketType
  <2>3. ConnTyped'
    BY <1>13, <2>2 DEF CloseTransports, ConnTyped
  <2> QED
    BY <2>1, <2>3
<1>14. CASE Watch
  <2>1. NetTyped' /\ ConnTyped' /\ TrafficTyped' /\ HealthTyped' /\ AwakeInv'
    BY <1>14 DEF Watch, NetTyped, ConnTyped, TrafficTyped, HealthTyped
  <2>2. WatcherTyped' /\ MoversTyped'
    BY <1>14 DEF Watch, WatcherTyped, MoversTyped, NetTyped
  <2> QED
    BY <2>1, <2>2
<1>15. CASE Notify
  <2>1. NetTyped' /\ ConnTyped' /\ TrafficTyped' /\ HealthTyped' /\ AwakeInv' /\ MoversTyped'
    BY <1>15 DEF Notify, NetTyped, ConnTyped, TrafficTyped, HealthTyped, MoversTyped
  <2>2. ch' \in Channel
    BY <1>15 DEF Notify, Deliver, WatcherTyped, Channel
  <2>3. WatcherTyped'
    BY <1>15, <2>2 DEF Notify, WatcherTyped
  <2> QED
    BY <2>1, <2>3
<1>16. CASE Handle
  <2>1. NetTyped' /\ TrafficTyped' /\ HealthTyped' /\ AwakeInv'
    BY <1>16 DEF Handle, NetTyped, TrafficTyped, HealthTyped
  <2>2. Head(ch) \in Addr
    BY <1>16 DEF Handle, WatcherTyped, Channel
  <2>3. "handle" \in Mover
    BY DEF Mover
  <2>4. sock' \in [Socket -> SocketType] /\ mig' \in [Mover -> Migration] /\ ids' \in 0..MaxIds
    BY <1>16, <2>2, <2>3, BeginTyped DEF Handle, ConnTyped, MoversTyped
  <2>5. ConnTyped' /\ MoversTyped' /\ WatcherTyped'
    BY <1>16, <2>2, <2>4 DEF Handle, ConnTyped, MoversTyped, WatcherTyped, Channel
  <2> QED
    BY <2>1, <2>5
<1>17. CASE RunReturns
  <2>1. /\ NetTyped' /\ ConnTyped' /\ TrafficTyped' /\ HealthTyped' /\ AwakeInv' /\ WatcherTyped'
        /\ mig' = mig /\ due' = due /\ cancelled' = cancelled
    BY <1>17 DEF RunReturns, NetTyped, ConnTyped, TrafficTyped, HealthTyped, WatcherTyped
  <2>2. MoversTyped'
    BY <1>17, <2>1 DEF RunReturns, MoversTyped
  <2> QED
    BY <2>1, <2>2
<1>18. CASE Cancel
  <2>1. /\ NetTyped' /\ ConnTyped' /\ TrafficTyped' /\ HealthTyped' /\ AwakeInv' /\ WatcherTyped'
    BY <1>18 DEF Cancel, NetTyped, ConnTyped, TrafficTyped, HealthTyped, WatcherTyped
  <2>2. MoversTyped'
    BY <1>18 DEF Cancel, MoversTyped
  <2> QED
    BY <2>1, <2>2
<1>19. CASE WatchPath
  <2>1. NetTyped' /\ WatcherTyped' /\ AwakeInv'
    BY <1>19 DEF WatchPath, NetTyped, WatcherTyped
  <2>2. TrafficTyped'
    BY <1>19 DEF WatchPath, TrafficTyped
  <2>3. HealthTyped'
    BY <1>19, ReadingTyped, Bounds DEF WatchPath, HealthTyped
  <2>4. "repair" \in Mover
    BY DEF Mover
  <2>5. sock' \in [Socket -> SocketType] /\ mig' \in [Mover -> Migration] /\ ids' \in 0..MaxIds
    <3>1. CASE RepairDue /\ addr # None
      <4>1. Begin("repair", addr) /\ addr \in Addr
        BY <1>19, <3>1 DEF WatchPath, NetTyped
      <4> QED
        BY <2>4, <4>1, BeginTyped DEF ConnTyped, MoversTyped
    <3>2. CASE ~(RepairDue /\ addr # None)
      <4>1. UNCHANGED <<sock, mig, ids>>
        BY <1>19, <3>2 DEF WatchPath
      <4> QED
        BY <4>1 DEF ConnTyped, MoversTyped
    <3> QED
      BY <3>1, <3>2
  <2>6. ConnTyped' /\ MoversTyped'
    BY <1>19, <2>5 DEF WatchPath, ConnTyped, MoversTyped
  <2> QED
    BY <2>1, <2>2, <2>3, <2>6
<1>20. CASE Tick
  <2>1. NetTyped' /\ WatcherTyped'
    BY <1>20 DEF Tick, NetTyped, WatcherTyped
  <2>2. HealthTyped'
    BY <1>20, Bounds DEF Tick, HealthTyped, Least
  <2>3. mig' \in [Mover -> Migration]
    <3>1. ASSUME NEW g \in Mover PROVE mig'[g] \in Migration
      <4> DEFINE a == IF mig[g].step = "probe" THEN Least(mig[g].age + 1, MigrateTimeout)
                      ELSE mig[g].age
      <4>1. mig'[g] = [mig[g] EXCEPT !.age = a]
        BY <1>20 DEF Tick
      <4>2. mig[g] \in Migration
        BY DEF MoversTyped
      <4>3. a \in 0..MigrateTimeout
        BY <4>2, Bounds DEF Migration, Least
      <4> HIDE DEF a
      <4> QED
        BY <4>1, <4>2, <4>3 DEF Migration
    <3> QED
      BY <1>20, <3>1 DEF Tick
  <2>4. MoversTyped'
    BY <1>20, <2>3 DEF Tick, MoversTyped
  <2>5. TrafficTyped' /\ ConnTyped' /\ AwakeInv'
    <3>1. CASE ~Alive
      BY <1>20, <3>1 DEF Tick, TrafficTyped, ConnTyped
    <3>2. CASE Alive
      <4>1. PICK sends \in Sends :
              IF sends /\ Works(active)
              THEN Answered(Cardinality(Holding)) /\ sentNew' = TRUE /\ UNCHANGED died
              ELSE /\ quiet' = quiet + 1
                   /\ sentNew' = (sentNew \/ sends) /\ unacked' = (unacked \/ sends)
                   /\ died' = IF quiet + 1 >= IdleTimeout THEN "idle" ELSE died
                   /\ UNCHANGED <<recvNew, whole, ids>>
        BY <1>20, <3>2 DEF Tick
      <4>2. UNCHANGED <<sock, active, cur, prev, closing>>
        BY <1>20 DEF Tick
      <4>3. CASE sends /\ Works(active)
        <5>1. quiet' = 0 /\ recvNew' = TRUE /\ unacked' = FALSE /\ whole' = TRUE /\ ids' \in 0..MaxIds
          BY <4>1, <4>3, HoldingCounted, AnswerTyped
        <5>2. TrafficTyped'
          BY <4>1, <4>3, HoldingCounted, AnswerTraffic
        <5>3. ConnTyped' /\ AwakeInv'
          BY <4>1, <4>2, <4>3, <5>1, Bounds DEF ConnTyped
        <5> QED
          BY <5>2, <5>3
      <4>4. CASE ~(sends /\ Works(active))
        <5>1. quiet' \in 0..IdleTimeout
          BY <3>2, <4>1, <4>4, Bounds DEF TrafficTyped
        <5>2. TrafficTyped'
          BY <4>1, <4>4, <5>1 DEF TrafficTyped
        <5>3. ConnTyped' /\ AwakeInv'
          BY <3>2, <4>1, <4>2, <4>4, <5>1, Bounds DEF TrafficTyped, ConnTyped
        <5> QED
          BY <5>2, <5>3
      <4> QED
        BY <4>3, <4>4
    <3> QED
      BY <3>1, <3>2
  <2> QED
    BY <2>1, <2>2, <2>4, <2>5
<1>21. CASE UNCHANGED vars
  BY <1>21, <1>1 DEF vars, NetTyped
<1> QED
  BY <1>2, <1>3, <1>4, <1>5, <1>6, <1>7, <1>8, <1>9, <1>10, <1>11, <1>12, <1>13, <1>14, <1>15,
     <1>16, <1>17, <1>18, <1>19, <1>20, <1>21 DEF Next, Network, Supervise, Migrate

-----------------------------------------------------------------------------
(* Sockets. *)

Open(s) == sock[s].buf \in {"armed", "disarmed"}

\* A step that opens no socket, takes none from the list and moves no migration on.
LEMMA Bystander ==
    ASSUME UplinkInv, prev' = prev, cur' = cur, closing' = "done" \/ closing # "done",
           \A g \in Mover : mig'[g].step = mig[g].step /\ mig'[g].sock = mig[g].sock,
           \A s \in Socket : sock'[s].buf \in {"armed", "disarmed"} => Open(s)
    PROVE  MoversInv' /\ SocketsHeld'
<1>1. MoversInv'
  BY DEF UplinkInv, MoversInv
<1>2. SocketsHeld'
  <2> SUFFICES ASSUME closing' # "done", NEW s \in Socket, sock'[s].buf \in {"armed", "disarmed"}
               PROVE  s \in prev' \cup {cur'} \cup {mig'[g].sock : g \in Mover}
    BY DEF SocketsHeld
  <2>1. s \in prev \cup {cur} \cup {mig[g].sock : g \in Mover}
    BY DEF UplinkInv, SocketsHeld, Open
  <2> QED
    BY <2>1
<1> QED
  BY <1>1, <1>2

\* A step of one migration: what it held is on the list from then on, or held still.
LEMMA MoverSteps ==
    ASSUME UplinkInv, NEW g \in Mover, closing' = closing,
           \A f \in Mover \ {g} : mig'[f] = mig[f],
           prev \cup {cur} \subseteq prev' \cup {cur'} \cup {mig'[g].sock},
           0 \in prev \cup {cur} => 0 \in prev' \cup {cur'},
           prev \subseteq prev',
           mig'[g].step = "idle" => mig'[g].sock = 0,
           mig'[g].step = "retire" => mig'[g].sock \in prev',
           closing # "done" => mig[g].sock \in prev' \cup {cur'} \cup {mig'[g].sock},
           \A s \in Socket : sock'[s].buf \in {"armed", "disarmed"} => Open(s) \/ s = mig'[g].sock
    PROVE  MoversInv' /\ SocketsHeld'
<1>1. MoversInv'
  BY DEF UplinkInv, MoversInv
<1>2. SocketsHeld'
  <2> SUFFICES ASSUME closing # "done", NEW s \in Socket, sock'[s].buf \in {"armed", "disarmed"}
               PROVE  s \in prev' \cup {cur'} \cup {mig'[f].sock : f \in Mover}
    BY DEF SocketsHeld
  <2>1. CASE s = mig'[g].sock
    BY <2>1
  <2>2. CASE s # mig'[g].sock
    <3>1. s \in prev \cup {cur} \cup {mig[f].sock : f \in Mover}
      BY <2>2 DEF UplinkInv, SocketsHeld, Open
    <3>2. CASE s \in prev \cup {cur}
      BY <2>2, <3>2
    <3>3. CASE \E f \in Mover : s = mig[f].sock
      <4>1. PICK f \in Mover : s = mig[f].sock
        BY <3>3
      <4>2. CASE f = g
        BY <2>2, <4>1, <4>2
      <4>3. CASE f # g
        BY <4>1, <4>3
      <4> QED
        BY <4>2, <4>3
    <3> QED
      BY <3>1, <3>2, <3>3
  <2> QED
    BY <2>1, <2>2
<1> QED
  BY <1>1, <1>2

LEMMA UplinkStep == UplinkInv /\ [Next]_vars => UplinkInv'
<1> SUFFICES ASSUME UplinkInv, [Next]_vars PROVE MoversInv' /\ SocketsHeld'
  BY TypesKept DEF UplinkInv
<1>a. ConnTyped /\ MoversTyped
  BY Parts DEF UplinkInv
<1>b. MoversInv
  BY DEF UplinkInv
<1>c. \A g \in Mover : mig[g].sock \in Socket /\ mig[g] \in Migration
  BY <1>a DEF MoversTyped, Migration
<1> USE DEF conn
<1>1. ASSUME sock' = sock, prev' = prev, cur' = cur, mig' = mig, closing' = closing
      PROVE  MoversInv' /\ SocketsHeld'
  BY <1>1, Bystander DEF Open
<1>2. CASE Network
  BY <1>2, <1>1 DEF Network, Move, LinkDown, LinkUp, MappingLost, Send
<1>3. CASE Watch \/ Notify \/ RunReturns \/ Cancel
  BY <1>3, <1>1 DEF Watch, Notify, RunReturns, Cancel
<1>4. CASE Tick
  <2>1. /\ sock' = sock /\ prev' = prev /\ cur' = cur /\ closing' = closing
        /\ mig' = [g \in Mover |-> [mig[g] EXCEPT !.age = IF mig[g].step = "probe"
                                                THEN Least(@ + 1, MigrateTimeout) ELSE @]]
    BY <1>4 DEF Tick
  <2>2. ASSUME NEW g \in Mover PROVE mig'[g].step = mig[g].step /\ mig'[g].sock = mig[g].sock
    <3> DEFINE a == IF mig[g].step = "probe" THEN Least(mig[g].age + 1, MigrateTimeout)
                    ELSE mig[g].age
    <3>1. mig'[g] = [mig[g] EXCEPT !.age = a]
      BY <2>1
    <3> HIDE DEF a
    <3> QED
      BY <1>c, <3>1 DEF Migration
  <2> QED
    BY <2>1, <2>2, Bystander DEF Open
<1>5. ASSUME NEW g \in Mover, NEW a \in Addr, mig[g].step = "idle", Begin(g, a),
             UNCHANGED <<prev, cur, closing>>
      PROVE  MoversInv' /\ SocketsHeld'
  <2>1. /\ \A f \in Mover \ {g} : mig'[f] = mig[f]
        /\ mig'[g] = mig[g] \/ mig'[g].step = "probe"
        /\ \A t \in Socket : sock'[t].buf \in {"armed", "disarmed"} => Open(t) \/ t = mig'[g].sock
    BY <1>5, <1>a, BeginTyped DEF ConnTyped, MoversTyped, Open
  <2>2. mig[g].sock = 0
    BY <1>5, <1>b DEF MoversInv
  <2>3. closing # "done" => mig[g].sock \in prev \cup {cur}
    BY <1>b, <2>2 DEF MoversInv
  <2> QED
    BY <1>5, <2>1, <2>2, <2>3, MoverSteps
<1>6. CASE Handle
  <2>1. Head(ch) \in Addr
    <3>1. WatcherTyped
      BY Parts DEF UplinkInv
    <3> QED
      BY <1>6, <3>1 DEF Handle, WatcherTyped, Channel
  <2>2. "handle" \in Mover
    BY DEF Mover
  <2> QED
    BY <1>5, <1>6, <2>1, <2>2 DEF Handle
<1>7. CASE WatchPath
  <2>1. "repair" \in Mover
    BY DEF Mover
  <2>2. CASE RepairDue /\ addr # None
    <3>1. Begin("repair", addr) /\ addr \in Addr
      <4>1. NetTyped
        BY Parts DEF UplinkInv
      <4> QED
        BY <1>7, <2>2, <4>1 DEF WatchPath, NetTyped
    <3> QED
      BY <1>5, <1>7, <2>1, <3>1 DEF WatchPath
  <2>3. CASE ~(RepairDue /\ addr # None)
    BY <1>1, <1>7, <2>3 DEF WatchPath
  <2> QED
    BY <2>2, <2>3
<1>8. ASSUME NEW g \in Mover, ProbeAnswered(g) PROVE MoversInv' /\ SocketsHeld'
  <2>1. /\ To(g, "switch") /\ UNCHANGED <<sock, cur, prev, closing>>
    BY <1>8 DEF ProbeAnswered
  <2>2. /\ mig'[g].step = "switch" /\ mig'[g].sock = mig[g].sock
        /\ \A f \in Mover \ {g} : mig'[f] = mig[f]
    BY <1>a, <2>1, StepTyped DEF MoversTyped
  <2> QED
    BY <2>1, <2>2, MoverSteps DEF Open
<1>9. ASSUME NEW g \in Mover, Abandon(g), UNCHANGED <<cur, closing>>
      PROVE  MoversInv' /\ SocketsHeld'
  <2>1. /\ prev' = prev \cup {mig[g].sock} /\ mig'[g].step = "idle" /\ mig'[g].sock = 0
        /\ \A f \in Mover \ {g} : mig'[f] = mig[f]
        /\ \A t \in Socket : sock'[t].buf \in {"armed", "disarmed"} <=> Open(t)
    BY <1>9, <1>a, AbandonTyped, RestingTyped DEF Open
  <2> QED
    BY <1>9, <2>1, MoverSteps
<1>10. ASSUME NEW g \in Mover, ProbeFails(g) PROVE MoversInv' /\ SocketsHeld'
  BY <1>9, <1>10 DEF ProbeFails
<1>11. ASSUME NEW g \in Mover, Switch(g) PROVE MoversInv' /\ SocketsHeld'
  <2>1. UNCHANGED <<cur, closing>>
    BY <1>11 DEF Switch
  <2>2. CASE Alive
    <3>1. To(g, "store") /\ UNCHANGED <<sock, prev>>
      BY <1>11, <2>2 DEF Switch
    <3>2. /\ mig'[g].step = "store" /\ mig'[g].sock = mig[g].sock
          /\ \A f \in Mover \ {g} : mig'[f] = mig[f]
      BY <1>a, <3>1, StepTyped DEF MoversTyped
    <3> QED
      BY <2>1, <3>1, <3>2, MoverSteps DEF Open
  <2>3. CASE ~Alive
    BY <1>9, <1>11, <2>1, <2>3 DEF Switch
  <2> QED
    BY <2>2, <2>3
<1>12. ASSUME NEW g \in Mover, Store(g) PROVE MoversInv' /\ SocketsHeld'
  \* Under the lock the socket that was in use goes to the list.
  <2> DEFINE m == [mig[g] EXCEPT !.step = "retire", !.sock = cur]
  <2>1. /\ prev' = prev \cup {cur} /\ cur' = mig[g].sock /\ mig' = [mig EXCEPT ![g] = m]
        /\ sock' = sock /\ closing' = closing
    BY <1>12, <1>a DEF Store, MoversTyped
  <2>2. m.step = "retire" /\ m.sock = cur
    BY <1>c DEF Migration
  <2> HIDE DEF m
  <2>3. mig'[g] = m /\ \A f \in Mover \ {g} : mig'[f] = mig[f]
    BY <1>a, <2>1 DEF MoversTyped
  <2> QED
    BY <2>1, <2>2, <2>3, MoverSteps DEF Open
<1>13. ASSUME NEW g \in Mover, Retire(g) PROVE MoversInv' /\ SocketsHeld'
  <2>1. /\ sock' = Retired(mig[g].sock) /\ mig' = [mig EXCEPT ![g] = Resting]
        /\ prev' = prev /\ cur' = cur /\ closing' = closing /\ mig[g].step = "retire"
    BY <1>13 DEF Retire
  <2>2. /\ mig'[g].step = "idle" /\ mig'[g].sock = 0 /\ \A f \in Mover \ {g} : mig'[f] = mig[f]
    BY <1>a, <2>1, RestingTyped DEF MoversTyped
  <2>3. \A t \in Socket : sock'[t].buf \in {"armed", "disarmed"} => Open(t)
    BY <1>a, <1>c, <2>1, DisarmTyped DEF Retired, ConnTyped, Open
  <2>4. closing # "done" => mig[g].sock \in prev /\ 0 \in prev \cup {cur}
    BY <1>b, <2>1 DEF MoversInv
  <2> QED
    BY <2>1, <2>2, <2>3, <2>4, MoverSteps
<1>14. CASE CloseSession
  BY <1>14, Bystander DEF CloseSession, Open
<1>15. CASE CloseTransports
  <2>1. closing' = "done" /\ mig' = mig
    BY <1>15 DEF CloseTransports
  <2> QED
    BY <1>b, <2>1 DEF MoversInv, SocketsHeld
<1>16. CASE UNCHANGED vars
  BY <1>1, <1>16 DEF vars
<1> QED
  BY <1>2, <1>3, <1>4, <1>6, <1>7, <1>8, <1>10, <1>11, <1>12, <1>13, <1>14, <1>15, <1>16
     DEF Next, Supervise, Migrate

LEMMA UplinkInvariant == Spec => []UplinkInv
BY UplinkInit, UplinkStep, PTL DEF Spec

\* Every variable keeps its type, for any number of sockets and whatever the times are: connection
\* ids, attempts and the times that are counted stay within the limits that the code sets them.
THEOREM TypeCorrect == Spec => []TypeOK
<1>1. UplinkInv => TypeOK
  BY DEF UplinkInv
<1> QED
  BY <1>1, UplinkInvariant, PTL

\* Whatever the two migrations, the loss of the session and its closing interleave, no open socket
\* is forgotten before Close has taken the list (quicconn/conn.go:115-160, :206).
THEOREM NoSocketLost == Spec => []SocketsHeld
<1>1. UplinkInv => SocketsHeld
  BY DEF UplinkInv
<1> QED
  BY <1>1, UplinkInvariant, PTL
-----------------------------------------------------------------------------
(* The way of a new address to the supervisor. *)

LEMMA NewestStep == TypeOK /\ NewestWaits /\ [Next]_vars => NewestWaits'
<1> SUFFICES ASSUME TypeOK, NewestWaits, [Next]_vars PROVE NewestWaits'
  OBVIOUS
<1>1. wlast # None /\ \A a \in Addr : a # None
  BY UplinkAssumption DEF TypeOK
<1>2. ASSUME UNCHANGED watcher PROVE NewestWaits'
  BY <1>2 DEF NewestWaits, watcher
<1>3. CASE Watch
  <2>1. CASE addr \in {None, wlast}
    BY <1>3, <2>1 DEF Watch, NewestWaits
  <2>2. CASE addr \notin {None, wlast}
    BY <1>3, <2>2 DEF Watch, NewestWaits
  <2> QED
    BY <2>1, <2>2
<1>4. CASE Notify
  <2>1. ch' = <<wsend>> /\ wsend # None /\ wsend' = None /\ wlast' = wlast
    BY <1>4 DEF Notify, Deliver
  <2>2. <<wsend>> # <<>> /\ Head(<<wsend>>) = wsend
    OBVIOUS
  <2> QED
    BY <2>1, <2>2 DEF NewestWaits
<1>5. CASE Handle
  BY <1>5 DEF Handle, NewestWaits
<1> QED
  BY <1>2, <1>3, <1>4, <1>5 DEF Next, Network, Supervise, Migrate, vars, Move, LinkDown, LinkUp,
     MappingLost, Send, RunReturns, WatchPath, Tick, Cancel, CloseSession, CloseTransports,
     ProbeAnswered, ProbeFails, Switch, Store, Retire

\* The machine's address is never lost on its way, however many changes come while a migration is
\* going on: it was taken up, or nobody is needed for that but the goroutines that have it
\* (netwatch.go:70-97, supervisor.go Run).  This is what SettlesOnAddress needs besides fairness.
THEOREM AddressNotLost == Spec => []AddressOnItsWay
<1>1. Init => NewestWaits
  BY DEF Init, NewestWaits
<1>2. TypeOK /\ NewestWaits => AddressOnItsWay
  <2> SUFFICES ASSUME TypeOK, NewestWaits, addr \notin {None, tried}, wlast = addr, wsend # addr
               PROVE  wsend = None /\ ch = <<addr>>
    BY DEF AddressOnItsWay
  <2>1. wsend = None /\ ch # <<>> /\ Head(ch) = addr
    BY DEF NewestWaits
  <2>2. PICK a \in Addr : ch = <<a>>
    BY <2>1 DEF TypeOK
  <2> QED
    BY <2>1, <2>2
<1> QED
  BY <1>1, <1>2, NewestStep, TypeCorrect, PTL DEF Spec

-----------------------------------------------------------------------------
(* The repair of a path that lost its mapping. *)

\* The address and the link are those of the last packet received, and the session goes on.
Steady == whole /\ Alive /\ ~cancelled

\* A probe that the node is about to answer, before another tick.
Young(g) == mig[g].step = "probe" /\ Reachable(g) /\ mig[g].age < MigrateTimeout
Awaited == \E g \in Mover : Young(g)

\* By when watchPath has noticed that nothing comes back: a PING was due, or a migration kept it
\* from reading and has ended.
Noticed == IF KeepAlive > MigrateTimeout THEN KeepAlive ELSE MigrateTimeout + 1

\* How far the silence has got, if no probe is awaited.
Clocks ==
    /\ unacked \/ quiet = 0 \/ quiet < KeepAlive
    /\ recvNew => quiet <= MigrateTimeout /\ ("path" \in due \/ quiet = 0)
    /\ ~recvNew /\ silent = 0 =>
          /\ quiet <= Noticed
          /\ (~sentNew \/ "path" \notin due) => quiet < Noticed
    /\ ~recvNew /\ silent > 0 => silent <= quiet + 1 /\ quiet <= Noticed + silent - 1
    /\ ~recvNew /\ "path" \notin due => silent <= SilenceLimit

\* A repair can begin as soon as it is due, and none has begun since the last packet.
Ready ==
    /\ ids > 0
    /\ Least(quiet, RepairEvery) <= rest
    /\ recvNew \/ tries = 0
    /\ mig["repair"].step # "idle" => recvNew
    /\ mig["repair"].step = "probe" => Least(quiet, MigrateTimeout) <= mig["repair"].age

GroundInv == whole => isp /\ addr \in Addr
OwnInv == \A g \in Mover : mig[g].step = "probe" => sock[mig[g].sock].buf # "none"
WatchInv == Steady => Awaited \/ (Clocks /\ Ready)

HealInv == GroundInv /\ OwnInv /\ WatchInv /\ MappingLossHealed

LEMMA Numbers ==
    ASSUME TypeOK
    PROVE  /\ quiet \in Nat /\ silent \in Nat /\ silent <= SilenceLimit + 1 /\ rest \in Nat
           /\ rest <= RepairEvery /\ tries \in Nat /\ ids \in Nat
           /\ \A g \in Mover : mig[g].age \in Nat /\ mig[g].age <= MigrateTimeout
BY Bounds DEF TypeOK

LEMMA TwoMovers ==
    /\ Cardinality(Holding) \in Nat /\ Cardinality(Holding) <= 2
    /\ \A g \in Mover : Cardinality(Holding \ {g}) \in Nat /\ Cardinality(Holding \ {g}) <= 2
<1>1. IsFiniteSet(Mover) /\ Cardinality(Mover) = 2
  <2>1. Mover = {"handle"} \cup {"repair"} /\ "repair" \notin {"handle"}
    BY DEF Mover
  <2>2. IsFiniteSet({"handle"}) /\ Cardinality({"handle"}) = 1
    BY FS_Singleton
  <2> QED
    BY <2>1, <2>2, FS_AddElement
<1>2. Holding \subseteq Mover /\ \A g \in Mover : Holding \ {g} \subseteq Mover
  BY DEF Holding
<1>3. \A S : S \subseteq Mover => Cardinality(S) \in Nat /\ Cardinality(S) <= 2
  BY <1>1, FS_Subset, FS_CardinalityType
<1> QED
  BY <1>2, <1>3

\* With a packet everything begins anew.
LEMMA Anew ==
    ASSUME RoomForRepair, TypeOK, TypeOK', NEW n \in Nat, n <= 2, Answered(n)
    PROVE  Clocks' /\ Ready'
<1>1. quiet' = 0 /\ recvNew' /\ ids' = MaxIds - n /\ ids' > 0
  BY Bounds DEF Answered, RoomForRepair
<1>2. rest' \in Nat /\ \A g \in Mover : (mig'[g]).age \in Nat
  BY Bounds DEF TypeOK
<1>3. \A b \in Nat : Least(0, b) = 0
  BY DEF Least
<1>4. Clocks'
  BY <1>1, Bounds DEF Clocks
<1>5. Ready'
  <2>1. "repair" \in Mover
    BY DEF Mover
  <2> QED
    BY <1>1, <1>2, <1>3, <2>1, Bounds DEF Ready
<1> QED
  BY <1>4, <1>5

\* A step that neither receives a packet nor lets time pass nor reads the counters.
LEMMA GoesOn ==
    ASSUME Clocks, Ready, UNCHANGED <<ids, quiet, rest, tries, recvNew, silent>>,
           "path" \in due' <=> "path" \in due, sentNew => sentNew', unacked => unacked',
           \/ mig'["repair"] = mig["repair"]
           \/ /\ mig'["repair"].step # "probe"
              /\ mig'["repair"].step # "idle" => mig["repair"].step # "idle"
    PROVE  Clocks' /\ Ready'
<1>1. Clocks'
  BY DEF Clocks, Noticed
<1>2. Ready'
  BY DEF Ready, Least
<1> QED
  BY <1>1, <1>2

\* A probe goes on being awaited while its migration, its socket's address and the network stay.
LEMMA StillAwaited ==
    ASSUME NEW g \in Mover, Young(g), mig'[g] = mig[g], sock'[mig[g].sock].at = sock[mig[g].sock].at,
           UNCHANGED <<isp, addr, died>>
    PROVE  Awaited'
<1>1. Young(g)'
  BY DEF Young, Reachable, Alive, Leaves
<1> QED
  BY <1>1 DEF Awaited
\* A migration that begins has a socket that nobody had, bound to the machine's address.
LEMMA BeginMakes ==
    ASSUME TypeOK, NEW g \in Mover, addr \in Addr, Begin(g, addr)
    PROVE  \E s \in Socket :
              /\ sock[s].buf = "none" /\ sock'[s].buf = "armed" /\ sock'[s].at = addr
              /\ \A t \in Socket \ {s} : sock'[t] = sock[t]
              /\ mig'[g].step = "probe" /\ mig'[g].sock = s /\ mig'[g].age = 0
              /\ mig'[g].id = (ids > 0)
              /\ \A f \in Mover \ {g} : mig'[f] = mig[f]
<1> DEFINE s == Lowest(Fresh)
           v == [at |-> addr, buf |-> "armed"]
           i == (ids > 0)
           m == [step |-> "probe", sock |-> s, age |-> 0, id |-> i]
<1>1. s \in Socket /\ sock[s].buf = "none"
  <2>1. Fresh \in SUBSET Nat /\ Fresh \subseteq Socket
    BY Bounds DEF Fresh, Socket
  <2>2. s \in Fresh
    BY <2>1, Lowermost DEF Begin
  <2> HIDE DEF s
  <2> QED
    BY <2>2 DEF Fresh
<1>2. sock' = [sock EXCEPT ![s] = v] /\ mig' = [mig EXCEPT ![g] = m]
  BY DEF Begin
<1>3. ConnTyped /\ MoversTyped
  BY Parts
<1> HIDE DEF s, i
<1>4. v.buf = "armed" /\ v.at = addr
  OBVIOUS
<1>5. m.step = "probe" /\ m.sock = s /\ m.age = 0 /\ m.id = i
  OBVIOUS
<1> HIDE DEF v, m
<1>6. sock'[s] = v /\ \A t \in Socket \ {s} : sock'[t] = sock[t]
  BY <1>1, <1>2, <1>3 DEF ConnTyped
<1>7. mig'[g] = m /\ \A f \in Mover \ {g} : mig'[f] = mig[f]
  BY <1>2, <1>3 DEF MoversTyped
<1> QED
  BY <1>1, <1>4, <1>5, <1>6, <1>7 DEF i

\* While the network stays, a migration that begins has an id to probe with, or another is about
\* to be answered.
LEMMA BeginAwaited ==
    ASSUME RoomForRepair, TypeOK, OwnInv, GroundInv, Steady, Awaited \/ ids > 0,
           NEW g \in Mover, mig[g].step = "idle", Begin(g, addr), UNCHANGED <<isp, addr, died>>
    PROVE  Awaited'
<1>0. isp /\ addr \in Addr /\ Alive
  BY DEF GroundInv, Steady
<1>1. PICK s \in Socket :
              /\ sock[s].buf = "none" /\ sock'[s].at = addr
              /\ \A t \in Socket \ {s} : sock'[t] = sock[t]
              /\ mig'[g].step = "probe" /\ mig'[g].sock = s /\ mig'[g].age = 0
              /\ mig'[g].id = (ids > 0)
              /\ \A f \in Mover \ {g} : mig'[f] = mig[f]
  BY <1>0, BeginMakes
<1>2. CASE ids > 0
  <2>1. mig'[g].id
    BY <1>1, <1>2
  <2>2. 0 < MigrateTimeout
    BY Bounds DEF RoomForRepair
  <2>3. mig'[g].step = "probe" /\ isp' /\ addr' = sock'[mig'[g].sock].at /\ died' = "no" /\ mig'[g].age < MigrateTimeout
    BY <1>0, <1>1, <2>2 DEF Alive
  <2>4. Young(g)'
    BY <2>1, <2>3 DEF Young, Reachable, Alive, Leaves
  <2> QED
    BY <2>4 DEF Awaited
<1>3. CASE Awaited
  <2>1. PICK f \in Mover : Young(f)
    BY <1>3 DEF Awaited
  <2>2. f # g /\ mig[f].step = "probe"
    BY <2>1 DEF Young
  <2>3. mig[f].sock # s /\ mig[f].sock \in Socket
    BY <1>1, <2>2 DEF OwnInv, TypeOK
  <2> QED
    BY <1>1, <2>1, <2>2, <2>3, StillAwaited
<1> QED
  BY <1>2, <1>3

\* No step closes the socket of a probe before it ends, or makes one of nothing.
LEMMA OwnStep ==
    ASSUME TypeOK, OwnInv, [Next]_vars, TypeOK'
    PROVE  OwnInv'
<1>a. ConnTyped /\ MoversTyped
  BY Parts
<1>b. \A g \in Mover : mig[g].sock \in Socket /\ mig[g] \in Migration
  BY <1>a DEF MoversTyped, Migration
<1>1. ASSUME \A s \in Socket : sock[s].buf # "none" => sock'[s].buf # "none",
             \A g \in Mover : mig'[g].step = "probe" => mig[g].step = "probe" /\ mig'[g].sock = mig[g].sock
      PROVE  OwnInv'
  BY <1>b, <1>1 DEF OwnInv
<1>2. ASSUME UNCHANGED <<sock, mig>> PROVE OwnInv'
  BY <1>2 DEF OwnInv
<1>3. ASSUME NEW g \in Mover, NEW a \in Addr, Begin(g, a) PROVE OwnInv'
  <2>1. CASE addr # a
    BY <1>2, <1>3, <2>1 DEF Begin
  <2>2. CASE addr = a
    <3>1. PICK s \in Socket :
              /\ sock[s].buf = "none" /\ sock'[s].buf = "armed"
              /\ \A t \in Socket \ {s} : sock'[t] = sock[t]
              /\ mig'[g].sock = s /\ \A f \in Mover \ {g} : mig'[f] = mig[f]
      BY <1>3, <2>2, BeginMakes
    <3> SUFFICES ASSUME NEW f \in Mover, mig'[f].step = "probe" PROVE sock'[mig'[f].sock].buf # "none"
      BY DEF OwnInv
    <3>2. CASE f = g
      BY <3>1, <3>2
    <3>3. CASE f # g
      <4>1. mig'[f] = mig[f] /\ sock[mig[f].sock].buf # "none" /\ mig[f].sock \in Socket
        BY <1>b, <3>1, <3>3 DEF OwnInv
      <4> QED
        BY <3>1, <4>1
    <3> QED
      BY <3>2, <3>3
  <2> QED
    BY <2>1, <2>2
<1>4. ASSUME NEW s \in Socket
      PROVE  \A t \in Socket : sock[t].buf # "none" => Disarm(s)[t].buf # "none"
  <2> DEFINE b == IF sock[s].buf = "armed" THEN "disarmed" ELSE sock[s].buf
             v == [sock[s] EXCEPT !.buf = b]
  <2>1. Disarm(s) = [sock EXCEPT ![s] = v]
    BY DEF Disarm
  <2>2. v.buf = b
    BY <1>a DEF ConnTyped, SocketType
  <2>3. sock[s].buf # "none" => b # "none"
    OBVIOUS
  <2> HIDE DEF b, v
  <2> QED
    BY <1>a, <2>1, <2>2, <2>3 DEF ConnTyped
<1>5. ASSUME NEW g \in Mover, mig' = [mig EXCEPT ![g] = Resting] PROVE
        \A f \in Mover : mig'[f].step = "probe" => mig[f].step = "probe" /\ mig'[f].sock = mig[f].sock
  BY <1>a, <1>5, RestingTyped DEF MoversTyped
<1>6. ASSUME NEW g \in Mover, NEW step \in {"switch", "store"}, To(g, step), mig[g].step # step
      PROVE  \A f \in Mover : mig'[f].step = "probe" => mig[f].step = "probe" /\ mig'[f].sock = mig[f].sock
  BY <1>a, <1>6, StepTyped DEF MoversTyped
<1>7. ASSUME NEW g \in Mover, Abandon(g) PROVE OwnInv'
  BY <1>1, <1>4, <1>5, <1>7, <1>b DEF Abandon
<1>8. ASSUME NEW g \in Mover, Migrate(g) PROVE OwnInv'
  <2>1. CASE ProbeAnswered(g)
    BY <1>1, <1>6, <2>1 DEF ProbeAnswered
  <2>2. CASE ProbeFails(g)
    BY <1>7, <2>2 DEF ProbeFails
  <2>3. CASE Switch(g)
    BY <1>1, <1>6, <1>7, <2>3 DEF Switch
  <2>4. CASE Store(g)
    <3> DEFINE m == [mig[g] EXCEPT !.step = "retire", !.sock = cur]
    <3>1. mig' = [mig EXCEPT ![g] = m] /\ sock' = sock
      BY <2>4 DEF Store
    <3>2. m.step = "retire"
      BY <1>b DEF Migration
    <3> HIDE DEF m
    <3> QED
      BY <1>1, <1>a, <3>1, <3>2 DEF MoversTyped
  <2>5. CASE Retire(g)
    <3>1. \A t \in Socket : sock[t].buf # "none" => sock'[t].buf # "none"
      BY <1>4, <1>b, <2>5 DEF Retire, Retired
    <3> QED
      BY <1>1, <1>5, <2>5, <3>1 DEF Retire
  <2> QED
    BY <1>8, <2>1, <2>2, <2>3, <2>4, <2>5 DEF Migrate
<1>9. CASE Network \/ RunReturns \/ Watch \/ Notify \/ Cancel \/ CloseSession \/ UNCHANGED vars
  BY <1>2, <1>9 DEF Network, Move, LinkDown, LinkUp, MappingLost, Send, RunReturns, Watch, Notify,
                    Cancel, CloseSession, vars, conn
<1>10. CASE Handle
  <2>1. Head(ch) \in Addr /\ "handle" \in Mover
    <3>1. WatcherTyped
      BY Parts
    <3> QED
      BY <1>10, <3>1 DEF Handle, WatcherTyped, Channel, Mover
  <2> QED
    BY <1>3, <1>10, <2>1 DEF Handle
<1>11. CASE WatchPath
  <2>1. CASE RepairDue /\ addr # None
    <3>1. Begin("repair", addr) /\ addr \in Addr /\ "repair" \in Mover
      BY <1>11, <2>1 DEF WatchPath, TypeOK, Mover
    <3> QED
      BY <1>3, <3>1
  <2>2. CASE ~(RepairDue /\ addr # None)
    BY <1>2, <1>11, <2>2 DEF WatchPath
  <2> QED
    BY <2>1, <2>2
<1>12. CASE Tick
  <2>1. sock' = sock
    BY <1>12 DEF Tick
  <2>2. ASSUME NEW g \in Mover PROVE mig'[g].step = mig[g].step /\ mig'[g].sock = mig[g].sock
    <3> DEFINE a == IF mig[g].step = "probe" THEN Least(mig[g].age + 1, MigrateTimeout)
                    ELSE mig[g].age
    <3>1. mig'[g] = [mig[g] EXCEPT !.age = a]
      BY <1>12 DEF Tick
    <3> HIDE DEF a
    <3> QED
      BY <1>b, <3>1 DEF Migration
  <2> QED
    BY <1>1, <2>1, <2>2
<1>13. CASE CloseTransports
  <2>1. mig' = mig
    BY <1>13 DEF CloseTransports
  <2>2. ASSUME NEW s \in Socket, sock[s].buf # "none" PROVE sock'[s].buf # "none"
    <3>1. sock'[s] = IF s \in prev \cup {cur} THEN [sock[s] EXCEPT !.buf = "closed"] ELSE sock[s]
      BY <1>13 DEF CloseTransports
    <3>2. [sock[s] EXCEPT !.buf = "closed"].buf = "closed"
      BY <1>a DEF ConnTyped, SocketType
    <3> QED
      BY <2>2, <3>1, <3>2
  <2> QED
    BY <1>1, <2>1, <2>2
<1> QED
  BY <1>8, <1>9, <1>10, <1>11, <1>12, <1>13 DEF Next, Supervise
\* What whole means, and when it may come true.
LEMMA WholeStep ==
    ASSUME TypeOK, [Next]_vars
    PROVE  \/ whole' = whole
           \/ ~whole'
           \/ isp' /\ addr' \in Addr /\ Alive /\ died' = died
<1>1. CASE Network
  <2>1. active \in Socket /\ sock[active].at \in Addr
    BY DEF TypeOK
  <2>2. CASE Send /\ Works(active)
    BY <2>1, <2>2 DEF Send, Works, Leaves, net
  <2>3. CASE Send /\ ~Works(active)
    BY <2>3 DEF Send
  <2>4. CASE Move \/ LinkDown \/ LinkUp \/ MappingLost
    BY <2>4 DEF Move, LinkDown, LinkUp, MappingLost, traffic
  <2> QED
    BY <1>1, <2>2, <2>3, <2>4 DEF Network
<1>2. ASSUME NEW g \in Mover, Migrate(g)
      PROVE  whole' = whole \/ (isp' /\ addr' \in Addr /\ Alive /\ died' = died)
  <2>1. mig[g].sock \in Socket /\ sock[mig[g].sock].at \in Addr
    BY DEF TypeOK
  <2> QED
    BY <1>2, <2>1 DEF Migrate, ProbeAnswered, ProbeFails, Switch, Store, Retire, traffic, Reachable, Leaves
<1>3. CASE Tick
  <2>1. active \in Socket /\ sock[active].at \in Addr
    BY DEF TypeOK
  <2>2. UNCHANGED <<addr, isp>>
    BY <1>3 DEF Tick, net
  <2>3. CASE ~Alive
    BY <1>3, <2>3 DEF Tick, traffic
  <2>4. CASE Alive
    <3>1. PICK sends \in Sends :
            IF sends /\ Works(active) THEN UNCHANGED died ELSE UNCHANGED whole
      BY <1>3, <2>4 DEF Tick
    <3> QED
      BY <2>1, <2>2, <2>4, <3>1 DEF Works, Leaves
  <2> QED
    BY <2>3, <2>4
<1>4. CASE Supervise \/ Watch \/ Notify \/ Cancel \/ CloseSession \/ CloseTransports \/ UNCHANGED vars
  BY <1>4 DEF Supervise, Handle, RunReturns, WatchPath, Watch, Notify, Cancel, CloseSession,
              CloseTransports, vars, traffic
<1> QED
  BY <1>1, <1>2, <1>3, <1>4 DEF Next

\* The network's state changes by what the network does, and only then.
LEMMA NetStep ==
    ASSUME [Next]_vars, ~Move, ~LinkDown, ~LinkUp
    PROVE  UNCHANGED <<addr, isp>>
BY DEF Next, Network, Supervise, Migrate, MappingLost, Send, Handle, RunReturns, WatchPath, Watch,
       Notify, Tick, ProbeAnswered, ProbeFails, Switch, Store, Retire, Cancel, CloseSession,
       CloseTransports, vars, net

LEMMA GroundStep ==
    ASSUME TypeOK, GroundInv, [Next]_vars
    PROVE  GroundInv'
<1>1. CASE Move \/ LinkDown
  BY <1>1 DEF Move, LinkDown, GroundInv
<1>2. CASE LinkUp
  BY <1>2 DEF LinkUp, GroundInv, traffic
<1>3. CASE ~Move /\ ~LinkDown /\ ~LinkUp
  BY <1>3, NetStep, WholeStep DEF GroundInv
<1> QED
  BY <1>1, <1>2, <1>3

\* A tick without an answer.
LEMMA TickClocks ==
    ASSUME RoomForRepair, TypeOK, HealInv, Steady, Tick, NEW sends \in Sends,
           quiet' = quiet + 1, sentNew' = (sentNew \/ sends), unacked' = (unacked \/ sends),
           UNCHANGED <<recvNew, ids>>
    PROVE  Clocks' /\ Ready' /\ quiet + 1 < IdleTimeout
<1> DEFINE R == mig["repair"]
<1>a. /\ quiet \in Nat /\ silent \in Nat /\ silent <= SilenceLimit + 1 /\ rest \in Nat
      /\ rest <= RepairEvery /\ R.age \in Nat /\ R.age <= MigrateTimeout /\ "repair" \in Mover
      /\ R.step \in {"idle", "probe", "switch", "store", "retire"} /\ R \in Migration
  BY Numbers DEF Mover, TypeOK, Migration
<1>b. Settled /\ ~cancelled /\ Alive
  BY DEF Tick, Steady
<1>1. Clocks /\ Ready
  BY <1>b DEF HealInv, WatchInv, Settled, Prompt, Awaited, Young
<1>2. \/ R.step = "idle" /\ "path" \notin due
      \/ R.step = "probe" /\ R.age < MigrateTimeout /\ recvNew
  BY <1>a, <1>b, <1>1, Bounds DEF Settled, Prompt, Free, Expired, Ready
<1>3. /\ silent' = IF silent = 0 THEN 0 ELSE Least(silent + 1, SilenceLimit + 1)
      /\ rest' = Least(rest + 1, RepairEvery) /\ "path" \in due' /\ tries' = tries
  BY <1>b DEF Tick
<1>4. mig'["repair"].step = R.step /\ mig'["repair"].age = IF R.step = "probe" THEN Least(R.age + 1, MigrateTimeout) ELSE R.age
  <2> DEFINE a == IF R.step = "probe" THEN Least(R.age + 1, MigrateTimeout) ELSE R.age
  <2>1. mig'["repair"] = [R EXCEPT !.age = a]
    BY <1>a DEF Tick
  <2> HIDE DEF a
  <2>2. mig'["repair"].step = R.step /\ mig'["repair"].age = a
    BY <1>a, <2>1 DEF Migration
  <2> QED
    BY <2>2 DEF a
<1>5. KeepAlive \in Nat /\ MigrateTimeout \in Nat /\ Noticed \in Nat /\ KeepAlive <= Noticed /\ MigrateTimeout < Noticed
      /\ Noticed + SilenceLimit < IdleTimeout /\ SilenceLimit \in Nat /\ IdleTimeout \in Nat /\ RepairEvery \in Nat
  BY Bounds DEF Noticed, RoomForRepair
<1> HIDE DEF R
\* When nothing has come back the time is that since the silence began.
<1>6. recvNew => quiet < MigrateTimeout \/ quiet = 0
  <2>1. CASE R.step = "probe" /\ R.age < MigrateTimeout
    BY <1>a, <1>1, <1>5, <2>1 DEF Ready, Least, R
  <2>2. CASE "path" \notin due
    BY <1>1, <2>2 DEF Clocks
  <2> QED
    BY <1>2, <2>1, <2>2
<1>7. ~recvNew => "path" \notin due /\ silent <= SilenceLimit
  BY <1>1, <1>2 DEF Clocks
<1>8. ~recvNew /\ silent = 0 => quiet < Noticed
  BY <1>1, <1>7 DEF Clocks
<1>9. ~recvNew /\ silent > 0 => silent <= quiet + 1 /\ quiet <= Noticed + silent - 1
  BY <1>1 DEF Clocks
<1>10. quiet + 1 < IdleTimeout
  BY <1>a, <1>5, <1>6, <1>7, <1>8, <1>9
<1>11. unacked' \/ quiet' < KeepAlive
  <2>1. CASE unacked \/ sends
    BY <2>1
  <2>2. CASE ~unacked /\ ~sends
    <3>1. sends <=> quiet + 1 >= KeepAlive
      BY <2>2, Zenon DEF Sends
    <3>2. ~(quiet + 1 >= KeepAlive)
      BY <2>2, <3>1, Zenon
    <3> QED
      BY <1>a, <1>5, <3>2
  <2> QED
    BY <2>1, <2>2
<1>12. recvNew' => quiet' <= MigrateTimeout
  BY <1>a, <1>5, <1>6 DEF RoomForRepair
<1>13. ~recvNew' /\ silent' = 0 => quiet' <= Noticed /\ (~sentNew' => quiet' < Noticed)
  <2> SUFFICES ASSUME ~recvNew, silent' = 0 PROVE quiet' <= Noticed /\ (~sentNew' => quiet' < Noticed)
    OBVIOUS
  <2>1. silent = 0
    BY <1>3, <1>a, <1>5 DEF Least
  <2>2. CASE unacked
    <3>1. sends = TRUE
      BY <2>1, <2>2 DEF Sends
    <3>2. sentNew'
      BY <3>1
    <3> QED
      BY <1>a, <1>5, <1>8, <2>1, <3>2
  <2>3. CASE ~unacked
    <3>1. sends <=> quiet + 1 >= KeepAlive
      BY <2>3, Zenon DEF Sends
    <3>2. ~sentNew' => ~(quiet + 1 >= KeepAlive)
      BY <3>1, Zenon
    <3> QED
      BY <1>a, <1>5, <1>8, <2>1, <3>2
  <2> QED
    BY <2>2, <2>3
<1>14. ~recvNew' /\ silent' > 0 => silent' <= quiet' + 1 /\ quiet' <= Noticed + silent' - 1
  BY <1>a, <1>3, <1>5, <1>7, <1>9 DEF Least
<1>15. Clocks'
  BY <1>3, <1>11, <1>12, <1>13, <1>14 DEF Clocks, Noticed
<1>16. Ready'
  <2>1. ids > 0 /\ Least(quiet, RepairEvery) <= rest /\ (recvNew \/ tries = 0)
        /\ (R.step # "idle" => recvNew)
        /\ (R.step = "probe" => Least(quiet, MigrateTimeout) <= R.age)
    BY <1>1 DEF Ready, R
  <2>2. Least(quiet', RepairEvery) <= rest'
    BY <1>a, <1>3, <1>5, <2>1 DEF Least
  <2>3. mig'["repair"].step = "probe" => Least(quiet', MigrateTimeout) <= mig'["repair"].age
    BY <1>a, <1>4, <1>5, <2>1 DEF Least
  <2> QED
    BY <1>3, <1>4, <2>1, <2>2, <2>3 DEF Ready
<1> QED
  BY <1>10, <1>15, <1>16

\* A reading of the counters that finds no repair due.
LEMMA ReadingClocks ==
    ASSUME RoomForRepair, TypeOK, Clocks, Ready, WatchPath, ~RepairDue
    PROVE  Clocks' /\ Ready'
<1>a. /\ quiet \in Nat /\ silent \in Nat /\ silent <= SilenceLimit + 1 /\ rest \in Nat
      /\ rest <= RepairEvery /\ tries \in Nat
  BY Numbers
<1>b. KeepAlive \in Nat /\ MigrateTimeout \in Nat /\ Noticed \in Nat /\ KeepAlive <= Noticed /\ MigrateTimeout < Noticed
      /\ SilenceLimit \in Nat /\ RepairEvery \in Nat /\ RepairEvery <= SilenceLimit /\ MaxRepairs \in Nat /\ MaxRepairs >= 1
  BY Bounds DEF Noticed, RoomForRepair
<1>1. /\ ~sentNew' /\ ~recvNew' /\ silent' = Since /\ tries' = Tries /\ "path" \notin due'
      /\ UNCHANGED <<rest, mig, ids, quiet, unacked>> /\ mig["repair"].step = "idle"
  BY DEF WatchPath
<1>2. CASE recvNew
  <2>1. silent' = 0 /\ tries' = 0
    BY <1>1, <1>2 DEF Since, Tries
  <2>2. quiet <= MigrateTimeout
    BY <1>2 DEF Clocks
  <2>3. Clocks'
    BY <1>1, <1>a, <1>b, <2>1, <2>2 DEF Clocks, Noticed
  <2> QED
    BY <1>1, <2>1, <2>3 DEF Ready, Least
<1>3. CASE ~recvNew
  <2>1. tries' = 0 /\ Tries = 0
    BY <1>1, <1>3 DEF Tries, Ready
  <2>2. silent' = IF sentNew /\ silent = 0 THEN 1 ELSE silent
    BY <1>1, <1>3 DEF Since
  <2>3. silent' = 0 => quiet < Noticed
    BY <1>3, <2>2 DEF Clocks
  <2>4. silent' > 0 => silent' <= quiet + 1 /\ quiet <= Noticed + silent' - 1
    <3>1. silent = 0 => quiet <= Noticed
      BY <1>3 DEF Clocks
    <3>2. silent > 0 => silent <= quiet + 1 /\ quiet <= Noticed + silent - 1
      BY <1>3 DEF Clocks
    <3> QED
      BY <1>a, <1>b, <2>2, <3>1, <3>2
  \* The silence has not lasted for long enough, or else the repair would be due.
  <2>5. silent' <= SilenceLimit
    <3> SUFFICES ASSUME silent' > SilenceLimit PROVE FALSE
      BY <1>a, <1>b, <2>2
    <3>1. Since > SilenceLimit /\ quiet >= SilenceLimit
      BY <1>1, <1>a, <1>b, <2>2, <2>4
    <3>2. rest >= RepairEvery
      BY <1>a, <1>b, <3>1 DEF Ready, Least
    <3> QED
      BY <1>b, <2>1, <3>1, <3>2 DEF RepairDue
  <2>6. Clocks'
    <3>1. unacked \/ quiet = 0 \/ quiet < KeepAlive
      BY DEF Clocks
    <3> QED
      BY <1>1, <1>a, <1>b, <2>3, <2>4, <2>5, <3>1 DEF Clocks, Noticed
  <2> QED
    BY <1>1, <2>1, <2>6 DEF Ready, Least
<1> QED
  BY <1>2, <1>3
\* While the network stays, a probe is awaited or the clocks are in order.
LEMMA WatchStep ==
    ASSUME RoomForRepair, TypeOK, TypeOK', HealInv, OwnInv', [Next]_vars
    PROVE  WatchInv'
<1> SUFFICES ASSUME Steady' PROVE Awaited' \/ (Clocks' /\ Ready')
  BY DEF WatchInv
<1>a. ConnTyped /\ MoversTyped /\ GroundInv /\ OwnInv /\ WatchInv
  BY Parts DEF HealInv
<1>b. \A g \in Mover : mig[g].sock \in Socket /\ mig[g] \in Migration
  BY <1>a DEF MoversTyped, Migration
<1>c. "repair" \in Mover /\ "handle" \in Mover
  BY DEF Mover
<1>d. whole' /\ died' = "no" /\ ~cancelled'
  BY DEF Steady, Alive
<1>1. ASSUME UNCHANGED <<isp, addr, died, whole, cancelled>>, UNCHANGED <<ids, quiet, rest, tries, recvNew, silent>>,
             "path" \in due' <=> "path" \in due, sentNew => sentNew', unacked => unacked',
             \A s \in Socket : sock'[s].at = sock[s].at,
             \A g \in Mover : \/ mig'[g] = mig[g]
                              \/ /\ ~Young(g) /\ mig'[g].step # "probe"
                                 /\ mig'[g].step # "idle" => mig[g].step # "idle"
      PROVE  Awaited' \/ (Clocks' /\ Ready')
  <2>1. Awaited \/ (Clocks /\ Ready)
    BY <1>a, <1>d, <1>1 DEF WatchInv, Steady, Alive
  <2>2. CASE Awaited
    <3>1. PICK g \in Mover : Young(g)
      BY <2>2 DEF Awaited
    <3> QED
      BY <1>1, <1>b, <3>1, StillAwaited
  <2>3. CASE Clocks /\ Ready
    BY <1>1, <1>c, <2>3, GoesOn
  <2> QED
    BY <2>1, <2>2, <2>3
<1>2. ASSUME UNCHANGED <<addr, isp, sock, mig, died, ids, quiet, recvNew, whole, rest, tries, silent, cancelled>>,
             "path" \in due' <=> "path" \in due, sentNew => sentNew', unacked => unacked'
      PROVE  Awaited' \/ (Clocks' /\ Ready')
  BY <1>1, <1>2
<1>3. CASE Network
  <2>1. CASE Move \/ LinkDown
    BY <1>d, <2>1 DEF Move, LinkDown
  <2>2. CASE LinkUp
    BY <1>a, <1>d, <2>2 DEF LinkUp, GroundInv, traffic
  <2>3. CASE MappingLost
    BY <1>2, <2>3 DEF MappingLost, conn, traffic, health
  <2>4. CASE Send /\ Works(active)
    BY <2>4, TwoMovers, Anew DEF Send
  <2>5. CASE Send /\ ~Works(active)
    BY <1>2, <2>5 DEF Send, Unanswered, net, health
  <2> QED
    BY <1>3, <2>1, <2>2, <2>3, <2>4, <2>5 DEF Network
<1>4. CASE Watch \/ Notify
  BY <1>2, <1>4 DEF Watch, Notify, net, conn, traffic, health
<1>5. CASE Cancel \/ CloseSession \/ RunReturns
  BY <1>5, <1>d DEF Cancel, CloseSession, RunReturns, Alive, conn
<1>6. CASE CloseTransports
  <2>1. ASSUME NEW s \in Socket PROVE sock'[s].at = sock[s].at
    <3>1. sock'[s] = IF s \in prev \cup {cur} THEN [sock[s] EXCEPT !.buf = "closed"] ELSE sock[s]
      BY <1>6 DEF CloseTransports
    <3>2. [sock[s] EXCEPT !.buf = "closed"].at = sock[s].at
      BY <1>a DEF ConnTyped, SocketType
    <3> QED
      BY <3>1, <3>2
  <2> QED
    BY <1>1, <1>6, <2>1 DEF CloseTransports, net, traffic, health
<1>7. CASE UNCHANGED vars
  BY <1>2, <1>7 DEF vars, net, conn, traffic, health
<1>8. ASSUME NEW s \in Socket, NEW t \in Socket PROVE Disarm(s)[t].at = sock[t].at
  <2> DEFINE b == IF sock[s].buf = "armed" THEN "disarmed" ELSE sock[s].buf
             v == [sock[s] EXCEPT !.buf = b]
  <2>1. Disarm(s) = [sock EXCEPT ![s] = v]
    BY DEF Disarm
  <2>2. v.at = sock[s].at
    BY <1>a DEF ConnTyped, SocketType
  <2> HIDE DEF b, v
  <2> QED
    BY <1>a, <2>1, <2>2 DEF ConnTyped
<1>9. ASSUME NEW g \in Mover, Migrate(g) PROVE Awaited' \/ (Clocks' /\ Ready')
  <2>1. CASE ProbeAnswered(g)
    BY <1>9, <2>1, TwoMovers, Anew DEF ProbeAnswered
  <2>2. CASE ProbeFails(g)
    <3>1. ~cancelled /\ mig[g].age = MigrateTimeout
      BY <1>d, <2>2 DEF ProbeFails, Expired
    <3>2. ~Young(g)
      BY <3>1, Bounds DEF Young
    <3>3. mig' = [mig EXCEPT ![g] = Resting] /\ \A s \in Socket : sock'[s].at = sock[s].at
      BY <1>8, <1>b, <2>2 DEF ProbeFails, Abandon
    <3>4. mig'[g].step = "idle" /\ \A f \in Mover \ {g} : mig'[f] = mig[f]
      BY <1>a, <3>3, RestingTyped DEF MoversTyped
    <3> QED
      BY <1>1, <2>2, <3>2, <3>3, <3>4 DEF ProbeFails, net, traffic, health
  <2>3. CASE Switch(g)
    <3>1. Alive /\ To(g, "store") /\ sock' = sock /\ mig[g].step = "switch"
      BY <1>d, <2>3 DEF Switch, Alive
    <3>2. mig'[g].step = "store" /\ \A f \in Mover \ {g} : mig'[f] = mig[f]
      BY <1>a, <3>1, StepTyped DEF MoversTyped
    <3>3. ~Young(g)
      BY <3>1 DEF Young
    <3> QED
      BY <1>1, <2>3, <3>1, <3>2, <3>3 DEF Switch, net, traffic, health
  <2>4. CASE Store(g)
    <3> DEFINE m == [mig[g] EXCEPT !.step = "retire", !.sock = cur]
    <3>1. mig' = [mig EXCEPT ![g] = m] /\ sock' = sock /\ mig[g].step = "store"
      BY <2>4 DEF Store
    <3>2. m.step = "retire"
      BY <1>b DEF Migration
    <3> HIDE DEF m
    <3>3. mig'[g].step = "retire" /\ \A f \in Mover \ {g} : mig'[f] = mig[f]
      BY <1>a, <3>1, <3>2 DEF MoversTyped
    <3>4. ~Young(g)
      BY <3>1 DEF Young
    <3> QED
      BY <1>1, <2>4, <3>1, <3>3, <3>4 DEF Store, net, traffic, health
  <2>5. CASE Retire(g)
    <3>1. mig' = [mig EXCEPT ![g] = Resting] /\ mig[g].step = "retire"
      BY <2>5 DEF Retire
    <3>2. \A s \in Socket : sock'[s].at = sock[s].at
      BY <1>8, <1>b, <2>5 DEF Retire, Retired
    <3>3. mig'[g].step = "idle" /\ \A f \in Mover \ {g} : mig'[f] = mig[f]
      BY <1>a, <3>1, RestingTyped DEF MoversTyped
    <3>4. ~Young(g)
      BY <3>1 DEF Young
    <3> QED
      BY <1>1, <2>5, <3>2, <3>1, <3>3, <3>4 DEF Retire, net, traffic, health
  <2> QED
    BY <1>9, <2>1, <2>2, <2>3, <2>4, <2>5 DEF Migrate
<1>10. ASSUME NEW g \in Mover, mig[g].step = "idle", Begin(g, addr), UNCHANGED <<isp, addr, died, whole, cancelled>>
       PROVE  Awaited'
  <2>1. Steady
    BY <1>d, <1>10 DEF Steady, Alive
  <2>2. Awaited \/ ids > 0
    BY <1>a, <2>1 DEF WatchInv, Ready
  <2> QED
    BY <1>10, <1>a, <2>1, <2>2, BeginAwaited
<1>11. CASE Handle
  <2>1. CASE addr = Head(ch)
    BY <1>10, <1>11, <1>c, <2>1 DEF Handle, net, traffic
  <2>2. CASE addr # Head(ch)
    BY <1>2, <1>11, <2>2 DEF Handle, Begin, net, traffic, health
  <2> QED
    BY <2>1, <2>2
<1>12. CASE WatchPath
  <2>1. UNCHANGED <<addr, isp, died, whole, cancelled>> /\ mig["repair"].step = "idle"
    BY <1>12 DEF WatchPath, net
  <2>2. addr \in Addr /\ addr # None /\ Steady
    BY <1>a, <1>d, <2>1, Bounds DEF GroundInv, Steady, Alive
  <2>3. CASE RepairDue
    <3>1. Begin("repair", addr)
      BY <1>12, <2>2, <2>3 DEF WatchPath
    <3> QED
      BY <1>10, <1>c, <2>1, <3>1
  <2>4. CASE ~RepairDue
    <3>1. Awaited \/ (Clocks /\ Ready)
      BY <1>a, <2>2 DEF WatchInv
    <3>2. CASE Awaited
      <4>1. PICK g \in Mover : Young(g)
        BY <3>2 DEF Awaited
      <4>2. UNCHANGED <<sock, mig>>
        BY <1>12, <2>4 DEF WatchPath
      <4> QED
        BY <2>1, <4>1, <4>2, StillAwaited
    <3>3. CASE Clocks /\ Ready
      BY <1>12, <2>4, <3>3, ReadingClocks
    <3> QED
      BY <3>1, <3>2, <3>3
  <2> QED
    BY <2>3, <2>4
<1>13. CASE Tick
  <2>1. Alive
    <3>1. died = "no" \/ died' = died
      BY <1>13 DEF Tick, Alive
    <3> QED
      BY <1>d, <3>1 DEF Alive
  <2>2. PICK sends \in Sends :
          IF sends /\ Works(active)
          THEN Answered(Cardinality(Holding))
          ELSE /\ quiet' = quiet + 1
               /\ sentNew' = (sentNew \/ sends) /\ unacked' = (unacked \/ sends)
               /\ UNCHANGED <<recvNew, whole, ids>>
    BY <1>13, <2>1 DEF Tick
  <2>3. CASE sends /\ Works(active)
    BY <2>2, <2>3, TwoMovers, Anew
  <2>4. CASE ~(sends /\ Works(active))
    <3>1. Steady
      BY <1>13, <1>d, <2>1, <2>2, <2>4 DEF Steady, Tick
    <3> QED
      BY <1>13, <2>2, <2>4, <3>1, TickClocks
  <2> QED
    BY <2>3, <2>4
<1> QED
  BY <1>3, <1>4, <1>5, <1>6, <1>7, <1>9, <1>11, <1>12, <1>13 DEF Next, Supervise

\* A session dies of idleness at a tick, and not while its repair is under way.
LEMMA HealedStep ==
    ASSUME RoomForRepair, TypeOK, HealInv, [Next]_vars
    PROVE  MappingLossHealed'
<1> SUFFICES ASSUME died' = "idle", ~cancelled', whole' PROVE FALSE
  BY DEF MappingLossHealed
<1>1. ~cancelled
  BY DEF Next, Network, Move, LinkDown, LinkUp, MappingLost, Send, Supervise, Handle, RunReturns,
         WatchPath, Watch, Notify, Tick, Migrate, ProbeAnswered, ProbeFails, Switch, Store, Retire,
         Cancel, CloseSession, CloseTransports, vars
<1>2. CASE died = "idle"
  <2>1. ~whole
    BY <1>1, <1>2 DEF HealInv, MappingLossHealed
  <2> QED
    BY <1>2, <2>1, WholeStep DEF Alive
<1>3. CASE died # "idle"
  <2>1. Tick
    BY <1>3 DEF Next, Network, Move, LinkDown, LinkUp, MappingLost, Send, Supervise, Handle,
           RunReturns, WatchPath, Watch, Notify, Migrate, ProbeAnswered, ProbeFails, Switch, Store,
           Retire, Cancel, CloseSession, CloseTransports, vars, conn
  <2>2. Alive
    BY <1>3, <2>1 DEF Tick
  <2>3. PICK sends \in Sends :
          IF sends /\ Works(active)
          THEN UNCHANGED died
          ELSE /\ quiet' = quiet + 1
               /\ sentNew' = (sentNew \/ sends) /\ unacked' = (unacked \/ sends)
               /\ died' = IF quiet + 1 >= IdleTimeout THEN "idle" ELSE died
               /\ UNCHANGED <<recvNew, whole, ids>>
    BY <2>1, <2>2 DEF Tick
  <2>4. ~(sends /\ Works(active)) /\ quiet + 1 >= IdleTimeout
    BY <1>3, <2>3
  <2>5. Steady
    BY <1>1, <2>2, <2>3, <2>4 DEF Steady
  <2>6. quiet + 1 < IdleTimeout
    BY <2>1, <2>3, <2>4, <2>5, TickClocks
  <2> QED
    BY <2>4, <2>6, Numbers, Bounds
<1> QED
  BY <1>2, <1>3

LEMMA HealInit == RoomForRepair /\ Init => HealInv
<1> SUFFICES ASSUME RoomForRepair, Init PROVE HealInv
  OBVIOUS
<1>1. Resting.step = "idle" /\ \A g \in Mover : mig[g] = Resting
  BY DEF Init, Resting
<1>2. /\ ids = MaxIds /\ quiet = 0 /\ unacked = FALSE /\ recvNew = FALSE /\ silent = 0 /\ rest = RepairEvery
      /\ due = {} /\ tries = 0 /\ sentNew = FALSE
  BY DEF Init
<1>3. Noticed > 0 /\ Noticed \in Nat
  BY Bounds DEF Noticed
<1>4. Clocks
  BY <1>2, <1>3, Bounds DEF Clocks
<1>5. Ready
  <2>1. "repair" \in Mover
    BY DEF Mover
  <2>2. Least(0, RepairEvery) = 0
    BY Bounds DEF Least
  <2> QED
    BY <1>1, <1>2, <2>1, <2>2, Bounds DEF Ready, RoomForRepair
<1>6. GroundInv /\ OwnInv /\ MappingLossHealed
  BY <1>1 DEF Init, GroundInv, OwnInv, MappingLossHealed
<1> QED
  BY <1>4, <1>5, <1>6 DEF HealInv, WatchInv

\* If the times leave room for it, a lost mapping is noticed and repaired before the idle timeout
\* as long as address and link stay, whatever outages, moves and repairs came before, for any
\* number of sockets, addresses and faults (health.go:59-93, supervisor.go:79-97).
THEOREM LossHealed == ASSUME RoomForRepair PROVE Spec => []MappingLossHealed
<1>1. Init => HealInv
  BY HealInit
<1>2. UplinkInv /\ UplinkInv' /\ HealInv /\ [Next]_vars => HealInv'
  <2> SUFFICES ASSUME UplinkInv, UplinkInv', HealInv, [Next]_vars PROVE HealInv'
    OBVIOUS
  <2>1. TypeOK /\ TypeOK'
    BY DEF UplinkInv
  <2>2. GroundInv'
    BY <2>1, GroundStep DEF HealInv
  <2>3. OwnInv'
    BY <2>1, OwnStep DEF HealInv
  <2>4. WatchInv'
    BY <2>1, <2>3, WatchStep
  <2>5. MappingLossHealed'
    BY <2>1, HealedStep
  <2> QED
    BY <2>2, <2>3, <2>4, <2>5 DEF HealInv
<1>3. HealInv => MappingLossHealed
  BY DEF HealInv
<1> QED
  BY <1>1, <1>2, <1>3, UplinkInvariant, PTL DEF Spec
=============================================================================
