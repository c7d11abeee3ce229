------------------------------- MODULE Uplink -------------------------------
(***************************************************************************)
(* One QUIC session of the client and what keeps it alive: the watcher of  *)
(* the network (netwatch), the supervisor with its two goroutines, one     *)
(* that follows changes of the address and one that repairs a silent path  *)
(* (supervisor.go, health.go), and the connection they both migrate        *)
(* (quicconn/conn.go).  Around them the network: the machine's address,    *)
(* the link beyond the router, and the NAT mapping of each socket.         *)
(*                                                                         *)
(* Time goes by in ticks of about five seconds.  What takes less than a    *)
(* tick, a reading of a ticker or a round trip over a path that works,     *)
(* comes before the next Tick.  A packet sent over a working path is       *)
(* answered.  The session's idle time is counted from the last packet      *)
(* received: quic-go counts it from the first one sent after that, later.  *)
(***************************************************************************)
EXTENDS Naturals, Sequences, FiniteSets

CONSTANTS
    Addr, None,     \* addresses the machine may have; no address
    MaxSockets,     \* bound: sockets opened by migrations
    Budgets,        \* bounds of a behaviour: moves of the machine, faults of the link
    MaxIds,         \* connection ids the node gives out in advance
    KeepAlive,      \* KeepAlivePeriod, in ticks, as are the next four
    SilenceLimit,   \* Config.SilenceLimit
    RepairEvery,    \* Config.RepairEvery
    MigrateTimeout, \* Config.MigrateTimeout
    IdleTimeout,    \* MaxIdleTimeout
    MaxRepairs      \* Config.MaxRepairs

ASSUME UplinkAssumption ==
    /\ None \notin Addr
    /\ Budgets \subseteq [moves : Nat, faults : Nat]
    /\ {MaxSockets, MaxIds, KeepAlive, SilenceLimit, RepairEvery, MigrateTimeout,
        MaxRepairs} \subseteq Nat /\ IdleTimeout \in Nat \ {0}

VARIABLES
    addr,           \* address the machine sends from, or None
    isp,            \* the router has a link
    mapped,         \* sockets with a mapping in the router's NAT table
    left,           \* what is left of the budget
    sock,           \* sock[s]: address it is bound to, and its buffers
    active,         \* the socket QUIC sends on
    cur,            \* Conn.tr
    prev,           \* Conn.prev
    ids,            \* spare connection ids
    quiet,          \* ticks since a packet was received
    died,           \* "no", "idle" or "closed": the session's context
    closing,        \* Conn.Close: "no", "locked" (before its lock), "done"
    wlast, wsend,   \* netwatch: last, and the state it is about to send
    ch,             \* the channel to the supervisor, of capacity 1
    run,            \* Supervisor.Run: "loop", or what it returned, "dead" or "stopped"
    cancelled,      \* the context of the session is
    silent,         \* silentSince: 0, or 1 + the ticks since then
    rest,           \* ticks since lastRepair
    tries,          \* watchPath's tries
    due,            \* which of the two tickers, "watch" and "path", have fired
    mig,            \* the migrations of "handle" and of "repair"
    sentNew,        \* packets sent since watchPath's last reading
    recvNew,        \* packets received since then
    unacked,        \* packets sent since one was received
    whole,          \* history: address and link have stayed since a packet was received
    tried           \* history: the last address handle has taken up

net == <<addr, isp, mapped, left>>
conn == <<sock, active, cur, prev, ids, died, closing>>
traffic == <<quiet, sentNew, recvNew, unacked, whole>>
watcher == <<wlast, wsend, ch, tried>>
health == <<silent, rest, tries>>
vars == <<net, conn, traffic, watcher, run, cancelled, health, due, mig>>

Socket == 0..MaxSockets
Mover == {"handle", "repair"}
Resting == [step |-> "idle", sock |-> 0, age |-> 0, id |-> FALSE]
Alive == died = "no"

TypeOK ==
    /\ addr \in Addr \cup {None} /\ isp \in BOOLEAN /\ mapped \subseteq Socket
    /\ left \in [moves : Nat, faults : Nat]
    /\ sock \in [Socket -> [at : Addr, buf : {"none", "armed", "disarmed", "closed"}]]
    /\ active \in Socket /\ cur \in Socket /\ prev \subseteq Socket /\ ids \in 0..MaxIds
    /\ quiet \in 0..IdleTimeout /\ died \in {"no", "idle", "closed"}
    /\ closing \in {"no", "locked", "done"}
    /\ wlast \in Addr /\ wsend \in Addr \cup {None} /\ ch \in {<<>>} \cup {<<a>> : a \in Addr}
    /\ run \in {"loop", "dead", "stopped"} /\ cancelled \in BOOLEAN
    /\ silent \in 0..(SilenceLimit + 1) /\ rest \in 0..RepairEvery /\ tries \in 0..MaxRepairs
    /\ due \subseteq {"watch", "path"}
    /\ mig \in [Mover -> [step : {"idle", "probe", "switch", "store", "retire"}, sock : Socket,
                          age : 0..MigrateTimeout, id : BOOLEAN]]
    /\ {sentNew, recvNew, unacked, whole} \subseteq BOOLEAN /\ tried \in Addr

\* Dial has opened the session from the address the machine has; New has started nothing yet.
Init ==
    /\ addr \in Addr /\ isp = TRUE /\ mapped = {0} /\ left \in Budgets
    /\ sock = [s \in Socket |-> [at |-> addr, buf |-> IF s = 0 THEN "armed" ELSE "none"]]
    /\ active = 0 /\ cur = 0 /\ prev = {} /\ ids = MaxIds
    /\ quiet = 0 /\ died = "no" /\ closing = "no"
    /\ wlast = addr /\ wsend = None /\ ch = <<>> /\ tried = addr
    /\ run = "loop" /\ cancelled = FALSE
    /\ silent = 0 /\ rest = RepairEvery /\ tries = 0 /\ due = {}
    /\ mig = [g \in Mover |-> Resting]
    /\ sentNew = FALSE /\ recvNew = FALSE /\ unacked = FALSE /\ whole = TRUE
-----------------------------------------------------------------------------
(***************************************************************************)
(* The network                                                             *)
(***************************************************************************)

\* The machine moves to another network, or to none, or comes back.
Move ==
    /\ left.moves > 0
    /\ addr' \in (Addr \cup {None}) \ {addr}
    /\ left' = [left EXCEPT !.moves = @ - 1] /\ whole' = FALSE
    /\ UNCHANGED <<isp, mapped, conn, quiet, sentNew, recvNew, unacked, watcher, run, cancelled,
                   health, due, mig>>

\* The link breaks.
LinkDown ==
    /\ left.faults > 0 /\ isp
    /\ isp' = FALSE /\ left' = [left EXCEPT !.faults = @ - 1] /\ whole' = FALSE
    /\ UNCHANGED <<addr, mapped, conn, quiet, sentNew, recvNew, unacked, watcher, run, cancelled,
                   health, due, mig>>

\* The link is rebuilt, with the old mappings or without.
LinkUp ==
    /\ ~isp
    /\ isp' = TRUE /\ mapped' \in {mapped, {}}
    /\ UNCHANGED <<addr, left, conn, traffic, watcher, run, cancelled, health, due, mig>>

\* The router forgets its mappings while the link stays.
MappingLost ==
    /\ left.faults > 0 /\ isp /\ mapped # {}
    /\ mapped' = {} /\ left' = [left EXCEPT !.faults = @ - 1]
    /\ UNCHANGED <<addr, isp, conn, traffic, watcher, run, cancelled, health, due, mig>>

\* A packet from this socket comes out on the other side of the router.
Leaves(s) == isp /\ addr = sock[s].at
Works(s) == Leaves(s) /\ s \in mapped

\* A packet has been received: the node's answer, and with it fresh connection ids.
Answered(probes) ==
    /\ quiet' = 0 /\ recvNew' = TRUE /\ unacked' = FALSE /\ whole' = TRUE
    /\ ids' = IF MaxIds > probes THEN MaxIds - probes ELSE 0
Unanswered == sentNew' = TRUE /\ unacked' = TRUE
Holding == {g \in Mover : mig[g].step = "probe" /\ mig[g].id}

\* Packets of the applications.
Send ==
    /\ Alive /\ ~(recvNew /\ sentNew /\ quiet = 0 /\ whole)
    /\ IF Works(active)
       THEN Answered(Cardinality(Holding)) /\ sentNew' = TRUE
       ELSE Unanswered /\ UNCHANGED <<quiet, recvNew, whole, ids>>
    /\ UNCHANGED <<net, sock, active, cur, prev, died, closing, watcher, run, cancelled, health,
                   due, mig>>
-----------------------------------------------------------------------------
(***************************************************************************)
(* Conn.Migrate, called by handle and by repair                            *)
(***************************************************************************)

\* The socket and its path; without a spare id the path can be added but not probed.
\* ListenUDP fails for an address that is gone; AddPath does not fail.
Fresh == {s \in Socket : sock[s].buf = "none"}
Lowest(S) == CHOOSE s \in S : \A t \in S : s <= t
Begin(g, a) ==
    IF addr # a THEN UNCHANGED <<sock, mig, ids>>
    ELSE /\ Fresh # {}
         /\ sock' = [sock EXCEPT ![Lowest(Fresh)] = [at |-> a, buf |-> "armed"]]
         /\ mig' = [mig EXCEPT ![g] = [step |-> "probe", sock |-> Lowest(Fresh), age |-> 0,
                                       id |-> ids > 0]]
         /\ ids' = IF ids > 0 THEN ids - 1 ELSE 0

To(g, step) == mig' = [mig EXCEPT ![g].step = step]
Disarm(s) == [sock EXCEPT ![s].buf = IF @ = "armed" THEN "disarmed" ELSE @]
Reachable(g) == Alive /\ mig[g].id /\ Leaves(mig[g].sock)

\* path.Probe: the path is validated, and a packet has been received over it.
ProbeAnswered(g) ==
    /\ mig[g].step = "probe" /\ Reachable(g)
    /\ mapped' = mapped \cup {mig[g].sock}
    /\ To(g, "switch")
    /\ Answered(Cardinality(Holding \ {g})) /\ sentNew' = TRUE
    /\ UNCHANGED <<addr, isp, left, sock, active, cur, prev, died, closing, watcher, run,
                   cancelled, health, due>>

\* Wrong: the socket of a failed migration is left to itself.
AbandonUnkept(g) ==
    /\ sock' = Disarm(mig[g].sock) /\ prev' = prev
    /\ mig' = [mig EXCEPT ![g] = Resting]

\* abandon: the path is given up; its socket stays till Close, with small buffers.
Abandon(g) ==
    /\ sock' = Disarm(mig[g].sock)
    /\ prev' = prev \cup {mig[g].sock}
    /\ mig' = [mig EXCEPT ![g] = Resting]

\* Wrong: a migration waits for its answer for as long as it takes.
NeverExpires(g) == cancelled

\* The context of the migration is over: its time is up, or the session was stopped.
Expired(g) == cancelled \/ mig[g].age = MigrateTimeout

ProbeFails(g) ==
    /\ mig[g].step = "probe" /\ Expired(g)
    /\ Abandon(g)
    /\ UNCHANGED <<net, active, cur, ids, died, closing, traffic, watcher, run, cancelled, health,
                   due>>

\* path.Switch: from here on QUIC sends on the new socket.
Switch(g) ==
    /\ mig[g].step = "switch"
    /\ IF Alive
       THEN active' = mig[g].sock /\ To(g, "store") /\ UNCHANGED <<sock, prev>>
       ELSE Abandon(g) /\ UNCHANGED active
    /\ UNCHANGED <<net, cur, ids, died, closing, traffic, watcher, run, cancelled, health, due>>

\* Under the lock.  From here on mig[g].sock is the socket that was left.
Store(g) ==
    /\ mig[g].step = "store"
    /\ prev' = prev \cup {cur} /\ cur' = mig[g].sock
    /\ mig' = [mig EXCEPT ![g].step = "retire", ![g].sock = cur]
    /\ UNCHANGED <<net, sock, active, ids, died, closing, traffic, watcher, run, cancelled, health,
                   due>>

\* retire: Path.Close fails for the path in use; the first socket has no Path to ask.
Retired(s) == IF s # 0 /\ s = active THEN sock ELSE Disarm(s)

Retire(g) ==
    /\ mig[g].step = "retire"
    /\ sock' = Retired(mig[g].sock)
    /\ mig' = [mig EXCEPT ![g] = Resting]
    /\ UNCHANGED <<net, active, cur, prev, ids, died, closing, traffic, watcher, run, cancelled,
                   health, due>>

\* CloseWithError, by whoever ran the session: it was stopped, or it is dead.
CloseSession ==
    /\ closing = "no" /\ run # "loop"
    /\ closing' = "locked"
    /\ died' = IF Alive THEN "closed" ELSE died
    /\ UNCHANGED <<net, sock, active, cur, prev, ids, traffic, watcher, run, cancelled, health, due,
                   mig>>

\* The transports that Close finds under the lock are closed.
CloseTransports ==
    /\ closing = "locked"
    /\ closing' = "done"
    /\ sock' = [s \in Socket |-> IF s \in prev \cup {cur} THEN [sock[s] EXCEPT !.buf = "closed"]
                                 ELSE sock[s]]
    /\ prev' = {}
    /\ UNCHANGED <<net, active, cur, ids, died, traffic, watcher, run, cancelled, health, due, mig>>
-----------------------------------------------------------------------------
(***************************************************************************)
(* The watcher and the supervisor                                          *)
(***************************************************************************)

\* Watcher.Run: one reading.  While it waits to send, its ticker keeps one firing.
Watch ==
    /\ "watch" \in due /\ wsend = None /\ ~cancelled
    /\ due' = due \ {"watch"}
    /\ IF addr \in {None, wlast} THEN UNCHANGED <<wlast, wsend>>
       ELSE wlast' = addr /\ wsend' = addr
    /\ UNCHANGED <<net, conn, traffic, ch, tried, run, cancelled, health, mig>>

\* Wrong: the state is thrown away when the supervisor has not taken the last one.
DeliverOrDrop ==
    /\ wsend # None
    /\ ch' = IF ch = <<>> THEN <<wsend>> ELSE ch

Deliver ==
    /\ wsend # None /\ ch = <<>>
    /\ ch' = <<wsend>>

Notify ==
    /\ ~cancelled /\ Deliver
    /\ wsend' = None
    /\ UNCHANGED <<net, conn, traffic, wlast, tried, run, cancelled, health, due, mig>>

\* Run takes up a change of the network: handle migrates, and Run is inside it meanwhile.
Handle ==
    /\ run = "loop" /\ mig["handle"].step = "idle" /\ ch # <<>>
    /\ ch' = <<>> /\ tried' = Head(ch)
    /\ Begin("handle", Head(ch))
    /\ UNCHANGED <<net, active, cur, prev, died, closing, traffic, wlast, wsend, run, cancelled,
                   health, due>>

RunReturns ==
    /\ run = "loop" /\ mig["handle"].step = "idle"
    /\ \/ cancelled /\ run' = "stopped"
       \/ ~Alive /\ run' = "dead"
    /\ UNCHANGED <<net, conn, traffic, watcher, cancelled, health, due, mig>>

\* The user disconnects: the watcher's and the supervisor's goroutines end.
Cancel ==
    /\ ~cancelled
    /\ cancelled' = TRUE /\ due' = {}
    /\ UNCHANGED <<net, conn, traffic, watcher, run, health, mig>>

\* watchPath's reading of the counters: silentSince.
Since == IF recvNew THEN 0 ELSE IF sentNew /\ silent = 0 THEN 1 ELSE silent

\* Wrong: the attempts are spent once and for all.
TriesSpent == tries

\* The attempts made since a packet was received.
Tries == IF recvNew THEN 0 ELSE tries

RepairDue == Since > SilenceLimit /\ rest >= RepairEvery /\ Tries < MaxRepairs

\* watchPath, with repair when it is due.  An attempt counts also where there is no address.
WatchPath ==
    /\ "path" \in due /\ mig["repair"].step = "idle" /\ ~cancelled
    /\ due' = due \ {"path"}
    /\ sentNew' = FALSE /\ recvNew' = FALSE
    /\ silent' = Since
    /\ IF RepairDue
       THEN /\ rest' = 0 /\ tries' = Tries + 1
            /\ IF addr = None THEN UNCHANGED <<sock, mig, ids>> ELSE Begin("repair", addr)
       ELSE /\ tries' = Tries /\ UNCHANGED <<rest, sock, mig, ids>>
    /\ UNCHANGED <<net, active, cur, prev, died, closing, quiet, unacked, whole, watcher, run,
                   cancelled>>
-----------------------------------------------------------------------------
(***************************************************************************)
(* Time                                                                    *)
(***************************************************************************)

\* Nothing is left that takes less than a tick.
Prompt(g) ==
    \/ mig[g].step \in {"switch", "store", "retire"}
    \/ mig[g].step = "probe" /\ (Expired(g) \/ Reachable(g))
Free(g) == mig[g].step = "idle"
Settled ==
    /\ \A g \in Mover : ~Prompt(g)
    /\ \/ cancelled
       \/ /\ "watch" \in due => wsend # None
          /\ wsend # None => ch # <<>>
          /\ "path" \in due => ~Free("repair")
    /\ run = "loop" /\ Free("handle") => ch = <<>> /\ ~cancelled /\ Alive

Least(a, b) == IF a < b THEN a ELSE b

\* What may be sent in a tick: a PING after KeepAlive ticks without an answer, and what is
\* unanswered again, at first several times a tick, and later at intervals that grow.
Sends == IF ~unacked THEN {quiet + 1 >= KeepAlive} ELSE IF silent = 0 THEN {TRUE} ELSE BOOLEAN
Tick ==
    /\ Settled
    /\ mig' = [g \in Mover |-> [mig[g] EXCEPT !.age = IF mig[g].step = "probe"
                                                     THEN Least(@ + 1, MigrateTimeout) ELSE @]]
    /\ rest' = Least(rest + 1, RepairEvery)
    /\ silent' = IF silent = 0 THEN 0 ELSE Least(silent + 1, SilenceLimit + 1)
    /\ due' = IF cancelled THEN {} ELSE {"watch", "path"}
    /\ IF ~Alive THEN UNCHANGED <<traffic, ids, died>>
       ELSE \E sends \in Sends :
            IF sends /\ Works(active)
            THEN Answered(Cardinality(Holding)) /\ sentNew' = TRUE /\ UNCHANGED died
            ELSE /\ quiet' = quiet + 1
                 /\ sentNew' = (sentNew \/ sends) /\ unacked' = (unacked \/ sends)
                 /\ died' = IF quiet + 1 >= IdleTimeout THEN "idle" ELSE died
                 /\ UNCHANGED <<recvNew, whole, ids>>
    /\ UNCHANGED <<net, sock, active, cur, prev, closing, watcher, run, cancelled, tries>>
-----------------------------------------------------------------------------
Network == Move \/ LinkDown \/ LinkUp \/ MappingLost \/ Send
Migrate(g) == ProbeAnswered(g) \/ ProbeFails(g) \/ Switch(g) \/ Store(g) \/ Retire(g)
Supervise == Handle \/ RunReturns \/ WatchPath
Next ==
    \/ Network \/ Supervise \/ Watch \/ Notify \/ Tick
    \/ \E g \in Mover : Migrate(g)
    \/ Cancel \/ CloseSession \/ CloseTransports

\* Time passes and every goroutine runs on; the network and the user owe nothing.
Fairness ==
    /\ WF_vars(Tick) /\ WF_vars(Watch) /\ WF_vars(Notify)
    /\ WF_vars(Handle) /\ WF_vars(RunReturns) /\ WF_vars(WatchPath)
    /\ \A g \in Mover : WF_vars(Migrate(g))
    /\ WF_vars(CloseSession) /\ WF_vars(CloseTransports)

Spec == Init /\ [][Next]_vars
FairSpec == Spec /\ Fairness
-----------------------------------------------------------------------------
(***************************************************************************)
(* Properties                                                              *)
(***************************************************************************)

\* Every open socket is known to the connection, or to a migration that runs, until Close has
\* taken the list: no migration, failed or overtaken by another, leaves one behind.
SocketsHeld ==
    closing # "done" =>
        \A s \in Socket : sock[s].buf \in {"armed", "disarmed"} =>
            s \in prev \cup {cur} \cup {mig[g].sock : g \in Mover}

\* The session does not die of what it is there to survive: as long as the machine keeps its
\* address and the link stays, a lost NAT mapping is noticed and repaired before the idle
\* timeout, whatever the outages before it have used up (health.go:59-93).
MappingLossHealed == died = "idle" /\ ~cancelled => ~whole

\* Times that leave room for it, as those of the code do: a PING is sent, a migration that is going
\* on ends, the silence is borne, and the idle timeout is not over yet.
RoomForRepair ==
    /\ MaxIds >= 3 /\ MaxRepairs >= 1 /\ MigrateTimeout >= 1 /\ RepairEvery <= SilenceLimit
    /\ KeepAlive + SilenceLimit < IdleTimeout
    /\ MigrateTimeout + 1 + SilenceLimit < IdleTimeout

\* When the network has come to rest the supervisor has tried the address the machine has now,
\* also when it changed several times while a migration was going on (netwatch.go:85-93).
SettlesOnAddress == <>[](~Alive \/ cancelled \/ addr \in {None, tried})

\* Until then the address is known to whoever must act next: the watcher will see it with its next
\* reading, or it waits to be sent, or is in the channel, with no older one behind it, or tried.
NewestWaits == wlast = IF wsend # None THEN wsend ELSE IF ch # <<>> THEN Head(ch) ELSE tried
AddressOnItsWay ==
    addr \in {None, tried} \/ wlast # addr \/ wsend = addr \/ (wsend = None /\ ch = <<addr>>)

\* A path that carries nothing does not last: it is replaced or heals, or Run returns and the
\* tunnel is dialled anew (supervisor.go:131-155).
SilenceEnds == ~Works(active) ~> (Works(active) \/ run # "loop")
=============================================================================
