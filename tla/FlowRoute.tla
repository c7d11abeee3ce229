----------------------------- MODULE FlowRoute -----------------------------
(***************************************************************************)
(* How a flow finds its way out of the network: the route label it carries *)
(* (routing.Decide, route_decide.go), the hop limit (chain.go) and the     *)
(* connections between nodes it rides on (links.go).                       *)
(*                                                                         *)
(* A node reads the label, and lets the flow out itself or opens a stream  *)
(* to a neighbour, with the label as it came and one hop less.             *)
(* Connections are raised by the first flow that needs one, outside the    *)
(* lock of NodeLinks, and looked at again by Reload, which replicas run    *)
(* after each snapshot and the master only when it starts (main.go).       *)
(*                                                                         *)
(* Which of the tagged neighbours auto:<tag> picks is left open here       *)
(* (Balancer is about that).  TCP and UDP flows are routed alike.          *)
(***************************************************************************)
EXTENDS Naturals, Sequences

CONSTANTS
    Node,
    Master,
    Tagged,         \* the nodes that carry the tag of auto:<tag>
    Flow,
    Label,          \* the labels clients use, out of Labels
    AutoTag, Direct,   \* the labels that name no node
    DefaultHops,
    MaxConns,       \* bound: connections raised between nodes
    MaxEvents       \* bound: changes of the registry, breaks and restarts, together

Labels == Node \cup {AutoTag, Direct}

ASSUME FlowAssumption ==
    /\ Master \in Node /\ Tagged \subseteq Node
    /\ AutoTag \notin Node /\ Direct \notin Node /\ Label \subseteq Labels
    /\ DefaultHops \in Nat \ {0}
    /\ MaxConns \in Nat /\ MaxEvents \in Nat

VARIABLES
    reg,        \* the network's registry of nodes
    known,      \* known[n]: NodeLinks.nodes, the registry as node n last read it
    link,       \* link[n][m]: the connection NodeLinks of n keeps to m, 0 for none
    failed,     \* failed[n][m]: a dial failed less than linkRetryAfter ago
    conn,       \* every connection ever raised between nodes
    flow,
    events

vars == <<reg, known, link, failed, conn, flow, events>>

\* on: listed and enabled
Entry == [on : BOOLEAN, addr : Nat]
Registry == [Node -> Entry]

\* late: the node reread the registry while the connection was being dialled
Conn == [from : Node, to : Node, addr : Nat, st : {"open", "dead", "closed"}, late : BOOLEAN]

Phase == {"idle", "deciding", "dialling", "storing", "opening", "exiting",
          "out", "unreached", "refused", "cut"}

\* at: the node working on the flow; depth: how many nodes it has come to, each of
\* which holds a stream for it; hops: the limit it arrived with; to, addr, via, late:
\* the connection being looked for
FlowState == [st : Phase, label : Labels, at : Node, depth : Nat, hops : Nat,
              to : Node, addr : Nat, via : Nat, late : BOOLEAN]
Active == {"deciding", "dialling", "storing", "opening", "exiting"}

Init ==
    /\ reg = [n \in Node |-> [on |-> TRUE, addr |-> 0]]
    /\ known = [n \in Node |-> reg]
    /\ link = [n \in Node |-> [m \in Node |-> 0]]
    /\ failed = [n \in Node |-> [m \in Node |-> FALSE]]
    /\ conn = <<>>
    /\ flow = [f \in Flow |-> [st |-> "idle", label |-> Direct, at |-> Master,
                               depth |-> 0, hops |-> 0, to |-> Master, addr |-> 0,
                               via |-> 0, late |-> FALSE]]
    /\ events = 0
-----------------------------------------------------------------------------
(***************************************************************************)
(* The registry, and the connections it keeps                              *)
(***************************************************************************)

\* The administrator disables, enables, deletes or moves a node.
Change(m) ==
    /\ events < MaxEvents
    /\ \E on, moved \in BOOLEAN :
          reg' = [reg EXCEPT ![m] = [on |-> on, addr |-> IF moved THEN @.addr + 1 ELSE @.addr]]
    /\ events' = events + 1
    /\ UNCHANGED <<known, link, failed, conn, flow>>

\* Wrong: a disabled node that has not moved is left alone.
DroppedMovedOnly(n) == {m \in Node : link[n][m] # 0 /\ reg[m].addr # known[n][m].addr}

\* The neighbours whose connection Reload closes: those it no longer lists, the
\* disabled ones, and those whose address is not the one n knew before.
Dropped(n) ==
    {m \in Node : link[n][m] # 0 /\ (~reg[m].on \/ reg[m].addr # known[n][m].addr)}

\* Reload, which the replica runs when a snapshot is in place.
Reload(n) ==
    /\ n # Master
    /\ conn' = [c \in DOMAIN conn |->
                  IF conn[c].from = n /\ conn[c].to \in Dropped(n) /\ link[n][conn[c].to] = c
                  THEN [conn[c] EXCEPT !.st = "closed"] ELSE conn[c]]
    /\ link' = [link EXCEPT ![n] = [m \in Node |-> IF m \in Dropped(n) THEN 0 ELSE @[m]]]
    /\ known' = [known EXCEPT ![n] = reg]
    /\ flow' = [f \in Flow |->
                  IF flow[f].st \in {"dialling", "storing"} /\ flow[f].at = n
                  THEN [flow[f] EXCEPT !.late = TRUE] ELSE flow[f]]
    /\ UNCHANGED <<reg, failed, events>>

\* linkRetryAfter passes.
CooldownEnds(n, m) ==
    /\ failed[n][m]
    /\ failed' = [failed EXCEPT ![n][m] = FALSE]
    /\ UNCHANGED <<reg, known, link, conn, flow, events>>

\* The path between two nodes breaks; nothing tells NodeLinks.
Break(c) ==
    /\ events < MaxEvents /\ conn[c].st = "open"
    /\ conn' = [conn EXCEPT ![c].st = "dead"]
    /\ events' = events + 1
    /\ UNCHANGED <<reg, known, link, failed, flow>>

\* What a node finds in its database when it starts: the master the registry itself, a
\* replica that of its last snapshot, which may have come in just before it stopped.
OnDisk(n) == IF n = Master THEN {reg} ELSE {known[n], reg}

\* A node stops and starts: it reads its registry anew, its connections are gone,
\* those of its neighbours to it are dead, and the flows it was working on are cut.
\* A flow it had handed on is still worked on there, though nobody waits for it.
Restart(n) ==
    /\ events < MaxEvents
    /\ \E r \in OnDisk(n) : known' = [known EXCEPT ![n] = r]
    /\ link' = [link EXCEPT ![n] = [m \in Node |-> 0]]
    /\ failed' = [failed EXCEPT ![n] = [m \in Node |-> FALSE]]
    /\ conn' = [c \in DOMAIN conn |->
                  IF conn[c].from = n THEN [conn[c] EXCEPT !.st = "closed"]
                  ELSE IF conn[c].to = n /\ conn[c].st = "open"
                       THEN [conn[c] EXCEPT !.st = "dead"] ELSE conn[c]]
    /\ flow' = [f \in Flow |->
                  IF flow[f].st \in Active /\ flow[f].at = n
                  THEN [flow[f] EXCEPT !.st = "cut", !.to = Master, !.addr = 0, !.via = 0,
                                       !.late = FALSE] ELSE flow[f]]
    /\ events' = events + 1
    /\ UNCHANGED reg
-----------------------------------------------------------------------------
(***************************************************************************)
(* A flow                                                                  *)
(***************************************************************************)

\* A request of a client: no Qd-Hops header, so the whole limit (HopsFromRequest).
Start(f, n, l) ==
    /\ flow[f].st = "idle"
    /\ flow' = [flow EXCEPT ![f].st = "deciding", ![f].label = l, ![f].at = n,
                            ![f].depth = 1, ![f].hops = DefaultHops]
    /\ UNCHANGED <<reg, known, link, failed, conn, events>>

\* NodeLinks.Dialer leads nowhere but to an enabled neighbour.
Usable(n, m) == m # n /\ known[n][m].on

\* pickByCategory: the enabled neighbours with the tag; never the node itself,
\* which Reload leaves out of its list.
Candidates(n) == {m \in Tagged \ {n} : known[n][m].on}

TagTargets(n) == IF Candidates(n) = {} THEN {n} ELSE Candidates(n)

\* Wrong: a named node that cannot be used is replaced by a tagged one.
TargetsOrTagged(n, l) ==
    IF l \in Node /\ Usable(n, l) THEN {l}
    ELSE TagTargets(n)

\* Decide: where the label leads from n; n itself when the flow is to leave here.
Targets(n, l) == IF l = Direct THEN {n} ELSE IF l = AutoTag THEN TagTargets(n) ELSE {l}

Advance(f, s) == flow' = [flow EXCEPT ![f].st = s]

\* On to the next phase, with nothing more to do with a connection.
Release(f, s) == flow' = [flow EXCEPT ![f].st = s, ![f].to = Master, ![f].addr = 0,
                                      ![f].via = 0, ![f].late = FALSE]

\* Nothing leads to the target, or the node is the target: the flow leaves here.
DecideExit(f) ==
    /\ flow[f].st = "deciding"
    /\ \E m \in Targets(flow[f].at, flow[f].label) :
          \/ ~Usable(flow[f].at, m)
          \/ link[flow[f].at][m] = 0 /\ failed[flow[f].at][m]
    /\ Release(f, "exiting")
    /\ UNCHANGED <<reg, known, link, failed, conn, events>>

\* NodeLinks.Dialer has a connection; whether it is alive it does not ask.
DecideLink(f) ==
    /\ flow[f].st = "deciding"
    /\ \E m \in Targets(flow[f].at, flow[f].label) :
          /\ Usable(flow[f].at, m) /\ link[flow[f].at][m] # 0
          /\ flow' = [flow EXCEPT ![f].st = "opening", ![f].to = m,
                                  ![f].via = link[flow[f].at][m]]
    /\ UNCHANGED <<reg, known, link, failed, conn, events>>

\* NodeLinks.Dialer has none, and dials outside the lock.
DecideDial(f) ==
    /\ flow[f].st = "deciding"
    /\ \E m \in Targets(flow[f].at, flow[f].label) :
          /\ Usable(flow[f].at, m) /\ link[flow[f].at][m] = 0 /\ ~failed[flow[f].at][m]
          /\ flow' = [flow EXCEPT ![f].st = "dialling", ![f].to = m,
                                  ![f].addr = known[flow[f].at][m].addr, ![f].late = FALSE]
    /\ UNCHANGED <<reg, known, link, failed, conn, events>>

\* The neighbour does not answer: remembered, and the flow leaves here.
DialFail(f) ==
    /\ flow[f].st = "dialling"
    /\ failed' = [failed EXCEPT ![flow[f].at][flow[f].to] = TRUE]
    /\ Release(f, "exiting")
    /\ UNCHANGED <<reg, known, link, conn, events>>

\* The neighbour, still at that address, accepts.
DialDone(f) ==
    /\ flow[f].st = "dialling" /\ Len(conn) < MaxConns
    /\ flow[f].addr = reg[flow[f].to].addr
    /\ conn' = Append(conn, [from |-> flow[f].at, to |-> flow[f].to, addr |-> flow[f].addr,
                             st |-> "open", late |-> FALSE])
    /\ flow' = [flow EXCEPT ![f].st = "storing", ![f].via = Len(conn) + 1, ![f].addr = 0]
    /\ UNCHANGED <<reg, known, link, failed, events>>

\* Another flow was first: its connection is used and this one closed.
StoreSecond(f) ==
    /\ flow[f].st = "storing" /\ link[flow[f].at][flow[f].to] # 0
    /\ conn' = [conn EXCEPT ![flow[f].via].st = "closed"]
    /\ flow' = [flow EXCEPT ![f].st = "opening", ![f].via = link[flow[f].at][flow[f].to],
                            ![f].late = FALSE]
    /\ UNCHANGED <<reg, known, link, failed, events>>

\* Wrong: stores its connection over one that is already there.
StoreOver(f) ==
    /\ flow[f].st = "storing"
    /\ link' = [link EXCEPT ![flow[f].at][flow[f].to] = flow[f].via]
    /\ failed' = [failed EXCEPT ![flow[f].at][flow[f].to] = FALSE]
    /\ conn' = [conn EXCEPT ![flow[f].via].late = flow[f].late]
    /\ flow' = [flow EXCEPT ![f].st = "opening", ![f].late = FALSE]
    /\ UNCHANGED <<reg, known, events>>

\* The connection is kept, whatever the registry says by now.
StoreFirst(f) ==
    /\ flow[f].st = "storing" /\ link[flow[f].at][flow[f].to] = 0
    /\ link' = [link EXCEPT ![flow[f].at][flow[f].to] = flow[f].via]
    /\ failed' = [failed EXCEPT ![flow[f].at][flow[f].to] = FALSE]
    /\ conn' = [conn EXCEPT ![flow[f].via].late = flow[f].late]
    /\ flow' = [flow EXCEPT ![f].st = "opening", ![f].late = FALSE]
    /\ UNCHANGED <<reg, known, events>>

\* What routeFlow leaves for the next node.
HopsLeft(f) == flow[f].hops - 1

\* chain.DialTCP: the stream to the next node, which decides anew.
OpenStream(f) ==
    /\ flow[f].st = "opening" /\ HopsLeft(f) > 0 /\ conn[flow[f].via].st = "open"
    /\ flow' = [flow EXCEPT ![f].st = "deciding", ![f].at = flow[f].to,
                            ![f].depth = @ + 1, ![f].hops = HopsLeft(f), ![f].to = Master, ![f].addr = 0,
                            ![f].via = 0, ![f].late = FALSE]
    /\ UNCHANGED <<reg, known, link, failed, conn, events>>

\* chain.DialTCP fails, for want of hops or of a connection that works: 502, which
\* every node before it passes on.
OpenFail(f) ==
    /\ flow[f].st = "opening" /\ (HopsLeft(f) = 0 \/ conn[flow[f].via].st # "open")
    /\ Release(f, "refused")
    /\ UNCHANGED <<reg, known, link, failed, conn, events>>

\* NetDialer: out into the world, which may not answer.
Leave(f) ==
    /\ flow[f].st = "exiting"
    /\ \E s \in {"out", "unreached"} : Advance(f, s)
    /\ UNCHANGED <<reg, known, link, failed, conn, events>>

Step(f) == \/ DecideExit(f) \/ DecideLink(f) \/ DecideDial(f)
           \/ DialFail(f) \/ DialDone(f) \/ StoreSecond(f) \/ StoreFirst(f)
           \/ OpenStream(f) \/ OpenFail(f) \/ Leave(f)

Next ==
    \/ \E m \in Node : Change(m)
    \/ \E n \in Node : Reload(n)
    \/ \E n \in Node : Restart(n)
    \/ \E n, m \in Node : CooldownEnds(n, m)
    \/ \E c \in DOMAIN conn : Break(c)
    \/ \E f \in Flow, n \in Node, l \in Label : Start(f, n, l)
    \/ \E f \in Flow : Step(f)

Spec == Init /\ [][Next]_vars

\* A dial ends (the handshake has a limit of its own), a handler goes on, and
\* replicas go on receiving snapshots (Cluster: ReplicasSync).
FairSpec == /\ Spec
            /\ \A f \in Flow : WF_vars(Step(f))
            /\ \A n \in Node : WF_vars(Reload(n))
-----------------------------------------------------------------------------
(***************************************************************************)
(* Properties                                                              *)
(***************************************************************************)

TypeOK ==
    /\ reg \in Registry
    /\ known \in [Node -> Registry]
    /\ link \in [Node -> [Node -> Nat]]
    /\ failed \in [Node -> [Node -> BOOLEAN]]
    /\ conn \in Seq(Conn)
    /\ flow \in [Flow -> FlowState]
    /\ events \in Nat

\* Concurrent flows that raise a connection to one neighbour, and Reload beside
\* them, leak none: every connection that is open is the one NodeLinks keeps, or
\* is about to be handed to it (links.go:140-148).
NoLeakedConn ==
    \A c \in DOMAIN conn :
        conn[c].st = "open" =>
            \/ link[conn[c].from][conn[c].to] = c
            \/ \E f \in Flow : flow[f].st = "storing" /\ flow[f].via = c

\* The connection kept to a neighbour is never one that was closed, and it goes where
\* the node's registry says the neighbour is (links.go:84-91).  It may differ if the
\* registry was reread while the connection was being raised; see LinksMoveOn.
LinksFollowRegistry ==
    \A n, m \in Node :
        link[n][m] # 0 =>
            LET kept == conn[link[n][m]]
            IN  /\ kept.from = n /\ kept.to = m /\ kept.st # "closed"
                /\ ~kept.late => known[n][m].on /\ known[n][m].addr = kept.addr

\* However the nodes send it about, a flow holds at most DefaultHops streams (chain.go:14-16).
StreamsBounded == \A f \in Flow : flow[f].depth <= DefaultHops

\* A label that names a node is honoured there or given up at the entry: the flow never
\* leaves from a third node, and an unlabelled one leaves where it came in.
LabelHonoured ==
    \A f \in Flow :
        flow[f].st \in {"exiting", "out", "unreached"} =>
            \/ flow[f].label = AutoTag
            \/ flow[f].depth = 1
            \/ flow[f].depth = 2 /\ flow[f].at = flow[f].label

\* Every flow comes to an end, also when labels send it in a circle.
FlowsEnd == \A f \in Flow : flow[f].st \in Active ~> flow[f].st \notin Active

\* A replica ends up without connections to nodes that were disabled or deleted, also
\* those raised while that became known (links.go:62-65).
ReplicasDropDisabled ==
    \A n \in Node \ {Master}, m \in Node :
        <>[](~reg[m].on => link[n][m] = 0)

\* links.go:68-69: a connection to an address that has changed is dropped.  One raised while
\* the registry was reread is not: Reload compares the entry with the one it read before,
\* not with where the connection goes, and at every later time the two are the same.
LinksMoveOn ==
    \A n \in Node \ {Master}, m \in Node :
        <>[](link[n][m] # 0 => conn[link[n][m]].addr = reg[m].addr)

\* What ReplicasDropDisabled says, of every node.  The master does not.
DisabledDropped ==
    \A n, m \in Node : <>[](~reg[m].on => link[n][m] = 0)

\* route_decide.go:21: a flow is never refused because its exit cannot be reached.
FlowsGetOut == \A f \in Flow : flow[f].st # "refused"
=============================================================================
