-------------------------- MODULE FlowRoute_proofs --------------------------
(***************************************************************************)
(* The ways of flows between nodes, proved for any number of nodes, flows  *)
(* and hops, any costs and thresholds.  FlowRoute: types, that connections *)
(* do not leak and go where the registry says, that a flow holds a bounded *)
(* number of streams, and that labels are honoured.  Balance: types, that  *)
(* the wins counted are wins, and that a flow's exit moves only when the   *)
(* move is earned.                                                         *)
(***************************************************************************)
EXTENDS FlowRoute, Balance, SequenceTheorems, WellFoundedInduction, TLAPS

-----------------------------------------------------------------------------
(* FlowRoute. *)

\* A flow has gone as many hops as it has used up.
PathInv ==
    \A f \in Flow :
        /\ flow[f].st = "idle" => flow[f].depth = 0
        /\ flow[f].st # "idle" => /\ flow[f].hops >= 1
                                  /\ flow[f].depth + flow[f].hops = DefaultHops + 1

\* A flow on its way to a node it names is still at its entry.
LabelInv ==
    \A f \in Flow :
        /\ flow[f].st \in {"deciding", "exiting", "out", "unreached"} =>
               \/ flow[f].label = AutoTag
               \/ flow[f].depth = 1
               \/ flow[f].depth = 2 /\ flow[f].at = flow[f].label
        /\ flow[f].st \in {"dialling", "storing", "opening"} =>
               flow[f].label = AutoTag \/ (flow[f].to = flow[f].label /\ flow[f].depth = 1)

\* A connection about to be handed over is its flow's own, and nobody's link yet.
ViaInv ==
    \A f \in Flow :
        /\ flow[f].st = "opening" => flow[f].via \in DOMAIN conn
        /\ flow[f].st = "storing" =>
               /\ flow[f].via \in DOMAIN conn
               /\ conn[flow[f].via].from = flow[f].at /\ conn[flow[f].via].to = flow[f].to
               /\ conn[flow[f].via].st # "closed"
               /\ \A n, m \in Node : link[n][m] # flow[f].via
               /\ \A g \in Flow \ {f} : flow[g].st = "storing" => flow[g].via # flow[f].via

\* While the registry is not reread, it says what the dial went by.
FreshInv ==
    \A f \in Flow :
        ~flow[f].late =>
            /\ flow[f].st = "dialling" => /\ known[flow[f].at][flow[f].to].on
                                          /\ known[flow[f].at][flow[f].to].addr = flow[f].addr
            /\ flow[f].st = "storing" =>
                   /\ known[flow[f].at][flow[f].to].on
                   /\ known[flow[f].at][flow[f].to].addr = conn[flow[f].via].addr

LinkInv ==
    \A n, m \in Node :
        link[n][m] # 0 =>
            /\ link[n][m] \in DOMAIN conn
            /\ conn[link[n][m]].from = n /\ conn[link[n][m]].to = m
            /\ conn[link[n][m]].st # "closed"
            /\ ~conn[link[n][m]].late => /\ known[n][m].on
                                         /\ known[n][m].addr = conn[link[n][m]].addr

IInv == TypeOK /\ PathInv /\ LabelInv /\ ViaInv /\ FreshInv /\ LinkInv /\ NoLeakedConn
-----------------------------------------------------------------------------
LEMMA InitIInv == Init => IInv
<1> SUFFICES ASSUME Init PROVE IInv
  OBVIOUS
<1>1. TypeOK
  <2>1. reg \in Registry /\ known \in [Node -> Registry]
    BY DEF Init, Registry, Entry
  <2>2. [st |-> "idle", label |-> Direct, at |-> Master, depth |-> 0, hops |-> 0,
         to |-> Master, addr |-> 0, via |-> 0, late |-> FALSE] \in FlowState
    BY FlowAssumption DEF FlowState, Phase, Labels
  <2>3. flow \in [Flow -> FlowState]
    BY <2>2 DEF Init
  <2>4. conn \in Seq(Conn)
    <3>1. conn = << >>
      BY DEF Init
    <3> QED
      BY <3>1, EmptySeq
  <2>5. link \in [Node -> [Node -> Nat]]
    BY DEF Init
  <2>6. failed \in [Node -> [Node -> BOOLEAN]]
    BY DEF Init
  <2>7. events \in Nat
    BY DEF Init
  <2> QED
    BY <2>1, <2>3, <2>4, <2>5, <2>6, <2>7 DEF TypeOK
<1>2. PathInv /\ LabelInv /\ ViaInv /\ FreshInv
  BY DEF Init, PathInv, LabelInv, ViaInv, FreshInv
<1>3. LinkInv
  BY DEF Init, LinkInv
<1>4. NoLeakedConn
  <2>0. conn = << >>
    BY DEF Init
  <2>1. DOMAIN conn = {}
    BY <2>0
  <2> QED
    BY <2>1 DEF NoLeakedConn
<1> QED
  BY <1>1, <1>2, <1>3, <1>4 DEF IInv

-----------------------------------------------------------------------------
(* Types, action by action. *)

LEMMA ConnMap ==
    ASSUME conn \in Seq(Conn), NEW F, F \in [DOMAIN conn -> Conn]
    PROVE  F \in Seq(Conn)
<1>1. Len(conn) \in Nat /\ DOMAIN conn = 1..Len(conn)
  OBVIOUS
<1> QED
  BY <1>1, SeqDef

LEMMA ConnUpdate ==
    ASSUME conn \in Seq(Conn), NEW c \in DOMAIN conn, NEW r \in Conn
    PROVE  [conn EXCEPT ![c] = r] \in Seq(Conn)
OBVIOUS

LEMMA ReloadTypes == ASSUME TypeOK, NEW n \in Node, Reload(n) PROVE TypeOK'
<1>0. \A c \in DOMAIN conn : conn[c] \in Conn
  BY DEF TypeOK
<1>1. \A c \in DOMAIN conn : [conn[c] EXCEPT !.st = "closed"] \in Conn
  BY <1>0 DEF Conn
<1>2. conn' \in Seq(Conn)
  <2>1. conn' \in [DOMAIN conn -> Conn]
    BY <1>0, <1>1 DEF Reload
  <2> QED
    BY <2>1, ConnMap DEF TypeOK
<1>3. \A f \in Flow : flow[f] \in FlowState /\ [flow[f] EXCEPT !.late = TRUE] \in FlowState
  BY DEF TypeOK, FlowState
<1>4. flow' \in [Flow -> FlowState]
  BY <1>3 DEF Reload
<1>5. link' \in [Node -> [Node -> Nat]] /\ known' \in [Node -> Registry]
  BY DEF Reload, TypeOK
<1> QED
  BY <1>2, <1>4, <1>5 DEF Reload, TypeOK

LEMMA RestartTypes == ASSUME TypeOK, NEW n \in Node, Restart(n) PROVE TypeOK'
<1>0. \A c \in DOMAIN conn : conn[c] \in Conn
  BY DEF TypeOK
<1>1. \A c \in DOMAIN conn :
        [conn[c] EXCEPT !.st = "closed"] \in Conn /\ [conn[c] EXCEPT !.st = "dead"] \in Conn
  BY <1>0 DEF Conn
<1>2. conn' \in Seq(Conn)
  <2>1. conn' \in [DOMAIN conn -> Conn]
    BY <1>0, <1>1 DEF Restart
  <2> QED
    BY <2>1, ConnMap DEF TypeOK
<1>3. \A f \in Flow :
        /\ flow[f] \in FlowState
        /\ [flow[f] EXCEPT !.st = "cut", !.to = Master, !.addr = 0, !.via = 0,
                            !.late = FALSE] \in FlowState
  <2> SUFFICES ASSUME NEW f \in Flow
               PROVE  /\ flow[f] \in FlowState
                      /\ [flow[f] EXCEPT !.st = "cut", !.to = Master, !.addr = 0, !.via = 0,
                                         !.late = FALSE] \in FlowState
    OBVIOUS
  <2>1. flow[f] \in FlowState
    BY DEF TypeOK
  <2>2. "cut" \in Phase /\ Master \in Node /\ 0 \in Nat /\ FALSE \in BOOLEAN
    BY FlowAssumption DEF Phase
  <2> QED
    BY <2>1, <2>2 DEF FlowState
<1>4. flow' \in [Flow -> FlowState]
  BY <1>3 DEF Restart
<1>5. link' \in [Node -> [Node -> Nat]]
  <2>1. [m \in Node |-> 0] \in [Node -> Nat]
    OBVIOUS
  <2> QED
    BY <2>1 DEF Restart, TypeOK
<1>8. known' \in [Node -> Registry]
  <2>1. OnDisk(n) \subseteq Registry
    BY DEF OnDisk, TypeOK
  <2> QED
    BY <2>1 DEF Restart, TypeOK
<1>6. failed' \in [Node -> [Node -> BOOLEAN]]
  <2>1. [m \in Node |-> FALSE] \in [Node -> BOOLEAN]
    OBVIOUS
  <2> QED
    BY <2>1 DEF Restart, TypeOK
<1>7. reg' \in Registry /\ events' \in Nat
  <2>1. reg' = reg /\ events' = events + 1
    BY DEF Restart
  <2>2. reg \in Registry /\ events \in Nat
    BY DEF TypeOK
  <2> QED
    BY <2>1, <2>2
<1> QED
  BY <1>2, <1>4, <1>5, <1>6, <1>7, <1>8 DEF TypeOK

LEMMA StepTypes == ASSUME TypeOK, ViaInv, NEW f \in Flow, Step(f) PROVE TypeOK'
<1>0. flow[f] \in FlowState /\ flow \in [Flow -> FlowState]
  BY DEF TypeOK
<1>a. \A s \in Phase :
        [flow[f] EXCEPT !.st = s, !.to = Master, !.addr = 0, !.via = 0, !.late = FALSE]
            \in FlowState
  BY <1>0, FlowAssumption DEF FlowState
<1>b. \A s \in Phase : [flow[f] EXCEPT !.st = s] \in FlowState
  BY <1>0 DEF FlowState
<1>1. CASE DecideExit(f)
  BY <1>1, <1>a DEF DecideExit, Release, TypeOK, Phase
<1>2. CASE DecideLink(f)
  <2>1. PICK m \in Targets(flow[f].at, flow[f].label) :
          /\ Usable(flow[f].at, m) /\ link[flow[f].at][m] # 0
          /\ flow' = [flow EXCEPT ![f].st = "opening", ![f].to = m,
                                  ![f].via = link[flow[f].at][m]]
    BY <1>2 DEF DecideLink
  <2>2. m \in Node
    BY <1>0, FlowAssumption DEF Targets, TagTargets, Candidates, FlowState, Labels
  <2>3. link[flow[f].at][m] \in Nat
    BY <1>0, <2>2 DEF TypeOK, FlowState
  <2>4. [flow[f] EXCEPT !.st = "opening", !.to = m, !.via = link[flow[f].at][m]] \in FlowState
    BY <1>0, <2>2, <2>3 DEF FlowState, Phase
  <2> QED
    BY <1>2, <2>1, <2>4 DEF DecideLink, TypeOK
<1>3. CASE DecideDial(f)
  <2>1. PICK m \in Targets(flow[f].at, flow[f].label) :
          flow' = [flow EXCEPT ![f].st = "dialling", ![f].to = m,
                               ![f].addr = known[flow[f].at][m].addr, ![f].late = FALSE]
    BY <1>3 DEF DecideDial
  <2>2. m \in Node
    BY <1>0, FlowAssumption DEF Targets, TagTargets, Candidates, FlowState, Labels
  <2>3. known[flow[f].at][m].addr \in Nat
    BY <1>0, <2>2 DEF TypeOK, FlowState, Registry, Entry
  <2>4. [flow[f] EXCEPT !.st = "dialling", !.to = m, !.addr = known[flow[f].at][m].addr,
                        !.late = FALSE] \in FlowState
    BY <1>0, <2>2, <2>3 DEF FlowState, Phase
  <2> QED
    BY <1>3, <2>1, <2>4 DEF DecideDial, TypeOK
<1>4. CASE DialFail(f)
  <2>1. failed' \in [Node -> [Node -> BOOLEAN]]
    BY <1>4 DEF DialFail, TypeOK
  <2>2. flow' \in [Flow -> FlowState]
    BY <1>4, <1>a DEF DialFail, Release, TypeOK, Phase
  <2> QED
    BY <1>4, <2>1, <2>2 DEF DialFail, TypeOK
<1>5. CASE DialDone(f)
  <2>1. [from |-> flow[f].at, to |-> flow[f].to, addr |-> flow[f].addr,
         st |-> "open", late |-> FALSE] \in Conn
    BY <1>0 DEF FlowState, Conn
  <2>2. conn' \in Seq(Conn)
    BY <1>5, <2>1 DEF DialDone, TypeOK
  <2>3. [flow[f] EXCEPT !.st = "storing", !.via = Len(conn) + 1, !.addr = 0] \in FlowState
    <3>1. Len(conn) + 1 \in Nat
      BY DEF TypeOK
    <3> QED
      BY <1>0, <3>1 DEF FlowState, Phase
  <2> QED
    BY <1>5, <2>2, <2>3 DEF DialDone, TypeOK
<1>6. CASE StoreSecond(f)
  <2>1. flow[f].via \in DOMAIN conn
    BY <1>6 DEF StoreSecond, ViaInv
  <2>2. conn[flow[f].via] \in Conn
    BY <2>1 DEF TypeOK
  <2>3. [conn[flow[f].via] EXCEPT !.st = "closed"] \in Conn
    BY <2>2 DEF Conn
  <2>4. conn' \in Seq(Conn)
    BY <1>6, <2>1, <2>3, ConnUpdate DEF StoreSecond, TypeOK
  <2>5. link[flow[f].at][flow[f].to] \in Nat
    BY <1>0 DEF TypeOK, FlowState
  <2>6. [flow[f] EXCEPT !.st = "opening", !.via = link[flow[f].at][flow[f].to],
                        !.late = FALSE] \in FlowState
    BY <1>0, <2>5 DEF FlowState, Phase
  <2> QED
    BY <1>6, <2>4, <2>6 DEF StoreSecond, TypeOK
<1>7. CASE StoreFirst(f)
  <2>1. flow[f].via \in DOMAIN conn
    BY <1>7 DEF StoreFirst, ViaInv
  <2>2. conn[flow[f].via] \in Conn /\ flow[f].late \in BOOLEAN
    BY <1>0, <2>1 DEF TypeOK, FlowState
  <2>3. [conn[flow[f].via] EXCEPT !.late = flow[f].late] \in Conn
    BY <2>2 DEF Conn
  <2>4. conn' \in Seq(Conn)
    BY <1>7, <2>1, <2>3, ConnUpdate DEF StoreFirst, TypeOK
  <2>5. [flow[f] EXCEPT !.st = "opening", !.late = FALSE] \in FlowState
    BY <1>0 DEF FlowState, Phase
  <2>6. flow[f].via \in Nat
    BY <1>0 DEF FlowState
  <2>7. link' \in [Node -> [Node -> Nat]] /\ failed' \in [Node -> [Node -> BOOLEAN]]
    BY <1>7, <2>6 DEF StoreFirst, TypeOK
  <2> QED
    BY <1>7, <2>4, <2>5, <2>7 DEF StoreFirst, TypeOK
<1>8. CASE OpenStream(f)
  <2>1. HopsLeft(f) \in Nat
    BY <1>8, <1>0 DEF OpenStream, HopsLeft, FlowState
  <2>. flow[f].depth + 1 \in Nat
    BY <1>0 DEF FlowState
  <2>2. [flow[f] EXCEPT !.st = "deciding", !.at = flow[f].to, !.depth = @ + 1,
                        !.hops = HopsLeft(f), !.to = Master, !.addr = 0, !.via = 0,
                        !.late = FALSE] \in FlowState
    BY <1>0, <2>1, FlowAssumption DEF FlowState, Phase
  <2> QED
    BY <1>8, <2>2 DEF OpenStream, TypeOK
<1>9. CASE OpenFail(f)
  BY <1>9, <1>a DEF OpenFail, Release, TypeOK, Phase
<1>10. CASE Leave(f)
  BY <1>10, <1>b DEF Leave, Advance, TypeOK, Phase
<1> QED
  BY <1>1, <1>2, <1>3, <1>4, <1>5, <1>6, <1>7, <1>8, <1>9, <1>10 DEF Step

LEMMA TypeLemma == TypeOK /\ ViaInv /\ [Next]_vars => TypeOK'
<1> SUFFICES ASSUME TypeOK, ViaInv, [Next]_vars PROVE TypeOK'
  OBVIOUS
<1>1. CASE UNCHANGED vars
  BY <1>1 DEF vars, TypeOK
<1>2. ASSUME NEW m \in Node, Change(m) PROVE TypeOK'
  BY <1>2 DEF Change, TypeOK, Registry, Entry
<1>3. ASSUME NEW n \in Node, NEW m \in Node, CooldownEnds(n, m) PROVE TypeOK'
  BY <1>3 DEF CooldownEnds, TypeOK
<1>4. ASSUME NEW c \in DOMAIN conn, Break(c) PROVE TypeOK'
  <2>0. conn[c] \in Conn
    BY DEF TypeOK
  <2>1. [conn[c] EXCEPT !.st = "dead"] \in Conn
    BY <2>0 DEF Conn
  <2> QED
    BY <1>4, <2>1, ConnUpdate DEF Break, TypeOK
<1>5. ASSUME NEW f \in Flow, NEW n \in Node, NEW l \in Label, Start(f, n, l) PROVE TypeOK'
  <2>1. [flow[f] EXCEPT !.st = "deciding", !.label = l, !.at = n, !.depth = 1,
                        !.hops = DefaultHops] \in FlowState
    <3>1. flow[f] \in FlowState
      BY DEF TypeOK
    <3>2. "deciding" \in Phase /\ 1 \in Nat /\ DefaultHops \in Nat
      BY FlowAssumption DEF Phase
    <3>3. l \in Labels
      BY FlowAssumption
    <3> QED
      BY <3>1, <3>2, <3>3 DEF FlowState
  <2> QED
    BY <1>5, <2>1 DEF Start, TypeOK
<1> QED
  BY <1>1, <1>2, <1>3, <1>4, <1>5, ReloadTypes, RestartTypes, StepTypes DEF Next
-----------------------------------------------------------------------------
(* The invariant, action by action. *)

Rest == PathInv /\ LabelInv /\ ViaInv /\ FreshInv /\ LinkInv /\ NoLeakedConn

LEMMA ConnEnds ==
    ASSUME TypeOK, NEW c \in DOMAIN conn
    PROVE  conn[c].from \in Node /\ conn[c].to \in Node /\ c # 0
<1>1. conn[c] \in Conn
  BY DEF TypeOK
<1>2. c # 0
  <2>1. Len(conn) \in Nat /\ DOMAIN conn = 1..Len(conn)
    BY DEF TypeOK
  <2> QED
    BY <2>1
<1> QED
  BY <1>1, <1>2 DEF Conn

Others(f) == \A g \in Flow \ {f} : flow'[g] = flow[g]

\* The fields of flow f that an action leaves alone.
SameWay(f) == /\ flow'[f].label = flow[f].label /\ flow'[f].at = flow[f].at
              /\ flow'[f].depth = flow[f].depth /\ flow'[f].hops = flow[f].hops

SameConns == UNCHANGED <<known, link, conn>>

\* A flow that goes on without a connection disturbs nothing.
LEMMA PlainStep ==
    ASSUME TypeOK, Rest, NEW f \in Flow, Others(f), SameWay(f), SameConns,
           flow[f].st \notin {"idle", "storing"},
           flow'[f].st \in {"exiting", "out", "unreached", "refused"},
           flow'[f].st \in {"exiting", "out", "unreached"} =>
               \/ flow[f].st \in {"deciding", "exiting"}
               \/ flow[f].st = "dialling"
    PROVE  Rest'
<1> USE DEF Rest, Others, SameWay, SameConns
<1>1. PathInv'
  BY DEF PathInv
<1>2. LabelInv'
  BY DEF LabelInv
<1>3. ViaInv'
  BY DEF ViaInv
<1>4. FreshInv'
  BY DEF FreshInv
<1>5. LinkInv'
  BY DEF LinkInv
<1>6. NoLeakedConn'
  BY DEF NoLeakedConn
<1> QED
  BY <1>1, <1>2, <1>3, <1>4, <1>5, <1>6

LEMMA NamedTarget ==
    ASSUME NEW n, NEW l, l # Direct, l # AutoTag
    PROVE  Targets(n, l) = {l}
BY DEF Targets

LEMMA DecideLinkStep ==
    ASSUME TypeOK, Rest, NEW f \in Flow, DecideLink(f)
    PROVE  Rest'
<1>a. PICK m \in Targets(flow[f].at, flow[f].label) :
        /\ Usable(flow[f].at, m) /\ link[flow[f].at][m] # 0
        /\ flow' = [flow EXCEPT ![f].st = "opening", ![f].to = m,
                                ![f].via = link[flow[f].at][m]]
  BY DEF DecideLink
<1>b. /\ Others(f) /\ SameWay(f) /\ SameConns
      /\ flow[f].st = "deciding" /\ flow'[f].st = "opening"
      /\ flow'[f].to = m /\ flow'[f].via = link[flow[f].at][m]
      /\ link[flow[f].at][m] # 0
  BY <1>a DEF DecideLink, TypeOK, FlowState, Others, SameWay, SameConns
<1>c. m \in Node /\ m # flow[f].at /\ flow[f].at \in Node
  BY <1>a, FlowAssumption DEF Targets, TagTargets, Candidates, TypeOK, FlowState, Labels, Usable
<1>d. flow[f].label = AutoTag \/ m = flow[f].label
  <2>0. m \in Targets(flow[f].at, flow[f].label) /\ m # flow[f].at
    BY <1>c
  <2>1. CASE flow[f].label = Direct
    <3>1. Targets(flow[f].at, flow[f].label) = {flow[f].at}
      BY <2>1 DEF Targets
    <3> QED
      BY <3>1, <2>0
  <2>2. CASE flow[f].label # Direct /\ flow[f].label # AutoTag
    <3>1. Targets(flow[f].at, flow[f].label) = {flow[f].label}
      BY <2>2, NamedTarget
    <3> QED
      BY <3>1, <2>0
  <2> QED
    BY <2>1, <2>2
<1> USE DEF Rest, Others, SameWay, SameConns
<1>1. PathInv'
  BY <1>b, <1>c, <1>d DEF PathInv
<1>2. LabelInv'
  BY <1>b, <1>c, <1>d DEF LabelInv
<1>3. ViaInv'
  BY <1>b, <1>c, <1>d DEF ViaInv, LinkInv
<1>4. FreshInv'
  BY <1>b, <1>c, <1>d DEF FreshInv
<1>5. LinkInv'
  BY <1>b, <1>c, <1>d DEF LinkInv
<1>6. NoLeakedConn'
  BY <1>b, <1>c, <1>d DEF NoLeakedConn
<1> QED
  BY <1>1, <1>2, <1>3, <1>4, <1>5, <1>6

LEMMA DecideDialStep ==
    ASSUME TypeOK, Rest, NEW f \in Flow, DecideDial(f)
    PROVE  Rest'
<1>a. PICK m \in Targets(flow[f].at, flow[f].label) :
        /\ Usable(flow[f].at, m)
        /\ flow' = [flow EXCEPT ![f].st = "dialling", ![f].to = m,
                                ![f].addr = known[flow[f].at][m].addr, ![f].late = FALSE]
  BY DEF DecideDial
<1>b. /\ Others(f) /\ SameWay(f) /\ SameConns
      /\ flow[f].st = "deciding" /\ flow'[f].st = "dialling"
      /\ flow'[f].to = m /\ flow'[f].addr = known[flow[f].at][m].addr
  BY <1>a DEF DecideDial, TypeOK, FlowState, Others, SameWay, SameConns
<1>c. m \in Node /\ m # flow[f].at /\ known[flow[f].at][m].on
  BY <1>a, FlowAssumption DEF Targets, TagTargets, Candidates, TypeOK, FlowState, Labels, Usable
<1>d. flow[f].label = AutoTag \/ m = flow[f].label
  <2>0. m \in Targets(flow[f].at, flow[f].label) /\ m # flow[f].at
    BY <1>c
  <2>1. CASE flow[f].label = Direct
    <3>1. Targets(flow[f].at, flow[f].label) = {flow[f].at}
      BY <2>1 DEF Targets
    <3> QED
      BY <3>1, <2>0
  <2>2. CASE flow[f].label # Direct /\ flow[f].label # AutoTag
    <3>1. Targets(flow[f].at, flow[f].label) = {flow[f].label}
      BY <2>2, NamedTarget
    <3> QED
      BY <3>1, <2>0
  <2> QED
    BY <2>1, <2>2
<1> USE DEF Rest, Others, SameWay, SameConns
<1>1. PathInv'
  BY <1>b, <1>c, <1>d DEF PathInv
<1>2. LabelInv'
  BY <1>b, <1>c, <1>d DEF LabelInv
<1>3. ViaInv'
  BY <1>b, <1>c, <1>d DEF ViaInv
<1>4. FreshInv'
  BY <1>b, <1>c, <1>d DEF FreshInv
<1>5. LinkInv'
  BY <1>b, <1>c, <1>d DEF LinkInv
<1>6. NoLeakedConn'
  BY <1>b, <1>c, <1>d DEF NoLeakedConn
<1> QED
  BY <1>1, <1>2, <1>3, <1>4, <1>5, <1>6

LEMMA DialDoneStep ==
    ASSUME TypeOK, Rest, NEW f \in Flow, DialDone(f)
    PROVE  Rest'
<1> DEFINE k == Len(conn) + 1
<1>a. /\ Others(f) /\ SameWay(f) /\ UNCHANGED <<known, link>>
      /\ flow[f].st = "dialling" /\ flow'[f].st = "storing"
      /\ flow'[f].to = flow[f].to /\ flow'[f].via = k /\ flow'[f].late = flow[f].late
  BY DEF DialDone, TypeOK, FlowState, Others, SameWay
<1>b. DOMAIN conn' = DOMAIN conn \cup {k} /\ k \notin DOMAIN conn /\ k # 0
  BY DEF DialDone, TypeOK
<1>c. \A c \in DOMAIN conn : conn'[c] = conn[c]
  BY DEF DialDone, TypeOK
<1>d. conn'[k] = [from |-> flow[f].at, to |-> flow[f].to, addr |-> flow[f].addr,
                  st |-> "open", late |-> FALSE]
  BY DEF DialDone, TypeOK
<1>e. flow[f].at \in Node /\ flow[f].to \in Node
  BY DEF TypeOK, FlowState
<1> HIDE DEF k
<1> USE DEF Rest, Others, SameWay, SameConns
<1>1. PathInv'
  BY <1>a, <1>b, <1>c, <1>d, <1>e DEF PathInv
<1>2. LabelInv'
  BY <1>a, <1>b, <1>c, <1>d, <1>e DEF LabelInv
<1>3. ViaInv'
  BY <1>a, <1>b, <1>c, <1>d, <1>e DEF ViaInv, LinkInv
<1>4. FreshInv'
  BY <1>a, <1>b, <1>c, <1>d, <1>e DEF FreshInv, LinkInv, ViaInv
<1>5. LinkInv'
  BY <1>a, <1>b, <1>c, <1>d, <1>e DEF LinkInv, ViaInv
<1>6. NoLeakedConn'
  BY <1>a, <1>b, <1>c, <1>d, <1>e DEF NoLeakedConn, LinkInv, ViaInv
<1> QED
  BY <1>1, <1>2, <1>3, <1>4, <1>5, <1>6

LEMMA StoreSecondStep ==
    ASSUME TypeOK, Rest, NEW f \in Flow, StoreSecond(f)
    PROVE  Rest'
<1> DEFINE k == flow[f].via
<1>e. flow[f].at \in Node /\ flow[f].to \in Node /\ flow[f].st = "storing"
  BY DEF StoreSecond, TypeOK, FlowState
<1>f. k \in DOMAIN conn /\ conn[k].from = flow[f].at /\ conn[k].to = flow[f].to
  BY <1>e DEF Rest, ViaInv
<1>a. /\ Others(f) /\ SameWay(f) /\ UNCHANGED <<known, link>>
      /\ flow'[f].st = "opening" /\ flow'[f].to = flow[f].to
      /\ flow'[f].via = link[flow[f].at][flow[f].to] /\ link[flow[f].at][flow[f].to] # 0
  BY DEF StoreSecond, TypeOK, FlowState, Others, SameWay
<1>b. DOMAIN conn' = DOMAIN conn
  BY DEF StoreSecond, TypeOK
<1>c. \A c \in DOMAIN conn \ {k} : conn'[c] = conn[c]
  BY DEF StoreSecond, TypeOK
<1>d. conn'[k].st = "closed"
  <2>1. conn[k] \in Conn
    BY <1>f DEF TypeOK
  <2>2. conn'[k] = [conn[k] EXCEPT !.st = "closed"]
    BY <1>f DEF StoreSecond, TypeOK
  <2> QED
    BY <2>1, <2>2 DEF Conn
<1> HIDE DEF k
<1>g. k = flow[f].via
  BY DEF k
<1> USE DEF Rest, Others, SameWay, SameConns
<1>1. PathInv'
  BY <1>a, <1>b, <1>c, <1>d, <1>e, <1>f, <1>g DEF PathInv, LinkInv, ViaInv
<1>2. LabelInv'
  BY <1>a, <1>b, <1>c, <1>d, <1>e, <1>f, <1>g DEF LabelInv, LinkInv, ViaInv
<1>3. ViaInv'
  BY <1>a, <1>b, <1>c, <1>d, <1>e, <1>f, <1>g DEF ViaInv, LinkInv
<1>4. FreshInv'
  BY <1>a, <1>b, <1>c, <1>d, <1>e, <1>f, <1>g DEF FreshInv, LinkInv, ViaInv
<1>5. LinkInv'
  BY <1>a, <1>b, <1>c, <1>d, <1>e, <1>f, <1>g DEF LinkInv, ViaInv
<1>6. NoLeakedConn'
  BY <1>a, <1>b, <1>c, <1>d, <1>e, <1>f, <1>g DEF NoLeakedConn, LinkInv, ViaInv
<1> QED
  BY <1>1, <1>2, <1>3, <1>4, <1>5, <1>6

LEMMA StoreFirstStep ==
    ASSUME TypeOK, Rest, NEW f \in Flow, StoreFirst(f)
    PROVE  Rest'
<1> DEFINE k == flow[f].via
           n == flow[f].at
           m == flow[f].to
<1>e. n \in Node /\ m \in Node /\ flow[f].st = "storing" /\ link[n][m] = 0
  BY DEF StoreFirst, TypeOK, FlowState
<1>f. /\ k \in DOMAIN conn /\ conn[k].from = n /\ conn[k].to = m
      /\ conn[k].st # "closed"
  BY <1>e DEF Rest, ViaInv
<1>a. /\ Others(f) /\ SameWay(f) /\ UNCHANGED known
      /\ flow'[f].st = "opening" /\ flow'[f].to = flow[f].to
      /\ flow'[f].via = k
  BY DEF StoreFirst, TypeOK, FlowState, Others, SameWay
<1>b. DOMAIN conn' = DOMAIN conn
  BY DEF StoreFirst, TypeOK
<1>c. \A c \in DOMAIN conn \ {k} : conn'[c] = conn[c]
  BY DEF StoreFirst, TypeOK
<1>d. /\ conn'[k].from = n /\ conn'[k].to = m /\ conn'[k].st = conn[k].st
      /\ conn'[k].addr = conn[k].addr /\ conn'[k].late = flow[f].late
  <2>1. conn[k] \in Conn
    BY <1>f DEF TypeOK
  <2>2. conn'[k] = [conn[k] EXCEPT !.late = flow[f].late]
    BY <1>f DEF StoreFirst, TypeOK
  <2> QED
    BY <1>f, <2>1, <2>2 DEF Conn
<1>h. link'[n][m] = k /\ \A x, y \in Node : <<x, y>> # <<n, m>> => link'[x][y] = link[x][y]
  BY <1>e DEF StoreFirst, TypeOK
<1>g. k = flow[f].via /\ n = flow[f].at /\ m = flow[f].to
  OBVIOUS
<1> HIDE DEF k, n, m
<1> USE DEF Rest, Others, SameWay, SameConns
<1>1. PathInv'
  BY <1>a, <1>b, <1>c, <1>d, <1>e, <1>f, <1>g, <1>h DEF PathInv, LinkInv, ViaInv
<1>2. LabelInv'
  BY SMTT(30), <1>a, <1>b, <1>c, <1>d, <1>e, <1>f, <1>g, <1>h DEF LabelInv, ViaInv
<1>3. ViaInv'
  BY SMTT(30), <1>a, <1>b, <1>c, <1>d, <1>e, <1>f, <1>g, <1>h DEF ViaInv, LinkInv
<1>4. FreshInv'
  BY SMTT(30), <1>a, <1>b, <1>c, <1>d, <1>e, <1>f, <1>g, <1>h DEF FreshInv, ViaInv
<1>5. LinkInv'
  BY SMTT(30), <1>a, <1>b, <1>c, <1>d, <1>e, <1>f, <1>g, <1>h DEF LinkInv, ViaInv, FreshInv
<1>6. NoLeakedConn'
  <2> SUFFICES ASSUME NEW c \in DOMAIN conn', conn'[c].st = "open"
               PROVE  \/ link'[conn'[c].from][conn'[c].to] = c
                      \/ \E g \in Flow : flow'[g].st = "storing" /\ flow'[g].via = c
    BY DEF NoLeakedConn
  <2>1. CASE c = k
    BY <2>1, <1>d, <1>h
  <2>2. CASE c # k
    <3>1. c \in DOMAIN conn /\ conn'[c] = conn[c]
      BY <2>2, <1>b, <1>c
    <3>2. conn[c].from \in Node /\ conn[c].to \in Node /\ c # 0
      BY <3>1, ConnEnds
    <3>3. CASE link[conn[c].from][conn[c].to] = c
      BY <3>1, <3>2, <3>3, <1>e, <1>h
    <3>4. CASE \E g \in Flow : flow[g].st = "storing" /\ flow[g].via = c
      BY <3>4, <2>2, <1>a, <1>g
    <3> QED
      BY <3>1, <3>3, <3>4 DEF NoLeakedConn
  <2> QED
    BY <2>1, <2>2
<1> QED
  BY <1>1, <1>2, <1>3, <1>4, <1>5, <1>6

LEMMA OpenStreamStep ==
    ASSUME TypeOK, Rest, NEW f \in Flow, OpenStream(f)
    PROVE  Rest'
<1>a. /\ Others(f) /\ SameConns /\ flow'[f].label = flow[f].label
      /\ flow[f].st = "opening" /\ flow'[f].st = "deciding" /\ flow'[f].at = flow[f].to
      /\ flow'[f].depth = flow[f].depth + 1 /\ flow'[f].hops = flow[f].hops - 1
      /\ flow[f].hops - 1 > 0
  BY DEF OpenStream, HopsLeft, TypeOK, FlowState, Others, SameConns
<1>b. flow[f].hops \in Nat /\ flow[f].depth \in Nat /\ DefaultHops \in Nat
  BY FlowAssumption DEF TypeOK, FlowState
<1> USE DEF Rest, Others, SameWay, SameConns
<1>1. PathInv'
  BY <1>a, <1>b DEF PathInv
<1>2. LabelInv'
  BY <1>a, <1>b DEF LabelInv
<1>3. ViaInv'
  BY <1>a, <1>b DEF ViaInv
<1>4. FreshInv'
  BY <1>a, <1>b DEF FreshInv
<1>5. LinkInv'
  BY <1>a, <1>b DEF LinkInv
<1>6. NoLeakedConn'
  BY <1>a, <1>b DEF NoLeakedConn
<1> QED
  BY <1>1, <1>2, <1>3, <1>4, <1>5, <1>6

LEMMA StartStep ==
    ASSUME TypeOK, Rest, NEW f \in Flow, NEW n \in Node, NEW l \in Label, Start(f, n, l)
    PROVE  Rest'
<1>a. /\ Others(f) /\ SameConns
      /\ flow[f].st = "idle" /\ flow'[f].st = "deciding"
      /\ flow'[f].depth = 1 /\ flow'[f].hops = DefaultHops
  BY DEF Start, TypeOK, FlowState, Others, SameConns
<1>b. DefaultHops \in Nat \ {0}
  BY FlowAssumption
<1> USE DEF Rest, Others, SameWay, SameConns
<1>1. PathInv'
  BY <1>a, <1>b DEF PathInv
<1>2. LabelInv'
  BY <1>a, <1>b DEF LabelInv
<1>3. ViaInv'
  BY <1>a, <1>b DEF ViaInv
<1>4. FreshInv'
  BY <1>a, <1>b DEF FreshInv
<1>5. LinkInv'
  BY <1>a, <1>b DEF LinkInv
<1>6. NoLeakedConn'
  BY <1>a, <1>b DEF NoLeakedConn
<1> QED
  BY <1>1, <1>2, <1>3, <1>4, <1>5, <1>6

\* Reload and Restart: what becomes of the connections of n and of the flows at n.
LEMMA ReloadStep ==
    ASSUME TypeOK, Rest, NEW n \in Node, Reload(n)
    PROVE  Rest'
<1>a. /\ DOMAIN conn' = DOMAIN conn
      /\ \A c \in DOMAIN conn :
           \/ conn'[c] = conn[c]
           \/ /\ conn'[c].st = "closed"
              /\ link[n][conn[c].to] = c /\ conn[c].to \in Dropped(n) /\ conn[c].from = n
  <2>1. \A c \in DOMAIN conn : [conn[c] EXCEPT !.st = "closed"].st = "closed"
    BY DEF TypeOK, Conn
  <2> QED
    BY <2>1 DEF Reload
<1>b. \A f \in Flow :
        /\ flow'[f].st = flow[f].st /\ SameWay(f) /\ flow'[f].to = flow[f].to
        /\ flow'[f].addr = flow[f].addr /\ flow'[f].via = flow[f].via
        /\ ~flow'[f].late => ~flow[f].late
        /\ flow[f].st \in {"dialling", "storing"} /\ ~flow'[f].late => flow[f].at # n
  <2>1. \A f \in Flow :
          flow'[f] = IF flow[f].st \in {"dialling", "storing"} /\ flow[f].at = n
                     THEN [flow[f] EXCEPT !.late = TRUE] ELSE flow[f]
    BY DEF Reload
  <2>2. \A f \in Flow : flow[f] \in FlowState
    BY DEF TypeOK
  <2> QED
    BY <2>1, <2>2 DEF FlowState, SameWay
<1>c. /\ known'[n] = reg /\ \A x \in Node \ {n} : known'[x] = known[x] /\ link'[x] = link[x]
      /\ \A m \in Node : link'[n][m] = IF m \in Dropped(n) THEN 0 ELSE link[n][m]
  BY DEF Reload, TypeOK
<1>d. \A m \in Node : m \notin Dropped(n) /\ link[n][m] # 0
                         => reg[m].on /\ reg[m].addr = known[n][m].addr
  BY DEF Dropped
<1>e. \A c \in DOMAIN conn : conn[c].from \in Node /\ conn[c].to \in Node /\ c # 0
  BY ConnEnds
<1>f. \A f \in Flow : flow[f].at \in Node /\ flow[f].to \in Node
  BY DEF TypeOK, FlowState
<1>1. PathInv'
  BY <1>b DEF Rest, PathInv, SameWay
<1>2. LabelInv'
  BY <1>b DEF Rest, LabelInv, SameWay
<1>3. ViaInv'
  <2> SUFFICES ASSUME NEW f \in Flow PROVE
        /\ flow'[f].st = "opening" => flow'[f].via \in DOMAIN conn'
        /\ flow'[f].st = "storing" =>
               /\ flow'[f].via \in DOMAIN conn'
               /\ conn'[flow'[f].via].from = flow'[f].at /\ conn'[flow'[f].via].to = flow'[f].to
               /\ conn'[flow'[f].via].st # "closed"
               /\ \A x, y \in Node : link'[x][y] # flow'[f].via
               /\ \A g \in Flow \ {f} : flow'[g].st = "storing" => flow'[g].via # flow'[f].via
    BY DEF ViaInv
  <2>1. flow[f].st = "storing" => conn'[flow[f].via] = conn[flow[f].via]
    BY <1>a, <1>e DEF Rest, ViaInv
  <2> QED
    BY <2>1, <1>a, <1>b, <1>c, <1>e DEF Rest, ViaInv, SameWay
<1>4. FreshInv'
  <2>1. \A f \in Flow : flow[f].st = "storing" => conn'[flow[f].via] = conn[flow[f].via]
    BY <1>a, <1>e DEF Rest, ViaInv
  <2> QED
    BY <2>1, <1>b, <1>c, <1>f DEF Rest, FreshInv, SameWay
<1>5. LinkInv'
  <2> SUFFICES ASSUME NEW x \in Node, NEW y \in Node, link'[x][y] # 0 PROVE
            /\ link'[x][y] \in DOMAIN conn'
            /\ conn'[link'[x][y]].from = x /\ conn'[link'[x][y]].to = y
            /\ conn'[link'[x][y]].st # "closed"
            /\ ~conn'[link'[x][y]].late => /\ known'[x][y].on
                                           /\ known'[x][y].addr = conn'[link'[x][y]].addr
    BY DEF LinkInv
  <2>1. link'[x][y] = link[x][y] /\ (x = n => y \notin Dropped(n))
    BY <1>c
  <2>2. conn'[link[x][y]] = conn[link[x][y]]
    BY <2>1, <1>a, <1>e DEF Rest, LinkInv
  <2> QED
    BY <2>1, <2>2, <1>a, <1>c, <1>d DEF Rest, LinkInv
<1>6. NoLeakedConn'
  <2> SUFFICES ASSUME NEW c \in DOMAIN conn', conn'[c].st = "open"
               PROVE  \/ link'[conn'[c].from][conn'[c].to] = c
                      \/ \E g \in Flow : flow'[g].st = "storing" /\ flow'[g].via = c
    BY DEF NoLeakedConn
  <2>1. c \in DOMAIN conn /\ conn'[c] = conn[c]
    BY <1>a
  <2>2. CASE link[conn[c].from][conn[c].to] = c
    <3>1. ~(conn[c].from = n /\ conn[c].to \in Dropped(n))
      <4>1. ASSUME conn[c].from = n, conn[c].to \in Dropped(n) PROVE FALSE
        <5>1. conn'[c] = [conn[c] EXCEPT !.st = "closed"]
          BY <2>1, <2>2, <4>1 DEF Reload
        <5>2. conn[c] \in Conn
          BY <2>1 DEF TypeOK
        <5>3. conn'[c].st = "closed"
          BY <5>1, <5>2 DEF Conn
        <5> QED
          BY <5>3
      <4> QED
        BY <4>1
    <3> QED
      BY <2>1, <2>2, <3>1, <1>c, <1>e
  <2>3. CASE \E g \in Flow : flow[g].st = "storing" /\ flow[g].via = c
    BY <2>3, <1>b
  <2> QED
    BY <2>1, <2>2, <2>3 DEF Rest, NoLeakedConn
<1> QED
  BY <1>1, <1>2, <1>3, <1>4, <1>5, <1>6 DEF Rest

LEMMA RestartStep ==
    ASSUME TypeOK, Rest, NEW n \in Node, Restart(n)
    PROVE  Rest'
<1>a. /\ DOMAIN conn' = DOMAIN conn
      /\ \A c \in DOMAIN conn :
           /\ conn'[c].from = conn[c].from /\ conn'[c].to = conn[c].to
           /\ conn'[c].addr = conn[c].addr /\ conn'[c].late = conn[c].late
           /\ conn'[c].st = "open" => conn[c].st = "open"
           /\ conn[c].from = n => conn'[c].st = "closed"
           /\ conn'[c].st = "closed" => conn[c].from = n \/ conn[c].st = "closed"
  <2>1. DOMAIN conn' = DOMAIN conn
    BY DEF Restart
  <2>2. \A c \in DOMAIN conn :
          conn'[c] = IF conn[c].from = n THEN [conn[c] EXCEPT !.st = "closed"]
                     ELSE IF conn[c].to = n /\ conn[c].st = "open"
                          THEN [conn[c] EXCEPT !.st = "dead"] ELSE conn[c]
    BY DEF Restart
  <2>3. \A c \in DOMAIN conn : conn[c] \in Conn
    BY DEF TypeOK
  <2> QED
    BY <2>1, <2>2, <2>3 DEF Conn
<1>b. \A f \in Flow :
        \/ flow'[f] = flow[f]
        \/ flow'[f].st = "cut" /\ flow[f].st # "idle" /\ SameWay(f)
  <2>1. \A f \in Flow :
          flow'[f] = IF flow[f].st \in Active /\ flow[f].at = n
                     THEN [flow[f] EXCEPT !.st = "cut", !.to = Master, !.addr = 0, !.via = 0,
                                          !.late = FALSE] ELSE flow[f]
    BY DEF Restart
  <2>2. \A f \in Flow : flow[f] \in FlowState
    BY DEF TypeOK
  <2> QED
    BY <2>1, <2>2 DEF FlowState, SameWay, Active
<1>c. \A f \in Flow : flow[f].st \in Active /\ flow[f].at = n => flow'[f].st = "cut"
  <2>1. \A f \in Flow : flow[f].st \in Active /\ flow[f].at = n =>
          flow'[f] = [flow[f] EXCEPT !.st = "cut", !.to = Master, !.addr = 0, !.via = 0,
                                     !.late = FALSE]
    BY DEF Restart
  <2>2. \A f \in Flow : flow[f] \in FlowState
    BY DEF TypeOK
  <2> QED
    BY <2>1, <2>2 DEF FlowState
<1>d. /\ \A x \in Node \ {n} : known'[x] = known[x] /\ link'[x] = link[x]
      /\ \A m \in Node : link'[n][m] = 0
  BY DEF Restart, TypeOK
<1>e. \A c \in DOMAIN conn : conn[c].from \in Node /\ conn[c].to \in Node /\ c # 0
  BY ConnEnds
<1>f. \A f \in Flow : flow[f].at \in Node /\ flow[f].to \in Node /\ flow[f].st \in Phase
  BY DEF TypeOK, FlowState
<1>1. PathInv'
  BY <1>b DEF Rest, PathInv, SameWay
<1>2. LabelInv'
  BY <1>b DEF Rest, LabelInv, SameWay
<1>g. \A f \in Flow : flow'[f].st \in {"dialling", "storing"} =>
        flow'[f] = flow[f] /\ flow[f].at # n
  BY <1>b, <1>c, <1>f DEF Active
<1>3. ViaInv'
  <2>1. ASSUME NEW f \in Flow, flow'[f].st = "opening" PROVE flow'[f].via \in DOMAIN conn'
    BY <2>1, <1>a, <1>b DEF Rest, ViaInv
  <2>2. ASSUME NEW f \in Flow, flow'[f].st = "storing" PROVE
               /\ flow'[f].via \in DOMAIN conn'
               /\ conn'[flow'[f].via].from = flow'[f].at /\ conn'[flow'[f].via].to = flow'[f].to
               /\ conn'[flow'[f].via].st # "closed"
               /\ \A x, y \in Node : link'[x][y] # flow'[f].via
               /\ \A g \in Flow \ {f} : flow'[g].st = "storing" => flow'[g].via # flow'[f].via
    <3>1. flow'[f] = flow[f] /\ flow[f].at # n /\ flow[f].st = "storing"
      BY <2>2, <1>g
    <3>2. /\ flow[f].via \in DOMAIN conn
          /\ conn[flow[f].via].from = flow[f].at /\ conn[flow[f].via].to = flow[f].to
          /\ conn[flow[f].via].st # "closed"
          /\ \A x, y \in Node : link[x][y] # flow[f].via
          /\ \A g \in Flow \ {f} : flow[g].st = "storing" => flow[g].via # flow[f].via
      BY <3>1 DEF Rest, ViaInv
    <3>3. /\ flow[f].via \in DOMAIN conn'
          /\ conn'[flow[f].via].from = flow[f].at /\ conn'[flow[f].via].to = flow[f].to
          /\ conn'[flow[f].via].st # "closed"
      BY <3>1, <3>2, <1>a
    <3>4. \A x, y \in Node : link'[x][y] # flow[f].via
      BY <3>2, <1>d, <1>e
    <3>5. \A g \in Flow \ {f} : flow'[g].st = "storing" => flow'[g].via # flow[f].via
      BY <3>2, <1>g
    <3> QED
      BY <3>1, <3>3, <3>4, <3>5
  <2> QED
    BY <2>1, <2>2 DEF ViaInv
<1>4. FreshInv'
  <2>1. \A f \in Flow : flow'[f].st = "storing" =>
          flow[f].via \in DOMAIN conn /\ conn'[flow[f].via].addr = conn[flow[f].via].addr
    BY <1>a, <1>g DEF Rest, ViaInv
  <2> QED
    BY <2>1, <1>g, <1>d, <1>f DEF Rest, FreshInv
<1>5. LinkInv'
  <2> SUFFICES ASSUME NEW x \in Node, NEW y \in Node, link'[x][y] # 0 PROVE
            /\ link'[x][y] \in DOMAIN conn'
            /\ conn'[link'[x][y]].from = x /\ conn'[link'[x][y]].to = y
            /\ conn'[link'[x][y]].st # "closed"
            /\ ~conn'[link'[x][y]].late => /\ known'[x][y].on
                                           /\ known'[x][y].addr = conn'[link'[x][y]].addr
    BY DEF LinkInv
  <2>1. x # n /\ link'[x][y] = link[x][y] /\ known'[x] = known[x]
    BY <1>d
  <2> QED
    BY <2>1, <1>a DEF Rest, LinkInv
<1>6. NoLeakedConn'
  <2> SUFFICES ASSUME NEW c \in DOMAIN conn', conn'[c].st = "open"
               PROVE  \/ link'[conn'[c].from][conn'[c].to] = c
                      \/ \E g \in Flow : flow'[g].st = "storing" /\ flow'[g].via = c
    BY DEF NoLeakedConn
  <2>1. /\ c \in DOMAIN conn /\ conn[c].st = "open" /\ conn[c].from # n
        /\ conn'[c].from = conn[c].from /\ conn'[c].to = conn[c].to
    BY <1>a
  <2>2. CASE link[conn[c].from][conn[c].to] = c
    BY <2>1, <2>2, <1>d, <1>e
  <2>3. CASE \E g \in Flow : flow[g].st = "storing" /\ flow[g].via = c
    <3>1. PICK g \in Flow : flow[g].st = "storing" /\ flow[g].via = c
      BY <2>3
    <3>2. flow[g].at # n
      BY <3>1, <2>1 DEF Rest, ViaInv
    <3>3. flow'[g] = flow[g]
      <4>1. flow'[g] = IF flow[g].st \in Active /\ flow[g].at = n
                     THEN [flow[g] EXCEPT !.st = "cut", !.to = Master, !.addr = 0, !.via = 0,
                                          !.late = FALSE] ELSE flow[g]
        BY DEF Restart
      <4> QED
        BY <3>2, <4>1
    <3> QED
      BY <3>1, <3>3
  <2> QED
    BY <2>1, <2>2, <2>3 DEF Rest, NoLeakedConn
<1> QED
  BY <1>1, <1>2, <1>3, <1>4, <1>5, <1>6 DEF Rest

LEMMA BreakStep ==
    ASSUME TypeOK, Rest, NEW c \in DOMAIN conn, Break(c)
    PROVE  Rest'
<1>a. /\ DOMAIN conn' = DOMAIN conn /\ \A d \in DOMAIN conn \ {c} : conn'[d] = conn[d]
      /\ UNCHANGED <<known, link, flow>>
  BY DEF Break, TypeOK
<1>b. /\ conn'[c].st = "dead" /\ conn'[c].from = conn[c].from /\ conn'[c].to = conn[c].to
      /\ conn'[c].addr = conn[c].addr /\ conn'[c].late = conn[c].late
  <2>1. conn[c] \in Conn /\ conn'[c] = [conn[c] EXCEPT !.st = "dead"]
    BY DEF Break, TypeOK
  <2> QED
    BY <2>1 DEF Conn
<1>c. \A d \in DOMAIN conn :
        /\ conn'[d].from = conn[d].from /\ conn'[d].to = conn[d].to
        /\ conn'[d].addr = conn[d].addr /\ conn'[d].late = conn[d].late
        /\ conn'[d].st = "open" => conn[d].st = "open"
        /\ conn'[d].st = "closed" => conn[d].st = "closed"
  BY <1>a, <1>b
<1>1. PathInv'
  BY <1>a DEF Rest, PathInv
<1>2. LabelInv'
  BY <1>a DEF Rest, LabelInv
<1>3. ViaInv'
  BY <1>a, <1>c DEF Rest, ViaInv
<1>4. FreshInv'
  BY <1>a, <1>c DEF Rest, FreshInv, ViaInv
<1>5. LinkInv'
  BY <1>a, <1>c DEF Rest, LinkInv
<1>6. NoLeakedConn'
  BY <1>a, <1>c DEF Rest, NoLeakedConn
<1> QED
  BY <1>1, <1>2, <1>3, <1>4, <1>5, <1>6 DEF Rest

\* What leaves the flows, the connections and what is known of them alone.
LEMMA QuietStep ==
    ASSUME Rest, UNCHANGED <<known, link, conn, flow>>
    PROVE  Rest'
BY DEF Rest, PathInv, LabelInv, ViaInv, FreshInv, LinkInv, NoLeakedConn

LEMMA StepStep ==
    ASSUME TypeOK, Rest, NEW f \in Flow, Step(f)
    PROVE  Rest'
<1>0. flow[f] \in FlowState
  BY DEF TypeOK
<1>1. CASE DecideExit(f)
  <2>1. /\ Others(f) /\ SameWay(f) /\ SameConns
        /\ flow[f].st = "deciding" /\ flow'[f].st = "exiting"
    BY <1>0, <1>1 DEF DecideExit, Release, TypeOK, FlowState, Others, SameWay, SameConns
  <2> QED
    BY <2>1, PlainStep
<1>2. CASE DialFail(f)
  <2>1. /\ Others(f) /\ SameWay(f) /\ SameConns
        /\ flow[f].st = "dialling" /\ flow'[f].st = "exiting"
    BY <1>0, <1>2 DEF DialFail, Release, TypeOK, FlowState, Others, SameWay, SameConns
  <2> QED
    BY <2>1, PlainStep
<1>3. CASE OpenFail(f)
  <2>1. /\ Others(f) /\ SameWay(f) /\ SameConns
        /\ flow[f].st = "opening" /\ flow'[f].st = "refused"
    BY <1>0, <1>3 DEF OpenFail, Release, TypeOK, FlowState, Others, SameWay, SameConns
  <2> QED
    BY <2>1, PlainStep
<1>4. CASE Leave(f)
  <2>1. /\ Others(f) /\ SameWay(f) /\ SameConns
        /\ flow[f].st = "exiting" /\ flow'[f].st \in {"out", "unreached"}
    BY <1>0, <1>4 DEF Leave, Advance, TypeOK, FlowState, Others, SameWay, SameConns
  <2> QED
    BY <2>1, PlainStep
<1> QED
  BY <1>1, <1>2, <1>3, <1>4, DecideLinkStep, DecideDialStep, DialDoneStep, StoreSecondStep,
     StoreFirstStep, OpenStreamStep DEF Step

LEMMA NextIInv == IInv /\ [Next]_vars => IInv'
<1> SUFFICES ASSUME IInv, [Next]_vars PROVE IInv'
  OBVIOUS
<1>0. TypeOK /\ Rest /\ ViaInv
  BY DEF IInv, Rest
<1>1. TypeOK'
  BY <1>0, TypeLemma
<1>2. Rest'
  <2>1. CASE UNCHANGED vars
    BY <1>0, <2>1, QuietStep DEF vars
  <2>2. ASSUME NEW m \in Node, Change(m) PROVE Rest'
    BY <1>0, <2>2, QuietStep DEF Change
  <2>3. ASSUME NEW n \in Node, NEW m \in Node, CooldownEnds(n, m) PROVE Rest'
    BY <1>0, <2>3, QuietStep DEF CooldownEnds
  <2> QED
    BY <1>0, <2>1, <2>2, <2>3, ReloadStep, RestartStep, BreakStep, StartStep, StepStep DEF Next
<1> QED
  BY <1>1, <1>2 DEF IInv, Rest

LEMMA Inductive == Spec => []IInv
BY InitIInv, NextIInv, PTL DEF Spec
-----------------------------------------------------------------------------
(***************************************************************************)
(* The theorems                                                            *)
(***************************************************************************)

\* The state stays of its types: no flow names a node that is not one, or a connection
\* that was never raised.
THEOREM TypeCorrect == Spec => []TypeOK
<1>1. IInv => TypeOK
  BY DEF IInv
<1> QED
  BY <1>1, Inductive, PTL

\* However many flows raise a connection to one neighbour at a time, beside any Reload
\* (links.go:139-148), none is left open without an owner.
THEOREM NoLeak == Spec => []NoLeakedConn
<1>1. IInv => NoLeakedConn
  BY DEF IInv
<1> QED
  BY <1>1, Inductive, PTL

\* A kept connection leads where the node's registry says, unless the registry was
\* reread while it was being raised (links.go:84-91).
THEOREM LinksFollow == Spec => []LinksFollowRegistry
<1>1. IInv => LinksFollowRegistry
  BY DEF IInv, LinkInv, LinksFollowRegistry
<1> QED
  BY <1>1, Inductive, PTL

\* The hop limit bounds the streams a flow holds, whatever the labels and the nodes
\* do (chain.go:14-16).
THEOREM Streams == Spec => []StreamsBounded
<1>1. IInv => StreamsBounded
  <2> SUFFICES ASSUME IInv, NEW f \in Flow PROVE flow[f].depth <= DefaultHops
    BY DEF StreamsBounded
  <2>1. flow[f].depth \in Nat /\ flow[f].hops \in Nat /\ DefaultHops \in Nat
    BY FlowAssumption DEF IInv, TypeOK, FlowState
  <2> QED
    BY <2>1 DEF IInv, PathInv
<1> QED
  BY <1>1, Inductive, PTL

\* A named exit is honoured, or given up at the flow's entry (route_decide.go:29-60).
THEOREM LabelsHonoured == Spec => []LabelHonoured
<1>1. IInv => LabelHonoured
  BY DEF IInv, LabelInv, LabelHonoured
<1> QED
  BY <1>1, Inductive, PTL

-----------------------------------------------------------------------------
(* Balance. *)

\* No wins are counted while the choice is cooling.
CoolInv == since < Cooldown => wins = 0

BalanceInv == BalanceTypeOK /\ WinsAreReal /\ CoolInv
-----------------------------------------------------------------------------
\* Every set of numbers has a least one.
LEMMA Least ==
    ASSUME NEW S \in SUBSET Nat, S # {}
    PROVE  \E n \in S : \A m \in S : n <= m
<1> DEFINE R == {ss \in Nat \X Nat : ss[1] < ss[2]}
<1>1. IsWellFoundedOn(R, Nat)
  BY NatLessThanWellFounded DEF OpToRel
<1>2. ASSUME NEW x \in S, NEW y \in S, <<y, x>> \notin R PROVE x <= y
  <2>1. x \in Nat /\ y \in Nat
    OBVIOUS
  <2>2. <<y, x>> \in Nat \X Nat
    BY <2>1
  <2>3. ~(y < x)
    BY <1>2, <2>2
  <2> QED
    BY <2>1, <2>3
<1> HIDE DEF R
<1>3. \E x \in S : \A y \in S : ~(<<y, x>> \in R)
  BY <1>1, WFMin
<1> QED
  BY <1>2, <1>3

LEMMA FirstOf ==
    ASSUME NEW S \in SUBSET Nat, S # {}
    PROVE  First(S) \in S /\ \A m \in S : First(S) <= m
BY Least DEF First

LEMMA SampleCost ==
    ASSUME NEW s \in Sample
    PROVE  s.cost \in Nat
<1>1. s.cost \in Cost \cup {0}
  BY Zenon DEF Sample
<1>2. Cost \subseteq Nat
  BY BalanceAssumption
<1>3. 0 \in Nat
  OBVIOUS
<1> QED
  BY <1>1, <1>2, <1>3, Zenon

\* A pick chooses one of its candidates, and a measured one if it can.
LEMMA BestOf ==
    ASSUME BalanceTypeOK, NEW S \in SUBSET Neighbour, S # {}
    PROVE  Best(S) \in S
<1> DEFINE measured == {n \in S : Fresh(n)}
           cheap == {n \in measured : \A m \in measured : sample[n].cost <= sample[m].cost}
           costs == {sample[n].cost : n \in measured}
<1>1. S \in SUBSET Nat
  BY BalanceAssumption
<1>2. CASE measured = {}
  <2>1. Best(S) = First(S)
    BY <1>2 DEF Best
  <2> QED
    BY <1>1, <2>1, FirstOf
<1>3. CASE measured # {}
  <2>1. \A n \in S : sample[n].cost \in Nat
    <3>1. \A n \in S : sample[n] \in Sample
      BY DEF BalanceTypeOK
    <3> QED
      BY <3>1, SampleCost
  <2>2. costs \in SUBSET Nat /\ costs # {}
    BY <1>3, <2>1
  <2>3. PICK c \in costs : \A d \in costs : c <= d
    BY <2>2, Least
  <2>4. cheap # {}
    BY <2>3
  <2>5. First(cheap) \in cheap
    BY <1>1, <2>4, FirstOf
  <2>6. Best(S) = First(cheap)
    BY <1>3 DEF Best
  <2> QED
    BY <2>5, <2>6
<1> QED
  BY <1>2, <1>3

LEMMA InitBalanceInv == BalanceInit => BalanceInv
BY BalanceAssumption DEF BalanceInit, BalanceInv, BalanceTypeOK, WinsAreReal, CoolInv, Sample, NoSample, None

\* The state in which a pick from S leaves the decision.
LEMMA PickTypes ==
    ASSUME BalanceInv, NEW p \in Picker, Pick(p)
    PROVE  BalanceInv'
<1> DEFINE S == pick[p]
<1>1. S \in SUBSET Neighbour /\ S # {}
  BY DEF Pick, BalanceInv, BalanceTypeOK
<1>2. Best(S) \in S /\ Best(S) \in Neighbour
  BY <1>1, BestOf DEF BalanceInv
<1>3. beat' = [n \in Neighbour |->
                 IF Beats(n, S) /\ choice' = choice
                 THEN IF beat[n] < HoldWindows THEN beat[n] + 1 ELSE beat[n]
                 ELSE 0]
  BY DEF Pick
<1>4. UNCHANGED <<net, sample>> /\ pick' = [pick EXCEPT ![p] = {}]
  BY DEF Pick
<1>a. HoldWindows \in Nat \ {0, 1} /\ Cooldown \in Nat
  BY BalanceAssumption
<1>b. \A n \in Neighbour : beat[n] \in 0..HoldWindows
  BY DEF BalanceInv, BalanceTypeOK
<1>c. choice \in Neighbour \cup {None} /\ challenger \in Neighbour \cup {None}
      /\ since \in 0..Cooldown /\ wins \in 0..HoldWindows - 1
  BY DEF BalanceInv, BalanceTypeOK
<1>5. beat' \in [Neighbour -> 0..HoldWindows]
  BY <1>3, <1>a, <1>b
<1>6. /\ choice' \in Neighbour \cup {None} /\ challenger' \in Neighbour \cup {None}
      /\ since' \in 0..Cooldown /\ wins' \in 0..HoldWindows - 1
      /\ WinsAreReal' /\ CoolInv'
  <2>1. CASE PickFirst(S)
    BY <2>1, <1>2, <1>a DEF PickFirst, Decide, WinsAreReal, CoolInv
  <2>2. CASE PickSame(S)
    BY <2>2, <1>c, <1>a DEF PickSame, Decide, WinsAreReal, CoolInv
  <2>3. CASE PickUnworthy(S)
    BY <2>3, <1>c, <1>a DEF PickUnworthy, Decide, WinsAreReal, CoolInv
  <2>4. CASE PickSwitch(S)
    BY <2>4, <1>2, <1>a DEF PickSwitch, Decide, WinsAreReal, CoolInv
  <2>5. CASE PickChallenger(S)
    <3>1. /\ choice' = choice /\ since' = since /\ since >= Cooldown
          /\ challenger' = Best(S) /\ wins' = 1
          /\ Best(S) # choice /\ choice \in S /\ Worth(choice, Best(S))
      BY <2>5, <1>a DEF PickChallenger, Winning, Lost, Decide
    <3>2. Beats(Best(S), S)
      BY <3>1 DEF Beats
    <3>3. beat'[Best(S)] >= 1
      BY <3>1, <3>2, <1>2, <1>3, <1>a, <1>b
    <3> QED
      BY <3>1, <3>3, <1>2, <1>c, <1>a DEF WinsAreReal, CoolInv
  <2>6. CASE PickWin(S)
    <3>1. /\ choice' = choice /\ since' = since /\ since >= Cooldown
          /\ challenger' = challenger
          /\ challenger = Best(S) /\ wins' = wins + 1 /\ wins + 1 < HoldWindows
          /\ Best(S) # choice /\ choice \in S /\ Worth(choice, Best(S))
      BY <2>6 DEF PickWin, Winning, Lost, Decide
    <3>2. Beats(Best(S), S)
      BY <3>1 DEF Beats
    <3>3. beat'[Best(S)] = IF beat[Best(S)] < HoldWindows THEN beat[Best(S)] + 1
                           ELSE beat[Best(S)]
      BY <3>1, <3>2, <1>2, <1>3
    <3>4. wins > 0 => beat[Best(S)] >= wins
      BY <3>1 DEF BalanceInv, WinsAreReal
    <3>5. beat'[Best(S)] >= wins + 1
      BY <3>1, <3>3, <3>4, <1>2, <1>a, <1>b, <1>c
    <3> QED
      BY <3>1, <3>5, <1>2, <1>c, <1>a DEF WinsAreReal, CoolInv
  <2>7. CASE PickCooling(S)
    <3>1. UNCHANGED decision /\ wins = 0
      BY <2>7 DEF PickCooling, BalanceInv, CoolInv
    <3> QED
      BY <3>1, <1>c, <1>a DEF WinsAreReal, CoolInv, decision
  <2> QED
    BY <2>1, <2>2, <2>3, <2>4, <2>5, <2>6, <2>7 DEF Pick
<1>7. span' \in 0..HoldWindows
  BY <1>a DEF Pick, BalanceInv, BalanceTypeOK
<1> QED
  BY <1>4, <1>5, <1>6, <1>7 DEF BalanceInv, BalanceTypeOK, net

LEMMA NextBalanceInv == BalanceInv /\ [BalanceNext]_balanceVars => BalanceInv'
<1> SUFFICES ASSUME BalanceInv, [BalanceNext]_balanceVars PROVE BalanceInv'
  OBVIOUS
<1>0. BalanceTypeOK /\ WinsAreReal /\ CoolInv
  BY DEF BalanceInv
<1>a. UNCHANGED <<decision, history>> /\ BalanceTypeOK' => BalanceInv'
  BY <1>0 DEF BalanceInv, WinsAreReal, CoolInv, decision, history
<1> USE DEF history
<1>1. CASE UNCHANGED balanceVars
  BY <1>0, <1>1, <1>a DEF balanceVars, net, decision, BalanceTypeOK
<1>2. ASSUME NEW n \in Neighbour, Raise(n) PROVE BalanceInv'
  BY <1>0, <1>2, <1>a DEF Raise, decision, BalanceTypeOK
<1>3. ASSUME NEW n \in Neighbour, PathDies(n) PROVE BalanceInv'
  <2>1. breaks' \in 0..MaxBreaks
    BY <1>0, <1>3, BalanceAssumption DEF PathDies, BalanceTypeOK
  <2> QED
    BY <1>0, <1>3, <1>a, <2>1 DEF PathDies, decision, BalanceTypeOK
<1>4. ASSUME NEW n \in Neighbour, Reread(n) PROVE BalanceInv'
  <2>1. breaks' \in 0..MaxBreaks
    BY <1>0, <1>4, BalanceAssumption DEF Reread, BalanceTypeOK
  <2>2. NoSample \in Sample
    BY BalanceAssumption DEF NoSample, Sample
  <2>3. sample' \in [Neighbour -> Sample]
    BY <1>0, <1>4, <2>2 DEF Reread, BalanceTypeOK
  <2>4. listed' \subseteq Neighbour /\ kept' \in [Neighbour -> {"none", "open", "dead"}]
    BY <1>0, <1>4 DEF Reread, BalanceTypeOK
  <2> QED
    BY <1>0, <1>4, <1>a, <2>1, <2>3, <2>4 DEF Reread, decision, BalanceTypeOK
<1>5. ASSUME NEW n \in Neighbour, Return(n) PROVE BalanceInv'
  BY <1>0, <1>5, <1>a DEF Return, decision, BalanceTypeOK
<1>6. ASSUME NEW n \in Neighbour, Observe(n) PROVE BalanceInv'
  <2>1. \A c \in Cost : [cost |-> c, age |-> 0] \in Sample
    BY BalanceAssumption DEF Sample
  <2>2. sample' \in [Neighbour -> Sample]
    BY <1>0, <1>6, <2>1 DEF Observe, BalanceTypeOK
  <2> QED
    BY <1>0, <1>6, <1>a, <2>2 DEF Observe, decision, BalanceTypeOK
<1>7. CASE Tick
  <2>1. \A s \in Sample : Older(s) \in Sample
    <3> SUFFICES ASSUME NEW s \in Sample PROVE Older(s) \in Sample
      OBVIOUS
    <3>1. s.cost \in Cost \cup {0} /\ s.age \in 0..StaleAfter + 1 /\ StaleAfter \in Nat
      BY BalanceAssumption DEF Sample
    <3>2. CASE s.cost # 0 /\ s.age <= StaleAfter
      <4>1. s.age + 1 \in 0..StaleAfter + 1
        BY <3>1, <3>2
      <4>2. Older(s) = [s EXCEPT !.age = @ + 1]
        BY <3>2 DEF Older
      <4> QED
        BY <3>1, <4>1, <4>2 DEF Sample
    <3>3. CASE ~(s.cost # 0 /\ s.age <= StaleAfter)
      BY <3>3 DEF Older
    <3> QED
      BY <3>2, <3>3
  <2>2. sample' \in [Neighbour -> Sample] /\ due' \subseteq Neighbour
    BY <1>0, <1>7, <2>1 DEF Tick, BalanceTypeOK
  <2>3. since' \in 0..Cooldown /\ (since' < Cooldown => since < Cooldown)
    BY <1>0, <1>7, BalanceAssumption DEF Tick, BalanceTypeOK
  <2>4. span' \in 0..HoldWindows
    BY <1>0, <1>7, BalanceAssumption DEF Tick, BalanceTypeOK
  <2>5. BalanceTypeOK'
    BY <1>0, <1>7, <2>2, <2>3, <2>4 DEF Tick, BalanceTypeOK
  <2> QED
    BY <1>0, <1>7, <2>3, <2>5 DEF Tick, BalanceInv, WinsAreReal, CoolInv
<1>8. ASSUME NEW p \in Picker, Gather(p) PROVE BalanceInv'
  <2>1. BalanceTypeOK'
    BY <1>0, <1>8 DEF Gather, BalanceTypeOK, net, decision
  <2> QED
    BY <1>8, <1>a, <2>1 DEF Gather, decision
<1> QED
  BY <1>1, <1>2, <1>3, <1>4, <1>5, <1>6, <1>7, <1>8, PickTypes DEF BalanceNext

LEMMA BalanceInductive == BalanceSpec => []BalanceInv
BY InitBalanceInv, NextBalanceInv, PTL DEF BalanceSpec
-----------------------------------------------------------------------------
(***************************************************************************)
(* The theorems                                                            *)
(***************************************************************************)

\* The choice and its challenger are candidates or nobody, for any number of nodes.
THEOREM BalanceTyped == BalanceSpec => []BalanceTypeOK
<1>1. BalanceInv => BalanceTypeOK
  BY DEF BalanceInv
<1> QED
  BY <1>1, BalanceInductive, PTL

\* The count of wins is never more than the picks the challenger has won in a row
\* (balance.go:148-156).
THEOREM WinsReal == BalanceSpec => []WinsAreReal
<1>1. BalanceInv => WinsAreReal
  BY DEF BalanceInv
<1> QED
  BY <1>1, BalanceInductive, PTL

\* The move that an action makes, if it makes one.
Earned ==
    \A p \in Picker : MovesOff(p) =>
            /\ since = Cooldown
            /\ Fresh(choice') /\ Worth(choice, choice')
            /\ beat[choice'] + 1 >= HoldWindows

LEMMA PickEarned ==
    ASSUME BalanceInv, NEW q \in Picker, Pick(q)
    PROVE  Earned
<1> USE DEF MovesOff
<1> SUFFICES ASSUME NEW p \in Picker, MovesOff(p)
             PROVE  /\ since = Cooldown
                    /\ Fresh(choice') /\ Worth(choice, choice')
                    /\ beat[choice'] + 1 >= HoldWindows
  BY DEF Earned
<1>1. p = q
  BY DEF Pick, BalanceInv, BalanceTypeOK
<1>2. PickSwitch(pick[p])
  BY <1>1 DEF Pick, PickFirst, PickSame, PickCooling, PickUnworthy, PickChallenger, PickWin,
     Decide, decision, Lost
<1>3. /\ choice' = Best(pick[p]) /\ challenger = Best(pick[p]) /\ wins + 1 >= HoldWindows
      /\ since >= Cooldown /\ Worth(choice, Best(pick[p]))
  BY <1>2 DEF PickSwitch, Winning, Decide
<1>4. since \in 0..Cooldown /\ wins \in Nat /\ Cooldown \in Nat /\ HoldWindows \in Nat \ {0, 1}
  BY BalanceAssumption DEF BalanceInv, BalanceTypeOK
<1>5. wins > 0
  BY <1>3, <1>4
<1>6. challenger \in Neighbour /\ beat[challenger] >= wins
  BY <1>5 DEF BalanceInv, WinsAreReal
<1>7. beat[challenger] \in Nat
  BY <1>6, <1>4 DEF BalanceInv, BalanceTypeOK
<1> QED
  BY <1>3, <1>4, <1>6, <1>7 DEF Worth

\* A flow's exit is moved off a candidate only after the cooldown, to a node measured to
\* be better at HoldWindows picks in a row (balance.go:34-53), whatever the costs, the
\* thresholds and the number of nodes and flows.
THEOREM MovesEarned == BalanceSpec => SwitchesEarned
<1>1. BalanceInv /\ [BalanceNext]_balanceVars => [Earned]_balanceVars
  <2> SUFFICES ASSUME BalanceInv, BalanceNext PROVE Earned
    OBVIOUS
  <2>1. UNCHANGED choice => Earned
    BY DEF Earned, MovesOff
  <2>2. ASSUME NEW n \in Neighbour, Raise(n) \/ PathDies(n) \/ Reread(n) \/ Return(n) \/ Observe(n)
        PROVE Earned
    BY <2>1, <2>2 DEF Raise, PathDies, Reread, Return, Observe, decision
  <2>3. CASE Tick
    BY <2>1, <2>3 DEF Tick
  <2>4. ASSUME NEW p \in Picker, Gather(p) PROVE Earned
    BY <2>1, <2>4 DEF Gather, decision
  <2> QED
    BY <2>2, <2>3, <2>4, PickEarned DEF BalanceNext
<1> QED
  BY <1>1, BalanceInductive, PTL DEF BalanceSpec, SwitchesEarned, Earned
=============================================================================
