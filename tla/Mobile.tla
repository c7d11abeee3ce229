------------------------------- MODULE Mobile -------------------------------
(***************************************************************************)
(* The client on Android: StartEngine and StopEngine, which the app calls  *)
(* with the descriptor of a TUN device, the worker that dials the node or, *)
(* failing that, processes packets in a local netstack, and the pumps of   *)
(* the CONNECT-IP engine between the two.                                  *)
(*                                                                         *)
(* Every start makes an adapter of its own; globalAdapter is the one that  *)
(* the next call will find.  An adapter that a call has let go must give   *)
(* back its descriptor, its tunnel and its goroutines by itself.           *)
(*                                                                         *)
(* A packet is counted, not told from another.  Bounds: starts, packets    *)
(* that come from outside, failures of the device, the node or netstack.   *)
(***************************************************************************)
EXTENDS Naturals

CONSTANTS
    MaxStarts,      \* bound: adapters
    PairSize,       \* room in each direction of a netstack's tunnel (mobile: 512)
    InSize,         \* room between the reader of a tunnel and its pump (connectip: 2048)
    Scenarios       \* bound: starts, packets from outside, failures nobody asked for; one is chosen

ASSUME MobileAssumption ==
    /\ MaxStarts \in Nat /\ PairSize \in Nat \ {0} /\ InSize \in Nat \ {0}
    /\ Scenarios \subseteq [starts : 0..MaxStarts, packets : Nat, fails : Nat]

VARIABLES
    globalAdapter,  \* the adapter calls work on, 0 for nil
    call,           \* what the call under adapterLock does next: "none", "stop", "new"
    made,           \* adapters made so far
    ad,             \* the adapters
    starts, packets, fails  \* of the budget, what is left

mobileVars == <<globalAdapter, call, made, ad, starts, packets, fails>>

Adapter == 1..MaxStarts
\* logStats, which ends with the context, is left out.
Goroutine == {"out", "rd", "in", "ns", "eg"}

(***************************************************************************)
(* mobileAdapter with what its worker holds.  tun: the tunnel of the       *)
(* engine, a client of the node or the pair of ends before a netstack;     *)
(* held: a.cipClient is set; pc: the worker; go: what each goroutine of    *)
(* engine and netstack does; errc, ch, up, down: what is in the channels.  *)
(***************************************************************************)
Fresh(remote) ==
    [running |-> TRUE, state |-> "connecting", cancelled |-> FALSE, fd |-> "open",
     remote |-> remote, tun |-> "none", held |-> FALSE, pc |-> "begin",
     go |-> [g \in Goroutine |-> "none"], errc |-> 0, ch |-> 0, up |-> 0, down |-> 0]

Absent == [Fresh(FALSE) EXCEPT !.running = FALSE, !.state = "none", !.fd = "none", !.pc = "none"]

MobileTypeOK ==
    /\ globalAdapter \in 0..MaxStarts /\ call \in {"none", "stop", "new"} /\ made \in 0..MaxStarts
    /\ \A i \in Adapter :
         /\ ad[i].state \in {"none", "connecting", "connected", "stopped"}
         /\ ad[i].fd \in {"none", "open", "closed"} /\ ad[i].tun \in {"none", "open", "closed"}
         /\ ad[i].pc \in {"none", "begin", "dial", "dialled", "local", "run", "close", "defer", "end"}
         /\ ad[i].errc \in 0..2 /\ ad[i].ch \in 0..InSize
         /\ ad[i].up \in 0..PairSize /\ ad[i].down \in 0..PairSize

MobileInit ==
    /\ globalAdapter = 0 /\ call = "none" /\ made = 0
    /\ ad = [i \in Adapter |-> Absent]
    /\ \E b \in Scenarios : starts = b.starts /\ packets = b.packets /\ fails = b.fails
-----------------------------------------------------------------------------
(***************************************************************************)
(* The app.  adapterLock lets one call through at a time, but a call reads *)
(* running without the adapter's own lock, before it takes it to stop.     *)
(***************************************************************************)

\* stopEngineLocked under a.mu: an adapter that has stopped by itself is only let go.
Stopped(a) ==
    IF ~a.running /\ a.state = "stopped" THEN a
    ELSE [a EXCEPT !.running = FALSE, !.state = "stopped", !.cancelled = TRUE, !.fd = "closed",
                   !.tun = IF a.held THEN "closed" ELSE @]

stopEngineLocked ==
    /\ globalAdapter' = 0
    /\ ad' = IF globalAdapter = 0 THEN ad ELSE [ad EXCEPT ![globalAdapter] = Stopped(@)]

StopEngine ==
    /\ call = "none" /\ globalAdapter # 0
    /\ stopEngineLocked
    /\ UNCHANGED <<call, made, starts, packets, fails>>

\* An engine that runs is stopped first, before the configuration is looked at.
StartEngine ==
    /\ call = "none" /\ starts > 0 /\ starts' = starts - 1
    /\ call' = IF globalAdapter # 0 /\ ad[globalAdapter].running THEN "stop" ELSE "new"
    /\ UNCHANGED <<globalAdapter, made, ad, packets, fails>>

StartStops ==
    /\ call = "stop" /\ stopEngineLocked /\ call' = "new"
    /\ UNCHANGED <<made, starts, packets, fails>>

\* A configuration that cannot be read, or no descriptor: the call returns and makes nothing.
StartRefused ==
    /\ call = "new" /\ fails > 0
    /\ call' = "none" /\ fails' = fails - 1
    /\ UNCHANGED <<globalAdapter, made, ad, starts, packets>>

\* remote: the configuration names a node and a token.
StartMakes ==
    /\ call = "new"
    /\ made' = made + 1 /\ globalAdapter' = made + 1 /\ call' = "none"
    /\ \E remote \in BOOLEAN : ad' = [ad EXCEPT ![made + 1] = Fresh(remote)]
    /\ UNCHANGED <<starts, packets, fails>>
-----------------------------------------------------------------------------
(***************************************************************************)
(* runEngineWorker.                                                        *)
(***************************************************************************)
Becomes(i, a) == ad' = [ad EXCEPT ![i] = a] /\ UNCHANGED <<globalAdapter, call, made, starts>>

Fails == fails > 0 /\ fails' = fails - 1 /\ UNCHANGED packets
NoFault == UNCHANGED <<packets, fails>>

WorkerBegins(i) ==
    /\ ad[i].pc = "begin" /\ NoFault
    /\ Becomes(i, [ad[i] EXCEPT !.pc = IF ad[i].remote THEN "dial" ELSE "local"])

\* The dial is given the adapter's context, but may have succeeded when that is cancelled.
DialOk(i) ==
    /\ ad[i].pc = "dial" /\ NoFault
    /\ Becomes(i, [ad[i] EXCEPT !.pc = "dialled", !.tun = "open"])

\* A node that does not answer: the packets are processed on the phone.
NodeFails(i) ==
    /\ ad[i].pc = "dial"
    /\ IF ad[i].cancelled THEN NoFault ELSE Fails
    /\ Becomes(i, [ad[i] EXCEPT !.pc = "local", !.remote = FALSE])

\* inboundReader and ingress look at the context before they read.
Spawned(gs, a) ==
    [g \in Goroutine |-> IF g \notin gs THEN "none"
                         ELSE IF a.cancelled /\ g \in {"rd", "ns"} THEN "end" ELSE "read"]

\* The client is put where StopEngine finds it, which may have looked there already; then Run.
EngineOnNode(i) ==
    /\ ad[i].pc = "dialled" /\ NoFault
    /\ Becomes(i, [ad[i] EXCEPT !.pc = "run", !.held = TRUE, !.state = "connected",
                                !.go = Spawned({"out", "rd", "in"}, ad[i])])

runNetstackFallback(i) ==
    /\ ad[i].pc = "local" /\ NoFault
    /\ Becomes(i, [ad[i] EXCEPT !.pc = "run", !.tun = "open", !.state = "connected",
                                !.go = Spawned(Goroutine, ad[i])])

NetstackFails(i) ==
    /\ ad[i].pc = "local" /\ Fails
    /\ Becomes(i, [ad[i] EXCEPT !.pc = "defer", !.state = "stopped"])

\* Engine.Run returns by the context or with the first error, and waits for no pump.
RunReturns(i) ==
    /\ ad[i].pc = "run" /\ (ad[i].cancelled \/ ad[i].errc > 0) /\ NoFault
    /\ Becomes(i, [ad[i] EXCEPT !.pc = "close"])

\* Wrong: the deferred Close is left out, since StopEngine closes the client.
TunnelLeft(i) ==
    /\ ad[i].pc = "close" /\ NoFault
    /\ Becomes(i, [ad[i] EXCEPT !.pc = "defer"])

\* Deferred: the client, or both ends of the pair.
TunnelCloses(i) ==
    /\ ad[i].pc = "close" /\ NoFault
    /\ Becomes(i, [ad[i] EXCEPT !.pc = "defer", !.tun = "closed"])

WorkerEnds(i) ==
    /\ ad[i].pc = "defer" /\ NoFault
    /\ Becomes(i, [ad[i] EXCEPT !.pc = "end", !.running = FALSE, !.state = "stopped"])

Worker(i) ==
    \/ WorkerBegins(i) \/ DialOk(i) \/ NodeFails(i) \/ EngineOnNode(i) \/ runNetstackFallback(i)
    \/ NetstackFails(i) \/ RunReturns(i) \/ TunnelCloses(i) \/ WorkerEnds(i)
-----------------------------------------------------------------------------
(***************************************************************************)
(* The pumps.  Each step is one call or one receive of a goroutine g.      *)
(***************************************************************************)
To(i, g, st) == [ad[i] EXCEPT !.go[g] = st]

Reads(i, g) == ad[i].go[g] = "read"
Writes(i, g) == ad[i].go[g] = "write"

\* The next turn of a loop that begins with a look at the context.
Again(i) == IF ad[i].cancelled THEN "end" ELSE "read"

Arrives == packets > 0 /\ packets' = packets - 1 /\ UNCHANGED fails

\* FDSource.Recv: a packet of the device.
Capture(i) ==
    /\ Reads(i, "out") /\ ad[i].fd = "open" /\ Arrives
    /\ Becomes(i, To(i, "out", "write"))

\* It looks at the context every 300 ms, and a closed or broken descriptor wakes it.
RecvEnds(i) ==
    /\ Reads(i, "out")
    /\ IF ad[i].cancelled \/ ad[i].fd = "closed" THEN NoFault ELSE Fails
    /\ Becomes(i, [To(i, "out", "end") EXCEPT !.errc = @ + 1])

\* The pair before a netstack: a packet put in channel q by g, which waits for room or for the end.
WritePacket(i, g, q) ==
    \/ /\ ad[i].tun = "open" /\ ad[i][q] < PairSize
       /\ Becomes(i, [To(i, g, "read") EXCEPT ![q] = @ + 1])
    \/ /\ ad[i].tun = "closed"
       /\ Becomes(i, To(i, g, "read"))

\* A packet taken out of channel q by g, which goes on with st.
ReadPacket(i, g, q, st) ==
    /\ ad[i][q] > 0
    /\ Becomes(i, [To(i, g, st) EXCEPT ![q] = @ - 1])

\* To the node a packet goes, or fails, at once.
pumpOutbound(i) ==
    /\ Writes(i, "out") /\ NoFault
    /\ IF ad[i].remote THEN Becomes(i, To(i, "out", "read")) ELSE WritePacket(i, "out", "up")

\* local-guard: what is not for the tunnel goes back to the device.
Bypass(i) ==
    /\ Writes(i, "out") /\ NoFault
    /\ Becomes(i, To(i, "out", "read"))

inboundReader(i) ==
    \/ /\ Reads(i, "rd") /\ ad[i].remote /\ ad[i].tun = "open" /\ Arrives
       /\ Becomes(i, To(i, "rd", "write"))
    \/ /\ Reads(i, "rd") /\ ~ad[i].remote /\ NoFault
       /\ ReadPacket(i, "rd", "down", "write")
    \/ /\ Writes(i, "rd") /\ ad[i].ch < InSize /\ NoFault
       /\ Becomes(i, [To(i, "rd", Again(i)) EXCEPT !.ch = @ + 1])
    \/ /\ Writes(i, "rd") /\ ad[i].cancelled /\ NoFault
       /\ Becomes(i, To(i, "rd", "end"))

\* Its tunnel is closed, or the node is gone.
ReaderFails(i) ==
    /\ Reads(i, "rd")
    /\ \/ ad[i].tun = "closed" /\ NoFault
       \/ ad[i].tun = "open" /\ ad[i].remote /\ Fails
    /\ Becomes(i, [To(i, "rd", "end") EXCEPT !.errc = @ + 1])

\* A batch is what there is; it goes to the device, which refuses it when it is closed.
pumpInbound(i) ==
    /\ Reads(i, "in") /\ NoFault
    /\ \/ /\ ad[i].ch > 0
          /\ Becomes(i, [ad[i] EXCEPT !.ch = 0])
       \/ /\ ad[i].cancelled \/ (ad[i].go["rd"] = "end" /\ ad[i].ch = 0)
          /\ Becomes(i, To(i, "in", "end"))
-----------------------------------------------------------------------------
(* The netstack on the other end of the pair. *)

ingress(i) ==
    /\ Reads(i, "ns") /\ NoFault
    /\ \/ ReadPacket(i, "ns", "up", Again(i))
       \/ ad[i].tun = "closed" /\ Becomes(i, To(i, "ns", "end"))

egress(i) ==
    \/ Reads(i, "eg") /\ Arrives /\ Becomes(i, To(i, "eg", "write"))
    \/ Writes(i, "eg") /\ NoFault /\ WritePacket(i, "eg", "down")
    \/ Reads(i, "eg") /\ ad[i].cancelled /\ NoFault /\ Becomes(i, To(i, "eg", "end"))

Pump(i) ==
    \/ Capture(i) \/ RecvEnds(i) \/ pumpOutbound(i) \/ Bypass(i)
    \/ inboundReader(i) \/ ReaderFails(i) \/ pumpInbound(i) \/ ingress(i) \/ egress(i)
-----------------------------------------------------------------------------
MobileNext ==
    \/ StopEngine \/ StartEngine \/ StartStops \/ StartRefused \/ StartMakes
    \/ \E i \in Adapter : Worker(i) \/ Pump(i)

MobileSpec == MobileInit /\ [][MobileNext]_mobileVars

\* A call returns, a dial does, and goroutines go on, each of which has but so many steps to take;
\* packets need not come, and nothing need fail.  The app owes no call.
GoesOn == (\E i \in Adapter : Worker(i) \/ Pump(i)) /\ NoFault

MobileFairness == WF_mobileVars(StartStops \/ StartMakes) /\ WF_mobileVars(GoesOn)

MobileFairSpec == MobileSpec /\ MobileFairness
-----------------------------------------------------------------------------
(***************************************************************************)
(* Properties                                                              *)
(***************************************************************************)

Made(i) == ad[i].pc # "none"

\* What a start has taken is given back: the descriptor, the tunnel, the worker and its goroutines.
Released(i) ==
    /\ ad[i].fd = "closed" /\ ad[i].tun # "open" /\ ad[i].pc = "end"
    /\ \A g \in Goroutine : ad[i].go[g] \in {"none", "end"}

\* The engine ended before anybody stopped it: by the node, the device or the netstack.
EndedAlone(i) == ad[i].pc = "end" /\ ~ad[i].cancelled

\* An engine that StopEngine stops, or another start takes the place of, gives back all it took,
\* though it may be dialling then, or about to hand its client over, and nobody waits for it
\* (mobile.go:160-185): unless it had ended by itself.
StopReleases == \A i \in Adapter : (Made(i) /\ globalAdapter # i /\ ~EndedAlone(i)) ~> Released(i)

\* What StopReleases comes to at every moment: of an engine that was let go all has been given back,
\* or one of its steps can be taken, and needs neither a packet nor a failure.
CanGo(a) ==
    \/ a.pc \in {"begin", "dial", "dialled", "local", "close", "defer"}
    \/ a.pc = "run" /\ (a.cancelled \/ a.errc > 0)
    \/ a.go["out"] = "write" \/ (a.go["out"] = "read" /\ (a.cancelled \/ a.fd = "closed"))
    \/ a.go["rd"] = "read" /\ (a.tun = "closed" \/ (~a.remote /\ a.down > 0))
    \/ a.go["rd"] = "write" /\ (a.cancelled \/ a.ch < InSize)
    \/ a.go["in"] = "read" /\ (a.cancelled \/ a.ch > 0 \/ a.go["rd"] = "end")
    \/ a.go["ns"] = "read" /\ (a.tun = "closed" \/ a.up > 0)
    \/ a.go["eg"] = "read" /\ a.cancelled
    \/ a.go["eg"] = "write" /\ (a.tun = "closed" \/ (a.tun = "open" /\ a.down < PairSize))

GuardsExact == \A i \in Adapter : CanGo(ad[i]) <=> ENABLED ((Worker(i) \/ Pump(i)) /\ NoFault)

NothingStuck ==
    \A i \in Adapter :
        Made(i) /\ globalAdapter # i /\ ~EndedAlone(i) => Released(i) \/ CanGo(ad[i])

\* What an engine has before it: the stages of its worker, what each goroutine has in hand, and the
\* packets in the channels, more for those that others will have to carry.
WorkerLeft ==
    [none |-> 0, begin |-> 12, dial |-> 11, dialled |-> 10, local |-> 10, run |-> 3, close |-> 2,
     defer |-> 1, end |-> 0]
Hand(st, w) == IF st = "write" THEN w ELSE IF st = "read" THEN 1 ELSE 0
GoLeft(go) ==
    Hand(go["out"], 3) + Hand(go["rd"], 3) + Hand(go["in"], 1) + Hand(go["ns"], 1) + Hand(go["eg"], 5)
LeftOf(a) == WorkerLeft[a.pc] + GoLeft(a.go) + a.up + 3 * a.down + a.ch

\* An engine takes a packet from outside with each of its steps, or has less before it then.
MobileRunsDown ==
    [][\A i \in Adapter :
         Worker(i) \/ Pump(i) => 5 * packets' + LeftOf(ad'[i]) < 5 * packets + LeftOf(ad[i])]_mobileVars

\* Not so: the same without the exception, which is what mobile.go:153 promises.  Of an engine
\* that has ended StopEngine and StartEngine find the state "stopped", and neither cancel its context
\* nor close the descriptor (mobile.go:164-168), which its pump keeps reading.
StopFrees == \A i \in Adapter : (Made(i) /\ globalAdapter # i) ~> Released(i)
=============================================================================
