------------------------------ MODULE DataPath ------------------------------
(***************************************************************************)
(* The engine of one session of the client (engine/hybrid/engine.go) and   *)
(* its user-space stack (server/netstack): the goroutines that carry       *)
(* packets from the capture to the flows of the stack and back, the pool   *)
(* of buffers that they share, and how they end.                           *)
(*                                                                         *)
(* A packet is the flow that it belongs to.  Left out are packets that are *)
(* neither TCP nor UDP on their way out, which take no queue, and those    *)
(* that the guard hands back; a packet that the stack answers itself is    *)
(* one that it emits.  The second pool, of datagrams on their way in, has  *)
(* one owner after the other and is kept as a count.                       *)
(***************************************************************************)
EXTENDS Naturals, Sequences, FiniteSets

CONSTANTS
    Flow,           \* flows of programs
    Udp,            \* those that are not TCP
    Streams,        \* streams that the node allows a connection (MaxIncomingStreams)
    Buffer,         \* bound: buffers; the pool makes as many as are asked for
    ChSize,         \* tcpTunnel.ch: from the capture to the stack
    OutSize,        \* tcpTunnel.out: from the stack to the injector
    InSize,         \* ch of pumpInbound: from the tunnel to the capture
    BatchSize       \* maxInboundBatch

ASSUME PathAssumption ==
    /\ Udp \subseteq Flow /\ IsFiniteSet(Buffer)
    /\ {Streams, ChSize, OutSize, InSize, BatchSize} \subseteq Nat \ {0}
    /\ Cardinality(Buffer) >= ChSize + OutSize + BatchSize

VARIABLES
    go,             \* what each goroutine of the engine is doing; "end" when it has returned
    open,           \* the capture and the tunnel are open
    done,           \* the context of the session is done
    errc,           \* errors in Run's channel
    ch,             \* the first queue: buffers, with the flow of the packet in them
    out, batch,     \* buffers in the second queue, and in the hands of the injector
    inq,            \* packets in pumpInbound's queue
    free,           \* buffers in tcpPool
    flow,           \* flow[f]: "none", "dial", "open"
    packets         \* bound: packets left

buffers == <<ch, out, batch, free>>
path == <<go, open, done, errc, buffers, inq, flow, packets>>

Goroutine == {"run", "reader", "ingress", "egress", "injector", "inreader", "inbound"}
Over == [k \in Goroutine |-> "end"]

PathInit ==
    /\ go = Over /\ open = FALSE /\ done = FALSE /\ errc = 0
    /\ ch = <<>> /\ out = <<>> /\ batch = <<>> /\ inq = 0
    /\ free = Buffer
    /\ flow = [f \in Flow |-> "none"]

\* Before each packet the three that read look at the context, and then wait for the packet, or
\* for the end of what they read from, and for nothing else.
Onward(k, over) == IF ~over THEN "read" ELSE IF k = "inreader" THEN "end" ELSE "err"

\* Run; the capture and the tunnel have been opened, the context may be done already.
Begin(cancelled) ==
    /\ go' = [k \in Goroutine |->
                IF k \in {"reader", "ingress", "inreader"} THEN Onward(k, cancelled) ELSE "wait"]
    /\ open' = TRUE /\ done' = cancelled /\ errc' = 0
    /\ ch' = <<>> /\ out' = <<>> /\ batch' = <<>> /\ inq' = 0
    /\ free' = Buffer
    /\ flow' = [f \in Flow |-> "none"]
    /\ UNCHANGED packets

\* The engine is not looked at any more.
PathGone ==
    /\ go' = Over /\ open' = FALSE /\ done' = FALSE /\ errc' = 0
    /\ ch' = <<>> /\ out' = <<>> /\ batch' = <<>> /\ inq' = 0
    /\ free' = Buffer
    /\ flow' = [f \in Flow |-> "none"]
    /\ packets' = 0

\* What pumpOutboundReader and the stack find in a packet's header.
IsUDP(f) == f \in Udp

At(k, s) == go[k] = s
To(k, s) == go' = [go EXCEPT ![k] = s]
Spend == packets > 0 /\ packets' = packets - 1
-----------------------------------------------------------------------------
(***************************************************************************)
(* Errors                                                                  *)
(***************************************************************************)

\* Wrong: room for the one error that Run takes.
ErrSizeOne == 1

\* Room for the error of each goroutine that leaves one: the reader, the ingress and the reader of
\* what the node sends.  The module has the one reader that is the default; with recvWorkers of them
\* all leave an error in the same three places, which are then too few.
ErrSize == 3

\* A goroutine leaves its error and returns; it waits for room.
Fails(k) ==
    /\ errc < ErrSize /\ errc' = errc + 1
    /\ To(k, "end")
    /\ UNCHANGED <<open, done, buffers, inq, flow, packets>>

\* Run returns with the first error, or with the context.
RunReturns ==
    /\ At("run", "wait")
    /\ \/ errc > 0 /\ errc' = errc - 1
       \/ done /\ errc' = errc
    /\ To("run", "end")
    /\ UNCHANGED <<open, done, buffers, inq, flow, packets>>
-----------------------------------------------------------------------------
(***************************************************************************)
(* From the capture to the stack                                           *)
(***************************************************************************)

\* A buffer that the pool gives; which one makes no difference.
Buf == CHOOSE b \in free : TRUE

\* pumpOutboundReader, push: a copy into a buffer from the pool, and that into the queue or,
\* where the queue is full, back into the pool: the packet is lost.
Push(f) ==
    IF Len(ch) < ChSize THEN ch' = Append(ch, [buf |-> Buf, flow |-> f]) /\ free' = free \ {Buf}
    ELSE UNCHANGED <<ch, free>>

Capture(f) ==
    /\ At("reader", "read") /\ open /\ Spend
    /\ Push(f)
    /\ To("reader", Onward("reader", done))
    /\ UNCHANGED <<open, done, errc, out, batch, inq, flow>>

CaptureFails == (At("reader", "err") \/ (At("reader", "read") /\ ~open)) /\ Fails("reader")

\* A copy out of the queue, and the buffer goes back.
ReadPacket == ch # <<>> /\ ch' = Tail(ch) /\ free' = free \cup {Head(ch).buf}

\* ingress: a packet into the stack.  One of a new flow goes to the forwarder, which dials a TCP flow
\* in a goroutine and a UDP flow there and then.
Deliver ==
    /\ At("ingress", "read") /\ ReadPacket
    /\ LET f == Head(ch).flow IN
       /\ flow' = IF flow[f] = "none" THEN [flow EXCEPT ![f] = "dial"] ELSE flow
       /\ To("ingress", IF IsUDP(f) /\ flow[f] = "none" THEN "dial" ELSE Onward("ingress", done))
    /\ UNCHANGED <<open, done, errc, out, batch, inq, packets>>

\* The node allows so many streams, and each flow is one; a dial waits for its turn.
Full == Cardinality({f \in Flow : flow[f] = "open"}) >= Streams

\* The node agrees, or refuses, or does not answer in time.  A TCP flow waits no longer than
\* dialTimeout; nothing but the end of the tunnel ends the dial of a UDP flow that is not answered.
Dialled(f) ==
    /\ flow[f] = "dial" /\ (IsUDP(f) /\ open => ~Full)
    /\ \E s \in IF open /\ ~Full THEN {"open", "none"} ELSE {"none"} : flow' = [flow EXCEPT ![f] = s]
    /\ IF IsUDP(f) THEN To("ingress", Onward("ingress", done)) ELSE UNCHANGED go
    /\ UNCHANGED <<open, done, errc, buffers, inq, packets>>

IngressFails == At("ingress", "err") /\ Fails("ingress")

\* Wrong: the node lets a UDP dial wait for ever.
NodeHangs(f) == IsUDP(f) /\ open

\* The node gives every dial 15 seconds (server/connectudp.go, server/node.go).
NodeSilent(f) == FALSE

DialEnds(f) == ~NodeSilent(f) /\ Dialled(f)
-----------------------------------------------------------------------------
(***************************************************************************)
(* From the stack to the capture                                           *)
(***************************************************************************)

\* A packet into the queue; where that is full it is lost and nothing changes.
WritePacket == Len(out) < OutSize /\ out' = Append(out, Buf) /\ free' = free \ {Buf}

\* egress: a packet of an open flow.
Emit(f) ==
    /\ At("egress", "wait") /\ flow[f] = "open" /\ Spend
    /\ WritePacket
    /\ UNCHANGED <<go, open, done, errc, ch, batch, inq, flow>>

EgressEnds ==
    /\ At("egress", "wait") /\ done
    /\ To("egress", "end")
    /\ UNCHANGED <<open, done, errc, buffers, inq, flow, packets>>

\* Wrong: a buffer goes back to the pool as soon as it is in the batch.
FreedEarly == free \cup {Head(out)}

\* The buffers of a batch stay out of the pool.
Freed == free

\* injector: a first packet, what comes soon after it, ...
Gather ==
    /\ out # <<>> /\ Len(batch) < BatchSize
    /\ At("injector", "wait") \/ At("injector", "gather")
    /\ batch' = Append(batch, Head(out)) /\ out' = Tail(out)
    /\ free' = Freed
    /\ To("injector", "gather")
    /\ UNCHANGED <<open, done, errc, ch, inq, flow, packets>>

\* ... and all of it at once into the capture, which may be closed by then.
Inject ==
    /\ At("injector", "gather")
    /\ free' = free \cup {batch[i] : i \in DOMAIN batch} /\ batch' = <<>>
    /\ To("injector", "wait")
    /\ UNCHANGED <<open, done, errc, ch, out, inq, flow, packets>>

InjectorEnds ==
    /\ At("injector", "wait") /\ done
    /\ To("injector", "end")
    /\ UNCHANGED <<open, done, errc, buffers, inq, flow, packets>>
-----------------------------------------------------------------------------
(***************************************************************************)
(* From the tunnel to the capture                                          *)
(***************************************************************************)

\* A packet into the queue, or the context is done.
InPut ==
    \/ inq < InSize /\ inq' = inq + 1 /\ To("inreader", Onward("inreader", done))
    \/ done /\ inq' = inq /\ To("inreader", "end")

InRead ==
    /\ At("inreader", "read") /\ open /\ Spend
    /\ \/ InPut
       \/ inq = InSize /\ ~done /\ To("inreader", "put") /\ inq' = inq
    /\ UNCHANGED <<open, done, errc, buffers, flow>>

InFails == At("inreader", "read") /\ ~open /\ Fails("inreader")

\* where there was no room
InPutLater ==
    /\ At("inreader", "put") /\ InPut
    /\ UNCHANGED <<open, done, errc, buffers, flow, packets>>

\* pumpInbound: all there is, in one batch; its queue is closed when its reader has returned.
Inbound ==
    /\ At("inbound", "wait") /\ inq > 0
    /\ inq' = 0
    /\ UNCHANGED <<go, open, done, errc, buffers, flow, packets>>

InboundEnds ==
    /\ At("inbound", "wait") /\ (done \/ (At("inreader", "end") /\ inq = 0))
    /\ To("inbound", "end")
    /\ UNCHANGED <<open, done, errc, buffers, inq, flow, packets>>
-----------------------------------------------------------------------------
(***************************************************************************)
(* Flows                                                                   *)
(***************************************************************************)

\* pipe: one direction ends, both ends are closed, and that ends the other.
FlowEnds(f) ==
    /\ flow[f] = "open" /\ flow' = [flow EXCEPT ![f] = "none"]
    /\ UNCHANGED <<go, open, done, errc, buffers, inq, packets>>
-----------------------------------------------------------------------------
Ingress == Deliver \/ IngressFails
Injector == Gather \/ Inject \/ InjectorEnds
InReader == InFails \/ InPutLater
InPump == Inbound \/ InboundEnds
Flows(f) == DialEnds(f) \/ (~open /\ FlowEnds(f))
Traffic == InRead \/ \E f \in Flow : Capture(f) \/ Emit(f) \/ FlowEnds(f)

\* What goes on by itself, and what depends on the programs and the node.
Proceed ==
    \/ RunReturns \/ CaptureFails \/ Ingress \/ EgressEnds \/ Injector \/ InReader \/ InPump
    \/ \E f \in Flow : Flows(f)

\* When it can go on, by the guards of Proceed's actions.
CanProceed ==
    \/ At("run", "wait") /\ (errc > 0 \/ done)
    \/ /\ errc < ErrSize
       /\ \/ At("reader", "err") \/ (At("reader", "read") /\ ~open)
          \/ At("ingress", "err")
          \/ At("inreader", "read") /\ ~open
    \/ At("ingress", "read") /\ ch # <<>>
    \/ At("egress", "wait") /\ done
    \/ At("injector", "gather")
    \/ At("injector", "wait") /\ (done \/ (out # <<>> /\ Len(batch) < BatchSize))
    \/ At("inreader", "put") /\ (done \/ inq < InSize)
    \/ At("inbound", "wait") /\ (done \/ inq > 0 \/ At("inreader", "end"))
    \/ \E f \in Flow :
         \/ flow[f] = "dial" /\ ~NodeSilent(f) /\ (IsUDP(f) /\ open => ~Full)
         \/ flow[f] = "open" /\ ~open

PathStep == Proceed \/ Traffic
-----------------------------------------------------------------------------
\* A buffer is at one place, in the pool, in one of the queues or in the batch, so that no packet is
\* overwritten while it waits, though two goroutines take from the pool and two give back
\* (hybrid/engine.go:315-347, :383-420).
InCh == {ch[i].buf : i \in DOMAIN ch}
InOut == {out[i] : i \in DOMAIN out}
InBatch == {batch[i] : i \in DOMAIN batch}
BuffersKept ==
    /\ Cardinality(InCh \cup InOut \cup InBatch) = Len(ch) + Len(out) + Len(batch)
    /\ free \cap (InCh \cup InOut \cup InBatch) = {}
=============================================================================
