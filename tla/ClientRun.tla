----------------------------- MODULE ClientRun -----------------------------
(***************************************************************************)
(* A session of the client with its engine (run, runEngine and firstErr of *)
(* cmd/qd-client/run_windows.go): run starts the engine when the DNS is    *)
(* taken over, ends when the engine or the supervisor does, and closes     *)
(* what the engine reads from on its way out; the context is the loop's,   *)
(* so that it is done when the session is not wanted any more, and not     *)
(* when a session merely fails.                                            *)
(*                                                                         *)
(* Of a behaviour at most one engine is looked into, until the session is  *)
(* over: the engine of the next one has nothing in common with it.         *)
(***************************************************************************)
EXTENDS ClientSession, DataPath

CONSTANT MaxPackets     \* bound: packets of a behaviour

ASSUME RunAssumption == MaxPackets \in Nat

\* bound: whether the engine of the next session is looked into; until that is over there are no
\* crashes, writes that fail or changes of the network.
VARIABLE traced

whole == <<vars, path, traced>>

WholeInit ==
    /\ Init /\ PathInit
    /\ \/ traced = "no" /\ packets = 0
       \/ traced = "next" /\ packets = MaxPackets /\ live = Adapter

\* The session's steps as the engine sees them.
Starts == pc # "run" /\ pc' = "run"
Closes == pc = "close" /\ pc' # "close"
Returns == pc = "run" /\ pc' # "run"
Unwanted == cancelled' /\ ~cancelled
Leaves == pc = "over" /\ pc' # "over"

\* firstErr: when the session is not wanted the supervisor returns without an error, and the
\* engine is waited for.
MayReturn == traced = "on" => go["run"] = "end" \/ ~cancelled

Follow ==
    \/ traced = "no" /\ UNCHANGED <<path, traced>>
    \/ traced = "next" /\ ~Starts /\ UNCHANGED <<path, traced>>
    \/ traced = "next" /\ Starts /\ Begin(cancelled) /\ traced' = "on"
    \/ traced = "on" /\ Leaves /\ PathGone /\ traced' = "no"
    \/ /\ traced = "on" /\ ~Leaves
       /\ Returns => MayReturn
       /\ open' = (open /\ ~Closes)
       /\ done' = (done \/ Unwanted)
       /\ UNCHANGED <<go, errc, buffers, inq, flow, packets, traced>>

Quietly == crashes' = crashes /\ moves' = moves /\ live' = live

Along == (traced # "no" => Quietly) /\ Follow

SessionStep == Next /\ Along
EngineStep == traced = "on" /\ PathStep /\ UNCHANGED <<vars, traced>>

WholeNext == SessionStep \/ EngineStep

\* The session goes on as ClientSession has it, run returns when the engine has, and the goroutines
\* of the engine go on, each of which has but so many steps to take; packets need not come.
WholeSpec ==
    /\ WholeInit /\ [][WholeNext]_whole
    /\ Fairness /\ WF_vars(Ends /\ cancelled /\ MayReturn) /\ WF_path(Proceed)
-----------------------------------------------------------------------------
(***************************************************************************)
(* Properties                                                              *)
(***************************************************************************)

Ended(ks) == \A k \in ks : go[k] = "end"

\* What is left for the engine to do: packets to carry, flows to open and to end, and what its
\* goroutines have before them.
InStage(st) == {f \in Flow : flow[f] = st}
Queued == 3 * Len(ch) + 3 * Len(out) + Len(batch) + inq
Dealings == 2 * Cardinality(InStage("dial")) + Cardinality(InStage("open"))
Running == {k \in Goroutine : go[k] # "end"}
Turning ==
    Cardinality(Running) + (IF At("injector", "gather") THEN 1 ELSE 0)
                         + (IF At("inreader", "put") THEN 2 ELSE 0)
Left == 5 * packets + Queued + Dealings + Turning

\* The engine does not go round in circles: it has but so many steps to take, and so many more for
\* every packet from outside (the loops of hybrid/engine.go and netstack.go).
EngineRunsDown == [][EngineStep => Left' < Left]_whole

\* The next two say what is true when it has taken them.
GoesOn == traced # "on" \/ CanProceed

\* The guards are those of the actions.
GuardsExact == traced = "on" => (CanProceed <=> ENABLED Proceed)

\* A session that is not wanted any more leaves nothing of its engine behind but the goroutine
\* that waits for a packet (netstack.go:180-186), though each of the others ends for a reason of
\* its own: an error in a channel with room for three, the context, or the tunnel, which run closes
\* only after the engine has returned.  When a session fails, what reads from the capture and
\* the tunnel ends.
GoroutinesEnd ==
    \/ /\ done => Ended({"run", "egress", "injector", "inbound"})
       /\ ~open => Ended({"run", "reader", "inreader", "inbound"})
    \/ GoesOn

\* A packet that was captured comes to the stack, though one goroutine takes the packets of all
\* flows and dials the UDP flows itself, without a deadline (netstack.go:266-283): unless a UDP
\* flow waits for a stream, and the node allows no more.
FlowsGetThrough == ch = <<>> \/ done \/ ~open \/ Full \/ GoesOn

\* Not so then: every flow waits behind that one.
FlowsPassFullNode == ch = <<>> \/ done \/ ~open \/ GoesOn
=============================================================================
