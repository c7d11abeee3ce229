-------------------------- MODULE ClientRun_proofs --------------------------
(***************************************************************************)
(* ClientRun, proved for any adapters, flows and buffers and any number of *)
(* crashes: the user's settings are never lost, the machine is quiet when  *)
(* the service says that it is, no buffer is at two places, and the engine *)
(* of a session runs down to where nothing of it is in anybody's way.      *)
(***************************************************************************)
EXTENDS ClientRun, FiniteSetTheorems, SequenceTheorems, TLAPS

(* The settings of the machine. *)

LoopInv ==
    /\ state = "stopped" <=> loop = "none"
    /\ loop = "session" <=> pc # "none"
    /\ ~proc => loop = "none" /\ ~port

\* Only what was the user's is ever kept; what the supervisor keeps is exposed.
EntriesInv ==
    /\ {stash, saved, supSaved} \subseteq [Adapter -> {"none", "user"}]
    /\ dns \in [Adapter -> {"user", "ours"}]
    /\ Kept(supSaved) \subseteq exposed

\* A session of this process has given everything back.
Tidy == proc /\ tidied

\* The session holds the user's proxy, in memory and in the file.
ProxyTaken == {"off", "dial", "listen", "apply", "stash", "run", "back", "drop", "close",
               "proxyBack", "proxyDrop"}
\* The proxy is in place.
ProxyInPlace == {"heal", "save", "off", "proxyDrop"}
\* run has not come to take it, or has given it back.
ProxyUntouched == {"none", "over", "recover", "unstash", "proxy", "heal", "save", "off"}

ProxyInv ==
    "proxy" \notin exposed =>
        /\ ProxyKept /\ pstash \in {"none", "user"}
        /\ pc \in ProxyInPlace => proxy = "user"
        /\ pc = "save" => pstash = "none"
        /\ pc \in ProxyTaken => pstash = "user" /\ psaved = "user"
        /\ Tidy /\ pc \in ProxyUntouched => proxy = "user"

\* Where a setting of the user is that is not in place: left by a dead process,
\* with nobody on the port that would keep the next session from healing it; in
\* the memory of the session; or in its memory and in the file.
DnsLeft(a) == pc \in {"none", "recover"} /\ stash[a] = "user" /\ ~port /\ ~Tidy
DnsTaken(a) == pc = "stash" /\ saved[a] = "user"
DnsFiled(a) == pc \in {"run", "back"} /\ saved[a] = "user" /\ stash[a] = "user"

DnsInv ==
    \A a \in Adapter \ exposed : dns[a] = "user" \/ DnsLeft(a) \/ DnsTaken(a) \/ DnsFiled(a)

SettingsInv == LoopInv /\ EntriesInv /\ ProxyInv /\ DnsInv
-----------------------------------------------------------------------------
(* The buffers of the engine. *)

\* What is in a queue, and that nothing is there twice.
In(s) == {s[i] : i \in DOMAIN s}
Once(s) == \A i, j \in DOMAIN s : s[i] = s[j] => i = j

\* The buffers of the first queue.
BufsOf(q) == [i \in DOMAIN q |-> q[i].buf]
Packet == [buf : Buffer, flow : Flow]

QueuesInv ==
    /\ ch \in Seq(Packet) /\ Len(ch) <= ChSize /\ Once(BufsOf(ch))
    /\ out \in Seq(Buffer) /\ Len(out) <= OutSize /\ Once(out)
    /\ batch \in Seq(Buffer) /\ Len(batch) <= BatchSize /\ Once(batch)

Used == InCh \cup InOut \cup InBatch

\* The pool, the queues and the batch are a partition of the buffers.
BuffersInv ==
    /\ QueuesInv
    /\ InCh \cap InOut = {} /\ InCh \cap InBatch = {} /\ InOut \cap InBatch = {}
    /\ free = Buffer \ Used
-----------------------------------------------------------------------------
(* Queues in which nothing is twice. *)

LEMMA OnceAppend ==
    ASSUME NEW S, NEW s \in Seq(S), NEW x \in S
    PROVE  /\ In(Append(s, x)) = In(s) \cup {x}
           /\ Once(s) /\ x \notin In(s) => Once(Append(s, x))
<1> DEFINE t == Append(s, x)
<1>1. /\ Len(s) \in Nat /\ DOMAIN s = 1..Len(s) /\ DOMAIN t = 1..(Len(s) + 1)
      /\ \A i \in 1..Len(s) : t[i] = s[i]
      /\ t[Len(s) + 1] = x
  BY AppendProperties
<1> HIDE DEF t
<1>2. \A i \in DOMAIN t : (i \in DOMAIN s /\ t[i] = s[i]) \/ (i = Len(s) + 1 /\ t[i] = x)
  BY <1>1
<1>3. \A i \in DOMAIN s : i \in DOMAIN t /\ t[i] = s[i]
  BY <1>1
<1>4. Len(s) + 1 \in DOMAIN t
  BY <1>1
<1>5. In(t) = In(s) \cup {x}
  BY <1>1, <1>2, <1>3, <1>4 DEF In
<1>6. Once(s) /\ x \notin In(s) => Once(t)
  BY <1>2 DEF Once, In
<1> QED
  BY <1>5, <1>6 DEF t

LEMMA OnceTail ==
    ASSUME NEW S, NEW s \in Seq(S), s # <<>>
    PROVE  /\ Head(s) \in In(s) /\ Head(s) \in S
           /\ Once(s) => Once(Tail(s)) /\ In(Tail(s)) = In(s) \ {Head(s)}
<1> DEFINE t == Tail(s)
<1>1. /\ Len(s) \in Nat \ {0} /\ DOMAIN s = 1..Len(s) /\ DOMAIN t = 1..(Len(s) - 1)
      /\ \A i \in 1..(Len(s) - 1) : t[i] = s[i + 1]
      /\ Head(s) = s[1] /\ Head(s) \in S
  BY HeadTailProperties
<1> HIDE DEF t
<1>2. \A i \in DOMAIN t : i + 1 \in DOMAIN s /\ t[i] = s[i + 1] /\ i + 1 # 1 /\ i \in Nat
  BY <1>1
<1>3. \A i \in DOMAIN s : i = 1 \/ (i - 1 \in DOMAIN t /\ t[i - 1] = s[i])
  BY <1>1
<1>4. 1 \in DOMAIN s
  BY <1>1
<1>5. ASSUME Once(s) PROVE Once(t)
  <2> SUFFICES ASSUME NEW i \in DOMAIN t, NEW j \in DOMAIN t, t[i] = t[j] PROVE i = j
    BY DEF Once
  <2>1. i + 1 = j + 1
    BY <1>2, <1>5 DEF Once
  <2> QED
    BY <1>2, <2>1
<1>6. ASSUME Once(s) PROVE In(t) = In(s) \ {Head(s)}
  <2>1. In(t) \subseteq In(s) \ {Head(s)}
    BY <1>1, <1>2, <1>4, <1>6 DEF In, Once
  <2>2. In(s) \ {Head(s)} \subseteq In(t)
    BY <1>1, <1>3 DEF In
  <2> QED
    BY <2>1, <2>2
<1> QED
  BY <1>1, <1>4, <1>5, <1>6 DEF t, In

\* Where nothing is twice there are as many things as places.
LEMMA OnceCount ==
    ASSUME NEW S, NEW s \in Seq(S), Once(s)
    PROVE  IsFiniteSet(In(s)) /\ Cardinality(In(s)) = Len(s) /\ Len(s) \in Nat
<1>1. Len(s) \in Nat /\ DOMAIN s = 1..Len(s)
  OBVIOUS
<1>2. IsFiniteSet(1..Len(s)) /\ Cardinality(1..Len(s)) = Len(s)
  BY <1>1, FS_Interval
<1>3. s = [i \in 1..Len(s) |-> s[i]]
  BY <1>1
<1>4. s \in Surjection(1..Len(s), In(s))
  BY <1>1, <1>3 DEF Surjection, In
<1>5. s \in Injection(1..Len(s), In(s))
  BY <1>1, <1>3, <1>4 DEF Injection, IsInjective, Surjection, Once
<1> QED
  BY <1>1, <1>2, <1>4, <1>5, FS_Surjection

LEMMA EmptyQueue == In(<<>>) = {} /\ Once(<<>>)
  BY DEF In, Once

\* The buffers of a queue of packets are a queue of buffers.
LEMMA BufsOfQueue ==
    ASSUME NEW q \in Seq(Packet)
    PROVE  /\ BufsOf(q) \in Seq(Buffer) /\ Len(BufsOf(q)) = Len(q)
           /\ \A p \in Packet : BufsOf(Append(q, p)) = Append(BufsOf(q), p.buf)
           /\ q # <<>> => /\ BufsOf(q) # <<>> /\ Head(BufsOf(q)) = Head(q).buf
                          /\ BufsOf(Tail(q)) = Tail(BufsOf(q))
<1>1. Len(q) \in Nat /\ DOMAIN q = 1..Len(q) /\ \A i \in 1..Len(q) : q[i] \in Packet
  OBVIOUS
<1>2. \A p \in Packet : p.buf \in Buffer
  BY DEF Packet
<1>3. BufsOf(q) \in Seq(Buffer) /\ Len(BufsOf(q)) = Len(q)
      /\ \A i \in 1..Len(q) : BufsOf(q)[i] = q[i].buf
  BY <1>1, <1>2 DEF BufsOf
<1>4. ASSUME NEW p \in Packet PROVE BufsOf(Append(q, p)) = Append(BufsOf(q), p.buf)
  <2> DEFINE a == Append(q, p)
             b == Append(BufsOf(q), p.buf)
  <2>1. /\ DOMAIN a = 1..(Len(q) + 1) /\ a[Len(q) + 1] = p
        /\ \A i \in 1..Len(q) : a[i] = q[i]
    BY <1>1, AppendProperties
  <2>2. /\ b \in Seq(Buffer) /\ Len(b) = Len(q) + 1 /\ b[Len(q) + 1] = p.buf
        /\ \A i \in 1..Len(q) : b[i] = BufsOf(q)[i]
    BY <1>2, <1>3, AppendProperties
  <2> HIDE DEF a, b
  <2>3. \A i \in 1..(Len(q) + 1) : i \in 1..Len(q) \/ i = Len(q) + 1
    BY <1>1
  <2>4. \A i \in 1..(Len(q) + 1) : a[i].buf = b[i]
    BY <1>3, <2>1, <2>2, <2>3
  <2>5. BufsOf(a) = [i \in 1..(Len(q) + 1) |-> b[i]]
    BY <2>1, <2>4 DEF BufsOf
  <2>6. b = [i \in 1..(Len(q) + 1) |-> b[i]]
    BY <2>2
  <2> QED
    BY <2>5, <2>6 DEF a, b
<1>5. ASSUME q # <<>>
      PROVE  /\ BufsOf(q) # <<>> /\ Head(BufsOf(q)) = Head(q).buf
             /\ BufsOf(Tail(q)) = Tail(BufsOf(q))
  <2> DEFINE a == Tail(q)
             b == Tail(BufsOf(q))
  <2>1. Len(q) \in Nat \ {0} /\ Head(q) = q[1]
    BY <1>1, <1>5
  <2>2. BufsOf(q) # <<>> /\ Head(BufsOf(q)) = BufsOf(q)[1]
    BY <1>3, <2>1
  <2>3. DOMAIN a = 1..(Len(q) - 1) /\ \A i \in 1..(Len(q) - 1) : a[i] = q[i + 1]
    BY <1>1, <1>5, HeadTailProperties
  <2>4. /\ b \in Seq(Buffer) /\ Len(b) = Len(q) - 1
        /\ \A i \in 1..(Len(q) - 1) : b[i] = BufsOf(q)[i + 1]
    BY <1>3, <2>2, HeadTailProperties
  <2> HIDE DEF a, b
  <2>5. \A i \in 1..(Len(q) - 1) : i + 1 \in 1..Len(q)
    BY <2>1
  <2>6. \A i \in 1..(Len(q) - 1) : a[i].buf = b[i]
    BY <1>3, <2>3, <2>4, <2>5
  <2>7. BufsOf(a) = [i \in 1..(Len(q) - 1) |-> b[i]]
    BY <2>3, <2>6 DEF BufsOf
  <2>8. b = [i \in 1..(Len(q) - 1) |-> b[i]]
    BY <2>4
  <2> QED
    BY <1>3, <2>1, <2>2, <2>7, <2>8 DEF a, b
<1> QED
  BY <1>3, <1>4, <1>5
-----------------------------------------------------------------------------
(* The steps of the engine, by what they do to the buffers. *)

LEMMA Places == InCh = In(BufsOf(ch)) /\ InOut = In(out) /\ InBatch = In(batch)
  BY DEF InCh, InOut, InBatch, In, BufsOf

LEMMA DisjointCount ==
    ASSUME NEW S, NEW T, IsFiniteSet(S), IsFiniteSet(T), S \cap T = {}
    PROVE  IsFiniteSet(S \cup T) /\ Cardinality(S \cup T) = Cardinality(S) + Cardinality(T)
<1>1. Cardinality(S \cap T) = 0
  BY FS_EmptySet
<1>2. Cardinality(S) \in Nat /\ Cardinality(T) \in Nat
  BY FS_CardinalityType
<1>3. /\ IsFiniteSet(S \cup T)
      /\ Cardinality(S \cup T) = Cardinality(S) + Cardinality(T) - Cardinality(S \cap T)
  BY FS_Union
<1> QED
  BY <1>1, <1>2, <1>3

\* As many buffers are in use as there are places taken.
LEMMA UsedCount ==
    ASSUME BuffersInv
    PROVE  /\ IsFiniteSet(Used) /\ Used \subseteq Buffer
           /\ Cardinality(Used) = Len(ch) + Len(out) + Len(batch)
<1>1. /\ IsFiniteSet(InCh) /\ Cardinality(InCh) = Len(ch) /\ Len(ch) \in Nat
      /\ InCh \subseteq Buffer
  <2>1. BufsOf(ch) \in Seq(Buffer) /\ Len(BufsOf(ch)) = Len(ch) /\ Once(BufsOf(ch))
    BY BufsOfQueue DEF BuffersInv, QueuesInv
  <2> QED
    BY <2>1, OnceCount, Places DEF In
<1>2. /\ IsFiniteSet(InOut) /\ Cardinality(InOut) = Len(out) /\ Len(out) \in Nat
      /\ IsFiniteSet(InBatch) /\ Cardinality(InBatch) = Len(batch) /\ Len(batch) \in Nat
      /\ InOut \subseteq Buffer /\ InBatch \subseteq Buffer
  <2>1. out \in Seq(Buffer) /\ Once(out) /\ batch \in Seq(Buffer) /\ Once(batch)
    BY DEF BuffersInv, QueuesInv
  <2>2. In(out) \subseteq Buffer /\ In(batch) \subseteq Buffer
    BY <2>1 DEF In
  <2>3. IsFiniteSet(In(out)) /\ Cardinality(In(out)) = Len(out) /\ Len(out) \in Nat
    BY <2>1, OnceCount
  <2>4. IsFiniteSet(In(batch)) /\ Cardinality(In(batch)) = Len(batch) /\ Len(batch) \in Nat
    BY <2>1, OnceCount
  <2> QED
    BY <2>2, <2>3, <2>4, Places
<1>3. InCh \cap InOut = {} /\ (InCh \cup InOut) \cap InBatch = {}
  BY DEF BuffersInv
<1>4. IsFiniteSet(InCh \cup InOut) /\ Cardinality(InCh \cup InOut) = Len(ch) + Len(out)
  <2>1. /\ IsFiniteSet(InCh \cup InOut)
        /\ Cardinality(InCh \cup InOut) = Cardinality(InCh) + Cardinality(InOut)
    BY <1>1, <1>2, <1>3, DisjointCount, Zenon
  <2> QED
    BY <1>1, <1>2, <2>1
<1>5. /\ IsFiniteSet((InCh \cup InOut) \cup InBatch)
      /\ Cardinality((InCh \cup InOut) \cup InBatch) = Len(ch) + Len(out) + Len(batch)
  <2>1. /\ IsFiniteSet((InCh \cup InOut) \cup InBatch)
        /\ Cardinality((InCh \cup InOut) \cup InBatch)
             = Cardinality(InCh \cup InOut) + Cardinality(InBatch)
    BY <1>2, <1>3, <1>4, DisjointCount, Zenon
  <2> QED
    BY <1>2, <1>4, <2>1
<1>6. Used = (InCh \cup InOut) \cup InBatch
  BY DEF Used
<1> QED
  BY <1>1, <1>2, <1>5, <1>6

\* A packet for which a queue has room finds a buffer in the pool.
LEMMA RoomLeavesBuffer ==
    ASSUME BuffersInv, Len(ch) < ChSize \/ Len(out) < OutSize
    PROVE  Buf \in free /\ Buf \in Buffer /\ Buf \notin Used
<1>1. /\ ChSize \in Nat /\ OutSize \in Nat /\ BatchSize \in Nat
      /\ IsFiniteSet(Buffer) /\ Cardinality(Buffer) >= ChSize + OutSize + BatchSize
  BY PathAssumption
<1>2. Len(ch) \in Nat /\ Len(out) \in Nat /\ Len(batch) \in Nat
  BY DEF BuffersInv, QueuesInv
<1>3. Len(ch) + Len(out) + Len(batch) < ChSize + OutSize + BatchSize
  BY <1>1, <1>2 DEF BuffersInv, QueuesInv
<1>4. Used # Buffer
  <2>1. Cardinality(Buffer) \in Nat
    BY <1>1, FS_CardinalityType
  <2> QED
    BY <1>1, <1>2, <1>3, <2>1, UsedCount
<1>5. free # {} /\ free = Buffer \ Used
  BY <1>4, UsedCount DEF BuffersInv
<1>6. Buf \in free
  BY <1>5 DEF Buf
<1> QED
  BY <1>5, <1>6

LEMMA BuffersStay ==
    ASSUME BuffersInv, UNCHANGED buffers
    PROVE  BuffersInv'
<1>1. ch' = ch /\ out' = out /\ batch' = batch /\ free' = free
  BY DEF buffers
<1>2. UNCHANGED <<InCh, InOut, InBatch>>
  BY <1>1 DEF InCh, InOut, InBatch
<1>3. QueuesInv'
  BY <1>1 DEF BuffersInv, QueuesInv
<1> QED
  BY <1>1, <1>2, <1>3 DEF BuffersInv, Used

LEMMA PushKeeps ==
    ASSUME BuffersInv, NEW f \in Flow, Push(f), UNCHANGED <<out, batch>>
    PROVE  BuffersInv'
<1>1. CASE Len(ch) < ChSize
  <2> DEFINE p == [buf |-> Buf, flow |-> f]
  <2>1. Buf \in Buffer /\ Buf \notin Used
    BY <1>1, RoomLeavesBuffer
  <2>2. p \in Packet /\ p.buf = Buf
    BY <2>1 DEF Packet
  <2>3. ch' = Append(ch, p) /\ free' = free \ {Buf}
    BY <1>1 DEF Push
  <2> HIDE DEF p
  <2>4. ch \in Seq(Packet) /\ Once(BufsOf(ch))
    BY DEF BuffersInv, QueuesInv
  <2>5. BufsOf(ch') = Append(BufsOf(ch), Buf) /\ BufsOf(ch) \in Seq(Buffer)
    BY <2>2, <2>3, <2>4, BufsOfQueue
  <2>6. Buf \notin In(BufsOf(ch))
    BY <2>1, Places DEF Used
  <2>7. In(BufsOf(ch')) = In(BufsOf(ch)) \cup {Buf} /\ Once(BufsOf(ch'))
    BY <2>1, <2>4, <2>5, <2>6, OnceAppend
  <2>8. InCh' = InCh \cup {Buf} /\ UNCHANGED <<InOut, InBatch>>
    BY <2>7, Places DEF InCh, InOut, InBatch, In, BufsOf
  <2>9. ch' \in Seq(Packet) /\ Len(ch') = Len(ch) + 1 /\ Len(ch) \in Nat
    BY <2>2, <2>3, <2>4, AppendProperties
  <2>10. Len(ch') <= ChSize
    BY <1>1, <2>9, PathAssumption
  <2>11. QueuesInv'
    BY <2>7, <2>9, <2>10 DEF BuffersInv, QueuesInv
  <2> QED
    BY <2>1, <2>3, <2>8, <2>11 DEF BuffersInv, Used
<1>2. CASE ~(Len(ch) < ChSize)
  BY <1>2, BuffersStay DEF Push, buffers
<1> QED
  BY <1>1, <1>2

LEMMA ReadKeeps ==
    ASSUME BuffersInv, ReadPacket, UNCHANGED <<out, batch>>
    PROVE  BuffersInv'
<1> DEFINE b == Head(ch).buf
<1>1. ch \in Seq(Packet) /\ ch # <<>> /\ Once(BufsOf(ch))
  BY DEF BuffersInv, QueuesInv, ReadPacket
<1>2. ch' = Tail(ch) /\ free' = free \cup {b}
  BY DEF ReadPacket
<1>3. /\ BufsOf(ch) \in Seq(Buffer) /\ BufsOf(ch) # <<>> /\ Head(BufsOf(ch)) = b
      /\ BufsOf(ch') = Tail(BufsOf(ch))
  BY <1>1, <1>2, BufsOfQueue
<1> HIDE DEF b
<1>4. /\ b \in In(BufsOf(ch)) /\ b \in Buffer /\ Once(BufsOf(ch'))
      /\ In(BufsOf(ch')) = In(BufsOf(ch)) \ {b}
  BY <1>1, <1>3, OnceTail
<1>5. InCh' = InCh \ {b} /\ b \in InCh /\ UNCHANGED <<InOut, InBatch>>
  BY <1>4, Places DEF InCh, InOut, InBatch, In, BufsOf
<1>6. ch' \in Seq(Packet) /\ Len(ch') = Len(ch) - 1 /\ Len(ch) \in Nat
  BY <1>1, <1>2, HeadTailProperties
<1>7. QueuesInv'
  BY <1>4, <1>6, PathAssumption DEF BuffersInv, QueuesInv
<1> QED
  BY <1>2, <1>4, <1>5, <1>7 DEF BuffersInv, Used

LEMMA WriteKeeps ==
    ASSUME BuffersInv, WritePacket, UNCHANGED <<ch, batch>>
    PROVE  BuffersInv'
<1>1. /\ Len(out) < OutSize /\ out' = Append(out, Buf) /\ free' = free \ {Buf}
      /\ out \in Seq(Buffer) /\ Once(out)
  BY DEF WritePacket, BuffersInv, QueuesInv
<1>2. Buf \in Buffer /\ Buf \notin Used
  BY <1>1, RoomLeavesBuffer
<1>3. Buf \notin In(out)
  BY <1>2, Places DEF Used
<1>4. In(out') = In(out) \cup {Buf} /\ Once(out')
  BY <1>1, <1>2, <1>3, OnceAppend
<1>5. InOut' = InOut \cup {Buf} /\ UNCHANGED <<InCh, InBatch>>
  BY <1>4, Places DEF InCh, InOut, InBatch, In
<1>6. out' \in Seq(Buffer) /\ Len(out') = Len(out) + 1 /\ Len(out) \in Nat
  BY <1>1, <1>2, AppendProperties
<1>7. QueuesInv'
  BY <1>1, <1>4, <1>6, PathAssumption DEF BuffersInv, QueuesInv
<1> QED
  BY <1>1, <1>2, <1>5, <1>7 DEF BuffersInv, Used

LEMMA GatherKeeps ==
    ASSUME BuffersInv, Gather
    PROVE  BuffersInv'
<1> DEFINE b == Head(out)
<1>1. /\ out # <<>> /\ Len(batch) < BatchSize
      /\ batch' = Append(batch, b) /\ out' = Tail(out) /\ UNCHANGED <<ch, free>>
      /\ out \in Seq(Buffer) /\ Once(out) /\ batch \in Seq(Buffer) /\ Once(batch)
  BY DEF Gather, Freed, BuffersInv, QueuesInv
<1> HIDE DEF b
<1>2. b \in In(out) /\ b \in Buffer /\ Once(out') /\ In(out') = In(out) \ {b}
  BY <1>1, OnceTail DEF b
<1>3. b \notin In(batch)
  BY <1>2, Places DEF BuffersInv
<1>4. In(batch') = In(batch) \cup {b} /\ Once(batch')
  BY <1>1, <1>2, <1>3, OnceAppend
<1>5. InOut' = InOut \ {b} /\ InBatch' = InBatch \cup {b} /\ b \in InOut /\ UNCHANGED InCh
  BY <1>1, <1>2, <1>4, Places DEF InCh, InOut, InBatch, In
<1>6. /\ out' \in Seq(Buffer) /\ Len(out') = Len(out) - 1 /\ Len(out) \in Nat
      /\ batch' \in Seq(Buffer) /\ Len(batch') = Len(batch) + 1 /\ Len(batch) \in Nat
  BY <1>1, <1>2, AppendProperties, HeadTailProperties
<1>7. QueuesInv'
  BY <1>1, <1>2, <1>4, <1>6, PathAssumption DEF BuffersInv, QueuesInv
<1> QED
  BY <1>1, <1>5, <1>7 DEF BuffersInv, Used

LEMMA InjectKeeps ==
    ASSUME BuffersInv, Inject
    PROVE  BuffersInv'
<1>1. free' = free \cup InBatch /\ batch' = <<>> /\ UNCHANGED <<ch, out>>
  BY DEF Inject, InBatch
<1>2. InBatch' = {} /\ UNCHANGED <<InCh, InOut>>
  BY <1>1 DEF InBatch, InCh, InOut
<1>3. InBatch \subseteq Buffer
  BY DEF BuffersInv, QueuesInv, InBatch
<1>4. QueuesInv'
  BY <1>1, EmptyQueue, PathAssumption DEF BuffersInv, QueuesInv
<1> QED
  BY <1>1, <1>2, <1>3, <1>4 DEF BuffersInv, Used

LEMMA EmptyPath ==
    ASSUME ch' = <<>>, out' = <<>>, batch' = <<>>, free' = Buffer
    PROVE  BuffersInv'
<1>1. BufsOf(ch') = <<>>
  BY DEF BufsOf
<1>2. QueuesInv'
  BY <1>1, EmptyQueue, PathAssumption DEF QueuesInv
<1> QED
  BY <1>2 DEF BuffersInv, Used, InCh, InOut, InBatch

LEMMA EngineKeepsBuffers ==
    ASSUME BuffersInv, PathStep
    PROVE  BuffersInv'
<1>1. CASE RunReturns \/ CaptureFails \/ IngressFails \/ EgressEnds \/ InjectorEnds
           \/ InReader \/ InPump \/ InRead
  BY <1>1, BuffersStay DEF RunReturns, CaptureFails, IngressFails, EgressEnds, InjectorEnds,
     InReader, InPump, InRead, InFails, InPutLater, Inbound, InboundEnds, Fails
<1>2. CASE Deliver
  BY <1>2, ReadKeeps DEF Deliver
<1>3. CASE Gather \/ Inject
  BY <1>3, GatherKeeps, InjectKeeps
<1>4. ASSUME NEW f \in Flow, Flows(f) \/ FlowEnds(f) PROVE BuffersInv'
  BY <1>4, BuffersStay DEF Flows, DialEnds, Dialled, FlowEnds
<1>5. ASSUME NEW f \in Flow, Capture(f) PROVE BuffersInv'
  BY <1>5, PushKeeps DEF Capture
<1>6. ASSUME NEW f \in Flow, Emit(f) PROVE BuffersInv'
  BY <1>6, WriteKeeps DEF Emit
<1> QED
  BY <1>1, <1>2, <1>3, <1>4, <1>5, <1>6 DEF PathStep, Proceed, Traffic, Ingress, Injector

LEMMA SessionKeepsBuffers ==
    ASSUME BuffersInv, Along
    PROVE  BuffersInv'
<1>1. CASE UNCHANGED buffers
  BY <1>1, BuffersStay
<1>2. CASE ~(UNCHANGED buffers)
  BY <1>2, EmptyPath DEF Along, Follow, Begin, PathGone, path
<1> QED
  BY <1>1, <1>2
-----------------------------------------------------------------------------
(* The goroutines of an engine that is looked into. *)

Stage == {"wait", "read", "put", "dial", "gather", "err", "end"}
Begun == {f \in Flow : flow[f] # "none"}

GoTyped ==
    /\ go \in [Goroutine -> Stage]
    /\ go["run"] \in {"wait", "end"} /\ go["reader"] \in {"read", "err", "end"}
    /\ go["ingress"] \in {"read", "dial", "err", "end"} /\ go["egress"] \in {"wait", "end"}
    /\ go["injector"] \in {"wait", "gather", "end"} /\ go["inreader"] \in {"read", "put", "end"}
    /\ go["inbound"] \in {"wait", "end"}
    /\ errc \in Nat /\ inq \in 0..InSize
    /\ flow \in [Flow -> {"none", "dial", "open"}] /\ IsFiniteSet(Begun)

\* There are no more errors than goroutines that left one, so that there is room for the next; and
\* while Run waits, the error of the reader is there.
Over1(k) == IF go[k] = "end" THEN 1 ELSE 0
ErrorsInv ==
    /\ errc <= Over1("reader") + Over1("ingress") + Over1("inreader")
    /\ go["run"] = "wait" /\ go["reader"] = "end" => errc > 0

\* Who stops has a reason, and ingress dials one flow at a time.
ReasonsInv ==
    /\ \A f \in Flow : IsUDP(f) /\ flow[f] = "dial" =>
         go["ingress"] = "dial" /\ \A g \in Flow \ {f} : IsUDP(g) => flow[g] # "dial"
    /\ go["ingress"] \in {"err", "end"} => done
    /\ go["ingress"] = "dial" => \E f \in Flow : IsUDP(f) /\ flow[f] = "dial"
    /\ go["inbound"] = "end" => done \/ go["inreader"] = "end"

EngineInv == GoTyped /\ ErrorsInv /\ ReasonsInv
TracedInv == packets \in Nat /\ (traced = "on" => EngineInv)

LEMMA Turn ==
    ASSUME GoTyped, NEW k \in Goroutine, NEW s \in Stage, To(k, s)
    PROVE  /\ go' \in [Goroutine -> Stage] /\ go'[k] = s
           /\ \A j \in Goroutine \ {k} : go'[j] = go[j]
  BY DEF GoTyped, To

LEMMA BegunGrows ==
    ASSUME GoTyped, NEW f \in Flow, NEW s \in {"none", "dial", "open"},
           flow' = [flow EXCEPT ![f] = s]
    PROVE  /\ flow' \in [Flow -> {"none", "dial", "open"}] /\ IsFiniteSet(Begun')
           /\ flow'[f] = s /\ \A g \in Flow \ {f} : flow'[g] = flow[g]
<1>1. flow \in [Flow -> {"none", "dial", "open"}] /\ IsFiniteSet(Begun)
  BY DEF GoTyped
<1>2. /\ flow' \in [Flow -> {"none", "dial", "open"}]
      /\ flow'[f] = s /\ \A g \in Flow \ {f} : flow'[g] = flow[g]
  BY <1>1
<1>3. Begun' \subseteq Begun \cup {f}
  BY <1>1, <1>2 DEF Begun
<1>4. IsFiniteSet(Begun \cup {f})
  BY <1>1, FS_AddElement
<1> QED
  BY <1>2, <1>3, <1>4, FS_Subset

LEMMA EngineKeeps ==
    ASSUME BuffersInv, EngineInv, PathStep
    PROVE  EngineInv'
<1> USE DEF EngineInv, At, Over1
<1>a. /\ GoTyped /\ ErrorsInv /\ ReasonsInv
      /\ InSize \in Nat \ {0} /\ ErrSize = 3 /\ Udp \subseteq Flow
  BY PathAssumption DEF ErrSize
<1>b. Goroutine = {"run", "reader", "ingress", "egress", "injector", "inreader", "inbound"}
  BY DEF Goroutine
<1>1. ASSUME NEW k \in {"reader", "ingress", "inreader"}, Fails(k), go[k] \in {"read", "err"},
             k = "ingress" => done
      PROVE  EngineInv'
  <2>1. /\ To(k, "end") /\ errc' = errc + 1
        /\ UNCHANGED <<open, done, inq, flow>>
    BY <1>1 DEF Fails
  <2>2. go' \in [Goroutine -> Stage] /\ go'[k] = "end" /\ \A j \in Goroutine \ {k} : go'[j] = go[j]
    BY <1>b, <2>1, Turn DEF Stage
  <2>3. GoTyped'
    BY <1>a, <1>b, <2>1, <2>2 DEF GoTyped, Begun
  <2>4. ErrorsInv'
    BY <1>1, <1>a, <1>b, <2>1, <2>2 DEF ErrorsInv, GoTyped
  <2>5. ReasonsInv'
    BY <1>1, <1>a, <1>b, <2>1, <2>2 DEF ReasonsInv, IsUDP
  <2> QED
    BY <2>3, <2>4, <2>5
<1>2. CASE CaptureFails \/ IngressFails \/ InFails
  BY <1>1, <1>2, <1>a DEF CaptureFails, IngressFails, InFails, ReasonsInv
<1>3. CASE RunReturns
  <2>1. To("run", "end") /\ errc' \in Nat /\ errc' <= errc /\ UNCHANGED <<open, done, inq, flow>>
    BY <1>3, <1>a DEF RunReturns, GoTyped
  <2>2. /\ go' \in [Goroutine -> Stage] /\ go'["run"] = "end"
        /\ \A j \in Goroutine \ {"run"} : go'[j] = go[j]
    BY <1>b, <2>1, Turn DEF Stage
  <2> QED
    BY <1>a, <1>b, <2>1, <2>2 DEF GoTyped, ErrorsInv, ReasonsInv, Begun
\* A goroutine that goes on, or ends without an error.
<1>4. ASSUME NEW k \in Goroutine, NEW s \in Stage, To(k, s), UNCHANGED <<errc, done>>,
             inq' \in 0..InSize, UNCHANGED flow,
             \/ k = "reader" /\ s \in {"read", "err"} /\ go[k] # "end"
             \/ k \in {"egress", "injector"} /\ s \in {"wait", "end"}
             \/ k = "injector" /\ s = "gather"
             \/ k = "inreader" /\ s \in {"read", "put", "end"} /\ go[k] # "end"
             \/ k = "inbound" /\ s = "end" /\ (done \/ go["inreader"] = "end")
      PROVE  EngineInv'
  <2>1. go' \in [Goroutine -> Stage] /\ go'[k] = s /\ \A j \in Goroutine \ {k} : go'[j] = go[j]
    BY <1>4, Turn
  <2>2. GoTyped'
    BY <1>a, <1>b, <1>4, <2>1 DEF GoTyped, Begun
  <2>3. ErrorsInv'
    BY <1>a, <1>b, <1>4, <2>1 DEF ErrorsInv, GoTyped
  <2>4. ReasonsInv'
    BY <1>a, <1>b, <1>4, <2>1 DEF ReasonsInv
  <2> QED
    BY <2>2, <2>3, <2>4
<1>5. ASSUME NEW f \in Flow, Capture(f) PROVE EngineInv'
  <2>1. /\ To("reader", Onward("reader", done)) /\ UNCHANGED <<errc, done, inq, flow>>
        /\ go["reader"] = "read" /\ Onward("reader", done) \in {"read", "err"}
    BY <1>5 DEF Capture, Onward
  <2> QED
    BY <1>4, <1>a, <1>b, <2>1 DEF Stage, GoTyped
<1>6. CASE EgressEnds \/ InjectorEnds \/ Gather \/ Inject
  <2>1. \E k \in {"egress", "injector"}, s \in {"wait", "gather", "end"} :
          To(k, s) /\ (s = "gather" => k = "injector")
    BY <1>6 DEF EgressEnds, InjectorEnds, Gather, Inject
  <2>2. UNCHANGED <<errc, done, flow>> /\ inq' \in 0..InSize
    BY <1>6, <1>a DEF EgressEnds, InjectorEnds, Gather, Inject, GoTyped
  <2> QED
    BY <1>4, <1>b, <2>1, <2>2 DEF Stage
<1>7. CASE InRead \/ InPutLater
  <2>1. /\ go["inreader"] # "end" /\ UNCHANGED <<errc, done, flow>> /\ inq' \in 0..InSize
        /\ \E s \in {"read", "put", "end"} : To("inreader", s)
    BY <1>7, <1>a DEF InRead, InPutLater, InPut, Onward, GoTyped
  <2> QED
    BY <1>4, <1>b, <2>1 DEF Stage
<1>8. CASE Inbound
  <2>1. UNCHANGED <<go, errc, done, flow>> /\ inq' = 0
    BY <1>8 DEF Inbound
  <2> QED
    BY <1>a, <2>1 DEF GoTyped, ErrorsInv, ReasonsInv, Begun
<1>9. CASE InboundEnds
  BY <1>4, <1>9, <1>a, <1>b DEF InboundEnds, Stage, GoTyped
<1>10. CASE Deliver
  <2> DEFINE f == Head(ch).flow
             s == IF IsUDP(f) /\ flow[f] = "none" THEN "dial" ELSE Onward("ingress", done)
  <2>1. f \in Flow
    <3>1. ch \in Seq(Packet) /\ ch # <<>>
      BY <1>10 DEF Deliver, ReadPacket, BuffersInv, QueuesInv
    <3>2. Head(ch) \in Packet
      BY <3>1, HeadTailProperties
    <3> QED
      BY <3>2 DEF Packet
  <2>2. /\ go["ingress"] = "read" /\ To("ingress", s) /\ UNCHANGED <<errc, done, inq>>
        /\ flow' = IF flow[f] = "none" THEN [flow EXCEPT ![f] = "dial"] ELSE flow
        /\ s \in {"dial", "read", "err"} /\ (s = "err" => done)
        /\ s = "dial" <=> IsUDP(f) /\ flow[f] = "none"
    BY <1>10 DEF Deliver, Onward
  <2> HIDE DEF f, s
  <2>3. go' \in [Goroutine -> Stage] /\ go'["ingress"] = s
        /\ \A j \in Goroutine \ {"ingress"} : go'[j] = go[j]
    BY <1>b, <2>2, Turn DEF Stage
  <2>4. /\ flow' \in [Flow -> {"none", "dial", "open"}] /\ IsFiniteSet(Begun')
        /\ s = "dial" => flow'[f] = "dial"
        /\ \A g \in Flow \ {f} : flow'[g] = flow[g]
        /\ flow'[f] = "dial" /\ IsUDP(f) => s = "dial" \/ flow[f] = "dial"
    <3>1. CASE flow[f] = "none"
      BY <2>1, <2>2, <3>1, BegunGrows
    <3>2. CASE flow[f] # "none"
      BY <1>a, <2>2, <3>2 DEF GoTyped, Begun
    <3> QED
      BY <3>1, <3>2
  <2>5. GoTyped' /\ ErrorsInv'
    BY <1>a, <1>b, <2>2, <2>3, <2>4 DEF GoTyped, ErrorsInv
  <2>6. ReasonsInv'
    BY <1>a, <1>b, <2>1, <2>2, <2>3, <2>4 DEF ReasonsInv, IsUDP
  <2> QED
    BY <2>5, <2>6
<1>11. ASSUME NEW f \in Flow, DialEnds(f) PROVE EngineInv'
  <2>1. /\ flow[f] = "dial" /\ UNCHANGED <<errc, done, inq>>
        /\ \E s \in {"open", "none"} : flow' = [flow EXCEPT ![f] = s]
        /\ IF IsUDP(f) THEN To("ingress", Onward("ingress", done)) ELSE UNCHANGED go
    BY <1>11 DEF DialEnds, Dialled
  <2>2. /\ flow' \in [Flow -> {"none", "dial", "open"}] /\ IsFiniteSet(Begun')
        /\ \A g \in Flow \ {f} : flow'[g] = flow[g]
    BY <1>a, <2>1, BegunGrows
  <2>3. CASE IsUDP(f)
    <3> DEFINE s == Onward("ingress", done)
    <3>1. s \in {"read", "err"} /\ (s = "err" => done) /\ To("ingress", s)
      BY <2>1, <2>3 DEF Onward
    <3> HIDE DEF s
    <3>2. go' \in [Goroutine -> Stage] /\ go'["ingress"] = s
          /\ \A j \in Goroutine \ {"ingress"} : go'[j] = go[j]
      BY <1>b, <3>1, Turn DEF Stage
    <3>3. go["ingress"] = "dial" /\ \A g \in Flow \ {f} : IsUDP(g) => flow[g] # "dial"
      BY <1>a, <2>1, <2>3 DEF ReasonsInv
    <3>4. flow'[f] # "dial"
      BY <1>a, <2>1 DEF GoTyped
    <3>5. GoTyped' /\ ErrorsInv'
      BY <1>a, <1>b, <2>1, <2>2, <3>1, <3>2, <3>3 DEF GoTyped, ErrorsInv
    <3>6. ReasonsInv'
      BY <1>a, <1>b, <2>1, <2>2, <3>1, <3>2, <3>3, <3>4 DEF ReasonsInv, IsUDP
    <3> QED
      BY <3>5, <3>6
  <2>4. CASE ~IsUDP(f)
    BY <1>a, <2>1, <2>2, <2>4 DEF GoTyped, ErrorsInv, ReasonsInv
  <2> QED
    BY <2>3, <2>4
<1>12. ASSUME NEW f \in Flow, FlowEnds(f) PROVE EngineInv'
  <2>1. flow[f] = "open" /\ flow' = [flow EXCEPT ![f] = "none"] /\ UNCHANGED <<go, errc, done, inq>>
    BY <1>12 DEF FlowEnds
  <2>2. /\ flow' \in [Flow -> {"none", "dial", "open"}] /\ IsFiniteSet(Begun')
        /\ \A g \in Flow \ {f} : flow'[g] = flow[g]
        /\ flow'[f] = "none"
    BY <1>a, <2>1, BegunGrows
  <2> QED
    BY <1>a, <2>1, <2>2 DEF GoTyped, ErrorsInv, ReasonsInv, IsUDP
<1>13. ASSUME NEW f \in Flow, Emit(f) PROVE EngineInv'
  BY <1>a, <1>13 DEF Emit, GoTyped, ErrorsInv, ReasonsInv, Begun
<1> QED
  BY <1>2, <1>3, <1>5, <1>6, <1>7, <1>8, <1>9, <1>10, <1>11, <1>12, <1>13
     DEF PathStep, Proceed, Traffic, Ingress, Injector, InReader, InPump, Flows

\* What the session does to its engine: it begins, its context ends, what it reads from is closed.
LEMMA SessionKeepsEngine ==
    ASSUME TracedInv, Along
    PROVE  TracedInv'
<1>1. CASE UNCHANGED <<go, errc, inq, flow, packets>> /\ (done => done')
           /\ (traced' = "on" => traced = "on")
  BY <1>1 DEF TracedInv, EngineInv, GoTyped, Begun, ErrorsInv, Over1, ReasonsInv, IsUDP
<1>2. CASE Begin(cancelled) /\ traced' = "on"
  <2>1. packets' = packets /\ done' = cancelled /\ errc' = 0 /\ inq' = 0
        /\ flow' = [f \in Flow |-> "none"]
    BY <1>2 DEF Begin
  <2>2. /\ go' \in [Goroutine -> Stage]
        /\ \A k \in Goroutine : go'[k] = IF k \in {"reader", "ingress", "inreader"}
                                         THEN Onward(k, cancelled) ELSE "wait"
    BY <1>2 DEF Begin, Onward, Stage
  <2>3. \A k \in Goroutine :
          k \in {"run", "reader", "ingress", "egress", "injector", "inreader", "inbound"}
    BY DEF Goroutine
  <2>4. /\ go'["run"] = "wait" /\ go'["egress"] = "wait" /\ go'["injector"] = "wait"
        /\ go'["inbound"] = "wait" /\ go'["reader"] \in {"read", "err"}
        /\ go'["ingress"] \in {"read", "err"} /\ (go'["ingress"] = "err" => cancelled)
        /\ go'["inreader"] \in {"read", "end"}
    BY <2>2 DEF Goroutine, Onward
  <2>5. IsFiniteSet(Begun')
    BY <2>1, FS_EmptySet DEF Begun
  <2>6. GoTyped'
    BY <2>1, <2>2, <2>4, <2>5, PathAssumption DEF GoTyped
  <2> QED
    BY <2>1, <2>4, <2>6 DEF TracedInv, EngineInv, ErrorsInv, Over1, ReasonsInv
<1>3. CASE PathGone /\ traced' = "no"
  BY <1>3 DEF PathGone, TracedInv
<1>4. CASE traced = "on" /\ done' = (done \/ Unwanted)
           /\ UNCHANGED <<go, errc, inq, flow, packets, traced>>
  <2>1. done => done'
    BY <1>4, Zenon
  <2> QED
    BY <1>1, <1>4, <2>1
<1>5. CASE UNCHANGED <<path, traced>>
  BY <1>1, <1>5 DEF path
<1> QED
  BY <1>2, <1>3, <1>4, <1>5, Zenon DEF Along, Follow
-----------------------------------------------------------------------------
(* The steps of the session. *)

LEMMA InitSettings == Init => SettingsInv
  BY DEF Init, SettingsInv, LoopInv, EntriesInv, ProxyInv, ProxyKept, DnsInv, NoEntries, Kept,
         Tidy, ProxyInPlace, ProxyTaken, ProxyUntouched

LEMMA NextLoop == LoopInv /\ [Next]_vars => LoopInv'
<1> SUFFICES ASSUME LoopInv, [Next]_vars PROVE LoopInv'
  OBVIOUS
<1> USE DEF LoopInv, svc
<1>1. CASE Launch \/ Exit \/ Crash \/ Connect \/ Disconnect \/ PortFree
  BY <1>1 DEF Launch, Exit, Crash, Gone, Connect, Disconnect, PortFree, dnsVars
<1>2. CASE Loop
  BY <1>2 DEF Loop, LoopSession, LoopRetry, LoopPause, LoopExit, dnsVars
<1>3. CASE Run
  <2>1. pc # "none" /\ pc' # "none" /\ UNCHANGED svc
    BY <1>3 DEF Run, Recover, RecoverFails, RecoverDrop, RecoverNothing, FailEarly, ProxyHeal,
       ProxyHealFails, ProxyHealDrop, ProxySave, ProxySaveFails, ProxyOff, DialOk, DialFail,
       Listen, ListenFail, Apply, ApplyNothing, Stash, StashFails, Ends, DnsBack, DnsBackFails,
       DnsDrop, CloseClient, ProxyBack, ProxyBackFails, ProxyDrop, Goto
  <2> QED
    BY <2>1
<1>4. CASE Supervise
  BY <1>4 DEF Supervise, Plug, Move, Moved, MoveFail, SupApply, SupTruncate, SupStash, dnsVars
<1>5. CASE UNCHANGED vars
  BY <1>5 DEF vars, dnsVars
<1> QED
  BY <1>1, <1>2, <1>3, <1>4, <1>5 DEF Next

\* What the proxy's part of the state, and the point that run has come to, are changed by.
LEMMA NextProxy == LoopInv /\ ProxyInv /\ [Next]_vars => ProxyInv'
<1> SUFFICES ASSUME LoopInv, ProxyInv, [Next]_vars, "proxy" \notin exposed'
             PROVE  ProxyInv'
  BY DEF ProxyInv
<1> USE DEF ProxyInv, ProxyKept, ProxyTaken, ProxyInPlace, ProxyUntouched, Tidy, svc, proxyVars,
            history, Goto
<1>1. CASE Launch \/ Exit \/ Crash \/ Connect \/ Disconnect \/ PortFree
  BY <1>1 DEF Launch, Exit, Crash, Gone, Connect, Disconnect, PortFree, LoopInv
<1>2. CASE Loop
  BY <1>2 DEF Loop, LoopSession, LoopRetry, LoopPause, LoopExit, LoopInv
<1>3. CASE Recover \/ RecoverFails \/ RecoverDrop \/ RecoverNothing
  BY <1>3 DEF Recover, RecoverFails, RecoverDrop, RecoverNothing
<1>4. CASE FailEarly \/ ProxyHeal \/ ProxyHealFails \/ ProxyHealDrop
  BY <1>4 DEF FailEarly, ProxyHeal, ProxyHealFails, ProxyHealDrop
<1>5. CASE ProxySave \/ ProxySaveFails \/ ProxyOff
  BY <1>5 DEF ProxySave, ProxySaveFails, ProxyOff
<1>6. CASE DialOk \/ DialFail \/ Listen \/ ListenFail \/ Apply \/ ApplyNothing \/ Stash \/ StashFails
  BY <1>6 DEF DialOk, DialFail, Listen, ListenFail, Apply, ApplyNothing, Stash, StashFails
<1>7. CASE Ends \/ DnsBack \/ DnsBackFails \/ DnsDrop \/ CloseClient
  BY <1>7 DEF Ends, DnsBack, DnsBackFails, DnsDrop, CloseClient
<1>8. CASE ProxyBack \/ ProxyBackFails \/ ProxyDrop
  BY <1>8 DEF ProxyBack, ProxyBackFails, ProxyDrop
<1>9. CASE Supervise
  BY <1>9 DEF Supervise, Plug, Move, Moved, MoveFail, SupApply, SupTruncate, SupStash
<1>10. CASE UNCHANGED vars
  BY <1>10 DEF vars
<1> QED
  BY <1>1, <1>2, <1>3, <1>4, <1>5, <1>6, <1>7, <1>8, <1>9, <1>10 DEF Next, Run

\* Apply keeps the settings that are not ours.
LEMMA TakenEntries ==
    ASSUME dns \in [Adapter -> {"user", "ours"}]
    PROVE  /\ Taken \in [Adapter -> {"none", "user"}]
           /\ \A a \in Adapter : Taken[a] = IF a \in live /\ dns[a] # "ours" THEN "user" ELSE "none"
           /\ TakeOver => /\ dns' \in [Adapter -> {"user", "ours"}]
                         /\ \A a \in Adapter : dns'[a] = dns[a] \/ Taken[a] = "user"
  BY DEF Taken, TakeOver

LEMMA NextEntries == EntriesInv /\ [Next]_vars => EntriesInv'
<1> SUFFICES ASSUME EntriesInv, [Next]_vars PROVE EntriesInv'
  OBVIOUS
<1>0. NoEntries \in [Adapter -> {"none", "user"}] /\ Kept(NoEntries) = {}
  BY DEF NoEntries, Kept
<1>1. CASE UNCHANGED <<dns, supSaved>> /\ exposed \subseteq exposed'
           /\ {stash', saved'} \subseteq {stash, saved, supSaved, NoEntries}
  BY <1>0, <1>1 DEF EntriesInv, Kept
<1>2. CASE Exit \/ Crash
  BY <1>0, <1>2 DEF Exit, Crash, Gone, EntriesInv
<1>3. CASE Recover \/ DnsBack
  BY <1>3 DEF Recover, DnsBack, Restored, EntriesInv, Kept, supVars, history
<1>4. CASE Apply
  BY <1>4, TakenEntries DEF Apply, EntriesInv, Kept, supVars, history
<1>5. CASE SupApply
  BY <1>5, TakenEntries DEF SupApply, EntriesInv, Kept
<1>6. CASE SupStash
  BY <1>0, <1>6 DEF SupStash, EntriesInv
<1>11. CASE SupTruncate
  BY <1>0, <1>11 DEF SupTruncate, EntriesInv
<1>7. CASE Launch \/ Connect \/ Disconnect \/ PortFree \/ Loop
  BY <1>1, <1>7 DEF Launch, Connect, Disconnect, PortFree, Loop, LoopSession, LoopRetry,
     LoopPause, LoopExit, dnsVars, supVars, history
<1>8. CASE Run /\ ~Recover /\ ~DnsBack /\ ~Apply
  BY <1>1, <1>8 DEF Run, RecoverFails, RecoverDrop, RecoverNothing, FailEarly, ProxyHeal,
     ProxyHealFails, ProxyHealDrop, ProxySave, ProxySaveFails, ProxyOff, DialOk, DialFail,
     Listen, ListenFail, ApplyNothing, Stash, StashFails, Ends, DnsBackFails,
     DnsDrop, CloseClient, ProxyBack, ProxyBackFails, ProxyDrop, dnsVars, supVars, history
<1>9. CASE Plug \/ Move \/ Moved \/ MoveFail
  BY <1>1, <1>9 DEF Plug, Move, Moved, MoveFail, dnsVars, supVars, history
<1>10. CASE UNCHANGED vars
  BY <1>1, <1>10 DEF vars, dnsVars, supVars, history
<1> QED
  BY <1>2, <1>3, <1>4, <1>5, <1>6, <1>7, <1>8, <1>9, <1>10, <1>11 DEF Next, Supervise

\* The DNS of an adapter that nothing exposes: wherever run is, and whatever the
\* supervisor does meanwhile.
LEMMA NextDns == LoopInv /\ EntriesInv /\ DnsInv /\ [Next]_vars => DnsInv'
<1> SUFFICES ASSUME LoopInv, EntriesInv, DnsInv, [Next]_vars,
                    NEW a \in Adapter, a \notin exposed'
             PROVE  (dns[a] = "user" \/ DnsLeft(a) \/ DnsTaken(a) \/ DnsFiled(a))'
  BY DEF DnsInv
<1>0. /\ exposed \subseteq exposed'
      /\ dns[a] = "user" \/ DnsLeft(a) \/ DnsTaken(a) \/ DnsFiled(a)
  <2>1. exposed \subseteq exposed'
    BY DEF Next, Launch, Exit, Crash, Gone, Connect, Disconnect, Loop, LoopSession, LoopRetry,
       LoopPause, LoopExit, Run, Recover, RecoverFails, RecoverDrop, RecoverNothing, FailEarly,
       ProxyHeal, ProxyHealFails, ProxyHealDrop, ProxySave, ProxySaveFails, ProxyOff, DialOk,
       DialFail, Listen, ListenFail, Apply, ApplyNothing, Stash, StashFails, Ends, DnsBack,
       DnsBackFails, DnsDrop, CloseClient, ProxyBack, ProxyBackFails, ProxyDrop, PortFree,
       Supervise, Plug, Move, Moved, MoveFail, SupApply, SupTruncate, SupStash, vars, history
  <2> QED
    BY <2>1 DEF DnsInv
<1>a. /\ stash[a] \in {"none", "user"} /\ saved[a] \in {"none", "user"}
      /\ supSaved[a] = "user" => a \in exposed
  BY DEF EntriesInv, Kept
<1> USE DEF DnsLeft, DnsTaken, DnsFiled, Tidy, svc, dnsVars, history, Goto
<1>1. CASE Launch \/ Connect \/ Disconnect \/ PortFree
  BY <1>0, <1>1 DEF Launch, Connect, Disconnect, PortFree, LoopInv
<1>2. CASE Exit
  BY <1>0, <1>2 DEF Exit, Gone, LoopInv
<1>3. CASE Crash
  BY <1>0, <1>3 DEF Crash, Gone, Kept
<1>4. CASE Loop
  BY <1>0, <1>4 DEF Loop, LoopSession, LoopRetry, LoopPause, LoopExit, LoopInv
<1>5. CASE Recover
  BY <1>0, <1>a, <1>5 DEF Recover, Restored
<1>6. CASE RecoverFails \/ RecoverDrop \/ RecoverNothing
  BY <1>0, <1>a, <1>6 DEF RecoverFails, RecoverDrop, RecoverNothing, Kept
<1>7. CASE \/ FailEarly \/ ProxyHeal \/ ProxyHealFails \/ ProxyHealDrop \/ ProxySave
           \/ ProxySaveFails \/ ProxyOff
  BY <1>0, <1>7 DEF FailEarly, ProxyHeal, ProxyHealFails, ProxyHealDrop, ProxySave,
     ProxySaveFails, ProxyOff
<1>8. CASE DialOk \/ DialFail \/ Listen \/ ListenFail \/ ApplyNothing
  BY <1>0, <1>8 DEF DialOk, DialFail, Listen, ListenFail, ApplyNothing
<1>9. CASE Apply
  <2>1. dns[a] = "user"
    BY <1>0, <1>9 DEF Apply
  <2> QED
    BY <1>9, <2>1, TakenEntries DEF Apply, EntriesInv
<1>10. CASE Stash \/ StashFails
  BY <1>0, <1>10 DEF Stash, StashFails, Kept
<1>11. CASE Ends
  BY <1>0, <1>11 DEF Ends
<1>12. CASE DnsBack \/ DnsBackFails
  BY <1>0, <1>a, <1>12 DEF DnsBack, DnsBackFails, Restored, Kept
<1>13. CASE DnsDrop \/ CloseClient \/ ProxyBack \/ ProxyBackFails \/ ProxyDrop
  BY <1>0, <1>13 DEF DnsDrop, CloseClient, ProxyBack, ProxyBackFails, ProxyDrop
<1>14. CASE Plug \/ Move \/ Moved \/ MoveFail
  BY <1>0, <1>14 DEF Plug, Move, Moved, MoveFail
<1>15. CASE SupApply
  <2>1. Taken[a] = "none" /\ dns'[a] = dns[a]
    BY <1>15, TakenEntries DEF SupApply, Kept, EntriesInv
  <2> QED
    BY <1>0, <1>15, <2>1 DEF SupApply
<1>16. CASE SupTruncate \/ SupStash
  <2>1. stash[a] = "none"
    BY <1>a, <1>16 DEF SupTruncate, SupStash, Kept
  <2> QED
    BY <1>0, <1>16, <2>1 DEF SupTruncate, SupStash
<1>17. CASE UNCHANGED vars
  BY <1>0, <1>17 DEF vars
<1> QED
  BY <1>1, <1>2, <1>3, <1>4, <1>5, <1>6, <1>7, <1>8, <1>9, <1>10, <1>11, <1>12, <1>13, <1>14,
     <1>15, <1>16, <1>17 DEF Next, Run, Supervise

LEMMA InitWhole == WholeInit => SettingsInv /\ BuffersInv /\ TracedInv
<1>1. PathInit => BuffersInv
  <2> SUFFICES ASSUME PathInit PROVE BuffersInv
    OBVIOUS
  <2>1. ch = <<>> /\ out = <<>> /\ batch = <<>> /\ free = Buffer /\ BufsOf(ch) = <<>>
    BY DEF PathInit, BufsOf
  <2>2. QueuesInv
    BY <2>1, EmptyQueue, PathAssumption DEF QueuesInv
  <2> QED
    BY <2>1, <2>2 DEF BuffersInv, Used, InCh, InOut, InBatch
<1>2. WholeInit => TracedInv
  BY RunAssumption DEF WholeInit, TracedInv
<1> QED
  BY <1>1, <1>2, InitSettings DEF WholeInit

LEMMA NextWhole ==
    ASSUME SettingsInv, BuffersInv, TracedInv, [WholeNext]_whole
    PROVE  (SettingsInv /\ BuffersInv /\ TracedInv)'
<1>1. [Next]_vars => SettingsInv'
  BY NextLoop, NextProxy, NextEntries, NextDns DEF SettingsInv
<1>2. CASE SessionStep
  BY <1>1, <1>2, SessionKeepsBuffers, SessionKeepsEngine DEF SessionStep
<1>3. CASE EngineStep
  <2>1. EngineInv' /\ traced' = traced /\ BuffersInv'
    BY <1>3, EngineKeeps, EngineKeepsBuffers DEF EngineStep, TracedInv
  <2>2. packets' \in Nat
    <3>1. packets' = packets \/ Spend
      BY <1>3 DEF EngineStep, PathStep, Proceed, Traffic, RunReturns, CaptureFails, IngressFails,
         EgressEnds, InjectorEnds, InReader, InPump, InRead, InFails, InPutLater, Inbound,
         InboundEnds, Fails, Ingress, Injector, Deliver, Gather, Inject, Flows, DialEnds, Dialled,
         FlowEnds, Capture, Emit
    <3> QED
      BY <3>1 DEF Spend, TracedInv
  <2> QED
    BY <1>1, <1>3, <2>1, <2>2 DEF EngineStep, TracedInv
<1>4. CASE UNCHANGED whole
  BY <1>1, <1>4, BuffersStay DEF whole, path, TracedInv, EngineInv, GoTyped, Begun, ErrorsInv,
     Over1, ReasonsInv, IsUDP
<1> QED
  BY <1>2, <1>3, <1>4 DEF WholeNext

LEMMA WholeInvariant == WholeSpec => [](SettingsInv /\ BuffersInv /\ TracedInv)
<1> DEFINE I == SettingsInv /\ BuffersInv /\ TracedInv
<1>1. I /\ [WholeNext]_whole => I'
  BY NextWhole
<1>2. WholeInit => I
  BY InitWhole
<1> QED
  BY <1>1, <1>2, PTL DEF WholeSpec

-----------------------------------------------------------------------------
\* The user's proxy and the DNS of every adapter are in place or in the file from
\* which the next session heals, whenever the process dies, but for what is
\* exposed (sysproxy_windows.go Disable, sysdns_windows.go Apply, Restore).
THEOREM SettingsSurvive == WholeSpec => []SettingsRecoverable
<1>1. SettingsInv => SettingsRecoverable
  BY DEF SettingsInv, ProxyInv, DnsInv, DnsLeft, DnsTaken, DnsFiled, SettingsRecoverable, DnsKept
<1> QED
  BY <1>1, WholeInvariant, PTL

\* A service that says it is stopped has given everything back, also what the
\* sessions before had left (service.go Disconnect, sysproxy EnsureRestored).
THEOREM StoppedIsQuiet == WholeSpec => []QuietWhenStopped
<1>1. SettingsInv => QuietWhenStopped
  <2> SUFFICES ASSUME SettingsInv, proc, state = "stopped", tidied PROVE Quiet
    BY DEF QuietWhenStopped
  <2>1. pc = "none" /\ Tidy
    BY DEF SettingsInv, LoopInv, Tidy
  <2> QED
    BY <2>1 DEF SettingsInv, ProxyInv, ProxyUntouched, DnsInv, DnsLeft, DnsTaken, DnsFiled, Quiet
<1> QED
  BY <1>1, WholeInvariant, PTL

\* However many flows, buffers and sessions there are, no buffer of the pool is in
\* two queues, or twice in one, or free while a packet waits in it
\* (hybrid/engine.go push, WritePacket, injectLoop).
THEOREM OneOwnerPerBuffer == WholeSpec => []BuffersKept
<1>1. BuffersInv => BuffersKept
  BY UsedCount DEF BuffersInv, BuffersKept, Used
<1> QED
  BY <1>1, WholeInvariant, PTL

\* Of an engine that has no step left to take, only goroutines that wait for a packet are there if
\* the session was not wanted any more, and none that reads if what it read from was closed:
\* each finds room for its error, the context done or its source closed (hybrid/engine.go Run,
\* netstack.go:180-186).
THEOREM EngineEnds == WholeSpec => []GoroutinesEnd
<1>1. ASSUME TracedInv, ~GoesOn PROVE GoroutinesEnd
  <2> USE DEF At, Over1
  <2>a. GoTyped /\ ErrorsInv /\ ReasonsInv /\ ~CanProceed /\ ErrSize = 3 /\ InSize \in Nat \ {0}
    BY <1>1, PathAssumption DEF TracedInv, EngineInv, GoesOn, ErrSize
  <2>1. ASSUME done PROVE Ended({"run", "egress", "injector", "inbound"})
    BY <2>1, <2>a DEF GoTyped, CanProceed, Ended
  <2>2. ASSUME ~open PROVE Ended({"run", "reader", "inreader", "inbound"})
    <3>1. errc < ErrSize \/ (go["reader"] = "end" /\ go["inreader"] = "end")
      BY <2>a DEF GoTyped, ErrorsInv
    <3>2. go["reader"] = "end"
      BY <2>2, <2>a, <3>1 DEF GoTyped, CanProceed
    <3>3. go["run"] = "end"
      BY <2>a, <3>2 DEF GoTyped, ErrorsInv, CanProceed
    <3>4. go["inreader"] = "end"
      BY <2>2, <2>a, <3>1 DEF GoTyped, ReasonsInv, CanProceed
    <3>5. go["inbound"] = "end"
      BY <2>a, <3>4 DEF GoTyped, CanProceed
    <3> QED
      BY <3>2, <3>3, <3>4, <3>5 DEF Ended
  <2> QED
    BY <2>1, <2>2 DEF GoroutinesEnd
<1>2. TracedInv => GoroutinesEnd
  BY <1>1 DEF GoroutinesEnd
<1> QED
  BY <1>2, WholeInvariant, PTL

\* Nor is a captured packet left then, unless a UDP flow waits for one of the node's streams: the
\* goroutine that takes them waits for nothing else (netstack.go:266-283).
THEOREM PacketsPass == WholeSpec => []FlowsGetThrough
<1>1. ASSUME TracedInv, ~GoesOn, ch # <<>>, ~done PROVE Full
  <2> USE DEF At
  <2>1. GoTyped /\ ReasonsInv /\ ~CanProceed
    BY <1>1 DEF TracedInv, EngineInv, GoesOn
  <2>2. go["ingress"] = "dial"
    BY <1>1, <2>1 DEF GoTyped, ReasonsInv, CanProceed
  <2>3. PICK f \in Flow : IsUDP(f) /\ flow[f] = "dial"
    BY <2>1, <2>2 DEF ReasonsInv
  <2> QED
    BY <2>1, <2>3 DEF CanProceed, NodeSilent
<1>2. TracedInv => FlowsGetThrough
  BY <1>1 DEF FlowsGetThrough
<1> QED
  BY <1>2, WholeInvariant, PTL
-----------------------------------------------------------------------------
(* What is left for the engine to do. *)

LEMMA OneMore ==
    ASSUME NEW S, IsFiniteSet(S), NEW x
    PROVE  /\ Cardinality(S) \in Nat
           /\ x \notin S => Cardinality(S \cup {x}) = Cardinality(S) + 1
           /\ x \in S => Cardinality(S) = Cardinality(S \ {x}) + 1
           /\ IsFiniteSet(S \ {x}) /\ Cardinality(S \ {x}) \in Nat
<1>1. IsFiniteSet(S \ {x})
  BY FS_RemoveElement
<1>2. Cardinality(S) \in Nat /\ Cardinality(S \ {x}) \in Nat
  BY <1>1, FS_CardinalityType
<1>3. x \in S => Cardinality(S \ {x}) = Cardinality(S) - 1
  BY FS_RemoveElement
<1> QED
  BY <1>1, <1>2, <1>3, FS_AddElement

\* A flow that goes on to stage s is counted there and not where it was.
LEMMA FlowMoves ==
    ASSUME GoTyped, NEW f \in Flow, NEW s \in {"none", "dial", "open"}, flow[f] # s,
           flow' = [flow EXCEPT ![f] = s]
    PROVE  /\ Dealings \in Nat /\ Dealings' \in Nat
           /\ s = "dial" /\ flow[f] = "none" => Dealings' = Dealings + 2
           /\ flow[f] = "open" /\ s = "none" => Dealings' < Dealings
           /\ flow[f] = "dial" => Dealings' < Dealings
<1>1. /\ flow \in [Flow -> {"none", "dial", "open"}] /\ IsFiniteSet(Begun) /\ IsFiniteSet(Begun')
      /\ flow'[f] = s /\ \A g \in Flow \ {f} : flow'[g] = flow[g]
  BY BegunGrows DEF GoTyped
<1>2. ASSUME NEW st \in {"dial", "open"}
      PROVE  /\ IsFiniteSet(InStage(st)) /\ IsFiniteSet(InStage(st)')
             /\ InStage(st)' = IF s = st THEN InStage(st) \cup {f} ELSE InStage(st) \ {f}
             /\ f \in InStage(st) <=> flow[f] = st
  <2>1. InStage(st) \subseteq Begun /\ InStage(st)' \subseteq Begun'
    BY DEF InStage, Begun
  <2>2. IsFiniteSet(InStage(st)) /\ IsFiniteSet(InStage(st)')
    BY <1>1, <2>1, FS_Subset
  <2> QED
    BY <1>1, <2>2 DEF InStage
<1>3. ASSUME NEW st \in {"dial", "open"}
      PROVE  /\ Cardinality(InStage(st)) \in Nat /\ Cardinality(InStage(st)') \in Nat
             /\ s = st => Cardinality(InStage(st)') = Cardinality(InStage(st)) + 1
             /\ flow[f] = st => Cardinality(InStage(st)') = Cardinality(InStage(st)) - 1
             /\ s # st /\ flow[f] # st => Cardinality(InStage(st)') = Cardinality(InStage(st))
  <2>1. Cardinality(InStage(st)') \in Nat
    BY <1>2, FS_CardinalityType
  <2>2. s # st /\ flow[f] # st => InStage(st)' = InStage(st)
    BY <1>2
  <2>3. s = st => InStage(st)' = InStage(st) \cup {f} /\ f \notin InStage(st)
    BY <1>2
  <2>4. flow[f] = st => InStage(st)' = InStage(st) \ {f} /\ f \in InStage(st)
    BY <1>2
  <2>5. /\ Cardinality(InStage(st)) \in Nat
        /\ f \notin InStage(st) => Cardinality(InStage(st) \cup {f}) = Cardinality(InStage(st)) + 1
        /\ f \in InStage(st) => Cardinality(InStage(st)) = Cardinality(InStage(st) \ {f}) + 1
        /\ Cardinality(InStage(st) \ {f}) \in Nat
    BY <1>2, OneMore
  <2> QED
    BY <2>1, <2>2, <2>3, <2>4, <2>5
<1> DEFINE d == Cardinality(InStage("dial"))
           o == Cardinality(InStage("open"))
           dn == Cardinality(InStage("dial")')
           on == Cardinality(InStage("open")')
<1>4. Dealings = 2 * d + o /\ Dealings' = 2 * dn + on
  BY DEF Dealings
<1>5. /\ d \in Nat /\ dn \in Nat /\ o \in Nat /\ on \in Nat
      /\ s = "dial" => dn = d + 1
      /\ s = "open" => on = o + 1
      /\ flow[f] = "dial" => dn = d - 1
      /\ flow[f] = "open" => on = o - 1
      /\ s # "dial" /\ flow[f] # "dial" => dn = d
      /\ s # "open" /\ flow[f] # "open" => on = o
  BY <1>3
<1>6. flow[f] \in {"none", "dial", "open"}
  BY <1>1
<1> HIDE DEF d, o, dn, on
<1> QED
  BY <1>4, <1>5, <1>6

LEMMA Dealt ==
    ASSUME GoTyped
    PROVE  Dealings \in Nat /\ (flow' = flow => Dealings' = Dealings)
<1>1. IsFiniteSet(Begun) /\ InStage("dial") \subseteq Begun /\ InStage("open") \subseteq Begun
  BY DEF GoTyped, InStage, Begun
<1>2. Cardinality(InStage("dial")) \in Nat /\ Cardinality(InStage("open")) \in Nat
  BY <1>1, FS_Subset, FS_CardinalityType
<1>3. flow' = flow => UNCHANGED <<InStage("dial"), InStage("open")>>
  BY DEF InStage
<1> QED
  BY <1>2, <1>3 DEF Dealings

\* A goroutine that has not ended goes on to stage s.
LEMMA GoroutineMoves ==
    ASSUME GoTyped, GoTyped', NEW k \in Goroutine, NEW s \in Stage, To(k, s), go[k] # "end"
    PROVE  /\ Turning \in Nat /\ Turning' \in Nat
           /\ s = "end" => Turning' < Turning
           /\ k \notin {"injector", "inreader"} => Turning' <= Turning
           /\ k = "injector" => Turning' <= Turning + 1
           /\ k = "injector" /\ go[k] = "gather" => Turning' <= Turning
           /\ k = "injector" /\ go[k] = "gather" /\ s = "wait" => Turning' < Turning
           /\ k = "inreader" /\ s # "put" => Turning' <= Turning
           /\ k = "inreader" => Turning' <= Turning + 2
           /\ k = "inreader" /\ go[k] = "put" /\ s # "put" => Turning' + 2 <= Turning
<1>1. go' \in [Goroutine -> Stage] /\ go'[k] = s /\ \A j \in Goroutine \ {k} : go'[j] = go[j]
  BY Turn
<1>2. IsFiniteSet(Running)
  <2>1. IsFiniteSet(Goroutine)
    <3>1. Goroutine = {"run"} \cup ({"reader"} \cup ({"ingress"} \cup ({"egress"}
                       \cup ({"injector"} \cup ({"inreader"} \cup {"inbound"})))))
      BY DEF Goroutine
    <3> QED
      BY <3>1, FS_Singleton, FS_Union
  <2> QED
    BY <2>1, FS_Subset DEF Running
<1>3. k \in Running /\ Running' = IF s = "end" THEN Running \ {k} ELSE Running
  BY <1>1 DEF Running
<1> DEFINE r == Cardinality(Running)
           g == IF At("injector", "gather") THEN 1 ELSE 0
           q == IF At("inreader", "put") THEN 2 ELSE 0
           rn == Cardinality(Running')
           gn == IF At("injector", "gather")' THEN 1 ELSE 0
           qn == IF At("inreader", "put")' THEN 2 ELSE 0
<1>4. /\ r \in Nat /\ rn \in Nat
      /\ s = "end" => r = rn + 1
      /\ s # "end" => rn = r
  BY <1>2, <1>3, OneMore
<1>5. {"injector", "inreader"} \subseteq Goroutine
  BY DEF Goroutine
<1>6. /\ g \in {0, 1} /\ gn \in {0, 1} /\ q \in {0, 2} /\ qn \in {0, 2}
      /\ k # "injector" => gn = g
      /\ k # "inreader" => qn = q
      /\ k = "injector" /\ go[k] = "gather" => g = 1
      /\ k = "injector" /\ s # "gather" => gn = 0
      /\ k = "inreader" /\ go[k] = "put" => q = 2
      /\ k = "inreader" /\ s # "put" => qn = 0
  BY <1>1, <1>5 DEF At
<1>7. Turning = r + g + q /\ Turning' = rn + gn + qn
  BY DEF Turning
<1> HIDE DEF r, g, q, rn, gn, qn
<1>8. g \in Nat /\ gn \in Nat /\ q \in Nat /\ qn \in Nat /\ gn <= g + 1 /\ qn <= q + 2
  BY <1>6
<1>9. "gather" # "end" /\ "put" # "end" /\ "wait" # "gather" /\ "injector" # "inreader"
  OBVIOUS
<1> QED
  BY <1>4, <1>6, <1>7, <1>8, <1>9

LEMMA Lengths ==
    ASSUME BuffersInv, GoTyped
    PROVE  Len(ch) \in Nat /\ Len(out) \in Nat /\ Len(batch) \in Nat /\ inq \in Nat
  BY PathAssumption DEF BuffersInv, QueuesInv, GoTyped

LEMMA StepLeavesLess ==
    ASSUME BuffersInv, EngineInv, packets \in Nat, PathStep
    PROVE  Left' < Left
<1> USE DEF At
<1>a. GoTyped /\ ReasonsInv /\ GoTyped' /\ BuffersInv'
  BY EngineKeeps, EngineKeepsBuffers DEF EngineInv
<1>b. /\ Len(ch) \in Nat /\ Len(out) \in Nat /\ Len(batch) \in Nat /\ inq \in Nat
      /\ Len(ch)' \in Nat /\ Len(out)' \in Nat /\ Len(batch)' \in Nat /\ inq' \in Nat
      /\ Dealings \in Nat /\ Dealings' \in Nat /\ (flow' = flow => Dealings' = Dealings)
  <2>1. Len(ch) \in Nat /\ Len(out) \in Nat /\ Len(batch) \in Nat /\ inq \in Nat
    BY <1>a, Lengths
  <2>2. Len(ch)' \in Nat /\ Len(out)' \in Nat /\ Len(batch)' \in Nat /\ inq' \in Nat
    BY <1>a, PathAssumption DEF BuffersInv, QueuesInv, GoTyped
  <2>3. IsFiniteSet(Begun') /\ InStage("dial")' \subseteq Begun' /\ InStage("open")' \subseteq Begun'
    BY <1>a DEF GoTyped, InStage, Begun
  <2>4. Dealings' \in Nat
    BY <2>3, FS_Subset, FS_CardinalityType DEF Dealings
  <2> QED
    BY <1>a, <2>1, <2>2, <2>4, Dealt
<1>c. Turning \in Nat /\ Turning' \in Nat /\ (go' = go => Turning' = Turning)
  <2>1. IsFiniteSet(Goroutine)
    <3>1. Goroutine = {"run"} \cup ({"reader"} \cup ({"ingress"} \cup ({"egress"}
                       \cup ({"injector"} \cup ({"inreader"} \cup {"inbound"})))))
      BY DEF Goroutine
    <3> QED
      BY <3>1, FS_Singleton, FS_Union
  <2>2. Cardinality(Running) \in Nat /\ Cardinality(Running') \in Nat
    BY <2>1, FS_Subset, FS_CardinalityType DEF Running
  <2> QED
    BY <2>2 DEF Turning, Running
<1>d. Queued = 3 * Len(ch) + 3 * Len(out) + Len(batch) + inq /\ Queued \in Nat
      /\ Queued' = 3 * Len(ch)' + 3 * Len(out)' + Len(batch)' + inq' /\ Queued' \in Nat
  BY <1>b DEF Queued
<1>e. "inreader" \in Goroutine /\ "injector" \in Goroutine /\ "ingress" \in Goroutine
      /\ {"run", "reader", "egress", "inbound"} \subseteq Goroutine
  BY DEF Goroutine
\* The four parts, and those of the next state.
<1> DEFINE q == Queued
           qn == Queued'
           d == Dealings
           dn == Dealings'
           t == Turning
           tn == Turning'
           l == Left
           ln == Left'
<1>f. /\ l = 5 * packets + q + d + t /\ ln = 5 * packets' + qn + dn + tn
      /\ q \in Nat /\ qn \in Nat /\ d \in Nat /\ dn \in Nat /\ t \in Nat /\ tn \in Nat
  BY <1>b, <1>c, <1>d DEF Left
<1> SUFFICES ln < l
  OBVIOUS
\* Without packets from outside, and with the queues and the flows as they were, a goroutine ends.
<1>1. ASSUME NEW k \in Goroutine, To(k, "end"), go[k] # "end", packets' = packets, qn <= q,
             dn <= d
      PROVE  ln < l
  <2>1. tn < t
    BY <1>1, <1>a, GoroutineMoves DEF Stage
  <2> HIDE DEF q, qn, d, dn, t, tn, l, ln
  <2> QED
    BY <1>1, <1>f, <2>1
<1>2. CASE \/ CaptureFails \/ IngressFails \/ InFails \/ RunReturns \/ EgressEnds \/ InjectorEnds
           \/ InboundEnds
  <2>1. \E k \in Goroutine : To(k, "end") /\ go[k] # "end"
    BY <1>2, <1>e DEF CaptureFails, IngressFails, InFails, RunReturns, EgressEnds, InjectorEnds,
       InboundEnds, Fails
  <2>2. UNCHANGED <<packets, ch, out, batch, inq, flow>>
    BY <1>2 DEF CaptureFails, IngressFails, InFails, RunReturns, EgressEnds, InjectorEnds,
       InboundEnds, Fails, buffers
  <2>3. packets' = packets /\ qn <= q /\ dn <= d
    BY <1>b, <1>d, <2>2
  <2> QED
    BY <1>1, <2>1, <2>3
<1>3. ASSUME NEW f \in Flow, Capture(f) PROVE ln < l
  <2>1. /\ packets' = packets - 1 /\ UNCHANGED <<out, batch, inq, flow>>
        /\ \E s \in {"read", "err"} : To("reader", s)
        /\ go["reader"] = "read" /\ ch' \in {ch, Append(ch, [buf |-> Buf, flow |-> f])}
    BY <1>3 DEF Capture, Spend, Push, Onward
  <2>2. Len(ch)' <= Len(ch) + 1
    BY <1>b, <2>1
  <2>3. tn <= t
    BY <1>a, <1>e, <2>1, GoroutineMoves DEF Stage
  <2>4. qn <= q + 3 /\ dn = d
    BY <1>b, <1>d, <2>1, <2>2
  <2>5. packets \in Nat /\ packets' = packets - 1
    BY <2>1
  <2> HIDE DEF q, qn, d, dn, t, tn, l, ln
  <2> QED
    BY <1>f, <2>3, <2>4, <2>5
<1>4. ASSUME NEW f \in Flow, Emit(f) PROVE ln < l
  <2>1. /\ packets' = packets - 1 /\ UNCHANGED <<ch, batch, inq, flow, go>>
        /\ out' = Append(out, Buf)
    BY <1>4 DEF Emit, Spend, WritePacket
  <2>2. Len(out)' = Len(out) + 1
    BY <2>1, <1>b
  <2>3. qn <= q + 3 /\ dn = d /\ tn = t
    BY <1>b, <1>c, <1>d, <2>1, <2>2
  <2>4. packets' = packets - 1
    BY <2>1
  <2> HIDE DEF q, qn, d, dn, t, tn, l, ln
  <2> QED
    BY <1>f, <2>3, <2>4
<1>5. CASE InRead
  <2>1. /\ packets' = packets - 1 /\ UNCHANGED <<ch, out, batch, flow>>
        /\ \E s \in {"read", "put", "end"} : To("inreader", s)
        /\ go["inreader"] = "read" /\ inq' \in {inq, inq + 1}
    BY <1>5 DEF InRead, Spend, InPut, Onward, buffers
  <2>2. tn <= t + 2
    BY <1>a, <1>e, <2>1, GoroutineMoves DEF Stage
  <2>3. qn <= q + 1 /\ dn = d /\ packets' = packets - 1
    BY <1>b, <1>d, <2>1
  <2> HIDE DEF q, qn, d, dn, t, tn, l, ln
  <2> QED
    BY <1>f, <2>2, <2>3
<1>6. CASE InPutLater
  <2>1. /\ UNCHANGED <<packets, ch, out, batch, flow>>
        /\ \E s \in {"read", "end"} : To("inreader", s)
        /\ go["inreader"] = "put" /\ inq' \in {inq, inq + 1}
    BY <1>6 DEF InPutLater, InPut, Onward, buffers
  <2>2. tn + 2 <= t
    BY <1>a, <1>e, <2>1, GoroutineMoves DEF Stage
  <2>3. qn <= q + 1 /\ dn = d /\ packets' = packets
    BY <1>b, <1>d, <2>1
  <2> HIDE DEF q, qn, d, dn, t, tn, l, ln
  <2> QED
    BY <1>f, <2>2, <2>3
<1>7. CASE Inbound
  <2>1. UNCHANGED <<packets, ch, out, batch, flow, go>> /\ inq' = 0 /\ inq > 0
    BY <1>7 DEF Inbound, buffers
  <2>2. qn < q /\ dn = d /\ tn = t /\ packets' = packets
    BY <1>b, <1>c, <1>d, <2>1
  <2> HIDE DEF q, qn, d, dn, t, tn, l, ln
  <2> QED
    BY <1>f, <2>2
<1>8. CASE Gather
  <2>1. /\ UNCHANGED <<packets, ch, inq, flow>> /\ To("injector", "gather")
        /\ batch' = Append(batch, Head(out)) /\ out' = Tail(out) /\ out # <<>>
        /\ go["injector"] # "end"
    BY <1>8 DEF Gather
  <2>2. Len(batch)' = Len(batch) + 1 /\ Len(out)' = Len(out) - 1
    BY <1>b, <2>1 DEF BuffersInv, QueuesInv
  <2>3. tn <= t + 1
    BY <1>a, <1>e, <2>1, GoroutineMoves DEF Stage
  <2>4. qn + 2 <= q /\ dn = d /\ packets' = packets
    BY <1>b, <1>d, <2>1, <2>2
  <2> HIDE DEF q, qn, d, dn, t, tn, l, ln
  <2> QED
    BY <1>f, <2>3, <2>4
<1>9. CASE Inject
  <2>1. /\ UNCHANGED <<packets, ch, out, inq, flow>> /\ To("injector", "wait")
        /\ batch' = <<>> /\ go["injector"] = "gather"
    BY <1>9 DEF Inject
  <2>2. tn < t
    BY <1>a, <1>e, <2>1, GoroutineMoves DEF Stage
  <2>3. Len(batch)' = 0
    BY <2>1
  <2>4. qn <= q /\ dn = d /\ packets' = packets
    BY <1>b, <1>d, <2>1, <2>3
  <2> HIDE DEF q, qn, d, dn, t, tn, l, ln
  <2> QED
    BY <1>f, <2>2, <2>4
<1>10. CASE Deliver
  <2> DEFINE f == Head(ch).flow
             s == IF IsUDP(f) /\ flow[f] = "none" THEN "dial" ELSE Onward("ingress", done)
  <2>1. /\ UNCHANGED <<packets, out, batch, inq>> /\ ch # <<>> /\ ch' = Tail(ch)
        /\ To("ingress", s) /\ s \in {"dial", "read", "err"} /\ go["ingress"] = "read"
        /\ flow' = IF flow[f] = "none" THEN [flow EXCEPT ![f] = "dial"] ELSE flow
    BY <1>10 DEF Deliver, ReadPacket, Onward
  <2>2. f \in Flow
    <3>1. ch \in Seq(Packet)
      BY DEF BuffersInv, QueuesInv
    <3>2. Head(ch) \in Packet
      BY <2>1, <3>1, HeadTailProperties
    <3> QED
      BY <3>2 DEF Packet
  <2> HIDE DEF f, s
  <2>3. Len(ch)' = Len(ch) - 1
    BY <1>b, <2>1 DEF BuffersInv, QueuesInv
  <2>4. dn <= d + 2
    <3>1. CASE flow[f] = "none"
      <4>1. flow' = [flow EXCEPT ![f] = "dial"]
        BY <2>1, <3>1
      <4>2. dn = d + 2
        BY <1>a, <2>2, <3>1, <4>1, FlowMoves
      <4> HIDE DEF d, dn
      <4> QED
        BY <1>f, <4>2
    <3>2. CASE flow[f] # "none"
      BY <1>b, <2>1, <3>2
    <3> QED
      BY <3>1, <3>2
  <2>5. tn <= t
    BY <1>a, <1>e, <2>1, GoroutineMoves DEF Stage
  <2>6. qn + 3 <= q /\ packets' = packets
    BY <1>b, <1>d, <2>1, <2>3
  <2> HIDE DEF q, qn, d, dn, t, tn, l, ln
  <2> QED
    BY <1>f, <2>4, <2>5, <2>6
<1>11. ASSUME NEW f \in Flow, DialEnds(f) PROVE ln < l
  <2>1. /\ flow[f] = "dial" /\ UNCHANGED <<packets, ch, out, batch, inq>>
        /\ \E s \in {"open", "none"} : flow' = [flow EXCEPT ![f] = s]
        /\ IF IsUDP(f) THEN \E st \in {"read", "err"} : To("ingress", st) ELSE UNCHANGED go
    BY <1>11 DEF DialEnds, Dialled, Onward, buffers
  <2>2. dn < d
    BY <1>a, <2>1, FlowMoves
  <2>3. tn <= t
    <3>1. CASE IsUDP(f)
      <4>1. go["ingress"] # "end"
        BY <1>a, <2>1, <3>1 DEF ReasonsInv
      <4> QED
        BY <1>a, <1>e, <2>1, <3>1, <4>1, GoroutineMoves DEF Stage
    <3>2. CASE ~IsUDP(f)
      BY <1>c, <2>1, <3>2
    <3> QED
      BY <3>1, <3>2
  <2>4. qn = q /\ packets' = packets
    BY <1>d, <2>1
  <2> HIDE DEF q, qn, d, dn, t, tn, l, ln
  <2> QED
    BY <1>f, <2>2, <2>3, <2>4
<1>12. ASSUME NEW f \in Flow, FlowEnds(f) PROVE ln < l
  <2>1. /\ flow[f] = "open" /\ UNCHANGED <<packets, ch, out, batch, inq, go>>
        /\ flow' = [flow EXCEPT ![f] = "none"]
    BY <1>12 DEF FlowEnds, buffers
  <2>2. dn < d
    BY <1>a, <2>1, FlowMoves
  <2>3. qn = q /\ tn = t /\ packets' = packets
    BY <1>c, <1>d, <2>1
  <2> HIDE DEF q, qn, d, dn, t, tn, l, ln
  <2> QED
    BY <1>f, <2>2, <2>3
<1> QED
  BY <1>2, <1>3, <1>4, <1>5, <1>6, <1>7, <1>8, <1>9, <1>10, <1>11, <1>12
     DEF PathStep, Proceed, Traffic, Ingress, Injector, InReader, InPump, Flows

\* Every step of an engine takes a packet from outside or leaves less to do: whatever its queues
\* and its flows, it does not go round in circles, so that it comes to where the two theorems
\* before speak of it.
THEOREM RunsDown == WholeSpec => EngineRunsDown
<1> DEFINE I == SettingsInv /\ BuffersInv /\ TracedInv
<1>1. I /\ [WholeNext]_whole => [EngineStep => Left' < Left]_whole
  <2> SUFFICES ASSUME I, EngineStep PROVE Left' < Left
    OBVIOUS
  <2> QED
    BY StepLeavesLess DEF EngineStep, TracedInv
<1> QED
  BY <1>1, WholeInvariant, PTL DEF EngineRunsDown, WholeSpec
=============================================================================
