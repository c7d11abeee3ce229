------------------------------- MODULE Names --------------------------------
(***************************************************************************)
(* How a program behind the client finds its way by name: the listener it  *)
(* asks (dnsproxy), the decorator of answers (fakeip, nat46), the resolver *)
(* of the node with its cache, its upstream and its administrator          *)
(* (server/dns, admin.go), and the flow that the program opens to the      *)
(* address it was given (routeclient, nat46.Dialer, routing).              *)
(*                                                                         *)
(* With rules every answer is replaced by an address of FakePool; without  *)
(* them only names that have nothing but IPv6 get one, of nat46.Table.     *)
(* Time is counted in ticks; of what ends by itself its remaining ticks    *)
(* are kept.  An answer is what the upstream says of a name, in any order. *)
(***************************************************************************)
EXTENDS FakePool, Sequences

CONSTANTS
    Program,        \* programs; each asks and opens one flow at a time
    Upstream,       \* resolvers that the node may ask
    Zone,           \* Zone[u][d]: addresses by type, "A" and "AAAA", that u gives for d
    Rules,          \* the user's rules, in their order
    Default,        \* label of a flow that no rule matches
    AnswerTTL,      \* ticks a program keeps an answer of fakeip: 60 s, of PoolTTL's hour
    RecordTTL,      \* ticks in the records of the upstreams
    Ttls,           \* how long the node may be told to keep an answer
    Sizes,          \* sizes the cache may be given
    Started,        \* upstream, ttl and size that the node starts with
    MaxPatches      \* bound: changes of the resolver by the administrator

Type == {"A", "AAAA"}

\* ParseRules: what a rule goes by, what it matches, and the label of the exit.  Rules that go by a
\* port match whatever the name is; those that go by a list match like several of these.
Rule == [kind : {"dom", "cidr", "proc"}, of : SUBSET (Domain \cup Real), out : STRING]

\* How long an answer is kept: a time whatever the records say, or their own within bounds.
Keeping == [override : Nat, min : Nat, max : Nat]

ASSUME NamesAssumption ==
    /\ Zone \in [Upstream -> [Domain -> [Type -> SUBSET Real]]]
    /\ Rules \in Seq(Rule)
    /\ AnswerTTL \in 1 .. PoolTTL /\ RecordTTL \in Nat \ {0} /\ Ttls \subseteq Keeping /\ Sizes \subseteq Nat
    /\ Started \subseteq Upstream \X Ttls \X Sizes
    /\ MaxPatches \in Nat /\ None \notin Real \cup Upstream /\ Real \cap Fake = {}

VARIABLES
    mode,                   \* of this session
    table,                  \* nat46.Table: real and life by address, address by real, next
    prog,                   \* what each program is doing
    upstream, ttl, size,    \* Resolver.cfg
    cache,                  \* Resolver.cache, the freshest entry first
    adm,                    \* what the administrator's request is doing
    patches                 \* bound: patches left

resolver == <<upstream, ttl, size, cache, adm, patches>>
vars == <<pool, mode, table, prog, resolver>>

Idle == [pc |-> "idle", domain |-> None, type |-> "A", up |-> None, fresh |-> FALSE,
         addr |-> None, life |-> 0, name |-> None]

\* The client runs with rules, or without them on a machine that has no IPv6 of its own.
Mode == {"rules", "nat46"}

NewTable == [real |-> [f \in Fake |-> None], life |-> [f \in Fake |-> 0],
             of |-> [r \in Real |-> None], next |-> 0]
NewCache == <<>>

\* The node's resolver as New makes it.
ResolverInit ==
    /\ \E c \in Started : upstream = c[1] /\ ttl = c[2] /\ size = c[3]
    /\ cache = NewCache /\ adm = "idle" /\ patches = MaxPatches

Init ==
    /\ PoolInit /\ ResolverInit
    /\ mode \in Mode /\ table = NewTable
    /\ prog = [p \in Program |-> Idle]

At(p, pc) == prog[p].pc = pc
Becomes(p, r) == prog' = [prog EXCEPT ![p] = r]
-----------------------------------------------------------------------------
(***************************************************************************)
(* The node's resolver                                                     *)
(***************************************************************************)
Key(p) == <<prog[p].domain, prog[p].type>>

\* The entries at these places, in their order.
Only(I) ==
    LET f[n \in 0 .. Len(cache)] ==
            IF n = 0 THEN <<>> ELSE IF n \in I THEN Append(f[n - 1], cache[n]) ELSE f[n - 1]
    IN f[Len(cache)]

Cached(k) == {cache[i] : i \in {i \in DOMAIN cache : cache[i].key = k}}
Without(k) == Only({i \in DOMAIN cache : cache[i].key # k})
Valid(k) == \E e \in Cached(k) : e.life > 0
Answer(p) == Zone[prog[p].up][prog[p].domain][prog[p].type]

\* ttlOf.
Within(n) == LET least == IF n < ttl.min THEN ttl.min ELSE n
             IN IF least > ttl.max THEN ttl.max ELSE least
TtlOf(n) == IF ttl.override > 0 THEN ttl.override ELSE Within(n)

\* Wrong: an answer that is asked for stays.
TouchedAnew(e) == [e EXCEPT !.life = TtlOf(RecordTTL)]

\* Get: an answer that is asked for moves to the front, and keeps its time.
Touched(e) == e

Hit(p) ==
    /\ At(p, "query")
    /\ \E e \in Cached(Key(p)) :
          /\ e.life > 0
          /\ cache' = <<Touched(e)>> \o Without(Key(p))
          /\ Becomes(p, [prog[p] EXCEPT !.pc = "answer", !.up = e.from])
    /\ UNCHANGED <<pool, mode, table, upstream, ttl, size, adm, patches>>

\* Query reads the upstream and the cache under the lock, and asks without it.
Miss(p) ==
    /\ At(p, "query") /\ ~Valid(Key(p))
    /\ cache' = Without(Key(p))
    /\ Becomes(p, [prog[p] EXCEPT !.pc = "upstream", !.up = upstream, !.fresh = TRUE])
    /\ UNCHANGED <<pool, mode, table, upstream, ttl, size, adm, patches>>

\* Put: an answer with addresses is kept, in place of the one asked for longest ago.
Kept(k, u) ==
    LET all == <<[key |-> k, from |-> u, life |-> TtlOf(RecordTTL)]>> \o Without(k)
    IN SubSeq(all, 1, IF Len(all) > size THEN size ELSE Len(all))

\* The upstream answers, into the cache that the query has read.
Exchange(p) ==
    /\ At(p, "upstream")
    /\ Becomes(p, [prog[p] EXCEPT !.pc = "answer", !.fresh = FALSE])
    /\ cache' = IF prog[p].fresh /\ Answer(p) # {} THEN Kept(Key(p), prog[p].up) ELSE cache
    /\ UNCHANGED <<pool, mode, table, upstream, ttl, size, adm, patches>>

\* Neither upstream answers in time, or the way to the node or back is lost.
Fail(p) ==
    /\ prog[p].pc \in {"query", "upstream", "answer"}
    /\ Becomes(p, Idle)
    /\ UNCHANGED <<pool, mode, table, resolver>>

\* applyDNS: the upstream, and then the cache ...
Patch == adm = "idle" /\ patches > 0 /\ patches' = patches - 1

SetUpstream(u) ==
    /\ Patch /\ u # upstream
    /\ upstream' = u /\ adm' = "flush"
    /\ UNCHANGED <<pool, mode, table, prog, ttl, size, cache>>

FlushAll ==
    /\ adm = "flush" /\ adm' = "idle"
    /\ cache' = <<>>
    /\ UNCHANGED <<pool, mode, table, prog, upstream, ttl, size, patches>>

\* ... a cache of another size, empty, beside the one that queries under way have read ...
Resize(n) ==
    /\ Patch /\ n # size
    /\ size' = n /\ cache' = NewCache
    /\ prog' = [p \in Program |-> [prog[p] EXCEPT !.fresh = FALSE]]
    /\ UNCHANGED <<pool, mode, table, upstream, ttl, adm>>

\* ... and the time answers are kept.
SetTTL(t) ==
    /\ Patch /\ t # ttl
    /\ ttl' = t
    /\ UNCHANGED <<pool, mode, table, prog, upstream, size, cache, adm>>

\* RunGC, and a request to flush what has run out.
FlushExpired ==
    /\ \E i \in DOMAIN cache : cache[i].life = 0
    /\ cache' = Only({i \in DOMAIN cache : cache[i].life > 0})
    /\ UNCHANGED <<pool, mode, table, prog, upstream, ttl, size, adm, patches>>
-----------------------------------------------------------------------------
(***************************************************************************)
(* The client's answers                                                    *)
(***************************************************************************)

\* A program asks for a name; AAAA is refused at once by fakeip.
Ask(p, d) ==
    /\ At(p, "idle")
    /\ Becomes(p, [Idle EXCEPT !.pc = "query", !.domain = d])
    /\ UNCHANGED <<pool, mode, table, resolver>>

\* lookupAAAA: a name without A is asked for again.
NoAddress(p) ==
    /\ At(p, "answer") /\ Answer(p) = {}
    /\ Becomes(p, IF prog[p].type = "A"
                  THEN [prog[p] EXCEPT !.pc = "query", !.type = "AAAA", !.up = None]
                  ELSE Idle)
    /\ UNCHANGED <<pool, mode, table, resolver>>

Given(p, a, ticks) == Becomes(p, [Idle EXCEPT !.pc = "have", !.domain = prog[p].domain,
                                              !.addr = a, !.life = ticks])

\* answerA: the domain's address in the pool, for whatever the name resolves to.
Fictitious(p) ==
    /\ mode = "rules" /\ At(p, "answer") /\ Answer(p) # {}
    /\ Assign(prog[p].domain, Answer(p))
    /\ Given(p, byDomain'[prog[p].domain], AnswerTTL)
    /\ UNCHANGED <<mode, table, resolver>>

\* The answer as it is: the pool is full, or the name has an IPv4 address and there are no rules.
Plain(p, a) ==
    /\ At(p, "answer") /\ a \in Answer(p)
    /\ \/ mode = "rules" /\ Full(prog[p].domain)
       \/ mode = "nat46" /\ prog[p].type = "A"
    /\ Given(p, a, AnswerTTL)
    /\ UNCHANGED <<pool, mode, table, resolver>>

\* Table.Map prolongs the address of an IPv6 address, or finds it a new one; an entry that has run
\* out is dropped with the way back of its IPv6 address, wherever that leads by now.
Mapped(r) == table.of[r] # None /\ table.life[table.of[r]] > 0
Spare(f) == table.life[f] = 0
Nearest(f) == Spare(f) /\ \A g \in Fake :
                Spare(g) => (f + Size - table.next) % Size <= (g + Size - table.next) % Size

Prolong(r) == table' = [table EXCEPT !.life = [@ EXCEPT ![table.of[r]] = PoolTTL]]
Fresh(r, f) ==
    table' = [real |-> [table.real EXCEPT ![f] = r],
              life |-> [table.life EXCEPT ![f] = PoolTTL],
              of   |-> [s \in Real |-> IF s = r THEN f
                                       ELSE IF s = table.real[f] THEN None ELSE table.of[s]],
              next |-> (f + 1) % Size]

\* Wrong: an answer lasts as long as the record.
Whole(n) == n

\* buildA: no longer than the mapping.
Clamped(n) == IF n > PoolTTL THEN PoolTTL ELSE n

Translated(p, r) ==
    /\ mode = "nat46" /\ At(p, "answer") /\ prog[p].type = "AAAA" /\ r \in Answer(p)
    /\ IF Mapped(r) THEN Prolong(r) ELSE \E f \in Fake : Nearest(f) /\ Fresh(r, f)
    /\ Given(p, table'.of[r], Clamped(RecordTTL))
    /\ UNCHANGED <<pool, mode, resolver>>

\* The pool is exhausted: the answer stays without an address.
Untranslated(p) ==
    /\ mode = "nat46" /\ At(p, "answer") /\ prog[p].type = "AAAA"
    /\ \E r \in Answer(p) : ~Mapped(r)
    /\ \A f \in Fake : ~Spare(f)
    /\ Becomes(p, Idle)
    /\ UNCHANGED <<pool, mode, table, resolver>>
-----------------------------------------------------------------------------
(***************************************************************************)
(* Flows                                                                   *)
(***************************************************************************)

\* Compile: rules that name a process come last, whatever their place; a flow is never told its
\* process.
Compiled == SelectSeq(Rules, LAMBDA r : r.kind # "proc") \o SelectSeq(Rules, LAMBDA r : r.kind = "proc")
Matches(r, name, addr) ==
    \/ r.kind = "dom" /\ name # None /\ name \in r.of
    \/ r.kind = "cidr" /\ addr \in r.of

\* Explain: the first rule that matches.
Label(name, addr) ==
    LET hits == SelectSeq(Compiled, LAMBDA r : Matches(r, name, addr))
    IN IF hits = <<>> THEN Default ELSE hits[1].out

\* resolve asks the pool for the domain of an address ...
DialName(p) ==
    /\ At(p, "have")
    /\ Becomes(p, [prog[p] EXCEPT !.pc = "dial",
                   !.name = IF mode = "rules" /\ prog[p].addr \in Fake THEN DomainOf(prog[p].addr)
                            ELSE None])
    /\ UNCHANGED <<pool, mode, table, resolver>>

\* ... and then for what it stands for: nothing, once its time has run out.
Targets(p) ==
    LET a == prog[p].addr IN
    IF a \notin Fake THEN {a}
    ELSE IF mode = "nat46" THEN IF Spare(a) THEN {} ELSE {table.real[a]}
    ELSE IF RealOf(a) = {} THEN {a} ELSE RealOf(a)

\* DialTCP, DialUDP: the flow leaves for the address `to`, labelled Label(name, to).
DialReal(p, to) ==
    /\ At(p, "dial") /\ to \in Targets(p)
    /\ Becomes(p, Idle)
    /\ UNCHANGED <<pool, mode, table, resolver>>

DialFails(p) ==
    /\ At(p, "dial") /\ Targets(p) = {}
    /\ Becomes(p, Idle)
    /\ UNCHANGED <<pool, mode, table, resolver>>

\* Everything that ends by itself grows older; a program forgets an answer that has run out.
Older(n) == IF n > 0 THEN n - 1 ELSE 0
Tick ==
    /\ Age
    /\ table' = [table EXCEPT !.life = [f \in Fake |-> Older(@[f])]]
    /\ cache' = [i \in DOMAIN cache |-> [cache[i] EXCEPT !.life = Older(@)]]
    /\ prog' = [p \in Program |->
                  IF At(p, "have") /\ prog[p].life <= 1 THEN Idle
                  ELSE [prog[p] EXCEPT !.life = Older(@)]]
    /\ UNCHANGED <<mode, upstream, ttl, size, adm, patches>>
-----------------------------------------------------------------------------
Resolving(p) ==
    \/ \E d \in Domain : Ask(p, d)
    \/ Hit(p) \/ Miss(p) \/ Exchange(p) \/ Fail(p) \/ NoAddress(p)
Answering(p) == Fictitious(p) \/ Untranslated(p) \/ \E r \in Real : Plain(p, r) \/ Translated(p, r)
Dialling(p) == DialName(p) \/ DialFails(p) \/ \E a \in Real \cup Fake : DialReal(p, a)
Administrator ==
    \/ \E u \in Upstream : SetUpstream(u)
    \/ \E n \in Sizes : Resize(n)
    \/ \E t \in Ttls : SetTTL(t)
    \/ FlushAll

Next ==
    \/ \E p \in Program : Resolving(p) \/ Answering(p) \/ Dialling(p)
    \/ Administrator \/ FlushExpired \/ Tick

\* Time passes, a request that has begun is finished, and RunGC runs; no program has to do anything.
Fairness == WF_vars(Tick) /\ WF_vars(FlushAll) /\ WF_vars(FlushExpired)

Spec == Init /\ [][Next]_vars
FairSpec == Spec /\ Fairness
-----------------------------------------------------------------------------
(***************************************************************************)
(* Properties                                                              *)
(***************************************************************************)

TypeOK ==
    /\ PoolTypeOK /\ mode \in Mode
    /\ table \in [real : [Fake -> Real \cup {None}], life : [Fake -> 0 .. PoolTTL],
                  of : [Real -> Fake \cup {None}], next : Fake]
    /\ \A i \in DOMAIN cache : cache[i].key \in Domain \X Type /\ cache[i].from \in Upstream
    /\ Len(cache) <= size

\* A flow to a fictitious address that its program may still use goes to the name that the program
\* asked for, under the label that the rules give that name, whoever else has asked for what
\* meanwhile and whatever has run out between the two questions to the pool (routeclient/dialer.go
\* :75-86, nat46/dialer.go:46-55, fakeip/pool.go:74-109).
Owned(d) == UNION {Zone[u][d][t] : u \in Upstream, t \in Type}
FlowsGoWhereAsked ==
    [][\A p \in Program : \A to \in Real \cup Fake :
         DialReal(p, to) /\ prog[p].addr \in Fake /\ prog[p].life > 0 =>
            /\ to \in Owned(prog[p].domain)
            /\ mode = "rules" => Label(prog[p].name, to) = Label(prog[p].domain, to)]_vars

\* Once the upstream is left alone, the answers of the earlier one are forgotten for good, though
\* queries that had asked it may store theirs after the cache was flushed, and though they are
\* asked for again and again (admin.go:117-123, resolver.go:137-162, cache.go:39-61).
UpstreamTakesOver == <>[](\A i \in DOMAIN cache : cache[i].from = upstream)

\* Until they are, they fade: but for a query that had asked the earlier upstream already, nothing
\* brings in another one, or makes one last longer than it would.
Late == {p \in Program : At(p, "upstream") /\ prog[p].fresh /\ prog[p].up # upstream}
Lasted(e) == \E j \in DOMAIN cache : /\ cache[j].key = e.key /\ cache[j].from = e.from
                                     /\ e.life <= cache[j].life
StaleFades ==
    [][upstream' = upstream =>
          /\ Late' \subseteq Late
          /\ \A i \in DOMAIN cache' : cache'[i].from # upstream =>
                Lasted(cache'[i]) \/ \E p \in Late \ Late' : Key(p) = cache'[i].key]_vars
=============================================================================
