---------------------------- MODULE Names_proofs ----------------------------
(***************************************************************************)
(* Names and its pool, proved for any programs, names, answers, rules and  *)
(* times: the pool implements Leases, the node's cache stays within its    *)
(* size, and a flow goes to the name that its program asked for.           *)
(***************************************************************************)
EXTENDS Names, SequenceTheorems, WellFoundedInduction, TLAPS

-----------------------------------------------------------------------------
(* FakePool, for any pool and any names. *)

PoolInv == PoolTypeOK /\ IndexesAgree

\* The address after the last one is the first one.
LEMMA NextInPool == \A f \in Fake : (f + 1) % Size \in Fake
  <1> TAKE f \in Fake
  <1>1. f \in Nat /\ f < Size /\ Size \in Nat \ {0}
    BY PoolAssumption DEF Fake
  <1>2. CASE f + 1 < Size
    <2>1. (f + 1) % Size = f + 1
      BY <1>1, <1>2
    <2> QED  BY <1>1, <1>2, <2>1 DEF Fake
  <1>3. CASE f + 1 = Size
    <2>1. (f + 1) % Size = 0
      BY <1>1, <1>3
    <2> QED  BY <1>1, <2>1 DEF Fake
  <1> QED  BY <1>1, <1>2, <1>3

LEMMA InitInv == PoolInit => PoolInv
  BY PoolAssumption DEF PoolInit, PoolInv, PoolTypeOK, IndexesAgree, Fake

\* Assign and the passing of time keep the indexes in agreement.
LEMMA StepInv == PoolInv /\ [PoolNext]_pool => PoolInv'
  <1> SUFFICES ASSUME PoolInv, [PoolNext]_pool PROVE PoolInv'
    OBVIOUS
  <1> USE PoolAssumption DEF PoolInv, PoolTypeOK, IndexesAgree
  <1>1. ASSUME NEW d \in Domain, NEW R \in SUBSET Real, Renew(d, R) PROVE PoolInv'
    <2>1. byDomain[d] \in Fake
      BY <1>1 DEF Renew, Listed
    <2> QED  BY <1>1, <2>1 DEF Renew, Renewed
  <1>2. ASSUME NEW d \in Domain, NEW R \in SUBSET Real, NEW f \in Fake, Take(d, R, f) PROVE PoolInv'
    <2>1. byDomain[d] = None
      BY <1>2 DEF Take, Listed
    <2>2. PoolTypeOK'
      BY <1>2, NextInPool DEF Take
    <2>3. ASSUME NEW e \in Domain, byDomain'[e] # None PROVE owner'[byDomain'[e]] = e
      BY <1>2, <2>1, <2>3 DEF Take
    <2>4. ASSUME NEW g \in Fake, owner'[g] # None PROVE byDomain'[owner'[g]] = g
      <3>1. CASE g = f
        BY <1>2, <3>1 DEF Take
      <3>2. CASE g # f
        <4>1. owner'[g] = owner[g] /\ owner[g] \in Domain /\ byDomain[owner[g]] = g
          BY <1>2, <2>4, <3>2 DEF Take
        <4>2. owner[g] # d /\ owner[g] # owner[f]
          <5>1. owner[g] # d
            BY <2>1, <4>1, PoolAssumption DEF Fake
          <5>2. ASSUME owner[g] = owner[f] PROVE FALSE
            BY <3>2, <4>1, <5>2
          <5> QED  BY <5>1, <5>2
        <4> QED  BY <1>2, <4>1, <4>2 DEF Take
      <3> QED  BY <3>1, <3>2
    <2> QED  BY <2>2, <2>3, <2>4
  <1>3. CASE Age
    BY <1>3 DEF Age
  <1>4. CASE UNCHANGED pool
    BY <1>4 DEF pool
  <1> QED  BY <1>1, <1>2, <1>3, <1>4 DEF PoolNext, Assign

\* Between two looks for an address nothing is said of the times that have run out, and the two
\* indexes of the pool always name each other.
THEOREM PoolCorrect == PoolSpec => []PoolInv
  <1>1. PoolInit => PoolInv
    BY InitInv
  <1>2. PoolInv /\ [PoolNext]_pool => PoolInv'
    BY StepInv
  <1> QED  BY <1>1, <1>2, PTL DEF PoolSpec

Held == [f \in Fake |-> DomainOf(f)]

LEMMA InitLeases == PoolInit => Leased!Init
  BY DEF PoolInit, Leased!Init, DomainOf, Live

\* What a lease-granting step and a step that ends leases look like.
LEMMA Grants ==
  ASSUME NEW d \in Domain, NEW f \in Fake, Held[f] = None, \A g \in Fake : Held[g] # d,
         \A g \in Fake : Held'[g] = IF g = f THEN d ELSE Held[g]
  PROVE  Leased!Next
  <1>1. Held' = [Held EXCEPT ![f] = d]
    BY DEF Held
  <1>2. Leased!Grant(d, f)
    BY <1>1 DEF Leased!Grant, Held
  <1> QED  BY <1>2 DEF Leased!Next

LEMMA RunsOut ==
  ASSUME NEW S \in SUBSET Fake, Held' = [f \in Fake |-> IF f \in S THEN None ELSE Held[f]]
  PROVE  Leased!Next
  <1>1. Leased!RunOut(S)
    BY DEF Leased!RunOut, Held
  <1> QED  BY <1>1 DEF Leased!Next

\* A step of the pool grants one lease, ends those that have run out, or changes none.
LEMMA StepLeases ==
  ASSUME PoolInv, [PoolNext]_pool
  PROVE  Leased!Next \/ Held' = Held
  <1>0. PoolTypeOK /\ IndexesAgree
    BY DEF PoolInv
  <1>1. ASSUME NEW d \in Domain, NEW R \in SUBSET Real, Renew(d, R)
        PROVE Leased!Next \/ Held' = Held
    <2> DEFINE f == byDomain[d]
    <2>1. f \in Fake /\ owner[f] = d
      BY <1>0, <1>1 DEF Renew, Listed, PoolTypeOK, IndexesAgree
    <2>2. owner' = owner /\ life' = [life EXCEPT ![f] = PoolTTL]
      BY <1>1 DEF Renew, Renewed
    <2>3. CASE life[f] > 0
      BY <1>0, <2>1, <2>2, <2>3, PoolAssumption DEF Held, DomainOf, Live, PoolTypeOK
    <2>4. CASE ~(life[f] > 0)
      <3>1. Held[f] = None
        BY <2>1, <2>4 DEF Held, DomainOf, Live
      <3>2. \A g \in Fake : Held[g] # d
        BY <1>0, <2>1, <2>4, PoolAssumption DEF Held, DomainOf, Live, IndexesAgree
      <3>3. ASSUME NEW g \in Fake PROVE Held'[g] = IF g = f THEN d ELSE Held[g]
        <4>1. PoolTTL > 0 /\ d # None
          BY PoolAssumption
        <4> QED  BY <1>0, <2>1, <2>2, <4>1 DEF Held, DomainOf, Live, PoolTypeOK
      <3> QED  BY <2>1, <3>1, <3>2, <3>3, Grants
    <2> QED  BY <2>3, <2>4
  <1>2. ASSUME NEW d \in Domain, NEW R \in SUBSET Real, NEW f \in Fake, Take(d, R, f)
        PROVE Leased!Next \/ Held' = Held
    <2>1. owner' = [owner EXCEPT ![f] = d] /\ life' = [life EXCEPT ![f] = PoolTTL]
      BY <1>2 DEF Take
    <2>2. byDomain[d] = None
      BY <1>0, <1>2, PoolAssumption DEF Take, Listed, PoolTypeOK, IndexesAgree
    <2>3. Held[f] = None
      BY <1>2 DEF Take, First, Free, Held, DomainOf
    <2>4. \A g \in Fake : Held[g] # d
      <3>1. \A g \in Fake : owner[g] # d
        BY <1>0, <2>2, PoolAssumption DEF IndexesAgree, Fake
      <3> QED  BY <3>1, PoolAssumption DEF Held, DomainOf
    <2>5. ASSUME NEW g \in Fake PROVE Held'[g] = IF g = f THEN d ELSE Held[g]
      <3>1. PoolTTL > 0 /\ d # None
        BY PoolAssumption
      <3> QED  BY <1>0, <2>1, <3>1 DEF Held, DomainOf, Live, PoolTypeOK
    <2> QED  BY <2>3, <2>4, <2>5, Grants
  <1>3. CASE Age
    <2> DEFINE S == {f \in Fake : life'[f] = 0}
    <2>1. owner' = owner /\ life' = [f \in Fake |-> IF life[f] > 0 THEN life[f] - 1 ELSE 0]
      BY <1>3 DEF Age
    <2>2. ASSUME NEW f \in Fake PROVE Held'[f] = IF f \in S THEN None ELSE Held[f]
      BY <1>0, <2>1 DEF Held, DomainOf, Live, PoolTypeOK
    <2>3. Held' = [f \in Fake |-> IF f \in S THEN None ELSE Held[f]]
      BY <2>2 DEF Held
    <2> HIDE DEF S
    <2>4. S \in SUBSET Fake
      BY DEF S
    <2> QED  BY <2>3, <2>4, RunsOut
  <1>4. CASE UNCHANGED pool
    BY <1>4 DEF pool, Held, DomainOf, Live
  <1> QED  BY <1>1, <1>2, <1>3, <1>4 DEF PoolNext, Assign

\* The pool implements Leases: whatever is asked for, and however the addresses run out, no
\* domain loses its address or gets a second one before its time.
THEOREM PoolLeases == PoolSpec => LeasesKept
  <1>1. PoolInit => Leased!Init
    BY InitLeases
  <1>2. PoolInv /\ [PoolNext]_pool => [Leased!Next]_Held
    BY StepLeases
  <1> QED  BY <1>1, <1>2, PoolCorrect, PTL DEF PoolSpec, LeasesKept, Leased!Spec, Held

-----------------------------------------------------------------------------
(* The node's cache. *)

Entry == [key : Domain \X Type, from : Upstream, life : Nat]

\* f collects the places of I, up to the n-th.
Collects(f, I, n) ==
    f = [i \in 0 .. n |-> IF i = 0 THEN <<>>
                          ELSE IF i \in I THEN Append(f[i - 1], cache[i]) ELSE f[i - 1]]

\* What is left of a sequence of n when only the places of I are kept.
Remains(q, I, n) ==
    /\ q \in Seq(Entry) /\ Len(q) <= n
    /\ (\E j \in 1 .. n : j \notin I) => Len(q) < n
    /\ \A j \in 1 .. Len(q) : \E i \in 1 .. n : q[j] = cache[i]

LEMMA OnlyUnfolds ==
    ASSUME NEW I
    PROVE  Only(I) = (CHOOSE f : Collects(f, I, Len(cache)))[Len(cache)]
BY DEF Only, Collects

\* Every set of numbers has a least one.
LEMMA Least ==
    ASSUME NEW S \in SUBSET Nat, S # {}
    PROVE  \E n \in S : \A m \in S : n <= m
<1> DEFINE R == {ss \in Nat \X Nat : ss[1] < ss[2]}
<1>1. IsWellFoundedOn(R, Nat)
  BY NatLessThanWellFounded DEF OpToRel
<1>2. ASSUME NEW x \in S, NEW y \in S, <<y, x>> \notin R PROVE x <= y
  <2>1. x \in Nat /\ y \in Nat
    OBVIOUS
  <2>2. <<y, x>> \in Nat \X Nat
    BY <2>1
  <2>3. ~(y < x)
    BY <1>2, <2>2
  <2> QED
    BY <2>1, <2>3
<1> HIDE DEF R
<1>3. \E x \in S : \A y \in S : ~(<<y, x>> \in R)
  BY <1>1, WFMin
<1> QED
  BY <1>2, <1>3

\* There is such a function for every prefix of the cache: were there a first without, take the
\* one before it and go on.
LEMMA CollectsThere ==
    ASSUME cache \in Seq(Entry), NEW I, NEW n \in 0 .. Len(cache)
    PROVE  \E f : Collects(f, I, n)
<1> DEFINE Bad == {m \in 0 .. Len(cache) : ~\E f : Collects(f, I, m)}
<1>1. \E f : Collects(f, I, 0)
  <2>1. Collects([i \in 0 .. 0 |-> <<>>], I, 0)
    BY DEF Collects
  <2> QED
    BY <2>1
<1>2. ASSUME NEW m \in 0 .. Len(cache), m > 0, NEW f, Collects(f, I, m - 1)
      PROVE  \E g : Collects(g, I, m)
  <2> DEFINE g == [i \in 0 .. m |-> IF i = 0 THEN <<>>
                      ELSE IF i \in I THEN Append(f[i - 1], cache[i]) ELSE f[i - 1]]
  <2>1. m \in Nat
    OBVIOUS
  <2>2. ASSUME NEW i \in 0 .. m - 1 PROVE g[i] = f[i]
    <3>1. i \in 0 .. m
      BY <2>1
    <3> QED
      BY <1>2, <3>1 DEF Collects
  <2>3. ASSUME NEW i \in 0 .. m, i # 0 PROVE g[i - 1] = f[i - 1]
    <3>1. i - 1 \in 0 .. m - 1
      BY <2>1, <2>3
    <3> HIDE DEF g
    <3> QED
      BY <2>2, <3>1
  <2>4. g = [i \in 0 .. m |-> IF i = 0 THEN <<>>
                      ELSE IF i \in I THEN Append(g[i - 1], cache[i]) ELSE g[i - 1]]
    BY <2>3
  <2> HIDE DEF g
  <2> QED
    BY <2>4 DEF Collects
<1>3. Bad = {}
  <2> SUFFICES ASSUME Bad # {} PROVE FALSE
    OBVIOUS
  <2>0. Len(cache) \in Nat
    OBVIOUS
  <2>1. PICK m \in Bad : \A k \in Bad : m <= k
    <3>1. Bad \in SUBSET Nat
      BY <2>0
    <3> HIDE DEF Bad
    <3> QED
      BY <3>1, Least
  <2>2. m \in 0 .. Len(cache) /\ m # 0
    BY <1>1
  <2>3. m - 1 \in 0 .. Len(cache) /\ ~(m <= m - 1)
    BY <2>0, <2>2
  <2>4. m - 1 \notin Bad
    BY <2>1, <2>3
  <2>5. \E f : Collects(f, I, m - 1)
    BY <2>3, <2>4
  <2> QED
    BY <1>2, <2>0, <2>2, <2>5
<1> QED
  BY <1>3

LEMMA OnlyRemains ==
    ASSUME cache \in Seq(Entry), NEW I
    PROVE  Remains(Only(I), I, Len(cache))
<1> DEFINE f == CHOOSE g : Collects(g, I, Len(cache))
           Bad == {m \in 0 .. Len(cache) : ~Remains(f[m], I, m)}
<1>0. Len(cache) \in Nat
  OBVIOUS
<1>1. Collects(f, I, Len(cache))
  BY <1>0, CollectsThere
<1> HIDE DEF f
<1>2. f[0] = <<>> /\ Remains(f[0], I, 0)
  BY <1>0, <1>1 DEF Collects, Remains
<1>3. ASSUME NEW m \in 0 .. Len(cache), m > 0, Remains(f[m - 1], I, m - 1)
      PROVE  Remains(f[m], I, m)
  <2>1. cache[m] \in Entry /\ m \in Nat
    BY <1>0, <1>3
  <2>2. f[m] = IF m \in I THEN Append(f[m - 1], cache[m]) ELSE f[m - 1]
    <3>1. m \in 0 .. Len(cache) /\ m # 0
      BY <1>3, <2>1
    <3> QED
      BY <1>1, <3>1 DEF Collects
  <2>3. CASE m \in I
    <3> DEFINE q == f[m - 1]
    <3>1. (\E j \in 1 .. m : j \notin I) => \E j \in 1 .. m - 1 : j \notin I
      BY <2>1, <2>3
    <3>2. /\ q \in Seq(Entry) /\ Len(q) <= m - 1 /\ Len(q) \in Nat
          /\ (\E j \in 1 .. m - 1 : j \notin I) => Len(q) < m - 1
          /\ \A j \in 1 .. Len(q) : \E i \in 1 .. m - 1 : q[j] = cache[i]
          /\ f[m] = Append(q, cache[m])
      BY <1>3, <2>2, <2>3 DEF Remains
    <3> HIDE DEF q
    <3>3. /\ f[m] \in Seq(Entry) /\ Len(f[m]) = Len(q) + 1 /\ f[m][Len(q) + 1] = cache[m]
          /\ \A j \in 1 .. Len(q) : f[m][j] = q[j]
      BY <2>1, <3>2, AppendProperties
    <3>4. ASSUME NEW j \in 1 .. Len(f[m]) PROVE \E i \in 1 .. m : f[m][j] = cache[i]
      <4>1. CASE j = Len(q) + 1
        BY <2>1, <3>3, <4>1, <1>3
      <4>2. CASE j # Len(q) + 1
        <5>1. j \in 1 .. Len(q)
          BY <3>2, <3>3, <4>2
        <5>2. PICK i \in 1 .. m - 1 : q[j] = cache[i]
          BY <3>2, <5>1
        <5> QED
          BY <2>1, <3>3, <5>1, <5>2
      <4> QED
        BY <4>1, <4>2
    <3> QED
      BY <2>1, <3>1, <3>2, <3>3, <3>4 DEF Remains
  <2>4. CASE m \notin I
    <3>1. f[m] = f[m - 1] /\ m \in 1 .. m /\ \A i \in 1 .. m - 1 : i \in 1 .. m
      BY <1>3, <2>1, <2>2, <2>4
    <3> QED
      BY <1>3, <2>1, <2>4, <3>1 DEF Remains
  <2> QED
    BY <2>3, <2>4
<1>4. Bad = {}
  <2> SUFFICES ASSUME Bad # {} PROVE FALSE
    OBVIOUS
  <2>1. PICK m \in Bad : \A k \in Bad : m <= k
    <3>1. Bad \in SUBSET Nat
      BY <1>0
    <3> HIDE DEF Bad
    <3> QED
      BY <3>1, Least
  <2>2. m \in 0 .. Len(cache) /\ m # 0
    BY <1>2
  <2>3. m - 1 \in 0 .. Len(cache) /\ ~(m <= m - 1)
    BY <1>0, <2>2
  <2>4. m - 1 \notin Bad
    BY <2>1, <2>3
  <2>5. Remains(f[m - 1], I, m - 1)
    BY <2>3, <2>4
  <2> QED
    BY <1>0, <1>3, <2>2, <2>5
<1>5. Only(I) = f[Len(cache)]
  BY OnlyUnfolds DEF f
<1> QED
  BY <1>0, <1>4, <1>5
-----------------------------------------------------------------------------
(* The invariant. *)

Doing == {"idle", "query", "upstream", "answer", "have", "dial"}
Asking == [pc : Doing, domain : Domain \cup {None}, type : Type, up : Upstream \cup {None},
           fresh : BOOLEAN, addr : Real \cup Fake \cup {None}, life : 0 .. PoolTTL,
           name : Domain \cup {None}]

\* A program that is doing something asks for a name, and one that is answered knows by whom.
ProgInv ==
    /\ prog \in [Program -> Asking]
    /\ \A p \in Program :
          /\ prog[p].pc # "idle" => prog[p].domain \in Domain
          /\ prog[p].pc \in {"upstream", "answer"} => prog[p].up \in Upstream

ResolverInv ==
    /\ upstream \in Upstream /\ ttl \in Keeping /\ size \in Nat
    /\ cache \in Seq(Entry) /\ Len(cache) <= size

\* The way from an IPv6 address leads to a mapping of that address.
TableInv ==
    /\ mode \in Mode
    /\ table \in [real : [Fake -> Real \cup {None}], life : [Fake -> 0 .. PoolTTL],
                  of : [Real -> Fake \cup {None}], next : Fake]
    /\ \A r \in Real : table.of[r] # None => table.real[table.of[r]] = r

\* An address that its program may use is its domain's for at least as long as the program keeps
\* it, and stands for addresses of the domain.
Held4(q) ==
    /\ owner[q.addr] = q.domain /\ q.life <= life[q.addr]
    /\ reals[q.addr] # {} /\ reals[q.addr] \subseteq Owned(q.domain)
    /\ q.pc = "dial" => q.name = q.domain
Held6(q) == q.life <= table.life[q.addr] /\ table.real[q.addr] \in Owned(q.domain)
Usable(q) == q.pc \in {"have", "dial"} /\ q.addr \in Fake /\ q.life > 0
Promise(q) == Usable(q) => IF mode = "rules" THEN Held4(q) ELSE Held6(q)
Promises == \A p \in Program : Promise(prog[p])

NamesInv == PoolInv /\ ProgInv /\ ResolverInv /\ TableInv /\ Promises

-----------------------------------------------------------------------------
(* The node's resolver keeps its cache in order. *)

LEMMA KeepingNat ==
    ASSUME ResolverInv
    PROVE  TtlOf(RecordTTL) \in Nat
BY NamesAssumption DEF ResolverInv, Keeping, TtlOf, Within

LEMMA EntryParts ==
    ASSUME ResolverInv, NEW i \in 1 .. Len(cache)
    PROVE  cache[i] \in Entry /\ cache[i].from \in Upstream /\ cache[i].life \in Nat
<1>1. cache[i] \in Entry
  BY DEF ResolverInv
<1> QED
  BY <1>1 DEF Entry

LEMMA WithoutFits ==
    ASSUME ResolverInv, NEW k
    PROVE  /\ Without(k) \in Seq(Entry) /\ Len(Without(k)) <= Len(cache)
           /\ Cached(k) # {} => Len(Without(k)) < Len(cache)
           /\ \A j \in 1 .. Len(Without(k)) : \E i \in 1 .. Len(cache) : Without(k)[j] = cache[i]
<1> DEFINE I == {i \in DOMAIN cache : cache[i].key # k}
<1>1. Remains(Only(I), I, Len(cache))
  BY OnlyRemains DEF ResolverInv
<1>2. ASSUME Cached(k) # {} PROVE \E j \in 1 .. Len(cache) : j \notin I
  BY <1>2 DEF Cached, ResolverInv
<1> QED
  BY <1>1, <1>2 DEF Without, Remains

LEMMA ResolverStep ==
    ASSUME ResolverInv, ProgInv, [Next]_vars
    PROVE  ResolverInv'
<1> USE DEF ResolverInv
<1>1. ASSUME NEW p \in Program, Hit(p) PROVE ResolverInv'
  <2>1. PICK e \in Cached(Key(p)) : cache' = <<Touched(e)>> \o Without(Key(p))
    BY <1>1 DEF Hit
  <2>2. Touched(e) \in Entry
    BY <2>1 DEF Cached, Touched
  <2>3. Without(Key(p)) \in Seq(Entry) /\ Len(Without(Key(p))) < Len(cache)
    BY <2>1, WithoutFits
  <2>4. cache' \in Seq(Entry) /\ Len(cache') = 1 + Len(Without(Key(p)))
    BY <2>1, <2>2, <2>3
  <2> QED
    BY <1>1, <2>3, <2>4 DEF Hit
<1>2. ASSUME NEW p \in Program, Miss(p) PROVE ResolverInv'
  BY <1>2, WithoutFits DEF Miss
<1>3. ASSUME NEW p \in Program, Exchange(p) PROVE ResolverInv'
  <2> DEFINE new == [key |-> Key(p), from |-> prog[p].up, life |-> TtlOf(RecordTTL)]
             all == <<new>> \o Without(Key(p))
             n == IF Len(all) > size THEN size ELSE Len(all)
  <2>1. new \in Entry
    BY <1>3, KeepingNat DEF Exchange, At, ProgInv, Asking, Key, Entry
  <2>2. Without(Key(p)) \in Seq(Entry)
    BY WithoutFits
  <2>3. Kept(Key(p), prog[p].up) = SubSeq(all, 1, n)
    BY DEF Kept
  <2> HIDE DEF new
  <2>4. all \in Seq(Entry) /\ n \in 0 .. Len(all) /\ n <= size
    BY <2>1, <2>2
  <2> HIDE DEF all, n
  <2>5. SubSeq(all, 1, n) \in Seq(Entry) /\ Len(SubSeq(all, 1, n)) <= size
    BY <2>4, SubSeqProperties
  <2> QED
    BY <1>3, <2>3, <2>5 DEF Exchange
<1>4. CASE FlushExpired
  BY <1>4, OnlyRemains DEF FlushExpired, Remains
<1>5. CASE Administrator
  <2>1. ASSUME NEW n \in Sizes, Resize(n) PROVE ResolverInv'
    BY <2>1, NamesAssumption DEF Resize, NewCache
  <2>2. ASSUME NEW t \in Ttls, SetTTL(t) PROVE ResolverInv'
    BY <2>2, NamesAssumption DEF SetTTL
  <2>3. ASSUME NEW u \in Upstream, SetUpstream(u) PROVE ResolverInv'
    BY <2>3 DEF SetUpstream
  <2>4. CASE FlushAll
    BY <2>4 DEF FlushAll
  <2> QED
    BY <1>5, <2>1, <2>2, <2>3, <2>4 DEF Administrator
<1>6. CASE Tick
  <2>1. cache' = [i \in 1 .. Len(cache) |-> [cache[i] EXCEPT !.life = Older(@)]]
    BY <1>6 DEF Tick
  <2>2. ASSUME NEW i \in 1 .. Len(cache) PROVE [cache[i] EXCEPT !.life = Older(@)] \in Entry
    <3>1. cache[i] \in Entry /\ cache[i].life \in Nat
      BY EntryParts
    <3>2. Older(cache[i].life) \in Nat
      BY <3>1 DEF Older
    <3> QED
      BY <3>1, <3>2 DEF Entry
  <2>3. cache' \in Seq(Entry) /\ Len(cache') = Len(cache)
    BY <2>1, <2>2
  <2> QED
    BY <1>6, <2>3 DEF Tick
<1>7. ASSUME NEW p \in Program, UNCHANGED resolver PROVE ResolverInv'
  BY <1>7 DEF resolver
<1>8. CASE UNCHANGED vars
  BY <1>8 DEF vars, resolver
<1>9. ASSUME NEW p \in Program, Resolving(p), ~Hit(p), ~Miss(p), ~Exchange(p) PROVE UNCHANGED resolver
  BY <1>9 DEF Resolving, Ask, Fail, NoAddress
<1>10. ASSUME NEW p \in Program, Answering(p) \/ Dialling(p) PROVE UNCHANGED resolver
  BY <1>10 DEF Answering, Dialling, Fictitious, Untranslated, Plain, Translated, DialName,
               DialFails, DialReal
<1> QED
  BY <1>1, <1>2, <1>3, <1>4, <1>5, <1>6, <1>7, <1>8, <1>9, <1>10 DEF Next
-----------------------------------------------------------------------------
(* What the programs are doing. *)

\* Whatever is asked, what is found are addresses of the name.
LEMMA AnswersOwned ==
    ASSUME NEW p \in Program, ProgInv, At(p, "answer")
    PROVE  prog[p].domain \in Domain /\ Answer(p) \subseteq Owned(prog[p].domain) /\ Answer(p) \subseteq Real
BY NamesAssumption DEF ProgInv, Asking, At, Answer, Owned

\* What a program is given is its addresses' or nothing for as long as an answer lasts.
LEMMA Lasting == AnswerTTL \in 1 .. PoolTTL /\ Clamped(RecordTTL) \in 0 .. PoolTTL
BY PoolAssumption, NamesAssumption DEF Clamped

LEMMA ProgStep ==
    ASSUME PoolInv, TableInv, ResolverInv, ProgInv, [Next]_vars, PoolInv', TableInv'
    PROVE  ProgInv'
<1> USE DEF ProgInv
<1>1. ASSUME NEW p \in Program, NEW r \in Asking, Becomes(p, r),
             r.pc # "idle" => r.domain \in Domain, r.pc \in {"upstream", "answer"} => r.up \in Upstream
      PROVE  ProgInv'
  BY <1>1 DEF Becomes
<1>2. Idle \in Asking /\ Idle.pc = "idle"
  BY PoolAssumption DEF Idle, Asking, Doing, Type
<1>3. ASSUME NEW p \in Program, Resolving(p) PROVE ProgInv'
  <2> DEFINE q == prog[p]
  <2>1. q \in Asking
    OBVIOUS
  <2>2. ASSUME NEW d \in Domain, Ask(p, d) PROVE ProgInv'
    <3> DEFINE r == [Idle EXCEPT !.pc = "query", !.domain = d]
    <3>1. r \in Asking /\ r.domain = d /\ r.pc = "query"
      BY <1>2 DEF Asking, Doing, Idle
    <3>2. Becomes(p, r)
      BY <2>2 DEF Ask
    <3> HIDE DEF r
    <3> QED
      BY <1>1, <3>1, <3>2
  <2>3. ASSUME NEW e \in Cached(Key(p)), At(p, "query"), Becomes(p, [q EXCEPT !.pc = "answer", !.up = e.from])
        PROVE  ProgInv'
    <3> DEFINE r == [q EXCEPT !.pc = "answer", !.up = e.from]
    <3>1. e.from \in Upstream
      <4>1. DOMAIN cache = 1 .. Len(cache)
        BY DEF ResolverInv
      <4> QED
        BY <4>1, EntryParts DEF Cached
    <3>2. r \in Asking /\ r.domain = q.domain /\ r.up = e.from /\ r.pc = "answer"
      BY <2>1, <3>1 DEF Asking, Doing
    <3>3. Becomes(p, r) /\ q.domain \in Domain
      BY <2>3 DEF At
    <3> HIDE DEF r
    <3> QED
      BY <1>1, <3>1, <3>2, <3>3
  <2>4. CASE Miss(p)
    <3> DEFINE r == [q EXCEPT !.pc = "upstream", !.up = upstream, !.fresh = TRUE]
    <3>1. upstream \in Upstream
      BY DEF ResolverInv
    <3>2. r \in Asking /\ r.domain = q.domain /\ r.up = upstream
      BY <2>1, <3>1 DEF Asking, Doing
    <3>3. Becomes(p, r) /\ q.domain \in Domain
      BY <2>4 DEF Miss, At
    <3> HIDE DEF r
    <3> QED
      BY <1>1, <3>1, <3>2, <3>3
  <2>5. CASE Exchange(p)
    <3> DEFINE r == [q EXCEPT !.pc = "answer", !.fresh = FALSE]
    <3>1. r \in Asking /\ r.domain = q.domain /\ r.up = q.up
      BY <2>1 DEF Asking, Doing
    <3>2. Becomes(p, r) /\ q.domain \in Domain /\ q.up \in Upstream
      BY <2>5 DEF Exchange, At
    <3> HIDE DEF r
    <3> QED
      BY <1>1, <3>1, <3>2
  <2>6. CASE Fail(p)
    BY <1>1, <1>2, <2>6 DEF Fail
  <2>7. CASE NoAddress(p)
    <3> DEFINE r == [q EXCEPT !.pc = "query", !.type = "AAAA", !.up = None]
    <3>1. r \in Asking /\ r.domain = q.domain /\ r.pc = "query"
      BY <2>1 DEF Asking, Doing, Type
    <3>2. q.domain \in Domain
      BY <2>7 DEF NoAddress, At
    <3> HIDE DEF r
    <3>3. Becomes(p, IF q.type = "A" THEN r ELSE Idle)
      BY <2>7 DEF NoAddress, r
    <3> QED
      BY <1>1, <1>2, <3>1, <3>2, <3>3
  <2> QED
    BY <1>3, <2>2, <2>3, <2>4, <2>5, <2>6, <2>7 DEF Resolving, Hit
<1>4. ASSUME NEW p \in Program, At(p, "answer"), NEW a \in Real \cup Fake, NEW n \in 0 .. PoolTTL, Given(p, a, n)
      PROVE  ProgInv'
  <2> DEFINE r == [Idle EXCEPT !.pc = "have", !.domain = prog[p].domain, !.addr = a, !.life = n]
  <2>1. prog[p].domain \in Domain
    BY <1>4 DEF At
  <2>2. r \in Asking /\ r.domain = prog[p].domain /\ r.pc = "have"
    BY <1>2, <2>1 DEF Asking, Doing, Idle
  <2> HIDE DEF r
  <2>3. Becomes(p, r)
    BY <1>4 DEF Given, r
  <2> QED
    BY <1>1, <2>1, <2>2, <2>3
<1>5. ASSUME NEW p \in Program, Answering(p) PROVE ProgInv'
  <2>1. CASE Fictitious(p)
    <3>1. prog[p].domain \in Domain
      BY <2>1 DEF Fictitious, At
    <3>2. byDomain'[prog[p].domain] \in Fake
      BY <2>1, <3>1 DEF Fictitious, Assign, Renew, Take, Listed, PoolInv, PoolTypeOK
    <3> QED
      BY <1>4, <2>1, <3>2, Lasting DEF Fictitious
  <2>2. CASE Untranslated(p)
    BY <1>1, <1>2, <2>2 DEF Untranslated
  <2>3. ASSUME NEW r \in Real, Plain(p, r) PROVE ProgInv'
    BY <1>4, <2>3, Lasting DEF Plain
  <2>4. ASSUME NEW r \in Real, Translated(p, r) PROVE ProgInv'
    <3>1. table'.of[r] \in Fake
      BY <2>4 DEF Translated, Mapped, Prolong, Fresh, TableInv
    <3> QED
      BY <1>4, <2>4, <3>1, Lasting DEF Translated
  <2> QED
    BY <1>5, <2>1, <2>2, <2>3, <2>4 DEF Answering
<1>6. ASSUME NEW p \in Program, Dialling(p) PROVE ProgInv'
  <2>1. CASE DialName(p)
    <3> DEFINE name == IF mode = "rules" /\ prog[p].addr \in Fake THEN DomainOf(prog[p].addr) ELSE None
               r == [prog[p] EXCEPT !.pc = "dial", !.name = name]
    <3>1. name \in Domain \cup {None}
      BY DEF DomainOf, PoolInv, PoolTypeOK
    <3>2. prog[p] \in Asking /\ prog[p].domain \in Domain /\ Becomes(p, r)
      BY <2>1 DEF DialName, At
    <3> HIDE DEF name
    <3>3. r \in Asking /\ r.domain = prog[p].domain /\ r.pc = "dial"
      BY <3>1, <3>2 DEF Asking, Doing
    <3> HIDE DEF r
    <3> QED
      BY <1>1, <3>2, <3>3
  <2>2. CASE Becomes(p, Idle)
    BY <1>1, <1>2, <2>2
  <2> QED
    BY <1>6, <2>1, <2>2 DEF Dialling, DialFails, DialReal
<1>7. CASE Tick
  <2>1. ASSUME NEW p \in Program
        PROVE  /\ prog'[p] \in Asking
               /\ prog'[p] # Idle => prog'[p].pc = prog[p].pc /\ prog'[p].domain = prog[p].domain
                                       /\ prog'[p].up = prog[p].up
    <3>1. prog[p] \in Asking /\ prog[p].life \in 0 .. PoolTTL
      BY DEF Asking
    <3>2. Older(prog[p].life) \in 0 .. PoolTTL
      BY <3>1, PoolAssumption DEF Older
    <3>3. [prog[p] EXCEPT !.life = Older(@)] \in Asking
      BY <3>1, <3>2 DEF Asking
    <3>4. prog'[p] = IF At(p, "have") /\ prog[p].life <= 1 THEN Idle
                     ELSE [prog[p] EXCEPT !.life = Older(@)]
      BY <1>7 DEF Tick
    <3> QED
      BY <1>2, <3>1, <3>3, <3>4 DEF Asking
  <2>2. prog' \in [Program -> Asking]
    <3>1. prog' = [p \in Program |-> prog'[p]]
      BY <1>7 DEF Tick
    <3> QED
      BY <2>1, <3>1
  <2> QED
    BY <1>2, <2>1, <2>2
<1>8. CASE Administrator
  <2>1. ASSUME NEW n \in Sizes, Resize(n) PROVE ProgInv'
    <3>1. ASSUME NEW p \in Program
          PROVE  prog'[p] \in Asking /\ prog'[p].pc = prog[p].pc /\ prog'[p].domain = prog[p].domain
                   /\ prog'[p].up = prog[p].up
      BY <2>1 DEF Resize, Asking
    <3>2. prog' = [p \in Program |-> prog'[p]]
      BY <2>1 DEF Resize
    <3> QED
      BY <3>1, <3>2
  <2> QED
    BY <1>8, <2>1 DEF Administrator, SetUpstream, SetTTL, FlushAll
<1>9. CASE FlushExpired \/ UNCHANGED vars
  BY <1>9 DEF FlushExpired, vars
<1> QED
  BY <1>3, <1>5, <1>6, <1>7, <1>8, <1>9 DEF Next
-----------------------------------------------------------------------------
(* The two tables of fictitious addresses. *)

\* The pool moves in two ways.
LEMMA PoolMoves ==
    ASSUME [Next]_vars
    PROVE  UNCHANGED pool \/ Tick \/ \E p \in Program : Fictitious(p)
<1>1. ASSUME NEW p \in Program, Resolving(p) \/ Dialling(p) PROVE UNCHANGED pool
  BY <1>1 DEF Resolving, Dialling, Ask, Hit, Miss, Exchange, Fail, NoAddress, DialName, DialFails, DialReal
<1>2. ASSUME NEW p \in Program, Answering(p), ~Fictitious(p) PROVE UNCHANGED pool
  BY <1>2 DEF Answering, Untranslated, Plain, Translated
<1>3. CASE Administrator \/ FlushExpired
  BY <1>3 DEF Administrator, SetUpstream, Resize, SetTTL, FlushAll, FlushExpired
<1>4. CASE UNCHANGED vars
  BY <1>4 DEF vars
<1> QED
  BY <1>1, <1>2, <1>3, <1>4 DEF Next

\* A step of the whole takes a step of the pool, or none.
LEMMA PoolTakesItsSteps ==
    ASSUME ProgInv, [Next]_vars
    PROVE  [PoolNext]_pool
<1>1. ASSUME NEW p \in Program, Fictitious(p) PROVE PoolNext
  BY <1>1, AnswersOwned DEF Fictitious, PoolNext
<1>2. CASE Tick
  BY <1>2 DEF Tick, PoolNext
<1> QED
  BY <1>1, <1>2, PoolMoves

\* The mode stays, and the table moves on in two ways.
LEMMA TableMoves ==
    ASSUME [Next]_vars
    PROVE  /\ mode' = mode
           /\ \/ table' = table
              \/ Tick
              \/ mode = "nat46" /\ \E p \in Program, r \in Real : Translated(p, r)
<1>1. ASSUME NEW p \in Program, Resolving(p) \/ Dialling(p) PROVE UNCHANGED <<mode, table>>
  BY <1>1 DEF Resolving, Dialling, Ask, Hit, Miss, Exchange, Fail, NoAddress, DialName, DialFails, DialReal
<1>2. ASSUME NEW p \in Program, Answering(p), \A r \in Real : ~Translated(p, r) PROVE UNCHANGED <<mode, table>>
  BY <1>2 DEF Answering, Fictitious, Untranslated, Plain
<1>3. ASSUME NEW p \in Program, NEW r \in Real, Translated(p, r) PROVE mode = "nat46" /\ mode' = mode
  BY <1>3 DEF Translated
<1>4. CASE Administrator \/ FlushExpired
  BY <1>4 DEF Administrator, SetUpstream, Resize, SetTTL, FlushAll, FlushExpired
<1>5. CASE Tick
  BY <1>5 DEF Tick
<1>6. CASE UNCHANGED vars
  BY <1>6 DEF vars
<1> QED
  BY <1>1, <1>2, <1>3, <1>4, <1>5, <1>6 DEF Next

\* What a new mapping and a prolonged one leave.
LEMMA Remapped ==
    ASSUME TableInv, NEW r \in Real, NEW f \in Fake, Fresh(r, f)
    PROVE  /\ table' \in [real : [Fake -> Real \cup {None}], life : [Fake -> 0 .. PoolTTL],
                          of : [Real -> Fake \cup {None}], next : Fake]
           /\ \A s \in Real : table'.of[s] # None => table'.real[table'.of[s]] = s
           /\ table'.of[r] = f /\ table'.real[f] = r /\ table'.life[f] = PoolTTL
           /\ \A g \in Fake \ {f} : table'.real[g] = table.real[g] /\ table'.life[g] = table.life[g]
<1> DEFINE real == [table.real EXCEPT ![f] = r]
           time == [table.life EXCEPT ![f] = PoolTTL]
           of == [s \in Real |-> IF s = r THEN f ELSE IF s = table.real[f] THEN None ELSE table.of[s]]
           n == (f + 1) % Size
<1>1. table' = [real |-> real, life |-> time, of |-> of, next |-> n]
  BY DEF Fresh
<1>2. table.real \in [Fake -> Real \cup {None}] /\ table.life \in [Fake -> 0 .. PoolTTL]
      /\ table.of \in [Real -> Fake \cup {None}]
  BY DEF TableInv
<1>3. real \in [Fake -> Real \cup {None}] /\ real[f] = r
      /\ \A g \in Fake \ {f} : real[g] = table.real[g]
  BY <1>2
<1>4. time \in [Fake -> 0 .. PoolTTL] /\ time[f] = PoolTTL
      /\ \A g \in Fake \ {f} : time[g] = table.life[g]
  BY <1>2, PoolAssumption
<1>5. of \in [Real -> Fake \cup {None}] /\ of[r] = f
  BY <1>2
<1>6. n \in Fake
  BY NextInPool
<1>7. ASSUME NEW s \in Real, of[s] # None PROVE real[of[s]] = s
  <2>1. CASE s = r
    BY <1>3, <1>5, <2>1
  <2>2. CASE s # r
    <3>1. s # table.real[f] /\ of[s] = table.of[s]
      BY <1>7, <2>2
    <3>2. table.of[s] \in Fake /\ table.real[table.of[s]] = s
      BY <1>2, <1>7, <3>1 DEF TableInv
    <3> HIDE DEF real, of
    <3> QED
      BY <1>3, <3>1, <3>2
  <2> QED
    BY <2>1, <2>2
<1> HIDE DEF real, time, of, n
<1> QED
  BY <1>1, <1>3, <1>4, <1>5, <1>6, <1>7

LEMMA Prolonged ==
    ASSUME TableInv, NEW r \in Real, Mapped(r), Prolong(r)
    PROVE  /\ table' \in [real : [Fake -> Real \cup {None}], life : [Fake -> 0 .. PoolTTL],
                          of : [Real -> Fake \cup {None}], next : Fake]
           /\ table'.real = table.real /\ table'.of = table.of /\ table.of[r] \in Fake
           /\ table.real[table.of[r]] = r
           /\ \A g \in Fake : table'.life[g] = IF g = table.of[r] THEN PoolTTL ELSE table.life[g]
<1> DEFINE time == [table.life EXCEPT ![table.of[r]] = PoolTTL]
<1>1. table' = [table EXCEPT !.life = time]
  BY DEF Prolong
<1>2. table.of[r] \in Fake /\ table.real[table.of[r]] = r /\ table.life \in [Fake -> 0 .. PoolTTL]
  BY DEF TableInv, Mapped
<1>3. time \in [Fake -> 0 .. PoolTTL]
      /\ \A g \in Fake : time[g] = IF g = table.of[r] THEN PoolTTL ELSE table.life[g]
  BY <1>2, PoolAssumption
<1> HIDE DEF time
<1> QED
  BY <1>1, <1>2, <1>3 DEF TableInv

LEMMA Aged ==
    ASSUME TableInv, Tick
    PROVE  /\ table' \in [real : [Fake -> Real \cup {None}], life : [Fake -> 0 .. PoolTTL],
                          of : [Real -> Fake \cup {None}], next : Fake]
           /\ table'.real = table.real /\ table'.of = table.of
           /\ \A g \in Fake : table'.life[g] = Older(table.life[g])
<1> DEFINE time == [f \in Fake |-> Older(table.life[f])]
<1>1. table' = [table EXCEPT !.life = time]
  BY DEF Tick
<1>2. time \in [Fake -> 0 .. PoolTTL] /\ \A g \in Fake : time[g] = Older(table.life[g])
  BY PoolAssumption DEF TableInv, Older
<1> HIDE DEF time
<1> QED
  BY <1>1, <1>2 DEF TableInv

LEMMA TableStep ==
    ASSUME TableInv, [Next]_vars
    PROVE  TableInv'
<1>1. CASE table' = table
  BY <1>1, TableMoves DEF TableInv
<1>2. CASE Tick
  BY <1>2, TableMoves, Aged DEF TableInv
<1>3. ASSUME NEW p \in Program, NEW r \in Real, Translated(p, r) PROVE TableInv'
  <2>1. CASE Mapped(r)
    BY <1>3, <2>1, TableMoves, Prolonged DEF Translated, TableInv
  <2>2. CASE ~Mapped(r)
    <3>1. PICK f \in Fake : Fresh(r, f)
      BY <1>3, <2>2 DEF Translated
    <3> QED
      BY <3>1, TableMoves, Remapped DEF TableInv
  <2> QED
    BY <2>1, <2>2
<1> QED
  BY <1>1, <1>2, <1>3, TableMoves
-----------------------------------------------------------------------------
(* The promises. *)

\* Assign gives the domain its address for the whole time, and takes nobody's.
LEMMA Assigned ==
    ASSUME PoolInv, NEW d \in Domain, NEW R \in SUBSET Real, Assign(d, R)
    PROVE  /\ byDomain'[d] \in Fake /\ owner'[byDomain'[d]] = d
           /\ reals'[byDomain'[d]] = R /\ life'[byDomain'[d]] = PoolTTL
           /\ \A f \in Fake : f # byDomain'[d] /\ Live(f) =>
                 owner'[f] = owner[f] /\ reals'[f] = reals[f] /\ life'[f] = life[f]
           /\ \A f \in Fake : f = byDomain'[d] /\ Live(f) => owner[f] = d
<1> USE DEF PoolInv, PoolTypeOK, IndexesAgree
<1>1. CASE Renew(d, R)
  <2>1. byDomain[d] \in Fake /\ owner[byDomain[d]] = d
    BY <1>1 DEF Renew, Listed
  <2> QED
    BY <1>1, <2>1 DEF Renew, Renewed
<1>2. ASSUME NEW f \in Fake, Take(d, R, f) PROVE byDomain'[d] = f /\ ~Live(f)
  BY <1>2 DEF Take, First, Free
<1>3. ASSUME NEW f \in Fake, Take(d, R, f)
      PROVE  /\ owner'[f] = d /\ reals'[f] = R /\ life'[f] = PoolTTL
             /\ \A g \in Fake \ {f} : owner'[g] = owner[g] /\ reals'[g] = reals[g] /\ life'[g] = life[g]
  BY <1>3 DEF Take
<1> QED
  BY <1>1, <1>2, <1>3 DEF Assign

\* What a program may still use of an answer, and that it has not changed.
Same(q, r) == r.pc = q.pc /\ r.domain = q.domain /\ r.addr = q.addr /\ r.life = q.life /\ r.name = q.name

\* The programs that a step leaves with an answer that they had not before.
LEMMA Answered ==
    ASSUME [Next]_vars, ProgInv, NEW q \in Program
    PROVE  \/ Same(prog[q], prog'[q]) \/ ~Usable(prog[q])'
           \/ Tick \/ Fictitious(q) \/ DialName(q) \/ \E r \in Real : Translated(q, r)
<1>0. prog[q] \in Asking /\ prog \in [Program -> Asking]
  BY DEF ProgInv
<1>1. ASSUME NEW p \in Program, NEW r, Becomes(p, r), p # q PROVE Same(prog[q], prog'[q])
  BY <1>0, <1>1 DEF Becomes, Same
<1>2. ASSUME NEW r, Becomes(q, r), r.pc \notin {"have", "dial"} PROVE ~Usable(prog[q])'
  BY <1>0, <1>2 DEF Becomes, Usable
<1>3. Idle.pc = "idle"
  BY DEF Idle
<1>4. ASSUME NEW p \in Program, Resolving(p) PROVE \E r : Becomes(p, r) /\ r.pc \notin {"have", "dial"}
  <2>0. prog[p] \in Asking
    BY DEF ProgInv
  <2>1. ASSUME NEW d \in Domain, Ask(p, d) PROVE \E r : Becomes(p, r) /\ r.pc \notin {"have", "dial"}
    <3>1. [Idle EXCEPT !.pc = "query", !.domain = d].pc = "query"
      BY DEF Idle
    <3> QED
      BY <2>1, <3>1 DEF Ask
  <2>2. CASE Hit(p)
    <3>1. \A e : [prog[p] EXCEPT !.pc = "answer", !.up = e.from].pc = "answer"
      BY <2>0 DEF Asking
    <3> QED
      BY <2>2, <3>1 DEF Hit
  <2>3. CASE Miss(p)
    <3>1. [prog[p] EXCEPT !.pc = "upstream", !.up = upstream, !.fresh = TRUE].pc = "upstream"
      BY <2>0 DEF Asking
    <3> QED
      BY <2>3, <3>1 DEF Miss
  <2>4. CASE Exchange(p)
    <3>1. [prog[p] EXCEPT !.pc = "answer", !.fresh = FALSE].pc = "answer"
      BY <2>0 DEF Asking
    <3> QED
      BY <2>4, <3>1 DEF Exchange
  <2>5. CASE Fail(p)
    BY <1>3, <2>5 DEF Fail
  <2>6. CASE NoAddress(p)
    <3>1. [prog[p] EXCEPT !.pc = "query", !.type = "AAAA", !.up = None].pc = "query"
      BY <2>0 DEF Asking
    <3> QED
      BY <1>3, <2>6, <3>1 DEF NoAddress
  <2> QED
    BY <1>4, <2>1, <2>2, <2>3, <2>4, <2>5, <2>6 DEF Resolving
<1>5. ASSUME NEW p \in Program, Answering(p) \/ Dialling(p) PROVE \E r : Becomes(p, r)
  BY <1>5 DEF Answering, Dialling, Fictitious, Untranslated, Plain, Translated, Given, DialName,
              DialFails, DialReal
<1>6. CASE Untranslated(q) \/ DialFails(q) \/ \E a \in Real \cup Fake : DialReal(q, a)
  BY <1>2, <1>3, <1>6 DEF Untranslated, DialFails, DialReal
<1>7. ASSUME NEW a \in Real, Plain(q, a) PROVE ~Usable(prog[q])'
  <2>1. [Idle EXCEPT !.pc = "have", !.domain = prog[q].domain, !.addr = a, !.life = AnswerTTL].addr = a
    BY DEF Idle
  <2>2. prog'[q].addr = a
    BY <1>0, <1>7, <2>1 DEF Plain, Given, Becomes
  <2> QED
    BY <2>2, NamesAssumption DEF Usable
<1>8. CASE Administrator
  <2>1. ASSUME NEW n \in Sizes, Resize(n) PROVE Same(prog[q], prog'[q])
    BY <1>0, <2>1 DEF Resize, Same, Asking
  <2> QED
    BY <1>8, <2>1 DEF Administrator, SetUpstream, SetTTL, FlushAll, Same
<1>9. CASE FlushExpired \/ UNCHANGED vars
  BY <1>9 DEF FlushExpired, vars, Same
<1>10. ASSUME NEW p \in Program, Resolving(p) \/ Answering(p) \/ Dialling(p), p # q PROVE Same(prog[q], prog'[q])
  BY <1>1, <1>4, <1>5, <1>10
<1>11. CASE Resolving(q)
  BY <1>2, <1>4, <1>11
<1>12. CASE Answering(q) \/ Dialling(q)
  BY <1>6, <1>7, <1>12 DEF Answering, Dialling
<1> QED
  BY <1>8, <1>9, <1>10, <1>11, <1>12 DEF Next
\* An answer that stays as it was keeps what it was promised.
LEMMA SameStays ==
    ASSUME NamesInv, [Next]_vars, ~Tick, NEW q \in Program, Same(prog[q], prog'[q])
    PROVE  Promise(prog[q])'
<1> DEFINE a == prog[q].addr
           d == prog[q].domain
           ticks == prog[q].life
<1>0. mode' = mode
  BY TableMoves
<1>1. SUFFICES ASSUME Usable(prog[q]), prog'[q].pc = prog[q].pc, prog'[q].domain = d,
                      prog'[q].addr = a, prog'[q].life = ticks, prog'[q].name = prog[q].name
               PROVE  IF mode = "rules" THEN Held4(prog[q])' ELSE Held6(prog[q])'
  BY <1>0 DEF Promise, Same, Usable
<1>2. a \in Fake /\ d \in Domain /\ ticks \in Nat /\ ticks > 0 /\ prog[q].pc # "idle"
  BY <1>1 DEF Usable, NamesInv, ProgInv, Asking
<1>3. IF mode = "rules" THEN Held4(prog[q]) ELSE Held6(prog[q])
  BY <1>1 DEF NamesInv, Promises, Promise
<1>4. CASE mode = "rules"
  <2>0. /\ owner[a] = d /\ ticks <= life[a] /\ reals[a] # {} /\ reals[a] \subseteq Owned(d)
        /\ prog[q].pc = "dial" => prog[q].name = d
    BY <1>3, <1>4 DEF Held4
  <2>1. SUFFICES owner'[a] = d /\ ticks <= life'[a] /\ reals'[a] # {} /\ reals'[a] \subseteq Owned(d)
    BY <1>1, <1>4, <2>0 DEF Held4, Owned
  <2>2. CASE UNCHANGED pool
    BY <2>0, <2>2 DEF pool
  <2>3. ASSUME NEW p \in Program, Fictitious(p)
        PROVE  owner'[a] = d /\ ticks <= life'[a] /\ reals'[a] # {} /\ reals'[a] \subseteq Owned(d)
    <3> DEFINE R == Answer(p)
               e == prog[p].domain
    <3>1. e \in Domain /\ R \in SUBSET Real /\ R \subseteq Owned(e) /\ R # {} /\ Assign(e, R)
      BY <2>3, AnswersOwned DEF Fictitious, NamesInv
    <3>2. Live(a)
      <4>1. d # None /\ life[a] \in Nat
        BY <1>2, PoolAssumption DEF NamesInv, PoolInv, PoolTypeOK
      <4> QED
        BY <1>2, <2>0, <4>1 DEF Live
    <3> HIDE DEF R, e, a, d, ticks
    <3>3. CASE a = byDomain'[e]
      <4>1. e = d /\ life'[a] = PoolTTL /\ reals'[a] = R /\ owner'[a] = e
        BY <1>2, <2>0, <3>1, <3>2, <3>3, Assigned DEF NamesInv
      <4>2. life[a] \in 0 .. PoolTTL
        BY <1>2 DEF NamesInv, PoolInv, PoolTypeOK
      <4> QED
        BY <1>2, <2>0, <3>1, <4>1, <4>2, PoolAssumption
    <3>4. CASE a # byDomain'[e]
      BY <1>2, <2>0, <3>1, <3>2, <3>4, Assigned DEF NamesInv
    <3> QED
      BY <3>3, <3>4
  <2> QED
    BY <2>2, <2>3, PoolMoves
<1>5. CASE mode # "rules"
  <2>0. ticks <= table.life[a] /\ table.real[a] \in Owned(d) /\ table.life[a] \in 0 .. PoolTTL
    BY <1>2, <1>3, <1>5 DEF Held6, NamesInv, TableInv
  <2>1. SUFFICES ticks <= table'.life[a] /\ table'.real[a] \in Owned(d)
    BY <1>1, <1>5 DEF Held6, Owned
  <2>2. CASE table' = table
    BY <2>0, <2>2
  <2>3. ASSUME NEW p \in Program, NEW r \in Real, Translated(p, r)
        PROVE  ticks <= table'.life[a] /\ table'.real[a] \in Owned(d)
    <3> HIDE DEF a, d, ticks
    <3>1. CASE Mapped(r)
      BY <1>2, <2>0, <2>3, <3>1, Prolonged, PoolAssumption DEF Translated, NamesInv
    <3>2. CASE ~Mapped(r)
      <4>1. PICK f \in Fake : Nearest(f) /\ Fresh(r, f)
        BY <2>3, <3>2 DEF Translated
      <4>2. table.life[f] = 0
        BY <4>1 DEF Nearest, Spare
      <4>3. a # f
        BY <1>2, <2>0, <4>2
      <4> QED
        BY <1>2, <2>0, <4>1, <4>3, Remapped DEF NamesInv
    <3> QED
      BY <3>1, <3>2
  <2> QED
    BY <2>2, <2>3, TableMoves
<1> QED
  BY <1>4, <1>5

\* Time takes a tick from what the program may use, and no more than that from what holds it.
LEMMA TickStays ==
    ASSUME NamesInv, Tick, NEW q \in Program
    PROVE  Promise(prog[q])'
<1>0. prog[q] \in Asking /\ prog[q].life \in Nat
  BY DEF NamesInv, ProgInv, Asking
<1>1. prog'[q] = IF At(q, "have") /\ prog[q].life <= 1 THEN Idle
                 ELSE [prog[q] EXCEPT !.life = Older(@)]
  BY DEF Tick
<1>2. SUFFICES ASSUME Usable(prog[q])' PROVE IF mode = "rules" THEN Held4(prog[q])' ELSE Held6(prog[q])'
  BY DEF Promise, Tick
<1>3. prog'[q] = [prog[q] EXCEPT !.life = Older(@)]
  BY <1>1, <1>2 DEF Usable, Idle
<1>4. /\ prog'[q].pc = prog[q].pc /\ prog'[q].domain = prog[q].domain /\ prog'[q].addr = prog[q].addr
      /\ prog'[q].name = prog[q].name /\ prog'[q].life = Older(prog[q].life)
  BY <1>0, <1>3 DEF Asking
<1>5. prog[q].life > 0 /\ prog'[q].life = prog[q].life - 1 /\ prog[q].addr \in Fake
  BY <1>0, <1>2, <1>4 DEF Usable, Older
<1>6. Usable(prog[q])
  BY <1>2, <1>4, <1>5 DEF Usable
<1>7. IF mode = "rules" THEN Held4(prog[q]) ELSE Held6(prog[q])
  BY <1>6 DEF NamesInv, Promises, Promise
<1>8. CASE mode = "rules"
  <2>1. owner' = owner /\ reals' = reals
        /\ life'[prog[q].addr] = IF life[prog[q].addr] > 0 THEN life[prog[q].addr] - 1 ELSE 0
    BY <1>5 DEF Tick, Age
  <2>2. life[prog[q].addr] \in Nat
    BY <1>5 DEF NamesInv, PoolInv, PoolTypeOK
  <2>3. prog[q].life - 1 <= life'[prog[q].addr]
    BY <1>0, <1>5, <1>7, <1>8, <2>1, <2>2 DEF Held4
  <2> QED
    BY <1>4, <1>5, <1>7, <1>8, <2>1, <2>3 DEF Held4, Owned
<1>9. CASE mode # "rules"
  <2>1. table'.real = table.real /\ table'.life[prog[q].addr] = Older(table.life[prog[q].addr])
    BY <1>5, Aged DEF NamesInv
  <2>2. table.life[prog[q].addr] \in Nat
    BY <1>5 DEF NamesInv, TableInv
  <2>3. prog[q].life - 1 <= table'.life[prog[q].addr]
    BY <1>0, <1>5, <1>7, <1>9, <2>1, <2>2 DEF Held6, Older
  <2> QED
    BY <1>4, <1>5, <1>7, <1>9, <2>1, <2>3 DEF Held6, Owned
<1> QED
  BY <1>8, <1>9

\* The answer that a program is given, and what it stands for.
LEMMA GivenStays ==
    ASSUME NamesInv, NEW q \in Program, Fictitious(q) \/ \E r \in Real : Translated(q, r)
    PROVE  Promise(prog[q])'
<1>0. prog \in [Program -> Asking]
  BY DEF NamesInv, ProgInv
<1>1. ASSUME NEW a, NEW n, Given(q, a, n)
      PROVE  /\ prog'[q].pc = "have" /\ prog'[q].domain = prog[q].domain
             /\ prog'[q].addr = a /\ prog'[q].life = n
  <2> DEFINE r == [Idle EXCEPT !.pc = "have", !.domain = prog[q].domain, !.addr = a, !.life = n]
  <2>1. r.pc = "have" /\ r.domain = prog[q].domain /\ r.addr = a /\ r.life = n
    BY DEF Idle
  <2>2. prog' = [prog EXCEPT ![q] = r]
    BY <1>1 DEF Given, Becomes
  <2> HIDE DEF r
  <2> QED
    BY <1>0, <2>1, <2>2
<1>2. CASE Fictitious(q)
  <2> DEFINE d == prog[q].domain
             R == Answer(q)
  <2>1. d \in Domain /\ R \in SUBSET Real /\ R \subseteq Owned(d) /\ R # {} /\ Assign(d, R) /\ mode' = "rules"
    BY <1>2, AnswersOwned DEF Fictitious, NamesInv
  <2>2. Given(q, byDomain'[d], AnswerTTL)
    BY <1>2 DEF Fictitious
  <2> HIDE DEF d, R
  <2>3. /\ prog'[q].pc = "have" /\ prog'[q].domain = d /\ prog'[q].addr = byDomain'[d]
        /\ prog'[q].life = AnswerTTL
    BY <1>1, <2>2 DEF d
  <2>4. /\ owner'[byDomain'[d]] = d /\ reals'[byDomain'[d]] = R /\ life'[byDomain'[d]] = PoolTTL
    BY <2>1, Assigned DEF NamesInv
  <2>5. AnswerTTL <= PoolTTL
    BY Lasting, PoolAssumption
  <2> QED
    BY <2>1, <2>3, <2>4, <2>5 DEF Promise, Held4, Owned
<1>3. ASSUME NEW r \in Real, Translated(q, r) PROVE Promise(prog[q])'
  <2> DEFINE d == prog[q].domain
  <2>1. d \in Domain /\ r \in Owned(d) /\ mode' = "nat46"
    BY <1>3, AnswersOwned DEF Translated, NamesInv
  <2>2. Given(q, table'.of[r], Clamped(RecordTTL))
    BY <1>3 DEF Translated
  <2> HIDE DEF d
  <2>3. /\ prog'[q].pc = "have" /\ prog'[q].domain = d /\ prog'[q].addr = table'.of[r]
        /\ prog'[q].life = Clamped(RecordTTL)
    BY <1>1, <2>2 DEF d
  <2>4. table'.life[table'.of[r]] = PoolTTL /\ table'.real[table'.of[r]] = r
    <3>1. CASE Mapped(r)
      BY <1>3, <3>1, Prolonged DEF Translated, NamesInv
    <3>2. CASE ~Mapped(r)
      <4>1. PICK f \in Fake : Fresh(r, f)
        BY <1>3, <3>2 DEF Translated
      <4> QED
        BY <4>1, Remapped DEF NamesInv
    <3> QED
      BY <3>1, <3>2
  <2>5. Clamped(RecordTTL) <= PoolTTL
    BY Lasting, PoolAssumption
  <2> QED
    BY <2>1, <2>3, <2>4, <2>5 DEF Promise, Held6, Owned
<1> QED
  BY <1>2, <1>3

\* The pool still knows the domain of an address that may be used.
LEMMA NamedStays ==
    ASSUME NamesInv, NEW q \in Program, DialName(q)
    PROVE  Promise(prog[q])'
<1> DEFINE a == prog[q].addr
           name == IF mode = "rules" /\ a \in Fake THEN DomainOf(a) ELSE None
<1>0. prog \in [Program -> Asking] /\ prog[q] \in Asking
  BY DEF NamesInv, ProgInv
<1>1. prog' = [prog EXCEPT ![q] = [prog[q] EXCEPT !.pc = "dial", !.name = name]]
  BY DEF DialName, Becomes
<1> HIDE DEF name
<1>2. /\ prog'[q].pc = "dial" /\ prog'[q].domain = prog[q].domain /\ prog'[q].addr = a
      /\ prog'[q].life = prog[q].life /\ prog'[q].name = name
  BY <1>0, <1>1 DEF Asking
<1>3. /\ mode' = mode /\ owner' = owner /\ reals' = reals /\ life' = life /\ table' = table
      /\ prog[q].pc = "have"
  BY DEF DialName, pool, At
<1>4. SUFFICES ASSUME Usable(prog[q]) PROVE IF mode = "rules" THEN Held4(prog[q])' ELSE Held6(prog[q])'
  BY <1>2, <1>3 DEF Promise, Usable
<1>5. IF mode = "rules" THEN Held4(prog[q]) ELSE Held6(prog[q])
  BY <1>4 DEF NamesInv, Promises, Promise
<1>6. CASE mode = "rules"
  <2>1. a \in Fake /\ prog[q].life \in Nat /\ prog[q].life > 0 /\ prog[q].domain \in Domain
    BY <1>3, <1>4 DEF Usable, NamesInv, ProgInv, Asking
  <2>2. life[a] \in Nat /\ prog[q].domain # None
    BY <2>1, PoolAssumption DEF NamesInv, PoolInv, PoolTypeOK
  <2>3. owner[a] = prog[q].domain /\ life[a] > 0
    BY <1>5, <1>6, <2>1, <2>2 DEF Held4
  <2>4. name = prog[q].domain
    BY <1>6, <2>1, <2>2, <2>3 DEF name, DomainOf, Live
  <2> QED
    BY <1>2, <1>3, <1>5, <1>6, <2>4 DEF Held4, Owned
<1>7. CASE mode # "rules"
  BY <1>2, <1>3, <1>5, <1>7 DEF Held6, Owned
<1> QED
  BY <1>6, <1>7

LEMMA PromisesStep ==
    ASSUME NamesInv, [Next]_vars
    PROVE  Promises'
<1> SUFFICES ASSUME NEW q \in Program PROVE Promise(prog[q])'
  BY DEF Promises
<1>1. CASE Tick
  BY <1>1, TickStays
<1>2. CASE ~Tick /\ Same(prog[q], prog'[q])
  BY <1>2, SameStays
<1>3. CASE ~Usable(prog[q])'
  BY <1>3 DEF Promise
<1>4. CASE Fictitious(q) \/ \E r \in Real : Translated(q, r)
  BY <1>4, GivenStays
<1>5. CASE DialName(q)
  BY <1>5, NamedStays
<1> QED
  BY <1>1, <1>2, <1>3, <1>4, <1>5, Answered DEF NamesInv
-----------------------------------------------------------------------------
(* The theorems. *)

LEMMA InitNamesInv == Init => NamesInv
<1> SUFFICES ASSUME Init PROVE NamesInv
  OBVIOUS
<1>1. PoolInv
  BY InitInv DEF Init
<1>2. Idle \in Asking /\ Idle.pc = "idle"
  BY PoolAssumption DEF Idle, Asking, Doing, Type
<1>3. ProgInv
  BY <1>2 DEF Init, ProgInv
<1>4. ResolverInv
  <2>1. PICK c \in Started : upstream = c[1] /\ ttl = c[2] /\ size = c[3]
    BY DEF Init, ResolverInit
  <2>2. c[1] \in Upstream /\ c[2] \in Keeping /\ c[3] \in Nat
    BY NamesAssumption
  <2>3. cache \in Seq(Entry) /\ Len(cache) = 0
    BY DEF Init, ResolverInit, NewCache
  <2> QED
    BY <2>1, <2>2, <2>3 DEF ResolverInv
<1>5. TableInv
  BY PoolAssumption DEF Init, NewTable, TableInv, Fake
<1>6. Promises
  BY <1>2 DEF Init, Promises, Promise, Usable
<1> QED
  BY <1>1, <1>3, <1>4, <1>5, <1>6 DEF NamesInv

LEMMA NextNamesInv == NamesInv /\ [Next]_vars => NamesInv'
<1> SUFFICES ASSUME NamesInv, [Next]_vars PROVE NamesInv'
  OBVIOUS
<1>1. PoolInv'
  BY PoolTakesItsSteps, StepInv DEF NamesInv
<1>2. TableInv'
  BY TableStep DEF NamesInv
<1>3. ProgInv'
  BY <1>1, <1>2, ProgStep DEF NamesInv
<1>4. ResolverInv'
  BY ResolverStep DEF NamesInv
<1>5. Promises'
  BY PromisesStep
<1> QED
  BY <1>1, <1>2, <1>3, <1>4, <1>5 DEF NamesInv

LEMMA NamesCorrect == Spec => []NamesInv
  BY InitNamesInv, NextNamesInv, PTL DEF Spec

\* The tables, the programs' answers and the node's cache are what they should be, and the cache
\* never holds more than it was given room for, whichever size it has been changed to (cache.go:63-94).
THEOREM NamesTyped == Spec => []TypeOK
<1>1. ASSUME NamesInv PROVE TypeOK
  <2>1. \A i \in DOMAIN cache : cache[i].key \in Domain \X Type /\ cache[i].from \in Upstream
    <3>1. \A i \in 1 .. Len(cache) : cache[i] \in Entry
      BY <1>1, EntryParts DEF NamesInv
    <3>2. DOMAIN cache = 1 .. Len(cache)
      BY <1>1 DEF NamesInv, ResolverInv
    <3> QED
      BY <3>1, <3>2 DEF Entry
  <2> QED
    BY <1>1, <2>1 DEF NamesInv, PoolInv, TableInv, ResolverInv, TypeOK
<1> QED
  BY <1>1, NamesCorrect, PTL

\* A flow that leaves while its program may use the address goes to an address of the name that
\* the program asked for, under the label of that name, however many programs, names and
\* addresses there are and whatever runs out or is given again in between (routeclient/dialer.go
\* :75-86, nat46/dialer.go:46-55).
THEOREM FlowsGo == Spec => FlowsGoWhereAsked
<1> DEFINE Goes(p, to) ==
        DialReal(p, to) /\ prog[p].addr \in Fake /\ prog[p].life > 0 =>
            /\ to \in Owned(prog[p].domain)
            /\ mode = "rules" => Label(prog[p].name, to) = Label(prog[p].domain, to)
<1>1. ASSUME NamesInv, NEW p \in Program, NEW to \in Real \cup Fake PROVE Goes(p, to)
  <2> SUFFICES ASSUME DialReal(p, to), prog[p].addr \in Fake, prog[p].life > 0
               PROVE  /\ to \in Owned(prog[p].domain)
                      /\ mode = "rules" => Label(prog[p].name, to) = Label(prog[p].domain, to)
    OBVIOUS
  <2> DEFINE a == prog[p].addr
  <2>1. prog[p].pc = "dial" /\ to \in Targets(p) /\ prog[p].life \in Nat /\ prog[p].domain \in Domain
    BY <1>1 DEF DialReal, At, NamesInv, ProgInv, Asking
  <2>2. IF mode = "rules" THEN Held4(prog[p]) ELSE Held6(prog[p])
    BY <1>1, <2>1 DEF NamesInv, Promises, Promise, Usable
  <2>3. mode \in {"rules", "nat46"}
    BY <1>1 DEF NamesInv, TableInv, Mode
  <2>4. CASE mode = "rules"
    <3>1. life[a] \in Nat /\ prog[p].domain # None
      BY <1>1, <2>1, PoolAssumption DEF NamesInv, PoolInv, PoolTypeOK
    <3>2. Live(a)
      BY <2>1, <2>2, <2>4, <3>1 DEF Held4, Live
    <3>3. Targets(p) = reals[a]
      BY <2>2, <2>4, <3>2 DEF Targets, RealOf, Held4
    <3> QED
      BY <2>1, <2>2, <2>4, <3>3 DEF Held4
  <2>5. CASE mode = "nat46"
    <3>1. Targets(p) \subseteq {table.real[a]}
      BY <2>5 DEF Targets
    <3> QED
      BY <2>1, <2>2, <2>5, <3>1 DEF Held6
  <2> QED
    BY <2>3, <2>4, <2>5
<1>2. NamesInv => [\A p \in Program : \A to \in Real \cup Fake : Goes(p, to)]_vars
  BY <1>1
<1> QED
  BY <1>2, NamesCorrect, PTL DEF FlowsGoWhereAsked

\* All that the programs, the resolver and the administrator do keeps the leases of the pool.
THEOREM NamesLeases == Spec => LeasesKept
<1>1. Init => PoolInit
  BY DEF Init
<1>2. NamesInv /\ [Next]_vars => [PoolNext]_pool
  BY PoolTakesItsSteps DEF NamesInv
<1>3. Spec => PoolSpec
  BY <1>1, <1>2, NamesCorrect, PTL DEF Spec, PoolSpec
<1> QED
  BY <1>3, PoolLeases, PTL
-----------------------------------------------------------------------------
(* Answers of an earlier upstream. *)

\* Every answer in the cache is one that was there, no younger.
AllLasted(q) == \A i \in 1 .. Len(q) : Lasted(q[i])

LEMMA ThereLasted ==
    ASSUME ResolverInv, NEW i \in 1 .. Len(cache), NEW e,
           e.key = cache[i].key, e.from = cache[i].from, e.life <= cache[i].life
    PROVE  Lasted(e)
BY DEF ResolverInv, Lasted

LEMMA WithoutLasted ==
    ASSUME ResolverInv, NEW k
    PROVE  AllLasted(Without(k))
<1>1. ASSUME NEW i \in 1 .. Len(cache) PROVE Lasted(cache[i])
  <2>1. cache[i].life <= cache[i].life
    BY EntryParts
  <2> QED
    BY <2>1, ThereLasted
<1> QED
  BY <1>1, WithoutFits DEF AllLasted

\* What a step brings into the cache is from the upstream in use, or from a query that had asked
\* the earlier one.
LEMMA CacheFades ==
    ASSUME ResolverInv, ProgInv, [Next]_vars
    PROVE  \/ \A i \in DOMAIN cache' : Lasted(cache'[i])
           \/ \E p \in Program :
                /\ Exchange(p) /\ prog[p].fresh
                /\ \A i \in DOMAIN cache' :
                      Lasted(cache'[i]) \/ (cache'[i].key = Key(p) /\ cache'[i].from = prog[p].up)
<1> DEFINE Fading == \A i \in DOMAIN cache' : Lasted(cache'[i])
<1>a. cache \in Seq(Entry) /\ DOMAIN cache = 1 .. Len(cache)
  BY DEF ResolverInv
<1>b. ASSUME NEW q \in Seq(Entry), AllLasted(q), cache' = q PROVE Fading
  BY <1>b DEF AllLasted
<1>c. AllLasted(cache)
  <2>1. ASSUME NEW i \in 1 .. Len(cache) PROVE Lasted(cache[i])
    <3>1. cache[i].life <= cache[i].life
      BY EntryParts
    <3> QED
      BY <3>1, ThereLasted
  <2> QED
    BY <2>1 DEF AllLasted
<1>1. ASSUME NEW p \in Program, Hit(p) PROVE Fading
  <2>1. PICK e \in Cached(Key(p)) : cache' = <<Touched(e)>> \o Without(Key(p))
    BY <1>1 DEF Hit
  <2>2. e \in Entry /\ Lasted(e)
    BY <1>a, <1>c DEF Cached, AllLasted
  <2> DEFINE w == Without(Key(p))
  <2>3. w \in Seq(Entry) /\ AllLasted(w)
    BY WithoutFits, WithoutLasted
  <2> HIDE DEF w
  <2>4. cache' = <<e>> \o w
    BY <2>1 DEF Touched, w
  <2>5. AllLasted(<<e>> \o w) /\ <<e>> \o w \in Seq(Entry)
    BY <2>2, <2>3 DEF AllLasted
  <2> QED
    BY <1>b, <2>4, <2>5
<1>2. ASSUME NEW p \in Program, Miss(p) PROVE Fading
  BY <1>2, <1>b, WithoutFits, WithoutLasted DEF Miss
<1>3. ASSUME NEW p \in Program, Exchange(p), ~Fading
      PROVE  /\ prog[p].fresh
             /\ \A i \in DOMAIN cache' :
                   Lasted(cache'[i]) \/ (cache'[i].key = Key(p) /\ cache'[i].from = prog[p].up)
  <2> DEFINE new == [key |-> Key(p), from |-> prog[p].up, life |-> TtlOf(RecordTTL)]
             w == Without(Key(p))
             all == <<new>> \o w
             n == IF Len(all) > size THEN size ELSE Len(all)
  <2>1. prog[p].fresh /\ cache' = Kept(Key(p), prog[p].up)
    <3>1. cache' # cache
      BY <1>3, <1>a, <1>b, <1>c
    <3> QED
      BY <1>3, <3>1 DEF Exchange
  <2>2. cache' = SubSeq(all, 1, n)
    BY <2>1 DEF Kept
  <2>3. new \in Entry /\ new.key = Key(p) /\ new.from = prog[p].up
    BY <1>3, KeepingNat DEF Exchange, At, ProgInv, Asking, Key, Entry
  <2>4. w \in Seq(Entry) /\ AllLasted(w)
    BY WithoutFits, WithoutLasted
  <2> HIDE DEF new, w
  <2>5. all \in Seq(Entry) /\ Len(all) = Len(w) + 1 /\ all[1] = new /\ Len(w) \in Nat
        /\ \A i \in 2 .. Len(all) : all[i] = w[i - 1]
    BY <2>3, <2>4
  <2>6. n \in 0 .. Len(all)
    BY <2>5 DEF ResolverInv
  <2> HIDE DEF all, n
  <2>7. DOMAIN cache' = 1 .. n /\ \A i \in 1 .. n : cache'[i] = all[i]
    BY <2>2, <2>5, <2>6, SubSeqProperties
  <2>8. ASSUME NEW i \in 1 .. n PROVE all[i] = new \/ Lasted(all[i])
    <3>1. i = 1 \/ (i \in 2 .. Len(all) /\ i - 1 \in 1 .. Len(w))
      BY <2>5, <2>6
    <3> QED
      BY <2>4, <2>5, <3>1 DEF AllLasted
  <2>9. \A i \in 1 .. n : Lasted(all[i]) \/ (all[i].key = Key(p) /\ all[i].from = prog[p].up)
    BY <2>3, <2>8
  <2> QED
    BY <2>1, <2>7, <2>9
<1>4. ASSUME FlushExpired PROVE Fading
  <2>1. PICK I : cache' = Only(I)
    BY <1>4 DEF FlushExpired
  <2>2. Remains(Only(I), I, Len(cache))
    BY <1>a, OnlyRemains
  <2>3. Only(I) \in Seq(Entry) /\ AllLasted(Only(I))
    BY <1>c, <2>2 DEF Remains, AllLasted
  <2> QED
    BY <1>b, <2>1, <2>3
<1>5. ASSUME Administrator PROVE Fading
  <2>1. cache' = <<>> \/ cache' = cache
    BY <1>5 DEF Administrator, Resize, NewCache, SetTTL, SetUpstream, FlushAll
  <2> QED
    BY <1>a, <1>b, <1>c, <2>1
<1>6. ASSUME Tick PROVE Fading
  <2>1. cache' = [i \in 1 .. Len(cache) |-> [cache[i] EXCEPT !.life = Older(@)]]
    BY <1>6, <1>a DEF Tick
  <2>2. ASSUME NEW i \in 1 .. Len(cache) PROVE Lasted([cache[i] EXCEPT !.life = Older(@)])
    <3> DEFINE e == [cache[i] EXCEPT !.life = Older(@)]
    <3>1. cache[i] \in Entry /\ cache[i].life \in Nat
      BY EntryParts
    <3>2. e.key = cache[i].key /\ e.from = cache[i].from /\ e.life = Older(cache[i].life)
      BY <3>1 DEF Entry
    <3>3. Older(cache[i].life) <= cache[i].life
      BY <3>1 DEF Older
    <3> HIDE DEF e
    <3>4. Lasted(e)
      BY <3>2, <3>3, ThereLasted
    <3> QED
      BY <3>4 DEF e
  <2> QED
    BY <2>1, <2>2
<1>7. ASSUME UNCHANGED resolver PROVE Fading
  BY <1>7, <1>a, <1>b, <1>c DEF resolver
<1>8. ASSUME UNCHANGED vars PROVE Fading
  BY <1>8, <1>7 DEF vars, resolver
<1>9. ASSUME NEW p \in Program, Resolving(p), ~Hit(p), ~Miss(p), ~Exchange(p) PROVE UNCHANGED resolver
  BY <1>9 DEF Resolving, Ask, Fail, NoAddress
<1>10. ASSUME NEW p \in Program, Answering(p) \/ Dialling(p) PROVE UNCHANGED resolver
  BY <1>10 DEF Answering, Dialling, Fictitious, Untranslated, Plain, Translated, DialName,
               DialFails, DialReal
<1> HIDE DEF Fading
<1>11. ASSUME ~Fading PROVE \E p \in Program : Exchange(p)
  <2>1. ASSUME NEW p \in Program, Resolving(p), ~Exchange(p) PROVE FALSE
    BY <1>1, <1>2, <1>7, <1>9, <1>11, <2>1
  <2>2. ASSUME NEW p \in Program, Answering(p) \/ Dialling(p) PROVE FALSE
    BY <1>7, <1>10, <1>11, <2>2
  <2>3. ~Administrator /\ ~FlushExpired /\ ~Tick /\ ~UNCHANGED vars
    BY <1>4, <1>5, <1>6, <1>8, <1>11
  <2>4. \E p \in Program : Resolving(p) \/ Answering(p) \/ Dialling(p)
    BY <2>3 DEF Next
  <2> QED
    BY <2>1, <2>2, <2>4
<1>12. CASE Fading
  BY <1>12 DEF Fading
<1> QED
  BY <1>3, <1>11, <1>12, Zenon

\* Nobody asks an upstream that is not in use.
LEMMA LateFewer ==
    ASSUME ProgInv, [Next]_vars, upstream' = upstream
    PROVE  Late' \subseteq Late
<1> SUFFICES ASSUME NEW q \in Program, prog'[q].pc = "upstream", prog'[q].fresh, prog'[q].up # upstream
             PROVE  prog[q].pc = "upstream" /\ prog[q].fresh /\ prog[q].up # upstream
  BY DEF Late, At
<1>a. prog \in [Program -> Asking]
  BY DEF ProgInv
<1>1. ASSUME NEW p \in Program, NEW x, Becomes(p, x), x.pc # "upstream" \/ x.up = upstream PROVE prog'[q] = prog[q]
  BY <1>1, <1>a DEF Becomes
<1>2. CASE prog'[q] = prog[q]
  BY <1>2
<1>3. ASSUME NEW p \in Program, Resolving(p) PROVE prog'[q] = prog[q]
  <2>0. prog[p] \in Asking
    BY <1>a
  <2>1. ASSUME NEW d \in Domain, Ask(p, d) PROVE prog'[q] = prog[q]
    <3>1. [Idle EXCEPT !.pc = "query", !.domain = d].pc = "query"
      BY DEF Idle
    <3> QED
      BY <2>1, <1>1, <3>1 DEF Ask
  <2>2. CASE Hit(p)
    <3>1. PICK e : Becomes(p, [prog[p] EXCEPT !.pc = "answer", !.up = e.from])
      BY <2>2 DEF Hit
    <3>2. [prog[p] EXCEPT !.pc = "answer", !.up = e.from].pc = "answer"
      BY <2>0 DEF Asking
    <3> QED
      BY <1>1, <3>1, <3>2
  <2>3. CASE Miss(p)
    <3>1. [prog[p] EXCEPT !.pc = "upstream", !.up = upstream, !.fresh = TRUE].up = upstream
      BY <2>0 DEF Asking
    <3> QED
      BY <1>1, <2>3, <3>1 DEF Miss
  <2>4. CASE Exchange(p)
    <3>1. [prog[p] EXCEPT !.pc = "answer", !.fresh = FALSE].pc = "answer"
      BY <2>0 DEF Asking
    <3> QED
      BY <1>1, <2>4, <3>1 DEF Exchange
  <2>5. CASE Fail(p)
    BY <1>1, <2>5 DEF Fail, Idle
  <2>6. CASE NoAddress(p)
    <3>1. [prog[p] EXCEPT !.pc = "query", !.type = "AAAA", !.up = None].pc = "query"
      BY <2>0 DEF Asking
    <3>2. Idle.pc = "idle"
      BY DEF Idle
    <3> QED
      BY <1>1, <2>6, <3>1, <3>2 DEF NoAddress
  <2> QED
    BY <1>3, <2>1, <2>2, <2>3, <2>4, <2>5, <2>6 DEF Resolving
<1>4. ASSUME NEW p \in Program, Answering(p) PROVE prog'[q] = prog[q]
  <2>1. ASSUME NEW a, NEW t, Given(p, a, t) PROVE prog'[q] = prog[q]
    <3>1. [Idle EXCEPT !.pc = "have", !.domain = prog[p].domain, !.addr = a, !.life = t].pc = "have"
      BY DEF Idle
    <3> QED
      BY <1>1, <2>1, <3>1 DEF Given
  <2>2. CASE Untranslated(p)
    BY <1>1, <2>2 DEF Untranslated, Idle
  <2> QED
    BY <1>4, <2>1, <2>2 DEF Answering, Fictitious, Plain, Translated
<1>5. ASSUME NEW p \in Program, Dialling(p) PROVE prog'[q] = prog[q]
  <2>1. ASSUME NEW m PROVE [prog[p] EXCEPT !.pc = "dial", !.name = m].pc = "dial"
    <3>1. prog[p] \in Asking
      BY <1>a
    <3> QED
      BY <3>1 DEF Asking
  <2>2. CASE DialName(p)
    BY <1>1, <2>1, <2>2 DEF DialName
  <2>3. CASE DialFails(p) \/ \E a \in Real \cup Fake : DialReal(p, a)
    BY <1>1, <2>3 DEF DialFails, DialReal, Idle
  <2> QED
    BY <1>5, <2>2, <2>3 DEF Dialling
<1>6. CASE Administrator
  <2>1. ASSUME NEW m \in Sizes, Resize(m) PROVE FALSE
    <3>1. prog[q] \in Asking /\ prog'[q] = [prog[q] EXCEPT !.fresh = FALSE]
      BY <1>a, <2>1 DEF Resize
    <3>2. prog'[q].fresh = FALSE
      BY <3>1 DEF Asking
    <3> QED
      BY <3>2
  <2> QED
    BY <1>2, <1>6, <2>1 DEF Administrator, SetTTL, SetUpstream, FlushAll
<1>7. CASE Tick
  <2>1. prog[q] \in Asking /\ (prog'[q] = Idle \/ prog'[q] = [prog[q] EXCEPT !.life = Older(@)])
    BY <1>a, <1>7 DEF Tick
  <2>2. prog'[q] # Idle
    BY DEF Idle
  <2> QED
    BY <2>1, <2>2 DEF Asking
<1>8. CASE FlushExpired \/ UNCHANGED vars
  BY <1>2, <1>8 DEF FlushExpired, vars
<1> QED
  BY <1>2, <1>3, <1>4, <1>5, <1>6, <1>7, <1>8 DEF Next

\* While an upstream is in use, answers of another grow older in the cache and are not asked for
\* again: queries that had asked the other store theirs once, though the cache was flushed
\* before (resolver.go:137-162, cache.go:39-61).  With time they are gone, which is UpstreamTakesOver.
THEOREM StaleAnswersFade == Spec => StaleFades
<1>1. ASSUME NamesInv, [Next]_vars, upstream' = upstream,
             NEW i \in DOMAIN cache', cache'[i].from # upstream, ~Lasted(cache'[i])
      PROVE  \E p \in Late \ Late' : Key(p) = cache'[i].key
  <2>1. PICK p \in Program : /\ Exchange(p) /\ prog[p].fresh
                             /\ cache'[i].key = Key(p) /\ cache'[i].from = prog[p].up
    BY <1>1, CacheFades DEF NamesInv
  <2>2. p \in Late
    BY <1>1, <2>1 DEF Late, Exchange
  <2>3. prog'[p].pc = "answer"
    BY <1>1, <2>1 DEF Exchange, Becomes, NamesInv, ProgInv, Asking
  <2>4. p \notin Late'
    BY <2>3 DEF Late, At
  <2> QED
    BY <2>1, <2>2, <2>4
<1>2. NamesInv /\ [Next]_vars =>
        [upstream' = upstream =>
          /\ Late' \subseteq Late
          /\ \A i \in DOMAIN cache' : cache'[i].from # upstream =>
                Lasted(cache'[i]) \/ \E p \in Late \ Late' : Key(p) = cache'[i].key]_vars
  BY <1>1, LateFewer DEF NamesInv
<1> QED
  BY <1>2, NamesCorrect, PTL DEF Spec, StaleFades
=============================================================================
