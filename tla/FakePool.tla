------------------------------ MODULE FakePool ------------------------------
(***************************************************************************)
(* The pool of fictitious addresses of the client (fakeip/pool.go): every  *)
(* domain that a program asks for gets an address of its own, by which its *)
(* flows are recognised.  Pool.mu makes every call one step.               *)
(*                                                                         *)
(* Time is counted in ticks; of an entry its remaining ticks are kept.     *)
(* Left out is byReal, whose only reader, FakeOf, has no caller.           *)
(***************************************************************************)
EXTENDS Naturals, FiniteSets

CONSTANTS
    Domain,         \* names that programs ask for
    Real,           \* addresses that names resolve to
    Size,           \* addresses in the pool
    PoolTTL,        \* ticks in DefaultTTL
    None            \* no domain, no address

ASSUME PoolAssumption ==
    /\ Size \in Nat \ {0} /\ PoolTTL \in Nat \ {0}
    /\ None \notin Domain /\ None \notin Nat

Fake == 0 .. Size - 1       \* lo .. hi

VARIABLES
    owner, reals, life,     \* byFake: domain, real addresses and remaining ticks of each address
    byDomain,               \* the address of each domain
    next                    \* where alloc goes on looking

pool == <<owner, reals, life, byDomain, next>>

PoolInit ==
    /\ owner = [f \in Fake |-> None] /\ reals = [f \in Fake |-> {}] /\ life = [f \in Fake |-> 0]
    /\ byDomain = [d \in Domain |-> None] /\ next = 0

Live(f) == owner[f] # None /\ life[f] > 0
Listed(d) == byDomain[d] # None /\ owner[byDomain[d]] # None

\* Wrong: addresses are given out in turn, whoever has them.
FreeOrNext(f) == f = next \/ ~Live(f)

\* alloc takes an address without an entry, or with one that has run out ...
Free(f) == ~Live(f)

\* ... the first one from next on, round the pool.
Ahead(f) == (f + Size - next) % Size
First(f) == Free(f) /\ \A g \in Fake : Free(g) => Ahead(f) <= Ahead(g)

\* Asking again gives a domain the whole time again.
Renewed(f) == PoolTTL

\* Assign, to a domain that has an address, run out or not ...
Renew(d, R) ==
    LET f == byDomain[d] IN
    /\ Listed(d)
    /\ reals' = [reals EXCEPT ![f] = R]
    /\ life' = [life EXCEPT ![f] = Renewed(f)]
    /\ UNCHANGED <<owner, byDomain, next>>

\* ... to one that has none, instead of a domain whose time has run out ...
Take(d, R, f) ==
    /\ ~Listed(d) /\ First(f)
    /\ owner' = [owner EXCEPT ![f] = d]
    /\ reals' = [reals EXCEPT ![f] = R]
    /\ life' = [life EXCEPT ![f] = PoolTTL]
    /\ byDomain' = [e \in Domain |-> IF e = d THEN f
                                     ELSE IF e = owner[f] THEN None ELSE byDomain[e]]
    /\ next' = (f + 1) % Size

\* ... and where there is none to be had.
Full(d) == ~Listed(d) /\ \A f \in Fake : ~Free(f)

Assign(d, R) == Renew(d, R) \/ \E f \in Fake : Take(d, R, f)

Age == life' = [f \in Fake |-> IF life[f] > 0 THEN life[f] - 1 ELSE 0]
       /\ UNCHANGED <<owner, reals, byDomain, next>>

\* Domain and RealAddr.
DomainOf(f) == IF Live(f) THEN owner[f] ELSE None
RealOf(f) == IF Live(f) THEN reals[f] ELSE {}

PoolNext == Age \/ \E d \in Domain, R \in SUBSET Real : Assign(d, R)
PoolSpec == PoolInit /\ [][PoolNext]_pool
-----------------------------------------------------------------------------
PoolTypeOK ==
    /\ owner \in [Fake -> Domain \cup {None}] /\ reals \in [Fake -> SUBSET Real]
    /\ life \in [Fake -> 0 .. PoolTTL]
    /\ byDomain \in [Domain -> Fake \cup {None}] /\ next \in Fake

\* The two indexes name each other.
IndexesAgree ==
    /\ \A d \in Domain : byDomain[d] # None => owner[byDomain[d]] = d
    /\ \A f \in Fake : owner[f] # None => byDomain[owner[f]] = f

\* The pool keeps what it promises, though it forgets nothing when a time runs out and finds it
\* out only when it looks for an address: no domain loses its address, or gets a second one,
\* before its time (pool.go:74-109, 167-190).
Leased == INSTANCE Leases WITH
    Name <- Domain, Address <- Fake, Nobody <- None, holder <- [f \in Fake |-> DomainOf(f)]
LeasesKept == Leased!Spec
=============================================================================
