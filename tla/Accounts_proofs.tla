--------------------------- MODULE Accounts_proofs ---------------------------
(***************************************************************************)
(* What a node admits, proved for any clients, connections, administrators *)
(* and calls: Accounts (addresses, limits of devices and sessions, edits,  *)
(* amounts of traffic, whatever handlers overlap) and Quota (the limit on  *)
(* traffic and its periods).                                               *)
(***************************************************************************)
EXTENDS Accounts, Quota, FiniteSetTheorems, WellFoundedInduction, TLAPS

-----------------------------------------------------------------------------
(* Accounts. *)

\* The parts of TypeOK that say nothing of amounts of traffic.
ConnRow == [st : Stage, client : Client \cup {None}, hwid : BOOLEAN, addr : Addr \cup {None},
        kept : BOOLEAN, fresh : BOOLEAN, sid : Sid \cup {None},
        total : Int, last : Int, writing : Int, failing : BOOLEAN]

RowsTyped ==
    /\ token \in [Client -> Token]
    /\ devices \in [Client -> [Conn -> {"none", "on", "revoked"}]]
    /\ sessions \in [Sid -> Client \cup {None}]
    /\ assign \in [Client -> Addr \cup {None}]
    /\ want \in [Client -> Token] /\ clash \in [Client -> BOOLEAN]
    /\ over \in [Client -> SUBSET {"devices", "sessions"}]
    /\ left \in Budget

CallsTyped ==
    /\ admin \in [Admin -> Call]
    /\ \A a \in Admin : admin[a].st # "idle" => admin[a].client \in Client

\* Only a connection that was authorised has an address, or a step to go.
ConnsTyped ==
    /\ conn \in [Conn -> ConnRow]
    /\ \A k \in Conn : /\ conn[k].client = None => conn[k].addr = None
                       /\ conn[k].st # "new" => conn[k].client # None

\* What a handler that is about to insert a row has read is true while it is fresh.
RoomRead ==
    \A k \in Conn :
        LET c == conn[k].client IN
        /\ conn[k].st = "add device" /\ conn[k].fresh =>
             Below(Cardinality(MachinesOf(devices, c)), token[c].devices)
        /\ conn[k].st = "add session" /\ conn[k].fresh =>
             Below(Cardinality(SessionsOf(sessions, c)), token[c].sessions)

AmountsTyped ==
    /\ traffic \in [Client -> Nat] /\ carried \in [Client -> Nat] /\ forgotten \in [Client -> Nat]
    /\ silent \subseteq {s \in Sid : sessions[s] # None}

\* Nothing is counted before the tunnel is up, nothing is left to count when its row is to go,
\* and only a tunnel with a row is counted.
Tallied(r) ==
    /\ 0 <= r.last /\ r.last <= r.total /\ 0 <= r.writing
    /\ r.writing > 0 => r.sid # None
    /\ r.st = "new" => r.sid = None
    /\ r.st \in {"authed", "device", "add device", "session", "add session", "start"} =>
         r.total = 0 /\ r.writing = 0
    /\ r.st \in {"last", "closing"} => r.last = r.total
    /\ r.st = "closing" => r.writing = 0

CountsKept == \A k \in Conn : Tallied(conn[k])

IInv ==
    /\ RowsTyped /\ CallsTyped /\ ConnsTyped /\ AmountsTyped
    /\ AddressesKept /\ EditsKept /\ RoomRead /\ LimitKept
    /\ CountsKept /\ TrafficAccounted
-----------------------------------------------------------------------------
LEMMA Constants ==
    /\ None \notin Client /\ None \notin Conn /\ None \notin Sid /\ None \notin Nat
    /\ IsFiniteSet(Conn) /\ IsFiniteSet(Sid)
    /\ Limits \subseteq Nat /\ 0 \in Limits /\ Addr \subseteq Nat /\ None \notin Addr
<1>1. Addr \subseteq Nat
  BY AccountsAssumption DEF Addr
<1> QED
  BY <1>1, AccountsAssumption

\* A set of numbers that is not empty has a least one.
LEMMA LeastThere ==
    ASSUME NEW S \in SUBSET Nat, S # {}
    PROVE  \E n \in S : \A m \in S : n <= m
<1> DEFINE Less == {pair \in Nat \X Nat : pair[1] < pair[2]}
<1>1. IsWellFoundedOn(Less, Nat)
  BY NatLessThanWellFounded DEF OpToRel
<1>2. \A x, y \in S : <<y, x>> \in Less \/ x <= y
  <2> SUFFICES ASSUME NEW x \in S, NEW y \in S, ~(x <= y) PROVE <<y, x>> \in Less
    OBVIOUS
  <2>1. x \in Nat /\ y \in Nat
    OBVIOUS
  <2> QED
    BY <2>1
<1> HIDE DEF Less
<1>3. \E x \in S : \A y \in S : ~(<<y, x>> \in Less)
  BY <1>1, WFMin
<1> QED
  BY <1>2, <1>3

\* The address given out is one nobody is assigned.
LEMMA FirstFreeFree ==
    ASSUME Free # {}
    PROVE  FirstFree \in Addr /\ FirstFree \notin Taken
<1>1. Free \in SUBSET Nat
  BY Constants DEF Free
<1>2. \E a \in Free : \A b \in Free : a <= b
  BY <1>1, LeastThere
<1>3. FirstFree \in Free
  BY <1>2 DEF FirstFree
<1> QED
  BY <1>3 DEF Free

-----------------------------------------------------------------------------
(***************************************************************************)
(* Sums: the fold of the community modules, unfolded for a finite set      *)
(***************************************************************************)

\* What a sum over the elements of s is, from what it is over all but one of them.
Sums(f, g, s) ==
    g[s] = IF s = {} THEN 0 ELSE LET x == CHOOSE x \in s : TRUE IN f[x] + g[s \ {x}]

IsSum(f, g) ==
   g = [s \in SUBSET DOMAIN f |->
           IF s = {} THEN 0 ELSE LET x == CHOOSE x \in s : TRUE IN f[x] + g[s \ {x}]]

LEMMA SumUnfolds ==
    ASSUME NEW f
    PROVE  SumFunction(f) = (CHOOSE g : IsSum(f, g))[DOMAIN f]
BY DEF IsSum, SumFunction, SumFunctionOnSet, FoldFunctionOnSet, MapThenFoldSet

\* There are sums over subsets of any size: were there a least size without, take one element off.
LEMMA SumThere ==
    ASSUME NEW S, IsFiniteSet(S), NEW f \in [S -> Int]
    PROVE  \E g \in [SUBSET S -> Int] : \A s \in SUBSET S : Sums(f, g, s)
<1> DEFINE UpTo(n) == {s \in SUBSET S : Cardinality(s) <= n}
           SumTo(n) == \E g \in [UpTo(n) -> Int] : \A s \in UpTo(n) : Sums(f, g, s)
           Bad == {n \in Nat : ~SumTo(n)}
<1>1. \A s \in SUBSET S : IsFiniteSet(s) /\ Cardinality(s) \in Nat
  BY FS_Subset, FS_CardinalityType
<1>2. ASSUME NEW s \in SUBSET S, s # {}
      PROVE  LET x == CHOOSE x \in s : TRUE
             IN  /\ x \in S /\ s \ {x} \in SUBSET S
                 /\ Cardinality(s \ {x}) = Cardinality(s) - 1
  <2>1. PICK x : x = CHOOSE y \in s : TRUE
    OBVIOUS
  <2>2. x \in s
    BY <1>2, <2>1
  <2>3. Cardinality(s \ {x}) = Cardinality(s) - 1
    BY <1>1, <2>2, FS_RemoveElement
  <2> QED
    BY <2>1, <2>2, <2>3
<1>3. SumTo(0)
  <2> DEFINE g == [s \in UpTo(0) |-> 0]
  <2>1. \A s \in UpTo(0) : s = {}
    BY <1>1, FS_EmptySet
  <2>2. \A s \in UpTo(0) : Sums(f, g, s)
    BY <2>1 DEF Sums
  <2>3. g \in [UpTo(0) -> Int]
    OBVIOUS
  <2> QED
    BY <2>2, <2>3
<1>4. ASSUME NEW n \in Nat, SumTo(n) PROVE SumTo(n + 1)
  <2>1. PICK g \in [UpTo(n) -> Int] : \A s \in UpTo(n) : Sums(f, g, s)
    BY <1>4
  <2> DEFINE h == [s \in UpTo(n + 1) |->
                     IF s = {} THEN 0 ELSE LET x == CHOOSE x \in s : TRUE IN f[x] + g[s \ {x}]]
  <2>2. ASSUME NEW s \in UpTo(n + 1)
        PROVE  h[s] \in Int /\ Sums(f, h, s)
    <3>1. CASE s = {}
      BY <3>1 DEF Sums
    <3>2. CASE s # {}
      <4>1. PICK x : x = CHOOSE y \in s : TRUE
        OBVIOUS
      <4>2. x \in S /\ s \ {x} \in SUBSET S /\ Cardinality(s \ {x}) = Cardinality(s) - 1
        BY <1>2, <3>2, <4>1
      <4>3. Cardinality(s) \in Nat /\ Cardinality(s) <= n + 1
        BY <1>1
      <4>4. s \ {x} \in UpTo(n) /\ s \ {x} \in UpTo(n + 1)
        BY <4>2, <4>3
      <4>5. h[s] = f[x] + g[s \ {x}]
        BY <3>2, <4>1
      <4>6. h[s \ {x}] = g[s \ {x}]
        BY <2>1, <4>4 DEF Sums
      <4>7. f[x] \in Int /\ g[s \ {x}] \in Int
        BY <4>2, <4>4
      <4> HIDE DEF h, UpTo
      <4> QED
        BY <3>2, <4>1, <4>5, <4>6, <4>7 DEF Sums
    <3> QED
      BY <3>1, <3>2
  <2>3. h \in [UpTo(n + 1) -> Int]
    BY <2>2
  <2> HIDE DEF h, UpTo
  <2> QED
    BY <2>2, <2>3
<1>5. Bad = {}
  <2> SUFFICES ASSUME Bad # {} PROVE FALSE
    OBVIOUS
  <2>1. PICK m \in Bad : \A n \in Bad : m <= n
    <3> HIDE DEF SumTo
    <3>1. Bad \in SUBSET Nat
      OBVIOUS
    <3> QED
      BY <3>1, LeastThere
  <2> HIDE DEF SumTo
  <2>2. m \in Nat /\ ~SumTo(m) /\ m # 0
    BY <1>3, <2>1
  <2>3. m - 1 \in Nat /\ m - 1 \notin Bad
    BY <2>1, <2>2
  <2>4. SumTo((m - 1) + 1)
    BY <1>4, <2>3
  <2> QED
    BY <2>2, <2>4
<1>6. SumTo(Cardinality(S))
  <2> HIDE DEF SumTo
  <2> QED
    BY <1>1, <1>5
<1>7. UpTo(Cardinality(S)) = SUBSET S
  BY FS_Subset
<1> HIDE DEF UpTo
<1> QED
  BY <1>6, <1>7

\* Of subsets of a finite set, one has none of the others inside.
LEMMA SmallestThere ==
    ASSUME NEW S, IsFiniteSet(S), NEW T \in SUBSET (SUBSET S), T # {}
    PROVE  \E s \in T : \A t \in T : t \subseteq s => t = s
<1>1. IsWellFoundedOn(StrictSubsetOrdering(S), SUBSET S)
  BY FS_StrictSubsetOrderingWellFounded, FS_FiniteSubsetsOfFinite
<1>2. \E s \in T : \A t \in T : ~(<<t, s>> \in StrictSubsetOrdering(S))
  <2> DEFINE R == StrictSubsetOrdering(S)
             U == SUBSET S
  <2>1. IsWellFoundedOn(R, U) /\ T \subseteq U
    BY <1>1
  <2> HIDE DEF R, U
  <2>2. \E s \in T : \A t \in T : ~(<<t, s>> \in R)
    BY <2>1, WFMin
  <2> QED
    BY <2>2 DEF R
<1>3. PICK s \in T : \A t \in T : <<t, s>> \notin StrictSubsetOrdering(S)
  BY <1>2, Zenon
<1>4. ASSUME NEW t \in T, t \subseteq s PROVE t = s
  <2>1. <<t, s>> \notin StrictSubsetOrdering(S)
    BY <1>3
  <2>2. s \in SUBSET S /\ t \in SUBSET S
    OBVIOUS
  <2>3. <<t, s>> \in (SUBSET S) \X (SUBSET S)
    BY <2>2
  <2> QED
    BY <1>4, <2>1, <2>3 DEF StrictSubsetOrdering
<1> QED
  BY <1>4

\* Two functions on subsets are one function if they agree where they do with one element less.
LEMMA OneLess ==
    ASSUME NEW S, IsFiniteSet(S), NEW T \in SUBSET (SUBSET S),
           {} \in T,
           \A s \in SUBSET S : s # {} /\ s \ {CHOOSE x \in s : TRUE} \in T => s \in T
    PROVE  T = SUBSET S
<1> SUFFICES ASSUME T # SUBSET S PROVE FALSE
  OBVIOUS
<1> DEFINE Bad == (SUBSET S) \ T
<1>1. Bad \in SUBSET (SUBSET S) /\ Bad # {}
  OBVIOUS
<1>2. PICK s \in Bad : \A t \in Bad : t \subseteq s => t = s
  <2> HIDE DEF Bad
  <2> QED
    BY <1>1, SmallestThere
<1>3. s # {} /\ s \in SUBSET S /\ s \notin T
  OBVIOUS
<1>4. PICK x : x = CHOOSE y \in s : TRUE
  OBVIOUS
<1>5. x \in s
  BY <1>3, <1>4
<1>6. s \ {x} \notin Bad
  BY <1>2, <1>5
<1>7. s \ {x} \in T
  BY <1>3, <1>6
<1> QED
  BY <1>3, <1>4, <1>7

LEMMA SumOf ==
    ASSUME NEW S, IsFiniteSet(S), NEW f \in [S -> Int]
    PROVE  \E g \in [SUBSET S -> Int] :
              SumFunction(f) = g[S] /\ \A s \in SUBSET S : Sums(f, g, s)
<1>1. PICK g \in [SUBSET S -> Int] : \A s \in SUBSET S : Sums(f, g, s)
  BY SumThere
<1>2. IsSum(f, g)
  BY <1>1 DEF IsSum, Sums
<1> DEFINE h == CHOOSE h : IsSum(f, h)
<1>3. IsSum(f, h)
  BY <1>2, Zenon
<1>4. SumFunction(f) = h[S]
  BY SumUnfolds
<1> HIDE DEF h
<1>5. \A s \in SUBSET S : Sums(f, h, s)
  BY <1>3 DEF IsSum, Sums
<1> DEFINE T == {s \in SUBSET S : h[s] \in Int}
<1>6. T = SUBSET S
  <2>1. {} \in T
    <3>1. {} \in SUBSET S /\ Sums(f, h, {})
      BY <1>5
    <3> QED
      BY <3>1 DEF Sums
  <2>2. ASSUME NEW s \in SUBSET S, s # {}, s \ {CHOOSE x \in s : TRUE} \in T PROVE s \in T
    <3>1. PICK x : x = CHOOSE y \in s : TRUE
      OBVIOUS
    <3>2. x \in S /\ h[s \ {x}] \in Int
      BY <2>2, <3>1
    <3>3. f[x] \in Int
      BY <3>2
    <3>4. h[s] = f[x] + h[s \ {x}]
      BY <1>5, <2>2, <3>1 DEF Sums
    <3> QED
      BY <3>2, <3>3, <3>4
  <2> HIDE DEF T
  <2>3. T \in SUBSET (SUBSET S)
    BY DEF T
  <2> QED
    BY <2>1, <2>2, <2>3, OneLess
<1>7. h = [s \in SUBSET S |-> h[s]]
  BY <1>3 DEF IsSum
<1>8. h \in [SUBSET S -> Int]
  BY <1>6, <1>7
<1> QED
  BY <1>4, <1>5, <1>8

LEMMA SumType ==
    ASSUME NEW S, IsFiniteSet(S), NEW f \in [S -> Int]
    PROVE  SumFunction(f) \in Int
<1>1. PICK g \in [SUBSET S -> Int] : SumFunction(f) = g[S]
  BY SumOf
<1>2. S \in SUBSET S
  OBVIOUS
<1> QED
  BY <1>1, <1>2

\* A sum moves by as much as the one term that does.
LEMMA OneTerm ==
    ASSUME NEW S, IsFiniteSet(S), NEW f \in [S -> Int], NEW h \in [S -> Int], NEW k \in S,
           \A x \in S : x # k => h[x] = f[x]
    PROVE  SumFunction(h) = SumFunction(f) - f[k] + h[k]
<1>1. PICK sf \in [SUBSET S -> Int] :
         SumFunction(f) = sf[S] /\ \A s \in SUBSET S : Sums(f, sf, s)
  BY SumOf
<1>2. PICK sh \in [SUBSET S -> Int] :
         SumFunction(h) = sh[S] /\ \A s \in SUBSET S : Sums(h, sh, s)
  BY SumOf
<1> DEFINE Moved(s) == sh[s] = sf[s] + (IF k \in s THEN h[k] - f[k] ELSE 0)
           T == {s \in SUBSET S : Moved(s)}
<1>3. {} \in T
  BY <1>1, <1>2 DEF Sums
<1>4. ASSUME NEW s \in SUBSET S, s # {}, s \ {CHOOSE x \in s : TRUE} \in T PROVE s \in T
  <2>1. PICK x : x = CHOOSE y \in s : TRUE
    OBVIOUS
  <2>2. x \in s /\ Moved(s \ {x})
    BY <1>4, <2>1
  <2>3. sf[s] = f[x] + sf[s \ {x}] /\ sh[s] = h[x] + sh[s \ {x}]
    BY <1>1, <1>2, <1>4, <2>1 DEF Sums
  <2>4. /\ f[x] \in Int /\ h[x] \in Int /\ f[k] \in Int /\ h[k] \in Int
        /\ sf[s \ {x}] \in Int /\ sh[s \ {x}] \in Int
    BY <2>2
  <2>5. CASE x = k
    BY <2>2, <2>3, <2>4, <2>5
  <2>6. CASE x # k
    <3>1. h[x] = f[x] /\ (k \in s \ {x} <=> k \in s)
      BY <2>2, <2>6
    <3> QED
      BY <2>2, <2>3, <2>4, <3>1
  <2> QED
    BY <2>5, <2>6
<1>5. T = SUBSET S
  <2>1. T \in SUBSET (SUBSET S)
    OBVIOUS
  <2> HIDE DEF T
  <2> QED
    BY <1>3, <1>4, <2>1, OneLess
<1>6. Moved(S)
  BY <1>5
<1>7. sf[S] \in Int /\ f[k] \in Int /\ h[k] \in Int
  OBVIOUS
<1> QED
  BY <1>1, <1>2, <1>6, <1>7

LEMMA NothingSums ==
    ASSUME NEW S, IsFiniteSet(S), NEW f \in [S -> Int], \A x \in S : f[x] = 0
    PROVE  SumFunction(f) = 0
<1>1. PICK g \in [SUBSET S -> Int] :
         SumFunction(f) = g[S] /\ \A s \in SUBSET S : Sums(f, g, s)
  BY SumOf
<1> DEFINE T == {s \in SUBSET S : g[s] = 0}
<1>2. {} \in T
  BY <1>1 DEF Sums
<1>3. ASSUME NEW s \in SUBSET S, s # {}, s \ {CHOOSE x \in s : TRUE} \in T PROVE s \in T
  <2>1. PICK x : x = CHOOSE y \in s : TRUE
    OBVIOUS
  <2>2. x \in S /\ g[s \ {x}] = 0
    BY <1>3, <2>1
  <2>3. g[s] = f[x] + g[s \ {x}]
    BY <1>1, <1>3, <2>1 DEF Sums
  <2> QED
    BY <2>2, <2>3
<1>4. T = SUBSET S
  <2>1. T \in SUBSET (SUBSET S)
    OBVIOUS
  <2> HIDE DEF T
  <2> QED
    BY <1>2, <1>3, <2>1, OneLess
<1> QED
  BY <1>1, <1>4

LEMMA SumNat ==
    ASSUME NEW S, IsFiniteSet(S), NEW f \in [S -> Nat]
    PROVE  SumFunction(f) \in Nat
<1>1. f \in [S -> Int]
  OBVIOUS
<1>2. PICK g \in [SUBSET S -> Int] :
         SumFunction(f) = g[S] /\ \A s \in SUBSET S : Sums(f, g, s)
  BY <1>1, SumOf
<1> DEFINE T == {s \in SUBSET S : g[s] \in Nat}
<1>3. {} \in T
  BY <1>2 DEF Sums
<1>4. ASSUME NEW s \in SUBSET S, s # {}, s \ {CHOOSE x \in s : TRUE} \in T PROVE s \in T
  <2>1. PICK x : x = CHOOSE y \in s : TRUE
    OBVIOUS
  <2>2. x \in S /\ g[s \ {x}] \in Nat
    BY <1>4, <2>1
  <2>3. f[x] \in Nat
    BY <2>2
  <2>4. g[s] = f[x] + g[s \ {x}]
    BY <1>2, <1>4, <2>1 DEF Sums
  <2> QED
    BY <2>2, <2>3, <2>4
<1>5. T = SUBSET S
  <2>1. T \in SUBSET (SUBSET S)
    OBVIOUS
  <2> HIDE DEF T
  <2> QED
    BY <1>3, <1>4, <2>1, OneLess
<1> QED
  BY <1>2, <1>5

-----------------------------------------------------------------------------
(***************************************************************************)
(* Counting rows                                                           *)
(***************************************************************************)

LEMMA RowsCount ==
    ASSUME NEW ds, NEW rs, NEW c
    PROVE  /\ IsFiniteSet(MachinesOf(ds, c)) /\ Cardinality(MachinesOf(ds, c)) \in Nat
           /\ IsFiniteSet(SessionsOf(rs, c)) /\ Cardinality(SessionsOf(rs, c)) \in Nat
<1>1. MachinesOf(ds, c) \subseteq Conn /\ SessionsOf(rs, c) \subseteq Sid
  BY DEF MachinesOf, SessionsOf
<1>2. IsFiniteSet(MachinesOf(ds, c)) /\ IsFiniteSet(SessionsOf(rs, c))
  BY <1>1, Constants, FS_Subset
<1> QED
  BY <1>2, FS_CardinalityType

LEMMA TooManyOf ==
    ASSUME NEW t, NEW ds, NEW rs, NEW c
    PROVE  /\ TooMany(c, t, ds, rs) \subseteq {"devices", "sessions"}
           /\ "devices" \in TooMany(c, t, ds, rs) <=>
                t[c].devices > 0 /\ t[c].devices < Cardinality(MachinesOf(ds, c))
           /\ "sessions" \in TooMany(c, t, ds, rs) <=>
                t[c].sessions > 0 /\ t[c].sessions < Cardinality(SessionsOf(rs, c))
BY DEF TooMany

\* With the same limits, fewer rows exceed no limit that more rows keep.
LEMMA FewerRows ==
    ASSUME NEW t, NEW c, t[c] \in Token, NEW u, u[c] \in Token,
           t[c].devices = u[c].devices, t[c].sessions = u[c].sessions,
           NEW ds, NEW rs, NEW dt, NEW rt,
           MachinesOf(dt, c) \subseteq MachinesOf(ds, c),
           SessionsOf(rt, c) \subseteq SessionsOf(rs, c)
    PROVE  TooMany(c, u, dt, rt) \subseteq TooMany(c, t, ds, rs)
<1>1. /\ Cardinality(MachinesOf(dt, c)) <= Cardinality(MachinesOf(ds, c))
      /\ Cardinality(SessionsOf(rt, c)) <= Cardinality(SessionsOf(rs, c))
  BY RowsCount, FS_Subset
<1>2. /\ Cardinality(MachinesOf(dt, c)) \in Nat /\ Cardinality(MachinesOf(ds, c)) \in Nat
      /\ Cardinality(SessionsOf(rt, c)) \in Nat /\ Cardinality(SessionsOf(rs, c)) \in Nat
  BY RowsCount
<1>3. u[c].devices \in Nat /\ u[c].sessions \in Nat
  BY Constants DEF Token
<1>4. "devices" \in TooMany(c, u, dt, rt) => "devices" \in TooMany(c, t, ds, rs)
  BY <1>1, <1>2, <1>3, TooManyOf
<1>5. "sessions" \in TooMany(c, u, dt, rt) => "sessions" \in TooMany(c, t, ds, rs)
  BY <1>1, <1>2, <1>3, TooManyOf
<1> QED
  BY <1>4, <1>5, TooManyOf

\* One more row than there were, where there was room, is not too many.
LEMMA OneMore ==
    ASSUME NEW n \in Nat, NEW m \in Nat, NEW limit \in Nat, m <= n + 1, Below(n, limit)
    PROVE  ~(limit > 0 /\ limit < m)
BY DEF Below

LEMMA OneMoreElement ==
    ASSUME NEW S, NEW T, NEW x, IsFiniteSet(S), IsFiniteSet(T), T \subseteq S \cup {x}
    PROVE  Cardinality(T) <= Cardinality(S) + 1
<1>1. /\ IsFiniteSet(S \cup {x})
      /\ Cardinality(S \cup {x}) = Cardinality(S) \/ Cardinality(S \cup {x}) = Cardinality(S) + 1
  BY FS_AddElement
<1>2. Cardinality(T) <= Cardinality(S \cup {x})
  BY <1>1, FS_Subset
<1>3. Cardinality(T) \in Nat /\ Cardinality(S) \in Nat /\ Cardinality(S \cup {x}) \in Nat
  BY <1>1, FS_CardinalityType
<1> QED
  BY <1>1, <1>2, <1>3
-----------------------------------------------------------------------------
\* What an accountant has yet to write down for client c.
Owed(r, c) == IF r.client = c /\ r.sid # None THEN r.total - r.last + r.writing ELSE 0

LEMMA OwedOf ==
    ASSUME NEW r \in ConnRow, NEW c
    PROVE  Owed(r, c) \in Int
BY DEF Owed, ConnRow

LEMMA PendingIs ==
    ASSUME ConnsTyped, NEW c
    PROVE  /\ [k \in Conn |-> Owed(conn[k], c)] \in [Conn -> Int]
           /\ PendingOf(c) = SumFunction([k \in Conn |-> Owed(conn[k], c)])
<1>1. \A k \in Conn : /\ conn[k] \in ConnRow
                      /\ Owed(conn[k], c) = IF conn[k].client = c THEN Pending(k) ELSE 0
  BY DEF ConnsTyped, Owed, Pending, Unwritten
<1>2. [k \in Conn |-> Owed(conn[k], c)]
        = [k \in Conn |-> IF conn[k].client = c THEN Pending(k) ELSE 0]
  BY <1>1
<1>3. PendingOf(c) = SumFunction([k \in Conn |-> Owed(conn[k], c)])
  BY <1>2, Zenon DEF PendingOf
<1> QED
  BY <1>1, <1>3, OwedOf

LEMMA NothingOwed ==
    ASSUME ConnsTyped, NEW c, \A k \in Conn : Owed(conn[k], c) = 0
    PROVE  PendingOf(c) = 0
<1> DEFINE f == [k \in Conn |-> Owed(conn[k], c)]
<1>1. f \in [Conn -> Int] /\ PendingOf(c) = SumFunction(f)
  BY PendingIs
<1>2. \A k \in Conn : f[k] = 0
  OBVIOUS
<1>3. IsFiniteSet(Conn)
  BY Constants
<1> HIDE DEF f
<1> QED
  BY <1>1, <1>2, <1>3, NothingSums

LEMMA InitIInv == Init => IInv
<1> SUFFICES ASSUME Init PROVE IInv
  OBVIOUS
<1>1. left \in Budget /\ left.issued \in Token
  BY AccountsAssumption DEF Init, Budget
<1>2. RowsTyped
  BY <1>1 DEF Init, RowsTyped
<1>3. CallsTyped
  <2>1. Idle \in Call
    <3>1. Unlimited \in Token /\ NoPatch \in Patch
      BY Constants DEF Unlimited, NoPatch, Token, Patch
    <3> QED
      BY <3>1 DEF Idle, Call
  <2> QED
    BY <2>1 DEF Init, CallsTyped, Idle
<1>4. ConnsTyped
  BY DEF Init, ConnsTyped, NoConn, ConnRow, Stage
<1>5. AddressesKept
  BY DEF Init, AddressesKept, Shared, NoConn
<1>6. EditsKept
  BY DEF Init, EditsKept
<1>7. RoomRead
  BY DEF Init, RoomRead, NoConn
<1>8. LimitKept
  <2> SUFFICES ASSUME NEW c \in Client, NEW x \in TooMany(c, token, devices, sessions)
               PROVE  FALSE
    BY DEF LimitKept
  <2>1. MachinesOf(devices, c) = {}
    BY DEF Init, MachinesOf
  <2>2. SessionsOf(sessions, c) = {}
    BY Constants DEF Init, SessionsOf
  <2>3. Cardinality({}) = 0
    BY FS_EmptySet
  <2>4. token[c].devices \in Nat /\ token[c].sessions \in Nat
    BY <1>1, Constants DEF Init, Token
  <2> QED
    BY <2>1, <2>2, <2>3, <2>4, TooManyOf
<1>9. AmountsTyped
  BY DEF Init, AmountsTyped
<1>10. CountsKept
  <2>1. Tallied(NoConn)
    BY DEF Tallied, NoConn
  <2> QED
    BY <2>1 DEF Init, CountsKept
<1>11. TrafficAccounted
  <2> SUFFICES ASSUME NEW c \in Client PROVE PendingOf(c) = 0
    BY DEF Init, TrafficAccounted
  <2>1. \A k \in Conn : Owed(conn[k], c) = 0
    BY DEF Init, NoConn, Owed
  <2> QED
    BY <1>4, <2>1, NothingOwed
<1> QED
  BY <1>2, <1>3, <1>4, <1>5, <1>6, <1>7, <1>8, <1>9, <1>10, <1>11 DEF IInv
-----------------------------------------------------------------------------
(***************************************************************************)
(* Types                                                                   *)
(***************************************************************************)

\* Connections that are what they were, except that some are out of date.
Aged(cs) ==
    /\ cs \in [Conn -> ConnRow]
    /\ \A l \in Conn : /\ cs[l].st = conn[l].st /\ cs[l].client = conn[l].client
                       /\ cs[l].addr = conn[l].addr /\ cs[l].kept = conn[l].kept
                       /\ cs[l].sid = conn[l].sid /\ cs[l].total = conn[l].total
                       /\ cs[l].last = conn[l].last /\ cs[l].writing = conn[l].writing
                       /\ cs[l].fresh => conn[l].fresh

\* Forgetting that what was read is up to date changes nothing else of a connection.
LEMMA OutdatedOf ==
    ASSUME ConnsTyped, NEW c, NEW k
    PROVE  /\ Aged(Outdated(conn, c, k))
           /\ \A l \in Conn : (/\ l # k /\ conn[l].client = c
                               /\ conn[l].st \in {"add device", "add session"}) =>
                  Outdated(conn, c, k)[l].fresh = FALSE
<1> DEFINE cs == Outdated(conn, c, k)
<1>1. ASSUME NEW l \in Conn
      PROVE  /\ conn[l] \in ConnRow
             /\ cs[l] \in {conn[l], [conn[l] EXCEPT !.fresh = FALSE]}
             /\ (/\ l # k /\ conn[l].client = c
                 /\ conn[l].st \in {"add device", "add session"}) =>
                      cs[l] = [conn[l] EXCEPT !.fresh = FALSE]
  BY DEF ConnsTyped, Outdated
<1>2. cs = [l \in Conn |-> cs[l]]
  BY DEF Outdated
<1> HIDE DEF cs
<1>3. ASSUME NEW l \in Conn
      PROVE  /\ cs[l] \in ConnRow
             /\ cs[l].st = conn[l].st /\ cs[l].client = conn[l].client
             /\ cs[l].addr = conn[l].addr /\ cs[l].kept = conn[l].kept
             /\ cs[l].sid = conn[l].sid /\ cs[l].total = conn[l].total
             /\ cs[l].last = conn[l].last /\ cs[l].writing = conn[l].writing
             /\ cs[l].fresh => conn[l].fresh
  <2>1. conn[l] \in ConnRow
    BY <1>1
  <2>2. CASE cs[l] = conn[l]
    BY <2>1, <2>2
  <2>3. CASE cs[l] = [conn[l] EXCEPT !.fresh = FALSE]
    BY <2>1, <2>3 DEF ConnRow
  <2> QED
    BY <1>1, <2>2, <2>3
<1>4. Aged(cs)
  <2>1. cs \in [Conn -> ConnRow]
    BY <1>2, <1>3
  <2> QED
    BY <1>3, <2>1 DEF Aged
<1>5. ASSUME NEW l \in Conn, l # k, conn[l].client = c,
             conn[l].st \in {"add device", "add session"}
      PROVE  cs[l].fresh = FALSE
  BY <1>1, <1>5 DEF ConnRow
<1> QED
  BY <1>4, <1>5 DEF cs

LEMMA CallOf ==
    ASSUME CallsTyped, NEW a \in Admin
    PROVE  /\ admin[a] \in Call /\ admin[a].patch \in Patch /\ admin[a].cur \in Token
           /\ admin[a].st # "idle" => admin[a].client \in Client
BY DEF CallsTyped, Call

\* A call that is over.
LEMMA IdleCall == Idle \in Call /\ Idle.st = "idle"
<1>1. Unlimited \in Token /\ NoPatch \in Patch
  BY Constants DEF Unlimited, NoPatch, Token, Patch
<1> QED
  BY <1>1 DEF Idle, Call

LEMMA SpendLeaves ==
    ASSUME RowsTyped, NEW x \in {"bytes", "faults", "snapshots", "edits"}, Spend(x)
    PROVE  left' \in Budget
<1>1. left \in Budget
  BY DEF RowsTyped
<1> QED
  BY <1>1 DEF Spend, Budget

LEMMA ExcuseTyped ==
    ASSUME RowsTyped, NEW c \in Client, NEW cause, NEW t, NEW ds, NEW rs, Excuse(c, cause, t, ds, rs)
    PROVE  over' \in [Client -> SUBSET {"devices", "sessions"}]
<1>1. TooMany(c, t, ds, rs) \subseteq {"devices", "sessions"}
  BY TooManyOf
<1>2. over \in [Client -> SUBSET {"devices", "sessions"}]
  BY DEF RowsTyped
<1>3. (over[c] \cup cause) \cap TooMany(c, t, ds, rs) \in SUBSET {"devices", "sessions"}
  BY <1>1
<1>4. over' = [over EXCEPT ![c] = (over[c] \cup cause) \cap TooMany(c, t, ds, rs)]
  BY DEF Excuse
<1> HIDE DEF Excuse
<1> QED
  BY <1>2, <1>3, <1>4, Zenon
LEMMA DeleteTyped ==
    ASSUME RowsTyped, NEW ss, Delete(ss)
    PROVE  /\ sessions' \in [Sid -> Client \cup {None}]
           /\ over' \in [Client -> SUBSET {"devices", "sessions"}]
<1>1. sessions' \in [Sid -> Client \cup {None}]
  BY DEF RowsTyped, Delete, Dropped
<1>2. \A c \in Client : over[c] \cap TooMany(c, token, devices, Dropped(ss))
                            \in SUBSET {"devices", "sessions"}
  BY TooManyOf
<1>3. over' = [c \in Client |-> over[c] \cap TooMany(c, token, devices, Dropped(ss))]
  BY DEF Delete
<1> QED
  BY <1>1, <1>2, <1>3, Zenon

LEMMA RowsStep == RowsTyped /\ CallsTyped /\ ConnsTyped /\ [Next]_vars => RowsTyped'
<1> SUFFICES ASSUME RowsTyped, CallsTyped, ConnsTyped, [Next]_vars
             PROVE  RowsTyped'
  OBVIOUS
<1> USE DEF history
<1>q. ASSUME UNCHANGED rows, UNCHANGED <<over, want, clash>>, left' \in Budget
      PROVE  RowsTyped'
  BY <1>q DEF RowsTyped, rows
<1>r. left \in Budget
  BY DEF RowsTyped
<1>1. ASSUME NEW k \in Conn, Handler(k) PROVE RowsTyped'
  <2>1. ASSUME NEW c \in left.uses[k], Authorize(k, c) PROVE RowsTyped'
    BY <1>q, <1>r, <2>1 DEF Authorize
  <2>2. CASE SetHWID(k) \/ TouchDevice(k) \/ CountSessions(k) \/ StartTunnel(k)
    BY <1>q, <1>r, <2>2 DEF SetHWID, TouchDevice, CountSessions, StartTunnel
  <2>3. CASE AllocateAddress(k)
    <3>1. assign' \in [Client -> Addr \cup {None}]
      <4>1. CASE UNCHANGED assign
        BY <4>1 DEF RowsTyped
      <4>2. CASE Free # {} /\ assign' = [assign EXCEPT ![conn[k].client] = FirstFree]
        BY <4>2, FirstFreeFree DEF RowsTyped
      <4> QED
        BY <2>3, <4>1, <4>2 DEF AllocateAddress
    <3> QED
      BY <2>3, <3>1 DEF AllocateAddress, RowsTyped
  <2>4. CASE AddDevice(k)
    <3>1. conn[k].client \in Client
      BY <2>4 DEF AddDevice, At, ConnsTyped, ConnRow
    <3>2. over' \in [Client -> SUBSET {"devices", "sessions"}]
      BY <2>4, <3>1, ExcuseTyped DEF AddDevice
    <3>3. devices' \in [Client -> [Conn -> {"none", "on", "revoked"}]]
      BY <2>4, <3>1 DEF AddDevice, RowsTyped
    <3> QED
      BY <2>4, <3>2, <3>3 DEF AddDevice, RowsTyped
  <2>5. CASE AddSession(k)
    <3>1. conn[k].client \in Client
      BY <2>5 DEF AddSession, At, ConnsTyped, ConnRow
    <3>2. over' \in [Client -> SUBSET {"devices", "sessions"}]
      BY <2>5, <3>1, ExcuseTyped DEF AddSession
    <3>3. sessions' \in [Sid -> Client \cup {None}]
      BY <2>5, <3>1 DEF AddSession, RowsTyped
    <3> QED
      BY <2>5, <3>2, <3>3 DEF AddSession, RowsTyped
  <2>6. CASE TunnelFails(k)
    BY <1>q, <2>6, SpendLeaves DEF TunnelFails
  <2> QED
    BY <1>1, <2>1, <2>2, <2>3, <2>4, <2>5, <2>6 DEF Handler
<1>2. ASSUME NEW k \in Conn, Accountant(k) PROVE RowsTyped'
  <2>0. ASSUME left' \in Budget,
               UNCHANGED <<token, devices, sessions, assign, over, want, clash>>
        PROVE  RowsTyped'
    BY <2>0 DEF RowsTyped
  <2>1. CASE Carry(k)
    BY <1>q, <2>1, SpendLeaves DEF Carry
  <2>2. CASE EndTunnel(k)
    BY <1>q, <1>r, <2>2 DEF EndTunnel
  <2>3. CASE TouchSession(k)
    <3>1. left' \in Budget
      BY <1>r, <2>3, SpendLeaves DEF TouchSession
    <3> QED
      BY <2>0, <2>3, <3>1 DEF TouchSession
  <2>4. CASE AddTraffic(k)
    <3>1. left' \in Budget
      BY <1>r, <2>4, SpendLeaves DEF AddTraffic
    <3> QED
      BY <2>0, <2>4, <3>1 DEF AddTraffic
  <2>5. CASE CloseSession(k)
    <3>1. left' \in Budget
      BY <1>r, <2>5, SpendLeaves DEF CloseSession
    <3>2. CASE Delete({conn[k].sid})
      BY <2>5, <3>1, <3>2, DeleteTyped DEF CloseSession, RowsTyped
    <3>3. CASE UNCHANGED <<sessions, silent, over>>
      BY <2>0, <2>5, <3>1, <3>3 DEF CloseSession
    <3> QED
      BY <2>5, <3>2, <3>3 DEF CloseSession
  <2> QED
    BY <1>2, <2>1, <2>2, <2>3, <2>4, <2>5 DEF Accountant
<1>3. ASSUME NEW a \in Admin, Administrator(a) PROVE RowsTyped'
  <2>1. CASE PatchRead(a)
    BY <1>q, <2>1, SpendLeaves DEF PatchRead
  <2>2. CASE PatchDevice(a)
    <3>1. admin[a].client \in Client /\ admin[a].patch.machine \in Conn \cup {None}
      BY <2>2, CallOf DEF PatchDevice, Is, Patch
    <3>2. CASE UNCHANGED <<devices, conn, over>>
      BY <2>2, <3>2 DEF PatchDevice, RowsTyped
    <3>3. CASE ~UNCHANGED <<devices, conn, over>>
      <4> DEFINE on == IF admin[a].patch.revoke THEN "revoked" ELSE "on"
                 ds == [devices EXCEPT ![admin[a].client][admin[a].patch.machine] = on]
      <4>1. devices' = ds /\ Excuse(admin[a].client, {"devices"}, token, ds, sessions)
        BY <2>2, <3>3 DEF PatchDevice
      <4>2. over' \in [Client -> SUBSET {"devices", "sessions"}]
        BY <3>1, <4>1, ExcuseTyped
      <4>3. devices' \in [Client -> [Conn -> {"none", "on", "revoked"}]]
        BY <4>1 DEF RowsTyped
      <4> QED
        BY <2>2, <4>2, <4>3 DEF PatchDevice, RowsTyped
    <3> QED
      BY <3>2, <3>3
  <2>3. CASE PatchLabel(a)
    <3>1. token' \in [Client -> Token]
      <4>1. \A c \in Client : [token[c] EXCEPT !.revoked = FALSE] \in Token
        BY DEF RowsTyped, Token
      <4> QED
        BY <2>3, <4>1 DEF PatchLabel, RowsTyped
    <3> QED
      BY <2>3, <3>1 DEF PatchLabel, RowsTyped
  <2>4. CASE PatchLimits(a)
    <3>1. CASE ~Asks(admin[a].patch)
      BY <2>4, <3>1 DEF PatchLimits, RowsTyped
    <3>2. CASE Asks(admin[a].patch)
      <4> DEFINE c == admin[a].client
                 p == admin[a].patch
      <4>1. c \in Client /\ p \in Patch /\ admin[a].cur \in Token
        BY <2>4, CallOf DEF PatchLimits, Is
      <4>2. token' = [token EXCEPT ![c] = Limited(token[c], admin[a].cur, p)]
        BY <2>4, <3>2 DEF PatchLimits
      <4>3. Limited(token[c], admin[a].cur, p) \in Token
        BY <4>1 DEF Limited, Token, Patch, RowsTyped
      <4>4. token' \in [Client -> Token]
        BY <4>2, <4>3 DEF RowsTyped
      <4>5. over' \in [Client -> SUBSET {"devices", "sessions"}]
        <5>1. Excuse(c, {"devices", "sessions"}, token', devices, sessions)
          BY <2>4, <3>2 DEF PatchLimits
        <5> QED
          BY <4>1, <5>1, ExcuseTyped
      <4>6. want' \in [Client -> Token] /\ clash' \in [Client -> BOOLEAN]
        <5> DEFINE asked == [x \in {"devices", "sessions"} |-> IF p[x] = None THEN want[c][x] ELSE p[x]]
        <5>1. want' = [want EXCEPT ![c].devices = asked.devices, ![c].sessions = asked.sessions]
          BY <2>4, <3>2, Zenon DEF PatchLimits
        <5>2. asked.devices \in Limits /\ asked.sessions \in Limits
          BY <4>1 DEF RowsTyped, Token, Patch
        <5> HIDE DEF asked
        <5>3. want' \in [Client -> Token]
          <6>1. want[c] \in Token
            BY <4>1 DEF RowsTyped
          <6>2. [[want[c] EXCEPT !.devices = asked.devices] EXCEPT !.sessions = asked.sessions]
                  \in Token
            BY <5>2, <6>1 DEF Token
          <6>3. want' = [want EXCEPT ![c] = [[want[c] EXCEPT !.devices = asked.devices]
                                                      EXCEPT !.sessions = asked.sessions]]
            BY <4>1, <5>1 DEF RowsTyped
          <6> QED
            BY <6>2, <6>3 DEF RowsTyped
        <5>4. PICK u \in BOOLEAN : clash' = [clash EXCEPT ![c] = clash[c] \/ u]
          BY <2>4, <3>2 DEF PatchLimits
        <5>5. clash' \in [Client -> BOOLEAN]
          BY <4>1, <5>4 DEF RowsTyped
        <5> QED
          BY <5>3, <5>5
      <4> QED
        BY <2>4, <4>4, <4>5, <4>6 DEF PatchLimits, RowsTyped
    <3> QED
      BY <3>1, <3>2
  <2>5. CASE Revoke(a)
    <3>1. token' \in [Client -> Token]
      <4>1. PICK c \in Client : token' = [token EXCEPT ![c].revoked = TRUE]
        BY <2>5 DEF Revoke
      <4> QED
        BY <4>1 DEF RowsTyped, Token
    <3> QED
      BY <2>5, <3>1, SpendLeaves DEF Revoke, RowsTyped
  <2>6. CASE RevokeList(a)
    BY <1>q, <1>r, <2>6 DEF RevokeList
  <2>7. CASE RevokeClose(a)
    <3>1. CASE UNCHANGED <<sessions, silent, over>>
      BY <2>7, <3>1 DEF RevokeClose, RowsTyped
    <3>2. ASSUME NEW s, Delete({s}) PROVE RowsTyped'
      BY <2>7, <3>2, DeleteTyped DEF RevokeClose, RowsTyped
    <3> QED
      BY <2>7, <3>1, <3>2 DEF RevokeClose
  <2> QED
    BY <1>3, <2>1, <2>2, <2>3, <2>4, <2>5, <2>6, <2>7 DEF Administrator
<1>4. ASSUME NEW s \in Sid, FallsSilent(s) PROVE RowsTyped'
  BY <1>4 DEF FallsSilent, RowsTyped
<1>5. CASE Sweep
  BY <1>5, DeleteTyped DEF Sweep, RowsTyped
<1>6. CASE Crash
  BY <1>q, <1>6, SpendLeaves DEF Crash
<1>7. CASE Snapshot
  <2>1. assign' \in [Client -> Addr \cup {None}] /\ left' \in Budget
    BY <1>7, SpendLeaves DEF Snapshot
  <2> QED
    BY <1>7, <2>1 DEF Snapshot, RowsTyped
<1>8. CASE CloseRow
  <2>1. left' \in Budget
    BY <1>8, SpendLeaves DEF CloseRow
  <2>2. PICK s \in Sid : Delete({s})
    BY <1>8 DEF CloseRow
  <2> QED
    BY <1>8, <2>1, <2>2, DeleteTyped DEF CloseRow, RowsTyped
<1>9. CASE UNCHANGED vars
  BY <1>9, <1>q, <1>r DEF vars
<1> QED
  BY <1>1, <1>2, <1>3, <1>4, <1>5, <1>6, <1>7, <1>8, <1>9 DEF Next

LEMMA CallsStep == RowsTyped /\ CallsTyped /\ [Next]_vars => CallsTyped'
<1> SUFFICES ASSUME RowsTyped, CallsTyped, [Next]_vars
             PROVE  CallsTyped'
  OBVIOUS
<1> USE DEF CallsTyped
<1>q. ASSUME UNCHANGED admin PROVE CallsTyped'
  BY <1>q
<1>1. ASSUME NEW k \in Conn, Handler(k) \/ Accountant(k) PROVE CallsTyped'
  BY <1>q, <1>1 DEF Handler, Authorize, SetHWID, AllocateAddress, TouchDevice, AddDevice,
     CountSessions, AddSession, StartTunnel, TunnelFails, Accountant, Carry, EndTunnel,
     TouchSession, AddTraffic, CloseSession
<1>2. ASSUME NEW a \in Admin, Administrator(a) PROVE CallsTyped'
  <2>p. ASSUME NEW call \in Call, call.st # "idle" => call.client \in Client,
               admin' = [admin EXCEPT ![a] = call]
        PROVE  CallsTyped'
    BY <2>p
  <2>s. ASSUME admin[a].st # "idle", NEW st \in {"label", "limits"}, Proceed(a, st)
        PROVE  CallsTyped'
    <3>1. admin' = [admin EXCEPT ![a] = [admin[a] EXCEPT !.st = st]]
      BY <2>s DEF Proceed
    <3>2. [admin[a] EXCEPT !.st = st] \in Call /\ [admin[a] EXCEPT !.st = st].client \in Client
      BY <2>s DEF Call
    <3> QED
      BY <2>p, <3>1, <3>2
  <2>i. ASSUME admin' = [admin EXCEPT ![a] = Idle] PROVE CallsTyped'
    BY <2>i, <2>p, IdleCall
  <2>t. ASSUME admin[a].st # "idle", NEW todo \in SUBSET Sid,
               admin' = [admin EXCEPT ![a] = [[admin[a] EXCEPT !.st = "close"]
                                                        EXCEPT !.todo = todo]]
        PROVE  CallsTyped'
    <3>1. [[admin[a] EXCEPT !.st = "close"] EXCEPT !.todo = todo] \in Call
      BY <2>t DEF Call
    <3>2. [[admin[a] EXCEPT !.st = "close"] EXCEPT !.todo = todo].client \in Client
      BY <2>t DEF Call
    <3> QED
      BY <2>p, <2>t, <3>1, <3>2
  <2>1. CASE PatchRead(a)
    <3>1. PICK c \in Client, p \in Patches :
             admin' = [admin EXCEPT ![a] = [st |-> "device", client |-> c, cur |-> token[c],
                                            patch |-> p, todo |-> {}]]
      BY <2>1 DEF PatchRead
    <3>2. p \in Patch /\ token[c] \in Token
      BY AccountsAssumption DEF RowsTyped
    <3>3. [st |-> "device", client |-> c, cur |-> token[c], patch |-> p, todo |-> {}] \in Call
      BY <3>2 DEF Call
    <3> QED
      BY <2>p, <3>1, <3>3
  <2>2. CASE PatchDevice(a)
    <3>1. Proceed(a, "label") \/ admin' = [admin EXCEPT ![a] = Idle]
      BY <2>2 DEF PatchDevice
    <3> QED
      BY <2>2, <2>s, <2>i, <3>1 DEF PatchDevice, Is
  <2>3. CASE PatchLabel(a)
    BY <2>3, <2>s DEF PatchLabel, Is
  <2>4. CASE PatchLimits(a)
    BY <2>4, <2>i DEF PatchLimits
  <2>5. CASE Revoke(a)
    <3>1. PICK c \in Client :
             admin' = [admin EXCEPT ![a] = [[Idle EXCEPT !.st = "list"] EXCEPT !.client = c]]
      BY <2>5 DEF Revoke
    <3>2. [[Idle EXCEPT !.st = "list"] EXCEPT !.client = c] \in Call
      BY IdleCall DEF Call
    <3>3. [[Idle EXCEPT !.st = "list"] EXCEPT !.client = c].client = c
      BY IdleCall DEF Call
    <3> QED
      BY <2>p, <3>1, <3>2, <3>3
  <2>6. CASE RevokeList(a)
    <3>1. SessionsOf(sessions, admin[a].client) \in SUBSET Sid
      BY DEF SessionsOf
    <3>2. admin' = [admin EXCEPT ![a] = [[admin[a] EXCEPT !.st = "close"]
                               EXCEPT !.todo = SessionsOf(sessions, admin[a].client)]]
      BY <2>6 DEF RevokeList
    <3> QED
      BY <2>6, <2>t, <3>1, <3>2 DEF RevokeList, Is
  <2>7. CASE RevokeClose(a)
    <3>1. CASE admin' = [admin EXCEPT ![a] = Idle]
      BY <2>i, <3>1
    <3>2. ASSUME NEW s, admin' = [admin EXCEPT ![a].todo = @ \ {s}] PROVE CallsTyped'
      <4>1. admin[a].todo \ {s} \in SUBSET Sid
        BY DEF Call
      <4>2. admin' = [admin EXCEPT ![a] = [[admin[a] EXCEPT !.st = "close"]
                                                      EXCEPT !.todo = admin[a].todo \ {s}]]
        BY <2>7, <3>2 DEF RevokeClose, Is, Call
      <4> QED
        BY <2>7, <2>t, <4>1, <4>2 DEF RevokeClose, Is
    <3> QED
      BY <2>7, <3>1, <3>2 DEF RevokeClose
  <2> QED
    BY <1>2, <2>1, <2>2, <2>3, <2>4, <2>5, <2>6, <2>7 DEF Administrator
<1>3. ASSUME NEW s \in Sid, FallsSilent(s) PROVE CallsTyped'
  BY <1>q, <1>3 DEF FallsSilent
<1>4. CASE Sweep \/ Snapshot \/ CloseRow
  BY <1>q, <1>4 DEF Sweep, Snapshot, CloseRow
<1>5. CASE Crash
  BY <1>5, IdleCall DEF Crash
<1>6. CASE UNCHANGED vars
  BY <1>q, <1>6 DEF vars
<1> QED
  BY <1>1, <1>2, <1>3, <1>4, <1>5, <1>6 DEF Next
-----------------------------------------------------------------------------
(***************************************************************************)
(* Connections                                                             *)
(***************************************************************************)

\* What a connection may be.
Sound(r) == /\ r \in ConnRow
            /\ r.client = None => r.addr = None
            /\ r.st # "new" => r.client # None

\* A step leaves a connection the address it had, or none that is kept.
Settled(l) ==
    conn'[l].addr # None /\ conn'[l].kept =>
        conn[l].kept /\ conn'[l].addr = conn[l].addr /\ conn'[l].client = conn[l].client

\* A step leaves a handler with what it had read.
Resumed(l) ==
    conn'[l].st \in {"add device", "add session"} /\ conn'[l].fresh =>
        conn[l].fresh /\ conn'[l].st = conn[l].st /\ conn'[l].client = conn[l].client

\* A step leaves a connection with the row it had, or with none.
Detached(l) == conn'[l].sid \in {conn[l].sid, None}

ConnsStep ==
    /\ ConnsTyped'
    /\ \A l \in Conn : Settled(l) \/ AllocateAddress(l)
    /\ \A l \in Conn : Resumed(l) \/ TouchDevice(l) \/ CountSessions(l)
    /\ \A l \in Conn : Detached(l) \/ AddSession(l)

LEMMA SoundConns == ConnsTyped <=> conn \in [Conn -> ConnRow] /\ \A k \in Conn : Sound(conn[k])
BY DEF ConnsTyped, Sound

LEMMA NoConnSound ==
    /\ Sound(NoConn) /\ NoConn \in ConnRow /\ NoConn.addr = None /\ NoConn.st = "new"
    /\ NoConn.sid = None /\ NoConn.total = 0 /\ NoConn.last = 0 /\ NoConn.writing = 0
BY DEF Sound, NoConn, ConnRow, Stage

LEMMA AgedConns ==
    ASSUME ConnsTyped
    PROVE  Aged(conn) /\ \A c, k : Aged(Outdated(conn, c, k))
<1>1. Aged(conn)
  BY DEF Aged, ConnsTyped
<1> QED
  BY <1>1, OutdatedOf

\* One connection becomes r, the others stay or forget that they are up to date.
LEMMA OneMoves ==
    ASSUME ConnsTyped, NEW k \in Conn, NEW r, Sound(r), NEW cs,
           Aged(cs),
           conn' = [cs EXCEPT ![k] = r],
           r.addr # None /\ r.kept =>
              \/ conn[k].kept /\ r.addr = conn[k].addr /\ r.client = conn[k].client
              \/ AllocateAddress(k),
           r.st \in {"add device", "add session"} /\ r.fresh =>
              \/ conn[k].fresh /\ r.st = conn[k].st /\ r.client = conn[k].client
              \/ TouchDevice(k) \/ CountSessions(k),
           r.sid \in {conn[k].sid, None} \/ AddSession(k)
    PROVE  ConnsStep
<1>2. conn' \in [Conn -> ConnRow] /\ conn'[k] = r /\ \A l \in Conn : l # k => conn'[l] = cs[l]
  BY DEF Aged, Sound
<1>3. ASSUME NEW l \in Conn
      PROVE  /\ Sound(conn'[l])
             /\ Settled(l) \/ AllocateAddress(l)
             /\ Resumed(l) \/ TouchDevice(l) \/ CountSessions(l)
             /\ Detached(l) \/ AddSession(l)
  <2>1. CASE l = k
    BY <1>2, <2>1 DEF Settled, Resumed, Detached
  <2>2. CASE l # k
    <3>1. conn'[l] = cs[l] /\ cs[l] \in ConnRow /\ Sound(conn[l])
      BY <1>2, <2>2, SoundConns DEF Aged
    <3> QED
      BY <3>1 DEF Aged, Settled, Resumed, Detached, Sound
  <2> QED
    BY <2>1, <2>2
<1>4. ConnsTyped'
  BY <1>2, <1>3 DEF ConnsTyped, Sound
<1> QED
  BY <1>3, <1>4 DEF ConnsStep

LEMMA ConnsStay ==
    ASSUME ConnsTyped, NEW cs, Aged(cs), conn' = cs
    PROVE  ConnsStep
<1>2. ConnsTyped'
  BY DEF Aged, ConnsTyped
<1>3. \A l \in Conn : Settled(l) /\ Resumed(l) /\ Detached(l)
  BY DEF Aged, Settled, Resumed, Detached
<1> QED
  BY <1>2, <1>3 DEF ConnsStep

LEMMA ConnsMove == ConnsTyped /\ RowsTyped /\ CallsTyped /\ [Next]_vars => ConnsStep
<1> SUFFICES ASSUME ConnsTyped, RowsTyped, CallsTyped, [Next]_vars
             PROVE  ConnsStep
  OBVIOUS
<1>q. ASSUME UNCHANGED conn PROVE ConnsStep
  BY <1>q, AgedConns, ConnsStay
<1>n. Sound(NoConn) /\ NoConn.addr = None /\ NoConn.st = "new" /\ NoConn.sid = None
  BY NoConnSound
<1>1. ASSUME NEW k \in Conn, Handler(k) \/ Accountant(k) PROVE ConnsStep
  <2>0. Sound(conn[k]) /\ Aged(conn)
    BY AgedConns, SoundConns
  <2>1. ASSUME NEW c \in left.uses[k], Authorize(k, c) PROVE ConnsStep
    <3> DEFINE r == [[NoConn EXCEPT !.st = "authed"] EXCEPT !.client = c]
    <3>1. left.uses \in [Conn -> SUBSET Client]
      BY DEF RowsTyped, Budget
    <3>2. c \in Client /\ c # None
      BY <3>1, Constants
    <3>3. Sound(r) /\ r.addr = None /\ r.st = "authed" /\ r.sid = None
      BY <3>2, NoConnSound DEF Sound, NoConn, ConnRow, Stage
    <3>4. conn' = [conn EXCEPT ![k] = r]
      BY <2>1 DEF Authorize
    <3> HIDE DEF r
    <3> QED
      BY <2>0, <3>3, <3>4, OneMoves
  <2>2. CASE SetHWID(k)
    <3> DEFINE r == [conn[k] EXCEPT !.hwid = TRUE]
    <3>1. Sound(r) /\ r.sid = conn[k].sid /\ r.addr = conn[k].addr /\ r.kept = conn[k].kept
          /\ r.client = conn[k].client /\ r.st = "authed"
      BY <2>0, <2>2 DEF SetHWID, At, Sound, ConnRow
    <3>2. conn' = [conn EXCEPT ![k] = r]
      BY <2>2 DEF SetHWID
    <3> HIDE DEF r
    <3> QED
      BY <2>0, <3>1, <3>2, OneMoves
  <2>3. CASE AllocateAddress(k)
    <3>1. ASSUME NEW a \in Addr, assignFor(k, a) PROVE ConnsStep
      <4> DEFINE r == [[conn[k] EXCEPT !.st = "device"] EXCEPT !.addr = a]
      <4>1. Sound(r) /\ r.sid = conn[k].sid /\ r.st = "device"
        BY <2>0, <2>3 DEF AllocateAddress, At, Sound, ConnRow, Stage
      <4>2. conn' = [conn EXCEPT ![k] = r]
        BY <3>1 DEF assignFor
      <4> HIDE DEF r
      <4> QED
        BY <2>0, <2>3, <4>1, <4>2, OneMoves
    <3>2. CASE assign[conn[k].client] # None /\ assignFor(k, assign[conn[k].client])
      <4>1. conn[k].client \in Client
        BY <2>0, <2>3 DEF AllocateAddress, At, Sound, ConnRow
      <4>2. assign[conn[k].client] \in Addr
        BY <3>2, <4>1 DEF RowsTyped
      <4> QED
        BY <3>1, <3>2, <4>2
    <3>3. CASE Free # {} /\ assignFor(k, FirstFree)
      BY <3>1, <3>3, FirstFreeFree
    <3> QED
      BY <2>3, <3>2, <3>3 DEF AllocateAddress
  <2>4. CASE TouchDevice(k)
    <3>1. PICK st \in {"add device", "session"} :
             conn' = [conn EXCEPT ![k] = [[[conn[k] EXCEPT !.hwid = FALSE] EXCEPT !.fresh = TRUE]
                                                    EXCEPT !.st = st]]
      BY <2>4 DEF TouchDevice
    <3> DEFINE r == [[[conn[k] EXCEPT !.hwid = FALSE] EXCEPT !.fresh = TRUE] EXCEPT !.st = st]
    <3>2. Sound(r) /\ r.sid = conn[k].sid /\ r.addr = conn[k].addr /\ r.kept = conn[k].kept
          /\ r.client = conn[k].client
      BY <2>0, <2>4 DEF TouchDevice, At, Sound, ConnRow, Stage
    <3>3. conn' = [conn EXCEPT ![k] = r]
      BY <3>1
    <3> HIDE DEF r
    <3> QED
      BY <2>0, <2>4, <3>2, <3>3, OneMoves
  <2>5. CASE AddDevice(k)
    <3> DEFINE cs == Outdated(conn, conn[k].client, k)
               r == [[cs[k] EXCEPT !.st = "session"] EXCEPT !.fresh = TRUE]
    <3>1. Aged(cs)
      BY AgedConns
    <3> HIDE DEF cs
    <3>a. cs[k] \in ConnRow /\ cs[k].client = conn[k].client /\ cs[k].addr = conn[k].addr
          /\ cs[k].kept = conn[k].kept /\ cs[k].sid = conn[k].sid
      BY <3>1 DEF Aged
    <3>b. conn[k].client # None
      BY <2>0, <2>5 DEF AddDevice, At, Sound
    <3>2. Sound(r) /\ r.sid = conn[k].sid /\ r.addr = conn[k].addr /\ r.kept = conn[k].kept
          /\ r.client = conn[k].client /\ r.st = "session"
      BY <3>a, <3>b DEF Sound, ConnRow, Stage
    <3>3. conn' = [cs EXCEPT ![k] = r]
      BY <2>5 DEF AddDevice, cs
    <3> HIDE DEF r
    <3> QED
      BY <2>0, <3>1, <3>2, <3>3, OneMoves
  <2>6. CASE CountSessions(k)
    <3>1. PICK st \in {"add session", "start"} :
             conn' = [conn EXCEPT ![k] = [[conn[k] EXCEPT !.fresh = TRUE] EXCEPT !.st = st]]
      BY <2>6 DEF CountSessions
    <3> DEFINE r == [[conn[k] EXCEPT !.fresh = TRUE] EXCEPT !.st = st]
    <3>2. Sound(r) /\ r.sid = conn[k].sid /\ r.addr = conn[k].addr /\ r.kept = conn[k].kept
          /\ r.client = conn[k].client
      BY <2>0, <2>6 DEF CountSessions, At, Sound, ConnRow, Stage
    <3>3. conn' = [conn EXCEPT ![k] = r]
      BY <3>1
    <3> HIDE DEF r
    <3> QED
      BY <2>0, <2>6, <3>2, <3>3, OneMoves
  <2>7. CASE AddSession(k)
    <3> DEFINE cs == Outdated(conn, conn[k].client, k)
               r == [[[cs[k] EXCEPT !.st = "start"] EXCEPT !.fresh = TRUE]
                                    EXCEPT !.sid = newSessionID]
    <3>1. Aged(cs)
      BY AgedConns
    <3> HIDE DEF cs
    <3>2. newSessionID \in Sid
      BY <2>7 DEF AddSession, newSessionID, Unused
    <3>a. cs[k] \in ConnRow /\ cs[k].client = conn[k].client /\ cs[k].addr = conn[k].addr
          /\ cs[k].kept = conn[k].kept
      BY <3>1 DEF Aged
    <3>b. conn[k].client # None
      BY <2>0, <2>7 DEF AddSession, At, Sound
    <3>3. Sound(r) /\ r.addr = conn[k].addr /\ r.kept = conn[k].kept
          /\ r.client = conn[k].client /\ r.st = "start"
      BY <3>2, <3>a, <3>b DEF Sound, ConnRow, Stage
    <3>4. conn' = [cs EXCEPT ![k] = r]
      BY <2>7 DEF AddSession, cs
    <3> HIDE DEF r
    <3> QED
      BY <2>0, <2>7, <3>1, <3>3, <3>4, OneMoves
  <2>8. CASE StartTunnel(k) \/ EndTunnel(k)
    <3>1. PICK st \in {"tunnel", "new", "ending"} :
             conn' = [conn EXCEPT ![k] = [conn[k] EXCEPT !.st = st]]
      BY <2>8 DEF StartTunnel, EndTunnel, Go
    <3> DEFINE r == [conn[k] EXCEPT !.st = st]
    <3>2. Sound(r) /\ r.sid = conn[k].sid /\ r.addr = conn[k].addr /\ r.kept = conn[k].kept
          /\ r.client = conn[k].client /\ r.st = st
      BY <2>0, <2>8 DEF StartTunnel, EndTunnel, At, Sound, ConnRow, Stage
    <3>3. conn' = [conn EXCEPT ![k] = r]
      BY <3>1
    <3> HIDE DEF r
    <3> QED
      BY <2>0, <3>2, <3>3, OneMoves
  <2>9. CASE TunnelFails(k) \/ CloseSession(k)
    <3>1. conn' = [conn EXCEPT ![k] = NoConn]
      BY <2>9 DEF TunnelFails, CloseSession
    <3> QED
      BY <1>n, <2>0, <3>1, OneMoves
  <2>10. CASE Carry(k)
    <3> DEFINE r == [conn[k] EXCEPT !.total = conn[k].total + 1]
    <3>1. Sound(r) /\ r.sid = conn[k].sid /\ r.addr = conn[k].addr /\ r.kept = conn[k].kept
          /\ r.client = conn[k].client /\ r.st = "tunnel"
      BY <2>0, <2>10 DEF Carry, At, Sound, ConnRow
    <3>2. conn' = [conn EXCEPT ![k] = r]
      BY <2>10 DEF Carry
    <3> HIDE DEF r
    <3> QED
      BY <2>0, <3>1, <3>2, OneMoves
  <2>11. CASE TouchSession(k)
    <3>1. /\ conn[k].total \in Int /\ conn[k].last \in Int
          /\ conn[k].st \in {"tunnel", "ending"} /\ conn[k].client # None
      BY <2>0, <2>11 DEF TouchSession, Sound, ConnRow
    <3>2. Unwritten(k) \in Int /\ Counted(k) \in {"tunnel", "closing"}
      BY <3>1 DEF Unwritten, Counted, At
    <3>3. CASE conn' = [conn EXCEPT ![k].last = conn[k].total, ![k].failing = FALSE,
                            ![k].writing = Unwritten(k),
                            ![k].st = IF Unwritten(k) > 0 /\ At(k, "ending") THEN "last"
                                                                         ELSE Counted(k)]
      <4>1. PICK st \in {"last", "tunnel", "closing"} :
               st = IF Unwritten(k) > 0 /\ At(k, "ending") THEN "last" ELSE Counted(k)
        BY <3>2
      <4> DEFINE r == [[[[conn[k] EXCEPT !.last = conn[k].total] EXCEPT !.failing = FALSE]
                              EXCEPT !.writing = Unwritten(k)] EXCEPT !.st = st]
      <4>2. conn' = [conn EXCEPT ![k] = r]
        BY <3>3, <4>1
      <4>3. Sound(r) /\ r.sid = conn[k].sid /\ r.addr = conn[k].addr /\ r.kept = conn[k].kept
            /\ r.client = conn[k].client /\ r.st = st
        BY <2>0, <3>1, <3>2 DEF Sound, ConnRow, Stage
      <4> HIDE DEF r
      <4> QED
        BY <2>0, <4>2, <4>3, OneMoves
    <3>4. CASE conn' = [conn EXCEPT ![k].last = conn[k].total, ![k].failing = TRUE,
                                    ![k].st = Counted(k)]
      <4> DEFINE r == [[[conn[k] EXCEPT !.last = conn[k].total] EXCEPT !.failing = TRUE]
                              EXCEPT !.st = Counted(k)]
      <4>1. conn' = [conn EXCEPT ![k] = r]
        BY <3>4
      <4>2. Sound(r) /\ r.sid = conn[k].sid /\ r.addr = conn[k].addr /\ r.kept = conn[k].kept
            /\ r.client = conn[k].client /\ r.st = Counted(k)
        BY <2>0, <3>1, <3>2 DEF Sound, ConnRow, Stage
      <4> HIDE DEF r
      <4> QED
        BY <2>0, <3>2, <4>1, <4>2, OneMoves
    <3> QED
      BY <2>11, <3>3, <3>4 DEF TouchSession
  <2>12. CASE AddTraffic(k)
    <3>1. PICK st : st = IF conn[k].st = "last" THEN "closing" ELSE conn[k].st
      OBVIOUS
    <3> DEFINE r == [[conn[k] EXCEPT !.writing = 0] EXCEPT !.st = st]
    <3>2. conn' = [conn EXCEPT ![k] = r]
      BY <2>0, <2>12, <3>1 DEF AddTraffic, Sound, ConnRow
    <3>3. conn[k].st \in Stage /\ (conn[k].st # "new" => conn[k].client # None)
      BY <2>0 DEF Sound, ConnRow
    <3>4. st \in {"closing", conn[k].st} /\ st \in Stage /\ (st # "new" => conn[k].client # None)
      BY <3>1, <3>3 DEF Stage
    <3>5. r \in ConnRow /\ r.addr = conn[k].addr /\ r.kept = conn[k].kept
          /\ r.client = conn[k].client /\ r.fresh = conn[k].fresh /\ r.st = st
          /\ r.sid = conn[k].sid
      <4>1. conn[k] \in ConnRow /\ st \in Stage /\ 0 \in Int
        BY <2>0, <3>4 DEF Sound
      <4>2. [conn[k] EXCEPT !.writing = 0] \in ConnRow
        BY <4>1 DEF ConnRow
      <4> QED
        BY <4>1, <4>2 DEF ConnRow
    <3> HIDE DEF r
    <3>6. Sound(r)
      BY <2>0, <3>4, <3>5 DEF Sound
    <3> QED
      BY <2>0, <3>2, <3>4, <3>5, <3>6, OneMoves
  <2> QED
    BY <1>1, <2>1, <2>2, <2>3, <2>4, <2>5, <2>6, <2>7, <2>8, <2>9, <2>10, <2>11, <2>12
       DEF Handler, Accountant
<1>2. ASSUME NEW a \in Admin, Administrator(a) PROVE ConnsStep
  <2>1. CASE PatchRead(a) \/ PatchLabel(a) \/ Revoke(a) \/ RevokeList(a) \/ RevokeClose(a)
    BY <1>q, <2>1 DEF PatchRead, PatchLabel, Revoke, RevokeList, RevokeClose
  <2>2. CASE PatchDevice(a) \/ PatchLimits(a)
    <3>1. UNCHANGED conn \/ \E c : conn' = Outdated(conn, c, None)
      BY <2>2 DEF PatchDevice, PatchLimits
    <3> QED
      BY <1>q, <3>1, AgedConns, ConnsStay
  <2> QED
    BY <1>2, <2>1, <2>2 DEF Administrator
<1>3. ASSUME NEW s \in Sid, FallsSilent(s) PROVE ConnsStep
  BY <1>q, <1>3 DEF FallsSilent
<1>4. CASE Sweep \/ CloseRow
  BY <1>q, <1>4 DEF Sweep, CloseRow
<1>5. CASE Crash
  <2>1. conn' = [l \in Conn |-> NoConn]
    BY <1>5 DEF Crash
  <2>2. ConnsTyped'
    BY <2>1, <1>n DEF ConnsTyped, Sound
  <2> QED
    BY <2>1, <2>2, <1>n DEF ConnsStep, Settled, Resumed, Detached
<1>6. CASE Snapshot
  <2>1. conn' = [l \in Conn |-> [conn[l] EXCEPT !.kept = conn[l].addr = None]]
    BY <1>6 DEF Snapshot
  <2>2. ASSUME NEW l \in Conn
        PROVE  /\ conn'[l] \in ConnRow /\ conn'[l].st = conn[l].st
               /\ conn'[l].client = conn[l].client /\ conn'[l].fresh = conn[l].fresh
               /\ conn'[l].addr = conn[l].addr /\ conn'[l].kept = (conn[l].addr = None)
               /\ conn'[l].sid = conn[l].sid
    BY <2>1 DEF ConnsTyped, ConnRow
  <2>3. ConnsTyped'
    BY <2>1, <2>2 DEF ConnsTyped
  <2>4. \A l \in Conn : Settled(l) /\ Resumed(l) /\ Detached(l)
    BY <2>2 DEF Settled, Resumed, Detached
  <2> QED
    BY <2>3, <2>4 DEF ConnsStep
<1>7. CASE UNCHANGED vars
  BY <1>q, <1>7 DEF vars
<1> QED
  BY <1>1, <1>2, <1>3, <1>4, <1>5, <1>6, <1>7 DEF Next
-----------------------------------------------------------------------------
(***************************************************************************)
(* Addresses                                                               *)
(***************************************************************************)

LEMMA AssignMoves ==
    [Next]_vars => UNCHANGED assign \/ Snapshot \/ \E k \in Conn : AllocateAddress(k)
<1> SUFFICES ASSUME [Next]_vars, ~Snapshot, \A k \in Conn : ~AllocateAddress(k)
             PROVE  UNCHANGED assign
  OBVIOUS
<1>1. ASSUME NEW k \in Conn, Handler(k) \/ Accountant(k) PROVE UNCHANGED assign
  BY <1>1 DEF Handler, Authorize, SetHWID, TouchDevice, AddDevice, CountSessions, AddSession,
     StartTunnel, TunnelFails, Accountant, Carry, EndTunnel, TouchSession, AddTraffic,
     CloseSession, rows
<1>2. ASSUME NEW a \in Admin, Administrator(a) PROVE UNCHANGED assign
  BY <1>2 DEF Administrator, PatchRead, PatchDevice, PatchLabel, PatchLimits, Revoke,
     RevokeList, RevokeClose, rows
<1>3. ASSUME NEW s \in Sid, FallsSilent(s) PROVE UNCHANGED assign
  BY <1>3 DEF FallsSilent
<1>4. CASE Sweep \/ Crash \/ CloseRow
  BY <1>4 DEF Sweep, Crash, CloseRow, rows
<1>5. CASE UNCHANGED vars
  BY <1>5 DEF vars, rows
<1> QED
  BY <1>1, <1>2, <1>3, <1>4, <1>5 DEF Next

LEMMA AllocatedOf ==
    ASSUME ConnsTyped, RowsTyped, NEW k \in Conn, AllocateAddress(k)
    PROVE  /\ conn[k].client \in Client /\ conn'[k].client = conn[k].client
           /\ conn'[k].addr = assign'[conn[k].client]
           /\ \/ UNCHANGED assign
              \/ /\ assign[conn[k].client] = None /\ Free # {}
                 /\ assign' = [assign EXCEPT ![conn[k].client] = FirstFree]
<1>1. conn[k].client \in Client /\ conn[k] \in ConnRow
  BY DEF AllocateAddress, At, ConnsTyped, ConnRow
<1>2. ASSUME NEW a, assignFor(k, a)
      PROVE  conn'[k].client = conn[k].client /\ conn'[k].addr = a
  BY <1>1, <1>2 DEF assignFor, ConnsTyped, ConnRow
<1>3. CASE /\ assign[conn[k].client] # None /\ assignFor(k, assign[conn[k].client])
           /\ UNCHANGED assign
  BY <1>1, <1>2, <1>3
<1>4. CASE /\ assign[conn[k].client] = None /\ Free # {} /\ assignFor(k, FirstFree)
           /\ assign' = [assign EXCEPT ![conn[k].client] = FirstFree]
  BY <1>1, <1>2, <1>4 DEF RowsTyped
<1> QED
  BY <1>3, <1>4 DEF AllocateAddress

LEMMA AddressStep ==
    ConnsTyped /\ RowsTyped /\ AddressesKept /\ ConnsStep /\ [Next]_vars => AddressesKept'
<1> SUFFICES ASSUME ConnsTyped, RowsTyped, AddressesKept, ConnsStep, [Next]_vars
             PROVE  AddressesKept'
  OBVIOUS
<1>1. \A l \in Conn : Settled(l) \/ AllocateAddress(l)
  BY DEF ConnsStep
<1>2. CASE UNCHANGED assign
  <2>1. ~Shared(assign)'
    BY <1>2 DEF AddressesKept, Shared
  <2>2. ASSUME NEW l \in Conn, conn'[l].addr # None, conn'[l].kept
        PROVE  conn'[l].addr = assign'[conn'[l].client]
    BY <1>1, <1>2, <2>2, AllocatedOf DEF Settled, AddressesKept
  <2> QED
    BY <2>1, <2>2 DEF AddressesKept
<1>3. CASE Snapshot
  <2>1. ~Shared(assign)'
    BY <1>3 DEF Snapshot, Shared
  <2>2. ASSUME NEW l \in Conn, conn'[l].addr # None
        PROVE  ~conn'[l].kept
    BY <1>3, <2>2 DEF Snapshot, ConnsTyped, ConnRow
  <2> QED
    BY <2>1, <2>2 DEF AddressesKept
<1>4. ASSUME NEW k \in Conn, AllocateAddress(k), ~UNCHANGED assign PROVE AddressesKept'
  <2> DEFINE c == conn[k].client
  <2>1. /\ c \in Client /\ assign[c] = None /\ Free # {}
        /\ assign' = [assign EXCEPT ![c] = FirstFree]
    BY <1>4, AllocatedOf
  <2>2. FirstFree \in Addr /\ \A d \in Client : assign[d] # FirstFree
    BY <2>1, FirstFreeFree DEF Taken
  <2>3. \A d \in Client : assign'[d] = IF d = c THEN FirstFree ELSE assign[d]
    BY <2>1 DEF RowsTyped
  <2> HIDE DEF c
  <2>4. ~Shared(assign)'
    BY <2>2, <2>3 DEF AddressesKept, Shared
  <2>5. ASSUME NEW l \in Conn, conn'[l].addr # None, conn'[l].kept
        PROVE  conn'[l].addr = assign'[conn'[l].client]
    <3>1. CASE Settled(l)
      <4>1. /\ conn'[l].addr = conn[l].addr /\ conn'[l].client = conn[l].client
            /\ conn[l].addr = assign[conn[l].client]
        BY <2>5, <3>1 DEF Settled, AddressesKept
      <4>2. conn[l].client \in Client
        BY <2>5, <4>1 DEF ConnsTyped, ConnRow
      <4> QED
        BY <2>1, <2>3, <2>5, <4>1, <4>2
    <3>2. CASE AllocateAddress(l)
      BY <3>2, AllocatedOf
    <3> QED
      BY <1>1, <3>1, <3>2
  <2> QED
    BY <2>4, <2>5 DEF AddressesKept
<1> QED
  BY <1>2, <1>3, <1>4, AssignMoves
-----------------------------------------------------------------------------
(***************************************************************************)
(* Edits                                                                   *)
(***************************************************************************)

\* Only PatchLimits writes limits.
LEMMA LimitsMove ==
    RowsTyped /\ [Next]_vars =>
       \/ \E a \in Admin : PatchLimits(a)
       \/ /\ UNCHANGED <<want, clash>>
          /\ \A c \in Client : /\ token'[c].devices = token[c].devices
                               /\ token'[c].sessions = token[c].sessions
<1> SUFFICES ASSUME RowsTyped, [Next]_vars, \A a \in Admin : ~PatchLimits(a)
             PROVE  /\ UNCHANGED <<want, clash>>
                    /\ \A c \in Client : /\ token'[c].devices = token[c].devices
                                         /\ token'[c].sessions = token[c].sessions
  OBVIOUS
<1> DEFINE Goal == /\ UNCHANGED <<want, clash>>
                   /\ \A c \in Client : /\ token'[c].devices = token[c].devices
                                        /\ token'[c].sessions = token[c].sessions
<1>q. ASSUME UNCHANGED <<token, want, clash>> PROVE Goal
  BY <1>q
<1>t. ASSUME UNCHANGED <<want, clash>>, NEW d \in Client, NEW b,
             token' = [token EXCEPT ![d].revoked = b]
      PROVE  Goal
  BY <1>t DEF RowsTyped, Token
<1> HIDE DEF Goal
<1>1. ASSUME NEW k \in Conn, Handler(k) \/ Accountant(k) PROVE Goal
  BY <1>1, <1>q DEF Handler, Authorize, SetHWID, AllocateAddress, TouchDevice, AddDevice,
     CountSessions, AddSession, StartTunnel, TunnelFails, Accountant, Carry, EndTunnel,
     TouchSession, AddTraffic, CloseSession, rows, history
<1>2. ASSUME NEW a \in Admin, Administrator(a) PROVE Goal
  <2>1. CASE PatchRead(a) \/ PatchDevice(a) \/ RevokeList(a) \/ RevokeClose(a)
    BY <1>q, <2>1 DEF PatchRead, PatchDevice, RevokeList, RevokeClose, rows, history
  <2>2. CASE PatchLabel(a)
    <3>1. UNCHANGED <<want, clash>>
      BY <2>2 DEF PatchLabel, history
    <3>2. UNCHANGED token \/ token' = [token EXCEPT ![admin[a].client].revoked = FALSE]
      BY <2>2 DEF PatchLabel
    <3>3. ASSUME token' = [token EXCEPT ![admin[a].client].revoked = FALSE] PROVE Goal
      <4>1. CASE admin[a].client \in Client
        BY <1>t, <3>1, <3>3, <4>1
      <4>2. CASE admin[a].client \notin Client
        BY <1>q, <3>1, <3>3, <4>2 DEF RowsTyped
      <4> QED
        BY <4>1, <4>2
    <3> QED
      BY <1>q, <3>1, <3>2, <3>3
  <2>3. CASE Revoke(a)
    <3>1. PICK c \in Client : token' = [token EXCEPT ![c].revoked = TRUE]
      BY <2>3 DEF Revoke
    <3>2. UNCHANGED <<want, clash>>
      BY <2>3 DEF Revoke, history
    <3> QED
      BY <1>t, <3>1, <3>2
  <2> QED
    BY <1>2, <2>1, <2>2, <2>3 DEF Administrator
<1>3. ASSUME NEW s \in Sid, FallsSilent(s) PROVE Goal
  BY <1>3, <1>q DEF FallsSilent, history
<1>4. CASE Sweep \/ Crash \/ Snapshot \/ CloseRow
  BY <1>4, <1>q DEF Sweep, Crash, Snapshot, CloseRow, rows, history
<1>5. CASE UNCHANGED vars
  BY <1>5, <1>q DEF vars, rows, history
<1> QED
  BY <1>1, <1>2, <1>3, <1>4, <1>5 DEF Next, Goal

LEMMA PatchLimitsOf ==
    ASSUME RowsTyped, CallsTyped, NEW a \in Admin, PatchLimits(a), Asks(admin[a].patch),
           NEW c, c = admin[a].client, NEW p, p = admin[a].patch, NEW cur, cur = admin[a].cur
    PROVE  /\ c \in Client
           /\ token' = [token EXCEPT ![c] = Limited(token[c], cur, p)]
           /\ conn' = Outdated(conn, c, None)
           /\ Excuse(c, {"devices", "sessions"}, token', devices, sessions)
           /\ UNCHANGED <<devices, sessions>>
           /\ \A d \in Client : d # c => clash'[d] = clash[d] /\ want'[d] = want[d]
           /\ ~clash'[c] => /\ ~clash[c]
                            /\ token[c].devices = cur.devices /\ token[c].sessions = cur.sessions
           /\ want'[c].devices = IF p.devices = None THEN want[c].devices ELSE p.devices
           /\ want'[c].sessions = IF p.sessions = None THEN want[c].sessions ELSE p.sessions
<1> DEFINE asked == [x \in {"devices", "sessions"} |->
                        IF p[x] = None THEN want[c][x] ELSE p[x]]
           unread == token[c].devices # cur.devices \/ token[c].sessions # cur.sessions
<1>1. c \in Client /\ p \in Patch
  BY CallOf DEF PatchLimits, Is
<1>2. want' = [want EXCEPT ![c].devices = asked.devices, ![c].sessions = asked.sessions]
  BY Zenon DEF PatchLimits
<1>3. /\ asked.devices = IF p.devices = None THEN want[c].devices ELSE p.devices
      /\ asked.sessions = IF p.sessions = None THEN want[c].sessions ELSE p.sessions
  OBVIOUS
<1>4. clash' = [clash EXCEPT ![c] = clash[c] \/ unread]
  BY Zenon DEF PatchLimits
<1>5. /\ token' = [token EXCEPT ![c] = Limited(token[c], cur, p)]
      /\ conn' = Outdated(conn, c, None)
      /\ Excuse(c, {"devices", "sessions"}, token', devices, sessions)
      /\ UNCHANGED <<devices, sessions>>
  BY DEF PatchLimits
<1> HIDE DEF asked
<1>6. /\ want'[c].devices = asked.devices /\ want'[c].sessions = asked.sessions
      /\ \A d \in Client : d # c => want'[d] = want[d]
  BY <1>1, <1>2 DEF RowsTyped, Token
<1>7. /\ \A d \in Client : d # c => clash'[d] = clash[d]
      /\ clash'[c] = (clash[c] \/ unread)
  BY <1>1, <1>4 DEF RowsTyped
<1> QED
  BY <1>1, <1>3, <1>5, <1>6, <1>7

LEMMA EditsStep ==
    RowsTyped /\ CallsTyped /\ EditsKept /\ [Next]_vars => EditsKept'
<1> SUFFICES ASSUME RowsTyped, CallsTyped, EditsKept, [Next]_vars
             PROVE  EditsKept'
  OBVIOUS
<1>1. CASE /\ UNCHANGED <<want, clash>>
           /\ \A c \in Client : /\ token'[c].devices = token[c].devices
                                /\ token'[c].sessions = token[c].sessions
  BY <1>1 DEF EditsKept
<1>2. ASSUME NEW a \in Admin, PatchLimits(a) PROVE EditsKept'
  <2>1. CASE ~Asks(admin[a].patch)
    BY <1>2, <2>1 DEF PatchLimits, EditsKept
  <2>2. CASE Asks(admin[a].patch)
    <3>1. PICK c, p, cur : c = admin[a].client /\ p = admin[a].patch /\ cur = admin[a].cur
      OBVIOUS
    <3>2. /\ c \in Client
          /\ token' = [token EXCEPT ![c] = Limited(token[c], cur, p)]
          /\ \A d \in Client : d # c => clash'[d] = clash[d] /\ want'[d] = want[d]
          /\ ~clash'[c] => /\ ~clash[c]
                           /\ token[c].devices = cur.devices /\ token[c].sessions = cur.sessions
          /\ want'[c].devices = IF p.devices = None THEN want[c].devices ELSE p.devices
          /\ want'[c].sessions = IF p.sessions = None THEN want[c].sessions ELSE p.sessions
      BY <1>2, <2>2, <3>1, PatchLimitsOf
    <3>3. /\ \A d \in Client : d # c => token'[d] = token[d]
          /\ token'[c].devices = IF p.devices = None THEN cur.devices ELSE p.devices
          /\ token'[c].sessions = IF p.sessions = None THEN cur.sessions ELSE p.sessions
      BY <3>2 DEF RowsTyped, Limited, Token
    <3>4. ASSUME NEW d \in Client, ~clash'[d]
          PROVE  token'[d].devices = want'[d].devices /\ token'[d].sessions = want'[d].sessions
      <4>1. CASE d # c
        BY <3>2, <3>3, <3>4, <4>1 DEF EditsKept
      <4>2. CASE d = c
        BY <3>2, <3>3, <3>4, <4>2 DEF EditsKept
      <4> QED
        BY <4>1, <4>2
    <3> QED
      BY <3>4 DEF EditsKept
  <2> QED
    BY <2>1, <2>2
<1> QED
  BY <1>1, <1>2, LimitsMove
-----------------------------------------------------------------------------
(***************************************************************************)
(* Limits                                                                  *)
(***************************************************************************)

\* A step leaves a client the limits it had, and no more rows.
SameRoom(c) ==
    /\ token'[c].devices = token[c].devices /\ token'[c].sessions = token[c].sessions
    /\ MachinesOf(devices', c) \subseteq MachinesOf(devices, c)
    /\ SessionsOf(sessions', c) \subseteq SessionsOf(sessions, c)

LEMMA BelowStays ==
    ASSUME NEW n \in Nat, NEW m \in Nat, NEW limit \in Nat, m <= n, Below(n, limit)
    PROVE  Below(m, limit)
BY DEF Below

LEMMA RowLimits ==
    ASSUME RowsTyped, NEW c \in Client
    PROVE  token[c] \in Token /\ token[c].devices \in Nat /\ token[c].sessions \in Nat
<1>1. token[c] \in Token
  BY DEF RowsTyped
<1> QED
  BY <1>1, Constants DEF Token

\* Where there was room for one more and no more came, there is.
LEMMA RoomStays ==
    ASSUME RowsTyped, NEW c \in Client, SameRoom(c)
    PROVE  /\ Below(Cardinality(MachinesOf(devices, c)), token[c].devices) =>
                Below(Cardinality(MachinesOf(devices', c)), token'[c].devices)
           /\ Below(Cardinality(SessionsOf(sessions, c)), token[c].sessions) =>
                Below(Cardinality(SessionsOf(sessions', c)), token'[c].sessions)
<1>1. /\ Cardinality(MachinesOf(devices', c)) <= Cardinality(MachinesOf(devices, c))
      /\ Cardinality(SessionsOf(sessions', c)) <= Cardinality(SessionsOf(sessions, c))
  BY RowsCount, FS_Subset DEF SameRoom
<1>2. /\ Cardinality(MachinesOf(devices', c)) \in Nat /\ Cardinality(MachinesOf(devices, c)) \in Nat
      /\ Cardinality(SessionsOf(sessions', c)) \in Nat /\ Cardinality(SessionsOf(sessions, c)) \in Nat
  BY RowsCount
<1>3. token[c].devices \in Nat /\ token[c].sessions \in Nat
  BY RowLimits
<1> QED
  BY <1>1, <1>2, <1>3, BelowStays DEF SameRoom

LEMMA SameLimits ==
    ASSUME RowsTyped, RowsTyped', NEW c \in Client, SameRoom(c)
    PROVE  TooMany(c, token', devices', sessions') \subseteq TooMany(c, token, devices, sessions)
<1>1. token[c] \in Token /\ token'[c] \in Token
  BY DEF RowsTyped
<1> QED
  BY <1>1, FewerRows DEF SameRoom

\* What an INSERT or an edit of client c does to the others, and to it.
Touches(c, cause) ==
    /\ \A d \in Client : d # c => SameRoom(d)
    /\ over' = [over EXCEPT ![c] = (@ \cup cause) \cap TooMany(c, token', devices', sessions')]
    /\ \A l \in Conn : conn'[l].st \in {"add device", "add session"} /\ conn'[l].fresh =>
                         conn'[l].client # c

LEMMA AddDeviceTouches ==
    ASSUME RowsTyped, ConnsTyped, NEW k \in Conn, AddDevice(k)
    PROVE  /\ conn[k].client \in Client
           /\ Touches(conn[k].client, IF conn[k].fresh THEN {} ELSE {"devices"})
           /\ UNCHANGED <<token, sessions>>
           /\ MachinesOf(devices', conn[k].client) \subseteq
                MachinesOf(devices, conn[k].client) \cup {k}
<1> DEFINE c == conn[k].client
           cs == Outdated(conn, c, k)
<1>1. c \in Client /\ conn[k].st = "add device"
  BY DEF AddDevice, At, ConnsTyped, ConnRow
<1>2. /\ UNCHANGED <<token, sessions>>
      /\ devices' = [devices EXCEPT ![c] = [devices[c] EXCEPT ![k] = "on"]]
      /\ over' = [over EXCEPT ![c] = (over[c] \cup (IF conn[k].fresh THEN {} ELSE {"devices"}))
                                        \cap TooMany(c, token', devices', sessions')]
      /\ conn' = [cs EXCEPT ![k] = [[cs[k] EXCEPT !.st = "session"] EXCEPT !.fresh = TRUE]]
  BY DEF AddDevice, Excuse
<1>3. /\ Aged(cs)
      /\ \A l \in Conn : (/\ l # k /\ conn[l].client = c
                          /\ conn[l].st \in {"add device", "add session"}) =>
                              cs[l].fresh = FALSE
  BY OutdatedOf
<1> HIDE DEF cs
<1>4. ASSUME NEW l \in Conn, conn'[l].st \in {"add device", "add session"}, conn'[l].fresh
      PROVE  conn'[l].client # c
  <2>1. cs \in [Conn -> ConnRow]
    BY <1>3 DEF Aged
  <2>2. conn'[k].st = "session"
    BY <1>2, <2>1 DEF ConnRow
  <2>3. l # k /\ conn'[l] = cs[l]
    BY <1>2, <1>4, <2>1, <2>2
  <2>4. /\ cs[l].st = conn[l].st /\ cs[l].client = conn[l].client
        /\ cs[l].fresh => conn[l].fresh
    BY <1>3 DEF Aged
  <2> QED
    BY <1>3, <1>4, <2>3, <2>4
<1> HIDE DEF c
<1>5. ASSUME NEW d \in Client, d # c PROVE SameRoom(d)
  <2>1. devices'[d] = devices[d]
    BY <1>2, <1>5 DEF RowsTyped
  <2> QED
    BY <1>2, <2>1 DEF SameRoom, MachinesOf
<1>6. MachinesOf(devices', c) \subseteq MachinesOf(devices, c) \cup {k}
  BY <1>1, <1>2 DEF RowsTyped, MachinesOf
<1> QED
  BY <1>1, <1>2, <1>4, <1>5, <1>6 DEF Touches, c

LEMMA AddSessionTouches ==
    ASSUME RowsTyped, ConnsTyped, NEW k \in Conn, AddSession(k)
    PROVE  /\ conn[k].client \in Client
           /\ Touches(conn[k].client, IF conn[k].fresh THEN {} ELSE {"sessions"})
           /\ UNCHANGED <<token, devices>>
           /\ SessionsOf(sessions', conn[k].client) \subseteq
                SessionsOf(sessions, conn[k].client) \cup {newSessionID}
<1> DEFINE c == conn[k].client
           cs == Outdated(conn, c, k)
<1>1. c \in Client /\ conn[k].st = "add session"
  BY DEF AddSession, At, ConnsTyped, ConnRow
<1>2. /\ UNCHANGED <<token, devices>>
      /\ sessions' = [sessions EXCEPT ![newSessionID] = c]
      /\ over' = [over EXCEPT ![c] = (over[c] \cup (IF conn[k].fresh THEN {} ELSE {"sessions"}))
                                        \cap TooMany(c, token', devices', sessions')]
      /\ conn' = [cs EXCEPT ![k] = [[[cs[k] EXCEPT !.st = "start"] EXCEPT !.fresh = TRUE]
                                             EXCEPT !.sid = newSessionID]]
  BY DEF AddSession, Excuse
<1>3. /\ Aged(cs)
      /\ \A l \in Conn : (/\ l # k /\ conn[l].client = c
                          /\ conn[l].st \in {"add device", "add session"}) =>
                              cs[l].fresh = FALSE
  BY OutdatedOf
<1> HIDE DEF cs
<1>4. ASSUME NEW l \in Conn, conn'[l].st \in {"add device", "add session"}, conn'[l].fresh
      PROVE  conn'[l].client # c
  <2>1. cs \in [Conn -> ConnRow]
    BY <1>3 DEF Aged
  <2>2. conn'[k].st = "start"
    BY <1>2, <2>1 DEF ConnRow
  <2>3. l # k /\ conn'[l] = cs[l]
    BY <1>2, <1>4, <2>1, <2>2
  <2>4. /\ cs[l].st = conn[l].st /\ cs[l].client = conn[l].client
        /\ cs[l].fresh => conn[l].fresh
    BY <1>3 DEF Aged
  <2> QED
    BY <1>3, <1>4, <2>3, <2>4
<1> HIDE DEF c
<1>5. ASSUME NEW d \in Client, d # c PROVE SameRoom(d)
  <2>1. SessionsOf(sessions', d) \subseteq SessionsOf(sessions, d)
    BY <1>2, <1>5 DEF RowsTyped, SessionsOf
  <2> QED
    BY <1>2, <2>1 DEF SameRoom
<1>6. SessionsOf(sessions', c) \subseteq SessionsOf(sessions, c) \cup {newSessionID}
  BY <1>2 DEF RowsTyped, SessionsOf
<1> QED
  BY <1>1, <1>2, <1>4, <1>5, <1>6 DEF Touches, c

LEMMA PatchDeviceTouches ==
    ASSUME RowsTyped, CallsTyped, ConnsTyped, NEW a \in Admin, PatchDevice(a)
    PROVE  \/ UNCHANGED <<token, devices, sessions, over>>
           \/ /\ admin[a].client \in Client
              /\ Touches(admin[a].client, {"devices"}) /\ UNCHANGED <<token, sessions>>
<1> DEFINE c == admin[a].client
<1>1. c \in Client
  BY CallOf DEF PatchDevice, Is
<1>2. CASE UNCHANGED <<devices, conn, over>>
  BY <1>2 DEF PatchDevice
<1>3. CASE ~UNCHANGED <<devices, conn, over>>
  <2>1. PICK k, on : devices' = [devices EXCEPT ![c][k] = on]
    BY <1>3 DEF PatchDevice
  <2>2. /\ UNCHANGED <<token, sessions>>
        /\ over' = [over EXCEPT ![c] = (over[c] \cup {"devices"})
                                          \cap TooMany(c, token', devices', sessions')]
        /\ conn' = Outdated(conn, c, None)
    BY <1>3 DEF PatchDevice, Excuse
  <2>3. \A l \in Conn : conn'[l].st \in {"add device", "add session"} /\ conn'[l].fresh =>
                          conn'[l].client # c
    <3>1. /\ Aged(conn')
          /\ \A l \in Conn : (/\ l # None /\ conn[l].client = c
                              /\ conn[l].st \in {"add device", "add session"}) =>
                                  conn'[l].fresh = FALSE
      BY <2>2, OutdatedOf
    <3> QED
      BY <3>1, Constants DEF Aged
  <2> HIDE DEF c
  <2>4. ASSUME NEW d \in Client, d # c PROVE SameRoom(d)
    <3>1. devices'[d] = devices[d]
      BY <2>1, <2>4 DEF RowsTyped
    <3> QED
      BY <2>2, <3>1 DEF SameRoom, MachinesOf
  <2> QED
    BY <1>1, <2>2, <2>3, <2>4 DEF Touches, c
<1> QED
  BY <1>2, <1>3

LEMMA PatchLimitsTouches ==
    ASSUME RowsTyped, CallsTyped, ConnsTyped, NEW a \in Admin, PatchLimits(a)
    PROVE  \/ UNCHANGED <<token, devices, sessions, over>>
           \/ /\ admin[a].client \in Client
              /\ Touches(admin[a].client, {"devices", "sessions"})
<1>1. CASE ~Asks(admin[a].patch)
  BY <1>1 DEF PatchLimits
<1>2. CASE Asks(admin[a].patch)
  <2>1. PICK c, p, cur : c = admin[a].client /\ p = admin[a].patch /\ cur = admin[a].cur
    OBVIOUS
  <2>2. /\ c \in Client
        /\ token' = [token EXCEPT ![c] = Limited(token[c], cur, p)]
        /\ conn' = Outdated(conn, c, None)
        /\ Excuse(c, {"devices", "sessions"}, token', devices, sessions)
        /\ UNCHANGED <<devices, sessions>>
    BY <1>2, <2>1, PatchLimitsOf
  <2>3. \A l \in Conn : conn'[l].st \in {"add device", "add session"} /\ conn'[l].fresh =>
                          conn'[l].client # c
    <3>1. /\ Aged(conn')
          /\ \A l \in Conn : (/\ l # None /\ conn[l].client = c
                              /\ conn[l].st \in {"add device", "add session"}) =>
                                  conn'[l].fresh = FALSE
      BY <2>2, OutdatedOf
    <3> QED
      BY <3>1, Constants DEF Aged
  <2>4. ASSUME NEW d \in Client, d # c PROVE SameRoom(d)
    <3>1. token'[d] = token[d]
      BY <2>2, <2>4 DEF RowsTyped
    <3> QED
      BY <2>2, <3>1 DEF SameRoom
  <2>5. over' = [over EXCEPT ![c] = (over[c] \cup {"devices", "sessions"})
                                       \cap TooMany(c, token', devices', sessions')]
    BY <2>2 DEF Excuse
  <2> QED
    BY <2>1, <2>2, <2>3, <2>4, <2>5 DEF Touches
<1> QED
  BY <1>1, <1>2

LEMMA DeleteLess ==
    ASSUME RowsTyped, NEW ss, Delete(ss), UNCHANGED <<token, devices>>
    PROVE  /\ \A c \in Client : SameRoom(c)
           /\ \A c \in Client : over'[c] = over[c] \cap TooMany(c, token', devices', sessions')
<1>1. sessions' = Dropped(ss)
  BY DEF Delete
<1>2. \A c \in Client : SessionsOf(sessions', c) \subseteq SessionsOf(sessions, c)
  BY <1>1, Constants DEF Dropped, SessionsOf
<1>3. over' = [c \in Client |-> over[c] \cap TooMany(c, token, devices, sessions')]
  BY <1>1 DEF Delete
<1> QED
  BY <1>2, <1>3 DEF SameRoom

\* Rows and limits change in one of these ways.
LEMMA RowsMove ==
    ASSUME RowsTyped, CallsTyped, ConnsTyped, [Next]_vars
    PROVE  \/ UNCHANGED over /\ \A c \in Client : SameRoom(c)
           \/ \E ss : Delete(ss) /\ UNCHANGED <<token, devices>>
           \/ \E k \in Conn : AddDevice(k) \/ AddSession(k)
           \/ \E a \in Admin : PatchDevice(a) \/ PatchLimits(a)
<1> DEFINE Goal == \/ UNCHANGED over /\ \A c \in Client : SameRoom(c)
                   \/ \E ss : Delete(ss) /\ UNCHANGED <<token, devices>>
<1> SUFFICES ASSUME \A k \in Conn : ~AddDevice(k) /\ ~AddSession(k),
                    \A a \in Admin : ~PatchDevice(a) /\ ~PatchLimits(a)
             PROVE  Goal
  OBVIOUS
<1>q. ASSUME UNCHANGED <<token, devices, sessions, over>> PROVE Goal
  BY <1>q DEF SameRoom
<1>1. ASSUME NEW k \in Conn, Handler(k) PROVE Goal
  BY <1>1, <1>q DEF Handler, Authorize, SetHWID, AllocateAddress, TouchDevice,
     CountSessions, StartTunnel, TunnelFails, rows, history
<1>2. ASSUME NEW k \in Conn, Accountant(k) PROVE Goal
  <2>1. CASE CloseSession(k)
    <3>1. CASE Delete({conn[k].sid})
      BY <2>1, <3>1 DEF CloseSession
    <3>2. CASE UNCHANGED <<sessions, silent, over>>
      BY <1>q, <2>1, <3>2 DEF CloseSession
    <3> QED
      BY <2>1, <3>1, <3>2 DEF CloseSession
  <2>2. CASE ~CloseSession(k)
    BY <1>2, <1>q, <2>2 DEF Accountant, Carry, EndTunnel, TouchSession, AddTraffic, rows,
       history
  <2> QED
    BY <2>1, <2>2
<1>3. ASSUME NEW a \in Admin, Administrator(a) PROVE Goal
  <2>1. CASE PatchRead(a) \/ RevokeList(a)
    BY <1>q, <2>1 DEF PatchRead, RevokeList, rows, history
  <2>2. CASE PatchLabel(a) \/ Revoke(a)
    <3>1. UNCHANGED <<devices, sessions, over, want, clash>>
      BY <2>2 DEF PatchLabel, Revoke, history
    <3>2. \A c \in Client : /\ token'[c].devices = token[c].devices
                            /\ token'[c].sessions = token[c].sessions
      <4>1. CASE UNCHANGED token
        BY <4>1
      <4>2. ASSUME NEW d, NEW b, token' = [token EXCEPT ![d].revoked = b]
            PROVE  \A c \in Client : /\ token'[c].devices = token[c].devices
                                     /\ token'[c].sessions = token[c].sessions
        BY <4>2 DEF RowsTyped, Token
      <4> QED
        BY <2>2, <4>1, <4>2 DEF PatchLabel, Revoke
    <3> QED
      BY <3>1, <3>2 DEF SameRoom
  <2>3. CASE RevokeClose(a)
    <3>1. CASE UNCHANGED <<sessions, silent, over>>
      BY <1>q, <2>3, <3>1 DEF RevokeClose
    <3>2. CASE ~UNCHANGED <<sessions, silent, over>>
      BY <2>3, <3>2 DEF RevokeClose
    <3> QED
      BY <3>1, <3>2
  <2> QED
    BY <1>3, <2>1, <2>2, <2>3 DEF Administrator
<1>4. ASSUME NEW s \in Sid, FallsSilent(s) PROVE Goal
  BY <1>4, <1>q DEF FallsSilent, history
<1>5. CASE Sweep \/ CloseRow
  BY <1>5 DEF Sweep, CloseRow
<1>6. CASE Crash \/ Snapshot
  BY <1>6, <1>q DEF Crash, Snapshot, rows, history
<1>7. CASE UNCHANGED vars
  BY <1>7, <1>q DEF vars, rows, history
<1> QED
  BY <1>1, <1>2, <1>3, <1>4, <1>5, <1>6, <1>7 DEF Next

\* A handler goes on to insert a row only where it has read that there is room.
LEMMA TouchDeviceReads ==
    ASSUME ConnsTyped, NEW k \in Conn, TouchDevice(k)
    PROVE  /\ conn'[k].client = conn[k].client /\ UNCHANGED <<token, devices>>
           /\ conn'[k].st # "add session"
           /\ conn'[k].st = "add device" =>
                Below(Cardinality(MachinesOf(devices, conn[k].client)),
                      token[conn[k].client].devices)
<1> DEFINE room == Below(Cardinality(MachinesOf(devices, conn[k].client)),
                         token[conn[k].client].devices)
           new == conn[k].hwid /\ devices[conn[k].client][k] = "none"
<1>1. conn' = [conn EXCEPT ![k].hwid = FALSE, ![k].fresh = TRUE,
                           ![k].st = IF new /\ room THEN "add device" ELSE "session"]
  BY DEF TouchDevice
<1>2. UNCHANGED <<token, devices>>
  BY DEF TouchDevice, rows
<1> HIDE DEF room, new
<1>3. /\ conn'[k].client = conn[k].client
      /\ conn'[k].st = IF new /\ room THEN "add device" ELSE "session"
  BY <1>1 DEF ConnsTyped, ConnRow
<1> QED
  BY <1>2, <1>3 DEF room

LEMMA CountSessionsReads ==
    ASSUME ConnsTyped, NEW k \in Conn, CountSessions(k)
    PROVE  /\ conn'[k].client = conn[k].client /\ UNCHANGED <<token, sessions>>
           /\ conn'[k].st # "add device"
           /\ conn'[k].st = "add session" =>
                Below(Cardinality(SessionsOf(sessions, conn[k].client)),
                      token[conn[k].client].sessions)
<1> DEFINE room == Below(Cardinality(SessionsOf(sessions, conn[k].client)),
                         token[conn[k].client].sessions)
<1>1. conn' = [conn EXCEPT ![k].fresh = TRUE,
                           ![k].st = IF room THEN "add session" ELSE "start"]
  BY DEF CountSessions
<1>2. UNCHANGED <<token, sessions>>
  BY DEF CountSessions, rows
<1> HIDE DEF room
<1>3. /\ conn'[k].client = conn[k].client
      /\ conn'[k].st = IF room THEN "add session" ELSE "start"
  BY <1>1 DEF ConnsTyped, ConnRow
<1> QED
  BY <1>2, <1>3 DEF room

LEMMA RoomStep ==
    ASSUME RowsTyped, CallsTyped, ConnsTyped, RoomRead, ConnsStep, [Next]_vars
    PROVE  RoomRead'
<1> SUFFICES ASSUME NEW l \in Conn, NEW c, c = conn'[l].client, conn'[l].fresh,
                    conn'[l].st \in {"add device", "add session"}
             PROVE  /\ conn'[l].st = "add device" =>
                          Below(Cardinality(MachinesOf(devices', c)), token'[c].devices)
                    /\ conn'[l].st = "add session" =>
                          Below(Cardinality(SessionsOf(sessions', c)), token'[c].sessions)
  BY DEF RoomRead
<1>1. CASE TouchDevice(l)
  BY <1>1, TouchDeviceReads
<1>2. CASE CountSessions(l)
  BY <1>2, CountSessionsReads
<1>3. CASE Resumed(l)
  <2>1. conn[l].fresh /\ conn[l].st = conn'[l].st /\ conn[l].client = c
    BY <1>3 DEF Resumed
  <2>2. c \in Client
    BY <2>1 DEF ConnsTyped, ConnRow
  <2>3. /\ conn[l].st = "add device" =>
             Below(Cardinality(MachinesOf(devices, c)), token[c].devices)
        /\ conn[l].st = "add session" =>
             Below(Cardinality(SessionsOf(sessions, c)), token[c].sessions)
    BY <2>1 DEF RoomRead
  <2>4. ASSUME NEW d, NEW cause, Touches(d, cause) PROVE SameRoom(c)
    BY <2>2, <2>4 DEF Touches
  <2>5. SameRoom(c)
    <3>1. ASSUME NEW ss, Delete(ss), UNCHANGED <<token, devices>> PROVE SameRoom(c)
      BY <2>2, <3>1, DeleteLess
    <3>2. ASSUME NEW k \in Conn, AddDevice(k) \/ AddSession(k) PROVE SameRoom(c)
      <4>1. CASE AddDevice(k)
        BY <2>4, <4>1, AddDeviceTouches
      <4>2. CASE AddSession(k)
        BY <2>4, <4>2, AddSessionTouches
      <4> QED
        BY <3>2, <4>1, <4>2
    <3>3. ASSUME NEW a \in Admin, PatchDevice(a) \/ PatchLimits(a) PROVE SameRoom(c)
      <4>1. CASE UNCHANGED <<token, devices, sessions, over>>
        BY <4>1 DEF SameRoom
      <4>2. CASE ~UNCHANGED <<token, devices, sessions, over>>
        BY <2>4, <3>3, <4>2, PatchDeviceTouches, PatchLimitsTouches
      <4> QED
        BY <4>1, <4>2
    <3> QED
      BY <2>2, <3>1, <3>2, <3>3, RowsMove
  <2> QED
    BY <2>1, <2>2, <2>3, <2>5, RoomStays
<1> QED
  BY <1>1, <1>2, <1>3 DEF ConnsStep

\* Where a client's rows come to be too many, there is a cause.
LEMMA TouchesLimit ==
    ASSUME RowsTyped, RowsTyped', LimitKept, NEW c \in Client, NEW cause, Touches(c, cause),
           TooMany(c, token', devices', sessions')
              \subseteq TooMany(c, token, devices, sessions) \cup cause
    PROVE  LimitKept'
<1>1. over \in [Client -> SUBSET {"devices", "sessions"}]
  BY DEF RowsTyped
<1>2. /\ over'[c] = (over[c] \cup cause) \cap TooMany(c, token', devices', sessions')
      /\ \A d \in Client : d # c => over'[d] = over[d]
  BY <1>1 DEF Touches
<1>3. ASSUME NEW d \in Client
      PROVE  TooMany(d, token', devices', sessions') \subseteq over'[d]
  <2>1. CASE d = c
    BY <1>2, <2>1 DEF LimitKept
  <2>2. CASE d # c
    BY <1>2, <2>2, SameLimits DEF Touches, LimitKept
  <2> QED
    BY <2>1, <2>2
<1> QED
  BY <1>3 DEF LimitKept

LEMMA LimitStep ==
    ASSUME RowsTyped, RowsTyped', CallsTyped, ConnsTyped, RoomRead, LimitKept, [Next]_vars
    PROVE  LimitKept'
<1>1. CASE UNCHANGED over /\ \A c \in Client : SameRoom(c)
  BY <1>1, SameLimits DEF LimitKept
<1>2. ASSUME NEW ss, Delete(ss), UNCHANGED <<token, devices>> PROVE LimitKept'
  BY <1>2, DeleteLess, SameLimits DEF LimitKept
<1>3. ASSUME NEW k \in Conn, AddDevice(k) PROVE LimitKept'
  <2>1. PICK c, cause : c = conn[k].client /\ cause = IF conn[k].fresh THEN {} ELSE {"devices"}
    OBVIOUS
  <2>2. /\ c \in Client /\ Touches(c, cause) /\ UNCHANGED <<token, sessions>>
        /\ MachinesOf(devices', c) \subseteq MachinesOf(devices, c) \cup {k}
    BY <1>3, <2>1, AddDeviceTouches
  <2>3. conn[k].fresh => Below(Cardinality(MachinesOf(devices, c)), token[c].devices)
    BY <1>3, <2>1 DEF RoomRead, AddDevice, At
  <2>4. conn[k].fresh => "devices" \notin TooMany(c, token', devices', sessions')
    <3>1. Cardinality(MachinesOf(devices', c)) <= Cardinality(MachinesOf(devices, c)) + 1
      BY <2>2, RowsCount, OneMoreElement
    <3>2. Cardinality(MachinesOf(devices', c)) \in Nat /\ Cardinality(MachinesOf(devices, c)) \in Nat
      BY RowsCount
    <3>3. token[c].devices \in Nat
      BY <2>2, RowLimits
    <3>4. conn[k].fresh => ~(/\ token[c].devices > 0
                             /\ token[c].devices < Cardinality(MachinesOf(devices', c)))
      BY <2>3, <3>1, <3>2, <3>3, OneMore
    <3> QED
      BY <2>2, <3>4, TooManyOf
  <2>5. "sessions" \in TooMany(c, token', devices', sessions') =>
           "sessions" \in TooMany(c, token, devices, sessions)
    BY <2>2, TooManyOf
  <2>6. TooMany(c, token', devices', sessions')
           \subseteq TooMany(c, token, devices, sessions) \cup cause
    BY <2>1, <2>4, <2>5, TooManyOf
  <2> QED
    BY <2>2, <2>6, TouchesLimit
<1>4. ASSUME NEW k \in Conn, AddSession(k) PROVE LimitKept'
  <2>1. PICK c, cause : c = conn[k].client /\ cause = IF conn[k].fresh THEN {} ELSE {"sessions"}
    OBVIOUS
  <2>2. /\ c \in Client /\ Touches(c, cause) /\ UNCHANGED <<token, devices>>
        /\ SessionsOf(sessions', c) \subseteq SessionsOf(sessions, c) \cup {newSessionID}
    BY <1>4, <2>1, AddSessionTouches
  <2>3. conn[k].fresh => Below(Cardinality(SessionsOf(sessions, c)), token[c].sessions)
    BY <1>4, <2>1 DEF RoomRead, AddSession, At
  <2>4. conn[k].fresh => "sessions" \notin TooMany(c, token', devices', sessions')
    <3>1. Cardinality(SessionsOf(sessions', c)) <= Cardinality(SessionsOf(sessions, c)) + 1
      BY <2>2, RowsCount, OneMoreElement
    <3>2. Cardinality(SessionsOf(sessions', c)) \in Nat /\ Cardinality(SessionsOf(sessions, c)) \in Nat
      BY RowsCount
    <3>3. token[c].sessions \in Nat
      BY <2>2, RowLimits
    <3>4. conn[k].fresh => ~(/\ token[c].sessions > 0
                             /\ token[c].sessions < Cardinality(SessionsOf(sessions', c)))
      BY <2>3, <3>1, <3>2, <3>3, OneMore
    <3> QED
      BY <2>2, <3>4, TooManyOf
  <2>5. "devices" \in TooMany(c, token', devices', sessions') =>
           "devices" \in TooMany(c, token, devices, sessions)
    BY <2>2, TooManyOf
  <2>6. TooMany(c, token', devices', sessions')
           \subseteq TooMany(c, token, devices, sessions) \cup cause
    BY <2>1, <2>4, <2>5, TooManyOf
  <2> QED
    BY <2>2, <2>6, TouchesLimit
<1>5. CASE UNCHANGED <<token, devices, sessions, over>>
  BY <1>5 DEF LimitKept
<1>6. ASSUME NEW a \in Admin, PatchDevice(a) PROVE LimitKept'
  <2>1. CASE ~UNCHANGED <<token, devices, sessions, over>>
    <3>1. PICK c : /\ c \in Client /\ Touches(c, {"devices"})
                   /\ UNCHANGED <<token, sessions>>
      BY <1>6, <2>1, PatchDeviceTouches
    <3>2. "sessions" \in TooMany(c, token', devices', sessions') =>
             "sessions" \in TooMany(c, token, devices, sessions)
      BY <3>1, TooManyOf
    <3>3. TooMany(c, token', devices', sessions')
             \subseteq TooMany(c, token, devices, sessions) \cup {"devices"}
      BY <3>2, TooManyOf
    <3> QED
      BY <3>1, <3>3, TouchesLimit
  <2> QED
    BY <1>5, <2>1
<1>7. ASSUME NEW a \in Admin, PatchLimits(a) PROVE LimitKept'
  <2>1. CASE ~UNCHANGED <<token, devices, sessions, over>>
    <3>1. PICK c : c \in Client /\ Touches(c, {"devices", "sessions"})
      BY <1>7, <2>1, PatchLimitsTouches
    <3>2. TooMany(c, token', devices', sessions')
             \subseteq TooMany(c, token, devices, sessions) \cup {"devices", "sessions"}
      BY TooManyOf
    <3> QED
      BY <3>1, <3>2, TouchesLimit
  <2> QED
    BY <1>5, <2>1
<1> QED
  BY <1>1, <1>2, <1>3, <1>4, <1>6, <1>7, RowsMove
-----------------------------------------------------------------------------
(***************************************************************************)
(* Traffic                                                                 *)
(***************************************************************************)

SameCounts(l) ==
    /\ conn'[l].st = conn[l].st /\ conn'[l].client = conn[l].client
    /\ conn'[l].sid = conn[l].sid /\ conn'[l].total = conn[l].total
    /\ conn'[l].last = conn[l].last /\ conn'[l].writing = conn[l].writing

SameAmounts == UNCHANGED <<carried, traffic, forgotten>>

LEMMA PendingNext ==
    ASSUME ConnsTyped', NEW c
    PROVE  /\ [k \in Conn |-> Owed(conn'[k], c)] \in [Conn -> Int]
           /\ PendingOf(c)' = SumFunction([k \in Conn |-> Owed(conn'[k], c)])
<1>1. \A k \in Conn : /\ conn'[k] \in ConnRow
                      /\ Owed(conn'[k], c) = IF conn'[k].client = c THEN Pending(k)' ELSE 0
  BY DEF ConnsTyped, Owed, Pending, Unwritten
<1>2. [k \in Conn |-> Owed(conn'[k], c)]
        = [k \in Conn |-> IF conn'[k].client = c THEN Pending(k)' ELSE 0]
  BY <1>1
<1>3. PendingOf(c)' = SumFunction([k \in Conn |-> Owed(conn'[k], c)])
  BY <1>2, Zenon DEF PendingOf
<1> QED
  BY <1>1, <1>3, OwedOf

LEMMA PendingMoves ==
    ASSUME ConnsTyped, ConnsTyped', NEW k \in Conn, \A l \in Conn : l # k => SameCounts(l), NEW c
    PROVE  /\ PendingOf(c) \in Int
           /\ PendingOf(c)' = PendingOf(c) - Owed(conn[k], c) + Owed(conn'[k], c)
<1> DEFINE f == [l \in Conn |-> Owed(conn[l], c)]
           h == [l \in Conn |-> Owed(conn'[l], c)]
<1>1. /\ f \in [Conn -> Int] /\ PendingOf(c) = SumFunction(f)
      /\ h \in [Conn -> Int] /\ PendingOf(c)' = SumFunction(h)
  BY PendingIs, PendingNext
<1>2. \A l \in Conn : l # k => h[l] = f[l]
  BY DEF SameCounts, Owed
<1>3. f[k] = Owed(conn[k], c) /\ h[k] = Owed(conn'[k], c)
  OBVIOUS
<1>4. IsFiniteSet(Conn)
  BY Constants
<1> HIDE DEF f, h
<1>5. SumFunction(f) \in Int
  BY <1>1, <1>4, SumType
<1>6. SumFunction(h) = SumFunction(f) - f[k] + h[k]
  BY <1>1, <1>2, <1>4, OneTerm
<1> QED
  BY <1>1, <1>3, <1>5, <1>6

\* The books balance when one connection's share changes by what is written elsewhere.
LEMMA Balanced ==
    ASSUME ConnsTyped, ConnsTyped', AmountsTyped, AmountsTyped', CountsKept, TrafficAccounted,
           NEW k \in Conn, \A l \in Conn : l # k => SameCounts(l), Tallied(conn'[k]),
           \A c \in Client : carried'[c] - traffic'[c] - forgotten'[c] - Owed(conn'[k], c)
                               = carried[c] - traffic[c] - forgotten[c] - Owed(conn[k], c)
    PROVE  CountsKept' /\ TrafficAccounted'
<1>1. CountsKept'
  <2>1. ASSUME NEW l \in Conn PROVE Tallied(conn'[l])
    BY DEF CountsKept, Tallied, SameCounts
  <2> QED
    BY <2>1 DEF CountsKept
<1>2. ASSUME NEW c \in Client
      PROVE  carried'[c] = traffic'[c] + forgotten'[c] + PendingOf(c)'
  <2>1. /\ PendingOf(c) \in Int
        /\ PendingOf(c)' = PendingOf(c) - Owed(conn[k], c) + Owed(conn'[k], c)
    BY PendingMoves
  <2>2. conn[k] \in ConnRow /\ conn'[k] \in ConnRow
    BY DEF ConnsTyped
  <2>3. Owed(conn[k], c) \in Int /\ Owed(conn'[k], c) \in Int
    BY <2>2, OwedOf
  <2>4. /\ carried[c] \in Nat /\ traffic[c] \in Nat /\ forgotten[c] \in Nat
        /\ carried'[c] \in Nat /\ traffic'[c] \in Nat /\ forgotten'[c] \in Nat
    BY DEF AmountsTyped
  <2>5. carried[c] = traffic[c] + forgotten[c] + PendingOf(c)
    BY DEF TrafficAccounted
  <2>6. carried'[c] - traffic'[c] - forgotten'[c] - Owed(conn'[k], c)
          = carried[c] - traffic[c] - forgotten[c] - Owed(conn[k], c)
    OBVIOUS
  <2> QED
    BY <2>1, <2>3, <2>4, <2>5, <2>6
<1>3. TrafficAccounted'
  BY <1>2 DEF TrafficAccounted
<1> QED
  BY <1>1, <1>3

LEMMA NothingCounted ==
    ASSUME ConnsTyped, ConnsTyped', AmountsTyped, AmountsTyped', CountsKept, TrafficAccounted,
           \A l \in Conn : SameCounts(l), SameAmounts
    PROVE  CountsKept' /\ TrafficAccounted'
<1>1. CountsKept'
  BY DEF CountsKept, Tallied, SameCounts
<1>2. ASSUME NEW c \in Client
      PROVE  PendingOf(c)' = PendingOf(c)
  <2>1. [k \in Conn |-> Owed(conn'[k], c)] = [k \in Conn |-> Owed(conn[k], c)]
    BY DEF SameCounts, Owed
  <2> QED
    BY <2>1, PendingIs, PendingNext
<1>3. TrafficAccounted'
  BY <1>2 DEF TrafficAccounted, SameAmounts
<1> QED
  BY <1>1, <1>3

LEMMA BumpOf ==
    ASSUME NEW f \in [Client -> Nat], NEW c \in Client, NEW n \in Nat
    PROVE  /\ Bump(f, c, n) \in [Client -> Nat]
           /\ \A d \in Client : Bump(f, c, n)[d] = IF d = c THEN f[d] + n ELSE f[d]
BY DEF Bump

\* A row that is counted has a client.
LEMMA UnwrittenOf ==
    ASSUME ConnsTyped, CountsKept, NEW k \in Conn
    PROVE  /\ conn[k] \in ConnRow /\ Tallied(conn[k])
           /\ Unwritten(k) \in Nat /\ conn[k].writing \in Nat
           /\ conn[k].st # "new" => conn[k].client \in Client
<1>1. conn[k] \in ConnRow /\ Tallied(conn[k])
  BY DEF ConnsTyped, CountsKept
<1>2. conn[k].st # "new" => conn[k].client \in Client
  BY DEF ConnsTyped, ConnRow
<1>3. conn[k].total \in Int /\ conn[k].last \in Int /\ conn[k].writing \in Int
  BY <1>1 DEF ConnRow
<1>4. 0 <= conn[k].last /\ conn[k].last <= conn[k].total /\ 0 <= conn[k].writing
  BY <1>1 DEF Tallied
<1>5. Unwritten(k) \in Nat /\ conn[k].writing \in Nat
  BY <1>3, <1>4 DEF Unwritten
<1> QED
  BY <1>1, <1>2, <1>5

LEMMA PendingNat ==
    ASSUME ConnsTyped, CountsKept, NEW c
    PROVE  PendingOf(c) \in Nat
<1> DEFINE f == [k \in Conn |-> Owed(conn[k], c)]
<1>1. PendingOf(c) = SumFunction(f)
  BY PendingIs
<1>2. ASSUME NEW k \in Conn PROVE Owed(conn[k], c) \in Nat
  BY UnwrittenOf DEF Owed, ConnRow, Unwritten
<1>3. f \in [Conn -> Nat] /\ IsFiniteSet(Conn)
  BY <1>2, Constants
<1> HIDE DEF f
<1> QED
  BY <1>1, <1>3, SumNat

LEMMA DeleteSilent ==
    ASSUME RowsTyped, AmountsTyped, NEW ss, Delete(ss)
    PROVE  silent' \subseteq {s \in Sid : sessions'[s] # None}
BY DEF Delete, Dropped, AmountsTyped, RowsTyped

LEMMA AmountsStep ==
    ASSUME RowsTyped, CallsTyped, ConnsTyped, AmountsTyped, CountsKept, [Next]_vars
    PROVE  AmountsTyped'
<1>q. ASSUME SameAmounts, UNCHANGED <<silent, sessions>> PROVE AmountsTyped'
  BY <1>q DEF AmountsTyped, SameAmounts
<1>d. ASSUME SameAmounts, NEW ss, Delete(ss) PROVE AmountsTyped'
  BY <1>d, DeleteSilent DEF AmountsTyped, SameAmounts
<1> USE DEF SameAmounts
<1>1. ASSUME NEW k \in Conn, Handler(k) PROVE AmountsTyped'
  <2>1. CASE AddSession(k)
    <3>1. conn[k].client \in Client
      BY <2>1, UnwrittenOf DEF AddSession, At
    <3>2. silent' \subseteq {s \in Sid : sessions'[s] # None}
      BY <2>1, <3>1, Constants DEF AddSession, AmountsTyped, RowsTyped
    <3> QED
      BY <2>1, <3>2 DEF AddSession, AmountsTyped
  <2>2. CASE ~AddSession(k)
    BY <1>1, <1>q, <2>2 DEF Handler, Authorize, SetHWID, AllocateAddress, TouchDevice,
       AddDevice, CountSessions, StartTunnel, TunnelFails, rows, history
  <2> QED
    BY <2>1, <2>2
<1>2. ASSUME NEW k \in Conn, Accountant(k) PROVE AmountsTyped'
  <2>0. /\ Unwritten(k) \in Nat /\ conn[k].writing \in Nat
        /\ conn[k].st # "new" => conn[k].client \in Client
        /\ Tallied(conn[k])
    BY UnwrittenOf
  <2>1. CASE Carry(k)
    <3>1. conn[k].client \in Client
      BY <2>0, <2>1 DEF Carry, At
    <3>2. carried' \in [Client -> Nat] /\ forgotten' \in [Client -> Nat]
      BY <2>1, <3>1, BumpOf DEF Carry, AmountsTyped
    <3> QED
      BY <2>1, <3>2 DEF Carry, AmountsTyped, rows
  <2>2. CASE EndTunnel(k)
    BY <1>q, <2>2 DEF EndTunnel, rows, history
  <2>3. CASE TouchSession(k)
    <3>1. conn[k].client \in Client
      BY <2>0, <2>3 DEF TouchSession
    <3>2. forgotten' \in [Client -> Nat]
      <4>1. forgotten' = forgotten \/ forgotten' = Bump(forgotten, conn[k].client, Unwritten(k))
        BY <2>3, Zenon DEF TouchSession
      <4>2. forgotten \in [Client -> Nat]
        BY DEF AmountsTyped
      <4>3. Bump(forgotten, conn[k].client, Unwritten(k)) \in [Client -> Nat]
        BY <2>0, <3>1, <4>2, BumpOf
      <4> QED
        BY <4>1, <4>2, <4>3
    <3>3. silent' \subseteq silent
      BY <2>3 DEF TouchSession
    <3> QED
      BY <2>3, <3>2, <3>3 DEF TouchSession, AmountsTyped
  <2>4. CASE AddTraffic(k)
    <3>1. conn[k].client \in Client
      BY <2>0, <2>4 DEF AddTraffic, Tallied
    <3>2. forgotten' \in [Client -> Nat] /\ traffic' \in [Client -> Nat]
      <4>1. /\ forgotten' = forgotten \/ forgotten' = Bump(forgotten, conn[k].client, conn[k].writing)
            /\ traffic' = traffic \/ traffic' = Bump(traffic, conn[k].client, conn[k].writing)
        BY <2>4, Zenon DEF AddTraffic
      <4>2. forgotten \in [Client -> Nat] /\ traffic \in [Client -> Nat]
        BY DEF AmountsTyped
      <4>3. /\ Bump(forgotten, conn[k].client, conn[k].writing) \in [Client -> Nat]
            /\ Bump(traffic, conn[k].client, conn[k].writing) \in [Client -> Nat]
        BY <2>0, <3>1, <4>2, BumpOf
      <4> QED
        BY <4>1, <4>2, <4>3
    <3> QED
      BY <2>4, <3>2 DEF AddTraffic, AmountsTyped
  <2>5. CASE CloseSession(k)
    <3>1. SameAmounts
      BY <2>5 DEF CloseSession
    <3>2. Delete({conn[k].sid}) \/ UNCHANGED <<sessions, silent, over>>
      BY <2>5 DEF CloseSession
    <3> QED
      BY <1>q, <1>d, <3>1, <3>2
  <2> QED
    BY <1>2, <2>1, <2>2, <2>3, <2>4, <2>5 DEF Accountant
<1>3. ASSUME NEW a \in Admin, Administrator(a) PROVE AmountsTyped'
  <2>1. SameAmounts
    BY <1>3 DEF Administrator, PatchRead, PatchDevice, PatchLabel, PatchLimits, Revoke,
       RevokeList, RevokeClose, rows, history
  <2>2. UNCHANGED <<silent, sessions>> \/ \E ss : Delete(ss)
    BY <1>3 DEF Administrator, PatchRead, PatchDevice, PatchLabel, PatchLimits, Revoke,
       RevokeList, RevokeClose, rows, history
  <2> QED
    BY <1>q, <1>d, <2>1, <2>2
<1>4. ASSUME NEW s \in Sid, FallsSilent(s) PROVE AmountsTyped'
  BY <1>4 DEF FallsSilent, AmountsTyped, history
<1>5. CASE Sweep
  BY <1>5, <1>d DEF Sweep
<1>6. CASE CloseRow
  <2>1. PICK s \in Sid : Delete({s})
    BY <1>6 DEF CloseRow
  <2> QED
    BY <1>6, <1>d, <2>1 DEF CloseRow
<1>7. CASE Crash
  <2>1. \A c \in Client : PendingOf(c) \in Nat
    BY PendingNat
  <2>2. forgotten' = [c \in Client |-> forgotten[c] + PendingOf(c)]
    BY <1>7 DEF Crash
  <2>3. forgotten' \in [Client -> Nat]
    <3>1. \A c \in Client : forgotten[c] \in Nat
      BY DEF AmountsTyped
    <3>2. \A c \in Client : forgotten[c] + PendingOf(c) \in Nat
      BY <2>1, <3>1
    <3> QED
      BY <2>2, <3>2
  <2> QED
    BY <1>7, <2>3 DEF Crash, AmountsTyped, rows
<1>8. CASE Snapshot
  BY <1>8, <1>q DEF Snapshot, history
<1>9. CASE UNCHANGED vars
  BY <1>9, <1>q DEF vars, rows, history
<1> QED
  BY <1>1, <1>2, <1>3, <1>4, <1>5, <1>6, <1>7, <1>8, <1>9 DEF Next

\* One connection changes as a tunnel's does: the others and its client stay.
LEMMA OneCounts ==
    ASSUME ConnsTyped, NEW k \in Conn, NEW r \in ConnRow, NEW cs, Aged(cs),
           conn' = [cs EXCEPT ![k] = r]
    PROVE  conn'[k] = r /\ \A l \in Conn : l # k => SameCounts(l)
BY DEF Aged, SameCounts

\* What a step of connection k leaves of it, and the change of the books that goes with it.
CountsMove(k) ==
    /\ \A l \in Conn : l # k => SameCounts(l)
    /\ Tallied(conn'[k])
    /\ \A c \in Client : carried'[c] - traffic'[c] - forgotten'[c] - Owed(conn'[k], c)
                           = carried[c] - traffic[c] - forgotten[c] - Owed(conn[k], c)

LEMMA QuietMove ==
    ASSUME ConnsTyped, CountsKept, NEW k \in Conn, NEW r \in ConnRow, NEW cs, Aged(cs),
           conn' = [cs EXCEPT ![k] = r], SameAmounts, Tallied(r),
           \A c \in Client : Owed(r, c) = Owed(conn[k], c)
    PROVE  CountsMove(k)
<1>1. conn'[k] = r /\ \A l \in Conn : l # k => SameCounts(l)
  BY OneCounts
<1> QED
  BY <1>1 DEF CountsMove, SameAmounts

LEMMA HandlerCounts ==
    ASSUME ConnsTyped, RowsTyped, CountsKept, NEW k \in Conn, Handler(k)
    PROVE  CountsMove(k)
<1>0. /\ conn[k] \in ConnRow /\ Tallied(conn[k]) /\ Aged(conn)
      /\ conn[k].total \in Int /\ conn[k].last \in Int /\ conn[k].writing \in Int
  BY UnwrittenOf, AgedConns DEF ConnRow
<1> DEFINE Starting == {"authed", "device", "add device", "session", "add session", "start"}
<1>a. SameAmounts
  <2>1. CASE AddDevice(k) \/ AddSession(k)
    BY <2>1 DEF AddDevice, AddSession, SameAmounts
  <2>2. CASE ~(AddDevice(k) \/ AddSession(k))
    <3>1. UNCHANGED history /\ UNCHANGED traffic
      BY <2>2 DEF Handler, Authorize, SetHWID, AllocateAddress, TouchDevice, CountSessions,
         StartTunnel, TunnelFails, rows
    <3> QED
      BY <3>1 DEF history, SameAmounts
  <2> QED
    BY <2>1, <2>2
<1>1. ASSUME NEW c \in left.uses[k], Authorize(k, c) PROVE CountsMove(k)
  <2> DEFINE r == [[NoConn EXCEPT !.st = "authed"] EXCEPT !.client = c]
  <2>1. left.uses \in [Conn -> SUBSET Client]
    BY DEF RowsTyped, Budget
  <2>2. c \in Client
    BY <2>1
  <2>3. r \in ConnRow /\ Tallied(r) /\ r.sid = None
    <3>1. /\ r.st = "authed" /\ r.sid = None /\ r.total = 0 /\ r.last = 0 /\ r.writing = 0
          /\ r \in ConnRow
      BY <2>2, NoConnSound DEF ConnRow, Stage
    <3> HIDE DEF r
    <3> QED
      BY <3>1 DEF Tallied
  <2>4. conn' = [conn EXCEPT ![k] = r]
    BY <1>1 DEF Authorize
  <2>a. conn[k].sid = None
    BY <1>0, <1>1 DEF Authorize, At, Tallied
  <2> HIDE DEF r
  <2>5. \A d \in Client : Owed(r, d) = Owed(conn[k], d)
    BY <2>3, <2>a DEF Owed
  <2> QED
    BY <1>0, <2>3, <2>4, <2>5, <1>a, QuietMove
\* A connection that is on its way has counted nothing, whatever else a step makes of it.
<1>2. ASSUME NEW r \in ConnRow, NEW cs, Aged(cs), conn' = [cs EXCEPT ![k] = r],
             conn[k].st \in Starting, r.st \in Starting \cup {"tunnel"},
             r.client = conn[k].client, r.total = conn[k].total, r.last = conn[k].last,
             r.writing = conn[k].writing
      PROVE  CountsMove(k)
  <2>1. conn[k].total = 0 /\ conn[k].last = 0 /\ conn[k].writing = 0
    <3>1. /\ 0 <= conn[k].last /\ conn[k].last <= conn[k].total
          /\ conn[k].total = 0 /\ conn[k].writing = 0
      BY <1>0, <1>2 DEF Tallied
    <3> QED
      BY <1>0, <3>1
  <2>a. r.total = 0 /\ r.last = 0 /\ r.writing = 0
    BY <1>2, <2>1
  <2>2. Tallied(r)
    <3>1. r.st \notin {"new", "last", "closing"}
      BY <1>2
    <3> QED
      BY <2>a, <3>1 DEF Tallied
  <2>3. \A d \in Client : Owed(r, d) = Owed(conn[k], d)
    BY <2>1, <2>a DEF Owed
  <2> QED
    BY <1>2, <2>2, <2>3, <1>a, QuietMove
<1>3. CASE SetHWID(k)
  <2> DEFINE r == [conn[k] EXCEPT !.hwid = TRUE]
  <2>1. conn' = [conn EXCEPT ![k] = r] /\ conn[k].st = "authed"
    BY <1>3 DEF SetHWID, At
  <2>2. r \in ConnRow /\ r.st = "authed" /\ r.client = conn[k].client /\ r.total = conn[k].total
        /\ r.last = conn[k].last /\ r.writing = conn[k].writing
    BY <1>0, <2>1 DEF ConnRow
  <2> HIDE DEF r
  <2> QED
    BY <1>0, <1>2, <2>1, <2>2
<1>4. CASE AllocateAddress(k)
  <2>1. PICK a \in Addr : conn' = [conn EXCEPT ![k] = [[conn[k] EXCEPT !.st = "device"]
                                                             EXCEPT !.addr = a]]
    <3>1. conn[k].client \in Client
      BY <1>4, UnwrittenOf DEF AllocateAddress, At
    <3>2. \E a \in Addr : assignFor(k, a)
      BY <1>4, <3>1, FirstFreeFree DEF AllocateAddress, RowsTyped
    <3> QED
      BY <3>2 DEF assignFor
  <2> DEFINE r == [[conn[k] EXCEPT !.st = "device"] EXCEPT !.addr = a]
  <2>2. conn[k].st = "authed"
    BY <1>4 DEF AllocateAddress, At
  <2>3. r \in ConnRow /\ r.st = "device" /\ r.client = conn[k].client /\ r.total = conn[k].total
        /\ r.last = conn[k].last /\ r.writing = conn[k].writing
    BY <1>0 DEF ConnRow, Stage
  <2>4. conn' = [conn EXCEPT ![k] = r]
    BY <2>1
  <2> HIDE DEF r
  <2> QED
    BY <1>0, <1>2, <2>2, <2>3, <2>4
<1>5. CASE TouchDevice(k)
  <2>1. PICK st \in {"add device", "session"} :
           conn' = [conn EXCEPT ![k] = [[[conn[k] EXCEPT !.hwid = FALSE] EXCEPT !.fresh = TRUE]
                                                  EXCEPT !.st = st]]
    BY <1>5 DEF TouchDevice
  <2> DEFINE r == [[[conn[k] EXCEPT !.hwid = FALSE] EXCEPT !.fresh = TRUE] EXCEPT !.st = st]
  <2>2. conn[k].st = "device"
    BY <1>5 DEF TouchDevice, At
  <2>3. r \in ConnRow /\ r.st = st /\ r.client = conn[k].client /\ r.total = conn[k].total
        /\ r.last = conn[k].last /\ r.writing = conn[k].writing
    BY <1>0 DEF ConnRow, Stage
  <2>4. conn' = [conn EXCEPT ![k] = r]
    BY <2>1
  <2> HIDE DEF r
  <2> QED
    BY <1>0, <1>2, <2>2, <2>3, <2>4
<1>6. CASE CountSessions(k)
  <2>1. PICK st \in {"add session", "start"} :
           conn' = [conn EXCEPT ![k] = [[conn[k] EXCEPT !.fresh = TRUE] EXCEPT !.st = st]]
    BY <1>6 DEF CountSessions
  <2> DEFINE r == [[conn[k] EXCEPT !.fresh = TRUE] EXCEPT !.st = st]
  <2>2. conn[k].st = "session"
    BY <1>6 DEF CountSessions, At
  <2>3. r \in ConnRow /\ r.st = st /\ r.client = conn[k].client /\ r.total = conn[k].total
        /\ r.last = conn[k].last /\ r.writing = conn[k].writing
    BY <1>0 DEF ConnRow, Stage
  <2>4. conn' = [conn EXCEPT ![k] = r]
    BY <2>1
  <2> HIDE DEF r
  <2> QED
    BY <1>0, <1>2, <2>2, <2>3, <2>4
<1>7. CASE AddDevice(k)
  <2> DEFINE cs == Outdated(conn, conn[k].client, k)
             r == [[cs[k] EXCEPT !.st = "session"] EXCEPT !.fresh = TRUE]
  <2>1. Aged(cs)
    BY AgedConns
  <2>2. conn[k].st = "add device" /\ conn' = [cs EXCEPT ![k] = r]
    BY <1>7 DEF AddDevice, At
  <2> HIDE DEF cs
  <2>3. cs[k] \in ConnRow /\ cs[k].client = conn[k].client /\ cs[k].total = conn[k].total
        /\ cs[k].last = conn[k].last /\ cs[k].writing = conn[k].writing
    BY <2>1 DEF Aged
  <2>4. r \in ConnRow /\ r.st = "session" /\ r.client = conn[k].client /\ r.total = conn[k].total
        /\ r.last = conn[k].last /\ r.writing = conn[k].writing
    BY <2>3 DEF ConnRow, Stage
  <2> HIDE DEF r
  <2> QED
    BY <1>2, <2>1, <2>2, <2>4
<1>8. CASE AddSession(k)
  <2> DEFINE cs == Outdated(conn, conn[k].client, k)
             r == [[[cs[k] EXCEPT !.st = "start"] EXCEPT !.fresh = TRUE]
                                  EXCEPT !.sid = newSessionID]
  <2>1. Aged(cs)
    BY AgedConns
  <2>2. conn[k].st = "add session" /\ conn' = [cs EXCEPT ![k] = r]
    BY <1>8 DEF AddSession, At
  <2>3. newSessionID \in Sid
    BY <1>8 DEF AddSession, newSessionID, Unused
  <2> HIDE DEF cs
  <2>4. cs[k] \in ConnRow /\ cs[k].client = conn[k].client /\ cs[k].total = conn[k].total
        /\ cs[k].last = conn[k].last /\ cs[k].writing = conn[k].writing
    BY <2>1 DEF Aged
  <2>5. r \in ConnRow /\ r.st = "start" /\ r.client = conn[k].client /\ r.total = conn[k].total
        /\ r.last = conn[k].last /\ r.writing = conn[k].writing
    BY <2>3, <2>4 DEF ConnRow, Stage
  <2> HIDE DEF r
  <2> QED
    BY <1>2, <2>1, <2>2, <2>5
<1>9. CASE StartTunnel(k)
  <2> DEFINE r == [conn[k] EXCEPT !.st = "tunnel"]
  <2>1. conn' = [conn EXCEPT ![k] = r] /\ conn[k].st = "start"
    BY <1>9 DEF StartTunnel, Go, At
  <2>2. r \in ConnRow /\ r.st = "tunnel" /\ r.client = conn[k].client /\ r.total = conn[k].total
        /\ r.last = conn[k].last /\ r.writing = conn[k].writing
    BY <1>0, <2>1 DEF ConnRow, Stage
  <2> HIDE DEF r
  <2> QED
    BY <1>0, <1>2, <2>1, <2>2
<1>10. CASE TunnelFails(k)
  <2>1. conn' = [conn EXCEPT ![k] = NoConn] /\ conn[k].st = "start"
    BY <1>10 DEF TunnelFails, At
  <2>2. conn[k].total = 0 /\ conn[k].last = 0 /\ conn[k].writing = 0
    BY <1>0, <2>1 DEF Tallied
  <2>3. NoConn \in ConnRow /\ Tallied(NoConn) /\ NoConn.sid = None
    BY DEF NoConn, ConnRow, Stage, Tallied
  <2>4. \A d \in Client : Owed(NoConn, d) = Owed(conn[k], d)
    BY <2>2, <2>3 DEF Owed
  <2> QED
    BY <1>0, <2>1, <2>3, <2>4, <1>a, QuietMove
<1> QED
  BY <1>1, <1>3, <1>4, <1>5, <1>6, <1>7, <1>8, <1>9, <1>10 DEF Handler

LEMMA AccountantCounts ==
    ASSUME ConnsTyped, RowsTyped, AmountsTyped, CountsKept, NEW k \in Conn, Accountant(k)
    PROVE  CountsMove(k)
<1>0. /\ conn[k] \in ConnRow /\ Tallied(conn[k]) /\ Aged(conn)
      /\ conn[k].total \in Int /\ conn[k].last \in Int /\ conn[k].writing \in Int
  BY UnwrittenOf, AgedConns DEF ConnRow
<1>a. /\ 0 <= conn[k].last /\ conn[k].last <= conn[k].total /\ 0 <= conn[k].writing
      /\ conn[k].writing > 0 => conn[k].sid # None
      /\ conn[k].st = "new" => conn[k].sid = None
      /\ conn[k].st \in {"last", "closing"} => conn[k].last = conn[k].total
      /\ conn[k].st = "closing" => conn[k].writing = 0
  BY <1>0 DEF Tallied
<1>b. conn[k].total \in Nat /\ conn[k].last \in Nat /\ conn[k].writing \in Nat
  BY <1>0, <1>a
<1>c. ASSUME NEW f, NEW g, f \in [Client -> Nat], NEW c \in Client, NEW n \in Nat, g = Bump(f, c, n),
             NEW d \in Client
      PROVE  g[d] = IF d = c THEN f[d] + n ELSE f[d]
  BY <1>c, BumpOf
<1>d. carried \in [Client -> Nat] /\ traffic \in [Client -> Nat] /\ forgotten \in [Client -> Nat]
  BY DEF AmountsTyped
<1>1. \A c \in Client : carried[c] \in Nat /\ traffic[c] \in Nat /\ forgotten[c] \in Nat
  BY <1>d
<1>2. CASE Carry(k)
  <2> DEFINE r == [conn[k] EXCEPT !.total = conn[k].total + 1]
             c == conn[k].client
             n == IF conn[k].sid = None THEN 1 ELSE 0
  <2>1. /\ conn' = [conn EXCEPT ![k] = r] /\ conn[k].st = "tunnel"
        /\ carried' = Bump(carried, c, 1) /\ forgotten' = Bump(forgotten, c, n)
        /\ UNCHANGED traffic
    BY <1>2 DEF Carry, At, rows
  <2>2. c \in Client
    BY <2>1, UnwrittenOf
  <2>3. /\ r \in ConnRow /\ r.st = "tunnel" /\ r.client = c /\ r.sid = conn[k].sid
        /\ r.total = conn[k].total + 1 /\ r.last = conn[k].last /\ r.writing = conn[k].writing
    BY <1>0, <2>1 DEF ConnRow
  <2> HIDE DEF r
  <2>4. Tallied(r)
    <3>1. conn[k].last <= conn[k].total + 1
      BY <1>a, <1>b
    <3> QED
      BY <1>a, <2>3, <3>1 DEF Tallied
  <2>5. conn'[k] = r /\ \A l \in Conn : l # k => SameCounts(l)
    BY <1>0, <2>1, <2>3, OneCounts
  <2>6. ASSUME NEW d \in Client
        PROVE  carried'[d] - traffic'[d] - forgotten'[d] - Owed(r, d)
                  = carried[d] - traffic[d] - forgotten[d] - Owed(conn[k], d)
    <3>1. carried'[d] = (IF d = c THEN carried[d] + 1 ELSE carried[d])
          /\ forgotten'[d] = (IF d = c THEN forgotten[d] + n ELSE forgotten[d])
          /\ traffic'[d] = traffic[d]
      <4>1. 1 \in Nat /\ n \in Nat
        OBVIOUS
      <4> HIDE DEF n, c
      <4> QED
        BY <1>c, <1>d, <2>1, <2>2, <4>1
    <3>2. CASE d = c /\ conn[k].sid # None
      BY <1>0, <1>1, <2>3, <3>1, <3>2 DEF Owed
    <3>3. CASE d = c /\ conn[k].sid = None
      BY <1>0, <1>1, <2>3, <3>1, <3>3 DEF Owed
    <3>4. CASE d # c
      BY <1>0, <1>1, <2>3, <3>1, <3>4 DEF Owed
    <3> QED
      BY <3>2, <3>3, <3>4
  <2> QED
    BY <2>4, <2>5, <2>6 DEF CountsMove
<1>3. CASE EndTunnel(k)
  <2>1. PICK st : /\ st = IF conn[k].sid = None THEN "new" ELSE "ending"
                  /\ conn' = [conn EXCEPT ![k] = [conn[k] EXCEPT !.st = st]]
    BY <1>3 DEF EndTunnel, Go
  <2> DEFINE r == [conn[k] EXCEPT !.st = st]
  <2>2. SameAmounts
    BY <1>3 DEF EndTunnel, SameAmounts, rows, history
  <2>3. /\ r \in ConnRow /\ r.st = st /\ r.client = conn[k].client /\ r.sid = conn[k].sid
        /\ r.total = conn[k].total /\ r.last = conn[k].last /\ r.writing = conn[k].writing
    BY <1>0, <2>1 DEF ConnRow, Stage
  <2>4. conn' = [conn EXCEPT ![k] = r]
    BY <2>1
  <2> HIDE DEF r
  <2>5. Tallied(r)
    BY <1>0, <2>1, <2>3 DEF Tallied
  <2>6. \A d \in Client : Owed(r, d) = Owed(conn[k], d)
    BY <2>3 DEF Owed
  <2> QED
    BY <1>0, <2>2, <2>3, <2>4, <2>5, <2>6, QuietMove
<1>4. CASE TouchSession(k)
  <2> DEFINE n == conn[k].total - conn[k].last
  <2>1. /\ conn[k].st \in {"tunnel", "ending"} /\ conn[k].sid # None /\ conn[k].writing = 0
        /\ UNCHANGED <<carried, traffic>> /\ Unwritten(k) = n
    BY <1>4 DEF TouchSession, Unwritten
  <2>2. conn[k].client \in Client /\ n \in Nat
    BY <2>1, UnwrittenOf
  <2>3. Counted(k) = IF conn[k].st = "ending" THEN "closing" ELSE "tunnel"
    BY <2>1 DEF Counted, At
  <2>4. CASE /\ conn' = [conn EXCEPT ![k].last = conn[k].total, ![k].failing = FALSE,
                            ![k].writing = n,
                            ![k].st = IF n > 0 /\ At(k, "ending") THEN "last" ELSE Counted(k)]
             /\ UNCHANGED forgotten
    <3>1. PICK st : st = IF n > 0 /\ At(k, "ending") THEN "last" ELSE Counted(k)
      OBVIOUS
    <3>2. st \in {"last", "tunnel", "closing"} /\ (st = "closing" => n = 0)
      BY <2>1, <2>2, <2>3, <3>1 DEF At
    <3> DEFINE r == [[[[conn[k] EXCEPT !.last = conn[k].total] EXCEPT !.failing = FALSE]
                            EXCEPT !.writing = n] EXCEPT !.st = st]
    <3>3. conn' = [conn EXCEPT ![k] = r]
      BY <2>4, <3>1
    <3>4. /\ r \in ConnRow /\ r.st = st /\ r.client = conn[k].client /\ r.sid = conn[k].sid
          /\ r.total = conn[k].total /\ r.last = conn[k].total /\ r.writing = n
      <4>1. n \in Int
        BY <2>2
      <4> HIDE DEF n
      <4> QED
        BY <1>0, <3>2, <4>1 DEF ConnRow, Stage
    <3> HIDE DEF r
    <3>5. Tallied(r)
      <4>1. 0 <= r.last /\ r.last <= r.total
        BY <1>b, <3>4
      <4>2. 0 <= r.writing /\ (r.st = "closing" => r.writing = 0)
        BY <2>2, <3>2, <3>4
      <4>3. r.st \in {"last", "tunnel", "closing"} /\ r.sid # None /\ r.last = r.total
        BY <2>1, <3>2, <3>4
      <4>4. /\ r.st # "new"
            /\ r.st \notin {"authed", "device", "add device", "session", "add session", "start"}
        BY <4>3
      <4> QED
        BY <4>1, <4>2, <4>3, <4>4, Zenon DEF Tallied
    <3>6. \A d \in Client : Owed(r, d) = Owed(conn[k], d)
      BY <1>0, <2>1, <3>4 DEF Owed
    <3>7. SameAmounts
      BY <2>1, <2>4 DEF SameAmounts
    <3> QED
      BY <1>0, <3>3, <3>4, <3>5, <3>6, <3>7, QuietMove
  <2>5. CASE /\ conn' = [conn EXCEPT ![k].last = conn[k].total, ![k].failing = TRUE,
                                     ![k].st = Counted(k)]
             /\ forgotten' = Bump(forgotten, conn[k].client, n)
    <3> DEFINE r == [[[conn[k] EXCEPT !.last = conn[k].total] EXCEPT !.failing = TRUE]
                            EXCEPT !.st = Counted(k)]
    <3>1. conn' = [conn EXCEPT ![k] = r]
      BY <2>5
    <3>2. /\ r \in ConnRow /\ r.st = Counted(k) /\ r.client = conn[k].client /\ r.sid = conn[k].sid
          /\ r.total = conn[k].total /\ r.last = conn[k].total /\ r.writing = 0
      BY <1>0, <2>1, <2>3 DEF ConnRow, Stage
    <3> HIDE DEF r
    <3>3. Tallied(r)
      <4>1. 0 <= r.last /\ r.last <= r.total /\ r.writing = 0 /\ r.last = r.total
        BY <1>b, <3>2
      <4>2. /\ r.st # "new"
            /\ r.st \notin {"authed", "device", "add device", "session", "add session", "start"}
        BY <2>3, <3>2
      <4>3. 0 <= r.writing /\ ~(r.writing > 0)
        BY <4>1
      <4> QED
        BY <4>1, <4>2, <4>3, Zenon DEF Tallied
    <3>4. conn'[k] = r /\ \A l \in Conn : l # k => SameCounts(l)
      BY <1>0, <3>1, <3>2, OneCounts
    <3>5. ASSUME NEW d \in Client
          PROVE  carried'[d] - traffic'[d] - forgotten'[d] - Owed(r, d)
                    = carried[d] - traffic[d] - forgotten[d] - Owed(conn[k], d)
      <4>1. /\ forgotten'[d] = (IF d = conn[k].client THEN forgotten[d] + n ELSE forgotten[d])
            /\ traffic'[d] = traffic[d] /\ carried'[d] = carried[d]
        <5> HIDE DEF n
        <5>1. forgotten' = Bump(forgotten, conn[k].client, n)
          BY <2>5
        <5> QED
          BY <1>c, <1>d, <2>1, <2>2, <5>1
      <4>2. /\ Owed(r, d) = 0
            /\ Owed(conn[k], d) = IF d = conn[k].client THEN n ELSE 0
        BY <1>0, <2>1, <3>2 DEF Owed
      <4> HIDE DEF n
      <4> QED
        BY <1>1, <2>2, <4>1, <4>2
    <3> QED
      BY <3>3, <3>4, <3>5 DEF CountsMove
  <2> QED
    BY <1>4, <2>1, <2>4, <2>5 DEF TouchSession
<1>5. CASE AddTraffic(k)
  <2> DEFINE n == conn[k].writing
             c == conn[k].client
  <2>1. PICK st : st = IF conn[k].st = "last" THEN "closing" ELSE conn[k].st
    OBVIOUS
  <2> DEFINE r == [[conn[k] EXCEPT !.writing = 0] EXCEPT !.st = st]
  <2>2. /\ n > 0 /\ conn' = [conn EXCEPT ![k] = r] /\ UNCHANGED carried
        /\ \/ traffic' = Bump(traffic, c, n) /\ UNCHANGED forgotten
           \/ forgotten' = Bump(forgotten, c, n) /\ UNCHANGED traffic
    BY <1>0, <1>5, <2>1 DEF AddTraffic, ConnRow
  <2>3. conn[k].sid # None /\ conn[k].st # "new" /\ conn[k].st # "closing"
        /\ c \in Client /\ n \in Nat
    <3>1. n > 0 /\ n \in Nat
      BY <1>b, <2>2
    <3>2. conn[k].sid # None /\ conn[k].st # "new" /\ conn[k].st # "closing"
      BY <1>a, <3>1
    <3> QED
      BY <3>1, <3>2, UnwrittenOf
  <2>4. conn[k].st \in Stage /\ st \in Stage
    BY <1>0, <2>1 DEF ConnRow, Stage
  <2>5. /\ r \in ConnRow /\ r.st = st /\ r.client = c /\ r.sid = conn[k].sid
        /\ r.total = conn[k].total /\ r.last = conn[k].last /\ r.writing = 0
    <3>1. conn[k] \in ConnRow /\ 0 \in Int
      BY <1>0
    <3>2. [conn[k] EXCEPT !.writing = 0] \in ConnRow
      BY <3>1 DEF ConnRow
    <3> QED
      BY <2>4, <3>1, <3>2 DEF ConnRow
  <2> HIDE DEF r
  <2>6. Tallied(r)
    <3>1. 0 <= r.last /\ r.last <= r.total /\ r.writing = 0
      BY <1>a, <2>5
    <3>2. r.st # "new" /\ (r.st \in {"last", "closing"} => r.last = r.total)
      BY <1>a, <2>1, <2>3, <2>5
    <3>3. r.st \in {"authed", "device", "add device", "session", "add session", "start"} =>
             r.total = 0
      BY <1>0, <2>1, <2>5 DEF Tallied
    <3>4. ~(r.writing > 0)
      BY <3>1
    <3>5. 0 <= r.writing
      BY <3>1
    <3> QED
      BY <3>1, <3>2, <3>3, <3>4, <3>5, Zenon DEF Tallied
  <2>7. conn'[k] = r /\ \A l \in Conn : l # k => SameCounts(l)
    BY <1>0, <2>2, <2>5, OneCounts
  <2>8. ASSUME NEW d \in Client
        PROVE  carried'[d] - traffic'[d] - forgotten'[d] - Owed(r, d)
                  = carried[d] - traffic[d] - forgotten[d] - Owed(conn[k], d)
    <3>1. /\ carried'[d] = carried[d]
          /\ \/ /\ traffic'[d] = (IF d = c THEN traffic[d] + n ELSE traffic[d])
                /\ forgotten'[d] = forgotten[d]
             \/ /\ forgotten'[d] = (IF d = c THEN forgotten[d] + n ELSE forgotten[d])
                /\ traffic'[d] = traffic[d]
      <4> HIDE DEF n, c, r
      <4>1. ASSUME traffic' = Bump(traffic, c, n)
            PROVE  traffic'[d] = IF d = c THEN traffic[d] + n ELSE traffic[d]
        BY <1>c, <1>d, <2>3, <4>1
      <4>2. ASSUME forgotten' = Bump(forgotten, c, n)
            PROVE  forgotten'[d] = IF d = c THEN forgotten[d] + n ELSE forgotten[d]
        BY <1>c, <1>d, <2>3, <4>2
      <4> QED
        BY <2>2, <4>1, <4>2
    <3>2. CASE d = c
      <4>1. Owed(r, d) = r.total - r.last /\ Owed(conn[k], d) = r.total - r.last + n
        BY <1>0, <2>3, <2>5, <3>2 DEF Owed
      <4> QED
        BY <1>0, <1>1, <2>3, <2>5, <3>1, <3>2, <4>1
    <3>3. CASE d # c
      BY <1>1, <2>5, <3>1, <3>3 DEF Owed
    <3> QED
      BY <3>2, <3>3
  <2> QED
    BY <2>6, <2>7, <2>8 DEF CountsMove
<1>6. CASE CloseSession(k)
  <2>1. conn' = [conn EXCEPT ![k] = NoConn] /\ SameAmounts /\ conn[k].st = "closing"
    BY <1>6 DEF CloseSession, SameAmounts, At
  <2>2. conn[k].last = conn[k].total /\ conn[k].writing = 0
    BY <1>0, <2>1 DEF Tallied
  <2>3. NoConn \in ConnRow /\ Tallied(NoConn) /\ NoConn.sid = None
    BY NoConnSound DEF Tallied
  <2>4. \A d \in Client : Owed(NoConn, d) = Owed(conn[k], d)
    BY <1>0, <2>2, <2>3 DEF Owed
  <2> QED
    BY <1>0, <2>1, <2>3, <2>4, QuietMove
<1> QED
  BY <1>2, <1>3, <1>4, <1>5, <1>6 DEF Accountant

LEMMA CountsStep ==
    ASSUME RowsTyped, CallsTyped, ConnsTyped, ConnsTyped', AmountsTyped, AmountsTyped',
           CountsKept, TrafficAccounted, [Next]_vars
    PROVE  CountsKept' /\ TrafficAccounted'
<1> DEFINE Goal == CountsKept' /\ TrafficAccounted'
<1>c. ASSUME NEW k \in Conn, CountsMove(k) PROVE Goal
  BY <1>c, Balanced DEF CountsMove
<1>q. ASSUME \A l \in Conn : SameCounts(l), SameAmounts PROVE Goal
  BY <1>q, NothingCounted
<1>u. ASSUME UNCHANGED conn \/ \E c : conn' = Outdated(conn, c, None), SameAmounts PROVE Goal
  <2>1. Aged(conn')
    BY <1>u, AgedConns
  <2>2. \A l \in Conn : SameCounts(l)
    BY <2>1 DEF Aged, SameCounts
  <2> QED
    BY <1>q, <1>u, <2>2
<1>1. ASSUME NEW k \in Conn, Handler(k) PROVE Goal
  BY <1>1, <1>c, HandlerCounts
<1>2. ASSUME NEW k \in Conn, Accountant(k) PROVE Goal
  BY <1>2, <1>c, AccountantCounts
<1>3. ASSUME NEW a \in Admin, Administrator(a) PROVE Goal
  <2>1. SameAmounts
    BY <1>3 DEF Administrator, PatchRead, PatchDevice, PatchLabel, PatchLimits, Revoke,
       RevokeList, RevokeClose, rows, history, SameAmounts
  <2>2. UNCHANGED conn \/ \E c : conn' = Outdated(conn, c, None)
    BY <1>3 DEF Administrator, PatchRead, PatchDevice, PatchLabel, PatchLimits, Revoke,
       RevokeList, RevokeClose
  <2> QED
    BY <1>u, <2>1, <2>2
<1>4. ASSUME NEW s \in Sid, FallsSilent(s) PROVE Goal
  BY <1>4, <1>u DEF FallsSilent, history, SameAmounts
<1>5. CASE Sweep \/ CloseRow
  BY <1>5, <1>u DEF Sweep, CloseRow, SameAmounts
<1>6. CASE Crash
  <2>1. /\ conn' = [k \in Conn |-> NoConn] /\ UNCHANGED <<carried, traffic>>
        /\ forgotten' = [c \in Client |-> forgotten[c] + PendingOf(c)]
    BY <1>6 DEF Crash, rows
  <2>2. CountsKept'
    <3>1. Tallied(NoConn)
      BY NoConnSound DEF Tallied
    <3> QED
      BY <2>1, <3>1 DEF CountsKept
  <2>3. ASSUME NEW c \in Client
        PROVE  carried'[c] = traffic'[c] + forgotten'[c] + PendingOf(c)'
    <3>1. PendingOf(c)' = 0
      <4> DEFINE h == [k \in Conn |-> Owed(conn'[k], c)]
      <4>1. h \in [Conn -> Int] /\ PendingOf(c)' = SumFunction(h)
        BY PendingNext
      <4>2. \A k \in Conn : h[k] = 0
        BY <2>1, NoConnSound DEF Owed
      <4>3. IsFiniteSet(Conn)
        BY Constants
      <4> HIDE DEF h
      <4> QED
        BY <4>1, <4>2, <4>3, NothingSums
    <3>2. PendingOf(c) \in Nat
      BY PendingNat
    <3>3. carried[c] \in Nat /\ traffic[c] \in Nat /\ forgotten[c] \in Nat
      BY DEF AmountsTyped
    <3>4. carried[c] = traffic[c] + forgotten[c] + PendingOf(c)
      BY DEF TrafficAccounted
    <3>5. carried'[c] = carried[c] /\ traffic'[c] = traffic[c]
          /\ forgotten'[c] = forgotten[c] + PendingOf(c)
      BY <2>1
    <3> QED
      BY <3>1, <3>2, <3>3, <3>4, <3>5
  <2> QED
    BY <2>2, <2>3 DEF TrafficAccounted
<1>7. CASE Snapshot
  <2>1. conn' = [l \in Conn |-> [conn[l] EXCEPT !.kept = conn[l].addr = None]]
    BY <1>7 DEF Snapshot
  <2>2. \A l \in Conn : SameCounts(l)
    BY <2>1 DEF SameCounts, ConnsTyped, ConnRow
  <2>3. SameAmounts
    BY <1>7 DEF Snapshot, history, SameAmounts
  <2> QED
    BY <1>q, <2>2, <2>3
<1>8. CASE UNCHANGED vars
  BY <1>8, <1>u DEF vars, rows, history, SameAmounts
<1> QED
  BY <1>1, <1>2, <1>3, <1>4, <1>5, <1>6, <1>7, <1>8 DEF Next
-----------------------------------------------------------------------------
LEMMA NextIInv == IInv /\ [Next]_vars => IInv'
<1> SUFFICES ASSUME IInv, [Next]_vars PROVE IInv'
  OBVIOUS
<1> USE DEF IInv
<1>1. RowsTyped'
  BY RowsStep
<1>2. CallsTyped'
  BY CallsStep
<1>3. ConnsStep
  BY ConnsMove
<1>4. ConnsTyped'
  BY <1>3 DEF ConnsStep
<1>5. AddressesKept'
  BY <1>3, AddressStep
<1>6. EditsKept'
  BY EditsStep
<1>7. RoomRead'
  BY <1>3, RoomStep
<1>8. LimitKept'
  BY <1>1, LimitStep
<1>9. AmountsTyped'
  BY AmountsStep
<1>10. CountsKept' /\ TrafficAccounted'
  BY <1>4, <1>9, CountsStep
<1> QED
  BY <1>1, <1>2, <1>4, <1>5, <1>6, <1>7, <1>8, <1>9, <1>10

LEMMA Inductive == Spec => []IInv
BY InitIInv, NextIInv, PTL DEF Spec

\* No two clients are ever assigned one address, and a connection has its client's as long as no
\* snapshot replaced the table: AllocateAddress is one transaction, whoever else is at it.
THEOREM AddressesAreKept == Spec => []AddressesKept
<1>1. IInv => AddressesKept
  BY DEF IInv
<1> QED
  BY <1>1, Inductive, PTL

\* The limits in force are those last asked for, field by field, unless a call wrote limits over
\* ones it had not read: patchUser reads the row first and SetTokenLimits writes every field.
THEOREM EditsAreKept == Spec => []EditsKept
<1>1. IInv => EditsKept
  BY DEF IInv
<1> QED
  BY <1>1, Inductive, PTL

\* A client has more rows of machines or sessions than its limit only since two of its handlers
\* counted before either wrote, or an administrator changed the limit or a machine meanwhile.
THEOREM LimitsAreKept == Spec => []LimitKept
<1>1. IInv => LimitKept
  BY DEF IInv
<1> QED
  BY <1>1, Inductive, PTL

\* What went through a client's tunnels is in table traffic, or with an accountant that has yet to
\* write it, or was given up by a failed statement, a crash or a tunnel without a row: a flush
\* that meets the end of the tunnel, TouchSession that fails between its statements and a row
\* closed early count nothing twice and lose nothing unnoticed.
THEOREM TrafficIsAccounted == Spec => []TrafficAccounted
<1>1. IInv => TrafficAccounted
  BY DEF IInv
<1> QED
  BY <1>1, Inductive, PTL

\* Types of all tables, connections, calls and amounts.
THEOREM TypeCorrect == Spec => []TypeOK
<1>1. IInv => TypeOK
  <2> SUFFICES ASSUME IInv PROVE TypeOK
    OBVIOUS
  <2>1. \A k \in Conn : conn[k] \in Connection
    <3> SUFFICES ASSUME NEW k \in Conn PROVE conn[k] \in Connection
      OBVIOUS
    <3>1. /\ conn[k] \in ConnRow /\ conn[k].writing \in Nat
          /\ 0 <= conn[k].last /\ conn[k].last <= conn[k].total
      BY UnwrittenOf DEF IInv, Tallied
    <3>2. conn[k].total \in Int /\ conn[k].last \in Int
      BY <3>1 DEF ConnRow
    <3>3. conn[k].total \in Nat /\ conn[k].last \in Nat
      BY <3>1, <3>2
    <3> QED
      BY <3>1, <3>3 DEF ConnRow, Connection
  <2>2. conn \in [Conn -> Connection]
    BY <2>1 DEF IInv, ConnsTyped
  <2> QED
    BY <2>2 DEF IInv, RowsTyped, CallsTyped, AmountsTyped, TypeOK
<1> QED
  BY <1>1, Inductive, PTL

-----------------------------------------------------------------------------
(* Rows nobody holds. *)

\* A row of sessions keeps its owner until it goes; only the accountant that holds it makes it look
\* used, and only a new session takes a row up.
LEMMA RowLeft ==
    ASSUME RowsTyped, AmountsTyped, ConnsTyped, ConnsStep, [Next]_vars,
           NEW s \in Sid, Abandoned(s), sessions'[s] # None
    PROVE  Abandoned(s)' /\ sessions'[s] = sessions[s] /\ (s \in silent => s \in silent')
<1>h. /\ sessions[s] # None /\ \A k \in Conn : conn[k].sid # s
      /\ s # None
  BY Constants DEF Abandoned
<1>d. ASSUME NEW ss, Delete(ss) PROVE sessions'[s] = sessions[s] /\ (s \in silent => s \in silent')
  BY <1>d DEF Delete, Dropped
<1>1. /\ sessions'[s] = sessions[s]
      /\ s \in silent => s \in silent'
  <2>1. ASSUME NEW k \in Conn, Handler(k)
        PROVE  sessions'[s] = sessions[s] /\ silent' = silent
    <3>1. CASE AddSession(k)
      <4>1. newSessionID # s
        BY <1>h, <3>1 DEF AddSession, newSessionID, Unused
      <4> QED
        BY <3>1, <4>1 DEF AddSession, RowsTyped
    <3>2. CASE ~AddSession(k)
      BY <2>1, <3>2 DEF Handler, Authorize, SetHWID, AllocateAddress, TouchDevice,
         AddDevice, CountSessions, StartTunnel, TunnelFails, rows, assignFor
    <3> QED
      BY <3>1, <3>2
  <2>2. ASSUME NEW k \in Conn, Accountant(k)
        PROVE  sessions'[s] = sessions[s] /\ (s \in silent => s \in silent')
    <3>1. CASE Carry(k) \/ EndTunnel(k) \/ AddTraffic(k)
      BY <3>1 DEF Carry, EndTunnel, AddTraffic, rows
    <3>2. CASE TouchSession(k)
      BY <1>h, <3>2 DEF TouchSession
    <3>3. CASE CloseSession(k)
      BY <1>d, <3>3 DEF CloseSession
    <3> QED
      BY <2>2, <3>1, <3>2, <3>3 DEF Accountant
  <2>3. ASSUME NEW a \in Admin, Administrator(a)
        PROVE  sessions'[s] = sessions[s] /\ (s \in silent => s \in silent')
    <3>1. UNCHANGED <<silent, sessions>> \/ \E ss : Delete(ss)
      BY <2>3 DEF Administrator, PatchRead, PatchDevice, PatchLabel, PatchLimits, Revoke,
         RevokeList, RevokeClose, rows, history
    <3> QED
      BY <1>d, <3>1
  <2>4. ASSUME NEW t \in Sid, FallsSilent(t)
        PROVE  sessions'[s] = sessions[s] /\ (s \in silent => s \in silent')
    BY <2>4 DEF FallsSilent
  <2>5. CASE Sweep \/ CloseRow
    BY <1>d, <2>5 DEF Sweep, CloseRow
  <2>6. CASE Snapshot \/ Crash \/ UNCHANGED vars
    BY <2>6 DEF Snapshot, Crash, vars, rows
  <2> QED
    BY <2>1, <2>2, <2>3, <2>4, <2>5, <2>6 DEF Next
<1>2. ASSUME NEW k \in Conn PROVE conn'[k].sid # s
  <2>1. CASE Detached(k)
    BY <1>h, <2>1 DEF Detached
  <2>2. CASE AddSession(k)
    <3>1. newSessionID # s
      BY <1>h, <2>2 DEF AddSession, newSessionID, Unused
    <3> DEFINE cs == Outdated(conn, conn[k].client, k)
               r == [[[cs[k] EXCEPT !.st = "start"] EXCEPT !.fresh = TRUE]
                                    EXCEPT !.sid = newSessionID]
    <3>2. Aged(cs)
      BY AgedConns
    <3> HIDE DEF cs
    <3>a. cs \in [Conn -> ConnRow] /\ cs[k] \in ConnRow
      BY <3>2 DEF Aged
    <3>b. conn' = [cs EXCEPT ![k] = r]
      BY <2>2 DEF AddSession, cs
    <3>c. r.sid = newSessionID
      BY <3>a DEF ConnRow
    <3> HIDE DEF r
    <3>3. conn'[k].sid = newSessionID
      BY <3>a, <3>b, <3>c
    <3> QED
      BY <3>1, <3>3
  <2> QED
    BY <2>1, <2>2 DEF ConnsStep
<1> QED
  BY <1>1, <1>2 DEF Abandoned

\* A row whose handler died, whose tunnel failed or whose CloseSession went wrong is nobody's for
\* good: no other tunnel takes it up, whoever's it was, and none makes it look used again, so that the
\* sweep of silent rows finds it. It is what SlotsReturn rests on besides fairness.
THEOREM AbandonedRowsStay == Spec => AbandonedStays
<1>1. IInv /\ [Next]_vars =>
        [\A s \in Sid : Abandoned(s) /\ sessions'[s] # None =>
            Abandoned(s)' /\ sessions'[s] = sessions[s] /\ (s \in silent => s \in silent')]_vars
  <2> SUFFICES ASSUME IInv, [Next]_vars, NEW s \in Sid, Abandoned(s), sessions'[s] # None
               PROVE  Abandoned(s)' /\ sessions'[s] = sessions[s] /\ (s \in silent => s \in silent')
    OBVIOUS
  <2>1. RowsTyped /\ CallsTyped /\ ConnsTyped /\ AmountsTyped
    BY DEF IInv
  <2>2. ConnsStep
    BY <2>1, ConnsMove
  <2> QED
    BY <2>1, <2>2, RowLeft
<1> QED
  BY <1>1, Inductive, PTL DEF Spec, AbandonedStays

-----------------------------------------------------------------------------
(* Quota. *)

USE QuotaAssumption

\* While nobody has written over what he had not read, the row of the master is the period.
RowIsPeriod ==
    ~lost => /\ row[Master].base = period[Master].base
             /\ row[Master].set = period[Master].begun
             /\ row[Master].left = period[Master].left

\* A call at the master counts from no later than the period does.
BaseRead == \A c \in Checker : check[c].at = Master /\ check[c].st \in Busy =>
    /\ ~check[c].old
    /\ check[c].fair /\ ~lost => check[c].row.base <= period[Master].base

QuotaInv == QuotaTypeOK /\ RowIsPeriod /\ BaseRead

PeriodType == [begun : BOOLEAN, base : 0..MaxTotal, left : Left]

LEMMA DaysTyped ==
    /\ 0 \in Days /\ \A d \in Days : d \in Nat
    /\ \A l \in Left : l \in Int
    /\ \A d \in Days, l \in Int : 0 <= l /\ l <= d => l \in Left
<1>1. 0 \in Days /\ \A d \in Days : d \in Nat
  BY DEF Days
<1>2. \A l \in Left : l \in Int
  BY <1>1 DEF Left
<1>3. ASSUME NEW d \in Days, NEW l \in Int, 0 <= l, l <= d PROVE l \in Left
  <2>1. l \in -MaxLate..d
    BY <1>1, <1>3
  <2> QED
    BY <2>1 DEF Left
<1> QED
  BY <1>1, <1>2, <1>3

LEMMA ShorterTyped == \A l \in Left : Shorter(l) \in Left
<1> SUFFICES ASSUME NEW l \in Left PROVE Shorter(l) \in Left
  OBVIOUS
<1>1. PICK d \in Days : l \in -MaxLate..d
  BY DEF Left
<1>2. d \in Nat
  BY DaysTyped
<1>3. Shorter(l) \in -MaxLate..d
  BY <1>1, <1>2 DEF Shorter
<1> QED
  BY <1>3 DEF Left

\* However many periods were missed, the next one ends within its length from now.
LEMMA Division ==
    ASSUME NEW d \in Nat \ {0}, NEW l \in Int, l < 0
    PROVE  l + ((-l) \div d + 1) * d \in 1..d
<1> DEFINE q == (-l) \div d
<1>1. q \in Int /\ d * q <= -l /\ -l < d * q + d
  OBVIOUS
<1>2. (q + 1) * d = d * q + d
  BY <1>1
<1> HIDE DEF q
<1>3. d * q \in Int
  BY <1>1
<1>4. l + (d * q + d) \in 1..d
  BY <1>1, <1>3
<1> QED
  BY <1>2, <1>4 DEF q

LEMMA NextAhead == \A r \in Row : Over(r) => NextLeft(r) \in 1..r.days
<1> SUFFICES ASSUME NEW r \in Row, Over(r) PROVE NextLeft(r) \in 1..r.days
  OBVIOUS
<1>0. r.days \in Days /\ r.left \in Left /\ r.set \in BOOLEAN /\ r.days > 0
  BY DEF Row, Over
<1>1. r.days \in Nat \ {0} /\ r.left \in Int /\ r.set \in BOOLEAN
  BY <1>0, DaysTyped
<1>2. CASE ~r.set
  BY <1>1, <1>2 DEF NextLeft
<1>3. CASE r.set
  <2>1. r.left < 0
    BY <1>3 DEF Over
  <2> QED
    BY <1>1, <1>3, <2>1, Division DEF NextLeft
<1> QED
  BY <1>1, <1>2, <1>3

LEMMA Shapes ==
    /\ NoRow \in Row /\ \A p \in Plan : Fresh(p) \in Row
    /\ NoPeriod \in PeriodType
    /\ \A n \in Node, st \in Phase : Answered(n, st) \in Check
<1>1. NoRow \in Row /\ \A p \in Plan : Fresh(p) \in Row
  BY DaysTyped DEF NoRow, Fresh, Row, Days
<1> QED
  BY <1>1, DaysTyped DEF Answered, Check, NoPeriod, PeriodType

-----------------------------------------------------------------------------
(* Types. *)

\* What a call writes into a row, and what the row it goes on with is then.
LEMMA Rewritten ==
    ASSUME NEW r \in Row, NEW base \in 0..MaxTotal, NEW set \in BOOLEAN, NEW due \in Left
    PROVE  /\ [r EXCEPT !.base = base, !.set = set, !.left = due] \in Row
           /\ [r EXCEPT !.base = base, !.set = set, !.left = due].base = base
           /\ [r EXCEPT !.base = base, !.set = set, !.left = due].limit = r.limit
           /\ [r EXCEPT !.base = base, !.set = set, !.left = due].days = r.days
BY DEF Row

\* A statement of setTrafficBase leaves the calls and the rows of their types.
LEMMA SetBaseTyped ==
    ASSUME QuotaTypeOK, NEW c \in Checker, NEW st \in Phase, NEW base \in 0..MaxTotal,
           NEW set \in BOOLEAN, NEW due \in Left, SetBase(c, st, base, set, due)
    PROVE  /\ check' \in [Checker -> Check] /\ row' \in [Node -> Row] /\ lost' \in BOOLEAN
<1> DEFINE n == check[c].at
           r == check[c].row
           s == [r EXCEPT !.base = base, !.set = set, !.left = due]
           w == [row[n] EXCEPT !.base = base, !.set = set, !.left = due]
<1>1. check[c] \in Check /\ n \in Node /\ r \in Row /\ row[n] \in Row
  BY DEF QuotaTypeOK, Check
<1>2. s \in Row /\ w \in Row
  BY <1>1, Rewritten
<1>3. lost' \in BOOLEAN
  BY DEF SetBase, QuotaTypeOK
<1>4. row' = IF check[c].old THEN row ELSE [row EXCEPT ![n] = w]
  BY <1>1 DEF SetBase, QuotaTypeOK, Row
<1>5. check' = [k \in Checker |->
        IF k = c THEN [check[c] EXCEPT !.st = st, !.row = s]
        ELSE [check[k] EXCEPT !.fair = @ /\ (check[k].at = n => base >= r.base)]]
  BY DEF SetBase
<1> HIDE DEF s, w, n, r
<1>6. row' \in [Node -> Row]
  BY <1>1, <1>2, <1>4 DEF QuotaTypeOK
<1>7. [check[c] EXCEPT !.st = st, !.row = s] \in Check
  BY <1>1, <1>2 DEF Check
<1>8. ASSUME NEW k \in Checker
      PROVE  [check[k] EXCEPT !.fair = @ /\ (check[k].at = n => base >= r.base)] \in Check
  <2> DEFINE f == check[k].fair /\ (check[k].at = n => base >= r.base)
  <2>1. f \in BOOLEAN
    OBVIOUS
  <2>2. [check[k] EXCEPT !.fair = @ /\ (check[k].at = n => base >= r.base)]
          = [check[k] EXCEPT !.fair = f]
    BY Zenon
  <2> HIDE DEF f
  <2>3. [check[k] EXCEPT !.fair = f] \in Check
    BY <2>1 DEF Check, QuotaTypeOK
  <2> QED
    BY <2>2, <2>3
<1>9. check' \in [Checker -> Check]
  BY <1>5, <1>7, <1>8
<1> QED
  BY <1>3, <1>6, <1>9

LEMMA TypeInit == QuotaInit => QuotaTypeOK
<1> SUFFICES ASSUME QuotaInit PROVE QuotaTypeOK
  OBVIOUS
<1>1. PICK p \in Plan : row = [n \in Node |-> Fresh(p)]
  BY DEF QuotaInit
<1>2. row \in [Node -> Row]
  BY <1>1, Shapes
<1>3. check \in [Checker -> Check]
  BY Shapes DEF QuotaInit, Phase
<1>4. period \in [Node -> PeriodType]
  BY Shapes DEF QuotaInit
<1>5. reset \in [st : {"idle", "days", "write"}, used : 0..MaxTotal, days : Days]
  BY DaysTyped DEF QuotaInit
<1>6. total \in [Node -> 0..MaxTotal] /\ lost \in BOOLEAN /\ events \in 0..MaxEvents
  <2>1. 0 \in 0..MaxTotal /\ 0 \in 0..MaxEvents
    OBVIOUS
  <2> QED
    BY <2>1 DEF QuotaInit
<1> QED
  BY <1>2, <1>3, <1>4, <1>5, <1>6 DEF QuotaTypeOK, PeriodType

\* A step of the calls that changes one field of each keeps them calls.
LEMMA TypeStep == QuotaTypeOK /\ [QuotaNext]_quotaVars => QuotaTypeOK'
<1> SUFFICES ASSUME QuotaTypeOK, [QuotaNext]_quotaVars PROVE QuotaTypeOK'
  OBVIOUS
<1>a. /\ total \in [Node -> 0..MaxTotal] /\ row \in [Node -> Row]
      /\ check \in [Checker -> Check]
      /\ reset \in [st : {"idle", "days", "write"}, used : 0..MaxTotal, days : Days]
      /\ period \in [Node -> PeriodType]
      /\ lost \in BOOLEAN /\ events \in 0..MaxEvents
  BY DEF QuotaTypeOK, PeriodType
<1>b. Unfair => check' \in [Checker -> Check]
  <2> SUFFICES ASSUME Unfair, NEW c \in Checker PROVE check'[c] \in Check
    BY DEF Unfair
  <2>1. check'[c] = [check[c] EXCEPT !.fair = FALSE] /\ check[c] \in Check
    BY <1>a DEF Unfair
  <2> QED
    BY <2>1 DEF Check
<1> DEFINE G == /\ total' \in [Node -> 0..MaxTotal] /\ row' \in [Node -> Row]
                /\ check' \in [Checker -> Check]
                /\ reset' \in [st : {"idle", "days", "write"}, used : 0..MaxTotal, days : Days]
                /\ period' \in [Node -> PeriodType]
                /\ lost' \in BOOLEAN /\ events' \in 0..MaxEvents
<1>s. SUFFICES G
  BY DEF QuotaTypeOK, PeriodType
<1>1. CASE Tick
  <2>1. row' \in [Node -> Row]
    <3> SUFFICES ASSUME NEW n \in Node PROVE row'[n] \in Row
      BY <1>1 DEF Tick
    <3> DEFINE l == IF row[n].set THEN Shorter(row[n].left) ELSE row[n].left
    <3>1. row[n] \in Row /\ l \in Left
      BY <1>a, ShorterTyped DEF Row
    <3>2. row'[n] = [row[n] EXCEPT !.left = l]
      BY <1>1 DEF Tick
    <3> HIDE DEF l
    <3> QED
      BY <3>1, <3>2 DEF Row
  <2>2. \A c \in Checker : check[c].row \in Row
    BY <1>a DEF Check
  <2>3. ASSUME NEW c \in Checker PROVE check'[c] \in Check
    <3> DEFINE l == IF check[c].row.set THEN Shorter(check[c].row.left) ELSE check[c].row.left
               r == [check[c].row EXCEPT !.left = l]
    <3>1. l \in Left
      BY <2>2, ShorterTyped DEF Row
    <3>2. check'[c] = [check[c] EXCEPT !.row = r]
      BY <1>1, <1>a, <2>2 DEF Tick, Check, Row
    <3> HIDE DEF l
    <3>3. r \in Row
      BY <2>2, <3>1 DEF Row
    <3> HIDE DEF r
    <3> QED
      BY <1>a, <3>2, <3>3 DEF Check
  <2>4. check' \in [Checker -> Check]
    BY <1>1, <2>3 DEF Tick
  <2>5. period' \in [Node -> PeriodType]
    BY <1>1, <1>a, ShorterTyped DEF Tick, PeriodType
  <2> QED
    BY <1>1, <1>a, <2>1, <2>4, <2>5 DEF Tick
<1>2. CASE Reported
  BY <1>2, <1>a DEF Reported
<1>3. CASE Dip
  BY <1>3, <1>a DEF Dip
<1>4. ASSUME NEW n \in Node, SwapFile(n) PROVE G
  <2>1. check' \in [Checker -> Check]
    <3>1. ASSUME NEW c \in Checker
          PROVE  [check[c] EXCEPT !.old = TRUE, !.fair = FALSE] \in Check /\ check[c] \in Check
      BY <1>a DEF Check
    <3> QED
      BY <1>4, <3>1 DEF SwapFile
  <2>2. period' \in [Node -> PeriodType]
    BY <1>4, <1>a DEF SwapFile
  <2> QED
    BY <1>4, <1>a, <2>1, <2>2 DEF SwapFile
<1>5. ASSUME NEW p \in Plan, SetTrafficLimit(p) PROVE G
  <2>1. p.limit \in {q.limit : q \in Plan} \cup {0} /\ p.days \in Days
    BY DEF Days
  <2>2. row' \in [Node -> Row]
    <3>1. row' = [row EXCEPT ![Master] = [row[Master] EXCEPT !.limit = p.limit, !.days = p.days]]
      BY <1>5, <1>a DEF SetTrafficLimit
    <3>2. [row[Master] EXCEPT !.limit = p.limit, !.days = p.days] \in Row
      <4>1. row[Master] \in Row
        BY <1>a
      <4> QED
        BY <2>1, <4>1 DEF Row
    <3> QED
      BY <1>a, <3>1, <3>2
  <2>3. events' \in 0..MaxEvents
    BY <1>5, <1>a DEF SetTrafficLimit
  <2> QED
    BY <1>5, <1>a, <1>b, <2>2, <2>3 DEF SetTrafficLimit
<1>6. CASE ResetRead
  BY <1>6, <1>a, DaysTyped DEF ResetRead
<1>7. CASE ResetDays
  <2>1. row[Master].days \in Days
    BY <1>a DEF Row
  <2> QED
    BY <1>7, <1>a, <2>1 DEF ResetDays
<1>8. CASE ResetWrite
  <2>1. reset.days \in Left /\ reset.used \in 0..MaxTotal /\ (reset.days > 0) \in BOOLEAN
    BY <1>a, DaysTyped
  <2>2. row' \in [Node -> Row]
    <3> DEFINE w == [row[Master] EXCEPT !.base = reset.used, !.set = reset.days > 0,
                                        !.left = reset.days]
    <3>1. row' = [row EXCEPT ![Master] = w]
      BY <1>8, <1>a DEF ResetWrite
    <3>2. w \in Row
      <4>1. row[Master] \in Row
        BY <1>a
      <4> QED
        BY <2>1, <4>1, Rewritten
    <3> HIDE DEF w
    <3> QED
      BY <1>a, <3>1, <3>2
  <2>3. period' \in [Node -> PeriodType]
    BY <1>8, <2>1, Shapes DEF ResetWrite, PeriodType
  <2>4. reset' \in [st : {"idle", "days", "write"}, used : 0..MaxTotal, days : Days]
    <3>1. 0 \in 0..MaxTotal /\ 0 \in Days
      BY DaysTyped
    <3> QED
      BY <1>8, <3>1 DEF ResetWrite
  <2> QED
    BY <1>8, <1>a, <1>b, <2>2, <2>3, <2>4 DEF ResetWrite
<1>9. ASSUME NEW c \in Checker, NEW n \in Node, ReadRow(c, n) PROVE G
  <2>1. Current(n, row[n].days) \in BOOLEAN
    BY <1>a DEF Current, PeriodType
  <2>2. check' \in [Checker -> Check]
    <3> DEFINE f == Current(n, row[n].days)
               e == [st |-> "total", at |-> n, row |-> row[n], used |-> total[n],
                     old |-> FALSE, fair |-> f]
    <3>1. check' = [check EXCEPT ![c] = e]
      BY <1>9 DEF ReadRow
    <3> HIDE DEF f
    <3>2. e \in Check
      BY <1>a, <2>1 DEF Check, Phase, f
    <3> HIDE DEF e
    <3> QED
      BY <1>a, <3>1, <3>2
  <2> QED
    BY <1>9, <1>a, <2>2 DEF ReadRow
<1>10. ASSUME NEW c \in Checker, ReadTotal(c) PROVE G
  <2>1. check' \in [Checker -> Check]
    <3> DEFINE u == IF check[c].old THEN check[c].used ELSE total[check[c].at]
               e == [check[c] EXCEPT !.st = "write", !.used = u]
    <3>1. check' = [check EXCEPT ![c] = e]
      BY <1>10, <1>a DEF ReadTotal
    <3>2. check[c] \in Check /\ u \in 0..MaxTotal
      BY <1>a DEF Check
    <3> HIDE DEF u
    <3>3. e \in Check
      BY <3>2 DEF Check, Phase
    <3> HIDE DEF e
    <3> QED
      BY <1>a, <3>1, <3>3
  <2> QED
    BY <1>10, <1>a, <2>1 DEF ReadTotal
<1>11. ASSUME NEW c \in Checker, WriteDip(c) PROVE G
  <2>1. /\ check[c].used \in 0..MaxTotal /\ check[c].row.set \in BOOLEAN
        /\ check[c].row.left \in Left /\ "write" \in Phase /\ check[c].at \in Node
    BY <1>a DEF Check, Row, Phase
  <2>2. SetBase(c, "write", check[c].used, check[c].row.set, check[c].row.left)
    BY <1>11 DEF WriteDip
  <2>3. check' \in [Checker -> Check] /\ row' \in [Node -> Row] /\ lost' \in BOOLEAN
    BY <2>1, <2>2, SetBaseTyped
  <2>4. period' \in [Node -> PeriodType]
    BY <1>11, <1>a, <2>1 DEF WriteDip, PeriodType
  <2> QED
    BY <1>11, <1>a, <2>3, <2>4 DEF WriteDip
<1>12. ASSUME NEW c \in Checker, WritePeriod(c) PROVE G
  <2>1. /\ check[c].used \in 0..MaxTotal /\ check[c].row \in Row
        /\ "verdict" \in Phase /\ check[c].at \in Node
    BY <1>a DEF Check, Phase
  <2>2. /\ SetBase(c, "verdict", check[c].used, TRUE, NextLeft(check[c].row))
        /\ Over(check[c].row) /\ Begin(c) /\ UNCHANGED <<total, reset, events>>
    BY <1>12 DEF WritePeriod
  <2>3. NextLeft(check[c].row) \in Left
    <3>1. check[c].row.days \in Days
      BY <2>1 DEF Row
    <3>2. NextLeft(check[c].row) \in 1..check[c].row.days
      BY <2>1, <2>2, NextAhead
    <3> QED
      BY <3>1, <3>2, DaysTyped
  <2>4. check' \in [Checker -> Check] /\ row' \in [Node -> Row] /\ lost' \in BOOLEAN
    <3>1. TRUE \in BOOLEAN
      OBVIOUS
    <3> QED
      BY <2>1, <2>2, <2>3, <3>1, SetBaseTyped
  <2>5. period' \in [Node -> PeriodType]
    BY <2>1, <2>2, <2>3, <1>a DEF Begin, PeriodType
  <2> QED
    BY <2>2, <1>a, <2>4, <2>5
<1>13. ASSUME NEW c \in Checker, Verdict(c) PROVE G
  <2>1. check[c].at \in Node
    BY <1>a DEF Check
  <2>2. Answered(check[c].at, IF Exceeded(c) THEN "refused" ELSE "admitted") \in Check
    BY <2>1, Shapes DEF Phase
  <2> QED
    BY <1>13, <1>a, <2>2 DEF Verdict
<1>14. ASSUME NEW c \in Checker, Fails(c) PROVE G
  <2>1. check[c].at \in Node
    BY <1>a DEF Check
  <2>2. Answered(check[c].at, "waved") \in Check
    BY <2>1, Shapes DEF Phase
  <2> QED
    BY <1>14, <1>a, <2>2 DEF Fails
<1>15. CASE UNCHANGED quotaVars
  BY <1>15, <1>a DEF quotaVars
<1> QED
  BY <1>1, <1>2, <1>3, <1>4, <1>5, <1>6, <1>7, <1>8, <1>9, <1>10, <1>11, <1>12, <1>13, <1>14,
     <1>15 DEF QuotaNext, GoOn

\* Rows, calls, totals and periods keep their types (quota.go QuotaOf): amounts stay within what was
\* reported and deadlines within a period from now.
THEOREM QuotaTyped == QuotaSpec => []QuotaTypeOK
<1> QED
  BY TypeInit, TypeStep, PTL DEF QuotaSpec

-----------------------------------------------------------------------------
(* The row of the master and the period, and what a call has read of them. *)

LEMMA InvInit == QuotaInit => RowIsPeriod /\ BaseRead
<1> SUFFICES ASSUME QuotaInit PROVE RowIsPeriod /\ BaseRead
  OBVIOUS
<1>1. PICK p \in Plan : row = [n \in Node |-> Fresh(p)]
  BY DEF QuotaInit
<1>2. RowIsPeriod
  BY <1>1 DEF QuotaInit, RowIsPeriod, Fresh, NoPeriod
<1>3. BaseRead
  BY DEF QuotaInit, BaseRead, Answered, Busy
<1> QED
  BY <1>2, <1>3

\* What a call is and the numbers that are compared.
LEMMA Numbers ==
    ASSUME QuotaTypeOK
    PROVE  /\ \A n \in Node : /\ row[n] \in Row /\ row[n].base \in Int /\ period[n].base \in Int
                              /\ period[n].begun \in BOOLEAN /\ period[n].left \in Int
                              /\ row[n].set \in BOOLEAN /\ row[n].left \in Int
           /\ \A c \in Checker : /\ check[c].used \in Int /\ check[c].row.base \in Int
                                 /\ check[c] \in Check /\ check[c].at \in Node
                                 /\ check[c].row \in Row /\ check[c].fair \in BOOLEAN
                                 /\ check[c].row.set \in BOOLEAN /\ check[c].row.left \in Int
<1>1. row \in [Node -> Row] /\ check \in [Checker -> Check] /\ period \in [Node -> PeriodType]
  BY DEF QuotaTypeOK, PeriodType
<1>2. ASSUME NEW r \in Row PROVE r.base \in Int /\ r.set \in BOOLEAN /\ r.left \in Int
  BY DaysTyped DEF Row
<1>3. ASSUME NEW e \in Check
      PROVE  e.used \in Int /\ e.at \in Node /\ e.row \in Row /\ e.fair \in BOOLEAN
  BY DEF Check
<1>4. ASSUME NEW q \in PeriodType
      PROVE  q.base \in Int /\ q.begun \in BOOLEAN /\ q.left \in Int
  BY DaysTyped DEF PeriodType
<1> QED
  BY <1>1, <1>2, <1>3, <1>4

\* A call at the master has its database: whoever writes there without loss writes over what he
\* has read, and the others go on with what they read, unless the base came down.
LEMMA SetBaseAt ==
    ASSUME QuotaTypeOK, NEW c \in Checker, NEW st, NEW base \in Int, NEW set, NEW due \in Int,
           SetBase(c, st, base, set, due)
    PROVE  /\ check[c].at # Master => row'[Master] = row[Master]
           /\ check[c].at = Master /\ ~check[c].old =>
                /\ row'[Master].base = base /\ row'[Master].set = set /\ row'[Master].left = due
                /\ ~lost' => /\ row[Master].base = check[c].row.base
                             /\ row[Master].set = check[c].row.set
                             /\ row[Master].left = check[c].row.left
           /\ ~lost' => ~lost
           /\ check'[c].at = check[c].at /\ check'[c].old = check[c].old
           /\ check'[c].fair = check[c].fair
           /\ check'[c].row.base = base /\ check'[c].row.days = check[c].row.days
           /\ check'[c].row.left = due /\ check'[c].st = st
           /\ \A k \in Checker \ {c} :
                /\ check'[k].at = check[k].at /\ check'[k].old = check[k].old
                /\ check'[k].st = check[k].st /\ check'[k].row = check[k].row
                /\ check'[k].fair => check[k].fair
                /\ check'[k].fair /\ check[k].at = check[c].at => base >= check[c].row.base
<1> DEFINE n == check[c].at
           r == check[c].row
           s == [r EXCEPT !.base = base, !.set = set, !.left = due]
           w == [row[n] EXCEPT !.base = base, !.set = set, !.left = due]
<1>1. /\ row \in [Node -> Row] /\ n \in Node /\ check[c] \in Check /\ r \in Row
      /\ row[n] \in Row /\ check \in [Checker -> Check]
  BY DEF QuotaTypeOK, Check
<1>2. row' = IF check[c].old THEN row ELSE [row EXCEPT ![n] = w]
  BY <1>1 DEF SetBase
<1>3. check' = [k \in Checker |->
        IF k = c THEN [check[c] EXCEPT !.st = st, !.row = s]
        ELSE [check[k] EXCEPT !.fair = @ /\ (check[k].at = n => base >= r.base)]]
  BY DEF SetBase
<1>4. lost' = (lost \/ (~check[c].old /\
                <<row[n].base, row[n].set, row[n].left>> # <<r.base, r.set, r.left>>))
  BY DEF SetBase
<1>5. w.base = base /\ w.set = set /\ w.left = due
  BY <1>1 DEF Row
<1>6. s.base = base /\ s.days = r.days /\ s.left = due
  BY <1>1 DEF Row
<1> HIDE DEF w, s
<1>7. check'[c] = [check[c] EXCEPT !.st = st, !.row = s]
  BY <1>3
<1>8. /\ check'[c].at = n /\ check'[c].old = check[c].old /\ check'[c].fair = check[c].fair
      /\ check'[c].row = s /\ check'[c].st = st
  BY <1>1, <1>7 DEF Check
<1>9. ASSUME NEW k \in Checker \ {c}
      PROVE  /\ check'[k].at = check[k].at /\ check'[k].old = check[k].old
             /\ check'[k].st = check[k].st /\ check'[k].row = check[k].row
             /\ check'[k].fair => check[k].fair
             /\ check'[k].fair /\ check[k].at = n => base >= r.base
  <2> DEFINE f == check[k].fair /\ (check[k].at = n => base >= r.base)
  <2>1. check'[k] = [check[k] EXCEPT !.fair = f] /\ check[k] \in Check
    BY <1>1, <1>3
  <2> HIDE DEF f
  <2>2. /\ check'[k].at = check[k].at /\ check'[k].old = check[k].old
        /\ check'[k].st = check[k].st /\ check'[k].row = check[k].row /\ check'[k].fair = f
    BY <2>1 DEF Check
  <2> QED
    BY <2>2 DEF f
<1>10. n # Master => row'[Master] = row[Master]
  BY <1>1, <1>2
<1>11. n = Master /\ ~check[c].old => row'[Master] = w
  BY <1>1, <1>2
<1>12. ~lost' => ~lost
  BY <1>4
<1>13. n = Master /\ ~check[c].old /\ ~lost' =>
         row[Master].base = r.base /\ row[Master].set = r.set /\ row[Master].left = r.left
  BY <1>4
<1> QED
  BY <1>5, <1>6, <1>8, <1>9, <1>10, <1>11, <1>12, <1>13

\* Where the row and the period of the master stay, and no call there learns anything new.
LEMMA Untouched ==
    ASSUME QuotaInv, row'[Master] = row[Master], period'[Master] = period[Master],
           ~lost' => ~lost,
           \A c \in Checker : check'[c].at = Master /\ check'[c].st \in Busy =>
               /\ check[c].at = Master /\ check[c].st \in Busy
               /\ check'[c].old = check[c].old /\ check'[c].row.base = check[c].row.base
               /\ check'[c].fair => check[c].fair
    PROVE  RowIsPeriod' /\ BaseRead'
BY DEF QuotaInv, RowIsPeriod, BaseRead

LEMMA InvStep == QuotaInv /\ [QuotaNext]_quotaVars => QuotaInv'
<1> SUFFICES ASSUME QuotaInv, [QuotaNext]_quotaVars PROVE RowIsPeriod' /\ BaseRead'
  BY TypeStep DEF QuotaInv
<1>a. QuotaTypeOK /\ RowIsPeriod /\ BaseRead
  BY DEF QuotaInv
<1>b. /\ row \in [Node -> Row] /\ check \in [Checker -> Check] /\ period \in [Node -> PeriodType]
      /\ Master \in Node
  BY <1>a DEF QuotaTypeOK, PeriodType
<1>1. CASE Tick
  <2>1. /\ row'[Master].base = row[Master].base /\ row'[Master].set = row[Master].set
        /\ row'[Master].left = IF row[Master].set THEN Shorter(row[Master].left)
                               ELSE row[Master].left
        /\ period'[Master].base = period[Master].base
        /\ period'[Master].begun = period[Master].begun
        /\ period'[Master].left = IF period[Master].begun THEN Shorter(period[Master].left)
                                  ELSE period[Master].left
        /\ lost' = lost
    BY <1>1, <1>b DEF Tick, Row, PeriodType
  <2>2. ASSUME NEW c \in Checker
        PROVE  /\ check'[c].at = check[c].at /\ check'[c].st = check[c].st
               /\ check'[c].old = check[c].old /\ check'[c].fair = check[c].fair
               /\ check'[c].row.base = check[c].row.base
    <3> DEFINE l == IF check[c].row.set THEN Shorter(check[c].row.left) ELSE check[c].row.left
               r == [check[c].row EXCEPT !.left = l]
    <3>1. check[c] \in Check /\ check[c].row \in Row
      BY <1>b DEF Check
    <3>2. check'[c] = [check[c] EXCEPT !.row = r]
      BY <1>1, <3>1 DEF Tick, Check, Row
    <3> HIDE DEF l
    <3>3. r.base = check[c].row.base
      BY <3>1 DEF Row
    <3> HIDE DEF r
    <3> QED
      BY <3>1, <3>2, <3>3 DEF Check
  <2> QED
    BY <1>a, <2>1, <2>2 DEF RowIsPeriod, BaseRead
<1>2. CASE Reported
  BY <1>2, Untouched DEF Reported
<1>3. CASE Dip
  BY <1>3, Untouched DEF Dip
<1>4. ASSUME NEW n \in Node, SwapFile(n) PROVE RowIsPeriod' /\ BaseRead'
  <2>1. n # Master /\ row'[Master] = row[Master] /\ lost' = lost
    BY <1>4, <1>b DEF SwapFile
  <2>2. period'[Master] = period[Master]
    BY <1>4, <1>b, <2>1 DEF SwapFile
  <2>3. ASSUME NEW c \in Checker, check'[c].at = Master
        PROVE  check'[c] = check[c]
    <3>1. check[c] \in Check /\ check'[c].at = check[c].at
      BY <1>4, <1>b DEF SwapFile, Check
    <3> QED
      BY <1>4, <2>1, <2>3, <3>1 DEF SwapFile
  <2> QED
    BY <2>1, <2>2, <2>3, Untouched
<1>5. ASSUME NEW p \in Plan, SetTrafficLimit(p) PROVE RowIsPeriod' /\ BaseRead'
  <2>1. /\ row'[Master].base = row[Master].base /\ row'[Master].set = row[Master].set
        /\ row'[Master].left = row[Master].left
        /\ period' = period /\ lost' = lost
    BY <1>5, <1>b DEF SetTrafficLimit, Row
  <2>2. \A c \in Checker : /\ check'[c].at = check[c].at /\ check'[c].st = check[c].st
                           /\ check'[c].old = check[c].old /\ check'[c].fair = FALSE
    BY <1>5, <1>b DEF SetTrafficLimit, Unfair, Check
  <2> QED
    BY <1>a, <2>1, <2>2 DEF RowIsPeriod, BaseRead
<1>6. CASE ResetRead
  BY <1>6, Untouched DEF ResetRead
<1>7. CASE ResetDays
  BY <1>7, Untouched DEF ResetDays
<1>8. CASE ResetWrite
  <2>1. /\ row'[Master].base = reset.used /\ row'[Master].set = (reset.days > 0)
        /\ row'[Master].left = reset.days
        /\ period'[Master] = [begun |-> reset.days > 0, base |-> reset.used, left |-> reset.days]
    BY <1>8, <1>b DEF ResetWrite, Row
  <2>2. \A c \in Checker : /\ check'[c].at = check[c].at /\ check'[c].st = check[c].st
                           /\ check'[c].old = check[c].old /\ check'[c].fair = FALSE
    BY <1>8, <1>b DEF ResetWrite, Unfair, Check
  <2> QED
    BY <1>a, <2>1, <2>2 DEF RowIsPeriod, BaseRead
<1>9. ASSUME NEW c \in Checker, NEW n \in Node, ReadRow(c, n) PROVE RowIsPeriod' /\ BaseRead'
  <2>1. /\ row' = row /\ period' = period /\ lost' = lost
        /\ check'[c].at = n /\ check'[c].old = FALSE /\ check'[c].row = row[n]
        /\ \A k \in Checker \ {c} : check'[k] = check[k]
    BY <1>9, <1>b DEF ReadRow
  <2>2. RowIsPeriod'
    BY <1>a, <2>1 DEF RowIsPeriod
  <2>3. ASSUME NEW k \in Checker, check'[k].at = Master, check'[k].st \in Busy
        PROVE  ~check'[k].old /\ (check'[k].fair /\ ~lost' => check'[k].row.base <= period'[Master].base)
    <3>1. CASE k = c
      <4>1. ~lost => row[Master].base <= period[Master].base
        BY <1>a, Numbers DEF RowIsPeriod
      <4> QED
        BY <2>1, <2>3, <3>1, <4>1
    <3>2. CASE k # c
      BY <1>a, <2>1, <2>3, <3>2 DEF BaseRead
    <3> QED
      BY <3>1, <3>2
  <2> QED
    BY <2>2, <2>3 DEF BaseRead
<1>10. ASSUME NEW c \in Checker, ReadTotal(c) PROVE RowIsPeriod' /\ BaseRead'
  <2>1. /\ row' = row /\ period' = period /\ lost' = lost /\ check[c].st = "total"
        /\ check'[c].at = check[c].at /\ check'[c].old = check[c].old
        /\ check'[c].row = check[c].row /\ check'[c].fair = check[c].fair
        /\ \A k \in Checker \ {c} : check'[k] = check[k]
    BY <1>10, <1>b DEF ReadTotal, Check
  <2> QED
    BY <2>1, Untouched DEF Busy
<1>11. ASSUME NEW c \in Checker, WriteDip(c) PROVE RowIsPeriod' /\ BaseRead'
  <2> DEFINE n == check[c].at
             u == check[c].used
             r == check[c].row
  <2>0. /\ n \in Node /\ u \in Int /\ r.base \in Int /\ r.left \in Int
        /\ period[Master].base \in Int /\ period[Master] \in PeriodType
        /\ row[Master].base \in Int
    BY <1>a, <1>b, Numbers
  <2>1. /\ check[c].st = "write" /\ u < r.base
        /\ SetBase(c, "write", u, r.set, r.left)
        /\ period' = [period EXCEPT ![n].base = IF u < @ THEN u ELSE @]
    BY <1>11 DEF WriteDip
  <2>2. /\ n # Master => row'[Master] = row[Master]
        /\ n = Master /\ ~check[c].old =>
             /\ row'[Master].base = u /\ row'[Master].set = r.set /\ row'[Master].left = r.left
             /\ ~lost' => /\ row[Master].base = r.base /\ row[Master].set = r.set
                          /\ row[Master].left = r.left
        /\ ~lost' => ~lost
        /\ check'[c].at = n /\ check'[c].old = check[c].old /\ check'[c].fair = check[c].fair
        /\ check'[c].row.base = u
        /\ \A k \in Checker \ {c} :
             /\ check'[k].at = check[k].at /\ check'[k].old = check[k].old
             /\ check'[k].st = check[k].st /\ check'[k].row = check[k].row
             /\ check'[k].fair => check[k].fair
             /\ check'[k].fair /\ check[k].at = n => u >= r.base
    BY <1>a, <2>0, <2>1, SetBaseAt
  <2>3. CASE n # Master
    <3>1. period'[Master] = period[Master]
      BY <1>b, <2>0, <2>1, <2>3
    <3> QED
      BY <2>2, <2>3, <3>1, Untouched
  <2>4. CASE n = Master
    <3>1. ~check[c].old
      BY <1>a, <2>1, <2>4 DEF BaseRead, Busy
    <3>2. /\ period'[Master].base = IF u < period[Master].base THEN u ELSE period[Master].base
          /\ period'[Master].begun = period[Master].begun
          /\ period'[Master].left = period[Master].left
      BY <1>b, <2>0, <2>1, <2>4 DEF PeriodType
    <3>3. ~lost' => period'[Master].base = u
      BY <1>a, <2>0, <2>1, <2>2, <2>4, <3>1, <3>2 DEF RowIsPeriod
    <3>4. RowIsPeriod'
      BY <1>a, <2>2, <2>4, <3>1, <3>2, <3>3 DEF RowIsPeriod
    <3>5. ASSUME NEW k \in Checker, check'[k].at = Master, check'[k].st \in Busy
          PROVE  ~check'[k].old /\ (check'[k].fair /\ ~lost' => check'[k].row.base <= period'[Master].base)
      <4>1. CASE k = c
        BY <2>0, <2>2, <3>1, <3>3, <4>1
      <4>2. CASE k # c
        <5>1. ~check'[k].fair
          BY <2>0, <2>1, <2>2, <2>4, <3>5, <4>2
        <5>2. ~check'[k].old
          BY <1>a, <2>2, <3>5, <4>2 DEF BaseRead
        <5> QED
          BY <5>1, <5>2
      <4> QED
        BY <4>1, <4>2
    <3> QED
      BY <3>4, <3>5 DEF BaseRead
  <2> QED
    BY <2>3, <2>4
<1>12. ASSUME NEW c \in Checker, WritePeriod(c) PROVE RowIsPeriod' /\ BaseRead'
  <2> DEFINE n == check[c].at
             u == check[c].used
             r == check[c].row
             l == NextLeft(r)
             yes == TRUE
  <2>0. /\ n \in Node /\ u \in Int /\ r \in Row /\ r.base \in Int /\ r.left \in Int
        /\ period[Master].base \in Int /\ period[Master].left \in Int
        /\ row[Master].base \in Int /\ \A k \in Checker : check[k].row.base \in Int
    BY <1>a, <1>b, Numbers
  <2>1. /\ check[c].st = "write" /\ u >= r.base /\ Over(r)
        /\ SetBase(c, "verdict", u, TRUE, l)
        /\ period' = IF Current(n, r.days) \/ check[c].old THEN period
                     ELSE [period EXCEPT ![n] = [begun |-> TRUE, base |-> u, left |-> l]]
    BY <1>12 DEF WritePeriod, Begin
  <2>a. l \in Int
    <3>1. r.days \in Int
      BY <2>0, DaysTyped DEF Row
    <3> QED
      BY <2>0, <2>1, <3>1, NextAhead
  <2>b. SetBase(c, "verdict", u, yes, l)
    BY <2>1
  <2>c. period'[Master] = [begun |-> TRUE, base |-> u, left |-> l]
          => period'[Master].base = u /\ period'[Master].begun = yes /\ period'[Master].left = l
    OBVIOUS
  <2> HIDE DEF l, yes
  <2>2. /\ n # Master => row'[Master] = row[Master]
        /\ n = Master /\ ~check[c].old =>
             /\ row'[Master].base = u /\ row'[Master].set = yes /\ row'[Master].left = l
             /\ ~lost' => /\ row[Master].base = r.base /\ row[Master].set = r.set
                          /\ row[Master].left = r.left
        /\ ~lost' => ~lost
        /\ check'[c].at = n /\ check'[c].old = check[c].old /\ check'[c].fair = check[c].fair
        /\ check'[c].row.base = u
        /\ \A k \in Checker \ {c} :
             /\ check'[k].at = check[k].at /\ check'[k].old = check[k].old
             /\ check'[k].st = check[k].st /\ check'[k].row = check[k].row
             /\ check'[k].fair => check[k].fair
    BY <1>a, <2>0, <2>a, <2>b, SetBaseAt
  <2>3. CASE n # Master
    <3>1. period'[Master] = period[Master]
      BY <1>b, <2>0, <2>1, <2>3
    <3> QED
      BY <2>2, <2>3, <3>1, Untouched, <2>1 DEF Busy
  <2>4. CASE n = Master
    <3>1. ~check[c].old
      BY <1>a, <2>1, <2>4 DEF BaseRead, Busy
    \* The row that the call has read is the one that is there: its period is over.
    <3>2. ~lost' => ~Current(Master, r.days)
      BY <1>a, <2>0, <2>1, <2>2, <2>4, <3>1 DEF RowIsPeriod, Over, Current
    <3>3. ~lost' => period'[Master] = [begun |-> TRUE, base |-> u, left |-> l]
      BY <1>b, <2>1, <2>4, <3>1, <3>2
    <3>4. RowIsPeriod'
      BY <2>2, <2>4, <2>c, <3>1, <3>3 DEF RowIsPeriod
    <3>5. ASSUME NEW k \in Checker, check'[k].at = Master, check'[k].st \in Busy
          PROVE  ~check'[k].old /\ (check'[k].fair /\ ~lost' => check'[k].row.base <= period'[Master].base)
      <4>1. CASE k = c
        BY <2>0, <2>2, <3>1, <3>3, <4>1
      <4>2. CASE k # c
        <5>1. check[k].fair /\ ~lost' => check[k].row.base <= u
          BY <1>a, <2>0, <2>1, <2>2, <2>4, <3>1, <3>5, <4>2 DEF BaseRead, RowIsPeriod
        <5>2. ~check'[k].old
          BY <1>a, <2>2, <3>5, <4>2 DEF BaseRead
        <5> QED
          BY <2>2, <3>3, <4>2, <5>1, <5>2
      <4> QED
        BY <4>1, <4>2
    <3> QED
      BY <3>4, <3>5 DEF BaseRead
  <2> QED
    BY <2>3, <2>4
<1>13. ASSUME NEW c \in Checker, Verdict(c) PROVE RowIsPeriod' /\ BaseRead'
  <2>1. /\ row' = row /\ period' = period /\ lost' = lost
        /\ check'[c].st \notin Busy
        /\ \A k \in Checker \ {c} : check'[k] = check[k]
    BY <1>13, <1>b DEF Verdict, Answered, Busy
  <2> QED
    BY <2>1, Untouched
<1>14. ASSUME NEW c \in Checker, Fails(c) PROVE RowIsPeriod' /\ BaseRead'
  <2>1. /\ row' = row /\ period' = period /\ lost' = lost
        /\ check'[c].st \notin Busy
        /\ \A k \in Checker \ {c} : check'[k] = check[k]
    BY <1>14, <1>b DEF Fails, Answered, Busy
  <2> QED
    BY <2>1, Untouched
<1>15. CASE UNCHANGED quotaVars
  BY <1>15, Untouched DEF quotaVars
<1> QED
  BY <1>1, <1>2, <1>3, <1>4, <1>5, <1>6, <1>7, <1>8, <1>9, <1>10, <1>11, <1>12, <1>13, <1>14,
     <1>15 DEF QuotaNext, GoOn

LEMMA QuotaInvariant == QuotaSpec => []QuotaInv
<1>1. QuotaInit => QuotaInv
  BY TypeInit, InvInit DEF QuotaInv
<1> QED
  BY <1>1, InvStep, PTL DEF QuotaSpec

\* Nobody but the call itself brings a call under way further.
LEMMA OwnStep ==
    ASSUME QuotaTypeOK, [QuotaNext]_quotaVars, NEW c \in Checker,
           check[c].st \in Busy, check'[c].st # check[c].st
    PROVE  GoOn(c) \/ Fails(c)
<1>a. /\ check \in [Checker -> Check] /\ check[c] \in Check /\ check[c].row \in Row
      /\ check'[c] # check[c]
  BY Numbers DEF QuotaTypeOK
<1>1. /\ ~Reported /\ ~Dip /\ ~ResetRead /\ ~ResetDays /\ ~UNCHANGED quotaVars
  BY <1>a DEF Reported, Dip, ResetRead, ResetDays, quotaVars
<1>2. ~Tick
  <2> DEFINE l == IF check[c].row.set THEN Shorter(check[c].row.left) ELSE check[c].row.left
             r == [check[c].row EXCEPT !.left = l]
  <2>1. Tick => check'[c] = [check[c] EXCEPT !.row = r]
    BY <1>a DEF Tick, Check, Row
  <2> HIDE DEF r
  <2>2. Tick => check'[c].st = check[c].st
    BY <1>a, <2>1 DEF Check
  <2> QED
    BY <2>2
<1>3. ASSUME NEW n \in Node, SwapFile(n) PROVE FALSE
  <2>1. check'[c] = IF check[c].at = n THEN [check[c] EXCEPT !.old = TRUE, !.fair = FALSE]
                    ELSE check[c]
    BY <1>3 DEF SwapFile
  <2>2. check'[c].st = check[c].st
    BY <1>a, <2>1 DEF Check
  <2> QED
    BY <2>2
<1>4. ~Unfair
  <2>1. Unfair => check'[c] = [check[c] EXCEPT !.fair = FALSE]
    BY DEF Unfair
  <2> QED
    BY <1>a, <2>1 DEF Check
<1>5. ~ResetWrite /\ \A p \in Plan : ~SetTrafficLimit(p)
  BY <1>4 DEF ResetWrite, SetTrafficLimit
<1>6. \A k \in Checker, n \in Node : ~ReadRow(k, n)
  BY <1>a DEF ReadRow
<1>7. ASSUME NEW k \in Checker \ {c}
      PROVE  ~ReadTotal(k) /\ ~Verdict(k) /\ ~Fails(k)
  BY <1>a DEF ReadTotal, Verdict, Fails
<1>8. ASSUME NEW k \in Checker \ {c}, NEW st, NEW base, NEW set, NEW due,
             SetBase(k, st, base, set, due)
      PROVE  FALSE
  <2> DEFINE f == check[c].fair /\ (check[c].at = check[k].at => base >= check[k].row.base)
  <2>1. check'[c] = [check[c] EXCEPT !.fair = f]
    BY <1>8 DEF SetBase
  <2> HIDE DEF f
  <2> QED
    BY <1>a, <2>1 DEF Check
<1>9. \A k \in Checker \ {c} : ~WriteDip(k) /\ ~WritePeriod(k)
  BY <1>8 DEF WriteDip, WritePeriod
<1>10. PICK k \in Checker : GoOn(k) \/ Fails(k)
  BY <1>1, <1>2, <1>3, <1>5, <1>6 DEF QuotaNext
<1>11. k = c
  BY <1>7, <1>9, <1>10 DEF GoOn
<1> QED
  BY <1>10, <1>11

\* Where each statement of a call leads.
LEMMA Leads ==
    ASSUME QuotaTypeOK, NEW c \in Checker
    PROVE  /\ ReadTotal(c) => check'[c].st = "write"
           /\ Fails(c) => check'[c].st = "waved"
           /\ Verdict(c) => check'[c].st = IF Exceeded(c) THEN "refused" ELSE "admitted"
           /\ WriteDip(c) => check'[c].st = "write"
           /\ WritePeriod(c) => /\ check'[c].st = "verdict"
                                /\ check'[c].row.left = NextLeft(check[c].row)
<1>1. check \in [Checker -> Check] /\ check[c] \in Check /\ check[c].row \in Row
  BY Numbers DEF QuotaTypeOK
<1>2. ASSUME NEW st, NEW base, NEW set, NEW due, SetBase(c, st, base, set, due)
      PROVE  check'[c].st = st /\ check'[c].row.left = due
  <2> DEFINE s == [check[c].row EXCEPT !.base = base, !.set = set, !.left = due]
  <2>1. check'[c] = [check[c] EXCEPT !.st = st, !.row = s]
    BY <1>2 DEF SetBase
  <2>2. s.left = due
    BY <1>1 DEF Row
  <2> HIDE DEF s
  <2> QED
    BY <1>1, <2>1, <2>2 DEF Check
<1>3. ReadTotal(c) => check'[c].st = "write"
  BY <1>1 DEF ReadTotal, Check
<1>4. Fails(c) => check'[c].st = "waved"
  BY <1>1 DEF Fails, Answered
<1>5. Verdict(c) => check'[c].st = IF Exceeded(c) THEN "refused" ELSE "admitted"
  BY <1>1 DEF Verdict, Answered
<1>6. WriteDip(c) => check'[c].st = "write"
  BY <1>2 DEF WriteDip
<1>7. WritePeriod(c) => /\ check'[c].st = "verdict"
                        /\ check'[c].row.left = NextLeft(check[c].row)
  BY <1>2 DEF WritePeriod
<1> QED
  BY <1>3, <1>4, <1>5, <1>6, <1>7

\* Whatever calls, resets, changes and dips overlap, for any number of calls at once: what the master
\* lets in has not spent its limit in the period, unless the row was written over unread
\* (quota.go:43-106, node.go:475-503).
THEOREM OverrunsRefused == QuotaSpec => OverrunRefused
<1>1. ASSUME QuotaInv, [QuotaNext]_quotaVars, NEW c \in Checker, check[c].at = Master
      PROVE  ~Overlooked(c)
  <2> SUFFICES ASSUME Overlooked(c) PROVE FALSE
    OBVIOUS
  <2>1. /\ check[c].st \in Busy /\ check'[c].st = "admitted"
        /\ check[c].fair /\ ~lost /\ check[c].row.limit > 0
        /\ check[c].used - period[Master].base >= check[c].row.limit
    BY <1>1 DEF Overlooked
  <2>2. /\ check[c].used \in Int /\ check[c].row.base \in Int /\ check[c].row \in Row
        /\ period[Master].base \in Int
    BY <1>1, Numbers DEF QuotaInv
  <2>3. check[c].row.limit \in Int
    <3>1. check[c].row.limit \in {p.limit : p \in Plan} \cup {0}
      BY <2>2 DEF Row
    <3> QED
      BY <3>1
  <2>4. check[c].row.base <= period[Master].base
    BY <1>1, <2>1 DEF QuotaInv, BaseRead
  \* Only the verdict admits, and it compares with a base that is not later than the period's.
  <2>5. ~Exceeded(c)
    <3>1. GoOn(c) \/ Fails(c)
      BY <1>1, <2>1, OwnStep DEF QuotaInv, Busy
    <3> QED
      BY <1>1, <2>1, <3>1, Leads DEF GoOn, QuotaInv
  <2> QED
    BY <2>1, <2>2, <2>3, <2>4, <2>5 DEF Exceeded
<1>2. QuotaInv /\ [QuotaNext]_quotaVars
        => [\A c \in Checker : check[c].at = Master => ~Overlooked(c)]_quotaVars
  BY <1>1
<1> QED
  BY <1>2, QuotaInvariant, PTL DEF QuotaSpec, OverrunRefused

\* A period that a call starts lies ahead and is no longer than its length, however many were
\* missed: the arithmetic of quota.go:84-99 needs no loop.
THEOREM DeadlinesAhead == QuotaSpec => PeriodAhead
<1>1. ASSUME QuotaTypeOK, [QuotaNext]_quotaVars, NEW c \in Checker,
             check[c].st = "write", check'[c].st = "verdict"
      PROVE  check'[c].row.left \in 1..check[c].row.days
  <2>1. GoOn(c) \/ Fails(c)
    BY <1>1, OwnStep DEF Busy
  <2>2. WritePeriod(c) /\ check'[c].row.left = NextLeft(check[c].row)
    BY <1>1, <2>1, Leads DEF GoOn
  <2>3. Over(check[c].row) /\ check[c].row \in Row
    BY <1>1, <2>2, Numbers DEF WritePeriod
  <2> QED
    BY <2>2, <2>3, NextAhead
<1>2. QuotaTypeOK /\ [QuotaNext]_quotaVars =>
        [\A c \in Checker :
           LET r == check[c].row  s == check'[c].row
           IN  check[c].st = "write" /\ check'[c].st = "verdict" => s.left \in 1..r.days]_quotaVars
  BY <1>1
<1> QED
  BY <1>2, QuotaTyped, PTL DEF QuotaSpec, PeriodAhead
=============================================================================
