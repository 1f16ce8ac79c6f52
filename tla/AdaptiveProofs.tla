--------------------------- MODULE AdaptiveProofs ---------------------------
(***************************************************************************)
(* Proofs about Adaptive: every decision stays within the table of bounds, *)
(* the queue depth keeps its distance to the truth, a snapshot counts      *)
(* every answer of the window once, only open breakers and a controller    *)
(* that missed an answer lower a limit, and a limit of 6 or less is never  *)
(* raised by an agent, for every number of requests and downstreams, every *)
(* window and every interval.                                              *)
(***************************************************************************)
EXTENDS Adaptive, FiniteSetTheorems, WellFoundedInduction, TLAPS

-----------------------------------------------------------------------------
(* Sums over finite sets.  SumFunctionOnSet takes the elements in an order   *)
(* CHOOSE fixes; a sum of numbers does not depend on it.  Each fact is an    *)
(* induction on the cardinality, by a least counterexample.                  *)

LEMMA Least == ASSUME NEW T \in SUBSET Nat, T # {} PROVE \E n \in T : \A m \in T : n <= m
<1>1. PICK n \in T : \A m \in T : ~(<<m, n>> \in OpToRel(<, Nat))
  BY WFMin, NatLessThanWellFounded
<1>2. \A m \in T : m \in Nat /\ n \in Nat /\ ~(m < n)
  BY <1>1 DEF OpToRel
<1> QED
  BY <1>2

\* A nonempty set of finite sets has a member of least cardinality: what is
\* smaller by an element is not in it.
LEMMA Smallest ==
  ASSUME NEW T, T # {}, \A S \in T : IsFiniteSet(S)
  PROVE  \E S \in T : \A x \in S : S \ {x} \notin T
<1> DEFINE N == {Cardinality(S) : S \in T}
<1>1. N \in SUBSET Nat /\ N # {}
  BY FS_CardinalityType
<1>2. PICK n \in N : \A m \in N : n <= m
  <2> HIDE DEF N
  <2> QED BY <1>1, Least
<1>3. PICK S \in T : Cardinality(S) = n
  OBVIOUS
<1>4. ASSUME NEW x \in S, S \ {x} \in T PROVE FALSE
  <2>1. Cardinality(S \ {x}) = Cardinality(S) - 1
    BY <1>4, FS_RemoveElement
  <2>2. Cardinality(S \ {x}) \in N
    BY <1>4
  <2>3. n \in Nat
    BY <1>1
  <2> QED BY <1>2, <1>3, <2>1, <2>2, <2>3
<1> QED BY <1>4

First(s) == CHOOSE x \in s : TRUE

LEMMA FirstIn == ASSUME NEW s, s # {} PROVE First(s) \in s
  BY DEF First

LEMMA FiniteRest ==
  ASSUME NEW S, IsFiniteSet(S), NEW x
  PROVE  IsFiniteSet(S \ {x})
  BY FS_Subset

Partial(f, S, g) ==
  g = [s \in SUBSET S |-> IF s = {} THEN 0 ELSE f[First(s)] + g[s \ {First(s)}]]

LEMMA SumIsPartial ==
  ASSUME NEW f, NEW S
  PROVE  SumFunctionOnSet(f, S) = (CHOOSE g : Partial(f, S, g))[S]
  BY DEF SumFunctionOnSet, FoldFunctionOnSet, MapThenFoldSet, Partial, First

LEMMA PartialAt ==
  ASSUME NEW f, NEW S, NEW g, Partial(f, S, g), NEW s \in SUBSET S
  PROVE  g[s] = IF s = {} THEN 0 ELSE f[First(s)] + g[s \ {First(s)}]
  BY DEF Partial

LEMMA PartialsAgree ==
  ASSUME NEW f, NEW S, NEW g, Partial(f, S, g), NEW R, NEW h, Partial(f, R, h),
         NEW s, s \subseteq S, s \subseteq R, IsFiniteSet(s)
  PROVE  g[s] = h[s]
<1> DEFINE T == {u \in SUBSET s : g[u] # h[u]}
<1> SUFFICES ASSUME T # {} PROVE FALSE
  OBVIOUS
<1>1. \A u \in T : IsFiniteSet(u)
  BY FS_Subset
<1>2. PICK u \in T : \A x \in u : u \ {x} \notin T
  <2> HIDE DEF T
  <2> QED BY <1>1, Smallest
<1>3. u \in SUBSET S /\ u \in SUBSET R
  OBVIOUS
<1>4. g[u] = IF u = {} THEN 0 ELSE f[First(u)] + g[u \ {First(u)}]
  BY <1>3, PartialAt
<1>5. h[u] = IF u = {} THEN 0 ELSE f[First(u)] + h[u \ {First(u)}]
  BY <1>3, PartialAt
<1>6. u # {} => g[u \ {First(u)}] = h[u \ {First(u)}]
  BY <1>2, FirstIn
<1> QED BY <1>4, <1>5, <1>6

LEMMA PartialWithin ==
  ASSUME NEW f, NEW S, NEW g, Partial(f, S, g), NEW R \in SUBSET S
  PROVE  Partial(f, R, [s \in SUBSET R |-> g[s]])
<1> DEFINE h == [s \in SUBSET R |-> g[s]]
<1>1. ASSUME NEW s \in SUBSET R
      PROVE  h[s] = IF s = {} THEN 0 ELSE f[First(s)] + h[s \ {First(s)}]
  <2>1. s \in SUBSET S /\ s \ {First(s)} \in SUBSET R
    OBVIOUS
  <2>2. h[s] = g[s] /\ h[s \ {First(s)}] = g[s \ {First(s)}]
    BY <2>1
  <2> QED BY <2>1, <2>2, PartialAt
<1> QED BY <1>1 DEF Partial

Chosen(f, S) == CHOOSE g : Partial(f, S, g)

LEMMA PartialExists ==
  ASSUME NEW f, NEW S, IsFiniteSet(S)
  PROVE  Partial(f, S, Chosen(f, S))
<1> DEFINE T == {u \in SUBSET S : ~\E g : Partial(f, u, g)}
<1> SUFFICES ASSUME T # {} PROVE FALSE
  BY DEF Chosen
<1>1. \A u \in T : IsFiniteSet(u)
  BY FS_Subset
<1>2. PICK u \in T : \A x \in u : u \ {x} \notin T
  <2> HIDE DEF T
  <2> QED BY <1>1, Smallest
<1>3. ASSUME NEW v \in SUBSET u, v # u PROVE Partial(f, v, Chosen(f, v))
  <2>1. PICK y \in u : y \notin v
    BY <1>3
  <2>2. u \ {y} \in SUBSET S /\ u \ {y} \notin T
    BY <1>2
  <2>3. PICK g : Partial(f, u \ {y}, g)
    BY <2>2
  <2>4. Partial(f, v, [s \in SUBSET v |-> g[s]])
    <3>1. v \in SUBSET (u \ {y})
      BY <2>1
    <3> QED BY <3>1, <2>3, PartialWithin
  <2> QED BY <2>4 DEF Chosen
<1> DEFINE Value(v) == Chosen(f, v)[v]
           h == [s \in SUBSET u |-> IF s = {} THEN 0 ELSE f[First(s)] + Value(s \ {First(s)})]
<1>4. ASSUME NEW v \in SUBSET u, v # u PROVE h[v] = Value(v)
  <2>1. Value(v) = IF v = {} THEN 0 ELSE f[First(v)] + Chosen(f, v)[v \ {First(v)}]
    BY <1>3, <1>4, PartialAt
  <2>2. ASSUME v # {} PROVE Chosen(f, v)[v \ {First(v)}] = Value(v \ {First(v)})
    <3> DEFINE w == v \ {First(v)}
    <3>1. w \in SUBSET u /\ w # u /\ w \subseteq v
      BY <1>4
    <3>2. IsFiniteSet(w)
      BY <1>1, <3>1, FS_Subset
    <3>3. Partial(f, v, Chosen(f, v)) /\ Partial(f, w, Chosen(f, w))
      BY <1>3, <1>4, <3>1
    <3> HIDE DEF w
    <3>4. Chosen(f, v)[w] = Chosen(f, w)[w]
      BY <3>1, <3>2, <3>3, PartialsAgree
    <3> QED BY <3>4 DEF w
  <2> QED BY <2>1, <2>2
<1>5. ASSUME NEW s \in SUBSET u
      PROVE  h[s] = IF s = {} THEN 0 ELSE f[First(s)] + h[s \ {First(s)}]
  <2> DEFINE w == s \ {First(s)}
  <2>1. ASSUME s # {} PROVE h[w] = Value(w)
    <3>1. w \in SUBSET u /\ w # u
      BY <2>1, FirstIn
    <3> QED BY <3>1, <1>4
  <2> QED BY <2>1
<1>6. Partial(f, u, h)
  <2> HIDE DEF h
  <2>1. h = [s \in SUBSET u |-> h[s]]
    BY DEF h
  <2> QED BY <2>1, <1>5 DEF Partial
<1> QED BY <1>6

LEMMA SumNone == ASSUME NEW f PROVE SumFunctionOnSet(f, {}) = 0
<1>1. Partial(f, {}, Chosen(f, {}))
  BY PartialExists, FS_EmptySet
<1> QED BY <1>1, PartialAt, SumIsPartial DEF Chosen

LEMMA SumFirst ==
  ASSUME NEW f, NEW S, IsFiniteSet(S), S # {}
  PROVE  SumFunctionOnSet(f, S) = f[First(S)] + SumFunctionOnSet(f, S \ {First(S)})
<1> DEFINE R == S \ {First(S)}
<1>1. IsFiniteSet(R) /\ R \subseteq S
  BY FiniteRest
<1>2. Partial(f, S, Chosen(f, S)) /\ Partial(f, R, Chosen(f, R))
  BY <1>1, PartialExists
<1>3. SumFunctionOnSet(f, S) = Chosen(f, S)[S] /\ SumFunctionOnSet(f, R) = Chosen(f, R)[R]
  BY SumIsPartial DEF Chosen
<1>4. Chosen(f, S)[S] = f[First(S)] + Chosen(f, S)[R]
  BY <1>2, PartialAt
<1>5. Chosen(f, S)[R] = Chosen(f, R)[R]
  <2> HIDE DEF R
  <2> QED BY <1>1, <1>2, PartialsAgree
<1> QED BY <1>3, <1>4, <1>5

\* A sum of integers is one, and of naturals is one.
LEMMA SumType ==
  ASSUME NEW f, NEW S, IsFiniteSet(S), NEW N \in {Nat, Int}, \A x \in S : f[x] \in N
  PROVE  SumFunctionOnSet(f, S) \in N
<1> DEFINE T == {u \in SUBSET S : SumFunctionOnSet(f, u) \notin N}
<1> SUFFICES ASSUME T # {} PROVE FALSE
  OBVIOUS
<1>1. \A u \in T : IsFiniteSet(u)
  BY FS_Subset
<1>2. PICK u \in T : \A x \in u : u \ {x} \notin T
  <2> HIDE DEF T
  <2> QED BY <1>1, Smallest
<1>3. u # {}
  BY SumNone
<1>4. SumFunctionOnSet(f, u) = f[First(u)] + SumFunctionOnSet(f, u \ {First(u)})
  BY <1>1, <1>3, SumFirst
<1>5. f[First(u)] \in N /\ SumFunctionOnSet(f, u \ {First(u)}) \in N
  BY <1>2, <1>3, FirstIn
<1> QED BY <1>4, <1>5

\* Any element may be taken out first.
LEMMA SumAny ==
  ASSUME NEW f, NEW S, IsFiniteSet(S), \A x \in S : f[x] \in Int, NEW y \in S
  PROVE  SumFunctionOnSet(f, S) = f[y] + SumFunctionOnSet(f, S \ {y})
<1> DEFINE T == {u \in SUBSET S : \E z \in u :
                   SumFunctionOnSet(f, u) # f[z] + SumFunctionOnSet(f, u \ {z})}
<1> SUFFICES ASSUME T # {} PROVE FALSE
  OBVIOUS
<1>1. \A u \in T : IsFiniteSet(u)
  BY FS_Subset
<1>2. PICK u \in T : \A x \in u : u \ {x} \notin T
  <2> HIDE DEF T
  <2> QED BY <1>1, Smallest
<1>3. PICK z \in u : SumFunctionOnSet(f, u) # f[z] + SumFunctionOnSet(f, u \ {z})
  OBVIOUS
<1> DEFINE x == First(u)
<1>4. x \in u /\ SumFunctionOnSet(f, u) = f[x] + SumFunctionOnSet(f, u \ {x})
  BY <1>1, <1>3, FirstIn, SumFirst
<1>5. x # z
  BY <1>3, <1>4
<1>6. u \ {x} \in SUBSET S /\ u \ {z} \in SUBSET S /\ z \in u \ {x} /\ x \in u \ {z}
  BY <1>3, <1>4, <1>5
<1>7. SumFunctionOnSet(f, u \ {x}) = f[z] + SumFunctionOnSet(f, (u \ {x}) \ {z})
  BY <1>2, <1>4, <1>6
<1>8. SumFunctionOnSet(f, u \ {z}) = f[x] + SumFunctionOnSet(f, (u \ {z}) \ {x})
  BY <1>2, <1>3, <1>6
<1>9. (u \ {x}) \ {z} = (u \ {z}) \ {x}
  OBVIOUS
<1>10. SumFunctionOnSet(f, (u \ {z}) \ {x}) \in Int /\ f[x] \in Int /\ f[z] \in Int
  <2>1. IsFiniteSet((u \ {z}) \ {x}) /\ (u \ {z}) \ {x} \subseteq S
    BY <1>1, FiniteRest
  <2>2. Int \in {Nat, Int}
    OBVIOUS
  <2>3. SumFunctionOnSet(f, (u \ {z}) \ {x}) \in Int
    BY <2>1, <2>2, SumType
  <2> QED BY <2>3, <1>3, <1>4
<1> DEFINE rest == SumFunctionOnSet(f, (u \ {z}) \ {x})
<1>11. SumFunctionOnSet(f, u) = f[x] + (f[z] + rest)
  BY <1>4, <1>7, <1>9
<1>12. f[z] + SumFunctionOnSet(f, u \ {z}) = f[z] + (f[x] + rest)
  BY <1>8
<1>13. rest \in Int /\ f[x] \in Int /\ f[z] \in Int
  BY <1>10
<1> HIDE DEF x, rest
<1>14. f[x] + (f[z] + rest) = f[z] + (f[x] + rest)
  BY ONLY <1>13
<1> QED BY <1>3, <1>11, <1>12, <1>14

\* f on S and g on R have the same terms: h pairs them, and what it leaves out
\* of R adds nothing.
Paired(f, S, g, R, h) ==
  /\ IsFiniteSet(S) /\ IsFiniteSet(R)
  /\ \A x \in S : f[x] \in Int /\ h[x] \in R /\ g[h[x]] = f[x]
  /\ \A x, y \in S : h[x] = h[y] => x = y
  /\ \A y \in R : (\A x \in S : h[x] # y) => g[y] = 0

LEMMA SumZeros ==
  ASSUME NEW g, NEW R, IsFiniteSet(R), \A y \in R : g[y] = 0
  PROVE  SumFunctionOnSet(g, R) = 0
<1> DEFINE T == {u \in SUBSET R : SumFunctionOnSet(g, u) # 0}
<1> SUFFICES ASSUME T # {} PROVE FALSE
  OBVIOUS
<1>1. \A u \in T : IsFiniteSet(u)
  BY FS_Subset
<1>2. PICK u \in T : \A x \in u : u \ {x} \notin T
  <2> HIDE DEF T
  <2> QED BY <1>1, Smallest
<1>3. u # {}
  BY SumNone
<1>4. SumFunctionOnSet(g, u) = g[First(u)] + SumFunctionOnSet(g, u \ {First(u)})
  BY <1>1, <1>3, SumFirst
<1>5. g[First(u)] = 0 /\ SumFunctionOnSet(g, u \ {First(u)}) = 0
  BY <1>2, <1>3, FirstIn
<1> QED BY <1>4, <1>5

LEMMA PairedSums ==
  ASSUME NEW f, NEW S0, NEW g, NEW R0, NEW h, Paired(f, S0, g, R0, h)
  PROVE  SumFunctionOnSet(f, S0) = SumFunctionOnSet(g, R0)
<1> DEFINE T == {S \in SUBSET S0 : \E R \in SUBSET R0 :
                   /\ Paired(f, S, g, R, h)
                   /\ SumFunctionOnSet(f, S) # SumFunctionOnSet(g, R)}
<1> SUFFICES ASSUME T # {} PROVE FALSE
  OBVIOUS
<1>1. \A u \in T : IsFiniteSet(u)
  BY DEF Paired
<1>2. PICK S \in T : \A x \in S : S \ {x} \notin T
  <2> HIDE DEF T
  <2> QED BY <1>1, Smallest
<1>3. PICK R \in SUBSET R0 :
        Paired(f, S, g, R, h) /\ SumFunctionOnSet(f, S) # SumFunctionOnSet(g, R)
  OBVIOUS
<1>4. CASE S = {}
  <2>1. \A y \in R : g[y] = 0
    BY <1>3, <1>4 DEF Paired
  <2>2. SumFunctionOnSet(g, R) = 0
    BY <1>3, <2>1, SumZeros DEF Paired
  <2> QED BY <1>3, <1>4, <2>2, SumNone
<1>5. CASE S # {}
  <2>1. PICK x \in S : TRUE
    BY <1>5
  <2> DEFINE y == h[x]
  <2>2. y \in R /\ g[y] = f[x] /\ f[x] \in Int
    BY <1>3, <2>1 DEF Paired
  <2>3. \A z \in R : g[z] \in Int
    BY <1>3 DEF Paired
  <2>4. Paired(f, S \ {x}, g, R \ {y}, h)
    <3>1. IsFiniteSet(S \ {x}) /\ IsFiniteSet(R \ {y})
      BY <1>3, FiniteRest DEF Paired
    <3> QED BY <3>1, <1>3, <2>1 DEF Paired
  <2>5. SumFunctionOnSet(f, S \ {x}) = SumFunctionOnSet(g, R \ {y})
    BY <1>2, <2>1, <2>4
  <2> HIDE DEF y
  <2>6. SumFunctionOnSet(f, S) = f[x] + SumFunctionOnSet(f, S \ {x})
    BY <1>3, <2>1, SumAny DEF Paired
  <2>7. SumFunctionOnSet(g, R) = g[y] + SumFunctionOnSet(g, R \ {y})
    BY <1>3, <2>2, <2>3, SumAny DEF Paired
  <2> QED BY <1>3, <2>2, <2>5, <2>6, <2>7
<1> QED BY <1>4, <1>5

-----------------------------------------------------------------------------
(* The rules.                                                                *)

\* What the rules pass to each other before Clamp.
Raw == [retries: Int, threshold: Int, limit: Int, timeout: Int, backoff: Int]

LEMMA RawParams == Params \subseteq Raw
  BY DEF Params, Raw

LEMMA ClampParams ==
  ASSUME NEW p \in Raw
  PROVE  Clamp(p) \in Params /\ Clamp(p).limit = AtLeast(5, AtMost(100, p.limit))
  BY DEF Raw, Params, Clamp, AtLeast, AtMost

LEMMA Fraction ==
  ASSUME NEW n \in Nat, NEW k \in Nat, NEW t \in Nat \ {0}, k <= t
  PROVE  (n * k) \div t \in Nat /\ (n * k) \div t <= n
<1> DEFINE x == n * k
<1>1. x \in Nat /\ x <= n * t
  OBVIOUS
<1>2. n * t \in Nat /\ (n * t) \div t = n
  OBVIOUS
<1>3. x \div t \in Nat /\ x \div t <= (n * t) \div t
  BY <1>1, <1>2
<1> QED BY <1>2, <1>3

LEMMA DegradedLess ==
  ASSUME NEW limit \in Nat, NEW open \in Nat, NEW total \in Nat \ {0}, open <= total
  PROVE  Degraded(limit, open, total) \in Nat /\ Degraded(limit, open, total) <= limit
<1>1. total - open \in Nat /\ total - open <= total
  OBVIOUS
<1>2. (limit * 3) \div 5 \in Nat /\ (limit * 3) \div 5 <= limit
  OBVIOUS
<1>3. /\ (limit * (total - open)) \div total \in Nat
      /\ (limit * (total - open)) \div total <= limit
  BY <1>1, Fraction
<1> QED BY <1>2, <1>3 DEF Degraded

LEMMA Fields ==
  ASSUME NEW p \in Raw
  PROVE  /\ p.retries \in Int /\ p.threshold \in Int /\ p.limit \in Int
         /\ p.timeout \in Int /\ p.backoff \in Int
         /\ p.retries - 1 \in Int /\ p.retries + 1 \in Int
         /\ p.threshold - 1 \in Int /\ p.threshold + 1 \in Int
  BY DEF Raw

LEMMA TighterRaw ==
  ASSUME NEW p \in Raw, NEW limit \in Int
  PROVE  Tighter(p, limit) \in Raw /\ Tighter(p, limit).limit = AtLeast(5, limit)
<1> DEFINE x == AtLeast(0, p.retries - 1)
           y == AtLeast(2, p.threshold - 1)
           z == AtLeast(5, limit)
<1>1. x \in Int /\ y \in Int /\ z \in Int
  BY Fields DEF AtLeast, AtMost
<1>2. Tighter(p, limit) = [p EXCEPT !.retries = x, !.threshold = y, !.limit = z]
  BY DEF Tighter
<1> HIDE DEF x, y, z
<1>3. Tighter(p, limit) \in Raw /\ Tighter(p, limit).limit = z
  BY <1>1, <1>2 DEF Raw
<1> QED BY <1>3 DEF z

LEMMA LooserRaw ==
  ASSUME NEW p \in Raw, NEW percent \in Nat
  PROVE  /\ Looser(p, percent) \in Raw
         /\ Looser(p, percent).limit = AtMost(100, (p.limit * percent) \div 100)
<1> DEFINE x == AtMost(5, p.retries + 1)
           y == AtMost(10, p.threshold + 1)
           z == AtMost(100, (p.limit * percent) \div 100)
<1>0. (p.limit * percent) \div 100 \in Int
  BY Fields
<1>1. x \in Int /\ y \in Int /\ z \in Int
  BY <1>0, Fields DEF AtLeast, AtMost
<1>2. Looser(p, percent) = [p EXCEPT !.retries = x, !.threshold = y, !.limit = z]
  BY DEF Looser
<1> HIDE DEF x, y, z
<1>3. Looser(p, percent) \in Raw /\ Looser(p, percent).limit = z
  BY <1>1, <1>2 DEF Raw
<1> QED BY <1>3 DEF z

\* A step of the rules keeps the parameters integers, and a limit of at most 6
\* where it is or below, but not below 5.
Lowers(q, p) == p.limit \in 5..6 => q.limit \in 5..p.limit

LEMMA BreakerRule ==
  ASSUME NEW p \in Params, NEW open \in Nat, NEW total \in Nat, open <= total, NEW count
  PROVE  LET q == ByBreakers(p, open, total, count) IN q \in Raw /\ Lowers(q, p)
<1>0. p \in Raw /\ p.limit \in Nat /\ p.limit >= 5
  BY RawParams DEF Params
<1>1. CASE open > 0
  <2> DEFINE d == Degraded(p.limit, open, total)
  <2>1. d \in Nat /\ d <= p.limit
    <3>1. total \in Nat \ {0}
      BY <1>1
    <3> QED BY <3>1, <1>0, DegradedLess
  <2> HIDE DEF d
  <2>2. Tighter(p, d) \in Raw /\ Tighter(p, d).limit = AtLeast(5, d)
    BY <1>0, <2>1, TighterRaw
  <2>3. Lowers(Tighter(p, d), p)
    BY <1>0, <2>1, <2>2 DEF Lowers, AtLeast
  <2> QED BY <1>1, <2>2, <2>3 DEF ByBreakers, d
<1>2. CASE ~(open > 0)
  <2>1. Looser(p, 115) \in Raw /\ Looser(p, 115).limit = AtMost(100, (p.limit * 115) \div 100)
    BY <1>0, LooserRaw
  <2>2. p.limit \in 5..6 => (p.limit * 115) \div 100 = p.limit
    OBVIOUS
  <2>3. Lowers(Looser(p, 115), p) /\ Lowers(p, p)
    BY <1>0, <2>1, <2>2 DEF Lowers, AtMost
  <2> QED BY <1>0, <1>2, <2>1, <2>3 DEF ByBreakers
<1> QED BY <1>1, <1>2

LEMMA PatienceRaw ==
  ASSUME NEW p \in Raw, NEW t \in Int, NEW b \in Int
  PROVE  Patience(p, t, b) \in Raw /\ Patience(p, t, b).limit = p.limit
<1> DEFINE x == AtLeast(2, AtMost(20, p.timeout + t))
           y == AtLeast(2, AtMost(8, p.backoff + b))
<1>1. AtMost(20, p.timeout + t) \in Int /\ AtMost(8, p.backoff + b) \in Int
  BY Fields DEF AtLeast, AtMost
<1>2. x \in Int /\ y \in Int
  BY <1>1 DEF AtLeast
<1>3. Patience(p, t, b) = [p EXCEPT !.timeout = x, !.backoff = y]
  BY DEF Patience
<1> HIDE DEF x, y
<1> QED BY <1>2, <1>3 DEF Raw

LEMMA TrendRule ==
  ASSUME NEW p \in Raw, NEW p90, NEW open, NEW count
  PROVE  LET q == ByTrend(p, p90, open, count) IN q \in Raw /\ q.limit = p.limit
  BY PatienceRaw DEF ByTrend

LEMMA LatencyRule ==
  ASSUME NEW p \in Raw, NEW p90
  PROVE  ByLatency(p, p90) \in Raw
  BY PatienceRaw DEF ByLatency

LEMMA ErrorRule ==
  ASSUME NEW p \in Params, NEW errors, NEW count
  PROVE  ByErrors(p, errors, count) \in Raw
<1>0. p \in Raw /\ p.limit \in Nat
  BY RawParams DEF Params
<1>1. Tighter(p, (p.limit * 7) \div 10) \in Raw
  BY <1>0, TighterRaw
<1>2. Looser(p, 120) \in Raw
  BY <1>0, LooserRaw
<1> QED BY <1>0, <1>1, <1>2 DEF ByErrors

LEMMA NeighbourRule ==
  ASSUME NEW p \in Raw, NEW bad \in BOOLEAN
  PROVE  LET q == Considerate(p, bad) IN q \in Raw /\ Lowers(q, p)
<1>1. CASE bad
  <2> DEFINE x == AtLeast(0, p.retries - 1)
             z == AtLeast(5, (p.limit * 8) \div 10)
             q == [p EXCEPT !.limit = z, !.retries = x]
  <2>0. x \in Int /\ z \in Int
    <3>1. (p.limit * 8) \div 10 \in Int
      BY Fields
    <3> QED BY <3>1, Fields DEF AtLeast
  <2>a. Considerate(p, bad) = q
    BY <1>1 DEF Considerate
  <2> HIDE DEF x, z
  <2>1. q \in Raw /\ q.limit = z
    BY <2>0 DEF Raw
  <2>2. Lowers(q, p)
    BY <2>1, Fields DEF Lowers, AtLeast, z
  <2> QED BY <2>a, <2>1, <2>2
<1>2. CASE ~bad
  BY <1>2 DEF Considerate, Lowers, Raw
<1> QED BY <1>1, <1>2

\* floor(6 * 1.15) = 6, and every other rule lowers the limit or leaves it.
LEMMA Decided ==
  ASSUME params \in Params, IsFiniteSet(known), opened \subseteq known,
         NEW s, NEW bad \in BOOLEAN
  PROVE  /\ MasDecision(s, bad) \in Params
         /\ params.limit <= 6 => MasDecision(s, bad).limit <= params.limit
<1> DEFINE open == Cardinality(opened)
           total == Cardinality(known)
           first == ByBreakers(params, open, total, s.count)
           second == ByTrend(first, s.p90, open, s.count)
           third == Considerate(second, bad)
<1>1. open \in Nat /\ total \in Nat /\ open <= total
  <2>1. IsFiniteSet(opened) /\ open <= total
    BY FS_Subset
  <2> QED BY <2>1, FS_CardinalityType
<1> HIDE DEF open, total
<1>2. first \in Raw /\ Lowers(first, params)
  BY <1>1, BreakerRule
<1> HIDE DEF first
<1>3. second \in Raw /\ second.limit = first.limit
  BY <1>2, TrendRule
<1> HIDE DEF second
<1>4. third \in Raw /\ Lowers(third, second)
  BY <1>3, NeighbourRule
<1> HIDE DEF third
<1>5. Clamp(third) \in Params /\ Clamp(third).limit = AtLeast(5, AtMost(100, third.limit))
  BY <1>4, ClampParams
<1>6. MasDecision(s, bad) = Clamp(third)
  BY DEF MasDecision, open, total, first, second, third
<1>7. params.limit \in Nat /\ params.limit >= 5
  BY DEF Params
<1>8. ASSUME params.limit <= 6 PROVE third.limit \in 5..params.limit
  BY <1>2, <1>3, <1>4, <1>7, <1>8 DEF Lowers
<1> QED BY <1>5, <1>6, <1>7, <1>8 DEF AtLeast, AtMost

LEMMA Advised ==
  ASSUME advice \in Params, NEW p90, NEW polled \in BOOLEAN, NEW bad \in BOOLEAN
  PROVE  CentralDecision(p90, polled, bad) \in Params
<1> DEFINE own == IF polled THEN ByLatency(ByErrors(advice, Errors, Count), p90)
                            ELSE ByErrors(advice, 1, 1)
<1>1. own \in Raw
  <2>1. ByErrors(advice, Errors, Count) \in Raw /\ ByErrors(advice, 1, 1) \in Raw
    BY ErrorRule
  <2>2. ByLatency(ByErrors(advice, Errors, Count), p90) \in Raw
    BY <2>1, LatencyRule
  <2> QED BY <2>1, <2>2
<1> HIDE DEF own
<1>2. Clamp(Considerate(own, bad)) \in Params
  BY <1>1, NeighbourRule, ClampParams
<1> QED BY <1>2 DEF CentralDecision, own

-----------------------------------------------------------------------------
(* The invariant.                                                            *)

USE DEF serviceVars, metrics, history, rules

\* AdaptiveTypeOK and the queue depth, which is inductive as it stands: a reset
\* forgets the handlers under way and with them all that was leaked.
Inv == AdaptiveTypeOK /\ QueueDepthWithin

Tallies == [count: Nat, errors: Nat]
Stamps == [stamp: Nat, count: Nat, errors: Nat]

LEMMA Tallied ==
  ASSUME NEW failed \in BOOLEAN
  PROVE  /\ \A t \in Tallies : Tally(t, failed) \in Tallies
         /\ now \in Nat => \A slot \in Stamps : Stamped(failed, slot) \in Stamps
  BY DEF Tallies, Stamps, Tally, Stamped, Empty

LEMMA YoungFinite ==
  ASSUME ServiceTypes
  PROVE  IsFiniteSet(young) /\ Cardinality(young) \in Nat /\ young \subseteq Requests
<1>1. young \subseteq Requests
  BY DEF ServiceTypes
<1>2. IsFiniteSet(young)
  BY <1>1, ServiceAssumption, FS_Subset
<1> QED BY <1>1, <1>2, FS_CardinalityType

LEMMA InitInv == Init => Inv
<1> SUFFICES ASSUME Init PROVE Inv
  OBVIOUS
<1>1. ServiceTypes
  BY ServiceAssumption DEF Init, ServiceInit, ServiceTypes, Empty
<1>2. RuleTypes
  <2>1. Interval \in Nat /\ MaxResets \in Nat /\ Default \in Params
    BY AdaptiveAssumption
  <2>2. 1 + Interval \in Nat /\ 0 \in 0..MaxResets
    BY <2>1
  <2> QED BY <2>1, <2>2 DEF Init, RuleTypes, NoReport, Nothing
<1>3. QueueDepthWithin
  BY FS_EmptySet DEF Init, ServiceInit, QueueDepthWithin
<1> QED BY <1>1, <1>2, <1>3 DEF Inv, AdaptiveTypeOK

-----------------------------------------------------------------------------
(* The handler.                                                              *)

LEMMA BeginKeeps ==
  ASSUME Inv, NEW r \in Requests, Begin(r)
  PROVE  ServiceTypes' /\ QueueDepthWithin'
<1>1. r \notin young /\ IsFiniteSet(young)
  BY YoungFinite DEF Begin, Inv, AdaptiveTypeOK, ServiceTypes
<1>2. Cardinality(young') = Cardinality(young) + 1
  <2>1. young' = young \cup {r}
    BY DEF Begin
  <2> QED BY <2>1, <1>1, FS_AddElement
<1>3. ServiceTypes'
  BY DEF Begin, Inv, AdaptiveTypeOK, ServiceTypes
<1>4. Cardinality(young) \in Nat /\ inFlight \in Nat /\ leaked \in Nat /\ strays \in Nat
  BY YoungFinite DEF Inv, AdaptiveTypeOK, ServiceTypes
<1>5. inFlight' = inFlight + 1 /\ UNCHANGED <<leaked, strays>>
  BY DEF Begin
<1>6. QueueDepthWithin'
  BY <1>2, <1>4, <1>5 DEF Inv, QueueDepthWithin
<1> QED BY <1>3, <1>6

LEMMA CallKeeps ==
  ASSUME Inv, NEW r \in Requests, Call(r)
  PROVE  ServiceTypes' /\ QueueDepthWithin'
<1>1. ServiceTypes'
  BY DEF Call, Inv, AdaptiveTypeOK, ServiceTypes
<1>2. QueueDepthWithin'
  BY DEF Call, Inv, QueueDepthWithin
<1> QED BY <1>1, <1>2

LEMMA TripKeeps ==
  ASSUME Inv, NEW r \in Requests, NEW d \in known, Trip(r, d)
  PROVE  ServiceTypes' /\ QueueDepthWithin'
<1>1. /\ opened' \subseteq known /\ known' = known
      /\ UNCHANGED <<strategy, now, slots, inFlight, req, young, leaked, strays, answered>>
  BY DEF Trip, metrics, history, Inv, AdaptiveTypeOK, ServiceTypes
<1>2. ServiceTypes'
  BY <1>1 DEF Inv, AdaptiveTypeOK, ServiceTypes
<1>3. QueueDepthWithin'
  BY <1>1 DEF Inv, QueueDepthWithin
<1> QED BY <1>2, <1>3

\* An answer takes one off the depth, unless that is 0 already.
LEMMA AnswerKeeps ==
  ASSUME Inv, NEW r \in Requests, NEW failed \in SUBSET Downstreams, Answer(r, failed)
  PROVE  ServiceTypes' /\ QueueDepthWithin'
<1> DEFINE bad == Surfaces(failed)
<1>0. bad \in BOOLEAN
  BY DEF Surfaces
<1> HIDE DEF bad
<1>a. Record(r, bad) /\ req' = [req EXCEPT ![r] = "done"]
      /\ UNCHANGED <<strategy, now, known, opened>> /\ req[r] = "calling"
  BY DEF Answer, bad
<1>b. ServiceTypes /\ QueueDepthWithin /\ IsFiniteSet(young)
  BY YoungFinite DEF Inv, AdaptiveTypeOK
<1>c. /\ Cardinality(young) \in Nat /\ inFlight \in Nat /\ leaked \in Nat /\ strays \in Nat
      /\ now \in 1..MaxTime /\ now \in Nat
  BY <1>b, YoungFinite, ServiceAssumption DEF ServiceTypes
<1>1. slots' \in [Slots -> Stamps]
  <2>1. slots \in [Slots -> Stamps]
    BY <1>b DEF ServiceTypes, Stamps
  <2>2. \A slot \in Stamps : Stamped(bad, slot) \in Stamps
    BY <1>0, <1>c, Tallied
  <2>3. slots' = [slots EXCEPT ![now % Buckets] = Stamped(bad, @)]
    BY <1>a DEF Record
  <2> QED BY <2>1, <2>2, <2>3
<1>2. answered' \in [1..MaxTime -> Tallies]
  <2>1. answered \in [1..MaxTime -> Tallies]
    BY <1>b DEF ServiceTypes, Tallies
  <2>2. \A t \in Tallies : Tally(t, bad) \in Tallies
    BY <1>0, Tallied
  <2>3. answered' = [answered EXCEPT ![now] = Tally(@, bad)]
    BY <1>a DEF Record
  <2> QED BY <2>1, <2>2, <2>3
<1>3. /\ inFlight' = Less1(inFlight) /\ leaked' = leaked /\ young' = young \ {r}
      /\ strays' = IF r \in young THEN strays ELSE strays + 1
  BY <1>a DEF Record
<1>4. inFlight' \in Nat /\ strays' \in Nat
  BY <1>3, <1>c DEF Less1
<1>5. ServiceTypes'
  BY <1>a, <1>b, <1>1, <1>2, <1>3, <1>4 DEF ServiceTypes, Stamps, Tallies
<1>6. QueueDepthWithin'
  <2>1. CASE r \in young
    <3>1. Cardinality(young') = Cardinality(young) - 1
      BY <1>3, <1>b, <2>1, FS_RemoveElement
    <3>2. Cardinality(young') \in Nat
      BY <1>5, YoungFinite, <1>b, <1>3, FS_RemoveElement, FS_CardinalityType
    <3> QED BY <3>1, <3>2, <2>1, <1>3, <1>b, <1>c DEF QueueDepthWithin, Less1
  <2>2. CASE r \notin young
    <3>1. young' = young
      BY <1>3, <2>2
    <3>2. Cardinality(young') = Cardinality(young)
      BY <3>1
    <3> QED BY <3>2, <2>2, <1>3, <1>b, <1>c DEF QueueDepthWithin, Less1
  <2> QED BY <2>1, <2>2
<1> QED BY <1>5, <1>6

LEMMA DropKeeps ==
  ASSUME Inv, NEW r \in Requests, Drop(r)
  PROVE  ServiceTypes' /\ QueueDepthWithin'
<1>b. ServiceTypes /\ QueueDepthWithin /\ IsFiniteSet(young)
  BY YoungFinite DEF Inv, AdaptiveTypeOK
<1>c. Cardinality(young) \in Nat /\ inFlight \in Nat /\ leaked \in Nat /\ strays \in Nat
  BY <1>b, YoungFinite DEF ServiceTypes
<1>1. ServiceTypes'
  BY <1>b, <1>c DEF Drop, ServiceTypes
<1>2. /\ UNCHANGED <<inFlight, strays>> /\ young' = young \ {r}
      /\ leaked' = IF r \in young THEN leaked + 1 ELSE leaked
  BY DEF Drop
<1>3. CASE r \in young
  <2>1. Cardinality(young') = Cardinality(young) - 1
    BY <1>2, <1>3, <1>b, FS_RemoveElement
  <2> QED BY <2>1, <1>1, <1>2, <1>3, <1>b, <1>c DEF QueueDepthWithin
<1>4. CASE r \notin young
  <2>1. young' = young
    BY <1>2, <1>4
  <2> QED BY <2>1, <1>1, <1>2, <1>4, <1>b DEF QueueDepthWithin
<1> QED BY <1>3, <1>4

LEMMA HandleKeeps ==
  ASSUME Inv, Handle
  PROVE  ServiceTypes' /\ QueueDepthWithin'
  BY BeginKeeps, CallKeeps, TripKeeps, AnswerKeeps, DropKeeps DEF Handle

-----------------------------------------------------------------------------
(* Decisions, rounds and resets.                                             *)

LEMMA ServiceSame ==
  ASSUME Inv, UNCHANGED serviceVars
  PROVE  ServiceTypes' /\ QueueDepthWithin'
<1>1. ServiceTypes'
  BY DEF Inv, AdaptiveTypeOK, ServiceTypes
<1>2. QueueDepthWithin'
  BY DEF Inv, QueueDepthWithin
<1> QED BY <1>1, <1>2

LEMMA NaturalTimes ==
  ASSUME Inv
  PROVE  now \in Nat /\ now + Interval \in Nat /\ Interval \in Nat /\ P90s \subseteq Nat
  BY ServiceAssumption, AdaptiveAssumption DEF Inv, AdaptiveTypeOK, ServiceTypes

LEMMA ObserveKeeps ==
  ASSUME Inv, NEW p90 \in Percentiles, Observe(p90)
  PROVE  Inv'
<1>1. p90 \in Nat
  BY NaturalTimes DEF Percentiles
<1>2. RuleTypes'
  BY <1>1, NaturalTimes DEF Observe, Inv, AdaptiveTypeOK, RuleTypes
<1> QED BY <1>2, ServiceSame DEF Observe, Inv, AdaptiveTypeOK

LEMMA DecideKeeps ==
  ASSUME Inv, Decide
  PROVE  Inv'
<1>1. IsFiniteSet(known) /\ opened \subseteq known /\ params \in Params
  BY ServiceAssumption, FS_Subset DEF Inv, AdaptiveTypeOK, ServiceTypes, RuleTypes
<1>2. (heard.bad /\ now - heard.at < GossipStale) \in BOOLEAN
  BY DEF Inv, AdaptiveTypeOK, RuleTypes
<1>3. params' \in Params
  BY <1>1, <1>2, Decided DEF Decide
<1>4. RuleTypes'
  BY <1>3 DEF Decide, Nothing, Inv, AdaptiveTypeOK, RuleTypes
<1> QED BY <1>4, ServiceSame DEF Decide, Inv, AdaptiveTypeOK

LEMMA NeighbourKeeps ==
  ASSUME Inv, \/ \E failed \in SUBSET Downstreams : PeerAnswers(failed)
              \/ \E sent \in {now - 1, now} : Hear(sent)
  PROVE  Inv'
<1>1. RuleTypes'
  <2>1. ASSUME NEW failed \in SUBSET Downstreams, PeerAnswers(failed) PROVE RuleTypes'
    BY <2>1 DEF PeerAnswers, Surfaces, Inv, AdaptiveTypeOK, RuleTypes
  <2>2. ASSUME NEW sent \in {now - 1, now}, Hear(sent) PROVE RuleTypes'
    <3>1. sent \in Nat
      BY <2>2, NaturalTimes DEF Hear
    <3> QED BY <2>2, <3>1 DEF Hear, Inv, AdaptiveTypeOK, RuleTypes
  <2> QED BY <2>1, <2>2
<1>2. UNCHANGED serviceVars
  BY DEF PeerAnswers, Hear
<1> QED BY <1>1, <1>2, ServiceSame DEF Inv, AdaptiveTypeOK

LEMMA RoundKeeps ==
  ASSUME Inv, NEW p90, NEW polled \in BOOLEAN, NEW peerPolled \in BOOLEAN, NEW arrives \in BOOLEAN,
         Round(p90, polled, peerPolled, arrives)
  PROVE  Inv'
<1>1. advice \in Params /\ params \in Params /\ peerFails \in BOOLEAN /\ excused \in BOOLEAN
  BY DEF Inv, AdaptiveTypeOK, RuleTypes
<1>2. (peerFails \/ ~peerPolled) \in BOOLEAN
  OBVIOUS
<1>3. advice' \in Params
  BY <1>1, <1>2, Advised DEF Round
<1>4. params' \in Params
  BY <1>1, <1>3 DEF Round
<1>5. nextTick' \in Nat
  BY NaturalTimes DEF Round
<1>6. excused' \in BOOLEAN
  BY DEF Round
<1>7. RuleTypes'
  BY <1>3, <1>4, <1>5, <1>6 DEF Round, Inv, AdaptiveTypeOK, RuleTypes
<1> QED BY <1>7, ServiceSame DEF Round, Inv, AdaptiveTypeOK

LEMMA ResetKeeps ==
  ASSUME Inv, ResetBegins \/ ResetEnds \/ ResetAbandoned
  PROVE  Inv'
<1>1. CASE ResetBegins
  <2>1. ServiceTypes'
    BY <1>1 DEF ResetBegins, ResetMetrics, Empty, Inv, AdaptiveTypeOK, ServiceTypes
  <2>2. RuleTypes'
    <3>1. resets + 1 \in 0..MaxResets
      BY <1>1, AdaptiveAssumption DEF ResetBegins, Inv, AdaptiveTypeOK, RuleTypes
    <3> QED BY <1>1, <3>1 DEF ResetBegins, Inv, AdaptiveTypeOK, RuleTypes
  <2>3. QueueDepthWithin'
    <3>1. /\ young' = {} /\ inFlight' = 0 /\ leaked' = 0 /\ strays' = 0
      BY <1>1 DEF ResetBegins, ResetMetrics
    <3>2. Cardinality(young') = 0
      BY <3>1, FS_EmptySet
    <3> QED BY <3>1, <3>2 DEF QueueDepthWithin
  <2> QED BY <2>1, <2>2, <2>3 DEF Inv, AdaptiveTypeOK
<1>2. CASE ResetEnds
  <2>1. ServiceTypes'
    BY <1>2 DEF ResetEnds, Inv, AdaptiveTypeOK, ServiceTypes
  <2>2. RuleTypes'
    BY <1>2, AdaptiveAssumption DEF ResetEnds, NoReport, Inv, AdaptiveTypeOK, RuleTypes
  <2>3. QueueDepthWithin'
    BY <1>2 DEF ResetEnds, Inv, QueueDepthWithin
  <2> QED BY <2>1, <2>2, <2>3 DEF Inv, AdaptiveTypeOK
<1>3. CASE ResetAbandoned
  <2>1. RuleTypes'
    BY <1>3, AdaptiveAssumption DEF ResetAbandoned, Inv, AdaptiveTypeOK, RuleTypes
  <2> QED BY <1>3, <2>1, ServiceSame DEF ResetAbandoned, Inv, AdaptiveTypeOK
<1> QED BY <1>1, <1>2, <1>3

LEMMA TickKeeps ==
  ASSUME Inv, Tick
  PROVE  Inv'
<1>1. now' \in 1..MaxTime
  BY ServiceAssumption DEF Tick, Inv, AdaptiveTypeOK, ServiceTypes
<1>2. ServiceTypes'
  BY <1>1 DEF Tick, Inv, AdaptiveTypeOK, ServiceTypes
<1>3. RuleTypes'
  BY DEF Tick, Inv, AdaptiveTypeOK, RuleTypes
<1>4. QueueDepthWithin'
  BY DEF Tick, Inv, QueueDepthWithin
<1> QED BY <1>2, <1>3, <1>4 DEF Inv, AdaptiveTypeOK

LEMMA StepInv == Inv /\ [Next]_vars => Inv'
<1> SUFFICES ASSUME Inv, [Next]_vars PROVE Inv'
  OBVIOUS
<1>1. CASE Handle /\ UNCHANGED <<rules, resetting, resets, excused>>
  <2>1. RuleTypes'
    BY <1>1 DEF Inv, AdaptiveTypeOK, RuleTypes
  <2> QED BY <1>1, <2>1, HandleKeeps DEF Inv, AdaptiveTypeOK
<1>2. CASE UNCHANGED vars
  <2>1. RuleTypes' /\ UNCHANGED serviceVars
    BY <1>2 DEF vars, Inv, AdaptiveTypeOK, RuleTypes
  <2> QED BY <2>1, ServiceSame DEF Inv, AdaptiveTypeOK
<1> QED
  BY <1>1, <1>2, ObserveKeeps, DecideKeeps, NeighbourKeeps, RoundKeeps, ResetKeeps, TickKeeps
  DEF Next

-----------------------------------------------------------------------------
(* The window.                                                               *)

NoAnswers == [count |-> 0, errors |-> 0]

\* A bucket that is stamped holds the answers of its second, and its place is
\* that second's; a second of the window whose place is not stamped with it has
\* none, nor has a second still to come.
Mirrors(i) ==
  /\ slots[i].stamp <= now
  /\ slots[i].stamp > 0 =>
       /\ slots[i].stamp % Buckets = i
       /\ slots[i].count = answered[slots[i].stamp].count
       /\ slots[i].errors = answered[slots[i].stamp].errors

Ring ==
  /\ \A i \in Slots : Mirrors(i)
  /\ \A t \in Window : slots[t % Buckets].stamp # t => answered[t] = NoAnswers
  /\ \A t \in 1..MaxTime : t > now => answered[t] = NoAnswers

\* Two seconds of a window never share a place.
LEMMA OnePlace ==
  ASSUME NEW n \in Nat \ {0}, NEW t \in Nat, NEW u \in Nat, t <= u, u - t < n, t % n = u % n
  PROVE  t = u
<1> DEFINE p == t \div n
           q == u \div n
           m == t % n
<1>1. p \in Nat /\ q \in Nat /\ m \in 0..(n - 1) /\ t = n * p + m /\ u = n * q + m
  OBVIOUS
<1> HIDE DEF p, q, m
<1>2. n * (q - p) = u - t
  BY ONLY <1>1, n \in Nat \ {0}
<1>3. q - p >= 1 => n * (q - p) >= n
  BY ONLY <1>1, n \in Nat \ {0}
<1>4. q - p <= 0 => n * (q - p) <= 0
  BY ONLY <1>1, n \in Nat \ {0}
<1> QED BY <1>1, <1>2, <1>3, <1>4

LEMMA PlaceIn ==
  ASSUME NEW t \in Nat
  PROVE  t % Buckets \in Slots
  BY ServiceAssumption DEF Slots

LEMMA Places ==
  ASSUME ServiceTypes
  PROVE  /\ now \in 1..MaxTime /\ now \in Nat /\ now \in Window /\ MaxTime \in Nat
         /\ Buckets \in Nat \ {0} /\ now % Buckets \in Slots
         /\ slots \in [Slots -> Stamps] /\ answered \in [1..MaxTime -> Tallies]
<1>1. now \in 1..MaxTime /\ now \in Nat /\ Buckets \in Nat \ {0} /\ MaxTime \in Nat
  BY ServiceAssumption DEF ServiceTypes
<1>2. now \in Window
  BY <1>1 DEF Window
<1>3. now % Buckets \in Slots
  BY <1>1, PlaceIn
<1> QED BY <1>1, <1>2, <1>3 DEF ServiceTypes, Stamps, Tallies

LEMMA RingEmpty ==
  ASSUME ServiceTypes, slots = [i \in Slots |-> Empty],
         answered = [t \in 1..MaxTime |-> NoAnswers]
  PROVE  Ring
<1>1. \A i \in Slots : Mirrors(i)
  BY Places DEF Mirrors, Empty
<1>2. \A t \in 1..MaxTime : answered[t] = NoAnswers
  OBVIOUS
<1> QED BY <1>1, <1>2 DEF Ring, Window

\* Record writes the second that is now, in its place: the bucket either has the
\* answers of this second already or starts afresh, and then there are none.
LEMMA RecordRing ==
  ASSUME ServiceTypes, ServiceTypes', Ring, NEW r, NEW failed \in BOOLEAN,
         Record(r, failed), now' = now
  PROVE  Ring'
<1> DEFINE k == now % Buckets
           a == Tally(answered[now], failed)
           b == Stamped(failed, slots[k])
<1>0. /\ now \in 1..MaxTime /\ now \in Nat /\ now \in Window /\ k \in Slots
      /\ Buckets \in Nat \ {0}
      /\ slots \in [Slots -> Stamps] /\ answered \in [1..MaxTime -> Tallies]
  BY Places
<1>1. slots' = [slots EXCEPT ![k] = b] /\ answered' = [answered EXCEPT ![now] = a]
  BY DEF Record
<1>2. slots'[k] = b /\ answered'[now] = a
  BY <1>0, <1>1
<1>3. /\ \A i \in Slots : i # k => slots'[i] = slots[i]
      /\ \A t \in 1..MaxTime : t # now => answered'[t] = answered[t]
  BY <1>0, <1>1
<1>4. b.stamp = now /\ b.count = a.count /\ b.errors = a.errors
  <2>1. CASE slots[k].stamp = now
    <3>1. slots[k].count = answered[now].count /\ slots[k].errors = answered[now].errors
      BY <2>1, <1>0 DEF Ring, Mirrors
    <3> QED BY <2>1, <3>1 DEF Stamped, Tally
  <2>2. CASE slots[k].stamp # now
    <3>1. answered[now] = NoAnswers
      BY <2>2, <1>0 DEF Ring
    <3> QED BY <2>2, <3>1 DEF Stamped, Tally, Empty, NoAnswers
  <2> QED BY <2>1, <2>2
<1> HIDE DEF a, b
<1>5. ASSUME NEW i \in Slots PROVE Mirrors(i)'
  <2>1. CASE i = k
    <3>1. slots'[i].stamp = now /\ slots'[i].count = answered'[now].count
          /\ slots'[i].errors = answered'[now].errors
      BY <2>1, <1>2, <1>4
    <3> QED BY <2>1, <3>1, <1>0 DEF Mirrors
  <2>2. CASE i # k
    <3>1. slots'[i] = slots[i] /\ Mirrors(i) /\ slots[i].stamp \in Nat
      BY <2>2, <1>0, <1>3 DEF Ring, Stamps
    <3>2. slots[i].stamp > 0 =>
            slots[i].stamp \in 1..MaxTime /\ slots[i].stamp # now
      BY <2>2, <3>1, <1>0, Places DEF Mirrors
    <3> QED BY <3>1, <3>2, <1>3 DEF Mirrors
  <2> QED BY <2>1, <2>2
<1>6. ASSUME NEW t \in Window', slots'[t % Buckets].stamp # t PROVE answered'[t] = NoAnswers
  <2>1. t \in Window /\ t \in 1..MaxTime /\ t \in Nat /\ t <= now /\ now - t < Buckets
    BY <1>0 DEF Window
  <2>2. t # now
    BY <1>2, <1>4, <1>6
  <2>3. t % Buckets # k
    BY <1>0, <2>1, <2>2, OnePlace
  <2>4. slots'[t % Buckets] = slots[t % Buckets]
    BY <2>1, <2>3, <1>3, PlaceIn
  <2> QED BY <1>3, <1>6, <2>1, <2>2, <2>4 DEF Ring
<1>7. ASSUME NEW t \in 1..MaxTime, t > now PROVE answered'[t] = NoAnswers
  BY <1>0, <1>3, <1>7 DEF Ring
<1> QED BY <1>5, <1>6, <1>7 DEF Ring

\* Time passes: one second more can be in the window, and it has no answers yet.
LEMMA TickRing ==
  ASSUME ServiceTypes, Ring, now < MaxTime, now' = now + 1, UNCHANGED <<slots, answered>>
  PROVE  Ring'
<1>0. /\ now \in 1..MaxTime /\ now \in Nat /\ Buckets \in Nat \ {0} /\ MaxTime \in Nat
      /\ slots \in [Slots -> Stamps]
  BY Places
<1>1. ASSUME NEW i \in Slots PROVE Mirrors(i)'
  <2>1. Mirrors(i) /\ slots[i].stamp \in Nat
    BY <1>0 DEF Ring, Stamps
  <2> QED BY <1>0, <2>1 DEF Mirrors
<1>2. ASSUME NEW t \in Window', slots[t % Buckets].stamp # t PROVE answered[t] = NoAnswers
  <2>1. t \in 1..MaxTime /\ t <= now + 1 /\ (now + 1) - t < Buckets
    BY DEF Window
  <2>2. CASE t <= now
    <3>1. t \in Window
      BY <1>0, <2>1, <2>2 DEF Window
    <3> QED BY <1>2, <3>1 DEF Ring
  <2>3. CASE t > now
    BY <2>1, <2>3 DEF Ring
  <2> QED BY <1>0, <2>1, <2>2, <2>3
<1>3. ASSUME NEW t \in 1..MaxTime, t > now + 1 PROVE answered[t] = NoAnswers
  BY <1>0, <1>3 DEF Ring
<1> QED BY <1>1, <1>2, <1>3 DEF Ring

LEMMA RingSame ==
  ASSUME Ring, UNCHANGED <<now, slots, answered>>
  PROVE  Ring'
  BY DEF Ring, Mirrors, Window

LEMMA RingInit == Init => Ring
<1> SUFFICES ASSUME Init PROVE Ring
  OBVIOUS
<1>1. ServiceTypes
  BY InitInv DEF Inv, AdaptiveTypeOK
<1> QED BY <1>1, RingEmpty DEF Init, ServiceInit, NoAnswers

LEMMA RingStep == Inv /\ Inv' /\ Ring /\ [Next]_vars => Ring'
<1> SUFFICES ASSUME Inv, Inv', Ring, [Next]_vars PROVE Ring'
  OBVIOUS
<1>0. ServiceTypes /\ ServiceTypes'
  BY DEF Inv, AdaptiveTypeOK
<1>1. CASE \E r \in Requests, failed \in SUBSET Downstreams : Answer(r, failed)
  <2>1. PICK r \in Requests, failed \in SUBSET Downstreams : Answer(r, failed)
    BY <1>1
  <2>2. Record(r, Surfaces(failed)) /\ now' = now /\ Surfaces(failed) \in BOOLEAN
    BY <2>1 DEF Answer, Surfaces
  <2> QED BY <1>0, <2>2, RecordRing
<1>2. CASE ResetBegins
  <2>1. slots' = [i \in Slots |-> Empty] /\ answered' = [t \in 1..MaxTime |-> NoAnswers]
    BY <1>2 DEF ResetBegins, ResetMetrics, NoAnswers
  <2>2. ServiceTypes' /\ (slots = [i \in Slots |-> Empty])'
        /\ (answered = [t \in 1..MaxTime |-> NoAnswers])' => Ring'
    BY RingEmpty, PTL
  <2> QED BY <1>0, <2>1, <2>2
<1>3. CASE Tick
  BY <1>0, <1>3, TickRing DEF Tick
<1>4. CASE UNCHANGED <<now, slots, answered>>
  BY <1>4, RingSame
<1>5. \/ \E r \in Requests, failed \in SUBSET Downstreams : Answer(r, failed)
      \/ ResetBegins \/ Tick \/ UNCHANGED <<now, slots, answered>>
  <2>1. CASE Handle
    BY <2>1 DEF Handle, Begin, Call, Trip, Drop, metrics, history
  <2>2. CASE ~Handle
    BY <2>2 DEF Next, vars, Observe, Decide, PeerAnswers, Hear, Round, ResetEnds, ResetAbandoned
  <2> QED BY <2>1, <2>2
<1> QED BY <1>1, <1>2, <1>3, <1>4, <1>5

\* What a snapshot adds up: an active bucket stands for its second, and a second
\* of the window that no bucket stands for has no answers.
LEMMA StampsPair ==
  ASSUME ServiceTypes, Ring
  PROVE  /\ IsFiniteSet(Active) /\ IsFiniteSet(Window) /\ Active \subseteq Slots
         /\ \A i \in Active :
              /\ slots[i].stamp \in Window
              /\ slots[i].count \in Nat /\ slots[i].errors \in Nat
              /\ slots[i].count = answered[slots[i].stamp].count
              /\ slots[i].errors = answered[slots[i].stamp].errors
         /\ \A i, j \in Active : slots[i].stamp = slots[j].stamp => i = j
         /\ \A t \in Window : (\A i \in Active : slots[i].stamp # t) => answered[t] = NoAnswers
<1>0. /\ now \in 1..MaxTime /\ now \in Nat /\ Buckets \in Nat \ {0} /\ MaxTime \in Nat
      /\ slots \in [Slots -> Stamps]
  BY Places
<1>1. IsFiniteSet(Active) /\ IsFiniteSet(Window) /\ Active \subseteq Slots
  <2>1. IsFiniteSet(Slots) /\ IsFiniteSet(1..MaxTime)
    BY <1>0, FS_Interval DEF Slots
  <2> QED BY <2>1, FS_Subset DEF Active, Window
<1>2. ASSUME NEW i \in Active
      PROVE  /\ slots[i].stamp \in Window /\ slots[i].stamp % Buckets = i
             /\ slots[i].count \in Nat /\ slots[i].errors \in Nat
             /\ slots[i].count = answered[slots[i].stamp].count
             /\ slots[i].errors = answered[slots[i].stamp].errors
  <2>1. i \in Slots /\ slots[i].stamp > 0 /\ now - slots[i].stamp < Buckets
    BY DEF Active
  <2>2. slots[i].stamp \in Nat /\ slots[i].count \in Nat /\ slots[i].errors \in Nat
    BY <1>0, <2>1 DEF Stamps
  <2>3. Mirrors(i)
    BY <2>1 DEF Ring
  <2>4. slots[i].stamp \in Window
    BY <1>0, <2>1, <2>2, <2>3 DEF Mirrors, Window
  <2> QED BY <2>1, <2>2, <2>3, <2>4 DEF Mirrors
<1>3. ASSUME NEW t \in Window, \A i \in Active : slots[i].stamp # t
      PROVE  answered[t] = NoAnswers
  <2>1. t \in 1..MaxTime /\ t \in Nat /\ t > 0 /\ now - t < Buckets
    BY <1>0 DEF Window
  <2>2. t % Buckets \in Slots
    BY <2>1, PlaceIn
  <2>3. slots[t % Buckets].stamp # t
    BY <1>3, <2>1, <2>2 DEF Active
  <2> QED BY <2>3 DEF Ring
<1> QED BY <1>1, <1>2, <1>3

LEMMA SnapshotsExact ==
  ASSUME ServiceTypes, Ring
  PROVE  SnapshotExact
<1> DEFINE h == [i \in Slots |-> slots[i].stamp]
           f == [i \in Slots |-> slots[i].count]
           g == [t \in Window |-> answered[t].count]
           e == [i \in Slots |-> slots[i].errors]
           d == [t \in Window |-> answered[t].errors]
<1>1. /\ \A i \in Active : /\ i \in Slots /\ h[i] = slots[i].stamp /\ h[i] \in Window
                            /\ f[i] = slots[i].count /\ e[i] = slots[i].errors
      /\ \A t \in Window : g[t] = answered[t].count /\ d[t] = answered[t].errors
  BY StampsPair
<1>a. /\ IsFiniteSet(Active) /\ IsFiniteSet(Window)
      /\ \A i \in Active : /\ f[i] \in Int /\ e[i] \in Int
                            /\ g[h[i]] = f[i] /\ d[h[i]] = e[i]
  BY <1>1, StampsPair
<1>b. \A i, j \in Active : h[i] = h[j] => i = j
  BY <1>1, StampsPair
<1>c. \A t \in Window : (\A i \in Active : h[i] # t) => g[t] = 0 /\ d[t] = 0
  <2> SUFFICES ASSUME NEW t \in Window, \A i \in Active : h[i] # t PROVE g[t] = 0 /\ d[t] = 0
    OBVIOUS
  <2>1. \A i \in Active : slots[i].stamp # t
    BY <1>1
  <2>2. answered[t] = NoAnswers
    BY <2>1, StampsPair
  <2> QED BY <1>1, <2>2 DEF NoAnswers
<1> HIDE DEF h, f, g, e, d
<1>2. Paired(f, Active, g, Window, h) /\ Paired(e, Active, d, Window, h)
  BY <1>1, <1>a, <1>b, <1>c DEF Paired
<1>3. SumFunctionOnSet(f, Active) = SumFunctionOnSet(g, Window)
  BY <1>2, PairedSums
<1>4. SumFunctionOnSet(e, Active) = SumFunctionOnSet(d, Window)
  BY <1>2, PairedSums
<1> QED BY <1>3, <1>4 DEF SnapshotExact, Count, Errors, f, g, e, d

-----------------------------------------------------------------------------
(* Who tightens.                                                             *)

\* A service that puts degraded results in the place of failures records no
\* error and hears of none; only an agent takes snapshots for a decision; and the
\* controller's advice is never below what the service has, as long as it has
\* missed nothing.
Calm ==
  /\ strategy # "none" =>
       (\A i \in Slots : slots[i].errors = 0) /\ ~peerFails /\ ~heard.bad
  /\ seen # Nothing => strategy = "mas-agent"
  /\ strategy = "central" /\ ~excused => params.limit <= advice.limit

LEMMA CalmInit == Init => Calm
<1>1. Default.limit <= Default.limit
  BY AdaptiveAssumption DEF Params
<1> QED BY <1>1 DEF Init, ServiceInit, Calm, Empty, NoReport

\* Without errors there is nothing to tighten for.
LEMMA NoErrors ==
  ASSUME ServiceTypes, \A i \in Slots : slots[i].errors = 0
  PROVE  Errors = 0 /\ Count \in Nat
<1>0. slots \in [Slots -> Stamps]
  BY Places
<1>1. IsFiniteSet(Active) /\ Active \subseteq Slots
  <2>1. IsFiniteSet(Slots)
    BY ServiceAssumption, FS_Interval DEF Slots
  <2> QED BY <2>1, FS_Subset DEF Active
<1> DEFINE f == [i \in Slots |-> slots[i].count]
           e == [i \in Slots |-> slots[i].errors]
<1>2. \A i \in Active : f[i] \in Nat /\ e[i] = 0
  BY <1>0, <1>1 DEF Stamps
<1> HIDE DEF f, e
<1>3. SumFunctionOnSet(e, Active) = 0
  BY <1>1, <1>2, SumZeros
<1>4. SumFunctionOnSet(f, Active) \in Nat
  <2>1. Nat \in {Nat, Int}
    OBVIOUS
  <2> QED BY <1>1, <1>2, <2>1, SumType
<1> QED BY <1>3, <1>4 DEF Errors, Count, e, f

LEMMA LooserMore ==
  ASSUME NEW p \in Params, NEW percent \in {115, 120}
  PROVE  Looser(p, percent) \in Raw /\ Looser(p, percent).limit >= p.limit
<1>0. p \in Raw /\ p.limit \in 5..100
  BY RawParams DEF Params
<1>1. \A k \in Nat : /\ Looser(p, k) \in Raw
                     /\ Looser(p, k).limit = AtMost(100, (p.limit * k) \div 100)
  BY <1>0, LooserRaw
<1>2. CASE percent = 115
  <2>1. (p.limit * 115) \div 100 >= p.limit /\ (p.limit * 115) \div 100 \in Int
    BY <1>0
  <2> QED BY <1>0, <1>1, <1>2, <2>1 DEF AtMost
<1>3. CASE percent = 120
  <2>1. (p.limit * 120) \div 100 >= p.limit /\ (p.limit * 120) \div 100 \in Int
    BY <1>0
  <2> QED BY <1>0, <1>1, <1>3, <2>1 DEF AtMost
<1> QED BY <1>2, <1>3

LEMMA ClampUp ==
  ASSUME NEW p \in Raw, NEW n \in 5..100, p.limit >= n
  PROVE  Clamp(p).limit >= n
<1>1. Clamp(p).limit = AtLeast(5, AtMost(100, p.limit)) /\ p.limit \in Int
  BY ClampParams, Fields
<1> QED BY <1>1 DEF AtLeast, AtMost

\* An agent without an open breaker, told of no failing neighbour, keeps its
\* limit or raises it.
LEMMA AgentLoosens ==
  ASSUME params \in Params, IsFiniteSet(known), opened = {}, NEW s
  PROVE  MasDecision(s, FALSE).limit >= params.limit
<1> DEFINE open == Cardinality(opened)
           total == Cardinality(known)
           first == ByBreakers(params, open, total, s.count)
           second == ByTrend(first, s.p90, open, s.count)
<1>1. open = 0
  BY FS_EmptySet
<1>2. params \in Raw /\ params.limit \in 5..100
  BY RawParams DEF Params
<1>3. Looser(params, 115) \in Raw /\ Looser(params, 115).limit >= params.limit
  BY LooserMore
<1> HIDE DEF open, total
<1>4. first \in Raw /\ first.limit >= params.limit
  BY <1>1, <1>2, <1>3 DEF ByBreakers
<1> HIDE DEF first
<1>5. second \in Raw /\ second.limit = first.limit
  BY <1>4, TrendRule
<1> HIDE DEF second
<1>6. Clamp(second).limit >= params.limit
  BY <1>2, <1>4, <1>5, ClampUp
<1>7. MasDecision(s, FALSE) = Clamp(second)
  BY DEF MasDecision, Considerate, open, total, first, second
<1> QED BY <1>6, <1>7

\* So does a controller that reached both services.
LEMMA ControllerLoosens ==
  ASSUME advice \in Params, Errors = 0, Count \in Nat, NEW p90
  PROVE  CentralDecision(p90, TRUE, FALSE).limit >= advice.limit
<1> DEFINE first == ByErrors(advice, Errors, Count)
           second == ByLatency(first, p90)
<1>1. advice \in Raw /\ advice.limit \in 5..100
  BY RawParams DEF Params
<1>2. Looser(advice, 120) \in Raw /\ Looser(advice, 120).limit >= advice.limit
  BY LooserMore
<1>3. first \in Raw /\ first.limit >= advice.limit
  <2>1. ~(2 * Errors > Count)
    OBVIOUS
  <2> QED BY <2>1, <1>1, <1>2 DEF ByErrors
<1> HIDE DEF first
<1>4. second \in Raw /\ second.limit = first.limit
  BY <1>3, PatienceRaw DEF ByLatency
<1> HIDE DEF second
<1>5. Clamp(second).limit >= advice.limit
  BY <1>1, <1>3, <1>4, ClampUp
<1>6. CentralDecision(p90, TRUE, FALSE) = Clamp(second)
  BY DEF CentralDecision, Considerate, first, second
<1> QED BY <1>5, <1>6

\* A round in which nothing was missed.
LEMMA RoundLoosens ==
  ASSUME Inv, Calm, NEW p90, NEW polled \in BOOLEAN, NEW peerPolled \in BOOLEAN, NEW arrives,
         Round(p90, polled, peerPolled, arrives), ~excused'
  PROVE  advice'.limit >= advice.limit /\ params.limit <= advice.limit
<1>1. polled /\ peerPolled /\ ~excused /\ strategy = "central"
  BY DEF Round, Inv, AdaptiveTypeOK, RuleTypes
<1>2. ~peerFails /\ \A i \in Slots : slots[i].errors = 0
  BY <1>1 DEF Calm
<1>3. Errors = 0 /\ Count \in Nat
  BY <1>2, NoErrors DEF Inv, AdaptiveTypeOK
<1>4. polled = TRUE /\ (peerFails \/ ~peerPolled) = FALSE
  BY <1>1, <1>2
<1>5. advice' = CentralDecision(p90, TRUE, FALSE)
  BY <1>4 DEF Round
<1>6. advice \in Params
  BY DEF Inv, AdaptiveTypeOK, RuleTypes
<1> QED BY <1>1, <1>3, <1>5, <1>6, ControllerLoosens DEF Calm

LEMMA CalmStep == Inv /\ Inv' /\ Calm /\ [Next]_vars => Calm'
<1> SUFFICES ASSUME Inv, Inv', Calm, [Next]_vars PROVE Calm'
  OBVIOUS
<1>0. /\ ServiceTypes /\ advice' \in Params /\ advice \in Params /\ params \in Params
      /\ params' \in Params
  BY DEF Inv, AdaptiveTypeOK, RuleTypes
<1>1. CASE Handle /\ UNCHANGED <<rules, resetting, resets, excused>>
  <2>1. strategy' = strategy
    BY <1>1 DEF Handle, Begin, Call, Trip, Answer, Drop
  <2>2. ASSUME strategy # "none", NEW i \in Slots PROVE slots'[i].errors = 0
    <3>1. CASE UNCHANGED slots
      BY <2>2, <3>1 DEF Calm
    <3>2. ASSUME NEW r \in Requests, NEW failed \in SUBSET Downstreams, Answer(r, failed)
          PROVE  slots'[i].errors = 0
      <4>1. slots' = [slots EXCEPT ![now % Buckets] = Stamped(FALSE, @)]
        BY <2>2, <3>2 DEF Answer, Record, Surfaces
      <4>2. slots[i].errors = 0 /\ slots \in [Slots -> Stamps]
        BY <1>0, <2>2, Places DEF Calm
      <4>3. Stamped(FALSE, slots[i]).errors = 0
        BY <4>2 DEF Stamped, Tally, Empty
      <4> QED BY <4>1, <4>2, <4>3
    <3> QED BY <1>1, <3>1, <3>2 DEF Handle, Begin, Call, Trip, Drop, metrics
  <2> QED BY <1>1, <2>1, <2>2 DEF Calm
<1>2. CASE \E p90 \in Percentiles : Observe(p90)
  BY <1>2 DEF Observe, Calm
<1>3. CASE Decide
  BY <1>3 DEF Decide, Calm
<1>4. CASE \E failed \in SUBSET Downstreams : PeerAnswers(failed)
  <2>1. PICK failed \in SUBSET Downstreams : PeerAnswers(failed)
    BY <1>4
  <2>2. strategy # "none" => peerFails' = FALSE
    BY <2>1 DEF PeerAnswers, Surfaces
  <2> QED BY <2>1, <2>2 DEF PeerAnswers, Calm
<1>5. CASE \E sent \in {now - 1, now} : Hear(sent)
  BY <1>5 DEF Hear, Calm
<1>6. ASSUME NEW p90, NEW polled \in BOOLEAN, NEW peerPolled \in BOOLEAN, NEW arrives \in BOOLEAN,
             Round(p90, polled, peerPolled, arrives)
      PROVE  Calm'
  <2>1. ASSUME ~excused' PROVE params'.limit <= advice'.limit
    <3>1. advice'.limit >= advice.limit /\ params.limit <= advice.limit
      BY <1>6, <2>1, RoundLoosens
    <3>2. advice'.limit \in Nat /\ advice.limit \in Nat /\ params.limit \in Nat
      BY <1>0 DEF Params
    <3>3. params' = advice' \/ params' = params
      BY <1>6 DEF Round
    <3> QED BY <3>1, <3>2, <3>3
  <2> QED BY <1>6, <2>1 DEF Round, Calm
<1>7. CASE ResetBegins
  BY <1>7 DEF ResetBegins, ResetMetrics, Empty, Calm
<1>8. CASE ResetEnds
  <2>1. strategy = "central" => params'.limit <= advice'.limit
    <3>1. strategy = "central" => params' = advice'
      BY <1>8 DEF ResetEnds, Piped
    <3>2. params'.limit \in Nat
      BY <1>0 DEF Params
    <3> QED BY <3>1, <3>2
  <2> QED BY <1>8, <2>1 DEF ResetEnds, NoReport, Calm
<1>9. CASE ResetAbandoned
  BY <1>9 DEF ResetAbandoned, Calm
<1>10. CASE Tick
  BY <1>10 DEF Tick, Calm
<1>11. CASE UNCHANGED vars
  BY <1>11 DEF vars, Calm
<1> QED BY <1>1, <1>2, <1>3, <1>4, <1>5, <1>6, <1>7, <1>8, <1>9, <1>10, <1>11 DEF Next

-----------------------------------------------------------------------------
(* The theorems.                                                             *)

THEOREM Invariant == Spec => []Inv
  BY InitInv, StepInv, PTL DEF Spec

\* Whatever windows, gossip and resets: every decision of an agent or of the
\* controller lies within the table of bounds, and the depth never wraps below
\* zero (resilience.rs:293-317, metrics.rs:65-67).
THEOREM AdaptiveTypes == Spec => []AdaptiveTypeOK
<1>1. Inv => AdaptiveTypeOK
  BY DEF Inv
<1> QED BY <1>1, Invariant, PTL

\* For any number of handlers, dropped ones and resets: how far the queue depth
\* is from the handlers under way (metrics.rs:56, 65-67).
THEOREM QueueDepths == Spec => []QueueDepthWithin
<1>1. Inv => QueueDepthWithin
  BY DEF Inv
<1> QED BY <1>1, Invariant, PTL

\* For every number of downstreams and every percentile: no decision leads out of
\* a limit of 6 or less (mas.rs:103, 107).
THEOREM CrushedLimits == Spec => CrushedLimitStays
<1>1. ASSUME Inv, [Next]_vars, strategy = "mas-agent", params.limit <= 6,
             params'.limit > params.limit
      PROVE  resetting /\ ~resetting'
  <2>1. params.limit \in Nat
    BY <1>1 DEF Inv, AdaptiveTypeOK, RuleTypes, Params
  <2>2. params' # params
    <3>1. ASSUME params' = params PROVE params.limit > params.limit
      BY <1>1, <3>1
    <3> QED BY <3>1, <2>1
  <2>3. CASE Decide
    <3>1. IsFiniteSet(known) /\ opened \subseteq known /\ params \in Params
      BY <1>1, ServiceAssumption, FS_Subset DEF Inv, AdaptiveTypeOK, ServiceTypes, RuleTypes
    <3>2. (heard.bad /\ now - heard.at < GossipStale) \in BOOLEAN
      BY <1>1 DEF Inv, AdaptiveTypeOK, RuleTypes
    <3>3. params'.limit <= params.limit /\ params' \in Params
      BY <1>1, <2>3, <3>1, <3>2, Decided DEF Decide
    <3>4. params'.limit \in Nat
      BY <3>3 DEF Params
    <3> QED BY <1>1, <2>1, <3>3, <3>4
  <2>4. CASE ResetEnds
    BY <2>4 DEF ResetEnds
  <2>5. CASE ~Decide /\ ~ResetEnds
    BY <1>1, <2>2, <2>5
       DEF Next, vars, Observe, PeerAnswers, Hear, Round, ResetBegins, ResetAbandoned, Tick
  <2> QED BY <2>3, <2>4, <2>5
<1>2. Inv /\ [Next]_vars =>
        [strategy = "mas-agent" /\ params.limit <= 6 /\ params'.limit > params.limit =>
           resetting /\ ~resetting']_vars
  BY <1>1
<1> QED BY <1>2, Invariant, PTL DEF Spec, CrushedLimitStays

\* For every number of buckets and however long the service runs: the ring of
\* buckets loses no answer of the window and keeps no other
\* (metrics.rs:69-82, 84-96).
THEOREM SnapshotsAreExact == Spec => []SnapshotExact
<1>1. Inv /\ Ring => SnapshotExact
  BY SnapshotsExact DEF Inv, AdaptiveTypeOK
<1>2. Spec => []Ring
  BY Invariant, RingInit, RingStep, PTL DEF Spec
<1> QED BY <1>1, <1>2, Invariant, PTL

\* For every number of downstreams and every order of requests, rounds, gossip
\* and resets: the rules on error rates and failing neighbours never fire
\* (service.rs:135-142, mod.rs:162-174, mas.rs:126, central.rs:34, 51).
THEOREM OnlyBreakersTighten == Spec => OnlyOpenBreakersTighten
<1> DEFINE Allowed == \/ strategy = "mas-agent" /\ opened # {}
                      \/ strategy = "central" /\ excused'
                      \/ resetting /\ ~resetting'
<1>1. ASSUME Inv, Inv', Calm, [Next]_vars, params'.limit < params.limit
      PROVE  Allowed
  <2>0. params.limit \in Nat /\ params'.limit \in Nat /\ params \in Params
    BY <1>1 DEF Inv, AdaptiveTypeOK, RuleTypes, Params
  <2>1. params' # params
    <3>1. ASSUME params' = params PROVE params.limit < params.limit
      BY <1>1, <3>1
    <3> QED BY <3>1, <2>0
  <2>2. CASE Decide
    <3>1. strategy = "mas-agent" /\ ~heard.bad
      BY <1>1, <2>2 DEF Decide, Calm
    <3>2. (heard.bad /\ now - heard.at < GossipStale) = FALSE
      BY <3>1
    <3>3. params' = MasDecision(seen, FALSE)
      BY <2>2, <3>2 DEF Decide
    <3>4. IsFiniteSet(known)
      BY <1>1, ServiceAssumption, FS_Subset DEF Inv, AdaptiveTypeOK, ServiceTypes
    <3>5. opened # {}
      <4>1. ASSUME opened = {} PROVE params'.limit >= params.limit
        BY <2>0, <3>3, <3>4, <4>1, AgentLoosens
      <4> QED BY <1>1, <2>0, <4>1
    <3> QED BY <3>1, <3>5
  <2>3. ASSUME NEW p90, NEW polled \in BOOLEAN, NEW peerPolled \in BOOLEAN, NEW arrives \in BOOLEAN,
               Round(p90, polled, peerPolled, arrives)
        PROVE  Allowed
    <3>1. strategy = "central" /\ params' = advice'
      BY <2>1, <2>3 DEF Round
    <3>2. ASSUME ~excused' PROVE FALSE
      <4>1. advice'.limit >= advice.limit /\ params.limit <= advice.limit
        BY <1>1, <2>3, <3>2, RoundLoosens
      <4>2. advice.limit \in Nat
        BY <1>1 DEF Inv, AdaptiveTypeOK, RuleTypes, Params
      <4> QED BY <1>1, <2>0, <3>1, <4>1, <4>2
    <3> QED BY <3>1, <3>2
  <2>4. CASE ResetEnds
    BY <2>4 DEF ResetEnds
  <2> QED
    BY <1>1, <2>1, <2>2, <2>3, <2>4
       DEF Next, vars, Observe, PeerAnswers, Hear, ResetBegins, ResetAbandoned, Tick
<1>2. Spec => []Calm
  BY Invariant, CalmInit, CalmStep, PTL DEF Spec
<1>3. Inv /\ Inv' /\ Calm /\ [Next]_vars => [params'.limit < params.limit => Allowed]_vars
  BY <1>1
<1> QED BY <1>2, <1>3, Invariant, PTL DEF Spec, OnlyOpenBreakersTighten
=============================================================================
