------------------------- MODULE ClosePolicyProofs -------------------------
(* The choice of channels to close is the one dcrlnpd.conf describes, for    *)
(* any number of channels.  A property of all turns of a loop is proved by   *)
(* looking at the first turn that would break it.                            *)
EXTENDS ClosePolicy, FiniteSetTheorems, TLAPS

\* Some turn is the first: what induction comes down to here.
LEMMA LeastNatural ==
    ASSUME NEW T \in SUBSET Nat, T /= {}
    PROVE  \E n \in T : \A k \in T : n <= k
<1> DEFINE R == OpToRel(<, Nat)
<1>1. IsWellFoundedOn(R, Nat)
  BY NatLessThanWellFounded
<1>2. PICK n \in T : \A k \in T : <<k, n>> \notin R
  <2> HIDE DEF R
  <2> QED
    BY <1>1, WFMin
<1>3. \A k \in T : ~(k < n)
  BY <1>2 DEF OpToRel
<1> QED
  BY <1>3

-----------------------------------------------------------------------------
(* The fold of WillClose is a loop.                                        *)

\* What the fold makes of the turns in s, from what f makes of fewer.
FoldLine(f, s, order, total) ==
    IF s = {} THEN {} ELSE MarkNext(f[s \ {Max(s)}], order[Max(s)], total)

\* f makes this of all sets of n turns.
IsFold(f, n, order, total) ==
    f = [s \in SUBSET (1..n) |-> FoldLine(f, s, order, total)]

\* The function FoldLeft chooses.
Folded(order, total) ==
    CHOOSE f : f = [s \in SUBSET (DOMAIN order) |->
                       FoldLine(f, s, order, total)]

\* WillClose is what that function makes of all turns.
LEMMA WillCloseFolds ==
    ASSUME NEW order, NEW total
    PROVE  WillClose(order, total) =
              IF NeedsManagement(total) THEN Folded(order, total)[DOMAIN order]
                                        ELSE {}
  BY DEF WillClose, FoldLeft, MapThenFoldSet, Folded, FoldLine

\* The last of some turns is one of them.
LEMMA MaxIsTurn ==
    ASSUME NEW n \in Nat, NEW s \in SUBSET (1..n), s /= {}
    PROVE  Max(s) \in s
<1> DEFINE Left == {n - y : y \in s}
<1>1. PICK m \in Left : \A k \in Left : m <= k
  <2>1. Left \in SUBSET Nat
    OBVIOUS
  <2>2. Left /= {}
    OBVIOUS
  <2> QED
    BY <2>1, <2>2, LeastNatural
<1>2. PICK x \in s : m = n - x
  BY <1>1
<1>3. \A y \in s : n - x <= n - y
  BY <1>1, <1>2
<1>4. \A y \in s : x >= y
  BY <1>3
<1> QED
  BY <1>4 DEF Max

\* The last turn, among turns up to it.
LEMMA MaxOfTurns ==
    ASSUME NEW n \in Nat, NEW s \in SUBSET (1..n + 1), n + 1 \in s
    PROVE  Max(s) = n + 1
<1>1. \A x \in s : (\A y \in s : x >= y) => x = n + 1
  OBVIOUS
<1>2. \A y \in s : n + 1 >= y
  OBVIOUS
<1> QED
  BY <1>1, <1>2 DEF Max

\* There is such a function: one more turn adds the sets that hold it.
LEMMA FoldExists ==
    ASSUME NEW order, NEW total
    PROVE  \A n \in Nat : \E f : IsFold(f, n, order, total)
<1> DEFINE Exists(n) == \E f : IsFold(f, n, order, total)
           Missing == {n \in Nat : ~Exists(n)}
<1>1. Exists(0)
  <2> DEFINE f == [s \in SUBSET (1..0) |-> {}]
  <2>1. f = [s \in SUBSET (1..0) |-> FoldLine(f, s, order, total)]
    <3>1. \A s \in SUBSET (1..0) : FoldLine(f, s, order, total) = {}
      BY DEF FoldLine
    <3> QED
      BY <3>1
  <2> QED
    BY <2>1 DEF IsFold
<1>2. ASSUME NEW n \in Nat, Exists(n)
      PROVE  Exists(n + 1)
  <2>1. PICK f : f = [s \in SUBSET (1..n) |-> FoldLine(f, s, order, total)]
    BY <1>2 DEF IsFold
  <2> DEFINE g == [s \in SUBSET (1..n + 1) |->
                     IF s \in SUBSET (1..n) THEN f[s]
                     ELSE MarkNext(f[s \ {n + 1}], order[n + 1], total)]
  <2>2. ASSUME NEW s \in SUBSET (1..n + 1)
        PROVE  g[s] = FoldLine(g, s, order, total)
    <3>1. CASE s = {}
      BY <2>1, <3>1 DEF FoldLine
    <3>2. CASE s /= {} /\ s \in SUBSET (1..n)
      <4>1. Max(s) \in s
        BY <3>2, MaxIsTurn
      <4>2. s \ {Max(s)} \in SUBSET (1..n) /\ s \ {Max(s)} \in SUBSET (1..n + 1)
        BY <3>2
      <4>3. g[s \ {Max(s)}] = f[s \ {Max(s)}]
        BY <4>2
      <4>4. g[s] = f[s]
        BY <3>2
      <4>5. f[s] = FoldLine(f, s, order, total)
        BY <2>1, <3>2
      <4> QED
        BY <4>3, <4>4, <4>5 DEF FoldLine
    <3>3. CASE s \notin SUBSET (1..n)
      <4>1. n + 1 \in s
        BY <3>3
      <4>2. Max(s) = n + 1
        BY <4>1, MaxOfTurns
      <4>3. s \ {n + 1} \in SUBSET (1..n) /\ s \ {n + 1} \in SUBSET (1..n + 1)
        OBVIOUS
      <4>4. g[s \ {n + 1}] = f[s \ {n + 1}]
        BY <4>3
      <4> QED
        BY <3>3, <4>1, <4>2, <4>4 DEF FoldLine
    <3> QED
      BY <3>1, <3>2, <3>3
  <2>3. g = [s \in SUBSET (1..n + 1) |-> FoldLine(g, s, order, total)]
    BY <2>2
  <2> QED
    BY <2>3 DEF IsFold
<1>3. Missing = {}
  <2> SUFFICES ASSUME Missing /= {}
               PROVE  FALSE
    OBVIOUS
  <2> HIDE DEF Exists
  <2>1. PICK n \in Missing : \A k \in Missing : n <= k
    BY LeastNatural
  <2>2. n /= 0
    BY <1>1, <2>1
  <2>3. n - 1 \in Nat /\ n - 1 \notin Missing
    BY <2>1, <2>2
  <2>4. Exists((n - 1) + 1)
    BY <1>2, <2>3
  <2> QED
    BY <2>1, <2>4
<1> QED
  BY <1>3

\* So FoldLeft does not choose in vain.
LEMMA FoldedLines ==
    ASSUME NEW order, NEW total, NEW n \in Nat, DOMAIN order = 1..n
    PROVE  Folded(order, total) =
              [s \in SUBSET (1..n) |->
                  FoldLine(Folded(order, total), s, order, total)]
<1>1. PICK g : IsFold(g, n, order, total)
  BY FoldExists
<1>2. Folded(order, total) = CHOOSE h : IsFold(h, n, order, total)
  BY DEF Folded, FoldLine, IsFold
<1>3. IsFold(Folded(order, total), n, order, total)
  BY <1>1, <1>2
<1> QED
  BY <1>3 DEF IsFold

\* What is marked after each turn of the closing loop (FetchManagedChannels).
IsLoop(marked, order, total) ==
    /\ marked[0] = {}
    /\ \A i \in 1..Len(order) :
          marked[i] = MarkNext(marked[i - 1], order[i], total)

\* WillClose is what is marked after the last turn.
LEMMA WillCloseLoops ==
    ASSUME NEW S, NEW order \in Seq(S), NEW total, NeedsManagement(total)
    PROVE  \E marked : /\ IsLoop(marked, order, total)
                       /\ WillClose(order, total) = marked[Len(order)]
<1> DEFINE n == Len(order)
           f == Folded(order, total)
           marked == [i \in 0..n |-> f[1..i]]
<1>1. n \in Nat /\ DOMAIN order = 1..n
  OBVIOUS
<1>2. f = [s \in SUBSET (1..n) |-> FoldLine(f, s, order, total)]
  BY <1>1, FoldedLines
<1>5. WillClose(order, total) = f[1..n]
  BY <1>1, WillCloseFolds
<1> HIDE DEF f, n
<1>3. marked[0] = {}
  BY <1>1, <1>2 DEF FoldLine
<1>4. ASSUME NEW i \in 1..n
      PROVE  marked[i] = MarkNext(marked[i - 1], order[i], total)
  <2>1. Max(1..i) = i
    <3>1. /\ i - 1 \in Nat /\ 1..i \in SUBSET (1..(i - 1) + 1)
          /\ (i - 1) + 1 \in 1..i
      BY <1>1
    <3>2. Max(1..i) = (i - 1) + 1
      BY <3>1, MaxOfTurns
    <3> QED
      BY <3>2, <1>1
  <2>2. (1..i) \ {i} = 1..i - 1
    BY <1>1
  <2>3. 1..i \in SUBSET (1..n) /\ 1..i /= {}
    <3>1. i \in Nat /\ 1 <= i /\ i <= n
      BY <1>1
    <3>2. i \in 1..i
      BY <3>1
    <3>3. \A k \in 1..i : k \in 1..n
      BY <1>1, <3>1
    <3> QED
      BY <3>2, <3>3
  <2>4. f[1..i] = MarkNext(f[1..i - 1], order[i], total)
    BY <1>2, <2>1, <2>2, <2>3 DEF FoldLine
  <2> QED
    BY <1>1, <2>4
<1>6. WillClose(order, total) = marked[n]
  BY <1>1, <1>5
<1> HIDE DEF marked
<1> QED
  BY <1>3, <1>4, <1>6 DEF IsLoop, n

-----------------------------------------------------------------------------
(* A sum over a finite set is a number.                                    *)

\* The sum of f over s, from sums g over fewer.
SumLine(g, s, f) ==
    IF s = {} THEN 0
    ELSE f[CHOOSE x \in s : TRUE] + g[s \ {CHOOSE x \in s : TRUE}]

\* g has the sums of all subsets of S.
IsSum(g, S, f) == g = [s \in SUBSET S |-> SumLine(g, s, f)]

\* A set without its chosen element is smaller.
LEMMA Smaller ==
    ASSUME NEW S, IsFiniteSet(S), NEW s \in SUBSET S, s /= {}
    PROVE  LET x == CHOOSE x \in s : TRUE
           IN  /\ x \in s /\ s \ {x} \in SUBSET S
               /\ Cardinality(s) \in Nat /\ Cardinality(s \ {x}) \in Nat
               /\ Cardinality(s \ {x}) = Cardinality(s) - 1
<1> DEFINE x == CHOOSE x \in s : TRUE
<1>1. x \in s
  OBVIOUS
<1> HIDE DEF x
<1>2. IsFiniteSet(s) /\ Cardinality(s) \in Nat
  BY FS_Subset, FS_CardinalityType
<1>3. IsFiniteSet(s \ {x}) /\ Cardinality(s \ {x}) = Cardinality(s) - 1
  BY <1>1, <1>2, FS_RemoveElement
<1>4. Cardinality(s \ {x}) \in Nat
  BY <1>3, FS_CardinalityType
<1> QED
  BY <1>1, <1>2, <1>3, <1>4 DEF x

\* There are such sums: those of sets of one more element from the others.
LEMMA SumExists ==
    ASSUME NEW S, IsFiniteSet(S), NEW f
    PROVE  \E g : IsSum(g, S, f)
<1> DEFINE Sets(n) == {s \in SUBSET S : Cardinality(s) <= n}
           Exists(n) == \E g : g = [s \in Sets(n) |-> SumLine(g, s, f)]
           Missing == {n \in Nat : ~Exists(n)}
<1>0. \A s \in SUBSET S : /\ Cardinality(s) \in Nat
                          /\ Cardinality(s) = 0 <=> s = {}
  BY FS_Subset, FS_CardinalityType, FS_EmptySet
<1>1. Exists(0)
  <2> DEFINE g == [s \in Sets(0) |-> 0]
  <2>1. \A s \in Sets(0) : s = {}
    BY <1>0
  <2>2. g = [s \in Sets(0) |-> SumLine(g, s, f)]
    BY <2>1 DEF SumLine
  <2> QED
    BY <2>2
<1>2. ASSUME NEW n \in Nat, Exists(n)
      PROVE  Exists(n + 1)
  <2>1. PICK g : g = [s \in Sets(n) |-> SumLine(g, s, f)]
    BY <1>2
  <2> DEFINE h == [s \in Sets(n + 1) |-> SumLine(g, s, f)]
  <2>2. Sets(n) \subseteq Sets(n + 1)
    BY <1>0
  <2>3. \A s \in Sets(n) : h[s] = g[s]
    BY <2>1, <2>2
  <2>4. ASSUME NEW s \in Sets(n + 1)
        PROVE  SumLine(g, s, f) = SumLine(h, s, f)
    <3>1. CASE s = {}
      BY <3>1 DEF SumLine
    <3>2. CASE s /= {}
      <4>1. s \ {CHOOSE x \in s : TRUE} \in Sets(n)
        BY <1>0, <3>2, Smaller
      <4> QED
        BY <2>3, <4>1 DEF SumLine
    <3> QED
      BY <3>1, <3>2
  <2>5. h = [s \in Sets(n + 1) |-> SumLine(h, s, f)]
    BY <2>4
  <2> QED
    BY <2>5
<1>3. Missing = {}
  <2> SUFFICES ASSUME Missing /= {}
               PROVE  FALSE
    OBVIOUS
  <2> HIDE DEF Exists
  <2>1. PICK n \in Missing : \A k \in Missing : n <= k
    BY LeastNatural
  <2>2. n /= 0
    BY <1>1, <2>1
  <2>3. n - 1 \in Nat /\ n - 1 \notin Missing
    BY <2>1, <2>2
  <2>4. Exists((n - 1) + 1)
    BY <1>2, <2>3
  <2> QED
    BY <2>1, <2>4
<1>4. Cardinality(S) \in Nat /\ Sets(Cardinality(S)) = SUBSET S
  BY FS_CardinalityType, FS_Subset
<1>5. Exists(Cardinality(S))
  BY <1>3, <1>4
<1> QED
  BY <1>4, <1>5 DEF IsSum

\* They are naturals: there is no smallest set whose sum is not.
LEMMA SumType ==
    ASSUME NEW S, IsFiniteSet(S), NEW f, \A x \in S : f[x] \in Nat,
           NEW g, IsSum(g, S, f)
    PROVE  g[S] \in Nat
<1> DEFINE Bad == {Cardinality(s) : s \in {t \in SUBSET S : g[t] \notin Nat}}
<1>0. \A s \in SUBSET S : Cardinality(s) \in Nat
  BY FS_Subset, FS_CardinalityType
<1>1. Bad \in SUBSET Nat
  BY <1>0
<1>2. Bad = {}
  <2> SUFFICES ASSUME Bad /= {}
               PROVE  FALSE
    OBVIOUS
  <2>1. PICK n \in Bad : \A k \in Bad : n <= k
    BY <1>1, LeastNatural
  <2>2. PICK s \in SUBSET S : g[s] \notin Nat /\ Cardinality(s) = n
    BY <2>1
  <2>3. g[s] = SumLine(g, s, f)
    BY DEF IsSum
  <2>4. s /= {}
    BY <2>2, <2>3 DEF SumLine
  <2> DEFINE x == CHOOSE x \in s : TRUE
  <2>5. /\ x \in s /\ s \ {x} \in SUBSET S
        /\ Cardinality(s) \in Nat /\ Cardinality(s \ {x}) = Cardinality(s) - 1
    BY <2>4, Smaller
  <2>6. g[s] = f[x] + g[s \ {x}]
    BY <2>3, <2>4 DEF SumLine
  <2> HIDE DEF x
  <2>7. g[s \ {x}] \in Nat
    <3>1. Cardinality(s \ {x}) \notin Bad
      BY <2>1, <2>2, <2>5
    <3> QED
      BY <2>5, <3>1
  <2> QED
    BY <2>2, <2>5, <2>6, <2>7
<1>3. \A s \in SUBSET S : g[s] \in Nat
  BY <1>2
<1> QED
  BY <1>3

\* The sums MapThenSumSet(Local, S) chooses.
LocalSums(S) ==
    CHOOSE g : g = [s \in SUBSET S |->
                      IF s = {} THEN 0
                      ELSE Local(CHOOSE x \in s : TRUE)
                             + g[s \ {CHOOSE x \in s : TRUE}]]

\* What the channels marked give back is a natural (LocalBalance).
LEMMA LocalSumType ==
    ASSUME NEW W, IsFiniteSet(W), \A c \in W : c.local \in Nat
    PROVE  MapThenSumSet(Local, W) \in Nat
<1> DEFINE f == [c \in W |-> Local(c)]
           Line(g, s) == IF s = {} THEN 0
                         ELSE Local(CHOOSE x \in s : TRUE)
                                + g[s \ {CHOOSE x \in s : TRUE}]
           IsLocalSum(g) == g = [s \in SUBSET W |-> Line(g, s)]
<1>1. MapThenSumSet(Local, W) = LocalSums(W)[W]
  BY DEF MapThenSumSet, MapThenFoldSet, LocalSums
<1>2. ASSUME NEW g
      PROVE  IsSum(g, W, f) <=> IsLocalSum(g)
  <2>1. \A s \in SUBSET W : SumLine(g, s, f) = Line(g, s)
    BY DEF SumLine
  <2> HIDE DEF Line
  <2> QED
    BY <2>1 DEF IsSum
<1>3. \E g : IsLocalSum(g)
  <2> HIDE DEF IsLocalSum, f
  <2> QED
    BY <1>2, SumExists
<1>4. LocalSums(W) = CHOOSE g : IsLocalSum(g)
  BY DEF LocalSums
<1> HIDE DEF IsLocalSum
<1>5. IsSum(LocalSums(W), W, f)
  BY <1>2, <1>3, <1>4
<1>6. \A c \in W : f[c] \in Nat
  BY DEF Local
<1> HIDE DEF f
<1>7. LocalSums(W)[W] \in Nat
  BY <1>5, <1>6, SumType
<1> QED
  BY <1>1, <1>7

-----------------------------------------------------------------------------
(* The order of the scores.                                                *)

\* What the node says of a channel, and what channelActivity accepts.
Scored(c) == /\ c.capacity \in Nat \ {0} /\ c.lifetime \in Nat
             /\ c.sent \in Nat /\ c.local \in Nat

\* Fractions x/u, y/v and z/t in order, without dividing.
LEMMA CrossProducts ==
    ASSUME NEW x \in Nat, NEW y \in Nat, NEW z \in Nat,
           NEW u \in Nat \ {0}, NEW v \in Nat \ {0}, NEW t \in Nat \ {0},
           x * v <= y * u, y * t <= z * v
    PROVE  x * t <= z * u
<1>1. ASSUME NEW m \in Nat, NEW n \in Nat, m * v <= n * v
      PROVE  m <= n
  BY <1>1
<1>2. (x * v) * t <= (y * u) * t
  OBVIOUS
<1>3. (y * t) * u <= (z * v) * u
  OBVIOUS
<1>4. (x * t) * v <= (z * u) * v
  BY <1>2, <1>3
<1>5. x * t \in Nat /\ z * u \in Nat
  OBVIOUS
<1> QED
  BY <1>1, <1>4, <1>5

\* "No less active than" is reflexive and transitive: it compares the quotients
\* of channelActivity, whose divisors are positive.
LEMMA LessActiveOrders ==
    ASSUME NEW a, NEW b, NEW c, Scored(a), Scored(b), Scored(c)
    PROVE  /\ ~LessActive(a, a)
           /\ ~LessActive(b, a) /\ ~LessActive(c, b) => ~LessActive(c, a)
<1> DEFINE w(x) == x.capacity * Hours(x)
<1>1. \A x \in {a, b, c} : /\ Hours(x) \in Nat \ {0}
                           /\ w(x) \in Nat \ {0}
  BY ClosePolicyAssumption DEF Scored, Hours
<1>2. \A x \in {a, b, c} : x.sent \in Nat
  BY DEF Scored
<1>3. \A x, y \in {a, b, c} : LessActive(x, y) <=> x.sent * w(y) < y.sent * w(x)
  BY <1>1 DEF Scored, LessActive
<1> HIDE DEF w
<1>4. \A x, y \in {a, b, c} : x.sent * w(y) \in Nat
  BY <1>1, <1>2
<1>5. \A x, y \in {a, b, c} : ~LessActive(x, y) <=> y.sent * w(x) <= x.sent * w(y)
  BY <1>3, <1>4
<1>6. ~LessActive(a, a)
  BY <1>4, <1>5
<1>7. ASSUME ~LessActive(b, a), ~LessActive(c, b)
      PROVE  ~LessActive(c, a)
  <2>1. a.sent * w(b) <= b.sent * w(a) /\ b.sent * w(c) <= c.sent * w(b)
    BY <1>5, <1>7
  <2>2. a.sent * w(c) <= c.sent * w(a)
    BY <1>1, <1>2, <2>1, CrossProducts
  <2> QED
    BY <1>5, <2>2
<1> QED
  BY <1>6, <1>7

\* A sorted list has each channel once.
LEMMA OrderCovers ==
    ASSUME NEW S, IsFiniteSet(S), NEW order \in ByScore(S)
    PROVE  /\ order \in Seq(S) /\ Len(order) \in Nat
           /\ \A i, j \in 1..Len(order) : i /= j => order[i] /= order[j]
           /\ \A c \in S : \E i \in 1..Len(order) : order[i] = c
<1> DEFINE n == Cardinality(S)
<1>1. n \in Nat
  BY FS_CardinalityType
<1>2. /\ order \in [1..n -> S]
      /\ \A i, j \in 1..n : i /= j => order[i] /= order[j]
  BY DEF ByScore, SetToSeqs
<1>3. IsFiniteSet(1..n) /\ Cardinality(1..n) = n
  <2> HIDE DEF n
  <2> QED
    BY <1>1, FS_Interval
<1> HIDE DEF n
<1>4. order \in Seq(S) /\ Len(order) = n
  BY <1>1, <1>2
<1>5. order \in Injection(1..n, S)
  BY <1>2 DEF Injection, IsInjective
<1>6. order \in Surjection(1..n, S)
  BY <1>3, <1>5, FS_Injection DEF n
<1> QED
  BY <1>1, <1>2, <1>4, <1>6 DEF Surjection

\* Neighbours in order are all in order (sort.Slice).
LEMMA OrderSorts ==
    ASSUME NEW S, IsFiniteSet(S), \A c \in S : Scored(c),
           NEW order \in ByScore(S)
    PROVE  \A i, j \in 1..Len(order) : i <= j => ~LessActive(order[j], order[i])
<1>1. /\ order \in Seq(S) /\ Len(order) \in Nat
      /\ \A i \in 1..Len(order) - 1 : ~LessActive(order[i + 1], order[i])
  BY OrderCovers DEF ByScore
<1> SUFFICES ASSUME NEW i \in 1..Len(order)
             PROVE  \A j \in 1..Len(order) : i <= j =>
                        ~LessActive(order[j], order[i])
  OBVIOUS
<1> DEFINE Bad == {j \in 1..Len(order) :
                      i <= j /\ LessActive(order[j], order[i])}
<1>2. Bad \in SUBSET Nat
  OBVIOUS
<1>3. Bad = {}
  <2> SUFFICES ASSUME Bad /= {}
               PROVE  FALSE
    OBVIOUS
  <2>1. PICK j \in Bad : \A k \in Bad : j <= k
    BY <1>2, LeastNatural
  <2>2. order[i] \in S /\ order[j] \in S
    BY <1>1, <2>1
  <2>3. j /= i
    BY <2>1, <2>2, LessActiveOrders
  <2>4. j - 1 \in 1..Len(order) - 1 /\ i <= j - 1 /\ j - 1 \in 1..Len(order)
    BY <1>1, <2>1, <2>3
  <2>5. ~LessActive(order[j - 1], order[i])
    BY <2>1, <2>4
  <2>6. ~LessActive(order[(j - 1) + 1], order[j - 1])
    BY <1>1, <2>4
  <2>7. order[j - 1] \in S /\ (j - 1) + 1 = j
    BY <1>1, <2>1, <2>4
  <2>8. ~LessActive(order[j], order[i])
    BY <2>2, <2>5, <2>6, <2>7, LessActiveOrders
  <2> QED
    BY <2>1, <2>8
<1> QED
  BY <1>3

-----------------------------------------------------------------------------
(* The closing loop.                                                       *)

\* After i turns: only old channels are marked; one of the first i that is old
\* and was not marked comes after all that were, and none is needed any more;
\* and without the last one marked, the minimum would be missed.
LoopInv(marked, order, total, i) ==
    LET W == marked[i]
    IN  /\ W \subseteq {order[j] : j \in 1..i}
        /\ \A c \in W : HasMinLifetime(c)
        /\ \A j \in 1..i : HasMinLifetime(order[j]) /\ order[j] \notin W =>
              /\ ~(total + MapThenSumSet(Local, W) < MinWalletBalance)
              /\ \A k \in 1..i : order[k] \in W => k < j
        /\ W /= {} => \E j \in 1..i :
              /\ order[j] \in W
              /\ \A k \in 1..i : order[k] \in W => k <= j
              /\ total + MapThenSumSet(Local, W \ {order[j]}) < MinWalletBalance

\* A turn either marks a channel, and so none before was spared, or it spares
\* one and changes nothing.
LEMMA LoopStep ==
    ASSUME NEW S, NEW order \in Seq(S), NEW total, NEW marked,
           \A i, j \in 1..Len(order) : i /= j => order[i] /= order[j],
           IsLoop(marked, order, total),
           NEW i \in 1..Len(order), LoopInv(marked, order, total, i - 1)
    PROVE  LoopInv(marked, order, total, i)
<1> DEFINE V == marked[i - 1]
           W == marked[i]
           c == order[i]
           Short(U) == total + MapThenSumSet(Local, U) < MinWalletBalance
<1>0. i \in Nat /\ 1..i = (1..i - 1) \cup {i} /\ 1..i \subseteq 1..Len(order)
  OBVIOUS
<1>1. W = MarkNext(V, c, total)
  BY DEF IsLoop
<1>2. /\ V \subseteq {order[j] : j \in 1..i - 1}
      /\ \A d \in V : HasMinLifetime(d)
      /\ \A j \in 1..i - 1 : HasMinLifetime(order[j]) /\ order[j] \notin V =>
            /\ ~Short(V)
            /\ \A k \in 1..i - 1 : order[k] \in V => k < j
      /\ V /= {} => \E j \in 1..i - 1 :
            /\ order[j] \in V
            /\ \A k \in 1..i - 1 : order[k] \in V => k <= j
            /\ Short(V \ {order[j]})
  BY DEF LoopInv
<1>3. c \notin V
  BY <1>0, <1>2
<1>c. CASE HasMinLifetime(c) /\ Short(V)
  <2>1. W = V \cup {c} /\ W \ {c} = V
    BY <1>1, <1>3, <1>c DEF MarkNext
  <2> HIDE DEF Short, V, W
  <2>2. \A j \in 1..i : HasMinLifetime(order[j]) => order[j] \in W
    BY <1>0, <1>2, <1>c, <2>1
  <2>3. W \subseteq {order[j] : j \in 1..i} /\ \A d \in W : HasMinLifetime(d)
    BY <1>0, <1>2, <1>c, <2>1
  <2>4. Short(W \ {order[i]})
    BY <1>c, <2>1
  <2>5. /\ i \in 1..i /\ order[i] \in W
        /\ \A k \in 1..i : order[k] \in W => k <= i
    BY <1>0, <2>1
  <2> QED
    BY <2>2, <2>3, <2>4, <2>5 DEF LoopInv, Short, W
<1>s. CASE ~(HasMinLifetime(c) /\ Short(V))
  <2>1. W = V
    BY <1>1, <1>s DEF MarkNext
  <2> HIDE DEF Short, V, W
  <2>2. \A k \in 1..i : order[k] \in W => k \in 1..i - 1
    BY <1>0, <1>3, <2>1
  <2>3. W \subseteq {order[j] : j \in 1..i} /\ \A d \in W : HasMinLifetime(d)
    BY <1>0, <1>2, <2>1
  <2>4. ASSUME NEW j \in 1..i, HasMinLifetime(order[j]), order[j] \notin W
        PROVE  ~Short(W) /\ \A k \in 1..i : order[k] \in W => k < j
    <3>1. CASE j = i
      BY <1>0, <1>s, <2>1, <2>2, <2>4, <3>1
    <3>2. CASE j \in 1..i - 1
      BY <1>2, <2>1, <2>2, <2>4, <3>2
    <3> QED
      BY <1>0, <3>1, <3>2
  <2>5. W /= {} => \E j \in 1..i :
            /\ order[j] \in W
            /\ \A k \in 1..i : order[k] \in W => k <= j
            /\ Short(W \ {order[j]})
    BY <1>0, <1>2, <2>1, <2>2
  <2> QED
    BY <2>3, <2>4, <2>5 DEF LoopInv, Short, W
<1> QED
  BY <1>c, <1>s

\* So it is after the last turn.
LEMMA LoopEnds ==
    ASSUME NEW S, NEW order \in Seq(S), NEW total, NEW marked,
           \A i, j \in 1..Len(order) : i /= j => order[i] /= order[j],
           IsLoop(marked, order, total)
    PROVE  LoopInv(marked, order, total, Len(order))
<1> DEFINE Bad == {i \in 0..Len(order) : ~LoopInv(marked, order, total, i)}
<1>1. LoopInv(marked, order, total, 0)
  BY DEF IsLoop, LoopInv
<1>2. Len(order) \in Nat /\ Bad \in SUBSET Nat
  OBVIOUS
<1>3. Bad = {}
  <2> SUFFICES ASSUME Bad /= {}
               PROVE  FALSE
    OBVIOUS
  <2>1. PICK i \in Bad : \A k \in Bad : i <= k
    BY <1>2, LeastNatural
  <2>2. i \in 1..Len(order)
    BY <1>1, <1>2, <2>1
  <2>3. LoopInv(marked, order, total, i - 1)
    BY <1>2, <2>1, <2>2
  <2>4. LoopInv(marked, order, total, i)
    BY <2>2, <2>3, LoopStep
  <2> QED
    BY <2>1, <2>4
<1> QED
  BY <1>2, <1>3

-----------------------------------------------------------------------------

\* Whatever the channels, the wallet and the order of equal scores: channels old
\* enough are closed, the least active first, until the minimum is restored or
\* none is left, and not one more (FetchManagedChannels).
THEOREM ChoiceIsRight ==
    ASSUME NEW S, IsFiniteSet(S), \A c \in S : Scored(c),
           NEW order \in ByScore(S), NEW total \in Int
    PROVE  LET W == WillClose(order, total)
           IN  /\ W \subseteq Eligible(S)
               /\ LowestFirst(W, S)
               /\ Enough(W, S, total)
               /\ NoMore(W, total)
<1> DEFINE W == WillClose(order, total)
           n == Len(order)
<1>1. /\ order \in Seq(S) /\ n \in Nat
      /\ \A i, j \in 1..n : i /= j => order[i] /= order[j]
      /\ \A c \in S : \E i \in 1..n : order[i] = c
  BY OrderCovers
<1>2. \A i, j \in 1..n : i <= j => ~LessActive(order[j], order[i])
  BY OrderSorts
<1>3. CASE ~NeedsManagement(total)
  <2>1. W = {}
    BY <1>3 DEF WillClose
  <2> QED
    BY <1>3, <2>1 DEF LowestFirst, Enough, NoMore
<1>4. CASE NeedsManagement(total)
  <2>1. PICK marked : IsLoop(marked, order, total) /\ W = marked[n]
    BY <1>1, <1>4, WillCloseLoops
  <2>2. LoopInv(marked, order, total, n)
    BY <1>1, <2>1, LoopEnds
  <2> DEFINE Short(U) == total + MapThenSumSet(Local, U) < MinWalletBalance
  <2>3. /\ W \subseteq {order[j] : j \in 1..n}
        /\ \A c \in W : HasMinLifetime(c)
        /\ \A j \in 1..n : HasMinLifetime(order[j]) /\ order[j] \notin W =>
              /\ ~Short(W)
              /\ \A k \in 1..n : order[k] \in W => k < j
        /\ W /= {} => \E j \in 1..n :
              /\ order[j] \in W
              /\ \A k \in 1..n : order[k] \in W => k <= j
              /\ Short(W \ {order[j]})
    BY <2>1, <2>2 DEF LoopInv
  <2> HIDE DEF W, n
  <2>4. W \subseteq Eligible(S)
    BY <1>1, <2>3 DEF Eligible, n
  <2>5. \A c \in W : \E k \in 1..n : order[k] = c
    BY <2>3
  <2>6. LowestFirst(W, S)
    <3> SUFFICES ASSUME NEW c \in W, NEW d \in S, HasMinLifetime(d), d \notin W
                 PROVE  ~LessActive(d, c)
      BY DEF LowestFirst, Eligible
    <3>1. PICK k \in 1..n : order[k] = c
      BY <2>5
    <3>2. PICK j \in 1..n : order[j] = d
      BY <1>1
    <3>3. k <= j
      BY <1>1, <2>3, <3>1, <3>2
    <3> QED
      BY <1>2, <3>1, <3>2, <3>3
  <2>7. Enough(W, S, total)
    <3>1. MapThenSumSet(Local, W) \in Nat
      <4>1. W \in SUBSET S
        BY <2>4 DEF Eligible
      <4>2. IsFiniteSet(W)
        BY <4>1, FS_Subset
      <4> QED
        BY <4>1, <4>2, LocalSumType DEF Scored
    <3>2. Short(W) \/ total + MapThenSumSet(Local, W) >= MinWalletBalance
      BY <3>1, ClosePolicyAssumption
    <3>3. ASSUME Short(W)
          PROVE  W = Eligible(S)
      BY <1>1, <2>3, <2>4, <3>3 DEF Eligible
    <3> QED
      BY <3>2, <3>3 DEF Enough
  <2>8. NoMore(W, total)
    <3> SUFFICES ASSUME W /= {}
                 PROVE  \E last \in W :
                           /\ \A c \in W : ~LessActive(last, c)
                           /\ Short(W \ {last})
      BY DEF NoMore
    <3>1. PICK j \in 1..n : /\ order[j] \in W
                            /\ \A k \in 1..n : order[k] \in W => k <= j
                            /\ Short(W \ {order[j]})
      BY <2>3
    <3>2. \A c \in W : ~LessActive(order[j], c)
      BY <1>2, <2>5, <3>1
    <3> QED
      BY <3>1, <3>2
  <2> QED
    BY <2>4, <2>6, <2>7, <2>8 DEF W
<1> QED
  BY <1>3, <1>4
=============================================================================
