----------------------- MODULE PolicySelectionProofs -----------------------
(***************************************************************************)
(* Theorems about PolicySelection for every policy_selection frame, grid,  *)
(* table of counts, score and amount, and any number of faults in a case.  *)
(* The types hold (the costs are sums over the rows, so that their lemmas  *)
(* come first), the search ends with the first cheapest feasible contract, *)
(* the evidence decides a challenged case, and only clean evidence lets    *)
(* the service approve one.                                                *)
(***************************************************************************)
EXTENDS PolicySelection, FiniteSetTheorems, WellFoundedInduction, TLAPS

(* Sums of functions with finite domains, by induction over set sizes.      *)

\* Induction stated about a set, so that no theorem with an operator parameter
\* is needed: a least member of the complement leads to a contradiction.
LEMMA NatSetInduction ==
    ASSUME NEW N \in SUBSET Nat, 0 \in N, \A n \in N : n + 1 \in N
    PROVE  N = Nat
<1> DEFINE R == {ss \in Nat \X Nat : ss[1] < ss[2]}
           T == Nat \ N
<1>1. SUFFICES ASSUME T # {} PROVE FALSE
  OBVIOUS
<1>2. IsWellFoundedOn(R, Nat)
  BY NatLessThanWellFounded DEF OpToRel
<1>3. PICK x \in T : \A y \in T : <<y, x>> \notin R
  <2> HIDE DEF R
  <2> QED BY <1>1, <1>2, WFMin
<1>4. \A y \in Nat : y < x => y \in N
  BY <1>3
<1>5. x # 0 /\ x - 1 \in Nat /\ x - 1 < x
  OBVIOUS
<1> QED BY <1>3, <1>4, <1>5

\* The member a fold takes from a set next.
Pick(s) == CHOOSE x \in s : TRUE

\* g is the function by which the library defines a sum of f, on the sets in D.
Adds(g, f, D) == g = [s \in D |-> IF s = {} THEN 0 ELSE f[Pick(s)] + g[s \ {Pick(s)}]]

\* The subsets of S with at most n members.
Small(S, n) == {s \in SUBSET S : Cardinality(s) <= n}

\* What is left of a set when its next member is taken is smaller.
LEMMA SmallSets ==
    ASSUME NEW S, IsFiniteSet(S), NEW n \in Nat, NEW s \in Small(S, n + 1), s # {}
    PROVE  s \ {Pick(s)} \in Small(S, n) /\ Pick(s) \in S
<1>1. Pick(s) \in s /\ s \subseteq S
  BY DEF Pick, Small
<1>2. IsFiniteSet(s)
  BY <1>1, FS_Subset
<1>3. Cardinality(s) \in Nat /\ Cardinality(s \ {Pick(s)}) = Cardinality(s) - 1
  BY <1>1, <1>2, FS_RemoveElement, FS_CardinalityType
<1> QED BY <1>1, <1>3 DEF Small

\* There is such a function on the subsets of a finite set.
LEMMA SumExists ==
    ASSUME NEW f, NEW S, IsFiniteSet(S)
    PROVE  \E g : Adds(g, f, SUBSET S)
<1> DEFINE N == {n \in Nat : \E g : Adds(g, f, Small(S, n))}
<1>1. 0 \in N
  <2>1. Small(S, 0) = {{}}
    <3>1. ASSUME NEW s \in Small(S, 0) PROVE s = {}
      <4>1. IsFiniteSet(s) /\ s \subseteq S
        BY FS_Subset DEF Small
      <4> QED BY <4>1, FS_CardinalityType, FS_EmptySet DEF Small
    <3> QED BY <3>1, FS_EmptySet DEF Small
  <2>2. Adds([s \in {{}} |-> 0], f, {{}})
    BY DEF Adds
  <2> QED BY <2>1, <2>2
<1>2. ASSUME NEW n \in N PROVE n + 1 \in N
  <2>1. PICK g : Adds(g, f, Small(S, n))
    OBVIOUS
  <2> DEFINE h == [s \in Small(S, n + 1) |->
                     IF s = {} THEN 0 ELSE f[Pick(s)] + g[s \ {Pick(s)}]]
  <2>2. \A s \in Small(S, n) : s \in Small(S, n + 1) /\ h[s] = g[s]
    <3>1. \A s \in Small(S, n) : g[s] = IF s = {} THEN 0 ELSE f[Pick(s)] + g[s \ {Pick(s)}]
      BY <2>1 DEF Adds
    <3>2. \A s \in Small(S, n) : s \in Small(S, n + 1)
      <4>1. ASSUME NEW s \in Small(S, n) PROVE Cardinality(s) \in Nat
        BY FS_Subset, FS_CardinalityType DEF Small
      <4> QED BY <4>1 DEF Small
    <3> QED BY <3>1, <3>2
  <2>3. \A s \in Small(S, n + 1) : s # {} => s \ {Pick(s)} \in Small(S, n)
    BY SmallSets
  <2>4. h = [s \in Small(S, n + 1) |-> IF s = {} THEN 0 ELSE f[Pick(s)] + h[s \ {Pick(s)}]]
    <3> HIDE DEF N
    <3>1. \A s \in Small(S, n + 1) :
            (IF s = {} THEN 0 ELSE f[Pick(s)] + g[s \ {Pick(s)}])
              = (IF s = {} THEN 0 ELSE f[Pick(s)] + h[s \ {Pick(s)}])
      <4> HIDE DEF h
      <4> QED BY <2>2, <2>3
    <3> DEFINE k == h
    <3>2. h = [s \in Small(S, n + 1) |-> IF s = {} THEN 0 ELSE f[Pick(s)] + k[s \ {Pick(s)}]]
      <4> HIDE DEF k
      <4>1. \A s \in Small(S, n + 1) :
            (IF s = {} THEN 0 ELSE f[Pick(s)] + g[s \ {Pick(s)}])
              = (IF s = {} THEN 0 ELSE f[Pick(s)] + k[s \ {Pick(s)}])
        BY <3>1 DEF k
      <4> QED BY <4>1
    <3> QED BY <3>2
  <2>5. Adds(h, f, Small(S, n + 1))
    <3> HIDE DEF h
    <3> QED BY <2>4 DEF Adds
  <2> QED BY <2>5
<1>3. N = Nat
  <2> HIDE DEF N
  <2>1. N \in SUBSET Nat
    BY DEF N
  <2> QED BY <1>1, <1>2, <2>1, NatSetInduction
<1>4. Cardinality(S) \in N
  <2> HIDE DEF N
  <2> QED BY <1>3, FS_CardinalityType
<1>5. Small(S, Cardinality(S)) = SUBSET S
  BY FS_Subset, FS_CardinalityType DEF Small
<1>6. \E g : Adds(g, f, Small(S, Cardinality(S)))
  BY <1>4
<1> QED BY <1>5, <1>6

\* It takes natural numbers to a natural number.
LEMMA SumType ==
    ASSUME NEW S, IsFiniteSet(S), NEW f \in [S -> Nat], NEW g, Adds(g, f, SUBSET S)
    PROVE  g[S] \in Nat
<1> DEFINE N == {n \in Nat : \A s \in Small(S, n) : g[s] \in Nat}
<1>0. /\ g[{}] = 0
      /\ \A s \in SUBSET S : s # {} => g[s] = f[Pick(s)] + g[s \ {Pick(s)}]
  BY DEF Adds
<1>1. 0 \in N
    <2>1. ASSUME NEW s \in Small(S, 0) PROVE s = {}
      <3>1. IsFiniteSet(s) /\ s \subseteq S
        BY FS_Subset DEF Small
      <3> QED BY <3>1, FS_CardinalityType, FS_EmptySet DEF Small
    <2> QED BY <2>1, <1>0
<1>2. ASSUME NEW n \in N PROVE n + 1 \in N
  <2>1. ASSUME NEW s \in Small(S, n + 1) PROVE g[s] \in Nat
    <3>1. CASE s = {}
      BY <3>1, <1>0
    <3>2. CASE s # {}
      <4>1. s \ {Pick(s)} \in Small(S, n) /\ Pick(s) \in S
        BY <3>2, SmallSets
      <4>2. g[s \ {Pick(s)}] \in Nat /\ f[Pick(s)] \in Nat
        BY <4>1
      <4>3. s \in SUBSET S
        BY DEF Small
      <4>4. g[s] = f[Pick(s)] + g[s \ {Pick(s)}]
        BY <1>0, <3>2, <4>3
      <4> QED BY <4>2, <4>4
    <3> QED BY <3>1, <3>2
  <2> QED BY <2>1
<1>3. N = Nat
  <2> HIDE DEF N
  <2>1. N \in SUBSET Nat
    BY DEF N
  <2> QED BY <1>1, <1>2, <2>1, NatSetInduction
<1>4. Cardinality(S) \in N
  <2> HIDE DEF N
  <2> QED BY <1>3, FS_CardinalityType
<1>5. S \in Small(S, Cardinality(S))
  BY FS_CardinalityType DEF Small
<1> QED BY <1>4, <1>5

\* The sum of a function with natural values and a finite domain is natural.
LEMMA SumIsNat ==
    ASSUME NEW S, IsFiniteSet(S), NEW f \in [S -> Nat]
    PROVE  SumFunction(f) \in Nat
<1> DEFINE iter == CHOOSE g : Adds(g, f, SUBSET S)
<1>1. Adds(iter, f, SUBSET S)
  <2>1. \E g : Adds(g, f, SUBSET S)
    BY SumExists
  <2> QED BY <2>1
<1>2. SumFunctionOnSet(f, S) = iter[S]
  BY DEF SumFunctionOnSet, FoldFunctionOnSet, MapThenFoldSet, Adds, Pick
<1>3. SumFunction(f) = SumFunctionOnSet(f, S)
  BY DEF SumFunction
<1> HIDE DEF iter
<1> QED BY <1>1, <1>2, <1>3, SumType

-----------------------------------------------------------------------------
(* The rows, the thresholds, the costs and the ratios have their types.     *)

LEMMA NatTimes ==
    ASSUME NEW a \in Nat, NEW b \in Nat
    PROVE  a * b \in Nat
OBVIOUS

LEMMA PosTimes ==
    ASSUME NEW a \in Nat, NEW b \in Nat, a > 0, b > 0
    PROVE  a * b \in Nat /\ a * b > 0
OBVIOUS

LEMMA TimesMonotone ==
    ASSUME NEW a \in Nat, NEW b \in Nat, NEW c \in Nat, a <= b
    PROVE  a * c <= b * c /\ c * a <= c * b
OBVIOUS

\* The rows the search works on.
HasRows == lane \in Lanes /\ frame \in Frames[lane]

LEMMA RowsOf ==
    ASSUME HasRows
    PROVE  /\ Len(frame) \in Nat /\ Len(frame) > 0 /\ DOMAIN frame = 1 .. Len(frame)
           /\ IsFiniteSet(DOMAIN frame)
           /\ \A i \in DOMAIN frame : frame[i] \in Rows(lane)
<1>1. frame \in Seq(Rows(lane)) /\ frame # <<>>
  BY FramesAssumption DEF HasRows
<1>2. Len(frame) \in Nat /\ DOMAIN frame = 1 .. Len(frame) /\ Len(frame) > 0
  BY <1>1
<1> QED BY <1>1, <1>2, FS_Interval

\* Clipped scores lie where bayesian_update would clip them to.
LEMMA ScoresAreInside ==
    ASSUME NEW score \in Scores
    PROVE  /\ score \in Nat /\ score > 0
           /\ Scale <= score * Edge /\ score * Edge <= (Edge - 1) * Scale
<1>1. score \in Nat /\ Scale <= score * Edge /\ score * Edge <= (Edge - 1) * Scale
  BY ScaleAssumption DEF Scores
<1>2. score # 0
  BY <1>1, ScaleAssumption
<1> QED BY <1>1, <1>2

\* Of two values between bounds each weighted mean lies between them.
Mean(low, high, w) == 1000 * low + w * (high - low)

LEMMA Between ==
    ASSUME NEW low \in Int, NEW high \in Int, NEW w \in Nat, w <= 1000
    PROVE  /\ Mean(low, high, w) \in Int
           /\ \/ 1000 * low <= Mean(low, high, w) /\ Mean(low, high, w) <= 1000 * high
              \/ 1000 * high <= Mean(low, high, w) /\ Mean(low, high, w) <= 1000 * low
<1> DEFINE d == high - low
<1>1. d \in Int /\ high = low + d
  OBVIOUS
<1> HIDE DEF d
<1>2. CASE d >= 0
  <2>1. 0 <= w * d /\ w * d <= 1000 * d
    BY <1>1, <1>2
  <2> QED BY <1>1, <2>1 DEF Mean
<1>3. CASE d < 0
  <2> DEFINE e == 0 - d
  <2>1. e \in Nat /\ d = 0 - e
    BY <1>1, <1>3
  <2> HIDE DEF e
  <2>2. 0 <= w * e /\ w * e <= 1000 * e
    BY <2>1
  <2>3. w * d = 0 - w * e
    BY <2>1
  <2> QED BY <1>1, <2>1, <2>2, <2>3 DEF Mean
<1> QED BY <1>1, <1>2, <1>3

\* The two rows a quantile is interpolated between are rows of the frame.
LEMMA Positions ==
    ASSUME NEW n \in Nat, n > 0, NEW q \in Nat, q <= 1000
    PROVE  /\ ((n - 1) * q) % 1000 \in Nat /\ ((n - 1) * q) % 1000 <= 1000
           /\ (((n - 1) * q) \div 1000) + 1 \in 1 .. n
           /\ ((n - 1) * q) % 1000 # 0 => (((n - 1) * q) \div 1000) + 2 \in 1 .. n
<1> DEFINE at == (n - 1) * q
<1>1. at \in Nat /\ at <= 1000 * (n - 1)
  <2>1. (n - 1) \in Nat
    OBVIOUS
  <2>2. (n - 1) * q <= (n - 1) * 1000
    BY <2>1, TimesMonotone
  <2> QED BY <2>1, <2>2
<1> HIDE DEF at
<1>2. at % 1000 \in 0 .. 999 /\ at = 1000 * (at \div 1000) + (at % 1000) /\ at \div 1000 \in Int
  BY <1>1
<1>3. at \div 1000 >= 0 /\ at \div 1000 <= n - 1 /\ (at % 1000 # 0 => at \div 1000 < n - 1)
  BY <1>1, <1>2
<1> QED BY <1>2, <1>3 DEF at

\* A quantile of the scores is a fraction: it lies between two of them.
LEMMA QuantileIsFraction ==
    ASSUME HasRows, NEW q \in Nat, q <= 1000
    PROVE  Quantile(q) \in Fractions
<1> DEFINE at == (Len(frame) - 1) * q
           i == at \div 1000 + 1
           j == IF at % 1000 = 0 THEN at \div 1000 + 1 ELSE at \div 1000 + 2
           w == at % 1000
           low == frame[i].score
           high == frame[j].score
           num == Mean(low, high, w)
<1>1. Quantile(q) = <<num, 1000 * Scale>>
  BY DEF Quantile, Mean
<1>2. low \in Scores /\ high \in Scores /\ w \in Nat /\ w <= 1000
  <2>1. i \in DOMAIN frame /\ j \in DOMAIN frame /\ w \in Nat /\ w <= 1000
    <3> DEFINE n == Len(frame)
    <3>1. n \in Nat /\ n > 0 /\ DOMAIN frame = 1 .. n
      BY RowsOf
    <3>2. at = (n - 1) * q
      OBVIOUS
    <3> HIDE DEF n, at
    <3>3. /\ ((n - 1) * q) % 1000 \in Nat /\ ((n - 1) * q) % 1000 <= 1000
          /\ (((n - 1) * q) \div 1000) + 1 \in 1 .. n
          /\ ((n - 1) * q) % 1000 # 0 => (((n - 1) * q) \div 1000) + 2 \in 1 .. n
      BY <3>1, Positions
    <3> QED BY <3>1, <3>2, <3>3
  <2> HIDE DEF i, j, w
  <2> QED BY <2>1, RowsOf DEF Rows
<1> HIDE DEF at, i, j, w, low, high
<1> DEFINE le == low * Edge
           he == high * Edge
           top == (Edge - 1) * Scale
<1>3. low \in Nat /\ high \in Nat
  BY <1>2, ScoresAreInside
<1>4. num \in Nat
  <2>1. /\ num \in Int
        /\ \/ 1000 * low <= num /\ num <= 1000 * high
           \/ 1000 * high <= num /\ num <= 1000 * low
    BY <1>2, <1>3, Between
  <2> HIDE DEF num
  <2> QED BY <2>1, <1>3
<1> HIDE DEF num
<1> QED BY <1>1, <1>4, ScaleAssumption DEF Fractions

LEMMA LeastNat ==
    ASSUME NEW T \in SUBSET Nat, T # {}
    PROVE  \E x \in T : \A y \in T : x <= y
<1> DEFINE R == {ss \in Nat \X Nat : ss[1] < ss[2]}
<1>1. IsWellFoundedOn(R, Nat)
  BY NatLessThanWellFounded DEF OpToRel
<1>2. PICK x \in T : \A y \in T : <<y, x>> \notin R
  <2> HIDE DEF R
  <2> QED BY <1>1, WFMin
<1>3. \A y \in T : x <= y
  <2>1. \A y \in T : x \in Nat /\ y \in Nat
    OBVIOUS
  <2>2. \A y \in T : ~(y < x)
    BY <1>2, <2>1
  <2> QED BY <2>1, <2>2
<1> QED BY <1>3

LEMMA MinOfNats ==
    ASSUME NEW T \in SUBSET Nat, T # {}
    PROVE  Min(T) \in T /\ \A y \in T : Min(T) <= y
BY LeastNat DEF Min

LEMMA MaxOfNats ==
    ASSUME NEW T \in SUBSET Nat, T # {}, NEW b \in Nat, \A a \in T : a <= b
    PROVE  Max(T) \in T
<1> DEFINE U == {n \in Nat : \A a \in T : a <= n}
<1>1. PICK m \in U : \A y \in U : m <= y
  <2>1. b \in U
    OBVIOUS
  <2> HIDE DEF U
  <2>2. U \in SUBSET Nat
    BY DEF U
  <2> QED BY <2>1, <2>2, LeastNat
<1>2. m \in T
  <2> SUFFICES ASSUME m \notin T PROVE FALSE
    OBVIOUS
  <2>1. m # 0
    <3>1. m = 0 => T \subseteq {0}
      BY <1>1
    <3> QED BY <3>1
  <2>2. m - 1 \in U
    BY <1>1, <2>1
  <2> QED BY <1>1, <2>2
<1>3. \A y \in T : m >= y
  BY <1>1
<1> QED BY <1>2, <1>3 DEF Max

\* A finite frame has a largest amount, by induction over its length.
LEMMA AmountsAreBounded ==
    ASSUME HasRows
    PROVE  \E b \in Nat : \A i \in DOMAIN frame : frame[i].amount <= b
<1> DEFINE N == {n \in Nat : \E b \in Nat : \A i \in DOMAIN frame :
                               i <= n => frame[i].amount <= b}
<1>1. \A i \in DOMAIN frame : i \in Nat /\ i > 0 /\ i <= Len(frame) /\ frame[i].amount \in Nat
  BY RowsOf DEF Rows
<1>2. 0 \in N
  BY <1>1
<1>3. ASSUME NEW n \in N PROVE n + 1 \in N
  <2>1. PICK b \in Nat : \A i \in DOMAIN frame : i <= n => frame[i].amount <= b
    OBVIOUS
  <2>2. CASE n + 1 \in DOMAIN frame
    <3> DEFINE c == b + frame[n + 1].amount
    <3>1. frame[n + 1].amount \in Nat
      BY <1>1, <2>2
    <3>2. c \in Nat /\ \A i \in DOMAIN frame : i <= n + 1 => frame[i].amount <= c
      BY <1>1, <2>1, <3>1
    <3> HIDE DEF c
    <3> QED BY <3>2
  <2>3. CASE n + 1 \notin DOMAIN frame
    <3>1. \A i \in DOMAIN frame : i <= n + 1 => i <= n
      BY <1>1, <2>3
    <3> QED BY <2>1, <3>1
  <2> QED BY <2>2, <2>3
<1>4. Len(frame) \in N
  <2> HIDE DEF N
  <2>1. N \in SUBSET Nat
    BY DEF N
  <2> QED BY <1>2, <1>3, <2>1, NatSetInduction, RowsOf
<1> QED BY <1>1, <1>4

\* The cutoff exists: at the smallest eligible amount every eligible row counts,
\* and there are more of them than the capacity.
LEMMA CutoffIsNat ==
    ASSUME HasRows, NEW high
    PROVE  Cutoff(high) \in Nat
<1> DEFINE eligible == {i \in DOMAIN frame : Leq(high, Score(i))}
           share == (Costs.maxReview * Len(frame)) \div 1000
           capacity == IF share < 1 THEN 1 ELSE share
           AtLeast(a) == Cardinality({i \in eligible : frame[i].amount >= a})
           all == {frame[i].amount : i \in eligible}
           large == {a \in all : AtLeast(a) >= capacity}
<1>1. Cutoff(high) = IF Cardinality(eligible) <= capacity THEN 0 ELSE Max(large)
  BY DEF Cutoff
<1>2. capacity \in Int /\ capacity >= 1
  <2>1. Costs.maxReview \in Nat /\ Len(frame) \in Nat
    BY RowsOf, CostsAssumption DEF CostNames
  <2> DEFINE p == Costs.maxReview * Len(frame)
  <2>2. p \in Nat
    BY <2>1
  <2> HIDE DEF p
  <2>3. p \div 1000 \in Int
    BY <2>2
  <2> QED BY <2>3 DEF p
<1>3. ASSUME ~(Cardinality(eligible) <= capacity) PROVE Max(large) \in Nat
  <2> HIDE DEF capacity
  <2>1. IsFiniteSet(eligible) /\ Cardinality(eligible) \in Nat
    BY RowsOf, FS_Subset, FS_CardinalityType
  <2>2. eligible # {}
    BY <1>2, <1>3, FS_EmptySet
  <2>3. all \in SUBSET Nat /\ all # {}
    BY <2>2, RowsOf DEF Rows
  <2>4. PICK m \in all : \A y \in all : m <= y
    <3> HIDE DEF all
    <3> QED BY <2>3, LeastNat
  <2>5. {i \in eligible : frame[i].amount >= m} = eligible
    BY <2>3, <2>4
  <2>6. m \in large
    BY <1>2, <1>3, <2>1, <2>5
  <2>7. PICK b \in Nat : \A i \in DOMAIN frame : frame[i].amount <= b
    BY AmountsAreBounded
  <2>8. \A a \in large : a <= b
    BY <2>7
  <2>9. large \in SUBSET Nat
    BY <2>3
  <2> HIDE DEF large
  <2> QED BY <2>6, <2>8, <2>9, MaxOfNats
<1> HIDE DEF capacity, eligible, large
<1> QED BY <1>1, <1>3

LEMMA CandidateIsContract ==
    ASSUME HasRows, NEW k \in DOMAIN Grid[lane]
    PROVE  Candidate(k) \in Contracts
<1> DEFINE q == Grid[lane][k][1]  r == Grid[lane][k][2]
<1>1. q \in Nat /\ q <= 1000 /\ r \in Nat /\ r <= 1000
  <2>1. Grid[lane] \in Seq((0 .. 1000) \X (0 .. 1000))
    BY GridAssumption DEF HasRows
  <2> DEFINE S == 0 .. 1000  x == Grid[lane][k]
  <2>2. x \in S \X S
    BY <2>1
  <2>3. q = x[1] /\ r = x[2]
    OBVIOUS
  <2> HIDE DEF q, r, x
  <2>4. q \in S /\ r \in S
    <3> HIDE DEF S
    <3> QED BY <2>2, <2>3
  <2> QED BY <2>4
<1> HIDE DEF q, r
<1>2. Candidate(k) = [low |-> Quantile(q), high |-> Quantile(r),
                      cutoff |-> IF lane = "v1" THEN Cutoff(Quantile(r)) ELSE 0]
  BY DEF Candidate, q, r
<1>3. Quantile(q) \in Fractions /\ Quantile(r) \in Fractions
  BY <1>1, QuantileIsFraction
<1>4. Cutoff(Quantile(r)) \in Nat
  BY CutoffIsNat
<1> QED BY <1>2, <1>3, <1>4 DEF Contracts

LEMMA CostNats ==
    /\ Costs.verification \in Nat /\ Costs.review \in Nat /\ Costs.verificationFriction \in Nat
    /\ Costs.reviewFriction \in Nat /\ Costs.delay \in Nat /\ Costs.logistics \in Nat
    /\ Costs.loss \in Nat /\ Costs.salvage \in Nat /\ Costs.residual \in Nat
    /\ Costs.maxReview \in Nat /\ Costs.maxDelay \in Nat /\ Costs.alpha \in Nat
    /\ Costs.alpha > 0 /\ 100 - Costs.salvage \in Nat
BY CostsAssumption DEF CostNames

\* The cost of a contract on the rows, in either lane.
LEMMA CostIsNat ==
    ASSUME HasRows, NEW c
    PROVE  CostOf(c) \in Nat
<1>1. ASSUME NEW i \in DOMAIN frame
      PROVE  /\ frame[i].amount * (100 + Costs.loss) \in Nat
             /\ Exposure(i) \in Nat
             /\ frame[i].amount * (100 + Costs.loss) * (100 - Costs.salvage) \in Nat
  <2> DEFINE a == frame[i].amount  b == 100 + Costs.loss  d == 100 - Costs.salvage
  <2>1. a \in Nat /\ b \in Nat /\ d \in Nat
    <3>1. frame[i] \in Rows(lane)
      BY RowsOf
    <3>2. frame[i].amount \in Nat
      BY <3>1 DEF Rows
    <3> QED BY <3>2, CostNats
  <2>2. Exposure(i) = (100 * a) * b
    BY DEF Exposure
  <2> HIDE DEF a, b, d
  <2>3. a * b \in Nat /\ (100 * a) * b \in Nat
    BY <2>1, NatTimes
  <2>4. a * b * d \in Nat
    BY <2>1, <2>3, NatTimes
  <2> QED BY <2>2, <2>3, <2>4 DEF a, b, d
<1>2. RealizedCost(c) \in Nat
  <2> DEFINE Cost == [i \in DOMAIN frame |->
          LET abuse == frame[i].abuse
          IN  CASE StageOf(c, i) = "AUTO_APPROVE" -> IF abuse THEN Exposure(i) ELSE 0
                [] StageOf(c, i) = "VERIFY" ->
                     10000 * (Costs.verification + IF abuse THEN 0 ELSE Costs.verificationFriction)
                [] StageOf(c, i) = "RETURN_FIRST" ->
                     10000 * Costs.logistics
                       + IF abuse THEN frame[i].amount * (100 + Costs.loss) * (100 - Costs.salvage)
                         ELSE 10000 * Costs.delay
                [] OTHER -> 10000 * (Costs.review + IF abuse THEN 0 ELSE Costs.reviewFriction)]
  <2>1. RealizedCost(c) = SumFunction(Cost)
    BY DEF RealizedCost
  <2>2. Cost \in [DOMAIN frame -> Nat]
    BY <1>1, CostNats
  <2> HIDE DEF Cost
  <2> QED BY <2>1, <2>2, RowsOf, SumIsNat
<1>3. ModeledCost(c) \in Nat
  <2> DEFINE Cost == [i \in DOMAIN frame |->
          LET abuse == frame[i].abuse
              challenged == StageOf(c, i) # "AUTO_APPROVE"
              reviewed == FinalOf(c, i) = "MANUAL_REVIEW"
          IN  (IF abuse /\ FinalOf(c, i) = "AUTO_APPROVE" THEN Exposure(i) ELSE 0)
                + 10000 * ((IF challenged THEN Costs.verification ELSE 0)
                  + (IF reviewed THEN Costs.review ELSE 0)
                  + (IF ~abuse /\ challenged THEN Costs.verificationFriction ELSE 0)
                  + (IF ~abuse /\ reviewed THEN Costs.reviewFriction + Costs.delay ELSE 0)
                  + (IF FinalOf(c, i) = "RETURN_FIRST" THEN Costs.logistics ELSE 0))]
  <2>1. ModeledCost(c) = SumFunction(Cost)
    BY DEF ModeledCost
  <2>2. ASSUME NEW i \in DOMAIN frame PROVE Cost[i] \in Nat
    <3> DEFINE missed == IF frame[i].abuse /\ FinalOf(c, i) = "AUTO_APPROVE"
                         THEN Exposure(i) ELSE 0
               challenged == StageOf(c, i) # "AUTO_APPROVE"
               reviewed == FinalOf(c, i) = "MANUAL_REVIEW"
               t1 == IF challenged THEN Costs.verification ELSE 0
               t2 == IF reviewed THEN Costs.review ELSE 0
               t3 == IF ~frame[i].abuse /\ challenged THEN Costs.verificationFriction ELSE 0
               t4 == IF ~frame[i].abuse /\ reviewed THEN Costs.reviewFriction + Costs.delay ELSE 0
               t5 == IF FinalOf(c, i) = "RETURN_FIRST" THEN Costs.logistics ELSE 0
    <3>1. /\ missed \in Nat /\ t1 \in Nat /\ t2 \in Nat /\ t3 \in Nat
          /\ t4 \in Nat /\ t5 \in Nat
      BY <1>1, CostNats
    <3>2. Cost[i] = missed + 10000 * (t1 + t2 + t3 + t4 + t5)
      OBVIOUS
    <3> HIDE DEF missed, t1, t2, t3, t4, t5, Cost
    <3> QED BY <3>1, <3>2
  <2>3. Cost \in [DOMAIN frame -> Nat]
    BY <2>2
  <2> HIDE DEF Cost
  <2> QED BY <2>1, <2>3, RowsOf, SumIsNat
<1> QED BY <1>2, <1>3 DEF CostOf

LEMMA ResultsAreFinite ==
    ASSUME lane \in Lanes
    PROVE  /\ IsFiniteSet(Results(lane))
           /\ Cardinality(Estimated) \in Nat /\ Cardinality(Estimated) > 0
<1>1. \A S, x : IsFiniteSet(S) => IsFiniteSet(S \cup {x})
  BY FS_AddElement
<1>2. \A x, y, z, u : IsFiniteSet({x, y, z, u})
  <2> SUFFICES ASSUME NEW x, NEW y, NEW z, NEW u PROVE IsFiniteSet({x, y, z, u})
    OBVIOUS
  <2>1. IsFiniteSet({x})
    BY FS_Singleton
  <2>2. IsFiniteSet({x} \cup {y})
    BY <1>1, <2>1
  <2>3. IsFiniteSet(({x} \cup {y}) \cup {z})
    BY <1>1, <2>2
  <2>4. IsFiniteSet((({x} \cup {y}) \cup {z}) \cup {u})
    BY <1>1, <2>3
  <2>5. (({x} \cup {y}) \cup {z}) \cup {u} = {x, y, z, u}
    OBVIOUS
  <2> QED BY <2>4, <2>5
<1>3. IsFiniteSet(Results(lane))
  <2>1. CASE lane = "v1"
    BY <1>2, <2>1 DEF Results
  <2>2. CASE lane = "v2"
    <3>1. IsFiniteSet({"consistent", "inconsistent", "evidence_inconclusive",
                       "verifier_unavailable"} \cup {"verifier_timeout"})
      BY <1>1, <1>2
    <3>2. Results(lane) = {"consistent", "inconsistent", "evidence_inconclusive",
                           "verifier_unavailable"} \cup {"verifier_timeout"}
      BY <2>2 DEF Results
    <3> QED BY <3>1, <3>2
  <2> QED BY <2>1, <2>2 DEF Lanes
<1>4. Estimated \subseteq Results(lane) /\ "consistent" \in Estimated
  BY DEF Estimated, Results, Technical
<1>5. IsFiniteSet(Estimated) /\ Cardinality(Estimated) \in Nat
  BY <1>3, <1>4, FS_Subset, FS_CardinalityType
<1> QED BY <1>3, <1>4, <1>5, FS_EmptySet

PositiveFractions == {x \in Nat \X Nat : x[1] > 0 /\ x[2] > 0}

\* Laplace smoothing leaves no ratio at zero, and none undefined.
LEMMA EmpiricalIsPositive ==
    ASSUME lane \in Lanes, support \in Supports[lane], NEW r \in Results(lane)
    PROVE  Empirical(r) \in PositiveFractions
<1> DEFINE All(label) == SumFunction(support[label]) + Costs.alpha * Cardinality(Estimated)
           a == support["abuse"][r] + Costs.alpha
           l == support["legitimate"][r] + Costs.alpha
           A == All("abuse")
           L == All("legitimate")
<1>1. Empirical(r) = <<a * L, l * A>>
  BY DEF Empirical
<1>2. support \in [{"abuse", "legitimate"} -> [Results(lane) -> Nat]]
  BY SupportsAssumption
<1>3. a \in Nat /\ a > 0 /\ l \in Nat /\ l > 0
  BY <1>2, CostNats
<1>4. ASSUME NEW label \in {"abuse", "legitimate"} PROVE All(label) \in Nat /\ All(label) > 0
  <2>1. SumFunction(support[label]) \in Nat
    BY <1>2, ResultsAreFinite, SumIsNat
  <2>2. Costs.alpha * Cardinality(Estimated) \in Nat /\ Costs.alpha * Cardinality(Estimated) > 0
    BY CostNats, ResultsAreFinite, PosTimes
  <2> QED BY <2>1, <2>2
<1>5. A \in Nat /\ A > 0 /\ L \in Nat /\ L > 0
  BY <1>4
<1> HIDE DEF a, l, A, L
<1>6. a * L \in Nat /\ a * L > 0 /\ l * A \in Nat /\ l * A > 0
  BY <1>3, <1>5, PosTimes
<1> QED BY <1>1, <1>6 DEF PositiveFractions

LEMMA RatioIsPositive ==
    ASSUME lane \in Lanes, support \in Supports[lane], NEW r \in Results(lane)
    PROVE  Ratio(r) \in PositiveFractions
<1>1. /\ <<1, 1>> \in PositiveFractions /\ <<4, 5>> \in PositiveFractions
      /\ <<5, 4>> \in PositiveFractions
  BY DEF PositiveFractions
<1>2. Clip(Empirical(r), <<4, 5>>, <<5, 4>>) \in PositiveFractions
  BY <1>1, EmpiricalIsPositive DEF Clip
<1> QED BY <1>1, <1>2, EmpiricalIsPositive DEF Ratio

-----------------------------------------------------------------------------
(* What the search computes depends on the lane, the rows and the ratios.   *)

\* A step that changes none of what the search reads.
Steady == lane' = lane /\ frame' = frame /\ ratios' = ratios

LEMMA SteadyScore == Steady => \A i : Score(i)' = Score(i)
BY DEF Score, Steady

LEMMA SteadyQuantile == Steady => \A q : Quantile(q)' = Quantile(q)
BY DEF Quantile, Steady

LEMMA SteadyCutoff == Steady => \A high : Cutoff(high)' = Cutoff(high)
<1> SUFFICES ASSUME Steady, NEW high PROVE Cutoff(high)' = Cutoff(high)
  OBVIOUS
<1> QED BY SteadyScore DEF Cutoff, Steady, Score

LEMMA SteadyCandidate == Steady => \A k : Candidate(k)' = Candidate(k)
BY SteadyQuantile, SteadyCutoff DEF Candidate, Steady

LEMMA SteadyStage == Steady => \A c, p, a : Stage(c, p, a)' = Stage(c, p, a)
BY DEF Stage, Steady

LEMMA SteadyPosterior == Steady => \A p, r : Posterior(p, r)' = Posterior(p, r)
BY DEF Posterior, Steady

LEMMA SteadyAfter == Steady => \A c, p, a, r : After(c, p, a, r)' = After(c, p, a, r)
BY SteadyStage, SteadyPosterior DEF After, Steady

LEMMA SteadyStageOf == Steady => \A c, i : StageOf(c, i)' = StageOf(c, i)
BY SteadyStage, SteadyScore DEF StageOf, Steady

LEMMA SteadyFinalOf == Steady => \A c, i : FinalOf(c, i)' = FinalOf(c, i)
BY SteadyStageOf, SteadyScore, SteadyAfter DEF FinalOf, Steady

LEMMA SteadyCost == Steady => \A c : CostOf(c)' = CostOf(c)
<1> SUFFICES ASSUME Steady, NEW c PROVE CostOf(c)' = CostOf(c)
  OBVIOUS
<1> USE SteadyStageOf, SteadyFinalOf DEF Steady
<1>1. \A i : Exposure(i)' = Exposure(i)
  BY DEF Exposure
<1>2. RealizedCost(c)' = RealizedCost(c)
  BY <1>1 DEF RealizedCost
<1>3. ModeledCost(c)' = ModeledCost(c)
  BY <1>1 DEF ModeledCost
<1> QED BY <1>2, <1>3 DEF CostOf

LEMMA SteadyFeasible == Steady => \A c : Feasible(c)' = Feasible(c)
<1> SUFFICES ASSUME Steady, NEW c PROVE Feasible(c)' = Feasible(c)
  OBVIOUS
<1> DEFINE reviewed == {i \in DOMAIN frame :
                (IF lane = "v1" THEN StageOf(c, i) ELSE FinalOf(c, i)) = "MANUAL_REVIEW"}
           legitimate == {i \in DOMAIN frame : ~frame[i].abuse}
           heldUp == {i \in legitimate : StageOf(c, i) # "AUTO_APPROVE"}
<1>1. Feasible(c) = /\ 1000 * Cardinality(reviewed) <= Costs.maxReview * Len(frame)
                    /\ legitimate # {}
                    /\ 1000 * Cardinality(heldUp) <= Costs.maxDelay * Cardinality(legitimate)
  BY DEF Feasible
<1>2. Feasible(c)' = /\ 1000 * Cardinality(reviewed') <= Costs.maxReview * Len(frame')
                     /\ legitimate' # {}
                     /\ 1000 * Cardinality(heldUp') <= Costs.maxDelay * Cardinality(legitimate')
  BY DEF Feasible
<1>3. reviewed' = reviewed
  BY SteadyStageOf, SteadyFinalOf DEF Steady
<1>4. legitimate' = legitimate
  BY DEF Steady
<1>5. heldUp' = heldUp
  BY <1>4, SteadyStageOf
<1> HIDE DEF reviewed, legitimate, heldUp
<1> QED BY <1>1, <1>2, <1>3, <1>4, <1>5 DEF Steady

-----------------------------------------------------------------------------
(* The inductive invariant: the types.                                      *)

\* What DirectionsAreValid leaves of the counts once they are gone.
Directed ==
    /\ ratios \in [Results(lane) -> PositiveFractions]
    /\ Leq(ratios["consistent"], <<1, 1>>) /\ Leq(<<1, 1>>, ratios["inconsistent"])
    /\ lane = "v1" => ratios["expired"] = <<1, 1>>

\* What is known of the selection in each phase.  After Deploy the rows are gone;
\* what is left of them is the contract and Directed.
SearchTyped ==
    /\ lane \in Lanes
    /\ phase \in {"estimate", "search", "chosen", "failed", "deployed"}
    /\ phase # "deployed" => HasRows /\ support \in Supports[lane] /\ served = None
    /\ phase \in {"search", "chosen", "deployed"} => Directed
    /\ phase = "failed" => ratios = None \/ Directed
    /\ phase = "estimate" => ratios = None /\ tried = 0 /\ best = None
    /\ tried \in 0 .. Len(Grid[lane])
    /\ best = None \/ best \in [cost : Nat, contract : Contracts]
    /\ phase \in {"estimate", "search", "failed"} => contract = None
    /\ phase \in {"chosen", "deployed"} => contract \in Contracts

\* A case is what Stage and Served make of its score, amount and result.
ServedTyped ==
    served # None =>
        /\ served \in [score : Scores, amount : Amounts, stage : Actions, faults : SUBSET Faults,
                       result : Results(lane) \cup {None}, final : Actions]
        /\ served.stage = Stage(contract, <<served.score, Scale>>, served.amount)
        /\ served.result # None =>
             served.final = Served(contract, <<served.score, Scale>>, served.amount, served.result)

\* The contracts among the first n that are within both limits.
Within(n) == {k \in 1 .. n : Feasible(Candidate(k))}

\* Of these the k-th is cheapest, and the first that is.
FirstCheapest(k, n) ==
    /\ k \in Within(n)
    /\ \A j \in Within(n) : /\ CostOf(Candidate(k)) <= CostOf(Candidate(j))
                            /\ j < k => CostOf(Candidate(k)) < CostOf(Candidate(j))

\* best is the first cheapest of the contracts tried so far; SelectionIsBest says
\* nothing before the search has ended.
BestInv ==
    /\ phase = "search" =>
         \/ best = None /\ Within(tried) = {}
         \/ \E k \in Within(tried) :
              /\ FirstCheapest(k, tried)
              /\ best = [cost |-> CostOf(Candidate(k)), contract |-> Candidate(k)]
    /\ phase = "failed" => ratios = None \/ Within(Len(Grid[lane])) = {}
    /\ phase = "chosen" => \E k \in Within(Len(Grid[lane])) :
                             FirstCheapest(k, Len(Grid[lane])) /\ contract = Candidate(k)

LEMMA InitTyped == Init => SearchTyped /\ ServedTyped /\ BestInv
<1> SUFFICES ASSUME Init PROVE SearchTyped /\ ServedTyped /\ BestInv
  OBVIOUS
<1>1. 0 \in 0 .. Len(Grid[lane])
  BY GridAssumption DEF Init
<1> QED BY <1>1 DEF Init, SearchTyped, ServedTyped, BestInv, HasRows

\* Estimate leaves ratios that lower the risk on consistent evidence, raise it on
\* inconsistent evidence, and are one for an expired token.
LEMMA EstimateDirects ==
    ASSUME lane \in Lanes, support \in Supports[lane], DirectionsAreValid,
           lane' = lane, ratios' = [r \in Results(lane) |-> Ratio(r)]
    PROVE  Directed'
<1>1. ratios' \in [Results(lane) -> PositiveFractions]
  BY RatioIsPositive
<1>2. /\ "consistent" \in Results(lane) /\ "inconsistent" \in Results(lane)
      /\ lane = "v1" => "expired" \in Results(lane)
  BY DEF Results
<1>3. /\ ratios'["consistent"] = Empirical("consistent")
      /\ ratios'["inconsistent"] = Empirical("inconsistent")
  BY <1>2 DEF Ratio, Technical
<1>4. lane = "v1" => ratios'["expired"] = <<1, 1>>
  BY <1>2 DEF Ratio
<1>5. Leq(Empirical("consistent"), <<1, 1>>) /\ Leq(<<1, 1>>, Empirical("inconsistent"))
  BY <1>2, EmpiricalIsPositive DEF DirectionsAreValid, Leq, PositiveFractions
<1> QED BY <1>1, <1>3, <1>4, <1>5 DEF Directed, Leq

LEMMA EstimateTyped ==
    ASSUME SearchTyped, Estimate
    PROVE  SearchTyped'
<1>1. /\ phase = "estimate" /\ lane' = lane /\ support' = support /\ frame' = frame
      /\ tried' = tried /\ best' = best /\ contract' = contract /\ served' = served
  BY DEF Estimate, selectionVars
<1>2. HasRows /\ support \in Supports[lane] /\ served = None /\ contract = None /\ lane \in Lanes
  BY <1>1 DEF SearchTyped
<1>3. HasRows'
  BY <1>1, <1>2 DEF HasRows
<1>4. \/ phase' = "search" /\ Directed'
      \/ phase' = "failed" /\ ratios' = ratios
  BY <1>1, <1>2, EstimateDirects DEF Estimate
<1> QED BY <1>1, <1>2, <1>3, <1>4 DEF SearchTyped

LEMMA TryTyped ==
    ASSUME SearchTyped, Try
    PROVE  SearchTyped'
<1> DEFINE c == Candidate(tried + 1)
<1>1. /\ phase = "search" /\ tried < Len(Grid[lane]) /\ tried' = tried + 1
      /\ lane' = lane /\ phase' = phase /\ support' = support /\ frame' = frame
      /\ ratios' = ratios /\ contract' = contract /\ served' = served
      /\ best' = best \/ best' = [cost |-> CostOf(c), contract |-> c]
  BY DEF Try
<1>2. HasRows /\ support \in Supports[lane] /\ served = None /\ contract = None /\ lane \in Lanes
  BY <1>1 DEF SearchTyped
<1>3. HasRows'
  BY <1>1, <1>2 DEF HasRows
<1>4. /\ Len(Grid[lane]) \in Nat /\ DOMAIN Grid[lane] = 1 .. Len(Grid[lane])
      /\ tried \in 0 .. Len(Grid[lane])
  BY <1>2, GridAssumption DEF SearchTyped
<1>5. c \in Contracts /\ CostOf(c) \in Nat
  <2>1. tried + 1 \in DOMAIN Grid[lane]
    BY <1>1, <1>4
  <2> QED BY <1>2, <2>1, CandidateIsContract, CostIsNat
<1>6. tried' \in 0 .. Len(Grid[lane])
  BY <1>1, <1>4
<1>7. Directed'
  BY <1>1 DEF SearchTyped, Directed
<1> HIDE DEF c
<1>8. best' = None \/ best' \in [cost : Nat, contract : Contracts]
  BY <1>1, <1>5 DEF SearchTyped
<1> QED BY <1>1, <1>2, <1>3, <1>6, <1>7, <1>8 DEF SearchTyped

LEMMA ChooseTyped ==
    ASSUME SearchTyped, Choose
    PROVE  SearchTyped'
<1>1. /\ phase = "search" /\ lane' = lane /\ support' = support /\ frame' = frame
      /\ tried' = tried /\ best' = best /\ ratios' = ratios /\ served' = served
      /\ phase' = IF best = None THEN "failed" ELSE "chosen"
      /\ contract' = IF best = None THEN None ELSE best.contract
  BY DEF Choose, selectionVars
<1>2. HasRows' /\ Directed'
  BY <1>1 DEF SearchTyped, HasRows, Directed
<1> QED BY <1>1, <1>2 DEF SearchTyped

LEMMA DeployTyped ==
    ASSUME SearchTyped, Deploy
    PROVE  SearchTyped'
<1>1. /\ phase = "chosen" /\ phase' = "deployed" /\ lane' = lane /\ tried' = 0 /\ best' = None
      /\ ratios' = ratios /\ contract' = contract
  BY DEF Deploy
<1>2. 0 \in 0 .. Len(Grid[lane])
  BY GridAssumption DEF SearchTyped
<1> QED BY <1>1, <1>2 DEF SearchTyped, Directed

LEMMA ServingTyped ==
    ASSUME SearchTyped, phase = "deployed",
           UNCHANGED <<lane, phase, selectionVars, ratios, contract>>
    PROVE  SearchTyped'
BY DEF SearchTyped, Directed, selectionVars

LEMMA StepTyped == SearchTyped /\ [Next]_vars => SearchTyped'
<1> SUFFICES ASSUME SearchTyped, [Next]_vars PROVE SearchTyped'
  OBVIOUS
<1>1. CASE UNCHANGED vars
  BY <1>1 DEF vars, selectionVars, SearchTyped, Directed, HasRows
<1>2. CASE Verify \/ NextCase
  BY <1>2, ServingTyped DEF Verify, Complete, NextCase, SearchTyped
<1>3. ASSUME NEW score, NEW amount, ScoreCase(score, amount) PROVE SearchTyped'
  BY <1>3, ServingTyped DEF ScoreCase
<1> QED BY <1>1, <1>2, <1>3, EstimateTyped, TryTyped, ChooseTyped, DeployTyped DEF Next

-----------------------------------------------------------------------------
(* The case being served.                                                   *)

LEMMA SteadyServed == Steady => \A c, p, a, r : Served(c, p, a, r)' = Served(c, p, a, r)
BY SteadyAfter DEF Served, Steady

LEMMA ActionsTaken ==
    \A c, p, a, r : Stage(c, p, a) \in Actions /\ After(c, p, a, r) \in Actions
                    /\ Served(c, p, a, r) \in Actions
<1>1. \A c, p, a : Stage(c, p, a) \in Actions
  BY DEF Stage, Middle, Actions
<1>2. \A c, p, a, r : After(c, p, a, r) \in Actions
  BY <1>1 DEF After, Actions
<1> QED BY <1>1, <1>2 DEF Served, Actions

LEMMA NoSecondVerification ==
    \A c, p, a, r : Served(c, p, a, r) # "VERIFY"
<1>1. \A c, p, a, r : After(c, p, a, r) # "VERIFY"
  BY DEF After
<1> QED BY <1>1 DEF Served

LEMMA IntegrityResults ==
    ASSUME NEW faults \in SUBSET Faults
    PROVE  Integrity(faults) \in {"consistent", "inconsistent", "inconclusive", "expired"}
BY DEF Integrity

LEMMA ScoreCaseServed ==
    ASSUME SearchTyped, NEW score \in Scores, NEW amount \in Amounts, ScoreCase(score, amount)
    PROVE  ServedTyped'
<1> DEFINE stage == Stage(contract, <<score, Scale>>, amount)
<1>1. /\ served' = [score |-> score, amount |-> amount, stage |-> stage,
                    faults |-> {}, result |-> None, final |-> stage]
      /\ lane' = lane /\ contract' = contract /\ Steady
  BY DEF ScoreCase, Steady, selectionVars
<1>2. stage \in Actions
  BY ActionsTaken
<1>3. stage = Stage(contract, <<score, Scale>>, amount)
  OBVIOUS
<1> HIDE DEF stage
<1>4. /\ served'.score = score /\ served'.amount = amount /\ served'.stage = stage
      /\ served'.result = None
  BY <1>1
<1>5. Stage(contract, <<score, Scale>>, amount)' = stage
  BY <1>1, <1>3, SteadyStage
<1>6. served' \in [score : Scores, amount : Amounts, stage : Actions, faults : SUBSET Faults,
                   result : Results(lane') \cup {None}, final : Actions]
  BY <1>1, <1>2
<1> QED BY <1>1, <1>4, <1>5, <1>6, SteadyStage DEF ServedTyped

LEMMA CompleteServed ==
    ASSUME SearchTyped, ServedTyped, NEW faults \in SUBSET Faults, NEW r \in Results(lane),
           Complete(faults, r)
    PROVE  ServedTyped'
<1> DEFINE s == served.score  a == served.amount
           final == Served(contract, <<s, Scale>>, a, r)
<1>1. /\ served # None /\ lane' = lane /\ contract' = contract /\ Steady
      /\ served' = [served EXCEPT !.faults = faults, !.result = r, !.final = final]
  BY DEF Complete, Steady, selectionVars
<1>2. /\ served \in [score : Scores, amount : Amounts, stage : Actions, faults : SUBSET Faults,
                     result : Results(lane) \cup {None}, final : Actions]
      /\ served.stage = Stage(contract, <<s, Scale>>, a)
  BY <1>1 DEF ServedTyped
<1>3. final \in Actions
  BY ActionsTaken
<1>4. final = Served(contract, <<s, Scale>>, a, r)
  OBVIOUS
<1> HIDE DEF final
<1>5. /\ served'.score = s /\ served'.amount = a /\ served'.stage = served.stage
      /\ served'.result = r /\ served'.final = final
      /\ served' \in [score : Scores, amount : Amounts, stage : Actions, faults : SUBSET Faults,
                      result : Results(lane) \cup {None}, final : Actions]
  BY <1>1, <1>2, <1>3
<1> QED BY <1>1, <1>2, <1>4, <1>5, SteadyStage, SteadyServed DEF ServedTyped

LEMMA StepServed == SearchTyped /\ ServedTyped /\ [Next]_vars => ServedTyped'
<1> SUFFICES ASSUME SearchTyped, ServedTyped, [Next]_vars PROVE ServedTyped'
  OBVIOUS
<1>1. CASE UNCHANGED vars
  <2>1. Steady /\ lane' = lane /\ contract' = contract /\ served' = served
    BY <1>1 DEF vars, Steady, selectionVars
  <2> QED BY <2>1, SteadyStage, SteadyServed DEF ServedTyped
<1>2. CASE Estimate \/ Try \/ Choose \/ Deploy
  <2>1. phase # "deployed" /\ served' = served
    BY <1>2 DEF Estimate, Try, Choose, Deploy
  <2> QED BY <2>1 DEF SearchTyped, ServedTyped
<1>3. CASE NextCase
  BY <1>3 DEF NextCase, ServedTyped
<1>4. ASSUME NEW score \in Scores, NEW amount \in Amounts, ScoreCase(score, amount)
      PROVE  ServedTyped'
  BY <1>4, ScoreCaseServed
<1>5. CASE Verify
  <2>1. ASSUME lane = "v1", NEW faults \in SUBSET Faults, Complete(faults, Integrity(faults))
        PROVE  ServedTyped'
    <3>1. Integrity(faults) \in Results(lane)
      BY <2>1, IntegrityResults DEF Results
    <3> QED BY <2>1, <3>1, CompleteServed
  <2>2. ASSUME lane = "v2", NEW r \in Results("v2"), Complete({}, r)
        PROVE  ServedTyped'
    BY <2>2, CompleteServed
  <2> QED BY <1>5, <2>1, <2>2 DEF Verify
<1> QED BY <1>1, <1>2, <1>3, <1>4, <1>5 DEF Next

-----------------------------------------------------------------------------
(* The search.                                                              *)

\* The cost of the k-th contract of the grid.
Price(k) == CostOf(Candidate(k))

LEMMA SteadyWithin ==
    ASSUME Steady
    PROVE  /\ \A n : Within(n)' = Within(n)
           /\ \A k : CostOf(Candidate(k))' = CostOf(Candidate(k)) /\ Candidate(k)' = Candidate(k)
           /\ \A k, n : FirstCheapest(k, n)' = FirstCheapest(k, n)
<1>1. \A k : Candidate(k)' = Candidate(k)
  BY SteadyCandidate
<1>2. \A k : CostOf(Candidate(k))' = CostOf(Candidate(k))
  BY <1>1, SteadyCost
<1>3. \A k : Feasible(Candidate(k))' = Feasible(Candidate(k))
  BY <1>1, SteadyFeasible
<1>4. \A n : Within(n)' = Within(n)
  BY <1>3 DEF Within
<1> QED BY <1>1, <1>2, <1>4 DEF FirstCheapest

\* One more contract: it becomes the first cheapest if it is feasible and cheaper.
LEMMA OneMore ==
    ASSUME HasRows, NEW n \in Nat, n < Len(Grid[lane]), NEW b,
           \/ b = None /\ Within(n) = {}
           \/ \E k \in Within(n) :
                /\ FirstCheapest(k, n)
                /\ b = [cost |-> CostOf(Candidate(k)), contract |-> Candidate(k)]
    PROVE  LET c == Candidate(n + 1)
               d == IF Feasible(c) /\ (b # None => CostOf(c) < b.cost)
                    THEN [cost |-> CostOf(c), contract |-> c] ELSE b
           IN  \/ d = None /\ Within(n + 1) = {}
               \/ \E k \in Within(n + 1) :
                    /\ FirstCheapest(k, n + 1)
                    /\ d = [cost |-> CostOf(Candidate(k)), contract |-> Candidate(k)]
<1> DEFINE c == Candidate(n + 1)
           d == IF Feasible(c) /\ (b # None => CostOf(c) < b.cost)
                THEN [cost |-> CostOf(c), contract |-> c] ELSE b
<1>1. \A k : Price(k) \in Nat
  BY CostIsNat DEF Price
<1>2. Within(n + 1) = IF Feasible(c) THEN Within(n) \cup {n + 1} ELSE Within(n)
  BY DEF Within
<1>3. \A k, m : FirstCheapest(k, m) <=>
        /\ k \in Within(m)
        /\ \A j \in Within(m) : Price(k) <= Price(j) /\ (j < k => Price(k) < Price(j))
  BY DEF FirstCheapest, Price
<1>4. \A j \in Within(n) : j \in Nat /\ 0 < j /\ j <= n
  BY DEF Within
<1>5. CostOf(c) = Price(n + 1)
  BY DEF Price
<1>6. CASE b = None /\ Within(n) = {}
  <2>1. CASE Feasible(c)
    <3>1. d = [cost |-> CostOf(c), contract |-> c]
      BY <1>6, <2>1
    <3>2. Within(n + 1) = {n + 1}
      BY <1>2, <1>6, <2>1
    <3>3. FirstCheapest(n + 1, n + 1)
      BY <1>1, <1>3, <3>2
    <3> QED BY <3>1, <3>2, <3>3
  <2>2. CASE ~Feasible(c)
    BY <1>2, <1>6, <2>2
  <2> QED BY <2>1, <2>2
<1>7. ASSUME NEW k \in Within(n), FirstCheapest(k, n),
             b = [cost |-> CostOf(Candidate(k)), contract |-> Candidate(k)]
      PROVE  \E m \in Within(n + 1) :
               /\ FirstCheapest(m, n + 1)
               /\ d = [cost |-> CostOf(Candidate(m)), contract |-> Candidate(m)]
  <2>1. b # None /\ b.cost = Price(k)
    <3>1. k \in DOMAIN Grid[lane]
      <4>1. Len(Grid[lane]) \in Nat /\ DOMAIN Grid[lane] = 1 .. Len(Grid[lane])
        BY GridAssumption DEF HasRows
      <4>2. k \in Nat /\ 0 < k /\ k <= n
        BY <1>4
      <4> QED BY <4>1, <4>2
    <3>2. Candidate(k) \in Contracts /\ CostOf(Candidate(k)) \in Nat
      BY <3>1, CandidateIsContract, CostIsNat
    <3> QED BY <1>7, <3>2, NoneAssumption DEF Price
  <2>2. CASE Feasible(c) /\ Price(n + 1) < Price(k)
    <3>1. d = [cost |-> CostOf(c), contract |-> c]
      BY <1>5, <2>1, <2>2
    <3>2. Within(n + 1) = Within(n) \cup {n + 1}
      BY <1>2, <2>2
    <3>3. FirstCheapest(n + 1, n + 1)
      <4>1. \A j \in Within(n) : Price(n + 1) < Price(j)
        BY <1>1, <1>3, <1>7, <2>2
      <4> QED BY <1>1, <1>3, <3>2, <4>1
    <3> QED BY <3>1, <3>2, <3>3
  <2>3. CASE ~(Feasible(c) /\ Price(n + 1) < Price(k))
    <3>1. d = b
      BY <1>5, <2>1, <2>3
    <3>2. k \in Within(n + 1)
      BY <1>2
    <3>3. FirstCheapest(k, n + 1)
      <4>1. \A j \in Within(n + 1) : j \in Within(n) \/ (j = n + 1 /\ Feasible(c))
        BY <1>2
      <4>2. Feasible(c) => Price(k) <= Price(n + 1)
        BY <1>1, <2>3
      <4>3. ~(n + 1 < k)
        BY <1>4
      <4> HIDE DEF c
      <4> QED BY <1>3, <1>7, <3>2, <4>1, <4>2, <4>3
    <3> QED BY <1>7, <3>1, <3>2, <3>3
  <2> QED BY <2>2, <2>3
<1> QED BY <1>6, <1>7

LEMMA StepBest == SearchTyped /\ BestInv /\ [Next]_vars => BestInv'
<1> SUFFICES ASSUME SearchTyped, BestInv, [Next]_vars PROVE BestInv'
  OBVIOUS
<1>1. CASE Try
  <2>1. /\ phase = "search" /\ tried < Len(Grid[lane]) /\ tried' = tried + 1 /\ phase' = phase
        /\ best' = LET c == Candidate(tried + 1)
                   IN  IF Feasible(c) /\ (best # None => CostOf(c) < best.cost)
                       THEN [cost |-> CostOf(c), contract |-> c] ELSE best
        /\ Steady
    BY <1>1 DEF Try, Steady
  <2>2. HasRows /\ tried \in Nat
    BY <2>1 DEF SearchTyped
  <2>3. \/ best' = None /\ Within(tried + 1) = {}
        \/ \E k \in Within(tried + 1) :
              /\ FirstCheapest(k, tried + 1)
              /\ best' = [cost |-> CostOf(Candidate(k)), contract |-> Candidate(k)]
    BY <2>1, <2>2, OneMore DEF BestInv
  <2> QED BY <2>1, <2>3, SteadyWithin DEF BestInv
<1>2. CASE Choose
  <2>1. /\ phase = "search" /\ tried = Len(Grid[lane]) /\ Steady
        /\ phase' = IF best = None THEN "failed" ELSE "chosen"
        /\ contract' = IF best = None THEN None ELSE best.contract
    BY <1>2 DEF Choose, Steady, selectionVars
  <2>2. \/ best = None /\ Within(tried) = {}
        \/ \E k \in Within(tried) :
              /\ FirstCheapest(k, tried)
              /\ best = [cost |-> CostOf(Candidate(k)), contract |-> Candidate(k)]
    BY <2>1 DEF BestInv
  <2>3. CASE best = None
    <3>1. Within(tried) = {}
      <4>1. ASSUME NEW k \in Within(tried),
                   best = [cost |-> CostOf(Candidate(k)), contract |-> Candidate(k)]
            PROVE  FALSE
        <5>1. HasRows /\ k \in DOMAIN Grid[lane]
          BY <2>1, GridAssumption DEF SearchTyped, Within
        <5>2. Candidate(k) \in Contracts /\ CostOf(Candidate(k)) \in Nat
          BY <5>1, CandidateIsContract, CostIsNat
        <5> QED BY <2>3, <4>1, <5>2, NoneAssumption
      <4> QED BY <2>2, <4>1
    <3>2. Within(Len(Grid[lane])) = {}
      BY <2>1, <3>1
    <3>3. Len(Grid[lane])' = Len(Grid[lane])
      BY <2>1 DEF Steady
    <3> QED BY <2>1, <2>3, <3>2, <3>3, SteadyWithin DEF BestInv
  <2>4. CASE best # None
    <3>1. PICK k \in Within(tried) : FirstCheapest(k, tried) /\ best.contract = Candidate(k)
      BY <2>2, <2>4
    <3>2. Len(Grid[lane])' = Len(Grid[lane])
      BY <2>1 DEF Steady
    <3> QED BY <2>1, <2>4, <3>1, <3>2, SteadyWithin DEF BestInv
  <2> QED BY <2>3, <2>4
<1>3. CASE Estimate
  <2>1. /\ phase = "estimate" /\ tried' = tried /\ best' = best
        /\ phase' = "search" \/ (phase' = "failed" /\ ratios' = ratios)
    BY <1>3 DEF Estimate, selectionVars
  <2>2. ratios = None /\ tried = 0 /\ best = None
    BY <2>1 DEF SearchTyped
  <2>3. Within(0)' = {}
    BY DEF Within
  <2> QED BY <2>1, <2>2, <2>3 DEF BestInv
<1>4. CASE Deploy
  BY <1>4 DEF Deploy, BestInv
<1>5. CASE UNCHANGED <<lane, phase, selectionVars, ratios, contract>>
  <2>1. Steady /\ Len(Grid[lane])' = Len(Grid[lane])
    BY <1>5 DEF Steady, selectionVars
  <2> QED BY <1>5, <2>1, SteadyWithin DEF BestInv, selectionVars
<1> QED BY <1>1, <1>2, <1>3, <1>4, <1>5 DEF Next, vars, Verify, Complete, NextCase, ScoreCase

\* At the end of the grid the first cheapest is Min of the cheapest.
LEMMA BestIsBest == SearchTyped /\ BestInv => SelectionIsBest
<1> SUFFICES ASSUME SearchTyped, BestInv PROVE SelectionIsBest
  OBVIOUS
<1> DEFINE n == Len(Grid[lane])
           W == {k \in DOMAIN Grid[lane] : Feasible(Candidate(k))}
           Cheapest == {k \in W : \A j \in W : CostOf(Candidate(k)) <= CostOf(Candidate(j))}
<1>1. DOMAIN Grid[lane] = 1 .. n /\ n \in Nat
  BY GridAssumption DEF SearchTyped
<1>2. W = Within(n)
  BY <1>1 DEF Within
<1>3. ASSUME phase = "chosen"
      PROVE  Cheapest # {} /\ contract = Candidate(Min(Cheapest))
  <2>1. PICK k \in Within(n) : FirstCheapest(k, n) /\ contract = Candidate(k)
    BY <1>3 DEF BestInv
  <2>2. \A j \in W : Price(j) \in Nat
    BY <1>3, CostIsNat DEF Price, SearchTyped
  <2>3. W \subseteq Nat
    BY <1>1
  <2>4. /\ k \in W
        /\ \A j \in W : Price(k) <= Price(j) /\ (j < k => Price(k) < Price(j))
    BY <1>2, <2>1 DEF FirstCheapest, Price
  <2>5. Cheapest = {j \in W : \A i \in W : Price(j) <= Price(i)}
    BY DEF Price
  <2> HIDE DEF W, Cheapest
  <2>6. k \in Cheapest /\ Cheapest \in SUBSET Nat /\ Cheapest # {}
    BY <2>3, <2>4, <2>5
  <2>7. Min(Cheapest) \in Cheapest /\ Min(Cheapest) <= k
    BY <2>6, MinOfNats
  <2> DEFINE m == Min(Cheapest)
  <2>8. m \in W /\ Price(m) <= Price(k) /\ m <= k /\ m \in Nat /\ k \in Nat
    BY <2>3, <2>4, <2>5, <2>6, <2>7
  <2> HIDE DEF m
  <2>9. m = k
    BY <2>2, <2>4, <2>8
  <2> QED BY <2>1, <2>6, <2>9 DEF m
<1>4. phase = "failed" /\ ratios # None => W = {}
  BY <1>2 DEF BestInv
<1> HIDE DEF W
<1> QED BY <1>3, <1>4 DEF SelectionIsBest, W

-----------------------------------------------------------------------------
(* The three together are inductive.                                        *)

SelectionInv == SearchTyped /\ ServedTyped /\ BestInv

LEMMA TypesFollow == SelectionInv => TypeOK
<1> SUFFICES ASSUME SelectionInv PROVE TypeOK
  OBVIOUS
<1>1. SearchTyped /\ ServedTyped /\ lane \in Lanes
  BY DEF SelectionInv, SearchTyped
<1>2. ratios = None \/ \A r \in Results(lane) : ratios[r][1] > 0 /\ ratios[r][2] > 0
  BY <1>1 DEF SearchTyped, Directed, PositiveFractions
<1>3. \A c \in ({contract} \cup IF best = None THEN {} ELSE {best.contract}) \ {None} :
         c \in Contracts
  BY <1>1 DEF SearchTyped
<1>4. phase \in {"chosen", "deployed"} <=> contract # None
  BY <1>1, NoneAssumption DEF SearchTyped
<1>5. ASSUME served # None
      PROVE  served \in Cases /\ (served.result # None => served.final # "VERIFY")
  <2>1. served \in [score : Scores, amount : Amounts, stage : Actions, faults : SUBSET Faults,
                    result : Results(lane) \cup {None}, final : Actions]
    BY <1>1, <1>5 DEF ServedTyped
  <2>2. Results(lane) \subseteq (UNION {Results(l) : l \in Lanes})
    BY <1>1
  <2>3. served \in Cases
    BY <2>1, <2>2 DEF Cases
  <2>4. served.result # None => served.final # "VERIFY"
    BY <1>1, <1>5, NoSecondVerification DEF ServedTyped
  <2> QED BY <2>3, <2>4
<1> QED BY <1>1, <1>2, <1>3, <1>4, <1>5 DEF TypeOK, SearchTyped

LEMMA SelectionInvariant == Spec => []SelectionInv
<1>1. Init => SelectionInv
  BY InitTyped DEF SelectionInv
<1>2. SelectionInv /\ [Next]_vars => SelectionInv'
  BY StepTyped, StepServed, StepBest DEF SelectionInv
<1> QED BY <1>1, <1>2, PTL DEF Spec

\* The variables have their types, the ratios are positive, a contract is there
\* exactly from the choice on, and no case is sent to verification twice.
THEOREM TypeCorrect == Spec => []TypeOK
BY SelectionInvariant, TypesFollow, PTL

\* select_policy writes the first of the cheapest contracts within both limits,
\* for every grid and frame, and fails only if the grid holds none.
THEOREM BestSelected == Spec => []SelectionIsBest
<1>1. SelectionInv => SelectionIsBest
  BY BestIsBest DEF SelectionInv
<1> QED BY <1>1, SelectionInvariant, PTL

-----------------------------------------------------------------------------
(* Evidence against the score.                                              *)

\* Fractions are ordered by value.
LEMMA LeqTransitive ==
    ASSUME NEW x \in Fractions, NEW y \in Fractions, NEW z \in Fractions, Leq(x, y), Leq(y, z)
    PROVE  Leq(x, z)
<1> DEFINE a == x[1]  b == x[2]  c == y[1]  d == y[2]  e == z[1]  f == z[2]
<1>1. /\ a \in Nat /\ b \in Nat /\ c \in Nat /\ d \in Nat /\ e \in Nat /\ f \in Nat
      /\ b > 0 /\ d > 0 /\ f > 0
  BY DEF Fractions
<1>2. a * d <= c * b /\ c * f <= e * d
  BY DEF Leq
<1> HIDE DEF a, b, c, d, e, f
<1>3. (a * d) * f <= (c * b) * f /\ (c * f) * b <= (e * d) * b
  BY <1>1, <1>2, NatTimes, TimesMonotone
<1>4. (a * f) * d <= (e * b) * d
  BY <1>1, <1>3
<1>5. a * f <= e * b
  BY <1>1, <1>4
<1> QED BY <1>5 DEF Leq, a, b, c, d, e, f

LEMMA LeqTotal ==
    ASSUME NEW x \in Fractions, NEW y \in Fractions
    PROVE  Leq(x, x) /\ (Leq(x, y) \/ Leq(y, x))
BY DEF Leq, Fractions

\* The bounds of clipping, and the fractions strictly between 0 and 1.
Lowest == <<1, Edge>>
Highest == <<Edge - 1, Edge>>
Probabilities == {x \in Fractions : x[1] > 0 /\ x[1] < x[2]}

LEMMA EdgesAreProbabilities ==
    Lowest \in Probabilities /\ Highest \in Probabilities
BY ScaleAssumption DEF Lowest, Highest, Probabilities, Fractions

\* Clipping leaves a probability that is inside as it is, but for its fraction.
LEMMA OddsInside ==
    ASSUME NEW x \in Probabilities, Leq(Lowest, x), Leq(x, Highest)
    PROVE  Odds(x) \in Probabilities /\ Leq(Odds(x), x) /\ Leq(x, Odds(x))
<1>1. x \in Fractions /\ Lowest \in Fractions /\ Highest \in Fractions
  BY EdgesAreProbabilities DEF Probabilities
<1>2. Odds(x) = IF Leq(x, Lowest) THEN Lowest ELSE IF Leq(Highest, x) THEN Highest ELSE x
  BY DEF Odds, Clip, Lowest, Highest
<1> QED BY <1>1, <1>2, EdgesAreProbabilities, LeqTotal

\* Clipping moves no probability across one that is not clipped itself.
LEMMA OddsKeepsOrder ==
    ASSUME NEW x \in Probabilities, NEW p \in Probabilities, Leq(Lowest, p), Leq(p, Highest)
    PROVE  /\ Odds(x) \in Probabilities
           /\ Leq(x, p) => Leq(Odds(x), p)
           /\ Leq(p, x) => Leq(p, Odds(x))
<1>1. /\ x \in Fractions /\ p \in Fractions /\ Lowest \in Fractions /\ Highest \in Fractions
  BY EdgesAreProbabilities DEF Probabilities
<1>2. Odds(x) = IF Leq(x, Lowest) THEN Lowest ELSE IF Leq(Highest, x) THEN Highest ELSE x
  BY DEF Odds, Clip, Lowest, Highest
<1> QED BY <1>1, <1>2, EdgesAreProbabilities, LeqTransitive

\* Bayes' rule in odds: a ratio of at most one lowers, one of at least one raises.
LEMMA RatioMoves ==
    ASSUME NEW p \in Probabilities, NEW ratio \in PositiveFractions
    PROVE  LET up == p[1] * ratio[1]
               q == <<up, up + (p[2] - p[1]) * ratio[2]>>
           IN  /\ q \in Probabilities
               /\ Leq(ratio, <<1, 1>>) => Leq(q, p)
               /\ Leq(<<1, 1>>, ratio) => Leq(p, q)
<1> DEFINE n == p[1]  m == p[2] - p[1]  a == ratio[1]  b == ratio[2]
           q == <<n * a, n * a + m * b>>
<1>1. /\ n \in Nat /\ m \in Nat /\ a \in Nat /\ b \in Nat /\ p[2] = n + m
      /\ n > 0 /\ m > 0 /\ a > 0 /\ b > 0
  BY DEF Probabilities, Fractions, PositiveFractions
<1>2. /\ Leq(ratio, <<1, 1>>) <=> a <= b
      /\ Leq(<<1, 1>>, ratio) <=> b <= a
  BY <1>1 DEF Leq
<1> HIDE DEF m
<1>3. Leq(q, p) <=> (n * a) * (n + m) <= n * (n * a + m * b)
  BY <1>1 DEF Leq
<1>4. Leq(p, q) <=> n * (n * a + m * b) <= (n * a) * (n + m)
  BY <1>1 DEF Leq
<1> HIDE DEF n, a, b
<1> DEFINE k == n * m
<1>5. n * a \in Nat /\ n * a > 0 /\ m * b \in Nat /\ m * b > 0 /\ k \in Nat
  BY <1>1, PosTimes
<1>6. /\ (n * a) * (n + m) = n * (n * a) + k * a
      /\ n * (n * a + m * b) = n * (n * a) + k * b
  BY <1>1
<1> HIDE DEF k
<1>7. /\ a <= b => k * a <= k * b
      /\ b <= a => k * b <= k * a
  BY <1>1, <1>5, TimesMonotone
<1>8. n * (n * a) \in Nat /\ k * a \in Nat /\ k * b \in Nat
  BY <1>1, <1>5, NatTimes
<1>9. q \in Probabilities
  BY <1>5 DEF Probabilities, Fractions
<1>10. (a <= b => Leq(q, p)) /\ (b <= a => Leq(p, q))
  BY <1>3, <1>4, <1>6, <1>7, <1>8
<1>11. q = <<p[1] * ratio[1], p[1] * ratio[1] + (p[2] - p[1]) * ratio[2]>>
  BY DEF n, m, a, b
<1> HIDE DEF q
<1> QED BY <1>2, <1>9, <1>10, <1>11

\* The posterior of a score lies on the side of it the ratio says.
LEMMA PosteriorMoves ==
    ASSUME lane \in Lanes, NEW score \in Scores, NEW ratio \in PositiveFractions
    PROVE  LET p == <<score, Scale>>
               q == Posterior(p, ratio)
           IN  /\ p \in Probabilities /\ q \in Probabilities
               /\ Leq(ratio, <<1, 1>>) => Leq(q, p)
               /\ Leq(<<1, 1>>, ratio) => Leq(p, q)
<1> DEFINE p == <<score, Scale>>
           prior == Odds(p)
           up == prior[1] * ratio[1]
           q == <<up, up + (prior[2] - prior[1]) * ratio[2]>>
<1>1. p \in Probabilities /\ Leq(Lowest, p) /\ Leq(p, Highest)
  <2>1. /\ score \in Nat /\ score > 0
        /\ Scale <= score * Edge /\ score * Edge <= (Edge - 1) * Scale
    BY ScoresAreInside
  <2>2. score < Scale
    BY <2>1, ScaleAssumption
  <2> QED BY <2>1, <2>2, ScaleAssumption DEF Probabilities, Fractions, Leq, Lowest, Highest
<1>2. Posterior(p, ratio) = IF lane = "v1" THEN Odds(q) ELSE q
  BY DEF Posterior
<1> HIDE DEF p
<1>3. prior \in Probabilities /\ Leq(prior, p) /\ Leq(p, prior)
  BY <1>1, OddsInside
<1> HIDE DEF prior
<1>4. /\ q \in Probabilities
      /\ Leq(ratio, <<1, 1>>) => Leq(q, prior)
      /\ Leq(<<1, 1>>, ratio) => Leq(prior, q)
  BY <1>3, RatioMoves
<1> HIDE DEF q
<1>5. p \in Fractions /\ q \in Fractions /\ prior \in Fractions
  BY <1>1, <1>3, <1>4 DEF Probabilities
<1>6. /\ Leq(ratio, <<1, 1>>) => Leq(q, p)
      /\ Leq(<<1, 1>>, ratio) => Leq(p, q)
  BY <1>3, <1>4, <1>5, LeqTransitive
<1>7. /\ Odds(q) \in Probabilities
      /\ Leq(q, p) => Leq(Odds(q), p)
      /\ Leq(p, q) => Leq(p, Odds(q))
  BY <1>1, <1>4, OddsKeepsOrder
<1> QED BY <1>1, <1>2, <1>4, <1>6, <1>7 DEF p

\* What a return costs over a verification, times the denominator of the score:
\* linear in the score.
LEMMA MiddleIsLinear ==
    ASSUME NEW p \in Probabilities, NEW amount \in Nat
    PROVE  LET A == 10000 * (Costs.logistics + Costs.delay
                               - Costs.verification - Costs.verificationFriction)
               B == 10000 * (Costs.verificationFriction - Costs.delay)
                      + (amount * (100 + Costs.loss)) * (100 - Costs.salvage - Costs.residual)
           IN  Middle(p, amount) = "VERIFY" <=> p[2] * A + p[1] * B >= 0
<1> DEFINE n == p[1]  d == p[2]  V == Costs.verification  F == Costs.verificationFriction
           L == Costs.logistics  D == Costs.delay  l == 100 + Costs.loss
           S == 100 - Costs.salvage  R == Costs.residual
           e == (n * amount) * l
           verify == 10000 * (d * V + (d - n) * F) + e * R
           return == 10000 * (d * L + (d - n) * D) + e * S
           A == 10000 * (L + D - V - F)
           B == 10000 * (F - D) + (amount * l) * (S - R)
<1>1. /\ n \in Nat /\ d \in Nat /\ V \in Nat /\ F \in Nat /\ L \in Nat /\ D \in Nat
      /\ l \in Nat /\ S \in Nat /\ R \in Nat
  BY CostNats DEF Probabilities, Fractions
<1>2. Middle(p, amount) = IF verify <= return THEN "VERIFY" ELSE "RETURN_FIRST"
  BY DEF Middle
<1>3. /\ A = 10000 * (Costs.logistics + Costs.delay
                        - Costs.verification - Costs.verificationFriction)
      /\ B = 10000 * (Costs.verificationFriction - Costs.delay)
               + (amount * (100 + Costs.loss)) * (100 - Costs.salvage - Costs.residual)
  BY <1>1
<1> HIDE DEF n, d, V, F, L, D, l, S, R
<1>4. return - verify = d * A + n * B
  BY <1>1
<1>5. verify \in Int /\ return \in Int
  BY <1>1
<1> HIDE DEF verify, return, A, B
<1>6. verify <= return <=> return - verify >= 0
  BY <1>5
<1> QED BY <1>2, <1>3, <1>4, <1>6 DEF n, d

\* A linear function that is not negative at 0 and at n/d is not at u/v between.
LEMMA LinearStays ==
    ASSUME NEW A \in Nat, NEW B \in Int, NEW n \in Nat, NEW d \in Nat, d > 0,
           NEW u \in Nat, NEW v \in Nat, u * d <= n * v, d * A + n * B >= 0
    PROVE  v * A + u * B >= 0
<1>1. CASE B >= 0
  <2>1. v * A \in Nat /\ u * B \in Nat
    BY <1>1
  <2> QED BY <2>1
<1>2. CASE B < 0
  <2> DEFINE b == 0 - B
  <2>1. b \in Nat /\ B = 0 - b
    BY <1>2
  <2> HIDE DEF b
  <2>2. n * b <= d * A
    BY <2>1
  <2>3. (u * d) * b <= (n * v) * b
    BY <2>1, NatTimes, TimesMonotone
  <2>4. v * (n * b) <= v * (d * A)
    BY <2>1, <2>2, NatTimes, TimesMonotone
  <2>5. (u * b) * d <= (v * A) * d
    BY <2>1, <2>3, <2>4
  <2>6. u * b <= v * A
    BY <2>1, <2>5
  <2> QED BY <2>1, <2>6
<1> QED BY <1>1, <1>2

\* A lower score does not make a return the cheaper of the two.
LEMMA LowerIsVerified ==
    ASSUME VerifyingIsCheaper, NEW p \in Probabilities, NEW q \in Probabilities,
           NEW amount \in Nat, Leq(q, p), Middle(p, amount) = "VERIFY"
    PROVE  Middle(q, amount) = "VERIFY"
<1> DEFINE A == 10000 * (Costs.logistics + Costs.delay
                           - Costs.verification - Costs.verificationFriction)
           B == 10000 * (Costs.verificationFriction - Costs.delay)
                  + (amount * (100 + Costs.loss)) * (100 - Costs.salvage - Costs.residual)
<1>1. A \in Nat
  BY CostNats DEF VerifyingIsCheaper
<1>2. B \in Int
  BY CostNats
<1>3. \A x \in Probabilities : Middle(x, amount) = "VERIFY" <=> x[2] * A + x[1] * B >= 0
  BY MiddleIsLinear
<1> HIDE DEF A, B
<1>4. /\ p[1] \in Nat /\ p[2] \in Nat /\ p[2] > 0 /\ q[1] \in Nat /\ q[2] \in Nat
      /\ q[1] * p[2] <= p[1] * q[2]
  BY DEF Probabilities, Fractions, Leq
<1>5. q[2] * A + q[1] * B >= 0
  BY <1>1, <1>2, <1>3, <1>4, LinearStays
<1> QED BY <1>3, <1>5

\* The posterior of a challenged score, below it or above it, meets the contract.
LEMMA EvidenceV1 ==
    ASSUME VerifyingIsCheaper, lane = "v1", Directed, NEW c \in Contracts, NEW score \in Scores,
           NEW amount \in Nat, Stage(c, <<score, Scale>>, amount) = "VERIFY"
    PROVE  /\ Served(c, <<score, Scale>>, amount, "consistent") = "AUTO_APPROVE"
           /\ \A r \in {"inconsistent", "expired"} :
                After(c, <<score, Scale>>, amount, r) # "AUTO_APPROVE"
<1> DEFINE p == <<score, Scale>>
           Again(r) == Posterior(p, ratios[r])
<1>1. c.low \in Fractions /\ c.high \in Fractions
  BY DEF Contracts
<1>2. /\ ~Leq(p, c.low) /\ ~(Leq(c.high, p) /\ amount >= c.cutoff)
      /\ Middle(p, amount) = "VERIFY"
  BY DEF Stage
<1>3. /\ "consistent" \in Results(lane) /\ "inconsistent" \in Results(lane)
      /\ "expired" \in Results(lane)
  BY DEF Results
<1>4. /\ \A r \in Results(lane) : ratios[r] \in PositiveFractions
      /\ Leq(ratios["consistent"], <<1, 1>>) /\ Leq(<<1, 1>>, ratios["inconsistent"])
      /\ Leq(<<1, 1>>, ratios["expired"])
  BY DEF Directed, Leq
<1>5. /\ p \in Probabilities
      /\ \A r \in Results(lane) : /\ Again(r) \in Probabilities
                                  /\ Leq(ratios[r], <<1, 1>>) => Leq(Again(r), p)
                                  /\ Leq(<<1, 1>>, ratios[r]) => Leq(p, Again(r))
  <2>1. lane \in Lanes
    BY DEF Lanes
  <2>2. p \in Probabilities
    BY <2>1, <1>3, <1>4, PosteriorMoves
  <2> QED BY <2>1, <2>2, <1>4, PosteriorMoves
<1>6. Probabilities \subseteq Fractions
  BY DEF Probabilities
<1>7. Served(c, p, amount, "consistent") = "AUTO_APPROVE"
  <2> DEFINE q == Again("consistent")
  <2>1. q \in Probabilities /\ q \in Fractions /\ Leq(q, p) /\ p \in Fractions
    BY <1>3, <1>4, <1>5, <1>6
  <2>2. Middle(q, amount) = "VERIFY"
    BY <1>2, <1>5, <2>1, LowerIsVerified
  <2>3. Leq(c.high, q) => Leq(c.high, p)
    BY <1>1, <2>1, LeqTransitive
  <2>4. After(c, p, amount, "consistent") =
          LET again == Stage(c, q, amount)
          IN  CASE again # "VERIFY" -> again
                [] again = "VERIFY" -> "AUTO_APPROVE"
                [] OTHER -> "RETURN_FIRST"
    BY DEF After
  <2>5. Served(c, p, amount, "consistent") = After(c, p, amount, "consistent")
    BY DEF Served
  <2> HIDE DEF q, p
  <2>6. Stage(c, q, amount) \in {"AUTO_APPROVE", "VERIFY"}
    BY <1>2, <2>2, <2>3 DEF Stage
  <2> QED BY <2>4, <2>5, <2>6
<1>8. ASSUME NEW r \in {"inconsistent", "expired"}
      PROVE  After(c, p, amount, r) # "AUTO_APPROVE"
  <2> DEFINE q == Again(r)
  <2>1. q \in Fractions /\ Leq(p, q) /\ p \in Fractions
    BY <1>3, <1>4, <1>5, <1>6
  <2>2. ~Leq(q, c.low)
    BY <1>1, <1>2, <2>1, LeqTransitive
  <2>3. After(c, p, amount, r) =
          LET again == Stage(c, q, amount)
          IN  IF again # "VERIFY" THEN again ELSE "RETURN_FIRST"
    BY DEF After
  <2> HIDE DEF q, p
  <2>4. Stage(c, q, amount) # "AUTO_APPROVE"
    BY <2>2 DEF Stage, Middle
  <2> QED BY <2>3, <2>4
<1> QED BY <1>7, <1>8

LEMMA EvidenceV2 ==
    ASSUME lane = "v2", NEW c, NEW p, NEW amount
    PROVE  /\ Served(c, p, amount, "consistent") = "AUTO_APPROVE"
           /\ \A r \in Results(lane) \ {"consistent"} : After(c, p, amount, r) # "AUTO_APPROVE"
BY DEF Served, After

LEMMA EvidenceFollows ==
    ASSUME VerifyingIsCheaper, SelectionInv
    PROVE  EvidencePrevails
<1> SUFFICES ASSUME served # None, served.stage = "VERIFY"
             PROVE  /\ served.result = "consistent" => served.final = "AUTO_APPROVE"
                    /\ \A r \in Results(lane) \cap ({"inconsistent", "expired"} \cup Technical) :
                         After(contract, <<served.score, Scale>>, served.amount, r)
                           # "AUTO_APPROVE"
  BY DEF EvidencePrevails
<1>1. /\ phase = "deployed" /\ lane \in Lanes /\ Directed /\ contract \in Contracts
  BY DEF SelectionInv, SearchTyped
<1>2. /\ served.score \in Scores /\ served.amount \in Nat
      /\ Stage(contract, <<served.score, Scale>>, served.amount) = "VERIFY"
      /\ served.result # None =>
           served.final = Served(contract, <<served.score, Scale>>, served.amount, served.result)
  BY AmountsAssumption DEF SelectionInv, ServedTyped
<1>3. None # "consistent"
  BY <1>1, NoneAssumption DEF Results
<1>4. CASE lane = "v1"
  <2>1. Results(lane) \cap ({"inconsistent", "expired"} \cup Technical)
          = {"inconsistent", "expired"}
    BY <1>4 DEF Results, Technical
  <2> QED BY <1>1, <1>2, <1>3, <1>4, <2>1, EvidenceV1
<1>5. CASE lane = "v2"
  <2>1. \A r \in Results(lane) \cap ({"inconsistent", "expired"} \cup Technical) :
          r \in Results(lane) \ {"consistent"}
    BY DEF Technical
  <2> QED BY <1>2, <1>3, <1>5, <2>1, EvidenceV2
<1> QED BY <1>1, <1>4, <1>5 DEF Lanes

\* Where verifying a legitimate customer costs no more than a return first, a
\* challenged case with consistent evidence is approved, and neither evaluation
\* approves one on adverse evidence or a technical failure, whatever was estimated.
THEOREM EvidenceDecides ==
    ASSUME VerifyingIsCheaper
    PROVE  Spec => []EvidencePrevails
<1>1. SelectionInv => EvidencePrevails
  BY EvidenceFollows
<1> QED BY <1>1, SelectionInvariant, PTL

-----------------------------------------------------------------------------
(* Clean evidence.                                                          *)

\* Only a case without any fault is consistent: an early return on a missing
\* fact hides inconsistencies, and never the other way round.
LEMMA CleanIsConsistent ==
    ASSUME NEW faults \in SUBSET Faults, Integrity(faults) = "consistent"
    PROVE  faults = {}
BY DEF Integrity, Faults

\* The rule the service puts over the posterior action leaves it no approval on
\* anything but consistent evidence; v2's own rule does the same.
LEMMA ServedNeedsConsistent ==
    ASSUME lane \in Lanes, NEW r \in Results(lane), NEW c, NEW p, NEW amount,
           Served(c, p, amount, r) = "AUTO_APPROVE"
    PROVE  r = "consistent"
<1>1. CASE lane = "v1"
  BY <1>1 DEF Served, Results
<1>2. CASE lane = "v2"
  <2>1. Served(c, p, amount, r) = After(c, p, amount, r)
    BY <1>2 DEF Served
  <2>2. After(c, p, amount, r) = CASE r = "consistent" -> "AUTO_APPROVE"
                                   [] r = "inconsistent" -> "RETURN_FIRST"
                                   [] OTHER -> "MANUAL_REVIEW"
    BY <1>2 DEF After
  <2> QED BY <2>1, <2>2
<1> QED BY <1>1, <1>2 DEF Lanes

\* The property is inductive once served is known to be a record.
CaseRow == served = [score |-> served.score, amount |-> served.amount, stage |-> served.stage,
                     faults |-> served.faults, result |-> served.result, final |-> served.final]

CleanInv == lane \in Lanes /\ (served # None => CaseRow) /\ OnlyCleanEvidenceApproves

LEMMA InitClean == Init => CleanInv
BY DEF Init, CleanInv, OnlyCleanEvidenceApproves

LEMMA ScoreCaseKeeps ==
    ASSUME CleanInv, NEW score, NEW amount, ScoreCase(score, amount)
    PROVE  CleanInv'
<1> DEFINE stage == Stage(contract, <<score, Scale>>, amount)
<1>1. /\ served' = [score |-> score, amount |-> amount, stage |-> stage,
                    faults |-> {}, result |-> None, final |-> stage]
      /\ lane' = lane
  BY DEF ScoreCase
<1> HIDE DEF stage
<1> QED BY <1>1 DEF CleanInv, CaseRow, OnlyCleanEvidenceApproves

LEMMA CompleteKeeps ==
    ASSUME CleanInv, NEW faults, NEW r \in Results(lane), Complete(faults, r),
           r = "consistent" => faults = {}
    PROVE  CleanInv'
<1> DEFINE final == Served(contract, <<served.score, Scale>>, served.amount, r)
<1>1. served' = [served EXCEPT !.faults = faults, !.result = r, !.final = final]
  BY DEF Complete
<1>2. final = "AUTO_APPROVE" => r = "consistent"
  BY ServedNeedsConsistent DEF CleanInv
<1>3. lane' = lane /\ served # None
  BY DEF Complete
<1> HIDE DEF final
<1> DEFINE s == served.score  a == served.amount  g == served.stage
<1>4. served' = [score |-> s, amount |-> a, stage |-> g, faults |-> faults,
                 result |-> r, final |-> final]
  <2>1. served = [score |-> s, amount |-> a, stage |-> g, faults |-> served.faults,
                  result |-> served.result, final |-> served.final]
    BY <1>3 DEF CleanInv, CaseRow
  <2> QED BY <1>1, <2>1
<1> HIDE DEF s, a, g
<1>5. /\ served'.score = s /\ served'.amount = a /\ served'.stage = g
      /\ served'.faults = faults /\ served'.result = r /\ served'.final = final
  BY <1>4
<1>6. CaseRow' /\ OnlyCleanEvidenceApproves'
  BY <1>2, <1>4, <1>5 DEF CaseRow, OnlyCleanEvidenceApproves
<1> QED BY <1>3, <1>6 DEF CleanInv

LEMMA VerifyKeeps ==
    ASSUME CleanInv, Verify
    PROVE  CleanInv'
<1>1. ASSUME lane = "v1", NEW faults \in SUBSET Faults, Complete(faults, Integrity(faults))
      PROVE  CleanInv'
  <2>1. Integrity(faults) \in Results(lane)
    BY <1>1, IntegrityResults DEF Results
  <2> QED BY <1>1, <2>1, CompleteKeeps, CleanIsConsistent
<1>2. ASSUME lane = "v2", NEW r \in Results("v2"), Complete({}, r)
      PROVE  CleanInv'
  BY <1>2, CompleteKeeps
<1> QED BY <1>1, <1>2 DEF Verify

LEMMA StepClean == CleanInv /\ [Next]_vars => CleanInv'
<1> SUFFICES ASSUME CleanInv, [Next]_vars PROVE CleanInv'
  OBVIOUS
<1>1. CASE lane' = lane /\ (served' = served \/ served' = None)
  BY <1>1 DEF CleanInv, CaseRow, OnlyCleanEvidenceApproves
<1>2. CASE Estimate \/ Try \/ Choose \/ Deploy \/ NextCase \/ UNCHANGED vars
  BY <1>1, <1>2 DEF Estimate, Try, Choose, Deploy, NextCase, vars
<1> QED BY <1>2, VerifyKeeps, ScoreCaseKeeps DEF Next

\* A challenged case is approved by the service without a human only if the
\* verifier found nothing at all, whatever was selected and estimated.
THEOREM CleanEvidence == Spec => []OnlyCleanEvidenceApproves
<1>1. CleanInv => OnlyCleanEvidenceApproves
  BY DEF CleanInv
<1> QED BY <1>1, InitClean, StepClean, PTL DEF Spec
=============================================================================
