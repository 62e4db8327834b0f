------------------------ MODULE RangeAnalysisProofs ------------------------
(***************************************************************************)
(* The range analysis is right for every graph and every argument: a value *)
(* that a run computes lies in the range that the analysis has for it, and *)
(* a block that the analysis does not reach is not run.                    *)
(*                                                                         *)
(* First come the transfer functions of Ranges: if the operands have       *)
(* values in their ranges, the result has its value in the range that the  *)
(* operation computes.                                                     *)
(*                                                                         *)
(* Then comes the analysis.  The invariant has three layers. AnalysisInv   *)
(* is about what the analysis has done: each operation it has passed and   *)
(* each link it has followed has had its effect on the ranges (known has   *)
(* them as they were at each point).  RunInv is about the run: the ranges  *)
(* known at the point where it is hold for it.  The ranges of a block at   *)
(* its end may be used earlier in the block (FoldingSound), because only a *)
(* conversion narrows them, which fails for the numbers that it takes away *)
(* (StableInv).                                                            *)
(* Last, the analysis does not fail, if ranges still hold numbers where it *)
(* converts or tests them (GivenInv: the operands have ranges at all).     *)
(***************************************************************************)
EXTENDS RangeAnalysis, FiniteSetTheorems, WellFoundedInduction, TLAPS

-----------------------------------------------------------------------------
(***************************************************************************)
(* Induction and recursion over the natural numbers, in a form in which    *)
(* a property is a set and the step of a recursion is a function, so that  *)
(* both can be given to first-order provers.                               *)
(***************************************************************************)

\* A set of natural numbers that is not empty has a least element.
LEMMA LeastNatural ==
  ASSUME NEW S, S \subseteq Nat, S # {}
  PROVE  \E m \in S : \A n \in S : m <= n
<1> DEFINE less == {p \in Nat \X Nat : p[1] < p[2]}
<1>1. IsWellFoundedOn(less, Nat)
  BY NatLessThanWellFounded DEF OpToRel
<1>2. PICK m \in S : \A n \in S : <<n, m>> \notin less
  <2> HIDE DEF less
  <2> QED  BY <1>1, WFMin
<1>3. \A n \in S : m <= n
  <2> SUFFICES ASSUME NEW n \in S PROVE m <= n
    OBVIOUS
  <2>1. <<n, m>> \notin less /\ m \in Nat /\ n \in Nat
    BY <1>2
  <2> QED  BY <2>1
<1> QED  BY <1>3

\* Induction: a set with 0 and with the successor of each of its elements.
LEMMA Induction ==
  ASSUME NEW S, 0 \in S, \A n \in Nat : n \in S => n + 1 \in S
  PROVE  Nat \subseteq S
<1> SUFFICES ASSUME ~ (Nat \subseteq S) PROVE FALSE
  OBVIOUS
<1>1. PICK m \in Nat \ S : \A n \in Nat \ S : m <= n
  BY LeastNatural
<1>2. m - 1 \in Nat /\ m - 1 \in S
  BY <1>1
<1> QED  BY <1>1, <1>2

-----------------------------------------------------------------------------
(***************************************************************************)
(* The first n values of a function that begins with a and goes on with    *)
(* step, which is given the argument and the value before.                 *)
(***************************************************************************)
Prefix(f, n, V, a, step) ==
  /\ f \in [0 .. n -> V]
  /\ f[0] = a
  /\ \A i \in 0 .. n - 1 : f[i + 1] = step[<<i, f[i]>>]

LEMMA PrefixExists ==
  ASSUME NEW V, NEW a \in V, NEW step \in [Nat \X V -> V], NEW n \in Nat
  PROVE  \E f : Prefix(f, n, V, a, step)
<1> DEFINE S == {k \in Nat : \E f : Prefix(f, k, V, a, step)}
<1>1. 0 \in S
  <2>1. Prefix([i \in 0 .. 0 |-> a], 0, V, a, step)
    BY DEF Prefix
  <2> QED  BY <2>1
<1>2. ASSUME NEW k \in Nat, k \in S PROVE k + 1 \in S
  <2>1. PICK f : Prefix(f, k, V, a, step)
    BY <1>2
  <2> DEFINE g == [i \in 0 .. k + 1 |->
                     IF i = k + 1 THEN step[<<k, f[k]>>] ELSE f[i]]
  <2>2. f[k] \in V /\ step[<<k, f[k]>>] \in V
    BY <2>1 DEF Prefix
  <2>3. g \in [0 .. k + 1 -> V]
    BY <2>1, <2>2 DEF Prefix
  <2>4. g[0] = a
    BY <2>1 DEF Prefix
  <2>5. ASSUME NEW i \in 0 .. k PROVE g[i + 1] = step[<<i, g[i]>>]
    <3>1. g[i] = f[i]
      OBVIOUS
    <3>2. CASE i = k
      <4>1. g[k + 1] = step[<<k, f[k]>>]
        OBVIOUS
      <4> HIDE DEF g
      <4> QED  BY <3>1, <3>2, <4>1
    <3>3. CASE i < k
      BY <2>1, <3>1, <3>3 DEF Prefix
    <3> QED  BY <3>2, <3>3
  <2>6. Prefix(g, k + 1, V, a, step)
    <3> HIDE DEF g
    <3> QED  BY <2>3, <2>4, <2>5 DEF Prefix
  <2> QED  BY <2>6
<1> HIDE DEF S
<1>3. Nat \subseteq S
  BY <1>1, <1>2, Induction
<1> QED  BY <1>3 DEF S

\* The first n + 1 values begin with the first n.
LEMMA PrefixExtends ==
  ASSUME NEW V, NEW a, NEW step, NEW n \in Nat, NEW f, NEW g,
         Prefix(f, n, V, a, step), Prefix(g, n + 1, V, a, step)
  PROVE  g[n] = f[n]
<1> DEFINE S == {k \in Nat : k <= n => g[k] = f[k]}
<1>1. 0 \in S
  BY DEF Prefix
<1>2. ASSUME NEW k \in Nat, k \in S PROVE k + 1 \in S
  <2> SUFFICES ASSUME k + 1 <= n PROVE g[k + 1] = f[k + 1]
    OBVIOUS
  <2>1. g[k] = f[k]
    BY <1>2
  <2>2. k \in 0 .. n - 1 /\ k \in 0 .. (n + 1) - 1
    OBVIOUS
  <2> QED  BY <2>1, <2>2 DEF Prefix
<1> HIDE DEF S
<1>3. Nat \subseteq S
  BY <1>1, <1>2, Induction
<1> QED  BY <1>3 DEF S

\* f begins with a and goes on with step.
Iterates(f, V, a, step) ==
  /\ f \in [Nat -> V]
  /\ f[0] = a
  /\ \A n \in Nat : f[n + 1] = step[<<n, f[n]>>]

\* Recursion: such a function exists.
LEMMA Recursion ==
  ASSUME NEW V, NEW a \in V, NEW step \in [Nat \X V -> V]
  PROVE  \E f : Iterates(f, V, a, step)
<1> DEFINE first(n) == CHOOSE f : Prefix(f, n, V, a, step)
           f == [n \in Nat |-> first(n)[n]]
<1>1. \A n \in Nat : Prefix(first(n), n, V, a, step)
  BY PrefixExists
<1> HIDE DEF first
<1>2. f \in [Nat -> V]
  <2> SUFFICES ASSUME NEW n \in Nat PROVE first(n)[n] \in V
    OBVIOUS
  <2>1. Prefix(first(n), n, V, a, step)
    BY <1>1
  <2> QED  BY <2>1 DEF Prefix
<1>3. f[0] = a
  <2>1. Prefix(first(0), 0, V, a, step)
    BY <1>1
  <2> QED  BY <2>1 DEF Prefix
<1>4. ASSUME NEW n \in Nat PROVE f[n + 1] = step[<<n, f[n]>>]
  <2>1. /\ Prefix(first(n), n, V, a, step)
        /\ Prefix(first(n + 1), n + 1, V, a, step)
    BY <1>1
  <2>2. first(n + 1)[n] = first(n)[n]
    <3> HIDE DEF f
    <3> QED  BY <2>1, PrefixExtends
  <2>3. first(n + 1)[n + 1] = step[<<n, first(n + 1)[n]>>]
    BY <2>1 DEF Prefix
  <2> QED  BY <2>2, <2>3
<1> HIDE DEF f
<1> QED  BY <1>2, <1>3, <1>4 DEF Iterates

-----------------------------------------------------------------------------
(***************************************************************************)
(* Products, and quotients rounded down.                                   *)
(***************************************************************************)

LEMMA ProductMonotone ==
  ASSUME NEW a \in Int, NEW b \in Int, NEW n \in Int, a <= b
  PROVE  /\ n >= 0 => a * n <= b * n /\ n * a <= n * b
         /\ n <= 0 => b * n <= a * n /\ n * b <= n * a
<1>1. a * n = n * a /\ b * n = n * b
  OBVIOUS
<1>2. ASSUME n >= 0 PROVE a * n <= b * n
  <2>1. (b - a) * n >= 0
    BY <1>2
  <2>2. (b - a) * n = b * n - a * n
    OBVIOUS
  <2> QED BY <2>1, <2>2
<1>3. ASSUME n <= 0 PROVE b * n <= a * n
  <2>1. (b - a) * (-n) >= 0
    BY <1>3
  <2>2. (b - a) * (-n) = a * n - b * n
    OBVIOUS
  <2> QED BY <2>1, <2>2
<1> QED BY <1>1, <1>2, <1>3

LEMMA Quotient ==
  ASSUME NEW m \in Int, NEW n \in Int, n >= 1
  PROVE  m \div n \in Int /\ n * (m \div n) <= m /\ m < n * (m \div n) + n
OBVIOUS

LEMMA AtMostQuotient ==
  ASSUME NEW a \in Int, NEW m \in Int, NEW n \in Int, n >= 1, n * a <= m
  PROVE  a <= m \div n
<1> DEFINE q == m \div n
<1>1. q \in Int /\ m < n * q + n
  BY Quotient
<1> HIDE DEF q
<1>2. n * a \in Int /\ n * q \in Int
  BY <1>1
<1>3. n * a < n * q + n
  BY <1>1, <1>2
<1>4. n * (q - a + 1) = n * q + n - n * a
  BY <1>1
<1>5. n * (q - a + 1) > 0
  BY <1>2, <1>3, <1>4
<1>6. q - a + 1 > 0
  BY <1>1, <1>5
<1> QED BY <1>1, <1>6 DEF q

LEMMA QuotientMonotone ==
  ASSUME NEW a \in Int, NEW b \in Int, NEW n \in Int, n >= 1, a <= b
  PROVE  a \div n <= b \div n
<1>1. a \div n \in Int /\ n * (a \div n) \in Int /\ n * (a \div n) <= a
  BY Quotient
<1>2. n * (a \div n) <= b
  BY <1>1
<1> QED BY <1>1, <1>2, AtMostQuotient

LEMMA QuotientAntitone ==
  ASSUME NEW a \in Nat, NEW n \in Int, NEW k \in Int, 1 <= n, n <= k
  PROVE  0 <= a \div k /\ a \div k <= a \div n /\ a \div n <= a
<1>1. 0 <= a \div k /\ 0 <= a \div n
  BY AtMostQuotient
<1>2. /\ a \div k \in Int /\ k * (a \div k) <= a
      /\ a \div n \in Int /\ n * (a \div n) <= a
  BY Quotient
<1>3. n * (a \div k) <= k * (a \div k)
  BY <1>1, <1>2, ProductMonotone
<1>4. n * (a \div k) <= a
  BY <1>2, <1>3
<1>5. a \div k <= a \div n
  BY <1>2, <1>4, AtMostQuotient
<1>6. 1 * (a \div n) <= n * (a \div n)
  BY <1>1, <1>2, ProductMonotone
<1> QED BY <1>1, <1>2, <1>5, <1>6

LEMMA QuotientOneWay ==
  ASSUME NEW a \in Int, NEW n \in Int, NEW k \in Int, 1 <= n, n <= k
  PROVE  /\ a >= 0 => a \div k <= a \div n
         /\ a < 0 => a \div n <= a \div k
<1>1. ASSUME a >= 0 PROVE a \div k <= a \div n
  <2>1. a \in Nat
    BY <1>1
  <2> QED  BY <2>1, QuotientAntitone
<1>2. ASSUME a < 0 PROVE a \div n <= a \div k
  <2>1. a \div n \in Int /\ n * (a \div n) \in Int /\ n * (a \div n) <= a
    BY Quotient
  <2>2. a \div n <= 0
    <3> SUFFICES ASSUME 1 <= a \div n PROVE FALSE
      BY <2>1
    <3>1. n * 1 <= n * (a \div n)
      BY <2>1, ProductMonotone
    <3> QED  BY <1>2, <2>1, <3>1
  <2>3. k * (a \div n) <= n * (a \div n) /\ k * (a \div n) \in Int
    BY <2>1, <2>2, ProductMonotone
  <2>4. k * (a \div n) <= a
    BY <2>1, <2>3
  <2> QED  BY <2>1, <2>4, AtMostQuotient
<1> QED  BY <1>1, <1>2

LEMMA Products ==
  ASSUME NEW a \in Int, NEW b \in Int, NEW c \in Int
  PROVE  /\ a * b \in Int /\ a * b = b * a
         /\ a * (b * c) = (a * b) * c
         /\ a * (b + c) = a * b + a * c
         /\ a * (b - c) = a * b - a * c
OBVIOUS

-----------------------------------------------------------------------------
(***************************************************************************)
(* Powers of two.                                                          *)
(***************************************************************************)

LEMMA Pow2Unfold ==
  /\ Pow2 \in [Nat -> Nat \ {0}]
  /\ Pow2[0] = 1
  /\ \A n \in Nat : Pow2[n + 1] = 2 * Pow2[n]
<1> DEFINE V == Nat \ {0}
           step == [p \in Nat \X V |-> 2 * p[2]]
           Solves(f) == f = [n \in Nat |-> IF n = 0 THEN 1 ELSE 2 * f[n - 1]]
<1>1. step \in [Nat \X V -> V]
  OBVIOUS
<1>2. PICK f : Iterates(f, V, 1, step)
  <2>1. 1 \in V
    OBVIOUS
  <2> HIDE DEF step, V
  <2> QED  BY <1>1, <2>1, Recursion
<1>3. Solves(f)
  <2> SUFFICES ASSUME NEW n \in Nat \ {0} PROVE f[n] = 2 * f[n - 1]
    BY <1>2 DEF Iterates
  <2>1. n - 1 \in Nat /\ (n - 1) + 1 = n
    OBVIOUS
  <2>2. f[n] = step[<<n - 1, f[n - 1]>>]
    BY <1>2, <2>1 DEF Iterates
  <2>3. f[n - 1] \in V
    BY <1>2, <2>1 DEF Iterates
  <2> QED  BY <2>1, <2>2, <2>3
<1>4. Solves(Pow2)
  <2>1. Pow2 = CHOOSE g : Solves(g)
    BY DEF Pow2
  <2> QED  BY <1>3, <2>1
<1>5. Pow2[0] = 1 /\ \A n \in Nat : Pow2[n + 1] = 2 * Pow2[n]
  <2>1. \A n \in Nat : Pow2[n] = IF n = 0 THEN 1 ELSE 2 * Pow2[n - 1]
    BY <1>4
  <2> SUFFICES ASSUME NEW n \in Nat PROVE Pow2[n + 1] = 2 * Pow2[n]
    BY <2>1
  <2>2. n + 1 \in Nat /\ n + 1 # 0 /\ (n + 1) - 1 = n
    OBVIOUS
  <2> QED  BY <2>1, <2>2
<1>6. \A n \in Nat : Pow2[n] \in V
  <2> DEFINE S == {n \in Nat : Pow2[n] \in V}
  <2>1. 0 \in S /\ \A n \in Nat : n \in S => n + 1 \in S
    BY <1>5
  <2> HIDE DEF S
  <2>2. Nat \subseteq S
    BY <2>1, Induction
  <2> QED  BY <2>2 DEF S
<1>7. Pow2 \in [Nat -> V]
  BY <1>4, <1>6
<1> QED  BY <1>5, <1>7

LEMMA Pow2Monotone ==
  ASSUME NEW m \in Nat, NEW n \in Nat, m <= n
  PROVE  /\ Pow2[m] \in Nat /\ Pow2[m] >= 1
         /\ Pow2[m] <= Pow2[n]
<1> DEFINE S == {k \in Nat : Pow2[m] <= Pow2[m + k]}
<1>1. \A k \in Nat : Pow2[k] \in Nat /\ Pow2[k] >= 1
  BY Pow2Unfold
<1>2. 0 \in S
  BY <1>1
<1>3. ASSUME NEW k \in Nat, k \in S PROVE k + 1 \in S
  <2>1. Pow2[m + (k + 1)] = 2 * Pow2[m + k]
    BY Pow2Unfold
  <2> QED  BY <1>1, <1>3, <2>1
<1> HIDE DEF S
<1>4. Nat \subseteq S
  BY <1>2, <1>3, Induction
<1>5. n - m \in S
  BY <1>4
<1> QED  BY <1>1, <1>5 DEF S

-----------------------------------------------------------------------------
(***************************************************************************)
(* The operations of class Range of absinterp.py, for all integers.        *)
(***************************************************************************)

\* Range.add and Range.sub: sums and differences.
THEOREM AddSubSound ==
  ASSUME NEW r \in RangeType, NEW s \in RangeType,
         NEW m \in Int, NEW n \in Int, Includes(r, m), Includes(s, n)
  PROVE  /\ Includes(Add(r, s), m + n)
         /\ Includes(Sub(r, s), m - n)
<1>1. /\ r.low \in Bound /\ r.high \in Bound
      /\ s.low \in Bound /\ s.high \in Bound
  BY DEF RangeType
<1>2. Includes(Add(r, s), m + n)
  BY <1>1, NoneAssumption DEF Add, R, Includes, Bound
<1>3. Includes(Sub(r, s), m - n)
  BY <1>1, NoneAssumption DEF Sub, Neg, Add, R, Includes, Bound
<1> QED BY <1>2, <1>3

\* Range.union, which merges what is known on two paths.
THEOREM UnionSound ==
  ASSUME NEW r \in RangeType, NEW s \in RangeType, NEW n \in Int,
         Includes(r, n) \/ Includes(s, n)
  PROVE  Includes(Union(r, s), n)
<1>1. /\ r.low \in Bound /\ r.high \in Bound
      /\ s.low \in Bound /\ s.high \in Bound
  BY DEF RangeType
<1> QED
  BY <1>1, NoneAssumption DEF Union, R, Includes, Bound, Smaller, Larger

\* The comparisons of Range: what they decide is so.
THEOREM ComparisonsSound ==
  ASSUME NEW r \in RangeType, NEW s \in RangeType,
         NEW m \in Int, NEW n \in Int, Includes(r, m), Includes(s, n)
  PROVE  /\ Includes(Le(r, s), Truth(m <= n))
         /\ Includes(Lt(r, s), Truth(m < n))
         /\ Includes(Ge(r, s), Truth(m >= n))
         /\ Includes(Gt(r, s), Truth(m > n))
<1>1. /\ r.low \in Bound /\ r.high \in Bound
      /\ s.low \in Bound /\ s.high \in Bound
  BY DEF RangeType
<1>2. /\ AtMost(r, s) => m <= n
      /\ AtMost(s, r) => n <= m
      /\ Below(r, s) => m < n
      /\ Below(s, r) => n < m
  BY <1>1, NoneAssumption DEF AtMost, Below, Includes, Bound
<1>3. Includes(Le(r, s), Truth(m <= n)) /\ Includes(Le(s, r), Truth(n <= m))
  BY <1>2, NoneAssumption DEF Le, Bool, True, False, R, Includes, Truth
<1>4. Includes(Lt(r, s), Truth(m < n)) /\ Includes(Lt(s, r), Truth(n < m))
  BY <1>2, NoneAssumption DEF Lt, Bool, True, False, R, Includes, Truth
<1>5. Truth(m >= n) = Truth(n <= m) /\ Truth(m > n) = Truth(n < m)
  BY DEF Truth
<1> QED BY <1>3, <1>4, <1>5 DEF Ge, Gt

\* make_le, make_lt, make_ge and make_gt: a branch loses no value that can
\* take it.
THEOREM NarrowingSound ==
  ASSUME NEW r \in RangeType, NEW s \in RangeType,
         NEW m \in Int, NEW n \in Int, Includes(r, m), Includes(s, n)
  PROVE  /\ m <= n => Includes(MakeLe(r, s), m)
         /\ m < n => Includes(MakeLt(r, s), m)
         /\ m >= n => Includes(MakeGe(r, s), m)
         /\ m > n => Includes(MakeGt(r, s), m)
<1>1. /\ r.low \in Bound /\ r.high \in Bound
      /\ s.low \in Bound /\ s.high \in Bound
  BY DEF RangeType
<1>2. m <= n => Includes(MakeLe(r, s), m)
  BY <1>1, NoneAssumption DEF MakeLe, MakeLeConst, R, Includes, Bound
<1>3. m < n => Includes(MakeLt(r, s), m)
  BY <1>1, NoneAssumption DEF MakeLt, MakeLeConst, R, Includes, Bound
<1>4. m >= n => Includes(MakeGe(r, s), m)
  BY <1>1, NoneAssumption DEF MakeGe, MakeGeConst, R, Includes, Bound
<1>5. m > n => Includes(MakeGt(r, s), m)
  BY <1>1, NoneAssumption DEF MakeGt, MakeGeConst, R, Includes, Bound
<1> QED BY <1>2, <1>3, <1>4, <1>5

\* The constructor's assertion (absinterp.py:21) cannot fail on a branch
\* whose condition is computed from the ranges that the branch narrows: a
\* comparison that is not decided leaves both operands something either way.
THEOREM UndecidedNarrowsToNonempty ==
  ASSUME NEW r \in RangeType, NEW s \in RangeType, Valid(r), Valid(s)
  PROVE  /\ Le(r, s) = Bool =>
              /\ Valid(MakeLe(r, s)) /\ Valid(MakeGe(s, r))
              /\ Valid(MakeGt(r, s)) /\ Valid(MakeLt(s, r))
         /\ Lt(r, s) = Bool =>
              /\ Valid(MakeLt(r, s)) /\ Valid(MakeGt(s, r))
              /\ Valid(MakeGe(r, s)) /\ Valid(MakeLe(s, r))
<1>1. /\ r.low \in Bound /\ r.high \in Bound
      /\ s.low \in Bound /\ s.high \in Bound
  BY DEF RangeType
<1>2. Le(r, s) = Bool => ~ AtMost(r, s) /\ ~ Below(s, r)
  BY DEF Le, Bool, True, False, R
<1>3. Lt(r, s) = Bool => ~ Below(r, s) /\ ~ AtMost(s, r)
  BY DEF Lt, Bool, True, False, R
<1>4. ~ Below(s, r) => Valid(MakeLe(r, s)) /\ Valid(MakeGe(s, r))
  BY <1>1, NoneAssumption
  DEF Below, MakeLe, MakeLeConst, MakeGe, MakeGeConst, R, Valid, IsBounded,
      Bound
<1>5. ~ AtMost(r, s) => Valid(MakeGt(r, s)) /\ Valid(MakeLt(s, r))
  BY <1>1, NoneAssumption
  DEF AtMost, MakeGt, MakeGeConst, MakeLt, MakeLeConst, R, Valid, IsBounded,
      Bound
<1>6. ~ AtMost(s, r) => Valid(MakeLt(r, s)) /\ Valid(MakeGt(s, r))
  BY <1>1, NoneAssumption
  DEF AtMost, MakeGt, MakeGeConst, MakeLt, MakeLeConst, R, Valid, IsBounded,
      Bound
<1>7. ~ Below(r, s) => Valid(MakeGe(r, s)) /\ Valid(MakeLe(s, r))
  BY <1>1, NoneAssumption
  DEF Below, MakeLe, MakeLeConst, MakeGe, MakeGeConst, R, Valid, IsBounded,
      Bound
<1> QED BY <1>2, <1>3, <1>4, <1>5, <1>6, <1>7

-----------------------------------------------------------------------------
(***************************************************************************)
(* Products and quotients.                                                 *)
(***************************************************************************)

\* A number is in the hull of four numbers if it lies between two of them.
LEMMA InHull ==
  ASSUME NEW a \in Int, NEW b \in Int, NEW c \in Int, NEW d \in Int,
         NEW n \in Int,
         a <= n \/ b <= n \/ c <= n \/ d <= n,
         n <= a \/ n <= b \/ n <= c \/ n <= d
  PROVE  Includes(Hull(a, b, c, d), n)
BY NoneAssumption DEF Includes, Hull, R, Smaller, Larger

\* Range.mul: products.
THEOREM MulSound ==
  ASSUME NEW r \in RangeType, NEW s \in RangeType,
         NEW m \in Int, NEW n \in Int, Includes(r, m), Includes(s, n)
  PROVE  Includes(Mul(r, s), m * n)
<1>1. /\ r.low \in Bound /\ r.high \in Bound
      /\ s.low \in Bound /\ s.high \in Bound
  BY DEF RangeType
<1>2. CASE IsBounded(r) /\ IsBounded(s)
  <2>1. /\ r.low \in Int /\ r.high \in Int /\ s.low \in Int /\ s.high \in Int
        /\ r.low <= m /\ m <= r.high /\ s.low <= n /\ n <= s.high
    BY <1>1, <1>2, NoneAssumption DEF IsBounded, Includes, Bound
  <2>2. \/ r.low * n <= m * n /\ m * n <= r.high * n
        \/ r.high * n <= m * n /\ m * n <= r.low * n
    BY <2>1, ProductMonotone
  <2>3. \/ r.low * s.low <= r.low * n /\ r.low * n <= r.low * s.high
        \/ r.low * s.high <= r.low * n /\ r.low * n <= r.low * s.low
    BY <2>1, ProductMonotone
  <2>4. \/ r.high * s.low <= r.high * n /\ r.high * n <= r.high * s.high
        \/ r.high * s.high <= r.high * n /\ r.high * n <= r.high * s.low
    BY <2>1, ProductMonotone
  <2>5. /\ r.low * s.low \in Int /\ r.high * s.low \in Int
        /\ r.low * s.high \in Int /\ r.high * s.high \in Int
        /\ m * n \in Int /\ r.low * n \in Int /\ r.high * n \in Int
    BY <2>1
  <2> DEFINE a == r.low * s.low
             b == r.high * s.low
             c == r.low * s.high
             d == r.high * s.high
             p == m * n
             x == r.low * n
             y == r.high * n
  <2>6. /\ (x <= p /\ p <= y) \/ (y <= p /\ p <= x)
        /\ (a <= x /\ x <= c) \/ (c <= x /\ x <= a)
        /\ (b <= y /\ y <= d) \/ (d <= y /\ y <= b)
    BY <2>2, <2>3, <2>4
  <2>7. /\ a \in Int /\ b \in Int /\ c \in Int /\ d \in Int /\ p \in Int
        /\ x \in Int /\ y \in Int
    BY <2>5
  <2> HIDE DEF a, b, c, d, p, x, y
  <2>8. /\ a <= p \/ b <= p \/ c <= p \/ d <= p
        /\ p <= a \/ p <= b \/ p <= c \/ p <= d
    BY <2>6, <2>7
  <2>9. Includes(Hull(a, b, c, d), p)
    BY <2>7, <2>8, InHull
  <2>10. Includes(Hull(r.low * s.low, r.high * s.low, r.low * s.high,
                       r.high * s.high), m * n)
    BY <2>9 DEF a, b, c, d, p
  <2> QED BY <2>10, <1>2 DEF Mul
<1>3. CASE ~ (IsBounded(r) /\ IsBounded(s))
  <2>1. CASE r.low # None /\ s.low # None /\ r.low >= 0 /\ s.low >= 0
    <3>1. /\ r.low \in Int /\ s.low \in Int /\ r.low <= m /\ s.low <= n
          /\ 0 <= r.low /\ 0 <= s.low /\ 0 <= n
      BY <1>1, <2>1, NoneAssumption DEF Includes, Bound
    <3>2. r.low * n <= m * n /\ r.low * s.low <= r.low * n
      BY <3>1, ProductMonotone
    <3>3. r.low * s.low \in Int /\ r.low * n \in Int /\ m * n \in Int
      BY <3>1
    <3>4. r.low * s.low <= m * n
      BY <3>2, <3>3
    <3>5. Mul(r, s) = R(r.low * s.low, None)
      BY <1>3, <2>1 DEF Mul
    <3> QED BY <3>3, <3>4, <3>5, NoneAssumption DEF R, Includes
  <2>2. CASE /\ ~ (r.low # None /\ s.low # None /\ r.low >= 0 /\ s.low >= 0)
             /\ r.high # None /\ s.high # None /\ r.high < 0 /\ s.high < 0
    <3>1. /\ r.high \in Int /\ s.high \in Int /\ m <= r.high /\ n <= s.high
          /\ r.high <= 0 /\ s.high <= 0 /\ n <= 0
      BY <1>1, <2>2, NoneAssumption DEF Includes, Bound
    <3>2. r.high * n <= m * n /\ r.high * s.high <= r.high * n
      BY <3>1, ProductMonotone
    <3>3. r.high * s.high \in Int /\ r.high * n \in Int /\ m * n \in Int
      BY <3>1
    <3>4. r.high * s.high <= m * n
      BY <3>2, <3>3
    <3>5. Mul(r, s) = R(r.high * s.high, None)
      BY <1>3, <2>2 DEF Mul
    <3> QED BY <3>3, <3>4, <3>5, NoneAssumption DEF R, Includes
  <2>3. CASE /\ ~ (r.low # None /\ s.low # None /\ r.low >= 0 /\ s.low >= 0)
             /\ ~ (r.high # None /\ s.high # None /\ r.high < 0 /\ s.high < 0)
    <3>1. Mul(r, s) = Unbounded
      BY <1>3, <2>3 DEF Mul
    <3> QED BY <3>1 DEF Unbounded, R, Includes
  <2> QED BY <2>1, <2>2, <2>3
<1> QED BY <1>2, <1>3

LEMMA TruncDivInteger ==
  ASSUME NEW a \in Int, NEW n \in Int, n >= 1
  PROVE  TruncDiv(a, n) \in Int
BY DEF TruncDiv

\* Truncating division: monotone in the dividend, towards 0 in the divisor.
LEMMA TruncDivMonotone ==
  ASSUME NEW a \in Int, NEW b \in Int, NEW n \in Int, n >= 1, a <= b
  PROVE  TruncDiv(a, n) <= TruncDiv(b, n)
<1>1. TruncDiv(a, n) \in Int /\ TruncDiv(b, n) \in Int
  BY TruncDivInteger
<1>2. CASE a >= 0
  BY <1>2, QuotientMonotone DEF TruncDiv
<1>3. CASE b < 0
  <2>1. (-b) \div n <= (-a) \div n
    BY QuotientMonotone
  <2>2. (-b) \div n \in Int /\ (-a) \div n \in Int
    OBVIOUS
  <2>3. TruncDiv(a, n) = -((-a) \div n) /\ TruncDiv(b, n) = -((-b) \div n)
    BY <1>3 DEF TruncDiv
  <2> QED BY <1>1, <2>1, <2>2, <2>3
<1>4. CASE a < 0 /\ b >= 0
  <2>1. 0 <= (-a) \div n /\ 0 <= b \div n
    BY <1>4, QuotientAntitone
  <2>2. b \div n \in Int /\ (-a) \div n \in Int
    OBVIOUS
  <2>3. TruncDiv(a, n) = -((-a) \div n) /\ TruncDiv(b, n) = b \div n
    BY <1>4 DEF TruncDiv
  <2> QED BY <1>1, <2>1, <2>2, <2>3
<1> QED BY <1>1, <1>2, <1>3, <1>4

LEMMA TruncDivTowardsZero ==
  ASSUME NEW a \in Int, NEW n \in Int, NEW k \in Int, 1 <= n, n <= k
  PROVE  /\ a >= 0 => /\ 0 <= TruncDiv(a, k)
                      /\ TruncDiv(a, k) <= TruncDiv(a, n)
                      /\ TruncDiv(a, n) <= a
         /\ a <= 0 => /\ a <= TruncDiv(a, n)
                      /\ TruncDiv(a, n) <= TruncDiv(a, k)
                      /\ TruncDiv(a, k) <= 0
<1>1. CASE a >= 0
  <2> a \in Nat
    BY <1>1
  <2>1. 0 <= a \div k /\ a \div k <= a \div n /\ a \div n <= a
    BY QuotientAntitone
  <2>2. CASE a = 0
    <3>1. a \div n = 0 /\ a \div k = 0
      BY <2>1, <2>2, Quotient
    <3> QED BY <2>2, <3>1 DEF TruncDiv
  <2>3. CASE a > 0
    BY <2>1, <2>3 DEF TruncDiv
  <2> QED BY <1>1, <2>2, <2>3
<1>2. CASE a < 0
  <2> -a \in Nat
    BY <1>2
  <2>1. /\ 0 <= (-a) \div k /\ (-a) \div k <= (-a) \div n
        /\ (-a) \div n <= -a
    BY QuotientAntitone
  <2>2. (-a) \div k \in Int /\ (-a) \div n \in Int
    OBVIOUS
  <2>3. TruncDiv(a, n) = -((-a) \div n) /\ TruncDiv(a, k) = -((-a) \div k)
    BY <1>2 DEF TruncDiv
  <2> QED BY <1>2, <2>1, <2>2, <2>3
<1> QED BY <1>1, <1>2

\* Range.tdiv: quotients rounded towards zero, by a positive divisor (there
\* is no range for any other).
THEOREM TdivSound ==
  ASSUME NEW r \in RangeType, NEW s \in RangeType,
         NEW m \in Int, NEW n \in Int, Includes(r, m), Includes(s, n), n >= 1
  PROVE  Includes(Tdiv(r, s), TruncDiv(m, n))
<1>1. /\ r.low \in Bound /\ r.high \in Bound
      /\ s.low \in Bound /\ s.high \in Bound
  BY DEF RangeType
<1>2. TruncDiv(m, n) \in Int
  BY TruncDivInteger
<1>3. CASE s.low = None \/ s.low < 1
  BY <1>2, <1>3 DEF Tdiv, Unbounded, R, Includes
<1>4. CASE ~ (s.low = None \/ s.low < 1)
  <2>1. s.low \in Int /\ 1 <= s.low /\ s.low <= n
    BY <1>1, <1>4, NoneAssumption DEF Includes, Bound
  <2>2. CASE s.high # None /\ IsBounded(r)
    <3>1. /\ s.high \in Int /\ n <= s.high /\ r.low \in Int /\ r.high \in Int
          /\ r.low <= m /\ m <= r.high
      BY <1>1, <2>2, NoneAssumption DEF IsBounded, Includes, Bound
    <3> DEFINE a == TruncDiv(r.low, s.low)
               b == TruncDiv(r.high, s.low)
               c == TruncDiv(r.low, s.high)
               d == TruncDiv(r.high, s.high)
               q == TruncDiv(m, n)
               x == TruncDiv(r.low, n)
               y == TruncDiv(r.high, n)
    <3>2. s.high >= 1
      BY <2>1, <3>1
    <3>3. /\ a \in Int /\ b \in Int /\ c \in Int /\ d \in Int /\ q \in Int
          /\ x \in Int /\ y \in Int
      BY <2>1, <3>1, <3>2, TruncDivInteger
    <3>4. x <= q /\ q <= y
      BY <3>1, TruncDivMonotone
    <3>5. (a <= x /\ x <= c) \/ (c <= x /\ x <= a)
      BY <2>1, <3>1, <3>2, TruncDivTowardsZero
    <3>6. (b <= y /\ y <= d) \/ (d <= y /\ y <= b)
      BY <2>1, <3>1, <3>2, TruncDivTowardsZero
    <3> HIDE DEF a, b, c, d, q, x, y
    <3>7. /\ a <= q \/ b <= q \/ c <= q \/ d <= q
          /\ q <= a \/ q <= b \/ q <= c \/ q <= d
      BY <3>3, <3>4, <3>5, <3>6
    <3>8. Includes(Hull(a, b, c, d), q)
      BY <3>3, <3>7, InHull
    <3>9. Tdiv(r, s) = Hull(a, b, c, d)
      BY <1>4, <2>2 DEF Tdiv, a, b, c, d
    <3> QED BY <3>8, <3>9 DEF q
  <2>3. CASE ~ (s.high # None /\ IsBounded(r)) /\ r.low # None /\ r.low >= 0
    <3>1. r.low \in Int /\ r.low <= m /\ m >= 0
      BY <1>1, <2>3, NoneAssumption DEF Includes, Bound
    <3>2. 0 <= TruncDiv(m, n) /\ TruncDiv(m, n) <= m
      BY <3>1, TruncDivTowardsZero
    <3>3. Tdiv(r, s) = R(0, r.high)
      BY <1>4, <2>3 DEF Tdiv
    <3>4. r.high # None => r.high \in Int /\ m <= r.high
      BY <1>1, NoneAssumption DEF Includes, Bound
    <3> QED BY <1>2, <3>2, <3>3, <3>4 DEF R, Includes
  <2>4. CASE /\ ~ (s.high # None /\ IsBounded(r))
             /\ ~ (r.low # None /\ r.low >= 0)
             /\ r.high # None /\ r.high <= 0
    <3>1. r.high \in Int /\ m <= r.high /\ m <= 0
      BY <1>1, <2>4, NoneAssumption DEF Includes, Bound
    <3>2. TruncDiv(m, n) <= 0 /\ m <= TruncDiv(m, n)
      BY <3>1, TruncDivTowardsZero
    <3>3. Tdiv(r, s) = R(r.low, 0)
      BY <1>4, <2>4 DEF Tdiv
    <3>4. r.low # None => r.low \in Int /\ r.low <= m
      BY <1>1, NoneAssumption DEF Includes, Bound
    <3> QED BY <1>2, <3>2, <3>3, <3>4 DEF R, Includes
  <2>5. CASE /\ ~ (s.high # None /\ IsBounded(r))
             /\ ~ (r.low # None /\ r.low >= 0)
             /\ ~ (r.high # None /\ r.high <= 0)
    BY <1>4, <2>5 DEF Tdiv, Unbounded, R, Includes
  <2> QED BY <2>2, <2>3, <2>4, <2>5
<1> QED BY <1>3, <1>4

-----------------------------------------------------------------------------
(***************************************************************************)
(* Quotients rounded down, and shifts.                                     *)
(***************************************************************************)

\* Range.ediv: quotients of numbers that are not negative, by a positive
\* divisor (there is no range for any other).
THEOREM EdivSound ==
  ASSUME NEW r \in RangeType, NEW s \in RangeType,
         NEW m \in Int, NEW n \in Int, Includes(r, m), Includes(s, n), n # 0
  PROVE  Includes(Ediv(r, s), EuclidDivide(m, n))
<1>1. /\ r.low \in Bound /\ r.high \in Bound
      /\ s.low \in Bound /\ s.high \in Bound
  BY DEF RangeType
<1>2. CASE s.low # None /\ s.low >= 1 /\ r.low # None /\ r.low >= 0
  <2>1. m \in Nat /\ n >= 1
    BY <1>1, <1>2, NoneAssumption DEF Includes, Bound
  <2>2. 0 <= m \div n /\ m \div n <= m /\ m \div n \in Int
    BY <2>1, QuotientAntitone
  <2>3. Ediv(r, s) = R(0, r.high) /\ EuclidDivide(m, n) = m \div n
    BY <1>2, <2>1 DEF Ediv, EuclidDivide
  <2>4. r.high # None => r.high \in Int /\ m <= r.high
    BY <1>1, NoneAssumption DEF Includes, Bound
  <2> QED  BY <2>1, <2>2, <2>3, <2>4 DEF R, Includes
<1>3. CASE ~ (s.low # None /\ s.low >= 1 /\ r.low # None /\ r.low >= 0)
  BY <1>3 DEF Ediv, Unbounded, R, Includes
<1> QED  BY <1>2, <1>3

\* Range.tdiv for every divisor that does not raise.
LEMMA TruncDivideSound ==
  ASSUME NEW r \in RangeType, NEW s \in RangeType,
         NEW m \in Int, NEW n \in Int, Includes(r, m), Includes(s, n), n # 0
  PROVE  Includes(Tdiv(r, s), TruncDivide(m, n))
<1>1. CASE n >= 1
  BY <1>1, TdivSound DEF TruncDivide
<1>2. CASE n < 1
  <2>1. s.low = None \/ s.low < 1
    BY <1>2, NoneAssumption DEF Includes, RangeType, Bound
  <2> QED  BY <2>1 DEF Tdiv, Unbounded, R, Includes
<1> QED  BY <1>1, <1>2

\* Range.rshift: quotients by powers of two, rounded down.
THEOREM RshiftSound ==
  ASSUME NEW r \in RangeType, NEW s \in RangeType,
         NEW m \in Int, NEW n \in Nat, Includes(r, m), Includes(s, n)
  PROVE  Includes(Rshift(r, s), ShiftRight(m, n))
<1>1. /\ r.low \in Bound /\ r.high \in Bound
      /\ s.low \in Bound /\ s.high \in Bound
  BY DEF RangeType
<1> DEFINE bounded == /\ IsBounded(r) /\ IsBounded(s)
                      /\ 0 <= s.low /\ s.high <= MaxInt
<1>2. CASE bounded
  <2>1. /\ r.low \in Int /\ r.high \in Int /\ r.low <= m /\ m <= r.high
        /\ s.low \in Nat /\ s.high \in Nat /\ s.low <= n /\ n <= s.high
    BY <1>1, <1>2, NoneAssumption DEF IsBounded, Includes, Bound
  <2> DEFINE k == Pow2[n]
             k1 == Pow2[s.low]
             k2 == Pow2[s.high]
             a == r.low \div k1
             b == r.high \div k1
             c == r.low \div k2
             d == r.high \div k2
             q == m \div k
             x == r.low \div k
             y == r.high \div k
  <2>2. /\ k \in Nat /\ k1 \in Nat /\ k2 \in Nat
        /\ 1 <= k1 /\ k1 <= k /\ k <= k2 /\ 1 <= k
    BY <2>1, Pow2Monotone
  <2>3. Rshift(r, s) = Hull(a, b, c, d) /\ ShiftRight(m, n) = q
    BY <1>2 DEF Rshift, ShiftRight
  <2> HIDE DEF k, k1, k2
  <2>4. /\ a \in Int /\ b \in Int /\ c \in Int /\ d \in Int /\ q \in Int
        /\ x \in Int /\ y \in Int
    BY <2>1, <2>2, Quotient
  <2>5. x <= q /\ q <= y
    BY <2>1, <2>2, QuotientMonotone
  <2>6. (a <= x /\ x <= c) \/ (c <= x /\ x <= a)
    BY <2>1, <2>2, QuotientOneWay
  <2>7. (b <= y /\ y <= d) \/ (d <= y /\ y <= b)
    BY <2>1, <2>2, QuotientOneWay
  <2> HIDE DEF a, b, c, d, q, x, y
  <2>8. /\ a <= q \/ b <= q \/ c <= q \/ d <= q
        /\ q <= a \/ q <= b \/ q <= c \/ q <= d
    BY <2>4, <2>5, <2>6, <2>7
  <2> QED  BY <2>3, <2>4, <2>8, InHull
<1>3. CASE ~ bounded
  BY <1>3 DEF Rshift, Unbounded, R, Includes
<1> QED  BY <1>2, <1>3

\* Range.lshift: products with powers of two.
THEOREM LshiftSound ==
  ASSUME NEW r \in RangeType, NEW s \in RangeType,
         NEW m \in Int, NEW n \in Nat, Includes(r, m), Includes(s, n)
  PROVE  Includes(Lshift(r, s), ShiftLeft(m, n))
<1>1. /\ r.low \in Bound /\ r.high \in Bound
      /\ s.low \in Bound /\ s.high \in Bound
  BY DEF RangeType
<1>2. Pow2[n] \in Nat /\ Pow2[n] >= 1 /\ m * Pow2[n] \in Int
  BY Pow2Monotone
<1> DEFINE bounded == /\ IsBounded(r) /\ IsBounded(s)
                      /\ 0 <= s.low /\ s.high <= MaxShift
           positive == r.low # None /\ r.low >= 0 /\ s.low # None
<1>3. CASE bounded
  <2>1. /\ s.low \in Nat /\ s.high \in Nat /\ s.low <= n /\ n <= s.high
    BY <1>1, <1>3, NoneAssumption DEF IsBounded, Includes, Bound
  <2> DEFINE k1 == Pow2[s.low]
             k2 == Pow2[s.high]
             t == R(k1, k2)
  <2>2. k1 \in Int /\ k2 \in Int /\ k1 <= Pow2[n] /\ Pow2[n] <= k2
    BY <2>1, Pow2Monotone
  <2>3. Lshift(r, s) = Hull(r.low * k1, r.high * k1, r.low * k2, r.high * k2)
    BY <1>3 DEF Lshift, ShiftLeft
  <2> HIDE DEF k1, k2
  <2>4. t \in RangeType /\ Includes(t, Pow2[n]) /\ IsBounded(t)
        /\ t.low = k1 /\ t.high = k2
    BY <1>2, <2>2, NoneAssumption
    DEF R, RangeType, Includes, IsBounded, Bound
  <2>5. Mul(r, t) = Lshift(r, s)
    BY <1>3, <2>3, <2>4 DEF Mul
  <2> HIDE DEF t
  <2>6. Includes(Mul(r, t), m * Pow2[n])
    BY <1>2, <2>4, MulSound
  <2> QED  BY <2>5, <2>6 DEF ShiftLeft
<1>4. CASE ~ bounded /\ positive
  <2>1. r.low \in Nat /\ r.low <= m
    BY <1>1, <1>4, NoneAssumption DEF Includes, Bound
  <2>2. r.low * Pow2[n] <= m * Pow2[n] /\ r.low * Pow2[n] \in Int
    BY <1>2, <2>1, ProductMonotone
  <2>3. CASE s.low \in 0 .. MaxShift
    <3>1. /\ Pow2[s.low] \in Int /\ Pow2[s.low] <= Pow2[n]
          /\ r.low * Pow2[s.low] \in Int
      <4>1. s.low \in Nat /\ s.low <= n
        BY <1>4, <2>3, NoneAssumption DEF Includes
      <4> QED  BY <2>1, <4>1, Pow2Monotone
    <3>2. r.low * Pow2[s.low] <= r.low * Pow2[n]
      BY <1>2, <2>1, <3>1, ProductMonotone
    <3>3. Lshift(r, s) = R(r.low * Pow2[s.low], None)
      BY <1>4, <2>3 DEF Lshift, ShiftLeft
    <3>4. r.low * Pow2[s.low] <= m * Pow2[n]
      BY <1>2, <2>2, <3>1, <3>2
    <3> QED  BY <3>3, <3>4 DEF ShiftLeft, R, Includes
  <2>4. CASE s.low \notin 0 .. MaxShift
    <3>1. r.low * 1 <= r.low * Pow2[n]
      BY <1>2, <2>1, ProductMonotone
    <3>2. r.low <= m * Pow2[n]
      BY <1>2, <2>1, <2>2, <3>1
    <3>3. Lshift(r, s) = R(r.low, None)
      BY <1>4, <2>4 DEF Lshift
    <3> QED  BY <3>2, <3>3 DEF ShiftLeft, R, Includes
  <2> QED  BY <2>3, <2>4
<1>5. CASE ~ bounded /\ ~ positive
  BY <1>5 DEF Lshift, Unbounded, R, Includes
<1> QED  BY <1>3, <1>4, <1>5

\* int_to_int64: what is left of a range when the conversion does not raise.
THEOREM ToMachineIntSound ==
  ASSUME NEW r \in RangeType, NEW n \in MinInt .. MaxInt, Includes(r, n)
  PROVE  Includes(ToMachineInt(r), n)
<1>1. n \in Int /\ MinInt \in Int /\ MaxInt \in Int
  BY MaxIntAssumption DEF MinInt
<1> QED  BY <1>1, NoneAssumption DEF ToMachineInt, R, Includes, RangeType, Bound

-----------------------------------------------------------------------------
(***************************************************************************)
(* Every operation on ranges makes a range.                                *)
(***************************************************************************)

LEMMA RIsRange ==
  ASSUME NEW m \in Bound, NEW n \in Bound
  PROVE  R(m, n) \in RangeType
BY DEF R, RangeType

LEMMA ConstantRanges ==
  /\ Unbounded \in RangeType /\ MachineInt \in RangeType
  /\ Bool \in RangeType /\ True \in RangeType /\ False \in RangeType
  /\ \A n \in Int : Const(n) \in RangeType
BY MaxIntAssumption
DEF Unbounded, MachineInt, MinInt, Bool, True, False, Const, R, RangeType, Bound

LEMMA HullIsRange ==
  ASSUME NEW a \in Int, NEW b \in Int, NEW c \in Int, NEW d \in Int
  PROVE  Hull(a, b, c, d) \in RangeType
BY DEF Hull, Smaller, Larger, R, RangeType, Bound

LEMMA ArithmeticIsRange ==
  ASSUME NEW r \in RangeType, NEW s \in RangeType, Valid(s)
  PROVE  /\ Add(r, s) \in RangeType /\ Sub(r, s) \in RangeType
         /\ Mul(r, s) \in RangeType
         /\ Tdiv(r, s) \in RangeType /\ Ediv(r, s) \in RangeType
         /\ Lshift(r, s) \in RangeType /\ Rshift(r, s) \in RangeType
<1>1. /\ r.low \in Bound /\ r.high \in Bound
      /\ s.low \in Bound /\ s.high \in Bound
  BY DEF RangeType
<1>2. Add(r, s) \in RangeType /\ Sub(r, s) \in RangeType
  BY <1>1, NoneAssumption DEF Add, Sub, Neg, R, RangeType, Bound
<1>3. Mul(r, s) \in RangeType
  <2>1. CASE IsBounded(r) /\ IsBounded(s)
    <3>1. /\ r.low \in Int /\ s.low \in Int /\ r.high \in Int /\ s.high \in Int
      BY <1>1, <2>1 DEF IsBounded, Bound
    <3>2. /\ r.low * s.low \in Int /\ r.high * s.low \in Int
          /\ r.low * s.high \in Int /\ r.high * s.high \in Int
      BY <3>1
    <3> QED  BY <2>1, <3>2, HullIsRange DEF Mul
  <2>2. CASE ~ (IsBounded(r) /\ IsBounded(s))
    <3>1. /\ r.low # None /\ s.low # None => r.low * s.low \in Bound
          /\ r.high # None /\ s.high # None => r.high * s.high \in Bound
      BY <1>1 DEF Bound
    <3> QED  BY <2>2, <3>1 DEF Mul, Unbounded, R, RangeType, Bound
  <2> QED  BY <2>1, <2>2
<1>4. Tdiv(r, s) \in RangeType
  <2>1. CASE s.low = None \/ s.low < 1
    BY <2>1, ConstantRanges DEF Tdiv
  <2>2. CASE ~ (s.low = None \/ s.low < 1) /\ s.high # None /\ IsBounded(r)
    <3>1. /\ r.low \in Int /\ s.low \in Int /\ s.low >= 1
          /\ r.high \in Int /\ s.high \in Int /\ s.high >= 1
      BY <1>1, <2>2 DEF IsBounded, Bound, Valid
    <3>2. /\ TruncDiv(r.low, s.low) \in Int /\ TruncDiv(r.high, s.low) \in Int
          /\ TruncDiv(r.low, s.high) \in Int
          /\ TruncDiv(r.high, s.high) \in Int
      BY <3>1, TruncDivInteger
    <3> QED  BY <2>2, <3>2, HullIsRange DEF Tdiv
  <2>3. CASE /\ ~ (s.low = None \/ s.low < 1)
             /\ ~ (s.high # None /\ IsBounded(r))
    <3>1. /\ R(0, r.high) \in RangeType /\ R(r.low, 0) \in RangeType
          /\ Unbounded \in RangeType
      BY <1>1, ConstantRanges DEF R, RangeType, Bound
    <3> QED  BY <2>3, <3>1 DEF Tdiv
  <2> QED  BY <2>1, <2>2, <2>3
<1>5. Ediv(r, s) \in RangeType
  BY <1>1 DEF Ediv, Unbounded, R, RangeType, Bound
<1>6. Lshift(r, s) \in RangeType
  <2>1. CASE /\ IsBounded(r) /\ IsBounded(s)
             /\ 0 <= s.low /\ s.high <= MaxShift
    <3>1. /\ r.low \in Int /\ r.high \in Int /\ s.low \in Nat /\ s.high \in Nat
      BY <1>1, <2>1 DEF IsBounded, Bound, Valid
    <3>2. Pow2[s.low] \in Int /\ Pow2[s.high] \in Int
      BY <3>1, Pow2Unfold
    <3>3. /\ ShiftLeft(r.low, s.low) \in Int /\ ShiftLeft(r.high, s.low) \in Int
          /\ ShiftLeft(r.low, s.high) \in Int
          /\ ShiftLeft(r.high, s.high) \in Int
      BY <3>1, <3>2 DEF ShiftLeft
    <3> QED  BY <2>1, <3>3, HullIsRange DEF Lshift
  <2>2. CASE /\ ~ (/\ IsBounded(r) /\ IsBounded(s)
                   /\ 0 <= s.low /\ s.high <= MaxShift)
             /\ r.low # None /\ r.low >= 0 /\ s.low # None
    <3>1. r.low \in Int
      BY <1>1, <2>2 DEF Bound
    <3>2. s.low \in 0 .. MaxShift => ShiftLeft(r.low, s.low) \in Int
      BY <3>1, Pow2Unfold DEF ShiftLeft
    <3>3. (IF s.low \in 0 .. MaxShift THEN ShiftLeft(r.low, s.low) ELSE r.low)
            \in Bound
      BY <3>1, <3>2 DEF Bound
    <3> QED  BY <2>2, <3>3, RIsRange DEF Lshift, Bound
  <2>3. CASE /\ ~ (/\ IsBounded(r) /\ IsBounded(s)
                   /\ 0 <= s.low /\ s.high <= MaxShift)
             /\ ~ (r.low # None /\ r.low >= 0 /\ s.low # None)
    BY <2>3, ConstantRanges DEF Lshift
  <2> QED  BY <2>1, <2>2, <2>3
<1>7. Rshift(r, s) \in RangeType
  <2>1. CASE /\ IsBounded(r) /\ IsBounded(s)
             /\ 0 <= s.low /\ s.high <= MaxInt
    <3>1. /\ r.low \in Int /\ r.high \in Int /\ s.low \in Nat /\ s.high \in Nat
      BY <1>1, <2>1 DEF IsBounded, Bound, Valid
    <3>2. /\ Pow2[s.low] \in Int /\ Pow2[s.low] >= 1
          /\ Pow2[s.high] \in Int /\ Pow2[s.high] >= 1
      BY <3>1, Pow2Monotone
    <3>3. /\ ShiftRight(r.low, s.low) \in Int
          /\ ShiftRight(r.high, s.low) \in Int
          /\ ShiftRight(r.low, s.high) \in Int
          /\ ShiftRight(r.high, s.high) \in Int
      BY <3>1, <3>2, Quotient DEF ShiftRight
    <3> QED  BY <2>1, <3>3, HullIsRange DEF Rshift
  <2>2. CASE ~ (/\ IsBounded(r) /\ IsBounded(s)
                /\ 0 <= s.low /\ s.high <= MaxInt)
    BY <2>2, ConstantRanges DEF Rshift
  <2> QED  BY <2>1, <2>2
<1> QED  BY <1>2, <1>3, <1>4, <1>5, <1>6, <1>7

LEMMA OtherOperationsAreRanges ==
  ASSUME NEW r \in RangeType, NEW s \in RangeType
  PROVE  /\ Le(r, s) \in RangeType /\ Lt(r, s) \in RangeType
         /\ Ge(r, s) \in RangeType /\ Gt(r, s) \in RangeType
         /\ Union(r, s) \in RangeType
         /\ MakeLe(r, s) \in RangeType /\ MakeLt(r, s) \in RangeType
         /\ MakeGe(r, s) \in RangeType /\ MakeGt(r, s) \in RangeType
         /\ ToMachineInt(r) \in RangeType
<1>1. /\ r.low \in Bound /\ r.high \in Bound
      /\ s.low \in Bound /\ s.high \in Bound
  BY DEF RangeType
<1>2. /\ Le(r, s) \in RangeType /\ Lt(r, s) \in RangeType
      /\ Ge(r, s) \in RangeType /\ Gt(r, s) \in RangeType
  BY ConstantRanges DEF Le, Lt, Ge, Gt
<1>3. Union(r, s) \in RangeType
  BY <1>1 DEF Union, Smaller, Larger, R, RangeType, Bound
<1>4. /\ MakeLe(r, s) \in RangeType /\ MakeLt(r, s) \in RangeType
  BY <1>1 DEF MakeLe, MakeLt, MakeLeConst, R, RangeType, Bound
<1>5. /\ MakeGe(r, s) \in RangeType /\ MakeGt(r, s) \in RangeType
  BY <1>1 DEF MakeGe, MakeGt, MakeGeConst, R, RangeType, Bound
<1>6. ToMachineInt(r) \in RangeType
  BY <1>1, MaxIntAssumption DEF ToMachineInt, MinInt, R, RangeType, Bound
<1> QED  BY <1>2, <1>3, <1>4, <1>5, <1>6

\* The union of ranges that are not empty is not empty.
LEMMA UnionValid ==
  ASSUME NEW r \in RangeType, NEW s \in RangeType, Valid(r), Valid(s)
  PROVE  Valid(Union(r, s))
BY NoneAssumption
DEF Union, Smaller, Larger, R, RangeType, Bound, Valid, IsBounded


-----------------------------------------------------------------------------
(***************************************************************************)
(* Least and greatest elements, and the union of a set of ranges.          *)
(***************************************************************************)

LEMMA LeastValue ==
  ASSUME NEW n \in Nat, NEW f \in [1 .. n + 1 -> Int]
  PROVE  \E i \in 1 .. n + 1 : \A j \in 1 .. n + 1 : f[i] <= f[j]
<1> DEFINE HasLeast(k) ==
             \E i \in 1 .. k + 1 : \A j \in 1 .. k + 1 : f[i] <= f[j]
           S == {k \in Nat : k <= n => HasLeast(k)}
<1>1. 0 \in S
  OBVIOUS
<1>2. ASSUME NEW k \in Nat, k \in S PROVE k + 1 \in S
  <2> SUFFICES ASSUME k + 1 <= n PROVE HasLeast(k + 1)
    OBVIOUS
  <2>1. PICK i \in 1 .. k + 1 : \A j \in 1 .. k + 1 : f[i] <= f[j]
    BY <1>2
  <2>2. f[k + 2] \in Int /\ \A j \in 1 .. k + 1 : f[j] \in Int
    OBVIOUS
  <2>3. CASE f[i] <= f[k + 2]
    <3>1. \A j \in 1 .. (k + 1) + 1 : j \in 1 .. k + 1 \/ j = k + 2
      OBVIOUS
    <3>2. \A j \in 1 .. (k + 1) + 1 : f[i] <= f[j]
      BY <2>1, <2>3, <3>1
    <3> QED  BY <3>2
  <2>4. CASE ~ (f[i] <= f[k + 2])
    <3>1. \A j \in 1 .. (k + 1) + 1 : j \in 1 .. k + 1 \/ j = k + 2
      OBVIOUS
    <3>2. \A j \in 1 .. (k + 1) + 1 : f[k + 2] <= f[j]
      BY <2>1, <2>2, <2>4, <3>1
    <3> QED  BY <3>2
  <2> QED  BY <2>3, <2>4
<1> HIDE DEF S
<1>3. Nat \subseteq S
  BY <1>1, <1>2, Induction
<1>4. n \in S
  BY <1>3
<1> HIDE DEF HasLeast
<1>5. HasLeast(n)
  BY <1>4 DEF S
<1> QED  BY <1>5 DEF HasLeast

\* A set of integers that is finite and not empty has a least and a greatest
\* element.
LEMMA LeastInteger ==
  ASSUME NEW S, S \subseteq Int, S # {}, IsFiniteSet(S)
  PROVE  \E m \in S : \A n \in S : m <= n
<1>1. PICK k \in Nat : ExistsSurjection(1 .. k, S)
  BY FS_NatSurjection
<1>2. PICK f \in [1 .. k -> S] : \A m \in S : \E i \in 1 .. k : f[i] = m
  BY <1>1 DEF ExistsSurjection, Surjection
<1>3. k # 0
  <2>1. PICK m \in S : TRUE
    OBVIOUS
  <2>2. PICK i \in 1 .. k : f[i] = m
    BY <1>2
  <2> QED  BY <2>2
<1>4. k - 1 \in Nat /\ (k - 1) + 1 = k
  BY <1>3
<1>5. f \in [1 .. (k - 1) + 1 -> Int]
  BY <1>2, <1>4
<1>6. \E i \in 1 .. k : \A j \in 1 .. k : f[i] <= f[j]
  <2>1. \E i \in 1 .. (k - 1) + 1 : \A j \in 1 .. (k - 1) + 1 : f[i] <= f[j]
    BY <1>4, <1>5, LeastValue
  <2> QED  BY <1>4, <2>1
<1> QED  BY <1>2, <1>6

LEMMA GreatestInteger ==
  ASSUME NEW S, S \subseteq Int, S # {}, IsFiniteSet(S)
  PROVE  \E m \in S : \A n \in S : n <= m
<1> DEFINE T == {-n : n \in S}
           negate == [n \in S |-> -n]
<1>1. negate \in Surjection(S, T)
  BY DEF Surjection
<1>2. IsFiniteSet(T)
  BY <1>1, FS_Surjection
<1>3. T \subseteq Int /\ T # {}
  <2>1. PICK n \in S : TRUE
    OBVIOUS
  <2>2. -n \in T
    BY <2>1
  <2>3. ASSUME NEW m \in T PROVE m \in Int
    OBVIOUS
  <2> QED  BY <2>2, <2>3
<1> HIDE DEF T, negate
<1>4. PICK m \in T : \A n \in T : m <= n
  BY <1>2, <1>3, LeastInteger
<1>5. PICK k \in S : m = -k
  BY <1>4 DEF T
<1>6. \A n \in S : -n \in T
  BY DEF T
<1> QED  BY <1>4, <1>5, <1>6

\* The union of a set of ranges has the numbers of each of them.
LEMMA UnionAllSound ==
  ASSUME NEW S, S \subseteq RangeType, S # {}, IsFiniteSet(S)
  PROVE  /\ UnionAll(S) \in RangeType
         /\ \A r \in S, n \in Int : Includes(r, n) => Includes(UnionAll(S), n)
<1>1. \A r \in S : r.low \in Bound /\ r.high \in Bound
  BY DEF RangeType
<1> DEFINE lows == {r.low : r \in S}
           highs == {r.high : r \in S}
           least == CHOOSE n \in lows : \A r \in S : n <= r.low
           greatest == CHOOSE n \in highs : \A r \in S : r.high <= n
<1>2. ASSUME \A r \in S : r.low # None
      PROVE  least \in Int /\ \A r \in S : least <= r.low
  <2> DEFINE f == [r \in S |-> r.low]
  <2>1. f \in Surjection(S, lows)
    BY DEF Surjection
  <2>2. IsFiniteSet(lows)
    BY <2>1, FS_Surjection
  <2>3. lows \subseteq Int /\ lows # {}
    BY <1>1, <1>2 DEF Bound
  <2>4. \A r \in S : r.low \in lows
    OBVIOUS
  <2> HIDE DEF lows
  <2>5. \E n \in lows : \A r \in S : n <= r.low
    BY <2>2, <2>3, <2>4, LeastInteger
  <2> QED  BY <2>3, <2>5
<1>3. ASSUME \A r \in S : r.high # None
      PROVE  greatest \in Int /\ \A r \in S : r.high <= greatest
  <2> DEFINE f == [r \in S |-> r.high]
  <2>1. f \in Surjection(S, highs)
    BY DEF Surjection
  <2>2. IsFiniteSet(highs)
    BY <2>1, FS_Surjection
  <2>3. highs \subseteq Int /\ highs # {}
    BY <1>1, <1>3 DEF Bound
  <2>4. \A r \in S : r.high \in highs
    OBVIOUS
  <2> HIDE DEF highs
  <2>5. \E n \in highs : \A r \in S : r.high <= n
    BY <2>2, <2>3, <2>4, GreatestInteger
  <2> QED  BY <2>3, <2>5
<1>4. UnionAll(S) = R(IF \E r \in S : r.low = None THEN None ELSE least,
                      IF \E r \in S : r.high = None THEN None ELSE greatest)
  BY DEF UnionAll
<1> HIDE DEF least, greatest
<1>5. UnionAll(S) \in RangeType
  BY <1>2, <1>3, <1>4 DEF R, RangeType, Bound
<1>6. ASSUME NEW r \in S, NEW n \in Int, Includes(r, n)
      PROVE  Includes(UnionAll(S), n)
  <2>1. UnionAll(S).low # None =>
          /\ UnionAll(S).low = least
          /\ r.low # None /\ r.low \in Int /\ least \in Int /\ least <= r.low
    BY <1>1, <1>2, <1>4 DEF R, Bound
  <2>2. UnionAll(S).high # None =>
          /\ UnionAll(S).high = greatest /\ r.high # None
          /\ r.high \in Int /\ greatest \in Int /\ r.high <= greatest
    BY <1>1, <1>3, <1>4 DEF R, Bound
  <2> QED  BY <1>6, <2>1, <2>2 DEF Includes
<1> QED  BY <1>5, <1>6

-----------------------------------------------------------------------------
(***************************************************************************)
(* The analysis and the run.                                               *)
(***************************************************************************)

\* m gives a range to each of its names
IsRanges(m) ==
  \A name \in DOMAIN m : m[name] \in RangeType /\ Valid(m[name])

\* the range s has all numbers of the range r
Covers(s, r) == \A n \in Int : Includes(r, n) => Includes(s, n)

\* what m says holds if what strong says holds
Weaker(strong, m) ==
  \A name \in DOMAIN strong :
    name \in DOMAIN m /\ Covers(m[name], strong[name])

Last(b) == Len(Ops(b)) + 1

\* the analysis has passed operation n of block b, or its link
Seen(b, n) ==
  /\ b \in DOMAIN values
  /\ n \in 1 .. Last(b)
  /\ phase = "analyze" => b < block \/ (b = block /\ n < index)

\* the analysis has left block b
Done(b) == b \in DOMAIN values /\ (phase = "analyze" => b < block)

\* the ranges before operation n of block b, which the analysis may not have
\* reached yet
At(b, n) == IF Seen(b, n) THEN known[<<b, n>>] ELSE values[b]

TypeInv ==
  /\ graph \in GraphSet
  /\ phase \in {"analyze", "run", "returned", "raised"}
  /\ block \in Nat \ {0}
  /\ index \in Nat \ {0}
  /\ phase = "analyze" =>
       index = 1 \/ (block \in DOMAIN values /\ index \in 1 .. Last(block))
  /\ phase # "analyze" => block \in Blocks
  /\ Start \in DOMAIN values
  /\ DOMAIN values \subseteq Blocks
  /\ \A b \in DOMAIN values : IsRanges(values[b])
  /\ \A b \in Nat, n \in Nat : Seen(b, n) =>
       <<b, n>> \in DOMAIN known /\ IsRanges(known[<<b, n>>])

-----------------------------------------------------------------------------
(***************************************************************************)
(* What the analysis has done.                                             *)
(***************************************************************************)

\* op turns the ranges m into the ranges next
Follows(m, op, next) ==
  IF op.kind = "phi"
  THEN \E r \in RangeType :
         /\ next = Put(m, op.id, r)
         /\ \A i \in DOMAIN op.args :
              \A s \in PhiBounds(op.args[i], op.from[i]) : Covers(r, s)
  ELSE /\ HasOperands(m, op)
       /\ next = Put(Narrowed(op, m), op.id, Transfer(op, m))

\* the way to the target of a branch for truth, taken from the ranges m, is
\* dead, undecided or the only one
BranchFollows(m, name, truth, target) ==
  /\ name \in DOMAIN m
  /\ \/ Decides(m[name], ~ truth)
     \/ target \in DOMAIN values /\ Weaker(m, At(target, 1))
     \/ /\ target \in DOMAIN values
        /\ \A op \in Comparison(name) : HasOperands(m, op)
        /\ Weaker(Branch(m, name, truth), At(target, 1))

LinkFollows(b) ==
  /\ Link(b).kind = "goto" =>
       /\ Link(b).target \in DOMAIN values
       /\ Weaker(values[b], At(Link(b).target, 1))
  /\ Link(b).kind = "if" =>
       \A truth \in BOOLEAN :
         BranchFollows(values[b], Link(b).cond, truth, Target(Link(b), truth))

\* a name of an argument, or computed in block b or before
Upto(b, name) ==
  \/ name \in graph.args
  \/ \E p \in Positions(graph) : OpAt(graph, p).id = name /\ p[1] <= b

ArgumentsKnown ==
  \A name \in graph.args :
    name \in DOMAIN At(Start, 1) /\ At(Start, 1)[name] = Unbounded

OperationsDone ==
  \A b \in Nat, n \in Nat : Seen(b, n) /\ n \in DOMAIN Ops(b) =>
    Follows(known[<<b, n>>], Ops(b)[n], At(b, n + 1))

LinksDone ==
  \A b \in DOMAIN values : Done(b) =>
    known[<<b, Last(b)>>] = values[b] /\ LinkFollows(b)

NamesOrdered ==
  \A b \in DOMAIN values : \A name \in DOMAIN values[b] : Upto(b, name)

AnalysisInv == ArgumentsKnown /\ OperationsDone /\ LinksDone /\ NamesOrdered

-----------------------------------------------------------------------------
(***************************************************************************)
(* The run.                                                                *)
(***************************************************************************)

\* the ranges m hold for the values e
Models(m, e) ==
  \A name \in DOMAIN e : name \in DOMAIN m /\ Includes(m[name], e[name])

\* a name that has been computed in block b before operation n
Fresh(b, n, name) == \E k \in DOMAIN Ops(b) : k < n /\ Ops(b)[k].id = name

\* a name that a run may have computed before operation n of block b
Before(b, n, name) ==
  \/ name \in graph.args
  \/ \E p \in Positions(graph) :
       OpAt(graph, p).id = name /\ (p[1] < b \/ (p[1] = b /\ p[2] < n))

EnvInv ==
  \A name \in DOMAIN env :
    /\ env[name] \in Int
    /\ Before(block, index, name)
    /\ name \in graph.bools => env[name] \in {0, 1}
    /\ \A op \in Comparison(name) :
         HasOperands(env, op) /\ env[name] \in Results(op, env)

FromInv ==
  from # 0 =>
    /\ from \in DOMAIN values
    /\ from < block
    /\ \A name \in DOMAIN env :
         \/ Fresh(block, index, name)
         \/ /\ name \in DOMAIN values[from]
            /\ Includes(values[from][name], env[name])

Running ==
  /\ block \in DOMAIN values
  /\ index \in 1 .. Last(block)
  /\ Models(known[<<block, index>>], env)
  /\ \A n \in DOMAIN Ops(block) : n < index => Ops(block)[n].id \in DOMAIN env
  /\ EnvInv
  /\ FromInv

RunInv ==
  /\ phase = "analyze" => env = <<>> /\ from = 0
  /\ phase = "run" => Running
  /\ RangesSound

\* operation k of block b, or a later one, fails to convert the name if e is its
\* value
FailsAhead(b, k, name, e) ==
  /\ e \notin MinInt .. MaxInt
  /\ \E j \in DOMAIN Ops(b) : k <= j /\ Converts(Ops(b)[j], name)

\* what a block computes keeps the range it is given, but for numbers that a
\* conversion in the rest of the block fails for
StableInv ==
  \A b \in DOMAIN values :
    \A n \in DOMAIN Ops(b) : Seen(b, n) =>
      LET name == Ops(b)[n].id
      IN  /\ name \in DOMAIN values[b]
          /\ \A k \in Nat : n < k /\ Seen(b, k) =>
               \A e \in Int : Includes(known[<<b, k>>][name], e) =>
                 Includes(values[b][name], e) \/ FailsAhead(b, k, name, e)

Inv == phase # "crashed" => TypeInv /\ AnalysisInv /\ RunInv

-----------------------------------------------------------------------------
(***************************************************************************)
(* Dictionaries.                                                           *)
(***************************************************************************)

LEMMA PutFacts ==
  ASSUME NEW f, NEW x, NEW v
  PROVE  /\ \A y : y \in DOMAIN Put(f, x, v) <=> y \in DOMAIN f \/ y = x
         /\ Put(f, x, v)[x] = v
         /\ \A y \in DOMAIN f : y # x => Put(f, x, v)[y] = f[y]
BY DEF Put

LEMMA PutRanges ==
  ASSUME NEW m, IsRanges(m), NEW x, NEW r \in RangeType, Valid(r)
  PROVE  IsRanges(Put(m, x, r))
BY DEF IsRanges, Put

LEMMA CoversTransitive ==
  ASSUME NEW r, NEW s, NEW t, Covers(s, r), Covers(t, s)
  PROVE  Covers(t, r)
BY DEF Covers

LEMMA WeakerTransitive ==
  ASSUME NEW m, NEW k, NEW j, Weaker(m, k), Weaker(k, j)
  PROVE  Weaker(m, j)
BY CoversTransitive DEF Weaker

LEMMA UnionCovers ==
  ASSUME NEW r \in RangeType, NEW s \in RangeType
  PROVE  Covers(Union(r, s), r) /\ Covers(Union(r, s), s)
BY UnionSound DEF Covers

\* What _merge_values does to the ranges of the target: they become weaker,
\* and what is new holds as well.
LEMMA MergeFacts ==
  ASSUME NEW result, NEW target, NEW new, IsRanges(new),
         target \in DOMAIN result => IsRanges(result[target])
  PROVE  LET merged == Merge(result, target, new)
         IN  /\ \A b : b \in DOMAIN merged <=>
                  b \in DOMAIN result \/ b = target
             /\ \A b \in DOMAIN result : b # target => merged[b] = result[b]
             /\ IsRanges(merged[target])
             /\ Weaker(new, merged[target])
             /\ target \in DOMAIN result =>
                  Weaker(result[target], merged[target])
             /\ \A name \in DOMAIN merged[target] :
                  \/ name \in DOMAIN new
                  \/ target \in DOMAIN result /\ name \in DOMAIN result[target]
<1> DEFINE old == IF target \in DOMAIN result THEN result[target] ELSE <<>>
           both == [name \in DOMAIN new \union DOMAIN old |->
                      IF name \notin DOMAIN new THEN old[name]
                      ELSE IF name \notin DOMAIN old THEN new[name]
                      ELSE Union(new[name], old[name])]
<1>1. Merge(result, target, new) = Put(result, target, both)
  BY DEF Merge
<1>2. target \notin DOMAIN result => DOMAIN old = {}
  OBVIOUS
<1>3. IsRanges(old)
  BY <1>2 DEF IsRanges
<1>4. target \in DOMAIN result => old = result[target]
  OBVIOUS
<1> HIDE DEF old
<1>5. \A name \in DOMAIN both :
        /\ name \notin DOMAIN new => both[name] = old[name]
        /\ name \notin DOMAIN old => both[name] = new[name]
        /\ name \in DOMAIN new /\ name \in DOMAIN old =>
             both[name] = Union(new[name], old[name])
  OBVIOUS
<1>6. DOMAIN both = DOMAIN new \union DOMAIN old
  OBVIOUS
<1> HIDE DEF both
<1>7. IsRanges(both)
  BY <1>3, <1>5, <1>6, OtherOperationsAreRanges, UnionValid DEF IsRanges
<1>8. Weaker(new, both) /\ Weaker(old, both)
  <2>1. \A r : Covers(r, r)
    BY DEF Covers
  <2> QED  BY <1>3, <1>5, <1>6, <2>1, UnionCovers DEF IsRanges, Weaker
<1> QED  BY <1>1, <1>2, <1>4, <1>6, <1>7, <1>8, PutFacts

-----------------------------------------------------------------------------
(***************************************************************************)
(* The operations make ranges.                                             *)
(***************************************************************************)

LEMMA BoundsTyped ==
  ASSUME NEW m, IsRanges(m), NEW operand, Has(m, operand),
         IsNum(operand) => operand.num \in Int
  PROVE  Bounds(m, operand) \in RangeType /\ Valid(Bounds(m, operand))
<1>1. ASSUME NEW n \in Int PROVE Valid(Const(n)) /\ Const(n) \in RangeType
  <2>1. Const(n).low = n /\ Const(n).high = n
    BY DEF Const, R
  <2> QED  BY <2>1, ConstantRanges DEF Valid
<1> QED  BY <1>1 DEF Bounds, Has, IsRanges

LEMMA TransferTyped ==
  ASSUME NEW m, IsRanges(m), NEW op, OperandsTyped(op), op.kind # "phi",
         HasOperands(m, op)
  PROVE  Transfer(op, m) \in RangeType
<1> DEFINE a == Bounds(m, op.args[1])
           b == Bounds(m, op.args[2])
<1>1. CASE op.kind \in Binary
  <2>1. DOMAIN op.args = {1, 2}
    BY <1>1 DEF OperandsTyped, Binary, Comparisons, Unary, Calls
  <2>2. /\ a \in RangeType /\ Valid(a)
        /\ b \in RangeType /\ Valid(b)
    BY <2>1, BoundsTyped DEF OperandsTyped, HasOperands
  <2> HIDE DEF a, b
  <2>3. /\ Add(a, b) \in RangeType /\ Sub(a, b) \in RangeType
        /\ Mul(a, b) \in RangeType
        /\ Tdiv(a, b) \in RangeType /\ Ediv(a, b) \in RangeType
        /\ Lshift(a, b) \in RangeType /\ Rshift(a, b) \in RangeType
    BY <2>2, ArithmeticIsRange
  <2>4. /\ Le(a, b) \in RangeType /\ Lt(a, b) \in RangeType
        /\ Ge(a, b) \in RangeType /\ Gt(a, b) \in RangeType
        /\ Bool \in RangeType
    BY <2>2, OtherOperationsAreRanges, ConstantRanges
  <2> QED  BY <1>1, <2>3, <2>4
           DEF Transfer, Binary, Comparisons, Unary, Calls, a, b
<1>2. CASE op.kind \in Unary
  <2>1. DOMAIN op.args = {1}
    BY <1>2 DEF OperandsTyped, Binary, Comparisons, Unary, Calls
  <2>2. a \in RangeType /\ Valid(a)
    BY <2>1, BoundsTyped DEF OperandsTyped, HasOperands
  <2>3. Const(1) \in RangeType
    BY ConstantRanges
  <2> HIDE DEF a
  <2>4. Lshift(Const(1), a) \in RangeType /\ ToMachineInt(a) \in RangeType
    BY <2>2, <2>3, ArithmeticIsRange, OtherOperationsAreRanges
  <2> QED  BY <1>2, <2>2, <2>4 DEF Transfer, Unary, Calls, a
<1>3. CASE op.kind \in Calls
  BY <1>3, ConstantRanges DEF Transfer, DefaultRange, Calls
<1> QED  BY <1>1, <1>2, <1>3 DEF OperandsTyped

LEMMA NarrowedTyped ==
  ASSUME NEW m, IsRanges(m), NEW op, HasOperands(m, op), OperandsTyped(op),
         op.kind # "phi"
  PROVE  /\ DOMAIN Narrowed(op, m) = DOMAIN m
         /\ \A name \in DOMAIN m : Narrowed(op, m)[name] \in RangeType
<1>1. CASE op.kind = "int_to_int64" /\ ~ IsNum(op.args[1])
  <2>1. op.args[1].var \in DOMAIN m
    BY <1>1 DEF HasOperands, Has, OperandsTyped, Binary, Comparisons, Calls
  <2>2. ToMachineInt(m[op.args[1].var]) \in RangeType
    BY <2>1, OtherOperationsAreRanges DEF IsRanges
  <2> DEFINE x == op.args[1].var
             v == ToMachineInt(m[x])
  <2>3. Narrowed(op, m) = Put(m, x, v)
    BY <1>1 DEF Narrowed
  <2> HIDE DEF x, v
  <2>4. /\ \A y : y \in DOMAIN Put(m, x, v) <=> y \in DOMAIN m \/ y = x
        /\ Put(m, x, v)[x] = v
        /\ \A y \in DOMAIN m : y # x => Put(m, x, v)[y] = m[y]
    BY PutFacts
  <2>5. x \in DOMAIN m /\ v \in RangeType
    BY <2>1, <2>2 DEF x, v
  <2>6. DOMAIN Put(m, x, v) = DOMAIN m
    BY <2>5 DEF Put
  <2> QED  BY <2>3, <2>4, <2>5, <2>6 DEF IsRanges
<1>2. CASE ~ (op.kind = "int_to_int64" /\ ~ IsNum(op.args[1]))
  BY <1>2 DEF Narrowed, IsRanges
<1> QED  BY <1>1, <1>2

\* m gives a range, which may be empty, to each of its names
Typed(m) == \A name \in DOMAIN m : m[name] \in RangeType

SameNames(m, k) == \A name : name \in DOMAIN k <=> name \in DOMAIN m

LEMMA WithTyped ==
  ASSUME NEW m, Typed(m), NEW operand, Has(m, operand), NEW r \in RangeType
  PROVE  Typed(With(m, operand, r)) /\ SameNames(m, With(m, operand, r))
<1>1. CASE IsNum(operand)
  BY <1>1 DEF With, SameNames
<1>2. CASE ~ IsNum(operand)
  <2>1. With(m, operand, r) = Put(m, operand.var, r)
    BY <1>2 DEF With
  <2>2. operand.var \in DOMAIN m
    BY <1>2 DEF Has
  <2> QED  BY <2>1, <2>2, PutFacts DEF Typed, SameNames
<1> QED  BY <1>1, <1>2

LEMMA WithTwiceTyped ==
  ASSUME NEW m, Typed(m), NEW a, Has(m, a), NEW b, Has(m, b),
         NEW r \in RangeType, NEW s \in RangeType
  PROVE  /\ Typed(With(With(m, a, r), b, s))
         /\ SameNames(m, With(With(m, a, r), b, s))
<1>1. Typed(With(m, a, r)) /\ SameNames(m, With(m, a, r))
  BY WithTyped
<1>2. Has(With(m, a, r), b)
  BY <1>1 DEF Has, SameNames
<1>3. /\ Typed(With(With(m, a, r), b, s))
      /\ SameNames(With(m, a, r), With(With(m, a, r), b, s))
  BY <1>1, <1>2, WithTyped
<1> QED  BY <1>1, <1>3 DEF SameNames

LEMMA NarrowByTyped ==
  ASSUME NEW m, IsRanges(m), NEW op, OperandsTyped(op),
         op.kind \in Comparisons, HasOperands(m, op), NEW truth \in BOOLEAN
  PROVE  /\ Typed(NarrowBy(m, op, truth))
         /\ SameNames(m, NarrowBy(m, op, truth))
<1> DEFINE swapped == op.kind \in {"gteq", "gt"}
           a == IF swapped THEN op.args[2] ELSE op.args[1]
           b == IF swapped THEN op.args[1] ELSE op.args[2]
           ra == Bounds(m, a)
           rb == Bounds(m, b)
           Result(k) == Typed(k) /\ SameNames(m, k)
<1>1. DOMAIN op.args = {1, 2}
  BY DEF OperandsTyped, Comparisons, Binary, Unary, Calls
<1>2. /\ Has(m, a) /\ (IsNum(a) => a.num \in Int)
      /\ Has(m, b) /\ (IsNum(b) => b.num \in Int)
  BY <1>1 DEF HasOperands, OperandsTyped
<1>3. Typed(m)
  BY DEF Typed, IsRanges
<1>4. Result(m)
  BY <1>3 DEF SameNames
<1>5. NarrowBy(m, op, truth) =
        CASE op.kind \in {"lteq", "gteq"} /\ truth ->
               With(With(m, a, MakeLe(ra, rb)), b, MakeGe(rb, ra))
          [] op.kind \in {"lteq", "gteq"} /\ ~ truth ->
               With(With(m, a, MakeGt(ra, rb)), b, MakeLt(rb, ra))
          [] op.kind \in {"lt", "gt"} /\ truth ->
               With(With(m, a, MakeLt(ra, rb)), b, MakeGt(rb, ra))
          [] op.kind \in {"lt", "gt"} /\ ~ truth ->
               With(With(m, a, MakeGe(ra, rb)), b, MakeLe(rb, ra))
          [] op.kind = "eq" /\ truth ->
               IF IsConstant(rb)
               THEN With(IF IsConstant(ra) THEN With(m, b, ra) ELSE m, a, rb)
               ELSE IF IsConstant(ra) THEN With(m, b, ra) ELSE m
          [] OTHER -> m
  BY DEF NarrowBy
<1> HIDE DEF a, b
<1>6. ra \in RangeType /\ rb \in RangeType
  BY <1>2, BoundsTyped
<1> HIDE DEF ra, rb
<1>7. /\ MakeLe(ra, rb) \in RangeType /\ MakeLt(ra, rb) \in RangeType
      /\ MakeGe(ra, rb) \in RangeType /\ MakeGt(ra, rb) \in RangeType
      /\ MakeLe(rb, ra) \in RangeType /\ MakeLt(rb, ra) \in RangeType
      /\ MakeGe(rb, ra) \in RangeType /\ MakeGt(rb, ra) \in RangeType
  BY <1>6, OtherOperationsAreRanges
<1>8. \A r \in RangeType, s \in RangeType :
        Result(With(With(m, a, r), b, s)) /\ Result(With(With(m, b, s), a, r))
  BY <1>2, <1>3, WithTwiceTyped
<1>9. Result(With(m, b, ra)) /\ Result(With(m, a, rb))
  BY <1>2, <1>3, <1>6, WithTyped
<1> HIDE DEF Result
<1>10. Result(NarrowBy(m, op, truth))
  <2>1. CASE truth = TRUE
    BY <2>1, <1>4, <1>5, <1>6, <1>7, <1>8, <1>9 DEF Comparisons
  <2>2. CASE truth = FALSE
    BY <2>2, <1>4, <1>5, <1>6, <1>7, <1>8, <1>9 DEF Comparisons
  <2> QED  BY <2>1, <2>2
<1> QED  BY <1>10 DEF Result

LEMMA BranchTyped ==
  ASSUME NEW m, IsRanges(m), NEW name, name \in DOMAIN m,
         \A op \in Comparison(name) : OperandsTyped(op) /\ HasOperands(m, op),
         NEW truth \in BOOLEAN
  PROVE  /\ Typed(Branch(m, name, truth))
         /\ SameNames(m, Branch(m, name, truth))
<1>1. /\ Typed(Condition(m, name, truth))
      /\ SameNames(m, Condition(m, name, truth))
  <2>1. CASE Comparison(name) = {}
    BY <2>1 DEF Condition, Typed, SameNames, IsRanges
  <2>2. CASE Comparison(name) # {}
    <3> DEFINE op == CHOOSE op \in Comparison(name) : TRUE
    <3>1. op \in Comparison(name)
      BY <2>2
    <3>2. Condition(m, name, truth) = NarrowBy(m, op, truth)
      BY <2>2 DEF Condition
    <3> HIDE DEF op
    <3>3. /\ op.kind \in Comparisons /\ OperandsTyped(op)
          /\ HasOperands(m, op)
      BY <3>1 DEF Comparison
    <3> QED  BY <3>2, <3>3, NarrowByTyped
  <2> QED  BY <2>1, <2>2
<1> DEFINE r == IF truth THEN True ELSE False
<1>2. r \in RangeType
  BY ConstantRanges
<1>3. Branch(m, name, truth) = Put(Condition(m, name, truth), name, r)
  BY DEF Branch
<1> HIDE DEF r
<1> QED  BY <1>1, <1>2, <1>3, PutFacts DEF Typed, SameNames

-----------------------------------------------------------------------------
(***************************************************************************)
(* The graph.                                                              *)
(***************************************************************************)

LEMMA PositionFacts ==
  ASSUME NEW g, NEW b, NEW n
  PROVE  /\ <<b, n>> \in Positions(g) <=>
              b \in DOMAIN g.blocks /\ n \in DOMAIN OpsOf(g, b)
         /\ OpAt(g, <<b, n>>) = OpsOf(g, b)[n]
BY DEF Positions, OpAt

LEMMA BlockFacts ==
  ASSUME graph \in GraphSet
  PROVE  /\ Len(graph.blocks) \in Nat \ {0}
         /\ Blocks = 1 .. Len(graph.blocks)
         /\ \A b \in Blocks :
              /\ Len(Ops(b)) \in Nat
              /\ DOMAIN Ops(b) = 1 .. Len(Ops(b))
              /\ Last(b) \in Nat
              /\ \A n \in DOMAIN Ops(b) : OperandsTyped(Ops(b)[n])
<1>1. WellFormed(graph)
  BY GraphsAssumption
<1>2. /\ Len(graph.blocks) \in Nat \ {0}
      /\ Blocks = 1 .. Len(graph.blocks)
  BY <1>1 DEF WellFormed, Blocks
<1>3. ASSUME NEW b \in Blocks
      PROVE  /\ Len(Ops(b)) \in Nat
             /\ DOMAIN Ops(b) = 1 .. Len(Ops(b))
  BY <1>1 DEF WellFormed, Blocks, Ops
<1>4. ASSUME NEW b \in Blocks, NEW n \in DOMAIN Ops(b)
      PROVE  OperandsTyped(Ops(b)[n])
  <2>1. <<b, n>> \in Positions(graph) /\ OpAt(graph, <<b, n>>) = Ops(b)[n]
    BY PositionFacts DEF Blocks, Ops
  <2>2. \A p \in Positions(graph) : OperandsTyped(OpAt(graph, p))
    BY <1>1 DEF WellFormed
  <2> QED  BY <2>1, <2>2
<1> QED  BY <1>2, <1>3, <1>4 DEF Last

\* Each name is given once.
LEMMA UniqueOperation ==
  ASSUME graph \in GraphSet,
         NEW b \in Blocks, NEW n \in DOMAIN Ops(b),
         NEW c \in Blocks, NEW k \in DOMAIN Ops(c),
         Ops(b)[n].id = Ops(c)[k].id
  PROVE  b = c /\ n = k
<1>1. SingleAssignment(graph)
  BY GraphsAssumption DEF WellFormed
<1>2. /\ <<b, n>> \in Positions(graph) /\ OpAt(graph, <<b, n>>) = Ops(b)[n]
      /\ <<c, k>> \in Positions(graph) /\ OpAt(graph, <<c, k>>) = Ops(c)[k]
  BY PositionFacts DEF Blocks, Ops
<1>3. <<b, n>> = <<c, k>>
  BY <1>1, <1>2 DEF SingleAssignment
<1> QED  BY <1>3

LEMMA NotAnArgument ==
  ASSUME graph \in GraphSet, NEW b \in Blocks, NEW n \in DOMAIN Ops(b)
  PROVE  Ops(b)[n].id \notin graph.args
<1>1. SingleAssignment(graph)
  BY GraphsAssumption DEF WellFormed
<1>2. <<b, n>> \in Positions(graph) /\ OpAt(graph, <<b, n>>) = Ops(b)[n]
  BY PositionFacts DEF Blocks, Ops
<1> QED  BY <1>1, <1>2 DEF SingleAssignment

\* The operation that computes a condition is an operation of the graph.
LEMMA ComparisonFacts ==
  ASSUME graph \in GraphSet, NEW name, NEW op \in Comparison(name)
  PROVE  /\ op.kind \in Comparisons /\ op.id = name /\ OperandsTyped(op)
         /\ \E b \in Blocks : \E n \in DOMAIN Ops(b) : op = Ops(b)[n]
<1>1. PICK p \in Positions(graph) : op = OpAt(graph, p) /\ op.id = name
  BY DEF Comparison, Definition
<1>2. PICK b \in Blocks : \E n \in DOMAIN Ops(b) : p = <<b, n>>
  BY DEF Positions, Blocks, Ops
<1>3. \E n \in DOMAIN Ops(b) : op = Ops(b)[n]
  BY <1>1, <1>2, PositionFacts DEF Ops
<1>4. OperandsTyped(op)
  BY <1>3, BlockFacts
<1> QED  BY <1>1, <1>3, <1>4 DEF Comparison

\* Links lead to later blocks.
LEMMA LinkFacts ==
  ASSUME graph \in GraphSet, NEW b \in Blocks
  PROVE  /\ Link(b).kind = "goto" =>
              Link(b).target \in Blocks /\ b < Link(b).target
         /\ Link(b).kind = "if" =>
              /\ Link(b).cond \in graph.bools
              /\ \A truth \in BOOLEAN :
                   /\ Target(Link(b), truth) \in Blocks
                   /\ b < Target(Link(b), truth)
         /\ Link(b).kind \in {"goto", "if", "return", "raise"}
<1>1. LinksOrdered(graph)
  BY GraphsAssumption DEF WellFormed
<1> QED  BY <1>1 DEF LinksOrdered, Forward, Link, Blocks, Target

\* A phi has the results of blocks that come before.
LEMMA PhiFacts ==
  ASSUME graph \in GraphSet, NEW b \in Blocks, NEW n \in DOMAIN Ops(b),
         Ops(b)[n].kind = "phi", NEW i \in DOMAIN Ops(b)[n].args
  PROVE  /\ Ops(b)[n].from[i] \in Blocks
         /\ Ops(b)[n].from[i] < b
         /\ ~ IsNum(Ops(b)[n].args[i]) =>
              \A k \in DOMAIN Ops(b) : Ops(b)[k].id # Ops(b)[n].args[i].var
<1>1. PhisOrdered(graph)
  BY GraphsAssumption DEF WellFormed
<1>2. <<b, n>> \in Positions(graph) /\ OpAt(graph, <<b, n>>) = Ops(b)[n]
  BY PositionFacts DEF Blocks, Ops
<1>3. <<b, n>>[1] = b
  OBVIOUS
<1> QED  BY <1>1, <1>2, <1>3 DEF PhisOrdered, Blocks, Ops

-----------------------------------------------------------------------------
(***************************************************************************)
(* The links of a block give ranges to later blocks.                       *)
(***************************************************************************)

\* after the links of block b, which has the ranges here, the ranges result
\* have become next
Grows(b, here, result, next) ==
  /\ \A c \in DOMAIN result :
       /\ c \in DOMAIN next
       /\ Weaker(result[c], next[c])
       /\ c <= b => next[c] = result[c]
  /\ \A c \in DOMAIN next :
       /\ c \in DOMAIN result \/ (c \in Blocks /\ b < c)
       /\ IsRanges(next[c])
       /\ \A name \in DOMAIN next[c] :
            \/ name \in DOMAIN here
            \/ c \in DOMAIN result /\ name \in DOMAIN result[c]

LEMMA GrowsReflexive ==
  ASSUME NEW b, NEW here, NEW result, \A c \in DOMAIN result : IsRanges(result[c])
  PROVE  Grows(b, here, result, result)
BY DEF Grows, Weaker, Covers

LEMMA GrowsTransitive ==
  ASSUME NEW b, NEW here, NEW x, NEW y, NEW z,
         Grows(b, here, x, y), Grows(b, here, y, z)
  PROVE  Grows(b, here, x, z)
BY WeakerTransitive DEF Grows

LEMMA MergeGrows ==
  ASSUME graph \in GraphSet, NEW b \in Blocks, NEW here, NEW result,
         \A c \in DOMAIN result : c \in Blocks /\ IsRanges(result[c]),
         NEW target \in Blocks, b < target,
         NEW new, IsRanges(new), SameNames(here, new)
  PROVE  LET next == Merge(result, target, new)
         IN  /\ Grows(b, here, result, next)
             /\ target \in DOMAIN next
             /\ Weaker(new, next[target])
<1> DEFINE next == Merge(result, target, new)
<1>1. /\ \A c : c \in DOMAIN next <=> c \in DOMAIN result \/ c = target
      /\ \A c \in DOMAIN result : c # target => next[c] = result[c]
      /\ IsRanges(next[target])
      /\ Weaker(new, next[target])
      /\ target \in DOMAIN result => Weaker(result[target], next[target])
      /\ \A name \in DOMAIN next[target] :
           \/ name \in DOMAIN new
           \/ target \in DOMAIN result /\ name \in DOMAIN result[target]
  BY MergeFacts
<1> HIDE DEF next
<1>2. ASSUME NEW c \in DOMAIN result
      PROVE  /\ c \in DOMAIN next
             /\ Weaker(result[c], next[c])
             /\ c <= b => next[c] = result[c]
  <2>1. CASE c = target
    <3>1. ~ (c <= b)
      BY <2>1, BlockFacts
    <3> QED  BY <1>1, <2>1, <3>1
  <2>2. CASE c # target
    BY <1>1, <2>2 DEF Weaker, Covers
  <2> QED  BY <2>1, <2>2
<1>3. ASSUME NEW c \in DOMAIN next
      PROVE  /\ c \in DOMAIN result \/ (c \in Blocks /\ b < c)
             /\ IsRanges(next[c])
             /\ \A name \in DOMAIN next[c] :
                  \/ name \in DOMAIN here
                  \/ c \in DOMAIN result /\ name \in DOMAIN result[c]
  BY <1>1 DEF SameNames
<1>4. Grows(b, here, result, next)
  BY <1>2, <1>3 DEF Grows
<1> QED  BY <1>1, <1>4 DEF next

-----------------------------------------------------------------------------
(***************************************************************************)
(* A step of the analysis, which does not fail.                            *)
(***************************************************************************)

\* the analysis goes on to the next operation, or block
Advance ==
  /\ Analyzing
  /\ graph' = graph /\ phase' = "analyze" /\ env' = env /\ from' = from
  /\ Remember
  /\ \/ AtOp /\ block' = block /\ index' = index + 1
     \/ ~ AtOp /\ NextBlock

OperationStep ==
  /\ Advance
  /\ AtOp
  /\ OpAnalyzable
  /\ values' = [values EXCEPT ![block] = AnalyzeOp(Here, CurrentOp)]

LinkStep ==
  /\ Advance
  /\ ~ AtOp
  /\ Grows(block, Here, values, values')
  /\ LET link == Link(block)
     IN  /\ link.kind = "goto" =>
              /\ link.target \in DOMAIN values'
              /\ Weaker(Here, values'[link.target])
         /\ link.kind = "if" =>
              /\ link.cond \in DOMAIN Here
              /\ \A truth \in BOOLEAN :
                   LET target == Target(link, truth)
                   IN  \/ Decides(Here[link.cond], ~ truth)
                       \/ /\ target \in DOMAIN values'
                          /\ Weaker(Here, values'[target])
                       \/ /\ target \in DOMAIN values'
                          /\ \A op \in Comparison(link.cond) :
                               HasOperands(Here, op)
                          /\ Weaker(Branch(Here, link.cond, truth),
                                    values'[target])

LEMMA HereFacts ==
  ASSUME TypeInv, Analyzing
  PROVE  /\ graph \in GraphSet
         /\ block \in Blocks /\ block \in DOMAIN values /\ block \in Nat
         /\ index \in 1 .. Last(block)
         /\ ~ AtOp => index = Last(block)
         /\ IsRanges(Here)
         /\ \A c \in DOMAIN values : c \in Blocks /\ IsRanges(values[c])
<1>1. /\ graph \in GraphSet
      /\ block \in Blocks /\ block \in DOMAIN values /\ block \in Nat
      /\ IsRanges(Here)
      /\ \A c \in DOMAIN values : c \in Blocks /\ IsRanges(values[c])
  BY DEF TypeInv, Analyzing, Here
<1>2. index \in 1 .. Last(block)
  BY <1>1, BlockFacts DEF TypeInv, Analyzing, Last
<1>3. ~ AtOp => index = Last(block)
  BY <1>1, <1>2, BlockFacts DEF AtOp, Last
<1> QED  BY <1>1, <1>2, <1>3

LEMMA StepOfOperation ==
  ASSUME TypeInv, AnalyzeOperation, phase' # "crashed"
  PROVE  OperationStep
BY DEF AnalyzeOperation, OperationStep, Advance, Attempt

LEMMA StepOfEnd ==
  ASSUME TypeInv, AnalyzeEnd
  PROVE  LinkStep
<1>1. Analyzing /\ ~ AtOp
  BY DEF AnalyzeEnd, AtLink
<1>2. Advance
  BY <1>1 DEF AnalyzeEnd, Advance, Analyzing
<1>3. Grows(block, Here, values, values')
  BY <1>1, HereFacts, GrowsReflexive DEF AnalyzeEnd
<1>4. Link(block).kind \in {"return", "raise"}
  BY DEF AnalyzeEnd
<1> QED  BY <1>1, <1>2, <1>3, <1>4 DEF LinkStep

LEMMA StepOfGoto ==
  ASSUME TypeInv, AnalyzeGoto
  PROVE  LinkStep
<1>1. Analyzing /\ ~ AtOp
  BY DEF AnalyzeGoto, AtLink
<1>2. Advance
  BY <1>1 DEF AnalyzeGoto, Advance, Analyzing
<1> DEFINE target == Link(block).target
<1>3. target \in Blocks /\ block < target
  BY <1>1, HereFacts, LinkFacts DEF AnalyzeGoto
<1>4. values' = Merge(values, target, Here)
  BY DEF AnalyzeGoto
<1> HIDE DEF target
<1>5. SameNames(Here, Here)
  BY DEF SameNames
<1>6. /\ Grows(block, Here, values, values')
      /\ target \in DOMAIN values'
      /\ Weaker(Here, values'[target])
  BY <1>1, <1>3, <1>4, <1>5, HereFacts, MergeGrows
<1>7. Link(block).kind = "goto"
  BY DEF AnalyzeGoto
<1> QED  BY <1>1, <1>2, <1>6, <1>7 DEF LinkStep, target

LEMMA StepOfDecided ==
  ASSUME TypeInv, AnalyzeDecided
  PROVE  LinkStep
<1>1. Analyzing /\ ~ AtOp
  BY DEF AnalyzeDecided, AtLink
<1>2. Advance
  BY <1>1 DEF AnalyzeDecided, Advance, Analyzing
<1>3. PICK truth \in BOOLEAN :
        /\ Decides(Here[Cond], truth)
        /\ values' = Merge(values, Target(Link(block), truth), Here)
  BY DEF AnalyzeDecided
<1>4. Link(block).kind = "if" /\ Link(block).cond \in DOMAIN Here
  BY DEF AnalyzeDecided, IsBranch, Cond
<1> DEFINE target == Target(Link(block), truth)
<1>5. target \in Blocks /\ block < target
  BY <1>1, <1>4, HereFacts, LinkFacts
<1> HIDE DEF target
<1>6. SameNames(Here, Here)
  BY DEF SameNames
<1>7. values' = Merge(values, target, Here)
  BY <1>3 DEF target
<1>8. /\ Grows(block, Here, values, values')
      /\ target \in DOMAIN values'
      /\ Weaker(Here, values'[target])
  BY <1>1, <1>5, <1>6, <1>7, HereFacts, MergeGrows
<1>9. ASSUME NEW other \in BOOLEAN
      PROVE  \/ Decides(Here[Link(block).cond], ~ other)
             \/ /\ Target(Link(block), other) \in DOMAIN values'
                /\ Weaker(Here, values'[Target(Link(block), other)])
  <2>1. CASE other = truth
    BY <1>8, <2>1 DEF target
  <2>2. CASE other # truth
    <3>1. (~ other) = truth
      BY <2>2
    <3> QED  BY <1>3, <3>1 DEF Cond
  <2> QED  BY <2>1, <2>2
<1> QED  BY <1>1, <1>2, <1>4, <1>8, <1>9 DEF LinkStep

LEMMA StepOfBranch ==
  ASSUME TypeInv, AnalyzeBranch, phase' # "crashed"
  PROVE  LinkStep
<1>1. Analyzing /\ ~ AtOp
  BY DEF AnalyzeBranch, AtLink
<1>2. Link(block).kind = "if"
  BY DEF AnalyzeBranch, IsBranch
<1> DEFINE yes == Branch(Here, Cond, TRUE)
           no == Branch(Here, Cond, FALSE)
           t == Target(Link(block), TRUE)
           f == Target(Link(block), FALSE)
           merged == Merge(values, t, yes)
<1>3. /\ BranchAnalyzable /\ phase' = "analyze"
      /\ values' = Merge(merged, f, no)
  BY DEF AnalyzeBranch, Attempt, Target
<1>4. Advance
  BY <1>1, <1>3 DEF AnalyzeBranch, Advance
<1>5. t \in Blocks /\ block < t /\ f \in Blocks /\ block < f
  BY <1>1, <1>2, HereFacts, LinkFacts
<1>6. Cond \in DOMAIN Here /\ \A op \in Comparison(Cond) : HasOperands(Here, op)
  BY <1>3 DEF BranchAnalyzable
<1>7. /\ Typed(yes) /\ SameNames(Here, yes)
      /\ Typed(no) /\ SameNames(Here, no)
  BY <1>1, <1>6, HereFacts, ComparisonFacts, BranchTyped
<1>8. IsRanges(yes) /\ IsRanges(no)
  BY <1>3, <1>7 DEF BranchAnalyzable, RangesValid, IsRanges, Typed
<1> HIDE DEF yes, no, t, f, merged
<1>9. /\ Grows(block, Here, values, merged)
      /\ t \in DOMAIN merged /\ Weaker(yes, merged[t])
  BY <1>1, <1>5, <1>7, <1>8, HereFacts, MergeGrows DEF merged
<1>10. \A c \in DOMAIN merged : c \in Blocks /\ IsRanges(merged[c])
  BY <1>1, <1>9, HereFacts DEF Grows
<1>11. /\ Grows(block, Here, merged, values')
       /\ f \in DOMAIN values' /\ Weaker(no, values'[f])
  BY <1>1, <1>3, <1>5, <1>7, <1>8, <1>10, HereFacts, MergeGrows
<1>12. Grows(block, Here, values, values')
  BY <1>9, <1>11, GrowsTransitive
<1>13. t \in DOMAIN values' /\ Weaker(yes, values'[t])
  BY <1>9, <1>11, WeakerTransitive DEF Grows
<1>14. ASSUME NEW truth \in BOOLEAN
       PROVE  /\ Target(Link(block), truth) \in DOMAIN values'
              /\ Weaker(Branch(Here, Cond, truth),
                        values'[Target(Link(block), truth)])
  BY <1>11, <1>13 DEF yes, no, t, f
<1> QED  BY <1>1, <1>2, <1>4, <1>6, <1>12, <1>14 DEF LinkStep, Cond

\* A step is one of the analysis that goes on, or fails, or leaves the ranges
\* as they are.
LEMMA StepCases ==
  ASSUME TypeInv, Next, phase' # "crashed"
  PROVE  \/ OperationStep \/ LinkStep \/ SkipBlock
         \/ Call \/ RunOperation \/ RunRaises \/ RunGoto \/ RunBranch \/ RunEnd
BY StepOfOperation, StepOfEnd, StepOfGoto, StepOfDecided, StepOfBranch
DEF Next

\* What a step adds to the history.
LEMMA AdvanceSeen ==
  ASSUME TypeInv, Advance,
         \A c \in DOMAIN values : c \in DOMAIN values',
         \A c \in DOMAIN values' :
           c \in DOMAIN values \/ (c \in Blocks /\ block < c)
  PROVE  /\ \A b \in Nat, n \in Nat :
              Seen(b, n)' <=> Seen(b, n) \/ (b = block /\ n = index)
         /\ \A b \in Nat, n \in Nat : Seen(b, n) =>
              /\ <<b, n>> \in DOMAIN known'
              /\ known'[<<b, n>>] = known[<<b, n>>]
         /\ <<block, index>> \in DOMAIN known'
         /\ known'[<<block, index>>] = Here
<1>1. /\ block \in Blocks /\ block \in DOMAIN values /\ block \in Nat
      /\ index \in 1 .. Last(block)
      /\ ~ AtOp => index = Last(block)
      /\ graph \in GraphSet
  BY HereFacts DEF Advance
<1>2. \A b : Last(b)' = Last(b)
  BY DEF Advance, Last, Ops, OpsOf
<1>3. ASSUME NEW b \in Nat, NEW n \in Nat
      PROVE  Seen(b, n)' <=> Seen(b, n) \/ (b = block /\ n = index)
  <2>1. Seen(b, n)' <=> /\ b \in DOMAIN values'
                        /\ n \in 1 .. Last(b)
                        /\ b < block' \/ (b = block' /\ n < index')
    BY <1>2 DEF Seen, Advance
  <2>2. Seen(b, n) <=> /\ b \in DOMAIN values
                       /\ n \in 1 .. Last(b)
                       /\ b < block \/ (b = block /\ n < index)
    BY DEF Seen, Advance, Analyzing
  <2>3. b <= block => (b \in DOMAIN values' <=> b \in DOMAIN values)
    BY <1>1
  <2>4. CASE AtOp
    <3>1. block' = block /\ index' = index + 1
      BY <2>4 DEF Advance
    <3>2. index \in Nat
      BY <1>1, BlockFacts
    <3> QED  BY <1>1, <2>1, <2>2, <2>3, <3>1, <3>2
  <2>5. CASE ~ AtOp
    <3>1. block' = block + 1 /\ index' = 1 /\ index = Last(block)
      BY <1>1, <2>5 DEF Advance, NextBlock
    <3>2. index \in Nat
      BY <1>1, BlockFacts
    <3>3. b \in DOMAIN values' /\ b <= block => b \in DOMAIN values
      BY <2>3
    <3>4. n \in 1 .. Last(block) /\ n # index => n < index
      BY <3>1, <3>2
    <3>5. b < block' <=> b < block \/ b = block
      BY <1>1, <3>1
    <3> QED  BY <1>1, <2>1, <2>2, <2>3, <3>1, <3>2, <3>4, <3>5
  <2> QED  BY <2>4, <2>5
<1>4. ASSUME NEW b \in Nat, NEW n \in Nat, Seen(b, n)
      PROVE  /\ <<b, n>> \in DOMAIN known'
             /\ known'[<<b, n>>] = known[<<b, n>>]
  <2>1. <<b, n>> \in DOMAIN known
    BY <1>4 DEF TypeInv
  <2>2. <<b, n>> # <<block, index>>
    BY <1>1, <1>4 DEF Seen, Advance, Analyzing
  <2>3. known' = Put(known, <<block, index>>, Here)
    BY DEF Advance, Remember
  <2> QED  BY <2>1, <2>2, <2>3, PutFacts
<1>5. <<block, index>> \in DOMAIN known' /\ known'[<<block, index>>] = Here
  BY PutFacts DEF Advance, Remember
<1> QED  BY <1>3, <1>4, <1>5

LEMMA AdvanceTyped ==
  ASSUME TypeInv, Advance,
         \A c \in DOMAIN values : c \in DOMAIN values',
         \A c \in DOMAIN values' :
           /\ c \in DOMAIN values \/ (c \in Blocks /\ block < c)
           /\ IsRanges(values'[c])
  PROVE  TypeInv'
<1>1. /\ block \in Blocks /\ block \in DOMAIN values /\ block \in Nat
      /\ index \in 1 .. Last(block)
      /\ graph \in GraphSet /\ IsRanges(Here)
      /\ \A c \in DOMAIN values : c \in Blocks
  BY HereFacts DEF Advance
<1>2. \A b : Last(b)' = Last(b)
  BY DEF Advance, Last, Ops, OpsOf
<1>3. /\ graph' = graph /\ phase' = "analyze" /\ Blocks' = Blocks
  BY DEF Advance, Blocks
<1>4. /\ block' \in Nat \ {0} /\ index' \in Nat \ {0}
      /\ index' = 1 \/ (block' \in DOMAIN values' /\ index' \in 1 .. Last(block'))
  <2>1. Last(block) \in Nat /\ DOMAIN Ops(block) = 1 .. Last(block) - 1
    BY <1>1, BlockFacts DEF Last
  <2>2. CASE AtOp
    <3>1. index + 1 \in 1 .. Last(block)
      BY <2>1, <2>2 DEF AtOp
    <3> QED  BY <1>1, <2>2, <3>1 DEF Advance, TypeInv
  <2>3. CASE ~ AtOp
    BY <2>3 DEF Advance, NextBlock, TypeInv
  <2> QED  BY <2>2, <2>3
<1>5. DOMAIN values' \subseteq Blocks
  BY <1>1
<1>6. Start \in DOMAIN values'
  BY DEF TypeInv
<1>7. ASSUME NEW b \in Nat, NEW n \in Nat, Seen(b, n)'
      PROVE  <<b, n>> \in DOMAIN known' /\ IsRanges(known'[<<b, n>>])
  <2>1. Seen(b, n) \/ (b = block /\ n = index)
    BY <1>7, AdvanceSeen
  <2>2. CASE Seen(b, n)
    BY <2>2, AdvanceSeen DEF TypeInv
  <2>3. CASE b = block /\ n = index
    BY <1>1, <2>3, AdvanceSeen
  <2> QED  BY <2>1, <2>2, <2>3
<1>8. Last(block)' = Last(block')
  BY <1>3 DEF Last, Ops, OpsOf
<1> QED
  <2> USE <1>1, <1>3
  <2>1. (graph \in GraphSet)' /\ (phase \in {"analyze", "run", "returned", "raised"})'
    OBVIOUS
  <2>2. (\A b \in DOMAIN values : IsRanges(values[b]))'
    BY DEF IsRanges
  <2>3. (phase = "analyze" =>
           index = 1 \/ (block \in DOMAIN values /\ index \in 1 .. Last(block)))'
    BY <1>4, <1>8
  <2>4. (\A b \in Nat, n \in Nat : Seen(b, n) =>
           <<b, n>> \in DOMAIN known /\ IsRanges(known[<<b, n>>]))'
    BY <1>7
  <2> QED  BY <1>4, <1>5, <1>6, <2>1, <2>2, <2>3, <2>4 DEF TypeInv

\* The ranges that a phi joins.
LEMMA PhiRanges ==
  ASSUME TypeInv, NEW b \in Blocks, NEW n \in DOMAIN Ops(b),
         Ops(b)[n].kind = "phi", AllPhiBounds(Ops(b)[n]) # {}
  PROVE  LET op == Ops(b)[n]
         IN  /\ UnionAll(AllPhiBounds(op)) \in RangeType
             /\ \A i \in DOMAIN op.args :
                  \A s \in PhiBounds(op.args[i], op.from[i]) :
                    Covers(UnionAll(AllPhiBounds(op)), s)
<1> DEFINE op == Ops(b)[n]
           S == AllPhiBounds(op)
           Bounds1(i) == PhiBounds(op.args[i], op.from[i])
           f == [i \in {j \in DOMAIN op.args : Bounds1(j) # {}} |->
                   CHOOSE r \in Bounds1(i) : TRUE]
<1>1. OperandsTyped(op) /\ op.kind = "phi"
  BY BlockFacts DEF TypeInv
<1>2. IsFiniteSet(DOMAIN op.args)
  BY <1>1 DEF OperandsTyped, Unary, Binary, Comparisons, Calls
<1>3. \A i \in DOMAIN op.args : IsNum(op.args[i]) => op.args[i].num \in Int
  BY <1>1 DEF OperandsTyped
<1> HIDE DEF op
<1>4. ASSUME NEW i \in DOMAIN op.args, NEW r \in Bounds1(i)
      PROVE  r \in RangeType /\ Bounds1(i) = {r}
  <2>1. CASE IsNum(op.args[i])
    BY <1>3, <2>1, ConstantRanges DEF PhiBounds
  <2>2. CASE ~ IsNum(op.args[i])
    BY <2>2 DEF PhiBounds, TypeInv, IsRanges
  <2> QED  BY <2>1, <2>2
<1>5. S = UNION {Bounds1(i) : i \in DOMAIN op.args}
  BY DEF AllPhiBounds
<1> HIDE DEF Bounds1, S
<1>6. S \subseteq RangeType
  BY <1>4, <1>5
<1>7. IsFiniteSet(S)
  <2>1. f \in Surjection(DOMAIN f, S)
    <3>1. \A i \in DOMAIN f : f[i] \in S
      BY <1>5
    <3>2. ASSUME NEW r \in S PROVE \E i \in DOMAIN f : f[i] = r
      <4>1. PICK i \in DOMAIN op.args : r \in Bounds1(i)
        BY <1>5
      <4>2. Bounds1(i) = {r}
        BY <1>4, <4>1
      <4> QED  BY <4>1, <4>2
    <3>3. f \in [DOMAIN f -> S]
      BY <3>1
    <3> QED  BY <3>2, <3>3 DEF Surjection
  <2>2. IsFiniteSet(DOMAIN f)
    <3>1. DOMAIN f \in SUBSET DOMAIN op.args
      OBVIOUS
    <3> HIDE DEF f
    <3> QED  BY <1>2, <3>1, FS_Subset
  <2> HIDE DEF f
  <2> QED  BY <2>1, <2>2, FS_Surjection
<1>8. S # {}
  BY DEF S, op
<1>9. /\ UnionAll(S) \in RangeType
      /\ \A r \in S, k \in Int : Includes(r, k) => Includes(UnionAll(S), k)
  BY <1>6, <1>7, <1>8, UnionAllSound
<1>10. ASSUME NEW i \in DOMAIN op.args, NEW s \in Bounds1(i)
       PROVE  Covers(UnionAll(S), s)
  BY <1>5, <1>9 DEF Covers
<1> QED  BY <1>9, <1>10 DEF S, op, Bounds1

LEMMA OperationRanges ==
  ASSUME TypeInv, OperationStep
  PROVE  /\ IsRanges(AnalyzeOp(Here, CurrentOp))
         /\ DOMAIN values' = DOMAIN values
         /\ values'[block] = AnalyzeOp(Here, CurrentOp)
         /\ \A c \in DOMAIN values : c # block => values'[c] = values[c]
<1>1. /\ graph \in GraphSet /\ block \in Blocks /\ index \in DOMAIN Ops(block)
      /\ block \in DOMAIN values /\ IsRanges(Here)
  BY HereFacts DEF OperationStep, Advance, AtOp
<1> DEFINE op == CurrentOp
           new == AnalyzeOp(Here, op)
<1>2. OperandsTyped(op)
  BY <1>1, BlockFacts DEF CurrentOp
<1>3. RangesValid(new)
  BY DEF OperationStep, OpAnalyzable
<1>4. Typed(new)
  <2>1. CASE op.kind = "phi"
    <3> DEFINE r == UnionAll(AllPhiBounds(op))
    <3>1. AllPhiBounds(op) # {}
      BY <2>1 DEF OperationStep, OpAnalyzable
    <3>2. r \in RangeType
      BY <1>1, <2>1, <3>1, PhiRanges DEF CurrentOp
    <3>3. new = Put(Here, op.id, r)
      BY <2>1 DEF AnalyzeOp
    <3> HIDE DEF r, new, op
    <3> QED  BY <1>1, <3>2, <3>3, PutFacts DEF Typed, IsRanges
  <2>2. CASE op.kind # "phi"
    <3> DEFINE r == Transfer(op, Here)
               m == Narrowed(op, Here)
    <3>1. HasOperands(Here, op)
      BY <2>2 DEF OperationStep, OpAnalyzable
    <3>2. r \in RangeType
      BY <1>1, <1>2, <2>2, <3>1, TransferTyped
    <3>3. DOMAIN m = DOMAIN Here /\ \A name \in DOMAIN Here : m[name] \in RangeType
      BY <1>1, <1>2, <2>2, <3>1, NarrowedTyped
    <3>4. new = Put(m, op.id, r)
      BY <2>2 DEF AnalyzeOp
    <3> HIDE DEF r, m, new, op
    <3> QED  BY <3>2, <3>3, <3>4, PutFacts DEF Typed
  <2> QED  BY <2>1, <2>2
<1>5. IsRanges(new)
  BY <1>3, <1>4 DEF IsRanges, Typed, RangesValid
<1>6. values' = [values EXCEPT ![block] = new]
  BY DEF OperationStep
<1> HIDE DEF new, op
<1> QED  BY <1>1, <1>5, <1>6 DEF new, op

LEMMA TypeInit ==
  ASSUME Init
  PROVE  TypeInv
<1>1. WellFormed(graph)
  BY GraphsAssumption DEF Init
<1>2. Start \in Blocks
  BY <1>1 DEF WellFormed, Blocks, Start
<1>3. /\ DOMAIN values = {Start}
      /\ values[Start] = [name \in graph.args |-> Unbounded]
  BY DEF Init
<1>4. IsRanges(values[Start])
  BY <1>3, ConstantRanges DEF IsRanges, Valid, IsBounded, Unbounded, R
<1>5. \A b \in Nat, n \in Nat : ~ Seen(b, n)
  BY <1>3 DEF Init, Seen, Start
<1> QED  BY <1>2, <1>3, <1>4, <1>5 DEF Init, TypeInv, Start

\* The history and the values are left alone.
Resting ==
  /\ graph' = graph /\ values' = values /\ known' = known
  /\ phase' \in {"analyze", "run", "returned", "raised"}
  /\ block' \in Nat \ {0} /\ index' \in Nat \ {0}
  /\ \A b \in Nat, n \in Nat : Seen(b, n)' => Seen(b, n)

LEMMA RestingTyped ==
  ASSUME TypeInv, Resting,
         phase' # "analyze" => block' \in Blocks,
         phase' = "analyze" => index' = 1
  PROVE  TypeInv'
<1>1. Blocks' = Blocks
  BY DEF Resting, Blocks
<1> QED  BY <1>1 DEF TypeInv, Resting, IsRanges

LEMMA TypeStep ==
  ASSUME TypeInv, Next, phase' # "crashed"
  PROVE  TypeInv'
<1>1. CASE OperationStep
  <2>1. \A c \in DOMAIN values' : IsRanges(values'[c])
    BY <1>1, OperationRanges DEF TypeInv
  <2> QED  BY <1>1, <2>1, OperationRanges, AdvanceTyped DEF OperationStep
<1>2. CASE LinkStep
  BY <1>2, AdvanceTyped DEF LinkStep, Grows
<1>3. CASE SkipBlock
  <2>1. \A b \in Nat, n \in Nat : Seen(b, n)' => Seen(b, n)
    <3> TAKE b \in Nat, n \in Nat
    <3>1. Last(b)' = Last(b)
      BY <1>3 DEF SkipBlock, Last, Ops, OpsOf
    <3> QED  BY <1>3, <3>1 DEF SkipBlock, Seen, TypeInv
  <2>2. index = 1
    BY <1>3 DEF SkipBlock, TypeInv
  <2> QED  BY <1>3, <2>1, <2>2, RestingTyped DEF SkipBlock, Resting, TypeInv
<1>4. CASE Call
  <2>1. \A b \in DOMAIN values : b < block
    BY <1>4, BlockFacts DEF Call, TypeInv
  <2>2. \A b \in Nat, n \in Nat : Seen(b, n)' => Seen(b, n)
    <3> TAKE b \in Nat, n \in Nat
    <3>1. Last(b)' = Last(b)
      BY <1>4 DEF Call, Last, Ops, OpsOf
    <3> QED  BY <1>4, <2>1, <3>1 DEF Call, Seen
  <2> QED  BY <1>4, <2>2, RestingTyped DEF Call, Resting, TypeInv, Start
<1>5. CASE RunOperation \/ RunRaises \/ RunGoto \/ RunBranch \/ RunEnd
  <2>1. /\ phase = "run" /\ phase' \in {"run", "returned", "raised"}
        /\ graph' = graph /\ values' = values /\ known' = known
    BY <1>5 DEF RunOperation, RunRaises, RunGoto, RunBranch, RunEnd, CanRun,
                AtEnd, Jump
  <2>2. \A b \in Nat, n \in Nat : Seen(b, n)' => Seen(b, n)
    BY <2>1 DEF Seen, Last, Ops, OpsOf
  <2>3. block' \in Blocks
    <3>1. block \in Blocks /\ graph \in GraphSet
      BY <2>1 DEF TypeInv
    <3>2. CASE RunGoto
      BY <3>1, <3>2, LinkFacts DEF RunGoto, Jump
    <3>3. CASE RunBranch
      <4>1. Link(block).kind = "if"
        BY <3>3 DEF RunBranch, IsBranch
      <4>2. \A truth \in BOOLEAN : Target(Link(block), truth) \in Blocks
        BY <3>1, <4>1, LinkFacts
      <4> QED  BY <3>3, <4>2 DEF RunBranch, Jump
    <3> QED  BY <1>5, <3>1, <3>2, <3>3
             DEF RunOperation, RunRaises, RunEnd
  <2>4. index' \in Nat \ {0}
    BY <1>5 DEF TypeInv, RunOperation, RunRaises, RunGoto, RunBranch, RunEnd,
                Jump
  <2>5. block' \in Nat \ {0}
    <3>1. graph \in GraphSet
      BY DEF TypeInv
    <3> QED  BY <2>3, <3>1, BlockFacts
  <2>6. Resting
    BY <2>1, <2>2, <2>4, <2>5 DEF Resting
  <2> QED  BY <2>1, <2>3, <2>6, RestingTyped
<1> QED  BY <1>1, <1>2, <1>3, <1>4, <1>5, StepCases

-----------------------------------------------------------------------------
(***************************************************************************)
(* AnalysisInv is an invariant.                                            *)
(***************************************************************************)

\* An operation that has had its effect has had it, whatever the ranges of
\* its own block and of later blocks become.
LEMMA FollowsStable ==
  ASSUME TypeInv, NEW b \in Blocks, NEW n \in DOMAIN Ops(b),
         NEW op, op = Ops(b)[n], NEW m, NEW next, Follows(m, op, next),
         \A c \in Blocks : c < b =>
           /\ c \in DOMAIN values' <=> c \in DOMAIN values
           /\ c \in DOMAIN values => values'[c] = values[c]
  PROVE  Follows(m, op, next)'
<1>1. CASE op.kind = "phi"
  <2>1. \A i \in DOMAIN op.args : op.from[i] \in Blocks /\ op.from[i] < b
    BY <1>1, PhiFacts DEF TypeInv
  <2>2. ASSUME NEW operand, NEW prev \in Blocks, prev < b
        PROVE  PhiBounds(operand, prev)' = PhiBounds(operand, prev)
    BY <2>2 DEF PhiBounds
  <2>3. \A i \in DOMAIN op.args :
          PhiBounds(op.args[i], op.from[i])' = PhiBounds(op.args[i], op.from[i])
    BY <2>1, <2>2
  <2> QED  BY <1>1, <2>3 DEF Follows
<1>2. CASE op.kind # "phi"
  BY <1>2 DEF Follows
<1> QED  BY <1>1, <1>2

LEMMA GraphOperators ==
  ASSUME graph' = graph
  PROVE  /\ Blocks' = Blocks
         /\ \A b : /\ Ops(b)' = Ops(b) /\ Link(b)' = Link(b)
                   /\ Last(b)' = Last(b)
         /\ \A name : Comparison(name)' = Comparison(name)
         /\ \A m, name, truth : Branch(m, name, truth)' = Branch(m, name, truth)
         /\ \A b, name : Upto(b, name)' <=> Upto(b, name)
<1>1. /\ Blocks' = Blocks
      /\ \A b : /\ Ops(b)' = Ops(b) /\ Link(b)' = Link(b)
                /\ Last(b)' = Last(b)
  BY DEF Blocks, Ops, Link, Last
<1>2. \A name : Comparison(name)' = Comparison(name)
  BY DEF Comparison, Definition
<1>3. ASSUME NEW m, NEW name, NEW truth
      PROVE  Branch(m, name, truth)' = Branch(m, name, truth)
  BY <1>2 DEF Branch, Condition
<1>4. \A b, name : Upto(b, name)' <=> Upto(b, name)
  BY DEF Upto
<1> QED  BY <1>1, <1>2, <1>3, <1>4

\* A link that has had its effect has had it if the ranges of later blocks
\* become weaker.
LEMMA BranchFollowsStable ==
  ASSUME graph' = graph, NEW m, NEW name, NEW truth, NEW target,
         BranchFollows(m, name, truth, target),
         \A c \in DOMAIN values :
           c \in DOMAIN values' /\ Weaker(At(c, 1), At(c, 1)')
  PROVE  BranchFollows(m, name, truth, target)'
<1>1. CASE Decides(m[name], ~ truth)
  BY <1>1 DEF BranchFollows
<1>2. CASE target \in DOMAIN values /\ Weaker(m, At(target, 1))
  BY <1>2, WeakerTransitive DEF BranchFollows
<1>3. CASE /\ target \in DOMAIN values
           /\ \A op \in Comparison(name) : HasOperands(m, op)
           /\ Weaker(Branch(m, name, truth), At(target, 1))
  <2>1. /\ target \in DOMAIN values'
        /\ \A op \in Comparison(name)' : HasOperands(m, op)
        /\ Weaker(Branch(m, name, truth)', At(target, 1)')
    BY <1>3, WeakerTransitive, GraphOperators
  <2> QED  BY <2>1 DEF BranchFollows
<1> QED  BY <1>1, <1>2, <1>3 DEF BranchFollows

LEMMA LinkFollowsStable ==
  ASSUME graph' = graph, NEW b, LinkFollows(b), values'[b] = values[b],
         \A c \in DOMAIN values :
           c \in DOMAIN values' /\ Weaker(At(c, 1), At(c, 1)')
  PROVE  LinkFollows(b)'
<1>1. Link(b)' = Link(b)
  BY GraphOperators
<1>2. ASSUME Link(b).kind = "goto"
      PROVE  /\ Link(b).target \in DOMAIN values'
             /\ Weaker(values[b], At(Link(b).target, 1)')
  <2>1. /\ Link(b).target \in DOMAIN values
        /\ Weaker(values[b], At(Link(b).target, 1))
    BY <1>2 DEF LinkFollows
  <2>2. ASSUME NEW c, c = Link(b).target
        PROVE  At(Link(b).target, 1)' = At(c, 1)'
    BY <1>1, <2>2
  <2> QED  BY <2>1, <2>2, WeakerTransitive
<1>3. ASSUME Link(b).kind = "if", NEW truth \in BOOLEAN
      PROVE  BranchFollows(values[b], Link(b).cond, truth,
                           Target(Link(b), truth))'
  <2>1. PICK m, name, target :
          /\ m = values[b] /\ name = Link(b).cond
          /\ target = Target(Link(b), truth)
    OBVIOUS
  <2>2. BranchFollows(m, name, truth, target)
    BY <1>3, <2>1 DEF LinkFollows
  <2>3. BranchFollows(m, name, truth, target)'
    BY <2>2, BranchFollowsStable
  <2>4. /\ m = values'[b] /\ name = Link(b).cond'
        /\ target = Target(Link(b), truth)'
    BY <1>1, <2>1 DEF Target
  <2> QED  BY <2>3, <2>4
<1>4. ASSUME Link(b).kind = "goto"
      PROVE  (/\ Link(b).target \in DOMAIN values
              /\ Weaker(values[b], At(Link(b).target, 1)))'
  BY <1>1, <1>2, <1>4
<1> QED  BY <1>1, <1>3, <1>4 DEF LinkFollows

LEMMA SeenEarlier ==
  ASSUME TypeInv, NEW b \in Nat, NEW n \in Nat \ {0}, Seen(b, n + 1)
  PROVE  Seen(b, n)
<1>1. Last(b) \in Nat /\ index \in Nat
  BY BlockFacts DEF Seen, TypeInv
<1> QED  BY <1>1 DEF Seen

\* What the ranges at each point are after a step of the analysis.
LEMMA AtAdvance ==
  ASSUME TypeInv, Advance, values'[block] = values[block] \/ AtOp,
         \A c \in DOMAIN values :
           /\ c \in DOMAIN values'
           /\ Weaker(values[c], values'[c]) \/ c = block
           /\ c < block => values'[c] = values[c],
         \A c \in DOMAIN values' :
           c \in DOMAIN values \/ (c \in Blocks /\ block < c)
  PROVE  /\ \A b \in Nat, n \in Nat :
              /\ Seen(b, n) => At(b, n)' = At(b, n)
              /\ b = block /\ n = index => At(b, n)' = Here /\ At(b, n) = Here
              /\ AtOp /\ b = block /\ n = index + 1 =>
                   At(b, n)' = values'[block]
         /\ \A c \in DOMAIN values :
              /\ c \in DOMAIN values'
              /\ Weaker(At(c, 1), At(c, 1)')
              /\ c <= block => At(c, 1)' = At(c, 1)
<1>1. /\ block \in Blocks /\ block \in DOMAIN values /\ block \in Nat
      /\ index \in 1 .. Last(block) /\ graph \in GraphSet
      /\ \A c \in DOMAIN values : c \in Blocks
  BY HereFacts DEF Advance
<1>2. index \in Nat
  BY <1>1, BlockFacts
<1>3. ASSUME NEW b \in Nat, NEW n \in Nat, Seen(b, n)
      PROVE  At(b, n)' = At(b, n)
  <2>1. Seen(b, n)' /\ known'[<<b, n>>] = known[<<b, n>>]
    BY <1>3, AdvanceSeen
  <2> QED  BY <1>3, <2>1 DEF At
<1>4. ASSUME NEW b \in Nat, NEW n \in Nat, b = block, n = index
      PROVE  At(b, n)' = Here /\ At(b, n) = Here
  <2>1. Seen(b, n)' /\ known'[<<b, n>>] = Here
    BY <1>4, AdvanceSeen
  <2>2. ~ Seen(b, n)
    BY <1>1, <1>2, <1>4 DEF Seen, Advance, Analyzing
  <2> QED  BY <1>4, <2>1, <2>2 DEF At, Here
<1>5. ASSUME NEW b \in Nat, NEW n \in Nat, AtOp, b = block, n = index + 1
      PROVE  At(b, n)' = values'[block]
  <2>1. ~ Seen(b, n)
    BY <1>1, <1>2, <1>5 DEF Seen, Advance, Analyzing
  <2>2. ~ Seen(b, n)'
    BY <1>2, <1>5, <2>1, AdvanceSeen
  <2> QED  BY <1>5, <2>2 DEF At
<1>6. ASSUME NEW c \in DOMAIN values
      PROVE  /\ c \in DOMAIN values'
             /\ Weaker(At(c, 1), At(c, 1)')
             /\ c <= block => At(c, 1)' = At(c, 1)
  <2>1. c \in Nat /\ Last(c) \in Nat /\ 1 \in 1 .. Last(c)
    <3>1. c \in Blocks
      BY <1>1
    <3> QED  BY <1>1, <3>1, BlockFacts DEF Last
  <2>2. \A r : Weaker(r, r)
    BY DEF Weaker, Covers
  <2>3. CASE c < block
    <3>1. Seen(c, 1)
      BY <2>1, <2>3 DEF Seen
    <3> QED  BY <1>3, <2>1, <2>2, <3>1
  <2>4. CASE c = block
    <3>1. CASE index = 1
      BY <1>4, <2>1, <2>2, <2>4, <3>1
    <3>2. CASE index # 1
      <4>1. Seen(c, 1)
        BY <1>1, <1>2, <2>1, <2>4, <3>2 DEF Seen
      <4> QED  BY <1>3, <2>1, <2>2, <4>1
    <3> QED  BY <3>1, <3>2
  <2>5. CASE c > block
    <3>1. ~ Seen(c, 1)
      BY <1>1, <2>1, <2>5 DEF Seen, Advance, Analyzing
    <3>2. ~ Seen(c, 1)'
      BY <1>1, <2>1, <2>5, <3>1, AdvanceSeen
    <3>3. At(c, 1) = values[c] /\ At(c, 1)' = values'[c]
      BY <3>1, <3>2 DEF At
    <3> QED  BY <1>1, <2>1, <2>5, <3>3
  <2> QED  BY <1>1, <2>1, <2>3, <2>4, <2>5
<1> QED  BY <1>3, <1>4, <1>5, <1>6

\* The operations that the analysis passed before a step.
LEMMA OperationsStay ==
  ASSUME TypeInv, OperationsDone, Advance, values'[block] = values[block] \/ AtOp,
         \A c \in DOMAIN values :
           /\ c \in DOMAIN values'
           /\ Weaker(values[c], values'[c]) \/ c = block
           /\ c < block => values'[c] = values[c],
         \A c \in DOMAIN values' :
           c \in DOMAIN values \/ (c \in Blocks /\ block < c),
         NEW b \in Nat, NEW n \in Nat, Seen(b, n), n \in DOMAIN Ops(b)
  PROVE  Follows(known[<<b, n>>], Ops(b)[n], At(b, n + 1))'
<1>1. /\ block \in Blocks /\ block \in Nat /\ index \in Nat
      /\ graph \in GraphSet
  BY HereFacts DEF Advance, TypeInv
<1>2. b \in Blocks /\ b <= block /\ DOMAIN Ops(b) = 1 .. Last(b) - 1 /\ Last(b) \in Nat
  <2>1. b \in Blocks /\ b <= block
    BY <1>1 DEF Seen, TypeInv, Advance, Analyzing
  <2> QED  BY <1>1, <2>1, BlockFacts DEF Last
<1>3. At(b, n + 1)' = At(b, n + 1)
  <2>1. CASE Seen(b, n + 1)
    BY <2>1, AtAdvance
  <2>2. CASE ~ Seen(b, n + 1)
    <3>1. b = block /\ n + 1 = index
      BY <1>1, <1>2, <2>2 DEF Seen
    <3> QED  BY <3>1, AtAdvance
  <2> QED  BY <2>1, <2>2
<1>4. known'[<<b, n>>] = known[<<b, n>>]
  BY AdvanceSeen
<1>5. PICK m, op, next :
        m = known[<<b, n>>] /\ op = Ops(b)[n] /\ next = At(b, n + 1)
  OBVIOUS
<1>6. Follows(m, op, next)
  BY <1>5 DEF OperationsDone
<1>7. Follows(m, op, next)'
  <2>1. \A c \in Blocks : c < b =>
          /\ c \in DOMAIN values' <=> c \in DOMAIN values
          /\ c \in DOMAIN values => values'[c] = values[c]
    BY <1>1, <1>2, BlockFacts
  <2> QED  BY <1>2, <1>5, <1>6, <2>1, FollowsStable
<1>8. m = known'[<<b, n>>] /\ op = Ops(b)[n]' /\ next = At(b, n + 1)'
  BY <1>3, <1>4, <1>5, GraphOperators DEF Advance
<1> QED  BY <1>7, <1>8

\* The links that the analysis followed before a step.
LEMMA LinksStay ==
  ASSUME TypeInv, LinksDone, Advance, values'[block] = values[block] \/ AtOp,
         \A c \in DOMAIN values :
           /\ c \in DOMAIN values'
           /\ Weaker(values[c], values'[c]) \/ c = block
           /\ c < block => values'[c] = values[c],
         \A c \in DOMAIN values' :
           c \in DOMAIN values \/ (c \in Blocks /\ block < c),
         NEW b \in DOMAIN values, Done(b)
  PROVE  (known[<<b, Last(b)>>] = values[b] /\ LinkFollows(b))'
<1>1. /\ b \in Nat /\ b < block /\ Last(b) \in Nat /\ Seen(b, Last(b))
  <2>1. b \in Blocks /\ graph \in GraphSet
    BY DEF TypeInv
  <2>2. b < block
    BY DEF Done, Advance, Analyzing
  <2>3. b \in Nat /\ Last(b) \in Nat /\ Last(b) \in 1 .. Last(b)
    BY <2>1, BlockFacts DEF Last
  <2> QED  BY <2>2, <2>3 DEF Seen
<1>2. values'[b] = values[b]
  BY <1>1
<1>3. known'[<<b, Last(b)>>] = known[<<b, Last(b)>>]
  BY <1>1, AdvanceSeen
<1>4. Last(b)' = Last(b) /\ graph' = graph
  BY GraphOperators DEF Advance
<1>5. LinkFollows(b) /\ known[<<b, Last(b)>>] = values[b]
  BY DEF LinksDone
<1>6. LinkFollows(b)'
  BY <1>2, <1>4, <1>5, AtAdvance, LinkFollowsStable
<1> QED  BY <1>2, <1>3, <1>4, <1>5, <1>6

LEMMA ArgumentsStay ==
  ASSUME TypeInv, ArgumentsKnown, graph' = graph, At(Start, 1)' = At(Start, 1)
  PROVE  ArgumentsKnown'
BY DEF ArgumentsKnown

LEMMA AnalysisInitially ==
  ASSUME Init
  PROVE  AnalysisInv
<1>1. /\ DOMAIN values = {Start}
      /\ values[Start] = [name \in graph.args |-> Unbounded]
      /\ phase = "analyze" /\ block = Start /\ index = 1 /\ Start = 1
  BY DEF Init, Start
<1>2. \A b \in Nat, n \in Nat : ~ Seen(b, n)
  BY <1>1 DEF Seen
<1>3. \A b \in DOMAIN values : ~ Done(b)
  BY <1>1 DEF Done
<1>4. At(Start, 1) = values[Start]
  BY <1>1, <1>2 DEF At
<1>5. ArgumentsKnown
  BY <1>1, <1>4 DEF ArgumentsKnown
<1>6. NamesOrdered
  BY <1>1 DEF NamesOrdered, Upto
<1> QED  BY <1>2, <1>3, <1>5, <1>6
         DEF AnalysisInv, OperationsDone, LinksDone

\* The operation that a step of the analysis passes has had its effect.
LEMMA OperationFollows ==
  ASSUME TypeInv, OperationStep, NEW b \in Nat, NEW n \in Nat,
         b = block, n = index
  PROVE  Follows(known[<<b, n>>], Ops(b)[n], At(b, n + 1))'
<1>1. /\ graph \in GraphSet /\ b \in Blocks /\ n \in DOMAIN Ops(b)
      /\ Advance /\ AtOp /\ graph' = graph
  BY HereFacts DEF OperationStep, Advance, AtOp
<1>2. PICK m, op, next :
        m = Here /\ op = Ops(b)[n] /\ next = AnalyzeOp(Here, Ops(b)[n])
  OBVIOUS
<1>3. op = CurrentOp
  BY <1>2 DEF CurrentOp
<1>4. /\ DOMAIN values' = DOMAIN values
      /\ values'[block] = next
      /\ \A c \in DOMAIN values : c # block => values'[c] = values[c]
  BY <1>2, <1>3, OperationRanges
<1>5. Follows(m, op, next)
  <2>1. CASE op.kind = "phi"
    <3>1. AllPhiBounds(op) # {}
      BY <1>3, <2>1 DEF OperationStep, OpAnalyzable
    <3>2. PICK r : r = UnionAll(AllPhiBounds(op))
      OBVIOUS
    <3>3. /\ r \in RangeType
          /\ \A i \in DOMAIN op.args :
               \A s \in PhiBounds(op.args[i], op.from[i]) : Covers(r, s)
      BY <1>1, <1>2, <2>1, <3>1, <3>2, PhiRanges
    <3>4. next = Put(m, op.id, r)
      BY <1>2, <2>1, <3>2 DEF AnalyzeOp
    <3> QED  BY <2>1, <3>3, <3>4 DEF Follows
  <2>2. CASE op.kind # "phi"
    <3>1. HasOperands(m, op)
      BY <1>2, <1>3, <2>2 DEF OperationStep, OpAnalyzable
    <3>2. next = Put(Narrowed(op, m), op.id, Transfer(op, m))
      BY <1>2, <2>2 DEF AnalyzeOp
    <3> QED  BY <2>2, <3>1, <3>2 DEF Follows
  <2> QED  BY <2>1, <2>2
<1>6. Follows(m, op, next)'
  <2>1. \A c \in Blocks : c < b =>
          /\ c \in DOMAIN values' <=> c \in DOMAIN values
          /\ c \in DOMAIN values => values'[c] = values[c]
    BY <1>1, <1>4, BlockFacts
  <2> QED  BY <1>1, <1>2, <1>5, <2>1, FollowsStable
<1>7. known'[<<b, n>>] = m
  BY <1>1, <1>2, <1>4, AdvanceSeen
<1>8. At(b, n + 1)' = next
  <2>1. \A c \in DOMAIN values : Weaker(values[c], values'[c]) \/ c = block
    BY <1>4 DEF Weaker, Covers
  <2>2. \A c \in DOMAIN values : c < block => values'[c] = values[c]
    BY <1>1, <1>4, HereFacts DEF Advance
  <2>3. n + 1 \in Nat /\ n + 1 = index + 1
    OBVIOUS
  <2> QED  BY <1>1, <1>4, <2>1, <2>2, <2>3, AtAdvance
<1>9. op = Ops(b)[n]'
  BY <1>1, <1>2, GraphOperators
<1> QED  BY <1>6, <1>7, <1>8, <1>9

LEMMA OperationNames ==
  ASSUME TypeInv, NamesOrdered, OperationStep
  PROVE  NamesOrdered'
<1>1. /\ graph \in GraphSet /\ block \in Blocks /\ block \in DOMAIN values
      /\ index \in DOMAIN Ops(block) /\ IsRanges(Here) /\ graph' = graph
      /\ \A c \in DOMAIN values : c \in Blocks
  BY HereFacts DEF OperationStep, Advance, AtOp
<1>2. /\ DOMAIN values' = DOMAIN values
      /\ values'[block] = AnalyzeOp(Here, CurrentOp)
      /\ \A c \in DOMAIN values : c # block => values'[c] = values[c]
  BY OperationRanges
<1>3. \A name \in DOMAIN AnalyzeOp(Here, CurrentOp) :
        name \in DOMAIN Here \/ name = CurrentOp.id
  <2>1. CASE CurrentOp.kind = "phi"
    BY <2>1, PutFacts DEF AnalyzeOp
  <2>2. CASE CurrentOp.kind # "phi"
    <3>1. HasOperands(Here, CurrentOp)
      BY <2>2 DEF OperationStep, OpAnalyzable
    <3>2. OperandsTyped(CurrentOp)
      BY <1>1, BlockFacts DEF CurrentOp
    <3>3. DOMAIN Narrowed(CurrentOp, Here) = DOMAIN Here
      BY <1>1, <2>2, <3>1, <3>2, NarrowedTyped
    <3> QED  BY <2>2, <3>3, PutFacts DEF AnalyzeOp
  <2> QED  BY <2>1, <2>2
<1>4. Upto(block, CurrentOp.id)
  <2>1. /\ <<block, index>> \in Positions(graph)
        /\ OpAt(graph, <<block, index>>) = CurrentOp
    BY <1>1, PositionFacts DEF Blocks, Ops, CurrentOp
  <2>2. <<block, index>>[1] <= block
    BY <1>1, BlockFacts
  <2> QED  BY <2>1, <2>2 DEF Upto
<1>5. \A c \in DOMAIN values' : \A name \in DOMAIN values'[c] : Upto(c, name)
  BY <1>2, <1>3, <1>4 DEF NamesOrdered, Here
<1> QED  BY <1>1, <1>5, GraphOperators DEF NamesOrdered

LEMMA LinkNames ==
  ASSUME TypeInv, NamesOrdered, LinkStep
  PROVE  NamesOrdered'
<1>1. /\ graph \in GraphSet /\ block \in Blocks /\ block \in DOMAIN values
      /\ graph' = graph
      /\ \A c \in DOMAIN values : c \in Blocks
  BY HereFacts DEF LinkStep, Advance
<1>2. ASSUME NEW c \in Blocks, block < c, NEW name, Upto(block, name)
      PROVE  Upto(c, name)
  <2>1. \A p \in Positions(graph) : p[1] <= block => p[1] <= c
    <3>1. \A p \in Positions(graph) : p[1] \in Blocks
      BY DEF Positions, Blocks
    <3> QED  BY <1>1, <1>2, <3>1, BlockFacts
  <2> QED  BY <1>2, <2>1 DEF Upto
<1>3. ASSUME NEW c \in DOMAIN values', NEW name \in DOMAIN values'[c]
      PROVE  Upto(c, name)
  <2>1. CASE c \in DOMAIN values /\ c <= block
    BY <2>1 DEF LinkStep, Grows, NamesOrdered
  <2>2. CASE c \in Blocks /\ block < c
    BY <1>1, <1>2, <2>2 DEF LinkStep, Grows, NamesOrdered, Here
  <2> QED  BY <1>1, <2>1, <2>2, BlockFacts DEF LinkStep, Grows
<1> QED  BY <1>1, <1>3, GraphOperators DEF NamesOrdered

\* The link that a step of the analysis follows has had its effect.
LEMMA LinkNowFollows ==
  ASSUME TypeInv, LinkStep, NEW b, b = block
  PROVE  (known[<<b, Last(b)>>] = values[b] /\ LinkFollows(b))'
<1>1. /\ graph \in GraphSet /\ b \in Blocks /\ b \in DOMAIN values /\ b \in Nat
      /\ index \in Nat /\ index = Last(b)
      /\ graph' = graph /\ Advance /\ ~ AtOp
      /\ \A c \in DOMAIN values : c \in Blocks
  BY HereFacts DEF LinkStep, Advance, TypeInv
<1>2. /\ Link(b)' = Link(b) /\ Last(b)' = Last(b)
      /\ \A name : Comparison(name)' = Comparison(name)
      /\ \A m, name, truth : Branch(m, name, truth)' = Branch(m, name, truth)
  BY <1>1, GraphOperators
<1>3. /\ \A c \in DOMAIN values :
           c \in DOMAIN values' /\ (c <= block => values'[c] = values[c])
      /\ \A c \in DOMAIN values' :
           c \in DOMAIN values \/ (c \in Blocks /\ block < c)
  BY DEF LinkStep, Grows
<1>4. values'[b] = Here
  BY <1>1, <1>3 DEF Here
<1>5. known'[<<b, Last(b)>>] = Here
  BY <1>1, <1>3, AdvanceSeen
<1>6. ASSUME NEW target \in Blocks, block < target
      PROVE  At(target, 1)' = values'[target]
  <2>1. target \in Nat
    BY <1>1, BlockFacts
  <2>2. ~ Seen(target, 1)
    BY <1>1, <1>6, <2>1 DEF Seen, Advance, Analyzing
  <2>3. ~ Seen(target, 1)'
    BY <1>1, <1>3, <1>6, <2>1, <2>2, AdvanceSeen
  <2> QED  BY <2>3 DEF At
<1>7. ASSUME Link(b).kind = "goto"
      PROVE  (/\ Link(b).target \in DOMAIN values
              /\ Weaker(values[b], At(Link(b).target, 1)))'
  <2>1. PICK target : target = Link(b).target
    OBVIOUS
  <2>2. target \in Blocks /\ block < target
    BY <1>1, <1>7, <2>1, LinkFacts
  <2>3. target \in DOMAIN values' /\ Weaker(Here, values'[target])
    BY <1>7, <2>1 DEF LinkStep
  <2>4. At(target, 1)' = values'[target]
    BY <2>2, <1>6
  <2> QED  BY <1>2, <1>4, <2>1, <2>3, <2>4
<1>8. ASSUME Link(b).kind = "if", NEW truth \in BOOLEAN
      PROVE  BranchFollows(values[b], Link(b).cond, truth,
                           Target(Link(b), truth))'
  <2>1. PICK m, name, target :
          /\ m = Here /\ name = Link(b).cond
          /\ target = Target(Link(b), truth)
    OBVIOUS
  <2>2. target \in Blocks /\ block < target
    BY <1>1, <1>8, <2>1, LinkFacts
  <2>3. /\ name \in DOMAIN m
        /\ \/ Decides(m[name], ~ truth)
           \/ target \in DOMAIN values' /\ Weaker(m, values'[target])
           \/ /\ target \in DOMAIN values'
              /\ \A op \in Comparison(name) : HasOperands(m, op)
              /\ Weaker(Branch(m, name, truth), values'[target])
    BY <1>8, <2>1 DEF LinkStep
  <2>4. At(target, 1)' = values'[target]
    BY <2>2, <1>6
  <2>5. BranchFollows(m, name, truth, target)'
    <3>1. CASE Decides(m[name], ~ truth)
      BY <2>3, <3>1 DEF BranchFollows
    <3>2. CASE target \in DOMAIN values' /\ Weaker(m, values'[target])
      BY <2>3, <2>4, <3>2 DEF BranchFollows
    <3>3. CASE /\ target \in DOMAIN values'
               /\ \A op \in Comparison(name) : HasOperands(m, op)
               /\ Weaker(Branch(m, name, truth), values'[target])
      BY <1>2, <2>3, <2>4, <3>3 DEF BranchFollows
    <3> QED  BY <2>3, <3>1, <3>2, <3>3
  <2>6. /\ m = values'[b] /\ name = Link(b).cond'
        /\ target = Target(Link(b), truth)'
    BY <1>2, <1>4, <2>1 DEF Target
  <2> QED  BY <2>5, <2>6
<1>9. LinkFollows(b)'
  BY <1>2, <1>7, <1>8 DEF LinkFollows
<1> QED  BY <1>2, <1>4, <1>5, <1>9

\* A step that leaves the ranges and the history alone.
LEMMA AnalysisRests ==
  ASSUME TypeInv, AnalysisInv,
         graph' = graph, values' = values, known' = known,
         \A b \in Nat, n \in Nat : Seen(b, n)' <=> Seen(b, n),
         \A b \in DOMAIN values : Done(b)' <=> Done(b)
  PROVE  AnalysisInv'
<1>1. /\ Blocks' = Blocks
      /\ \A b : Ops(b)' = Ops(b) /\ Link(b)' = Link(b) /\ Last(b)' = Last(b)
      /\ \A b, name : Upto(b, name)' <=> Upto(b, name)
  BY GraphOperators
<1>2. \A b \in Nat, n \in Nat : At(b, n)' = At(b, n)
  BY DEF At
<1>3. ArgumentsKnown'
  BY <1>2, ArgumentsStay DEF AnalysisInv, Start
<1>4. ASSUME NEW b \in Nat, NEW n \in Nat, Seen(b, n), n \in DOMAIN Ops(b)
      PROVE  Follows(known[<<b, n>>], Ops(b)[n], At(b, n + 1))'
  <2>1. PICK m, op, next :
          m = known[<<b, n>>] /\ op = Ops(b)[n] /\ next = At(b, n + 1)
    OBVIOUS
  <2>2. Follows(m, op, next)
    BY <1>4, <2>1 DEF AnalysisInv, OperationsDone
  <2>3. Follows(m, op, next)'
    BY <2>2 DEF Follows, PhiBounds
  <2>4. m = known'[<<b, n>>] /\ op = Ops(b)[n]' /\ next = At(b, n + 1)'
    BY <1>1, <1>2, <2>1
  <2> QED  BY <2>3, <2>4
<1>5. ASSUME NEW b \in DOMAIN values, Done(b)
      PROVE  (known[<<b, Last(b)>>] = values[b] /\ LinkFollows(b))'
  <2>1. known[<<b, Last(b)>>] = values[b] /\ LinkFollows(b)
    BY <1>5 DEF AnalysisInv, LinksDone
  <2>2. \A c \in DOMAIN values : Weaker(At(c, 1), At(c, 1)')
    <3> TAKE c \in DOMAIN values
    <3>1. c \in Nat
      BY BlockFacts DEF TypeInv
    <3> QED  BY <1>2, <3>1 DEF Weaker, Covers
  <2>3. LinkFollows(b)'
    BY <2>1, <2>2, LinkFollowsStable
  <2> QED  BY <1>1, <2>1, <2>3
<1>6. OperationsDone'
  BY <1>1, <1>4 DEF OperationsDone
<1>7. LinksDone'
  BY <1>5 DEF LinksDone
<1>8. NamesOrdered'
  BY <1>1 DEF AnalysisInv, NamesOrdered
<1> QED  BY <1>3, <1>6, <1>7, <1>8 DEF AnalysisInv

LEMMA AnalysisStep ==
  ASSUME TypeInv, AnalysisInv, Next, phase' # "crashed"
  PROVE  AnalysisInv'
<1>1. graph \in GraphSet /\ Start \in Nat /\ 1 \in Nat
  BY DEF TypeInv, Start
<1>2. CASE OperationStep \/ LinkStep
  <2>1. Advance
    BY <1>2 DEF OperationStep, LinkStep
  <2>2. /\ block \in Blocks /\ block \in DOMAIN values /\ block \in Nat
        /\ index \in Nat
        /\ \A c \in DOMAIN values : c \in Blocks
    BY <2>1, HereFacts DEF Advance, TypeInv
  <2>3. /\ values'[block] = values[block] \/ AtOp
        /\ \A c \in DOMAIN values :
             /\ c \in DOMAIN values'
             /\ Weaker(values[c], values'[c]) \/ c = block
             /\ c < block => values'[c] = values[c]
        /\ \A c \in DOMAIN values' :
             c \in DOMAIN values \/ (c \in Blocks /\ block < c)
    <3>1. CASE OperationStep
      <4>1. /\ DOMAIN values' = DOMAIN values
            /\ \A c \in DOMAIN values : c # block => values'[c] = values[c]
        BY <3>1, OperationRanges
      <4>2. \A c \in DOMAIN values : Weaker(values[c], values[c])
        BY DEF Weaker, Covers
      <4> QED  BY <2>2, <3>1, <4>1, <4>2 DEF OperationStep
    <3>2. CASE LinkStep
      <4>1. /\ \A c \in DOMAIN values :
                 /\ c \in DOMAIN values'
                 /\ Weaker(values[c], values'[c])
                 /\ c <= block => values'[c] = values[c]
            /\ \A c \in DOMAIN values' :
                 c \in DOMAIN values \/ (c \in Blocks /\ block < c)
        BY <3>2 DEF LinkStep, Grows
      <4>2. \A c \in DOMAIN values : c < block => c <= block
        BY <1>1, <2>2, BlockFacts
      <4>3. block <= block
        BY <2>2
      <4> QED  BY <2>2, <4>1, <4>2, <4>3
    <3> QED  BY <1>2, <3>1, <3>2
  <2>4. /\ \A b : Ops(b)' = Ops(b) /\ Last(b)' = Last(b)
        /\ graph' = graph
    BY <2>1, GraphOperators DEF Advance
  <2>5. Start \in DOMAIN values /\ Start <= block
    BY <2>2 DEF TypeInv, Start
  <2>6. At(Start, 1)' = At(Start, 1)
    BY <2>1, <2>3, <2>5, AtAdvance
  <2>7. ArgumentsKnown'
    BY <2>4, <2>6, ArgumentsStay DEF AnalysisInv
  <2>8. OperationsDone'
    <3>1. ASSUME NEW b \in Nat, NEW n \in Nat, Seen(b, n)', n \in DOMAIN Ops(b)
          PROVE  Follows(known[<<b, n>>], Ops(b)[n], At(b, n + 1))'
      <4>1. Seen(b, n) \/ (b = block /\ n = index)
        BY <2>1, <2>3, <3>1, AdvanceSeen
      <4>2. CASE Seen(b, n)
        BY <2>1, <2>3, <3>1, <4>2, OperationsStay DEF AnalysisInv
      <4>3. CASE b = block /\ n = index
        <5>1. OperationStep
          BY <1>2, <3>1, <4>3 DEF LinkStep, AtOp
        <5> QED  BY <4>3, <5>1, OperationFollows
      <4> QED  BY <4>1, <4>2, <4>3
    <3> QED  BY <2>4, <3>1 DEF OperationsDone
  <2>9. LinksDone'
    <3>1. ASSUME NEW b \in DOMAIN values', Done(b)'
          PROVE  (known[<<b, Last(b)>>] = values[b] /\ LinkFollows(b))'
      <4>1. b < block'
        BY <2>1, <3>1 DEF Done, Advance
      <4>2. b \in Nat
        BY <1>1, <2>2, <2>3, BlockFacts
      <4>3. CASE b < block
        <5>1. b \in DOMAIN values /\ Done(b)
          BY <2>2, <2>3, <4>2, <4>3 DEF Done
        <5> QED  BY <2>1, <2>3, <5>1, LinksStay DEF AnalysisInv
      <4>4. CASE ~ (b < block)
        <5>1. b = block /\ ~ AtOp
          BY <2>1, <2>2, <4>1, <4>2, <4>4 DEF Advance, NextBlock
        <5> QED  BY <1>2, <5>1, LinkNowFollows DEF OperationStep
      <4> QED  BY <4>3, <4>4
    <3> QED  BY <3>1 DEF LinksDone
  <2>10. NamesOrdered'
    BY <1>2, OperationNames, LinkNames DEF AnalysisInv
  <2> QED  BY <2>7, <2>8, <2>9, <2>10 DEF AnalysisInv
<1>3. CASE SkipBlock
  <2>1. \A b \in DOMAIN values : b \in Nat
    BY <1>1, BlockFacts DEF TypeInv
  <2>2. block \notin DOMAIN values /\ block \in Nat
    BY <1>3 DEF SkipBlock, TypeInv
  <2>3. index = 1
    BY <1>3, <2>2 DEF SkipBlock, TypeInv
  <2>4. \A b \in Nat, n \in Nat : Seen(b, n)' <=> Seen(b, n)
    <3> TAKE b \in Nat, n \in Nat
    <3>1. Last(b)' = Last(b)
      BY <1>3, GraphOperators DEF SkipBlock
    <3> QED  BY <1>3, <2>2, <2>3, <3>1 DEF SkipBlock, Seen
  <2>5. \A b \in DOMAIN values : Done(b)' <=> Done(b)
    BY <1>3, <2>1, <2>2 DEF SkipBlock, Done
  <2> QED  BY <1>3, <2>4, <2>5, AnalysisRests DEF SkipBlock
<1>4. CASE Call
  <2>1. \A b \in DOMAIN values : b \in Nat /\ b < block
    BY <1>4, BlockFacts DEF Call, TypeInv
  <2>2. \A b \in Nat, n \in Nat : Seen(b, n)' <=> Seen(b, n)
    <3> TAKE b \in Nat, n \in Nat
    <3>1. Last(b)' = Last(b)
      BY <1>4, GraphOperators DEF Call
    <3> QED  BY <1>4, <2>1, <3>1 DEF Call, Seen
  <2>3. \A b \in DOMAIN values : Done(b)' <=> Done(b)
    BY <1>4, <2>1 DEF Call, Done
  <2> QED  BY <1>4, <2>2, <2>3, AnalysisRests DEF Call
<1>5. CASE RunOperation \/ RunRaises \/ RunGoto \/ RunBranch \/ RunEnd
  <2>1. /\ phase = "run" /\ phase' \in {"run", "returned", "raised"}
        /\ graph' = graph /\ values' = values /\ known' = known
    BY <1>5 DEF RunOperation, RunRaises, RunGoto, RunBranch, RunEnd, CanRun,
                AtEnd, Jump
  <2>2. \A b \in Nat, n \in Nat : Seen(b, n)' <=> Seen(b, n)
    BY <2>1, GraphOperators DEF Seen
  <2>3. \A b \in DOMAIN values : Done(b)' <=> Done(b)
    BY <2>1 DEF Done
  <2> QED  BY <2>1, <2>2, <2>3, AnalysisRests
<1> QED  BY <1>2, <1>3, <1>4, <1>5, StepCases

-----------------------------------------------------------------------------
(***************************************************************************)
(* What an operation computes lies in the range the analysis has for it.   *)
(***************************************************************************)

\* the number that an operand is in the run e
Held(e, operand) == IF IsNum(operand) THEN operand.num ELSE e[operand.var]

\* e has numbers
Numbers(e) == \A name \in DOMAIN e : e[name] \in Int

LEMMA HeldFacts ==
  ASSUME NEW m, IsRanges(m), NEW e, Numbers(e), Models(m, e),
         NEW operand, Has(e, operand), IsNum(operand) => operand.num \in Int
  PROVE  /\ Held(e, operand) \in Int
         /\ Has(m, operand)
         /\ Bounds(m, operand) \in RangeType
         /\ Includes(Bounds(m, operand), Held(e, operand))
<1>1. Has(m, operand)
  BY DEF Has, Models
<1>2. Held(e, operand) \in Int
  BY DEF Held, Has, Numbers
<1>3. Includes(Bounds(m, operand), Held(e, operand))
  <2>1. CASE IsNum(operand)
    BY <2>1 DEF Bounds, Const, R, Includes, Held
  <2>2. CASE ~ IsNum(operand)
    BY <2>2 DEF Bounds, Held, Has, Models
  <2> QED  BY <2>1, <2>2
<1> QED  BY <1>1, <1>2, <1>3, BoundsTyped

LEMMA TruncDivideInteger ==
  ASSUME NEW m \in Int, NEW n \in Int, n # 0
  PROVE  TruncDivide(m, n) \in Int /\ EuclidDivide(m, n) \in Int
<1>1. CASE n > 0
  BY <1>1, TruncDivInteger, Quotient DEF TruncDivide, EuclidDivide
<1>2. CASE n < 0
  <2>1. -n \in Int /\ -n >= 1
    BY <1>2
  <2>2. TruncDiv(m, -n) \in Int /\ m \div (-n) \in Int
    BY <2>1, TruncDivInteger, Quotient
  <2> QED  BY <1>2, <2>2 DEF TruncDivide, EuclidDivide
<1> QED  BY <1>1, <1>2

LEMMA ShiftInteger ==
  ASSUME NEW m \in Int, NEW n \in Nat
  PROVE  ShiftLeft(m, n) \in Int /\ ShiftRight(m, n) \in Int
<1>1. Pow2[n] \in Nat /\ Pow2[n] >= 1
  BY Pow2Monotone
<1> QED  BY <1>1 DEF ShiftLeft, ShiftRight

LEMMA TransferSound ==
  ASSUME NEW m, IsRanges(m), NEW e, Numbers(e), Models(m, e),
         NEW op, OperandsTyped(op), op.kind # "phi", HasOperands(e, op),
         NEW result \in Results(op, e)
  PROVE  /\ result \in Int
         /\ Includes(Transfer(op, m), result)
         /\ op.kind = "int_to_int64" => result \in MinInt .. MaxInt
         /\ op.kind \in Comparisons \union {"call_bool"} => result \in {0, 1}
<1> DEFINE a == Held(e, op.args[1])
           b == Held(e, op.args[2])
           ra == Bounds(m, op.args[1])
           rb == Bounds(m, op.args[2])
<1>1. CASE op.kind \in Binary
  <2>1. DOMAIN op.args = {1, 2}
    BY <1>1 DEF OperandsTyped, Binary, Comparisons, Unary, Calls
  <2>2. /\ a \in Int /\ ra \in RangeType /\ Includes(ra, a)
        /\ b \in Int /\ rb \in RangeType /\ Includes(rb, b)
    BY <2>1, HeldFacts DEF OperandsTyped, HasOperands
  <2>3. result \in
          CASE op.kind = "add" -> {a + b}
            [] op.kind = "sub" -> {a - b}
            [] op.kind = "mult" -> {a * b}
            [] op.kind = "tdiv" -> RaisesIf(b = 0, TruncDivide(a, b))
            [] op.kind = "ediv" -> RaisesIf(b = 0, EuclidDivide(a, b))
            [] op.kind = "lshift" -> RaisesIf(b < 0, ShiftLeft(a, b))
            [] op.kind = "rshift" -> RaisesIf(b < 0, ShiftRight(a, b))
            [] op.kind = "lteq" -> {Truth(a <= b)}
            [] op.kind = "lt" -> {Truth(a < b)}
            [] op.kind = "gteq" -> {Truth(a >= b)}
            [] op.kind = "gt" -> {Truth(a > b)}
            [] op.kind = "eq" -> {Truth(a = b)}
    <3>1. CASE op.kind \in {"add", "sub", "mult"}
      BY <3>1 DEF Results, Held, Calls
    <3>2. CASE op.kind \in {"tdiv", "ediv", "lshift", "rshift"}
      BY <3>2 DEF Results, Held, Calls
    <3>3. CASE op.kind \in Comparisons
      BY <3>3 DEF Results, Held, Calls, Comparisons
    <3> QED  BY <1>1, <3>1, <3>2, <3>3 DEF Binary
  <2>4. Transfer(op, m) =
          CASE op.kind = "add" -> Add(ra, rb)
            [] op.kind = "sub" -> Sub(ra, rb)
            [] op.kind = "mult" -> Mul(ra, rb)
            [] op.kind = "tdiv" -> Tdiv(ra, rb)
            [] op.kind = "ediv" -> Ediv(ra, rb)
            [] op.kind = "lshift" -> Lshift(ra, rb)
            [] op.kind = "rshift" -> Rshift(ra, rb)
            [] op.kind = "lteq" -> Le(ra, rb)
            [] op.kind = "lt" -> Lt(ra, rb)
            [] op.kind = "gteq" -> Ge(ra, rb)
            [] op.kind = "gt" -> Gt(ra, rb)
            [] op.kind = "eq" -> Bool
    BY <1>1 DEF Transfer, Binary, Comparisons
  <2> HIDE DEF a, b, ra, rb
  <2>5. CASE op.kind \in {"add", "sub"}
    BY <2>2, <2>3, <2>4, <2>5, AddSubSound DEF Comparisons
  <2>6. CASE op.kind = "mult"
    BY <2>2, <2>3, <2>4, <2>6, MulSound DEF Comparisons
  <2>7. CASE op.kind \in {"tdiv", "ediv"}
    BY <2>2, <2>3, <2>4, <2>7, TruncDivideSound, EdivSound,
       TruncDivideInteger DEF Comparisons, RaisesIf
  <2>8. CASE op.kind \in {"lshift", "rshift"}
    <3>1. b \in Nat
      BY <2>2, <2>3, <2>8 DEF RaisesIf
    <3> QED  BY <2>2, <2>3, <2>4, <2>8, <3>1, LshiftSound, RshiftSound,
                ShiftInteger DEF Comparisons, RaisesIf
  <2>9. CASE op.kind \in Comparisons
    <3>1. \A p \in BOOLEAN : Truth(p) \in {0, 1} /\ Includes(Bool, Truth(p))
      BY DEF Truth, Includes, Bool, R
    <3>2. /\ (a <= b) \in BOOLEAN /\ (a < b) \in BOOLEAN
          /\ (a >= b) \in BOOLEAN /\ (a > b) \in BOOLEAN
          /\ (a = b) \in BOOLEAN
      OBVIOUS
    <3>3. /\ Includes(Le(ra, rb), Truth(a <= b))
          /\ Includes(Lt(ra, rb), Truth(a < b))
          /\ Includes(Ge(ra, rb), Truth(a >= b))
          /\ Includes(Gt(ra, rb), Truth(a > b))
      BY <2>2, ComparisonsSound
    <3>4. op.kind # "int_to_int64"
      BY <2>9 DEF Comparisons
    <3>5. result \in {0, 1}
      BY <2>3, <2>9, <3>1, <3>2 DEF Comparisons
    <3>6. Includes(Transfer(op, m), result)
      <4>1. CASE op.kind = "eq"
        BY <2>3, <2>4, <3>1, <3>2, <4>1
      <4>2. CASE op.kind # "eq"
        BY <2>3, <2>4, <2>9, <3>3, <4>2 DEF Comparisons
      <4> QED  BY <4>1, <4>2
    <3> QED  BY <3>4, <3>5, <3>6
  <2> QED  BY <1>1, <2>5, <2>6, <2>7, <2>8, <2>9 DEF Binary
<1>2. CASE op.kind \in Unary
  <2>1. DOMAIN op.args = {1}
    BY <1>2 DEF OperandsTyped, Binary, Comparisons, Unary, Calls
  <2>2. a \in Int /\ ra \in RangeType /\ Includes(ra, a)
    BY <2>1, HeldFacts DEF OperandsTyped, HasOperands
  <2>3. result \in
          CASE op.kind = "int_to_int64" -> {a} \intersect (MinInt .. MaxInt)
            [] op.kind = "int64_to_int" -> {a}
            [] op.kind = "pow2" -> RaisesIf(a < 0, ShiftLeft(1, a))
    BY <1>2 DEF Results, Held, Unary, Calls
  <2>4. Transfer(op, m) =
          CASE op.kind = "int_to_int64" -> ToMachineInt(ra)
            [] op.kind = "int64_to_int" -> ra
            [] op.kind = "pow2" -> Lshift(Const(1), ra)
    BY <1>2 DEF Transfer, Unary, Calls
  <2>5. op.kind \notin Comparisons \union {"call_bool"}
    BY <1>2 DEF Unary, Comparisons
  <2> HIDE DEF a, ra
  <2>6. CASE op.kind = "pow2"
    <3>1. a \in Nat
      BY <2>2, <2>3, <2>6 DEF RaisesIf
    <3>2. result = ShiftLeft(1, a)
      BY <2>3, <2>6 DEF RaisesIf
    <3>3. PICK one \in Int : one = 1
      OBVIOUS
    <3>4. Const(one) \in RangeType /\ Includes(Const(one), one)
      BY <3>3, ConstantRanges DEF Includes, Const, R
    <3>5. Includes(Lshift(Const(one), ra), ShiftLeft(one, a))
      BY <2>2, <3>1, <3>4, LshiftSound
    <3>6. ShiftLeft(one, a) \in Int
      BY <3>1, ShiftInteger
    <3> QED  BY <2>4, <2>5, <2>6, <3>2, <3>3, <3>5, <3>6
  <2>7. CASE op.kind = "int_to_int64"
    <3>1. result = a /\ a \in MinInt .. MaxInt
      BY <2>3, <2>7
    <3>2. Includes(ToMachineInt(ra), a)
      BY <2>2, <3>1, ToMachineIntSound
    <3> QED  BY <2>2, <2>4, <2>5, <2>7, <3>1, <3>2
  <2>8. CASE op.kind = "int64_to_int"
    BY <2>2, <2>3, <2>4, <2>5, <2>8
  <2> QED  BY <1>2, <2>6, <2>7, <2>8 DEF Unary
<1>3. CASE op.kind \in Calls
  <2>1. result \in CallResults(op.kind)
    BY <1>3 DEF Results, Calls
  <2>2. Transfer(op, m) = DefaultRange(op.kind)
    BY <1>3 DEF Transfer, Calls
  <2>3. op.kind \notin Comparisons /\ op.kind # "int_to_int64"
    BY <1>3 DEF Calls, Comparisons
  <2>4. MinInt \in Int /\ MaxInt \in Int
    BY MaxIntAssumption DEF MinInt
  <2> QED  BY <1>3, <2>1, <2>2, <2>3, <2>4, InputsAssumption, NoneAssumption
           DEF Calls, CallResults, DefaultRange, Includes, Bool, MachineInt,
               Unbounded, R
<1> QED  BY <1>1, <1>2, <1>3 DEF OperandsTyped

LEMMA PutModels ==
  ASSUME NEW m, NEW e, Models(m, e), NEW x, NEW r, NEW v, Includes(r, v)
  PROVE  Models(Put(m, x, r), Put(e, x, v))
BY PutFacts DEF Models

\* What is known of the operand of a conversion that did not raise.
LEMMA NarrowedSound ==
  ASSUME NEW m, IsRanges(m), NEW e, Numbers(e), Models(m, e),
         NEW op, OperandsTyped(op), op.kind # "phi", HasOperands(e, op),
         NEW result \in Results(op, e)
  PROVE  Models(Narrowed(op, m), e)
<1>1. CASE op.kind = "int_to_int64" /\ ~ IsNum(op.args[1])
  <2> DEFINE x == op.args[1].var
             r == ToMachineInt(m[x])
  <2>1. 1 \in DOMAIN op.args
    BY <1>1 DEF OperandsTyped, Binary, Comparisons, Calls
  <2>2. x \in DOMAIN e
    BY <1>1, <2>1 DEF HasOperands, Has
  <2>3. e[x] \in MinInt .. MaxInt
    <3>1. result \in {e[x]} \intersect (MinInt .. MaxInt)
      BY <1>1 DEF Results, Calls
    <3> QED  BY <3>1
  <2>4. x \in DOMAIN m /\ m[x] \in RangeType /\ Includes(m[x], e[x])
    BY <2>2 DEF Models, IsRanges
  <2>5. Includes(r, e[x])
    BY <2>3, <2>4, ToMachineIntSound
  <2>6. Narrowed(op, m) = Put(m, x, r)
    BY <1>1 DEF Narrowed
  <2> HIDE DEF x, r
  <2> QED  BY <2>5, <2>6, PutFacts DEF Models
<1>2. CASE ~ (op.kind = "int_to_int64" /\ ~ IsNum(op.args[1]))
  BY <1>2 DEF Narrowed
<1> QED  BY <1>1, <1>2

LEMMA WithModels ==
  ASSUME NEW m, NEW e, Models(m, e), NEW operand, NEW r,
         ~ IsNum(operand) /\ operand.var \in DOMAIN e =>
           Includes(r, Held(e, operand))
  PROVE  Models(With(m, operand, r), e)
<1>1. CASE IsNum(operand)
  BY <1>1 DEF With
<1>2. CASE ~ IsNum(operand)
  BY <1>2, PutFacts DEF With, Models, Held
<1> QED  BY <1>1, <1>2

\* the comparison op comes out as truth for the numbers e
ComesOut(op, e, truth) ==
  LET a == Held(e, op.args[1])
      b == Held(e, op.args[2])
  IN  /\ op.kind = "lteq" => ((a <= b) <=> truth)
      /\ op.kind = "lt" => ((a < b) <=> truth)
      /\ op.kind = "gteq" => ((b <= a) <=> truth)
      /\ op.kind = "gt" => ((b < a) <=> truth)
      /\ op.kind = "eq" => ((a = b) <=> truth)

LEMMA ConstantIncludes ==
  ASSUME NEW r \in RangeType, IsConstant(r), NEW n \in Int, Includes(r, n)
  PROVE  r.low = n
<1>1. r.low \in Int /\ r.high \in Int /\ r.low = r.high /\ r.low # None
  BY NoneAssumption DEF IsConstant, RangeType, Bound
<1> QED  BY <1>1 DEF Includes

\* What a comparison that came out as truth tells of its operands.
LEMMA NarrowBySound ==
  ASSUME NEW m, IsRanges(m), NEW e, Numbers(e), Models(m, e),
         NEW op, OperandsTyped(op), op.kind \in Comparisons,
         HasOperands(e, op), NEW truth \in BOOLEAN, ComesOut(op, e, truth)
  PROVE  Models(NarrowBy(m, op, truth), e)
<1> DEFINE swapped == op.kind \in {"gteq", "gt"}
           a == IF swapped THEN op.args[2] ELSE op.args[1]
           b == IF swapped THEN op.args[1] ELSE op.args[2]
           ra == Bounds(m, a)
           rb == Bounds(m, b)
           na == Held(e, a)
           nb == Held(e, b)
<1>1. DOMAIN op.args = {1, 2}
  BY DEF OperandsTyped, Comparisons, Binary, Unary, Calls
<1>2. /\ Has(e, a) /\ (IsNum(a) => a.num \in Int)
      /\ Has(e, b) /\ (IsNum(b) => b.num \in Int)
  BY <1>1 DEF HasOperands, OperandsTyped
<1>3. NarrowBy(m, op, truth) =
        CASE op.kind \in {"lteq", "gteq"} /\ truth ->
               With(With(m, a, MakeLe(ra, rb)), b, MakeGe(rb, ra))
          [] op.kind \in {"lteq", "gteq"} /\ ~ truth ->
               With(With(m, a, MakeGt(ra, rb)), b, MakeLt(rb, ra))
          [] op.kind \in {"lt", "gt"} /\ truth ->
               With(With(m, a, MakeLt(ra, rb)), b, MakeGt(rb, ra))
          [] op.kind \in {"lt", "gt"} /\ ~ truth ->
               With(With(m, a, MakeGe(ra, rb)), b, MakeLe(rb, ra))
          [] op.kind = "eq" /\ truth ->
               IF IsConstant(rb)
               THEN With(IF IsConstant(ra) THEN With(m, b, ra) ELSE m, a, rb)
               ELSE IF IsConstant(ra) THEN With(m, b, ra) ELSE m
          [] OTHER -> m
  BY DEF NarrowBy
<1>4. /\ op.kind \in {"lteq", "gteq"} => ((na <= nb) <=> truth)
      /\ op.kind \in {"lt", "gt"} => ((na < nb) <=> truth)
      /\ op.kind = "eq" => ((na = nb) <=> truth)
  <2>1. CASE op.kind = "lteq"
    BY <2>1 DEF ComesOut
  <2>2. CASE op.kind = "gteq"
    BY <2>2 DEF ComesOut
  <2>3. CASE op.kind = "lt"
    BY <2>3 DEF ComesOut
  <2>4. CASE op.kind = "gt"
    BY <2>4 DEF ComesOut
  <2>5. CASE op.kind = "eq"
    BY <2>5 DEF ComesOut
  <2> QED  BY <2>1, <2>2, <2>3, <2>4, <2>5 DEF Comparisons
<1> HIDE DEF a, b
<1>5. /\ ra \in RangeType /\ na \in Int /\ Includes(ra, na)
      /\ rb \in RangeType /\ nb \in Int /\ Includes(rb, nb)
  BY <1>2, HeldFacts
<1>6. ASSUME NEW r, NEW s, Includes(r, na), Includes(s, nb)
      PROVE  Models(With(With(m, a, r), b, s), e)
  BY <1>6, WithModels
<1> HIDE DEF ra, rb, na, nb
<1>7. CASE op.kind \in {"lteq", "gteq"} /\ truth = TRUE
  <2>1. Includes(MakeLe(ra, rb), na) /\ Includes(MakeGe(rb, ra), nb)
    BY <1>4, <1>5, <1>7, NarrowingSound
  <2> QED  BY <1>3, <1>6, <1>7, <2>1
<1>8. CASE op.kind \in {"lteq", "gteq"} /\ truth = FALSE
  <2>1. Includes(MakeGt(ra, rb), na) /\ Includes(MakeLt(rb, ra), nb)
    BY <1>4, <1>5, <1>8, NarrowingSound
  <2> QED  BY <1>3, <1>6, <1>8, <2>1
<1>9. CASE op.kind \in {"lt", "gt"} /\ truth = TRUE
  <2>1. Includes(MakeLt(ra, rb), na) /\ Includes(MakeGt(rb, ra), nb)
    BY <1>4, <1>5, <1>9, NarrowingSound
  <2> QED  BY <1>3, <1>6, <1>9, <2>1
<1>10. CASE op.kind \in {"lt", "gt"} /\ truth = FALSE
  <2>1. Includes(MakeGe(ra, rb), na) /\ Includes(MakeLe(rb, ra), nb)
    BY <1>4, <1>5, <1>10, NarrowingSound
  <2> QED  BY <1>3, <1>6, <1>10, <2>1
<1>11. CASE op.kind = "eq" /\ truth = TRUE
  <2>1. na = nb
    BY <1>4, <1>11
  <2>2. Includes(ra, nb) /\ Includes(rb, na)
    BY <1>5, <2>1
  <2>3. Models(With(m, b, ra), e)
    BY <2>2, WithModels DEF nb
  <2>4. \A k : Models(k, e) => Models(With(k, a, rb), e)
    BY <2>2, WithModels DEF na
  <2> QED  BY <1>3, <1>11, <2>3, <2>4
<1>12. CASE op.kind = "eq" /\ truth = FALSE
  BY <1>3, <1>12
<1> QED  BY <1>7, <1>8, <1>9, <1>10, <1>11, <1>12 DEF Comparisons

\* A comparison has come out as its value says.
LEMMA ComparisonComesOut ==
  ASSUME NEW op, op.kind \in Comparisons, OperandsTyped(op), NEW e,
         Numbers(e), HasOperands(e, op), NEW n \in Results(op, e),
         NEW truth \in BOOLEAN, truth <=> n = 1
  PROVE  ComesOut(op, e, truth)
<1> DEFINE a == Held(e, op.args[1])
           b == Held(e, op.args[2])
<1>1. DOMAIN op.args = {1, 2}
  BY DEF OperandsTyped, Comparisons, Binary, Unary, Calls
<1>2. a \in Int /\ b \in Int
  BY <1>1 DEF HasOperands, Has, OperandsTyped, Held, Numbers
<1>3. n = CASE op.kind = "lteq" -> Truth(a <= b)
            [] op.kind = "lt" -> Truth(a < b)
            [] op.kind = "gteq" -> Truth(a >= b)
            [] op.kind = "gt" -> Truth(a > b)
            [] op.kind = "eq" -> Truth(a = b)
  BY DEF Results, Held, Calls, Comparisons
<1> HIDE DEF a, b
<1>4. /\ op.kind = "lteq" => ((a <= b) <=> truth)
      /\ op.kind = "lt" => ((a < b) <=> truth)
      /\ op.kind = "gteq" => ((b <= a) <=> truth)
      /\ op.kind = "gt" => ((b < a) <=> truth)
      /\ op.kind = "eq" => ((a = b) <=> truth)
  BY <1>2, <1>3 DEF Truth
<1> QED  BY <1>4 DEF ComesOut, a, b

LEMMA BranchSound ==
  ASSUME NEW m, IsRanges(m), NEW e, Numbers(e), Models(m, e),
         NEW name \in DOMAIN e, NEW truth \in BOOLEAN,
         e[name] \in {0, 1}, truth <=> e[name] = 1,
         graph \in GraphSet,
         \A op \in Comparison(name) :
           HasOperands(e, op) /\ e[name] \in Results(op, e)
  PROVE  Models(Branch(m, name, truth), e)
<1>1. Models(Condition(m, name, truth), e)
  <2>1. CASE Comparison(name) = {}
    BY <2>1 DEF Condition
  <2>2. CASE Comparison(name) # {}
    <3> DEFINE op == CHOOSE op \in Comparison(name) : TRUE
    <3>1. op \in Comparison(name)
      BY <2>2
    <3>2. Condition(m, name, truth) = NarrowBy(m, op, truth)
      BY <2>2 DEF Condition
    <3> HIDE DEF op
    <3>3. op.kind \in Comparisons /\ OperandsTyped(op)
      BY <3>1, ComparisonFacts
    <3>4. HasOperands(e, op) /\ e[name] \in Results(op, e)
      BY <3>1
    <3>5. ComesOut(op, e, truth)
      BY <3>3, <3>4, ComparisonComesOut
    <3> QED  BY <3>2, <3>3, <3>4, <3>5, NarrowBySound
  <2> QED  BY <2>1, <2>2
<1> DEFINE r == IF truth THEN True ELSE False
<1>2. Includes(r, e[name])
  BY DEF Includes, True, False, R
<1>3. Branch(m, name, truth) = Put(Condition(m, name, truth), name, r)
  BY DEF Branch
<1> HIDE DEF r
<1> QED  BY <1>1, <1>2, <1>3, PutFacts DEF Models

-----------------------------------------------------------------------------
(***************************************************************************)
(* A step of the run that computes an operation.                           *)
(***************************************************************************)

LEMMA RunningFacts ==
  ASSUME TypeInv, phase = "run", Running, AtOp
  PROVE  /\ graph \in GraphSet /\ block \in Blocks /\ block \in Nat
         /\ index \in Nat /\ index \in DOMAIN Ops(block)
         /\ index \in 1 .. Last(block) /\ index + 1 \in 1 .. Last(block)
         /\ Seen(block, index) /\ Seen(block, index + 1)
         /\ IsRanges(known[<<block, index>>])
         /\ OperandsTyped(CurrentOp)
         /\ Numbers(env)
<1>1. /\ graph \in GraphSet /\ block \in Blocks /\ block \in Nat
      /\ index \in Nat /\ block \in DOMAIN values /\ index \in 1 .. Last(block)
  BY DEF TypeInv, Running
<1>2. index \in DOMAIN Ops(block) /\ index + 1 \in 1 .. Last(block)
  BY <1>1, BlockFacts DEF AtOp, Last
<1>3. Seen(block, index) /\ Seen(block, index + 1)
  BY <1>1, <1>2 DEF Seen
<1>4. OperandsTyped(CurrentOp)
  BY <1>1, <1>2, BlockFacts DEF CurrentOp
<1> QED  BY <1>1, <1>2, <1>3, <1>4 DEF TypeInv, Running, EnvInv, Numbers

\* An operation is computed once in a run.
LEMMA NotYetComputed ==
  ASSUME TypeInv, phase = "run", Running, AtOp
  PROVE  CurrentOp.id \notin DOMAIN env
<1>1. graph \in GraphSet /\ block \in Blocks /\ index \in DOMAIN Ops(block)
      /\ block \in Nat /\ index \in Nat
  BY RunningFacts
<1> SUFFICES ASSUME CurrentOp.id \in DOMAIN env PROVE FALSE
  OBVIOUS
<1>2. Before(block, index, CurrentOp.id)
  BY DEF Running, EnvInv
<1>3. CurrentOp.id \notin graph.args
  BY <1>1, NotAnArgument DEF CurrentOp
<1>4. PICK p \in Positions(graph) :
        /\ OpAt(graph, p).id = CurrentOp.id
        /\ p[1] < block \/ (p[1] = block /\ p[2] < index)
  BY <1>2, <1>3 DEF Before
<1>5. PICK c \in Blocks : \E k \in DOMAIN Ops(c) : p = <<c, k>>
  BY DEF Positions, Blocks, Ops
<1>6. PICK k \in DOMAIN Ops(c) : p = <<c, k>>
  BY <1>5
<1>7. Ops(c)[k].id = Ops(block)[index].id
  BY <1>4, <1>6, PositionFacts DEF Ops, CurrentOp
<1>8. c = block /\ k = index
  BY <1>1, <1>7, UniqueOperation
<1> QED  BY <1>1, <1>4, <1>6, <1>8

\* What a phi takes over lies in a range that it joins.
LEMMA PhiSound ==
  ASSUME TypeInv, phase = "run", Running, AtOp, CanRun,
         CurrentOp.kind = "phi", NEW result \in Results(CurrentOp, env)
  PROVE  /\ result \in Int
         /\ CurrentOp.id \in graph.bools => result \in {0, 1}
         /\ \E i \in DOMAIN CurrentOp.args :
              \E s \in PhiBounds(CurrentOp.args[i], CurrentOp.from[i]) :
                Includes(s, result)
<1>1. /\ graph \in GraphSet /\ block \in Blocks /\ index \in DOMAIN Ops(block)
      /\ OperandsTyped(CurrentOp) /\ Numbers(env)
  BY RunningFacts
<1>2. \E op, operand : \E i \in DOMAIN CurrentOp.args :
        /\ op = CurrentOp
        /\ op.from[i] = from
        /\ operand = op.args[i]
        /\ result = Held(env, operand)
        /\ Has(env, operand)
  <2>1. result \in {Held(env, CurrentOp.args[i]) : i \in Needed(CurrentOp)}
    BY DEF Results, Held, Calls
  <2>2. PICK i \in Needed(CurrentOp) : result = Held(env, CurrentOp.args[i])
    BY <2>1
  <2>3. i \in DOMAIN CurrentOp.args /\ CurrentOp.from[i] = from
    BY <2>2 DEF Needed
  <2>4. Has(env, CurrentOp.args[i])
    BY <2>2 DEF CanRun
  <2> QED  BY <2>2, <2>3, <2>4
<1> PICK op, operand : \E i \in DOMAIN CurrentOp.args :
        /\ op = CurrentOp
        /\ op.from[i] = from
        /\ operand = op.args[i]
        /\ result = Held(env, operand)
        /\ Has(env, operand)
  BY <1>2
<1> PICK i \in DOMAIN CurrentOp.args :
        /\ op = CurrentOp
        /\ op.from[i] = from
        /\ operand = op.args[i]
        /\ result = Held(env, operand)
        /\ Has(env, operand)
  OBVIOUS
<1>3. IsNum(operand) => operand.num \in Int
  BY <1>1, <1>2 DEF OperandsTyped
<1>4. result \in Int
  BY <1>1, <1>2, <1>3 DEF Held, Has, Numbers
<1>5. from # 0 /\ ~ IsNum(operand) =>
        \A k \in DOMAIN Ops(block) : Ops(block)[k].id # operand.var
  BY <1>1, <1>2, PhiFacts DEF CurrentOp
<1>6. from # 0
  <2>1. op.from[i] \in Blocks
    BY <1>1, <1>2, PhiFacts DEF CurrentOp
  <2> QED  BY <1>1, <1>2, <2>1, BlockFacts
<1>7. \E s \in PhiBounds(operand, from) : Includes(s, result)
  <2>1. CASE IsNum(operand)
    <3>1. result = operand.num /\ result \in Int
      BY <1>3, <2>1 DEF Held
    <3>2. Includes(Const(result), result)
      BY <3>1 DEF Includes, Const, R
    <3>3. PhiBounds(operand, from) = {Const(result)}
      BY <2>1, <3>1 DEF PhiBounds
    <3> QED  BY <3>2, <3>3
  <2>2. CASE ~ IsNum(operand)
    <3>1. operand.var \in DOMAIN env
      BY <1>2, <2>2 DEF Has
    <3>2. ~ Fresh(block, index, operand.var)
      BY <1>5, <1>6, <2>2 DEF Fresh
    <3>3. /\ from \in DOMAIN values
          /\ operand.var \in DOMAIN values[from]
          /\ Includes(values[from][operand.var], env[operand.var])
      BY <1>6, <3>1, <3>2 DEF Running, FromInv
    <3> QED  BY <1>2, <2>2, <3>3 DEF PhiBounds, Held
  <2> QED  BY <2>1, <2>2
<1>8. op.id \in graph.bools => result \in {0, 1}
  <2> SUFFICES ASSUME op.id \in graph.bools PROVE result \in {0, 1}
    OBVIOUS
  <2>1. BoolsTyped(graph)
    BY <1>1, GraphsAssumption DEF WellFormed
  <2>2. <<block, index>> \in Positions(graph)
        /\ OpAt(graph, <<block, index>>) = op
    BY <1>1, <1>2, PositionFacts DEF Blocks, Ops, CurrentOp
  <2>3. op.kind = "phi"
    BY <1>2
  <2>4. IsBool(graph, operand)
    BY <1>2, <2>1, <2>2, <2>3 DEF BoolsTyped, Comparisons
  <2> QED  BY <1>2, <2>4 DEF IsBool, Held, Has, Running, EnvInv
<1> QED  BY <1>2, <1>4, <1>7, <1>8

LEMMA ResultFacts ==
  ASSUME TypeInv, AnalysisInv, phase = "run", Running, CanRun,
         NEW result \in Results(CurrentOp, env)
  PROVE  /\ result \in Int
         /\ CurrentOp.id \in graph.bools => result \in {0, 1}
         /\ Models(known[<<block, index + 1>>], Put(env, CurrentOp.id, result))
<1>1. /\ graph \in GraphSet /\ block \in Blocks /\ index \in DOMAIN Ops(block)
      /\ block \in Nat /\ index \in Nat /\ AtOp
      /\ Seen(block, index) /\ Seen(block, index + 1)
      /\ OperandsTyped(CurrentOp) /\ Numbers(env)
      /\ IsRanges(known[<<block, index>>])
  BY RunningFacts DEF CanRun
<1> DEFINE op == CurrentOp
           m == known[<<block, index>>]
           next == known[<<block, index + 1>>]
<1>2. Models(m, env)
  BY DEF Running
<1>3. Follows(m, op, next)
  <2>1. At(block, index + 1) = next
    BY <1>1 DEF At
  <2> QED  BY <1>1, <2>1 DEF AnalysisInv, OperationsDone, CurrentOp
<1>4. CASE op.kind = "phi"
  <2>1. /\ result \in Int
        /\ CurrentOp.id \in graph.bools => result \in {0, 1}
        /\ \E i \in DOMAIN CurrentOp.args :
             \E s \in PhiBounds(CurrentOp.args[i], CurrentOp.from[i]) :
               Includes(s, result)
    BY <1>1, <1>4, PhiSound
  <2>2. PICK r \in RangeType :
          /\ next = Put(m, op.id, r)
          /\ \A i \in DOMAIN op.args :
               \A s \in PhiBounds(op.args[i], op.from[i]) : Covers(r, s)
    BY <1>3, <1>4 DEF Follows
  <2>3. Includes(r, result)
    BY <2>1, <2>2 DEF Covers
  <2> HIDE DEF m, next, op
  <2>4. Models(next, Put(env, op.id, result))
    BY <1>2, <2>2, <2>3, PutModels
  <2> QED  BY <2>1, <2>4 DEF next, op
<1>5. CASE op.kind # "phi"
  <2>1. HasOperands(env, op)
    BY <1>5 DEF CanRun, Needed, HasOperands
  <2>2. next = Put(Narrowed(op, m), op.id, Transfer(op, m))
    BY <1>3, <1>5 DEF Follows
  <2> HIDE DEF m, next
  <2>3. /\ result \in Int
        /\ Includes(Transfer(op, m), result)
        /\ op.kind \in Comparisons \union {"call_bool"} => result \in {0, 1}
    BY <1>1, <1>2, <1>5, <2>1, TransferSound DEF m
  <2>4. Models(Narrowed(op, m), env)
    BY <1>1, <1>2, <1>5, <2>1, NarrowedSound DEF m
  <2>5. CurrentOp.id \in graph.bools => result \in {0, 1}
    <3>1. BoolsTyped(graph)
      BY <1>1, GraphsAssumption DEF WellFormed
    <3>2. <<block, index>> \in Positions(graph)
          /\ OpAt(graph, <<block, index>>) = op
      BY <1>1, PositionFacts DEF Blocks, Ops, CurrentOp
    <3> QED  BY <1>5, <2>3, <3>1, <3>2 DEF BoolsTyped
  <2> HIDE DEF op
  <2>6. Models(next, Put(env, op.id, result))
    BY <2>2, <2>3, <2>4, PutModels
  <2> QED  BY <2>3, <2>5, <2>6 DEF next, op
<1> QED  BY <1>4, <1>5

\* The value of a comparison does not depend on what is computed later.
LEMMA ComparisonStays ==
  ASSUME NEW op, op.kind \in Comparisons, OperandsTyped(op), NEW e, NEW f,
         HasOperands(e, op),
         \A name \in DOMAIN e : name \in DOMAIN f /\ f[name] = e[name]
  PROVE  /\ HasOperands(f, op)
         /\ Results(op, f) = Results(op, e)
         /\ Results(op, e)' = Results(op, e)
<1> DEFINE Value(x, y) ==
             CASE op.kind = "lteq" -> {Truth(x <= y)}
               [] op.kind = "lt" -> {Truth(x < y)}
               [] op.kind = "gteq" -> {Truth(x >= y)}
               [] op.kind = "gt" -> {Truth(x > y)}
               [] op.kind = "eq" -> {Truth(x = y)}
<1>1. DOMAIN op.args = {1, 2}
  BY DEF OperandsTyped, Comparisons, Binary, Unary, Calls
<1>2. HasOperands(f, op)
  BY DEF HasOperands, Has
<1>3. /\ Held(f, op.args[1]) = Held(e, op.args[1])
      /\ Held(f, op.args[2]) = Held(e, op.args[2])
  BY <1>1 DEF HasOperands, Has, Held
<1>4. ASSUME NEW d
      PROVE  Results(op, d) = Value(Held(d, op.args[1]), Held(d, op.args[2]))
  BY DEF Results, Held, Calls, Comparisons
<1>5. Results(op, e)' = Value(Held(e, op.args[1]), Held(e, op.args[2]))
  BY DEF Results, Held, Calls, Comparisons
<1> HIDE DEF Value
<1> QED  BY <1>2, <1>3, <1>4, <1>5

\* What a run has computed, after one more operation.
LEMMA OperationEnv ==
  ASSUME TypeInv, AnalysisInv, phase = "run", Running, RunOperation,
         NEW id, id = CurrentOp.id,
         NEW result \in Results(CurrentOp, env), env' = Put(env, id, result)
  PROVE  EnvInv'
<1>1. /\ graph \in GraphSet /\ block \in Blocks /\ index \in DOMAIN Ops(block)
      /\ block \in Nat /\ index \in Nat /\ AtOp /\ CanRun
      /\ OperandsTyped(CurrentOp)
      /\ graph' = graph /\ block' = block /\ index' = index + 1
  BY RunningFacts DEF RunOperation, CanRun
<1>2. id \notin DOMAIN env
  BY <1>1, NotYetComputed
<1>3. /\ result \in Int
      /\ id \in graph.bools => result \in {0, 1}
  BY <1>1, ResultFacts
<1>4. /\ \A name : name \in DOMAIN env' <=> name \in DOMAIN env \/ name = id
      /\ env'[id] = result
      /\ \A name \in DOMAIN env : env'[name] = env[name]
  BY <1>2, PutFacts
<1>5. ASSUME NEW name \in DOMAIN env' PROVE Before(block, index, name)'
  <2>1. PICK b, n : b = block /\ n = index + 1
    OBVIOUS
  <2>2. Before(b, n, name)
    <3>1. CASE name = id
      <4>1. /\ <<block, index>> \in Positions(graph)
            /\ OpAt(graph, <<block, index>>).id = name
        BY <1>1, <3>1, PositionFacts DEF Blocks, Ops, CurrentOp
      <4>2. <<block, index>>[1] = b /\ <<block, index>>[2] < n
        BY <1>1, <2>1
      <4> QED  BY <4>1, <4>2 DEF Before
    <3>2. CASE name \in DOMAIN env
      <4>1. Before(block, index, name)
        BY <3>2 DEF Running, EnvInv
      <4>2. ASSUME NEW p \in Positions(graph), p[1] = block, p[2] < index
            PROVE  p[2] < n
        <5>1. PICK k \in DOMAIN Ops(block) : p = <<block, k>>
          BY <4>2 DEF Positions, Ops
        <5>2. k \in Nat
          BY <1>1, BlockFacts
        <5> QED  BY <1>1, <2>1, <4>2, <5>1, <5>2
      <4> QED  BY <2>1, <4>1, <4>2 DEF Before
    <3> QED  BY <1>4, <3>1, <3>2
  <2>3. Before(b, n, name)'
    BY <1>1, <2>2 DEF Before
  <2> QED  BY <1>1, <2>1, <2>3
<1>6. ASSUME NEW name \in DOMAIN env', NEW op \in Comparison(name)
      PROVE  HasOperands(env', op) /\ env'[name] \in Results(op, env)'
  <2>1. op.kind \in Comparisons /\ op.id = name /\ OperandsTyped(op)
    BY <1>1, ComparisonFacts
  <2>2. HasOperands(env, op) /\ env'[name] \in Results(op, env)
    <3>1. CASE name \in DOMAIN env
      BY <1>4, <3>1 DEF Running, EnvInv
    <3>2. CASE name = id
      <4>1. PICK b \in Blocks : \E n \in DOMAIN Ops(b) : op = Ops(b)[n]
        BY <1>1, ComparisonFacts
      <4>2. PICK n \in DOMAIN Ops(b) : op = Ops(b)[n]
        BY <4>1
      <4>3. b = block /\ n = index
        BY <1>1, <2>1, <3>2, <4>2, UniqueOperation DEF CurrentOp
      <4>4. op = CurrentOp
        BY <4>2, <4>3 DEF CurrentOp
      <4>5. op.kind # "phi"
        BY <2>1 DEF Comparisons
      <4> QED  BY <1>1, <1>4, <3>2, <4>4, <4>5
               DEF CanRun, Needed, HasOperands
    <3> QED  BY <1>4, <3>1, <3>2
  <2>3. PICK e, f : e = env /\ f = env'
    OBVIOUS
  <2>4. \A x \in DOMAIN e : x \in DOMAIN f /\ f[x] = e[x]
    BY <1>4, <2>3
  <2>5. HasOperands(f, op) /\ Results(op, f) = Results(op, e)
    BY <2>1, <2>2, <2>3, <2>4, ComparisonStays
  <2>6. HasOperands(f, op) /\ Results(op, f)' = Results(op, f)
    BY <2>1, <2>5, ComparisonStays
  <2>7. Results(op, env)' = Results(op, f)'
    BY <2>3
  <2> QED  BY <2>2, <2>3, <2>5, <2>6, <2>7
<1>7. \A name : Comparison(name)' = Comparison(name)
  BY <1>1, GraphOperators
<1>8. \A name \in DOMAIN env' :
        /\ env'[name] \in Int
        /\ name \in graph.bools => env'[name] \in {0, 1}
  BY <1>3, <1>4 DEF Running, EnvInv
<1> QED  BY <1>1, <1>5, <1>6, <1>7, <1>8 DEF EnvInv, HasOperands, Has

LEMMA OperationFrom ==
  ASSUME TypeInv, AnalysisInv, phase = "run", Running, RangesSound,
         RunOperation, NEW id, id = CurrentOp.id,
         NEW result, env' = Put(env, id, result)
  PROVE  FromInv' /\ RangesSound'
<1>1. /\ graph \in GraphSet /\ block \in Blocks /\ index \in DOMAIN Ops(block)
      /\ block \in Nat /\ index \in Nat /\ AtOp
      /\ graph' = graph /\ block' = block /\ index' = index + 1
      /\ values' = values /\ from' = from /\ phase' = phase
  BY RunningFacts DEF RunOperation, CanRun
<1>2. id \notin DOMAIN env
  BY <1>1, NotYetComputed
<1>3. /\ \A name : name \in DOMAIN env' <=> name \in DOMAIN env \/ name = id
      /\ env'[id] = result
      /\ \A name \in DOMAIN env : env'[name] = env[name]
  BY <1>2, PutFacts
<1>4. ASSUME NEW name, Fresh(block, index, name) \/ name = id
      PROVE  Fresh(block, index, name)'
  <2>1. PICK b, n : b = block /\ n = index + 1
    OBVIOUS
  <2>2. \A k \in DOMAIN Ops(block) : k \in Nat
    BY <1>1, BlockFacts
  <2>3. Fresh(b, n, name)
    BY <1>1, <1>4, <2>1, <2>2 DEF Fresh, CurrentOp
  <2>4. Fresh(b, n, name)'
    BY <1>1, <2>3, GraphOperators DEF Fresh
  <2> QED  BY <1>1, <2>1, <2>4
<1>5. FromInv'
  <2> SUFFICES ASSUME from # 0 PROVE FromInv'
    BY <1>1 DEF FromInv
  <2>1. \A name \in DOMAIN env' :
          \/ Fresh(block, index, name)'
          \/ /\ name \in DOMAIN values[from]
             /\ Includes(values[from][name], env'[name])
    BY <1>3, <1>4 DEF Running, FromInv
  <2>2. from \in DOMAIN values /\ from < block
    BY DEF Running, FromInv
  <2> QED  BY <1>1, <2>1, <2>2 DEF FromInv
<1>6. from # 0 => id \notin DOMAIN values[from]
  <2> SUFFICES ASSUME from # 0, id \in DOMAIN values[from] PROVE FALSE
    OBVIOUS
  <2>1. from \in DOMAIN values /\ from < block
    BY DEF Running, FromInv
  <2>2. Upto(from, id)
    BY <2>1 DEF AnalysisInv, NamesOrdered
  <2>3. id \notin graph.args
    BY <1>1, NotAnArgument DEF CurrentOp
  <2>4. PICK p \in Positions(graph) : OpAt(graph, p).id = id /\ p[1] <= from
    BY <2>2, <2>3 DEF Upto
  <2>5. PICK c \in Blocks : \E k \in DOMAIN Ops(c) : p = <<c, k>>
    BY DEF Positions, Blocks, Ops
  <2>6. PICK k \in DOMAIN Ops(c) : p = <<c, k>>
    BY <2>5
  <2>7. Ops(c)[k].id = Ops(block)[index].id
    BY <2>4, <2>6, PositionFacts DEF Ops, CurrentOp
  <2>8. c = block
    BY <1>1, <2>7, UniqueOperation
  <2>9. from \in Nat
    BY <1>1, <2>1, BlockFacts DEF TypeInv
  <2> QED  BY <1>1, <2>1, <2>4, <2>6, <2>8, <2>9
<1>7. RangesSound'
  BY <1>1, <1>3, <1>6 DEF RangesSound
<1> QED  BY <1>5, <1>7

LEMMA OperationRuns ==
  ASSUME TypeInv, AnalysisInv, RunInv, RunOperation
  PROVE  RunInv'
<1>1. phase = "run" /\ Running /\ RangesSound /\ CanRun /\ AtOp
  BY DEF RunInv, RunOperation, CanRun
<1>2. /\ graph \in GraphSet /\ block \in Blocks /\ index \in DOMAIN Ops(block)
      /\ block \in Nat /\ index \in Nat /\ index + 1 \in 1 .. Last(block)
      /\ graph' = graph /\ block' = block /\ index' = index + 1
      /\ values' = values /\ known' = known /\ phase' = phase
  BY <1>1, RunningFacts DEF RunOperation
<1>3. PICK result \in Results(CurrentOp, env) :
        env' = Put(env, CurrentOp.id, result)
  BY DEF RunOperation
<1>4. PICK id : id = CurrentOp.id
  OBVIOUS
<1>5. env' = Put(env, id, result)
  BY <1>3, <1>4
<1>6. EnvInv'
  BY <1>1, <1>4, <1>5, OperationEnv
<1>7. FromInv' /\ RangesSound'
  BY <1>1, <1>4, <1>5, OperationFrom
<1>8. Models(known[<<block, index + 1>>], env')
  BY <1>1, <1>3, ResultFacts
<1>9. \A n \in DOMAIN Ops(block) : n < index + 1 => Ops(block)[n].id \in DOMAIN env'
  <2> TAKE n \in DOMAIN Ops(block)
  <2>1. n \in Nat
    BY <1>2, BlockFacts
  <2>2. CASE n < index
    BY <1>1, <1>5, <2>2, PutFacts DEF Running
  <2>3. CASE n = index
    BY <1>3, <2>3, PutFacts DEF CurrentOp
  <2> QED  BY <1>2, <2>1, <2>2, <2>3
<1>10. Running'
  <2>1. (block \in DOMAIN values)'
    BY <1>1, <1>2 DEF Running
  <2>2. (index \in 1 .. Last(block))'
    <3>1. Last(block)' = Last(block)
      BY <1>2 DEF Last, Ops, OpsOf
    <3> QED  BY <1>2, <3>1
  <2>3. Models(known[<<block, index>>], env)'
    BY <1>2, <1>8 DEF Models
  <2>4. (\A n \in DOMAIN Ops(block) : n < index => Ops(block)[n].id \in DOMAIN env)'
    BY <1>2, <1>9 DEF Ops, OpsOf
  <2> QED  BY <1>6, <1>7, <2>1, <2>2, <2>3, <2>4 DEF Running
<1> QED  BY <1>1, <1>2, <1>7, <1>10 DEF RunInv

-----------------------------------------------------------------------------
(***************************************************************************)
(* A run goes where the analysis went.                                     *)
(***************************************************************************)

\* At the end of a block, the ranges at its end hold.
LEMMA EndFacts ==
  ASSUME TypeInv, AnalysisInv, RunInv, AtEnd
  PROVE  /\ graph \in GraphSet /\ block \in Blocks /\ block \in DOMAIN values
         /\ block \in Nat /\ index = Last(block)
         /\ Running /\ phase = "run" /\ Numbers(env)
         /\ IsRanges(values[block])
         /\ Models(values[block], env)
         /\ LinkFollows(block)
<1>1. /\ graph \in GraphSet /\ block \in Blocks /\ block \in DOMAIN values
      /\ block \in Nat /\ index \in 1 .. Last(block)
      /\ Running /\ phase = "run" /\ Numbers(env) /\ ~ AtOp
      /\ IsRanges(values[block])
  BY DEF TypeInv, RunInv, AtEnd, Running, EnvInv, Numbers
<1>2. index = Last(block)
  BY <1>1, BlockFacts DEF AtOp, Last
<1>3. Done(block)
  BY <1>1 DEF Done
<1>4. known[<<block, Last(block)>>] = values[block] /\ LinkFollows(block)
  BY <1>1, <1>3 DEF AnalysisInv, LinksDone
<1>5. Models(values[block], env)
  BY <1>1, <1>2, <1>4 DEF Running
<1> QED  BY <1>1, <1>2, <1>4, <1>5

LEMMA WeakerModels ==
  ASSUME NEW m, NEW k, Weaker(m, k), NEW e, Numbers(e), Models(m, e)
  PROVE  Models(k, e)
BY DEF Models, Weaker, Covers, Numbers

LEMMA JumpRuns ==
  ASSUME TypeInv, AnalysisInv, RunInv, AtEnd,
         NEW target \in Blocks, block < target, target \in DOMAIN values,
         Models(At(target, 1), env), Jump(target)
  PROVE  RunInv'
<1>1. /\ graph \in GraphSet /\ block \in Blocks /\ block \in DOMAIN values
      /\ block \in Nat /\ index = Last(block)
      /\ Running /\ phase = "run" /\ Numbers(env)
      /\ Models(values[block], env)
  BY EndFacts
<1>2. /\ graph' = graph /\ block' = target /\ index' = 1 /\ from' = block
      /\ values' = values /\ known' = known /\ phase' = phase /\ env' = env
  BY DEF Jump
<1>3. /\ target \in Nat /\ Last(target) \in Nat /\ 1 \in 1 .. Last(target)
      /\ \A n \in DOMAIN Ops(target) : ~ (n < 1)
  BY <1>1, BlockFacts DEF Last
<1>4. Seen(target, 1)
  BY <1>1, <1>3 DEF Seen
<1>5. Models(known[<<target, 1>>], env)
  BY <1>4 DEF At
<1>6. ASSUME NEW name \in DOMAIN env PROVE Before(target, 1, name)
  <2>1. Before(block, index, name)
    BY <1>1, <1>6 DEF Running, EnvInv
  <2>2. \A p \in Positions(graph) : p[1] <= block => p[1] < target
    <3>1. \A p \in Positions(graph) : p[1] \in Blocks
      BY DEF Positions, Blocks
    <3> QED  BY <1>1, <1>3, <3>1, BlockFacts
  <2>3. \A p \in Positions(graph) : p[1] < block \/ p[1] = block => p[1] <= block
    <3>1. \A p \in Positions(graph) : p[1] \in Blocks
      BY DEF Positions, Blocks
    <3> QED  BY <1>1, <3>1, BlockFacts
  <2> QED  BY <2>1, <2>2, <2>3 DEF Before
<1>7. EnvInv'
  <2>1. \A name \in DOMAIN env : Before(target, 1, name)'
    BY <1>2, <1>6 DEF Before
  <2>2. \A name \in DOMAIN env : Before(block, index, name)'
    <3> TAKE name \in DOMAIN env
    <3>1. PICK b, n : b = target /\ n = 1
      OBVIOUS
    <3>2. Before(b, n, name)'
      BY <1>2, <1>6, <3>1 DEF Before
    <3> QED  BY <1>2, <3>1, <3>2
  <2>3. ASSUME NEW name \in DOMAIN env, NEW op \in Comparison(name)
        PROVE  HasOperands(env, op) /\ env[name] \in Results(op, env)'
    <3>1. op.kind \in Comparisons /\ OperandsTyped(op)
      BY <1>1, ComparisonFacts
    <3>2. HasOperands(env, op) /\ env[name] \in Results(op, env)
      BY <1>1, <2>3 DEF Running, EnvInv
    <3>3. PICK e : e = env
      OBVIOUS
    <3>4. Results(op, e)' = Results(op, e)
      BY <3>1, <3>2, <3>3, ComparisonStays
    <3>5. Results(op, env)' = Results(op, e)'
      BY <1>2, <3>3
    <3> QED  BY <3>2, <3>3, <3>4, <3>5
  <2>4. \A name : Comparison(name)' = Comparison(name)
    BY <1>2, GraphOperators
  <2>5. \A name \in DOMAIN env :
          /\ env[name] \in Int
          /\ name \in graph.bools => env[name] \in {0, 1}
    BY <1>1 DEF Running, EnvInv
  <2> QED  BY <1>2, <2>2, <2>3, <2>4, <2>5 DEF EnvInv, HasOperands, Has
<1>8. FromInv' /\ RangesSound'
  BY <1>1, <1>2 DEF FromInv, RangesSound, Models
<1>9. Running'
  <2>1. (block \in DOMAIN values /\ index \in 1 .. Last(block))'
    <3>1. Last(block)' = Last(target)
      BY <1>2 DEF Last, Ops, OpsOf
    <3> QED  BY <1>2, <1>3, <3>1
  <2>2. Models(known[<<block, index>>], env)'
    BY <1>2, <1>5 DEF Models
  <2>3. (\A n \in DOMAIN Ops(block) : n < index => Ops(block)[n].id \in DOMAIN env)'
    BY <1>2, <1>3 DEF Ops, OpsOf
  <2> QED  BY <1>7, <1>8, <2>1, <2>2, <2>3 DEF Running
<1> QED  BY <1>1, <1>2, <1>8, <1>9 DEF RunInv

LEMMA GotoRuns ==
  ASSUME TypeInv, AnalysisInv, RunInv, RunGoto
  PROVE  RunInv'
<1>1. AtEnd /\ Link(block).kind = "goto" /\ Jump(Link(block).target)
  BY DEF RunGoto
<1>2. /\ graph \in GraphSet /\ block \in Blocks /\ Numbers(env)
      /\ Models(values[block], env) /\ LinkFollows(block)
  BY <1>1, EndFacts
<1>3. PICK target : target = Link(block).target
  OBVIOUS
<1>4. target \in Blocks /\ block < target
  BY <1>1, <1>2, <1>3, LinkFacts
<1>5. target \in DOMAIN values /\ Weaker(values[block], At(target, 1))
  BY <1>1, <1>2, <1>3 DEF LinkFollows
<1>6. Models(At(target, 1), env)
  BY <1>2, <1>5, WeakerModels
<1>7. Jump(target)
  BY <1>1, <1>3 DEF Jump
<1> QED  BY <1>1, <1>4, <1>5, <1>6, <1>7, JumpRuns

LEMMA BranchRuns ==
  ASSUME TypeInv, AnalysisInv, RunInv, RunBranch
  PROVE  RunInv'
<1>1. /\ AtEnd /\ Link(block).kind = "if" /\ Cond \in DOMAIN env
      /\ Jump(Target(Link(block), env[Cond] = 1))
  BY DEF RunBranch, IsBranch
<1>2. /\ graph \in GraphSet /\ block \in Blocks /\ Numbers(env) /\ Running
      /\ Models(values[block], env) /\ LinkFollows(block)
      /\ IsRanges(values[block])
  BY <1>1, EndFacts
<1>3. PICK truth \in BOOLEAN : truth <=> env[Cond] = 1
  OBVIOUS
<1>4. PICK target, name, m :
        /\ target = Target(Link(block), truth) /\ name = Link(block).cond
        /\ m = values[block]
  OBVIOUS
<1>5. name = Cond /\ name \in DOMAIN env
  BY <1>1, <1>4 DEF Cond
<1>6. target \in Blocks /\ block < target /\ name \in graph.bools
  BY <1>1, <1>2, <1>4, LinkFacts
<1>7. env[name] \in {0, 1}
  BY <1>2, <1>5, <1>6 DEF Running, EnvInv
<1>8. BranchFollows(m, name, truth, target)
  BY <1>1, <1>2, <1>4 DEF LinkFollows
<1>9. Models(m, env) /\ IsRanges(m)
  BY <1>2, <1>4
<1>10. ~ Decides(m[name], ~ truth)
  <2>1. name \in DOMAIN m /\ Includes(m[name], env[name])
    BY <1>5, <1>9 DEF Models
  <2> SUFFICES ASSUME Decides(m[name], ~ truth) PROVE FALSE
    OBVIOUS
  <2>2. 0 # None /\ 1 # None
    BY NoneAssumption
  <2>3. CASE truth = TRUE
    <3>1. m[name] = R(0, 0) /\ env[name] = 1
      BY <1>3, <1>5, <2>3 DEF Decides, False
    <3> QED  BY <2>1, <2>2, <3>1 DEF Includes, R
  <2>4. CASE truth = FALSE
    <3>1. m[name] = R(1, 1) /\ env[name] = 0
      BY <1>3, <1>5, <1>7, <2>4 DEF Decides, True
    <3> QED  BY <2>1, <2>2, <3>1 DEF Includes, R
  <2> QED  BY <2>3, <2>4
<1>11. target \in DOMAIN values /\ Models(At(target, 1), env)
  <2>1. CASE target \in DOMAIN values /\ Weaker(m, At(target, 1))
    BY <1>2, <1>9, <2>1, WeakerModels
  <2>2. CASE /\ target \in DOMAIN values
             /\ Weaker(Branch(m, name, truth), At(target, 1))
    <3>1. \A op \in Comparison(name) :
            HasOperands(env, op) /\ env[name] \in Results(op, env)
      BY <1>2, <1>5 DEF Running, EnvInv
    <3>2. truth <=> env[name] = 1
      BY <1>3, <1>5
    <3>3. Models(Branch(m, name, truth), env)
      BY <1>2, <1>5, <1>7, <1>9, <3>1, <3>2, BranchSound
    <3> QED  BY <1>2, <2>2, <3>3, WeakerModels
  <2> QED  BY <1>8, <1>10, <2>1, <2>2 DEF BranchFollows
<1>12. Jump(target)
  <2>1. target = Target(Link(block), env[Cond] = 1)
    BY <1>3, <1>4 DEF Target
  <2> QED  BY <1>1, <2>1 DEF Jump
<1> QED  BY <1>1, <1>6, <1>11, <1>12, JumpRuns

LEMMA CallRuns ==
  ASSUME TypeInv, AnalysisInv, RunInv, Call
  PROVE  RunInv'
<1>1. /\ phase = "analyze" /\ phase' = "run" /\ block' = Start /\ index' = 1
      /\ env' \in Arguments /\ from' = 0 /\ graph \in GraphSet
      /\ graph' = graph /\ values' = values /\ known' = known
      /\ block \notin Blocks /\ block \in Nat \ {0} /\ Start = 1
      /\ Start \in DOMAIN values /\ Start \in Blocks
  BY DEF Call, RunInv, TypeInv, Start
<1>2. 1 \in 1 .. Last(Start) /\ Last(Start)' = Last(Start)
  BY <1>1, BlockFacts DEF Last, Ops, OpsOf
<1>3. Seen(Start, 1)
  BY <1>1, <1>2, BlockFacts DEF Seen
<1>4. \A name \in graph.args :
        /\ name \in DOMAIN known[<<Start, 1>>]
        /\ known[<<Start, 1>>][name] = Unbounded
  BY <1>3 DEF AnalysisInv, ArgumentsKnown, At
<1>5. /\ DOMAIN env' = graph.args
      /\ \A name \in graph.args :
           /\ env'[name] \in Int
           /\ name \in graph.bools => env'[name] \in {0, 1}
  BY <1>1, InputsAssumption DEF Arguments
<1>6. Models(known[<<block, index>>], env)'
  BY <1>1, <1>4, <1>5 DEF Models, Includes, Unbounded, R
<1>7. \A name \in graph.args : Comparison(name) = {}
  <2> SUFFICES ASSUME NEW name \in graph.args, NEW op \in Comparison(name)
               PROVE  FALSE
    OBVIOUS
  <2>1. op.id = name /\ \E b \in Blocks : \E n \in DOMAIN Ops(b) : op = Ops(b)[n]
    BY <1>1, ComparisonFacts
  <2> QED  BY <1>1, <2>1, NotAnArgument
<1>8. EnvInv'
  <2>1. \A name : Comparison(name)' = Comparison(name)
    BY <1>1, GraphOperators
  <2>2. \A name \in DOMAIN env' : Before(block, index, name)'
    BY <1>1, <1>5 DEF Before
  <2> QED  BY <1>1, <1>5, <1>7, <2>1, <2>2 DEF EnvInv
<1>9. FromInv' /\ RangesSound'
  BY <1>1 DEF FromInv, RangesSound
<1>10. Running'
  <2>1. (\A n \in DOMAIN Ops(block) : n < index => Ops(block)[n].id \in DOMAIN env)'
    <3>1. \A n \in DOMAIN Ops(Start) : ~ (n < 1)
      BY <1>1, BlockFacts
    <3> QED  BY <1>1, <3>1 DEF Ops, OpsOf
  <2>2. (block \in DOMAIN values /\ index \in 1 .. Last(block))'
    <3>1. Last(block)' = Last(Start)
      BY <1>1, <1>2 DEF Last, Ops, OpsOf
    <3> QED  BY <1>1, <1>2, <3>1
  <2> QED  BY <1>6, <1>8, <1>9, <2>1, <2>2 DEF Running
<1> QED  BY <1>1, <1>9, <1>10 DEF RunInv

LEMMA EndRuns ==
  ASSUME TypeInv, AnalysisInv, RunInv, RunEnd
  PROVE  RunInv'
<1>1. AtEnd
  BY DEF RunEnd
<1>2. Models(values[block], env)
  BY <1>1, EndFacts
<1>3. /\ phase' \in {"returned", "raised"} /\ from' = block
      /\ values' = values /\ env' = env
  BY DEF RunEnd
<1> QED  BY <1>2, <1>3 DEF RunInv, RangesSound, Models

LEMMA RunStep ==
  ASSUME TypeInv, AnalysisInv, RunInv, Next, phase' # "crashed"
  PROVE  RunInv'
<1>1. CASE OperationStep \/ LinkStep \/ SkipBlock
  <2>1. /\ phase = "analyze" /\ phase' = "analyze" /\ env' = env /\ from' = from
    BY <1>1 DEF OperationStep, LinkStep, SkipBlock, Advance, Analyzing
  <2> QED  BY <2>1 DEF RunInv, RangesSound
<1>2. CASE RunRaises
  BY <1>2 DEF RunRaises, RunInv, RangesSound, CanRun
<1> QED  BY <1>1, <1>2, StepCases, CallRuns, OperationRuns, GotoRuns,
            BranchRuns, EndRuns

-----------------------------------------------------------------------------
(***************************************************************************)
(* Constants in the place of operations.                                   *)
(***************************************************************************)

\* An operation leaves the ranges alone that its own block has computed, except
\* that a conversion takes away the numbers that it fails for.
LEMMA OperationKeeps ==
  ASSUME TypeInv, OperationStep,
         NEW n \in DOMAIN Ops(block), n < index,
         Ops(block)[n].id \in DOMAIN Here
  PROVE  /\ Ops(block)[n].id \in DOMAIN values'[block]
         /\ \A e \in Int : Includes(Here[Ops(block)[n].id], e) =>
              \/ Includes(values'[block][Ops(block)[n].id], e)
              \/ /\ e \notin MinInt .. MaxInt
                 /\ Converts(CurrentOp, Ops(block)[n].id)
<1> DEFINE op == CurrentOp
           name == Ops(block)[n].id
<1>1. /\ graph \in GraphSet /\ block \in Blocks /\ index \in DOMAIN Ops(block)
      /\ IsRanges(Here) /\ index \in Nat
  BY HereFacts DEF OperationStep, Advance, AtOp, TypeInv
<1>2. values'[block] = AnalyzeOp(Here, op)
  BY OperationRanges
<1>3. name # op.id
  <2>1. n # index
    BY <1>1, BlockFacts
  <2> QED  BY <1>1, <2>1, UniqueOperation DEF CurrentOp
<1>4. CASE op.kind = "phi"
  <2>1. AnalyzeOp(Here, op) = Put(Here, op.id, UnionAll(AllPhiBounds(op)))
    BY <1>4 DEF AnalyzeOp
  <2> HIDE DEF op, name
  <2>2. name \in DOMAIN Here
    BY DEF name
  <2> QED  BY <1>2, <1>3, <2>1, <2>2, PutFacts DEF name
<1>5. CASE op.kind # "phi"
  <2>1. AnalyzeOp(Here, op) = Put(Narrowed(op, Here), op.id, Transfer(op, Here))
    BY <1>5 DEF AnalyzeOp
  <2>2. /\ name \in DOMAIN Narrowed(op, Here)
        /\ \/ Narrowed(op, Here)[name] = Here[name]
           \/ /\ Converts(op, name)
              /\ Narrowed(op, Here)[name] = ToMachineInt(Here[name])
    <3>1. CASE op.kind = "int_to_int64" /\ ~ IsNum(op.args[1])
      <4>1. Narrowed(op, Here) =
              Put(Here, op.args[1].var, ToMachineInt(Here[op.args[1].var]))
        BY <3>1 DEF Narrowed
      <4>2. op.args[1].var = name => Converts(op, name)
        BY <3>1 DEF Converts
      <4> HIDE DEF op, name
      <4>3. name \in DOMAIN Here
        BY DEF name
      <4> QED  BY <4>1, <4>2, <4>3, PutFacts
    <3>2. CASE ~ (op.kind = "int_to_int64" /\ ~ IsNum(op.args[1]))
      BY <3>2 DEF Narrowed
    <3> QED  BY <3>1, <3>2
  <2>3. \A e \in Int : Includes(Here[name], e) =>
          Includes(ToMachineInt(Here[name]), e) \/ e \notin MinInt .. MaxInt
    <3>1. Here[name] \in RangeType
      BY <1>1 DEF IsRanges
    <3> HIDE DEF name
    <3> QED  BY <3>1, ToMachineIntSound
  <2> HIDE DEF op, name
  <2>4. name \in DOMAIN values'[block]
        /\ values'[block][name] = Narrowed(op, Here)[name]
    BY <1>2, <1>3, <2>1, <2>2, PutFacts
  <2> QED  BY <2>2, <2>3, <2>4 DEF name, op
<1> QED  BY <1>4, <1>5

\* The result of an operation gets a range.
LEMMA OperationGives ==
  ASSUME TypeInv, OperationStep
  PROVE  CurrentOp.id \in DOMAIN values'[block]
BY OperationRanges, PutFacts DEF AnalyzeOp

\* Conversions are where they were.
LEMMA FailsAheadStays ==
  ASSUME graph' = graph
  PROVE  \A b, k, name, e :
           FailsAhead(b, k, name, e)' <=> FailsAhead(b, k, name, e)
BY GraphOperators DEF FailsAhead

\* The ranges and the graph are all that matters.
LEMMA StableAlone ==
  ASSUME TypeInv, StableInv, graph' = graph, values' = values, known' = known,
         \A b \in Nat, n \in Nat : Seen(b, n)' <=> Seen(b, n)
  PROVE  StableInv'
<1>1. \A b : Ops(b)' = Ops(b)
  BY GraphOperators
<1>2. ASSUME NEW b \in DOMAIN values, NEW n \in DOMAIN Ops(b)
      PROVE  b \in Nat /\ n \in Nat
  BY <1>2, BlockFacts DEF TypeInv
<1>3. \A b, k, name, e :
        FailsAhead(b, k, name, e)' <=> FailsAhead(b, k, name, e)
  BY FailsAheadStays
<1> QED  BY <1>1, <1>2, <1>3 DEF StableInv

LEMMA StableOperation ==
  ASSUME TypeInv, StableInv, OperationStep
  PROVE  StableInv'
<1>1. /\ graph \in GraphSet /\ block \in Blocks /\ block \in DOMAIN values
      /\ index \in DOMAIN Ops(block) /\ block \in Nat /\ index \in Nat
      /\ Advance /\ AtOp /\ graph' = graph
      /\ \A c \in DOMAIN values : c \in Blocks
  BY HereFacts DEF OperationStep, Advance, AtOp, TypeInv
<1>2. /\ DOMAIN values' = DOMAIN values
      /\ \A c \in DOMAIN values : c # block => values'[c] = values[c]
  BY OperationRanges
<1>3. /\ \A b \in Nat, n \in Nat :
           Seen(b, n)' <=> Seen(b, n) \/ (b = block /\ n = index)
      /\ \A b \in Nat, n \in Nat : Seen(b, n) =>
           known'[<<b, n>>] = known[<<b, n>>]
      /\ known'[<<block, index>>] = Here
  BY <1>1, <1>2, AdvanceSeen
<1>4. \A k \in Nat : Seen(block, k) => k < index
  BY <1>1 DEF Seen, Advance, Analyzing
<1>5. ASSUME NEW b \in DOMAIN values, NEW n \in DOMAIN Ops(b), Seen(b, n)'
      PROVE  /\ Ops(b)[n].id \in DOMAIN values'[b]
             /\ \A k \in Nat : n < k /\ Seen(b, k)' =>
                  \A e \in Int : Includes(known'[<<b, k>>][Ops(b)[n].id], e) =>
                    \/ Includes(values'[b][Ops(b)[n].id], e)
                    \/ FailsAhead(b, k, Ops(b)[n].id, e)
  <2>1. b \in Nat /\ n \in Nat
    BY <1>1, BlockFacts
  <2>2. CASE b # block
    BY <1>2, <1>3, <1>5, <2>1, <2>2 DEF StableInv
  <2>3. CASE b = block /\ n = index
    <3>1. Ops(b)[n].id \in DOMAIN values'[b]
      BY <2>3, OperationGives DEF CurrentOp
    <3>2. \A k \in Nat : n < k => ~ Seen(b, k)'
      BY <1>1, <1>3, <1>4, <2>3
    <3> QED  BY <2>1, <3>1, <3>2
  <2>4. CASE b = block /\ n # index
    <3>1. Seen(b, n) /\ n < index
      BY <1>3, <1>4, <1>5, <2>1, <2>4
    <3> DEFINE name == Ops(b)[n].id
    <3>2. /\ name \in DOMAIN Here
          /\ \A k \in Nat : n < k /\ Seen(b, k) =>
               \A e \in Int : Includes(known[<<b, k>>][name], e) =>
                 Includes(Here[name], e) \/ FailsAhead(b, k, name, e)
      BY <2>4, <3>1 DEF StableInv, Here
    <3>3. /\ name \in DOMAIN values'[b]
          /\ \A e \in Int : Includes(Here[name], e) =>
               \/ Includes(values'[b][name], e)
               \/ e \notin MinInt .. MaxInt /\ Converts(CurrentOp, name)
      BY <2>4, <3>1, <3>2, OperationKeeps
    <3>4. ASSUME NEW k \in Nat, k <= index, NEW e \in Int,
                 e \notin MinInt .. MaxInt, Converts(CurrentOp, name)
          PROVE  FailsAhead(b, k, name, e)
      BY <1>1, <2>4, <3>4 DEF FailsAhead, CurrentOp
    <3>5. \A k \in Nat : Seen(b, k)' =>
            (Seen(b, k) /\ k < index) \/ k = index
      BY <1>3, <1>4, <2>1, <2>4
    <3> HIDE DEF name
    <3>6. ASSUME NEW k \in Nat, n < k, Seen(b, k)', NEW e \in Int,
                 Includes(known'[<<b, k>>][name], e)
          PROVE  Includes(values'[b][name], e) \/ FailsAhead(b, k, name, e)
      <4>1. CASE Seen(b, k) /\ k < index
        BY <1>1, <1>3, <2>1, <3>2, <3>3, <3>4, <3>6, <4>1
      <4>2. CASE k = index
        BY <1>1, <1>3, <2>4, <3>3, <3>4, <3>6, <4>2
      <4> QED  BY <3>5, <3>6, <4>1, <4>2
    <3> QED  BY <3>3, <3>6 DEF name
  <2> QED  BY <2>2, <2>3, <2>4
<1>6. \A b, k, name, e :
        FailsAhead(b, k, name, e)' <=> FailsAhead(b, k, name, e)
  BY <1>1, FailsAheadStays
<1>7. \A b : Ops(b)' = Ops(b)
  BY <1>1, GraphOperators
<1> QED  BY <1>1, <1>2, <1>5, <1>6, <1>7 DEF StableInv

LEMMA StableLink ==
  ASSUME TypeInv, StableInv, LinkStep
  PROVE  StableInv'
<1>1. /\ graph \in GraphSet /\ block \in Blocks /\ block \in DOMAIN values
      /\ index = Last(block) /\ block \in Nat /\ index \in Nat
      /\ Advance /\ ~ AtOp /\ graph' = graph
      /\ \A c \in DOMAIN values : c \in Blocks
  BY HereFacts DEF LinkStep, Advance, TypeInv
<1>2. /\ \A c \in DOMAIN values :
           c \in DOMAIN values' /\ (c <= block => values'[c] = values[c])
      /\ \A c \in DOMAIN values' :
           c \in DOMAIN values \/ (c \in Blocks /\ block < c)
  BY DEF LinkStep, Grows
<1>3. /\ \A b \in Nat, n \in Nat :
           Seen(b, n)' <=> Seen(b, n) \/ (b = block /\ n = index)
      /\ \A b \in Nat, n \in Nat : Seen(b, n) =>
           known'[<<b, n>>] = known[<<b, n>>]
      /\ known'[<<block, index>>] = Here
  BY <1>1, <1>2, AdvanceSeen
<1>4. \A b \in Nat, n \in Nat : Seen(b, n) => b \in DOMAIN values /\ b <= block
  BY <1>1 DEF Seen, Advance, Analyzing
<1>5. ASSUME NEW b \in DOMAIN values', NEW n \in DOMAIN Ops(b), Seen(b, n)'
      PROVE  /\ Ops(b)[n].id \in DOMAIN values'[b]
             /\ \A k \in Nat : n < k /\ Seen(b, k)' =>
                  \A e \in Int : Includes(known'[<<b, k>>][Ops(b)[n].id], e) =>
                    \/ Includes(values'[b][Ops(b)[n].id], e)
                    \/ FailsAhead(b, k, Ops(b)[n].id, e)
  <2>1. b \in Nat /\ n \in Nat
    BY <1>1, <1>2, BlockFacts
  <2>2. Seen(b, n)
    <3>1. b = block => n # index
      BY <1>1 DEF AtOp
    <3> QED  BY <1>3, <1>5, <2>1, <3>1
  <2>3. b \in DOMAIN values /\ b <= block /\ values'[b] = values[b]
    BY <1>2, <1>4, <2>1, <2>2
  <2>4. /\ Ops(b)[n].id \in DOMAIN values[b]
        /\ \A k \in Nat : n < k /\ Seen(b, k) =>
             \A e \in Int : Includes(known[<<b, k>>][Ops(b)[n].id], e) =>
               \/ Includes(values[b][Ops(b)[n].id], e)
               \/ FailsAhead(b, k, Ops(b)[n].id, e)
    BY <2>2, <2>3 DEF StableInv
  <2> QED  BY <1>3, <2>1, <2>3, <2>4 DEF Here
<1>6. \A b, k, name, e :
        FailsAhead(b, k, name, e)' <=> FailsAhead(b, k, name, e)
  BY <1>1, FailsAheadStays
<1>7. \A b : Ops(b)' = Ops(b)
  BY <1>1, GraphOperators
<1> QED  BY <1>1, <1>5, <1>6, <1>7 DEF StableInv

LEMMA StableStep ==
  ASSUME TypeInv, StableInv, [Next]_vars,
         phase' # "crashed", phase # "crashed"
  PROVE  StableInv'
<1>1. graph \in GraphSet
  BY DEF TypeInv
<1>2. CASE OperationStep
  BY <1>2, StableOperation
<1>3. CASE LinkStep
  BY <1>3, StableLink
<1>4. CASE SkipBlock
  <2>1. block \notin DOMAIN values /\ block \in Nat
    BY <1>4 DEF SkipBlock, TypeInv
  <2>2. index = 1
    BY <1>4, <2>1 DEF SkipBlock, TypeInv
  <2>3. \A b \in Nat, n \in Nat : Seen(b, n)' <=> Seen(b, n)
    <3> TAKE b \in Nat, n \in Nat
    <3>1. Last(b)' = Last(b)
      BY <1>4, GraphOperators DEF SkipBlock
    <3> QED  BY <1>4, <2>1, <2>2, <3>1 DEF SkipBlock, Seen
  <2> QED  BY <1>4, <2>3, StableAlone DEF SkipBlock
<1>5. CASE Call
  <2>1. \A b \in DOMAIN values : b \in Nat /\ b < block
    BY <1>5, BlockFacts DEF Call, TypeInv
  <2>2. \A b \in Nat, n \in Nat : Seen(b, n)' <=> Seen(b, n)
    <3> TAKE b \in Nat, n \in Nat
    <3>1. Last(b)' = Last(b)
      BY <1>5, GraphOperators DEF Call
    <3> QED  BY <1>5, <2>1, <3>1 DEF Call, Seen
  <2> QED  BY <1>5, <2>2, StableAlone DEF Call
<1>6. CASE RunOperation \/ RunRaises \/ RunGoto \/ RunBranch \/ RunEnd
  <2>1. /\ phase = "run" /\ phase' \in {"run", "returned", "raised"}
        /\ graph' = graph /\ values' = values /\ known' = known
    BY <1>6 DEF RunOperation, RunRaises, RunGoto, RunBranch, RunEnd, CanRun,
                AtEnd, Jump
  <2>2. \A b \in Nat, n \in Nat : Seen(b, n)' <=> Seen(b, n)
    BY <2>1, GraphOperators DEF Seen
  <2> QED  BY <2>1, <2>2, StableAlone
<1>7. CASE UNCHANGED vars
  <2>1. \A b \in Nat, n \in Nat : Seen(b, n)' <=> Seen(b, n)
    BY <1>7, GraphOperators DEF vars, Seen
  <2> QED  BY <1>7, <2>1, StableAlone DEF vars
<1> QED  BY <1>2, <1>3, <1>4, <1>5, <1>6, <1>7, StepCases

LEMMA StableFolds ==
  ASSUME TypeInv, RunInv, StableInv
  PROVE  FoldingSound
<1> SUFFICES ASSUME phase = "run", NEW n \in DOMAIN Ops(block), n < index,
                    NEW constant \in FoldsTo(block, Ops(block)[n].id)
             PROVE  \/ env[Ops(block)[n].id] = constant
                    \/ MustRaise(Ops(block)[n].id)
  BY DEF FoldingSound
<1> DEFINE name == Ops(block)[n].id
           r == values[block][name]
<1>1. Running
  BY DEF RunInv
<1>2. /\ name \in DOMAIN values[block] /\ IsConstant(r) /\ constant = r.low
  BY DEF FoldsTo
<1>3. /\ graph \in GraphSet /\ block \in DOMAIN values /\ block \in Blocks
      /\ block \in Nat /\ index \in Nat /\ index \in 1 .. Last(block)
  BY <1>1 DEF Running, TypeInv
<1>4. n \in 1 .. Last(block) /\ n \in Nat
  BY <1>3, BlockFacts DEF Last
<1>5. Seen(block, n) /\ Seen(block, index)
  BY <1>3, <1>4 DEF Seen
<1>6. \A e \in Int : Includes(known[<<block, index>>][name], e) =>
        Includes(r, e) \/ FailsAhead(block, index, name, e)
  BY <1>3, <1>5 DEF StableInv
<1>7. /\ name \in DOMAIN env /\ env[name] \in Int
      /\ Includes(known[<<block, index>>][name], env[name])
  BY <1>1 DEF Running, EnvInv, Models
<1>8. r \in RangeType
  BY <1>2, <1>3 DEF TypeInv, IsRanges
<1>9. FailsAhead(block, index, name, env[name]) => MustRaise(name)
  BY DEF FailsAhead, MustRaise
<1> HIDE DEF r, name
<1> QED  BY <1>2, <1>6, <1>7, <1>8, <1>9, ConstantIncludes DEF name

-----------------------------------------------------------------------------
(***************************************************************************)
(* The theorems.                                                           *)
(***************************************************************************)

LEMMA Initially == Init => Inv
<1> SUFFICES ASSUME Init PROVE Inv
  OBVIOUS
<1>1. RunInv
  BY DEF Init, RunInv, RangesSound
<1> QED  BY <1>1, TypeInit, AnalysisInitially DEF Inv

LEMMA Stuttering ==
  ASSUME TypeInv, AnalysisInv, RunInv, UNCHANGED vars
  PROVE  TypeInv' /\ AnalysisInv' /\ RunInv'
<1>1. /\ graph' = graph /\ values' = values /\ known' = known
      /\ phase' = phase /\ block' = block /\ index' = index
      /\ env' = env /\ from' = from
  BY DEF vars
<1>2. /\ Blocks' = Blocks
      /\ \A b : Ops(b)' = Ops(b) /\ Last(b)' = Last(b)
      /\ \A name : Comparison(name)' = Comparison(name)
  BY <1>1, GraphOperators
<1>3. Last(block)' = Last(block)
  BY <1>1 DEF Last, Ops, OpsOf
<1>4. \A b \in Nat, n \in Nat : Seen(b, n)' <=> Seen(b, n)
  BY <1>1, <1>2 DEF Seen
<1>5. \A b \in DOMAIN values : Done(b)' <=> Done(b)
  BY <1>1 DEF Done
<1>6. AnalysisInv'
  BY <1>1, <1>4, <1>5, AnalysisRests
<1>7. TypeInv'
  BY <1>1, <1>2, <1>3, <1>4 DEF TypeInv, IsRanges
<1>8. ASSUME Running PROVE Running'
  <2>1. EnvInv'
    <3>1. \A name : Before(block, index, name)' <=> Before(block, index, name)
      BY <1>1 DEF Before
    <3>2. ASSUME NEW name \in DOMAIN env, NEW op \in Comparison(name)
          PROVE  HasOperands(env, op) /\ env[name] \in Results(op, env)'
      <4>1. op.kind \in Comparisons /\ OperandsTyped(op)
        BY ComparisonFacts DEF TypeInv
      <4>2. HasOperands(env, op) /\ env[name] \in Results(op, env)
        BY <1>8, <3>2 DEF Running, EnvInv
      <4>3. PICK e : e = env
        OBVIOUS
      <4>4. Results(op, e)' = Results(op, e)
        BY <4>1, <4>2, <4>3, ComparisonStays
      <4>5. Results(op, env)' = Results(op, e)'
        BY <1>1, <4>3
      <4> QED  BY <4>2, <4>3, <4>4, <4>5
    <3>3. \A name \in DOMAIN env :
            /\ env[name] \in Int
            /\ Before(block, index, name)
            /\ name \in graph.bools => env[name] \in {0, 1}
      BY <1>8 DEF Running, EnvInv
    <3> QED  BY <1>1, <1>2, <3>1, <3>2, <3>3 DEF EnvInv, HasOperands, Has
  <2>2. \A name : Fresh(block, index, name)' <=> Fresh(block, index, name)
    BY <1>1 DEF Fresh, Ops, OpsOf
  <2>3. FromInv'
    BY <1>1, <1>8, <2>2 DEF Running, FromInv
  <2>4. (\A n \in DOMAIN Ops(block) : n < index => Ops(block)[n].id \in DOMAIN env)'
    BY <1>1, <1>8 DEF Running, Ops, OpsOf
  <2>5. Models(known[<<block, index>>], env)'
    BY <1>1, <1>8 DEF Running, Models
  <2> QED  BY <1>1, <1>3, <1>8, <2>1, <2>3, <2>4, <2>5 DEF Running
<1>9. RunInv'
  BY <1>1, <1>8 DEF RunInv, RangesSound
<1> QED  BY <1>6, <1>7, <1>9

LEMMA Inductive == Inv /\ [Next]_vars => Inv'
<1> SUFFICES ASSUME Inv, [Next]_vars, phase' # "crashed" PROVE Inv'
  BY DEF Inv
<1>1. CASE Next
  <2>1. phase # "crashed"
    BY <1>1 DEF Next, SkipBlock, AnalyzeOperation, AnalyzeGoto,
                AnalyzeDecided, AnalyzeBranch, AnalyzeEnd, AtLink, Analyzing,
                Call, RunOperation, RunRaises, RunGoto, RunBranch, RunEnd,
                CanRun, AtEnd
  <2>2. TypeInv /\ AnalysisInv /\ RunInv
    BY <2>1 DEF Inv
  <2> QED  BY <1>1, <2>2, TypeStep, AnalysisStep, RunStep DEF Inv
<1>2. CASE UNCHANGED vars
  BY <1>2, Stuttering DEF Inv, vars
<1> QED  BY <1>1, <1>2

\* The analysis and the run keep step: the three layers of the invariant hold
\* throughout, whatever the graph and the arguments are.
THEOREM AnalysisInvariant == Spec => []Inv
<1> QED  BY Initially, Inductive, PTL DEF Spec

\* AbstractInterpreter is right: at the end of each block of a run, each name
\* has a value in the range that the analysis has for it there, for every
\* graph, on every path and for every argument.
THEOREM RangesAreSound == Spec => []RangesSound
<1>1. Inv => RangesSound
  BY DEF Inv, RunInv, RangesSound
<1> QED  BY <1>1, AnalysisInvariant, PTL

\* A block that the analysis does not reach, and whose operations
\* IntOpOptimizer leaves alone as dead, is never run.
THEOREM DeadBlocksStayDead == Spec => []DeadBlocksNotRun
<1>1. Inv => DeadBlocksNotRun
  BY DEF Inv, RunInv, Running, DeadBlocksNotRun
<1> QED  BY <1>1, AnalysisInvariant, PTL

\* In every function, IntOpOptimizer (_optimize_op) may put a constant in the
\* place of an operation whose range at the end of its block is one number: the
\* operation computes it, or the rest of the block raises.  That a conversion in
\* the rest of the block raises is what it narrows the range by, so with the
\* constant in place it does not raise any more.
THEOREM FoldingIsSound == Spec => []FoldingSound
<1> DEFINE Folds == phase # "crashed" => StableInv
<1>1. Init => Folds
  <2> SUFFICES ASSUME Init PROVE StableInv
    OBVIOUS
  <2>1. DOMAIN values = {Start} /\ phase = "analyze" /\ block = Start /\ index = 1
    BY DEF Init
  <2>2. TypeInv
    BY TypeInit
  <2>3. \A b \in DOMAIN values : \A n \in DOMAIN Ops(b) : ~ Seen(b, n)
    BY <2>1, <2>2, BlockFacts DEF Seen, TypeInv, Start
  <2> QED  BY <2>3 DEF StableInv
<1>2. Inv /\ Folds /\ [Next]_vars => Folds'
  <2> SUFFICES ASSUME Inv, Folds, [Next]_vars, phase' # "crashed"
               PROVE  StableInv'
    OBVIOUS
  <2>1. phase # "crashed"
    BY DEF Next, vars, SkipBlock, AnalyzeOperation, AnalyzeGoto,
           AnalyzeDecided, AnalyzeBranch, AnalyzeEnd, AtLink, Analyzing,
           Call, RunOperation, RunRaises, RunGoto, RunBranch, RunEnd,
           CanRun, AtEnd
  <2>2. TypeInv /\ StableInv
    BY <2>1 DEF Inv
  <2> QED  BY <2>1, <2>2, StableStep
<1>3. Inv /\ Folds => FoldingSound
  BY StableFolds DEF Inv, FoldingSound
<1> HIDE DEF Folds
<1> QED  BY <1>1, <1>2, <1>3, AnalysisInvariant, PTL DEF Spec

-----------------------------------------------------------------------------
(***************************************************************************)
(* What keeps ranges from being empty.                                     *)
(***************************************************************************)

\* A range is valid exactly if it has a number, ...
LEMMA HasNumber ==
  ASSUME NEW r \in RangeType
  PROVE  Valid(r) <=> \E n \in Int : Includes(r, n)
<1>1. r.low \in Bound /\ r.high \in Bound
  BY DEF RangeType
<1>2. ASSUME NEW n \in Int, Includes(r, n) PROVE Valid(r)
  BY <1>1, <1>2, NoneAssumption DEF Valid, IsBounded, Includes, Bound
<1>3. ASSUME Valid(r) PROVE \E n \in Int : Includes(r, n)
  <2>1. CASE r.low # None
    <3>1. r.low \in Int /\ Includes(r, r.low)
      BY <1>1, <1>3, <2>1, NoneAssumption DEF Valid, IsBounded, Includes, Bound
    <3> QED  BY <3>1
  <2>2. CASE r.low = None /\ r.high # None
    <3>1. r.high \in Int /\ Includes(r, r.high)
      BY <1>1, <2>2, NoneAssumption DEF Includes, Bound
    <3> QED  BY <3>1
  <2>3. CASE r.low = None /\ r.high = None
    <3>1. 0 \in Int /\ Includes(r, 0)
      BY <2>3 DEF Includes
    <3> QED  BY <3>1
  <2> QED  BY <2>1, <2>2, <2>3
<1> QED  BY <1>2, <1>3

\* ... so that an operation which is right on numbers gives a valid range.
LEMMA ArithmeticValid ==
  ASSUME NEW r \in RangeType, NEW s \in RangeType, Valid(r), Valid(s)
  PROVE  /\ Valid(Add(r, s)) /\ Valid(Sub(r, s)) /\ Valid(Mul(r, s))
         /\ Valid(Tdiv(r, s)) /\ Valid(Ediv(r, s))
         /\ Valid(Lshift(r, s)) /\ Valid(Rshift(r, s))
<1>1. PICK m \in Int, n \in Int : Includes(r, m) /\ Includes(s, n)
  BY HasNumber
<1>2. /\ r.low \in Bound /\ r.high \in Bound
      /\ s.low \in Bound /\ s.high \in Bound
  BY DEF RangeType
<1>3. /\ Add(r, s) \in RangeType /\ Sub(r, s) \in RangeType
      /\ Mul(r, s) \in RangeType
      /\ Tdiv(r, s) \in RangeType /\ Ediv(r, s) \in RangeType
      /\ Lshift(r, s) \in RangeType /\ Rshift(r, s) \in RangeType
  BY ArithmeticIsRange
<1>4. Valid(Unbounded) /\ \A low \in Bound : Valid(R(low, None))
  BY DEF Valid, IsBounded, Unbounded, R
<1>5. Valid(Add(r, s)) /\ Valid(Sub(r, s))
  <2>1. m + n \in Int /\ m - n \in Int
    OBVIOUS
  <2>2. Includes(Add(r, s), m + n) /\ Includes(Sub(r, s), m - n)
    BY <1>1, AddSubSound
  <2> QED  BY <1>3, <2>1, <2>2, HasNumber
<1>6. Valid(Mul(r, s))
  <2>1. m * n \in Int
    OBVIOUS
  <2>2. Includes(Mul(r, s), m * n)
    BY <1>1, MulSound
  <2> QED  BY <1>3, <2>1, <2>2, HasNumber
<1>7. Valid(Tdiv(r, s))
  <2>1. CASE s.low = None \/ s.low < 1
    BY <1>4, <2>1 DEF Tdiv
  <2>2. CASE ~ (s.low = None \/ s.low < 1)
    <3>1. n >= 1
      BY <1>1, <1>2, <2>2, NoneAssumption DEF Includes, Bound
    <3>2. TruncDiv(m, n) \in Int
      BY <3>1, TruncDivInteger
    <3>3. Includes(Tdiv(r, s), TruncDiv(m, n))
      BY <1>1, <3>1, TdivSound
    <3> QED  BY <1>3, <3>2, <3>3, HasNumber
  <2> QED  BY <2>1, <2>2
<1>8. Valid(Ediv(r, s))
  BY <1>2, <1>4, NoneAssumption
  DEF Ediv, Valid, IsBounded, Bound, R
<1>9. CASE n >= 0
  <2>1. n \in Nat
    BY <1>9
  <2>2. Pow2[n] \in Nat /\ Pow2[n] >= 1
    BY <2>1, Pow2Monotone
  <2>3. ShiftLeft(m, n) \in Int /\ ShiftRight(m, n) \in Int
    <3> DEFINE k == Pow2[n]
    <3>1. m * k \in Int /\ m \div k \in Int
      <4> HIDE DEF k
      <4>1. k \in Nat /\ k >= 1
        BY <2>2 DEF k
      <4> QED  BY <4>1
    <3> QED  BY <3>1 DEF ShiftLeft, ShiftRight
  <2>4. Includes(Lshift(r, s), ShiftLeft(m, n)) /\ Includes(Rshift(r, s), ShiftRight(m, n))
    BY <1>1, <2>1, LshiftSound, RshiftSound
  <2> QED  BY <1>3, <1>5, <1>6, <1>7, <1>8, <2>3, <2>4, HasNumber
<1>10. CASE n < 0
  <2>1. ~ (s.low # None /\ 0 <= s.low)
    BY <1>1, <1>2, <1>10, NoneAssumption DEF Includes, Bound
  <2>2. ~ (IsBounded(s) /\ 0 <= s.low)
    BY <2>1 DEF IsBounded
  <2>3. Valid(Rshift(r, s))
    BY <1>4, <2>2 DEF Rshift
  <2>4. Valid(Lshift(r, s))
    BY <2>2 DEF Lshift, Valid, IsBounded, Unbounded, R
  <2> QED  BY <1>5, <1>6, <1>7, <1>8, <2>3, <2>4
<1> QED  BY <1>9, <1>10

\* Constants, ranges of types and the answers of comparisons are not empty.
LEMMA OtherRangesValid ==
  /\ Valid(Bool) /\ Valid(True) /\ Valid(False)
  /\ Valid(Unbounded) /\ Valid(MachineInt)
  /\ \A n \in Int : Valid(Const(n))
  /\ \A r, s : Valid(Le(r, s)) /\ Valid(Lt(r, s)) /\ Valid(Ge(r, s)) /\ Valid(Gt(r, s))
<1>1. Valid(Bool) /\ Valid(True) /\ Valid(False) /\ Valid(Unbounded)
  BY DEF Valid, IsBounded, Bool, True, False, Unbounded, R
<1>2. Valid(MachineInt)
  BY MaxIntAssumption DEF Valid, MachineInt, MinInt, R
<1>3. \A n \in Int : Valid(Const(n))
  BY DEF Valid, Const, R
<1>4. \A r, s : Valid(Le(r, s)) /\ Valid(Lt(r, s))
  BY <1>1 DEF Le, Lt
<1> QED  BY <1>1, <1>2, <1>3, <1>4 DEF Ge, Gt

\* what is left of a range after a conversion, if anything can be
LEMMA ToMachineIntValid ==
  ASSUME NEW r \in RangeType, NEW n \in MinInt .. MaxInt, Includes(r, n)
  PROVE  Valid(ToMachineInt(r))
<1>1. n \in Int
  BY MaxIntAssumption DEF MinInt
<1>2. ToMachineInt(r) \in RangeType
  BY OtherOperationsAreRanges
<1>3. Includes(ToMachineInt(r), n)
  BY ToMachineIntSound
<1> QED  BY <1>1, <1>2, <1>3, HasNumber

\* The range that an operation computes is not empty, if no conversion is
\* known to fail.
LEMMA TransferValid ==
  ASSUME NEW m, IsRanges(m), NEW op, OperandsTyped(op), op.kind # "phi",
         HasOperands(m, op),
         op.kind = "int_to_int64" =>
           \E n \in MinInt .. MaxInt : Includes(Bounds(m, op.args[1]), n)
  PROVE  Valid(Transfer(op, m))
<1> DEFINE a == Bounds(m, op.args[1])
           b == Bounds(m, op.args[2])
<1>1. CASE op.kind \in Binary
  <2>1. DOMAIN op.args = {1, 2}
    BY <1>1 DEF OperandsTyped, Binary, Comparisons, Unary, Calls
  <2>2. /\ a \in RangeType /\ Valid(a)
        /\ b \in RangeType /\ Valid(b)
    BY <2>1, BoundsTyped DEF OperandsTyped, HasOperands
  <2> HIDE DEF a, b
  <2>3. /\ Valid(Add(a, b)) /\ Valid(Sub(a, b)) /\ Valid(Mul(a, b))
        /\ Valid(Tdiv(a, b)) /\ Valid(Ediv(a, b))
        /\ Valid(Lshift(a, b)) /\ Valid(Rshift(a, b))
    BY <2>2, ArithmeticValid
  <2>4. Valid(Le(a, b)) /\ Valid(Lt(a, b)) /\ Valid(Ge(a, b)) /\ Valid(Gt(a, b)) /\ Valid(Bool)
    BY OtherRangesValid
  <2> QED  BY <1>1, <2>3, <2>4
           DEF Transfer, Binary, Comparisons, Unary, Calls, a, b
<1>2. CASE op.kind \in Unary
  <2>1. DOMAIN op.args = {1}
    BY <1>2 DEF OperandsTyped, Binary, Comparisons, Unary, Calls
  <2>2. a \in RangeType /\ Valid(a)
    BY <2>1, BoundsTyped DEF OperandsTyped, HasOperands
  <2>3. Const(1) \in RangeType /\ Valid(Const(1))
    BY ConstantRanges, OtherRangesValid
  <2>4. op.kind = "int_to_int64" => \E n \in MinInt .. MaxInt : Includes(a, n)
    OBVIOUS
  <2> HIDE DEF a
  <2>5. Valid(Lshift(Const(1), a))
    BY <2>2, <2>3, ArithmeticValid
  <2>6. op.kind = "int_to_int64" => Valid(ToMachineInt(a))
    BY <2>2, <2>4, ToMachineIntValid
  <2> QED  BY <1>2, <2>2, <2>5, <2>6 DEF Transfer, Unary, Calls, a
<1>3. CASE op.kind \in Calls
  BY <1>3, OtherRangesValid DEF Transfer, DefaultRange, Calls
<1> QED  BY <1>1, <1>2, <1>3 DEF OperandsTyped

\* Ranges stay valid if a valid one is put among them, ...
LEMMA PutValid ==
  ASSUME NEW m, RangesValid(m), NEW x, NEW r, Valid(r)
  PROVE  RangesValid(Put(m, x, r))
BY DEF RangesValid, Put

\* ... and if a condition tells of an operand.
LEMMA WithValid ==
  ASSUME NEW m, RangesValid(m), NEW operand, NEW r, Valid(r)
  PROVE  RangesValid(With(m, operand, r))
BY PutValid DEF With

\* Narrowing by an undecided comparison leaves both of its operands something.
LEMMA NarrowByValid ==
  ASSUME NEW m, IsRanges(m), NEW op, OperandsTyped(op),
         op.kind \in Comparisons, HasOperands(m, op), NEW truth \in BOOLEAN,
         op.kind # "eq" => Transfer(op, m) = Bool
  PROVE  RangesValid(NarrowBy(m, op, truth))
<1> DEFINE swapped == op.kind \in {"gteq", "gt"}
           a == IF swapped THEN op.args[2] ELSE op.args[1]
           b == IF swapped THEN op.args[1] ELSE op.args[2]
           ra == Bounds(m, a)
           rb == Bounds(m, b)
<1>1. DOMAIN op.args = {1, 2}
  BY DEF OperandsTyped, Comparisons, Binary, Unary, Calls
<1>2. /\ Has(m, a) /\ (IsNum(a) => a.num \in Int)
      /\ Has(m, b) /\ (IsNum(b) => b.num \in Int)
  BY <1>1 DEF HasOperands, OperandsTyped
<1>3. RangesValid(m)
  BY DEF RangesValid, IsRanges
<1>4. /\ op.kind \in {"lteq", "gteq"} => Transfer(op, m) = Le(ra, rb)
      /\ op.kind \in {"lt", "gt"} => Transfer(op, m) = Lt(ra, rb)
  <2>1. CASE op.kind = "lteq"
    BY <2>1 DEF Transfer, Calls
  <2>2. CASE op.kind = "gteq"
    BY <2>2 DEF Transfer, Ge, Calls
  <2>3. CASE op.kind = "lt"
    BY <2>3 DEF Transfer, Calls
  <2>4. CASE op.kind = "gt"
    BY <2>4 DEF Transfer, Gt, Calls
  <2> QED  BY <2>1, <2>2, <2>3, <2>4
<1>5. NarrowBy(m, op, truth) =
        CASE op.kind \in {"lteq", "gteq"} /\ truth ->
               With(With(m, a, MakeLe(ra, rb)), b, MakeGe(rb, ra))
          [] op.kind \in {"lteq", "gteq"} /\ ~ truth ->
               With(With(m, a, MakeGt(ra, rb)), b, MakeLt(rb, ra))
          [] op.kind \in {"lt", "gt"} /\ truth ->
               With(With(m, a, MakeLt(ra, rb)), b, MakeGt(rb, ra))
          [] op.kind \in {"lt", "gt"} /\ ~ truth ->
               With(With(m, a, MakeGe(ra, rb)), b, MakeLe(rb, ra))
          [] op.kind = "eq" /\ truth ->
               IF IsConstant(rb)
               THEN With(IF IsConstant(ra) THEN With(m, b, ra) ELSE m, a, rb)
               ELSE IF IsConstant(ra) THEN With(m, b, ra) ELSE m
          [] OTHER -> m
  BY DEF NarrowBy
<1> HIDE DEF a, b
<1>6. ra \in RangeType /\ rb \in RangeType /\ Valid(ra) /\ Valid(rb)
  BY <1>2, BoundsTyped
<1> HIDE DEF ra, rb
<1>7. /\ Le(ra, rb) = Bool =>
           /\ Valid(MakeLe(ra, rb)) /\ Valid(MakeGe(rb, ra))
           /\ Valid(MakeGt(ra, rb)) /\ Valid(MakeLt(rb, ra))
      /\ Lt(ra, rb) = Bool =>
           /\ Valid(MakeLt(ra, rb)) /\ Valid(MakeGt(rb, ra))
           /\ Valid(MakeGe(ra, rb)) /\ Valid(MakeLe(rb, ra))
  BY <1>6, UndecidedNarrowsToNonempty
<1>8. \A r, s : Valid(r) /\ Valid(s) => RangesValid(With(With(m, a, r), b, s))
                                        /\ RangesValid(With(With(m, b, r), a, s))
  BY <1>3, WithValid
<1>9. RangesValid(With(m, b, ra)) /\ RangesValid(With(m, a, rb))
  BY <1>3, <1>6, WithValid
<1>10. CASE op.kind \in {"lteq", "gteq"}
  <2>1. Le(ra, rb) = Bool
    BY <1>4, <1>10
  <2> QED  BY <1>5, <1>7, <1>8, <1>10, <2>1
<1>11. CASE op.kind \in {"lt", "gt"}
  <2>1. Lt(ra, rb) = Bool
    BY <1>4, <1>11
  <2> QED  BY <1>5, <1>7, <1>8, <1>11, <2>1
<1>12. CASE op.kind = "eq"
  BY <1>3, <1>5, <1>6, <1>8, <1>9, <1>12
<1> QED  BY <1>10, <1>11, <1>12 DEF Comparisons

\* A comparison that does not answer TRUE or FALSE has the range of both.
LEMMA UndecidedComparison ==
  ASSUME NEW m, NEW op, op.kind \in Comparisons, op.kind # "eq",
         Transfer(op, m) # True, Transfer(op, m) # False
  PROVE  Transfer(op, m) = Bool
<1>1. \A r, s : /\ Le(r, s) \in {Bool, True, False}
                /\ Lt(r, s) \in {Bool, True, False}
                /\ Ge(r, s) \in {Bool, True, False}
                /\ Gt(r, s) \in {Bool, True, False}
  BY DEF Le, Lt, Ge, Gt
<1> DEFINE a == Bounds(m, op.args[1])
           b == Bounds(m, op.args[2])
<1>2. CASE op.kind = "lteq"
  <2>1. Transfer(op, m) = Le(a, b)
    BY <1>2 DEF Transfer, Calls
  <2> QED  BY <1>1, <2>1
<1>3. CASE op.kind = "lt"
  <2>1. Transfer(op, m) = Lt(a, b)
    BY <1>3 DEF Transfer, Calls
  <2> QED  BY <1>1, <2>1
<1>4. CASE op.kind = "gteq"
  <2>1. Transfer(op, m) = Ge(a, b)
    BY <1>4 DEF Transfer, Calls
  <2> QED  BY <1>1, <2>1
<1>5. CASE op.kind = "gt"
  <2>1. Transfer(op, m) = Gt(a, b)
    BY <1>5 DEF Transfer, Calls
  <2> QED  BY <1>1, <2>1
<1> QED  BY <1>2, <1>3, <1>4, <1>5 DEF Comparisons

\* A branch that is not decided leaves something on both ways, if its condition
\* still has the range that its operands give it.
LEMMA BranchValid ==
  ASSUME NEW m, IsRanges(m), NEW name, name \in DOMAIN m,
         graph \in GraphSet,
         \A op \in Comparison(name) :
           /\ HasOperands(m, op)
           /\ op.kind # "eq" => m[name] = Transfer(op, m),
         m[name] # True, m[name] # False,
         NEW truth \in BOOLEAN
  PROVE  RangesValid(Branch(m, name, truth))
<1>1. RangesValid(m)
  BY DEF RangesValid, IsRanges
<1>2. RangesValid(Condition(m, name, truth))
  <2>1. CASE Comparison(name) = {}
    BY <1>1, <2>1 DEF Condition
  <2>2. CASE Comparison(name) # {}
    <3> DEFINE op == CHOOSE o \in Comparison(name) : TRUE
    <3>1. op \in Comparison(name)
      BY <2>2
    <3>2. Condition(m, name, truth) = NarrowBy(m, op, truth)
      BY <2>2 DEF Condition
    <3> HIDE DEF op
    <3>3. op.kind \in Comparisons /\ OperandsTyped(op) /\ HasOperands(m, op)
      BY <3>1, ComparisonFacts
    <3>4. op.kind # "eq" => Transfer(op, m) = Bool
      BY <3>1, <3>3, UndecidedComparison
    <3> QED  BY <3>2, <3>3, <3>4, NarrowByValid
  <2> QED  BY <2>1, <2>2
<1>3. Valid(IF truth THEN True ELSE False)
  BY OtherRangesValid
<1> QED  BY <1>2, <1>3, PutValid DEF Branch

\* the names of a merge: none is lost, and none of what is new
LEMMA MergeNames ==
  ASSUME NEW result, NEW target, NEW new
  PROVE  LET merged == Merge(result, target, new)
         IN  /\ DOMAIN merged = DOMAIN result \union {target}
             /\ DOMAIN new \subseteq DOMAIN merged[target]
             /\ \A c \in DOMAIN result : DOMAIN result[c] \subseteq DOMAIN merged[c]
<1> DEFINE old == IF target \in DOMAIN result THEN result[target] ELSE <<>>
           both == [name \in DOMAIN new \union DOMAIN old |->
                      IF name \notin DOMAIN new THEN old[name]
                      ELSE IF name \notin DOMAIN old THEN new[name]
                      ELSE Union(new[name], old[name])]
           merged == Merge(result, target, new)
<1>1. merged = Put(result, target, both)
  BY DEF Merge
<1>2. DOMAIN both = DOMAIN new \union DOMAIN old
  OBVIOUS
<1>3. target \in DOMAIN result => old = result[target]
  OBVIOUS
<1> HIDE DEF both, old, merged
<1>4. DOMAIN merged = DOMAIN result \union {target} /\ merged[target] = both
  BY <1>1 DEF Put
<1>5. \A c \in DOMAIN result : c # target => merged[c] = result[c]
  BY <1>1 DEF Put
<1>6. ASSUME NEW c \in DOMAIN result
      PROVE  DOMAIN result[c] \subseteq DOMAIN merged[c]
  BY <1>2, <1>3, <1>4, <1>5
<1>7. DOMAIN new \subseteq DOMAIN merged[target]
  BY <1>2, <1>4
<1> QED  BY <1>4, <1>6, <1>7 DEF merged

-----------------------------------------------------------------------------
(***************************************************************************)
(* Operands are known.  The names given by the graph at a point of the     *)
(* analysis are among the names that have a range there, and a block with  *)
(* ranges, but for the first, has a predecessor that was analysed before   *)
(* it.  Entry picks what OperandsGiven speaks of, and Point is how far the *)
(* analysis has come in a block.                                           *)
(***************************************************************************)
Entry(g) == CHOOSE entry : OperandsGiven(g, entry)
Point(b) == IF b < block THEN Last(b) ELSE IF b = block THEN index ELSE 1

GivenInv ==
  phase = "analyze" =>
    /\ \A b \in DOMAIN values :
         Given(graph, Entry(graph), b, Point(b)) \subseteq DOMAIN values[b]
    /\ \A b \in DOMAIN values : b # Start =>
         \E p \in DOMAIN values : p < block /\ b \in Targets(Link(p))

\* An operation gives its result.
LEMMA GivenNext ==
  ASSUME graph \in GraphSet, NEW entry, NEW b \in Blocks,
         NEW n \in Nat, n \in DOMAIN Ops(b)
  PROVE  Given(graph, entry, b, n + 1) =
           Given(graph, entry, b, n) \union {Ops(b)[n].id}
<1>1. DOMAIN Ops(b) = 1 .. Len(Ops(b)) /\ Len(Ops(b)) \in Nat
  BY BlockFacts
<1>2. \A j \in DOMAIN Ops(b) : j < n + 1 <=> j < n \/ j = n
  BY <1>1
<1> QED  BY <1>2 DEF Given, Ops

\* The names given at both ends of a block.
LEMMA GivenFirst ==
  ASSUME graph \in GraphSet, NEW entry, NEW b \in Blocks
  PROVE  /\ Given(graph, entry, b, 1) = entry[b]
         /\ Given(graph, entry, b, Last(b)) = AtLeaving(graph, entry, b)
<1>1. DOMAIN Ops(b) = 1 .. Len(Ops(b)) /\ Len(Ops(b)) \in Nat
  BY BlockFacts
<1>2. \A j \in DOMAIN Ops(b) : ~ (j < 1)
  BY <1>1
<1> QED  BY <1>2 DEF Given, AtLeaving, Last, Ops

\* Operands that are given to the names of m have ranges in m.
LEMMA AreGivenHas ==
  ASSUME NEW m, NEW op, AreGiven(op.args, DOMAIN m)
  PROVE  HasOperands(m, op)
BY DEF AreGiven, HasOperands, Has

\* Operands stay given if there are more names.
LEMMA AreGivenMonotone ==
  ASSUME NEW operands, NEW names, NEW more, names \subseteq more,
         AreGiven(operands, names)
  PROVE  AreGiven(operands, more)
BY DEF AreGiven

\* There are names for every graph, so Entry picks some.
LEMMA EntryGiven ==
  ASSUME \A g \in GraphSet : \E entry : OperandsGiven(g, entry),
         graph \in GraphSet
  PROVE  OperandsGiven(graph, Entry(graph))
BY DEF Entry

\* At first only the arguments are given.
LEMMA GivenInitially ==
  ASSUME Init, OperandsGiven(graph, Entry(graph))
  PROVE  GivenInv
<1>1. /\ graph \in GraphSet /\ block = Start /\ index = 1
      /\ values = [b \in {Start} |-> [name \in graph.args |-> Unbounded]]
  BY DEF Init
<1>2. Start \in Blocks
  BY <1>1, BlockFacts DEF Start
<1>3. Point(Start) = 1
  BY <1>1 DEF Point, Start
<1>4. Given(graph, Entry(graph), Start, 1) \subseteq graph.args
  BY <1>1, <1>2, GivenFirst DEF OperandsGiven, Start
<1> QED  BY <1>1, <1>3, <1>4 DEF GivenInv

\* at an operation, the operands are known
LEMMA OperandsKnown ==
  ASSUME TypeInv, GivenInv, OperandsGiven(graph, Entry(graph)), Analyzing, AtOp,
         CurrentOp.kind # "phi"
  PROVE  HasOperands(Here, CurrentOp)
<1>1. /\ graph \in GraphSet /\ block \in Blocks /\ block \in DOMAIN values
      /\ block \in Nat
  BY HereFacts
<1>2. Given(graph, Entry(graph), block, index) \subseteq DOMAIN Here
  <2>1. Point(block) = index
    BY <1>1 DEF Point
  <2> QED  BY <1>1, <2>1 DEF GivenInv, Analyzing, Here
<1> DEFINE p == <<block, index>>
<1>3. p \in Positions(graph) /\ OpAt(graph, p) = CurrentOp
      /\ p[1] = block /\ p[2] = index
  BY <1>1, PositionFacts DEF AtOp, CurrentOp, Ops, Blocks
<1>4. AreGiven(CurrentOp.args, Given(graph, Entry(graph), block, index))
  <2> HIDE DEF p
  <2> QED  BY <1>3 DEF OperandsGiven
<1> QED  BY <1>2, <1>4, AreGivenMonotone, AreGivenHas

\* at a phi, the operand of one predecessor is
LEMMA PhiKnown ==
  ASSUME TypeInv, GivenInv, OperandsGiven(graph, Entry(graph)), Analyzing, AtOp,
         CurrentOp.kind = "phi"
  PROVE  AllPhiBounds(CurrentOp) # {}
<1>1. /\ graph \in GraphSet /\ block \in Blocks /\ block \in DOMAIN values
      /\ block \in Nat
      /\ \A c \in DOMAIN values : c \in Blocks
  BY HereFacts
<1> DEFINE p == <<block, index>>
<1>2. p \in Positions(graph) /\ OpAt(graph, p) = CurrentOp /\ p[1] = block
  BY <1>1, PositionFacts DEF AtOp, CurrentOp, Ops, Blocks
<1>3. block # Start
  <2> HIDE DEF p
  <2> QED  BY <1>2 DEF OperandsGiven, Start
<1>4. PICK c \in DOMAIN values : c < block /\ block \in Targets(Link(c))
  BY <1>1, <1>3 DEF GivenInv, Analyzing
<1>5. c \in Blocks /\ c \in DOMAIN graph.blocks
  BY <1>1 DEF Blocks
<1>6. PICK i \in DOMAIN CurrentOp.args :
        /\ CurrentOp.from[i] = c
        /\ AreGiven(<<CurrentOp.args[i]>>, AtLeaving(graph, Entry(graph), c))
  BY <1>4, <1>5 DEF OperandsGiven, AtOp, CurrentOp, Ops, Link
<1>7. AtLeaving(graph, Entry(graph), c) \subseteq DOMAIN values[c]
  <2>1. Point(c) = Last(c)
    BY <1>4 DEF Point
  <2> QED  BY <1>1, <1>5, <2>1, GivenFirst DEF GivenInv, Analyzing
<1>8. PhiBounds(CurrentOp.args[i], c) # {}
  <2> DEFINE operand == CurrentOp.args[i]
  <2>1. IsNum(operand) \/ operand.var \in DOMAIN values[c]
    BY <1>6, <1>7 DEF AreGiven
  <2> HIDE DEF operand
  <2> QED  BY <2>1 DEF PhiBounds, operand
<1> QED  BY <1>6, <1>8 DEF AllPhiBounds

\* at a branch, its condition is, and the operands of the comparison
LEMMA ConditionKnown ==
  ASSUME TypeInv, GivenInv, OperandsGiven(graph, Entry(graph)), AtLink, IsBranch
  PROVE  /\ Cond \in DOMAIN Here
         /\ \A op \in Comparison(Cond) : HasOperands(Here, op)
<1>1. /\ graph \in GraphSet /\ block \in Blocks /\ block \in DOMAIN values
      /\ block \in Nat /\ index = Last(block)
  BY HereFacts DEF AtLink
<1>2. AtLeaving(graph, Entry(graph), block) \subseteq DOMAIN Here
  <2>1. Point(block) = index
    BY <1>1 DEF Point
  <2> QED  BY <1>1, <2>1, GivenFirst DEF GivenInv, AtLink, Analyzing, Here
<1>3. /\ Cond \in AtLeaving(graph, Entry(graph), block)
      /\ \A p \in Positions(graph) :
           OpAt(graph, p).id = Cond /\ OpAt(graph, p).kind # "phi" =>
             AreGiven(OpAt(graph, p).args, AtLeaving(graph, Entry(graph), block))
  BY <1>1 DEF OperandsGiven, IsBranch, Cond, Link, Blocks
<1>4. ASSUME NEW op \in Comparison(Cond) PROVE HasOperands(Here, op)
  <2>1. op.kind # "phi"
    BY DEF Comparison, Comparisons
  <2>2. PICK p \in Positions(graph) : op = OpAt(graph, p) /\ OpAt(graph, p).id = Cond
    BY DEF Comparison, Definition
  <2>3. AreGiven(op.args, AtLeaving(graph, Entry(graph), block))
    BY <1>3, <2>1, <2>2
  <2> QED  BY <1>2, <2>3, AreGivenMonotone, AreGivenHas
<1> QED  BY <1>2, <1>3, <1>4

\* The analysis of an operation does not fail.
LEMMA OperationAnalyzed ==
  ASSUME TypeInv, GivenInv, OperandsGiven(graph, Entry(graph)),
         ConversionsPossible, Analyzing, AtOp
  PROVE  OpAnalyzable
<1> DEFINE op == CurrentOp
<1>1. /\ graph \in GraphSet /\ block \in Blocks /\ IsRanges(Here)
      /\ index \in DOMAIN Ops(block) /\ op = Ops(block)[index]
      /\ OperandsTyped(op)
  BY HereFacts, BlockFacts DEF AtOp, CurrentOp
<1>2. RangesValid(Here)
  BY <1>1 DEF RangesValid, IsRanges
<1>3. CASE op.kind = "phi"
  <2>1. AllPhiBounds(op) # {}
    BY <1>3, PhiKnown
  <2>2. PICK i \in DOMAIN op.args : PhiBounds(op.args[i], op.from[i]) # {}
    BY <2>1 DEF AllPhiBounds
  <2>3. PICK s : s \in PhiBounds(op.args[i], op.from[i])
    BY <2>2
  <2> DEFINE u == UnionAll(AllPhiBounds(op))
  <2>4. u \in RangeType /\ Covers(u, s)
    BY <1>1, <1>3, <2>1, <2>3, PhiRanges
  <2>5. s \in RangeType /\ Valid(s)
    <3>1. IsNum(op.args[i]) => op.args[i].num \in Int
      BY <1>1 DEF OperandsTyped
    <3>2. \A c \in DOMAIN values : IsRanges(values[c])
      BY HereFacts
    <3>3. \A n \in Int : Const(n) \in RangeType /\ Valid(Const(n))
      BY ConstantRanges, OtherRangesValid
    <3> QED  BY <2>3, <3>1, <3>2, <3>3 DEF PhiBounds, IsRanges
  <2>6. Valid(u)
    <3> HIDE DEF u
    <3>1. PICK n \in Int : Includes(s, n)
      BY <2>5, HasNumber
    <3> QED  BY <2>4, <3>1, HasNumber DEF Covers
  <2>7. AnalyzeOp(Here, op) = Put(Here, op.id, u)
    BY <1>3 DEF AnalyzeOp
  <2> QED  BY <1>2, <1>3, <2>1, <2>6, <2>7, PutValid DEF OpAnalyzable
<1>4. CASE op.kind # "phi"
  <2>1. HasOperands(Here, op)
    BY <1>4, OperandsKnown
  <2>2. op.kind = "int_to_int64" =>
          \E n \in MinInt .. MaxInt : Includes(Bounds(Here, op.args[1]), n)
    BY <2>1 DEF ConversionsPossible
  <2>3. Valid(Transfer(op, Here))
    <3> HIDE DEF op
    <3> QED  BY <1>1, <1>4, <2>1, <2>2, TransferValid
  <2>4. RangesValid(Narrowed(op, Here))
    <3>1. CASE op.kind = "int_to_int64" /\ ~ IsNum(op.args[1])
      <4> DEFINE r == Here[op.args[1].var]
      <4>1. DOMAIN op.args = {1}
        BY <1>1, <3>1 DEF OperandsTyped, Binary, Comparisons, Unary, Calls
      <4>2. op.args[1].var \in DOMAIN Here
        BY <2>1, <3>1, <4>1 DEF HasOperands, Has
      <4>3. r \in RangeType /\ \E n \in MinInt .. MaxInt : Includes(r, n)
        BY <1>1, <2>2, <3>1, <4>2 DEF IsRanges, Bounds
      <4>4. Valid(ToMachineInt(r))
        <5> HIDE DEF r
        <5> QED  BY <4>3, ToMachineIntValid
      <4>5. Narrowed(op, Here) = Put(Here, op.args[1].var, ToMachineInt(r))
        BY <3>1 DEF Narrowed
      <4> QED  BY <1>2, <4>4, <4>5, PutValid
    <3>2. CASE ~ (op.kind = "int_to_int64" /\ ~ IsNum(op.args[1]))
      BY <1>2, <3>2 DEF Narrowed
    <3> QED  BY <3>1, <3>2
  <2>5. AnalyzeOp(Here, op) = Put(Narrowed(op, Here), op.id, Transfer(op, Here))
    BY <1>4 DEF AnalyzeOp
  <2> QED  BY <1>4, <2>1, <2>3, <2>4, <2>5, PutValid DEF OpAnalyzable
<1> QED  BY <1>3, <1>4

\* The analysis of a branch does not fail.
LEMMA BranchAnalyzed ==
  ASSUME TypeInv, GivenInv, OperandsGiven(graph, Entry(graph)),
         ConditionsCurrent, AtLink, IsBranch, ~ Decided
  PROVE  BranchAnalyzable
<1>1. graph \in GraphSet /\ IsRanges(Here)
  BY HereFacts DEF AtLink
<1>2. /\ Cond \in DOMAIN Here
      /\ \A op \in Comparison(Cond) : HasOperands(Here, op)
  BY ConditionKnown
<1>3. \A op \in Comparison(Cond) :
        op.kind # "eq" => Here[Cond] = Transfer(op, Here)
  BY <1>2 DEF ConditionsCurrent
<1>4. Here[Cond] # True /\ Here[Cond] # False
  BY DEF Decided, Decides
<1>5. \A truth \in BOOLEAN : RangesValid(Branch(Here, Cond, truth))
  <2> TAKE truth \in BOOLEAN
  <2> DEFINE m == Here
             name == Cond
  <2>1. /\ IsRanges(m) /\ name \in DOMAIN m
        /\ m[name] # True /\ m[name] # False
        /\ \A op \in Comparison(name) :
             HasOperands(m, op) /\ (op.kind # "eq" => m[name] = Transfer(op, m))
    BY <1>1, <1>2, <1>3, <1>4
  <2> HIDE DEF m, name
  <2>2. RangesValid(Branch(m, name, truth))
    BY <1>1, <2>1, BranchValid
  <2> QED  BY <2>2 DEF m, name
<1> QED  BY <1>2, <1>5 DEF BranchAnalyzable

\* An analysed operation adds its result to the names of its block.
LEMMA GivenOperation ==
  ASSUME TypeInv, GivenInv, OperationStep
  PROVE  GivenInv'
<1> DEFINE entry == Entry(graph)
<1>1. /\ graph \in GraphSet /\ block \in Blocks /\ block \in DOMAIN values
      /\ block \in Nat /\ index \in DOMAIN Ops(block) /\ index \in Nat
      /\ \A c \in DOMAIN values : c \in Blocks
      /\ graph' = graph /\ block' = block /\ index' = index + 1
      /\ phase = "analyze"
  BY HereFacts DEF OperationStep, Advance, Analyzing, AtOp, TypeInv
<1>2. /\ DOMAIN values' = DOMAIN values
      /\ values'[block] = AnalyzeOp(Here, CurrentOp)
      /\ \A c \in DOMAIN values : c # block => values'[c] = values[c]
  BY OperationRanges
<1>3. DOMAIN Here \union {CurrentOp.id} \subseteq DOMAIN values'[block]
  <2>1. DOMAIN Here \subseteq DOMAIN Narrowed(CurrentOp, Here)
    BY DEF Narrowed, Put
  <2> QED  BY <1>2, <2>1 DEF AnalyzeOp, Put
<1>4. ASSUME NEW b \in DOMAIN values
      PROVE  Given(graph, entry, b, Point(b)') \subseteq DOMAIN values'[b]
  <2>1. Given(graph, entry, b, Point(b)) \subseteq DOMAIN values[b]
    BY <1>1 DEF GivenInv
  <2>2. CASE b # block
    <3>1. Point(b)' = Point(b)
      BY <1>1, <2>2, GraphOperators DEF Point
    <3> QED  BY <1>2, <2>1, <2>2, <3>1
  <2>3. CASE b = block
    <3>1. Point(b) = index /\ Point(b)' = index + 1
      BY <1>1, <2>3 DEF Point
    <3>2. Given(graph, entry, block, index + 1) =
            Given(graph, entry, block, index) \union {CurrentOp.id}
      <4>1. Given(graph, entry, block, index + 1) =
              Given(graph, entry, block, index) \union {Ops(block)[index].id}
        <5> HIDE DEF entry
        <5> QED  BY <1>1, GivenNext
      <4> QED  BY <4>1 DEF CurrentOp
    <3> QED  BY <1>3, <2>1, <2>3, <3>1, <3>2 DEF Here
  <2> QED  BY <2>2, <2>3
<1>5. ASSUME NEW b \in DOMAIN values, b # Start
      PROVE  \E p \in DOMAIN values : p < block /\ b \in Targets(Link(p))
  BY <1>1, <1>5 DEF GivenInv
<1>6. \A p : Link(p)' = Link(p)
  BY <1>1, GraphOperators
<1> QED  BY <1>1, <1>2, <1>4, <1>5, <1>6 DEF GivenInv

\* A link is followed only to where it leads, and with all names of the block.
Follow ==
  /\ \A c \in DOMAIN values' :
       \/ c \in DOMAIN values
       \/ c \in Targets(Link(block)) /\ DOMAIN Here \subseteq DOMAIN values'[c]
  /\ \A c \in DOMAIN values :
       c \in DOMAIN values' /\ DOMAIN values[c] \subseteq DOMAIN values'[c]

\* The end of a function leads nowhere.
LEMMA FollowEnd ==
  ASSUME AnalyzeEnd
  PROVE  Follow
BY DEF AnalyzeEnd, Follow

\* A link to one block, a goto or a branch that is decided.
LEMMA FollowOne ==
  ASSUME NEW target \in Targets(Link(block)),
         NEW new, new = Here,
         values' = Merge(values, target, new)
  PROVE  Follow
<1>1. /\ DOMAIN values' = DOMAIN values \union {target}
      /\ DOMAIN new \subseteq DOMAIN values'[target]
      /\ \A c \in DOMAIN values : DOMAIN values[c] \subseteq DOMAIN values'[c]
  BY MergeNames
<1> QED  BY <1>1 DEF Follow

LEMMA FollowGoto ==
  ASSUME AnalyzeGoto
  PROVE  Follow
<1>1. Link(block).target \in Targets(Link(block))
  BY DEF AnalyzeGoto, Targets
<1> QED  BY <1>1, FollowOne DEF AnalyzeGoto

\* Both ways out of a branch are targets of it.
LEMMA BranchTargets ==
  ASSUME IsBranch, NEW truth \in BOOLEAN
  PROVE  Target(Link(block), truth) \in Targets(Link(block))
BY DEF IsBranch, Targets, Target

LEMMA FollowDecided ==
  ASSUME AnalyzeDecided
  PROVE  Follow
<1>1. PICK truth \in BOOLEAN :
        values' = Merge(values, Target(Link(block), truth), Here)
  BY DEF AnalyzeDecided
<1>2. Target(Link(block), truth) \in Targets(Link(block))
  BY BranchTargets DEF AnalyzeDecided
<1> QED  BY <1>1, <1>2, FollowOne

\* Both targets of a branch get the names, some with narrower ranges.
LEMMA FollowBranch ==
  ASSUME TypeInv, AnalyzeBranch, phase' # "crashed"
  PROVE  Follow
<1> DEFINE link == Link(block)
           new(truth) == Branch(Here, Cond, truth)
           first == Merge(values, link.true, new(TRUE))
           second == Merge(first, link.false, new(FALSE))
<1>1. AtLink /\ IsBranch /\ BranchAnalyzable /\ values' = second
  BY DEF AnalyzeBranch, Attempt
<1>2. /\ graph \in GraphSet /\ IsRanges(Here)
  BY <1>1, HereFacts DEF AtLink
<1>3. \A truth \in BOOLEAN : DOMAIN Here \subseteq DOMAIN new(truth)
  <2> TAKE truth \in BOOLEAN
  <2>1. SameNames(Here, new(truth))
    <3> DEFINE m == Here
               name == Cond
    <3>1. /\ IsRanges(m) /\ name \in DOMAIN m
          /\ \A op \in Comparison(name) : OperandsTyped(op) /\ HasOperands(m, op)
      BY <1>1, <1>2, ComparisonFacts DEF BranchAnalyzable
    <3> HIDE DEF m, name
    <3>2. SameNames(m, Branch(m, name, truth))
      BY <3>1, BranchTyped
    <3> QED  BY <3>2 DEF m, name
  <2> HIDE DEF new
  <2> QED  BY <2>1 DEF SameNames
<1>4. link.true \in Targets(link) /\ link.false \in Targets(link)
  BY <1>1 DEF IsBranch, Targets
<1> HIDE DEF new, link
<1>5. /\ DOMAIN first = DOMAIN values \union {link.true}
      /\ DOMAIN new(TRUE) \subseteq DOMAIN first[link.true]
      /\ \A c \in DOMAIN values : DOMAIN values[c] \subseteq DOMAIN first[c]
  BY MergeNames
<1> HIDE DEF first
<1>6. /\ DOMAIN second = DOMAIN first \union {link.false}
      /\ DOMAIN new(FALSE) \subseteq DOMAIN second[link.false]
      /\ \A c \in DOMAIN first : DOMAIN first[c] \subseteq DOMAIN second[c]
  BY MergeNames
<1> HIDE DEF second
<1>7. /\ DOMAIN Here \subseteq DOMAIN second[link.true]
      /\ DOMAIN Here \subseteq DOMAIN second[link.false]
  BY <1>3, <1>5, <1>6
<1> QED  BY <1>1, <1>4, <1>5, <1>6, <1>7 DEF Follow, link

\* What is given where a link leads is given where the block is left, and goes
\* with it.
LEMMA GivenLink ==
  ASSUME TypeInv, GivenInv, OperandsGiven(graph, Entry(graph)), LinkStep, Follow
  PROVE  GivenInv'
<1> DEFINE entry == Entry(graph)
<1>1. /\ graph \in GraphSet /\ block \in Blocks /\ block \in DOMAIN values
      /\ block \in Nat /\ index = Last(block) /\ ~ AtOp
      /\ \A c \in DOMAIN values : c \in Blocks
      /\ graph' = graph /\ block' = block + 1 /\ index' = 1
      /\ phase = "analyze"
  BY HereFacts DEF LinkStep, Advance, Analyzing, NextBlock
<1>2. \A b \in Blocks : b \in Nat
  BY <1>1, BlockFacts
<1>3. \A p : Link(p)' = Link(p) /\ Last(p)' = Last(p)
  BY <1>1, GraphOperators
<1>4. ASSUME NEW b \in DOMAIN values'
      PROVE  Given(graph, entry, b, Point(b)') \subseteq DOMAIN values'[b]
  <2>1. CASE b \in DOMAIN values
    <3>1. b \in Nat
      BY <1>1, <1>2, <2>1
    <3>2. Point(b)' = Point(b)
      BY <1>1, <1>3, <3>1 DEF Point
    <3>3. Given(graph, entry, b, Point(b)) \subseteq DOMAIN values[b]
      BY <1>1, <2>1 DEF GivenInv
    <3> QED  BY <2>1, <3>2, <3>3 DEF Follow
  <2>2. CASE b \notin DOMAIN values
    <3>1. b \in Targets(Link(block)) /\ DOMAIN Here \subseteq DOMAIN values'[b]
      BY <2>2 DEF Follow
    <3>2. b \in Blocks /\ block < b
      BY <2>2 DEF LinkStep, Grows
    <3>3. Point(b)' = 1
      BY <1>1, <1>2, <3>2 DEF Point
    <3>4. Given(graph, entry, b, 1) = entry[b]
      BY <1>1, <3>2, GivenFirst
    <3>5. entry[b] \subseteq AtLeaving(graph, entry, block)
      BY <1>1, <3>1 DEF OperandsGiven, Link, Blocks
    <3>6. AtLeaving(graph, entry, block) \subseteq DOMAIN Here
      <4>1. Point(block) = Last(block)
        BY <1>1 DEF Point
      <4> QED  BY <1>1, <4>1, GivenFirst DEF GivenInv, Here
    <3> QED  BY <3>1, <3>3, <3>4, <3>5, <3>6
  <2> QED  BY <2>1, <2>2
<1>5. ASSUME NEW b \in DOMAIN values', b # Start
      PROVE  \E p \in DOMAIN values' : p < block + 1 /\ b \in Targets(Link(p))
  <2>1. CASE b \in DOMAIN values
    <3>1. PICK p \in DOMAIN values : p < block /\ b \in Targets(Link(p))
      BY <1>1, <1>5, <2>1 DEF GivenInv
    <3>2. p \in DOMAIN values' /\ p \in Nat
      BY <1>1, <1>2 DEF Follow
    <3>3. p < block + 1
      BY <1>1, <3>1, <3>2
    <3> QED  BY <3>1, <3>2, <3>3
  <2>2. CASE b \notin DOMAIN values
    <3>1. b \in Targets(Link(block)) /\ block \in DOMAIN values'
      BY <1>1, <2>2 DEF Follow
    <3>2. block < block + 1
      BY <1>1
    <3> QED  BY <3>1, <3>2
  <2> QED  BY <2>1, <2>2
<1> QED  BY <1>1, <1>3, <1>4, <1>5 DEF GivenInv

\* A block without a predecessor that was analysed changes nothing.
LEMMA GivenSkip ==
  ASSUME TypeInv, GivenInv, SkipBlock
  PROVE  GivenInv'
<1>1. /\ graph \in GraphSet /\ block \in Nat /\ block \notin DOMAIN values
      /\ \A c \in DOMAIN values : c \in Blocks
      /\ graph' = graph /\ values' = values /\ block' = block + 1
      /\ index = 1 /\ index' = 1 /\ phase = "analyze"
  BY DEF SkipBlock, TypeInv
<1>2. \A b \in DOMAIN values : b \in Nat
  BY <1>1, BlockFacts
<1>3. \A p : Link(p)' = Link(p) /\ Last(p)' = Last(p)
  BY <1>1, GraphOperators
<1>4. \A b \in DOMAIN values : Point(b)' = Point(b)
  BY <1>1, <1>2, <1>3 DEF Point
<1>5. \A b \in DOMAIN values :
        Given(graph, Entry(graph), b, Point(b)) \subseteq DOMAIN values[b]
  BY <1>1 DEF GivenInv
<1>6. \A b \in DOMAIN values : b # Start =>
        \E p \in DOMAIN values : p < block + 1 /\ b \in Targets(Link(p))
  BY <1>1, <1>2 DEF GivenInv
<1> QED  BY <1>1, <1>3, <1>4, <1>5, <1>6 DEF GivenInv

\* Where a conversion is possible and a condition current, the analysis goes on.
LEMMA StepAnalyzed ==
  ASSUME TypeInv, GivenInv, OperandsGiven(graph, Entry(graph)),
         ConversionsPossible, ConditionsCurrent, phase # "crashed", [Next]_vars
  PROVE  phase' # "crashed"
<1>1. CASE AnalyzeOperation
  <2>1. Analyzing /\ AtOp
    BY <1>1 DEF AnalyzeOperation
  <2> QED  BY <1>1, <2>1, OperationAnalyzed DEF AnalyzeOperation, Attempt
<1>2. CASE AnalyzeBranch
  <2>1. AtLink /\ IsBranch /\ (Cond \in DOMAIN Here => ~ Decided)
    BY <1>2 DEF AnalyzeBranch
  <2>2. ~ Decided
    BY <2>1, ConditionKnown
  <2>3. BranchAnalyzable
    BY <2>1, <2>2, BranchAnalyzed
  <2> QED  BY <1>2, <2>3 DEF AnalyzeBranch, Attempt
<1>3. CASE UNCHANGED vars \/ SkipBlock \/ AnalyzeGoto \/ AnalyzeDecided \/ AnalyzeEnd
  BY <1>3 DEF vars, SkipBlock, AnalyzeGoto, AnalyzeDecided, AnalyzeEnd
<1>4. CASE Call \/ RunOperation \/ RunRaises \/ RunGoto \/ RunBranch \/ RunEnd
  BY <1>4 DEF Call, RunOperation, RunRaises, RunGoto, RunBranch, RunEnd, CanRun,
              AtEnd, Jump
<1> QED  BY <1>1, <1>2, <1>3, <1>4 DEF Next

\* An analysis that has failed does not go on.
LEMMA CrashRests ==
  ASSUME [Next]_vars, phase = "crashed"
  PROVE  UNCHANGED vars
BY DEF Next, SkipBlock, AnalyzeOperation, AnalyzeGoto, AnalyzeDecided, AnalyzeBranch,
       AnalyzeEnd, AtLink, Analyzing, Call, RunOperation, RunRaises, RunGoto, RunBranch,
       RunEnd, CanRun, AtEnd

\* An analysis that goes on keeps the names given.
LEMMA GivenStep ==
  ASSUME TypeInv, GivenInv, OperandsGiven(graph, Entry(graph)),
         Next, phase' # "crashed"
  PROVE  GivenInv'
<1>1. CASE SkipBlock
  BY <1>1, GivenSkip DEF SkipBlock
<1>2. CASE AnalyzeOperation
  <2>1. phase' = "analyze"
    BY <1>2 DEF AnalyzeOperation, Attempt
  <2> QED  BY <1>2, <2>1, StepOfOperation, GivenOperation
<1>3. CASE AnalyzeGoto
  <2>1. phase' = "analyze"
    BY <1>3 DEF AnalyzeGoto, AtLink, Analyzing
  <2> QED  BY <1>3, <2>1, StepOfGoto, FollowGoto, GivenLink
<1>4. CASE AnalyzeDecided
  <2>1. phase' = "analyze"
    BY <1>4 DEF AnalyzeDecided, AtLink, Analyzing
  <2> QED  BY <1>4, <2>1, StepOfDecided, FollowDecided, GivenLink
<1>5. CASE AnalyzeBranch
  <2>1. phase' = "analyze"
    BY <1>5 DEF AnalyzeBranch, Attempt
  <2> QED  BY <1>5, <2>1, StepOfBranch, FollowBranch, GivenLink
<1>6. CASE AnalyzeEnd
  <2>1. phase' = "analyze"
    BY <1>6 DEF AnalyzeEnd, AtLink, Analyzing
  <2> QED  BY <1>6, <2>1, StepOfEnd, FollowEnd, GivenLink
<1>7. CASE Call \/ RunOperation \/ RunRaises \/ RunGoto \/ RunBranch \/ RunEnd
  <2>1. phase' \in {"run", "returned", "raised"}
    BY <1>7 DEF Call, RunOperation, RunRaises, RunGoto, RunBranch, RunEnd,
                CanRun, AtEnd, Jump
  <2> QED  BY <2>1 DEF GivenInv
<1> QED  BY <1>1, <1>2, <1>3, <1>4, <1>5, <1>6, <1>7 DEF Next

\* Stuttering changes nothing.
LEMMA GivenStutters ==
  ASSUME GivenInv, UNCHANGED vars
  PROVE  GivenInv'
<1>1. /\ graph' = graph /\ values' = values /\ phase' = phase
      /\ block' = block /\ index' = index
  BY DEF vars
<1>2. \A b : Link(b)' = Link(b) /\ Point(b)' = Point(b)
  BY <1>1, GraphOperators DEF Point
<1> QED  BY <1>1, <1>2 DEF GivenInv

\* The analysis of a graph in SSA form fails at no other step than these: the
\* conversion of a number none of whose possible values fits, and the test of a
\* condition whose operands have been narrowed since it was computed.  At every
\* other one its operands are known (no KeyError of AbstractInterpreter._bounds, and
\* the assertion of analyze_block for a phi) and no range is empty (the assertion
\* of Range.__init__).
THEOREM AnalysisFailuresExplained ==
  ASSUME \A g \in GraphSet : \E entry : OperandsGiven(g, entry)
  PROVE  Spec => FailuresExplained
<1> DEFINE Good == phase # "crashed" => GivenInv
<1>1. Init => Good
  <2> SUFFICES ASSUME Init PROVE GivenInv
    OBVIOUS
  <2>1. graph \in GraphSet
    BY DEF Init
  <2> QED  BY <2>1, EntryGiven, GivenInitially
<1>2. Inv /\ Good /\ [Next]_vars =>
        /\ Good'
        /\ phase # "crashed" /\ phase' = "crashed" =>
             ~ ConversionsPossible \/ ~ ConditionsCurrent
  <2> SUFFICES ASSUME Inv, Good, [Next]_vars
               PROVE  /\ phase' # "crashed" => GivenInv'
                      /\ phase # "crashed" /\ phase' = "crashed" =>
                           ~ ConversionsPossible \/ ~ ConditionsCurrent
    OBVIOUS
  <2>1. CASE phase = "crashed"
    <3>1. phase' = "crashed"
      BY <2>1, CrashRests DEF vars
    <3> QED  BY <2>1, <3>1
  <2>2. CASE phase # "crashed"
    <3>1. TypeInv /\ GivenInv
      BY <2>2 DEF Inv
    <3>2. OperandsGiven(graph, Entry(graph))
      BY <3>1, EntryGiven DEF TypeInv
    <3>3. phase' # "crashed" => GivenInv'
      BY <3>1, <3>2, GivenStep, GivenStutters
    <3>4. ConversionsPossible /\ ConditionsCurrent => phase' # "crashed"
      BY <2>2, <3>1, <3>2, StepAnalyzed
    <3> QED  BY <3>3, <3>4
  <2> QED  BY <2>1, <2>2
<1>3. [Next]_vars /\ phase = "crashed" => UNCHANGED vars
  BY CrashRests
<1>4. Inv /\ Good /\ [Next]_vars =>
        [phase' = "crashed" => ~ ConversionsPossible \/ ~ ConditionsCurrent]_vars
  BY <1>2, <1>3
<1> HIDE DEF Good
<1>5. Inv /\ Good /\ [Next]_vars => Good'
  BY <1>2
<1> QED  BY <1>1, <1>4, <1>5, AnalysisInvariant, PTL DEF Spec, FailuresExplained
=============================================================================
