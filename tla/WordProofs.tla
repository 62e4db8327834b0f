----------------------------- MODULE WordProofs -----------------------------
(***************************************************************************)
(* Bit vectors hold what they should, for words of any width and vectors   *)
(* of any size: the words of a number are its bits, and each operation of  *)
(* BitVectors, in every combination of representations, gives a proper     *)
(* representation of the exact result.                                     *)
(***************************************************************************)
EXTENDS BitVectors, WellFoundedInduction, TLAPS

-----------------------------------------------------------------------------
(***************************************************************************)
(* Induction and recursion over the natural numbers, in a form in which    *)
(* a property is a set and the step of a recursion is a function, so that  *)
(* both can be given to first-order provers.  Everything follows from the  *)
(* fact that the natural numbers are well-founded.                         *)
(***************************************************************************)

\* A set of natural numbers that is not empty has a least element.
LEMMA LeastNatural ==
  ASSUME NEW S, S \subseteq Nat, S # {}
  PROVE  \E m \in S : \A n \in S : m <= n
<1> DEFINE less == {p \in Nat \X Nat : p[1] < p[2]}
<1>1. IsWellFoundedOn(less, Nat)
  BY NatLessThanWellFounded DEF OpToRel
<1>2. PICK m \in S : \A n \in S : <<n, m>> \notin less
  <2> HIDE DEF less
  <2> QED  BY <1>1, WFMin
<1>3. \A n \in S : m <= n
  <2> SUFFICES ASSUME NEW n \in S PROVE m <= n
    OBVIOUS
  <2>1. <<n, m>> \notin less /\ m \in Nat /\ n \in Nat
    BY <1>2
  <2> QED  BY <2>1
<1> QED  BY <1>3

\* Induction: a set with 0 and with the successor of each of its elements.
LEMMA Induction ==
  ASSUME NEW S, 0 \in S, \A n \in Nat : n \in S => n + 1 \in S
  PROVE  Nat \subseteq S
<1> SUFFICES ASSUME ~ (Nat \subseteq S) PROVE FALSE
  OBVIOUS
<1>1. PICK m \in Nat \ S : \A n \in Nat \ S : m <= n
  BY LeastNatural
<1>2. m - 1 \in Nat /\ m - 1 \in S
  BY <1>1
<1> QED  BY <1>1, <1>2

-----------------------------------------------------------------------------
(***************************************************************************)
(* The first n values of a function that begins with a and goes on with    *)
(* step, which is given the argument and the value before.                 *)
(***************************************************************************)
Prefix(f, n, V, a, step) ==
  /\ f \in [0 .. n -> V]
  /\ f[0] = a
  /\ \A i \in 0 .. n - 1 : f[i + 1] = step[<<i, f[i]>>]

LEMMA PrefixExists ==
  ASSUME NEW V, NEW a \in V, NEW step \in [Nat \X V -> V], NEW n \in Nat
  PROVE  \E f : Prefix(f, n, V, a, step)
<1> DEFINE S == {k \in Nat : \E f : Prefix(f, k, V, a, step)}
<1>1. 0 \in S
  <2>1. Prefix([i \in 0 .. 0 |-> a], 0, V, a, step)
    BY DEF Prefix
  <2> QED  BY <2>1
<1>2. ASSUME NEW k \in Nat, k \in S PROVE k + 1 \in S
  <2>1. PICK f : Prefix(f, k, V, a, step)
    BY <1>2
  <2> DEFINE g == [i \in 0 .. k + 1 |->
                     IF i = k + 1 THEN step[<<k, f[k]>>] ELSE f[i]]
  <2>2. f[k] \in V /\ step[<<k, f[k]>>] \in V
    BY <2>1 DEF Prefix
  <2>3. g \in [0 .. k + 1 -> V]
    BY <2>1, <2>2 DEF Prefix
  <2>4. g[0] = a
    BY <2>1 DEF Prefix
  <2>5. ASSUME NEW i \in 0 .. k PROVE g[i + 1] = step[<<i, g[i]>>]
    <3>1. g[i] = f[i]
      OBVIOUS
    <3>2. CASE i = k
      <4>1. g[k + 1] = step[<<k, f[k]>>]
        OBVIOUS
      <4> HIDE DEF g
      <4> QED  BY <3>1, <3>2, <4>1
    <3>3. CASE i < k
      BY <2>1, <3>1, <3>3 DEF Prefix
    <3> QED  BY <3>2, <3>3
  <2>6. Prefix(g, k + 1, V, a, step)
    <3> HIDE DEF g
    <3> QED  BY <2>3, <2>4, <2>5 DEF Prefix
  <2> QED  BY <2>6
<1> HIDE DEF S
<1>3. Nat \subseteq S
  BY <1>1, <1>2, Induction
<1> QED  BY <1>3 DEF S

\* The first n + 1 values begin with the first n.
LEMMA PrefixExtends ==
  ASSUME NEW V, NEW a, NEW step, NEW n \in Nat, NEW f, NEW g,
         Prefix(f, n, V, a, step), Prefix(g, n + 1, V, a, step)
  PROVE  g[n] = f[n]
<1> DEFINE S == {k \in Nat : k <= n => g[k] = f[k]}
<1>1. 0 \in S
  BY DEF Prefix
<1>2. ASSUME NEW k \in Nat, k \in S PROVE k + 1 \in S
  <2> SUFFICES ASSUME k + 1 <= n PROVE g[k + 1] = f[k + 1]
    OBVIOUS
  <2>1. g[k] = f[k]
    BY <1>2
  <2>2. k \in 0 .. n - 1 /\ k \in 0 .. (n + 1) - 1
    OBVIOUS
  <2> QED  BY <2>1, <2>2 DEF Prefix
<1> HIDE DEF S
<1>3. Nat \subseteq S
  BY <1>1, <1>2, Induction
<1> QED  BY <1>3 DEF S

\* f begins with a and goes on with step.
Iterates(f, V, a, step) ==
  /\ f \in [Nat -> V]
  /\ f[0] = a
  /\ \A n \in Nat : f[n + 1] = step[<<n, f[n]>>]

\* Recursion: such a function exists.
LEMMA Recursion ==
  ASSUME NEW V, NEW a \in V, NEW step \in [Nat \X V -> V]
  PROVE  \E f : Iterates(f, V, a, step)
<1> DEFINE first(n) == CHOOSE f : Prefix(f, n, V, a, step)
           f == [n \in Nat |-> first(n)[n]]
<1>1. \A n \in Nat : Prefix(first(n), n, V, a, step)
  BY PrefixExists
<1> HIDE DEF first
<1>2. f \in [Nat -> V]
  <2> SUFFICES ASSUME NEW n \in Nat PROVE first(n)[n] \in V
    OBVIOUS
  <2>1. Prefix(first(n), n, V, a, step)
    BY <1>1
  <2> QED  BY <2>1 DEF Prefix
<1>3. f[0] = a
  <2>1. Prefix(first(0), 0, V, a, step)
    BY <1>1
  <2> QED  BY <2>1 DEF Prefix
<1>4. ASSUME NEW n \in Nat PROVE f[n + 1] = step[<<n, f[n]>>]
  <2>1. /\ Prefix(first(n), n, V, a, step)
        /\ Prefix(first(n + 1), n + 1, V, a, step)
    BY <1>1
  <2>2. first(n + 1)[n] = first(n)[n]
    <3> HIDE DEF f
    <3> QED  BY <2>1, PrefixExtends
  <2>3. first(n + 1)[n + 1] = step[<<n, first(n + 1)[n]>>]
    BY <2>1 DEF Prefix
  <2> QED  BY <2>2, <2>3
<1> HIDE DEF f
<1> QED  BY <1>2, <1>3, <1>4 DEF Iterates

-----------------------------------------------------------------------------
(***************************************************************************)
(* Products, and quotients rounded down.                                   *)
(***************************************************************************)

\* Multiplication by a number is monotone or antitone.
LEMMA ProductMonotone ==
  ASSUME NEW a \in Int, NEW b \in Int, NEW n \in Int, a <= b
  PROVE  /\ n >= 0 => a * n <= b * n /\ n * a <= n * b
         /\ n <= 0 => b * n <= a * n /\ n * b <= n * a
<1>1. a * n = n * a /\ b * n = n * b
  OBVIOUS
<1>2. ASSUME n >= 0 PROVE a * n <= b * n
  <2>1. (b - a) * n >= 0
    BY <1>2
  <2>2. (b - a) * n = b * n - a * n
    OBVIOUS
  <2> QED BY <2>1, <2>2
<1>3. ASSUME n <= 0 PROVE b * n <= a * n
  <2>1. (b - a) * (-n) >= 0
    BY <1>3
  <2>2. (b - a) * (-n) = a * n - b * n
    OBVIOUS
  <2> QED BY <2>1, <2>2
<1> QED BY <1>1, <1>2, <1>3

\* The quotient of a division, and when a number is at most a quotient.
LEMMA Quotient ==
  ASSUME NEW m \in Int, NEW n \in Int, n >= 1
  PROVE  m \div n \in Int /\ n * (m \div n) <= m /\ m < n * (m \div n) + n
OBVIOUS

LEMMA AtMostQuotient ==
  ASSUME NEW a \in Int, NEW m \in Int, NEW n \in Int, n >= 1, n * a <= m
  PROVE  a <= m \div n
<1> DEFINE q == m \div n
<1>1. q \in Int /\ m < n * q + n
  BY Quotient
<1> HIDE DEF q
<1>2. n * a \in Int /\ n * q \in Int
  BY <1>1
<1>3. n * a < n * q + n
  BY <1>1, <1>2
<1>4. n * (q - a + 1) = n * q + n - n * a
  BY <1>1
<1>5. n * (q - a + 1) > 0
  BY <1>2, <1>3, <1>4
<1>6. q - a + 1 > 0
  BY <1>1, <1>5
<1> QED BY <1>1, <1>6 DEF q

\* A quotient grows with the dividend, and shrinks with the divisor.
LEMMA QuotientMonotone ==
  ASSUME NEW a \in Int, NEW b \in Int, NEW n \in Int, n >= 1, a <= b
  PROVE  a \div n <= b \div n
<1>1. a \div n \in Int /\ n * (a \div n) \in Int /\ n * (a \div n) <= a
  BY Quotient
<1>2. n * (a \div n) <= b
  BY <1>1
<1> QED BY <1>1, <1>2, AtMostQuotient

LEMMA QuotientAntitone ==
  ASSUME NEW a \in Nat, NEW n \in Int, NEW k \in Int, 1 <= n, n <= k
  PROVE  0 <= a \div k /\ a \div k <= a \div n /\ a \div n <= a
<1>1. 0 <= a \div k /\ 0 <= a \div n
  BY AtMostQuotient
<1>2. /\ a \div k \in Int /\ k * (a \div k) <= a
      /\ a \div n \in Int /\ n * (a \div n) <= a
  BY Quotient
<1>3. n * (a \div k) <= k * (a \div k)
  BY <1>1, <1>2, ProductMonotone
<1>4. n * (a \div k) <= a
  BY <1>2, <1>3
<1>5. a \div k <= a \div n
  BY <1>2, <1>4, AtMostQuotient
<1>6. 1 * (a \div n) <= n * (a \div n)
  BY <1>1, <1>2, ProductMonotone
<1> QED BY <1>1, <1>2, <1>5, <1>6

\* A quotient rounded down goes from one side to 0 or to -1 as the divisor
\* grows.
LEMMA QuotientOneWay ==
  ASSUME NEW a \in Int, NEW n \in Int, NEW k \in Int, 1 <= n, n <= k
  PROVE  /\ a >= 0 => a \div k <= a \div n
         /\ a < 0 => a \div n <= a \div k
<1>1. ASSUME a >= 0 PROVE a \div k <= a \div n
  <2>1. a \in Nat
    BY <1>1
  <2> QED  BY <2>1, QuotientAntitone
<1>2. ASSUME a < 0 PROVE a \div n <= a \div k
  <2>1. a \div n \in Int /\ n * (a \div n) \in Int /\ n * (a \div n) <= a
    BY Quotient
  <2>2. a \div n <= 0
    <3> SUFFICES ASSUME 1 <= a \div n PROVE FALSE
      BY <2>1
    <3>1. n * 1 <= n * (a \div n)
      BY <2>1, ProductMonotone
    <3> QED  BY <1>2, <2>1, <3>1
  <2>3. k * (a \div n) <= n * (a \div n) /\ k * (a \div n) \in Int
    BY <2>1, <2>2, ProductMonotone
  <2>4. k * (a \div n) <= a
    BY <2>1, <2>3
  <2> QED  BY <2>1, <2>4, AtMostQuotient
<1> QED  BY <1>1, <1>2

-----------------------------------------------------------------------------
(***************************************************************************)
(* Powers of two.                                                          *)
(***************************************************************************)

\* The recursion that defines Pow2 has a solution.
LEMMA Pow2Unfold ==
  /\ Pow2 \in [Nat -> Nat \ {0}]
  /\ Pow2[0] = 1
  /\ \A n \in Nat : Pow2[n + 1] = 2 * Pow2[n]
<1> DEFINE V == Nat \ {0}
           step == [p \in Nat \X V |-> 2 * p[2]]
           Solves(f) == f = [n \in Nat |-> IF n = 0 THEN 1 ELSE 2 * f[n - 1]]
<1>1. step \in [Nat \X V -> V]
  OBVIOUS
<1>2. PICK f : Iterates(f, V, 1, step)
  <2>1. 1 \in V
    OBVIOUS
  <2> HIDE DEF step, V
  <2> QED  BY <1>1, <2>1, Recursion
<1>3. Solves(f)
  <2> SUFFICES ASSUME NEW n \in Nat \ {0} PROVE f[n] = 2 * f[n - 1]
    BY <1>2 DEF Iterates
  <2>1. n - 1 \in Nat /\ (n - 1) + 1 = n
    OBVIOUS
  <2>2. f[n] = step[<<n - 1, f[n - 1]>>]
    BY <1>2, <2>1 DEF Iterates
  <2>3. f[n - 1] \in V
    BY <1>2, <2>1 DEF Iterates
  <2> QED  BY <2>1, <2>2, <2>3
<1>4. Solves(Pow2)
  <2>1. Pow2 = CHOOSE g : Solves(g)
    BY DEF Pow2
  <2> QED  BY <1>3, <2>1
<1>5. Pow2[0] = 1 /\ \A n \in Nat : Pow2[n + 1] = 2 * Pow2[n]
  <2>1. \A n \in Nat : Pow2[n] = IF n = 0 THEN 1 ELSE 2 * Pow2[n - 1]
    BY <1>4
  <2> SUFFICES ASSUME NEW n \in Nat PROVE Pow2[n + 1] = 2 * Pow2[n]
    BY <2>1
  <2>2. n + 1 \in Nat /\ n + 1 # 0 /\ (n + 1) - 1 = n
    OBVIOUS
  <2> QED  BY <2>1, <2>2
<1>6. \A n \in Nat : Pow2[n] \in V
  <2> DEFINE S == {n \in Nat : Pow2[n] \in V}
  <2>1. 0 \in S /\ \A n \in Nat : n \in S => n + 1 \in S
    BY <1>5
  <2> HIDE DEF S
  <2>2. Nat \subseteq S
    BY <2>1, Induction
  <2> QED  BY <2>2 DEF S
<1>7. Pow2 \in [Nat -> V]
  BY <1>4, <1>6
<1> QED  BY <1>5, <1>7

LEMMA Pow2Monotone ==
  ASSUME NEW m \in Nat, NEW n \in Nat, m <= n
  PROVE  /\ Pow2[m] \in Nat /\ Pow2[m] >= 1
         /\ Pow2[m] <= Pow2[n]
<1> DEFINE S == {k \in Nat : Pow2[m] <= Pow2[m + k]}
<1>1. \A k \in Nat : Pow2[k] \in Nat /\ Pow2[k] >= 1
  BY Pow2Unfold
<1>2. 0 \in S
  BY <1>1
<1>3. ASSUME NEW k \in Nat, k \in S PROVE k + 1 \in S
  <2>1. Pow2[m + (k + 1)] = 2 * Pow2[m + k]
    BY Pow2Unfold
  <2> QED  BY <1>1, <1>3, <2>1
<1> HIDE DEF S
<1>4. Nat \subseteq S
  BY <1>2, <1>3, Induction
<1>5. n - m \in S
  BY <1>4
<1> QED  BY <1>1, <1>5 DEF S

LEMMA Pow2Sum ==
  ASSUME NEW m \in Nat, NEW n \in Nat
  PROVE  Pow2[m + n] = Pow2[m] * Pow2[n]
<1> DEFINE S == {k \in Nat : Pow2[m + k] = Pow2[m] * Pow2[k]}
<1>1. \A k \in Nat : Pow2[k] \in Nat
  BY Pow2Unfold
<1>2. 0 \in S
  BY <1>1, Pow2Unfold
<1>3. ASSUME NEW k \in Nat, k \in S PROVE k + 1 \in S
  <2>1. Pow2[m + (k + 1)] = 2 * Pow2[m + k]
    BY Pow2Unfold
  <2>2. Pow2[k + 1] = 2 * Pow2[k]
    BY Pow2Unfold
  <2> QED  BY <1>1, <1>3, <2>1, <2>2
<1> HIDE DEF S
<1>4. Nat \subseteq S
  BY <1>2, <1>3, Induction
<1> QED  BY <1>4 DEF S

\* a number is less than its power of two
LEMMA Pow2Exceeds ==
  ASSUME NEW n \in Nat
  PROVE  n < Pow2[n]
<1> DEFINE S == {k \in Nat : k < Pow2[k]}
<1>1. 0 \in S
  BY Pow2Unfold
<1>2. ASSUME NEW k \in Nat, k \in S PROVE k + 1 \in S
  <2>1. Pow2[k] \in Nat /\ Pow2[k + 1] = 2 * Pow2[k]
    BY Pow2Unfold
  <2> QED  BY <1>2, <2>1
<1> HIDE DEF S
<1>3. Nat \subseteq S
  BY <1>1, <1>2, Induction
<1> QED  BY <1>3 DEF S

-----------------------------------------------------------------------------
(***************************************************************************)
(* Quotients and remainders.                                               *)
(***************************************************************************)

LEMMA QuotientIs ==
  ASSUME NEW n \in Int, NEW d \in Nat, NEW q \in Int, NEW r \in 0 .. d - 1,
         n = d * q + r
  PROVE  n \div d = q /\ n % d = r
OBVIOUS

LEMMA QuotientAndRemainder ==
  ASSUME NEW n \in Int, NEW d \in Nat \ {0}
  PROVE  /\ n \div d \in Int /\ n % d \in 0 .. d - 1 /\ n % d \in Nat
         /\ n = d * (n \div d) + (n % d)
OBVIOUS

LEMMA Products ==
  ASSUME NEW a \in Int, NEW b \in Int, NEW c \in Int
  PROVE  /\ a * b \in Int /\ a * b = b * a
         /\ a * (b * c) = (a * b) * c
         /\ a * (b + c) = a * b + a * c
         /\ a * (b - c) = a * b - a * c
OBVIOUS

\* Numbers are written to the base b * c as they are to the bases b and c.
LEMMA TwoBases ==
  ASSUME NEW n \in Int, NEW b \in Nat \ {0}, NEW c \in Nat \ {0},
         NEW q \in Int, NEW r \in 0 .. b - 1, n = b * q + r,
         NEW p \in Int, NEW s \in 0 .. c - 1, q = c * p + s
  PROVE  /\ b * c \in Nat \ {0} /\ b * s \in Int
         /\ n = (b * c) * p + (r + b * s)
         /\ r + b * s \in 0 .. (b * c) - 1
<1>1. b * c \in Nat \ {0}
  <2>1. b * c \in Int /\ 1 * c <= b * c
    BY ProductMonotone
  <2> QED  BY <2>1
<1>2. n = (b * c) * p + (r + b * s)
  <2>1. b * q = b * (c * p) + b * s
    BY Products
  <2>2. b * (c * p) = (b * c) * p
    BY Products
  <2>3. b * s \in Int /\ (b * c) * p \in Int
    BY <1>1
  <2> QED  BY <2>1, <2>2, <2>3
<1>3. r + b * s \in 0 .. (b * c) - 1 /\ b * s \in Int
  <2>1. b * s \in Int /\ b * (c - 1) \in Int /\ b * s <= b * (c - 1) /\ b * 0 <= b * s
    BY ProductMonotone
  <2>2. b * (c - 1) = b * c - b
    BY Products
  <2> QED  BY <1>1, <2>1, <2>2
<1> QED  BY <1>1, <1>2, <1>3

LEMMA QuotientOfProduct ==
  ASSUME NEW n \in Int, NEW b \in Nat \ {0}, NEW c \in Nat \ {0}
  PROVE  n \div (b * c) = (n \div b) \div c
<1> DEFINE q == n \div b
           r == n % b
           p == q \div c
           s == q % c
<1>1. q \in Int /\ r \in 0 .. b - 1 /\ n = b * q + r
  BY QuotientAndRemainder
<1>2. p \in Int /\ s \in 0 .. c - 1 /\ q = c * p + s
  BY <1>1, QuotientAndRemainder
<1> HIDE DEF q, r, p, s
<1>3. /\ b * c \in Nat /\ n = (b * c) * p + (r + b * s)
      /\ r + b * s \in 0 .. (b * c) - 1
  BY <1>1, <1>2, TwoBases
<1>4. n \div (b * c) = p
  BY <1>2, <1>3, QuotientIs
<1> QED  BY <1>4 DEF p, q

LEMMA RemainderOfProduct ==
  ASSUME NEW n \in Int, NEW b \in Nat \ {0}, NEW c \in Nat \ {0}
  PROVE  n % (b * c) = (n % b) + b * ((n \div b) % c)
<1> DEFINE q == n \div b
           r == n % b
           p == q \div c
           s == q % c
<1>1. q \in Int /\ r \in 0 .. b - 1 /\ n = b * q + r
  BY QuotientAndRemainder
<1>2. p \in Int /\ s \in 0 .. c - 1 /\ q = c * p + s
  BY <1>1, QuotientAndRemainder
<1> HIDE DEF q, r, p, s
<1>3. /\ b * c \in Nat /\ n = (b * c) * p + (r + b * s)
      /\ r + b * s \in 0 .. (b * c) - 1
  BY <1>1, <1>2, TwoBases
<1>4. n % (b * c) = r + b * s
  BY <1>2, <1>3, QuotientIs
<1> QED  BY <1>4 DEF s, q, r

\* multiples of the divisor
LEMMA QuotientOfSum ==
  ASSUME NEW n \in Int, NEW d \in Nat \ {0}, NEW k \in Int
  PROVE  /\ (n + d * k) \div d = n \div d + k
         /\ (n + d * k) % d = n % d
<1> DEFINE q == n \div d
           r == n % d
<1>1. q \in Int /\ r \in 0 .. d - 1 /\ r \in Nat /\ n = d * q + r
  BY QuotientAndRemainder
<1> HIDE DEF q, r
<1>2. d * k \in Int /\ d * q \in Int /\ d * (q + k) = d * q + d * k
  BY <1>1, Products
<1>3. n + d * k = d * (q + k) + r
  BY <1>1, <1>2
<1>4. n + d * k \in Int /\ q + k \in Int
  BY <1>1, <1>2
<1> QED  BY <1>1, <1>3, <1>4, QuotientIs DEF q, r

LEMMA SmallQuotient ==
  ASSUME NEW d \in Nat, NEW n \in 0 .. d - 1
  PROVE  n \div d = 0 /\ n % d = n
<1>1. n = d * 0 + n
  OBVIOUS
<1> QED  BY <1>1, QuotientIs
-----------------------------------------------------------------------------
(***************************************************************************)
(* The bits of a number from bit i on, and those below.                    *)
(***************************************************************************)
Up(n, i) == n \div Pow2[i]
Low(n, i) == n % Pow2[i]

LEMMA Halves ==
  ASSUME NEW n \in Int, NEW i \in Nat
  PROVE  /\ Pow2[i] \in Nat /\ Pow2[i] >= 1
         /\ Up(n, i) \in Int
         /\ Low(n, i) \in Nat /\ Low(n, i) < Pow2[i]
         /\ n = Pow2[i] * Up(n, i) + Low(n, i)
<1>1. Pow2[i] \in Nat \ {0}
  BY Pow2Unfold
<1>2. /\ n \div Pow2[i] \in Int /\ n % Pow2[i] \in 0 .. Pow2[i] - 1
      /\ n = Pow2[i] * (n \div Pow2[i]) + (n % Pow2[i])
  BY <1>1, QuotientAndRemainder
<1>3. /\ Up(n, i) \in Int /\ Low(n, i) \in 0 .. Pow2[i] - 1
      /\ n = Pow2[i] * Up(n, i) + Low(n, i)
  BY <1>2 DEF Up, Low
<1>4. Low(n, i) \in Nat /\ Low(n, i) < Pow2[i]
  BY <1>1, <1>3
<1> QED  BY <1>1, <1>3, <1>4

LEMMA HalvesAre ==
  ASSUME NEW n \in Int, NEW i \in Nat, NEW q \in Int, NEW r \in Nat,
         r < Pow2[i], n = Pow2[i] * q + r
  PROVE  Up(n, i) = q /\ Low(n, i) = r
<1>1. Pow2[i] \in Nat
  BY Pow2Unfold
<1>2. r \in 0 .. Pow2[i] - 1
  BY <1>1
<1> QED  BY <1>1, <1>2, QuotientIs DEF Up, Low

\* a number of i bits
LEMMA FewBits ==
  ASSUME NEW i \in Nat, NEW n \in Nat, n < Pow2[i]
  PROVE  Up(n, i) = 0 /\ Low(n, i) = n
<1>1. n = Pow2[i] * 0 + n
  BY Pow2Unfold
<1> QED  BY <1>1, HalvesAre

LEMMA NoBits ==
  ASSUME NEW n \in Int
  PROVE  Up(n, 0) = n /\ Low(n, 0) = 0
<1>1. n = Pow2[0] * n + 0 /\ 0 < Pow2[0]
  BY Pow2Unfold
<1> QED  BY <1>1, HalvesAre

\* Bits from i on are those of the number without the lower i bits.
LEMMA HalvesOfHalves ==
  ASSUME NEW n \in Int, NEW i \in Nat, NEW j \in Nat
  PROVE  /\ Up(Up(n, i), j) = Up(n, i + j)
         /\ Low(n, i + j) = Low(n, i) + Pow2[i] * Low(Up(n, i), j)
         /\ Low(Low(n, i + j), i) = Low(n, i)
         /\ Up(Low(n, i + j), i) = Low(Up(n, i), j)
<1>1. /\ Pow2[i] \in Nat \ {0} /\ Pow2[j] \in Nat \ {0}
      /\ Pow2[i + j] = Pow2[i] * Pow2[j]
  BY Pow2Unfold, Pow2Sum
<1>2. /\ Up(Up(n, i), j) = Up(n, i + j)
      /\ Low(n, i + j) = Low(n, i) + Pow2[i] * Low(Up(n, i), j)
  <2> DEFINE P == Pow2[i]
             Q == Pow2[j]
  <2>1. /\ n \div (P * Q) = (n \div P) \div Q
        /\ n % (P * Q) = (n % P) + P * ((n \div P) % Q)
    <3>1. P \in Nat \ {0} /\ Q \in Nat \ {0}
      BY <1>1
    <3> HIDE DEF P, Q
    <3>2. n \div (P * Q) = (n \div P) \div Q
      BY <3>1, QuotientOfProduct
    <3>3. n % (P * Q) = (n % P) + P * ((n \div P) % Q)
      BY <3>1, RemainderOfProduct
    <3> QED  BY <3>2, <3>3
  <2> QED  BY <1>1, <2>1 DEF Up, Low
<1>3. Up(n, i) \in Int /\ Low(n, i) \in Nat /\ Low(n, i) < Pow2[i]
  BY Halves
<1>4. Low(Up(n, i), j) \in Nat /\ Low(Up(n, i), j) \in Int
  <2> DEFINE u == Up(n, i)
  <2>1. u \in Int
    BY <1>3
  <2> HIDE DEF u
  <2>2. Low(u, j) \in Nat
    BY <2>1, Halves
  <2> QED  BY <2>2 DEF u
<1>5. Low(n, i + j) = Pow2[i] * Low(Up(n, i), j) + Low(n, i) /\ Low(n, i + j) \in Int
  <2> DEFINE p == Pow2[i] * Low(Up(n, i), j)
  <2>1. p \in Int
    BY <1>1, <1>4
  <2> HIDE DEF p
  <2>2. Low(n, i) + p = p + Low(n, i) /\ p + Low(n, i) \in Int
    BY <1>3, <2>1
  <2> QED  BY <1>2, <2>2 DEF p
<1>6. Up(Low(n, i + j), i) = Low(Up(n, i), j) /\ Low(Low(n, i + j), i) = Low(n, i)
  BY <1>3, <1>4, <1>5, HalvesAre
<1> QED  BY <1>2, <1>6

LEMMA FewerBits ==
  ASSUME NEW i \in Nat, NEW j \in Nat, NEW n \in Nat, n < Pow2[i + j]
  PROVE  Up(n, i) \in Nat /\ Up(n, i) < Pow2[j]
<1>1. Low(n, i + j) = n
  BY FewBits
<1>2. Up(Low(n, i + j), i) = Low(Up(n, i), j) /\ Up(n, i) \in Int
  <2>1. n \in Int
    OBVIOUS
  <2>2. Up(n, i) \in Int
    BY <2>1, Halves
  <2>3. Up(Low(n, i + j), i) = Low(Up(n, i), j)
    BY <2>1, HalvesOfHalves
  <2> QED  BY <2>2, <2>3
<1>3. Low(Up(n, i), j) \in Nat /\ Low(Up(n, i), j) < Pow2[j]
  BY <1>2, Halves
<1> QED  BY <1>1, <1>2, <1>3

\* a number put above i other bits
LEMMA MoreBits ==
  ASSUME NEW i \in Nat, NEW j \in Nat, NEW n \in Nat, NEW m \in Nat,
         n < Pow2[j], m < Pow2[i]
  PROVE  /\ Pow2[i] * n \in Nat /\ Pow2[i] * n + m \in Nat
         /\ Pow2[i] * n + m < Pow2[i + j]
         /\ Up(Pow2[i] * n + m, i) = n /\ Low(Pow2[i] * n + m, i) = m
<1>1. /\ Pow2[i] \in Nat /\ Pow2[j] \in Nat
      /\ Pow2[i + j] = Pow2[i] * Pow2[j] /\ Pow2[i + j] \in Nat
  BY Pow2Unfold, Pow2Sum
<1>2. /\ Pow2[i] * n \in Int /\ Pow2[i] * 0 <= Pow2[i] * n
      /\ Pow2[i] * n <= Pow2[i] * (Pow2[j] - 1)
  BY <1>1, ProductMonotone
<1>3. Pow2[i] * (Pow2[j] - 1) = Pow2[i + j] - Pow2[i]
  BY <1>1
<1>4. Pow2[i] * n + m \in Nat /\ Pow2[i] * n + m < Pow2[i + j] /\ Pow2[i] * n \in Nat
  <2> DEFINE p == Pow2[i] * n
             q == Pow2[i] * (Pow2[j] - 1)
  <2>1. p \in Int /\ 0 <= p /\ p <= q /\ q = Pow2[i + j] - Pow2[i]
    BY <1>1, <1>2, <1>3
  <2> HIDE DEF p, q
  <2>2. p + m \in Nat /\ p + m < Pow2[i + j] /\ p \in Nat
    BY <1>1, <2>1
  <2> QED  BY <2>2 DEF p
<1>5. Up(Pow2[i] * n + m, i) = n /\ Low(Pow2[i] * n + m, i) = m
  <2>1. Pow2[i] * n + m \in Int /\ n \in Int
    BY <1>4
  <2> QED  BY <2>1, HalvesAre
<1> QED  BY <1>4, <1>5

LEMMA HalvesOfSum ==
  ASSUME NEW n \in Int, NEW k \in Int, NEW i \in Nat
  PROVE  /\ Up(n + Pow2[i] * k, i) = Up(n, i) + k
         /\ Low(n + Pow2[i] * k, i) = Low(n, i)
<1>1. Pow2[i] \in Nat \ {0}
  BY Pow2Unfold
<1> QED  BY <1>1, QuotientOfSum DEF Up, Low

\* Two numbers that have the same bits below i differ by a multiple of Pow2[i].
LEMMA SameLow ==
  ASSUME NEW n \in Int, NEW m \in Int, NEW i \in Nat, Low(n, i) = Low(m, i)
  PROVE  n = m + Pow2[i] * (Up(n, i) - Up(m, i))
<1>1. /\ Pow2[i] \in Int /\ Up(n, i) \in Int /\ Up(m, i) \in Int /\ Low(m, i) \in Int
      /\ n = Pow2[i] * Up(n, i) + Low(n, i)
      /\ m = Pow2[i] * Up(m, i) + Low(m, i)
  <2>1. Pow2[i] \in Nat /\ Up(n, i) \in Int /\ n = Pow2[i] * Up(n, i) + Low(n, i)
    BY Halves
  <2>2. Up(m, i) \in Int /\ Low(m, i) \in Nat /\ m = Pow2[i] * Up(m, i) + Low(m, i)
    BY Halves
  <2>3. Pow2[i] \in Int /\ Low(m, i) \in Int
    BY <2>1, <2>2
  <2> QED  BY <2>1, <2>2, <2>3
<1>2. Pow2[i] * (Up(n, i) - Up(m, i)) = Pow2[i] * Up(n, i) - Pow2[i] * Up(m, i)
  BY <1>1, Products
<1> DEFINE p == Pow2[i] * Up(n, i)
           q == Pow2[i] * Up(m, i)
<1>3. p \in Int /\ q \in Int
  BY <1>1
<1>4. n = p + Low(m, i) /\ m = q + Low(m, i) /\ Pow2[i] * (Up(n, i) - Up(m, i)) = p - q
  BY <1>1, <1>2
<1> HIDE DEF p, q
<1> QED  BY <1>1, <1>3, <1>4

-----------------------------------------------------------------------------
(***************************************************************************)
(* Bits.                                                                   *)
(***************************************************************************)

LEMMA BitIs ==
  ASSUME NEW n \in Int, NEW i \in Nat
  PROVE  /\ BitOf(n, i) \in {0, 1}
         /\ Up(n, i) \in Int /\ Up(n, i + 1) \in Int
         /\ Up(n, i) = 2 * Up(n, i + 1) + BitOf(n, i)
         /\ Low(n, i + 1) = Low(n, i) + Pow2[i] * BitOf(n, i)
<1>1. Pow2[1] = 2
  <2>1. Pow2[0] = 1 /\ Pow2[0 + 1] = 2 * Pow2[0]
    BY Pow2Unfold
  <2> QED  BY <2>1
<1>2. Up(n, i) \in Int /\ Up(n, i + 1) \in Int
  BY Halves
<1>3. BitOf(n, i) = Low(Up(n, i), 1)
  BY <1>1 DEF BitOf, Up, Low
<1>4. Up(Up(n, i), 1) = Up(n, i + 1) /\ Low(n, i + 1) = Low(n, i) + Pow2[i] * Low(Up(n, i), 1)
  BY HalvesOfHalves
<1> DEFINE u == Up(n, i)
<1>5. u \in Int
  BY <1>2
<1> HIDE DEF u
<1>6. u = 2 * Up(u, 1) + Low(u, 1) /\ Low(u, 1) \in Nat /\ Low(u, 1) < 2
  BY <1>1, <1>5, Halves
<1> QED  BY <1>2, <1>3, <1>4, <1>6 DEF u

\* Numbers of i bits with the same bits are equal.
LEMMA SameBits ==
  ASSUME NEW n \in Int, NEW m \in Int, NEW i \in Nat,
         \A k \in 0 .. i - 1 : BitOf(n, k) = BitOf(m, k)
  PROVE  Low(n, i) = Low(m, i)
<1> DEFINE S == {k \in Nat : k <= i => Low(n, k) = Low(m, k)}
<1>1. 0 \in S
  BY NoBits
<1>2. ASSUME NEW k \in Nat, k \in S PROVE k + 1 \in S
  <2> SUFFICES ASSUME k + 1 <= i PROVE Low(n, k + 1) = Low(m, k + 1)
    OBVIOUS
  <2>1. Low(n, k) = Low(m, k) /\ BitOf(n, k) = BitOf(m, k)
    BY <1>2
  <2>2. Low(n, k + 1) = Low(n, k) + Pow2[k] * BitOf(n, k)
    BY BitIs
  <2>3. Low(m, k + 1) = Low(m, k) + Pow2[k] * BitOf(m, k)
    BY BitIs
  <2> QED  BY <2>1, <2>2, <2>3
<1> HIDE DEF S
<1>3. Nat \subseteq S
  BY <1>1, <1>2, Induction
<1> QED  BY <1>3 DEF S

\* bits of the parts of a number
LEMMA BitOfUp ==
  ASSUME NEW n \in Int, NEW i \in Nat, NEW k \in Nat
  PROVE  BitOf(Up(n, i), k) = BitOf(n, i + k)
<1>1. Up(Up(n, i), k) = Up(n, i + k)
  BY HalvesOfHalves
<1> QED  BY <1>1 DEF BitOf, Up

LEMMA BitOfLow ==
  ASSUME NEW n \in Int, NEW i \in Nat, NEW k \in Nat
  PROVE  BitOf(Low(n, i), k) = IF k < i THEN BitOf(n, k) ELSE 0
<1>1. Low(n, i) \in Nat /\ Low(n, i) < Pow2[i]
  BY Halves
<1>2. CASE k < i
  <2> DEFINE m == Low(n, i)
  <2>1. Low(m, k + 1) = Low(n, k + 1)
    <3>1. i - (k + 1) \in Nat /\ i = (k + 1) + (i - (k + 1)) /\ k + 1 \in Nat
      BY <1>2
    <3>2. Low(Low(n, (k + 1) + (i - (k + 1))), k + 1) = Low(n, k + 1)
      BY <3>1, HalvesOfHalves
    <3> QED  BY <3>1, <3>2
  <2>2. Low(m, k) = Low(n, k)
    <3>1. i - k \in Nat /\ i = k + (i - k)
      BY <1>2
    <3>2. Low(Low(n, k + (i - k)), k) = Low(n, k)
      BY <3>1, HalvesOfHalves
    <3> QED  BY <3>1, <3>2
  <2> HIDE DEF m
  <2>3. m \in Int
    BY <1>1 DEF m
  <2>4. Low(m, k + 1) = Low(m, k) + Pow2[k] * BitOf(m, k) /\ BitOf(m, k) \in {0, 1}
    BY <2>3, BitIs
  <2>5. Low(n, k + 1) = Low(n, k) + Pow2[k] * BitOf(n, k) /\ BitOf(n, k) \in {0, 1}
    BY BitIs
  <2>6. Low(n, k) \in Nat /\ Pow2[k] \in Nat /\ Pow2[k] >= 1
    BY Halves
  <2>7. BitOf(m, k) = BitOf(n, k)
    BY <2>1, <2>2, <2>4, <2>5, <2>6
  <2> QED  BY <1>2, <2>7 DEF m
<1>3. CASE ~ k < i
  <2>1. Pow2[i] <= Pow2[k] /\ Pow2[i] \in Nat /\ Pow2[k] \in Nat
    BY <1>3, Pow2Monotone
  <2>2. Up(Low(n, i), k) = 0
    BY <1>1, <2>1, FewBits
  <2>3. BitOf(Low(n, i), k) = 0
    BY <2>2 DEF BitOf, Up
  <2> QED  BY <1>3, <2>3
<1> QED  BY <1>2, <1>3

-----------------------------------------------------------------------------
(***************************************************************************)
(* Numbers combined bit by bit.                                            *)
(***************************************************************************)
BitOps == [Bit2 -> {0, 1}]

LEMMA BitOpsAre == XorBit \in BitOps /\ OrBit \in BitOps /\ AndBit \in BitOps
BY DEF BitOps, Bit2, XorBit, OrBit, AndBit

\* The recursion that defines Combined has a solution.
LEMMA CombinedUnfold ==
  ASSUME NEW op \in BitOps, NEW x \in Int, NEW y \in Int
  PROVE  /\ Combined(op, 0, x, y) = 0
         /\ \A w \in Nat :
              /\ Combined(op, w, x, y) \in Nat
              /\ Combined(op, w + 1, x, y) =
                   Combined(op, w, x, y) + Pow2[w] * op[<<BitOf(x, w), BitOf(y, w)>>]
<1> DEFINE term(i) == Pow2[i] * op[<<BitOf(x, i), BitOf(y, i)>>]
           step == [p \in Nat \X Nat |-> p[2] + term(p[1])]
           Solves(f, w) == f = [i \in 0 .. w |-> IF i = 0 THEN 0 ELSE f[i - 1] + term(i - 1)]
<1>1. \A i \in Nat : term(i) \in Nat
  <2> SUFFICES ASSUME NEW i \in Nat PROVE term(i) \in Nat
    OBVIOUS
  <2>1. BitOf(x, i) \in {0, 1} /\ BitOf(y, i) \in {0, 1}
    BY BitIs
  <2>2. op[<<BitOf(x, i), BitOf(y, i)>>] \in {0, 1}
    BY <2>1 DEF BitOps, Bit2
  <2>3. Pow2[i] \in Nat
    BY Pow2Unfold
  <2> QED  BY <2>2, <2>3
<1> HIDE DEF term
<1>2. step \in [Nat \X Nat -> Nat]
  BY <1>1
<1>3. PICK f : Iterates(f, Nat, 0, step)
  <2> HIDE DEF step
  <2> QED  BY <1>2, Recursion
<1>4. f \in [Nat -> Nat] /\ f[0] = 0 /\ \A i \in Nat : f[i + 1] = f[i] + term(i)
  BY <1>3 DEF Iterates
<1>5. ASSUME NEW w \in Nat, NEW g, Solves(g, w) PROVE g[w] = f[w]
  <2> DEFINE S == {k \in Nat : k <= w => g[k] = f[k]}
  <2>1. 0 \in S
    BY <1>4, <1>5
  <2>2. ASSUME NEW k \in Nat, k \in S PROVE k + 1 \in S
    <3> SUFFICES ASSUME k + 1 <= w PROVE g[k + 1] = f[k + 1]
      OBVIOUS
    <3>1. k + 1 \in 0 .. w /\ k + 1 # 0 /\ (k + 1) - 1 = k
      OBVIOUS
    <3>2. \A i \in 0 .. w : g[i] = IF i = 0 THEN 0 ELSE g[i - 1] + term(i - 1)
      BY <1>5
    <3>3. g[k + 1] = g[k] + term(k)
      BY <3>1, <3>2
    <3>4. g[k] = f[k]
      BY <2>2
    <3> QED  BY <1>4, <3>3, <3>4
  <2> HIDE DEF S
  <2>3. Nat \subseteq S
    BY <2>1, <2>2, Induction
  <2> QED  BY <2>3 DEF S
<1>6. ASSUME NEW w \in Nat PROVE Solves([i \in 0 .. w |-> f[i]], w)
  <2> DEFINE g == [i \in 0 .. w |-> f[i]]
  <2>1. ASSUME NEW i \in 0 .. w
        PROVE  f[i] = IF i = 0 THEN 0 ELSE g[i - 1] + term(i - 1)
    <3>1. CASE i = 0
      BY <1>4, <3>1
    <3>2. CASE i # 0
      <4>1. i - 1 \in Nat /\ (i - 1) + 1 = i /\ i - 1 \in 0 .. w
        BY <3>2
      <4>2. g[i - 1] = f[i - 1]
        BY <4>1
      <4> QED  BY <1>4, <3>2, <4>1, <4>2
    <3> QED  BY <3>1, <3>2
  <2> QED  BY <2>1
<1>7. ASSUME NEW w \in Nat PROVE Combined(op, w, x, y) = f[w]
  <2> DEFINE g == CHOOSE h : Solves(h, w)
  <2>1. Solves(g, w)
    BY <1>6
  <2>2. Combined(op, w, x, y) = g[w]
    BY DEF Combined, term
  <2> HIDE DEF g
  <2> QED  BY <1>5, <2>1, <2>2
<1>8. Combined(op, 0, x, y) = 0
  BY <1>4, <1>7
<1>9. ASSUME NEW w \in Nat
      PROVE  /\ Combined(op, w, x, y) \in Nat
             /\ Combined(op, w + 1, x, y) = Combined(op, w, x, y) + term(w)
  <2>1. Combined(op, w, x, y) = f[w] /\ Combined(op, w + 1, x, y) = f[w + 1]
    BY <1>7
  <2> QED  BY <1>4, <2>1
<1> QED  BY <1>8, <1>9 DEF term

\* The combination has the combined bits, and no others.
LEMMA CombinedIs ==
  ASSUME NEW op \in BitOps, NEW w \in Nat, NEW x \in Int, NEW y \in Int, NEW z \in Int,
         \A k \in 0 .. w - 1 : BitOf(z, k) = op[<<BitOf(x, k), BitOf(y, k)>>]
  PROVE  Combined(op, w, x, y) = Low(z, w)
<1> DEFINE S == {k \in Nat : k <= w => Combined(op, k, x, y) = Low(z, k)}
<1>1. 0 \in S
  BY CombinedUnfold, NoBits
<1>2. ASSUME NEW k \in Nat, k \in S PROVE k + 1 \in S
  <2> SUFFICES ASSUME k + 1 <= w PROVE Combined(op, k + 1, x, y) = Low(z, k + 1)
    OBVIOUS
  <2>1. Combined(op, k, x, y) = Low(z, k)
    BY <1>2
  <2>2. Combined(op, k + 1, x, y) =
          Combined(op, k, x, y) + Pow2[k] * op[<<BitOf(x, k), BitOf(y, k)>>]
    BY CombinedUnfold
  <2>3. BitOf(z, k) = op[<<BitOf(x, k), BitOf(y, k)>>]
    OBVIOUS
  <2>4. Low(z, k + 1) = Low(z, k) + Pow2[k] * BitOf(z, k)
    BY BitIs
  <2> QED  BY <2>1, <2>2, <2>3, <2>4
<1> HIDE DEF S
<1>3. Nat \subseteq S
  BY <1>1, <1>2, Induction
<1> QED  BY <1>3 DEF S

LEMMA CombinedBits ==
  ASSUME NEW op \in BitOps, NEW w \in Nat, NEW x \in Int, NEW y \in Int
  PROVE  /\ Combined(op, w, x, y) \in Nat
         /\ Combined(op, w, x, y) < Pow2[w]
         /\ \A k \in Nat : BitOf(Combined(op, w, x, y), k) =
              IF k < w THEN op[<<BitOf(x, k), BitOf(y, k)>>] ELSE 0
<1> DEFINE c(v) == Combined(op, v, x, y)
           b(k) == op[<<BitOf(x, k), BitOf(y, k)>>]
           S == {v \in Nat : /\ c(v) < Pow2[v]
                             /\ \A k \in Nat : k < v => BitOf(c(v), k) = b(k)}
<1>0. \A v \in Nat : c(v) \in Nat /\ c(v + 1) = c(v) + Pow2[v] * b(v)
  BY CombinedUnfold
<1>1. \A k \in Nat : b(k) \in {0, 1}
  <2> SUFFICES ASSUME NEW k \in Nat PROVE b(k) \in {0, 1}
    OBVIOUS
  <2>1. BitOf(x, k) \in {0, 1} /\ BitOf(y, k) \in {0, 1}
    BY BitIs
  <2> QED  BY <2>1 DEF BitOps, Bit2
<1>2. 0 \in S
  BY CombinedUnfold, Pow2Unfold
<1> HIDE DEF c, b
<1>3. ASSUME NEW v \in Nat, v \in S PROVE v + 1 \in S
  <2>1. /\ c(v) \in Nat /\ c(v) < Pow2[v] /\ b(v) \in {0, 1}
        /\ c(v + 1) \in Nat /\ c(v + 1) = c(v) + Pow2[v] * b(v)
    BY <1>0, <1>1, <1>3
  <2>2. Pow2[v] \in Nat /\ Pow2[v + 1] = 2 * Pow2[v]
    BY Pow2Unfold
  <2>3. c(v + 1) < Pow2[v + 1]
    BY <2>1, <2>2
  <2>4. Up(c(v + 1), v) = b(v) /\ Low(c(v + 1), v) = c(v)
    <3>1. c(v + 1) = Pow2[v] * b(v) + c(v)
      BY <2>1, <2>2
    <3>2. b(v) \in Int /\ c(v + 1) \in Int
      BY <2>1
    <3> QED  BY <2>1, <3>1, <3>2, HalvesAre
  <2>5. ASSUME NEW k \in Nat, k < v + 1 PROVE BitOf(c(v + 1), k) = b(k)
    <3>1. CASE k = v
      BY <2>1, <2>4, <3>1 DEF BitOf, Up
    <3>2. CASE k < v
      <4>1. BitOf(Low(c(v + 1), v), k) = BitOf(c(v + 1), k)
        BY <2>1, <3>2, BitOfLow
      <4>2. BitOf(c(v), k) = b(k)
        BY <1>3, <3>2
      <4> QED  BY <2>4, <4>1, <4>2
    <3> QED  BY <2>5, <3>1, <3>2
  <2> QED  BY <2>3, <2>5
<1> HIDE DEF S
<1>4. Nat \subseteq S
  BY <1>2, <1>3, Induction
<1>5. c(w) \in Nat /\ c(w) < Pow2[w] /\ \A k \in Nat : k < w => BitOf(c(w), k) = b(k)
  BY <1>0, <1>4 DEF S
<1>6. ASSUME NEW k \in Nat, ~ k < w PROVE BitOf(c(w), k) = 0
  <2>1. Low(c(w), w) = c(w)
    BY <1>5, FewBits
  <2>2. c(w) \in Int
    BY <1>5
  <2>3. BitOf(Low(c(w), w), k) = 0
    BY <1>6, <2>2, BitOfLow
  <2> QED  BY <2>1, <2>3
<1> QED  BY <1>5, <1>6 DEF c, b

LEMMA LowOfLow ==
  ASSUME NEW n \in Int, NEW i \in Nat, NEW j \in Nat
  PROVE  /\ i <= j => Low(Low(n, j), i) = Low(n, i) /\ Low(Low(n, i), j) = Low(n, i)
         /\ j <= i => Low(Low(n, j), i) = Low(n, j) /\ Low(Low(n, i), j) = Low(n, j)
<1>1. ASSUME NEW a \in Nat, NEW b \in Nat, a <= b
      PROVE  Low(Low(n, b), a) = Low(n, a) /\ Low(Low(n, a), b) = Low(n, a)
  <2>1. b - a \in Nat /\ a + (b - a) = b
    BY <1>1
  <2>2. Low(Low(n, a + (b - a)), a) = Low(n, a)
    BY <2>1, HalvesOfHalves
  <2>3. Low(n, a) \in Nat /\ Low(n, a) < Pow2[a]
    BY Halves
  <2>4. Pow2[a] \in Nat /\ Pow2[a] <= Pow2[b] /\ Pow2[b] \in Nat
    BY <1>1, Pow2Monotone, Pow2Unfold
  <2>5. Low(Low(n, a), b) = Low(n, a)
    BY <2>3, <2>4, FewBits
  <2> QED  BY <2>1, <2>2, <2>5
<1> QED  BY <1>1

LEMMA HalvesOfComplement ==
  ASSUME NEW n \in Int, NEW i \in Nat
  PROVE  /\ Up(-1 - n, i) = -1 - Up(n, i)
         /\ Low(-1 - n, i) = Pow2[i] - 1 - Low(n, i)
<1>1. /\ Pow2[i] \in Nat /\ Up(n, i) \in Int /\ Low(n, i) \in Nat
      /\ Low(n, i) < Pow2[i] /\ n = Pow2[i] * Up(n, i) + Low(n, i)
  BY Halves
<1> DEFINE P == Pow2[i]
           q == Up(n, i)
           r == Low(n, i)
<1>2. P \in Nat /\ q \in Int /\ r \in Nat /\ r < P /\ n = P * q + r
  BY <1>1
<1> HIDE DEF P, q, r
<1>3. -1 - n = P * (-1 - q) + (P - 1 - r)
  <2>1. P * (-1 - q) = P * (-1) - P * q /\ P * q \in Int /\ P * (-1) = -P
    BY <1>2, Products
  <2> QED  BY <1>2, <2>1
<1>4. -1 - n \in Int /\ -1 - q \in Int /\ P - 1 - r \in Nat /\ P - 1 - r < P
  BY <1>2
<1> QED  BY <1>3, <1>4, HalvesAre DEF P, q, r

LEMMA BitsOfComplement ==
  ASSUME NEW n \in Int, NEW k \in Nat
  PROVE  BitOf(-1 - n, k) = 1 - BitOf(n, k)
<1>1. Up(-1 - n, k) = -1 - Up(n, k) /\ Up(-1 - n, k + 1) = -1 - Up(n, k + 1)
  BY HalvesOfComplement
<1>2. -1 - n \in Int
  OBVIOUS
<1>3. /\ BitOf(n, k) \in {0, 1} /\ Up(n, k) \in Int /\ Up(n, k + 1) \in Int
      /\ Up(n, k) = 2 * Up(n, k + 1) + BitOf(n, k)
  BY BitIs
<1> DEFINE m == -1 - n
<1>4. m \in Int
  BY <1>2
<1> HIDE DEF m
<1>5. /\ BitOf(m, k) \in {0, 1} /\ Up(m, k) = 2 * Up(m, k + 1) + BitOf(m, k)
  BY <1>4, BitIs
<1> QED  BY <1>1, <1>3, <1>5 DEF m

\* A number of i bits with another above it.
LEMMA BitsOfSum ==
  ASSUME NEW n \in Int, NEW i \in Nat, NEW m \in Nat, m < Pow2[i], NEW k \in Nat
  PROVE  /\ Pow2[i] * n + m \in Int
         /\ BitOf(Pow2[i] * n + m, k) = IF k < i THEN BitOf(m, k) ELSE BitOf(n, k - i)
<1> DEFINE s == Pow2[i] * n + m
<1>1. s \in Int /\ Up(s, i) = n /\ Low(s, i) = m
  <2>1. Pow2[i] \in Nat
    BY Pow2Unfold
  <2>2. s \in Int /\ s = Pow2[i] * n + m
    BY <2>1
  <2> HIDE DEF s
  <2> QED  BY <2>2, HalvesAre
<1> HIDE DEF s
<1>2. CASE k < i
  <2>1. BitOf(Low(s, i), k) = BitOf(s, k)
    BY <1>1, <1>2, BitOfLow
  <2> QED  BY <1>1, <1>2, <2>1 DEF s
<1>3. CASE ~ k < i
  <2>1. k - i \in Nat /\ i + (k - i) = k
    BY <1>3
  <2>2. BitOf(Up(s, i), k - i) = BitOf(s, i + (k - i))
    BY <1>1, <2>1, BitOfUp
  <2> QED  BY <1>1, <1>3, <2>1, <2>2 DEF s
<1> QED  BY <1>2, <1>3

LEMMA BitsOfSmall ==
  ASSUME NEW i \in Nat, NEW n \in Nat, n < Pow2[i], NEW k \in Nat, k >= i
  PROVE  BitOf(n, k) = 0
<1>1. Low(n, i) = n /\ n \in Int
  BY FewBits
<1>2. BitOf(Low(n, i), k) = 0
  BY BitOfLow
<1> QED  BY <1>1, <1>2

LEMMA BitsOfZero ==
  ASSUME NEW k \in Nat
  PROVE  BitOf(0, k) = 0
<1>1. 0 < Pow2[0]
  BY Pow2Unfold
<1> QED  BY <1>1, BitsOfSmall

\* i ones
LEMMA BitsOfOnes ==
  ASSUME NEW i \in Nat, NEW k \in Nat
  PROVE  /\ Pow2[i] - 1 \in Nat /\ Pow2[i] - 1 < Pow2[i]
         /\ BitOf(Pow2[i] - 1, k) = IF k < i THEN 1 ELSE 0
<1>1. Pow2[i] \in Nat /\ Pow2[i] >= 1
  BY Pow2Unfold
<1>2. Low(-1, i) = Pow2[i] - 1
  <2>1. Low(-1 - 0, i) = Pow2[i] - 1 - Low(0, i)
    BY HalvesOfComplement
  <2>2. Low(0, i) = 0
    BY <1>1, FewBits
  <2> QED  BY <1>1, <2>1, <2>2
<1>3. BitOf(-1, k) = 1
  <2>1. BitOf(-1 - 0, k) = 1 - BitOf(0, k)
    BY BitsOfComplement
  <2> QED  BY <2>1, BitsOfZero
<1>4. BitOf(Low(-1, i), k) = IF k < i THEN BitOf(-1, k) ELSE 0
  BY BitOfLow
<1> QED  BY <1>1, <1>2, <1>3, <1>4

LEMMA BitsOfPower ==
  ASSUME NEW i \in Nat, NEW k \in Nat
  PROVE  BitOf(Pow2[i], k) = IF k = i THEN 1 ELSE 0
<1>1. Pow2[i] \in Nat /\ 0 < Pow2[i]
  BY Pow2Unfold
<1>2. BitOf(Pow2[i] * 1 + 0, k) = IF k < i THEN BitOf(0, k) ELSE BitOf(1, k - i)
  BY <1>1, BitsOfSum
<1>3. Pow2[i] * 1 + 0 = Pow2[i]
  BY <1>1
<1>4. \A j \in Nat : BitOf(1, j) = IF j < 1 THEN 1 ELSE 0
  <2>1. Pow2[1] - 1 = 1
    <3>1. Pow2[0] = 1 /\ Pow2[0 + 1] = 2 * Pow2[0]
      BY Pow2Unfold
    <3> QED  BY <3>1
  <2>2. \A j \in Nat : BitOf(Pow2[1] - 1, j) = IF j < 1 THEN 1 ELSE 0
    BY BitsOfOnes
  <2> QED  BY <2>1, <2>2
<1> QED  BY <1>2, <1>3, <1>4, BitsOfZero

Arrays == Seq(Word)

-----------------------------------------------------------------------------
(***************************************************************************)
(* Words.                                                                  *)
(***************************************************************************)

LEMMA WrapIs ==
  ASSUME NEW n \in Int, NEW q \in Int, NEW r \in Word, n = Base * q + r
  PROVE  Wrap(n) = r /\ n \div Base = q
BY BaseAssumption DEF Wrap, Word

LEMMA Wraps ==
  ASSUME NEW n \in Int
  PROVE  n \div Base \in Int /\ Wrap(n) \in Word /\ n = Base * (n \div Base) + Wrap(n)
BY BaseAssumption DEF Wrap, Word

\* A number that is not more than one word out of range.
LEMMA WrapNear ==
  ASSUME NEW n \in Int
  PROVE  /\ n \in Word => Wrap(n) = n
         /\ n - Base \in Word => Wrap(n) = n - Base
         /\ n + Base \in Word => Wrap(n) = n + Base
<1>1. ASSUME n \in Word PROVE Wrap(n) = n
  <2>1. n = Base * 0 + n
    BY BaseAssumption
  <2> QED  BY <1>1, <2>1, WrapIs
<1>2. ASSUME n - Base \in Word PROVE Wrap(n) = n - Base
  <2>1. n = Base * 1 + (n - Base)
    BY BaseAssumption
  <2> QED  BY <1>2, <2>1, WrapIs
<1>3. ASSUME n + Base \in Word PROVE Wrap(n) = n + Base
  <2>1. n = Base * (-1) + (n + Base)
    BY BaseAssumption
  <2> QED  BY <1>3, <2>1, WrapIs
<1> QED  BY <1>1, <1>2, <1>3

LEMMA AddDigitIs ==
  ASSUME NEW a \in Word, NEW b \in Word, NEW carry \in {0, 1}
  PROVE  LET s == AddDigit(a, b, carry)
         IN  /\ s.digit \in Word /\ s.carry \in {0, 1}
             /\ s.digit + Base * s.carry = a + b + carry
<1> DEFINE first == Wrap(a + carry)
           second == Wrap(first + b)
           s == AddDigit(a, b, carry)
           Right(t) == /\ t.digit \in Word /\ t.carry \in {0, 1}
                       /\ t.digit + Base * t.carry = a + b + carry
<1>1. CASE a + carry < Base
  <2>1. first = a + carry /\ ~ first < carry
    BY <1>1, WrapNear, BaseAssumption DEF Word
  <2>2. CASE first + b < Base
    <3>1. second = first + b /\ ~ second < b
      BY <2>1, <2>2, WrapNear, BaseAssumption DEF Word
    <3>2. s.digit = second /\ s.carry = 0
      BY <2>1, <3>1 DEF AddDigit, Bit
    <3> HIDE DEF s, first, second
    <3>3. Right(s)
      BY <2>1, <2>2, <3>1, <3>2, BaseAssumption DEF Word
    <3> QED  BY <3>3 DEF s
  <2>3. CASE first + b >= Base
    <3>1. second = first + b - Base /\ second < b
      BY <2>1, <2>3, WrapNear, BaseAssumption DEF Word
    <3>2. s.digit = second /\ s.carry = 1
      BY <2>1, <3>1 DEF AddDigit, Bit
    <3> HIDE DEF s, first, second
    <3>3. Right(s)
      BY <2>1, <2>3, <3>1, <3>2, BaseAssumption DEF Word
    <3> QED  BY <3>3 DEF s
  <2> QED  BY <2>1, <2>2, <2>3, BaseAssumption DEF Word
<1>2. CASE a + carry >= Base
  <2>1. a = Base - 1 /\ carry = 1 /\ first = 0 /\ second = b
    BY <1>2, WrapNear, BaseAssumption DEF Word
  <2> QED  BY <2>1, BaseAssumption DEF AddDigit, Bit, Word
<1> QED  BY <1>1, <1>2, BaseAssumption DEF Word

LEMMA CarryDigitIs ==
  ASSUME NEW a \in Word, NEW carry \in {0, 1}
  PROVE  LET s == CarryDigit(a, carry)
         IN  /\ s.digit \in Word /\ s.carry \in {0, 1}
             /\ s.digit + Base * s.carry = a + carry
<1>1. CASE a + carry < Base
  <2>1. Wrap(a + carry) = a + carry
    BY <1>1, WrapNear, BaseAssumption DEF Word
  <2> QED  BY <2>1, <1>1, BaseAssumption DEF CarryDigit, Bit, Word
<1>2. CASE a + carry >= Base
  <2>1. Wrap(a + carry) = 0 /\ carry = 1 /\ a = Base - 1
    BY <1>2, WrapNear, BaseAssumption DEF Word
  <2> QED  BY <2>1, BaseAssumption DEF CarryDigit, Bit, Word
<1> QED  BY <1>1, <1>2, BaseAssumption DEF Word

LEMMA SubDigitIs ==
  ASSUME NEW a \in Word, NEW b \in Word, NEW carry \in {0, 1}
  PROVE  LET s == SubDigit(a, b, carry)
         IN  /\ s.digit \in Word /\ s.carry \in {0, 1}
             /\ s.digit - Base * s.carry = a - b - carry
<1> DEFINE value == Wrap(b + carry)
<1>1. CASE b + carry < Base
  <2>1. value = b + carry /\ ~ value < carry
    BY <1>1, WrapNear, BaseAssumption DEF Word
  <2>2. CASE a >= value
    <3>1. Wrap(a - value) = a - value
      BY <2>1, <2>2, WrapNear, BaseAssumption DEF Word
    <3> QED  BY <2>1, <2>2, <3>1, BaseAssumption DEF SubDigit, Bit, Word
  <2>3. CASE a < value
    <3>1. Wrap(a - value) = a - value + Base
      BY <2>1, <2>3, WrapNear, BaseAssumption DEF Word
    <3> QED  BY <2>1, <2>3, <3>1, BaseAssumption DEF SubDigit, Bit, Word
  <2> QED  BY <2>1, <2>2, <2>3, BaseAssumption DEF Word
<1>2. CASE b + carry >= Base
  <2>1. b = Base - 1 /\ carry = 1 /\ value = 0
    BY <1>2, WrapNear, BaseAssumption DEF Word
  <2>2. Wrap(a - value) = a
    BY <2>1, WrapNear, BaseAssumption DEF Word
  <2> QED  BY <2>1, <2>2, BaseAssumption DEF SubDigit, Bit, Word
<1> QED  BY <1>1, <1>2, BaseAssumption DEF Word

LEMMA BorrowDigitIs ==
  ASSUME NEW a \in Word, NEW carry \in {0, 1}
  PROVE  LET s == BorrowDigit(a, carry)
         IN  /\ s.digit \in Word /\ s.carry \in {0, 1}
             /\ s.digit - Base * s.carry = a - carry
<1>1. CASE a >= carry
  <2>1. Wrap(a - carry) = a - carry
    BY <1>1, WrapNear, BaseAssumption DEF Word
  <2> QED  BY <1>1, <2>1, BaseAssumption DEF BorrowDigit, Bit, Word
<1>2. CASE a < carry
  <2>1. Wrap(a - carry) = a - carry + Base
    BY <1>2, WrapNear, BaseAssumption DEF Word
  <2> QED  BY <1>2, <2>1, BaseAssumption DEF BorrowDigit, Bit, Word
<1> QED  BY <1>1, <1>2, BaseAssumption DEF Word

LEMMA MulDigitIs ==
  ASSUME NEW a \in Word, NEW b \in Word, NEW carry \in Word
  PROVE  LET s == MulDigit(a, b, carry)
         IN  /\ s.digit \in Word /\ s.carry \in Word
             /\ s.digit + Base * s.carry = a * b + carry
<1> DEFINE high == (a * b) \div Base
           low == Wrap(a * b)
           sum == Wrap(low + carry)
           over == Bit(sum < carry)
<1>1. high \in Int /\ low \in Word /\ a * b \in Int /\ a * b = Base * high + low
  BY Wraps DEF Word
<1>2. sum \in Word /\ over \in {0, 1} /\ sum + Base * over = low + carry
  <2> HIDE DEF low
  <2>1. CASE low + carry < Base
    <3>1. sum = low + carry
      BY <1>1, <2>1, WrapNear, BaseAssumption DEF Word
    <3> QED  BY <1>1, <3>1, <2>1, BaseAssumption DEF Bit, Word
  <2>2. CASE low + carry >= Base
    <3>1. sum = low + carry - Base
      BY <1>1, <2>2, WrapNear, BaseAssumption DEF Word
    <3> QED  BY <1>1, <3>1, <2>2, BaseAssumption DEF Bit, Word
  <2> QED  BY <1>1, <2>1, <2>2, BaseAssumption DEF Word
<1> DEFINE s == MulDigit(a, b, carry)
<1>3. s.digit = sum /\ s.carry = over + high
  BY DEF MulDigit
<1> HIDE DEF s, high, low, sum, over
<1>4. sum + Base * (over + high) = a * b + carry
  <2>1. Base * (over + high) = Base * over + Base * high
    BY <1>1, <1>2, BaseAssumption
  <2> QED  BY <1>1, <1>2, <2>1, BaseAssumption DEF Word
<1>5. a * b + carry <= Base * Base - Base /\ 0 <= a * b + carry
  <2>1. a * b <= (Base - 1) * (Base - 1) /\ 0 <= a * b
    BY BaseAssumption DEF Word
  <2>2. (Base - 1) * (Base - 1) = Base * Base - Base - Base + 1
    BY BaseAssumption
  <2> QED  BY <2>1, <2>2, BaseAssumption DEF Word
<1>6. over + high \in Word
  <2> DEFINE c == over + high
  <2>1. c \in Int /\ Base * c <= Base * Base - Base /\ -Base < Base * c
    BY <1>1, <1>2, <1>4, <1>5, BaseAssumption DEF Word
  <2> HIDE DEF c
  <2>2. ~ c >= Base
    <3> SUFFICES ASSUME c >= Base PROVE FALSE
      OBVIOUS
    <3>1. Base * (c - Base) >= 0
      BY <2>1, BaseAssumption
    <3>2. Base * (c - Base) = Base * c - Base * Base
      BY <2>1, BaseAssumption
    <3> QED  BY <2>1, <3>1, <3>2, BaseAssumption
  <2>3. ~ c <= -1
    <3> SUFFICES ASSUME c <= -1 PROVE FALSE
      OBVIOUS
    <3>1. Base * (-1 - c) >= 0
      BY <2>1, BaseAssumption
    <3>2. Base * (-1 - c) = -Base - Base * c
      BY <2>1, BaseAssumption
    <3> QED  BY <2>1, <3>1, <3>2, BaseAssumption
  <2> QED  BY <2>1, <2>2, <2>3, BaseAssumption DEF c, Word
<1> QED  BY <1>2, <1>3, <1>4, <1>6 DEF s

-----------------------------------------------------------------------------
(***************************************************************************)
(* The recursive functions: the numbers above each digit, and carries.     *)
(***************************************************************************)

\* The value of a digit of an array, and the number above it, also behind its
\* end.
Digit(d, i) == IF i \in DOMAIN d THEN d[i] ELSE 0
Rest(d, i) == IF i \in 0 .. Len(d) THEN Above(d)[i] ELSE 0

\* Downward induction.
LEMMA Descent ==
  ASSUME NEW S, NEW n \in Nat, n \in S,
         \A i \in 1 .. n : i \in S => i - 1 \in S
  PROVE  0 .. n \subseteq S
<1> DEFINE T == {k \in Nat : k <= n => n - k \in S}
<1>1. 0 \in T
  OBVIOUS
<1>2. ASSUME NEW k \in Nat, k \in T PROVE k + 1 \in T
  <2> SUFFICES ASSUME k + 1 <= n PROVE n - (k + 1) \in S
    OBVIOUS
  <2>1. n - k \in S /\ n - k \in 1 .. n
    BY <1>2
  <2>2. (n - k) - 1 \in S
    BY <2>1
  <2> QED  BY <2>2
<1> HIDE DEF T
<1>3. Nat \subseteq T
  BY <1>1, <1>2, Induction
<1>4. ASSUME NEW i \in 0 .. n PROVE i \in S
  <2>1. n - i \in T
    BY <1>3
  <2>2. n - (n - i) \in S
    BY <2>1 DEF T
  <2> QED  BY <2>2
<1> QED  BY <1>4

LEMMA Ascent ==
  ASSUME NEW S, NEW n \in Nat, 0 \in S,
         \A i \in 1 .. n : i - 1 \in S => i \in S
  PROVE  0 .. n \subseteq S
<1> DEFINE T == {k \in Nat : k <= n => k \in S}
<1>1. 0 \in T
  OBVIOUS
<1>2. ASSUME NEW k \in Nat, k \in T PROVE k + 1 \in T
  <2> SUFFICES ASSUME k + 1 <= n PROVE k + 1 \in S
    OBVIOUS
  <2>1. k \in S
    BY <1>2
  <2>2. (k + 1) - 1 = k /\ k + 1 \in 1 .. n
    OBVIOUS
  <2> QED  BY <2>1, <2>2
<1> HIDE DEF T
<1>3. Nat \subseteq T
  BY <1>1, <1>2, Induction
<1> QED  BY <1>3 DEF T

LEMMA AboveIs ==
  ASSUME NEW d \in Arrays
  PROVE  /\ Above(d) \in [0 .. Len(d) -> Nat]
         /\ Above(d)[Len(d)] = 0
         /\ \A i \in 1 .. Len(d) : Above(d)[i - 1] = d[i] + Base * Above(d)[i]
<1> DEFINE n == Len(d)
           IsAbove(g) == g = [i \in 0 .. n |->
                                IF i = n THEN 0 ELSE d[i + 1] + Base * g[i + 1]]
           V == Nat
           step == [p \in Nat \X V |->
                      IF p[1] < n THEN d[n - p[1]] + Base * p[2] ELSE 0]
<1>1. n \in Nat /\ \A i \in 1 .. n : d[i] \in Nat
  BY BaseAssumption DEF Arrays, Word
<1>2. step \in [Nat \X V -> V]
  <2> SUFFICES ASSUME NEW k \in Nat, NEW x \in V, k < n
               PROVE  d[n - k] + Base * x \in V
    OBVIOUS
  <2> HIDE DEF n
  <2>1. d[n - k] \in Nat /\ Base * x \in Nat
    BY <1>1, BaseAssumption
  <2> QED  BY <2>1
<1> HIDE DEF step
<1>3. PICK f : Prefix(f, n, V, 0, step)
  BY <1>1, <1>2, PrefixExists
<1> DEFINE g == [i \in 0 .. n |-> f[n - i]]
<1>4. ASSUME NEW i \in 0 .. n PROVE g[i] \in Nat
  <2>1. n - i \in 0 .. n
    BY <1>1
  <2>2. f \in [0 .. n -> Nat]
    BY <1>3 DEF Prefix
  <2>3. f[n - i] \in Nat
    BY <2>1, <2>2
  <2> QED  BY <2>3
<1>5. g[n] = 0
  BY <1>1, <1>3 DEF Prefix
<1>6. ASSUME NEW i \in 1 .. n PROVE g[i - 1] = d[i] + Base * g[i]
  <2> DEFINE k == n - i
  <2>1. k \in Nat /\ k \in 0 .. n - 1 /\ k < n /\ n - k = i /\ n - (i - 1) = k + 1
    BY <1>1
  <2>2. f[k + 1] = step[<<k, f[k]>>] /\ f[k] \in V
    BY <1>3, <2>1 DEF Prefix
  <2>3. step[<<k, f[k]>>] = d[i] + Base * f[k]
    BY <2>1, <2>2 DEF step
  <2>4. g[i - 1] = f[n - (i - 1)] /\ g[i] = f[k]
    BY <1>1
  <2> QED  BY <2>1, <2>2, <2>3, <2>4
<1>7. IsAbove(g)
  <2>1. ASSUME NEW i \in 0 .. n, i # n PROVE g[i] = d[i + 1] + Base * g[i + 1]
    <3>1. i + 1 \in 1 .. n /\ (i + 1) - 1 = i
      BY <1>1, <2>1
    <3> HIDE DEF g
    <3> QED  BY <1>6, <3>1
  <2>2. DOMAIN g = 0 .. n /\ g = [i \in 0 .. n |-> g[i]]
    OBVIOUS
  <2> HIDE DEF g
  <2> QED  BY <1>5, <2>1, <2>2
<1>8. Above(d) = CHOOSE h : IsAbove(h)
  BY DEF Above
<1> DEFINE h == Above(d)
<1>9. IsAbove(h)
  <2> HIDE DEF g
  <2> QED  BY <1>7, <1>8
<1> HIDE DEF h
<1>10. DOMAIN h = 0 .. n /\ h[n] = 0
  BY <1>1, <1>9
<1>11. ASSUME NEW i \in 1 .. n PROVE h[i - 1] = d[i] + Base * h[i]
  <2>1. i - 1 \in 0 .. n /\ i - 1 # n /\ (i - 1) + 1 = i
    BY <1>1
  <2> QED  BY <1>9, <2>1
<1>12. \A i \in 0 .. n : h[i] \in Nat
  <2> DEFINE S == {i \in 0 .. n : h[i] \in Nat}
  <2>1. n \in S
    BY <1>1, <1>10
  <2>2. ASSUME NEW i \in 1 .. n, i \in S PROVE i - 1 \in S
    <3>1. d[i] \in Nat /\ Base * h[i] \in Nat
      BY <1>1, <2>2, BaseAssumption
    <3> QED  BY <1>1, <1>11, <3>1
  <2> HIDE DEF S
  <2>3. 0 .. n \subseteq S
    BY <1>1, <2>1, <2>2, Descent
  <2> QED  BY <2>3 DEF S
<1>13. h \in [0 .. n -> Nat]
  BY <1>9, <1>12
<1> QED  BY <1>10, <1>11, <1>13 DEF h

LEMMA RestIs ==
  ASSUME NEW d \in Arrays
  PROVE  /\ \A i \in Nat : Rest(d, i) \in Nat
         /\ \A i \in Nat : i >= Len(d) => Rest(d, i) = 0
         /\ \A i \in Nat \ {0} : Digit(d, i) \in Word
         /\ \A i \in Nat \ {0} : Rest(d, i - 1) = Digit(d, i) + Base * Rest(d, i)
         /\ ValueOf(d) = Rest(d, 0)
<1> DEFINE n == Len(d)
<1>1. n \in Nat /\ DOMAIN d = 1 .. n /\ \A i \in 1 .. n : d[i] \in Word
  BY DEF Arrays
<1>2. \A i \in 0 .. n : Above(d)[i] \in Nat
  BY AboveIs
<1>3. \A i \in Nat : Rest(d, i) \in Nat
  BY <1>1, <1>2 DEF Rest
<1>4. ASSUME NEW i \in Nat, i >= n PROVE Rest(d, i) = 0
  BY <1>1, <1>4, AboveIs DEF Rest
<1>5. ASSUME NEW i \in Nat \ {0} PROVE Digit(d, i) \in Word
  BY <1>1, BaseAssumption DEF Digit, Word
<1>6. ASSUME NEW i \in Nat \ {0}
      PROVE  Rest(d, i - 1) = Digit(d, i) + Base * Rest(d, i)
  <2>1. CASE i <= n
    BY <1>1, <2>1, AboveIs DEF Rest, Digit
  <2>2. CASE i > n
    <3>1. Rest(d, i - 1) = 0 /\ Rest(d, i) = 0 /\ Digit(d, i) = 0
      BY <1>1, <1>4, <2>2 DEF Digit
    <3> QED  BY <3>1, BaseAssumption
  <2> QED  BY <1>1, <2>1, <2>2
<1>7. ValueOf(d) = Rest(d, 0)
  BY <1>1 DEF ValueOf, Rest
<1> QED  BY <1>3, <1>4, <1>5, <1>6, <1>7

\* One more digit.
LEMMA AppendIs ==
  ASSUME NEW d \in Arrays, NEW w \in Word
  PROVE  LET e == Append(d, w)
         IN  /\ e \in Arrays /\ Len(e) = Len(d) + 1
             /\ \A i \in 1 .. Len(d) : Digit(e, i) = d[i]
             /\ Digit(e, Len(d) + 1) = w
             /\ Rest(e, Len(d)) = w
<1> DEFINE n == Len(d)
           e == Append(d, w)
<1>1. n \in Nat /\ d \in Seq(Word)
  BY DEF Arrays
<1>2. /\ e \in Arrays /\ Len(e) = n + 1 /\ DOMAIN e = 1 .. n + 1
      /\ \A i \in 1 .. n : e[i] = d[i]
      /\ e[n + 1] = w
  BY <1>1 DEF Arrays
<1> HIDE DEF e, n
<1>3. n + 1 \in 1 .. n + 1 /\ \A i \in 1 .. n : i \in 1 .. n + 1
  BY <1>1
<1>4. /\ \A i \in 1 .. n : Digit(e, i) = d[i]
      /\ Digit(e, n + 1) = w
  BY <1>2, <1>3 DEF Digit
<1>5. n + 1 \in Nat \ {0} /\ n + 1 \in Nat /\ (n + 1) - 1 = n /\ n + 1 >= Len(e)
  BY <1>1, <1>2
<1>6. Rest(e, n) = w + Base * Rest(e, n + 1) /\ Rest(e, n + 1) = 0
  BY <1>2, <1>4, <1>5, RestIs
<1>7. Rest(e, n) = w
  BY <1>6, BaseAssumption DEF Word
<1> QED  BY <1>2, <1>4, <1>7 DEF e, n

\* The carries of a loop: next says which carry it keeps.
AreCarries(f, n, V, next) ==
  /\ f \in [0 .. n -> V]
  /\ f[0] = 0
  /\ \A i \in 1 .. n : f[i] = next[<<i, f[i - 1]>>]

LEMMA CarriesExist ==
  ASSUME NEW n \in Nat, NEW V, 0 \in V, NEW next \in [(1 .. n) \X V -> V]
  PROVE  \E f : AreCarries(f, n, V, next)
<1> DEFINE step == [p \in Nat \X V |->
                      IF p[1] < n THEN next[<<p[1] + 1, p[2]>>] ELSE 0]
<1>1. step \in [Nat \X V -> V]
  OBVIOUS
<1> HIDE DEF step
<1>2. PICK f : Prefix(f, n, V, 0, step)
  BY <1>1, PrefixExists
<1>3. ASSUME NEW i \in 1 .. n PROVE f[i] = next[<<i, f[i - 1]>>]
  <2>1. i - 1 \in 0 .. n - 1 /\ i - 1 \in Nat /\ i - 1 < n /\ (i - 1) + 1 = i
    OBVIOUS
  <2>2. f[(i - 1) + 1] = step[<<i - 1, f[i - 1]>>] /\ f[i - 1] \in V
    BY <1>2, <2>1 DEF Prefix
  <2>3. step[<<i - 1, f[i - 1]>>] = next[<<i, f[i - 1]>>]
    BY <2>1, <2>2 DEF step
  <2> QED  BY <2>1, <2>2, <2>3
<1>4. f \in [0 .. n -> V] /\ f[0] = 0
  BY <1>2 DEF Prefix
<1> QED  BY <1>3, <1>4 DEF AreCarries

-----------------------------------------------------------------------------
(***************************************************************************)
(* Sums.                                                                   *)
(***************************************************************************)

LEMMA AddAtIs ==
  ASSUME NEW a \in Arrays, NEW b \in Arrays, Len(b) <= Len(a),
         NEW i \in 1 .. Len(a), NEW carry \in {0, 1}
  PROVE  LET s == AddAt(a, b, i, carry)
         IN  /\ s.digit \in Word /\ s.carry \in {0, 1}
             /\ s.digit + Base * s.carry = Digit(a, i) + Digit(b, i) + carry
<1>1. /\ a[i] \in Word /\ Digit(a, i) = a[i]
      /\ i <= Len(b) => b[i] \in Word /\ Digit(b, i) = b[i]
      /\ ~ i <= Len(b) => Digit(b, i) = 0
  BY DEF Arrays, Digit
<1>2. CASE i <= Len(b)
  BY <1>1, <1>2, AddDigitIs DEF AddAt
<1>3. CASE ~ i <= Len(b)
  <2> DEFINE s == CarryDigit(a[i], carry)
  <2>1. /\ s.digit \in Word /\ s.carry \in {0, 1}
        /\ s.digit + Base * s.carry = a[i] + carry
    BY <1>1, CarryDigitIs
  <2>2. AddAt(a, b, i, carry) = s
    BY <1>3 DEF AddAt
  <2>3. a[i] + Digit(b, i) + carry = a[i] + carry
    BY <1>1, <1>3 DEF Word
  <2> HIDE DEF s
  <2> QED  BY <1>1, <2>1, <2>2, <2>3
<1> QED  BY <1>2, <1>3

\* What the loop stores and keeps at each index.
LEMMA AddLoopSteps ==
  ASSUME NEW a \in Arrays, NEW b \in Arrays, Len(b) <= Len(a)
  PROVE  \E carry \in [0 .. Len(a) -> {0, 1}] :
           /\ carry[0] = 0
           /\ \A i \in 1 .. Len(a) : carry[i] = AddAt(a, b, i, carry[i - 1]).carry
           /\ AddLoop(a, b).digits =
                [i \in 1 .. Len(a) |-> AddAt(a, b, i, carry[i - 1]).digit]
           /\ AddLoop(a, b).carry = carry[Len(a)]
<1> DEFINE n == Len(a)
           IsCarry(f) == f = [i \in 0 .. n |->
             IF i = 0 THEN 0 ELSE AddAt(a, b, i, f[i - 1]).carry]
           next == [p \in (1 .. n) \X {0, 1} |-> AddAt(a, b, p[1], p[2]).carry]
           carry == Carries(LAMBDA i, c : AddAt(a, b, i, c), a)
<1>1. n \in Nat
  BY DEF Arrays
<1>2. next \in [(1 .. n) \X {0, 1} -> {0, 1}]
  BY AddAtIs
<1>3. PICK f : AreCarries(f, n, {0, 1}, next)
  <2> HIDE DEF next, n
  <2> QED  BY <1>1, <1>2, CarriesExist
<1>4. IsCarry(f)
  <2>1. f \in [0 .. n -> {0, 1}] /\ f[0] = 0
    BY <1>3 DEF AreCarries
  <2>2. ASSUME NEW i \in 0 .. n, i # 0
        PROVE  f[i] = AddAt(a, b, i, f[i - 1]).carry
    <3>1. i \in 1 .. n /\ i - 1 \in 0 .. n
      BY <1>1, <2>2
    <3>2. f[i] = next[<<i, f[i - 1]>>]
      BY <1>3, <3>1 DEF AreCarries
    <3> QED  BY <2>1, <3>1, <3>2
  <2> HIDE DEF next
  <2> QED  BY <2>1, <2>2
<1>5. carry = CHOOSE g : IsCarry(g)
  BY DEF Carries
<1>6. IsCarry(carry)
  <2> HIDE DEF carry
  <2> QED  BY <1>4, <1>5
<1>7. /\ AddLoop(a, b).digits = [i \in 1 .. n |-> AddAt(a, b, i, carry[i - 1]).digit]
      /\ AddLoop(a, b).carry = carry[n]
  BY DEF AddLoop, Ripple
<1> HIDE DEF carry
<1>8. DOMAIN carry = 0 .. n /\ carry[0] = 0
  BY <1>1, <1>6
<1>9. ASSUME NEW i \in 1 .. n PROVE carry[i] = AddAt(a, b, i, carry[i - 1]).carry
  <2>1. i \in 0 .. n /\ i # 0
    BY <1>1
  <2> QED  BY <1>6, <2>1
<1>10. 0 .. n \subseteq {i \in 0 .. n : carry[i] \in {0, 1}}
  <2> DEFINE S == {i \in 0 .. n : carry[i] \in {0, 1}}
  <2>1. 0 \in S
    BY <1>1, <1>8
  <2>2. ASSUME NEW i \in 1 .. n, i - 1 \in S PROVE i \in S
    BY <1>1, <1>9, <2>2, AddAtIs
  <2> HIDE DEF S
  <2>3. 0 .. n \subseteq S
    BY <1>1, <2>1, <2>2, Ascent
  <2> QED  BY <2>3 DEF S
<1>11. carry \in [0 .. n -> {0, 1}]
  BY <1>6, <1>10
<1> QED  BY <1>7, <1>8, <1>9, <1>11

\* Array addition is exact: with the last carry as one more digit, the sum is
\* that of the numbers.
LEMMA AddLoopSum ==
  ASSUME NEW a \in Arrays, NEW b \in Arrays, Len(b) <= Len(a)
  PROVE  LET sum == AddLoop(a, b)
         IN  /\ sum.digits \in Arrays /\ Len(sum.digits) = Len(a)
             /\ sum.carry \in {0, 1}
             /\ Append(sum.digits, sum.carry) \in Arrays
             /\ ValueOf(Append(sum.digits, sum.carry)) = ValueOf(a) + ValueOf(b)
             /\ sum.carry = 0 => ValueOf(sum.digits) = ValueOf(a) + ValueOf(b)
<1> DEFINE n == Len(a)
           digits == AddLoop(a, b).digits
           last == AddLoop(a, b).carry
<1>1. PICK carry \in [0 .. n -> {0, 1}] :
        /\ carry[0] = 0
        /\ \A i \in 1 .. n : carry[i] = AddAt(a, b, i, carry[i - 1]).carry
        /\ digits = [i \in 1 .. n |-> AddAt(a, b, i, carry[i - 1]).digit]
        /\ last = carry[n]
  BY AddLoopSteps
<1>2. n \in Nat
  BY DEF Arrays
<1> HIDE DEF digits, last
<1>3. ASSUME NEW i \in 1 .. n
      PROVE  /\ digits[i] \in Word /\ carry[i - 1] \in {0, 1} /\ carry[i] \in {0, 1}
             /\ digits[i] + Base * carry[i] = Digit(a, i) + Digit(b, i) + carry[i - 1]
  <2>1. i - 1 \in 0 .. n /\ i \in 0 .. n
    BY <1>2
  <2>2. carry[i - 1] \in {0, 1} /\ carry[i] \in {0, 1}
    BY <1>1, <2>1
  <2> QED  BY <1>1, <2>2, AddAtIs
<1>4. digits \in Arrays /\ Len(digits) = n
  BY <1>1, <1>2, <1>3 DEF Arrays
<1>5. last \in {0, 1} /\ last \in Word
  BY <1>1, <1>2, BaseAssumption DEF Word
\* the same for the digits alone and with the last carry
<1>6. ASSUME NEW e \in Arrays, Rest(e, n) = last,
             \A i \in 1 .. n : Digit(e, i) = digits[i]
      PROVE  ValueOf(e) = ValueOf(a) + ValueOf(b)
  <2> DEFINE S == {i \in 0 .. n : Rest(e, i) = Rest(a, i) + Rest(b, i) + carry[i]}
  <2>1. n \in S
    <3>1. Rest(a, n) = 0 /\ Rest(b, n) = 0
      BY <1>2, RestIs DEF Arrays
    <3> QED  BY <1>1, <1>2, <1>5, <1>6, <3>1
  <2>2. ASSUME NEW i \in 1 .. n, i \in S PROVE i - 1 \in S
    <3> DEFINE da == Digit(a, i)
               db == Digit(b, i)
               ra == Rest(a, i)
               rb == Rest(b, i)
               c == carry[i]
               c1 == carry[i - 1]
    <3> i \in Nat \ {0}
      BY <1>2
    <3>1. /\ Rest(e, i - 1) = digits[i] + Base * Rest(e, i)
          /\ Rest(a, i - 1) = da + Base * ra
          /\ Rest(b, i - 1) = db + Base * rb
          /\ ra \in Nat /\ rb \in Nat /\ da \in Word /\ db \in Word
      BY <1>2, <1>6, RestIs
    <3>2. Rest(e, i) = ra + rb + c
      BY <2>2
    <3>3. /\ digits[i] \in Word /\ c \in {0, 1} /\ c1 \in {0, 1}
          /\ digits[i] + Base * c = da + db + c1
      BY <1>3
    <3> HIDE DEF da, db, ra, rb, c, c1
    <3>4. Base * (ra + rb + c) = Base * ra + Base * rb + Base * c
      BY <3>1, <3>3, BaseAssumption
    <3>5. Rest(e, i - 1) = Rest(a, i - 1) + Rest(b, i - 1) + c1
      BY <3>1, <3>2, <3>3, <3>4, BaseAssumption DEF Word
    <3> QED  BY <1>2, <3>5 DEF c1
  <2> HIDE DEF S
  <2>3. 0 \in S
    BY <1>2, <2>1, <2>2, Descent
  <2>4. Rest(e, 0) = Rest(a, 0) + Rest(b, 0)
    BY <1>1, <2>3, RestIs DEF S
  <2> QED  BY <2>4, RestIs
<1>7. Append(digits, last) \in Arrays /\ Len(Append(digits, last)) = n + 1
  BY <1>4, <1>5, AppendIs
<1>8. ValueOf(Append(digits, last)) = ValueOf(a) + ValueOf(b)
  <2> DEFINE e == Append(digits, last)
  <2>1. e \in Arrays /\ Len(e) = n + 1
    BY <1>7
  <2>2. Rest(e, n) = last /\ \A i \in 1 .. n : Digit(e, i) = digits[i]
    BY <1>4, <1>5, AppendIs
  <2> HIDE DEF e
  <2>3. ValueOf(e) = ValueOf(a) + ValueOf(b)
    BY <1>6, <2>1, <2>2
  <2> QED  BY <2>3 DEF e
<1>9. last = 0 => ValueOf(digits) = ValueOf(a) + ValueOf(b)
  <2> SUFFICES ASSUME last = 0 PROVE ValueOf(digits) = ValueOf(a) + ValueOf(b)
    OBVIOUS
  <2>1. \A i \in 1 .. n : Digit(digits, i) = digits[i]
    BY <1>2, <1>4 DEF Digit, Arrays
  <2>2. Rest(digits, n) = last
    BY <1>2, <1>4, RestIs
  <2> QED  BY <1>4, <1>6, <2>1, <2>2
<1> QED  BY <1>4, <1>5, <1>7, <1>8, <1>9 DEF digits, last

-----------------------------------------------------------------------------
(***************************************************************************)
(* Differences.                                                            *)
(***************************************************************************)

LEMMA SubAtIs ==
  ASSUME NEW a \in Arrays, NEW b \in Arrays, Len(b) <= Len(a),
         NEW i \in 1 .. Len(a), NEW carry \in {0, 1}
  PROVE  LET s == SubAt(a, b, i, carry)
         IN  /\ s.digit \in Word /\ s.carry \in {0, 1}
             /\ s.digit - Base * s.carry = Digit(a, i) - Digit(b, i) - carry
<1>1. /\ a[i] \in Word /\ Digit(a, i) = a[i]
      /\ i <= Len(b) => b[i] \in Word /\ Digit(b, i) = b[i]
      /\ ~ i <= Len(b) => Digit(b, i) = 0
  BY DEF Arrays, Digit
<1>2. CASE i <= Len(b)
  BY <1>1, <1>2, SubDigitIs DEF SubAt
<1>3. CASE ~ i <= Len(b)
  <2> DEFINE s == BorrowDigit(a[i], carry)
  <2>1. /\ s.digit \in Word /\ s.carry \in {0, 1}
        /\ s.digit - Base * s.carry = a[i] - carry
    BY <1>1, BorrowDigitIs
  <2>2. SubAt(a, b, i, carry) = s
    BY <1>3 DEF SubAt
  <2>3. a[i] - Digit(b, i) - carry = a[i] - carry
    BY <1>1, <1>3 DEF Word
  <2> HIDE DEF s
  <2> QED  BY <1>1, <2>1, <2>2, <2>3
<1> QED  BY <1>2, <1>3

\* What the loop stores and keeps at each index.
LEMMA SubLoopSteps ==
  ASSUME NEW a \in Arrays, NEW b \in Arrays, Len(b) <= Len(a)
  PROVE  \E carry \in [0 .. Len(a) -> {0, 1}] :
           /\ carry[0] = 0
           /\ \A i \in 1 .. Len(a) : carry[i] = SubAt(a, b, i, carry[i - 1]).carry
           /\ SubLoop(a, b).digits =
                [i \in 1 .. Len(a) |-> SubAt(a, b, i, carry[i - 1]).digit]
           /\ SubLoop(a, b).carry = carry[Len(a)]
<1> DEFINE n == Len(a)
           IsCarry(f) == f = [i \in 0 .. n |->
             IF i = 0 THEN 0 ELSE SubAt(a, b, i, f[i - 1]).carry]
           next == [p \in (1 .. n) \X {0, 1} |-> SubAt(a, b, p[1], p[2]).carry]
           carry == Carries(LAMBDA i, c : SubAt(a, b, i, c), a)
<1>1. n \in Nat
  BY DEF Arrays
<1>2. next \in [(1 .. n) \X {0, 1} -> {0, 1}]
  BY SubAtIs
<1>3. PICK f : AreCarries(f, n, {0, 1}, next)
  <2> HIDE DEF next, n
  <2> QED  BY <1>1, <1>2, CarriesExist
<1>4. IsCarry(f)
  <2>1. f \in [0 .. n -> {0, 1}] /\ f[0] = 0
    BY <1>3 DEF AreCarries
  <2>2. ASSUME NEW i \in 0 .. n, i # 0
        PROVE  f[i] = SubAt(a, b, i, f[i - 1]).carry
    <3>1. i \in 1 .. n /\ i - 1 \in 0 .. n
      BY <1>1, <2>2
    <3>2. f[i] = next[<<i, f[i - 1]>>]
      BY <1>3, <3>1 DEF AreCarries
    <3> QED  BY <2>1, <3>1, <3>2
  <2> HIDE DEF next
  <2> QED  BY <2>1, <2>2
<1>5. carry = CHOOSE g : IsCarry(g)
  BY DEF Carries
<1>6. IsCarry(carry)
  <2> HIDE DEF carry
  <2> QED  BY <1>4, <1>5
<1>7. /\ SubLoop(a, b).digits = [i \in 1 .. n |-> SubAt(a, b, i, carry[i - 1]).digit]
      /\ SubLoop(a, b).carry = carry[n]
  BY DEF SubLoop, Ripple
<1> HIDE DEF carry
<1>8. DOMAIN carry = 0 .. n /\ carry[0] = 0
  BY <1>1, <1>6
<1>9. ASSUME NEW i \in 1 .. n PROVE carry[i] = SubAt(a, b, i, carry[i - 1]).carry
  <2>1. i \in 0 .. n /\ i # 0
    BY <1>1
  <2> QED  BY <1>6, <2>1
<1>10. 0 .. n \subseteq {i \in 0 .. n : carry[i] \in {0, 1}}
  <2> DEFINE S == {i \in 0 .. n : carry[i] \in {0, 1}}
  <2>1. 0 \in S
    BY <1>1, <1>8
  <2>2. ASSUME NEW i \in 1 .. n, i - 1 \in S PROVE i \in S
    BY <1>1, <1>9, <2>2, SubAtIs
  <2> HIDE DEF S
  <2>3. 0 .. n \subseteq S
    BY <1>1, <2>1, <2>2, Ascent
  <2> QED  BY <2>3 DEF S
<1>11. carry \in [0 .. n -> {0, 1}]
  BY <1>6, <1>10
<1> QED  BY <1>7, <1>8, <1>9, <1>11

\* The assertion of _data_sub and _data_sub1 (carry == 0) holds, and the
\* difference is exact, if the first number is not the smaller one.
\* what is left to be stored after each step
LEMMA SubLoopRests ==
  ASSUME NEW a \in Arrays, NEW b \in Arrays, Len(b) <= Len(a)
  PROVE  LET difference == SubLoop(a, b)
         IN  /\ difference.carry \in {0, 1}
             /\ difference.digits \in Arrays /\ Len(difference.digits) = Len(a)
             /\ \E rest \in [0 .. Len(a) -> Int] :
                  /\ rest[0] = ValueOf(a) - ValueOf(b)
                  /\ rest[Len(a)] = 0 - difference.carry
                  /\ \A i \in 1 .. Len(a) : /\ difference.digits[i] \in Word
                                          /\ rest[i - 1] = difference.digits[i] + Base * rest[i]
<1> DEFINE n == Len(a)
           digits == SubLoop(a, b).digits
           last == SubLoop(a, b).carry
<1>1. PICK carry \in [0 .. n -> {0, 1}] :
        /\ carry[0] = 0
        /\ \A i \in 1 .. n : carry[i] = SubAt(a, b, i, carry[i - 1]).carry
        /\ digits = [i \in 1 .. n |-> SubAt(a, b, i, carry[i - 1]).digit]
        /\ last = carry[n]
  BY SubLoopSteps
<1>2. n \in Nat
  BY DEF Arrays
<1> HIDE DEF digits, last
<1>3. ASSUME NEW i \in 1 .. n
      PROVE  /\ digits[i] \in Word /\ carry[i - 1] \in {0, 1} /\ carry[i] \in {0, 1}
             /\ digits[i] - Base * carry[i] = Digit(a, i) - Digit(b, i) - carry[i - 1]
  <2>1. i - 1 \in 0 .. n /\ i \in 0 .. n
    BY <1>2
  <2>2. carry[i - 1] \in {0, 1} /\ carry[i] \in {0, 1}
    BY <1>1, <2>1
  <2> QED  BY <1>1, <2>2, SubAtIs
<1>4. digits \in Arrays /\ Len(digits) = n
  BY <1>1, <1>2, <1>3 DEF Arrays
<1> DEFINE D(i) == Rest(a, i) - Rest(b, i) - carry[i]
<1>5. ASSUME NEW i \in 0 .. n PROVE D(i) \in Int
  <2> i \in Nat
    BY <1>2
  <2>1. Rest(a, i) \in Nat /\ Rest(b, i) \in Nat
    BY RestIs
  <2>2. carry[i] \in {0, 1}
    BY <1>1
  <2> QED  BY <2>1, <2>2
<1>6. ASSUME NEW i \in 1 .. n PROVE D(i - 1) = digits[i] + Base * D(i)
  <2> DEFINE da == Digit(a, i)
             db == Digit(b, i)
             ra == Rest(a, i)
             rb == Rest(b, i)
             c == carry[i]
             c1 == carry[i - 1]
  <2>1. i \in Nat \ {0}
    BY <1>2
  <2>2. /\ Rest(a, i - 1) = da + Base * ra
        /\ Rest(b, i - 1) = db + Base * rb
        /\ ra \in Nat /\ rb \in Nat /\ da \in Word /\ db \in Word
    BY <2>1, RestIs
  <2>3. /\ digits[i] \in Word /\ c \in {0, 1} /\ c1 \in {0, 1}
        /\ digits[i] - Base * c = da - db - c1
    BY <1>3
  <2>4. D(i - 1) = da + Base * ra - (db + Base * rb) - c1 /\ D(i) = ra - rb - c
    BY <2>2
  <2> HIDE DEF da, db, ra, rb, c, c1, D
  <2>5. Base * (ra - rb - c) = Base * ra - Base * rb - Base * c
    BY <2>2, <2>3, BaseAssumption
  <2> DEFINE x == Base * ra
             y == Base * rb
             z == Base * c
  <2>6. /\ D(i - 1) = da + x - (db + y) - c1
        /\ Base * D(i) = x - y - z
        /\ digits[i] - z = da - db - c1
        /\ x \in Int /\ y \in Int /\ z \in Int
        /\ da \in Int /\ db \in Int /\ c1 \in Int /\ digits[i] \in Int
    BY <2>2, <2>3, <2>4, <2>5, BaseAssumption DEF Word
  <2> HIDE DEF x, y, z
  <2> QED  BY <2>6
<1>7. D(0) = ValueOf(a) - ValueOf(b) /\ D(n) = 0 - last /\ last \in {0, 1}
  <2>1. Rest(a, n) = 0 /\ Rest(b, n) = 0
    BY <1>2, RestIs DEF Arrays
  <2>2. carry[0] = 0 /\ carry[n] = last /\ last \in {0, 1}
    BY <1>1, <1>2
  <2> QED  BY <2>1, <2>2, RestIs
<1> DEFINE rest == [i \in 0 .. n |-> D(i)]
<1> HIDE DEF D
<1>8. /\ rest \in [0 .. n -> Int] /\ rest[0] = D(0) /\ rest[n] = D(n)
      /\ \A i \in 1 .. n : rest[i] = D(i) /\ rest[i - 1] = D(i - 1)
  BY <1>2, <1>5
<1>9. \A i \in 1 .. n : digits[i] \in Word /\ rest[i - 1] = digits[i] + Base * rest[i]
  BY <1>3, <1>6, <1>8
<1> HIDE DEF rest
<1>10. \E r \in [0 .. n -> Int] :
         /\ r[0] = ValueOf(a) - ValueOf(b) /\ r[n] = 0 - last
         /\ \A i \in 1 .. n : digits[i] \in Word /\ r[i - 1] = digits[i] + Base * r[i]
  BY <1>7, <1>8, <1>9
<1> QED  BY <1>4, <1>7, <1>10 DEF digits, last

LEMMA SubLoopDifference ==
  ASSUME NEW a \in Arrays, NEW b \in Arrays, Len(b) <= Len(a),
         ValueOf(b) <= ValueOf(a)
  PROVE  LET difference == SubLoop(a, b)
         IN  /\ difference.carry = 0
             /\ difference.digits \in Arrays /\ Len(difference.digits) = Len(a)
             /\ ValueOf(difference.digits) = ValueOf(a) - ValueOf(b)
<1> DEFINE n == Len(a)
           digits == SubLoop(a, b).digits
           last == SubLoop(a, b).carry
<1> HIDE DEF digits, last
<1>2. n \in Nat
  BY DEF Arrays
<1>4. digits \in Arrays /\ Len(digits) = n
  BY SubLoopRests DEF digits
<1>1. PICK rest \in [0 .. n -> Int] :
        /\ rest[0] = ValueOf(a) - ValueOf(b) /\ rest[n] = 0 - last /\ last \in {0, 1}
        /\ \A i \in 1 .. n : digits[i] \in Word /\ rest[i - 1] = digits[i] + Base * rest[i]
  BY SubLoopRests DEF digits, last
<1> DEFINE D(i) == rest[i]
<1>3. \A i \in 1 .. n : digits[i] \in Word
  BY <1>1
<1>5. ASSUME NEW i \in 0 .. n PROVE D(i) \in Int
  BY <1>1
<1>6. ASSUME NEW i \in 1 .. n PROVE D(i - 1) = digits[i] + Base * D(i)
  BY <1>1
<1>7. D(0) = ValueOf(a) - ValueOf(b) /\ D(n) = 0 - last /\ last \in {0, 1}
  BY <1>1
<1>8. ValueOf(a) \in Nat /\ ValueOf(b) \in Nat
  BY RestIs
<1> HIDE DEF D
<1>9. last = 0
  <2> SUFFICES ASSUME last = 1 PROVE FALSE
    BY <1>7
  <2> DEFINE S == {i \in 0 .. n : D(i) <= -1}
  <2>1. n \in S
    BY <1>2, <1>7
  <2>2. ASSUME NEW i \in 1 .. n, i \in S PROVE i - 1 \in S
    <3>1. D(i) \in Int /\ D(i) <= -1 /\ digits[i] \in Word
      BY <1>2, <1>3, <1>5, <2>2
    <3>2. Base * (D(i) + 1) <= 0
      BY <3>1, BaseAssumption
    <3>3. Base * (D(i) + 1) = Base * D(i) + Base
      BY <3>1, BaseAssumption
    <3>4. D(i - 1) <= -1
      BY <1>6, <3>1, <3>2, <3>3, BaseAssumption DEF Word
    <3> QED  BY <1>2, <3>4
  <2> HIDE DEF S
  <2>3. 0 \in S
    BY <1>2, <2>1, <2>2, Descent
  <2> QED  BY <1>7, <1>8, <2>3 DEF S
<1>10. ValueOf(digits) = ValueOf(a) - ValueOf(b)
  <2> DEFINE S == {i \in 0 .. n : Rest(digits, i) = D(i)}
  <2>1. n \in S
    <3>1. Rest(digits, n) = 0
      BY <1>2, <1>4, RestIs
    <3>2. D(n) = 0 - last
      BY <1>7
    <3>3. D(n) = 0
      BY <1>9, <3>2
    <3>4. n \in 0 .. n
      BY <1>2
    <3> QED  BY <3>1, <3>3, <3>4
  <2>2. ASSUME NEW i \in 1 .. n, i \in S PROVE i - 1 \in S
    <3>1. i \in Nat \ {0} /\ Digit(digits, i) = digits[i]
      BY <1>2, <1>4 DEF Digit, Arrays
    <3>2. Rest(digits, i - 1) = digits[i] + Base * Rest(digits, i)
      BY <1>4, <3>1, RestIs
    <3>3. Rest(digits, i) = D(i)
      BY <2>2
    <3> QED  BY <1>2, <1>6, <3>2, <3>3
  <2> HIDE DEF S
  <2>3. 0 \in S
    BY <1>2, <2>1, <2>2, Descent
  <2>4. Rest(digits, 0) = D(0)
    BY <2>3 DEF S
  <2> QED  BY <1>4, <1>7, <2>4, RestIs
<1> QED  BY <1>4, <1>9, <1>10 DEF digits, last

-----------------------------------------------------------------------------
(***************************************************************************)
(* Products with a word.                                                   *)
(***************************************************************************)

\* What the loop stores and keeps at each index.
LEMMA MulLoopSteps ==
  ASSUME NEW a \in Arrays, NEW digit \in Word
  PROVE  \E carry \in [0 .. Len(a) -> Word] :
           /\ carry[0] = 0
           /\ \A i \in 1 .. Len(a) :
                carry[i] = MulDigit(a[i], digit, carry[i - 1]).carry
           /\ MulLoop(a, digit).digits =
                [i \in 1 .. Len(a) |-> MulDigit(a[i], digit, carry[i - 1]).digit]
           /\ MulLoop(a, digit).carry = carry[Len(a)]
<1> DEFINE n == Len(a)
           IsCarry(f) == f = [i \in 0 .. n |->
             IF i = 0 THEN 0 ELSE MulDigit(a[i], digit, f[i - 1]).carry]
           next == [p \in (1 .. n) \X Word |-> MulDigit(a[p[1]], digit, p[2]).carry]
           carry == Carries(LAMBDA i, c : MulDigit(a[i], digit, c), a)
<1>1. /\ n \in Nat /\ 0 \in Word
      /\ \A i \in 1 .. n : a[i] \in Word
  BY BaseAssumption DEF Arrays, Word
<1>2. next \in [(1 .. n) \X Word -> Word]
  BY <1>1, MulDigitIs
<1>3. PICK f : AreCarries(f, n, Word, next)
  <2> HIDE DEF next, n
  <2> QED  BY <1>1, <1>2, CarriesExist
<1>4. IsCarry(f)
  <2>1. f \in [0 .. n -> Word] /\ f[0] = 0
    BY <1>3 DEF AreCarries
  <2>2. ASSUME NEW i \in 0 .. n, i # 0
        PROVE  f[i] = MulDigit(a[i], digit, f[i - 1]).carry
    <3>1. i \in 1 .. n /\ i - 1 \in 0 .. n
      BY <1>1, <2>2
    <3>2. f[i] = next[<<i, f[i - 1]>>]
      BY <1>3, <3>1 DEF AreCarries
    <3> QED  BY <2>1, <3>1, <3>2
  <2> HIDE DEF next
  <2> QED  BY <2>1, <2>2
<1>5. carry = CHOOSE g : IsCarry(g)
  BY DEF Carries
<1>6. IsCarry(carry)
  <2> HIDE DEF carry
  <2> QED  BY <1>4, <1>5
<1>7. /\ MulLoop(a, digit).digits =
           [i \in 1 .. n |-> MulDigit(a[i], digit, carry[i - 1]).digit]
      /\ MulLoop(a, digit).carry = carry[n]
  BY DEF MulLoop, Ripple
<1> HIDE DEF carry
<1>8. DOMAIN carry = 0 .. n /\ carry[0] = 0
  BY <1>1, <1>6
<1>9. ASSUME NEW i \in 1 .. n PROVE carry[i] = MulDigit(a[i], digit, carry[i - 1]).carry
  <2>1. i \in 0 .. n /\ i # 0
    BY <1>1
  <2> QED  BY <1>6, <2>1
<1>10. 0 .. n \subseteq {i \in 0 .. n : carry[i] \in Word}
  <2> DEFINE S == {i \in 0 .. n : carry[i] \in Word}
  <2>1. 0 \in S
    BY <1>1, <1>8
  <2>2. ASSUME NEW i \in 1 .. n, i - 1 \in S PROVE i \in S
    BY <1>1, <1>9, <2>2, MulDigitIs
  <2> HIDE DEF S
  <2>3. 0 .. n \subseteq S
    BY <1>1, <2>1, <2>2, Ascent
  <2> QED  BY <2>3 DEF S
<1>11. carry \in [0 .. n -> Word]
  BY <1>6, <1>10
<1> QED  BY <1>7, <1>8, <1>9, <1>11

\* An array times a word: with the last carry as one more digit, the product
\* is exact.
LEMMA DataMul1Is ==
  ASSUME NEW a \in Arrays, NEW digit \in Word
  PROVE  /\ DataMul1(a, digit) \in Arrays
         /\ ValueOf(DataMul1(a, digit)) = ValueOf(a) * digit
<1> DEFINE n == Len(a)
           digits == MulLoop(a, digit).digits
           last == MulLoop(a, digit).carry
           e == DataMul1(a, digit)
<1>1. PICK carry \in [0 .. n -> Word] :
        /\ carry[0] = 0
        /\ \A i \in 1 .. n : carry[i] = MulDigit(a[i], digit, carry[i - 1]).carry
        /\ digits = [i \in 1 .. n |-> MulDigit(a[i], digit, carry[i - 1]).digit]
        /\ last = carry[n]
  BY MulLoopSteps
<1>2. n \in Nat /\ \A i \in 1 .. n : a[i] \in Word /\ Digit(a, i) = a[i]
  BY DEF Arrays, Digit
<1>3. e = Append(digits, last)
  BY DEF DataMul1
<1> HIDE DEF digits, last, e
<1>4. ASSUME NEW i \in 1 .. n
      PROVE  /\ digits[i] \in Word /\ carry[i - 1] \in Word /\ carry[i] \in Word
             /\ digits[i] + Base * carry[i] = Digit(a, i) * digit + carry[i - 1]
  <2>1. i - 1 \in 0 .. n /\ i \in 0 .. n
    BY <1>2
  <2>2. carry[i - 1] \in Word /\ carry[i] \in Word
    BY <1>1, <2>1
  <2> QED  BY <1>1, <1>2, <2>2, MulDigitIs
<1>5. last \in Word
  BY <1>1, <1>2
<1>6. digits \in Arrays /\ Len(digits) = n
  <2>1. \A i \in 1 .. n : digits[i] \in Word
    BY <1>4
  <2> QED  BY <1>1, <1>2, <2>1 DEF Arrays
<1>7. e \in Arrays
  BY <1>3, <1>5, <1>6, AppendIs
<1>8. Rest(e, n) = last /\ \A i \in 1 .. n : Digit(e, i) = digits[i]
  BY <1>3, <1>5, <1>6, AppendIs
<1> DEFINE S == {i \in 0 .. n : Rest(e, i) = Rest(a, i) * digit + carry[i]}
<1>9. n \in S
  <2>1. Rest(a, n) = 0
    BY <1>2, RestIs
  <2> QED  BY <1>1, <1>2, <1>5, <1>8, <2>1 DEF Word
<1>10. ASSUME NEW i \in 1 .. n, i \in S PROVE i - 1 \in S
  <2> DEFINE da == Digit(a, i)
             ra == Rest(a, i)
             c == carry[i]
             c1 == carry[i - 1]
  <2>1. i \in Nat \ {0}
    BY <1>2
  <2>2. /\ Rest(e, i - 1) = digits[i] + Base * Rest(e, i)
        /\ Rest(a, i - 1) = da + Base * ra
        /\ ra \in Nat /\ da \in Word
    BY <1>7, <1>8, <2>1, RestIs
  <2>3. Rest(e, i) = ra * digit + c
    BY <1>10
  <2>4. /\ digits[i] \in Word /\ c \in Word /\ c1 \in Word
        /\ digits[i] + Base * c = da * digit + c1
    BY <1>4
  <2> HIDE DEF da, ra, c, c1
  <2>5. digit \in Int /\ da \in Int /\ ra \in Int /\ c \in Int /\ Base \in Int
    BY <2>2, <2>4, BaseAssumption DEF Word
  <2>6. Base * (ra * digit + c) = (Base * ra) * digit + Base * c
    BY <2>5
  <2>7. (da + Base * ra) * digit = da * digit + (Base * ra) * digit
    BY <2>5
  <2>8. Rest(e, i - 1) = Rest(a, i - 1) * digit + c1
    <3> DEFINE x == (Base * ra) * digit
               y == da * digit
               z == Base * c
    <3>1. x \in Int /\ y \in Int /\ z \in Int
      BY <2>5
    <3>2. /\ Rest(e, i - 1) = digits[i] + (x + z)
          /\ Rest(a, i - 1) * digit = y + x
          /\ digits[i] + z = y + c1
      BY <2>2, <2>3, <2>4, <2>6, <2>7
    <3> HIDE DEF x, y, z
    <3> QED  BY <3>1, <3>2, <2>4 DEF Word
  <2> QED  BY <1>2, <2>8 DEF c1
<1> HIDE DEF S
<1>11. 0 \in S
  BY <1>2, <1>9, <1>10, Descent
<1>12. ValueOf(e) = ValueOf(a) * digit
  <2>1. Rest(e, 0) = Rest(a, 0) * digit + carry[0]
    BY <1>11 DEF S
  <2>2. Rest(a, 0) \in Nat /\ digit \in Nat
    BY RestIs DEF Word
  <2>3. Rest(e, 0) = Rest(a, 0) * digit
    BY <1>1, <2>1, <2>2
  <2> QED  BY <1>7, <2>3, RestIs
<1> QED  BY <1>7, <1>12 DEF e

-----------------------------------------------------------------------------
(***************************************************************************)
(* Comparisons.                                                            *)
(***************************************************************************)

\* The array with the larger upper part is the larger one.
LEMMA UpperDecides ==
  ASSUME NEW a \in Arrays, NEW b \in Arrays, NEW k \in Nat, Rest(b, k) < Rest(a, k)
  PROVE  ValueOf(b) < ValueOf(a)
<1> DEFINE S == {i \in 0 .. k : Rest(b, i) < Rest(a, i)}
<1>1. k \in S
  OBVIOUS
<1>2. ASSUME NEW i \in 1 .. k, i \in S PROVE i - 1 \in S
  <2> DEFINE da == Digit(a, i)
             db == Digit(b, i)
             ra == Rest(a, i)
             rb == Rest(b, i)
  <2>1. i \in Nat \ {0}
    OBVIOUS
  <2>2. /\ Rest(a, i - 1) = da + Base * ra /\ Rest(b, i - 1) = db + Base * rb
        /\ ra \in Nat /\ rb \in Nat /\ da \in Word /\ db \in Word
    BY <2>1, RestIs
  <2>3. rb < ra
    BY <1>2
  <2> HIDE DEF da, db, ra, rb
  <2>4. Base * (ra - rb - 1) >= 0
    BY <2>2, <2>3, BaseAssumption
  <2>5. Base * (ra - rb - 1) = Base * ra - Base * rb - Base
    BY <2>2, BaseAssumption
  <2> QED  BY <2>2, <2>4, <2>5, BaseAssumption DEF Word
<1> HIDE DEF S
<1>3. 0 \in S
  BY <1>1, <1>2, Descent
<1> QED  BY <1>3, RestIs DEF S

\* A number above a digit that is not zero is not zero, and arrays whose upper
\* digits are equal are equal there.
LEMMA UpperDigit ==
  ASSUME NEW a \in Arrays, a # <<>>
  PROVE  Rest(a, Len(a) - 1) = a[Len(a)]
<1>1. Len(a) \in Nat \ {0} /\ Digit(a, Len(a)) = a[Len(a)] /\ a[Len(a)] \in Word
  BY DEF Arrays, Digit
<1>2. Rest(a, Len(a) - 1) = a[Len(a)] + Base * Rest(a, Len(a)) /\ Rest(a, Len(a)) = 0
  BY <1>1, RestIs
<1> QED  BY <1>1, <1>2, BaseAssumption DEF Word

LEMMA EqualAbove ==
  ASSUME NEW a \in Arrays, NEW b \in Arrays, NEW k \in Nat,
         \A i \in Nat : i > k => Digit(a, i) = Digit(b, i)
  PROVE  \A i \in Nat : i >= k => Rest(a, i) = Rest(b, i)
<1> DEFINE m == IF Len(a) <= Len(b) THEN Len(b) ELSE Len(a)
<1>1. /\ m \in Nat /\ \A i \in Nat : i >= m => Rest(a, i) = 0 /\ Rest(b, i) = 0
  <2>1. Len(a) \in Nat /\ Len(b) \in Nat
    BY DEF Arrays
  <2>2. m \in Nat /\ m >= Len(a) /\ m >= Len(b)
    BY <2>1
  <2>3. ASSUME NEW i \in Nat, i >= m PROVE i >= Len(a) /\ i >= Len(b)
    BY <2>1, <2>2, <2>3
  <2> QED  BY <2>2, <2>3, RestIs
<1> HIDE DEF m
<1> SUFFICES ASSUME NEW i \in Nat, i >= k PROVE Rest(a, i) = Rest(b, i)
  OBVIOUS
<1>2. CASE i >= m
  BY <1>1, <1>2
<1>3. CASE i < m
  <2> DEFINE S == {j \in 0 .. m : j >= i => Rest(a, j) = Rest(b, j)}
  <2>1. m \in S
    BY <1>1
  <2>2. ASSUME NEW j \in 1 .. m, j \in S PROVE j - 1 \in S
    <3> SUFFICES ASSUME j - 1 >= i PROVE Rest(a, j - 1) = Rest(b, j - 1)
      BY <1>1
    <3>1. j \in Nat \ {0} /\ j > k /\ Rest(a, j) = Rest(b, j)
      BY <1>1, <2>2
    <3> QED  BY <3>1, RestIs
  <2> HIDE DEF S
  <2>3. i \in S
    BY <1>1, <1>3, <2>1, <2>2, Descent
  <2> QED  BY <2>3 DEF S
<1> QED  BY <1>1, <1>2, <1>3

LEMMA Greatest ==
  ASSUME NEW n \in Nat, NEW S, S \subseteq 1 .. n, S # {}
  PROVE  LET m == CHOOSE i \in S : \A j \in S : j <= i
         IN  m \in S /\ \A j \in S : j <= m
<1> DEFINE T == {n - j : j \in S}
<1>1. T \subseteq Nat /\ T # {}
  <2>1. \A j \in S : n - j \in Nat
    OBVIOUS
  <2> QED  BY <2>1
<1>2. PICK t \in T : \A u \in T : t <= u
  <2> HIDE DEF T
  <2> QED  BY <1>1, LeastNatural
<1>3. PICK i \in S : t = n - i
  BY <1>2
<1>4. ASSUME NEW j \in S PROVE j <= i
  <2>1. n - j \in T /\ i \in Int /\ j \in Int
    BY <1>3
  <2> QED  BY <1>2, <1>3, <2>1
<1> QED  BY <1>4

LEMMA HighestIs ==
  ASSUME NEW a \in Arrays, NEW b \in Arrays, Len(a) = Len(b)
  PROVE  LET top == HighestDifference(a, b)
         IN  /\ top = 0 => a = b
             /\ top # 0 => top \in 1 .. Len(a) /\ a[top] # b[top]
             /\ \A i \in Nat : i > top => Digit(a, i) = Digit(b, i)
             /\ top \in Nat
<1> DEFINE differ == {i \in DOMAIN a : a[i] # b[i]}
           top == HighestDifference(a, b)
<1>1. Len(a) \in Nat /\ DOMAIN a = 1 .. Len(a) /\ DOMAIN b = DOMAIN a
  BY DEF Arrays
<1>2. CASE differ = {}
  <2>1. top = 0 /\ \A i \in 1 .. Len(a) : a[i] = b[i]
    BY <1>1, <1>2 DEF HighestDifference
  <2>2. a = b
    BY <1>1, <2>1 DEF Arrays
  <2> QED  BY <2>1, <2>2
<1>3. CASE differ # {}
  <2>1. top = CHOOSE i \in differ : \A j \in differ : j <= i
    BY <1>3 DEF HighestDifference
  <2>2. differ \subseteq 1 .. Len(a)
    BY <1>1
  <2> HIDE DEF top
  <2>3. top \in differ /\ \A j \in differ : j <= top
    <3> HIDE DEF differ
    <3> QED  BY <1>1, <1>3, <2>1, <2>2, Greatest
  <2>4. top \in 1 .. Len(a) /\ a[top] # b[top]
    BY <2>2, <2>3
  <2>5. ASSUME NEW i \in Nat, i > top PROVE Digit(a, i) = Digit(b, i)
    <3>1. i \in 1 .. Len(a) => a[i] = b[i]
      BY <1>1, <2>3, <2>4, <2>5
    <3> QED  BY <1>1, <2>4, <2>5, <3>1 DEF Digit
  <2> QED  BY <2>4, <2>5 DEF top
<1> QED  BY <1>2, <1>3

\* Of two arrays of one length the one with the larger digit at the highest
\* difference is the larger one.
LEMMA DigitDecides ==
  ASSUME NEW a \in Arrays, NEW b \in Arrays, NEW top \in Nat \ {0},
         Digit(b, top) < Digit(a, top),
         \A i \in Nat : i > top => Digit(a, i) = Digit(b, i)
  PROVE  ValueOf(b) < ValueOf(a)
<1>1. Rest(a, top) = Rest(b, top) /\ Rest(a, top) \in Nat
  <2>1. top \in Nat /\ top >= top
    OBVIOUS
  <2>2. Rest(a, top) = Rest(b, top)
    BY <2>1, EqualAbove
  <2> QED  BY <2>1, <2>2, RestIs
<1>2. /\ Rest(a, top - 1) = Digit(a, top) + Base * Rest(a, top)
      /\ Rest(b, top - 1) = Digit(b, top) + Base * Rest(b, top)
      /\ Digit(a, top) \in Word /\ Digit(b, top) \in Word
  BY RestIs
<1>3. Base * Rest(a, top) \in Int
  BY <1>1, BaseAssumption
<1>4. Rest(b, top - 1) < Rest(a, top - 1)
  BY <1>1, <1>2, <1>3 DEF Word
<1> QED  BY <1>4, UpperDecides

-----------------------------------------------------------------------------
(***************************************************************************)
(* Numbers without leading zeros.                                          *)
(***************************************************************************)

Data == {d \in Arrays : d # <<>> /\ d[Len(d)] # 0}

LEMMA DataIs ==
  ASSUME NEW d \in Data
  PROVE  /\ d \in Arrays /\ Len(d) \in Nat \ {0} /\ DOMAIN d = 1 .. Len(d)
         /\ d[Len(d)] \in Word /\ d[Len(d)] >= 1
         /\ ValueOf(d) \in Nat /\ ValueOf(d) >= 1
<1>1. /\ d \in Arrays /\ Len(d) \in Nat \ {0} /\ DOMAIN d = 1 .. Len(d)
      /\ d[Len(d)] \in Word /\ d[Len(d)] >= 1
  <2>1. d \in Seq(Word) /\ Len(d) # 0 /\ d[Len(d)] # 0
    BY DEF Data, Arrays
  <2>2. Len(d) \in Nat \ {0} /\ DOMAIN d = 1 .. Len(d)
    BY <2>1
  <2>3. d[Len(d)] \in Word
    BY <2>1, <2>2
  <2> QED  BY <2>1, <2>2, <2>3, BaseAssumption DEF Arrays, Word
<1>2. <<>> \in Arrays /\ Len(<<>>) = 0
  BY DEF Arrays
<1>3. Rest(<<>>, 0) = 0 /\ Rest(<<>>, Len(d) - 1) = 0 /\ ValueOf(<<>>) = Rest(<<>>, 0)
  <2>1. Len(d) - 1 \in Nat /\ Len(d) - 1 >= 0 /\ 0 \in Nat
    BY <1>1
  <2> QED  BY <1>2, <2>1, RestIs
<1>4. Rest(d, Len(d) - 1) = d[Len(d)]
  BY <1>1, UpperDigit DEF Data
<1>5. ValueOf(<<>>) < ValueOf(d)
  <2>1. Len(d) - 1 \in Nat
    BY <1>1
  <2>2. Rest(<<>>, Len(d) - 1) < Rest(d, Len(d) - 1)
    BY <1>1, <1>3, <1>4, BaseAssumption DEF Word
  <2> QED  BY <1>1, <1>2, <2>1, <2>2, UpperDecides
<1>6. ValueOf(d) \in Nat
  BY <1>1, RestIs
<1> QED  BY <1>1, <1>3, <1>5, <1>6

\* The longer of two numbers is the larger one.
LEMMA LengthDecides ==
  ASSUME NEW a \in Data, NEW b \in Arrays, Len(b) < Len(a)
  PROVE  ValueOf(b) < ValueOf(a)
<1>1. /\ a \in Arrays /\ Len(a) \in Nat \ {0} /\ a # <<>>
      /\ a[Len(a)] \in Word /\ a[Len(a)] >= 1
  BY DataIs DEF Data
<1>2. Len(a) - 1 \in Nat /\ Len(a) - 1 >= Len(b)
  BY <1>1 DEF Arrays
<1>3. Rest(b, Len(a) - 1) = 0 /\ Rest(a, Len(a) - 1) = a[Len(a)]
  BY <1>1, <1>2, RestIs, UpperDigit
<1>4. Rest(b, Len(a) - 1) < Rest(a, Len(a) - 1)
  BY <1>1, <1>3, BaseAssumption DEF Word
<1> QED  BY <1>1, <1>2, <1>4, UpperDecides

LEMMA SameLengthDecides ==
  ASSUME NEW a \in Arrays, NEW b \in Arrays, Len(a) = Len(b)
  PROVE  LET top == HighestDifference(a, b)
         IN  /\ top = 0 => ValueOf(a) = ValueOf(b)
             /\ top # 0 /\ a[top] < b[top] => ValueOf(a) < ValueOf(b)
             /\ top # 0 /\ ~ a[top] < b[top] =>
                  a[top] > b[top] /\ ValueOf(b) < ValueOf(a)
<1> DEFINE top == HighestDifference(a, b)
<1>1. /\ top = 0 => a = b
      /\ top # 0 => top \in 1 .. Len(a) /\ a[top] # b[top]
      /\ \A i \in Nat : i > top => Digit(a, i) = Digit(b, i)
      /\ top \in Nat
  BY HighestIs
<1> HIDE DEF top
<1>2. ASSUME top # 0
      PROVE  /\ a[top] < b[top] => ValueOf(a) < ValueOf(b)
             /\ ~ a[top] < b[top] => a[top] > b[top] /\ ValueOf(b) < ValueOf(a)
  <2>1. /\ Digit(a, top) = a[top] /\ Digit(b, top) = b[top] /\ top \in Nat \ {0}
        /\ a[top] \in Word /\ b[top] \in Word
    BY <1>1, <1>2 DEF Digit, Arrays
  <2>2. ASSUME a[top] < b[top] PROVE ValueOf(a) < ValueOf(b)
    BY <1>1, <2>1, <2>2, DigitDecides
  <2>3. ASSUME ~ a[top] < b[top] PROVE a[top] > b[top] /\ ValueOf(b) < ValueOf(a)
    <3>1. b[top] < a[top]
      BY <1>1, <1>2, <2>1, <2>3 DEF Word
    <3>2. ValueOf(b) < ValueOf(a)
      BY <1>1, <2>1, <3>1, DigitDecides
    <3> QED  BY <2>1, <3>1, <3>2 DEF Word
  <2> QED  BY <2>2, <2>3
<1> QED  BY <1>1, <1>2 DEF top

\* Two numbers that are equal are the same array.
LEMMA SameData ==
  ASSUME NEW a \in Data, NEW b \in Data, ValueOf(a) = ValueOf(b)
  PROVE  a = b
<1>1. /\ a \in Arrays /\ b \in Arrays /\ Len(a) \in Nat /\ Len(b) \in Nat
      /\ ValueOf(a) \in Nat /\ ValueOf(b) \in Nat
  BY DataIs
<1>2. Len(a) = Len(b)
  <2>1. ~ Len(a) < Len(b)
    BY <1>1, LengthDecides
  <2>2. ~ Len(b) < Len(a)
    BY <1>1, LengthDecides
  <2> QED  BY <1>1, <2>1, <2>2
<1> DEFINE top == HighestDifference(a, b)
<1>3. /\ top # 0 /\ a[top] < b[top] => ValueOf(a) < ValueOf(b)
      /\ top # 0 /\ ~ a[top] < b[top] => ValueOf(b) < ValueOf(a)
  BY <1>1, <1>2, SameLengthDecides
<1>4. top = 0
  <2> HIDE DEF top
  <2> QED  BY <1>1, <1>3
<1> QED  BY <1>1, <1>2, <1>4, HighestIs

\* A single word.
LEMMA SingleWord ==
  ASSUME NEW w \in Word
  PROVE  /\ <<w>> \in Arrays /\ Len(<<w>>) = 1 /\ <<w>>[1] = w
         /\ ValueOf(<<w>>) = w
         /\ w # 0 => <<w>> \in Data
<1>1. <<w>> \in Arrays /\ Len(<<w>>) = 1 /\ <<w>>[1] = w /\ <<w>> # <<>>
  BY DEF Arrays
<1>2. Rest(<<w>>, 0) = w
  BY <1>1, UpperDigit
<1>3. ValueOf(<<w>>) = w
  BY <1>1, <1>2, RestIs
<1> QED  BY <1>1, <1>3 DEF Data

LEMMA OneDigit ==
  ASSUME NEW d \in Arrays, Len(d) = 1
  PROVE  d[1] \in Word /\ d = <<d[1]>> /\ ValueOf(d) = d[1]
<1>1. d[1] \in Word /\ d = <<d[1]>>
  BY DEF Arrays
<1> QED  BY <1>1, SingleWord

-----------------------------------------------------------------------------
(***************************************************************************)
(* The helpers of the operations.                                          *)
(***************************************************************************)

\* Equal digits stand for equal numbers, whatever zeros are above them.
LEMMA EqualDigits ==
  ASSUME NEW a \in Arrays, NEW b \in Arrays,
         \A i \in Nat \ {0} : Digit(a, i) = Digit(b, i)
  PROVE  ValueOf(a) = ValueOf(b)
<1>1. \A i \in Nat : i > 0 => Digit(a, i) = Digit(b, i)
  OBVIOUS
<1>2. Rest(a, 0) = Rest(b, 0)
  BY <1>1, EqualAbove
<1> QED  BY <1>2, RestIs

\* The lower digits of two arrays have the difference of the arrays, if the
\* digits above them are equal.
LEMMA LowerDigits ==
  ASSUME NEW a \in Arrays, NEW b \in Arrays, Len(a) = Len(b),
         NEW k \in 0 .. Len(a), Rest(a, k) = Rest(b, k)
  PROVE  LET a1 == SubSeq(a, 1, k)
             b1 == SubSeq(b, 1, k)
         IN  /\ a1 \in Arrays /\ b1 \in Arrays /\ Len(a1) = k /\ Len(b1) = k
             /\ \A i \in 1 .. k : a1[i] = a[i] /\ b1[i] = b[i]
             /\ ValueOf(a1) - ValueOf(b1) = ValueOf(a) - ValueOf(b)
<1> DEFINE a1 == SubSeq(a, 1, k)
           b1 == SubSeq(b, 1, k)
<1>1. Len(a) \in Nat /\ k \in Nat
  BY DEF Arrays
<1>2. /\ a1 \in Arrays /\ b1 \in Arrays /\ Len(a1) = k /\ Len(b1) = k
      /\ \A i \in 1 .. k : a1[i] = a[i] /\ b1[i] = b[i]
  BY <1>1 DEF Arrays
<1>3. \A i \in 1 .. k : Digit(a1, i) = Digit(a, i) /\ Digit(b1, i) = Digit(b, i)
  BY <1>1, <1>2 DEF Digit, Arrays
<1> HIDE DEF a1, b1
<1> DEFINE S == {i \in 0 .. k : Rest(a1, i) - Rest(b1, i) = Rest(a, i) - Rest(b, i)}
<1>4. k \in S
  <2>1. k >= Len(a1) /\ k >= Len(b1)
    BY <1>1, <1>2
  <2>2. Rest(a1, k) = 0 /\ Rest(b1, k) = 0 /\ Rest(a, k) \in Nat
    BY <1>1, <1>2, <2>1, RestIs
  <2> QED  BY <1>1, <2>2
<1>5. ASSUME NEW i \in 1 .. k, i \in S PROVE i - 1 \in S
  <2> DEFINE da == Digit(a, i)
             db == Digit(b, i)
             ra == Rest(a, i)
             rb == Rest(b, i)
             ra1 == Rest(a1, i)
             rb1 == Rest(b1, i)
  <2>1. i \in Nat \ {0}
    BY <1>1
  <2>2. /\ Rest(a, i - 1) = da + Base * ra /\ Rest(b, i - 1) = db + Base * rb
        /\ Rest(a1, i - 1) = da + Base * ra1 /\ Rest(b1, i - 1) = db + Base * rb1
        /\ ra \in Nat /\ rb \in Nat /\ ra1 \in Nat /\ rb1 \in Nat
        /\ da \in Word /\ db \in Word
    BY <1>2, <1>3, <2>1, RestIs
  <2>3. ra1 - rb1 = ra - rb
    BY <1>5
  <2> HIDE DEF da, db, ra, rb, ra1, rb1
  <2>4. Base * (ra1 - rb1) = Base * ra1 - Base * rb1
    BY <2>2, BaseAssumption
  <2>5. Base * (ra - rb) = Base * ra - Base * rb
    BY <2>2, BaseAssumption
  <2>6. /\ Base * ra \in Int /\ Base * rb \in Int
        /\ Base * ra1 \in Int /\ Base * rb1 \in Int
    BY <2>2, BaseAssumption
  <2>7. Base * ra1 - Base * rb1 = Base * ra - Base * rb
    BY <2>3, <2>4, <2>5
  <2> DEFINE x == Base * ra
             y == Base * rb
             x1 == Base * ra1
             y1 == Base * rb1
  <2>8. /\ Rest(a, i - 1) = da + x /\ Rest(b, i - 1) = db + y
        /\ Rest(a1, i - 1) = da + x1 /\ Rest(b1, i - 1) = db + y1
        /\ x \in Int /\ y \in Int /\ x1 \in Int /\ y1 \in Int
        /\ x1 - y1 = x - y /\ da \in Int /\ db \in Int
    BY <2>2, <2>6, <2>7 DEF Word
  <2> HIDE DEF x, y, x1, y1
  <2>9. Rest(a1, i - 1) - Rest(b1, i - 1) = Rest(a, i - 1) - Rest(b, i - 1)
    BY <2>8
  <2> QED  BY <1>1, <2>9
<1> HIDE DEF S
<1>6. 0 \in S
  BY <1>1, <1>4, <1>5, Descent
<1>7. ValueOf(a1) - ValueOf(b1) = ValueOf(a) - ValueOf(b)
  BY <1>2, <1>6, RestIs DEF S
<1> QED  BY <1>2, <1>7 DEF a1, b1

LEMMA DataAddIs ==
  ASSUME NEW a \in Arrays, NEW b \in Arrays
  PROVE  /\ DataAdd(a, b) \in Arrays
         /\ ValueOf(DataAdd(a, b)) = ValueOf(a) + ValueOf(b)
<1>1. Len(a) \in Nat /\ Len(b) \in Nat /\ ValueOf(a) \in Nat /\ ValueOf(b) \in Nat
  <2>1. Len(a) \in Nat /\ Len(b) \in Nat
    BY DEF Arrays
  <2> QED  BY <2>1, RestIs
<1>2. CASE Len(a) < Len(b)
  <2>1. DataAdd(a, b) = Append(AddLoop(b, a).digits, AddLoop(b, a).carry)
    BY <1>2 DEF DataAdd
  <2> QED  BY <1>1, <1>2, <2>1, AddLoopSum
<1>3. CASE ~ Len(a) < Len(b)
  <2>1. DataAdd(a, b) = Append(AddLoop(a, b).digits, AddLoop(a, b).carry)
    BY <1>3 DEF DataAdd
  <2> QED  BY <1>1, <1>3, <2>1, AddLoopSum
<1> QED  BY <1>2, <1>3

LEMMA DataAdd1Is ==
  ASSUME NEW a \in Arrays, a # <<>>, NEW digit \in Word
  PROVE  /\ DataAdd1(a, digit) \in Arrays
         /\ ValueOf(DataAdd1(a, digit)) = ValueOf(a) + digit
<1> DEFINE sum == AddLoop(a, <<digit>>)
<1>1. <<digit>> \in Arrays /\ Len(<<digit>>) <= Len(a) /\ ValueOf(<<digit>>) = digit
  <2>1. Len(a) \in Nat /\ Len(a) # 0
    BY DEF Arrays
  <2> QED  BY <2>1, SingleWord
<1>2. /\ sum.digits \in Arrays
      /\ Append(sum.digits, sum.carry) \in Arrays
      /\ ValueOf(Append(sum.digits, sum.carry)) = ValueOf(a) + digit
      /\ sum.carry = 0 => ValueOf(sum.digits) = ValueOf(a) + digit
  BY <1>1, AddLoopSum
<1>3. DataAdd1(a, digit) = IF Len(a) = 1 /\ sum.carry = 0
                           THEN sum.digits ELSE Append(sum.digits, sum.carry)
  BY DEF DataAdd1
<1> HIDE DEF sum
<1> QED  BY <1>2, <1>3

\* An absolute value and a sign that are a difference; a difference of zero
\* has no digits.
IsDifference(d, n) ==
  /\ d.digits \in Arrays /\ d.sign \in {-1, 0, 1}
  /\ d.sign = 0 => d.digits = <<>>
  /\ d.sign * ValueOf(d.digits) = n

LEMMA Difference ==
  ASSUME NEW a \in Arrays, NEW b \in Arrays, Len(b) <= Len(a),
         ValueOf(b) <= ValueOf(a)
  PROVE  /\ IsDifference([digits |-> SubLoop(a, b).digits, sign |-> 1],
                         ValueOf(a) - ValueOf(b))
         /\ IsDifference([digits |-> SubLoop(a, b).digits, sign |-> -1],
                         ValueOf(b) - ValueOf(a))
<1>1. ValueOf(a) \in Nat /\ ValueOf(b) \in Nat
  BY RestIs
<1>2. /\ SubLoop(a, b).digits \in Arrays
      /\ ValueOf(SubLoop(a, b).digits) = ValueOf(a) - ValueOf(b)
  BY SubLoopDifference
<1> QED  BY <1>1, <1>2 DEF IsDifference

LEMMA NoDifference ==
  IsDifference([digits |-> <<>>, sign |-> 0], 0)
<1>1. <<>> \in Arrays
  BY DEF Arrays
<1>2. ValueOf(<<>>) \in Nat
  BY <1>1, RestIs
<1> QED  BY <1>1, <1>2 DEF IsDifference

\* The case of arrays of one length, which need not be without leading zeros.
LEMMA SameLengthDifference ==
  ASSUME NEW a \in Arrays, NEW b \in Arrays, Len(a) = Len(b)
  PROVE  IsDifference(DataSub(a, b), ValueOf(a) - ValueOf(b))
<1>0. /\ a \in Arrays /\ b \in Arrays /\ Len(a) \in Nat /\ Len(b) \in Nat
      /\ ValueOf(a) \in Nat /\ ValueOf(b) \in Nat
  BY RestIs
<1> DEFINE top == HighestDifference(a, b)
           a1 == SubSeq(a, 1, top)
           b1 == SubSeq(b, 1, top)
<1>1. DataSub(a, b) =
        IF top = 0 THEN [digits |-> <<>>, sign |-> 0]
        ELSE IF a[top] < b[top]
             THEN [digits |-> SubLoop(b1, a1).digits, sign |-> -1]
             ELSE [digits |-> SubLoop(a1, b1).digits, sign |-> 1]
  BY DEF DataSub
<1>2. /\ top \in Nat
      /\ top = 0 => a = b
      /\ top # 0 => top \in 1 .. Len(a)
      /\ \A i \in Nat : i > top => Digit(a, i) = Digit(b, i)
  BY <1>0, HighestIs
<1>3. /\ top # 0 /\ a[top] < b[top] => ValueOf(a) < ValueOf(b)
      /\ top # 0 /\ ~ a[top] < b[top] => ValueOf(b) < ValueOf(a)
  BY <1>0, SameLengthDecides
<1> HIDE DEF top
<1>4. top \in 0 .. Len(a) /\ Rest(a, top) = Rest(b, top)
  <2>1. top >= top /\ top \in 0 .. Len(a)
    BY <1>0, <1>2
  <2>2. \A i \in Nat : i >= top => Rest(a, i) = Rest(b, i)
    BY <1>2, EqualAbove
  <2> QED  BY <1>2, <2>1, <2>2
<1>5. /\ a1 \in Arrays /\ b1 \in Arrays /\ Len(a1) = top /\ Len(b1) = top
      /\ ValueOf(a1) - ValueOf(b1) = ValueOf(a) - ValueOf(b)
  BY <1>0, <1>4, LowerDigits
<1>6. ValueOf(a1) \in Nat /\ ValueOf(b1) \in Nat
  BY <1>5, RestIs
<1> HIDE DEF a1, b1
<1>7. CASE top = 0
  <2>1. ValueOf(a) - ValueOf(b) = 0
    BY <1>0, <1>2, <1>7
  <2> QED  BY <1>1, <1>7, <2>1, NoDifference
<1>8. CASE top # 0 /\ a[top] < b[top]
  <2>1. ValueOf(a1) <= ValueOf(b1) /\ Len(a1) <= Len(b1)
    BY <1>0, <1>2, <1>3, <1>5, <1>6, <1>8
  <2>2. IsDifference([digits |-> SubLoop(b1, a1).digits, sign |-> -1],
                     ValueOf(a1) - ValueOf(b1))
    BY <1>5, <2>1, Difference
  <2>3. DataSub(a, b) = [digits |-> SubLoop(b1, a1).digits, sign |-> -1]
    BY <1>1, <1>8 DEF a1, b1
  <2> QED  BY <1>5, <2>2, <2>3
<1>9. CASE top # 0 /\ ~ a[top] < b[top]
  <2>1. ValueOf(b1) <= ValueOf(a1) /\ Len(b1) <= Len(a1)
    BY <1>0, <1>2, <1>3, <1>5, <1>6, <1>9
  <2>2. IsDifference([digits |-> SubLoop(a1, b1).digits, sign |-> 1],
                     ValueOf(a1) - ValueOf(b1))
    BY <1>5, <2>1, Difference
  <2>3. DataSub(a, b) = [digits |-> SubLoop(a1, b1).digits, sign |-> 1]
    BY <1>1, <1>9 DEF a1, b1
  <2> QED  BY <1>5, <2>2, <2>3
<1> QED  BY <1>7, <1>8, <1>9

LEMMA DataSubIs ==
  ASSUME NEW a \in Data, NEW b \in Data
  PROVE  IsDifference(DataSub(a, b), ValueOf(a) - ValueOf(b))
<1>1. /\ a \in Arrays /\ b \in Arrays /\ Len(a) \in Nat /\ Len(b) \in Nat
      /\ ValueOf(a) \in Nat /\ ValueOf(b) \in Nat
  BY DataIs
<1>2. CASE Len(a) < Len(b)
  <2>1. DataSub(a, b) = [digits |-> SubLoop(b, a).digits, sign |-> -1]
    BY <1>1, <1>2 DEF DataSub
  <2>2. Len(a) <= Len(b) /\ ValueOf(a) <= ValueOf(b)
    BY <1>1, <1>2, LengthDecides
  <2> QED  BY <1>1, <1>2, <2>1, <2>2, Difference
<1>3. CASE Len(b) < Len(a)
  <2>1. DataSub(a, b) = [digits |-> SubLoop(a, b).digits, sign |-> 1]
    BY <1>1, <1>3 DEF DataSub
  <2>2. Len(b) <= Len(a) /\ ValueOf(b) <= ValueOf(a)
    BY <1>1, <1>3, LengthDecides
  <2> QED  BY <1>1, <1>3, <2>1, <2>2, Difference
<1>4. CASE Len(a) = Len(b)
  BY <1>1, <1>4, SameLengthDifference
<1> QED  BY <1>1, <1>2, <1>3, <1>4

LEMMA DataSub1Is ==
  ASSUME NEW a \in Data, NEW digit \in Word
  PROVE  IsDifference(DataSub1(a, digit), ValueOf(a) - digit)
<1>1. a \in Arrays /\ Len(a) \in Nat \ {0} /\ ValueOf(a) \in Nat /\ digit \in Nat
  BY DataIs DEF Word
<1> DEFINE d == <<digit>>
<1>2. d \in Arrays /\ Len(d) = 1 /\ ValueOf(d) = digit
  BY SingleWord
<1>3. CASE Len(a) # 1
  <2>1. DataSub1(a, digit) = [digits |-> SubLoop(a, d).digits, sign |-> 1]
    BY <1>3 DEF DataSub1
  <2> HIDE DEF d
  <2>2. Len(d) < Len(a) /\ Len(d) <= Len(a)
    <3> DEFINE n == Len(a)
    <3>1. n \in Nat /\ n # 0 /\ n # 1
      BY <1>1, <1>3
    <3> HIDE DEF n
    <3>2. 1 < n /\ 1 <= n
      BY <3>1
    <3> QED  BY <1>2, <3>2 DEF n
  <2>3. ValueOf(d) <= ValueOf(a)
    <3>1. ValueOf(d) < ValueOf(a)
      BY <1>2, <2>2, LengthDecides
    <3> QED  BY <1>1, <1>2, <3>1
  <2>4. IsDifference(DataSub1(a, digit), ValueOf(a) - ValueOf(d))
    BY <1>1, <1>2, <2>1, <2>2, <2>3, Difference
  <2> QED  BY <1>2, <2>4
<1>4. CASE Len(a) = 1
  <2> DEFINE w == a[1]
  <2>1. w \in Word /\ ValueOf(a) = w /\ w \in Nat
    BY <1>1, <1>4, OneDigit DEF Word
  <2>2. DataSub1(a, digit) =
          IF w = digit THEN [digits |-> <<>>, sign |-> 0]
          ELSE IF w < digit THEN [digits |-> <<digit - w>>, sign |-> -1]
                            ELSE [digits |-> <<w - digit>>, sign |-> 1]
    BY <1>4 DEF DataSub1
  <2> HIDE DEF w
  <2>3. CASE w = digit
    <3>1. ValueOf(a) - digit = 0
      BY <2>1, <2>3
    <3> QED  BY <2>2, <2>3, <3>1, NoDifference
  <2>4. CASE w < digit
    <3>1. digit - w \in Word
      BY <2>1, <2>4, BaseAssumption DEF Word
    <3>2. <<digit - w>> \in Arrays /\ ValueOf(<<digit - w>>) = digit - w
      BY <3>1, SingleWord
    <3>3. DataSub1(a, digit) = [digits |-> <<digit - w>>, sign |-> -1]
      BY <2>1, <2>2, <2>4
    <3> QED  BY <1>1, <2>1, <3>2, <3>3 DEF IsDifference
  <2>5. CASE w > digit
    <3>1. w - digit \in Word
      BY <2>1, <1>1, <2>5, BaseAssumption DEF Word
    <3>2. <<w - digit>> \in Arrays /\ ValueOf(<<w - digit>>) = w - digit
      BY <3>1, SingleWord
    <3>3. DataSub1(a, digit) = [digits |-> <<w - digit>>, sign |-> 1]
      BY <1>1, <2>1, <2>2, <2>5
    <3> QED  BY <1>1, <2>1, <3>2, <3>3 DEF IsDifference
  <2> QED  BY <1>1, <2>1, <2>3, <2>4, <2>5
<1> QED  BY <1>3, <1>4

\* The helpers compute exactly, for words of any width and arrays of any
\* lengths: no carry is lost, and the assertion of _data_sub and _data_sub1,
\* that nothing is left to borrow, holds when the larger number is first.
THEOREM ArrayArithmeticExact ==
  ASSUME NEW a \in Data, NEW b \in Data, NEW digit \in Word
  PROVE  /\ ValueOf(DataAdd(a, b)) = ValueOf(a) + ValueOf(b)
         /\ ValueOf(DataAdd1(a, digit)) = ValueOf(a) + digit
         /\ ValueOf(DataMul1(a, digit)) = ValueOf(a) * digit
         /\ IsDifference(DataSub(a, b), ValueOf(a) - ValueOf(b))
         /\ IsDifference(DataSub1(a, digit), ValueOf(a) - digit)
         /\ Len(b) <= Len(a) /\ ValueOf(b) <= ValueOf(a) => SubLoop(a, b).carry = 0
<1>1. a \in Arrays /\ b \in Arrays /\ a # <<>>
  BY DataIs DEF Data
<1>2. /\ ValueOf(DataAdd(a, b)) = ValueOf(a) + ValueOf(b)
      /\ ValueOf(DataAdd1(a, digit)) = ValueOf(a) + digit
      /\ ValueOf(DataMul1(a, digit)) = ValueOf(a) * digit
  BY <1>1, DataAddIs, DataAdd1Is, DataMul1Is
<1>3. /\ IsDifference(DataSub(a, b), ValueOf(a) - ValueOf(b))
      /\ IsDifference(DataSub1(a, digit), ValueOf(a) - digit)
  BY DataSubIs, DataSub1Is
<1>4. Len(b) <= Len(a) /\ ValueOf(b) <= ValueOf(a) => SubLoop(a, b).carry = 0
  BY <1>1, SubLoopDifference
<1> QED  BY <1>2, <1>3, <1>4

-----------------------------------------------------------------------------
(***************************************************************************)
(* Words as sets of bits.                                                  *)
(***************************************************************************)

\* What the assumptions on words say.
LEMMA WordIs ==
  /\ WordBits \in Nat /\ WordBits >= 2 /\ Base = Pow2[WordBits]
  /\ Base \in Nat /\ Base > 1
  /\ Word = {n \in Nat : n < Pow2[WordBits]}
<1>1. WordBits \in Nat /\ WordBits >= 2 /\ Base = Pow2[WordBits]
  BY WordBitsAssumption
<1>2. Word = {n \in Nat : n < Base}
  BY BaseAssumption DEF Word
<1> QED  BY <1>1, <1>2, BaseAssumption

\* The bitwise operations take words to words.
LEMMA CombinedWord ==
  ASSUME NEW op \in BitOps, NEW x \in Int, NEW y \in Int
  PROVE  /\ Combined(op, WordBits, x, y) \in Word
         /\ \A k \in Nat : k < WordBits =>
              BitOf(Combined(op, WordBits, x, y), k) = op[<<BitOf(x, k), BitOf(y, k)>>]
BY CombinedBits, WordIs

LEMMA BitwiseOps ==
  ASSUME NEW b \in {0, 1}, NEW c \in {0, 1}
  PROVE  /\ AndBit[<<b, c>>] = IF b = 0 THEN 0 ELSE c
         /\ OrBit[<<b, c>>] = IF b = 0 THEN c ELSE 1
         /\ XorBit[<<b, c>>] = IF b = c THEN 0 ELSE 1
BY DEF AndBit, OrBit, XorBit, Bit2

\* and, or and exclusive or of words
LEMMA WordsBitwise ==
  ASSUME NEW x \in Int, NEW y \in Int
  PROVE  /\ (x & y) \in Word /\ (x | y) \in Word /\ (x ^^ y) \in Word
         /\ \A k \in Nat : k < WordBits =>
              /\ BitOf(x, k) \in {0, 1} /\ BitOf(y, k) \in {0, 1}
              /\ BitOf(x & y, k) = IF BitOf(x, k) = 0 THEN 0 ELSE BitOf(y, k)
              /\ BitOf(x | y, k) = IF BitOf(x, k) = 0 THEN BitOf(y, k) ELSE 1
              /\ BitOf(x ^^ y, k) = IF BitOf(x, k) = BitOf(y, k) THEN 0 ELSE 1
<1>1. XorBit \in BitOps /\ OrBit \in BitOps /\ AndBit \in BitOps
  BY BitOpsAre
<1>2. (x & y) \in Word /\ (x | y) \in Word /\ (x ^^ y) \in Word
  BY CombinedWord, <1>1 DEF &, |, ^^
<1>3. ASSUME NEW k \in Nat, k < WordBits
      PROVE  /\ BitOf(x & y, k) = AndBit[<<BitOf(x, k), BitOf(y, k)>>]
             /\ BitOf(x | y, k) = OrBit[<<BitOf(x, k), BitOf(y, k)>>]
             /\ BitOf(x ^^ y, k) = XorBit[<<BitOf(x, k), BitOf(y, k)>>]
  BY CombinedWord, <1>1, <1>3 DEF &, |, ^^
<1>4. ASSUME NEW k \in Nat PROVE BitOf(x, k) \in {0, 1} /\ BitOf(y, k) \in {0, 1}
  BY BitIs
<1> QED  BY BitwiseOps, <1>2, <1>3, <1>4

\* Numbers with the same bits are the same.
LEMMA SameNumber ==
  ASSUME NEW i \in Nat, NEW n \in Nat, n < Pow2[i], NEW m \in Nat, m < Pow2[i],
         \A k \in Nat : k < i => BitOf(n, k) = BitOf(m, k)
  PROVE  n = m
<1>1. Low(n, i) = Low(m, i)
  <2>1. \A k \in 0 .. i - 1 : BitOf(n, k) = BitOf(m, k)
    OBVIOUS
  <2> QED  BY SameBits, <2>1
<1>2. Low(n, i) = n /\ Low(m, i) = m
  BY FewBits
<1> QED  BY <1>1, <1>2

LEMMA SameWord ==
  ASSUME NEW x \in Word, NEW y \in Word,
         \A k \in Nat : k < WordBits => BitOf(x, k) = BitOf(y, k)
  PROVE  x = y
BY SameNumber, WordIs

\* the word at bit p of a number
WordAt(n, p) == Low(Up(n, p), WordBits)

\* A word of a number has its bits.
LEMMA WordAtIs ==
  ASSUME NEW n \in Int, NEW p \in Nat
  PROVE  /\ WordAt(n, p) \in Word
         /\ \A k \in Nat : k < WordBits => BitOf(WordAt(n, p), k) = BitOf(n, p + k)
<1>1. Up(n, p) \in Int /\ WordBits \in Nat
  BY Halves, WordIs
<1>2. WordAt(n, p) \in Nat /\ WordAt(n, p) < Pow2[WordBits]
  BY <1>1, Halves DEF WordAt
<1>3. ASSUME NEW k \in Nat, k < WordBits
      PROVE  BitOf(WordAt(n, p), k) = BitOf(n, p + k)
  <2>1. BitOf(Low(Up(n, p), WordBits), k) = BitOf(Up(n, p), k)
    BY BitOfLow, <1>1, <1>3
  <2>2. BitOf(Up(n, p), k) = BitOf(n, p + k)
    BY BitOfUp
  <2> QED  BY <2>1, <2>2 DEF WordAt
<1> QED  BY <1>2, <1>3, WordIs

\* A word with the bits of a number from p on is its word at p.
LEMMA IsWordAt ==
  ASSUME NEW n \in Int, NEW p \in Nat, NEW x \in Word,
         \A k \in Nat : k < WordBits => BitOf(x, k) = BitOf(n, p + k)
  PROVE  x = WordAt(n, p)
BY SameWord, WordAtIs

\* Wrap keeps the least bits.
LEMMA WrapIsLow ==
  ASSUME NEW n \in Int
  PROVE  Wrap(n) = Low(n, WordBits) /\ Wrap(n) = WordAt(n, 0) /\ Wrap(n) \in Word
<1>1. Wrap(n) = Low(n, WordBits)
  BY WordIs DEF Wrap, Low
<1>2. Up(n, 0) = n
  BY NoBits
<1> QED  BY <1>1, <1>2, WordAtIs DEF WordAt

LEMMA WordIsWordAt ==
  ASSUME NEW x \in Word
  PROVE  x \in Nat /\ x < Pow2[WordBits] /\ x = WordAt(x, 0)
         /\ \A k \in Nat : k >= WordBits => BitOf(x, k) = 0
<1>1. x \in Nat /\ x < Pow2[WordBits] /\ WordBits \in Nat
  BY WordIs
<1>2. Up(x, 0) = x /\ Low(x, WordBits) = x
  BY <1>1, NoBits, FewBits
<1> QED  BY <1>1, <1>2, BitsOfSmall DEF WordAt

-----------------------------------------------------------------------------
\* The bits of a word that is shifted to the left.
LEMMA ShlBits ==
  ASSUME NEW x \in Int, NEW i \in Nat
  PROVE  /\ Shl(x, i) \in Word
         /\ \A k \in Nat : k < WordBits =>
              BitOf(Shl(x, i), k) = IF k < i THEN 0 ELSE BitOf(x, k - i)
<1>1. Pow2[i] \in Nat /\ Pow2[i] >= 1 /\ x * Pow2[i] \in Int
      /\ x * Pow2[i] = Pow2[i] * x + 0 /\ 0 < Pow2[i]
  <2>1. Pow2[i] \in Nat /\ Pow2[i] >= 1
    BY Pow2Unfold
  <2> QED  BY <2>1
<1>2. Shl(x, i) = Low(x * Pow2[i], WordBits) /\ Shl(x, i) \in Word
  BY WrapIsLow, <1>1 DEF Shl
<1>3. ASSUME NEW k \in Nat, k < WordBits
      PROVE  BitOf(Shl(x, i), k) = IF k < i THEN 0 ELSE BitOf(x, k - i)
  <2>1. BitOf(Shl(x, i), k) = BitOf(x * Pow2[i], k)
    BY <1>1, <1>2, <1>3, BitOfLow, WordIs
  <2>2. BitOf(Pow2[i] * x + 0, k) = IF k < i THEN BitOf(0, k) ELSE BitOf(x, k - i)
    BY BitsOfSum, <1>1
  <2>3. BitOf(0, k) = 0
    BY BitsOfZero
  <2> QED  BY <1>1, <2>1, <2>2, <2>3
<1> QED  BY <1>2, <1>3

\* The bits of a word that is shifted to the right.
LEMMA ShrBits ==
  ASSUME NEW x \in Nat, NEW i \in Nat
  PROVE  /\ Shr(x, i) = Up(x, i)
         /\ Shr(x, i) \in Nat /\ Shr(x, i) <= x
         /\ x \in Word => Shr(x, i) \in Word
         /\ \A k \in Nat : BitOf(Shr(x, i), k) = BitOf(x, k + i)
<1>1. Pow2[i] \in Nat /\ Pow2[i] >= 1
  BY Pow2Unfold
<1>2. Shr(x, i) = Up(x, i)
  BY DEF Shr, Up
<1>3. 0 <= x \div Pow2[i] /\ x \div Pow2[i] <= x
  <2>1. 0 <= x \div Pow2[i] /\ x \div Pow2[i] <= x \div 1 /\ x \div 1 <= x
    BY QuotientAntitone, <1>1
  <2> QED  BY <1>1, <2>1, Quotient
<1>4. Shr(x, i) \in Nat /\ Shr(x, i) <= x
  BY <1>2, <1>3, Halves DEF Up
<1>5. \A k \in Nat : BitOf(Shr(x, i), k) = BitOf(x, k + i)
  BY <1>2, BitOfUp
<1> QED  BY <1>2, <1>4, <1>5, WordIs

\* The bits of an inverted word.
LEMMA ComplementBits ==
  ASSUME NEW x \in Word
  PROVE  /\ Complement(x) \in Word
         /\ \A k \in Nat : k < WordBits =>
              BitOf(x, k) \in {0, 1} /\ BitOf(Complement(x), k) = 1 - BitOf(x, k)
<1>1. x \in Nat /\ x < Pow2[WordBits] /\ WordBits \in Nat /\ Base = Pow2[WordBits]
      /\ Base \in Nat
  BY WordIs
<1>2. Low(x, WordBits) = x
  BY <1>1, FewBits
<1>3. Low(-1 - x, WordBits) = Pow2[WordBits] - 1 - Low(x, WordBits)
  BY <1>1, HalvesOfComplement
<1>4. Complement(x) = Low(-1 - x, WordBits)
  BY <1>1, <1>2, <1>3 DEF Complement
<1>5. Complement(x) \in Word
  BY <1>1, WordIs DEF Complement
<1>6. ASSUME NEW k \in Nat, k < WordBits
      PROVE  BitOf(x, k) \in {0, 1} /\ BitOf(Complement(x), k) = 1 - BitOf(x, k)
  <2>1. BitOf(-1 - x, k) = 1 - BitOf(x, k)
    BY <1>1, BitsOfComplement
  <2>2. BitOf(Low(-1 - x, WordBits), k) = BitOf(-1 - x, k)
    BY <1>1, <1>6, BitOfLow
  <2> QED  BY <1>1, <1>4, <2>1, <2>2, BitIs
<1> QED  BY <1>5, <1>6

\* A mask has ones up to its width.
LEMMA OnesBits ==
  ASSUME NEW i \in Nat, i <= WordBits
  PROVE  /\ Ones(i) \in Word
         /\ \A k \in Nat : BitOf(Ones(i), k) = IF k < i THEN 1 ELSE 0
<1>1. Pow2[i] - 1 \in Nat /\ Pow2[i] \in Nat /\ Pow2[i] <= Pow2[WordBits] /\ Pow2[WordBits] \in Nat
  BY Pow2Monotone, WordIs, BitsOfOnes
<1> QED  BY <1>1, WordIs, BitsOfOnes DEF Ones

\* A power of two has one bit.
LEMMA PowerBits ==
  ASSUME NEW i \in Nat, i < WordBits
  PROVE  /\ Pow2[i] \in Word
         /\ \A k \in Nat : BitOf(Pow2[i], k) = IF k = i THEN 1 ELSE 0
<1>1. Pow2[i + 1] \in Nat /\ Pow2[i + 1] <= Pow2[WordBits] /\ Pow2[WordBits] \in Nat
  BY Pow2Monotone, WordIs
<1>2. Pow2[i + 1] = 2 * Pow2[i] /\ Pow2[i] \in Nat \ {0}
  BY Pow2Unfold
<1> QED  BY <1>1, <1>2, WordIs, BitsOfPower

\* A mask keeps the bits below its width.
LEMMA MaskBits ==
  ASSUME NEW i \in Nat, i <= WordBits, NEW x \in Int
  PROVE  /\ RuintMask(i, x) = Low(x, i) /\ RuintMask(i, x) \in Word
         /\ \A k \in Nat : BitOf(RuintMask(i, x), k) = IF k < i THEN BitOf(x, k) ELSE 0
<1>1. RuintMask(i, x) = Low(x, i)
  BY DEF RuintMask, Low
<1>2. Low(x, i) \in Nat /\ Low(x, i) < Pow2[i] /\ Pow2[i] \in Nat
      /\ Pow2[i] <= Pow2[WordBits] /\ Pow2[WordBits] \in Nat
  BY Halves, Pow2Monotone, WordIs
<1> QED  BY <1>1, <1>2, WordIs, BitOfLow

-----------------------------------------------------------------------------
(***************************************************************************)
(* The words of a number: word k holds the bits from First(k) on.          *)
(***************************************************************************)

\* A word put together from two neighbours, one shifted down and one up, is
\* the word at the bit between them.
LEMMA ShiftedWords ==
  ASSUME NEW n \in Int, NEW p \in Nat, NEW i \in Nat, i < WordBits
  PROVE  /\ (Shr(WordAt(n, p), i) | Shl(WordAt(n, p + WordBits), WordBits - i))
              = WordAt(n, p + i)
         /\ i # 0 => (Shr(WordAt(n, p), WordBits - i) | Shl(WordAt(n, p + WordBits), i))
                       = WordAt(n, p + WordBits - i)
<1> DEFINE x == WordAt(n, p)
           y == WordAt(n, p + WordBits)
<1>1. WordBits \in Nat /\ p + WordBits \in Nat
  BY WordIs
<1>2. /\ x \in Word /\ x \in Nat /\ y \in Word /\ y \in Int /\ y \in Nat
      /\ \A k \in Nat : k < WordBits =>
           BitOf(x, k) = BitOf(n, p + k) /\ BitOf(y, k) = BitOf(n, p + WordBits + k)
      /\ \A k \in Nat : k >= WordBits => BitOf(x, k) = 0
  BY <1>1, WordAtIs, WordIsWordAt
<1> HIDE DEF x, y
<1>3. ASSUME NEW j \in Nat, j <= WordBits
      PROVE  (Shr(x, j) | Shl(y, WordBits - j)) = WordAt(n, p + j)
  <2> DEFINE a == Shr(x, j)
             b == Shl(y, WordBits - j)
  <2>1. WordBits - j \in Nat /\ p + j \in Nat
    BY <1>1, <1>3
  <2>2. /\ a \in Int /\ b \in Int
        /\ \A k \in Nat : BitOf(a, k) = BitOf(x, k + j)
        /\ \A k \in Nat : k < WordBits =>
             BitOf(b, k) = IF k < WordBits - j THEN 0 ELSE BitOf(y, k - (WordBits - j))
    <3>1. a \in Nat /\ \A k \in Nat : BitOf(a, k) = BitOf(x, k + j)
      BY <1>2, ShrBits, Zenon
    <3>2. b \in Word /\ \A k \in Nat : k < WordBits =>
             BitOf(b, k) = IF k < WordBits - j THEN 0 ELSE BitOf(y, k - (WordBits - j))
      BY <1>2, <2>1, ShlBits, Zenon
    <3>3. b \in Nat
      BY <3>2, WordIs
    <3> QED  BY <3>1, <3>2, <3>3
  <2> HIDE DEF a, b
  <2>3. ASSUME NEW k \in Nat, k < WordBits
        PROVE  BitOf(a | b, k) = BitOf(n, p + j + k)
    <3>1. /\ BitOf(a, k) \in {0, 1} /\ BitOf(b, k) \in {0, 1}
          /\ BitOf(a | b, k) = IF BitOf(a, k) = 0 THEN BitOf(b, k) ELSE 1
      BY <2>2, <2>3, WordsBitwise
    <3>2. CASE k < WordBits - j
      <4>1. BitOf(a, k) = BitOf(n, p + (k + j)) /\ BitOf(b, k) = 0
        BY <1>1, <1>2, <2>1, <2>2, <2>3, <3>2
      <4>2. p + (k + j) = p + j + k
        OBVIOUS
      <4> QED  BY <3>1, <4>1, <4>2
    <3>3. CASE ~ k < WordBits - j
      <4>1. k - (WordBits - j) \in Nat /\ k - (WordBits - j) < WordBits
            /\ p + WordBits + (k - (WordBits - j)) = p + j + k
            /\ k + j >= WordBits /\ k + j \in Nat
        BY <1>1, <1>3, <2>1, <2>3, <3>3
      <4>2. BitOf(a, k) = 0
        BY <1>2, <2>2, <4>1
      <4>3. BitOf(b, k) = BitOf(y, k - (WordBits - j))
        BY <2>2, <2>3, <3>3
      <4>4. BitOf(y, k - (WordBits - j)) = BitOf(n, p + WordBits + (k - (WordBits - j)))
        BY <1>2, <4>1
      <4> QED  BY <3>1, <4>1, <4>2, <4>3, <4>4
    <3> QED  BY <3>2, <3>3
  <2>4. (a | b) \in Word
    BY <2>2, WordsBitwise
  <2>5. (a | b) = WordAt(n, p + j)
    BY <2>1, <2>3, <2>4, IsWordAt
  <2> QED  BY <2>5 DEF a, b
<1>4. (Shr(x, i) | Shl(y, WordBits - i)) = WordAt(n, p + i)
  BY <1>1, <1>3
<1>5. ASSUME i # 0
      PROVE  (Shr(x, WordBits - i) | Shl(y, i)) = WordAt(n, p + WordBits - i)
  <2>1. WordBits - i \in Nat /\ WordBits - i <= WordBits /\ WordBits - (WordBits - i) = i
        /\ p + (WordBits - i) = p + WordBits - i
    BY <1>1
  <2> QED  BY <1>3, <2>1
<1> QED  BY <1>4, <1>5 DEF x, y

-----------------------------------------------------------------------------
(***************************************************************************)
(* Positions.                                                              *)
(***************************************************************************)

\* Where bit pos is in an array.
LEMMA IndexIs ==
  ASSUME NEW pos \in Nat
  PROVE  /\ WordIndex(pos) \in Nat /\ BitIndex(pos) \in Nat /\ BitIndex(pos) < WordBits
         /\ pos = WordBits * WordIndex(pos) + BitIndex(pos)
         /\ WordBits * WordIndex(pos) \in Nat
<1>1. WordBits \in Nat \ {0}
  BY WordIs
<1>2. /\ pos \div WordBits \in Int /\ (pos % WordBits) \in Nat
      /\ (pos % WordBits) \in 0 .. WordBits - 1
      /\ pos = WordBits * (pos \div WordBits) + (pos % WordBits)
  BY <1>1, QuotientAndRemainder
<1>3. pos \div WordBits \in Nat
  <2>1. WordBits \in Int /\ 1 <= WordBits /\ WordBits <= WordBits
    BY <1>1
  <2>2. 0 <= pos \div WordBits
    BY <2>1, QuotientAntitone
  <2> QED  BY <1>2, <2>2
<1>4. WordBits * (pos \div WordBits) \in Nat
  BY <1>1, <1>3
<1> QED  BY <1>1, <1>2, <1>3, <1>4 DEF WordIndex, BitIndex

\* the first bit of word k
First(k) == WordBits * (k - 1)

\* Words follow one another.
LEMMA FirstIs ==
  /\ First(1) = 0
  /\ \A k \in Nat \ {0} :
       First(k) \in Nat /\ First(k + 1) = First(k) + WordBits /\ First(k + 1) = WordBits * k
  /\ \A j, k \in Nat \ {0} : j < k => First(j) + WordBits <= First(k)
<1>1. WordBits \in Nat
  BY WordIs
<1>2. First(1) = 0
  BY <1>1 DEF First
<1>3. ASSUME NEW k \in Nat \ {0}
      PROVE  First(k) \in Nat /\ First(k + 1) = First(k) + WordBits
             /\ First(k + 1) = WordBits * k
  BY <1>1 DEF First
<1>4. ASSUME NEW j \in Nat \ {0}, NEW k \in Nat \ {0}, j < k
      PROVE  First(j) + WordBits <= First(k)
  <2>1. WordBits * j <= WordBits * (k - 1)
    BY <1>1, <1>4, ProductMonotone
  <2>2. WordBits * j = First(j) + WordBits
    BY <1>1 DEF First
  <2> QED  BY <2>1, <2>2 DEF First
<1> QED  BY <1>2, <1>3, <1>4

\* As many words as hold the bits, and no more.
LEMMA DataSizeIs ==
  ASSUME NEW size \in Nat \ {0}
  PROVE  /\ DataSize(size) \in Nat \ {0}
         /\ First(DataSize(size)) \in Nat
         /\ First(DataSize(size)) < size /\ size <= First(DataSize(size)) + WordBits
         /\ WordIndex(size - 1) + 1 = DataSize(size)
         /\ BitIndex(size - 1) = size - 1 - First(DataSize(size))
         /\ size > WordBits => DataSize(size) >= 2
         /\ size <= WordBits => DataSize(size) = 1
<1> DEFINE q == WordIndex(size)
           r == BitIndex(size)
<1>1. /\ q \in Nat /\ r \in Nat /\ r < WordBits /\ size = WordBits * q + r
      /\ WordBits * q \in Nat
  BY IndexIs
<1>2. WordBits \in Nat /\ WordBits >= 2
  BY WordIs
<1>3. DataSize(size) = q + (IF r # 0 THEN 1 ELSE 0)
  BY DEF DataSize, Bit
<1> HIDE DEF q, r
<1>4. /\ DataSize(size) \in Nat \ {0} /\ First(DataSize(size)) \in Nat
      /\ First(DataSize(size)) < size /\ size <= First(DataSize(size)) + WordBits
  <2>1. CASE r # 0
    <3>1. DataSize(size) = q + 1 /\ First(q + 1) = WordBits * q
      BY <1>1, <1>2, <1>3, <2>1 DEF First
    <3> QED  BY <1>1, <1>2, <2>1, <3>1
  <2>2. CASE r = 0
    <3>1. q # 0
      BY <1>1, <1>2, <2>2
    <3>2. DataSize(size) = q /\ First(q) = WordBits * q - WordBits
      BY <1>1, <1>2, <1>3, <2>2 DEF First
    <3>3. First(q) \in Nat
      BY <1>1, <3>1, FirstIs
    <3> QED  BY <1>1, <1>2, <2>2, <3>1, <3>2, <3>3
  <2> QED  BY <2>1, <2>2
<1> DEFINE L == DataSize(size)
           b == size - 1 - First(L)
<1>5. WordIndex(size - 1) = L - 1 /\ BitIndex(size - 1) = b
  <2>1. size - 1 = WordBits * (L - 1) + b /\ b \in 0 .. WordBits - 1
    BY <1>2, <1>4 DEF First
  <2>2. size - 1 \in Int /\ L - 1 \in Int
    BY <1>4
  <2> HIDE DEF L, b
  <2>3. (size - 1) \div WordBits = L - 1 /\ (size - 1) % WordBits = b
    BY <1>2, <2>1, <2>2, QuotientIs
  <2> QED  BY <2>3 DEF WordIndex, BitIndex
<1>6. size > WordBits => L >= 2
  <2>1. First(1) = 0
    BY FirstIs
  <2> QED  BY <1>2, <1>4, <2>1
<1>7. size <= WordBits => L = 1
  <2>1. L > 1 => First(1) + WordBits <= First(L)
    BY <1>4, FirstIs
  <2>2. First(1) = 0 /\ L \in Nat \ {0} /\ First(L) \in Nat /\ First(L) < size
    BY <1>4, FirstIs
  <2> HIDE DEF L
  <2> QED  BY <1>2, <2>1, <2>2
<1> QED  BY <1>4, <1>5, <1>6, <1>7

-----------------------------------------------------------------------------
(***************************************************************************)
(* Arrays of words, and the numbers that they hold.                        *)
(***************************************************************************)
WordsOf(n, len) == [k \in 1 .. len |-> WordAt(n, First(k))]

\* The words of a number are an array.
LEMMA WordsOfIs ==
  ASSUME NEW n \in Int, NEW len \in Nat
  PROVE  /\ WordsOf(n, len) \in Arrays /\ Len(WordsOf(n, len)) = len
         /\ WordsOf(n, len) \in [1 .. len -> Word]
         /\ DOMAIN WordsOf(n, len) = 1 .. len
         /\ \A k \in 1 .. len : /\ WordsOf(n, len)[k] = WordAt(n, First(k))
                                /\ WordsOf(n, len)[k] \in Word
                                /\ First(k) \in Nat
<1>1. \A k \in 1 .. len : First(k) \in Nat
  BY FirstIs
<1>2. \A k \in 1 .. len : WordAt(n, First(k)) \in Word
  BY <1>1, WordAtIs
<1> QED  BY <1>1, <1>2 DEF WordsOf, Arrays

\* An array is known by its words.
LEMMA AreWordsOf ==
  ASSUME NEW n \in Int, NEW len \in Nat, NEW d \in [1 .. len -> Word],
         \A k \in 1 .. len : \A j \in Nat :
           j < WordBits => BitOf(d[k], j) = BitOf(n, First(k) + j)
  PROVE  d = WordsOf(n, len)
<1>1. ASSUME NEW k \in 1 .. len PROVE d[k] = WordAt(n, First(k))
  <2>1. d[k] \in Word /\ First(k) \in Nat
    BY WordsOfIs
  <2>2. \A j \in Nat : j < WordBits => BitOf(d[k], j) = BitOf(n, First(k) + j)
    OBVIOUS
  <2> QED  BY <2>1, <2>2, IsWordAt
<1> QED  BY <1>1 DEF WordsOf

\* Every array holds the words of its value.
LEMMA ArraysAreWords ==
  ASSUME NEW d \in Arrays
  PROVE  /\ Len(d) \in Nat /\ ValueOf(d) \in Nat
         /\ ValueOf(d) < Pow2[WordBits * Len(d)]
         /\ d = WordsOf(ValueOf(d), Len(d))
         /\ \A k \in Nat \ {0} : Rest(d, k - 1) = Up(ValueOf(d), First(k))
<1> DEFINE n == Len(d)
           v == ValueOf(d)
<1>1. n \in Nat /\ DOMAIN d = 1 .. n /\ d = [k \in 1 .. n |-> d[k]]
      /\ WordBits \in Nat /\ Base = Pow2[WordBits] /\ Base \in Nat
  BY WordIs DEF Arrays
<1>2. /\ \A i \in Nat : Rest(d, i) \in Nat
      /\ Rest(d, n) = 0
      /\ \A i \in Nat \ {0} : Digit(d, i) \in Word
      /\ \A i \in Nat \ {0} : Rest(d, i - 1) = Digit(d, i) + Base * Rest(d, i)
      /\ v = Rest(d, 0)
  BY <1>1, RestIs
<1>3. v \in Nat
  BY <1>2
<1> HIDE DEF v
<1>4. ASSUME NEW i \in Nat \ {0}
      PROVE  /\ Up(Rest(d, i - 1), WordBits) = Rest(d, i)
             /\ Low(Rest(d, i - 1), WordBits) = Digit(d, i)
  <2>1. i - 1 \in Nat
    OBVIOUS
  <2>2. Rest(d, i - 1) \in Int /\ Rest(d, i) \in Int /\ Digit(d, i) \in Nat
        /\ Digit(d, i) < Pow2[WordBits]
        /\ Base * Rest(d, i) \in Int
        /\ Rest(d, i - 1) = Pow2[WordBits] * Rest(d, i) + Digit(d, i)
    BY <1>1, <1>2, <2>1, WordIs
  <2> QED  BY <1>1, <2>2, HalvesAre
<1> DEFINE S == {i \in Nat : Rest(d, i) = Up(v, WordBits * i)}
<1>5. Nat \subseteq S
  <2>1. 0 \in S
    <3>1. WordBits * 0 = 0 /\ Up(v, 0) = v
      BY <1>1, <1>3, NoBits
    <3> QED  BY <1>2, <3>1
  <2>2. ASSUME NEW i \in Nat, i \in S PROVE i + 1 \in S
    <3>1. Up(Rest(d, i), WordBits) = Rest(d, i + 1)
      <4>1. i + 1 \in Nat \ {0} /\ (i + 1) - 1 = i
        OBVIOUS
      <4> QED  BY <1>4, <4>1
    <3>2. WordBits * i \in Nat /\ WordBits * (i + 1) = WordBits * i + WordBits
      BY <1>1
    <3>3. Up(Up(v, WordBits * i), WordBits) = Up(v, WordBits * i + WordBits)
      BY <1>1, <1>3, <3>2, HalvesOfHalves
    <3> QED  BY <2>2, <3>1, <3>2, <3>3
  <2> HIDE DEF S
  <2> QED  BY <2>1, <2>2, Induction
<1>6. ASSUME NEW k \in Nat \ {0} PROVE Rest(d, k - 1) = Up(v, First(k))
  BY <1>5 DEF First
<1>7. ASSUME NEW k \in 1 .. n PROVE d[k] = WordAt(v, First(k))
  <2>1. k \in Nat \ {0} /\ Digit(d, k) = d[k]
    BY <1>1 DEF Digit
  <2> QED  BY <1>4, <1>6, <2>1 DEF WordAt
<1>8. v < Pow2[WordBits * n]
  <2> DEFINE p == WordBits * n
  <2>1. p \in Nat
    BY <1>1
  <2>2. Up(v, p) = 0
    <3>1. n \in S
      BY <1>1, <1>5
    <3> QED  BY <1>2, <3>1
  <2> HIDE DEF p
  <2>3. /\ v = Pow2[p] * Up(v, p) + Low(v, p)
        /\ Low(v, p) < Pow2[p] /\ Pow2[p] \in Nat /\ Low(v, p) \in Nat
    <3>1. v \in Int
      BY <1>3
    <3> QED  BY <2>1, <3>1, Halves, Zenon
  <2>4. v < Pow2[p]
    BY <2>2, <2>3
  <2> QED  BY <2>4 DEF p
<1>9. d = WordsOf(v, n)
  BY <1>1, <1>7 DEF WordsOf
<1> QED  BY <1>1, <1>3, <1>6, <1>8, <1>9 DEF v

\* The value of the words of a number.
LEMMA ValueOfWords ==
  ASSUME NEW n \in Int, NEW len \in Nat
  PROVE  /\ WordBits * len \in Nat
         /\ ValueOf(WordsOf(n, len)) = Low(n, WordBits * len)
<1> DEFINE d == WordsOf(n, len)
<1>1. WordBits \in Nat /\ WordBits * len \in Nat /\ Base = Pow2[WordBits] /\ Base \in Nat
  BY WordIs
<1>2. /\ d \in Arrays /\ Len(d) = len /\ DOMAIN d = 1 .. len
      /\ \A k \in 1 .. len : d[k] = WordAt(n, First(k)) /\ First(k) \in Nat
  BY WordsOfIs
<1> HIDE DEF d
<1>3. /\ \A i \in Nat : Rest(d, i) \in Nat
      /\ Rest(d, len) = 0
      /\ \A i \in Nat \ {0} : Rest(d, i - 1) = Digit(d, i) + Base * Rest(d, i)
      /\ ValueOf(d) = Rest(d, 0)
  BY <1>2, RestIs
<1> DEFINE S == {i \in 0 .. len : Rest(d, i) = Low(Up(n, WordBits * i), WordBits * (len - i))}
<1>4. len \in S
  <2>1. WordBits * (len - len) = 0 /\ WordBits * len \in Nat
    BY <1>1
  <2>2. Up(n, WordBits * len) \in Int
    BY <2>1, Halves
  <2>3. Low(Up(n, WordBits * len), 0) = 0
    BY <2>2, NoBits
  <2> QED  BY <1>3, <2>1, <2>3
<1>5. ASSUME NEW i \in 1 .. len, i \in S PROVE i - 1 \in S
  <2> DEFINE p == WordBits * (i - 1)
             j == WordBits * (len - i)
             m == Up(n, p)
  <2>1. p \in Nat /\ j \in Nat /\ WordBits * i = p + WordBits
        /\ WordBits * (len - (i - 1)) = WordBits + j /\ First(i) = p
    <3>1. i - 1 \in Nat /\ len - i \in Nat
      OBVIOUS
    <3> QED  BY <1>1, <3>1 DEF First
  <2> HIDE DEF p, j
  <2>2. m \in Int
    BY <2>1, Halves
  <2>4. Up(m, WordBits) = Up(n, p + WordBits)
    BY <1>1, <2>1, HalvesOfHalves
  <2>3. Low(m, WordBits + j) = Low(m, WordBits) + Base * Low(Up(m, WordBits), j)
    <3> HIDE DEF m
    <3>1. Low(m, WordBits + j) = Low(m, WordBits) + Pow2[WordBits] * Low(Up(m, WordBits), j)
      <4>1. WordBits \in Nat /\ j \in Nat
        BY <1>1, <2>1
      <4> QED  BY <2>2, <4>1, HalvesOfHalves
    <3> QED  BY <1>1, <3>1
  <2>5. Digit(d, i) = Low(m, WordBits)
    BY <1>2, <2>1 DEF Digit, WordAt
  <2>6. Rest(d, i) = Low(Up(m, WordBits), j)
    BY <1>5, <2>1, <2>4 DEF j
  <2>7. Rest(d, i - 1) = Low(m, WordBits + j)
    BY <1>3, <2>3, <2>5, <2>6
  <2> QED  BY <2>1, <2>7 DEF p
<1>6. 0 \in S
  <2> HIDE DEF S
  <2> QED  BY <1>4, <1>5, Descent
<1>7. Rest(d, 0) = Low(Up(n, WordBits * 0), WordBits * (len - 0))
  BY <1>6
<1>8. WordBits * 0 = 0 /\ len - 0 = len /\ Up(n, 0) = n
  BY <1>1, NoBits
<1> QED  BY <1>1, <1>3, <1>7, <1>8 DEF d

-----------------------------------------------------------------------------
(***************************************************************************)
(* The loops of sums and differences, and masks, in words of numbers.      *)
(***************************************************************************)

\* Words tell the numbers apart only below the last one's end.
LEMMA SameWords ==
  ASSUME NEW n \in Int, NEW m \in Int, NEW p \in Nat, Low(n, p) = Low(m, p),
         NEW len \in Nat \ {0}, First(len) + WordBits <= p
  PROVE  WordsOf(n, len) = WordsOf(m, len)
<1>1. ASSUME NEW k \in 1 .. len, NEW j \in Nat, j < WordBits
      PROVE  BitOf(WordsOf(n, len)[k], j) = BitOf(m, First(k) + j)
  <2>1. /\ WordsOf(n, len)[k] = WordAt(n, First(k)) /\ First(k) \in Nat
        /\ WordBits \in Nat /\ First(len) \in Nat
    <3>1. WordsOf(n, len)[k] = WordAt(n, First(k)) /\ First(k) \in Nat
      BY WordsOfIs
    <3> QED  BY <3>1, WordIs, FirstIs
  <2>2. BitOf(WordAt(n, First(k)), j) = BitOf(n, First(k) + j)
    BY <1>1, <2>1, WordAtIs
  <2>3. First(k) + j \in Nat /\ First(k) + j < p
    <3>1. k < len => First(k) + WordBits <= First(len)
      BY FirstIs
    <3> QED  BY <1>1, <2>1, <3>1
  <2>4. BitOf(n, First(k) + j) = BitOf(m, First(k) + j)
    <3>1. /\ BitOf(Low(n, p), First(k) + j) = BitOf(n, First(k) + j)
          /\ BitOf(Low(m, p), First(k) + j) = BitOf(m, First(k) + j)
      BY <2>3, BitOfLow
    <3> QED  BY <3>1
  <2> QED  BY <2>1, <2>2, <2>4
<1>2. WordsOf(n, len) \in [1 .. len -> Word]
  BY WordsOfIs
<1> QED  BY <1>1, <1>2, AreWordsOf

\* The loop of sums gives the words of the sum.
LEMMA AddLoopWords ==
  ASSUME NEW a \in Arrays, NEW b \in Arrays, Len(b) <= Len(a)
  PROVE  /\ AddLoop(a, b).digits = WordsOf(ValueOf(a) + ValueOf(b), Len(a))
         /\ ValueOf(a) + ValueOf(b) \in Nat
<1> DEFINE digits == AddLoop(a, b).digits
           carry == AddLoop(a, b).carry
           e == Append(digits, carry)
           s == ValueOf(a) + ValueOf(b)
           n == Len(a)
<1>1. /\ digits \in Arrays /\ Len(digits) = n /\ carry \in {0, 1}
      /\ e \in Arrays /\ ValueOf(e) = s
  BY AddLoopSum
<1>2. ValueOf(e) \in Nat /\ e = WordsOf(ValueOf(e), Len(e))
  BY <1>1, ArraysAreWords
<1> HIDE DEF digits, carry, s
<1>3. n \in Nat /\ Len(e) = n + 1 /\ \A k \in 1 .. n : e[k] = digits[k]
  BY <1>1 DEF Arrays
<1>4. digits = [k \in 1 .. n |-> digits[k]]
  BY <1>1, <1>3 DEF Arrays
<1> HIDE DEF e, n
<1>5. ASSUME NEW k \in 1 .. n PROVE digits[k] = WordAt(s, First(k))
  <2>1. e = WordsOf(s, n + 1) /\ k \in 1 .. n + 1
    BY <1>1, <1>2, <1>3
  <2>2. e[k] = WordAt(s, First(k))
    BY <2>1 DEF WordsOf
  <2> QED  BY <1>3, <2>2
<1>6. digits = WordsOf(s, n)
  BY <1>4, <1>5 DEF WordsOf
<1> QED  BY <1>1, <1>2, <1>6 DEF digits, s, n

\* The loop of differences gives the words of the difference, in two's
\* complement if it is negative.
LEMMA SubLoopWords ==
  ASSUME NEW a \in Arrays, NEW b \in Arrays, Len(b) <= Len(a)
  PROVE  /\ SubLoop(a, b).digits = WordsOf(ValueOf(a) - ValueOf(b), Len(a))
         /\ ValueOf(a) - ValueOf(b) \in Int
<1> DEFINE digits == SubLoop(a, b).digits
           last == SubLoop(a, b).carry
           s == ValueOf(a) - ValueOf(b)
           n == Len(a)
<1> HIDE DEF digits, s, last
<1>1. digits \in Arrays /\ Len(digits) = n /\ n \in Nat
  BY SubLoopRests DEF digits, Arrays
<1>2. PICK rest \in [0 .. n -> Int] :
        /\ rest[0] = s
        /\ \A i \in 1 .. n : digits[i] \in Word /\ rest[i - 1] = digits[i] + Base * rest[i]
  BY SubLoopRests DEF digits, last, s
<1>3. WordBits \in Nat /\ Base = Pow2[WordBits] /\ Base \in Nat
  BY WordIs
<1>4. s \in Int
  BY <1>1, <1>2
<1> HIDE DEF n
<1>5. ASSUME NEW i \in 1 .. n
      PROVE  Up(rest[i - 1], WordBits) = rest[i] /\ Low(rest[i - 1], WordBits) = digits[i]
  <2>1. i - 1 \in 0 .. n /\ i \in 0 .. n
    BY <1>1
  <2>2. rest[i - 1] \in Int /\ rest[i] \in Int
    BY <1>2, <2>1
  <2>3. digits[i] \in Word /\ rest[i - 1] = digits[i] + Base * rest[i]
    BY <1>2
  <2>4. digits[i] \in Nat /\ digits[i] < Pow2[WordBits]
    BY <2>3, WordIs
  <2>5. rest[i - 1] = Pow2[WordBits] * rest[i] + digits[i]
    <3>1. Base * rest[i] \in Int
      BY <1>3, <2>2
    <3> QED  BY <1>3, <2>3, <2>4, <3>1
  <2> QED  BY <1>3, <2>2, <2>4, <2>5, HalvesAre
<1> DEFINE S == {i \in 0 .. n : rest[i] = Up(s, WordBits * i)}
<1>6. 0 .. n \subseteq S
  <2>1. 0 \in S
    <3>1. WordBits * 0 = 0 /\ Up(s, 0) = s /\ 0 \in 0 .. n
      BY <1>1, <1>3, <1>4, NoBits
    <3> QED  BY <1>2, <3>1
  <2>2. ASSUME NEW i \in 1 .. n, i - 1 \in S PROVE i \in S
    <3> DEFINE p == WordBits * (i - 1)
    <3>1. p \in Nat /\ WordBits * i = p + WordBits
      BY <1>3
    <3>2. rest[i - 1] = Up(s, p)
      BY <2>2
    <3> HIDE DEF p
    <3>3. Up(Up(s, p), WordBits) = Up(s, p + WordBits)
      BY <1>3, <1>4, <3>1, HalvesOfHalves
    <3> QED  BY <1>1, <1>5, <3>1, <3>2, <3>3
  <2> HIDE DEF S
  <2> QED  BY <1>1, <2>1, <2>2, Ascent
<1>7. ASSUME NEW k \in 1 .. n PROVE digits[k] = WordAt(s, First(k))
  <2>1. k - 1 \in S
    BY <1>1, <1>6
  <2>2. rest[k - 1] = Up(s, First(k))
    BY <2>1 DEF First
  <2> QED  BY <1>5, <2>2 DEF WordAt
<1>8. digits = WordsOf(s, n)
  <2>1. digits = [k \in 1 .. n |-> digits[k]]
    BY <1>1 DEF Arrays
  <2> QED  BY <1>7, <2>1 DEF WordsOf
<1> QED  BY <1>4, <1>8 DEF digits, s, n

\* Clearing the bits above the size gives the words of the number modulo it.
LEMMA SizeMaskIs ==
  ASSUME NEW size \in Nat \ {0}, NEW n \in Int
  PROVE  LET len == DataSize(size)
         IN  SizeMask(size, WordsOf(n, len)) = WordsOf(Low(n, size), len)
<1> DEFINE len == DataSize(size)
           d == WordsOf(n, len)
           m == Low(n, size)
           b == BitIndex(size - 1)
           e == SizeMask(size, d)
<1>1. /\ len \in Nat \ {0} /\ First(len) \in Nat
      /\ First(len) < size /\ size <= First(len) + WordBits
      /\ WordIndex(size - 1) + 1 = len /\ b = size - 1 - First(len)
  BY DataSizeIs
<1>2. /\ DOMAIN d = 1 .. len
      /\ \A k \in 1 .. len : d[k] = WordAt(n, First(k)) /\ d[k] \in Word /\ First(k) \in Nat
  BY <1>1, WordsOfIs
<1>3. WordBits \in Nat /\ m \in Nat /\ b + 1 \in Nat /\ b + 1 <= WordBits
  <2>1. m \in Nat
    BY Halves
  <2> HIDE DEF m, b, len
  <2> QED  BY <1>1, <2>1, WordIs
<1> HIDE DEF len, d, b, m
<1>4. e = [k \in 1 .. len |-> IF k = len THEN RuintMask(b + 1, d[k]) ELSE d[k]]
  BY <1>1, <1>2 DEF SizeMask, b
<1> HIDE DEF e
<1>5. ASSUME NEW k \in 1 .. len
      PROVE  /\ e[k] \in Word
             /\ \A j \in Nat : j < WordBits => BitOf(e[k], j) = BitOf(m, First(k) + j)
  <2>1. /\ d[k] \in Word /\ d[k] \in Int /\ First(k) \in Nat
        /\ \A j \in Nat : j < WordBits => BitOf(d[k], j) = BitOf(n, First(k) + j)
    <3>1. d[k] = WordAt(n, First(k)) /\ d[k] \in Word /\ First(k) \in Nat
      BY <1>2
    <3>2. \A j \in Nat : j < WordBits => BitOf(WordAt(n, First(k)), j) = BitOf(n, First(k) + j)
      BY <3>1, WordAtIs
    <3> QED  BY <3>1, <3>2, WordIs
  <2>2. \A j \in Nat : BitOf(m, First(k) + j) =
                         IF First(k) + j < size THEN BitOf(n, First(k) + j) ELSE 0
    BY <2>1, BitOfLow DEF m
  <2>3. CASE k = len
    <3>1. e[k] = RuintMask(b + 1, d[k])
      BY <1>4, <2>3
    <3>2. e[k] \in Word /\ \A j \in Nat : BitOf(e[k], j) = IF j < b + 1 THEN BitOf(d[k], j) ELSE 0
      BY <1>3, <2>1, <3>1, MaskBits
    <3>3. \A j \in Nat : j < b + 1 <=> First(k) + j < size
      BY <1>1, <2>3
    <3> QED  BY <2>1, <2>2, <3>2, <3>3
  <2>4. CASE k # len
    <3>1. e[k] = d[k]
      BY <1>4, <2>4
    <3>2. First(k) + WordBits <= First(len)
      BY <1>1, <2>4, FirstIs
    <3>3. \A j \in Nat : j < WordBits => First(k) + j < size
      BY <1>1, <1>3, <2>1, <3>2
    <3> QED  BY <2>1, <2>2, <3>1, <3>3
  <2> QED  BY <2>3, <2>4
<1>6. e \in [1 .. len -> Word]
  BY <1>4, <1>5
<1>7. e = WordsOf(m, len)
  <2>1. m \in Int /\ len \in Nat
    BY <1>1, <1>3
  <2>2. \A k \in 1 .. len : \A j \in Nat :
           j < WordBits => BitOf(e[k], j) = BitOf(m, First(k) + j)
    BY <1>5
  <2> QED  BY <1>6, <2>1, <2>2, AreWordsOf
<1> QED  BY <1>7 DEF e, d, m, len

-----------------------------------------------------------------------------
(***************************************************************************)
(* Bit vectors: the representations of a number in a size, their sums and  *)
(* differences.                                                            *)
(***************************************************************************)

(***************************************************************************)
(* Representations of the bit vector of a size that holds a number.        *)
(***************************************************************************)
IsVector(v, size, n) ==
  /\ size \in Nat \ {0} /\ n \in Nat /\ n < Pow2[size]
  /\ \/ size <= WordBits /\ v = Small(size, n)
     \/ size > WordBits /\ n \in Word /\ v = Sparse(size, n)
     \/ size > WordBits /\ v = Generic(size, WordsOf(n, DataSize(size)))

\* A number that fits its size is the value of its words.
LEMMA NumberOfWords ==
  ASSUME NEW size \in Nat \ {0}, NEW n \in Nat, n < Pow2[size]
  PROVE  ValueOf(WordsOf(n, DataSize(size))) = n
<1> DEFINE len == DataSize(size)
           p == WordBits * len
<1>1. len \in Nat \ {0} /\ size <= First(len) + WordBits
  BY DataSizeIs
<1>2. First(len) + WordBits = p /\ p \in Nat
  <2>1. First(len + 1) = First(len) + WordBits /\ First(len + 1) = WordBits * len
        /\ First(len) \in Nat
    BY <1>1, FirstIs
  <2> QED  BY <2>1, WordIs
<1>3. ValueOf(WordsOf(n, len)) = Low(n, p)
  BY <1>1, ValueOfWords
<1> HIDE DEF len, p
<1>4. Pow2[size] <= Pow2[p] /\ Pow2[p] \in Nat /\ Pow2[size] \in Nat
  BY <1>1, <1>2, Pow2Monotone
<1>5. Low(n, p) = n
  BY <1>2, <1>4, FewBits
<1> QED  BY <1>3, <1>5 DEF len

\* What is known of a proper vector in each representation.
LEMMA VectorIs ==
  ASSUME NEW v, NEW size, NEW n, IsVector(v, size, n)
  PROVE  /\ size \in Nat \ {0} /\ n \in Nat /\ n < Pow2[size] /\ Low(n, size) = n
         /\ v.size = size /\ v.kind \in {"small", "sparse", "generic"}
         /\ v.kind = "small" <=> size <= WordBits
         /\ v.kind = "small" => v = Small(size, n)
         /\ v.kind = "sparse" => v = Sparse(size, n)
         /\ v.kind \in {"small", "sparse"} => Val(v) = n /\ n \in Word /\ v.data = <<n>>
         /\ v.kind = "generic" => /\ v = Generic(size, WordsOf(n, DataSize(size)))
                                  /\ v.data = WordsOf(n, DataSize(size))
         /\ v.data \in Arrays /\ ValueOf(v.data) = n
<1>1. size \in Nat \ {0} /\ n \in Nat /\ n < Pow2[size]
  BY DEF IsVector
<1>2. Low(n, size) = n
  BY <1>1, FewBits
<1>3. n \in Word => <<n>> \in Arrays /\ ValueOf(<<n>>) = n
  BY SingleWord
<1>4. size <= WordBits => n \in Word
  BY <1>1, WordIs, Pow2Monotone
<1>5. WordsOf(n, DataSize(size)) \in Arrays /\ ValueOf(WordsOf(n, DataSize(size))) = n
  BY <1>1, NumberOfWords, WordsOfIs, DataSizeIs
<1>6. CASE size <= WordBits /\ v = Small(size, n)
  <2>1. Val(v) = n /\ v.kind = "small" /\ v.size = size /\ v.data = <<n>>
    BY <1>6 DEF Val, Small
  <2> QED  BY <1>1, <1>2, <1>3, <1>4, <1>6, <2>1
<1>7. CASE size > WordBits /\ n \in Word /\ v = Sparse(size, n)
  <2>1. Val(v) = n /\ v.kind = "sparse" /\ v.size = size /\ v.data = <<n>>
    BY <1>7 DEF Val, Sparse
  <2>2. ~ size <= WordBits
    BY <1>1, <1>7, WordIs
  <2> QED  BY <1>1, <1>2, <1>3, <1>7, <2>1, <2>2
<1>8. CASE size > WordBits /\ v = Generic(size, WordsOf(n, DataSize(size)))
  <2>1. v.kind = "generic" /\ v.size = size /\ v.data = WordsOf(n, DataSize(size))
    BY <1>8 DEF Generic
  <2>2. ~ size <= WordBits
    BY <1>1, <1>8, WordIs
  <2> QED  BY <1>1, <1>2, <1>5, <1>8, <2>1, <2>2
<1> QED  BY <1>6, <1>7, <1>8 DEF IsVector

(***************************************************************************)
(* How the operations make them.                                           *)
(***************************************************************************)
LEMMA LowIs ==
  ASSUME NEW size \in Nat, NEW x \in Int
  PROVE  Low(x, size) \in Nat /\ Low(x, size) < Pow2[size] /\ Low(Low(x, size), size) = Low(x, size)
<1>1. Low(x, size) \in Nat /\ Low(x, size) < Pow2[size]
  BY Halves
<1> QED  BY <1>1, FewBits

LEMMA IsSmall ==
  ASSUME NEW size \in Nat \ {0}, size <= WordBits, NEW x \in Int
  PROVE  /\ IsVector(Small(size, RuintMask(size, x)), size, Low(x, size))
         /\ IsVector(Small(size, RuintMask(size, Wrap(x))), size, Low(x, size))
         /\ \A v : v.size = size => /\ IsVector(MakeSmall(v, x), size, Low(x, size))
                                    /\ IsVector(MakeSmall(v, Wrap(x)), size, Low(x, size))
<1>1. ASSUME NEW y \in Int
      PROVE  IsVector(Small(size, RuintMask(size, y)), size, Low(y, size))
  BY LowIs DEF IsVector, RuintMask, Low
<1>2. Wrap(x) \in Int /\ Low(Wrap(x), size) = Low(x, size)
  BY WrapIsLow, LowOfLow, WordIs
<1>3. IsVector(Small(size, RuintMask(size, Wrap(x))), size, Low(x, size))
  BY <1>1, <1>2
<1> QED  BY <1>1, <1>3 DEF MakeSmall

LEMMA IsSparse ==
  ASSUME NEW size \in Nat \ {0}, size > WordBits, NEW x \in Word
  PROVE  IsVector(Sparse(size, x), size, x) /\ Low(x, size) = x
<1>1. x \in Nat /\ x < Pow2[WordBits] /\ Pow2[WordBits] <= Pow2[size]
      /\ Pow2[WordBits] \in Nat /\ Pow2[size] \in Nat
  BY WordIs, Pow2Monotone
<1>2. x < Pow2[size]
  BY <1>1
<1> QED  BY <1>1, <1>2, FewBits DEF IsVector

LEMMA IsGeneric ==
  ASSUME NEW size \in Nat \ {0}, size > WordBits
  PROVE  /\ \A x \in Int : \A v : v.size = size =>
              IsVector(MakeGeneric(v, WordsOf(x, DataSize(size))), size, Low(x, size))
         /\ \A x \in Int :
              IsVector(Generic(size, WordsOf(Low(x, size), DataSize(size))), size, Low(x, size))
         /\ \A n \in Nat : n < Pow2[size] =>
              IsVector(Generic(size, WordsOf(n, DataSize(size))), size, n)
<1>1. \A n \in Nat : n < Pow2[size] =>
              IsVector(Generic(size, WordsOf(n, DataSize(size))), size, n)
  BY DEF IsVector
<1>2. ASSUME NEW x \in Int
      PROVE  IsVector(Generic(size, WordsOf(Low(x, size), DataSize(size))), size, Low(x, size))
  BY <1>1, LowIs
<1>3. ASSUME NEW x \in Int, NEW v, v.size = size
      PROVE  IsVector(MakeGeneric(v, WordsOf(x, DataSize(size))), size, Low(x, size))
  BY <1>2, <1>3, SizeMaskIs DEF MakeGeneric
<1> QED  BY <1>1, <1>2, <1>3

\* A sparse vector made generic stands for the same number.
LEMMA ToGenericIs ==
  ASSUME NEW v, NEW size, NEW n, IsVector(v, size, n), v.kind = "sparse"
  PROVE  /\ ToGeneric(v) = Generic(size, WordsOf(n, DataSize(size)))
         /\ IsVector(ToGeneric(v), size, n) /\ ToGeneric(v).kind = "generic"
<1> DEFINE len == DataSize(size)
           d == [k \in 1 .. len |-> IF k = 1 THEN n ELSE 0]
<1>1. size \in Nat \ {0} /\ size > WordBits /\ n \in Word /\ Val(v) = n /\ v.size = size
      /\ n \in Nat /\ n < Pow2[size]
  BY VectorIs, WordIs
<1>2. len \in Nat
  BY <1>1, DataSizeIs
<1>3. ASSUME NEW k \in 1 .. len, NEW j \in Nat, j < WordBits
      PROVE  BitOf(d[k], j) = BitOf(n, First(k) + j)
  <2>1. CASE k = 1
    BY <2>1, FirstIs
  <2>2. CASE k # 1
    <3>1. First(1) + WordBits <= First(k) /\ First(1) = 0 /\ First(k) \in Nat
      BY <2>2, FirstIs
    <3>2. First(k) + j \in Nat /\ First(k) + j >= WordBits
      BY <1>3, <3>1, WordIs
    <3>3. BitOf(n, First(k) + j) = 0
      BY <1>1, <3>2, WordIsWordAt
    <3>4. d[k] = 0 /\ BitOf(0, j) = 0
      BY <2>2, BitsOfZero
    <3> QED  BY <3>3, <3>4
  <2> QED  BY <2>1, <2>2
<1>4. d \in [1 .. len -> Word]
  BY <1>1, WordIs
<1>5. d = WordsOf(n, len)
  <2> HIDE DEF d, len
  <2> QED  BY <1>1, <1>2, <1>3, <1>4, AreWordsOf
<1>6. ToGeneric(v) = Generic(size, WordsOf(n, len))
  BY <1>1, <1>5 DEF ToGeneric
<1> QED  BY <1>1, <1>6, IsGeneric DEF Generic

-----------------------------------------------------------------------------
(***************************************************************************)
(* Sums and differences.                                                   *)
(***************************************************************************)
LEMMA GenericIs ==
  ASSUME NEW v, NEW size, NEW n, IsVector(v, size, n), v.kind = "generic"
  PROVE  /\ size \in Nat \ {0} /\ size > WordBits /\ v.size = size /\ n \in Nat
         /\ v.data \in Arrays /\ Len(v.data) = DataSize(size) /\ ValueOf(v.data) = n
         /\ Len(v.data) >= 2 /\ v.data = WordsOf(n, DataSize(size))
         /\ DataSize(size) \in Nat
         /\ v = Generic(size, WordsOf(n, DataSize(size)))
<1>1. size \in Nat \ {0} /\ size > WordBits
  BY VectorIs, WordIs
<1>2. DataSize(size) >= 2 /\ DataSize(size) \in Nat
  BY <1>1, DataSizeIs
<1>3. Len(v.data) = DataSize(size)
  BY <1>1, <1>2, VectorIs, WordsOfIs
<1> QED  BY <1>1, <1>2, <1>3, VectorIs

\* Sums and differences of words, masked, are those of the numbers.
LEMMA WordSums ==
  ASSUME NEW v, NEW size, NEW n, IsVector(v, size, n), v.kind = "generic",
         NEW word \in Word
  PROVE  /\ IsVector(AddRuint(v, word), size, Low(n + word, size))
         /\ IsVector(SubRuint(v, word), size, Low(n - word, size))
<1>1. /\ v.data \in Arrays /\ Len(v.data) = DataSize(size) /\ ValueOf(v.data) = n
      /\ Len(v.data) >= 2 /\ size \in Nat \ {0} /\ size > WordBits /\ v.size = size
      /\ n \in Nat
  BY GenericIs
<1>2. <<word>> \in Arrays /\ Len(<<word>>) = 1 /\ ValueOf(<<word>>) = word /\ word \in Nat
  BY SingleWord, WordIs
<1>3. /\ AddLoop(v.data, <<word>>).digits = WordsOf(n + word, DataSize(size))
      /\ SubLoop(v.data, <<word>>).digits = WordsOf(n - word, DataSize(size))
  <2>1. Len(<<word>>) <= Len(v.data)
    BY <1>1, <1>2
  <2> QED  BY <1>1, <1>2, <2>1, AddLoopWords, SubLoopWords
<1>4. n + word \in Int /\ n - word \in Int
  BY <1>1, <1>2
<1> QED  BY <1>1, <1>3, <1>4, IsGeneric DEF AddRuint, SubRuint

\* Sums and differences of arrays, masked, are those of the numbers.
LEMMA GenericSums ==
  ASSUME NEW v, NEW size, NEW n, IsVector(v, size, n), v.kind = "generic",
         NEW w, NEW m, IsVector(w, size, m), w.kind = "generic"
  PROVE  /\ IsVector(MakeGeneric(v, AddLoop(v.data, w.data).digits), size, Low(n + m, size))
         /\ IsVector(MakeGeneric(v, SubLoop(v.data, w.data).digits), size, Low(n - m, size))
<1>1. /\ v.data \in Arrays /\ Len(v.data) = DataSize(size) /\ ValueOf(v.data) = n
      /\ w.data \in Arrays /\ Len(w.data) = DataSize(size) /\ ValueOf(w.data) = m
      /\ DataSize(size) \in Nat
      /\ size \in Nat \ {0} /\ size > WordBits /\ v.size = size
      /\ n \in Nat /\ m \in Nat
  BY GenericIs
<1>3. /\ AddLoop(v.data, w.data).digits = WordsOf(n + m, DataSize(size))
      /\ SubLoop(v.data, w.data).digits = WordsOf(n - m, DataSize(size))
  BY <1>1, AddLoopWords, SubLoopWords
<1>4. n + m \in Int /\ n - m \in Int
  BY <1>1
<1> QED  BY <1>1, <1>3, <1>4, IsGeneric

\* A wrapped sum is less than an operand exactly if it has been wrapped.
LEMMA WrappedSum ==
  ASSUME NEW x \in Word, NEW y \in Word
  PROVE  /\ Wrap(x + y) \in Word
         /\ Wrap(x + y) >= x => Wrap(x + y) = x + y
<1>1. x \in Nat /\ y \in Nat /\ x < Base /\ y < Base /\ Base \in Nat /\ x + y \in Int
  BY WordIs
<1>2. x + y \in Word => Wrap(x + y) = x + y
  BY <1>1, WrapNear
<1>3. x + y >= Base => Wrap(x + y) = x + y - Base
  <2>1. x + y - Base \in Word => Wrap(x + y) = x + y - Base
    BY <1>1, WrapNear
  <2> QED  BY <1>1, <2>1 DEF Word
<1>4. Wrap(x + y) \in Word
  BY <1>1, Wraps
<1> QED  BY <1>1, <1>2, <1>3, <1>4 DEF Word

\* add_bits: the sum modulo the size, also when a sparse one carries.
LEMMA AddBitsIs ==
  ASSUME NEW v, NEW size, NEW n, IsVector(v, size, n),
         NEW w, NEW m, IsVector(w, size, m)
  PROVE  IsVector(AddBits(v, w), size, Low(n + m, size))
<1>1. /\ n \in Nat /\ m \in Nat /\ n + m \in Int /\ m + n = n + m /\ size \in Nat \ {0}
      /\ v.kind \in {"small", "sparse", "generic"}
      /\ w.kind \in {"small", "sparse", "generic"}
      /\ (v.kind = "small" <=> w.kind = "small")
      /\ v.size = size /\ w.size = size
  BY VectorIs
<1>2. CASE v.kind = "small"
  <2>1. size <= WordBits /\ Val(v) = n /\ Val(w) = m
    BY <1>1, <1>2, VectorIs
  <2>2. AddBits(v, w) = MakeSmall(v, Wrap(n + m))
    BY <1>2, <2>1 DEF AddBits
  <2> QED  BY <1>1, <2>1, <2>2, IsSmall
<1>3. CASE v.kind = "sparse" /\ w.kind = "sparse"
  <2>1. /\ Val(v) = n /\ Val(w) = m /\ n \in Word /\ m \in Word /\ size > WordBits
    BY <1>1, <1>3, VectorIs, WordIs
  <2>2. CASE Wrap(n + m) >= n
    <3>1. AddBits(v, w) = Sparse(size, Wrap(n + m))
      BY <1>1, <1>3, <2>1, <2>2 DEF AddBits
    <3>2. Wrap(n + m) = n + m /\ Wrap(n + m) \in Word
      BY <2>1, <2>2, WrappedSum
    <3> QED  BY <1>1, <2>1, <3>1, <3>2, IsSparse
  <2>3. CASE ~ Wrap(n + m) >= n
    <3>1. AddBits(v, w) = AddRuint(ToGeneric(w), n)
      BY <1>1, <1>3, <2>1, <2>3 DEF AddBits
    <3> QED  BY <1>1, <1>3, <2>1, <3>1, WordSums, ToGenericIs
  <2> QED  BY <2>2, <2>3
<1>4. CASE v.kind = "sparse" /\ w.kind = "generic"
  <2>1. Val(v) = n /\ n \in Word
    BY <1>4, VectorIs
  <2>2. AddBits(v, w) = AddRuint(w, n)
    BY <1>4, <2>1 DEF AddBits
  <2> QED  BY <1>1, <1>4, <2>1, <2>2, WordSums
<1>5. CASE v.kind = "generic" /\ w.kind = "sparse"
  <2>1. Val(w) = m /\ m \in Word
    BY <1>5, VectorIs
  <2>2. AddBits(v, w) = AddRuint(v, m)
    BY <1>5, <2>1 DEF AddBits
  <2> QED  BY <1>1, <1>5, <2>1, <2>2, WordSums
<1>6. CASE v.kind = "generic" /\ w.kind = "generic"
  <2>1. AddBits(v, w) = MakeGeneric(v, AddLoop(v.data, w.data).digits)
    BY <1>6 DEF AddBits
  <2> QED  BY <1>6, <2>1, GenericSums
<1> QED  BY <1>1, <1>2, <1>3, <1>4, <1>5, <1>6

\* The difference of a generic vector and any other.
LEMMA SubFromGenericIs ==
  ASSUME NEW v, NEW size, NEW n, IsVector(v, size, n), v.kind = "generic",
         NEW w, NEW m, IsVector(w, size, m)
  PROVE  IsVector(SubFromGeneric(v, w), size, Low(n - m, size))
<1>1. w.kind \in {"sparse", "generic"}
  BY VectorIs
<1>2. CASE w.kind = "sparse"
  <2>1. Val(w) = m /\ m \in Word
    BY <1>2, VectorIs
  <2> QED  BY <1>2, <2>1, WordSums DEF SubFromGeneric
<1>3. CASE w.kind = "generic"
  BY <1>3, GenericSums DEF SubFromGeneric
<1> QED  BY <1>1, <1>2, <1>3

\* sub_bits: the difference modulo the size.
LEMMA SubBitsIs ==
  ASSUME NEW v, NEW size, NEW n, IsVector(v, size, n),
         NEW w, NEW m, IsVector(w, size, m)
  PROVE  IsVector(SubBits(v, w), size, Low(n - m, size))
<1>1. /\ n \in Nat /\ m \in Nat /\ n - m \in Int /\ size \in Nat \ {0}
      /\ v.kind \in {"small", "sparse", "generic"}
      /\ w.kind \in {"small", "sparse", "generic"}
      /\ (v.kind = "small" <=> w.kind = "small")
      /\ v.size = size /\ w.size = size
  BY VectorIs
<1>2. CASE v.kind = "small"
  <2>1. size <= WordBits /\ Val(v) = n /\ Val(w) = m
    BY <1>1, <1>2, VectorIs
  <2>2. SubBits(v, w) = MakeSmall(v, Wrap(n - m))
    BY <1>2, <2>1 DEF SubBits
  <2> QED  BY <1>1, <2>1, <2>2, IsSmall
<1>3. CASE v.kind = "sparse" /\ w.kind = "sparse" /\ Val(w) <= Val(v)
  <2>1. /\ Val(v) = n /\ Val(w) = m /\ n \in Word /\ m \in Word /\ size > WordBits
    BY <1>1, <1>3, VectorIs, WordIs
  <2>2. SubBits(v, w) = Sparse(size, n - m)
    BY <1>1, <1>3, <2>1 DEF SubBits
  <2>3. n - m \in Word
    <3>1. m <= n
      BY <1>3, <2>1
    <3> QED  BY <2>1, <3>1, BaseAssumption DEF Word
  <2> QED  BY <1>1, <2>1, <2>2, <2>3, IsSparse
<1>4. CASE v.kind = "sparse" /\ ~ (w.kind = "sparse" /\ Val(w) <= Val(v))
  <2>1. SubBits(v, w) = SubFromGeneric(ToGeneric(v), w)
    BY <1>4 DEF SubBits
  <2> QED  BY <1>4, <2>1, SubFromGenericIs, ToGenericIs
<1>5. CASE v.kind = "generic"
  <2>1. SubBits(v, w) = SubFromGeneric(v, w)
    BY <1>5 DEF SubBits
  <2> QED  BY <1>5, <2>1, SubFromGenericIs
<1> QED  BY <1>1, <1>2, <1>3, <1>4, <1>5

-----------------------------------------------------------------------------
(***************************************************************************)
(* Bit by bit.                                                             *)
(***************************************************************************)

(***************************************************************************)
(* Bit by bit.                                                             *)
(***************************************************************************)

LEMMA BitsAbove ==
  ASSUME NEW size \in Nat, NEW n \in Nat, n < Pow2[size]
  PROVE  \A k \in Nat : k >= size => BitOf(n, k) = 0
BY BitsOfSmall

\* Words are combined as the numbers are.
LEMMA CombinedAt ==
  ASSUME NEW op \in BitOps, op[<<0, 0>>] = 0, NEW size \in Nat,
         NEW n \in Nat, n < Pow2[size], NEW m \in Nat, m < Pow2[size], NEW p \in Nat
  PROVE  Combined(op, WordBits, WordAt(n, p), WordAt(m, p)) = WordAt(Combined(op, size, n, m), p)
<1> DEFINE x == WordAt(n, p)
           y == WordAt(m, p)
           r == Combined(op, size, n, m)
           z == Combined(op, WordBits, x, y)
<1>0. n \in Int /\ m \in Int
  OBVIOUS
<1>1. /\ x \in Int /\ y \in Int
      /\ \A k \in Nat : k < WordBits => BitOf(x, k) = BitOf(n, p + k)
      /\ \A k \in Nat : k < WordBits => BitOf(y, k) = BitOf(m, p + k)
  <2>1. x \in Word /\ y \in Word
    BY <1>0, WordAtIs
  <2>2. \A k \in Nat : k < WordBits => BitOf(x, k) = BitOf(n, p + k)
    BY <1>0, WordAtIs, Zenon
  <2>3. \A k \in Nat : k < WordBits => BitOf(y, k) = BitOf(m, p + k)
    BY <1>0, WordAtIs, Zenon
  <2> HIDE DEF x, y
  <2> QED  BY <2>1, <2>2, <2>3, WordIs
<1>2. r \in Nat /\ \A k \in Nat : BitOf(r, k) =
                     IF k < size THEN op[<<BitOf(n, k), BitOf(m, k)>>] ELSE 0
  <2>1. r \in Nat
    BY <1>0, CombinedBits
  <2>2. ASSUME NEW k \in Nat
        PROVE  BitOf(r, k) = IF k < size THEN op[<<BitOf(n, k), BitOf(m, k)>>] ELSE 0
    BY <1>0, CombinedBits
  <2> QED  BY <2>1, <2>2
<1> HIDE DEF x, y, r
<1>3. z \in Word /\ \A k \in Nat : k < WordBits => BitOf(z, k) = op[<<BitOf(x, k), BitOf(y, k)>>]
  BY <1>1, CombinedWord
<1> HIDE DEF z
<1>4. ASSUME NEW k \in Nat, k < WordBits PROVE BitOf(z, k) = BitOf(r, p + k)
  <2>1. BitOf(z, k) = op[<<BitOf(n, p + k), BitOf(m, p + k)>>] /\ p + k \in Nat
    BY <1>1, <1>3, <1>4
  <2>2. p + k >= size => BitOf(n, p + k) = 0 /\ BitOf(m, p + k) = 0
    BY <2>1, BitsAbove
  <2> QED  BY <1>2, <2>1, <2>2
<1> QED  BY <1>2, <1>3, <1>4, IsWordAt DEF x, y, z, r

\* Numbers of at most a word are combined in one.
LEMMA CombinedInWord ==
  ASSUME NEW op \in BitOps, op[<<0, 0>>] = 0, NEW size \in Nat,
         NEW n \in Nat, n < Pow2[size], NEW m \in Nat, m < Pow2[size],
         NEW x \in Word, NEW y \in Word,
         \A k \in Nat : k < WordBits => BitOf(x, k) = BitOf(n, k) /\ BitOf(y, k) = BitOf(m, k),
         \A k \in Nat : k >= WordBits => op[<<BitOf(n, k), BitOf(m, k)>>] = 0
  PROVE  Combined(op, WordBits, x, y) = Combined(op, size, n, m)
<1> DEFINE z == Combined(op, WordBits, x, y)
           r == Combined(op, size, n, m)
<1>1. x \in Int /\ y \in Int /\ WordBits \in Nat
  BY WordIs
<1>2. z \in Word /\ z \in Nat /\ z < Pow2[WordBits]
      /\ \A k \in Nat : BitOf(z, k) =
                     IF k < WordBits THEN op[<<BitOf(x, k), BitOf(y, k)>>] ELSE 0
  BY <1>1, CombinedBits, CombinedWord
<1>3. /\ r \in Nat /\ r < Pow2[size]
      /\ \A k \in Nat : BitOf(r, k) = IF k < size THEN op[<<BitOf(n, k), BitOf(m, k)>>] ELSE 0
  BY CombinedBits
<1> HIDE DEF z, r
<1>4. ASSUME NEW k \in Nat PROVE BitOf(z, k) = BitOf(r, k)
  <2>1. BitOf(z, k) = op[<<BitOf(n, k), BitOf(m, k)>>]
    <3>1. CASE k < WordBits
      BY <1>2, <3>1
    <3>2. CASE ~ k < WordBits
      <4>1. k >= WordBits
        BY <1>1, <3>2
      <4> QED  BY <1>2, <3>2, <4>1
    <3> QED  BY <3>1, <3>2
  <2>2. k >= size => BitOf(n, k) = 0 /\ BitOf(m, k) = 0
    BY BitsAbove
  <2> QED  BY <1>3, <2>1, <2>2
<1>5. PICK s \in Nat : z < Pow2[s] /\ r < Pow2[s]
  <2>1. CASE size <= WordBits
    <3>1. Pow2[size] \in Nat /\ Pow2[WordBits] \in Nat /\ Pow2[size] <= Pow2[WordBits]
      BY <1>1, <2>1, Pow2Monotone
    <3> QED  BY <1>1, <1>2, <1>3, <3>1
  <2>2. CASE WordBits <= size
    <3>1. Pow2[size] \in Nat /\ Pow2[WordBits] \in Nat /\ Pow2[WordBits] <= Pow2[size]
      BY <1>1, <2>2, Pow2Monotone
    <3> QED  BY <1>1, <1>2, <1>3, <3>1
  <2> QED  BY <1>1, <2>1, <2>2
<1>6. z = r
  BY <1>2, <1>3, <1>4, <1>5, SameNumber
<1> QED  BY <1>6 DEF z, r

\* A number with the combined bits is the combined number.
LEMMA IsCombined ==
  ASSUME NEW op \in BitOps, NEW size \in Nat, NEW n \in Int, NEW m \in Int
  PROVE  Combined(op, size, n, m) \in Nat /\ Combined(op, size, n, m) < Pow2[size]
BY CombinedBits

\* One-word vectors combined.
LEMMA CombinedOneWord ==
  ASSUME NEW op \in BitOps, op[<<0, 0>>] = 0,
         NEW v, NEW size, NEW n, IsVector(v, size, n),
         NEW w, NEW m, IsVector(w, size, m), OneWord(v, w)
  PROVE  IsVector([v EXCEPT !.data = <<Combined(op, WordBits, Val(v), Val(w))>>],
                  size, Combined(op, size, n, m))
<1> DEFINE z == Combined(op, WordBits, n, m)
           r == Combined(op, size, n, m)
<1>1. /\ Val(v) = n /\ Val(w) = m /\ n \in Word /\ m \in Word
      /\ size \in Nat \ {0} /\ n \in Nat /\ n < Pow2[size] /\ m \in Nat /\ m < Pow2[size]
      /\ v.kind \in {"small", "sparse"}
      /\ v.kind = "small" => v = Small(size, n)
      /\ v.kind = "sparse" => v = Sparse(size, n)
      /\ v.kind = "small" <=> size <= WordBits
  BY VectorIs DEF OneWord
<1>2. r = z
  <2>1. \A k \in Nat : k >= WordBits => op[<<BitOf(n, k), BitOf(m, k)>>] = 0
    BY <1>1, WordIsWordAt
  <2> QED  BY <1>1, <2>1, CombinedInWord
<1>3. z \in Word
  BY <1>1, CombinedWord
<1>4. r \in Nat /\ r < Pow2[size]
  BY <1>1, IsCombined
<1> DEFINE e == [v EXCEPT !.data = <<Combined(op, WordBits, Val(v), Val(w))>>]
<1>5. e = [v EXCEPT !.data = <<z>>]
  BY <1>1
<1> HIDE DEF z, r, e
<1>6. v.kind = "small" => e = Small(size, z) /\ size <= WordBits
  BY <1>1, <1>5 DEF Small
<1>7. v.kind = "sparse" => e = Sparse(size, z) /\ size > WordBits
  BY <1>1, <1>5, WordIs DEF Sparse
<1>8. IsVector(e, size, r)
  BY <1>1, <1>2, <1>3, <1>4, <1>6, <1>7 DEF IsVector
<1> QED  BY <1>8 DEF e, r

\* Arrays combined word by word, or in word 0 with a sparse vector.
LEMMA CombinedGeneric ==
  ASSUME NEW op \in BitOps, op[<<0, 0>>] = 0,
         NEW v, NEW size, NEW n, IsVector(v, size, n), v.kind = "generic",
         NEW w, NEW m, IsVector(w, size, m)
  PROVE  /\ w.kind = "generic" =>
              IsVector(Generic(v.size, [k \in DOMAIN v.data |->
                                          Combined(op, WordBits, v.data[k], w.data[k])]),
                       size, Combined(op, size, n, m))
         /\ w.kind = "sparse" /\ op[<<1, 0>>] = 1 =>
              IsVector(Generic(v.size, [v.data EXCEPT ![1] = Combined(op, WordBits, @, Val(w))]),
                       size, Combined(op, size, n, m))
<1> DEFINE r == Combined(op, size, n, m)
           len == DataSize(size)
           C(a, b) == Combined(op, WordBits, a, b)
<1>1. /\ size \in Nat \ {0} /\ size > WordBits /\ v.size = size
      /\ n \in Nat /\ n < Pow2[size] /\ m \in Nat /\ m < Pow2[size]
      /\ v.data = WordsOf(n, len) /\ len \in Nat
      /\ w.kind = "generic" => w.data = WordsOf(m, len)
      /\ w.kind = "sparse" => Val(w) = m /\ m \in Word /\ w = Sparse(size, m)
  BY GenericIs, VectorIs
<1>2. r \in Nat /\ r < Pow2[size]
  BY <1>1, IsCombined
<1>3. ASSUME NEW k \in 1 .. len
      PROVE  /\ WordsOf(n, len)[k] = WordAt(n, First(k))
             /\ WordsOf(m, len)[k] = WordAt(m, First(k))
             /\ C(WordAt(n, First(k)), WordAt(m, First(k))) = WordAt(r, First(k))
  <2>1. First(k) \in Nat
    BY <1>1, FirstIs
  <2>2. C(WordAt(n, First(k)), WordAt(m, First(k))) = WordAt(r, First(k))
    BY <1>1, <2>1, CombinedAt
  <2> QED  BY <2>2 DEF WordsOf
<1>4. DOMAIN WordsOf(n, len) = 1 .. len
  BY DEF WordsOf
<1> HIDE DEF r, len, C
<1>5. IsVector(Generic(size, WordsOf(r, len)), size, r)
  BY <1>1, <1>2, IsGeneric DEF len
<1>6. ASSUME w.kind = "generic"
      PROVE  IsVector(Generic(v.size, [k \in DOMAIN v.data |-> C(v.data[k], w.data[k])]), size, r)
  <2>1. [k \in DOMAIN v.data |-> C(v.data[k], w.data[k])] = [k \in 1 .. len |-> WordAt(r, First(k))]
    BY <1>1, <1>3, <1>4, <1>6
  <2> QED  BY <1>1, <1>5, <2>1 DEF WordsOf
<1>7. ASSUME w.kind = "sparse", op[<<1, 0>>] = 1
      PROVE  IsVector(Generic(v.size, [v.data EXCEPT ![1] = C(@, Val(w))]), size, r)
  <2>1. ToGeneric(w).data = WordsOf(m, len) /\ m \in Word /\ Val(w) = m
    BY <1>1, <1>7, ToGenericIs DEF Generic, len
  <2>2. ASSUME NEW k \in 1 .. len, k # 1
        PROVE  WordAt(n, First(k)) = WordAt(r, First(k))
    <3>1. First(1) + WordBits <= First(k) /\ First(1) = 0 /\ First(k) \in Nat
      BY <1>1, <2>2, FirstIs
    <3>2. /\ WordAt(n, First(k)) \in Word
          /\ \A j \in Nat : j < WordBits => BitOf(WordAt(n, First(k)), j) = BitOf(n, First(k) + j)
      BY <1>1, <3>1, WordAtIs
    <3>3. ASSUME NEW j \in Nat, j < WordBits
          PROVE  BitOf(n, First(k) + j) = BitOf(r, First(k) + j)
      <4>1. First(k) + j \in Nat /\ First(k) + j >= WordBits
        BY <3>1, <3>3, WordIs
      <4>2. BitOf(m, First(k) + j) = 0
        BY <2>1, <4>1, WordIsWordAt
      <4>3. BitOf(n, First(k) + j) \in {0, 1}
        BY <1>1, <4>1, BitIs
      <4>4. op[<<BitOf(n, First(k) + j), BitOf(m, First(k) + j)>>] = BitOf(n, First(k) + j)
        BY <1>7, <4>2, <4>3
      <4>5. First(k) + j >= size => BitOf(n, First(k) + j) = 0
        BY <1>1, <4>1, BitsAbove
      <4>6. BitOf(r, First(k) + j) =
              IF First(k) + j < size
              THEN op[<<BitOf(n, First(k) + j), BitOf(m, First(k) + j)>>] ELSE 0
        BY <1>1, <4>1, CombinedBits DEF r
      <4> QED  BY <1>1, <4>1, <4>4, <4>5, <4>6
    <3> QED  BY <1>2, <3>1, <3>2, <3>3, IsWordAt
  <2>3. WordAt(m, First(1)) = m
    BY <2>1, WordIsWordAt, FirstIs
  <2>4. [v.data EXCEPT ![1] = C(@, Val(w))] = [k \in 1 .. len |-> WordAt(r, First(k))]
    <3> DEFINE d == WordsOf(n, len)
    <3>1. [d EXCEPT ![1] = C(d[1], m)] = [k \in 1 .. len |-> IF k = 1 THEN C(d[1], m) ELSE d[k]]
      BY <1>4, WordsOfIs, <1>1
    <3>2. ASSUME NEW k \in 1 .. len
          PROVE  (IF k = 1 THEN C(d[1], m) ELSE d[k]) = WordAt(r, First(k))
      BY <1>3, <2>2, <2>3
    <3> HIDE DEF d
    <3>3. [k \in 1 .. len |-> IF k = 1 THEN C(d[1], m) ELSE d[k]]
            = [k \in 1 .. len |-> WordAt(r, First(k))]
      BY <3>2
    <3> QED  BY <1>1, <2>1, <3>1, <3>3 DEF d
  <2> QED  BY <1>1, <1>5, <2>4 DEF WordsOf
<1> QED  BY <1>6, <1>7 DEF r, C

\* xor.
LEMMA XorBitsIs ==
  ASSUME NEW v, NEW size, NEW n, IsVector(v, size, n),
         NEW w, NEW m, IsVector(w, size, m)
  PROVE  IsVector(XorBits(v, w), size, Combined(XorBit, size, n, m))
<1>1. XorBit \in BitOps /\ XorBit[<<0, 0>>] = 0 /\ XorBit[<<1, 0>>] = 1
  BY BitOpsAre, BitwiseOps
<1>2. v.kind \in {"small", "sparse", "generic"} /\ w.kind \in {"small", "sparse", "generic"}
      /\ (v.kind = "small" <=> w.kind = "small")
  BY VectorIs
<1>3. CASE OneWord(v, w)
  <2>1. XorBits(v, w) = [v EXCEPT !.data = <<Combined(XorBit, WordBits, Val(v), Val(w))>>]
    BY <1>3 DEF XorBits, ^^
  <2> QED  BY <1>1, <1>3, <2>1, CombinedOneWord
<1>4. CASE ~ OneWord(v, w)
  <2> DEFINE g == IF v.kind = "sparse" THEN ToGeneric(v) ELSE v
  <2>1. IsVector(g, size, n) /\ g.kind = "generic" /\ w.kind \in {"sparse", "generic"}
    BY <1>2, <1>4, ToGenericIs DEF OneWord
  <2>2. XorBits(v, w) =
          Generic(g.size,
            IF w.kind = "sparse" THEN [g.data EXCEPT ![1] = Combined(XorBit, WordBits, @, Val(w))]
            ELSE [k \in DOMAIN g.data |-> Combined(XorBit, WordBits, g.data[k], w.data[k])])
    BY <1>4 DEF XorBits, WordByWord, ^^
  <2> HIDE DEF g
  <2> QED  BY <1>1, <2>1, <2>2, CombinedGeneric
<1> QED  BY <1>3, <1>4

\* or.
LEMMA OrBitsIs ==
  ASSUME NEW v, NEW size, NEW n, IsVector(v, size, n),
         NEW w, NEW m, IsVector(w, size, m)
  PROVE  IsVector(OrBits(v, w), size, Combined(OrBit, size, n, m))
<1>1. OrBit \in BitOps /\ OrBit[<<0, 0>>] = 0 /\ OrBit[<<1, 0>>] = 1
  BY BitOpsAre, BitwiseOps
<1>2. v.kind \in {"small", "sparse", "generic"} /\ w.kind \in {"small", "sparse", "generic"}
      /\ (v.kind = "small" <=> w.kind = "small")
  BY VectorIs
<1>3. CASE OneWord(v, w)
  <2>1. OrBits(v, w) = [v EXCEPT !.data = <<Combined(OrBit, WordBits, Val(v), Val(w))>>]
    BY <1>3 DEF OrBits, |
  <2> QED  BY <1>1, <1>3, <2>1, CombinedOneWord
<1>4. CASE ~ OneWord(v, w)
  <2> DEFINE g == IF v.kind = "sparse" THEN ToGeneric(v) ELSE v
  <2>1. IsVector(g, size, n) /\ g.kind = "generic" /\ w.kind \in {"sparse", "generic"}
    BY <1>2, <1>4, ToGenericIs DEF OneWord
  <2>2. OrBits(v, w) =
          Generic(g.size,
            IF w.kind = "sparse" THEN [g.data EXCEPT ![1] = Combined(OrBit, WordBits, @, Val(w))]
            ELSE [k \in DOMAIN g.data |-> Combined(OrBit, WordBits, g.data[k], w.data[k])])
    BY <1>4 DEF OrBits, WordByWord, |
  <2> HIDE DEF g
  <2> QED  BY <1>1, <2>1, <2>2, CombinedGeneric
<1> QED  BY <1>3, <1>4

\* and: the result is sparse if an operand is.
LEMMA AndBitsIs ==
  ASSUME NEW v, NEW size, NEW n, IsVector(v, size, n),
         NEW w, NEW m, IsVector(w, size, m)
  PROVE  IsVector(AndBits(v, w), size, Combined(AndBit, size, n, m))
<1>1. AndBit \in BitOps /\ AndBit[<<0, 0>>] = 0 /\ AndBit[<<1, 0>>] = 0 /\ AndBit[<<0, 1>>] = 0
  BY BitOpsAre, BitwiseOps
<1>2. v.kind \in {"small", "sparse", "generic"} /\ w.kind \in {"small", "sparse", "generic"}
      /\ (v.kind = "small" <=> w.kind = "small")
      /\ n \in Nat /\ m \in Nat /\ size \in Nat \ {0} /\ n < Pow2[size] /\ m < Pow2[size]
  BY VectorIs
<1>3. CASE OneWord(v, w)
  <2>1. AndBits(v, w) = [v EXCEPT !.data = <<Combined(AndBit, WordBits, Val(v), Val(w))>>]
    BY <1>3 DEF AndBits, OneWord, &
  <2> QED  BY <1>1, <1>3, <2>1, CombinedOneWord
<1>4. CASE v.kind = "generic" /\ w.kind = "generic"
  <2>1. AndBits(v, w) =
          Generic(v.size, [k \in DOMAIN v.data |-> Combined(AndBit, WordBits, v.data[k], w.data[k])])
    BY <1>4 DEF AndBits, WordByWord, &
  <2> QED  BY <1>1, <1>4, <2>1, CombinedGeneric
<1>5. ASSUME NEW x, NEW a, NEW b, IsVector(x, size, a), x.kind = "generic"
      PROVE  /\ size > WordBits /\ Val(x) \in Word /\ a \in Nat
             /\ \A k \in Nat : k < WordBits => BitOf(Val(x), k) = BitOf(a, k)
  <2>1. a \in Nat /\ x.data = WordsOf(a, DataSize(size)) /\ DataSize(size) \in Nat
        /\ Len(x.data) >= 2 /\ size > WordBits
    BY <1>5, GenericIs
  <2>2. 1 \in 1 .. DataSize(size)
    BY <2>1, WordsOfIs
  <2>3. Val(x) = WordAt(a, 0)
    BY <2>1, <2>2, FirstIs DEF Val, WordsOf
  <2> QED  BY <2>1, <2>3, WordAtIs
<1>6. ASSUME NEW x, NEW a, IsVector(x, size, a), x.kind = "sparse"
      PROVE  /\ Val(x) \in Word /\ Val(x) = a /\ a \in Nat /\ x = Sparse(size, a)
             /\ \A k \in Nat : k >= WordBits => BitOf(a, k) = 0
             /\ \A z : [x EXCEPT !.data = <<z>>] = Sparse(size, z)
  <2>1. a \in Word /\ Val(x) = a /\ x = Sparse(size, a) /\ a \in Nat
    BY <1>6, VectorIs
  <2> QED  BY <2>1, WordIsWordAt DEF Sparse
<1> DEFINE z == Combined(AndBit, WordBits, Val(v), Val(w))
           r == Combined(AndBit, size, n, m)
<1>7. ASSUME \/ v.kind = "sparse" /\ w.kind = "generic"
             \/ v.kind = "generic" /\ w.kind = "sparse"
      PROVE  AndBits(v, w) = Sparse(size, z) /\ z = r /\ z \in Word /\ size > WordBits
  <2>1. AndBits(v, w) = Sparse(size, z) /\ size > WordBits
    <3>1. CASE v.kind = "sparse" /\ w.kind = "generic"
      BY <3>1, <1>5, <1>6 DEF AndBits, &
    <3>2. CASE v.kind = "generic" /\ w.kind = "sparse"
      BY <3>2, <1>5, <1>6 DEF AndBits, &
    <3> QED  BY <1>7, <3>1, <3>2
  <2>2. /\ Val(v) \in Word /\ Val(w) \in Word
        /\ \A k \in Nat : k < WordBits => BitOf(Val(v), k) = BitOf(n, k)
        /\ \A k \in Nat : k < WordBits => BitOf(Val(w), k) = BitOf(m, k)
    BY <1>5, <1>6, <1>7
  <2>3. ASSUME NEW k \in Nat, k >= WordBits
        PROVE  AndBit[<<BitOf(n, k), BitOf(m, k)>>] = 0
    <3>1. BitOf(n, k) \in {0, 1} /\ BitOf(m, k) \in {0, 1}
      <4>1. n \in Int /\ m \in Int
        BY <1>2
      <4> QED  BY <4>1, BitIs
    <3>2. BitOf(n, k) = 0 \/ BitOf(m, k) = 0
      BY <1>6, <1>7, <2>3
    <3> QED  BY <3>1, <3>2, BitwiseOps
  <2>4. z = r
    BY <1>1, <1>2, <2>2, <2>3, CombinedInWord
  <2>5. z \in Word
    BY <1>1, <2>2, CombinedWord, WordIs
  <2> QED  BY <2>1, <2>4, <2>5
<1>8. CASE ~ OneWord(v, w) /\ ~ (v.kind = "generic" /\ w.kind = "generic")
  <2>1. \/ v.kind = "sparse" /\ w.kind = "generic"
        \/ v.kind = "generic" /\ w.kind = "sparse"
    BY <1>2, <1>8 DEF OneWord
  <2> QED  BY <1>2, <1>7, <2>1, IsSparse
<1> QED  BY <1>3, <1>4, <1>8

\* invert: -1 - n, modulo the size.
LEMMA InvertIs ==
  ASSUME NEW v, NEW size, NEW n, IsVector(v, size, n)
  PROVE  IsVector(Invert(v), size, Low(-1 - n, size))
<1>1. n \in Nat /\ -1 - n \in Int /\ size \in Nat \ {0} /\ v.size = size
      /\ v.kind \in {"small", "sparse", "generic"}
  BY VectorIs
<1>2. CASE v.kind = "small"
  <2>1. size <= WordBits /\ Val(v) = n /\ n \in Word
    BY <1>1, <1>2, VectorIs
  <2>2. Complement(n) = Wrap(-1 - n)
    <3>1. /\ Complement(n) \in Word
          /\ \A k \in Nat : k < WordBits => BitOf(Complement(n), k) = 1 - BitOf(n, k)
      BY <2>1, ComplementBits
    <3>2. \A k \in Nat : k < WordBits => BitOf(Complement(n), k) = BitOf(-1 - n, 0 + k)
      BY <1>1, <3>1, BitsOfComplement
    <3>3. Complement(n) = WordAt(-1 - n, 0)
      BY <1>1, <3>1, <3>2, IsWordAt
    <3> QED  BY <1>1, <3>3, WrapIsLow
  <2>3. Invert(v) = MakeSmall(v, Wrap(-1 - n))
    BY <1>2, <2>1, <2>2 DEF Invert
  <2> QED  BY <1>1, <2>1, <2>3, IsSmall
<1>3. CASE v.kind # "small"
  <2> DEFINE g == IF v.kind = "sparse" THEN ToGeneric(v) ELSE v
             len == DataSize(size)
             d == [k \in DOMAIN g.data |-> Complement(g.data[k])]
  <2>1. IsVector(g, size, n) /\ g.kind = "generic"
    BY <1>1, <1>3, ToGenericIs
  <2>2. Invert(v) = MakeGeneric(g, d)
    BY <1>3 DEF Invert
  <2> HIDE DEF g
  <2>3. g.data = WordsOf(n, len) /\ len \in Nat /\ g.size = size /\ size > WordBits
    BY <2>1, GenericIs
  <2>4. DOMAIN d = 1 .. len /\ \A k \in 1 .. len : d[k] = Complement(WordAt(n, First(k)))
    BY <2>3 DEF WordsOf
  <2>5. ASSUME NEW k \in 1 .. len
        PROVE  /\ d[k] \in Word
               /\ \A j \in Nat : j < WordBits => BitOf(d[k], j) = BitOf(-1 - n, First(k) + j)
    <3>1. First(k) \in Nat
      BY <2>3, FirstIs
    <3>2. WordAt(n, First(k)) \in Word
          /\ \A j \in Nat : j < WordBits => BitOf(WordAt(n, First(k)), j) = BitOf(n, First(k) + j)
      BY <1>1, <3>1, WordAtIs
    <3>3. /\ d[k] \in Word
          /\ \A j \in Nat : j < WordBits => BitOf(d[k], j) = 1 - BitOf(WordAt(n, First(k)), j)
      BY <2>4, <3>2, ComplementBits
    <3>4. ASSUME NEW j \in Nat PROVE BitOf(-1 - n, First(k) + j) = 1 - BitOf(n, First(k) + j)
      BY <1>1, <3>1, BitsOfComplement
    <3> QED  BY <3>2, <3>3, <3>4
  <2>6. d = WordsOf(-1 - n, len)
    <3>1. d \in [1 .. len -> Word]
      BY <2>4, <2>5
    <3>2. \A k \in 1 .. len : \A j \in Nat : j < WordBits => BitOf(d[k], j) = BitOf(-1 - n, First(k) + j)
      BY <2>5
    <3> HIDE DEF d, len
    <3> QED  BY <1>1, <2>3, <3>1, <3>2, AreWordsOf
  <2> HIDE DEF d
  <2> QED  BY <1>1, <2>2, <2>3, <2>6, IsGeneric
<1> QED  BY <1>2, <1>3

-----------------------------------------------------------------------------
(***************************************************************************)
(* Shifts to the right and parts.                                          *)
(***************************************************************************)

(***************************************************************************)
(* Parts.                                                                  *)
(***************************************************************************)

\* The words from bit i of an array on.
LEMMA WordsFromIs ==
  ASSUME NEW n \in Nat, NEW len \in Nat, n < Pow2[WordBits * len],
         NEW i \in Nat, NEW c \in Nat
  PROVE  /\ Up(n, i) \in Nat
         /\ WordsFrom(WordsOf(n, len), i, c) = WordsOf(Up(n, i), c)
<1> DEFINE d == WordsOf(n, len)
           word(k) == IF k \in DOMAIN d THEN d[k] ELSE 0
           low == WordIndex(i)
           b == BitIndex(i)
<1>1. /\ low \in Nat /\ b \in Nat /\ b < WordBits /\ i = WordBits * low + b
      /\ WordBits * low \in Nat /\ WordBits \in Nat /\ WordBits * len \in Nat
  <2>1. /\ low \in Nat /\ b \in Nat /\ b < WordBits /\ i = WordBits * low + b
        /\ WordBits * low \in Nat
    BY IndexIs
  <2>2. WordBits \in Nat
    BY WordIs
  <2> HIDE DEF low, b
  <2> QED  BY <2>1, <2>2
<1> HIDE DEF low, b
<1>2. ASSUME NEW k \in Nat \ {0} PROVE word(k) = WordAt(n, First(k))
  <2>1. CASE k \in 1 .. len
    BY <2>1 DEF WordsOf
  <2>2. CASE k \notin 1 .. len
    <3>1. word(k) = 0
      BY <2>2 DEF WordsOf
    <3>2. First(k) \in Nat
      BY FirstIs
    <3>3. WordBits * len <= First(k)
      <4>1. len <= k - 1
        BY <2>2
      <4> QED  BY <1>1, <4>1, ProductMonotone DEF First
    <3>4. ASSUME NEW j \in Nat, j < WordBits PROVE BitOf(0, j) = BitOf(n, First(k) + j)
      <4>1. First(k) + j \in Nat /\ First(k) + j >= WordBits * len
        BY <1>1, <3>2, <3>3
      <4>2. BitOf(n, First(k) + j) = 0
        BY <1>1, <4>1, BitsAbove
      <4> QED  BY <4>2, BitsOfZero
    <3>5. 0 \in Word
      BY BaseAssumption DEF Word
    <3> QED  BY <3>1, <3>2, <3>4, <3>5, IsWordAt
  <2> QED  BY <2>1, <2>2
<1> HIDE DEF word, d
<1>3. Up(n, i) \in Nat
  <2>1. Shr(n, i) = Up(n, i) /\ Shr(n, i) \in Nat
    BY ShrBits
  <2> QED  BY <2>1
<1>4. ASSUME NEW k \in 1 .. c
      PROVE  (Shr(word(k + low), b) | Shl(word(k + low + 1), WordBits - b))
               = WordAt(Up(n, i), First(k))
  <2>1. k + low \in Nat \ {0} /\ k + low + 1 \in Nat \ {0} /\ k \in Nat \ {0}
    BY <1>1
  <2>2. First(k) \in Nat /\ First(k + low) \in Nat
        /\ First(k + low + 1) = First(k + low) + WordBits
    BY <2>1, FirstIs
  <2>3. First(k + low) = First(k) + WordBits * low
    <3>1. WordBits * ((k + low) - 1) = WordBits * (k - 1) + WordBits * low
      BY <1>1
    <3>2. First(k + low) = WordBits * ((k + low) - 1)
      BY Zenon DEF First
    <3>3. First(k) = WordBits * (k - 1)
      BY Zenon DEF First
    <3> QED  BY <3>1, <3>2, <3>3
  <2>4. (Shr(WordAt(n, First(k + low)), b) | Shl(WordAt(n, First(k + low) + WordBits), WordBits - b))
          = WordAt(n, First(k + low) + b)
    BY <1>1, <2>2, ShiftedWords
  <2>5. First(k + low) + b = i + First(k)
    BY <1>1, <2>2, <2>3
  <2>6. WordAt(Up(n, i), First(k)) = WordAt(n, i + First(k))
    BY <2>2, HalvesOfHalves DEF WordAt
  <2> QED  BY <1>2, <2>1, <2>2, <2>4, <2>5, <2>6
<1>5. WordsFrom(d, i, c) = [k \in 1 .. c |-> Shr(word(k + low), b)
                                             | Shl(word(k + low + 1), WordBits - b)]
  BY DEF WordsFrom, word, low, b
<1>6. WordsFrom(d, i, c) = WordsOf(Up(n, i), c)
  BY <1>4, <1>5 DEF WordsOf
<1> QED  BY <1>3, <1>6 DEF d

\* The number of a vector is that of its words.
LEMMA NumberInWords ==
  ASSUME NEW size \in Nat \ {0}, NEW n \in Nat, n < Pow2[size]
  PROVE  /\ DataSize(size) \in Nat \ {0} /\ n < Pow2[WordBits * DataSize(size)]
         /\ size <= WordBits * DataSize(size) /\ WordBits * DataSize(size) \in Nat
<1> DEFINE len == DataSize(size)
           p == WordBits * len
<1>1. len \in Nat \ {0} /\ size <= First(len) + WordBits
  BY DataSizeIs
<1>2. First(len + 1) = First(len) + WordBits /\ First(len + 1) = p /\ p \in Nat
  <2>1. First(len + 1) = First(len) + WordBits /\ First(len + 1) = WordBits * len
        /\ First(len) \in Nat
    BY <1>1, FirstIs
  <2> QED  BY <2>1, WordIs
<1> HIDE DEF len, p
<1>3. Pow2[size] <= Pow2[p] /\ Pow2[p] \in Nat /\ Pow2[size] \in Nat
  BY <1>1, <1>2, Pow2Monotone
<1> QED  BY <1>1, <1>2, <1>3 DEF len, p

\* A number that is shifted to the right still fits.
LEMMA UpIs ==
  ASSUME NEW size \in Nat, NEW n \in Nat, n < Pow2[size], NEW i \in Nat
  PROVE  /\ Up(n, i) \in Nat /\ Up(n, i) <= n /\ Up(n, i) < Pow2[size]
         /\ Low(Up(n, i), size) = Up(n, i)
         /\ i >= size => Up(n, i) = 0
         /\ i <= size => Up(n, i) < Pow2[size - i]
         /\ n \in Word => Up(n, i) \in Word
         /\ Shr(n, i) = Up(n, i)
<1>1. Up(n, i) \in Nat /\ Up(n, i) <= n /\ Shr(n, i) = Up(n, i)
      /\ (n \in Word => Up(n, i) \in Word)
  BY ShrBits
<1>2. Pow2[size] \in Nat
  BY Pow2Unfold
<1>3. Up(n, i) < Pow2[size]
  BY <1>1, <1>2
<1>4. Low(Up(n, i), size) = Up(n, i)
  BY <1>1, <1>3, FewBits
<1>5. i >= size => Up(n, i) = 0
  <2>1. i >= size => Pow2[size] <= Pow2[i] /\ Pow2[i] \in Nat
    BY Pow2Monotone
  <2> QED  BY <1>2, <2>1, FewBits
<1>6. i <= size => Up(n, i) < Pow2[size - i]
  <2>1. i <= size => size - i \in Nat /\ i + (size - i) = size
    OBVIOUS
  <2> QED  BY <2>1, FewerBits
<1> QED  BY <1>1, <1>3, <1>4, <1>5, <1>6

\* rshift: n divided by a power of two, rounded down.
LEMMA RshiftIs ==
  ASSUME NEW v, NEW size, NEW n, IsVector(v, size, n), NEW i \in Nat
  PROVE  IsVector(Rshift(v, i), size, Up(n, i)) /\ Low(Up(n, i), size) = Up(n, i)
<1>1. /\ size \in Nat \ {0} /\ n \in Nat /\ n < Pow2[size] /\ v.size = size
      /\ v.kind \in {"small", "sparse", "generic"}
      /\ WordBits \in Nat
  BY VectorIs, WordIs
<1>2. /\ Up(n, i) \in Nat /\ Up(n, i) < Pow2[size] /\ Low(Up(n, i), size) = Up(n, i)
      /\ i >= size => Up(n, i) = 0
      /\ n \in Word => Up(n, i) \in Word
      /\ Shr(n, i) = Up(n, i)
  BY <1>1, UpIs
<1>3. CASE v.kind = "small"
  <2>1. Val(v) = n /\ size <= WordBits
    BY <1>3, VectorIs
  <2>2. Rshift(v, i) = Small(size, Up(n, i))
    BY <1>1, <1>2, <1>3, <2>1 DEF Rshift
  <2> QED  BY <1>1, <1>2, <2>1, <2>2 DEF IsVector
<1>4. CASE v.kind = "sparse"
  <2>1. Val(v) = n /\ n \in Word /\ size > WordBits
    BY <1>1, <1>4, VectorIs
  <2>2. i >= WordBits => Up(n, i) = 0
    BY <1>1, <2>1, WordIsWordAt, UpIs
  <2>3. Rshift(v, i) = Sparse(size, Up(n, i))
    BY <1>1, <1>2, <1>4, <2>1, <2>2 DEF Rshift
  <2> QED  BY <1>1, <1>2, <2>1, <2>3 DEF IsVector
<1>5. CASE v.kind = "generic"
  <2>1. v.data = WordsOf(n, DataSize(size)) /\ Len(v.data) = DataSize(size)
        /\ size > WordBits
    BY <1>5, GenericIs
  <2>2. CASE i >= size
    <3>1. Rshift(v, i) = Sparse(size, 0)
      BY <1>1, <1>5, <2>2 DEF Rshift
    <3>2. 0 \in Word
      BY BaseAssumption DEF Word
    <3> QED  BY <1>1, <1>2, <2>1, <2>2, <3>1, <3>2 DEF IsVector
  <2>3. CASE i < size /\ i = 0
    <3>1. Rshift(v, i) = v /\ Up(n, i) = n
      BY <1>1, <1>5, <2>3, NoBits DEF Rshift
    <3> QED  BY <1>2, <3>1
  <2>4. CASE i < size /\ i # 0
    <3>1. Rshift(v, i) = Generic(size, WordsFrom(WordsOf(n, DataSize(size)), i, DataSize(size)))
      BY <1>1, <1>5, <2>1, <2>4 DEF Rshift
    <3>2. DataSize(size) \in Nat /\ n < Pow2[WordBits * DataSize(size)]
      BY <1>1, NumberInWords
    <3>3. Rshift(v, i) = Generic(size, WordsOf(Up(n, i), DataSize(size)))
      BY <1>1, <3>1, <3>2, WordsFromIs
    <3> QED  BY <1>1, <1>2, <2>1, <3>3, IsGeneric
  <2> QED  BY <1>1, <2>2, <2>3, <2>4
<1> QED  BY <1>1, <1>2, <1>3, <1>4, <1>5

LEMMA DataSizeMonotone ==
  ASSUME NEW i \in Nat \ {0}, NEW size \in Nat \ {0}, i <= size
  PROVE  DataSize(i) <= DataSize(size)
<1>1. /\ DataSize(i) \in Nat \ {0} /\ DataSize(size) \in Nat \ {0}
      /\ First(DataSize(i)) \in Nat /\ First(DataSize(size)) \in Nat
      /\ First(DataSize(i)) < i /\ size <= First(DataSize(size)) + WordBits
  BY DataSizeIs
<1>2. DataSize(size) < DataSize(i) => First(DataSize(size)) + WordBits <= First(DataSize(i))
  BY <1>1, FirstIs
<1> QED  BY <1>1, <1>2, WordIs

\* The first words of a number.
LEMMA FirstWords ==
  ASSUME NEW n \in Int, NEW len \in Nat, NEW c \in Nat, c <= len
  PROVE  SubSeq(WordsOf(n, len), 1, c) = WordsOf(n, c)
<1>1. WordsOf(n, len) \in Seq(Word) /\ Len(WordsOf(n, len)) = len
  BY WordsOfIs DEF Arrays
<1>2. SubSeq(WordsOf(n, len), 1, c) = [k \in 1 .. c |-> WordsOf(n, len)[k]]
  BY <1>1
<1>3. \A k \in 1 .. c : WordsOf(n, len)[k] = WordAt(n, First(k))
  BY DEF WordsOf
<1> QED  BY <1>2, <1>3 DEF WordsOf

\* the lowest word of any representation
LEMMA ValIs ==
  ASSUME NEW v, NEW size, NEW n, IsVector(v, size, n)
  PROVE  Val(v) = Wrap(n) /\ Val(v) = WordAt(n, 0) /\ Val(v) \in Word
<1>1. n \in Int /\ v.kind \in {"small", "sparse", "generic"}
  BY VectorIs
<1>2. Wrap(n) = WordAt(n, 0) /\ Wrap(n) \in Word
  BY <1>1, WrapIsLow
<1>3. CASE v.kind # "generic"
  <2>1. Val(v) = n /\ n \in Word
    BY <1>1, <1>3, VectorIs
  <2> QED  BY <1>2, <2>1, WordIsWordAt
<1>4. CASE v.kind = "generic"
  <2>1. v.data = WordsOf(n, DataSize(size)) /\ DataSize(size) \in Nat /\ Len(v.data) >= 2
    BY <1>4, GenericIs
  <2>2. 1 \in 1 .. DataSize(size)
    BY <1>1, <2>1, WordsOfIs
  <2> QED  BY <1>2, <2>1, <2>2, FirstIs DEF Val, WordsOf
<1> QED  BY <1>3, <1>4

\* truncate.
LEMMA TruncateIs ==
  ASSUME NEW v, NEW size, NEW n, IsVector(v, size, n), NEW i \in 1 .. size
  PROVE  IsVector(Truncate(v, i), i, Low(n, i))
<1>1. /\ size \in Nat \ {0} /\ n \in Nat /\ n < Pow2[size] /\ v.size = size
      /\ v.kind \in {"small", "sparse", "generic"} /\ Low(n, size) = n
      /\ WordBits \in Nat
  BY VectorIs, WordIs
<1>2. i \in Nat \ {0}
  BY <1>1
<1>3. CASE i <= WordBits
  <2>1. Truncate(v, i) = Small(i, RuintMask(i, Wrap(n)))
    BY <1>1, <1>2, <1>3, ValIs DEF Truncate
  <2> QED  BY <1>1, <1>2, <1>3, <2>1, IsSmall
<1>4. CASE i > WordBits /\ v.kind = "sparse"
  <2>1. n \in Word /\ Val(v) = n
    BY <1>4, VectorIs
  <2>2. Truncate(v, i) = Sparse(i, n)
    BY <1>1, <1>2, <1>4, <2>1 DEF Truncate
  <2> QED  BY <1>2, <1>4, <2>1, <2>2, IsSparse
<1>5. CASE i > WordBits /\ v.kind = "generic"
  <2>1. CASE i = size
    <3>1. Truncate(v, i) = v
      BY <1>1, <1>2, <1>5, <2>1 DEF Truncate
    <3> QED  BY <1>1, <2>1, <3>1
  <2>2. CASE i # size
    <3>1. v.data = WordsOf(n, DataSize(size)) /\ DataSize(size) \in Nat
      BY <1>5, GenericIs
    <3>2. DataSize(i) \in Nat /\ DataSize(i) <= DataSize(size)
      BY <1>1, <1>2, DataSizeMonotone, DataSizeIs
    <3>3. Truncate(v, i) = Generic(i, SizeMask(i, SubSeq(v.data, 1, DataSize(i))))
      BY <1>1, <1>2, <1>5, <2>2 DEF Truncate
    <3>4. SubSeq(v.data, 1, DataSize(i)) = WordsOf(n, DataSize(i))
      <4>1. n \in Int
        BY <1>1
      <4> QED  BY <3>1, <3>2, <4>1, FirstWords
    <3>5. Truncate(v, i) = Generic(i, WordsOf(Low(n, i), DataSize(i)))
      <4>1. n \in Int
        BY <1>1
      <4> QED  BY <1>2, <3>3, <3>4, <4>1, SizeMaskIs
    <3> QED  BY <1>1, <1>2, <1>5, <3>5, IsGeneric
  <2> QED  BY <2>1, <2>2
<1>6. v.kind = "small" => i <= WordBits
  BY <1>1, VectorIs
<1> QED  BY <1>1, <1>2, <1>3, <1>4, <1>5, <1>6

\* subrange: the bits from low to high, in the representation of its width.
LEMMA SubrangeIs ==
  ASSUME NEW v, NEW size, NEW n, IsVector(v, size, n),
         NEW high \in 0 .. size - 1, NEW low \in 0 .. high
  PROVE  IsVector(Subrange(v, high, low), high - low + 1, Low(Up(n, low), high - low + 1))
<1> DEFINE width == high - low + 1
           m == Up(n, low)
<1>1. /\ size \in Nat \ {0} /\ n \in Nat /\ n < Pow2[size] /\ v.size = size
      /\ v.kind \in {"small", "sparse", "generic"} /\ WordBits \in Nat
  BY VectorIs, WordIs
<1>2. width \in Nat \ {0} /\ width <= size /\ low \in Nat /\ width \in 1 .. size
  BY <1>1
<1>3. /\ m \in Nat /\ m < Pow2[size] /\ (n \in Word => m \in Word) /\ Shr(n, low) = m
      /\ n \in Word /\ low >= WordBits => m = 0
  <2>1. n \in Word => n < Pow2[WordBits]
    BY WordIs
  <2> QED  BY <1>1, <1>2, <2>1, UpIs
<1> HIDE DEF width, m
<1>4. CASE width <= WordBits
  <2>1. SubrangeWord(v, high, low) = RuintMask(width, m)
        \/ SubrangeWord(v, high, low) = RuintMask(width, Wrap(m))
    <3>1. CASE v.kind = "small"
      <4>1. Val(v) = n
        BY <3>1, VectorIs
      <4> QED  BY <1>3, <3>1, <4>1 DEF SubrangeWord, width
    <3>2. CASE v.kind = "sparse"
      <4>1. Val(v) = n /\ n \in Word
        BY <3>2, VectorIs
      <4> QED  BY <1>3, <3>2, <4>1 DEF SubrangeWord, width
    <3>3. CASE v.kind = "generic"
      <4>1. v.data = WordsOf(n, DataSize(size)) /\ DataSize(size) \in Nat
            /\ n < Pow2[WordBits * DataSize(size)]
        BY <1>1, <3>3, GenericIs, NumberInWords
      <4>2. WordsFrom(v.data, low, 1) = WordsOf(m, 1)
        BY <1>1, <1>2, <4>1, WordsFromIs DEF m
      <4>3. WordsOf(m, 1)[1] = WordAt(m, 0)
        BY FirstIs DEF WordsOf
      <4>4. Wrap(m) = WordAt(m, 0)
        BY <1>3, WrapIsLow
      <4> QED  BY <3>3, <4>2, <4>3, <4>4 DEF SubrangeWord, width
    <3> QED  BY <1>1, <3>1, <3>2, <3>3
  <2>2. Subrange(v, high, low) = Small(width, SubrangeWord(v, high, low))
    BY <1>1, <1>2, <1>4 DEF Subrange, width
  <2>3. IsVector(Subrange(v, high, low), width, Low(m, width))
    BY <1>2, <1>3, <1>4, <2>1, <2>2, IsSmall
  <2> QED  BY <2>3 DEF width, m
<1>5. CASE width > WordBits /\ v.kind = "sparse"
  <2>1. Val(v) = n /\ n \in Word
    BY <1>5, VectorIs
  <2>2. Subrange(v, high, low) = Sparse(width, m)
    BY <1>1, <1>2, <1>3, <1>5, <2>1 DEF Subrange, width
  <2>3. IsVector(Subrange(v, high, low), width, Low(m, width))
    BY <1>2, <1>3, <1>5, <2>1, <2>2, IsSparse
  <2> QED  BY <2>3 DEF width, m
<1>6. CASE width > WordBits /\ v.kind = "generic"
  <2>1. Subrange(v, high, low) = Truncate(IF low = 0 THEN v ELSE Rshift(v, low), width)
    BY <1>1, <1>2, <1>6 DEF Subrange, width
  <2>2. IsVector(Rshift(v, low), size, m)
    BY <1>2, RshiftIs DEF m
  <2>3. low = 0 => m = n
    BY <1>1, NoBits DEF m
  <2>4. IsVector(IF low = 0 THEN v ELSE Rshift(v, low), size, m)
    BY <2>2, <2>3
  <2>5. IsVector(Subrange(v, high, low), width, Low(m, width))
    BY <1>2, <2>1, <2>4, TruncateIs
  <2> QED  BY <2>5 DEF width, m
<1>7. v.kind = "small" => width <= WordBits
  BY <1>1, <1>2, VectorIs
<1> QED  BY <1>1, <1>2, <1>4, <1>5, <1>6, <1>7

-----------------------------------------------------------------------------
(***************************************************************************)
(* Zero extension and single bits.                                         *)
(***************************************************************************)

\* zero_extend.
LEMMA ZeroExtendIs ==
  ASSUME NEW v, NEW size, NEW n, IsVector(v, size, n), NEW i \in Nat, i >= size
  PROVE  IsVector(ZeroExtend(v, i), i, n) /\ Low(n, i) = n
<1>1. /\ size \in Nat \ {0} /\ n \in Nat /\ n < Pow2[size] /\ v.size = size
      /\ v.kind \in {"small", "sparse", "generic"} /\ WordBits \in Nat
      /\ i \in Nat \ {0}
  BY VectorIs, WordIs
<1>2. n < Pow2[i] /\ Low(n, i) = n
  <2>1. Pow2[size] <= Pow2[i] /\ Pow2[size] \in Nat /\ Pow2[i] \in Nat
    BY <1>1, Pow2Monotone
  <2>2. n < Pow2[i]
    BY <1>1, <2>1
  <2> QED  BY <1>1, <2>2, FewBits
<1>3. CASE i = size
  BY <1>1, <1>2, <1>3 DEF ZeroExtend
<1>4. CASE i # size /\ v.kind = "small"
  <2>1. Val(v) = n /\ n \in Word
    BY <1>4, VectorIs
  <2>2. ZeroExtend(v, i) = FromRuint(i, n)
    BY <1>1, <1>4, <2>1 DEF ZeroExtend
  <2>3. CASE i <= WordBits
    <3>1. ZeroExtend(v, i) = Small(i, RuintMask(i, n))
      BY <2>2, <2>3 DEF FromRuint
    <3> QED  BY <1>1, <1>2, <2>3, <3>1, IsSmall
  <2>4. CASE ~ i <= WordBits
    <3>1. ZeroExtend(v, i) = Sparse(i, n)
      BY <2>2, <2>4 DEF FromRuint
    <3> QED  BY <1>1, <1>2, <2>1, <2>4, <3>1, IsSparse
  <2> QED  BY <2>3, <2>4
<1>5. CASE i # size /\ v.kind = "sparse"
  <2>1. Val(v) = n /\ n \in Word /\ size > WordBits
    BY <1>1, <1>5, VectorIs
  <2>2. ZeroExtend(v, i) = Sparse(i, n)
    BY <1>1, <1>5, <2>1 DEF ZeroExtend
  <2>3. i > WordBits
    BY <1>1, <2>1
  <2> QED  BY <1>1, <1>2, <2>1, <2>2, <2>3, IsSparse
<1>6. CASE i # size /\ v.kind = "generic"
  <2> DEFINE len == DataSize(size)
             d == [k \in 1 .. DataSize(i) |-> IF k \in DOMAIN v.data THEN v.data[k] ELSE 0]
  <2>1. v.data = WordsOf(n, len) /\ len \in Nat /\ size > WordBits
    BY <1>6, GenericIs
  <2>2. ZeroExtend(v, i) = Generic(i, d)
    BY <1>1, <1>6 DEF ZeroExtend
  <2>3. DataSize(i) \in Nat /\ i > WordBits
    BY <1>1, <2>1, DataSizeIs
  <2>4. ASSUME NEW k \in 1 .. DataSize(i) PROVE d[k] = WordAt(n, First(k))
    <3>1. CASE k \in 1 .. len
      BY <2>1, <3>1 DEF WordsOf
    <3>2. CASE k \notin 1 .. len
      <4>1. d[k] = 0
        BY <2>1, <3>2 DEF WordsOf
      <4>2. First(k) \in Nat /\ First(k) >= size
        <5>1. len \in Nat \ {0} /\ size <= First(len) + WordBits /\ First(len) \in Nat
          BY <1>1, DataSizeIs
        <5>2. First(len) + WordBits <= First(k) /\ First(k) \in Nat
          <6>1. len < k /\ k \in Nat \ {0}
            BY <2>3, <3>2, <5>1
          <6> QED  BY <5>1, <6>1, FirstIs
        <5> QED  BY <1>1, <5>1, <5>2
      <4>3. Up(n, First(k)) = 0
        BY <1>1, <4>2, UpIs
      <4>4. Low(0, WordBits) = 0
        BY <1>1, LowIs, FewBits, Pow2Unfold
      <4> QED  BY <4>1, <4>3, <4>4 DEF WordAt
    <3> QED  BY <3>1, <3>2
  <2>5. d = WordsOf(n, DataSize(i))
    BY <2>4 DEF WordsOf
  <2> QED  BY <1>1, <1>2, <2>2, <2>3, <2>5, IsGeneric
<1> QED  BY <1>1, <1>3, <1>4, <1>5, <1>6

\* Where a bit is found.
LEMMA BitInWords ==
  ASSUME NEW size \in Nat \ {0}, NEW pos \in 0 .. size - 1, NEW n \in Int
  PROVE  LET len == DataSize(size)
             k == WordIndex(pos) + 1
         IN  /\ len \in Nat /\ k \in 1 .. len /\ First(k) \in Nat
             /\ BitIndex(pos) \in Nat /\ BitIndex(pos) < WordBits
             /\ pos = First(k) + BitIndex(pos)
             /\ WordsOf(n, len)[k] = WordAt(n, First(k))
             /\ WordsOf(n, len)[k] \in Word
             /\ pos < WordBits => k = 1 /\ BitIndex(pos) = pos
<1> DEFINE len == DataSize(size)
           k == WordIndex(pos) + 1
           b == BitIndex(pos)
<1>1. /\ len \in Nat \ {0} /\ First(len) \in Nat
      /\ First(len) < size /\ size <= First(len) + WordBits
  BY DataSizeIs
<1>2. /\ WordIndex(pos) \in Nat /\ b \in Nat /\ b < WordBits
      /\ pos = WordBits * WordIndex(pos) + b /\ WordBits * WordIndex(pos) \in Nat
  BY IndexIs
<1>3. k \in Nat \ {0} /\ k - 1 = WordIndex(pos)
  BY <1>2
<1>4. First(k) = WordBits * WordIndex(pos)
  BY <1>3 DEF First
<1> HIDE DEF len, k, b
<1>5. First(k) \in Nat /\ pos = First(k) + b /\ WordBits \in Nat
  BY <1>2, <1>4, WordIs
<1>6. k <= len
  <2>1. len < k => First(len) + WordBits <= First(k)
    BY <1>1, <1>3, FirstIs
  <2> QED  BY <1>1, <1>2, <1>3, <1>5, <2>1
<1>7. k \in 1 .. len
  BY <1>1, <1>3, <1>6
<1>8. WordsOf(n, len)[k] = WordAt(n, First(k)) /\ WordsOf(n, len)[k] \in Word
  BY <1>1, <1>7, WordsOfIs
<1>9. pos < WordBits => k = 1 /\ b = pos
  <2>1. 1 < k => First(1) + WordBits <= First(k)
    BY <1>3, FirstIs
  <2>2. First(1) = 0
    BY FirstIs
  <2>3. pos < WordBits => k = 1
    BY <1>2, <1>3, <1>5, <2>1, <2>2
  <2> QED  BY <1>2, <1>5, <2>2, <2>3
<1> QED  BY <1>1, <1>2, <1>5, <1>7, <1>8, <1>9 DEF len, k, b

LEMMA ShrBit ==
  ASSUME NEW x \in Nat, NEW i \in Nat
  PROVE  Shr(x, i) % 2 = BitOf(x, i)
BY DEF Shr, BitOf

\* read_bit.
LEMMA ReadBitIs ==
  ASSUME NEW v, NEW size, NEW n, IsVector(v, size, n), NEW pos \in 0 .. size - 1
  PROVE  ReadBit(v, pos) = (BitOf(n, pos) = 1)
<1>1. /\ size \in Nat \ {0} /\ n \in Nat /\ n \in Int
      /\ v.kind \in {"small", "sparse", "generic"} /\ WordBits \in Nat
  BY VectorIs, WordIs
<1> DEFINE len == DataSize(size)
           k == WordIndex(pos) + 1
           b == BitIndex(pos)
<1>2. /\ len \in Nat /\ k \in 1 .. len /\ First(k) \in Nat
      /\ b \in Nat /\ b < WordBits /\ pos = First(k) + b
      /\ WordsOf(n, len)[k] = WordAt(n, First(k))
      /\ WordsOf(n, len)[k] \in Word
      /\ pos < WordBits => k = 1 /\ b = pos
  BY <1>1, BitInWords
<1> HIDE DEF len, k, b
<1>3. CASE v.kind = "generic"
  <2>1. v.data[k] = WordAt(n, First(k)) /\ v.data[k] \in Nat
    BY <1>2, <1>3, GenericIs, WordIs DEF len
  <2>2. Shr(v.data[k], b) % 2 = BitOf(v.data[k], b)
    BY <1>2, <2>1, ShrBit
  <2>3. BitOf(WordAt(n, First(k)), b) = BitOf(n, pos)
    BY <1>1, <1>2, WordAtIs
  <2> QED  BY <1>3, <2>1, <2>2, <2>3 DEF ReadBit, k, b
<1>4. CASE v.kind = "sparse" /\ pos >= WordBits
  <2>1. n \in Word /\ pos \in Nat
    BY <1>1, <1>4, VectorIs
  <2>2. BitOf(n, pos) = 0
    BY <1>4, <2>1, WordIsWordAt
  <2>3. ReadBit(v, pos) = FALSE
    BY <1>4 DEF ReadBit
  <2>4. (BitOf(n, pos) = 1) = FALSE
    BY <2>2
  <2> QED  BY <2>3, <2>4
<1>5. CASE \/ v.kind = "sparse" /\ ~ pos >= WordBits
           \/ v.kind = "small"
  <2>1. v.data = <<n>>
    BY <1>5, VectorIs
  <2>2. pos < WordBits
    <3>1. v.kind = "small" => size <= WordBits
      BY VectorIs
    <3> QED  BY <1>1, <1>5, <3>1
  <2>3. v.data[k] = n /\ b = pos
    BY <1>2, <2>1, <2>2
  <2>4. Shr(n, pos) % 2 = BitOf(n, pos)
    BY <1>1, ShrBit
  <2>5. ~ (v.kind = "sparse" /\ pos >= WordBits)
    BY <1>5
  <2>6. ReadBit(v, pos) = (Shr(v.data[k], b) % 2 = 1)
    BY <2>5 DEF ReadBit, k, b
  <2>7. Shr(v.data[k], b) % 2 = BitOf(n, pos)
    BY <2>3, <2>4
  <2> QED  BY <2>6, <2>7
<1> QED  BY <1>1, <1>3, <1>4, <1>5

-----------------------------------------------------------------------------
(***************************************************************************)
(* Some bits of a number are replaced.                                     *)
(***************************************************************************)
Patched(n, i, width, m) == n + (m - Low(Up(n, i), width)) * Pow2[i]

\* A patched number in three parts: above, in and below the patch.
LEMMA PatchedSum ==
  ASSUME NEW n \in Int, NEW i \in Nat, NEW width \in Nat, NEW m \in Nat
  PROVE  Patched(n, i, width, m) = Pow2[i] * (Pow2[width] * Up(n, i + width) + m) + Low(n, i)
<1> DEFINE u == Up(n, i)
           h == Up(u, width)
           l == Low(n, i)
           c == Low(u, width)
           P == Pow2[i]
           Q == Pow2[width]
           r == Patched(n, i, width, m)
           t == Q * h + m
<1>1. /\ P \in Nat /\ u \in Int /\ l \in Nat /\ l < P /\ n = P * u + l
  BY Halves
<1>2. /\ Q \in Nat /\ h \in Int /\ c \in Nat /\ c < Q /\ u = Q * h + c
  BY <1>1, Halves
<1>3. h = Up(n, i + width)
  BY HalvesOfHalves
<1>4. r = n + (m - c) * P
  BY DEF Patched
<1>5. r = P * t + l
  <2> DEFINE g == Q * h
  <2>1. g \in Int /\ u = g + c /\ t = g + m
    BY <1>2
  <2> HIDE DEF u, h, l, c, P, Q, r, t, g
  <2>2. P * (g + c) = P * g + P * c /\ P * (g + m) = P * g + P * m
    BY <1>1, <1>2, <2>1
  <2>3. (m - c) * P = P * m - P * c
    BY <1>1, <1>2
  <2>4. P * g \in Int /\ P * c \in Int /\ P * m \in Int
    BY <1>1, <1>2, <2>1
  <2> QED  BY <1>1, <1>4, <2>1, <2>2, <2>3, <2>4
<1> HIDE DEF r
<1> QED  BY <1>3, <1>5 DEF r

\* The bits of a patched number.
LEMMA PatchedIs ==
  ASSUME NEW n \in Int, NEW i \in Nat, NEW width \in Nat, NEW m \in Nat, m < Pow2[width]
  PROVE  /\ Patched(n, i, width, m) \in Int
         /\ \A k \in Nat : BitOf(Patched(n, i, width, m), k) =
              IF i <= k /\ k < i + width THEN BitOf(m, k - i) ELSE BitOf(n, k)
<1> DEFINE u == Up(n, i)
           h == Up(u, width)
           l == Low(n, i)
           c == Low(u, width)
           P == Pow2[i]
           Q == Pow2[width]
           r == Patched(n, i, width, m)
           t == Q * h + m
<1>1. /\ P \in Nat /\ u \in Int /\ l \in Nat /\ l < P /\ n = P * u + l
  BY Halves
<1>2. /\ Q \in Nat /\ h \in Int /\ c \in Nat /\ c < Q /\ u = Q * h + c
  BY <1>1, Halves
<1>3. h = Up(n, i + width)
  BY HalvesOfHalves
<1>4. r = Pow2[i] * (Pow2[width] * Up(n, i + width) + m) + Low(n, i)
  BY PatchedSum
<1>5. t \in Int /\ \A k \in Nat : BitOf(t, k) = IF k < width THEN BitOf(m, k) ELSE BitOf(h, k - width)
  <2>1. h \in Int /\ m < Pow2[width]
    BY <1>2
  <2> HIDE DEF h
  <2>2. ASSUME NEW k \in Nat
        PROVE  t \in Int /\ BitOf(t, k) = IF k < width THEN BitOf(m, k) ELSE BitOf(h, k - width)
    BY <2>1, BitsOfSum
  <2> HIDE DEF t
  <2>3. t \in Int
    <3>1. 0 \in Nat
      OBVIOUS
    <3> QED  BY <2>2, <3>1
  <2> QED  BY <2>2, <2>3
<1>6. P * t + l \in Int /\ \A k \in Nat : BitOf(P * t + l, k) = IF k < i THEN BitOf(l, k) ELSE BitOf(t, k - i)
  <2>1. t \in Int /\ l \in Nat /\ l < Pow2[i]
    BY <1>1, <1>5
  <2> HIDE DEF t, l
  <2> DEFINE s == P * t + l
  <2>2. ASSUME NEW k \in Nat
        PROVE  s \in Int /\ BitOf(s, k) = IF k < i THEN BitOf(l, k) ELSE BitOf(t, k - i)
    BY <2>1, BitsOfSum
  <2> HIDE DEF s
  <2>3. s \in Int
    <3>1. 0 \in Nat
      OBVIOUS
    <3> QED  BY <2>2, <3>1
  <2> QED  BY <2>2, <2>3 DEF s
<1>7. r = P * t + l
  BY <1>3, <1>4
<1>8. ASSUME NEW k \in Nat
      PROVE  BitOf(r, k) = IF i <= k /\ k < i + width THEN BitOf(m, k - i) ELSE BitOf(n, k)
  <2>1. BitOf(r, k) = IF k < i THEN BitOf(l, k) ELSE BitOf(t, k - i)
    BY <1>6, <1>7
  <2>2. k < i => BitOf(l, k) = BitOf(n, k)
    BY BitOfLow
  <2>3. k >= i /\ k < i + width => BitOf(t, k - i) = BitOf(m, k - i)
    <3> SUFFICES ASSUME k >= i, k < i + width PROVE BitOf(t, k - i) = BitOf(m, k - i)
      OBVIOUS
    <3>1. k - i \in Nat /\ k - i < width
      OBVIOUS
    <3> QED  BY <1>5, <3>1
  <2>4. k >= i + width => BitOf(t, k - i) = BitOf(n, k)
    <3> SUFFICES ASSUME k >= i + width PROVE BitOf(t, k - i) = BitOf(n, k)
      OBVIOUS
    <3>1. k - i \in Nat /\ ~ k - i < width /\ k - i - width \in Nat
          /\ i + width + (k - i - width) = k
      OBVIOUS
    <3>2. BitOf(t, k - i) = BitOf(h, k - i - width)
      BY <1>5, <3>1
    <3>3. BitOf(Up(n, i + width), k - i - width) = BitOf(n, k)
      <4> DEFINE j == k - i - width
                 p == i + width
      <4>1. j \in Nat /\ p \in Nat /\ p + j = k
        BY <3>1
      <4> HIDE DEF j, p
      <4>2. BitOf(Up(n, p), j) = BitOf(n, p + j)
        BY <4>1, BitOfUp
      <4>3. BitOf(Up(n, p), j) = BitOf(n, k)
        BY <4>1, <4>2
      <4> QED  BY <4>3 DEF j, p
    <3> QED  BY <1>3, <3>2, <3>3
  <2> HIDE DEF t, l, r
  <2> QED  BY <2>1, <2>2, <2>3, <2>4
<1>9. r \in Int
  BY <1>6, <1>7
<1> HIDE DEF r
<1> QED  BY <1>8, <1>9 DEF r

\* One bit patched.
LEMMA PatchedBit ==
  ASSUME NEW n \in Int, NEW i \in Nat, NEW width \in Nat, NEW m \in Nat, m < Pow2[width],
         NEW k \in Nat
  PROVE  BitOf(Patched(n, i, width, m), k) =
           IF i <= k /\ k < i + width THEN BitOf(m, k - i) ELSE BitOf(n, k)
BY PatchedIs

\* A patch inside the number does not make it longer.
LEMMA PatchedSize ==
  ASSUME NEW size \in Nat, NEW n \in Nat, n < Pow2[size],
         NEW i \in Nat, NEW width \in Nat, i + width <= size, NEW m \in Nat, m < Pow2[width]
  PROVE  Patched(n, i, width, m) \in Nat /\ Patched(n, i, width, m) < Pow2[size]
<1> DEFINE rest == size - (i + width)
           h == Up(n, i + width)
           t == Pow2[width] * h + m
<1>1. rest \in Nat /\ (i + width) + rest = size /\ i + (width + rest) = size
  OBVIOUS
<1>2. h \in Nat /\ h < Pow2[rest]
  <2> DEFINE p == i + width
  <2>1. p \in Nat /\ rest \in Nat /\ n < Pow2[p + rest]
    BY <1>1
  <2> HIDE DEF p, rest
  <2>2. Up(n, p) \in Nat /\ Up(n, p) < Pow2[rest]
    BY <2>1, FewerBits
  <2> QED  BY <2>2 DEF p
<1>3. t \in Nat /\ t < Pow2[width + rest]
  <2> HIDE DEF h, rest
  <2> QED  BY <1>1, <1>2, MoreBits
<1>4. Low(n, i) \in Nat /\ Low(n, i) < Pow2[i]
  <2>1. n \in Int
    OBVIOUS
  <2> QED  BY <2>1, Halves
<1>5. Pow2[i] * t + Low(n, i) \in Nat /\ Pow2[i] * t + Low(n, i) < Pow2[i + (width + rest)]
  <2> DEFINE l == Low(n, i)
             p == width + rest
  <2>1. p \in Nat /\ l \in Nat /\ l < Pow2[i] /\ t \in Nat /\ t < Pow2[p]
    BY <1>1, <1>3, <1>4
  <2> HIDE DEF t, rest, l, p
  <2>2. Pow2[i] * t + l \in Nat /\ Pow2[i] * t + l < Pow2[i + p]
    BY <2>1, MoreBits
  <2> QED  BY <2>2 DEF l, p
<1>6. Patched(n, i, width, m) = Pow2[i] * t + Low(n, i)
  <2>1. n \in Int
    OBVIOUS
  <2> QED  BY <2>1, PatchedSum
<1> QED  BY <1>1, <1>5, <1>6

\* A word with one bit set or cleared.
LEMMA WordWithBitIs ==
  ASSUME NEW x \in Word, NEW pos \in Nat, pos < WordBits, NEW bit \in BOOLEAN
  PROVE  /\ WordWithBit(x, pos, bit) \in Word
         /\ \A k \in Nat : k < WordBits =>
              BitOf(WordWithBit(x, pos, bit), k) = IF k = pos THEN Bit(bit) ELSE BitOf(x, k)
<1>1. /\ Pow2[pos] \in Word /\ Pow2[pos] \in Int /\ x \in Int /\ WordBits \in Nat
      /\ \A k \in Nat : BitOf(Pow2[pos], k) = IF k = pos THEN 1 ELSE 0
  BY PowerBits, WordIs
<1> DEFINE c == Complement(Pow2[pos])
<1>2. /\ c \in Word /\ c \in Int
      /\ \A k \in Nat : k < WordBits => BitOf(c, k) = IF k = pos THEN 0 ELSE 1
  <2>1. /\ c \in Word
        /\ \A k \in Nat : k < WordBits => BitOf(c, k) = 1 - BitOf(Pow2[pos], k)
    BY <1>1, ComplementBits
  <2> HIDE DEF c
  <2> QED  BY <1>1, <2>1, WordIs
<1> HIDE DEF c
<1>3. CASE bit = TRUE
  <2>1. WordWithBit(x, pos, bit) = (x | Pow2[pos]) /\ Bit(bit) = 1
    BY <1>3 DEF WordWithBit, Bit
  <2>2. /\ (x | Pow2[pos]) \in Word
        /\ \A k \in Nat : k < WordBits =>
             /\ BitOf(x, k) \in {0, 1}
             /\ BitOf(x | Pow2[pos], k) = IF BitOf(x, k) = 0 THEN BitOf(Pow2[pos], k) ELSE 1
    BY <1>1, WordsBitwise
  <2> QED  BY <1>1, <2>1, <2>2
<1>4. CASE bit = FALSE
  <2>1. WordWithBit(x, pos, bit) = (x & c) /\ Bit(bit) = 0
    BY <1>4 DEF WordWithBit, Bit, c
  <2>2. /\ (x & c) \in Word
        /\ \A k \in Nat : k < WordBits =>
             /\ BitOf(x, k) \in {0, 1}
             /\ BitOf(x & c, k) = IF BitOf(x, k) = 0 THEN 0 ELSE BitOf(c, k)
    BY <1>1, <1>2, WordsBitwise
  <2> QED  BY <1>2, <2>1, <2>2
<1> QED  BY <1>3, <1>4

LEMMA BitNumber ==
  ASSUME NEW bit \in BOOLEAN
  PROVE  Bit(bit) \in Nat /\ Bit(bit) < Pow2[1] /\ BitOf(Bit(bit), 0) = Bit(bit)
<1>1. Pow2[1] = 2 /\ Pow2[0] = 1
  <2>1. Pow2[0 + 1] = 2 * Pow2[0] /\ Pow2[0] = 1
    BY Pow2Unfold
  <2> QED  BY <2>1
<1>2. (0 \div 1) % 2 = 0 /\ (1 \div 1) % 2 = 1
  OBVIOUS
<1> QED  BY <1>1, <1>2 DEF Bit, BitOf

\* A vector whose words have the bits of a number.
LEMMA GenericWithBits ==
  ASSUME NEW size \in Nat \ {0}, size > WordBits, NEW r \in Nat, r < Pow2[size], NEW d,
         d \in [1 .. DataSize(size) -> Word],
         \A k \in 1 .. DataSize(size) : \A j \in Nat :
           j < WordBits => BitOf(d[k], j) = BitOf(r, First(k) + j)
  PROVE  IsVector(Generic(size, d), size, r)
<1>1. DataSize(size) \in Nat /\ r \in Int
  BY DataSizeIs
<1>2. d = WordsOf(r, DataSize(size))
  BY <1>1, AreWordsOf
<1> QED  BY <1>2, IsGeneric

\* update_bit.
LEMMA UpdateBitIs ==
  ASSUME NEW v, NEW size, NEW n, IsVector(v, size, n), NEW pos \in 0 .. size - 1,
         NEW bit \in BOOLEAN
  PROVE  /\ IsVector(UpdateBit(v, pos, bit), size, Patched(n, pos, 1, Bit(bit)))
         /\ Low(Patched(n, pos, 1, Bit(bit)), size) = Patched(n, pos, 1, Bit(bit))
<1> DEFINE m == Bit(bit)
           r == Patched(n, pos, 1, m)
<1>1. /\ size \in Nat \ {0} /\ n \in Nat /\ n \in Int /\ n < Pow2[size] /\ pos \in Nat
      /\ v.kind \in {"small", "sparse", "generic"} /\ WordBits \in Nat
  BY VectorIs, WordIs
<1>2. m \in Nat /\ m < Pow2[1] /\ BitOf(m, 0) = m
  BY BitNumber
<1> HIDE DEF m
<1>3. r \in Nat /\ r < Pow2[size] /\ Low(r, size) = r
  <2>1. pos + 1 <= size
    BY <1>1
  <2>2. r \in Nat /\ r < Pow2[size]
    BY <1>1, <1>2, <2>1, PatchedSize
  <2> QED  BY <1>1, <2>2, FewBits
<1>4. ASSUME NEW k \in Nat PROVE BitOf(r, k) = IF k = pos THEN m ELSE BitOf(n, k)
  <2>1. BitOf(r, k) = IF pos <= k /\ k < pos + 1 THEN BitOf(m, k - pos) ELSE BitOf(n, k)
    <3>1. n \in Int /\ pos \in Nat /\ 1 \in Nat /\ m \in Nat /\ m < Pow2[1]
      BY <1>1, <1>2
    <3>2. \A j \in Nat : BitOf(Patched(n, pos, 1, m), j) =
              IF pos <= j /\ j < pos + 1 THEN BitOf(m, j - pos) ELSE BitOf(n, j)
      <4> DEFINE one == 1
      <4>1. one \in Nat /\ m < Pow2[one]
        BY <3>1
      <4> HIDE DEF one
      <4>2. ASSUME NEW j \in Nat
            PROVE  BitOf(Patched(n, pos, one, m), j) =
                     IF pos <= j /\ j < pos + one THEN BitOf(m, j - pos) ELSE BitOf(n, j)
        BY <3>1, <4>1, PatchedBit
      <4> QED  BY <4>2 DEF one
    <3> QED  BY <3>2
  <2>2. (pos <= k /\ k < pos + 1) <=> k = pos
    BY <1>1
  <2>3. pos - pos = 0
    BY <1>1
  <2> QED  BY <1>2, <2>1, <2>2, <2>3
<1> HIDE DEF r
<1>5. ASSUME v.kind # "generic", pos < WordBits
      PROVE  IsVector(UpdateBit(v, pos, bit), size, r)
  <2> DEFINE w == WordWithBit(n, pos, bit)
  <2>1. /\ n \in Word /\ v.data = <<n>>
        /\ v.kind = "small" => v = Small(size, n) /\ size <= WordBits
        /\ v.kind = "sparse" => v = Sparse(size, n) /\ size > WordBits
    BY <1>1, <1>5, VectorIs
  <2>2. WordIndex(pos) + 1 = 1 /\ BitIndex(pos) = pos
    BY <1>1, <1>5, BitInWords
  <2>3. UpdateBit(v, pos, bit) = [v EXCEPT !.data[1] = WordWithBit(@, pos, bit)]
    BY <1>1, <1>5, <2>2 DEF UpdateBit
  <2>4. [<<n>> EXCEPT ![1] = w] = <<w>>
    OBVIOUS
  <2>5. /\ v.kind = "small" => UpdateBit(v, pos, bit) = Small(size, w)
        /\ v.kind = "sparse" => UpdateBit(v, pos, bit) = Sparse(size, w)
    <3> HIDE DEF w
    <3>1. v.data[1] = n
      BY <2>1
    <3>2. [v EXCEPT !.data[1] = WordWithBit(@, pos, bit)] = [v EXCEPT !.data = [v.data EXCEPT ![1] = w]]
      BY <2>1, <3>1 DEF w, Small, Sparse
    <3>3. UpdateBit(v, pos, bit) = [v EXCEPT !.data = <<w>>]
      BY <2>1, <2>3, <2>4, <3>2
    <3> QED  BY <2>1, <3>3 DEF Small, Sparse
  <2>6. w \in Word /\ \A k \in Nat : k < WordBits =>
              BitOf(w, k) = IF k = pos THEN m ELSE BitOf(n, k)
    BY <1>5, <2>1, <1>1, WordWithBitIs DEF m
  <2> HIDE DEF w
  <2>7. w = r
    <3>1. r < Pow2[WordBits]
      <4>1. v.kind = "small" => Pow2[size] <= Pow2[WordBits] /\ Pow2[size] \in Nat /\ Pow2[WordBits] \in Nat
        BY <1>1, <2>1, Pow2Monotone
      <4>2. v.kind = "sparse" => r < Pow2[WordBits]
        <5>1. n < Pow2[WordBits] /\ pos + 1 <= WordBits
          BY <1>1, <1>5, <2>1, WordIs
        <5> QED  BY <1>1, <1>2, <5>1, PatchedSize DEF r
      <4> QED  BY <1>1, <1>3, <1>5, <4>1, <4>2
    <3>2. w \in Nat /\ w < Pow2[WordBits]
      BY <2>6, WordIs
    <3>3. \A k \in Nat : k < WordBits => BitOf(w, k) = BitOf(r, k)
      BY <1>4, <2>6
    <3> QED  BY <1>1, <1>3, <3>1, <3>2, <3>3, SameNumber
  <2> QED  BY <1>1, <1>3, <1>5, <2>1, <2>5, <2>6, <2>7 DEF IsVector
<1>6. ASSUME NEW g, IsVector(g, size, n), g.kind = "generic",
             UpdateBit(v, pos, bit) =
               [g EXCEPT !.data[WordIndex(pos) + 1] = WordWithBit(@, BitIndex(pos), bit)]
      PROVE  IsVector(UpdateBit(v, pos, bit), size, r)
  <2> DEFINE len == DataSize(size)
             k == WordIndex(pos) + 1
             b == BitIndex(pos)
             d == WordsOf(n, len)
             w == WordWithBit(d[k], b, bit)
             e == [d EXCEPT ![k] = w]
  <2>1. g = Generic(size, d) /\ size > WordBits /\ len \in Nat
    BY <1>6, GenericIs
  <2>2. /\ k \in 1 .. len /\ First(k) \in Nat
        /\ b \in Nat /\ b < WordBits /\ pos = First(k) + b
        /\ d[k] = WordAt(n, First(k)) /\ d[k] \in Word
    BY <1>1, BitInWords
  <2>3. UpdateBit(v, pos, bit) = Generic(size, e)
    BY <1>6, <2>1 DEF Generic
  <2>4. /\ w \in Word
        /\ \A j \in Nat : j < WordBits => BitOf(w, j) = IF j = b THEN m ELSE BitOf(d[k], j)
    BY <2>2, WordWithBitIs DEF m
  <2>5. /\ DOMAIN d = 1 .. len
        /\ \A q \in 1 .. len : d[q] = WordAt(n, First(q)) /\ d[q] \in Word /\ First(q) \in Nat
    BY <1>1, <2>1, WordsOfIs
  <2> HIDE DEF k, b, w, d
  <2>6. e = [q \in 1 .. len |-> IF q = k THEN w ELSE d[q]]
    BY <2>5
  <2>7. ASSUME NEW q \in 1 .. len
        PROVE  /\ e[q] \in Word
               /\ \A j \in Nat : j < WordBits => BitOf(e[q], j) = BitOf(r, First(q) + j)
    <3>1. /\ \A j \in Nat : j < WordBits => BitOf(d[q], j) = BitOf(n, First(q) + j)
          /\ First(q) \in Nat /\ d[q] \in Word
      BY <1>1, <2>5, WordAtIs
    <3>2. \A j \in Nat : BitOf(r, First(q) + j) =
                           IF First(q) + j = pos THEN m ELSE BitOf(n, First(q) + j)
      BY <1>4, <3>1
    <3>3. CASE q = k
      <4>1. \A j \in Nat : First(q) + j = pos <=> j = b
        BY <2>2, <3>3
      <4>2. e[q] = w
        BY <2>6, <3>3
      <4> QED  BY <2>4, <3>1, <3>2, <3>3, <4>1, <4>2
    <3>4. CASE q # k
      <4>1. \A j \in Nat : j < WordBits => First(q) + j # pos
        <5>1. q < k => First(q) + WordBits <= First(k)
          BY <2>1, <2>2, FirstIs
        <5>2. k < q => First(k) + WordBits <= First(q)
          BY <2>1, <2>2, FirstIs
        <5> QED  BY <1>1, <2>1, <2>2, <3>1, <3>4, <5>1, <5>2
      <4>2. e[q] = d[q]
        BY <2>6, <3>4
      <4> QED  BY <3>1, <3>2, <4>1, <4>2
    <3> QED  BY <3>3, <3>4
  <2>8. e \in [1 .. len -> Word]
    BY <2>6, <2>7
  <2>9. \A q \in 1 .. len : \A j \in Nat : j < WordBits => BitOf(e[q], j) = BitOf(r, First(q) + j)
    BY <2>7
  <2> HIDE DEF e
  <2> QED  BY <1>1, <1>3, <2>1, <2>3, <2>8, <2>9, GenericWithBits DEF len
<1>7. CASE v.kind # "generic" /\ pos < WordBits
  BY <1>3, <1>5, <1>7 DEF r, m
<1>8. CASE v.kind = "sparse" /\ pos >= WordBits
  <2>1. IsVector(ToGeneric(v), size, n) /\ ToGeneric(v).kind = "generic"
    BY <1>8, ToGenericIs
  <2>2. IsVector(UpdateBit(v, pos, bit), size, r)
    BY <1>6, <1>8, <2>1 DEF UpdateBit
  <2> QED  BY <1>3, <2>2 DEF r, m
<1>9. CASE v.kind = "generic"
  <2>1. IsVector(UpdateBit(v, pos, bit), size, r)
    BY <1>6, <1>9 DEF UpdateBit
  <2> QED  BY <1>3, <2>1 DEF r, m
<1>10. v.kind = "small" => pos < WordBits
  BY <1>1, VectorIs
<1> QED  BY <1>1, <1>7, <1>8, <1>9, <1>10

-----------------------------------------------------------------------------
(***************************************************************************)
(* Two's complement and sign extension.                                    *)
(***************************************************************************)

LEMMA PowerOfOne == Pow2[1] = 2 /\ Pow2[0] = 1
<1>1. Pow2[0 + 1] = 2 * Pow2[0] /\ Pow2[0] = 1
  BY Pow2Unfold
<1> QED  BY <1>1

LEMMA LowBit ==
  ASSUME NEW n \in Int, NEW p \in Nat
  PROVE  Low(Up(n, p), 1) = BitOf(n, p)
BY PowerOfOne DEF Low, Up, BitOf

\* A bit of a word is turned over.
LEMMA XorPower ==
  ASSUME NEW x \in Word, NEW p \in Nat, p < WordBits
  PROVE  /\ BitOf(x, p) \in {0, 1}
         /\ (x ^^ Pow2[p]) = IF BitOf(x, p) = 1 THEN x - Pow2[p] ELSE x + Pow2[p]
<1>1. /\ x \in Int /\ x \in Nat /\ x < Pow2[WordBits] /\ WordBits \in Nat
      /\ Pow2[p] \in Int /\ Pow2[p] \in Word
  BY PowerBits, WordIs
<1>2. BitOf(x, p) \in {0, 1}
  BY <1>1, BitIs
<1> DEFINE m == 1 - BitOf(x, p)
           y == Patched(x, p, 1, m)
<1>3. m \in Nat /\ m \in {0, 1} /\ m < Pow2[1]
  BY <1>2, PowerOfOne
<1>4. BitOf(m, 0) = m
  <2>1. (0 \div 1) % 2 = 0 /\ (1 \div 1) % 2 = 1
    OBVIOUS
  <2> HIDE DEF m
  <2> QED  BY <1>3, <2>1, PowerOfOne DEF BitOf
<1>5. y = IF BitOf(x, p) = 1 THEN x - Pow2[p] ELSE x + Pow2[p]
  <2>1. y = x + (m - BitOf(x, p)) * Pow2[p]
    BY <1>1, LowBit DEF Patched
  <2> QED  BY <1>1, <1>2, <2>1
<1>6. y \in Word
  <2>1. p + 1 <= WordBits
    BY <1>1
  <2> HIDE DEF m
  <2>2. y \in Nat /\ y < Pow2[WordBits]
    BY <1>1, <1>3, <2>1, PatchedSize
  <2> QED  BY <2>2, WordIs
<1>7. ASSUME NEW k \in Nat PROVE BitOf(y, k) = IF k = p THEN m ELSE BitOf(x, k)
  <2> HIDE DEF m
  <2>1. BitOf(Patched(x, p, 1, m), k) = IF p <= k /\ k < p + 1 THEN BitOf(m, k - p) ELSE BitOf(x, k)
    BY <1>1, <1>3, PatchedBit
  <2>2. (p <= k /\ k < p + 1) <=> k = p
    OBVIOUS
  <2>3. p - p = 0
    OBVIOUS
  <2> QED  BY <1>4, <2>1, <2>2, <2>3
<1> HIDE DEF y
<1>8. ASSUME NEW k \in Nat, k < WordBits PROVE BitOf(x ^^ Pow2[p], k) = BitOf(y, k)
  <2>1. /\ BitOf(x, k) \in {0, 1} /\ BitOf(Pow2[p], k) \in {0, 1}
        /\ BitOf(x ^^ Pow2[p], k) = IF BitOf(x, k) = BitOf(Pow2[p], k) THEN 0 ELSE 1
    BY <1>1, <1>8, WordsBitwise
  <2>2. BitOf(Pow2[p], k) = IF k = p THEN 1 ELSE 0
    BY PowerBits
  <2>3. BitOf(y, k) = IF k = p THEN 1 - BitOf(x, p) ELSE BitOf(x, k)
    BY <1>7
  <2> QED  BY <2>1, <2>2, <2>3
<1>9. (x ^^ Pow2[p]) \in Word
  BY <1>1, WordsBitwise
<1>10. (x ^^ Pow2[p]) = y
  BY <1>6, <1>8, <1>9, SameWord
<1> QED  BY <1>2, <1>5, <1>10

-----------------------------------------------------------------------------
(***************************************************************************)
(* Signs.                                                                  *)
(***************************************************************************)

\* the number in two's complement
SignedNumber(size, n) == IF n >= Pow2[size - 1] THEN n - Pow2[size] ELSE n

\* The highest bit of a number tells its sign.
LEMMA TopBit ==
  ASSUME NEW size \in Nat \ {0}, NEW n \in Nat, n < Pow2[size]
  PROVE  /\ size - 1 \in Nat /\ Pow2[size - 1] \in Nat /\ Pow2[size] = 2 * Pow2[size - 1]
         /\ Pow2[size] \in Nat
         /\ BitOf(n, size - 1) \in {0, 1}
         /\ n >= Pow2[size - 1] <=> BitOf(n, size - 1) = 1
         /\ SignedNumber(size, n) \in Int
<1> DEFINE t == size - 1
<1>1. t \in Nat /\ t + 1 = size /\ n \in Int
  OBVIOUS
<1> HIDE DEF t
<1>2. Pow2[t] \in Nat /\ Pow2[t + 1] = 2 * Pow2[t] /\ Pow2[t + 1] \in Nat
  BY <1>1, Pow2Unfold
<1>3. /\ Up(n, t) \in Int /\ Low(n, t) \in Nat /\ Low(n, t) < Pow2[t]
      /\ n = Pow2[t] * Up(n, t) + Low(n, t)
  BY <1>1, Halves
<1>4. BitOf(n, t) \in {0, 1} /\ Up(n, t) = 2 * Up(n, t + 1) + BitOf(n, t)
  BY <1>1, BitIs
<1>5. Up(n, size) = 0
  BY FewBits
<1>6. Up(n, t) = BitOf(n, t)
  BY <1>1, <1>4, <1>5
<1>7. n >= Pow2[t] <=> BitOf(n, t) = 1
  <2>1. CASE BitOf(n, t) = 0
    BY <1>2, <1>3, <1>6, <2>1
  <2>2. CASE BitOf(n, t) = 1
    BY <1>2, <1>3, <1>6, <2>2
  <2> QED  BY <1>4, <2>1, <2>2
<1>8. SignedNumber(size, n) \in Int
  BY <1>1, <1>2 DEF SignedNumber
<1> QED  BY <1>1, <1>2, <1>4, <1>7, <1>8 DEF t

\* The bits of a number in two's complement: above the size, copies of the
\* highest one.
LEMMA SignedBits ==
  ASSUME NEW size \in Nat \ {0}, NEW n \in Nat, n < Pow2[size], NEW k \in Nat
  PROVE  BitOf(SignedNumber(size, n), k) =
           IF k < size THEN BitOf(n, k) ELSE BitOf(n, size - 1)
<1>1. /\ Pow2[size] \in Nat /\ n \in Int /\ size \in Nat
      /\ BitOf(n, size - 1) \in {0, 1}
      /\ n >= Pow2[size - 1] <=> BitOf(n, size - 1) = 1
  BY TopBit
<1>2. CASE n >= Pow2[size - 1]
  <2> DEFINE o == -1
  <2>1. o \in Int /\ Pow2[size] * o + n = SignedNumber(size, n)
    BY <1>1, <1>2 DEF SignedNumber
  <2>2. \A j \in Nat : BitOf(o, j) = 1
    <3> SUFFICES ASSUME NEW j \in Nat PROVE BitOf(o, j) = 1
      OBVIOUS
    <3>1. BitOf(-1 - 0, j) = 1 - BitOf(0, j)
      BY BitsOfComplement
    <3> QED  BY <3>1, BitsOfZero
  <2> HIDE DEF o
  <2>3. BitOf(Pow2[size] * o + n, k) = IF k < size THEN BitOf(n, k) ELSE BitOf(o, k - size)
    BY <1>1, <2>1, BitsOfSum
  <2> QED  BY <1>1, <1>2, <2>1, <2>2, <2>3
<1>3. CASE ~ n >= Pow2[size - 1]
  <2>1. SignedNumber(size, n) = n
    BY <1>3 DEF SignedNumber
  <2>2. k >= size => BitOf(n, k) = 0
    BY BitsOfSmall
  <2> QED  BY <1>1, <1>3, <2>1, <2>2
<1> QED  BY <1>2, <1>3

\* Modulo its size a number in two's complement is the number itself.
LEMMA LowOfSigned ==
  ASSUME NEW size \in Nat \ {0}, NEW n \in Nat, n < Pow2[size]
  PROVE  Low(SignedNumber(size, n), size) = n
<1>1. Low(n, size) = n /\ Pow2[size] \in Nat /\ n \in Int /\ size \in Nat
  BY FewBits, TopBit
<1> DEFINE o == -1
<1>2. o \in Int /\ n + Pow2[size] * o = n - Pow2[size]
  BY <1>1
<1> HIDE DEF o
<1>3. Low(n + Pow2[size] * o, size) = Low(n, size)
  BY <1>1, <1>2, HalvesOfSum
<1> QED  BY <1>1, <1>2, <1>3 DEF SignedNumber

\* The word of copies of the highest bit.
LEMMA UpperWord ==
  ASSUME NEW highest \in {0, 1}
  PROVE  /\ Wrap(-highest) \in Word
         /\ \A j \in Nat : j < WordBits => BitOf(Wrap(-highest), j) = highest
<1>1. Base \in Nat /\ Base > 1 /\ Base = Pow2[WordBits] /\ WordBits \in Nat
      /\ Word = {n \in Nat : n < Pow2[WordBits]}
  BY WordIs
<1>2. CASE highest = 0
  <2>1. 0 \in Word
    BY <1>1
  <2>2. Wrap(-highest) = 0
    BY <1>2, <2>1, WrapNear
  <2> QED  BY <1>2, <2>1, <2>2, BitsOfZero
<1>3. CASE highest = 1
  <2>1. -highest + Base \in Word /\ -highest \in Int /\ -highest + Base = Base - 1
    BY <1>1, <1>3
  <2>2. Wrap(-highest) = Pow2[WordBits] - 1
    BY <1>1, <2>1, WrapNear
  <2>3. ASSUME NEW j \in Nat, j < WordBits PROVE BitOf(Wrap(-highest), j) = 1
    BY <1>1, <2>2, <2>3, BitsOfOnes
  <2> QED  BY <1>1, <1>3, <2>1, <2>2, <2>3
<1> QED  BY <1>2, <1>3

\* The highest bit, as the code reads it from the array.
LEMMA TopBitOfWords ==
  ASSUME NEW size \in Nat \ {0}, NEW n \in Nat, n < Pow2[size]
  PROVE  LET d == WordsOf(n, DataSize(size))
         IN  Shr(d[WordIndex(size - 1) + 1], BitIndex(size - 1)) % 2 = BitOf(n, size - 1)
<1> DEFINE pos == size - 1
           len == DataSize(size)
           k == WordIndex(pos) + 1
           b == BitIndex(pos)
<1>1. pos \in 0 .. size - 1 /\ n \in Int
  OBVIOUS
<1> HIDE DEF pos
<1>2. /\ len \in Nat /\ k \in 1 .. len /\ First(k) \in Nat
      /\ b \in Nat /\ b < WordBits /\ pos = First(k) + b
      /\ WordsOf(n, len)[k] = WordAt(n, First(k))
      /\ WordsOf(n, len)[k] \in Word
  BY <1>1, BitInWords
<1> HIDE DEF len, k, b
<1>3. Shr(WordsOf(n, len)[k], b) % 2 = BitOf(WordsOf(n, len)[k], b)
  <2>1. WordsOf(n, len)[k] \in Nat
    BY <1>2, WordIs
  <2> QED  BY <1>2, <2>1, ShrBit
<1>4. BitOf(WordAt(n, First(k)), b) = BitOf(n, pos)
  BY <1>1, <1>2, WordAtIs
<1>5. Shr(WordsOf(n, len)[k], b) % 2 = BitOf(n, pos)
  BY <1>2, <1>3, <1>4
<1> QED  BY <1>5 DEF pos, len, k, b

\* sign_extend of an array.
LEMMA SignExtendDataIs ==
  ASSUME NEW size \in Nat \ {0}, NEW n \in Nat, n < Pow2[size],
         NEW i \in Nat, i > size, i > WordBits
  PROVE  IsVector(SignExtendData(size, WordsOf(n, DataSize(size)), i), i,
                  Low(SignedNumber(size, n), i))
<1> DEFINE len == DataSize(size)
           data == WordsOf(n, len)
           highest == Shr(data[WordIndex(size - 1) + 1], BitIndex(size - 1)) % 2
           upper == Wrap(-highest)
           full == WordIndex(size)
           bits == BitIndex(size)
           s == SignedNumber(size, n)
           d == [k \in 1 .. DataSize(i) |->
                   IF k <= full THEN data[k]
                   ELSE IF k = full + 1 /\ bits # 0 THEN data[k] | Shl(upper, bits)
                   ELSE upper]
<1>1. /\ size \in Nat /\ n \in Int /\ WordBits \in Nat /\ i \in Nat \ {0}
      /\ DataSize(i) \in Nat /\ s \in Int
  BY WordIs, DataSizeIs, TopBit
<1>2. /\ len \in Nat \ {0} /\ First(len) \in Nat
      /\ First(len) < size /\ size <= First(len) + WordBits
  BY DataSizeIs
<1>3. /\ full \in Nat /\ bits \in Nat /\ bits < WordBits
      /\ size = WordBits * full + bits /\ WordBits * full \in Nat
      /\ First(full + 1) = WordBits * full
  <2>1. First(full + 1) = WordBits * full
    BY IndexIs DEF First
  <2> QED  BY <2>1, IndexIs
<1>4. highest = BitOf(n, size - 1) /\ highest \in {0, 1}
  BY TopBitOfWords, TopBit
<1>5. upper \in Word /\ upper \in Int /\ \A j \in Nat : j < WordBits => BitOf(upper, j) = highest
  BY <1>4, UpperWord, WordIs
<1>6. \A k \in 1 .. len : data[k] = WordAt(n, First(k)) /\ data[k] \in Word
  BY <1>1, <1>2, WordsOfIs
<1> HIDE DEF full, bits, highest, upper, s, len, data
<1>7. \A p \in Nat : BitOf(s, p) = IF p < size THEN BitOf(n, p) ELSE highest
  <2> SUFFICES ASSUME NEW p \in Nat PROVE BitOf(s, p) = IF p < size THEN BitOf(n, p) ELSE highest
    OBVIOUS
  <2> QED  BY <1>4, SignedBits DEF s
<1>8. ASSUME NEW k \in 1 .. DataSize(i)
      PROVE  d[k] \in Word /\ \A j \in Nat : j < WordBits => BitOf(d[k], j) = BitOf(s, First(k) + j)
  <2>1. k \in Nat \ {0} /\ First(k) \in Nat
    BY <1>1, FirstIs
  <2>2. ASSUME k \in 1 .. len
        PROVE  /\ data[k] \in Word /\ data[k] \in Int
               /\ \A j \in Nat : j < WordBits => BitOf(data[k], j) = BitOf(n, First(k) + j)
    <3>1. \A j \in Nat : j < WordBits => BitOf(WordAt(n, First(k)), j) = BitOf(n, First(k) + j)
      BY <1>1, <2>1, WordAtIs
    <3> QED  BY <1>6, <2>2, <3>1, WordIs
  <2>3. CASE k <= full
    <3>1. First(k) + WordBits <= WordBits * full
      BY <1>3, <2>1, <2>3, FirstIs
    <3>2. k <= len
      <4>1. len < k => First(len) + WordBits <= First(k)
        BY <1>2, <2>1, FirstIs
      <4> QED  BY <1>1, <1>2, <1>3, <2>1, <3>1, <4>1
    <3>3. d[k] = data[k] /\ k \in 1 .. len
      BY <1>2, <2>1, <2>3, <3>2
    <3>4. \A j \in Nat : j < WordBits => BitOf(s, First(k) + j) = BitOf(n, First(k) + j)
      <4> SUFFICES ASSUME NEW j \in Nat, j < WordBits PROVE BitOf(s, First(k) + j) = BitOf(n, First(k) + j)
        OBVIOUS
      <4>1. First(k) + j \in Nat /\ First(k) + j < size
        BY <1>1, <1>3, <2>1, <3>1
      <4> QED  BY <1>7, <4>1
    <3> QED  BY <2>2, <3>3, <3>4
  <2>4. CASE k = full + 1 /\ bits # 0
    <3>1. First(k) = WordBits * full /\ First(k) < size
      BY <1>3, <2>4
    <3>2. k <= len
      <4>1. len < k => First(len) + WordBits <= First(k)
        BY <1>2, <2>1, FirstIs
      <4> QED  BY <1>1, <1>2, <1>3, <2>1, <3>1, <4>1
    <3>3. d[k] = (data[k] | Shl(upper, bits)) /\ k \in 1 .. len
      <4>1. ~ k <= full
        BY <1>3, <2>4
      <4> QED  BY <1>2, <2>1, <2>4, <3>2, <4>1
    <3> DEFINE u == Shl(upper, bits)
    <3>4. u \in Word /\ u \in Int
          /\ \A j \in Nat : j < WordBits => BitOf(u, j) = IF j < bits THEN 0 ELSE BitOf(upper, j - bits)
      <4>1. upper \in Int /\ bits \in Nat
        BY <1>3, <1>5
      <4>2. /\ u \in Word
            /\ \A j \in Nat : j < WordBits => BitOf(u, j) = IF j < bits THEN 0 ELSE BitOf(upper, j - bits)
        BY <4>1, ShlBits
      <4>3. u \in Int
        BY <4>2, WordIs
      <4> QED  BY <4>2, <4>3
    <3> HIDE DEF u
    <3>5. (data[k] | u) \in Word
      BY <2>2, <3>3, <3>4, WordsBitwise
    <3>6. ASSUME NEW j \in Nat, j < WordBits
          PROVE  BitOf(data[k] | u, j) = BitOf(s, First(k) + j)
      <4>1. /\ BitOf(data[k], j) \in {0, 1} /\ BitOf(u, j) \in {0, 1}
            /\ BitOf(data[k] | u, j) = IF BitOf(data[k], j) = 0 THEN BitOf(u, j) ELSE 1
        BY <2>2, <3>3, <3>4, <3>6, WordsBitwise
      <4>2. BitOf(data[k], j) = BitOf(n, First(k) + j)
        BY <2>2, <3>3, <3>6
      <4>3. CASE j < bits
        <5>1. First(k) + j \in Nat /\ First(k) + j < size
          BY <1>3, <3>1, <4>3
        <5>2. BitOf(s, First(k) + j) = BitOf(n, First(k) + j)
          BY <1>7, <5>1
        <5>3. BitOf(u, j) = 0
          BY <3>4, <3>6, <4>3
        <5> QED  BY <4>1, <4>2, <5>2, <5>3
      <4>4. CASE ~ j < bits
        <5>1. First(k) + j \in Nat /\ First(k) + j >= size
          BY <1>3, <3>1, <4>4
        <5>2. BitOf(s, First(k) + j) = highest
          BY <1>1, <1>7, <5>1
        <5>3. BitOf(n, First(k) + j) = 0
          BY <1>1, <5>1, BitsAbove
        <5>4. j - bits \in Nat /\ j - bits < WordBits
          BY <1>1, <1>3, <3>6, <4>4
        <5>5. BitOf(u, j) = BitOf(upper, j - bits)
          BY <3>4, <3>6, <4>4
        <5>6. BitOf(upper, j - bits) = highest
          BY <1>5, <5>4
        <5> QED  BY <4>1, <4>2, <5>2, <5>3, <5>5, <5>6
      <4> QED  BY <4>3, <4>4
    <3> QED  BY <3>3, <3>5, <3>6 DEF u
  <2>5. CASE ~ k <= full /\ ~ (k = full + 1 /\ bits # 0)
    <3>1. d[k] = upper
      BY <2>5
    <3>2. First(k) >= size
      <4>1. CASE k = full + 1
        BY <1>3, <2>5, <4>1
      <4>2. CASE k # full + 1
        <5>1. full + 1 < k /\ full + 1 \in Nat \ {0}
          BY <1>3, <2>1, <2>5, <4>2
        <5>2. First(full + 1) + WordBits <= First(k)
          BY <2>1, <5>1, FirstIs
        <5> QED  BY <1>1, <1>3, <2>1, <5>2
      <4> QED  BY <4>1, <4>2
    <3>3. \A j \in Nat : j < WordBits => BitOf(s, First(k) + j) = highest
      <4> SUFFICES ASSUME NEW j \in Nat PROVE BitOf(s, First(k) + j) = highest
        OBVIOUS
      <4>1. First(k) + j \in Nat /\ ~ First(k) + j < size
        BY <1>1, <2>1, <3>2
      <4> QED  BY <1>7, <4>1
    <3> QED  BY <1>5, <3>1, <3>3
  <2> QED  BY <2>3, <2>4, <2>5
<1>9. d \in [1 .. DataSize(i) -> Word]
  BY <1>8
<1>10. \A k \in 1 .. DataSize(i) : \A j \in Nat : j < WordBits => BitOf(d[k], j) = BitOf(s, First(k) + j)
  BY <1>8
<1>11. SignExtendData(size, data, i) = Generic(i, SizeMask(i, d))
  BY DEF SignExtendData, full, bits, highest, upper
<1> HIDE DEF d
<1>12. d = WordsOf(s, DataSize(i))
  BY <1>1, <1>9, <1>10, AreWordsOf
<1>13. SizeMask(i, d) = WordsOf(Low(s, i), DataSize(i))
  BY <1>1, <1>12, SizeMaskIs
<1>14. IsVector(Generic(i, WordsOf(Low(s, i), DataSize(i))), i, Low(s, i))
  BY <1>1, IsGeneric
<1>15. IsVector(SignExtendData(size, data, i), i, Low(s, i))
  BY <1>11, <1>13, <1>14
<1> QED  BY <1>15 DEF s, data, len

\* sign_extend.
LEMMA SignExtendIs ==
  ASSUME NEW v, NEW size, NEW n, IsVector(v, size, n), NEW i \in Nat, i >= size
  PROVE  IsVector(SignExtend(v, i), i, Low(SignedNumber(size, n), i))
<1> DEFINE m == Pow2[size - 1]
           s == SignedNumber(size, n)
<1>1. /\ size \in Nat \ {0} /\ n \in Nat /\ n \in Int /\ n < Pow2[size] /\ v.size = size
      /\ v.kind \in {"small", "sparse", "generic"} /\ WordBits \in Nat
      /\ i \in Nat \ {0}
  BY VectorIs, WordIs
<1>2. /\ size - 1 \in Nat /\ m \in Nat /\ Pow2[size] = 2 * m
      /\ BitOf(n, size - 1) \in {0, 1} /\ (n >= m <=> BitOf(n, size - 1) = 1) /\ s \in Int
      /\ s = IF n >= m THEN n - 2 * m ELSE n
  BY <1>1, TopBit DEF SignedNumber
<1>3. Low(s, size) = n
  BY <1>1, LowOfSigned
<1>4. i > size => Low(n, i) = n
  <2> SUFFICES ASSUME i > size PROVE Low(n, i) = n
    OBVIOUS
  <2>1. Pow2[size] <= Pow2[i] /\ Pow2[size] \in Nat /\ Pow2[i] \in Nat
    BY <1>1, Pow2Monotone
  <2>2. n < Pow2[i]
    BY <1>1, <2>1
  <2> QED  BY <1>1, <2>2, FewBits
<1> HIDE DEF m, s
<1>5. CASE i = size
  BY <1>1, <1>3, <1>5 DEF SignExtend, s
<1>6. CASE i # size /\ v.kind = "small" /\ i > WordBits
  <2>1. v.data = <<n>> /\ Val(v) = n /\ n \in Word /\ size <= WordBits
    BY <1>6, VectorIs
  <2>2. ReadBit(v, size - 1) = (BitOf(n, size - 1) = 1)
    <3>1. size - 1 \in 0 .. size - 1
      BY <1>1
    <3> QED  BY <3>1, ReadBitIs
  <2>3. SignExtend(v, i) = IF ReadBit(v, size - 1) THEN SignExtendData(size, v.data, i)
                                                   ELSE Sparse(i, n)
    BY <1>1, <1>6, <2>1 DEF SignExtend
  <2>4. CASE BitOf(n, size - 1) = 1
    <3>1. <<n>> = WordsOf(n, DataSize(size))
      <4>1. DataSize(size) = 1 /\ n = WordAt(n, 0) /\ First(1) = 0
        BY <1>1, <2>1, DataSizeIs, WordIsWordAt, FirstIs
      <4>2. WordsOf(n, 1) = [k \in 1 .. 1 |-> WordAt(n, First(k))]
        BY DEF WordsOf
      <4>3. <<n>> = [k \in 1 .. 1 |-> n]
        OBVIOUS
      <4>4. \A k \in 1 .. 1 : WordAt(n, First(k)) = n
        BY <4>1
      <4> QED  BY <4>1, <4>2, <4>3, <4>4
    <3>2. SignExtend(v, i) = SignExtendData(size, WordsOf(n, DataSize(size)), i)
      BY <2>1, <2>2, <2>3, <2>4, <3>1
    <3>3. i > size /\ i > WordBits
      BY <1>1, <1>6
    <3> QED  BY <1>1, <3>2, <3>3, SignExtendDataIs
  <2>5. CASE BitOf(n, size - 1) # 1
    <3>1. SignExtend(v, i) = Sparse(i, n) /\ s = n /\ i > size
      <4>1. ~ ReadBit(v, size - 1)
        BY <2>2, <2>5
      <4>2. SignExtend(v, i) = Sparse(i, n)
        BY <2>3, <4>1
      <4>3. s = n
        BY <1>2, <2>5
      <4>4. i > size
        BY <1>1, <1>6
      <4> QED  BY <4>2, <4>3, <4>4
    <3>2. IsVector(Sparse(i, n), i, n)
      BY <1>1, <1>6, <2>1, IsSparse
    <3> QED  BY <1>4, <3>1, <3>2 DEF s
  <2> QED  BY <2>4, <2>5
<1>7. CASE i # size /\ v.kind = "small" /\ i <= WordBits
  <2>1. Val(v) = n /\ n \in Word /\ size <= WordBits
    BY <1>7, VectorIs
  <2>2. SignExtend(v, i) = Small(i, RuintMask(i, Wrap((n ^^ m) - m)))
    <3>1. ~ i > WordBits
      BY <1>1, <1>7
    <3> QED  BY <1>1, <1>7, <2>1, <3>1 DEF SignExtend, m
  <2>3. (n ^^ m) - m = s
    <3> DEFINE t == size - 1
    <3>1. t \in Nat /\ t < WordBits
      BY <1>1, <1>2, <2>1
    <3> HIDE DEF t
    <3>2. (n ^^ Pow2[t]) = IF BitOf(n, t) = 1 THEN n - Pow2[t] ELSE n + Pow2[t]
      BY <2>1, <3>1, XorPower
    <3>3. (n ^^ m) = IF BitOf(n, size - 1) = 1 THEN n - m ELSE n + m
      BY <3>2 DEF t, m
    <3> QED  BY <1>1, <1>2, <3>3
  <2>4. IsVector(Small(i, RuintMask(i, Wrap(s))), i, Low(s, i))
    BY <1>1, <1>2, <1>7, IsSmall
  <2> QED  BY <2>2, <2>3, <2>4 DEF s
<1>8. CASE i # size /\ v.kind = "sparse"
  <2>1. Val(v) = n /\ n \in Word /\ size > WordBits
    BY <1>1, <1>8, VectorIs
  <2>2. SignExtend(v, i) = Sparse(i, n)
    BY <1>1, <1>8, <2>1 DEF SignExtend
  <2>3. s = n
    <3>1. WordBits <= size - 1
      BY <1>1, <2>1
    <3>2. Pow2[WordBits] <= m /\ Pow2[WordBits] \in Nat
      BY <1>1, <1>2, <3>1, Pow2Monotone DEF m
    <3>3. n < Pow2[WordBits]
      BY <2>1, WordIs
    <3> QED  BY <1>1, <1>2, <3>2, <3>3
  <2>4. i > WordBits /\ i > size
    BY <1>1, <1>8, <2>1
  <2>5. IsVector(Sparse(i, n), i, n)
    BY <1>1, <2>1, <2>4, IsSparse
  <2> QED  BY <1>4, <2>2, <2>3, <2>4, <2>5 DEF s
<1>9. CASE i # size /\ v.kind = "generic"
  <2>1. v.data = WordsOf(n, DataSize(size)) /\ size > WordBits
    BY <1>9, GenericIs
  <2>2. SignExtend(v, i) = SignExtendData(size, WordsOf(n, DataSize(size)), i)
    BY <1>1, <1>9, <2>1 DEF SignExtend
  <2>3. i > size /\ i > WordBits
    BY <1>1, <1>9, <2>1
  <2> QED  BY <1>1, <2>2, <2>3, SignExtendDataIs
<1> QED  BY <1>1, <1>5, <1>6, <1>7, <1>8, <1>9

-----------------------------------------------------------------------------
(***************************************************************************)
(* Bits of an array replaced by a vector.                                  *)
(***************************************************************************)

\* The bits of a word of the updated array.
LEMMA PatchWordBits ==
  ASSUME NEW n \in Word, NEW m \in Nat, NEW room \in Nat, m + room <= WordBits,
         NEW s \in Word, s < Pow2[room]
  PROVE  LET x == (n & Complement(Shl(Ones(room), m))) | Shl(s, m)
         IN  /\ x \in Word
             /\ \A k \in Nat : k < WordBits =>
                  BitOf(x, k) = IF m <= k /\ k < m + room THEN BitOf(s, k - m) ELSE BitOf(n, k)
<1> DEFINE o == Ones(room)
           so == Shl(o, m)
           c == Complement(so)
           a == n & c
           t == Shl(s, m)
           x == a | t
<1>1. WordBits \in Nat /\ n \in Int /\ s \in Int /\ room <= WordBits /\ s \in Nat
  BY WordIs
<1>2. o \in Word /\ o \in Int /\ \A k \in Nat : BitOf(o, k) = IF k < room THEN 1 ELSE 0
  <2>1. o \in Word /\ \A k \in Nat : BitOf(o, k) = IF k < room THEN 1 ELSE 0
    BY <1>1, OnesBits
  <2> HIDE DEF o
  <2> QED  BY <2>1, WordIs
<1> HIDE DEF o
<1>3. so \in Word /\ \A k \in Nat : k < WordBits => BitOf(so, k) = IF k < m THEN 0 ELSE BitOf(o, k - m)
  BY <1>2, ShlBits
<1> HIDE DEF so
<1>4. c \in Word /\ c \in Int
      /\ \A k \in Nat : k < WordBits => BitOf(c, k) = 1 - BitOf(so, k)
  <2>1. c \in Word /\ \A k \in Nat : k < WordBits => BitOf(c, k) = 1 - BitOf(so, k)
    BY <1>3, ComplementBits
  <2> HIDE DEF c
  <2> QED  BY <2>1, WordIs
<1> HIDE DEF c
<1>5. a \in Word /\ a \in Int
      /\ \A k \in Nat : k < WordBits => /\ BitOf(n, k) \in {0, 1}
                                        /\ BitOf(a, k) = IF BitOf(n, k) = 0 THEN 0 ELSE BitOf(c, k)
  <2>1. /\ a \in Word
        /\ \A k \in Nat : k < WordBits => /\ BitOf(n, k) \in {0, 1}
                                        /\ BitOf(a, k) = IF BitOf(n, k) = 0 THEN 0 ELSE BitOf(c, k)
    BY <1>1, <1>4, WordsBitwise
  <2> HIDE DEF a
  <2> QED  BY <2>1, WordIs
<1> HIDE DEF a
<1>6. t \in Word /\ t \in Int
      /\ \A k \in Nat : k < WordBits => BitOf(t, k) = IF k < m THEN 0 ELSE BitOf(s, k - m)
  <2>1. t \in Word /\ \A k \in Nat : k < WordBits => BitOf(t, k) = IF k < m THEN 0 ELSE BitOf(s, k - m)
    BY <1>1, ShlBits
  <2> HIDE DEF t
  <2> QED  BY <2>1, WordIs
<1> HIDE DEF t
<1>7. x \in Word /\ \A k \in Nat : k < WordBits =>
              /\ BitOf(a, k) \in {0, 1} /\ BitOf(t, k) \in {0, 1}
              /\ BitOf(x, k) = IF BitOf(a, k) = 0 THEN BitOf(t, k) ELSE 1
  BY <1>5, <1>6, WordsBitwise
<1> HIDE DEF x
<1>8. ASSUME NEW k \in Nat, k < WordBits
      PROVE  BitOf(x, k) = IF m <= k /\ k < m + room THEN BitOf(s, k - m) ELSE BitOf(n, k)
  <2>1. /\ BitOf(a, k) \in {0, 1} /\ BitOf(t, k) \in {0, 1} /\ BitOf(n, k) \in {0, 1}
        /\ BitOf(x, k) = IF BitOf(a, k) = 0 THEN BitOf(t, k) ELSE 1
        /\ BitOf(a, k) = IF BitOf(n, k) = 0 THEN 0 ELSE BitOf(c, k)
        /\ BitOf(c, k) = 1 - BitOf(so, k)
        /\ BitOf(so, k) = IF k < m THEN 0 ELSE BitOf(o, k - m)
        /\ BitOf(t, k) = IF k < m THEN 0 ELSE BitOf(s, k - m)
    BY <1>3, <1>4, <1>5, <1>6, <1>7, <1>8
  <2>2. CASE k < m
    BY <2>1, <2>2
  <2>3. CASE m <= k /\ k < m + room
    <3>1. k - m \in Nat /\ k - m < room
      BY <2>3
    <3>2. BitOf(o, k - m) = 1
      BY <1>2, <3>1
    <3> QED  BY <2>1, <2>3, <3>2
  <2>4. CASE m + room <= k
    <3>1. k - m \in Nat /\ k - m >= room
      BY <2>4
    <3>2. BitOf(o, k - m) = 0
      BY <1>2, <3>1
    <3>3. BitOf(s, k - m) = 0
      BY <1>1, <3>1, BitsOfSmall
    <3> QED  BY <2>1, <2>4, <3>2, <3>3
  <2> QED  BY <2>2, <2>3, <2>4
<1> QED  BY <1>7, <1>8 DEF x, a, c, so, o, t

\* The digits that are moved up by some bits.
LEMMA CarriedBits ==
  ASSUME NEW n \in Int, NEW len \in Nat, NEW bits \in Nat, bits < WordBits, NEW q \in 1 .. len
  PROVE  /\ Shr(WordsOf(n, len)[q], WordBits - bits) \in Word
         /\ \A j \in Nat : j < WordBits =>
              BitOf(Shr(WordsOf(n, len)[q], WordBits - bits), j) =
                IF j < bits THEN BitOf(n, WordBits * q + j - bits) ELSE 0
<1>0. WordBits \in Nat /\ WordBits - bits \in Nat
  BY WordIs
<1> DEFINE w == WordsOf(n, len)[q]
           h == WordBits - bits
<1>1. w = WordAt(n, First(q)) /\ w \in Word /\ First(q) \in Nat
  BY WordsOfIs
<1>2. First(q) + WordBits = WordBits * q
  <2>1. q \in Nat \ {0}
    OBVIOUS
  <2> QED  BY <2>1, FirstIs
<1> HIDE DEF w, h
<1>3. w \in Nat /\ h \in Nat
  BY <1>0, <1>1, WordIs DEF h
<1>4. Shr(w, h) \in Word /\ \A j \in Nat : BitOf(Shr(w, h), j) = BitOf(w, j + h)
  BY <1>1, <1>3, ShrBits
<1>5. ASSUME NEW j \in Nat, j < WordBits
      PROVE  BitOf(Shr(w, h), j) = IF j < bits THEN BitOf(n, WordBits * q + j - bits) ELSE 0
  <2>1. BitOf(Shr(w, h), j) = BitOf(w, j + h) /\ j + h \in Nat
    BY <1>3, <1>4
  <2>2. CASE j < bits
    <3>1. j + h < WordBits
      BY <1>0, <2>2 DEF h
    <3>2. BitOf(w, j + h) = BitOf(n, First(q) + (j + h))
      BY <1>1, <2>1, <3>1, WordAtIs
    <3>3. First(q) + (j + h) = WordBits * q + j - bits
      BY <1>0, <1>1, <1>2 DEF h
    <3> QED  BY <2>1, <2>2, <3>2, <3>3
  <2>3. CASE ~ j < bits
    <3>1. j + h >= WordBits
      BY <1>0, <2>3 DEF h
    <3>2. BitOf(w, j + h) = 0
      BY <1>1, <2>1, <3>1, WordIsWordAt
    <3> QED  BY <2>1, <2>3, <3>2
  <2> QED  BY <2>2, <2>3
<1> QED  BY <1>4, <1>5 DEF w, h

\* A word of the vector put in: a digit moved up, over what the one below
\* it left over.
LEMMA MovedBits ==
  ASSUME NEW n \in Int, NEW len \in Nat, NEW bits \in Nat, bits < WordBits, NEW k \in 1 .. len
  PROVE  /\ Shl(WordsOf(n, len)[k], bits) \in Word
         /\ \A j \in Nat : j < WordBits =>
              BitOf(Shl(WordsOf(n, len)[k], bits), j) =
                IF j < bits THEN 0 ELSE BitOf(n, First(k) + j - bits)
<1>0. WordBits \in Nat /\ WordBits - bits \in Nat
  BY WordIs
<1> DEFINE w == WordsOf(n, len)[k]
<1>1. w = WordAt(n, First(k)) /\ w \in Word /\ First(k) \in Nat
  BY WordsOfIs
<1> HIDE DEF w
<1>3. w \in Int
  BY <1>1, WordIs
<1>4. Shl(w, bits) \in Word
      /\ \A j \in Nat : j < WordBits =>
           BitOf(Shl(w, bits), j) = IF j < bits THEN 0 ELSE BitOf(w, j - bits)
  BY <1>3, ShlBits
<1>5. ASSUME NEW j \in Nat, j < WordBits
      PROVE  BitOf(Shl(w, bits), j) = IF j < bits THEN 0 ELSE BitOf(n, First(k) + j - bits)
  <2>1. CASE j < bits
    BY <1>4, <1>5, <2>1
  <2>2. CASE ~ j < bits
    <3>1. j - bits \in Nat /\ j - bits < WordBits
      BY <1>0, <1>5, <2>2
    <3>2. BitOf(w, j - bits) = BitOf(n, First(k) + (j - bits))
      BY <1>1, <3>1, WordAtIs
    <3>3. First(k) + (j - bits) = First(k) + j - bits
      BY <1>1, <3>1
    <3>4. BitOf(Shl(w, bits), j) = BitOf(w, j - bits)
      BY <1>4, <1>5, <2>2
    <3> QED  BY <2>2, <3>2, <3>3, <3>4
  <2> QED  BY <2>1, <2>2
<1> QED  BY <1>4, <1>5 DEF w

\* Words side by side.
LEMMA OrWords ==
  ASSUME NEW x \in Word, NEW y \in Word
  PROVE  /\ (x | y) \in Word
         /\ \A k \in Nat : k < WordBits =>
              /\ BitOf(x, k) \in {0, 1} /\ BitOf(y, k) \in {0, 1}
              /\ BitOf(x | y, k) = IF BitOf(x, k) = 0 THEN BitOf(y, k) ELSE 1
<1>1. x \in Int /\ y \in Int
  BY WordIs
<1> QED  BY <1>1, WordsBitwise

\* Words with common bits.
LEMMA AndWords ==
  ASSUME NEW x \in Word, NEW y \in Word
  PROVE  /\ (x & y) \in Word
         /\ \A k \in Nat : k < WordBits =>
              /\ BitOf(x, k) \in {0, 1} /\ BitOf(y, k) \in {0, 1}
              /\ BitOf(x & y, k) = IF BitOf(x, k) = 0 THEN 0 ELSE BitOf(y, k)
<1>1. x \in Int /\ y \in Int
  BY WordIs
<1> QED  BY <1>1, WordsBitwise

\* A word below a position and a word from there on.
LEMMA LowerPart ==
  ASSUME NEW x \in Word, NEW i \in Nat, i <= WordBits
  PROVE  /\ (x & Ones(i)) \in Word
         /\ (x & Complement(Ones(i))) \in Word
         /\ \A k \in Nat : k < WordBits =>
              /\ BitOf(x & Ones(i), k) = IF k < i THEN BitOf(x, k) ELSE 0
              /\ BitOf(x & Complement(Ones(i)), k) = IF k < i THEN 0 ELSE BitOf(x, k)
<1> DEFINE o == Ones(i)
           c == Complement(o)
<1>1. o \in Word /\ \A k \in Nat : BitOf(o, k) = IF k < i THEN 1 ELSE 0
  BY OnesBits
<1> HIDE DEF o
<1>2. c \in Word /\ \A k \in Nat : k < WordBits => BitOf(c, k) = 1 - BitOf(o, k)
  BY <1>1, ComplementBits
<1> HIDE DEF c
<1>3. (x & o) \in Word /\ (x & c) \in Word
  BY <1>1, <1>2, AndWords
<1>4. ASSUME NEW k \in Nat, k < WordBits
      PROVE  /\ BitOf(x & o, k) = IF k < i THEN BitOf(x, k) ELSE 0
             /\ BitOf(x & c, k) = IF k < i THEN 0 ELSE BitOf(x, k)
  <2>1. BitOf(x, k) \in {0, 1} /\ BitOf(x & o, k) = IF BitOf(x, k) = 0 THEN 0 ELSE BitOf(o, k)
    BY <1>1, <1>4, AndWords
  <2>2. BitOf(x & c, k) = IF BitOf(x, k) = 0 THEN 0 ELSE BitOf(c, k)
    BY <1>2, <1>4, AndWords
  <2>3. BitOf(o, k) = IF k < i THEN 1 ELSE 0
    BY <1>1
  <2>4. BitOf(c, k) = IF k < i THEN 0 ELSE 1
    BY <1>2, <1>4, <2>3
  <2> QED  BY <2>1, <2>2, <2>3, <2>4
<1> QED  BY <1>3, <1>4 DEF c, o

\* The words of the updated array are those of the patched number.
LEMMA UpdateWordsIs ==
  ASSUME NEW size \in Nat \ {0}, NEW n \in Nat, n < Pow2[size],
         NEW high \in 0 .. size - 1, NEW low \in 0 .. high,
         NEW ms \in Nat, ms < Pow2[high - low + 1]
  PROVE  UpdateWords(WordsOf(n, DataSize(size)), high, low, WordsOf(ms, DataSize(high - low + 1)))
           = WordsOf(Patched(n, low, high - low + 1, ms), DataSize(size))
<1> DEFINE width == high - low + 1
           r == Patched(n, low, width, ms)
           len == DataSize(size)
           lens == DataSize(width)
           d == WordsOf(n, len)
           s == WordsOf(ms, lens)
           start == WordIndex(low)
           bits == BitIndex(low)
           end == WordIndex(high + 1)
           endBits == BitIndex(high + 1)
           carried(k) == IF k = start THEN d[k + 1] & Ones(bits)
                                      ELSE Shr(s[k - start], WordBits - bits)
           digit(k) == Shl(s[k - start + 1], bits)
           e == UpdateWords(d, high, low, s)
           target(p) == IF p < low THEN BitOf(n, p) ELSE BitOf(ms, p - low)
<1>1. /\ WordBits \in Nat /\ WordBits >= 2 /\ n \in Int /\ ms \in Int /\ size \in Nat
      /\ low \in Nat /\ high \in Nat /\ low <= high /\ high + 1 <= size /\ high + 1 \in Nat
      /\ width \in Nat \ {0} /\ low + width = high + 1
  BY WordIs
<1>2. /\ len \in Nat \ {0} /\ First(len) \in Nat
      /\ First(len) < size /\ size <= First(len) + WordBits
  BY DataSizeIs
<1>3. /\ lens \in Nat \ {0} /\ First(lens) \in Nat
      /\ First(lens) < width /\ width <= First(lens) + WordBits
  BY <1>1, DataSizeIs
<1>4. /\ start \in Nat /\ bits \in Nat /\ bits < WordBits
      /\ low = WordBits * start + bits /\ WordBits * start \in Nat
      /\ end \in Nat /\ endBits \in Nat /\ endBits < WordBits
      /\ high + 1 = WordBits * end + endBits /\ WordBits * end \in Nat
  BY <1>1, IndexIs
<1>5. \A k \in 1 .. len : d[k] = WordAt(n, First(k)) /\ d[k] \in Word /\ First(k) \in Nat
  BY <1>1, <1>2, WordsOfIs
<1>6. DOMAIN d = 1 .. len
  BY <1>1, <1>2, WordsOfIs
<1>7. e = [k1 \in 1 .. len |->
         LET k == k1 - 1
         IN  CASE k < start -> d[k1]
               [] start <= k /\ k < end -> carried(k) | digit(k)
               [] k = end /\ endBits # 0 ->
                    (d[k1] & Complement(Ones(endBits))) | carried(k)
                    | (IF bits < endBits THEN digit(k) ELSE 0)
               [] OTHER -> d[k1]]
  BY <1>6 DEF UpdateWords
<1> HIDE DEF e
<1>8. /\ r \in Int
      /\ \A p \in Nat : BitOf(r, p) = IF low <= p /\ p < high + 1 THEN BitOf(ms, p - low) ELSE BitOf(n, p)
  <2> SUFFICES ASSUME NEW p \in Nat
               PROVE  /\ r \in Int
                      /\ BitOf(r, p) = IF low <= p /\ p < high + 1 THEN BitOf(ms, p - low) ELSE BitOf(n, p)
    <3>1. 0 \in Nat
      OBVIOUS
    <3> HIDE DEF r
    <3> QED  BY <3>1
  <2>1. ms < Pow2[width] /\ width \in Nat
    BY <1>1
  <2> HIDE DEF width
  <2>2. BitOf(r, p) = IF low <= p /\ p < low + width THEN BitOf(ms, p - low) ELSE BitOf(n, p)
    BY <1>1, <2>1, PatchedBit
  <2>3. r \in Int
    BY <1>1, <2>1, PatchedIs
  <2> QED  BY <1>1, <2>2, <2>3
<1> HIDE DEF r, d, s, start, bits, end, endBits, len, lens
\* the two parts of a word
<1>9. ASSUME NEW k \in Nat, start < k, WordBits * k < high + 1 + WordBits - bits
      PROVE  k - start \in 1 .. lens
  <2> DEFINE q == k - start
  <2>1. q \in Nat \ {0} /\ k = start + q
    BY <1>4, <1>9
  <2> HIDE DEF q
  <2>2. WordBits * k = WordBits * start + WordBits * q
    BY <1>1, <1>4, <2>1
  <2>3. WordBits * q = First(q) + WordBits /\ First(q) \in Nat
    BY <2>1, FirstIs
  <2>4. First(q) < width
    BY <1>1, <1>4, <1>9, <2>2, <2>3
  <2>5. q <= lens
    <3>1. lens < q => First(lens) + WordBits <= First(q)
      BY <1>3, <2>1, FirstIs
    <3> HIDE DEF width
    <3> QED  BY <1>1, <1>3, <2>1, <2>3, <2>4, <3>1
  <2> QED  BY <1>3, <2>1, <2>5 DEF q
<1>10. ASSUME NEW k \in Nat, start <= k, WordBits * k < high + 1, k + 1 \in 1 .. len
       PROVE  /\ carried(k) \in Word
              /\ \A j \in Nat : j < WordBits =>
                   BitOf(carried(k), j) = IF j < bits THEN target(WordBits * k + j) ELSE 0
  <2>1. WordBits * k \in Nat
    BY <1>1
  <2>2. CASE k = start
    <3>1. /\ d[k + 1] \in Word
          /\ \A j \in Nat : j < WordBits => BitOf(d[k + 1], j) = BitOf(n, WordBits * k + j)
      <4>1. First(k + 1) = WordBits * k
        BY DEF First
      <4>2. d[k + 1] = WordAt(n, WordBits * k) /\ d[k + 1] \in Word
        BY <1>5, <1>10, <4>1
      <4> QED  BY <1>1, <2>1, <4>2, WordAtIs
    <3>2. /\ (d[k + 1] & Ones(bits)) \in Word
          /\ \A j \in Nat : j < WordBits =>
               BitOf(d[k + 1] & Ones(bits), j) = IF j < bits THEN BitOf(d[k + 1], j) ELSE 0
      <4> DEFINE x == d[k + 1]
      <4>1. x \in Word /\ bits <= WordBits
        BY <1>1, <1>4, <3>1
      <4> HIDE DEF x
      <4>2. (x & Ones(bits)) \in Word
        BY <1>4, <4>1, LowerPart
      <4>3. ASSUME NEW j \in Nat, j < WordBits
            PROVE  BitOf(x & Ones(bits), j) = IF j < bits THEN BitOf(x, j) ELSE 0
        BY <1>4, <4>1, <4>3, LowerPart
      <4> QED  BY <4>2, <4>3 DEF x
    <3>3. carried(k) = (d[k + 1] & Ones(bits))
      BY <2>2
    <3>4. ASSUME NEW j \in Nat, j < WordBits
          PROVE  BitOf(carried(k), j) = IF j < bits THEN target(WordBits * k + j) ELSE 0
      <4>1. j < bits => WordBits * k + j < low
        BY <1>4, <2>2
      <4> QED  BY <3>1, <3>2, <3>3, <3>4, <4>1
    <3> QED  BY <3>2, <3>3, <3>4
  <2>3. CASE k # start
    <3> DEFINE q == k - start
    <3>1. q \in Nat /\ q \in 1 .. lens
      <4>1. start < k /\ WordBits * k < high + 1 + WordBits - bits
        BY <1>1, <1>4, <1>10, <2>1, <2>3
      <4> QED  BY <1>9, <4>1
    <3>2. k = start + q
      BY <1>4
    <3> HIDE DEF q
    <3>3. WordBits * k = WordBits * start + WordBits * q /\ WordBits * q \in Nat
      BY <1>1, <1>4, <3>1, <3>2
    <3>4. /\ Shr(s[q], WordBits - bits) \in Word
          /\ \A j \in Nat : j < WordBits =>
               BitOf(Shr(s[q], WordBits - bits), j) =
                 IF j < bits THEN BitOf(ms, WordBits * q + j - bits) ELSE 0
      <4>1. /\ ms \in Int /\ lens \in Nat /\ bits \in Nat /\ bits < WordBits /\ q \in 1 .. lens
            /\ s = WordsOf(ms, lens)
        BY <1>1, <1>3, <1>4, <3>1 DEF s
      <4> HIDE DEF width
      <4>2. Shr(s[q], WordBits - bits) \in Word
        BY <4>1, CarriedBits
      <4>3. ASSUME NEW j \in Nat, j < WordBits
            PROVE  BitOf(Shr(s[q], WordBits - bits), j) =
                     IF j < bits THEN BitOf(ms, WordBits * q + j - bits) ELSE 0
        BY <4>1, <4>3, CarriedBits
      <4> QED  BY <4>2, <4>3
    <3>5. carried(k) = Shr(s[q], WordBits - bits)
      BY <2>3 DEF q
    <3>6. ASSUME NEW j \in Nat, j < WordBits
          PROVE  BitOf(carried(k), j) = IF j < bits THEN target(WordBits * k + j) ELSE 0
      <4>1. WordBits * q >= WordBits
        <5>1. q \in Nat \ {0}
          BY <3>1
        <5>2. WordBits * q = First(q) + WordBits /\ First(q) \in Nat
          BY <5>1, FirstIs
        <5> QED  BY <1>1, <5>2
      <4>2. ~ WordBits * k + j < low /\ WordBits * k + j - low = WordBits * q + j - bits
        BY <1>1, <1>4, <3>3, <4>1
      <4>3. BitOf(carried(k), j) = IF j < bits THEN BitOf(ms, WordBits * q + j - bits) ELSE 0
        BY <3>4, <3>5, <3>6
      <4>4. target(WordBits * k + j) = BitOf(ms, WordBits * q + j - bits)
        <5> DEFINE p == WordBits * k + j
                   z == WordBits * q + j - bits
        <5>1. ~ p < low /\ p - low = z
          BY <1>1, <1>4, <3>1, <3>3, <4>2
        <5> HIDE DEF p, z
        <5>2. target(p) = BitOf(ms, z)
          BY <5>1
        <5> QED  BY <5>2 DEF p, z
      <4> HIDE DEF target, carried
      <4> QED  BY <4>3, <4>4
    <3> QED  BY <3>4, <3>5, <3>6
  <2> QED  BY <2>2, <2>3
<1>11. ASSUME NEW k \in Nat, start <= k, WordBits * k + bits < high + 1
       PROVE  /\ digit(k) \in Word
              /\ \A j \in Nat : j < WordBits =>
                   BitOf(digit(k), j) = IF j < bits THEN 0 ELSE target(WordBits * k + j)
  <2> DEFINE q == k - start
  <2>1. q \in Nat /\ k = start + q /\ WordBits * k \in Nat
    BY <1>1, <1>4, <1>11
  <2> HIDE DEF q
  <2>2. WordBits * k = WordBits * start + WordBits * q /\ WordBits * q \in Nat
    BY <1>1, <1>4, <2>1
  <2>3. q + 1 \in 1 .. lens
    <3>1. First(q + 1) = WordBits * q /\ q + 1 \in Nat \ {0}
      BY <2>1 DEF First
    <3>2. lens < q + 1 => First(lens) + WordBits <= First(q + 1)
      BY <1>3, <3>1, FirstIs
    <3>3. WordBits * q < width
      BY <1>1, <1>4, <1>11, <2>2
    <3> QED  BY <1>1, <1>3, <2>1, <2>2, <3>1, <3>2, <3>3
  <2>4. /\ Shl(s[q + 1], bits) \in Word
        /\ \A j \in Nat : j < WordBits =>
             BitOf(Shl(s[q + 1], bits), j) =
               IF j < bits THEN 0 ELSE BitOf(ms, WordBits * q + j - bits)
    <3>1. /\ ms \in Int /\ lens \in Nat /\ bits \in Nat /\ bits < WordBits /\ q \in Nat
          /\ q + 1 \in 1 .. lens /\ s = WordsOf(ms, lens)
      BY <1>1, <1>3, <1>4, <2>1, <2>3 DEF s
    <3> HIDE DEF width
    <3>4. First(q + 1) = WordBits * q
      BY <1>1, <2>1 DEF First
    <3>2. Shl(s[q + 1], bits) \in Word
      BY <3>1, MovedBits
    <3>3. ASSUME NEW j \in Nat, j < WordBits
          PROVE  BitOf(Shl(s[q + 1], bits), j) =
                   IF j < bits THEN 0 ELSE BitOf(ms, WordBits * q + j - bits)
      <4>1. \A i \in Nat : i < WordBits =>
              BitOf(Shl(WordsOf(ms, lens)[q + 1], bits), i) =
                IF i < bits THEN 0 ELSE BitOf(ms, WordBits * q + i - bits)
        <5> SUFFICES ASSUME NEW i \in Nat, i < WordBits
                     PROVE  BitOf(Shl(WordsOf(ms, lens)[q + 1], bits), i) =
                              IF i < bits THEN 0 ELSE BitOf(ms, WordBits * q + i - bits)
          OBVIOUS
        <5> DEFINE k1 == q + 1
        <5>1. ms \in Int /\ lens \in Nat /\ bits \in Nat /\ bits < WordBits
              /\ k1 \in 1 .. lens /\ First(k1) = WordBits * q
          BY <3>1, <3>4
        <5> HIDE DEF k1
        <5>2. BitOf(Shl(WordsOf(ms, lens)[k1], bits), i) =
                IF i < bits THEN 0 ELSE BitOf(ms, First(k1) + i - bits)
          BY <5>1, MovedBits
        <5> QED  BY <5>1, <5>2 DEF k1
      <4> QED  BY <3>1, <3>3, <4>1
    <3> QED  BY <3>2, <3>3
  <2>5. digit(k) = Shl(s[q + 1], bits)
    BY DEF q
  <2>6. ASSUME NEW j \in Nat, j < WordBits
        PROVE  BitOf(digit(k), j) = IF j < bits THEN 0 ELSE target(WordBits * k + j)
    <3>1. j >= bits => ~ WordBits * k + j < low
      BY <1>1, <1>4, <2>2
    <3>2. WordBits * k + j - low = WordBits * q + j - bits
      BY <1>1, <1>4, <2>2
    <3>3. BitOf(digit(k), j) = IF j < bits THEN 0 ELSE BitOf(ms, WordBits * q + j - bits)
      BY <2>4, <2>5, <2>6
    <3>4. j >= bits => target(WordBits * k + j) = BitOf(ms, WordBits * q + j - bits)
      <4> DEFINE p == WordBits * k + j
                 z == WordBits * q + j - bits
      <4>1. j >= bits => ~ p < low
        BY <3>1
      <4>2. p - low = z
        BY <1>1, <1>4, <2>1, <2>2, <3>2
      <4> HIDE DEF p, z
      <4>3. j >= bits => target(p) = BitOf(ms, z)
        BY <4>1, <4>2
      <4> QED  BY <4>3 DEF p, z
    <3> HIDE DEF target, digit
    <3> QED  BY <1>4, <3>3, <3>4
  <2> QED  BY <2>4, <2>5, <2>6
<1> HIDE DEF carried, digit
<1>12. \A p \in Nat : p >= high + 1 => target(p) = 0
  <2> SUFFICES ASSUME NEW p \in Nat, p >= high + 1 PROVE target(p) = 0
    OBVIOUS
  <2>1. ~ p < low /\ p - low \in Nat /\ p - low >= width
    BY <1>1
  <2>2. BitOf(ms, p - low) = 0
    <3> DEFINE j == p - low
    <3>1. j \in Nat /\ j >= width /\ width \in Nat /\ ms < Pow2[width]
      BY <1>1, <2>1
    <3> HIDE DEF j, width
    <3>2. BitOf(ms, j) = 0
      BY <3>1, BitsOfSmall
    <3> QED  BY <3>2 DEF j
  <2> QED  BY <2>1, <2>2
<1>13. \A p \in Nat : /\ p < high + 1 => BitOf(r, p) = target(p)
                      /\ ~ p < high + 1 => BitOf(r, p) = BitOf(n, p)
                      /\ p < low => BitOf(r, p) = BitOf(n, p)
  <2> SUFFICES ASSUME NEW p \in Nat
               PROVE  /\ p < high + 1 => BitOf(r, p) = target(p)
                      /\ ~ p < high + 1 => BitOf(r, p) = BitOf(n, p)
                      /\ p < low => BitOf(r, p) = BitOf(n, p)
    OBVIOUS
  <2>1. BitOf(r, p) = IF low <= p /\ p < high + 1 THEN BitOf(ms, p - low) ELSE BitOf(n, p)
    BY <1>8
  <2> QED  BY <1>1, <2>1
<1> HIDE DEF target, width
<1>17. \A a, b \in Nat : a < b => WordBits * a + WordBits <= WordBits * b
  <2> SUFFICES ASSUME NEW a \in Nat, NEW b \in Nat, a < b
               PROVE  WordBits * a + WordBits <= WordBits * b
    OBVIOUS
  <2>1. a + 1 <= b /\ a + 1 \in Int /\ b \in Int /\ WordBits \in Int /\ WordBits >= 0
    BY <1>1
  <2>2. WordBits * (a + 1) <= WordBits * b
    BY <2>1, ProductMonotone
  <2>3. WordBits * (a + 1) = WordBits * a + WordBits
    BY <1>1
  <2> QED  BY <2>2, <2>3
<1>14. ASSUME NEW k1 \in 1 .. len
       PROVE  e[k1] \in Word /\ \A j \in Nat : j < WordBits => BitOf(e[k1], j) = BitOf(r, First(k1) + j)
  <2> DEFINE k == k1 - 1
  <2>1. k \in Nat /\ k1 = k + 1 /\ First(k1) = WordBits * k /\ WordBits * k \in Nat
    BY <1>1, <1>2 DEF First
  <2>2. e[k1] = CASE k < start -> d[k1]
               [] start <= k /\ k < end -> carried(k) | digit(k)
               [] k = end /\ endBits # 0 ->
                    (d[k1] & Complement(Ones(endBits))) | carried(k)
                    | (IF bits < endBits THEN digit(k) ELSE 0)
               [] OTHER -> d[k1]
    BY <1>7
  <2> HIDE DEF k
  <2>3. /\ d[k1] \in Word
        /\ \A j \in Nat : j < WordBits => BitOf(d[k1], j) = BitOf(n, WordBits * k + j)
    <3>1. d[k1] = WordAt(n, WordBits * k) /\ d[k1] \in Word
      BY <1>5, <2>1
    <3> QED  BY <1>1, <2>1, <3>1, WordAtIs
  <2>4. /\ k < start => WordBits * k + WordBits <= WordBits * start
        /\ k < end => WordBits * k + WordBits <= WordBits * end
        /\ end < k => WordBits * end + WordBits <= WordBits * k
    BY <1>4, <1>17, <2>1
  <2>5. CASE k < start
    <3>1. e[k1] = d[k1]
      <4>1. ~ end < start
        <5>1. end < start => WordBits * end + WordBits <= WordBits * start
          BY <1>17, <1>4
        <5> QED  BY <1>1, <1>4, <5>1
      <4>2. k # end /\ ~ start <= k
        BY <1>4, <2>1, <2>5, <4>1
      <4> QED  BY <2>2, <2>5, <4>2
    <3>2. ASSUME NEW j \in Nat, j < WordBits PROVE BitOf(r, WordBits * k + j) = BitOf(n, WordBits * k + j)
      <4>1. WordBits * k + j \in Nat /\ WordBits * k + j < low
        BY <1>1, <1>4, <2>1, <2>4, <2>5, <3>2
      <4> QED  BY <1>13, <4>1
    <3> QED  BY <2>1, <2>3, <3>1, <3>2
  <2>6. CASE start <= k /\ k < end
    <3>1. e[k1] = (carried(k) | digit(k))
      <4>1. ~ k < start
        BY <1>4, <2>1, <2>6
      <4>2. ~ (k = end /\ endBits # 0)
        BY <1>4, <2>1, <2>6
      <4> QED  BY <2>2, <2>6, <4>1, <4>2
    <3>2. WordBits * k < high + 1 /\ WordBits * k + bits < high + 1 /\ WordBits * k + WordBits <= high + 1
      BY <1>1, <1>4, <2>1, <2>4, <2>6
    <3>3. /\ carried(k) \in Word
          /\ \A j \in Nat : j < WordBits =>
               BitOf(carried(k), j) = IF j < bits THEN target(WordBits * k + j) ELSE 0
      BY <1>10, <2>1, <2>6, <3>2
    <3>4. /\ digit(k) \in Word
          /\ \A j \in Nat : j < WordBits =>
               BitOf(digit(k), j) = IF j < bits THEN 0 ELSE target(WordBits * k + j)
      BY <1>11, <2>1, <2>6, <3>2
    <3>5. /\ e[k1] \in Word
          /\ \A j \in Nat : j < WordBits =>
               /\ BitOf(carried(k), j) \in {0, 1} /\ BitOf(digit(k), j) \in {0, 1}
               /\ BitOf(e[k1], j) = IF BitOf(carried(k), j) = 0 THEN BitOf(digit(k), j) ELSE 1
      BY <3>1, <3>3, <3>4, OrWords
    <3>6. ASSUME NEW j \in Nat, j < WordBits PROVE BitOf(e[k1], j) = BitOf(r, WordBits * k + j)
      <4>1. WordBits * k + j \in Nat /\ WordBits * k + j < high + 1
        BY <1>1, <2>1, <3>2, <3>6
      <4>2. BitOf(r, WordBits * k + j) = target(WordBits * k + j)
        BY <1>13, <4>1
      <4> QED  BY <3>3, <3>4, <3>5, <3>6, <4>2
    <3> QED  BY <2>1, <3>5, <3>6
  <2>7. CASE k = end /\ endBits # 0 /\ start <= k
    <3> DEFINE a == d[k1] & Complement(Ones(endBits))
               c == carried(k)
               g == IF bits < endBits THEN digit(k) ELSE 0
               b == a | c
    <3>1. e[k1] = (b | g)
      <4>1. ~ k < start /\ ~ k < end
        BY <1>4, <2>1, <2>7
      <4> QED  BY <2>2, <2>7, <4>1
    <3>2. WordBits * k < high + 1 /\ high + 1 = WordBits * k + endBits
      BY <1>1, <1>4, <2>1, <2>7
    <3>3. a \in Word /\ \A j \in Nat : j < WordBits =>
            BitOf(a, j) = IF j < endBits THEN 0 ELSE BitOf(d[k1], j)
      <4>1. endBits <= WordBits
        BY <1>1, <1>4
      <4> QED  BY <1>4, <2>3, <4>1, LowerPart
    <3>4. /\ c \in Word
          /\ \A j \in Nat : j < WordBits =>
               BitOf(c, j) = IF j < bits THEN target(WordBits * k + j) ELSE 0
      BY <1>10, <2>1, <2>7, <3>2
    <3>5. /\ g \in Word
          /\ \A j \in Nat : j < WordBits =>
               BitOf(g, j) = IF bits < endBits /\ j >= bits THEN target(WordBits * k + j) ELSE 0
      <4>1. CASE bits < endBits
        <5>1. WordBits * k + bits < high + 1
          BY <1>1, <1>4, <2>1, <3>2, <4>1
        <5>2. /\ digit(k) \in Word
              /\ \A j \in Nat : j < WordBits =>
                   BitOf(digit(k), j) = IF j < bits THEN 0 ELSE target(WordBits * k + j)
          BY <1>11, <2>1, <2>7, <5>1
        <5> QED  BY <1>4, <4>1, <5>2
      <4>2. CASE ~ bits < endBits
        <5>1. g = 0 /\ 0 \in Word
          BY <4>2, WordIs
        <5> QED  BY <4>2, <5>1, BitsOfZero
      <4> QED  BY <4>1, <4>2
    <3> HIDE DEF a, c, g
    <3>6. /\ b \in Word
          /\ \A j \in Nat : j < WordBits =>
               /\ BitOf(a, j) \in {0, 1} /\ BitOf(c, j) \in {0, 1}
               /\ BitOf(b, j) = IF BitOf(a, j) = 0 THEN BitOf(c, j) ELSE 1
      BY <3>3, <3>4, OrWords
    <3> HIDE DEF b
    <3>7. /\ e[k1] \in Word
          /\ \A j \in Nat : j < WordBits =>
               /\ BitOf(b, j) \in {0, 1} /\ BitOf(g, j) \in {0, 1}
               /\ BitOf(e[k1], j) = IF BitOf(b, j) = 0 THEN BitOf(g, j) ELSE 1
      BY <3>1, <3>5, <3>6, OrWords
    <3>8. ASSUME NEW j \in Nat, j < WordBits PROVE BitOf(e[k1], j) = BitOf(r, WordBits * k + j)
      <4> DEFINE p == WordBits * k + j
      <4>1. p \in Nat /\ (p < high + 1 <=> j < endBits)
        BY <1>1, <1>4, <2>1, <3>2
      <4>2. /\ BitOf(a, j) = IF j < endBits THEN 0 ELSE BitOf(d[k1], j)
            /\ BitOf(c, j) = IF j < bits THEN target(p) ELSE 0
            /\ BitOf(g, j) = IF bits < endBits /\ j >= bits THEN target(p) ELSE 0
            /\ BitOf(d[k1], j) = BitOf(n, p)
        BY <2>3, <3>3, <3>4, <3>5, <3>8
      <4>3. /\ BitOf(a, j) \in {0, 1} /\ BitOf(c, j) \in {0, 1}
            /\ BitOf(b, j) = IF BitOf(a, j) = 0 THEN BitOf(c, j) ELSE 1
            /\ BitOf(b, j) \in {0, 1} /\ BitOf(g, j) \in {0, 1}
            /\ BitOf(e[k1], j) = IF BitOf(b, j) = 0 THEN BitOf(g, j) ELSE 1
        BY <3>6, <3>7, <3>8
      <4> SUFFICES BitOf(e[k1], j) = BitOf(r, p)
        OBVIOUS
      <4> HIDE DEF p
      <4>4. CASE j < endBits
        <5>1. BitOf(r, p) = target(p)
          BY <1>13, <4>1, <4>4
        <5>2. CASE j < bits
          <6>1. BitOf(a, j) = 0 /\ BitOf(c, j) = target(p) /\ BitOf(g, j) = 0
            BY <1>4, <4>2, <4>4, <5>2
          <6>2. BitOf(b, j) = target(p)
            BY <4>3, <6>1
          <6>3. target(p) \in {0, 1}
            BY <4>3, <6>1
          <6> QED  BY <4>3, <5>1, <6>1, <6>2, <6>3
        <5>3. CASE ~ j < bits
          <6>1. bits < endBits /\ j >= bits
            BY <1>4, <4>4, <5>3
          <6>2. BitOf(a, j) = 0 /\ BitOf(c, j) = 0 /\ BitOf(g, j) = target(p)
            BY <4>2, <4>4, <5>3, <6>1
          <6>3. BitOf(b, j) = 0
            BY <4>3, <6>2
          <6> QED  BY <4>3, <5>1, <6>2, <6>3
        <5> QED  BY <5>2, <5>3
      <4>5. CASE ~ j < endBits
        <5>1. BitOf(r, p) = BitOf(n, p)
          BY <1>13, <4>1, <4>5
        <5>2. target(p) = 0
          <6>1. p >= high + 1
            BY <1>1, <4>1, <4>5
          <6> QED  BY <1>12, <4>1, <6>1
        <5>3. BitOf(a, j) = BitOf(n, p) /\ BitOf(c, j) = 0 /\ BitOf(g, j) = 0
          BY <4>2, <4>5, <5>2
        <5>4. BitOf(b, j) = BitOf(n, p) /\ BitOf(n, p) \in {0, 1}
          BY <4>3, <5>3
        <5> QED  BY <4>3, <5>1, <5>3, <5>4
      <4> QED  BY <4>4, <4>5
    <3> QED  BY <2>1, <3>7, <3>8
  <2>8. CASE start <= k /\ ~ k < end /\ ~ (k = end /\ endBits # 0)
    <3>1. e[k1] = d[k1]
      <4>1. ~ k < start
        BY <1>4, <2>1, <2>8
      <4> QED  BY <2>2, <2>8, <4>1
    <3>2. ASSUME NEW j \in Nat, j < WordBits PROVE BitOf(r, WordBits * k + j) = BitOf(n, WordBits * k + j)
      <4>1. high + 1 <= WordBits * k
        <5>1. CASE k = end
          BY <1>1, <1>4, <2>8, <5>1
        <5>2. CASE k # end
          <6>1. end < k
            BY <1>4, <2>1, <2>8, <5>2
          <6> QED  BY <1>1, <1>4, <2>1, <2>4, <6>1
        <5> QED  BY <5>1, <5>2
      <4>2. WordBits * k + j \in Nat /\ ~ WordBits * k + j < high + 1
        BY <1>1, <2>1, <4>1
      <4> QED  BY <1>13, <4>2
    <3> QED  BY <2>1, <2>3, <3>1, <3>2
  <2>9. k < start \/ start <= k
    BY <1>4, <2>1
  <2> QED  BY <2>5, <2>6, <2>7, <2>8, <2>9
<1>15. e \in [1 .. len -> Word]
  <2>1. DOMAIN e = 1 .. len /\ e = [k1 \in 1 .. len |-> e[k1]]
    BY <1>7
  <2> QED  BY <1>14, <2>1
<1>16. \A k1 \in 1 .. len : \A j \in Nat : j < WordBits => BitOf(e[k1], j) = BitOf(r, First(k1) + j)
  BY <1>14
<1>18. e = WordsOf(r, len)
  BY <1>2, <1>8, <1>15, <1>16, AreWordsOf
<1> QED  BY <1>18 DEF e, d, s, r, len, lens, width

\* The digits of any vector, with zeros above.
LEMMA SmallDigits ==
  ASSUME NEW v, NEW size, NEW n, IsVector(v, size, n), v.kind # "sparse"
  PROVE  v.data = WordsOf(n, DataSize(size))
<1>1. CASE v.kind = "generic"
  BY <1>1, VectorIs
<1>2. CASE v.kind = "small"
  <2>1. v.data = <<n>> /\ n \in Word /\ size \in Nat \ {0} /\ size <= WordBits
    BY <1>2, VectorIs
  <2>2. DataSize(size) = 1 /\ n = WordAt(n, 0) /\ First(1) = 0
    BY <2>1, DataSizeIs, WordIsWordAt, FirstIs
  <2>3. WordsOf(n, 1) = [k \in 1 .. 1 |-> WordAt(n, First(k))]
    BY DEF WordsOf
  <2>4. <<n>> = [k \in 1 .. 1 |-> n]
    OBVIOUS
  <2>5. \A k \in 1 .. 1 : WordAt(n, First(k)) = n
    BY <2>2
  <2> QED  BY <2>1, <2>2, <2>3, <2>4, <2>5
<1> QED  BY <1>1, <1>2, VectorIs

\* update_subrange, in all combinations of representations.
LEMMA UpdateSubrangeIs ==
  ASSUME NEW v, NEW size, NEW n, IsVector(v, size, n),
         NEW high \in 0 .. size - 1, NEW low \in 0 .. high,
         NEW s, NEW ms, IsVector(s, high - low + 1, ms)
  PROVE  /\ IsVector(UpdateSubrange(v, high, low, s), size, Patched(n, low, high - low + 1, ms))
         /\ Low(Patched(n, low, high - low + 1, ms), size) = Patched(n, low, high - low + 1, ms)
<1> DEFINE width == high - low + 1
           r == Patched(n, low, width, ms)
           room == IF high >= WordBits THEN WordBits - low ELSE s.size
           fits == s.size <= WordBits /\ low < WordBits /\ Shr(Val(s), room) = 0
           digits == IF s.kind = "sparse" THEN ToGeneric(s).data ELSE s.data
           x == (n & Complement(Shl(Ones(room), low))) | Shl(ms, low)
<1>1. /\ size \in Nat \ {0} /\ size \in Nat /\ n \in Nat /\ n \in Int /\ n < Pow2[size]
      /\ Low(n, size) = n
      /\ v.size = size /\ v.kind \in {"small", "sparse", "generic"} /\ WordBits \in Nat
      /\ low \in Nat /\ high \in Nat /\ low <= high /\ high + 1 <= size
      /\ width \in Nat \ {0} /\ width \in Nat /\ low + width = high + 1 /\ width <= size
  BY VectorIs, WordIs
<1>2. /\ ms \in Nat /\ ms \in Int /\ ms < Pow2[width] /\ s.size = width
      /\ s.kind \in {"small", "sparse", "generic"}
  BY VectorIs
<1>3. r \in Nat /\ r < Pow2[size] /\ Low(r, size) = r
  <2>1. low + width <= size
    BY <1>1
  <2> HIDE DEF width
  <2>2. r \in Nat /\ r < Pow2[size]
    BY <1>1, <1>2, <2>1, PatchedSize
  <2> HIDE DEF r
  <2> QED  BY <1>1, <2>2, FewBits
<1>4. ASSUME NEW k \in Nat
      PROVE  BitOf(r, k) = IF low <= k /\ k < high + 1 THEN BitOf(ms, k - low) ELSE BitOf(n, k)
  <2> HIDE DEF width
  <2>1. BitOf(r, k) = IF low <= k /\ k < low + width THEN BitOf(ms, k - low) ELSE BitOf(n, k)
    BY <1>1, <1>2, PatchedBit
  <2> QED  BY <1>1, <2>1
<1>5. v.kind \in {"small", "sparse"} => Val(v) = n /\ n \in Word /\ n < Pow2[WordBits]
  BY VectorIs, WordIs
<1>6. width <= WordBits => s.kind = "small" /\ Val(s) = ms /\ ms \in Word
  <2>1. s.kind = "small" <=> width <= WordBits
    BY VectorIs
  <2>2. s.kind = "small" => Val(s) = ms /\ ms \in Word
    BY VectorIs
  <2> QED  BY <2>1, <2>2
<1>7. digits = WordsOf(ms, DataSize(width))
  <2>1. s.kind # "sparse" => s.data = WordsOf(ms, DataSize(width))
    BY SmallDigits
  <2>2. s.kind = "sparse" => ToGeneric(s) = Generic(width, WordsOf(ms, DataSize(width)))
    BY ToGenericIs
  <2>3. s.kind = "sparse" => ToGeneric(s).data = WordsOf(ms, DataSize(width))
    BY <2>2 DEF Generic
  <2> QED  BY <2>1, <2>3
<1> HIDE DEF r, room, digits, x, width
<1>8. ASSUME room \in Nat, low + room <= WordBits, ms < Pow2[room], ms \in Word, n \in Word,
             room = width \/ (low + room = WordBits /\ low + width >= WordBits)
      PROVE  x = r
  <2>1. /\ x \in Word
        /\ \A k \in Nat : k < WordBits =>
                  BitOf(x, k) = IF low <= k /\ k < low + room THEN BitOf(ms, k - low) ELSE BitOf(n, k)
    BY <1>1, <1>8, PatchWordBits DEF x
  <2>2. ASSUME NEW k \in Nat PROVE BitOf(x, k) = BitOf(r, k)
    <3>1. CASE k < WordBits
      <4>1. BitOf(x, k) = IF low <= k /\ k < low + room THEN BitOf(ms, k - low) ELSE BitOf(n, k)
        BY <2>1, <3>1
      <4>2. (low <= k /\ k < low + room) <=> (low <= k /\ k < high + 1)
        BY <1>1, <1>8, <3>1
      <4> QED  BY <1>4, <4>1, <4>2
    <3>2. CASE ~ k < WordBits
      <4>1. BitOf(x, k) = 0 /\ BitOf(n, k) = 0
        BY <1>1, <1>8, <2>1, <3>2, WordIsWordAt
      <4>2. low <= k => BitOf(ms, k - low) = 0
        <5> DEFINE j == k - low
        <5>1. low <= k => j \in Nat /\ j >= room
          BY <1>1, <1>8, <3>2
        <5> HIDE DEF j
        <5>2. low <= k => BitOf(ms, j) = 0
          BY <1>2, <1>8, <5>1, BitsOfSmall
        <5> QED  BY <5>2 DEF j
      <4> QED  BY <1>4, <4>1, <4>2
    <3> QED  BY <3>1, <3>2
  <2> DEFINE i == size + WordBits
  <2>3. i \in Nat /\ Pow2[size] <= Pow2[i] /\ Pow2[WordBits] <= Pow2[i]
        /\ Pow2[size] \in Nat /\ Pow2[i] \in Nat /\ Pow2[WordBits] \in Nat
    BY <1>1, Pow2Monotone
  <2>4. x \in Nat /\ x < Pow2[WordBits]
    BY <2>1, WordIs
  <2> HIDE DEF i
  <2>5. x < Pow2[i] /\ r < Pow2[i]
    BY <1>3, <2>3, <2>4
  <2>6. \A k \in Nat : k < i => BitOf(x, k) = BitOf(r, k)
    BY <2>2
  <2> QED  BY <1>3, <2>3, <2>4, <2>5, <2>6, SameNumber
<1>9. CASE s.size = v.size
  <2>1. UpdateSubrange(v, high, low, s) = s
    BY <1>9 DEF UpdateSubrange
  <2>2. width = size /\ low = 0
    BY <1>1, <1>2, <1>9
  <2>3. r = ms
    <3>1. Pow2[0] = 1 /\ Up(n, 0) = n
      BY <1>1, Pow2Unfold, NoBits
    <3>2. r = n + (ms - n) * 1
      BY <1>1, <2>2, <3>1 DEF r, Patched
    <3> QED  BY <1>1, <1>2, <3>2
  <2>4. IsVector(s, size, ms)
    BY <2>2 DEF width
  <2> QED  BY <1>3, <2>1, <2>3, <2>4 DEF r, width
<1>10. CASE s.size # v.size /\ v.kind = "small"
  <2>1. size <= WordBits
    BY <1>10, VectorIs
  <2>2. UpdateSubrange(v, high, low, s) =
          MakeSmall(v, (Val(v) & Complement(Shl(Ones(s.size), low))) | Shl(Val(s), low))
    BY <1>10 DEF UpdateSubrange
  <2>3. room = width
    BY <1>1, <1>2, <2>1 DEF room
  <2>4. Val(v) = n /\ n \in Word /\ Val(s) = ms /\ ms \in Word
    BY <1>1, <1>5, <1>6, <1>10, <2>1
  <2>5. UpdateSubrange(v, high, low, s) = MakeSmall(v, x)
    BY <1>2, <2>2, <2>3, <2>4 DEF x
  <2>6. x = r
    BY <1>1, <1>2, <1>8, <2>1, <2>3, <2>4
  <2>7. IsVector(MakeSmall(v, r), size, Low(r, size))
    <3>1. r \in Int
      BY <1>3
    <3> QED  BY <1>1, <2>1, <3>1, IsSmall
  <2>8. IsVector(UpdateSubrange(v, high, low, s), size, r)
    BY <1>3, <2>5, <2>6, <2>7
  <2> QED  BY <1>3, <2>8 DEF r, width
<1>11. CASE s.size # v.size /\ v.kind = "sparse" /\ fits
  <2>1. size > WordBits
    <3>1. v.kind # "small" /\ (v.kind = "small" <=> size <= WordBits)
      BY <1>11, VectorIs
    <3> QED  BY <1>1, <3>1
  <2>2. UpdateSubrange(v, high, low, s) =
          Sparse(v.size, (Val(v) & Complement(Shl(Ones(room), low))) | Shl(Val(s), low))
    BY <1>11 DEF UpdateSubrange, room
  <2>3. Val(v) = n /\ n \in Word /\ Val(s) = ms /\ ms \in Word /\ width <= WordBits
    BY <1>2, <1>5, <1>6, <1>11
  <2>4. /\ room \in Nat /\ low + room <= WordBits
        /\ room = width \/ (low + room = WordBits /\ low + width >= WordBits)
    BY <1>1, <1>2, <1>11 DEF room
  <2>5. ms < Pow2[room]
    <3>1. Shr(ms, room) = 0
      BY <1>11, <2>3
    <3>2. Shr(ms, room) = Up(ms, room)
      BY <1>2, <2>4, ShrBits
    <3>3. /\ Pow2[room] \in Nat /\ Low(ms, room) \in Nat /\ Low(ms, room) < Pow2[room]
          /\ ms = Pow2[room] * Up(ms, room) + Low(ms, room)
      BY <1>2, <2>4, Halves
    <3>4. ms = Low(ms, room)
      BY <3>1, <3>2, <3>3
    <3> QED  BY <3>3, <3>4
  <2>6. x = r
    BY <1>8, <2>3, <2>4, <2>5
  <2>7. UpdateSubrange(v, high, low, s) = Sparse(size, r) /\ r \in Word
    <3>1. x \in Word
      BY <1>1, <2>3, <2>4, <2>5, PatchWordBits DEF x
    <3> QED  BY <1>1, <2>2, <2>3, <2>6, <3>1 DEF x
  <2>8. IsVector(UpdateSubrange(v, high, low, s), size, r)
    BY <1>1, <2>1, <2>7, IsSparse
  <2> QED  BY <1>3, <2>8 DEF r, width
<1>12. ASSUME NEW g, g = WordsOf(n, DataSize(size)), size > WordBits,
              UpdateSubrange(v, high, low, s) = Generic(v.size, UpdateWords(g, high, low, digits))
       PROVE  IsVector(UpdateSubrange(v, high, low, s), size, r)
  <2>1. ms < Pow2[high - low + 1]
    BY <1>2 DEF width
  <2>2. UpdateWords(WordsOf(n, DataSize(size)), high, low, WordsOf(ms, DataSize(high - low + 1)))
           = WordsOf(Patched(n, low, high - low + 1, ms), DataSize(size))
    BY <1>1, <1>2, <2>1, UpdateWordsIs
  <2>3. UpdateWords(g, high, low, digits) = WordsOf(r, DataSize(size))
    BY <1>7, <1>12, <2>2 DEF r, width
  <2>4. UpdateSubrange(v, high, low, s) = Generic(size, WordsOf(r, DataSize(size)))
    BY <1>1, <1>12, <2>3
  <2> QED  BY <1>1, <1>3, <1>12, <2>4, IsGeneric
<1>13. CASE s.size # v.size /\ v.kind = "sparse" /\ ~ fits
  <2>1. ToGeneric(v) = Generic(size, WordsOf(n, DataSize(size))) /\ size > WordBits
    <3>1. v.kind # "small" /\ (v.kind = "small" <=> size <= WordBits)
      BY <1>13, VectorIs
    <3> QED  BY <1>1, <1>13, <3>1, ToGenericIs
  <2>2. ToGeneric(v).data = WordsOf(n, DataSize(size))
    BY <2>1 DEF Generic
  <2>3. UpdateSubrange(v, high, low, s) = Generic(v.size, UpdateWords(ToGeneric(v).data, high, low, digits))
    BY <1>13 DEF UpdateSubrange, digits, room
  <2>4. IsVector(UpdateSubrange(v, high, low, s), size, r)
    BY <1>12, <2>1, <2>2, <2>3
  <2> QED  BY <1>3, <2>4 DEF r, width
<1>14. CASE s.size # v.size /\ v.kind = "generic"
  <2>1. v.data = WordsOf(n, DataSize(size)) /\ size > WordBits
    BY <1>14, GenericIs
  <2>2. UpdateSubrange(v, high, low, s) = Generic(v.size, UpdateWords(v.data, high, low, digits))
    BY <1>14 DEF UpdateSubrange, digits
  <2>3. IsVector(UpdateSubrange(v, high, low, s), size, r)
    BY <1>12, <2>1, <2>2
  <2> QED  BY <1>3, <2>3 DEF r, width
<1> QED  BY <1>1, <1>9, <1>10, <1>11, <1>13, <1>14

-----------------------------------------------------------------------------
(***************************************************************************)
(* Shifts to the left.                                                     *)
(***************************************************************************)

\* The bits of a number times a power of two.
LEMMA BitsOfProduct ==
  ASSUME NEW n \in Int, NEW i \in Nat, NEW k \in Nat
  PROVE  /\ Pow2[i] * n \in Int /\ n * Pow2[i] = Pow2[i] * n
         /\ BitOf(Pow2[i] * n, k) = IF k < i THEN 0 ELSE BitOf(n, k - i)
<1>1. Pow2[i] \in Nat /\ Pow2[i] >= 1
  BY Halves
<1> DEFINE z == 0
<1>2. z \in Nat /\ z < Pow2[i]
  BY <1>1
<1> HIDE DEF z
<1>3. BitOf(Pow2[i] * n + z, k) = IF k < i THEN BitOf(z, k) ELSE BitOf(n, k - i)
  BY <1>2, BitsOfSum
<1>4. Pow2[i] * n \in Int
  BY <1>1
<1>5. Pow2[i] * n + z = Pow2[i] * n
  BY <1>4 DEF z
<1>6. BitOf(z, k) = 0
  BY BitsOfZero DEF z
<1> QED  BY <1>1, <1>3, <1>4, <1>5, <1>6

-----------------------------------------------------------------------------
(***************************************************************************)
(* The loop that moves an array up.                                        *)
(***************************************************************************)
ShlLoop(d, bits) == Ripple(LAMBDA k, carry : ShlDigit(d[k], bits, carry), d)

\* The loop of shifts, digit by digit.
LEMMA ShlLoopSteps ==
  ASSUME NEW d \in Arrays, NEW bits
  PROVE  LET moved == ShlLoop(d, bits)
             carried(k) == IF k = 0 THEN 0 ELSE Shr(d[k], WordBits - bits)
         IN  /\ moved.digits = [k \in 1 .. Len(d) |-> carried(k - 1) | Shl(d[k], bits)]
             /\ moved.carry = carried(Len(d))
<1> DEFINE n == Len(d)
           carried(k) == IF k = 0 THEN 0 ELSE Shr(d[k], WordBits - bits)
           IsCarry(f) == f = [i \in 0 .. n |->
             IF i = 0 THEN 0 ELSE ShlDigit(d[i], bits, f[i - 1]).carry]
           carry == Carries(LAMBDA k, c : ShlDigit(d[k], bits, c), d)
           g == [i \in 0 .. n |-> carried(i)]
<1>1. n \in Nat
  BY DEF Arrays
<1>2. IsCarry(g)
  <2>1. \A i \in 0 .. n : i # 0 => carried(i) = ShlDigit(d[i], bits, g[i - 1]).carry
    BY DEF ShlDigit
  <2>2. \A i \in 0 .. n : carried(i) = IF i = 0 THEN 0 ELSE ShlDigit(d[i], bits, g[i - 1]).carry
    <3> SUFFICES ASSUME NEW i \in 0 .. n
                 PROVE  carried(i) = IF i = 0 THEN 0 ELSE ShlDigit(d[i], bits, g[i - 1]).carry
      OBVIOUS
    <3>1. i = 0 => carried(i) = 0
      OBVIOUS
    <3> HIDE DEF carried, g
    <3> QED  BY <2>1, <3>1
  <2> HIDE DEF carried
  <2> QED  BY <2>2
<1>3. carry = CHOOSE f : IsCarry(f)
  BY DEF Carries
<1>4. IsCarry(carry)
  <2> HIDE DEF carry, g
  <2> QED  BY <1>2, <1>3
<1>5. /\ ShlLoop(d, bits).digits =
           [i \in 1 .. n |-> ShlDigit(d[i], bits, carry[i - 1]).digit]
      /\ ShlLoop(d, bits).carry = carry[n]
  BY DEF ShlLoop, Ripple
<1> HIDE DEF carry
<1>6. \A i \in 0 .. n : carry[i] = carried(i)
  <2> SUFFICES ASSUME NEW i \in 0 .. n PROVE carry[i] = carried(i)
    OBVIOUS
  <2>1. carry[i] = IF i = 0 THEN 0 ELSE ShlDigit(d[i], bits, carry[i - 1]).carry
    BY <1>4
  <2>2. CASE i = 0
    BY <2>1, <2>2
  <2>3. CASE i # 0
    BY <2>1, <2>3 DEF ShlDigit
  <2> QED  BY <2>2, <2>3
<1>7. \A i \in 1 .. n : ShlDigit(d[i], bits, carry[i - 1]).digit = (carried(i - 1) | Shl(d[i], bits))
  <2> SUFFICES ASSUME NEW i \in 1 .. n
               PROVE  ShlDigit(d[i], bits, carry[i - 1]).digit = (carried(i - 1) | Shl(d[i], bits))
    OBVIOUS
  <2>1. carry[i - 1] = carried(i - 1)
    <3>1. i - 1 \in 0 .. n
      BY <1>1
    <3> HIDE DEF carried
    <3> QED  BY <1>6, <3>1
  <2> HIDE DEF carried
  <2> QED  BY <2>1 DEF ShlDigit
<1>8. carry[n] = carried(n)
  <2>1. n \in 0 .. n
    BY <1>1
  <2> HIDE DEF carried
  <2> QED  BY <1>6, <2>1
<1>9. ShlLoop(d, bits).digits = [i \in 1 .. n |-> carried(i - 1) | Shl(d[i], bits)]
  <2> HIDE DEF carried
  <2> QED  BY <1>5, <1>7
<1> QED  BY <1>5, <1>8, <1>9

\* The loop of shifts gives the words of the product.
LEMMA ShlLoopWords ==
  ASSUME NEW n \in Int, NEW len \in Nat, NEW bits \in Nat, bits < WordBits
  PROVE  ShlLoop(WordsOf(n, len), bits).digits = WordsOf(Pow2[bits] * n, len)
<1> DEFINE d == WordsOf(n, len)
           m == Pow2[bits] * n
           carried(k) == IF k = 0 THEN 0 ELSE Shr(d[k], WordBits - bits)
           e == [k \in 1 .. len |-> carried(k - 1) | Shl(d[k], bits)]
<1>1. d \in Arrays /\ Len(d) = len /\ WordBits \in Nat
  BY WordsOfIs, WordIs
<1>2. ShlLoop(d, bits).digits = e
  <2>1. ShlLoop(d, bits).digits = [k \in 1 .. Len(d) |-> carried(k - 1) | Shl(d[k], bits)]
    <3> HIDE DEF d
    <3> QED  BY <1>1, ShlLoopSteps
  <2> HIDE DEF d, carried
  <2> QED  BY <1>1, <2>1
<1>3. m \in Int /\ \A k \in Nat : BitOf(m, k) = IF k < bits THEN 0 ELSE BitOf(n, k - bits)
  <2>1. m \in Int
    BY BitsOfProduct
  <2> QED  BY <2>1, BitsOfProduct
<1> HIDE DEF m
<1>4. ASSUME NEW k \in 1 .. len
      PROVE  e[k] \in Word /\ \A j \in Nat : j < WordBits => BitOf(e[k], j) = BitOf(m, First(k) + j)
  <2> DEFINE q == k - 1
             c == carried(q)
             u == Shl(d[k], bits)
  <2>1. q \in Nat /\ k = q + 1 /\ First(k) = WordBits * q /\ WordBits * q \in Nat
    BY <1>1 DEF First
  <2>2. e[k] = (c | u)
    OBVIOUS
  <2>3. /\ c \in Word
        /\ \A j \in Nat : j < WordBits =>
             BitOf(c, j) = IF j < bits THEN BitOf(m, WordBits * q + j) ELSE 0
    <3>1. CASE q = 0
      <4>1. c = 0 /\ 0 \in Word
        BY <3>1, WordIs
      <4>2. \A j \in Nat : j < bits => BitOf(m, WordBits * q + j) = 0
        <5>1. WordBits * q = 0
          BY <1>1, <3>1
        <5> QED  BY <1>3, <5>1
      <4> HIDE DEF c, q
      <4> QED  BY <4>1, <4>2, BitsOfZero
    <3>2. CASE q # 0
      <4>1. q \in 1 .. len /\ q \in Nat \ {0}
        BY <2>1, <3>2
      <4>2. WordBits * q >= WordBits
        <5>1. WordBits * q = First(q) + WordBits /\ First(q) \in Nat
          BY <4>1, FirstIs
        <5> QED  BY <1>1, <5>1
      <4>3. c = Shr(WordsOf(n, len)[q], WordBits - bits)
        BY <3>2
      <4> HIDE DEF c, q, d
      <4>4. /\ Shr(WordsOf(n, len)[q], WordBits - bits) \in Word
            /\ \A j \in Nat : j < WordBits =>
                 BitOf(Shr(WordsOf(n, len)[q], WordBits - bits), j) =
                   IF j < bits THEN BitOf(n, WordBits * q + j - bits) ELSE 0
        BY <4>1, CarriedBits
      <4>5. ASSUME NEW j \in Nat, j < WordBits, j < bits
            PROVE  BitOf(m, WordBits * q + j) = BitOf(n, WordBits * q + j - bits)
        <5> DEFINE p == WordBits * q + j
        <5>1. p \in Nat /\ ~ p < bits
          BY <1>1, <2>1, <4>2
        <5> HIDE DEF p
        <5>2. BitOf(m, p) = BitOf(n, p - bits)
          BY <1>3, <5>1
        <5> QED  BY <1>1, <2>1, <5>2 DEF p
      <4> QED  BY <4>3, <4>4, <4>5
    <3> QED  BY <3>1, <3>2
  <2>4. /\ u \in Word
        /\ \A j \in Nat : j < WordBits =>
             BitOf(u, j) = IF j < bits THEN 0 ELSE BitOf(m, WordBits * q + j)
    <3> HIDE DEF q
    <3>2. /\ Shl(WordsOf(n, len)[k], bits) \in Word
          /\ \A j \in Nat : j < WordBits =>
               BitOf(Shl(WordsOf(n, len)[k], bits), j) =
                 IF j < bits THEN 0 ELSE BitOf(n, First(k) + j - bits)
      BY MovedBits
    <3>3. u = Shl(WordsOf(n, len)[k], bits)
      OBVIOUS
    <3> HIDE DEF u
    <3>4. ASSUME NEW j \in Nat, j < WordBits, ~ j < bits
          PROVE  BitOf(m, First(k) + j) = BitOf(n, First(k) + j - bits)
      <4> DEFINE p == First(k) + j
      <4>1. p \in Nat /\ ~ p < bits
        BY <1>1, <2>1, <3>4
      <4> HIDE DEF p
      <4>2. BitOf(m, p) = BitOf(n, p - bits)
        BY <1>3, <4>1
      <4>3. p = First(k) + j
        BY DEF p
      <4> QED  BY <1>1, <2>1, <4>1, <4>2, <4>3
    <3>5. \A j \in Nat : j < WordBits => BitOf(u, j) = IF j < bits THEN 0 ELSE BitOf(m, First(k) + j)
      BY <3>2, <3>3, <3>4
    <3> QED  BY <2>1, <3>2, <3>3, <3>5
  <2> HIDE DEF c, u, e, q
  <2>5. /\ (c | u) \in Word
        /\ \A j \in Nat : j < WordBits =>
             /\ BitOf(c, j) \in {0, 1} /\ BitOf(u, j) \in {0, 1}
             /\ BitOf(c | u, j) = IF BitOf(c, j) = 0 THEN BitOf(u, j) ELSE 1
    BY <2>3, <2>4, OrWords
  <2>6. ASSUME NEW j \in Nat, j < WordBits PROVE BitOf(e[k], j) = BitOf(m, First(k) + j)
    <3> DEFINE p == WordBits * q + j
    <3>1. /\ BitOf(c, j) = IF j < bits THEN BitOf(m, p) ELSE 0
          /\ BitOf(u, j) = IF j < bits THEN 0 ELSE BitOf(m, p)
      BY <2>3, <2>4, <2>6
    <3>2. /\ BitOf(c, j) \in {0, 1} /\ BitOf(u, j) \in {0, 1}
          /\ BitOf(e[k], j) = IF BitOf(c, j) = 0 THEN BitOf(u, j) ELSE 1
      BY <2>2, <2>5, <2>6
    <3> HIDE DEF p
    <3>3. BitOf(e[k], j) = BitOf(m, p)
      BY <3>1, <3>2
    <3> QED  BY <2>1, <3>3 DEF p
  <2> QED  BY <2>2, <2>5, <2>6
<1>5. e \in [1 .. len -> Word]
  BY <1>4
<1>6. \A k \in 1 .. len : \A j \in Nat : j < WordBits => BitOf(e[k], j) = BitOf(m, First(k) + j)
  BY <1>4
<1> HIDE DEF e
<1>7. e = WordsOf(m, len)
  BY <1>3, <1>5, <1>6, AreWordsOf
<1> QED  BY <1>2, <1>7 DEF d, m

\* Words of zeros below an array.
LEMMA ZerosBelow ==
  ASSUME NEW n \in Int, NEW words \in Nat, NEW len \in Nat
  PROVE  [k \in 1 .. words |-> 0] \o WordsOf(n, len) = WordsOf(Pow2[WordBits * words] * n, words + len)
<1> DEFINE p == WordBits * words
           m == Pow2[p] * n
           z == [k \in 1 .. words |-> 0]
           d == WordsOf(n, len)
           e == z \o d
<1>1. p \in Nat /\ WordBits \in Nat
  BY WordIs
<1>2. /\ z \in Seq(Word) /\ Len(z) = words /\ \A k \in 1 .. words : z[k] = 0
  <2>1. 0 \in Word
    BY WordIs
  <2> QED  BY <2>1
<1>3. /\ d \in Seq(Word) /\ Len(d) = len
      /\ \A k \in 1 .. len : d[k] = WordAt(n, First(k)) /\ d[k] \in Word /\ First(k) \in Nat
  BY WordsOfIs DEF Arrays
<1> HIDE DEF z, d
<1>4. /\ DOMAIN e = 1 .. words + len
      /\ \A k \in 1 .. words + len : e[k] = IF k <= words THEN z[k] ELSE d[k - words]
      /\ e = [k \in 1 .. words + len |-> e[k]]
  <2>1. e \in Seq(Word) /\ Len(e) = words + len
    BY <1>2, <1>3
  <2>2. ASSUME NEW k \in 1 .. words + len
        PROVE  e[k] = IF k <= words THEN z[k] ELSE d[k - words]
    <3>1. CASE k <= words
      <4>1. (z \o d)[k] = z[k]
        BY <1>2, <1>3, <3>1
      <4> QED  BY <3>1, <4>1
    <3>2. CASE ~ k <= words
      <4> DEFINE q == k - words
      <4>1. q \in 1 .. len /\ k = words + q
        BY <3>2
      <4> HIDE DEF q
      <4>2. (z \o d)[words + q] = d[q]
        BY <1>2, <1>3, <4>1
      <4>3. e[k] = d[q]
        BY <4>1, <4>2
      <4> QED  BY <3>2, <4>3 DEF q
    <3> QED  BY <3>1, <3>2
  <2> HIDE DEF e
  <2>3. DOMAIN e = 1 .. words + len /\ e = [k \in 1 .. words + len |-> e[k]]
    BY <2>1
  <2> QED  BY <2>2, <2>3
<1> HIDE DEF e, p
<1>5. m \in Int /\ \A k \in Nat : BitOf(m, k) = IF k < p THEN 0 ELSE BitOf(n, k - p)
  <2>1. m \in Int
    BY <1>1, BitsOfProduct
  <2> QED  BY <1>1, <2>1, BitsOfProduct
<1> HIDE DEF m
<1>6. ASSUME NEW k \in 1 .. words + len
      PROVE  e[k] \in Word /\ \A j \in Nat : j < WordBits => BitOf(e[k], j) = BitOf(m, First(k) + j)
  <2>1. k \in Nat \ {0} /\ First(k) \in Nat
    BY FirstIs
  <2>2. CASE k <= words
    <3>1. First(k) + WordBits <= p
      <4>1. words + 1 \in Nat \ {0} /\ k < words + 1
        BY <2>2
      <4>2. First(words + 1) = p
        BY DEF First, p
      <4> QED  BY <2>1, <4>1, <4>2, FirstIs
    <3>2. e[k] = 0 /\ 0 \in Word
      BY <1>2, <1>4, <2>2, WordIs
    <3>3. \A j \in Nat : j < WordBits => BitOf(m, First(k) + j) = 0
      <4> SUFFICES ASSUME NEW j \in Nat, j < WordBits PROVE BitOf(m, First(k) + j) = 0
        OBVIOUS
      <4>1. First(k) + j \in Nat /\ First(k) + j < p
        BY <1>1, <2>1, <3>1
      <4> QED  BY <1>5, <4>1
    <3> QED  BY <3>2, <3>3, BitsOfZero
  <2>3. CASE ~ k <= words
    <3> DEFINE q == k - words
    <3>1. q \in 1 .. len /\ k = words + q
      BY <2>3
    <3>2. e[k] = d[q]
      BY <1>4, <2>3
    <3> HIDE DEF q
    <3>3. First(k) = p + First(q) /\ First(q) \in Nat
      <4>1. k - 1 = words + (q - 1) /\ q - 1 \in Nat
        BY <3>1
      <4>2. WordBits * (words + (q - 1)) = WordBits * words + WordBits * (q - 1) /\ WordBits * (q - 1) \in Nat
        BY <1>1, <4>1
      <4> QED  BY <4>1, <4>2 DEF First, p
    <3>4. e[k] = WordAt(n, First(q)) /\ e[k] \in Word
      BY <1>3, <3>1, <3>2
    <3>5. ASSUME NEW j \in Nat, j < WordBits PROVE BitOf(e[k], j) = BitOf(m, First(k) + j)
      <4>1. BitOf(e[k], j) = BitOf(n, First(q) + j)
        BY <3>3, <3>4, <3>5, WordAtIs
      <4>2. First(k) + j \in Nat /\ ~ First(k) + j < p /\ First(k) + j - p = First(q) + j
        BY <1>1, <3>3
      <4> DEFINE x == First(k) + j
      <4>3. x \in Nat /\ ~ x < p /\ x - p = First(q) + j
        BY <1>1, <2>1, <3>3, <4>2
      <4> HIDE DEF x
      <4>4. BitOf(m, x) = BitOf(n, x - p)
        BY <1>5, <4>3
      <4>5. BitOf(m, x) = BitOf(e[k], j)
        BY <4>1, <4>3, <4>4
      <4> QED  BY <4>5 DEF x
    <3> QED  BY <3>4, <3>5
  <2> QED  BY <2>2, <2>3
<1>7. e \in [1 .. words + len -> Word]
  BY <1>4, <1>6
<1>8. \A k \in 1 .. words + len : \A j \in Nat : j < WordBits => BitOf(e[k], j) = BitOf(m, First(k) + j)
  BY <1>6
<1>9. words + len \in Nat
  OBVIOUS
<1>10. e = WordsOf(m, words + len)
  BY <1>5, <1>7, <1>8, <1>9, AreWordsOf
<1> QED  BY <1>10 DEF e, m, z, d, p

\* A shift by words and a shift by bits.
LEMMA ShiftsCompose ==
  ASSUME NEW i \in Nat, NEW n \in Int
  PROVE  /\ Pow2[WordBits * WordIndex(i)] * (Pow2[BitIndex(i)] * n) = Pow2[i] * n
         /\ Pow2[i] * n \in Int /\ Pow2[BitIndex(i)] * n \in Int /\ n * Pow2[i] = Pow2[i] * n
<1> DEFINE w == WordBits * WordIndex(i)
           b == BitIndex(i)
<1>1. w \in Nat /\ b \in Nat /\ i = w + b
  BY IndexIs
<1> HIDE DEF w, b
<1>2. Pow2[w + b] = Pow2[w] * Pow2[b]
  BY <1>1, Pow2Sum
<1>3. Pow2[w] \in Nat /\ Pow2[b] \in Nat /\ Pow2[i] \in Nat
  BY <1>1, Pow2Unfold
<1>4. Pow2[w] * (Pow2[b] * n) = (Pow2[w] * Pow2[b]) * n
  BY <1>3, Products
<1>5. Pow2[w] * (Pow2[b] * n) = Pow2[i] * n
  BY <1>1, <1>2, <1>4
<1>6. Pow2[i] * n \in Int /\ Pow2[b] * n \in Int /\ n * Pow2[i] = Pow2[i] * n
  BY <1>3
<1> QED  BY <1>5, <1>6 DEF w, b

\* A number shifted by its size has no bits left.
LEMMA ShiftedOut ==
  ASSUME NEW size \in Nat, NEW i \in Nat, i >= size, NEW n \in Int
  PROVE  Low(Pow2[i] * n, size) = 0
<1> DEFINE rest == i - size
           z == 0
<1>1. rest \in Nat /\ i = size + rest
  OBVIOUS
<1> HIDE DEF rest
<1>2. Pow2[i] = Pow2[size] * Pow2[rest] /\ Pow2[size] \in Nat /\ Pow2[rest] \in Nat /\ Pow2[size] >= 1
  <2>1. Pow2[size + rest] = Pow2[size] * Pow2[rest]
    BY <1>1, Pow2Sum
  <2>2. Pow2[size] \in Nat /\ Pow2[rest] \in Nat /\ Pow2[size] >= 1
    BY <1>1, Pow2Unfold
  <2> QED  BY <1>1, <2>1, <2>2
<1> DEFINE k == Pow2[rest] * n
<1>3. k \in Int /\ Pow2[size] * k = Pow2[i] * n
  <2>1. Pow2[size] * (Pow2[rest] * n) = (Pow2[size] * Pow2[rest]) * n /\ Pow2[rest] * n \in Int
    BY <1>2, Products
  <2> QED  BY <1>2, <2>1
<1>4. z \in Nat /\ z \in Int /\ z < Pow2[size]
  BY <1>2
<1> HIDE DEF k, z
<1>5. Low(z + Pow2[size] * k, size) = Low(z, size) /\ Low(z, size) = z
  BY <1>3, <1>4, HalvesOfSum, FewBits
<1>6. z + Pow2[size] * k = Pow2[i] * n
  <2>1. Pow2[size] * k \in Int
    BY <1>2, <1>3
  <2> QED  BY <1>3, <2>1 DEF z
<1> QED  BY <1>5, <1>6 DEF z

\* lshift of a generic vector.
LEMMA LshiftGenericIs ==
  ASSUME NEW v, NEW size, NEW n, IsVector(v, size, n), v.kind = "generic", NEW i \in Nat
  PROVE  IsVector(LshiftGeneric(v, i), size, Low(Pow2[i] * n, size))
<1> DEFINE len == DataSize(size)
           words == WordIndex(i)
           bits == BitIndex(i)
           kept == SubSeq(v.data, 1, Len(v.data) - words)
           moved == Ripple(LAMBDA k, carry : ShlDigit(kept[k], BitIndex(i), carry), kept)
<1>1. /\ size \in Nat \ {0} /\ size \in Nat /\ size > WordBits /\ v.size = size /\ n \in Nat /\ n \in Int
      /\ v.data = WordsOf(n, len) /\ len \in Nat /\ Len(v.data) = len /\ WordBits \in Nat
      /\ Low(n, size) = n
  BY GenericIs, WordIs, VectorIs
<1>2. CASE i = 0
  <2>1. LshiftGeneric(v, i) = v
    BY <1>2 DEF LshiftGeneric
  <2>2. Pow2[i] * n = n
    BY <1>1, <1>2, Pow2Unfold
  <2> QED  BY <1>1, <2>1, <2>2
<1>3. CASE i # 0 /\ i >= size
  <2>1. LshiftGeneric(v, i) = Sparse(size, 0)
    BY <1>1, <1>3 DEF LshiftGeneric
  <2>2. 0 \in Word
    BY WordIs
  <2> QED  BY <1>1, <1>3, <2>1, <2>2, IsSparse, ShiftedOut
<1>4. CASE i # 0 /\ ~ i >= size
  <2>1. /\ words \in Nat /\ bits \in Nat /\ bits < WordBits
        /\ i = WordBits * words + bits /\ WordBits * words \in Nat
    BY IndexIs
  <2>2. words <= len /\ len - words \in Nat /\ words + (len - words) = len
    <3>1. size <= WordBits * len /\ WordBits * len \in Nat
      <4>1. n < Pow2[size]
        BY VectorIs
      <4> QED  BY <1>1, <4>1, NumberInWords
    <3>2. words > len => WordBits * words >= WordBits * len
      <4>1. words \in Int /\ len \in Int /\ WordBits \in Int /\ WordBits >= 0
        BY <1>1, <2>1
      <4>2. words > len => len <= words
        BY <4>1
      <4> QED  BY <4>1, <4>2, ProductMonotone
    <3>3. WordBits * words <= i
      BY <2>1
    <3>4. ~ words > len
      BY <1>1, <1>4, <2>1, <3>1, <3>2, <3>3
    <3> QED  BY <1>1, <2>1, <3>4
  <2> HIDE DEF words, bits, len
  <2>3. kept = WordsOf(n, len - words)
    <3> DEFINE c == len - words
    <3>1. c \in Nat /\ c <= len
      BY <1>1, <2>1, <2>2
    <3>2. kept = SubSeq(WordsOf(n, len), 1, c)
      BY <1>1
    <3> HIDE DEF c, kept
    <3>3. SubSeq(WordsOf(n, len), 1, c) = WordsOf(n, c)
      BY <1>1, <3>1, FirstWords
    <3> QED  BY <3>2, <3>3 DEF c
  <2>4. moved.digits = WordsOf(Pow2[bits] * n, len - words)
    <3>1. moved = ShlLoop(kept, bits)
      BY DEF ShlLoop, bits
    <3>2. ShlLoop(WordsOf(n, len - words), bits).digits = WordsOf(Pow2[bits] * n, len - words)
      BY <1>1, <2>1, <2>2, ShlLoopWords
    <3> HIDE DEF moved, kept
    <3> QED  BY <2>3, <3>1, <3>2
  <2>5. LshiftGeneric(v, i) = MakeGeneric(v, [k \in 1 .. words |-> 0] \o moved.digits)
    BY <1>1, <1>4 DEF LshiftGeneric, words
  <2> HIDE DEF moved, kept
  <2>6. [k \in 1 .. words |-> 0] \o moved.digits = WordsOf(Pow2[i] * n, len)
    <3> DEFINE m == Pow2[bits] * n
               c == len - words
    <3>1. m \in Int /\ Pow2[WordBits * words] * m = Pow2[i] * n
      BY <1>1, ShiftsCompose DEF words, bits
    <3>2. c \in Nat /\ words + c = len /\ moved.digits = WordsOf(m, c)
      BY <2>2, <2>4
    <3> HIDE DEF m, c
    <3>3. [k \in 1 .. words |-> 0] \o WordsOf(m, c) = WordsOf(Pow2[WordBits * words] * m, words + c)
      BY <2>1, <3>1, <3>2, ZerosBelow
    <3> QED  BY <3>1, <3>2, <3>3
  <2>7. LshiftGeneric(v, i) = MakeGeneric(v, WordsOf(Pow2[i] * n, DataSize(size)))
    BY <2>5, <2>6 DEF len
  <2>8. Pow2[i] * n \in Int
    BY <1>1, ShiftsCompose
  <2> QED  BY <1>1, <2>7, <2>8, IsGeneric
<1> QED  BY <1>2, <1>3, <1>4

\* lshift: the product with a power of two, modulo the size.
LEMMA LshiftIs ==
  ASSUME NEW v, NEW size, NEW n, IsVector(v, size, n), NEW i \in Nat
  PROVE  IsVector(Lshift(v, i), size, Low(n * Pow2[i], size))
<1> DEFINE m == Pow2[i] * n
<1>1. /\ size \in Nat \ {0} /\ size \in Nat /\ v.size = size /\ n \in Nat /\ n \in Int
      /\ v.kind \in {"small", "sparse", "generic"} /\ WordBits \in Nat
      /\ (v.kind = "small" <=> size <= WordBits)
  BY WordIs, VectorIs
<1>2. m \in Int /\ n * Pow2[i] = m /\ Pow2[i] \in Nat
  BY <1>1, ShiftsCompose, Pow2Unfold
<1>3. v.kind # "generic" => Val(v) = n /\ n \in Word
  BY <1>1, VectorIs
<1>4. CASE v.kind = "small"
  <2>1. Lshift(v, i) = MakeSmall(v, IF i >= WordBits THEN 0 ELSE Shl(n, i))
    BY <1>3, <1>4 DEF Lshift
  <2>2. CASE i >= WordBits
    <3>1. Low(m, size) = 0 /\ Low(0, size) = 0
      <4>1. i >= size
        BY <1>1, <1>4, <2>2
      <4>2. Low(m, size) = 0
        BY <1>1, <4>1, ShiftedOut
      <4>3. Low(Pow2[i] * 0, size) = 0 /\ Pow2[i] * 0 = 0
        BY <1>1, <1>2, <4>1, ShiftedOut
      <4> QED  BY <4>2, <4>3
    <3>2. IsVector(MakeSmall(v, 0), size, Low(0, size))
      BY <1>1, <1>4, IsSmall
    <3> QED  BY <1>2, <2>1, <2>2, <3>1, <3>2
  <2>3. CASE ~ i >= WordBits
    <3>1. Shl(n, i) = Wrap(m)
      BY <1>2 DEF Shl
    <3> HIDE DEF m
    <3>2. IsVector(MakeSmall(v, Wrap(m)), size, Low(m, size))
      BY <1>1, <1>2, <1>4, IsSmall
    <3> QED  BY <1>2, <2>1, <2>3, <3>1, <3>2
  <2> QED  BY <2>2, <2>3
<1>5. CASE v.kind = "sparse" /\ i < WordBits /\ Shr(Val(v), WordBits - i) = 0
  <2> DEFINE c == WordBits - i
  <2>1. c \in Nat /\ i + c = WordBits /\ size > WordBits
    BY <1>1, <1>5
  <2> HIDE DEF c
  <2>2. n < Pow2[c]
    <3>1. Up(n, c) = 0
      BY <1>1, <1>3, <1>5, <2>1, ShrBits DEF c
    <3>2. /\ Pow2[c] \in Nat /\ Low(n, c) \in Nat /\ Low(n, c) < Pow2[c]
          /\ n = Pow2[c] * Up(n, c) + Low(n, c)
      BY <1>1, <2>1, Halves
    <3> QED  BY <3>1, <3>2
  <2>3. m \in Word
    <3> DEFINE z == 0
    <3>1. z \in Nat /\ z < Pow2[i]
      BY Pow2Unfold
    <3> HIDE DEF z
    <3>2. Pow2[i] * n + z \in Nat /\ Pow2[i] * n + z < Pow2[i + c]
      BY <1>1, <2>1, <2>2, <3>1, MoreBits
    <3>3. Pow2[i] * n + z = m
      BY <1>2 DEF z
    <3> QED  BY <2>1, <3>2, <3>3, WordIs
  <2>4. Lshift(v, i) = Sparse(size, m)
    <3>1. Lshift(v, i) = Sparse(v.size, Shl(Val(v), i))
      BY <1>5 DEF Lshift
    <3>2. Shl(n, i) = m
      <4>1. Shl(n, i) = Wrap(m)
        BY <1>2 DEF Shl
      <4> HIDE DEF m
      <4> QED  BY <1>2, <2>3, <4>1, WrapNear
    <3> QED  BY <1>1, <1>3, <1>5, <3>1, <3>2
  <2> HIDE DEF m
  <2> QED  BY <1>1, <1>2, <2>1, <2>3, <2>4, IsSparse
<1>6. CASE v.kind = "sparse" /\ ~ (i < WordBits /\ Shr(Val(v), WordBits - i) = 0)
  <2>1. Lshift(v, i) = LshiftGeneric(ToGeneric(v), i)
    BY <1>6 DEF Lshift
  <2>2. IsVector(ToGeneric(v), size, n) /\ ToGeneric(v).kind = "generic"
    BY <1>6, ToGenericIs
  <2> QED  BY <1>2, <2>1, <2>2, LshiftGenericIs
<1>7. CASE v.kind = "generic"
  <2>1. Lshift(v, i) = LshiftGeneric(v, i)
    BY <1>7 DEF Lshift
  <2> QED  BY <1>2, <1>7, <2>1, LshiftGenericIs
<1> QED  BY <1>1, <1>4, <1>5, <1>6, <1>7

-----------------------------------------------------------------------------
(***************************************************************************)
(* Vectors from integers, and questions.                                   *)
(***************************************************************************)

\* from_bigint: the number modulo the size, in two's complement.
LEMMA FromBigintIs ==
  ASSUME NEW size \in Nat \ {0}, NEW n \in Int
  PROVE  /\ ArrayFromBigint(size, n) = WordsOf(Low(n, size), DataSize(size))
         /\ IsVector(FromBigint(size, n), size, Low(n, size))
         /\ size > WordBits => IsVector(Generic(size, ArrayFromBigint(size, n)), size, Low(n, size))
<1> DEFINE len == DataSize(size)
<1>1. len \in Nat /\ size \in Nat /\ WordBits \in Nat
  BY DataSizeIs, WordIs
<1>2. ASSUME NEW k \in 1 .. len
      PROVE  ExtractRuint(n, (k - 1) * WordBits) = WordAt(n, First(k))
  <2>1. First(k) \in Nat
    BY <1>1, WordsOfIs
  <2>2. (k - 1) * WordBits = First(k)
    <3>1. k - 1 \in Int /\ WordBits \in Int
      BY <1>1
    <3> HIDE DEF len
    <3> QED  BY <3>1, Products DEF First
  <2>3. Up(n, First(k)) \in Int
    BY <2>1, Halves
  <2>4. Wrap(Up(n, First(k))) = Low(Up(n, First(k)), WordBits)
    BY <2>3, WrapIsLow
  <2> QED  BY <2>2, <2>4 DEF ExtractRuint, WordAt, Up
<1>3. [k \in 1 .. len |-> ExtractRuint(n, (k - 1) * WordBits)] = WordsOf(n, len)
  BY <1>2 DEF WordsOf
<1>4. ArrayFromBigint(size, n) = WordsOf(Low(n, size), len)
  <2>1. ArrayFromBigint(size, n) = SizeMask(size, WordsOf(n, len))
    BY <1>3 DEF ArrayFromBigint
  <2> QED  BY <2>1, SizeMaskIs
<1>5. size > WordBits => IsVector(Generic(size, ArrayFromBigint(size, n)), size, Low(n, size))
  BY <1>1, <1>4, IsGeneric
<1>6. IsVector(FromBigint(size, n), size, Low(n, size))
  <2>1. CASE size > WordBits
    <3>1. FromBigint(size, n) = Generic(size, ArrayFromBigint(size, n))
      BY <1>1, <2>1 DEF FromBigint
    <3> QED  BY <1>5, <2>1, <3>1
  <2>2. CASE size <= WordBits
    <3>1. ExtractRuint(n, 0) = Wrap(n)
      <4>1. n \div 1 = n
        BY NoBits, Pow2Unfold DEF Up
      <4> QED  BY <4>1, Pow2Unfold DEF ExtractRuint
    <3>2. FromBigint(size, n) = Small(size, RuintMask(size, Wrap(n)))
      BY <1>1, <2>2, <3>1 DEF FromBigint
    <3> QED  BY <2>2, <3>2, IsSmall
  <2> QED  BY <1>1, <2>1, <2>2
<1> QED  BY <1>4, <1>5, <1>6

\* The words above the first of a number are zero exactly if it fits a word.
LEMMA FitsWord ==
  ASSUME NEW v, NEW size, NEW n, IsVector(v, size, n)
  PROVE  /\ FitsUint(v) <=> n \in Word
         /\ FitsUint(v) => Val(v) = n
<1>1. v.kind \in {"small", "sparse", "generic"} /\ n \in Nat /\ size \in Nat \ {0}
  BY VectorIs
<1>2. CASE v.kind \in {"small", "sparse"}
  <2>1. v.data = <<n>> /\ n \in Word /\ Val(v) = n
    BY <1>2, VectorIs
  <2>2. Len(<<n>>) = 1
    OBVIOUS
  <2>3. FitsUint(v)
    BY <2>1, <2>2 DEF FitsUint
  <2> QED  BY <2>1, <2>3
<1>3. CASE v.kind = "generic"
  <2> DEFINE d == v.data
             e == <<Val(v)>>
  <2>1. /\ d \in Arrays /\ ValueOf(d) = n /\ Len(d) = DataSize(size) /\ Len(d) >= 2 /\ Len(d) \in Nat
        /\ d = WordsOf(n, DataSize(size)) /\ size > WordBits
    BY <1>3, GenericIs
  <2>2. Val(v) \in Word /\ Val(v) = d[1]
    BY ValIs DEF Val
  <2>3. FitsUint(v) <=> \A k \in 2 .. Len(d) : d[k] = 0
    BY DEF FitsUint
  <2> HIDE DEF d
  <2>4. ASSUME FitsUint(v)
        PROVE  n \in Word /\ Val(v) = n
    <3>1. e \in Arrays /\ ValueOf(e) = Val(v) /\ Len(e) = 1 /\ e[1] = Val(v)
      BY <2>2, SingleWord
    <3>2. ASSUME NEW i \in Nat \ {0}
          PROVE  Digit(d, i) = Digit(e, i)
      <4>1. DOMAIN d = 1 .. Len(d) /\ DOMAIN e = 1 .. 1
        BY <2>1, <3>1 DEF Arrays
      <4>2. CASE i = 1
        BY <2>1, <2>2, <3>1, <4>1, <4>2 DEF Digit
      <4>3. CASE i # 1 /\ i \in 1 .. Len(d)
        <5>1. d[i] = 0
          BY <2>1, <2>3, <2>4, <4>3
        <5>2. i \notin 1 .. 1
          BY <4>3
        <5> HIDE DEF e
        <5> QED  BY <4>1, <4>3, <5>1, <5>2 DEF Digit
      <4>4. CASE i # 1 /\ i \notin 1 .. Len(d)
        <5>2. i \notin 1 .. 1
          BY <4>4
        <5> HIDE DEF e
        <5> QED  BY <4>1, <4>4, <5>2 DEF Digit
      <4> QED  BY <4>2, <4>3, <4>4
    <3> HIDE DEF e
    <3>3. ValueOf(d) = ValueOf(e)
      BY <2>1, <3>1, <3>2, EqualDigits
    <3> QED  BY <2>1, <2>2, <3>1, <3>3
  <2>5. ASSUME n \in Word
        PROVE  FitsUint(v)
    <3> DEFINE s == Sparse(size, n)
    <3>1. IsVector(s, size, n) /\ s.kind = "sparse" /\ s.size = size /\ Val(s) = n
      BY <1>1, <2>1, <2>5, IsSparse DEF Sparse, Val
    <3>2. ToGeneric(s) = Generic(size, d)
      <4> HIDE DEF s
      <4> QED  BY <2>1, <3>1, ToGenericIs
    <3>3. ToGeneric(s) = Generic(size, [k \in 1 .. DataSize(size) |-> IF k = 1 THEN n ELSE 0])
      <4> HIDE DEF s
      <4> QED  BY <3>1 DEF ToGeneric
    <3>4. d = [k \in 1 .. DataSize(size) |-> IF k = 1 THEN n ELSE 0]
      BY <3>2, <3>3 DEF Generic
    <3>5. ASSUME NEW k \in 2 .. Len(d)
          PROVE  d[k] = 0
      <4>1. k \in 1 .. DataSize(size) /\ k # 1
        BY <2>1
      <4> QED  BY <3>4, <4>1
    <3> QED  BY <2>3, <3>5
  <2> QED  BY <2>4, <2>5
<1> QED  BY <1>1, <1>2, <1>3

\* eq: representations of the same size are equal exactly if their numbers are.
LEMMA EqBitsIs ==
  ASSUME NEW v, NEW size, NEW n, IsVector(v, size, n),
         NEW w, NEW m, IsVector(w, size, m)
  PROVE  EqBits(v, w) <=> n = m
<1>1. /\ v.kind \in {"small", "sparse", "generic"} /\ w.kind \in {"small", "sparse", "generic"}
      /\ v.kind = "small" <=> w.kind = "small"
      /\ ValueOf(v.data) = n /\ ValueOf(w.data) = m
      /\ size \in Nat \ {0}
  BY VectorIs
<1>2. CASE v.kind = w.kind
  <2>1. EqBits(v, w) <=> v.data = w.data
    BY <1>1, <1>2 DEF EqBits
  <2>2. n = m => v.data = w.data
    BY <1>1, <1>2, VectorIs
  <2>3. v.data = w.data => n = m
    BY <1>1
  <2> QED  BY <2>1, <2>2, <2>3
<1>3. CASE v.kind = "sparse" /\ w.kind = "generic"
  <2>1. EqBits(v, w) <=> ToGeneric(v).data = w.data
    BY <1>3 DEF EqBits
  <2>2. IsVector(ToGeneric(v), size, n) /\ ToGeneric(v).kind = "generic"
    BY <1>3, ToGenericIs
  <2>3. ToGeneric(v).data = WordsOf(n, DataSize(size)) /\ ValueOf(ToGeneric(v).data) = n
    BY <2>2, GenericIs
  <2>4. w.data = WordsOf(m, DataSize(size))
    BY <1>3, GenericIs
  <2> QED  BY <1>1, <2>1, <2>3, <2>4
<1>4. CASE v.kind = "generic" /\ w.kind = "sparse"
  <2>1. EqBits(v, w) <=> Val(v) = Val(w) /\ FitsUint(v)
    BY <1>4 DEF EqBits, FitsUint
  <2>2. Val(w) = m /\ m \in Word
    BY <1>4, VectorIs
  <2>3. (FitsUint(v) <=> n \in Word) /\ (FitsUint(v) => Val(v) = n)
    BY FitsWord
  <2> QED  BY <2>1, <2>2, <2>3
<1> QED  BY <1>1, <1>2, <1>3, <1>4
=============================================================================
