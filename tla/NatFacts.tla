------------------------------- MODULE NatFacts -------------------------------
(* Least and greatest elements of sets of natural numbers, induction over    *)
(* them, and division, for the proofs.                                      *)
EXTENDS Naturals, WellFoundedInduction, TLAPS

\* The least-number principle, from the well-foundedness of < on Nat.
LEMMA NatMin ==
  ASSUME NEW S \in SUBSET Nat, S # {}
  PROVE  \E x \in S : \A y \in S : x <= y
<1>1. PICK x \in S : \A y \in S : ~(<<y, x>> \in OpToRel(<, Nat))
  BY NatLessThanWellFounded, WFMin
<1>2. OpToRel(<, Nat) = {ss \in Nat \X Nat : ss[1] < ss[2]}
  BY Zenon DEF OpToRel
<1>3. \A y \in S : ~(<<y, x>> \in {ss \in Nat \X Nat : ss[1] < ss[2]})
  BY ONLY <1>1, <1>2, Zenon
<1>4. ASSUME NEW y \in S, ~(x <= y) PROVE FALSE
  <2>1. x \in Nat /\ y \in Nat /\ y < x
    BY <1>4
  <2>2. <<y, x>> \in {ss \in Nat \X Nat : ss[1] < ss[2]}
    BY <2>1
  <2> QED BY <1>3, <2>2
<1> QED BY <1>4

\* A bounded set of natural numbers has a largest element.
LEMMA NatMax ==
  ASSUME NEW S \in SUBSET Nat, S # {}, NEW n \in Nat, \A x \in S : x <= n
  PROVE  \E x \in S : \A y \in S : y <= x
<1> DEFINE D == {n - x : x \in S}
<1>1. D \in SUBSET Nat /\ D # {}
  <2>1. \A x \in S : n - x \in Nat
    OBVIOUS
  <2>2. PICK x \in S : TRUE
    OBVIOUS
  <2>3. n - x \in D
    BY <2>2
  <2> QED BY <2>1, <2>3
<1>2. PICK d \in D : \A e \in D : d <= e
  <2> HIDE DEF D
  <2> QED BY <1>1, NatMin
<1>3. PICK x \in S : d = n - x
  OBVIOUS
<1>4. ASSUME NEW y \in S PROVE y <= x
  <2> HIDE DEF D
  <2>1. n - y \in D
    BY DEF D
  <2>2. n - x <= n - y
    BY <1>2, <1>3, <2>1
  <2>3. x \in Nat /\ y \in Nat
    OBVIOUS
  <2> QED BY ONLY <2>2, <2>3, n \in Nat, SMT
<1> QED BY <1>4

\* Induction in the form of a set: what holds of 0, and of n + 1 whenever it
\* holds of n, holds of every natural number.
LEMMA NatInd ==
  ASSUME NEW S, 0 \in S, \A n \in Nat : n \in S => n + 1 \in S
  PROVE  \A n \in Nat : n \in S
<1> SUFFICES ASSUME Nat \ S # {} PROVE FALSE
  OBVIOUS
<1>1. PICK n \in Nat \ S : \A m \in Nat \ S : n <= m
  BY NatMin
<1>2. n # 0 /\ n - 1 \in Nat
  OBVIOUS
<1>3. n - 1 \in S
  BY <1>1, <1>2
<1> QED BY <1>2, <1>3

\* A recursive function on 0 .. n whose steps stay in S has a value in S
\* everywhere.
Recursion(f, n, b, step) == \A i \in 0 .. n : f[i] = IF i = 0 THEN b ELSE step[<<i, f[i - 1]>>]

LEMMA RecExists ==
  ASSUME NEW n \in Nat, NEW S, NEW b \in S, NEW step \in [(1 .. n) \X S -> S]
  PROVE  \E f \in [0 .. n -> S] : Recursion(f, n, b, step)
<1> USE DEF Recursion
<1> DEFINE P(m, f) == \A i \in 0 .. m : f[i] = IF i = 0 THEN b ELSE step[<<i, f[i - 1]>>]
           D == {m \in Nat : m <= n => \E f \in [0 .. m -> S] : P(m, f)}
<1>1. 0 \in D
  <2> DEFINE f == [i \in 0 .. 0 |-> b]
  <2>1. f \in [0 .. 0 -> S]
    OBVIOUS
  <2>2. P(0, f)
    OBVIOUS
  <2> QED BY <2>1, <2>2
<1>2. ASSUME NEW m \in Nat, m \in D PROVE m + 1 \in D
  <2> SUFFICES ASSUME m + 1 <= n PROVE \E f \in [0 .. m + 1 -> S] : P(m + 1, f)
    OBVIOUS
  <2>1. PICK f \in [0 .. m -> S] : P(m, f)
    BY <1>2
  <2> DEFINE g == [i \in 0 .. m + 1 |-> IF i = m + 1 THEN step[<<i, f[i - 1]>>] ELSE f[i]]
  <2>2. g \in [0 .. m + 1 -> S]
    <3>1. ASSUME NEW i \in 0 .. m + 1 PROVE g[i] \in S
      <4>1. CASE i = m + 1
        <5>1. i \in 1 .. n /\ f[i - 1] \in S
          BY <4>1
        <5>2. <<i, f[i - 1]>> \in (1 .. n) \X S
          BY <5>1
        <5> QED BY <4>1, <5>2
      <4>2. CASE i # m + 1
        BY <4>2
      <4> QED BY <4>1, <4>2
    <3> QED BY <3>1
  <2>3. ASSUME NEW i \in 0 .. m + 1
        PROVE  g[i] = IF i = 0 THEN b ELSE step[<<i, g[i - 1]>>]
    <3>1. CASE i = m + 1
      <4>1. g[i - 1] = f[i - 1] /\ i # 0
        BY <3>1
      <4> QED BY <3>1, <4>1
    <3>2. CASE i \in 0 .. m
      <4>1. f[i] = IF i = 0 THEN b ELSE step[<<i, f[i - 1]>>]
        BY <2>1, <3>2
      <4>2. g[i] = f[i] /\ (i # 0 => g[i - 1] = f[i - 1])
        BY <3>2
      <4> HIDE DEF g
      <4> QED BY <4>1, <4>2
    <3> QED BY <3>1, <3>2
  <2>4. P(m + 1, g)
    BY <2>3
  <2> QED BY <2>2, <2>4
<1>3. \A m \in Nat : m \in D
  <2> HIDE DEF D
  <2> QED BY <1>1, <1>2, NatInd
<1>4. n \in D
  BY <1>3
<1> QED BY <1>4

\* The same for a function on all of Nat.
NatRecursion(f, b, step) == f[0] = b /\ \A i \in Nat : f[i + 1] = step[<<i + 1, f[i]>>]

LEMMA RecNat ==
  ASSUME NEW S, NEW b \in S, NEW step \in [Nat \X S -> S]
  PROVE  \E f \in [Nat -> S] : NatRecursion(f, b, step)
<1> DEFINE F(n) == {f \in [0 .. n -> S] : Recursion(f, n, b, step)}
           g == [n \in Nat |-> CHOOSE f \in F(n) : TRUE]
           h == [n \in Nat |-> g[n][n]]
           D == {n \in Nat : \A m \in Nat : n <= m => g[m][n] = g[n][n]}
<1>1. ASSUME NEW n \in Nat PROVE g[n] \in F(n)
  <2>1. [x \in (1 .. n) \X S |-> step[x]] \in [(1 .. n) \X S -> S]
    OBVIOUS
  <2>2. \E f \in [0 .. n -> S] : Recursion(f, n, b, [x \in (1 .. n) \X S |-> step[x]])
    BY <2>1, RecExists
  <2>3. PICK f \in [0 .. n -> S] : Recursion(f, n, b, [x \in (1 .. n) \X S |-> step[x]])
    BY <2>2
  <2>4. ASSUME NEW i \in 0 .. n PROVE f[i] = IF i = 0 THEN b ELSE step[<<i, f[i - 1]>>]
    <3>1. i # 0 => <<i, f[i - 1]>> \in (1 .. n) \X S
      BY <2>3
    <3> QED BY <2>3, <3>1 DEF Recursion
  <2>5. f \in F(n)
    BY <2>4 DEF Recursion
  <2> QED BY <2>5
<1> HIDE DEF g
<1>2. ASSUME NEW n \in Nat, NEW i \in 0 .. n
      PROVE  g[n][i] \in S /\ g[n][i] = IF i = 0 THEN b ELSE step[<<i, g[n][i - 1]>>]
  BY <1>1 DEF Recursion
<1> HIDE DEF F
<1>3. 0 \in D
  <2>1. ASSUME NEW n \in Nat PROVE g[n][0] = b
    <3>1. 0 \in 0 .. n
      OBVIOUS
    <3> QED BY <1>2, <3>1
  <2> QED BY <2>1
<1>4. ASSUME NEW n \in Nat, n \in D PROVE n + 1 \in D
  <2> SUFFICES ASSUME NEW m \in Nat, n + 1 <= m PROVE g[m][n + 1] = g[n + 1][n + 1]
    OBVIOUS
  <2>1. g[m][n] = g[n][n] /\ g[n + 1][n] = g[n][n]
    BY <1>4
  <2>2. n + 1 \in 0 .. m /\ n + 1 \in 0 .. n + 1 /\ n + 1 # 0 /\ n + 1 - 1 = n
    OBVIOUS
  <2>3. g[m][n + 1] = step[<<n + 1, g[m][n]>>]
    BY <1>2, <2>2
  <2>4. g[n + 1][n + 1] = step[<<n + 1, g[n + 1][n]>>]
    BY <1>2, <2>2
  <2> QED BY <2>1, <2>3, <2>4
<1>5. \A n \in Nat : n \in D
  <2> HIDE DEF D
  <2> QED BY <1>3, <1>4, NatInd
<1>6. h \in [Nat -> S]
  <2>1. ASSUME NEW n \in Nat PROVE g[n][n] \in S
    <3>1. n \in 0 .. n
      OBVIOUS
    <3> QED BY <1>2, <3>1
  <2> QED BY <2>1
<1>7. h[0] = b
  <2>1. 0 \in 0 .. 0
    OBVIOUS
  <2>2. g[0][0] = b
    BY <1>2, <2>1
  <2> QED BY <2>2
<1>8. ASSUME NEW i \in Nat PROVE h[i + 1] = step[<<i + 1, h[i]>>]
  <2>1. g[i + 1][i] = g[i][i]
    BY <1>5
  <2>2. i + 1 \in 0 .. i + 1 /\ i + 1 # 0 /\ i + 1 - 1 = i
    OBVIOUS
  <2>3. g[i + 1][i + 1] = step[<<i + 1, g[i + 1][i]>>]
    BY <1>2, <2>2
  <2> QED BY <2>1, <2>3
<1> QED BY <1>6, <1>7, <1>8 DEF NatRecursion

\* A recursive function on D whose argument shrinks by a measure m.
MeasureRecursion(f, D, m, base, next, step) ==
  \A x \in D : f[x] = IF m[x] = 0 THEN base[x] ELSE step[<<x, f[next[x]]>>]

LEMMA RecMeasure ==
  ASSUME NEW D, NEW S, NEW m \in [D -> Nat], NEW base \in [D -> S], NEW next \in [D -> D],
         NEW step \in [D \X S -> S], \A x \in D : m[x] > 0 => m[next[x]] < m[x]
  PROVE  \E f \in [D -> S] : MeasureRecursion(f, D, m, base, next, step)
<1> DEFINE R == [D -> S]
           up == [p \in Nat \X R |->
                    [x \in D |-> IF m[x] = 0 THEN base[x] ELSE step[<<x, p[2][next[x]]>>]]]
<1>1. up \in [Nat \X R -> R]
  OBVIOUS
<1>2. PICK G \in [Nat -> R] : NatRecursion(G, base, up)
  <2>1. base \in R
    OBVIOUS
  <2> HIDE DEF up, R
  <2> QED BY <1>1, <2>1, RecNat
<1>3. ASSUME NEW i \in Nat, NEW x \in D
      PROVE  G[i + 1][x] = IF m[x] = 0 THEN base[x] ELSE step[<<x, G[i][next[x]]>>]
  <2>1. <<i + 1, G[i]>> \in Nat \X R
    OBVIOUS
  <2>2. up[<<i + 1, G[i]>>] = [y \in D |-> IF m[y] = 0 THEN base[y] ELSE step[<<y, G[i][next[y]]>>]]
    BY <2>1
  <2>3. G[i + 1] = [y \in D |-> IF m[y] = 0 THEN base[y] ELSE step[<<y, G[i][next[y]]>>]]
    BY <1>2, <2>2 DEF NatRecursion
  <2> HIDE DEF up, R
  <2> QED BY <2>3
<1> HIDE DEF up, R
<1> DEFINE Stable == {i \in Nat : \A x \in D : m[x] <= i => G[i + 1][x] = G[i + 2][x]}
           f == [x \in D |-> G[m[x] + 1][x]]
<1>4. 0 \in Stable
  <2> SUFFICES ASSUME NEW x \in D, m[x] <= 0 PROVE G[0 + 1][x] = G[0 + 2][x]
    OBVIOUS
  <2>1. m[x] = 0 /\ 0 \in Nat /\ 1 \in Nat /\ 0 + 2 = 1 + 1
    OBVIOUS
  <2>2. G[0 + 1][x] = base[x]
    BY <1>3, <2>1
  <2>3. G[1 + 1][x] = base[x]
    BY <1>3, <2>1
  <2> QED BY <2>1, <2>2, <2>3
<1>5. ASSUME NEW i \in Nat, i \in Stable PROVE i + 1 \in Stable
  <2> SUFFICES ASSUME NEW x \in D, m[x] <= i + 1 PROVE G[i + 1 + 1][x] = G[i + 1 + 2][x]
    OBVIOUS
  <2>1. i + 1 \in Nat /\ i + 2 \in Nat /\ i + 1 + 1 = i + 2 /\ i + 1 + 2 = i + 2 + 1
    OBVIOUS
  <2>2. G[i + 1 + 1][x] = IF m[x] = 0 THEN base[x] ELSE step[<<x, G[i + 1][next[x]]>>]
    BY <1>3, <2>1
  <2>3. G[i + 2 + 1][x] = IF m[x] = 0 THEN base[x] ELSE step[<<x, G[i + 2][next[x]]>>]
    BY <1>3, <2>1
  <2>4. m[x] > 0 => next[x] \in D /\ m[next[x]] <= i
    OBVIOUS
  <2>5. m[x] > 0 => G[i + 1][next[x]] = G[i + 2][next[x]]
    BY <1>5, <2>4
  <2> QED BY <2>1, <2>2, <2>3, <2>5
<1>6. \A i \in Nat : i \in Stable
  <2> HIDE DEF Stable
  <2> QED BY <1>4, <1>5, NatInd
<1>7. ASSUME NEW x \in D, NEW k \in Nat, m[x] <= k PROVE G[k + 1][x] = f[x]
  <2> DEFINE K == {j \in Nat : G[m[x] + j + 1][x] = f[x]}
  <2>1. 0 \in K
    OBVIOUS
  <2>2. ASSUME NEW j \in Nat, j \in K PROVE j + 1 \in K
    <3>1. m[x] + j \in Stable
      BY <1>6
    <3>2. G[m[x] + j + 1][x] = G[m[x] + j + 2][x]
      BY <3>1
    <3> QED BY <2>2, <3>2
  <2>3. \A j \in Nat : j \in K
    <3> HIDE DEF K
    <3> QED BY <2>1, <2>2, NatInd
  <2>4. k - m[x] \in Nat /\ m[x] + (k - m[x]) = k
    <3>1. m[x] \in Nat
      OBVIOUS
    <3> QED BY <3>1, <1>7
  <2>5. k - m[x] \in K
    BY <2>3, <2>4
  <2> QED BY <2>4, <2>5
<1>8. ASSUME NEW x \in D PROVE f[x] \in S /\ f[x] = IF m[x] = 0 THEN base[x] ELSE step[<<x, f[next[x]]>>]
  <2>1. f[x] = IF m[x] = 0 THEN base[x] ELSE step[<<x, G[m[x]][next[x]]>>]
    BY <1>3
  <2>2. m[x] > 0 => G[m[x]][next[x]] = f[next[x]]
    <3> SUFFICES ASSUME m[x] > 0 PROVE G[m[x]][next[x]] = f[next[x]]
      OBVIOUS
    <3>1. next[x] \in D /\ m[x] - 1 \in Nat /\ m[next[x]] <= m[x] - 1 /\ m[x] - 1 + 1 = m[x]
      OBVIOUS
    <3> QED BY <1>7, <3>1
  <2>3. f[x] \in S
    <3>1. G[m[x] + 1] \in [D -> S]
      BY <1>2 DEF R
    <3> QED BY <3>1
  <2> QED BY <2>1, <2>2, <2>3
<1> HIDE DEF f
<1>9. f \in [D -> S]
  BY <1>8 DEF f
<1> QED BY <1>8, <1>9 DEF MeasureRecursion

-----------------------------------------------------------------------------
LEMMA DivType ==
  ASSUME NEW a \in Nat, NEW d \in Nat \ {0}
  PROVE  a \div d \in Nat /\ d * (a \div d) <= a /\ a < d * (a \div d) + d
BY SMT

LEMMA MulDiv ==
  ASSUME NEW a \in Nat, NEW d \in Nat \ {0}
  PROVE  (a * d) \div d = a
BY SMT

LEMMA ModType ==
  ASSUME NEW a \in Nat, NEW d \in Nat \ {0}
  PROVE  a % d \in 0 .. d - 1 /\ a = d * (a \div d) + (a % d)
BY SMT

\* Multiples of d are closed under sum, difference and product.
LEMMA ModZero ==
  ASSUME NEW k \in Nat, NEW d \in Nat \ {0}
  PROVE  (d * k) % d = 0
BY SMT

LEMMA ModSum ==
  ASSUME NEW a \in Nat, NEW b \in Nat, NEW d \in Nat \ {0}, a % d = 0, b % d = 0
  PROVE  (a + b) % d = 0 /\ (a <= b => (b - a) % d = 0)
<1> DEFINE x == a \div d
           y == b \div d
<1>1. x \in Nat /\ y \in Nat /\ a = d * x /\ b = d * y
  BY DivType, ModType
<1> HIDE DEF x, y
<1>2. a + b = d * (x + y) /\ (x <= y => b - a = d * (y - x))
  BY <1>1, SMT
<1>3. y < x => b < a
  <2>1. y < x => d * x = d * y + d * (x - y) /\ d * (x - y) >= d
    BY <1>1, SMT
  <2> QED BY <1>1, <2>1
<1>4. x + y \in Nat /\ (x <= y => y - x \in Nat)
  BY <1>1
<1>5. (d * (x + y)) % d = 0
  BY <1>4, ModZero
<1>6. x <= y => (d * (y - x)) % d = 0
  BY <1>4, ModZero
<1> QED BY <1>1, <1>2, <1>3, <1>5, <1>6

LEMMA ModProduct ==
  ASSUME NEW a \in Nat, NEW p \in Nat, NEW d \in Nat \ {0}, a % d = 0
  PROVE  (p * a) % d = 0
<1> DEFINE x == a \div d
<1>1. x \in Nat /\ a = d * x
  BY DivType, ModType
<1> HIDE DEF x
<1>2. p * a = d * (p * x) /\ p * x \in Nat
  BY <1>1, SMT
<1> QED BY <1>2, ModZero

\* A number in a row of d.
LEMMA RowCol ==
  ASSUME NEW y \in Nat, NEW d \in Nat \ {0}, NEW x \in 0 .. d - 1
  PROVE  (d * y + x) \div d = y /\ (d * y + x) % d = x
BY SMT

\* The quotient of a number below a product.
LEMMA DivBelow ==
  ASSUME NEW d \in Nat \ {0}, NEW n \in Nat, NEW a \in Nat, a < d * n
  PROVE  a \div d \in 0 .. n - 1
<1> DEFINE q == a \div d
<1>1. q \in Nat /\ d * q <= a
  BY DivType
<1> HIDE DEF q
<1>2. ASSUME n <= q PROVE FALSE
  <2>1. d * n <= d * q
    BY <1>1, <1>2
  <2> QED BY <1>1, <2>1
<1> QED BY <1>1, <1>2 DEF q

LEMMA DivUnique ==
  ASSUME NEW d \in Nat \ {0}, NEW q \in Nat, NEW a \in Nat, q * d <= a, a < q * d + d
  PROVE  a \div d = q
BY SMT

\* Dividing twice is dividing by the product.
LEMMA DivDiv ==
  ASSUME NEW n \in Nat, NEW a \in Nat \ {0}, NEW b \in Nat \ {0}
  PROVE  (n \div a) \div b = n \div (a * b)
<1> DEFINE q == n \div a
           p == q \div b
<1>1. q \in Nat /\ a * q <= n /\ n < a * q + a
  BY DivType
<1>2. p \in Nat /\ b * p <= q /\ q < b * p + b
  BY <1>1, DivType
<1> HIDE DEF q, p
<1>3. a * b \in Nat \ {0}
  BY SMT
<1>4. p * (a * b) = a * (b * p) /\ a * (b * p + b) = p * (a * b) + a * b
  BY <1>1, <1>2, SMT
<1>5. b * p \in Nat /\ q + 1 <= b * p + b
  BY <1>1, <1>2
<1>6. a * (b * p) <= a * q
  BY <1>1, <1>2, <1>5, SMT
<1>7. a * (q + 1) <= a * (b * p + b) /\ a * (q + 1) = a * q + a
  BY <1>1, <1>2, <1>5, SMT
<1>8. p * (a * b) <= n /\ n < p * (a * b) + a * b
  <2>1. a * q \in Nat /\ p * (a * b) \in Nat
    BY <1>1, <1>2, <1>3, SMT
  <2> QED BY <1>1, <1>3, <1>4, <1>6, <1>7, <2>1
<1>9. n \div (a * b) = p
  <2> DEFINE d == a * b
  <2>1. d \in Nat \ {0} /\ p * d <= n /\ n < p * d + d
    BY <1>3, <1>8
  <2> HIDE DEF d
  <2>2. n \div d = p
    BY <1>2, <2>1, DivUnique
  <2> QED BY <2>2 DEF d
<1> QED BY <1>9 DEF q, p

\* A digit below the place of a divisor is that of the remainder.
LEMMA DigitOfMod ==
  ASSUME NEW n \in Nat, NEW e \in Nat \ {0}, NEW c \in Nat \ {0}, NEW b \in Nat \ {0}
  PROVE  ((n % (e * (b * c))) \div e) % b = (n \div e) % b
<1> DEFINE m == e * (b * c)
           q == n \div m
           r == n % m
           x == r \div e
<1>1. b * c \in Nat \ {0} /\ m \in Nat \ {0}
  <2>1. b * c \in Nat \ {0}
    BY SMT
  <2> DEFINE y == b * c
  <2> HIDE DEF y
  <2>2. y \in Nat \ {0} => e * y \in Nat \ {0}
    BY SMT
  <2> QED BY <2>1, <2>2 DEF y
<1>2. q \in Nat /\ r \in Nat /\ n = m * q + r
  <2> HIDE DEF m
  <2> QED BY <1>1, DivType, ModType
<1>3. x \in Nat /\ e * x <= r /\ r < e * x + e
  <2> HIDE DEF r, m, q
  <2> QED BY <1>2, DivType
<1> HIDE DEF q, r, x
<1>4. n \div e = b * (c * q) + x
  <2> DEFINE z == b * (c * q) + x
  <2>1. m * q = e * (b * (c * q))
    BY <1>1, <1>2, SMT
  <2>2. b * (c * q) \in Nat
    BY <1>2, SMT
  <2>3. e * z = e * (b * (c * q)) + e * x
    BY <1>3, <2>2, SMT
  <2> HIDE DEF m
  <2>4. z \in Nat /\ e * z \in Nat /\ z * e = e * z
    <3>1. z \in Nat
      BY <1>3, <2>2
    <3> HIDE DEF z
    <3> QED BY <3>1, SMT
  <2> HIDE DEF z
  <2>5. z * e <= n /\ n < z * e + e
    <3>1. m * q \in Nat /\ e * x \in Nat
      BY <1>1, <1>2, <1>3, SMT
    <3> QED BY <1>2, <1>3, <2>1, <2>3, <2>4, <3>1
  <2> QED BY <2>4, <2>5, DivUnique DEF z
<1>5. (b * (c * q) + x) % b = x % b
  <2> DEFINE y == c * q
             u == x \div b
             v == x % b
  <2>1. y \in Nat
    BY <1>2, SMT
  <2>2. u \in Nat /\ v \in 0 .. b - 1 /\ x = b * u + v
    BY <1>3, DivType, ModType
  <2> HIDE DEF y, u, v
  <2>3. b * y + x = b * (y + u) + v /\ y + u \in Nat
    BY <1>3, <2>1, <2>2, SMT
  <2>4. (b * (y + u) + v) % b = v
    BY <2>2, <2>3, RowCol
  <2> QED BY <2>3, <2>4 DEF y, v
<1> QED BY <1>4, <1>5 DEF r, x
=============================================================================
