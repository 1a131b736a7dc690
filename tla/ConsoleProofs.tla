----------------------------- MODULE ConsoleProofs -----------------------------
(* Proofs about Console, for words of every size, every memory map and all      *)
(* handlers' traces.                                                            *)
EXTENDS Console, TLAPS, SequenceTheorems, WellFoundedInduction
--------------------------------------------------------------------------------
(* Induction and recursion.  What would be an operator on numbers elsewhere is  *)
(* a set or a function here, which the provers can instantiate.                 *)
LEMMA LeastElement ==
    ASSUME NEW S, S \subseteq Nat, S # {}
    PROVE  \E x \in S : \A y \in S : x <= y
<1> DEFINE R == {ss \in Nat \X Nat : ss[1] < ss[2]}
<1>1. IsWellFoundedOn(R, Nat)
  BY NatLessThanWellFounded DEF OpToRel
<1> HIDE DEF R
<1>2. PICK x \in S : \A y \in S : ~ (<<y, x>> \in R)
  BY <1>1, WFMin, Zenon
<1>3. ASSUME NEW y \in S PROVE x <= y
  <2>1. ~ (<<y, x>> \in R) /\ x \in Nat /\ y \in Nat
    BY <1>2
  <2>2. ~ (y < x)
    BY <2>1 DEF R
  <2> QED BY <2>1, <2>2
<1> QED BY <1>3, Zenon

LEMMA Induction ==
    ASSUME NEW S, 0 \in S, \A n \in Nat : n \in S => n + 1 \in S
    PROVE  \A n \in Nat : n \in S
<1> DEFINE T == {n \in Nat : n \notin S}
<1>1. SUFFICES ASSUME T # {} PROVE FALSE
  OBVIOUS
<1>2. T \subseteq Nat
  OBVIOUS
<1>3. PICK x \in T : \A y \in T : x <= y
  <2> HIDE DEF T
  <2> QED BY <1>1, <1>2, LeastElement, Zenon
<1>4. x \in Nat /\ x \notin S /\ x # 0
  OBVIOUS
<1>5. x - 1 \in Nat /\ (x - 1) + 1 = x /\ ~ (x <= x - 1)
  BY <1>4
<1>6. x - 1 \in S
  BY <1>3, <1>5
<1> QED BY <1>4, <1>5, <1>6

(* f lists the values of a, of what next makes of it in the first round, and so *)
(* on up to round n.                                                            *)
Iterates(n, S, a, next, f) ==
    /\ f \in [0 .. n -> S]
    /\ f[0] = a
    /\ \A m \in 1 .. n : f[m] = next[m][f[m - 1]]

LEMMA IteratesExist ==
    ASSUME NEW S, NEW a \in S, NEW next \in [Nat -> [S -> S]]
    PROVE  \A n \in Nat : \E f : Iterates(n, S, a, next, f)
<1> DEFINE T == {n \in Nat : \E f : Iterates(n, S, a, next, f)}
<1>1. 0 \in T
  <2> DEFINE f == [m \in 0 .. 0 |-> a]
  <2>1. Iterates(0, S, a, next, f)
    BY DEF Iterates
  <2> QED BY <2>1
<1>2. ASSUME NEW n \in Nat, n \in T PROVE n + 1 \in T
  <2>1. PICK f : Iterates(n, S, a, next, f)
    BY <1>2
  <2> DEFINE g == [m \in 0 .. n + 1 |-> IF m = n + 1 THEN next[n + 1][f[n]] ELSE f[m]]
  <2>2. f \in [0 .. n -> S] /\ f[0] = a /\ \A m \in 1 .. n : f[m] = next[m][f[m - 1]]
    BY <2>1 DEF Iterates
  <2>3. next[n + 1][f[n]] \in S
    <3>1. n + 1 \in Nat /\ n \in 0 .. n
      OBVIOUS
    <3>2. next[n + 1] \in [S -> S] /\ f[n] \in S
      BY <2>2, <3>1
    <3> QED BY <3>2
  <2>4. g \in [0 .. n + 1 -> S]
    BY <2>2, <2>3
  <2>5. g[0] = a
    BY <2>2
  <2>6. ASSUME NEW m \in 1 .. n + 1 PROVE g[m] = next[m][g[m - 1]]
    <3>1. m - 1 \in 0 .. n + 1 /\ m - 1 # n + 1 /\ m \in 0 .. n + 1
      OBVIOUS
    <3>2. g[m - 1] = f[m - 1]
      BY <3>1
    <3>3. CASE m = n + 1
      <4>1. g[m] = next[m][f[n]] /\ m - 1 = n
        BY <3>1, <3>3
      <4> QED BY <3>2, <4>1, Zenon
    <3>4. CASE m # n + 1
      <4>1. g[m] = f[m] /\ m \in 1 .. n
        BY <3>1, <3>4
      <4> HIDE DEF g
      <4> QED BY <2>2, <3>2, <4>1, Zenon
    <3> QED BY <3>3, <3>4
  <2> HIDE DEF g
  <2>7. Iterates(n + 1, S, a, next, g)
    BY <2>4, <2>5, <2>6 DEF Iterates
  <2> QED BY <2>7
<1>3. \A n \in Nat : n \in T
  <2> HIDE DEF T
  <2> QED BY <1>1, <1>2, Induction, Zenon
<1> QED BY <1>3

(* They agree as far as they go.                                                *)
LEMMA IteratesAgree ==
    ASSUME NEW S, NEW a, NEW next, NEW n \in Nat, NEW k \in Nat, NEW f, NEW g,
           Iterates(n, S, a, next, f), Iterates(k, S, a, next, g)
    PROVE  \A m \in Nat : m <= n /\ m <= k => f[m] = g[m]
<1> DEFINE T == {m \in Nat : m <= n /\ m <= k => f[m] = g[m]}
<1>1. 0 \in T
  BY DEF Iterates
<1>2. ASSUME NEW m \in Nat, m \in T PROVE m + 1 \in T
  <2>1. SUFFICES ASSUME m + 1 <= n, m + 1 <= k PROVE f[m + 1] = g[m + 1]
    OBVIOUS
  <2>2. f[m] = g[m] /\ m + 1 \in 1 .. n /\ m + 1 \in 1 .. k /\ (m + 1) - 1 = m
    BY <1>2, <2>1
  <2>3. f[m + 1] = next[m + 1][f[(m + 1) - 1]] /\ g[m + 1] = next[m + 1][g[(m + 1) - 1]]
    BY <2>2, Zenon DEF Iterates
  <2> QED BY <2>2, <2>3
<1>3. \A m \in Nat : m \in T
  <2> HIDE DEF T
  <2> QED BY <1>1, <1>2, Induction, Zenon
<1> QED BY <1>3

(* One function for all numbers of rounds.                                      *)
Iteration(S, a, next, f) ==
    /\ f \in [Nat -> S]
    /\ f[0] = a
    /\ \A m \in Nat : f[m + 1] = next[m + 1][f[m]]

LEMMA IterationExists ==
    ASSUME NEW S, NEW a \in S, NEW next \in [Nat -> [S -> S]]
    PROVE  \E f : Iteration(S, a, next, f)
<1> DEFINE F(n) == CHOOSE f : Iterates(n, S, a, next, f)
<1>1. \A n \in Nat : Iterates(n, S, a, next, F(n))
  BY IteratesExist, Zenon
<1> DEFINE f == [n \in Nat |-> F(n)[n]]
<1> HIDE DEF F
<1>2. \A n \in Nat : f[n] = F(n)[n]
  OBVIOUS
<1>3. \A n \in Nat : f[n] \in S
  <2>1. ASSUME NEW n \in Nat PROVE f[n] \in S
    <3>1. F(n) \in [0 .. n -> S] /\ n \in 0 .. n
      BY <1>1 DEF Iterates
    <3>2. F(n)[n] \in S
      BY <3>1
    <3> QED BY <1>2, <3>2
  <2> QED BY <2>1
<1>4. f \in [Nat -> S]
  BY <1>3
<1> HIDE DEF f
<1>5. f[0] = a
  BY <1>1, <1>2 DEF Iterates
<1>6. ASSUME NEW m \in Nat PROVE f[m + 1] = next[m + 1][f[m]]
  <2>1. m + 1 \in Nat /\ m + 1 \in 1 .. m + 1 /\ (m + 1) - 1 = m /\ m <= m /\ m <= m + 1
    OBVIOUS
  <2>2. Iterates(m + 1, S, a, next, F(m + 1)) /\ Iterates(m, S, a, next, F(m))
    BY <1>1, <2>1
  <2>3. F(m + 1)[m + 1] = next[m + 1][F(m + 1)[(m + 1) - 1]]
    BY <2>1, <2>2, Zenon DEF Iterates
  <2>4. F(m + 1)[m] = F(m)[m]
    <3>1. \A k \in Nat : k <= m + 1 /\ k <= m => F(m + 1)[k] = F(m)[k]
      BY <2>1, <2>2, IteratesAgree
    <3> QED BY <2>1, <3>1
  <2>5. f[m + 1] = F(m + 1)[m + 1] /\ f[m] = F(m)[m]
    BY <1>2, <2>1
  <2> QED BY <2>1, <2>3, <2>4, <2>5, Zenon
<1> QED BY <1>4, <1>5, <1>6 DEF Iteration
--------------------------------------------------------------------------------
(* Powers *)

PowerRule(b, f) == f = [k \in Nat |-> IF k = 0 THEN 1 ELSE b * f[k - 1]]

LEMMA PowerRuleIs ==
    ASSUME NEW b, NEW f, PowerRule(b, f)
    PROVE  f[0] = 1 /\ \A n \in Nat : f[n + 1] = b * f[n]
<1> DEFINE v(k) == IF k = 0 THEN 1 ELSE b * f[k - 1]
<1>1. \A k \in Nat : f[k] = v(k)
  <2>1. f = [k \in Nat |-> v(k)]
    BY Zenon DEF PowerRule
  <2> HIDE DEF v
  <2> QED BY <2>1
<1>2. f[0] = v(0) /\ v(0) = 1
  BY <1>1
<1>3. ASSUME NEW n \in Nat PROVE f[n + 1] = b * f[n]
  <2>1. n + 1 \in Nat /\ n + 1 # 0 /\ (n + 1) - 1 = n
    OBVIOUS
  <2>2. f[n + 1] = v(n + 1)
    BY <1>1, <2>1, Zenon
  <2>3. v(n + 1) = b * f[(n + 1) - 1]
    BY <2>1, Zenon
  <2> QED BY <2>1, <2>2, <2>3, Zenon
<1> QED BY <1>2, <1>3

LEMMA PowerRuleExists ==
    ASSUME NEW b \in Nat
    PROVE  \E f : PowerRule(b, f)
<1> DEFINE next == [m \in Nat |-> [x \in Nat |-> b * x]]
<1>1. next \in [Nat -> [Nat -> Nat]] /\ 1 \in Nat
  OBVIOUS
<1>2. \A m \in Nat, x \in Nat : next[m][x] = b * x
  OBVIOUS
<1> HIDE DEF next
<1>3. PICK f : Iteration(Nat, 1, next, f)
  BY <1>1, IterationExists, Zenon
<1>4. ASSUME NEW k \in Nat PROVE f[k] = IF k = 0 THEN 1 ELSE b * f[k - 1]
  <2>1. CASE k # 0
    <3>1. k - 1 \in Nat /\ (k - 1) + 1 = k
      BY <2>1
    <3>2. f[(k - 1) + 1] = next[(k - 1) + 1][f[k - 1]]
      BY <1>3, <3>1 DEF Iteration
    <3>3. next[k][f[k - 1]] = b * f[k - 1]
      BY <1>2, <1>3, <3>1 DEF Iteration
    <3> QED BY <2>1, <3>1, <3>2, <3>3
  <2> QED BY <1>3, <2>1 DEF Iteration
<1>5. f = [k \in Nat |-> f[k]]
  BY <1>3 DEF Iteration
<1>6. PowerRule(b, f)
  <2>1. [k \in Nat |-> f[k]] = [k \in Nat |-> IF k = 0 THEN 1 ELSE b * f[k - 1]]
    BY <1>4
  <2> QED BY <1>5, <2>1, Zenon DEF PowerRule
<1> QED BY <1>6

LEMMA PowerIs ==
    ASSUME NEW b \in Nat
    PROVE  /\ Power(b, 0) = 1
           /\ \A n \in Nat : Power(b, n) \in Nat /\ Power(b, n + 1) = b * Power(b, n)
<1> DEFINE f == CHOOSE g : PowerRule(b, g)
<1>1. PowerRule(b, f)
  BY PowerRuleExists, Zenon
<1>2. \A n : Power(b, n) = f[n]
  BY Zenon DEF Power, PowerRule
<1> HIDE DEF f
<1>3. f[0] = 1 /\ \A n \in Nat : f[n + 1] = b * f[n]
  BY <1>1, PowerRuleIs
<1>4. \A n \in Nat : f[n] \in Nat
  <2> DEFINE T == {n \in Nat : f[n] \in Nat}
  <2>1. 0 \in T
    BY <1>3
  <2>2. \A n \in Nat : n \in T => n + 1 \in T
    BY <1>3
  <2>3. \A n \in Nat : n \in T
    <3> HIDE DEF T
    <3> QED BY <2>1, <2>2, Induction, Zenon
  <2> QED BY <2>3
<1> QED BY <1>2, <1>3, <1>4

LEMMA PowerPositive ==
    ASSUME NEW b \in Nat \ {0}
    PROVE  \A n \in Nat : Power(b, n) \in Nat \ {0}
<1>1. b \in Nat
  OBVIOUS
<1>2. /\ Power(b, 0) = 1
      /\ \A n \in Nat : Power(b, n) \in Nat /\ Power(b, n + 1) = b * Power(b, n)
  BY <1>1, PowerIs
<1> DEFINE T == {n \in Nat : Power(b, n) \in Nat \ {0}}
<1>3. 0 \in T
  BY <1>2
<1>4. ASSUME NEW n \in Nat, n \in T PROVE n + 1 \in T
  <2>1. \A x \in Nat \ {0} : b * x \in Nat \ {0}
    OBVIOUS
  <2>2. Power(b, n + 1) = b * Power(b, n) /\ Power(b, n) \in Nat \ {0}
    BY <1>2, <1>4
  <2> QED BY <2>1, <2>2
<1>5. \A n \in Nat : n \in T
  <2> HIDE DEF T
  <2> QED BY <1>3, <1>4, Induction, Zenon
<1> QED BY <1>5
LEMMA PowerMonotone == \A n \in Nat : Power(10, n) <= Power(16, n)
<1>1. /\ Power(10, 0) = 1 /\ Power(16, 0) = 1
      /\ \A n \in Nat : /\ Power(10, n) \in Nat /\ Power(10, n + 1) = 10 * Power(10, n)
                        /\ Power(16, n) \in Nat /\ Power(16, n + 1) = 16 * Power(16, n)
  BY PowerIs
<1> DEFINE T == {n \in Nat : Power(10, n) <= Power(16, n)}
<1>2. 0 \in T
  BY <1>1
<1>3. \A n \in Nat : n \in T => n + 1 \in T
  BY <1>1
<1>4. \A n \in Nat : n \in T
  <2> HIDE DEF T
  <2> QED BY <1>2, <1>3, Induction, Zenon
<1> QED BY <1>4
--------------------------------------------------------------------------------
(* C's division, and a number divided again and again *)

LEMMA Division ==
    ASSUME NEW a \in Nat, NEW b \in Nat \ {0}
    PROVE  a \div b \in Nat /\ a % b \in 0 .. b - 1 /\ a = b * (a \div b) + (a % b)
OBVIOUS

LEMMA DivisionUnique ==
    ASSUME NEW b \in Nat \ {0}, NEW q \in Nat, NEW r \in 0 .. b - 1
    PROVE  (b * q + r) \div b = q /\ (b * q + r) % b = r
OBVIOUS

(* Dividing twice is dividing by the product.                                   *)
LEMMA DivisionTwice ==
    ASSUME NEW a \in Nat, NEW p1 \in Nat \ {0}, NEW b \in Nat \ {0}
    PROVE  (a \div p1) \div b = a \div (b * p1)
<1> DEFINE q == a \div p1
           r == a % p1
           q2 == q \div b
           r2 == q % b
<1>1. q \in Nat /\ r \in 0 .. p1 - 1 /\ a = p1 * q + r
  BY Division
<1>2. q2 \in Nat /\ r2 \in 0 .. b - 1 /\ q = b * q2 + r2
  BY <1>1, Division
<1> HIDE DEF q, r, q2, r2
<1> DEFINE s == p1 * r2 + r
<1>3. b * p1 \in Nat \ {0}
  OBVIOUS
<1>4. a = (b * p1) * q2 + s
  <2>1. p1 * (b * q2 + r2) = (b * p1) * q2 + p1 * r2
    BY <1>2
  <2> QED BY <1>1, <1>2, <2>1
<1>5. s \in 0 .. b * p1 - 1
  <2>1. p1 * r2 \in Nat /\ p1 * r2 <= p1 * (b - 1)
    BY <1>2
  <2>2. p1 * (b - 1) = b * p1 - p1
    OBVIOUS
  <2> QED BY <1>1, <2>1, <2>2, <1>3
<1> HIDE DEF s
<1>6. ((b * p1) * q2 + s) \div (b * p1) = q2
  BY <1>2, <1>3, <1>5, DivisionUnique, Zenon
<1> QED BY <1>4, <1>6 DEF q, q2

LEMMA QuotIs ==
    ASSUME NEW a \in Int, NEW b \in Nat \ {0}
    PROVE  /\ Quot(a, b) \in Int
           /\ a >= 0 => Quot(a, b) >= 0 /\ Quot(a, b) = a \div b /\ Rem(a, b) = a % b
           /\ a <= 0 => /\ Quot(a, b) <= 0 /\ Quot(a, b) = - ((- a) \div b)
                        /\ Rem(a, b) = - ((- a) % b)
<1>1. CASE a >= 0
  <2>1. a \in Nat /\ a \div b \in Nat /\ a % b \in 0 .. b - 1 /\ a = b * (a \div b) + (a % b)
    <3>1. a \in Nat
      BY <1>1
    <3> QED BY <3>1, Division, Zenon
  <2>2. 0 \div b = 0 /\ 0 % b = 0
    OBVIOUS
  <2>3. Quot(a, b) = a \div b
    BY <1>1 DEF Quot
  <2> QED BY <1>1, <2>1, <2>2, <2>3 DEF Rem
<1>2. CASE a < 0
  <2>1. /\ - a \in Nat /\ (- a) \div b \in Nat /\ (- a) % b \in 0 .. b - 1
        /\ - a = b * ((- a) \div b) + ((- a) % b)
    <3>1. - a \in Nat
      BY <1>2
    <3> QED BY <3>1, Division, Zenon
  <2>2. Quot(a, b) = - ((- a) \div b)
    BY <1>2 DEF Quot
  <2>3. b * (- ((- a) \div b)) = - (b * ((- a) \div b))
    BY <2>1
  <2> QED BY <1>2, <2>1, <2>2, <2>3 DEF Rem
<1> QED BY <1>1, <1>2
DividedRule(n, b, f) == f = [k \in Nat |-> IF k = 0 THEN n ELSE Quot(f[k - 1], b)]

LEMMA DividedRuleIs ==
    ASSUME NEW n, NEW b, NEW f, DividedRule(n, b, f)
    PROVE  f[0] = n /\ \A k \in Nat : f[k + 1] = Quot(f[k], b)
<1> DEFINE v(k) == IF k = 0 THEN n ELSE Quot(f[k - 1], b)
<1>1. \A k \in Nat : f[k] = v(k)
  <2>1. f = [k \in Nat |-> v(k)]
    BY Zenon DEF DividedRule
  <2> HIDE DEF v
  <2> QED BY <2>1
<1>2. f[0] = v(0) /\ v(0) = n
  BY <1>1
<1>3. ASSUME NEW k \in Nat PROVE f[k + 1] = Quot(f[k], b)
  <2>1. k + 1 \in Nat /\ k + 1 # 0 /\ (k + 1) - 1 = k
    OBVIOUS
  <2>2. f[k + 1] = v(k + 1)
    BY <1>1, <2>1, Zenon
  <2>3. v(k + 1) = Quot(f[(k + 1) - 1], b)
    BY <2>1, Zenon
  <2> QED BY <2>1, <2>2, <2>3, Zenon
<1> QED BY <1>2, <1>3

LEMMA DividedRuleExists ==
    ASSUME NEW n \in Int, NEW b \in Nat \ {0}
    PROVE  \E f : DividedRule(n, b, f)
<1> DEFINE next == [m \in Nat |-> [x \in Int |-> Quot(x, b)]]
<1>1. next \in [Nat -> [Int -> Int]]
  <2>1. \A x \in Int : Quot(x, b) \in Int
    BY QuotIs
  <2> QED BY <2>1
<1>2. \A m \in Nat, x \in Int : next[m][x] = Quot(x, b)
  OBVIOUS
<1> HIDE DEF next
<1>3. PICK f : Iteration(Int, n, next, f)
  BY <1>1, IterationExists, Zenon
<1>4. ASSUME NEW k \in Nat PROVE f[k] = IF k = 0 THEN n ELSE Quot(f[k - 1], b)
  <2>1. CASE k # 0
    <3>1. k - 1 \in Nat /\ (k - 1) + 1 = k
      BY <2>1
    <3>2. f[(k - 1) + 1] = next[(k - 1) + 1][f[k - 1]]
      BY <1>3, <3>1 DEF Iteration
    <3>3. next[k][f[k - 1]] = Quot(f[k - 1], b)
      BY <1>2, <1>3, <3>1 DEF Iteration
    <3> QED BY <2>1, <3>1, <3>2, <3>3
  <2> QED BY <1>3, <2>1 DEF Iteration
<1>5. f = [k \in Nat |-> f[k]]
  BY <1>3 DEF Iteration
<1>6. DividedRule(n, b, f)
  <2>1. [k \in Nat |-> f[k]] = [k \in Nat |-> IF k = 0 THEN n ELSE Quot(f[k - 1], b)]
    BY <1>4
  <2> QED BY <1>5, <2>1, Zenon DEF DividedRule
<1> QED BY <1>6

LEMMA DividedStep ==
    ASSUME NEW n \in Int, NEW b \in Nat \ {0}
    PROVE  /\ Divided(n, b)[0] = n
           /\ \A k \in Nat : Divided(n, b)[k + 1] = Quot(Divided(n, b)[k], b)
<1> DEFINE f == CHOOSE g : DividedRule(n, b, g)
<1>1. DividedRule(n, b, f)
  BY DividedRuleExists, Zenon
<1>2. Divided(n, b) = f
  BY Zenon DEF Divided, DividedRule
<1> HIDE DEF f
<1>3. f[0] = n /\ \A k \in Nat : f[k + 1] = Quot(f[k], b)
  BY <1>1, DividedRuleIs
<1> QED BY <1>2, <1>3

(* What is left after k divisions has the sign of the number, and the magnitude *)
(* of the number over the k-th power.                                           *)
Remainder(n, b, k, m) ==
    /\ m \in Int
    /\ n >= 0 => m >= 0
    /\ n <= 0 => m <= 0
    /\ Magnitude(m) = Magnitude(n) \div Power(b, k)

LEMMA DividedIs ==
    ASSUME NEW n \in Int, NEW b \in Nat \ {0}
    PROVE  \A k \in Nat : Remainder(n, b, k, Divided(n, b)[k])
<1> DEFINE f == Divided(n, b)
<1>1. f[0] = n /\ \A k \in Nat : f[k + 1] = Quot(f[k], b)
  BY DividedStep
<1>2. /\ Power(b, 0) = 1
      /\ \A k \in Nat : Power(b, k) \in Nat \ {0} /\ Power(b, k + 1) = b * Power(b, k)
  BY PowerIs, PowerPositive
<1>3. Magnitude(n) \in Nat
  BY DEF Magnitude
<1> HIDE DEF f
<1> DEFINE T == {k \in Nat : Remainder(n, b, k, f[k])}
<1>4. 0 \in T
  <2>1. Magnitude(n) \div 1 = Magnitude(n)
    BY <1>3
  <2> QED BY <1>1, <1>2, <2>1 DEF Remainder
<1>5. ASSUME NEW k \in Nat, k \in T PROVE k + 1 \in T
  <2> DEFINE m == f[k]
             q == f[k + 1]
             P == Power(b, k)
             M == Magnitude(n)
  <2>1. m \in Int /\ (n >= 0 => m >= 0) /\ (n <= 0 => m <= 0) /\ Magnitude(m) = M \div P
    BY <1>5 DEF Remainder
  <2>2. q = Quot(m, b)
    BY <1>1
  <2>3. P \in Nat \ {0} /\ Power(b, k + 1) = b * P /\ M \in Nat
    BY <1>2, <1>3
  <2>4. (M \div P) \div b = M \div (b * P)
    BY <2>3, DivisionTwice, Zenon
  <2> HIDE DEF m, q, P, M
  <2>5. /\ q \in Int /\ (m >= 0 => q >= 0) /\ (m <= 0 => q <= 0)
        /\ Magnitude(q) = Magnitude(m) \div b
    <3>1. CASE m >= 0
      <4>1. q \in Int /\ q >= 0 /\ q = m \div b
        BY <2>1, <2>2, <3>1, QuotIs
      <4>2. Magnitude(m) = m /\ Magnitude(q) = q
        BY <2>1, <3>1, <4>1 DEF Magnitude
      <4>3. m <= 0 => q <= 0
        BY <2>1, <2>2, QuotIs
      <4> QED BY <4>1, <4>2, <4>3
    <3>2. CASE m < 0
      <4>1. q \in Int /\ q <= 0 /\ q = - ((- m) \div b)
        BY <2>1, <2>2, <3>2, QuotIs
      <4>2. Magnitude(m) = - m /\ Magnitude(q) = - q
        BY <2>1, <3>2, <4>1 DEF Magnitude
      <4> QED BY <2>1, <3>2, <4>1, <4>2
    <3> QED BY <2>1, <3>1, <3>2
  <2>6. Magnitude(q) = M \div Power(b, k + 1)
    BY <2>1, <2>3, <2>4, <2>5, Zenon
  <2>7. (n >= 0 => q >= 0) /\ (n <= 0 => q <= 0)
    BY <2>1, <2>5
  <2>8. Remainder(n, b, k + 1, q)
    BY <2>5, <2>6, <2>7, Zenon DEF Remainder, M
  <2> QED BY <2>8 DEF q
<1>6. \A k \in Nat : k \in T
  <2> HIDE DEF T
  <2> QED BY <1>4, <1>5, Induction, Zenon
<1> QED BY <1>6 DEF f
LEMMA MagnitudeIs == \A m \in Int : Magnitude(m) \in Nat /\ (Magnitude(m) = 0 <=> m = 0)
BY DEF Magnitude

LEMMA SizesAre ==
    /\ Word \in Nat \ {0} /\ Word \div 2 \in Nat \ {0} /\ Word = 2 * (Word \div 2)
    /\ INT_DIGITS \in Nat \ {0} /\ Word \div 2 < Power(10, INT_DIGITS)
<1>1. /\ Word \in Nat \ {0} /\ Word % 2 = 0
      /\ INT_DIGITS \in Nat /\ Word \div 2 < Power(10, INT_DIGITS)
  BY SizeAssumption
<1>2. Word \div 2 \in Nat /\ Word = 2 * (Word \div 2)
  BY <1>1
<1>3. Word \div 2 # 0
  BY <1>1, <1>2
<1>4. INT_DIGITS # 0
  <2>1. Power(10, 0) = 1
    BY PowerIs
  <2>2. ~ (Word \div 2 < 1)
    BY <1>2, <1>3
  <2> QED BY <1>1, <2>1, <2>2
<1> QED BY <1>1, <1>2, <1>3, <1>4

(* The numbers printf and itoa are called with.                                 *)
Ints == - (Word \div 2) .. Word \div 2 - 1

LEMMA SignedIs ==
    ASSUME NEW w \in Words
    PROVE  /\ Signed(w) \in Ints
           /\ w < Word \div 2 => Signed(w) = w
           /\ w >= Word \div 2 => Signed(w) = w - Word /\ Signed(w) < 0
BY SizesAre DEF Signed, Ints, Words

(* No int has more digits than there is room for.                               *)
LEMMA RoomForInts ==
    ASSUME NEW n \in Ints
    PROVE  /\ n \in Int
           /\ Magnitude(n) < Power(10, INT_DIGITS)
           /\ Magnitude(n) < Power(16, INT_DIGITS)
<1>1. n \in Int /\ Magnitude(n) \in Nat /\ Magnitude(n) <= Word \div 2
  BY SizesAre DEF Ints, Magnitude
<1>2. Power(10, INT_DIGITS) \in Nat /\ Power(16, INT_DIGITS) \in Nat
  <2>1. INT_DIGITS \in Nat /\ 10 \in Nat /\ 16 \in Nat
    BY SizesAre
  <2> QED BY <2>1, PowerIs
<1>3. Power(10, INT_DIGITS) <= Power(16, INT_DIGITS)
  BY SizesAre, PowerMonotone
<1>4. Word \div 2 \in Nat /\ Word \div 2 < Power(10, INT_DIGITS)
  BY SizesAre
<1> DEFINE h == Word \div 2
<1> HIDE DEF h
<1> QED BY <1>1, <1>2, <1>3, <1>4

LEMMA DivisionLess ==
    ASSUME NEW a \in Nat, NEW b \in Nat \ {0}
    PROVE  a \div b = 0 <=> a < b
OBVIOUS

(* The least number of rounds is that of the digits.                            *)
LEMMA RoundsAre ==
    ASSUME NEW n \in Int, NEW b \in {10, 16}, NEW least \in {0, 1},
           Magnitude(n) < Power(b, INT_DIGITS)
    PROVE  LET R == Rounds(n, b, least)
           IN  /\ R \in least .. INT_DIGITS
               /\ Magnitude(n) < Power(b, R)
               /\ R > least => Magnitude(n) >= Power(b, R - 1)
<1> DEFINE f == Divided(n, b)
           R == Rounds(n, b, least)
           S == {k \in least .. INT_DIGITS : f[k] = 0}
<1>1. b \in Nat \ {0} /\ INT_DIGITS \in Nat \ {0}
  BY SizesAre
<1>2. \A k \in Nat : Power(b, k) \in Nat \ {0}
  BY <1>1, PowerPositive
<1>3. ASSUME NEW k \in Nat PROVE f[k] = 0 <=> Magnitude(n) < Power(b, k)
  <2>1. Remainder(n, b, k, f[k])
    BY <1>1, DividedIs
  <2>2. Magnitude(f[k]) = Magnitude(n) \div Power(b, k) /\ f[k] \in Int
    BY <2>1 DEF Remainder
  <2>3. Magnitude(n) \in Nat /\ Power(b, k) \in Nat \ {0}
    BY <1>2, MagnitudeIs
  <2>4. Magnitude(n) \div Power(b, k) = 0 <=> Magnitude(n) < Power(b, k)
    BY <2>3, DivisionLess, Zenon
  <2> QED BY <2>2, <2>4, MagnitudeIs
<1> HIDE DEF f
<1>4. S \subseteq Nat /\ S # {}
  <2>1. INT_DIGITS \in least .. INT_DIGITS
    BY <1>1
  <2>2. f[INT_DIGITS] = 0
    BY <1>1, <1>3
  <2> QED BY <2>1, <2>2
<1>5. PICK x \in S : \A y \in S : x <= y
  <2> HIDE DEF S
  <2> QED BY <1>4, LeastElement, Zenon
<1>6. R = CHOOSE z \in S : \A y \in S : z <= y
  BY Zenon DEF Rounds, Min, f
<1>7. R \in S /\ \A y \in S : R <= y
  <2> HIDE DEF S, R
  <2> QED BY <1>5, <1>6, Zenon
<1> HIDE DEF R
<1>8. R \in least .. INT_DIGITS /\ R \in Nat /\ Magnitude(n) < Power(b, R)
  BY <1>3, <1>7
<1>9. ASSUME R > least PROVE Magnitude(n) >= Power(b, R - 1)
  <2>1. R - 1 \in least .. INT_DIGITS /\ R - 1 \in Nat /\ ~ (R <= R - 1)
    BY <1>1, <1>8, <1>9
  <2>2. f[R - 1] # 0
    BY <1>7, <2>1
  <2>3. ~ (Magnitude(n) < Power(b, R - 1))
    BY <1>3, <2>1, <2>2
  <2>4. Magnitude(n) \in Nat /\ Power(b, R - 1) \in Nat
    BY <1>2, <2>1, MagnitudeIs
  <2> QED BY <2>3, <2>4
<1> QED BY <1>8, <1>9 DEF R
--------------------------------------------------------------------------------
(* What itoa and %x store *)

(* The digits are sixteen different characters, and no others in use.           *)
LEMMA HexIs ==
    /\ DOMAIN hex = 1 .. 16
    /\ \A k \in 1 .. 16 : /\ hex[k] \in ToSet(hex)
                          /\ hex[k] # "-" /\ hex[k] # NUL
    /\ ToSet(hex) \cup {"-"} \subseteq Chars
    /\ "-" # NUL /\ NUL \notin ToSet(hex)
<1>1. DOMAIN hex = 1 .. 16
  BY DEF hex
<1>2. ASSUME NEW k \in 1 .. 16
      PROVE  hex[k] # "-" /\ hex[k] # NUL
  BY DEF hex, NUL
<1>3. ASSUME NEW k \in 1 .. 16 PROVE hex[k] \in ToSet(hex)
  BY <1>1 DEF ToSet
<1>4. NUL \notin ToSet(hex)
  BY <1>1, <1>2 DEF ToSet
<1>5. ToSet(hex) \cup {"-"} \subseteq Chars
  BY SizeAssumption
<1>6. "-" # NUL
  BY DEF NUL
<1> QED BY <1>1, <1>2, <1>3, <1>4, <1>5, <1>6

LEMMA HexInjective ==
    ASSUME NEW k \in 1 .. 16, NEW m \in 1 .. 16, hex[k] = hex[m]
    PROVE  k = m
BY DEF hex

Digits == ToSet(hex)

(* The digit of weight b to the j.                                              *)
DigitOf(m, b, j) == (m \div Power(b, j)) % b

LEMMA DigitOfIs ==
    ASSUME NEW m \in Nat, NEW b \in Nat \ {0}, NEW j \in Nat
    PROVE  DigitOf(m, b, j) \in 0 .. b - 1
<1>1. Power(b, j) \in Nat \ {0}
  BY PowerPositive
<1>2. m \div Power(b, j) \in Nat
  BY <1>1, Division, Zenon
<1>3. (m \div Power(b, j)) % b \in 0 .. b - 1
  BY <1>2, Division, Zenon
<1> QED BY <1>3 DEF DigitOf

LEMMA DecimalDigitIs ==
    ASSUME NEW n \in Int, NEW k \in Nat
    PROVE  DecimalDigit(Divided(n, 10)[k]) = hex[1 + DigitOf(Magnitude(n), 10, k)]
<1> DEFINE m == Divided(n, 10)[k]
<1>1. m \in Int /\ Magnitude(m) = Magnitude(n) \div Power(10, k)
  <2>1. 10 \in Nat \ {0}
    OBVIOUS
  <2> QED BY <2>1, DividedIs DEF Remainder
<1> HIDE DEF m
<1>2. (IF m < 0 THEN - Rem(m, 10) ELSE Rem(m, 10)) = Magnitude(m) % 10
  <2>1. CASE m < 0
    <3>1. Rem(m, 10) = - ((- m) % 10) /\ Magnitude(m) = - m
      BY <1>1, <2>1, QuotIs DEF Magnitude
    <3>2. (- m) % 10 \in Nat
      BY <1>1, <2>1
    <3> QED BY <2>1, <3>1, <3>2
  <2>2. CASE m >= 0
    <3>1. Rem(m, 10) = m % 10
      <4>1. m \in Int /\ 10 \in Nat \ {0} /\ m >= 0
        BY <1>1, <2>2
      <4> QED BY <4>1, QuotIs, Zenon
    <3>2. Magnitude(m) = m
      BY <1>1, <2>2 DEF Magnitude
    <3> QED BY <1>1, <2>2, <3>1, <3>2
  <2> QED BY <1>1, <2>1, <2>2
<1>3. DecimalDigit(m) = hex[1 + (Magnitude(m) % 10)]
  BY <1>2, Zenon DEF DecimalDigit
<1> QED BY <1>1, <1>3, Zenon DEF m, DigitOf

(* The elements of a sequence made of two.                                      *)
LEMMA Joined ==
    ASSUME NEW S, NEW s \in Seq(S), NEW t \in Seq(S)
    PROVE  /\ s \o t \in Seq(S)
           /\ Len(s) \in Nat /\ Len(t) \in Nat
           /\ Len(s \o t) = Len(s) + Len(t)
           /\ \A k \in 1 .. Len(s) : (s \o t)[k] = s[k]
           /\ \A k \in 1 .. Len(t) : (s \o t)[Len(s) + k] = t[k]
<1>1. /\ s \o t \in Seq(S)
      /\ Len(s) \in Nat /\ Len(t) \in Nat
      /\ Len(s \o t) = Len(s) + Len(t)
  BY ConcatProperties, LenProperties
<1>2. \A k \in 1 .. Len(s \o t) : (s \o t)[k] = IF k <= Len(s) THEN s[k] ELSE t[k - Len(s)]
  BY ConcatProperties
<1>3. ASSUME NEW k \in 1 .. Len(s)
      PROVE  (s \o t)[k] = s[k]
  <2>1. k \in 1 .. Len(s \o t) /\ k <= Len(s)
    BY <1>1
  <2> QED BY <1>2, <2>1
<1>4. ASSUME NEW k \in 1 .. Len(t)
      PROVE  (s \o t)[Len(s) + k] = t[k]
  <2> DEFINE j == Len(s) + k
  <2>1. j \in 1 .. Len(s \o t) /\ ~ (j <= Len(s)) /\ j - Len(s) = k
    BY <1>1
  <2> HIDE DEF j
  <2>2. (s \o t)[j] = t[k]
    BY <1>2, <2>1
  <2> QED BY <2>2 DEF j
<1> QED BY <1>1, <1>3, <1>4

(* What itoa stores: the digits of the number's magnitude, the last one first,  *)
(* and no more than it takes, then the sign.                                    *)
ItoaText(n, s, len) ==
    /\ s \in Seq(Digits \cup {"-"})
    /\ len \in 1 .. INT_DIGITS
    /\ Len(s) = len + (IF n < 0 THEN 1 ELSE 0)
    /\ \A k \in 1 .. len : s[k] = hex[1 + DigitOf(Magnitude(n), 10, k - 1)]
    /\ n < 0 => s[len + 1] = "-"
    /\ Magnitude(n) < Power(10, len)
    /\ len > 1 => Magnitude(n) >= Power(10, len - 1)

LEMMA ItoaIs ==
    ASSUME NEW n \in Ints
    PROVE  ItoaText(n, itoa(n), Rounds(n, 10, 1))
<1> DEFINE R == Rounds(n, 10, 1)
           d == [k \in 1 .. R |-> DecimalDigit(Divided(n, 10)[k - 1])]
           sign == IF n < 0 THEN <<"-">> ELSE <<>>
<1>1. n \in Int /\ Magnitude(n) \in Nat
  BY RoomForInts, MagnitudeIs
<1>2. /\ R \in 1 .. INT_DIGITS
      /\ Magnitude(n) < Power(10, R)
      /\ R > 1 => Magnitude(n) >= Power(10, R - 1)
  <2>1. 10 \in {10, 16} /\ 1 \in {0, 1} /\ Magnitude(n) < Power(10, INT_DIGITS)
    BY RoomForInts
  <2> QED BY <1>1, <2>1, RoundsAre, Zenon
<1> HIDE DEF R
<1>3. R \in Nat
  BY <1>2, SizesAre
<1>4. ASSUME NEW k \in 1 .. R
      PROVE  /\ DecimalDigit(Divided(n, 10)[k - 1]) = hex[1 + DigitOf(Magnitude(n), 10, k - 1)]
             /\ DecimalDigit(Divided(n, 10)[k - 1]) \in Digits
  <2>1. k - 1 \in Nat /\ 10 \in Nat \ {0}
    BY <1>3
  <2>2. DecimalDigit(Divided(n, 10)[k - 1]) = hex[1 + DigitOf(Magnitude(n), 10, k - 1)]
    BY <1>1, <2>1, DecimalDigitIs
  <2>3. DigitOf(Magnitude(n), 10, k - 1) \in 0 .. 10 - 1
    BY <1>1, <2>1, DigitOfIs, Zenon
  <2>4. hex[1 + DigitOf(Magnitude(n), 10, k - 1)] \in Digits
    <3>1. 1 + DigitOf(Magnitude(n), 10, k - 1) \in 1 .. 16
      BY <2>3
    <3> QED BY <3>1, HexIs DEF Digits
  <2> QED BY <2>2, <2>4, Zenon
<1>5. d \in Seq(Digits \cup {"-"}) /\ Len(d) = R
  <2>1. \A k \in 1 .. R : DecimalDigit(Divided(n, 10)[k - 1]) \in Digits \cup {"-"}
    BY <1>4
  <2> QED BY <1>3, <2>1
<1>6. \A k \in 1 .. R : d[k] = hex[1 + DigitOf(Magnitude(n), 10, k - 1)]
  BY <1>4
<1>7. itoa(n) = d \o sign
  BY Zenon DEF itoa, R
<1>8. sign \in Seq(Digits \cup {"-"}) /\ Len(sign) = IF n < 0 THEN 1 ELSE 0
  <2>1. /\ <<"-">> \in Seq(Digits \cup {"-"}) /\ Len(<<"-">>) = 1
        /\ <<>> \in Seq(Digits \cup {"-"}) /\ Len(<<>>) = 0
    OBVIOUS
  <2>2. CASE n < 0
    BY <2>1, <2>2
  <2>3. CASE ~ (n < 0)
    BY <2>1, <2>3
  <2> QED BY <2>2, <2>3
<1> HIDE DEF d
<1>9. n < 0 => sign[1] = "-"
  OBVIOUS
<1> HIDE DEF sign
<1>10. /\ d \o sign \in Seq(Digits \cup {"-"})
       /\ Len(d \o sign) = R + (IF n < 0 THEN 1 ELSE 0)
       /\ \A k \in 1 .. R : (d \o sign)[k] = d[k]
       /\ n < 0 => (d \o sign)[R + 1] = sign[1]
  BY <1>3, <1>5, <1>8, Joined
<1>11. ItoaText(n, d \o sign, R)
  BY <1>2, <1>6, <1>9, <1>10 DEF ItoaText
<1> QED BY <1>7, <1>11, Zenon DEF R
--------------------------------------------------------------------------------
(* What a text denotes *)

LEMMA DigitValue ==
    ASSUME NEW b \in {10, 16}, NEW d \in 0 .. b - 1
    PROVE  (CHOOSE n \in 1 .. b : hex[n] = hex[1 + d]) - 1 = d
<1> DEFINE m == CHOOSE n \in 1 .. b : hex[n] = hex[1 + d]
<1>1. 1 + d \in 1 .. b /\ 1 + d \in 1 .. 16
  OBVIOUS
<1>2. m \in 1 .. b /\ hex[m] = hex[1 + d]
  BY <1>1, Zenon
<1> HIDE DEF m
<1>3. m \in 1 .. 16
  BY <1>2
<1>4. m = 1 + d
  BY <1>1, <1>2, <1>3, HexInjective
<1>5. m - 1 = d
  BY <1>4
<1> QED BY <1>5, Zenon DEF m

ValueRule(t, b, f) ==
    f = [k \in 0 .. Len(t) |->
            IF k = 0 THEN 0
            ELSE b * f[k - 1] + ((CHOOSE n \in 1 .. b : hex[n] = t[k]) - 1)]

ValueSteps(t, b, f) ==
    /\ f[0] = 0
    /\ \A k \in 1 .. Len(t) :
          f[k] = b * f[k - 1] + ((CHOOSE n \in 1 .. b : hex[n] = t[k]) - 1)

LEMMA ValueRuleIs ==
    ASSUME NEW t, NEW b, NEW f, Len(t) \in Nat, ValueRule(t, b, f)
    PROVE  ValueSteps(t, b, f)
<1> DEFINE v(k) == IF k = 0 THEN 0
                   ELSE b * f[k - 1] + ((CHOOSE n \in 1 .. b : hex[n] = t[k]) - 1)
           len == Len(t)
<1>1. \A k \in 0 .. len : f[k] = v(k)
  <2>1. f = [k \in 0 .. len |-> v(k)]
    BY Zenon DEF ValueRule
  <2> HIDE DEF v
  <2> QED BY <2>1
<1>2. len \in Nat
  OBVIOUS
<1>3. f[0] = 0
  <2>1. 0 \in 0 .. len
    BY <1>2
  <2> QED BY <1>1, <2>1, Zenon
<1>4. ASSUME NEW k \in 1 .. len
      PROVE  f[k] = b * f[k - 1] + ((CHOOSE n \in 1 .. b : hex[n] = t[k]) - 1)
  <2>1. k \in 0 .. len /\ k # 0
    BY <1>2
  <2> QED BY <1>1, <2>1, Zenon
<1> QED BY <1>3, <1>4, Zenon DEF ValueSteps

(* A text denotes what its digits come to, the first one weighing most.         *)
LEMMA ValueIs ==
    ASSUME NEW b \in {10, 16}, NEW t, Len(t) \in Nat, NEW V \in [0 .. Len(t) -> Int],
           V[0] = 0,
           \A k \in 1 .. Len(t) :
              \E d \in 0 .. b - 1 : t[k] = hex[1 + d] /\ V[k] = b * V[k - 1] + d
    PROVE  Value(t, b) = V[Len(t)]
<1> DEFINE len == Len(t)
<1>1. ASSUME NEW k \in 1 .. len
      PROVE  V[k] = b * V[k - 1] + ((CHOOSE n \in 1 .. b : hex[n] = t[k]) - 1)
  <2>1. PICK d \in 0 .. b - 1 : t[k] = hex[1 + d] /\ V[k] = b * V[k - 1] + d
    OBVIOUS
  <2>2. (CHOOSE n \in 1 .. b : hex[n] = hex[1 + d]) - 1 = d
    BY DigitValue
  <2> QED BY <2>1, <2>2, Zenon
<1>2. ValueRule(t, b, V)
  <2> DEFINE v(k) == IF k = 0 THEN 0
                     ELSE b * V[k - 1] + ((CHOOSE n \in 1 .. b : hex[n] = t[k]) - 1)
  <2>1. ASSUME NEW k \in 0 .. len PROVE V[k] = v(k)
    <3>1. k # 0 => k \in 1 .. len
      OBVIOUS
    <3> QED BY <1>1, <3>1, Zenon
  <2>2. V = [k \in 0 .. len |-> v(k)]
    <3>1. V = [k \in 0 .. len |-> V[k]]
      OBVIOUS
    <3> HIDE DEF v
    <3>2. [k \in 0 .. len |-> V[k]] = [k \in 0 .. len |-> v(k)]
      BY <2>1
    <3> QED BY <3>1, <3>2, Zenon
  <2> QED BY <2>2, Zenon DEF ValueRule
<1> DEFINE f == CHOOSE g : ValueRule(t, b, g)
<1>3. ValueRule(t, b, f)
  BY <1>2, Zenon
<1>4. Value(t, b) = f[len]
  BY Zenon DEF Value, ValueRule
<1> HIDE DEF f
<1>5. /\ f[0] = 0
      /\ \A k \in 1 .. len :
            f[k] = b * f[k - 1] + ((CHOOSE n \in 1 .. b : hex[n] = t[k]) - 1)
  <2>1. ValueSteps(t, b, f)
    BY <1>3, ValueRuleIs, Zenon
  <2> QED BY <2>1, Zenon DEF ValueSteps
<1> HIDE DEF len
<1> DEFINE T == {k \in Nat : k <= len => f[k] = V[k]}
<1>6. 0 \in T
  BY <1>5
<1>7. ASSUME NEW k \in Nat, k \in T PROVE k + 1 \in T
  <2>1. SUFFICES ASSUME k + 1 <= len PROVE f[k + 1] = V[k + 1]
    OBVIOUS
  <2>2. k + 1 \in 1 .. len /\ (k + 1) - 1 = k /\ f[k] = V[k]
    BY <1>7, <2>1 DEF len
  <2>3. f[k + 1] = b * f[(k + 1) - 1] + ((CHOOSE n \in 1 .. b : hex[n] = t[k + 1]) - 1)
    BY <1>5, <2>2, Zenon
  <2>4. V[k + 1] = b * V[(k + 1) - 1] + ((CHOOSE n \in 1 .. b : hex[n] = t[k + 1]) - 1)
    BY <1>1, <2>2, Zenon
  <2> QED BY <2>2, <2>3, <2>4, Zenon
<1>8. \A k \in Nat : k \in T
  <2> HIDE DEF T
  <2> QED BY <1>6, <1>7, Induction, Zenon
<1>9. f[len] = V[len]
  BY <1>8 DEF len
<1> QED BY <1>4, <1>9, Zenon DEF len
(* One digit more.                                                              *)
LEMMA OneDigitMore ==
    ASSUME NEW m \in Nat, NEW b \in Nat \ {0}, NEW j \in Nat
    PROVE  m \div Power(b, j) = b * (m \div Power(b, j + 1)) + DigitOf(m, b, j)
<1> DEFINE q == m \div Power(b, j)
<1>1. Power(b, j) \in Nat \ {0} /\ Power(b, j + 1) = b * Power(b, j)
  BY PowerPositive, PowerIs
<1>2. q \in Nat
  BY <1>1, Division, Zenon
<1>3. q \div b = m \div (b * Power(b, j))
  BY <1>1, DivisionTwice, Zenon
<1>4. q = b * (q \div b) + (q % b)
  <2> HIDE DEF q
  <2> QED BY <1>2, Division, Zenon
<1>5. DigitOf(m, b, j) = q % b
  BY DEF DigitOf
<1> QED BY <1>1, <1>3, <1>4, <1>5, Zenon

LEMMA MaxWithZero ==
    ASSUME NEW x \in Int
    PROVE  Max({0, x}) = IF x > 0 THEN x ELSE 0
<1> DEFINE S == {0, x}
           top == IF x > 0 THEN x ELSE 0
<1>1. top \in S /\ \A y \in S : top >= y
  OBVIOUS
<1>2. \A z \in S : (\A y \in S : z >= y) => z = top
  OBVIOUS
<1>3. Max(S) = CHOOSE z \in S : \A y \in S : z >= y
  BY Zenon DEF Max
<1> HIDE DEF S, top
<1>4. Max(S) = top
  BY <1>1, <1>2, <1>3, Zenon
<1> QED BY <1>4 DEF S, top

(* What DecimalRight says of a text.                                            *)
DenotesDecimal(value, text, damaged) ==
    LET sign == IF value < 0 THEN 1 ELSE 0
        len  == Len(text) - sign
        kept == Max({0, len - damaged})
    IN  /\ Magnitude(value) < Power(10, len)
        /\ len > 1 => Magnitude(value) >= Power(10, len - 1)
        /\ sign = 1 /\ damaged <= len => text[1] = "-"
        /\ Value(SubSeq(text, sign + 1, sign + kept), 10)
             = Magnitude(value) \div Power(10, len - kept)

(* What itoa stored, read from p on, denotes the number, as far as it is there. *)
LEMMA ItoaDenotes ==
    ASSUME NEW n \in Ints, NEW s, NEW len, ItoaText(n, s, len),
           NEW S, NEW text \in Seq(S), Len(text) = Len(s), NEW damaged \in Nat,
           \A q \in 1 .. Len(s) : Len(s) + 1 - q > damaged => text[q] = s[Len(s) + 1 - q]
    PROVE  DenotesDecimal(n, text, damaged)
<1> DEFINE sign == IF n < 0 THEN 1 ELSE 0
           kept == Max({0, len - damaged})
           M == Magnitude(n)
           L == Len(s)
           t == SubSeq(text, sign + 1, sign + kept)
<1>1. /\ len \in Nat /\ len >= 1 /\ L = len + sign /\ sign \in {0, 1} /\ L \in Nat
      /\ (sign = 1 <=> n < 0)
  BY SizesAre DEF ItoaText
<1>2. /\ \A k \in 1 .. len : s[k] = hex[1 + DigitOf(M, 10, k - 1)]
      /\ n < 0 => s[len + 1] = "-"
      /\ M < Power(10, len)
      /\ len > 1 => M >= Power(10, len - 1)
  BY DEF ItoaText
<1>3. M \in Nat
  BY RoomForInts, MagnitudeIs
<1>4. kept \in 0 .. len /\ (kept > 0 => kept = len - damaged)
  <2>1. kept = IF len - damaged > 0 THEN len - damaged ELSE 0
    BY <1>1, MaxWithZero
  <2> HIDE DEF kept
  <2> QED BY <1>1, <2>1
<1>5. ASSUME NEW q \in 1 .. L, L + 1 - q > damaged PROVE text[q] = s[L + 1 - q]
  BY <1>5
<1> HIDE DEF kept, sign, M, L
<1>6. Len(text) = L
  BY DEF L
<1>7. Len(t) = kept /\ \A k \in 1 .. kept : t[k] = text[sign + k]
  <2>1. sign + 1 \in 1 .. Len(text) + 1 /\ sign + kept \in sign .. Len(text)
    BY <1>1, <1>4, <1>6
  <2> QED BY <1>1, <1>4, <2>1, <1>6
<1> HIDE DEF t
<1>8. \A j \in Nat : Power(10, j) \in Nat \ {0}
  BY PowerPositive
<1> DEFINE V == [k \in 0 .. kept |-> M \div Power(10, len - k)]
<1>9. V \in [0 .. kept -> Int]
  <2>1. ASSUME NEW k \in 0 .. kept PROVE M \div Power(10, len - k) \in Int
    <3>1. len - k \in Nat
      BY <1>1, <1>4
    <3>2. Power(10, len - k) \in Nat \ {0}
      BY <1>8, <3>1
    <3>3. M \div Power(10, len - k) \in Nat
      BY <1>3, <3>2, Division, Zenon
    <3> QED BY <3>3
  <2> QED BY <2>1
<1>10. V[0] = 0
  <2>1. V[0] = M \div Power(10, len) /\ Power(10, len) \in Nat \ {0}
    BY <1>1, <1>4, <1>8
  <2> QED BY <1>2, <1>3, <2>1, DivisionLess
<1>11. ASSUME NEW k \in 1 .. kept
       PROVE  \E d \in 0 .. 10 - 1 : t[k] = hex[1 + d] /\ V[k] = 10 * V[k - 1] + d
  <2> DEFINE j == len - k
             d == DigitOf(M, 10, j)
  <2>1. j \in Nat /\ j + 1 = len - (k - 1) /\ k \in 0 .. kept /\ k - 1 \in 0 .. kept
    BY <1>1, <1>4
  <2>2. V[k] = M \div Power(10, j) /\ V[k - 1] = M \div Power(10, j + 1)
    BY <2>1
  <2> HIDE DEF V, d
  <2>3. M \div Power(10, j) = 10 * (M \div Power(10, j + 1)) + d
    <3>1. 10 \in Nat \ {0}
      OBVIOUS
    <3> QED BY <1>3, <2>1, <3>1, OneDigitMore, Zenon DEF d
  <2>4. d \in 0 .. 10 - 1
    <3>1. 10 \in Nat \ {0}
      OBVIOUS
    <3> QED BY <1>3, <2>1, <3>1, DigitOfIs, Zenon DEF d
  <2>5. t[k] = hex[1 + d]
    <3>1. sign + k \in 1 .. L /\ L + 1 - (sign + k) = j + 1 /\ j + 1 > damaged
          /\ j + 1 \in 1 .. len /\ (j + 1) - 1 = j
      BY <1>1, <1>4
    <3>2. t[k] = text[sign + k]
      BY <1>7
    <3>3. text[sign + k] = s[j + 1]
      BY <1>5, <3>1
    <3>4. s[j + 1] = hex[1 + DigitOf(M, 10, (j + 1) - 1)]
      BY <1>2, <3>1, Zenon
    <3> QED BY <3>1, <3>2, <3>3, <3>4, Zenon DEF d
  <2> QED BY <2>2, <2>3, <2>4, <2>5, Zenon
<1>12. Value(t, 10) = V[kept]
  <2>1. Len(t) \in Nat /\ 10 \in {10, 16}
    BY <1>4, <1>7
  <2> HIDE DEF V
  <2> QED BY <1>7, <1>9, <1>10, <1>11, <2>1, ValueIs, Zenon
<1>13. V[kept] = M \div Power(10, len - kept)
  BY <1>4
<1>14. sign = 1 /\ damaged <= len => text[1] = "-"
  <2>1. SUFFICES ASSUME sign = 1, damaged <= len PROVE text[1] = "-"
    OBVIOUS
  <2>2. 1 \in 1 .. L /\ L + 1 - 1 = len + 1 /\ L + 1 - 1 > damaged
    BY <1>1, <2>1
  <2> QED BY <1>1, <1>2, <1>5, <2>1, <2>2
<1>15. Len(text) - sign = len
  BY <1>1, <1>6
<1> QED
  BY <1>2, <1>12, <1>13, <1>14, <1>15, Zenon DEF DenotesDecimal, sign, kept, M, t
--------------------------------------------------------------------------------
(* Turning a text round *)

Exchange(s, p1) == [s EXCEPT ![p1] = s[Len(s) + 1 - p1], ![Len(s) + 1 - p1] = s[p1]]

StrrevRule(str, f) ==
    f = [p1 \in 0 .. Len(str) \div 2 |-> IF p1 = 0 THEN str ELSE Exchange(f[p1 - 1], p1)]

(* The text when so many pairs have been exchanged.                             *)
Turned(str, m) ==
    [k \in 1 .. Len(str) |->
        IF k <= m \/ k > Len(str) - m THEN str[Len(str) + 1 - k] ELSE str[k]]

LEMMA ExchangeIs ==
    ASSUME NEW S, NEW str \in Seq(S), NEW m \in Nat, m + 1 <= Len(str) \div 2
    PROVE  Exchange(Turned(str, m), m + 1) = Turned(str, m + 1)
<1> DEFINE len == Len(str)
           t == Turned(str, m)
           u == Turned(str, m + 1)
           a == m + 1
           z == len + 1 - a
<1>1. len \in Nat
  OBVIOUS
<1>2. t = [k \in 1 .. len |-> IF k <= m \/ k > len - m THEN str[len + 1 - k] ELSE str[k]]
  BY DEF Turned
<1>3. u = [k \in 1 .. len |-> IF k <= a \/ k > len - a THEN str[len + 1 - k] ELSE str[k]]
  BY DEF Turned
<1>4. Len(t) = len /\ DOMAIN t = 1 .. len
  <2>1. t \in Seq(S)
    <3>1. \A k \in 1 .. len : str[k] \in S /\ len + 1 - k \in 1 .. len
      BY <1>1
    <3>2. \A k \in 1 .. len : (IF k <= m \/ k > len - m THEN str[len + 1 - k] ELSE str[k]) \in S
      BY <3>1
    <3> HIDE DEF len, t
    <3> QED BY <1>1, <1>2, <3>2
  <2> HIDE DEF len, t
  <2> QED BY <1>1, <1>2, <2>1
<1> HIDE DEF t, u
<1>5. len >= 2 * (m + 1)
  BY <1>1
<1> HIDE DEF len
<1>6. a \in 1 .. len /\ z \in 1 .. len /\ a < z
  BY <1>1, <1>5
<1>7. Exchange(t, a) = [t EXCEPT ![a] = t[z], ![z] = t[a]]
  BY <1>4, Zenon DEF Exchange
<1>8. t[z] = str[z] /\ t[a] = str[a]
  BY <1>1, <1>2, <1>5, <1>6
<1> DEFINE e == [t EXCEPT ![a] = t[z], ![z] = t[a]]
<1>9. DOMAIN e = 1 .. len
  BY <1>4
<1>10. DOMAIN u = 1 .. len
  BY <1>3
<1>11. ASSUME NEW k \in 1 .. len PROVE e[k] = u[k]
  <2>1. CASE k = a
    <3>1. e[k] = str[z]
      BY <1>4, <1>6, <1>8, <2>1
    <3>2. u[k] = str[len + 1 - a]
      BY <1>1, <1>3, <1>6, <2>1
    <3> QED BY <3>1, <3>2
  <2>2. CASE k = z
    <3>1. e[k] = str[a]
      BY <1>4, <1>6, <1>8, <2>2
    <3>2. u[k] = str[len + 1 - z] /\ len + 1 - z = a
      BY <1>1, <1>3, <1>6, <2>2
    <3> QED BY <3>1, <3>2
  <2>3. CASE k # a /\ k # z
    <3>1. e[k] = t[k]
      BY <1>4, <1>6, <2>3
    <3>2. (k <= m \/ k > len - m) <=> (k <= a \/ k > len - a)
      BY <1>1, <2>3
    <3>3. u[k] = t[k]
      BY <1>2, <1>3, <3>2, Zenon
    <3> QED BY <3>1, <3>3
  <2> QED BY <2>1, <2>2, <2>3
<1>12. t = [k \in 1 .. len |-> t[k]] /\ u = [k \in 1 .. len |-> u[k]]
  BY <1>2, <1>3
<1>13. e = u
  <2>1. e = [k \in 1 .. len |-> e[k]]
    BY <1>4, <1>12
  <2> HIDE DEF e
  <2> QED BY <1>11, <1>12, <2>1
<1> QED BY <1>7, <1>13, Zenon DEF t, u
LEMMA StrrevRuleIs ==
    ASSUME NEW str, NEW f, Len(str) \div 2 \in Nat
    PROVE  StrrevRule(str, f) <=>
              /\ f = [m \in 0 .. Len(str) \div 2 |-> f[m]]
              /\ f[0] = str
              /\ \A m \in 1 .. Len(str) \div 2 : f[m] = Exchange(f[m - 1], m)
<1> DEFINE h == Len(str) \div 2
           v(m) == IF m = 0 THEN str ELSE Exchange(f[m - 1], m)
<1>1. ASSUME StrrevRule(str, f)
      PROVE  /\ f = [m \in 0 .. h |-> f[m]]
             /\ f[0] = str
             /\ \A m \in 1 .. h : f[m] = Exchange(f[m - 1], m)
  <2>1. f = [m \in 0 .. h |-> v(m)]
    BY <1>1, Zenon DEF StrrevRule
  <2>2. (\A m \in 0 .. h : f[m] = v(m)) /\ f = [m \in 0 .. h |-> f[m]]
    <3> HIDE DEF v, h
    <3> QED BY <2>1
  <2>3. f[0] = str
    <3>1. 0 \in 0 .. h
      OBVIOUS
    <3> QED BY <2>2, <3>1, Zenon
  <2>4. ASSUME NEW m \in 1 .. h PROVE f[m] = Exchange(f[m - 1], m)
    <3>1. m \in 0 .. h /\ m # 0
      OBVIOUS
    <3> QED BY <2>2, <3>1, Zenon
  <2> QED BY <2>2, <2>3, <2>4
<1>2. ASSUME f = [m \in 0 .. h |-> f[m]], f[0] = str,
             \A m \in 1 .. h : f[m] = Exchange(f[m - 1], m)
      PROVE  StrrevRule(str, f)
  <2>1. ASSUME NEW m \in 0 .. h PROVE f[m] = v(m)
    <3>1. m # 0 => m \in 1 .. h
      OBVIOUS
    <3> QED BY <1>2, <3>1, Zenon
  <2>2. [m \in 0 .. h |-> f[m]] = [m \in 0 .. h |-> v(m)]
    <3> HIDE DEF v, h
    <3> QED BY <2>1
  <2> QED BY <1>2, <2>2, Zenon DEF StrrevRule
<1> QED BY <1>1, <1>2

LEMMA StrrevIs ==
    ASSUME NEW S, NEW str \in Seq(S)
    PROVE  /\ strrev(str) \in Seq(S)
           /\ Len(strrev(str)) = Len(str)
           /\ \A k \in 1 .. Len(str) : strrev(str)[k] = str[Len(str) + 1 - k]
<1> DEFINE len == Len(str)
           h == Len(str) \div 2
           r == [m \in 0 .. h |-> Turned(str, m)]
<1>1. len \in Nat /\ h \in Nat /\ (2 * h = len \/ 2 * h + 1 = len)
  OBVIOUS
<1>2. Turned(str, 0) = str
  <2>1. str = [k \in 1 .. len |-> str[k]]
    OBVIOUS
  <2>2. \A k \in 1 .. len : ~ (k <= 0 \/ k > len - 0)
    BY <1>1
  <2>3. [k \in 1 .. len |-> IF k <= 0 \/ k > len - 0 THEN str[len + 1 - k] ELSE str[k]]
          = [k \in 1 .. len |-> str[k]]
    <3> HIDE DEF len
    <3> QED BY <2>2
  <2> QED BY <2>1, <2>3, Zenon DEF Turned
<1>3. ASSUME NEW m \in 1 .. h PROVE Turned(str, m) = Exchange(Turned(str, m - 1), m)
  <2>1. m - 1 \in Nat /\ (m - 1) + 1 = m /\ (m - 1) + 1 <= Len(str) \div 2
    BY <1>1
  <2>2. Exchange(Turned(str, m - 1), (m - 1) + 1) = Turned(str, (m - 1) + 1)
    BY <2>1, ExchangeIs
  <2> QED BY <2>1, <2>2, Zenon
<1>4. StrrevRule(str, r)
  <2>1. r = [m \in 0 .. h |-> r[m]]
    OBVIOUS
  <2>2. r[0] = str
    <3>1. 0 \in 0 .. h
      BY <1>1
    <3> HIDE DEF h
    <3> QED BY <1>2, <3>1
  <2>3. ASSUME NEW m \in 1 .. h PROVE r[m] = Exchange(r[m - 1], m)
    <3>1. m \in 0 .. h /\ m - 1 \in 0 .. h
      BY <1>1
    <3>2. r[m] = Turned(str, m) /\ r[m - 1] = Turned(str, m - 1)
      <4> HIDE DEF h
      <4> QED BY <3>1
    <3> QED BY <1>3, <3>2, Zenon
  <2> HIDE DEF r
  <2> QED BY <1>1, <2>1, <2>2, <2>3, StrrevRuleIs, Zenon DEF h
<1> DEFINE f == CHOOSE g : StrrevRule(str, g)
<1>5. StrrevRule(str, f)
  BY <1>4, Zenon
<1>6. strrev(str) = f[h]
  BY Zenon DEF strrev, StrrevRule, Exchange
<1> HIDE DEF f, r
<1>7. f[0] = str /\ \A m \in 1 .. h : f[m] = Exchange(f[m - 1], m)
  BY <1>1, <1>5, StrrevRuleIs, Zenon DEF h
<1> HIDE DEF h
<1> DEFINE T == {m \in Nat : m <= h => f[m] = Turned(str, m)}
<1>8. 0 \in T
  BY <1>2, <1>7
<1>9. ASSUME NEW m \in Nat, m \in T PROVE m + 1 \in T
  <2>1. SUFFICES ASSUME m + 1 <= h PROVE f[m + 1] = Turned(str, m + 1)
    OBVIOUS
  <2>2. m + 1 \in 1 .. h /\ (m + 1) - 1 = m /\ f[m] = Turned(str, m)
    BY <1>1, <1>9, <2>1
  <2> QED BY <1>3, <1>7, <2>2, Zenon
<1>10. \A m \in Nat : m \in T
  <2> HIDE DEF T
  <2> QED BY <1>8, <1>9, Induction, Zenon
<1>11. strrev(str) = Turned(str, h)
  BY <1>1, <1>6, <1>10
<1>12. ASSUME NEW k \in 1 .. len PROVE Turned(str, h)[k] = str[len + 1 - k]
  <2>1. Turned(str, h)[k] = IF k <= h \/ k > len - h THEN str[len + 1 - k] ELSE str[k]
    BY DEF Turned
  <2>2. k <= h \/ k > len - h \/ len + 1 - k = k
    <3> HIDE DEF len
    <3> QED BY <1>1
  <2> QED BY <2>1, <2>2, Zenon
<1>13. ASSUME NEW k \in 1 .. len PROVE str[len + 1 - k] \in S
  OBVIOUS
<1>14. Turned(str, h) = [k \in 1 .. len |-> str[len + 1 - k]]
  <2>1. Turned(str, h) = [k \in 1 .. len |-> Turned(str, h)[k]]
    BY DEF Turned
  <2> QED BY <1>12, <2>1
<1> HIDE DEF len
<1>15. Turned(str, h) \in Seq(S) /\ Len(Turned(str, h)) = len
  BY <1>1, <1>13, <1>14
<1> QED BY <1>11, <1>12, <1>15, Zenon DEF len
--------------------------------------------------------------------------------
(* What %x prints *)

LEMMA RemIs ==
    ASSUME NEW n \in Int, NEW k \in Nat
    PROVE  LET r == Rem(Divided(n, 16)[k], 16) d == DigitOf(Magnitude(n), 16, k)
           IN  (n >= 0 => r = d) /\ (n <= 0 => r = - d)
<1> DEFINE m == Divided(n, 16)[k]
<1>1. /\ m \in Int /\ (n >= 0 => m >= 0) /\ (n <= 0 => m <= 0)
      /\ Magnitude(m) = Magnitude(n) \div Power(16, k)
  <2>1. 16 \in Nat \ {0}
    OBVIOUS
  <2> QED BY <2>1, DividedIs DEF Remainder
<1> HIDE DEF m
<1>2. (m >= 0 => Rem(m, 16) = m % 16) /\ (m <= 0 => Rem(m, 16) = - ((- m) % 16))
  <2>1. 16 \in Nat \ {0}
    OBVIOUS
  <2> QED BY <1>1, <2>1, QuotIs, Zenon
<1>3. (m >= 0 => Magnitude(m) = m) /\ (m <= 0 => Magnitude(m) = - m)
  BY <1>1 DEF Magnitude
<1>4. DigitOf(Magnitude(n), 16, k) = Magnitude(m) % 16
  BY <1>1, Zenon DEF DigitOf
<1> DEFINE r == Rem(m, 16)
           d == DigitOf(Magnitude(n), 16, k)
<1>5. n >= 0 => r = d
  <2>1. SUFFICES ASSUME n >= 0 PROVE r = d
    OBVIOUS
  <2> QED BY <1>1, <1>2, <1>3, <1>4, <2>1, Zenon
<1>6. n <= 0 => r = - d
  <2>1. SUFFICES ASSUME n <= 0 PROVE r = - d
    OBVIOUS
  <2> QED BY <1>1, <1>2, <1>3, <1>4, <2>1, Zenon
<1> QED BY <1>5, <1>6, Zenon DEF m

(* The first digit of a number is not zero.                                     *)
LEMMA FirstDigit ==
    ASSUME NEW m \in Nat, NEW j \in Nat, Power(16, j) <= m, m < Power(16, j + 1)
    PROVE  DigitOf(m, 16, j) # 0
<1>1. Power(16, j) \in Nat \ {0} /\ Power(16, j + 1) \in Nat \ {0} /\ 16 \in Nat \ {0}
  <2>1. 16 \in Nat \ {0} /\ j + 1 \in Nat
    OBVIOUS
  <2> QED BY <2>1, PowerPositive, Zenon
<1>2. m \div Power(16, j) # 0 /\ m \div Power(16, j + 1) = 0
  <2>1. ~ (m < Power(16, j))
    BY <1>1
  <2> QED BY <1>1, <2>1, DivisionLess, Zenon
<1>3. m \div Power(16, j) = 16 * (m \div Power(16, j + 1)) + DigitOf(m, 16, j)
  BY <1>1, OneDigitMore, Zenon
<1>4. 16 * 0 + 0 = 0
  OBVIOUS
<1> QED BY <1>2, <1>3, <1>4, Zenon

(* What %x stores for x: the digits of its magnitude, and for a negative number *)
(* those of what is missing to 0, each one from F down.                         *)
HexText(x, s, m, len) ==
    /\ s \in Seq(Digits) /\ Len(s) = len /\ len \in Nat
    /\ \A k \in 1 .. len :
        s[k] = hex[IF x < 0 THEN 16 - DigitOf(m, 16, k - 1) ELSE 1 + DigitOf(m, 16, k - 1)]
    /\ m < Power(16, len)
    /\ len > 0 => m >= Power(16, len - 1)

LEMMA HexDigitsAre ==
    ASSUME NEW x \in Ints, x # 0
    PROVE  LET start == IF x < 0 THEN NegativeFrom(x) ELSE x
           IN  HexText(x, hexDigits(x), Magnitude(start), Rounds(start, 16, 0))
<1> DEFINE start == IF x < 0 THEN NegativeFrom(x) ELSE x
           R == Rounds(start, 16, 0)
           M == Magnitude(start)
           digit(n) == hex[(IF x < 0 THEN 16 ELSE 1) + Rem(n, 16)]
           s == [k \in 1 .. R |-> digit(Divided(start, 16)[k - 1])]
<1>1. start \in Ints /\ (x < 0 => start <= 0) /\ (~ (x < 0) => start >= 0)
  <2>1. x < 0 => x + 1 \in Ints /\ x + 1 <= 0
    BY SizesAre DEF Ints
  <2>2. ~ (x < 0) => x >= 0
    BY RoomForInts
  <2> QED BY <2>1, <2>2, Zenon DEF NegativeFrom
<1> HIDE DEF start
<1>2. start \in Int /\ M \in Nat
  BY <1>1, RoomForInts, MagnitudeIs
<1>3. R \in 0 .. INT_DIGITS /\ M < Power(16, R) /\ (R > 0 => M >= Power(16, R - 1))
  <2>1. 16 \in {10, 16} /\ 0 \in {0, 1} /\ M < Power(16, INT_DIGITS)
    BY <1>1, RoomForInts
  <2> QED BY <1>2, <2>1, RoundsAre, Zenon
<1>4. R \in Nat
  BY <1>3, SizesAre
<1>5. hexDigits(x) = s
  BY Zenon DEF hexDigits, start, R
<1> HIDE DEF R, M
<1>6. ASSUME NEW k \in 1 .. R
      PROVE  /\ digit(Divided(start, 16)[k - 1])
                  = hex[IF x < 0 THEN 16 - DigitOf(M, 16, k - 1) ELSE 1 + DigitOf(M, 16, k - 1)]
             /\ digit(Divided(start, 16)[k - 1]) \in Digits
  <2> DEFINE r == Rem(Divided(start, 16)[k - 1], 16)
             d == DigitOf(M, 16, k - 1)
  <2>1. k - 1 \in Nat /\ 16 \in Nat \ {0}
    BY <1>4
  <2>2. (start >= 0 => r = d) /\ (start <= 0 => r = - d)
    BY <1>2, <2>1, RemIs DEF M
  <2>3. d \in 0 .. 16 - 1
    BY <1>2, <2>1, DigitOfIs, Zenon
  <2> HIDE DEF r, d
  <2>4. (IF x < 0 THEN 16 ELSE 1) + r = IF x < 0 THEN 16 - d ELSE 1 + d
    BY <1>1, <2>2, <2>3
  <2>5. (IF x < 0 THEN 16 - d ELSE 1 + d) \in 1 .. 16
    BY <2>3
  <2>6. hex[IF x < 0 THEN 16 - d ELSE 1 + d] \in Digits
    BY <2>5, HexIs, Zenon DEF Digits
  <2> QED BY <2>4, <2>6, Zenon DEF r, d
<1> HIDE DEF digit
<1>7. s \in Seq(Digits) /\ Len(s) = R
  BY <1>4, <1>6
<1>8. \A k \in 1 .. R :
        s[k] = hex[IF x < 0 THEN 16 - DigitOf(M, 16, k - 1) ELSE 1 + DigitOf(M, 16, k - 1)]
  BY <1>6
<1> HIDE DEF s
<1>9. HexText(x, s, M, R)
  BY <1>3, <1>4, <1>7, <1>8 DEF HexText
<1> QED BY <1>5, <1>9, Zenon DEF start, M, R

TurnedRound(s, len, text) ==
    Len(text) = len /\ \A q \in 1 .. len : text[q] = s[len + 1 - q]

(* What is read from the front denotes the magnitude, or what is missing to the *)
(* power that has one digit more.                                               *)
HexNumber(x, m, len, text) ==
    /\ Value(text, 16) = IF x < 0 THEN Power(16, len) - 1 - m ELSE m
    /\ len > 0 => text[1] # hex[IF x < 0 THEN 16 ELSE 1]

LEMMA HexValue ==
    ASSUME NEW x \in Int, NEW s, NEW m \in Nat, NEW len, HexText(x, s, m, len),
           NEW text, TurnedRound(s, len, text)
    PROVE  HexNumber(x, m, len, text)
<1>1. len \in Nat /\ m < Power(16, len) /\ (len > 0 => m >= Power(16, len - 1))
  BY DEF HexText
<1>2. \A k \in 1 .. len :
        s[k] = hex[IF x < 0 THEN 16 - DigitOf(m, 16, k - 1) ELSE 1 + DigitOf(m, 16, k - 1)]
  BY DEF HexText
<1>3. \A j \in Nat : Power(16, j) \in Nat \ {0} /\ Power(16, j + 1) = 16 * Power(16, j)
  <2>1. 16 \in Nat \ {0} /\ 16 \in Nat
    OBVIOUS
  <2> QED BY <2>1, PowerPositive, PowerIs, Zenon
<1>4. Power(16, 0) = 1
  BY PowerIs
<1> DEFINE D(j) == DigitOf(m, 16, j)
           Q(j) == m \div Power(16, j)
<1>5. ASSUME NEW j \in Nat
      PROVE  D(j) \in 0 .. 15 /\ Q(j) \in Nat /\ Q(j) = 16 * Q(j + 1) + D(j)
  <2>1. 16 \in Nat \ {0} /\ 16 - 1 = 15
    OBVIOUS
  <2>2. DigitOf(m, 16, j) \in 0 .. 16 - 1
    BY <2>1, DigitOfIs, Zenon
  <2>3. m \div Power(16, j) = 16 * (m \div Power(16, j + 1)) + DigitOf(m, 16, j)
    BY <2>1, OneDigitMore, Zenon
  <2>4. m \div Power(16, j) \in Nat
    BY <1>3, Division, Zenon
  <2> QED BY <2>1, <2>2, <2>3, <2>4, Zenon
<1>6. Q(len) = 0 /\ Q(0) = m
  <2>1. Power(16, len) \in Nat \ {0}
    BY <1>1, <1>3
  <2>2. m \div Power(16, len) = 0
    BY <1>1, <2>1, DivisionLess, Zenon
  <2>3. m \div 1 = m
    OBVIOUS
  <2> QED BY <1>4, <2>2, <2>3, Zenon
<1>7. ASSUME NEW q \in 1 .. len
      PROVE  /\ len - q \in Nat
             /\ text[q] = hex[IF x < 0 THEN 16 - D(len - q) ELSE 1 + D(len - q)]
  <2>1. len + 1 - q \in 1 .. len /\ (len + 1 - q) - 1 = len - q /\ len - q \in Nat
    BY <1>1
  <2> QED BY <1>2, <2>1, Zenon DEF TurnedRound
<1> HIDE DEF D, Q
<1> DEFINE V == [q \in 0 .. len |->
                    IF x < 0 THEN Power(16, q) - 1 - Q(len - q) ELSE Q(len - q)]
<1>8. V \in [0 .. len -> Int]
  <2>1. ASSUME NEW q \in 0 .. len
        PROVE  (IF x < 0 THEN Power(16, q) - 1 - Q(len - q) ELSE Q(len - q)) \in Int
    <3>1. q \in Nat /\ len - q \in Nat
      BY <1>1
    <3>2. Power(16, q) \in Nat /\ Q(len - q) \in Nat
      BY <1>3, <1>5, <3>1
    <3> QED BY <3>2
  <2> QED BY <2>1
<1>9. V[0] = 0
  <2>1. 0 \in 0 .. len /\ len - 0 = len
    BY <1>1
  <2>2. V[0] = IF x < 0 THEN Power(16, 0) - 1 - Q(len) ELSE Q(len)
    BY <2>1
  <2> QED BY <1>4, <1>6, <2>2
<1>10. V[len] = IF x < 0 THEN Power(16, len) - 1 - m ELSE m
  <2>1. len \in 0 .. len /\ len - len = 0
    BY <1>1
  <2>2. V[len] = IF x < 0 THEN Power(16, len) - 1 - Q(0) ELSE Q(0)
    BY <2>1
  <2> QED BY <1>6, <2>2
<1>11. ASSUME NEW q \in 1 .. len
       PROVE  \E d \in 0 .. 16 - 1 : text[q] = hex[1 + d] /\ V[q] = 16 * V[q - 1] + d
  <2> DEFINE j == len - q
             d == IF x < 0 THEN 15 - D(j) ELSE D(j)
  <2>1. /\ j \in Nat /\ len - (q - 1) = j + 1 /\ q \in 0 .. len /\ q - 1 \in 0 .. len
        /\ q - 1 \in Nat /\ (q - 1) + 1 = q
    BY <1>1
  <2>2. /\ V[q] = IF x < 0 THEN Power(16, q) - 1 - Q(j) ELSE Q(j)
        /\ V[q - 1] = IF x < 0 THEN Power(16, q - 1) - 1 - Q(j + 1) ELSE Q(j + 1)
    BY <2>1
  <2>3. D(j) \in 0 .. 15 /\ Q(j) \in Nat /\ Q(j + 1) \in Nat /\ Q(j) = 16 * Q(j + 1) + D(j)
    <3>1. j + 1 \in Nat
      BY <2>1
    <3> QED BY <1>5, <2>1, <3>1, Zenon
  <2>4. Power(16, q) = 16 * Power(16, q - 1) /\ Power(16, q - 1) \in Nat
    <3>1. Power(16, (q - 1) + 1) = 16 * Power(16, q - 1) /\ Power(16, q - 1) \in Nat
      BY <1>3, <2>1
    <3> QED BY <2>1, <3>1, Zenon
  <2>5. text[q] = hex[IF x < 0 THEN 16 - D(j) ELSE 1 + D(j)]
    BY <1>7
  <2> HIDE DEF V, j
  <2>6. (IF x < 0 THEN 16 - D(j) ELSE 1 + D(j)) = 1 + d /\ d \in 0 .. 16 - 1
    BY <2>3
  <2>7. V[q] = 16 * V[q - 1] + d
    BY <2>2, <2>3, <2>4
  <2> QED BY <2>5, <2>6, <2>7, Zenon
<1>12. Value(text, 16) = V[len]
  <2>1. Len(text) \in Nat /\ 16 \in {10, 16} /\ Len(text) = len
    BY <1>1 DEF TurnedRound
  <2> HIDE DEF V
  <2> QED BY <1>8, <1>9, <1>11, <2>1, ValueIs, Zenon
<1>13. ASSUME len > 0 PROVE text[1] # hex[IF x < 0 THEN 16 ELSE 1]
  <2> DEFINE j == len - 1
  <2>1. 1 \in 1 .. len /\ j \in Nat /\ j + 1 = len
    BY <1>1, <1>13
  <2>2. text[1] = hex[IF x < 0 THEN 16 - D(j) ELSE 1 + D(j)]
    BY <1>7, <2>1
  <2>3. D(j) # 0
    <3>1. Power(16, j) <= m /\ m < Power(16, j + 1)
      <4>1. m >= Power(16, j) /\ Power(16, j) \in Nat
        BY <1>1, <1>3, <1>13, <2>1
      <4>2. m < Power(16, j + 1)
        BY <1>1, <2>1
      <4> QED BY <4>1, <4>2
    <3> QED BY <2>1, <3>1, FirstDigit DEF D
  <2>4. D(j) \in 0 .. 15
    BY <1>5, <2>1
  <2> HIDE DEF j
  <2>5. CASE x < 0
    <3>1. 16 - D(j) \in 1 .. 16 /\ 16 \in 1 .. 16 /\ 16 - D(j) # 16
      BY <2>3, <2>4
    <3>2. hex[16 - D(j)] # hex[16]
      BY <3>1, HexInjective
    <3> QED BY <2>2, <2>5, <3>2
  <2>6. CASE ~ (x < 0)
    <3>1. 1 + D(j) \in 1 .. 16 /\ 1 \in 1 .. 16 /\ 1 + D(j) # 1
      BY <2>3, <2>4
    <3>2. hex[1 + D(j)] # hex[1]
      BY <3>1, HexInjective
    <3> QED BY <2>2, <2>6, <3>2
  <2> QED BY <2>5, <2>6
<1>14. Value(text, 16) = IF x < 0 THEN Power(16, len) - 1 - m ELSE m
  <2> HIDE DEF V
  <2> QED BY <1>10, <1>12
<1> QED BY <1>13, <1>14, Zenon DEF HexNumber

(* What HexadecimalRight says of a text.                                        *)
DenotesHexadecimal(value, text) ==
    LET n == Value(text, 16) len == Len(text)
    IN  IF value < Word \div 2
        THEN n = value /\ (len > 1 => text[1] # "0")
        ELSE n = value - (Word - Power(16, len)) /\ (len > 0 => text[1] # "F")

LEMMA HexDenotes ==
    ASSUME NEW w \in Words
    PROVE  /\ strrev(hexDigits(Signed(w))) \in Seq(Digits)
           /\ DenotesHexadecimal(w, strrev(hexDigits(Signed(w))))
<1> DEFINE x == Signed(w)
           s == hexDigits(x)
           text == strrev(s)
<1>1. /\ x \in Ints /\ w \in Nat /\ x \in Int
      /\ w < Word \div 2 => x = w
      /\ w >= Word \div 2 => x = w - Word /\ x < 0
  BY SignedIs, SizesAre DEF Ints, Words
<1>2. Word \in Nat /\ Word \div 2 \in Nat
  BY SizesAre
<1> HIDE DEF x
<1>3. hex[1] = "0" /\ hex[16] = "F"
  BY DEF hex
<1>4. CASE x = 0
  <2>1. s = <<"0">>
    BY <1>4, Zenon DEF hexDigits
  <2>2. "0" \in Digits
    BY <1>3, HexIs DEF Digits
  <2>3. s \in Seq(Digits) /\ Len(s) = 1 /\ s[1] = "0"
    BY <2>1, <2>2
  <2> HIDE DEF s
  <2>4. text \in Seq(Digits) /\ Len(text) = 1 /\ text[1] = "0"
    BY <2>3, StrrevIs
  <2> HIDE DEF text
  <2> DEFINE V == [q \in 0 .. 1 |-> 0]
  <2>5. Value(text, 16) = V[1]
    <3>1. V \in [0 .. Len(text) -> Int] /\ V[0] = 0 /\ Len(text) \in Nat /\ 16 \in {10, 16}
      BY <2>4
    <3>2. \A k \in 1 .. Len(text) :
            \E d \in 0 .. 16 - 1 : text[k] = hex[1 + d] /\ V[k] = 16 * V[k - 1] + d
      <4>1. ASSUME NEW k \in 1 .. Len(text)
            PROVE  /\ 0 \in 0 .. 16 - 1
                   /\ text[k] = hex[1 + 0] /\ V[k] = 16 * V[k - 1] + 0
        <5>1. k = 1
          BY <2>4
        <5>2. V[1] = 16 * V[1 - 1] + 0
          OBVIOUS
        <5> QED BY <1>3, <2>4, <5>1, <5>2
      <4> HIDE DEF V
      <4> QED BY <4>1
    <3> HIDE DEF V
    <3>3. Value(text, 16) = V[Len(text)]
      BY <3>1, <3>2, ValueIs, Zenon
    <3> QED BY <2>4, <3>3
  <2>6. Value(text, 16) = 0
    BY <2>5
  <2>7. w < Word \div 2 /\ w = 0
    BY <1>1, <1>2, <1>4
  <2> QED BY <2>4, <2>6, <2>7 DEF DenotesHexadecimal, x, s, text
<1>5. CASE x # 0
  <2> DEFINE start == IF x < 0 THEN NegativeFrom(x) ELSE x
             m == Magnitude(start)
             len == Rounds(start, 16, 0)
  <2>1. HexText(x, s, m, len)
    BY <1>1, <1>5, HexDigitsAre, Zenon
  <2>2. m = (IF x < 0 THEN - x - 1 ELSE x) /\ m \in Nat
    BY <1>1 DEF NegativeFrom, Magnitude
  <2>3. s \in Seq(Digits) /\ Len(s) = len /\ len \in Nat
    BY <2>1 DEF HexText
  <2> HIDE DEF s, m, len
  <2>4. text \in Seq(Digits) /\ Len(text) = len /\ TurnedRound(s, len, text)
    BY <2>3, StrrevIs DEF TurnedRound
  <2> HIDE DEF text
  <2>5. /\ Value(text, 16) = IF x < 0 THEN Power(16, len) - 1 - m ELSE m
        /\ len > 0 => text[1] # hex[IF x < 0 THEN 16 ELSE 1]
    <3>1. HexNumber(x, m, len, text)
      BY <1>1, <2>1, <2>2, <2>4, HexValue, Zenon
    <3> QED BY <3>1, Zenon DEF HexNumber
  <2>6. Power(16, len) \in Nat
    BY <2>3, PowerIs
  <2>7. CASE w < Word \div 2
    <3>1. ~ (x < 0) /\ x = w
      BY <1>1, <2>7
    <3>2. Value(text, 16) = w /\ (len > 0 => text[1] # "0")
      BY <1>3, <2>2, <2>5, <3>1
    <3>3. len > 1 => len > 0
      BY <2>3
    <3> QED BY <2>4, <2>7, <3>2, <3>3, Zenon DEF DenotesHexadecimal, text, s, x
  <2>8. CASE ~ (w < Word \div 2)
    <3>1. x < 0 /\ x = w - Word
      BY <1>1, <1>2, <2>8
    <3>2. Value(text, 16) = w - (Word - Power(16, len)) /\ (len > 0 => text[1] # "F")
      BY <1>1, <1>2, <1>3, <2>2, <2>5, <2>6, <3>1
    <3> QED BY <2>4, <2>8, <3>2, Zenon DEF DenotesHexadecimal, text, s, x
  <2> QED BY <2>7, <2>8
<1> QED BY <1>4, <1>5
--------------------------------------------------------------------------------
(* Sequences in a row *)

(* G lists what the first sequences come to, one after the other.               *)
Rows(m, S, G) ==
    /\ G \in [0 .. Len(m) -> Seq(S)]
    /\ G[0] = <<>>
    /\ \A k \in 1 .. Len(m) : G[k] = G[k - 1] \o m[k]

FlattenRule(m, f) ==
    f = [k \in 1 .. Len(m) |-> IF k = 1 THEN m[k] ELSE f[k - 1] \o m[k]]

LEMMA FlattenRuleIs ==
    ASSUME NEW m, NEW f, Len(m) \in Nat
    PROVE  FlattenRule(m, f) <=>
              /\ f = [k \in 1 .. Len(m) |-> f[k]]
              /\ \A k \in 1 .. Len(m) : f[k] = IF k = 1 THEN m[k] ELSE f[k - 1] \o m[k]
<1> DEFINE v(k) == IF k = 1 THEN m[k] ELSE f[k - 1] \o m[k]
           N == Len(m)
<1>1. ASSUME f = [k \in 1 .. N |-> v(k)]
      PROVE  f = [k \in 1 .. N |-> f[k]] /\ \A k \in 1 .. N : f[k] = v(k)
  <2> HIDE DEF v, N
  <2> QED BY <1>1
<1>2. ASSUME f = [k \in 1 .. N |-> f[k]], \A k \in 1 .. N : f[k] = v(k)
      PROVE  f = [k \in 1 .. N |-> v(k)]
  <2> HIDE DEF v, N
  <2>1. [k \in 1 .. N |-> f[k]] = [k \in 1 .. N |-> v(k)]
    BY <1>2
  <2> QED BY <1>2, <2>1, Zenon
<1> QED BY <1>1, <1>2, Zenon DEF FlattenRule

LEMMA RowsExist ==
    ASSUME NEW S, NEW m \in Seq(Seq(S))
    PROVE  \E G : Rows(m, S, G)
<1> DEFINE N == Len(m)
           step(k) == [s \in Seq(S) |-> IF k \in 1 .. N THEN s \o m[k] ELSE s]
           next == [k \in Nat |-> step(k)]
<1>1. N \in Nat /\ <<>> \in Seq(S)
  OBVIOUS
<1>2. \A k \in 1 .. N : m[k] \in Seq(S)
  OBVIOUS
<1> HIDE DEF N
<1>3. next \in [Nat -> [Seq(S) -> Seq(S)]]
  <2>1. ASSUME NEW k \in Nat PROVE step(k) \in [Seq(S) -> Seq(S)]
    <3>1. ASSUME NEW s \in Seq(S) PROVE (IF k \in 1 .. N THEN s \o m[k] ELSE s) \in Seq(S)
      BY <1>2
    <3> QED BY <3>1
  <2> HIDE DEF step
  <2> QED BY <2>1
<1>4. \A k \in 1 .. N, s \in Seq(S) : next[k][s] = s \o m[k]
  <2>1. ASSUME NEW k \in 1 .. N, NEW s \in Seq(S) PROVE next[k][s] = s \o m[k]
    <3>1. next[k] = step(k)
      <4>1. k \in Nat
        BY <1>1
      <4> HIDE DEF step
      <4> QED BY <4>1
    <3>2. step(k)[s] = s \o m[k]
      OBVIOUS
    <3> QED BY <3>1, <3>2, Zenon
  <2> QED BY <2>1
<1> HIDE DEF next
<1>5. PICK G : Iterates(N, Seq(S), <<>>, next, G)
  BY <1>1, <1>3, IteratesExist, Zenon
<1>6. /\ G \in [0 .. N -> Seq(S)] /\ G[0] = <<>>
      /\ \A k \in 1 .. N : G[k] = next[k][G[k - 1]]
  BY <1>5 DEF Iterates
<1>7. ASSUME NEW k \in 1 .. N PROVE G[k] = G[k - 1] \o m[k]
  <2>1. k - 1 \in 0 .. N
    BY <1>1
  <2>2. G[k - 1] \in Seq(S)
    BY <1>6, <2>1
  <2> QED BY <1>4, <1>6, <2>2, Zenon
<1> QED BY <1>6, <1>7, Zenon DEF Rows, N

LEMMA FlattenIsRows ==
    ASSUME NEW S, NEW m \in Seq(Seq(S))
    PROVE  \E G : Rows(m, S, G) /\ FlattenSeq(m) = G[Len(m)]
<1> DEFINE N == Len(m)
<1>1. N \in Nat
  OBVIOUS
<1>2. PICK H : Rows(m, S, H)
  BY RowsExist, Zenon
<1>3. CASE N = 0
  <2>1. FlattenSeq(m) = m
    BY <1>3, Zenon DEF FlattenSeq
  <2>2. m = <<>>
    BY <1>3
  <2> QED BY <1>2, <1>3, <2>1, <2>2, Zenon DEF Rows
<1>4. CASE N # 0
  <2>1. 1 \in 1 .. N /\ N \in 1 .. N
    BY <1>1, <1>4
  <2>2. \A k \in 1 .. N : m[k] \in Seq(S)
    OBVIOUS
  <2> DEFINE h == [k \in 1 .. N |-> H[k]]
  <2>3. FlattenRule(m, h)
    <3>1. h = [k \in 1 .. N |-> h[k]]
      OBVIOUS
    <3>2. ASSUME NEW k \in 1 .. N PROVE h[k] = IF k = 1 THEN m[k] ELSE h[k - 1] \o m[k]
      <4>1. h[k] = H[k - 1] \o m[k] /\ H[0] = <<>>
        BY <1>2 DEF Rows
      <4>2. CASE k = 1
        <5>1. <<>> \o m[k] = m[k]
          BY <2>2
        <5>2. k - 1 = 0
          BY <4>2
        <5> HIDE DEF h
        <5> QED BY <4>1, <4>2, <5>1, <5>2, Zenon
      <4>3. CASE k # 1
        <5>1. k - 1 \in 1 .. N
          BY <1>1, <4>3
        <5>2. h[k - 1] = H[k - 1]
          BY <5>1
        <5> QED BY <4>1, <4>3, <5>2, Zenon
      <4> QED BY <4>2, <4>3
    <3> HIDE DEF h
    <3> QED BY <1>1, <3>1, <3>2, FlattenRuleIs, Zenon
  <2> DEFINE f == CHOOSE g : FlattenRule(m, g)
  <2>4. FlattenRule(m, f)
    BY <2>3, Zenon
  <2>5. FlattenSeq(m) = f[N]
    BY <1>4, Zenon DEF FlattenSeq, FlattenRule
  <2> HIDE DEF f, h
  <2>6. \A k \in 1 .. N : f[k] = IF k = 1 THEN m[k] ELSE f[k - 1] \o m[k]
    BY <1>1, <2>4, FlattenRuleIs, Zenon
  <2> DEFINE T == {k \in Nat : k + 1 <= N => f[k + 1] = H[k + 1]}
  <2> HIDE DEF N
  <2>7. /\ H \in [0 .. N -> Seq(S)] /\ H[0] = <<>>
        /\ \A k \in 1 .. N : H[k] = H[k - 1] \o m[k]
    BY <1>2 DEF Rows, N
  <2>8. 0 \in T
    <3>1. f[1] = m[1]
      BY <2>1, <2>6, Zenon
    <3>2. H[1] = H[1 - 1] \o m[1]
      BY <2>1, <2>7, Zenon
    <3>3. <<>> \o m[1] = m[1]
      BY <2>1, <2>2
    <3>4. 1 - 1 = 0
      OBVIOUS
    <3>5. f[1] = H[1]
      BY <2>7, <3>1, <3>2, <3>3, <3>4, Zenon
    <3> QED BY <3>5
  <2>9. ASSUME NEW k \in Nat, k \in T PROVE k + 1 \in T
    <3>1. SUFFICES ASSUME (k + 1) + 1 <= N PROVE f[(k + 1) + 1] = H[(k + 1) + 1]
      OBVIOUS
    <3> DEFINE n == (k + 1) + 1
    <3>2. n \in 1 .. N /\ n # 1 /\ n - 1 = k + 1 /\ f[k + 1] = H[k + 1]
      BY <1>1, <2>9, <3>1
    <3> HIDE DEF n
    <3>3. f[n] = f[n - 1] \o m[n] /\ H[n] = H[n - 1] \o m[n]
      BY <2>6, <2>7, <3>2, Zenon
    <3>4. f[n] = H[n]
      BY <3>2, <3>3, Zenon
    <3> QED BY <3>4, Zenon DEF n
  <2>10. \A k \in Nat : k \in T
    <3> HIDE DEF T
    <3> QED BY <2>8, <2>9, Induction, Zenon
  <2>11. f[N] = H[N]
    <3>1. N - 1 \in Nat /\ (N - 1) + 1 = N
      BY <1>1, <1>4
    <3> QED BY <2>10, <3>1
  <2> QED BY <1>2, <2>5, <2>11, Zenon DEF N
<1> QED BY <1>3, <1>4

(* e lists where the sequences of m end in the row.                             *)
Flattened(m, row, e) ==
    /\ e \in [0 .. Len(m) -> Nat] /\ e[0] = 0 /\ e[Len(m)] = Len(row)
    /\ \A k \in 1 .. Len(m) :
        /\ e[k] = e[k - 1] + Len(m[k])
        /\ e[k] <= Len(row)
        /\ \A j \in 1 .. Len(m[k]) : row[e[k - 1] + j] = m[k][j]

LEMMA FlattenIs ==
    ASSUME NEW S, NEW m \in Seq(Seq(S))
    PROVE  FlattenSeq(m) \in Seq(S) /\ \E e : Flattened(m, FlattenSeq(m), e)
<1> DEFINE N == Len(m)
           row == FlattenSeq(m)
<1>1. PICK G : Rows(m, S, G) /\ row = G[N]
  BY FlattenIsRows, Zenon
<1>2. N \in Nat /\ \A k \in 1 .. N : m[k] \in Seq(S) /\ Len(m[k]) \in Nat
  OBVIOUS
<1> HIDE DEF N, row
<1>3. /\ G \in [0 .. N -> Seq(S)] /\ G[0] = <<>>
      /\ \A k \in 1 .. N : G[k] = G[k - 1] \o m[k]
  BY <1>1 DEF Rows, N
<1> DEFINE e == [k \in 0 .. N |-> Len(G[k])]
<1>4. \A k \in 0 .. N : G[k] \in Seq(S) /\ e[k] = Len(G[k]) /\ e[k] \in Nat
  BY <1>3
<1>5. e \in [0 .. N -> Nat]
  BY <1>3
<1> HIDE DEF e
<1>6. ASSUME NEW k \in 1 .. N
      PROVE  /\ k \in 0 .. N /\ k - 1 \in 0 .. N
             /\ e[k] = e[k - 1] + Len(m[k])
             /\ \A j \in 1 .. e[k - 1] : G[k][j] = G[k - 1][j]
             /\ \A j \in 1 .. Len(m[k]) : G[k][e[k - 1] + j] = m[k][j]
  <2>1. k \in 0 .. N /\ k - 1 \in 0 .. N
    BY <1>2
  <2>2. G[k - 1] \in Seq(S) /\ m[k] \in Seq(S) /\ G[k] = G[k - 1] \o m[k]
    BY <1>2, <1>3, <2>1
  <2>3. e[k] = Len(G[k]) /\ e[k - 1] = Len(G[k - 1])
    BY <1>4, <2>1
  <2>4. /\ Len(G[k - 1] \o m[k]) = Len(G[k - 1]) + Len(m[k])
        /\ \A j \in 1 .. Len(G[k - 1]) : (G[k - 1] \o m[k])[j] = G[k - 1][j]
        /\ \A j \in 1 .. Len(m[k]) : (G[k - 1] \o m[k])[Len(G[k - 1]) + j] = m[k][j]
    <3> DEFINE s == G[k - 1]
               t == m[k]
    <3>1. s \in Seq(S) /\ t \in Seq(S)
      BY <2>2
    <3> HIDE DEF s, t
    <3>2. /\ Len(s \o t) = Len(s) + Len(t)
          /\ \A j \in 1 .. Len(s) : (s \o t)[j] = s[j]
          /\ \A j \in 1 .. Len(t) : (s \o t)[Len(s) + j] = t[j]
      BY <3>1, Joined
    <3> QED BY <3>2, Zenon DEF s, t
  <2> QED BY <2>1, <2>2, <2>3, <2>4, Zenon
<1> DEFINE Found(n) == \A k \in 1 .. N : k <= n =>
              e[k] <= e[n] /\ \A j \in 1 .. Len(m[k]) : G[n][e[k - 1] + j] = m[k][j]
           T == {n \in Nat : n <= N => Found(n)}
<1>7. 0 \in T
  BY <1>2
<1>8. ASSUME NEW n \in Nat, n \in T PROVE n + 1 \in T
  <2>1. SUFFICES ASSUME n + 1 <= N, NEW k \in 1 .. N, k <= n + 1
                 PROVE  /\ e[k] <= e[n + 1]
                        /\ \A j \in 1 .. Len(m[k]) : G[n + 1][e[k - 1] + j] = m[k][j]
    OBVIOUS
  <2>2. n + 1 \in 1 .. N /\ (n + 1) - 1 = n /\ n \in 0 .. N /\ n + 1 \in 0 .. N /\ n <= N
    BY <1>2, <2>1
  <2>3. /\ e[n + 1] = e[n] + Len(m[n + 1])
        /\ \A j \in 1 .. e[n] : G[n + 1][j] = G[n][j]
        /\ \A j \in 1 .. Len(m[n + 1]) : G[n + 1][e[n] + j] = m[n + 1][j]
    BY <1>6, <2>2
  <2>4. e[n] \in Nat /\ e[n + 1] \in Nat /\ Len(m[n + 1]) \in Nat
    BY <1>2, <1>4, <2>2
  <2>5. CASE k = n + 1
    BY <2>2, <2>3, <2>4, <2>5
  <2>6. CASE k # n + 1
    <3>1. k <= n /\ k \in 0 .. N /\ k - 1 \in 0 .. N
      BY <1>2, <2>1, <2>6
    <3>2. e[k] <= e[n] /\ \A j \in 1 .. Len(m[k]) : G[n][e[k - 1] + j] = m[k][j]
      <4>1. Found(n)
        BY <1>8, <2>2
      <4> QED BY <3>1, <4>1, Zenon
    <3>3. e[k] \in Nat /\ e[k - 1] \in Nat /\ e[k] = e[k - 1] + Len(m[k]) /\ Len(m[k]) \in Nat
      BY <1>2, <1>4, <1>6, <3>1
    <3>4. ASSUME NEW j \in 1 .. Len(m[k]) PROVE G[n + 1][e[k - 1] + j] = m[k][j]
      <4>1. e[k - 1] + j \in 1 .. e[n]
        <5> DEFINE a == e[k - 1] b == e[k] c == e[n] l == Len(m[k])
        <5>1. a \in Nat /\ b \in Nat /\ c \in Nat /\ l \in Nat /\ b = a + l /\ b <= c
          BY <2>4, <3>2, <3>3
        <5>2. j \in 1 .. l
          OBVIOUS
        <5> HIDE DEF a, b, c, l
        <5>3. a + j \in 1 .. c
          BY <5>1, <5>2
        <5> QED BY <5>3 DEF a, c
      <4> QED BY <2>3, <3>2, <4>1
    <3>5. e[k] <= e[n + 1]
      <4> DEFINE a == e[k] b == e[n] c == e[n + 1] l == Len(m[n + 1])
      <4>1. a \in Nat /\ b \in Nat /\ c \in Nat /\ l \in Nat
        BY <2>4, <3>3, Zenon
      <4>2. a <= b /\ c = b + l
        BY <2>3, <3>2, Zenon
      <4> HIDE DEF a, b, c, l
      <4>3. a <= c
        BY <4>1, <4>2
      <4> QED BY <4>3, Zenon DEF a, c
    <3> QED BY <3>4, <3>5, Zenon
  <2> QED BY <2>5, <2>6, Zenon
<1>9. \A n \in Nat : n \in T
  <2> HIDE DEF T
  <2> QED BY <1>7, <1>8, Induction, Zenon
<1>10. N \in 0 .. N /\ 0 \in 0 .. N /\ N <= N
  BY <1>2
<1>11. row \in Seq(S) /\ e[N] = Len(row) /\ e[0] = 0
  BY <1>1, <1>3, <1>4, <1>10 DEF N
<1>12. Found(N)
  BY <1>2, <1>9, <1>10
<1>13. ASSUME NEW k \in 1 .. N
       PROVE  /\ e[k] = e[k - 1] + Len(m[k])
              /\ e[k] <= Len(row)
              /\ \A j \in 1 .. Len(m[k]) : row[e[k - 1] + j] = m[k][j]
  <2>1. k <= N /\ row = G[N]
    BY <1>1, <1>2 DEF N
  <2> QED BY <1>6, <1>11, <1>12, <2>1
<1>14. Flattened(m, row, e)
  BY <1>5, <1>11, <1>13, Zenon DEF Flattened, N
<1> QED BY <1>11, <1>14, Zenon DEF row
--------------------------------------------------------------------------------
(* The walk through the memory map *)

Ends(m) == CHOOSE e : Flattened(m, FlattenSeq(m), e)

(* What a walk by sizes relies on.                                              *)
MapWellFormed(m, row, e) ==
    /\ Len(m) \in Nat
    /\ row \in Seq(Words)
    /\ Flattened(m, row, e)
    /\ \A k \in 1 .. Len(m) :
        /\ m[k] \in Seq(Words) /\ Len(m[k]) \in Nat /\ Len(m[k]) >= 6
        /\ m[k][1] = 4 * (Len(m[k]) - 1)
    /\ \A k \in 0 .. Len(m) : k <= e[k] /\ (k < Len(m) => e[k] < e[Len(m)])
    /\ Len(row) \in Nat /\ 4 * Len(row) < Word

LEMMA MapIs ==
    ASSUME NEW info \in Infos
    PROVE  MapWellFormed(info.mmap, FlattenSeq(info.mmap), Ends(info.mmap))
<1> DEFINE m == info.mmap
           row == FlattenSeq(m)
           e == Ends(m)
           N == Len(m)
<1>1. /\ m \in Seq(Seq(Words)) /\ 4 * Len(row) < Word
      /\ \A k \in DOMAIN m : Len(m[k]) >= 6 /\ m[k][1] = 4 * (Len(m[k]) - 1)
  BY InfosAssumption
<1> HIDE DEF m
<1>2. row \in Seq(Words) /\ \E x : Flattened(m, row, x)
  BY <1>1, FlattenIs, Zenon
<1>3. Flattened(m, row, e)
  BY <1>2, Zenon DEF Ends
<1>4. N \in Nat /\ Len(row) \in Nat
  BY <1>1, <1>2
<1>5. ASSUME NEW k \in 1 .. N
      PROVE  /\ m[k] \in Seq(Words) /\ Len(m[k]) \in Nat /\ Len(m[k]) >= 6
             /\ m[k][1] = 4 * (Len(m[k]) - 1)
  <2>1. k \in DOMAIN m /\ m[k] \in Seq(Words)
    BY <1>1
  <2>2. Len(m[k]) \in Nat
    BY <2>1
  <2> QED BY <1>1, <2>1, <2>2, Zenon
<1> HIDE DEF row, e, N
<1>6. /\ e \in [0 .. N -> Nat] /\ e[0] = 0 /\ e[N] = Len(row)
      /\ \A k \in 1 .. N : e[k] = e[k - 1] + Len(m[k]) /\ e[k] <= Len(row)
  BY <1>3 DEF Flattened, N
<1>7. ASSUME NEW k \in Nat, k + 1 <= N PROVE e[k + 1] >= e[k] + 6 /\ e[k + 1] <= Len(row)
  <2>1. k + 1 \in 1 .. N /\ (k + 1) - 1 = k /\ k \in 0 .. N
    BY <1>4, <1>7
  <2>2. e[k + 1] = e[(k + 1) - 1] + Len(m[k + 1]) /\ e[k + 1] <= Len(row)
    BY <1>6, <2>1, Zenon
  <2>3. Len(m[k + 1]) \in Nat /\ Len(m[k + 1]) >= 6
    BY <1>5, <2>1, Zenon
  <2>4. e[k] \in Nat
    BY <1>6, <2>1
  <2> QED BY <2>1, <2>2, <2>3, <2>4
<1> DEFINE T == {k \in Nat : k <= N => k <= e[k]}
<1>8. 0 \in T
  BY <1>6
<1>9. ASSUME NEW k \in Nat, k \in T PROVE k + 1 \in T
  <2>1. SUFFICES ASSUME k + 1 <= N PROVE k + 1 <= e[k + 1]
    OBVIOUS
  <2>2. k <= e[k] /\ k \in 0 .. N /\ k + 1 \in 0 .. N
    BY <1>4, <1>9, <2>1
  <2>3. e[k] \in Nat /\ e[k + 1] \in Nat
    BY <1>6, <2>2
  <2> QED BY <1>7, <2>1, <2>2, <2>3
<1>10. \A k \in Nat : k \in T
  <2> HIDE DEF T
  <2> QED BY <1>8, <1>9, Induction, Zenon
<1>11. ASSUME NEW k \in 0 .. N PROVE k <= e[k] /\ (k < N => e[k] < e[N])
  <2>1. k \in Nat /\ k <= N /\ k <= e[k] /\ e[k] \in Nat
    BY <1>4, <1>6, <1>10
  <2>2. ASSUME k < N PROVE e[k] < e[N]
    <3>1. k + 1 <= N /\ k + 1 \in 0 .. N
      BY <1>4, <2>1, <2>2
    <3>2. e[k + 1] >= e[k] + 6 /\ e[k + 1] <= Len(row) /\ e[k + 1] \in Nat
      BY <1>6, <1>7, <2>1, <3>1
    <3> QED BY <1>4, <1>6, <2>1, <3>2
  <2> QED BY <2>1, <2>2
<1> QED BY <1>1, <1>2, <1>3, <1>4, <1>5, <1>11, Zenon DEF MapWellFormed, N, m, row, e

Lines == {42, 44, 52, 66, 68, 69, 70, 72, 74, 78, 80, 85, 61}

(* What the k-th line of the listing shows.                                     *)
Shows(args, k, entry) ==
    /\ args[1] = k - 1 /\ args[2] = entry[1] /\ args[5] = entry[6]
    /\ entry[3] = 0 => args[3] = entry[2]
    /\ entry[5] = 0 => args[4] = entry[4]

(* mm is where entry i ends, the listing has a line for each entry before it,   *)
(* and the loop is left behind the last.                                        *)
Walk ==
    /\ mbi \in Infos /\ line \in Lines
    /\ i \in 0 .. Len(mbi.mmap) /\ mm = 4 * Ends(mbi.mmap)[i]
    /\ line \notin {78, 80, 85, 61} => i = 0
    /\ line \in {74, 78, 80, 85} => 6 \in mbi.flags
    /\ line \in {80, 85} => i < Len(mbi.mmap)
    /\ line = 61 /\ 6 \in mbi.flags => i = Len(mbi.mmap)
    /\ listed \in Seq(Seq(Words))
    /\ Len(listed) = IF line = 85 THEN i + 1 ELSE i
    /\ \A k \in 1 .. Len(listed) : Shows(listed[k], k, mbi.mmap[k])

LEMMA FieldIs ==
    ASSUME Walk, i < Len(mbi.mmap), NEW n \in 0 .. 5
    PROVE  Field(n) = mbi.mmap[i + 1][n + 1] /\ Field(n) \in Words
<1> DEFINE m == mbi.mmap
           e == Ends(m)
           N == Len(m)
           j == n + 1
<1>1. MapWellFormed(m, memory, e)
  BY MapIs DEF Walk, memory
<1>2. mm = 4 * e[i] /\ i \in 0 .. N
  BY DEF Walk
<1> HIDE DEF m, e
<1>3. N \in Nat /\ memory \in Seq(Words) /\ Len(memory) \in Nat /\ Flattened(m, memory, e)
  BY <1>1 DEF MapWellFormed
<1>4. /\ e \in [0 .. N -> Nat]
      /\ \A k \in 1 .. N :
            /\ e[k] = e[k - 1] + Len(m[k])
            /\ e[k] <= Len(memory)
            /\ \A x \in 1 .. Len(m[k]) : memory[e[k - 1] + x] = m[k][x]
  BY <1>3 DEF Flattened
<1>5. i < N
  BY DEF m
<1> HIDE DEF N
<1>6. i + 1 \in 1 .. N /\ (i + 1) - 1 = i /\ i + 1 \in 0 .. N
  BY <1>2, <1>3, <1>5
<1>7. /\ e[i + 1] = e[i] + Len(m[i + 1]) /\ e[i + 1] <= Len(memory)
      /\ \A x \in 1 .. Len(m[i + 1]) : memory[e[i] + x] = m[i + 1][x]
  BY <1>4, <1>6
<1>8. Len(m[i + 1]) \in Nat /\ Len(m[i + 1]) >= 6
  BY <1>1, <1>6 DEF MapWellFormed, N
<1>9. e[i] \in Nat /\ e[i + 1] \in Nat
  BY <1>2, <1>4, <1>6
<1>10. j \in 1 .. Len(m[i + 1]) /\ j \in Nat /\ j > 0
  BY <1>8
<1>11. e[i] + j <= Len(memory) /\ e[i] + j \in 1 .. Len(memory)
  BY <1>3, <1>7, <1>8, <1>9, <1>10
<1>12. mm \div 4 + n + 1 = e[i] + j
  <2>1. mm \div 4 = e[i]
    BY <1>2, <1>9
  <2> QED BY <1>9, <2>1
<1>13. memory[e[i] + j] = m[i + 1][j]
  BY <1>7, <1>10
<1>14. memory[e[i] + j] \in Words
  BY <1>3, <1>11
<1>15. Field(n) = memory[e[i] + j]
  BY <1>11, <1>12, Zenon DEF Field
<1> QED BY <1>13, <1>14, <1>15, Zenon DEF m, j

LEMMA ShiftedIs ==
    ASSUME NEW low \in Words, NEW high \in Words
    PROVE  Shifted(low, high) \in Words /\ (high = 0 => Shifted(low, high) = low)
<1>1. Word \in Nat \ {0}
  BY SizesAre
<1>2. low + high * 16 \in Nat /\ low \in Nat /\ low < Word
  BY <1>1 DEF Words
<1>3. (low + high * 16) % Word \in 0 .. Word - 1
  BY <1>1, <1>2
<1>4. ASSUME high = 0 PROVE (low + high * 16) % Word = low
  <2>1. low + high * 16 = low
    BY <1>2, <1>4
  <2>2. low % Word = low
    BY <1>1, <1>2
  <2> QED BY <2>1, <2>2, Zenon
<1> QED BY <1>3, <1>4 DEF Shifted, Words

(* What line 80 prints of an entry.                                             *)
MapArgs == <<i, size, Shifted(Field(1), Field(2)), Shifted(Field(3), Field(4)), Field(5)>>

LEMMA MapArgsAre ==
    ASSUME Walk, i < Len(mbi.mmap)
    PROVE  MapArgs \in Seq(Words) /\ Len(MapArgs) = 5
           /\ Shows(MapArgs, i + 1, mbi.mmap[i + 1])
<1> DEFINE entry == mbi.mmap[i + 1]
<1>1. \A n \in 0 .. 5 : Field(n) = entry[n + 1] /\ Field(n) \in Words
  BY FieldIs, Zenon
<1>2. /\ Field(0) = entry[1] /\ Field(1) = entry[2] /\ Field(2) = entry[3]
      /\ Field(3) = entry[4] /\ Field(4) = entry[5] /\ Field(5) = entry[6]
  BY <1>1
<1>3. /\ Field(0) \in Words /\ Field(1) \in Words /\ Field(2) \in Words
      /\ Field(3) \in Words /\ Field(4) \in Words /\ Field(5) \in Words
  BY <1>1
<1>4. /\ Shifted(Field(1), Field(2)) \in Words
      /\ Field(2) = 0 => Shifted(Field(1), Field(2)) = Field(1)
  BY <1>3, ShiftedIs
<1>5. /\ Shifted(Field(3), Field(4)) \in Words
      /\ Field(4) = 0 => Shifted(Field(3), Field(4)) = Field(3)
  BY <1>3, ShiftedIs
<1>6. i \in Words /\ i \in Nat
  <2> DEFINE N == Len(mbi.mmap) e == Ends(mbi.mmap)
  <2>1. MapWellFormed(mbi.mmap, memory, e) /\ i \in 0 .. N
    BY MapIs DEF Walk, memory
  <2>2. N \in Nat /\ Len(memory) \in Nat /\ N <= e[N] /\ e[N] = Len(memory) /\ 4 * Len(memory) < Word
    <3>1. N \in Nat /\ Len(memory) \in Nat /\ e[N] = Len(memory) /\ 4 * Len(memory) < Word
      BY <2>1 DEF MapWellFormed, Flattened
    <3>2. N \in 0 .. N
      BY <3>1
    <3>3. N <= e[N]
      BY <2>1, <3>2, Zenon DEF MapWellFormed
    <3> QED BY <3>1, <3>3, Zenon
  <2> HIDE DEF N, e
  <2>3. Word \in Nat
    BY SizesAre
  <2>4. i \in 0 .. Word - 1
    BY <2>1, <2>2, <2>3
  <2> QED BY <2>4 DEF Words
<1> DEFINE F(n) == Field(n)
           a == Shifted(F(1), F(2))
           b == Shifted(F(3), F(4))
<1>7. size = F(0)
  BY DEF size
<1>8. MapArgs = <<i, F(0), a, b, F(5)>>
  BY <1>7, Zenon DEF MapArgs
<1> HIDE DEF F, a, b
<1>9. <<i, F(0), a, b, F(5)>> \in Seq(Words) /\ Len(<<i, F(0), a, b, F(5)>>) = 5
  BY <1>3, <1>4, <1>5, <1>6 DEF F, a, b
<1>10. /\ MapArgs[1] = i /\ MapArgs[2] = F(0) /\ MapArgs[3] = a /\ MapArgs[4] = b
       /\ MapArgs[5] = F(5)
  BY <1>8
<1>11. (i + 1) - 1 = i
  BY <1>6
<1>12. Shows(MapArgs, i + 1, entry)
  BY <1>2, <1>4, <1>5, <1>10, <1>11, Zenon DEF Shows, F, a, b
<1> QED BY <1>8, <1>9, <1>12, Zenon

LEMMA WalkInit == Init => Walk
<1> SUFFICES ASSUME Init PROVE Walk
  OBVIOUS
<1>1. mbi \in Infos /\ line = 42 /\ mm = 0 /\ i = 0 /\ listed = <<>>
  BY DEF Init
<1> DEFINE N == Len(mbi.mmap) e == Ends(mbi.mmap)
<1>2. MapWellFormed(mbi.mmap, FlattenSeq(mbi.mmap), e)
  BY <1>1, MapIs
<1>3. N \in Nat /\ e[0] = 0
  BY <1>2 DEF MapWellFormed, Flattened
<1> HIDE DEF N, e
<1>4. i \in 0 .. N /\ mm = 4 * e[i]
  BY <1>1, <1>3
<1>5. listed \in Seq(Seq(Words)) /\ Len(listed) = 0
  BY <1>1
<1>6. \A k \in 1 .. Len(listed) : Shows(listed[k], k, mbi.mmap[k])
  BY <1>5
<1>7. line \in Lines
  BY <1>1 DEF Lines
<1> QED BY <1>1, <1>4, <1>5, <1>6, <1>7 DEF Walk, N, e

(* The next entry's place is known from this one's size.                        *)
LEMMA NextEntryIs ==
    ASSUME Walk, i < Len(mbi.mmap)
    PROVE  NextEntry = 4 * Ends(mbi.mmap)[i + 1] /\ i + 1 \in 0 .. Len(mbi.mmap) /\ i \in Nat
<1> DEFINE m == mbi.mmap e == Ends(m) N == Len(m) l == Len(m[i + 1])
<1>1. MapWellFormed(m, memory, e) /\ i \in 0 .. N /\ mm = 4 * e[i] /\ i < N
  BY MapIs DEF Walk, memory
<1>2. size = m[i + 1][1]
  <2>1. Field(0) = m[i + 1][0 + 1]
    BY FieldIs
  <2> QED BY <2>1 DEF size
<1>3. N \in Nat
  BY <1>1 DEF MapWellFormed
<1> HIDE DEF m, e
<1>4. i + 1 \in 1 .. N /\ (i + 1) - 1 = i /\ i + 1 \in 0 .. N /\ i \in Nat
  BY <1>1, <1>3
<1>5. l \in Nat /\ m[i + 1][1] = 4 * (l - 1)
  BY <1>1, <1>4 DEF MapWellFormed
<1>6. e[i] \in Nat /\ e[i + 1] = e[i] + l
  BY <1>1, <1>4 DEF MapWellFormed, Flattened
<1> HIDE DEF l, N
<1>7. NextEntry = 4 * e[i + 1]
  BY <1>1, <1>2, <1>5, <1>6 DEF NextEntry
<1> QED BY <1>4, <1>7 DEF m, e, N

LEMMA LoopTest ==
    ASSUME Walk
    PROVE  mm < mmap_length <=> i < Len(mbi.mmap)
<1> DEFINE m == mbi.mmap e == Ends(m) N == Len(m)
<1>1. MapWellFormed(m, memory, e) /\ i \in 0 .. N /\ mm = 4 * e[i]
  BY MapIs DEF Walk, memory
<1>2. N \in Nat /\ e[N] = Len(memory) /\ Len(memory) \in Nat /\ e \in [0 .. N -> Nat]
  BY <1>1 DEF MapWellFormed, Flattened
<1>3. i < N => e[i] < e[N]
  BY <1>1 DEF MapWellFormed
<1> HIDE DEF m, e, N
<1>4. e[i] \in Nat /\ (i < N \/ i = N)
  BY <1>1, <1>2
<1>5. mm < mmap_length <=> i < N
  BY <1>1, <1>2, <1>3, <1>4 DEF mmap_length
<1> QED BY <1>5 DEF N, m

LEMMA WalkStep == Walk /\ [Next]_vars => Walk'
<1> SUFFICES ASSUME Walk, [Next]_vars PROVE Walk'
  OBVIOUS
<1> DEFINE N == Len(mbi.mmap) e == Ends(mbi.mmap)
<1>1. /\ mbi \in Infos /\ line \in Lines
      /\ i \in 0 .. N /\ mm = 4 * e[i]
      /\ line \notin {78, 80, 85, 61} => i = 0
      /\ line \in {74, 78, 80, 85} => 6 \in mbi.flags
      /\ line \in {80, 85} => i < N
      /\ line = 61 /\ 6 \in mbi.flags => i = N
      /\ listed \in Seq(Seq(Words))
      /\ Len(listed) = IF line = 85 THEN i + 1 ELSE i
      /\ \A k \in 1 .. Len(listed) : Shows(listed[k], k, mbi.mmap[k])
  BY DEF Walk
<1>2. N \in Nat
  <2>1. MapWellFormed(mbi.mmap, memory, e)
    BY <1>1, MapIs DEF memory
  <2> QED BY <2>1 DEF MapWellFormed
<1>3. ASSUME UNCHANGED program PROVE Walk'
  <2>1. mbi' = mbi /\ line' = line /\ mm' = mm /\ i' = i /\ listed' = listed
    BY <1>3 DEF program
  <2>2. Walk' <=> Walk
    BY <2>1, Zenon DEF Walk
  <2> QED BY <2>2
<1>4. CASE UNCHANGED vars
  BY <1>3, <1>4 DEF vars
<1>5. CASE printf \/ serial_printf
  BY <1>3, <1>5 DEF printf, serial_printf, Step
<1>6. CASE Interrupt
  BY <1>3, <1>6 DEF Interrupt
(* A step of the program that leaves the loop's variables alone.                *)
<1>7. ASSUME UNCHANGED <<mbi, mm, i, listed>>, line # 85, line' \in Lines \ {85},
             line' \notin {78, 80, 85, 61} => i = 0,
             line' \in {74, 78, 80, 85} => 6 \in mbi.flags,
             line' = 80 => i < N,
             line' = 61 /\ 6 \in mbi.flags => i = N
      PROVE  Walk'
  <2>1. Len(listed') = IF line' = 85 THEN i' + 1 ELSE i'
    BY <1>1, <1>7
  <2>2. line' \in {80, 85} => i' < Len(mbi'.mmap)
    BY <1>7
  <2>3. /\ mbi' \in Infos /\ line' \in Lines
        /\ i' \in 0 .. Len(mbi'.mmap) /\ mm' = 4 * Ends(mbi'.mmap)[i']
        /\ listed' \in Seq(Seq(Words))
        /\ \A k \in 1 .. Len(listed') : Shows(listed'[k], k, mbi'.mmap[k])
    BY <1>1, <1>7, Zenon
  <2>4. /\ line' \notin {78, 80, 85, 61} => i' = 0
        /\ line' \in {74, 78, 80, 85} => 6 \in mbi'.flags
        /\ line' = 61 /\ 6 \in mbi'.flags => i' = Len(mbi'.mmap)
    BY <1>7
  <2> QED BY <2>1, <2>2, <2>3, <2>4 DEF Walk, Lines, Shows
<1> HIDE DEF e
<1>8. CASE kernel_early
  <2>1. \/ (line = 42 /\ line' = 44)
        \/ (line = 44 /\ line' = 52)
    BY <1>8 DEF kernel_early, Says, Goto
  <2>2. UNCHANGED <<mbi, mm, i, listed>>
    BY <1>8 DEF kernel_early, Says
  <2> QED BY <1>1, <1>7, <2>1, <2>2 DEF Lines
<1>9. CASE kernel_main
  <2>1. line = 52 /\ line' = 66 /\ UNCHANGED <<mbi, mm, i, listed>>
    BY <1>9 DEF kernel_main, Says, Goto
  <2> QED BY <1>1, <1>7, <2>1 DEF Lines
<1>10. CASE shell_key
  <2>1. line = 61 /\ line' = 61 /\ UNCHANGED <<mbi, mm, i, listed>>
    BY <1>10 DEF shell_key, Says, Goto
  <2> QED BY <1>1, <1>7, <2>1 DEF Lines
<1>11. CASE Flag(66, 0, 68, 72) \/ Says(68, 69, <<"L", "%", "d", "K">>, <<mbi.mem_lower>>)
            \/ Says(69, 70, <<"U", "%", "d", "K">>, <<mbi.mem_upper>>)
            \/ Says(70, 72, <<"\n">>, <<>>)
  <2>1. UNCHANGED <<mbi, mm, i, listed>>
    BY <1>11 DEF Flag, Says
  <2>2. \/ line = 66 /\ line' \in {68, 72}
        \/ line = 68 /\ line' = 69
        \/ line = 69 /\ line' = 70
        \/ line = 70 /\ line' = 72
    BY <1>11 DEF Flag, Says, Goto
  <2> QED BY <1>1, <1>7, <2>1, <2>2 DEF Lines
<1>12. CASE Flag(72, 6, 74, 61)
  <2>1. /\ line = 72 /\ UNCHANGED <<mbi, mm, i, listed>>
        /\ line' = IF 6 \in mbi.flags THEN 74 ELSE 61
    BY <1>12 DEF Flag, Goto
  <2>2. i = 0
    BY <1>1, <2>1
  <2>3. (line' = 74 /\ 6 \in mbi.flags) \/ (line' = 61 /\ 6 \notin mbi.flags)
    BY <2>1
  <2> QED BY <1>1, <1>7, <2>1, <2>2, <2>3 DEF Lines
<1>13. CASE Says(74, 78, <<"F", "%", "d", "\n">>, <<mmap_length \div size>>)
  <2>1. line = 74 /\ line' = 78 /\ UNCHANGED <<mbi, mm, i, listed>>
    BY <1>13 DEF Says, Goto
  <2> QED BY <1>1, <1>7, <2>1 DEF Lines
<1>14. CASE Goto(78, IF mm < mmap_length THEN 80 ELSE 61) /\ Quiet /\ UNCHANGED <<mbi, mm, i, listed>>
  <2>1. line = 78 /\ UNCHANGED <<mbi, mm, i, listed>>
    BY <1>14 DEF Goto
  <2>2. mm < mmap_length <=> i < N
    BY LoopTest
  <2>3. line' = (IF i < N THEN 80 ELSE 61)
    BY <1>14, <2>2, Zenon DEF Goto
  <2>4. ~ (i < N) => i = N
    BY <1>1, <1>2
  <2> QED BY <1>1, <1>7, <2>1, <2>3, <2>4 DEF Lines
<1>15. CASE /\ Goto(80, 85) /\ Calls(MmapLine, MapArgs)
            /\ listed' = Append(listed, call'.args) /\ UNCHANGED <<mbi, i, mm>>
  <2>1. line = 80 /\ line' = 85 /\ UNCHANGED <<mbi, i, mm>> /\ i < N
    BY <1>1, <1>15 DEF Goto
  <2>2. call'.args = MapArgs
    BY <1>15 DEF Calls
  <2>3. MapArgs \in Seq(Words) /\ Shows(MapArgs, i + 1, mbi.mmap[i + 1])
    BY <2>1, MapArgsAre
  <2>4. listed' = Append(listed, MapArgs) /\ Len(listed) = i /\ i \in Nat
    BY <1>1, <1>2, <1>15, <2>1, <2>2
  <2>5. listed' \in Seq(Seq(Words)) /\ Len(listed') = i + 1
    BY <1>1, <2>3, <2>4
  <2>6. ASSUME NEW k \in 1 .. Len(listed') PROVE Shows(listed'[k], k, mbi'.mmap[k])
    <3>1. CASE k = i + 1
      <4>1. listed'[i + 1] = MapArgs
        BY <1>1, <2>3, <2>4
      <4> QED BY <2>1, <2>3, <3>1, <4>1, Zenon
    <3>2. CASE k # i + 1
      <4>1. k \in 1 .. Len(listed)
        BY <2>4, <2>5, <3>2
      <4>2. listed'[k] = listed[k]
        BY <1>1, <2>3, <2>4, <4>1
      <4> QED BY <1>1, <2>1, <4>1, <4>2, Zenon
    <3> QED BY <3>1, <3>2
  <2>7. /\ mbi' \in Infos /\ i' \in 0 .. Len(mbi'.mmap) /\ mm' = 4 * Ends(mbi'.mmap)[i']
        /\ 6 \in mbi'.flags /\ i' < Len(mbi'.mmap)
    BY <1>1, <2>1 DEF e
  <2>8. Len(listed') = IF line' = 85 THEN i' + 1 ELSE i'
    BY <2>1, <2>5
  <2> QED BY <2>1, <2>5, <2>6, <2>7, <2>8 DEF Walk, Lines
<1>16. CASE /\ Goto(85, 78) /\ i' = i + 1 /\ mm' = NextEntry
            /\ Quiet /\ UNCHANGED <<mbi, listed>>
  <2>1. line = 85 /\ line' = 78 /\ UNCHANGED <<mbi, listed>> /\ i < N /\ 6 \in mbi.flags
    BY <1>1, <1>16 DEF Goto
  <2>2. NextEntry = 4 * e[i + 1] /\ i + 1 \in 0 .. N
    BY <2>1, NextEntryIs DEF e
  <2>3. /\ i' \in 0 .. Len(mbi'.mmap) /\ mm' = 4 * Ends(mbi'.mmap)[i']
        /\ mbi' \in Infos /\ 6 \in mbi'.flags
    BY <1>1, <1>16, <2>1, <2>2, Zenon DEF e
  <2>4. Len(listed') = IF line' = 85 THEN i' + 1 ELSE i'
    BY <1>1, <1>16, <2>1
  <2>5. /\ listed' \in Seq(Seq(Words))
        /\ \A k \in 1 .. Len(listed') : Shows(listed'[k], k, mbi'.mmap[k])
    BY <1>1, <2>1, Zenon
  <2> QED BY <2>1, <2>3, <2>4, <2>5 DEF Walk, Lines
<1>17. CASE current_test
  BY <1>11, <1>12, <1>13, <1>14, <1>15, <1>16, <1>17, Zenon DEF current_test, MapArgs
<1> QED
  BY <1>4, <1>5, <1>6, <1>8, <1>9, <1>10, <1>17 DEF Next
--------------------------------------------------------------------------------
(* itoa's buffer *)

LEMMA MinIs ==
    ASSUME NEW S, S \subseteq Nat, S # {}
    PROVE  Min(S) \in S /\ \A y \in S : Min(S) <= y
<1>1. \E x \in S : \A y \in S : x <= y
  BY LeastElement, Zenon
<1>2. Min(S) = CHOOSE x \in S : \A y \in S : x <= y
  BY Zenon DEF Min
<1> QED BY <1>1, <1>2, Zenon

LEMMA MaxIs ==
    ASSUME NEW n \in Nat, NEW S, S \subseteq 0 .. n, S # {}
    PROVE  Max(S) \in S /\ \A y \in S : Max(S) >= y
<1> DEFINE T == {m \in Nat : n - m \in S}
<1>1. T \subseteq Nat /\ T # {}
  <2>1. PICK y \in S : TRUE
    OBVIOUS
  <2>2. n - y \in Nat /\ n - (n - y) \in S
    BY <2>1
  <2> QED BY <2>2
<1>2. PICK m \in T : \A z \in T : m <= z
  <2> HIDE DEF T
  <2> QED BY <1>1, LeastElement, Zenon
<1>3. ASSUME NEW y \in S PROVE n - m >= y
  <2>1. n - y \in Nat /\ n - (n - y) = y
    OBVIOUS
  <2>2. m <= n - y /\ m \in Nat
    BY <1>2, <2>1
  <2> QED BY <2>2
<1>4. n - m \in S
  BY <1>2
<1>5. Max(S) = CHOOSE x \in S : \A y \in S : x >= y
  BY Zenon DEF Max
<1> DEFINE x == n - m
<1>6. x \in S /\ \A y \in S : x >= y
  BY <1>3, <1>4
<1> HIDE DEF x, T
<1> QED BY <1>5, <1>6, Zenon

Buffers == {b \in [1 .. INT_DIGITS + 2 -> Digits \cup {"-", NUL}] : b[INT_DIGITS + 2] = NUL}

(* c is b after handlers stored numbers of no more than so many digits.         *)
Overwritten(b, c, damage) ==
    /\ c \in Buffers
    /\ \A j \in 1 .. INT_DIGITS + 1 :
        /\ b[Cell(j)] # NUL => c[Cell(j)] # NUL
        /\ j > damage => c[Cell(j)] = b[Cell(j)]

(* A handler's numbers are not negative.                                        *)
Counts == 0 .. Word \div 2 - 1

LEMMA CellIs ==
    /\ INT_DIGITS \in Nat
    /\ \A j \in 1 .. INT_DIGITS + 1 : Cell(j) \in 1 .. INT_DIGITS + 1 /\ Cell(Cell(j)) = j
    /\ \A c \in 1 .. INT_DIGITS + 1 : Cell(c) \in 1 .. INT_DIGITS + 1
    /\ Cell(INT_DIGITS + 2) = 0
BY SizesAre DEF Cell

(* No character is the NUL.                                                     *)
LEMMA NoNul == \A c \in Digits \cup {"-"} : c # NUL
BY HexIs DEF Digits

LEMMA CountLength ==
    ASSUME NEW n \in Counts
    PROVE  /\ itoa(n) \in Seq(Digits \cup {"-"})
           /\ Len(itoa(n)) \in 1 .. INT_DIGITS
<1>1. n \in Ints /\ n \in Nat
  BY SizesAre DEF Counts, Ints
<1>2. ItoaText(n, itoa(n), Rounds(n, 10, 1))
  BY <1>1, ItoaIs
<1> DEFINE s == itoa(n) R == Rounds(n, 10, 1)
<1> HIDE DEF s, R
<1>3. /\ s \in Seq(Digits \cup {"-"}) /\ R \in 1 .. INT_DIGITS
      /\ Len(s) = R + (IF n < 0 THEN 1 ELSE 0)
  BY <1>2 DEF ItoaText, s, R
<1>4. Len(s) \in 1 .. INT_DIGITS
  BY <1>1, <1>3, SizesAre
<1> QED BY <1>3, <1>4 DEF s

LEMMA StoredIs ==
    ASSUME NEW b \in Buffers, NEW n \in Counts, NEW damage \in Nat, Len(itoa(n)) <= damage
    PROVE  Overwritten(b, Stored(b, n), damage)
<1> DEFINE new == itoa(n)
           c == Stored(b, n)
           D == 1 .. INT_DIGITS + 2
<1>1. new \in Seq(Digits \cup {"-"}) /\ Len(new) \in 1 .. INT_DIGITS /\ Len(new) <= damage
  BY CountLength
<1>2. DOMAIN new = 1 .. Len(new) /\ \A k \in DOMAIN new : new[k] \in Digits \cup {"-"}
  BY <1>1
<1>3. DOMAIN b = D /\ \A x \in D : b[x] \in Digits \cup {"-", NUL}
  BY DEF Buffers
<1>4. b[INT_DIGITS + 2] = NUL
  BY DEF Buffers
<1>5. c = [x \in D |-> IF Cell(x) \in DOMAIN new THEN new[Cell(x)] ELSE b[x]]
  BY <1>3, Zenon DEF Stored
<1> HIDE DEF new, c
<1>6. \A x \in D : c[x] = IF Cell(x) \in DOMAIN new THEN new[Cell(x)] ELSE b[x]
  BY <1>5
<1>7. c \in [D -> Digits \cup {"-", NUL}]
  BY <1>2, <1>3, <1>5
<1>8. c[INT_DIGITS + 2] = NUL
  <2>1. INT_DIGITS + 2 \in D /\ 0 \notin DOMAIN new
    BY <1>1, <1>2, SizesAre
  <2>2. Cell(INT_DIGITS + 2) \notin DOMAIN new
    BY <2>1, CellIs
  <2> QED BY <1>4, <1>6, <2>1, <2>2, Zenon
<1>9. ASSUME NEW j \in 1 .. INT_DIGITS + 1
      PROVE  /\ b[Cell(j)] # NUL => c[Cell(j)] # NUL
             /\ j > damage => c[Cell(j)] = b[Cell(j)]
  <2>1. Cell(j) \in D /\ Cell(Cell(j)) = j
    BY CellIs
  <2>2. c[Cell(j)] = IF j \in DOMAIN new THEN new[j] ELSE b[Cell(j)]
    BY <1>6, <2>1, Zenon
  <2>3. j > damage => j \notin DOMAIN new
    BY <1>1, <1>2
  <2>4. j \in DOMAIN new => new[j] # NUL
    BY <1>2, NoNul
  <2> QED BY <2>2, <2>3, <2>4, Zenon
<1>10. c \in Buffers
  BY <1>7, <1>8 DEF Buffers
<1> QED BY <1>9, <1>10, Zenon DEF Overwritten, c

TracedRule(b, trace, f) ==
    f = [k \in 0 .. Len(trace) |-> IF k = 0 THEN b ELSE Stored(f[k - 1], trace[k])]

LEMMA TracedRuleIs ==
    ASSUME NEW b, NEW trace, NEW f, Len(trace) \in Nat
    PROVE  TracedRule(b, trace, f) <=>
              /\ f = [k \in 0 .. Len(trace) |-> f[k]]
              /\ \A k \in 0 .. Len(trace) :
                    f[k] = IF k = 0 THEN b ELSE Stored(f[k - 1], trace[k])
<1> DEFINE v(k) == IF k = 0 THEN b ELSE Stored(f[k - 1], trace[k])
           N == Len(trace)
<1>1. ASSUME f = [k \in 0 .. N |-> v(k)]
      PROVE  f = [k \in 0 .. N |-> f[k]] /\ \A k \in 0 .. N : f[k] = v(k)
  <2> HIDE DEF v, N
  <2> QED BY <1>1
<1>2. ASSUME f = [k \in 0 .. N |-> f[k]], \A k \in 0 .. N : f[k] = v(k)
      PROVE  f = [k \in 0 .. N |-> v(k)]
  <2> HIDE DEF v, N
  <2>1. [k \in 0 .. N |-> f[k]] = [k \in 0 .. N |-> v(k)]
    BY <1>2
  <2> QED BY <1>2, <2>1, Zenon
<1> QED BY <1>1, <1>2, Zenon DEF TracedRule

LEMMA TracedRuleExists ==
    ASSUME NEW b \in Buffers, NEW trace \in Seq(Counts)
    PROVE  \E f : TracedRule(b, trace, f)
<1> DEFINE N == Len(trace)
           step(k) == [s \in Buffers |-> IF k \in 1 .. N THEN Stored(s, trace[k]) ELSE s]
           next == [k \in Nat |-> step(k)]
<1>1. N \in Nat /\ \A k \in 1 .. N : trace[k] \in Counts
  OBVIOUS
<1>2. ASSUME NEW k \in 1 .. N, NEW s \in Buffers PROVE Stored(s, trace[k]) \in Buffers
  <2>1. trace[k] \in Counts /\ Len(itoa(trace[k])) \in Nat
        /\ Len(itoa(trace[k])) <= Len(itoa(trace[k]))
    BY <1>1, CountLength
  <2> QED BY <2>1, StoredIs, Zenon DEF Overwritten
<1> HIDE DEF N
<1>3. next \in [Nat -> [Buffers -> Buffers]]
  <2>1. ASSUME NEW k \in Nat PROVE step(k) \in [Buffers -> Buffers]
    <3>1. ASSUME NEW s \in Buffers
          PROVE  (IF k \in 1 .. N THEN Stored(s, trace[k]) ELSE s) \in Buffers
      BY <1>2
    <3> QED BY <3>1
  <2> HIDE DEF step
  <2> QED BY <2>1
<1>4. ASSUME NEW k \in 1 .. N, NEW s \in Buffers PROVE next[k][s] = Stored(s, trace[k])
  <2>1. next[k] = step(k)
    <3>1. k \in Nat
      BY <1>1
    <3> HIDE DEF step
    <3> QED BY <3>1
  <2>2. step(k)[s] = Stored(s, trace[k])
    OBVIOUS
  <2> QED BY <2>1, <2>2, Zenon
<1> HIDE DEF next
<1>5. PICK f : Iterates(N, Buffers, b, next, f)
  BY <1>1, <1>3, IteratesExist, Zenon
<1>6. /\ f \in [0 .. N -> Buffers] /\ f[0] = b
      /\ \A k \in 1 .. N : f[k] = next[k][f[k - 1]]
  BY <1>5 DEF Iterates
<1>7. ASSUME NEW k \in 0 .. N
      PROVE  f[k] = IF k = 0 THEN b ELSE Stored(f[k - 1], trace[k])
  <2>1. CASE k # 0
    <3>1. k \in 1 .. N /\ k - 1 \in 0 .. N
      BY <1>1, <2>1
    <3>2. f[k - 1] \in Buffers
      BY <1>6, <3>1
    <3> QED BY <1>4, <1>6, <2>1, <3>1, <3>2, Zenon
  <2> QED BY <1>6, <2>1
<1>8. f = [k \in 0 .. N |-> f[k]]
  BY <1>6
<1>9. TracedRule(b, trace, f)
  BY <1>1, <1>7, <1>8, TracedRuleIs, Zenon DEF N
<1> QED BY <1>9

LEMMA TracedIs ==
    ASSUME NEW b \in Buffers, NEW trace \in Seq(Counts), NEW damage \in Nat,
           \A k \in DOMAIN trace : Len(itoa(trace[k])) <= damage
    PROVE  Overwritten(b, Traced(b, trace), damage)
<1> DEFINE f == CHOOSE g : TracedRule(b, trace, g)
           N == Len(trace)
<1>1. TracedRule(b, trace, f)
  BY TracedRuleExists, Zenon
<1>2. Traced(b, trace) = f[N]
  BY Zenon DEF Traced, TracedRule
<1>3. N \in Nat /\ \A k \in 1 .. N : trace[k] \in Counts /\ Len(itoa(trace[k])) <= damage
  OBVIOUS
<1> HIDE DEF f
<1>4. \A k \in 0 .. N : f[k] = IF k = 0 THEN b ELSE Stored(f[k - 1], trace[k])
  <2>1. Len(trace) \in Nat
    OBVIOUS
  <2>2. \A k \in 0 .. Len(trace) : f[k] = IF k = 0 THEN b ELSE Stored(f[k - 1], trace[k])
    BY <1>1, <2>1, TracedRuleIs
  <2> QED BY <2>2, Zenon
<1> HIDE DEF N
<1> DEFINE T == {k \in Nat : k <= N => Overwritten(b, f[k], damage)}
<1>5. 0 \in T
  <2>1. f[0] = b
    BY <1>3, <1>4
  <2>2. Overwritten(b, b, damage)
    BY DEF Overwritten
  <2> QED BY <2>1, <2>2
<1>6. ASSUME NEW k \in Nat, k \in T PROVE k + 1 \in T
  <2>1. SUFFICES ASSUME k + 1 <= N PROVE Overwritten(b, f[k + 1], damage)
    OBVIOUS
  <2>2. k + 1 \in 1 .. N /\ k + 1 \in 0 .. N /\ k + 1 # 0 /\ (k + 1) - 1 = k /\ k <= N
    BY <1>3, <2>1
  <2>3. Overwritten(b, f[k], damage)
    BY <1>6, <2>2
  <2>4. f[k + 1] = Stored(f[k], trace[k + 1])
    BY <1>4, <2>2, Zenon
  <2>5. f[k] \in Buffers
    BY <2>3 DEF Overwritten
  <2>6. Overwritten(f[k], f[k + 1], damage)
    BY <1>3, <2>2, <2>4, <2>5, StoredIs, Zenon
  <2> QED BY <2>3, <2>6, Zenon DEF Overwritten
<1>7. \A k \in Nat : k \in T
  <2> HIDE DEF T
  <2> QED BY <1>5, <1>6, Induction, Zenon
<1>8. Overwritten(b, f[N], damage)
  <2>1. N <= N
    BY <1>3
  <2> QED BY <1>3, <1>7, <2>1
<1> QED BY <1>2, <1>8, Zenon DEF N
--------------------------------------------------------------------------------
(* Calls of printf *)

(* Where the directives are.                                                    *)
At(f) == {k \in 1 .. Len(f) - 1 : f[k] = "%" /\ f[k + 1] \in {"c", "s", "d", "x"}}

(* Which argument each of them takes.                                           *)
Uses(f, args, use) ==
    /\ use \in [At(f) -> 1 .. Len(args)]
    /\ \A k \in At(f), m \in At(f) : k < m => use[k] < use[m]

LEMMA TakesIs ==
    ASSUME NEW c, NEW kinds, NEW S
    PROVE  Takes(c, kinds, S) <=>
              /\ c.format \in Seq(Chars)
              /\ \A k \in At(c.format) : c.format[k + 1] \in kinds
              /\ c.args \in Seq(S)
              /\ \E use : Uses(c.format, c.args, use)
BY Zenon DEF Takes, At, Uses

(* What is left from the n-th character on.                                     *)
LEMMA AtRest ==
    ASSUME NEW f \in Seq(Chars), NEW n \in 1 .. Len(f) + 1
    PROVE  LET r == SubSeq(f, n, Len(f))
           IN  /\ r \in Seq(Chars)
               /\ \A k \in At(r) : /\ k + n - 1 \in At(f) /\ k \in Nat /\ k >= 1
                                   /\ r[k + 1] = f[(k + n - 1) + 1]
<1> DEFINE L == Len(f)
           r == SubSeq(f, n, L)
<1>1. L \in Nat /\ n \in Nat /\ n >= 1 /\ n <= L + 1
  OBVIOUS
<1>2. r \in Seq(Chars) /\ Len(r) = L - n + 1 /\ \A k \in 1 .. L - n + 1 : r[k] = f[n + k - 1]
  <2>1. \A k \in n .. L : f[k] \in Chars
    BY <1>1
  <2> QED BY <1>1, <2>1
<1> HIDE DEF L, r
<1>3. ASSUME NEW k \in At(r)
      PROVE  /\ k + n - 1 \in At(f) /\ k \in Nat /\ k >= 1
             /\ r[k + 1] = f[(k + n - 1) + 1]
  <2>1. /\ k \in 1 .. Len(r) - 1 /\ r[k] = "%" /\ r[k + 1] \in {"c", "s", "d", "x"}
    BY DEF At
  <2> DEFINE m == k + n - 1
  <2>2. /\ k \in 1 .. L - n + 1 /\ k + 1 \in 1 .. L - n + 1 /\ k \in Nat /\ k >= 1
        /\ m \in 1 .. L - 1 /\ n + k - 1 = m /\ n + (k + 1) - 1 = m + 1
    BY <1>1, <1>2, <2>1
  <2>3. r[k] = f[n + k - 1] /\ r[k + 1] = f[n + (k + 1) - 1]
    BY <1>2, <2>2
  <2> HIDE DEF m
  <2>4. m \in At(f)
    BY <2>1, <2>2, <2>3 DEF At, L
  <2> QED BY <2>2, <2>3, <2>4 DEF m
<1> QED BY <1>2, <1>3, Zenon DEF r, L

LEMMA TakesRest ==
    ASSUME NEW c, NEW kinds, NEW S, Takes(c, kinds, S), NEW n \in 1 .. Len(c.format) + 1
    PROVE  Takes([format |-> SubSeq(c.format, n, Len(c.format)), args |-> c.args], kinds, S)
<1> DEFINE f == c.format
           r == SubSeq(f, n, Len(f))
           d == [format |-> r, args |-> c.args]
<1>1. /\ f \in Seq(Chars) /\ c.args \in Seq(S)
      /\ \A k \in At(f) : f[k + 1] \in kinds
      /\ \E use : Uses(f, c.args, use)
  BY TakesIs, Zenon
<1>2. PICK use : Uses(f, c.args, use)
  BY <1>1, Zenon
<1> HIDE DEF f
<1>3. n \in 1 .. Len(f) + 1
  BY DEF f
<1>4. /\ r \in Seq(Chars)
      /\ \A k \in At(r) : /\ k + n - 1 \in At(f) /\ k \in Nat /\ k >= 1
                          /\ r[k + 1] = f[(k + n - 1) + 1]
  BY <1>1, <1>3, AtRest, Zenon
<1> HIDE DEF r
<1> DEFINE use2 == [k \in At(r) |-> use[k + n - 1]]
<1>5. /\ use \in [At(f) -> 1 .. Len(c.args)]
      /\ \A k \in At(f), m \in At(f) : k < m => use[k] < use[m]
  BY <1>2 DEF Uses
<1>6. use2 \in [At(r) -> 1 .. Len(c.args)]
  <2>1. ASSUME NEW k \in At(r) PROVE use[k + n - 1] \in 1 .. Len(c.args)
    BY <1>4, <1>5
  <2> QED BY <2>1
<1>7. ASSUME NEW k \in At(r), NEW m \in At(r), k < m PROVE use2[k] < use2[m]
  <2>1. k \in Nat /\ m \in Nat /\ n \in Nat /\ k + n - 1 \in At(f) /\ m + n - 1 \in At(f)
    BY <1>3, <1>4
  <2>2. k + n - 1 < m + n - 1
    BY <1>7, <2>1
  <2>3. use[k + n - 1] < use[m + n - 1]
    BY <1>5, <2>1, <2>2, Zenon
  <2>4. use2[k] = use[k + n - 1] /\ use2[m] = use[m + n - 1]
    OBVIOUS
  <2> QED BY <2>3, <2>4, Zenon
<1>8. Uses(r, c.args, use2)
  BY <1>6, <1>7, Zenon DEF Uses
<1>9. \A k \in At(r) : r[k + 1] \in kinds
  BY <1>1, <1>4, Zenon
<1>10. d.format = r /\ d.args = c.args
  OBVIOUS
<1> HIDE DEF d
<1>11. Takes(d, kinds, S)
  BY <1>1, <1>4, <1>8, <1>9, <1>10, TakesIs, Zenon
<1> QED BY <1>11, Zenon DEF d, r, f

(* The first directive's argument is there, and is of its kind.                 *)
LEMMA TakesFirst ==
    ASSUME NEW c, NEW kinds, NEW S, Takes(c, kinds, S),
           Len(c.format) > 1, c.format[1] = "%", c.format[2] \in {"c", "s", "d", "x"}
    PROVE  /\ c.format[2] \in kinds
           /\ Head(c.args) \in S
           /\ Takes([format |-> SubSeq(c.format, 3, Len(c.format)), args |-> Tail(c.args)],
                    kinds, S)
<1> DEFINE f == c.format
           a == c.args
           t == Tail(a)
           r == SubSeq(f, 3, Len(f))
           d == [format |-> r, args |-> t]
<1>1. /\ f \in Seq(Chars) /\ a \in Seq(S)
      /\ \A k \in At(f) : f[k + 1] \in kinds
      /\ \E use : Uses(f, a, use)
  BY TakesIs, Zenon
<1>2. PICK use : Uses(f, a, use)
  BY <1>1, Zenon
<1>3. Len(f) > 1 /\ f[1] = "%" /\ f[2] \in {"c", "s", "d", "x"}
  OBVIOUS
<1> HIDE DEF f, a
<1>4. 1 \in At(f) /\ 3 \in 1 .. Len(f) + 1 /\ 1 + 1 = 2
  BY <1>1, <1>3 DEF At
<1>5. /\ use \in [At(f) -> 1 .. Len(a)]
      /\ \A k \in At(f), m \in At(f) : k < m => use[k] < use[m]
  BY <1>2 DEF Uses
<1>6. use[1] \in 1 .. Len(a) /\ Len(a) \in Nat
  BY <1>1, <1>4, <1>5
<1>7. a # <<>> /\ Len(a) >= 1
  BY <1>1, <1>6
<1>8. Head(a) \in S /\ t \in Seq(S) /\ Len(t) = Len(a) - 1
  BY <1>1, <1>7
<1>9. /\ r \in Seq(Chars)
      /\ \A k \in At(r) : /\ k + 3 - 1 \in At(f) /\ k \in Nat /\ k >= 1
                          /\ r[k + 1] = f[(k + 3 - 1) + 1]
  BY <1>1, <1>4, AtRest, Zenon
<1> HIDE DEF r, t
<1> DEFINE use2 == [k \in At(r) |-> use[k + 3 - 1] - 1]
<1>10. ASSUME NEW k \in At(r)
       PROVE  use[k + 3 - 1] \in 2 .. Len(a) /\ use2[k] = use[k + 3 - 1] - 1
  <2>1. 1 < k + 3 - 1 /\ k + 3 - 1 \in At(f)
    BY <1>9
  <2>2. use[1] < use[k + 3 - 1]
    BY <1>4, <1>5, <2>1, Zenon
  <2>3. use[k + 3 - 1] \in 1 .. Len(a)
    BY <1>5, <2>1
  <2>4. use2[k] = use[k + 3 - 1] - 1
    OBVIOUS
  <2> HIDE DEF use2
  <2> QED BY <1>6, <2>2, <2>3, <2>4
<1>11. use2 \in [At(r) -> 1 .. Len(t)]
  <2>1. ASSUME NEW k \in At(r) PROVE use[k + 3 - 1] - 1 \in 1 .. Len(t)
    BY <1>6, <1>8, <1>10
  <2> QED BY <2>1
<1>12. ASSUME NEW k \in At(r), NEW m \in At(r), k < m PROVE use2[k] < use2[m]
  <2>1. k \in Nat /\ m \in Nat /\ k + 3 - 1 \in At(f) /\ m + 3 - 1 \in At(f)
    BY <1>9
  <2>2. k + 3 - 1 < m + 3 - 1
    BY <1>12, <2>1
  <2>3. use[k + 3 - 1] < use[m + 3 - 1]
    BY <1>5, <2>1, <2>2, Zenon
  <2> HIDE DEF use2
  <2> QED BY <1>6, <1>10, <2>3
<1> HIDE DEF use2
<1>13. Uses(r, t, use2)
  BY <1>11, <1>12, Zenon DEF Uses
<1>14. \A k \in At(r) : r[k + 1] \in kinds
  BY <1>1, <1>9, Zenon
<1>15. d.format = r /\ d.args = t
  OBVIOUS
<1> HIDE DEF d
<1>16. Takes(d, kinds, S)
  BY <1>8, <1>9, <1>13, <1>14, <1>15, TakesIs, Zenon
<1>17. f[2] \in kinds
  BY <1>1, <1>4, Zenon
<1> QED BY <1>8, <1>16, <1>17, Zenon DEF d, r, t, f, a

ArgSeqs == Seq(Words) \cup Seq(Chars) \cup Seq(Seq(Chars))

CallOK(c) == c \in [format : Seq(Chars), args : ArgSeqs] /\ WellFormed(c)

LEMMA CallRest ==
    ASSUME NEW c, CallOK(c), NEW n \in 1 .. Len(c.format) + 1
    PROVE  CallOK([c EXCEPT !.format = SubSeq(c.format, n, Len(c.format))])
<1> DEFINE r == SubSeq(c.format, n, Len(c.format))
           d == [format |-> r, args |-> c.args]
<1>1. c \in [format : Seq(Chars), args : ArgSeqs] /\ WellFormed(c)
  BY DEF CallOK
<1>2. \A kinds, S : Takes(c, kinds, S) => Takes(d, kinds, S)
  BY TakesRest, Zenon
<1>3. WellFormed(d)
  BY <1>1, <1>2, Zenon DEF WellFormed
<1>4. r \in Seq(Chars)
  <2>1. c.format \in Seq(Chars)
    BY <1>1
  <2> DEFINE f == c.format
  <2> HIDE DEF f
  <2>2. f \in Seq(Chars) /\ n \in 1 .. Len(f) + 1
    BY <2>1 DEF f
  <2>3. SubSeq(f, n, Len(f)) \in Seq(Chars)
    BY <2>2, AtRest, Zenon
  <2> QED BY <2>3, Zenon DEF f
<1> HIDE DEF r
<1>5. [c EXCEPT !.format = r] = d
  BY <1>1
<1>6. d \in [format : Seq(Chars), args : ArgSeqs]
  BY <1>1, <1>4
<1> HIDE DEF d
<1> QED BY <1>3, <1>5, <1>6, Zenon DEF CallOK, r

LEMMA CallFirst ==
    ASSUME NEW c, CallOK(c),
           Len(c.format) > 1, c.format[1] = "%", c.format[2] \in {"c", "s", "d", "x"}
    PROVE  /\ c.format[2] \in {"d", "x"} => Head(c.args) \in Words
           /\ c.format[2] = "c" => Head(c.args) \in Chars
           /\ c.format[2] = "s" => Head(c.args) \in Seq(Chars)
           /\ CallOK([format |-> SubSeq(c.format, 3, Len(c.format)), args |-> Tail(c.args)])
<1> DEFINE d == [format |-> SubSeq(c.format, 3, Len(c.format)), args |-> Tail(c.args)]
           x == c.format[2]
<1>1. \A kinds, S : Takes(c, kinds, S) =>
        x \in kinds /\ Head(c.args) \in S /\ Takes(d, kinds, S)
  BY TakesFirst, Zenon
<1>2. \A kinds, S : Takes(d, kinds, S) => d.format \in Seq(Chars) /\ d.args \in Seq(S)
  BY TakesIs, Zenon
<1> HIDE DEF x
<1>3. d = [format |-> d.format, args |-> d.args]
  OBVIOUS
<1> HIDE DEF d
<1>4. WellFormed(c)
  BY DEF CallOK
<1>5. \A f, a : f \in Seq(Chars) /\ a \in ArgSeqs =>
        [format |-> f, args |-> a] \in [format : Seq(Chars), args : ArgSeqs]
  OBVIOUS
<1>6. CASE Takes(c, {"d", "x"}, Words)
  <2>1. x \in {"d", "x"} /\ Head(c.args) \in Words /\ Takes(d, {"d", "x"}, Words)
    BY <1>1, <1>6, Zenon
  <2>2. d.format \in Seq(Chars) /\ d.args \in ArgSeqs
    BY <1>2, <2>1, Zenon DEF ArgSeqs
  <2>3. CallOK(d)
    BY <1>3, <1>5, <2>1, <2>2, Zenon DEF CallOK, WellFormed
  <2> QED BY <2>1, <2>3 DEF x, d
<1>7. CASE Takes(c, {"c"}, Chars)
  <2>1. x \in {"c"} /\ Head(c.args) \in Chars /\ Takes(d, {"c"}, Chars)
    BY <1>1, <1>7, Zenon
  <2>2. d.format \in Seq(Chars) /\ d.args \in ArgSeqs
    BY <1>2, <2>1, Zenon DEF ArgSeqs
  <2>3. CallOK(d)
    BY <1>3, <1>5, <2>1, <2>2, Zenon DEF CallOK, WellFormed
  <2> QED BY <2>1, <2>3 DEF x, d
<1>8. CASE Takes(c, {"s"}, Seq(Chars))
  <2>1. x \in {"s"} /\ Head(c.args) \in Seq(Chars) /\ Takes(d, {"s"}, Seq(Chars))
    BY <1>1, <1>8, Zenon
  <2>2. d.format \in Seq(Chars) /\ d.args \in ArgSeqs
    BY <1>2, <2>1, Zenon DEF ArgSeqs
  <2>3. CallOK(d)
    BY <1>3, <1>5, <2>1, <2>2, Zenon DEF CallOK, WellFormed
  <2> QED BY <2>1, <2>3 DEF x, d
<1> QED BY <1>4, <1>6, <1>7, <1>8 DEF WellFormed

(* The calls of the program.                                                    *)
LEMMA CallGiven ==
    ASSUME NEW c \in EarlyCalls \cup LateCalls
    PROVE  CallOK([format |-> c.format, args |-> c.args])
<1> DEFINE d == [format |-> c.format, args |-> c.args]
<1>1. WellFormed(c)
  BY CallsAssumption, Zenon
<1>2. d.format = c.format /\ d.args = c.args
  OBVIOUS
<1>3. \A f, a : f \in Seq(Chars) /\ a \in ArgSeqs =>
        [format |-> f, args |-> a] \in [format : Seq(Chars), args : ArgSeqs]
  OBVIOUS
<1>4. \A kinds, S : Takes(c, kinds, S) =>
        c.format \in Seq(Chars) /\ c.args \in Seq(S) /\ Takes(d, kinds, S)
  <2> HIDE DEF d
  <2> QED BY <1>2, TakesIs, Zenon
<1>5. c.format \in Seq(Chars) /\ c.args \in ArgSeqs /\ WellFormed(d)
  BY <1>1, <1>4, Zenon DEF WellFormed, ArgSeqs
<1> QED BY <1>3, <1>5, Zenon DEF CallOK

LEMMA CallMade ==
    ASSUME NEW f \in Seq(Chars), NEW args \in Seq(Words),
           \A k \in At(f) : f[k + 1] \in {"d", "x"},
           NEW use, Uses(f, args, use)
    PROVE  CallOK([format |-> f, args |-> args])
<1> DEFINE d == [format |-> f, args |-> args]
<1>1. d.format = f /\ d.args = args
  OBVIOUS
<1>2. args \in ArgSeqs
  BY Zenon DEF ArgSeqs
<1>3. d \in [format : Seq(Chars), args : ArgSeqs]
  BY <1>2
<1> HIDE DEF d
<1>4. Takes(d, {"d", "x"}, Words)
  BY <1>1, TakesIs, Zenon
<1> QED BY <1>3, <1>4, Zenon DEF CallOK, WellFormed, d

(* A text with a single %d.                                                     *)
LEMMA CallWithNumber ==
    ASSUME NEW a \in Chars, NEW z \in Chars, NEW w \in Words
    PROVE  a # "%" => CallOK([format |-> <<a, "%", "d", z>>, args |-> <<w>>])
<1> DEFINE f == <<a, "%", "d", z>>
           args == <<w>>
<1> SUFFICES ASSUME a # "%" PROVE CallOK([format |-> f, args |-> args])
  OBVIOUS
<1>1. "%" \in Chars /\ "d" \in Chars
  BY SizeAssumption
<1>2. f \in Seq(Chars) /\ args \in Seq(Words) /\ Len(args) = 1
  BY <1>1
<1>3. \A k \in At(f) : k = 2
  <2>1. ASSUME NEW k \in 1 .. 3, f[k] = "%" PROVE k = 2
    BY <2>1
  <2>2. \A k \in At(f) : k \in 1 .. 3 /\ f[k] = "%"
    BY DEF At
  <2> QED BY <2>1, <2>2, Zenon
<1>4. f[2 + 1] = "d"
  OBVIOUS
<1> HIDE DEF f, args
<1> DEFINE use == [k \in At(f) |-> 1]
<1>5. use \in [At(f) -> 1 .. Len(args)]
  BY <1>2
<1>6. \A k \in At(f), m \in At(f) : ~ (k < m)
  BY <1>3
<1> HIDE DEF use
<1>7. Uses(f, args, use)
  BY <1>5, <1>6, Zenon DEF Uses
<1>8. \A k \in At(f) : f[k + 1] \in {"d", "x"}
  BY <1>3, <1>4
<1> QED BY <1>2, <1>7, <1>8, CallMade, Zenon DEF f, args

LEMMA CallNewline == CallOK([format |-> <<"\n">>, args |-> <<>>])
<1> DEFINE f == <<"\n">> args == <<>>
<1>1. f \in Seq(Chars) /\ args \in Seq(Words)
  BY SizeAssumption
<1>2. At(f) = {}
  BY DEF At
<1> HIDE DEF f
<1> DEFINE use == [k \in At(f) |-> 1]
<1>3. Uses(f, args, use)
  BY <1>2 DEF Uses
<1>4. \A k \in At(f) : f[k + 1] \in {"d", "x"}
  BY <1>2
<1> HIDE DEF use, args
<1> QED BY <1>1, <1>3, <1>4, CallMade, Zenon DEF f, args

LEMMA CallMarkers ==
    CallOK([format |-> <<"S", "%", "x", "E", "%", "x", "\n">>, args |-> Markers])
<1> DEFINE f == <<"S", "%", "x", "E", "%", "x", "\n">>
<1>1. f \in Seq(Chars)
  BY SizeAssumption
<1>2. Markers \in Seq(Words) /\ Len(Markers) = 2
  <2>1. Markers \in Words \X Words
    BY CallsAssumption
  <2>2. PICK a \in Words, b \in Words : Markers = <<a, b>>
    BY <2>1
  <2> QED BY <2>2
<1>3. \A k \in At(f) : k \in {2, 5}
  <2>1. ASSUME NEW k \in 1 .. 6, f[k] = "%" PROVE k \in {2, 5}
    BY <2>1
  <2>2. \A k \in At(f) : k \in 1 .. 6 /\ f[k] = "%"
    BY DEF At
  <2> QED BY <2>1, <2>2, Zenon
<1>4. f[2 + 1] = "x" /\ f[5 + 1] = "x"
  OBVIOUS
<1> HIDE DEF f
<1> DEFINE use == [k \in At(f) |-> (k + 1) \div 3]
<1>5. use \in [At(f) -> 1 .. Len(Markers)]
  BY <1>2, <1>3
<1>6. \A k \in At(f), m \in At(f) : k < m => use[k] < use[m]
  BY <1>3
<1> HIDE DEF use
<1>7. Uses(f, Markers, use)
  BY <1>5, <1>6, Zenon DEF Uses
<1>8. \A k \in At(f) : f[k + 1] \in {"d", "x"}
  BY <1>3, <1>4
<1> QED BY <1>1, <1>2, <1>7, <1>8, CallMade, Zenon DEF f

LEMMA CallMapLine ==
    ASSUME NEW args \in Seq(Words), Len(args) = 5
    PROVE  CallOK([format |-> MmapLine, args |-> args])
<1> DEFINE f == MmapLine
<1>1. f \in Seq(Chars)
  <2>1. /\ "M" \in Chars /\ "S" \in Chars /\ "B" \in Chars /\ "L" \in Chars /\ "T" \in Chars
        /\ "%" \in Chars /\ "d" \in Chars /\ "x" \in Chars /\ ":" \in Chars /\ ">" \in Chars
    BY SizeAssumption
  <2> QED BY <2>1 DEF MmapLine
<1>2. Len(f) = 17
  BY DEF MmapLine
<1>3. \A k \in At(f) : k \in {2, 6, 9, 12, 15}
  <2>1. ASSUME NEW k \in 1 .. 16, f[k] = "%" PROVE k \in {2, 6, 9, 12, 15}
    BY <2>1 DEF MmapLine
  <2>2. \A k \in At(f) : k \in 1 .. 16 /\ f[k] = "%"
    BY <1>2 DEF At
  <2> QED BY <2>1, <2>2, Zenon
<1>4. /\ f[2 + 1] = "d" /\ f[6 + 1] = "x" /\ f[9 + 1] = "x" /\ f[12 + 1] = "x"
      /\ f[15 + 1] = "d"
  BY DEF MmapLine
<1> HIDE DEF f
<1> DEFINE use == [k \in At(f) |-> (k + 1) \div 3]
<1>5. use \in [At(f) -> 1 .. Len(args)]
  BY <1>3
<1>6. \A k \in At(f), m \in At(f) : k < m => use[k] < use[m]
  BY <1>3
<1> HIDE DEF use
<1>7. Uses(f, args, use)
  BY <1>5, <1>6, Zenon DEF Uses
<1>8. \A k \in At(f) : f[k + 1] \in {"d", "x"}
  BY <1>3, <1>4
<1> QED BY <1>1, <1>7, <1>8, CallMade, Zenon DEF f
--------------------------------------------------------------------------------
(* A conversion, step by step *)

Conversions ==
    [phase : {"pointer", "length", "print", "written"}, k : Nat, value : Ints, len : Nat]

(* What is stored is terminated and, but for as many of its last characters as  *)
(* handlers overwrote, the number's text; so is what is printed of it.          *)
Conversion(c, s, b, o, damage) ==
    /\ c.k <= IF c.phase = "print" THEN c.len ELSE Len(s)
    /\ \A j \in 1 .. Len(s) : (c.phase = "pointer" => j <= c.k) =>
          /\ b[Cell(j)] # NUL
          /\ j > damage => b[Cell(j)] = s[j]
    /\ c.phase = "print" =>
          /\ c.len = Len(s) /\ c.k <= Len(o)
          /\ \A q \in 1 .. c.k :
                Len(s) + 1 - q > damage => o[Len(o) - c.k + q] = s[Len(s) + 1 - q]

LastRight(l) ==
    /\ l.phase = "d" => DenotesDecimal(l.value, l.text, l.touched)
    /\ l.phase = "x" => DenotesHexadecimal(l.value, l.text)

LEMMA LastRightIs == LastRight(last) => DecimalRight /\ HexadecimalRight
<1>1. LastRight(last) => DecimalRight
  BY Zenon DEF LastRight, DecimalRight, DenotesDecimal
<1>2. LastRight(last) => HexadecimalRight
  BY Zenon DEF LastRight, HexadecimalRight, DenotesHexadecimal
<1> QED BY <1>1, <1>2

Under == conv \in Conversions /\ Conversion(conv, stores, buf, out, touched)

(* The inductive invariant of printf and its callers.                           *)
Printing ==
    /\ buf \in Buffers
    /\ touched \in 0 .. INT_DIGITS
    /\ CallOK(call)
    /\ out \in Seq(Chars)
    /\ conv = Idle \/ Under
    /\ LastRight(last)

LEMMA StoresAre ==
    ASSUME NEW n \in Ints
    PROVE  /\ itoa(n) \in Seq(Digits \cup {"-"})
           /\ Len(itoa(n)) \in 1 .. INT_DIGITS + 1
           /\ ItoaText(n, itoa(n), Rounds(n, 10, 1))
<1> DEFINE s == itoa(n) R == Rounds(n, 10, 1)
<1>1. ItoaText(n, s, R)
  BY ItoaIs
<1> HIDE DEF s, R
<1>2. /\ s \in Seq(Digits \cup {"-"}) /\ R \in 1 .. INT_DIGITS
      /\ Len(s) = R + (IF n < 0 THEN 1 ELSE 0)
  BY <1>1 DEF ItoaText
<1>3. Len(s) \in 1 .. INT_DIGITS + 1
  BY <1>2, SizesAre
<1> QED BY <1>1, <1>2, <1>3, Zenon DEF s, R

(* The conversion's numbers.                                                    *)
LEMMA UnderIs ==
    ASSUME Under
    PROVE  /\ stores \in Seq(Digits \cup {"-"}) /\ Len(stores) \in 1 .. INT_DIGITS + 1
           /\ \A j \in 1 .. Len(stores) :
                /\ j \in 1 .. INT_DIGITS + 1
                /\ stores[j] \in Digits \cup {"-"} /\ stores[j] # NUL
           /\ INT_DIGITS \in Nat /\ Len(stores) \in Nat /\ conv.k \in Nat /\ conv # Idle
<1> DEFINE s == stores
<1>1. conv.value \in Ints /\ conv.k \in Nat /\ conv # Idle
  BY DEF Under, Conversions, Idle
<1>2. s \in Seq(Digits \cup {"-"}) /\ Len(s) \in 1 .. INT_DIGITS + 1
  BY <1>1, StoresAre, Zenon DEF stores
<1> HIDE DEF s
<1>3. INT_DIGITS \in Nat /\ Len(s) \in Nat
  BY <1>2, SizesAre
<1>4. ASSUME NEW j \in 1 .. Len(s)
      PROVE  j \in 1 .. INT_DIGITS + 1 /\ s[j] \in Digits \cup {"-"}
  BY <1>2, <1>3
<1> QED BY <1>1, <1>2, <1>3, <1>4, NoNul, Zenon DEF s

LEMMA StoreStep == Printing /\ Store /\ conv # Idle => Printing'
<1> SUFFICES ASSUME Printing, Store, conv # Idle PROVE Printing'
  OBVIOUS
<1>1. Under /\ buf \in Buffers
  BY DEF Printing
<1> DEFINE s == stores
           k == conv.k
           x == Cell(k + 1)
<1>2. /\ s \in Seq(Digits \cup {"-"}) /\ Len(s) \in 1 .. INT_DIGITS + 1
      /\ \A j \in 1 .. Len(s) : /\ j \in 1 .. INT_DIGITS + 1
                                /\ s[j] \in Digits \cup {"-"} /\ s[j] # NUL
      /\ INT_DIGITS \in Nat /\ Len(s) \in Nat /\ k \in Nat
  BY <1>1, UnderIs
<1>3. conv \in Conversions /\ Conversion(conv, s, buf, out, touched)
  BY <1>1 DEF Under
<1>4. /\ conv.phase \in {"pointer", "length", "written"} /\ k < Len(s)
      /\ buf' = [buf EXCEPT ![x] = s[k + 1]]
      /\ conv' = [conv EXCEPT !.k = k + 1]
      /\ UNCHANGED <<call, out, touched, last>>
  BY DEF Store
<1>5. conv' \in Conversions /\ conv'.k = k + 1 /\ conv'.phase = conv.phase
      /\ conv'.value = conv.value
  <2>1. k + 1 \in Nat
    BY <1>2
  <2> DEFINE new == k + 1
  <2> HIDE DEF new
  <2>2. conv' = [conv EXCEPT !.k = new] /\ conv \in Conversions /\ new \in Nat
    BY <1>3, <1>4, <2>1 DEF new
  <2>3. /\ conv' \in Conversions /\ conv'.k = new /\ conv'.phase = conv.phase
        /\ conv'.value = conv.value
    BY <2>2 DEF Conversions
  <2> QED BY <2>3 DEF new
<1>6. stores' = s
  BY <1>5, Zenon DEF stores
<1> HIDE DEF s, k
<1>7. k + 1 \in 1 .. Len(s) /\ k + 1 \in 1 .. INT_DIGITS + 1
  BY <1>2, <1>4
<1>8. x \in 1 .. INT_DIGITS + 1 /\ x # INT_DIGITS + 2
  BY <1>2, <1>7, CellIs
<1>9. /\ buf \in [1 .. INT_DIGITS + 2 -> Digits \cup {"-", NUL}]
      /\ buf[INT_DIGITS + 2] = NUL
  BY <1>1 DEF Buffers
<1>10. /\ buf' \in [1 .. INT_DIGITS + 2 -> Digits \cup {"-", NUL}]
       /\ buf'[INT_DIGITS + 2] = NUL
  <2> HIDE DEF x
  <2>1. s[k + 1] \in Digits \cup {"-", NUL}
    BY <1>2, <1>7
  <2>2. buf' \in [1 .. INT_DIGITS + 2 -> Digits \cup {"-", NUL}]
    BY <1>4, <1>9, <2>1
  <2>3. buf'[INT_DIGITS + 2] = NUL
    BY <1>2, <1>4, <1>8, <1>9
  <2> QED BY <2>2, <2>3
<1>11. ASSUME NEW j \in 1 .. Len(s)
       PROVE  buf'[Cell(j)] = IF j = k + 1 THEN s[k + 1] ELSE buf[Cell(j)]
  <2>1. Cell(j) \in 1 .. INT_DIGITS + 2 /\ (j # k + 1 => Cell(j) # x)
    BY <1>2, <1>7 DEF Cell
  <2> HIDE DEF x
  <2>2. buf'[Cell(j)] = IF Cell(j) = x THEN s[k + 1] ELSE buf[Cell(j)]
    BY <1>4, <1>9, <2>1
  <2>3. j = k + 1 => Cell(j) = x
    BY Zenon DEF x
  <2> QED BY <2>1, <2>2, <2>3
<1>12. Conversion(conv', s, buf', out', touched')
  <2>1. conv'.phase # "print" /\ conv'.k <= Len(s)
    BY <1>2, <1>4, <1>5
  <2>2. ASSUME NEW j \in 1 .. Len(s), conv'.phase = "pointer" => j <= conv'.k
        PROVE  buf'[Cell(j)] # NUL /\ (j > touched' => buf'[Cell(j)] = s[j])
    <3>1. CASE j = k + 1
      BY <1>2, <1>11, <3>1
    <3>2. CASE j # k + 1
      <4>1. conv.phase = "pointer" => j <= k
        BY <1>2, <1>5, <2>2, <3>2
      <4>2. buf[Cell(j)] # NUL /\ (j > touched => buf[Cell(j)] = s[j])
        BY <1>3, <4>1, Zenon DEF Conversion, k
      <4> QED BY <1>4, <1>11, <3>2, <4>2
    <3> QED BY <3>1, <3>2
  <2> QED BY <2>1, <2>2, Zenon DEF Conversion
<1>13. Under'
  BY <1>5, <1>6, <1>12, Zenon DEF Under
<1>14. buf' \in Buffers
  BY <1>10 DEF Buffers
<1>15. /\ touched' \in 0 .. INT_DIGITS /\ CallOK(call') /\ out' \in Seq(Chars)
       /\ LastRight(last')
  BY <1>4, Zenon DEF Printing
<1> QED BY <1>13, <1>14, <1>15, Zenon DEF Printing

(* Nothing but the phase changes when all is stored.                            *)
LEMMA PointerStep == Printing /\ Pointer /\ conv # Idle => Printing'
<1> SUFFICES ASSUME Printing, Pointer, conv # Idle PROVE Printing'
  OBVIOUS
<1>1. Under
  BY DEF Printing
<1> DEFINE s == stores
<1>2. Len(s) \in Nat /\ conv.k \in Nat
  BY <1>1, UnderIs
<1>3. conv \in Conversions /\ Conversion(conv, s, buf, out, touched)
  BY <1>1 DEF Under
<1>4. /\ conv.phase = "pointer" /\ conv.k = Len(s)
      /\ conv' = [conv EXCEPT !.phase = "length", !.k = 0]
      /\ UNCHANGED <<call, buf, out, touched, last>>
  BY DEF Pointer, Finished
<1>5. /\ conv' \in Conversions /\ conv'.k = 0 /\ conv'.phase = "length"
      /\ conv'.value = conv.value
  BY <1>3, <1>4 DEF Conversions
<1>6. stores' = s
  BY <1>5, Zenon DEF stores
<1> HIDE DEF s
<1>7. \A j \in 1 .. Len(s) : buf[Cell(j)] # NUL /\ (j > touched => buf[Cell(j)] = s[j])
  <2>1. \A j \in 1 .. Len(s) : j <= conv.k
    BY <1>2, <1>4
  <2> QED BY <1>3, <2>1, Zenon DEF Conversion
<1>8. Conversion(conv', s, buf', out', touched')
  <2>1. conv'.phase # "print" /\ conv'.k <= Len(s)
    BY <1>2, <1>5
  <2> QED BY <1>4, <1>7, <2>1, Zenon DEF Conversion
<1>9. Under'
  BY <1>5, <1>6, <1>8, Zenon DEF Under
<1>10. /\ buf' \in Buffers /\ touched' \in 0 .. INT_DIGITS /\ CallOK(call')
       /\ out' \in Seq(Chars) /\ LastRight(last')
  BY <1>4, Zenon DEF Printing
<1> QED BY <1>9, <1>10, Zenon DEF Printing

(* strlen finds the NUL behind the digits, whoever stored them.                 *)
LEMMA StrlenIs ==
    ASSUME NEW b \in Buffers, NEW l \in 1 .. INT_DIGITS + 1,
           \A j \in 1 .. l : b[Cell(j)] # NUL
    PROVE  strlen(b, Cell(l)) = l
<1> DEFINE S == {c \in Cell(l) .. Len(b) : b[c] = NUL}
           n == INT_DIGITS + 2
<1>1. n \in Nat /\ l \in Nat /\ Cell(l) = n - l /\ Cell(l) \in Nat /\ Cell(l) <= n
  BY SizesAre DEF Cell
<1>2. b \in [1 .. n -> Digits \cup {"-", NUL}] /\ b[n] = NUL
  BY DEF Buffers
<1>3. \A j \in Int : Cell(j) = n - j
  BY SizesAre DEF Cell
<1> HIDE DEF n
<1>4. Len(b) = n
  <2>1. b \in Seq(Digits \cup {"-", NUL}) /\ DOMAIN b = 1 .. n
    BY <1>1, <1>2
  <2> QED BY <1>1, <2>1
<1>5. S \subseteq Nat /\ n \in S
  BY <1>1, <1>2, <1>4
<1>6. \A c \in S : c = n
  <2>1. ASSUME NEW c \in S, c # n PROVE FALSE
    <3>1. c \in Cell(l) .. n /\ b[c] = NUL
      BY <1>4
    <3>2. n - c \in 1 .. l /\ Cell(n - c) = c
      <4>1. c \in Nat /\ c >= n - l /\ c < n
        BY <1>1, <2>1, <3>1
      <4>2. n - c \in 1 .. l /\ n - (n - c) = c
        BY <1>1, <4>1
      <4> QED BY <1>3, <4>2
    <3>3. b[Cell(n - c)] # NUL
      BY <3>2
    <3> QED BY <3>1, <3>2, <3>3
  <2> QED BY <2>1
<1>7. Min(S) = n
  <2> HIDE DEF S
  <2>1. S # {}
    BY <1>5
  <2>2. Min(S) \in S
    BY <1>5, <2>1, MinIs, Zenon
  <2> QED BY <1>6, <2>2
<1>8. strlen(b, Cell(l)) = Min(S) - Cell(l)
  BY Zenon DEF strlen
<1> HIDE DEF S
<1> QED BY <1>1, <1>7, <1>8

LEMMA LengthStep == Printing /\ Length /\ conv # Idle => Printing'
<1> SUFFICES ASSUME Printing, Length, conv # Idle PROVE Printing'
  OBVIOUS
<1>1. Under /\ buf \in Buffers
  BY DEF Printing
<1> DEFINE s == stores
           n == conv.len'
<1>2. Len(s) \in Nat /\ Len(s) \in 1 .. INT_DIGITS + 1 /\ conv.k \in Nat
  BY <1>1, UnderIs
<1>3. conv \in Conversions /\ Conversion(conv, s, buf, out, touched)
  BY <1>1 DEF Under
<1>4. /\ conv.phase = "length" /\ conv.k = Len(s)
      /\ conv' = [conv EXCEPT !.phase = "print", !.k = 0, !.len = strlen(buf, Cell(Len(s)))]
      /\ UNCHANGED <<call, buf, out, touched, last>>
  BY DEF Length, Finished, p
<1>5. \A j \in 1 .. Len(s) : buf[Cell(j)] # NUL /\ (j > touched => buf[Cell(j)] = s[j])
  <2>1. conv.phase # "pointer"
    BY <1>4
  <2> QED BY <1>3, <2>1, Zenon DEF Conversion
<1>6. strlen(buf, Cell(Len(s))) = Len(s)
  BY <1>1, <1>2, <1>5, StrlenIs, Zenon
<1> HIDE DEF s
<1>7. conv' = [conv EXCEPT !.phase = "print", !.k = 0, !.len = Len(s)]
  BY <1>4, <1>6, Zenon
<1>8. /\ conv' \in Conversions /\ conv'.k = 0 /\ conv'.phase = "print"
      /\ conv'.value = conv.value /\ conv'.len = Len(s)
  BY <1>2, <1>3, <1>7 DEF Conversions
<1>9. stores' = s
  BY <1>8, Zenon DEF stores, s
<1>10. out \in Seq(Chars) /\ Len(out) \in Nat
  BY DEF Printing
<1>11. Conversion(conv', s, buf', out', touched')
  <2>1. conv'.k <= conv'.len /\ conv'.k <= Len(out')
    BY <1>2, <1>4, <1>8, <1>10
  <2>2. \A q \in 1 .. conv'.k :
            Len(s) + 1 - q > touched' => out'[Len(out') - conv'.k + q] = s[Len(s) + 1 - q]
    BY <1>8
  <2> QED BY <1>4, <1>5, <1>8, <2>1, <2>2, Zenon DEF Conversion
<1>12. Under'
  BY <1>8, <1>9, <1>11, Zenon DEF Under
<1>13. /\ buf' \in Buffers /\ touched' \in 0 .. INT_DIGITS /\ CallOK(call')
       /\ out' \in Seq(Chars) /\ LastRight(last')
  BY <1>4, Zenon DEF Printing
<1> QED BY <1>12, <1>13, Zenon DEF Printing

LEMMA PrintStep == Printing /\ print /\ conv # Idle => Printing'
<1> SUFFICES ASSUME Printing, print, conv # Idle PROVE Printing'
  OBVIOUS
<1>1. Under /\ buf \in Buffers /\ out \in Seq(Chars) /\ touched \in 0 .. INT_DIGITS
  BY DEF Printing
<1> DEFINE s == stores
           k == conv.k
           l == Len(stores)
           c == Cell(l - k)
<1>2. /\ l \in Nat /\ l \in 1 .. INT_DIGITS + 1 /\ k \in Nat /\ INT_DIGITS \in Nat
  BY <1>1, UnderIs
<1>3. conv \in Conversions /\ Conversion(conv, s, buf, out, touched)
  BY <1>1 DEF Under
<1>4. /\ conv.phase = "print" /\ k < conv.len
      /\ out' = Append(out, buf[p + k])
      /\ conv' = [conv EXCEPT !.k = k + 1]
      /\ UNCHANGED <<call, buf, touched, last>>
  BY DEF print
<1> HIDE DEF s, k, l
<1>5. /\ conv.len = l /\ k <= Len(out)
      /\ \A q \in 1 .. k : l + 1 - q > touched => out[Len(out) - k + q] = s[l + 1 - q]
  BY <1>3, <1>4 DEF Conversion, s, k, l
<1>6. \A j \in 1 .. l : buf[Cell(j)] # NUL /\ (j > touched => buf[Cell(j)] = s[j])
  <2>1. conv.phase # "pointer"
    BY <1>4
  <2> QED BY <1>3, <2>1, Zenon DEF Conversion, l, s
<1>7. l - k \in 1 .. l /\ l - k \in 1 .. INT_DIGITS + 1 /\ l + 1 - (k + 1) = l - k
  BY <1>2, <1>4, <1>5
<1>8. p + k = c
  BY <1>2 DEF p, Cell, l
<1>9. buf[c] # NUL /\ (l - k > touched => buf[c] = s[l - k])
  BY <1>6, <1>7, Zenon
<1>10. buf[c] \in Chars
  <2>1. c \in 1 .. INT_DIGITS + 2
    BY <1>2, <1>7 DEF Cell
  <2> HIDE DEF c
  <2>2. buf[c] \in Digits \cup {"-", NUL}
    BY <1>1, <2>1 DEF Buffers
  <2> QED BY <1>9, <2>2, HexIs DEF Digits
<1> HIDE DEF c
<1>11. out' = Append(out, buf[c])
  BY <1>4, <1>8, Zenon
<1>12. /\ out' \in Seq(Chars) /\ Len(out) \in Nat /\ Len(out') = Len(out) + 1
       /\ out'[Len(out) + 1] = buf[c]
       /\ \A m \in 1 .. Len(out) : out'[m] = out[m]
  BY <1>1, <1>10, <1>11
<1>13. /\ conv' \in Conversions /\ conv'.k = k + 1 /\ conv'.phase = "print"
       /\ conv'.value = conv.value /\ conv'.len = l
  <2> DEFINE new == k + 1
  <2>1. new \in Nat
    BY <1>2
  <2> HIDE DEF new
  <2>2. conv' = [conv EXCEPT !.k = new]
    BY <1>4 DEF new
  <2>3. /\ conv' \in Conversions /\ conv'.k = new /\ conv'.phase = "print"
        /\ conv'.value = conv.value /\ conv'.len = l
    BY <1>3, <1>4, <1>5, <2>1, <2>2 DEF Conversions
  <2> QED BY <2>3 DEF new
<1>14. stores' = s
  BY <1>13, Zenon DEF stores, s
<1>15. k + 1 <= l /\ k + 1 <= Len(out')
  BY <1>2, <1>4, <1>5, <1>12
<1>16. ASSUME NEW q \in 1 .. k + 1, l + 1 - q > touched
       PROVE  out'[Len(out') - (k + 1) + q] = s[l + 1 - q]
  <2>1. CASE q = k + 1
    <3>1. Len(out') - (k + 1) + q = Len(out) + 1
      BY <1>2, <1>12, <2>1
    <3>2. l + 1 - q = l - k /\ l - k > touched
      BY <1>2, <1>16, <2>1
    <3> QED BY <1>9, <1>12, <3>1, <3>2
  <2>2. CASE q # k + 1
    <3>1. q \in 1 .. k /\ Len(out') - (k + 1) + q = Len(out) - k + q
      BY <1>2, <1>12, <2>2
    <3>2. Len(out) - k + q \in 1 .. Len(out)
      BY <1>2, <1>5, <1>12, <3>1
    <3>3. out[Len(out) - k + q] = s[l + 1 - q]
      BY <1>5, <1>16, <3>1
    <3> QED BY <1>12, <3>1, <3>2, <3>3
  <2> QED BY <2>1, <2>2
<1>17. Conversion(conv', s, buf', out', touched')
  <2>1. Len(s) = l
    BY DEF s, l
  <2>2. conv'.phase # "pointer"
    BY <1>13
  <2> QED BY <1>4, <1>6, <1>13, <1>15, <1>16, <2>1, <2>2, Zenon DEF Conversion
<1>18. Under'
  BY <1>13, <1>14, <1>17, Zenon DEF Under
<1>19. buf' \in Buffers /\ touched' \in 0 .. INT_DIGITS /\ CallOK(call') /\ LastRight(last')
  BY <1>4, Zenon DEF Printing
<1> QED BY <1>12, <1>18, <1>19, Zenon DEF Printing

LEMMA PrintedStep == Printing /\ Printed /\ conv # Idle => Printing'
<1> SUFFICES ASSUME Printing, Printed, conv # Idle PROVE Printing'
  OBVIOUS
<1>1. Under /\ out \in Seq(Chars) /\ touched \in 0 .. INT_DIGITS
  BY DEF Printing
<1> DEFINE s == stores
           l == Len(stores)
           text == SubSeq(out, Len(out) - conv.len + 1, Len(out))
<1>2. l \in Nat /\ conv.k \in Nat /\ INT_DIGITS \in Nat
  BY <1>1, UnderIs
<1>3. conv \in Conversions /\ Conversion(conv, s, buf, out, touched)
  BY <1>1 DEF Under
<1>4. /\ conv.phase = "print" /\ conv.k = conv.len
      /\ last' = [phase |-> "d", value |-> conv.value, touched |-> touched, text |-> text]
      /\ conv' = [conv EXCEPT !.phase = "written", !.k = 0]
      /\ UNCHANGED <<call, buf, out, touched>>
  BY DEF Printed
<1> HIDE DEF s, l
<1>5. /\ conv.len = l /\ conv.k <= Len(out)
      /\ \A q \in 1 .. conv.k :
            l + 1 - q > touched => out[Len(out) - conv.k + q] = s[l + 1 - q]
  BY <1>3, <1>4 DEF Conversion, s, l
<1>6. \A j \in 1 .. l : buf[Cell(j)] # NUL /\ (j > touched => buf[Cell(j)] = s[j])
  <2>1. conv.phase # "pointer"
    BY <1>4
  <2> QED BY <1>3, <2>1, Zenon DEF Conversion, l, s
<1>7. l <= Len(out) /\ Len(out) \in Nat
  BY <1>1, <1>4, <1>5
<1>8. /\ text \in Seq(Chars) /\ Len(text) = l
      /\ \A q \in 1 .. l : text[q] = out[Len(out) - l + q]
  <2> DEFINE a == Len(out) - l + 1 z == Len(out)
  <2>1. text = SubSeq(out, a, z)
    BY <1>5
  <2>2. a \in 1 .. z + 1 /\ z \in Nat /\ z - a + 1 = l
    BY <1>2, <1>7
  <2>3. \A m \in 1 .. l : a + m - 1 = z - l + m /\ a + m - 1 \in 1 .. z
    BY <1>2, <1>7
  <2> HIDE DEF a
  <2>4. /\ SubSeq(out, a, z) \in Seq(Chars) /\ Len(SubSeq(out, a, z)) = z - a + 1
        /\ \A m \in 1 .. z - a + 1 : SubSeq(out, a, z)[m] = out[a + m - 1]
    BY <1>1, <2>2
  <2> HIDE DEF text, z
  <2> QED BY <2>1, <2>2, <2>3, <2>4 DEF z
<1> HIDE DEF text
<1>9. conv.value \in Ints /\ ItoaText(conv.value, s, Rounds(conv.value, 10, 1)) /\ Len(s) = l
  <2>1. conv.value \in Ints
    BY <1>3 DEF Conversions
  <2>2. ItoaText(conv.value, s, Rounds(conv.value, 10, 1))
    BY <2>1, StoresAre, Zenon DEF s, stores
  <2> QED BY <2>1, <2>2, Zenon DEF l, s
<1>10. \A q \in 1 .. Len(s) : Len(s) + 1 - q > touched => text[q] = s[Len(s) + 1 - q]
  BY <1>4, <1>5, <1>8, <1>9
<1>11. DenotesDecimal(conv.value, text, touched)
  <2>1. touched \in Nat
    BY <1>1, <1>2
  <2>2. Len(text) = Len(s)
    BY <1>8, <1>9
  <2> QED BY <1>8, <1>9, <1>10, <2>1, <2>2, ItoaDenotes
<1>12. LastRight(last')
  BY <1>4, <1>11 DEF LastRight
<1>13. /\ conv' \in Conversions /\ conv'.k = 0 /\ conv'.phase = "written"
       /\ conv'.value = conv.value
  BY <1>3, <1>4 DEF Conversions
<1>14. stores' = s
  BY <1>13, Zenon DEF stores, s
<1>15. Conversion(conv', s, buf', out', touched')
  <2>1. conv'.phase # "print" /\ conv'.k <= Len(s)
    BY <1>2, <1>9, <1>13
  <2> QED BY <1>4, <1>6, <1>9, <2>1, Zenon DEF Conversion
<1>16. Under'
  BY <1>13, <1>14, <1>15, Zenon DEF Under
<1>17. buf' \in Buffers /\ touched' \in 0 .. INT_DIGITS /\ CallOK(call') /\ out' \in Seq(Chars)
  BY <1>4, Zenon DEF Printing
<1> QED BY <1>12, <1>16, <1>17, Zenon DEF Printing

LEMMA WrittenStep == Printing /\ Written => Printing'
<1> SUFFICES ASSUME Printing, Written PROVE Printing'
  OBVIOUS
<1>1. conv' = Idle /\ touched' = 0 /\ UNCHANGED <<call, buf, out, last>>
  BY DEF Written
<1>2. touched' \in 0 .. INT_DIGITS
  BY <1>1, SizesAre
<1> QED BY <1>1, <1>2, Zenon DEF Printing
--------------------------------------------------------------------------------
(* The other steps of printf *)

(* A step between conversions.                                                  *)
LEMMA Between ==
    ASSUME Printing, conv = Idle, UNCHANGED <<conv, buf>>, touched' \in 0 .. INT_DIGITS,
           CallOK(call'), out' \in Seq(Chars), LastRight(last')
    PROVE  Printing'
BY Zenon DEF Printing

LEMMA TextStep == Printing /\ conv = Idle /\ Text => Printing'
<1> SUFFICES ASSUME Printing, conv = Idle, Text PROVE Printing'
  OBVIOUS
<1> DEFINE first == IF format[1] = "%" THEN 2 ELSE 1
           f == call.format
           N == Len(f)
           S == {k \in first + 1 .. N : f[k] = "%"} \cup {N + 1}
           next == Min(S)
<1>1. CallOK(call) /\ f \in Seq(Chars) /\ out \in Seq(Chars)
  <2>1. CallOK(call) /\ out \in Seq(Chars)
    BY DEF Printing
  <2>2. call.format \in Seq(Chars)
    BY <2>1 DEF CallOK
  <2> QED BY <2>1, <2>2
<1>2. /\ f # <<>> /\ (f[1] = "%" => N > 1)
      /\ out' = out \o SubSeq(f, first, next - 1)
      /\ call' = [call EXCEPT !.format = SubSeq(@, next, Len(@))]
      /\ UNCHANGED <<conv, buf, touched, last>>
  BY DEF Text, Puts, format
<1>3. first = IF f[1] = "%" THEN 2 ELSE 1
  BY DEF format
<1> HIDE DEF f, first
<1>4. N \in Nat /\ N >= 1 /\ first \in {1, 2} /\ first <= N
  BY <1>1, <1>2, <1>3
<1> HIDE DEF N
<1>5. S \subseteq first + 1 .. N + 1 /\ S \subseteq Nat /\ N + 1 \in S
  BY <1>4
<1>6. next \in S
  <2> HIDE DEF S
  <2>1. S # {}
    BY <1>5
  <2> QED BY <1>5, <2>1, MinIs, Zenon
<1>7. next \in first + 1 .. N + 1
  BY <1>5, <1>6
<1> HIDE DEF S, next
<1>8. SubSeq(f, first, next - 1) \in Seq(Chars)
  <2>1. \A k \in first .. next - 1 : f[k] \in Chars
    BY <1>1, <1>4, <1>7 DEF N
  <2> QED BY <1>4, <1>7, <2>1
<1>9. out' \in Seq(Chars)
  BY <1>1, <1>2, <1>8
<1>10. CallOK(call')
  <2>1. next \in 1 .. Len(call.format) + 1
    BY <1>4, <1>7 DEF N, f
  <2>2. call' = [call EXCEPT !.format = SubSeq(call.format, next, Len(call.format))]
    BY <1>2
  <2>3. CallOK([call EXCEPT !.format = SubSeq(call.format, next, Len(call.format))])
    BY <1>1, <2>1, CallRest, Zenon
  <2> QED BY <2>2, <2>3, Zenon
<1>11. touched' \in 0 .. INT_DIGITS /\ LastRight(last')
  BY <1>2, Zenon DEF Printing
<1> QED BY <1>2, <1>9, <1>10, <1>11, Between, Zenon

(* The argument is there, and the rest of the call is well-formed.              *)
LEMMA DirectiveIs ==
    ASSUME Printing, NEW x \in {"c", "s", "d", "x"}, Directive(x)
    PROVE  /\ x \in {"d", "x"} => arg \in Words
           /\ x = "c" => arg \in Chars
           /\ x = "s" => arg \in Seq(Chars)
           /\ CallOK(Consumed)
           /\ out \in Seq(Chars) /\ touched \in 0 .. INT_DIGITS /\ LastRight(last)
<1>1. /\ CallOK(call) /\ out \in Seq(Chars) /\ touched \in 0 .. INT_DIGITS
      /\ LastRight(last)
  BY Zenon DEF Printing
<1>2. Len(call.format) > 1 /\ call.format[1] = "%" /\ call.format[2] = x
  BY Zenon DEF Directive, format
<1>3. call.format[2] \in {"c", "s", "d", "x"}
  BY <1>2
<1>4. /\ call.format[2] \in {"d", "x"} => Head(call.args) \in Words
      /\ call.format[2] = "c" => Head(call.args) \in Chars
      /\ call.format[2] = "s" => Head(call.args) \in Seq(Chars)
      /\ CallOK([format |-> SubSeq(call.format, 3, Len(call.format)), args |-> Tail(call.args)])
  BY <1>1, <1>2, <1>3, CallFirst, Zenon
<1> QED BY <1>1, <1>2, <1>4, Zenon DEF arg, Consumed, format

LEMMA FormatStep == Printing /\ conv = Idle /\ Format => Printing'
<1> SUFFICES ASSUME Printing, conv = Idle, Format PROVE Printing'
  OBVIOUS
<1>1. CASE Text
  BY <1>1, TextStep, Zenon
<1>2. CASE Character
  <2>1. /\ out' = out \o <<arg>> /\ call' = Consumed /\ Directive("c")
        /\ UNCHANGED <<conv, buf, touched, last>>
    BY <1>2 DEF Character, Puts
  <2>2. "c" \in {"c", "s", "d", "x"}
    OBVIOUS
  <2>3. /\ arg \in Chars /\ CallOK(Consumed)
        /\ out \in Seq(Chars) /\ touched \in 0 .. INT_DIGITS /\ LastRight(last)
    BY <2>1, <2>2, DirectiveIs, Zenon
  <2>4. out' \in Seq(Chars)
    BY <2>1, <2>3
  <2> QED BY <2>1, <2>3, <2>4, Between, Zenon
<1>3. CASE String
  <2>1. /\ out' = out \o arg /\ call' = Consumed /\ Directive("s")
        /\ UNCHANGED <<conv, buf, touched, last>>
    BY <1>3 DEF String, Puts
  <2>2. "s" \in {"c", "s", "d", "x"}
    OBVIOUS
  <2>3. /\ arg \in Seq(Chars) /\ CallOK(Consumed)
        /\ out \in Seq(Chars) /\ touched \in 0 .. INT_DIGITS /\ LastRight(last)
    BY <2>1, <2>2, DirectiveIs, Zenon
  <2>4. out' \in Seq(Chars)
    BY <2>1, <2>3
  <2> QED BY <2>1, <2>3, <2>4, Between, Zenon
<1>4. CASE Hexadecimal
  <2> DEFINE text == strrev(hexDigits(Signed(arg)))
  <2>1. /\ out' = out \o text /\ last' = [phase |-> "x", value |-> arg, text |-> text]
        /\ call' = Consumed /\ Directive("x")
        /\ UNCHANGED <<conv, buf, touched>>
    BY <1>4 DEF Hexadecimal, Puts
  <2>2. "x" \in {"c", "s", "d", "x"} /\ "x" \in {"d", "x"}
    OBVIOUS
  <2>3. /\ arg \in Words /\ CallOK(Consumed)
        /\ out \in Seq(Chars) /\ touched \in 0 .. INT_DIGITS
    BY <2>1, <2>2, DirectiveIs, Zenon
  <2>4. text \in Seq(Digits) /\ DenotesHexadecimal(arg, text)
    BY <2>3, HexDenotes, Zenon
  <2> HIDE DEF text
  <2>5. text \in Seq(Chars)
    <3>1. Digits \subseteq Chars
      BY HexIs DEF Digits
    <3> QED BY <2>4, <3>1
  <2>6. out' \in Seq(Chars)
    BY <2>1, <2>3, <2>5
  <2>7. LastRight(last')
    BY <2>1, <2>4 DEF LastRight
  <2> QED BY <2>1, <2>3, <2>6, <2>7, Between, Zenon
<1>5. CASE Decimal
  <2>1. /\ conv' = [phase |-> "pointer", k |-> 0, value |-> Signed(arg), len |-> 0]
        /\ touched' = 0 /\ call' = Consumed /\ Directive("d")
        /\ UNCHANGED <<buf, out, last>>
    BY <1>5 DEF Decimal
  <2>2. "d" \in {"c", "s", "d", "x"} /\ "d" \in {"d", "x"}
    OBVIOUS
  <2>3. /\ arg \in Words /\ CallOK(Consumed) /\ out \in Seq(Chars) /\ LastRight(last)
    BY <2>1, <2>2, DirectiveIs, Zenon
  <2>4. Signed(arg) \in Ints
    BY <2>3, SignedIs
  <2>5. /\ conv' \in Conversions /\ conv'.value = Signed(arg) /\ conv'.k = 0
        /\ conv'.phase = "pointer"
    BY <2>1, <2>4 DEF Conversions
  <2> DEFINE s == itoa(Signed(arg))
  <2>6. Len(s) \in Nat
    BY <2>4, StoresAre, SizesAre
  <2>7. stores' = s
    BY <2>5, Zenon DEF stores
  <2> HIDE DEF s
  <2>8. Conversion(conv', s, buf', out', touched')
    <3>1. /\ conv'.phase = "pointer" /\ conv'.phase # "print" /\ conv'.k <= Len(s)
          /\ \A j \in 1 .. Len(s) : ~ (j <= conv'.k)
      BY <2>5, <2>6
    <3> QED BY <3>1, Zenon DEF Conversion
  <2>9. Under'
    BY <2>5, <2>7, <2>8, Zenon DEF Under
  <2>10. buf' \in Buffers /\ touched' \in 0 .. INT_DIGITS
    BY <2>1, SizesAre DEF Printing
  <2> QED BY <2>1, <2>3, <2>9, <2>10, Zenon DEF Printing
<1>6. CASE Other
  <2>1. /\ out' = out \o call.format /\ call' = [call EXCEPT !.format = <<>>]
        /\ UNCHANGED <<conv, buf, touched, last>>
    BY <1>6 DEF Other, Puts, format
  <2>2. CallOK(call) /\ out \in Seq(Chars) /\ touched \in 0 .. INT_DIGITS /\ LastRight(last)
    BY Zenon DEF Printing
  <2>3. call.format \in Seq(Chars)
    BY <2>2 DEF CallOK
  <2> DEFINE f == call.format
  <2>4. SubSeq(f, Len(f) + 1, Len(f)) = <<>> /\ Len(f) + 1 \in 1 .. Len(f) + 1
    <3> HIDE DEF f
    <3>1. f \in Seq(Chars)
      BY <2>3 DEF f
    <3> QED BY <3>1
  <2>5. CallOK([call EXCEPT !.format = SubSeq(f, Len(f) + 1, Len(f))])
    BY <2>2, <2>4, CallRest, Zenon
  <2>6. CallOK(call')
    BY <2>1, <2>4, <2>5, Zenon
  <2>7. out' \in Seq(Chars)
    BY <2>1, <2>2, <2>3
  <2> QED BY <2>1, <2>2, <2>6, <2>7, Between, Zenon
<1> QED BY <1>1, <1>2, <1>3, <1>4, <1>5, <1>6 DEF Format

LEMMA ConvertingStep == Printing /\ conv # Idle /\ Converting => Printing'
BY StoreStep, PointerStep, LengthStep, PrintStep, PrintedStep, WrittenStep, Zenon
   DEF Converting

(* Handlers overwrite as much as the longest of their numbers.                  *)
LEMMA InterruptStep == Printing /\ Interrupt => Printing'
<1> SUFFICES ASSUME Printing, Interrupt PROVE Printing'
  OBVIOUS
<1>1. PICK trace \in Traces :
        /\ buf' = Traced(buf, trace)
        /\ touched' = IF conv = Idle THEN 0
                      ELSE Max({touched} \cup {Len(itoa(trace[k])) : k \in DOMAIN trace})
  BY DEF Interrupt
<1>2. UNCHANGED <<call, conv, out, last>>
  BY DEF Interrupt
<1>3. /\ buf \in Buffers /\ touched \in 0 .. INT_DIGITS
      /\ CallOK(call') /\ out' \in Seq(Chars) /\ LastRight(last')
      /\ (conv = Idle \/ Under)
  BY <1>2, Zenon DEF Printing
<1>4. trace \in Seq(Counts)
  BY CallsAssumption DEF Counts
<1> DEFINE S == {touched} \cup {Len(itoa(trace[k])) : k \in DOMAIN trace}
           damage == Max(S)
<1>5. ASSUME NEW k \in DOMAIN trace PROVE Len(itoa(trace[k])) \in 1 .. INT_DIGITS
  <2>1. trace[k] \in Counts
    BY <1>4
  <2> QED BY <2>1, CountLength, Zenon
<1>6. INT_DIGITS \in Nat
  BY SizesAre
<1>7. S \subseteq 0 .. INT_DIGITS /\ touched \in S
      /\ \A k \in DOMAIN trace : Len(itoa(trace[k])) \in S
  <2>1. ASSUME NEW k \in DOMAIN trace PROVE Len(itoa(trace[k])) \in 0 .. INT_DIGITS
    BY <1>5, <1>6
  <2> QED BY <1>3, <2>1
<1>8. damage \in S /\ \A y \in S : damage >= y
  <2> HIDE DEF S
  <2>1. S # {}
    BY <1>7
  <2> QED BY <1>6, <1>7, <2>1, MaxIs, Zenon
<1>9. damage \in 0 .. INT_DIGITS /\ damage >= touched
      /\ \A k \in DOMAIN trace : damage >= Len(itoa(trace[k]))
  <2> HIDE DEF S
  <2> QED BY <1>7, <1>8
<1> HIDE DEF damage
<1>10. \A k \in DOMAIN trace : Len(itoa(trace[k])) <= damage
  BY <1>5, <1>6, <1>9
<1>11. Overwritten(buf, buf', damage)
  <2>1. damage \in Nat
    BY <1>6, <1>9
  <2>2. Overwritten(buf, Traced(buf, trace), damage)
    BY <1>3, <1>4, <1>10, <2>1, TracedIs, Zenon
  <2> QED BY <1>1, <2>2, Zenon
<1>12. /\ buf' \in Buffers
       /\ \A j \in 1 .. INT_DIGITS + 1 :
            /\ buf[Cell(j)] # NUL => buf'[Cell(j)] # NUL
            /\ j > damage => buf'[Cell(j)] = buf[Cell(j)]
  BY <1>11 DEF Overwritten
<1>13. CASE conv = Idle
  <2>1. touched' \in 0 .. INT_DIGITS /\ conv' = Idle
    BY <1>1, <1>2, <1>6, <1>13
  <2> QED BY <1>3, <1>12, <2>1, Zenon DEF Printing
<1>14. CASE conv # Idle /\ Under
  <2> DEFINE s == stores
  <2>1. touched' = damage
    BY <1>1, <1>14, Zenon DEF damage, S
  <2>2. /\ Len(s) \in Nat
        /\ \A j \in 1 .. Len(s) : j \in 1 .. INT_DIGITS + 1
    BY <1>14, UnderIs, Zenon
  <2>3. conv' = conv /\ stores' = s /\ out' = out
    BY <1>2 DEF stores
  <2>4. conv \in Conversions /\ Conversion(conv, s, buf, out, touched)
    BY <1>14 DEF Under
  <2> HIDE DEF s
  <2>5. \A j \in Int : j > damage => j > touched
    BY <1>3, <1>6, <1>9
  <2>6. ASSUME NEW j \in 1 .. Len(s), conv.phase = "pointer" => j <= conv.k
        PROVE  buf'[Cell(j)] # NUL /\ (j > damage => buf'[Cell(j)] = s[j])
    <3>1. buf[Cell(j)] # NUL /\ (j > touched => buf[Cell(j)] = s[j])
      BY <2>4, <2>6, Zenon DEF Conversion
    <3>2. j \in 1 .. INT_DIGITS + 1 /\ j \in Int
      BY <2>2
    <3> QED BY <1>12, <2>5, <3>1, <3>2, Zenon
  <2>7. /\ conv.k <= IF conv.phase = "print" THEN conv.len ELSE Len(s)
        /\ conv.phase = "print" => conv.len = Len(s) /\ conv.k <= Len(out)
    BY <2>4, Zenon DEF Conversion
  <2>8. ASSUME conv.phase = "print", NEW q \in 1 .. conv.k, Len(s) + 1 - q > damage
        PROVE  out[Len(out) - conv.k + q] = s[Len(s) + 1 - q]
    <3>1. Len(s) + 1 - q \in Int
      BY <2>2
    <3>2. Len(s) + 1 - q > touched
      BY <2>5, <2>8, <3>1, Zenon
    <3> QED BY <2>4, <2>8, <3>2, Zenon DEF Conversion
  <2>9. Conversion(conv, s, buf', out, damage)
    BY <2>6, <2>7, <2>8, Zenon DEF Conversion
  <2>10. Under'
    BY <2>1, <2>3, <2>4, <2>9, Zenon DEF Under
  <2> QED BY <1>3, <1>9, <1>12, <2>1, <2>10, Zenon DEF Printing
<1> QED BY <1>3, <1>13, <1>14
--------------------------------------------------------------------------------
(* The callers, and the theorems *)

LEMMA PrintingInit == Init => Printing
<1> SUFFICES ASSUME Init PROVE Printing
  OBVIOUS
<1>1. /\ call = NoCall /\ conv = Idle /\ out = <<>> /\ touched = 0 /\ last = Idle
      /\ buf = [c \in 1 .. INT_DIGITS + 2 |-> NUL]
  BY DEF Init
<1>2. buf \in Buffers
  <2>1. buf \in [1 .. INT_DIGITS + 2 -> Digits \cup {"-", NUL}]
    BY <1>1
  <2>2. INT_DIGITS + 2 \in 1 .. INT_DIGITS + 2
    BY SizesAre
  <2>3. buf[INT_DIGITS + 2] = NUL
    BY <1>1, <2>2
  <2> QED BY <2>1, <2>3 DEF Buffers
<1>3. touched \in 0 .. INT_DIGITS /\ out \in Seq(Chars)
  BY <1>1, SizesAre
<1>4. CallOK(call)
  <2> DEFINE f == <<>> args == <<>> use == [k \in At(f) |-> 1]
  <2>1. f \in Seq(Chars) /\ args \in Seq(Words) /\ At(f) = {}
    BY DEF At
  <2>2. Uses(f, args, use)
    BY <2>1 DEF Uses
  <2>3. \A k \in At(f) : f[k + 1] \in {"d", "x"}
    BY <2>1
  <2> HIDE DEF f, args, use
  <2>4. CallOK([format |-> f, args |-> args])
    BY <2>1, <2>2, <2>3, CallMade, Zenon
  <2> QED BY <1>1, <2>4, Zenon DEF NoCall, f, args
<1>5. LastRight(last)
  BY <1>1 DEF LastRight, Idle
<1> QED BY <1>1, <1>2, <1>3, <1>4, <1>5, Zenon DEF Printing

LEMMA CallsStep ==
    ASSUME Printing, Returned, NEW f, NEW args, Calls(f, args),
           CallOK([format |-> f, args |-> args])
    PROVE  Printing'
<1>1. /\ call' = [format |-> f, args |-> args] /\ out' = <<>>
      /\ UNCHANGED <<conv, buf, touched, last>>
  BY DEF Calls
<1>2. conv = Idle /\ out' \in Seq(Chars)
  BY <1>1 DEF Returned
<1>3. touched \in 0 .. INT_DIGITS /\ LastRight(last)
  BY Zenon DEF Printing
<1> QED BY <1>1, <1>2, <1>3, Between, Zenon

LEMMA QuietStep == Printing /\ Quiet => Printing'
<1> SUFFICES ASSUME Printing, Quiet PROVE Printing'
  OBVIOUS
<1>1. UNCHANGED <<call, conv, buf, out, touched, last>>
  BY DEF Quiet
<1>2. Under => Under'
  BY <1>1, Zenon DEF Under, stores
<1> QED BY <1>1, <1>2, Zenon DEF Printing

(* The number of entries that is announced fits in a word.                      *)
LEMMA EntriesAnnounced ==
    ASSUME Walk, line = 74
    PROVE  mmap_length \div size \in Words
<1> DEFINE m == mbi.mmap e == Ends(m) N == Len(m) l == Len(m[1])
<1>1. mbi \in Infos /\ i = 0 /\ 6 \in mbi.flags
  BY DEF Walk
<1>2. m # <<>> /\ m \in Seq(Seq(Words))
  BY <1>1, InfosAssumption
<1>3. MapWellFormed(m, memory, e)
  BY <1>1, MapIs DEF memory
<1>4. N \in Nat /\ N > 0 /\ i < N
  <2> HIDE DEF m
  <2> QED BY <1>1, <1>2
<1>5. size = m[1][1]
  <2>1. Field(0) = m[i + 1][0 + 1]
    BY <1>4, FieldIs
  <2>2. i + 1 = 1 /\ 0 + 1 = 1
    BY <1>1
  <2> QED BY <2>1, <2>2, Zenon DEF size
<1> HIDE DEF m, e
<1>6. 1 \in 1 .. N
  BY <1>4
<1>7. l \in Nat /\ l >= 6 /\ m[1][1] = 4 * (l - 1)
  BY <1>3, <1>6, Zenon DEF MapWellFormed
<1>8. Len(memory) \in Nat /\ 4 * Len(memory) < Word
  BY <1>3 DEF MapWellFormed
<1> HIDE DEF l
<1>9. size \in Nat \ {0} /\ mmap_length \in Nat /\ mmap_length < Word
  BY <1>5, <1>7, <1>8 DEF mmap_length
<1>10. mmap_length \div size \in Nat /\ mmap_length \div size <= mmap_length
  <2> DEFINE a == mmap_length b == size q == a \div b r == a % b
  <2>1. q \in Nat /\ r \in 0 .. b - 1 /\ a = b * q + r
    BY <1>9, Division, Zenon
  <2> HIDE DEF q, r
  <2>2. b * q >= q
    BY <1>9, <2>1
  <2>3. b * q \in Nat /\ r \in Nat
    BY <1>9, <2>1
  <2>4. q <= a
    BY <2>1, <2>2, <2>3
  <2> QED BY <2>1, <2>4 DEF q
<1>11. Word \in Nat
  BY SizesAre
<1> QED BY <1>9, <1>10, <1>11 DEF Words

LEMMA PrintingStep == Walk /\ Printing /\ [Next]_vars => Printing'
<1> SUFFICES ASSUME Walk, Printing, [Next]_vars PROVE Printing'
  OBVIOUS
<1>1. CASE UNCHANGED vars
  BY <1>1, QuietStep DEF vars, Quiet
<1>2. CASE printf \/ serial_printf
  <2>1. IF conv = Idle THEN Format ELSE Converting
    BY <1>2 DEF printf, serial_printf, Step
  <2> QED BY <2>1, FormatStep, ConvertingStep, Zenon
<1>3. CASE Interrupt
  BY <1>3, InterruptStep, Zenon
<1>4. ASSUME NEW c \in EarlyCalls \cup LateCalls, Returned, Calls(c.format, c.args)
      PROVE  Printing'
  BY <1>4, CallGiven, CallsStep, Zenon
<1>5. CASE kernel_early
  <2>1. CASE \E c \in EarlyCalls : Says(42, 44, c.format, c.args)
    <3>1. PICK c \in EarlyCalls : Returned /\ Calls(c.format, c.args)
      BY <2>1, Zenon DEF Says, Goto
    <3>2. c \in EarlyCalls \cup LateCalls
      OBVIOUS
    <3> QED BY <1>4, <3>1, <3>2, Zenon
  <2> QED BY <1>5, <2>1, QuietStep, Zenon DEF kernel_early
<1>6. CASE kernel_main
  BY <1>6, CallMarkers, CallsStep, Zenon DEF kernel_main, Says, Goto
<1>7. CASE shell_key
  <2>1. PICK c \in LateCalls : Returned /\ Calls(c.format, c.args)
    BY <1>7, Zenon DEF shell_key, Says, Goto
  <2>2. c \in EarlyCalls \cup LateCalls
    OBVIOUS
  <2> QED BY <1>4, <2>1, <2>2, Zenon
<1>8. mbi \in Infos
  BY DEF Walk
<1>9. mbi.mem_lower \in Words /\ mbi.mem_upper \in Words
  BY <1>8, InfosAssumption
<1>10. /\ "L" \in Chars /\ "U" \in Chars /\ "K" \in Chars /\ "F" \in Chars /\ "\n" \in Chars
       /\ "L" # "%" /\ "U" # "%" /\ "F" # "%"
  BY SizeAssumption
<1>11. CASE Says(68, 69, <<"L", "%", "d", "K">>, <<mbi.mem_lower>>)
  BY <1>9, <1>10, <1>11, CallWithNumber, CallsStep, Zenon DEF Says, Goto
<1>12. CASE Says(69, 70, <<"U", "%", "d", "K">>, <<mbi.mem_upper>>)
  BY <1>9, <1>10, <1>12, CallWithNumber, CallsStep, Zenon DEF Says, Goto
<1>13. CASE Says(70, 72, <<"\n">>, <<>>)
  BY <1>13, CallNewline, CallsStep, Zenon DEF Says, Goto
<1>14. CASE Says(74, 78, <<"F", "%", "d", "\n">>, <<mmap_length \div size>>)
  <2>1. line = 74
    BY <1>14 DEF Says, Goto
  <2>2. mmap_length \div size \in Words
    BY <2>1, EntriesAnnounced
  <2> QED BY <1>10, <1>14, <2>2, CallWithNumber, CallsStep, Zenon DEF Says, Goto
<1>15. CASE Goto(80, 85) /\ Calls(MmapLine, MapArgs)
  <2>1. line = 80 /\ Returned
    BY <1>15 DEF Goto
  <2>2. i < Len(mbi.mmap)
    BY <2>1 DEF Walk
  <2>3. MapArgs \in Seq(Words) /\ Len(MapArgs) = 5
    BY <2>2, MapArgsAre
  <2> QED BY <1>15, <2>1, <2>3, CallMapLine, CallsStep, Zenon
<1>16. CASE Quiet
  BY <1>16, QuietStep, Zenon
<1>17. CASE current_test
  BY <1>11, <1>12, <1>13, <1>14, <1>15, <1>16, <1>17, Zenon DEF current_test, Flag, MapArgs
<1> QED BY <1>1, <1>2, <1>3, <1>5, <1>6, <1>7, <1>17 DEF Next

LEMMA Invariants == Spec => [](Walk /\ Printing)
<1>1. Init => Walk /\ Printing
  BY WalkInit, PrintingInit
<1>2. (Walk /\ Printing) /\ [Next]_vars => (Walk /\ Printing)'
  BY WalkStep, PrintingStep
<1> QED BY <1>1, <1>2, PTL DEF Spec

(* itoa's text stays in its buffer and the terminating NUL behind it, for every *)
(* size of the machine's words, whatever handlers store in between.             *)
THEOREM TypeCorrect == Spec => []TypeOK
<1>1. Walk /\ Printing => TypeOK
  <2> SUFFICES ASSUME Walk, Printing PROVE TypeOK
    OBVIOUS
  <2>1. mbi \in Infos /\ line \in Lines /\ i \in 0 .. Len(mbi.mmap) /\ mm = 4 * Ends(mbi.mmap)[i]
    BY DEF Walk
  <2>2. line \in 42 .. 85
    BY <2>1 DEF Lines
  <2> DEFINE N == Len(mbi.mmap) e == Ends(mbi.mmap)
  <2>3. N \in Nat /\ e \in [0 .. N -> Nat]
    BY <2>1, MapIs DEF MapWellFormed, Flattened
  <2> HIDE DEF N, e
  <2>4. i \in 0 .. N /\ mm = 4 * e[i]
    BY <2>1 DEF N, e
  <2>5. i \in Nat /\ mm \in Nat
    BY <2>3, <2>4
  <2>6. buf \in Buffers /\ touched \in 0 .. INT_DIGITS
    BY DEF Printing
  <2>7. /\ buf \in [1 .. INT_DIGITS + 2 -> ToSet(hex) \cup {"-", NUL}]
        /\ buf[INT_DIGITS + 2] = NUL
    BY <2>6 DEF Buffers, Digits
  <2> QED BY <2>1, <2>2, <2>5, <2>6, <2>7, Zenon DEF TypeOK
<1> QED BY <1>1, Invariants, PTL

(* printf's %d: the digits, the sign and the length of what it prints are the   *)
(* number's but for what handlers can overwrite, for words of every size.       *)
THEOREM DecimalsRight == Spec => []DecimalRight
<1>1. Printing => DecimalRight
  BY LastRightIs, Zenon DEF Printing
<1> QED BY <1>1, Invariants, PTL

(* printf's %x: what it prints denotes the word, for words of every size.       *)
THEOREM HexadecimalsRight == Spec => []HexadecimalRight
<1>1. Printing => HexadecimalRight
  BY LastRightIs, Zenon DEF Printing
<1> QED BY <1>1, Invariants, PTL

(* current_test lists every memory map whose entries are led by their sizes     *)
(* entry by entry, and ends with the last.                                      *)
THEOREM EntriesRight == Spec => []EntriesListed
<1>1. Walk => EntriesListed
  <2> SUFFICES ASSUME Walk PROVE EntriesListed
    OBVIOUS
  <2> DEFINE N == Len(mbi.mmap)
  <2>1. /\ mbi \in Infos /\ i \in 0 .. N /\ listed \in Seq(Seq(Words))
        /\ Len(listed) = IF line = 85 THEN i + 1 ELSE i
        /\ line = 85 => i < N
        /\ line = 61 /\ 6 \in mbi.flags => i = N
        /\ \A k \in 1 .. Len(listed) : Shows(listed[k], k, mbi.mmap[k])
    BY DEF Walk
  <2>2. N \in Nat
    BY <2>1, MapIs DEF MapWellFormed
  <2> HIDE DEF N
  <2>3. Len(listed) <= N /\ (line = 61 /\ 6 \in mbi.flags => Len(listed) = N)
    BY <2>1, <2>2
  <2>4. DOMAIN listed = 1 .. Len(listed)
    BY <2>1
  <2>5. \A k \in DOMAIN listed : Shows(listed[k], k, mbi.mmap[k])
    BY <2>1, <2>4, Zenon
  <2> QED BY <2>3, <2>5, Zenon DEF EntriesListed, Shows, N
<1> QED BY <1>1, Invariants, PTL
================================================================================
