----------------------------- MODULE GrindProofs ----------------------------
(***************************************************************************)
(* What an attempt rests on, for every input: the arithmetic of Bounds,    *)
(* that tiles partition the rows, that buffers which outlive an attempt    *)
(* hold the next one, that the pattern declared is the one the kernel      *)
(* folds by, and that the proofs of the leaves shown verify, in trees of   *)
(* any number of leaves. Algorithms checks the same below its bounds.      *)
(*                                                                         *)
(* First what this and the proofs of KernelProofs and AttemptProofs rest   *)
(* on: induction, recursion, division.                                     *)
(***************************************************************************)
EXTENDS Buffers, KernelChoice, FiniteSetTheorems, SequenceTheorems, WellFoundedInduction, TLAPS

-----------------------------------------------------------------------------
(* Induction without an operator to instantiate: of the numbers that break *)
(* a claim, if there are any, one is the least.  From it follows that a    *)
(* function defined by recursion on a number meets its equation.           *)
LEMMA LeastNatural ==
  ASSUME NEW S \in SUBSET Nat, S # {}
  PROVE  \E m \in S : \A k \in S : m <= k
<1>1. PICK R : R = OpToRel(<, Nat)
  OBVIOUS
<1>2. IsWellFoundedOn(R, Nat)
  BY <1>1, NatLessThanWellFounded, Zenon
<1>3. \A x, y \in Nat : x < y => <<x, y>> \in R
  BY <1>1 DEF OpToRel
<1>4. PICK m \in S : \A y \in S : ~ (<<y, m>> \in R)
  BY <1>2, WFMin
<1>5. ASSUME NEW k \in S PROVE m <= k
  <2>1. m \in Nat /\ k \in Nat
    OBVIOUS
  <2>2. ~(k < m)
    BY <1>3, <1>4, <2>1
  <2> QED BY <2>1, <2>2
<1> QED BY <1>5

(* Induction: a set that has 0 and, with every number, the next one.       *)
LEMMA Induction ==
  ASSUME NEW S \in SUBSET Nat, 0 \in S, \A n \in S : n + 1 \in S
  PROVE  S = Nat
<1> SUFFICES ASSUME Nat \ S # {} PROVE FALSE
  OBVIOUS
<1>1. PICK m \in Nat \ S : \A k \in Nat \ S : m <= k
  BY LeastNatural
<1>2. m - 1 \in S
  BY <1>1
<1>3. m - 1 + 1 = m
  BY <1>1
<1> QED BY <1>1, <1>2, <1>3

(* The same up to a number.                                                *)
LEMMA InductionTo ==
  ASSUME NEW n \in Nat, NEW S, 0 \in S, \A i \in 0..n - 1 : i \in S => i + 1 \in S
  PROVE  \A i \in 0..n : i \in S
<1> DEFINE T == {i \in Nat : i <= n => i \in S}
<1>1. 0 \in T
  OBVIOUS
<1>2. ASSUME NEW i \in T PROVE i + 1 \in T
  OBVIOUS
<1>3. T \in SUBSET Nat
  OBVIOUS
<1> HIDE DEF T
<1>4. T = Nat
  BY <1>1, <1>2, <1>3, Induction
<1>5. ASSUME NEW i \in 0..n PROVE i \in S
  <2>1. i \in T
    BY <1>4
  <2> QED BY <2>1 DEF T
<1> QED BY <1>5

-----------------------------------------------------------------------------
(* Primitive recursion up to n: F[i] makes the next value, of S, of the    *)
(* one before it; f goes on by F.                                          *)
Steps(F, n, S)   == \A i \in 1..n : \A s \in S : F[i][s] \in S
Follows(f, F, n) == \A i \in 1..n : f[i] = F[i][f[i - 1]]

LEMMA Recursion ==
  ASSUME NEW n \in Nat, NEW S, NEW a \in S, NEW F, Steps(F, n, S)
  PROVE  \E f \in [0..n -> S] : f[0] = a /\ Follows(f, F, n)
<1> DEFINE T == {m \in 0..n : \E f \in [0..m -> S] : f[0] = a /\ Follows(f, F, m)}
<1>1. 0 \in T
  <2>1. [i \in 0..0 |-> a] \in [0..0 -> S]
    OBVIOUS
  <2>2. Follows([i \in 0..0 |-> a], F, 0)
    BY DEF Follows
  <2>3. [i \in 0..0 |-> a][0] = a
    OBVIOUS
  <2> QED BY <2>1, <2>2, <2>3
<1>2. ASSUME NEW m \in 0..n - 1, m \in T PROVE m + 1 \in T
  <2>1. PICK g \in [0..m -> S] : g[0] = a /\ Follows(g, F, m)
    BY <1>2
  <2> DEFINE f == [i \in 0..m + 1 |-> IF i = m + 1 THEN F[m + 1][g[m]] ELSE g[i]]
  <2>2. \A i \in 0..m : f[i] = g[i] /\ g[i] \in S
    BY <2>1
  <2>3. f[m + 1] = F[m + 1][g[m]] /\ f[m + 1] \in S
    BY <2>1 DEF Steps
  <2>4. f \in [0..m + 1 -> S]
    BY <2>2, <2>3
  <2> HIDE DEF f
  <2>5. ASSUME NEW i \in 1..m + 1 PROVE f[i] = F[i][f[i - 1]]
    <3>1. CASE i = m + 1
      <4>1. i - 1 = m /\ m \in 0..m
        BY <3>1
      <4> QED BY <3>1, <2>2, <2>3, <4>1
    <3>2. CASE i # m + 1
      <4>1. i \in 1..m /\ i - 1 \in 0..m /\ i \in 0..m
        BY <3>2
      <4> QED BY <4>1, <2>1, <2>2 DEF Follows
    <3> QED BY <3>1, <3>2
  <2>6. f[0] = a
    BY <2>1, <2>2
  <2>7. m + 1 \in 0..n /\ Follows(f, F, m + 1)
    BY <2>5 DEF Follows
  <2> QED BY <2>4, <2>6, <2>7
<1> HIDE DEF T
<1>3. n \in T
  BY <1>1, <1>2, InductionTo
<1> QED BY <1>3 DEF T

(* Two functions that go on by the same F from the same start are the same *)
(* as far as both do.                                                      *)
LEMMA RecursionUnique ==
  ASSUME NEW n \in Nat, NEW F, NEW f, NEW g, f[0] = g[0], Follows(f, F, n), Follows(g, F, n)
  PROVE  \A i \in 0..n : f[i] = g[i]
<1> DEFINE T == {i \in 0..n : f[i] = g[i]}
<1>1. 0 \in T
  OBVIOUS
<1>2. ASSUME NEW i \in 0..n - 1, i \in T PROVE i + 1 \in T
  <2>1. i + 1 \in 1..n /\ i + 1 - 1 = i /\ i + 1 \in 0..n
    OBVIOUS
  <2> QED BY <1>2, <2>1 DEF Follows
<1> HIDE DEF T
<1>3. \A i \in 0..n : i \in T
  BY <1>1, <1>2, InductionTo
<1> QED BY <1>3 DEF T

(* Without an end: the values up to any number are those of a function.    *)
LEMMA RecursionOnNat ==
  ASSUME NEW S, NEW a \in S, NEW F, \A n \in Nat : Steps(F, n, S)
  PROVE  \E f \in [Nat -> S] : f[0] = a /\ \A n \in Nat : Follows(f, F, n)
<1> DEFINE Meets(g, m) == g \in [0..m -> S] /\ g[0] = a /\ Follows(g, F, m)
           G == [m \in Nat |-> CHOOSE g : Meets(g, m)]
           f == [m \in Nat |-> G[m][m]]
<1>1. ASSUME NEW m \in Nat PROVE Meets(G[m], m)
  <2>1. PICK g \in [0..m -> S] : g[0] = a /\ Follows(g, F, m)
    BY Recursion
  <2>2. Meets(g, m)
    BY <2>1
  <2> QED BY <2>2, Zenon
<1> HIDE DEF G
<1>2. f \in [Nat -> S] /\ f[0] = a
  BY <1>1
<1>3. ASSUME NEW n \in Nat, NEW i \in 1..n PROVE f[i] = F[i][f[i - 1]]
  <2>1. PICK p \in Nat : i = p + 1
    OBVIOUS
  <2>2. PICK g, h : g = G[p] /\ h = G[i]
    OBVIOUS
  <2>3. g[0] = h[0] /\ Follows(g, F, p) /\ Follows(h, F, i)
    BY <1>1, <2>1, <2>2
  <2>4. Follows(h, F, p)
    BY <2>1, <2>3 DEF Follows
  <2>5. g[p] = h[p]
    BY <2>3, <2>4, RecursionUnique
  <2>6. h[i] = F[i][h[p]]
    BY <2>1, <2>3 DEF Follows
  <2>7. f[i] = h[i] /\ f[i - 1] = g[p]
    BY <2>1, <2>2
  <2> QED BY <2>5, <2>6, <2>7
<1> HIDE DEF f
<1>4. \A n \in Nat : Follows(f, F, n)
  BY <1>3 DEF Follows
<1> QED BY <1>2, <1>4

-----------------------------------------------------------------------------
(* Division.                                                               *)

LEMMA Division ==
  ASSUME NEW x \in Nat, NEW p \in Nat \ {0}
  PROVE  x \div p \in Nat /\ x % p \in 0..p - 1 /\ x = p * (x \div p) + (x % p)
OBVIOUS

LEMMA Monotone ==
  ASSUME NEW p \in Nat \ {0}, NEW a \in Nat, NEW b \in Nat
  PROVE  (a <= b => p * a <= p * b) /\ (a < b => p * a + p <= p * b)
<1>1. PICK c \in Int : c = b - a
  OBVIOUS
<1>2. p * c = p * b - p * a
  BY <1>1
<1>3. (c >= 0 => p * c >= 0) /\ (c >= 1 => p * c >= p)
  OBVIOUS
<1> QED BY <1>1, <1>2, <1>3

(* Whoever finds a quotient and a remainder has found the ones.            *)
LEMMA DivisionIs ==
  ASSUME NEW p \in Nat \ {0}, NEW q \in Nat, NEW r \in 0..p - 1, NEW x, x = p * q + r
  PROVE  x \in Nat /\ x \div p = q /\ x % p = r
<1>1. PICK d, s : d = x \div p /\ s = x % p
  OBVIOUS
<1>2. p * q \in Nat /\ x \in Nat
  OBVIOUS
<1>3. d \in Nat /\ s \in 0..p - 1 /\ x = p * d + s
  BY <1>1, <1>2, Division
<1>4. p * d \in Nat
  BY <1>3
<1>5. ~(d < q) /\ ~(q < d)
  <2>1. d < q => p * d + p <= p * q
    BY <1>3, Monotone
  <2>2. q < d => p * q + p <= p * d
    BY <1>3, Monotone
  <2> QED BY <1>2, <1>3, <1>4, <2>1, <2>2
<1>6. d = q
  BY <1>3, <1>5
<1>7. p * q = p * d
  BY <1>6
<1>8. s = r
  BY <1>2, <1>3, <1>4, <1>7
<1> QED BY <1>1, <1>2, <1>6, <1>8

LEMMA MultipleOf ==
  ASSUME NEW q \in Nat, NEW p \in Nat \ {0}
  PROVE  p * q \in Nat /\ (p * q) % p = 0 /\ (p * q) \div p = q
<1>1. 0 \in 0..p - 1 /\ p * q \in Nat /\ p * q = p * q + 0
  OBVIOUS
<1> QED BY <1>1, DivisionIs

LEMMA BelowDivisor ==
  ASSUME NEW p \in Nat \ {0}, NEW x \in 0..p - 1
  PROVE  x \div p = 0 /\ x % p = x
<1>1. x = p * 0 + x
  OBVIOUS
<1> QED BY <1>1, DivisionIs

(* Dividing twice.                                                         *)
LEMMA DivideTwice ==
  ASSUME NEW x \in Nat, NEW a \in Nat \ {0}, NEW b \in Nat \ {0}
  PROVE  a * b \in Nat \ {0} /\ x \div (a * b) = (x \div a) \div b
<1>1. PICK q1, r1 : q1 = x \div a /\ r1 = x % a
  OBVIOUS
<1>2. q1 \in Nat /\ r1 \in 0..a - 1 /\ x = a * q1 + r1
  BY <1>1, Division
<1>3. PICK q2, r2 : q2 = q1 \div b /\ r2 = q1 % b
  OBVIOUS
<1>4. q2 \in Nat /\ r2 \in 0..b - 1 /\ q1 = b * q2 + r2
  BY <1>2, <1>3, Division
<1>5. PICK p, r : p = a * b /\ r = a * r2 + r1
  OBVIOUS
<1>6. a * r2 + a <= a * b /\ a * r2 \in Nat /\ a * b \in Nat /\ a <= a * b
  <2>1. a * r2 + a <= a * b
    BY <1>4, Monotone
  <2>2. a * r2 \in Nat /\ a * b \in Nat
    BY <1>4
  <2> QED BY <2>1, <2>2
<1>7. p \in Nat \ {0} /\ r \in 0..p - 1
  BY <1>2, <1>5, <1>6
<1>8. x = p * q2 + r
  <2>1. a * (b * q2 + r2) = a * b * q2 + a * r2
    BY <1>4
  <2> QED BY <1>2, <1>4, <1>5, <2>1
<1>9. x \div p = q2
  BY <1>4, <1>7, <1>8, DivisionIs
<1> QED BY <1>1, <1>3, <1>5, <1>7, <1>9

(* The same as equations, one at a time.                                   *)
LEMMA QuotientIn ==
  ASSUME NEW x \in Nat, NEW p \in Nat \ {0}
  PROVE  x \div p \in Nat
BY Division

LEMMA RemainderIn ==
  ASSUME NEW x \in Nat, NEW p \in Nat \ {0}
  PROVE  x % p \in 0..p - 1
BY Division

LEMMA Recombine ==
  ASSUME NEW x \in Nat, NEW p \in Nat \ {0}
  PROVE  x = p * (x \div p) + (x % p)
BY Division

LEMMA QuotientOf ==
  ASSUME NEW p \in Nat \ {0}, NEW q \in Nat, NEW r \in 0..p - 1
  PROVE  (p * q + r) \div p = q
BY DivisionIs

LEMMA RemainderOf ==
  ASSUME NEW p \in Nat \ {0}, NEW q \in Nat, NEW r \in 0..p - 1
  PROVE  (p * q + r) % p = r
BY DivisionIs

LEMMA DivideByProduct ==
  ASSUME NEW x \in Nat, NEW a \in Nat \ {0}, NEW b \in Nat \ {0}
  PROVE  x \div (a * b) = (x \div a) \div b
BY DivideTwice

(* Dividing by less leaves no less.                                        *)
LEMMA DivideByLess ==
  ASSUME NEW x \in Nat, NEW a \in Nat \ {0}, NEW b \in Nat \ {0}, a <= b
  PROVE  x \div b <= x \div a
<1>1. PICK q, r, s, t : q = x \div a /\ r = x % a /\ s = x \div b /\ t = x % b
  OBVIOUS
<1>2. q \in Nat /\ r \in 0..a - 1 /\ x = a * q + r
  BY <1>1, Division
<1>3. s \in Nat /\ t \in 0..b - 1 /\ x = b * s + t
  BY <1>1, Division
<1>4. ASSUME q < s PROVE FALSE
  <2>1. a * q + a <= a * s
    BY <1>2, <1>3, <1>4, Monotone
  <2>2. s # 0
    BY <1>2, <1>3, <1>4
  <2>3. a * s <= b * s
    <3>1. s * a <= s * b
      BY <1>3, <2>2, Monotone
    <3> QED BY <1>3, <3>1
  <2>4. a * q \in Nat /\ a * s \in Nat /\ b * s \in Nat
    BY <1>2, <1>3
  <2> QED BY <1>2, <1>3, <2>1, <2>3, <2>4
<1> QED BY <1>1, <1>2, <1>3, <1>4


-----------------------------------------------------------------------------
(* The grid.                                                               *)

(* The least multiple that is not below a number.                          *)
LEMMA CeilDivIsLeast ==
  ASSUME NEW a \in Nat, NEW p \in Nat \ {0}
  PROVE  /\ CeilDiv(a, p) \in Nat /\ p * CeilDiv(a, p) >= a
         /\ \A q \in Nat : p * q >= a => q >= CeilDiv(a, p)
<1>1. PICK n, d, r : n = a + p - 1 /\ d = n \div p /\ r = n % p
  OBVIOUS
<1>6. n \in Nat
  BY <1>1
<1>2. n \in Nat /\ d \in Nat /\ r \in 0..p - 1 /\ n = p * d + r
  BY <1>1, <1>6, Division
<1>3. p * d \in Nat /\ p * d >= a
  BY <1>1, <1>2
<1>4. ASSUME NEW q \in Nat, p * q >= a, q < d PROVE FALSE
  <2>1. p * q + p <= p * d /\ p * q \in Nat
    BY <1>2, <1>4, Monotone
  <2> QED BY <1>1, <1>2, <1>3, <1>4, <2>1
<1>5. CeilDiv(a, p) = d
  BY <1>1 DEF CeilDiv
<1> QED BY <1>2, <1>3, <1>4, <1>5

(* The least multiple beyond an index.                                     *)
LEMMA SmallestValidIsLeast ==
  ASSUME NEW a \in Nat, NEW p \in Nat \ {0}
  PROVE  \E s \in Nat : /\ SmallestValid(p, a) = p * s /\ p * s > a
                        /\ \A q \in Nat : p * q > a => q >= s
<1>1. PICK d, r : d = a \div p /\ r = a % p
  OBVIOUS
<1>2. d \in Nat /\ r \in 0..p - 1 /\ a = p * d + r
  BY <1>1, Division
<1>3. p * d \in Nat /\ p * (d + 1) = p * d + p
  BY <1>2
<1>4. p * (d + 1) > a
  BY <1>2, <1>3
<1>5. ASSUME NEW q \in Nat, p * q > a, q <= d PROVE FALSE
  <2>1. p * q <= p * d /\ p * q \in Nat
    BY <1>2, <1>5, Monotone
  <2> QED BY <1>2, <1>3, <1>5, <2>1
<1>6. SmallestValid(p, a) = p * (d + 1)
  BY <1>1, <1>2 DEF SmallestValid
<1>7. \A q \in Nat : p * q > a => q >= d + 1
  BY <1>2, <1>5
<1>8. PICK s \in Nat : s = d + 1
  BY <1>2
<1> QED BY <1>4, <1>6, <1>7, <1>8

-----------------------------------------------------------------------------
(* fit_dim gives the consensus rule what it asks for - a multiple of the   *)
(* period beyond the largest index of the pattern, that the operator's     *)
(* batch fits in - and no larger dimension than that, for every batch and  *)
(* pattern (a period of 0 counts as 1).                                    *)
THEOREM FitDimIsLeastValid ==
  ASSUME NEW target \in Nat, NEW period \in Nat, NEW max_idx \in Nat,
         NEW p, p = IF period = 0 THEN 1 ELSE period
  PROVE  /\ FitDim(target, period, max_idx) \in Nat
         /\ FitDim(target, period, max_idx) % p = 0
         /\ FitDim(target, period, max_idx) > max_idx
         /\ FitDim(target, period, max_idx) >= target
         /\ \A x \in Nat : x % p = 0 /\ x > max_idx /\ x >= target
                             => FitDim(target, period, max_idx) <= x
<1>1. p \in Nat \ {0}
  OBVIOUS
<1>2. PICK s \in Nat : /\ SmallestValid(p, max_idx) = p * s /\ p * s > max_idx
                       /\ \A q \in Nat : p * q > max_idx => q >= s
  BY <1>1, SmallestValidIsLeast
<1>3. PICK c \in Nat : /\ CeilDiv(target, p) = c /\ p * c >= target
                       /\ \A q \in Nat : p * q >= target => q >= c
  BY <1>1, CeilDivIsLeast
<1>4. p * s \in Nat /\ p * c \in Nat /\ c * p = p * c /\ (p * s) % p = 0 /\ (p * c) % p = 0
  BY <1>1, MultipleOf
<1>5. FitDim(target, period, max_idx) = IF p * s >= p * c THEN p * s ELSE p * c
  BY <1>2, <1>3, <1>4 DEF FitDim
<1>6. ASSUME NEW x \in Nat, x % p = 0, x > max_idx, x >= target
      PROVE  p * s <= x /\ p * c <= x
  <2>1. PICK q \in Nat : x = p * q
    <3>1. x \div p \in Nat /\ x = p * (x \div p) + (x % p)
      BY <1>1, Division
    <3>2. PICK q : q = x \div p
      OBVIOUS
    <3>3. q \in Nat /\ x = p * q
      BY <1>1, <1>6, <3>1, <3>2
    <3> QED BY <3>3
  <2>2. s <= q /\ c <= q
    BY <1>2, <1>3, <1>6, <2>1
  <2> QED BY <1>1, <2>1, <2>2, Monotone
<1>7. PICK dim : dim = FitDim(target, period, max_idx)
  OBVIOUS
<1>8. dim \in Nat /\ dim >= p * s /\ dim >= p * c /\ (dim = p * s \/ dim = p * c)
  BY <1>4, <1>5, <1>7
<1>9. dim % p = 0 /\ dim > max_idx /\ dim >= target
  BY <1>2, <1>3, <1>4, <1>8
<1>10. \A x \in Nat : x % p = 0 /\ x > max_idx /\ x >= target => dim <= x
  BY <1>6, <1>8
<1> QED BY <1>7, <1>8, <1>9, <1>10

(* Whatever grid is asked for, it is the least admitted.                   *)
THEOREM FitDimAlwaysLeast ==
  ASSUME input \in DimInputs(Nat)
  PROVE  FitDimIsLeast
<1>1. PICK target \in Nat, period \in Nat, max_idx \in Nat :
         input.target = target /\ input.period = period /\ input.max_idx = max_idx
  BY DEF DimInputs
<1>2. PICK p, dim : p = (IF period = 0 THEN 1 ELSE period) /\ dim = FitDim(target, period, max_idx)
  OBVIOUS
<1>3. /\ dim \in Nat /\ dim % p = 0 /\ dim > max_idx /\ dim >= target
      /\ \A x \in Nat : x % p = 0 /\ x > max_idx /\ x >= target => dim <= x
  BY <1>2, FitDimIsLeastValid
<1>4. \A x \in 0..dim - 1 : ~(x % p = 0 /\ x > max_idx /\ x >= target)
  BY <1>3
<1> QED BY <1>1, <1>2, <1>3, <1>4 DEF FitDimIsLeast

-----------------------------------------------------------------------------
(* Numbers and their digits.                                               *)

LEMMA WeightIs ==
  /\ \A i \in Nat : Weight[i] \in Nat \ {0}
  /\ Weight[0] = 1
  /\ \A i \in Nat : Weight[i + 1] = Base * Weight[i]
<1>0. Base \in Nat \ {0, 1}
  BY WidthAssumption
<1> DEFINE F == [i \in Nat |-> [s \in Nat \ {0} |-> Base * s]]
<1>1. \A n \in Nat : Steps(F, n, Nat \ {0})
  BY <1>0 DEF Steps
<1>2. PICK f \in [Nat -> Nat \ {0}] : f[0] = 1 /\ \A n \in Nat : Follows(f, F, n)
  <2> HIDE DEF F
  <2>1. 1 \in Nat \ {0}
    OBVIOUS
  <2> QED BY <1>1, <2>1, RecursionOnNat
<1>3. ASSUME NEW i \in Nat PROVE f[i] = IF i = 0 THEN 1 ELSE Base * f[i - 1]
  <2>1. i # 0 => i \in 1..i /\ i - 1 \in Nat
    OBVIOUS
  <2> QED BY <1>2, <2>1 DEF Follows
<1>4. f = [i \in Nat |-> IF i = 0 THEN 1 ELSE Base * f[i - 1]]
  <2>1. f = [i \in Nat |-> f[i]]
    OBVIOUS
  <2> QED BY <1>3, <2>1, Zenon
<1>5. Weight = [i \in Nat |-> IF i = 0 THEN 1 ELSE Base * Weight[i - 1]]
  BY <1>4, Zenon DEF Weight
<1>6. Weight[0] = 1 /\ \A i \in Nat : Weight[i + 1] = Base * Weight[i]
  <2>1. \A i \in Nat : Weight[i] = IF i = 0 THEN 1 ELSE Base * Weight[i - 1]
    BY <1>5
  <2>2. \A i \in Nat : i + 1 # 0 /\ i + 1 \in Nat /\ i + 1 - 1 = i
    OBVIOUS
  <2> QED BY <2>1, <2>2
<1> DEFINE T == {i \in Nat : Weight[i] \in Nat \ {0}}
<1>7. 0 \in T /\ \A i \in T : i + 1 \in T
  BY <1>0, <1>6
<1>8. T \in SUBSET Nat
  OBVIOUS
<1> HIDE DEF T
<1>9. T = Nat
  BY <1>7, <1>8, Induction
<1> QED BY <1>6, <1>9 DEF T

(* The number that the first len digits of an array make. *)
IsValueOf(v, a) == /\ v \in [0..Width -> Nat] /\ v[0] = 0
                   /\ \A i \in 0..Width - 1 : v[i + 1] = v[i] * Base + a[i]

LEMMA BigEndianIs ==
  ASSUME NEW a, \A i \in 0..Width - 1 : a[i] \in Nat
  PROVE  \E v : IsValueOf(v, a) /\ BigEndian(a) = v[Width]
<1>0. Base \in Nat /\ Width \in Nat
  BY WidthAssumption
<1> DEFINE F == [i \in 1..Width |-> [s \in Nat |-> s * Base + a[i - 1]]]
<1>1. Steps(F, Width, Nat)
  BY <1>0 DEF Steps
<1>2. PICK f \in [0..Width -> Nat] : f[0] = 0 /\ Follows(f, F, Width)
  <2> HIDE DEF F
  <2> QED BY <1>0, <1>1, Recursion
<1>3. ASSUME NEW i \in 0..Width PROVE f[i] = IF i = 0 THEN 0 ELSE f[i - 1] * Base + a[i - 1]
  <2>1. i # 0 => i \in 1..Width /\ i - 1 \in 0..Width
    BY <1>0
  <2> QED BY <1>2, <2>1 DEF Follows
<1> DEFINE IsIt(g) == g = [len \in 0..Width |-> IF len = 0 THEN 0 ELSE g[len - 1] * Base + a[len - 1]]
<1>4. IsIt(f)
  <2>1. f = [i \in 0..Width |-> f[i]]
    OBVIOUS
  <2> QED BY <1>3, <2>1, Zenon
<1>5. PICK v : v = (CHOOSE g : IsIt(g)) /\ BigEndian(a) = v[Width]
  BY Zenon DEF BigEndian
<1>6. IsIt(v)
  BY <1>4, <1>5, Zenon
<1>7. \A len \in 0..Width : v[len] = IF len = 0 THEN 0 ELSE v[len - 1] * Base + a[len - 1]
  BY <1>6
<1>8. ASSUME NEW i \in 0..Width - 1 PROVE v[i + 1] = v[i] * Base + a[i]
  <2>1. i + 1 \in 0..Width /\ i + 1 # 0 /\ i + 1 - 1 = i
    BY <1>0
  <2> QED BY <1>7, <2>1
<1>9. v[0] = 0
  BY <1>0, <1>7
<1>10. v = [len \in 0..Width |-> v[len]]
  BY <1>6
<1> DEFINE T == {i \in 0..Width : v[i] \in Nat}
<1>11. 0 \in T
  BY <1>0, <1>9
<1>15. ASSUME NEW i \in 0..Width - 1, i \in T PROVE i + 1 \in T
  <2>1. v[i] \in Nat /\ a[i] \in Nat /\ v[i] * Base \in Nat
    BY <1>0, <1>15
  <2>2. i + 1 \in 0..Width
    BY <1>0
  <2> QED BY <1>8, <2>1, <2>2
<1> HIDE DEF T
<1>12. \A i \in 0..Width : i \in T
  BY <1>0, <1>11, <1>15, InductionTo
<1>13. \A i \in 0..Width : v[i] \in Nat
  BY <1>12 DEF T
<1>14. v \in [0..Width -> Nat]
  BY <1>10, <1>13
<1> QED BY <1>5, <1>8, <1>9, <1>14 DEF IsValueOf

LEMMA WeightType == \A i \in Nat : Weight[i] \in Nat \ {0}
BY WeightIs

LEMMA WeightNext == ASSUME NEW i \in Nat PROVE Weight[i + 1] = Base * Weight[i]
BY WeightIs

LEMMA SmallWeights == Weight[0] = 1 /\ Weight[1] = Base /\ Weight[2] = Base * Base /\ Weight[3] = Base * Base * Base
<1>1. Base \in Nat
  BY WidthAssumption
<1>2. Weight[0] = 1 /\ Weight[0 + 1] = Base * 1 /\ Weight[1 + 1] = Base * Weight[1] /\ Weight[2 + 1] = Base * Weight[2]
  BY WeightIs
<1> QED BY <1>1, <1>2

(* Where two numbers first differ decides which is larger.                 *)
LEMMA FirstDifference ==
  ASSUME NEW a, \A i \in 0..Width - 1 : a[i] \in Digits,
         NEW b, \A i \in 0..Width - 1 : b[i] \in Digits,
         NEW n \in 0..Width - 1, a[n] < b[n], \A i \in 0..n - 1 : a[i] = b[i]
  PROVE  BigEndian(a) < BigEndian(b)
<1>0. Base \in Nat \ {0, 1} /\ Width \in Nat
  BY WidthAssumption
<1>1. \A i \in 0..Width - 1 : a[i] \in Nat /\ a[i] <= Base - 1 /\ b[i] \in Nat
  BY <1>0 DEF Digits
<1>2. PICK v : IsValueOf(v, a) /\ BigEndian(a) = v[Width]
  BY <1>1, BigEndianIs
<1>3. PICK w : IsValueOf(w, b) /\ BigEndian(b) = w[Width]
  BY <1>1, BigEndianIs
<1>4. /\ v \in [0..Width -> Nat] /\ v[0] = 0 /\ \A i \in 0..Width - 1 : v[i + 1] = v[i] * Base + a[i]
      /\ w \in [0..Width -> Nat] /\ w[0] = 0 /\ \A i \in 0..Width - 1 : w[i + 1] = w[i] * Base + b[i]
  BY <1>2, <1>3 DEF IsValueOf
<1> DEFINE T == {i \in 0..Width : IF i <= n THEN v[i] = w[i] ELSE v[i] + 1 <= w[i]}
<1>5. 0 \in T
  BY <1>0, <1>4
<1>6. ASSUME NEW i \in 0..Width - 1, i \in T PROVE i + 1 \in T
  <2>1. i + 1 \in 0..Width /\ i \in 0..Width /\ v[i] \in Nat /\ w[i] \in Nat
    BY <1>0, <1>4
  <2>2. v[i + 1] = v[i] * Base + a[i] /\ w[i + 1] = w[i] * Base + b[i]
    BY <1>4
  <2>3. CASE i < n
    <3>1. v[i] = w[i] /\ a[i] = b[i]
      BY <1>6, <2>3
    <3> QED BY <2>1, <2>2, <2>3, <3>1
  <2>4. CASE i = n
    <3>1. v[i] = w[i]
      BY <1>6, <2>4
    <3>2. v[i] * Base = w[i] * Base /\ v[i] * Base \in Nat
      BY <1>0, <2>1, <3>1
    <3>3. a[i] + 1 <= b[i] /\ a[i] \in Nat /\ b[i] \in Nat
      BY <1>1, <2>4
    <3>4. v[i + 1] + 1 <= w[i + 1]
      BY <2>2, <3>2, <3>3
    <3> QED BY <2>1, <2>4, <3>4
  <2>5. CASE i > n
    <3>1. v[i] < w[i]
      BY <1>6, <2>1, <2>5
    <3>2. Base * v[i] + Base <= Base * w[i]
      BY <1>0, <2>1, <3>1, Monotone
    <3>3. v[i] * Base = Base * v[i] /\ w[i] * Base = Base * w[i] /\ v[i] * Base \in Nat /\ w[i] * Base \in Nat
      BY <1>0, <2>1
    <3>4. v[i + 1] + 1 <= w[i + 1]
      BY <1>0, <1>1, <2>2, <3>2, <3>3
    <3> QED BY <2>1, <2>5, <3>4
  <2> QED BY <2>1, <2>3, <2>4, <2>5
<1> HIDE DEF T
<1>7. \A i \in 0..Width : i \in T
  BY <1>0, <1>5, <1>6, InductionTo
<1>8. Width \in 0..Width /\ ~(Width <= n) /\ v[Width] \in Nat /\ w[Width] \in Nat
  BY <1>0, <1>4
<1> QED BY <1>2, <1>3, <1>7, <1>8 DEF T

(* The digits of an array are too small to make more than Top.             *)
LEMMA ValueBound ==
  ASSUME NEW a, \A i \in 0..Width - 1 : a[i] \in Digits
  PROVE  BigEndian(a) \in 0..Top /\ Top \in Nat
<1>0. Base \in Nat \ {0, 1} /\ Width \in Nat
  BY WidthAssumption
<1>1. \A i \in 0..Width - 1 : a[i] \in Nat /\ a[i] <= Base - 1
  BY <1>0 DEF Digits
<1>2. PICK v : IsValueOf(v, a) /\ BigEndian(a) = v[Width]
  BY <1>1, BigEndianIs
<1>3. v \in [0..Width -> Nat] /\ v[0] = 0 /\ \A i \in 0..Width - 1 : v[i + 1] = v[i] * Base + a[i]
  BY <1>2 DEF IsValueOf
<1> DEFINE T == {i \in 0..Width : v[i] < Weight[i]}
<1>4. 0 \in T
  BY <1>0, <1>3, SmallWeights
<1>5. ASSUME NEW i \in 0..Width - 1, i \in T PROVE i + 1 \in T
  <2>1. PICK x, y : x = v[i] /\ y = Weight[i]
    OBVIOUS
  <2>2. x \in Nat /\ y \in Nat /\ x < y /\ i \in Nat /\ i + 1 \in 0..Width
    BY <1>0, <1>3, <1>5, <2>1, WeightType
  <2>3. Base * x + Base <= Base * y /\ Base * x = x * Base /\ x * Base \in Nat /\ Base * y \in Nat
    BY <1>0, <2>2, Monotone
  <2>4. v[i + 1] = x * Base + a[i] /\ Weight[i + 1] = Base * y
    BY <1>3, <2>1, <2>2, WeightNext
  <2>5. v[i + 1] < Weight[i + 1]
    BY <1>0, <1>1, <2>3, <2>4
  <2> QED BY <2>2, <2>5
<1> HIDE DEF T
<1>6. \A i \in 0..Width : i \in T
  BY <1>0, <1>4, <1>5, InductionTo
<1>7. v[Width] < Weight[Width] /\ v[Width] \in Nat /\ Weight[Width] \in Nat
  BY <1>0, <1>3, <1>6, WeightType DEF T
<1> QED BY <1>2, <1>7 DEF Top

LEMMA ReversedIs ==
  ASSUME NEW a \in Arrays
  PROVE  \A i \in 0..Width - 1 : Reversed(a)[i] = a[Width - 1 - i] /\ Reversed(a)[i] \in Digits
BY WidthAssumption DEF Arrays, Reversed

LEMMA SameArray ==
  ASSUME NEW x \in Arrays, NEW y \in Arrays, \A i \in 0..Width - 1 : x[i] = y[i]
  PROVE  x = y
<1>1. x = [i \in 0..Width - 1 |-> x[i]] /\ y = [i \in 0..Width - 1 |-> y[i]]
  BY DEF Arrays
<1>2. [i \in 0..Width - 1 |-> x[i]] = [i \in 0..Width - 1 |-> y[i]]
  OBVIOUS
<1> QED BY <1>1, <1>2, Zenon

(* Comparing bytes is comparing numbers, and an array is known by its      *)
(* number.                                                                 *)
LEMMA LeLeqIsNumeric ==
  ASSUME NEW a \in Arrays, NEW b \in Arrays
  PROVE  /\ LittleEndian(a) \in 0..Top /\ LittleEndian(b) \in 0..Top
         /\ LeLeq(a, b) <=> LittleEndian(a) <= LittleEndian(b)
         /\ LittleEndian(a) = LittleEndian(b) => a = b
<1>0. Width \in Nat /\ \A i \in 0..Width - 1 : a[i] \in Nat /\ b[i] \in Nat
  BY WidthAssumption DEF Arrays, Digits
<1>1. LittleEndian(a) \in 0..Top /\ LittleEndian(b) \in 0..Top /\ Top \in Nat
  BY ReversedIs, ValueBound DEF LittleEndian
<1>2. CASE \A i \in 0..Width - 1 : a[i] = b[i]
  <2>1. a = b
    BY <1>2, SameArray
  <2> QED BY <1>1, <1>2, <2>1 DEF LeLeq
<1>3. CASE ~(\A i \in 0..Width - 1 : a[i] = b[i])
  <2> DEFINE T == {j \in 0..Width - 1 : a[Width - 1 - j] # b[Width - 1 - j]}
  <2>1. T # {}
    <3>1. PICK i \in 0..Width - 1 : a[i] # b[i]
      BY <1>3
    <3>2. Width - 1 - i \in 0..Width - 1 /\ Width - 1 - (Width - 1 - i) = i
      BY <1>0
    <3> QED BY <3>1, <3>2
  <2>2. T \in SUBSET Nat
    OBVIOUS
  <2>3. PICK n \in T : \A k \in T : n <= k
    BY <2>1, <2>2, LeastNatural
  <2>4. PICK i : i = Width - 1 - n
    OBVIOUS
  <2>5. i \in 0..Width - 1 /\ n \in 0..Width - 1 /\ a[i] # b[i]
    BY <1>0, <2>3, <2>4
  <2>6. ASSUME NEW j \in 0..Width - 1, j > i PROVE a[j] = b[j]
    <3>1. Width - 1 - j \in 0..Width - 1 /\ Width - 1 - (Width - 1 - j) = j /\ Width - 1 - j < n
      BY <1>0, <2>4, <2>5, <2>6
    <3> QED BY <2>3, <2>5, <3>1
  <2>7. PICK x, y : x = Reversed(a) /\ y = Reversed(b)
    OBVIOUS
  <2>8. /\ \A j \in 0..Width - 1 : x[j] = a[Width - 1 - j] /\ x[j] \in Digits
        /\ \A j \in 0..Width - 1 : y[j] = b[Width - 1 - j] /\ y[j] \in Digits
    BY <2>7, ReversedIs
  <2>9. x[n] = a[i] /\ y[n] = b[i]
    BY <2>4, <2>5, <2>8
  <2>10. \A j \in 0..n - 1 : x[j] = y[j]
    <3> SUFFICES ASSUME NEW j \in 0..n - 1 PROVE x[j] = y[j]
      OBVIOUS
    <3>1. j \in 0..Width - 1 /\ Width - 1 - j \in 0..Width - 1 /\ Width - 1 - j > i
      BY <1>0, <2>4, <2>5
    <3> QED BY <2>6, <2>8, <3>1
  <2>11. a[i] < b[i] => BigEndian(x) < BigEndian(y)
    BY <2>5, <2>8, <2>9, <2>10, FirstDifference
  <2>12. b[i] < a[i] => BigEndian(y) < BigEndian(x)
    BY <2>5, <2>8, <2>9, <2>10, FirstDifference
  <2>13. LeLeq(a, b) <=> a[i] < b[i]
    <3>1. ASSUME NEW l \in 0..Width - 1, a[l] # b[l], \A j \in 0..Width - 1 : a[j] # b[j] => j <= l
          PROVE  l = i
      BY <1>0, <2>5, <2>6, <3>1
    <3>2. ASSUME NEW j \in 0..Width - 1, a[j] # b[j] PROVE j <= i
      BY <1>0, <2>5, <2>6, <3>2
    <3> QED BY <2>5, <3>1, <3>2 DEF LeLeq
  <2>14. LittleEndian(a) = BigEndian(x) /\ LittleEndian(b) = BigEndian(y)
    BY <2>7 DEF LittleEndian
  <2>15. a[i] \in Nat /\ b[i] \in Nat /\ (a[i] < b[i] \/ b[i] < a[i])
    BY <1>0, <2>5
  <2> QED BY <1>1, <2>5, <2>11, <2>12, <2>13, <2>14, <2>15
<1> QED BY <1>2, <1>3

(* le_leq is an order, whatever the width: no jackpot meets a bound and    *)
(* misses a larger one.                                                    *)
THEOREM LeLeqIsOrder ==
  ASSUME NEW a \in Arrays, NEW b \in Arrays, NEW c \in Arrays
  PROVE  /\ LeLeq(a, a)
         /\ LeLeq(a, b) /\ LeLeq(b, a) => a = b
         /\ LeLeq(a, b) /\ LeLeq(b, c) => LeLeq(a, c)
<1> DEFINE Places == 0..Width - 1
<1>1. /\ \A i \in Places : i \in Int /\ a[i] \in Int /\ b[i] \in Int /\ c[i] \in Int
      /\ Places = DOMAIN a /\ Places = DOMAIN b
  BY WidthAssumption DEF Arrays, Digits
<1>2. ASSUME NEW x \in Arrays, NEW y \in Arrays
      PROVE  LeLeq(x, y) <=> \/ \A i \in Places : x[i] = y[i]
                             \/ \E i \in Places : x[i] < y[i] /\ x[i] # y[i]
                                                    /\ \A j \in Places : x[j] # y[j] => j <= i
  BY DEF LeLeq
<1>3. LeLeq(a, a)
  BY <1>2
<1>4. ASSUME LeLeq(a, b), LeLeq(b, a) PROVE a = b
  <2>1. \A i \in Places : a[i] = b[i]
    <3> SUFFICES ASSUME NEW i \in Places, a[i] < b[i], \A l \in Places : a[l] # b[l] => l <= i,
                        NEW j \in Places, b[j] < a[j], \A l \in Places : b[l] # a[l] => l <= j
                 PROVE  FALSE
      BY <1>1, <1>2, <1>4
    <3>1. i = j
      BY <1>1
    <3> QED BY <1>1, <3>1
  <2> QED BY <2>1, SameArray
<1>5. ASSUME LeLeq(a, b), LeLeq(b, c) PROVE LeLeq(a, c)
  <2>1. CASE \A i \in Places : a[i] = b[i]
    <3>1. a = b
      BY <2>1, SameArray
    <3> QED BY <1>5, <3>1
  <2>2. CASE \A i \in Places : b[i] = c[i]
    <3>1. b = c
      BY <2>2, SameArray
    <3> QED BY <1>5, <3>1
  <2>3. CASE ~(\A i \in Places : a[i] = b[i]) /\ ~(\A i \in Places : b[i] = c[i])
    <3>1. PICK i \in Places : a[i] < b[i] /\ \A l \in Places : a[l] # b[l] => l <= i
      BY <1>2, <1>5, <2>3
    <3>2. PICK j \in Places : b[j] < c[j] /\ \A l \in Places : b[l] # c[l] => l <= j
      BY <1>2, <1>5, <2>3
    <3>3. CASE j <= i
      <4>1. a[i] < c[i] /\ a[i] # c[i]
        <5>1. b[i] <= c[i]
          BY <1>1, <3>2, <3>3
        <5> QED BY <1>1, <3>1, <5>1
      <4>2. \A l \in Places : a[l] # c[l] => l <= i
        BY <1>1, <3>1, <3>2, <3>3
      <4> QED BY <1>2, <4>1, <4>2
    <3>4. CASE i < j
      <4>1. a[j] = b[j] /\ a[j] < c[j] /\ a[j] # c[j]
        BY <1>1, <3>1, <3>2, <3>4
      <4>2. \A l \in Places : a[l] # c[l] => l <= j
        BY <1>1, <3>1, <3>2, <3>4
      <4> QED BY <1>2, <4>1, <4>2
    <3> QED BY <1>1, <3>3, <3>4
  <2> QED BY <2>1, <2>2, <2>3
<1> QED BY <1>3, <1>4, <1>5

-----------------------------------------------------------------------------
(* The bound of a share.                                                   *)

LEMMA ToLittleEndianIs ==
  ASSUME NEW x \in 0..Top
  PROVE  ToLittleEndian(x) \in Arrays /\ LittleEndian(ToLittleEndian(x)) = x
<1>0. Base \in Nat \ {0, 1} /\ Width \in Nat /\ Weight[Width] \in Nat /\ x \in Nat /\ x < Weight[Width]
  BY WidthAssumption, WeightType DEF Top
<1>1. PICK a : a = ToLittleEndian(x)
  OBVIOUS
<1>2. ASSUME NEW i \in 0..Width - 1
      PROVE  x \div Weight[i] \in Nat /\ (x \div Weight[i]) % Base \in Digits
  <2>1. Weight[i] \in Nat \ {0}
    BY <1>0, WeightType
  <2>2. x \div Weight[i] \in Nat
    BY <1>0, <2>1, Division
  <2> QED BY <1>0, <2>2, Division DEF Digits
<1>3. a \in Arrays /\ \A i \in 0..Width - 1 : a[i] = (x \div Weight[i]) % Base
  BY <1>1, <1>2 DEF ToLittleEndian, Arrays
<1>4. PICK r : r = Reversed(a)
  OBVIOUS
<1>5. \A i \in 0..Width - 1 : r[i] = a[Width - 1 - i] /\ r[i] \in Nat
  BY <1>0, <1>3, <1>4, ReversedIs DEF Digits
<1>6. PICK v : IsValueOf(v, r) /\ BigEndian(r) = v[Width]
  BY <1>5, BigEndianIs
<1>7. v \in [0..Width -> Nat] /\ v[0] = 0 /\ \A i \in 0..Width - 1 : v[i + 1] = v[i] * Base + r[i]
  BY <1>6 DEF IsValueOf
<1> DEFINE T == {i \in 0..Width : v[i] = x \div Weight[Width - i]}
<1>8. 0 \in T
  <2>1. x \div Weight[Width] = 0
    BY <1>0, BelowDivisor
  <2> QED BY <1>0, <1>7, <2>1
<1>9. ASSUME NEW i \in 0..Width - 1, i \in T PROVE i + 1 \in T
  <2>1. PICK n : n = Width - 1 - i
    OBVIOUS
  <2>2. n \in 0..Width - 1 /\ n + 1 = Width - i /\ n = Width - (i + 1) /\ i + 1 \in 0..Width
    BY <1>0, <2>1
  <2>3. PICK w, q : w = Weight[n] /\ q = x \div w
    OBVIOUS
  <2>4. w \in Nat \ {0} /\ Weight[n + 1] = Base * w
    BY <1>0, <2>2, <2>3, WeightType, WeightNext
  <2>5. q \in Nat
    BY <1>0, <2>3, <2>4, Division
  <2>6. x \div Weight[n + 1] = q \div Base
    <3>1. Base * w = w * Base
      BY <1>0, <2>4
    <3> QED BY <1>0, <2>3, <2>4, <3>1, DivideTwice
  <2>7. q = Base * (q \div Base) + (q % Base) /\ q \div Base \in Nat /\ q % Base \in Nat
    <3>1. Base \in Nat \ {0}
      BY <1>0
    <3>2. q % Base \in 0..Base - 1 /\ q \div Base \in Nat /\ q = Base * (q \div Base) + (q % Base)
      BY <2>5, <3>1, Division
    <3>3. q % Base \in Nat
      BY <3>1, <3>2
    <3> QED BY <3>2, <3>3
  <2>8. v[i] = q \div Base
    BY <1>9, <2>2, <2>6
  <2>9. r[i] = q % Base
    BY <1>3, <1>5, <2>1, <2>2, <2>3
  <2>10. (q \div Base) * Base = Base * (q \div Base)
    BY <1>0, <2>7
  <2>11. v[i + 1] = q
    BY <1>7, <2>7, <2>8, <2>9, <2>10
  <2> QED BY <2>2, <2>3, <2>11
<1> HIDE DEF T
<1>10. Width \in T
  BY <1>0, <1>8, <1>9, InductionTo
<1>11. v[Width] = x
  <2>1. v[Width] = x \div Weight[0]
    BY <1>0, <1>10 DEF T
  <2>2. Weight[0] = 1 /\ x = 1 * x + 0 /\ 0 \in 0..1 - 1
    BY <1>0, SmallWeights
  <2>3. x \div 1 = x
    BY <1>0, <2>2, DivisionIs
  <2> QED BY <2>1, <2>2, <2>3
<1> QED BY <1>1, <1>3, <1>4, <1>6, <1>11 DEF LittleEndian

(* The long division of the largest number.                                *)
LEMMA ShareTargetIs ==
  ASSUME NEW difficulty \in Nat
  PROVE  /\ ShareTarget(difficulty) \in Arrays
         /\ BigEndian(ShareTarget(difficulty)) = Top \div Divisor(difficulty)
<1>0. Base \in Nat \ {0, 1} /\ Width \in Nat
  BY WidthAssumption
<1>1. PICK d : d = Divisor(difficulty)
  OBVIOUS
<1>2. d \in Nat \ {0}
  BY <1>1 DEF Divisor
<1>3. PICK rest : /\ rest \in [0..Width -> 0..d - 1]
                  /\ rest[0] = 0
                  /\ \A i \in 0..Width - 1 : rest[i + 1] = (rest[i] * Base + Base - 1) % d
                  /\ ShareTarget(difficulty) = [i \in 0..Width - 1 |-> (rest[i] * Base + Base - 1) \div d]
  <2> DEFINE S == 0..d - 1
             F == [i \in 1..Width |-> [s \in S |-> (s * Base + Base - 1) % d]]
             IsIt(g) == g = [i \in 0..Width |-> IF i = 0 THEN 0
                                                ELSE (g[i - 1] * Base + Base - 1) % Divisor(difficulty)]
  <2>1. ASSUME NEW s \in S PROVE (s * Base + Base - 1) % d \in S
    <3>1. s * Base \in Nat
      BY <1>0, <1>2
    <3>2. s * Base + Base - 1 \in Nat
      BY <1>0, <3>1
    <3> QED BY <1>2, <3>2, Division
  <2>2. Steps(F, Width, S) /\ 0 \in S
    BY <1>0, <1>2, <2>1 DEF Steps
  <2>3. PICK f \in [0..Width -> S] : f[0] = 0 /\ Follows(f, F, Width)
    <3> HIDE DEF F, S
    <3> QED BY <1>0, <2>2, Recursion
  <2>4. ASSUME NEW i \in 0..Width PROVE f[i] = IF i = 0 THEN 0 ELSE (f[i - 1] * Base + Base - 1) % d
    <3>1. i # 0 => i \in 1..Width /\ i - 1 \in 0..Width
      BY <1>0
    <3>2. i # 0 => f[i] = F[i][f[i - 1]] /\ f[i - 1] \in S
      BY <2>3, <3>1 DEF Follows
    <3> QED BY <2>3, <3>1, <3>2
  <2>5. IsIt(f)
    <3>1. f = [i \in 0..Width |-> f[i]]
      OBVIOUS
    <3> QED BY <1>1, <2>4, <3>1, Zenon
  <2>6. PICK g : /\ g = (CHOOSE h : IsIt(h))
                 /\ ShareTarget(difficulty)
                      = [i \in 0..Width - 1 |-> (g[i] * Base + Base - 1) \div Divisor(difficulty)]
    <3>1. ShareTarget(difficulty)
            = [i \in 0..Width - 1 |->
                 ((CHOOSE h : IsIt(h))[i] * Base + Base - 1) \div Divisor(difficulty)]
      BY DEF ShareTarget
    <3> HIDE DEF IsIt
    <3> QED BY <3>1, Zenon
  <2>7. IsIt(g)
    BY <2>5, <2>6, Zenon
  <2>8. /\ g[0] = 0
        /\ \A i \in 0..Width : g[i] = IF i = 0 THEN 0 ELSE (g[i - 1] * Base + Base - 1) % d
    BY <1>0, <1>1, <2>7
  <2>9. ASSUME NEW i \in 0..Width - 1 PROVE g[i + 1] = (g[i] * Base + Base - 1) % d
    <3>1. i + 1 \in 0..Width /\ i + 1 # 0 /\ i + 1 - 1 = i
      BY <1>0
    <3> QED BY <2>8, <3>1
  <2>10. g = [i \in 0..Width |-> g[i]]
    BY <2>7
  <2> DEFINE T == {i \in 0..Width : g[i] \in S}
  <2>11. 0 \in T
    BY <1>0, <2>2, <2>8
  <2>12. ASSUME NEW i \in 0..Width - 1, i \in T PROVE i + 1 \in T
    <3>1. i + 1 \in 0..Width
      BY <1>0
    <3> QED BY <2>1, <2>9, <2>12, <3>1
  <2> HIDE DEF T
  <2>13. \A i \in 0..Width : i \in T
    BY <1>0, <2>11, <2>12, InductionTo
  <2>14. g \in [0..Width -> S]
    BY <2>10, <2>13 DEF T
  <2>15. ShareTarget(difficulty) = [i \in 0..Width - 1 |-> (g[i] * Base + Base - 1) \div d]
    BY <1>1, <2>6, Zenon
  <2>16. g \in [0..Width -> 0..d - 1]
    BY <2>14
  <2> QED BY <2>8, <2>9, <2>15, <2>16, Zenon
<1>4. PICK t : t = ShareTarget(difficulty)
  OBVIOUS
<1>5. ASSUME NEW i \in 0..Width - 1
      PROVE  /\ t[i] \in Digits /\ t[i] \in Nat /\ rest[i] \in 0..d - 1 /\ rest[i + 1] \in 0..d - 1
             /\ rest[i] * Base + Base - 1 = d * t[i] + rest[i + 1]
  <2>1. rest[i] \in 0..d - 1 /\ rest[i + 1] \in 0..d - 1
    BY <1>0, <1>3
  <2>2. PICK x : x = rest[i] * Base + Base - 1
    OBVIOUS
  <2>3. Base * rest[i] + Base <= Base * d /\ rest[i] * Base = Base * rest[i] /\ rest[i] * Base \in Nat
    BY <1>0, <1>2, <2>1, Monotone
  <2>4. x \in Nat /\ x < Base * d /\ Base * d = d * Base
    BY <1>0, <1>2, <2>2, <2>3
  <2>5. t[i] = x \div d /\ rest[i + 1] = x % d
    BY <1>3, <1>4, <2>2
  <2>6. t[i] \in Nat /\ x = d * t[i] + rest[i + 1]
    BY <1>2, <2>4, <2>5, Division
  <2>7. ~(Base <= t[i])
    <3>1. Base <= t[i] => d * Base <= d * t[i]
      BY <1>0, <1>2, <2>6, Monotone
    <3>2. d * Base \in Nat /\ d * t[i] \in Nat
      BY <1>0, <1>2, <2>6
    <3> QED BY <2>1, <2>4, <2>6, <3>1, <3>2
  <2> QED BY <1>0, <2>1, <2>2, <2>6, <2>7 DEF Digits
<1>6. t \in Arrays
  BY <1>3, <1>4, <1>5 DEF Arrays
<1>7. PICK v : IsValueOf(v, t) /\ BigEndian(t) = v[Width]
  BY <1>5, BigEndianIs
<1>8. v \in [0..Width -> Nat] /\ v[0] = 0 /\ \A i \in 0..Width - 1 : v[i + 1] = v[i] * Base + t[i]
  BY <1>7 DEF IsValueOf
<1> DEFINE T == {i \in 0..Width : d * v[i] + rest[i] = Weight[i] - 1}
<1>9. 0 \in T
  <2>1. d * v[0] = 0
    BY <1>2, <1>8
  <2> QED BY <1>0, <1>3, <2>1, SmallWeights
<1>10. ASSUME NEW i \in 0..Width - 1, i \in T PROVE i + 1 \in T
  <2>1. PICK x, y, z : x = v[i] /\ y = rest[i] /\ z = t[i]
    OBVIOUS
  <2>2. x \in Nat /\ y \in Nat /\ z \in Nat /\ i \in Nat /\ i + 1 \in 0..Width
    <3>1. i \in Nat /\ i \in 0..Width /\ i + 1 \in 0..Width
      BY <1>0
    <3>2. y \in Nat /\ x \in Nat /\ z \in Nat
      BY <1>2, <1>5, <1>8, <2>1, <3>1
    <3> QED BY <3>1, <3>2
  <2>3. d * x + y = Weight[i] - 1 /\ Weight[i] \in Nat /\ Weight[i + 1] = Base * Weight[i]
    BY <1>10, <2>1, <2>2, WeightType, WeightNext
  <2>4. v[i + 1] = x * Base + z /\ y * Base + Base - 1 = d * z + rest[i + 1] /\ rest[i + 1] \in Nat
    BY <1>2, <1>5, <1>8, <2>1
  <2>5. d * (x * Base + z) = (d * x) * Base + d * z
    BY <1>0, <1>2, <2>2
  <2>6. (d * x + y) * Base = (d * x) * Base + y * Base
    BY <1>0, <1>2, <2>2
  <2>7. (Weight[i] - 1) * Base = Base * Weight[i] - Base
    BY <1>0, <2>3
  <2>8. PICK p1, p2, p3, p4 : p1 = (d * x) * Base /\ p2 = d * z /\ p3 = y * Base /\ p4 = Base * Weight[i]
    OBVIOUS
  <2>9. p1 \in Nat /\ p2 \in Nat /\ p3 \in Nat /\ p4 \in Nat
    BY <1>0, <1>2, <2>2, <2>3, <2>8
  <2>10. p1 + p3 = p4 - Base
    BY <2>3, <2>6, <2>7, <2>8
  <2>11. d * v[i + 1] = p1 + p2
    BY <2>4, <2>5, <2>8
  <2>12. d * v[i + 1] + rest[i + 1] = Weight[i + 1] - 1
    <3>1. p3 + Base - 1 = p2 + rest[i + 1] /\ rest[i + 1] \in Nat /\ Weight[i + 1] = p4
      BY <2>3, <2>4, <2>8
    <3> QED BY <1>0, <2>9, <2>10, <2>11, <3>1
  <2> QED BY <2>2, <2>12
<1> HIDE DEF T
<1>11. Width \in T
  BY <1>0, <1>9, <1>10, InductionTo
<1>12. d * v[Width] + rest[Width] = Top /\ v[Width] \in Nat /\ rest[Width] \in 0..d - 1
  BY <1>0, <1>3, <1>8, <1>11 DEF T, Top
<1>13. Top \div d = v[Width]
  BY <1>2, <1>12, DivisionIs
<1> QED BY <1>1, <1>4, <1>6, <1>7, <1>13

(* The division by which difficulty_bound_from_target_be foresees an       *)
(* overflow is exact: the bound is the product, or everything, and never a *)
(* product that has wrapped around.                                        *)
THEOREM BoundSaturates ==
  ASSUME NEW target_be \in Arrays, NEW factor \in Nat
  PROVE  DifficultyBound(target_be, factor) =
           ToLittleEndian(IF BigEndian(target_be) * factor > Top THEN Top
                          ELSE BigEndian(target_be) * factor)
<1>0. BigEndian(target_be) \in Nat /\ Top \in Nat
  <2>1. \A i \in 0..Width - 1 : target_be[i] \in Digits
    BY DEF Arrays
  <2>2. BigEndian(target_be) \in 0..Top /\ Top \in Nat
    BY <2>1, ValueBound
  <2> QED BY <2>2
<1>1. PICK v \in Nat : v = BigEndian(target_be)
  BY <1>0
<1>2. CASE factor = 0
  <2>1. v * factor = 0
    BY <1>2
  <2> QED BY <1>0, <1>1, <1>2, <2>1 DEF DifficultyBound
<1>3. CASE factor # 0
  <2>1. PICK d, r : d = Top \div factor /\ r = Top % factor
    OBVIOUS
  <2>2. d \in Nat /\ r \in 0..factor - 1 /\ Top = factor * d + r
    BY <1>0, <1>3, <2>1, Division
  <2>3. v > d <=> factor * v > Top
    <3>1. factor * v \in Nat /\ factor * d \in Nat
      BY <2>2
    <3>2. d < v => factor * d + factor <= factor * v
      BY <1>3, <2>2, Monotone
    <3>3. v <= d => factor * v <= factor * d
      BY <1>3, <2>2, Monotone
    <3> QED BY <2>2, <3>1, <3>2, <3>3
  <2>4. v * factor = factor * v
    OBVIOUS
  <2> QED BY <1>1, <1>3, <2>1, <2>3, <2>4 DEF DifficultyBound
<1> QED BY <1>2, <1>3

(* What has all its digits full is the largest number.                     *)
LEMMA FullIsTop ==
  ASSUME NEW a \in Arrays, \A i \in 0..Width - 1 : a[i] = Base - 1
  PROVE  LittleEndian(a) = Top
<1>0. Base \in Nat \ {0, 1} /\ Width \in Nat /\ Top \in 0..Top
  BY WidthAssumption, ValueBound DEF Arrays
<1>1. PICK b : b = ToLittleEndian(Top)
  OBVIOUS
<1>2. b \in Arrays /\ LittleEndian(b) = Top
  BY <1>0, <1>1, ToLittleEndianIs
<1>3. LeLeq(b, a)
  <2>1. CASE \A i \in 0..Width - 1 : b[i] = a[i]
    BY <2>1 DEF LeLeq
  <2>2. CASE ~ \A i \in 0..Width - 1 : b[i] = a[i]
    <3> DEFINE T == {j \in 0..Width - 1 : b[Width - 1 - j] # a[Width - 1 - j]}
    <3>1. T # {}
      <4>1. PICK i \in 0..Width - 1 : b[i] # a[i]
        BY <2>2
      <4>2. Width - 1 - i \in 0..Width - 1 /\ Width - 1 - (Width - 1 - i) = i
        BY <1>0
      <4> QED BY <4>1, <4>2
    <3>2. T \in SUBSET Nat
      OBVIOUS
    <3>3. PICK n \in T : \A k \in T : n <= k
      BY <3>1, <3>2, LeastNatural
    <3>4. PICK i : i = Width - 1 - n
      OBVIOUS
    <3>5. i \in 0..Width - 1 /\ b[i] # a[i]
      BY <1>0, <3>3, <3>4
    <3>6. ASSUME NEW j \in 0..Width - 1, b[j] # a[j] PROVE j <= i
      <4>1. Width - 1 - j \in 0..Width - 1 /\ Width - 1 - (Width - 1 - j) = j
        BY <1>0
      <4>2. n <= Width - 1 - j
        BY <3>3, <3>6, <4>1
      <4> QED BY <1>0, <3>3, <3>4, <4>1, <4>2
    <3>7. b[i] < a[i]
      BY <1>0, <1>2, <3>5 DEF Arrays, Digits
    <3> QED BY <3>5, <3>6, <3>7 DEF LeLeq
  <2> QED BY <2>1, <2>2
<1>4. LittleEndian(b) <= LittleEndian(a) /\ LittleEndian(a) \in 0..Top
  BY <1>2, <1>3, LeLeqIsNumeric
<1> QED BY <1>0, <1>2, <1>4

(* The carry of scaled_bound_le_from_target_be.                            *)
LEMMA CarryIs ==
  ASSUME NEW target_be \in Arrays, NEW factor \in Nat
  PROVE  \E carry \in [0..Width -> Nat] :
           /\ carry[0] = 0
           /\ \A i \in 0..Width - 1 :
                carry[i + 1] = (Reversed(target_be)[i] * factor + carry[i]) \div Base
           /\ ScaledBound(target_be, factor)
                = IF carry[Width] > 0 THEN [i \in 0..Width - 1 |-> Base - 1]
                  ELSE [i \in 0..Width - 1 |-> (Reversed(target_be)[i] * factor + carry[i]) % Base]
<1>0. Base \in Nat \ {0, 1} /\ Width \in Nat /\ Base \in Nat \ {0}
  BY WidthAssumption
<1>1. PICK le : le = Reversed(target_be)
  OBVIOUS
<1>2. \A i \in 0..Width - 1 : le[i] \in Nat
  BY <1>0, <1>1, ReversedIs DEF Digits
<1> DEFINE F == [i \in 1..Width |-> [s \in Nat |-> (le[i - 1] * factor + s) \div Base]]
           IsIt(g) == g = [i \in 0..Width |-> IF i = 0 THEN 0
                             ELSE (Reversed(target_be)[i - 1] * factor + g[i - 1]) \div Base]
<1>3. ASSUME NEW i \in 0..Width - 1, NEW s \in Nat PROVE (le[i] * factor + s) \div Base \in Nat
  <2>1. PICK x : x = le[i] * factor
    OBVIOUS
  <2>2. x \in Nat
    BY <1>2, <2>1
  <2>3. x + s \in Nat
    BY <2>2
  <2> QED BY <1>0, <2>1, <2>3, Division
<1>4. Steps(F, Width, Nat)
  <2>1. \A i \in 1..Width : i - 1 \in 0..Width - 1
    BY <1>0
  <2> QED BY <1>3, <2>1 DEF Steps
<1>5. PICK f \in [0..Width -> Nat] : f[0] = 0 /\ Follows(f, F, Width)
  <2> HIDE DEF F
  <2>1. Width \in Nat /\ 0 \in Nat
    BY <1>0
  <2> QED BY <1>4, <2>1, Recursion, Zenon
<1>6. ASSUME NEW i \in 0..Width
      PROVE  f[i] = IF i = 0 THEN 0 ELSE (le[i - 1] * factor + f[i - 1]) \div Base
  <2>1. i # 0 => i \in 1..Width /\ i - 1 \in 0..Width
    BY <1>0
  <2>2. i # 0 => f[i] = F[i][f[i - 1]] /\ f[i - 1] \in Nat
    BY <1>5, <2>1 DEF Follows
  <2> QED BY <1>5, <2>1, <2>2
<1>7. IsIt(f)
  <2>1. f = [i \in 0..Width |-> f[i]]
    OBVIOUS
  <2> QED BY <1>1, <1>6, <2>1, Zenon
<1>8. PICK g : g = (CHOOSE h : IsIt(h))
  OBVIOUS
<1>9. IsIt(g)
  BY <1>7, <1>8, Zenon
<1>10. ScaledBound(target_be, factor)
         = IF g[Width] > 0 THEN [i \in 0..Width - 1 |-> Base - 1]
           ELSE [i \in 0..Width - 1 |-> (Reversed(target_be)[i] * factor + g[i]) % Base]
  <2>1. ScaledBound(target_be, factor)
          = IF (CHOOSE h : IsIt(h))[Width] > 0 THEN [i \in 0..Width - 1 |-> Base - 1]
            ELSE [i \in 0..Width - 1 |->
                    (Reversed(target_be)[i] * factor + (CHOOSE h : IsIt(h))[i]) % Base]
    BY DEF ScaledBound
  <2> HIDE DEF IsIt
  <2> QED BY <1>8, <2>1, Zenon
<1>11. \A i \in 0..Width : g[i] = IF i = 0 THEN 0 ELSE (le[i - 1] * factor + g[i - 1]) \div Base
  BY <1>1, <1>9
<1>12. g[0] = 0
  BY <1>0, <1>11
<1>13. ASSUME NEW i \in 0..Width - 1 PROVE g[i + 1] = (le[i] * factor + g[i]) \div Base
  <2>1. i + 1 \in 0..Width /\ i + 1 # 0 /\ i + 1 - 1 = i
    BY <1>0
  <2> QED BY <1>11, <2>1
<1>14. g = [i \in 0..Width |-> g[i]]
  BY <1>9
<1> DEFINE T == {i \in 0..Width : g[i] \in Nat}
<1>15. 0 \in T
  BY <1>0, <1>12
<1>16. ASSUME NEW i \in 0..Width - 1, i \in T PROVE i + 1 \in T
  <2>1. i + 1 \in 0..Width
    BY <1>0
  <2> QED BY <1>3, <1>13, <1>16, <2>1
<1> HIDE DEF T
<1>17. \A i \in 0..Width : i \in T
  BY <1>0, <1>15, <1>16, InductionTo
<1>18. g \in [0..Width -> Nat]
  BY <1>14, <1>17 DEF T
<1>19. \A i \in 0..Width - 1 : g[i + 1] = (Reversed(target_be)[i] * factor + g[i]) \div Base
  BY <1>1, <1>13
<1> QED BY <1>10, <1>12, <1>18, <1>19, Zenon

(* Byte by byte, with a carry, or in one product: the same bound.          *)
THEOREM ScaledBoundIs ==
  ASSUME NEW target_be \in Arrays, NEW factor \in Nat
  PROVE  ScaledBound(target_be, factor) = DifficultyBound(target_be, factor)
<1>0. Base \in Nat \ {0, 1} /\ Width \in Nat /\ Base \in Nat \ {0}
  BY WidthAssumption
<1>1. PICK carry \in [0..Width -> Nat] :
        /\ carry[0] = 0
        /\ \A i \in 0..Width - 1 :
             carry[i + 1] = (Reversed(target_be)[i] * factor + carry[i]) \div Base
        /\ ScaledBound(target_be, factor)
             = IF carry[Width] > 0 THEN [i \in 0..Width - 1 |-> Base - 1]
               ELSE [i \in 0..Width - 1 |-> (Reversed(target_be)[i] * factor + carry[i]) % Base]
  BY CarryIs
<1>2. PICK le : le = Reversed(target_be)
  OBVIOUS
<1>3. \A i \in 0..Width - 1 : target_be[i] \in Nat /\ target_be[i] \in Digits
  BY <1>0 DEF Arrays, Digits
<1>4. \A i \in 0..Width - 1 : le[i] = target_be[Width - 1 - i] /\ le[i] \in Nat
  BY <1>0, <1>2, ReversedIs DEF Digits
<1>5. PICK out : out = [i \in 0..Width - 1 |-> (le[i] * factor + carry[i]) % Base]
  OBVIOUS
<1>6. ASSUME NEW i \in 0..Width - 1
      PROVE  /\ out[i] \in Digits /\ out[i] \in Nat
             /\ le[i] * factor + carry[i] = Base * carry[i + 1] + out[i]
  <2>1. PICK x, c : x = le[i] * factor /\ c = carry[i]
    OBVIOUS
  <2>2. i \in 0..Width
    BY <1>0
  <2>3. x \in Nat /\ c \in Nat
    BY <1>4, <2>1, <2>2
  <2>4. x + c \in Nat
    BY <2>3
  <2>5. out[i] = (x + c) % Base /\ carry[i + 1] = (x + c) \div Base
    BY <1>1, <1>2, <1>5, <2>1
  <2>6. (x + c) % Base \in 0..Base - 1 /\ x + c = Base * ((x + c) \div Base) + ((x + c) % Base)
    BY <1>0, <2>4, Division
  <2> QED BY <1>0, <2>1, <2>5, <2>6 DEF Digits
<1>7. out \in Arrays
  BY <1>5, <1>6 DEF Arrays
<1>8. PICK ro : ro = Reversed(out)
  OBVIOUS
<1>9. \A i \in 0..Width - 1 : ro[i] = out[Width - 1 - i] /\ ro[i] \in Nat
  BY <1>0, <1>7, <1>8, ReversedIs DEF Digits
<1>10. PICK v : IsValueOf(v, target_be) /\ BigEndian(target_be) = v[Width]
  BY <1>3, BigEndianIs
<1>11. v \in [0..Width -> Nat] /\ v[0] = 0 /\ \A i \in 0..Width - 1 : v[i + 1] = v[i] * Base + target_be[i]
  BY <1>10 DEF IsValueOf
<1>12. PICK w : IsValueOf(w, ro) /\ BigEndian(ro) = w[Width]
  BY <1>9, BigEndianIs
<1>13. w \in [0..Width -> Nat] /\ w[0] = 0 /\ \A i \in 0..Width - 1 : w[i + 1] = w[i] * Base + ro[i]
  BY <1>12 DEF IsValueOf
<1>14. PICK c : c = carry[Width]
  OBVIOUS
<1>15. c \in Nat
  BY <1>0, <1>14
<1> DEFINE T == {j \in 0..Width : v[j] * factor + carry[Width - j] = w[j] + c * Weight[j]}
<1>16. 0 \in T
  <2>1. v[0] * factor = 0 /\ c * 1 = c /\ Width - 0 = Width
    BY <1>0, <1>11, <1>15
  <2> QED BY <1>0, <1>13, <1>14, <1>15, <2>1, SmallWeights
<1>17. ASSUME NEW j \in 0..Width - 1, j \in T PROVE j + 1 \in T
  <2>1. PICK i : i = Width - 1 - j
    OBVIOUS
  <2>2. i \in 0..Width - 1 /\ i + 1 = Width - j /\ i = Width - (j + 1) /\ j + 1 \in 0..Width /\ j \in 0..Width
        /\ Width - 1 - i = j /\ Width - 1 - j = i /\ i \in 0..Width /\ i + 1 \in 0..Width /\ j \in Nat
    BY <1>0, <2>1
  <2>3. PICK x, l, k, k2, o, y, z : /\ x = v[j] /\ l = le[i] /\ k = carry[i] /\ k2 = carry[i + 1]
                                    /\ o = out[i] /\ y = w[j] /\ z = Weight[j]
    OBVIOUS
  <2>4. x \in Nat /\ k \in Nat /\ k2 \in Nat /\ y \in Nat
    BY <1>1, <1>11, <1>13, <2>2, <2>3
  <2>5. l \in Nat /\ o \in Nat /\ z \in Nat
    BY <1>4, <1>6, <2>2, <2>3, WeightType
  <2>6. v[j + 1] = x * Base + l
    BY <1>4, <1>11, <2>2, <2>3
  <2>7. w[j + 1] = y * Base + o
    BY <1>9, <1>13, <2>2, <2>3
  <2>8. Weight[j + 1] = Base * z
    BY <2>2, <2>3, WeightNext
  <2>9. l * factor + k = Base * k2 + o
    BY <1>6, <2>2, <2>3
  <2>10. x * factor + k2 = y + c * z
    BY <1>17, <2>2, <2>3
  <2>11. (x * Base + l) * factor = Base * (x * factor) + l * factor
    BY <1>0, <2>4, <2>5
  <2>12. Base * (x * factor + k2) = Base * (x * factor) + Base * k2
    BY <1>0, <2>4
  <2>13. Base * (y + c * z) = y * Base + c * (Base * z)
    BY <1>0, <1>15, <2>4, <2>5
  <2>14. PICK p1, p2, p3, p4, p5 : /\ p1 = Base * (x * factor) /\ p2 = l * factor /\ p3 = Base * k2
                                   /\ p4 = y * Base /\ p5 = c * (Base * z)
    OBVIOUS
  <2>15. p1 \in Nat /\ p2 \in Nat /\ p3 \in Nat /\ p4 \in Nat /\ p5 \in Nat
    BY <1>0, <1>15, <2>4, <2>5, <2>14
  <2>16. p1 + p3 = p4 + p5
    BY <2>10, <2>12, <2>13, <2>14
  <2>17. p2 + k = p3 + o
    BY <2>9, <2>14
  <2>18. p1 + p2 + k = p4 + o + p5
    BY <2>4, <2>5, <2>15, <2>16, <2>17
  <2>19. v[j + 1] * factor = p1 + p2 /\ w[j + 1] = p4 + o /\ c * Weight[j + 1] = p5
    BY <2>6, <2>7, <2>8, <2>11, <2>14
  <2>20. v[j + 1] * factor + carry[Width - (j + 1)] = w[j + 1] + c * Weight[j + 1]
    BY <2>2, <2>3, <2>18, <2>19
  <2> QED BY <2>2, <2>20
<1> HIDE DEF T
<1>18. Width \in T
  <2>1. \A j \in 0..Width : j \in T
    BY <1>0, <1>16, <1>17, InductionTo
  <2> QED BY <1>0, <2>1
<1>19. PICK t, product, s : t = BigEndian(target_be) /\ product = t * factor /\ s = LittleEndian(out)
  OBVIOUS
<1>20. t \in Nat /\ product \in Nat /\ s \in 0..Top /\ Top \in Nat
  <2>1. t \in 0..Top /\ Top \in Nat
    BY <1>3, <1>19, ValueBound
  <2>2. s \in 0..Top
    BY <1>7, <1>19, LeLeqIsNumeric
  <2> QED BY <1>19, <2>1, <2>2
<1>21. product = s + c * (Top + 1)
  <2>1. v[Width] * factor + carry[Width - Width] = w[Width] + c * Weight[Width]
    BY <1>18 DEF T
  <2>2. Width - Width = 0 /\ Weight[Width] \in Nat
    BY <1>0, WeightType
  <2>3. Weight[Width] = Top + 1
    BY <2>2 DEF Top
  <2> QED BY <1>1, <1>8, <1>10, <1>12, <1>19, <1>20, <2>1, <2>2, <2>3 DEF LittleEndian
<1>22. PICK bound : bound = ScaledBound(target_be, factor)
  OBVIOUS
<1>23. PICK whole : whole = IF product > Top THEN Top ELSE product
  OBVIOUS
<1>24. whole \in 0..Top
  BY <1>20, <1>23
<1>25. bound \in Arrays /\ LittleEndian(bound) = whole
  <2>1. CASE c > 0
    <3>1. bound = [i \in 0..Width - 1 |-> Base - 1]
      BY <1>1, <1>14, <1>22, <2>1
    <3>2. bound \in Arrays /\ \A i \in 0..Width - 1 : bound[i] = Base - 1
      BY <1>0, <3>1 DEF Arrays, Digits
    <3>3. LittleEndian(bound) = Top
      BY <3>2, FullIsTop
    <3>4. c * (Top + 1) >= Top + 1
      <4>1. Top + 1 \in Nat \ {0} /\ (Top + 1) * 1 = Top + 1 /\ c * (Top + 1) = (Top + 1) * c /\ 1 \in Nat
        BY <1>15, <1>20
      <4>2. (Top + 1) * 1 <= (Top + 1) * c
        BY <1>15, <2>1, <4>1, Monotone
      <4> QED BY <4>1, <4>2
    <3>5. c * (Top + 1) \in Nat
      BY <1>15, <1>20
    <3>6. product > Top
      BY <1>20, <1>21, <3>4, <3>5
    <3> QED BY <1>23, <3>2, <3>3, <3>6
  <2>2. CASE c = 0
    <3>1. bound = out
      <4>1. bound = [i \in 0..Width - 1 |-> (le[i] * factor + carry[i]) % Base]
        BY <1>1, <1>2, <1>14, <1>22, <2>2
      <4> QED BY <1>5, <4>1, Zenon
    <3>2. c * (Top + 1) = 0
      BY <1>20, <2>2
    <3>3. product = s /\ ~(product > Top)
      BY <1>20, <1>21, <3>2
    <3> QED BY <1>7, <1>19, <1>23, <3>1, <3>3
  <2> QED BY <1>15, <2>1, <2>2
<1>26. DifficultyBound(target_be, factor) = ToLittleEndian(whole)
  BY <1>19, <1>23, BoundSaturates
<1>27. ToLittleEndian(whole) \in Arrays /\ LittleEndian(ToLittleEndian(whole)) = whole
  BY <1>24, ToLittleEndianIs
<1>28. bound = ToLittleEndian(whole)
  BY <1>25, <1>27, LeLeqIsNumeric
<1> QED BY <1>22, <1>26, <1>28

(* The number that a share bound is.                                       *)
LEMMA ShareBoundIs ==
  ASSUME NEW difficulty \in Nat, NEW factor \in Nat
  PROVE  /\ ShareBound(difficulty, factor) \in Arrays
         /\ LittleEndian(ShareBound(difficulty, factor))
              = IF (Top \div Divisor(difficulty)) * factor > Top THEN Top
                ELSE (Top \div Divisor(difficulty)) * factor
<1>1. PICK t : t = ShareTarget(difficulty)
  OBVIOUS
<1>2. t \in Arrays /\ BigEndian(t) = Top \div Divisor(difficulty)
  BY <1>1, ShareTargetIs
<1>3. \A i \in 0..Width - 1 : t[i] \in Digits
  BY <1>2 DEF Arrays
<1>4. BigEndian(t) \in 0..Top /\ Top \in Nat
  BY <1>3, ValueBound
<1>5. PICK x, product : x = BigEndian(t) /\ product = x * factor
  OBVIOUS
<1>6. PICK whole : whole = IF product > Top THEN Top ELSE product
  OBVIOUS
<1>7. product \in Nat
  BY <1>4, <1>5
<1>8. whole \in 0..Top
  BY <1>4, <1>6, <1>7
<1>9. ShareBound(difficulty, factor) = ToLittleEndian(whole)
  BY <1>1, <1>2, <1>5, <1>6, BoundSaturates DEF ShareBound
<1> QED BY <1>2, <1>5, <1>6, <1>8, <1>9, ToLittleEndianIs

(* What the search compares a jackpot with is exact, whatever the width of *)
(* the numbers, the difficulty and the work of a tile: floor(MAX /         *)
(* difficulty) times the work, saturated, by either way of the code; and a *)
(* jackpot that meets it meets the bound of every lower difficulty.        *)
THEOREM BoundAlwaysExact ==
  ASSUME input \in BoundInputs(Nat, Nat)
  PROVE  BoundIsExact
<1>1. PICK difficulty \in Nat, factor \in Nat : difficulty = input.difficulty /\ factor = input.factor
  BY DEF BoundInputs
<1>2. Top \in Nat
  <2>1. \A i \in 0..Width - 1 : [j \in 0..Width - 1 |-> 0][i] \in Digits
    BY WidthAssumption DEF Digits
  <2> QED BY <2>1, ValueBound
<1>3. PICK b : b = ShareBound(difficulty, factor)
  OBVIOUS
<1>4. b \in Arrays /\ LittleEndian(b) = IF (Top \div Divisor(difficulty)) * factor > Top THEN Top
                                        ELSE (Top \div Divisor(difficulty)) * factor
  BY <1>3, ShareBoundIs
<1>5. b = ScaledBound(ShareTarget(difficulty), factor)
  <2>1. ShareTarget(difficulty) \in Arrays
    BY ShareTargetIs
  <2> QED BY <1>3, <2>1, ScaledBoundIs DEF ShareBound
<1>6. ASSUME NEW d \in 0..MaxDifficulty
      PROVE  LET easier == ShareBound(d, factor)
             IN /\ LeLeq(b, easier) <=> LittleEndian(b) <= LittleEndian(easier)
                /\ d <= difficulty => LeLeq(b, easier)
  <2>0. d \in Nat
    BY DifficultyAssumption
  <2>1. PICK e : e = ShareBound(d, factor)
    OBVIOUS
  <2>2. e \in Arrays /\ LittleEndian(e) = IF (Top \div Divisor(d)) * factor > Top THEN Top
                                          ELSE (Top \div Divisor(d)) * factor
    BY <2>0, <2>1, ShareBoundIs
  <2>3. LeLeq(b, e) <=> LittleEndian(b) <= LittleEndian(e)
    BY <1>4, <2>2, LeLeqIsNumeric
  <2>4. ASSUME d <= difficulty PROVE LittleEndian(b) <= LittleEndian(e)
    <3>1. PICK x, y : x = Divisor(d) /\ y = Divisor(difficulty)
      OBVIOUS
    <3>2. x \in Nat \ {0} /\ y \in Nat \ {0} /\ x <= y
      BY <2>0, <2>4, <3>1 DEF Divisor
    <3>3. PICK q, r : q = Top \div y /\ r = Top \div x
      OBVIOUS
    <3>4. q \in Nat /\ r \in Nat
      BY <1>2, <3>2, <3>3, Division
    <3>5. q <= r
      BY <1>2, <3>2, <3>3, DivideByLess
    <3>6. q * factor \in Nat /\ r * factor \in Nat
      BY <3>4
    <3>7. q * factor <= r * factor
      <4>1. factor = 0 => q * factor = 0
        BY <3>4
      <4>2. factor # 0 => factor * q <= factor * r
        BY <3>4, <3>5, Monotone
      <4>3. factor * q = q * factor /\ factor * r = r * factor
        BY <3>4
      <4> QED BY <3>6, <4>1, <4>2, <4>3
    <3> QED BY <1>2, <1>4, <2>2, <3>1, <3>3, <3>6, <3>7
  <2> QED BY <2>1, <2>3, <2>4
<1>7. input.difficulty = difficulty /\ input.factor = factor
  BY <1>1
<1> QED BY <1>3, <1>4, <1>5, <1>6, <1>7 DEF BoundIsExact

-----------------------------------------------------------------------------
(* The target of a job.  Three digits of a mantissa, written at an offset, *)
(* are worth the mantissa times what the digit after them is worth.        *)
LEMMA WrittenIs ==
  ASSUME NEW m \in 0..Weight[3] - 1, NEW offset \in 0..Width - 3, NEW a,
         a = [i \in 0..Width - 1 |-> IF i \in offset..offset + 2 THEN Digit(m, offset + 2 - i) ELSE 0]
  PROVE  BigEndian(a) = m * Weight[Width - 3 - offset] /\ BigEndian(a) \in 0..Top
<1>0. Base \in Nat \ {0, 1} /\ Base \in Nat \ {0} /\ Width \in Nat /\ offset \in Nat /\ offset + 3 <= Width
  BY WidthAssumption
<1>1. m \in Nat /\ m < Weight[3] /\ Weight[3] \in Nat \ {0} /\ Weight[3] = Base * Base * Base
  BY WeightType, SmallWeights
<1>2. PICK q1, q2 : q1 = m \div Base /\ q2 = q1 \div Base
  OBVIOUS
<1>3. q1 \in Nat /\ m % Base \in 0..Base - 1 /\ m = Base * q1 + (m % Base)
  BY <1>0, <1>1, <1>2, Division
<1>4. q2 \in Nat /\ q1 % Base \in 0..Base - 1 /\ q1 = Base * q2 + (q1 % Base)
  BY <1>0, <1>2, <1>3, Division
<1>5. q2 \in 0..Base - 1 /\ q2 % Base = q2
  <2>0. m \in Nat /\ Base \in Nat \ {0}
    BY <1>0, <1>1
  <2>1. PICK square : square = Base * Base
    OBVIOUS
  <2>2. square \in Nat \ {0} /\ m \div square = (m \div Base) \div Base
    <3>1. square \in Nat \ {0}
      BY <2>0, <2>1
    <3>2. m \div (Base * Base) = (m \div Base) \div Base
      BY <2>0, DivideByProduct, Zenon
    <3> QED BY <2>1, <3>1, <3>2, Zenon
  <2>3. m \div (square * Base) = (m \div square) \div Base
    BY <2>0, <2>2, DivideByProduct, Zenon
  <2>4. m \div Weight[3] = 0
    BY <1>1, BelowDivisor
  <2>5. q2 \div Base = 0
    BY <1>1, <1>2, <2>1, <2>3, <2>4, <2>2
  <2>6. q2 % Base \in 0..Base - 1 /\ q2 = Base * (q2 \div Base) + (q2 % Base)
    BY <1>0, <1>4, Division
  <2>7. Base * (q2 \div Base) = 0
    BY <1>0, <2>5
  <2>8. PICK r \in 0..Base - 1 : r = q2 % Base
    BY <2>6
  <2>9. q2 = 0 + r
    BY <2>6, <2>7, <2>8, Zenon
  <2>10. q2 = r
    BY <2>8, <2>9
  <2> QED BY <2>8, <2>10
<1>6. Digit(m, 0) = m % Base /\ Digit(m, 1) = q1 % Base /\ Digit(m, 2) = q2
  <2>1. m \div 1 = m
    <3>1. 1 \in Nat \ {0} /\ 0 \in 0..1 - 1 /\ m = 1 * m + 0
      BY <1>1
    <3> QED BY <1>1, <3>1, DivisionIs
  <2>2. m \in Nat /\ Base \in Nat \ {0}
    BY <1>0, <1>1
  <2>3. m \div (Base * Base) = (m \div Base) \div Base
    BY <2>2, DivideByProduct, Zenon
  <2> QED BY <1>2, <1>5, <2>1, <2>3, SmallWeights DEF Digit
<1>7. ASSUME NEW i \in 0..Width - 1
      PROVE  /\ i < offset => a[i] = 0
             /\ i = offset => a[i] = q2
             /\ i = offset + 1 => a[i] = q1 % Base
             /\ i = offset + 2 => a[i] = m % Base
             /\ i > offset + 2 => a[i] = 0
  <2>1. a[i] = IF i \in offset..offset + 2 THEN Digit(m, offset + 2 - i) ELSE 0
    OBVIOUS
  <2>2. CASE i \in offset..offset + 2
    <3>1. /\ i = offset => offset + 2 - i = 2
          /\ i = offset + 1 => offset + 2 - i = 1
          /\ i = offset + 2 => offset + 2 - i = 0
      BY <1>0
    <3> QED BY <1>0, <1>6, <2>1, <2>2, <3>1
  <2>3. CASE i \notin offset..offset + 2
    <3>1. a[i] = 0 /\ (i < offset \/ i > offset + 2) /\ i \in Nat
      BY <1>0, <2>1, <2>3
    <3> QED BY <1>0, <3>1
  <2> QED BY <2>2, <2>3
<1>8. ASSUME NEW i \in 0..Width - 1 PROVE a[i] \in Digits /\ a[i] \in Nat
  <2>1. i < offset \/ i = offset \/ i = offset + 1 \/ i = offset + 2 \/ i > offset + 2
    BY <1>0
  <2>2. 0 \in 0..Base - 1 /\ q2 \in 0..Base - 1 /\ q1 % Base \in 0..Base - 1 /\ m % Base \in 0..Base - 1
    BY <1>0, <1>3, <1>4, <1>5
  <2>3. a[i] \in 0..Base - 1
    BY <1>7, <2>1, <2>2, Zenon
  <2> QED BY <1>0, <2>3 DEF Digits
<1>9. PICK v : IsValueOf(v, a) /\ BigEndian(a) = v[Width]
  BY <1>8, BigEndianIs
<1>10. v \in [0..Width -> Nat] /\ v[0] = 0 /\ \A i \in 0..Width - 1 : v[i + 1] = v[i] * Base + a[i]
  BY <1>9 DEF IsValueOf
<1>11. v[offset] = 0
  <2> DEFINE T == {i \in 0..offset : v[i] = 0}
  <2>1. 0 \in T
    BY <1>0, <1>10
  <2>2. ASSUME NEW i \in 0..offset - 1, i \in T PROVE i + 1 \in T
    <3>1. i \in 0..Width - 1 /\ i < offset /\ i + 1 \in 0..offset
      BY <1>0
    <3>2. v[i] = 0 /\ a[i] = 0 /\ v[i + 1] = v[i] * Base + a[i]
      BY <1>7, <1>10, <2>2, <3>1
    <3>3. v[i + 1] = 0
      BY <1>0, <3>2
    <3> QED BY <3>1, <3>3
  <2> HIDE DEF T
  <2>3. \A i \in 0..offset : i \in T
    BY <1>0, <2>1, <2>2, InductionTo
  <2>4. offset \in T
    BY <1>0, <2>3
  <2> QED BY <2>4 DEF T
<1>12. v[offset + 3] = m
  <2>1. /\ offset \in 0..Width - 1 /\ offset + 1 \in 0..Width - 1 /\ offset + 2 \in 0..Width - 1
        /\ offset + 1 + 1 = offset + 2 /\ offset + 2 + 1 = offset + 3
    BY <1>0
  <2>2. v[offset + 1] = q2
    <3>1. v[offset + 1] = v[offset] * Base + a[offset] /\ a[offset] = q2
      BY <1>7, <1>10, <2>1
    <3> QED BY <1>0, <1>4, <1>11, <3>1
  <2>3. v[offset + 2] = q1
    <3>1. v[offset + 2] = v[offset + 1] * Base + a[offset + 1] /\ a[offset + 1] = q1 % Base
      BY <1>7, <1>10, <2>1
    <3>2. q2 * Base = Base * q2
      BY <1>0, <1>4
    <3> QED BY <1>4, <2>2, <3>1, <3>2
  <2>4. v[offset + 3] = v[offset + 2] * Base + a[offset + 2] /\ a[offset + 2] = m % Base
    BY <1>7, <1>10, <2>1
  <2>5. q1 * Base = Base * q1
    BY <1>0, <1>3
  <2> QED BY <1>3, <2>3, <2>4, <2>5
<1>13. PICK n : n = Width - 3 - offset
  OBVIOUS
<1>14. n \in Nat /\ offset + 3 + n = Width
  BY <1>0, <1>13
<1> DEFINE T == {j \in 0..n : v[offset + 3 + j] = m * Weight[j]}
<1>15. 0 \in T
  <2>1. offset + 3 + 0 = offset + 3 /\ m * 1 = m
    BY <1>0, <1>1
  <2> QED BY <1>12, <1>14, <2>1, SmallWeights
<1>16. ASSUME NEW j \in 0..n - 1, j \in T PROVE j + 1 \in T
  <2>1. PICK i : i = offset + 3 + j
    OBVIOUS
  <2>2. i \in 0..Width - 1 /\ i > offset + 2 /\ i + 1 = offset + 3 + (j + 1) /\ j + 1 \in 0..n /\ j \in Nat
    BY <1>0, <1>14, <2>1
  <2>3. v[i + 1] = v[i] * Base + 0 /\ v[i] = m * Weight[j]
    BY <1>7, <1>10, <1>16, <2>1, <2>2
  <2>4. Weight[j] \in Nat /\ Weight[j + 1] = Base * Weight[j]
    BY <2>2, WeightType, WeightNext
  <2>5. m * Weight[j] \in Nat /\ (m * Weight[j]) * Base = m * (Base * Weight[j])
    BY <1>0, <1>1, <2>4
  <2>6. v[i] * Base + 0 = v[i] * Base
    BY <1>0, <2>3, <2>5
  <2>7. v[i + 1] = m * Weight[j + 1]
    BY <2>3, <2>4, <2>5, <2>6
  <2> QED BY <2>2, <2>7
<1> HIDE DEF T
<1>17. n \in T
  <2>1. \A j \in 0..n : j \in T
    BY <1>14, <1>15, <1>16, InductionTo
  <2> QED BY <1>14, <2>1
<1>18. v[Width] = m * Weight[n]
  BY <1>14, <1>17 DEF T
<1>19. BigEndian(a) \in 0..Top
  BY <1>8, ValueBound
<1> QED BY <1>9, <1>13, <1>18, <1>19

(* The target of a job is what its compact form says, for every exponent   *)
(* within the width and every mantissa.                                    *)
THEOREM NbitsAlwaysDecoded ==
  ASSUME input \in NbitsInputs
  PROVE  NbitsDecoded
<1>0. Base \in Nat \ {0, 1} /\ Width \in Nat /\ Width >= 3 /\ Width - 3 \in 0..Width - 3
  BY WidthAssumption
<1>1. PICK e \in 0..Width, m \in 0..Weight[3] - 1 : e = input.exponent /\ m = input.mantissa
  BY DEF NbitsInputs
<1>2. Weight[3] \in Nat \ {0} /\ m \in Nat /\ m < Weight[3] /\ e \in Nat /\ Top \in Nat /\ Weight[Width] = Top + 1
  BY <1>0, WeightType DEF Top
<1>3. PICK a : a = DecodeNbits(e, m)
  OBVIOUS
<1>4. CASE e > 3
  <2>1. PICK offset : offset = Width - e
    OBVIOUS
  <2>2. offset \in 0..Width - 3 /\ Width - 3 - offset = e - 3
    BY <1>0, <1>2, <1>4, <2>1
  <2>3. a = [i \in 0..Width - 1 |-> IF i \in offset..offset + 2 THEN Digit(m, offset + 2 - i) ELSE 0]
    BY <1>2, <1>3, <1>4, <2>1 DEF DecodeNbits, Place
  <2>4. BigEndian(a) = m * Weight[Width - 3 - offset] /\ BigEndian(a) \in 0..Top
    BY <2>2, <2>3, WrittenIs
  <2>5. BigEndian(a) = m * Weight[e - 3]
    BY <2>2, <2>4
  <2>6. BigEndian(a) = (m * Weight[e - 3]) % Weight[Width]
    <3>1. PICK x : x = BigEndian(a)
      OBVIOUS
    <3>2. Weight[Width] \in Nat \ {0} /\ x \in 0..Weight[Width] - 1
      BY <1>2, <2>4, <3>1
    <3>3. x % Weight[Width] = x
      BY <3>2, BelowDivisor
    <3> QED BY <2>5, <3>1, <3>3
  <2> QED BY <1>1, <1>2, <1>3, <1>4, <2>6 DEF NbitsDecoded
<1>5. CASE e <= 3
  <2>1. PICK q : q = m \div Weight[3 - e]
    OBVIOUS
  <2>2. 3 - e \in Nat /\ Weight[3 - e] \in Nat \ {0}
    BY <1>2, <1>5, WeightType
  <2>3. q \in Nat /\ q <= m
    <3>1. 1 \in Nat \ {0} /\ 1 <= Weight[3 - e] /\ 0 \in 0..1 - 1 /\ m = 1 * m + 0
      BY <1>2, <2>2
    <3>2. m \div Weight[3 - e] <= m \div 1
      BY <1>2, <2>2, <3>1, DivideByLess
    <3>3. m \div 1 = m
      BY <1>2, <3>1, DivisionIs
    <3>4. q \in Nat
      BY <1>2, <2>1, <2>2, Division
    <3> QED BY <2>1, <3>2, <3>3, <3>4
  <2>4. PICK offset : offset = Width - 3
    OBVIOUS
  <2>5. q \in 0..Weight[3] - 1 /\ offset \in 0..Width - 3 /\ Width - 3 - offset = 0
    BY <1>0, <1>2, <2>3, <2>4
  <2>6. a = [i \in 0..Width - 1 |-> IF i \in offset..offset + 2 THEN Digit(q, offset + 2 - i) ELSE 0]
    BY <1>2, <1>3, <1>5, <2>1, <2>4 DEF DecodeNbits
  <2>7. BigEndian(a) = q * Weight[Width - 3 - offset] /\ BigEndian(a) \in 0..Top
    BY <2>5, <2>6, WrittenIs
  <2>8. BigEndian(a) = q
    BY <2>3, <2>5, <2>7, SmallWeights
  <2>9. CASE e = 3
    <3>1. e - 3 = 0 /\ 3 - e = 0 /\ m * 1 = m
      BY <1>2, <2>9
    <3>2. q = m
      <4>1. 1 \in Nat \ {0} /\ 0 \in 0..1 - 1 /\ m = 1 * m + 0
        BY <1>2
      <4>2. m \div 1 = m
        BY <1>2, <4>1, DivisionIs
      <4> QED BY <2>1, <3>1, <4>2, SmallWeights
    <3>3. m * Weight[e - 3] = m
      BY <3>1, SmallWeights
    <3>4. Weight[Width] \in Nat \ {0} /\ m \in 0..Weight[Width] - 1
      BY <1>2, <2>7, <2>8, <3>2
    <3>5. m % Weight[Width] = m
      BY <3>4, BelowDivisor
    <3>6. BigEndian(a) = (m * Weight[e - 3]) % Weight[Width]
      BY <2>8, <3>2, <3>3, <3>5
    <3> QED BY <1>1, <1>3, <2>9, <3>6 DEF NbitsDecoded
  <2>10. CASE e < 3
    <3>1. ~(e >= 3)
      BY <1>2, <2>10
    <3> QED BY <1>1, <1>3, <2>1, <2>8, <3>1 DEF NbitsDecoded
  <2> QED BY <1>2, <1>5, <2>9, <2>10
<1> QED BY <1>2, <1>4, <1>5

-----------------------------------------------------------------------------
(* The ascending list of a finite set of numbers.                          *)

Rank(S, i) == Cardinality({j \in S : j < i})

(* A member of a finite set comes after fewer than all of it.              *)
LEMMA RankIs ==
  ASSUME NEW S \in SUBSET Nat, IsFiniteSet(S), NEW a \in S
  PROVE  Rank(S, a) \in 0..Cardinality(S) - 1
<1> DEFINE U == {j \in S : j < a}
<1>1. IsFiniteSet(U) /\ Cardinality(U) \in Nat /\ Cardinality(S) \in Nat
  <2>1. U \in SUBSET S
    OBVIOUS
  <2> QED BY <2>1, FS_Subset, FS_CardinalityType
<1>2. IsFiniteSet(U \cup {a}) /\ Cardinality(U \cup {a}) = Cardinality(U) + 1
  <2>1. a \notin U
    OBVIOUS
  <2> HIDE DEF U
  <2> QED BY <1>1, <2>1, FS_AddElement
<1>3. Cardinality(U \cup {a}) <= Cardinality(S)
  <2>1. U \cup {a} \in SUBSET S
    OBVIOUS
  <2> HIDE DEF U
  <2> QED BY <2>1, FS_Subset
<1>4. Rank(S, a) = Cardinality(U)
  BY DEF Rank
<1> HIDE DEF U
<1> QED BY <1>1, <1>2, <1>3, <1>4

(* A larger member comes after more.                                       *)
LEMMA RankAscends ==
  ASSUME NEW S \in SUBSET Nat, IsFiniteSet(S), NEW a \in S, NEW b \in S, a < b
  PROVE  Rank(S, a) < Rank(S, b)
<1> DEFINE V == {j \in S : j < b}
<1>1. V \in SUBSET Nat /\ a \in V /\ V \in SUBSET S
  OBVIOUS
<1>2. IsFiniteSet(V) /\ Cardinality(V) = Rank(S, b)
  BY <1>1, FS_Subset DEF Rank
<1>3. {j \in V : j < a} = {j \in S : j < a}
  <2>1. \A j \in S : j < a => j < b
    BY SMT
  <2> QED BY <2>1
<1>4. Rank(V, a) = Rank(S, a)
  BY <1>3 DEF Rank
<1> HIDE DEF V
<1>5. Rank(V, a) \in 0..Cardinality(V) - 1 /\ Cardinality(V) \in Nat
  BY <1>1, <1>2, RankIs, FS_CardinalityType
<1> QED BY <1>2, <1>4, <1>5

(* Sorted lists a set, all of it, in ascending order.                      *)
LEMMA SortedIs ==
  ASSUME NEW S \in SUBSET Nat, IsFiniteSet(S)
  PROVE  /\ Cardinality(S) \in Nat
         /\ Sorted(S) \in Seq(S) /\ Len(Sorted(S)) = Cardinality(S)
         /\ \A i \in S : \E x \in 1..Cardinality(S) : Sorted(S)[x] = i
         /\ \A x, y \in 1..Cardinality(S) : x < y => Sorted(S)[x] < Sorted(S)[y]
<1>1. PICK c \in Nat : c = Cardinality(S)
  BY FS_CardinalityType
<1> DEFINE rank == [i \in S |-> Rank(S, i)]
<1>2. rank \in [S -> 0..c - 1]
  BY <1>1, RankIs
<1>3. \A i, j \in S : i < j => rank[i] < rank[j]
  BY RankAscends
<1>4. \A i \in S : rank[i] = Cardinality({j \in S : j < i})
  BY DEF Rank
<1> HIDE DEF rank
<1>5. rank \in Injection(S, 0..c - 1)
  <2>1. \A i, j \in S : rank[i] = rank[j] => i = j
    <3>1. ASSUME NEW i \in S, NEW j \in S, rank[i] = rank[j] PROVE i = j
      <4>1. rank[i] \in Nat /\ rank[j] \in Nat /\ i \in Nat /\ j \in Nat
        BY <1>2
      <4>2. ~(i < j) /\ ~(j < i)
        BY <1>3, <3>1, <4>1
      <4> QED BY <4>1, <4>2
    <3> QED BY <3>1
  <2> QED BY <1>2, <2>1 DEF Injection, IsInjective
<1>6. IsFiniteSet(0..c - 1) /\ Cardinality(0..c - 1) = c
  BY FS_Interval
<1>7. rank \in Surjection(S, 0..c - 1)
  BY <1>1, <1>5, <1>6, FS_Injection
<1>8. ASSUME NEW x \in 1..c
      PROVE  Sorted(S)[x] \in S /\ rank[Sorted(S)[x]] = x - 1
  <2>1. x - 1 \in 0..c - 1
    OBVIOUS
  <2>2. \E i \in S : rank[i] = x - 1
    BY <1>7, <2>1 DEF Surjection
  <2>3. \E i \in S : Cardinality({j \in S : j < i}) = x - 1
    BY <1>4, <2>2
  <2>4. Sorted(S)[x] = CHOOSE i \in S : Cardinality({j \in S : j < i}) = x - 1
    BY <1>1 DEF Sorted
  <2>5. Sorted(S)[x] \in S /\ Cardinality({j \in S : j < Sorted(S)[x]}) = x - 1
    BY <2>3, <2>4, Zenon
  <2> QED BY <1>4, <2>5
<1>9. Sorted(S) \in [1..c -> S]
  <2> DEFINE f == [x \in 1..c |-> CHOOSE i \in S : Cardinality({j \in S : j < i}) = x - 1]
  <2>1. Sorted(S) = f
    BY <1>1, Zenon DEF Sorted
  <2>2. f = [x \in 1..c |-> f[x]]
    OBVIOUS
  <2> HIDE DEF f
  <2>3. \A x \in 1..c : f[x] \in S
    BY <1>8, <2>1
  <2> QED BY <2>1, <2>2, <2>3
<1>10. ASSUME NEW i \in S PROVE \E x \in 1..c : Sorted(S)[x] = i
  <2>1. PICK x : x = rank[i] + 1
    OBVIOUS
  <2>2. x \in 1..c /\ x - 1 = rank[i]
    BY <1>2, <2>1
  <2>3. Sorted(S)[x] \in S /\ rank[Sorted(S)[x]] = rank[i]
    BY <1>8, <2>2
  <2>4. Sorted(S)[x] = i
    BY <1>5, <2>3 DEF Injection, IsInjective
  <2> QED BY <2>2, <2>4
<1>11. ASSUME NEW x \in 1..c, NEW y \in 1..c, x < y PROVE Sorted(S)[x] < Sorted(S)[y]
  <2>1. PICK i \in S, j \in S : i = Sorted(S)[x] /\ j = Sorted(S)[y]
    BY <1>8
  <2>2. rank[i] = x - 1 /\ rank[j] = y - 1
    BY <1>8, <2>1
  <2>3. i # j /\ ~(j < i)
    BY <1>3, <2>2, <1>11
  <2> QED BY <2>1, <2>3
<1> QED BY <1>1, <1>9, <1>10, <1>11

-----------------------------------------------------------------------------
(* Tiles.  A pattern lists dimensions <<stride, length>>, each a multiple  *)
(* of the span of the one before.  By induction over the dimensions the    *)
(* offsets and the list of the pattern share out the numbers; hence the    *)
(* tiles do.                                                               *)

(* O and S share out the numbers: each is one of O and one of S, and of O  *)
(* in one way only; and whoever of S is added, the quotient by P stays.    *)
Shares(O, S, P) ==
  /\ O \in SUBSET Nat /\ S \in SUBSET (0..P - 1) /\ P \in Nat \ {0}
  /\ \A i \in Nat : \E o \in O, s \in S : i = o + s
  /\ \A o1, o2 \in O, s1, s2 \in S : o1 + s1 = o2 + s2 => o1 = o2
  /\ \A o \in O, s \in S : (o + s) \div P = o \div P

(* What leaves no remainder is a multiple.                                 *)
LEMMA MultipleIs ==
  ASSUME NEW p \in Nat \ {0}, NEW x \in Nat, x % p = 0
  PROVE  \E q \in Nat : x = p * q
<1>1. x \div p \in Nat
  BY QuotientIn, Zenon
<1>2. x = p * (x \div p) + (x % p)
  BY Recombine, Zenon
<1>3. PICK q \in Nat : q = x \div p
  BY <1>1
<1>4. x = p * q + 0
  BY <1>2, <1>3, Zenon
<1>5. p * q \in Nat
  OBVIOUS
<1> QED BY <1>4, <1>5

(* A digit added to a multiple is the remainder, and leaves the quotient.  *)
LEMMA AddedToMultiple ==
  ASSUME NEW len \in Nat \ {0}, NEW q \in Nat, q % len = 0, NEW x \in 0..len - 1
  PROVE  (q + x) % len = x /\ (q + x) \div len = q \div len
<1>1. PICK p \in Nat : q = len * p
  BY MultipleIs, Zenon
<1>2. (len * p + x) % len = x /\ (len * p + x) \div len = p
  BY RemainderOf, QuotientOf, Zenon
<1>3. 0 \in 0..len - 1
  OBVIOUS
<1>4. (len * p + 0) \div len = p
  BY <1>3, QuotientOf, Zenon
<1>5. len * p + 0 = len * p
  OBVIOUS
<1> QED BY <1>1, <1>2, <1>4, <1>5, Zenon

(* A number below t, and a digit: the quotients of their sum with another. *)
SumQuotients(t, len, x, o, s) ==
  /\ s + t * x \in 0..t * len - 1
  /\ (o + (s + t * x)) \div t = (o \div t) + x
  /\ (o + (s + t * x)) \div (t * len) = o \div (t * len)

(* Adding a digit of weight t to a sum adds it to the quotient by t.       *)
LEMMA QuotientOfSum ==
  ASSUME NEW t \in Nat \ {0}, NEW len \in Nat \ {0}, NEW x \in 0..len - 1,
         NEW o \in Nat, NEW s \in 0..t - 1, (o + s) \div t = o \div t, (o \div t) % len = 0
  PROVE  SumQuotients(t, len, x, o, s)
<1>1. PICK q, r, z : q = o \div t /\ r = (o + s) % t /\ z = t * x
  OBVIOUS
<1>2. q \in Nat /\ q % len = 0 /\ (o + s) \div t = q
  BY <1>1, QuotientIn, Zenon
<1>3. o + s \in Nat
  OBVIOUS
<1>4. r \in 0..t - 1 /\ o + s = t * q + r
  BY <1>1, <1>2, <1>3, RemainderIn, Recombine, Zenon
<1>5. z \in Nat /\ z + t <= t * len /\ t * (q + x) = t * q + z /\ t * q \in Nat /\ t * len \in Nat
  <2>1. x < len /\ x \in Nat /\ z \in Nat /\ t * len \in Nat
    BY <1>1
  <2>2. t * x + t <= t * len
    BY <2>1, Monotone
  <2>3. t * q \in Nat /\ t * (q + x) = t * q + t * x
    BY <1>2, <2>1
  <2> QED BY <1>1, <2>1, <2>2, <2>3
<1>6. s + z \in 0..t * len - 1
  BY <1>5
<1>7. o + (s + z) = t * (q + x) + r /\ q + x \in Nat /\ o + (s + z) \in Nat
  BY <1>2, <1>4, <1>5
<1>8. (o + (s + z)) \div t = q + x
  <2>1. (t * (q + x) + r) \div t = q + x
    BY <1>4, <1>7, QuotientOf, Zenon
  <2> QED BY <1>7, <2>1, Zenon
<1>9. (q + x) \div len = q \div len
  BY <1>2, AddedToMultiple, Zenon
<1>10. (o + (s + z)) \div (t * len) = ((o + (s + z)) \div t) \div len
  <2>1. PICK y \in Nat : y = o + (s + z)
    BY <1>7, Zenon
  <2>2. y \div (t * len) = (y \div t) \div len
    BY DivideByProduct, Zenon
  <2> QED BY <2>1, <2>2, Zenon
<1>11. o \div (t * len) = (o \div t) \div len
  BY DivideByProduct, Zenon
<1> QED BY <1>1, <1>6, <1>8, <1>9, <1>10, <1>11, Zenon DEF SumQuotients

Alike(a, b, p) == a \div p = b \div p

(* Alike by a number, alike by its multiples.                              *)
LEMMA SameQuotient ==
  ASSUME NEW a \in Nat, NEW b \in Nat, NEW p \in Nat \ {0}, NEW c \in Nat \ {0}, Alike(a, b, p)
  PROVE  Alike(a, b, p * c)
<1>1. a \div (p * c) = (a \div p) \div c
  BY DivideByProduct, Zenon
<1>2. b \div (p * c) = (b \div p) \div c
  BY DivideByProduct, Zenon
<1> QED BY <1>1, <1>2, Zenon DEF Alike

(* A share stays below every multiple of what shares are below, and leaves *)
(* the quotient by it.                                                     *)
LEMMA NextQuotient ==
  ASSUME NEW O, NEW S, NEW P, Shares(O, S, P), NEW t \in Nat \ {0}, t % P = 0,
         NEW o \in O, NEW s \in S
  PROVE  o \in Nat /\ s \in 0..t - 1 /\ (o + s) \div t = o \div t
<1>1. P \in Nat \ {0} /\ o \in Nat /\ s \in 0..P - 1 /\ (o + s) \div P = o \div P
  BY DEF Shares
<1>2. t \in Nat
  OBVIOUS
<1>3. PICK c \in Nat : t = P * c
  BY <1>1, <1>2, MultipleIs, Zenon
<1>4. c \in Nat \ {0}
  <2>1. c = 0 => P * c = 0
    BY <1>1
  <2> QED BY <1>3, <2>1
<1>5. o + s \in Nat
  BY <1>1
<1>6. (o + s) \div (P * c) = o \div (P * c)
  <2>1. PICK a \in Nat, b \in Nat : a = o + s /\ b = o
    BY <1>1, <1>5
  <2>2. PICK p \in Nat \ {0}, d \in Nat \ {0} : p = P /\ d = c
    BY <1>1, <1>4
  <2>3. Alike(a, b, p)
    BY <1>1, <2>1, <2>2, Zenon DEF Alike
  <2>4. Alike(a, b, p * d)
    BY <2>3, SameQuotient, Zenon
  <2> QED BY <2>1, <2>2, <2>4, Zenon DEF Alike
<1>7. P <= t
  <2>1. 1 \in Nat /\ 1 <= c
    BY <1>4
  <2>2. P * 1 <= P * c
    BY <1>1, <1>3, <2>1, Monotone, Zenon
  <2> QED BY <1>1, <1>3, <2>2
<1>8. s \in 0..t - 1
  BY <1>1, <1>7
<1> QED BY <1>1, <1>3, <1>6, <1>8, Zenon

(* Another dimension: of the offsets those stay whose digit there is 0,    *)
(* and the shares are repeated for every digit.                            *)
LEMMA SharesOn ==
  ASSUME NEW O, NEW S, NEW P, Shares(O, S, P),
         NEW t \in Nat \ {0}, NEW len \in Nat \ {0}, t % P = 0
  PROVE  Shares({o \in O : (o \div t) % len = 0}, Repeat(S, t, len), t * len)
<1> DEFINE O2 == {o \in O : (o \div t) % len = 0}
           S2 == Repeat(S, t, len)
<1>1. /\ O \in SUBSET Nat /\ P \in Nat \ {0} /\ S \in SUBSET (0..P - 1) /\ P <= t
      /\ t * len \in Nat \ {0} /\ t <= t * len
  <2>1. O \in SUBSET Nat /\ P \in Nat \ {0} /\ S \in SUBSET (0..P - 1)
    BY DEF Shares
  <2>2. P <= t
    <3>1. t < P => t % P = t
      BY <2>1
    <3> QED BY <2>1, <3>1
  <2>3. t * len \in Nat /\ t * 1 <= t * len
    BY Monotone
  <2> QED BY <2>1, <2>2, <2>3
<1>0. ASSUME NEW s \in S2 PROVE \E u \in S, x \in 0..len - 1 : s = u + t * x
  BY DEF Repeat
<1>10. \A u \in S, x \in 0..len - 1 : u + t * x \in S2
  BY DEF Repeat
<1>11. \A o : o \in O2 <=> o \in O /\ (o \div t) % len = 0
  OBVIOUS
<1> HIDE DEF O2, S2
(* One of S2, added to one of O2: the quotients.                           *)
<1>12. ASSUME NEW o \in O2, NEW s \in S, NEW x \in 0..len - 1
       PROVE  SumQuotients(t, len, x, o, s)
  <2>1. o \in O /\ (o \div t) % len = 0
    BY <1>11
  <2>2. o \in Nat /\ s \in 0..t - 1 /\ (o + s) \div t = o \div t
    BY <2>1, NextQuotient
  <2> QED BY <2>1, <2>2, QuotientOfSum, Zenon
<1>2. ASSUME NEW o \in O2, NEW s \in S, NEW x \in 0..len - 1
      PROVE  /\ s + t * x \in 0..t * len - 1
             /\ (o + (s + t * x)) \div t = (o \div t) + x
             /\ (o + (s + t * x)) \div (t * len) = o \div (t * len)
             /\ o \div t \in Nat /\ (o \div t) % len = 0 /\ o \in Nat
  <2>1. o \in O /\ (o \div t) % len = 0
    BY <1>11
  <2>2. o \in Nat /\ s \in 0..t - 1 /\ (o + s) \div t = o \div t
    BY <2>1, NextQuotient
  <2>3. o \div t \in Nat
    BY <2>2, Division
  <2>4. SumQuotients(t, len, x, o, s)
    BY <1>12
  <2> QED BY <2>1, <2>2, <2>3, <2>4, Zenon DEF SumQuotients
<1>3. ASSUME NEW i \in Nat PROVE \E o \in O2, s \in S2 : i = o + s
  <2>1. PICK q, r, x, q2 : q = i \div t /\ r = i % t /\ x = q % len /\ q2 = q \div len
    OBVIOUS
  <2>2. q \in Nat /\ r \in 0..t - 1 /\ i = t * q + r
    BY <2>1, Division
  <2>3. x \in 0..len - 1 /\ q2 \in Nat /\ q = len * q2 + x
    BY <2>1, <2>2, Division
  <2>4. PICK j \in Nat, w \in Nat, z \in Nat : w = len * q2 /\ z = t * w /\ j = z + r
    BY <2>2, <2>3
  <2>5. t * q = z + t * x /\ t * x \in Nat /\ z \in Nat
    BY <2>3, <2>4
  <2>6. i = j + t * x
    BY <2>2, <2>4, <2>5
  <2>7. PICK o \in O, s \in S : j = o + s
    BY DEF Shares
  <2>8. j \div t = w
    BY <2>2, <2>4, DivisionIs
  <2>9. o \div t = w
    BY <2>7, <2>8, NextQuotient
  <2>10. w % len = 0
    BY <2>3, <2>4, MultipleOf
  <2>11. o \in O2
    BY <1>11, <2>7, <2>9, <2>10
  <2>12. s + t * x \in S2
    BY <1>10, <2>3, <2>7
  <2>13. o \in Nat /\ s \in Nat
    BY <1>1
  <2>14. i = o + (s + t * x)
    BY <2>5, <2>6, <2>7, <2>13
  <2> QED BY <2>11, <2>12, <2>14
<1>4. ASSUME NEW o1 \in O2, NEW o2 \in O2, NEW s1 \in S2, NEW s2 \in S2, o1 + s1 = o2 + s2
      PROVE  o1 = o2
  <2>1. PICK u1 \in S, x1 \in 0..len - 1 : s1 = u1 + t * x1
    BY <1>0
  <2>2. PICK u2 \in S, x2 \in 0..len - 1 : s2 = u2 + t * x2
    BY <1>0
  <2>3. PICK q1, q2 : q1 = o1 \div t /\ q2 = o2 \div t
    OBVIOUS
  <2>4. q1 \in Nat /\ q1 % len = 0 /\ q2 \in Nat /\ q2 % len = 0 /\ o1 \in Nat /\ o2 \in Nat
    BY <1>2, <2>1, <2>3
  <2>5. q1 + x1 = q2 + x2
    <3>1. (o1 + (u1 + t * x1)) \div t = q1 + x1
      BY <1>2, <2>3
    <3>2. (o2 + (u2 + t * x2)) \div t = q2 + x2
      BY <1>2, <2>3
    <3> QED BY <1>4, <2>1, <2>2, <3>1, <3>2
  <2>7. (q1 + x1) % len = x1 /\ (q2 + x2) % len = x2
    BY <2>4, AddedToMultiple
  <2>8. x1 = x2
    BY <2>5, <2>7
  <2>9. PICK z : z = t * x1 /\ z = t * x2
    BY <2>8
  <2>10. z \in Nat
    BY <2>9
  <2>11. u1 \in Nat /\ u2 \in Nat
    BY <1>1
  <2>12. o1 + u1 = o2 + u2
    <3>1. o1 + (u1 + z) = o2 + (u2 + z)
      BY <1>4, <2>1, <2>2, <2>9
    <3> QED BY <2>4, <2>10, <2>11, <3>1
  <2>13. o1 \in O /\ o2 \in O
    BY <1>11
  <2>14. \A v1, v2 \in O, w1, w2 \in S : v1 + w1 = v2 + w2 => v1 = v2
    BY DEF Shares
  <2> QED BY <2>12, <2>13, <2>14
<1>5. S2 \in SUBSET (0..t * len - 1)
  <2>1. PICK o : o \in O2
    BY <1>3
  <2> SUFFICES ASSUME NEW s \in S2 PROVE s \in 0..t * len - 1
    OBVIOUS
  <2>2. PICK u \in S, x \in 0..len - 1 : s = u + t * x
    BY <1>0
  <2>3. u + t * x \in 0..t * len - 1
    BY <1>2, <2>1
  <2> QED BY <2>2, <2>3
<1>6. ASSUME NEW o \in O2, NEW s \in S2 PROVE (o + s) \div (t * len) = o \div (t * len)
  <2>1. PICK u \in S, x \in 0..len - 1 : s = u + t * x
    BY <1>0
  <2>2. SumQuotients(t, len, x, o, u)
    BY <1>12, <2>1, Zenon
  <2>3. (o + (u + t * x)) \div (t * len) = o \div (t * len)
    BY <2>2, Zenon DEF SumQuotients
  <2> QED BY <2>1, <2>3, Zenon
<1>7. O2 \in SUBSET Nat
  BY <1>1, <1>11
<1>8. Shares(O2, S2, t * len)
  BY <1>1, <1>3, <1>4, <1>5, <1>6, <1>7 DEF Shares
<1> QED BY <1>8 DEF O2, S2

Dimensions == (Nat \ {0}) \X (Nat \ {0})

NestedPatterns == {pattern \in Seq(Dimensions) : Nested(pattern)}

ValidUpTo(pattern, d) ==
  {o \in Nat : \A j \in 1..d : (o \div pattern[j][1]) % pattern[j][2] = 0}

Span(pattern, d) == IF d = 0 THEN 1 ELSE pattern[d][1] * pattern[d][2]

(* Without a dimension every number is an offset of its own.               *)
LEMMA SharesAtFirst ==
  ASSUME NEW pattern
  PROVE  Shares(ValidUpTo(pattern, 0), {0}, Span(pattern, 0))
<1>1. ValidUpTo(pattern, 0) = Nat /\ Span(pattern, 0) = 1
  BY DEF ValidUpTo, Span
<1>2. \A o \in Nat : o + 0 = o
  OBVIOUS
<1>3. Shares(Nat, {0}, 1)
  BY <1>2 DEF Shares
<1> QED BY <1>1, <1>3

(* The list of a nested pattern is what its offsets share the numbers out  *)
(* with.                                                                   *)
LEMMA ToListIs ==
  ASSUME NEW pattern \in Seq(Dimensions), Nested(pattern)
  PROVE  \E S : /\ ToList(pattern) = Sorted(S)
                /\ Shares({o \in Nat : OffsetIsValid(pattern, o)}, S, Period(pattern))
<1>1. PICK n \in Nat \ {0} : n = Len(pattern)
  BY DEF Nested
<1>2. \A d \in 1..n : pattern[d] \in Dimensions
  BY <1>1
<1>3. \A d \in 1..n : pattern[d][1] \in Nat \ {0} /\ pattern[d][2] \in Nat \ {0}
  BY <1>2 DEF Dimensions
<1> DEFINE F == [d \in 1..n |-> [T \in SUBSET Nat |-> Repeat(T, pattern[d][1], pattern[d][2])]]
           IsIt(g) == g = [d \in 0..Len(pattern) |->
                             IF d = 0 THEN {0}
                             ELSE Repeat(g[d - 1], pattern[d][1], pattern[d][2])]
<1>4. ASSUME NEW d \in 1..n, NEW T \in SUBSET Nat
      PROVE  Repeat(T, pattern[d][1], pattern[d][2]) \in SUBSET Nat
  <2>1. PICK t \in Nat, len \in Nat : t = pattern[d][1] /\ len = pattern[d][2]
    BY <1>3
  <2>2. \A s \in T, x \in 0..len - 1 : s + t * x \in Nat
    OBVIOUS
  <2> QED BY <2>1, <2>2 DEF Repeat
<1>5. Steps(F, n, SUBSET Nat)
  BY <1>4 DEF Steps
<1>6. PICK f \in [0..n -> SUBSET Nat] : f[0] = {0} /\ Follows(f, F, n)
  <2>1. {0} \in SUBSET Nat /\ n \in Nat
    OBVIOUS
  <2> HIDE DEF F
  <2> QED BY <1>5, <2>1, Recursion
<1>7. ASSUME NEW d \in 0..n
      PROVE  f[d] = IF d = 0 THEN {0}
                    ELSE Repeat(f[d - 1], pattern[d][1], pattern[d][2])
  <2>1. d # 0 => d \in 1..n /\ d - 1 \in 0..n
    OBVIOUS
  <2>2. d # 0 => f[d] = F[d][f[d - 1]] /\ f[d - 1] \in SUBSET Nat
    BY <1>6, <2>1 DEF Follows
  <2> QED BY <1>6, <2>1, <2>2
<1>8. IsIt(f)
  <2>1. f = [d \in 0..n |-> f[d]]
    OBVIOUS
  <2> QED BY <1>1, <1>7, <2>1, Zenon
<1>9. PICK v : v = (CHOOSE g : IsIt(g)) /\ ToList(pattern) = Sorted(v[Len(pattern)])
  BY Zenon DEF ToList
<1>10. IsIt(v)
  BY <1>8, <1>9, Zenon
<1>11. /\ v[0] = {0}
       /\ \A d \in 0..n : v[d] = IF d = 0 THEN {0}
                                 ELSE Repeat(v[d - 1], pattern[d][1], pattern[d][2])
  <2>1. ASSUME NEW d \in 0..n
        PROVE  v[d] = IF d = 0 THEN {0} ELSE Repeat(v[d - 1], pattern[d][1], pattern[d][2])
    BY <1>1, <1>10, Zenon
  <2>2. 0 \in 0..n
    OBVIOUS
  <2> QED BY <2>1, <2>2, Zenon
<1> HIDE DEF F, IsIt
<1> DEFINE T == {d \in 0..n : Shares(ValidUpTo(pattern, d), v[d], Span(pattern, d))}
<1>12. 0 \in T
  BY <1>11, SharesAtFirst
<1>13. ASSUME NEW d \in 0..n - 1, d \in T PROVE d + 1 \in T
  <2>1. PICK t, len : t = pattern[d + 1][1] /\ len = pattern[d + 1][2]
    OBVIOUS
  <2>2. d + 1 \in 1..n /\ t \in Nat \ {0} /\ len \in Nat \ {0} /\ d + 1 # 0 /\ d + 1 - 1 = d
        /\ d + 1 \in 0..n
    BY <1>3, <2>1
  <2>3. t % Span(pattern, d) = 0
    <3>1. CASE d = 0
      <4>1. t = 1 * t + 0 /\ 0 \in 0..1 - 1 /\ 1 \in Nat \ {0} /\ t \in Nat
        BY <2>2
      <4>2. (1 * t + 0) % 1 = 0
        BY <4>1, RemainderOf, Zenon
      <4> QED BY <3>1, <4>1, <4>2 DEF Span
    <3>2. CASE d # 0
      <4>1. d \in 1..Len(pattern) - 1
        BY <1>1, <3>2
      <4> QED BY <2>1, <3>2, <4>1 DEF Nested, Span
    <3> QED BY <3>1, <3>2
  <2>4. Shares(ValidUpTo(pattern, d), v[d], Span(pattern, d))
    BY <1>13
  <2>5. Shares({o \in ValidUpTo(pattern, d) : (o \div t) % len = 0},
               Repeat(v[d], t, len), t * len)
    BY <2>2, <2>3, <2>4, SharesOn
  <2>6. v[d + 1] = Repeat(v[d], t, len)
    BY <1>11, <2>1, <2>2
  <2>7. Span(pattern, d + 1) = t * len
    BY <2>1, <2>2 DEF Span
  <2>8. ValidUpTo(pattern, d + 1) = {o \in ValidUpTo(pattern, d) : (o \div t) % len = 0}
    <3>1. \A j : j \in 1..d + 1 <=> j \in 1..d \/ j = d + 1
      OBVIOUS
    <3> QED BY <2>1, <3>1 DEF ValidUpTo
  <2> QED BY <2>2, <2>5, <2>6, <2>7, <2>8
<1> HIDE DEF T
<1>14. n \in Nat /\ n \in 0..n
  OBVIOUS
<1>15. \A d \in 0..n : d \in T
  BY <1>12, <1>13, <1>14, InductionTo
<1>16. Shares(ValidUpTo(pattern, n), v[n], Span(pattern, n))
  BY <1>14, <1>15 DEF T
<1>17. ValidUpTo(pattern, n) = {o \in Nat : OffsetIsValid(pattern, o)}
  BY <1>1 DEF ValidUpTo, OffsetIsValid
<1>18. Span(pattern, n) = Period(pattern)
  BY <1>1 DEF Span, Period
<1> QED BY <1>1, <1>9, <1>16, <1>17, <1>18

(* The tile at an offset, of a pattern that lists S.                       *)
TileAt(S, o) == [x \in DOMAIN Sorted(S) |-> o + Sorted(S)[x]]

(* The indices of a tile.                                                  *)
LEMMA IndicesOfTile ==
  ASSUME NEW S \in SUBSET Nat, IsFiniteSet(S), NEW o
  PROVE  ToSet(TileAt(S, o)) = {o + s : s \in S}
<1>1. PICK list, c : /\ list = Sorted(S) /\ c = Cardinality(S) /\ c \in Nat
                             /\ list \in Seq(S) /\ Len(list) = c
                             /\ \A i \in S : \E x \in 1..c : list[x] = i
  BY SortedIs
<1>2. DOMAIN list = 1..c /\ \A x \in 1..c : list[x] \in S
  BY <1>1
<1>3. PICK tile : tile = TileAt(S, o)
  OBVIOUS
<1>4. DOMAIN tile = 1..c /\ \A x \in 1..c : tile[x] = o + list[x]
  BY <1>1, <1>2, <1>3 DEF TileAt
<1>5. ToSet(tile) = {tile[x] : x \in 1..c}
  BY <1>4 DEF ToSet
<1>6. ASSUME NEW i PROVE i \in ToSet(tile) <=> \E s \in S : i = o + s
  <2>1. i \in ToSet(tile) <=> \E x \in 1..c : i = o + list[x]
    BY <1>4, <1>5
  <2>2. (\E x \in 1..c : i = o + list[x]) => \E s \in S : i = o + s
    BY <1>2
  <2>3. (\E s \in S : i = o + s) => \E x \in 1..c : i = o + list[x]
    BY <1>1
  <2> QED BY <2>1, <2>2, <2>3
<1> QED BY <1>3, <1>6

(* The offsets of the tiles are below the dimension.                       *)
LEMMA OffsetsAreFinite ==
  ASSUME NEW pattern, NEW dim \in Nat
  PROVE  TileOffsets(pattern, dim) \in SUBSET Nat /\ IsFiniteSet(TileOffsets(pattern, dim))
<1>1. TileOffsets(pattern, dim) \in SUBSET (0..dim - 1)
  BY DEF TileOffsets
<1>2. IsFiniteSet(0..dim - 1)
  BY FS_Interval
<1> QED BY <1>1, <1>2, FS_Subset

(* There is one tile for each offset.                                      *)
LEMMA TilesAre ==
  ASSUME NEW pattern, NEW dim \in Nat, NEW S, ToList(pattern) = Sorted(S)
  PROVE  /\ ToSet(ThreadsPartition(pattern, dim)) = {TileAt(S, o) : o \in TileOffsets(pattern, dim)}
         /\ Len(ThreadsPartition(pattern, dim)) = Cardinality(TileOffsets(pattern, dim))
<1>1. PICK O : O = TileOffsets(pattern, dim)
  OBVIOUS
<1>2. O \in SUBSET Nat /\ IsFiniteSet(O)
  BY <1>1, OffsetsAreFinite
<1>3. PICK offsets, c : /\ offsets = Sorted(O) /\ c = Cardinality(O) /\ c \in Nat
                                /\ offsets \in Seq(O) /\ Len(offsets) = c
                                /\ \A i \in O : \E x \in 1..c : offsets[x] = i
  BY <1>2, SortedIs
<1>4. DOMAIN offsets = 1..c /\ \A x \in 1..c : offsets[x] \in O
  BY <1>3
<1>5. PICK tiles : tiles = ThreadsPartition(pattern, dim)
  OBVIOUS
<1>6. tiles = [t \in 1..c |-> TileAt(S, offsets[t])]
  BY <1>1, <1>3, <1>4, <1>5, Zenon DEF ThreadsPartition, TileAt
<1>7. Len(tiles) = c
  BY <1>3, <1>6
<1>8. ToSet(tiles) = {tiles[x] : x \in 1..c}
  BY <1>6 DEF ToSet
<1>9. ASSUME NEW tile PROVE tile \in ToSet(tiles) <=> \E o \in O : tile = TileAt(S, o)
  BY <1>3, <1>4, <1>6, <1>8
<1> QED BY <1>1, <1>3, <1>5, <1>7, <1>9

(* A tile that begins in a whole number of periods ends there.             *)
LEMMA TileInside ==
  ASSUME NEW O, NEW S, NEW P, Shares(O, S, P), NEW dim \in Nat, dim % P = 0,
         NEW o \in O, o < dim, NEW s \in S
  PROVE  o + s \in 0..dim - 1
<1>1. P \in Nat \ {0} /\ o \in Nat /\ s \in Nat /\ o + s \in Nat /\ (o + s) \div P = o \div P
  BY DEF Shares
<1>2. PICK q \in Nat : dim = P * q
  BY <1>1, MultipleIs, Zenon
<1>3. PICK a, r, i : a = o \div P /\ r = o % P /\ i = o + s
  OBVIOUS
<1>4. a \in Nat /\ r \in 0..P - 1 /\ o = P * a + r
  BY <1>1, <1>3, QuotientIn, RemainderIn, Recombine, Zenon
<1>5. PICK u : u = i % P
  OBVIOUS
<1>6. u \in 0..P - 1 /\ i = P * a + u
  BY <1>1, <1>3, <1>5, RemainderIn, Recombine, Zenon
<1>7. a < q
  <2>1. q <= a => P * q <= P * a
    BY <1>1, <1>2, <1>4, Monotone
  <2>2. P * a \in Nat
    BY <1>1, <1>4
  <2> QED BY <1>2, <1>4, <2>1, <2>2
<1>8. P * a + P <= P * q
  BY <1>1, <1>2, <1>4, <1>7, Monotone
<1>9. P * a \in Nat /\ P * q \in Nat
  BY <1>1, <1>2, <1>4
<1> QED BY <1>1, <1>2, <1>3, <1>6, <1>8, <1>9

(* The tiles of every pattern.                                             *)
LEMMA Partition ==
  ASSUME NEW pattern \in Seq(Dimensions), Nested(pattern), NEW dim \in Nat
  PROVE  LET tiles == ToSet(ThreadsPartition(pattern, dim))
         IN /\ \A i \in 0..dim - 1 : \E tile \in tiles :
                 i \in ToSet(tile) /\ \A other \in tiles \ {tile} : i \notin ToSet(other)
            /\ dim % Period(pattern) = 0 => \A tile \in tiles : ToSet(tile) \subseteq 0..dim - 1
<1>1. PICK S : /\ ToList(pattern) = Sorted(S)
               /\ Shares({o \in Nat : OffsetIsValid(pattern, o)}, S, Period(pattern))
  BY ToListIs
<1>2. PICK O, P : O = {o \in Nat : OffsetIsValid(pattern, o)} /\ P = Period(pattern)
  OBVIOUS
<1>3. Shares(O, S, P)
  BY <1>1, <1>2
<1>4. O \in SUBSET Nat /\ S \in SUBSET Nat /\ IsFiniteSet(S)
  <2>1. O \in SUBSET Nat /\ P \in Nat \ {0} /\ S \in SUBSET (0..P - 1)
    BY <1>3 DEF Shares
  <2>2. IsFiniteSet(0..P - 1)
    BY <2>1, FS_Interval
  <2>3. IsFiniteSet(S)
    BY <2>1, <2>2, FS_Subset
  <2> QED BY <2>1, <2>3
<1>5. PICK tiles : tiles = ToSet(ThreadsPartition(pattern, dim))
  OBVIOUS
<1>6. \A o : o \in TileOffsets(pattern, dim) <=> o \in O /\ o < dim
  <2>1. \A o : o \in 0..dim - 1 <=> o \in Nat /\ o < dim
    OBVIOUS
  <2> QED BY <1>2, <2>1 DEF TileOffsets
<1>7. \A tile : tile \in tiles <=> \E o \in O : o < dim /\ tile = TileAt(S, o)
  <2>1. tiles = {TileAt(S, o) : o \in TileOffsets(pattern, dim)}
    BY <1>1, <1>5, TilesAre
  <2> QED BY <1>6, <2>1
<1>8. \A o, i : i \in ToSet(TileAt(S, o)) <=> \E s \in S : i = o + s
  <2>1. \A o : ToSet(TileAt(S, o)) = {o + s : s \in S}
    BY <1>4, IndicesOfTile
  <2> QED BY <2>1
<1>9. ASSUME NEW i \in 0..dim - 1
      PROVE  \E tile \in tiles :
               i \in ToSet(tile) /\ \A other \in tiles \ {tile} : i \notin ToSet(other)
  <2>1. PICK o \in O, s \in S : i = o + s
    <3>1. i \in Nat
      OBVIOUS
    <3> QED BY <1>3, <3>1 DEF Shares
  <2>2. o < dim
    BY <1>4, <2>1
  <2>3. TileAt(S, o) \in tiles /\ i \in ToSet(TileAt(S, o))
    BY <1>7, <1>8, <2>1, <2>2
  <2>4. ASSUME NEW other \in tiles, i \in ToSet(other) PROVE other = TileAt(S, o)
    <3>1. PICK u \in O : other = TileAt(S, u)
      BY <1>7
    <3>2. PICK w \in S : i = u + w
      BY <1>8, <2>4, <3>1
    <3>3. o + s = u + w
      BY <2>1, <3>2, Zenon
    <3>4. \A v1, v2 \in O, w1, w2 \in S : v1 + w1 = v2 + w2 => v1 = v2
      BY <1>3 DEF Shares
    <3>5. u = o
      BY <2>1, <3>1, <3>2, <3>3, <3>4, Zenon
    <3> QED BY <3>1, <3>5
  <2> QED BY <2>3, <2>4
<1>10. ASSUME dim % Period(pattern) = 0, NEW tile \in tiles PROVE ToSet(tile) \subseteq 0..dim - 1
  <2>1. PICK o \in O : o < dim /\ tile = TileAt(S, o)
    BY <1>7
  <2>2. \A s \in S : o + s \in 0..dim - 1
    BY <1>2, <1>3, <1>10, <2>1, TileInside
  <2> QED BY <1>8, <2>1, <2>2
<1> QED BY <1>5, <1>9, <1>10

(* TilesPartition for every nested pattern and dimension:                  *)
(* threads_partition puts every index in one tile, and only indices below  *)
(* a dimension that fit_dim made.                                          *)
THEOREM TilesAlwaysPartition ==
  ASSUME input \in TileInputs(NestedPatterns, Nat)
  PROVE  TilesPartition
<1>1. PICK pattern \in Seq(Dimensions), target \in Nat :
        Nested(pattern) /\ pattern = input.pattern /\ target = input.target
  BY DEF TileInputs, NestedPatterns
<1>2. PICK list, P, dim : /\ list = ToList(pattern) /\ P = Period(pattern)
                          /\ dim = FitDim(target, P, list[Len(list)])
  OBVIOUS
<1>3. PICK S : ToList(pattern) = Sorted(S) /\ Shares({o \in Nat : OffsetIsValid(pattern, o)}, S, P)
  BY <1>1, <1>2, ToListIs
<1>4. P \in Nat \ {0} /\ S \in SUBSET (0..P - 1) /\ S # {}
  <2>1. 0 \in Nat
    OBVIOUS
  <2> QED BY <1>3, <2>1 DEF Shares
<1>5. list[Len(list)] \in Nat
  <2>1. IsFiniteSet(0..P - 1)
    BY <1>4, FS_Interval
  <2>2. S \in SUBSET Nat /\ IsFiniteSet(S)
    <3>1. IsFiniteSet(S)
      BY <1>4, <2>1, FS_Subset
    <3> QED BY <1>4, <3>1
  <2>3. Cardinality(S) \in Nat /\ list \in Seq(S) /\ Len(list) = Cardinality(S)
    BY <1>2, <1>3, <2>2, SortedIs
  <2>4. Cardinality(S) # 0
    BY <1>4, <2>2, FS_EmptySet
  <2>5. list[Len(list)] \in S
    BY <2>3, <2>4
  <2> QED BY <2>2, <2>5
<1>6. dim \in Nat /\ dim % P = 0
  <2>1. PICK max \in Nat : max = list[Len(list)]
    BY <1>5
  <2>2. P \in Nat /\ P = IF P = 0 THEN 1 ELSE P
    BY <1>4
  <2>3. FitDim(target, P, max) \in Nat /\ FitDim(target, P, max) % P = 0
    BY <2>2, FitDimIsLeastValid
  <2> QED BY <1>2, <2>1, <2>3
<1>7. LET tiles == ToSet(ThreadsPartition(pattern, dim))
      IN /\ \A i \in 0..dim - 1 : \E tile \in tiles :
              i \in ToSet(tile) /\ \A other \in tiles \ {tile} : i \notin ToSet(other)
         /\ dim % Period(pattern) = 0 => \A tile \in tiles : ToSet(tile) \subseteq 0..dim - 1
  BY <1>1, <1>6, Partition
<1> QED BY <1>1, <1>2, <1>6, <1>7 DEF TilesPartition

-----------------------------------------------------------------------------
(* The workspace of a CPU thread.                                          *)

(* A pattern has no more tiles than fit.                                   *)
LEMMA TilesCount ==
  ASSUME NEW pattern \in Seq(Dimensions), Nested(pattern), NEW dim \in Nat, dim % Period(pattern) = 0
  PROVE  /\ Len(ThreadsPartition(pattern, dim)) \in Nat /\ Len(ToList(pattern)) \in Nat
         /\ Len(ThreadsPartition(pattern, dim)) * Len(ToList(pattern)) <= dim
<1>1. PICK S, P, V : /\ ToList(pattern) = Sorted(S) /\ P = Period(pattern)
                     /\ V = {o \in Nat : OffsetIsValid(pattern, o)} /\ Shares(V, S, P)
  BY ToListIs
<1>2. PICK O : O = TileOffsets(pattern, dim)
  OBVIOUS
<1>3. /\ O \in SUBSET Nat /\ IsFiniteSet(O) /\ Cardinality(O) \in Nat
      /\ Len(ThreadsPartition(pattern, dim)) = Cardinality(O)
  <2>1. O \in SUBSET Nat /\ IsFiniteSet(O)
    BY <1>2, OffsetsAreFinite
  <2>2. Len(ThreadsPartition(pattern, dim)) = Cardinality(O)
    BY <1>1, <1>2, TilesAre
  <2> QED BY <2>1, <2>2, FS_CardinalityType
<1>4. S \in SUBSET Nat /\ IsFiniteSet(S) /\ Cardinality(S) \in Nat /\ Len(ToList(pattern)) = Cardinality(S)
  <2>1. P \in Nat \ {0} /\ S \in SUBSET (0..P - 1)
    BY <1>1 DEF Shares
  <2>2. IsFiniteSet(0..P - 1)
    BY <2>1, FS_Interval
  <2>3. IsFiniteSet(S)
    BY <2>1, <2>2, FS_Subset
  <2>4. S \in SUBSET Nat
    BY <2>1
  <2> QED BY <1>1, <2>3, <2>4, SortedIs
<1>5. \A o \in O : o \in V /\ o < dim
  <2>1. \A o : o \in 0..dim - 1 <=> o \in Nat /\ o < dim
    OBVIOUS
  <2> QED BY <1>1, <1>2, <2>1 DEF TileOffsets
<1> DEFINE f == [p \in O \X S |-> p[1] + p[2]]
<1>6. f \in Injection(O \X S, 0..dim - 1)
  <2>1. ASSUME NEW o \in O, NEW s \in S PROVE o + s \in 0..dim - 1
    BY <1>1, <1>5, TileInside
  <2>2. f \in [O \X S -> 0..dim - 1]
    BY <2>1
  <2>3. ASSUME NEW p \in O \X S, NEW q \in O \X S, f[p] = f[q] PROVE p = q
    <3>1. PICK o1 \in O, s1 \in S, o2 \in O, s2 \in S : p = <<o1, s1>> /\ q = <<o2, s2>>
      OBVIOUS
    <3>2. o1 + s1 = o2 + s2
      BY <2>3, <3>1
    <3>3. o1 \in V /\ o2 \in V
      BY <1>5
    <3>4. o1 = o2
      <4>1. \A v1, v2 \in V, u1, u2 \in S : v1 + u1 = v2 + u2 => v1 = v2
        BY <1>1 DEF Shares
      <4> QED BY <3>2, <3>3, <4>1
    <3>5. o1 \in Nat /\ s1 \in Nat /\ s2 \in Nat
      BY <1>3, <1>4
    <3>6. s1 = s2
      BY <3>2, <3>4, <3>5
    <3> QED BY <3>1, <3>4, <3>6
  <2> HIDE DEF f
  <2> QED BY <2>2, <2>3 DEF Injection, IsInjective
<1> HIDE DEF f
<1>7. IsFiniteSet(0..dim - 1) /\ Cardinality(0..dim - 1) = dim
  <2>1. 0 \in Int /\ dim - 1 \in Int
    OBVIOUS
  <2>2. IsFiniteSet(0..dim - 1) /\ Cardinality(0..dim - 1) = IF 0 > dim - 1 THEN 0 ELSE dim - 1 - 0 + 1
    BY <2>1, FS_Interval
  <2> QED BY <2>2
<1>8. Cardinality(O \X S) <= dim
  BY <1>6, <1>7, FS_Injection
<1>9. Cardinality(O \X S) = Cardinality(O) * Cardinality(S)
  BY <1>3, <1>4, FS_Product
<1> QED BY <1>3, <1>4, <1>8, <1>9

Workspaces == [a : Nat, b : Nat, a_idx : Nat, b_idx : Nat]

FittingJobs ==
  {j \in [m : Nat, n : Nat, k : Nat, declared : [rows : NestedPatterns, cols : NestedPatterns]] :
     Fitting(j.m, j.n, j.declared)}

Enough(ws, m, n, k) == m * k <= ws.a /\ n * k <= ws.b /\ ws.a_idx = m /\ ws.b_idx = n

(* Workspace::ensure keeps to numbers.                                     *)
LEMMA EnsureType ==
  ASSUME NEW w \in Workspaces, NEW m \in Nat, NEW n \in Nat, NEW k \in Nat
  PROVE  Ensure(w, m, n, k) \in Workspaces
<1>1. PICK x, y : x = m * k /\ y = n * k
  OBVIOUS
<1>2. x \in Nat /\ y \in Nat /\ w.a \in Nat /\ w.b \in Nat
  BY <1>1 DEF Workspaces
<1> QED BY <1>1, <1>2 DEF Ensure, Workspaces

(* It leaves room for the matrices asked for, whatever was there before.   *)
LEMMA EnsureEnough ==
  ASSUME NEW w \in Workspaces, NEW m \in Nat, NEW n \in Nat, NEW k \in Nat
  PROVE  Enough(Ensure(w, m, n, k), m, n, k)
<1>1. PICK x, y : x = m * k /\ y = n * k
  OBVIOUS
<1>2. x \in Nat /\ y \in Nat /\ w.a \in Nat /\ w.b \in Nat
  BY <1>1 DEF Workspaces
<1> QED BY <1>1, <1>2 DEF Ensure, Enough

(* Multiplying keeps the order.                                            *)
LEMMA Times ==
  ASSUME NEW a \in Nat, NEW b \in Nat, NEW k \in Nat, a <= b
  PROVE  a * k <= b * k /\ a * k \in Nat /\ b * k \in Nat
<1>1. CASE k = 0
  BY <1>1
<1>2. CASE k # 0
  <2>1. k * a <= k * b
    BY <1>2, Monotone
  <2> QED BY <2>1
<1> QED BY <1>1, <1>2

(* A buffer for all rows is one for the rows of every tile.                *)
LEMMA TilesFit ==
  ASSUME NEW pattern \in NestedPatterns, NEW dim \in Nat, dim % Period(pattern) = 0,
         NEW k \in Nat, NEW len \in Nat, dim * k <= len
  PROVE  /\ \A tile \in ToSet(ThreadsPartition(pattern, dim)) : \A i \in ToSet(tile) : (i + 1) * k <= len
         /\ (Len(ThreadsPartition(pattern, dim)) * Len(ToList(pattern))) * k <= len
<1>1. pattern \in Seq(Dimensions) /\ Nested(pattern)
  BY DEF NestedPatterns
<1>2. ASSUME NEW tile \in ToSet(ThreadsPartition(pattern, dim)), NEW i \in ToSet(tile)
      PROVE  (i + 1) * k <= len
  <2>1. i \in 0..dim - 1
    BY <1>1, Partition
  <2>2. i + 1 \in Nat /\ i + 1 <= dim
    BY <2>1
  <2>3. (i + 1) * k <= dim * k /\ (i + 1) * k \in Nat /\ dim * k \in Nat
    BY <2>2, Times
  <2> QED BY <2>3
<1>3. (Len(ThreadsPartition(pattern, dim)) * Len(ToList(pattern))) * k <= len
  <2>1. PICK c, h : c = Len(ThreadsPartition(pattern, dim)) /\ h = Len(ToList(pattern))
    OBVIOUS
  <2>2. c \in Nat /\ h \in Nat /\ c * h <= dim
    BY <1>1, <2>1, TilesCount
  <2>3. PICK p \in Nat : p = c * h
    BY <2>2
  <2>4. p * k <= dim * k /\ p * k \in Nat /\ dim * k \in Nat
    BY <2>2, <2>3, Times
  <2>5. p * k <= len
    BY <2>4
  <2> QED BY <2>1, <2>3, <2>5
<1> QED BY <1>2, <1>3

(* What it leaves holds the attempt.                                       *)
LEMMA EnsureHolds ==
  ASSUME NEW w \in Workspaces, NEW j \in FittingJobs, NEW cpu
  PROVE  Holds(Ensure(w, j.m, j.n, j.k), cpu, Config(j.k, j.declared), j.m, j.n, j.k)
<1>1. PICK m, n, k, rows, cols : m = j.m /\ n = j.n /\ k = j.k /\ rows = j.declared.rows /\ cols = j.declared.cols
  OBVIOUS
<1>2. /\ m \in Nat /\ n \in Nat /\ k \in Nat /\ rows \in NestedPatterns /\ cols \in NestedPatterns
      /\ m % Period(rows) = 0 /\ n % Period(cols) = 0
  BY <1>1 DEF FittingJobs, Fitting
<1>3. PICK ws : ws = Ensure(w, m, n, k)
  OBVIOUS
<1>4. ws.a \in Nat /\ ws.b \in Nat /\ m * k <= ws.a /\ n * k <= ws.b /\ ws.a_idx = m /\ ws.b_idx = n
  <2>1. ws \in Workspaces
    BY <1>2, <1>3, EnsureType, Zenon
  <2>2. m \in Nat /\ n \in Nat /\ k \in Nat
    BY <1>2
  <2>3. m * k <= ws.a /\ n * k <= ws.b /\ ws.a_idx = m /\ ws.b_idx = n
    <3>1. Enough(ws, m, n, k)
      BY <1>3, <2>2, EnsureEnough, Zenon
    <3> QED BY <3>1, Zenon DEF Enough
  <2>4. ws.a \in Nat /\ ws.b \in Nat
    BY <2>1 DEF Workspaces
  <2> QED BY <2>3, <2>4
<1>5. PICK row_tiles, col_tiles : /\ row_tiles = ThreadsPartition(rows, m)
                                  /\ col_tiles = ThreadsPartition(cols, n)
  OBVIOUS
<1>6. /\ \A tile \in ToSet(row_tiles) : \A i \in ToSet(tile) : (i + 1) * k <= ws.a
      /\ (Len(row_tiles) * Len(ToList(rows))) * k <= ws.a
  BY <1>2, <1>4, <1>5, TilesFit
<1>7. /\ \A tile \in ToSet(col_tiles) : \A i \in ToSet(tile) : (i + 1) * k <= ws.b
      /\ (Len(col_tiles) * Len(ToList(cols))) * k <= ws.b
  BY <1>2, <1>4, <1>5, TilesFit
<1>8. PICK config : config = Config(k, j.declared)
  OBVIOUS
<1>9. config.rows_pattern = rows /\ config.cols_pattern = cols
  BY <1>1, <1>8 DEF Config
<1>10. FastPath(cpu, config, k) => 2 * Len(row_tiles) * k <= ws.a /\ Len(col_tiles) * TileWidth * k <= ws.b
  <2> SUFFICES ASSUME FastPath(cpu, config, k)
               PROVE  2 * Len(row_tiles) * k <= ws.a /\ Len(col_tiles) * TileWidth * k <= ws.b
    OBVIOUS
  <2>1. Len(ToList(rows)) = 2 /\ Len(ToList(cols)) = TileWidth
    BY <1>9 DEF FastPath
  <2>2. Len(row_tiles) \in Nat
    BY <1>2, <1>5, TilesCount DEF NestedPatterns
  <2>3. Len(row_tiles) * 2 = 2 * Len(row_tiles)
    BY <2>2
  <2> QED BY <1>6, <1>7, <2>1, <2>3, Zenon
<1>11. Holds(ws, cpu, config, m, n, k)
  BY <1>4, <1>5, <1>6, <1>7, <1>9, <1>10, Zenon DEF Holds
<1> QED BY <1>1, <1>3, <1>8, <1>11

(* WorkspaceFits for every sequence of jobs whose dimensions fit their     *)
(* nested patterns: the attempt indexes inside the buffers of its thread.  *)
THEOREM WorkspaceAlwaysFits ==
  ASSUME input \in WorkspaceInputs(Seq(FittingJobs))
  PROVE  WorkspaceFits
<1>1. PICK js \in Seq(FittingJobs) : js = input.jobs
  BY DEF WorkspaceInputs
<1>2. PICK len \in Nat : len = Len(js)
  OBVIOUS
<1>3. \A x \in 1..len : js[x] \in FittingJobs /\ js[x].m \in Nat /\ js[x].n \in Nat /\ js[x].k \in Nat
  BY <1>2 DEF FittingJobs
<1> DEFINE F == [x \in 1..len |-> [w \in Workspaces |-> Ensure(w, js[x].m, js[x].n, js[x].k)]]
           IsIt(g) == g = [x \in 0..Len(input.jobs) |->
                             IF x = 0 THEN NewWorkspace
                             ELSE Ensure(g[x - 1], input.jobs[x].m, input.jobs[x].n, input.jobs[x].k)]
<1>4. Steps(F, len, Workspaces) /\ NewWorkspace \in Workspaces
  BY <1>3, EnsureType DEF Steps, NewWorkspace, Workspaces
<1>5. PICK f \in [0..len -> Workspaces] : f[0] = NewWorkspace /\ Follows(f, F, len)
  <2> HIDE DEF F
  <2> QED BY <1>4, Recursion
<1>6. ASSUME NEW x \in 0..len
      PROVE  f[x] = IF x = 0 THEN NewWorkspace ELSE Ensure(f[x - 1], js[x].m, js[x].n, js[x].k)
  <2>1. x # 0 => x \in 1..len /\ x - 1 \in 0..len
    OBVIOUS
  <2>2. x # 0 => f[x] = F[x][f[x - 1]] /\ f[x - 1] \in Workspaces
    BY <1>5, <2>1 DEF Follows
  <2> QED BY <1>5, <2>1, <2>2
<1>7. IsIt(f)
  <2>1. f = [x \in 0..len |-> f[x]]
    OBVIOUS
  <2> QED BY <1>1, <1>2, <1>6, <2>1, Zenon
<1>8. PICK v : v = (CHOOSE g : IsIt(g))
  OBVIOUS
<1>9. IsIt(v)
  BY <1>7, <1>8, Zenon
<1>10. ASSUME NEW x \in 0..len
       PROVE  v[x] = IF x = 0 THEN NewWorkspace ELSE Ensure(v[x - 1], js[x].m, js[x].n, js[x].k)
  BY <1>1, <1>2, <1>9, Zenon
<1> HIDE DEF F
<1> DEFINE T == {x \in 0..len : v[x] \in Workspaces}
<1>11. 0 \in T
  BY <1>4, <1>10
<1>12. ASSUME NEW x \in 0..len - 1, x \in T PROVE x + 1 \in T
  <2>1. x + 1 \in 0..len /\ x + 1 # 0 /\ x + 1 - 1 = x /\ x + 1 \in 1..len
    OBVIOUS
  <2>2. v[x + 1] = Ensure(v[x], js[x + 1].m, js[x + 1].n, js[x + 1].k)
    BY <1>10, <2>1
  <2>3. Ensure(v[x], js[x + 1].m, js[x + 1].n, js[x + 1].k) \in Workspaces
    BY <1>3, <1>12, <2>1, EnsureType
  <2> QED BY <2>1, <2>2, <2>3
<1> HIDE DEF T
<1>13. \A x \in 0..len : x \in T
  BY <1>11, <1>12, InductionTo
<1>14. ASSUME NEW x \in DOMAIN js, NEW cpu
       PROVE  Holds(v[x], cpu, Config(js[x].k, js[x].declared), js[x].m, js[x].n, js[x].k)
  <2>1. x \in 1..len /\ x \in 0..len /\ x # 0 /\ x - 1 \in 0..len
    BY <1>2
  <2>2. v[x] = Ensure(v[x - 1], js[x].m, js[x].n, js[x].k)
    BY <1>10, <2>1
  <2>3. v[x - 1] \in Workspaces
    BY <1>13, <2>1 DEF T
  <2> QED BY <1>3, <2>1, <2>2, <2>3, EnsureHolds
<1>15. \A x \in DOMAIN input.jobs : \A cpu \in {"avx512", "scalar"} :
         Holds((CHOOSE g : IsIt(g))[x], cpu, Config(input.jobs[x].k, input.jobs[x].declared),
               input.jobs[x].m, input.jobs[x].n, input.jobs[x].k)
  BY <1>1, <1>8, <1>14, Zenon
<1> QED BY <1>15 DEF WorkspaceFits

-----------------------------------------------------------------------------
(* The proof contexts of a GPU search thread.                              *)

(* A number below a multiple has a quotient below the factor.              *)
LEMMA QuotientBelow ==
  ASSUME NEW c \in Nat \ {0}, NEW q \in Nat, NEW x \in Nat, x < c * q
  PROVE  x \div c < q
<1>1. PICK d, r : d = x \div c /\ r = x % c
  OBVIOUS
<1>2. d \in Nat /\ r \in 0..c - 1 /\ x = c * d + r
  BY <1>1, QuotientIn, RemainderIn, Recombine, Zenon
<1>3. q <= d => c * q <= c * d
  BY <1>2, Monotone
<1>4. c * d \in Nat /\ c * q \in Nat
  BY <1>2
<1> QED BY <1>1, <1>2, <1>3, <1>4

(* The leaves of a row: as many as LeavesPerRow says.                      *)
RowHas(i, k, count) ==
  /\ count \in Nat \ {0}
  /\ (i * k) \div Chunk \in Nat
  /\ (i * k + k - 1) \div Chunk = (i * k) \div Chunk + count - 1

(* A row that leaves line up with has as many as LeavesPerRow says,        *)
(* wherever it lies.                                                       *)
LEMMA RowLeaves ==
  ASSUME NEW k \in Nat \ {0}, k % Chunk = 0 \/ Chunk % k = 0, NEW i \in Nat
  PROVE  RowHas(i, k, LeavesPerRow(k))
<1>1. Chunk \in Nat \ {0}
  BY ChunkAssumption
<1>2. PICK c \in Nat \ {0} : c = Chunk
  BY <1>1
<1>3. CASE k % c = 0
  <2>1. PICK q \in Nat : k = c * q
    BY <1>3, MultipleIs, Zenon
  <2>2. q # 0
    <3>1. c * 0 = 0
      OBVIOUS
    <3> QED BY <2>1, <3>1
  <2>3. i * k = c * (q * i) + 0 /\ i * k + k - 1 = c * (q * i + q - 1) + (c - 1)
        /\ k + c - 1 = c * q + (c - 1) /\ q * i \in Nat /\ q * i + q - 1 \in Nat
    <3>1. PICK p : p = q * i
      OBVIOUS
    <3>2. p \in Nat
      BY <3>1
    <3>3. i * (c * q) = c * p /\ c * p \in Nat
      BY <3>1
    <3>4. c * (p + q - 1) = c * p + c * q - c /\ c * q \in Nat
      BY <3>2
    <3> QED BY <2>1, <2>2, <3>1, <3>2, <3>3, <3>4
  <2>4. 0 \in 0..c - 1 /\ c - 1 \in 0..c - 1
    OBVIOUS
  <2>5. (c * (q * i) + 0) \div c = q * i
    BY <2>3, <2>4, QuotientOf, Zenon
  <2>6. (c * (q * i + q - 1) + (c - 1)) \div c = q * i + q - 1
    BY <2>3, <2>4, QuotientOf, Zenon
  <2>7. (c * q + (c - 1)) \div c = q
    BY <2>4, QuotientOf, Zenon
  <2>8. LeavesPerRow(k) = q
    BY <1>2, <2>3, <2>7, Zenon DEF LeavesPerRow
  <2>9. (i * k) \div c = q * i /\ (i * k + k - 1) \div c = q * i + q - 1
    BY <2>3, <2>5, <2>6, Zenon
  <2> QED BY <1>2, <2>2, <2>3, <2>8, <2>9 DEF RowHas
<1>4. CASE c % k = 0
  <2>1. PICK q \in Nat : c = k * q
    BY <1>4, MultipleIs, Zenon
  <2>2. q \in Nat \ {0}
    <3>1. k * 0 = 0
      OBVIOUS
    <3> QED BY <2>1, <3>1
  <2>3. /\ i * k = k * i + 0 /\ i * k + k - 1 = k * i + (k - 1)
        /\ i * k \in Nat /\ i * k + k - 1 \in Nat
    OBVIOUS
  <2>4. 0 \in 0..k - 1 /\ k - 1 \in 0..k - 1
    OBVIOUS
  <2>5. (k * i + 0) \div k = i /\ (k * i + (k - 1)) \div k = i
    BY <2>4, QuotientOf, Zenon
  <2>6. (i * k) \div (k * q) = ((i * k) \div k) \div q
    <3>1. PICK x \in Nat : x = i * k
      BY <2>3, Zenon
    <3>2. x \div (k * q) = (x \div k) \div q
      BY <2>2, DivideByProduct, Zenon
    <3> QED BY <3>1, <3>2, Zenon
  <2>7. (i * k + k - 1) \div (k * q) = ((i * k + k - 1) \div k) \div q
    <3>1. PICK x \in Nat : x = i * k + k - 1
      BY <2>3, Zenon
    <3>2. x \div (k * q) = (x \div k) \div q
      BY <2>2, DivideByProduct, Zenon
    <3> QED BY <3>1, <3>2, Zenon
  <2>8. (i * k) \div c = i \div q /\ (i * k + k - 1) \div c = i \div q
    BY <2>1, <2>3, <2>5, <2>6, <2>7, Zenon
  <2>9. i \div q \in Nat
    BY <2>2, QuotientIn, Zenon
  <2>10. LeavesPerRow(k) = 1
    <3>1. k <= c
      <4>1. k * 1 <= k * q
        BY <2>2, Monotone
      <4> QED BY <2>1, <4>1
    <3>2. k - 1 \in 0..c - 1 /\ k + c - 1 = c * 1 + (k - 1)
      BY <3>1
    <3>3. (c * 1 + (k - 1)) \div c = 1
      BY <3>2, 1 \in Nat, QuotientOf, Zenon
    <3> QED BY <1>2, <3>2, <3>3, Zenon DEF LeavesPerRow
  <2> QED BY <1>2, <2>8, <2>9, <2>10 DEF RowHas
<1> QED BY <1>2, <1>3, <1>4

(* A tile asks for the leaves of its rows: no more than that many for each, *)
(* and all of its matrix.                                                  *)
LEMMA TileServed ==
  ASSUME NEW pattern \in NestedPatterns, NEW m \in Nat, m % Period(pattern) = 0,
         NEW k \in Nat \ {0}, Aligned(m, k),
         NEW tile \in ToSet(ThreadsPartition(pattern, m))
  PROVE  Serves(m, k, Len(ToList(pattern)) * LeavesPerRow(k), tile)
<1>1. pattern \in Seq(Dimensions) /\ Nested(pattern) /\ Chunk \in Nat \ {0}
  BY ChunkAssumption DEF NestedPatterns
<1>2. PICK S, P, V : /\ ToList(pattern) = Sorted(S) /\ P = Period(pattern)
                     /\ V = {o \in Nat : OffsetIsValid(pattern, o)} /\ Shares(V, S, P)
  BY <1>1, ToListIs
<1>3. S \in SUBSET Nat /\ IsFiniteSet(S) /\ S # {} /\ Cardinality(S) \in Nat
      /\ Len(ToList(pattern)) = Cardinality(S)
  <2>1. 0 \in Nat
    OBVIOUS
  <2>2. P \in Nat \ {0} /\ S \in SUBSET (0..P - 1) /\ S # {}
    BY <1>2, <2>1 DEF Shares
  <2>3. IsFiniteSet(0..P - 1)
    BY <2>2, FS_Interval
  <2>4. IsFiniteSet(S)
    BY <2>2, <2>3, FS_Subset
  <2>5. S \in SUBSET Nat
    BY <2>2
  <2> QED BY <1>2, <2>2, <2>4, <2>5, SortedIs
<1>4. PICK o \in Nat : ToSet(tile) = {o + s : s \in S}
  <2>1. PICK o \in TileOffsets(pattern, m) : tile = TileAt(S, o)
    BY <1>2, TilesAre
  <2>2. o \in Nat
    BY <2>1, OffsetsAreFinite
  <2> QED BY <1>3, <2>1, <2>2, IndicesOfTile
<1>5. \A s \in S : o + s \in 0..m - 1
  <2>1. ToSet(tile) \subseteq 0..m - 1
    BY <1>1, Partition
  <2> QED BY <1>4, <2>1
<1>6. PICK count : count = LeavesPerRow(k)
  OBVIOUS
<1> DEFINE first(i) == (i * k) \div Chunk
<1>7. ASSUME NEW i \in Nat
      PROVE  first(i) \in Nat /\ (i * k + k - 1) \div Chunk = first(i) + count - 1
  <2>1. RowHas(i, k, count)
    BY <1>6, RowLeaves DEF Aligned
  <2> QED BY <2>1, Zenon DEF RowHas
<1>8. count \in Nat \ {0}
  <2>1. RowHas(0, k, count)
    BY <1>6, 0 \in Nat, RowLeaves DEF Aligned
  <2> QED BY <2>1, Zenon DEF RowHas
<1>17. \A s \in S : o + s \in Nat
  BY <1>3
<1>9. PICK leaves : leaves = LeafIndices(tile, k)
  OBVIOUS
<1>10. ASSUME NEW x PROVE x \in leaves <=> \E s \in S : x \in first(o + s)..first(o + s) + count - 1
  <2>1. \A s \in S : ((o + s) * k + k - 1) \div Chunk = first(o + s) + count - 1
    BY <1>7, <1>17, Zenon
  <2>2. x \in leaves <=> \E s \in S : x \in first(o + s)..((o + s) * k + k - 1) \div Chunk
    BY <1>4, <1>9 DEF LeafIndices
  <2> QED BY <2>1, <2>2
<1>11. \A s \in S : first(o + s) \in Nat
  BY <1>7, <1>17, Zenon
<1> HIDE DEF first
<1> DEFINE f == [p \in S \X (0..count - 1) |-> first(o + p[1]) + p[2]]
<1>12. f \in Surjection(S \X (0..count - 1), leaves)
  <2>1. ASSUME NEW s \in S, NEW y \in 0..count - 1 PROVE first(o + s) + y \in leaves
    <3>1. first(o + s) + y \in first(o + s)..first(o + s) + count - 1
      BY <1>8, <1>11
    <3> QED BY <1>10, <3>1
  <2>2. f \in [S \X (0..count - 1) -> leaves]
    BY <2>1
  <2>3. ASSUME NEW x \in leaves PROVE \E p \in S \X (0..count - 1) : f[p] = x
    <3>1. PICK s \in S : x \in first(o + s)..first(o + s) + count - 1
      BY <1>10
    <3>2. PICK y \in 0..count - 1 : x = first(o + s) + y
      <4>1. x - first(o + s) \in 0..count - 1 /\ x = first(o + s) + (x - first(o + s))
        BY <1>8, <1>11, <3>1
      <4> QED BY <4>1
    <3>3. <<s, y>> \in S \X (0..count - 1) /\ f[<<s, y>>] = x
      BY <3>2
    <3> QED BY <3>3
  <2> HIDE DEF f
  <2> QED BY <2>2, <2>3 DEF Surjection
<1> HIDE DEF f
<1>13. /\ IsFiniteSet(S \X (0..count - 1))
       /\ Cardinality(S \X (0..count - 1)) = Cardinality(S) * count
  <2>1. 0 \in Int /\ count - 1 \in Int
    BY <1>8
  <2>2. IsFiniteSet(0..count - 1) /\ Cardinality(0..count - 1) = IF 0 > count - 1 THEN 0 ELSE count - 1 - 0 + 1
    BY <2>1, FS_Interval
  <2>3. Cardinality(0..count - 1) = count
    BY <1>8, <2>2
  <2>4. PICK T : T = 0..count - 1
    OBVIOUS
  <2>5. IsFiniteSet(S \X T) /\ Cardinality(S \X T) = Cardinality(S) * Cardinality(T)
    BY <1>3, <2>2, <2>4, FS_Product
  <2> QED BY <2>3, <2>4, <2>5
<1>14. IsFiniteSet(leaves) /\ Cardinality(leaves) \in Nat /\ Cardinality(leaves) <= Cardinality(S) * count
  <2>1. IsFiniteSet(leaves) /\ Cardinality(leaves) <= Cardinality(S \X (0..count - 1))
    BY <1>12, <1>13, FS_Surjection
  <2> QED BY <1>13, <2>1, FS_CardinalityType
<1>15. Cardinality(leaves) # 0
  <2>1. PICK s \in S : TRUE
    BY <1>3
  <2>2. first(o + s) \in first(o + s)..first(o + s) + count - 1
    BY <1>8, <1>11
  <2>3. leaves # {}
    BY <1>10, <2>2
  <2> QED BY <1>14, <2>3, FS_EmptySet
<1>16. leaves \subseteq 0..((m * k) \div Chunk) - 1
  <2>1. PICK c \in Nat \ {0} : c = Chunk
    BY <1>1
  <2>2. m * k \in Nat
    OBVIOUS
  <2>3. PICK q \in Nat : m * k = c * q
    BY <2>1, <2>2, MultipleIs, Zenon DEF Aligned
  <2>4. (m * k) \div c = q
    <3>1. 0 \in 0..c - 1 /\ c * q + 0 = c * q
      OBVIOUS
    <3>2. (c * q + 0) \div c = q
      BY <3>1, QuotientOf, Zenon
    <3> QED BY <2>3, <3>1, <3>2, Zenon
  <2>5. ASSUME NEW x \in leaves PROVE x \in 0..q - 1
    <3>1. PICK s \in S : x \in first(o + s)..first(o + s) + count - 1
      BY <1>10
    <3>2. PICK i \in 0..m - 1 : i = o + s
      BY <1>5
    <3>3. PICK y : y = i * k + k - 1
      OBVIOUS
    <3>4. y \in Nat /\ y < c * q
      <4>1. i + 1 \in Nat /\ i + 1 <= m /\ i \in Nat
        BY <3>2
      <4>2. (i + 1) * k <= m * k
        BY <4>1, Times
      <4>3. (i + 1) * k = i * k + k /\ i * k \in Nat
        BY <4>1
      <4> QED BY <2>2, <2>3, <3>3, <4>2, <4>3
    <3>5. y \div c < q
      BY <3>4, QuotientBelow
    <3>6. y \div c = first(o + s) + count - 1
      <4>1. i \in Nat
        BY <3>2
      <4>2. (i * k + k - 1) \div Chunk = first(i) + count - 1
        BY <1>7, <4>1, Zenon
      <4> QED BY <2>1, <3>2, <3>3, <4>2, Zenon
    <3> QED BY <1>8, <1>11, <3>1, <3>5, <3>6
  <2> QED BY <2>1, <2>4, <2>5
<1> QED BY <1>3, <1>6, <1>9, <1>14, <1>15, <1>16 DEF Serves

Kernels == [rows : NestedPatterns, cols : NestedPatterns]

AlignedJobs == {j \in FittingJobs : j.k # 0 /\ Aligned(j.m, j.k) /\ Aligned(j.n, j.k)}

(* A context has room for tiles of the kernel's shape, at its depth.       *)
HasRoom(p, kernel) ==
  /\ p.max_leaves_a = Len(ToList(kernel.rows)) * LeavesPerRow(p.k)
  /\ p.max_leaves_b = Len(ToList(kernel.cols)) * LeavesPerRow(p.k)

Contexts(kernel) ==
  {p \in [m : Nat, n : Nat, k : Nat, max_leaves_a : Nat, max_leaves_b : Nat] :
     p.k # 0 => HasRoom(p, kernel)}

(* The parts of an aligned job.                                            *)
LEMMA JobIs ==
  ASSUME NEW j \in AlignedJobs
  PROVE  /\ j.m \in Nat /\ j.n \in Nat /\ j.k \in Nat \ {0} /\ j \in FittingJobs
         /\ Aligned(j.m, j.k) /\ Aligned(j.n, j.k)
BY DEF AlignedJobs, FittingJobs

(* LeavesPerRow is a number.                                               *)
LEMMA LeavesPerRowIn ==
  ASSUME NEW k \in Nat \ {0}, k % Chunk = 0 \/ Chunk % k = 0
  PROVE  LeavesPerRow(k) \in Nat
<1>1. RowHas(0, k, LeavesPerRow(k))
  BY 0 \in Nat, RowLeaves
<1> QED BY <1>1 DEF RowHas

(* So is the length of a list.                                             *)
LEMMA LengthIn ==
  ASSUME NEW pattern \in NestedPatterns
  PROVE  Len(ToList(pattern)) \in Nat
<1>1. 0 \in Nat
  OBVIOUS
<1>2. pattern \in Seq(Dimensions) /\ Nested(pattern)
  BY DEF NestedPatterns
<1>3. PICK S : ToList(pattern) = Sorted(S)
               /\ Shares({o \in Nat : OffsetIsValid(pattern, o)}, S, Period(pattern))
  BY <1>2, ToListIs
<1>4. Period(pattern) \in Nat \ {0} /\ S \in SUBSET (0..Period(pattern) - 1)
  BY <1>3 DEF Shares
<1>5. IsFiniteSet(S)
  <2>1. IsFiniteSet(0..Period(pattern) - 1)
    BY <1>4, FS_Interval
  <2> QED BY <1>4, <2>1, FS_Subset
<1>6. S \in SUBSET Nat
  BY <1>4
<1> QED BY <1>3, <1>5, <1>6, SortedIs

(* A context has room for its dimensions, and after a hit of the kernel's  *)
(* shape it is one of the depth of the job.                                *)
LEMMA ProofContextIs ==
  ASSUME NEW kernel \in Kernels, NEW p \in Contexts(kernel), NEW j \in AlignedJobs,
         NEW q, q = ProofContext(p, kernel, Config(j.k, j.declared), j.m, j.n)
  PROVE  /\ q \in Contexts(kernel)
         /\ /\ Len(ToList(kernel.rows)) = Len(ToList(j.declared.rows))
            /\ Len(ToList(kernel.cols)) = Len(ToList(j.declared.cols))
            => q.k = j.k /\ HasRoom(q, kernel)
<1>1. PICK h, w, m, n, k, count : /\ h = Len(ToList(kernel.rows)) /\ w = Len(ToList(kernel.cols))
                                  /\ m = j.m /\ n = j.n /\ k = j.k /\ count = LeavesPerRow(k)
  OBVIOUS
<1>2. m \in Nat /\ n \in Nat /\ k \in Nat \ {0} /\ count \in Nat
  BY <1>1, JobIs, LeavesPerRowIn DEF Aligned
<1>3. h \in Nat /\ w \in Nat
  BY <1>1, LengthIn DEF Kernels
<1>4. PICK a, b : a = h * count /\ b = w * count
  OBVIOUS
<1>5. a \in Nat /\ b \in Nat
  BY <1>2, <1>3, <1>4
<1>6. PICK new : new = [m |-> m, n |-> n, k |-> k, max_leaves_a |-> a, max_leaves_b |-> b]
  OBVIOUS
<1>7. new \in Contexts(kernel) /\ new.k = k /\ HasRoom(new, kernel)
  BY <1>1, <1>2, <1>4, <1>5, <1>6 DEF Contexts, HasRoom
<1>8. PICK config : config = Config(k, j.declared)
  OBVIOUS
<1>9. config.rows_pattern = j.declared.rows /\ config.cols_pattern = j.declared.cols /\ config.common_dim = k
  BY <1>8 DEF Config
<1>10. CASE h # Len(ToList(j.declared.rows)) \/ w # Len(ToList(j.declared.cols))
  <2>1. q = p
    BY <1>1, <1>8, <1>9, <1>10 DEF ProofContext
  <2> QED BY <1>1, <1>10, <2>1
<1>11. CASE /\ h = Len(ToList(j.declared.rows)) /\ w = Len(ToList(j.declared.cols))
            /\ <<p.m, p.n, p.k>> = <<m, n, k>>
  <2>1. q = p
    BY <1>1, <1>8, <1>9, <1>11 DEF ProofContext
  <2>2. p.k = k
    BY <1>11
  <2>3. HasRoom(p, kernel)
    BY <1>2, <2>2 DEF Contexts
  <2> QED BY <1>1, <2>1, <2>2, <2>3
<1>12. CASE /\ h = Len(ToList(j.declared.rows)) /\ w = Len(ToList(j.declared.cols))
            /\ <<p.m, p.n, p.k>> # <<m, n, k>>
  <2>1. q = new
    BY <1>1, <1>4, <1>6, <1>8, <1>9, <1>12 DEF ProofContext
  <2> QED BY <1>1, <1>7, <2>1
<1> QED BY <1>10, <1>11, <1>12

(* LeavesFit for every sequence of aligned jobs and every kernel whose     *)
(* tiles fit their matrices: no hit trips an assertion of ProofGpuCtx.     *)
THEOREM LeavesAlwaysFit ==
  ASSUME input \in ContextInputs(Seq(AlignedJobs), Kernels),
         \A x \in DOMAIN input.jobs : Fitting(input.jobs[x].m, input.jobs[x].n, input.kernel)
  PROVE  LeavesFit
<1>1. PICK js \in Seq(AlignedJobs), kernel \in Kernels : js = input.jobs /\ kernel = input.kernel
  BY DEF ContextInputs
<1>2. PICK len \in Nat : len = Len(js)
  OBVIOUS
<1>3. \A x \in 1..len : js[x] \in AlignedJobs
  BY <1>2
<1> DEFINE After(x, p) == ProofContext(p, kernel, Config(js[x].k, js[x].declared), js[x].m, js[x].n)
           F == [x \in 1..len |-> [p \in Contexts(kernel) |-> After(x, p)]]
           IsIt(g) == g = [x \in 0..Len(input.jobs) |->
                             IF x = 0 THEN NoContext
                             ELSE ProofContext(g[x - 1], input.kernel,
                                               Config(input.jobs[x].k, input.jobs[x].declared),
                                               input.jobs[x].m, input.jobs[x].n)]
<1>4. Steps(F, len, Contexts(kernel)) /\ NoContext \in Contexts(kernel)
  <2>1. ASSUME NEW x \in 1..len, NEW p \in Contexts(kernel) PROVE After(x, p) \in Contexts(kernel)
    BY <1>3, ProofContextIs
  <2> HIDE DEF After
  <2>2. Steps(F, len, Contexts(kernel))
    BY <2>1 DEF Steps
  <2>3. NoContext \in Contexts(kernel)
    BY DEF NoContext, Contexts
  <2> QED BY <2>2, <2>3
<1>5. PICK f \in [0..len -> Contexts(kernel)] : f[0] = NoContext /\ Follows(f, F, len)
  <2> HIDE DEF F
  <2> QED BY <1>4, Recursion
<1>6. ASSUME NEW x \in 0..len
      PROVE  f[x] = IF x = 0 THEN NoContext ELSE After(x, f[x - 1])
  <2>1. x # 0 => x \in 1..len /\ x - 1 \in 0..len
    OBVIOUS
  <2> HIDE DEF After
  <2>2. x # 0 => f[x] = F[x][f[x - 1]] /\ f[x - 1] \in Contexts(kernel)
    BY <1>5, <2>1 DEF Follows
  <2> QED BY <1>5, <2>1, <2>2
<1>7. IsIt(f)
  <2>1. f = [x \in 0..len |-> f[x]]
    OBVIOUS
  <2> QED BY <1>1, <1>2, <1>6, <2>1, Zenon
<1>8. PICK v : v = (CHOOSE g : IsIt(g))
  OBVIOUS
<1>9. IsIt(v)
  BY <1>7, <1>8, Zenon
<1>10. ASSUME NEW x \in 0..len
       PROVE  v[x] = IF x = 0 THEN NoContext ELSE After(x, v[x - 1])
  BY <1>1, <1>2, <1>9, Zenon
<1> HIDE DEF F
<1> DEFINE T == {x \in 0..len : v[x] \in Contexts(kernel)}
<1>11. 0 \in T
  BY <1>4, <1>10
<1>12. ASSUME NEW x \in 0..len - 1, x \in T PROVE x + 1 \in T
  <2>1. x + 1 \in 0..len /\ x + 1 # 0 /\ x + 1 - 1 = x /\ x + 1 \in 1..len
    OBVIOUS
  <2>2. v[x + 1] = After(x + 1, v[x])
    BY <1>10, <2>1
  <2>3. v[x + 1] \in Contexts(kernel)
    BY <1>3, <1>12, <2>1, <2>2, ProofContextIs
  <2> QED BY <2>1, <2>3
<1> HIDE DEF T
<1>13. \A x \in 0..len : x \in T
  BY <1>11, <1>12, InductionTo
<1> DEFINE fits(x) == /\ Len(ToList(input.kernel.rows)) = Len(ToList(input.jobs[x].declared.rows))
                      /\ Len(ToList(input.kernel.cols)) = Len(ToList(input.jobs[x].declared.cols))
<1>14. ASSUME NEW x \in DOMAIN input.jobs, fits(x)
       PROVE  /\ \A tile \in ToSet(ThreadsPartition(input.kernel.rows, input.jobs[x].m)) :
                   Serves(input.jobs[x].m, input.jobs[x].k, v[x].max_leaves_a, tile)
              /\ \A tile \in ToSet(ThreadsPartition(input.kernel.cols, input.jobs[x].n)) :
                   Serves(input.jobs[x].n, input.jobs[x].k, v[x].max_leaves_b, tile)
  <2>1. x \in 1..len /\ x \in 0..len /\ x # 0 /\ x - 1 \in 0..len /\ js[x] \in AlignedJobs
    BY <1>1, <1>2, <1>3
  <2>2. v[x] = After(x, v[x - 1]) /\ v[x - 1] \in Contexts(kernel) /\ v[x] \in Contexts(kernel)
    BY <1>10, <1>13, <2>1 DEF T
  <2>3. v[x].k = js[x].k /\ HasRoom(v[x], kernel)
    <3>1. PICK j \in AlignedJobs, p \in Contexts(kernel), q \in Contexts(kernel) :
            j = js[x] /\ p = v[x - 1] /\ q = v[x]
      BY <2>1, <2>2
    <3>2. q = ProofContext(p, kernel, Config(j.k, j.declared), j.m, j.n)
      BY <2>2, <3>1
    <3>3. /\ Len(ToList(kernel.rows)) = Len(ToList(j.declared.rows))
          /\ Len(ToList(kernel.cols)) = Len(ToList(j.declared.cols))
      BY <1>1, <1>14, <3>1
    <3>4. q.k = j.k /\ HasRoom(q, kernel)
      BY <3>2, <3>3, ProofContextIs
    <3> QED BY <3>1, <3>4
  <2>4. PICK m, n, k, rows, cols : /\ m = js[x].m /\ n = js[x].n /\ k = js[x].k
                                   /\ rows = kernel.rows /\ cols = kernel.cols
    OBVIOUS
  <2>5. /\ m \in Nat /\ n \in Nat /\ k \in Nat \ {0} /\ Aligned(m, k) /\ Aligned(n, k)
        /\ rows \in NestedPatterns /\ cols \in NestedPatterns
    BY <2>1, <2>4, JobIs DEF Kernels
  <2>6. m % Period(rows) = 0 /\ n % Period(cols) = 0
    BY <1>1, <2>4 DEF Fitting
  <2>7. /\ v[x].max_leaves_a = Len(ToList(rows)) * LeavesPerRow(k)
        /\ v[x].max_leaves_b = Len(ToList(cols)) * LeavesPerRow(k)
    BY <2>3, <2>4 DEF HasRoom
  <2>8. \A tile \in ToSet(ThreadsPartition(rows, m)) : Serves(m, k, v[x].max_leaves_a, tile)
    BY <2>5, <2>6, <2>7, TileServed
  <2>9. \A tile \in ToSet(ThreadsPartition(cols, n)) : Serves(n, k, v[x].max_leaves_b, tile)
    BY <2>5, <2>6, <2>7, TileServed
  <2> QED BY <1>1, <2>4, <2>8, <2>9, Zenon
<1>15. \A x \in DOMAIN input.jobs : fits(x) =>
         /\ \A tile \in ToSet(ThreadsPartition(input.kernel.rows, input.jobs[x].m)) :
              Serves(input.jobs[x].m, input.jobs[x].k, (CHOOSE g : IsIt(g))[x].max_leaves_a, tile)
         /\ \A tile \in ToSet(ThreadsPartition(input.kernel.cols, input.jobs[x].n)) :
              Serves(input.jobs[x].n, input.jobs[x].k, (CHOOSE g : IsIt(g))[x].max_leaves_b, tile)
  BY <1>8, <1>14, Zenon
<1> QED BY <1>15 DEF LeavesFit

-----------------------------------------------------------------------------
(* The pattern that is declared and the kernel that folds by it.           *)

(* What HeroMinersEnv leaves set.                                          *)
LEMMA HeroMinersEnvIs ==
  ASSUME NEW vars, NEW major, NEW set, set = HeroMinersEnv(vars, major)
  PROVE  /\ set \cap T4Wide = {} <=> vars \cap T4Wide = {} /\ (major # 7 \/ "SM75" \in vars)
         /\ "TMA_MS" \in set <=> major # 7
         /\ "WGMMA" \in set <=> "WGMMA" \in vars \/ (major = 9 /\ "NO_WGMMA" \notin vars)
         /\ "NO_WGMMA" \in set <=> "NO_WGMMA" \in vars
         /\ "FORCE_SM75" \in set <=> "FORCE_SM75" \in vars
BY DEF HeroMinersEnv, T4Wide

(* Under HeroMiners' environment the declared tile is the kernel's, unless *)
(* the operator's variables contradict each other.                         *)
LEMMA HeroMinersTracks ==
  ASSUME NEW vars, NEW major, NEW set, set = HeroMinersEnv(vars, major)
  PROVE  HeroMinersTile(set) = KernelTile(set, major) <=> ~Contradictory(vars, major)
<1>1. /\ set \cap T4Wide = {} <=> vars \cap T4Wide = {} /\ (major # 7 \/ "SM75" \in vars)
      /\ "TMA_MS" \in set <=> major # 7
      /\ "WGMMA" \in set <=> "WGMMA" \in vars \/ (major = 9 /\ "NO_WGMMA" \notin vars)
      /\ "NO_WGMMA" \in set <=> "NO_WGMMA" \in vars
      /\ "FORCE_SM75" \in set <=> "FORCE_SM75" \in vars
  BY HeroMinersEnvIs
<1>2. CASE major = 7
  <2>1. Contradictory(vars, major) <=> vars \cap T4Wide = {} /\ "SM75" \in vars /\ WgmmaAsked(vars)
    BY <1>2 DEF Contradictory
  <2>2. KernelTile(set, major) = IF set \cap T4Wide # {} THEN "16x16" ELSE "8x16"
    BY <1>2 DEF KernelTile
  <2>3. HeroMinersTile(set) = IF set \cap T4Wide # {} THEN "16x16"
                              ELSE IF WgmmaAsked(set) THEN "2x64" ELSE "8x16"
    BY <1>1, <1>2 DEF HeroMinersTile
  <2>4. WgmmaAsked(set) <=> WgmmaAsked(vars)
    BY <1>1, <1>2 DEF WgmmaAsked
  <2> QED BY <1>1, <1>2, <2>1, <2>2, <2>3, <2>4
<1>3. CASE major # 7
  <2>1. Contradictory(vars, major) <=> ((vars \cap T4Wide = {}) <=> ("FORCE_SM75" \in vars))
    BY <1>3 DEF Contradictory
  <2>2. UseWgmma(set, major) <=> WgmmaAsked(set)
    BY <1>1 DEF UseWgmma, WgmmaAsked
  <2>3. KernelTile(set, major) = IF "FORCE_SM75" \in vars
                                 THEN IF vars \cap T4Wide # {} THEN "16x16" ELSE "8x16"
                                 ELSE IF WgmmaAsked(set) THEN "2x64" ELSE "period 256"
    BY <1>1, <1>3, <2>2 DEF KernelTile
  <2>4. HeroMinersTile(set) = IF vars \cap T4Wide # {} THEN "16x16"
                              ELSE IF WgmmaAsked(set) THEN "2x64" ELSE "period 256"
    BY <1>1, <1>3 DEF HeroMinersTile
  <2> QED BY <2>1, <2>3, <2>4
<1> QED BY <1>2, <1>3

(* PatternTracksKernel for every setting of the variables, rank and major  *)
(* version: the HeroMiners miner declares the rank and the tile that the   *)
(* library folds by, unless the variables contradict each other.           *)
THEOREM PatternAlwaysTracksKernel ==
  ASSUME input \in ChoiceInputs(SUBSET Settings, Nat, Nat)
  PROVE  PatternTracksKernel
<1>1. PICK vars \in SUBSET Settings, rank \in Nat, major \in Nat :
        vars = input.vars /\ rank = input.rank /\ major = input.major
  BY DEF ChoiceInputs
<1>2. PICK set, r : set = HeroMinersEnv(vars, major) /\ r = HeroMinersRank(rank)
  OBVIOUS
<1>3. Creates(r) => RankFromEnv(r) = KernelRank(r)
  BY <1>2 DEF Creates, RankFromEnv, KernelRank, HeroMinersRank
<1>4. HeroMinersTile(set) = KernelTile(set, major) <=> ~Contradictory(vars, major)
  BY <1>2, HeroMinersTracks
<1>5. ASSUME major # 7, vars \cap (T4Wide \cup Forced) = {}
      PROVE  /\ LuckyPoolTile(vars) = KernelTile(vars, major) \/ LuckyPoolMayDiffer(vars)
             /\ CanonicalTile(vars) = KernelTile(vars, major) \/ CanonicalMayDiffer(vars, major)
  <2>1. vars \cap T4Wide = {} /\ "FORCE_SM75" \notin vars
    BY <1>5 DEF Forced
  <2> QED BY <1>5, <2>1 DEF LuckyPoolTile, KernelTile, UseWgmma, WgmmaAsked, LuckyPoolMayDiffer,
                            CanonicalTile, CanonicalMayDiffer
<1>6. TracksKernel(vars, rank, major)
  BY <1>2, <1>3, <1>4, <1>5 DEF TracksKernel
<1> QED BY <1>1, <1>6 DEF PatternTracksKernel

-----------------------------------------------------------------------------
(* The layers of a tree and the places for their nodes.                    *)

(* v[c] is the number of nodes above and with a layer of c, the root apart. *)
Totals(v, n) == \A c \in 1..n : v[c] \in Nat /\ v[c] = IF c > 1 THEN c + v[Halve(c)] ELSE 0

(* There are such totals.                                                  *)
LEMMA TotalsExist ==
  ASSUME NEW n \in Nat
  PROVE  \E v \in [1..n -> Nat] : Totals(v, n)
<1> DEFINE T == {m \in 0..n : \E v \in [1..n -> Nat] : Totals(v, m)}
<1>1. 0 \in T
  <2>1. [c \in 1..n |-> 0] \in [1..n -> Nat] /\ Totals([c \in 1..n |-> 0], 0)
    BY DEF Totals
  <2> QED BY <2>1
<1>2. ASSUME NEW m \in 0..n - 1, m \in T PROVE m + 1 \in T
  <2>1. PICK v \in [1..n -> Nat] : Totals(v, m)
    BY <1>2
  <2>2. m + 1 \in Nat \ {0} /\ m + 1 \in 1..n /\ m + 1 \in 0..n
    OBVIOUS
  <2>3. PICK new : new = IF m + 1 > 1 THEN m + 1 + v[Halve(m + 1)] ELSE 0
    OBVIOUS
  <2>4. Halve(m + 1) \in Nat \ {0} /\ (m + 1 > 1 => Halve(m + 1) <= m)
    BY <2>2 DEF Halve
  <2>5. new \in Nat
    BY <2>3, <2>4
  <2>6. PICK w : w = [v EXCEPT ![m + 1] = new]
    OBVIOUS
  <2>7. w \in [1..n -> Nat] /\ w[m + 1] = new /\ \A c \in 1..m : w[c] = v[c]
    BY <2>2, <2>5, <2>6
  <2>8. ASSUME NEW c \in 1..m + 1
        PROVE  w[c] \in Nat /\ w[c] = IF c > 1 THEN c + w[Halve(c)] ELSE 0
    <3>1. CASE c = m + 1
      <4>1. c > 1 => Halve(c) \in 1..m
        BY <2>4, <3>1
      <4> QED BY <2>3, <2>5, <2>7, <3>1, <4>1
    <3>2. CASE c # m + 1
      <4>1. c \in 1..m /\ c \in Nat \ {0}
        BY <3>2
      <4>2. Halve(c) \in 1..m
        BY <4>1 DEF Halve
      <4> QED BY <2>1, <2>7, <4>1, <4>2 DEF Totals
    <3> QED BY <3>1, <3>2
  <2>9. Totals(w, m + 1)
    BY <2>8 DEF Totals
  <2> QED BY <2>2, <2>7, <2>9
<1> HIDE DEF T
<1>3. n \in T
  BY <1>1, <1>2, InductionTo
<1> QED BY <1>3 DEF T

(* They are also those of fewer.                                           *)
LEMMA TotalsOfLess ==
  ASSUME NEW n \in Nat, NEW m \in 0..n, NEW v, Totals(v, n)
  PROVE  Totals(v, m)
BY DEF Totals

(* They are what msimple_layers_words adds up.                             *)
LEMMA LayersWordsAre ==
  ASSUME NEW n \in Nat \ {0}, NEW v, Totals(v, n)
  PROVE  LayersWords(n) = v[n] + 1
<1> DEFINE IsIt(g) == g = [cur \in 1..n |-> IF cur > 1 THEN cur + g[Halve(cur)] ELSE 0]
<1>1. PICK w \in [1..n -> Nat] : Totals(w, n)
  BY TotalsExist
<1>2. ASSUME NEW c \in 1..n PROVE w[c] = IF c > 1 THEN c + w[Halve(c)] ELSE 0
  BY <1>1 DEF Totals
<1>3. IsIt(w)
  <2>1. w = [c \in 1..n |-> w[c]]
    OBVIOUS
  <2> QED BY <1>2, <2>1, Zenon
<1>4. PICK u : u = (CHOOSE g : IsIt(g))
  OBVIOUS
<1>5. IsIt(u)
  BY <1>3, <1>4, Zenon
<1>6. ASSUME NEW c \in 1..n PROVE u[c] = IF c > 1 THEN c + u[Halve(c)] ELSE 0
  BY <1>5, Zenon
<1> DEFINE S == {c \in 1..n : u[c] # v[c]}
<1>7. S = {}
  <2> SUFFICES ASSUME S # {} PROVE FALSE
    OBVIOUS
  <2>1. S \in SUBSET Nat
    OBVIOUS
  <2>2. PICK c \in S : \A d \in S : c <= d
    <3> HIDE DEF S
    <3> QED BY <2>1, LeastNatural
  <2>3. c \in 1..n /\ c \in Nat \ {0} /\ u[c] # v[c]
    BY <2>2
  <2>4. c > 1 => Halve(c) \in 1..n /\ Halve(c) < c /\ Halve(c) \in Nat
    BY <2>3 DEF Halve
  <2>5. c > 1 => u[Halve(c)] = v[Halve(c)]
    BY <2>2, <2>3, <2>4
  <2> QED BY <1>6, <2>3, <2>4, <2>5 DEF Totals
<1>8. u[n] = v[n]
  BY <1>7
<1>9. LayersWords(n) = (CHOOSE g : IsIt(g))[n] + 1
  BY Zenon DEF LayersWords
<1> QED BY <1>4, <1>8, <1>9

(* Up to twice as many nodes, one more is lost.                            *)
Within(v, n, m, b) == \A c \in 1..n : c <= m => v[c] <= 2 * c + b

(* For twice the nodes of a layer, one more.                               *)
LEMMA WithinTwice ==
  ASSUME NEW n \in Nat, NEW v, Totals(v, n), NEW m \in Nat \ {0}, NEW b \in Int, Within(v, n, m, b),
         b >= -2
  PROVE  Within(v, n, 2 * m, b + 1)
<1>1. ASSUME NEW c \in 1..n, c <= 2 * m PROVE v[c] <= 2 * c + b + 1
  <2>1. CASE c = 1
    BY <2>1 DEF Totals
  <2>2. CASE c # 1
    <3>1. PICK h : h = Halve(c)
      OBVIOUS
    <3>2. h \in 1..n /\ h <= m /\ 2 * h <= c + 1
      BY <1>1, <2>2, <3>1 DEF Halve
    <3>3. v[h] \in Nat /\ v[h] <= 2 * h + b
      BY <3>2 DEF Totals, Within
    <3>4. v[c] = c + v[h]
      BY <2>2, <3>1 DEF Totals
    <3> QED BY <3>2, <3>3, <3>4
  <2> QED BY <2>1, <2>2
<1> QED BY <1>1 DEF Within

(* Up to 1024 = 2^10 nodes, nine times.                                    *)
LEMMA TotalWithin ==
  ASSUME NEW n \in Nat \ {0}, NEW v, Totals(v, n)
  PROVE  Within(v, n, 1024, 7)
<1>1. n \in Nat
  OBVIOUS
<1>2. Within(v, n, 2, -2)
  <2>1. ASSUME NEW c \in 1..n, c <= 2 PROVE v[c] <= 2 * c - 2
    <3>1. CASE c = 1
      BY <3>1 DEF Totals
    <3>2. CASE c # 1
      <4>1. c = 2 /\ Halve(c) = 1 /\ 1 \in 1..n
        BY <2>1, <3>2 DEF Halve
      <4> QED BY <4>1 DEF Totals
    <3> QED BY <3>1, <3>2
  <2> QED BY <2>1 DEF Within
<1>3. Within(v, n, 4, -1)
  BY <1>1, <1>2, WithinTwice
<1>4. Within(v, n, 8, 0)
  BY <1>1, <1>3, WithinTwice
<1>5. Within(v, n, 16, 1)
  BY <1>1, <1>4, WithinTwice
<1>6. Within(v, n, 32, 2)
  BY <1>1, <1>5, WithinTwice
<1>7. Within(v, n, 64, 3)
  BY <1>1, <1>6, WithinTwice
<1>8. Within(v, n, 128, 4)
  BY <1>1, <1>7, WithinTwice
<1>9. Within(v, n, 256, 5)
  BY <1>1, <1>8, WithinTwice
<1>10. Within(v, n, 512, 6)
  BY <1>1, <1>9, WithinTwice
<1> QED BY <1>1, <1>10, WithinTwice

(* A layer of len nodes.                                                   *)
IsLayer(layer, len) == len \in Nat \ {0} /\ DOMAIN layer = 1..len /\ Len(layer) = len

(* A function on 1..len is a layer of len nodes.                           *)
LEMMA LayerOfFunction ==
  ASSUME NEW len \in Nat \ {0}, NEW layer, layer = [i \in 1..len |-> layer[i]]
  PROVE  IsLayer(layer, len)
<1>1. PICK S : S = {layer[i] : i \in 1..len}
  OBVIOUS
<1>2. layer \in [1..len -> S]
  <2>1. \A i \in 1..len : layer[i] \in S
    BY <1>1
  <2> QED BY <2>1
<1>3. layer \in Seq(S)
  BY <1>2
<1>4. DOMAIN layer = 1..len /\ DOMAIN layer = 1..Len(layer) /\ Len(layer) \in Nat
  BY <1>2, <1>3
<1>5. Len(layer) = len
  BY <1>4
<1> QED BY <1>4, <1>5 DEF IsLayer

(* The leaves are one.                                                     *)
LEMMA LeavesAreLayer ==
  ASSUME NEW n \in Nat \ {0}
  PROVE  IsLayer(Leaves(n), n)
<1>1. PICK layer : layer = Leaves(n)
  OBVIOUS
<1>2. layer = [i \in 1..n |-> layer[i]]
  BY <1>1 DEF Leaves
<1> QED BY <1>1, <1>2, LayerOfFunction

(* Above a layer there is one of half as many, rounded up.                 *)
LEMMA AboveIsLayer ==
  ASSUME NEW layer, NEW len, IsLayer(layer, len)
  PROVE  IsLayer(Above(layer), Halve(len))
<1>1. len \in Nat \ {0} /\ Len(layer) = len
  BY DEF IsLayer
<1>2. CASE len = 1
  <2>1. Above(layer) = layer /\ Halve(len) = len
    BY <1>1, <1>2 DEF Above, Halve
  <2> QED BY <2>1
<1>3. CASE len # 1
  <2>1. PICK up, half : up = ParentLevel(layer) /\ half = Halve(len)
    OBVIOUS
  <2>2. half \in Nat \ {0}
    BY <1>1, <2>1 DEF Halve
  <2>3. up = [p \in 1..half |-> up[p]]
    BY <1>1, <2>1 DEF ParentLevel
  <2>4. IsLayer(up, half)
    BY <2>2, <2>3, LayerOfFunction
  <2>5. Above(layer) = up
    BY <1>1, <1>3, <2>1 DEF Above
  <2> QED BY <2>1, <2>4, <2>5
<1> QED BY <1>2, <1>3

(* The layers from the leaves up.                                          *)
Rises(f, n, m) == \A l \in 0..m : f[l] = IF l = 0 THEN Leaves(n) ELSE Above(f[l - 1])

(* The tree is built from the leaves up.                                   *)
LEMMA BuiltRises ==
  ASSUME NEW n \in Nat
  PROVE  Rises(Built(n), n, n)
<1> DEFINE IsIt(g) == g = [l \in 0..n |-> IF l = 0 THEN Leaves(n) ELSE Above(g[l - 1])]
           T == {m \in 0..n : \E f : Rises(f, n, m)}
<1>1. 0 \in T
  <2>1. PICK f : f = [l \in 0..0 |-> Leaves(n)]
    OBVIOUS
  <2>2. Rises(f, n, 0)
    BY <2>1 DEF Rises
  <2> QED BY <2>2
<1>2. ASSUME NEW m \in 0..n - 1, m \in T PROVE m + 1 \in T
  <2>1. PICK f : Rises(f, n, m)
    BY <1>2
  <2>2. PICK w : w = [l \in 0..m + 1 |-> IF l = m + 1 THEN Above(f[m]) ELSE f[l]]
    OBVIOUS
  <2>3. ASSUME NEW l \in 0..m + 1
        PROVE  w[l] = IF l = 0 THEN Leaves(n) ELSE Above(w[l - 1])
    <3>1. CASE l = m + 1
      <4>1. l # 0 /\ l - 1 = m /\ m \in 0..m + 1 /\ m # m + 1
        BY <3>1
      <4>2. w[m] = f[m] /\ w[l] = Above(f[m])
        BY <2>2, <3>1, <4>1
      <4> QED BY <4>1, <4>2
    <3>2. CASE l # m + 1
      <4>1. l \in 0..m /\ (l # 0 => l - 1 \in 0..m + 1 /\ l - 1 # m + 1)
        BY <3>2
      <4>2. w[l] = f[l] /\ (l # 0 => w[l - 1] = f[l - 1])
        BY <2>2, <3>2, <4>1
      <4> QED BY <2>1, <4>1, <4>2 DEF Rises
    <3> QED BY <3>1, <3>2
  <2>4. Rises(w, n, m + 1)
    BY <2>3 DEF Rises
  <2> QED BY <2>4
<1> HIDE DEF T
<1>3. n \in T
  BY <1>1, <1>2, InductionTo
<1>4. PICK f : Rises(f, n, n)
  BY <1>3 DEF T
<1>5. PICK v : v = [l \in 0..n |-> f[l]]
  OBVIOUS
<1>6. ASSUME NEW l \in 0..n PROVE v[l] = IF l = 0 THEN Leaves(n) ELSE Above(v[l - 1])
  <2>1. l # 0 => l - 1 \in 0..n
    OBVIOUS
  <2>2. v[l] = f[l] /\ (l # 0 => v[l - 1] = f[l - 1])
    BY <1>5, <2>1
  <2> QED BY <1>4, <2>2 DEF Rises
<1>7. IsIt(v)
  <2>1. v = [l \in 0..n |-> v[l]]
    BY <1>5
  <2> QED BY <1>6, <2>1, Zenon
<1>8. PICK u : u = (CHOOSE g : IsIt(g))
  OBVIOUS
<1>9. IsIt(u)
  BY <1>7, <1>8, Zenon
<1>10. ASSUME NEW l \in 0..n PROVE u[l] = IF l = 0 THEN Leaves(n) ELSE Above(u[l - 1])
  BY <1>9, Zenon
<1>11. Rises(u, n, n)
  BY <1>10, Zenon DEF Rises
<1>12. Built(n) = (CHOOSE g : IsIt(g))
  BY Zenon DEF Built
<1> QED BY <1>8, <1>11, <1>12, Zenon

(* The sizes of the layers.                                                *)
Sizes(h, n) ==
  /\ \A l \in 0..n : h[l] \in 1..n
  /\ h[0] = n
  /\ \A l \in 1..n : h[l] = Halve(h[l - 1])

Layered(f, h, n) == Sizes(h, n) /\ \A l \in 0..n : IsLayer(f[l], h[l])

(* Its layers have the sizes that halving gives.                           *)
LEMMA BuiltSizes ==
  ASSUME NEW n \in Nat \ {0}
  PROVE  \E h : Layered(Built(n), h, n)
<1>1. PICK f : f = Built(n)
  OBVIOUS
<1>2. Rises(f, n, n)
  BY <1>1, BuiltRises
<1>3. PICK h : h = [l \in 0..n |-> Len(f[l])]
  OBVIOUS
<1> DEFINE T == {l \in 0..n : IsLayer(f[l], h[l]) /\ h[l] \in 1..n /\ (l = 0 => h[l] = n)
                             /\ (l # 0 => h[l] = Halve(h[l - 1]))}
<1>4. 0 \in T
  <2>1. f[0] = Leaves(n)
    BY <1>2 DEF Rises
  <2>2. IsLayer(f[0], n)
    BY <2>1, LeavesAreLayer
  <2>3. h[0] = n
    BY <1>3, <2>2 DEF IsLayer
  <2> QED BY <2>2, <2>3
<1>5. ASSUME NEW l \in 0..n - 1, l \in T PROVE l + 1 \in T
  <2>1. l + 1 \in 0..n /\ l + 1 # 0 /\ l + 1 - 1 = l
    OBVIOUS
  <2>2. f[l + 1] = Above(f[l])
    BY <1>2, <2>1 DEF Rises
  <2>3. PICK len \in Nat \ {0}, half \in Nat : len = h[l] /\ half = Halve(len)
    BY <1>5 DEF Halve
  <2>4. IsLayer(f[l], len) /\ len <= n
    BY <1>5, <2>3
  <2>5. IsLayer(f[l + 1], half)
    BY <2>2, <2>3, <2>4, AboveIsLayer
  <2>6. h[l + 1] = half
    BY <1>3, <2>1, <2>5 DEF IsLayer
  <2>7. half \in 1..n
    BY <2>3, <2>4 DEF Halve
  <2> QED BY <2>1, <2>3, <2>5, <2>6, <2>7
<1> HIDE DEF T
<1>6. \A l \in 0..n : l \in T
  BY <1>4, <1>5, InductionTo
<1>7. Sizes(h, n)
  BY <1>6 DEF T, Sizes
<1> QED BY <1>1, <1>6, <1>7 DEF T, Layered

(* As layers shrink until they are one node, one of them is.               *)
LEMMA RootReached ==
  ASSUME NEW n \in Nat \ {0}, NEW h, Sizes(h, n)
  PROVE  \E l \in 0..n : h[l] = 1
<1> DEFINE T == {l \in 0..n : h[l] = 1 \/ h[l] <= n - l}
<1>1. 0 \in T
  BY DEF Sizes
<1>2. ASSUME NEW l \in 0..n - 1, l \in T PROVE l + 1 \in T
  <2>1. l + 1 \in 0..n /\ l + 1 \in 1..n /\ l + 1 - 1 = l
    OBVIOUS
  <2>2. PICK a, b : a = h[l] /\ b = h[l + 1]
    OBVIOUS
  <2>3. a \in 1..n /\ b = Halve(a)
    BY <2>1, <2>2 DEF Sizes
  <2>4. a = 1 \/ a <= n - l
    BY <1>2, <2>2
  <2>5. b = 1 \/ b <= n - (l + 1)
    BY <2>3, <2>4 DEF Halve
  <2> QED BY <2>1, <2>2, <2>5
<1> HIDE DEF T
<1>3. n \in T
  BY <1>1, <1>2, InductionTo
<1>4. n \in 0..n /\ (h[n] = 1 \/ h[n] <= 0)
  BY <1>3 DEF T
<1> QED BY <1>4 DEF Sizes

(* Height is the first layer of one node.                                  *)
LEMMA HeightIs ==
  ASSUME NEW n \in Nat \ {0}, NEW h, Layered(Built(n), h, n)
  PROVE  /\ Height(n) \in 0..n /\ h[Height(n)] = 1
         /\ \A l \in 0..Height(n) - 1 : h[l] > 1
<1>0. Sizes(h, n) /\ \A l \in 0..n : Len(Built(n)[l]) = h[l]
  BY DEF Layered, IsLayer
<1> DEFINE S == {l \in 0..n : h[l] = 1}
           Is(t) == Len(Built(n)[t]) = 1 /\ \A l \in 0..t - 1 : Len(Built(n)[l]) > 1
<1>1. S \in SUBSET Nat /\ S # {}
  BY <1>0, RootReached
<1>2. PICK t \in S : \A l \in S : t <= l
  <2> HIDE DEF S
  <2> QED BY <1>1, LeastNatural
<1>3. t \in 0..n /\ h[t] = 1
  BY <1>2
<1>4. ASSUME NEW l \in 0..t - 1 PROVE h[l] > 1
  <2>1. l \in 0..n /\ ~(l \in S)
    BY <1>2, <1>3
  <2> QED BY <1>0, <2>1 DEF Sizes
<1>5. Is(t)
  <2>1. \A l \in 0..t - 1 : l \in 0..n
    BY <1>3
  <2> QED BY <1>0, <1>3, <1>4, <2>1
<1>6. PICK u : u = Height(n)
  OBVIOUS
<1>7. u = CHOOSE x \in 0..n : Is(x)
  BY <1>6, Zenon DEF Height
<1> HIDE DEF Is
<1>8. u \in 0..n /\ Is(u)
  BY <1>3, <1>5, <1>7, Zenon
<1>9. h[u] = 1 /\ \A l \in 0..u - 1 : h[l] > 1
  <2>1. \A l \in 0..u - 1 : l \in 0..n
    BY <1>8
  <2> QED BY <1>0, <1>8, <2>1 DEF Is
<1> QED BY <1>6, <1>8, <1>9

(* Adding up the layers meets what the layers of the device take.          *)
LEMMA NodesAre ==
  ASSUME NEW n \in Nat \ {0}, NEW v, Totals(v, n)
  PROVE  Nodes(n) = v[n] + 1
<1>0. PICK h : Layered(Built(n), h, n)
  BY BuiltSizes
<1>1. Sizes(h, n) /\ \A l \in 0..n : Len(Built(n)[l]) = h[l]
  BY <1>0 DEF Layered, IsLayer
<1>2. PICK t : t = Height(n)
  OBVIOUS
<1>3. t \in 0..n /\ h[t] = 1 /\ \A l \in 0..t - 1 : h[l] > 1
  BY <1>0, <1>2, HeightIs
<1>4. ASSUME NEW l \in 0..t PROVE Len(Layers(n)[l]) = h[l]
  <2>1. l \in 0..n
    BY <1>3
  <2>2. Layers(n)[l] = Built(n)[l]
    BY <1>2 DEF Layers
  <2> QED BY <1>1, <2>1, <2>2
<1> DEFINE F == [l \in 1..t |-> [s \in Nat |-> h[l] + s]]
           IsIt(g) == g = [l \in 0..Height(n) |-> Len(Layers(n)[l]) + IF l = 0 THEN 0 ELSE g[l - 1]]
<1>5. \A l \in 0..t : l \in 0..n /\ h[l] \in Nat /\ h[l] \in 1..n
  BY <1>1, <1>3 DEF Sizes
<1>6. Steps(F, t, Nat) /\ n \in Nat /\ t \in Nat
  BY <1>3, <1>5 DEF Steps
<1>7. PICK f \in [0..t -> Nat] : f[0] = n /\ Follows(f, F, t)
  <2> HIDE DEF F
  <2> QED BY <1>6, Recursion
<1>8. ASSUME NEW l \in 0..t PROVE f[l] = h[l] + IF l = 0 THEN 0 ELSE f[l - 1]
  <2>1. l # 0 => l \in 1..t /\ l - 1 \in 0..t
    BY <1>6
  <2>2. CASE l = 0
    <3>1. h[0] = n
      BY <1>1 DEF Sizes
    <3> QED BY <1>6, <1>7, <2>2, <3>1
  <2>3. CASE l # 0
    <3>1. PICK s \in Nat : s = f[l - 1]
      BY <2>1, <2>3
    <3>2. f[l] = F[l][s]
      BY <1>7, <2>1, <2>3, <3>1 DEF Follows
    <3>3. F[l][s] = h[l] + s
      BY <2>1, <2>3
    <3> QED BY <2>3, <3>1, <3>2, <3>3
  <2> QED BY <2>2, <2>3
<1>9. IsIt(f)
  <2>1. f = [l \in 0..t |-> f[l]]
    OBVIOUS
  <2>2. ASSUME NEW l \in 0..t PROVE f[l] = Len(Layers(n)[l]) + IF l = 0 THEN 0 ELSE f[l - 1]
    BY <1>4, <1>8, Zenon
  <2> QED BY <1>2, <2>1, <2>2, Zenon
<1>10. PICK sum : sum = (CHOOSE g : IsIt(g))
  OBVIOUS
<1>11. IsIt(sum)
  BY <1>9, <1>10, Zenon
<1>12. ASSUME NEW l \in 0..t PROVE sum[l] = h[l] + IF l = 0 THEN 0 ELSE sum[l - 1]
  BY <1>2, <1>4, <1>11, Zenon
<1> HIDE DEF F
<1> DEFINE T == {l \in 0..t : sum[l] \in Nat /\ sum[l] + v[h[l]] = v[n] + h[l]}
<1>13. 0 \in T
  <2>1. sum[0] = n /\ h[0] = n /\ v[n] \in Nat
    BY <1>1, <1>5, <1>6, <1>12 DEF Sizes, Totals
  <2> QED BY <1>6, <2>1
<1>14. ASSUME NEW l \in 0..t - 1, l \in T PROVE l + 1 \in T
  <2>1. l + 1 \in 0..t /\ l + 1 # 0 /\ l + 1 - 1 = l /\ l + 1 \in 1..n /\ l \in 0..t
    BY <1>3
  <2>2. PICK a, b, s : a = h[l] /\ b = h[l + 1] /\ s = sum[l]
    OBVIOUS
  <2>3. a \in 1..n /\ b \in 1..n /\ b = Halve(a) /\ a > 1
    BY <1>1, <1>3, <1>5, <2>1, <2>2 DEF Sizes
  <2>4. v[a] = a + v[b] /\ v[a] \in Nat /\ v[b] \in Nat
    BY <2>3 DEF Totals
  <2>5. v[n] \in Nat
    BY <1>6 DEF Totals
  <2>6. s \in Nat /\ s + v[a] = v[n] + a
    BY <1>14, <2>2
  <2>7. sum[l + 1] = b + s
    BY <1>12, <2>1, <2>2
  <2>8. b + s \in Nat /\ (b + s) + v[b] = v[n] + b
    <3>1. PICK x \in Nat, y \in Nat, z \in Nat : x = v[a] /\ y = v[b] /\ z = v[n]
      BY <2>4, <2>5
    <3>2. x = a + y /\ s + x = z + a
      BY <2>4, <2>6, <3>1
    <3>3. (b + s) + y = z + b
      <4>1. PICK a1 \in Nat, b1 \in Nat, s1 \in Nat : a1 = a /\ b1 = b /\ s1 = s
        BY <2>3, <2>6
      <4>2. x = a1 + y /\ s1 + x = z + a1
        BY <3>2, <4>1, Zenon
      <4>3. (b1 + s1) + y = z + b1
        BY <4>2
      <4> QED BY <4>1, <4>3, Zenon
    <3>4. b + s + v[b] = v[n] + b
      BY <3>1, <3>3, Zenon
    <3>5. b + s \in Nat
      BY <2>3, <2>6
    <3> QED BY <3>4, <3>5, Zenon
  <2> QED BY <2>1, <2>2, <2>7, <2>8
<1> HIDE DEF T
<1>15. t \in T
  <2>1. \A l \in 0..t : l \in T
    BY <1>6, <1>13, <1>14, InductionTo
  <2> QED BY <1>6, <2>1
<1>16. v[1] = 0 /\ v[n] \in Nat
  BY <1>6 DEF Totals
<1>17. sum[t] = v[n] + 1
  BY <1>3, <1>15, <1>16 DEF T
<1>18. Nodes(n) = (CHOOSE g : IsIt(g))[Height(n)]
  BY Zenon DEF Nodes
<1> QED BY <1>2, <1>10, <1>17, <1>18

(* LayersFit for every number of leaves: pearl_proof_build_tree writes as  *)
(* many nodes as msimple_layers_words sets aside, the host has room for    *)
(* the nodes of up to 1024 leaves, and doubling changes neither.           *)
THEOREM LayersAlwaysFit ==
  ASSUME input \in LayerInputs(Nat \ {0})
  PROVE  LayersFit
<1>1. PICK n \in Nat \ {0}, two \in Nat : n = input.leaves /\ two = 2 * n
  BY DEF LayerInputs
<1>2. two \in Nat \ {0} /\ n \in 0..two /\ two \in 1..two /\ Halve(two) = n
  BY <1>1 DEF Halve
<1>3. PICK v : Totals(v, two)
  BY <1>2, TotalsExist
<1>4. Totals(v, n)
  BY <1>2, <1>3, TotalsOfLess
<1>5. PICK a, b, c : a = Nodes(n) /\ b = Nodes(two) /\ c = LayersWords(n)
  OBVIOUS
<1>6. a = v[n] + 1
  BY <1>4, <1>5, NodesAre
<1>7. b = v[two] + 1
  BY <1>2, <1>3, <1>5, NodesAre
<1>8. c = v[n] + 1
  BY <1>4, <1>5, LayersWordsAre
<1>9. v[n] \in Nat /\ v[two] \in Nat /\ v[two] = two + v[n]
  BY <1>1, <1>2, <1>3, <1>4 DEF Totals
<1>10. b - 4 * n = a - 2 * n
  BY <1>1, <1>6, <1>7, <1>9
<1>11. n <= 1024 => a <= Capacity(n)
  <2>1. n \in 1..n
    BY <1>1
  <2>2. Within(v, n, 1024, 7)
    BY <1>4, TotalWithin
  <2>3. n <= 1024 => v[n] <= 2 * n + 7
    BY <2>1, <2>2 DEF Within
  <2> QED BY <1>6, <1>9, <2>3 DEF Capacity
<1> QED BY <1>1, <1>5, <1>6, <1>8, <1>10, <1>11 DEF LayersFit

(* What ProofBuffersFit says, of both kinds of input.                      *)
THEOREM ProofBuffersAlwaysFit ==
  ASSUME \/ input \in LayerInputs(Nat \ {0})
         \/ /\ input \in ContextInputs(Seq(AlignedJobs), Kernels)
            /\ \A x \in DOMAIN input.jobs : Fitting(input.jobs[x].m, input.jobs[x].n, input.kernel)
  PROVE  ProofBuffersFit
<1>1. CASE input \in LayerInputs(Nat \ {0})
  <2>1. input.fn = "layers"
    BY <1>1 DEF LayerInputs
  <2>2. LayersFit
    BY <1>1, LayersAlwaysFit
  <2>3. LeavesFit
    BY <2>1 DEF LeavesFit
  <2> QED BY <2>2, <2>3 DEF ProofBuffersFit
<1>2. CASE /\ input \in ContextInputs(Seq(AlignedJobs), Kernels)
           /\ \A x \in DOMAIN input.jobs : Fitting(input.jobs[x].m, input.jobs[x].n, input.kernel)
  <2>1. input.fn = "buffers"
    BY <1>2 DEF ContextInputs
  <2>2. LeavesFit
    BY <1>2, LeavesAlwaysFit
  <2>3. LayersFit
    BY <2>1 DEF LayersFit
  <2> QED BY <2>2, <2>3 DEF ProofBuffersFit
<1> QED BY <1>1, <1>2

-----------------------------------------------------------------------------
(* The proofs of a tree: the siblings, layer after layer, and the verifier *)
(* that takes them.  At every layer it knows what was built there of the   *)
(* nodes above the leaves shown, and has used what the layers below asked  *)
(* for.                                                                    *)

(* The layers' values.                                                     *)
LEMMA ConcatIs ==
  ASSUME NEW S, NEW s \in Seq(S), NEW r \in Seq(S)
  PROVE  /\ s \o r \in Seq(S) /\ Len(s \o r) = Len(s) + Len(r)
         /\ Len(s) \in Nat /\ Len(r) \in Nat
         /\ \A x \in 1..Len(s) : (s \o r)[x] = s[x]
         /\ \A x \in 1..Len(r) : (s \o r)[Len(s) + x] = r[x]
<1>1. PICK a \in Nat, b \in Nat : a = Len(s) /\ b = Len(r)
  OBVIOUS
<1>2. PICK c : c = s \o r
  OBVIOUS
<1>3. c \in Seq(S) /\ Len(c) = a + b
      /\ \A i \in 1..a + b : c[i] = IF i <= a THEN s[i] ELSE r[i - a]
  BY <1>1, <1>2, ConcatProperties
<1>4. \A x \in 1..a : c[x] = s[x]
  BY <1>3
<1>5. \A x \in 1..b : c[a + x] = r[x]
  <2>1. ASSUME NEW x \in 1..b PROVE c[a + x] = r[x]
    <3>1. a + x \in 1..a + b /\ ~(a + x <= a) /\ (a + x) - a = x
      BY <1>1
    <3> QED BY <1>3, <3>1
  <2> QED BY <2>1
<1> QED BY <1>1, <1>2, <1>3, <1>4, <1>5

(* Where the parts of a flattened sequence begin: after used[i - 1].       *)
Places(used, seqs, flat) ==
  /\ used[0] = 0 /\ used[Len(seqs)] = Len(flat)
  /\ \A i \in 0..Len(seqs) : used[i] \in Nat
  /\ \A i \in 1..Len(seqs) :
       /\ used[i] = used[i - 1] + Len(seqs[i]) /\ used[i] <= Len(flat)
       /\ \A x \in 1..Len(seqs[i]) : flat[used[i - 1] + x] = seqs[i][x]

(* Flattened, every part is where the lengths of those before it say.      *)
LEMMA FlattenIs ==
  ASSUME NEW S, NEW seqs \in Seq(Seq(S))
  PROVE  FlattenSeq(seqs) \in Seq(S) /\ \E used : Places(used, seqs, FlattenSeq(seqs))
<1>1. PICK t \in Nat : t = Len(seqs)
  OBVIOUS
<1>2. ASSUME NEW i \in 1..t PROVE seqs[i] \in Seq(S)
  BY <1>1
<1> DEFINE F == [i \in 1..t |-> [s \in Seq(S) |-> s \o seqs[i]]]
           IsIt(g) == g = [i \in 1..Len(seqs) |-> IF i = 1 THEN seqs[i] ELSE g[i - 1] \o seqs[i]]
<1>3. Steps(F, t, Seq(S)) /\ << >> \in Seq(S)
  <2>1. ASSUME NEW i \in 1..t, NEW s \in Seq(S) PROVE s \o seqs[i] \in Seq(S)
    BY <1>2, ConcatIs
  <2> QED BY <2>1 DEF Steps
<1>4. PICK f \in [0..t -> Seq(S)] : f[0] = << >> /\ Follows(f, F, t)
  <2> HIDE DEF F
  <2> QED BY <1>3, Recursion
<1>5. ASSUME NEW i \in 1..t PROVE f[i] = f[i - 1] \o seqs[i] /\ f[i - 1] \in Seq(S)
  <2>1. i - 1 \in 0..t
    OBVIOUS
  <2> QED BY <1>4, <2>1 DEF Follows
<1>6. PICK h : h = [i \in 1..t |-> f[i]]
  OBVIOUS
<1>7. ASSUME NEW i \in 1..t PROVE h[i] = IF i = 1 THEN seqs[i] ELSE h[i - 1] \o seqs[i]
  <2>1. CASE i = 1
    <3>1. << >> \o seqs[i] = seqs[i]
      BY <1>2, ConcatEmptySeq
    <3>2. f[0] = << >> /\ i - 1 = 0
      BY <1>4, <2>1
    <3> QED BY <1>5, <1>6, <2>1, <3>1, <3>2
  <2>2. CASE i # 1
    <3>1. i - 1 \in 1..t
      BY <2>2
    <3> QED BY <1>5, <1>6, <2>2, <3>1
  <2> QED BY <2>1, <2>2
<1>8. IsIt(h)
  <2>1. h = [i \in 1..t |-> h[i]]
    BY <1>6
  <2> QED BY <1>1, <1>7, <2>1, Zenon
<1>9. PICK u : u = (CHOOSE g : IsIt(g))
  OBVIOUS
<1>10. IsIt(u)
  BY <1>8, <1>9, Zenon
<1>11. ASSUME NEW i \in 1..t PROVE u[i] = IF i = 1 THEN seqs[i] ELSE u[i - 1] \o seqs[i]
  BY <1>1, <1>10, Zenon
<1> HIDE DEF F
<1> DEFINE T == {i \in 0..t : i = 0 \/ u[i] = f[i]}
<1>12. ASSUME NEW i \in 0..t - 1, i \in T PROVE i + 1 \in T
  <2>1. PICK e \in 1..t : e = i + 1 /\ e - 1 = i /\ e \in 0..t
    BY <1>1
  <2>2. f[e] = f[i] \o seqs[e]
    BY <1>5, <2>1
  <2>3. CASE i = 0
    <3>1. e = 1
      BY <2>1, <2>3
    <3>2. u[e] = seqs[e]
      BY <1>11, <3>1
    <3>3. << >> \o seqs[e] = seqs[e]
      BY <1>2, ConcatEmptySeq
    <3>4. f[i] = << >>
      BY <1>4, <2>3
    <3> QED BY <2>1, <2>2, <3>2, <3>3, <3>4
  <2>4. CASE i # 0
    <3>1. e # 1
      BY <2>1, <2>4
    <3>2. u[e] = u[i] \o seqs[e]
      BY <1>11, <2>1, <3>1
    <3> QED BY <1>12, <2>1, <2>2, <2>4, <3>2
  <2> QED BY <2>3, <2>4
<1>13. 0 \in T
  OBVIOUS
<1> HIDE DEF T
<1>14. \A i \in 0..t : i \in T
  BY <1>12, <1>13, InductionTo
<1>15. PICK flat : flat = FlattenSeq(seqs)
  OBVIOUS
<1>16. flat = f[t]
  <2>1. CASE t = 0
    <3>1. flat = seqs
      BY <1>1, <1>15, <2>1 DEF FlattenSeq
    <3>2. seqs = << >>
      BY <1>1, <2>1, EmptySeq
    <3> QED BY <1>4, <2>1, <3>1, <3>2
  <2>2. CASE t # 0
    <3>1. FlattenSeq(seqs) = (CHOOSE g : IsIt(g))[Len(seqs)]
      BY <1>1, <2>2, Zenon DEF FlattenSeq
    <3>2. t \in T
      BY <1>14
    <3> QED BY <1>1, <1>9, <1>15, <2>2, <3>1, <3>2 DEF T
  <2> QED BY <2>1, <2>2
<1>17. PICK used : used = [i \in 0..t |-> Len(f[i])]
  OBVIOUS
<1>18. ASSUME NEW i \in 0..t PROVE used[i] \in Nat /\ f[i] \in Seq(S) /\ used[i] = Len(f[i])
  BY <1>4, <1>17
(* What is there at a step stays to the end.                               *)
<1>19. ASSUME NEW i \in 0..t
       PROVE  used[i] <= Len(flat) /\ \A x \in 1..used[i] : flat[x] = f[i][x]
  <2> DEFINE R == {d \in 0..t - i : used[i] <= used[i + d] /\ \A x \in 1..used[i] : f[i + d][x] = f[i][x]}
  <2>1. 0 \in R
    BY <1>18
  <2>2. ASSUME NEW d \in 0..(t - i) - 1, d \in R PROVE d + 1 \in R
    <3>1. PICK e \in 1..t : e = i + (d + 1) /\ e - 1 = i + d
      OBVIOUS
    <3>2. e - 1 \in 0..t /\ e \in 0..t
      BY <3>1
    <3>3. PICK a, b, c : a = f[e - 1] /\ b = seqs[e] /\ c = f[e]
      OBVIOUS
    <3>4. a \in Seq(S) /\ b \in Seq(S) /\ c = a \o b
      BY <1>2, <1>5, <3>1, <3>3
    <3>5. Len(c) = Len(a) + Len(b) /\ Len(a) \in Nat /\ Len(b) \in Nat /\ \A x \in 1..Len(a) : c[x] = a[x]
      BY <3>4, ConcatIs
    <3>6. used[e - 1] = Len(a) /\ used[e] = Len(c) /\ used[i] \in Nat
      BY <1>18, <3>2, <3>3
    <3>7. used[i] <= Len(a) /\ \A x \in 1..used[i] : a[x] = f[i][x]
      BY <2>2, <3>1, <3>3, <3>6
    <3>8. used[i] <= used[e] /\ \A x \in 1..used[i] : c[x] = f[i][x]
      <4>1. PICK m \in Nat, l \in Nat : m = used[i] /\ l = Len(a)
        BY <3>5, <3>6
      <4>2. m <= l /\ l <= used[e]
        BY <3>5, <3>6, <3>7, <4>1
      <4>3. ASSUME NEW x \in 1..m PROVE c[x] = f[i][x]
        <5>1. x \in 1..l
          BY <4>2
        <5> QED BY <3>5, <3>7, <4>1, <5>1
      <4>4. used[i] <= used[e]
        BY <3>6, <4>1, <4>2
      <4> QED BY <4>1, <4>3, <4>4
    <3> QED BY <3>1, <3>3, <3>8
  <2> HIDE DEF R
  <2>3. t - i \in Nat
    OBVIOUS
  <2>4. \A d \in 0..t - i : d \in R
    BY <2>1, <2>2, <2>3, InductionTo
  <2>5. t - i \in R /\ i + (t - i) = t
    BY <2>3, <2>4
  <2>6. used[t] = Len(flat)
    BY <1>16, <1>18
  <2> QED BY <1>16, <2>5, <2>6 DEF R
<1>20. ASSUME NEW i \in 1..t
       PROVE  /\ used[i] = used[i - 1] + Len(seqs[i]) /\ used[i] <= Len(flat)
              /\ \A x \in 1..Len(seqs[i]) : flat[used[i - 1] + x] = seqs[i][x]
  <2>1. i - 1 \in 0..t /\ i \in 0..t
    OBVIOUS
  <2>2. PICK a, b, c : a = f[i - 1] /\ b = seqs[i] /\ c = f[i]
    OBVIOUS
  <2>3. a \in Seq(S) /\ b \in Seq(S) /\ c = a \o b
    BY <1>2, <1>5, <2>2
  <2>4. /\ Len(c) = Len(a) + Len(b) /\ Len(a) \in Nat /\ Len(b) \in Nat
        /\ \A x \in 1..Len(b) : c[Len(a) + x] = b[x]
    BY <2>3, ConcatIs
  <2>5. used[i - 1] = Len(a) /\ used[i] = Len(c)
    BY <1>18, <2>1, <2>2
  <2>6. used[i] <= Len(flat) /\ \A x \in 1..used[i] : flat[x] = c[x]
    BY <1>19, <2>1, <2>2
  <2>7. ASSUME NEW x \in 1..Len(b) PROVE flat[Len(a) + x] = b[x]
    <3>1. Len(a) + x \in 1..used[i]
      BY <2>4, <2>5
    <3> QED BY <2>4, <2>6, <3>1
  <2> QED BY <2>2, <2>4, <2>5, <2>6, <2>7
<1>21. used[0] = 0 /\ used[t] = Len(flat)
  BY <1>4, <1>16, <1>18
<1>22. Places(used, seqs, flat)
  BY <1>1, <1>18, <1>20, <1>21 DEF Places
<1>23. flat \in Seq(S)
  BY <1>16, <1>18
<1> QED BY <1>15, <1>22, <1>23

(* What the verifier knows of a layer: its nodes of ids.                   *)
Known(layer, len, ids, used) ==
  [len |-> len, known |-> [i \in ids |-> layer[i + 1]], used |-> used, enough |-> TRUE]

(* Where the siblings that a layer asks for are.                           *)
Found(siblings, used, layer, ids) ==
  LET found == SiblingsOf(layer, ids) IN
  used + Len(found) <= Len(siblings) /\ \A x \in 1..Len(found) : siblings[used + x] = found[x]

(* What asks is those nodes that do, each once.                            *)
Asked(asking, ids, len) ==
  /\ Len(asking) \in Nat
  /\ \A x \in 1..Len(asking) : asking[x] \in ids /\ Asks(asking[x], ids, len)
  /\ \A i \in ids : Asks(i, ids, len) => \E x \in 1..Len(asking) : asking[x] = i

(* Asking lists them.                                                      *)
LEMMA AskingIs ==
  ASSUME NEW len \in Nat, NEW ids \in SUBSET (0..len - 1)
  PROVE  Asked(Asking(ids, len), ids, len)
<1>1. PICK S : S = {i \in ids : Asks(i, ids, len)}
  OBVIOUS
<1>2. S \in SUBSET Nat /\ S \in SUBSET (0..len - 1)
  <2>1. S \in SUBSET (0..len - 1)
    BY <1>1
  <2> QED BY <2>1
<1>3. IsFiniteSet(S)
  <2>1. 0 \in Int /\ len - 1 \in Int
    OBVIOUS
  <2>2. IsFiniteSet(0..len - 1)
    BY <2>1, FS_Interval
  <2> QED BY <1>2, <2>2, FS_Subset
<1>4. PICK asking : asking = Sorted(S)
  OBVIOUS
<1>5. PICK c : c = Cardinality(S)
  OBVIOUS
<1>6. c \in Nat /\ asking \in Seq(S) /\ Len(asking) = c
      /\ \A i \in S : \E x \in 1..c : asking[x] = i
  BY <1>2, <1>3, <1>4, <1>5, SortedIs
<1>7. \A x \in 1..c : asking[x] \in S
  BY <1>6
<1>8. Asked(asking, ids, len)
  BY <1>1, <1>6, <1>7 DEF Asked
<1>9. Asking(ids, len) = asking
  BY <1>1, <1>4 DEF Asking
<1> QED BY <1>8, <1>9

(* What asks gets its partner.                                             *)
Answers(found, asking, layer, V) ==
  /\ found \in Seq(V) /\ Len(found) = Len(asking)
  /\ \A x \in 1..Len(asking) : found[x] = layer[Partner(asking[x]) + 1]

(* The siblings of a layer are nodes of it, one for each node that asks.   *)
LEMMA SiblingsOfAre ==
  ASSUME NEW layer, NEW len, IsLayer(layer, len), NEW ids \in SUBSET (0..len - 1),
         NEW V, \A i \in 1..len : layer[i] \in V
  PROVE  Answers(SiblingsOf(layer, ids), Asking(ids, len), layer, V)
<1>1. len \in Nat \ {0} /\ Len(layer) = len
  BY DEF IsLayer
<1>2. PICK asking, found : asking = Asking(ids, len) /\ found = SiblingsOf(layer, ids)
  OBVIOUS
<1>3. Asked(asking, ids, len)
  BY <1>1, <1>2, AskingIs
<1>4. PICK c \in Nat : c = Len(asking)
  BY <1>3 DEF Asked
<1>5. found = [x \in 1..c |-> layer[Partner(asking[x]) + 1]]
  BY <1>1, <1>2, <1>4 DEF SiblingsOf
<1>6. ASSUME NEW x \in 1..c PROVE layer[Partner(asking[x]) + 1] \in V
  <2>1. PICK i : i = asking[x]
    OBVIOUS
  <2>2. i \in 0..len - 1 /\ Partner(i) < len
    BY <1>3, <1>4, <2>1 DEF Asked, Asks
  <2>3. Partner(i) + 1 \in 1..len
    BY <1>1, <2>2 DEF Partner
  <2> QED BY <2>1, <2>3
<1>7. found \in Seq(V) /\ Len(found) = c
  <2>1. found \in [1..c -> V]
    BY <1>5, <1>6
  <2>2. found \in Seq(V)
    BY <1>4, <2>1
  <2>3. Len(found) \in Nat /\ DOMAIN found = 1..Len(found) /\ DOMAIN found = 1..c
    BY <2>1, <2>2
  <2>4. Len(found) = c
    <3>1. PICK d \in Nat : d = Len(found) /\ 1..d = 1..c
      BY <2>3
    <3>2. ~(d < c)
      <4>1. d < c => c \in 1..c /\ ~(c \in 1..d)
        OBVIOUS
      <4> QED BY <3>1, <4>1
    <3>3. ~(c < d)
      <4>1. c < d => d \in 1..d /\ ~(d \in 1..c)
        OBVIOUS
      <4> QED BY <3>1, <4>1
    <3> QED BY <3>1, <3>2, <3>3
  <2> QED BY <2>2, <2>4
<1>8. Answers(found, asking, layer, V)
  BY <1>4, <1>5, <1>7 DEF Answers
<1> QED BY <1>2, <1>8

(* A node of a pair of which one is known is known, or was sent.           *)
LEMMA ValueIs ==
  ASSUME NEW layer, NEW len, IsLayer(layer, len), NEW ids \in SUBSET (0..len - 1), NEW used \in Nat,
         NEW siblings, Found(siblings, used, layer, ids),
         NEW j \in ids, NEW i \in 0..len - 1, i \div 2 = j \div 2
  PROVE  ValueAt(i, Known(layer, len, ids, used), Asking(ids, len), siblings) = layer[i + 1]
<1>0. PICK level, asking : level = Known(layer, len, ids, used) /\ asking = Asking(ids, len)
  OBVIOUS
<1>1. len \in Nat \ {0} /\ Asked(asking, ids, len)
  BY <1>0, AskingIs DEF IsLayer
<1>2. level.known = [x \in ids |-> layer[x + 1]] /\ level.used = used
  BY <1>0 DEF Known
<1>3. DOMAIN level.known = ids
  BY <1>2
<1>4. CASE i \in ids
  <2>1. ValueAt(i, level, asking, siblings) = level.known[i]
    BY <1>3, <1>4 DEF ValueAt
  <2> QED BY <1>0, <1>2, <1>4, <2>1
<1>5. CASE i \notin ids
  <2>1. i \in Nat /\ j \in Nat /\ i # j
    BY <1>1, <1>5
  <2>2. Partner(j) = i
    BY <2>1 DEF Partner
  <2>3. Asks(j, ids, len)
    BY <1>1, <1>5, <2>2 DEF Asks
  <2>4. PICK y \in 1..Len(asking) : asking[y] = j
    BY <1>1, <2>3 DEF Asked
  <2>5. PICK z : z = CHOOSE x \in 1..Len(asking) : Partner(asking[x]) = i
    OBVIOUS
  <2>6. z \in 1..Len(asking) /\ Partner(asking[z]) = i
    BY <2>2, <2>4, <2>5
  <2>7. ValueAt(i, level, asking, siblings) = siblings[used + z]
    BY <1>2, <1>3, <1>5, <2>5 DEF ValueAt
  <2>8. PICK V : V = {layer[x] : x \in 1..len}
    OBVIOUS
  <2>9. \A x \in 1..len : layer[x] \in V
    BY <2>8
  <2>10. PICK found : found = SiblingsOf(layer, ids)
    OBVIOUS
  <2>11. Answers(found, asking, layer, V)
    BY <1>0, <2>9, <2>10, SiblingsOfAre, Zenon
  <2>12. found[z] = layer[i + 1] /\ z \in 1..Len(found)
    BY <2>6, <2>11 DEF Answers
  <2>13. siblings[used + z] = found[z]
    BY <2>10, <2>12 DEF Found
  <2> QED BY <1>0, <2>7, <2>12, <2>13
<1> QED BY <1>4, <1>5

Valued(layer, len, ids, used, siblings) ==
  \A j \in ids : \A i \in 0..len - 1 : i \div 2 = j \div 2 =>
    ValueAt(i, Known(layer, len, ids, used), Asking(ids, len), siblings) = layer[i + 1]

(* That of all of them.                                                    *)
LEMMA ValuesAre ==
  ASSUME NEW layer, NEW len, IsLayer(layer, len), NEW ids \in SUBSET (0..len - 1), NEW used \in Nat,
         NEW siblings, Found(siblings, used, layer, ids)
  PROVE  Valued(layer, len, ids, used, siblings)
<1>1. ASSUME NEW j \in ids, NEW i \in 0..len - 1, i \div 2 = j \div 2
      PROVE  ValueAt(i, Known(layer, len, ids, used), Asking(ids, len), siblings) = layer[i + 1]
  BY <1>1, ValueIs
<1> QED BY <1>1, Zenon DEF Valued

Climbs(layer, len, ids, used, siblings) ==
  Climb(Known(layer, len, ids, used), siblings)
    = Known(Above(layer), Halve(len), Parents(ids), used + Len(SiblingsOf(layer, ids)))

(* A step of the verifier makes of a layer built the layer built above.    *)
LEMMA ClimbIs ==
  ASSUME NEW layer, NEW len, IsLayer(layer, len), len # 1, NEW ids \in SUBSET (0..len - 1),
         NEW used \in Nat, NEW siblings, Len(siblings) \in Nat, Found(siblings, used, layer, ids)
  PROVE  Climbs(layer, len, ids, used, siblings)
<1>1. len \in Nat \ {0, 1} /\ Len(layer) = len
  BY DEF IsLayer
<1>2. PICK level, asking, up, half :
        /\ level = Known(layer, len, ids, used) /\ asking = Asking(ids, len)
        /\ up = Above(layer) /\ half = Halve(len)
  OBVIOUS
<1>3. /\ level.len = len /\ level.enough = TRUE /\ level.used = used
      /\ DOMAIN level.known = ids
  BY <1>2 DEF Known
<1>4. Len(SiblingsOf(layer, ids)) = Len(asking) /\ Len(asking) \in Nat
  <2>1. PICK V : V = {layer[x] : x \in 1..len}
    OBVIOUS
  <2>2. \A x \in 1..len : layer[x] \in V
    BY <2>1
  <2>3. Asked(asking, ids, len)
    BY <1>1, <1>2, AskingIs
  <2>4. Answers(SiblingsOf(layer, ids), asking, layer, V)
    BY <1>2, <2>2, SiblingsOfAre, Zenon
  <2> QED BY <2>3, <2>4 DEF Asked, Answers
<1>5. ~(used + Len(asking) > Len(siblings))
  BY <1>4 DEF Found
<1>6. up = ParentLevel(layer)
  BY <1>1, <1>2 DEF Above
<1>7. up = [p \in 1..half |->
              IF 2 * p <= len THEN <<layer[2 * p - 1], layer[2 * p], IsRoot(len)>> ELSE layer[2 * p - 1]]
  BY <1>1, <1>2, <1>6 DEF ParentLevel
<1> DEFINE value(i) == ValueAt(i, level, asking, siblings)
           node(p) == IF 2 * p + 1 < len THEN <<value(2 * p), value(2 * p + 1), len = 2>> ELSE value(2 * p)
<1>8. ASSUME NEW p \in Parents(ids) PROVE node(p) = up[p + 1]
  <2>0. Valued(layer, len, ids, used, siblings)
    BY ValuesAre, Zenon
  <2>1. PICK j \in ids : p = j \div 2
    BY <1>8 DEF Parents
  <2>2. j \in 0..len - 1 /\ p \in Nat /\ 2 * p <= j /\ j <= 2 * p + 1 /\ p + 1 \in 1..half
    BY <1>1, <1>2, <2>1 DEF Halve
  <2>3. PICK a, b, e : a = 2 * p /\ b = 2 * p + 1 /\ e = p + 1
    OBVIOUS
  <2>4. /\ a \in Nat /\ b = a + 1 /\ e \in 1..half /\ 2 * e - 1 = b /\ 2 * e = b + 1
        /\ a \div 2 = j \div 2 /\ b \div 2 = j \div 2 /\ a \in 0..len - 1
    BY <1>1, <2>1, <2>2, <2>3
  <2>5. value(a) = layer[b]
    <3>1. ValueAt(a, Known(layer, len, ids, used), Asking(ids, len), siblings) = layer[a + 1]
      BY <2>0, <2>4 DEF Valued
    <3> QED BY <1>2, <2>4, <3>1
  <2>6. CASE b < len
    <3>1. b \in 0..len - 1 /\ 2 * e <= len
      BY <1>1, <2>4, <2>6
    <3>0. ValueAt(b, Known(layer, len, ids, used), Asking(ids, len), siblings) = layer[b + 1]
      BY <2>0, <2>4, <3>1 DEF Valued
    <3>2. value(b) = layer[b + 1]
      BY <1>2, <3>0
    <3>3. node(p) = <<value(a), value(b), len = 2>>
      BY <2>3, <2>6, Zenon
    <3>4. up[e] = <<layer[2 * e - 1], layer[2 * e], IsRoot(len)>>
      BY <1>7, <2>4, <3>1, Zenon
    <3>5. up[e] = <<layer[b], layer[b + 1], len = 2>>
      BY <2>4, <3>4 DEF IsRoot
    <3> QED BY <2>3, <2>5, <3>2, <3>3, <3>5
  <2>7. CASE ~(b < len)
    <3>1. node(p) = value(a)
      BY <2>3, <2>7, Zenon
    <3>2. ~(2 * e <= len)
      BY <1>1, <2>4, <2>7
    <3>3. up[e] = layer[2 * e - 1]
      BY <1>7, <2>4, <3>2, Zenon
    <3>4. up[e] = layer[b]
      BY <2>4, <3>3, Zenon
    <3> QED BY <2>3, <2>5, <3>1, <3>4, Zenon
  <2> QED BY <2>6, <2>7
<1>9. Climb(level, siblings)
        = [len |-> half, known |-> [p \in Parents(ids) |-> node(p)],
           used |-> used + Len(asking), enough |-> TRUE]
  BY <1>1, <1>2, <1>3, <1>5 DEF Climb
<1> HIDE DEF node
<1>10. [p \in Parents(ids) |-> node(p)] = [p \in Parents(ids) |-> up[p + 1]]
  BY <1>8
<1> QED BY <1>2, <1>4, <1>9, <1>10 DEF Known, Climbs

(* Parents are nodes of the layer above.                                   *)
LEMMA ParentsIn ==
  ASSUME NEW len \in Nat \ {0}, NEW ids \in SUBSET (0..len - 1)
  PROVE  Parents(ids) \in SUBSET (0..Halve(len) - 1)
<1>1. ASSUME NEW p \in Parents(ids) PROVE p \in 0..Halve(len) - 1
  <2>1. PICK i \in ids : p = i \div 2
    BY <1>1 DEF Parents
  <2>2. i \in 0..len - 1
    OBVIOUS
  <2> QED BY <2>1, <2>2 DEF Halve
<1> QED BY <1>1

(* There are some.                                                         *)
LEMMA ParentsOfSome ==
  ASSUME NEW ids, ids # {}
  PROVE  Parents(ids) # {}
BY DEF Parents

(* What is known of each layer: of nodes, theirs above.                    *)
Ascends(cur, ids, h, n) ==
  /\ cur[0] = ids
  /\ \A l \in 0..n : cur[l] \in SUBSET (0..h[l] - 1) /\ cur[l] # {}
  /\ \A l \in 1..n : cur[l] = Parents(cur[l - 1])

(* The siblings, layer by layer.                                           *)
Lists(n, cur) == [l \in 1..Height(n) |-> SiblingsOf(Layers(n)[l - 1], cur[l - 1])]

(* The walk of assemble_matrix_proof climbs as the verifier does.          *)
LEMMA CurrentIs ==
  ASSUME NEW n \in Nat \ {0}, NEW h, Sizes(h, n), NEW ids \in SUBSET (0..n - 1), ids # {}
  PROVE  \E cur : Ascends(cur, ids, h, n) /\ Siblings(n, ids) = FlattenSeq(Lists(n, cur))
<1> DEFINE F == [l \in 1..n |-> [s \in SUBSET Nat |-> Parents(s)]]
           IsIt(g) == g = [l \in 0..n |-> IF l = 0 THEN ids ELSE Parents(g[l - 1])]
<1>1. Steps(F, n, SUBSET Nat) /\ ids \in SUBSET Nat /\ n \in Nat
  <2>1. ASSUME NEW s \in SUBSET Nat PROVE Parents(s) \in SUBSET Nat
    BY DEF Parents
  <2>2. \A i \in 0..n - 1 : i \in Nat
    OBVIOUS
  <2> QED BY <2>1, <2>2 DEF Steps
<1>2. PICK f \in [0..n -> SUBSET Nat] : f[0] = ids /\ Follows(f, F, n)
  <2> HIDE DEF F
  <2> QED BY <1>1, Recursion
<1>3. ASSUME NEW l \in 0..n PROVE f[l] = IF l = 0 THEN ids ELSE Parents(f[l - 1])
  <2>1. l # 0 => l \in 1..n /\ l - 1 \in 0..n
    OBVIOUS
  <2>2. l # 0 => f[l] = F[l][f[l - 1]] /\ f[l - 1] \in SUBSET Nat
    BY <1>2, <2>1 DEF Follows
  <2> QED BY <1>2, <2>1, <2>2
<1>4. IsIt(f)
  <2>1. f = [l \in 0..n |-> f[l]]
    OBVIOUS
  <2> QED BY <1>3, <2>1, Zenon
<1>5. PICK cur : cur = (CHOOSE g : IsIt(g))
  OBVIOUS
<1>6. IsIt(cur)
  BY <1>4, <1>5, Zenon
<1>7. ASSUME NEW l \in 0..n PROVE cur[l] = IF l = 0 THEN ids ELSE Parents(cur[l - 1])
  BY <1>6, Zenon
<1> DEFINE T == {l \in 0..n : cur[l] \in SUBSET (0..h[l] - 1) /\ cur[l] # {}}
<1>8. 0 \in T
  <2>1. 0 \in 0..n
    BY <1>1
  <2>2. cur[0] = ids /\ h[0] = n
    BY <1>7, <2>1 DEF Sizes
  <2> QED BY <2>1, <2>2
<1>9. ASSUME NEW l \in 0..n - 1, l \in T PROVE l + 1 \in T
  <2>1. PICK e \in 1..n : e = l + 1 /\ e - 1 = l /\ e \in 0..n /\ e # 0
    OBVIOUS
  <2>2. PICK len \in Nat \ {0} : len = h[l] /\ h[e] = Halve(len)
    <3>1. h[l] \in 1..n /\ h[e] = Halve(h[e - 1])
      BY <2>1 DEF Sizes
    <3>2. h[l] \in Nat \ {0} /\ h[e] = Halve(h[l])
      BY <2>1, <3>1
    <3> QED BY <3>2, Zenon
  <2>3. PICK s \in SUBSET (0..len - 1) : s = cur[l] /\ s # {}
    BY <1>9, <2>2
  <2>4. cur[e] = Parents(s)
    BY <1>7, <2>1, <2>3
  <2>5. Parents(s) \in SUBSET (0..Halve(len) - 1)
    BY ParentsIn, Zenon
  <2>6. Parents(s) # {}
    BY <2>3, ParentsOfSome, Zenon
  <2> QED BY <2>1, <2>2, <2>4, <2>5, <2>6
<1> HIDE DEF T
<1>10. \A l \in 0..n : l \in T
  BY <1>8, <1>9, InductionTo
<1>11. Ascends(cur, ids, h, n)
  <2>1. \A l \in 1..n : l \in 0..n /\ l # 0
    OBVIOUS
  <2>2. \A l \in 1..n : cur[l] = Parents(cur[l - 1])
    BY <1>7, <2>1
  <2>3. cur[0] = ids
    BY <1>1, <1>7
  <2> QED BY <1>10, <2>2, <2>3 DEF T, Ascends
<1>12. Siblings(n, ids) = FlattenSeq(Lists(n, CHOOSE g : IsIt(g)))
  BY Zenon DEF Siblings, Lists
<1>13. Siblings(n, ids) = FlattenSeq(Lists(n, cur))
  BY <1>5, <1>12, Zenon
<1> QED BY <1>11, <1>13

(* Every layer's siblings are where the verifier looks for them.           *)
Supplied(siblings, used, f, cur, t) ==
  /\ Len(siblings) \in Nat /\ used[0] = 0 /\ used[t] = Len(siblings)
  /\ \A l \in 0..t : used[l] \in Nat
  /\ \A l \in 1..t : /\ Found(siblings, used[l - 1], f[l - 1], cur[l - 1])
                     /\ used[l] = used[l - 1] + Len(SiblingsOf(f[l - 1], cur[l - 1]))

(* Its list has the siblings of every layer where the verifier takes them. *)
LEMMA SiblingsSupplied ==
  ASSUME NEW n \in Nat \ {0}, NEW h, Layered(Built(n), h, n),
         NEW ids, NEW cur, Ascends(cur, ids, h, n), Siblings(n, ids) = FlattenSeq(Lists(n, cur))
  PROVE  \E used : Supplied(Siblings(n, ids), used, Built(n), cur, Height(n))
<1>1. PICK f, t, seqs : f = Built(n) /\ t = Height(n) /\ seqs = Lists(n, cur)
  OBVIOUS
<1>2. t \in 0..n
  BY <1>1, HeightIs
<1>3. PICK V : V = UNION {{f[l][i] : i \in 1..n} : l \in 0..n}
  OBVIOUS
<1>4. ASSUME NEW l \in 0..n
      PROVE  SiblingsOf(f[l], cur[l]) \in Seq(V)
  <2>1. PICK layer, len, s : layer = f[l] /\ len = h[l] /\ s = cur[l]
    OBVIOUS
  <2>2. IsLayer(layer, len) /\ len \in 1..n /\ s \in SUBSET (0..len - 1)
    BY <1>1, <2>1 DEF Layered, Sizes, Ascends
  <2>3. \A i \in 1..len : layer[i] \in V
    BY <1>3, <2>1, <2>2
  <2>4. Answers(SiblingsOf(layer, s), Asking(s, len), layer, V)
    BY <2>2, <2>3, SiblingsOfAre, Zenon
  <2> QED BY <2>1, <2>4 DEF Answers
<1>5. ASSUME NEW l \in 1..t
      PROVE  seqs[l] = SiblingsOf(f[l - 1], cur[l - 1]) /\ l - 1 \in 0..n
  <2>1. l - 1 \in 0..t /\ l - 1 \in 0..n
    BY <1>2
  <2>2. Layers(n)[l - 1] = f[l - 1]
    BY <1>1, <2>1 DEF Layers
  <2>3. seqs[l] = SiblingsOf(Layers(n)[l - 1], cur[l - 1])
    BY <1>1 DEF Lists
  <2> QED BY <2>1, <2>2, <2>3
<1>6. seqs \in Seq(Seq(V)) /\ Len(seqs) = t
  <2>1. \A l \in 1..t : seqs[l] \in Seq(V)
    BY <1>4, <1>5
  <2>2. seqs = [l \in 1..t |-> seqs[l]]
    BY <1>1 DEF Lists
  <2>3. seqs \in [1..t -> Seq(V)]
    BY <2>1, <2>2
  <2>4. t \in Nat
    BY <1>2
  <2>5. seqs \in Seq(Seq(V))
    BY <2>3, <2>4
  <2>6. PICK d \in Nat : d = Len(seqs) /\ 1..d = 1..t
    BY <2>3, <2>5
  <2>7. ~(d < t)
    <3>1. d < t => t \in 1..t /\ ~(t \in 1..d)
      BY <2>4
    <3> QED BY <2>6, <3>1
  <2>8. ~(t < d)
    <3>1. t < d => d \in 1..d /\ ~(d \in 1..t)
      BY <2>4
    <3> QED BY <2>6, <3>1
  <2> QED BY <2>4, <2>5, <2>6, <2>7, <2>8
<1>7. PICK siblings : siblings = Siblings(n, ids)
  OBVIOUS
<1>8. siblings = FlattenSeq(seqs)
  BY <1>1, <1>7
<1>9. PICK used : Places(used, seqs, siblings)
  BY <1>6, <1>8, FlattenIs
<1>10. used[0] = 0 /\ used[t] = Len(siblings) /\ \A l \in 0..t : used[l] \in Nat
  BY <1>6, <1>9 DEF Places
<1>11. ASSUME NEW l \in 1..t
       PROVE  /\ Found(siblings, used[l - 1], f[l - 1], cur[l - 1])
              /\ used[l] = used[l - 1] + Len(SiblingsOf(f[l - 1], cur[l - 1]))
  <2>1. PICK found : found = SiblingsOf(f[l - 1], cur[l - 1]) /\ found = seqs[l]
    BY <1>5
  <2>2. /\ used[l] = used[l - 1] + Len(found) /\ used[l] <= Len(siblings)
        /\ \A x \in 1..Len(found) : siblings[used[l - 1] + x] = found[x]
    BY <1>6, <1>9, <2>1 DEF Places
  <2> QED BY <2>1, <2>2 DEF Found
<1>12. Len(siblings) \in Nat
  <2>1. t \in 0..t
    BY <1>2
  <2> QED BY <1>10, <2>1
<1>13. Supplied(siblings, used, f, cur, t)
  BY <1>10, <1>11, <1>12 DEF Supplied
<1> QED BY <1>1, <1>7, <1>13

(* What the verifier knows of every layer is what was built; above the     *)
(* root nothing changes.                                                   *)
LEMMA VerifierClimbs ==
  ASSUME NEW n \in Nat \ {0}, NEW h, Layered(Built(n), h, n), NEW ids, NEW cur, Ascends(cur, ids, h, n),
         NEW siblings, NEW used, Supplied(siblings, used, Built(n), cur, Height(n)),
         NEW shown, shown = [i \in ids |-> Leaves(n)[i + 1]], NEW root, root = Root(n)
  PROVE  Accepts(n, shown, siblings, root)
<1>1. PICK f, t : f = Built(n) /\ t = Height(n)
  OBVIOUS
<1>2. t \in 0..n /\ h[t] = 1 /\ \A l \in 0..t - 1 : h[l] > 1
  BY <1>1, HeightIs
<1>3. Rises(f, n, n)
  BY <1>1, BuiltRises
<1> DEFINE At(l) == Known(f[l], h[l], cur[l], used[l])
           Start == [len |-> n, known |-> shown, used |-> 0, enough |-> TRUE]
           IsIt(g) == g = [l \in 0..n |-> IF l = 0 THEN Start ELSE Climb(g[l - 1], siblings)]
<1>4. At(0) = Start
  <2>1. f[0] = Leaves(n) /\ h[0] = n /\ cur[0] = ids /\ used[0] = 0
    BY <1>1, <1>3 DEF Rises, Layered, Sizes, Ascends, Supplied
  <2> QED BY <2>1 DEF Known
<1>5. ASSUME NEW l \in 1..t PROVE Climb(At(l - 1), siblings) = At(l)
  <2>1. PICK d \in 0..t - 1 : d = l - 1 /\ d \in 0..n /\ l \in 1..n /\ l \in 0..n /\ d \in 0..t /\ l # 0
    BY <1>2
  <2>2. PICK layer, len, s, u : layer = f[d] /\ len = h[d] /\ s = cur[d] /\ u = used[d]
    OBVIOUS
  <2>3. IsLayer(layer, len) /\ len # 1 /\ s \in SUBSET (0..len - 1)
    BY <1>1, <1>2, <2>1, <2>2 DEF Layered, Ascends
  <2>4. u \in Nat /\ Len(siblings) \in Nat /\ Found(siblings, u, layer, s)
        /\ used[l] = u + Len(SiblingsOf(layer, s))
    BY <1>1, <2>1, <2>2 DEF Supplied
  <2>5. f[l] = Above(layer) /\ h[l] = Halve(len) /\ cur[l] = Parents(s)
    BY <1>1, <1>3, <2>1, <2>2 DEF Rises, Layered, Sizes, Ascends
  <2>6. Climbs(layer, len, s, u, siblings)
    BY <2>3, <2>4, ClimbIs, Zenon
  <2>7. Climb(Known(layer, len, s, u), siblings)
          = Known(Above(layer), Halve(len), Parents(s), u + Len(SiblingsOf(layer, s)))
    BY <2>6, Zenon DEF Climbs
  <2> QED BY <2>1, <2>2, <2>4, <2>5, <2>7, Zenon
<1>6. Climb(At(t), siblings) = At(t)
  <2>1. At(t).len = 1
    BY <1>2 DEF Known
  <2> HIDE DEF At
  <2> QED BY <2>1, Zenon DEF Climb
<1> HIDE DEF At
<1> DEFINE e == [l \in 0..n |-> At(IF l <= t THEN l ELSE t)]
<1>7. ASSUME NEW l \in 0..n PROVE e[l] = IF l = 0 THEN Start ELSE Climb(e[l - 1], siblings)
  <2>1. CASE l = 0
    <3>1. e[l] = At(0)
      BY <1>2, <2>1
    <3> QED BY <1>4, <2>1, <3>1
  <2>2. CASE l # 0 /\ l <= t
    <3>1. l \in 1..t /\ l - 1 \in 0..n /\ l - 1 <= t
      BY <1>2, <2>2
    <3>2. e[l] = At(l) /\ e[l - 1] = At(l - 1)
      BY <2>2, <3>1
    <3> QED BY <1>5, <2>2, <3>1, <3>2
  <2>3. CASE ~(l <= t)
    <3>1. l # 0 /\ l - 1 \in 0..n
      BY <1>2, <2>3
    <3>2. e[l] = At(t)
      BY <2>3
    <3>3. e[l - 1] = At(t)
      <4>1. l - 1 <= t => l - 1 = t
        BY <1>2, <2>3
      <4> QED BY <3>1, <4>1
    <3> QED BY <1>6, <3>1, <3>2, <3>3
  <2> QED BY <2>1, <2>2, <2>3
<1>8. e = [l \in 0..n |-> e[l]]
  OBVIOUS
<1>9. e[n] = At(t)
  <2>1. n <= t => n = t
    BY <1>2
  <2> QED BY <2>1
<1> HIDE DEF e, Start
<1>10. IsIt(e)
  BY <1>7, <1>8, Zenon
<1>11. PICK v : v = (CHOOSE g : IsIt(g))
  OBVIOUS
<1>12. IsIt(v)
  BY <1>10, <1>11, Zenon
<1>13. ASSUME NEW l \in 0..n PROVE v[l] = IF l = 0 THEN Start ELSE Climb(v[l - 1], siblings)
  BY <1>12, Zenon
<1> DEFINE T == {l \in 0..n : v[l] = e[l]}
<1>14. 0 \in T
  BY <1>7, <1>13
<1>15. ASSUME NEW l \in 0..n - 1, l \in T PROVE l + 1 \in T
  <2>1. PICK d \in 0..n : d = l + 1 /\ d - 1 = l /\ d # 0
    OBVIOUS
  <2>2. v[d] = Climb(v[l], siblings) /\ e[d] = Climb(e[l], siblings)
    BY <1>7, <1>13, <2>1
  <2> QED BY <1>15, <2>1, <2>2
<1> HIDE DEF T
<1>16. \A l \in 0..n : l \in T
  BY <1>14, <1>15, InductionTo
<1>17. v[n] = At(t)
  BY <1>9, <1>16 DEF T
<1>18. v[n].enough /\ v[n].used = Len(siblings) /\ v[n].known[0] = root
  <2>1. cur[t] = {0}
    <3>1. cur[t] \in SUBSET (0..0) /\ cur[t] # {}
      BY <1>2 DEF Ascends
    <3> QED BY <3>1
  <2>2. Layers(n)[t] = f[t]
    BY <1>1, <1>2 DEF Layers
  <2>3. root = f[t][1]
    BY <1>1, <2>2 DEF Root
  <2>4. used[t] = Len(siblings)
    BY <1>1 DEF Supplied
  <2> QED BY <1>17, <2>1, <2>3, <2>4 DEF At, Known
<1>19. /\ (CHOOSE g : IsIt(g))[n].enough /\ (CHOOSE g : IsIt(g))[n].used = Len(siblings)
       /\ (CHOOSE g : IsIt(g))[n].known[0] = root
  BY <1>11, <1>18, Zenon
<1> QED BY <1>19, Zenon DEF Accepts, Start

(* ProofsVerify for every tree and every leaves shown: the root a verifier *)
(* arrives at from the siblings of assemble_matrix_proof is the one        *)
(* committed to.                                                           *)
THEOREM ProofsAlwaysVerify ==
  ASSUME input \in TreeInputs(Trees(Nat \ {0}))
  PROVE  ProofsVerify
<1>1. PICK n \in Nat \ {0} : \E S \in (SUBSET (0..n - 1)) \ {{}} : input.leaves = <<n, S>>
  BY DEF TreeInputs, Trees
<1>2. PICK S \in (SUBSET (0..n - 1)) \ {{}} : input.leaves = <<n, S>>
  BY <1>1
<1>3. PICK h : Layered(Built(n), h, n)
  BY BuiltSizes
<1>4. S \in SUBSET (0..n - 1) /\ S # {} /\ Sizes(h, n)
  BY <1>3 DEF Layered
<1>5. PICK cur : Ascends(cur, S, h, n) /\ Siblings(n, S) = FlattenSeq(Lists(n, cur))
  BY <1>4, CurrentIs
<1>6. PICK used : Supplied(Siblings(n, S), used, Built(n), cur, Height(n))
  BY <1>3, <1>5, SiblingsSupplied
<1>7. Accepts(n, [i \in S |-> Leaves(n)[i + 1]], Siblings(n, S), Root(n))
  BY <1>3, <1>5, <1>6, VerifierClimbs
<1>8. input.leaves[1] = n /\ input.leaves[2] = S
  BY <1>2
<1> QED BY <1>7, <1>8, Zenon DEF ProofsVerify

=============================================================================
