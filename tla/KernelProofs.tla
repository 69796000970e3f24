---------------------------- MODULE KernelProofs ----------------------------
(***************************************************************************)
(* The micro-kernels and the noise, for every matrix.                      *)
(*                                                                         *)
(* The sum of a row and a column does not depend on how the lanes of a     *)
(* kernel share it, nor the folded words on how its tiles are cut: each    *)
(* kernel leaves in the words of a tile what the reference leaves there,   *)
(* for it adds up the same products and the fold of a block is the         *)
(* exclusive or of its sums. That is an exclusive or of words of any       *)
(* width, taken bit by bit. What is packed four to a word comes out as it  *)
(* went in.                                                                *)
(***************************************************************************)
EXTENDS FastNoise, GrindProofs

-----------------------------------------------------------------------------
(* Sums and their prefixes.                                                *)
Ints(f, n) == \A i \in 0..n - 1 : f[i] \in Int

IsSum(s, f, n) == Ints(f, n) /\ s \in [0..n -> Int] /\ s[0] = 0 /\ \A i \in 0..n - 1 : s[i + 1] = s[i] + f[i]

(* A sum is the last of its prefixes. *)
LEMMA SumHasPrefixes ==
  ASSUME NEW n \in Nat, NEW f, Ints(f, n)
  PROVE  \E s : IsSum(s, f, n) /\ SumOf(f, n) = s[n]
<1> DEFINE F == [i \in 1..n |-> [s \in Int |-> s + f[i - 1]]]
<1>1. Steps(F, n, Int)
  <2>1. \A i \in 1..n : f[i - 1] \in Int
    BY DEF Ints
  <2> QED BY <2>1 DEF Steps
<1>2. PICK g \in [0..n -> Int] : g[0] = 0 /\ Follows(g, F, n)
  <2> HIDE DEF F
  <2>1. 0 \in Int
    OBVIOUS
  <2> QED BY <1>1, <2>1, Recursion
<1>3. ASSUME NEW i \in 0..n PROVE g[i] = IF i = 0 THEN 0 ELSE g[i - 1] + f[i - 1]
  <2>1. i # 0 => i \in 1..n /\ i - 1 \in 0..n
    OBVIOUS
  <2> QED BY <1>2, <2>1 DEF Follows
<1> DEFINE IsIt(h) == h = [i \in 0..n |-> IF i = 0 THEN 0 ELSE h[i - 1] + f[i - 1]]
<1>4. IsIt(g)
  <2>1. g = [i \in 0..n |-> g[i]]
    OBVIOUS
  <2> QED BY <1>3, <2>1, Zenon
<1>5. PICK s : s = (CHOOSE h : IsIt(h)) /\ SumOf(f, n) = s[n]
  BY Zenon DEF SumOf
<1>6. IsIt(s)
  BY <1>4, <1>5, Zenon
<1>7. \A i \in 0..n : s[i] = IF i = 0 THEN 0 ELSE s[i - 1] + f[i - 1]
  BY <1>6
<1>8. ASSUME NEW i \in 0..n - 1 PROVE s[i + 1] = s[i] + f[i]
  <2>1. i + 1 \in 0..n /\ i + 1 # 0 /\ i + 1 - 1 = i
    OBVIOUS
  <2> QED BY <1>7, <2>1
<1>9. s[0] = 0
  BY <1>7
<1> DEFINE T == {i \in 0..n : s[i] \in Int}
<1>10. 0 \in T
  BY <1>9
<1>11. ASSUME NEW i \in 0..n - 1, i \in T PROVE i + 1 \in T
  <2>1. s[i] \in Int /\ f[i] \in Int /\ i + 1 \in 0..n
    BY <1>11 DEF Ints
  <2> QED BY <1>8, <2>1
<1> HIDE DEF T
<1>12. \A i \in 0..n : i \in T
  BY <1>10, <1>11, InductionTo
<1>13. \A i \in 0..n : s[i] \in Int
  BY <1>12 DEF T
<1>14. s = [i \in 0..n |-> s[i]]
  BY <1>6
<1>15. s \in [0..n -> Int]
  BY <1>13, <1>14
<1> QED BY <1>5, <1>8, <1>9, <1>15 DEF IsSum

(* There is one sequence of prefixes: any of them ends in the sum. *)
LEMMA SumIs ==
  ASSUME NEW n \in Nat, NEW f, NEW s, IsSum(s, f, n)
  PROVE  SumOf(f, n) = s[n]
<1>1. PICK t : IsSum(t, f, n) /\ SumOf(f, n) = t[n]
  <2>1. Ints(f, n)
    BY DEF IsSum
  <2> QED BY <2>1, SumHasPrefixes
<1> DEFINE T == {i \in 0..n : s[i] = t[i]}
<1>2. 0 \in T
  BY <1>1 DEF IsSum
<1>3. ASSUME NEW i \in 0..n - 1, i \in T PROVE i + 1 \in T
  <2>1. s[i + 1] = s[i] + f[i] /\ t[i + 1] = t[i] + f[i] /\ i + 1 \in 0..n
    BY <1>1 DEF IsSum
  <2> QED BY <1>3, <2>1
<1> HIDE DEF T
<1>4. n \in T
  BY <1>2, <1>3, InductionTo
<1> QED BY <1>1, <1>4 DEF T

(* Of integers it is one. *)
LEMMA SumType ==
  ASSUME NEW n \in Nat, NEW f, Ints(f, n)
  PROVE  SumOf(f, n) \in Int
<1>1. PICK s : IsSum(s, f, n) /\ SumOf(f, n) = s[n]
  BY SumHasPrefixes
<1> QED BY <1>1 DEF IsSum

(* The same terms have the same sum. *)
LEMMA SumSame ==
  ASSUME NEW n \in Nat, NEW f, NEW g, Ints(f, n), \A i \in 0..n - 1 : g[i] = f[i]
  PROVE  SumOf(g, n) = SumOf(f, n)
<1>1. PICK s : IsSum(s, f, n) /\ SumOf(f, n) = s[n]
  BY SumHasPrefixes
<1>2. IsSum(s, g, n)
  BY <1>1 DEF IsSum, Ints
<1> QED BY <1>1, <1>2, SumIs

(* Term by term. *)
LEMMA SumAdd ==
  ASSUME NEW n \in Nat, NEW f, NEW g, NEW h, Ints(f, n), Ints(g, n), \A i \in 0..n - 1 : h[i] = f[i] + g[i]
  PROVE  SumOf(h, n) = SumOf(f, n) + SumOf(g, n)
<1>1. PICK s : IsSum(s, f, n) /\ SumOf(f, n) = s[n]
  BY SumHasPrefixes
<1>2. PICK t : IsSum(t, g, n) /\ SumOf(g, n) = t[n]
  BY SumHasPrefixes
<1> DEFINE u == [i \in 0..n |-> s[i] + t[i]]
<1>3. IsSum(u, h, n)
  <2>1. Ints(h, n)
    BY DEF Ints
  <2>2. u \in [0..n -> Int] /\ u[0] = 0
    BY <1>1, <1>2 DEF IsSum
  <2>3. ASSUME NEW i \in 0..n - 1 PROVE u[i + 1] = u[i] + h[i]
    <3>1. i \in 0..n /\ i + 1 \in 0..n
      OBVIOUS
    <3>2. s[i + 1] = s[i] + f[i] /\ t[i + 1] = t[i] + g[i] /\ h[i] = f[i] + g[i]
      BY <1>1, <1>2 DEF IsSum
    <3>3. s[i] \in Int /\ t[i] \in Int /\ f[i] \in Int /\ g[i] \in Int
      BY <1>1, <1>2, <3>1 DEF IsSum, Ints
    <3> QED BY <3>1, <3>2, <3>3
  <2> HIDE DEF u
  <2> QED BY <2>1, <2>2, <2>3 DEF IsSum
<1>4. SumOf(h, n) = u[n]
  <2> HIDE DEF u
  <2> QED BY <1>3, SumIs
<1> QED BY <1>1, <1>2, <1>4

(* A common factor comes out. *)
LEMMA SumScale ==
  ASSUME NEW n \in Nat, NEW c \in Int, NEW f, NEW h, Ints(f, n), \A i \in 0..n - 1 : h[i] = c * f[i]
  PROVE  SumOf(h, n) = c * SumOf(f, n)
<1>1. PICK s : IsSum(s, f, n) /\ SumOf(f, n) = s[n]
  BY SumHasPrefixes
<1> DEFINE u == [i \in 0..n |-> c * s[i]]
<1>3. IsSum(u, h, n)
  <2>1. Ints(h, n)
    BY DEF Ints
  <2>2. u \in [0..n -> Int] /\ u[0] = 0
    BY <1>1 DEF IsSum
  <2>3. ASSUME NEW i \in 0..n - 1 PROVE u[i + 1] = u[i] + h[i]
    <3>1. i \in 0..n /\ i + 1 \in 0..n
      OBVIOUS
    <3>2. s[i + 1] = s[i] + f[i] /\ h[i] = c * f[i]
      BY <1>1 DEF IsSum
    <3>3. s[i] \in Int /\ f[i] \in Int
      BY <1>1, <3>1 DEF IsSum, Ints
    <3>4. c * (s[i] + f[i]) = c * s[i] + c * f[i]
      BY <3>3
    <3> QED BY <3>1, <3>2, <3>4
  <2> HIDE DEF u
  <2> QED BY <2>1, <2>2, <2>3 DEF IsSum
<1>4. SumOf(h, n) = u[n]
  <2> HIDE DEF u
  <2> QED BY <1>3, SumIs
<1> QED BY <1>1, <1>4

(* In two parts. *)
LEMMA SumSplit ==
  ASSUME NEW n \in Nat, NEW m \in 0..n, NEW f, NEW g, Ints(f, n), \A i \in 0..n - m - 1 : g[i] = f[m + i]
  PROVE  SumOf(f, n) = SumOf(f, m) + SumOf(g, n - m)
<1>1. PICK s : IsSum(s, f, n) /\ SumOf(f, n) = s[n]
  BY SumHasPrefixes
<1>2. IsSum([i \in 0..m |-> s[i]], f, m)
  BY <1>1 DEF IsSum, Ints
<1>3. SumOf(f, m) = s[m]
  <2>1. SumOf(f, m) = [i \in 0..m |-> s[i]][m]
    BY <1>2, SumIs
  <2> QED BY <2>1
<1> DEFINE u == [i \in 0..n - m |-> s[m + i] - s[m]]
<1>4. s[m] \in Int /\ m \in Nat /\ n - m \in Nat
  BY <1>1 DEF IsSum
<1>5. IsSum(u, g, n - m)
  <2>1. Ints(g, n - m)
    <3>1. ASSUME NEW i \in 0..n - m - 1 PROVE g[i] \in Int
      <4>1. m + i \in 0..n - 1
        OBVIOUS
      <4> QED BY <4>1 DEF Ints
    <3> QED BY <3>1 DEF Ints
  <2>2. u \in [0..n - m -> Int] /\ u[0] = 0
    <3>1. ASSUME NEW i \in 0..n - m PROVE s[m + i] \in Int
      <4>1. m + i \in 0..n
        OBVIOUS
      <4> QED BY <1>1, <4>1 DEF IsSum
    <3>2. m + 0 = m /\ s[m] - s[m] = 0 /\ 0 \in 0..n - m
      BY <1>4
    <3>3. u[0] = s[m + 0] - s[m]
      BY <3>2
    <3>4. \A i \in 0..n - m : s[m + i] - s[m] \in Int
      BY <1>4, <3>1
    <3> QED BY <3>2, <3>3, <3>4
  <2>3. ASSUME NEW i \in 0..n - m - 1 PROVE u[i + 1] = u[i] + g[i]
    <3>1. i \in 0..n - m /\ i + 1 \in 0..n - m /\ m + i \in 0..n - 1 /\ m + (i + 1) = m + i + 1 /\ m + i \in 0..n
      OBVIOUS
    <3>2. s[m + i + 1] = s[m + i] + f[m + i] /\ g[i] = f[m + i]
      BY <1>1, <3>1 DEF IsSum
    <3>3. s[m + i] \in Int /\ f[m + i] \in Int
      BY <1>1, <3>1 DEF IsSum, Ints
    <3>4. u[i + 1] = s[m + i + 1] - s[m] /\ u[i] = s[m + i] - s[m]
      BY <3>1
    <3> QED BY <1>4, <3>2, <3>3, <3>4
  <2> HIDE DEF u
  <2> QED BY <1>4, <2>1, <2>2, <2>3 DEF IsSum
<1>6. SumOf(g, n - m) = u[n - m]
  <2> HIDE DEF u
  <2> QED BY <1>4, <1>5, SumIs
<1>7. s[n] \in Int /\ m + (n - m) = n
  BY <1>1 DEF IsSum
<1> QED BY <1>1, <1>3, <1>4, <1>6, <1>7

(* The sum of n groups of d is the sum of all.                             *)
LEMMA SumGrouped ==
  ASSUME NEW n \in Nat, NEW d \in Nat, NEW f, Ints(f, n * d)
  PROVE  SumOf([i \in 0..n - 1 |-> SumOf([e \in 0..d - 1 |-> f[i * d + e]], d)], n) = SumOf(f, n * d)
<1> DEFINE g == [i \in 0..n - 1 |-> SumOf([e \in 0..d - 1 |-> f[i * d + e]], d)]
<1>1. n * d \in Nat
  OBVIOUS
<1>2. PICK s : IsSum(s, f, n * d) /\ SumOf(f, n * d) = s[n * d]
  BY <1>1, SumHasPrefixes
<1>3. ASSUME NEW i \in 0..n PROVE i * d \in 0..n * d
  <2>1. PICK j \in Nat : j = n - i
    OBVIOUS
  <2>2. n * d = i * d + j * d /\ i * d \in Nat /\ j * d \in Nat
    BY <2>1
  <2> QED BY <1>1, <2>2
<1>4. ASSUME NEW i \in 0..n - 1
      PROVE  s[(i + 1) * d] = s[i * d] + g[i] /\ s[i * d] \in Int /\ g[i] \in Int
  <2>1. PICK b : b = i * d
    OBVIOUS
  <2>2. PICK N : N = n * d
    OBVIOUS
  <2>3. (i + 1) * d = b + d /\ b \in Nat /\ b + d <= N /\ N \in Nat
    <3>1. i + 1 \in 0..n /\ (i + 1) * d = i * d + d /\ i * d \in Nat
      OBVIOUS
    <3>2. (i + 1) * d \in 0..n * d
      BY <1>3, <3>1
    <3> QED BY <1>1, <2>1, <2>2, <3>1, <3>2
  <2>4. IsSum(s, f, N)
    BY <1>2, <2>2
  <2> DEFINE h == [e \in 0..d - 1 |-> f[b + e]]
             t == [e \in 0..d |-> s[b + e] - s[b]]
  <2>5. s[b] \in Int
    BY <2>3, <2>4 DEF IsSum
  <2>6. IsSum(t, h, d)
    <3>1. \A e \in 0..d - 1 : b + e \in 0..N - 1 /\ f[b + e] \in Int
      BY <2>3, <2>4 DEF IsSum, Ints
    <3>2. \A e \in 0..d : b + e \in 0..N /\ s[b + e] \in Int
      BY <2>3, <2>4 DEF IsSum
    <3>3. t \in [0..d -> Int] /\ t[0] = 0
      BY <2>3, <2>5, <3>2
    <3>4. ASSUME NEW e \in 0..d - 1 PROVE t[e + 1] = t[e] + h[e]
      <4>1. e \in 0..d /\ e + 1 \in 0..d /\ b + (e + 1) = b + e + 1
        BY <2>3
      <4>2. s[b + e + 1] = s[b + e] + f[b + e]
        BY <2>4, <3>1 DEF IsSum
      <4>3. s[b + e] \in Int /\ f[b + e] \in Int
        BY <3>1, <3>2, <4>1
      <4>4. t[e + 1] = s[b + e + 1] - s[b] /\ t[e] = s[b + e] - s[b] /\ h[e] = f[b + e]
        BY <4>1
      <4> QED BY <2>5, <4>2, <4>3, <4>4
    <3>5. Ints(h, d)
      BY <3>1 DEF Ints
    <3> HIDE DEF t, h
    <3> QED BY <3>3, <3>4, <3>5 DEF IsSum
  <2>7. SumOf(h, d) = t[d]
    <3> HIDE DEF t, h
    <3> QED BY <2>6, SumIs
  <2>8. s[b + d] \in Int
    BY <2>3, <2>4 DEF IsSum
  <2>9. g[i] = SumOf(h, d)
    BY <2>1
  <2> HIDE DEF g, h
  <2>10. t[d] = s[b + d] - s[b]
    OBVIOUS
  <2> HIDE DEF t
  <2>11. s[(i + 1) * d] = s[b + d] /\ s[i * d] = s[b]
    BY <2>1, <2>3
  <2> QED BY <2>5, <2>7, <2>8, <2>9, <2>10, <2>11
<1> DEFINE u == [i \in 0..n |-> s[i * d]]
<1>5. IsSum(u, g, n)
  <2>1. Ints(g, n)
    <3> HIDE DEF g
    <3> QED BY <1>4 DEF Ints
  <2>2. ASSUME NEW i \in 0..n PROVE s[i * d] \in Int
    <3>1. i * d \in 0..n * d
      BY <1>3
    <3> QED BY <1>2, <3>1, Zenon DEF IsSum
  <2>3. u \in [0..n -> Int]
    BY <2>2
  <2>4. u[0] = 0
    <3>1. 0 * d = 0 /\ 0 \in 0..n
      OBVIOUS
    <3> QED BY <1>2, <3>1 DEF IsSum
  <2>5. ASSUME NEW i \in 0..n - 1 PROVE u[i + 1] = u[i] + g[i]
    <3>1. i \in 0..n /\ i + 1 \in 0..n
      OBVIOUS
    <3>2. u[i + 1] = s[(i + 1) * d] /\ u[i] = s[i * d]
      BY <3>1
    <3> HIDE DEF g, u
    <3> QED BY <1>4, <3>2
  <2> HIDE DEF g, u
  <2> QED BY <2>1, <2>3, <2>4, <2>5 DEF IsSum
<1>6. SumOf(g, n) = u[n]
  <2> HIDE DEF g, u
  <2> QED BY <1>5, SumIs
<1>7. u[n] = s[n * d]
  OBVIOUS
<1> QED BY <1>2, <1>6, <1>7

-----------------------------------------------------------------------------
(* Words and their bits, the highest first.                                *)
LEMMA TwoToIs ==
  /\ \A i \in Nat : TwoTo[i] \in Nat \ {0}
  /\ TwoTo[0] = 1
  /\ \A i \in Nat : TwoTo[i + 1] = 2 * TwoTo[i]
<1> DEFINE F == [i \in Nat |-> [s \in Nat \ {0} |-> 2 * s]]
<1>1. \A n \in Nat : Steps(F, n, Nat \ {0})
  BY DEF Steps
<1>2. PICK f \in [Nat -> Nat \ {0}] : f[0] = 1 /\ \A n \in Nat : Follows(f, F, n)
  <2> HIDE DEF F
  <2>1. 1 \in Nat \ {0}
    OBVIOUS
  <2> QED BY <1>1, <2>1, RecursionOnNat
<1>3. ASSUME NEW i \in Nat PROVE f[i] = IF i = 0 THEN 1 ELSE 2 * f[i - 1]
  <2>1. i # 0 => i \in 1..i /\ i - 1 \in Nat
    OBVIOUS
  <2> QED BY <1>2, <2>1 DEF Follows
<1>4. f = [i \in Nat |-> IF i = 0 THEN 1 ELSE 2 * f[i - 1]]
  <2>1. f = [i \in Nat |-> f[i]]
    OBVIOUS
  <2> QED BY <1>3, <2>1, Zenon
<1>5. TwoTo = [i \in Nat |-> IF i = 0 THEN 1 ELSE 2 * TwoTo[i - 1]]
  BY <1>4, Zenon DEF TwoTo
<1>6. TwoTo[0] = 1 /\ \A i \in Nat : TwoTo[i + 1] = 2 * TwoTo[i]
  <2>1. \A i \in Nat : TwoTo[i] = IF i = 0 THEN 1 ELSE 2 * TwoTo[i - 1]
    BY <1>5
  <2>2. \A i \in Nat : i + 1 # 0 /\ i + 1 \in Nat /\ i + 1 - 1 = i
    OBVIOUS
  <2> QED BY <2>1, <2>2
<1> DEFINE T == {i \in Nat : TwoTo[i] \in Nat \ {0}}
<1>7. 0 \in T /\ \A i \in T : i + 1 \in T
  BY <1>6
<1>8. T \in SUBSET Nat
  OBVIOUS
<1> HIDE DEF T
<1>9. T = Nat
  BY <1>7, <1>8, Induction
<1> QED BY <1>6, <1>9 DEF T

(* What the first n bits of a word make. *)
Lead(x, n) == x \div TwoTo[WordBits - n]

(* It is a number. *)
LEMMA LeadIn ==
  ASSUME NEW x \in Nat, NEW n \in 0..WordBits
  PROVE  Lead(x, n) \in Nat
<1>1. WordBits - n \in Nat
  BY WordAssumption
<1>2. TwoTo[WordBits - n] \in Nat \ {0}
  BY <1>1, TwoToIs
<1> QED BY <1>2, QuotientIn DEF Lead

(* One bit less is half of it. *)
LEMMA LeadHalves ==
  ASSUME NEW x \in Nat, NEW n \in 1..WordBits
  PROVE  Lead(x, n - 1) = Lead(x, n) \div 2
<1>1. WordBits - n \in Nat /\ WordBits - (n - 1) = WordBits - n + 1
  BY WordAssumption
<1>2. PICK t : t = TwoTo[WordBits - n]
  OBVIOUS
<1>3. t \in Nat \ {0}
  BY <1>1, <1>2, TwoToIs
<1>4. TwoTo[WordBits - (n - 1)] = t * 2
  <2>1. TwoTo[WordBits - n + 1] = 2 * TwoTo[WordBits - n]
    BY <1>1, TwoToIs
  <2> QED BY <1>1, <1>2, <1>3, <2>1
<1>5. 2 \in Nat \ {0}
  OBVIOUS
<1>6. x \div (t * 2) = (x \div t) \div 2
  BY <1>3, <1>5, DivideByProduct
<1> QED BY <1>2, <1>4, <1>6, Zenon DEF Lead

(* All the bits make the word. *)
LEMMA LeadOfAll ==
  ASSUME NEW x \in Nat
  PROVE  Lead(x, WordBits) = x
<1>1. WordBits - WordBits = 0
  BY WordAssumption
<1>2. TwoTo[WordBits - WordBits] = 1
  BY <1>1, TwoToIs
<1> QED BY <1>2 DEF Lead

(* No bits make 0. *)
LEMMA LeadOfNone ==
  ASSUME NEW x \in Words
  PROVE  Lead(x, 0) = 0
<1>1. WordBits - 0 = WordBits /\ WordBits \in Nat
  BY WordAssumption
<1>2. PICK t : t = TwoTo[WordBits]
  OBVIOUS
<1>3. t \in Nat \ {0} /\ x \in 0..t - 1
  BY <1>1, <1>2, TwoToIs DEF Words
<1>4. x \div t = 0
  BY <1>3, BelowDivisor
<1> QED BY <1>1, <1>2, <1>4 DEF Lead

(* The bits of 0 make 0, however many. *)
LEMMA LeadOfZero ==
  ASSUME NEW n \in 0..WordBits
  PROVE  Lead(0, n) = 0
<1>1. WordBits - n \in Nat
  BY WordAssumption
<1>2. TwoTo[WordBits - n] \in Nat \ {0}
  BY <1>1, TwoToIs
<1>3. 0 \in 0..TwoTo[WordBits - n] - 1
  BY <1>2
<1> QED BY <1>2, <1>3, BelowDivisor DEF Lead

(* Words with the same bits are the same. *)
LEMMA SameBits ==
  ASSUME NEW x \in Words, NEW y \in Words, \A n \in 1..WordBits : Lead(x, n) % 2 = Lead(y, n) % 2
  PROVE  x = y
<1>1. x \in Nat /\ y \in Nat /\ WordBits \in Nat
  BY WordAssumption DEF Words
<1> DEFINE T == {n \in 0..WordBits : Lead(x, n) = Lead(y, n)}
<1>2. 0 \in T
  <2>1. Lead(x, 0) = Lead(y, 0)
    BY LeadOfNone
  <2> QED BY <1>1, <2>1
<1>3. ASSUME NEW n \in 0..WordBits - 1, n \in T PROVE n + 1 \in T
  <2>1. n + 1 \in 1..WordBits /\ n + 1 - 1 = n /\ n + 1 \in 0..WordBits
    BY <1>1
  <2>2. PICK p, q : p = Lead(x, n + 1) /\ q = Lead(y, n + 1)
    OBVIOUS
  <2>3. p \in Nat /\ q \in Nat
    BY <1>1, <2>1, <2>2, LeadIn
  <2>4. Lead(x, n + 1 - 1) = p \div 2 /\ Lead(y, n + 1 - 1) = q \div 2
    <3>1. Lead(x, n + 1 - 1) = Lead(x, n + 1) \div 2
      BY <1>1, <2>1, LeadHalves
    <3>2. Lead(y, n + 1 - 1) = Lead(y, n + 1) \div 2
      BY <1>1, <2>1, LeadHalves
    <3> QED BY <2>2, <3>1, <3>2, Zenon
  <2>5. p \div 2 = q \div 2
    BY <1>3, <2>1, <2>4
  <2>6. p % 2 = q % 2
    BY <2>1, <2>2
  <2>7. p = q
    BY <2>3, <2>5, <2>6
  <2> QED BY <2>1, <2>2, <2>7
<1> HIDE DEF T
<1>4. WordBits \in T
  <2>1. \A n \in 0..WordBits : n \in T
    BY <1>1, <1>2, <1>3, InductionTo
  <2> QED BY <1>1, <2>1
<1>5. Lead(x, WordBits) = Lead(y, WordBits)
  BY <1>4 DEF T
<1> QED BY <1>1, <1>5, LeadOfAll

IsXor(h, x, y) ==
  /\ h \in [0..WordBits -> Nat] /\ h[0] = 0
  /\ \A n \in 1..WordBits : h[n] = ((Lead(x, n) + Lead(y, n)) % 2) + 2 * h[n - 1]

(* Xor builds its word from the highest bit down. *)
LEMMA XorHasBits ==
  ASSUME NEW x \in Nat, NEW y \in Nat
  PROVE  \E h : IsXor(h, x, y) /\ Xor(x, y) = h[WordBits]
<1>0. WordBits \in Nat
  BY WordAssumption
<1> DEFINE bit(n) == (Lead(x, n) + Lead(y, n)) % 2
<1>1. ASSUME NEW n \in 1..WordBits PROVE bit(n) \in Nat
  <2>1. n \in 0..WordBits
    BY <1>0
  <2>2. Lead(x, n) \in Nat /\ Lead(y, n) \in Nat
    BY <2>1, LeadIn
  <2> QED BY <2>2
<1> HIDE DEF bit
<1> DEFINE F == [n \in 1..WordBits |-> [s \in Nat |-> bit(n) + 2 * s]]
<1>2. Steps(F, WordBits, Nat)
  BY <1>1 DEF Steps
<1>3. PICK g \in [0..WordBits -> Nat] : g[0] = 0 /\ Follows(g, F, WordBits)
  <2> HIDE DEF F
  <2>1. 0 \in Nat
    OBVIOUS
  <2> QED BY <1>0, <1>2, <2>1, Recursion
<1>4. ASSUME NEW n \in 0..WordBits PROVE g[n] = IF n = 0 THEN 0 ELSE bit(n) + 2 * g[n - 1]
  <2>1. n # 0 => n \in 1..WordBits /\ n - 1 \in 0..WordBits
    BY <1>0
  <2> QED BY <1>3, <2>1 DEF Follows
<1> DEFINE IsIt(h) == h = [n \in 0..WordBits |-> IF n = 0 THEN 0 ELSE bit(n) + 2 * h[n - 1]]
<1>5. IsIt(g)
  <2>1. g = [n \in 0..WordBits |-> g[n]]
    OBVIOUS
  <2> QED BY <1>4, <2>1, Zenon
<1>6. PICK h : h = (CHOOSE w : IsIt(w)) /\ Xor(x, y) = h[WordBits]
  BY Zenon DEF Xor, bit, Lead
<1>7. IsIt(h)
  BY <1>5, <1>6, Zenon
<1>8. \A n \in 0..WordBits : h[n] = IF n = 0 THEN 0 ELSE bit(n) + 2 * h[n - 1]
  BY <1>7
<1>9. ASSUME NEW n \in 1..WordBits PROVE h[n] = bit(n) + 2 * h[n - 1]
  <2>1. n \in 0..WordBits /\ n # 0
    BY <1>0
  <2> QED BY <1>8, <2>1
<1>10. h[0] = 0
  BY <1>0, <1>8
<1> DEFINE T == {n \in 0..WordBits : h[n] \in Nat}
<1>11. 0 \in T
  BY <1>0, <1>10
<1>12. ASSUME NEW n \in 0..WordBits - 1, n \in T PROVE n + 1 \in T
  <2>1. n + 1 \in 1..WordBits /\ n + 1 \in 0..WordBits /\ n + 1 - 1 = n /\ h[n] \in Nat
    BY <1>0, <1>12
  <2>2. h[n + 1] = bit(n + 1) + 2 * h[n] /\ bit(n + 1) \in Nat
    BY <1>1, <1>9, <2>1
  <2> QED BY <2>1, <2>2
<1> HIDE DEF T
<1>13. \A n \in 0..WordBits : n \in T
  BY <1>0, <1>11, <1>12, InductionTo
<1>14. \A n \in 0..WordBits : h[n] \in Nat
  BY <1>13 DEF T
<1>15. h = [n \in 0..WordBits |-> h[n]]
  BY <1>7
<1>16. h \in [0..WordBits -> Nat]
  BY <1>14, <1>15
<1> QED BY <1>6, <1>9, <1>10, <1>16 DEF IsXor, bit

(* A bit of the result is the sum of the two, without carry. *)
LEMMA XorBits ==
  ASSUME NEW x \in Nat, NEW y \in Nat
  PROVE  /\ Xor(x, y) \in Words
         /\ \A n \in 1..WordBits : Lead(Xor(x, y), n) % 2 = (Lead(x, n) + Lead(y, n)) % 2
<1>0. WordBits \in Nat
  BY WordAssumption
<1>1. PICK h : IsXor(h, x, y) /\ Xor(x, y) = h[WordBits]
  BY XorHasBits
<1>2. PICK z : z = Xor(x, y)
  OBVIOUS
<1>3. ASSUME NEW n \in 1..WordBits
      PROVE  \E b \in 0..1 : /\ b = (Lead(x, n) + Lead(y, n)) % 2 /\ h[n] = b + 2 * h[n - 1]
                             /\ h[n] \in Nat /\ h[n - 1] \in Nat
  <2>1. n \in 0..WordBits /\ n - 1 \in 0..WordBits
    BY <1>0
  <2>2. PICK p, q : p = Lead(x, n) /\ q = Lead(y, n)
    OBVIOUS
  <2>3. p \in Nat /\ q \in Nat
    BY <2>1, <2>2, LeadIn
  <2>4. PICK b : b = (p + q) % 2
    OBVIOUS
  <2>5. b \in 0..1
    BY <2>3, <2>4
  <2>6. h[n] = b + 2 * h[n - 1]
    BY <1>1, <2>2, <2>4 DEF IsXor
  <2>7. h[n] \in Nat /\ h[n - 1] \in Nat
    BY <1>1, <2>1 DEF IsXor
  <2> QED BY <2>2, <2>4, <2>5, <2>6, <2>7
<1> DEFINE T == {n \in 0..WordBits : h[n] \in 0..TwoTo[n] - 1}
<1>4. 0 \in T
  <2>1. h[0] = 0
    BY <1>1 DEF IsXor
  <2>2. TwoTo[0] = 1
    BY TwoToIs
  <2> QED BY <1>0, <2>1, <2>2
<1>5. ASSUME NEW n \in 0..WordBits - 1, n \in T PROVE n + 1 \in T
  <2>1. n + 1 \in 1..WordBits /\ n + 1 \in 0..WordBits /\ n + 1 - 1 = n /\ n \in Nat
    BY <1>0
  <2>2. PICK b \in 0..1 : h[n + 1] = b + 2 * h[n]
    BY <1>3, <2>1
  <2>3. PICK t : t = TwoTo[n]
    OBVIOUS
  <2>4. t \in Nat \ {0} /\ TwoTo[n + 1] = 2 * t /\ h[n] \in 0..t - 1
    BY <1>5, <2>1, <2>3, TwoToIs
  <2>5. h[n + 1] \in 0..TwoTo[n + 1] - 1
    BY <2>2, <2>4
  <2> QED BY <2>1, <2>5
<1> HIDE DEF T
<1>6. \A n \in 0..WordBits : n \in T
  BY <1>0, <1>4, <1>5, InductionTo
<1>7. z \in 0..TwoTo[WordBits] - 1
  <2>1. WordBits \in T
    BY <1>0, <1>6
  <2> QED BY <1>1, <1>2, <2>1 DEF T
<1>8. z \in Words /\ z \in Nat
  BY <1>7 DEF Words
<1> DEFINE U == {i \in 0..WordBits : Lead(z, WordBits - i) = h[WordBits - i]}
<1>9. 0 \in U
  <2>1. Lead(z, WordBits) = z /\ WordBits - 0 = WordBits
    BY <1>0, <1>8, LeadOfAll
  <2> QED BY <1>0, <1>1, <1>2, <2>1
<1>10. ASSUME NEW i \in 0..WordBits - 1, i \in U PROVE i + 1 \in U
  <2>1. PICK n \in 1..WordBits : n = WordBits - i
    BY <1>0
  <2>2. WordBits - (i + 1) = n - 1 /\ i + 1 \in 0..WordBits
    BY <1>0, <2>1
  <2>3. Lead(z, n - 1) = Lead(z, n) \div 2
    BY <1>8, LeadHalves
  <2>4. Lead(z, n) = h[n]
    BY <1>10, <2>1
  <2>5. PICK b \in 0..1 : h[n] = b + 2 * h[n - 1] /\ h[n - 1] \in Nat
    BY <1>3
  <2>6. (b + 2 * h[n - 1]) \div 2 = h[n - 1]
    BY <2>5
  <2>7. Lead(z, n - 1) = h[n - 1]
    BY <2>3, <2>4, <2>5, <2>6
  <2> QED BY <2>2, <2>7
<1> HIDE DEF U
<1>11. \A i \in 0..WordBits : i \in U
  BY <1>0, <1>9, <1>10, InductionTo
<1>12. ASSUME NEW n \in 1..WordBits PROVE Lead(z, n) % 2 = (Lead(x, n) + Lead(y, n)) % 2
  <2>1. PICK i \in 0..WordBits : i = WordBits - n /\ n = WordBits - i
    BY <1>0
  <2>2. Lead(z, n) = h[n]
    <3>1. i \in U
      BY <1>11
    <3> QED BY <2>1, <3>1 DEF U
  <2>3. PICK b \in 0..1 : /\ b = (Lead(x, n) + Lead(y, n)) % 2 /\ h[n] = b + 2 * h[n - 1]
                          /\ h[n - 1] \in Nat
    BY <1>3
  <2>4. (b + 2 * h[n - 1]) % 2 = b
    BY <2>3
  <2> QED BY <2>2, <2>3, <2>4
<1> QED BY <1>2, <1>8, <1>12

(* The result is a word. *)
LEMMA XorType ==
  ASSUME NEW x \in Nat, NEW y \in Nat
  PROVE  Xor(x, y) \in Words
BY XorBits

(* A word is a number. *)
LEMMA WordIsNat == ASSUME NEW x \in Words PROVE x \in Nat
BY DEF Words

(* x ^ y = y ^ x *)
LEMMA XorCommutes ==
  ASSUME NEW x \in Words, NEW y \in Words
  PROVE  Xor(x, y) = Xor(y, x)
<1>1. x \in Nat /\ y \in Nat
  BY WordIsNat
<1>2. Xor(x, y) \in Words /\ Xor(y, x) \in Words
  BY <1>1, XorType
<1>3. ASSUME NEW n \in 1..WordBits PROVE Lead(Xor(x, y), n) % 2 = Lead(Xor(y, x), n) % 2
  <2>1. n \in 0..WordBits
    OBVIOUS
  <2>2. PICK p, q : p = Lead(x, n) /\ q = Lead(y, n)
    OBVIOUS
  <2>3. p \in Nat /\ q \in Nat /\ p + q = q + p
    <3>1. p \in Nat /\ q \in Nat
      BY <1>1, <2>1, <2>2, LeadIn
    <3> QED BY <3>1
  <2>4. Lead(Xor(x, y), n) % 2 = (p + q) % 2 /\ Lead(Xor(y, x), n) % 2 = (q + p) % 2
    BY <1>1, <2>2, XorBits, Zenon
  <2> QED BY <2>3, <2>4, Zenon
<1> QED BY <1>2, <1>3, SameBits

(* (x ^ y) ^ z = x ^ (y ^ z) *)
LEMMA XorAssociates ==
  ASSUME NEW x \in Words, NEW y \in Words, NEW z \in Words
  PROVE  Xor(Xor(x, y), z) = Xor(x, Xor(y, z))
<1>1. x \in Nat /\ y \in Nat /\ z \in Nat
  BY WordIsNat
<1>2. PICK v, w : v = Xor(x, y) /\ w = Xor(y, z)
  OBVIOUS
<1>3. v \in Nat /\ w \in Nat
  BY <1>1, <1>2, XorType, WordIsNat
<1>4. Xor(v, z) \in Words /\ Xor(x, w) \in Words
  BY <1>1, <1>3, XorType
<1>5. ASSUME NEW n \in 1..WordBits PROVE Lead(Xor(v, z), n) % 2 = Lead(Xor(x, w), n) % 2
  <2>1. n \in 0..WordBits
    OBVIOUS
  <2>2. PICK p, q, r, s, t : p = Lead(x, n) /\ q = Lead(y, n) /\ r = Lead(z, n) /\ s = Lead(v, n) /\ t = Lead(w, n)
    OBVIOUS
  <2>3. p \in Nat /\ q \in Nat /\ r \in Nat /\ s \in Nat /\ t \in Nat
    BY <1>1, <1>3, <2>1, <2>2, LeadIn
  <2>4. s % 2 = (p + q) % 2 /\ t % 2 = (q + r) % 2
    BY <1>1, <1>2, <2>2, XorBits, Zenon
  <2>5. Lead(Xor(v, z), n) % 2 = (s + r) % 2 /\ Lead(Xor(x, w), n) % 2 = (p + t) % 2
    BY <1>1, <1>3, <2>2, XorBits, Zenon
  <2>6. (s + r) % 2 = (p + t) % 2
    BY <2>3, <2>4
  <2> QED BY <2>5, <2>6, Zenon
<1>6. Xor(v, z) = Xor(x, w)
  BY <1>4, <1>5, SameBits
<1> QED BY <1>2, <1>6

(* 0 ^ y = y *)
LEMMA XorOfZero ==
  ASSUME NEW y \in Words
  PROVE  Xor(0, y) = y
<1>1. 0 \in Nat /\ y \in Nat
  BY WordIsNat
<1>2. Xor(0, y) \in Words
  BY <1>1, XorType
<1>3. ASSUME NEW n \in 1..WordBits PROVE Lead(Xor(0, y), n) % 2 = Lead(y, n) % 2
  <2>1. n \in 0..WordBits
    OBVIOUS
  <2>2. PICK q : q = Lead(y, n)
    OBVIOUS
  <2>3. q \in Nat /\ Lead(0, n) = 0 /\ 0 + q = q
    <3>1. q \in Nat /\ Lead(0, n) = 0
      BY <1>1, <2>1, <2>2, LeadIn, LeadOfZero
    <3> QED BY <3>1
  <2>4. Lead(Xor(0, y), n) % 2 = (Lead(0, n) + q) % 2
    BY <1>1, <2>2, XorBits, Zenon
  <2> QED BY <2>2, <2>3, <2>4, Zenon
<1> QED BY <1>2, <1>3, SameBits

-----------------------------------------------------------------------------
(* Words XORed one after the other.                                        *)
AreWords(f, n) == \A i \in 0..n - 1 : f[i] \in Words

IsXorOf(s, f, n) ==
  AreWords(f, n) /\ s \in [0..n -> Words] /\ s[0] = 0 /\ \A i \in 0..n - 1 : s[i + 1] = Xor(s[i], f[i])

(* 0 is a word of any width. *)
LEMMA ZeroIsWord == 0 \in Words
<1>1. TwoTo[WordBits] \in Nat \ {0}
  BY TwoToIs, WordAssumption
<1> QED BY <1>1 DEF Words

(* Words come to a word. *)
LEMMA XorOfWords ==
  ASSUME NEW x \in Words, NEW y \in Words
  PROVE  Xor(x, y) \in Words
<1>1. x \in Nat /\ y \in Nat
  BY WordIsNat
<1> QED BY <1>1, XorType

(* What comes of n words is the last of the prefixes. *)
LEMMA XorOfHasPrefixes ==
  ASSUME NEW n \in Nat, NEW f, AreWords(f, n)
  PROVE  \E s : IsXorOf(s, f, n) /\ XorOf(f, n) = s[n]
<1> DEFINE F == [i \in 1..n |-> [s \in Words |-> Xor(s, f[i - 1])]]
<1>1. Steps(F, n, Words)
  <2>1. ASSUME NEW i \in 1..n, NEW s \in Words PROVE Xor(s, f[i - 1]) \in Words
    <3>1. f[i - 1] \in Words
      BY DEF AreWords
    <3> QED BY <3>1, XorOfWords
  <2> QED BY <2>1 DEF Steps
<1>2. PICK g \in [0..n -> Words] : g[0] = 0 /\ Follows(g, F, n)
  <2> HIDE DEF F
  <2> QED BY <1>1, ZeroIsWord, Recursion
<1>3. ASSUME NEW i \in 0..n PROVE g[i] = IF i = 0 THEN 0 ELSE Xor(g[i - 1], f[i - 1])
  <2>1. i # 0 => i \in 1..n /\ i - 1 \in 0..n
    OBVIOUS
  <2> QED BY <1>2, <2>1 DEF Follows
<1> DEFINE IsIt(h) == h = [i \in 0..n |-> IF i = 0 THEN 0 ELSE Xor(h[i - 1], f[i - 1])]
<1>4. IsIt(g)
  <2>1. g = [i \in 0..n |-> g[i]]
    OBVIOUS
  <2> QED BY <1>3, <2>1, Zenon
<1>5. PICK s : s = (CHOOSE h : IsIt(h)) /\ XorOf(f, n) = s[n]
  BY Zenon DEF XorOf
<1>6. IsIt(s)
  BY <1>4, <1>5, Zenon
<1>7. \A i \in 0..n : s[i] = IF i = 0 THEN 0 ELSE Xor(s[i - 1], f[i - 1])
  BY <1>6
<1>8. ASSUME NEW i \in 0..n - 1 PROVE s[i + 1] = Xor(s[i], f[i])
  <2>1. i + 1 \in 0..n /\ i + 1 # 0 /\ i + 1 - 1 = i
    OBVIOUS
  <2> QED BY <1>7, <2>1
<1>9. s[0] = 0
  BY <1>7
<1> DEFINE T == {i \in 0..n : s[i] \in Words}
<1>10. 0 \in T
  BY <1>9, ZeroIsWord
<1>11. ASSUME NEW i \in 0..n - 1, i \in T PROVE i + 1 \in T
  <2>1. s[i] \in Words /\ f[i] \in Words /\ i + 1 \in 0..n
    BY <1>11 DEF AreWords
  <2>2. Xor(s[i], f[i]) \in Words
    BY <2>1, XorOfWords
  <2> QED BY <1>8, <2>1, <2>2
<1> HIDE DEF T
<1>12. \A i \in 0..n : i \in T
  BY <1>10, <1>11, InductionTo
<1>13. \A i \in 0..n : s[i] \in Words
  BY <1>12 DEF T
<1>14. s = [i \in 0..n |-> s[i]]
  BY <1>6
<1>15. s \in [0..n -> Words]
  BY <1>13, <1>14
<1> QED BY <1>5, <1>8, <1>9, <1>15 DEF IsXorOf

(* Any sequence of prefixes ends in it. *)
LEMMA XorOfIs ==
  ASSUME NEW n \in Nat, NEW f, NEW s, IsXorOf(s, f, n)
  PROVE  XorOf(f, n) = s[n]
<1>1. PICK t : IsXorOf(t, f, n) /\ XorOf(f, n) = t[n]
  <2>1. AreWords(f, n)
    BY DEF IsXorOf
  <2> QED BY <2>1, XorOfHasPrefixes
<1> DEFINE T == {i \in 0..n : s[i] = t[i]}
<1>2. 0 \in T
  BY <1>1 DEF IsXorOf
<1>3. ASSUME NEW i \in 0..n - 1, i \in T PROVE i + 1 \in T
  <2>1. s[i + 1] = Xor(s[i], f[i]) /\ t[i + 1] = Xor(t[i], f[i]) /\ i + 1 \in 0..n
    BY <1>1 DEF IsXorOf
  <2> QED BY <1>3, <2>1
<1> HIDE DEF T
<1>4. n \in T
  BY <1>2, <1>3, InductionTo
<1> QED BY <1>1, <1>4 DEF T

(* It is a word. *)
LEMMA XorOfType ==
  ASSUME NEW n \in Nat, NEW f, AreWords(f, n)
  PROVE  XorOf(f, n) \in Words
<1>1. PICK s : IsXorOf(s, f, n) /\ XorOf(f, n) = s[n]
  BY XorOfHasPrefixes
<1>2. n \in 0..n
  OBVIOUS
<1> QED BY <1>1, <1>2 DEF IsXorOf

(* The same words come to the same. *)
LEMMA XorOfSame ==
  ASSUME NEW n \in Nat, NEW f, NEW g, AreWords(f, n), \A i \in 0..n - 1 : g[i] = f[i]
  PROVE  XorOf(g, n) = XorOf(f, n)
<1>1. PICK s : IsXorOf(s, f, n) /\ XorOf(f, n) = s[n]
  BY XorOfHasPrefixes
<1>2. IsXorOf(s, g, n)
  BY <1>1 DEF IsXorOf, AreWords
<1> QED BY <1>1, <1>2, XorOfIs

(* Zeros come to 0. *)
LEMMA XorOfZeros ==
  ASSUME NEW n \in Nat, NEW f, \A i \in 0..n - 1 : f[i] = 0
  PROVE  XorOf(f, n) = 0
<1> DEFINE s == [i \in 0..n |-> 0]
<1>1. Xor(0, 0) = 0
  BY ZeroIsWord, XorOfZero
<1>2. IsXorOf(s, f, n)
  <2>1. \A i \in 0..n - 1 : i + 1 \in 0..n /\ i \in 0..n
    OBVIOUS
  <2>2. s \in [0..n -> Words] /\ s[0] = 0
    BY ZeroIsWord
  <2> QED BY <1>1, <2>1, <2>2, ZeroIsWord DEF IsXorOf, AreWords
<1>3. XorOf(f, n) = s[n]
  <2> HIDE DEF s
  <2> QED BY <1>2, XorOfIs
<1> QED BY <1>3

(* One more word is XORed to what there is. *)
LEMMA XorOfNext ==
  ASSUME NEW n \in Nat, NEW m \in 0..n - 1, NEW f, AreWords(f, n)
  PROVE  XorOf(f, m + 1) = Xor(XorOf(f, m), f[m])
<1>1. AreWords(f, m + 1) /\ m \in Nat /\ m + 1 \in Nat /\ m \in 0..m + 1 - 1
  BY DEF AreWords
<1>2. PICK s : IsXorOf(s, f, m + 1) /\ XorOf(f, m + 1) = s[m + 1]
  BY <1>1, XorOfHasPrefixes
<1>3. IsXorOf([i \in 0..m |-> s[i]], f, m)
  BY <1>1, <1>2 DEF IsXorOf, AreWords
<1>4. XorOf(f, m) = [i \in 0..m |-> s[i]][m]
  BY <1>1, <1>3, XorOfIs
<1>5. s[m + 1] = Xor(s[m], f[m])
  BY <1>1, <1>2 DEF IsXorOf
<1> QED BY <1>1, <1>2, <1>4, <1>5

(* (p ^ q) ^ (r ^ s) = (p ^ r) ^ (q ^ s) *)
LEMMA XorCrosswise ==
  ASSUME NEW p \in Words, NEW q \in Words, NEW r \in Words, NEW s \in Words
  PROVE  Xor(Xor(p, q), Xor(r, s)) = Xor(Xor(p, r), Xor(q, s))
<1>1. PICK rs, qs, qr, qrs : rs = Xor(r, s) /\ qs = Xor(q, s) /\ qr = Xor(q, r) /\ qrs = Xor(qr, s)
  OBVIOUS
<1>2. rs \in Words /\ qs \in Words /\ qr \in Words
  BY <1>1, XorOfWords
<1>3. Xor(Xor(p, q), rs) = Xor(p, Xor(q, rs)) /\ Xor(Xor(p, r), qs) = Xor(p, Xor(r, qs))
  <2>1. Xor(Xor(p, q), rs) = Xor(p, Xor(q, rs))
    BY <1>2, XorAssociates
  <2>2. Xor(Xor(p, r), qs) = Xor(p, Xor(r, qs))
    BY <1>2, XorAssociates
  <2> QED BY <2>1, <2>2
<1>4. Xor(Xor(q, r), s) = Xor(q, Xor(r, s))
  BY XorAssociates
<1>5. Xor(Xor(r, q), s) = Xor(r, Xor(q, s))
  BY XorAssociates
<1>6. Xor(q, r) = Xor(r, q)
  BY XorCommutes
<1> QED BY <1>1, <1>3, <1>4, <1>5, <1>6, Zenon

(* Word by word. *)
LEMMA XorOfEach ==
  ASSUME NEW n \in Nat, NEW f, NEW g, NEW h, AreWords(f, n), AreWords(g, n),
         \A i \in 0..n - 1 : h[i] = Xor(f[i], g[i])
  PROVE  XorOf(h, n) = Xor(XorOf(f, n), XorOf(g, n))
<1>1. PICK s : IsXorOf(s, f, n) /\ XorOf(f, n) = s[n]
  BY XorOfHasPrefixes
<1>2. PICK t : IsXorOf(t, g, n) /\ XorOf(g, n) = t[n]
  BY XorOfHasPrefixes
<1> DEFINE u == [i \in 0..n |-> Xor(s[i], t[i])]
<1>3. ASSUME NEW i \in 0..n PROVE s[i] \in Words /\ t[i] \in Words
  BY <1>1, <1>2 DEF IsXorOf
<1>4. IsXorOf(u, h, n)
  <2>1. AreWords(h, n)
    <3>1. ASSUME NEW i \in 0..n - 1 PROVE h[i] \in Words
      <4>1. f[i] \in Words /\ g[i] \in Words
        BY DEF AreWords
      <4> QED BY <4>1, XorOfWords
    <3> QED BY <3>1 DEF AreWords
  <2>2. u \in [0..n -> Words]
    <3>1. ASSUME NEW i \in 0..n PROVE Xor(s[i], t[i]) \in Words
      BY <1>3, XorOfWords
    <3> QED BY <3>1
  <2>3. u[0] = 0
    <3>1. Xor(0, 0) = 0
      BY ZeroIsWord, XorOfZero
    <3>2. u[0] = Xor(s[0], t[0])
      OBVIOUS
    <3> QED BY <1>1, <1>2, <3>1, <3>2, Zenon DEF IsXorOf
  <2>4. ASSUME NEW i \in 0..n - 1 PROVE u[i + 1] = Xor(u[i], h[i])
    <3>1. i \in 0..n /\ i + 1 \in 0..n
      OBVIOUS
    <3>2. s[i + 1] = Xor(s[i], f[i]) /\ t[i + 1] = Xor(t[i], g[i])
      BY <1>1, <1>2 DEF IsXorOf
    <3>3. f[i] \in Words /\ g[i] \in Words /\ s[i] \in Words /\ t[i] \in Words
      BY <1>3, <3>1 DEF AreWords
    <3>4. Xor(Xor(s[i], f[i]), Xor(t[i], g[i])) = Xor(Xor(s[i], t[i]), Xor(f[i], g[i]))
      BY <3>3, XorCrosswise
    <3>5. u[i + 1] = Xor(s[i + 1], t[i + 1]) /\ u[i] = Xor(s[i], t[i])
      BY <3>1
    <3> QED BY <3>2, <3>4, <3>5, Zenon
  <2> HIDE DEF u
  <2> QED BY <2>1, <2>2, <2>3, <2>4 DEF IsXorOf
<1>5. XorOf(h, n) = u[n]
  <2> HIDE DEF u
  <2> QED BY <1>4, XorOfIs
<1> QED BY <1>1, <1>2, <1>5

(* In two parts. *)
LEMMA XorOfSplit ==
  ASSUME NEW n \in Nat, NEW m \in 0..n, NEW f, NEW g, AreWords(f, n), \A i \in 0..n - m - 1 : g[i] = f[m + i]
  PROVE  XorOf(f, n) = Xor(XorOf(f, m), XorOf(g, n - m))
<1>1. m \in Nat /\ n - m \in Nat /\ AreWords(f, m)
  BY DEF AreWords
<1>2. AreWords(g, n - m)
  <2>1. ASSUME NEW i \in 0..n - m - 1 PROVE g[i] \in Words
    <3>1. m + i \in 0..n - 1
      OBVIOUS
    <3> QED BY <3>1 DEF AreWords
  <2> QED BY <2>1 DEF AreWords
<1>3. PICK s : IsXorOf(s, f, m) /\ XorOf(f, m) = s[m]
  BY <1>1, XorOfHasPrefixes
<1>4. PICK t : IsXorOf(t, g, n - m) /\ XorOf(g, n - m) = t[n - m]
  BY <1>1, <1>2, XorOfHasPrefixes
<1>5. s[m] \in Words /\ s[0] = 0 /\ t[0] = 0 /\ \A i \in 0..n - m : t[i] \in Words
  BY <1>1, <1>3, <1>4 DEF IsXorOf
<1> DEFINE u == [i \in 0..n |-> IF i <= m THEN s[i] ELSE Xor(s[m], t[i - m])]
<1>6. IsXorOf(u, f, n)
  <2>1. u \in [0..n -> Words]
    <3>1. ASSUME NEW i \in 0..n PROVE (IF i <= m THEN s[i] ELSE Xor(s[m], t[i - m])) \in Words
      <4>1. CASE i <= m
        <5>1. i \in 0..m
          BY <4>1
        <5>2. s[i] \in Words
          BY <1>3, <5>1 DEF IsXorOf
        <5> QED BY <4>1, <5>2
      <4>2. CASE ~(i <= m)
        <5>1. i - m \in 0..n - m
          BY <4>2
        <5>2. Xor(s[m], t[i - m]) \in Words
          BY <1>5, <5>1, XorOfWords
        <5> QED BY <4>2, <5>2
      <4> QED BY <4>1, <4>2
    <3> QED BY <3>1
  <2>2. u[0] = 0
    BY <1>5
  <2>3. ASSUME NEW i \in 0..n - 1 PROVE u[i + 1] = Xor(u[i], f[i])
    <3>1. i \in 0..n /\ i + 1 \in 0..n
      OBVIOUS
    <3>2. CASE i < m
      <4>1. i \in 0..m - 1 /\ i <= m /\ i + 1 <= m
        BY <3>2
      <4>2. s[i + 1] = Xor(s[i], f[i])
        BY <1>3, <4>1 DEF IsXorOf
      <4> QED BY <3>1, <4>1, <4>2
    <3>3. CASE i = m
      <4>1. m + 0 = i /\ 0 \in 0..n - m - 1 /\ i + 1 - m = 0 + 1 /\ ~(i + 1 <= m) /\ i <= m
        BY <3>3
      <4>2. g[0] = f[i]
        BY <4>1
      <4>3. t[0 + 1] = Xor(t[0], g[0])
        BY <1>4, <4>1 DEF IsXorOf
      <4>4. g[0] \in Words
        BY <1>2, <4>1 DEF AreWords
      <4>5. Xor(0, g[0]) = g[0]
        BY <4>4, XorOfZero
      <4>6. u[i + 1] = Xor(s[m], t[i + 1 - m]) /\ u[i] = s[m]
        BY <3>1, <3>3, <4>1
      <4> QED BY <1>5, <4>1, <4>2, <4>3, <4>5, <4>6
    <3>4. CASE i > m
      <4>1. PICK j \in 0..n - m - 1 : j = i - m
        BY <3>4
      <4>2. m + j = i /\ i + 1 - m = j + 1 /\ ~(i + 1 <= m) /\ ~(i <= m) /\ j \in 0..n - m
        BY <3>4, <4>1
      <4>3. t[j + 1] = Xor(t[j], g[j])
        BY <1>4, <4>1 DEF IsXorOf
      <4>4. g[j] \in Words /\ t[j] \in Words /\ g[j] = f[i]
        BY <1>2, <1>5, <4>1, <4>2 DEF AreWords
      <4>5. Xor(Xor(s[m], t[j]), g[j]) = Xor(s[m], Xor(t[j], g[j]))
        BY <1>5, <4>4, XorAssociates
      <4>6. u[i + 1] = Xor(s[m], t[i + 1 - m]) /\ u[i] = Xor(s[m], t[i - m])
        BY <3>1, <4>2
      <4> QED BY <4>1, <4>2, <4>3, <4>4, <4>5, <4>6
    <3> QED BY <3>2, <3>3, <3>4
  <2> HIDE DEF u
  <2> QED BY <2>1, <2>2, <2>3 DEF IsXorOf
<1>7. XorOf(f, n) = u[n]
  <2> HIDE DEF u
  <2> QED BY <1>6, XorOfIs
<1>8. u[n] = Xor(s[m], t[n - m])
  <2>1. CASE m = n
    <3>1. n - m = 0 /\ u[n] = s[m]
      BY <2>1
    <3>2. Xor(0, s[m]) = s[m] /\ Xor(0, s[m]) = Xor(s[m], 0)
      <4>1. Xor(0, s[m]) = s[m]
        BY <1>5, XorOfZero
      <4>2. Xor(0, s[m]) = Xor(s[m], 0)
        BY <1>5, ZeroIsWord, XorCommutes
      <4> QED BY <4>1, <4>2
    <3> QED BY <1>5, <3>1, <3>2
  <2>2. CASE m # n
    BY <2>2
  <2> QED BY <2>1, <2>2
<1> QED BY <1>3, <1>4, <1>7, <1>8

-----------------------------------------------------------------------------
(* Where group q begins, of groups of d. *)
LEMMA GroupWithin ==
  ASSUME NEW d \in Nat, NEW n \in Nat, NEW i \in 0..n - 1
  PROVE  i * d \in Nat /\ (i + 1) * d = i * d + d /\ i * d + d <= n * d /\ n * d \in Nat
<1>1. PICK j \in Nat : n = i + 1 + j
  <2>1. n - i - 1 \in Nat /\ n = i + 1 + (n - i - 1)
    OBVIOUS
  <2> QED BY <2>1
<1>2. n * d = i * d + d + j * d /\ i * d \in Nat /\ j * d \in Nat /\ (i + 1) * d = i * d + d
  BY <1>1
<1> QED BY <1>2

(* The words that stand lane by lane, XORed lane by lane.                  *)
LEMMA XorOfLanes ==
  ASSUME NEW lanes \in Nat, NEW n \in Nat, NEW f, AreWords(f, n * lanes)
  PROVE  XorOf([j \in 0..lanes - 1 |-> XorOf([i \in 0..n - 1 |-> f[i * lanes + j]], n)], lanes)
           = XorOf(f, n * lanes)
<1> DEFINE lane(j) == [i \in 0..n - 1 |-> f[i * lanes + j]]
           upTo(m) == [j \in 0..lanes - 1 |-> XorOf(lane(j), m)]
           T == {m \in 0..n : XorOf(upTo(m), lanes) = XorOf(f, m * lanes)}
<1>1. ASSUME NEW j \in 0..lanes - 1 PROVE AreWords(lane(j), n)
  <2>1. ASSUME NEW i \in 0..n - 1 PROVE f[i * lanes + j] \in Words
    <3>1. PICK b, N : b = i * lanes /\ N = n * lanes
      OBVIOUS
    <3>2. b \in Nat /\ b + lanes <= N /\ N \in Nat
      BY <3>1, GroupWithin
    <3>3. b + j \in 0..N - 1
      BY <3>2
    <3> QED BY <3>1, <3>3 DEF AreWords
  <2> QED BY <2>1 DEF AreWords
<1>2. ASSUME NEW m \in 0..n PROVE AreWords(upTo(m), lanes)
  <2>1. ASSUME NEW j \in 0..lanes - 1 PROVE XorOf(lane(j), m) \in Words
    <3>1. AreWords(lane(j), m) /\ m \in Nat
      <4> HIDE DEF lane
      <4> QED BY <1>1 DEF AreWords
    <3> HIDE DEF lane
    <3> QED BY <3>1, XorOfType
  <2> HIDE DEF lane
  <2> QED BY <2>1 DEF AreWords
<1> HIDE DEF lane
<1>3. 0 \in T
  <2>1. ASSUME NEW g PROVE XorOf(g, 0) = 0
    <3>1. \A i \in 0..0 - 1 : g[i] = 0
      OBVIOUS
    <3> QED BY <3>1, XorOfZeros
  <2>2. \A j \in 0..lanes - 1 : upTo(0)[j] = 0
    BY <2>1
  <2>3. XorOf(upTo(0), lanes) = 0
    <3> HIDE DEF upTo
    <3> QED BY <2>2, XorOfZeros
  <2>4. 0 * lanes = 0
    OBVIOUS
  <2> HIDE DEF upTo
  <2> QED BY <2>1, <2>3, <2>4
<1>4. ASSUME NEW m \in 0..n - 1, m \in T PROVE m + 1 \in T
  <2>1. PICK b, N : b = m * lanes /\ N = n * lanes
    OBVIOUS
  <2>2. b \in Nat /\ b + lanes <= N /\ N \in Nat /\ (m + 1) * lanes = b + lanes
    BY <2>1, GroupWithin
  <2>3. m \in 0..n /\ m + 1 \in 0..n
    OBVIOUS
  <2> DEFINE row == [j \in 0..lanes - 1 |-> f[b + j]]
  <2>4. AreWords(row, lanes)
    <3>1. ASSUME NEW j \in 0..lanes - 1 PROVE f[b + j] \in Words
      <4>1. b + j \in 0..N - 1
        BY <2>2
      <4> QED BY <2>1, <4>1 DEF AreWords
    <3> QED BY <3>1 DEF AreWords
  <2>5. ASSUME NEW j \in 0..lanes - 1 PROVE upTo(m + 1)[j] = Xor(upTo(m)[j], row[j])
    <3>1. XorOf(lane(j), m + 1) = Xor(XorOf(lane(j), m), lane(j)[m])
      BY <1>1, XorOfNext
    <3>2. lane(j)[m] = row[j]
      BY <2>1 DEF lane
    <3>3. upTo(m + 1)[j] = XorOf(lane(j), m + 1) /\ upTo(m)[j] = XorOf(lane(j), m)
      OBVIOUS
    <3> QED BY <3>1, <3>2, <3>3
  <2>6. XorOf(upTo(m + 1), lanes) = Xor(XorOf(upTo(m), lanes), XorOf(row, lanes))
    <3>1. AreWords(upTo(m), lanes)
      BY <1>2, <2>3
    <3> HIDE DEF upTo, row
    <3> QED BY <2>4, <2>5, <3>1, XorOfEach
  <2>7. XorOf(f, b + lanes) = Xor(XorOf(f, b), XorOf(row, lanes))
    <3>1. b \in 0..b + lanes /\ b + lanes \in Nat /\ b + lanes - b = lanes
      BY <2>2
    <3>2. AreWords(f, b + lanes)
      BY <2>1, <2>2 DEF AreWords
    <3>3. \A i \in 0..b + lanes - b - 1 : row[i] = f[b + i]
      BY <3>1
    <3>4. XorOf(f, b + lanes) = Xor(XorOf(f, b), XorOf(row, b + lanes - b))
      <4> HIDE DEF row
      <4> QED BY <3>1, <3>2, <3>3, XorOfSplit
    <3> QED BY <3>1, <3>4
  <2> HIDE DEF upTo, row
  <2>8. XorOf(upTo(m), lanes) = XorOf(f, b)
    BY <1>4, <2>1
  <2> QED BY <2>2, <2>3, <2>6, <2>7, <2>8
<1> HIDE DEF T
<1>5. n \in T
  BY <1>3, <1>4, InductionTo
<1>6. XorOf(upTo(n), lanes) = XorOf(f, n * lanes)
  BY <1>5 DEF T
<1> QED BY <1>6, Zenon DEF lane

(* A number of whole vectors.                                              *)
Whole(n, lanes) == n % lanes = 0

(* Any number is one of vectors of one lane. *)
LEMMA WholeOnes == ASSUME NEW n \in Nat PROVE Whole(n, 1)
BY DEF Whole

(* Vectors by lanes is the number. *)
LEMMA WholeTimes ==
  ASSUME NEW lanes \in Nat \ {0}, NEW n \in Nat, Whole(n, lanes)
  PROVE  n \div lanes \in Nat /\ n = (n \div lanes) * lanes
<1>1. PICK q, s : q = n \div lanes /\ s = n % lanes
  OBVIOUS
<1>2. s = 0
  BY <1>1, Zenon DEF Whole
<1>3. n = lanes * q + s
  BY <1>1, Recombine, Zenon
<1>4. q \in Nat
  BY <1>1, QuotientIn
<1>5. n = q * lanes
  BY <1>2, <1>3, <1>4
<1> QED BY <1>1, <1>4, <1>5

(* With any number of lanes, the cells are XORed with each other.          *)
LEMMA XorReduceIs ==
  ASSUME NEW lanes \in Nat \ {0}, NEW n \in Nat, Whole(n, lanes), NEW cells, AreWords(cells, n)
  PROVE  XorReduce(lanes, cells, n) = XorOf(cells, n)
<1>1. PICK q : q = n \div lanes
  OBVIOUS
<1>2. q \in Nat /\ n = q * lanes
  BY <1>1, WholeTimes
<1>3. XorReduce(lanes, cells, n)
        = XorOf([j \in 0..lanes - 1 |-> XorOf([i \in 0..q - 1 |-> cells[i * lanes + j]], q)], lanes)
  BY <1>1, Zenon DEF XorReduce
<1>4. XorOf([j \in 0..lanes - 1 |-> XorOf([i \in 0..q - 1 |-> cells[i * lanes + j]], q)], lanes)
        = XorOf(cells, q * lanes)
  <2>1. AreWords(cells, q * lanes)
    BY <1>2
  <2> QED BY <1>2, <2>1, XorOfLanes
<1> QED BY <1>2, <1>3, <1>4

-----------------------------------------------------------------------------
(* Words.                                                                  *)
LEMMA WordType ==
  ASSUME NEW x \in Int
  PROVE  Word(x) \in Words
<1>1. PICK t : t = TwoTo[WordBits]
  OBVIOUS
<1>2. t \in Nat \ {0}
  BY <1>1, TwoToIs, WordAssumption
<1>3. x % t \in 0..t - 1
  BY <1>2
<1> QED BY <1>1, <1>3 DEF Word, Words

(* Of numbers, negative ones too. *)
LEMMA RemainderIs ==
  ASSUME NEW t \in Nat \ {0}, NEW q \in Int, NEW r \in 0..t - 1, NEW x, x = t * q + r
  PROVE  x % t = r
<1>1. x \in Int
  <2>1. t * q \in Int
    OBVIOUS
  <2> QED BY <2>1
<1>2. PICK d, s : d = x \div t /\ s = x % t
  OBVIOUS
<1>3. d \in Int /\ s \in 0..t - 1 /\ x = t * d + s
  BY <1>1, <1>2
<1>4. PICK e \in Int : e = q - d
  BY <1>3
<1>5. t * e = t * q - t * d
  BY <1>3, <1>4
<1>6. t * e = s - r
  <2>1. t * q \in Int /\ t * d \in Int
    BY <1>3
  <2> QED BY <1>3, <1>5, <2>1
<1>7. e = 0
  <2>1. (e >= 1 => t * e >= t) /\ (e <= -1 => t * e <= -t)
    OBVIOUS
  <2> QED BY <1>3, <1>6, <2>1
<1>8. t * e = 0
  BY <1>7
<1> QED BY <1>2, <1>3, <1>6, <1>8

(* It does not matter which of two terms is cut to a word first. *)
LEMMA WordOfSum ==
  ASSUME NEW x \in Int, NEW y \in Int
  PROVE  Word(x + Word(y)) = Word(x + y)
<1>1. PICK t : t = TwoTo[WordBits]
  OBVIOUS
<1>2. t \in Nat \ {0}
  BY <1>1, TwoToIs, WordAssumption
<1>3. PICK q, s : q = y \div t /\ s = y % t
  OBVIOUS
<1>4. q \in Int /\ s \in 0..t - 1 /\ y = t * q + s
  BY <1>2, <1>3
<1>5. PICK z : z = x + s
  OBVIOUS
<1>6. z \in Int
  BY <1>4, <1>5
<1>7. PICK p, r : p = z \div t /\ r = z % t
  OBVIOUS
<1>8. p \in Int /\ r \in 0..t - 1 /\ z = t * p + r
  BY <1>2, <1>6, <1>7
<1>9. x + y = t * (p + q) + r
  <2>1. t * (p + q) = t * p + t * q /\ t * p \in Int /\ t * q \in Int
    BY <1>2, <1>4, <1>8
  <2> QED BY <1>4, <1>5, <1>8, <2>1
<1>10. (x + y) % t = r
  <2>1. PICK n, v : n = p + q /\ v = x + y
    OBVIOUS
  <2>2. n \in Int
    BY <1>4, <1>8, <2>1
  <2>3. v = t * n + r
    BY <1>9, <2>1, Zenon
  <2>4. v % t = r
    BY <1>2, <1>8, <2>2, <2>3, RemainderIs, Zenon
  <2> QED BY <2>1, <2>4, Zenon
<1>11. Word(y) = s /\ Word(x + s) = r /\ Word(x + y) = r
  BY <1>1, <1>3, <1>5, <1>7, <1>10, Zenon DEF Word
<1> QED BY <1>11

(* A word cut to a word is itself. *)
LEMMA WordTwice ==
  ASSUME NEW y \in Int
  PROVE  Word(Word(y)) = Word(y)
<1>1. Word(0 + Word(y)) = Word(0 + y)
  BY WordOfSum
<1>2. 0 + y = y /\ Word(y) \in Int
  BY WordType, WordIsNat
<1>3. 0 + Word(y) = Word(y)
  BY <1>2
<1> QED BY <1>1, <1>2, <1>3

(* A rotated number is a number. *)
LEMMA RotateLeftType ==
  ASSUME NEW x \in Nat
  PROVE  RotateLeft(x) \in Nat
<1>1. LROT_PER_TILE \in Nat /\ WordBits - LROT_PER_TILE \in Nat
  BY WordAssumption
<1>2. PICK t, u : t = TwoTo[LROT_PER_TILE] /\ u = TwoTo[WordBits - LROT_PER_TILE]
  OBVIOUS
<1>3. t \in Nat \ {0} /\ u \in Nat \ {0}
  BY <1>1, <1>2, TwoToIs
<1>4. Word(x * t) \in Nat
  <2>1. x * t \in Int
    BY <1>3
  <2> QED BY <2>1, WordType, WordIsNat
<1>5. x \div u \in Nat
  BY <1>3, QuotientIn
<1>6. RotateLeft(x) = Word(x * t) + (x \div u)
  BY <1>2, Zenon DEF RotateLeft
<1> QED BY <1>4, <1>5, <1>6

-----------------------------------------------------------------------------
(* The walk along k does not depend on the number of lanes.                *)
Tiles(n) == [cells : [0..n - 1 -> Words], msg : [0..JACKPOT_SIZE - 1 -> Nat]]

Summed(sums, n) == \A c \in 0..n - 1 : sums[c] \in Int

(* A block leaves words in the cells. *)
LEMMA FoldedCells ==
  ASSUME NEW n \in Nat, NEW before \in Tiles(n), NEW sums, Summed(sums, n)
  PROVE  [c \in 0..n - 1 |-> Word(before.cells[c] + sums[c])] \in [0..n - 1 -> Words]
<1>1. ASSUME NEW c \in 0..n - 1 PROVE Word(before.cells[c] + sums[c]) \in Words
  <2>1. before.cells[c] \in Words /\ sums[c] \in Int
    BY DEF Tiles, Summed
  <2>2. before.cells[c] + sums[c] \in Int
    BY <2>1, WordIsNat
  <2> QED BY <2>2, WordType
<1> QED BY <1>1

(* A block makes a tile of a tile, whichever the number of lanes. *)
LEMMA FoldType ==
  ASSUME NEW lanes \in Nat \ {0}, NEW n \in Nat, Whole(n, lanes), NEW b \in Nat,
         NEW before \in Tiles(n), NEW sums, Summed(sums, n)
  PROVE  Fold(lanes, n, b, before, sums) \in Tiles(n) /\ Fold(lanes, n, b, before, sums) = Fold(1, n, b, before, sums)
<1> DEFINE cells == [c \in 0..n - 1 |-> Word(before.cells[c] + sums[c])]
           msg(l) == [before.msg EXCEPT ![b % JACKPOT_SIZE] = Xor(RotateLeft(@), XorReduce(l, cells, n))]
<1>1. cells \in [0..n - 1 -> Words]
  BY FoldedCells
<1>2. Fold(lanes, n, b, before, sums) = [cells |-> cells, msg |-> msg(lanes)]
  BY Zenon DEF Fold
<1>3. Fold(1, n, b, before, sums) = [cells |-> cells, msg |-> msg(1)]
  BY Zenon DEF Fold
<1> HIDE DEF cells
<1>4. AreWords(cells, n)
  BY <1>1 DEF AreWords
<1>5. XorReduce(lanes, cells, n) = XorOf(cells, n)
  BY <1>4, XorReduceIs
<1>6. XorReduce(1, cells, n) = XorOf(cells, n)
  <2>1. 1 \in Nat \ {0} /\ Whole(n, 1)
    BY WholeOnes
  <2> QED BY <1>4, <2>1, XorReduceIs
<1>7. msg(lanes) = msg(1)
  BY <1>5, <1>6
<1>8. msg(lanes) \in [0..JACKPOT_SIZE - 1 -> Nat]
  <2>1. before.msg \in [0..JACKPOT_SIZE - 1 -> Nat]
    BY DEF Tiles
  <2>2. PICK i : i = b % JACKPOT_SIZE
    OBVIOUS
  <2>3. i \in 0..JACKPOT_SIZE - 1
    BY <2>2, RemainderIn, WordAssumption
  <2>4. PICK w : w = Xor(RotateLeft(before.msg[i]), XorReduce(lanes, cells, n))
    OBVIOUS
  <2>5. w \in Nat
    <3>1. before.msg[i] \in Nat
      BY <2>1, <2>3
    <3>2. RotateLeft(before.msg[i]) \in Nat
      BY <3>1, RotateLeftType
    <3>3. XorReduce(lanes, cells, n) \in Nat
      <4>1. XorOf(cells, n) \in Words
        BY <1>4, XorOfType
      <4> QED BY <1>5, <4>1, WordIsNat
    <3> QED BY <2>4, <3>2, <3>3, XorType, WordIsNat
  <2>6. msg(lanes) = [before.msg EXCEPT ![i] = w]
    BY <2>2, <2>4, Zenon
  <2> QED BY <2>1, <2>5, <2>6
<1>9. [cells |-> cells, msg |-> msg(lanes)] \in Tiles(n)
  <2> HIDE DEF msg
  <2> QED BY <1>1, <1>8 DEF Tiles
<1> QED BY <1>2, <1>3, <1>7, <1>9

(* The fold depends on the sums of the cells alone. *)
LEMMA FoldSame ==
  ASSUME NEW lanes, NEW n, NEW b, NEW before, NEW sums, NEW same, \A c \in 0..n - 1 : same[c] = sums[c]
  PROVE  Fold(lanes, n, b, before, same) = Fold(lanes, n, b, before, sums)
<1>1. [c \in 0..n - 1 |-> Word(before.cells[c] + same[c])] = [c \in 0..n - 1 |-> Word(before.cells[c] + sums[c])]
  OBVIOUS
<1> QED BY <1>1, Zenon DEF Fold

(* The tile of no block is one. *)
LEMMA BlankType ==
  ASSUME NEW n \in Nat
  PROVE  Blank(n) \in Tiles(n)
BY ZeroIsWord DEF Blank, Tiles

IsWalk(s, lanes, n, blocks, products) ==
  /\ s \in [0..blocks -> Tiles(n)] /\ s[0] = Blank(n)
  /\ \A b \in 0..blocks - 1 : s[b + 1] = Fold(lanes, n, b, s[b], products[b])

AllSummed(products, blocks, n) == \A b \in 0..blocks - 1 : Summed(products[b], n)

(* A walk is a fold for each block, from the blank tile. *)
LEMMA WalkIs ==
  ASSUME NEW lanes \in Nat \ {0}, NEW n \in Nat, Whole(n, lanes), NEW blocks \in Nat, NEW products,
         AllSummed(products, blocks, n)
  PROVE  \E s : IsWalk(s, lanes, n, blocks, products) /\ Walk(lanes, n, blocks, products) = s[blocks].msg
<1> DEFINE F == [b \in 1..blocks |-> [s \in Tiles(n) |-> Fold(lanes, n, b - 1, s, products[b - 1])]]
<1>1. Steps(F, blocks, Tiles(n))
  <2>1. ASSUME NEW b \in 1..blocks, NEW s \in Tiles(n)
        PROVE  Fold(lanes, n, b - 1, s, products[b - 1]) \in Tiles(n)
    <3>1. b - 1 \in Nat /\ b - 1 \in 0..blocks - 1
      OBVIOUS
    <3>2. Summed(products[b - 1], n)
      BY <3>1 DEF AllSummed
    <3> QED BY <3>1, <3>2, FoldType
  <2> QED BY <2>1 DEF Steps
<1>2. PICK g \in [0..blocks -> Tiles(n)] : g[0] = Blank(n) /\ Follows(g, F, blocks)
  <2> HIDE DEF F
  <2> QED BY <1>1, BlankType, Recursion
<1>3. ASSUME NEW b \in 0..blocks
      PROVE  g[b] = IF b = 0 THEN Blank(n) ELSE Fold(lanes, n, b - 1, g[b - 1], products[b - 1])
  <2>1. b # 0 => b \in 1..blocks /\ b - 1 \in 0..blocks
    OBVIOUS
  <2> QED BY <1>2, <2>1 DEF Follows
<1> DEFINE IsIt(h) == h = [b \in 0..blocks |->
                             IF b = 0 THEN Blank(n) ELSE Fold(lanes, n, b - 1, h[b - 1], products[b - 1])]
<1>4. IsIt(g)
  <2>1. g = [b \in 0..blocks |-> g[b]]
    OBVIOUS
  <2> QED BY <1>3, <2>1, Zenon
<1>5. PICK s : s = (CHOOSE h : IsIt(h)) /\ Walk(lanes, n, blocks, products) = s[blocks].msg
  BY Zenon DEF Walk
<1>6. IsIt(s)
  BY <1>4, <1>5, Zenon
<1>7. \A b \in 0..blocks : s[b] = IF b = 0 THEN Blank(n) ELSE Fold(lanes, n, b - 1, s[b - 1], products[b - 1])
  BY <1>6
<1>8. ASSUME NEW b \in 0..blocks - 1 PROVE s[b + 1] = Fold(lanes, n, b, s[b], products[b])
  <2>1. b + 1 \in 0..blocks /\ b + 1 # 0 /\ b + 1 - 1 = b
    OBVIOUS
  <2> QED BY <1>7, <2>1
<1>9. s[0] = Blank(n)
  BY <1>7
<1> DEFINE T == {b \in 0..blocks : s[b] \in Tiles(n)}
<1>10. 0 \in T
  BY <1>9, BlankType
<1>11. ASSUME NEW b \in 0..blocks - 1, b \in T PROVE b + 1 \in T
  <2>1. s[b] \in Tiles(n) /\ Summed(products[b], n) /\ b + 1 \in 0..blocks /\ b \in Nat
    BY <1>11 DEF AllSummed
  <2>2. Fold(lanes, n, b, s[b], products[b]) \in Tiles(n)
    BY <2>1, FoldType
  <2> QED BY <1>8, <2>1, <2>2
<1> HIDE DEF T
<1>12. \A b \in 0..blocks : b \in T
  BY <1>10, <1>11, InductionTo
<1>13. \A b \in 0..blocks : s[b] \in Tiles(n)
  BY <1>12 DEF T
<1>14. s = [b \in 0..blocks |-> s[b]]
  BY <1>6
<1>15. s \in [0..blocks -> Tiles(n)]
  BY <1>13, <1>14
<1> QED BY <1>5, <1>8, <1>9, <1>15 DEF IsWalk

(* With any number of lanes, the same products walk to the same words. *)
LEMMA WalkAnyLanes ==
  ASSUME NEW lanes \in Nat \ {0}, NEW n \in Nat, Whole(n, lanes), NEW blocks \in Nat, NEW products,
         AllSummed(products, blocks, n), NEW same, \A b \in 0..blocks - 1, c \in 0..n - 1 : same[b][c] = products[b][c]
  PROVE  Walk(lanes, n, blocks, same) = Walk(1, n, blocks, products)
<1>1. PICK s : IsWalk(s, lanes, n, blocks, same) /\ Walk(lanes, n, blocks, same) = s[blocks].msg
  <2>1. AllSummed(same, blocks, n)
    BY DEF AllSummed, Summed
  <2> QED BY <2>1, WalkIs
<1>2. PICK t : IsWalk(t, 1, n, blocks, products) /\ Walk(1, n, blocks, products) = t[blocks].msg
  <2>1. 1 \in Nat \ {0} /\ Whole(n, 1)
    BY WholeOnes
  <2> QED BY <2>1, WalkIs
<1> DEFINE T == {b \in 0..blocks : s[b] = t[b]}
<1>3. 0 \in T
  BY <1>1, <1>2 DEF IsWalk
<1>4. ASSUME NEW b \in 0..blocks - 1, b \in T PROVE b + 1 \in T
  <2>1. b \in Nat /\ b \in 0..blocks /\ b + 1 \in 0..blocks /\ Summed(products[b], n)
    BY DEF AllSummed
  <2>2. s[b] \in Tiles(n) /\ s[b + 1] = Fold(lanes, n, b, s[b], products[b])
    <3>1. s[b] \in Tiles(n) /\ s[b + 1] = Fold(lanes, n, b, s[b], same[b])
      BY <1>1, <2>1 DEF IsWalk
    <3>2. Fold(lanes, n, b, s[b], same[b]) = Fold(lanes, n, b, s[b], products[b])
      BY FoldSame
    <3> QED BY <3>1, <3>2
  <2>3. t[b + 1] = Fold(1, n, b, t[b], products[b])
    BY <1>2, <2>1 DEF IsWalk
  <2>4. Fold(lanes, n, b, s[b], products[b]) = Fold(1, n, b, s[b], products[b])
    BY <2>1, <2>2, FoldType
  <2>5. s[b] = t[b]
    BY <1>4
  <2> QED BY <2>1, <2>2, <2>3, <2>4, <2>5
<1> HIDE DEF T
<1>5. blocks \in T
  <2>1. \A b \in 0..blocks : b \in T
    BY <1>3, <1>4, InductionTo, Zenon
  <2> QED BY <2>1
<1> QED BY <1>1, <1>2, <1>5 DEF T

-----------------------------------------------------------------------------
(* What every variant computes: the jackpot of n cells, of which cell c    *)
(* takes row A[c] and column B[c].                                         *)
Terms(A, B, c, blk, r) == [l \in 0..r - 1 |-> A[c][blk * r + l] * B[c][blk * r + l]]

BlockProduct(A, B, c, blk, r) == Word(SumOf(Terms(A, B, c, blk, r), r))

JackpotOf(n, k, r, A, B) ==
  Walk(1, n, k \div r, [blk \in 0..(k \div r) - 1 |-> [c \in 0..n - 1 |-> BlockProduct(A, B, c, blk, r)]])

Rows(A, n, k) == \A c \in 0..n - 1, l \in 0..k - 1 : A[c][l] \in Int

(* A block lies within the k columns. *)
LEMMA InBlock ==
  ASSUME NEW k \in Nat, NEW r \in Nat \ {0}, NEW blk \in 0..(k \div r) - 1
  PROVE  blk * r \in Nat /\ blk * r + r <= k
<1>1. PICK q : q = k \div r
  OBVIOUS
<1>2. q \in Nat /\ q * r <= k
  <2>1. k \div r \in Nat /\ k % r \in 0..r - 1 /\ k = r * (k \div r) + (k % r)
    BY Division
  <2>2. q \in Nat /\ q * r \in Nat
    BY <1>1, <2>1
  <2>3. PICK s : s = k % r
    OBVIOUS
  <2>4. s \in Nat /\ k = q * r + s
    <3>1. k = r * q + s /\ s \in Nat
      <4>1. k = r * q + s
        BY <1>1, <2>3, Recombine, Zenon
      <4>2. s \in 0..r - 1
        BY <2>3, RemainderIn
      <4> QED BY <4>1, <4>2
    <3>2. r * q = q * r
      BY <2>2
    <3> QED BY <3>1, <3>2
  <2> QED BY <2>2, <2>4
<1>3. blk \in 0..q - 1 /\ r \in Nat
  BY <1>1
<1>4. blk * r \in Nat /\ blk * r + r <= q * r /\ q * r \in Nat
  BY <1>2, <1>3, GroupWithin
<1> QED BY <1>2, <1>4

(* The terms and the product of a block are integers. *)
LEMMA ProductInts ==
  ASSUME NEW n \in Nat, NEW k \in Nat, NEW r \in Nat \ {0}, NEW A, NEW B, Rows(A, n, k), Rows(B, n, k),
         NEW c \in 0..n - 1, NEW blk \in 0..(k \div r) - 1
  PROVE  Ints(Terms(A, B, c, blk, r), r) /\ BlockProduct(A, B, c, blk, r) \in Int
<1>1. ASSUME NEW l \in 0..r - 1 PROVE A[c][blk * r + l] * B[c][blk * r + l] \in Int
  <2>1. PICK o : o = blk * r
    OBVIOUS
  <2>2. o \in Nat /\ o + r <= k
    BY <2>1, InBlock
  <2>3. o + l \in 0..k - 1
    BY <2>2
  <2>4. A[c][o + l] \in Int /\ B[c][o + l] \in Int
    BY <2>3 DEF Rows
  <2> QED BY <2>1, <2>4
<1>2. Ints(Terms(A, B, c, blk, r), r)
  BY <1>1 DEF Ints, Terms
<1>3. SumOf(Terms(A, B, c, blk, r), r) \in Int
  BY <1>2, SumType
<1>4. BlockProduct(A, B, c, blk, r) \in Words
  BY <1>3, WordType DEF BlockProduct
<1> QED BY <1>2, <1>4, WordIsNat

(* Whatever makes these products, in any number of lanes.                  *)
AreProducts(products, n, k, r, A, B) ==
  \A blk \in 0..(k \div r) - 1, c \in 0..n - 1 : products[blk][c] = BlockProduct(A, B, c, blk, r)

WalksTo(lanes, products, n, k, r, A, B) == Walk(lanes, n, k \div r, products) = JackpotOf(n, k, r, A, B)

(* Whoever has these products has the jackpot. *)
LEMMA JackpotOfProducts ==
  ASSUME NEW lanes \in Nat \ {0}, NEW n \in Nat, Whole(n, lanes), NEW k \in Nat, NEW r \in Nat \ {0},
         NEW A, NEW B, Rows(A, n, k), Rows(B, n, k), NEW products, AreProducts(products, n, k, r, A, B)
  PROVE  WalksTo(lanes, products, n, k, r, A, B)
<1>0. PICK q : q = k \div r
  OBVIOUS
<1>1. q \in Nat
  BY <1>0, QuotientIn
<1> DEFINE want == [blk \in 0..q - 1 |-> [c \in 0..n - 1 |-> BlockProduct(A, B, c, blk, r)]]
<1>2. \A blk \in 0..q - 1, c \in 0..n - 1 : products[blk][c] = want[blk][c]
  BY <1>0 DEF AreProducts
<1>4. AllSummed(want, q, n)
  <2>0. q = k \div r
    BY <1>0
  <2>1. ASSUME NEW blk \in 0..q - 1, NEW c \in 0..n - 1 PROVE BlockProduct(A, B, c, blk, r) \in Int
    <3>1. blk \in 0..(k \div r) - 1
      BY <2>0, Zenon
    <3> QED BY <3>1, ProductInts, Zenon
  <2> QED BY <2>1 DEF AllSummed, Summed
<1>5. Walk(lanes, n, q, products) = Walk(1, n, q, want)
  <2> HIDE DEF want
  <2> QED BY <1>1, <1>2, <1>4, WalkAnyLanes
<1> QED BY <1>0, <1>5, Zenon DEF JackpotOf, WalksTo

-----------------------------------------------------------------------------
(* Dot products.                                                           *)
AreInts(a, from, n) == \A l \in 0..n - 1 : a[from + l] \in Int

(* The bias of unsigned bytes comes off again.                             *)
LEMMA BiasOff ==
  ASSUME NEW n \in Nat, NEW x, NEW y, Ints(x, n), Ints(y, n), NEW biased, NEW plain,
         \A l \in 0..n - 1 : biased[l] = (x[l] + Half) * y[l] /\ plain[l] = x[l] * y[l]
  PROVE  SumOf(biased, n) - Half * SumOf(y, n) = SumOf(plain, n) /\ SumOf(biased, n) \in Int /\ SumOf(y, n) \in Int
<1> DEFINE off == [l \in 0..n - 1 |-> Half * y[l]]
<1>0. Half \in Int
  BY WordAssumption
<1>1. ASSUME NEW l \in 0..n - 1
      PROVE  plain[l] \in Int /\ off[l] \in Int /\ biased[l] = plain[l] + off[l] /\ off[l] = Half * y[l]
  <2>1. x[l] \in Int /\ y[l] \in Int
    BY DEF Ints
  <2>2. (x[l] + Half) * y[l] = x[l] * y[l] + Half * y[l]
    BY <1>0, <2>1
  <2> QED BY <1>0, <2>1, <2>2
<1> HIDE DEF off
<1>2. SumOf(biased, n) = SumOf(plain, n) + SumOf(off, n)
  <2>1. Ints(plain, n) /\ Ints(off, n)
    BY <1>1 DEF Ints
  <2> QED BY <1>1, <2>1, SumAdd
<1>3. SumOf(off, n) = Half * SumOf(y, n)
  BY <1>0, <1>1, SumScale
<1>4. SumOf(plain, n) \in Int /\ SumOf(y, n) \in Int
  <2>1. Ints(plain, n)
    BY <1>1 DEF Ints
  <2> QED BY <2>1, SumType
<1>5. PICK h : h = Half * SumOf(y, n)
  OBVIOUS
<1>6. h \in Int
  BY <1>0, <1>4, <1>5
<1> QED BY <1>2, <1>3, <1>4, <1>5, <1>6

(* The whole vectors take no more than there is. *)
LEMMA WholeVectors ==
  ASSUME NEW n \in Nat, NEW lanes \in Nat \ {0}
  PROVE  (n \div (lanes * Dword)) * lanes * Dword \in 0..n
<1>1. PICK d : d = lanes * Dword
  OBVIOUS
<1>2. d \in Nat \ {0} /\ Dword \in Nat
  BY <1>1, LanesAssumption
<1>3. PICK q, s : q = n \div d /\ s = n % d
  OBVIOUS
<1>4. q \in Nat /\ s \in 0..d - 1
  BY <1>2, <1>3, QuotientIn, RemainderIn
<1>5. n = d * q + s
  BY <1>2, <1>3, Recombine, Zenon
<1>6. q * lanes * Dword = d * q
  BY <1>1, <1>2, <1>4
<1>7. d * q \in Nat
  BY <1>2, <1>4
<1>8. d * q \in 0..n
  BY <1>4, <1>5, <1>7
<1> QED BY <1>1, <1>3, <1>6, <1>8, Zenon

(* With biased bytes, whole vectors and a scalar rest: the dot product. *)
LEMMA DotVnniIs ==
  ASSUME NEW lanes \in Nat \ {0}, NEW n \in Nat, NEW ao \in Nat, NEW bo \in Nat, NEW a, NEW b,
         AreInts(a, ao, n), AreInts(b, bo, n)
  PROVE  DotVnni(lanes, a, ao, b, bo, n) = DotScalar(a, ao, b, bo, n)
<1>1. PICK whole : whole = (n \div (lanes * Dword)) * lanes * Dword
  OBVIOUS
<1>2. whole \in 0..n /\ whole \in Nat /\ n - whole \in Nat
  <2>1. whole \in 0..n
    BY <1>1, WholeVectors, Zenon
  <2> QED BY <2>1
<1> DEFINE x == [l \in 0..whole - 1 |-> a[ao + l]]
           y == [l \in 0..whole - 1 |-> b[bo + l]]
           biased == [l \in 0..whole - 1 |-> (a[ao + l] + Half) * b[bo + l]]
           f == [l \in 0..n - 1 |-> a[ao + l] * b[bo + l]]
           g == [l \in 0..n - whole - 1 |-> a[ao + whole + l] * b[bo + whole + l]]
<1>3. DotVnni(lanes, a, ao, b, bo, n)
        = Word(SumOf(biased, whole) - Half * SumOf(y, whole) + Word(SumOf(g, n - whole)))
  BY <1>1, Zenon DEF DotVnni, DotScalar
<1>4. DotScalar(a, ao, b, bo, n) = Word(SumOf(f, n))
  BY Zenon DEF DotScalar
<1>5. \A l \in 0..n - 1 : a[ao + l] \in Int /\ b[bo + l] \in Int
  BY DEF AreInts
<1>6. Ints(f, n) /\ Ints(x, whole) /\ Ints(y, whole)
  <2>1. \A l \in 0..n - 1 : a[ao + l] * b[bo + l] \in Int
    BY <1>5
  <2>2. \A l \in 0..whole - 1 : l \in 0..n - 1
    BY <1>2
  <2> QED BY <1>5, <2>1, <2>2 DEF Ints
<1>7. \A l \in 0..whole - 1 : biased[l] = (x[l] + Half) * y[l] /\ f[l] = x[l] * y[l]
  BY <1>2
<1>8. \A l \in 0..n - whole - 1 : g[l] = f[whole + l]
  <2>1. ASSUME NEW l \in 0..n - whole - 1 PROVE g[l] = f[whole + l]
    <3>1. whole + l \in 0..n - 1 /\ ao + (whole + l) = ao + whole + l /\ bo + (whole + l) = bo + whole + l
      BY <1>2
    <3> QED BY <3>1
  <2> QED BY <2>1
<1> HIDE DEF x, y, biased, f, g
<1>9. SumOf(biased, whole) - Half * SumOf(y, whole) = SumOf(f, whole)
  BY <1>2, <1>6, <1>7, BiasOff
<1>10. SumOf(f, n) = SumOf(f, whole) + SumOf(g, n - whole)
  BY <1>2, <1>6, <1>8, SumSplit
<1>11. SumOf(f, whole) \in Int /\ SumOf(g, n - whole) \in Int
  <2>1. Ints(f, whole)
    BY <1>2, <1>6 DEF Ints
  <2>2. Ints(g, n - whole)
    <3>1. ASSUME NEW l \in 0..n - whole - 1 PROVE g[l] \in Int
      <4>1. whole + l \in 0..n - 1
        BY <1>2
      <4> QED BY <1>6, <1>8, <4>1 DEF Ints
    <3> QED BY <3>1 DEF Ints
  <2> QED BY <1>2, <2>1, <2>2, SumType
<1>12. Word(SumOf(f, whole) + Word(SumOf(g, n - whole))) = Word(SumOf(f, whole) + SumOf(g, n - whole))
  BY <1>11, WordOfSum
<1> QED BY <1>3, <1>4, <1>9, <1>10, <1>12, Zenon

(* Whichever the processor has.                                            *)
DotsAlike(cpu, a, ao, b, bo, n) == DotI8(cpu, a, ao, b, bo, n) = DotScalar(a, ao, b, bo, n)

(* Whichever instructions the processor has, the dot product is the scalar *)
(* one.                                                                    *)
LEMMA DotI8Is ==
  ASSUME NEW cpu, NEW n \in Nat, NEW ao \in Nat, NEW bo \in Nat, NEW a, NEW b,
         AreInts(a, ao, n), AreInts(b, bo, n)
  PROVE  DotsAlike(cpu, a, ao, b, bo, n)
<1>1. Wide \in Nat \ {0} /\ Narrow \in Nat \ {0}
  BY LanesAssumption
<1>2. DotVnni(Wide, a, ao, b, bo, n) = DotScalar(a, ao, b, bo, n)
  BY <1>1, DotVnniIs
<1>3. DotVnni(Narrow, a, ao, b, bo, n) = DotScalar(a, ao, b, bo, n)
  BY <1>1, DotVnniIs
<1>4. CASE cpu = "avx512"
  BY <1>2, <1>4 DEF DotI8, DotsAlike
<1>5. CASE cpu = "avxvnni"
  BY <1>3, <1>5 DEF DotI8, DotsAlike
<1>6. CASE cpu # "avx512" /\ cpu # "avxvnni"
  BY <1>6 DEF DotI8, DotsAlike
<1> QED BY <1>4, <1>5, <1>6

BytesOfBlock(a, ao, b, bo, r, A, B, c, blk) ==
  \A l \in 0..r - 1 : a[ao + l] = A[c][blk * r + l] /\ b[bo + l] = B[c][blk * r + l]

IsDotScalar(a, ao, b, bo, r, A, B, c, blk) == DotScalar(a, ao, b, bo, r) = BlockProduct(A, B, c, blk, r)

(* The scalar dot product of the bytes of a block is its product. *)
LEMMA DotScalarIs ==
  ASSUME NEW r \in Nat, NEW a, NEW b, NEW ao, NEW bo, NEW A, NEW B, NEW c, NEW blk,
         Ints(Terms(A, B, c, blk, r), r),
         BytesOfBlock(a, ao, b, bo, r, A, B, c, blk)
  PROVE  IsDotScalar(a, ao, b, bo, r, A, B, c, blk)
<1> DEFINE f == [l \in 0..r - 1 |-> a[ao + l] * b[bo + l]]
<1>1. \A l \in 0..r - 1 : f[l] = Terms(A, B, c, blk, r)[l]
  <2>1. ASSUME NEW l \in 0..r - 1 PROVE f[l] = Terms(A, B, c, blk, r)[l]
    <3>1. f[l] = a[ao + l] * b[bo + l]
      OBVIOUS
    <3>2. Terms(A, B, c, blk, r)[l] = A[c][blk * r + l] * B[c][blk * r + l]
      BY Zenon DEF Terms
    <3> QED BY <3>1, <3>2, Zenon DEF BytesOfBlock
  <2> QED BY <2>1
<1>2. DotScalar(a, ao, b, bo, r) = Word(SumOf(f, r))
  BY Zenon DEF DotScalar
<1> HIDE DEF f
<1>3. SumOf(f, r) = SumOf(Terms(A, B, c, blk, r), r)
  BY <1>1, SumSame
<1> QED BY <1>2, <1>3, Zenon DEF BlockProduct, IsDotScalar

-----------------------------------------------------------------------------
(* The packed columns.                                                     *)
PackedAt(lanes, b, n_cols, k, q, G, y, j, e) ==
  Pack(lanes, b, n_cols, k)[((G * q + y) * lanes + j) * Dword + e] = b[(G * lanes + j) * k + y * Dword + e]

(* Byte e of dword y of column j of group G is found where the packing     *)
(* puts it.                                                                *)
LEMMA PackedByte ==
  ASSUME NEW lanes \in Nat \ {0}, NEW q \in Nat \ {0}, NEW G \in Nat, NEW y \in 0..q - 1, NEW j \in 0..lanes - 1,
         NEW e \in 0..Dword - 1, NEW n_cols \in Nat, G * lanes + lanes <= n_cols, NEW b, NEW k, k = Dword * q
  PROVE  PackedAt(lanes, b, n_cols, k, q, G, y, j, e)
<1>0. Dword \in Nat \ {0}
  BY LanesAssumption
<1>1. PICK v, u, x : v = q * G + y /\ u = lanes * v + j /\ x = Dword * u + e
  OBVIOUS
<1>2. v \in Nat
  BY <1>1
<1>3. u \in Nat
  BY <1>1, <1>2
<1>4. x \in Nat
  BY <1>0, <1>1, <1>3
<1>5. v \div q = G
  BY <1>1, QuotientOf
<1>6. v % q = y
  BY <1>1, RemainderOf
<1>7. u \div lanes = v
  BY <1>1, <1>2, QuotientOf
<1>8. u % lanes = j
  BY <1>1, <1>2, RemainderOf
<1>9. x \div Dword = u
  BY <1>0, <1>1, <1>3, QuotientOf
<1>10. x % Dword = e
  BY <1>0, <1>1, <1>3, RemainderOf
<1>11. x \div (Dword * lanes) = v
  <2>1. x \div (Dword * lanes) = (x \div Dword) \div lanes
    BY <1>0, <1>4, DivideByProduct
  <2> QED BY <1>7, <1>9, <2>1, Zenon
<1>12. x \div (Dword * lanes * q) = G
  <2>1. PICK p : p = Dword * lanes
    OBVIOUS
  <2>2. p \in Nat \ {0}
    BY <1>0, <2>1
  <2>3. x \div (p * q) = (x \div p) \div q
    BY <1>4, <2>2, DivideByProduct
  <2> QED BY <1>5, <1>11, <2>1, <2>3, Zenon
<1>13. k \div Dword = q
  <2>1. (Dword * q + 0) \div Dword = q
    <3>1. 0 \in 0..Dword - 1
      BY <1>0
    <3> QED BY <1>0, <3>1, QuotientOf
  <2>2. Dword * q + 0 = k
    BY <1>0
  <2> QED BY <2>1, <2>2, Zenon
<1>14. x \in 0..n_cols * k - 1
  <2>1. Dword * u + Dword <= Dword * (lanes * v + lanes)
    <3>1. u < lanes * v + lanes /\ lanes * v + lanes \in Nat
      <4>1. lanes * v \in Nat
        BY <1>2
      <4> QED BY <1>1, <4>1
    <3> QED BY <1>0, <1>3, <3>1, Monotone
  <2>2. lanes * v + lanes <= lanes * (q * G + q)
    <3>1. v < q * G + q /\ q * G + q \in Nat
      <4>1. q * G \in Nat
        OBVIOUS
      <4> QED BY <1>1, <4>1
    <3> QED BY <1>2, <3>1, Monotone
  <2>3. PICK w, z : w = lanes * v + lanes /\ z = lanes * (q * G + q)
    OBVIOUS
  <2>4. w \in Nat /\ z \in Nat
    BY <1>2, <2>3
  <2>5. Dword * w <= Dword * z
    BY <1>0, <2>2, <2>3, <2>4, Monotone
  <2>6. Dword * z <= n_cols * k
    <3>1. PICK g : g = G * lanes + lanes
      OBVIOUS
    <3>2. g \in Nat /\ g <= n_cols /\ k \in Nat
      BY <1>0, <3>1
    <3>3. Dword * z = k * g
      BY <1>0, <2>3, <3>1
    <3>4. k * g <= k * n_cols
      <4>1. k \in Nat \ {0}
        BY <1>0
      <4> QED BY <3>2, <4>1, Monotone
    <3>5. k * n_cols = n_cols * k
      BY <3>2
    <3> QED BY <3>3, <3>4, <3>5
  <2>7. Dword * u \in Nat /\ Dword * w \in Nat /\ Dword * z \in Nat /\ n_cols * k \in Nat
    BY <1>0, <1>3, <2>4
  <2>8. Dword * u + Dword <= Dword * w
    BY <2>1, <2>3, Zenon
  <2> QED BY <1>0, <1>1, <1>4, <2>5, <2>6, <2>7, <2>8
<1>15. Pack(lanes, b, n_cols, k)[x] = b[PackSource(lanes, G, y, j, k) + e]
  <2>1. Pack(lanes, b, n_cols, k)[x]
          = b[PackSource(lanes, x \div (Dword * lanes * (k \div Dword)), (x \div (Dword * lanes)) % (k \div Dword),
                         (x \div Dword) % lanes, k) + (x % Dword)]
    BY <1>14, Zenon DEF Pack
  <2> QED BY <1>6, <1>8, <1>9, <1>10, <1>11, <1>12, <1>13, <2>1, Zenon
<1>16. ((G * q + y) * lanes + j) * Dword + e = x
  BY <1>0, <1>1
<1>17. Pack(lanes, b, n_cols, k)[((G * q + y) * lanes + j) * Dword + e] = b[(G * lanes + j) * k + y * Dword + e]
  BY <1>15, <1>16, Zenon DEF PackSource
<1> QED BY <1>17, Zenon DEF PackedAt

-----------------------------------------------------------------------------
(* Where a kernel reads the columns of its tile.                           *)
LEMMA LaneOf ==
  ASSUME NEW lanes \in Nat \ {0}, NEW g \in Nat \ {0}, TileWidth = lanes * g, NEW c \in Nat
  PROVE  /\ c % TileWidth \in 0..TileWidth - 1 /\ c % lanes \in 0..lanes - 1
         /\ (c % TileWidth) \div lanes \in 0..g - 1
         /\ ((c % TileWidth) \div lanes) * lanes + (c % lanes) = c % TileWidth
<1>1. PICK w : w = TileWidth
  OBVIOUS
<1>2. w \in Nat \ {0} /\ w = lanes * g
  BY <1>1
<1>3. PICK s, t : s = c \div w /\ t = c % w
  OBVIOUS
<1>4. s \in Nat /\ t \in 0..w - 1
  BY <1>2, <1>3, QuotientIn, RemainderIn
<1>5. c = w * s + t
  BY <1>2, <1>3, Recombine, Zenon
<1>6. PICK p, j : p = t \div lanes /\ j = t % lanes
  OBVIOUS
<1>7. p \in Nat /\ j \in 0..lanes - 1
  <2>1. t \in Nat
    BY <1>4
  <2>2. p \in Nat
    BY <1>6, <2>1, QuotientIn, Zenon
  <2>3. j \in 0..lanes - 1
    BY <1>6, <2>1, RemainderIn, Zenon
  <2> QED BY <2>2, <2>3
<1>8. t = lanes * p + j
  <2>1. t \in Nat
    BY <1>4
  <2> QED BY <1>6, <2>1, Recombine, Zenon
<1>9. c % lanes = j
  <2>1. PICK z : z = g * s + p
    OBVIOUS
  <2>2. z \in Nat
    BY <1>4, <1>7, <2>1
  <2>3. (lanes * z + j) % lanes = j
    BY <1>7, <2>2, RemainderOf
  <2>4. c = lanes * z + j
    <3>1. lanes * (g * s + p) = lanes * g * s + lanes * p
      BY <1>4, <1>7
    <3>2. c = lanes * g * s + t
      BY <1>2, <1>4, <1>5
    <3>3. lanes * g * s \in Nat /\ lanes * p \in Nat
      BY <1>4, <1>7
    <3> QED BY <1>7, <1>8, <2>1, <3>1, <3>2, <3>3
  <2> QED BY <2>3, <2>4, Zenon
<1>10. p \in 0..g - 1
  <2>1. p >= g => lanes * g <= lanes * p
    BY <1>7, Monotone
  <2>2. lanes * p \in Nat
    BY <1>7
  <2>3. ~(p >= g)
    BY <1>2, <1>4, <1>7, <1>8, <2>1, <2>2
  <2> QED BY <1>7, <2>3
<1>11. p * lanes + j = t
  <2>1. p * lanes = lanes * p
    BY <1>7
  <2> QED BY <1>8, <2>1
<1>12. c % TileWidth = t /\ (c % TileWidth) \div lanes = p
  BY <1>1, <1>3, <1>6, Zenon
<1> QED BY <1>1, <1>4, <1>7, <1>9, <1>10, <1>11, <1>12, Zenon

(* A multiple of a number of whole vectors divides by them. *)
LEMMA WholeProduct ==
  ASSUME NEW n \in Nat, NEW d \in Nat \ {0}, Whole(n, d), NEW m \in Nat
  PROVE  (m * n) \div d = m * (n \div d)
<1>1. PICK q : q = n \div d
  OBVIOUS
<1>2. q \in Nat /\ n = q * d
  BY <1>1, WholeTimes
<1>3. m * n = d * (m * q) + 0 /\ m * q \in Nat /\ 0 \in 0..d - 1
  BY <1>2
<1>4. (d * (m * q) + 0) \div d = m * q
  BY <1>3, QuotientOf
<1> QED BY <1>1, <1>3, <1>4, Zenon

(* Where the dwords of a block start that the lane of cell c takes.        *)
LaneStart(lanes, base, c, k, r, blk) ==
  (base + ((c % TileWidth) \div lanes)) * ((k \div Dword) * lanes * Dword)
    + ((blk * r) \div Dword) * lanes * Dword

TileOf(lanes, g) == TileWidth = lanes * g

Below(base, lanes, n_cols) == base * lanes + TileWidth <= n_cols

(* Byte e of dword kk of the block, as the lane finds it.                  *)
ColumnAt(lanes, b, n_cols, base, c, k, r, blk, kk, e) ==
  Pack(lanes, b, n_cols, k)[LaneStart(lanes, base, c, k, r, blk) + (kk * lanes + (c % lanes)) * Dword + e]
    = b[(base * lanes + (c % TileWidth)) * k + (blk * r + (kk * Dword + e))]

(* A lane finds the bytes of its column, dword by dword. *)
LEMMA PackedColumn ==
  ASSUME NEW lanes \in Nat \ {0}, NEW g \in Nat \ {0}, TileOf(lanes, g), NEW c \in Nat,
         NEW k \in Nat, Whole(k, Dword), NEW r \in Nat \ {0}, Whole(r, Dword), NEW blk \in 0..(k \div r) - 1,
         NEW base \in Nat, NEW n_cols \in Nat, Below(base, lanes, n_cols), NEW b,
         NEW kk \in 0..(r \div Dword) - 1, NEW e \in 0..Dword - 1
  PROVE  ColumnAt(lanes, b, n_cols, base, c, k, r, blk, kk, e) /\ kk * Dword + e \in 0..r - 1
<1>0. Dword \in Nat \ {0}
  BY LanesAssumption
<1>1. PICK q, n : q = k \div Dword /\ n = r \div Dword
  OBVIOUS
<1>2. q \in Nat /\ n \in Nat /\ k = q * Dword /\ r = n * Dword /\ kk \in 0..n - 1
  <2>1. q \in Nat /\ k = q * Dword
    BY <1>0, <1>1, WholeTimes
  <2>2. n \in Nat /\ r = n * Dword
    BY <1>0, <1>1, WholeTimes
  <2> QED BY <1>1, <2>1, <2>2, Zenon
<1>3. PICK p, j, t : p = (c % TileWidth) \div lanes /\ j = c % lanes /\ t = c % TileWidth
  OBVIOUS
<1>4. p \in 0..g - 1 /\ j \in 0..lanes - 1 /\ t \in 0..TileWidth - 1 /\ p * lanes + j = t
  BY <1>3, LaneOf, Zenon DEF TileOf
<1>5. blk \in Nat /\ blk * r + r <= k
  <2>1. blk * r + r <= k
    BY InBlock, Zenon
  <2> QED BY <2>1
<1>6. PICK o : o = blk * n
  OBVIOUS
<1>7. o \in Nat /\ o + n <= q /\ (blk * r) \div Dword = o /\ blk * r = o * Dword
  <2>1. (blk * r) \div Dword = o
    <3>1. r \in Nat
      OBVIOUS
    <3> QED BY <1>0, <1>1, <1>5, <1>6, <3>1, WholeProduct, Zenon
  <2>2. o \in Nat
    BY <1>2, <1>5, <1>6
  <2>3. blk * r = o * Dword
    BY <1>0, <1>2, <1>5, <1>6
  <2>4. Dword * (o + n) <= Dword * q
    <3>1. blk * r + r = Dword * (o + n)
      BY <1>0, <1>2, <1>5, <1>6
    <3>2. k = Dword * q
      BY <1>0, <1>2
    <3> QED BY <1>5, <3>1, <3>2
  <2>5. o + n > q => Dword * q + Dword <= Dword * (o + n)
    <3>1. o + n \in Nat
      BY <1>2, <2>2
    <3> QED BY <1>0, <1>2, <3>1, Monotone
  <2>6. Dword * q \in Nat /\ Dword * (o + n) \in Nat
    BY <1>0, <1>2, <2>2
  <2>7. o + n <= q
    BY <1>0, <1>2, <2>2, <2>4, <2>5, <2>6
  <2> QED BY <2>1, <2>2, <2>3, <2>7
<1>8. PICK G, y : G = base + p /\ y = o + kk
  OBVIOUS
<1>9. G \in Nat /\ y \in 0..q - 1 /\ q \in Nat \ {0}
  BY <1>2, <1>4, <1>7, <1>8
<1>10. G * lanes + lanes <= n_cols /\ G * lanes + j = base * lanes + t
  <2>1. G * lanes = base * lanes + p * lanes /\ base * lanes \in Nat
    BY <1>4, <1>8
  <2>2. p * lanes + lanes <= lanes * g
    <3>1. lanes * p + lanes <= lanes * g
      BY <1>4, Monotone
    <3>2. p * lanes = lanes * p
      BY <1>4
    <3> QED BY <3>1, <3>2
  <2>3. p * lanes \in Nat /\ lanes * g \in Nat
    BY <1>4
  <2>4. base * lanes + TileWidth <= n_cols /\ TileWidth = lanes * g
    BY DEF Below, TileOf
  <2> QED BY <1>4, <2>1, <2>2, <2>3, <2>4
<1>11. k = Dword * q
  BY <1>0, <1>2
<1>12. Pack(lanes, b, n_cols, k)[((G * q + y) * lanes + j) * Dword + e] = b[(G * lanes + j) * k + y * Dword + e]
  <2>1. G \in Nat /\ y \in 0..q - 1 /\ q \in Nat \ {0} /\ j \in 0..lanes - 1
    BY <1>4, <1>9
  <2>2. G * lanes + lanes <= n_cols
    BY <1>10
  <2>3. PackedAt(lanes, b, n_cols, k, q, G, y, j, e)
    BY <1>11, <2>1, <2>2, PackedByte, Zenon
  <2> QED BY <2>3 DEF PackedAt
<1>a. PICK off : off = LaneStart(lanes, base, c, k, r, blk)
  OBVIOUS
<1>13. off + (kk * lanes + j) * Dword + e = ((G * q + y) * lanes + j) * Dword + e
  <2>1. off = G * (q * lanes * Dword) + o * lanes * Dword
    BY <1>1, <1>3, <1>7, <1>8, <1>a, Zenon DEF LaneStart
  <2>2. G * (q * lanes * Dword) + o * lanes * Dword + (kk * lanes + j) * Dword = ((G * q + (o + kk)) * lanes + j) * Dword
    BY <1>0, <1>2, <1>4, <1>7, <1>9
  <2> QED BY <1>8, <2>1, <2>2, Zenon
<1>14. (G * lanes + j) * k + y * Dword + e = (base * lanes + t) * k + (blk * r + (kk * Dword + e))
  <2>1. y * Dword = blk * r + kk * Dword
    <3>1. y * Dword = o * Dword + kk * Dword
      BY <1>0, <1>7, <1>8
    <3> QED BY <1>7, <3>1
  <2>2. PICK h, i, d : h = (base * lanes + t) * k /\ i = blk * r /\ d = kk * Dword
    OBVIOUS
  <2>3. h \in Nat /\ i \in Nat /\ d \in Nat /\ e \in Nat
    <3>1. h \in Nat
      BY <1>4, <2>2
    <3>2. i \in Nat
      BY <1>5, <2>2
    <3>3. d \in Nat
      BY <1>0, <1>2, <2>2
    <3> QED BY <1>0, <3>1, <3>2, <3>3
  <2>4. h + (i + d) + e = h + (i + (d + e))
    BY <2>3
  <2> QED BY <1>10, <2>1, <2>2, <2>4, Zenon
<1>15. kk * Dword + e \in 0..r - 1
  <2>1. kk * Dword \in Nat /\ kk * Dword + Dword <= n * Dword /\ n * Dword \in Nat
    BY <1>0, <1>2, GroupWithin
  <2> QED BY <1>0, <1>2, <2>1
<1>16. ColumnAt(lanes, b, n_cols, base, c, k, r, blk, kk, e)
  BY <1>3, <1>12, <1>13, <1>14, <1>a, Zenon DEF ColumnAt
<1> QED BY <1>15, <1>16, Zenon

-----------------------------------------------------------------------------
(* The n dwords that a lane reads from off are those of y.                 *)
PackedFrom(packed, off, lanes, j, n, y) ==
  \A kk \in 0..n - 1, e \in 0..Dword - 1 : packed[off + (kk * lanes + j) * Dword + e] = y[kk * Dword + e]

(* The sum over all dwords is the one over their bytes.                    *)
IsAccumulated(au, packed, off, lanes, j, n, y) ==
  Accumulate(au, packed, off, lanes, j, n, 0..n - 1) = SumOf([x \in 0..n * Dword - 1 |-> au[x] * y[x]], n * Dword)

(* The dwords, in whatever accumulators.                                   *)
LEMMA AccumulateAll ==
  ASSUME NEW lanes, NEW j, NEW n \in Nat, NEW packed, NEW off, NEW au, NEW y,
         Ints(au, n * Dword), Ints(y, n * Dword),
         PackedFrom(packed, off, lanes, j, n, y)
  PROVE  IsAccumulated(au, packed, off, lanes, j, n, y)
<1>0. Dword \in Nat
  BY LanesAssumption
<1> DEFINE f == [x \in 0..n * Dword - 1 |-> au[x] * y[x]]
           inner(kk) == [e \in 0..Dword - 1 |-> f[kk * Dword + e]]
           made(kk) == [e \in 0..Dword - 1 |-> au[kk * Dword + e] * packed[off + (kk * lanes + j) * Dword + e]]
           g == [kk \in 0..n - 1 |-> SumOf(inner(kk), Dword)]
           h == [kk \in 0..n - 1 |-> IF kk \in 0..n - 1 THEN SumOf(made(kk), Dword) ELSE 0]
<1>1. ASSUME NEW kk \in 0..n - 1 PROVE inner(kk) = made(kk)
  <2>1. ASSUME NEW e \in 0..Dword - 1 PROVE f[kk * Dword + e] = au[kk * Dword + e] * packed[off + (kk * lanes + j) * Dword + e]
    <3>1. PICK d, N : d = kk * Dword /\ N = n * Dword
      OBVIOUS
    <3>2. d \in Nat /\ d + Dword <= N /\ N \in Nat
      BY <1>0, <3>1, GroupWithin
    <3>3. d + e \in 0..N - 1
      BY <1>0, <3>2
    <3>4. kk * Dword + e \in 0..n * Dword - 1
      BY <3>1, <3>3
    <3>5. f[kk * Dword + e] = au[kk * Dword + e] * y[kk * Dword + e]
      BY <3>4, Zenon
    <3>6. y[kk * Dword + e] = packed[off + (kk * lanes + j) * Dword + e]
      BY Zenon DEF PackedFrom
    <3> QED BY <3>5, <3>6, Zenon
  <2> HIDE DEF f
  <2> QED BY <2>1, Zenon
<1>2. h = g
  <2> HIDE DEF inner, made
  <2> QED BY <1>1
<1>3. Accumulate(au, packed, off, lanes, j, n, 0..n - 1) = SumOf(h, n)
  BY Zenon DEF Accumulate
<1>4. SumOf(g, n) = SumOf(f, n * Dword)
  <2>1. Ints(f, n * Dword)
    <3>1. PICK N : N = n * Dword
      OBVIOUS
    <3>2. \A x \in 0..N - 1 : au[x] \in Int /\ y[x] \in Int
      BY <3>1 DEF Ints
    <3>3. \A x \in 0..N - 1 : au[x] * y[x] \in Int
      BY <3>2
    <3> QED BY <3>1, <3>3 DEF Ints
  <2> HIDE DEF f
  <2> QED BY <1>0, <2>1, SumGrouped, Zenon
<1> QED BY <1>2, <1>3, <1>4, Zenon DEF IsAccumulated

(* The lo and the hi accumulators have it between them.                    *)
IsLoHi(au, packed, off, lanes, j, n) ==
  Accumulate(au, packed, off, lanes, j, n, LoSteps(n)) + Accumulate(au, packed, off, lanes, j, n, HiSteps(n))
    = Accumulate(au, packed, off, lanes, j, n, 0..n - 1)

(* The lo and the hi accumulators take a dword each, and all of them.      *)
LEMMA AccumulateSplit ==
  ASSUME NEW lanes, NEW j, NEW n \in Nat, NEW packed, NEW off, NEW au, NEW y,
         Ints(au, n * Dword), Ints(y, n * Dword),
         PackedFrom(packed, off, lanes, j, n, y)
  PROVE  IsLoHi(au, packed, off, lanes, j, n)
<1>0. Dword \in Nat
  BY LanesAssumption
<1> DEFINE made(kk) == [e \in 0..Dword - 1 |-> au[kk * Dword + e] * packed[off + (kk * lanes + j) * Dword + e]]
           of(S) == [kk \in 0..n - 1 |-> IF kk \in S THEN SumOf(made(kk), Dword) ELSE 0]
<1>1. ASSUME NEW kk \in 0..n - 1 PROVE SumOf(made(kk), Dword) \in Int
  <2>1. ASSUME NEW e \in 0..Dword - 1 PROVE au[kk * Dword + e] * packed[off + (kk * lanes + j) * Dword + e] \in Int
    <3>1. PICK d, N : d = kk * Dword /\ N = n * Dword
      OBVIOUS
    <3>2. d \in Nat /\ d + Dword <= N /\ N \in Nat
      BY <1>0, <3>1, GroupWithin
    <3>3. d + e \in 0..N - 1
      BY <1>0, <3>2
    <3>4. au[d + e] \in Int /\ y[d + e] \in Int
      BY <3>1, <3>3 DEF Ints
    <3>5. packed[off + (kk * lanes + j) * Dword + e] = y[d + e]
      BY <3>1, Zenon DEF PackedFrom
    <3> QED BY <3>1, <3>4, <3>5
  <2>2. Ints(made(kk), Dword)
    <3>1. \A e \in 0..Dword - 1 : made(kk)[e] = au[kk * Dword + e] * packed[off + (kk * lanes + j) * Dword + e]
      OBVIOUS
    <3> HIDE DEF made
    <3> QED BY <2>1, <3>1 DEF Ints
  <2> HIDE DEF made
  <2> QED BY <1>0, <2>2, SumType
<1>2. Accumulate(au, packed, off, lanes, j, n, LoSteps(n)) = SumOf(of(LoSteps(n)), n)
  BY Zenon DEF Accumulate
<1>3. Accumulate(au, packed, off, lanes, j, n, HiSteps(n)) = SumOf(of(HiSteps(n)), n)
  BY Zenon DEF Accumulate
<1>4. Accumulate(au, packed, off, lanes, j, n, 0..n - 1) = SumOf(of(0..n - 1), n)
  BY Zenon DEF Accumulate
<1> HIDE DEF made
<1>5. ASSUME NEW kk \in 0..n - 1
      PROVE  /\ of(LoSteps(n))[kk] \in Int /\ of(HiSteps(n))[kk] \in Int
             /\ of(0..n - 1)[kk] = of(LoSteps(n))[kk] + of(HiSteps(n))[kk]
  <2>1. PICK z : z = SumOf(made(kk), Dword)
    OBVIOUS
  <2>2. z \in Int /\ z + 0 = z /\ 0 + z = z /\ 0 \in Int
    <3>1. z \in Int
      BY <1>1, <2>1, Zenon
    <3> QED BY <3>1
  <2>3. of(0..n - 1)[kk] = z
    BY <2>1, Zenon
  <2>4. CASE kk % 2 = 0
    <3>1. kk \in LoSteps(n) /\ kk \notin HiSteps(n)
      BY <2>4 DEF LoSteps, HiSteps
    <3>2. of(LoSteps(n))[kk] = z /\ of(HiSteps(n))[kk] = 0
      BY <2>1, <3>1, Zenon
    <3> QED BY <2>2, <2>3, <3>2, Zenon
  <2>5. CASE kk % 2 = 1
    <3>1. kk \notin LoSteps(n) /\ kk \in HiSteps(n)
      BY <2>5 DEF LoSteps, HiSteps
    <3>2. of(LoSteps(n))[kk] = 0 /\ of(HiSteps(n))[kk] = z
      BY <2>1, <3>1, Zenon
    <3> QED BY <2>2, <2>3, <3>2, Zenon
  <2>6. kk % 2 = 0 \/ kk % 2 = 1
    OBVIOUS
  <2> QED BY <2>4, <2>5, <2>6
<1> HIDE DEF of
<1>6. SumOf(of(0..n - 1), n) = SumOf(of(LoSteps(n)), n) + SumOf(of(HiSteps(n)), n)
  <2>1. PICK lo, hi, all : lo = of(LoSteps(n)) /\ hi = of(HiSteps(n)) /\ all = of(0..n - 1)
    OBVIOUS
  <2>2. Ints(lo, n) /\ Ints(hi, n) /\ \A kk \in 0..n - 1 : all[kk] = lo[kk] + hi[kk]
    BY <1>5, <2>1 DEF Ints
  <2>3. SumOf(all, n) = SumOf(lo, n) + SumOf(hi, n)
    BY <2>2, SumAdd
  <2> QED BY <2>1, <2>3, Zenon
<1> QED BY <1>2, <1>3, <1>4, <1>6, Zenon DEF IsLoHi

OfBlock(A, c, blk, r) == [l \in 0..r - 1 |-> A[c][blk * r + l]]

(* The column of cell c, in columns that are not packed yet.               *)
IsColumn(b, base, lanes, c, k, B) ==
  \A l \in 0..k - 1 : b[(base * lanes + (c % TileWidth)) * k + l] = B[c][l]

(* The dwords that the lane of cell c reads are those of its column in the *)
(* block.                                                                  *)
LEMMA PackedFromBlock ==
  ASSUME NEW lanes \in Nat \ {0}, NEW g \in Nat \ {0}, TileOf(lanes, g), NEW c \in Nat,
         NEW k \in Nat, Whole(k, Dword), NEW r \in Nat \ {0}, Whole(r, Dword), NEW blk \in 0..(k \div r) - 1,
         NEW base \in Nat, NEW n_cols \in Nat, Below(base, lanes, n_cols), NEW b, NEW B,
         IsColumn(b, base, lanes, c, k, B)
  PROVE  PackedFrom(Pack(lanes, b, n_cols, k), LaneStart(lanes, base, c, k, r, blk), lanes, c % lanes,
                    r \div Dword, OfBlock(B, c, blk, r))
<1>1. ASSUME NEW kk \in 0..(r \div Dword) - 1, NEW e \in 0..Dword - 1
      PROVE  Pack(lanes, b, n_cols, k)[LaneStart(lanes, base, c, k, r, blk) + (kk * lanes + (c % lanes)) * Dword + e]
               = OfBlock(B, c, blk, r)[kk * Dword + e]
  <2>1. PICK d, o : d = kk * Dword + e /\ o = blk * r
    OBVIOUS
  <2>2. /\ Pack(lanes, b, n_cols, k)[LaneStart(lanes, base, c, k, r, blk) + (kk * lanes + (c % lanes)) * Dword + e]
             = b[(base * lanes + (c % TileWidth)) * k + (o + d)]
        /\ d \in 0..r - 1
    <3>1. ColumnAt(lanes, b, n_cols, base, c, k, r, blk, kk, e) /\ kk * Dword + e \in 0..r - 1
      BY PackedColumn, Zenon
    <3> QED BY <2>1, <3>1, Zenon DEF ColumnAt
  <2>3. o + d \in 0..k - 1
    <3>1. o \in Nat /\ o + r <= k
      BY <2>1, InBlock, Zenon
    <3> HIDE <2>1
    <3> QED BY <2>2, <3>1
  <2>4. b[(base * lanes + (c % TileWidth)) * k + (o + d)] = B[c][o + d]
    BY <2>3, Zenon DEF IsColumn
  <2>5. OfBlock(B, c, blk, r)[d] = B[c][o + d]
    BY <2>1, <2>2, Zenon DEF OfBlock
  <2> QED BY <2>1, <2>2, <2>4, <2>5, Zenon
<1> QED BY <1>1, Zenon DEF PackedFrom

(* One cell of the micro-kernels: au has the biased bytes of the row.      *)
IsStored(au, packed, off, lanes, j, r, A, B, c, blk) ==
  StoreGroup(Accumulate(au, packed, off, lanes, j, r \div Dword, 0..(r \div Dword) - 1),
             Accumulate([x \in 0..r - 1 |-> 1], packed, off, lanes, j, r \div Dword, 0..(r \div Dword) - 1))
    = BlockProduct(A, B, c, blk, r)

IsBiased(au, A, c, blk, r) == \A x \in 0..r - 1 : au[x] = A[c][blk * r + x] + Half

(* What a kernel stores for a cell is the product of the block, whether    *)
(* the dwords go to one accumulator or alternate between two.              *)
LEMMA StoredIs ==
  ASSUME NEW n \in Nat, NEW k \in Nat, NEW r \in Nat \ {0}, Whole(r, Dword), NEW A, NEW B, Rows(A, n, k),
         Rows(B, n, k),
         NEW c \in 0..n - 1, NEW blk \in 0..(k \div r) - 1, NEW packed, NEW off, NEW lanes, NEW j,
         PackedFrom(packed, off, lanes, j, r \div Dword, OfBlock(B, c, blk, r)),
         NEW au, IsBiased(au, A, c, blk, r)
  PROVE  IsStored(au, packed, off, lanes, j, r, A, B, c, blk) /\ IsLoHi(au, packed, off, lanes, j, r \div Dword)
<1>1. PICK m : m = r \div Dword
  OBVIOUS
<1>2. m \in Nat /\ r = m * Dword /\ Dword \in Nat /\ Half \in Nat
  BY <1>1, WholeTimes, LanesAssumption, WordAssumption
<1>3. PICK x, y : x = OfBlock(A, c, blk, r) /\ y = OfBlock(B, c, blk, r)
  OBVIOUS
<1>4. Ints(x, r) /\ Ints(y, r)
  <2>1. ASSUME NEW l \in 0..r - 1 PROVE A[c][blk * r + l] \in Int /\ B[c][blk * r + l] \in Int
    <3>1. PICK o : o = blk * r
      OBVIOUS
    <3>2. o \in Nat /\ o + r <= k
      BY <3>1, InBlock
    <3>3. o + l \in 0..k - 1
      BY <3>2
    <3> QED BY <3>1, <3>3 DEF Rows
  <2> QED BY <1>3, <2>1 DEF Ints, OfBlock
<1>5. \A l \in 0..r - 1 : au[l] = x[l] + Half
  BY <1>3 DEF OfBlock, IsBiased
<1>6. PackedFrom(packed, off, lanes, j, m, y)
  BY <1>1, <1>3, Zenon
<1> DEFINE ones == [l \in 0..r - 1 |-> 1]
           biased == [l \in 0..r - 1 |-> au[l] * y[l]]
           sums == [l \in 0..r - 1 |-> ones[l] * y[l]]
<1>b. IsLoHi(au, packed, off, lanes, j, r \div Dword)
  <2>1. Ints(au, m * Dword) /\ Ints(y, m * Dword)
    BY <1>2, <1>4, <1>5 DEF Ints
  <2>2. IsLoHi(au, packed, off, lanes, j, m)
    BY <1>2, <1>6, <2>1, AccumulateSplit, Zenon
  <2> QED BY <1>1, <2>2, Zenon
<1>7. Accumulate(au, packed, off, lanes, j, m, 0..m - 1) = SumOf(biased, r)
  <2>1. Ints(au, m * Dword) /\ Ints(y, m * Dword)
    BY <1>2, <1>4, <1>5 DEF Ints
  <2>2. IsAccumulated(au, packed, off, lanes, j, m, y)
    BY <1>2, <1>6, <2>1, AccumulateAll, Zenon
  <2> QED BY <1>2, <2>2, Zenon DEF IsAccumulated
<1>8. Accumulate(ones, packed, off, lanes, j, m, 0..m - 1) = SumOf(sums, r)
  <2>1. Ints(ones, m * Dword) /\ Ints(y, m * Dword)
    BY <1>2, <1>4 DEF Ints
  <2> HIDE DEF ones
  <2>2. IsAccumulated(ones, packed, off, lanes, j, m, y)
    BY <1>2, <1>6, <2>1, AccumulateAll, Zenon
  <2> QED BY <1>2, <2>2, Zenon DEF IsAccumulated
<1>9. SumOf(sums, r) = SumOf(y, r)
  <2>1. \A l \in 0..r - 1 : sums[l] = y[l]
    BY <1>4 DEF Ints
  <2> HIDE DEF sums
  <2> QED BY <1>4, <2>1, SumSame
<1>10. SumOf(biased, r) - Half * SumOf(y, r) = SumOf(Terms(A, B, c, blk, r), r)
  <2>1. \A l \in 0..r - 1 : biased[l] = (x[l] + Half) * y[l] /\ Terms(A, B, c, blk, r)[l] = x[l] * y[l]
    BY <1>3, <1>5 DEF Terms, OfBlock
  <2> HIDE DEF biased
  <2> QED BY <1>4, <2>1, BiasOff
<1>11. StoreGroup(SumOf(biased, r), SumOf(y, r)) = BlockProduct(A, B, c, blk, r)
  BY <1>10, Zenon DEF StoreGroup, BlockProduct
<1>12. IsStored(au, packed, off, lanes, j, r, A, B, c, blk)
  BY <1>1, <1>7, <1>8, <1>9, <1>11, Zenon DEF IsStored
<1> QED BY <1>b, <1>12, Zenon

(* The row of cell c, in rows of k bytes.                                  *)
IsRow(a, row, k, A, c) == \A l \in 0..k - 1 : a[row * k + l] = A[c][l]

(* What a kernel loads of row `row` for block blk.                         *)
Biased(a, row, k, r, blk) == [x \in 0..r - 1 |-> a[row * k + blk * r + x] + Half]

(* So it is for each cell, of a row in the buffer and a packed column. *)
LEMMA CellIs ==
  ASSUME NEW lanes \in Nat \ {0}, NEW g \in Nat \ {0}, TileOf(lanes, g), NEW n \in Nat,
         NEW k \in Nat, Whole(k, Dword), NEW r \in Nat \ {0}, Whole(r, Dword),
         NEW A, NEW B, Rows(A, n, k), Rows(B, n, k), NEW c \in 0..n - 1, NEW blk \in 0..(k \div r) - 1,
         NEW a, NEW row \in Nat, IsRow(a, row, k, A, c),
         NEW base \in Nat, NEW n_cols \in Nat, Below(base, lanes, n_cols), NEW b, IsColumn(b, base, lanes, c, k, B)
  PROVE  /\ IsStored(Biased(a, row, k, r, blk), Pack(lanes, b, n_cols, k), LaneStart(lanes, base, c, k, r, blk),
                     lanes, c % lanes, r, A, B, c, blk)
         /\ IsLoHi(Biased(a, row, k, r, blk), Pack(lanes, b, n_cols, k), LaneStart(lanes, base, c, k, r, blk),
                   lanes, c % lanes, r \div Dword)
<1>1. PICK packed, off, j, au : /\ packed = Pack(lanes, b, n_cols, k) /\ off = LaneStart(lanes, base, c, k, r, blk)
                                /\ j = c % lanes /\ au = Biased(a, row, k, r, blk)
  OBVIOUS
<1>2. PackedFrom(packed, off, lanes, j, r \div Dword, OfBlock(B, c, blk, r))
  <2>1. c \in Nat
    OBVIOUS
  <2> QED BY <1>1, <2>1, PackedFromBlock, Zenon
<1>3. ASSUME NEW x \in 0..r - 1 PROVE au[x] = A[c][blk * r + x] + Half
  <2>1. PICK o, d : o = blk * r /\ d = row * k
    OBVIOUS
  <2>2. o \in Nat /\ o + r <= k /\ d \in Nat
    <3>1. o \in Nat /\ o + r <= k
      BY <2>1, InBlock, Zenon
    <3>2. d \in Nat
      BY <2>1
    <3> QED BY <3>1, <3>2
  <2>3. o + x \in 0..k - 1 /\ d + (o + x) = d + o + x
    BY <2>2
  <2>4. a[d + (o + x)] = A[c][o + x]
    BY <2>1, <2>3, Zenon DEF IsRow
  <2>5. au[x] = a[d + o + x] + Half
    BY <1>1, <2>1, Zenon DEF Biased
  <2> QED BY <2>1, <2>3, <2>4, <2>5, Zenon
<1>4. IsStored(au, packed, off, lanes, j, r, A, B, c, blk) /\ IsLoHi(au, packed, off, lanes, j, r \div Dword)
  <2>1. IsBiased(au, A, c, blk, r)
    BY <1>3, Zenon DEF IsBiased
  <2> HIDE <1>1
  <2> QED BY <1>2, <2>1, StoredIs, ZenonT(60)
<1> QED BY <1>1, <1>4, Zenon

Cells == 2 * TileWidth

(* A tile is 4 groups of wide vectors or 8 of narrow ones, and its cells   *)
(* are whole vectors of either.                                            *)
LEMMA TileOfLanes ==
  /\ TileOf(Wide, 4) /\ TileOf(Narrow, 8) /\ Wide \in Nat \ {0} /\ Narrow \in Nat \ {0} /\ TileWidth \in Nat \ {0} /\ Cells \in Nat
  /\ Whole(Cells, Wide) /\ Whole(Cells, Narrow)
<1>1. Wide \in Nat \ {0} /\ Narrow \in Nat \ {0} /\ TileWidth = Wide * 4 /\ TileWidth = Narrow * 8
  BY LanesAssumption DEF TileWidth
<1>2. Cells = Wide * 8 + 0 /\ Cells = Narrow * 16 + 0 /\ Cells \in Nat
  BY <1>1 DEF Cells
<1>3. (Wide * 8 + 0) % Wide = 0 /\ (Narrow * 16 + 0) % Narrow = 0
  <2>1. 8 \in Nat /\ 16 \in Nat /\ 0 \in 0..Wide - 1 /\ 0 \in 0..Narrow - 1
    BY <1>1
  <2>2. (Wide * 8 + 0) % Wide = 0
    BY <1>1, <2>1, RemainderOf, Zenon
  <2>3. (Narrow * 16 + 0) % Narrow = 0
    BY <1>1, <2>1, RemainderOf, Zenon
  <2> QED BY <2>2, <2>3
<1>4. Whole(Cells, Wide)
  BY <1>2, <1>3, Zenon DEF Whole
<1>5. Whole(Cells, Narrow)
  BY <1>2, <1>3, Zenon DEF Whole
<1>6. TileWidth \in Nat \ {0}
  BY <1>1
<1> QED BY <1>1, <1>2, <1>4, <1>5, <1>6, Zenon DEF TileOf

(* The row of cell c is rowOf[c].                                          *)
RowsOf(a, rowOf, n, k, A) == \A c \in 0..n - 1 : rowOf[c] \in Nat /\ IsRow(a, rowOf[c], k, A, c)

ColumnsOf(b, base, lanes, k, B) == \A c \in 0..Cells - 1 : IsColumn(b, base, lanes, c, k, B)

IsKernel2x64(a, b, n_cols, a0, a1, base, k, r, A, B) ==
  Kernel2x64(a, Pack(Wide, b, n_cols, k), a0, a1, base, k, r) = JackpotOf(Cells, k, r, A, B)

(* Two rows at a time make the jackpot of the cells. *)
LEMMA Kernel2x64Is ==
  ASSUME NEW k \in Nat, Whole(k, Dword), NEW r \in Nat \ {0}, Whole(r, Dword),
         NEW A, NEW B, Rows(A, Cells, k), Rows(B, Cells, k),
         NEW a, NEW a0 \in Nat, NEW a1 \in Nat,
         RowsOf(a, [c \in 0..Cells - 1 |-> IF c < TileWidth THEN a0 ELSE a1], Cells, k, A),
         NEW base \in Nat, NEW n_cols \in Nat, Below(base, Wide, n_cols), NEW b, ColumnsOf(b, base, Wide, k, B)
  PROVE  IsKernel2x64(a, b, n_cols, a0, a1, base, k, r, A, B)
<1>1. PICK packed, m : packed = Pack(Wide, b, n_cols, k) /\ m = r \div Dword
  OBVIOUS
<1> DEFINE row(c) == IF c < TileWidth THEN a0 ELSE a1
           off(blk, c) == (base + ((c % TileWidth) \div Wide)) * ((k \div Dword) * Wide * Dword)
                            + ((blk * r) \div Dword) * Wide * Dword
           au(blk, c) == [x \in 0..r - 1 |-> a[row(c) * k + blk * r + x] + Half]
           p(blk, c, S) == Accumulate(au(blk, c), packed, off(blk, c), Wide, c % Wide, m, S)
           cell(blk, c) ==
             StoreGroup(p(blk, c, LoSteps(m)) + p(blk, c, HiSteps(m)),
                        Accumulate([x \in 0..r - 1 |-> 1], packed, off(blk, c), Wide, c % Wide, m, 0..m - 1))
           products == [blk \in 0..(k \div r) - 1 |-> [c \in 0..Cells - 1 |-> cell(blk, c)]]
<1>2. Kernel2x64(a, packed, a0, a1, base, k, r) = Walk(Wide, Cells, k \div r, products)
  BY <1>1, Zenon DEF Kernel2x64, Cells
<1>3. ASSUME NEW blk \in 0..(k \div r) - 1, NEW c \in 0..Cells - 1
      PROVE  cell(blk, c) = BlockProduct(A, B, c, blk, r)
  <2>1. row(c) \in Nat /\ IsRow(a, row(c), k, A, c)
    <3>1. [d \in 0..Cells - 1 |-> IF d < TileWidth THEN a0 ELSE a1][c] = row(c)
      OBVIOUS
    <3> QED BY <3>1, Zenon DEF RowsOf
  <2>2. IsColumn(b, base, Wide, c, k, B)
    BY DEF ColumnsOf
  <2>3. off(blk, c) = LaneStart(Wide, base, c, k, r, blk) /\ au(blk, c) = Biased(a, row(c), k, r, blk)
    BY Zenon DEF LaneStart, Biased
  <2>4. /\ IsStored(Biased(a, row(c), k, r, blk), packed, LaneStart(Wide, base, c, k, r, blk), Wide, c % Wide, r, A, B, c, blk)
        /\ IsLoHi(Biased(a, row(c), k, r, blk), packed, LaneStart(Wide, base, c, k, r, blk), Wide, c % Wide, m)
    <3>1. 4 \in Nat \ {0}
      OBVIOUS
    <3>2. PICK w : w = row(c)
      OBVIOUS
    <3>3. w \in Nat /\ IsRow(a, w, k, A, c)
      BY <2>1, <3>2, Zenon
    <3>4. /\ IsStored(Biased(a, w, k, r, blk), Pack(Wide, b, n_cols, k), LaneStart(Wide, base, c, k, r, blk),
                      Wide, c % Wide, r, A, B, c, blk)
          /\ IsLoHi(Biased(a, w, k, r, blk), Pack(Wide, b, n_cols, k), LaneStart(Wide, base, c, k, r, blk),
                    Wide, c % Wide, r \div Dword)
      BY <2>2, <3>1, <3>3, TileOfLanes, CellIs, Zenon
    <3> QED BY <1>1, <3>2, <3>4, Zenon
  <2> HIDE DEF row, off, au
  <2> QED BY <1>1, <2>3, <2>4, Zenon DEF IsStored, IsLoHi
<1>4. AreProducts(products, Cells, k, r, A, B)
  <2> HIDE DEF cell
  <2> QED BY <1>3 DEF AreProducts
<1>5. Walk(Wide, Cells, k \div r, products) = JackpotOf(Cells, k, r, A, B)
  <2>1. PICK made : made = products
    OBVIOUS
  <2> HIDE DEF products
  <2>2. AreProducts(made, Cells, k, r, A, B)
    BY <1>4, <2>1, Zenon
  <2>3. WalksTo(Wide, made, Cells, k, r, A, B)
    BY <2>2, TileOfLanes, JackpotOfProducts, Zenon
  <2> QED BY <2>1, <2>3, Zenon DEF WalksTo
<1> QED BY <1>1, <1>2, <1>5, Zenon DEF IsKernel2x64

IsKernel8x64(lanes, a, b, n_cols, a0, base, k, r, t, A, B) ==
  Kernel8x64(lanes, a, Pack(lanes, b, n_cols, k), a0, base, k, r)[t] = JackpotOf(Cells, k, r, A, B)

(* Eight rows at a time make that of each of their four tiles. *)
LEMMA Kernel8x64Is ==
  ASSUME NEW lanes \in Nat \ {0}, NEW g \in Nat \ {0}, TileOf(lanes, g), Whole(Cells, lanes), Cells \in Nat,
         NEW k \in Nat, Whole(k, Dword), NEW r \in Nat \ {0}, Whole(r, Dword),
         NEW A, NEW B, Rows(A, Cells, k), Rows(B, Cells, k), NEW t \in 0..3, NEW a, NEW a0,
         RowsOf(a, [c \in 0..Cells - 1 |-> a0 + RowOf(t, c)], Cells, k, A),
         NEW base \in Nat, NEW n_cols \in Nat, Below(base, lanes, n_cols), NEW b, ColumnsOf(b, base, lanes, k, B)
  PROVE  IsKernel8x64(lanes, a, b, n_cols, a0, base, k, r, t, A, B)
<1>1. PICK packed, m : packed = Pack(lanes, b, n_cols, k) /\ m = r \div Dword
  OBVIOUS
<1> DEFINE off(blk, c) == (base + ((c % TileWidth) \div lanes)) * ((k \div Dword) * lanes * Dword)
                            + ((blk * r) \div Dword) * lanes * Dword
           au(blk, c) == [x \in 0..r - 1 |-> a[(a0 + RowOf(t, c)) * k + blk * r + x] + Half]
           cell(blk, c) ==
             StoreGroup(Accumulate(au(blk, c), packed, off(blk, c), lanes, c % lanes, m, 0..m - 1),
                        Accumulate([x \in 0..r - 1 |-> 1], packed, off(blk, c), lanes, c % lanes, m, 0..m - 1))
           products == [blk \in 0..(k \div r) - 1 |-> [c \in 0..Cells - 1 |-> cell(blk, c)]]
<1>2. Kernel8x64(lanes, a, packed, a0, base, k, r)[t] = Walk(lanes, Cells, k \div r, products)
  BY <1>1, Zenon DEF Kernel8x64, Cells
<1>3. ASSUME NEW blk \in 0..(k \div r) - 1, NEW c \in 0..Cells - 1
      PROVE  cell(blk, c) = BlockProduct(A, B, c, blk, r)
  <2>0. PICK w : w = a0 + RowOf(t, c)
    OBVIOUS
  <2>1. w \in Nat /\ IsRow(a, w, k, A, c)
    <3>1. [d \in 0..Cells - 1 |-> a0 + RowOf(t, d)][c] = w
      BY <2>0, Zenon
    <3> QED BY <3>1, Zenon DEF RowsOf
  <2>2. IsColumn(b, base, lanes, c, k, B)
    BY DEF ColumnsOf
  <2>3. off(blk, c) = LaneStart(lanes, base, c, k, r, blk) /\ au(blk, c) = Biased(a, w, k, r, blk)
    BY <2>0, Zenon DEF LaneStart, Biased
  <2>4. IsStored(Biased(a, w, k, r, blk), Pack(lanes, b, n_cols, k), LaneStart(lanes, base, c, k, r, blk),
                 lanes, c % lanes, r, A, B, c, blk)
    BY <2>1, <2>2, CellIs, Zenon
  <2> HIDE DEF off, au
  <2> QED BY <1>1, <2>3, <2>4, Zenon DEF IsStored
<1>4. AreProducts(products, Cells, k, r, A, B)
  <2> HIDE DEF cell
  <2> QED BY <1>3 DEF AreProducts
<1>5. Walk(lanes, Cells, k \div r, products) = JackpotOf(Cells, k, r, A, B)
  <2>1. PICK made : made = products
    OBVIOUS
  <2> HIDE DEF products
  <2>2. AreProducts(made, Cells, k, r, A, B)
    BY <1>4, <2>1, Zenon
  <2>3. WalksTo(lanes, made, Cells, k, r, A, B)
    BY <2>2, JackpotOfProducts, Zenon
  <2> QED BY <2>1, <2>3, Zenon DEF WalksTo
<1> QED BY <1>1, <1>2, <1>5, Zenon DEF IsKernel8x64

-----------------------------------------------------------------------------
(* One dot product of the variants without packing.                        *)
IsDot(cpu, a, row, b, col, k, r, A, B, c, blk) ==
  DotI8(cpu, a, row * k + blk * r, b, col * k + blk * r, r) = BlockProduct(A, B, c, blk, r)

(* One dot product makes one product. *)
LEMMA DotIs ==
  ASSUME NEW cpu, NEW n \in Nat, NEW k \in Nat, NEW r \in Nat \ {0}, NEW A, NEW B, Rows(A, n, k), Rows(B, n, k),
         NEW c \in 0..n - 1, NEW blk \in 0..(k \div r) - 1,
         NEW a, NEW row \in Nat, IsRow(a, row, k, A, c), NEW b, NEW col \in Nat, IsRow(b, col, k, B, c)
  PROVE  IsDot(cpu, a, row, b, col, k, r, A, B, c, blk)
<1>1. PICK o, ao, bo : o = blk * r /\ ao = row * k + blk * r /\ bo = col * k + blk * r
  OBVIOUS
<1>2. o \in Nat /\ o + r <= k
  BY <1>1, InBlock, Zenon
<1>3. PICK p, q : p = row * k /\ q = col * k
  OBVIOUS
<1>4. p \in Nat /\ q \in Nat
  BY <1>3
<1>5. ao = p + o /\ bo = q + o
  BY <1>1, <1>3, Zenon
<1>6. ASSUME NEW l \in 0..r - 1
      PROVE  /\ a[ao + l] = A[c][o + l] /\ b[bo + l] = B[c][o + l]
             /\ A[c][o + l] \in Int /\ B[c][o + l] \in Int
  <2>1. o + l \in 0..k - 1 /\ ao + l = p + (o + l) /\ bo + l = q + (o + l)
    <3> HIDE <1>1, <1>3
    <3> QED BY <1>2, <1>4, <1>5
  <2>2. a[p + (o + l)] = A[c][o + l] /\ b[q + (o + l)] = B[c][o + l]
    BY <1>3, <2>1, Zenon DEF IsRow
  <2>3. A[c][o + l] \in Int /\ B[c][o + l] \in Int
    BY <2>1, Zenon DEF Rows
  <2> QED BY <2>1, <2>2, <2>3, Zenon
<1>7. AreInts(a, ao, r) /\ AreInts(b, bo, r)
  BY <1>6, Zenon DEF AreInts
<1>8. ao \in Nat /\ bo \in Nat /\ r \in Nat
  BY <1>2, <1>4, <1>5
<1>9. DotsAlike(cpu, a, ao, b, bo, r)
  BY <1>7, <1>8, DotI8Is, Zenon
<1>10. IsDotScalar(a, ao, b, bo, r, A, B, c, blk)
  <2>1. Ints(Terms(A, B, c, blk, r), r)
    BY ProductInts, Zenon
  <2>2. BytesOfBlock(a, ao, b, bo, r, A, B, c, blk)
    BY <1>1, <1>6, Zenon DEF BytesOfBlock
  <2> QED BY <1>8, <2>1, <2>2, DotScalarIs, Zenon
<1> QED BY <1>1, <1>9, <1>10, Zenon DEF IsDot, DotsAlike, IsDotScalar

(* The rows f and the columns g that the indices of a tile name.           *)
Names(a_idx, b_idx, n, f, g) ==
  /\ n = Len(a_idx) * Len(b_idx)
  /\ \A c \in 0..n - 1 : a_idx[(c \div Len(b_idx)) + 1] = f[c] /\ b_idx[(c % Len(b_idx)) + 1] = g[c]

IsTileFlat(cpu, a, b, a_idx, b_idx, n, k, r, A, B) ==
  TileFlat(cpu, a, b, a_idx, b_idx, k, r) = JackpotOf(n, k, r, A, B)

(* Dot product by dot product, the indices of a tile make its jackpot. *)
LEMMA TileFlatIs ==
  ASSUME NEW cpu, NEW n \in Nat, NEW k \in Nat, NEW r \in Nat \ {0}, NEW A, NEW B, Rows(A, n, k), Rows(B, n, k),
         NEW a, NEW b, NEW a_idx, NEW b_idx, NEW f, NEW g, Names(a_idx, b_idx, n, f, g),
         RowsOf(a, f, n, k, A), RowsOf(b, g, n, k, B)
  PROVE  IsTileFlat(cpu, a, b, a_idx, b_idx, n, k, r, A, B)
<1>1. PICK w : w = Len(b_idx)
  OBVIOUS
<1> DEFINE dot(blk, c) == DotI8(cpu, a, a_idx[(c \div w) + 1] * k + blk * r, b, b_idx[(c % w) + 1] * k + blk * r, r)
           products == [blk \in 0..(k \div r) - 1 |-> [c \in 0..n - 1 |-> dot(blk, c)]]
<1>2. TileFlat(cpu, a, b, a_idx, b_idx, k, r) = Walk(1, n, k \div r, products)
  BY <1>1, Zenon DEF TileFlat, Names
<1>3. ASSUME NEW blk \in 0..(k \div r) - 1, NEW c \in 0..n - 1
      PROVE  dot(blk, c) = BlockProduct(A, B, c, blk, r)
  <2>1. PICK row, col : row = a_idx[(c \div w) + 1] /\ col = b_idx[(c % w) + 1]
    OBVIOUS
  <2>2. row \in Nat /\ IsRow(a, row, k, A, c)
    <3>1. f[c] = row
      BY <1>1, <2>1, Zenon DEF Names
    <3> QED BY <3>1, Zenon DEF RowsOf
  <2>3. col \in Nat /\ IsRow(b, col, k, B, c)
    <3>1. g[c] = col
      BY <1>1, <2>1, Zenon DEF Names
    <3> QED BY <3>1, Zenon DEF RowsOf
  <2>4. IsDot(cpu, a, row, b, col, k, r, A, B, c, blk)
    BY <2>2, <2>3, DotIs, Zenon
  <2> QED BY <2>1, <2>4, Zenon DEF IsDot
<1>4. AreProducts(products, n, k, r, A, B)
  <2> HIDE DEF dot
  <2> QED BY <1>3 DEF AreProducts
<1>5. Walk(1, n, k \div r, products) = JackpotOf(n, k, r, A, B)
  <2>1. PICK made : made = products
    OBVIOUS
  <2>0. 1 \in Nat \ {0} /\ Whole(n, 1)
    BY WholeOnes
  <2> HIDE DEF products
  <2>2. AreProducts(made, n, k, r, A, B)
    BY <1>4, <2>1, Zenon
  <2>3. WalksTo(1, made, n, k, r, A, B)
    BY <2>0, <2>2, JackpotOfProducts, Zenon
  <2> QED BY <2>1, <2>3, Zenon DEF WalksTo
<1> QED BY <1>2, <1>5, Zenon DEF IsTileFlat

-----------------------------------------------------------------------------
(* What fits a byte is stored as it is. *)
LEMMA ByteOfByte ==
  ASSUME NEW x \in Bytes
  PROVE  Byte(x) = x
<1>1. Half \in Nat \ {0}
  BY WordAssumption
<1>2. x \in Int /\ 2 * Half \in Nat \ {0} /\ x + Half \in 0..2 * Half - 1
  BY <1>1 DEF Bytes
<1>3. PICK y, p : y = x + Half /\ p = 2 * Half
  OBVIOUS
<1>4. y \in 0..p - 1 /\ p \in Nat \ {0} /\ y \in Int
  BY <1>2, <1>3
<1>5. y % p = y
  <2>1. y \in Nat /\ y < p
    BY <1>4
  <2> QED BY <1>4, <2>1, BelowDivisor
<1>6. Byte(x) = y - Half
  BY <1>3, <1>5, Zenon DEF Byte
<1>7. x = y - Half
  BY <1>1, <1>2, <1>3
<1> QED BY <1>6, <1>7, Zenon

(* The row and the column of a cell are those of the tile. *)
LEMMA CellIn ==
  ASSUME NEW w \in Nat \ {0}, NEW h \in Nat, NEW c \in 0..h * w - 1
  PROVE  c \div w \in 0..h - 1 /\ c % w \in 0..w - 1
<1>1. PICK q, s : q = c \div w /\ s = c % w
  OBVIOUS
<1>2. c \in Nat
  OBVIOUS
<1>3. q \in Nat
  BY <1>1, <1>2, QuotientIn, Zenon
<1>4. s \in 0..w - 1
  BY <1>1, <1>2, RemainderIn, Zenon
<1>5. c = w * q + s
  BY <1>1, <1>2, Recombine, Zenon
<1>6. q >= h => w * h <= w * q
  BY <1>3, Monotone
<1>7. h * w = w * h /\ w * h \in Nat /\ w * q \in Nat
  BY <1>3
<1>8. q < h
  BY <1>2, <1>3, <1>4, <1>5, <1>6, <1>7
<1> QED BY <1>1, <1>3, <1>4, <1>8

(* Row u and column l are found again from their place in a flat buffer. *)
LEMMA PlaceIn ==
  ASSUME NEW w \in Nat, NEW h \in Nat, NEW u \in 0..h - 1, NEW l \in 0..w - 1
  PROVE  u * w + l \in 0..h * w - 1 /\ (u * w + l) \div w = u /\ (u * w + l) % w = l
<1>1. u * w \in Nat /\ u * w + w <= h * w /\ h * w \in Nat
  BY GroupWithin
<1>2. u * w + l \in 0..h * w - 1
  BY <1>1
<1>3. w \in Nat \ {0} /\ u \in Nat
  OBVIOUS
<1>4. u * w + l = w * u + l
  BY <1>3
<1>5. (w * u + l) \div w = u
  BY <1>3, QuotientOf, Zenon
<1>6. (w * u + l) % w = l
  BY <1>3, RemainderOf, Zenon
<1> QED BY <1>2, <1>4, <1>5, <1>6, Zenon

-----------------------------------------------------------------------------
(* The strips, summed.                                                     *)
Flat(signal, noise, rows, k) == [x \in 0..rows * k - 1 |-> Byte(signal[x \div k][x % k] + noise[x \div k][x % k])]

FlatAt(signal, noise, rows, k, u, l) == Flat(signal, noise, rows, k)[u * k + l] = signal[u][l] + noise[u][l]

(* No sum of the strips is cut off in the flat buffer. *)
LEMMA FlatHas ==
  ASSUME NEW k \in Nat, NEW rows \in Nat, NEW signal, NEW noise, AddUpToBytes(signal, noise, rows, k),
         NEW u \in 0..rows - 1, NEW l \in 0..k - 1
  PROVE  FlatAt(signal, noise, rows, k, u, l)
<1>1. PICK x : x = u * k + l
  OBVIOUS
<1>2. x \in 0..rows * k - 1 /\ x \div k = u /\ x % k = l
  BY <1>1, PlaceIn, Zenon
<1>3. Flat(signal, noise, rows, k)[x] = Byte(signal[u][l] + noise[u][l])
  BY <1>2, Zenon DEF Flat
<1>4. signal[u][l] + noise[u][l] \in Bytes
  BY DEF AddUpToBytes
<1>5. Byte(signal[u][l] + noise[u][l]) = signal[u][l] + noise[u][l]
  BY <1>4, ByteOfByte, Zenon
<1> QED BY <1>1, <1>3, <1>5, Zenon DEF FlatAt

(* Cell c takes row rowOf[c] of the signal and of the noise.               *)
AddsUp(signal, noise, rowOf, n, k, A) ==
  \A c \in 0..n - 1, l \in 0..k - 1 : A[c][l] = signal[rowOf[c]][l] + noise[rowOf[c]][l]

(* The flat buffer has the rows of the strips. *)
LEMMA FlatRows ==
  ASSUME NEW k \in Nat, NEW rows \in Nat, NEW signal, NEW noise, AddUpToBytes(signal, noise, rows, k),
         NEW n, NEW rowOf, \A c \in 0..n - 1 : rowOf[c] \in 0..rows - 1, NEW A, AddsUp(signal, noise, rowOf, n, k, A)
  PROVE  RowsOf(Flat(signal, noise, rows, k), rowOf, n, k, A)
<1>1. ASSUME NEW c \in 0..n - 1 PROVE rowOf[c] \in Nat /\ IsRow(Flat(signal, noise, rows, k), rowOf[c], k, A, c)
  <2>1. PICK u : u = rowOf[c]
    OBVIOUS
  <2>2. u \in 0..rows - 1
    BY <2>1, Zenon
  <2>3. ASSUME NEW l \in 0..k - 1 PROVE Flat(signal, noise, rows, k)[u * k + l] = A[c][l]
    <3>1. FlatAt(signal, noise, rows, k, u, l)
      BY <2>2, FlatHas, Zenon
    <3>2. A[c][l] = signal[u][l] + noise[u][l]
      BY <2>1, Zenon DEF AddsUp
    <3> QED BY <3>1, <3>2, Zenon DEF FlatAt
  <2>4. IsRow(Flat(signal, noise, rows, k), u, k, A, c)
    BY <2>3, Zenon DEF IsRow
  <2>5. u \in Nat
    BY <2>2
  <2> QED BY <2>1, <2>4, <2>5, Zenon
<1> QED BY <1>1, Zenon DEF RowsOf

(* What the cells take are integers. *)
LEMMA SummedRows ==
  ASSUME NEW k \in Nat, NEW rows \in Nat, NEW signal, NEW noise, AddUpToBytes(signal, noise, rows, k),
         NEW n, NEW rowOf, \A c \in 0..n - 1 : rowOf[c] \in 0..rows - 1, NEW A, AddsUp(signal, noise, rowOf, n, k, A)
  PROVE  Rows(A, n, k)
<1>1. ASSUME NEW c \in 0..n - 1, NEW l \in 0..k - 1 PROVE A[c][l] \in Int
  <2>1. PICK u : u = rowOf[c]
    OBVIOUS
  <2>2. u \in 0..rows - 1
    BY <2>1, Zenon
  <2>3. signal[u][l] + noise[u][l] \in Bytes
    BY <2>2 DEF AddUpToBytes
  <2>4. A[c][l] = signal[u][l] + noise[u][l]
    BY <2>1, Zenon DEF AddsUp
  <2> QED BY <2>3, <2>4, WordAssumption DEF Bytes
<1> QED BY <1>1 DEF Rows

CellPlaces(p, q, n, w) == p = [c \in 0..n - 1 |-> c \div w] /\ q = [c \in 0..n - 1 |-> c % w]

IsReference(h, w, k, r, sa, sb, na, nb, n, A, B) == Reference(h, w, k, r, sa, sb, na, nb) = JackpotOf(n, k, r, A, B)

(* The reference makes the jackpot of the cells. *)
LEMMA ReferenceIs ==
  ASSUME NEW h \in Nat, NEW w \in Nat \ {0}, NEW n \in Nat, n = h * w, NEW k \in Nat, NEW r \in Nat \ {0},
         NEW A, NEW B, Rows(A, n, k), Rows(B, n, k), NEW sa, NEW sb, NEW na, NEW nb,
         NEW p, NEW q, CellPlaces(p, q, n, w), AddsUp(sa, na, p, n, k, A), AddsUp(sb, nb, q, n, k, B)
  PROVE  IsReference(h, w, k, r, sa, sb, na, nb, n, A, B)
<1> DEFINE a(c, l) == sa[c \div w][l] + na[c \div w][l]
           b(c, l) == sb[c % w][l] + nb[c % w][l]
           terms(blk, c) == [l \in 0..r - 1 |-> a(c, blk * r + l) * b(c, blk * r + l)]
           products == [blk \in 0..(k \div r) - 1 |-> [c \in 0..n - 1 |-> Word(SumOf(terms(blk, c), r))]]
<1>1. Reference(h, w, k, r, sa, sb, na, nb) = Walk(1, n, k \div r, products)
  BY Zenon DEF Reference
<1>2. ASSUME NEW blk \in 0..(k \div r) - 1, NEW c \in 0..n - 1
      PROVE  Word(SumOf(terms(blk, c), r)) = BlockProduct(A, B, c, blk, r)
  <2>1. ASSUME NEW l \in 0..r - 1 PROVE terms(blk, c)[l] = Terms(A, B, c, blk, r)[l]
    <3>1. PICK o : o = blk * r
      OBVIOUS
    <3>2. o + l \in 0..k - 1
      <4>1. o \in Nat /\ o + r <= k
        BY <3>1, InBlock, Zenon
      <4> HIDE <3>1
      <4> QED BY <4>1
    <3>3. A[c][o + l] = a(c, o + l) /\ B[c][o + l] = b(c, o + l)
      <4>1. p[c] = c \div w /\ q[c] = c % w
        BY Zenon DEF CellPlaces
      <4> QED BY <3>2, <4>1, ZenonT(60) DEF AddsUp
    <3> QED BY <3>1, <3>3, Zenon DEF Terms
  <2>2. Ints(Terms(A, B, c, blk, r), r) /\ r \in Nat
    BY ProductInts, Zenon
  <2> HIDE DEF terms
  <2>3. SumOf(terms(blk, c), r) = SumOf(Terms(A, B, c, blk, r), r)
    <3>1. PICK f, g : f = terms(blk, c) /\ g = Terms(A, B, c, blk, r)
      OBVIOUS
    <3>2. Ints(g, r) /\ \A l \in 0..r - 1 : f[l] = g[l]
      BY <2>1, <2>2, <3>1, Zenon
    <3>3. SumOf(f, r) = SumOf(g, r)
      BY <2>2, <3>2, SumSame
    <3> QED BY <3>1, <3>3, Zenon
  <2> QED BY <2>3, Zenon DEF BlockProduct
<1>3. AreProducts(products, n, k, r, A, B)
  <2> HIDE DEF terms
  <2> QED BY <1>2 DEF AreProducts
<1>4. Walk(1, n, k \div r, products) = JackpotOf(n, k, r, A, B)
  <2>1. PICK made : made = products
    OBVIOUS
  <2>0. 1 \in Nat \ {0} /\ Whole(n, 1)
    BY WholeOnes
  <2> HIDE DEF products
  <2>2. AreProducts(made, n, k, r, A, B)
    BY <1>3, <2>1, Zenon
  <2>3. WalksTo(1, made, n, k, r, A, B)
    BY <2>0, <2>2, JackpotOfProducts, Zenon
  <2> QED BY <2>1, <2>3, Zenon DEF WalksTo
<1> QED BY <1>1, <1>4, Zenon DEF IsReference

All(rows) == [i \in 1..rows |-> i - 1]

(* It lists all the rows in order. *)
LEMMA AllIs ==
  ASSUME NEW rows \in Nat
  PROVE  Len(All(rows)) = rows /\ \A i \in 0..rows - 1 : All(rows)[i + 1] = i
<1>1. All(rows) \in [1..rows -> Int]
  <2>1. \A i \in 1..rows : i - 1 \in Int
    OBVIOUS
  <2> QED BY <2>1, Zenon DEF All
<1>2. \A i \in 0..rows - 1 : i + 1 \in 1..rows /\ i + 1 - 1 = i
  OBVIOUS
<1>3. DOMAIN All(rows) = 1..rows
  BY <1>1
<1>4. Len(All(rows)) = rows
  BY <1>3
<1>5. \A i \in 0..rows - 1 : All(rows)[i + 1] = i
  BY <1>2 DEF All
<1> QED BY <1>4, <1>5

IsJackpotFlat(cpu, h, w, k, r, sa, sb, na, nb, n, A, B) ==
  ComputeJackpotFlat(cpu, h, w, k, r, sa, sb, na, nb) = JackpotOf(n, k, r, A, B)

(* So does compute_jackpot_flat, on any processor. *)
LEMMA ComputeJackpotFlatIs ==
  ASSUME NEW cpu, NEW h \in Nat, NEW w \in Nat \ {0}, NEW n \in Nat, n = h * w, NEW k \in Nat, NEW r \in Nat \ {0},
         NEW A, NEW B, NEW sa, NEW sb, NEW na, NEW nb, AddUpToBytes(sa, na, h, k), AddUpToBytes(sb, nb, w, k),
         NEW f, NEW g, CellPlaces(f, g, n, w), AddsUp(sa, na, f, n, k, A), AddsUp(sb, nb, g, n, k, B)
  PROVE  IsJackpotFlat(cpu, h, w, k, r, sa, sb, na, nb, n, A, B)
<1>2. ASSUME NEW c \in 0..n - 1
      PROVE  f[c] \in 0..h - 1 /\ g[c] \in 0..w - 1 /\ f[c] = c \div w /\ g[c] = c % w
  <2>1. f[c] = c \div w /\ g[c] = c % w
    BY Zenon DEF CellPlaces
  <2>2. c \in 0..h * w - 1
    BY Zenon
  <2>3. c \div w \in 0..h - 1 /\ c % w \in 0..w - 1
    BY <2>2, CellIn, Zenon
  <2> QED BY <2>1, <2>3, Zenon
<1>4. w \in Nat
  OBVIOUS
<1>5. RowsOf(Flat(sa, na, h, k), f, n, k, A) /\ Rows(A, n, k)
  BY <1>2, FlatRows, SummedRows, Zenon
<1>6. RowsOf(Flat(sb, nb, w, k), g, n, k, B) /\ Rows(B, n, k)
  BY <1>2, <1>4, FlatRows, SummedRows, Zenon
<1>7. w = Len(All(w)) /\ h = Len(All(h))
  BY <1>4, AllIs, Zenon
<1>8. \A c \in 0..n - 1 : All(h)[(c \div w) + 1] = f[c] /\ All(w)[(c % w) + 1] = g[c]
  BY <1>2, <1>4, AllIs, Zenon
<1>9. Names(All(h), All(w), n, f, g)
  BY <1>7, <1>8, Zenon DEF Names
<1>10. IsTileFlat(cpu, Flat(sa, na, h, k), Flat(sb, nb, w, k), All(h), All(w), n, k, r, A, B)
  BY <1>5, <1>6, <1>9, TileFlatIs, Zenon
<1> QED BY <1>10, Zenon DEF IsTileFlat, IsJackpotFlat, ComputeJackpotFlat, Flat, All

(* Rows of a strip of rows.                                                *)
Strip(rows, from, n) == [u \in 0..n - 1 |-> rows[from + u]]

(* A strip of rows that add up to bytes is one. *)
LEMMA StripAddsUp ==
  ASSUME NEW k, NEW rows \in Nat, NEW signal, NEW noise, AddUpToBytes(signal, noise, rows, k),
         NEW from \in Nat, NEW m \in Nat, from + m <= rows
  PROVE  AddUpToBytes(Strip(signal, from, m), Strip(noise, from, m), m, k)
<1>1. ASSUME NEW u \in 0..m - 1
      PROVE  /\ Strip(signal, from, m)[u] = signal[from + u] /\ Strip(noise, from, m)[u] = noise[from + u]
             /\ from + u \in 0..rows - 1
  BY DEF Strip
<1>2. Strip(signal, from, m) \in Strips(m, k) /\ Strip(noise, from, m) \in Strips(m, k)
  <2>1. \A u \in 0..m - 1 : signal[from + u] \in [0..k - 1 -> Int] /\ noise[from + u] \in [0..k - 1 -> Int]
    BY <1>1 DEF AddUpToBytes, Strips
  <2> QED BY <2>1 DEF Strip, Strips
<1>3. ASSUME NEW u \in 0..m - 1, NEW l \in 0..k - 1
      PROVE  Strip(signal, from, m)[u][l] + Strip(noise, from, m)[u][l] \in Bytes
  <2>1. signal[from + u][l] + noise[from + u][l] \in Bytes
    BY <1>1, Zenon DEF AddUpToBytes
  <2> QED BY <1>1, <2>1, Zenon
<1> QED BY <1>2, <1>3, Zenon DEF AddUpToBytes

(* A cell takes from a strip what it takes from the rows. *)
LEMMA StripOfRows ==
  ASSUME NEW signal, NEW noise, NEW from, NEW m, NEW n, NEW k, NEW A, NEW f, NEW g, AddsUp(signal, noise, f, n, k, A),
         \A c \in 0..n - 1 : g[c] \in 0..m - 1 /\ f[c] = from + g[c]
  PROVE  AddsUp(Strip(signal, from, m), Strip(noise, from, m), g, n, k, A)
<1>1. ASSUME NEW c \in 0..n - 1, NEW l \in 0..k - 1
      PROVE  A[c][l] = Strip(signal, from, m)[g[c]][l] + Strip(noise, from, m)[g[c]][l]
  <2>1. PICK u : u = g[c]
    OBVIOUS
  <2>2. u \in 0..m - 1 /\ f[c] = from + u
    BY <2>1, Zenon
  <2>3. Strip(signal, from, m)[u] = signal[from + u] /\ Strip(noise, from, m)[u] = noise[from + u]
    BY <2>2, Zenon DEF Strip
  <2>4. A[c][l] = signal[f[c]][l] + noise[f[c]][l]
    BY Zenon DEF AddsUp
  <2> QED BY <2>1, <2>2, <2>3, <2>4, Zenon
<1> QED BY <1>1, Zenon DEF AddsUp

-----------------------------------------------------------------------------
(* Where a kernel finds the rows and the columns of its tile.              *)
LEMMA GroupOf ==
  ASSUME NEW lanes \in Nat \ {0}, NEW g \in Nat \ {0}, TileOf(lanes, g), NEW ct \in Nat
  PROVE  ct * (TileWidth \div lanes) \in Nat /\ ct * (TileWidth \div lanes) * lanes = ct * TileWidth
<1>1. PICK w : w = TileWidth
  OBVIOUS
<1>2. w = lanes * g + 0 /\ 0 \in 0..lanes - 1
  BY <1>1 DEF TileOf
<1>3. (lanes * g + 0) \div lanes = g
  BY <1>2, QuotientOf, Zenon
<1>4. TileWidth \div lanes = g
  BY <1>1, <1>2, <1>3, Zenon
<1>5. ct * g \in Nat /\ ct * g * lanes = ct * (lanes * g)
  OBVIOUS
<1>6. lanes * g = TileWidth
  BY DEF TileOf
<1> QED BY <1>4, <1>5, <1>6, Zenon

(* A tile of the micro-kernels has two rows. *)
LEMMA CellOf ==
  ASSUME NEW c \in 0..Cells - 1
  PROVE  /\ c \div TileWidth \in 0..1 /\ c % TileWidth \in 0..TileWidth - 1
         /\ c \div TileWidth = IF c < TileWidth THEN 0 ELSE 1
<1>1. PICK w : w = TileWidth
  OBVIOUS
<1>2. w \in Nat \ {0} /\ 2 \in Nat
  BY <1>1, TileOfLanes, Zenon
<1>3. c \in 0..2 * w - 1
  BY <1>1 DEF Cells
<1>4. c \div w \in 0..2 - 1 /\ c % w \in 0..w - 1
  BY <1>2, <1>3, CellIn, Zenon
<1>5. PICK q, s : q = c \div w /\ s = c % w
  OBVIOUS
<1>6. q \in 0..2 - 1 /\ s \in 0..w - 1 /\ c = w * q + s
  <2>1. c \in Nat
    BY <1>3
  <2> QED BY <1>2, <1>4, <1>5, <2>1, Recombine, Zenon
<1>7. q \in 0..1 /\ (q = 0 => c = s) /\ (q = 1 => c = w + s)
  BY <1>2, <1>6
<1>8. q = IF c < w THEN 0 ELSE 1
  <2> HIDE <1>5
  <2> QED BY <1>2, <1>6, <1>7
<1> QED BY <1>1, <1>4, <1>5, <1>7, <1>8, Zenon

InOrderOf(signal, noise, rowOf, k) == [c \in 0..Cells - 1 |-> [l \in 0..k - 1 |-> signal[rowOf[c]][l] + noise[rowOf[c]][l]]]

(* They are what the cells take. *)
LEMMA InOrderAddsUp ==
  ASSUME NEW signal, NEW noise, NEW rowOf, NEW k
  PROVE  AddsUp(signal, noise, rowOf, Cells, k, InOrderOf(signal, noise, rowOf, k))
BY Zenon DEF AddsUp, InOrderOf

(* The columns of a tile are consecutive rows of the transposed matrix. *)
LEMMA ColumnsOfRows ==
  ASSUME NEW lanes, NEW base, NEW k, NEW b, NEW B, NEW g, NEW c0, base * lanes = c0, RowsOf(b, g, Cells, k, B),
         \A c \in 0..Cells - 1 : g[c] = c0 + (c % TileWidth)
  PROVE  ColumnsOf(b, base, lanes, k, B)
<1>1. ASSUME NEW c \in 0..Cells - 1 PROVE IsColumn(b, base, lanes, c, k, B)
  <2>1. IsRow(b, g[c], k, B, c)
    BY DEF RowsOf
  <2>2. g[c] = base * lanes + (c % TileWidth)
    BY Zenon
  <2> QED BY <2>1, <2>2, Zenon DEF IsRow, IsColumn
<1> QED BY <1>1, Zenon DEF ColumnsOf

(* The rows f and the columns g of tile t of four, and tile ct of columns. *)
Tile2xTileWidth(f, g, from, c0) ==
  \A c \in 0..Cells - 1 : f[c] = from + (c \div TileWidth) /\ g[c] = c0 + (c % TileWidth)

TwoRows(from) == <<from, from + 1>>

Consecutive(c0) == [j \in 1..TileWidth |-> c0 + j - 1]

(* The two rows and the consecutive columns are those that the cells name. *)
LEMMA NamesConsecutive ==
  ASSUME NEW f, NEW g, NEW from \in Nat, NEW c0 \in Nat, Tile2xTileWidth(f, g, from, c0)
  PROVE  Names(TwoRows(from), Consecutive(c0), Cells, f, g)
<1>1. PICK w : w = TileWidth
  OBVIOUS
<1>2. w \in Nat \ {0} /\ Cells = 2 * w
  BY <1>1, TileOfLanes, Zenon DEF Cells
<1>3. Len(Consecutive(c0)) = w
  <2>1. Consecutive(c0) \in [1..w -> Int]
    <3>1. \A j \in 1..w : c0 + j - 1 \in Int
      BY <1>2
    <3> QED BY <1>1, <3>1, Zenon DEF Consecutive
  <2> QED BY <1>2, <2>1
<1>4. Len(TwoRows(from)) = 2 /\ TwoRows(from)[0 + 1] = from + 0 /\ TwoRows(from)[1 + 1] = from + 1
  BY DEF TwoRows
<1>5. ASSUME NEW c \in 0..Cells - 1
      PROVE  TwoRows(from)[(c \div w) + 1] = f[c] /\ Consecutive(c0)[(c % w) + 1] = g[c]
  <2>1. PICK q, s : q = c \div w /\ s = c % w
    OBVIOUS
  <2>2. q \in 0..1 /\ s \in 0..w - 1
    BY <1>1, <2>1, CellOf, Zenon
  <2>3. f[c] = from + q /\ g[c] = c0 + s
    BY <1>1, <2>1, Zenon DEF Tile2xTileWidth
  <2>4. TwoRows(from)[q + 1] = from + q
    <3>1. q = 0 \/ q = 1
      BY <2>2
    <3> QED BY <1>4, <3>1, Zenon
  <2>5. Consecutive(c0)[s + 1] = c0 + s
    <3>1. s + 1 \in 1..w /\ c0 + (s + 1) - 1 = c0 + s
      BY <1>2, <2>2
    <3> QED BY <1>1, <3>1, Zenon DEF Consecutive
  <2> QED BY <2>1, <2>3, <2>4, <2>5, Zenon
<1> QED BY <1>2, <1>3, <1>4, <1>5, Zenon DEF Names

-----------------------------------------------------------------------------
(* A tile of the micro-kernels: the rows from `from` and the columns from  *)
(* c0, in flat buffers and in strips.                                      *)
TileOfStrips(x, from, c0) ==
  Reference(2, TileWidth, x.k, x.r, Strip(x.signal_a, from, 2), Strip(x.signal_b, c0, TileWidth),
            Strip(x.noise_a, from, 2), Strip(x.noise_b, c0, TileWidth))

FlatA(x) == Flat(x.signal_a, x.noise_a, x.m, x.k)
FlatB(x) == Flat(x.signal_b, x.noise_b, x.n, x.k)

AllAgree(x, t, want) ==
  LET from == x.a0 + 2 * t
      c0 == x.ct * TileWidth
  IN /\ Kernel8x64(Wide, FlatA(x), Pack(Wide, FlatB(x), x.n, x.k), x.a0, x.ct * (TileWidth \div Wide), x.k, x.r)[t] = want
     /\ Kernel8x64(Narrow, FlatA(x), Pack(Narrow, FlatB(x), x.n, x.k), x.a0, x.ct * (TileWidth \div Narrow), x.k, x.r)[t]
          = want
     /\ Kernel2x64(FlatA(x), Pack(Wide, FlatB(x), x.n, x.k), from, from + 1, x.ct * (TileWidth \div Wide), x.k, x.r) = want
     /\ \A cpu : /\ TileFlat(cpu, FlatA(x), FlatB(x), TwoRows(from), Consecutive(c0), x.k, x.r) = want
                 /\ ComputeJackpotFlat(cpu, 2, TileWidth, x.k, x.r, Strip(x.signal_a, from, 2), Strip(x.signal_b, c0, TileWidth),
                                       Strip(x.noise_a, from, 2), Strip(x.noise_b, c0, TileWidth)) = want

(* Every kernel leaves in a tile what the reference leaves there. *)
LEMMA TilesAgree ==
  ASSUME NEW x, KernelInput(x), NEW t \in 0..3
  PROVE  AllAgree(x, t, TileOfStrips(x, x.a0 + 2 * t, x.ct * TileWidth))
<1>1. PICK k, r, m, n, a0, ct, w, from, c0 :
        /\ k = x.k /\ r = x.r /\ m = x.m /\ n = x.n /\ a0 = x.a0 /\ ct = x.ct
        /\ w = TileWidth /\ from = a0 + 2 * t /\ c0 = ct * w
  OBVIOUS
<1>2. PICK sa, na, sb, nb : sa = x.signal_a /\ na = x.noise_a /\ sb = x.signal_b /\ nb = x.noise_b
  OBVIOUS
<1>3. /\ k \in Nat /\ k % Dword = 0 /\ r \in Nat \ {0} /\ r % Dword = 0
      /\ m \in Nat /\ a0 \in Nat /\ a0 + 8 <= m /\ AddUpToBytes(sa, na, m, k)
      /\ n \in Nat /\ ct \in Nat /\ (ct + 1) * w <= n /\ AddUpToBytes(sb, nb, n, k)
  BY <1>1, <1>2, Zenon DEF KernelInput
<1>4. Whole(k, Dword) /\ Whole(r, Dword)
  BY <1>3, Zenon DEF Whole
<1>5. w \in Nat \ {0} /\ 2 \in Nat /\ Cells = 2 * w /\ Cells \in Nat
  BY <1>1, TileOfLanes, Zenon DEF Cells
<1>6. from \in Nat /\ from + 2 <= m /\ c0 \in Nat /\ c0 + w <= n
  <2>1. from \in Nat /\ from + 2 <= m
    BY <1>1, <1>3
  <2>2. c0 = ct * w /\ (ct + 1) * w = ct * w + w /\ ct * w \in Nat
    BY <1>1, <1>3, <1>5
  <2> QED BY <1>3, <2>1, <2>2
<1>7. PICK f, g : f = [c \in 0..Cells - 1 |-> from + (c \div w)] /\ g = [c \in 0..Cells - 1 |-> c0 + (c % w)]
  OBVIOUS
<1>8. PICK p, q : p = [c \in 0..Cells - 1 |-> c \div w] /\ q = [c \in 0..Cells - 1 |-> c % w]
  OBVIOUS
<1>9. ASSUME NEW c \in 0..Cells - 1
      PROVE  /\ p[c] = c \div w /\ p[c] \in 0..2 - 1 /\ f[c] = from + p[c] /\ f[c] \in 0..m - 1
             /\ q[c] = c % w /\ q[c] \in 0..w - 1 /\ g[c] = c0 + q[c] /\ g[c] \in 0..n - 1
             /\ p[c] = IF c < w THEN 0 ELSE 1
  <2>1. p[c] = c \div w /\ f[c] = from + p[c] /\ q[c] = c % w /\ g[c] = c0 + q[c]
    BY <1>7, <1>8, Zenon
  <2>2. c \div w \in 0..1 /\ c % w \in 0..w - 1 /\ c \div w = IF c < w THEN 0 ELSE 1
    BY <1>1, CellOf, Zenon
  <2>3. p[c] \in 0..1 /\ q[c] \in 0..w - 1 /\ p[c] = IF c < w THEN 0 ELSE 1
    BY <2>1, <2>2, Zenon
  <2>4. from + p[c] \in 0..m - 1 /\ c0 + q[c] \in 0..n - 1 /\ p[c] \in 0..2 - 1
    <3> HIDE <1>1, <1>3
    <3>1. m \in Nat /\ n \in Nat
      BY <1>3
    <3> QED BY <1>5, <1>6, <2>3, <3>1
  <2> QED BY <2>1, <2>3, <2>4, Zenon
<1>10. PICK A, B : A = InOrderOf(sa, na, f, k) /\ B = InOrderOf(sb, nb, g, k)
  OBVIOUS
<1>11. AddsUp(sa, na, f, Cells, k, A) /\ AddsUp(sb, nb, g, Cells, k, B)
  BY <1>10, InOrderAddsUp, Zenon
<1>12. PICK a, b : a = FlatA(x) /\ b = FlatB(x)
  OBVIOUS
<1>13. RowsOf(a, f, Cells, k, A) /\ Rows(A, Cells, k)
  <2>1. a = Flat(sa, na, m, k)
    BY <1>1, <1>2, <1>12, Zenon DEF FlatA
  <2>2. \A c \in 0..Cells - 1 : f[c] \in 0..m - 1
    BY <1>9, Zenon
  <2>3. RowsOf(Flat(sa, na, m, k), f, Cells, k, A)
    BY <1>3, <1>11, <2>2, FlatRows, Zenon
  <2>4. Rows(A, Cells, k)
    BY <1>3, <1>11, <2>2, SummedRows, Zenon
  <2> QED BY <2>1, <2>3, <2>4, Zenon
<1>14. RowsOf(b, g, Cells, k, B) /\ Rows(B, Cells, k)
  <2>1. b = Flat(sb, nb, n, k)
    BY <1>1, <1>2, <1>12, Zenon DEF FlatB
  <2>2. \A c \in 0..Cells - 1 : g[c] \in 0..n - 1
    BY <1>9, Zenon
  <2>3. RowsOf(Flat(sb, nb, n, k), g, Cells, k, B)
    BY <1>3, <1>11, <2>2, FlatRows, Zenon
  <2>4. Rows(B, Cells, k)
    BY <1>3, <1>11, <2>2, SummedRows, Zenon
  <2> QED BY <2>1, <2>3, <2>4, Zenon
<1>15. PICK ua, ub, va, vb : /\ ua = Strip(sa, from, 2) /\ ub = Strip(sb, c0, w)
                             /\ va = Strip(na, from, 2) /\ vb = Strip(nb, c0, w)
  OBVIOUS
<1>16. /\ AddUpToBytes(ua, va, 2, k) /\ AddUpToBytes(ub, vb, w, k)
       /\ AddsUp(ua, va, p, Cells, k, A) /\ AddsUp(ub, vb, q, Cells, k, B)
  <2>1. AddUpToBytes(ua, va, 2, k)
    BY <1>3, <1>5, <1>6, <1>15, StripAddsUp, Zenon
  <2>2. AddUpToBytes(ub, vb, w, k)
    <3>1. w \in Nat
      BY <1>5
    <3> QED BY <1>3, <1>6, <1>15, <3>1, StripAddsUp, Zenon
  <2>3. AddsUp(ua, va, p, Cells, k, A)
    <3>1. \A c \in 0..Cells - 1 : p[c] \in 0..2 - 1 /\ f[c] = from + p[c]
      BY <1>9, Zenon
    <3> QED BY <1>11, <1>15, <3>1, StripOfRows, Zenon
  <2>4. AddsUp(ub, vb, q, Cells, k, B)
    <3>1. \A c \in 0..Cells - 1 : q[c] \in 0..w - 1 /\ g[c] = c0 + q[c]
      BY <1>9, Zenon
    <3> QED BY <1>11, <1>15, <3>1, StripOfRows, Zenon
  <2> QED BY <2>1, <2>2, <2>3, <2>4, Zenon
<1>17. PICK J : J = JackpotOf(Cells, k, r, A, B)
  OBVIOUS
<1>18. Reference(2, w, k, r, ua, ub, va, vb) = J
  <2>1. CellPlaces(p, q, Cells, w)
    BY <1>8, Zenon DEF CellPlaces
  <2>2. IsReference(2, w, k, r, ua, ub, va, vb, Cells, A, B)
    BY <1>3, <1>5, <1>13, <1>14, <1>16, <2>1, ReferenceIs, Zenon
  <2> QED BY <1>17, <2>2, Zenon DEF IsReference
<1>19. \A cpu : ComputeJackpotFlat(cpu, 2, w, k, r, ua, ub, va, vb) = J
  <2>1. CellPlaces(p, q, Cells, w)
    BY <1>8, Zenon DEF CellPlaces
  <2>2. \A cpu : IsJackpotFlat(cpu, 2, w, k, r, ua, ub, va, vb, Cells, A, B)
    BY <1>3, <1>5, <1>16, <2>1, ComputeJackpotFlatIs, Zenon
  <2> QED BY <1>17, <2>2, Zenon DEF IsJackpotFlat
<1>20. \A cpu : TileFlat(cpu, a, b, TwoRows(from), Consecutive(c0), k, r) = J
  <2>1. Tile2xTileWidth(f, g, from, c0)
    BY <1>1, <1>9, Zenon DEF Tile2xTileWidth
  <2>2. Names(TwoRows(from), Consecutive(c0), Cells, f, g)
    BY <1>6, <2>1, NamesConsecutive, Zenon
  <2>3. \A cpu : IsTileFlat(cpu, a, b, TwoRows(from), Consecutive(c0), Cells, k, r, A, B)
    BY <1>3, <1>5, <1>13, <1>14, <2>2, TileFlatIs, Zenon
  <2> QED BY <1>17, <2>3, Zenon DEF IsTileFlat
<1>21. ASSUME NEW lanes, lanes = Wide \/ lanes = Narrow
       PROVE  LET base == ct * (TileWidth \div lanes)
              IN base \in Nat /\ Below(base, lanes, n) /\ ColumnsOf(b, base, lanes, k, B)
  <2>1. PICK base, d : base = ct * (TileWidth \div lanes) /\ TileOf(lanes, d) /\ lanes \in Nat \ {0} /\ d \in Nat \ {0}
    <3>1. 4 \in Nat \ {0} /\ 8 \in Nat \ {0}
      OBVIOUS
    <3> QED BY <1>21, <3>1, TileOfLanes, Zenon
  <2>2. base \in Nat /\ base * lanes = c0
    BY <1>1, <1>3, <2>1, GroupOf, Zenon
  <2>3. Below(base, lanes, n)
    BY <1>1, <1>6, <2>2, Zenon DEF Below
  <2>4. \A c \in 0..Cells - 1 : g[c] = c0 + (c % TileWidth)
    BY <1>1, <1>9, Zenon
  <2>5. ColumnsOf(b, base, lanes, k, B)
    BY <1>14, <2>2, <2>4, ColumnsOfRows, Zenon
  <2> QED BY <2>1, <2>2, <2>3, <2>5, Zenon
<1>22. Kernel2x64(a, Pack(Wide, b, n, k), from, from + 1, ct * (TileWidth \div Wide), k, r) = J
  <2>1. PICK base : base = ct * (TileWidth \div Wide)
    OBVIOUS
  <2>2. base \in Nat /\ Below(base, Wide, n) /\ ColumnsOf(b, base, Wide, k, B)
    BY <1>21, <2>1, Zenon
  <2>3. f = [c \in 0..Cells - 1 |-> IF c < TileWidth THEN from ELSE from + 1]
    <3>1. ASSUME NEW c \in 0..Cells - 1 PROVE f[c] = IF c < TileWidth THEN from ELSE from + 1
      <4>1. f[c] = from + p[c] /\ p[c] = IF c < w THEN 0 ELSE 1
        BY <1>9, Zenon
      <4>2. from + 0 = from
        BY <1>6
      <4> QED BY <1>1, <4>1, <4>2, Zenon
    <3>2. f = [c \in 0..Cells - 1 |-> f[c]]
      BY <1>7
    <3> QED BY <3>1, <3>2, Zenon
  <2>4. RowsOf(a, [c \in 0..Cells - 1 |-> IF c < TileWidth THEN from ELSE from + 1], Cells, k, A)
    BY <1>13, <2>3, Zenon
  <2>5. from + 1 \in Nat
    BY <1>6
  <2>6. IsKernel2x64(a, b, n, from, from + 1, base, k, r, A, B)
    BY <1>3, <1>4, <1>6, <1>13, <1>14, <2>2, <2>4, <2>5, Kernel2x64Is, Zenon
  <2> QED BY <1>17, <2>1, <2>6, Zenon DEF IsKernel2x64
<1>23. ASSUME NEW lanes, lanes = Wide \/ lanes = Narrow
       PROVE  Kernel8x64(lanes, a, Pack(lanes, b, n, k), a0, ct * (TileWidth \div lanes), k, r)[t] = J
  <2>1. PICK base : base = ct * (TileWidth \div lanes)
    OBVIOUS
  <2>2. base \in Nat /\ Below(base, lanes, n) /\ ColumnsOf(b, base, lanes, k, B)
    BY <1>21, <1>23, <2>1, Zenon
  <2>3. f = [c \in 0..Cells - 1 |-> a0 + RowOf(t, c)]
    <3>1. ASSUME NEW c \in 0..Cells - 1 PROVE f[c] = a0 + RowOf(t, c)
      <4>1. PICK d : d = c \div w
        OBVIOUS
      <4>2. f[c] = from + d /\ d \in 0..1
        BY <1>9, <4>1
      <4>3. RowOf(t, c) = 2 * t + d
        BY <1>1, <4>1, Zenon DEF RowOf
      <4>4. from + d = a0 + (2 * t + d)
        <5>1. from = a0 + 2 * t
          BY <1>1
        <5> QED BY <1>3, <4>2, <5>1
      <4> QED BY <4>2, <4>3, <4>4, Zenon
    <3>2. f = [c \in 0..Cells - 1 |-> f[c]]
      BY <1>7
    <3> QED BY <3>1, <3>2, Zenon
  <2>4. RowsOf(a, [c \in 0..Cells - 1 |-> a0 + RowOf(t, c)], Cells, k, A)
    BY <1>13, <2>3, Zenon
  <2>5. PICK d : TileOf(lanes, d) /\ lanes \in Nat \ {0} /\ d \in Nat \ {0} /\ Whole(Cells, lanes) /\ Cells \in Nat
    <3>1. 4 \in Nat \ {0} /\ 8 \in Nat \ {0}
      OBVIOUS
    <3> QED BY <1>23, <3>1, TileOfLanes, Zenon
  <2>6. IsKernel8x64(lanes, a, b, n, a0, base, k, r, t, A, B)
    BY <1>3, <1>4, <1>13, <1>14, <2>2, <2>4, <2>5, Kernel8x64Is, Zenon
  <2> QED BY <1>17, <2>1, <2>6, Zenon DEF IsKernel8x64
<1>24. TileOfStrips(x, x.a0 + 2 * t, x.ct * TileWidth) = J
  BY <1>1, <1>2, <1>15, <1>18, Zenon DEF TileOfStrips
<1> QED BY <1>1, <1>2, <1>12, <1>15, <1>19, <1>20, <1>22, <1>23, <1>24, Zenon DEF AllAgree

(* KernelsAgree for every input the micro-kernels are made for: however    *)
(* the products are split into lanes, groups and accumulators, every       *)
(* variant makes the jackpots of the reference.                            *)
THEOREM KernelsAlwaysAgree ==
  ASSUME KernelInput(input)
  PROVE  KernelsAgree
<1> DEFINE k == input.k
           r == input.r
           c0 == input.ct * TileWidth
           from(t) == input.a0 + 2 * t
           sa(t) == Strip(input.signal_a, from(t), 2)
           na(t) == Strip(input.noise_a, from(t), 2)
           sb == Strip(input.signal_b, c0, TileWidth)
           nb == Strip(input.noise_b, c0, TileWidth)
<1>1. SUFFICES ASSUME NEW a \in {FlatA(input)}, NEW b \in {FlatB(input)},
                      NEW wide \in {Pack(Wide, b, input.n, k)}, NEW narrow \in {Pack(Narrow, b, input.n, k)},
                      NEW four \in {<<Kernel8x64Avx512(a, wide, input.a0, input.ct * (TileWidth \div Wide), k, r),
                                     Kernel8x64AvxVnni(a, narrow, input.a0, input.ct * (TileWidth \div Narrow), k, r)>>},
                      NEW t \in 0..3,
                      NEW want \in {Reference(2, TileWidth, k, r, sa(t), sb, na(t), nb)}
               PROVE  /\ four[1][t] = want /\ four[2][t] = want
                      /\ Kernel2x64(a, wide, from(t), from(t) + 1, input.ct * (TileWidth \div Wide), k, r) = want
                      /\ \A cpu \in {"avx512", "avxvnni", "scalar"} :
                           /\ TileFlat(cpu, a, b, <<from(t), from(t) + 1>>, [j \in 1..TileWidth |-> c0 + j - 1], k, r) = want
                           /\ t = 0 => ComputeJackpotFlat(cpu, 2, TileWidth, k, r, sa(t), sb, na(t), nb) = want
  BY Zenon DEF KernelsAgree, FlatA, FlatB, Flat, Strip
<1>2. AllAgree(input, t, TileOfStrips(input, input.a0 + 2 * t, input.ct * TileWidth))
  BY TilesAgree, Zenon
<1>3. want = TileOfStrips(input, input.a0 + 2 * t, input.ct * TileWidth)
  BY Zenon DEF TileOfStrips
<1>4. AllAgree(input, t, want)
  BY <1>2, <1>3, Zenon
<1>5. /\ a = FlatA(input) /\ b = FlatB(input) /\ wide = Pack(Wide, b, input.n, k) /\ narrow = Pack(Narrow, b, input.n, k)
      /\ four = <<Kernel8x64Avx512(a, wide, input.a0, input.ct * (TileWidth \div Wide), k, r),
                  Kernel8x64AvxVnni(a, narrow, input.a0, input.ct * (TileWidth \div Narrow), k, r)>>
  OBVIOUS
<1>6. four[1] = Kernel8x64(Wide, a, wide, input.a0, input.ct * (TileWidth \div Wide), k, r)
  <2>1. \A x, y : <<x, y>>[1] = x
    OBVIOUS
  <2> QED BY <1>5, <2>1, Zenon DEF Kernel8x64Avx512
<1>7. four[2] = Kernel8x64(Narrow, a, narrow, input.a0, input.ct * (TileWidth \div Narrow), k, r)
  <2>1. \A x, y : <<x, y>>[2] = y
    OBVIOUS
  <2> QED BY <1>5, <2>1, Zenon DEF Kernel8x64AvxVnni
<1>8. four[1][t] = want /\ four[2][t] = want
  BY <1>4, <1>5, <1>6, <1>7, Zenon DEF AllAgree
<1>9. Kernel2x64(a, wide, from(t), from(t) + 1, input.ct * (TileWidth \div Wide), k, r) = want
  BY <1>4, <1>5, Zenon DEF AllAgree
<1>10. \A cpu : /\ TileFlat(cpu, a, b, TwoRows(from(t)), Consecutive(c0), k, r) = want
                /\ ComputeJackpotFlat(cpu, 2, TileWidth, k, r, sa(t), sb, na(t), nb) = want
  BY <1>4, <1>5, Zenon DEF AllAgree
<1> QED BY <1>8, <1>9, <1>10, Zenon DEF TwoRows, Consecutive

Quarter == Half \div 4

(* Half is a multiple of 4, and so of 2. *)
LEMMA QuarterIs ==
  Half = 4 * Quarter /\ Half \div 2 = 2 * Quarter /\ Quarter \in Nat \ {0} /\ Half \in Nat \ {0}
<1>1. Half \in Nat \ {0} /\ Half % 4 = 0
  BY WordAssumption, VectorAssumption
<1>2. PICK h : h = Half
  OBVIOUS
<1>3. h \in Nat \ {0} /\ h % 4 = 0
  BY <1>1, <1>2
<1>4. PICK q : q = h \div 4
  OBVIOUS
<1>5. q \in Nat /\ h = 4 * q
  BY <1>3, <1>4
<1>6. h \div 2 = 2 * q /\ q # 0
  BY <1>3, <1>5
<1> QED BY <1>1, <1>2, <1>4, <1>5, <1>6 DEF Quarter

(* A row of the random matrix.                                             *)
Entries == -Quarter..Quarter - 1

(* An entry of the random matrix has 6 bits. *)
LEMMA UniformRowIs ==
  ASSUME DigestIsNumber, NEW label, NEW seed, NEW index, NEW rank \in Nat, NEW x \in 0..rank - 1
  PROVE  UniformRow(label, seed, index, rank)[x] \in Entries
<1>1. PICK d, p : d = Blake3(seed, <<label, index, x>>) /\ p = Half \div 2
  OBVIOUS
<1>2. d \in Nat
  BY <1>1, Zenon DEF DigestIsNumber
<1>3. p = 2 * Quarter /\ p \in Nat \ {0} /\ Quarter \in Nat
  BY <1>1, QuarterIs
<1>4. PICK s : s = d % p
  OBVIOUS
<1>5. s \in 0..p - 1
  BY <1>2, <1>3, <1>4, RemainderIn, Zenon
<1>6. UniformRow(label, seed, index, rank)[x] = s - Quarter
  BY <1>1, <1>4, Zenon DEF UniformRow, Quarter
<1> QED BY <1>3, <1>5, <1>6 DEF Entries

(* A column of the permutation matrix: two rows of it.                     *)
PairsOf(perm, k, rank) ==
  DOMAIN perm = 0..k - 1 /\ \A j \in 0..k - 1 : perm[j][1] \in 0..rank - 1 /\ perm[j][2] \in 0..rank - 1

(* A column names two rows of the matrix. *)
LEMMA PermutationIs ==
  ASSUME DigestIsNumber, NEW label, NEW seed, NEW k \in Nat, NEW rank \in Nat, rank >= 2
  PROVE  PairsOf(PermutationColumns(label, seed, k, rank), k, rank)
<1>1. DOMAIN PermutationColumns(label, seed, k, rank) = 0..k - 1
  BY Zenon DEF PermutationColumns
<1>2. ASSUME NEW j \in 0..k - 1
      PROVE  /\ PermutationColumns(label, seed, k, rank)[j][1] \in 0..rank - 1
             /\ PermutationColumns(label, seed, k, rank)[j][2] \in 0..rank - 1
  <2>1. PICK h : h = Blake3(seed, <<label, -1, j>>)
    OBVIOUS
  <2>2. h \in Nat
    BY <2>1, Zenon DEF DigestIsNumber
  <2>3. PICK s : s = (h \div rank) % (rank - 1)
    OBVIOUS
  <2>4. s \in Nat
    <3>1. rank \in Nat \ {0} /\ rank - 1 \in Nat \ {0}
      OBVIOUS
    <3>2. h \div rank \in Nat
      BY <2>2, <3>1, QuotientIn, Zenon
    <3>3. s \in 0..(rank - 1) - 1
      BY <2>3, <3>1, <3>2, RemainderIn, Zenon
    <3> QED BY <3>3
  <2>5. h % rank \in 0..rank - 1 /\ (h + 1 + s) % rank \in 0..rank - 1
    <3>1. rank \in Nat \ {0}
      OBVIOUS
    <3>2. h % rank \in 0..rank - 1
      BY <2>2, <3>1, RemainderIn, Zenon
    <3>3. h + 1 + s \in Nat
      BY <2>2, <2>4
    <3>4. (h + 1 + s) % rank \in 0..rank - 1
      BY <3>1, <3>3, RemainderIn, Zenon
    <3> QED BY <3>2, <3>4
  <2>9. PICK u, v : u = h % rank /\ v = (h + 1 + s) % rank
    OBVIOUS
  <2>6. PermutationColumns(label, seed, k, rank)[j] = <<u, v>>
    BY <2>1, <2>3, <2>9, Zenon DEF PermutationColumns
  <2>7. PICK pair : pair = PermutationColumns(label, seed, k, rank)[j]
    OBVIOUS
  <2>8. pair = <<u, v>>
    BY <2>6, <2>7, Zenon
  <2>10. pair[1] = u /\ pair[2] = v
    BY <2>8
  <2> QED BY <2>5, <2>7, <2>9, <2>10, Zenon
<1> QED BY <1>1, <1>2, Zenon DEF PairsOf

(* The two registers are the row.                                          *)
LEMMA Permute2Is ==
  ASSUME NEW row, NEW i \in 0..2 * Vector - 1
  PROVE  Permute2([x \in 0..Vector - 1 |-> row[x]], i, [x \in 0..Vector - 1 |-> row[Vector + x]]) = row[i]
<1>1. Vector \in Nat \ {0}
  BY VectorAssumption, WordAssumption
<1>2. PICK p : p = 2 * Vector
  OBVIOUS
<1>3. i % p = i
  BY <1>1, <1>2, BelowDivisor
<1>4. i < Vector => i \in 0..Vector - 1
  BY <1>1
<1>5. ~(i < Vector) => i - Vector \in 0..Vector - 1 /\ Vector + (i - Vector) = i
  BY <1>1
<1> DEFINE lo == [x \in 0..Vector - 1 |-> row[x]]
           hi == [x \in 0..Vector - 1 |-> row[Vector + x]]
<1>6. Permute2(lo, i, hi) = IF i < Vector THEN lo[i] ELSE hi[i - Vector]
  <2>1. i % (2 * Vector) = i
    BY <1>2, <1>3, Zenon
  <2> HIDE DEF lo, hi
  <2>2. Permute2(lo, i, hi) = IF i % (2 * Vector) < Vector THEN lo[i % (2 * Vector)] ELSE hi[(i % (2 * Vector)) - Vector]
    BY Zenon DEF Permute2
  <2> QED BY <2>1, <2>2, Zenon
<1>7. CASE i < Vector
  <2>1. lo[i] = row[i]
    BY <1>4, <1>7, Zenon
  <2> QED BY <1>6, <1>7, <2>1, Zenon
<1>8. CASE ~(i < Vector)
  <2>1. hi[i - Vector] = row[Vector + (i - Vector)]
    BY <1>5, <1>8, Zenon
  <2> QED BY <1>5, <1>6, <1>8, <2>1, Zenon
<1> QED BY <1>7, <1>8

EntriesOf(row) == \A x \in 0..2 * Vector - 1 : row[x] \in Entries

StreamOf(first, k) == \A j \in 0..k - 1 : first[j] \in 0..2 * Vector - 1

IsPermuted(row, first, second, k, j) == MatvecPerm(row, first, second, k)[j] = row[first[j]] - row[second[j]]

(* With shuffles, an entry of the noise is the difference of the two       *)
(* entries that its column names.                                          *)
LEMMA MatvecPermIs ==
  ASSUME NEW row, EntriesOf(row), NEW k \in Nat, NEW first, NEW second, StreamOf(first, k), StreamOf(second, k),
         NEW j \in 0..k - 1
  PROVE  IsPermuted(row, first, second, k, j)
<1>1. PICK x, y : x = row[first[j]] /\ y = row[second[j]]
  OBVIOUS
<1>2. first[j] \in 0..2 * Vector - 1 /\ second[j] \in 0..2 * Vector - 1
  BY DEF StreamOf
<1>3. x \in Entries /\ y \in Entries
  BY <1>1, <1>2, Zenon DEF EntriesOf
<1>4. x \in Bytes /\ y \in Bytes /\ x - y \in Bytes
  <2>1. PICK q, h : q = Quarter /\ h = Half
    OBVIOUS
  <2>2. h = 4 * q /\ q \in Nat
    BY <2>1, QuarterIs
  <2>3. x \in -q..q - 1 /\ y \in -q..q - 1
    BY <1>3, <2>1, Zenon DEF Entries
  <2>4. x \in -h..h - 1 /\ y \in -h..h - 1 /\ x - y \in -h..h - 1
    <3> HIDE <1>1, <2>1
    <3> QED BY <2>2, <2>3
  <2> QED BY <2>1, <2>4, Zenon DEF Bytes
<1>5. Byte(x) = x /\ Byte(y) = y /\ Byte(x - y) = x - y
  BY <1>4, ByteOfByte, Zenon
<1>6. PICK lo, hi, whole : /\ lo = [i \in 0..Vector - 1 |-> row[i]] /\ hi = [i \in 0..Vector - 1 |-> row[Vector + i]]
                           /\ whole = (k \div Vector) * Vector
  OBVIOUS
<1>7. Permute2(lo, first[j], hi) = x /\ Permute2(lo, second[j], hi) = y
  BY <1>1, <1>2, <1>6, Permute2Is, Zenon
<1>8. MatvecPerm(row, first, second, k)[j]
        = IF j < whole THEN Byte(Byte(Permute2(lo, first[j], hi)) - Byte(Permute2(lo, second[j], hi)))
          ELSE Byte(x - y)
  BY <1>1, <1>6, Zenon DEF MatvecPerm
<1> QED BY <1>1, <1>5, <1>7, <1>8, Zenon DEF IsPermuted

-----------------------------------------------------------------------------
(* The noise of some rows, as the verifier computes it.                    *)
NoiseOf(label, seed, indices, k, rank) ==
  [u \in 0..Len(indices) - 1 |->
     [j \in 0..k - 1 |-> UniformRow(label, seed, indices[u + 1], rank)[PermutationColumns(label, seed, k, rank)[j][1]]
                          - UniformRow(label, seed, indices[u + 1], rank)[PermutationColumns(label, seed, k, rank)[j][2]]]]

(* The noise of both sides, in one form. *)
LEMMA NoiseIs ==
  ASSUME NEW k, NEW rank, NEW a_seed, NEW b_seed, NEW a_rows, NEW b_cols
  PROVE  Noise(k, rank, a_seed, b_seed, a_rows, b_cols)
           = [a |-> NoiseOf(SEED_LABEL_A, a_seed, a_rows, k, rank), b |-> NoiseOf(SEED_LABEL_B, b_seed, b_cols, k, rank)]
BY Zenon DEF Noise, NoiseOf

(* What a row of the noise is made of, when the rank is that of the        *)
(* registers.                                                              *)
Shuffled(label, seed, index, k, rank, j) ==
  MatvecPerm(UniformRow(label, seed, index, rank), Split(PermutationColumns(label, seed, k, rank))[1],
             Split(PermutationColumns(label, seed, k, rank))[2], k)[j]

Permuted(label, seed, index, k, rank, j) ==
  UniformRow(label, seed, index, rank)[PermutationColumns(label, seed, k, rank)[j][1]]
    - UniformRow(label, seed, index, rank)[PermutationColumns(label, seed, k, rank)[j][2]]

FullRow(rank) == rank \in Nat /\ rank >= 2 /\ rank = 2 * Vector

SameEntry(label, seed, index, k, rank, j) ==
  Shuffled(label, seed, index, k, rank, j) = Permuted(label, seed, index, k, rank, j)

(* The shuffled entry is the one of the verifier. *)
LEMMA ShuffledIs ==
  ASSUME DigestIsNumber, NEW label, NEW seed, NEW index, NEW k \in Nat, NEW rank, FullRow(rank), NEW j \in 0..k - 1
  PROVE  SameEntry(label, seed, index, k, rank, j)
<1>1. PICK row, perm : row = UniformRow(label, seed, index, rank) /\ perm = PermutationColumns(label, seed, k, rank)
  OBVIOUS
<1>0. rank \in Nat /\ rank >= 2 /\ rank = 2 * Vector
  BY DEF FullRow
<1>2. EntriesOf(row)
  <2>1. ASSUME NEW x \in 0..rank - 1 PROVE row[x] \in Entries
    BY <1>0, <1>1, UniformRowIs, Zenon
  <2> QED BY <1>0, <2>1, Zenon DEF EntriesOf
<1>3. PairsOf(perm, k, rank)
  <2>1. rank \in Nat /\ rank >= 2
    BY <1>0
  <2>2. PairsOf(PermutationColumns(label, seed, k, rank), k, rank)
    BY <2>1, PermutationIs, Zenon
  <2> QED BY <1>1, <2>2, Zenon
<1>13. DOMAIN perm = 0..k - 1 /\ \A i \in 0..k - 1 : perm[i][1] \in 0..rank - 1 /\ perm[i][2] \in 0..rank - 1
  BY <1>3, Zenon DEF PairsOf
<1>4. PICK first, second : first = Split(perm)[1] /\ second = Split(perm)[2]
  OBVIOUS
<1>5. /\ first = [i \in DOMAIN perm |-> perm[i][1] % (2 * Half)]
      /\ second = [i \in DOMAIN perm |-> perm[i][2] % (2 * Half)]
  <2>1. \A x, y : <<x, y>>[1] = x /\ <<x, y>>[2] = y
    OBVIOUS
  <2> QED BY <1>4, <2>1, Zenon DEF Split
<1>6. ASSUME NEW i \in 0..rank - 1 PROVE i % (2 * Half) = i
  <2>1. PICK p : p = 2 * Half
    OBVIOUS
  <2>2. p \in Nat \ {0} /\ i \in 0..p - 1
    <3>1. Vector \in Nat /\ Vector <= Half /\ Half \in Nat \ {0}
      BY VectorAssumption, WordAssumption
    <3> QED BY <1>0, <2>1, <3>1
  <2>3. i % p = i
    BY <2>2, BelowDivisor, Zenon
  <2> QED BY <2>1, <2>3, Zenon
<1>7. ASSUME NEW i \in 0..k - 1 PROVE first[i] = perm[i][1] /\ second[i] = perm[i][2]
  <2>1. PICK x, y : x = perm[i][1] /\ y = perm[i][2]
    OBVIOUS
  <2>2. x \in 0..rank - 1 /\ y \in 0..rank - 1
    BY <1>13, <2>1, Zenon
  <2>3. x % (2 * Half) = x /\ y % (2 * Half) = y
    BY <1>6, <2>2, Zenon
  <2>4. first[i] = x % (2 * Half)
    BY <1>13, <1>5, <2>1, Zenon
  <2>5. second[i] = y % (2 * Half)
    BY <1>13, <1>5, <2>1, Zenon
  <2> QED BY <2>1, <2>3, <2>4, <2>5, Zenon
<1>8. StreamOf(first, k) /\ StreamOf(second, k)
  <2>1. \A i \in 0..k - 1 : first[i] \in 0..rank - 1 /\ second[i] \in 0..rank - 1
    BY <1>13, <1>7, Zenon
  <2>2. 0..rank - 1 = 0..2 * Vector - 1
    BY <1>0, Zenon
  <2> QED BY <2>1, <2>2, Zenon DEF StreamOf
<1>9. MatvecPerm(row, first, second, k)[j] = row[first[j]] - row[second[j]]
  <2>1. IsPermuted(row, first, second, k, j)
    BY <1>2, <1>8, MatvecPermIs, Zenon
  <2> QED BY <2>1, Zenon DEF IsPermuted
<1>10. Shuffled(label, seed, index, k, rank, j) = MatvecPerm(row, first, second, k)[j]
  BY <1>1, <1>4, Zenon DEF Shuffled
<1>11. Permuted(label, seed, index, k, rank, j) = row[perm[j][1]] - row[perm[j][2]]
  BY <1>1, Zenon DEF Permuted
<1>12. first[j] = perm[j][1] /\ second[j] = perm[j][2]
  BY <1>7, Zenon
<1> QED BY <1>9, <1>10, <1>11, <1>12, Zenon DEF SameEntry

(* A row of the shuffled noise, and the row of the verifier.               *)
ShuffledRow(label, seed, index, k, rank) ==
  MatvecPerm(UniformRow(label, seed, index, rank), Split(PermutationColumns(label, seed, k, rank))[1],
             Split(PermutationColumns(label, seed, k, rank))[2], k)

SameRow(label, seed, index, k, rank) ==
  ShuffledRow(label, seed, index, k, rank) = [j \in 0..k - 1 |-> Permuted(label, seed, index, k, rank, j)]

(* A row of the shuffled noise has k entries. *)
LEMMA RowIsTabulated ==
  ASSUME NEW row, NEW first, NEW second, NEW k
  PROVE  \E f : MatvecPerm(row, first, second, k) = [j \in 0..k - 1 |-> f[j]]
<1>1. PICK f : f = MatvecPerm(row, first, second, k)
  OBVIOUS
<1>2. \E g : f = [j \in 0..k - 1 |-> g[j]]
  <2> DEFINE lo == [x \in 0..Vector - 1 |-> row[x]]
             hi == [x \in 0..Vector - 1 |-> row[Vector + x]]
             g == [j \in 0..k - 1 |->
                     IF j < (k \div Vector) * Vector
                     THEN Byte(Byte(Permute2(lo, first[j], hi)) - Byte(Permute2(lo, second[j], hi)))
                     ELSE Byte(row[first[j]] - row[second[j]])]
  <2>1. f = g
    BY <1>1, Zenon DEF MatvecPerm
  <2>2. g = [j \in 0..k - 1 |-> g[j]]
    <3>1. ASSUME NEW j \in 0..k - 1
          PROVE  g[j] = IF j < (k \div Vector) * Vector
                     THEN Byte(Byte(Permute2(lo, first[j], hi)) - Byte(Permute2(lo, second[j], hi)))
                     ELSE Byte(row[first[j]] - row[second[j]])
      BY Zenon
    <3> QED BY <3>1, Zenon
  <2> HIDE DEF g
  <2> QED BY <2>1, <2>2, Zenon
<1> QED BY <1>1, <1>2, Zenon

(* So are the rows. *)
LEMMA SameRows ==
  ASSUME DigestIsNumber, NEW label, NEW seed, NEW index, NEW k \in Nat, NEW rank, FullRow(rank)
  PROVE  SameRow(label, seed, index, k, rank)
<1>1. PICK f : ShuffledRow(label, seed, index, k, rank) = [j \in 0..k - 1 |-> f[j]]
  BY RowIsTabulated, Zenon DEF ShuffledRow
<1>2. ASSUME NEW j \in 0..k - 1 PROVE f[j] = Permuted(label, seed, index, k, rank, j)
  <2>1. Shuffled(label, seed, index, k, rank, j) = Permuted(label, seed, index, k, rank, j)
    BY ShuffledIs, Zenon DEF SameEntry
  <2>2. ShuffledRow(label, seed, index, k, rank)[j] = Permuted(label, seed, index, k, rank, j)
    BY <2>1, Zenon DEF Shuffled, ShuffledRow
  <2>3. ShuffledRow(label, seed, index, k, rank)[j] = f[j]
    BY <1>1, Zenon
  <2> QED BY <2>2, <2>3, Zenon
<1>3. [j \in 0..k - 1 |-> f[j]] = [j \in 0..k - 1 |-> Permuted(label, seed, index, k, rank, j)]
  BY <1>2, Zenon
<1> QED BY <1>1, <1>3, Zenon DEF SameRow

(* All the shuffled rows of one side.                                      *)
ShuffledRows(label, seed, indices, k, rank) ==
  [u \in 0..Len(indices) - 1 |-> ShuffledRow(label, seed, indices[u + 1], k, rank)]

SameNoise(label, seed, indices, k, rank) ==
  ShuffledRows(label, seed, indices, k, rank) = NoiseOf(label, seed, indices, k, rank)

(* So is all the noise of one side. *)
LEMMA NoisesAreSame ==
  ASSUME DigestIsNumber, NEW label, NEW seed, NEW indices, NEW k \in Nat, NEW rank, FullRow(rank)
  PROVE  SameNoise(label, seed, indices, k, rank)
<1>1. ASSUME NEW u
      PROVE  ShuffledRow(label, seed, indices[u + 1], k, rank)
               = [j \in 0..k - 1 |-> Permuted(label, seed, indices[u + 1], k, rank, j)]
  <2>1. SameRow(label, seed, indices[u + 1], k, rank)
    BY SameRows, Zenon
  <2> QED BY <2>1, Zenon DEF SameRow
<1>2. ShuffledRows(label, seed, indices, k, rank)
        = [u \in 0..Len(indices) - 1 |-> [j \in 0..k - 1 |-> Permuted(label, seed, indices[u + 1], k, rank, j)]]
  BY <1>1, Zenon DEF ShuffledRows
<1>3. NoiseOf(label, seed, indices, k, rank)
        = [u \in 0..Len(indices) - 1 |-> [j \in 0..k - 1 |-> Permuted(label, seed, indices[u + 1], k, rank, j)]]
  BY Zenon DEF NoiseOf, Permuted
<1> QED BY <1>2, <1>3, Zenon DEF SameNoise

(* The noise is the same with or without the shuffles.                     *)
IsNoise(vbmi, k, rank, seeds, a_rows, b_cols) ==
  ComputeNoiseFast(vbmi, k, rank, seeds, a_rows, b_cols) = Noise(k, rank, seeds[2], seeds[1], a_rows, b_cols)

(* Whether or not the processor shuffles, the noise is the verifier's. *)
LEMMA FastIsNoise ==
  ASSUME DigestIsNumber, NEW vbmi, NEW k \in Nat, NEW rank \in Nat, rank >= 2, NEW seeds, NEW a_rows, NEW b_cols
  PROVE  IsNoise(vbmi, k, rank, seeds, a_rows, b_cols)
<1>1. CASE ~FastNoiseApplicable(vbmi, rank)
  BY <1>1, Zenon DEF ComputeNoiseFast, IsNoise
<1>2. CASE FastNoiseApplicable(vbmi, rank)
  <2>1. FullRow(rank)
    BY <1>2 DEF FastNoiseApplicable, FullRow
  <2>2. NoiseSeeds(seeds).a = seeds[2] /\ NoiseSeeds(seeds).b = seeds[1]
    BY DEF NoiseSeeds
  <2>3. ComputeNoiseFast(vbmi, k, rank, seeds, a_rows, b_cols)
          = [a |-> ShuffledRows(SEED_LABEL_A, NoiseSeeds(seeds).a, a_rows, k, rank),
             b |-> ShuffledRows(SEED_LABEL_B, NoiseSeeds(seeds).b, b_cols, k, rank)]
    BY <1>2, Zenon DEF ComputeNoiseFast, ShuffledRows, ShuffledRow
  <2>4. /\ ShuffledRows(SEED_LABEL_A, seeds[2], a_rows, k, rank) = NoiseOf(SEED_LABEL_A, seeds[2], a_rows, k, rank)
        /\ ShuffledRows(SEED_LABEL_B, seeds[1], b_cols, k, rank) = NoiseOf(SEED_LABEL_B, seeds[1], b_cols, k, rank)
    <3>1. SameNoise(SEED_LABEL_A, seeds[2], a_rows, k, rank) /\ SameNoise(SEED_LABEL_B, seeds[1], b_cols, k, rank)
      BY <2>1, NoisesAreSame, Zenon
    <3> QED BY <3>1, Zenon DEF SameNoise
  <2> QED BY <2>2, <2>3, <2>4, NoiseIs, Zenon DEF IsNoise
<1> QED BY <1>1, <1>2

(* A place of a flat buffer of `rows` rows of k names a row and a column.  *)
IsPlaceOf(x, k, rows, u, l) == u \in 0..rows - 1 /\ l \in 0..k - 1 /\ u * k + l = x

(* It does, at any place. *)
LEMMA RowOfPlace ==
  ASSUME NEW rows \in Nat, NEW k \in Nat \ {0}, NEW x \in 0..rows * k - 1
  PROVE  IsPlaceOf(x, k, rows, x \div k, x % k)
<1>1. x \div k \in 0..rows - 1 /\ x % k \in 0..k - 1
  BY CellIn, Zenon
<1>2. x \in Nat
  <2>1. rows * k \in Int
    OBVIOUS
  <2> QED BY <2>1
<1>3. PICK u, l : u = x \div k /\ l = x % k
  OBVIOUS
<1>4. x = k * u + l
  BY <1>2, <1>3, Division, Zenon
<1>5. u \in Nat
  BY <1>1, <1>3
<1>6. u * k + l = x
  <2> HIDE <1>1, <1>3
  <2>1. k * u = u * k
    BY <1>5
  <2> QED BY <1>4, <2>1, Zenon
<1> QED BY <1>1, <1>3, <1>6, Zenon DEF IsPlaceOf

(* The row that the fused addition makes.                                  *)
Fused(label, seed, indices, k, rank, buf, u) ==
  MatvecPermAddInto(UniformRow(label, seed, indices[u + 1], rank), Split(PermutationColumns(label, seed, k, rank))[1],
                    Split(PermutationColumns(label, seed, k, rank))[2], [l \in 0..k - 1 |-> buf[u * k + l]])

IsFused(label, seed, indices, k, rank, buf, u, l) ==
  Fused(label, seed, indices, k, rank, buf, u)[l]
    = Byte(buf[u * k + l] + NoiseOf(label, seed, indices, k, rank)[u][l])

(* An entry of the fused row is the byte of both. *)
LEMMA FusedIs ==
  ASSUME DigestIsNumber, NEW label, NEW seed, NEW indices \in Seq(Nat), NEW k \in Nat \ {0}, NEW rank, FullRow(rank),
         NEW buf, NEW u \in 0..Len(indices) - 1, NEW l \in 0..k - 1
  PROVE  IsFused(label, seed, indices, k, rank, buf, u, l)
<1>1. PICK dst, y : dst = [i \in 0..k - 1 |-> buf[u * k + i]] /\ y = buf[u * k + l]
  OBVIOUS
<1>2. DOMAIN dst = 0..k - 1 /\ dst[l] = y
  BY <1>1, Zenon
<1>3. Cardinality(DOMAIN dst) = k
  <2>1. Cardinality(0..k - 1) = k
    <3>1. 0 \in Int /\ k - 1 \in Int
      OBVIOUS
    <3>2. Cardinality(0..k - 1) = IF 0 > k - 1 THEN 0 ELSE (k - 1) - 0 + 1
      BY <3>1, FS_Interval, Zenon
    <3> QED BY <3>2
  <2> QED BY <1>2, <2>1, Zenon
<1>4. PICK row, first, second : /\ row = UniformRow(label, seed, indices[u + 1], rank)
                                /\ first = Split(PermutationColumns(label, seed, k, rank))[1]
                                /\ second = Split(PermutationColumns(label, seed, k, rank))[2]
  OBVIOUS
<1>5. PICK noise : noise = MatvecPerm(row, first, second, k)
  OBVIOUS
<1>6. MatvecPermAddInto(row, first, second, dst)[l] = Byte(y + noise[l])
  BY <1>2, <1>3, <1>5, Zenon DEF MatvecPermAddInto
<1>7. Fused(label, seed, indices, k, rank, buf, u) = MatvecPermAddInto(row, first, second, dst)
  BY <1>1, <1>4, Zenon DEF Fused
<1>8. noise[l] = Permuted(label, seed, indices[u + 1], k, rank, l)
  <2>1. SameEntry(label, seed, indices[u + 1], k, rank, l)
    BY ShuffledIs, Zenon
  <2> QED BY <1>4, <1>5, <2>1, Zenon DEF SameEntry, Shuffled
<1>9. NoiseOf(label, seed, indices, k, rank)[u][l] = Permuted(label, seed, indices[u + 1], k, rank, l)
  BY Zenon DEF NoiseOf, Permuted
<1> QED BY <1>1, <1>6, <1>7, <1>8, <1>9, Zenon DEF IsFused

(* What the additions make of one side.                                    *)
FusedSide(label, seed, indices, k, rank, buf) ==
  [x \in DOMAIN buf |-> [u \in 0..Len(indices) - 1 |-> Fused(label, seed, indices, k, rank, buf, u)][x \div k][x % k]]

NoiseAdded(added, label, seed, indices, k, rank, buf) ==
  \A x \in DOMAIN buf : added[x] = Byte(buf[x] + NoiseOf(label, seed, indices, k, rank)[x \div k][x % k])

(* The fused addition adds the noise of each row. *)
LEMMA FusedSideIs ==
  ASSUME DigestIsNumber, NEW label, NEW seed, NEW indices \in Seq(Nat), NEW k \in Nat \ {0}, NEW rank, FullRow(rank),
         NEW buf, DOMAIN buf = 0..Len(indices) * k - 1
  PROVE  NoiseAdded(FusedSide(label, seed, indices, k, rank, buf), label, seed, indices, k, rank, buf)
<1> SUFFICES ASSUME NEW x \in DOMAIN buf
             PROVE  FusedSide(label, seed, indices, k, rank, buf)[x]
                      = Byte(buf[x] + NoiseOf(label, seed, indices, k, rank)[x \div k][x % k])
  BY Zenon DEF NoiseAdded
<1>1. PICK u, l : u = x \div k /\ l = x % k
  OBVIOUS
<1>2. u \in 0..Len(indices) - 1 /\ l \in 0..k - 1 /\ u * k + l = x
  <2>1. Len(indices) \in Nat
    OBVIOUS
  <2>2. IsPlaceOf(x, k, Len(indices), x \div k, x % k)
    BY <2>1, RowOfPlace, Zenon
  <2> QED BY <1>1, <2>2, Zenon DEF IsPlaceOf
<1>3. FusedSide(label, seed, indices, k, rank, buf)[x] = Fused(label, seed, indices, k, rank, buf, u)[l]
  BY <1>1, <1>2, Zenon DEF FusedSide
<1>4. Fused(label, seed, indices, k, rank, buf, u)[l]
        = Byte(buf[u * k + l] + NoiseOf(label, seed, indices, k, rank)[u][l])
  <2>1. IsFused(label, seed, indices, k, rank, buf, u, l)
    BY <1>2, FusedIs, Zenon
  <2> QED BY <2>1, Zenon DEF IsFused
<1> QED BY <1>1, <1>2, <1>3, <1>4, Zenon

(* The addition on the way adds the noise and nothing else.                *)
LEMMA AddNoiseIs ==
  ASSUME DigestIsNumber, NEW vbmi, NEW k \in Nat \ {0}, NEW rank \in Nat, rank >= 2, NEW seeds,
         NEW a_rows \in Seq(Nat), NEW b_cols \in Seq(Nat),
         NEW a_buf, DOMAIN a_buf = 0..Len(a_rows) * k - 1, NEW b_buf, DOMAIN b_buf = 0..Len(b_cols) * k - 1
  PROVE  /\ NoiseAdded(AddNoiseIntoFast(vbmi, k, rank, seeds, a_rows, b_cols, a_buf, b_buf).a,
                       SEED_LABEL_A, seeds[2], a_rows, k, rank, a_buf)
         /\ NoiseAdded(AddNoiseIntoFast(vbmi, k, rank, seeds, a_rows, b_cols, a_buf, b_buf).b,
                       SEED_LABEL_B, seeds[1], b_cols, k, rank, b_buf)
<1>1. PICK made : made = AddNoiseIntoFast(vbmi, k, rank, seeds, a_rows, b_cols, a_buf, b_buf)
  OBVIOUS
<1>2. CASE FastNoiseApplicable(vbmi, rank)
  <2>1. FullRow(rank)
    BY <1>2 DEF FastNoiseApplicable, FullRow
  <2>2. NoiseSeeds(seeds).a = seeds[2] /\ NoiseSeeds(seeds).b = seeds[1]
    BY DEF NoiseSeeds
  <2>3. made = [a |-> FusedSide(SEED_LABEL_A, NoiseSeeds(seeds).a, a_rows, k, rank, a_buf),
                b |-> FusedSide(SEED_LABEL_B, NoiseSeeds(seeds).b, b_cols, k, rank, b_buf)]
    BY <1>1, <1>2, Zenon DEF AddNoiseIntoFast, FusedSide, Fused
  <2>4. /\ NoiseAdded(FusedSide(SEED_LABEL_A, seeds[2], a_rows, k, rank, a_buf), SEED_LABEL_A, seeds[2], a_rows, k, rank, a_buf)
        /\ NoiseAdded(FusedSide(SEED_LABEL_B, seeds[1], b_cols, k, rank, b_buf), SEED_LABEL_B, seeds[1], b_cols, k, rank, b_buf)
    BY <2>1, FusedSideIs, Zenon
  <2>5. /\ made.a = FusedSide(SEED_LABEL_A, seeds[2], a_rows, k, rank, a_buf)
        /\ made.b = FusedSide(SEED_LABEL_B, seeds[1], b_cols, k, rank, b_buf)
    BY <2>2, <2>3, Zenon
  <2> QED BY <1>1, <2>4, <2>5, Zenon
<1>3. CASE ~FastNoiseApplicable(vbmi, rank)
  <2>1. PICK noise : noise = [a |-> NoiseOf(SEED_LABEL_A, seeds[2], a_rows, k, rank),
                              b |-> NoiseOf(SEED_LABEL_B, seeds[1], b_cols, k, rank)]
    OBVIOUS
  <2>2. k \in Nat
    OBVIOUS
  <2>3. ComputeNoiseFast(vbmi, k, rank, seeds, a_rows, b_cols) = noise
    <3>1. ComputeNoiseFast(vbmi, k, rank, seeds, a_rows, b_cols) = Noise(k, rank, seeds[2], seeds[1], a_rows, b_cols)
      <4>1. IsNoise(vbmi, k, rank, seeds, a_rows, b_cols)
        BY <2>2, FastIsNoise, Zenon
      <4> QED BY <4>1, Zenon DEF IsNoise
    <3> QED BY <2>1, <3>1, NoiseIs, Zenon
  <2>4. made = [a |-> [x \in DOMAIN a_buf |-> Byte(a_buf[x] + noise.a[x \div k][x % k])],
                b |-> [x \in DOMAIN b_buf |-> Byte(b_buf[x] + noise.b[x \div k][x % k])]]
    BY <1>1, <1>3, <2>3, Zenon DEF AddNoiseIntoFast
  <2>5. /\ noise.a = NoiseOf(SEED_LABEL_A, seeds[2], a_rows, k, rank)
        /\ noise.b = NoiseOf(SEED_LABEL_B, seeds[1], b_cols, k, rank)
    BY <2>1, Zenon
  <2>6. NoiseAdded(made.a, SEED_LABEL_A, seeds[2], a_rows, k, rank, a_buf)
    BY <2>4, <2>5, Zenon DEF NoiseAdded
  <2>7. NoiseAdded(made.b, SEED_LABEL_B, seeds[1], b_cols, k, rank, b_buf)
    BY <2>4, <2>5, Zenon DEF NoiseAdded
  <2> QED BY <1>1, <2>6, <2>7, Zenon
<1> QED BY <1>2, <1>3

(* On every input the shuffled noise is the verifier's, and so is what the *)
(* fused variant adds (NoiseAgrees of FastNoise), whatever the digests.    *)
THEOREM NoiseAlwaysAgrees ==
  ASSUME DigestIsNumber, NoiseInput(input)
  PROVE  NoiseAgrees
<1>1. PICK k, rank, seeds, vbmi, a_rows, b_cols, a_buf, b_buf :
        /\ k = input.k /\ rank = input.rank /\ seeds = input.seeds /\ vbmi = input.vbmi
        /\ a_rows = input.a_rows /\ b_cols = input.b_cols /\ a_buf = input.a_buf /\ b_buf = input.b_buf
  OBVIOUS
<1>2. /\ k \in Nat \ {0} /\ rank \in Nat /\ rank >= 2
      /\ a_rows \in Seq(Nat) /\ DOMAIN a_buf = 0..Len(a_rows) * k - 1
      /\ b_cols \in Seq(Nat) /\ DOMAIN b_buf = 0..Len(b_cols) * k - 1
  BY <1>1, Zenon DEF NoiseInput
<1>3. PICK want, added : /\ want = Noise(k, rank, seeds[2], seeds[1], a_rows, b_cols)
                         /\ added = AddNoiseIntoFast(vbmi, k, rank, seeds, a_rows, b_cols, a_buf, b_buf)
  OBVIOUS
<1>4. ComputeNoiseFast(vbmi, k, rank, seeds, a_rows, b_cols) = want
  <2>1. k \in Nat
    BY <1>2
  <2>2. IsNoise(vbmi, k, rank, seeds, a_rows, b_cols)
    BY <1>2, <2>1, FastIsNoise, Zenon
  <2> QED BY <1>3, <2>2, Zenon DEF IsNoise
<1>5. /\ want.a = NoiseOf(SEED_LABEL_A, seeds[2], a_rows, k, rank)
      /\ want.b = NoiseOf(SEED_LABEL_B, seeds[1], b_cols, k, rank)
  BY <1>3, NoiseIs, Zenon
<1>6. /\ NoiseAdded(added.a, SEED_LABEL_A, seeds[2], a_rows, k, rank, a_buf)
      /\ NoiseAdded(added.b, SEED_LABEL_B, seeds[1], b_cols, k, rank, b_buf)
  BY <1>2, <1>3, AddNoiseIs, Zenon
<1>7. /\ \A x \in DOMAIN a_buf : added.a[x] = Byte(a_buf[x] + want.a[x \div k][x % k])
      /\ \A x \in DOMAIN b_buf : added.b[x] = Byte(b_buf[x] + want.b[x \div k][x % k])
  BY <1>5, <1>6, Zenon DEF NoiseAdded
<1> QED BY <1>1, <1>3, <1>4, <1>7, ZenonT(60) DEF NoiseAgrees

=============================================================================
