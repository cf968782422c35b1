------------------------------- MODULE Induction -------------------------------
(***************************************************************************)
(* Induction and recursion on the naturals in a form the provers can use:  *)
(* what the library states for an operator is stated here for a set, and   *)
(* for a function that takes a step from one value to the next.            *)
(***************************************************************************)
EXTENDS Sums, SequenceTheorems, WellFoundedInduction, TLAPS

\* A set of naturals has a least member.
LEMMA Least ==
    ASSUME NEW S, S \subseteq Nat, S # {}
    PROVE  \E m \in S : \A n \in S : m <= n
<1> DEFINE R == OpToRel(<, Nat)
<1>1. IsWellFoundedOn(R, Nat)
  BY NatLessThanWellFounded, Zenon
<1>2. \A i, j \in Nat : <<i, j>> \in R <=> i < j
  BY DEF OpToRel
<1> HIDE DEF R
<1>3. PICK m \in S : \A n \in S : ~(<<n, m>> \in R)
  BY <1>1, WFMin
<1>4. m \in Nat /\ \A n \in S : n \in Nat
  OBVIOUS
<1>5. \A n \in S : ~(n < m)
  BY <1>2, <1>3, <1>4
<1> QED BY <1>4, <1>5

(* Whatever holds of 0 and passes from a number below m to the next holds  *)
(* of m: the numbers are given as the set G of those it holds of.          *)
LEMMA UpTo ==
    ASSUME NEW m \in Nat, NEW G, 0 \in G, \A n \in 1 .. m : n - 1 \in G => n \in G
    PROVE  \A n \in 0 .. m : n \in G
<1> DEFINE Bad == {n \in Nat : n <= m /\ n \notin G}
<1>1. SUFFICES ASSUME Bad # {} PROVE FALSE
  OBVIOUS
<1>2. PICK n \in Bad : \A k \in Bad : n <= k
  BY <1>1, Least
<1>3. n \in Nat /\ n <= m /\ n \notin G /\ n # 0
  OBVIOUS
<1>4. n - 1 \in Nat /\ n - 1 <= m /\ n - 1 \notin Bad /\ n \in 1 .. m
  BY <1>2, <1>3
<1> QED BY <1>3, <1>4

\* The function that starts at base and takes a step at each number up to m.
Follows(f, V, base, m, step) ==
    f \in [0 .. m -> V] /\ f[0] = base /\ \A n \in 1 .. m : f[n] = step[n][f[n - 1]]

LEMMA Recursion ==
    ASSUME NEW V, NEW base, base \in V, NEW m \in Nat, NEW step, step \in [1 .. m -> [V -> V]]
    PROVE  \E f : Follows(f, V, base, m, step)
<1> DEFINE Upto(k, f) == f[0] = base /\ \A n \in 1 .. k : f[n] = step[n][f[n - 1]]
           G == {k \in 0 .. m : \E f \in [0 .. k -> V] : Upto(k, f)}
<1>1. 0 \in G
  <2> DEFINE f0 == [i \in 0 .. 0 |-> base]
  <2>1. f0 \in [0 .. 0 -> V] /\ Upto(0, f0)
    OBVIOUS
  <2> HIDE DEF f0, Upto
  <2>2. 0 \in 0 .. m
    OBVIOUS
  <2> QED BY <2>1, <2>2
<1>2. ASSUME NEW k \in 1 .. m, k - 1 \in G PROVE k \in G
  <2>1. PICK f \in [0 .. k - 1 -> V] : Upto(k - 1, f)
    BY <1>2
  <2> DEFINE g == [i \in 0 .. k |-> IF i = k THEN step[k][f[k - 1]] ELSE f[i]]
  <2>2. f[k - 1] \in V /\ step[k] \in [V -> V]
    OBVIOUS
  <2>3. g \in [0 .. k -> V]
    BY <2>2
  <2>4. \A i \in 0 .. k - 1 : g[i] = f[i]
    OBVIOUS
  <2>5. g[k] = step[k][f[k - 1]] /\ g[k - 1] = f[k - 1]
    OBVIOUS
  <2> HIDE DEF g
  <2>6. g[0] = base
    BY <2>1, <2>4
  <2>7. ASSUME NEW n \in 1 .. k PROVE g[n] = step[n][g[n - 1]]
    <3>1. CASE n = k
      BY <2>5, <3>1
    <3>2. CASE n # k
      <4>1. n \in 1 .. (k - 1) /\ n \in 0 .. (k - 1) /\ n - 1 \in 0 .. (k - 1)
        BY <3>2
      <4> QED BY <2>1, <2>4, <4>1
    <3> QED BY <3>1, <3>2
  <2>8. Upto(k, g)
    BY <2>6, <2>7
  <2> HIDE DEF Upto
  <2>9. k \in 0 .. m
    OBVIOUS
  <2> QED BY <2>3, <2>8, <2>9
<1>3. m \in G
  <2> HIDE DEF G
  <2>1. \A n \in 1 .. m : n - 1 \in G => n \in G
    BY <1>2
  <2>2. \A n \in 0 .. m : n \in G
    BY <1>1, <2>1, UpTo, ZenonT(60)
  <2> QED BY <2>2
<1> QED BY <1>3 DEF Follows

\* Two functions that start alike and take the same steps are the same.
StepAlike(f, g, m) == f[0] = g[0] /\ \A n \in 1 .. m : f[n - 1] = g[n - 1] => f[n] = g[n]

LEMMA SameRecursion ==
    ASSUME NEW m \in Nat, NEW f, NEW g, StepAlike(f, g, m)
    PROVE  \A n \in 0 .. m : f[n] = g[n]
<1> DEFINE G == {n \in Nat : f[n] = g[n]}
<1>1. 0 \in G /\ \A n \in 1 .. m : n - 1 \in G => n \in G
  BY DEF StepAlike
<1>2. \A n \in 0 .. m : n \in G
  <2> HIDE DEF G
  <2> QED BY <1>1, UpTo, ZenonT(60)
<1> QED BY <1>2

-----------------------------------------------------------------------------
(* What Sums.tla defines.                                                  *)

LEMMA LenIs ==
    ASSUME NEW S, NEW n \in Nat, NEW f \in [1 .. n -> S]
    PROVE  f \in Seq(S) /\ Len(f) = n
<1>1. f \in Seq(S)
  OBVIOUS
<1>2. Len(f) \in Nat /\ DOMAIN f = 1 .. Len(f) /\ DOMAIN f = 1 .. n
  BY <1>1, LenProperties
<1>3. Len(f) = n
  BY <1>2
<1> QED BY <1>1, <1>3

\* A sum is what its partial sums come to.
PartialSums(sum, f, n) ==
    sum \in [0 .. n -> Int] /\ sum[0] = 0 /\ \A k \in 1 .. n : sum[k] = sum[k - 1] + f[k]

LEMMA SumIs ==
    ASSUME NEW n \in Nat, NEW f \in [1 .. n -> Int]
    PROVE  \E sum : PartialSums(sum, f, n) /\ SumOf(f) = sum[n]
<1> DEFINE step == [k \in 1 .. n |-> [v \in Int |-> v + f[k]]]
           Total(h) == h = [k \in 0 .. n |-> IF k = 0 THEN 0 ELSE h[k - 1] + f[k]]
<1>1. step \in [1 .. n -> [Int -> Int]]
  OBVIOUS
<1>2. \A k \in 1 .. n, v \in Int : step[k][v] = v + f[k]
  OBVIOUS
<1> HIDE DEF step
<1>3. PICK g : Follows(g, Int, 0, n, step)
  <2>1. 0 \in Int
    OBVIOUS
  <2> QED BY <1>1, <2>1, Recursion, Zenon
<1>4. g \in [0 .. n -> Int] /\ g[0] = 0 /\ \A k \in 1 .. n : g[k] = step[k][g[k - 1]]
  BY <1>3 DEF Follows
<1>5. \A k \in 1 .. n : g[k] = g[k - 1] + f[k]
  <2> SUFFICES ASSUME NEW k \in 1 .. n PROVE g[k] = g[k - 1] + f[k]
    OBVIOUS
  <2>1. g[k - 1] \in Int
    BY <1>4
  <2> QED BY <1>2, <1>4, <2>1
<1>6. Total(g)
  <2> SUFFICES ASSUME NEW k \in 0 .. n PROVE g[k] = IF k = 0 THEN 0 ELSE g[k - 1] + f[k]
    BY <1>4
  <2> QED BY <1>4, <1>5
<1> DEFINE sum == CHOOSE h : Total(h)
<1>7. Total(sum)
  <2> HIDE DEF Total
  <2> QED BY <1>6
<1>8. SumOf(f) = sum[n]
  BY LenIs DEF SumOf
<1>9. sum[0] = 0 /\ \A k \in 1 .. n : sum[k] = sum[k - 1] + f[k]
  <2> HIDE DEF sum
  <2> QED BY <1>7
<1> HIDE DEF sum, Total
<1>10. StepAlike(sum, g, n)
  BY <1>4, <1>5, <1>9 DEF StepAlike
<1>11. \A k \in 0 .. n : sum[k] = g[k]
  BY <1>10, SameRecursion, ZenonT(60)
<1>12. sum \in [0 .. n -> Int]
  <2>1. sum = [k \in 0 .. n |-> g[k]]
    BY <1>7, <1>11 DEF Total
  <2> QED BY <1>4, <2>1
<1>13. PartialSums(sum, f, n)
  BY <1>9, <1>12 DEF PartialSums
<1> QED BY <1>8, <1>13

\* The same elements up to n.
Alike(f, g, n) == \A i \in 1 .. n : g[i] = f[i]

LEMMA PartialSumsAlike ==
    ASSUME NEW m \in Nat, NEW n \in Nat, NEW f, NEW g, NEW sum, NEW total, n <= m,
           PartialSums(sum, f, n), PartialSums(total, g, m), Alike(f, g, n)
    PROVE  total[n] = sum[n]
<1>1. StepAlike(total, sum, n)
  <2>1. total[0] = sum[0]
    BY DEF PartialSums
  <2>2. ASSUME NEW k \in 1 .. n, total[k - 1] = sum[k - 1] PROVE total[k] = sum[k]
    <3>1. k \in 1 .. m
      OBVIOUS
    <3> QED BY <2>2, <3>1 DEF PartialSums, Alike
  <2> QED BY <2>1, <2>2 DEF StepAlike
<1>2. \A k \in 0 .. n : total[k] = sum[k]
  BY <1>1, SameRecursion, ZenonT(60)
<1> QED BY <1>2

LEMMA SumType ==
    ASSUME NEW n \in Nat, NEW f \in [1 .. n -> Int]
    PROVE  SumOf(f) \in Int
<1>1. PICK sum : PartialSums(sum, f, n) /\ SumOf(f) = sum[n]
  BY SumIs
<1> QED BY <1>1 DEF PartialSums

\* One more element adds itself.
LEMMA SumExtend ==
    ASSUME NEW n \in Nat, NEW f \in [1 .. n -> Int], NEW g \in [1 .. n + 1 -> Int], Alike(f, g, n)
    PROVE  SumOf(g) = SumOf(f) + g[n + 1]
<1>1. PICK sum : PartialSums(sum, f, n) /\ SumOf(f) = sum[n]
  BY SumIs
<1>2. PICK total : PartialSums(total, g, n + 1) /\ SumOf(g) = total[n + 1]
  <2>1. n + 1 \in Nat
    OBVIOUS
  <2> QED BY <2>1, SumIs
<1>3. n + 1 \in Nat /\ n <= n + 1 /\ n + 1 \in 1 .. n + 1 /\ (n + 1) - 1 = n
  OBVIOUS
<1>4. total[n] = sum[n]
  BY <1>1, <1>2, <1>3, PartialSumsAlike
<1>5. total[n + 1] = total[n] + g[n + 1]
  BY <1>2, <1>3 DEF PartialSums
<1> QED BY <1>1, <1>2, <1>4, <1>5

\* A common factor can be taken out of a sum.
LEMMA SumScaled ==
    ASSUME NEW n \in Nat, NEW c \in Int, NEW f \in [1 .. n -> Int], NEW g \in [1 .. n -> Int],
           \A i \in 1 .. n : g[i] = c * f[i]
    PROVE  SumOf(g) = c * SumOf(f)
<1>1. PICK sum : PartialSums(sum, f, n) /\ SumOf(f) = sum[n]
  BY SumIs
<1>2. PICK total : PartialSums(total, g, n) /\ SumOf(g) = total[n]
  BY SumIs
<1> DEFINE G == {k \in 0 .. n : total[k] = c * sum[k]}
<1>3. 0 \in G
  BY <1>1, <1>2 DEF PartialSums
<1>4. ASSUME NEW k \in 1 .. n, k - 1 \in G PROVE k \in G
  <2>1. total[k] = total[k - 1] + c * f[k] /\ sum[k] = sum[k - 1] + f[k]
    BY <1>1, <1>2 DEF PartialSums
  <2>2. total[k - 1] = c * sum[k - 1]
    BY <1>4
  <2>3. sum[k - 1] \in Int /\ f[k] \in Int
    BY <1>1 DEF PartialSums
  <2>4. \A a, b \in Int : c * (a + b) = c * a + c * b
    OBVIOUS
  <2>5. c * (sum[k - 1] + f[k]) = c * sum[k - 1] + c * f[k]
    BY <2>3, <2>4
  <2>6. total[k] = c * sum[k]
    BY <2>1, <2>2, <2>5
  <2> QED BY <2>6
<1> HIDE DEF G
<1>5. \A k \in 1 .. n : k - 1 \in G => k \in G
  BY <1>4
<1>6. \A k \in 0 .. n : k \in G
  BY <1>3, <1>5, UpTo, ZenonT(60)
<1>7. n \in G
  BY <1>6
<1> QED BY <1>1, <1>2, <1>7 DEF G

Combined(h, f, g, a, b, c, n) ==
    /\ n \in Nat /\ {a, b, c} \subseteq Int /\ {f, g, h} \subseteq [1 .. n -> Int]
    /\ \A i \in 1 .. n : h[i] = a * f[i] + b * g[i] + c

\* What is a constant and multiples of two others adds up to the same of their sums.
LEMMA SumCombined ==
    ASSUME NEW n, NEW a, NEW b, NEW c, NEW f, NEW g, NEW h, Combined(h, f, g, a, b, c, n)
    PROVE  SumOf(h) = a * SumOf(f) + b * SumOf(g) + n * c
<1>0. /\ n \in Nat /\ a \in Int /\ b \in Int /\ c \in Int
      /\ f \in [1 .. n -> Int] /\ g \in [1 .. n -> Int] /\ h \in [1 .. n -> Int]
  BY DEF Combined
<1>1. PICK sf : PartialSums(sf, f, n) /\ SumOf(f) = sf[n]
  BY <1>0, SumIs
<1>2. PICK sg : PartialSums(sg, g, n) /\ SumOf(g) = sg[n]
  BY <1>0, SumIs
<1>3. PICK sh : PartialSums(sh, h, n) /\ SumOf(h) = sh[n]
  BY <1>0, SumIs
<1> DEFINE G == {k \in 0 .. n : sh[k] = a * sf[k] + b * sg[k] + k * c}
<1>4. 0 \in G
  <2>0. 0 \in 0 .. n
    BY <1>0
  <2>1. sf[0] = 0 /\ sg[0] = 0 /\ sh[0] = 0
    BY <1>1, <1>2, <1>3 DEF PartialSums
  <2>2. a * 0 + b * 0 + 0 * c = 0
    BY <1>0
  <2> QED BY <2>0, <2>1, <2>2
<1> HIDE DEF G
<1>5. ASSUME NEW k \in 1 .. n, k - 1 \in G PROVE k \in G
  <2>1. PICK u \in Int, v \in Int, x \in Int, y \in Int :
            u = sf[k - 1] /\ v = sg[k - 1] /\ x = f[k] /\ y = g[k]
    <3>1. k - 1 \in 0 .. n
      BY <1>0
    <3>2. sf[k - 1] \in Int /\ sg[k - 1] \in Int
      BY <1>1, <1>2, <3>1 DEF PartialSums
    <3>3. f[k] \in Int /\ g[k] \in Int
      BY <1>0
    <3> QED BY <3>2, <3>3
  <2>2. sf[k] = u + x /\ sg[k] = v + y /\ sh[k] = sh[k - 1] + (a * x + b * y + c)
    <3>1. sf[k] = u + x /\ sg[k] = v + y
      BY <1>1, <1>2, <2>1 DEF PartialSums
    <3>2. sh[k] = sh[k - 1] + h[k]
      BY <1>3 DEF PartialSums
    <3>3. h[k] = a * x + b * y + c
      BY <2>1 DEF Combined
    <3> QED BY <3>1, <3>2, <3>3
  <2>3. sh[k - 1] = a * u + b * v + (k - 1) * c
    BY <1>5, <2>1 DEF G
  <2>4. sh[k] = (a * u + b * v + (k - 1) * c) + (a * x + b * y + c)
    BY <2>2, <2>3, Zenon
  <2>5. (a * u + b * v + (k - 1) * c) + (a * x + b * y + c) = a * (u + x) + b * (v + y) + k * c
    <3>1. /\ a \in Int /\ b \in Int /\ c \in Int /\ k \in Int
          /\ u \in Int /\ v \in Int /\ x \in Int /\ y \in Int
      BY <1>0
    <3> QED BY <3>1
  <2>6. sh[k] = a * sf[k] + b * sg[k] + k * c
    BY <2>2, <2>4, <2>5, Zenon
  <2>7. k \in 0 .. n
    BY <1>0
  <2> QED BY <2>6, <2>7 DEF G
<1>6. \A k \in 1 .. n : k - 1 \in G => k \in G
  BY <1>5
<1>7. \A k \in 0 .. n : k \in G
  BY <1>0, <1>4, <1>6, UpTo, ZenonT(60)
<1>8. n \in G
  BY <1>0, <1>7
<1> QED BY <1>1, <1>2, <1>3, <1>8 DEF G

\* A sum does not change when it is taken from the other end.
LEMMA SumReversed ==
    ASSUME NEW n \in Nat, NEW f \in [1 .. n -> Int], NEW g \in [1 .. n -> Int],
           \A i \in 1 .. n : g[i] = f[n + 1 - i]
    PROVE  SumOf(g) = SumOf(f)
<1>1. PICK sf : PartialSums(sf, f, n) /\ SumOf(f) = sf[n]
  BY SumIs
<1>2. PICK sg : PartialSums(sg, g, n) /\ SumOf(g) = sg[n]
  BY SumIs
<1> DEFINE G == {k \in 0 .. n : sg[k] = sf[n] - sf[n - k]}
<1>3. 0 \in G
  BY <1>1, <1>2 DEF PartialSums
<1>4. ASSUME NEW k \in 1 .. n, k - 1 \in G PROVE k \in G
  <2>1. PICK j \in 1 .. n : j = n + 1 - k /\ j - 1 = n - k /\ j = n - (k - 1)
    OBVIOUS
  <2>2. sg[k] = sg[k - 1] + f[j] /\ sf[j] = sf[j - 1] + f[j]
    BY <1>1, <1>2, <2>1 DEF PartialSums
  <2>3. sg[k - 1] = sf[n] - sf[j]
    BY <1>4, <2>1
  <2>4. sf[n] \in Int /\ sf[j - 1] \in Int /\ f[j] \in Int
    BY <1>1, <2>1 DEF PartialSums
  <2>5. sg[k] = sf[n] - sf[n - k]
    BY <2>1, <2>2, <2>3, <2>4
  <2> QED BY <2>5
<1> HIDE DEF G
<1>5. \A k \in 1 .. n : k - 1 \in G => k \in G
  BY <1>4
<1>6. \A k \in 0 .. n : k \in G
  BY <1>3, <1>5, UpTo, ZenonT(60)
<1>7. sg[n] = sf[n] - sf[n - n]
  BY <1>6 DEF G
<1>8. sf[n - n] = 0 /\ sf[n] \in Int
  BY <1>1 DEF PartialSums
<1> QED BY <1>1, <1>2, <1>7, <1>8

-----------------------------------------------------------------------------
\* A product likewise.
PartialProducts(product, f, n) ==
    product \in [0 .. n -> Int] /\ product[0] = 1 /\ \A k \in 1 .. n : product[k] = product[k - 1] * f[k]

LEMMA ProductIs ==
    ASSUME NEW n \in Nat, NEW f \in [1 .. n -> Int]
    PROVE  \E product : PartialProducts(product, f, n) /\ ProductOf(f) = product[n]
<1> DEFINE step == [k \in 1 .. n |-> [v \in Int |-> v * f[k]]]
           Total(h) == h = [k \in 0 .. n |-> IF k = 0 THEN 1 ELSE h[k - 1] * f[k]]
<1>1. step \in [1 .. n -> [Int -> Int]]
  OBVIOUS
<1>2. \A k \in 1 .. n, v \in Int : step[k][v] = v * f[k]
  OBVIOUS
<1> HIDE DEF step
<1>3. PICK g : Follows(g, Int, 1, n, step)
  <2>1. 1 \in Int
    OBVIOUS
  <2> QED BY <1>1, <2>1, Recursion, Zenon
<1>4. g \in [0 .. n -> Int] /\ g[0] = 1 /\ \A k \in 1 .. n : g[k] = step[k][g[k - 1]]
  BY <1>3 DEF Follows
<1>5. \A k \in 1 .. n : g[k] = g[k - 1] * f[k]
  <2> SUFFICES ASSUME NEW k \in 1 .. n PROVE g[k] = g[k - 1] * f[k]
    OBVIOUS
  <2>1. g[k - 1] \in Int
    BY <1>4
  <2> QED BY <1>2, <1>4, <2>1
<1>6. Total(g)
  <2> SUFFICES ASSUME NEW k \in 0 .. n PROVE g[k] = IF k = 0 THEN 1 ELSE g[k - 1] * f[k]
    BY <1>4
  <2> QED BY <1>4, <1>5
<1> DEFINE product == CHOOSE h : Total(h)
<1>7. Total(product)
  <2> HIDE DEF Total
  <2> QED BY <1>6
<1>8. ProductOf(f) = product[n]
  BY LenIs DEF ProductOf
<1>9. product[0] = 1 /\ \A k \in 1 .. n : product[k] = product[k - 1] * f[k]
  <2> HIDE DEF product
  <2> QED BY <1>7
<1> HIDE DEF product, Total
<1>10. StepAlike(product, g, n)
  BY <1>4, <1>5, <1>9 DEF StepAlike
<1>11. \A k \in 0 .. n : product[k] = g[k]
  BY <1>10, SameRecursion, ZenonT(60)
<1>12. product \in [0 .. n -> Int]
  <2>1. product = [k \in 0 .. n |-> g[k]]
    BY <1>7, <1>11 DEF Total
  <2> QED BY <1>4, <2>1
<1>13. PartialProducts(product, f, n)
  BY <1>9, <1>12 DEF PartialProducts
<1> QED BY <1>8, <1>13

LEMMA PartialProductsAlike ==
    ASSUME NEW m \in Nat, NEW n \in Nat, NEW f, NEW g, NEW product, NEW total, n <= m,
           PartialProducts(product, f, n), PartialProducts(total, g, m), Alike(f, g, n)
    PROVE  total[n] = product[n]
<1>1. StepAlike(total, product, n)
  <2>1. total[0] = product[0]
    BY DEF PartialProducts
  <2>2. ASSUME NEW k \in 1 .. n, total[k - 1] = product[k - 1] PROVE total[k] = product[k]
    <3>1. k \in 1 .. m
      OBVIOUS
    <3> QED BY <2>2, <3>1 DEF PartialProducts, Alike
  <2> QED BY <2>1, <2>2 DEF StepAlike
<1>2. \A k \in 0 .. n : total[k] = product[k]
  BY <1>1, SameRecursion, ZenonT(60)
<1> QED BY <1>2

LEMMA ProductType ==
    ASSUME NEW n \in Nat, NEW f \in [1 .. n -> Int]
    PROVE  ProductOf(f) \in Int
<1>1. PICK product : PartialProducts(product, f, n) /\ ProductOf(f) = product[n]
  BY ProductIs
<1> QED BY <1>1 DEF PartialProducts

\* One more element multiplies by itself.
LEMMA ProductExtend ==
    ASSUME NEW n \in Nat, NEW f \in [1 .. n -> Int], NEW g \in [1 .. n + 1 -> Int], Alike(f, g, n)
    PROVE  ProductOf(g) = ProductOf(f) * g[n + 1]
<1>1. PICK product : PartialProducts(product, f, n) /\ ProductOf(f) = product[n]
  BY ProductIs
<1>2. PICK total : PartialProducts(total, g, n + 1) /\ ProductOf(g) = total[n + 1]
  <2>1. n + 1 \in Nat
    OBVIOUS
  <2> QED BY <2>1, ProductIs
<1>3. n + 1 \in Nat /\ n <= n + 1 /\ n + 1 \in 1 .. n + 1 /\ (n + 1) - 1 = n
  OBVIOUS
<1>4. total[n] = product[n]
  BY <1>1, <1>2, <1>3, PartialProductsAlike
<1>5. total[n + 1] = total[n] * g[n + 1]
  BY <1>2, <1>3 DEF PartialProducts
<1> QED BY <1>1, <1>2, <1>4, <1>5
=============================================================================
