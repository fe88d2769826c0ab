-------------------------- MODULE ByteArrayProofs --------------------------
(***************************************************************************)
(* Proofs about ByteArray for every block size, every width of bytes and   *)
(* numbers and every set of values: the cursor stays in step with the      *)
(* position, the blocks implement one contiguous buffer, the views show    *)
(* it, and every value written is read back.                               *)
(*                                                                         *)
(* What the loops compute is shown by induction on the number of their     *)
(* iterations.  The induction rests on the least element of a set of       *)
(* natural numbers, so that its hypothesis is a set and not an operator.   *)
(***************************************************************************)
EXTENDS ByteArray, WellFoundedInduction, TLAPS

-----------------------------------------------------------------------------
(***************************************************************************)
(* Induction and iteration.                                                *)
(***************************************************************************)

LEMMA LeastElement == ASSUME NEW T \in SUBSET Nat, T # {} PROVE \E x \in T : \A y \in T : x <= y
<1> DEFINE R == {ss \in Nat \X Nat : ss[1] < ss[2]}
<1>0. IsWellFoundedOn(R, Nat)
  BY NatLessThanWellFounded, Zenon DEF OpToRel
<1> HIDE DEF R
<1>1. PICK x \in T : \A y \in T : ~ (<<y, x>> \in R)
  BY <1>0, WFMin
<1>2. \A y \in T : ~(y < x)
  BY <1>1 DEF R
<1>3. QED BY <1>2

LEMMA Induction == ASSUME NEW S, 0 \in S, \A n \in Nat : n \in S => n + 1 \in S PROVE \A n \in Nat : n \in S
<1> SUFFICES ASSUME Nat \ S # {} PROVE FALSE
  OBVIOUS
<1>1. PICK x \in Nat \ S : \A y \in Nat \ S : x <= y
  BY LeastElement
<1>2. x # 0 /\ x - 1 \in Nat /\ x = (x-1) + 1
  BY <1>1
<1>3. x - 1 \in S
  BY <1>1, <1>2
<1>4. QED BY <1>2, <1>3


\* f starts at b and takes a step at a time.
Iteration(f, S, b, step) ==
  /\ f \in [Nat -> S]
  /\ f[0] = b
  /\ \A n \in Nat : f[n + 1] = step[n][f[n]]

LEMMA Iterate ==
  ASSUME NEW S, NEW b \in S, NEW step \in [Nat -> [S -> S]]
  PROVE  \E f : Iteration(f, S, b, step)
<1> DEFINE Good(n, g) == /\ g \in [0..n -> S]
                         /\ g[0] = b
                         /\ \A i \in 0..(n - 1) : g[i + 1] = step[i][g[i]]
           N == {n \in Nat : \E g : Good(n, g)}
<1>1. 0 \in N
  <2>1. Good(0, [i \in 0..0 |-> b])
    OBVIOUS
  <2>2. QED BY <2>1
<1>2. ASSUME NEW n \in Nat, n \in N PROVE n + 1 \in N
  <2>1. PICK g : Good(n, g)
    BY <1>2
  <2> DEFINE h == [i \in 0..(n + 1) |-> IF i = n + 1 THEN step[n][g[n]] ELSE g[i]]
  <2>2. g[n] \in S /\ step[n][g[n]] \in S
    BY <2>1
  <2>3. h \in [0..(n + 1) -> S]
    BY <2>1, <2>2
  <2>4. h[0] = b
    BY <2>1
  <2>5. ASSUME NEW i \in 0..((n + 1) - 1) PROVE h[i + 1] = step[i][h[i]]
    <3>1. CASE i = n
      BY <3>1
    <3>2. CASE i # n
      <4>1. i \in 0..(n - 1) /\ i + 1 \in 0..n /\ i \in 0..n
        BY <2>5, <3>2
      <4>2. QED BY <2>1, <4>1
    <3>3. QED BY <3>1, <3>2
  <2> HIDE DEF h
  <2>6. Good(n + 1, h)
    BY <2>3, <2>4, <2>5
  <2>7. QED BY <2>6
<1>3. \A n \in Nat : \E g : Good(n, g)
  <2>1. \A n \in Nat : n \in N
    <3> HIDE DEF N
    <3> QED BY <1>1, <1>2, Induction
  <2>2. QED BY <2>1
<1>4. ASSUME NEW m \in Nat, NEW n \in Nat, NEW g, NEW h, Good(m, g), Good(n, h)
      PROVE  \A i \in Nat : i <= m /\ i <= n => g[i] = h[i]
  <2> DEFINE Q == {i \in Nat : i <= m /\ i <= n => g[i] = h[i]}
  <2>1. 0 \in Q
    BY <1>4
  <2>2. ASSUME NEW i \in Nat, i \in Q PROVE i + 1 \in Q
    <3> SUFFICES ASSUME i + 1 <= m, i + 1 <= n PROVE g[i + 1] = h[i + 1]
      OBVIOUS
    <3>1. i \in 0..(m - 1) /\ i \in 0..(n - 1)
      OBVIOUS
    <3>2. g[i] = h[i]
      BY <2>2
    <3>3. QED BY <1>4, <3>1, <3>2
  <2>3. \A i \in Nat : i \in Q
    <3> HIDE DEF Q
    <3> QED BY <2>1, <2>2, Induction
  <2>4. QED BY <2>3
<1> DEFINE G(n) == CHOOSE g : Good(n, g)
           f == [n \in Nat |-> G(n)[n]]
<1>5. \A n \in Nat : Good(n, G(n))
  BY <1>3
<1> HIDE DEF Good, G
<1>6. ASSUME NEW n \in Nat PROVE f[n] \in S
  BY <1>5, <1>6 DEF Good
<1>7. f[0] = b
  BY <1>5 DEF Good
<1>8. ASSUME NEW n \in Nat PROVE f[n + 1] = step[n][f[n]]
  <2>1. G(n + 1)[n] = G(n)[n]
    BY <1>4, <1>5
  <2>2. G(n + 1)[n + 1] = step[n][G(n + 1)[n]]
    BY <1>5 DEF Good
  <2>3. QED BY <2>1, <2>2
<1>9. f \in [Nat -> S]
  BY <1>6
<1> HIDE DEF f
<1>10. Iteration(f, S, b, step)
  BY <1>7, <1>8, <1>9 DEF Iteration
<1>11. QED BY <1>10

\* A recursive function is the iteration of its step.
IterationTo(f, n, S, b, step) ==
  /\ f \in [0..n -> S]
  /\ f = [i \in 0..n |-> IF i = 0 THEN b ELSE step[i - 1][f[i - 1]]]

LEMMA IterateTo ==
  ASSUME NEW n \in Nat, NEW S, NEW b \in S, NEW step \in [Nat -> [S -> S]]
  PROVE  \E f : IterationTo(f, n, S, b, step)
<1>0. PICK g : Iteration(g, S, b, step)
  BY Iterate
<1>1. g \in [Nat -> S] /\ g[0] = b /\ \A i \in Nat : g[i + 1] = step[i][g[i]]
  BY <1>0 DEF Iteration
<1> DEFINE f == [i \in 0..n |-> g[i]]
<1>2. f \in [0..n -> S]
  BY <1>1
<1>3. ASSUME NEW i \in 0..n, i # 0 PROVE f[i] = step[i - 1][f[i - 1]]
  <2>1. i - 1 \in Nat /\ i - 1 \in 0..n /\ (i - 1) + 1 = i
    BY <1>3
  <2>2. QED BY <1>1, <2>1
<1>4. f[0] = b
  BY <1>1
<1> HIDE DEF f
<1>5. f = [i \in 0..n |-> IF i = 0 THEN b ELSE step[i - 1][f[i - 1]]]
  BY <1>2, <1>3, <1>4
<1>6. IterationTo(f, n, S, b, step)
  BY <1>2, <1>5 DEF IterationTo
<1>7. QED BY <1>6

LEMMA DivMod ==
  ASSUME NEW x \in Nat, NEW b \in Nat \ {0}
  PROVE  /\ x \div b \in Nat /\ x % b \in 0..(b - 1) /\ x % b \in Nat
         /\ b * (x \div b) + (x % b) = x
OBVIOUS

LEMMA DivModSmall ==
  ASSUME NEW x \in Nat, NEW b \in Nat \ {0}
  PROVE  /\ x < b => x % b = x /\ x \div b = 0
         /\ x \div b = 0 => x < b
<1>1. x \div b = 0 => x < b
  <2>1. x \div b = 0 => b * (x \div b) = 0
    OBVIOUS
  <2>2. QED BY <2>1, DivMod
<1>2. x < b => x % b = x /\ x \div b = 0
  OBVIOUS
<1>3. QED BY <1>1, <1>2

LEMMA Products ==
  ASSUME NEW x \in Nat, NEW y \in Nat, NEW z \in Nat
  PROVE  /\ x * y \in Nat /\ x * y = y * x
         /\ x * (y + z) = x * y + x * z
         /\ x > 0 /\ y > 0 => x * y > 0
OBVIOUS

LEMMA SeqEqual ==
  ASSUME NEW S, NEW u \in Seq(S), NEW v \in Seq(S), Len(u) = Len(v),
         \A i \in 1..Len(v) : u[i] = v[i]
  PROVE  u = v
OBVIOUS

LEMMA Concatenation ==
  ASSUME NEW S, NEW s \in Seq(S), NEW t \in Seq(S)
  PROVE  /\ s \o t \in Seq(S) /\ Len(s \o t) = Len(s) + Len(t)
         /\ \A i \in 1..Len(s) : (s \o t)[i] = s[i]
         /\ \A i \in 1..Len(t) : (s \o t)[Len(s) + i] = t[i]
OBVIOUS

-----------------------------------------------------------------------------
(***************************************************************************)
(* Powers of two.                                                          *)
(***************************************************************************)

LEMMA Pow2Function == Pow2 = [n \in Nat |-> IF n = 0 THEN 1 ELSE 2 * Pow2[n - 1]]
<1> DEFINE step == [n \in Nat |-> [x \in Nat |-> 2 * x]]
<1>0. step \in [Nat -> [Nat -> Nat]] /\ \A n, x \in Nat : step[n][x] = 2 * x
  OBVIOUS
<1> HIDE DEF step
<1>1. 1 \in Nat
  OBVIOUS
<1>10. PICK f : Iteration(f, Nat, 1, step)
  BY <1>0, <1>1, Iterate, Zenon
<1>2. f \in [Nat -> Nat] /\ f[0] = 1 /\ \A n \in Nat : f[n + 1] = step[n][f[n]]
  BY <1>10 DEF Iteration
<1>3. ASSUME NEW n \in Nat, n # 0 PROVE f[n] = 2 * f[n - 1]
  <2>1. n - 1 \in Nat /\ (n - 1) + 1 = n
    BY <1>3
  <2>2. f[n] = step[n - 1][f[n - 1]]
    BY <1>2, <2>1
  <2>3. QED BY <1>0, <1>2, <2>1, <2>2
<1>4. f = [n \in Nat |-> IF n = 0 THEN 1 ELSE 2 * f[n - 1]]
  BY <1>2, <1>3
<1>5. QED BY <1>4, Zenon DEF Pow2

LEMMA Pow2Step == Pow2[0] = 1 /\ \A n \in Nat : Pow2[n + 1] = 2 * Pow2[n]
<1>1. Pow2[0] = 1
  BY Pow2Function
<1>2. ASSUME NEW n \in Nat PROVE Pow2[n + 1] = 2 * Pow2[n]
  <2>1. n + 1 \in Nat /\ n + 1 # 0 /\ (n + 1) - 1 = n
    OBVIOUS
  <2>2. Pow2[n + 1] = 2 * Pow2[(n + 1) - 1]
    BY Pow2Function, <2>1
  <2>3. QED BY <2>1, <2>2
<1>3. QED BY <1>1, <1>2

LEMMA Pow2Type == \A n \in Nat : Pow2[n] \in Nat /\ Pow2[n] > 0
<1> DEFINE T == {n \in Nat : Pow2[n] \in Nat /\ Pow2[n] > 0}
<1>1. 0 \in T
  BY Pow2Step
<1>2. ASSUME NEW n \in Nat, n \in T PROVE n + 1 \in T
  BY <1>2, Pow2Step
<1>3. \A n \in Nat : n \in T
  <2> HIDE DEF T
  <2> QED BY <1>1, <1>2, Induction
<1>4. QED BY <1>3

LEMMA Pow2Sum == \A m, n \in Nat : Pow2[m + n] = Pow2[m] * Pow2[n]
<1> SUFFICES ASSUME NEW m \in Nat PROVE \A n \in Nat : Pow2[m + n] = Pow2[m] * Pow2[n]
  OBVIOUS
<1> DEFINE T == {n \in Nat : Pow2[m + n] = Pow2[m] * Pow2[n]}
<1>0. Pow2[m] \in Nat
  BY Pow2Type
<1>1. 0 \in T
  BY <1>0, Pow2Step
<1>2. ASSUME NEW n \in Nat, n \in T PROVE n + 1 \in T
  <2>1. m + (n + 1) = (m + n) + 1 /\ m + n \in Nat
    OBVIOUS
  <2>2. Pow2[m + (n + 1)] = 2 * Pow2[m + n]
    BY <2>1, Pow2Step
  <2>3. Pow2[n] \in Nat /\ Pow2[n + 1] = 2 * Pow2[n]
    BY Pow2Type, Pow2Step
  <2>4. Pow2[m + n] = Pow2[m] * Pow2[n]
    BY <1>2
  <2>5. 2 * (Pow2[m] * Pow2[n]) = Pow2[m] * (2 * Pow2[n])
    BY <1>0, <2>3
  <2>6. QED BY <2>2, <2>3, <2>4, <2>5
<1>3. \A n \in Nat : n \in T
  <2> HIDE DEF T
  <2> QED BY <1>1, <1>2, Induction
<1>4. QED BY <1>3

LEMMA Pow2Monotone == ASSUME NEW m \in Nat, NEW n \in Nat, m <= n PROVE Pow2[m] <= Pow2[n]
<1>1. PICK k \in Nat : n = m + k
  <2>1. n - m \in Nat /\ n = m + (n - m)
    OBVIOUS
  <2>2. QED BY <2>1
<1>2. Pow2[n] = Pow2[m] * Pow2[k]
  BY <1>1, Pow2Sum
<1>3. Pow2[m] \in Nat /\ Pow2[k] \in Nat /\ Pow2[k] >= 1
  BY Pow2Type
<1>4. QED BY <1>2, <1>3

LEMMA RadixFacts ==
  /\ Half \in Nat /\ Half >= 2
  /\ Radix = 2 * Half
  /\ Byte = 0..(2 * Half - 1)
<1>1. ByteBits - 1 \in Nat /\ ByteBits = (ByteBits - 1) + 1 /\ ByteBits - 2 \in Nat
      /\ ByteBits - 1 = (ByteBits - 2) + 1
  BY ByteArrayAssumption
<1>2. Pow2[ByteBits - 2] \in Nat /\ Pow2[ByteBits - 2] > 0
  BY <1>1, Pow2Type
<1>3. Pow2[ByteBits - 1] = 2 * Pow2[ByteBits - 2]
  BY <1>1, Pow2Step
<1>4. Pow2[ByteBits] = 2 * Pow2[ByteBits - 1]
  BY <1>1, Pow2Step
<1>5. QED BY <1>2, <1>3, <1>4 DEF Half, Radix, Byte


-----------------------------------------------------------------------------
(***************************************************************************)
(* The digits of a number.                                                 *)
(***************************************************************************)

LEMMA ShiftedSteps ==
  ASSUME NEW v \in Nat, NEW base \in Nat \ {0}
  PROVE  /\ Shifted(v, base) \in [Nat -> Nat]
         /\ Shifted(v, base)[0] = v
         /\ \A i \in Nat : Shifted(v, base)[i + 1] = Shifted(v, base)[i] \div base
<1> DEFINE q == Shifted(v, base)
           step == [n \in Nat |-> [x \in Nat |-> x \div base]]
<1>1. step \in [Nat -> [Nat -> Nat]] /\ \A n, x \in Nat : step[n][x] = x \div base
  OBVIOUS
<1> HIDE DEF step
<1>2. PICK f : Iteration(f, Nat, v, step)
  BY <1>1, Iterate, Zenon
<1>3. f \in [Nat -> Nat] /\ f[0] = v /\ \A n \in Nat : f[n + 1] = step[n][f[n]]
  BY <1>2 DEF Iteration
<1>4. ASSUME NEW n \in Nat, n # 0 PROVE f[n] = f[n - 1] \div base
  <2>1. n - 1 \in Nat /\ (n - 1) + 1 = n
    BY <1>4
  <2>2. f[n] = step[n - 1][f[n - 1]]
    BY <1>3, <2>1
  <2>3. QED BY <1>1, <1>3, <2>1, <2>2
<1>5. f = [n \in Nat |-> IF n = 0 THEN v ELSE f[n - 1] \div base]
  BY <1>3, <1>4
<1>6. q = [n \in Nat |-> IF n = 0 THEN v ELSE q[n - 1] \div base]
  BY <1>5, Zenon DEF Shifted
<1> HIDE DEF q
<1>7. q[0] = v
  BY <1>6
<1>8. ASSUME NEW i \in Nat PROVE q[i + 1] = q[i] \div base
  <2>1. i + 1 \in Nat /\ i + 1 # 0 /\ (i + 1) - 1 = i
    OBVIOUS
  <2>2. q[i + 1] = q[(i + 1) - 1] \div base
    BY <1>6, <2>1
  <2>3. QED BY <2>1, <2>2
<1> DEFINE T == {i \in Nat : q[i] \in Nat}
<1>9. 0 \in T
  BY <1>7
<1>10. ASSUME NEW i \in Nat, i \in T PROVE i + 1 \in T
  BY <1>8, <1>10
<1>11. \A i \in Nat : i \in T
  <2> HIDE DEF T
  <2> QED BY <1>9, <1>10, Induction
<1>12. q \in [Nat -> Nat]
  BY <1>6, <1>11
<1>13. QED BY <1>7, <1>8, <1>12 DEF q

\* The partial sums of ValueOf.
LEMMA ValueOfSteps ==
  ASSUME NEW base \in Nat, NEW digits \in Seq(Nat)
  PROVE  \E sum \in [0..Len(digits) -> Nat] :
           /\ ValueOf(digits, base) = sum[Len(digits)]
           /\ sum[0] = 0
           /\ \A i \in 0..(Len(digits) - 1) :
                sum[i + 1] = base * sum[i] + digits[Len(digits) - i]
<1> DEFINE n == Len(digits)
           step == [i \in Nat |-> [x \in Nat |->
                      IF i < n THEN base * x + digits[n - i] ELSE x]]
           IsSum(f) == f = [i \in 0..n |-> IF i = 0 THEN 0
                                           ELSE base * f[i - 1] + digits[n + 1 - i]]
           sum == CHOOSE f : IsSum(f)
<1>0. n \in Nat /\ \A i \in 1..n : digits[i] \in Nat
  OBVIOUS
<1>1. ASSUME NEW i \in Nat, NEW x \in Nat
      PROVE  (IF i < n THEN base * x + digits[n - i] ELSE x) \in Nat
  <2>1. CASE i < n
    <3>1. n - i \in 1..n
      BY <1>0, <2>1
    <3>2. base * x \in Nat /\ digits[n - i] \in Nat
      BY <1>0, <3>1
    <3>3. QED BY <2>1, <3>2
  <2>2. CASE ~(i < n)
    BY <2>2
  <2>3. QED BY <2>1, <2>2
<1>2. step \in [Nat -> [Nat -> Nat]]
      /\ \A i, x \in Nat : step[i][x] = IF i < n THEN base * x + digits[n - i] ELSE x
  <2> HIDE DEF n
  <2> QED BY <1>1
<1>3. 0 \in Nat
  OBVIOUS
<1> HIDE DEF step, n
<1>16. PICK f : IterationTo(f, n, Nat, 0, step)
  BY <1>0, <1>2, <1>3, IterateTo, Zenon
<1>4. f \in [0..n -> Nat] /\ f = [i \in 0..n |-> IF i = 0 THEN 0 ELSE step[i - 1][f[i - 1]]]
  BY <1>16 DEF IterationTo
<1>5. ASSUME NEW i \in 0..n, i # 0
      PROVE  step[i - 1][f[i - 1]] = base * f[i - 1] + digits[n + 1 - i]
  <2>1. i - 1 \in Nat /\ i - 1 < n /\ i - 1 \in 0..n /\ n - (i - 1) = n + 1 - i
    BY <1>0, <1>5
  <2>2. f[i - 1] \in Nat
    BY <1>4, <2>1
  <2>3. step[i - 1][f[i - 1]] = base * f[i - 1] + digits[n - (i - 1)]
    BY <1>2, <2>1, <2>2
  <2>4. QED BY <2>1, <2>3
<1>6. IsSum(f)
  BY <1>4, <1>5
<1>7. IsSum(sum)
  BY <1>6
<1>8. ValueOf(digits, base) = sum[n]
  BY Zenon DEF ValueOf, n
<1> HIDE DEF sum
<1>9. sum[0] = 0
  BY <1>0, <1>7
<1>10. ASSUME NEW i \in 0..(n - 1) PROVE sum[i + 1] = base * sum[i] + digits[n - i]
  <2>1. i + 1 \in 0..n /\ i + 1 # 0 /\ (i + 1) - 1 = i /\ n + 1 - (i + 1) = n - i
    BY <1>0
  <2>2. sum[i + 1] = base * sum[(i + 1) - 1] + digits[n + 1 - (i + 1)]
    BY <1>7, <2>1
  <2>3. QED BY <2>1, <2>2
<1> DEFINE T == {i \in Nat : i <= n => sum[i] \in Nat}
<1>11. 0 \in T
  BY <1>9
<1>12. ASSUME NEW i \in Nat, i \in T PROVE i + 1 \in T
  <2> SUFFICES ASSUME i + 1 <= n PROVE sum[i + 1] \in Nat
    OBVIOUS
  <2>1. i \in 0..(n - 1) /\ n - i \in 1..n
    BY <1>0
  <2>2. sum[i] \in Nat /\ digits[n - i] \in Nat
    BY <1>0, <1>12, <2>1
  <2>3. base * sum[i] \in Nat
    BY <2>2
  <2>4. base * sum[i] + digits[n - i] \in Nat
    BY <2>2, <2>3
  <2>5. QED BY <1>10, <2>1, <2>4
<1>13. \A i \in Nat : i \in T
  <2> HIDE DEF T
  <2> QED BY <1>11, <1>12, Induction
<1>14. sum \in [0..n -> Nat]
  <2>1. \A i \in 0..n : sum[i] \in Nat
    BY <1>0, <1>13
  <2>2. QED BY <1>7, <2>1
<1>15. QED
  <2>1. /\ ValueOf(digits, base) = sum[n]
        /\ sum[0] = 0
        /\ \A i \in 0..(n - 1) : sum[i + 1] = base * sum[i] + digits[n - i]
    BY <1>8, <1>9, <1>10
  <2>2. QED BY <1>14, <2>1 DEF n

\* The digits that shifting yields make up the number again.
LEMMA DigitsOfValue ==
  ASSUME NEW v \in Nat, NEW base \in Nat \ {0}, NEW digits \in Seq(Nat),
         Shifted(v, base)[Len(digits)] = 0,
         \A i \in 1..Len(digits) : digits[i] = Shifted(v, base)[i - 1] % base
  PROVE  ValueOf(digits, base) = v
<1> DEFINE q == Shifted(v, base)
           n == Len(digits)
<1>0. n \in Nat
  OBVIOUS
<1>1. q \in [Nat -> Nat] /\ q[0] = v /\ \A i \in Nat : q[i + 1] = q[i] \div base
  BY ShiftedSteps
<1>2. q[n] = 0 /\ \A i \in 1..n : digits[i] = q[i - 1] % base
  OBVIOUS
<1>3. PICK sum \in [0..n -> Nat] :
        /\ ValueOf(digits, base) = sum[n]
        /\ sum[0] = 0
        /\ \A i \in 0..(n - 1) : sum[i + 1] = base * sum[i] + digits[n - i]
  BY ValueOfSteps
<1> HIDE DEF q, n
<1> DEFINE T == {j \in Nat : j <= n => sum[j] = q[n - j]}
<1>4. 0 \in T
  BY <1>0, <1>2, <1>3
<1>5. ASSUME NEW j \in Nat, j \in T PROVE j + 1 \in T
  <2> SUFFICES ASSUME j + 1 <= n PROVE sum[j + 1] = q[n - (j + 1)]
    OBVIOUS
  <2>1. j \in 0..(n - 1) /\ n - j \in 1..n /\ n - j - 1 = n - (j + 1)
        /\ n - (j + 1) \in Nat /\ n - j = (n - (j + 1)) + 1
    BY <1>0
  <2>2. sum[j] = q[n - j] /\ sum[j + 1] = base * sum[j] + digits[n - j]
    <3>1. j <= n
      BY <1>0
    <3>2. QED BY <1>3, <1>5, <2>1, <3>1
  <2>3. digits[n - j] = q[n - (j + 1)] % base
    BY <1>2, <2>1
  <2>4. q[n - j] = q[n - (j + 1)] \div base /\ q[n - (j + 1)] \in Nat
    BY <1>1, <2>1
  <2>5. base * (q[n - (j + 1)] \div base) + (q[n - (j + 1)] % base) = q[n - (j + 1)]
    BY <2>4, DivMod
  <2>6. QED BY <2>2, <2>3, <2>4, <2>5
<1>6. \A j \in Nat : j \in T
  <2> HIDE DEF T
  <2> QED BY <1>4, <1>5, Induction
<1>7. sum[n] = q[n - n] /\ n - n = 0
  BY <1>0, <1>6
<1>8. QED BY <1>1, <1>3, <1>7

\* A number of k digits is used up after k shifts.
LEMMA ShiftedToZero ==
  ASSUME NEW bits \in Nat, NEW k \in Nat, NEW v \in Nat, v < Pow2[bits * k]
  PROVE  Shifted(v, Pow2[bits])[k] = 0
<1> DEFINE base == Pow2[bits]
           q == Shifted(v, base)
<1>0. base \in Nat \ {0}
  BY Pow2Type
<1>1. q \in [Nat -> Nat] /\ q[0] = v /\ \A i \in Nat : q[i + 1] = q[i] \div base
  BY <1>0, ShiftedSteps
<1> HIDE DEF q
<1> DEFINE T == {i \in Nat : i <= k => q[i] < Pow2[bits * (k - i)]}
<1>2. 0 \in T
  BY <1>1
<1>3. ASSUME NEW i \in Nat, i \in T PROVE i + 1 \in T
  <2> SUFFICES ASSUME i + 1 <= k PROVE q[i + 1] < Pow2[bits * (k - (i + 1))]
    OBVIOUS
  <2> DEFINE rest == bits * (k - (i + 1))
  <2>1. k - (i + 1) \in Nat /\ k - i = (k - (i + 1)) + 1
    OBVIOUS
  <2>2. rest \in Nat /\ bits * (k - i) = bits + rest
    BY <2>1
  <2> HIDE DEF rest
  <2>3. Pow2[bits * (k - i)] = base * Pow2[rest] /\ Pow2[rest] \in Nat
    BY <2>2, Pow2Sum, Pow2Type
  <2>4. q[i] \in Nat /\ q[i] < base * Pow2[rest]
    BY <1>1, <1>3, <2>3
  <2>5. q[i] \div base < Pow2[rest]
    <3> HIDE DEF base
    <3> QED BY <1>0, <2>3, <2>4
  <2>6. QED BY <1>1, <2>5 DEF rest
<1>4. \A i \in Nat : i \in T
  <2> HIDE DEF T
  <2> QED BY <1>2, <1>3, Induction
<1>5. q[k] < Pow2[bits * (k - k)] /\ bits * (k - k) = 0
  BY <1>4
<1>6. q[k] \in Nat /\ q[k] < 1
  BY <1>1, <1>5, Pow2Step
<1>7. QED BY <1>6 DEF q

-----------------------------------------------------------------------------
(***************************************************************************)
(* What is encoded is decoded.                                             *)
(***************************************************************************)

LEMMA BytesAreNumbers ==
  ASSUME NEW s \in Seq(Byte)
  PROVE  s \in Seq(Nat) /\ \A i \in 1..Len(s) : s[i] \in Byte /\ s[i] \in Nat
<1>1. Byte \subseteq Nat
  BY RadixFacts
<1>2. \A i \in 1..Len(s) : s[i] \in Byte
  OBVIOUS
<1>3. \A i \in 1..Len(s) : s[i] \in Nat
  BY <1>1, <1>2
<1>4. s = [i \in 1..Len(s) |-> s[i]] /\ Len(s) \in Nat
  OBVIOUS
<1>5. s \in Seq(Nat)
  BY <1>3, <1>4
<1>6. QED BY <1>2, <1>3, <1>5

LEMMA InOrderTwice ==
  ASSUME NEW a, NEW s \in Seq(Byte)
  PROVE  /\ InOrder(a, s) \in Seq(Byte) /\ Len(InOrder(a, s)) = Len(s)
         /\ InOrder(a, InOrder(a, s)) = s
<1> DEFINE r == Reverse(s)
<1>1. r = [i \in 1..Len(s) |-> s[(Len(s) - i) + 1]]
  BY DEF Reverse
<1>2. \A i \in 1..Len(s) : (Len(s) - i) + 1 \in 1..Len(s) /\ s[(Len(s) - i) + 1] \in Byte
  OBVIOUS
<1> HIDE DEF r
<1>3. r \in Seq(Byte) /\ Len(r) = Len(s)
  BY <1>1, <1>2
<1>4. Reverse(r) = [i \in 1..Len(s) |-> r[(Len(s) - i) + 1]]
  BY <1>3 DEF Reverse
<1>5. \A i \in 1..Len(s) : r[(Len(s) - i) + 1] = s[i]
  BY <1>1, <1>2
<1>6. Reverse(r) = s
  BY <1>4, <1>5
<1>7. QED BY <1>3, <1>6 DEF InOrder, r

LEMMA FixedBytesType ==
  ASSUME NEW a, NEW width \in Nat, NEW v \in Nat
  PROVE  FixedBytes(a, width, v) \in Seq(Byte) /\ Len(FixedBytes(a, width, v)) = width
<1> DEFINE q == Shifted(v, Radix)
           s == [i \in 1..width |-> q[i - 1] % Radix]
<1>0. Radix \in Nat \ {0} /\ Byte = 0..(Radix - 1)
  BY RadixFacts DEF Byte
<1>1. q \in [Nat -> Nat]
  BY <1>0, ShiftedSteps
<1> HIDE DEF q
<1>2. ASSUME NEW i \in 1..width PROVE q[i - 1] % Radix \in Byte
  <2>1. i - 1 \in Nat
    OBVIOUS
  <2>2. q[i - 1] \in Nat
    BY <1>1, <2>1
  <2>3. QED BY <1>0, <2>2, DivMod
<1>3. s \in Seq(Byte) /\ Len(s) = width
  BY <1>2
<1> HIDE DEF s
<1>4. QED BY <1>3, InOrderTwice DEF FixedBytes, s, q

LEMMA FixedRoundTrip ==
  ASSUME NEW a, NEW width \in Nat, NEW v \in Nat, v < Pow2[ByteBits * width]
  PROVE  FixedValue(a, FixedBytes(a, width, v)) = v
<1> DEFINE q == Shifted(v, Radix)
           s == [i \in 1..width |-> q[i - 1] % Radix]
<1>0. Radix \in Nat \ {0} /\ Byte = 0..(Radix - 1)
  BY RadixFacts DEF Byte
<1>1. q \in [Nat -> Nat]
  BY <1>0, ShiftedSteps
<1>2. q[width] = 0
  BY ShiftedToZero, ByteArrayAssumption DEF Radix
<1> HIDE DEF q
<1>3. ASSUME NEW i \in 1..width PROVE q[i - 1] % Radix \in Byte
  <2>1. i - 1 \in Nat
    OBVIOUS
  <2>2. q[i - 1] \in Nat
    BY <1>1, <2>1
  <2>3. QED BY <1>0, <2>2, DivMod
<1>4. s \in Seq(Byte) /\ s \in Seq(Nat) /\ Len(s) = width
  BY <1>0, <1>3
<1>5. \A i \in 1..Len(s) : s[i] = q[i - 1] % Radix
  BY <1>4
<1> HIDE DEF s
<1>6. ValueOf(s, Radix) = v
  BY <1>0, <1>2, <1>4, <1>5, DigitsOfValue DEF q
<1>7. FixedBytes(a, width, v) = InOrder(a, s)
  BY DEF FixedBytes, s, q
<1>8. QED BY <1>4, <1>6, <1>7, InOrderTwice DEF FixedValue

LEMMA FixedValueType ==
  ASSUME NEW a, NEW s \in Seq(Byte)
  PROVE  FixedValue(a, s) \in Nat
<1> DEFINE t == InOrder(a, s)
<1>1. Byte \subseteq Nat /\ Radix \in Nat
  BY RadixFacts
<1>2. t \in Seq(Byte)
  BY InOrderTwice
<1> HIDE DEF t
<1>3. t \in Seq(Nat)
  BY <1>1, <1>2, BytesAreNumbers
<1>4. PICK sum \in [0..Len(t) -> Nat] : ValueOf(t, Radix) = sum[Len(t)]
  BY <1>1, <1>3, ValueOfSteps
<1>5. Len(t) \in 0..Len(t)
  BY <1>3
<1>6. QED BY <1>4, <1>5 DEF FixedValue, t

LEMMA MaxGroupsFacts ==
  /\ MaxGroups \in Nat /\ MaxGroups >= 1
  /\ IntBits <= (ByteBits - 1) * MaxGroups
<1> DEFINE b == ByteBits - 1
<1>1. b \in Nat \ {0} /\ IntBits \in Nat \ {0} /\ IntBits + ByteBits - 2 = IntBits + b - 1
  BY ByteArrayAssumption
<1>2. MaxGroups = (IntBits + b - 1) \div b
  BY <1>1 DEF MaxGroups
<1> HIDE DEF b
<1>3. IntBits + b - 1 \in Nat
  BY <1>1
<1>4. /\ MaxGroups \in Nat /\ (IntBits + b - 1) % b \in 0..(b - 1)
      /\ b * MaxGroups + ((IntBits + b - 1) % b) = IntBits + b - 1
  BY <1>1, <1>2, <1>3, DivMod
<1>5. b * MaxGroups \in Nat /\ b * MaxGroups >= IntBits
  BY <1>1, <1>4
<1>6. MaxGroups # 0
  BY <1>1, <1>5
<1>7. QED BY <1>4, <1>5, <1>6 DEF b

\* A varint ends at the first group without the high bit, the last of its array.
LEMMA EncodeUintFacts ==
  ASSUME NEW v \in Nat, v < Pow2[IntBits]
  PROVE  LET s == EncodeUint(v)
         IN  /\ s \in Seq(Byte) /\ Len(s) \in 1..MaxGroups
             /\ \A i \in 1..(Len(s) - 1) : s[i] >= Half
             /\ s[Len(s)] < Half
             /\ DecodeUint(s) = v
<1> DEFINE q == Shifted(v, Half)
           D == {i \in 0..(MaxGroups - 1) : q[i] < Half}
           n == Min(D)
           s == EncodeUint(v)
           d == [i \in DOMAIN s |-> s[i] % Half]
<1>0. Half \in Nat \ {0} /\ Byte = 0..(2 * Half - 1)
  BY RadixFacts
<1>1. q \in [Nat -> Nat] /\ q[0] = v /\ \A i \in Nat : q[i + 1] = q[i] \div Half
  BY <1>0, ShiftedSteps
<1>2. q[MaxGroups] = 0
  <2>1. ByteBits - 1 \in Nat /\ MaxGroups \in Nat /\ IntBits \in Nat
        /\ (ByteBits - 1) * MaxGroups \in Nat
    BY ByteArrayAssumption, MaxGroupsFacts
  <2>2. Pow2[IntBits] <= Pow2[(ByteBits - 1) * MaxGroups]
    BY <2>1, MaxGroupsFacts, Pow2Monotone
  <2>3. Pow2[IntBits] \in Nat /\ Pow2[(ByteBits - 1) * MaxGroups] \in Nat
    BY <2>1, Pow2Type
  <2>4. v < Pow2[(ByteBits - 1) * MaxGroups]
    BY <2>2, <2>3
  <2>5. QED BY <2>1, <2>4, ShiftedToZero DEF Half
<1> HIDE DEF q
<1>3. MaxGroups \in Nat /\ MaxGroups - 1 \in Nat /\ MaxGroups - 1 \in 0..(MaxGroups - 1)
      /\ (MaxGroups - 1) + 1 = MaxGroups
  BY MaxGroupsFacts
<1>4. q[MaxGroups - 1] < Half
  <2>1. q[MaxGroups - 1] \in Nat /\ q[MaxGroups - 1] \div Half = 0
    BY <1>1, <1>2, <1>3
  <2>2. QED BY <1>0, <2>1, DivModSmall
<1>5. D # {} /\ D \in SUBSET Nat
  BY <1>3, <1>4
<1>6. \E x \in D : \A y \in D : x <= y
  <2> HIDE DEF D
  <2> QED BY <1>5, LeastElement
<1>7. n \in D /\ \A y \in D : n <= y
  BY <1>6 DEF Min
<1>8. s = [i \in 1..(n + 1) |-> IF i = n + 1 THEN q[n] ELSE (q[i - 1] % Half) + Half]
  BY DEF EncodeUint, q
<1> HIDE DEF n, s
<1>9. n \in Nat /\ n + 1 \in 1..MaxGroups /\ q[n] < Half /\ q[n] \in Nat
  BY <1>1, <1>3, <1>7
<1>10. ASSUME NEW i \in 1..(n + 1), i # n + 1
       PROVE  /\ i - 1 \in Nat /\ q[i - 1] \in Nat /\ q[i - 1] % Half \in 0..(Half - 1)
              /\ s[i] = (q[i - 1] % Half) + Half
  <2>1. i - 1 \in Nat
    OBVIOUS
  <2>2. q[i - 1] \in Nat
    BY <1>1, <2>1
  <2>3. q[i - 1] % Half \in 0..(Half - 1)
    BY <1>0, <2>2, DivMod
  <2>4. QED BY <1>8, <1>10, <2>1, <2>2, <2>3
<1>11. s[n + 1] = q[n]
  BY <1>8, <1>9
<1>12. ASSUME NEW i \in 1..(n + 1) PROVE s[i] \in Byte
  <2>1. CASE i = n + 1
    BY <1>0, <1>9, <1>11, <2>1
  <2>2. CASE i # n + 1
    BY <1>0, <1>10, <2>2
  <2>3. QED BY <2>1, <2>2
<1>13. s \in Seq(Byte) /\ Len(s) = n + 1 /\ DOMAIN s = 1..(n + 1)
  BY <1>8, <1>9, <1>12
<1>14. ASSUME NEW i \in 1..(n + 1) PROVE d[i] = q[i - 1] % Half /\ d[i] \in Nat
  <2>1. d[i] = s[i] % Half
    BY <1>13
  <2>2. CASE i = n + 1
    <3>1. i - 1 = n
      BY <1>9, <2>2
    <3>2. q[n] % Half = q[n]
      BY <1>0, <1>9, DivModSmall
    <3>3. QED BY <1>9, <1>11, <2>1, <2>2, <3>1, <3>2
  <2>3. CASE i # n + 1
    <3>1. ((q[i - 1] % Half) + Half) % Half = q[i - 1] % Half
      <4>1. PICK x \in 0..(Half - 1) : x = q[i - 1] % Half
        BY <1>10, <2>3
      <4>2. (x + Half) % Half = x
        BY <1>0
      <4>3. QED BY <4>1, <4>2
    <3>2. QED BY <1>10, <2>1, <2>3, <3>1
  <2>4. QED BY <2>2, <2>3
<1>15. d \in Seq(Nat) /\ Len(d) = n + 1
  <2>1. d = [i \in 1..(n + 1) |-> d[i]]
    BY <1>13
  <2> HIDE DEF d
  <2>2. QED BY <1>9, <1>14, <2>1
<1>16. q[n + 1] = 0
  <2>1. q[n + 1] = q[n] \div Half
    BY <1>1, <1>9
  <2>2. QED BY <1>0, <1>9, <2>1
<1>17. ValueOf(d, Half) = v
  <2> HIDE DEF d
  <2>1. \A i \in 1..Len(d) : d[i] = Shifted(v, Half)[i - 1] % Half
    BY <1>14, <1>15 DEF q
  <2>2. Shifted(v, Half)[Len(d)] = 0
    BY <1>15, <1>16 DEF q
  <2>3. QED BY <1>0, <1>15, <2>1, <2>2, DigitsOfValue
<1>18. DecodeUint(s) = v
  <2>1. IntBits \in Nat /\ Pow2[IntBits] \in Nat \ {0}
    BY ByteArrayAssumption, Pow2Type
  <2>2. v % Pow2[IntBits] = v
    BY <2>1
  <2>3. QED BY <1>17, <2>2 DEF DecodeUint
<1>19. \A i \in 1..(Len(s) - 1) : s[i] >= Half
  BY <1>0, <1>9, <1>10, <1>13
<1>20. QED BY <1>9, <1>11, <1>13, <1>18, <1>19 DEF s

LEMMA DecodeUintType ==
  ASSUME NEW s \in Seq(Byte)
  PROVE  DecodeUint(s) \in Nat
<1> DEFINE d == [i \in DOMAIN s |-> s[i] % Half]
<1>0. Half \in Nat \ {0} /\ Byte \subseteq Nat
  BY RadixFacts
<1>1. ASSUME NEW i \in 1..Len(s) PROVE s[i] % Half \in Nat
  <2>1. s[i] \in Nat
    BY BytesAreNumbers
  <2>2. QED BY <1>0, <2>1, DivMod
<1>2. d \in Seq(Nat)
  BY <1>1
<1> HIDE DEF d
<1>3. PICK sum \in [0..Len(d) -> Nat] : ValueOf(d, Half) = sum[Len(d)]
  BY <1>0, <1>2, ValueOfSteps
<1>4. ValueOf(d, Half) \in Nat
  BY <1>2, <1>3
<1>5. Pow2[IntBits] \in Nat \ {0}
  BY ByteArrayAssumption, Pow2Type
<1>6. ValueOf(d, Half) % Pow2[IntBits] \in Nat
  BY <1>4, <1>5, DivMod
<1>7. QED BY <1>6 DEF DecodeUint, d

LEMMA ZigzagRoundTrip ==
  ASSUME NEW v \in Int, -Pow2[IntBits - 1] <= v, v < Pow2[IntBits - 1]
  PROVE  /\ EncodeZigzag(v) \in Nat /\ EncodeZigzag(v) < Pow2[IntBits]
         /\ DecodeZigzag(EncodeZigzag(v)) = v
<1> DEFINE P == Pow2[IntBits - 1]
<1>1. IntBits - 1 \in Nat /\ IntBits = (IntBits - 1) + 1
  BY ByteArrayAssumption
<1>2. P \in Nat \ {0} /\ Pow2[IntBits] = 2 * P
  BY <1>1, Pow2Type, Pow2Step
<1>3. -P <= v /\ v < P
  OBVIOUS
<1> HIDE DEF P
<1>4. CASE v >= 0
  <2>1. EncodeZigzag(v) = 2 * v
    BY <1>4 DEF EncodeZigzag
  <2>2. (2 * v) % 2 = 0 /\ (2 * v) \div 2 = v
    BY <1>4
  <2>3. QED BY <1>2, <1>3, <1>4, <2>1, <2>2 DEF DecodeZigzag
<1>5. CASE v < 0
  <2>1. (2 * v) % (2 * P) = 2 * v + 2 * P
    BY <1>2, <1>3, <1>5
  <2>2. EncodeZigzag(v) = 2 * P - 1 - (2 * v + 2 * P)
    BY <1>2, <1>5, <2>1 DEF EncodeZigzag
  <2>3. EncodeZigzag(v) = -1 - 2 * v
    BY <1>2, <2>2
  <2>4. (-1 - 2 * v) % 2 = 1 /\ (-1 - 2 * v) \div 2 = -1 - v
    BY <1>5
  <2>5. DecodeZigzag(-1 - 2 * v) = v
    BY <1>5, <2>4 DEF DecodeZigzag
  <2>6. QED BY <1>2, <1>3, <1>5, <2>3, <2>5
<1>6. QED BY <1>4, <1>5

-----------------------------------------------------------------------------
(***************************************************************************)
(* Positions and blocks.                                                   *)
(***************************************************************************)

\* The address of position i.
Loc(i) == <<(i \div BaseSize) + 1, (i % BaseSize) + 1>>

LEMMA BlockOf ==
  ASSUME NEW i \in Nat
  PROVE  /\ i \div BaseSize \in Nat /\ i % BaseSize \in 0..(BaseSize - 1)
         /\ (i % BaseSize) + 1 \in 1..BaseSize
         /\ BaseSize * (i \div BaseSize) + (i % BaseSize) = i
         /\ \A m \in Nat : i < BaseSize * m <=> i \div BaseSize < m
<1>0. BaseSize \in Nat \ {0}
  BY ByteArrayAssumption
<1>1. /\ i \div BaseSize \in Nat /\ i % BaseSize \in 0..(BaseSize - 1)
      /\ BaseSize * (i \div BaseSize) + (i % BaseSize) = i
  BY <1>0, DivMod
<1>2. (i % BaseSize) + 1 \in 1..BaseSize
  BY <1>0, <1>1
<1>3. ASSUME NEW m \in Nat PROVE i < BaseSize * m <=> i \div BaseSize < m
  BY <1>0
<1>4. QED BY <1>1, <1>2, <1>3

LEMMA LocInjective ==
  ASSUME NEW i \in Nat, NEW j \in Nat, Loc(i) = Loc(j)
  PROVE  i = j
<1>1. (i \div BaseSize) + 1 = (j \div BaseSize) + 1 /\ (i % BaseSize) + 1 = (j % BaseSize) + 1
  BY DEF Loc
<1>2. i \div BaseSize = j \div BaseSize /\ i % BaseSize = j % BaseSize
  <2>1. /\ i \div BaseSize \in Nat /\ i % BaseSize \in Nat
        /\ j \div BaseSize \in Nat /\ j % BaseSize \in Nat
    BY BlockOf
  <2>2. QED BY <1>1, <2>1
<1>3. QED BY <1>2, BlockOf

LEMMA DivUnique ==
  ASSUME NEW b \in Nat \ {0}, NEW x \in Nat, NEW q \in Nat, NEW r \in 0..(b - 1),
         x = b * q + r
  PROVE  x \div b = q /\ x % b = r
OBVIOUS

\* k bytes further on.
LEMMA BlockAhead ==
  ASSUME NEW p \in Nat, NEW k \in Nat
  PROVE  /\ (p \div BaseSize) + (((p % BaseSize) + k) \div BaseSize) = (p + k) \div BaseSize
         /\ ((p % BaseSize) + k) % BaseSize = (p + k) % BaseSize
<1> DEFINE d == p \div BaseSize
           m == p % BaseSize
           x == m + k
<1>0. BaseSize \in Nat \ {0}
  BY ByteArrayAssumption
<1>1. d \in Nat /\ m \in Nat /\ BaseSize * d + m = p
  BY <1>0, DivMod
<1> HIDE DEF d, m
<1>2. x \in Nat /\ p + k \in Nat /\ p + k = BaseSize * d + x
  <2>1. BaseSize * d \in Nat
    BY <1>0, <1>1
  <2>2. QED BY <1>1, <2>1
<1> HIDE DEF x
<1>3. x \div BaseSize \in Nat /\ x % BaseSize \in 0..(BaseSize - 1)
      /\ BaseSize * (x \div BaseSize) + (x % BaseSize) = x
  BY <1>0, <1>2, DivMod
<1> DEFINE e == x \div BaseSize
           r == x % BaseSize
<1>4. e \in Nat /\ r \in 0..(BaseSize - 1) /\ BaseSize * e + r = x
  BY <1>3
<1> HIDE DEF e, r
<1>5. p + k = BaseSize * (d + e) + r
  <2>2. BaseSize * (d + e) = BaseSize * d + BaseSize * e
    BY <1>0, <1>1, <1>4
  <2>3. BaseSize * d \in Nat /\ BaseSize * e \in Nat
    BY <1>0, <1>1, <1>4
  <2>4. QED BY <1>2, <1>4, <2>2, <2>3
<1>6. (p + k) \div BaseSize = d + e /\ (p + k) % BaseSize = r
  <2>1. d + e \in Nat
    BY <1>1, <1>4
  <2>2. QED BY <1>0, <1>2, <1>4, <1>5, <2>1, DivUnique
<1>7. QED BY <1>6 DEF d, e, r, x, m

-----------------------------------------------------------------------------
(***************************************************************************)
(* The object.                                                             *)
(***************************************************************************)

ArrayType ==
  [mem : Seq([1..BaseSize -> Byte]), position : Nat, size : Nat, capacity : Nat, cur : Nat,
   endian : {"BIG", "LITTLE"}, fresh : Byte]

\* The inductive invariant: the types, a first block, the cursor in step.
Good(a) == a \in ArrayType /\ Len(a.mem) > 0 /\ InStep(a)

\* What m_cur is at position p.
CurAt(a, p) == IF p = a.capacity THEN Null ELSE (p \div BaseSize) + 1

\* The object with its position moved.
At(a, p) == [a EXCEPT !.position = p, !.cur = CurAt(a, p)]

LEMMA GoodFacts ==
  ASSUME NEW a, Good(a)
  PROVE  /\ a.position \in Nat /\ a.size \in Nat /\ a.capacity \in Nat /\ a.cur \in Nat
         /\ a.mem \in Seq([1..BaseSize -> Byte]) /\ Len(a.mem) \in Nat \ {0}
         /\ a.endian \in {"BIG", "LITTLE"} /\ a.fresh \in Byte
         /\ a.capacity = BaseSize * Len(a.mem)
         /\ a.position <= a.size /\ a.size <= a.capacity
         /\ a.cur = CurAt(a, a.position)
         /\ a \in ArrayType
BY DEF Good, InStep, ArrayType, CurAt

LEMMA BaseFacts == BaseSize \in Nat /\ BaseSize > 0
BY ByteArrayAssumption

\* A position below the capacity is in a block.
LEMMA InBlocks ==
  ASSUME NEW a, Good(a), NEW i \in Nat, i < a.capacity
  PROVE  /\ (i \div BaseSize) + 1 \in 1..Len(a.mem) /\ (i % BaseSize) + 1 \in 1..BaseSize
         /\ ByteAt(a, i) \in Byte
<1>1. /\ a.mem \in Seq([1..BaseSize -> Byte]) /\ Len(a.mem) \in Nat
      /\ a.capacity = BaseSize * Len(a.mem)
  BY GoodFacts
<1>2. i \div BaseSize \in Nat /\ i \div BaseSize < Len(a.mem)
  BY <1>1, BlockOf
<1>3. (i \div BaseSize) + 1 \in 1..Len(a.mem)
  BY <1>1, <1>2
<1>4. (i % BaseSize) + 1 \in 1..BaseSize
  BY BlockOf
<1>5. a.mem[(i \div BaseSize) + 1] \in [1..BaseSize -> Byte]
  BY <1>1, <1>3
<1>6. a.mem[(i \div BaseSize) + 1][(i % BaseSize) + 1] \in Byte
  BY <1>4, <1>5
<1>7. QED BY <1>3, <1>4, <1>6 DEF ByteAt

\* The n bytes from position p on.
Slice(a, p, n) == [i \in 1..n |-> ByteAt(a, p + i - 1)]

LEMMA SliceType ==
  ASSUME NEW a, Good(a), NEW p \in Nat, NEW n \in Nat, p + n <= a.capacity
  PROVE  /\ Slice(a, p, n) \in Seq(Byte) /\ Len(Slice(a, p, n)) = n
         /\ \A i \in 1..n : Slice(a, p, n)[i] = ByteAt(a, p + i - 1)
<1>1. ASSUME NEW i \in 1..n PROVE ByteAt(a, p + i - 1) \in Byte
  <2>1. p + i - 1 \in Nat /\ p + i - 1 < a.capacity
    BY GoodFacts
  <2>2. QED BY <2>1, InBlocks
<1>2. QED BY <1>1 DEF Slice

\* The loops visit the bytes from the position on.
LEMMA AddressesAre ==
  ASSUME NEW a, Good(a), NEW p \in Nat, NEW n \in Nat, p + n <= a.capacity,
         NEW node, n > 0 => node = (p \div BaseSize) + 1
  PROVE  LET at == Addresses(a, node, p % BaseSize, n)
         IN  /\ at = [i \in 1..n |-> Loc(p + i - 1)]
             /\ Valid(at)
             /\ Peek(a, at) = Slice(a, p, n)
<1> DEFINE at == Addresses(a, node, p % BaseSize, n)
           block(k) == node + (((p % BaseSize) + k) \div BaseSize)
<1>0. a.capacity \in Nat /\ Len(a.mem) \in Nat
  BY GoodFacts
<1>1. ASSUME NEW i \in 1..n
      PROVE  /\ node # Null /\ block(i - 1) <= Len(a.mem)
             /\ block(i - 1) = ((p + i - 1) \div BaseSize) + 1
             /\ ((p % BaseSize) + i - 1) % BaseSize = (p + i - 1) % BaseSize
             /\ p + i - 1 \in Nat /\ p + i - 1 < a.capacity
  <2>1. i - 1 \in Nat /\ p + i - 1 \in Nat /\ p + i - 1 < a.capacity /\ n > 0
        /\ p + (i - 1) = p + i - 1
    BY <1>0
  <2>2. p \div BaseSize \in Nat /\ p % BaseSize \in Nat
    BY BlockOf
  <2>3. node = (p \div BaseSize) + 1 /\ node # Null
    BY <2>1, <2>2 DEF Null
  <2>4. (p % BaseSize) + (i - 1) = (p % BaseSize) + i - 1 /\ (p % BaseSize) + (i - 1) \in Nat
    BY <2>2
  <2>5. /\ (p \div BaseSize) + (((p % BaseSize) + (i - 1)) \div BaseSize) = (p + i - 1) \div BaseSize
        /\ ((p % BaseSize) + (i - 1)) % BaseSize = (p + i - 1) % BaseSize
    BY <2>1, BlockAhead
  <2>6. ((p % BaseSize) + (i - 1)) \div BaseSize \in Nat
    BY <2>4, BlockOf
  <2>7. block(i - 1) = ((p + i - 1) \div BaseSize) + 1
    BY <2>2, <2>3, <2>5, <2>6
  <2>8. ((p + i - 1) \div BaseSize) + 1 \in 1..Len(a.mem)
    BY <2>1, InBlocks
  <2>9. QED BY <1>0, <2>1, <2>3, <2>4, <2>5, <2>7, <2>8
<1>2. at = [i \in 1..n |-> Loc(p + i - 1)]
  <2>1. at = [i \in 1..n |-> <<IF node = Null \/ block(i - 1) > Len(a.mem) THEN Null
                               ELSE block(i - 1),
                               (((p % BaseSize) + i - 1) % BaseSize) + 1>>]
    BY DEF Addresses
  <2>2. ASSUME NEW i \in 1..n
        PROVE  <<IF node = Null \/ block(i - 1) > Len(a.mem) THEN Null ELSE block(i - 1),
                 (((p % BaseSize) + i - 1) % BaseSize) + 1>> = Loc(p + i - 1)
    <3>1. ((p + i - 1) \div BaseSize) + 1 \in 1..Len(a.mem)
      BY <1>1, InBlocks
    <3>2. ~(block(i - 1) > Len(a.mem))
      BY <1>0, <1>1, <3>1
    <3> HIDE DEF block
    <3>3. QED BY <1>1, <3>2 DEF Loc
  <2>3. QED BY <2>1, <2>2
<1> HIDE DEF at
<1>3. ASSUME NEW i \in 1..n
      PROVE  /\ at[i][1] = ((p + i - 1) \div BaseSize) + 1 /\ at[i][1] # Null
             /\ at[i][2] = ((p + i - 1) % BaseSize) + 1
  <2>1. at[i] = Loc(p + i - 1)
    BY <1>2
  <2>2. ((p + i - 1) \div BaseSize) + 1 \in 1..Len(a.mem)
    BY <1>1, InBlocks
  <2>3. QED BY <2>1, <2>2 DEF Loc, Null
<1>4. DOMAIN at = 1..n
  BY <1>2
<1>5. Valid(at)
  BY <1>3, <1>4 DEF Valid
<1>6. Peek(a, at) = [k \in 1..n |-> a.mem[at[k][1]][at[k][2]]]
  BY <1>4, <1>5 DEF Peek
<1>7. \A k \in 1..n : a.mem[at[k][1]][at[k][2]] = ByteAt(a, p + k - 1)
  BY <1>3 DEF ByteAt
<1>8. Peek(a, at) = Slice(a, p, n)
  BY <1>6, <1>7 DEF Slice
<1>9. QED BY <1>2, <1>5, <1>8 DEF at

LEMMA CurAfterIs ==
  ASSUME NEW a, Good(a), NEW p \in Nat, NEW n \in Nat, n > 0, p + n <= a.capacity
  PROVE  CurAfter(a, [i \in 1..n |-> Loc(p + i - 1)]) = CurAt(a, p + n)
<1> DEFINE at == [i \in 1..n |-> Loc(p + i - 1)]
           x == p + n - 1
           d == x \div BaseSize
           r == x % BaseSize
<1>0. /\ a.capacity \in Nat /\ Len(a.mem) \in Nat /\ a.capacity = BaseSize * Len(a.mem)
      /\ BaseSize \in Nat \ {0}
  BY GoodFacts, ByteArrayAssumption
<1>1. at # <<>> /\ Len(at) = n /\ at[n] = Loc(x) /\ at \in Seq({Loc(i) : i \in Nat})
  BY DEF x
<1>2. Last(at) = Loc(x)
  BY <1>1 DEF Last
<1> HIDE DEF at
<1>3. x \in Nat /\ x + 1 = p + n /\ x < a.capacity
  BY <1>0
<1> SUFFICES CurAfter(a, at) = CurAt(a, x + 1)
  BY <1>3 DEF at
<1> HIDE DEF x
<1>4. d \in Nat /\ r \in 0..(BaseSize - 1) /\ BaseSize * d + r = x /\ d + 1 \in 1..Len(a.mem)
  BY <1>3, BlockOf, InBlocks
<1> HIDE DEF d, r
<1>5. Loc(x)[1] = d + 1 /\ Loc(x)[2] = r + 1
  BY DEF Loc, d, r
<1>6. CASE r + 1 = BaseSize
  <2>1. x + 1 = BaseSize * (d + 1) + 0 /\ d + 1 \in Nat /\ x + 1 \in Nat /\ 0 \in 0..(BaseSize - 1)
    BY <1>0, <1>3, <1>4, <1>6
  <2>2. (x + 1) \div BaseSize = d + 1
    BY <1>0, <2>1, DivUnique
  <2>3. CurAfter(a, at) = NextNode(a, d + 1)
    BY <1>1, <1>2, <1>5, <1>6 DEF CurAfter
  <2>4. CASE d + 1 < Len(a.mem)
    <3>1. x + 1 # a.capacity
      BY <1>0, <1>4, <2>1, <2>4
    <3>2. QED BY <1>3, <2>2, <2>3, <2>4, <3>1 DEF NextNode, CurAt
  <2>5. CASE ~(d + 1 < Len(a.mem))
    <3>1. d + 1 = Len(a.mem)
      BY <1>0, <1>4, <2>5
    <3>2. x + 1 = a.capacity
      BY <1>0, <2>1, <3>1
    <3>3. QED BY <1>3, <2>3, <2>5, <3>2 DEF NextNode, CurAt
  <2>6. QED BY <2>4, <2>5
<1>7. CASE r + 1 # BaseSize
  <2>1. x + 1 = BaseSize * d + (r + 1) /\ x + 1 \in Nat /\ r + 1 \in 0..(BaseSize - 1)
    BY <1>0, <1>3, <1>4, <1>7
  <2>2. (x + 1) \div BaseSize = d
    BY <1>0, <1>4, <2>1, DivUnique
  <2>3. CurAfter(a, at) = d + 1
    BY <1>1, <1>2, <1>5, <1>7 DEF CurAfter
  <2>4. x + 1 # a.capacity
    <3>1. d < Len(a.mem)
      BY <1>0, <1>4
    <3>2. x + 1 < BaseSize * Len(a.mem)
      BY <1>0, <2>1, <2>2, <3>1, BlockOf
    <3>3. QED BY <1>0, <1>3, <3>2
  <2>5. QED BY <1>3, <2>2, <2>3, <2>4 DEF CurAt
<1>8. QED BY <1>6, <1>7

\* m holds what the blocks of a hold, but the bytes from position p on.
Poked(a, p, n, bytes, m) ==
  /\ m \in Seq([1..BaseSize -> Byte]) /\ Len(m) = Len(a.mem)
  /\ \A i \in Nat : i < a.capacity =>
       m[(i \div BaseSize) + 1][(i % BaseSize) + 1]
         = IF i \in p..(p + n - 1) THEN bytes[i - p + 1] ELSE ByteAt(a, i)

LEMMA PokeIs ==
  ASSUME NEW a, Good(a), NEW p \in Nat, NEW n \in Nat, p + n <= a.capacity,
         NEW at, at = [i \in 1..n |-> Loc(p + i - 1)],
         NEW bytes \in Seq(Byte), n <= Len(bytes)
  PROVE  Poked(a, p, n, bytes, Poke(a, at, bytes))
<1> DEFINE hit(d, o) == \E k \in DOMAIN at : at[k] = <<d, o>>
           val(d, o) == IF hit(d, o) THEN bytes[CHOOSE k \in DOMAIN at : at[k] = <<d, o>>]
                        ELSE a.mem[d][o]
           m == Poke(a, at, bytes)
<1>0. a.mem \in Seq([1..BaseSize -> Byte]) /\ Len(a.mem) \in Nat /\ a.capacity \in Nat
  BY GoodFacts
<1>1. m = [d \in 1..Len(a.mem) |-> [o \in 1..BaseSize |-> val(d, o)]]
  BY <1>0 DEF Poke
<1>2. DOMAIN at = 1..n /\ \A k \in 1..n : at[k] = Loc(p + k - 1)
  OBVIOUS
<1> HIDE DEF m
<1>3. ASSUME NEW d \in 1..Len(a.mem), NEW o \in 1..BaseSize PROVE val(d, o) \in Byte
  <2>1. CASE hit(d, o)
    <3>1. (CHOOSE k \in DOMAIN at : at[k] = <<d, o>>) \in 1..n
      BY <1>2, <2>1
    <3>2. \A k \in 1..n : bytes[k] \in Byte
      OBVIOUS
    <3>3. QED BY <2>1, <3>1, <3>2
  <2>2. CASE ~hit(d, o)
    <3>1. a.mem[d] \in [1..BaseSize -> Byte]
      BY <1>0
    <3>2. a.mem[d][o] \in Byte
      BY <3>1
    <3> HIDE DEF hit
    <3>3. QED BY <2>2, <3>2
  <2>3. QED BY <2>1, <2>2
<1>4. ASSUME NEW i \in Nat, i < a.capacity
      PROVE  val((i \div BaseSize) + 1, (i % BaseSize) + 1)
               = IF i \in p..(p + n - 1) THEN bytes[i - p + 1] ELSE ByteAt(a, i)
  <2> DEFINE d == (i \div BaseSize) + 1
             o == (i % BaseSize) + 1
  <2>1. <<d, o>> = Loc(i)
    BY DEF Loc
  <2>2. ASSUME NEW k \in 1..n, at[k] = <<d, o>> PROVE k = i - p + 1
    <3>0. p + k - 1 \in Nat
      OBVIOUS
    <3>1. Loc(p + k - 1) = Loc(i)
      <4>1. at[k] = Loc(p + k - 1)
        BY <1>2
      <4> HIDE DEF d, o
      <4>2. QED BY <2>1, <2>2, <4>1
    <3>2. p + k - 1 = i
      BY <3>0, <3>1, LocInjective
    <3>3. QED BY <3>2
  <2>3. CASE i \in p..(p + n - 1)
    <3>1. i - p + 1 \in 1..n /\ p + (i - p + 1) - 1 = i
      BY <2>3
    <3>2. at[i - p + 1] = <<d, o>>
      BY <1>2, <2>1, <3>1
    <3> HIDE DEF d, o
    <3>3. hit(d, o)
      BY <1>2, <3>1, <3>2
    <3>4. (CHOOSE k \in DOMAIN at : at[k] = <<d, o>>) = i - p + 1
      BY <1>2, <2>2, <3>1, <3>2
    <3>5. val(d, o) = bytes[i - p + 1]
      BY <3>3, <3>4
    <3>6. QED BY <2>3, <3>5 DEF d, o
  <2>4. CASE i \notin p..(p + n - 1)
    <3>1. ~hit(d, o)
      <4> SUFFICES ASSUME NEW k \in 1..n, at[k] = <<d, o>> PROVE FALSE
        BY <1>2
      <4>1. k = i - p + 1
        BY <2>2
      <4>2. i = p + k - 1
        BY <4>1
      <4>3. QED BY <2>4, <4>2
    <3>2. a.mem[d][o] = ByteAt(a, i)
      BY DEF ByteAt
    <3> HIDE DEF hit, d, o
    <3>3. val(d, o) = ByteAt(a, i)
      BY <3>1, <3>2
    <3>4. QED BY <2>4, <3>3 DEF d, o
  <2>5. QED BY <2>3, <2>4
<1> HIDE DEF val
<1>5. m \in Seq([1..BaseSize -> Byte]) /\ Len(m) = Len(a.mem)
  <2>1. \A d \in 1..Len(a.mem) : [o \in 1..BaseSize |-> val(d, o)] \in [1..BaseSize -> Byte]
    BY <1>3
  <2>2. QED BY <1>0, <1>1, <2>1
<1>6. ASSUME NEW i \in Nat, i < a.capacity
      PROVE  m[(i \div BaseSize) + 1][(i % BaseSize) + 1]
               = val((i \div BaseSize) + 1, (i % BaseSize) + 1)
  <2>1. (i \div BaseSize) + 1 \in 1..Len(a.mem) /\ (i % BaseSize) + 1 \in 1..BaseSize
    BY <1>6, InBlocks
  <2>2. QED BY <1>1, <2>1
<1>7. QED BY <1>4, <1>5, <1>6 DEF m, Poked

\* addCapacity makes room and keeps what is there.
LEMMA AddCapacityIs ==
  ASSUME NEW a, Good(a), NEW n \in Nat
  PROVE  LET b == AddCapacity(a, n)
         IN  /\ Good(b)
             /\ b.position = a.position /\ b.size = a.size
             /\ b.endian = a.endian
             /\ b.capacity >= a.capacity
             /\ a.position + n <= b.capacity
             /\ \A i \in Nat : i < a.capacity => ByteAt(b, i) = ByteAt(a, i)
<1> DEFINE old == a.capacity - a.position
           count == (n - old + BaseSize - 1) \div BaseSize
           more == [i \in 1..count |-> NewNode(a)]
           cur == IF old = 0 THEN Len(a.mem) + 1 ELSE a.cur
           b == AddCapacity(a, n)
<1>0. /\ a.position \in Nat /\ a.size \in Nat /\ a.capacity \in Nat /\ a.cur \in Nat
      /\ a.mem \in Seq([1..BaseSize -> Byte]) /\ Len(a.mem) \in Nat \ {0}
      /\ a.endian \in {"BIG", "LITTLE"} /\ a.fresh \in Byte
      /\ a.capacity = BaseSize * Len(a.mem)
      /\ a.position <= a.size /\ a.size <= a.capacity
      /\ a.cur = CurAt(a, a.position)
      /\ a \in ArrayType
  BY GoodFacts
<1>1. BaseSize \in Nat \ {0}
  BY ByteArrayAssumption
<1>2. old \in Nat
  BY <1>0
<1>3. CASE old >= n
  <2>1. b = a
    BY <1>3 DEF AddCapacity
  <2>2. a.position + n <= a.capacity
    BY <1>0, <1>3
  <2>3. QED BY <1>0, <2>1, <2>2
<1>4. CASE ~(old >= n)
  <2>1. n - old + BaseSize - 1 \in Nat
    BY <1>1, <1>2, <1>4
  <2>2. count \in Nat /\ BaseSize * count >= n - old /\ count > 0
    <3> DEFINE x == n - old + BaseSize - 1
               c == x \div BaseSize
    <3>1. x \in Nat /\ n - old = x - BaseSize + 1 /\ x >= BaseSize
      BY <1>1, <1>2, <1>4, <2>1
    <3> HIDE DEF x
    <3>2. c \in Nat /\ x % BaseSize \in 0..(BaseSize - 1) /\ BaseSize * c + (x % BaseSize) = x
      BY <1>1, <3>1, DivMod
    <3> HIDE DEF c
    <3>3. BaseSize * c \in Nat /\ BaseSize * c >= x - BaseSize + 1
      BY <1>1, <3>1, <3>2
    <3>4. c # 0
      BY <1>1, <3>1, <3>3
    <3>5. QED BY <3>1, <3>2, <3>3, <3>4 DEF c, x
  <2>3. b = [a EXCEPT !.mem = a.mem \o more, !.capacity = a.capacity + count * BaseSize,
                      !.cur = cur]
    BY <1>4 DEF AddCapacity
  <2> HIDE DEF b, count
  <2>4. NewNode(a) \in [1..BaseSize -> Byte]
    BY <1>0 DEF NewNode
  <2>5. more \in Seq([1..BaseSize -> Byte]) /\ Len(more) = count
    BY <2>2, <2>4
  <2> HIDE DEF more
  <2>6. /\ a.mem \o more \in Seq([1..BaseSize -> Byte])
        /\ Len(a.mem \o more) = Len(a.mem) + count
        /\ \A i \in 1..Len(a.mem) : (a.mem \o more)[i] = a.mem[i]
    <3> DEFINE S == [1..BaseSize -> Byte]
               s == a.mem
    <3>0. s \in Seq(S) /\ more \in Seq(S)
      BY <1>0, <2>5
    <3> HIDE DEF S, s
    <3>1. /\ s \o more \in Seq(S) /\ Len(s \o more) = Len(s) + Len(more)
          /\ \A i \in 1..Len(s) : (s \o more)[i] = s[i]
      BY <3>0, Concatenation
    <3>2. QED BY <2>5, <3>1 DEF S, s
  <2>7. count * BaseSize \in Nat /\ count * BaseSize = BaseSize * count /\ count * BaseSize > 0
        /\ BaseSize * (Len(a.mem) + count) = BaseSize * Len(a.mem) + BaseSize * count
    <3> DEFINE k == Len(a.mem)
    <3>1. k \in Nat /\ BaseSize \in Nat /\ BaseSize > 0
      BY <1>0, <1>1
    <3> HIDE DEF k
    <3>2. /\ count * BaseSize \in Nat /\ count * BaseSize = BaseSize * count
          /\ count * BaseSize > 0
      BY <2>2, <3>1, Products
    <3>3. BaseSize * (k + count) = BaseSize * k + BaseSize * count
      BY <2>2, <3>1, Products
    <3>4. QED BY <3>2, <3>3 DEF k
  <2>8. /\ b.mem = a.mem \o more /\ b.capacity = a.capacity + count * BaseSize /\ b.cur = cur
        /\ b.position = a.position /\ b.size = a.size /\ b.endian = a.endian
        /\ b.fresh = a.fresh
    BY <1>0, <2>3 DEF ArrayType
  <2>9. cur \in Nat
    BY <1>0
  <2>10. a.capacity + count * BaseSize \in Nat
    BY <1>0, <2>7
  <2>11. b \in ArrayType
    BY <1>0, <2>3, <2>6, <2>9, <2>10 DEF ArrayType
  <2>12. b.capacity = BaseSize * Len(b.mem) /\ Len(b.mem) > 0
    BY <1>0, <2>2, <2>6, <2>7, <2>8
  <2>13. b.capacity > a.capacity /\ a.position + n <= b.capacity
    BY <1>0, <2>2, <2>7, <2>8
  <2>14. b.cur = (IF b.position = b.capacity THEN Null ELSE (b.position \div BaseSize) + 1)
    <3>1. b.position # b.capacity
      BY <1>0, <2>8, <2>10, <2>13
    <3>2. CASE old = 0
      <4>1. a.position = BaseSize * Len(a.mem) + 0 /\ 0 \in 0..(BaseSize - 1)
        BY <1>0, <1>1, <3>2
      <4>2. a.position \div BaseSize = Len(a.mem)
        BY <1>0, <1>1, <4>1, DivUnique
      <4>3. QED BY <2>8, <3>1, <3>2, <4>2
    <3>3. CASE old # 0
      <4>1. a.position # a.capacity
        BY <1>0, <3>3
      <4>2. QED BY <1>0, <2>8, <3>1, <3>3, <4>1 DEF CurAt
    <3>4. QED BY <3>2, <3>3
  <2>15. Good(b)
    BY <1>0, <2>8, <2>10, <2>11, <2>12, <2>13, <2>14 DEF Good, InStep
  <2>16. ASSUME NEW i \in Nat, i < a.capacity PROVE ByteAt(b, i) = ByteAt(a, i)
    <3>1. (i \div BaseSize) + 1 \in 1..Len(a.mem)
      BY <2>16, InBlocks
    <3>2. QED BY <2>6, <2>8, <3>1 DEF ByteAt
  <2>17. b.capacity >= a.capacity
    BY <1>0, <2>8, <2>10, <2>13
  <2>18. QED BY <2>8, <2>13, <2>15, <2>16, <2>17 DEF b
<1>5. QED BY <1>3, <1>4

-----------------------------------------------------------------------------
(***************************************************************************)
(* Writing.                                                                *)
(***************************************************************************)

\* b is a with s put at its position.
Wrote(a, s, b) ==
  /\ Good(b)
  /\ b.position = a.position + Len(s)
  /\ b.size = (IF b.position > a.size THEN b.position ELSE a.size)
  /\ b.endian = a.endian
  /\ \A i \in 0..(b.size - 1) :
       ByteAt(b, i) = IF i \in a.position..(a.position + Len(s) - 1) THEN s[i - a.position + 1]
                      ELSE ByteAt(a, i)

LEMMA PutIs ==
  ASSUME NEW a, Good(a), NEW s \in Seq(Byte), a.position + Len(s) <= a.capacity
  PROVE  LET end == a.position + Len(s)
         IN  Wrote(a, s, [a EXCEPT !.mem = Poke(a, [i \in 1..Len(s) |-> Loc(a.position + i - 1)], s),
                                   !.position = end,
                                   !.size = IF end > @ THEN end ELSE @,
                                   !.cur = CurAt(a, end)])
<1> DEFINE n == Len(s)
           end == a.position + n
           at == [i \in 1..n |-> Loc(a.position + i - 1)]
           m == Poke(a, at, s)
           size == IF end > a.size THEN end ELSE a.size
           b == [a EXCEPT !.mem = m, !.position = end, !.size = size, !.cur = CurAt(a, end)]
<1>0. /\ a.position \in Nat /\ a.size \in Nat /\ a.capacity \in Nat
      /\ a.mem \in Seq([1..BaseSize -> Byte]) /\ Len(a.mem) \in Nat \ {0}
      /\ a.capacity = BaseSize * Len(a.mem)
      /\ a.position <= a.size /\ a.size <= a.capacity
      /\ a \in ArrayType
  BY GoodFacts
<1>1. n \in Nat /\ n <= Len(s) /\ a.position + n <= a.capacity
  OBVIOUS
<1> HIDE DEF n
<1>2. /\ m \in Seq([1..BaseSize -> Byte]) /\ Len(m) = Len(a.mem)
      /\ \A i \in Nat : i < a.capacity =>
           m[(i \div BaseSize) + 1][(i % BaseSize) + 1]
             = IF i \in a.position..(a.position + n - 1) THEN s[i - a.position + 1]
               ELSE ByteAt(a, i)
  <2>1. at = [i \in 1..n |-> Loc(a.position + i - 1)]
    OBVIOUS
  <2> HIDE DEF at
  <2>2. Poked(a, a.position, n, s, m)
    BY <1>0, <1>1, <2>1, PokeIs
  <2> HIDE DEF m
  <2>3. QED BY <2>2 DEF Poked
<1> HIDE DEF m
<1>3. end \in Nat /\ size \in Nat /\ end <= size /\ size <= a.capacity
  BY <1>0, <1>1
<1>4. CurAt(a, end) \in Nat
  <2>1. end \div BaseSize \in Nat
    BY <1>3, BlockOf
  <2>2. QED BY <2>1 DEF CurAt, Null
<1>5. /\ b.mem = m /\ b.position = end /\ b.size = size /\ b.capacity = a.capacity
      /\ b.endian = a.endian /\ b.cur = CurAt(a, end)
  BY <1>0 DEF ArrayType
<1>6. b \in ArrayType
  <2> HIDE DEF end, size
  <2> QED BY <1>0, <1>2, <1>3, <1>4 DEF ArrayType
<1> HIDE DEF b
<1>7. Good(b)
  <2>1. b.capacity = BaseSize * Len(b.mem) /\ Len(b.mem) > 0
    BY <1>0, <1>2, <1>5
  <2>2. b.position <= b.size /\ b.size <= b.capacity
    BY <1>3, <1>5
  <2>3. b.cur = (IF b.position = b.capacity THEN Null ELSE (b.position \div BaseSize) + 1)
    BY <1>5 DEF CurAt
  <2>4. QED BY <1>6, <2>1, <2>2, <2>3 DEF Good, InStep
<1>8. ASSUME NEW i \in 0..(b.size - 1)
      PROVE  ByteAt(b, i) = IF i \in a.position..(a.position + n - 1) THEN s[i - a.position + 1]
                            ELSE ByteAt(a, i)
  <2>1. i \in Nat /\ i < a.capacity
    BY <1>0, <1>3, <1>5
  <2>2. ByteAt(b, i) = m[(i \div BaseSize) + 1][(i % BaseSize) + 1]
    BY <1>5 DEF ByteAt
  <2>3. QED BY <1>2, <2>1, <2>2
<1>9. Wrote(a, s, b)
  BY <1>5, <1>7, <1>8 DEF Wrote, n
<1>10. QED BY <1>9 DEF b, m, n

LEMMA WroteNothing ==
  ASSUME NEW a, Good(a)
  PROVE  Wrote(a, <<>>, a)
<1>1. a.position \in Nat /\ a.size \in Nat /\ a.position <= a.size
  BY GoodFacts
<1>2. \A i \in 0..(a.size - 1) : ~(i \in a.position..(a.position + Len(<<>>) - 1))
  BY <1>1
<1>3. QED BY <1>1, <1>2 DEF Wrote

\* One write after the other is one write.
LEMMA WroteTwice ==
  ASSUME NEW a, Good(a), NEW s \in Seq(Byte), NEW b, Wrote(a, s, b),
         NEW t \in Seq(Byte), NEW c, Wrote(b, t, c)
  PROVE  Wrote(a, s \o t, c)
<1> DEFINE u == s \o t
<1>0. /\ a.position \in Nat /\ a.size \in Nat /\ a.position <= a.size
      /\ Len(s) \in Nat /\ Len(t) \in Nat
  BY GoodFacts
<1>1. /\ u \in Seq(Byte) /\ Len(u) = Len(s) + Len(t)
      /\ \A i \in 1..Len(s) : u[i] = s[i]
      /\ \A i \in 1..Len(t) : u[Len(s) + i] = t[i]
  BY Concatenation
<1> HIDE DEF u
<1>2. /\ b.position = a.position + Len(s)
      /\ b.size = (IF b.position > a.size THEN b.position ELSE a.size)
      /\ b.position \in Nat /\ b.size \in Nat /\ b.endian = a.endian
  BY <1>0 DEF Wrote
<1>3. /\ c.position = b.position + Len(t)
      /\ c.size = (IF c.position > b.size THEN c.position ELSE b.size)
      /\ c.position \in Nat /\ c.size \in Nat /\ c.endian = b.endian /\ Good(c)
  BY <1>0, <1>2 DEF Wrote
<1>4. /\ c.position = a.position + Len(u)
      /\ c.size = (IF c.position > a.size THEN c.position ELSE a.size)
  BY <1>0, <1>1, <1>2, <1>3
<1>5. ASSUME NEW i \in 0..(c.size - 1)
      PROVE  ByteAt(c, i) = IF i \in a.position..(a.position + Len(u) - 1)
                              THEN u[i - a.position + 1] ELSE ByteAt(a, i)
  <2>0. ByteAt(c, i) = IF i \in b.position..(b.position + Len(t) - 1)
                         THEN t[i - b.position + 1] ELSE ByteAt(b, i)
    BY DEF Wrote
  <2>1. CASE i \in b.position..(b.position + Len(t) - 1)
    <3>1. i \in Nat /\ b.position <= i /\ i <= b.position + Len(t) - 1
      BY <1>0, <1>2, <2>1
    <3>2. b.position \in Nat /\ b.position = a.position + Len(s)
      BY <1>2
    <3>3. i - b.position + 1 \in 1..Len(t)
      BY <1>0, <3>1, <3>2
    <3>4. i - a.position + 1 = Len(s) + (i - b.position + 1)
      BY <1>0, <3>1, <3>2
    <3>5. i \in a.position..(a.position + Len(u) - 1)
      BY <1>0, <1>1, <1>2, <3>1
    <3>6. u[i - a.position + 1] = t[i - b.position + 1]
      BY <1>1, <3>3, <3>4
    <3>7. QED BY <2>0, <2>1, <3>5, <3>6
  <2>2. CASE i \notin b.position..(b.position + Len(t) - 1)
    <3>1. i \in 0..(b.size - 1)
      BY <1>0, <1>2, <1>3, <2>2
    <3>2. ByteAt(b, i) = IF i \in a.position..(a.position + Len(s) - 1)
                           THEN s[i - a.position + 1] ELSE ByteAt(a, i)
      BY <3>1 DEF Wrote
    <3>3. CASE i \in a.position..(a.position + Len(s) - 1)
      <4>1. i - a.position + 1 \in 1..Len(s) /\ i \in a.position..(a.position + Len(u) - 1)
        BY <1>0, <1>1, <3>3
      <4>2. u[i - a.position + 1] = s[i - a.position + 1]
        BY <1>1, <4>1
      <4>3. QED BY <2>0, <2>2, <3>2, <3>3, <4>1, <4>2
    <3>4. CASE i \notin a.position..(a.position + Len(s) - 1)
      <4>1. i \notin a.position..(a.position + Len(u) - 1)
        BY <1>0, <1>1, <1>2, <2>2, <3>4
      <4>2. QED BY <2>0, <2>2, <3>2, <3>4, <4>1
    <3>5. QED BY <3>3, <3>4
  <2>3. QED BY <2>1, <2>2
<1>6. Wrote(a, u, c)
  BY <1>2, <1>3, <1>4, <1>5 DEF Wrote
<1>7. QED BY <1>6 DEF u

\* Growing writes nothing.
LEMMA GrownIs ==
  ASSUME NEW a, Good(a), NEW n \in Nat
  PROVE  Wrote(a, <<>>, AddCapacity(a, n)) /\ a.position + n <= AddCapacity(a, n).capacity
<1> DEFINE b == AddCapacity(a, n)
<1>0. /\ Good(b)
      /\ b.position = a.position /\ b.size = a.size
      /\ b.endian = a.endian
      /\ a.position + n <= b.capacity
      /\ \A i \in Nat : i < a.capacity => ByteAt(b, i) = ByteAt(a, i)
  BY AddCapacityIs
<1> HIDE DEF b
<1>1. /\ a.position \in Nat /\ a.size \in Nat /\ a.position <= a.size
      /\ a.capacity \in Nat /\ a.size <= a.capacity
  BY GoodFacts
<1>2. ASSUME NEW i \in 0..(b.size - 1)
      PROVE  i \notin a.position..(a.position + Len(<<>>) - 1) /\ ByteAt(b, i) = ByteAt(a, i)
  <2>1. i \in Nat /\ i < a.capacity
    BY <1>0, <1>1
  <2>2. QED BY <1>0, <1>1, <2>1
<1>3. b.position = a.position + Len(<<>>)
  BY <1>0, <1>1
<1>4. ~(b.position > a.size)
  BY <1>0, <1>1
<1>5. Wrote(a, <<>>, b)
  BY <1>0, <1>2, <1>3, <1>4 DEF Wrote
<1>6. QED BY <1>0, <1>5 DEF b

LEMMA WriteBytesIs ==
  ASSUME NEW a, Good(a), NEW bytes \in Seq(Byte)
  PROVE  LET r == WriteBytes(a, bytes)
         IN  r = [a |-> r.a, how |-> "ok"] /\ r.how = "ok" /\ Wrote(a, bytes, r.a)
<1> DEFINE n == Len(bytes)
           b == AddCapacity(a, n)
           at == Addresses(b, b.cur, b.position % BaseSize, n)
           locs == [i \in 1..n |-> Loc(b.position + i - 1)]
           end == b.position + n
<1>1. CASE bytes = <<>>
  <2>1. WriteBytes(a, bytes) = [a |-> a, how |-> "ok"]
    BY <1>1 DEF WriteBytes
  <2>2. QED BY <1>1, <2>1, WroteNothing
<1>2. CASE bytes # <<>>
  <2>1. n \in Nat /\ n > 0
    BY <1>2
  <2>2. Wrote(a, <<>>, b) /\ a.position + n <= b.capacity /\ Good(b) /\ b.position = a.position
    BY <2>1, GrownIs, AddCapacityIs
  <2>3. WriteBytes(a, bytes) =
          IF ~Valid(at) THEN [a |-> a, how |-> "null"]
          ELSE [a |-> [b EXCEPT !.mem = Poke(b, at, bytes), !.position = end,
                                !.size = IF end > @ THEN end ELSE @, !.cur = CurAfter(b, at)],
                how |-> "ok"]
    BY <1>2 DEF WriteBytes
  <2> HIDE DEF b
  <2>4. /\ b.position \in Nat /\ b.capacity \in Nat /\ b.position + n <= b.capacity
        /\ b.cur = CurAt(b, b.position)
    BY <2>2, GoodFacts
  <2>5. b.cur = (b.position \div BaseSize) + 1
    BY <2>1, <2>4 DEF CurAt
  <2>6. at = locs /\ Valid(at)
    <3> HIDE DEF n
    <3> QED BY <2>1, <2>2, <2>4, <2>5, AddressesAre
  <2>7. CurAfter(b, locs) = CurAt(b, end)
    BY <2>1, <2>2, <2>4, CurAfterIs
  <2> HIDE DEF at
  <2> DEFINE c == [b EXCEPT !.mem = Poke(b, locs, bytes), !.position = end,
                            !.size = IF end > @ THEN end ELSE @, !.cur = CurAt(b, end)]
  <2>8. WriteBytes(a, bytes) = [a |-> c, how |-> "ok"]
    BY <2>3, <2>6, <2>7
  <2>9. Wrote(b, bytes, c)
    BY <2>2, <2>4, PutIs
  <2> HIDE DEF c
  <2>10. Wrote(a, <<>> \o bytes, c)
    <3>1. <<>> \in Seq(Byte)
      OBVIOUS
    <3>2. QED BY <2>2, <2>9, <3>1, WroteTwice
  <2>11. <<>> \o bytes = bytes
    OBVIOUS
  <2>12. QED BY <2>8, <2>10, <2>11
<1>3. QED BY <1>1, <1>2

LEMMA WriteTwoIs ==
  ASSUME NEW a, Good(a), NEW s \in Seq(Byte), NEW t \in Seq(Byte)
  PROVE  WriteTwo(a, s, t).how = "ok" /\ Wrote(a, s \o t, WriteTwo(a, s, t).a)
<1> DEFINE r == WriteBytes(a, s)
<1>1. r.how = "ok" /\ Wrote(a, s, r.a)
  BY WriteBytesIs
<1>2. WriteTwo(a, s, t) = WriteBytes(r.a, t)
  BY <1>1 DEF WriteTwo
<1> HIDE DEF r
<1>3. Good(r.a)
  BY <1>1 DEF Wrote
<1>4. WriteBytes(r.a, t).how = "ok" /\ Wrote(r.a, t, WriteBytes(r.a, t).a)
  BY <1>3, WriteBytesIs
<1>5. Wrote(a, s \o t, WriteBytes(r.a, t).a)
  BY <1>1, <1>4, WroteTwice
<1>6. QED BY <1>2, <1>4, <1>5

LEMMA SubSeqFacts ==
  ASSUME NEW S, NEW s \in Seq(S), NEW j \in Nat, NEW k \in Nat, j <= k, k <= Len(s)
  PROVE  LET t == SubSeq(s, j + 1, k)
         IN  /\ t \in Seq(S) /\ Len(t) = k - j
             /\ \A i \in 1..(k - j) : t[i] = s[j + i]
             /\ t = [i \in 1..(k - j) |-> s[j + i]]
<1> DEFINE t == SubSeq(s, j + 1, k)
<1>1. k - j \in Nat /\ Len(s) \in Nat
  OBVIOUS
<1>2. \A i \in 1..(k - j) : j + i \in 1..Len(s) /\ s[j + i] \in S /\ i + (j + 1) - 1 = j + i
  BY <1>1
<1>3. t = [i \in 1..(k - j) |-> s[i + (j + 1) - 1]]
  <2>1. 1 + k - (j + 1) = k - j
    OBVIOUS
  <2>2. t = [i \in 1..(1 + k - (j + 1)) |-> s[i + (j + 1) - 1]]
    OBVIOUS
  <2>3. QED BY <2>1, <2>2
<1> HIDE DEF t
<1>4. t = [i \in 1..(k - j) |-> s[j + i]]
  BY <1>2, <1>3
<1>5. t \in Seq(S) /\ Len(t) = k - j
  BY <1>1, <1>2, <1>4
<1>6. QED BY <1>4, <1>5 DEF t

LEMMA SubSeqSplit ==
  ASSUME NEW S, NEW s \in Seq(S), NEW j \in Nat, NEW k \in Nat, j <= k, k <= Len(s)
  PROVE  SubSeq(s, 1, j) \o SubSeq(s, j + 1, k) = SubSeq(s, 1, k)
<1> DEFINE u == SubSeq(s, 0 + 1, j)
           t == SubSeq(s, j + 1, k)
           v == SubSeq(s, 0 + 1, k)
<1>0. 0 \in Nat /\ 0 <= j /\ j <= Len(s) /\ 0 <= k /\ k - 0 = k /\ j - 0 = j /\ 0 + 1 = 1
  OBVIOUS
<1>1. u \in Seq(S) /\ Len(u) = j /\ \A i \in 1..j : u[i] = s[i]
  <2>1. u \in Seq(S) /\ Len(u) = j - 0 /\ \A i \in 1..(j - 0) : u[i] = s[0 + i]
    BY <1>0, SubSeqFacts
  <2>2. QED BY <1>0, <2>1
<1>2. t \in Seq(S) /\ Len(t) = k - j /\ \A i \in 1..(k - j) : t[i] = s[j + i]
  BY SubSeqFacts
<1>3. v \in Seq(S) /\ Len(v) = k /\ \A i \in 1..k : v[i] = s[i]
  <2>1. v \in Seq(S) /\ Len(v) = k - 0 /\ \A i \in 1..(k - 0) : v[i] = s[0 + i]
    BY <1>0, SubSeqFacts
  <2>2. QED BY <1>0, <2>1
<1> HIDE DEF u, t, v
<1>4. /\ u \o t \in Seq(S) /\ Len(u \o t) = k
      /\ \A i \in 1..j : (u \o t)[i] = u[i]
      /\ \A i \in 1..(k - j) : (u \o t)[j + i] = t[i]
  <2>0. u \in Seq(S) /\ t \in Seq(S)
    BY <1>1, <1>2
  <2>1. /\ u \o t \in Seq(S) /\ Len(u \o t) = Len(u) + Len(t)
        /\ \A i \in 1..Len(u) : (u \o t)[i] = u[i]
        /\ \A i \in 1..Len(t) : (u \o t)[Len(u) + i] = t[i]
    BY <2>0
  <2>2. j + (k - j) = k
    OBVIOUS
  <2>3. QED BY <1>1, <1>2, <2>1, <2>2
<1>5. ASSUME NEW i \in 1..k PROVE (u \o t)[i] = v[i]
  <2>1. CASE i <= j
    BY <1>1, <1>3, <1>4, <2>1
  <2>2. CASE ~(i <= j)
    <3>1. i - j \in 1..(k - j) /\ j + (i - j) = i
      BY <2>2
    <3>2. QED BY <1>2, <1>3, <1>4, <3>1
  <2>3. QED BY <2>1, <2>2
<1>6. u \o t = v
  BY <1>3, <1>4, <1>5
<1>7. QED BY <1>0, <1>6 DEF u, t, v

GoodArrays == {a \in ArrayType : Good(a)}

\* What readFromFile has written after each of its blocks.
LEMMA WriteChunksIs ==
  ASSUME NEW a, Good(a), NEW s \in Seq(Byte)
  PROVE  WriteChunks(a, s).how = "ok" /\ Wrote(a, s, WriteChunks(a, s).a)
<1> DEFINE len == Len(s)
           n == (len \div BaseSize) + 1
           S == [a : GoodArrays, how : {"ok"}]
           init == [a |-> a, how |-> "ok"]
           step == [i \in Nat |-> [x \in S |-> WriteBytes(x.a, Chunk(s, i + 1))]]
           IsW(w) == w = [i \in 0..n |-> IF i = 0 THEN [a |-> a, how |-> "ok"]
                            ELSE IF w[i - 1].how = "ok" THEN WriteBytes(w[i - 1].a, Chunk(s, i))
                            ELSE w[i - 1]]
           w == CHOOSE f : IsW(f)
           upto(i) == Smaller(i * BaseSize, len)
<1>0. len \in Nat /\ BaseSize \in Nat \ {0} /\ len \div BaseSize \in Nat
      /\ n \in Nat
  <2>1. len \in Nat
    OBVIOUS
  <2> HIDE DEF len
  <2>2. len \div BaseSize \in Nat
    BY <2>1, BlockOf
  <2>3. QED BY <2>1, <2>2, ByteArrayAssumption
<1>1. ASSUME NEW i \in Nat
      PROVE  /\ i * BaseSize \in Nat /\ upto(i) \in Nat /\ upto(i) <= len
             /\ (i + 1) * BaseSize = i * BaseSize + BaseSize
  <2>1. i * BaseSize \in Nat /\ (i + 1) * BaseSize = i * BaseSize + BaseSize
    BY <1>0
  <2>2. QED BY <1>0, <2>1 DEF Smaller
<1>2. ASSUME NEW i \in Nat PROVE Chunk(s, i + 1) \in Seq(Byte)
  <2> DEFINE j == i * BaseSize
             k == upto(i + 1)
  <2>0. (i + 1) - 1 = i
    OBVIOUS
  <2>1. Chunk(s, i + 1) = SubSeq(s, j + 1, k)
    BY <2>0 DEF Chunk
  <2>2. j \in Nat /\ k \in Nat /\ k <= Len(s)
    <3>1. i + 1 \in Nat
      OBVIOUS
    <3> HIDE DEF upto
    <3>2. QED BY <1>1, <3>1 DEF len
  <2> HIDE DEF j, k
  <2>3. CASE j <= k
    <3>1. SubSeq(s, j + 1, k) \in Seq(Byte)
      BY <2>2, <2>3, SubSeqFacts
    <3>2. QED BY <2>1, <3>1
  <2>4. CASE ~(j <= k)
    <3>1. SubSeq(s, j + 1, k) = <<>>
      BY <2>2, <2>4
    <3>2. <<>> \in Seq(Byte)
      OBVIOUS
    <3>3. QED BY <2>1, <3>1, <3>2
  <2>5. QED BY <2>3, <2>4
<1>3. ASSUME NEW i \in Nat, NEW x \in S PROVE WriteBytes(x.a, Chunk(s, i + 1)) \in S
  <2>1. Good(x.a)
    BY DEF GoodArrays
  <2> DEFINE r == WriteBytes(x.a, Chunk(s, i + 1))
  <2>2. r = [a |-> r.a, how |-> "ok"] /\ Wrote(x.a, Chunk(s, i + 1), r.a)
    BY <1>2, <2>1, WriteBytesIs
  <2> HIDE DEF r
  <2>3. r.a \in GoodArrays
    BY <2>2, GoodFacts DEF Wrote, GoodArrays
  <2>4. r \in S
    BY <2>2, <2>3
  <2>5. QED BY <2>4 DEF r
<1>4. step \in [Nat -> [S -> S]]
      /\ \A i \in Nat, x \in S : step[i][x] = WriteBytes(x.a, Chunk(s, i + 1))
  <2> HIDE DEF S
  <2> QED BY <1>3
<1>5. init \in S
  BY GoodFacts DEF GoodArrays
<1> HIDE DEF step, S, n, len
<1>6. PICK f : IterationTo(f, n, S, init, step)
  <2> HIDE DEF init
  <2> QED BY <1>0, <1>4, <1>5, IterateTo, Zenon
<1>7. f \in [0..n -> S] /\ f = [i \in 0..n |-> IF i = 0 THEN init ELSE step[i - 1][f[i - 1]]]
  BY <1>6 DEF IterationTo
<1>8. ASSUME NEW i \in 0..n, i # 0
      PROVE  step[i - 1][f[i - 1]] = IF f[i - 1].how = "ok"
                                       THEN WriteBytes(f[i - 1].a, Chunk(s, i)) ELSE f[i - 1]
  <2>1. i - 1 \in Nat /\ i - 1 \in 0..n /\ (i - 1) + 1 = i
    BY <1>0, <1>8
  <2>2. f[i - 1] \in S
    BY <1>7, <2>1
  <2>3. f[i - 1].how = "ok"
    BY <2>2 DEF S
  <2>4. step[i - 1][f[i - 1]] = WriteBytes(f[i - 1].a, Chunk(s, (i - 1) + 1))
    BY <1>4, <2>1, <2>2
  <2>5. QED BY <2>1, <2>3, <2>4
<1>9. IsW(f)
  BY <1>7, <1>8
<1>10. IsW(w)
  BY <1>9
<1>11. WriteChunks(a, s) = w[n]
  BY Zenon DEF WriteChunks, n, len
<1> HIDE DEF w
<1> DEFINE T == {i \in Nat : i <= n =>
                   w[i].how = "ok" /\ Wrote(a, SubSeq(s, 1, upto(i)), w[i].a)}
<1>12. 0 \in T
  <2>1. w[0] = [a |-> a, how |-> "ok"]
    BY <1>0, <1>10
  <2>2. SubSeq(s, 1, upto(0)) = <<>>
    BY <1>0 DEF Smaller
  <2>3. w[0].how = "ok" /\ w[0].a = a
    BY <2>1
  <2>4. Wrote(a, SubSeq(s, 1, upto(0)), w[0].a)
    BY <2>2, <2>3, WroteNothing
  <2>5. QED BY <2>3, <2>4
<1>13. ASSUME NEW i \in Nat, i \in T PROVE i + 1 \in T
  <2> SUFFICES ASSUME i + 1 <= n
               PROVE  w[i + 1].how = "ok" /\ Wrote(a, SubSeq(s, 1, upto(i + 1)), w[i + 1].a)
    OBVIOUS
  <2>1. i <= n /\ i + 1 \in 0..n /\ i + 1 # 0 /\ (i + 1) - 1 = i
    BY <1>0
  <2>2. w[i].how = "ok" /\ Wrote(a, SubSeq(s, 1, upto(i)), w[i].a)
    BY <1>13, <2>1
  <2>3. w[i + 1] = WriteBytes(w[i].a, Chunk(s, i + 1))
    <3>1. w[i + 1] = IF w[(i + 1) - 1].how = "ok"
                       THEN WriteBytes(w[(i + 1) - 1].a, Chunk(s, i + 1)) ELSE w[(i + 1) - 1]
      BY <1>10, <2>1
    <3>2. QED BY <2>1, <2>2, <3>1
  <2>4. Good(w[i].a)
    BY <2>2 DEF Wrote
  <2>5. w[i + 1].how = "ok" /\ Wrote(w[i].a, Chunk(s, i + 1), w[i + 1].a)
    BY <1>2, <2>3, <2>4, WriteBytesIs
  <2>6. i * BaseSize <= len
    <3>1. i <= len \div BaseSize
      BY <1>0 DEF n
    <3>5. len < BaseSize * i <=> len \div BaseSize < i
      BY <1>0, BlockOf
    <3>2. ~(len < BaseSize * i)
      BY <1>0, <3>1, <3>5
    <3>3. BaseSize * i = i * BaseSize /\ i * BaseSize \in Nat
      BY <1>0
    <3>4. QED BY <1>0, <3>2, <3>3
  <2>7. upto(i) = i * BaseSize /\ upto(i) <= upto(i + 1) /\ upto(i + 1) <= len
        /\ upto(i) \in Nat /\ upto(i + 1) \in Nat
    BY <1>0, <1>1, <2>6 DEF Smaller
  <2>8. Chunk(s, i + 1) = SubSeq(s, upto(i) + 1, upto(i + 1))
    <3>1. (i + 1) - 1 = i
      OBVIOUS
    <3>2. Chunk(s, i + 1) = SubSeq(s, i * BaseSize + 1, upto(i + 1))
      BY <3>1 DEF Chunk, len
    <3>3. upto(i) = i * BaseSize
      BY <2>7
    <3> HIDE DEF upto
    <3>4. QED BY <3>2, <3>3
  <2> HIDE DEF upto
  <2>9. SubSeq(s, 1, upto(i)) \o Chunk(s, i + 1) = SubSeq(s, 1, upto(i + 1))
    BY <2>7, <2>8, SubSeqSplit DEF len
  <2>10. SubSeq(s, 1, upto(i)) \in Seq(Byte)
    BY <2>7 DEF len
  <2>11. Wrote(a, SubSeq(s, 1, upto(i)) \o Chunk(s, i + 1), w[i + 1].a)
    BY <1>2, <2>2, <2>5, <2>10, WroteTwice
  <2>12. QED BY <2>5, <2>9, <2>11
<1>14. \A i \in Nat : i \in T
  <2> HIDE DEF T
  <2> QED BY <1>12, <1>13, Induction
<1>15. w[n].how = "ok" /\ Wrote(a, SubSeq(s, 1, upto(n)), w[n].a)
  BY <1>0, <1>14
<1>16. SubSeq(s, 1, upto(n)) = s
  <2>1. len < BaseSize * n
    BY <1>0, BlockOf DEF n
  <2>2. upto(n) = len
    BY <1>0, <2>1 DEF Smaller
  <2>3. QED BY <2>2 DEF len
<1>17. QED BY <1>11, <1>15, <1>16

-----------------------------------------------------------------------------
(***************************************************************************)
(* Seeking and reading.                                                    *)
(***************************************************************************)

LEMMA AtIs ==
  ASSUME NEW a, Good(a), NEW p \in Nat, p <= a.size
  PROVE  /\ Good(At(a, p))
         /\ At(a, p).position = p /\ At(a, p).size = a.size
         /\ At(a, p).capacity = a.capacity /\ At(a, p).mem = a.mem
         /\ At(a, p).endian = a.endian
         /\ \A i : ByteAt(At(a, p), i) = ByteAt(a, i)
         /\ \A i, n : Slice(At(a, p), i, n) = Slice(a, i, n)
         /\ \A q : At(At(a, p), q) = At(a, q)
<1> DEFINE b == At(a, p)
<1>0. a \in ArrayType /\ a.capacity = BaseSize * Len(a.mem) /\ a.size <= a.capacity
      /\ a.capacity \in Nat /\ a.size \in Nat /\ Len(a.mem) > 0
  BY GoodFacts DEF Good
<1>1. CurAt(a, p) \in Nat
  <2>1. p \div BaseSize \in Nat
    BY BlockOf
  <2>2. QED BY <2>1 DEF CurAt, Null
<1>2. /\ b.position = p /\ b.size = a.size /\ b.capacity = a.capacity /\ b.mem = a.mem
      /\ b.endian = a.endian /\ b.cur = CurAt(a, p)
  BY <1>0 DEF At, ArrayType
<1>3. b \in ArrayType
  BY <1>0, <1>1 DEF At, ArrayType
<1>4. \A q : At(b, q) = At(a, q)
  <2> SUFFICES ASSUME NEW q PROVE At(b, q) = At(a, q)
    OBVIOUS
  <2>1. CurAt(b, q) = CurAt(a, q)
    BY <1>2 DEF CurAt
  <2>2. QED BY <1>0, <2>1 DEF At, ArrayType
<1> HIDE DEF b
<1>5. Good(b)
  BY <1>0, <1>2, <1>3 DEF Good, InStep, CurAt
<1>6. \A i : ByteAt(b, i) = ByteAt(a, i)
  BY <1>2 DEF ByteAt
<1>7. \A i, n : Slice(b, i, n) = Slice(a, i, n)
  BY <1>6 DEF Slice
<1>8. QED BY <1>2, <1>4, <1>5, <1>6, <1>7 DEF b

LEMMA AtSelf ==
  ASSUME NEW a, Good(a)
  PROVE  At(a, a.position) = a
<1>1. a \in ArrayType /\ a.cur = CurAt(a, a.position)
  BY GoodFacts
<1>2. At(a, a.position) = [a EXCEPT !.position = a.position, !.cur = a.cur]
  BY <1>1 DEF At
<1>3. QED BY <1>1, <1>2 DEF ArrayType

\* The block n steps after m_root.
LEMMA NodeAtIs ==
  ASSUME NEW a, Len(a.mem) \in Nat \ {0}, NEW n \in Nat, n <= Len(a.mem)
  PROVE  NodeAt(a, n) = IF n < Len(a.mem) THEN n + 1 ELSE Null
<1> DEFINE IsNode(f) == f = [i \in 0..n |-> IF i = 0 THEN 1 ELSE NextNode(a, f[i - 1])]
           g == [i \in 0..n |-> IF i < Len(a.mem) THEN i + 1 ELSE Null]
           node == CHOOSE f : IsNode(f)
<1>1. ASSUME NEW i \in 0..n, i # 0 PROVE g[i] = NextNode(a, g[i - 1])
  <2>1. i - 1 \in 0..n /\ i - 1 < Len(a.mem) /\ (i - 1) + 1 = i
    BY <1>1
  <2>2. g[i - 1] = i
    BY <2>1
  <2>3. QED BY <2>2 DEF NextNode
<1>2. g[0] = 1
  OBVIOUS
<1>3. IsNode(g)
  <2>1. g = [i \in 0..n |-> g[i]]
    OBVIOUS
  <2> HIDE DEF g
  <2>2. QED BY <1>1, <1>2, <2>1
<1>4. IsNode(node)
  <2> HIDE DEF g
  <2> QED BY <1>3
<1>5. NodeAt(a, n) = node[n]
  BY Zenon DEF NodeAt
<1> HIDE DEF node
<1> DEFINE T == {i \in Nat : i <= n => node[i] = g[i]}
<1>6. 0 \in T
  BY <1>2, <1>4
<1>7. ASSUME NEW i \in Nat, i \in T PROVE i + 1 \in T
  <2> SUFFICES ASSUME i + 1 <= n PROVE node[i + 1] = g[i + 1]
    OBVIOUS
  <2>1. i + 1 \in 0..n /\ i + 1 # 0 /\ (i + 1) - 1 = i /\ i <= n
    OBVIOUS
  <2> HIDE DEF g
  <2>2. node[i + 1] = NextNode(a, node[(i + 1) - 1]) /\ g[i + 1] = NextNode(a, g[(i + 1) - 1])
    BY <1>1, <1>4, <2>1
  <2>3. node[i] = g[i]
    BY <1>7, <2>1
  <2>4. QED BY <2>1, <2>2, <2>3
<1>8. \A i \in Nat : i \in T
  <2> HIDE DEF T
  <2> QED BY <1>6, <1>7, Induction
<1>9. node[n] = g[n]
  <2> HIDE DEF g
  <2>1. n \in T /\ n <= n
    BY <1>8
  <2>2. QED BY <2>1
<1>10. QED BY <1>5, <1>9

LEMMA SeekNode ==
  ASSUME NEW a, Len(a.mem) \in Nat \ {0}, a.capacity = BaseSize * Len(a.mem),
         NEW v \in Nat, v <= a.capacity
  PROVE  NodeAt(a, v \div BaseSize) = CurAt(a, v)
<1> DEFINE d == v \div BaseSize
           k == Len(a.mem)
<1>0. BaseSize \in Nat \ {0}
  BY ByteArrayAssumption
<1>1. d \in Nat /\ k \in Nat /\ (v < BaseSize * k <=> d < k)
  BY BlockOf
<1>2. CASE v = a.capacity
  <2>1. v = BaseSize * k + 0 /\ 0 \in 0..(BaseSize - 1)
    BY <1>0, <1>1, <1>2
  <2>2. d = k
    BY <1>0, <1>1, <2>1, DivUnique
  <2>3. QED BY <1>1, <1>2, <2>2, NodeAtIs DEF CurAt
<1>3. CASE v # a.capacity
  <2>1. v < BaseSize * k
    BY <1>0, <1>1, <1>3
  <2>2. d < k
    BY <1>1, <2>1
  <2>3. QED BY <1>1, <1>3, <2>2, NodeAtIs DEF CurAt
<1>4. QED BY <1>2, <1>3

LEMMA SeekToIs ==
  ASSUME NEW a, Good(a), NEW v \in Nat, v <= a.capacity
  PROVE  LET b == SeekTo(a, v)
         IN  /\ Good(b)
             /\ b.position = v /\ b.size = (IF v > a.size THEN v ELSE a.size)
             /\ b.capacity = a.capacity /\ b.endian = a.endian
             /\ \A i : ByteAt(b, i) = ByteAt(a, i)
             /\ v <= a.size => b = At(a, v)
<1> DEFINE size == IF v > a.size THEN v ELSE a.size
           b == SeekTo(a, v)
<1>0. a \in ArrayType /\ a.capacity = BaseSize * Len(a.mem) /\ a.size <= a.capacity
      /\ a.capacity \in Nat /\ a.size \in Nat /\ Len(a.mem) \in Nat \ {0}
  BY GoodFacts
<1>1. CurAt(a, v) \in Nat
  <2>1. v \div BaseSize \in Nat
    BY BlockOf
  <2>2. QED BY <2>1 DEF CurAt, Null
<1>2. b = [a EXCEPT !.position = v, !.size = size, !.cur = CurAt(a, v)]
  BY <1>0, SeekNode DEF SeekTo
<1> HIDE DEF b
<1>3. size \in Nat /\ v <= size /\ size <= a.capacity
  BY <1>0
<1>4. /\ b.position = v /\ b.size = size /\ b.capacity = a.capacity /\ b.mem = a.mem
      /\ b.endian = a.endian /\ b.cur = CurAt(a, v)
  BY <1>0, <1>2 DEF ArrayType
<1>5. b \in ArrayType
  <2> HIDE DEF size
  <2> QED BY <1>0, <1>1, <1>2, <1>3 DEF ArrayType
<1>6. Good(b)
  <2> HIDE DEF size
  <2> QED BY <1>0, <1>3, <1>4, <1>5 DEF Good, InStep, CurAt
<1>7. \A i : ByteAt(b, i) = ByteAt(a, i)
  BY <1>4 DEF ByteAt
<1>8. ASSUME v <= a.size PROVE b = At(a, v)
  <2>1. size = a.size
    BY <1>0, <1>8
  <2>2. QED BY <1>0, <1>2, <2>1 DEF At, ArrayType
<1>9. QED BY <1>4, <1>6, <1>7, <1>8 DEF b

LEMMA ReadBytesIs ==
  ASSUME NEW a, Good(a), NEW n \in Nat
  PROVE  LET r == ReadBytes(a, n)
             left == a.size - a.position
         IN  /\ n > left => r = [a |-> a, how |-> "throw", bytes |-> <<>>, value |-> 0]
             /\ n <= left /\ a.position = a.capacity =>
                  n = 0 /\ r = [a |-> a, how |-> "null", bytes |-> <<>>, value |-> 0]
             /\ n <= left /\ a.position # a.capacity =>
                  r = [a |-> At(a, a.position + n), how |-> "ok",
                       bytes |-> Slice(a, a.position, n), value |-> 0]
<1> DEFINE left == a.size - a.position
           at == Addresses(a, a.cur, a.position % BaseSize, n)
           locs == [i \in 1..n |-> Loc(a.position + i - 1)]
           r == ReadBytes(a, n)
<1>0. /\ a.position \in Nat /\ a.size \in Nat /\ a.capacity \in Nat
      /\ a.position <= a.size /\ a.size <= a.capacity
      /\ a.cur = CurAt(a, a.position) /\ a \in ArrayType
      /\ a.position \div BaseSize \in Nat
  BY GoodFacts, BlockOf
<1>1. r = IF n > left THEN [a |-> a, how |-> "throw", bytes |-> <<>>, value |-> 0]
          ELSE IF a.cur = Null \/ ~Valid(at)
            THEN [a |-> a, how |-> "null", bytes |-> <<>>, value |-> n]
          ELSE [a |-> [a EXCEPT !.position = @ + n, !.cur = CurAfter(a, at)],
                how |-> "ok", bytes |-> Peek(a, at), value |-> 0]
  BY DEF ReadBytes
<1> HIDE DEF r
<1>2. CASE n > left
  <2>1. ~(n <= left)
    BY <1>0, <1>2
  <2>2. QED BY <1>1, <1>2, <2>1 DEF r
<1>3. CASE n <= left /\ a.position = a.capacity
  <2>1. n = 0 /\ ~(n > left)
    BY <1>0, <1>3
  <2>2. a.cur = Null
    BY <1>0, <1>3 DEF CurAt
  <2>3. QED BY <1>1, <1>3, <2>1, <2>2 DEF r
<1>4. CASE n <= left /\ a.position # a.capacity
  <2>1. ~(n > left) /\ a.position + n <= a.capacity
    BY <1>0, <1>4
  <2>2. a.cur = (a.position \div BaseSize) + 1 /\ a.cur # Null
    BY <1>0, <1>4 DEF CurAt, Null
  <2>3. at = locs /\ Valid(at) /\ Peek(a, at) = Slice(a, a.position, n)
    BY <1>0, <2>1, <2>2, AddressesAre
  <2>4. CurAfter(a, at) = CurAt(a, a.position + n)
    <3>1. CASE n = 0
      <4>1. at = <<>> /\ a.position + n = a.position
        BY <1>0, <2>3, <3>1
      <4>2. QED BY <1>0, <4>1 DEF CurAfter
    <3>2. CASE n # 0
      BY <1>0, <2>1, <2>3, <3>2, CurAfterIs
    <3>3. QED BY <3>1, <3>2
  <2> HIDE DEF at
  <2>5. r = [a |-> [a EXCEPT !.position = @ + n, !.cur = CurAt(a, a.position + n)],
             how |-> "ok", bytes |-> Slice(a, a.position, n), value |-> 0]
    BY <1>1, <2>1, <2>2, <2>3, <2>4
  <2>6. r = [a |-> At(a, a.position + n), how |-> "ok",
             bytes |-> Slice(a, a.position, n), value |-> 0]
    BY <2>5 DEF At
  <2>7. QED BY <1>4, <2>1, <2>6 DEF r
<1>5. n > left \/ n <= left
  BY <1>0
<1>6. QED BY <1>2, <1>3, <1>4, <1>5

\* What a read may do: it moves the position over bytes it returns, or gives up
\* somewhere, or dies of a null block with nothing left to read.
Outcome(a, r) ==
  /\ r.how \in {"ok", "throw", "null"}
  /\ \E n \in 0..(a.size - a.position) :
       /\ r.a = At(a, a.position + n)
       /\ r.how # "throw" => r.bytes = Slice(a, a.position, n)
  /\ r.how = "null" => r.value = 0 /\ r.a.position = r.a.capacity

\* The same, of a number.
NumberOutcome(a, r) == Outcome(a, r) /\ (r.how = "ok" => r.value \in Nat)

LEMMA SliceEmpty == \A a, p : Slice(a, p, 0) = <<>>
BY DEF Slice

LEMMA ReadBytesOutcome ==
  ASSUME NEW a, Good(a), NEW n \in Nat
  PROVE  Outcome(a, ReadBytes(a, n)) /\ ReadBytes(a, n).value = 0
<1> DEFINE left == a.size - a.position
           r == ReadBytes(a, n)
<1>0. a.position \in Nat /\ a.size \in Nat /\ a.position <= a.size /\ a.capacity \in Nat
  BY GoodFacts
<1>1. At(a, a.position + 0) = a /\ 0 \in 0..left
  BY <1>0, AtSelf
<1>2. CASE n > left
  <2>1. r = [a |-> a, how |-> "throw", bytes |-> <<>>, value |-> 0]
    BY <1>2, ReadBytesIs
  <2> HIDE DEF r
  <2>2. QED BY <1>1, <2>1 DEF Outcome, r
<1>3. CASE n <= left /\ a.position = a.capacity
  <2>1. r = [a |-> a, how |-> "null", bytes |-> <<>>, value |-> 0]
    BY <1>3, ReadBytesIs
  <2> HIDE DEF r
  <2>2. r.a = At(a, a.position + 0) /\ r.bytes = Slice(a, a.position, 0)
    BY <1>1, <2>1, SliceEmpty
  <2>3. QED BY <1>1, <1>3, <2>1, <2>2 DEF Outcome, r
<1>4. CASE n <= left /\ a.position # a.capacity
  <2>1. r = [a |-> At(a, a.position + n), how |-> "ok",
             bytes |-> Slice(a, a.position, n), value |-> 0]
    BY <1>4, ReadBytesIs
  <2>2. n \in 0..left
    BY <1>0, <1>4
  <2> HIDE DEF r
  <2>3. QED BY <2>1, <2>2 DEF Outcome, r
<1>5. QED BY <1>0, <1>2, <1>3, <1>4

LEMMA ReadFixedOutcome ==
  ASSUME NEW a, Good(a), NEW width \in Nat
  PROVE  NumberOutcome(a, ReadFixed(a, width))
<1> DEFINE r == ReadBytes(a, width)
           left == a.size - a.position
<1>0. a.position \in Nat /\ a.size \in Nat /\ a.position <= a.size /\ a.capacity \in Nat
      /\ a.size <= a.capacity
  BY GoodFacts
<1>1. CASE width <= left /\ a.position # a.capacity
  <2>1. r = [a |-> At(a, a.position + width), how |-> "ok",
             bytes |-> Slice(a, a.position, width), value |-> 0]
    BY <1>1, ReadBytesIs
  <2> DEFINE s == Slice(a, a.position, width)
             v == FixedValue(a, s)
  <2>2. ReadFixed(a, width) = [a |-> At(a, a.position + width), how |-> "ok", bytes |-> s,
                               value |-> v]
    BY <2>1 DEF ReadFixed
  <2>3. s \in Seq(Byte)
    BY <1>0, <1>1, SliceType
  <2>4. v \in Nat
    BY <2>3, FixedValueType
  <2>5. width \in 0..left
    BY <1>0, <1>1
  <2> HIDE DEF s, v
  <2>6. QED BY <2>2, <2>4, <2>5 DEF NumberOutcome, Outcome, s
<1>2. CASE ~(width <= left /\ a.position # a.capacity)
  <2>1. r.how # "ok"
    BY <1>0, <1>2, ReadBytesIs
  <2>2. ReadFixed(a, width) = r
    BY <2>1 DEF ReadFixed
  <2>3. QED BY <2>1, <2>2, ReadBytesOutcome DEF NumberOutcome
<1>3. QED BY <1>1, <1>2

\* The varint ends at the first byte without the high bit, or after MaxGroups.
LEMMA ReadUintIs ==
  ASSUME NEW a, Good(a)
  PROVE  \E n \in 1..MaxGroups :
           LET left == a.size - a.position
               s == Slice(a, a.position, n)
           IN  /\ left < n => ReadUint(a).how = "throw" /\ ReadUint(a).a = At(a, a.size)
               /\ n <= left => ReadUint(a) = [a |-> At(a, a.position + n), how |-> "ok",
                                              bytes |-> s, value |-> DecodeUint(s)]
               /\ n <= left /\ n # MaxGroups => ByteAt(a, a.position + n - 1) < Half
               /\ \A i \in 1..(n - 1) : i <= left => ByteAt(a, a.position + i - 1) >= Half
<1> DEFINE p == a.position
           left == a.size - p
           w == Smaller(MaxGroups, left)
           rest == Peek(a, Addresses(a, a.cur, p % BaseSize, w))
           stops == {i \in DOMAIN rest : rest[i] \in 0..(Half - 1)} \cup {MaxGroups}
           n == Min(stops)
           r == ReadBytes(a, Smaller(n, left))
           s == Slice(a, p, n)
<1>0. /\ p \in Nat /\ a.size \in Nat /\ a.capacity \in Nat /\ p <= a.size
      /\ a.size <= a.capacity /\ left \in Nat /\ p + left = a.size
      /\ MaxGroups \in Nat /\ MaxGroups >= 1 /\ Half \in Nat
  BY GoodFacts, MaxGroupsFacts, RadixFacts
<1>1. w \in Nat /\ w <= MaxGroups /\ w <= left /\ (w = MaxGroups \/ w = left)
  BY <1>0 DEF Smaller
<1>2. w > 0 => a.cur = (p \div BaseSize) + 1
  BY <1>0, <1>1, GoodFacts DEF CurAt
<1>3. rest = Slice(a, p, w)
  <2>1. p + w <= a.capacity
    BY <1>0, <1>1
  <2>2. p \in Nat /\ w \in Nat /\ (w > 0 => a.cur = (p \div BaseSize) + 1)
    BY <1>0, <1>1, <1>2
  <2> HIDE DEF w, p
  <2>3. Peek(a, Addresses(a, a.cur, p % BaseSize, w)) = Slice(a, p, w)
    BY <2>1, <2>2, AddressesAre
  <2>4. QED BY <2>3
<1>4. ReadUint(a) = IF left < n THEN [r EXCEPT !.how = "throw"]
                    ELSE IF r.how = "null" THEN r
                    ELSE [r EXCEPT !.value = DecodeUint(r.bytes)]
  BY DEF ReadUint
<1> HIDE DEF rest, w
<1>5. DOMAIN rest = 1..w /\ \A i \in 1..w : rest[i] = ByteAt(a, p + i - 1)
  BY <1>3 DEF Slice
<1>6. stops \in SUBSET Nat /\ stops # {} /\ stops \subseteq 1..MaxGroups /\ MaxGroups \in stops
  BY <1>0, <1>1, <1>5
<1>7. \E x \in stops : \A y \in stops : x <= y
  <2> HIDE DEF stops
  <2> QED BY <1>6, LeastElement
<1>8. n \in stops /\ \A y \in stops : n <= y
  <2> HIDE DEF stops
  <2> QED BY <1>7 DEF Min
<1> HIDE DEF n
<1>9. n \in 1..MaxGroups /\ n \in Nat
  BY <1>6, <1>8
<1>10. ASSUME left < n PROVE ReadUint(a).how = "throw" /\ ReadUint(a).a = At(a, a.size)
  <2>1. Smaller(n, left) = left
    BY <1>0, <1>9, <1>10 DEF Smaller
  <2>2. ReadUint(a) = [r EXCEPT !.how = "throw"]
    BY <1>4, <1>10
  <2>3. CASE p = a.capacity
    <3>1. r = [a |-> a, how |-> "null", bytes |-> <<>>, value |-> 0]
      BY <1>0, <2>1, <2>3, ReadBytesIs
    <3>2. At(a, a.size) = a
      BY <1>0, <2>3, AtSelf
    <3> HIDE DEF r
    <3>3. QED BY <2>2, <3>1, <3>2
  <2>4. CASE p # a.capacity
    <3>1. r = [a |-> At(a, p + left), how |-> "ok", bytes |-> Slice(a, p, left), value |-> 0]
      BY <1>0, <2>1, <2>4, ReadBytesIs
    <3> HIDE DEF r
    <3>2. QED BY <1>0, <2>2, <3>1
  <2>5. QED BY <2>3, <2>4
<1>11. ASSUME n <= left
       PROVE  ReadUint(a) = [a |-> At(a, p + n), how |-> "ok", bytes |-> s,
                             value |-> DecodeUint(s)]
  <2>1. Smaller(n, left) = n /\ ~(left < n) /\ p # a.capacity
    BY <1>0, <1>9, <1>11 DEF Smaller
  <2>2. r = [a |-> At(a, p + n), how |-> "ok", bytes |-> s, value |-> 0]
    BY <1>9, <1>11, <2>1, ReadBytesIs
  <2> HIDE DEF r, s
  <2>3. QED BY <1>4, <2>1, <2>2
<1>12. ASSUME n <= left, n # MaxGroups PROVE ByteAt(a, p + n - 1) < Half
  <2>1. n \in 1..w /\ rest[n] \in 0..(Half - 1)
    BY <1>5, <1>8, <1>12
  <2>2. QED BY <1>0, <1>5, <2>1
<1>13. ASSUME NEW i \in 1..(n - 1), i <= left PROVE ByteAt(a, p + i - 1) >= Half
  <2>1. i \notin stops /\ i \in 1..w
    BY <1>0, <1>1, <1>6, <1>8, <1>9, <1>13
  <2>2. ~(rest[i] \in 0..(Half - 1))
    BY <1>5, <2>1
  <2>3. p + i - 1 \in Nat /\ p + i - 1 < a.capacity
    BY <1>0, <1>9, <1>13
  <2>4. ByteAt(a, p + i - 1) \in Byte
    BY <2>3, InBlocks
  <2>5. ByteAt(a, p + i - 1) \in Nat
    BY <2>4, RadixFacts
  <2>6. QED BY <1>0, <1>5, <2>1, <2>2, <2>5
<1>14. QED BY <1>9, <1>10, <1>11, <1>12, <1>13

LEMMA ReadUintOutcome ==
  ASSUME NEW a, Good(a)
  PROVE  NumberOutcome(a, ReadUint(a))
<1> DEFINE left == a.size - a.position
           r == ReadUint(a)
<1>0. /\ a.position \in Nat /\ a.size \in Nat /\ a.capacity \in Nat /\ a.position <= a.size
      /\ a.size <= a.capacity /\ left \in Nat /\ a.position + left = a.size /\ left \in 0..left
      /\ MaxGroups \in Nat
  BY GoodFacts, MaxGroupsFacts
<1>1. PICK n \in 1..MaxGroups :
        /\ left < n => r.how = "throw" /\ r.a = At(a, a.size)
        /\ n <= left => r = [a |-> At(a, a.position + n), how |-> "ok",
                             bytes |-> Slice(a, a.position, n),
                             value |-> DecodeUint(Slice(a, a.position, n))]
  BY ReadUintIs
<1> HIDE DEF r
<1>2. CASE left < n
  BY <1>0, <1>1, <1>2 DEF NumberOutcome, Outcome, r
<1>3. CASE n <= left
  <2> DEFINE s == Slice(a, a.position, n)
             v == DecodeUint(s)
  <2>1. n \in Nat /\ n \in 0..left /\ a.position + n <= a.capacity
    BY <1>0, <1>3
  <2>2. s \in Seq(Byte)
    BY <1>0, <2>1, SliceType
  <2>3. v \in Nat
    BY <2>2, DecodeUintType
  <2>4. r = [a |-> At(a, a.position + n), how |-> "ok", bytes |-> s, value |-> v]
    BY <1>1, <1>3
  <2> HIDE DEF s, v
  <2>5. QED BY <2>1, <2>3, <2>4 DEF NumberOutcome, Outcome, r, s
<1>4. QED BY <1>0, <1>2, <1>3

LEMMA ReadIntOutcome ==
  ASSUME NEW a, Good(a)
  PROVE  Outcome(a, ReadInt(a))
<1> DEFINE left == a.size - a.position
           r == ReadUint(a)
<1>0. /\ a.position \in Nat /\ a.size \in Nat /\ a.position <= a.size /\ left \in Nat
      /\ MaxGroups \in Nat
  BY GoodFacts, MaxGroupsFacts
<1>1. PICK n \in 1..MaxGroups :
        /\ left < n => r.how = "throw" /\ r.a = At(a, a.size)
        /\ n <= left => r = [a |-> At(a, a.position + n), how |-> "ok",
                             bytes |-> Slice(a, a.position, n),
                             value |-> DecodeUint(Slice(a, a.position, n))]
  BY ReadUintIs
<1>2. CASE left < n
  <2>1. ReadInt(a) = r
    BY <1>1, <1>2 DEF ReadInt
  <2>2. QED BY <2>1, ReadUintOutcome DEF NumberOutcome
<1>3. CASE n <= left
  <2> DEFINE s == Slice(a, a.position, n)
             v == DecodeUint(s)
  <2>1. r = [a |-> At(a, a.position + n), how |-> "ok", bytes |-> s, value |-> v]
    BY <1>1, <1>3
  <2> HIDE DEF s, v, r
  <2>2. ReadInt(a) = [a |-> At(a, a.position + n), how |-> "ok", bytes |-> s,
                      value |-> DecodeZigzag(v)]
    BY <2>1 DEF ReadInt, r
  <2>3. n \in 0..left
    BY <1>0, <1>3
  <2>4. QED BY <2>2, <2>3 DEF Outcome, s
<1>4. QED BY <1>0, <1>2, <1>3

LEMMA SliceJoin ==
  ASSUME NEW a, Good(a), NEW p \in Nat, NEW k \in Nat, NEW n \in Nat, p + k + n <= a.capacity
  PROVE  Slice(a, p, k) \o Slice(a, p + k, n) = Slice(a, p, k + n)
<1> DEFINE s == Slice(a, p, k)
           t == Slice(a, p + k, n)
           u == Slice(a, p, k + n)
<1>0. a.capacity \in Nat
  BY GoodFacts
<1>1. s \in Seq(Byte) /\ Len(s) = k /\ \A i \in 1..k : s[i] = ByteAt(a, p + i - 1)
  <2>1. p + k <= a.capacity
    BY <1>0
  <2>2. QED BY <2>1, SliceType
<1>2. t \in Seq(Byte) /\ Len(t) = n /\ \A i \in 1..n : t[i] = ByteAt(a, p + k + i - 1)
  <2>1. p + k \in Nat /\ (p + k) + n <= a.capacity
    BY <1>0
  <2>2. QED BY <2>1, SliceType
<1>3. u \in Seq(Byte) /\ Len(u) = k + n /\ \A i \in 1..(k + n) : u[i] = ByteAt(a, p + i - 1)
  <2>1. k + n \in Nat /\ p + (k + n) <= a.capacity
    BY <1>0
  <2>2. QED BY <2>1, SliceType
<1> HIDE DEF s, t, u
<1>4. /\ s \o t \in Seq(Byte) /\ Len(s \o t) = k + n
      /\ \A i \in 1..k : (s \o t)[i] = s[i]
      /\ \A i \in 1..n : (s \o t)[k + i] = t[i]
  <2>1. /\ s \o t \in Seq(Byte) /\ Len(s \o t) = Len(s) + Len(t)
        /\ \A i \in 1..Len(s) : (s \o t)[i] = s[i]
        /\ \A i \in 1..Len(t) : (s \o t)[Len(s) + i] = t[i]
    <3>1. s \in Seq(Byte) /\ t \in Seq(Byte)
      BY <1>1, <1>2
    <3>2. QED BY <3>1
  <2>2. QED BY <1>1, <1>2, <2>1
<1>5. ASSUME NEW i \in 1..(k + n) PROVE (s \o t)[i] = u[i]
  <2>1. CASE i <= k
    BY <1>1, <1>3, <1>4, <2>1
  <2>2. CASE ~(i <= k)
    <3>1. i - k \in 1..n /\ k + (i - k) = i /\ p + k + (i - k) - 1 = p + i - 1
      BY <2>2
    <3>2. QED BY <1>2, <1>3, <1>4, <3>1
  <2>3. QED BY <2>1, <2>2
<1>6. s \o t = u
  <2> DEFINE v == s \o t
  <2>1. v \in Seq(Byte) /\ Len(v) = Len(u)
    BY <1>3, <1>4
  <2>2. \A i \in 1..Len(u) : v[i] = u[i]
    BY <1>3, <1>5
  <2>3. u \in Seq(Byte)
    BY <1>3
  <2> HIDE DEF v
  <2>4. v = u
    BY <2>1, <2>2, <2>3, SeqEqual
  <2>5. QED BY <2>4 DEF v
<1>7. QED BY <1>6 DEF s, t, u

LEMMA ReadStringOutcome ==
  ASSUME NEW a, Good(a), NEW length, NumberOutcome(a, length)
  PROVE  Outcome(a, ReadString(length))
<1> DEFINE p == a.position
           left == a.size - p
           r == ReadBytes(length.a, length.value)
           n == length.value
<1>0. /\ p \in Nat /\ a.size \in Nat /\ a.capacity \in Nat /\ p <= a.size
      /\ a.size <= a.capacity /\ left \in Nat /\ p + left = a.size
  BY GoodFacts
<1>1. CASE length.how # "ok"
  BY <1>1 DEF NumberOutcome, ReadString
<1>2. CASE length.how = "ok"
  <2>1. PICK k \in 0..left : length.a = At(a, p + k) /\ length.bytes = Slice(a, p, k)
    BY <1>2 DEF NumberOutcome, Outcome
  <2>2. n \in Nat
    BY <1>2 DEF NumberOutcome
  <2>3. ReadString(length) = [r EXCEPT !.bytes = length.bytes \o @,
                                       !.value = IF r.how = "null" THEN @ ELSE r.bytes]
    BY <1>2 DEF ReadString
  <2> DEFINE b == length.a
             v == ReadString(length)
  <2>4. k \in Nat /\ p + k \in Nat /\ p + k <= a.size
    BY <1>0
  <2>5. /\ Good(b) /\ b.position = p + k /\ b.size = a.size /\ b.capacity = a.capacity
        /\ \A i, m : Slice(b, i, m) = Slice(a, i, m)
        /\ \A q : At(b, q) = At(a, q)
    BY <2>1, <2>4, AtIs
  <2> HIDE DEF v, n
  <2>6. CASE n > b.size - b.position
    <3>1. r = [a |-> b, how |-> "throw", bytes |-> <<>>, value |-> 0]
      BY <2>2, <2>5, <2>6, ReadBytesIs DEF n
    <3> HIDE DEF b, r
    <3>2. v.how = "throw" /\ v.a = b
      BY <2>3, <3>1 DEF v
    <3>3. b = At(a, p + k)
      BY <2>1 DEF b
    <3>4. QED BY <3>2, <3>3 DEF Outcome, v
  <2>7. CASE n <= b.size - b.position /\ b.position = b.capacity
    <3>1. r = [a |-> b, how |-> "null", bytes |-> <<>>, value |-> 0]
      BY <2>2, <2>5, <2>7, ReadBytesIs DEF n
    <3>2. Slice(a, p, k) \o <<>> = Slice(a, p, k)
      <4>1. Slice(a, p, k) \in Seq(Byte)
        BY <1>0, <2>4, SliceType
      <4>2. QED BY <4>1
    <3> HIDE DEF b, r
    <3>3. v.how = "null" /\ v.a = b /\ v.value = 0 /\ v.bytes = length.bytes \o <<>>
      BY <2>3, <3>1 DEF v
    <3>4. b = At(a, p + k) /\ v.bytes = Slice(a, p, k)
      BY <2>1, <3>2, <3>3 DEF b
    <3>5. QED BY <2>7, <3>3, <3>4 DEF Outcome, v
  <2>8. CASE n <= b.size - b.position /\ b.position # b.capacity
    <3>1. r = [a |-> At(b, b.position + n), how |-> "ok", bytes |-> Slice(b, b.position, n),
               value |-> 0]
      BY <2>2, <2>5, <2>8, ReadBytesIs DEF n
    <3>2. k + n \in 0..left /\ p + k + n <= a.capacity /\ p + (k + n) = b.position + n
      BY <1>0, <2>2, <2>4, <2>5, <2>8
    <3>3. At(b, b.position + n) = At(a, p + (k + n)) /\ Slice(b, b.position, n) = Slice(a, p + k, n)
      BY <2>5, <3>2
    <3> HIDE DEF b, r
    <3>4. v.how = "ok" /\ v.a = At(a, p + (k + n)) /\ v.bytes = length.bytes \o Slice(a, p + k, n)
      BY <2>3, <3>1, <3>3 DEF v
    <3>5. v.bytes = Slice(a, p, k + n)
      <4>1. Slice(a, p, k) \o Slice(a, p + k, n) = Slice(a, p, k + n)
        <5>1. p \in Nat /\ k \in Nat /\ n \in Nat /\ p + k + n <= a.capacity
          BY <1>0, <2>2, <2>4, <3>2
        <5> HIDE DEF p
        <5>2. QED BY <5>1, SliceJoin
      <4>2. QED BY <2>1, <3>4, <4>1
    <3>6. QED BY <3>2, <3>4, <3>5 DEF Outcome, v
  <2>9. QED BY <1>0, <2>2, <2>4, <2>5, <2>6, <2>7, <2>8
<1>3. QED BY <1>1, <1>2

LEMMA ReadValueOutcome ==
  ASSUME NEW a, Good(a), NEW kind \in DOMAIN Values
  PROVE  Outcome(a, ReadValue(a, kind))
<1>0. FixedWidth \in Nat /\ LengthWidth \in Nat
  BY ByteArrayAssumption
<1>1. CASE kind = "fixed"
  <2>1. ReadValue(a, kind) = ReadFixed(a, FixedWidth)
    BY <1>1 DEF ReadValue
  <2>2. QED BY <1>0, <2>1, ReadFixedOutcome DEF NumberOutcome
<1>2. CASE kind = "uint"
  <2>1. ReadValue(a, kind) = ReadUint(a)
    BY <1>2 DEF ReadValue
  <2>2. QED BY <2>1, ReadUintOutcome DEF NumberOutcome
<1>3. CASE kind = "int"
  <2>1. ReadValue(a, kind) = ReadInt(a)
    BY <1>3 DEF ReadValue
  <2>2. QED BY <2>1, ReadIntOutcome
<1>4. CASE kind = "stringF"
  <2>1. ReadValue(a, kind) = ReadString(ReadFixed(a, LengthWidth))
    BY <1>4 DEF ReadValue
  <2>2. QED BY <1>0, <2>1, ReadFixedOutcome, ReadStringOutcome
<1>5. CASE kind = "stringVint"
  <2>1. ReadValue(a, kind) = ReadString(ReadUint(a))
    BY <1>5 DEF ReadValue
  <2>2. QED BY <2>1, ReadUintOutcome, ReadStringOutcome
<1>6. QED BY <1>1, <1>2, <1>3, <1>4, <1>5 DEF Values

-----------------------------------------------------------------------------
(***************************************************************************)
(* The operations.                                                         *)
(***************************************************************************)

LEMMA ValuesEncoded ==
  ASSUME NEW a, NEW kind \in DOMAIN Values, NEW v \in Values[kind]
  PROVE  NumberOf(a, kind, v) \in Seq(Byte) /\ TextOf(kind, v) \in Seq(Byte)
<1>0. <<>> \in Seq(Byte)
  OBVIOUS
<1>1. CASE kind = "fixed"
  <2>1. v \in Nat
    <3>1. ByteBits * FixedWidth \in Nat
      BY ByteArrayAssumption
    <3>2. v \in 0..(Pow2[ByteBits * FixedWidth] - 1)
      BY <1>1, ByteArrayAssumption DEF Values
    <3>3. QED BY <3>1, <3>2, Pow2Type
  <2>2. NumberOf(a, kind, v) = FixedBytes(a, FixedWidth, v) /\ TextOf(kind, v) = <<>>
    BY <1>1 DEF NumberOf, TextOf
  <2>3. FixedWidth \in Nat
    BY ByteArrayAssumption
  <2>4. QED BY <1>0, <2>1, <2>2, <2>3, FixedBytesType
<1>2. CASE kind = "uint"
  <2>1. v \in Nat /\ v < Pow2[IntBits]
    <3>1. v \in 0..(Pow2[IntBits] - 1) /\ Pow2[IntBits] \in Nat
      BY <1>2, ByteArrayAssumption, Pow2Type DEF Values
    <3>2. QED BY <3>1
  <2>2. NumberOf(a, kind, v) = EncodeUint(v) /\ TextOf(kind, v) = <<>>
    BY <1>2 DEF NumberOf, TextOf
  <2>3. QED BY <1>0, <2>1, <2>2, EncodeUintFacts
<1>3. CASE kind = "int"
  <2>1. v \in Int /\ -Pow2[IntBits - 1] <= v /\ v < Pow2[IntBits - 1]
    <3>1. v \in -Pow2[IntBits - 1]..(Pow2[IntBits - 1] - 1) /\ IntBits - 1 \in Nat
      BY <1>3, ByteArrayAssumption DEF Values
    <3>2. Pow2[IntBits - 1] \in Nat
      BY <3>1, Pow2Type
    <3>3. QED BY <3>1, <3>2
  <2>2. NumberOf(a, kind, v) = EncodeUint(EncodeZigzag(v)) /\ TextOf(kind, v) = <<>>
    BY <1>3 DEF NumberOf, TextOf
  <2>3. EncodeZigzag(v) \in Nat /\ EncodeZigzag(v) < Pow2[IntBits]
    BY <2>1, ZigzagRoundTrip
  <2>4. QED BY <1>0, <2>2, <2>3, EncodeUintFacts
<1>4. CASE kind = "stringF"
  <2>1. v \in Seq(Byte)
    BY <1>4, ByteArrayAssumption DEF Values
  <2>2. NumberOf(a, kind, v) = FixedBytes(a, LengthWidth, Len(v)) /\ TextOf(kind, v) = v
    BY <1>4 DEF NumberOf, TextOf
  <2>3. LengthWidth \in Nat /\ Len(v) \in Nat
    BY <2>1, ByteArrayAssumption
  <2>4. QED BY <2>1, <2>2, <2>3, FixedBytesType
<1>5. CASE kind = "stringVint"
  <2>1. v \in Seq(Byte) /\ Len(v) < Pow2[IntBits]
    BY <1>5, ByteArrayAssumption DEF Values
  <2>2. NumberOf(a, kind, v) = EncodeUint(Len(v)) /\ TextOf(kind, v) = v
    BY <1>5 DEF NumberOf, TextOf
  <2>3. Len(v) \in Nat
    BY <2>1
  <2>4. QED BY <2>1, <2>2, <2>3, EncodeUintFacts
<1>6. QED BY <1>1, <1>2, <1>3, <1>4, <1>5 DEF Values

LEMMA ReceiveIs ==
  ASSUME NEW a, Good(a), NEW length \in Nat, length > 0, NEW s \in Seq(Byte), Len(s) <= length
  PROVE  LET b == AddCapacity(a, length)
             at == Addresses(b, b.cur, b.position % BaseSize, length)
         IN  /\ Valid(at)
             /\ Wrote(a, s, IF s = <<>> THEN b
                            ELSE SeekTo([b EXCEPT !.mem = Poke(b, SubSeq(at, 1, Len(s)), s)],
                                        b.position + Len(s)))
<1> DEFINE b == AddCapacity(a, length)
           at == Addresses(b, b.cur, b.position % BaseSize, length)
           n == Len(s)
           end == b.position + n
<1>1. Wrote(a, <<>>, b) /\ a.position + length <= b.capacity /\ Good(b)
      /\ b.position = a.position
  BY GrownIs, AddCapacityIs
<1> HIDE DEF b
<1>2. /\ b.position \in Nat /\ b.capacity \in Nat /\ b.position + length <= b.capacity
      /\ b.cur = CurAt(b, b.position) /\ b \in ArrayType
      /\ Len(b.mem) \in Nat \ {0} /\ b.capacity = BaseSize * Len(b.mem)
  BY <1>1, GoodFacts
<1>3. b.cur = (b.position \div BaseSize) + 1
  BY <1>2 DEF CurAt
<1>4. at = [i \in 1..length |-> Loc(b.position + i - 1)] /\ Valid(at)
  BY <1>1, <1>2, <1>3, AddressesAre
<1>5. CASE s = <<>>
  BY <1>1, <1>4, <1>5 DEF b
<1>6. CASE s # <<>>
  <2> DEFINE locs == [i \in 1..n |-> Loc(b.position + i - 1)]
             m == Poke(b, locs, s)
             c == [b EXCEPT !.mem = m]
             d == [b EXCEPT !.mem = m, !.position = end, !.size = IF end > @ THEN end ELSE @,
                            !.cur = CurAt(b, end)]
  <2>0. n \in Nat /\ n <= length
    OBVIOUS
  <2>1. SubSeq(at, 1, n) = locs
    <3> DEFINE T == {Loc(i) : i \in Nat}
    <3>1. at \in Seq(T) /\ Len(at) = length
      <4>1. \A i \in 1..length : b.position + i - 1 \in Nat
        BY <1>2
      <4>2. \A i \in 1..length : Loc(b.position + i - 1) \in T
        BY <4>1
      <4> HIDE DEF T, at
      <4>3. QED BY <1>4, <4>2
    <3> HIDE DEF T, at, n
    <3>2. 0 \in Nat /\ 0 <= n /\ n - 0 = n /\ 0 + 1 = 1 /\ n <= Len(at)
      BY <2>0, <3>1
    <3>3. SubSeq(at, 0 + 1, n) = [i \in 1..(n - 0) |-> at[0 + i]]
      BY <2>0, <3>1, <3>2, SubSeqFacts
    <3>4. \A i \in 1..n : at[0 + i] = Loc(b.position + i - 1)
      BY <1>4, <2>0
    <3>5. QED BY <3>2, <3>3, <3>4
  <2>2. b.position + n <= b.capacity /\ end \in Nat /\ end <= b.capacity
    BY <1>2, <2>0
  <2>3. Wrote(b, s, d)
    BY <1>1, <2>2, PutIs
  <2>4. Len(m) = Len(b.mem)
    <3>1. n <= Len(s) /\ locs = [i \in 1..n |-> Loc(b.position + i - 1)]
      OBVIOUS
    <3>2. Poked(b, b.position, n, s, m)
      <4> HIDE DEF locs, n
      <4> QED BY <1>1, <1>2, <2>0, <2>2, <3>1, PokeIs
    <3>3. QED BY <3>2 DEF Poked
  <2> HIDE DEF m
  <2>5. c.mem = m /\ c.capacity = b.capacity
    BY <1>2 DEF ArrayType
  <2>6. NodeAt(c, end \div BaseSize) = CurAt(b, end)
    <3>1. Len(c.mem) \in Nat \ {0} /\ c.capacity = BaseSize * Len(c.mem) /\ end <= c.capacity
      BY <1>2, <2>2, <2>4, <2>5
    <3> HIDE DEF c, end
    <3>2. NodeAt(c, end \div BaseSize) = CurAt(c, end)
      BY <2>2, <3>1, SeekNode
    <3>3. QED BY <2>5, <3>2 DEF CurAt
  <2>7. SeekTo(c, end) = d
    <3> HIDE DEF end
    <3>1. SeekTo(c, end) = [c EXCEPT !.position = end, !.size = IF end > @ THEN end ELSE @,
                                     !.cur = CurAt(b, end)]
      BY <2>6 DEF SeekTo
    <3>2. QED BY <1>2, <3>1 DEF ArrayType
  <2>8. Wrote(a, <<>> \o s, d)
    <3>1. <<>> \in Seq(Byte)
      OBVIOUS
    <3> HIDE DEF d
    <3>2. QED BY <1>1, <2>3, <3>1, WroteTwice
  <2>9. <<>> \o s = s
    OBVIOUS
  <2> HIDE DEF d, c
  <2>10. Wrote(a, s, SeekTo(c, end))
    BY <2>7, <2>8, <2>9
  <2>11. QED BY <1>4, <1>6, <2>1, <2>10 DEF b, c, m
<1>7. QED BY <1>5, <1>6

LEMMA ContentsFacts ==
  ASSUME NEW a, Good(a)
  PROVE  /\ ContentsOf(a) \in Seq(Byte) /\ Len(ContentsOf(a)) = a.size
         /\ \A i \in 1..a.size : ContentsOf(a)[i] = ByteAt(a, i - 1)
         /\ \A p, n \in Nat : p + n <= a.size =>
              SubSeq(ContentsOf(a), p + 1, p + n) = Slice(a, p, n)
<1> DEFINE c == ContentsOf(a)
<1>0. a.size \in Nat /\ a.capacity \in Nat /\ a.size <= a.capacity
  BY GoodFacts
<1>1. ASSUME NEW i \in 1..a.size PROVE ByteAt(a, i - 1) \in Byte
  <2>1. i - 1 \in Nat /\ i - 1 < a.capacity
    BY <1>0
  <2>2. QED BY <2>1, InBlocks
<1>2. c \in Seq(Byte) /\ Len(c) = a.size /\ \A i \in 1..a.size : c[i] = ByteAt(a, i - 1)
  BY <1>0, <1>1 DEF ContentsOf
<1> HIDE DEF c
<1>3. ASSUME NEW p \in Nat, NEW n \in Nat, p + n <= a.size
      PROVE  SubSeq(c, p + 1, p + n) = Slice(a, p, n)
  <2>1. p + n \in Nat /\ p <= p + n /\ (p + n) - p = n
    OBVIOUS
  <2>2. SubSeq(c, p + 1, p + n) = [i \in 1..((p + n) - p) |-> c[p + i]]
    BY <1>2, <1>3, <2>1, SubSeqFacts
  <2>3. \A i \in 1..n : c[p + i] = ByteAt(a, p + i - 1)
    BY <1>0, <1>2, <1>3
  <2>4. QED BY <2>1, <2>2, <2>3 DEF Slice
<1>4. QED BY <1>2, <1>3 DEF c

\* A step that wrote s.
LEMMA PutStep ==
  ASSUME NEW s \in Seq(Byte), Good(ba), Wrote(ba, s, ba'), io' = s
  PROVE  Good(ba') /\ Buffer!Put
<1> DEFINE p == ba.position
<1>0. /\ p \in Nat /\ ba.size \in Nat /\ p <= ba.size /\ Len(s) \in Nat
      /\ Good(ba') /\ ba'.position = p + Len(s)
      /\ ba'.size = (IF p + Len(s) > ba.size THEN p + Len(s) ELSE ba.size)
  BY GoodFacts DEF Wrote
<1>1. Len(ContentsOf(ba)) = ba.size /\ \A i \in 1..ba.size : ContentsOf(ba)[i] = ByteAt(ba, i - 1)
  BY ContentsFacts
<1>2. ASSUME NEW i \in 1..ba'.size
      PROVE  ByteAt(ba', i - 1) = IF i \in p + 1 .. p + Len(s) THEN s[i - p]
                                  ELSE ContentsOf(ba)[i]
  <2>1. ba'.size \in Nat
    BY <1>0
  <2>2. i - 1 \in 0..(ba'.size - 1) /\ (i - 1) - p + 1 = i - p
        /\ (i - 1 \in p..(p + Len(s) - 1) <=> i \in p + 1 .. p + Len(s))
    BY <1>0, <2>1
  <2>3. ByteAt(ba', i - 1) = IF i - 1 \in p..(p + Len(s) - 1) THEN s[(i - 1) - p + 1]
                             ELSE ByteAt(ba, i - 1)
    BY <2>2 DEF Wrote
  <2>4. i \notin p + 1 .. p + Len(s) => i \in 1..ba.size
    BY <1>0, <2>1
  <2>5. QED BY <1>1, <2>2, <2>3, <2>4
<1>3. ContentsOf(ba') = [i \in 1..(IF p + Len(s) > Len(ContentsOf(ba)) THEN p + Len(s)
                                   ELSE Len(ContentsOf(ba))) |->
                           IF i \in p + 1 .. p + Len(s) THEN s[i - p] ELSE ContentsOf(ba)[i]]
  <2>1. ContentsOf(ba') = [i \in 1..ba'.size |-> ByteAt(ba', i - 1)]
    BY DEF ContentsOf
  <2>2. QED BY <1>0, <1>1, <1>2, <2>1
<1>4. Contents' = ContentsOf(ba') /\ Contents = ContentsOf(ba)
  BY DEF Contents, ContentsOf, ByteAt
<1>5. Contents' = Buffer!Overwritten(s)
  BY <1>3, <1>4 DEF Buffer!Overwritten
<1>6. Buffer!Put
  BY <1>0, <1>5 DEF Buffer!Put
<1>7. QED BY <1>0, <1>6

LEMMA StoreStep ==
  ASSUME NEW r, NEW s \in Seq(Byte), NEW written, Good(ba), r.how = "ok", Wrote(ba, s, r.a),
         Store(r, s, written)
  PROVE  Good(ba') /\ Buffer!Put /\ UNCHANGED died
<1>1. ba' = r.a /\ io' = s /\ UNCHANGED died
  BY DEF Store
<1>2. QED BY <1>1, PutStep

\* A step that ended a read.
LEMMA FinishStep ==
  ASSUME NEW r, Good(ba), died = -1, Outcome(ba, r), Finish(r)
  PROVE  Good(ba') /\ (Buffer!Get \/ Buffer!Fail) /\ DiesOnlyOnEmptyRead'
<1> DEFINE p == ba.position
<1>0. /\ p \in Nat /\ ba.size \in Nat /\ p <= ba.size /\ ba.size <= ba.capacity
      /\ ba.capacity \in Nat
  BY GoodFacts
<1>1. PICK n \in 0..(ba.size - p) : /\ r.a = At(ba, p + n)
                                    /\ r.how # "throw" => r.bytes = Slice(ba, p, n)
  BY DEF Outcome
<1>2. n \in Nat /\ p + n \in Nat /\ p + n <= ba.size /\ p + n <= ba.capacity
  BY <1>0, <1>1
<1>3. /\ ba' = At(ba, p + n) /\ ba' = r.a
      /\ io' = (IF r.how = "throw" THEN <<>> ELSE r.bytes)
      /\ died' = (IF r.how = "null" THEN r.value ELSE died)
  BY <1>1 DEF Finish
<1>4. /\ Good(ba') /\ ba'.position = p + n /\ ba'.size = ba.size
      /\ \A i : ByteAt(ba', i) = ByteAt(ba, i)
  BY <1>2, <1>3, AtIs
<1>5. ContentsOf(ba') = ContentsOf(ba)
  BY <1>4 DEF ContentsOf
<1>6. Contents' = ContentsOf(ba') /\ Contents = ContentsOf(ba)
  BY DEF Contents, ContentsOf, ByteAt
<1>7. Len(Contents) = ba.size /\ SubSeq(Contents, p + 1, p + n) = Slice(ba, p, n)
  BY <1>0, <1>2, <1>6, ContentsFacts
<1>8. CASE r.how = "throw"
  <2>1. io' = <<>> /\ Contents' = Contents /\ ba'.position \in p..Len(Contents)
    BY <1>0, <1>2, <1>3, <1>4, <1>5, <1>6, <1>7, <1>8
  <2>2. Buffer!Fail
    BY <2>1 DEF Buffer!Fail
  <2>3. DiesOnlyOnEmptyRead'
    BY <1>3, <1>8 DEF DiesOnlyOnEmptyRead
  <2>4. QED BY <1>4, <2>2, <2>3
<1>9. CASE r.how # "throw"
  <2>1. io' = Slice(ba, p, n) /\ Len(Slice(ba, p, n)) = n
    BY <1>1, <1>2, <1>0, <1>3, <1>9, SliceType
  <2>2. /\ p + Len(io') <= Len(Contents) /\ io' = SubSeq(Contents, p + 1, p + Len(io'))
        /\ ba'.position = p + Len(io') /\ Contents' = Contents
    BY <1>2, <1>4, <1>5, <1>6, <1>7, <2>1
  <2>3. Buffer!Get
    BY <2>2 DEF Buffer!Get
  <2>4. DiesOnlyOnEmptyRead'
    <3>1. r.how = "null" => r.value = 0 /\ r.a.position = r.a.capacity
      BY DEF Outcome
    <3>2. QED BY <1>3, <3>1 DEF DiesOnlyOnEmptyRead
  <2>5. QED BY <1>4, <2>3, <2>4
<1>10. QED BY <1>8, <1>9

LEMMA SeekStep ==
  ASSUME NEW v \in Nat, Good(ba), SetPosition(v)
  PROVE  Good(ba') /\ Buffer!Seek /\ UNCHANGED died
<1>0. ba.size \in Nat /\ ba.capacity \in Nat
  BY GoodFacts
<1>1. v <= ba.capacity /\ ba' = SeekTo(ba, v) /\ io' = <<>> /\ UNCHANGED died
  BY DEF SetPosition
<1>2. /\ Good(ba') /\ ba'.position = v
      /\ ba'.size = (IF v > ba.size THEN v ELSE ba.size)
      /\ \A i : ByteAt(ba', i) = ByteAt(ba, i)
  BY <1>1, SeekToIs
<1>3. Contents' = ContentsOf(ba') /\ Contents = ContentsOf(ba)
  BY DEF Contents, ContentsOf, ByteAt
<1>4. /\ Len(ContentsOf(ba)) = ba.size /\ DOMAIN ContentsOf(ba) = 1..ba.size
      /\ \A i \in 1..ba.size : ContentsOf(ba)[i] = ByteAt(ba, i - 1)
  BY ContentsFacts DEF ContentsOf
<1>5. /\ Len(ContentsOf(ba')) = ba'.size
      /\ \A i \in 1..ba'.size : ContentsOf(ba')[i] = ByteAt(ba', i - 1)
  BY <1>2, ContentsFacts
<1>6. \A i \in 1..ba.size : i \in 1..ba'.size
  BY <1>0, <1>2
<1>7. \A i \in DOMAIN Contents : Contents'[i] = Contents[i]
  BY <1>2, <1>3, <1>4, <1>5, <1>6
<1>8. Len(Contents') = IF ba'.position > Len(Contents) THEN ba'.position ELSE Len(Contents)
  BY <1>2, <1>3, <1>4, <1>5
<1>9. Buffer!Seek
  BY <1>1, <1>7, <1>8 DEF Buffer!Seek
<1>10. QED BY <1>1, <1>2, <1>9

LEMMA ClearStep ==
  ASSUME Good(ba), Clear
  PROVE  Good(ba') /\ Buffer!Reset /\ UNCHANGED died
<1> DEFINE m == SubSeq(ba.mem, 1, 1)
<1>0. /\ ba \in ArrayType /\ ba.mem \in Seq([1..BaseSize -> Byte]) /\ Len(ba.mem) \in Nat \ {0}
      /\ BaseSize \in Nat \ {0}
  BY GoodFacts, ByteArrayAssumption
<1>1. m \in Seq([1..BaseSize -> Byte]) /\ Len(m) = 1
  BY <1>0
<1>2. /\ ba' = [ba EXCEPT !.mem = m, !.position = 0, !.size = 0, !.capacity = BaseSize, !.cur = 1]
      /\ io' = <<>> /\ UNCHANGED died
  BY DEF Clear
<1> HIDE DEF m
<1>3. ba' \in ArrayType
  BY <1>0, <1>1, <1>2 DEF ArrayType
<1>4. /\ ba'.mem = m /\ ba'.position = 0 /\ ba'.size = 0 /\ ba'.capacity = BaseSize
      /\ ba'.cur = 1
  BY <1>0, <1>2 DEF ArrayType
<1>5. 0 \div BaseSize = 0 /\ 0 # BaseSize /\ BaseSize = BaseSize * 1 /\ 0 <= BaseSize
  BY <1>0
<1>6. Good(ba')
  <2>0. Len(ba'.mem) = 1
    BY <1>1, <1>4
  <2>1. ba'.capacity = BaseSize * Len(ba'.mem) /\ Len(ba'.mem) > 0
    BY <1>4, <1>5, <2>0
  <2>2. ba'.cur = (IF ba'.position = ba'.capacity THEN Null ELSE (ba'.position \div BaseSize) + 1)
    BY <1>4, <1>5
  <2>3. ba'.position <= ba'.size /\ ba'.size <= ba'.capacity
    BY <1>4, <1>5
  <2>4. QED BY <1>3, <2>1, <2>2, <2>3 DEF Good, InStep
<1>7. Contents' = ContentsOf(ba')
  BY DEF Contents, ContentsOf, ByteAt
<1>8. ContentsOf(ba') = <<>>
  BY <1>4 DEF ContentsOf
<1>9. Buffer!Reset
  BY <1>2, <1>4, <1>7, <1>8 DEF Buffer!Reset
<1>10. QED BY <1>2, <1>6, <1>9

LEMMA EndianStep ==
  ASSUME NEW val, Good(ba), SetIsLittleEndian(val)
  PROVE  Good(ba') /\ Buffer!Fail /\ UNCHANGED died
<1> DEFINE e == IF val THEN "LITTLE" ELSE "BIG"
<1>0. ba \in ArrayType /\ ba.position \in Nat /\ ba.size \in Nat /\ ba.position <= ba.size
  BY GoodFacts
<1>1. ba' = [ba EXCEPT !.endian = e] /\ io' = <<>> /\ UNCHANGED died
  BY DEF SetIsLittleEndian
<1>2. e \in {"BIG", "LITTLE"}
  OBVIOUS
<1> HIDE DEF e
<1>3. ba' \in ArrayType
  BY <1>0, <1>1, <1>2 DEF ArrayType
<1>4. /\ ba'.mem = ba.mem /\ ba'.position = ba.position /\ ba'.size = ba.size
      /\ ba'.capacity = ba.capacity /\ ba'.cur = ba.cur
  BY <1>0, <1>1 DEF ArrayType
<1>5. Good(ba')
  BY <1>3, <1>4 DEF Good, InStep
<1>6. Contents' = ContentsOf(ba') /\ Contents = ContentsOf(ba)
  BY DEF Contents, ContentsOf, ByteAt
<1>7. ContentsOf(ba') = ContentsOf(ba)
  BY <1>4 DEF ContentsOf, ByteAt
<1>8. Len(Contents) = ba.size
  BY <1>6, ContentsFacts
<1>9. ba'.position \in ba.position..Len(Contents)
  BY <1>0, <1>4, <1>8
<1>10. Buffer!Fail
  BY <1>1, <1>6, <1>7, <1>9 DEF Buffer!Fail
<1>11. QED BY <1>1, <1>5, <1>10

-----------------------------------------------------------------------------
(***************************************************************************)
(* The cursor, the buffer and the null block.                              *)
(***************************************************************************)

\* The inductive invariant.
IInv == Good(ba) /\ DiesOnlyOnEmptyRead

LEMMA IInvInit == Init => IInv /\ Buffer!Init
<1> SUFFICES ASSUME Init PROVE IInv /\ Buffer!Init
  OBVIOUS
<1>1. PICK byte \in FreshBytes :
        ba = [mem |-> << [i \in 1..BaseSize |-> byte] >>, position |-> 0, size |-> 0,
              capacity |-> BaseSize, cur |-> 1, endian |-> "BIG", fresh |-> byte]
  BY DEF Init
<1> DEFINE b == [i \in 1..BaseSize |-> byte]
<1>0. byte \in Byte /\ BaseSize \in Nat \ {0}
  BY ByteArrayAssumption
<1>2. b \in [1..BaseSize -> Byte]
  BY <1>0
<1> HIDE DEF b
<1>3. <<b>> \in Seq([1..BaseSize -> Byte]) /\ Len(<<b>>) = 1
  BY <1>2
<1>4. ba = [mem |-> <<b>>, position |-> 0, size |-> 0, capacity |-> BaseSize, cur |-> 1,
            endian |-> "BIG", fresh |-> byte]
  BY <1>1 DEF b
<1>5. ba \in ArrayType
  BY <1>0, <1>3, <1>4 DEF ArrayType
<1>6. /\ ba.mem = <<b>> /\ ba.position = 0 /\ ba.size = 0 /\ ba.capacity = BaseSize
      /\ ba.cur = 1
  BY <1>4
<1>7. 0 \div BaseSize = 0 /\ 0 # BaseSize /\ BaseSize = BaseSize * 1 /\ 0 <= BaseSize
  BY <1>0
<1>8. Good(ba)
  <2>1. ba.capacity = BaseSize * Len(ba.mem) /\ Len(ba.mem) > 0
    BY <1>3, <1>6, <1>7
  <2>2. ba.cur = (IF ba.position = ba.capacity THEN Null ELSE (ba.position \div BaseSize) + 1)
    BY <1>6, <1>7
  <2>3. ba.position <= ba.size /\ ba.size <= ba.capacity
    BY <1>6, <1>7
  <2>4. QED BY <1>5, <2>1, <2>2, <2>3 DEF Good, InStep
<1>9. DiesOnlyOnEmptyRead
  BY DEF Init, DiesOnlyOnEmptyRead
<1>10. Buffer!Init
  <2>1. Contents = <<>>
    BY <1>6 DEF Contents, ContentsOf
  <2>2. QED BY <1>6, <2>1 DEF Buffer!Init, Init
<1>11. QED BY <1>8, <1>9, <1>10 DEF IInv

LEMMA IInvNext ==
  ASSUME IInv, Next
  PROVE  IInv' /\ Buffer!Next
<1>0. Good(ba) /\ died = -1 /\ (UNCHANGED died => DiesOnlyOnEmptyRead')
  BY DEF IInv, Next, DiesOnlyOnEmptyRead
<1>1. ASSUME NEW kind \in DOMAIN Values, NEW v \in Values[kind], Write(kind, v)
      PROVE  Good(ba') /\ Buffer!Put /\ UNCHANGED died
  <2> DEFINE s == NumberOf(ba, kind, v)
             t == TextOf(kind, v)
             r == WriteTwo(ba, s, t)
             written == Written(kind, v, Len(s) + Len(t))
  <2>1. s \in Seq(Byte) /\ t \in Seq(Byte) /\ s \o t \in Seq(Byte)
    <3>1. s \in Seq(Byte) /\ t \in Seq(Byte)
      BY ValuesEncoded
    <3> HIDE DEF s, t
    <3>2. QED BY <3>1
  <2>2. Store(r, s \o t, written)
    BY <1>1 DEF Write
  <2> HIDE DEF s, t, written
  <2>3. r.how = "ok" /\ Wrote(ba, s \o t, r.a)
    BY <1>0, <2>1, WriteTwoIs
  <2> HIDE DEF r
  <2>4. QED BY <1>0, <2>1, <2>2, <2>3, StoreStep
<1>2. ASSUME NEW s \in Strings, WriteStringWithoutLength(s)
      PROVE  Good(ba') /\ Buffer!Put /\ UNCHANGED died
  <2> DEFINE r == WriteBytes(ba, s)
  <2>1. s \in Seq(Byte)
    BY ByteArrayAssumption
  <2>2. Store(r, s, NoWrite)
    BY <1>2 DEF WriteStringWithoutLength
  <2>3. r.how = "ok" /\ Wrote(ba, s, r.a)
    BY <1>0, <2>1, WriteBytesIs
  <2> HIDE DEF r
  <2>4. QED BY <1>0, <2>1, <2>2, <2>3, StoreStep
<1>3. ASSUME NEW s \in Strings, ReadFromFile(s)
      PROVE  Good(ba') /\ Buffer!Put /\ UNCHANGED died
  <2> DEFINE r == WriteChunks(ba, s)
  <2>1. s \in Seq(Byte)
    BY ByteArrayAssumption
  <2>2. Store(r, s, NoWrite)
    BY <1>3 DEF ReadFromFile
  <2>3. r.how = "ok" /\ Wrote(ba, s, r.a)
    BY <1>0, <2>1, WriteChunksIs
  <2> HIDE DEF r
  <2>4. QED BY <1>0, <2>1, <2>2, <2>3, StoreStep
<1>4. ASSUME NEW s \in Strings, NEW length \in Sizes, ReceiveInto(length, s)
      PROVE  Good(ba') /\ Buffer!Put /\ UNCHANGED died
  <2> DEFINE b == AddCapacity(ba, length)
             at == Addresses(b, b.cur, b.position % BaseSize, length)
             c == IF s = <<>> THEN b
                  ELSE SeekTo([b EXCEPT !.mem = Poke(b, SubSeq(at, 1, Len(s)), s)],
                              b.position + Len(s))
  <2>1. s \in Seq(Byte) /\ length \in Nat
    BY ByteArrayAssumption
  <2>2. /\ length > 0 /\ Len(s) <= length
        /\ IF ~Valid(at) THEN died' = length /\ UNCHANGED <<ba, io>>
           ELSE ba' = c /\ io' = s /\ UNCHANGED died
    BY <1>4 DEF ReceiveInto
  <2>3. Valid(at) /\ Wrote(ba, s, c)
    BY <1>0, <2>1, <2>2, ReceiveIs
  <2> HIDE DEF at, c
  <2>4. ba' = c /\ io' = s /\ UNCHANGED died
    BY <2>2, <2>3
  <2>5. QED BY <1>0, <2>1, <2>3, <2>4, PutStep
<1>5. ASSUME NEW kind \in DOMAIN Values, Read(kind)
      PROVE  Good(ba') /\ (Buffer!Get \/ Buffer!Fail) /\ DiesOnlyOnEmptyRead'
  <2>1. Outcome(ba, ReadValue(ba, kind)) /\ Finish(ReadValue(ba, kind))
    BY <1>0, <1>5, ReadValueOutcome DEF Read
  <2>2. QED BY <1>0, <2>1, FinishStep
<1>6. ASSUME NEW n \in Sizes, ReadRaw(n)
      PROVE  Good(ba') /\ (Buffer!Get \/ Buffer!Fail) /\ DiesOnlyOnEmptyRead'
  <2>0. n \in Nat
    BY ByteArrayAssumption
  <2>1. Outcome(ba, ReadBytes(ba, n)) /\ Finish(ReadBytes(ba, n))
    BY <1>0, <1>6, <2>0, ReadBytesOutcome DEF ReadRaw
  <2>2. QED BY <1>0, <2>1, FinishStep
<1>7. ASSUME NEW v \in Seeks, SetPosition(v)
      PROVE  Good(ba') /\ Buffer!Seek /\ UNCHANGED died
  <2>0. v \in Nat
    BY ByteArrayAssumption
  <2>1. QED BY <1>0, <1>7, <2>0, SeekStep
<1>8. ASSUME Clear PROVE Good(ba') /\ Buffer!Reset /\ UNCHANGED died
  BY <1>0, <1>8, ClearStep
<1>9. ASSUME NEW val \in BOOLEAN, SetIsLittleEndian(val)
      PROVE  Good(ba') /\ Buffer!Fail /\ UNCHANGED died
  BY <1>0, <1>9, EndianStep
<1>10. Good(ba') /\ DiesOnlyOnEmptyRead' /\ Buffer!Next
  BY <1>0, <1>1, <1>2, <1>3, <1>4, <1>5, <1>6, <1>7, <1>8, <1>9 DEF Next, Buffer!Next
<1>11. QED BY <1>10 DEF IInv

LEMMA IInvStutter == IInv /\ UNCHANGED vars => IInv'
BY DEF IInv, vars, DiesOnlyOnEmptyRead

LEMMA IInvAlways == Spec => []IInv
<1>1. Init => IInv
  BY IInvInit
<1>2. IInv /\ [Next]_vars => IInv'
  BY IInvNext, IInvStutter
<1>3. QED BY <1>1, <1>2, PTL DEF Spec

\* m_cur is in step with m_position after every sequence of operations, for
\* every block size: each write, read, seek and receive leaves it at the block
\* that holds the position, and null exactly at the end of the capacity.
THEOREM CursorStaysInStep == Spec => []CursorInStep
<1>1. IInv => CursorInStep
  BY DEF IInv, Good, CursorInStep
<1>2. QED BY <1>1, IInvAlways, PTL

\* The only access through a null m_cur is a read of no bytes at the end of the
\* capacity; no write, no receive and no read of a byte ever meets one.
THEOREM NullBlockOnlyOnEmptyRead == Spec => []DiesOnlyOnEmptyRead
<1>1. IInv => DiesOnlyOnEmptyRead
  BY DEF IInv
<1>2. QED BY <1>1, IInvAlways, PTL

\* The list of blocks implements one contiguous buffer: every operation puts,
\* gets, seeks or resets, whatever blocks it spans, or fails as a read does.
THEOREM ByteArrayImplementsByteBuffer == Spec => ImplementsByteBuffer
<1>1. Init => Buffer!Init
  BY IInvInit
<1>2. IInv /\ [Next]_vars => [Buffer!Next]_(Buffer!vars)
  <2>1. IInv /\ Next => Buffer!Next
    BY IInvNext
  <2>2. UNCHANGED vars => UNCHANGED Buffer!vars
    BY DEF vars, Buffer!vars, Contents, ContentsOf, ByteAt
  <2>3. QED BY <2>1, <2>2
<1>3. QED BY <1>1, <1>2, IInvAlways, PTL DEF Spec, ImplementsByteBuffer, Buffer!Spec

-----------------------------------------------------------------------------
(***************************************************************************)
(* What was written is read back.                                          *)
(***************************************************************************)

\* The position that s and t were written to, seeked to again.
LEMMA WrittenAtPosition ==
  ASSUME NEW a, Good(a), NEW s \in Seq(Byte), NEW t \in Seq(Byte), NEW b, Wrote(a, s \o t, b)
  PROVE  LET c == SeekTo(b, a.position)
         IN  /\ Good(c) /\ c.position = a.position
             /\ c.capacity = b.capacity /\ c.endian = a.endian
             /\ c.position + Len(s) + Len(t) <= c.size
             /\ Slice(c, c.position, Len(s)) = s
             /\ Slice(c, c.position + Len(s), Len(t)) = t
<1> DEFINE c == SeekTo(b, a.position)
           p == a.position
           u == s \o t
           k == Len(s)
           n == Len(t)
<1>0. p \in Nat /\ a.size \in Nat /\ p <= a.size /\ k \in Nat /\ n \in Nat
  BY GoodFacts
<1>1. /\ u \in Seq(Byte) /\ Len(u) = k + n
      /\ \A i \in 1..k : u[i] = s[i]
      /\ \A i \in 1..n : u[k + i] = t[i]
  BY Concatenation
<1>2. /\ Good(b) /\ b.position = p + Len(u)
      /\ b.size = (IF b.position > a.size THEN b.position ELSE a.size)
      /\ b.endian = a.endian
      /\ \A i \in 0..(b.size - 1) : ByteAt(b, i) = IF i \in p..(p + Len(u) - 1) THEN u[i - p + 1]
                                                   ELSE ByteAt(a, i)
  BY DEF Wrote
<1> HIDE DEF u
<1>3. /\ b.size \in Nat /\ b.capacity \in Nat /\ b.size <= b.capacity
      /\ p <= b.size /\ p + k + n <= b.size
  BY <1>0, <1>1, <1>2, GoodFacts
<1>4. /\ Good(c) /\ c.position = p /\ c.capacity = b.capacity /\ c.endian = b.endian
      /\ c.size = b.size /\ \A i : ByteAt(c, i) = ByteAt(b, i)
  <2>1. p <= b.capacity
    BY <1>0, <1>3
  <2>2. c = At(b, p)
    BY <1>0, <1>2, <1>3, <2>1, SeekToIs
  <2>3. QED BY <1>0, <1>2, <1>3, <2>2, AtIs
<1> HIDE DEF c
<1>5. ASSUME NEW j \in Nat, j < k + n PROVE ByteAt(c, p + j) = u[j + 1]
  <2> DEFINE i == p + j
             m == p + Len(u) - 1
  <2>1. i \in Nat /\ i - p + 1 = j + 1
    BY <1>0
  <2>2. i \in 0..(b.size - 1)
    BY <1>0, <1>3, <1>5
  <2>3. i \in p..m
    BY <1>0, <1>1, <1>5
  <2> HIDE DEF i, p, k, n
  <2>4. ByteAt(b, i) = u[i - p + 1]
    BY <1>2, <2>2, <2>3
  <2>5. QED BY <1>4, <2>1, <2>4 DEF i
<1>6. Slice(c, p, k) = s
  <2>1. ASSUME NEW i \in 1..k PROVE ByteAt(c, p + i - 1) = s[i]
    <3>1. i - 1 \in Nat /\ i - 1 < k + n /\ p + (i - 1) = p + i - 1 /\ (i - 1) + 1 = i
      BY <1>0
    <3>2. QED BY <1>1, <1>5, <3>1
  <2>2. s = [i \in 1..k |-> s[i]]
    OBVIOUS
  <2> HIDE DEF k
  <2>3. QED BY <2>1, <2>2 DEF Slice
<1>7. Slice(c, p + k, n) = t
  <2>1. ASSUME NEW i \in 1..n PROVE ByteAt(c, (p + k) + i - 1) = t[i]
    <3>1. /\ k + i - 1 \in Nat /\ k + i - 1 < k + n /\ p + (k + i - 1) = (p + k) + i - 1
          /\ (k + i - 1) + 1 = k + i
      BY <1>0
    <3>2. QED BY <1>1, <1>5, <3>1
  <2>2. t = [i \in 1..n |-> t[i]]
    OBVIOUS
  <2> HIDE DEF n
  <2>3. QED BY <2>1, <2>2 DEF Slice
<1>8. QED BY <1>2, <1>3, <1>4, <1>6, <1>7 DEF c

LEMMA FixedBack ==
  ASSUME NEW a, NEW c, Good(c), c.endian = a.endian, NEW width \in Nat \ {0}, NEW v \in Nat,
         v < Pow2[ByteBits * width], c.position + width <= c.size,
         Slice(c, c.position, width) = FixedBytes(a, width, v)
  PROVE  ReadFixed(c, width) = [a |-> At(c, c.position + width), how |-> "ok",
                                bytes |-> Slice(c, c.position, width), value |-> v]
<1> DEFINE s == Slice(c, c.position, width)
<1>0. /\ c.position \in Nat /\ c.size \in Nat /\ c.capacity \in Nat /\ c.size <= c.capacity
  BY GoodFacts
<1>1. width <= c.size - c.position /\ c.position # c.capacity
  BY <1>0
<1>2. ReadBytes(c, width) = [a |-> At(c, c.position + width), how |-> "ok", bytes |-> s,
                             value |-> 0]
  BY <1>1, ReadBytesIs
<1>3. FixedValue(c, s) = FixedValue(a, s)
  BY DEF FixedValue, InOrder
<1>4. FixedValue(a, s) = v
  BY FixedRoundTrip
<1> HIDE DEF s
<1>5. QED BY <1>2, <1>3, <1>4 DEF ReadFixed, s

LEMMA UintBack ==
  ASSUME NEW c, Good(c), NEW v \in Nat, v < Pow2[IntBits],
         c.position + Len(EncodeUint(v)) <= c.size,
         Slice(c, c.position, Len(EncodeUint(v))) = EncodeUint(v)
  PROVE  ReadUint(c) = [a |-> At(c, c.position + Len(EncodeUint(v))), how |-> "ok",
                        bytes |-> EncodeUint(v), value |-> v]
<1> DEFINE s == EncodeUint(v)
           k == Len(s)
           p == c.position
           left == c.size - p
<1>0. p \in Nat /\ c.size \in Nat /\ left \in Int /\ MaxGroups \in Nat /\ Half \in Nat
      /\ c.capacity \in Nat /\ c.size <= c.capacity
  BY GoodFacts, MaxGroupsFacts, RadixFacts
<1>1. /\ s \in Seq(Byte) /\ k \in 1..MaxGroups
      /\ \A i \in 1..(k - 1) : s[i] >= Half
      /\ s[k] < Half
      /\ DecodeUint(s) = v
  BY EncodeUintFacts
<1>2. Slice(c, p, k) = s /\ p + k <= c.size
  OBVIOUS
<1> HIDE DEF s
<1>3. PICK n \in 1..MaxGroups :
        /\ n <= left => ReadUint(c) = [a |-> At(c, p + n), how |-> "ok",
                                       bytes |-> Slice(c, p, n),
                                       value |-> DecodeUint(Slice(c, p, n))]
        /\ n <= left /\ n # MaxGroups => ByteAt(c, p + n - 1) < Half
        /\ \A i \in 1..(n - 1) : i <= left => ByteAt(c, p + i - 1) >= Half
  BY ReadUintIs
<1> HIDE DEF k
<1>4. k \in Nat /\ n \in Nat /\ k <= left /\ \A i \in 1..k : ByteAt(c, p + i - 1) = s[i]
  <2>1. k \in Nat /\ n \in Nat /\ k <= left
    BY <1>0, <1>1, <1>2, <1>3
  <2>2. \A i \in 1..k : Slice(c, p, k)[i] = ByteAt(c, p + i - 1)
    BY DEF Slice
  <2>3. QED BY <1>2, <2>1, <2>2
<1>5. \A i \in 1..k : s[i] \in Nat
  BY <1>1, BytesAreNumbers DEF k
<1>6. ~(n < k)
  <2> SUFFICES ASSUME n < k PROVE FALSE
    OBVIOUS
  <2>1. n \in 1..(k - 1) /\ n \in 1..k /\ n <= left /\ n # MaxGroups
    BY <1>0, <1>1, <1>3, <1>4
  <2>2. s[n] < Half /\ s[n] >= Half /\ s[n] \in Nat
    BY <1>1, <1>3, <1>4, <1>5, <2>1
  <2>3. QED BY <1>0, <2>2
<1>7. ~(k < n)
  <2> SUFFICES ASSUME k < n PROVE FALSE
    OBVIOUS
  <2>1. k \in 1..(n - 1) /\ k \in 1..k
    BY <1>1, <1>4
  <2>2. s[k] < Half /\ s[k] >= Half /\ s[k] \in Nat
    BY <1>1, <1>3, <1>4, <1>5, <2>1
  <2>3. QED BY <1>0, <2>2
<1>8. n = k
  BY <1>4, <1>6, <1>7
<1>9. QED BY <1>1, <1>2, <1>3, <1>4, <1>8 DEF s, k

LEMMA TextBack ==
  ASSUME NEW c, Good(c), NEW k \in Nat, NEW x, NEW t \in Seq(Byte),
         c.position + k + Len(t) <= c.size,
         Slice(c, c.position + k, Len(t)) = t
  PROVE  LET r == ReadString([a |-> At(c, c.position + k), how |-> "ok", bytes |-> x,
                              value |-> Len(t)])
         IN  \/ r.how = "ok" /\ r.value = t /\ r.a.position = c.position + k + Len(t)
             \/ r.how = "null" /\ t = <<>> /\ c.position + k + Len(t) = c.capacity
<1> DEFINE p == c.position
           n == Len(t)
           b == At(c, p + k)
           length == [a |-> b, how |-> "ok", bytes |-> x, value |-> n]
           q == ReadBytes(b, n)
           r == ReadString(length)
<1>0. p \in Nat /\ c.size \in Nat /\ n \in Nat /\ p + k \in Nat /\ p + k <= c.size
      /\ p + k + n <= c.size
  BY GoodFacts
<1>1. /\ Good(b) /\ b.position = p + k /\ b.size = c.size /\ b.capacity = c.capacity
      /\ \A i, m : Slice(b, i, m) = Slice(c, i, m)
      /\ \A y : At(b, y) = At(c, y)
  BY <1>0, AtIs
<1>2. n <= b.size - b.position
  BY <1>0, <1>1
<1> HIDE DEF b
<1>3. r = [q EXCEPT !.bytes = x \o @, !.value = IF q.how = "null" THEN @ ELSE q.bytes]
  BY DEF ReadString
<1> HIDE DEF r, length, n
<1>4. CASE b.position = b.capacity
  <2>1. n = 0 /\ q = [a |-> b, how |-> "null", bytes |-> <<>>, value |-> 0]
    BY <1>0, <1>1, <1>2, <1>4, ReadBytesIs
  <2> HIDE DEF q
  <2>2. r.how = "null"
    BY <1>3, <2>1
  <2>3. t = <<>>
    BY <2>1 DEF n
  <2>4. p + k + n = c.capacity
    BY <1>0, <1>1, <1>4, <2>1
  <2>5. QED BY <2>2, <2>3, <2>4 DEF r, length, b, n
<1>5. CASE b.position # b.capacity
  <2>1. q = [a |-> At(b, b.position + n), how |-> "ok", bytes |-> Slice(b, b.position, n),
             value |-> 0]
    BY <1>0, <1>1, <1>2, <1>5, ReadBytesIs
  <2>2. At(b, b.position + n) = At(c, p + k + n) /\ Slice(b, b.position, n) = t
    BY <1>1 DEF n
  <2>3. At(c, p + k + n).position = p + k + n
    <3>1. p + k + n \in Nat
      BY <1>0
    <3>2. QED BY <1>0, <3>1, AtIs
  <2> HIDE DEF q
  <2>4. r.how = "ok" /\ r.value = t /\ r.a = At(c, p + k + n)
    BY <1>3, <2>1, <2>2
  <2>5. QED BY <2>3, <2>4 DEF r, length, b, n
<1>6. QED BY <1>4, <1>5


\* RoundTrip, of a value of this kind written from position from to position to of b.
ReadsBack(b, kind, v, from, to) ==
  LET r == ReadValue(SeekTo(b, from), kind)
  IN  \/ r.how = "ok" /\ r.value = v /\ r.a.position = to
      \/ kind = "stringF" /\ Len(v) >= Pow2[ByteBits * LengthWidth]
      \/ r.how = "null" /\ v = <<>> /\ to = b.capacity

LEMMA ValueBack ==
  ASSUME NEW a, Good(a), NEW kind \in DOMAIN Values, NEW v \in Values[kind], NEW b,
         Wrote(a, NumberOf(a, kind, v) \o TextOf(kind, v), b)
  PROVE  ReadsBack(b, kind, v, a.position,
                   a.position + (Len(NumberOf(a, kind, v)) + Len(TextOf(kind, v))))
<1> DEFINE s == NumberOf(a, kind, v)
           t == TextOf(kind, v)
           k == Len(s)
           n == Len(t)
           p == a.position
           c == SeekTo(b, p)
           r == ReadValue(c, kind)
<1>0. s \in Seq(Byte) /\ t \in Seq(Byte)
  BY ValuesEncoded
<1>1. Wrote(a, s \o t, b)
  OBVIOUS
<1>2. p \in Nat
  BY GoodFacts
<1> HIDE DEF s, t
<1>3. /\ Good(c) /\ c.position = p /\ c.capacity = b.capacity /\ c.endian = a.endian
      /\ c.position + k + n <= c.size
      /\ Slice(c, c.position, k) = s /\ Slice(c, c.position + k, n) = t
  BY <1>0, <1>1, WrittenAtPosition
<1>4. k \in Nat /\ n \in Nat
  BY <1>0
<1>5. c.size \in Nat /\ c.position \in Nat
  BY <1>3, GoodFacts
<1> HIDE DEF k, n, p, c
<1>6. /\ c.position + k \in Nat /\ c.position + k <= c.size
      /\ c.position + k + n = p + (k + n)
  BY <1>2, <1>3, <1>4, <1>5
<1>7. At(c, c.position + k).position = c.position + k
  BY <1>3, <1>6, AtIs
<1>8. \/ r.how = "ok" /\ r.value = v /\ r.a.position = p + (k + n)
      \/ kind = "stringF" /\ Len(v) >= Pow2[ByteBits * LengthWidth]
      \/ r.how = "null" /\ v = <<>> /\ p + (k + n) = b.capacity
  <2>1. CASE kind = "fixed"
    <3>1. v \in Nat /\ v < Pow2[ByteBits * FixedWidth] /\ FixedWidth \in Nat \ {0}
      <4>1. ByteBits * FixedWidth \in Nat /\ FixedWidth \in Nat \ {0}
        BY ByteArrayAssumption
      <4>2. v \in 0..(Pow2[ByteBits * FixedWidth] - 1)
        BY <2>1, ByteArrayAssumption DEF Values
      <4>3. Pow2[ByteBits * FixedWidth] \in Nat
        BY <4>1, Pow2Type
      <4>4. QED BY <4>1, <4>2, <4>3
    <3>2. s = FixedBytes(a, FixedWidth, v) /\ t = <<>>
      BY <2>1 DEF s, t, NumberOf, TextOf
    <3>3. k = FixedWidth /\ n = 0
      BY <3>1, <3>2, FixedBytesType DEF k, n
    <3>4. ReadFixed(c, FixedWidth) = [a |-> At(c, c.position + k), how |-> "ok",
                                      bytes |-> Slice(c, c.position, k), value |-> v]
      BY <1>3, <1>6, <3>1, <3>2, <3>3, FixedBack
    <3>5. r = ReadFixed(c, FixedWidth)
      BY <2>1 DEF ReadValue
    <3>6. c.position + k = p + (k + n)
      BY <1>2, <1>3, <1>4, <3>3
    <3>7. QED BY <1>7, <3>4, <3>5, <3>6
  <2>2. CASE kind = "uint"
    <3>1. v \in Nat /\ v < Pow2[IntBits]
      <4>1. v \in 0..(Pow2[IntBits] - 1) /\ Pow2[IntBits] \in Nat
        BY <2>2, ByteArrayAssumption, Pow2Type DEF Values
      <4>2. QED BY <4>1
    <3>2. s = EncodeUint(v) /\ t = <<>>
      BY <2>2 DEF s, t, NumberOf, TextOf
    <3>3. k = Len(EncodeUint(v)) /\ n = 0
      BY <3>2 DEF k, n
    <3>4. ReadUint(c) = [a |-> At(c, c.position + k), how |-> "ok", bytes |-> EncodeUint(v),
                         value |-> v]
      BY <1>3, <1>6, <3>1, <3>2, <3>3, UintBack
    <3>5. r = ReadUint(c)
      BY <2>2 DEF ReadValue
    <3>6. c.position + k = p + (k + n)
      BY <1>2, <1>3, <1>4, <3>3
    <3>7. QED BY <1>7, <3>4, <3>5, <3>6
  <2>3. CASE kind = "int"
    <3> DEFINE u == EncodeZigzag(v)
    <3>1. v \in Int /\ -Pow2[IntBits - 1] <= v /\ v < Pow2[IntBits - 1]
      <4>1. v \in -Pow2[IntBits - 1]..(Pow2[IntBits - 1] - 1) /\ IntBits - 1 \in Nat
        BY <2>3, ByteArrayAssumption DEF Values
      <4>2. Pow2[IntBits - 1] \in Nat
        BY <4>1, Pow2Type
      <4>3. QED BY <4>1, <4>2
    <3>2. u \in Nat /\ u < Pow2[IntBits] /\ DecodeZigzag(u) = v
      BY <3>1, ZigzagRoundTrip
    <3>3. s = EncodeUint(u) /\ t = <<>>
      BY <2>3 DEF s, t, NumberOf, TextOf
    <3> HIDE DEF u
    <3>4. k = Len(EncodeUint(u)) /\ n = 0
      BY <3>3 DEF k, n
    <3>5. ReadUint(c) = [a |-> At(c, c.position + k), how |-> "ok", bytes |-> EncodeUint(u),
                         value |-> u]
      BY <1>3, <1>6, <3>2, <3>3, <3>4, UintBack
    <3>6. r = ReadInt(c)
      BY <2>3 DEF ReadValue
    <3>7. ReadInt(c).how = "ok" /\ ReadInt(c).value = v /\ ReadInt(c).a = At(c, c.position + k)
      BY <3>2, <3>5 DEF ReadInt
    <3>8. c.position + k = p + (k + n)
      BY <1>2, <1>3, <1>4, <3>4
    <3>9. QED BY <1>7, <3>6, <3>7, <3>8
  <2>4. CASE kind = "stringF" /\ ~(Len(v) >= Pow2[ByteBits * LengthWidth])
    <3>1. s = FixedBytes(a, LengthWidth, Len(v)) /\ t = v
      BY <2>4 DEF s, t, NumberOf, TextOf
    <3>2. n = Len(v) /\ LengthWidth \in Nat \ {0} /\ n < Pow2[ByteBits * LengthWidth]
      <4>1. ByteBits * LengthWidth \in Nat /\ LengthWidth \in Nat \ {0}
        BY ByteArrayAssumption
      <4>2. Pow2[ByteBits * LengthWidth] \in Nat
        BY <4>1, Pow2Type
      <4>3. n = Len(v)
        BY <3>1 DEF n
      <4>4. QED BY <1>4, <2>4, <4>1, <4>2, <4>3
    <3>3. k = LengthWidth
      BY <1>4, <3>1, <3>2, FixedBytesType DEF k
    <3>4. ReadFixed(c, LengthWidth) = [a |-> At(c, c.position + k), how |-> "ok",
                                       bytes |-> Slice(c, c.position, k), value |-> Len(t)]
      <4>1. c.position + LengthWidth <= c.size
            /\ Slice(c, c.position, LengthWidth) = FixedBytes(a, LengthWidth, n)
        BY <1>3, <1>6, <3>1, <3>2, <3>3
      <4>2. QED BY <1>3, <1>4, <3>2, <3>3, <4>1, FixedBack DEF n
    <3>5. r = ReadString(ReadFixed(c, LengthWidth))
      BY <2>4 DEF ReadValue
    <3>6. \/ r.how = "ok" /\ r.value = t /\ r.a.position = c.position + k + n
          \/ r.how = "null" /\ t = <<>> /\ c.position + k + n = c.capacity
      BY <1>0, <1>3, <1>4, <3>4, <3>5, TextBack DEF n
    <3> HIDE DEF r
    <3>7. QED BY <1>3, <1>6, <3>1, <3>6
  <2>5. CASE kind = "stringVint"
    <3>1. s = EncodeUint(Len(v)) /\ t = v
      BY <2>5 DEF s, t, NumberOf, TextOf
    <3>2. n = Len(v) /\ n < Pow2[IntBits]
      BY <2>5, <3>1, ByteArrayAssumption DEF Values, n
    <3>3. k = Len(EncodeUint(n))
      BY <3>1, <3>2 DEF k
    <3>4. ReadUint(c) = [a |-> At(c, c.position + k), how |-> "ok", bytes |-> EncodeUint(n),
                         value |-> Len(t)]
      <4>1. Slice(c, c.position, k) = EncodeUint(n)
        BY <1>3, <3>1, <3>2
      <4>2. QED BY <1>3, <1>4, <1>6, <3>2, <3>3, <4>1, UintBack DEF n
    <3>5. r = ReadString(ReadUint(c))
      BY <2>5 DEF ReadValue
    <3>6. \/ r.how = "ok" /\ r.value = t /\ r.a.position = c.position + k + n
          \/ r.how = "null" /\ t = <<>> /\ c.position + k + n = c.capacity
      BY <1>0, <1>3, <1>4, <3>4, <3>5, TextBack DEF n
    <3> HIDE DEF r
    <3>7. QED BY <1>3, <1>6, <3>1, <3>6
  <2>6. CASE kind = "stringF" /\ Len(v) >= Pow2[ByteBits * LengthWidth]
    BY <2>6
  <2> HIDE DEF r
  <2>7. QED BY <2>1, <2>2, <2>3, <2>4, <2>5, <2>6 DEF Values
<1>9. QED BY <1>8 DEF ReadsBack, s, t, k, n, p, c

LEMMA RoundTripNext == IInv /\ RoundTrip /\ [Next]_vars => RoundTrip'
<1> SUFFICES ASSUME IInv, RoundTrip, [Next]_vars PROVE RoundTrip'
  OBVIOUS
<1>0. Good(ba)
  BY DEF IInv
<1>1. CASE UNCHANGED vars
  BY <1>1 DEF vars, RoundTrip
<1>2. last' = NoWrite => RoundTrip'
  BY DEF RoundTrip, NoWrite
<1>3. ASSUME NEW kind \in DOMAIN Values, NEW v \in Values[kind], Write(kind, v) PROVE RoundTrip'
  <2> DEFINE s == NumberOf(ba, kind, v)
             t == TextOf(kind, v)
             r == WriteTwo(ba, s, t)
             to == ba.position + (Len(s) + Len(t))
  <2>1. s \in Seq(Byte) /\ t \in Seq(Byte)
    BY ValuesEncoded
  <2>2. Store(r, s \o t, Written(kind, v, Len(s) + Len(t)))
    BY <1>3 DEF Write
  <2> HIDE DEF s, t
  <2>3. r.how = "ok" /\ Wrote(ba, s \o t, r.a)
    BY <1>0, <2>1, WriteTwoIs
  <2> HIDE DEF r
  <2>4. ba' = r.a /\ last' = Written(kind, v, Len(s) + Len(t))
    BY <2>2, <2>3 DEF Store
  <2>5. Wrote(ba, s \o t, ba')
    BY <2>3, <2>4
  <2>6. ReadsBack(ba', kind, v, ba.position, to)
    BY <1>0, <2>5, ValueBack DEF s, t
  <2> HIDE DEF to
  <2>7. last' = [kind |-> kind, value |-> v, from |-> ba.position, to |-> to]
    BY <2>4 DEF Written, to
  <2>8. last'.kind = kind /\ last'.value = v /\ last'.from = ba.position /\ last'.to = to
    BY <2>7
  <2>9. QED BY <2>6, <2>8 DEF RoundTrip, ReadsBack
<1>4. CASE Next
  <2>1. ASSUME NEW s \in Strings, WriteStringWithoutLength(s) PROVE RoundTrip'
    <3>1. s \in Seq(Byte)
      BY ByteArrayAssumption
    <3>2. WriteBytes(ba, s).how = "ok"
      BY <1>0, <3>1, WriteBytesIs
    <3>3. last' = NoWrite
      BY <2>1, <3>2 DEF WriteStringWithoutLength, Store
    <3>4. QED BY <1>2, <3>3
  <2>2. ASSUME NEW s \in Strings, ReadFromFile(s) PROVE RoundTrip'
    <3>1. s \in Seq(Byte)
      BY ByteArrayAssumption
    <3>2. WriteChunks(ba, s).how = "ok"
      BY <1>0, <3>1, WriteChunksIs
    <3>3. last' = NoWrite
      BY <2>2, <3>2 DEF ReadFromFile, Store
    <3>4. QED BY <1>2, <3>3
  <2>3. ASSUME NEW s \in Strings, NEW length \in Sizes, ReceiveInto(length, s) PROVE RoundTrip'
    <3>1. last' = NoWrite
      BY <2>3 DEF ReceiveInto
    <3>2. QED BY <1>2, <3>1
  <2>4. (\E kind \in DOMAIN Values : Read(kind)) \/ (\E n \in Sizes : ReadRaw(n)) => RoundTrip'
    <3>1. ASSUME NEW r, Finish(r) PROVE last' = NoWrite
      BY <3>1 DEF Finish
    <3>2. QED BY <1>2, <3>1 DEF Read, ReadRaw
  <2>5. (\E v \in Seeks : SetPosition(v)) => RoundTrip'
    <3>1. ASSUME NEW v \in Seeks, SetPosition(v) PROVE last' = NoWrite
      BY <3>1 DEF SetPosition
    <3>2. QED BY <1>2, <3>1
  <2>6. Clear => RoundTrip'
    <3>1. Clear => last' = NoWrite
      BY DEF Clear
    <3>2. QED BY <1>2, <3>1
  <2>7. (\E val \in BOOLEAN : SetIsLittleEndian(val)) => RoundTrip'
    <3>1. ASSUME NEW val \in BOOLEAN, SetIsLittleEndian(val) PROVE last' = NoWrite
      BY <3>1 DEF SetIsLittleEndian
    <3>2. QED BY <1>2, <3>1
  <2>8. QED BY <1>3, <1>4, <2>1, <2>2, <2>3, <2>4, <2>5, <2>6, <2>7 DEF Next
<1>5. QED BY <1>1, <1>4

\* Every value of every kind, written across whatever blocks in either byte
\* order, is read back from its position: for every block size, byte width,
\* integer width and content of uninitialised memory.
THEOREM WrittenIsReadBack == Spec => []RoundTrip
<1>1. Init => RoundTrip
  BY DEF Init, RoundTrip, NoWrite
<1>2. IInv /\ RoundTrip /\ [Next]_vars => RoundTrip'
  BY RoundTripNext
<1>3. QED BY <1>1, <1>2, IInvAlways, PTL DEF Spec


-----------------------------------------------------------------------------
(***************************************************************************)
(* The views.                                                              *)
(***************************************************************************)

\* A part of a block is a slice of the content.
LEMMA PartOfBlock ==
  ASSUME NEW a, Good(a), NEW q \in Nat, q < Len(a.mem), NEW d \in Nat, NEW len \in Nat,
         d + len <= BaseSize, NEW pos \in Nat, pos = BaseSize * q + d
  PROVE  SubSeq(a.mem[q + 1], d + 1, d + len) = Slice(a, pos, len)
<1> DEFINE m == a.mem[q + 1]
<1>0. BaseSize \in Nat /\ BaseSize \in Nat \ {0} /\ BaseSize * q \in Nat
  BY BaseFacts
<1>1. m \in [1..BaseSize -> Byte]
  <2>1. a.mem \in Seq([1..BaseSize -> Byte]) /\ Len(a.mem) \in Nat
    BY GoodFacts
  <2>2. q + 1 \in 1..Len(a.mem)
    BY <2>1
  <2>3. QED BY <2>1, <2>2
<1>2. m \in Seq(Byte) /\ Len(m) = BaseSize
  <2> HIDE DEF m
  <2> DEFINE w == [i \in 1..BaseSize |-> m[i]]
  <2>1. m = w
    BY <1>1
  <2>2. \A i \in 1..BaseSize : m[i] \in Byte
    BY <1>1
  <2>3. w \in Seq(Byte) /\ Len(w) = BaseSize
    BY <1>0, <2>2
  <2> HIDE DEF w
  <2>4. QED BY <2>1, <2>3
<1>3. ASSUME NEW i \in 1..len PROVE ByteAt(a, pos + i - 1) = m[d + i]
  <2> DEFINE x == pos + i - 1
             e == d + i - 1
  <2>1. x \in Nat /\ e \in 0..(BaseSize - 1) /\ x = BaseSize * q + e /\ e + 1 = d + i
    BY <1>0
  <2> HIDE DEF x, e
  <2>2. x \div BaseSize = q /\ x % BaseSize = e
    BY <1>0, <2>1, DivUnique
  <2>3. ByteAt(a, x) = m[e + 1]
    BY <2>2 DEF ByteAt
  <2>4. QED BY <2>1, <2>3 DEF x
<1> HIDE DEF m
<1>4. SubSeq(m, d + 1, d + len) = [i \in 1..len |-> m[d + i]]
  <2>1. d + len \in Nat /\ d <= d + len /\ d + len <= Len(m) /\ (d + len) - d = len
    BY <1>0, <1>2
  <2>2. SubSeq(m, d + 1, d + len) = [i \in 1..((d + len) - d) |-> m[d + i]]
    BY <1>2, <2>1, SubSeqFacts
  <2>3. QED BY <2>1, <2>2
<1>5. QED BY <1>3, <1>4 DEF Slice, m

\* A file that writeToFile may have written so far: what lies before pos, the
\* cursor at pos, and no part of a block left to write that starts inside it.
FileSoFar(a) ==
  {f \in [left : Nat, pos : Nat, node : Nat, out : Seq(Byte)] :
     /\ f.left + f.pos = a.size /\ a.position <= f.pos
     /\ f.out = Slice(a, a.position, f.pos - a.position)
     /\ f.left > 0 => /\ f.node = CurAt(a, f.pos)
                      /\ f.pos % BaseSize = 0 \/ f.left >= BaseSize}

\* The part of a block that writeToFile writes next: left bytes from pos on.
LEMMA PartLength ==
  ASSUME NEW left \in Nat, left > 0, NEW pos \in Nat,
         pos % BaseSize = 0 \/ left >= BaseSize
  PROVE  LET d == pos % BaseSize
             q == pos \div BaseSize
             len == Smaller(left, BaseSize) - d
         IN  /\ q \in Nat /\ d \in Nat /\ BaseSize * q + d = pos
             /\ len \in Nat /\ len > 0 /\ len <= left /\ d + len <= BaseSize
             /\ pos + len \in Nat /\ left - len \in Nat
             /\ left - len > 0 => /\ (pos + len) \div BaseSize = q + 1
                                  /\ (pos + len) % BaseSize = 0
<1> DEFINE d == pos % BaseSize
           q == pos \div BaseSize
           len == Smaller(left, BaseSize) - d
<1>1. BaseSize \in Nat \ {0} /\ BaseSize \in Nat /\ BaseSize > 0
  BY BaseFacts
<1>2. q \in Nat /\ d \in 0..(BaseSize - 1) /\ BaseSize * q + d = pos
  BY BlockOf
<1>3. d = 0 \/ left >= BaseSize
  OBVIOUS
<1> HIDE DEF d, q
<1>4. d \in Nat /\ d < BaseSize
  BY <1>1, <1>2
<1>5. /\ len \in Nat /\ len > 0 /\ len <= left /\ d + len <= BaseSize
      /\ (len < left => d + len = BaseSize)
  BY <1>1, <1>3, <1>4 DEF Smaller
<1> HIDE DEF len
<1>6. pos + len \in Nat /\ left - len \in Nat
  BY <1>5
<1>7. ASSUME left - len > 0
      PROVE  (pos + len) \div BaseSize = q + 1 /\ (pos + len) % BaseSize = 0
  <2> DEFINE x == pos + len
             y == q + 1
  <2>1. d + len = BaseSize
    BY <1>5, <1>7
  <2>2. BaseSize * y = BaseSize * q + BaseSize /\ BaseSize * q \in Nat
    BY <1>1, <1>2
  <2>3. y \in Nat /\ x \in Nat /\ x = BaseSize * y + 0 /\ 0 \in 0..(BaseSize - 1)
    BY <1>1, <1>2, <1>4, <1>5, <2>1, <2>2
  <2> HIDE DEF x, y
  <2>4. x \div BaseSize = y /\ x % BaseSize = 0
    BY <1>1, <2>3, DivUnique
  <2>5. QED BY <2>4 DEF x, y
<1>8. QED BY <1>2, <1>4, <1>5, <1>6, <1>7 DEF d, q, len

LEMMA FileStepIs ==
  ASSUME NEW a, Good(a), NEW f \in FileSoFar(a)
  PROVE  /\ FileStep(a, f) \in FileSoFar(a)
         /\ f.left = 0 => FileStep(a, f).left = 0
         /\ f.left > 0 => FileStep(a, f).left < f.left
<1>0. /\ f.left \in Nat /\ f.pos \in Nat /\ f.left + f.pos = a.size /\ a.position <= f.pos
      /\ f.out \in Seq(Byte) /\ f.out = Slice(a, a.position, f.pos - a.position)
      /\ f.left > 0 => /\ f.node = CurAt(a, f.pos)
                       /\ f.pos % BaseSize = 0 \/ f.left >= BaseSize
  BY DEF FileSoFar
<1>1. CASE f.left = 0
  <2>1. FileStep(a, f) = f
    BY <1>1 DEF FileStep
  <2>2. QED BY <1>1, <2>1
<1>2. CASE f.left > 0
  <2> DEFINE p == a.position
             x == f.pos
             y == f.left
             q == x \div BaseSize
             d == x % BaseSize
             len == Smaller(y, BaseSize) - d
             g == FileStep(a, f)
             pos == x + len
             left == y - len
             node == NextNode(a, f.node)
             part == SubSeq(a.mem[f.node], d + 1, d + len)
  <2>1. /\ BaseSize \in Nat /\ BaseSize > 0 /\ p \in Nat /\ a.size \in Nat /\ a.capacity \in Nat
        /\ Len(a.mem) \in Nat /\ a.capacity = BaseSize * Len(a.mem) /\ a.size <= a.capacity
    BY BaseFacts, GoodFacts
  <2>2. x \in Nat /\ y \in Nat /\ y > 0 /\ y + x = a.size /\ p <= x
        /\ (x % BaseSize = 0 \/ y >= BaseSize) /\ f.node = CurAt(a, x)
        /\ f.out = Slice(a, p, x - p)
    BY <1>0, <1>2
  <2>3. len > 0 /\ len \in Nat /\ f.node # Null
        => g = [left |-> left, pos |-> pos, node |-> node, out |-> f.out \o part]
    <3> SUFFICES ASSUME len > 0, len \in Nat, f.node # Null
                 PROVE  g = [left |-> left, pos |-> pos, node |-> node, out |-> f.out \o part]
      OBVIOUS
    <3>1. ~(len <= 0) /\ f.left # 0
      BY <1>0, <1>2
    <3>2. QED BY <3>1 DEF FileStep
  <2> HIDE DEF x, y, p, g, part
  <2>4. /\ q \in Nat /\ d \in Nat /\ BaseSize * q + d = x
        /\ len \in Nat /\ len > 0 /\ len <= y /\ d + len <= BaseSize
        /\ pos \in Nat /\ left \in Nat
        /\ left > 0 => pos \div BaseSize = q + 1 /\ pos % BaseSize = 0
    BY <2>2, PartLength
  <2>5. x < a.size /\ x < BaseSize * Len(a.mem) /\ x # a.capacity
    BY <2>1, <2>2
  <2>6. q < Len(a.mem)
    BY <2>1, <2>2, <2>5, BlockOf
  <2>7. f.node = q + 1
    BY <2>2, <2>5 DEF CurAt
  <2> HIDE DEF q, d, len
  <2>8. f.node # Null
    BY <2>7, <2>4 DEF Null
  <2>9. part = Slice(a, x, len)
    <3>1. SubSeq(a.mem[q + 1], d + 1, d + len) = Slice(a, x, len)
      BY <2>2, <2>6, <2>4, PartOfBlock
    <3>2. QED BY <2>7, <3>1 DEF part
  <2>10. left < y /\ left + pos = a.size /\ p <= pos
    BY <2>1, <2>2, <2>4
  <2>11. f.out \o part = Slice(a, p, pos - p)
    <3> DEFINE k == x - p
    <3>1. k \in Nat /\ p + k = x /\ p + k + len <= a.capacity /\ k + len = pos - p
      BY <2>1, <2>2, <2>4
    <3> HIDE DEF k
    <3>2. Slice(a, p, k) \o Slice(a, p + k, len) = Slice(a, p, k + len)
      <4>1. p \in Nat /\ k \in Nat /\ len \in Nat /\ p + k + len <= a.capacity
        BY <2>1, <2>4, <3>1
      <4>2. QED BY <4>1, SliceJoin
    <3>3. f.out = Slice(a, p, k)
      BY <2>2 DEF k
    <3>4. QED BY <2>9, <3>1, <3>2, <3>3
  <2> HIDE DEF pos, left
  <2>12. f.out \o part \in Seq(Byte)
    <3>1. pos - p \in Nat /\ p + (pos - p) <= a.capacity
      BY <2>1, <2>4, <2>10
    <3>2. QED BY <2>1, <2>11, <3>1, SliceType
  <2>13. node \in Nat
    BY <2>1, <2>7, <2>4 DEF NextNode, Null
  <2>14. ASSUME left > 0 PROVE node = CurAt(a, pos) /\ pos % BaseSize = 0
    <3>1. pos \div BaseSize = q + 1 /\ pos % BaseSize = 0
      BY <2>4, <2>14
    <3>2. pos < a.size /\ pos < BaseSize * Len(a.mem) /\ pos # a.capacity
      BY <2>1, <2>4, <2>10, <2>14
    <3>3. q + 1 < Len(a.mem)
      BY <2>1, <2>4, <3>1, <3>2, BlockOf
    <3>4. node = (q + 1) + 1
      BY <2>7, <3>3 DEF NextNode
    <3>5. QED BY <3>1, <3>2, <3>4 DEF CurAt
  <2>15. g = [left |-> left, pos |-> pos, node |-> node, out |-> f.out \o part]
    BY <2>8, <2>4, <2>3
  <2> HIDE DEF node
  <2>16. g \in [left : Nat, pos : Nat, node : Nat, out : Seq(Byte)]
    BY <2>4, <2>12, <2>13, <2>15
  <2>17. g.left = left /\ g.pos = pos /\ g.node = node /\ g.out = f.out \o part
    BY <2>15
  <2>18. g \in FileSoFar(a)
    BY <2>10, <2>11, <2>14, <2>16, <2>17 DEF FileSoFar, p
  <2>19. g.left < f.left
    BY <2>10, <2>17 DEF y
  <2>20. QED BY <1>2, <2>18, <2>19 DEF g
<1>3. QED BY <1>0, <1>1, <1>2

LEMMA WriteToFileIs ==
  ASSUME NEW a, Good(a), a.position % BaseSize = 0 \/ a.size - a.position >= BaseSize
  PROVE  WriteToFile(a) = Slice(a, a.position, a.size - a.position)
<1> DEFINE p == a.position
           n == a.size - p
           S == FileSoFar(a)
           init == [left |-> n, pos |-> p, node |-> a.cur, out |-> <<>>]
           step == [i \in Nat |-> [x \in S |-> FileStep(a, x)]]
           IsFile(w) == w = [i \in 0..n |-> IF i = 0 THEN [left |-> n, pos |-> p, node |-> a.cur,
                                                           out |-> <<>>]
                                            ELSE FileStep(a, w[i - 1])]
           w == CHOOSE f : IsFile(f)
<1>0. n \in Nat /\ p \in Nat /\ a.size \in Nat /\ n + p = a.size /\ p - p = 0 /\ a.cur \in Nat
      /\ a.cur = CurAt(a, p)
  BY GoodFacts
<1>1. init \in S
  <2>1. init \in [left : Nat, pos : Nat, node : Nat, out : Seq(Byte)]
    BY <1>0
  <2>2. Slice(a, p, 0) = <<>>
    BY SliceEmpty
  <2>3. QED BY <1>0, <2>1, <2>2 DEF FileSoFar
<1>2. step \in [Nat -> [S -> S]] /\ \A i \in Nat, x \in S : step[i][x] = FileStep(a, x)
  BY FileStepIs
<1> HIDE DEF step, S, n, p
<1>3. PICK f : IterationTo(f, n, S, init, step)
  <2> HIDE DEF init
  <2> QED BY <1>0, <1>1, <1>2, IterateTo, Zenon
<1>4. f \in [0..n -> S] /\ f = [i \in 0..n |-> IF i = 0 THEN init ELSE step[i - 1][f[i - 1]]]
  BY <1>3 DEF IterationTo
<1>5. ASSUME NEW i \in 0..n, i # 0 PROVE step[i - 1][f[i - 1]] = FileStep(a, f[i - 1])
  <2>1. i - 1 \in Nat /\ i - 1 \in 0..n
    BY <1>0, <1>5
  <2>2. QED BY <1>2, <1>4, <2>1
<1>6. IsFile(f)
  BY <1>4, <1>5
<1>7. IsFile(w)
  BY <1>6
<1>8. WriteToFile(a) = w[n].out
  BY Zenon DEF WriteToFile, n, p
<1> HIDE DEF w
<1> DEFINE T == {i \in Nat : i <= n => w[i] \in S /\ (w[i].left = 0 \/ w[i].left <= n - i)}
<1>9. 0 \in T
  <2>1. w[0] = init
    BY <1>0, <1>7
  <2>2. w[0].left = n
    BY <2>1
  <2> HIDE DEF init
  <2>3. QED BY <1>0, <1>1, <2>1, <2>2
<1>10. ASSUME NEW i \in Nat, i \in T PROVE i + 1 \in T
  <2> SUFFICES ASSUME i + 1 <= n
               PROVE  w[i + 1] \in S /\ (w[i + 1].left = 0 \/ w[i + 1].left <= n - (i + 1))
    OBVIOUS
  <2>1. i <= n /\ i + 1 \in 0..n /\ i + 1 # 0 /\ (i + 1) - 1 = i
    BY <1>0
  <2>2. w[i] \in S /\ (w[i].left = 0 \/ w[i].left <= n - i)
    BY <1>10, <2>1
  <2>3. w[i + 1] = FileStep(a, w[i])
    <3>1. w[i + 1] = FileStep(a, w[(i + 1) - 1])
      BY <1>7, <2>1
    <3>2. QED BY <2>1, <3>1
  <2>4. /\ w[i + 1] \in S
        /\ w[i].left = 0 => w[i + 1].left = 0
        /\ w[i].left > 0 => w[i + 1].left < w[i].left
    BY <2>2, <2>3, FileStepIs DEF S
  <2>5. w[i].left \in Nat /\ w[i + 1].left \in Nat
    BY <2>2, <2>4 DEF S, FileSoFar
  <2>6. QED BY <1>0, <2>2, <2>4, <2>5
<1>11. \A i \in Nat : i \in T
  <2> HIDE DEF T
  <2> QED BY <1>9, <1>10, Induction
<1>12. w[n] \in S /\ (w[n].left = 0 \/ w[n].left <= n - n)
  BY <1>0, <1>11
<1>13. /\ w[n].left \in Nat /\ w[n].pos \in Nat /\ w[n].left + w[n].pos = a.size
       /\ w[n].out = Slice(a, p, w[n].pos - p)
  BY <1>12 DEF S, FileSoFar, p
<1>14. w[n].pos - p = n
  BY <1>0, <1>12, <1>13
<1>15. QED BY <1>8, <1>13, <1>14 DEF n, p

\* The views of the bytes from position q on, when the block is right.
LEMMA PeekIs ==
  ASSUME NEW a, Good(a), NEW q \in Nat, NEW n \in Nat, q + n <= a.size, NEW node,
         n > 0 => node = (q \div BaseSize) + 1
  PROVE  /\ Peek(a, Addresses(a, node, q % BaseSize, n)) = SubSeq(ContentsOf(a), q + 1, q + n)
         /\ n = 0 => SubSeq(ContentsOf(a), q + 1, q + n) = <<>>
<1>0. a.size \in Nat /\ a.capacity \in Nat /\ a.size <= a.capacity
  BY GoodFacts
<1>1. q + n <= a.capacity
  BY <1>0
<1>2. Peek(a, Addresses(a, node, q % BaseSize, n)) = Slice(a, q, n)
  BY <1>1, AddressesAre
<1>3. SubSeq(ContentsOf(a), q + 1, q + n) = Slice(a, q, n)
  BY ContentsFacts
<1>4. QED BY <1>2, <1>3, SliceEmpty

LEMMA ViewsOf ==
  ASSUME Good(ba)
  PROVE  ViewsAgree
<1> DEFINE p == ba.position
           left == ba.size - p
<1>0. /\ p \in Nat /\ ba.size \in Nat /\ left \in Nat /\ p + left = ba.size /\ ba.capacity \in Nat
      /\ ba.size <= ba.capacity /\ ba.cur = CurAt(ba, p) /\ Contents = ContentsOf(ba)
  BY GoodFacts DEF Contents
<1>1. ASSUME NEW n \in Nat, n > 0, n <= left PROVE ba.cur = (p \div BaseSize) + 1
  BY <1>0, <1>1 DEF CurAt
<1> HIDE DEF p, left
<1>2. ASSUME NEW n \in Nat
      PROVE  /\ Smaller(n, left) \in Nat /\ p + Smaller(n, left) <= ba.size
             /\ Smaller(n, left) <= left
  BY <1>0 DEF Smaller
<1>3. AsString(ba) = SubSeq(Contents, p + 1, p + left)
  <2>1. left > 0 => ba.cur = (p \div BaseSize) + 1
    BY <1>0, <1>1
  <2>2. /\ Peek(ba, Addresses(ba, ba.cur, p % BaseSize, left)) = SubSeq(ContentsOf(ba), p + 1, p + left)
        /\ left = 0 => SubSeq(ContentsOf(ba), p + 1, p + left) = <<>>
    BY <1>0, <2>1, PeekIs
  <2>3. ba.size = p <=> left = 0
    BY <1>0
  <2>4. QED BY <1>0, <2>2, <2>3 DEF AsString, p, left
<1>4. ASSUME NEW n \in Nat
      PROVE  GetReadBuffers(ba, n) = SubSeq(Contents, p + 1, p + Smaller(n, left))
  <2> DEFINE k == Smaller(n, left)
  <2>0. k \in Nat /\ p + k <= ba.size /\ k <= left
    BY <1>2
  <2> HIDE DEF k
  <2>1. k > 0 => ba.cur = (p \div BaseSize) + 1
    BY <1>1, <2>0
  <2>2. /\ Peek(ba, Addresses(ba, ba.cur, p % BaseSize, k)) = SubSeq(ContentsOf(ba), p + 1, p + k)
        /\ k = 0 => SubSeq(ContentsOf(ba), p + 1, p + k) = <<>>
    BY <1>0, <2>0, <2>1, PeekIs
  <2>3. GetReadBuffers(ba, n) = IF k = 0 THEN <<>>
                                ELSE Peek(ba, Addresses(ba, ba.cur, p % BaseSize, k))
    BY DEF GetReadBuffers, p, left, k
  <2>4. QED BY <1>0, <2>2, <2>3 DEF k
<1>5. ASSUME NEW q \in 0..ba.size, NEW n \in Nat, q = p \/ (n <= left /\ q + n <= ba.size)
      PROVE  GetReadBuffersAt(ba, n, q) = SubSeq(Contents, q + 1, q + Smaller(n, ba.size - q))
  <2> DEFINE k == Smaller(n, left)
             count == q \div BaseSize
             node == IF count < Len(ba.mem) THEN count + 1 ELSE Null
  <2>0. /\ k \in Nat /\ p + k <= ba.size /\ q \in Nat /\ q + k <= ba.size
        /\ k = Smaller(n, ba.size - q)
    BY <1>0, <1>2, <1>5 DEF Smaller, left
  <2> HIDE DEF k
  <2>1. k > 0 => node = (q \div BaseSize) + 1
    <3>1. k > 0 => q < ba.capacity
      BY <1>0, <2>0
    <3>2. ba.capacity = BaseSize * Len(ba.mem) /\ Len(ba.mem) \in Nat
      BY GoodFacts
    <3>3. k > 0 => count < Len(ba.mem)
      BY <2>0, <3>1, <3>2, BlockOf
    <3>4. QED BY <3>3
  <2> HIDE DEF node
  <2>2. /\ Peek(ba, Addresses(ba, node, q % BaseSize, k)) = SubSeq(ContentsOf(ba), q + 1, q + k)
        /\ k = 0 => SubSeq(ContentsOf(ba), q + 1, q + k) = <<>>
    BY <2>0, <2>1, PeekIs
  <2>3. GetReadBuffersAt(ba, n, q) = IF k = 0 THEN <<>>
                                     ELSE Peek(ba, Addresses(ba, node, q % BaseSize, k))
    BY DEF GetReadBuffersAt, p, left, k, node
  <2>4. QED BY <1>0, <2>0, <2>2, <2>3
<1>6. p % BaseSize = 0 \/ left >= BaseSize => WriteToFile(ba) = SubSeq(Contents, p + 1, p + left)
  <2>1. SubSeq(ContentsOf(ba), p + 1, p + left) = Slice(ba, p, left)
    <3>1. p + left <= ba.size
      BY <1>0
    <3>2. QED BY <1>0, <3>1, ContentsFacts
  <2>2. p % BaseSize = 0 \/ left >= BaseSize => WriteToFile(ba) = Slice(ba, p, left)
    BY WriteToFileIs DEF p, left
  <2>3. QED BY <1>0, <2>1, <2>2
<1>7. Sizes \subseteq Nat
  BY ByteArrayAssumption
<1>8. QED BY <1>3, <1>4, <1>5, <1>6, <1>7 DEF ViewsAgree, p, left

\* toString, both getReadBuffers and writeToFile show the readable bytes, with
\* the exceptions ViewsAgree states, in every state and for every block size.
THEOREM ViewsAlwaysAgree == Spec => []ViewsAgree
<1>1. IInv => ViewsAgree
  BY ViewsOf DEF IInv
<1>2. QED BY <1>1, IInvAlways, PTL
=============================================================================
