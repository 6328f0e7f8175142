------------------------- MODULE BasicColumnProofs -------------------------
(***************************************************************************)
(* What a reader makes of a column of fixed-size values is what the server *)
(* had, for any byte base, calendar, zones, values and sizes of a batch.   *)
(*                                                                         *)
(* Three facts about numbers carry the proof: the bytes of a number, taken *)
(* as digits, add up to it (BytesUnsigned); digits of a mixed radix, such  *)
(* as a packed moment's fields, are found again in their sum (MixedRadix); *)
(* and an instant is its years, months, days, hours, minutes, seconds and  *)
(* milliseconds (ClockDigits).  A value then survives being written and    *)
(* read (CellRead), and a row of a batch is such a value (RowsInv).  What  *)
(* adds up along a sequence is shown by its least counterexample.          *)
(***************************************************************************)
EXTENDS BasicColumn, SequenceTheorems, WellFoundedInduction, TLAPS

-----------------------------------------------------------------------------
(* A set of numbers that is not empty has a least one.                     *)
LEMMA LeastNumber ==
  ASSUME NEW S \in SUBSET Nat, S # {}
  PROVE  \E n \in S : \A m \in S : n <= m
<1>1. PICK n \in S : \A m \in S : ~(<<m, n>> \in OpToRel(<, Nat))
  BY NatLessThanWellFounded, WFMin
<1>2. \A m \in S : ~(m < n)
  BY <1>1 DEF OpToRel
<1>3. QED
  BY <1>2

-----------------------------------------------------------------------------
(* A product of positive numbers is positive.                              *)
LEMMA Product ==
  ASSUME NEW a \in Nat \ {0}, NEW b \in Nat \ {0}
  PROVE  a * b \in Nat \ {0}
OBVIOUS

(* A quotient is a number, a remainder is below the divisor.               *)
LEMMA Divided ==
  ASSUME NEW n \in Int, NEW m \in Nat \ {0}
  PROVE  n \div m \in Int /\ n % m \in 0 .. m - 1
OBVIOUS

(* Quotient and remainder make up the number.                              *)
LEMMA DividedSum ==
  ASSUME NEW n \in Int, NEW m \in Nat \ {0}
  PROVE  n = (n \div m) * m + (n % m)
OBVIOUS

(* No other quotient and remainder do.                                     *)
LEMMA DivisionUnique ==
  ASSUME NEW m \in Nat \ {0}, NEW q \in Int, NEW r \in 0 .. m - 1
  PROVE  (q * m + r) \div m = q /\ (q * m + r) % m = r
OBVIOUS

(* Dividing twice is dividing by the product.                              *)
LEMMA DividedTwice ==
  ASSUME NEW n \in Int, NEW a \in Nat \ {0}, NEW b \in Nat \ {0}
  PROVE  (n \div a) \div b = n \div (a * b)
OBVIOUS

(* The digit of a number in a mixed radix, and what is below it.           *)
LEMMA DigitAbove ==
  ASSUME NEW n \in Int, NEW a \in Nat \ {0}, NEW b \in Nat \ {0}
  PROVE  n % (a * b) = ((n \div a) % b) * a + (n % a)
<1> DEFINE q == n \div a
           r == n % a
           p == q \div b
           d == q % b
<1>1. q \in Int /\ r \in 0 .. a - 1 /\ p \in Int /\ d \in 0 .. b - 1 /\ a * b \in Nat \ {0}
  BY Divided, Product
<1>2. n = q * a + r /\ q = p * b + d
  BY DividedSum, <1>1
<1> HIDE DEF q, r, p, d
<1>3. q * a = p * (a * b) + d * a
  BY <1>1, <1>2
<1>4. d * a <= (b - 1) * a /\ 0 <= d * a /\ (b - 1) * a = a * b - a
  BY <1>1
<1>5. d * a \in Int /\ d * a + r \in 0 .. a * b - 1
  BY <1>1, <1>4
<1>6. n = p * (a * b) + (d * a + r)
  BY <1>1, <1>2, <1>3, <1>5
<1>7. n % (a * b) = d * a + r
  BY <1>1, <1>5, <1>6, DivisionUnique
<1> QED
  BY <1>7 DEF q, r, p, d

-----------------------------------------------------------------------------
(* The sums of a function's first values, one after the other, exist.      *)
LEMMA SumsExist ==
  ASSUME NEW n \in Nat, NEW f \in [1 .. n -> Int]
  PROVE  \E g : g = [i \in 0 .. n |-> IF i = 0 THEN 0 ELSE g[i - 1] + f[i]]
<1> DEFINE Step(g, m) == [i \in 0 .. m |-> IF i = 0 THEN 0 ELSE g[i - 1] + f[i]]
           wrong == {m \in 0 .. n : ~\E g : g = Step(g, m)}
<1>1. wrong = {}
  <2> SUFFICES ASSUME wrong # {} PROVE FALSE
    OBVIOUS
  <2>1. wrong \in SUBSET Nat
    <3> HIDE DEF Step
    <3> QED
      OBVIOUS
  <2> HIDE DEF wrong
  <2>2. PICK m \in wrong : \A k \in wrong : m <= k
    BY <2>1, LeastNumber
  <2> USE DEF wrong
  <2>3. m \in 0 .. n /\ ~\E g : g = Step(g, m)
    BY <2>2
  <2>4. CASE m = 0
    <3> DEFINE zero == [i \in 0 .. 0 |-> 0]
    <3>1. \A i \in 0 .. 0 : i = 0
      OBVIOUS
    <3>2. zero = Step(zero, 0)
      BY <3>1
    <3> QED
      BY <2>3, <2>4, <3>2
  <2>5. CASE m # 0
    <3>1. m - 1 \in 0 .. n /\ m - 1 \notin wrong
      <4> HIDE DEF wrong, Step
      <4>1. n \in Nat /\ m \in 0 .. n /\ m # 0 /\ \A k \in wrong : m <= k
        BY <2>2, <2>3, <2>5
      <4> QED
        BY <4>1
    <3>2. PICK h : h = Step(h, m - 1)
      BY <3>1
    <3> DEFINE g == [i \in 0 .. m |-> IF i = m THEN h[m - 1] + f[m] ELSE h[i]]
    <3>3. ASSUME NEW i \in 0 .. m PROVE g[i] = IF i = 0 THEN 0 ELSE g[i - 1] + f[i]
      <4>1. CASE i = m
        <5>1. i - 1 \in 0 .. m /\ i - 1 # m
          BY <2>3, <2>5, <4>1
        <5>2. g[i - 1] = h[m - 1]
          BY <4>1, <5>1
        <5> QED
          BY <2>5, <4>1, <5>2
      <4>2. CASE i # m
        <5>1. i \in 0 .. (m - 1)
          BY <2>3, <4>2
        <5>2. h[i] = IF i = 0 THEN 0 ELSE h[i - 1] + f[i]
          BY <3>2, <5>1
        <5>3. i # 0 => i - 1 \in 0 .. m /\ i - 1 # m
          BY <2>3
        <5> QED
          BY <4>2, <5>2, <5>3
      <4> QED
        BY <4>1, <4>2
    <3>4. g = Step(g, m)
      BY <3>3
    <3> QED
      BY <2>3, <3>4
  <2> QED
    BY <2>4, <2>5
<1>2. n \in 0 .. n
  OBVIOUS
<1> QED
  BY <1>1, <1>2

(* Those sums are numbers, each a value more than the one before it.       *)
LEMMA SumsAdd ==
  ASSUME NEW n \in Nat, NEW f \in [1 .. n -> Int], NEW g,
         g = [i \in 0 .. n |-> IF i = 0 THEN 0 ELSE g[i - 1] + f[i]]
  PROVE  /\ g[0] = 0
         /\ \A i \in 1 .. n : g[i] = g[i - 1] + f[i]
         /\ \A i \in 0 .. n : g[i] \in Int
<1> DEFINE wrong == {i \in 0 .. n : g[i] \notin Int}
<1>1. \A i \in 0 .. n : g[i] = IF i = 0 THEN 0 ELSE g[i - 1] + f[i]
  OBVIOUS
<1>2. g[0] = 0 /\ \A i \in 1 .. n : g[i] = g[i - 1] + f[i]
  BY <1>1
<1>3. wrong = {}
  <2> SUFFICES ASSUME wrong # {} PROVE FALSE
    OBVIOUS
  <2>1. PICK i \in wrong : \A j \in wrong : i <= j
    <3>1. wrong \in SUBSET Nat
      OBVIOUS
    <3> QED
      BY <3>1, LeastNumber
  <2>2. i # 0 /\ i \in 1 .. n
    BY <1>2, <2>1
  <2>3. i - 1 \in 0 .. n /\ i - 1 \notin wrong
    BY <2>1, <2>2
  <2> QED
    BY <1>2, <2>1, <2>2, <2>3
<1> QED
  BY <1>2, <1>3

(* The powers of a byte's values.                                          *)
LEMMA PowerFacts ==
  /\ Power[0] = 1
  /\ \A i \in 1 .. 8 : Power[i] = ByteBase * Power[i - 1]
  /\ \A i \in 0 .. 8 : Power[i] \in Nat \ {0}
<1> DEFINE p1 == ByteBase * 1
           p2 == ByteBase * p1
           p3 == ByteBase * p2
           p4 == ByteBase * p3
           p5 == ByteBase * p4
           p6 == ByteBase * p5
           p7 == ByteBase * p6
           p8 == ByteBase * p7
           Step(g) == [n \in 0 .. 8 |-> IF n = 0 THEN 1 ELSE ByteBase * g[n - 1]]
           powers == [n \in 0 .. 8 |-> IF n = 0 THEN 1 ELSE IF n = 1 THEN p1 ELSE IF n = 2 THEN p2
                        ELSE IF n = 3 THEN p3 ELSE IF n = 4 THEN p4 ELSE IF n = 5 THEN p5
                        ELSE IF n = 6 THEN p6 ELSE IF n = 7 THEN p7 ELSE p8]
<1>1. Power = CHOOSE g : g = Step(g)
  BY DEF Power
<1>2. powers = Step(powers)
  <2> SUFFICES ASSUME NEW n \in 0 .. 8 PROVE powers[n] = IF n = 0 THEN 1 ELSE ByteBase * powers[n - 1]
    OBVIOUS
  <2>1. n = 0 \/ n = 1 \/ n = 2 \/ n = 3 \/ n = 4 \/ n = 5 \/ n = 6 \/ n = 7 \/ n = 8
    OBVIOUS
  <2>2. 1 - 1 = 0 /\ 2 - 1 = 1 /\ 3 - 1 = 2 /\ 4 - 1 = 3 /\ 5 - 1 = 4 /\ 6 - 1 = 5 /\ 7 - 1 = 6 /\ 8 - 1 = 7
    OBVIOUS
  <2>3. /\ powers[0] = 1 /\ powers[1] = p1 /\ powers[2] = p2 /\ powers[3] = p3 /\ powers[4] = p4
        /\ powers[5] = p5 /\ powers[6] = p6 /\ powers[7] = p7 /\ powers[8] = p8
    <3> HIDE DEF p1, p2, p3, p4, p5, p6, p7, p8
    <3> QED
      OBVIOUS
  <2>4. /\ p1 = ByteBase * 1 /\ p2 = ByteBase * p1 /\ p3 = ByteBase * p2 /\ p4 = ByteBase * p3
        /\ p5 = ByteBase * p4 /\ p6 = ByteBase * p5 /\ p7 = ByteBase * p6 /\ p8 = ByteBase * p7
    OBVIOUS
  <2> HIDE DEF powers, p1, p2, p3, p4, p5, p6, p7, p8
  <2> QED
    BY <2>1, <2>2, <2>3, <2>4
<1>3. Power = Step(Power)
  BY <1>1, <1>2
<1>4. Power[0] = 1 /\ \A i \in 1 .. 8 : Power[i] = ByteBase * Power[i - 1]
  <2>1. \A n \in 0 .. 8 : Power[n] = IF n = 0 THEN 1 ELSE ByteBase * Power[n - 1]
    BY <1>3, Zenon
  <2> QED
    BY <2>1
<1>5. ByteBase \in Nat \ {0}
  BY BytesAssumption
<1>6. /\ Power[1] = ByteBase * Power[0] /\ Power[2] = ByteBase * Power[1] /\ Power[3] = ByteBase * Power[2]
      /\ Power[4] = ByteBase * Power[3] /\ Power[5] = ByteBase * Power[4] /\ Power[6] = ByteBase * Power[5]
      /\ Power[7] = ByteBase * Power[6] /\ Power[8] = ByteBase * Power[7]
  BY <1>4
<1>7. Power[0] \in Nat \ {0}
  BY <1>4
<1>8. Power[1] \in Nat \ {0}
  BY <1>5, <1>6, <1>7, Product
<1>9. Power[2] \in Nat \ {0}
  BY <1>5, <1>6, <1>8, Product
<1>10. Power[3] \in Nat \ {0}
  BY <1>5, <1>6, <1>9, Product
<1>11. Power[4] \in Nat \ {0}
  BY <1>5, <1>6, <1>10, Product
<1>12. Power[5] \in Nat \ {0}
  BY <1>5, <1>6, <1>11, Product
<1>13. Power[6] \in Nat \ {0}
  BY <1>5, <1>6, <1>12, Product
<1>14. Power[7] \in Nat \ {0}
  BY <1>5, <1>6, <1>13, Product
<1>15. Power[8] \in Nat \ {0}
  BY <1>5, <1>6, <1>14, Product
<1> QED
  BY <1>4, <1>7, <1>8, <1>9, <1>10, <1>11, <1>12, <1>13, <1>14, <1>15

(* But for the first they are even.                                        *)
LEMMA PowerEven ==
  ASSUME NEW i \in 1 .. 8
  PROVE  /\ \E h \in Nat \ {0} : Power[i] = 2 * h
         /\ 2 * (Power[i] \div 2) = Power[i] /\ Power[i] \div 2 \in Nat \ {0}
<1> DEFINE half == ByteBase \div 2
<1>1. ByteBase = 2 * half /\ half \in Nat \ {0}
  BY BytesAssumption
<1>2. Power[i] = ByteBase * Power[i - 1] /\ Power[i - 1] \in Nat \ {0}
  BY PowerFacts
<1> HIDE DEF half
<1>3. half * Power[i - 1] \in Nat \ {0}
  BY <1>1, <1>2, Product
<1>4. Power[i] = 2 * (half * Power[i - 1])
  BY <1>1, <1>2
<1> QED
  BY <1>3, <1>4

(* Four bytes hold at least what fewer of them hold.                       *)
LEMMA PowersGrow ==
  ASSUME NEW i \in 1 .. 4
  PROVE  Power[i] <= Power[4]
<1>1. ASSUME NEW j \in 1 .. 3 PROVE Power[j] <= Power[j + 1]
  <2>1. Power[j + 1] = ByteBase * Power[j] /\ Power[j] \in Nat \ {0} /\ ByteBase \in Nat \ {0}
    BY PowerFacts, BytesAssumption
  <2> QED
    BY <2>1
<1>2. Power[1] <= Power[2] /\ Power[2] <= Power[3] /\ Power[3] <= Power[4]
  BY <1>1
<1>3. Power[1] \in Int /\ Power[2] \in Int /\ Power[3] \in Int /\ Power[4] \in Int
  BY PowerFacts
<1> QED
  BY <1>2, <1>3

-----------------------------------------------------------------------------
(* The bytes of a number are its digits.                                   *)
LEMMA BytesFacts ==
  ASSUME NEW n \in Int, NEW size \in 0 .. 8
  PROVE  /\ Bytes(n, size) \in Seq(Int) /\ Len(Bytes(n, size)) = size
         /\ \A i \in 1 .. size : Bytes(n, size)[i] = (n \div Power[i - 1]) % ByteBase
         /\ \A i \in 1 .. size : Bytes(n, size)[i] \in 0 .. ByteBase - 1
<1>1. ASSUME NEW i \in 1 .. size
      PROVE (n \div Power[i - 1]) % ByteBase \in 0 .. ByteBase - 1
  <2>1. Power[i - 1] \in Nat \ {0} /\ ByteBase \in Nat \ {0}
    BY PowerFacts, BytesAssumption
  <2> QED
    BY <2>1, Divided
<1>2. Bytes(n, size) \in [1 .. size -> Int]
  BY <1>1, BytesAssumption DEF Bytes
<1>3. Bytes(n, size) \in Seq(Int) /\ Len(Bytes(n, size)) = size
  BY <1>2, SeqDef, LenProperties
<1> QED
  BY <1>1, <1>3 DEF Bytes

(* Bytes read as an unsigned number are the number, as far as they reach.  *)
LEMMA BytesUnsigned ==
  ASSUME NEW n \in Int, NEW size \in 0 .. 8
  PROVE  Unsigned(Bytes(n, size)) = n % Power[size]
<1> DEFINE bs == Bytes(n, size)
           f == [i \in 1 .. size |-> bs[i] * Power[i - 1]]
           Step(g) == [i \in 0 .. Len(bs) |-> IF i = 0 THEN 0 ELSE g[i - 1] + bs[i] * Power[i - 1]]
           Plain(g) == [i \in 0 .. size |-> IF i = 0 THEN 0 ELSE g[i - 1] + f[i]]
           sum == CHOOSE g : g = Step(g)
           wrong == {i \in 0 .. size : sum[i] # n % Power[i]}
<1>1. Unsigned(bs) = sum[Len(bs)]
  BY DEF Unsigned
<1>2. /\ bs \in Seq(Int) /\ Len(bs) = size
      /\ \A i \in 1 .. size : bs[i] = (n \div Power[i - 1]) % ByteBase
      /\ \A i \in 1 .. size : bs[i] \in Int
  <2>1. /\ bs \in Seq(Int) /\ Len(bs) = size
        /\ \A i \in 1 .. size : bs[i] = (n \div Power[i - 1]) % ByteBase
    BY BytesFacts, Zenon
  <2>2. \A i \in 1 .. size : bs[i] \in 0 .. ByteBase - 1
    BY BytesFacts, Zenon
  <2> HIDE DEF bs
  <2>3. \A i \in 1 .. size : bs[i] \in Int
    BY <2>2, BytesAssumption
  <2> QED
    BY <2>1, <2>3
<1> HIDE DEF bs
<1>3. f \in [1 .. size -> Int]
  <2> SUFFICES ASSUME NEW i \in 1 .. size PROVE bs[i] * Power[i - 1] \in Int
    OBVIOUS
  <2>1. i - 1 \in 0 .. 8
    OBVIOUS
  <2>2. Power[i - 1] \in Int
    BY <2>1, PowerFacts
  <2>3. bs[i] \in Int
    BY <1>2, Zenon
  <2> QED
    BY <2>2, <2>3
<1>4. ASSUME NEW g PROVE Step(g) = Plain(g)
  BY <1>2
<1>5. \E g : g = Step(g)
  <2> HIDE DEF f
  <2>1. \E g : g = Plain(g)
    BY <1>3, SumsExist
  <2> QED
    BY <2>1, <1>4
<1>6. sum = Plain(sum)
  <2> HIDE DEF Plain, Step
  <2>1. \E g : g = Step(g)
    BY <1>5 DEF Step
  <2>2. sum = Step(sum)
    BY <2>1
  <2> HIDE DEF sum
  <2>3. Step(sum) = Plain(sum)
    BY <1>4 DEF Plain, Step
  <2> QED
    BY <2>2, <2>3
<1> HIDE DEF sum
<1>7. sum[0] = 0 /\ \A i \in 1 .. size : sum[i] = sum[i - 1] + f[i]
  <2> HIDE DEF f
  <2> QED
    BY <1>3, <1>6, SumsAdd
<1>8. sum[0] = n % Power[0]
  BY <1>7, PowerFacts
<1>9. ASSUME NEW i \in 1 .. size, sum[i - 1] = n % Power[i - 1] PROVE sum[i] = n % Power[i]
  <2>1. Power[i - 1] \in Nat \ {0} /\ ByteBase \in Nat \ {0} /\ Power[i] = ByteBase * Power[i - 1]
    BY PowerFacts, BytesAssumption
  <2>2. Power[i] = Power[i - 1] * ByteBase
    BY <2>1
  <2>3. n % Power[i] = ((n \div Power[i - 1]) % ByteBase) * Power[i - 1] + (n % Power[i - 1])
    BY <2>1, <2>2, DigitAbove
  <2>4. sum[i] = (n % Power[i - 1]) + ((n \div Power[i - 1]) % ByteBase) * Power[i - 1]
    BY <1>2, <1>7, <1>9
  <2>5. n \div Power[i - 1] \in Int /\ n % Power[i - 1] \in 0 .. Power[i - 1] - 1
    BY <2>1, Divided, Zenon
  <2>6. (n \div Power[i - 1]) % ByteBase \in 0 .. ByteBase - 1
    BY <2>1, <2>5, Divided, Zenon
  <2>7. (n \div Power[i - 1]) % ByteBase \in Int /\ n % Power[i - 1] \in Int /\ Power[i - 1] \in Int
    BY <2>1, <2>5, <2>6
  <2> HIDE DEF f
  <2> QED
    BY <2>3, <2>4, <2>7
<1>10. wrong = {}
  <2> SUFFICES ASSUME wrong # {} PROVE FALSE
    OBVIOUS
  <2>1. PICK i \in wrong : \A j \in wrong : i <= j
    <3>1. wrong \in SUBSET Nat
      OBVIOUS
    <3> HIDE DEF wrong
    <3> QED
      BY <3>1, LeastNumber
  <2>2. i # 0 /\ i \in 1 .. size
    BY <1>8, <2>1
  <2>3. i - 1 \in 0 .. size /\ i - 1 \notin wrong
    BY <2>1, <2>2
  <2>4. sum[i - 1] = n % Power[i - 1]
    BY <2>3
  <2> QED
    BY <1>9, <2>1, <2>2, <2>4
<1>11. sum[size] = n % Power[size]
  BY <1>10
<1> QED
  BY <1>1, <1>2, <1>11 DEF bs

(* A number in range is read back as it was.                               *)
LEMMA BytesReadUnsigned ==
  ASSUME NEW size \in 1 .. 8, NEW n \in UnsignedRange(size)
  PROVE  Unsigned(Bytes(n, size)) = n
<1>1. Power[size] \in Nat \ {0} /\ n \in 0 .. Power[size] - 1
  BY PowerFacts DEF UnsignedRange
<1>2. n % Power[size] = n
  BY <1>1
<1> QED
  BY <1>1, <1>2, BytesUnsigned

(* So is a signed number in range.                                         *)
LEMMA BytesReadSigned ==
  ASSUME NEW size \in 1 .. 8, NEW n \in SignedRange(size)
  PROVE  Signed(Bytes(n, size)) = n
<1> DEFINE p == Power[size]
<1>1. p \in Nat \ {0} /\ p \div 2 \in Nat \ {0} /\ 2 * (p \div 2) = p
  BY PowerFacts, PowerEven
<1>2. n \in -(p \div 2) .. p \div 2 - 1
  BY DEF SignedRange
<1>3. Unsigned(Bytes(n, size)) = n % p /\ Len(Bytes(n, size)) = size
  <2>1. n \in Int /\ size \in 0 .. 8
    BY <1>1, <1>2
  <2> QED
    BY <2>1, BytesUnsigned, BytesFacts, Zenon
<1> HIDE DEF p
<1>4. CASE n >= 0
  <2>1. n % p = n
    BY <1>1, <1>2, <1>4
  <2>2. Signed(Bytes(n, size)) = IF 2 * n >= p THEN n - p ELSE n
    BY <1>3, <2>1 DEF Signed, p
  <2> QED
    BY <1>1, <1>2, <2>2
<1>5. CASE n < 0
  <2>1. n + p \in 0 .. p - 1 /\ n = (-1) * p + (n + p)
    BY <1>1, <1>2, <1>5
  <2>2. ((-1) * p + (n + p)) % p = n + p
    <3> DEFINE q == -1
               rest == n + p
    <3>1. q \in Int /\ rest \in 0 .. p - 1
      BY <2>1
    <3> HIDE DEF q, rest
    <3>2. (q * p + rest) % p = rest
      BY <1>1, <3>1, DivisionUnique
    <3> QED
      BY <3>2 DEF q, rest
  <2>3. Signed(Bytes(n, size)) = IF 2 * (n + p) >= p THEN (n + p) - p ELSE n + p
    BY <1>3, <2>1, <2>2 DEF Signed, p
  <2> QED
    BY <1>1, <1>2, <2>3
<1> QED
  BY <1>1, <1>2, <1>4, <1>5

-----------------------------------------------------------------------------
(* Bytes written one after the other are read where they were written.     *)
LEMMA SliceOfFirst ==
  ASSUME NEW a \in Seq(Int), NEW b \in Seq(Int), NEW i \in Nat \ {0}, NEW j \in Nat, j <= Len(a)
  PROVE  SubSeq(a \o b, i, j) = SubSeq(a, i, j)
<1>1. a \o b \in Seq(Int) /\ Len(a \o b) = Len(a) + Len(b) /\ Len(a) \in Nat /\ Len(b) \in Nat
  OBVIOUS
<1>2. \A k \in 1 .. Len(a) : (a \o b)[k] = a[k]
  OBVIOUS
<1>3. SubSeq(a \o b, i, j) = [k \in 1 .. (j - i + 1) |-> (a \o b)[k + i - 1]]
  BY <1>1, SubSeqProperties
<1>4. SubSeq(a, i, j) = [k \in 1 .. (j - i + 1) |-> a[k + i - 1]]
  BY <1>1, SubSeqProperties
<1>5. ASSUME NEW k \in 1 .. (j - i + 1) PROVE (a \o b)[k + i - 1] = a[k + i - 1]
  BY <1>1, <1>2
<1> QED
  BY <1>3, <1>4, <1>5

(* The second of two parts is what follows the first.                      *)
LEMMA SliceOfLast ==
  ASSUME NEW a \in Seq(Int), NEW b \in Seq(Int)
  PROVE  SubSeq(a \o b, Len(a) + 1, Len(a) + Len(b)) = b
<1> DEFINE s == SubSeq(a \o b, Len(a) + 1, Len(a) + Len(b))
<1>1. a \o b \in Seq(Int) /\ Len(a \o b) = Len(a) + Len(b) /\ Len(a) \in Nat /\ Len(b) \in Nat
  OBVIOUS
<1>2. \A k \in 1 .. Len(b) : (a \o b)[k + Len(a)] = b[k]
  OBVIOUS
<1>3. s \in Seq(Int) /\ Len(s) = Len(b) /\ \A k \in 1 .. Len(b) : s[k] = (a \o b)[k + Len(a)]
  BY <1>1, SubSeqProperties
<1> HIDE DEF s
<1>4. Len(s) = Len(b) /\ \A k \in 1 .. Len(s) : s[k] = b[k]
  BY <1>2, <1>3
<1>5. s = b
  BY <1>3, <1>4, SeqEqual
<1> QED
  BY <1>5 DEF s

(* A whole sequence is its own slice.                                      *)
LEMMA SliceWhole ==
  ASSUME NEW a \in Seq(Int)
  PROVE  SubSeq(a, 1, Len(a)) = a
<1>1. <<>> \in Seq(Int) /\ Len(<<>>) = 0 /\ Len(a) \in Nat
  OBVIOUS
<1>2. <<>> \o a = a
  OBVIOUS
<1> QED
  BY <1>1, <1>2, SliceOfLast

(* Of two sequences joined, where each is.                                 *)
LEMMA TwoParts ==
  ASSUME NEW a \in Seq(Int), NEW b \in Seq(Int)
  PROVE  /\ a \o b \in Seq(Int) /\ Len(a \o b) = Len(a) + Len(b)
         /\ SubSeq(a \o b, Len(a) + 1, Len(a) + Len(b)) = b
         /\ \A i \in Nat \ {0}, j \in 0 .. Len(a) : SubSeq(a \o b, i, j) = SubSeq(a, i, j)
<1>1. a \o b \in Seq(Int) /\ Len(a \o b) = Len(a) + Len(b)
  OBVIOUS
<1>2. \A i \in Nat \ {0}, j \in 0 .. Len(a) : SubSeq(a \o b, i, j) = SubSeq(a, i, j)
  BY SliceOfFirst
<1> QED
  BY <1>1, <1>2, SliceOfLast

(* Where the fields of a date are in its bytes.                            *)
LEMMA DateParts ==
  ASSUME NEW a \in Seq(Int), NEW b \in Seq(Int), NEW c \in Seq(Int), Len(a) = 2, Len(b) = 1, Len(c) = 1
  PROVE  /\ SubSeq(a \o b \o c, 1, 2) = a
         /\ SubSeq(a \o b \o c, 3, 3) = b
         /\ SubSeq(a \o b \o c, 4, 4) = c
<1>1. /\ 1 \in Nat \ {0} /\ 2 \in 0 .. 2 /\ 3 \in Nat \ {0} /\ 2 \in 0 .. 3 /\ 3 \in 0 .. 3
      /\ 2 + 1 = 3 /\ 3 + 1 = 4
  OBVIOUS
<1>2. /\ a \o b \in Seq(Int) /\ Len(a \o b) = 2 + 1 /\ SubSeq(a \o b, 2 + 1, 2 + 1) = b
      /\ \A i \in Nat \ {0}, j \in 0 .. 2 : SubSeq(a \o b, i, j) = SubSeq(a, i, j)
  <2>1. /\ a \o b \in Seq(Int) /\ Len(a \o b) = Len(a) + Len(b)
        /\ SubSeq(a \o b, Len(a) + 1, Len(a) + Len(b)) = b
        /\ \A i \in Nat \ {0}, j \in 0 .. Len(a) : SubSeq(a \o b, i, j) = SubSeq(a, i, j)
    BY TwoParts
  <2> QED
    BY <2>1, Zenon
<1>3. SubSeq(a, 1, 2) = a
  BY SliceWhole, Zenon
<1>4. PICK front \in Seq(Int) :
        front = a \o b /\ Len(front) = 3 /\ SubSeq(front, 1, 2) = a /\ SubSeq(front, 3, 3) = b
  BY <1>1, <1>2, <1>3, Zenon
<1>5. /\ SubSeq(front \o c, 3 + 1, 3 + 1) = c
      /\ \A i \in Nat \ {0}, j \in 0 .. 3 : SubSeq(front \o c, i, j) = SubSeq(front, i, j)
  <2>1. /\ front \o c \in Seq(Int) /\ Len(front \o c) = Len(front) + Len(c)
        /\ SubSeq(front \o c, Len(front) + 1, Len(front) + Len(c)) = c
        /\ \A i \in Nat \ {0}, j \in 0 .. Len(front) : SubSeq(front \o c, i, j) = SubSeq(front, i, j)
    BY TwoParts
  <2> QED
    BY <1>4, <2>1, Zenon
<1> QED
  BY <1>1, <1>4, <1>5, Zenon

(* A date's bytes are read back as its fields.                             *)
LEMMA DateRead ==
  ASSUME NEW y \in SignedRange(2), NEW m \in SignedRange(1), NEW d \in SignedRange(1),
         NEW bs, bs = Bytes(y, 2) \o Bytes(m, 1) \o Bytes(d, 1)
  PROVE  Day(bs) = <<y, m, d>>
<1>1. y \in Int /\ m \in Int /\ d \in Int
  <2>1. Power[1] \div 2 \in Int /\ Power[2] \div 2 \in Int
    BY PowerEven
  <2> QED
    BY <2>1 DEF SignedRange
<1>2. /\ 1 \in 0 .. 8 /\ 2 \in 0 .. 8 /\ 1 \in 1 .. 8 /\ 2 \in 1 .. 8
  OBVIOUS
<1>3. /\ Bytes(y, 2) \in Seq(Int) /\ Len(Bytes(y, 2)) = 2 /\ Bytes(m, 1) \in Seq(Int) /\ Len(Bytes(m, 1)) = 1
      /\ Bytes(d, 1) \in Seq(Int) /\ Len(Bytes(d, 1)) = 1
  BY <1>1, <1>2, BytesFacts, Zenon
<1>4. SubSeq(bs, 1, 2) = Bytes(y, 2) /\ SubSeq(bs, 3, 3) = Bytes(m, 1) /\ SubSeq(bs, 4, 4) = Bytes(d, 1)
  <2>1. PICK a \in Seq(Int), b \in Seq(Int), c \in Seq(Int) :
          a = Bytes(y, 2) /\ b = Bytes(m, 1) /\ c = Bytes(d, 1) /\ Len(a) = 2 /\ Len(b) = 1 /\ Len(c) = 1
    BY <1>3, Zenon
  <2>2. bs = a \o b \o c
    BY <2>1, Zenon
  <2>3. Len(a) = 2 /\ Len(b) = 1 /\ Len(c) = 1
    BY <2>1, Zenon
  <2>4. /\ SubSeq(a \o b \o c, 1, 2) = a /\ SubSeq(a \o b \o c, 3, 3) = b
        /\ SubSeq(a \o b \o c, 4, 4) = c
    BY <2>3, DateParts
  <2> QED
    BY <2>1, <2>2, <2>4, Zenon
<1>5. Signed(SubSeq(bs, 1, 2)) = y /\ Signed(SubSeq(bs, 3, 3)) = m /\ Signed(SubSeq(bs, 4, 4)) = d
  BY <1>2, <1>4, BytesReadSigned, Zenon
<1> QED
  BY <1>5, Zenon DEF Day

(* A unit of a clock fits its bytes.                                       *)
LEMMA UnitsFit ==
  /\ \A n \in 0 .. HoursPerDay - 1 : n \in SignedRange(1)
  /\ \A n \in 0 .. MinutesPerHour - 1 : n \in SignedRange(1)
  /\ \A n \in 0 .. SecondsPerMinute - 1 : n \in SignedRange(1)
  /\ \A n \in 0 .. MicrosPerSecond - 1 : n \in SignedRange(4)
<1>1. Power[1] = ByteBase /\ ByteBase \in Nat
  BY PowerFacts, BytesAssumption
<1>2. /\ 2 * (Power[1] \div 2) = Power[1] /\ Power[1] \div 2 \in Nat
      /\ 2 * (Power[4] \div 2) = Power[4] /\ Power[4] \div 2 \in Nat /\ Power[4] \in Nat
  BY PowerEven, PowerFacts
<1>3. /\ HoursPerDay \in Nat /\ MinutesPerHour \in Nat /\ SecondsPerMinute \in Nat /\ MicrosPerSecond \in Nat
  BY ClockAssumption, Product DEF MicrosPerSecond
<1>4. /\ 2 * HoursPerDay <= ByteBase /\ 2 * MinutesPerHour <= ByteBase /\ 2 * SecondsPerMinute <= ByteBase
      /\ 2 * MicrosPerSecond <= Power[4]
  BY WidthsAssumption
<1>5. ASSUME NEW unit \in Nat, NEW half \in Nat, unit <= half, NEW n \in 0 .. unit - 1
      PROVE n \in -half .. half - 1
  BY <1>5
<1>6. /\ HoursPerDay <= Power[1] \div 2 /\ MinutesPerHour <= Power[1] \div 2 /\ SecondsPerMinute <= Power[1] \div 2
      /\ MicrosPerSecond <= Power[4] \div 2
  BY <1>1, <1>2, <1>3, <1>4
<1> QED
  BY <1>2, <1>3, <1>5, <1>6 DEF SignedRange

(* A time's bytes are read back as its fields.                             *)
LEMMA TimeRead ==
  ASSUME NEW t \in TimesOfDay,
         NEW bs, bs = Bytes(t[1], 1) \o Bytes(t[2], 1) \o Bytes(t[3], 1) \o << 0 >> \o Bytes(t[4], 4)
  PROVE  Clock(bs) = t
<1>1. /\ t \in [1 .. 4 -> Nat] /\ t[1] \in 0 .. HoursPerDay - 1 /\ t[2] \in 0 .. MinutesPerHour - 1
      /\ t[3] \in 0 .. SecondsPerMinute - 1 /\ t[4] \in 0 .. MicrosPerSecond - 1
  <2>1. /\ HoursPerDay \in Nat /\ MinutesPerHour \in Nat /\ SecondsPerMinute \in Nat /\ MicrosPerSecond \in Nat
    BY ClockAssumption, Product DEF MicrosPerSecond
  <2> QED
    BY <2>1 DEF TimesOfDay
<1>2. /\ t[1] \in SignedRange(1) /\ t[2] \in SignedRange(1) /\ t[3] \in SignedRange(1) /\ t[4] \in SignedRange(4)
  BY <1>1, UnitsFit
<1>3. t[1] \in Int /\ t[2] \in Int /\ t[3] \in Int /\ t[4] \in Int
  BY <1>1
<1>4. /\ 1 \in 0 .. 8 /\ 4 \in 0 .. 8 /\ 1 \in 1 .. 8 /\ 4 \in 1 .. 8
  OBVIOUS
<1>5. /\ Bytes(t[1], 1) \in Seq(Int) /\ Len(Bytes(t[1], 1)) = 1 /\ Bytes(t[2], 1) \in Seq(Int) /\ Len(Bytes(t[2], 1)) = 1
      /\ Bytes(t[3], 1) \in Seq(Int) /\ Len(Bytes(t[3], 1)) = 1 /\ Bytes(t[4], 4) \in Seq(Int) /\ Len(Bytes(t[4], 4)) = 4
  BY <1>3, <1>4, BytesFacts, Zenon
<1>6. << 0 >> \in Seq(Int) /\ Len(<< 0 >>) = 1
  OBVIOUS
<1>7. /\ SubSeq(bs, 1, 1) = Bytes(t[1], 1) /\ SubSeq(bs, 2, 2) = Bytes(t[2], 1) /\ SubSeq(bs, 3, 3) = Bytes(t[3], 1)
      /\ SubSeq(bs, 5, 8) = Bytes(t[4], 4)
  <2>1. PICK a \in Seq(Int), b \in Seq(Int), c \in Seq(Int), d \in Seq(Int) :
          /\ a = Bytes(t[1], 1) /\ b = Bytes(t[2], 1) /\ c = Bytes(t[3], 1) /\ d = Bytes(t[4], 4)
          /\ Len(a) = 1 /\ Len(b) = 1 /\ Len(c) = 1 /\ Len(d) = 4
    BY <1>5, Zenon
  <2>2. PICK z \in Seq(Int) : z = << 0 >> /\ Len(z) = 1
    BY <1>6, Zenon
  <2>3. bs = a \o b \o c \o z \o d
    BY <2>1, <2>2, Zenon
  <2>4. Len(a) = 1 /\ Len(b) = 1 /\ Len(c) = 1 /\ Len(z) = 1 /\ Len(d) = 4
    BY <2>1, <2>2, Zenon
  <2>5. /\ 1 \in Nat \ {0} /\ 2 \in Nat \ {0} /\ 3 \in Nat \ {0}
        /\ 1 \in 0 .. 1 /\ 1 \in 0 .. 2 /\ 2 \in 0 .. 2 /\ 1 \in 0 .. 3 /\ 2 \in 0 .. 3 /\ 3 \in 0 .. 3
        /\ 1 \in 0 .. 4 /\ 2 \in 0 .. 4 /\ 3 \in 0 .. 4
        /\ 1 + 1 = 2 /\ 2 + 1 = 3 /\ 3 + 1 = 4 /\ 4 + 1 = 5 /\ 4 + 4 = 8
    OBVIOUS
  <2>6. /\ a \o b \in Seq(Int) /\ Len(a \o b) = 1 + 1 /\ SubSeq(a \o b, 1 + 1, 1 + 1) = b
        /\ \A i \in Nat \ {0}, j \in 0 .. 1 : SubSeq(a \o b, i, j) = SubSeq(a, i, j)
    <3>1. /\ a \o b \in Seq(Int) /\ Len(a \o b) = Len(a) + Len(b)
          /\ SubSeq(a \o b, Len(a) + 1, Len(a) + Len(b)) = b
          /\ \A i \in Nat \ {0}, j \in 0 .. Len(a) : SubSeq(a \o b, i, j) = SubSeq(a, i, j)
      BY TwoParts
    <3> QED
      BY <2>4, <3>1, Zenon
  <2>7. SubSeq(a, 1, 1) = a
    BY <2>4, SliceWhole, Zenon
  <2>8. PICK two \in Seq(Int) :
          two = a \o b /\ Len(two) = 2 /\ SubSeq(two, 1, 1) = a /\ SubSeq(two, 2, 2) = b
    BY <2>5, <2>6, <2>7, <2>4, Zenon
  <2>9. /\ two \o c \in Seq(Int) /\ Len(two \o c) = 2 + 1 /\ SubSeq(two \o c, 2 + 1, 2 + 1) = c
        /\ \A i \in Nat \ {0}, j \in 0 .. 2 : SubSeq(two \o c, i, j) = SubSeq(two, i, j)
    <3>1. /\ two \o c \in Seq(Int) /\ Len(two \o c) = Len(two) + Len(c)
          /\ SubSeq(two \o c, Len(two) + 1, Len(two) + Len(c)) = c
          /\ \A i \in Nat \ {0}, j \in 0 .. Len(two) : SubSeq(two \o c, i, j) = SubSeq(two, i, j)
      BY TwoParts
    <3> QED
      BY <2>8, <2>4, <3>1, Zenon
  <2>10. PICK three \in Seq(Int) :
          /\ three = two \o c /\ Len(three) = 3
          /\ SubSeq(three, 1, 1) = a /\ SubSeq(three, 2, 2) = b /\ SubSeq(three, 3, 3) = c
    BY <2>5, <2>8, <2>9, Zenon
  <2>11. /\ three \o z \in Seq(Int) /\ Len(three \o z) = 3 + 1
        /\ \A i \in Nat \ {0}, j \in 0 .. 3 : SubSeq(three \o z, i, j) = SubSeq(three, i, j)
    <3>1. /\ three \o z \in Seq(Int) /\ Len(three \o z) = Len(three) + Len(z)
          /\ SubSeq(three \o z, Len(three) + 1, Len(three) + Len(z)) = z
          /\ \A i \in Nat \ {0}, j \in 0 .. Len(three) : SubSeq(three \o z, i, j) = SubSeq(three, i, j)
      BY TwoParts
    <3> QED
      BY <2>10, <2>4, <3>1, Zenon
  <2>12. PICK four \in Seq(Int) :
          /\ four = three \o z /\ Len(four) = 4
          /\ SubSeq(four, 1, 1) = a /\ SubSeq(four, 2, 2) = b /\ SubSeq(four, 3, 3) = c
    BY <2>5, <2>10, <2>11, Zenon
  <2>13. /\ SubSeq(four \o d, 4 + 1, 4 + 4) = d
        /\ \A i \in Nat \ {0}, j \in 0 .. 4 : SubSeq(four \o d, i, j) = SubSeq(four, i, j)
    <3>1. /\ four \o d \in Seq(Int) /\ Len(four \o d) = Len(four) + Len(d)
          /\ SubSeq(four \o d, Len(four) + 1, Len(four) + Len(d)) = d
          /\ \A i \in Nat \ {0}, j \in 0 .. Len(four) : SubSeq(four \o d, i, j) = SubSeq(four, i, j)
      BY TwoParts
    <3> QED
      BY <2>12, <2>4, <3>1, Zenon
  <2>14. /\ SubSeq(bs, 1, 1) = a /\ SubSeq(bs, 2, 2) = b /\ SubSeq(bs, 3, 3) = c /\ SubSeq(bs, 5, 8) = d
    <3>1. bs = four \o d
      BY <2>3, <2>8, <2>10, <2>12, Zenon
    <3> QED
      BY <2>5, <2>12, <2>13, <3>1, Zenon
  <2> QED
    BY <2>1, <2>14, Zenon
<1>8. Clock(bs) = <<t[1], t[2], t[3], t[4]>>
  <2>1. /\ Signed(SubSeq(bs, 1, 1)) = t[1] /\ Signed(SubSeq(bs, 2, 2)) = t[2] /\ Signed(SubSeq(bs, 3, 3)) = t[3]
        /\ Signed(SubSeq(bs, 5, 8)) = t[4]
    BY <1>2, <1>4, <1>7, BytesReadSigned, Zenon
  <2> QED
    BY <2>1, Zenon DEF Clock
<1>9. t = <<t[1], t[2], t[3], t[4]>>
  BY <1>1
<1> QED
  BY <1>8, <1>9

-----------------------------------------------------------------------------
(* The fields of a packed datetime weigh each what those before them hold. *)
LEMMA FieldFacts ==
  /\ FieldRange \in [1 .. 7 -> Nat \ {0}]
  /\ FieldWeight[1] = 1
  /\ \A i \in 1 .. 6 : FieldWeight[i + 1] = FieldWeight[i] * FieldRange[i]
  /\ \A i \in 1 .. 7 : FieldWeight[i] \in Nat \ {0}
<1> DEFINE w2 == 1 * FieldRange[1]
           w3 == w2 * FieldRange[2]
           w4 == w3 * FieldRange[3]
           w5 == w4 * FieldRange[4]
           w6 == w5 * FieldRange[5]
           w7 == w6 * FieldRange[6]
           Step(g) == [i \in 1 .. 7 |-> IF i = 1 THEN 1 ELSE g[i - 1] * FieldRange[i - 1]]
           weights == [i \in 1 .. 7 |-> IF i = 1 THEN 1 ELSE IF i = 2 THEN w2 ELSE IF i = 3 THEN w3
                         ELSE IF i = 4 THEN w4 ELSE IF i = 5 THEN w5 ELSE IF i = 6 THEN w6 ELSE w7]
<1>1. FieldRange \in [1 .. 7 -> Nat \ {0}]
  <2>1. MicrosPerSecond \in Nat \ {0}
    BY ClockAssumption, Product DEF MicrosPerSecond
  <2>2. /\ YearRange \in Nat \ {0} /\ MonthsPerYear + 1 \in Nat \ {0} /\ DaysPerMonth + 1 \in Nat \ {0}
        /\ HoursPerDay \in Nat \ {0} /\ MinutesPerHour \in Nat \ {0} /\ SecondsPerMinute \in Nat \ {0}
    BY ClockAssumption
  <2> QED
    BY <2>1, <2>2 DEF FieldRange
<1>2. FieldWeight = CHOOSE g : g = Step(g)
  BY DEF FieldWeight
<1>3. weights = Step(weights)
  <2> SUFFICES ASSUME NEW i \in 1 .. 7
               PROVE weights[i] = IF i = 1 THEN 1 ELSE weights[i - 1] * FieldRange[i - 1]
    OBVIOUS
  <2>1. i = 1 \/ i = 2 \/ i = 3 \/ i = 4 \/ i = 5 \/ i = 6 \/ i = 7
    OBVIOUS
  <2>2. 2 - 1 = 1 /\ 3 - 1 = 2 /\ 4 - 1 = 3 /\ 5 - 1 = 4 /\ 6 - 1 = 5 /\ 7 - 1 = 6
    OBVIOUS
  <2>3. /\ weights[1] = 1 /\ weights[2] = w2 /\ weights[3] = w3 /\ weights[4] = w4
        /\ weights[5] = w5 /\ weights[6] = w6 /\ weights[7] = w7
    <3> HIDE DEF w2, w3, w4, w5, w6, w7
    <3> QED
      OBVIOUS
  <2>4. /\ w2 = 1 * FieldRange[1] /\ w3 = w2 * FieldRange[2] /\ w4 = w3 * FieldRange[3]
        /\ w5 = w4 * FieldRange[4] /\ w6 = w5 * FieldRange[5] /\ w7 = w6 * FieldRange[6]
    OBVIOUS
  <2> HIDE DEF weights, w2, w3, w4, w5, w6, w7
  <2> QED
    BY <2>1, <2>2, <2>3, <2>4
<1>4. FieldWeight = Step(FieldWeight)
  BY <1>2, <1>3
<1>5. FieldWeight[1] = 1 /\ \A i \in 1 .. 6 : FieldWeight[i + 1] = FieldWeight[i] * FieldRange[i]
  <2>1. \A i \in 1 .. 7 : FieldWeight[i] = IF i = 1 THEN 1 ELSE FieldWeight[i - 1] * FieldRange[i - 1]
    BY <1>4, Zenon
  <2>2. \A i \in 1 .. 6 : i + 1 \in 1 .. 7 /\ i + 1 # 1 /\ (i + 1) - 1 = i
    OBVIOUS
  <2>3. FieldWeight[1] = 1
    BY <2>1
  <2>4. \A i \in 1 .. 6 : FieldWeight[i + 1] = FieldWeight[i] * FieldRange[i]
    BY <2>1, <2>2, Zenon
  <2> QED
    BY <2>3, <2>4
<1>6. ASSUME NEW i \in 1 .. 6, FieldWeight[i] \in Nat \ {0} PROVE FieldWeight[i + 1] \in Nat \ {0}
  <2>1. FieldRange[i] \in Nat \ {0}
    BY <1>1
  <2> QED
    BY <1>5, <1>6, <2>1, Product
<1>7. /\ FieldWeight[1] \in Nat \ {0} /\ FieldWeight[2] \in Nat \ {0} /\ FieldWeight[3] \in Nat \ {0}
      /\ FieldWeight[4] \in Nat \ {0} /\ FieldWeight[5] \in Nat \ {0} /\ FieldWeight[6] \in Nat \ {0}
      /\ FieldWeight[7] \in Nat \ {0}
  BY <1>5, <1>6
<1> QED
  BY <1>1, <1>5, <1>7

(* A number below another is what remains of it.                           *)
LEMMA Remains ==
  ASSUME NEW m \in Nat \ {0}, NEW r \in 0 .. m - 1
  PROVE  r % m = r
OBVIOUS

(* Digits of a mixed radix, added up by their weights, are found again.    *)
LEMMA MixedRadix ==
  ASSUME NEW m \in [1 .. 7 -> Nat], \A i \in 1 .. 7 : m[i] < FieldRange[i], NEW g,
         g[0] = 0, \A i \in 1 .. 7 : g[i] = g[i - 1] + m[i] * FieldWeight[i]
  PROVE  /\ g[7] \in 0 .. FieldWeight[7] * FieldRange[7] - 1
         /\ \A i \in 1 .. 7 : (g[7] \div FieldWeight[i]) % FieldRange[i] = m[i]
<1>1. /\ FieldRange \in [1 .. 7 -> Nat \ {0}]
      /\ FieldWeight[1] = 1 /\ (\A i \in 1 .. 6 : FieldWeight[i + 1] = FieldWeight[i] * FieldRange[i])
      /\ \A i \in 1 .. 7 : FieldWeight[i] \in Nat \ {0}
  BY FieldFacts
<1> DEFINE Below(i) == g[i - 1] \in 0 .. FieldWeight[i] - 1
           Above(i) == \E t \in Nat : g[7] = t * FieldWeight[i] + g[i - 1] /\ t % FieldRange[i] = m[i]
<1>2. ASSUME NEW i \in 1 .. 7
      PROVE  FieldRange[i] \in Nat \ {0} /\ FieldWeight[i] \in Nat \ {0} /\ m[i] \in 0 .. FieldRange[i] - 1
  <2>1. FieldRange[i] \in Nat \ {0} /\ FieldWeight[i] \in Nat \ {0} /\ m[i] \in Nat /\ m[i] < FieldRange[i]
    BY <1>1
  <2> QED
    BY <2>1
<1>3. ASSUME NEW i \in 1 .. 7, Below(i)
      PROVE  m[i] * FieldWeight[i] + g[i - 1] = g[i] /\ g[i] \in 0 .. FieldWeight[i] * FieldRange[i] - 1
  <2> DEFINE a == FieldWeight[i]
             b == FieldRange[i]
             d == m[i]
             low == g[i - 1]
  <2>1. a \in Nat \ {0} /\ b \in Nat \ {0} /\ d \in 0 .. b - 1 /\ low \in 0 .. a - 1 /\ g[i] = low + d * a
    BY <1>3, <1>2
  <2> HIDE DEF a, b, d, low
  <2>2. d * a <= (b - 1) * a /\ 0 <= d * a /\ (b - 1) * a = a * b - a /\ d * a \in Int
    BY <2>1
  <2>3. d * a + low = g[i] /\ g[i] \in 0 .. a * b - 1
    <3>1. a * b \in Int
      BY <2>1
    <3> DEFINE above == d * a
               all == a * b
    <3>2. /\ above \in Int /\ all \in Int /\ 0 <= above /\ above <= all - a /\ g[i] = low + above
          /\ a \in Nat /\ low \in 0 .. a - 1
      BY <2>1, <2>2, <3>1
    <3> HIDE DEF above, all
    <3>3. above + low = g[i] /\ g[i] \in 0 .. all - 1
      BY <3>2
    <3> QED
      BY <3>3 DEF above, all
  <2> QED
    BY <2>3 DEF a, b, d, low
<1>4. Below(1)
  BY <1>1
<1>5. ASSUME NEW i \in 1 .. 6, Below(i) PROVE Below(i + 1)
  <2>1. i \in 1 .. 7 /\ (i + 1) - 1 = i /\ FieldWeight[i + 1] = FieldWeight[i] * FieldRange[i]
    BY <1>1
  <2>2. g[i] \in 0 .. FieldWeight[i] * FieldRange[i] - 1
    BY <1>3, <1>5, <2>1
  <2> QED
    BY <2>1, <2>2
<1>6. /\ Below(1) /\ Below(1 + 1) /\ Below(2 + 1) /\ Below(3 + 1) /\ Below(4 + 1) /\ Below(5 + 1)
      /\ Below(6 + 1)
  <2> HIDE DEF Below
  <2>1. 1 + 1 = 2 /\ 2 + 1 = 3 /\ 3 + 1 = 4 /\ 4 + 1 = 5 /\ 5 + 1 = 6 /\ 6 + 1 = 7
    OBVIOUS
  <2>2. 1 \in 1 .. 6 /\ 2 \in 1 .. 6 /\ 3 \in 1 .. 6 /\ 4 \in 1 .. 6 /\ 5 \in 1 .. 6 /\ 6 \in 1 .. 6
    OBVIOUS
  <2> QED
    BY <1>4, <1>5, <2>1, <2>2, Zenon
<1>7. \A i \in 1 .. 7 : Below(i)
  <2> HIDE DEF Below
  <2>1. 1 + 1 = 2 /\ 2 + 1 = 3 /\ 3 + 1 = 4 /\ 4 + 1 = 5 /\ 5 + 1 = 6 /\ 6 + 1 = 7
    OBVIOUS
  <2>2. \A i \in 1 .. 7 : i = 1 \/ i = 2 \/ i = 3 \/ i = 4 \/ i = 5 \/ i = 6 \/ i = 7
    OBVIOUS
  <2> QED
    BY <1>6, <2>1, <2>2, Zenon
<1>8. Above(7)
  <2>1. 7 \in 1 .. 7
    OBVIOUS
  <2>2. g[7] = m[7] * FieldWeight[7] + g[7 - 1]
    BY <1>3, <1>7, <2>1
  <2>3. FieldRange[7] \in Nat \ {0} /\ m[7] \in 0 .. FieldRange[7] - 1
    BY <1>2, <2>1
  <2>4. m[7] \in Nat /\ m[7] % FieldRange[7] = m[7]
    BY <2>3, Remains
  <2> QED
    BY <2>2, <2>4
<1>9. ASSUME NEW i \in 1 .. 6, NEW j \in 1 .. 7, i + 1 = j, Above(j) PROVE Above(i)
  <2>1. i \in 1 .. 7 /\ j - 1 = i /\ FieldWeight[j] = FieldWeight[i] * FieldRange[i]
    BY <1>9, <1>1
  <2>2. PICK t \in Nat : g[7] = t * FieldWeight[j] + g[j - 1]
    BY <1>9
  <2> DEFINE a == FieldWeight[i]
             b == FieldRange[i]
             d == m[i]
             low == g[i - 1]
  <2>3. a \in Nat \ {0} /\ b \in Nat \ {0} /\ d \in 0 .. b - 1 /\ low \in 0 .. a - 1
    BY <1>7, <1>2, <2>1
  <2>4. g[7] = t * (a * b) + (d * a + low)
    <3>1. g[i] = d * a + low
      BY <1>3, <1>7, <2>1
    <3> QED
      BY <2>1, <2>2, <3>1
  <2> HIDE DEF a, b, d, low
  <2> DEFINE s == t * b + d
  <2>5. s \in Nat /\ s % b = d
    <3>1. t * b \in Nat /\ d \in Nat /\ t \in Int
      BY <2>3
    <3>2. (t * b + d) % b = d
      BY <2>3, <3>1, DivisionUnique
    <3> QED
      BY <3>1, <3>2
  <2>6. s * a = t * (a * b) + d * a
    BY <2>3
  <2> HIDE DEF s
  <2>7. g[7] = s * a + low
    <3>1. t * (a * b) \in Int /\ d * a \in Int /\ low \in Int
      BY <2>3
    <3> QED
      BY <2>4, <2>6, <3>1
  <2> QED
    BY <2>5, <2>7 DEF a, b, d, low
<1>10. \A i \in 1 .. 7 : Above(i)
  <2> HIDE DEF Above
  <2>1. 1 + 1 = 2 /\ 2 + 1 = 3 /\ 3 + 1 = 4 /\ 4 + 1 = 5 /\ 5 + 1 = 6 /\ 6 + 1 = 7
    OBVIOUS
  <2>2. \A i \in 1 .. 7 : i = 1 \/ i = 2 \/ i = 3 \/ i = 4 \/ i = 5 \/ i = 6 \/ i = 7
    OBVIOUS
  <2>3. /\ 1 \in 1 .. 6 /\ 2 \in 1 .. 6 /\ 3 \in 1 .. 6 /\ 4 \in 1 .. 6 /\ 5 \in 1 .. 6 /\ 6 \in 1 .. 6
        /\ 2 \in 1 .. 7 /\ 3 \in 1 .. 7 /\ 4 \in 1 .. 7 /\ 5 \in 1 .. 7 /\ 6 \in 1 .. 7 /\ 7 \in 1 .. 7
    OBVIOUS
  <2> QED
    <3>1. Above(6)
      BY <1>8, <1>9, <2>1, <2>3, Zenon
    <3>2. Above(5)
      BY <3>1, <1>9, <2>1, <2>3, Zenon
    <3>3. Above(4)
      BY <3>2, <1>9, <2>1, <2>3, Zenon
    <3>4. Above(3)
      BY <3>3, <1>9, <2>1, <2>3, Zenon
    <3>5. Above(2)
      BY <3>4, <1>9, <2>1, <2>3, Zenon
    <3>6. Above(1)
      BY <3>5, <1>9, <2>1, <2>3, Zenon
    <3> QED
      BY <1>8, <2>2, <3>1, <3>2, <3>3, <3>4, <3>5, <3>6, Zenon
<1>11. ASSUME NEW i \in 1 .. 7 PROVE (g[7] \div FieldWeight[i]) % FieldRange[i] = m[i]
  <2>1. PICK t \in Nat : g[7] = t * FieldWeight[i] + g[i - 1] /\ t % FieldRange[i] = m[i]
    BY <1>10
  <2>2. FieldWeight[i] \in Nat \ {0} /\ g[i - 1] \in 0 .. FieldWeight[i] - 1
    BY <1>7, <1>1
  <2>3. (t * FieldWeight[i] + g[i - 1]) \div FieldWeight[i] = t
    <3> DEFINE a == FieldWeight[i]
               low == g[i - 1]
    <3>1. a \in Nat \ {0} /\ low \in 0 .. a - 1 /\ t \in Int
      BY <2>2
    <3> HIDE DEF a, low
    <3>2. (t * a + low) \div a = t
      BY <3>1, DivisionUnique
    <3> QED
      BY <3>2 DEF a, low
  <2> QED
    BY <2>1, <2>3
<1>12. g[7] \in 0 .. FieldWeight[7] * FieldRange[7] - 1
  <2>1. 7 \in 1 .. 7
    OBVIOUS
  <2> QED
    BY <1>3, <1>7, <2>1
<1> QED
  BY <1>11, <1>12

(* A moment packed and written is read back as it was.                     *)
LEMMA MomentRead ==
  ASSUME NEW m \in Moments
  PROVE  UnpackDatetime(Signed(Bytes(Packed(m), 8))) = m
<1> DEFINE f == [i \in 1 .. 7 |-> m[i] * FieldWeight[i]]
           Step(g) == [i \in 0 .. 7 |-> IF i = 0 THEN 0 ELSE g[i - 1] + m[i] * FieldWeight[i]]
           Plain(g) == [i \in 0 .. 7 |-> IF i = 0 THEN 0 ELSE g[i - 1] + f[i]]
           sum == CHOOSE g : g = Step(g)
<1>1. Packed(m) = sum[7]
  BY DEF Packed
<1>2. m \in [1 .. 7 -> Nat] /\ \A i \in 1 .. 7 : m[i] < FieldRange[i]
  BY DEF Moments
<1>3. f \in [1 .. 7 -> Int]
  <2> SUFFICES ASSUME NEW i \in 1 .. 7 PROVE m[i] * FieldWeight[i] \in Int
    OBVIOUS
  <2>1. m[i] \in Int
    BY <1>2
  <2>2. FieldWeight[i] \in Int
    BY FieldFacts
  <2> QED
    BY <2>1, <2>2
<1>4. ASSUME NEW g PROVE Step(g) = Plain(g)
  OBVIOUS
<1>5. \E g : g = Step(g)
  <2> HIDE DEF f
  <2>1. \E g : g = Plain(g)
    BY <1>3, SumsExist
  <2> QED
    BY <2>1, <1>4
<1>6. sum = Plain(sum)
  <2> HIDE DEF Plain, Step
  <2>1. \E g : g = Step(g)
    BY <1>5 DEF Step
  <2>2. sum = Step(sum)
    BY <2>1
  <2> HIDE DEF sum
  <2>3. Step(sum) = Plain(sum)
    BY <1>4 DEF Plain, Step
  <2> QED
    BY <2>2, <2>3
<1> HIDE DEF sum
<1>7. sum[0] = 0 /\ \A i \in 1 .. 7 : sum[i] = sum[i - 1] + f[i]
  <2> HIDE DEF f
  <2> QED
    BY <1>3, <1>6, SumsAdd
<1>8. \A i \in 1 .. 7 : sum[i] = sum[i - 1] + m[i] * FieldWeight[i]
  BY <1>7
<1> HIDE DEF f
<1>9. /\ sum[7] \in 0 .. FieldWeight[7] * FieldRange[7] - 1
      /\ \A i \in 1 .. 7 : (sum[7] \div FieldWeight[i]) % FieldRange[i] = m[i]
  BY <1>2, <1>7, <1>8, MixedRadix
<1>10. sum[7] \in SignedRange(8)
  <2> DEFINE p == Power[8]
             w == FieldWeight[7]
             r == MicrosPerSecond
  <2>1. FieldRange[7] = r
    BY DEF FieldRange
  <2>2. (2 * w) * r <= p
    BY WidthsAssumption
  <2>3. p \in Nat /\ p \div 2 \in Nat /\ 2 * (p \div 2) = p
    BY PowerFacts, PowerEven
  <2>4. w \in Nat /\ r \in Nat
    BY FieldFacts, ClockAssumption, Product DEF MicrosPerSecond
  <2>5. sum[7] \in 0 .. w * r - 1
    BY <1>9, <2>1
  <2> HIDE DEF p, w, r
  <2>6. (2 * w) * r = 2 * (w * r) /\ w * r \in Nat
    BY <2>4
  <2>7. sum[7] \in 0 .. p \div 2 - 1
    BY <2>2, <2>3, <2>5, <2>6
  <2>8. sum[7] \in -(p \div 2) .. p \div 2 - 1
    BY <2>3, <2>7
  <2> QED
    BY <2>8 DEF SignedRange, p
<1>11. Signed(Bytes(sum[7], 8)) = sum[7]
  BY <1>10, BytesReadSigned
<1>12. UnpackDatetime(sum[7]) = m
  BY <1>2, <1>9 DEF UnpackDatetime
<1> QED
  BY <1>1, <1>11, <1>12

-----------------------------------------------------------------------------
(* The units of the clock.                                                 *)
LEMMA ClockFacts ==
  /\ ClockRange \in [1 .. 6 -> Nat \ {0}]
  /\ ClockWeight[6] = 1
  /\ ClockWeight[5] = 1 * ClockRange[6]
  /\ ClockWeight[4] = ClockWeight[5] * ClockRange[5]
  /\ ClockWeight[3] = ClockWeight[4] * ClockRange[4]
  /\ ClockWeight[2] = ClockWeight[3] * ClockRange[3]
  /\ ClockWeight[1] = ClockWeight[2] * ClockRange[2]
  /\ ClockWeight[0] = ClockWeight[1] * ClockRange[1]
  /\ \A i \in 0 .. 6 : ClockWeight[i] \in Nat \ {0}
<1> DEFINE w5 == 1 * ClockRange[6]
           w4 == w5 * ClockRange[5]
           w3 == w4 * ClockRange[4]
           w2 == w3 * ClockRange[3]
           w1 == w2 * ClockRange[2]
           w0 == w1 * ClockRange[1]
           Step(g) == [i \in 0 .. 6 |-> IF i = 6 THEN 1 ELSE g[i + 1] * ClockRange[i + 1]]
           weights == [i \in 0 .. 6 |-> IF i = 6 THEN 1 ELSE IF i = 5 THEN w5 ELSE IF i = 4 THEN w4
                         ELSE IF i = 3 THEN w3 ELSE IF i = 2 THEN w2 ELSE IF i = 1 THEN w1 ELSE w0]
<1>1. ClockRange \in [1 .. 6 -> Nat \ {0}]
  <2>1. /\ MonthsPerYear \in Nat \ {0} /\ DaysPerMonth \in Nat \ {0} /\ HoursPerDay \in Nat \ {0}
        /\ MinutesPerHour \in Nat \ {0} /\ SecondsPerMinute \in Nat \ {0} /\ MillisPerSecond \in Nat \ {0}
    BY ClockAssumption
  <2> QED
    BY <2>1 DEF ClockRange
<1>2. ClockWeight = CHOOSE g : g = Step(g)
  BY DEF ClockWeight
<1>3. weights = Step(weights)
  <2> SUFFICES ASSUME NEW i \in 0 .. 6
               PROVE weights[i] = IF i = 6 THEN 1 ELSE weights[i + 1] * ClockRange[i + 1]
    OBVIOUS
  <2>1. i = 0 \/ i = 1 \/ i = 2 \/ i = 3 \/ i = 4 \/ i = 5 \/ i = 6
    OBVIOUS
  <2>2. 0 + 1 = 1 /\ 1 + 1 = 2 /\ 2 + 1 = 3 /\ 3 + 1 = 4 /\ 4 + 1 = 5 /\ 5 + 1 = 6
    OBVIOUS
  <2>3. /\ weights[0] = w0 /\ weights[1] = w1 /\ weights[2] = w2 /\ weights[3] = w3 /\ weights[4] = w4
        /\ weights[5] = w5 /\ weights[6] = 1
    <3> HIDE DEF w0, w1, w2, w3, w4, w5
    <3> QED
      OBVIOUS
  <2>4. /\ w5 = 1 * ClockRange[6] /\ w4 = w5 * ClockRange[5] /\ w3 = w4 * ClockRange[4]
        /\ w2 = w3 * ClockRange[3] /\ w1 = w2 * ClockRange[2] /\ w0 = w1 * ClockRange[1]
    OBVIOUS
  <2> HIDE DEF weights, w0, w1, w2, w3, w4, w5
  <2> QED
    BY <2>1, <2>2, <2>3, <2>4
<1>4. ClockWeight = Step(ClockWeight)
  BY <1>2, <1>3
<1>5. /\ ClockWeight[6] = 1
      /\ ClockWeight[5] = ClockWeight[6] * ClockRange[6]
      /\ ClockWeight[4] = ClockWeight[5] * ClockRange[5]
      /\ ClockWeight[3] = ClockWeight[4] * ClockRange[4]
      /\ ClockWeight[2] = ClockWeight[3] * ClockRange[3]
      /\ ClockWeight[1] = ClockWeight[2] * ClockRange[2]
      /\ ClockWeight[0] = ClockWeight[1] * ClockRange[1]
  <2>1. \A i \in 0 .. 6 : ClockWeight[i] = IF i = 6 THEN 1 ELSE ClockWeight[i + 1] * ClockRange[i + 1]
    BY <1>4, Zenon
  <2> QED
    BY <2>1
<1>6. /\ ClockRange[1] \in Nat \ {0} /\ ClockRange[2] \in Nat \ {0} /\ ClockRange[3] \in Nat \ {0}
      /\ ClockRange[4] \in Nat \ {0} /\ ClockRange[5] \in Nat \ {0} /\ ClockRange[6] \in Nat \ {0}
  BY <1>1
<1>7. ClockWeight[6] \in Nat \ {0} /\ ClockWeight[5] \in Nat \ {0}
  BY <1>5, <1>6
<1>8. ClockWeight[4] \in Nat \ {0}
  BY <1>5, <1>6, <1>7, Product
<1>9. ClockWeight[3] \in Nat \ {0}
  BY <1>5, <1>6, <1>8, Product
<1>10. ClockWeight[2] \in Nat \ {0}
  BY <1>5, <1>6, <1>9, Product
<1>11. ClockWeight[1] \in Nat \ {0}
  BY <1>5, <1>6, <1>10, Product
<1>12. ClockWeight[0] \in Nat \ {0}
  BY <1>5, <1>6, <1>11, Product
<1> QED
  BY <1>1, <1>5, <1>7, <1>8, <1>9, <1>10, <1>11, <1>12

(* One more digit of a clock.                                              *)
LEMMA NextDigit ==
  ASSUME NEW n \in Int, NEW w \in Nat \ {0}, NEW r \in Nat \ {0}
  PROVE  (n \div w) * w = (n \div (w * r)) * (w * r) + ((n \div w) % r) * w
<1> DEFINE q == n \div w
           p == q \div r
           d == q % r
<1>1. q \in Int /\ p \in Int /\ d \in Int
  <2>1. q \in Int
    BY Divided
  <2> HIDE DEF q
  <2>2. p \in Int /\ d \in 0 .. r - 1
    BY <2>1, Divided
  <2> QED
    BY <2>1, <2>2
<1>2. p = n \div (w * r)
  BY DividedTwice
<1>3. q = p * r + d
  <2> HIDE DEF q
  <2> QED
    BY <1>1, DividedSum
<1> HIDE DEF q, p, d
<1>4. q * w = p * (w * r) + d * w
  BY <1>1, <1>3
<1> QED
  BY <1>2, <1>4 DEF q, d

(* An instant is its years, months, days, hours, minutes, seconds and      *)
(* milliseconds.                                                           *)
LEMMA ClockDigits ==
  ASSUME NEW ms \in Int, NEW at, \A i \in 1 .. 6 : at[i] = (ms \div ClockWeight[i]) % ClockRange[i]
  PROVE  /\ \A i \in 1 .. 6 : at[i] \in 0 .. ClockRange[i] - 1
         /\ ms \div ClockWeight[0] \in Int
         /\ ms = (ms \div ClockWeight[0]) * ClockWeight[0] + at[1] * ClockWeight[1] + at[2] * ClockWeight[2]
                 + at[3] * ClockWeight[3] + at[4] * ClockWeight[4] + at[5] * ClockWeight[5] + at[6]
         /\ ms % ClockWeight[2] = at[3] * ClockWeight[3] + at[4] * ClockWeight[4] + at[5] * ClockWeight[5] + at[6]
<1> DEFINE Whole(i) == (ms \div ClockWeight[i]) * ClockWeight[i]
<1>1. /\ ClockWeight[0] \in Nat \ {0} /\ ClockWeight[1] \in Nat \ {0} /\ ClockWeight[2] \in Nat \ {0}
      /\ ClockWeight[3] \in Nat \ {0} /\ ClockWeight[4] \in Nat \ {0} /\ ClockWeight[5] \in Nat \ {0}
      /\ ClockWeight[6] \in Nat \ {0} /\ ClockWeight[6] = 1
  BY ClockFacts
<1>2. /\ ClockRange[1] \in Nat \ {0} /\ ClockRange[2] \in Nat \ {0} /\ ClockRange[3] \in Nat \ {0}
      /\ ClockRange[4] \in Nat \ {0} /\ ClockRange[5] \in Nat \ {0} /\ ClockRange[6] \in Nat \ {0}
  BY ClockFacts
<1>3. ASSUME NEW w \in Nat \ {0} PROVE ms \div w \in Int
  BY Divided
<1>4. ASSUME NEW i \in 1 .. 6 PROVE at[i] \in 0 .. ClockRange[i] - 1
  <2>1. ClockRange[i] \in Nat \ {0} /\ ClockWeight[i] \in Nat \ {0}
    BY ClockFacts
  <2>2. ms \div ClockWeight[i] \in Int
    BY <1>3, <2>1
  <2>3. at[i] = (ms \div ClockWeight[i]) % ClockRange[i]
    OBVIOUS
  <2> QED
    BY <2>1, <2>2, <2>3, Divided
<1>5. /\ Whole(6) = ms
      /\ Whole(6) = Whole(5) + at[6] * ClockWeight[6]
      /\ Whole(5) = Whole(4) + at[5] * ClockWeight[5]
      /\ Whole(4) = Whole(3) + at[4] * ClockWeight[4]
      /\ Whole(3) = Whole(2) + at[3] * ClockWeight[3]
      /\ Whole(2) = Whole(1) + at[2] * ClockWeight[2]
      /\ Whole(1) = Whole(0) + at[1] * ClockWeight[1]
  <2>1. ms \div 1 = ms
    OBVIOUS
  <2>2. Whole(6) = ms
    BY <1>1, <2>1
  <2>3. ASSUME NEW i \in 1 .. 6, NEW j \in 0 .. 5, ClockWeight[j] = ClockWeight[i] * ClockRange[i]
        PROVE  Whole(i) = Whole(j) + at[i] * ClockWeight[i]
    <3> DEFINE w == ClockWeight[i]
               r == ClockRange[i]
               v == ClockWeight[j]
    <3>1. w \in Nat \ {0} /\ r \in Nat \ {0} /\ v = w * r /\ at[i] = (ms \div w) % r
      BY <2>3, ClockFacts
    <3> HIDE DEF w, r, v
    <3>2. (ms \div w) * w = (ms \div (w * r)) * (w * r) + ((ms \div w) % r) * w
      BY <3>1, NextDigit
    <3>3. (ms \div w) * w = (ms \div v) * v + at[i] * w
      BY <3>1, <3>2, Zenon
    <3> QED
      BY <3>3, Zenon DEF w, r, v
  <2>4. /\ ClockWeight[5] = ClockWeight[6] * ClockRange[6] /\ ClockWeight[4] = ClockWeight[5] * ClockRange[5]
        /\ ClockWeight[3] = ClockWeight[4] * ClockRange[4] /\ ClockWeight[2] = ClockWeight[3] * ClockRange[3]
        /\ ClockWeight[1] = ClockWeight[2] * ClockRange[2] /\ ClockWeight[0] = ClockWeight[1] * ClockRange[1]
    BY ClockFacts
  <2>5. /\ 1 \in 1 .. 6 /\ 2 \in 1 .. 6 /\ 3 \in 1 .. 6 /\ 4 \in 1 .. 6 /\ 5 \in 1 .. 6 /\ 6 \in 1 .. 6
        /\ 0 \in 0 .. 5 /\ 1 \in 0 .. 5 /\ 2 \in 0 .. 5 /\ 3 \in 0 .. 5 /\ 4 \in 0 .. 5 /\ 5 \in 0 .. 5
    OBVIOUS
  <2>6. Whole(6) = Whole(5) + at[6] * ClockWeight[6]
    BY <2>3, <2>4, <2>5, Zenon
  <2>7. Whole(5) = Whole(4) + at[5] * ClockWeight[5]
    BY <2>3, <2>4, <2>5, Zenon
  <2>8. Whole(4) = Whole(3) + at[4] * ClockWeight[4]
    BY <2>3, <2>4, <2>5, Zenon
  <2>9. Whole(3) = Whole(2) + at[3] * ClockWeight[3]
    BY <2>3, <2>4, <2>5, Zenon
  <2>10. Whole(2) = Whole(1) + at[2] * ClockWeight[2]
    BY <2>3, <2>4, <2>5, Zenon
  <2>11. Whole(1) = Whole(0) + at[1] * ClockWeight[1]
    BY <2>3, <2>4, <2>5, Zenon
  <2> QED
    BY <2>2, <2>6, <2>7, <2>8, <2>9, <2>10, <2>11
<1>6. /\ at[1] \in Int /\ at[2] \in Int /\ at[3] \in Int /\ at[4] \in Int /\ at[5] \in Int /\ at[6] \in Int
  <2> SUFFICES ASSUME NEW i \in 1 .. 6 PROVE at[i] \in Int
    OBVIOUS
  <2>1. at[i] \in 0 .. ClockRange[i] - 1 /\ ClockRange[i] \in Nat
    BY <1>4, ClockFacts
  <2> QED
    BY <2>1
<1>7. Whole(0) \in Int /\ Whole(2) \in Int
  <2>1. ms \div ClockWeight[0] \in Int /\ ms \div ClockWeight[2] \in Int
    BY <1>1, <1>3
  <2> QED
    BY <1>1, <2>1
<1>8. ms % ClockWeight[2] = ms - Whole(2)
  <2>1. ms = Whole(2) + (ms % ClockWeight[2])
    BY <1>1, DividedSum
  <2>2. ms % ClockWeight[2] \in 0 .. ClockWeight[2] - 1
    BY <1>1, Divided
  <2> QED
    BY <1>1, <1>7, <2>1, <2>2
<1> HIDE DEF Whole
<1> DEFINE b1 == at[1] * ClockWeight[1]
           b2 == at[2] * ClockWeight[2]
           b3 == at[3] * ClockWeight[3]
           b4 == at[4] * ClockWeight[4]
           b5 == at[5] * ClockWeight[5]
<1>9. b1 \in Int /\ b2 \in Int /\ b3 \in Int /\ b4 \in Int /\ b5 \in Int /\ at[6] * ClockWeight[6] = at[6]
  BY <1>1, <1>6
<1>10. /\ ms = Whole(5) + at[6] /\ Whole(5) = Whole(4) + b5 /\ Whole(4) = Whole(3) + b4 /\ Whole(3) = Whole(2) + b3
       /\ Whole(2) = Whole(1) + b2 /\ Whole(1) = Whole(0) + b1
  BY <1>5, <1>9
<1> HIDE DEF b1, b2, b3, b4, b5
<1>11. ms = Whole(0) + b1 + b2 + b3 + b4 + b5 + at[6]
  BY <1>6, <1>7, <1>9, <1>10
<1>12. ms % ClockWeight[2] = b3 + b4 + b5 + at[6]
  BY <1>6, <1>7, <1>8, <1>9, <1>10
<1>13. ms \div ClockWeight[0] \in Int
  BY <1>1, <1>3
<1> QED
  BY <1>4, <1>11, <1>12, <1>13 DEF Whole, b1, b2, b3, b4, b5

(* Instants are numbers.                                                   *)
LEMMA InstantType ==
  ASSUME NEW m \in [1 .. 7 -> Int], NEW year \in Int
  PROVE  Instant(year, m) \in Int
<1>1. /\ m[2] \in Int /\ m[3] \in Int /\ m[4] \in Int /\ m[5] \in Int /\ m[6] \in Int /\ m[7] \in Int
  OBVIOUS
<1>2. /\ ClockWeight[0] \in Int /\ ClockWeight[1] \in Int /\ ClockWeight[2] \in Int
      /\ ClockWeight[3] \in Int /\ ClockWeight[4] \in Int /\ ClockWeight[5] \in Int
  BY ClockFacts
<1>3. m[7] \div MicrosPerMilli \in Int
  <2>1. MicrosPerMilli \in Nat \ {0}
    BY ClockAssumption
  <2> QED
    BY <1>1, <2>1, Divided
<1>4. /\ year * ClockWeight[0] \in Int /\ (m[2] - 1) * ClockWeight[1] \in Int /\ (m[3] - 1) * ClockWeight[2] \in Int
      /\ m[4] * ClockWeight[3] \in Int /\ m[5] * ClockWeight[4] \in Int /\ m[6] * ClockWeight[5] \in Int
  BY <1>1, <1>2
<1> QED
  BY <1>3, <1>4 DEF Instant

(* The milliseconds that Date.UTC gives are a number.                      *)
LEMMA DateType ==
  ASSUME NEW m \in [1 .. 7 -> Int]
  PROVE  DateUTC(m) \in Int
<1>1. m[1] \in Int /\ Century + m[1] \in Int
  BY ClockAssumption
<1>2. Instant(m[1], m) \in Int /\ Instant(Century + m[1], m) \in Int
  BY <1>1, InstantType
<1> QED
  BY <1>2 DEF DateUTC

(* A moment shifted by a zone's offset shows the instant that much later.  *)
LEMMA Shifted ==
  ASSUME NEW offset \in Int, NEW m \in [1 .. 7 -> Int],
         NEW ms, ms = DateUTC(m) + offset * MillisPerSecond,
         NEW x, x = ShiftByOffset(offset, m)
  PROVE  /\ ms \in Int
         /\ x \in [1 .. 7 -> Int]
         /\ Instant(x[1], x) = ms
         /\ x[7] % MicrosPerMilli = m[7] % MicrosPerMilli
         /\ x[7] \div MicrosPerMilli \in Int
         /\ ms % ClockWeight[2] =
              x[4] * ClockWeight[3] + x[5] * ClockWeight[4] + x[6] * ClockWeight[5] + (x[7] \div MicrosPerMilli)
         /\ \A i \in 2 .. 7 : x[i] < FieldRange[i]
<1> DEFINE at == [i \in 1 .. 6 |-> (ms \div ClockWeight[i]) % ClockRange[i]]
           micro == m[7] % MicrosPerMilli
           years == ms \div ClockWeight[0]
<1>1. ms \in Int
  <2>1. offset * MillisPerSecond \in Int
    BY ClockAssumption
  <2> QED
    BY <2>1, DateType
<1>2. x = <<years, at[1] + 1, at[2] + 1, at[3], at[4], at[5], micro + at[6] * MicrosPerMilli>>
  BY DEF ShiftByOffset
<1>3. \A i \in 1 .. 6 : at[i] = (ms \div ClockWeight[i]) % ClockRange[i]
  OBVIOUS
<1> HIDE DEF at
<1>4. /\ \A i \in 1 .. 6 : at[i] \in 0 .. ClockRange[i] - 1
      /\ years \in Int
      /\ ms = years * ClockWeight[0] + at[1] * ClockWeight[1] + at[2] * ClockWeight[2]
                 + at[3] * ClockWeight[3] + at[4] * ClockWeight[4] + at[5] * ClockWeight[5] + at[6]
      /\ ms % ClockWeight[2] = at[3] * ClockWeight[3] + at[4] * ClockWeight[4] + at[5] * ClockWeight[5] + at[6]
  BY <1>1, <1>3, ClockDigits
<1>5. /\ at[1] \in 0 .. MonthsPerYear - 1 /\ at[2] \in 0 .. DaysPerMonth - 1 /\ at[3] \in 0 .. HoursPerDay - 1
      /\ at[4] \in 0 .. MinutesPerHour - 1 /\ at[5] \in 0 .. SecondsPerMinute - 1 /\ at[6] \in 0 .. MillisPerSecond - 1
  BY <1>4 DEF ClockRange
<1>6. /\ MicrosPerMilli \in Nat \ {0} /\ MonthsPerYear \in Nat /\ DaysPerMonth \in Nat /\ HoursPerDay \in Nat
      /\ MinutesPerHour \in Nat /\ SecondsPerMinute \in Nat /\ MillisPerSecond \in Nat
  BY ClockAssumption
<1>7. micro \in 0 .. MicrosPerMilli - 1
  <2>1. m[7] \in Int
    OBVIOUS
  <2> QED
    BY <1>6, <2>1, Divided
<1> HIDE DEF micro, years
<1>8. /\ x[1] = years /\ x[2] = at[1] + 1 /\ x[3] = at[2] + 1 /\ x[4] = at[3] /\ x[5] = at[4] /\ x[6] = at[5]
      /\ x[7] = micro + at[6] * MicrosPerMilli
  BY <1>2
<1>9. at[6] * MicrosPerMilli \in Nat
  BY <1>5, <1>6
<1>10. x \in [1 .. 7 -> Int]
  <2>1. /\ years \in Int /\ at[1] + 1 \in Int /\ at[2] + 1 \in Int /\ at[3] \in Int /\ at[4] \in Int /\ at[5] \in Int
        /\ micro + at[6] * MicrosPerMilli \in Int
    BY <1>4, <1>5, <1>6, <1>7, <1>9
  <2> QED
    BY <1>2, <2>1
<1>11. x[7] \div MicrosPerMilli = at[6] /\ x[7] % MicrosPerMilli = micro
  <2>1. x[7] = at[6] * MicrosPerMilli + micro
    BY <1>6, <1>7, <1>8, <1>9
  <2>2. at[6] \in Int
    BY <1>5
  <2> DEFINE d == at[6]
             unit == MicrosPerMilli
  <2>3. d \in Int /\ unit \in Nat \ {0} /\ micro \in 0 .. unit - 1
    BY <1>6, <1>7, <2>2
  <2> HIDE DEF d, unit
  <2>4. (d * unit + micro) \div unit = d /\ (d * unit + micro) % unit = micro
    BY <2>3, DivisionUnique
  <2> QED
    BY <2>1, <2>4 DEF d, unit
<1>12. Instant(x[1], x) = ms
  <2>1. (at[1] + 1) - 1 = at[1] /\ (at[2] + 1) - 1 = at[2]
    BY <1>5, <1>6
  <2>2. Instant(x[1], x) = years * ClockWeight[0] + at[1] * ClockWeight[1] + at[2] * ClockWeight[2]
                 + at[3] * ClockWeight[3] + at[4] * ClockWeight[4] + at[5] * ClockWeight[5] + at[6]
    BY <1>8, <1>11, <2>1, Zenon DEF Instant
  <2> QED
    BY <1>4, <2>2, Zenon
<1>13. ms % ClockWeight[2] =
         x[4] * ClockWeight[3] + x[5] * ClockWeight[4] + x[6] * ClockWeight[5] + (x[7] \div MicrosPerMilli)
  BY <1>4, <1>8, <1>11, Zenon
<1>14. \A i \in 2 .. 7 : x[i] < FieldRange[i]
  <2>1. x[2] < MonthsPerYear + 1 /\ x[3] < DaysPerMonth + 1 /\ x[4] < HoursPerDay /\ x[5] < MinutesPerHour
        /\ x[6] < SecondsPerMinute
    BY <1>5, <1>6, <1>8
  <2>2. x[7] < MillisPerSecond * MicrosPerMilli
    <3> DEFINE d == at[6]
               unit == MicrosPerMilli
               n == MillisPerSecond
    <3>1. d \in 0 .. n - 1 /\ unit \in Nat \ {0} /\ micro \in 0 .. unit - 1 /\ n \in Nat /\ x[7] = micro + d * unit
      BY <1>5, <1>6, <1>7, <1>8
    <3> HIDE DEF d, unit, n
    <3>2. d * unit <= (n - 1) * unit /\ (n - 1) * unit = n * unit - unit /\ d * unit \in Int /\ n * unit \in Int
      BY <3>1
    <3>3. x[7] < n * unit
      BY <3>1, <3>2
    <3> QED
      BY <3>3 DEF unit, n
  <2>3. /\ FieldRange[2] = MonthsPerYear + 1 /\ FieldRange[3] = DaysPerMonth + 1 /\ FieldRange[4] = HoursPerDay
        /\ FieldRange[5] = MinutesPerHour /\ FieldRange[6] = SecondsPerMinute
        /\ FieldRange[7] = MillisPerSecond * MicrosPerMilli
    BY DEF FieldRange, MicrosPerSecond
  <2> QED
    BY <2>1, <2>2, <2>3
<1>15. x[7] \div MicrosPerMilli \in Int
  BY <1>5, <1>11
<1>16. x[7] % MicrosPerMilli = m[7] % MicrosPerMilli
  BY <1>11 DEF micro
<1> QED
  BY <1>1, <1>10, <1>12, <1>13, <1>14, <1>15, <1>16

(* The clock's constants are positive, its units numbers.                  *)
LEMMA ClockUnits ==
  /\ MicrosPerMilli \in Nat \ {0} /\ MillisPerSecond \in Nat \ {0} /\ SecondsPerMinute \in Nat \ {0}
  /\ MinutesPerHour \in Nat \ {0} /\ HoursPerDay \in Nat \ {0} /\ MonthsPerYear \in Nat \ {0}
  /\ MicrosPerSecond \in Nat \ {0} /\ MicrosPerMinute \in Nat \ {0} /\ MicrosPerHour \in Nat \ {0}
  /\ MicrosPerDay \in Nat \ {0}
<1>1. /\ MicrosPerMilli \in Nat \ {0} /\ MillisPerSecond \in Nat \ {0} /\ SecondsPerMinute \in Nat \ {0}
      /\ MinutesPerHour \in Nat \ {0} /\ HoursPerDay \in Nat \ {0} /\ MonthsPerYear \in Nat \ {0}
  BY ClockAssumption
<1>2. MicrosPerSecond \in Nat \ {0}
  BY <1>1, Product DEF MicrosPerSecond
<1>3. MicrosPerMinute \in Nat \ {0}
  BY <1>1, <1>2, Product DEF MicrosPerMinute
<1>4. MicrosPerHour \in Nat \ {0}
  BY <1>1, <1>3, Product DEF MicrosPerHour
<1>5. MicrosPerDay \in Nat \ {0}
  BY <1>1, <1>4, Product DEF MicrosPerDay
<1> QED
  BY <1>1, <1>2, <1>3, <1>4, <1>5

(* East of Greenwich the offset and its suffix say the zone.               *)
LEMMA ZoneRead ==
  ASSUME zone \in Zones, zone >= 0
  PROVE  /\ TimezoneOffset = zone * SecondsPerMinute /\ TimezoneOffset \in Nat /\ zone \in Nat
         /\ \A d : d.zone = ZoneSuffix(TimezoneOffset) => ZoneShown(d)
<1>1. zone \in Nat /\ zone < ZoneRange /\ ZoneRange \in Nat \ {0}
  BY ZonesAssumption, ClockAssumption
<1>2. zone % ZoneRange = zone
  <2>1. zone \in 0 .. ZoneRange - 1
    BY <1>1
  <2> QED
    BY <1>1, <2>1, Remains
<1>3. TimezoneOffset = zone * SecondsPerMinute /\ TimezoneOffset \in Nat
  BY <1>1, <1>2, ClockUnits DEF TimezoneOffset
<1>4. TimezoneOffset \div SecondsPerMinute = zone
  <2>1. (zone * SecondsPerMinute + 0) \div SecondsPerMinute = zone
    <3> DEFINE n == SecondsPerMinute
    <3>1. n \in Nat \ {0} /\ 0 \in 0 .. n - 1 /\ zone \in Int
      BY <1>1, ClockUnits
    <3> HIDE DEF n
    <3>2. (zone * n + 0) \div n = zone
      BY <3>1, DivisionUnique
    <3> QED
      BY <3>2 DEF n
  <2>2. zone * SecondsPerMinute + 0 = zone * SecondsPerMinute
    BY <1>1, ClockUnits
  <2> QED
    BY <1>3, <2>1, <2>2
<1>5. ASSUME NEW d, d.zone = ZoneSuffix(TimezoneOffset) PROVE ZoneShown(d)
  <2>1. /\ d.zone.sign = (IF TimezoneOffset = 0 THEN 0 ELSE 1)
        /\ d.zone.hours = zone \div MinutesPerHour
        /\ d.zone.minutes = zone % MinutesPerHour
    BY <1>3, <1>4, <1>5 DEF ZoneSuffix
  <2>2. zone = (zone \div MinutesPerHour) * MinutesPerHour + (zone % MinutesPerHour)
    BY <1>1, ClockUnits, DividedSum
  <2>3. TimezoneOffset = 0 => zone = 0
    <3>1. zone # 0 => zone * SecondsPerMinute # 0
      BY <1>1, ClockUnits, Product
    <3> QED
      BY <1>3, <3>1
  <2>4. d.zone.hours * MinutesPerHour + d.zone.minutes = zone
    BY <2>1, <2>2, Zenon
  <2>5. (d.zone.sign = 0 /\ zone = 0) \/ d.zone.sign = 1
    BY <2>1, <2>3
  <2>6. d.zone.sign * zone = zone
    BY <1>1, <2>5
  <2> QED
    BY <2>4, <2>6, Zenon DEF ZoneShown
<1> QED
  BY <1>1, <1>3, <1>5

(* A moment shown in a zone, read back, is the moment.                     *)
LEMMA ZonedMomentRead ==
  ASSUME zone \in Zones, zone >= 0, NEW m \in Moments, m[1] >= TwoDigitYears,
         NEW x, x = ShiftByOffset(TimezoneOffset, m)
  PROVE  /\ Micros(x) = Micros(m) + zone * MicrosPerMinute
         /\ \A i \in 2 .. 7 : x[i] < FieldRange[i]
<1> DEFINE offset == TimezoneOffset
           ms == DateUTC(m) + offset * MillisPerSecond
           rest == m[7] % MicrosPerMilli
           start == Instant(m[1], m)
<1>1. offset = zone * SecondsPerMinute /\ offset \in Int /\ zone \in Int
  BY ZoneRead
<1>2. m \in [1 .. 7 -> Int]
  BY DEF Moments
<1>3. /\ Instant(x[1], x) = ms
      /\ x[7] % MicrosPerMilli = rest
      /\ \A i \in 2 .. 7 : x[i] < FieldRange[i]
  <2> HIDE DEF ms, offset
  <2>1. offset \in Int
    BY <1>1
  <2>2. x = ShiftByOffset(offset, m) /\ ms = DateUTC(m) + offset * MillisPerSecond
    BY DEF offset, ms
  <2> QED
    BY <1>2, <2>1, <2>2, Shifted
<1>4. DateUTC(m) = start
  <2>1. m[1] \notin 0 .. TwoDigitYears - 1
    BY <1>2, ClockAssumption
  <2> QED
    BY <2>1 DEF DateUTC
<1>5. start \in Int
  <2>1. m[1] \in Int
    BY <1>2
  <2> QED
    BY <1>2, <2>1, InstantType
<1>6. rest \in Int
  <2>1. m[7] \in Int
    BY <1>2
  <2>2. rest \in 0 .. MicrosPerMilli - 1
    BY <2>1, ClockUnits, Divided
  <2> QED
    BY <2>2, ClockUnits
<1>7. Micros(x) = (start + offset * MillisPerSecond) * MicrosPerMilli + rest
  BY <1>3, <1>4, Zenon DEF Micros
<1>8. Micros(m) = start * MicrosPerMilli + rest
  BY Zenon DEF Micros
<1>9. (offset * MillisPerSecond) * MicrosPerMilli = zone * MicrosPerMinute
  <2> DEFINE a == SecondsPerMinute
             b == MillisPerSecond
             c == MicrosPerMilli
  <2>1. a \in Int /\ b \in Int /\ c \in Int
    BY ClockUnits
  <2>2. offset = zone * a
    BY <1>1
  <2> HIDE DEF a, b, c, offset
  <2>3. ((zone * a) * b) * c = zone * (a * (b * c))
    BY <1>1, <2>1
  <2>4. (offset * b) * c = zone * (a * (b * c))
    BY <2>2, <2>3
  <2> QED
    BY <2>4 DEF a, b, c, MicrosPerMinute, MicrosPerSecond
<1>10. Micros(x) = Micros(m) + zone * MicrosPerMinute
  <2> DEFINE u == MicrosPerMilli
             o == offset * MillisPerSecond
             z == zone * MicrosPerMinute
  <2>1. u \in Int /\ o \in Int /\ z \in Int /\ start \in Int /\ rest \in Int
    BY <1>1, <1>5, <1>6, ClockUnits
  <2>2. /\ Micros(x) = (start + o) * u + rest /\ Micros(m) = start * u + rest /\ o * u = z
    BY <1>7, <1>8, <1>9, Zenon
  <2> HIDE DEF u, o, z, start, rest
  <2>3. (start + o) * u = start * u + o * u
    BY <2>1
  <2>4. start * u \in Int
    BY <2>1
  <2>5. Micros(x) = Micros(m) + z
    BY <2>1, <2>2, <2>3, <2>4
  <2> QED
    BY <2>5 DEF z
<1> QED
  BY <1>3, <1>10

(* Whole multiples leave no trace in a remainder.                          *)
LEMMA RemainderShift ==
  ASSUME NEW m \in Nat \ {0}, NEW k \in Int, NEW n \in Int
  PROVE  (k * m + n) % m = n % m
<1> DEFINE q == n \div m
           r == n % m
<1>1. q \in Int /\ r \in 0 .. m - 1 /\ n = q * m + r
  BY Divided, DividedSum
<1> HIDE DEF q, r
<1>2. k * m + n = (k + q) * m + r
  BY <1>1
<1>3. k + q \in Int
  BY <1>1
<1>4. ((k + q) * m + r) % m = r
  BY <1>1, <1>3, DivisionUnique
<1> QED
  BY <1>2, <1>4 DEF r

(* A time of day on today, as a moment, and on some day.                   *)
LEMMA DayOf ==
  ASSUME NEW t, t = <<t[1], t[2], t[3], t[4]>>, t[1] \in Int, t[2] \in Int, t[3] \in Int, t[4] \in Int
  PROVE  /\ Today \o t = <<Century, 1, 1, t[1], t[2], t[3], t[4]>>
         /\ OnSomeDay(t) = <<0, 1, 1, t[1], t[2], t[3], t[4]>>
         /\ Today \o t \in [1 .. 7 -> Int]
         /\ OnSomeDay(t) \in [1 .. 7 -> Int]
<1>1. \A a, b, c \in Int : <<a, b, c>> \o <<t[1], t[2], t[3], t[4]>> = <<a, b, c, t[1], t[2], t[3], t[4]>>
  <2> SUFFICES ASSUME NEW a \in Int, NEW b \in Int, NEW c \in Int,
                      NEW e1 \in Int, NEW e2 \in Int, NEW e3 \in Int, NEW e4 \in Int
               PROVE  <<a, b, c>> \o <<e1, e2, e3, e4>> = <<a, b, c, e1, e2, e3, e4>>
    OBVIOUS
  <2> DEFINE s == <<a, b, c>> \o <<e1, e2, e3, e4>>
             w == <<a, b, c, e1, e2, e3, e4>>
  <2>1. s \in Seq(Int) /\ Len(s) = 7 /\ w \in Seq(Int) /\ Len(w) = 7
    OBVIOUS
  <2>2. /\ s[1] = a /\ s[2] = b /\ s[3] = c /\ s[4] = e1 /\ s[5] = e2 /\ s[6] = e3 /\ s[7] = e4
    OBVIOUS
  <2>3. /\ w[1] = a /\ w[2] = b /\ w[3] = c /\ w[4] = e1 /\ w[5] = e2 /\ w[6] = e3 /\ w[7] = e4
    OBVIOUS
  <2> HIDE DEF s, w
  <2>4. \A i \in 1 .. 7 : s[i] = w[i]
    BY <2>2, <2>3
  <2>5. s = w
    BY <2>1, <2>4, SeqEqual
  <2> QED
    BY <2>5 DEF s, w
<1>2. /\ Today \o t = <<Century, 1, 1, t[1], t[2], t[3], t[4]>>
      /\ OnSomeDay(t) = <<0, 1, 1, t[1], t[2], t[3], t[4]>>
  <2>1. Century \in Int /\ 0 \in Int /\ 1 \in Int
    BY ClockAssumption
  <2> QED
    BY <1>1, <2>1, Zenon DEF Today, OnSomeDay
<1>3. Century \in Int
  BY ClockAssumption
<1>4. /\ <<Century, 1, 1, t[1], t[2], t[3], t[4]>> \in [1 .. 7 -> Int]
      /\ <<0, 1, 1, t[1], t[2], t[3], t[4]>> \in [1 .. 7 -> Int]
  BY <1>3
<1> QED
  BY <1>2, <1>4, Zenon

(* The last four of seven.                                                 *)
LEMMA LastFour ==
  ASSUME NEW x \in [1 .. 7 -> Int]
  PROVE  SubSeq(x, 4, 7) = <<x[4], x[5], x[6], x[7]>>
<1>1. x \in Seq(Int) /\ Len(x) = 7
  <2>1. x \in Seq(Int)
    BY SeqDef
  <2>2. DOMAIN x = 1 .. 7 /\ DOMAIN x = 1 .. Len(x) /\ Len(x) \in Nat
    BY <2>1, LenProperties
  <2>3. 7 \in 1 .. Len(x) /\ ~(8 \in 1 .. Len(x))
    BY <2>2
  <2> QED
    BY <2>1, <2>2, <2>3
<1> DEFINE s == SubSeq(x, 4, 7)
           w == <<x[4], x[5], x[6], x[7]>>
<1>2. s \in Seq(Int) /\ Len(s) = 4 /\ \A i \in 1 .. 4 : s[i] = x[4 + i - 1]
  BY <1>1, SubSeqProperties
<1>3. x[4] \in Int /\ x[5] \in Int /\ x[6] \in Int /\ x[7] \in Int
  OBVIOUS
<1>4. w \in Seq(Int) /\ Len(w) = 4 /\ w[1] = x[4] /\ w[2] = x[5] /\ w[3] = x[6] /\ w[4] = x[7]
  BY <1>3
<1> HIDE DEF s, w
<1>5. \A i \in 1 .. 4 : s[i] = w[i]
  <2>1. s[1] = x[4] /\ s[2] = x[5] /\ s[3] = x[6] /\ s[4] = x[7]
    BY <1>2
  <2> QED
    BY <1>4, <2>1
<1>6. s = w
  BY <1>2, <1>4, <1>5, SeqEqual
<1> QED
  BY <1>6 DEF s, w

(* A time of day shown in a zone, read back, is the time of the zone's day.*)
LEMMA ZonedTimeRead ==
  ASSUME zone \in Zones, zone >= 0, NEW t \in TimesOfDay,
         NEW d, d = SubSeq(ShiftByOffset(TimezoneOffset, Today \o t), 4, 7)
  PROVE  Micros(OnSomeDay(d)) = (Micros(OnSomeDay(t)) + zone * MicrosPerMinute) % MicrosPerDay
<1> DEFINE offset == TimezoneOffset
           m == Today \o t
           x == ShiftByOffset(offset, m)
           ms == DateUTC(m) + offset * MillisPerSecond
           rest == t[4] % MicrosPerMilli
           u == MicrosPerMilli
           day == ClockWeight[2]
           clock == t[1] * ClockWeight[3] + t[2] * ClockWeight[4] + t[3] * ClockWeight[5] + (t[4] \div u)
           o == offset * MillisPerSecond
           shifted == clock + o
<1>1. offset = zone * SecondsPerMinute /\ offset \in Int /\ zone \in Int
  BY ZoneRead
<1>2. /\ t \in [1 .. 4 -> Nat] /\ t[1] \in Int /\ t[2] \in Int /\ t[3] \in Int /\ t[4] \in Int
  BY DEF TimesOfDay
<1>3. t = <<t[1], t[2], t[3], t[4]>>
  BY <1>2
<1>4. /\ m = <<Century, 1, 1, t[1], t[2], t[3], t[4]>> /\ m \in [1 .. 7 -> Int]
      /\ OnSomeDay(t) = <<0, 1, 1, t[1], t[2], t[3], t[4]>>
  BY <1>2, <1>3, DayOf
<1>5. u \in Nat \ {0} /\ day \in Nat \ {0} /\ o \in Int
  BY <1>1, ClockUnits, ClockFacts
<1>6. rest \in 0 .. u - 1 /\ t[4] \div u \in Int
  BY <1>2, <1>5, Divided
<1>7. /\ t[1] * ClockWeight[3] \in Int /\ t[2] * ClockWeight[4] \in Int /\ t[3] * ClockWeight[5] \in Int
      /\ ClockWeight[0] \in Int /\ ClockWeight[1] \in Int
  BY <1>2, ClockFacts
<1>8. clock \in Int
  BY <1>6, <1>7
<1>9. ASSUME NEW year \in Int, NEW y, y[2] = 1, y[3] = 1, y[4] = t[1], y[5] = t[2], y[6] = t[3], y[7] = t[4]
      PROVE  Instant(year, y) = year * ClockWeight[0] + clock
  <2>1. (1 - 1) * ClockWeight[1] = 0 /\ (1 - 1) * ClockWeight[2] = 0 /\ year * ClockWeight[0] \in Int
    BY <1>5, <1>7
  <2>2. Instant(year, y) = year * ClockWeight[0] + (1 - 1) * ClockWeight[1] + (1 - 1) * ClockWeight[2]
          + t[1] * ClockWeight[3] + t[2] * ClockWeight[4] + t[3] * ClockWeight[5] + (t[4] \div u)
    BY <1>9, Zenon DEF Instant
  <2> HIDE DEF u
  <2> QED
    BY <1>6, <1>7, <2>1, <2>2
<1>10. /\ m[1] = Century /\ m[2] = 1 /\ m[3] = 1 /\ m[4] = t[1] /\ m[5] = t[2] /\ m[6] = t[3] /\ m[7] = t[4]
  <2> HIDE DEF m
  <2> QED
    BY <1>4
<1>11. Micros(OnSomeDay(t)) = clock * u + rest
  <2> DEFINE y == OnSomeDay(t)
  <2>1. /\ y[1] = 0 /\ y[2] = 1 /\ y[3] = 1 /\ y[4] = t[1] /\ y[5] = t[2] /\ y[6] = t[3] /\ y[7] = t[4]
    <3> HIDE DEF y
    <3>1. y = <<0, 1, 1, t[1], t[2], t[3], t[4]>>
      BY <1>4 DEF y
    <3> QED
      BY <3>1
  <2> HIDE DEF y, clock
  <2>2. Instant(0, y) = 0 * ClockWeight[0] + clock
    BY <1>9, <2>1
  <2>3. 0 * ClockWeight[0] + clock = clock
    BY <1>7, <1>8
  <2> QED
    BY <2>1, <2>2, <2>3, Zenon DEF Micros, y
<1>12. PICK year \in Int : DateUTC(m) = year * ClockWeight[0] + clock
  <2>1. Century \in Int /\ Century + Century \in Int
    BY ClockAssumption
  <2>2. Instant(Century, m) = Century * ClockWeight[0] + clock
    <3> HIDE DEF m, clock
    <3> QED
      BY <1>9, <1>10, <2>1
  <2>3. Instant(Century + Century, m) = (Century + Century) * ClockWeight[0] + clock
    <3> HIDE DEF m, clock
    <3> QED
      BY <1>9, <1>10, <2>1
  <2>4. DateUTC(m) = Instant(Century, m) \/ DateUTC(m) = Instant(Century + Century, m)
    <3> HIDE DEF m
    <3> QED
      BY <1>10, Zenon DEF DateUTC
  <2> QED
    BY <2>1, <2>2, <2>3, <2>4
<1> HIDE DEF m
<1>13. /\ ms \in Int /\ x \in [1 .. 7 -> Int] /\ x[7] % u = m[7] % u /\ x[7] \div u \in Int
       /\ ms % day = x[4] * ClockWeight[3] + x[5] * ClockWeight[4] + x[6] * ClockWeight[5] + (x[7] \div u)
  <2> HIDE DEF offset, ms, x
  <2>1. x = ShiftByOffset(offset, m) /\ ms = DateUTC(m) + offset * MillisPerSecond
    BY DEF x, ms
  <2> QED
    BY <1>1, <1>4, <2>1, Shifted
<1>14. ms % day = shifted % day
  <2>1. ms = year * ClockWeight[0] + shifted
    <3> HIDE DEF o, clock
    <3>1. ms = DateUTC(m) + o
      BY DEF o
    <3>2. year * ClockWeight[0] \in Int
      BY <1>7
    <3> QED
      BY <1>5, <1>8, <1>12, <3>1, <3>2
  <2>2. ClockWeight[0] = (ClockRange[2] * ClockRange[1]) * day /\ ClockRange[2] * ClockRange[1] \in Int
    <3>1. ClockWeight[0] = (day * ClockRange[2]) * ClockRange[1] /\ ClockRange[1] \in Int /\ ClockRange[2] \in Int
      BY ClockFacts
    <3> QED
      BY <1>5, <3>1
  <2> DEFINE k == ClockRange[2] * ClockRange[1]
  <2>3. k \in Int /\ year * k \in Int /\ year * ClockWeight[0] = (year * k) * day
    <3>1. k \in Int /\ ClockWeight[0] = k * day
      BY <2>2
    <3> HIDE DEF k
    <3> QED
      BY <1>5, <3>1
  <2>4. shifted \in Int
    BY <1>5, <1>8
  <2> HIDE DEF shifted, day, k
  <2>5. ((year * k) * day + shifted) % day = shifted % day
    BY <1>5, <2>3, <2>4, RemainderShift
  <2> QED
    BY <2>1, <2>3, <2>5, Zenon
<1>15. Micros(OnSomeDay(d)) = (shifted % day) * u + rest
  <2>1. d = <<x[4], x[5], x[6], x[7]>>
    <3>1. d = SubSeq(x, 4, 7)
      BY DEF m
    <3> HIDE DEF x
    <3>2. x \in [1 .. 7 -> Int]
      BY <1>13
    <3> QED
      BY <3>1, <3>2, LastFour
  <2>2. d[1] = x[4] /\ d[2] = x[5] /\ d[3] = x[6] /\ d[4] = x[7]
    BY <2>1
  <2>3. d[1] \in Int /\ d[2] \in Int /\ d[3] \in Int /\ d[4] \in Int
    <3> HIDE DEF x
    <3> QED
      BY <1>13, <2>2
  <2>4. d = <<d[1], d[2], d[3], d[4]>>
    BY <2>1, <2>2
  <2>5. OnSomeDay(d) = <<0, 1, 1, d[1], d[2], d[3], d[4]>>
    BY <2>3, <2>4, DayOf
  <2> DEFINE y == OnSomeDay(d)
  <2>6. /\ y[1] = 0 /\ y[2] = 1 /\ y[3] = 1 /\ y[4] = x[4] /\ y[5] = x[5] /\ y[6] = x[6] /\ y[7] = x[7]
    <3> HIDE DEF y, x
    <3>1. y = <<0, 1, 1, d[1], d[2], d[3], d[4]>>
      BY <2>5 DEF y
    <3> QED
      BY <2>2, <3>1
  <2> HIDE DEF y, x, ms, shifted, day
  <2> DEFINE tail == x[4] * ClockWeight[3] + x[5] * ClockWeight[4] + x[6] * ClockWeight[5] + (x[7] \div u)
  <2>7. Instant(0, y) = 0 * ClockWeight[0] + (1 - 1) * ClockWeight[1] + (1 - 1) * ClockWeight[2]
          + x[4] * ClockWeight[3] + x[5] * ClockWeight[4] + x[6] * ClockWeight[5] + (x[7] \div u)
    BY <2>6, Zenon DEF Instant
  <2>8. /\ x[4] * ClockWeight[3] \in Int /\ x[5] * ClockWeight[4] \in Int /\ x[6] * ClockWeight[5] \in Int
    <3>1. x[4] \in Int /\ x[5] \in Int /\ x[6] \in Int
      BY <1>13
    <3> QED
      BY <3>1, ClockFacts
  <2>9. 0 * ClockWeight[0] = 0 /\ (1 - 1) * ClockWeight[1] = 0 /\ (1 - 1) * ClockWeight[2] = 0
    BY <1>7, ClockFacts
  <2>10. Instant(0, y) = tail
    <3> HIDE DEF u
    <3> QED
      BY <1>13, <2>7, <2>8, <2>9
  <2>11. tail = shifted % day
    BY <1>13, <1>14, Zenon
  <2>12. y[7] % u = rest
    BY <1>10, <1>13, <2>6, Zenon
  <2>13. Micros(y) = Instant(y[1], y) * u + (y[7] % u)
    BY Zenon DEF Micros
  <2>14. Micros(y) = (shifted % day) * u + rest
    BY <2>6, <2>10, <2>11, <2>12, <2>13, Zenon
  <2> QED
    BY <2>14 DEF y
<1>16. MicrosPerDay = u * day
  <2>1. /\ day = ClockWeight[3] * HoursPerDay /\ ClockWeight[3] = ClockWeight[4] * MinutesPerHour
        /\ ClockWeight[4] = ClockWeight[5] * SecondsPerMinute /\ ClockWeight[5] = 1 * MillisPerSecond
    BY ClockFacts DEF ClockRange
  <2> DEFINE a == MillisPerSecond
             b == SecondsPerMinute
             c == MinutesPerHour
             e == HoursPerDay
  <2>2. a \in Int /\ b \in Int /\ c \in Int /\ e \in Int /\ u \in Int
    BY ClockUnits
  <2>3. day = (((1 * a) * b) * c) * e
    BY <2>1, Zenon
  <2>4. MicrosPerDay = e * (c * (b * (a * u)))
    BY Zenon DEF MicrosPerDay, MicrosPerHour, MicrosPerMinute, MicrosPerSecond
  <2> HIDE DEF a, b, c, e, u, day
  <2>5. (1 * a) * b = a * b /\ a * b \in Int /\ (a * b) * c \in Int
    BY <2>2
  <2>6. b * (a * u) = (a * b) * u
    BY <2>2
  <2> DEFINE ab == a * b
  <2>7. c * (ab * u) = (ab * c) * u /\ ab * c \in Int
    BY <2>2, <2>5
  <2> DEFINE abc == ab * c
  <2>8. e * (abc * u) = u * (abc * e)
    <3>1. abc \in Int
      BY <2>7
    <3> HIDE DEF abc
    <3> QED
      BY <2>2, <3>1
  <2> QED
    BY <2>3, <2>4, <2>5, <2>6, <2>7, <2>8, Zenon
<1>17. zone * MicrosPerMinute = o * u
  <2> DEFINE a == SecondsPerMinute
             b == MillisPerSecond
  <2>1. a \in Int /\ b \in Int /\ u \in Int
    BY ClockUnits
  <2>2. offset = zone * a
    BY <1>1
  <2> HIDE DEF a, b, offset, u
  <2>3. ((zone * a) * b) * u = zone * (a * (b * u))
    BY <1>1, <2>1
  <2>4. (offset * b) * u = zone * (a * (b * u))
    BY <2>2, <2>3
  <2> QED
    BY <2>4 DEF a, b, u, MicrosPerMinute, MicrosPerSecond
<1>18. shifted \in Int
  BY <1>5, <1>8
<1>19. Micros(OnSomeDay(t)) + zone * MicrosPerMinute = shifted * u + rest
  <2>1. shifted = clock + o
    OBVIOUS
  <2>2. u \in Int /\ rest \in Int
    BY <1>5, <1>6
  <2> HIDE DEF shifted, clock, o, u, rest
  <2>3. (clock + o) * u = clock * u + o * u /\ clock * u \in Int /\ o * u \in Int
    BY <1>5, <1>8, <2>2
  <2> QED
    BY <1>11, <1>17, <2>1, <2>2, <2>3
<1> HIDE DEF shifted, day, u, rest, clock, o
<1>20. (shifted * u + rest) \div u = shifted /\ (shifted * u + rest) % u = rest
  BY <1>5, <1>6, <1>18, DivisionUnique
<1> DEFINE n == shifted * u + rest
<1>21. n % (u * day) = (shifted % day) * u + rest
  <2>1. n \in Int
    BY <1>5, <1>6, <1>18
  <2>2. n \div u = shifted /\ n % u = rest
    BY <1>20
  <2> HIDE DEF n
  <2>3. n % (u * day) = ((n \div u) % day) * u + (n % u)
    BY <1>5, <2>1, DigitAbove
  <2> QED
    BY <2>2, <2>3, Zenon
<1> QED
  BY <1>15, <1>16, <1>19, <1>21, Zenon

-----------------------------------------------------------------------------
(* A duration's components, of units that have a value.                    *)
Components(units) == [unit : DOMAIN units, whole : Int, fraction : Nat]

Valued(units) == \A unit \in DOMAIN units : units[unit] \in Int

(* A component's amount is a number.                                       *)
LEMMA AmountOfType ==
  ASSUME NEW units, Valued(units), NEW c \in Components(units)
  PROVE  AmountOf(c, units) \in Int
<1>1. c.whole \in Int /\ c.fraction \in Int /\ units[c.unit] \in Int
  BY DEF Components, Valued
<1>2. c.whole * units[c.unit] \in Int
  BY <1>1
<1>3. (IF c.whole < 0 THEN -c.fraction ELSE c.fraction) \in Int
  BY <1>1
<1> QED
  BY <1>2, <1>3 DEF AmountOf

(* The amount of a duration is the sum of its components' amounts.         *)
LEMMA AmountSums ==
  ASSUME NEW units, Valued(units), NEW d \in Seq(Components(units))
  PROVE  \E sum : /\ Amount(d, units) = sum[Len(d)]
                  /\ sum[0] = 0
                  /\ \A i \in 1 .. Len(d) : sum[i] = sum[i - 1] + AmountOf(d[i], units)
                  /\ \A i \in 0 .. Len(d) : sum[i] \in Int
<1> DEFINE n == Len(d)
           f == [i \in 1 .. n |-> AmountOf(d[i], units)]
           Step(g) == [i \in 0 .. n |-> IF i = 0 THEN 0 ELSE g[i - 1] + AmountOf(d[i], units)]
           Plain(g) == [i \in 0 .. n |-> IF i = 0 THEN 0 ELSE g[i - 1] + f[i]]
           sum == CHOOSE g : g = Step(g)
<1>1. Amount(d, units) = sum[n]
  BY DEF Amount
<1>2. n \in Nat /\ f \in [1 .. n -> Int]
  <2>1. n \in Nat
    OBVIOUS
  <2>2. ASSUME NEW i \in 1 .. n PROVE AmountOf(d[i], units) \in Int
    <3>1. d[i] \in Components(units)
      BY <2>1
    <3> QED
      BY <3>1, AmountOfType
  <2> QED
    BY <2>1, <2>2
<1>3. ASSUME NEW g PROVE Step(g) = Plain(g)
  OBVIOUS
<1>4. \E g : g = Step(g)
  <2> HIDE DEF f, n
  <2>1. PICK g : g = Plain(g)
    BY <1>2, SumsExist
  <2> HIDE DEF Plain, Step
  <2>2. Step(g) = Plain(g)
    BY <1>3 DEF Plain, Step
  <2> QED
    BY <2>1, <2>2 DEF Step
<1>5. sum = Plain(sum)
  <2> HIDE DEF Plain, Step
  <2>1. \E g : g = Step(g)
    BY <1>4 DEF Step
  <2>2. sum = Step(sum)
    BY <2>1
  <2> HIDE DEF sum
  <2>3. Step(sum) = Plain(sum)
    BY <1>3 DEF Plain, Step
  <2> QED
    BY <2>2, <2>3
<1> HIDE DEF sum
<1>6. /\ sum[0] = 0 /\ (\A i \in 1 .. n : sum[i] = sum[i - 1] + f[i])
      /\ \A i \in 0 .. n : sum[i] \in Int
  <2> HIDE DEF f, n
  <2> QED
    BY <1>2, <1>5, SumsAdd
<1>7. \A i \in 1 .. n : sum[i] = sum[i - 1] + AmountOf(d[i], units)
  BY <1>6
<1> QED
  BY <1>1, <1>6, <1>7

(* A duration without components amounts to nothing.                       *)
LEMMA AmountEmpty ==
  ASSUME NEW units, Valued(units)
  PROVE  <<>> \in Seq(Components(units)) /\ Amount(<<>>, units) = 0
<1>1. <<>> \in Seq(Components(units)) /\ Len(<<>>) = 0
  OBVIOUS
<1>2. PICK sum : Amount(<<>>, units) = sum[0] /\ sum[0] = 0
  BY <1>1, AmountSums
<1> QED
  BY <1>1, <1>2

(* A component more adds its amount.                                       *)
LEMMA AmountAppend ==
  ASSUME NEW units, Valued(units), NEW d \in Seq(Components(units)), NEW c \in Components(units)
  PROVE  /\ d \o <<c>> \in Seq(Components(units))
         /\ Amount(d, units) \in Int
         /\ Amount(d \o <<c>>, units) = Amount(d, units) + AmountOf(c, units)
<1> DEFINE e == d \o <<c>>
           n == Len(d)
<1>1. e \in Seq(Components(units)) /\ Len(e) = n + 1 /\ n \in Nat /\ e[n + 1] = c /\ \A i \in 1 .. n : e[i] = d[i]
  OBVIOUS
<1> HIDE DEF e, n
<1>2. PICK s : /\ Amount(d, units) = s[n] /\ s[0] = 0
               /\ \A i \in 1 .. n : s[i] = s[i - 1] + AmountOf(d[i], units)
               /\ \A i \in 0 .. n : s[i] \in Int
  BY AmountSums DEF n
<1>3. PICK t : /\ Amount(e, units) = t[n + 1] /\ t[0] = 0
               /\ \A i \in 1 .. n + 1 : t[i] = t[i - 1] + AmountOf(e[i], units)
  <2>1. \E t : /\ Amount(e, units) = t[Len(e)] /\ t[0] = 0
               /\ \A i \in 1 .. Len(e) : t[i] = t[i - 1] + AmountOf(e[i], units)
    <3>1. e \in Seq(Components(units))
      BY <1>1
    <3> QED
      BY <3>1, AmountSums, Zenon
  <2> QED
    BY <1>1, <2>1, Zenon
<1> DEFINE wrong == {i \in 0 .. n : t[i] # s[i]}
<1>4. wrong = {}
  <2> SUFFICES ASSUME wrong # {} PROVE FALSE
    OBVIOUS
  <2>1. PICK i \in wrong : \A j \in wrong : i <= j
    <3>1. wrong \in SUBSET Nat
      OBVIOUS
    <3> HIDE DEF wrong
    <3> QED
      BY <3>1, LeastNumber
  <2>2. i # 0 /\ i \in 1 .. n /\ i \in 1 .. n + 1
    BY <1>1, <1>2, <1>3, <2>1
  <2>3. i - 1 \in 0 .. n /\ i - 1 \notin wrong
    BY <1>1, <2>1, <2>2
  <2>4. t[i - 1] = s[i - 1]
    BY <2>3
  <2>5. t[i] = t[i - 1] + AmountOf(e[i], units) /\ s[i] = s[i - 1] + AmountOf(d[i], units) /\ e[i] = d[i]
    BY <1>1, <1>2, <1>3, <2>2
  <2>6. t[i] = s[i]
    BY <2>4, <2>5, Zenon
  <2> QED
    BY <2>1, <2>6
<1>5. t[n] = s[n] /\ n \in 0 .. n /\ n + 1 \in 1 .. n + 1 /\ (n + 1) - 1 = n
  BY <1>1, <1>4
<1>6. t[n + 1] = t[n] + AmountOf(c, units)
  <2>1. t[n + 1] = t[(n + 1) - 1] + AmountOf(e[n + 1], units)
    BY <1>3, <1>5
  <2> QED
    BY <1>1, <1>5, <2>1, Zenon
<1>7. Amount(e, units) = Amount(d, units) + AmountOf(c, units) /\ Amount(d, units) \in Int
  BY <1>2, <1>3, <1>5, <1>6
<1> QED
  BY <1>1, <1>7 DEF e

(* So does one without a fraction, which is left out if it is zero.        *)
LEMMA AmountComponent ==
  ASSUME NEW units, Valued(units), NEW d \in Seq(Components(units)), NEW k \in Int, NEW unit \in DOMAIN units
  PROVE  /\ d \o Component(k, unit) \in Seq(Components(units))
         /\ Amount(d, units) \in Int
         /\ Amount(d \o Component(k, unit), units) = Amount(d, units) + k * units[unit]
<1>1. units[unit] \in Int
  BY DEF Valued
<1> DEFINE c == [unit |-> unit, whole |-> k, fraction |-> 0]
<1>2. c \in Components(units) /\ AmountOf(c, units) = k * units[unit]
  <2>1. c \in Components(units)
    BY DEF Components
  <2>2. c.whole = k /\ c.unit = unit /\ c.fraction = 0
    OBVIOUS
  <2> HIDE DEF c
  <2>3. (IF c.whole < 0 THEN -c.fraction ELSE c.fraction) = 0
    <3>1. \A f \in Nat : f < 1 => (IF c.whole < 0 THEN -f ELSE f) = 0
      OBVIOUS
    <3>2. c.fraction \in Nat /\ c.fraction < 1
      BY <2>2
    <3> QED
      BY <3>1, <3>2, Zenon
  <2>4. AmountOf(c, units) = k * units[unit] + 0
    BY <2>2, <2>3, Zenon DEF AmountOf
  <2>5. k * units[unit] \in Int
    BY <1>1
  <2> QED
    BY <2>1, <2>4, <2>5
<1>3. Amount(d, units) \in Int
  <2> HIDE DEF c
  <2> QED
    BY <1>2, AmountAppend
<1>4. CASE k = 0
  <2>1. d \o Component(k, unit) = d
    BY <1>4 DEF Component
  <2>2. k * units[unit] = 0
    BY <1>1, <1>4
  <2> QED
    BY <1>3, <2>1, <2>2
<1>5. CASE k # 0
  <2>1. Component(k, unit) = <<c>>
    BY <1>5 DEF Component
  <2> HIDE DEF c
  <2>2. /\ d \o <<c>> \in Seq(Components(units))
        /\ Amount(d \o <<c>>, units) = Amount(d, units) + AmountOf(c, units)
    BY <1>2, AmountAppend
  <2> QED
    BY <1>2, <1>3, <2>1, <2>2, Zenon
<1> QED
  BY <1>4, <1>5

(* A natural number divided.                                               *)
LEMMA DividedNat ==
  ASSUME NEW p \in Nat, NEW m \in Nat \ {0}
  PROVE  p \div m \in Nat /\ p % m \in 0 .. m - 1 /\ p = (p \div m) * m + (p % m)
<1>1. p \div m \in Nat
  OBVIOUS
<1>2. p \in Int
  OBVIOUS
<1>3. p % m \in 0 .. m - 1
  BY <1>2, Divided
<1>4. p = (p \div m) * m + (p % m)
  BY <1>2, DividedSum
<1> QED
  BY <1>1, <1>3, <1>4

(* Division that rounds to zero, of a number and of its negative.          *)
LEMMA QuotientUp ==
  ASSUME NEW p \in Nat, NEW b \in Nat \ {0}
  PROVE  /\ Quotient(p, b) = p \div b /\ Remainder(p, b) = p % b
         /\ Quotient(p, b) \in Nat /\ Remainder(p, b) \in 0 .. b - 1
<1>1. Quotient(p, b) = p \div b
  BY DEF Quotient
<1>2. p \div b \in Nat /\ p % b \in 0 .. b - 1 /\ p = (p \div b) * b + (p % b)
  BY DividedNat
<1> DEFINE q == p \div b
           r == p % b
<1> HIDE DEF q, r
<1>3. q \in Nat /\ r \in 0 .. b - 1 /\ p = q * b + r
  BY <1>2 DEF q, r
<1>4. p - b * q = r
  BY <1>3
<1>5. Remainder(p, b) = r
  BY <1>1, <1>4 DEF Remainder, q
<1> QED
  BY <1>1, <1>3, <1>5 DEF q, r

(* Of a negative number both are the positive ones' negatives.             *)
LEMMA QuotientDown ==
  ASSUME NEW p \in Nat, NEW b \in Nat \ {0}, NEW a \in Int, a + p = 0
  PROVE  /\ Quotient(a, b) \in Int /\ Quotient(a, b) + (p \div b) = 0
         /\ Remainder(a, b) \in Int /\ Remainder(a, b) + (p % b) = 0
<1> DEFINE q == p \div b
           r == p % b
           k == Quotient(a, b)
<1>1. q \in Nat /\ r \in 0 .. b - 1 /\ p = q * b + r
  BY DividedNat
<1>2. k \in Int /\ k + q = 0
  <2>1. CASE a < 0
    <3>1. (-a) = p
      OBVIOUS
    <3>2. k = -q
      BY <2>1, <3>1 DEF Quotient
    <3> HIDE DEF k, q
    <3> QED
      BY <1>1, <3>2
  <2>2. CASE ~(a < 0)
    <3>1. a = 0 /\ p = 0
      BY <2>2
    <3>2. k = 0 \div b /\ q = 0 \div b
      BY <2>2, <3>1 DEF Quotient
    <3>3. 0 \div b = 0
      <4>1. (0 * b + 0) \div b = 0
        BY DivisionUnique
      <4> QED
        BY <4>1
    <3> HIDE DEF k, q
    <3> QED
      BY <3>2, <3>3
  <2> QED
    BY <2>1, <2>2
<1>3. Remainder(a, b) = a - b * k
  BY DEF Remainder
<1> HIDE DEF q, r, k
<1>4. b * k + q * b = 0 /\ b * k \in Int /\ q * b \in Int
  <2>1. b * k + q * b = b * (k + q)
    BY <1>1, <1>2
  <2> QED
    BY <1>1, <1>2, <2>1
<1>5. Remainder(a, b) \in Int /\ Remainder(a, b) + r = 0
  BY <1>1, <1>3, <1>4
<1> QED
  BY <1>2, <1>5 DEF q, r, k

(* A remainder taken apart by a smaller unit.                              *)
LEMMA SmallerUnit ==
  ASSUME NEW p \in Nat, NEW a \in Nat \ {0}, NEW b \in Nat \ {0}
  PROVE  p % (b * a) = ((p % (b * a)) \div a) * a + (p % a)
<1> DEFINE big == b * a
           q == p \div big
           r == p % big
<1>1. big \in Nat \ {0} /\ big = b * a
  BY Product
<1> HIDE DEF big
<1>2. q \in Nat /\ r \in 0 .. big - 1 /\ p = q * big + r
  BY <1>1, DividedNat
<1> HIDE DEF q, r
<1>3. r = (r \div a) * a + (r % a)
  <2>1. r \in Nat
    BY <1>1, <1>2
  <2> QED
    BY <2>1, DividedNat
<1>4. p = (q * b) * a + r /\ q * b \in Int
  BY <1>1, <1>2
<1>5. ((q * b) * a + r) % a = r % a
  <2> DEFINE k == q * b
  <2>1. k \in Int /\ r \in Int
    BY <1>1, <1>2, <1>4
  <2> HIDE DEF k
  <2>2. (k * a + r) % a = r % a
    BY <2>1, RemainderShift
  <2> QED
    BY <2>2 DEF k
<1>6. p % a = r % a
  BY <1>4, <1>5, Zenon
<1> QED
  BY <1>3, <1>6, Zenon DEF r, big

(* A number of microseconds that is not negative is its days, hours,       *)
(* minutes, seconds and microseconds.                                      *)
LEMMA MicrosUp ==
  ASSUME NEW p \in Nat
  PROVE  p = (p \div MicrosPerDay) * MicrosPerDay + ((p % MicrosPerDay) \div MicrosPerHour) * MicrosPerHour
             + ((p % MicrosPerHour) \div MicrosPerMinute) * MicrosPerMinute
             + ((p % MicrosPerMinute) \div MicrosPerSecond) * MicrosPerSecond + (p % MicrosPerSecond)
<1> DEFINE day == MicrosPerDay
           hour == MicrosPerHour
           minute == MicrosPerMinute
           second == MicrosPerSecond
<1>1. /\ day \in Nat \ {0} /\ hour \in Nat \ {0} /\ minute \in Nat \ {0} /\ second \in Nat \ {0}
      /\ HoursPerDay \in Nat \ {0} /\ MinutesPerHour \in Nat \ {0} /\ SecondsPerMinute \in Nat \ {0}
  BY ClockUnits
<1>2. day = HoursPerDay * hour /\ hour = MinutesPerHour * minute /\ minute = SecondsPerMinute * second
  BY Zenon DEF MicrosPerDay, MicrosPerHour, MicrosPerMinute
<1> HIDE DEF day, hour, minute, second
<1> DEFINE t0 == (p \div day) * day
           t1 == ((p % day) \div hour) * hour
           t2 == ((p % hour) \div minute) * minute
           t3 == ((p % minute) \div second) * second
           t4 == p % second
<1>3. p = t0 + (p % day)
  BY <1>1, DividedNat
<1>4. p % day = t1 + (p % hour)
  <2>1. p % (HoursPerDay * hour) = ((p % (HoursPerDay * hour)) \div hour) * hour + (p % hour)
    BY <1>1, SmallerUnit
  <2> QED
    BY <1>2, <2>1, Zenon
<1>5. p % hour = t2 + (p % minute)
  <2>1. p % (MinutesPerHour * minute) = ((p % (MinutesPerHour * minute)) \div minute) * minute + (p % minute)
    BY <1>1, SmallerUnit
  <2> QED
    BY <1>2, <2>1, Zenon
<1>6. p % minute = t3 + t4
  <2>1. p % (SecondsPerMinute * second) = ((p % (SecondsPerMinute * second)) \div second) * second + (p % second)
    BY <1>1, SmallerUnit
  <2> QED
    BY <1>2, <2>1, Zenon
<1>7. p % day \in Nat /\ p % hour \in Nat /\ p % minute \in Nat /\ p % second \in Nat
  BY <1>1, DividedNat
<1>8. t0 \in Int /\ t1 \in Int /\ t2 \in Int /\ t3 \in Int /\ t4 \in Int
  <2>1. /\ p \div day \in Int /\ (p % day) \div hour \in Int /\ (p % hour) \div minute \in Int
        /\ (p % minute) \div second \in Int
    <3>1. /\ p \div day \in Nat /\ (p % day) \div hour \in Nat /\ (p % hour) \div minute \in Nat
          /\ (p % minute) \div second \in Nat
      BY <1>1, <1>7, DividedNat
    <3> QED
      BY <3>1
  <2> QED
    BY <1>1, <1>7, <2>1
<1> HIDE DEF t0, t1, t2, t3, t4
<1>9. p = t0 + t1 + t2 + t3 + t4
  BY <1>3, <1>4, <1>5, <1>6, <1>7, <1>8
<1> QED
  BY <1>9 DEF t0, t1, t2, t3, t4, day, hour, minute, second

(* A number of microseconds is its days, hours, minutes, seconds and what  *)
(* is left, of either sign; what is left has none when it is zero.         *)
LEMMA MicrosWhole ==
  ASSUME NEW n \in Int, n >= 0 \/ n % MicrosPerSecond = 0,
         NEW d, d = Quotient(n, MicrosPerDay),
         NEW h, h = Quotient(Remainder(n, MicrosPerDay), MicrosPerHour),
         NEW m, m = Quotient(Remainder(n, MicrosPerHour), MicrosPerMinute),
         NEW s, s = Quotient(Remainder(n, MicrosPerMinute), MicrosPerSecond),
         NEW f, f = Remainder(n, MicrosPerSecond)
  PROVE  /\ d \in Int /\ h \in Int /\ m \in Int /\ s \in Int /\ f \in Nat
         /\ f = 0 \/ s >= 0
         /\ n = d * MicrosPerDay + h * MicrosPerHour + m * MicrosPerMinute + s * MicrosPerSecond + f
<1> DEFINE day == MicrosPerDay
           hour == MicrosPerHour
           minute == MicrosPerMinute
           second == MicrosPerSecond
<1>1. day \in Nat \ {0} /\ hour \in Nat \ {0} /\ minute \in Nat \ {0} /\ second \in Nat \ {0}
  BY ClockUnits
<1>2. ASSUME NEW p \in Nat
      PROVE  p = (p \div day) * day + ((p % day) \div hour) * hour + ((p % hour) \div minute) * minute
                 + ((p % minute) \div second) * second + (p % second)
  BY MicrosUp
<1>3. /\ d = Quotient(n, day) /\ h = Quotient(Remainder(n, day), hour) /\ m = Quotient(Remainder(n, hour), minute)
      /\ s = Quotient(Remainder(n, minute), second) /\ f = Remainder(n, second)
  OBVIOUS
<1> HIDE DEF day, hour, minute, second
<1>4. ASSUME NEW p \in Nat
      PROVE  /\ p % day \in Nat /\ p % hour \in Nat /\ p % minute \in Nat /\ p % second \in Nat
             /\ p \div day \in Nat /\ (p % day) \div hour \in Nat
             /\ (p % hour) \div minute \in Nat /\ (p % minute) \div second \in Nat
  <2>1. p % day \in Nat /\ p % hour \in Nat /\ p % minute \in Nat /\ p % second \in Nat
    BY <1>1, DividedNat
  <2>2. /\ p \div day \in Nat /\ (p % day) \div hour \in Nat
        /\ (p % hour) \div minute \in Nat /\ (p % minute) \div second \in Nat
    BY <1>1, <2>1, DividedNat
  <2> QED
    BY <2>1, <2>2
<1>5. CASE n >= 0
  <2>1. n \in Nat
    BY <1>5
  <2>2. /\ Quotient(n, day) = n \div day /\ Remainder(n, day) = n % day /\ Remainder(n, hour) = n % hour
        /\ Remainder(n, minute) = n % minute /\ Remainder(n, second) = n % second
    BY <1>1, <2>1, QuotientUp
  <2>3. /\ Quotient(n % day, hour) = (n % day) \div hour
        /\ Quotient(n % hour, minute) = (n % hour) \div minute
        /\ Quotient(n % minute, second) = (n % minute) \div second
    BY <1>1, <1>4, <2>1, QuotientUp
  <2>4. d = n \div day
    BY <1>3, <2>2, Zenon
  <2>5. h = (n % day) \div hour
    BY <1>3, <2>2, <2>3, Zenon
  <2>6. m = (n % hour) \div minute
    BY <1>3, <2>2, <2>3, Zenon
  <2>7. s = (n % minute) \div second
    BY <1>3, <2>2, <2>3, Zenon
  <2>8. f = n % second
    BY <1>3, <2>2, Zenon
  <2>9. d \in Nat /\ h \in Nat /\ m \in Nat /\ s \in Nat /\ f \in Nat
    BY <1>4, <2>1, <2>4, <2>5, <2>6, <2>7, <2>8
  <2>10. n = d * day + h * hour + m * minute + s * second + f
    BY <1>2, <2>1, <2>4, <2>5, <2>6, <2>7, <2>8, Zenon
  <2> QED
    BY <2>9, <2>10 DEF day, hour, minute, second
<1>6. CASE n < 0
  <2>1. PICK p \in Nat : n + p = 0
    <3>1. -n \in Nat /\ n + (-n) = 0
      BY <1>6
    <3> QED
      BY <3>1
  <2> DEFINE q1 == p \div day
             q2 == (p % day) \div hour
             q3 == (p % hour) \div minute
             q4 == (p % minute) \div second
             q5 == p % second
  <2>2. /\ Quotient(n, day) \in Int /\ Quotient(n, day) + q1 = 0
        /\ Remainder(n, day) \in Int /\ Remainder(n, day) + (p % day) = 0
        /\ Remainder(n, hour) \in Int /\ Remainder(n, hour) + (p % hour) = 0
        /\ Remainder(n, minute) \in Int /\ Remainder(n, minute) + (p % minute) = 0
        /\ Remainder(n, second) \in Int /\ Remainder(n, second) + q5 = 0
    BY <1>1, <2>1, QuotientDown
  <2>3. /\ q1 \in Nat /\ q2 \in Nat /\ q3 \in Nat /\ q4 \in Nat /\ q5 \in Nat
        /\ p % day \in Nat /\ p % hour \in Nat /\ p % minute \in Nat
    BY <1>4, <2>1
  <2>4. h \in Int /\ h + q2 = 0
    <3>1. /\ Quotient(Remainder(n, day), hour) \in Int
          /\ Quotient(Remainder(n, day), hour) + ((p % day) \div hour) = 0
      BY <1>1, <2>2, <2>3, QuotientDown
    <3> QED
      BY <1>3, <3>1, Zenon
  <2>5. m \in Int /\ m + q3 = 0
    <3>1. /\ Quotient(Remainder(n, hour), minute) \in Int
          /\ Quotient(Remainder(n, hour), minute) + ((p % hour) \div minute) = 0
      BY <1>1, <2>2, <2>3, QuotientDown
    <3> QED
      BY <1>3, <3>1, Zenon
  <2>6. s \in Int /\ s + q4 = 0
    <3>1. /\ Quotient(Remainder(n, minute), second) \in Int
          /\ Quotient(Remainder(n, minute), second) + ((p % minute) \div second) = 0
      BY <1>1, <2>2, <2>3, QuotientDown
    <3> QED
      BY <1>3, <3>1, Zenon
  <2>7. d \in Int /\ d + q1 = 0 /\ f \in Int /\ f + q5 = 0
    BY <1>3, <2>2
  <2>8. p = q1 * day + q2 * hour + q3 * minute + q4 * second + q5
    BY <1>2, <2>1
  <2>9. ASSUME NEW a \in Int, NEW b \in Int, NEW u \in Int, a + b = 0
        PROVE  a * u + b * u = 0 /\ a * u \in Int /\ b * u \in Int
    <3>1. a * u + b * u = (a + b) * u
      OBVIOUS
    <3> QED
      BY <2>9, <3>1
  <2>10. q5 = 0
    <3> DEFINE k == n \div second
    <3>1. k \in Int /\ n = k * second + (n % second)
      BY <1>1, Divided, DividedSum
    <3>2. n % second = 0
      BY <1>6 DEF second
    <3> HIDE DEF k
    <3>3. PICK z \in Int : k + z = 0
      BY <3>1
    <3>4. k * second + z * second = 0 /\ k * second \in Int /\ z * second \in Int
      BY <1>1, <2>9, <3>1, <3>3
    <3>5. p = z * second + 0 /\ 0 \in 0 .. second - 1
      BY <1>1, <2>1, <3>1, <3>2, <3>4
    <3>6. (z * second + 0) % second = 0
      BY <1>1, <3>3, <3>5, DivisionUnique
    <3> QED
      BY <3>5, <3>6, Zenon
  <2> HIDE DEF q1, q2, q3, q4, q5
  <2>11. /\ d * day + q1 * day = 0 /\ d * day \in Int /\ q1 * day \in Int
    <3>1. d \in Int /\ q1 \in Int /\ day \in Int /\ d + q1 = 0
      BY <1>1, <2>3, <2>7
    <3> QED
      BY <2>9, <3>1
  <2>12. /\ h * hour + q2 * hour = 0 /\ h * hour \in Int /\ q2 * hour \in Int
    BY <1>1, <2>3, <2>4, <2>9
  <2>13. /\ m * minute + q3 * minute = 0 /\ m * minute \in Int /\ q3 * minute \in Int
    BY <1>1, <2>3, <2>5, <2>9
  <2>14. /\ s * second + q4 * second = 0 /\ s * second \in Int /\ q4 * second \in Int
    BY <1>1, <2>3, <2>6, <2>9
  <2>15. f = 0
    BY <2>7, <2>10
  <2>16. n = d * day + h * hour + m * minute + s * second + f
    <3> DEFINE a1 == d * day
               a2 == h * hour
               a3 == m * minute
               a4 == s * second
               b1 == q1 * day
               b2 == q2 * hour
               b3 == q3 * minute
               b4 == q4 * second
    <3>1. p = b1 + b2 + b3 + b4 + q5
      BY <2>8
    <3>2. a1 + b1 = 0 /\ a2 + b2 = 0 /\ a3 + b3 = 0 /\ a4 + b4 = 0
      BY <2>11, <2>12, <2>13, <2>14
    <3>3. /\ a1 \in Int /\ a2 \in Int /\ a3 \in Int /\ a4 \in Int
          /\ b1 \in Int /\ b2 \in Int /\ b3 \in Int /\ b4 \in Int
      BY <2>11, <2>12, <2>13, <2>14
    <3> HIDE DEF a1, a2, a3, a4, b1, b2, b3, b4
    <3>4. n = a1 + a2 + a3 + a4 + f
      BY <2>1, <2>10, <2>15, <3>1, <3>2, <3>3
    <3> QED
      BY <3>4 DEF a1, a2, a3, a4
  <2>17. d \in Int /\ h \in Int /\ m \in Int /\ s \in Int /\ f \in Nat /\ f = 0
    BY <2>4, <2>5, <2>6, <2>7, <2>15
  <2> QED
    BY <2>16, <2>17 DEF day, hour, minute, second
<1> QED
  BY <1>5, <1>6

(* What the units of a duration's components are worth.                    *)
LEMMA UnitFacts ==
  /\ Valued(UnitMonths) /\ DOMAIN UnitMonths = {"year", "month"}
  /\ UnitMonths["year"] = MonthsPerYear /\ UnitMonths["month"] = 1
  /\ Valued(UnitMicros) /\ DOMAIN UnitMicros = {"day", "hour", "minute", "second"}
  /\ UnitMicros["day"] = MicrosPerDay /\ UnitMicros["hour"] = MicrosPerHour
  /\ UnitMicros["minute"] = MicrosPerMinute /\ UnitMicros["second"] = MicrosPerSecond
<1>1. /\ DOMAIN UnitMonths = {"year", "month"} /\ UnitMonths["year"] = MonthsPerYear /\ UnitMonths["month"] = 1
  BY DEF UnitMonths
<1>2. /\ DOMAIN UnitMicros = {"day", "hour", "minute", "second"}
      /\ UnitMicros["day"] = MicrosPerDay /\ UnitMicros["hour"] = MicrosPerHour
      /\ UnitMicros["minute"] = MicrosPerMinute /\ UnitMicros["second"] = MicrosPerSecond
  BY DEF UnitMicros
<1>3. Valued(UnitMonths)
  <2>1. MonthsPerYear \in Int /\ 1 \in Int
    BY ClockUnits
  <2> QED
    BY <1>1, <2>1 DEF Valued
<1>4. Valued(UnitMicros)
  <2>1. MicrosPerDay \in Int /\ MicrosPerHour \in Int /\ MicrosPerMinute \in Int /\ MicrosPerSecond \in Int
    BY ClockUnits
  <2> QED
    BY <1>2, <2>1 DEF Valued
<1> QED
  BY <1>1, <1>2, <1>3, <1>4

(* A raw duration's lowest bit, and what is above it.                      *)
LEMMA RawParts ==
  ASSUME NEW n \in Int
  PROVE  /\ (2 * n) \div 2 = n /\ (2 * n) % 2 = 0
         /\ (2 * n + 1) \div 2 = n /\ (2 * n + 1) % 2 = 1
<1>1. 2 \in Nat \ {0} /\ 0 \in 0 .. 2 - 1 /\ 1 \in 0 .. 2 - 1
  OBVIOUS
<1>2. (n * 2 + 0) \div 2 = n /\ (n * 2 + 0) % 2 = 0
  BY <1>1, DivisionUnique
<1>3. (n * 2 + 1) \div 2 = n /\ (n * 2 + 1) % 2 = 1
  BY <1>1, DivisionUnique
<1>4. 2 * n = n * 2 + 0 /\ 2 * n + 1 = n * 2 + 1
  OBVIOUS
<1> QED
  BY <1>2, <1>3, <1>4

(* A duration of one component that says nothing.                          *)
LEMMA AmountNothing ==
  ASSUME NEW units, Valued(units), NEW unit \in DOMAIN units,
         NEW c, c = [unit |-> unit, whole |-> 0, fraction |-> 0]
  PROVE  <<c>> \in Seq(Components(units)) /\ Amount(<<c>>, units) = 0
<1>1. c \in Components(units) /\ c.unit = unit /\ c.whole = 0 /\ c.fraction = 0
  BY DEF Components
<1>2. /\ <<>> \in Seq(Components(units)) /\ Amount(<<>>, units) = 0
  BY AmountEmpty
<1>3. /\ <<>> \o <<c>> \in Seq(Components(units))
      /\ Amount(<<>> \o <<c>>, units) = Amount(<<>>, units) + AmountOf(c, units)
  BY <1>1, <1>2, AmountAppend
<1>4. <<>> \o <<c>> = <<c>>
  OBVIOUS
<1>5. AmountOf(c, units) = 0
  <2>1. units[unit] \in Int
    BY DEF Valued
  <2>2. AmountOf(c, units) = 0 * units[unit] + 0
    <3>1. (IF c.whole < 0 THEN -c.fraction ELSE c.fraction) = c.fraction
      BY <1>1
    <3> QED
      BY <1>1, <3>1, Zenon DEF AmountOf
  <2> QED
    BY <2>1, <2>2
<1> QED
  BY <1>2, <1>3, <1>4, <1>5

(* Seconds with a fraction, if they are not negative.                      *)
LEMMA AmountSeconds ==
  ASSUME NEW d \in Seq(Components(UnitMicros)), NEW s \in Int, NEW f \in Nat, f = 0 \/ s >= 0
  PROVE  /\ d \o Seconds(s, f) \in Seq(Components(UnitMicros))
         /\ Amount(d \o Seconds(s, f), UnitMicros) = Amount(d, UnitMicros) + s * MicrosPerSecond + f
<1>1. Valued(UnitMicros) /\ "second" \in DOMAIN UnitMicros /\ UnitMicros["second"] = MicrosPerSecond
  BY UnitFacts
<1>2. MicrosPerSecond \in Int /\ s * MicrosPerSecond \in Int
  BY ClockUnits
<1>3. CASE f = 0
  <2>1. Seconds(s, f) = Component(s, "second")
    BY <1>3 DEF Seconds
  <2>2. /\ d \o Component(s, "second") \in Seq(Components(UnitMicros))
        /\ Amount(d, UnitMicros) \in Int
        /\ Amount(d \o Component(s, "second"), UnitMicros) = Amount(d, UnitMicros) + s * UnitMicros["second"]
    BY <1>1, AmountComponent
  <2>3. Amount(d \o Seconds(s, f), UnitMicros) = Amount(d, UnitMicros) + s * MicrosPerSecond
    BY <1>1, <2>1, <2>2, Zenon
  <2> QED
    BY <1>2, <1>3, <2>1, <2>2, <2>3
<1>4. CASE f # 0
  <2> DEFINE c == [unit |-> "second", whole |-> s, fraction |-> f]
  <2>1. Seconds(s, f) = <<c>>
    BY <1>4 DEF Seconds
  <2>2. c \in Components(UnitMicros) /\ c.unit = "second" /\ c.whole = s /\ c.fraction = f
    BY <1>1 DEF Components
  <2> HIDE DEF c
  <2>3. (IF c.whole < 0 THEN -c.fraction ELSE c.fraction) = f
    BY <1>4, <2>2
  <2>4. AmountOf(c, UnitMicros) = s * MicrosPerSecond + f
    BY <1>1, <2>2, <2>3, Zenon DEF AmountOf
  <2>5. /\ d \o <<c>> \in Seq(Components(UnitMicros))
        /\ Amount(d, UnitMicros) \in Int
        /\ Amount(d \o <<c>>, UnitMicros) = Amount(d, UnitMicros) + AmountOf(c, UnitMicros)
    BY <1>1, <2>2, AmountAppend
  <2> QED
    BY <1>2, <2>1, <2>4, <2>5
<1> QED
  BY <1>3, <1>4

(* A duration in months is read back as it was.                            *)
LEMMA MonthsRead ==
  ASSUME NEW n \in Int
  PROVE  /\ FormatDuration(2 * n + 1) \in Seq(Components(UnitMonths))
         /\ Amount(FormatDuration(2 * n + 1), UnitMonths) = n
<1> DEFINE raw == 2 * n + 1
           y == Quotient(n, MonthsPerYear)
           m == Remainder(n, MonthsPerYear)
<1>1. raw \div 2 = n /\ raw % 2 = 1
  BY RawParts
<1>2. Valued(UnitMonths) /\ "year" \in DOMAIN UnitMonths /\ "month" \in DOMAIN UnitMonths
  BY UnitFacts
<1>3. UnitMonths["year"] = MonthsPerYear /\ UnitMonths["month"] = 1
  BY UnitFacts
<1> HIDE DEF raw
<1>4. CASE n = 0
  <2> DEFINE c == [unit |-> "month", whole |-> 0, fraction |-> 0]
  <2>1. FormatDuration(raw) = <<c>>
    BY <1>1, <1>4 DEF FormatDuration
  <2>2. <<c>> \in Seq(Components(UnitMonths)) /\ Amount(<<c>>, UnitMonths) = 0
    <3>1. c = [unit |-> "month", whole |-> 0, fraction |-> 0]
      OBVIOUS
    <3> HIDE DEF c
    <3> QED
      BY <1>2, <3>1, AmountNothing
  <2> QED
    BY <1>4, <2>1, <2>2 DEF raw
<1>5. CASE n # 0
  <2>1. FormatDuration(raw) = Component(y, "year") \o Component(m, "month")
    BY <1>1, <1>5 DEF FormatDuration
  <2>2. y \in Int /\ m \in Int /\ y * MonthsPerYear + m = n /\ y * MonthsPerYear \in Int
    <3>1. MonthsPerYear \in Nat \ {0}
      BY ClockUnits
    <3>2. y \in Int
      <4>1. CASE n >= 0
        <5>1. n \in Nat
          BY <4>1
        <5>2. Quotient(n, MonthsPerYear) \in Nat
          BY <3>1, <5>1, QuotientUp
        <5> QED
          BY <5>2
      <4>2. CASE n < 0
        <5>1. PICK p \in Nat : n + p = 0
          <6>1. -n \in Nat /\ n + (-n) = 0
            BY <4>2
          <6> QED
            BY <6>1
        <5> QED
          BY <3>1, <5>1, QuotientDown
      <4> QED
        BY <4>1, <4>2
    <3>3. m = n - MonthsPerYear * y
      BY DEF Remainder
    <3> HIDE DEF y, m
    <3>4. MonthsPerYear * y = y * MonthsPerYear /\ y * MonthsPerYear \in Int
      BY <3>1, <3>2
    <3> QED
      BY <3>2, <3>3, <3>4
  <2> HIDE DEF y, m
  <2> DEFINE e == <<>> \o Component(y, "year")
  <2>3. <<>> \in Seq(Components(UnitMonths)) /\ Amount(<<>>, UnitMonths) = 0
    BY <1>2, AmountEmpty
  <2>4. /\ e \in Seq(Components(UnitMonths))
        /\ Amount(e, UnitMonths) = Amount(<<>>, UnitMonths) + y * UnitMonths["year"]
    BY <1>2, <2>2, <2>3, AmountComponent
  <2>5. e = Component(y, "year")
    BY DEF Component
  <2> HIDE DEF e
  <2>6. /\ e \o Component(m, "month") \in Seq(Components(UnitMonths))
        /\ Amount(e \o Component(m, "month"), UnitMonths) = Amount(e, UnitMonths) + m * UnitMonths["month"]
    BY <1>2, <2>2, <2>4, AmountComponent
  <2>7. y * UnitMonths["year"] = y * MonthsPerYear /\ m * UnitMonths["month"] = m
    BY <1>3, <2>2
  <2>8. Amount(e \o Component(m, "month"), UnitMonths) = n
    BY <2>2, <2>3, <2>4, <2>6, <2>7
  <2> QED
    BY <2>1, <2>5, <2>6, <2>8, Zenon DEF raw
<1> QED
  BY <1>4, <1>5 DEF raw

(* So is one in microseconds that is not negative or has no fraction of a  *)
(* second.                                                                 *)
LEMMA MicrosRead ==
  ASSUME NEW n \in Int, n >= 0 \/ n % MicrosPerSecond = 0
  PROVE  /\ FormatDuration(2 * n) \in Seq(Components(UnitMicros))
         /\ Amount(FormatDuration(2 * n), UnitMicros) = n
<1> DEFINE raw == 2 * n
           d == Quotient(n, MicrosPerDay)
           h == Quotient(Remainder(n, MicrosPerDay), MicrosPerHour)
           m == Quotient(Remainder(n, MicrosPerHour), MicrosPerMinute)
           s == Quotient(Remainder(n, MicrosPerMinute), MicrosPerSecond)
           f == Remainder(n, MicrosPerSecond)
<1>1. raw \div 2 = n /\ raw % 2 = 0
  BY RawParts
<1>2. Valued(UnitMicros) /\ DOMAIN UnitMicros = {"day", "hour", "minute", "second"}
  BY UnitFacts
<1>3. /\ UnitMicros["day"] = MicrosPerDay /\ UnitMicros["hour"] = MicrosPerHour
      /\ UnitMicros["minute"] = MicrosPerMinute
  BY UnitFacts
<1> HIDE DEF raw
<1>4. CASE n = 0
  <2> DEFINE c == [unit |-> "second", whole |-> 0, fraction |-> 0]
  <2>1. FormatDuration(raw) = <<c>>
    BY <1>1, <1>4 DEF FormatDuration
  <2>2. <<c>> \in Seq(Components(UnitMicros)) /\ Amount(<<c>>, UnitMicros) = 0
    <3>1. c = [unit |-> "second", whole |-> 0, fraction |-> 0] /\ "second" \in DOMAIN UnitMicros
      BY <1>2
    <3> HIDE DEF c
    <3> QED
      BY <1>2, <3>1, AmountNothing
  <2> QED
    BY <1>4, <2>1, <2>2 DEF raw
<1>5. CASE n # 0
  <2>1. FormatDuration(raw) =
          Component(d, "day") \o Component(h, "hour") \o Component(m, "minute") \o Seconds(s, f)
    BY <1>1, <1>5 DEF FormatDuration
  <2>2. /\ d \in Int /\ h \in Int /\ m \in Int /\ s \in Int /\ f \in Nat
        /\ f = 0 \/ s >= 0
        /\ n = d * MicrosPerDay + h * MicrosPerHour + m * MicrosPerMinute + s * MicrosPerSecond + f
    BY MicrosWhole
  <2> HIDE DEF d, h, m, s, f
  <2>3. <<>> \in Seq(Components(UnitMicros)) /\ Amount(<<>>, UnitMicros) = 0
    BY <1>2, AmountEmpty
  <2> DEFINE e1 == <<>> \o Component(d, "day")
             e2 == e1 \o Component(h, "hour")
             e3 == e2 \o Component(m, "minute")
             e4 == e3 \o Seconds(s, f)
  <2>4. e4 = FormatDuration(raw)
    <3>1. <<>> \o Component(d, "day") = Component(d, "day")
      BY DEF Component
    <3> QED
      BY <2>1, <3>1, Zenon
  <2>5. e1 \in Seq(Components(UnitMicros)) /\ Amount(e1, UnitMicros) = Amount(<<>>, UnitMicros) + d * UnitMicros["day"]
    BY <1>2, <2>2, <2>3, AmountComponent
  <2>6. e2 \in Seq(Components(UnitMicros)) /\ Amount(e2, UnitMicros) = Amount(e1, UnitMicros) + h * UnitMicros["hour"]
    <3> HIDE DEF e1
    <3> QED
      BY <1>2, <2>2, <2>5, AmountComponent
  <2>7. e3 \in Seq(Components(UnitMicros)) /\ Amount(e3, UnitMicros) = Amount(e2, UnitMicros) + m * UnitMicros["minute"]
    <3> HIDE DEF e2
    <3> QED
      BY <1>2, <2>2, <2>6, AmountComponent
  <2>8. /\ e4 \in Seq(Components(UnitMicros))
        /\ Amount(e4, UnitMicros) = Amount(e3, UnitMicros) + s * MicrosPerSecond + f
    <3> HIDE DEF e3
    <3> QED
      BY <2>2, <2>7, AmountSeconds
  <2> HIDE DEF e1, e2, e3, e4
  <2>9. Amount(e4, UnitMicros) = n
    <3> DEFINE a1 == d * MicrosPerDay
               a2 == h * MicrosPerHour
               a3 == m * MicrosPerMinute
               a4 == s * MicrosPerSecond
    <3>1. a1 \in Int /\ a2 \in Int /\ a3 \in Int /\ a4 \in Int
      <4>1. MicrosPerDay \in Int /\ MicrosPerHour \in Int /\ MicrosPerMinute \in Int /\ MicrosPerSecond \in Int
        BY ClockUnits
      <4> QED
        BY <2>2, <4>1
    <3>2. Amount(e1, UnitMicros) = Amount(<<>>, UnitMicros) + a1
      BY <1>3, <2>5, Zenon
    <3>3. Amount(e2, UnitMicros) = Amount(e1, UnitMicros) + a2
      BY <1>3, <2>6, Zenon
    <3>4. Amount(e3, UnitMicros) = Amount(e2, UnitMicros) + a3
      BY <1>3, <2>7, Zenon
    <3>5. Amount(e4, UnitMicros) = Amount(e3, UnitMicros) + a4 + f
      BY <2>8
    <3>6. n = a1 + a2 + a3 + a4 + f
      BY <2>2
    <3> HIDE DEF a1, a2, a3, a4
    <3> QED
      BY <2>2, <2>3, <3>1, <3>2, <3>3, <3>4, <3>5, <3>6
  <2> QED
    BY <2>4, <2>8, <2>9, Zenon DEF raw
<1> QED
  BY <1>4, <1>5 DEF raw

(* How each kind of value is written: the kinds are told by their field.   *)
LEMMA BasicEncoded ==
  ASSUME NEW code
  PROVE  /\ \A v \in [bool : BOOLEAN] : EncodeBasic(code, v) = (IF v.bool THEN << 1 >> ELSE << 0 >>)
         /\ \A v \in [number : Int] : EncodeBasic(code, v) = Bytes(v.number, SizeMap[code])
         /\ \A v : v \in [float : Floats(SizeMap[code])] =>
              EncodeBasic(code, v) = Bytes(FloatBits(v.float, SizeMap[code]), SizeMap[code])
         /\ \A v \in [date : SignedRange(2) \X SignedRange(1) \X SignedRange(1)] :
              EncodeBasic(code, v) = Bytes(v.date[1], 2) \o Bytes(v.date[2], 1) \o Bytes(v.date[3], 1)
         /\ \A v \in [time : TimesOfDay] :
              EncodeBasic(code, v) = Bytes(v.time[1], 1) \o Bytes(v.time[2], 1) \o Bytes(v.time[3], 1) \o << 0 >>
                                     \o Bytes(v.time[4], 4)
         /\ \A v \in [moment : Moments] : EncodeBasic(code, v) = Bytes(Packed(v.moment), 8)
         /\ \A v \in [months : DurationRange] : EncodeBasic(code, v) = Bytes(2 * v.months + 1, 8)
         /\ \A v \in [micros : DurationRange] : EncodeBasic(code, v) = Bytes(2 * v.micros, 8)
<1>1. ASSUME NEW v, NEW S, v \in [bool : S] PROVE DOMAIN v = {"bool"} /\ v # Null
  BY <1>1 DEF Null
<1>2. ASSUME NEW v, NEW S, v \in [number : S] PROVE DOMAIN v = {"number"} /\ v # Null
  BY <1>2 DEF Null
<1>3. ASSUME NEW v, NEW S, v \in [float : S] PROVE DOMAIN v = {"float"} /\ v # Null
  BY <1>3 DEF Null
<1>4. ASSUME NEW v, NEW S, v \in [date : S] PROVE DOMAIN v = {"date"} /\ v # Null
  BY <1>4 DEF Null
<1>5. ASSUME NEW v, NEW S, v \in [time : S] PROVE DOMAIN v = {"time"} /\ v # Null
  BY <1>5 DEF Null
<1>6. ASSUME NEW v, NEW S, v \in [moment : S] PROVE DOMAIN v = {"moment"} /\ v # Null
  BY <1>6 DEF Null
<1>7. ASSUME NEW v, NEW S, v \in [months : S] PROVE DOMAIN v = {"months"} /\ v # Null
  BY <1>7 DEF Null
<1>8. ASSUME NEW v, NEW S, v \in [micros : S] PROVE DOMAIN v = {"micros"} /\ v # Null
  BY <1>8 DEF Null
<1>9. ASSUME NEW v, DOMAIN v = {"bool"}, v # Null PROVE EncodeBasic(code, v) = (IF v.bool THEN << 1 >> ELSE << 0 >>)
  BY <1>9 DEF EncodeBasic
<1>10. ASSUME NEW v, DOMAIN v = {"number"}, v # Null PROVE EncodeBasic(code, v) = Bytes(v.number, SizeMap[code])
  BY <1>10 DEF EncodeBasic
<1>11. ASSUME NEW v, DOMAIN v = {"float"}, v # Null 
       PROVE EncodeBasic(code, v) = Bytes(FloatBits(v.float, SizeMap[code]), SizeMap[code])
  BY <1>11 DEF EncodeBasic
<1>12. ASSUME NEW v, DOMAIN v = {"date"}, v # Null
       PROVE EncodeBasic(code, v) = Bytes(v.date[1], 2) \o Bytes(v.date[2], 1) \o Bytes(v.date[3], 1)
  BY <1>12 DEF EncodeBasic
<1>13. ASSUME NEW v, DOMAIN v = {"time"}, v # Null
       PROVE EncodeBasic(code, v) = Bytes(v.time[1], 1) \o Bytes(v.time[2], 1) \o Bytes(v.time[3], 1) \o << 0 >>
                                    \o Bytes(v.time[4], 4)
  BY <1>13 DEF EncodeBasic
<1>14. ASSUME NEW v, DOMAIN v = {"moment"}, v # Null PROVE EncodeBasic(code, v) = Bytes(Packed(v.moment), 8)
  BY <1>14 DEF EncodeBasic
<1>15. ASSUME NEW v, DOMAIN v = {"months"}, v # Null PROVE EncodeBasic(code, v) = Bytes(2 * v.months + 1, 8)
  BY <1>15 DEF EncodeBasic
<1>16. ASSUME NEW v, DOMAIN v = {"micros"}, v # Null PROVE EncodeBasic(code, v) = Bytes(2 * v.micros, 8)
  BY <1>16 DEF EncodeBasic
<1>17. \A v \in [bool : BOOLEAN] : EncodeBasic(code, v) = (IF v.bool THEN << 1 >> ELSE << 0 >>)
  BY <1>1, <1>9
<1>18. \A v \in [number : Int] : EncodeBasic(code, v) = Bytes(v.number, SizeMap[code])
  BY <1>2, <1>10, Zenon
<1>19. \A v : v \in [float : Floats(SizeMap[code])] =>
              EncodeBasic(code, v) = Bytes(FloatBits(v.float, SizeMap[code]), SizeMap[code])
  BY <1>3, <1>11, Zenon
<1>20. \A v \in [date : SignedRange(2) \X SignedRange(1) \X SignedRange(1)] :
         EncodeBasic(code, v) = Bytes(v.date[1], 2) \o Bytes(v.date[2], 1) \o Bytes(v.date[3], 1)
  BY <1>4, <1>12, Zenon
<1>21. \A v \in [time : TimesOfDay] :
         EncodeBasic(code, v) = Bytes(v.time[1], 1) \o Bytes(v.time[2], 1) \o Bytes(v.time[3], 1) \o << 0 >>
                                \o Bytes(v.time[4], 4)
  BY <1>5, <1>13, Zenon
<1>22. \A v \in [moment : Moments] : EncodeBasic(code, v) = Bytes(Packed(v.moment), 8)
  BY <1>6, <1>14, Zenon
<1>23. \A v \in [months : DurationRange] : EncodeBasic(code, v) = Bytes(2 * v.months + 1, 8)
  BY <1>7, <1>15, Zenon
<1>24. \A v \in [micros : DurationRange] : EncodeBasic(code, v) = Bytes(2 * v.micros, 8)
  BY <1>8, <1>16, Zenon
<1> QED
  BY <1>17, <1>18, <1>19, <1>20, <1>21, <1>22, <1>23, <1>24

(* What a reader of a cell makes of it.                                    *)
DecodedCell(v) == DecodeBasicValue(EncodeBasic(column.code, v), column.code, TimezoneOffset)

(* A record of one field is that field.                                    *)
LEMMA OneField ==
  /\ \A S, v : v \in [bool : S] => v = [bool |-> v.bool] /\ v.bool \in S /\ DOMAIN v = {"bool"}
  /\ \A S, v : v \in [number : S] => v = [number |-> v.number] /\ v.number \in S /\ DOMAIN v = {"number"}
  /\ \A S, v : v \in [float : S] => v = [float |-> v.float] /\ v.float \in S /\ DOMAIN v = {"float"}
  /\ \A S, v : v \in [date : S] => v = [date |-> v.date] /\ v.date \in S /\ DOMAIN v = {"date"}
  /\ \A S, v : v \in [time : S] => v = [time |-> v.time] /\ v.time \in S /\ DOMAIN v = {"time"}
  /\ \A S, v : v \in [moment : S] => v = [moment |-> v.moment] /\ v.moment \in S /\ DOMAIN v = {"moment"}
  /\ \A S, v : v \in [months : S] => v.months \in S /\ DOMAIN v = {"months"}
  /\ \A S, v : v \in [micros : S] => v.micros \in S /\ DOMAIN v = {"micros"}
OBVIOUS

(* Integers of up to 32 bits are safe.                                     *)
LEMMA SmallIsSafe ==
  ASSUME NEW size \in 1 .. 4, NEW n \in SignedRange(size) \cup UnsignedRange(size)
  PROVE  n \in -SafeMax .. SafeMax
<1>1. PICK h \in Nat \ {0} : Power[size] = 2 * h
  BY PowerEven
<1>2. Power[size] <= Power[4] /\ Power[4] \in Nat
  BY PowersGrow, PowerFacts
<1>3. 2 * h - 1 <= SafeMax /\ SafeMax \in Nat
  BY <1>1, <1>2, WidthsAssumption, BytesAssumption
<1>4. Power[size] \div 2 = h
  BY <1>1
<1>5. n \in -h .. 2 * h - 1
  BY <1>1, <1>4 DEF SignedRange, UnsignedRange
<1> QED
  BY <1>3, <1>5

(* An integer is read back as it was.                                      *)
LEMMA NumberRead ==
  ASSUME NEW v, column.code \in {"Int8", "Int16", "Int32", "Int64", "Uint8", "Uint16", "Uint32", "Uint64"},
         v \in BasicValue(column.code)
  PROVE  ReadsBack(DecodedCell(v), v)
<1> DEFINE size == SizeMap[column.code]
           n == v.number
<1>1. size \in 1 .. 8
  BY DEF SizeMap
<1>2. v \in [number : SignedRange(size) \cup UnsignedRange(size)] /\ DOMAIN v = {"number"}
  BY OneField DEF BasicValue
<1>3. n \in Int
  <2>1. Power[size] \in Nat /\ Power[size] \div 2 \in Nat
    BY <1>1, PowerFacts, PowerEven
  <2>2. n \in SignedRange(size) \cup UnsignedRange(size)
    BY <1>2
  <2> QED
    BY <2>1, <2>2 DEF SignedRange, UnsignedRange
<1>4. EncodeBasic(column.code, v) = Bytes(n, size)
  <2>1. v \in [number : Int]
    BY <1>2, <1>3
  <2> QED
    BY <2>1, BasicEncoded
<1>5. ASSUME NEW d, d = [number |-> n], n \in -SafeMax .. SafeMax
      PROVE  ReadsBack(d, v)
  BY <1>2, <1>5 DEF ReadsBack, Nearest
<1>6. ASSUME NEW d, d = [digits |-> n]
      PROVE  ReadsBack(d, v)
  BY <1>2, <1>6 DEF ReadsBack
<1>7. ASSUME NEW d, d = IntegerToJson(n)
      PROVE  ReadsBack(d, v)
  BY <1>5, <1>6, <1>7 DEF IntegerToJson
<1>8. CASE column.code \in {"Int8", "Int16", "Int32"}
  <2>1. size \in 1 .. 4
    BY <1>8 DEF SizeMap
  <2>2. n \in SignedRange(size)
    BY <1>8, OneField DEF BasicValue
  <2>3. Signed(Bytes(n, size)) = n
    BY <1>1, <2>2, BytesReadSigned
  <2>4. n \in -SafeMax .. SafeMax
    BY <2>1, <2>2, SmallIsSafe
  <2>5. DecodedCell(v) = [number |-> Signed(EncodeBasic(column.code, v))]
    BY <1>8 DEF DecodedCell, DecodeBasicValue, IntegerToNumber
  <2> QED
    BY <1>4, <1>5, <2>3, <2>4, <2>5, Zenon
<1>9. CASE column.code \in {"Uint8", "Uint16", "Uint32"}
  <2>1. size \in 1 .. 4
    BY <1>9 DEF SizeMap
  <2>2. n \in UnsignedRange(size)
    BY <1>9, OneField DEF BasicValue
  <2>3. Unsigned(Bytes(n, size)) = n
    BY <1>1, <2>2, BytesReadUnsigned
  <2>4. n \in -SafeMax .. SafeMax
    BY <2>1, <2>2, SmallIsSafe
  <2>5. DecodedCell(v) = [number |-> Unsigned(EncodeBasic(column.code, v))]
    BY <1>9 DEF DecodedCell, DecodeBasicValue, IntegerToNumber
  <2> QED
    BY <1>4, <1>5, <2>3, <2>4, <2>5, Zenon
<1>10. CASE column.code = "Int64"
  <2>1. n \in SignedRange(size)
    BY <1>10, OneField DEF BasicValue
  <2>2. Signed(Bytes(n, size)) = n
    BY <1>1, <2>1, BytesReadSigned
  <2>3. DecodedCell(v) = IntegerToJson(Signed(EncodeBasic(column.code, v)))
    BY <1>10 DEF DecodedCell, DecodeBasicValue
  <2> QED
    BY <1>4, <1>7, <2>2, <2>3, Zenon
<1>11. CASE column.code = "Uint64"
  <2>1. n \in UnsignedRange(size)
    BY <1>11, OneField DEF BasicValue
  <2>2. Unsigned(Bytes(n, size)) = n
    BY <1>1, <2>1, BytesReadUnsigned
  <2>3. DecodedCell(v) = IntegerToJson(Unsigned(EncodeBasic(column.code, v)))
    BY <1>11 DEF DecodedCell, DecodeBasicValue
  <2> QED
    BY <1>4, <1>7, <2>2, <2>3, Zenon
<1> QED
  BY <1>8, <1>9, <1>10, <1>11

(* A float's sign, exponent and mantissa are read from its bits.           *)
LEMMA FloatRead ==
  ASSUME NEW size \in {4, 8}, NEW f \in Floats(size)
  PROVE  ReadFloat(Bytes(FloatBits(f, size), size), size) = f
<1> DEFINE M == Mantissas[size]
           E == Exponents(size)
           a == (IF f.minus THEN E ELSE 0) + f.exponent
           m == f.mantissa
           n == FloatBits(f, size)
<1>1. M \in Nat \ {0} /\ Power[size] = 2 * E * M /\ Power[size] \in Nat \ {0}
  BY FloatsAssumption, PowerFacts
<1>2. f = [minus |-> f.minus, exponent |-> f.exponent, mantissa |-> m]
      /\ f.minus \in BOOLEAN /\ f.exponent \in 0 .. E - 1 /\ m \in 0 .. M - 1
  BY DEF Floats
<1>3. E \in Nat \ {0}
  <2>1. E \in Int
    <3>1. 2 * M \in Nat \ {0}
      BY <1>1
    <3>2. Power[size] \in Int
      BY <1>1
    <3> HIDE DEF M
    <3>3. Power[size] \div (2 * M) \in Int
      BY <3>1, <3>2, Divided, Zenon
    <3> QED
      BY <3>3, Zenon DEF Exponents, M
  <2> QED
    BY <1>2, <2>1
<1>4. n = a * M + m
  BY DEF FloatBits
<1> HIDE DEF M, E, m, n
<1>5. a \in 0 .. 2 * E - 1 /\ a \in Int
  BY <1>2, <1>3
<1>6. (f.minus <=> a >= E) /\ a % E = f.exponent
  <2>1. CASE f.minus
    <3>1. a = 1 * E + f.exponent
      BY <1>2, <1>3, <2>1
    <3>2. \A q \in Int : (q * E + f.exponent) % E = f.exponent
      BY <1>2, <1>3, DivisionUnique, Zenon
    <3> HIDE DEF a
    <3>3. a % E = f.exponent
      <4>1. (1 * E + f.exponent) % E = f.exponent
        BY <3>2
      <4> QED
        BY <3>1, <4>1, Zenon
    <3>4. a >= E
      BY <1>2, <1>3, <3>1
    <3> QED
      BY <2>1, <3>3, <3>4
  <2>2. CASE ~f.minus
    <3>1. a = f.exponent
      BY <1>2, <1>3, <2>2
    <3> QED
      BY <1>2, <1>3, <2>2, <3>1
  <2> QED
    BY <2>1, <2>2
<1> HIDE DEF a
<1>7. n \in UnsignedRange(size)
  <2>1. a * M <= (2 * E - 1) * M /\ (2 * E - 1) * M = 2 * E * M - M /\ 0 <= a * M /\ a * M \in Int
    BY <1>1, <1>3, <1>5
  <2>2. n \in 0 .. 2 * E * M - 1
    BY <1>1, <1>2, <1>3, <1>4, <2>1
  <2> QED
    BY <1>1, <2>2 DEF UnsignedRange
<1>8. Unsigned(Bytes(n, size)) = n
  BY <1>7, BytesReadUnsigned
<1>9. n \div M = a /\ n % M = m
  BY <1>1, <1>2, <1>4, <1>5, DivisionUnique
<1>10. ReadFloat(Bytes(n, size), size) = [minus |-> a >= E, exponent |-> a % E, mantissa |-> m]
  BY <1>8, <1>9, Zenon DEF ReadFloat, M, E
<1>11. (a >= E) = f.minus
  BY <1>2, <1>6
<1> QED
  BY <1>2, <1>6, <1>10, <1>11, Zenon DEF n

(* Small integers and what else no zone shifts is shown as it is, and so   *)
(* is a float that is a number.                                            *)
LEMMA ExactRead ==
  ASSUME NEW code, NEW offset, NEW v, v \in BasicValue(code),
         JsonExact(code, v),
         code \in {"Int8", "Int16", "Int32", "Uint8", "Uint16", "Uint32",
                   "Bool", "Float32", "Float64", "Date", "LocalTime", "LocalDatetime"}
  PROVE  DecodeBasicValue(EncodeBasic(code, v), code, offset) = v
<1> DEFINE bs == EncodeBasic(code, v)
           d == DecodeBasicValue(bs, code, offset)
           size == SizeMap[code]
<1>2. CASE code = "Bool"
  <2>1. v \in [bool : BOOLEAN]
    BY <1>2 DEF BasicValue
  <2>2. v = [bool |-> v.bool] /\ v.bool \in BOOLEAN /\ DOMAIN v = {"bool"}
    BY <2>1, OneField
  <2>3. bs = IF v.bool THEN << 1 >> ELSE << 0 >>
    BY <2>1, BasicEncoded
  <2>4. d = [bool |-> bs[1] = 1]
    BY <1>2 DEF DecodeBasicValue
  <2>5. (bs[1] = 1) = v.bool
    BY <2>2, <2>3
  <2> QED
    BY <2>2, <2>4, <2>5
<1>3. CASE code \in {"Float32", "Float64"}
  <2>1. v \in [float : Floats(size)]
    BY <1>3 DEF BasicValue
  <2>2. v = [float |-> v.float] /\ v.float \in Floats(size) /\ DOMAIN v = {"float"}
    BY <2>1, OneField
  <2>3. size \in {4, 8}
    BY <1>3 DEF SizeMap
  <2>4. bs = Bytes(FloatBits(v.float, size), size)
    BY <2>1, BasicEncoded
  <2>5. ReadFloat(bs, size) = v.float
    BY <2>2, <2>3, <2>4, FloatRead
  <2>6. d = FloatToNumber(ReadFloat(bs, size), size)
    BY <1>3 DEF DecodeBasicValue
  <2>7. v.float.exponent # Exponents(size) - 1
    BY <2>2 DEF JsonExact
  <2>8. FloatToNumber(v.float, size) = [float |-> v.float]
    BY <2>7 DEF FloatToNumber
  <2> QED
    BY <2>2, <2>5, <2>6, <2>8, Zenon
<1>4. CASE code = "Date"
  <2>1. v \in [date : SignedRange(2) \X SignedRange(1) \X SignedRange(1)]
    BY <1>4 DEF BasicValue
  <2>2. v = [date |-> v.date] /\ v.date \in SignedRange(2) \X SignedRange(1) \X SignedRange(1) /\ DOMAIN v = {"date"}
    BY <2>1, OneField
  <2>3. v.date = <<v.date[1], v.date[2], v.date[3]>>
        /\ v.date[1] \in SignedRange(2) /\ v.date[2] \in SignedRange(1) /\ v.date[3] \in SignedRange(1)
    BY <2>2
  <2>4. bs = Bytes(v.date[1], 2) \o Bytes(v.date[2], 1) \o Bytes(v.date[3], 1)
    BY <2>1, BasicEncoded
  <2>5. d = [date |-> Day(bs)]
    BY <1>4 DEF DecodeBasicValue
  <2> HIDE DEF bs
  <2>6. Day(bs) = <<v.date[1], v.date[2], v.date[3]>>
    BY <2>3, <2>4, DateRead
  <2> QED
    BY <2>2, <2>3, <2>5, <2>6, Zenon DEF bs
<1>5. CASE code = "LocalTime"
  <2>1. v \in [time : TimesOfDay]
    BY <1>5 DEF BasicValue
  <2>2. v = [time |-> v.time] /\ v.time \in TimesOfDay /\ DOMAIN v = {"time"}
    BY <2>1, OneField
  <2>3. bs = Bytes(v.time[1], 1) \o Bytes(v.time[2], 1) \o Bytes(v.time[3], 1) \o << 0 >> \o Bytes(v.time[4], 4)
    BY <2>1, BasicEncoded
  <2>4. d = [time |-> Clock(bs)]
    BY <1>5 DEF DecodeBasicValue
  <2> HIDE DEF bs
  <2>5. Clock(bs) = v.time
    BY <2>2, <2>3, TimeRead
  <2> QED
    BY <2>2, <2>4, <2>5, Zenon DEF bs
<1>6. CASE code = "LocalDatetime"
  <2>1. v \in [moment : Moments]
    BY <1>6 DEF BasicValue
  <2>2. v = [moment |-> v.moment] /\ v.moment \in Moments /\ DOMAIN v = {"moment"}
    BY <2>1, OneField
  <2>3. bs = Bytes(Packed(v.moment), 8)
    BY <2>1, BasicEncoded
  <2>4. d = [moment |-> UnpackDatetime(Signed(bs))]
    BY <1>6 DEF DecodeBasicValue
  <2> HIDE DEF bs
  <2>5. UnpackDatetime(Signed(bs)) = v.moment
    BY <2>2, <2>3, MomentRead
  <2> QED
    BY <2>2, <2>4, <2>5, Zenon DEF bs
<1>7. CASE code \in {"Int8", "Int16", "Int32"}
  <2>1. size \in 1 .. 8
    BY <1>7 DEF SizeMap
  <2>2. v \in [number : SignedRange(size)]
    BY <1>7 DEF BasicValue
  <2>3. v = [number |-> v.number] /\ v.number \in SignedRange(size)
    BY <2>2, OneField
  <2>4. v \in [number : Int]
    <3>1. Power[size] \in Nat /\ Power[size] \div 2 \in Nat
      BY <2>1, PowerFacts, PowerEven
    <3> QED
      BY <2>3, <3>1 DEF SignedRange
  <2>5. bs = Bytes(v.number, size)
    BY <2>4, BasicEncoded
  <2>6. Signed(Bytes(v.number, size)) = v.number
    BY <2>1, <2>3, BytesReadSigned
  <2>7. d = [number |-> Signed(bs)]
    BY <1>7 DEF DecodeBasicValue, IntegerToNumber
  <2> QED
    BY <2>3, <2>5, <2>6, <2>7, Zenon
<1>8. CASE code \in {"Uint8", "Uint16", "Uint32"}
  <2>1. size \in 1 .. 8
    BY <1>8 DEF SizeMap
  <2>2. v \in [number : UnsignedRange(size)]
    BY <1>8 DEF BasicValue
  <2>3. v = [number |-> v.number] /\ v.number \in UnsignedRange(size)
    BY <2>2, OneField
  <2>4. v \in [number : Int]
    <3>1. Power[size] \in Nat
      BY <2>1, PowerFacts
    <3> QED
      BY <2>3, <3>1 DEF UnsignedRange
  <2>5. bs = Bytes(v.number, size)
    BY <2>4, BasicEncoded
  <2>6. Unsigned(Bytes(v.number, size)) = v.number
    BY <2>1, <2>3, BytesReadUnsigned
  <2>7. d = [number |-> Unsigned(bs)]
    BY <1>8 DEF DecodeBasicValue, IntegerToNumber
  <2> QED
    BY <2>3, <2>5, <2>6, <2>7, Zenon
<1> QED
  BY <1>2, <1>3, <1>4, <1>5, <1>6, <1>7, <1>8

LEMMA PlainRead ==
  ASSUME NEW v, column.code \in {"Bool", "Float32", "Float64", "Date", "LocalTime", "LocalDatetime"},
         v \in BasicValue(column.code), JsonExact(column.code, v)
  PROVE  ReadsBack(DecodedCell(v), v)
<1>1. DecodedCell(v) = v
  BY ExactRead DEF DecodedCell
<1>2. DOMAIN v \in {{"bool"}, {"float"}, {"date"}, {"time"}, {"moment"}}
  BY OneField DEF BasicValue
<1>3. CASE DOMAIN v = {"float"}
  <2>1. v = [float |-> v.float]
    <3>1. column.code \in {"Float32", "Float64"}
      BY <1>3, OneField DEF BasicValue
    <3>2. v \in [float : Floats(SizeMap[column.code])]
      BY <3>1 DEF BasicValue
    <3> QED
      BY <3>2, OneField
  <2>2. v.float # MinusZero
    BY <1>3 DEF JsonExact
  <2>3. FloatJson(v) = v
    BY <1>3, <2>1, <2>2 DEF FloatJson
  <2>4. ReadsBack(v, v)
    BY <1>3, <2>3 DEF ReadsBack
  <2> QED
    BY <1>1, <2>4
<1> QED
  BY <1>1, <1>2, <1>3 DEF ReadsBack

(* Times and moments shown in a zone are.                                  *)
LEMMA ZonedRead ==
  ASSUME NEW v, column.code \in {"ZonedTime", "ZonedDatetime"}, zone \in Zones, zone >= 0,
         v \in BasicValue(column.code), column.code = "ZonedDatetime" => v.moment[1] >= TwoDigitYears
  PROVE  ReadsBack(DecodedCell(v), v)
<1> DEFINE bs == EncodeBasic(column.code, v)
           dec == DecodedCell(v)
<1>1. CASE column.code = "ZonedTime"
  <2>1. v \in [time : TimesOfDay]
    BY <1>1 DEF BasicValue
  <2>2. v.time \in TimesOfDay /\ DOMAIN v = {"time"}
    BY <2>1, OneField
  <2>3. bs = Bytes(v.time[1], 1) \o Bytes(v.time[2], 1) \o Bytes(v.time[3], 1) \o << 0 >> \o Bytes(v.time[4], 4)
    BY <2>1, BasicEncoded
  <2>4. dec = [time |-> SubSeq(ShiftByOffset(TimezoneOffset, Today \o Clock(bs)), 4, 7),
               zone |-> ZoneSuffix(TimezoneOffset)]
    BY <1>1 DEF DecodedCell, DecodeBasicValue
  <2> HIDE DEF bs
  <2>5. Clock(bs) = v.time
    BY <2>2, <2>3, TimeRead
  <2>6. dec = [time |-> SubSeq(ShiftByOffset(TimezoneOffset, Today \o v.time), 4, 7),
               zone |-> ZoneSuffix(TimezoneOffset)]
    BY <2>4, <2>5, Zenon
  <2> HIDE DEF dec
  <2>7. /\ dec.time = SubSeq(ShiftByOffset(TimezoneOffset, Today \o v.time), 4, 7)
        /\ dec.zone = ZoneSuffix(TimezoneOffset)
    BY <2>6
  <2>8. Micros(OnSomeDay(dec.time)) = (Micros(OnSomeDay(v.time)) + zone * MicrosPerMinute) % MicrosPerDay
    BY <2>2, <2>7, ZonedTimeRead
  <2>9. ZoneShown(dec)
    BY <2>7, ZoneRead
  <2>10. ReadsBack(dec, v)
    BY <1>1, <2>2, <2>8, <2>9 DEF ReadsBack
  <2> QED
    BY <2>10 DEF dec
<1>2. CASE column.code = "ZonedDatetime"
  <2>1. v \in [moment : Moments]
    BY <1>2 DEF BasicValue
  <2>2. v.moment \in Moments /\ DOMAIN v = {"moment"}
    BY <2>1, OneField
  <2>3. bs = Bytes(Packed(v.moment), 8)
    BY <2>1, BasicEncoded
  <2>4. dec = [moment |-> ShiftByOffset(TimezoneOffset, UnpackDatetime(Signed(bs))),
               zone |-> ZoneSuffix(TimezoneOffset)]
    BY <1>2 DEF DecodedCell, DecodeBasicValue
  <2> HIDE DEF bs
  <2>5. UnpackDatetime(Signed(bs)) = v.moment
    BY <2>2, <2>3, MomentRead
  <2>6. dec = [moment |-> ShiftByOffset(TimezoneOffset, v.moment), zone |-> ZoneSuffix(TimezoneOffset)]
    BY <2>4, <2>5, Zenon
  <2> HIDE DEF dec
  <2>7. /\ dec.moment = ShiftByOffset(TimezoneOffset, v.moment)
        /\ dec.zone = ZoneSuffix(TimezoneOffset)
    BY <2>6
  <2>8. /\ Micros(dec.moment) = Micros(v.moment) + zone * MicrosPerMinute
        /\ \A i \in 2 .. 7 : dec.moment[i] < FieldRange[i]
    BY <1>2, <2>2, <2>7, ZonedMomentRead
  <2>9. ZoneShown(dec)
    BY <2>7, ZoneRead
  <2>10. ReadsBack(dec, v)
    BY <1>2, <2>2, <2>8, <2>9 DEF ReadsBack
  <2> QED
    BY <2>10 DEF dec
<1> QED
  BY <1>1, <1>2

(* A duration's units are the ones its components name.                    *)
LEMMA ComponentUnits ==
  ASSUME NEW units, NEW d \in Seq(Components(units))
  PROVE  \A i \in DOMAIN d : d[i].unit \in DOMAIN units /\ d[i].fraction >= 0
<1> SUFFICES ASSUME NEW i \in DOMAIN d PROVE d[i].unit \in DOMAIN units /\ d[i].fraction >= 0
  OBVIOUS
<1>1. d[i] \in Components(units)
  OBVIOUS
<1>2. d[i].unit \in DOMAIN units /\ d[i].fraction \in Nat
  BY <1>1 DEF Components
<1> QED
  BY <1>2

(* A duration leaves its kind a bit of its 64.                             *)
LEMMA DurationFits ==
  ASSUME NEW n \in DurationRange
  PROVE  n \in Int /\ Signed(Bytes(2 * n, 8)) = 2 * n /\ Signed(Bytes(2 * n + 1, 8)) = 2 * n + 1
<1> DEFINE h == Power[8] \div 2
           q == Power[8] \div 4
<1>1. Power[8] = 2 * h /\ h \in Nat \ {0} /\ Power[8] \in Nat
  BY PowerEven, PowerFacts
<1>2. q \in Nat /\ 4 * q <= Power[8]
  <2>1. 4 \in Nat \ {0}
    OBVIOUS
  <2>2. q \in Nat /\ Power[8] % 4 \in 0 .. 4 - 1 /\ Power[8] = q * 4 + (Power[8] % 4)
    BY <1>1, <2>1, DividedNat
  <2> QED
    BY <1>1, <2>2
<1>3. n \in -q .. q - 1
  BY DEF DurationRange
<1> HIDE DEF q
<1>4. 2 * q <= h
  BY <1>1, <1>2
<1>5. 2 * n \in -h .. h - 1 /\ 2 * n + 1 \in -h .. h - 1
  BY <1>1, <1>2, <1>3, <1>4
<1>6. 2 * n \in SignedRange(8) /\ 2 * n + 1 \in SignedRange(8)
  BY <1>5 DEF SignedRange
<1> QED
  BY <1>2, <1>3, <1>6, BytesReadSigned

(* Durations are, unless they are negative with a fraction of a second.    *)
LEMMA DurationRead ==
  ASSUME NEW v, column.code = "Duration", v \in BasicValue(column.code),
         ~("micros" \in DOMAIN v /\ v.micros < 0 /\ v.micros % MicrosPerSecond # 0)
  PROVE  ReadsBack(DecodedCell(v), v)
<1> DEFINE bs == EncodeBasic(column.code, v)
           dec == DecodedCell(v)
<1>1. dec = [duration |-> FormatDuration(Signed(bs))]
  BY DEF DecodedCell, DecodeBasicValue
<1>2. v \in [months : DurationRange] \cup [micros : DurationRange]
  BY DEF BasicValue
<1>3. CASE v \in [months : DurationRange]
  <2> DEFINE n == v.months
             d == FormatDuration(2 * n + 1)
  <2>1. n \in DurationRange /\ DOMAIN v = {"months"}
    BY <1>3, OneField
  <2>2. bs = Bytes(2 * n + 1, 8)
    BY <1>3, BasicEncoded
  <2>3. n \in Int /\ Signed(Bytes(2 * n + 1, 8)) = 2 * n + 1
    BY <2>1, DurationFits
  <2> HIDE DEF bs, n
  <2>4. dec = [duration |-> d]
    BY <1>1, <2>2, <2>3, Zenon
  <2>5. d \in Seq(Components(UnitMonths)) /\ Amount(d, UnitMonths) = n
    BY <2>3, MonthsRead
  <2> HIDE DEF d, dec
  <2>6. \A i \in DOMAIN d : d[i].unit \in DOMAIN UnitMonths
    BY <2>5, ComponentUnits
  <2>7. DurationReads(d, v)
    BY <2>1, <2>5, <2>6 DEF DurationReads, n
  <2>8. dec.duration = d
    BY <2>4
  <2>9. ReadsBack(dec, v)
    BY <2>1, <2>7, <2>8 DEF ReadsBack
  <2> QED
    BY <2>9 DEF dec
<1>4. CASE v \in [micros : DurationRange]
  <2> DEFINE n == v.micros
             d == FormatDuration(2 * n)
  <2>1. n \in DurationRange /\ DOMAIN v = {"micros"}
    BY <1>4, OneField
  <2>2. bs = Bytes(2 * n, 8)
    BY <1>4, BasicEncoded
  <2>3. n \in Int /\ Signed(Bytes(2 * n, 8)) = 2 * n
    BY <2>1, DurationFits
  <2>4. n >= 0 \/ n % MicrosPerSecond = 0
    BY <2>1, <2>3
  <2> HIDE DEF bs, n
  <2>5. dec = [duration |-> d]
    BY <1>1, <2>2, <2>3, Zenon
  <2>6. d \in Seq(Components(UnitMicros)) /\ Amount(d, UnitMicros) = n
    BY <2>3, <2>4, MicrosRead
  <2> HIDE DEF d, dec
  <2>7. (\A i \in DOMAIN d : d[i].unit \in DOMAIN UnitMicros) /\ Legible(d)
    BY <2>6, ComponentUnits DEF Legible
  <2>8. DurationReads(d, v)
    BY <2>1, <2>6, <2>7 DEF DurationReads, n
  <2>9. dec.duration = d
    BY <2>5
  <2>10. ReadsBack(dec, v)
    BY <2>1, <2>8, <2>9 DEF ReadsBack
  <2> QED
    BY <2>10 DEF dec
<1> QED
  BY <1>2, <1>3, <1>4

(* Every value of a basic type is read back, where the decoder does not    *)
(* misread it.                                                             *)
LEMMA CellRead ==
  ASSUME NEW v, column.code \in BasicTypes, zone \in Zones, v \in BasicValue(column.code), ~Misread(v)
  PROVE  ReadsBack(DecodedCell(v), v)
<1>1. column.code \in {"Int8", "Int16", "Int32", "Int64", "Uint8", "Uint16", "Uint32", "Uint64"}
      \/ column.code \in {"Bool", "Float32", "Float64", "Date", "LocalTime", "LocalDatetime"}
      \/ column.code \in {"ZonedTime", "ZonedDatetime"}
      \/ column.code = "Duration"
  BY DEF BasicTypes, SizeMap
<1>2. zone \in Int
  BY ZonesAssumption
<1>3. CASE column.code \in {"ZonedTime", "ZonedDatetime"}
  <2>1. zone >= 0
    BY <1>2 DEF Misread
  <2>2. column.code = "ZonedDatetime" => v.moment[1] >= TwoDigitYears
    <3>1. ASSUME column.code = "ZonedDatetime" PROVE v.moment[1] >= TwoDigitYears
      <4>1. v \in [moment : Moments]
        BY <3>1 DEF BasicValue
      <4>2. v.moment[1] \in Nat
        BY <4>1 DEF Moments
      <4>3. ~(v.moment[1] < TwoDigitYears)
        BY <3>1 DEF Misread
      <4> QED
        BY <4>2, <4>3, ClockAssumption
    <3> QED
      BY <3>1
  <2> QED
    BY <1>3, <2>1, <2>2, ZonedRead
<1>4. CASE column.code = "Duration"
  <2>1. ~("micros" \in DOMAIN v /\ v.micros < 0 /\ v.micros % MicrosPerSecond # 0)
    BY DEF Misread
  <2> QED
    BY <1>4, <2>1, DurationRead
<1>5. JsonExact(column.code, v)
  BY DEF Misread
<1> QED
  BY <1>1, <1>3, <1>4, <1>5, NumberRead, PlainRead

-----------------------------------------------------------------------------
(* What a cell with a value, or none, is decoded to.                       *)
CellOf(code, offset, x) == IF x = Null THEN Null ELSE DecodeBasicValue(EncodeBasic(code, x), code, offset)

CellValues(code, offset) == {CellOf(code, offset, x) : x \in Samples[code] \cup {Null}}

(* The rows decoded so far are those sent, and what is kept of a const     *)
(* vector is its value.                                                    *)
RowsInv ==
  /\ column \in Columns /\ column.code \in BasicTypes /\ zone \in Zones
  /\ schema = Of(column.code)
  /\ layout \in {"none", "flat", "const"}
  /\ sent \in Seq(Samples[column.code] \cup {Null})
  /\ decoded \in Seq(CellValues(column.code, TimezoneOffset))
  /\ Len(decoded) <= Len(sent) /\ Len(sent) <= MaxRecords
  /\ \A r \in 1 .. Len(decoded) : decoded[r] = CellOf(column.code, TimezoneOffset, sent[r])
  /\ layout = "const" => \A r \in 1 .. Len(sent) : sent[r] = sent[1]
  /\ layout # "const" => cachedConst = NoValue
  /\ layout = "none" => sent = <<>> /\ decoded = <<>>
  /\ cachedConst # NoValue => cachedConst = CellOf(column.code, TimezoneOffset, sent[1])

(* A cell of a vector is decoded to its value.                             *)
LEMMA CellDecoded ==
  ASSUME NEW vs \in Seq(Samples[column.code] \cup {Null}), NEW i \in 0 .. Len(vs) - 1, schema = Of(column.code)
  PROVE  DecodeBasicCell(BasicVector(vs), i) = CellOf(column.code, TimezoneOffset, vs[i + 1])
<1> DEFINE b == BasicVector(vs)
<1>1. i + 1 \in DOMAIN vs /\ DOMAIN vs = 1 .. Len(vs)
  OBVIOUS
<1>2. b.data[i + 1] = EncodeBasic(column.code, vs[i + 1]) /\ b.nulls = NullBits(vs)
  BY <1>1 DEF BasicVector
<1>3. IsNull(b, i) <=> vs[i + 1] = Null
  <2>1. CASE \A j \in DOMAIN vs : vs[j] # Null
    <3>1. NullBits(vs) = <<>>
      BY <2>1 DEF NullBits
    <3> QED
      BY <1>1, <1>2, <2>1, <3>1 DEF IsNull
  <2>2. CASE ~(\A j \in DOMAIN vs : vs[j] # Null)
    <3>1. NullBits(vs) = [j \in DOMAIN vs |-> vs[j] # Null]
      BY <2>2 DEF NullBits
    <3>2. NullBits(vs) # <<>>
      <4>1. DOMAIN NullBits(vs) = 1 .. Len(vs) /\ Len(vs) \in Nat /\ 1 \in 1 .. Len(vs)
        BY <1>1, <3>1
      <4> QED
        BY <4>1
    <3>3. NullBits(vs)[i + 1] = (vs[i + 1] # Null)
      BY <1>1, <3>1
    <3> QED
      BY <1>2, <3>2, <3>3 DEF IsNull
  <2> QED
    BY <2>1, <2>2
<1>4. schema.code = column.code
  BY DEF Of
<1> QED
  BY <1>2, <1>3, <1>4, Zenon DEF DecodeBasicCell, CellOf

(* Whatever batches come: flat or const, with nulls or without.            *)
LEMMA BasicStart ==
  ASSUME BasicInit
  PROVE  RowsInv
<1>1. zone \in Zones
  BY ZonesAssumption DEF BasicInit
<1>2. column \in Columns /\ column.code \in BasicTypes /\ schema = Of(column.code)
      /\ layout = "none" /\ sent = <<>> /\ decoded = <<>> /\ cachedConst = NoValue
  BY DEF BasicInit
<1>3. Len(sent) = 0 /\ Len(decoded) = 0 /\ 0 <= MaxRecords
  BY <1>2, MaxRecordsAssumption
<1> QED
  BY <1>1, <1>2, <1>3 DEF RowsInv

LEMMA BasicKept ==
  ASSUME RowsInv, [BasicNext]_rowVars
  PROVE  RowsInv'
<1> DEFINE offset == TimezoneOffset
           each == Samples[column.code] \cup {Null}
           cells == CellValues(column.code, offset)
           cell(x) == CellOf(column.code, offset, x)
<1>1. /\ column \in Columns /\ column.code \in BasicTypes /\ zone \in Zones
      /\ schema = Of(column.code) /\ layout \in {"none", "flat", "const"}
      /\ sent \in Seq(each) /\ decoded \in Seq(cells) /\ Len(decoded) <= Len(sent) /\ Len(sent) <= MaxRecords
      /\ \A r \in 1 .. Len(decoded) : decoded[r] = cell(sent[r])
      /\ layout = "const" => \A r \in 1 .. Len(sent) : sent[r] = sent[1]
      /\ layout # "const" => cachedConst = NoValue
      /\ layout = "none" => sent = <<>> /\ decoded = <<>>
      /\ cachedConst # NoValue => cachedConst = cell(sent[1])
  BY DEF RowsInv
<1>2. ASSUME column' = column, zone' = zone, schema' = schema, layout' \in {"none", "flat", "const"},
             sent' \in Seq(each), decoded' \in Seq(cells), Len(decoded') <= Len(sent'), Len(sent') <= MaxRecords,
             \A r \in 1 .. Len(decoded') : decoded'[r] = cell(sent'[r]),
             layout' = "const" => \A r \in 1 .. Len(sent') : sent'[r] = sent'[1],
             layout' # "const" => cachedConst' = NoValue,
             layout' = "none" => sent' = <<>> /\ decoded' = <<>>,
             cachedConst' # NoValue => cachedConst' = cell(sent'[1])
      PROVE  RowsInv'
  <2>1. TimezoneOffset' = offset
    BY <1>2 DEF TimezoneOffset
  <2> HIDE DEF offset
  <2> QED
    BY <1>1, <1>2, <2>1 DEF RowsInv
<1>3. ASSUME NEW i \in 0 .. Len(sent) - 1, i = Len(decoded),
             decoded' = Append(decoded, cell(sent[i + 1])),
             UNCHANGED <<column, zone, schema, layout, sent>>,
             layout # "const" => cachedConst' = NoValue,
             layout # "none",
             cachedConst' # NoValue => cachedConst' = cell(sent[1])
      PROVE  RowsInv'
  <2>1. sent[i + 1] \in each /\ i + 1 \in 1 .. Len(sent)
    BY <1>1
  <2>2. cell(sent[i + 1]) \in cells
    BY <2>1 DEF CellValues
  <2> HIDE DEF cell, cells, each, offset
  <2>3. decoded' \in Seq(cells) /\ Len(decoded') = i + 1 /\ decoded'[i + 1] = cell(sent[i + 1])
        /\ \A r \in 1 .. i : decoded'[r] = decoded[r]
    BY <1>1, <1>3, <2>2
  <2>4. \A r \in 1 .. Len(decoded') : decoded'[r] = cell(sent[r])
    BY <1>1, <1>3, <2>3
  <2>5. Len(decoded') <= Len(sent)
    BY <1>1, <2>1, <2>3
  <2> QED
    BY <1>1, <1>2, <1>3, <2>3, <2>4, <2>5
<1>4. CASE ReadBasics
  <2>1. PICK l \in {"flat", "const"} :
          /\ layout = "none" /\ layout' = l /\ sent' \in BasicBatches(l) /\ schema' = schema
          /\ UNCHANGED <<column, zone, cachedConst, decoded>>
    BY <1>4 DEF ReadBasics, ReadRows
  <2>2. sent' \in Seq(each) /\ Len(sent') <= MaxRecords /\ (l = "const" => \A r \in 1 .. Len(sent') : sent'[r] = sent'[1])
    <3>1. CASE l = "const"
      <4>1. PICK n \in 1 .. MaxRecords, x \in each : sent' = [k \in 1 .. n |-> x]
        BY <2>1, <3>1 DEF BasicBatches
      <4>2. n \in Nat /\ n >= 1 /\ n <= MaxRecords
        BY MaxRecordsAssumption
      <4> HIDE DEF each
      <4> QED
        BY <4>1, <4>2
    <3>2. CASE l = "flat"
      <4>1. PICK n \in 1 .. MaxRecords : sent' \in [1 .. n -> each]
        BY <2>1, <3>2 DEF BasicBatches
      <4>2. n \in Nat
        BY MaxRecordsAssumption
      <4> HIDE DEF each
      <4> QED
        BY <3>2, <4>1, <4>2
    <3> QED
      BY <3>1, <3>2
  <2>3. decoded' = <<>> /\ Len(decoded') = 0 /\ cachedConst' = NoValue
    BY <1>1, <2>1
  <2>4. Len(sent') \in Nat /\ decoded' \in Seq(cells)
    BY <2>2, <2>3
  <2> QED
    BY <1>1, <1>2, <2>1, <2>2, <2>3, <2>4
<1>5. CASE DecodeFlatBasic
  <2> DEFINE i == Len(decoded)
  <2>1. /\ layout \in {"flat", "reversed"} /\ i < Len(sent)
        /\ decoded' = Append(decoded, DecodeBasicCell(BasicVector(sent), i))
        /\ UNCHANGED <<column, zone, schema, layout, sent, cachedConst>>
    BY <1>5 DEF DecodeFlatBasic, DecodeFlat
  <2>2. i \in 0 .. Len(sent) - 1
    BY <1>1, <2>1
  <2>3. DecodeBasicCell(BasicVector(sent), i) = cell(sent[i + 1])
    BY <1>1, <2>2, CellDecoded
  <2> QED
    BY <1>1, <1>3, <2>1, <2>2, <2>3
<1>6. CASE DecodeConstBasic
  <2> DEFINE i == Len(decoded)
             first == DecodeBasicCell(BasicVector(<<sent[1]>>), 0)
             value == IF cachedConst # NoValue THEN cachedConst ELSE first
  <2>1. /\ layout = "const" /\ i < Len(sent)
        /\ decoded' = Append(decoded, value) /\ cachedConst' = value
        /\ UNCHANGED <<column, zone, schema, layout, sent>>
    BY <1>6 DEF DecodeConstBasic, DecodeConst
  <2>2. i \in 0 .. Len(sent) - 1
    BY <1>1, <2>1
  <2>3. first = cell(sent[1])
    <3>1. sent[1] \in each
      BY <1>1, <2>1
    <3>2. <<sent[1]>> \in Seq(each) /\ 0 \in 0 .. Len(<<sent[1]>>) - 1 /\ <<sent[1]>>[0 + 1] = sent[1]
      BY <3>1
    <3> QED
      BY <1>1, <3>2, CellDecoded
  <2>4. value = cell(sent[1])
    BY <1>1, <2>3
  <2>5. sent[i + 1] = sent[1]
    BY <1>1, <2>1, <2>2
  <2> QED
    BY <1>1, <1>3, <2>1, <2>2, <2>4, <2>5
<1>7. CASE EndBasics
  <2>1. /\ layout' = "none" /\ sent' = <<>> /\ decoded' = <<>> /\ cachedConst' = NoValue
        /\ UNCHANGED <<column, zone, schema>>
    BY <1>7 DEF EndBasics, EndRows
  <2>2. Len(sent') = 0 /\ Len(decoded') = 0 /\ sent' \in Seq(each) /\ decoded' \in Seq(cells)
        /\ 0 <= MaxRecords
    BY <2>1, MaxRecordsAssumption
  <2> QED
    BY <1>1, <1>2, <2>1, <2>2
<1>8. CASE UNCHANGED rowVars
  BY <1>1, <1>2, <1>8 DEF rowVars
<1> QED
  BY <1>4, <1>5, <1>6, <1>7, <1>8 DEF BasicNext

LEMMA BasicsReadBack ==
  ASSUME RowsInv
  PROVE  LiteralsReadBack
<1> SUFFICES ASSUME NEW r \in DOMAIN decoded
             PROVE  IF sent[r] = Null THEN decoded[r] = Null
                    ELSE Misread(sent[r]) \/ ReadsBack(decoded[r], sent[r])
  BY DEF LiteralsReadBack
<1>1. /\ column.code \in BasicTypes /\ zone \in Zones
      /\ r \in 1 .. Len(sent) /\ sent[r] \in Samples[column.code] \cup {Null}
      /\ decoded[r] = CellOf(column.code, TimezoneOffset, sent[r])
  BY DEF RowsInv
<1>2. CASE sent[r] = Null
  BY <1>1, <1>2 DEF CellOf
<1>3. CASE sent[r] # Null /\ ~Misread(sent[r])
  <2> DEFINE v == sent[r]
  <2>1. v \in BasicValue(column.code)
    BY <1>1, <1>3, SamplesAssumption
  <2>2. decoded[r] = DecodedCell(v)
    BY <1>1, <1>3 DEF CellOf, DecodedCell
  <2>3. ~Misread(v)
    BY <1>3
  <2> HIDE DEF v
  <2>4. ReadsBack(DecodedCell(v), v)
    BY <1>1, <2>1, <2>3, CellRead
  <2>5. ReadsBack(decoded[r], v)
    BY <2>2, <2>4, Zenon
  <2> QED
    BY <1>3, <2>5 DEF v
<1> QED
  BY <1>2, <1>3

(* Whoever reads the JSON of a basic value back gets the value the server  *)
(* had, in every row of every batch, unless the decoder misreads it.       *)
THEOREM LiteralsAreReadBack == BasicSpec => []LiteralsReadBack
<1>1. BasicInit => RowsInv
  BY BasicStart
<1>2. RowsInv /\ [BasicNext]_rowVars => RowsInv'
  BY BasicKept
<1>3. RowsInv => LiteralsReadBack
  BY BasicsReadBack
<1> QED
  BY <1>1, <1>2, <1>3, PTL DEF BasicSpec

=============================================================================
