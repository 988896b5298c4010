--------------------------- MODULE Money_proofs ---------------------------
(***************************************************************************)
(* Proofs about the conversions of Money, for every amount and any number  *)
(* of decimals.                                                            *)
(***************************************************************************)
EXTENDS Money, WellFoundedInduction, TLAPS

-----------------------------------------------------------------------------
(* Induction over sets of naturals.                                        *)

\* A set of naturals has a least element.
LEMMA LeastOfSet ==
  ASSUME NEW S, S \subseteq Nat, S # {}
  PROVE  \E x \in S : \A y \in S : x <= y
<1> DEFINE R == OpToRel(<, Nat)
<1>1. IsWellFoundedOn(R, Nat)
  BY NatLessThanWellFounded, Zenon
<1>2. R = {ss \in Nat \X Nat : ss[1] < ss[2]}
  BY DEF OpToRel
<1> HIDE DEF R
<1>3. PICK x \in S : \A y \in S : <<y, x>> \notin R
  BY <1>1, WFMin, Zenon
<1>4. ASSUME NEW y \in S PROVE x <= y
  <2>1. x \in Nat /\ y \in Nat /\ ~(y < x)
    BY <1>2, <1>3
  <2> QED BY <2>1
<1> QED BY <1>3, <1>4

\* A set with 0 and with each number's successor has them all.
LEMMA SetInduction ==
  ASSUME NEW S, 0 \in S, \A n \in Nat : n \in S => n + 1 \in S
  PROVE  Nat \subseteq S
<1> SUFFICES ASSUME Nat \ S # {} PROVE FALSE
  OBVIOUS
<1> DEFINE T == Nat \ S
<1>1. PICK x \in T : \A y \in T : x <= y
  BY LeastOfSet
<1>2. x \in Nat /\ x # 0 /\ x \notin S
  OBVIOUS
<1>3. x - 1 \in Nat /\ ~(x <= x - 1) /\ x - 1 + 1 = x
  BY <1>2
<1>4. x - 1 \in S
  BY <1>1, <1>3
<1> QED BY <1>2, <1>3, <1>4

-----------------------------------------------------------------------------
(* Powers of ten.                                                          *)

\* There are powers of ten up to any number, ...
PowersTo(n) == {g \in [0..n -> Nat] : g[0] = 1 /\ \A i \in 1..n : g[i] = 10 * g[i - 1]}

LEMMA PowersExist == \A n \in Nat : PowersTo(n) # {}
<1> DEFINE S == {n \in Nat : PowersTo(n) # {}}
<1>1. 0 \in S
  <2>1. [i \in 0..0 |-> 1] \in PowersTo(0)
    BY DEF PowersTo
  <2> QED BY <2>1
<1>2. ASSUME NEW n \in Nat, n \in S PROVE n + 1 \in S
  <2>1. PICK g : g \in PowersTo(n)
    BY <1>2
  <2> DEFINE h == [i \in 0..(n + 1) |-> IF i = n + 1 THEN 10 * g[n] ELSE g[i]]
  <2>2. h \in PowersTo(n + 1)
    <3>1. h \in [0..(n + 1) -> Nat] /\ h[0] = 1
      BY <2>1 DEF PowersTo
    <3>2. ASSUME NEW i \in 1..(n + 1) PROVE h[i] = 10 * h[i - 1]
      <4>1. i - 1 \in 0..n /\ h[i - 1] = g[i - 1]
        OBVIOUS
      <4>2. CASE i = n + 1
        BY <4>1, <4>2
      <4>3. CASE i # n + 1
        <5>1. i \in 1..n /\ h[i] = g[i]
          BY <4>3
        <5> QED BY <2>1, <4>1, <5>1 DEF PowersTo
      <4> QED BY <4>2, <4>3
    <3> QED BY <3>1, <3>2 DEF PowersTo
  <2> QED BY <2>2
<1> HIDE DEF S
<1>3. Nat \subseteq S
  BY <1>1, <1>2, SetInduction
<1> QED BY <1>3 DEF S

\* ... which agree where both are defined.
LEMMA PowersAgree ==
  ASSUME NEW m \in Nat, NEW n \in Nat, NEW g \in PowersTo(m), NEW h \in PowersTo(n)
  PROVE  \A i \in Nat : i <= m /\ i <= n => g[i] = h[i]
<1> DEFINE S == {i \in Nat : i <= m /\ i <= n => g[i] = h[i]}
<1>1. 0 \in S
  BY DEF PowersTo
<1>2. ASSUME NEW i \in Nat, i \in S PROVE i + 1 \in S
  <2>1. CASE i + 1 <= m /\ i + 1 <= n
    <3>1. i + 1 \in 1..m /\ i + 1 \in 1..n /\ i + 1 - 1 = i /\ g[i] = h[i]
      BY <1>2, <2>1
    <3>2. g[i + 1] = 10 * g[i] /\ h[i + 1] = 10 * h[i]
      BY <3>1 DEF PowersTo
    <3> QED BY <3>1, <3>2
  <2> QED BY <2>1
<1> HIDE DEF S
<1>3. Nat \subseteq S
  BY <1>1, <1>2, SetInduction
<1> QED BY <1>3 DEF S

\* So there is a function on all naturals that the definition of Pow10 describes.
LEMMA Pow10Def == Pow10 = [n \in Nat |-> IF n = 0 THEN 1 ELSE 10 * Pow10[n - 1]]
<1> DEFINE pick(n) == CHOOSE g : g \in PowersTo(n)
           p == [n \in Nat |-> pick(n)[n]]
<1>1. \A n \in Nat : pick(n) \in PowersTo(n)
  BY PowersExist
<1> HIDE DEF pick
<1>2. p[0] = 1
  BY <1>1 DEF PowersTo
<1>3. ASSUME NEW n \in Nat, n # 0 PROVE p[n] = 10 * p[n - 1]
  <2>1. n - 1 \in Nat /\ n - 1 <= n /\ n \in 1..n
    BY <1>3
  <2>2. pick(n)[n] = 10 * pick(n)[n - 1]
    BY <1>1, <2>1 DEF PowersTo
  <2>3. pick(n) \in PowersTo(n) /\ pick(n - 1) \in PowersTo(n - 1) /\ n - 1 <= n - 1
    BY <1>1, <2>1
  <2>4. pick(n)[n - 1] = pick(n - 1)[n - 1]
    BY <2>1, <2>3, PowersAgree
  <2> QED BY <2>1, <2>2, <2>4
<1>4. p = [n \in Nat |-> IF n = 0 THEN 1 ELSE 10 * p[n - 1]]
  BY <1>2, <1>3
<1> HIDE DEF p
<1> QED BY <1>4, Zenon DEF Pow10

LEMMA Pow10Steps == Pow10[0] = 1 /\ \A n \in Nat : Pow10[n + 1] = 10 * Pow10[n]
<1>1. Pow10[0] = 1
  BY Pow10Def
<1>2. ASSUME NEW n \in Nat PROVE Pow10[n + 1] = 10 * Pow10[n]
  <2>1. n + 1 \in Nat /\ n + 1 # 0 /\ n + 1 - 1 = n
    OBVIOUS
  <2>2. Pow10[n + 1] = 10 * Pow10[n + 1 - 1]
    BY Pow10Def, <2>1
  <2> QED BY <2>1, <2>2
<1> QED BY <1>1, <1>2

LEMMA Pow10Type == \A n \in Nat : Pow10[n] \in Nat \ {0}
<1> DEFINE S == {n \in Nat : Pow10[n] \in Nat \ {0}}
<1>1. 0 \in S
  BY Pow10Steps
<1>2. ASSUME NEW n \in Nat, n \in S PROVE n + 1 \in S
  <2>1. Pow10[n + 1] = 10 * Pow10[n] /\ Pow10[n] \in Nat \ {0}
    BY <1>2, Pow10Steps
  <2> QED BY <2>1
<1> HIDE DEF S
<1>3. Nat \subseteq S
  BY <1>1, <1>2, SetInduction
<1> QED BY <1>3 DEF S

LEMMA Pow10Sum == \A m, n \in Nat : Pow10[m + n] = Pow10[m] * Pow10[n]
<1> SUFFICES ASSUME NEW m \in Nat PROVE \A n \in Nat : Pow10[m + n] = Pow10[m] * Pow10[n]
  OBVIOUS
<1> DEFINE S == {n \in Nat : Pow10[m + n] = Pow10[m] * Pow10[n]}
<1>1. 0 \in S
  <2>1. m + 0 = m /\ Pow10[m] * 1 = Pow10[m]
    BY Pow10Type
  <2> QED BY <2>1, Pow10Steps
<1>2. ASSUME NEW n \in Nat, n \in S PROVE n + 1 \in S
  <2>1. m + (n + 1) = (m + n) + 1 /\ m + n \in Nat
    OBVIOUS
  <2>2. Pow10[m + (n + 1)] = 10 * Pow10[m + n] /\ Pow10[n + 1] = 10 * Pow10[n]
    BY <2>1, Pow10Steps
  <2>3. Pow10[m + n] = Pow10[m] * Pow10[n] /\ Pow10[m] \in Nat /\ Pow10[n] \in Nat
    BY <1>2, Pow10Type
  <2>4. \A x, y \in Nat : 10 * (x * y) = x * (10 * y)
    OBVIOUS
  <2> QED BY <2>2, <2>3, <2>4
<1> HIDE DEF S
<1>3. Nat \subseteq S
  BY <1>1, <1>2, SetInduction
<1> QED BY <1>3 DEF S

-----------------------------------------------------------------------------
(* Division, and products in an order.                                     *)

LEMMA Division ==
  ASSUME NEW v \in Nat, NEW k \in Nat \ {0}
  PROVE  v \div k \in Nat /\ v % k \in 0..(k - 1) /\ v = k * (v \div k) + (v % k)
  OBVIOUS

\* k divides its multiples and nothing else.
LEMMA Divides ==
  ASSUME NEW v \in Nat, NEW k \in Nat \ {0}
  PROVE  /\ v % k = 0 => v = (v \div k) * k
         /\ \A j \in Nat : v = j * k => v % k = 0 /\ v \div k = j
<1>1. ASSUME v % k = 0 PROVE v = (v \div k) * k
  BY <1>1, Division
<1>2. ASSUME NEW j \in Nat, v = j * k PROVE v % k = 0 /\ v \div k = j
  <2> DEFINE q == v \div k  r == v % k
  <2>1. q \in Nat /\ r \in 0..(k - 1) /\ j * k = k * q + r
    BY <1>2, Division
  <2> HIDE DEF q, r
  <2>2. CASE j >= q + 1
    <3>1. j * k >= (q + 1) * k
      BY <2>1, <2>2
    <3>2. (q + 1) * k = k * q + k
      BY <2>1
    <3> QED BY <2>1, <3>1, <3>2
  <2>3. CASE j + 1 <= q
    <3>1. k * q >= k * (j + 1)
      BY <2>1, <2>3
    <3>2. k * (j + 1) = j * k + k
      OBVIOUS
    <3> QED BY <2>1, <3>1, <3>2
  <2>4. CASE j = q
    BY <2>1, <2>4 DEF q, r
  <2> QED BY <2>1, <2>2, <2>3, <2>4
<1> QED BY <1>1, <1>2

LEMMA Quotient ==
  ASSUME NEW v \in Nat, NEW k \in Nat \ {0}, v % k = 0
  PROVE  v \div k \in Nat /\ v = (v \div k) * k
  BY Division, Divides

LEMMA ScaledOrder ==
  ASSUME NEW x \in Nat, NEW y \in Nat, NEW k \in Nat \ {0}
  PROVE  x >= y <=> x * k >= y * k
<1>1. x >= y => x * k >= y * k
  OBVIOUS
<1>2. ASSUME y >= x + 1 PROVE y * k >= x * k + k
  <2>1. y * k >= (x + 1) * k
    BY <1>2
  <2> QED BY <2>1
<1> QED BY <1>1, <1>2

-----------------------------------------------------------------------------
(* The conversions.                                                        *)

\* Base units are the amount, scaled by the asset's decimals.
LEMMA BaseUnitsValue ==
  ASSUME NEW a \in Decimal, NEW d \in Nat, Converts(a, d)
  PROVE  toBaseUnits(a, d) \in Nat /\ toBaseUnits(a, d) * Pow10[a.places] = a.units * Pow10[d]
<1>1. a.units \in Nat /\ a.places \in Nat
  BY DEF Decimal
<1>2. CASE a.places <= d
  <2>1. d - a.places \in Nat /\ (d - a.places) + a.places = d
    BY <1>1, <1>2
  <2>2. /\ Pow10[d] = Pow10[d - a.places] * Pow10[a.places]
        /\ Pow10[d - a.places] \in Nat /\ Pow10[a.places] \in Nat
    BY <1>1, <2>1, Pow10Sum, Pow10Type
  <2>3. toBaseUnits(a, d) = a.units * Pow10[d - a.places]
    BY <1>2 DEF toBaseUnits, Scaled
  <2>4. \A x, y, z \in Nat : x * y \in Nat /\ (x * y) * z = x * (y * z)
    OBVIOUS
  <2> QED BY <1>1, <2>2, <2>3, <2>4
<1>3. CASE ~(a.places <= d)
  <2> DEFINE k == Pow10[a.places - d]
  <2>1. a.places - d \in Nat /\ (a.places - d) + d = a.places
    BY <1>1, <1>3
  <2>2. Pow10[a.places] = k * Pow10[d] /\ k \in Nat \ {0} /\ Pow10[d] \in Nat
    BY <2>1, Pow10Sum, Pow10Type
  <2>3. toBaseUnits(a, d) = a.units \div k /\ a.units % k = 0
    BY <1>3 DEF toBaseUnits, Converts
  <2> HIDE DEF k
  <2>4. toBaseUnits(a, d) \in Nat /\ a.units = toBaseUnits(a, d) * k
    <3> DEFINE u == a.units
    <3>1. u \in Nat /\ u % k = 0
      BY <1>1, <2>3
    <3> HIDE DEF u
    <3>2. u \div k \in Nat /\ u = (u \div k) * k
      BY <2>2, <3>1, Quotient
    <3> QED BY <2>3, <3>2 DEF u
  <2>5. \A x, y, z \in Nat : x * (y * z) = (x * y) * z
    OBVIOUS
  <2> QED BY <2>2, <2>4, <2>5
<1> QED BY <1>2, <1>3

\* An amount converts if it is a whole number of base units.
LEMMA ConvertsWhole ==
  ASSUME NEW a \in Decimal, NEW d \in Nat
  PROVE  Converts(a, d) <=> (a.units * Pow10[d]) % Pow10[a.places] = 0
<1>1. a.units \in Nat /\ a.places \in Nat /\ Pow10[d] \in Nat \ {0} /\ Pow10[a.places] \in Nat \ {0}
  BY Pow10Type DEF Decimal
<1>2. a.units * Pow10[d] \in Nat
  BY <1>1
<1>3. ASSUME Converts(a, d) PROVE (a.units * Pow10[d]) % Pow10[a.places] = 0
  BY <1>1, <1>2, <1>3, BaseUnitsValue, Divides
<1>4. ASSUME (a.units * Pow10[d]) % Pow10[a.places] = 0, ~Converts(a, d) PROVE FALSE
  <2> DEFINE k == Pow10[a.places - d]
             j == (a.units * Pow10[d]) \div Pow10[a.places]
  <2>1. ~(a.places <= d) /\ a.units % k # 0
    BY <1>4 DEF Converts
  <2>2. a.places - d \in Nat /\ (a.places - d) + d = a.places
    BY <1>1, <2>1
  <2>3. Pow10[a.places] = k * Pow10[d] /\ k \in Nat \ {0}
    BY <2>2, Pow10Sum, Pow10Type
  <2>4. j \in Nat /\ a.units * Pow10[d] = j * Pow10[a.places]
    BY <1>1, <1>2, <1>4, Division, Divides
  <2> HIDE DEF k, j
  <2>5. a.units * Pow10[d] = (j * k) * Pow10[d] /\ j * k \in Nat
    BY <1>1, <2>3, <2>4
  <2>6. a.units = j * k
    <3>1. (a.units >= j * k <=> a.units * Pow10[d] >= (j * k) * Pow10[d])
          /\ (j * k >= a.units <=> (j * k) * Pow10[d] >= a.units * Pow10[d])
      BY <1>1, <2>5, ScaledOrder
    <3>2. a.units * Pow10[d] \in Nat
      BY <1>1
    <3> QED BY <1>1, <2>5, <3>1, <3>2
  <2> QED BY <1>1, <2>1, <2>3, <2>4, <2>6, Divides
<1> QED BY <1>3, <1>4

\* isAtLeast of externalTransfer.service compares the amounts as fractions, for any number
\* of decimals, and lets none pass that is finer than the asset.
THEOREM ComparesAsFractions ==
  ASSUME NEW a \in Decimal, NEW b \in Decimal, NEW d \in Nat
  PROVE  isAtLeast(a, b, d) <=> /\ AtMost(b, a)
                                /\ (a.units * Pow10[d]) % Pow10[a.places] = 0
                                /\ (b.units * Pow10[d]) % Pow10[b.places] = 0
<1> SUFFICES ASSUME Converts(a, d), Converts(b, d)
             PROVE  toBaseUnits(a, d) >= toBaseUnits(b, d) <=> AtMost(b, a)
  BY ConvertsWhole DEF isAtLeast
<1> DEFINE x == toBaseUnits(a, d)  y == toBaseUnits(b, d)
           p == Pow10[a.places]  q == Pow10[b.places]  s == Pow10[d]
<1>1. a.units \in Nat /\ b.units \in Nat /\ p \in Nat \ {0} /\ q \in Nat \ {0} /\ s \in Nat \ {0}
  BY Pow10Type DEF Decimal
<1>2. x \in Nat /\ y \in Nat /\ x * p = a.units * s /\ y * q = b.units * s
  BY BaseUnitsValue
<1>3. AtMost(b, a) <=> a.units * q >= b.units * p
  <2>1. AtMost(b, a) <=> b.units * p <= a.units * q
    BY DEF AtMost
  <2>2. a.units * q \in Nat /\ b.units * p \in Nat
    BY <1>1
  <2> QED BY <2>1, <2>2
<1> HIDE DEF x, y, p, q, s
<1>4. p * q \in Nat \ {0} /\ a.units * q \in Nat /\ b.units * p \in Nat
  BY <1>1
<1>5. x >= y <=> x * (p * q) >= y * (p * q)
  BY <1>2, <1>4, ScaledOrder
<1>6. x * (p * q) = (a.units * q) * s
  <2>1. x * (p * q) = (x * p) * q
    BY <1>1, <1>2
  <2>2. (a.units * s) * q = (a.units * q) * s
    BY <1>1
  <2> QED BY <1>2, <2>1, <2>2
<1>7. y * (p * q) = (b.units * p) * s
  <2>1. y * (p * q) = (y * q) * p
    BY <1>1, <1>2
  <2>2. (b.units * s) * p = (b.units * p) * s
    BY <1>1
  <2> QED BY <1>2, <2>1, <2>2
<1>8. a.units * q >= b.units * p <=> (a.units * q) * s >= (b.units * p) * s
  BY <1>1, <1>4, ScaledOrder
<1> QED BY <1>3, <1>5, <1>6, <1>7, <1>8 DEF x, y

\* fromBaseUnits cuts the zeros at the end, and with them nothing else.
LEMMA Shown ==
  ASSUME NEW v \in Nat, NEW d \in Nat
  PROVE  LET shown == fromBaseUnits(v, d)
         IN  /\ shown \in Decimal /\ shown.places \in 0..d
             /\ v = shown.units * Pow10[d - shown.places]
             /\ \A q \in 0..d : v % Pow10[d - q] = 0 => shown.places <= q
<1> DEFINE S == {p \in 0..d : Fits(v, d, p)}
           Least(p) == Fits(v, d, p) /\ \A q \in 0..d : Fits(v, d, q) => p <= q
           p == CHOOSE p \in 0..d : Least(p)
           k == Pow10[d - p]
<1>1. d \in S
  <2>1. Pow10[d - d] = 1 /\ v % 1 = 0
    BY Pow10Steps
  <2> QED BY <2>1 DEF Fits
<1>2. \E x \in 0..d : Least(x)
  <2>1. S \subseteq Nat /\ S # {}
    BY <1>1
  <2> HIDE DEF S
  <2>2. PICK x \in S : \A y \in S : x <= y
    BY <2>1, LeastOfSet
  <2> QED BY <2>2 DEF S
<1>3. p \in 0..d /\ Least(p)
  BY <1>2
<1>4. fromBaseUnits(v, d) = [units |-> v \div k, places |-> p]
  BY DEF fromBaseUnits
<1>5. k \in Nat \ {0} /\ v % k = 0
  BY <1>3, Pow10Type DEF Fits
<1> HIDE DEF p, k
<1>6. v \div k \in Nat /\ v = (v \div k) * k
  BY <1>5, Quotient
<1> QED BY <1>3, <1>4, <1>6 DEF Decimal, Fits, k

\* fromBaseUnits shows a number of base units that toBaseUnits reads back unchanged, with
\* no zero at the end of a fraction, however many decimals the asset has.
THEOREM BaseUnitsRoundTrip ==
  ASSUME NEW v \in Nat, NEW d \in Nat
  PROVE  LET shown == fromBaseUnits(v, d)
         IN  /\ Converts(shown, d) /\ toBaseUnits(shown, d) = v
             /\ shown.places > 0 => shown.units % 10 # 0
<1> DEFINE shown == fromBaseUnits(v, d)  u == shown.units  p == shown.places
<1>1. /\ u \in Nat /\ p \in 0..d /\ v = u * Pow10[d - p]
      /\ \A q \in 0..d : v % Pow10[d - q] = 0 => p <= q
  BY Shown DEF Decimal
<1>2. Converts(shown, d) /\ toBaseUnits(shown, d) = v
  BY <1>1 DEF Converts, toBaseUnits, Scaled
<1> HIDE DEF shown, u, p
<1>3. ASSUME p > 0, u % 10 = 0 PROVE FALSE
  <2> DEFINE k == Pow10[d - p]  j == u \div 10
  <2>1. j \in Nat /\ u = j * 10
    BY <1>1, <1>3, Quotient
  <2>2. d - p \in Nat /\ p - 1 \in 0..d /\ d - (p - 1) = (d - p) + 1
    BY <1>1, <1>3
  <2>3. k \in Nat \ {0} /\ Pow10[d - (p - 1)] = 10 * k
    BY <2>2, Pow10Steps, Pow10Type
  <2> HIDE DEF k, j
  <2>4. v = j * (10 * k) /\ 10 * k \in Nat \ {0}
    <3>1. v = (j * 10) * k
      BY <1>1, <2>1 DEF k
    <3> QED BY <2>1, <2>3, <3>1
  <2>5. v % (10 * k) = 0
    BY <2>1, <2>4, Divides
  <2>6. p <= p - 1
    BY <1>1, <2>2, <2>3, <2>5
  <2> QED BY <1>1, <2>6
<1> QED BY <1>2, <1>3 DEF shown, u, p
===========================================================================
