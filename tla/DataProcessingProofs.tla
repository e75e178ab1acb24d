------------------------ MODULE DataProcessingProofs ------------------------
(***************************************************************************)
(* The shifter operand and the flags of arm_data_processing.c are what     *)
(* arithmetic says they are, for every width of the words.  The provers    *)
(* know neither induction nor powers of two, so both come first: induction *)
(* as a statement about sets, from the well-foundedness of the naturals.   *)
(***************************************************************************)
EXTENDS DataProcessing, WellFoundedInduction, TLAPS

LEMMA Least ==
    ASSUME NEW T, T \subseteq Nat, T # {}
    PROVE  \E x \in T : \A y \in T : x <= y
<1>1. PICK x \in T : \A y \in T : ~(<<y, x>> \in OpToRel(<, Nat))
  BY NatLessThanWellFounded, WFMin
<1>2. ASSUME NEW y \in T
      PROVE  x <= y
  <2>1. ~(y < x)
    BY <1>1 DEF OpToRel
  <2> QED BY <2>1
<1> QED BY <1>2

LEMMA Induction ==
    ASSUME NEW S, 0 \in S, \A n \in Nat : n \in S => n + 1 \in S
    PROVE  \A n \in Nat : n \in S
<1>1. SUFFICES ASSUME Nat \ S # {} PROVE FALSE
  OBVIOUS
<1>2. PICK x \in Nat \ S : \A y \in Nat \ S : x <= y
  BY <1>1, Least
<1>3. x - 1 \in Nat /\ x - 1 \in S
  BY <1>2
<1> QED BY <1>2, <1>3

-----------------------------------------------------------------------------
(* Powers of two.  The function that the recursion defines exists: its     *)
(* prefixes do, and two of them agree.                                     *)

Prefix(n, g) ==
    /\ g \in [0 .. n -> Nat] /\ g[0] = 1
    /\ \A i \in 1 .. n : g[i] = 2 * g[i - 1]

LEMMA PrefixExists == \A n \in Nat : \E g : Prefix(n, g)
<1> DEFINE S == {n \in Nat : \E g : Prefix(n, g)}
<1>1. 0 \in S
  <2>1. Prefix(0, [i \in 0 .. 0 |-> 1])
    BY DEF Prefix
  <2> QED BY <2>1
<1>2. ASSUME NEW n \in Nat, n \in S
      PROVE  n + 1 \in S
  <2>1. PICK g : Prefix(n, g)
    BY <1>2
  <2>2. PICK h : h = [i \in 0 .. n + 1 |-> IF i = n + 1 THEN 2 * g[n] ELSE g[i]]
    OBVIOUS
  <2>3. h \in [0 .. n + 1 -> Nat] /\ h[0] = 1
    BY <2>1, <2>2 DEF Prefix
  <2>4. ASSUME NEW i \in 1 .. n + 1
        PROVE  h[i] = 2 * h[i - 1]
    <3>1. CASE i = n + 1
      BY <2>2, <3>1
    <3>2. CASE i # n + 1
      <4>1. i \in 1 .. n /\ i - 1 \in 0 .. n /\ i - 1 # n + 1 /\ i \in 0 .. n + 1
            /\ i - 1 \in 0 .. n + 1
        BY <3>2
      <4> QED BY <2>1, <2>2, <3>2, <4>1 DEF Prefix
    <3> QED BY <3>1, <3>2
  <2>5. Prefix(n + 1, h)
    BY <2>3, <2>4 DEF Prefix
  <2> QED BY <2>5
<1> HIDE DEF S
<1>3. \A n \in Nat : n \in S
  BY <1>1, <1>2, Induction
<1> QED BY <1>3 DEF S

LEMMA PrefixUnique ==
    ASSUME NEW n \in Nat, NEW m \in Nat, NEW g, NEW h, Prefix(n, g), Prefix(m, h)
    PROVE  \A i \in Nat : i <= n /\ i <= m => g[i] = h[i]
<1> DEFINE S == {i \in Nat : i <= n /\ i <= m => g[i] = h[i]}
<1>1. 0 \in S
  BY DEF Prefix
<1>2. ASSUME NEW i \in Nat, i \in S
      PROVE  i + 1 \in S
  <2>1. CASE i + 1 <= n /\ i + 1 <= m
    <3>1. i + 1 \in 1 .. n /\ i + 1 \in 1 .. m /\ (i + 1) - 1 = i
      BY <2>1
    <3>2. g[i + 1] = 2 * g[i] /\ h[i + 1] = 2 * h[i]
      BY <3>1 DEF Prefix
    <3> QED BY <1>2, <2>1, <3>2
  <2>2. CASE ~(i + 1 <= n /\ i + 1 <= m)
    BY <2>2
  <2> QED BY <2>1, <2>2
<1> HIDE DEF S
<1>3. \A i \in Nat : i \in S
  BY <1>1, <1>2, Induction
<1> QED BY <1>3 DEF S

LEMMA PowerRecursion ==
    /\ Power \in [Nat -> Nat] /\ Power[0] = 1
    /\ \A n \in Nat : Power[n + 1] = 2 * Power[n]
<1>1. PICK longest : \A n \in Nat : Prefix(n, longest[n])
  <2>1. \A n \in Nat : Prefix(n, [k \in Nat |-> CHOOSE g : Prefix(k, g)][n])
    BY PrefixExists
  <2> QED BY <2>1
<1>2. PICK f : f = [n \in Nat |-> longest[n][n]]
  OBVIOUS
<1>3. f = [n \in Nat |-> IF n = 0 THEN 1 ELSE 2 * f[n - 1]]
  <2>1. ASSUME NEW n \in Nat
        PROVE  longest[n][n] = IF n = 0 THEN 1 ELSE 2 * f[n - 1]
    <3>1. CASE n = 0
      BY <1>1, <3>1 DEF Prefix
    <3>2. CASE n # 0
      <4>1. n - 1 \in Nat /\ n \in 1 .. n /\ n - 1 <= n
        BY <3>2
      <4>2. PICK g : g = longest[n] /\ Prefix(n, g)
        BY <1>1
      <4>3. PICK h : h = longest[n - 1] /\ Prefix(n - 1, h)
        BY <1>1, <4>1
      <4>4. h[n - 1] = g[n - 1]
        BY <4>1, <4>2, <4>3, PrefixUnique
      <4>5. g[n] = 2 * g[n - 1]
        BY <4>1, <4>2 DEF Prefix
      <4>6. f[n - 1] = h[n - 1]
        BY <1>2, <4>1, <4>3
      <4> QED BY <3>2, <4>2, <4>4, <4>5, <4>6
    <3> QED BY <3>1, <3>2
  <2> QED BY <1>2, <2>1
<1>4. Power = [n \in Nat |-> IF n = 0 THEN 1 ELSE 2 * Power[n - 1]]
  BY <1>3 DEF Power
<1>5. Power[0] = 1 /\ \A n \in Nat : Power[n + 1] = 2 * Power[n]
  BY <1>4
<1> DEFINE S == {n \in Nat : Power[n] \in Nat}
<1>6. 0 \in S /\ \A n \in Nat : n \in S => n + 1 \in S
  BY <1>5
<1> HIDE DEF S
<1>7. \A n \in Nat : n \in S
  BY <1>6, Induction
<1> QED BY <1>4, <1>5, <1>7 DEF S

\* A power is positive, a larger one is a multiple of a smaller one.
LEMMA PowerPositive == \A n \in Nat : Power[n] \in Nat /\ Power[n] >= 1
<1> DEFINE S == {n \in Nat : Power[n] >= 1}
<1>1. 0 \in S /\ \A n \in Nat : n \in S => n + 1 \in S
  BY PowerRecursion
<1> HIDE DEF S
<1>2. \A n \in Nat : n \in S
  BY <1>1, Induction
<1> QED BY <1>2, PowerRecursion DEF S

LEMMA PowerSum == \A a \in Nat, b \in Nat : Power[a + b] = Power[a] * Power[b]
<1>1. SUFFICES ASSUME NEW a \in Nat
               PROVE  \A b \in Nat : Power[a + b] = Power[a] * Power[b]
  OBVIOUS
<1> DEFINE S == {b \in Nat : Power[a + b] = Power[a] * Power[b]}
<1>2. 0 \in S
  BY PowerRecursion
<1>3. ASSUME NEW b \in Nat, b \in S
      PROVE  b + 1 \in S
  <2>1. PICK p \in Nat, q \in Nat : p = Power[a] /\ q = Power[b]
    BY PowerPositive
  <2>2. a + b \in Nat /\ a + (b + 1) = (a + b) + 1
    OBVIOUS
  <2>3. Power[a + (b + 1)] = 2 * (p * q) /\ Power[b + 1] = 2 * q
    BY <1>3, <2>1, <2>2, PowerRecursion
  <2>4. 2 * (p * q) = p * (2 * q)
    OBVIOUS
  <2> QED BY <2>1, <2>3, <2>4
<1> HIDE DEF S
<1>4. \A b \in Nat : b \in S
  BY <1>2, <1>3, Induction
<1> QED BY <1>4 DEF S

-----------------------------------------------------------------------------
(* Quotients *)

LEMMA Division ==
    ASSUME NEW x \in Int, NEW d \in Nat, d >= 1
    PROVE  /\ x \div d \in Int /\ (x % d) \in Int
           /\ x = (x \div d) * d + (x % d) /\ 0 <= (x % d) /\ (x % d) < d
OBVIOUS

LEMMA NoMultipleBetween ==
    ASSUME NEW d \in Nat, d >= 1, NEW q \in Int, NEW p \in Int, q * d < (p + 1) * d
    PROVE  q <= p
<1>1. SUFFICES ASSUME q >= p + 1 PROVE FALSE
  OBVIOUS
<1>2. PICK k \in Nat : q = p + 1 + k
  <2>1. q - (p + 1) \in Nat /\ q = p + 1 + (q - (p + 1))
    BY <1>1
  <2> QED BY <2>1
<1>3. q * d = (p + 1) * d + k * d /\ k * d >= 0
  BY <1>2
<1> QED BY <1>3

LEMMA Quotient ==
    ASSUME NEW x \in Int, NEW d \in Nat, d >= 1, NEW q \in Int, NEW r \in Int,
           x = q * d + r, 0 <= r, r < d
    PROVE  x \div d = q /\ (x % d) = r
<1>1. PICK p \in Int, s \in Int :
          p = x \div d /\ s = (x % d) /\ x = p * d + s /\ 0 <= s /\ s < d
  BY Division
<1>2. (p + 1) * d = p * d + d /\ (q + 1) * d = q * d + d
  OBVIOUS
<1>3. p * d \in Int /\ q * d \in Int
  OBVIOUS
<1>4. q * d < (p + 1) * d /\ p * d < (q + 1) * d
  BY <1>1, <1>2, <1>3
<1>5. p = q
  BY <1>4, NoMultipleBetween
<1> QED BY <1>1, <1>5

\* Quotients of quotients, of multiples and of small numbers.
LEMMA QuotientOfMultiple ==
    ASSUME NEW x \in Int, NEW c \in Nat, NEW d \in Nat, c >= 1, d >= 1
    PROVE  (x * c) \div (c * d) = x \div d
<1>1. PICK q \in Int, r \in Int : q = x \div d /\ x = q * d + r /\ 0 <= r /\ r < d
  BY Division
<1>2. x * c = q * (c * d) + r * c
  BY <1>1
<1>3. c * d \in Nat /\ c * d >= 1 /\ r * c \in Int /\ 0 <= r * c /\ r * c < c * d
  <2>1. PICK e \in Nat : d = r + 1 + e
    <3>1. d - r - 1 \in Nat /\ d = r + 1 + (d - r - 1)
      BY <1>1
    <3> QED BY <3>1
  <2>2. c * d = r * c + c + c * e /\ r * c >= 0 /\ c * e >= 0
    BY <1>1, <2>1
  <2> QED BY <1>1, <2>2
<1> QED BY <1>1, <1>2, <1>3, Quotient

LEMMA QuotientOfQuotient ==
    ASSUME NEW x \in Int, NEW c \in Nat, NEW d \in Nat, c >= 1, d >= 1
    PROVE  x \div (c * d) = (x \div c) \div d
<1>1. PICK q \in Int, r \in Int : q = x \div c /\ x = q * c + r /\ 0 <= r /\ r < c
  BY Division
<1>2. PICK p \in Int, s \in Int : p = q \div d /\ q = p * d + s /\ 0 <= s /\ s < d
  BY Division
<1>3. x = p * (c * d) + (s * c + r)
  <2>1. q * c = p * (c * d) + s * c
    <3>1. (p * d + s) * c = p * (c * d) + s * c
      OBVIOUS
    <3> QED BY <1>2, <3>1
  <2>2. p * (c * d) \in Int /\ s * c \in Int
    OBVIOUS
  <2> QED BY <1>1, <2>1, <2>2
<1>4. c * d \in Nat /\ c * d >= 1 /\ s * c + r \in Int /\ 0 <= s * c + r /\ s * c + r < c * d
  <2>1. PICK e \in Nat : d = s + 1 + e
    <3>1. d - s - 1 \in Nat /\ d = s + 1 + (d - s - 1)
      BY <1>2
    <3> QED BY <3>1
  <2>2. c * d = s * c + c + c * e /\ s * c >= 0 /\ c * e >= 0 /\ s * c \in Int
    BY <1>2, <2>1
  <2> QED BY <1>1, <2>2
<1>5. PICK m \in Nat, t \in Int : m = c * d /\ t = s * c + r
  BY <1>4
<1>6. x \div m = p
  BY <1>3, <1>4, <1>5, Quotient
<1> QED BY <1>1, <1>2, <1>5, <1>6

LEMMA QuotientOfSum ==
    ASSUME NEW x \in Int, NEW k \in Int, NEW d \in Nat, d >= 1
    PROVE  (x + k * d) \div d = (x \div d) + k /\ ((x + k * d) % d) = (x % d)
<1>1. PICK q \in Int, r \in Int :
          q = x \div d /\ r = (x % d) /\ x = q * d + r /\ 0 <= r /\ r < d
  BY Division
<1>2. PICK y \in Int, m \in Int : y = x + k * d /\ m = q + k
  OBVIOUS
<1>3. (q + k) * d = q * d + k * d /\ q * d \in Int /\ k * d \in Int
  OBVIOUS
<1>4. y = m * d + r
  BY <1>1, <1>2, <1>3
<1>5. y \div d = m /\ (y % d) = r
  BY <1>1, <1>4, Quotient
<1> QED BY <1>1, <1>2, <1>5

LEMMA SmallQuotient ==
    ASSUME NEW x \in Int, NEW d \in Nat, 0 <= x, x < d
    PROVE  x \div d = 0 /\ (x % d) = x
<1>1. x = 0 * d + x
  OBVIOUS
<1> QED BY <1>1, Quotient

\* the quotient of a number below a product is below the other factor
LEMMA QuotientBelow ==
    ASSUME NEW x \in Int, NEW c \in Nat, NEW d \in Nat, c >= 1, d >= 1, 0 <= x, x < c * d
    PROVE  x \div c \in Nat /\ x \div c < d
<1>1. PICK q \in Int, r \in Int : q = x \div c /\ x = q * c + r /\ 0 <= r /\ r < c
  BY Division
<1>2. q * c < d * c /\ 0 * c < (q + 1) * c
  BY <1>1
<1>3. q <= d - 1 /\ 0 <= q
  <2>1. q * c < ((d - 1) + 1) * c
    BY <1>2
  <2> QED BY <1>2, <2>1, NoMultipleBetween
<1> QED BY <1>1, <1>3

-----------------------------------------------------------------------------
(* Words and their bits *)

LEMMA Widths ==
    /\ W \in Nat /\ W >= 4 /\ W - 1 \in Nat /\ W \div 4 \in 0 .. W
    /\ WordSize \in Nat /\ WordSize >= 1 /\ WordSize = 2 * Power[W - 1]
<1>1. W \in Nat /\ W >= 4 /\ W - 1 \in Nat /\ W \div 4 \in 0 .. W /\ (W - 1) + 1 = W
  BY WidthAssumption
<1>2. Power[W] = 2 * Power[W - 1] /\ Power[W] \in Nat /\ Power[W] >= 1
  <2>1. Power[(W - 1) + 1] = 2 * Power[W - 1]
    BY <1>1, PowerRecursion
  <2> QED BY <1>1, <2>1, PowerPositive
<1> QED BY <1>1, <1>2 DEF WordSize

\* A power that divides another.
LEMMA PowerSplit ==
    ASSUME NEW n \in Nat, NEW k \in 0 .. n
    PROVE  /\ n - k \in Nat /\ Power[n - k] \in Nat /\ Power[n - k] >= 1
           /\ Power[k] \in Nat /\ Power[k] >= 1
           /\ Power[n] = Power[k] * Power[n - k] /\ Power[k] <= Power[n]
<1>1. n - k \in Nat /\ k \in Nat /\ k + (n - k) = n
  OBVIOUS
<1>2. Power[n] = Power[k] * Power[n - k]
  BY <1>1, PowerSum
<1>3. PICK p \in Nat, q \in Nat : p = Power[k] /\ q = Power[n - k] /\ p >= 1 /\ q >= 1
  BY <1>1, PowerPositive
<1>4. p <= p * q
  <2>1. PICK e \in Nat : q = 1 + e
    <3>1. q - 1 \in Nat /\ q = 1 + (q - 1)
      BY <1>3
    <3> QED BY <3>1
  <2>2. p * q = p + p * e /\ p * e >= 0
    BY <2>1
  <2> QED BY <2>2
<1> QED BY <1>1, <1>2, <1>3, <1>4

LEMMA GetBit ==
    ASSUME NEW x \in Int, NEW i \in Nat
    PROVE  get_bit(x, i) \in {0, 1} /\ x \div Power[i] \in Int
<1>1. PICK q \in Int : q = x \div Power[i]
  BY PowerPositive, Division
<1>2. (q % 2) \in {0, 1}
  OBVIOUS
<1> QED BY <1>1, <1>2 DEF get_bit

LEMMA BitStep ==
    ASSUME NEW x \in Int, NEW i \in Nat
    PROVE  x \div Power[i] = 2 * (x \div Power[i + 1]) + get_bit(x, i)
<1>1. PICK p \in Nat : p = Power[i] /\ p >= 1 /\ Power[i + 1] = p * 2
  BY PowerPositive, PowerRecursion
<1>2. PICK q \in Int : q = x \div p
  BY <1>1, Division
<1>3. x \div (p * 2) = q \div 2
  BY <1>1, <1>2, QuotientOfQuotient
<1>4. q = 2 * (q \div 2) + (q % 2)
  OBVIOUS
<1> QED BY <1>1, <1>2, <1>3, <1>4 DEF get_bit

LEMMA SameBits ==
    ASSUME NEW x \in Word, NEW y \in Word, Bits[x] = Bits[y]
    PROVE  x = y
<1> DEFINE S == {k \in Nat : k <= W => x \div Power[W - k] = y \div Power[W - k]}
<1>1. /\ W \in Nat /\ WordSize \in Nat /\ x \in Int /\ y \in Int
      /\ 0 <= x /\ x < WordSize /\ 0 <= y /\ y < WordSize
  BY Widths DEF Word
<1>2. 0 \in S
  <2>1. W - 0 = W /\ x \div WordSize = 0 /\ y \div WordSize = 0
    BY <1>1, SmallQuotient
  <2> QED BY <2>1 DEF WordSize
<1>3. ASSUME NEW k \in Nat, k \in S
      PROVE  k + 1 \in S
  <2>1. CASE k + 1 <= W
    <3>1. PICK i \in Nat : i = W - (k + 1) /\ i + 1 = W - k /\ i \in 0 .. W - 1
      <4>1. W - (k + 1) \in Nat /\ (W - (k + 1)) + 1 = W - k /\ W - (k + 1) <= W - 1
        BY <1>1, <2>1
      <4> QED BY <1>1, <4>1
    <3>2. get_bit(x, i) = 1 <=> get_bit(y, i) = 1
      <4>1. i \in Bits[x] <=> i \in Bits[y]
        OBVIOUS
      <4> QED BY <3>1, <4>1 DEF Bits
    <3>3. get_bit(x, i) = get_bit(y, i)
      <4>1. get_bit(x, i) \in {0, 1} /\ get_bit(y, i) \in {0, 1}
        BY <1>1, GetBit
      <4> QED BY <3>2, <4>1
    <3>4. k <= W
      BY <1>1, <2>1
    <3>5. x \div Power[i + 1] = y \div Power[i + 1]
      BY <1>3, <3>1, <3>4
    <3>6. x \div Power[i] = y \div Power[i]
      BY <1>1, <3>3, <3>5, BitStep
    <3> QED BY <3>1, <3>6
  <2>2. CASE ~(k + 1 <= W)
    BY <2>2
  <2> QED BY <2>1, <2>2
<1> HIDE DEF S
<1>4. \A k \in Nat : k \in S
  BY <1>2, <1>3, Induction
<1>5. x \div Power[W - W] = y \div Power[W - W]
  BY <1>1, <1>4 DEF S
<1>6. W - W = 0 /\ Power[0] = 1
  BY <1>1, PowerRecursion
<1>7. x \div 1 = x /\ y \div 1 = y
  BY <1>1
<1> QED BY <1>5, <1>6, <1>7

\* The bits of a sum whose parts have no place in common.
LEMMA BitOfSum ==
    ASSUME NEW k \in Nat, NEW x \in Nat, x < Power[k], NEW q \in Nat, NEW y \in Nat,
           y = q * Power[k], NEW i \in Nat
    PROVE  /\ i < k => get_bit(x + y, i) = get_bit(x, i) /\ get_bit(y, i) = 0
           /\ i >= k => get_bit(x + y, i) = get_bit(y, i) /\ get_bit(x, i) = 0
<1>1. PICK z \in Nat : z = x + y
  OBVIOUS
<1>2. PICK c \in Nat : c = Power[i] /\ c >= 1
  BY PowerPositive
<1>3. PICK p \in Nat : p = Power[k] /\ p >= 1
  BY PowerPositive
<1>4. CASE i < k
  <2>1. i + 1 \in 0 .. k /\ k - (i + 1) \in Nat
    BY <1>4
  <2>2. PICK e \in Nat : e = Power[k - (i + 1)]
    BY <2>1, PowerPositive
  <2>3. p = (2 * c) * e
    <3>1. Power[k] = Power[i + 1] * Power[k - (i + 1)]
      BY <2>1, PowerSplit
    <3>2. Power[i + 1] = 2 * c
      BY <1>2, PowerRecursion
    <3> QED BY <1>3, <2>2, <3>1, <3>2
  <2>4. PICK m \in Int : m = q * e
    OBVIOUS
  <2>5. y = (2 * m) * c
    <3>1. q * ((2 * c) * e) = (2 * (q * e)) * c
      OBVIOUS
    <3> QED BY <1>3, <2>3, <2>4, <3>1
  <2>6. PICK u \in Int : u = x \div c
    BY <1>2, Division
  <2>7. z \div c = u + 2 * m
    <3>1. PICK mm \in Int : mm = 2 * m
      OBVIOUS
    <3>2. x \in Int /\ c \in Nat /\ c >= 1
      BY <1>2
    <3>3. (x + mm * c) \div c = (x \div c) + mm
      BY <3>2, QuotientOfSum
    <3> QED BY <1>1, <2>5, <2>6, <3>1, <3>3
  <2>8. y \div c = 2 * m
    <3>1. PICK mm \in Int : mm = 2 * m
      OBVIOUS
    <3>2. y = mm * c + 0
      BY <2>5, <3>1
    <3>3. y \div c = mm
      BY <1>2, <3>2, Quotient
    <3> QED BY <3>1, <3>3
  <2>9. ((u + 2 * m) % 2) = (u % 2) /\ ((2 * m) % 2) = 0
    OBVIOUS
  <2> QED BY <1>1, <1>2, <1>4, <2>6, <2>7, <2>8, <2>9 DEF get_bit
<1>5. CASE i >= k
  <2>1. k \in 0 .. i /\ i - k \in Nat
    BY <1>5
  <2>2. PICK d \in Nat : d = Power[i - k] /\ d >= 1 /\ c = p * d /\ p <= c
    <3>1. /\ Power[i - k] \in Nat /\ Power[i - k] >= 1
          /\ Power[i] = Power[k] * Power[i - k] /\ Power[k] <= Power[i]
      BY <2>1, PowerSplit
    <3> QED BY <1>2, <1>3, <3>1
  <2>3. z \div p = q /\ y \div p = q
    <3>1. z = q * p + x /\ y = q * p + 0
      BY <1>1, <1>3
    <3>2. p \in Nat /\ p >= 1 /\ 0 <= x /\ x < p /\ 0 < p /\ x \in Int /\ z \in Int
          /\ y \in Int /\ q \in Int
      BY <1>3
    <3>3. z \div p = q
      BY <3>1, <3>2, Quotient
    <3>4. y \div p = q
      BY <3>1, <3>2, Quotient
    <3> QED BY <3>3, <3>4
  <2>4. z \div c = q \div d /\ y \div c = q \div d
    BY <1>3, <2>2, <2>3, QuotientOfQuotient
  <2>5. x \div c = 0
    <3>1. x < c
      BY <1>3, <2>2
    <3> QED BY <1>2, <3>1, SmallQuotient
  <2> QED BY <1>1, <1>2, <1>5, <2>4, <2>5 DEF get_bit
<1> QED BY <1>4, <1>5

LEMMA BitsOfSum ==
    ASSUME NEW k \in Nat, NEW x \in Nat, x < Power[k], NEW q \in Nat, NEW y \in Nat,
           y = q * Power[k], x + y \in Word
    PROVE  x \in Word /\ y \in Word /\ Bits[x + y] = Bits[x] \union Bits[y]
<1>1. x \in Word /\ y \in Word
  BY Widths DEF Word
<1>2. ASSUME NEW i \in 0 .. W - 1
      PROVE  get_bit(x + y, i) = 1 <=> get_bit(x, i) = 1 \/ get_bit(y, i) = 1
  <2>1. i \in Nat /\ W \in Nat
    BY Widths
  <2>2. CASE i < k
    <3>1. get_bit(x + y, i) = get_bit(x, i) /\ get_bit(y, i) = 0
      BY <2>1, <2>2, BitOfSum
    <3> QED BY <3>1
  <2>3. CASE i >= k
    <3>1. get_bit(x + y, i) = get_bit(y, i) /\ get_bit(x, i) = 0
      BY <2>1, <2>3, BitOfSum
    <3> QED BY <3>1
  <2> QED BY <2>1, <2>2, <2>3
<1> QED BY <1>1, <1>2 DEF Bits

LEMMA WordWithBits ==
    ASSUME NEW x \in Word
    PROVE  Bits[x] \in SUBSET (0 .. W - 1) /\ WordOf[Bits[x]] = x
<1>1. PICK bits : bits = Bits[x] /\ bits \in SUBSET (0 .. W - 1)
  BY DEF Bits
<1>2. WordOf[bits] = CHOOSE y \in Word : Bits[y] = bits
  BY <1>1 DEF WordOf
<1>3. PICK y \in Word : y = WordOf[bits] /\ Bits[y] = bits
  BY <1>1, <1>2
<1>4. y = x
  BY <1>1, <1>3, SameBits
<1> QED BY <1>1, <1>3, <1>4

\* The | of two words with no place in common is their sum.
LEMMA OrIsSum ==
    ASSUME NEW k \in Nat, NEW x \in Nat, x < Power[k], NEW q \in Nat, NEW y \in Nat,
           y = q * Power[k], x + y \in Word
    PROVE  BitOr(x, y) = x + y /\ BitOr(y, x) = x + y
<1>1. x \in Word /\ y \in Word /\ Bits[x + y] = Bits[x] \union Bits[y]
  BY BitsOfSum
<1>2. WordOf[Bits[x + y]] = x + y
  BY WordWithBits
<1>3. Bits[y] \union Bits[x] = Bits[x] \union Bits[y]
  OBVIOUS
<1> QED BY <1>1, <1>2, <1>3 DEF BitOr

-----------------------------------------------------------------------------
(* The shifts of util.c *)

\* a place splits the words in two parts
LEMMA Places ==
    ASSUME NEW k \in 0 .. W
    PROVE  /\ W \in Nat /\ k \in Nat /\ W - k \in Nat
           /\ WordSize \in Nat /\ WordSize >= 1
           /\ Power[k] \in Nat /\ Power[k] >= 1
           /\ Power[W - k] \in Nat /\ Power[W - k] >= 1
           /\ WordSize = Power[k] * Power[W - k]
<1>1. W \in Nat /\ WordSize \in Nat /\ WordSize >= 1
  BY Widths
<1>2. k \in Nat /\ W - k \in Nat
  BY <1>1
<1>3. /\ Power[W - k] \in Nat /\ Power[W - k] >= 1 /\ Power[k] \in Nat /\ Power[k] >= 1
      /\ Power[W] = Power[k] * Power[W - k]
  BY <1>1, PowerSplit
<1> QED BY <1>1, <1>2, <1>3 DEF WordSize

LEMMA WordsAreNumbers ==
    ASSUME NEW x \in Word
    PROVE  x \in Nat /\ x \in Int /\ 0 <= x /\ x < WordSize
BY Widths DEF Word

\* two parts that fill a word from a place on
LEMMA Parts ==
    ASSUME NEW k \in 0 .. W, NEW x \in Nat, x < Power[k],
           NEW q \in Nat, q < Power[W - k], NEW y, y = q * Power[k]
    PROVE  /\ y \in Nat /\ x + y \in Word /\ x + y < WordSize
           /\ BitOr(x, y) = x + y /\ BitOr(y, x) = x + y
<1>1. /\ W \in Nat /\ WordSize \in Nat /\ k \in Nat /\ W - k \in Nat
      /\ WordSize = Power[k] * Power[W - k]
  BY Places
<1>2. PICK p \in Nat, d \in Nat : p = Power[k] /\ d = Power[W - k]
  BY <1>1, PowerPositive
<1>3. x + q * p < p * d /\ q * p \in Nat
  <2>1. PICK e \in Nat : d = q + 1 + e
    <3>1. d - q - 1 \in Nat /\ d = q + 1 + (d - q - 1)
      BY <1>2
    <3> QED BY <3>1
  <2>2. p * d = q * p + p + p * e /\ p * e >= 0 /\ q * p \in Nat
    BY <2>1
  <2> QED BY <1>2, <2>2
<1>4. y \in Nat /\ x + y < WordSize
  BY <1>1, <1>2, <1>3
<1>5. x + y \in Word
  BY <1>1, <1>4 DEF Word
<1> QED BY <1>1, <1>4, <1>5, OrIsSum

LEMMA ShiftedRight ==
    ASSUME NEW x \in Word, NEW a \in 0 .. W
    PROVE  x \div Power[a] \in Nat /\ x \div Power[a] < Power[W - a]
<1>1. /\ x \in Nat /\ x < WordSize /\ W \in Nat
      /\ Power[a] \in Nat /\ Power[a] >= 1 /\ Power[W - a] \in Nat /\ Power[W - a] >= 1
      /\ WordSize = Power[a] * Power[W - a]
  BY Places, WordsAreNumbers
<1>2. PICK p \in Nat, d \in Nat : p = Power[a] /\ d = Power[W - a]
  BY <1>1
<1> QED BY <1>1, <1>2, QuotientBelow

LEMMA ShiftedLeft ==
    ASSUME NEW x \in Nat, NEW a \in 0 .. W
    PROVE  \E q \in Nat : q < Power[W - a] /\ ShiftLeft(x, a) = q * Power[a]
<1>1. /\ W \in Nat /\ WordSize \in Nat /\ WordSize >= 1
      /\ Power[a] \in Nat /\ Power[a] >= 1 /\ Power[W - a] \in Nat /\ Power[W - a] >= 1
      /\ WordSize = Power[a] * Power[W - a]
  BY Places
<1>2. PICK p \in Nat, d \in Nat :
          p = Power[a] /\ d = Power[W - a] /\ p >= 1 /\ d >= 1 /\ WordSize = p * d
  BY <1>1
<1>3. PICK u \in Int, v \in Int : x = u * d + v /\ 0 <= v /\ v < d
  <2>1. /\ x \div d \in Int /\ (x % d) \in Int
        /\ x = (x \div d) * d + (x % d) /\ 0 <= (x % d) /\ (x % d) < d
    <3>1. x \in Int /\ d \in Nat /\ d >= 1
      BY <1>2
    <3> QED BY <3>1, Division
  <2> QED BY <2>1
<1>4. PICK r \in Int : r = v * p
  OBVIOUS
<1>5. x * p = u * WordSize + r
  <2>1. (u * d + v) * p = u * (p * d) + v * p
    OBVIOUS
  <2> QED BY <1>2, <1>3, <1>4, <2>1
<1>6. 0 <= r /\ r < WordSize
  <2>1. PICK e \in Nat : d = v + 1 + e
    <3>1. d - v - 1 \in Nat /\ d = v + 1 + (d - v - 1)
      BY <1>3
    <3> QED BY <3>1
  <2>2. p * d = v * p + p + p * e /\ p * e >= 0 /\ v * p >= 0
    BY <1>3, <2>1
  <2> QED BY <1>2, <1>4, <2>2
<1>7. PICK y \in Int : y = x * p
  OBVIOUS
<1>8. (y % WordSize) = r
  BY <1>1, <1>5, <1>6, <1>7, Quotient
<1>9. ShiftLeft(x, a) = v * p
  BY <1>2, <1>4, <1>7, <1>8 DEF ShiftLeft
<1>10. v \in Nat
  BY <1>3
<1> QED BY <1>2, <1>3, <1>9, <1>10

\* ror is a sum of two parts.
LEMMA Rotated ==
    ASSUME NEW x \in Word, NEW r \in 1 .. W - 1
    PROVE  /\ ror(x, r) \in Word
           /\ ror(x, r) = (x \div Power[r]) + ((x * Power[W - r]) % WordSize)
<1>1. W \in Nat /\ W - r \in 0 .. W /\ r \in 0 .. W /\ W - (W - r) = r /\ x \in Nat
  BY Widths DEF Word
<1>2. ((W - r) % W) = W - r
  BY <1>1
<1>3. PICK u \in Nat : u = x \div Power[r] /\ u < Power[W - r]
  BY <1>1, ShiftedRight
<1>4. PICK q \in Nat : q < Power[W - (W - r)] /\ ShiftLeft(x, W - r) = q * Power[W - r]
  BY <1>1, ShiftedLeft
<1>5. PICK y : y = q * Power[W - r]
  OBVIOUS
<1>6. u + y \in Word /\ BitOr(u, y) = u + y
  BY <1>1, <1>3, <1>4, <1>5, Parts
<1>7. ror(x, r) = BitOr(u, y)
  BY <1>2, <1>3, <1>4, <1>5 DEF ror, ShiftRight
<1>8. y = (x * Power[W - r]) % WordSize
  BY <1>4, <1>5 DEF ShiftLeft
<1> QED BY <1>3, <1>6, <1>7, <1>8

LEMMA RotatedByNothing ==
    ASSUME NEW x \in Word
    PROVE  ror(x, 0) = x
<1>1. W \in Nat /\ W - 0 = W /\ (W % W) = 0 /\ x \in Nat /\ x < WordSize
      /\ WordSize \in Nat
  BY Widths DEF Word
<1>2. x \div 1 = x /\ x * 1 = x
  BY <1>1
<1>3. (x % WordSize) = x
  BY <1>1, SmallQuotient
<1>4. ShiftRight(x, 0) = x /\ ShiftLeft(x, 0) = x
  BY <1>2, <1>3, PowerRecursion DEF ShiftRight, ShiftLeft
<1>5. Bits[x] \union Bits[x] = Bits[x]
  OBVIOUS
<1> QED BY <1>1, <1>4, <1>5, WordWithBits DEF ror, BitOr

\* the sign of a word
LEMMA SignOf ==
    ASSUME NEW x \in Word
    PROVE  /\ Sign(x) = IF x >= Power[W - 1] THEN 1 ELSE 0
           /\ x \in Nat /\ x < WordSize
           /\ Signed(x) = IF x >= Power[W - 1] THEN x - WordSize ELSE x
<1>1. PICK h \in Nat : h = Power[W - 1] /\ h >= 1 /\ WordSize = 2 * h
  BY Widths, PowerPositive
<1>2. x \in Nat /\ x < WordSize
  BY <1>1 DEF Word
<1>3. CASE x < h
  <2>1. x \div h = 0
    BY <1>1, <1>2, <1>3, SmallQuotient
  <2>2. Sign(x) = 0
    BY <1>1, <2>1 DEF Sign, get_bit
  <2> QED BY <1>1, <1>2, <1>3, <2>2 DEF Signed
<1>4. CASE x >= h
  <2>1. PICK r \in Int : r = x - h /\ x = 1 * h + r /\ 0 <= r /\ r < h
    BY <1>1, <1>2, <1>4
  <2>2. x \div h = 1
    BY <1>1, <1>2, <2>1, Quotient
  <2>3. Sign(x) = 1
    BY <1>1, <2>2 DEF Sign, get_bit
  <2> QED BY <1>1, <1>2, <1>4, <2>3 DEF Signed
<1> QED BY <1>1, <1>2, <1>3, <1>4

LEMMA SignIsBit ==
    ASSUME NEW x \in Word
    PROVE  Sign(x) \in {0, 1}
BY SignOf

\* asr is the quotient of the word with its sign, rounded down.
LEMMA AsrIsQuotient ==
    ASSUME NEW x \in Word, NEW a \in 1 .. W - 1
    PROVE  /\ asr(x, a) \in Word
           /\ asr(x, a) = ((Signed(x) \div Power[a]) % WordSize)
<1>1. /\ W \in Nat /\ a \in 0 .. W /\ W - a \in 0 .. W /\ W - (W - a) = a
      /\ x \in Int /\ WordSize \in Nat /\ x < WordSize
  BY Widths, WordsAreNumbers
<1>2. PICK p \in Nat, d \in Nat :
          p = Power[a] /\ d = Power[W - a] /\ p >= 1 /\ d >= 1 /\ WordSize = p * d
  BY <1>1, Places
<1>3. PICK u \in Nat : u = x \div p /\ u < d
  BY <1>1, <1>2, ShiftedRight
<1>4. CASE x < Power[W - 1]
  <2>1. Sign(x) = 0 /\ Signed(x) = x
    BY <1>4, SignOf, Widths, PowerPositive
  <2>2. 0 = 0 * d /\ 0 < p /\ u + 0 = u
    BY <1>2
  <2>3. u + 0 \in Word /\ BitOr(u, 0) = u + 0
    BY <1>1, <1>2, <1>3, <2>2, Parts
  <2>4. asr(x, a) = u
    BY <1>2, <1>3, <2>1, <2>2, <2>3 DEF asr, ShiftRight
  <2>5. (u % WordSize) = u
    <3>1. u \in Word
      BY <2>2, <2>3
    <3>2. u \in Int /\ 0 <= u /\ u < WordSize /\ WordSize \in Nat
      BY <1>1, <3>1, WordsAreNumbers
    <3> QED BY <3>2, SmallQuotient
  <2> QED BY <1>2, <1>3, <2>1, <2>2, <2>3, <2>4, <2>5
<1>5. CASE x >= Power[W - 1]
  <2>1. Sign(x) = 1 /\ Signed(x) = x - WordSize
    BY <1>5, SignOf
  <2>2. PICK q \in Nat : q = p - 1 /\ q < p
    BY <1>2
  <2>3. PICK y \in Int : y = q * d
    OBVIOUS
  <2>4. y = WordSize - d /\ y >= 0 /\ y < WordSize
    <3>1. (p - 1) * d = p * d - d /\ (p - 1) * d >= 0
      BY <2>2
    <3> QED BY <1>2, <2>2, <2>3, <3>1
  <2>5. ShiftLeft(WordSize - 1, W - a) = y
    <3>1. (WordSize - 1) * d = (d - 1) * WordSize + y
      <4>1. (WordSize - 1) * d = WordSize * d - d /\ (d - 1) * WordSize = WordSize * d - WordSize
            /\ WordSize * d \in Int
        BY <1>1
      <4> QED BY <1>1, <2>4, <4>1
    <3>2. PICK z \in Int, e \in Int : z = (WordSize - 1) * d /\ e = d - 1
      BY <1>1
    <3>3. (z % WordSize) = y
      <4>1. z = e * WordSize + y /\ 0 <= y /\ y < WordSize /\ WordSize \in Nat /\ WordSize >= 1
        BY <1>1, <2>4, <3>1, <3>2
      <4> QED BY <4>1, Quotient
    <3> QED BY <1>2, <3>2, <3>3 DEF ShiftLeft
  <2>6. u + y \in Word /\ BitOr(u, y) = u + y
    BY <1>1, <1>2, <1>3, <2>2, <2>3, Parts
  <2>7. asr(x, a) = u + y
    BY <1>2, <1>3, <2>1, <2>5, <2>6 DEF asr, ShiftRight
  <2>8. Signed(x) \div p = u - d
    <3>1. PICK k \in Int : k = 0 - d
      OBVIOUS
    <3>2. (x + k * p) \div p = (x \div p) + k
      <4>1. x \in Int /\ p >= 1
        BY <1>1, <1>2
      <4> QED BY <4>1, QuotientOfSum
    <3>3. k * p = 0 - p * d
      BY <3>1
    <3>4. x - WordSize = x + k * p
      BY <1>1, <1>2, <3>3
    <3> QED BY <1>3, <2>1, <3>1, <3>2, <3>4
  <2>9. PICK z \in Int, t \in Int : z = u - d /\ t = u + y
    OBVIOUS
  <2>10. z = (-1) * WordSize + t /\ 0 <= t /\ t < WordSize
    <3>1. t < WordSize /\ 0 <= t
      BY <2>6, <2>9, WordsAreNumbers
    <3> QED BY <1>1, <2>4, <2>9, <3>1
  <2>11. (z % WordSize) = t
    BY <1>1, <2>10, Quotient
  <2> QED BY <1>2, <2>6, <2>7, <2>8, <2>9, <2>11
<1>6. Power[W - 1] \in Nat
  BY Widths, PowerPositive
<1> QED BY <1>1, <1>4, <1>5, <1>6

\* The last bit that leaves a word to the right does not depend on its sign.
LEMMA AsrCarry ==
    ASSUME NEW x \in Word, NEW a \in 1 .. W - 1
    PROVE  get_bit(x, a - 1) = ((Signed(x) \div Power[a - 1]) % 2)
<1>1. /\ W \in Nat /\ a - 1 \in 0 .. W /\ a \in 0 .. W /\ W - a \in Nat
      /\ W - (a - 1) = (W - a) + 1 /\ x \in Int /\ WordSize \in Nat
  BY Widths, WordsAreNumbers
<1>2. PICK p \in Nat, e \in Nat :
          p = Power[a - 1] /\ e = Power[W - (a - 1)] /\ p >= 1 /\ e >= 1 /\ WordSize = p * e
  BY <1>1, Places
<1>3. PICK d \in Nat : d = Power[W - a] /\ e = 2 * d
  BY <1>1, <1>2, PowerRecursion
<1>4. PICK u \in Int : u = x \div p
  BY <1>1, <1>2, Division
<1>5. CASE Signed(x) = x
  BY <1>2, <1>5 DEF get_bit
<1>6. CASE Signed(x) = x - WordSize
  <2>1. PICK k \in Int : k = 0 - e
    OBVIOUS
  <2>2. (x + k * p) \div p = (x \div p) + k
    <3>1. x \in Int /\ p >= 1
      BY <1>1, <1>2
    <3> QED BY <3>1, QuotientOfSum
  <2>3. k * p = 0 - p * e
    BY <2>1
  <2>4. x - WordSize = x + k * p
    BY <1>1, <1>2, <2>3
  <2>5. Signed(x) \div p = u - 2 * d
    BY <1>3, <1>4, <1>6, <2>1, <2>2, <2>4
  <2>6. ((u - 2 * d) % 2) = (u % 2)
    OBVIOUS
  <2> QED BY <1>2, <1>4, <2>5, <2>6 DEF get_bit
<1> QED BY <1>5, <1>6 DEF Signed

\* A shift to the right by the width or more leaves the sign alone.
LEMMA SignedQuotient ==
    ASSUME NEW x \in Word, NEW n \in Nat, n >= W - 1
    PROVE  Signed(x) \div Power[n] = IF Sign(x) = 0 THEN 0 ELSE -1
<1>1. /\ W \in Nat /\ W - 1 \in 0 .. n /\ x \in Int /\ WordSize \in Nat
      /\ 0 <= x /\ x < WordSize
  BY Widths, WordsAreNumbers
<1>2. PICK h \in Nat : h = Power[W - 1] /\ WordSize = 2 * h
  BY Widths, PowerPositive
<1>3. PICK p \in Nat : p = Power[n] /\ p >= 1 /\ h <= p
  <2>1. Power[n] \in Nat /\ Power[n] >= 1
    BY PowerPositive
  <2>2. Power[W - 1] <= Power[n]
    BY <1>1, PowerSplit
  <2> QED BY <1>2, <2>1, <2>2
<1>4. CASE x < h
  <2>1. Sign(x) = 0 /\ Signed(x) = x
    BY <1>1, <1>2, <1>4, SignOf
  <2>2. x \div p = 0
    BY <1>1, <1>3, <1>4, SmallQuotient
  <2> QED BY <1>3, <2>1, <2>2
<1>5. CASE x >= h
  <2>1. Sign(x) = 1 /\ Signed(x) = x - WordSize
    BY <1>2, <1>5, SignOf
  <2>2. PICK z \in Int, r \in Int : z = x - WordSize /\ r = p + z
    BY <1>1
  <2>3. z = (-1) * p + r /\ 0 <= r /\ r < p
    BY <1>1, <1>2, <1>3, <1>5, <2>2
  <2>4. z \div p = -1
    BY <1>3, <2>3, Quotient
  <2> QED BY <1>3, <2>1, <2>2, <2>4
<1> QED BY <1>1, <1>2, <1>4, <1>5

-----------------------------------------------------------------------------
(* What leaves a word *)

LEMMA LeftCarry ==
    ASSUME NEW x \in Word, NEW a \in 1 .. W
    PROVE  get_bit(x, W - a) = (((x * Power[a]) \div WordSize) % 2)
<1>1. W \in Nat /\ a \in 0 .. W /\ x \in Int
  BY Widths, WordsAreNumbers
<1>2. PICK p \in Nat, d \in Nat :
          p = Power[a] /\ d = Power[W - a] /\ p >= 1 /\ d >= 1 /\ WordSize = p * d
  BY <1>1, Places
<1>3. (x * p) \div (p * d) = x \div d
  BY <1>1, <1>2, QuotientOfMultiple
<1> QED BY <1>2, <1>3 DEF get_bit

LEMMA LeftByWidth ==
    ASSUME NEW x \in Word
    PROVE  ((x * Power[W]) % WordSize) = 0
<1>1. x \in Int /\ WordSize \in Nat /\ WordSize >= 1 /\ Power[W] = WordSize
  BY Widths, WordsAreNumbers DEF WordSize
<1>2. PICK z \in Int : z = x * WordSize /\ z = x * WordSize + 0
  BY <1>1
<1>3. (z % WordSize) = 0
  BY <1>1, <1>2, Quotient
<1> QED BY <1>1, <1>2, <1>3

LEMMA LeftByMore ==
    ASSUME NEW x \in Word, NEW a \in Nat, a > W
    PROVE  /\ ((x * Power[a]) % WordSize) = 0
           /\ (((x * Power[a]) \div WordSize) % 2) = 0
<1>1. /\ x \in Int /\ WordSize \in Nat /\ WordSize >= 1 /\ Power[W] = WordSize
      /\ W \in Nat
  BY Widths, WordsAreNumbers DEF WordSize
<1>2. W + 1 \in 0 .. a /\ a - (W + 1) \in Nat /\ W + 1 \in Nat
  BY <1>1
<1>3. PICK e \in Nat : e = Power[a - (W + 1)]
  BY <1>2, PowerPositive
<1>4. Power[a] = (2 * WordSize) * e
  <2>1. Power[a] = Power[W + 1] * Power[a - (W + 1)]
    BY <1>2, PowerSplit
  <2>2. Power[W + 1] = 2 * WordSize
    BY <1>1, PowerRecursion
  <2> QED BY <1>3, <2>1, <2>2
<1>5. PICK m \in Int : m = x * e
  BY <1>1
<1>6. PICK q \in Int : q = 2 * m
  OBVIOUS
<1>7. PICK z \in Int : z = x * Power[a] /\ z = q * WordSize + 0
  <2>1. x * ((2 * WordSize) * e) = (2 * (x * e)) * WordSize
    BY <1>1
  <2>2. (2 * m) * WordSize \in Int
    BY <1>1
  <2> QED BY <1>4, <1>5, <1>6, <2>1, <2>2
<1>8. z \div WordSize = q /\ (z % WordSize) = 0
  <2>1. z = q * WordSize + 0 /\ WordSize \in Nat /\ WordSize >= 1 /\ 0 < WordSize
    BY <1>1, <1>7
  <2> QED BY <2>1, Quotient
<1>9. ((2 * m) % 2) = 0
  OBVIOUS
<1> QED BY <1>6, <1>7, <1>8, <1>9

LEMMA RightByMore ==
    ASSUME NEW x \in Word, NEW n \in Nat, n >= W
    PROVE  x \div Power[n] = 0
<1>1. /\ x \in Int /\ 0 <= x /\ x < WordSize /\ WordSize \in Nat /\ Power[W] = WordSize
      /\ W \in 0 .. n
  BY Widths, WordsAreNumbers DEF WordSize
<1>2. PICK p \in Nat : p = Power[n] /\ WordSize <= p
  <2>1. Power[W] <= Power[n] /\ Power[n] \in Nat
    BY <1>1, PowerSplit, PowerPositive
  <2> QED BY <1>1, <2>1
<1>3. x < p
  BY <1>1, <1>2
<1> QED BY <1>1, <1>2, <1>3, SmallQuotient

\* what is left of an amount after whole turns
LEMMA Turns ==
    ASSUME NEW a \in Nat, a >= 1
    PROVE  /\ (a % W) \in 0 .. W - 1
           /\ (a % W) = 0 => ((a - 1) % W) = W - 1
           /\ (a % W) # 0 => ((a - 1) % W) = (a % W) - 1
<1>1. W \in Nat /\ W >= 4
  BY Widths
<1>2. PICK q \in Int, r \in Int :
          q = a \div W /\ r = (a % W) /\ a = q * W + r /\ 0 <= r /\ r < W
  <2>1. /\ a \div W \in Int /\ (a % W) \in Int
        /\ a = (a \div W) * W + (a % W) /\ 0 <= (a % W) /\ (a % W) < W
    <3>1. a \in Int /\ W \in Nat /\ W >= 1
      BY <1>1
    <3> QED BY <3>1, Division
  <2> QED BY <2>1
<1>3. PICK b \in Int : b = a - 1
  OBVIOUS
<1>4. CASE r = 0
  <2>1. PICK m \in Int, t \in Int : m = q - 1 /\ t = W - 1
    BY <1>1
  <2>2. b = m * W + t /\ 0 <= t /\ t < W
    <3>1. (q - 1) * W = q * W - W /\ q * W \in Int
      BY <1>1
    <3> QED BY <1>1, <1>2, <1>3, <1>4, <2>1, <3>1
  <2>3. (b % W) = t
    <3>1. W \in Nat /\ W >= 1
      BY <1>1
    <3> QED BY <2>2, <3>1, Quotient
  <2> QED BY <1>1, <1>2, <1>3, <1>4, <2>1, <2>3
<1>5. CASE r # 0
  <2>1. PICK t \in Int : t = r - 1
    OBVIOUS
  <2>2. b = q * W + t /\ 0 <= t /\ t < W
    <3>1. q * W \in Int
      BY <1>1
    <3> QED BY <1>1, <1>2, <1>3, <1>5, <2>1, <3>1
  <2>3. (b % W) = t
    <3>1. W \in Nat /\ W >= 1
      BY <1>1
    <3> QED BY <2>2, <3>1, Quotient
  <2> QED BY <1>1, <1>2, <1>3, <1>5, <2>1, <2>3
<1> QED BY <1>4, <1>5

-----------------------------------------------------------------------------
(* The shifter operand is arithmetic *)

IsArithmetic(x, code, amount, rm) ==
    /\ x.value = Shifted(code, amount, rm)
    /\ x.carry = ShiftedOut(code, amount, rm)

\* ror, the carry included
LEMMA RotationIsArithmetic ==
    ASSUME NEW x \in Word, NEW a \in Nat, a >= 1, (a % W) # 0
    PROVE  IsArithmetic(Operand(ror(x, a % W), get_bit(x, (a % W) - 1)), "ROR", a, x)
<1>1. PICK r \in 1 .. W - 1 : r = (a % W) /\ ((a - 1) % W) = r - 1
  <2>1. (a % W) \in 1 .. W - 1
    BY Turns, Widths
  <2> QED BY <2>1, Turns
<1>2. ror(x, r) = (x \div Power[r]) + ((x * Power[W - r]) % WordSize)
  BY Rotated
<1> QED BY <1>1, <1>2 DEF IsArithmetic, Operand, Shifted, ShiftedOut

LEMMA ImmediateShiftIsArithmetic ==
    ASSUME NEW x \in Word, NEW code \in Codes, NEW a \in 1 .. W - 1
    PROVE  IsArithmetic(get_shifter_operand_immediate_shift(code, a, x), code, a, x)
<1>1. W \in Nat /\ a \in Nat /\ a # 0 /\ a >= 1 /\ (a % W) = a /\ a \in 1 .. W
  BY Widths
<1>0. PICK o : o = get_shifter_operand_immediate_shift(code, a, x)
  OBVIOUS
<1> SUFFICES IsArithmetic(o, code, a, x)
  BY <1>0
<1>2. CASE code = "LSL"
  <2>1. o = Operand(ShiftLeft(x, a), get_bit(x, W - a))
    BY <1>0, <1>1, <1>2 DEF get_shifter_operand_immediate_shift
  <2>2. get_bit(x, W - a) = (((x * Power[a]) \div WordSize) % 2)
    BY <1>1, LeftCarry
  <2> QED BY <1>2, <2>1, <2>2
      DEF IsArithmetic, Operand, Shifted, ShiftedOut, ShiftLeft
<1>3. CASE code = "LSR"
  <2>1. o = Operand(ShiftRight(x, a), get_bit(x, a - 1))
    BY <1>0, <1>1, <1>3 DEF get_shifter_operand_immediate_shift
  <2> QED BY <1>3, <2>1
      DEF IsArithmetic, Operand, Shifted, ShiftedOut, ShiftRight, get_bit
<1>4. CASE code = "ASR"
  <2>1. o = Operand(asr(x, a), get_bit(x, a - 1))
    BY <1>0, <1>1, <1>4 DEF get_shifter_operand_immediate_shift
  <2>2. /\ asr(x, a) = ((Signed(x) \div Power[a]) % WordSize)
        /\ get_bit(x, a - 1) = ((Signed(x) \div Power[a - 1]) % 2)
    BY AsrIsQuotient, AsrCarry
  <2> QED BY <1>4, <2>1, <2>2 DEF IsArithmetic, Operand, Shifted, ShiftedOut
<1>5. CASE code = "ROR"
  <2>1. o = Operand(ror(x, a), get_bit(x, a - 1))
    BY <1>0, <1>1, <1>5 DEF get_shifter_operand_immediate_shift
  <2>2. IsArithmetic(Operand(ror(x, a % W), get_bit(x, (a % W) - 1)), "ROR", a, x)
    BY <1>1, RotationIsArithmetic
  <2> QED BY <1>0, <1>1, <1>5, <2>1, <2>2
<1> QED BY <1>2, <1>3, <1>4, <1>5 DEF Codes

LEMMA RegisterShiftIsArithmetic ==
    ASSUME NEW x \in Word, NEW code \in Codes, NEW a \in Nat, a >= 1
    PROVE  IsArithmetic(get_shifter_operand_register_shift(code, a, x), code, a, x)
<1>1. W \in Nat /\ W >= 4 /\ a # 0
  BY Widths
<1>0. PICK o : o = get_shifter_operand_register_shift(code, a, x)
  OBVIOUS
<1> SUFFICES IsArithmetic(o, code, a, x)
  BY <1>0
<1>2. CASE code = "LSL"
  <2>1. CASE a < W
    <3>1. o = Operand(ShiftLeft(x, a), get_bit(x, W - a))
      BY <1>0, <1>1, <1>2, <2>1 DEF get_shifter_operand_register_shift
    <3>2. get_bit(x, W - a) = (((x * Power[a]) \div WordSize) % 2)
      BY <1>1, <2>1, LeftCarry
    <3> QED BY <1>2, <3>1, <3>2
        DEF IsArithmetic, Operand, Shifted, ShiftedOut, ShiftLeft
  <2>2. CASE a = W
    <3>1. o = Operand(0, get_bit(x, 0))
      BY <1>0, <1>1, <1>2, <2>2 DEF get_shifter_operand_register_shift
    <3>2. W \in 1 .. W /\ W - W = 0
      BY <1>1
    <3>3. get_bit(x, 0) = (((x * Power[W]) \div WordSize) % 2)
      BY <3>2, LeftCarry
    <3> QED BY <1>2, <2>2, <3>1, <3>3, LeftByWidth
        DEF IsArithmetic, Operand, Shifted, ShiftedOut
  <2>3. CASE a > W
    <3>1. o = Operand(0, 0)
      BY <1>0, <1>1, <1>2, <2>3 DEF get_shifter_operand_register_shift
    <3> QED BY <1>2, <2>3, <3>1, LeftByMore
        DEF IsArithmetic, Operand, Shifted, ShiftedOut
  <2> QED BY <1>1, <2>1, <2>2, <2>3
<1>3. CASE code = "LSR"
  <2>1. CASE a < W
    <3>1. o = Operand(ShiftRight(x, a), get_bit(x, a - 1))
      BY <1>0, <1>1, <1>3, <2>1 DEF get_shifter_operand_register_shift
    <3> QED BY <1>3, <3>1
        DEF IsArithmetic, Operand, Shifted, ShiftedOut, ShiftRight, get_bit
  <2>2. CASE a = W
    <3>1. o = Operand(0, Sign(x))
      BY <1>0, <1>1, <1>3, <2>2 DEF get_shifter_operand_register_shift
    <3>2. x \div Power[W] = 0
      BY <1>1, RightByMore
    <3> QED BY <1>3, <2>2, <3>1, <3>2
        DEF IsArithmetic, Operand, Shifted, ShiftedOut, Sign, get_bit
  <2>3. CASE a > W
    <3>1. o = Operand(0, 0)
      BY <1>0, <1>1, <1>3, <2>3 DEF get_shifter_operand_register_shift
    <3>2. a - 1 \in Nat /\ a - 1 >= W /\ a >= W
      BY <1>1, <2>3
    <3>3. x \div Power[a] = 0 /\ x \div Power[a - 1] = 0
      BY <3>2, RightByMore
    <3> QED BY <1>3, <3>1, <3>3 DEF IsArithmetic, Operand, Shifted, ShiftedOut
  <2> QED BY <1>1, <2>1, <2>2, <2>3
<1>4. CASE code = "ASR"
  <2>1. CASE a < W
    <3>1. o = Operand(asr(x, a), get_bit(x, a - 1))
      BY <1>0, <1>1, <1>4, <2>1 DEF get_shifter_operand_register_shift
    <3>2. a \in 1 .. W - 1
      BY <1>1, <2>1
    <3>3. /\ asr(x, a) = ((Signed(x) \div Power[a]) % WordSize)
          /\ get_bit(x, a - 1) = ((Signed(x) \div Power[a - 1]) % 2)
      BY <3>2, AsrIsQuotient, AsrCarry
    <3> QED BY <1>4, <3>1, <3>3 DEF IsArithmetic, Operand, Shifted, ShiftedOut
  <2>2. CASE a >= W
    <3>1. o = Operand(IF Sign(x) = 0 THEN 0 ELSE WordSize - 1, Sign(x))
      BY <1>0, <1>1, <1>4, <2>2 DEF get_shifter_operand_register_shift
    <3>2. a - 1 \in Nat /\ a - 1 >= W - 1 /\ a >= W - 1
      BY <1>1, <2>2
    <3>3. /\ Signed(x) \div Power[a] = IF Sign(x) = 0 THEN 0 ELSE -1
          /\ Signed(x) \div Power[a - 1] = IF Sign(x) = 0 THEN 0 ELSE -1
      BY <3>2, SignedQuotient
    <3>4. WordSize \in Nat /\ WordSize >= 1 /\ Sign(x) \in {0, 1}
      BY Widths, SignIsBit
    <3>5. (0 % WordSize) = 0 /\ ((-1) % WordSize) = WordSize - 1
          /\ (0 % 2) = 0 /\ ((-1) % 2) = 1
      <4>1. (0 % WordSize) = 0
        BY <3>4, SmallQuotient
      <4>2. PICK t \in Int, z \in Int : t = WordSize - 1 /\ z = -1
        BY <3>4
      <4>3. z = (-1) * WordSize + t /\ 0 <= t /\ t < WordSize
        BY <3>4, <4>2
      <4>4. (z % WordSize) = t
        BY <3>4, <4>3, Quotient
      <4>5. (0 % 2) = 0 /\ ((-1) % 2) = 1
        <5>1. PICK b \in Int, d \in Nat, e \in Int :
                  b = -1 /\ d = 2 /\ e = 1 /\ b = b * d + e
          OBVIOUS
        <5>2. (b % d) = e
          <6>1. b = b * d + e /\ 0 <= e /\ e < d /\ d >= 1
            BY <5>1
          <6> QED BY <6>1, Quotient
        <5>3. (0 % 2) = 0
          BY SmallQuotient
        <5> QED BY <5>1, <5>2, <5>3
      <4> QED BY <4>1, <4>2, <4>4, <4>5
    <3>6. CASE Sign(x) = 0
      BY <1>4, <3>1, <3>3, <3>5, <3>6 DEF IsArithmetic, Operand, Shifted, ShiftedOut
    <3>7. CASE Sign(x) = 1
      BY <1>4, <3>1, <3>3, <3>5, <3>7 DEF IsArithmetic, Operand, Shifted, ShiftedOut
    <3> QED BY <3>4, <3>6, <3>7
  <2> QED BY <1>1, <2>1, <2>2
<1>5. CASE code = "ROR"
  <2>1. CASE (a % W) = 0
    <3>1. o = Operand(x, Sign(x))
      BY <1>0, <1>1, <1>5, <2>1 DEF get_shifter_operand_register_shift
    <3>2. ((a - 1) % W) = W - 1
      BY <2>1, Turns
    <3>3. x \div Power[0] = x /\ W - 0 = W /\ x + 0 = x
      <4>1. x \in Int /\ Power[0] = 1
        BY WordsAreNumbers, PowerRecursion
      <4>2. x \div 1 = x /\ x + 0 = x
        BY <4>1
      <4> QED BY <1>1, <4>1, <4>2
    <3> QED BY <1>5, <2>1, <3>1, <3>2, <3>3, LeftByWidth
        DEF IsArithmetic, Operand, Shifted, ShiftedOut, Sign
  <2>2. CASE (a % W) # 0
    <3>1. o = Operand(ror(x, a % W), get_bit(x, (a % W) - 1))
      BY <1>0, <1>1, <1>5, <2>2 DEF get_shifter_operand_register_shift
    <3> QED BY <1>5, <2>2, <3>1, RotationIsArithmetic
  <2> QED BY <2>1, <2>2
<1> QED BY <1>2, <1>3, <1>4, <1>5 DEF Codes

-----------------------------------------------------------------------------
(* Every set of places is the bits of a word, so the operators of C on     *)
(* words give words.                                                       *)

LEMMA BitsOfPower ==
    ASSUME NEW k \in Nat, NEW i \in Nat
    PROVE  get_bit(Power[k], i) = IF i = k THEN 1 ELSE 0
<1>1. PICK p \in Nat : p = Power[k] /\ p >= 1
  BY PowerPositive
<1>2. 0 \in Nat /\ 0 < p /\ 1 \in Nat /\ p = 1 * p /\ 0 + p = p
  BY <1>1
<1>3. CASE i < k
  <2>1. get_bit(p, i) = 0
    BY <1>1, <1>2, <1>3, BitOfSum
  <2> QED BY <1>1, <1>3, <2>1
<1>4. CASE i = k
  <2>1. p \div p = 1
    BY <1>1, SMT
  <2> QED BY <1>1, <1>4, <2>1 DEF get_bit
<1>5. CASE i > k
  <2>1. k + 1 \in 0 .. i /\ k + 1 \in Nat
    BY <1>5
  <2>2. Power[k + 1] <= Power[i] /\ Power[k + 1] = 2 * p /\ Power[i] \in Nat
    BY <1>1, <2>1, PowerSplit, PowerRecursion, PowerPositive
  <2>3. PICK c \in Nat : c = Power[i] /\ p < c
    BY <1>1, <2>2
  <2>4. p \div c = 0
    BY <1>1, <2>3, SmallQuotient
  <2> QED BY <1>1, <1>5, <2>3, <2>4 DEF get_bit
<1> QED BY <1>3, <1>4, <1>5

HasBits(x, k, bits) ==
    x < Power[k] /\ \A i \in Nat : get_bit(x, i) = 1 <=> i \in bits

LEMMA EverySetOfBits ==
    \A k \in Nat : \A bits \in SUBSET (0 .. k - 1) : \E x \in Nat : HasBits(x, k, bits)
<1> DEFINE S == {k \in Nat : \A bits \in SUBSET (0 .. k - 1) :
                                \E x \in Nat : HasBits(x, k, bits)}
<1>1. 0 \in S
  <2>1. ASSUME NEW bits \in SUBSET (0 .. 0 - 1)
        PROVE  \E x \in Nat : HasBits(x, 0, bits)
    <3>1. ASSUME NEW i \in Nat
          PROVE  get_bit(0, i) = 0
      <4>1. PICK p \in Nat, zero \in Int : p = Power[i] /\ p >= 1 /\ zero = 0
        BY PowerPositive
      <4>2. zero \div p = 0
        BY <4>1, SmallQuotient
      <4> QED BY <4>1, <4>2 DEF get_bit
    <3>2. HasBits(0, 0, bits)
      BY <3>1, PowerRecursion DEF HasBits
    <3> QED BY <3>2
  <2> QED BY <2>1
<1>2. ASSUME NEW k \in Nat, k \in S
      PROVE  k + 1 \in S
  <2>1. ASSUME NEW bits \in SUBSET (0 .. (k + 1) - 1)
        PROVE  \E x \in Nat : HasBits(x, k + 1, bits)
    <3>1. bits \ {k} \in SUBSET (0 .. k - 1)
      OBVIOUS
    <3>2. PICK x \in Nat : HasBits(x, k, bits \ {k})
      BY <1>2, <3>1
    <3>3. PICK p \in Nat : p = Power[k] /\ Power[k + 1] = 2 * p
      BY PowerPositive, PowerRecursion
    <3>4. CASE k \notin bits
      <4>1. HasBits(x, k + 1, bits)
        BY <3>2, <3>3, <3>4 DEF HasBits
      <4> QED BY <4>1
    <3>5. CASE k \in bits
      <4>1. x < Power[k] /\ 1 \in Nat /\ p = 1 * Power[k] /\ x + p < Power[k + 1]
        BY <3>2, <3>3 DEF HasBits
      <4>2. ASSUME NEW i \in Nat
            PROVE  get_bit(x + p, i) = 1 <=> i \in bits
        <5>1. get_bit(p, i) = IF i = k THEN 1 ELSE 0
          BY <3>3, BitsOfPower
        <5>2. get_bit(x, i) = 1 <=> i \in bits /\ i # k
          BY <3>2 DEF HasBits
        <5>3. /\ i < k => get_bit(x + p, i) = get_bit(x, i)
              /\ i >= k => get_bit(x + p, i) = get_bit(p, i) /\ get_bit(x, i) = 0
          BY <4>1, BitOfSum
        <5>4. CASE i < k
          BY <5>2, <5>3, <5>4
        <5>5. CASE i = k
          BY <3>5, <5>1, <5>3, <5>5
        <5>6. CASE i > k
          BY <2>1, <5>1, <5>3, <5>6
        <5> QED BY <5>4, <5>5, <5>6
      <4>3. HasBits(x + p, k + 1, bits)
        BY <4>1, <4>2 DEF HasBits
      <4> QED BY <4>3
    <3> QED BY <3>4, <3>5
  <2> QED BY <2>1
<1> HIDE DEF S
<1>3. \A k \in Nat : k \in S
  BY <1>1, <1>2, Induction
<1> QED BY <1>3 DEF S

LEMMA WordOfIsWord ==
    ASSUME NEW bits \in SUBSET (0 .. W - 1)
    PROVE  WordOf[bits] \in Word /\ Bits[WordOf[bits]] = bits
<1>1. W \in Nat /\ WordSize \in Nat
  BY Widths
<1>2. PICK x \in Nat : HasBits(x, W, bits)
  BY <1>1, EverySetOfBits
<1>3. x \in Word
  BY <1>1, <1>2 DEF HasBits, Word, WordSize
<1>4. Bits[x] = bits
  <2>1. Bits[x] = {i \in 0 .. W - 1 : get_bit(x, i) = 1}
    BY <1>3 DEF Bits
  <2>2. ASSUME NEW i \in 0 .. W - 1
        PROVE  get_bit(x, i) = 1 <=> i \in bits
    BY <1>1, <1>2 DEF HasBits
  <2> QED BY <2>1, <2>2
<1> QED BY <1>3, <1>4, WordWithBits

LEMMA BitwiseWords ==
    ASSUME NEW x \in Word, NEW y \in Word
    PROVE  BitAnd(x, y) \in Word /\ BitOr(x, y) \in Word /\ BitXor(x, y) \in Word
           /\ BitNot(x) \in Word
<1>1. Bits[x] \in SUBSET (0 .. W - 1) /\ Bits[y] \in SUBSET (0 .. W - 1)
  BY WordWithBits
<1>2. /\ Bits[x] \intersect Bits[y] \in SUBSET (0 .. W - 1)
      /\ Bits[x] \union Bits[y] \in SUBSET (0 .. W - 1)
      /\ (Bits[x] \ Bits[y]) \union (Bits[y] \ Bits[x]) \in SUBSET (0 .. W - 1)
  BY <1>1
<1>3. BitNot(x) \in Word
  BY Widths DEF BitNot, Word
<1> QED BY <1>2, <1>3, WordOfIsWord DEF BitAnd, BitOr, BitXor

-----------------------------------------------------------------------------
(* What the instructions leave: words, bits and flags                      *)

Operands == [value : Word, carry : Bit]

TypeCorrect ==
    /\ loc \in {"decode", "operate", "done"}
    /\ source \in [format : Formats \union {"none"}, code : Codes, amount : Nat, rm : Word]
    /\ operand \in Operands
    /\ cpsr \in Flags
    /\ applied \in [op : Opcodes \union {"none", "MUL"}, s : Bit, rn : Word, x : Word,
                    c : Bit, value : Word]

LEMMA OperandType ==
    ASSUME NEW x \in Word, NEW c \in Bit
    PROVE  Operand(x, c) \in Operands
BY DEF Operand, Operands

LEMMA WordConstants ==
    0 \in Word /\ WordSize - 1 \in Word
BY Widths DEF Word

LEMMA BitOfWord ==
    ASSUME NEW x \in Word, NEW i \in Nat
    PROVE  get_bit(x, i) \in Bit
BY WordsAreNumbers, GetBit DEF Bit

LEMMA SignBit ==
    ASSUME NEW x \in Word
    PROVE  Sign(x) \in Bit
BY SignIsBit DEF Bit

LEMMA Remainder ==
    ASSUME NEW x \in Int
    PROVE  (x % WordSize) \in Word
<1>1. WordSize \in Nat /\ WordSize >= 1
  BY Widths
<1>2. (x % WordSize) \in Int /\ 0 <= (x % WordSize) /\ (x % WordSize) < WordSize
  BY <1>1, Division
<1> QED BY <1>1, <1>2 DEF Word

LEMMA ShiftsOfWords ==
    ASSUME NEW x \in Word, NEW a \in 0 .. W
    PROVE  ShiftRight(x, a) \in Word /\ ShiftLeft(x, a) \in Word
<1>1. /\ W \in Nat /\ W - a \in 0 .. W /\ a \in Nat /\ WordSize \in Nat /\ x \in Int
      /\ Power[W] = WordSize
  BY Widths, WordsAreNumbers DEF WordSize
<1>2. x \div Power[a] \in Nat /\ x \div Power[a] < Power[W - a]
  BY ShiftedRight
<1>3. Power[W - a] <= Power[W] /\ Power[W - a] \in Nat
  BY <1>1, PowerSplit
<1>4. ShiftRight(x, a) \in Word
  BY <1>1, <1>2, <1>3 DEF ShiftRight, Word
<1>5. x * Power[a] \in Int
  <2>1. Power[a] \in Nat
    BY <1>1, PowerPositive
  <2> QED BY <1>1, <2>1
<1> QED BY <1>4, <1>5, Remainder DEF ShiftLeft

LEMMA ImmediateType ==
    ASSUME cpsr \in Flags, NEW rotate_imm \in 0 .. W \div 2 - 1,
           NEW immed \in 0 .. Power[W \div 4] - 1
    PROVE  immed \in Word /\ arm_data_processing_immediate(immed, rotate_imm) \in Operands
<1>1. W \in Nat /\ W \div 4 \in 0 .. W /\ WordSize \in Nat /\ Power[W] = WordSize
  BY Widths DEF WordSize
<1>2. Power[W \div 4] <= Power[W] /\ Power[W \div 4] \in Nat
  BY <1>1, PowerSplit
<1>3. immed \in Word
  BY <1>1, <1>2 DEF Word
<1>4. PICK r \in Nat : r = 2 * rotate_imm /\ r \in 0 .. W - 1
  <2>1. 2 * rotate_imm \in Nat /\ 2 * rotate_imm <= W - 1
    BY WidthAssumption
  <2> QED BY <1>1, <2>1
<1>5. ror(immed, r) \in Word
  <2>1. CASE r = 0
    BY <1>3, <2>1, RotatedByNothing
  <2>2. CASE r # 0
    <3>1. r \in 1 .. W - 1
      BY <1>4, <2>2
    <3> QED BY <1>3, <3>1, Rotated
  <2> QED BY <2>1, <2>2
<1>6. cpsr.c \in Bit
  BY DEF Flags
<1> QED BY <1>3, <1>4, <1>5, <1>6, OperandType, SignBit DEF arm_data_processing_immediate

\* RRX, with bit 0 of the status for the bit that enters
LEMMA RotatedWithCarry ==
    ASSUME NEW x \in Word, NEW c \in Bit
    PROVE  BitOr(Power[W - 1] * c, ShiftRight(x, 1)) \in Word
<1>1. /\ W \in Nat /\ W >= 4 /\ W - 1 \in 0 .. W /\ 1 \in 0 .. W /\ W - (W - 1) = 1
      /\ c \in Nat /\ c < 2
  BY Widths DEF Bit
<1>2. PICK h \in Nat : h = Power[W - 1]
  BY <1>1, PowerPositive
<1>3. Power[1] = 2
  <2>1. Power[0 + 1] = 2 * Power[0] /\ Power[0] = 1
    BY PowerRecursion
  <2> QED BY <2>1
<1>4. PICK u \in Nat : u = x \div Power[1] /\ u < h
  <2>1. x \div Power[1] \in Nat /\ x \div Power[1] < Power[W - 1]
    BY <1>1, ShiftedRight
  <2> QED BY <1>2, <2>1
<1>5. PICK y : y = c * h /\ y = Power[W - 1] * c
  <2>1. h * c = c * h
    BY <1>1
  <2>2. Power[W - 1] * c = c * h
    BY <1>2, <2>1
  <2> QED BY <2>2
<1>6. u + y \in Word /\ BitOr(y, u) = u + y
  <2>1. u < Power[W - 1] /\ c < Power[W - (W - 1)] /\ y = c * Power[W - 1]
    BY <1>1, <1>2, <1>3, <1>4, <1>5
  <2> QED BY <1>1, <2>1, Parts
<1> QED BY <1>4, <1>5, <1>6 DEF ShiftRight

LEMMA ImmediateShiftType ==
    ASSUME cpsr \in Flags, NEW code \in Codes, NEW a \in 0 .. W - 1, NEW x \in Word
    PROVE  get_shifter_operand_immediate_shift(code, a, x) \in Operands
<1>1. cpsr.c \in Bit /\ cpsr.n \in Bit /\ cpsr.bit0 \in Bit
  BY DEF Flags
<1>2. W \in Nat /\ a \in 0 .. W /\ 0 \in Nat
  BY Widths
<1>3. CASE a = 0
  <2>1. (IF Sign(x) = 0 THEN 0 ELSE WordSize - 1) \in Word
    BY WordConstants
  <2> QED BY <1>1, <1>2, <1>3, <2>1, OperandType, SignBit, BitOfWord, RotatedWithCarry
      DEF get_shifter_operand_immediate_shift
<1>4. CASE a # 0
  <2>1. a \in 1 .. W - 1 /\ a - 1 \in Nat /\ W - a \in Nat /\ a >= 1 /\ (a % W) = a
    BY <1>2, <1>4
  <2>2. asr(x, a) \in Word /\ ror(x, a) \in Word
    BY <2>1, AsrIsQuotient, Rotated
  <2>3. ShiftRight(x, a) \in Word /\ ShiftLeft(x, a) \in Word
    BY <1>2, ShiftsOfWords
  <2>4. get_bit(x, a - 1) \in Bit /\ get_bit(x, W - a) \in Bit
    BY <2>1, BitOfWord
  <2>5. (IF code = "LSR" THEN ShiftRight(x, a)
         ELSE IF code = "ASR" THEN asr(x, a) ELSE ror(x, a)) \in Word
    BY <2>2, <2>3
  <2> QED BY <1>4, <2>3, <2>4, <2>5, OperandType DEF get_shifter_operand_immediate_shift
<1> QED BY <1>3, <1>4

LEMMA RegisterShiftType ==
    ASSUME cpsr \in Flags, NEW code \in Codes, NEW a \in Nat, NEW x \in Word
    PROVE  get_shifter_operand_register_shift(code, a, x) \in Operands
<1>1. cpsr.c \in Bit /\ 0 \in Bit
  BY DEF Flags, Bit
<1>2. W \in Nat /\ W >= 4 /\ 0 \in Nat
  BY Widths
<1>3. (IF Sign(x) = 0 THEN 0 ELSE WordSize - 1) \in Word /\ 0 \in Word
  BY WordConstants
<1>4. CASE a = 0
  BY <1>1, <1>4, OperandType DEF get_shifter_operand_register_shift
<1>5. CASE a # 0 /\ code = "ROR"
  <2>1. CASE (a % W) = 0
    BY <1>5, <2>1, OperandType, SignBit DEF get_shifter_operand_register_shift
  <2>2. CASE (a % W) # 0
    <3>1. a >= 1
      BY <1>5
    <3>2. (a % W) \in 1 .. W - 1 /\ (a % W) - 1 \in Nat
      BY <1>2, <2>2, <3>1, Turns
    <3>3. ror(x, a % W) \in Word /\ get_bit(x, (a % W) - 1) \in Bit
      BY <3>2, Rotated, BitOfWord
    <3> QED BY <1>5, <2>2, <3>3, OperandType DEF get_shifter_operand_register_shift
  <2> QED BY <2>1, <2>2
<1>6. CASE a # 0 /\ code # "ROR" /\ a < W
  <2>1. a \in 1 .. W - 1 /\ a - 1 \in Nat /\ W - a \in Nat /\ a \in 0 .. W /\ ~(a > W)
    BY <1>2, <1>6
  <2>2. asr(x, a) \in Word
    BY <2>1, AsrIsQuotient
  <2>3. ShiftRight(x, a) \in Word /\ ShiftLeft(x, a) \in Word
    BY <2>1, ShiftsOfWords
  <2>4. get_bit(x, a - 1) \in Bit /\ get_bit(x, W - a) \in Bit
    BY <2>1, BitOfWord
  <2> QED BY <1>6, <2>1, <2>2, <2>3, <2>4, OperandType
      DEF get_shifter_operand_register_shift
<1>7. CASE a # 0 /\ code # "ROR" /\ a >= W
  BY <1>1, <1>2, <1>3, <1>7, OperandType, SignBit, BitOfWord
  DEF get_shifter_operand_register_shift
<1> QED BY <1>2, <1>4, <1>5, <1>6, <1>7

LEMMA ResultType ==
    ASSUME cpsr \in Flags, NEW op \in Opcodes, NEW rn \in Word, NEW x \in Word
    PROVE  Result(op, rn, x) \in Word
<1>1. rn \in Int /\ x \in Int /\ cpsr.c \in Int /\ Borrow \in Int
  BY WordsAreNumbers DEF Flags, Bit, Borrow
<1>2. /\ rn - x \in Int /\ x - rn \in Int /\ rn + x \in Int /\ rn + x + cpsr.c \in Int
      /\ rn - x - Borrow \in Int /\ x - rn - Borrow \in Int
  BY <1>1
<1>3. /\ ((rn - x) % WordSize) \in Word /\ ((x - rn) % WordSize) \in Word
      /\ ((rn + x) % WordSize) \in Word /\ ((rn + x + cpsr.c) % WordSize) \in Word
      /\ ((rn - x - Borrow) % WordSize) \in Word /\ ((x - rn - Borrow) % WordSize) \in Word
  BY <1>2, Remainder
<1>4. /\ BitAnd(rn, x) \in Word /\ BitOr(rn, x) \in Word /\ BitXor(rn, x) \in Word
      /\ BitNot(x) \in Word
  BY BitwiseWords
<1>5. BitAnd(rn, BitNot(x)) \in Word
  BY <1>4, BitwiseWords
<1> QED BY <1>3, <1>4, <1>5 DEF Result

LEMMA FlagsType ==
    ASSUME cpsr \in Flags, NEW op \in Opcodes, NEW rn \in Word, NEW x \in Word,
           NEW carry \in Bit, NEW result \in Word
    PROVE  NewFlags(op, rn, x, carry, result) \in Flags
<1>1. PICK zn \in Flags : zn = set_zn(cpsr, result)
  <2>1. Sign(result) \in Bit
    BY SignBit
  <2> QED BY <2>1 DEF set_zn, Flags, Bit
<1>2. carryFrom(zn, result) \in Flags
  BY DEF carryFrom, Flags, Bit
<1>3. borrowFrom(zn, result) \in Flags
  <2>1. Sign(result) \in Bit
    BY SignBit
  <2> QED BY <2>1 DEF borrowFrom, Flags
<1>4. ASSUME NEW f \in Flags
      PROVE  overflowFrom(op, rn, x, f) \in Flags
  <2>1. ASSUME NEW b \in Bit
        PROVE  [f EXCEPT !.v = b] \in Flags
    BY DEF Flags
  <2> QED BY <2>1 DEF overflowFrom, Bit
<1>5. [zn EXCEPT !.c = carry] \in Flags
  BY DEF Flags
<1> QED BY <1>1, <1>2, <1>3, <1>4, <1>5 DEF NewFlags

-----------------------------------------------------------------------------
(* The flags of a comparison decide the order of the signed operands       *)

LEMMA Difference ==
    ASSUME NEW rn \in Word, NEW x \in Word
    PROVE  ((rn - x) % WordSize) = IF rn >= x THEN rn - x ELSE rn - x + WordSize
<1>1. /\ rn \in Int /\ x \in Int /\ WordSize \in Nat /\ WordSize >= 1
      /\ 0 <= rn /\ rn < WordSize /\ 0 <= x /\ x < WordSize
  BY Widths, WordsAreNumbers
<1>2. PICK z \in Int : z = rn - x
  BY <1>1
<1>3. CASE rn >= x
  <2>1. 0 <= z /\ z < WordSize
    BY <1>1, <1>2, <1>3
  <2>2. (z % WordSize) = z
    BY <1>1, <2>1, SmallQuotient
  <2> QED BY <1>2, <1>3, <2>2
<1>4. CASE ~(rn >= x)
  <2>1. PICK r \in Int : r = z + WordSize
    BY <1>1
  <2>2. z = (-1) * WordSize + r /\ 0 <= r /\ r < WordSize
    BY <1>1, <1>2, <1>4, <2>1
  <2>3. (z % WordSize) = r
    BY <1>1, <2>2, Quotient
  <2> QED BY <1>2, <1>4, <2>1, <2>3
<1> QED BY <1>3, <1>4

Ordered(flags, rn, x) ==
    /\ flags.z = 1 <=> rn = x
    /\ flags.n # flags.v <=> Signed(rn) < Signed(x)
    /\ flags.z = 1 \/ flags.n # flags.v <=> Signed(rn) <= Signed(x)

LEMMA ComparisonIsOrder ==
    ASSUME cpsr \in Flags, NEW op \in {"SUB", "CMP"}, NEW rn \in Word, NEW x \in Word,
           NEW carry, NEW result, result = ((rn - x) % WordSize)
    PROVE  Ordered(NewFlags(op, rn, x, carry, result), rn, x)
<1>1. PICK h \in Nat : h = Power[W - 1] /\ WordSize = 2 * h /\ h >= 1
  BY Widths, PowerPositive
<1>2. /\ rn \in Int /\ x \in Int /\ 0 <= rn /\ rn < 2 * h /\ 0 <= x /\ x < 2 * h
  BY <1>1, WordsAreNumbers
<1>3. result = IF rn >= x THEN rn - x ELSE rn - x + 2 * h
  BY <1>1, Difference
<1>4. result \in Word
  BY <1>2, Remainder
<1>5. PICK sr \in {0, 1}, sn \in {0, 1}, sx \in {0, 1} :
          /\ sr = Sign(result) /\ sr = IF result >= h THEN 1 ELSE 0
          /\ sn = Sign(rn) /\ sn = IF rn >= h THEN 1 ELSE 0
          /\ sx = Sign(x) /\ sx = IF x >= h THEN 1 ELSE 0
  BY <1>1, <1>4, SignOf
<1>6. /\ Signed(rn) = IF rn >= h THEN rn - 2 * h ELSE rn
      /\ Signed(x) = IF x >= h THEN x - 2 * h ELSE x
  BY <1>1, SignOf
<1>7. PICK flags : flags = NewFlags(op, rn, x, carry, result)
  OBVIOUS
<1>8. /\ flags.n = sr /\ flags.z = IF result = 0 THEN 1 ELSE 0
      /\ flags.v = IF sn # sx /\ sr # sn THEN 1 ELSE 0
  <2>1. PICK zn \in Flags :
            zn = set_zn(cpsr, result) /\ zn.n = sr /\ zn.z = IF result = 0 THEN 1 ELSE 0
    <3>1. sr \in Bit /\ (IF result = 0 THEN 1 ELSE 0) \in Bit
      BY DEF Bit
    <3>2. PICK zn : zn = [cpsr EXCEPT !.n = sr, !.z = IF result = 0 THEN 1 ELSE 0]
      OBVIOUS
    <3>3. zn \in Flags /\ zn.n = sr /\ zn.z = IF result = 0 THEN 1 ELSE 0
      BY <3>1, <3>2 DEF Flags
    <3>4. zn = set_zn(cpsr, result)
      BY <1>5, <3>2 DEF set_zn
    <3> QED BY <3>3, <3>4
  <2>2. PICK b \in Flags : b = borrowFrom(zn, result) /\ b.n = zn.n /\ b.z = zn.z
    <3>1. sr \in Bit
      BY DEF Bit
    <3>2. PICK b : b = [zn EXCEPT !.c = sr]
      OBVIOUS
    <3>3. b \in Flags /\ b.n = zn.n /\ b.z = zn.z
      BY <3>1, <3>2 DEF Flags
    <3>4. b = borrowFrom(zn, result)
      BY <1>5, <3>2 DEF borrowFrom
    <3> QED BY <3>3, <3>4
  <2>3. flags = overflowFrom(op, rn, x, b)
    BY <1>7, <2>1, <2>2 DEF NewFlags
  <2>4. ((0 + rn - x) % WordSize) = result
    <3>1. 0 + rn - x = rn - x
      BY <1>2
    <3> QED BY <3>1
  <2>5. flags = [b EXCEPT !.v = IF Sign(rn) # Sign(x) /\ Sign(result) # Sign(rn)
                                THEN 1 ELSE 0]
    BY <2>3, <2>4 DEF overflowFrom
  <2> QED BY <1>5, <2>1, <2>2, <2>5 DEF Flags
<1>9. result = 0 <=> rn = x
  BY <1>2, <1>3
<1>10. Ordered(flags, rn, x)
  <2>1. result \in Int
    BY <1>4, WordsAreNumbers
  <2>2. flags.z = 1 <=> rn = x
    BY <1>8, <1>9
  <2>3. flags.n # flags.v <=> Signed(rn) < Signed(x)
    BY <1>2, <1>3, <1>5, <1>6, <1>8, <2>1
  <2>4. Signed(rn) <= Signed(x) <=> Signed(rn) < Signed(x) \/ rn = x
    BY <1>2, <1>6
  <2> QED BY <2>2, <2>3, <2>4 DEF Ordered
<1> QED BY <1>7, <1>10

-----------------------------------------------------------------------------
(* The invariant *)

DPInv == TypeCorrect /\ ShifterIsArithmetic /\ SignedComparison

LEMMA InitInvariant == Init => DPInv
<1> SUFFICES ASSUME Init PROVE DPInv
  OBVIOUS
<1>1. operand \in Operands
  BY WordConstants, OperandType DEF Init, Bit
<1>2. TypeCorrect
  BY <1>1, WordConstants
  DEF Init, TypeCorrect, NoSource, NothingApplied, Codes, Opcodes, Bit
<1> QED BY <1>2 DEF Init, DPInv, ShifterIsArithmetic, SignedComparison

LEMMA ShiftInvariant ==
    ASSUME DPInv, Decode
    PROVE  DPInv'
<1> USE DEF DPInv
<1>1. cpsr \in Flags
  BY DEF TypeCorrect
<1>2. PICK format \in Formats, code \in Codes, amount \in Nat, rm \in Word :
        /\ Shift(format, code, amount, rm)
        /\ operand' \in Operands
        /\ amount > 0 /\ format # "immediate" => IsArithmetic(operand', code, amount, rm)
  <2>1. CASE \E rotate_imm \in 0 .. W \div 2 - 1, immed \in 0 .. Power[W \div 4] - 1 :
                Shift("immediate", "ROR", rotate_imm, immed)
    <3>1. PICK rotate_imm \in 0 .. W \div 2 - 1, immed \in 0 .. Power[W \div 4] - 1 :
                Shift("immediate", "ROR", rotate_imm, immed)
      BY <2>1
    <3>2. immed \in Word /\ arm_data_processing_immediate(immed, rotate_imm) \in Operands
      BY <1>1, ImmediateType
    <3>3. operand' = arm_data_processing_immediate(immed, rotate_imm)
      BY <3>1 DEF Shift
    <3>4. rotate_imm \in Nat
      BY Widths
    <3> QED BY <3>1, <3>2, <3>3, <3>4 DEF Formats, Codes
  <2>2. CASE \E code \in Codes, shift_imm \in 0 .. W - 1, rm \in Word :
                Shift("immediate_shift", code, shift_imm, rm)
    <3>1. PICK code \in Codes, shift_imm \in 0 .. W - 1, rm \in Word :
                Shift("immediate_shift", code, shift_imm, rm)
      BY <2>2
    <3>2. operand' = get_shifter_operand_immediate_shift(code, shift_imm, rm)
      BY <3>1 DEF Shift
    <3>3. operand' \in Operands
      BY <1>1, <3>2, ImmediateShiftType
    <3>4. shift_imm \in Nat /\ (shift_imm > 0 => shift_imm \in 1 .. W - 1)
      BY Widths
    <3>5. shift_imm > 0 => IsArithmetic(operand', code, shift_imm, rm)
      BY <3>2, <3>4, ImmediateShiftIsArithmetic
    <3> QED BY <3>1, <3>3, <3>4, <3>5 DEF Formats
  <2>3. CASE \E code \in Codes, amount \in 0 .. MaxAmount, rm \in Word :
                Shift("register_shift", code, amount, rm)
    <3>1. PICK code \in Codes, amount \in 0 .. MaxAmount, rm \in Word :
                Shift("register_shift", code, amount, rm)
      BY <2>3
    <3>2. operand' = get_shifter_operand_register_shift(code, amount, rm)
      BY <3>1 DEF Shift
    <3>3. amount \in Nat /\ (amount > 0 => amount >= 1)
      OBVIOUS
    <3>4. operand' \in Operands
      BY <1>1, <3>2, <3>3, RegisterShiftType
    <3>5. amount > 0 => IsArithmetic(operand', code, amount, rm)
      BY <3>2, <3>3, RegisterShiftIsArithmetic
    <3> QED BY <3>1, <3>3, <3>4, <3>5 DEF Formats
  <2> QED BY <2>1, <2>2, <2>3 DEF Decode
<1>3. /\ loc' = "operate" /\ UNCHANGED <<cpsr, applied>>
      /\ source' = [format |-> format, code |-> code, amount |-> amount, rm |-> rm]
  BY <1>2 DEF Shift
<1>4. TypeCorrect'
  BY <1>2, <1>3 DEF TypeCorrect
<1>5. ShifterIsArithmetic'
  BY <1>2, <1>3 DEF ShifterIsArithmetic, IsArithmetic, Shifted, ShiftedOut
<1>6. SignedComparison'
  BY <1>3 DEF SignedComparison
<1> QED BY <1>4, <1>5, <1>6

LEMMA OperatorInvariant ==
    ASSUME DPInv, NEW op \in Opcodes, NEW s \in Bit, NEW rn \in Word,
           apply_operator(op, s, rn)
    PROVE  DPInv'
<1> USE DEF DPInv
<1>1. /\ cpsr \in Flags /\ operand.value \in Word /\ operand.carry \in Bit
      /\ cpsr.c \in Bit
  BY DEF TypeCorrect, Operands, Flags
<1>2. PICK x \in Word, result \in Word :
          x = operand.value /\ result = Result(op, rn, x)
  BY <1>1, ResultType
<1>3. /\ loc' = "done" /\ source' = NoSource /\ operand' = Operand(0, 0)
      /\ applied' = [op |-> op, s |-> s, rn |-> rn, x |-> x, c |-> cpsr.c, value |-> result]
      /\ cpsr' = IF s = 1 \/ op \in Tests
                 THEN NewFlags(op, rn, x, operand.carry, result) ELSE cpsr
  BY <1>2 DEF apply_operator
<1>4. cpsr' \in Flags
  BY <1>1, <1>3, FlagsType
<1>5. TypeCorrect'
  <2>1. operand' \in Operands
    BY <1>3, WordConstants, OperandType DEF Bit
  <2>2. source' \in [format : Formats \union {"none"}, code : Codes, amount : Nat, rm : Word]
    BY <1>3, WordConstants DEF NoSource, Codes
  <2> QED BY <1>1, <1>3, <1>4, <2>1, <2>2 DEF TypeCorrect
<1>6. ShifterIsArithmetic'
  BY <1>3 DEF ShifterIsArithmetic
<1>7. SignedComparison'
  <2>1. CASE op \in {"SUB", "CMP"} /\ (s = 1 \/ op = "CMP")
    <3>1. result = ((rn - x) % WordSize)
      BY <1>2, <2>1 DEF Result
    <3>2. cpsr' = NewFlags(op, rn, x, operand.carry, result)
      BY <1>3, <2>1 DEF Tests
    <3>3. Ordered(cpsr', rn, x)
      BY <1>1, <2>1, <3>1, <3>2, ComparisonIsOrder
    <3> QED BY <1>3, <3>3 DEF SignedComparison, Ordered, Signed
  <2>2. CASE ~(op \in {"SUB", "CMP"} /\ (s = 1 \/ op = "CMP"))
    BY <1>3, <2>2 DEF SignedComparison
  <2> QED BY <2>1, <2>2
<1> QED BY <1>5, <1>6, <1>7

LEMMA StepInvariant == DPInv /\ [Next]_vars => DPInv'
<1> SUFFICES ASSUME DPInv, [Next]_vars PROVE DPInv'
  OBVIOUS
<1>1. CASE Decode
  BY <1>1, ShiftInvariant
<1>2. CASE \E op \in Opcodes, s \in Bit, rn \in Word : apply_operator(op, s, rn)
  BY <1>2, OperatorInvariant
<1>3. CASE \E rm \in Word, rs \in Word : arm_multiply(rm, rs)
  <2>1. PICK rm \in Word, rs \in Word : arm_multiply(rm, rs)
    BY <1>3
  <2>2. PICK result \in Word : result = ((rs * rm) % WordSize)
    <3>1. rs * rm \in Int
      <4>1. rs \in Int /\ rm \in Int
        BY WordsAreNumbers
      <4> QED BY <4>1
    <3> QED BY <3>1, Remainder
  <2>3. /\ loc' = "done" /\ UNCHANGED <<source, operand>>
        /\ applied' = [op |-> "MUL", s |-> 1, rn |-> rm, x |-> rs, c |-> cpsr.c,
                       value |-> result]
        /\ cpsr' = [cpsr EXCEPT !.c = Sign(result), !.z = IF result = 0 THEN 1 ELSE 0]
    BY <2>1, <2>2 DEF arm_multiply
  <2>4. cpsr' \in Flags /\ cpsr.c \in Bit
    <3>1. Sign(result) \in Bit /\ cpsr \in Flags
      BY SignBit DEF DPInv, TypeCorrect
    <3> QED BY <2>3, <3>1 DEF Flags, Bit
  <2>5. TypeCorrect'
    BY <2>3, <2>4 DEF DPInv, TypeCorrect, Bit
  <2> QED BY <2>3, <2>5 DEF DPInv, ShifterIsArithmetic, SignedComparison
<1>4. CASE Again
  <2>1. TypeCorrect'
    BY <1>4, WordConstants DEF Again, DPInv, TypeCorrect, NothingApplied, Bit
  <2> QED BY <1>4, <2>1 DEF Again, DPInv, ShifterIsArithmetic, SignedComparison
<1>5. CASE UNCHANGED vars
  BY <1>5
  DEF vars, DPInv, TypeCorrect, ShifterIsArithmetic, SignedComparison, Shifted, ShiftedOut
<1> QED BY <1>1, <1>2, <1>3, <1>4, <1>5 DEF Next

\* The invariant of the data processing instructions holds for every operand.
THEOREM DataProcessingInvariant == Spec => []DPInv
BY InitInvariant, StepInvariant, PTL DEF Spec

\* Every instruction leaves words in the registers and bits in the status, for
\* every operator and every operand: the & | ^ of C included, since every set
\* of places is the bits of a word.
THEOREM DataProcessingTypeCorrect == Spec => []TypeCorrect
<1>1. DPInv => TypeCorrect
  BY DEF DPInv
<1> QED BY <1>1, DataProcessingInvariant, PTL

\* get_shifter_operand_immediate_shift and get_shifter_operand_register_shift
\* compute the product, quotient or rotation and the bit shifted out, for every
\* width of the words and every amount but 0.
THEOREM ShifterComputesArithmetic == Spec => []ShifterIsArithmetic
<1>1. DPInv => ShifterIsArithmetic
  BY DEF DPInv
<1> QED BY <1>1, DataProcessingInvariant, PTL

\* After CMP, or SUB with S, the flags of apply_operator order the operands as
\* signed integers, for every width of the words.
THEOREM ComparisonDecidesOrder == Spec => []SignedComparison
<1>1. DPInv => SignedComparison
  BY DEF DPInv
<1> QED BY <1>1, DataProcessingInvariant, PTL
=============================================================================
