----------------------------- MODULE AluProofs -----------------------------
(***************************************************************************)
(* What the operations of Alu and FloatUnit return, for every code that is *)
(* systematic and every host that yields words: words, or a fault of the   *)
(* host for the few divisions that can.  The data of a result depends on   *)
(* the data of the operands, and a lane on the same lanes.                 *)
(***************************************************************************)
EXTENDS Alu, FloatUnit, Sequences, TLAPS

----------------------------------------------------------------------------
(* Numbers of several digits.                                              *)
LEMMA Remainders ==
  ASSUME NEW x \in Int, NEW d \in Nat \ {0}
  PROVE  x % d \in 0 .. d - 1
OBVIOUS

LEMMA Digits ==
  ASSUME NEW B \in Nat \ {0}, NEW C \in Nat \ {0}, NEW n \in 0 .. B - 1, NEW m \in 0 .. C - 1
  PROVE  n + B * m \in 0 .. B * C - 1
<1>1. B * m \in Nat /\ B * m + B =< B * C
  <2>1. PICK k \in Nat : C = m + 1 + k
    <3>1. C - m - 1 \in Nat /\ C = m + 1 + (C - m - 1)
      OBVIOUS
    <3> QED  BY <3>1
  <2>2. B * C = B * m + B + B * k /\ B * k \in Nat /\ B * m \in Nat
    BY <2>1
  <2> QED  BY <2>2
<1>2. B * C \in Int
  OBVIOUS
<1> QED  BY <1>1, <1>2

LEMMA Sizes ==
  /\ Radix \in Nat \ {0} /\ Half \in Nat \ {0} /\ Data \in Nat \ {0} /\ Full \in Nat \ {0}
  /\ Half >= 4 /\ Data >= 16 /\ Full >= 256
<1>1. Radix \in Nat /\ Radix >= 2
  BY RadixAssumption
<1>2. Half \in Nat /\ Half >= 4
  <2>1. PICK k \in Nat : Radix = k + 2
    <3>1. Radix - 2 \in Nat /\ Radix = (Radix - 2) + 2
      BY <1>1
    <3> QED  BY <3>1
  <2>2. Half = k * k + 4 * k + 4 /\ k * k \in Nat
    BY <2>1 DEF Half
  <2> QED  BY <2>2
<1>3. Data \in Nat /\ Data >= 16
  <2>1. PICK k \in Nat : Half = k + 4
    <3>1. Half - 4 \in Nat /\ Half = (Half - 4) + 4
      BY <1>2
    <3> QED  BY <3>1
  <2>2. Data = k * k + 8 * k + 16 /\ k * k \in Nat
    BY <2>1 DEF Data
  <2> QED  BY <2>2
<1>4. Full \in Nat /\ Full >= 256
  <2>1. PICK k \in Nat : Data = k + 16
    <3>1. Data - 16 \in Nat /\ Data = (Data - 16) + 16
      BY <1>3
    <3> QED  BY <3>1
  <2>2. Full = k * k + 32 * k + 256 /\ k * k \in Nat
    BY <2>1 DEF Full
  <2> QED  BY <2>2
<1> QED  BY <1>1, <1>2, <1>3, <1>4

LEMMA Smaller ==
  /\ 0 .. Radix - 1 \subseteq Registers /\ 0 .. Half - 1 \subseteq Registers
  /\ 0 .. Data - 1 \subseteq Registers
<1>1. Radix =< Half
  BY Sizes, Digits DEF Half
<1>2. Half =< Data
  BY Sizes, Digits DEF Data
<1>3. Data =< Full
  BY Sizes, Digits DEF Full
<1> QED  BY Sizes, <1>1, <1>2, <1>3 DEF Registers

LEMMA SignedInt ==
  ASSUME NEW n \in Int, NEW v \in Nat \ {0}
  PROVE  Signed(n, v) \in Int
BY DEF Signed

LEMMA RegisterOf ==
  ASSUME NEW n \in Int
  PROVE  n % Full \in Registers
BY Sizes, Remainders DEF Registers


LEMMA Division ==
  ASSUME NEW x, NEW d, x \in Int, d \in Nat \ {0}
  PROVE  \E k, r \in Int : x = k * d + r /\ r = x % d
<1> DEFINE q == x \div d
           r == x % d
<1>1. r \in Int /\ q \in Int /\ x = q * d + r
  OBVIOUS
<1> HIDE DEF r, q
<1> QED  BY <1>1 DEF r

LEMMA SameRemainder ==
  ASSUME NEW x, NEW k, NEW d, x \in Int, k \in Int, d \in Nat \ {0}
  PROVE  (x + k * d) % d = x % d
<1> DEFINE q == x \div d
           r == x % d
<1>1. r \in Int /\ q \in Int /\ x = q * d + r /\ 0 =< r /\ r =< d - 1
  OBVIOUS
<1> HIDE DEF r, q
<1>2. x + k * d = (q + k) * d + r
  BY <1>1
<1>3. ((q + k) * d + r) % d = r
  BY <1>1
<1> QED  BY <1>1, <1>2, <1>3 DEF r

LEMMA SumOfRemainders ==
  ASSUME NEW x \in Int, NEW y \in Int, NEW d \in Nat \ {0}
  PROVE  ((x % d) + (y % d)) % d = (x + y) % d /\ (x + (y % d)) % d = (x + y) % d
<1>1. PICK j \in Int, a \in Int : x = j * d + a /\ a = x % d
  BY Division
<1>2. PICK k \in Int, b \in Int : y = k * d + b /\ b = y % d
  BY Division
<1> DEFINE n == j + k
           s == a + b
           t == x + b
<1>3. n \in Int /\ s \in Int /\ t \in Int
  OBVIOUS
<1>4. x + y = s + n * d /\ x + y = t + k * d
  <2> DEFINE jd == j * d
             kd == k * d
  <2>1. n * d = jd + kd /\ jd \in Int /\ kd \in Int
    OBVIOUS
  <2>2. x = jd + a /\ y = kd + b
    BY <1>1, <1>2
  <2>3. t = x + b /\ s = a + b /\ kd = k * d
    OBVIOUS
  <2> HIDE DEF jd, kd, s, t, n
  <2> QED  BY <1>3, <2>1, <2>2, <2>3
<1> HIDE DEF n, s, t
<1>5. (s + n * d) % d = s % d
  BY <1>3, SameRemainder
<1>6. (t + k * d) % d = t % d
  BY <1>3, SameRemainder
<1>7. s % d = (x + y) % d /\ t % d = (x + y) % d
  BY <1>4, <1>5, <1>6
<1> QED  BY <1>1, <1>2, <1>7 DEF s, t

LEMMA RemainderOfRemainder ==
  ASSUME NEW x, NEW d, x \in Int, d \in Nat \ {0}
  PROVE  (x % (d * d)) % d = x % d
<1> DEFINE e == d * d
<1>1. e \in Nat \ {0}
  <2>1. PICK k \in Nat : d = k + 1
    <3>1. d - 1 \in Nat /\ d = (d - 1) + 1
      OBVIOUS
    <3> QED  BY <3>1
  <2>2. d * d = k * k + 2 * k + 1 /\ k * k \in Nat
    BY <2>1
  <2> QED  BY <2>2
<1> HIDE DEF e
<1>2. PICK k \in Int, r \in Int : x = k * e + r /\ r = x % e
  BY <1>1, Division
<1> DEFINE n == k * d
<1>3. n \in Int
  OBVIOUS
<1>4. x = r + n * d
  BY <1>2 DEF e
<1> HIDE DEF n
<1>5. (r + n * d) % d = r % d
  BY <1>3, SameRemainder
<1> QED  BY <1>2, <1>4, <1>5 DEF e

----------------------------------------------------------------------------
(* Bytes of one, two, four and eight bits.                                 *)

LEMMA Widths ==
  \/ DigitBits = 1 /\ Radix = 2 /\ Half = 4 /\ Data = 16 /\ Full = 256
  \/ DigitBits = 2 /\ Radix = 4 /\ Half = 16 /\ Data = 256 /\ Full = 65536
  \/ DigitBits = 4 /\ Radix = 16 /\ Half = 256 /\ Data = 65536 /\ Full = 4294967296
  \/ DigitBits = 8 /\ Radix = 256 /\ Half = 65536 /\ Data = 4294967296 /\ Full = 18446744073709551616
<1>1. \/ DigitBits = 1 /\ Radix = 2
      \/ DigitBits = 2 /\ Radix = 4
      \/ DigitBits = 4 /\ Radix = 16
      \/ DigitBits = 8 /\ Radix = 256
  BY RadixAssumption
<1> QED  BY <1>1 DEF Half, Data, Full

(* Power(k) is a positive number, and for the bits of the data there is    *)
(* room for another as large.                                              *)
LEMMA Powers ==
  /\ \A k \in 0 .. 8 * DigitBits - 1 : Power(k) \in Nat \ {0}
  /\ \A k \in 0 .. 4 * DigitBits - 1 : \E n \in Nat : Full = Power(k) * (2 * n)
<1>1. \A j \in 1 .. 8 : Place[j] \in Nat \ {0}
  BY Widths DEF Place
<1>2. ASSUME NEW k \in 0 .. 8 * DigitBits - 1
      PROVE  k \div DigitBits + 1 \in 1 .. 8 /\ (k % DigitBits) + 1 \in 1 .. DigitBits
  BY Widths
<1> DEFINE bit == <<1, 2, 4, 8, 16, 32, 64, 128>>
<1>3. \A i \in 1 .. DigitBits : bit[i] \in Nat \ {0} /\ \E n \in Nat \ {0} : Radix = bit[i] * (2 * n)
  <2> SUFFICES ASSUME NEW i \in 1 .. DigitBits
               PROVE  bit[i] \in Nat \ {0} /\ \E n \in Nat \ {0} : Radix = bit[i] * (2 * n)
    OBVIOUS
  <2>1. i \in 1 .. 8 /\ bit[i] \in Nat \ {0}
    BY Widths
  <2>2. CASE DigitBits = 1
    <3>1. Radix = bit[i] * (2 * 1)
      BY <2>2, Widths
    <3> QED  BY <2>1, <3>1
  <2>3. CASE DigitBits = 2
    <3>1. Radix = bit[i] * (2 * <<2, 1>>[i]) /\ <<2, 1>>[i] \in Nat \ {0}
      BY <2>3, Widths
    <3> QED  BY <2>1, <3>1
  <2>4. CASE DigitBits = 4
    <3>1. Radix = bit[i] * (2 * <<8, 4, 2, 1>>[i]) /\ <<8, 4, 2, 1>>[i] \in Nat \ {0}
      BY <2>4, Widths
    <3> QED  BY <2>1, <3>1
  <2>5. CASE DigitBits = 8
    <3>1. /\ Radix = bit[i] * (2 * <<128, 64, 32, 16, 8, 4, 2, 1>>[i])
          /\ <<128, 64, 32, 16, 8, 4, 2, 1>>[i] \in Nat \ {0}
      BY <2>5, Widths
    <3> QED  BY <2>1, <3>1
  <2>6. DigitBits = 1 \/ DigitBits = 2 \/ DigitBits = 4 \/ DigitBits = 8
    BY Widths
  <2> QED  BY <2>2, <2>3, <2>4, <2>5, <2>6
<1>4. \A k : Power(k) = Place[k \div DigitBits + 1] * bit[(k % DigitBits) + 1]
  BY DEF Power
<1>5. \A j \in 1 .. 4 : \E n \in Nat \ {0} : Full = Place[j] * (Radix * n)
  <2> SUFFICES ASSUME NEW j \in 1 .. 4 PROVE \E n \in Nat \ {0} : Full = Place[j] * (Radix * n)
    OBVIOUS
  <2>1. CASE j = 1
    <3>1. Full = Place[j] * (Radix * (Radix * Half * Data)) /\ Radix * Half * Data \in Nat \ {0}
      BY <2>1, Widths DEF Place
    <3> QED  BY <3>1
  <2>2. CASE j = 2
    <3>1. Full = Place[j] * (Radix * (Half * Data)) /\ Half * Data \in Nat \ {0}
      BY <2>2, Widths DEF Place
    <3> QED  BY <3>1
  <2>3. CASE j = 3
    <3>1. Full = Place[j] * (Radix * (Radix * Data)) /\ Radix * Data \in Nat \ {0}
      BY <2>3, Widths DEF Place
    <3> QED  BY <3>1
  <2>4. CASE j = 4
    <3>1. Full = Place[j] * (Radix * Data) /\ Data \in Nat \ {0}
      BY <2>4, Widths DEF Place
    <3> QED  BY <3>1
  <2> QED  BY <2>1, <2>2, <2>3, <2>4
<1>6. ASSUME NEW k \in 0 .. 8 * DigitBits - 1
      PROVE  Power(k) \in Nat \ {0}
  <2> DEFINE p == Place[k \div DigitBits + 1]
             b == bit[(k % DigitBits) + 1]
  <2>1. p \in Nat \ {0} /\ b \in Nat \ {0}
    BY <1>1, <1>2, <1>3
  <2>2. Power(k) = p * b
    BY <1>4
  <2> HIDE DEF p, b
  <2> QED  BY <2>1, <2>2
<1>7. ASSUME NEW k \in 0 .. 4 * DigitBits - 1
      PROVE  \E n \in Nat : Full = Power(k) * (2 * n)
  <2> DEFINE p == Place[k \div DigitBits + 1]
             b == bit[(k % DigitBits) + 1]
  <2>1. k \div DigitBits + 1 \in 1 .. 4 /\ (k % DigitBits) + 1 \in 1 .. DigitBits
    BY Widths
  <2>2. p \in Nat \ {0} /\ b \in Nat \ {0}
    <3>1. k \div DigitBits + 1 \in 1 .. 8
      BY <2>1
    <3> HIDE DEF bit
    <3> QED  BY <1>1, <1>3, <2>1, <3>1
  <2>3. PICK n \in Nat \ {0} : Full = p * (Radix * n)
    BY <1>5, <2>1
  <2>4. PICK m \in Nat \ {0} : Radix = b * (2 * m)
    BY <1>3, <2>1
  <2>5. Power(k) = p * b
    BY <1>4
  <2> HIDE DEF p, b, bit
  <2>6. p * ((b * (2 * m)) * n) = (p * b) * (2 * (m * n)) /\ m * n \in Nat
    BY <2>2
  <2> QED  BY <2>3, <2>4, <2>5, <2>6
<1> QED  BY <1>6, <1>7

(* A digit to any base and what is above it.                               *)
LEMMA Peel ==
  ASSUME NEW B, NEW n, NEW m, B \in Nat \ {0}, n \in 0 .. B - 1, m \in Int
  PROVE  (n + B * m) \div B = m /\ (n + B * m) % B = n
<1> DEFINE x == n + B * m
<1>1. x \in Int /\ x = m * B + n
  OBVIOUS
<1>2. \A q \in Int, r \in 0 .. B - 1 : x = q * B + r => q = x \div B /\ r = x % B
  OBVIOUS
<1> HIDE DEF x
<1> QED  BY <1>1, <1>2 DEF x

(* A word is its data and what is above.                                   *)
LEMMA Halves ==
  ASSUME NEW a \in Registers
  PROVE  /\ a \in Int /\ a \in 0 .. Full - 1
         /\ a % Data \in 0 .. Data - 1 /\ a \div Data \in 0 .. Data - 1
         /\ a % Data \in Registers /\ a \div Data \in Registers
<1>1. a % Data \in 0 .. Data - 1 /\ a \div Data \in 0 .. Data - 1
  BY Widths DEF Registers
<1> QED  BY <1>1, Smaller, Sizes DEF Registers

LEMMA Digit ==
  ASSUME NEW a \in Registers, NEW k \in 0 .. 3
  PROVE  a \div Place[2 * k + 1] \in Int
<1>1. k = 0 \/ k = 1 \/ k = 2 \/ k = 3
  OBVIOUS
<1>2. Place[2 * k + 1] \in Nat \ {0}
  BY <1>1, Widths DEF Place
<1> QED  BY <1>2 DEF Registers

----------------------------------------------------------------------------
(* The operators on bits.                                                  *)

LEMMA OneBit ==
  ASSUME NEW op \in {"kAnd", "kOr", "kXor"}, NEW x \in 0 .. 1, NEW y \in 0 .. 1
  PROVE  OfBits(op, x, y) \in 0 .. 1 /\ OfBits(op, 0, 0) = 0
<1>1. x = 0 \/ x = 1
  OBVIOUS
<1>2. y = 0 \/ y = 1
  OBVIOUS
<1> QED  BY <1>1, <1>2 DEF OfBits

LEMMA Bytes ==
  ASSUME NEW op \in {"kAnd", "kOr", "kXor"}, NEW x \in 0 .. Radix - 1, NEW y \in 0 .. Radix - 1
  PROVE  OfBytes(op, x, y) \in 0 .. Radix - 1 /\ OfBytes(op, 0, 0) = 0
<1> DEFINE O(p) == OfBits(op, (x \div p) % 2, (y \div p) % 2)
<1>1. \A p \in {1, 2, 4, 8, 16, 32, 64, 128} :
        O(p) \in 0 .. 1 /\ (Radix =< p => O(p) = 0) /\ OfBits(op, (0 \div p) % 2, (0 \div p) % 2) = 0
  <2> TAKE p \in {1, 2, 4, 8, 16, 32, 64, 128}
  <2>1. (x \div p) % 2 \in 0 .. 1 /\ (y \div p) % 2 \in 0 .. 1 /\ (0 \div p) % 2 = 0
    BY Widths
  <2>2. Radix =< p => (x \div p) % 2 = 0 /\ (y \div p) % 2 = 0
    BY Widths
  <2> QED  BY <2>1, <2>2, OneBit
<1>2. OfBytes(op, x, y) = O(1) + 2 * O(2) + 4 * O(4) + 8 * O(8) + 16 * O(16) + 32 * O(32) + 64 * O(64) + 128 * O(128)
  <2>1. 1 * O(1) = O(1)
    BY <1>1
  <2> QED  BY <2>1 DEF OfBytes
<1>3. OfBytes(op, 0, 0) = 0
  BY <1>1 DEF OfBytes
<1> HIDE DEF O
<1> QED  BY <1>1, <1>2, <1>3, Widths

LEMMA HalvesOfBits ==
  ASSUME NEW op \in {"kAnd", "kOr", "kXor"}, NEW x \in 0 .. Half - 1, NEW y \in 0 .. Half - 1
  PROVE  OfHalves(op, x, y) \in 0 .. Half - 1 /\ OfHalves(op, 0, 0) = 0
<1>1. /\ x % Radix \in 0 .. Radix - 1 /\ x \div Radix \in 0 .. Radix - 1
      /\ y % Radix \in 0 .. Radix - 1 /\ y \div Radix \in 0 .. Radix - 1
  BY Widths
<1>2. 0 % Radix = 0 /\ 0 \div Radix = 0 /\ Radix * 0 = 0
  BY Widths
<1>3. OfBytes(op, x % Radix, y % Radix) \in 0 .. Radix - 1 /\ OfBytes(op, x \div Radix, y \div Radix) \in 0 .. Radix - 1
  BY <1>1, Bytes
<1>4. OfBytes(op, 0, 0) = 0
  BY <1>1, Bytes
<1>5. OfHalves(op, x, y) \in 0 .. Radix * Radix - 1
  BY <1>3, Digits, Sizes DEF OfHalves
<1>6. OfHalves(op, 0, 0) = 0
  BY <1>2, <1>4 DEF OfHalves
<1> QED  BY <1>5, <1>6 DEF Half

LEMMA DataOfBits ==
  ASSUME NEW op \in {"kAnd", "kOr", "kXor"}, NEW x \in 0 .. Data - 1, NEW y \in 0 .. Data - 1
  PROVE  OfData(op, x, y) \in 0 .. Data - 1 /\ OfData(op, 0, 0) = 0
<1>1. /\ x % Half \in 0 .. Half - 1 /\ x \div Half \in 0 .. Half - 1
      /\ y % Half \in 0 .. Half - 1 /\ y \div Half \in 0 .. Half - 1
  BY Widths
<1>2. 0 % Half = 0 /\ 0 \div Half = 0 /\ Half * 0 = 0
  BY Widths
<1>3. OfHalves(op, x % Half, y % Half) \in 0 .. Half - 1 /\ OfHalves(op, x \div Half, y \div Half) \in 0 .. Half - 1
  BY <1>1, HalvesOfBits
<1>4. OfHalves(op, 0, 0) = 0
  BY <1>1, HalvesOfBits
<1>5. OfData(op, x, y) \in 0 .. Half * Half - 1
  BY <1>3, Digits, Sizes DEF OfData
<1>6. OfData(op, 0, 0) = 0
  BY <1>2, <1>4 DEF OfData
<1> QED  BY <1>5, <1>6 DEF Data

(* The data of a result is the result of the data.                         *)
LEMMA WordsOfBits ==
  ASSUME NEW op \in {"kAnd", "kOr", "kXor"}, NEW a \in Registers, NEW b \in Registers
  PROVE  /\ BitByBit(op, a, b) \in Registers
         /\ BitByBit(op, a, b) % Data = BitByBit(op, a % Data, b % Data)
<1> DEFINE low  == OfData(op, a % Data, b % Data)
           high == OfData(op, a \div Data, b \div Data)
<1>1. low \in 0 .. Data - 1 /\ high \in 0 .. Data - 1 /\ OfData(op, 0, 0) = 0
  BY Halves, DataOfBits
<1>2. BitByBit(op, a, b) = low + Data * high
  BY DEF BitByBit
<1>3. BitByBit(op, a % Data, b % Data) = low
  <2>1. \A c \in 0 .. Data - 1 : c % Data = c /\ c \div Data = 0
    BY Widths
  <2>2. /\ (a % Data) % Data = a % Data /\ (a % Data) \div Data = 0
        /\ (b % Data) % Data = b % Data /\ (b % Data) \div Data = 0
    BY <2>1, Halves
  <2>3. BitByBit(op, a % Data, b % Data) = low + Data * 0
    BY <1>1, <2>2 DEF BitByBit
  <2> QED  BY <1>1, <2>3, Sizes
<1> HIDE DEF low, high
<1>4. low + Data * high \in 0 .. Data * Data - 1
  BY <1>1, Digits, Sizes
<1>5. (low + Data * high) % Data = low
  BY <1>1, Peel, Sizes
<1> QED  BY <1>2, <1>3, <1>4, <1>5 DEF Registers, Full


----------------------------------------------------------------------------
(* Signed words, results with a code, and quotients.                       *)

LEMMA SignedRange ==
  ASSUME NEW n, n \in Int, NEW v, v \in Nat \ {0}
  PROVE  /\ Signed(n, v) \in Int /\ 2 * Signed(n, v) < v /\ -v =< 2 * Signed(n, v)
         /\ Signed(n, v) % v = n % v /\ Signed(n % v, v) = Signed(n, v)
<1> DEFINE u == n % v
<1>1. u \in 0 .. v - 1
  OBVIOUS
<1>2. u % v = u
  <2> HIDE DEF u
  <2> QED  BY <1>1
<1>3. Signed(n, v) = IF 2 * u < v THEN u ELSE u - v
  BY DEF Signed
<1>4. Signed(u, v) = IF 2 * u < v THEN u ELSE u - v
  BY <1>2 DEF Signed
<1> HIDE DEF u
<1>5. (u - v) % v = u
  <2>1. (u + (-1) * v) % v = u % v
    BY <1>1, SameRemainder
  <2>2. u + (-1) * v = u - v
    BY <1>1
  <2> QED  BY <1>2, <2>1, <2>2
<1>6. Signed(n, v) % v = u
  BY <1>2, <1>3, <1>5
<1> QED  BY <1>1, <1>3, <1>4, <1>6 DEF u

LEMMA SignedWords ==
  ASSUME NEW a, a \in Int
  PROVE  S32(a) \in Int /\ S64(a) \in Int /\ Upper32(a) \in Int /\ Extended(a) \in Registers
<1>1. S32(a) \in Int /\ S64(a) \in Int
  BY SignedRange, Sizes DEF S32, S64
<1>2. a \div Data \in Int
  BY Sizes
<1>3. Upper32(a) \in Int
  BY <1>2, SignedRange, Sizes DEF Upper32
<1>4. Extended(a) = S32(a) % Full
  BY DEF Extended, S32
<1> QED  BY <1>1, <1>3, <1>4, RegisterOf

LEMMA CodedWord ==
  ASSUME Systematic(Registers), NEW a \in Registers, NEW b \in Registers, NEW n, n \in Int
  PROVE  Coded(n, a, b) \in Registers /\ Coded(n, a, b) % Data = n % Data
<1>1. get_significance(a) \in Significances /\ get_significance(b) \in Significances
  BY DEF Systematic
<1>2. n % Data \in 0 .. Data - 1
  BY Sizes, Remainders
<1> DEFINE s == IF get_significance(a) > get_significance(b) THEN get_significance(a) ELSE get_significance(b)
<1>3. s \in Significances
  BY <1>1
<1>4. Coded(n, a, b) = Protect(n % Data, s)
  BY DEF Coded
<1> HIDE DEF s
<1> QED  BY <1>2, <1>3, <1>4 DEF Systematic

LEMMA QuotientInt ==
  ASSUME NEW n, NEW m, n \in Int, m \in Int, m # 0
  PROVE  Quotient(n, m) \in Int /\ Remainder(n, m) \in Int
<1>1. Magnitude(n) \in Nat /\ Magnitude(m) \in Nat \ {0}
  BY DEF Magnitude
<1>2. Magnitude(n) \div Magnitude(m) \in Int
  BY <1>1
<1>3. Quotient(n, m) \in Int
  BY <1>2 DEF Quotient
<1> HIDE DEF Quotient
<1> QED  BY <1>3 DEF Remainder

LEMMA QuotientSmall ==
  ASSUME NEW n, NEW m, n \in Nat, m \in Nat \ {0}
  PROVE  n \div m \in 0 .. n
<1> DEFINE q == n \div m
<1>1. q \in Int /\ q >= 0 /\ n % m \in 0 .. m - 1 /\ n = q * m + (n % m)
  OBVIOUS
<1> DEFINE r == n % m
<1>2. PICK k \in Nat : m = k + 1
  <2>1. m - 1 \in Nat /\ m = (m - 1) + 1
    OBVIOUS
  <2> QED  BY <2>1
<1>3. r \in Nat /\ n = q * m + r
  BY <1>1
<1> HIDE DEF q, r
<1>4. q * m = q * k + q /\ q * k \in Nat
  BY <1>1, <1>2
<1>5. q \in 0 .. n
  BY <1>1, <1>3, <1>4
<1> QED  BY <1>5 DEF q

LEMMA ProductUpper ==
  ASSUME NEW a \in Registers, NEW b \in Registers
  PROVE  (a * b) \div Full \in Registers
<1>1. a \in Nat /\ b \in Nat /\ a =< Full - 1 /\ b =< Full - 1
  BY Sizes DEF Registers
<1> DEFINE p == a * b
<1>2. p \in Nat /\ p =< Full * b
  <2>1. PICK k \in Nat : Full = a + k
    <3>1. Full - a \in Nat /\ Full = a + (Full - a)
      BY <1>1, Sizes
    <3> QED  BY <3>1
  <2>2. Full * b = p + k * b /\ k * b \in Nat /\ p \in Nat
    BY <1>1, <2>1
  <2> QED  BY <2>2
<1> HIDE DEF p
<1>3. p \div Full \in 0 .. Full - 1
  BY <1>1, <1>2, Widths
<1> QED  BY <1>3 DEF p, Registers

(* An amount is taken modulo the width, of which a power is a number.      *)
LEMMA ShiftPower ==
  ASSUME NEW b, b \in Int
  PROVE  Power(Shift(b)) \in Nat \ {0} /\ Power(Shift32(b)) \in Nat \ {0}
<1>1. b % (8 * DigitBits) \in 0 .. 8 * DigitBits - 1 /\ b % (4 * DigitBits) \in 0 .. 8 * DigitBits - 1
  BY Widths
<1> QED  BY <1>1, Powers DEF Shift, Shift32

LEMMA ShiftOfData ==
  ASSUME NEW b \in Registers
  PROVE  Shift(b % Data) = Shift(b)
BY Widths DEF Shift, Registers

LEMMA ShiftOfImmediate ==
  ASSUME NEW n \in 0 .. 31
  PROVE  Shift((1024 + n) % Full) = Shift(n % Full)
BY Widths DEF Shift

----------------------------------------------------------------------------
(* The results of the operations are words, or a fault of the host where   *)
(* the divisor is zero or the quotient does not fit.                       *)

LEMMA ArithmeticWord ==
  ASSUME Systematic(Registers), NEW a \in Registers, NEW b \in Registers,
         NEW op \in {"kAdd", "kSub", "kMul", "kDiv"}
  PROVE  Arithmetic(op, a, b) \in Registers
<1>1. a \in Int /\ b \in Int
  BY Halves
<1> DEFINE n == S32(a)
           m == S32(b)
<1>2. n \in Int /\ m \in Int
  BY <1>1, SignedWords
<1> HIDE DEF n, m
<1>3. /\ Coded(n + m, a, b) \in Registers /\ Coded(n - m, a, b) \in Registers
      /\ Coded(-1, a, b) \in Registers /\ Coded(a, a, b) \in Registers
  BY <1>1, <1>2, CodedWord
<1>4. Coded(n * m, a, b) \in Registers
  <2>1. n * m \in Int
    BY <1>2
  <2> QED  BY <2>1, CodedWord
<1>5. m # 0 => Coded(Quotient(n, m), a, b) \in Registers
  BY <1>2, CodedWord, QuotientInt
<1>6. Div(a, b) \in Registers
  BY <1>3, <1>5 DEF Div, n, m
<1> QED  BY <1>3, <1>4, <1>6 DEF Arithmetic, n, m

WideOps == {"kAddrAdd", "kMulh", "kMulhsu", "kMulhu", "kDivu", "kRemu", "kRem", "kAnd",
            "kOr", "kXor", "kSll", "kSrl", "kSra", "kSlt", "kSltu"}

LEMMA WideWord ==
  ASSUME NEW a \in Registers, NEW b \in Registers, NEW op \in WideOps
  PROVE  Wide(op, a, b) \in Registers \/ (op = "kRem" /\ Wide(op, a, b) = Trap)
<1>1. a \in Nat /\ b \in Nat /\ b =< Full - 1 /\ a =< Full - 1
  BY Sizes DEF Registers
<1>2. 0 \in Registers /\ 1 \in Registers
  BY Sizes DEF Registers
<1> DEFINE n == S64(a)
           m == S64(b)
           p == Power(Shift(b))
<1>3. n \in Int /\ m \in Int /\ p \in Nat \ {0}
  BY <1>1, SignedWords, ShiftPower
<1> HIDE DEF n, m, p
<1>4. CASE op = "kAddrAdd"
  BY <1>1, <1>4, RegisterOf DEF Wide
<1>5. CASE op \in {"kMulh", "kMulhsu"}
  <2>1. n * m \in Int /\ n * b \in Int
    BY <1>1, <1>3
  <2>2. (n * m) \div Full \in Int /\ (n * b) \div Full \in Int
    BY <2>1, Sizes
  <2>3. ((n * m) \div Full) % Full \in Registers /\ ((n * b) \div Full) % Full \in Registers
    BY <2>2, RegisterOf
  <2> QED  BY <1>5, <2>3 DEF Wide, n, m
<1>6. CASE op = "kMulhu"
  BY <1>6, ProductUpper DEF Wide
<1>7. CASE op = "kDivu"
  <2>1. b # 0 => a \div b \in 0 .. a
    BY <1>1, QuotientSmall
  <2>2. b # 0 => a \div b \in Registers
    BY <1>1, <2>1, Sizes DEF Registers
  <2> QED  BY <1>2, <1>7, <2>2 DEF Wide
<1>8. CASE op = "kRemu"
  <2>1. b # 0 => a % b \in 0 .. b - 1
    BY <1>1
  <2>2. b # 0 => a % b \in Registers
    BY <1>1, <2>1, Sizes DEF Registers
  <2> QED  BY <1>2, <1>8, <2>2 DEF Wide
<1>9. CASE op = "kRem"
  <2>1. b # 0 => m # 0
    <3>1. Signed(b, Full) % Full = b % Full /\ b % Full = b /\ 0 % Full = 0
      BY <1>1, SignedRange, Sizes
    <3> QED  BY <3>1 DEF m, S64
  <2>2. m # 0 => Remainder(n, m) % Full \in Registers
    BY <1>3, QuotientInt, RegisterOf
  <2> QED  BY <1>2, <1>9, <2>1, <2>2 DEF Wide, n, m
<1>10. CASE op \in {"kAnd", "kOr", "kXor"}
  <2>1. BitByBit(op, a, b) \in Registers
    BY <1>10, WordsOfBits
  <2> QED  BY <1>10, <2>1 DEF Wide
<1>11. CASE op = "kSll"
  <2>1. a * p \in Int
    BY <1>1, <1>3
  <2> QED  BY <1>11, <2>1, RegisterOf DEF Wide, p
<1>12. CASE op = "kSrl"
  <2>1. a \div p \in 0 .. a
    BY <1>1, <1>3, QuotientSmall
  <2>2. a \div p \in Registers
    BY <1>1, <2>1, Sizes DEF Registers
  <2> QED  BY <1>12, <2>2 DEF Wide, p
<1>13. CASE op = "kSra"
  <2>1. n \div p \in Int
    BY <1>3
  <2> QED  BY <1>13, <2>1, RegisterOf DEF Wide, n, p
<1>14. CASE op \in {"kSlt", "kSltu"}
  BY <1>2, <1>14 DEF Wide
<1> QED  BY <1>4, <1>5, <1>6, <1>7, <1>8, <1>9, <1>10, <1>11, <1>12, <1>13, <1>14 DEF WideOps

WordOps == {"kAddw", "kSubw", "kMulw", "kDivw", "kDivuw", "kRemw", "kRemuw", "kSllw", "kSrlw", "kSraw"}

LEMMA WordFormWord ==
  ASSUME NEW a \in Registers, NEW b \in Registers, NEW op \in WordOps
  PROVE  \/ WordForm(op, a, b) \in Registers
         \/ op \in {"kDivuw", "kRemw", "kRemuw"} /\ WordForm(op, a, b) = Trap
<1>1. a \in Int /\ b \in Int /\ a % Data \in 0 .. Data - 1 /\ b % Data \in 0 .. Data - 1
  BY Halves
<1>2. 0 \in Registers
  BY Sizes DEF Registers
<1> DEFINE n == S32(a)
           m == S32(b)
           p == Power(Shift32(b))
           x == a % Data
           y == b % Data
<1>3. n \in Int /\ m \in Int /\ p \in Nat \ {0} /\ x \in Nat /\ y \in Nat /\ x =< Data - 1 /\ y =< Data - 1
  BY <1>1, SignedWords, ShiftPower, Sizes
<1> HIDE DEF n, m, p, x, y
<1>4. m = 0 => y = 0
  <2>1. Signed(b, Data) % Data = b % Data
    BY <1>1, SignedRange, Sizes
  <2>2. 0 % Data = 0
    BY Sizes
  <2> QED  BY <2>1, <2>2 DEF m, y, S32
<1>5. CASE op \in {"kAddw", "kSubw"}
  BY <1>3, <1>5, SignedWords DEF WordForm, n, m
<1>6. CASE op = "kMulw"
  <2>1. n * m \in Int
    BY <1>3
  <2> QED  BY <1>6, <2>1, SignedWords DEF WordForm, n, m
<1>7. CASE op = "kDivw"
  <2>1. m # 0 => Extended(Quotient(n, m)) \in Registers
    BY <1>3, QuotientInt, SignedWords
  <2>2. Extended(a) \in Registers
    BY <1>1, SignedWords
  <2> QED  BY <1>2, <1>7, <2>1, <2>2 DEF WordForm, n, m
<1>8. CASE op = "kDivuw"
  <2>1. y # 0 => x \div y \in 0 .. x
    BY <1>3, QuotientSmall
  <2>2. y # 0 => x \div y \in 0 .. Data - 1
    BY <1>3, <2>1, Sizes
  <2>3. y # 0 => x \div y \in Registers
    BY <2>2, Smaller
  <2> QED  BY <1>2, <1>8, <2>3 DEF WordForm, x, y
<1>9. CASE op = "kRemw"
  <2>1. y # 0 => m # 0
    BY <1>4
  <2>2. m # 0 => Extended(Remainder(n, m)) \in Registers
    BY <1>3, QuotientInt, SignedWords
  <2> QED  BY <1>2, <1>9, <2>1, <2>2 DEF WordForm, n, m, y
<1>10. CASE op = "kRemuw"
  <2>1. y # 0 => x % y \in 0 .. y - 1
    BY <1>3
  <2>2. y # 0 => x % y \in 0 .. Data - 1
    BY <1>3, <2>1, Sizes
  <2>3. y # 0 => x % y \in Registers
    BY <2>2, Smaller
  <2> QED  BY <1>2, <1>10, <2>3 DEF WordForm, x, y
<1>11. CASE op = "kSllw"
  <2>1. x * p \in Int
    BY <1>3
  <2> QED  BY <1>11, <2>1, SignedWords DEF WordForm, x, p
<1>12. CASE op \in {"kSrlw", "kSraw"}
  <2>1. x \div p \in Int /\ n \div p \in Int
    BY <1>3
  <2> QED  BY <1>12, <2>1, SignedWords DEF WordForm, x, n, p
<1> QED  BY <1>5, <1>6, <1>7, <1>8, <1>9, <1>10, <1>11, <1>12 DEF WordOps


LEMMA JoinedWord ==
  ASSUME NEW l0 \in Int, NEW l1 \in Int, NEW l2 \in Int, NEW l3 \in Int
  PROVE  Joined(l0, l1, l2, l3) \in Registers
<1>1. /\ l0 % Half \in 0 .. Half - 1 /\ l1 % Half \in 0 .. Half - 1
      /\ l2 % Half \in 0 .. Half - 1 /\ l3 % Half \in 0 .. Half - 1
  BY Sizes, Remainders
<1> DEFINE h2 == (l2 % Half) + Half * (l3 % Half)
           h1 == (l1 % Half) + Half * h2
<1>2. h2 \in 0 .. Half * Half - 1
  BY <1>1, Sizes, Digits
<1> HIDE DEF h2
<1>3. Half * Half \in Nat \ {0} /\ Half * (Half * Half) \in Nat \ {0} /\ Half * (Half * (Half * Half)) = Full
  BY Widths
<1>4. h1 \in 0 .. Half * (Half * Half) - 1
  BY <1>1, <1>2, <1>3, Sizes, Digits
<1> HIDE DEF h1
<1>5. (l0 % Half) + Half * h1 \in 0 .. Half * (Half * (Half * Half)) - 1
  BY <1>1, <1>3, <1>4, Sizes, Digits
<1> QED  BY <1>3, <1>5 DEF Joined, h1, h2, Registers

LEMMA LaneInt ==
  ASSUME NEW a \in Registers, NEW k \in 0 .. 3
  PROVE  Lane16(a, k) \in Int
BY Digit, SignedRange, Sizes DEF Lane16

LEMMA OverInt ==
  ASSUME NEW n, NEW m, n \in Int, m \in Int
  PROVE  Over(n, m) \in Int /\ Rest(n, m) \in Int
BY QuotientInt DEF Over, Rest

LEMMA CombinedWord ==
  ASSUME NEW n, NEW m, n \in Int, m \in Int
  PROVE  Combined32(n, m) \in Registers
<1>1. m % Data \in 0 .. Data - 1
  BY Sizes, Remainders
<1>2. 0 + Data * (m % Data) \in 0 .. Data * Data - 1
  BY <1>1, Sizes, Digits
<1>3. (m % Data) * Data \in Registers
  BY <1>1, <1>2, Sizes DEF Registers, Full
<1> QED  BY <1>3, SignedWords, WordsOfBits DEF Combined32

Simd16Ops == {"kSIMD_add16", "kSIMD_sub16", "kSIMD_mul16", "kSIMD_div16", "kSIMD_rem16",
              "kSIMD_load16_upper", "kSIMD_load16_lower"}

LEMMA Simd16Word ==
  ASSUME NEW a \in Registers, NEW b \in Registers, NEW op \in Simd16Ops
  PROVE  Simd16(op, a, b) \in Registers
<1> DEFINE n(k) == Lane16(a, k)
           m(k) == Lane16(b, k)
<1>1. \A k \in 0 .. 3 : n(k) \in Int /\ m(k) \in Int
  BY LaneInt
<1>2. 0 \in 0 .. 3 /\ 1 \in 0 .. 3 /\ 2 \in 0 .. 3 /\ 3 \in 0 .. 3
  OBVIOUS
<1> HIDE DEF n, m
<1>3. CASE op = "kSIMD_add16"
  <2>1. \A k \in 0 .. 3 : Plus(n(k), m(k)) \in Int
    BY <1>1 DEF Plus
  <2>2. Joined(Plus(n(0), m(0)), Plus(n(1), m(1)), Plus(n(2), m(2)), Plus(n(3), m(3))) \in Registers
    BY <1>2, <2>1, JoinedWord
  <2> QED  BY <1>3, <2>2 DEF Simd16, Lanes16, n, m
<1>4. CASE op = "kSIMD_sub16"
  <2>1. \A k \in 0 .. 3 : Minus(n(k), m(k)) \in Int
    BY <1>1 DEF Minus
  <2>2. Joined(Minus(n(0), m(0)), Minus(n(1), m(1)), Minus(n(2), m(2)), Minus(n(3), m(3))) \in Registers
    BY <1>2, <2>1, JoinedWord
  <2> QED  BY <1>4, <2>2 DEF Simd16, Lanes16, n, m
<1>5. CASE op = "kSIMD_mul16"
  <2>1. \A k \in 0 .. 3 : Times(n(k), m(k)) \in Int
    BY <1>1 DEF Times
  <2>2. Joined(Times(n(0), m(0)), Times(n(1), m(1)), Times(n(2), m(2)), Times(n(3), m(3))) \in Registers
    BY <1>2, <2>1, JoinedWord
  <2> QED  BY <1>5, <2>2 DEF Simd16, Lanes16, n, m
<1>6. CASE op = "kSIMD_div16"
  <2>1. \A k \in 0 .. 3 : Over(n(k), m(k)) \in Int
    BY <1>1, OverInt
  <2>2. Joined(Over(n(0), m(0)), Over(n(1), m(1)), Over(n(2), m(2)), Over(n(3), m(3))) \in Registers
    BY <1>2, <2>1, JoinedWord
  <2> QED  BY <1>6, <2>2 DEF Simd16, Lanes16, n, m
<1>7. CASE op = "kSIMD_rem16"
  <2>1. \A k \in 0 .. 3 : Rest(n(k), m(k)) \in Int
    BY <1>1, OverInt
  <2>2. Joined(Rest(n(0), m(0)), Rest(n(1), m(1)), Rest(n(2), m(2)), Rest(n(3), m(3))) \in Registers
    BY <1>2, <2>1, JoinedWord
  <2> QED  BY <1>7, <2>2 DEF Simd16, Lanes16, n, m
<1>8. CASE op \in {"kSIMD_load16_upper", "kSIMD_load16_lower"}
  <2>1. b \in Nat /\ b =< Full - 1 /\ b % Data \in 0 .. Data - 1
    BY Halves, Sizes
  <2>2. b - (b % Data) \in Registers /\ b % Data \in Registers
    BY <2>1, Halves, Widths DEF Registers
  <2> QED  BY <1>8, <2>2 DEF Simd16
<1> QED  BY <1>3, <1>4, <1>5, <1>6, <1>7, <1>8 DEF Simd16Ops

Simd32Ops == {"kSIMD_add32", "kSIMD_sub32", "kSIMD_mul32", "kSIMD_div32", "kSIMD_rem32", "kSIMD_load32"}

LEMMA Simd32Word ==
  ASSUME NEW a \in Registers, NEW b \in Registers, NEW op \in Simd32Ops
  PROVE  \/ Simd32(op, a, b) \in Registers
         \/ op \in {"kSIMD_div32", "kSIMD_rem32"} /\ Simd32(op, a, b) = Trap
<1> DEFINE n == S32(a)
           m == S32(b)
           t == Upper32(a)
           u == Upper32(b)
<1>1. n \in Int /\ m \in Int /\ t \in Int /\ u \in Int /\ a \in Int
  BY Halves, SignedWords
<1> HIDE DEF n, m, t, u
<1>2. CASE op = "kSIMD_add32"
  <2>1. Plus(n, m) \in Int /\ Plus(t, u) \in Int
    BY <1>1 DEF Plus
  <2>2. Combined32(Plus(n, m), Plus(t, u)) \in Registers
    BY <2>1, CombinedWord
  <2> QED  BY <1>2, <2>2 DEF Simd32, Lanes32, n, m, t, u
<1>3. CASE op = "kSIMD_sub32"
  <2>1. Minus(n, m) \in Int /\ Minus(t, u) \in Int
    BY <1>1 DEF Minus
  <2>2. Combined32(Minus(n, m), Minus(t, u)) \in Registers
    BY <2>1, CombinedWord
  <2> QED  BY <1>3, <2>2 DEF Simd32, Lanes32, n, m, t, u
<1>4. CASE op = "kSIMD_mul32"
  <2>1. Times(n, m) \in Int /\ Times(t, u) \in Int
    BY <1>1 DEF Times
  <2>2. Combined32(Times(n, m), Times(t, u)) \in Registers
    BY <2>1, CombinedWord
  <2> QED  BY <1>4, <2>2 DEF Simd32, Lanes32, n, m, t, u
<1>5. CASE op = "kSIMD_div32"
  <2>1. Combined32(Over(n, m), Over(t, u)) \in Registers
    BY <1>1, OverInt, CombinedWord
  <2> QED  BY <1>5, <2>1 DEF Simd32, Lanes32, n, m, t, u
<1>6. CASE op = "kSIMD_rem32"
  <2>1. Combined32(Rest(n, m), Rest(t, u)) \in Registers
    BY <1>1, OverInt, CombinedWord
  <2> QED  BY <1>6, <2>1 DEF Simd32, Lanes32, n, m, t, u
<1>7. CASE op = "kSIMD_load32"
  <2>1. Combined32(m, a) \in Registers
    BY <1>1, CombinedWord
  <2> QED  BY <1>7, <2>1 DEF Simd32, m
<1> QED  BY <1>2, <1>3, <1>4, <1>5, <1>6, <1>7 DEF Simd32Ops

(* A bit that is flipped is one of the word.                               *)
LEMMA FlippedWord ==
  ASSUME NEW a \in Registers
  PROVE  Flips(a) \subseteq Registers
<1> SUFFICES ASSUME NEW i \in 0 .. 4 * DigitBits - 1
             PROVE  (IF (a \div Power(i)) % 2 = 0 THEN a + Power(i) ELSE a - Power(i)) \in Registers
  BY DEF Flips
<1> DEFINE p == Power(i)
           q == a \div p
           r == a % p
<1>1. p \in Nat \ {0} /\ \E n \in Nat : Full = p * (2 * n)
  BY Powers, Widths
<1>2. PICK n \in Nat : Full = p * (2 * n)
  BY <1>1
<1> HIDE DEF p
<1>3. a \in Nat /\ a < Full
  BY Sizes DEF Registers
<1>4. q \in Nat /\ r \in 0 .. p - 1 /\ a = p * q + r
  BY <1>1, <1>3
<1> HIDE DEF q, r
<1>5. CASE q % 2 = 0
  <2>1. PICK k \in Nat : q = 2 * k
    <3>1. q \div 2 \in Nat /\ q = 2 * (q \div 2)
      BY <1>4, <1>5
    <3> QED  BY <3>1
  <2>2. k < n
    <3>1. CASE n =< k
      <4>1. PICK j \in Nat : k = n + j
        <5>1. k - n \in Nat /\ k = n + (k - n)
          BY <3>1
        <5> QED  BY <5>1
      <4>2. p * q = p * (2 * n) + 2 * (p * j) /\ p * j \in Nat
        BY <1>1, <2>1, <4>1
      <4> QED  BY <1>2, <1>3, <1>4, <4>2, Sizes
    <3> QED  BY <3>1
  <2>3. PICK j \in Nat : n = k + 1 + j
    <3>1. n - k - 1 \in Nat /\ n = k + 1 + (n - k - 1)
      BY <2>2
    <3> QED  BY <3>1
  <2>4. Full = p * q + p + p + 2 * (p * j) /\ p * j \in Nat /\ p * q \in Nat
    BY <1>1, <1>2, <2>1, <2>3
  <2>5. a + p \in Nat /\ a + p < Full
    BY <1>1, <1>3, <1>4, <2>4, Sizes
  <2>6. a + p \in Registers
    BY <2>5, Sizes DEF Registers
  <2> QED  BY <1>5, <2>6 DEF p, q
<1>6. CASE q % 2 # 0
  <2>1. PICK k \in Nat : q = k + 1
    <3>1. q - 1 \in Nat /\ q = (q - 1) + 1
      BY <1>4, <1>6
    <3> QED  BY <3>1
  <2>2. p * q = p * k + p /\ p * k \in Nat
    BY <1>1, <2>1
  <2>3. a - p \in Nat /\ a - p < Full
    BY <1>1, <1>3, <1>4, <2>2, Sizes
  <2>4. a - p \in Registers
    BY <2>3, Sizes DEF Registers
  <2> QED  BY <1>6, <2>4 DEF p, q
<1> QED  BY <1>5, <1>6

(* Of the operations only these can fault: the test of kDiv, kDivw, kDivu, *)
(* kRemu and of the lanes of 16 bits leaves nothing to the host.           *)
CanFault == {"kRem", "kDivuw", "kRemw", "kRemuw", "kSIMD_div32", "kSIMD_rem32"}

LEMMA TrapIsNoWord == Trap \notin Registers
BY Sizes DEF Trap, Registers

THEOREM UnitReturnsWords ==
  ASSUME Systematic(Registers), NEW a \in Registers, NEW b \in Registers, NEW op
  PROVE  /\ execute(op, a, b) \subseteq Registers \cup {Trap}
         /\ op \notin CanFault => Trap \notin execute(op, a, b)
         /\ execute("kAddrAdd", a, b) = {(a + b) % Full}
<1> DEFINE Fine == execute(op, a, b) \subseteq Registers \cup {Trap} /\ (op \notin CanFault => Trap \notin execute(op, a, b))
<1>1. ASSUME op \in {"kAdd", "kSub", "kMul", "kDiv"} PROVE Fine
  <2>1. execute(op, a, b) = {Arithmetic(op, a, b)}
    BY <1>1 DEF execute
  <2> QED  BY <1>1, <2>1, ArithmeticWord, TrapIsNoWord
<1>2. ASSUME op \in WideOps PROVE Fine
  <2>1. execute(op, a, b) = {Wide(op, a, b)}
    BY <1>2 DEF execute, WideOps
  <2>2. op \notin CanFault => op # "kRem"
    BY DEF CanFault
  <2> QED  BY <1>2, <2>1, <2>2, WideWord, TrapIsNoWord
<1>3. ASSUME op \in WordOps PROVE Fine
  <2>1. execute(op, a, b) = {WordForm(op, a, b)}
    BY <1>3 DEF execute, WordOps
  <2>2. op \notin CanFault => op \notin {"kDivuw", "kRemw", "kRemuw"}
    BY DEF CanFault
  <2> QED  BY <1>3, <2>1, <2>2, WordFormWord, TrapIsNoWord
<1>4. ASSUME op \in Simd16Ops PROVE Fine
  <2>1. execute(op, a, b) = {Simd16(op, a, b)}
    BY <1>4 DEF execute, Simd16Ops
  <2> QED  BY <1>4, <2>1, Simd16Word, TrapIsNoWord
<1>5. ASSUME op \in Simd32Ops PROVE Fine
  <2>1. execute(op, a, b) = {Simd32(op, a, b)}
    BY <1>5 DEF execute, Simd32Ops
  <2>2. op \notin CanFault => op \notin {"kSIMD_div32", "kSIMD_rem32"}
    BY DEF CanFault
  <2> QED  BY <1>5, <2>1, <2>2, Simd32Word, TrapIsNoWord
<1>6. ASSUME op \in {"kInjectFlip", "kCheckError", "kSetSig"} PROVE Fine
  <2>1. execute(op, a, b) \subseteq {a, adaptive_check_error(a), set_significance(a, b)} \cup Flips(a)
    BY <1>6 DEF execute
  <2>2. adaptive_check_error(a) \in Registers /\ set_significance(a, b) \in Registers
    BY DEF Systematic
  <2>3. execute(op, a, b) \subseteq Registers
    BY <2>1, <2>2, FlippedWord
  <2> QED  BY <2>3, TrapIsNoWord
<1>7. ASSUME op \notin {"kAdd", "kSub", "kMul", "kDiv"} \cup WideOps \cup WordOps \cup Simd16Ops \cup Simd32Ops
                        \cup {"kInjectFlip", "kCheckError", "kSetSig"}
      PROVE  Fine
  <2>1. execute(op, a, b) = {0}
    BY <1>7 DEF execute, WideOps, WordOps, Simd16Ops, Simd32Ops
  <2>2. 0 \in Registers
    BY Sizes DEF Registers
  <2> QED  BY <2>1, <2>2, TrapIsNoWord
<1>8. execute("kAddrAdd", a, b) = {(a + b) % Full}
  BY DEF execute, Wide
<1> QED  BY <1>1, <1>2, <1>3, <1>4, <1>5, <1>6, <1>7, <1>8


----------------------------------------------------------------------------
(* The data of a result depends on the data of the operands.               *)

LEMMA Congruence ==
  ASSUME NEW x, NEW y, x \in Int, y \in Int
  PROVE  /\ (x + y) % Data = ((x % Data) + (y % Data)) % Data
         /\ (x - y) % Data = ((x % Data) - (y % Data)) % Data
         /\ (x * y) % Data = ((x % Data) * (y % Data)) % Data
<1> DEFINE u == x % Data
           v == y % Data
<1>0. Data \in Nat \ {0}
  BY Sizes
<1>1. PICK j \in Int, p \in Int : x = j * Data + p /\ p = u
  BY <1>0, Division
<1>2. PICK k \in Int, q \in Int : y = k * Data + q /\ q = v
  BY <1>0, Division
<1> HIDE DEF u, v
<1> DEFINE sum == j + k
           difference == j - k
           product == u * k + v * j + j * k * Data
<1>3. u \in Int /\ v \in Int
  BY <1>1, <1>2
<1>4. sum \in Int /\ difference \in Int /\ product \in Int
  BY <1>0, <1>3
<1>5. x = u + j * Data /\ y = v + k * Data
  BY <1>0, <1>1, <1>2
<1>6. x + y = (u + v) + sum * Data /\ x - y = (u - v) + difference * Data
  BY <1>0, <1>3, <1>5
<1>7. x * y = (u * v) + product * Data
  <2>1. (u + j * Data) * (v + k * Data) = u * v + u * (k * Data) + (j * Data) * v + (j * Data) * (k * Data)
    BY <1>0, <1>3
  <2>2. product * Data = u * (k * Data) + (j * Data) * v + (j * Data) * (k * Data)
    BY <1>0, <1>3
  <2>3. /\ u * v \in Int /\ u * (k * Data) \in Int /\ (j * Data) * v \in Int
        /\ (j * Data) * (k * Data) \in Int
    BY <1>0, <1>3
  <2> HIDE DEF product
  <2> QED  BY <1>4, <1>5, <2>1, <2>2, <2>3
<1> HIDE DEF sum, difference, product
<1>8. u + v \in Int /\ u - v \in Int /\ u * v \in Int
  BY <1>3
<1>9. /\ ((u + v) + sum * Data) % Data = (u + v) % Data
      /\ ((u - v) + difference * Data) % Data = (u - v) % Data
      /\ ((u * v) + product * Data) % Data = (u * v) % Data
  BY <1>0, <1>4, <1>8, SameRemainder, Zenon
<1> QED  BY <1>6, <1>7, <1>9 DEF u, v

LEMMA DataOfDivision ==
  ASSUME Systematic(Registers), NEW a \in Registers, NEW b \in Registers
  PROVE  Div(a, b) % Data = IF b % Data = 0 THEN Data - 1 ELSE Quotient(S32(a), S32(b)) % Data
<1> DEFINE n == S32(a)
           m == S32(b)
<1>1. a \in Int /\ b \in Int
  BY Halves
<1>2. n \in Int /\ m \in Int /\ n % Data = a % Data /\ m % Data = b % Data
  BY <1>1, SignedRange, Sizes DEF S32
<1>3. -Data =< 2 * m /\ 2 * m < Data
  BY <1>1, SignedRange, Sizes DEF S32
<1> HIDE DEF n, m
<1>4. (m = 0) = (b % Data = 0)
  <2>1. m % Data = 0 => m = 0
    BY <1>2, <1>3, Widths
  <2>2. m = 0 => m % Data = 0
    BY Widths
  <2> QED  BY <1>2, <2>1, <2>2
<1>5. CASE m = 0
  <2>1. Coded(-1, a, b) % Data = (-1) % Data
    BY CodedWord
  <2>2. (-1) % Data = Data - 1
    BY Widths
  <2>3. Div(a, b) = Coded(-1, a, b)
    BY <1>5 DEF Div, m
  <2> QED  BY <1>4, <1>5, <2>1, <2>2, <2>3
<1>6. CASE m # 0 /\ Overflows(n, m, Data)
  <2>1. Div(a, b) % Data = n % Data
    <3>1. Coded(a, a, b) % Data = a % Data
      BY <1>1, CodedWord
    <3>2. Div(a, b) = Coded(a, a, b)
      BY <1>6 DEF Div, n, m
    <3> QED  BY <1>2, <3>1, <3>2
  <2>2. 2 * n = -Data /\ m = -1
    BY <1>6 DEF Overflows
  <2>3. Quotient(n, m) = -n
    <3>1. n < 0 /\ m < 0
      BY <1>2, <2>2, Sizes
    <3>2. Magnitude(n) = -n /\ Magnitude(m) = -m
      BY <1>2, <3>1 DEF Magnitude
    <3>3. (-n) \div (-m) = -n
      BY <1>2, <2>2
    <3> QED  BY <3>1, <3>2, <3>3 DEF Quotient
  <2>4. (n + 1 * Data) % Data = n % Data
    <3>1. \A k \in Int : (n + k * Data) % Data = n % Data
      BY <1>2, Sizes, SameRemainder
    <3> QED  BY <3>1
  <2>5. -n = n + 1 * Data
    BY <1>2, <2>2, Sizes
  <2> QED  BY <1>4, <1>6, <2>1, <2>3, <2>4, <2>5 DEF n, m
<1>7. CASE m # 0 /\ ~Overflows(n, m, Data)
  <2>1. Quotient(n, m) \in Int
    BY <1>2, <1>7, QuotientInt
  <2>2. Coded(Quotient(n, m), a, b) % Data = Quotient(n, m) % Data
    BY <2>1, CodedWord
  <2>3. Div(a, b) = Coded(Quotient(n, m), a, b)
    BY <1>7 DEF Div, n, m
  <2> QED  BY <1>4, <1>7, <2>2, <2>3 DEF n, m
<1> QED  BY <1>5, <1>6, <1>7

LEMMA DataOfResults ==
  ASSUME Systematic(Registers), NEW a \in Registers, NEW b \in Registers
  PROVE  LET x == a % Data
             y == b % Data
         IN  /\ Arithmetic("kAdd", a, b) % Data = (x + y) % Data
             /\ Arithmetic("kSub", a, b) % Data = (x - y) % Data
             /\ Arithmetic("kMul", a, b) % Data = (x * y) % Data
             /\ Arithmetic("kDiv", a, b) % Data = IF y = 0 THEN Data - 1 ELSE Quotient(S32(x), S32(y)) % Data
             /\ Wide("kAnd", a, b) % Data = BitByBit("kAnd", x, y)
             /\ Wide("kOr", a, b) % Data = BitByBit("kOr", x, y)
             /\ Wide("kXor", a, b) % Data = BitByBit("kXor", x, y)
             /\ Wide("kSll", a, b) % Data = (x * Power(Shift(y))) % Data
<1> DEFINE x == a % Data
           y == b % Data
           n == S32(a)
           m == S32(b)
<1>1. a \in Int /\ b \in Int /\ x \in Int /\ y \in Int
  BY Halves
<1>2. n \in Int /\ m \in Int
  BY <1>1, SignedWords
<1>3. n % Data = x % Data /\ m % Data = y % Data /\ a % Data = x % Data
  <2>1. n % Data = x /\ m % Data = y
    BY <1>1, SignedRange, Sizes DEF S32
  <2>2. x % Data = x /\ y % Data = y
    <3>1. x \in 0 .. Data - 1 /\ y \in 0 .. Data - 1
      BY Halves
    <3> HIDE DEF x, y
    <3> QED  BY <3>1, Widths
  <2> QED  BY <2>1, <2>2
<1>4. S32(x) = n /\ S32(y) = m
  BY <1>1, SignedRange, Sizes DEF S32
<1> HIDE DEF n, m
<1>5. /\ Arithmetic("kAdd", a, b) = Coded(n + m, a, b) /\ Arithmetic("kSub", a, b) = Coded(n - m, a, b)
      /\ Arithmetic("kMul", a, b) = Coded(n * m, a, b) /\ Arithmetic("kDiv", a, b) = Div(a, b)
  BY DEF Arithmetic, n, m
<1>6. n + m \in Int /\ n - m \in Int /\ n * m \in Int
  BY <1>2
<1>7. /\ Coded(n + m, a, b) % Data = (n + m) % Data /\ Coded(n - m, a, b) % Data = (n - m) % Data
      /\ Coded(n * m, a, b) % Data = (n * m) % Data
  BY <1>6, CodedWord
<1>8. Div(a, b) % Data = IF y = 0 THEN Data - 1 ELSE Quotient(S32(x), S32(y)) % Data
  BY <1>4, DataOfDivision DEF n, m
<1>9. /\ (n + m) % Data = (x + y) % Data /\ (n - m) % Data = (x - y) % Data /\ (n * m) % Data = (x * y) % Data
  <2> HIDE DEF x, y
  <2>1. /\ (n + m) % Data = ((n % Data) + (m % Data)) % Data
        /\ (n - m) % Data = ((n % Data) - (m % Data)) % Data
        /\ (n * m) % Data = ((n % Data) * (m % Data)) % Data
    BY <1>2, Congruence
  <2>2. /\ (x + y) % Data = ((x % Data) + (y % Data)) % Data
        /\ (x - y) % Data = ((x % Data) - (y % Data)) % Data
        /\ (x * y) % Data = ((x % Data) * (y % Data)) % Data
    BY <1>1, Congruence
  <2> QED  BY <1>3, <2>1, <2>2
<1>10. /\ Wide("kAnd", a, b) % Data = BitByBit("kAnd", x, y)
       /\ Wide("kOr", a, b) % Data = BitByBit("kOr", x, y)
       /\ Wide("kXor", a, b) % Data = BitByBit("kXor", x, y)
  BY WordsOfBits DEF Wide
<1>11. Wide("kSll", a, b) % Data = (x * Power(Shift(y))) % Data
  <2> DEFINE p == Power(Shift(b))
             t == a * p
  <2>1. p \in Int /\ Shift(y) = Shift(b)
    BY <1>1, ShiftPower, ShiftOfData
  <2>2. Wide("kSll", a, b) = t % Full
    BY DEF Wide
  <2>3. t \in Int
    <3> HIDE DEF p
    <3> QED  BY <1>1, <2>1
  <2>4. (t % Full) % Data = t % Data
    <3> HIDE DEF t
    <3> QED  BY <2>3, Sizes, RemainderOfRemainder DEF Full
  <2>5. (a * p) % Data = (x * p) % Data
    <3> HIDE DEF p, x
    <3>1. (a * p) % Data = ((a % Data) * (p % Data)) % Data /\ (x * p) % Data = ((x % Data) * (p % Data)) % Data
      BY <1>1, <2>1, Congruence
    <3> QED  BY <1>3, <3>1
  <2> QED  BY <2>1, <2>2, <2>4, <2>5
<1> HIDE DEF x, y
<1>12. /\ Arithmetic("kAdd", a, b) % Data = (x + y) % Data
       /\ Arithmetic("kSub", a, b) % Data = (x - y) % Data
       /\ Arithmetic("kMul", a, b) % Data = (x * y) % Data
       /\ Arithmetic("kDiv", a, b) % Data = IF y = 0 THEN Data - 1 ELSE Quotient(S32(x), S32(y)) % Data
  BY <1>5, <1>7, <1>8, <1>9
<1> QED  BY <1>10, <1>11, <1>12 DEF x, y

(* Branches on equality look at the data of a difference.                  *)
LEMMA DataDifference ==
  ASSUME Systematic(Registers), NEW a \in Registers, NEW b \in Registers
  PROVE  (Arithmetic("kSub", a, b) % Data = 0) = (a % Data = b % Data)
<1>1. a % Data \in 0 .. Data - 1 /\ b % Data \in 0 .. Data - 1
  BY Halves
<1>2. Arithmetic("kSub", a, b) % Data = ((a % Data) - (b % Data)) % Data
  BY DataOfResults
<1>3. \A x, y \in 0 .. Data - 1 : ((x - y) % Data = 0) = (x = y)
  BY Widths
<1> QED  BY <1>1, <1>2, <1>3

----------------------------------------------------------------------------
(* A lane of a result depends on the same lanes of the operands.           *)

LEMMA LaneSigned ==
  ASSUME NEW a \in Registers, NEW k \in 0 .. 3
  PROVE  Lane16(a, k) = Signed(Lane(a, k), Half)
BY Digit, SignedRange, Sizes DEF Lane16, Lane

LEMMA LaneOfJoined ==
  ASSUME NEW l0 \in Int, NEW l1 \in Int, NEW l2 \in Int, NEW l3 \in Int
  PROVE  LET joined == Joined(l0, l1, l2, l3)
         IN  /\ Lane(joined, 0) = l0 % Half /\ Lane(joined, 1) = l1 % Half
             /\ Lane(joined, 2) = l2 % Half /\ Lane(joined, 3) = l3 % Half
<1> DEFINE n0 == l0 % Half
           n1 == l1 % Half
           n2 == l2 % Half
           n3 == l3 % Half
           joined == Joined(l0, l1, l2, l3)
<1>1. n0 \in 0 .. Half - 1 /\ n1 \in 0 .. Half - 1 /\ n2 \in 0 .. Half - 1 /\ n3 \in 0 .. Half - 1
  BY Sizes, Remainders
<1>2. joined = n0 + Half * (n1 + Half * (n2 + Half * n3))
  BY DEF Joined
<1>3. Place[1] = 1 /\ Place[3] = Half /\ Place[5] = Data /\ Place[7] = Half * Data
  BY DEF Place
<1>4. /\ Lane(joined, 0) = (joined \div 1) % Half /\ Lane(joined, 1) = (joined \div Half) % Half
      /\ Lane(joined, 2) = (joined \div Data) % Half /\ Lane(joined, 3) = (joined \div (Half * Data)) % Half
  BY <1>3 DEF Lane
<1> HIDE DEF n0, n1, n2, n3, joined
<1> DEFINE h2 == n2 + Half * n3
           h1 == n1 + Half * h2
<1>5. h2 \in Int /\ h1 \in Int
  BY <1>1, Sizes
<1>6. joined = n0 + Half * h1 /\ joined \in Int
  BY <1>1, <1>2, Sizes
<1>7. joined % Half = n0 /\ joined \div Half = h1
  <2> HIDE DEF h1, h2
  <2> QED  BY <1>1, <1>5, <1>6, Peel, Sizes
<1>8. h1 % Half = n1
  <2> HIDE DEF h2
  <2> QED  BY <1>1, <1>5, Peel, Sizes
<1>9. h2 % Half = n2
  BY <1>1, Peel, Sizes
<1>10. joined \div Data = h2
  <2> DEFINE low == n0 + Half * n1
  <2>1. low \in 0 .. Half * Half - 1
    BY <1>1, Digits, Sizes
  <2>2. joined = low + (Half * Half) * h2
    <3>1. Half * (n1 + Half * h2) = Half * n1 + (Half * Half) * h2 /\ Half * n1 \in Int /\ (Half * Half) * h2 \in Int
      BY <1>1, <1>5, Sizes
    <3> HIDE DEF h2
    <3> QED  BY <1>1, <1>6, <3>1
  <2> HIDE DEF low, h2
  <2>3. joined = low + Data * h2 /\ low \in 0 .. Data - 1
    BY <2>1, <2>2 DEF Data
  <2> QED  BY <1>5, <2>3, Peel, Sizes
<1>11. joined \div (Half * Data) = n3
  <2> DEFINE low == n0 + Half * (n1 + Half * n2)
  <2>1. low \in 0 .. Half * (Half * Half) - 1
    <3>1. n1 + Half * n2 \in 0 .. Half * Half - 1
      BY <1>1, Digits, Sizes
    <3>2. Half * Half \in Nat \ {0}
      BY Sizes DEF Data
    <3> QED  BY <1>1, <3>1, <3>2, Digits, Sizes
  <2>2. joined = low + (Half * Data) * n3
    BY <1>1, <1>2, Widths
  <2>3. Half * Data \in Nat \ {0} /\ Half * (Half * Half) = Half * Data
    BY Widths
  <2> HIDE DEF low
  <2> QED  BY <1>1, <2>1, <2>2, <2>3, Peel
<1>12. (joined \div 1) = joined
  BY <1>6
<1>13. n3 % Half = n3
  BY <1>1, Sizes
<1> HIDE DEF h1, h2
<1>14. /\ Lane(joined, 0) = n0 /\ Lane(joined, 1) = n1 /\ Lane(joined, 2) = n2 /\ Lane(joined, 3) = n3
  BY <1>4, <1>7, <1>8, <1>9, <1>10, <1>11, <1>12, <1>13
<1> QED  BY <1>14 DEF joined, n0, n1, n2, n3

LEMMA LanesOfResults ==
  ASSUME NEW a \in Registers, NEW b \in Registers, NEW k \in 0 .. 3
  PROVE  LET n == Signed(Lane(a, k), Half)
             m == Signed(Lane(b, k), Half)
         IN  /\ Lane(Simd16("kSIMD_add16", a, b), k) = Plus(n, m) % Half
             /\ Lane(Simd16("kSIMD_sub16", a, b), k) = Minus(n, m) % Half
             /\ Lane(Simd16("kSIMD_mul16", a, b), k) = Times(n, m) % Half
             /\ Lane(Simd16("kSIMD_div16", a, b), k) = Over(n, m) % Half
             /\ Lane(Simd16("kSIMD_rem16", a, b), k) = Rest(n, m) % Half
<1> DEFINE x(i) == Lane16(a, i)
           y(i) == Lane16(b, i)
<1>1. \A i \in 0 .. 3 : x(i) \in Int /\ y(i) \in Int
  BY LaneInt
<1>2. 0 \in 0 .. 3 /\ 1 \in 0 .. 3 /\ 2 \in 0 .. 3 /\ 3 \in 0 .. 3 /\ (k = 0 \/ k = 1 \/ k = 2 \/ k = 3)
  OBVIOUS
<1>3. x(k) = Signed(Lane(a, k), Half) /\ y(k) = Signed(Lane(b, k), Half)
  BY LaneSigned
<1> HIDE DEF x, y
<1>4. Lane(Simd16("kSIMD_add16", a, b), k) = Plus(x(k), y(k)) % Half
  <2>1. \A i \in 0 .. 3 : Plus(x(i), y(i)) \in Int
    BY <1>1 DEF Plus
  <2>2. Simd16("kSIMD_add16", a, b) = Joined(Plus(x(0), y(0)), Plus(x(1), y(1)), Plus(x(2), y(2)), Plus(x(3), y(3)))
    BY DEF Simd16, Lanes16, x, y
  <2> QED  BY <1>2, <2>1, <2>2, LaneOfJoined
<1>5. Lane(Simd16("kSIMD_sub16", a, b), k) = Minus(x(k), y(k)) % Half
  <2>1. \A i \in 0 .. 3 : Minus(x(i), y(i)) \in Int
    BY <1>1 DEF Minus
  <2>2. Simd16("kSIMD_sub16", a, b) = Joined(Minus(x(0), y(0)), Minus(x(1), y(1)), Minus(x(2), y(2)), Minus(x(3), y(3)))
    BY DEF Simd16, Lanes16, x, y
  <2> QED  BY <1>2, <2>1, <2>2, LaneOfJoined
<1>6. Lane(Simd16("kSIMD_mul16", a, b), k) = Times(x(k), y(k)) % Half
  <2>1. \A i \in 0 .. 3 : Times(x(i), y(i)) \in Int
    BY <1>1 DEF Times
  <2>2. Simd16("kSIMD_mul16", a, b) = Joined(Times(x(0), y(0)), Times(x(1), y(1)), Times(x(2), y(2)), Times(x(3), y(3)))
    BY DEF Simd16, Lanes16, x, y
  <2> QED  BY <1>2, <2>1, <2>2, LaneOfJoined
<1>7. Lane(Simd16("kSIMD_div16", a, b), k) = Over(x(k), y(k)) % Half
  <2>1. \A i \in 0 .. 3 : Over(x(i), y(i)) \in Int
    BY <1>1, OverInt
  <2>2. Simd16("kSIMD_div16", a, b) = Joined(Over(x(0), y(0)), Over(x(1), y(1)), Over(x(2), y(2)), Over(x(3), y(3)))
    BY DEF Simd16, Lanes16, x, y
  <2> QED  BY <1>2, <2>1, <2>2, LaneOfJoined
<1>8. Lane(Simd16("kSIMD_rem16", a, b), k) = Rest(x(k), y(k)) % Half
  <2>1. \A i \in 0 .. 3 : Rest(x(i), y(i)) \in Int
    BY <1>1, OverInt
  <2>2. Simd16("kSIMD_rem16", a, b) = Joined(Rest(x(0), y(0)), Rest(x(1), y(1)), Rest(x(2), y(2)), Rest(x(3), y(3)))
    BY DEF Simd16, Lanes16, x, y
  <2> QED  BY <1>2, <2>1, <2>2, LaneOfJoined
<1> QED  BY <1>3, <1>4, <1>5, <1>6, <1>7, <1>8


----------------------------------------------------------------------------
(* What the floating-point units return, if the host yields words.  Moves  *)
(* come to the unit of their width and lanes are put together by their own. *)

Suits(unit, op) ==
  CASE unit = "float"    -> op \notin {"FMV_X_D", "FMV_D_X", "SIMDF_LD32"}
    [] unit = "double"   -> op \notin {"FMV_X_W", "FMV_W_X", "SIMDF_LD32"}
    [] unit = "bfloat16" -> op \notin Uncomputed
    [] unit = "simdf32"  -> op = "SIMDF_LD32" \/ op \notin Uncomputed

LEMMA HostModeType ==
  ASSUME NEW rm, NEW host \in 0 .. 3
  PROVE  HostMode(rm, host) \in HostModes /\ HostMode(rm, host) \in 0 .. 3
BY DEF HostMode, HostModes, ToNearest, Upward

LEMMA InjectedWord ==
  ASSUME NEW op \in SignOps, NEW v \in {Data, Full}, NEW n, NEW m, n \in 0 .. v - 1, m \in 0 .. v - 1
  PROVE  Injected(op, n, m, v) \in 0 .. v - 1
<1> DEFINE h == v \div 2
<1>1. v \in Nat \ {0} /\ h \in Nat \ {0} /\ v = 2 * h
  BY Widths
<1> HIDE DEF h
<1>2. \A x \in 0 .. v - 1 : SignOf(x, v) \in 0 .. 1
  <2> SUFFICES ASSUME NEW x \in 0 .. v - 1 PROVE (2 * x) \div v \in 0 .. 1
    BY DEF SignOf
  <2> QED  BY Widths
<1>3. \A s \in 0 .. 1 : WithSign(n, v, s) \in 0 .. v - 1
  <2> SUFFICES ASSUME NEW s \in 0 .. 1 PROVE WithSign(n, v, s) \in 0 .. v - 1
    OBVIOUS
  <2>1. n % h \in 0 .. h - 1 /\ (s = 0 \/ s = 1)
    BY <1>1
  <2>2. (n % h) + s * h \in 0 .. v - 1
    BY <1>1, <2>1
  <2> QED  BY <2>2 DEF WithSign, h
<1>4. /\ SignOf(m, v) \in 0 .. 1 /\ 1 - SignOf(m, v) \in 0 .. 1
      /\ (SignOf(n, v) + SignOf(m, v)) % 2 \in 0 .. 1
  <2>1. SignOf(m, v) \in 0 .. 1 /\ SignOf(n, v) \in 0 .. 1
    BY <1>2
  <2> QED  BY <2>1
<1> QED  BY <1>3, <1>4 DEF Injected, SignOps

LEMMA FloatWords ==
  ASSUME NEW op, NEW a \in Registers, NEW b \in Registers, NEW mode \in HostModes, HostFor({op}, Registers)
  PROVE  /\ Suits("float", op) => fpexecute(op, a, b, mode) \in Registers
         /\ Suits("double", op) => dfpexecute(op, a, b, mode) \in Registers
<1> DEFINE x == a % Data
           y == b % Data
<1>1. x \in 0 .. Data - 1 /\ y \in 0 .. Data - 1 /\ x \in Registers /\ y \in Registers
  BY Halves
<1>2. 0 \in Registers /\ 1 \in Registers
  BY Sizes DEF Registers
<1>3. a \in Int /\ b \in Int
  BY Halves
<1>4. (a + b) % Full \in Registers /\ Extended(a) \in Registers
  BY <1>3, RegisterOf, SignedWords
<1>5. op \notin Uncomputed =>
        /\ Rounded(op, a, b, 0, mode) \in Registers /\ Rounded(op, x, b, 0, mode) \in Registers
        /\ Rounded(op, x, y, 0, mode) \in Registers
  BY <1>1, <1>2 DEF HostFor
<1>6. \A r \in Registers : r % Data \in Registers
  BY Halves
<1>7. op \in SignOps => Injected(op, x, y, Data) \in Registers /\ Injected(op, a, b, Full) \in Registers
  <2> SUFFICES ASSUME op \in SignOps
               PROVE  Injected(op, x, y, Data) \in Registers /\ Injected(op, a, b, Full) \in Registers
    OBVIOUS
  <2>1. Injected(op, x, y, Data) \in 0 .. Data - 1
    BY <1>1, InjectedWord
  <2>2. Injected(op, a, b, Full) \in 0 .. Full - 1
    BY InjectedWord DEF Registers
  <2> QED  BY <2>1, <2>2, Smaller DEF Registers
<1> HIDE DEF x, y
<1>8. Suits("float", op) => fpexecute(op, a, b, mode) \in Registers
  <2> SUFFICES ASSUME op \notin {"FMV_X_D", "FMV_D_X", "SIMDF_LD32"}
               PROVE  fpexecute(op, a, b, mode) \in Registers
    BY DEF Suits
  <2>1. CASE op \in Unknown \cup {"kAdd", "FMV_X_W", "FMV_W_X"} \cup Compares \cup SignOps
    <3>1. op \in SignOps => fpexecute(op, a, b, mode) = Injected(op, x, y, Data)
      BY DEF fpexecute, x, y, Unknown, Compares, SignOps, FromWord, ToWord
    <3>2. op \in Compares => fpexecute(op, a, b, mode) \in {0, 1}
      BY DEF fpexecute, Unknown, Compares, SignOps, FromWord, ToWord
    <3>3. op \in Unknown \cup {"kAdd", "FMV_X_W", "FMV_W_X"} =>
            fpexecute(op, a, b, mode) \in {0, (a + b) % Full, Extended(a), x}
      BY DEF fpexecute, x, Unknown, Compares, SignOps, FromWord, ToWord
    <3> QED  BY <1>1, <1>2, <1>4, <1>7, <2>1, <3>1, <3>2, <3>3
  <2>2. CASE op \notin Unknown \cup {"kAdd", "FMV_X_W", "FMV_W_X"} \cup Compares \cup SignOps
    <3>1. op \notin Uncomputed
      BY <2>2 DEF Uncomputed, Moves
    <3>2. fpexecute(op, a, b, mode) \in {Rounded(op, a, b, 0, mode) % Data, Rounded(op, x, b, 0, mode),
                                         Rounded(op, x, y, 0, mode) % Data}
      BY <2>2 DEF fpexecute, x, y
    <3> QED  BY <1>5, <1>6, <3>1, <3>2
  <2> QED  BY <2>1, <2>2
<1>9. Suits("double", op) => dfpexecute(op, a, b, mode) \in Registers
  <2> SUFFICES ASSUME op \notin {"FMV_X_W", "FMV_W_X", "SIMDF_LD32"}
               PROVE  dfpexecute(op, a, b, mode) \in Registers
    BY DEF Suits
  <2>1. CASE op \in Unknown \cup {"kAdd", "FMV_X_D", "FMV_D_X"} \cup Compares \cup SignOps
    <3>1. \/ dfpexecute(op, a, b, mode) \in {0, 1, (a + b) % Full, a}
          \/ op \in SignOps /\ dfpexecute(op, a, b, mode) = Injected(op, a, b, Full)
      BY <2>1 DEF dfpexecute, Unknown, Compares, SignOps
    <3> QED  BY <1>2, <1>4, <1>7, <3>1
  <2>2. CASE op \notin Unknown \cup {"kAdd", "FMV_X_D", "FMV_D_X"} \cup Compares \cup SignOps
    <3>1. op \notin Uncomputed
      BY <2>2 DEF Uncomputed, Moves
    <3>2. dfpexecute(op, a, b, mode) = Rounded(op, a, b, 0, mode)
      BY <2>2 DEF dfpexecute
    <3> QED  BY <1>5, <3>1, <3>2
  <2> QED  BY <2>1, <2>2
<1> QED  BY <1>8, <1>9

LEMMA LaneWords ==
  ASSUME NEW op, NEW a \in Registers, NEW b \in Registers, NEW c \in Registers, NEW mode \in HostModes,
         HostFor({op}, Registers)
  PROVE  /\ Suits("bfloat16", op) => bf16execute(op, a, b, c, mode) \in Registers
         /\ Suits("simdf32", op) => simdf32execute(op, a, b, mode) \in Registers
<1>1. /\ a % Data \in Registers /\ a \div Data \in Registers /\ b % Data \in Registers
      /\ b \div Data \in Registers /\ c % Data \in Registers
      /\ a % Data \in 0 .. Data - 1 /\ b % Data \in 0 .. Data - 1
  BY Halves
<1>2. 0 \in Registers
  BY Sizes DEF Registers
<1>3. \A r \in Registers : r % Data \in 0 .. Data - 1 /\ r % Data \in Registers
  BY Halves
<1>4. \A x, y \in 0 .. Data - 1 : x + Data * y \in Registers
  BY Digits, Sizes DEF Registers, Full
<1>5. Suits("bfloat16", op) => bf16execute(op, a, b, c, mode) \in Registers
  <2> SUFFICES ASSUME op \notin Uncomputed PROVE bf16execute(op, a, b, c, mode) \in Registers
    BY DEF Suits
  <2>1. CASE op = "VDOTP_BF16"
    <3>1. Rounded(op, a, b, c % Data, mode) \in Registers
      BY <1>1 DEF HostFor
    <3> QED  BY <1>3, <2>1, <3>1 DEF bf16execute
  <2>2. CASE op # "VDOTP_BF16"
    <3>1. \A k \in 0 .. 3 : Lane(a, k) \in 0 .. Half - 1 /\ Lane(b, k) \in 0 .. Half - 1
      BY Digit, Remainders, Sizes DEF Lane
    <3> DEFINE of(k) == Rounded(op, Lane(a, k), Lane(b, k), 0, mode)
    <3>2. \A k \in 0 .. 3 : of(k) \in Registers
      BY <1>2, <3>1, Smaller DEF HostFor
    <3>3. bf16execute(op, a, b, c, mode) =
            (of(0) % Half) + Half * ((of(1) % Half) + Half * ((of(2) % Half) + Half * (of(3) % Half)))
      BY <2>2 DEF bf16execute
    <3> HIDE DEF of
    <3>4. of(0) \in Int /\ of(1) \in Int /\ of(2) \in Int /\ of(3) \in Int
      <4>1. \A r \in Registers : r \in Int
        BY Halves
      <4>2. 0 \in 0 .. 3 /\ 1 \in 0 .. 3 /\ 2 \in 0 .. 3 /\ 3 \in 0 .. 3
        OBVIOUS
      <4> QED  BY <3>2, <4>1, <4>2
    <3>5. Joined(of(0), of(1), of(2), of(3)) \in Registers
      BY <3>4, JoinedWord
    <3> QED  BY <3>3, <3>5 DEF Joined
  <2> QED  BY <2>1, <2>2
<1>6. Suits("simdf32", op) => simdf32execute(op, a, b, mode) \in Registers
  <2>1. CASE op = "SIMDF_LD32"
    BY <1>1, <1>4, <2>1 DEF simdf32execute
  <2>2. CASE op # "SIMDF_LD32"
    <3> SUFFICES ASSUME op \notin Uncomputed PROVE simdf32execute(op, a, b, mode) \in Registers
      BY <2>2 DEF Suits
    <3>1. /\ Rounded(op, a % Data, b % Data, 0, mode) \in Registers
          /\ Rounded(op, a \div Data, b \div Data, 0, mode) \in Registers
      BY <1>1, <1>2 DEF HostFor
    <3> QED  BY <1>3, <1>4, <2>2, <3>1 DEF simdf32execute
  <2> QED  BY <2>1, <2>2
<1> QED  BY <1>5, <1>6

FloatUnits == {"float", "double", "bfloat16", "simdf32"}

(* A word, flags and a mode are returned; a sum is one; only VDOTP_BF16    *)
(* looks at a third operand, and the unary operations at no second one.    *)
THEOREM FloatUnitReturnsWords ==
  ASSUME NEW unit \in FloatUnits, NEW op, Suits(unit, op), HostFor({op}, Registers),
         NEW a \in Registers, NEW b \in Registers, NEW c \in Registers, NEW rm, NEW host \in 0 .. 3
  PROVE  LET f == FloatOutcome(unit, op, a, b, c, rm, host)
         IN  /\ f.value \in Registers /\ f.flags \in Registers /\ f.host \in 0 .. 3
             /\ op = "kAdd" => f.value = (a + b) % Full
             /\ op # "VDOTP_BF16" => f = FloatOutcome(unit, op, a, b, 0, rm, host)
             /\ op \in Unary \cup Unknown => f = FloatOutcome(unit, op, a, 0, c, rm, host)
<1> DEFINE mode   == HostMode(rm, host)
           second(d) == IF op \in Unary THEN 0 ELSE d
           values == IF unit = "float" THEN Data ELSE Full
           kept(d) == KeepsMode(unit, op, a % values, second(d) % values)
           value(d, e) == CASE unit = "float"    -> fpexecute(op, a, second(d), mode)
                            [] unit = "double"   -> dfpexecute(op, a, second(d), mode)
                            [] unit = "bfloat16" -> bf16execute(op, a, second(d), e, mode)
                            [] unit = "simdf32"  -> simdf32execute(op, a, second(d), mode)
           flags(d) == IF kept(d) \/ op \in Unknown THEN 0 ELSE Flags(op, a, second(d), mode)
           left(d)  == IF kept(d) THEN mode ELSE host
<1>1. \A d, e : FloatOutcome(unit, op, a, d, e, rm, host) = [value |-> value(d, e), flags |-> flags(d), host |-> left(d)]
  BY DEF FloatOutcome
<1>2. mode \in HostModes /\ mode \in 0 .. 3
  BY HostModeType
<1>3. 0 \in Registers /\ second(b) \in Registers
  BY Sizes DEF Registers
<1>4. value(b, c) \in Registers
  <2> HIDE DEF mode, second
  <2>1. CASE unit = "float"
    BY <1>2, <1>3, <2>1, FloatWords
  <2>2. CASE unit = "double"
    BY <1>2, <1>3, <2>2, FloatWords
  <2>3. CASE unit = "bfloat16"
    BY <1>2, <1>3, <2>3, LaneWords
  <2>4. CASE unit = "simdf32"
    BY <1>2, <1>3, <2>4, LaneWords
  <2> QED  BY <2>1, <2>2, <2>3, <2>4 DEF FloatUnits
<1>5. flags(b) \in Registers /\ left(b) \in 0 .. 3
  <2>1. Flags(op, a, second(b), mode) \in Registers
    BY <1>2, <1>3 DEF HostFor
  <2> QED  BY <1>2, <1>3, <2>1
<1>6. op = "kAdd" => value(b, c) = (a + b) % Full
  <2> SUFFICES ASSUME op = "kAdd" PROVE value(b, c) = (a + b) % Full
    OBVIOUS
  <2>0. op = "kAdd"
    OBVIOUS
  <2>1. op \notin Unary /\ op \notin Unknown /\ op \in Uncomputed
    BY DEF Unary, FromWord, ToWord, Moves, Unknown, Uncomputed
  <2>2. unit \in {"float", "double"}
    BY <2>1 DEF Suits, FloatUnits
  <2> HIDE DEF mode
  <2>3. fpexecute(op, a, b, mode) = (a + b) % Full
    BY <2>0 DEF fpexecute, Unknown, Compares, SignOps, FromWord, ToWord
  <2>4. dfpexecute(op, a, b, mode) = (a + b) % Full
    BY <2>0 DEF dfpexecute, Unknown, Compares, SignOps
  <2> QED  BY <2>1, <2>2, <2>3, <2>4
<1>7. op # "VDOTP_BF16" => value(b, c) = value(b, 0)
  BY DEF bf16execute
<1>8. ASSUME op \in Unknown PROVE value(b, c) = value(0, c) /\ flags(b) = flags(0) /\ left(b) = left(0)
  <2>1. op \in Uncomputed /\ op # "kAdd" /\ op # "FMV_X_W" /\ op # "FMV_D_X" /\ op \notin Compares /\ op # "SIMDF_LD32"
    BY <1>8 DEF Unknown, Uncomputed, Compares
  <2>2. unit \in {"float", "double"}
    BY <2>1 DEF Suits, FloatUnits
  <2>3. ASSUME NEW d PROVE fpexecute(op, a, d, mode) = 0 /\ dfpexecute(op, a, d, mode) = 0
    <3> HIDE DEF mode
    <3>1. fpexecute(op, a, d, mode) = 0
      BY <1>8 DEF fpexecute, Unknown, Compares, SignOps, FromWord, ToWord
    <3>2. dfpexecute(op, a, d, mode) = 0
      BY <1>8 DEF dfpexecute, Unknown, Compares, SignOps
    <3> QED  BY <3>1, <3>2
  <2>4. \A d, e : ~KeepsMode(unit, op, d, e)
    BY <2>1 DEF KeepsMode
  <2> QED  BY <1>8, <2>2, <2>3, <2>4
<1>9. op \in Unary => second(b) = second(0)
  OBVIOUS
<1> HIDE DEF mode, second, values
<1>10. op \in Unary => value(b, c) = value(0, c) /\ flags(b) = flags(0) /\ left(b) = left(0)
  BY <1>9
<1> HIDE DEF kept, value, flags, left
<1> DEFINE f == FloatOutcome(unit, op, a, b, c, rm, host)
<1>11. f.value = value(b, c) /\ f.flags = flags(b) /\ f.host = left(b)
  BY <1>1
<1>12. op # "VDOTP_BF16" => f = FloatOutcome(unit, op, a, b, 0, rm, host)
  BY <1>1, <1>7
<1>13. op \in Unary \cup Unknown => f = FloatOutcome(unit, op, a, 0, c, rm, host)
  BY <1>1, <1>8, <1>10
<1> QED  BY <1>4, <1>5, <1>6, <1>11, <1>12, <1>13

=============================================================================
