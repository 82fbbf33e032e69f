------------------------------ MODULE WireLemmas ------------------------------
(***************************************************************************)
(* What the operators of CmuxWire compute, for every byte: exclusive or    *)
(* bit by bit, the table of build_table() as eight shifts, and the check   *)
(* as a linear function of the octets it covers.                           *)
(***************************************************************************)
EXTENDS CmuxWire, Integers, TLAPS

-----------------------------------------------------------------------------
(* A byte is its bits.                                                     *)

Binary(b) ==
  b[0] + 2 * b[1] + 4 * b[2] + 8 * b[3] + 16 * b[4] + 32 * b[5] + 64 * b[6] + 128 * b[7]
Bits(x) == [i \in 0 .. 7 |-> Bit(x, i)]
Octets == [0 .. 7 -> 0 .. 1]

LEMMA BitsAre ==
  ASSUME NEW b0 \in 0 .. 1, NEW b1 \in 0 .. 1, NEW b2 \in 0 .. 1, NEW b3 \in 0 .. 1,
         NEW b4 \in 0 .. 1, NEW b5 \in 0 .. 1, NEW b6 \in 0 .. 1, NEW b7 \in 0 .. 1,
         NEW x, x = b0 + 2 * b1 + 4 * b2 + 8 * b3 + 16 * b4 + 32 * b5 + 64 * b6 + 128 * b7
  PROVE  /\ x \in Byte
         /\ Bit(x, 0) = b0 /\ Bit(x, 1) = b1 /\ Bit(x, 2) = b2 /\ Bit(x, 3) = b3
         /\ Bit(x, 4) = b4 /\ Bit(x, 5) = b5 /\ Bit(x, 6) = b6 /\ Bit(x, 7) = b7
<1>1. /\ 2^0 = 1 /\ 2^1 = 2 /\ 2^2 = 4 /\ 2^3 = 8
      /\ 2^4 = 16 /\ 2^5 = 32 /\ 2^6 = 64 /\ 2^7 = 128
  OBVIOUS
<1>2. x \in Byte
  BY DEF Byte
<1>3. (x \div 1) % 2 = b0 /\ (x \div 2) % 2 = b1 /\ (x \div 4) % 2 = b2 /\ (x \div 8) % 2 = b3
  BY SMTT(30)
<1>4. /\ (x \div 16) % 2 = b4 /\ (x \div 32) % 2 = b5
      /\ (x \div 64) % 2 = b6 /\ (x \div 128) % 2 = b7
  BY SMTT(30)
<1>5. Bit(x, 0) = b0 /\ Bit(x, 1) = b1 /\ Bit(x, 2) = b2 /\ Bit(x, 3) = b3
  BY <1>1, <1>3, Zenon DEF Bit
<1>6. Bit(x, 4) = b4 /\ Bit(x, 5) = b5 /\ Bit(x, 6) = b6 /\ Bit(x, 7) = b7
  BY <1>1, <1>4, Zenon DEF Bit
<1>7. QED
  BY <1>2, <1>5, <1>6, Zenon

LEMMA HasBits ==
  ASSUME NEW x \in Byte
  PROVE  \E b0, b1, b2, b3, b4, b5, b6, b7 \in 0 .. 1 :
           x = b0 + 2 * b1 + 4 * b2 + 8 * b3 + 16 * b4 + 32 * b5 + 64 * b6 + 128 * b7
<1>1. /\ x % 2 \in 0 .. 1 /\ (x \div 2) % 2 \in 0 .. 1 /\ (x \div 4) % 2 \in 0 .. 1
      /\ (x \div 8) % 2 \in 0 .. 1 /\ (x \div 16) % 2 \in 0 .. 1 /\ (x \div 32) % 2 \in 0 .. 1
      /\ (x \div 64) % 2 \in 0 .. 1 /\ (x \div 128) % 2 \in 0 .. 1
  BY DEF Byte
<1>2. x = (x % 2) + 2 * ((x \div 2) % 2) + 4 * ((x \div 4) % 2) + 8 * ((x \div 8) % 2)
          + 16 * ((x \div 16) % 2) + 32 * ((x \div 32) % 2) + 64 * ((x \div 64) % 2)
          + 128 * ((x \div 128) % 2)
  BY SMTT(30) DEF Byte
<1> DEFINE b0 == x % 2  b1 == (x \div 2) % 2  b2 == (x \div 4) % 2  b3 == (x \div 8) % 2
           b4 == (x \div 16) % 2  b5 == (x \div 32) % 2  b6 == (x \div 64) % 2
           b7 == (x \div 128) % 2
<1>3. /\ b0 \in 0 .. 1 /\ b1 \in 0 .. 1 /\ b2 \in 0 .. 1 /\ b3 \in 0 .. 1
      /\ b4 \in 0 .. 1 /\ b5 \in 0 .. 1 /\ b6 \in 0 .. 1 /\ b7 \in 0 .. 1
      /\ x = b0 + 2 * b1 + 4 * b2 + 8 * b3 + 16 * b4 + 32 * b5 + 64 * b6 + 128 * b7
  BY <1>1, <1>2, Zenon
<1> HIDE DEF b0, b1, b2, b3, b4, b5, b6, b7
<1>4. QED
  BY <1>3

LEMMA Places ==
  \A i \in 0 .. 7 : i = 0 \/ i = 1 \/ i = 2 \/ i = 3 \/ i = 4 \/ i = 5 \/ i = 6 \/ i = 7
  OBVIOUS

LEMMA ByteOfBits ==
  ASSUME NEW x \in Byte
  PROVE  Bits(x) \in Octets /\ x = Binary(Bits(x))
<1>1. PICK b0, b1, b2, b3, b4, b5, b6, b7 \in 0 .. 1 :
             x = b0 + 2 * b1 + 4 * b2 + 8 * b3 + 16 * b4 + 32 * b5 + 64 * b6 + 128 * b7
  BY HasBits
<1>2. /\ Bit(x, 0) = b0 /\ Bit(x, 1) = b1 /\ Bit(x, 2) = b2 /\ Bit(x, 3) = b3
      /\ Bit(x, 4) = b4 /\ Bit(x, 5) = b5 /\ Bit(x, 6) = b6 /\ Bit(x, 7) = b7
  BY <1>1, BitsAre
<1>3. \A i \in 0 .. 7 : Bit(x, i) \in 0 .. 1
  BY <1>2
<1>4. QED
  BY <1>1, <1>2, <1>3 DEF Bits, Binary, Octets

LEMMA BitsOfByte ==
  ASSUME NEW b \in Octets
  PROVE  Binary(b) \in Byte /\ \A i \in 0 .. 7 : Bit(Binary(b), i) = b[i]
<1> DEFINE x == Binary(b)
<1>1. /\ b[0] \in 0 .. 1 /\ b[1] \in 0 .. 1 /\ b[2] \in 0 .. 1 /\ b[3] \in 0 .. 1
      /\ b[4] \in 0 .. 1 /\ b[5] \in 0 .. 1 /\ b[6] \in 0 .. 1 /\ b[7] \in 0 .. 1
  BY DEF Octets
<1>2. x = b[0] + 2 * b[1] + 4 * b[2] + 8 * b[3] + 16 * b[4] + 32 * b[5] + 64 * b[6] + 128 * b[7]
  BY DEF Binary
<1> HIDE DEF x
<1>3. /\ x \in Byte
      /\ Bit(x, 0) = b[0] /\ Bit(x, 1) = b[1] /\ Bit(x, 2) = b[2] /\ Bit(x, 3) = b[3]
      /\ Bit(x, 4) = b[4] /\ Bit(x, 5) = b[5] /\ Bit(x, 6) = b[6] /\ Bit(x, 7) = b[7]
  BY <1>1, <1>2, BitsAre
<1>4. QED
  BY <1>3 DEF x

\* Two bytes with the same bits are the same.
LEMMA SameBits ==
  ASSUME NEW x \in Byte, NEW y \in Byte, \A i \in 0 .. 7 : Bit(x, i) = Bit(y, i)
  PROVE  x = y
<1>1. Bits(x) = Bits(y)
  BY DEF Bits
<1>2. QED
  BY <1>1, ByteOfBits

-----------------------------------------------------------------------------
(* A function defined by recursion on 0 .. N exists.                       *)

Follows(f, N, e, F) == f = [k \in 0 .. N |-> IF k = 0 THEN e ELSE F[k][f[k - 1]]]

LEMMA Recursion ==
  ASSUME NEW T, NEW e \in T, NEW N \in 0 .. 24, NEW F \in [1 .. N -> [T -> T]]
  PROVE  \E f \in [0 .. N -> T] : Follows(f, N, e, F)
<1> DEFINE S == {n \in 0 .. N : \E f \in [0 .. n -> T] : Follows(f, n, e, F)}
<1>1. 0 \in S
  <2> DEFINE f == [k \in 0 .. 0 |-> e]
  <2>1. f \in [0 .. 0 -> T] /\ Follows(f, 0, e, F)
    BY DEF Follows
  <2>2. QED
    BY <2>1
<1>2. ASSUME NEW n \in S, n < N PROVE n + 1 \in S
  <2>1. PICK f \in [0 .. n -> T] : Follows(f, n, e, F)
    OBVIOUS
  <2> DEFINE m == n + 1
             g == [k \in 0 .. m |-> IF k = m THEN F[m][f[n]] ELSE f[k]]
             h == [k \in 0 .. m |-> IF k = 0 THEN e ELSE F[k][g[k - 1]]]
  <2>2. n \in Nat /\ m \in 1 .. N /\ \A k \in 0 .. m : k = m \/ k \in 0 .. n
    BY <1>2
  <2>3. F[m] \in [T -> T] /\ f[n] \in T
    BY <2>2
  <2>4. g \in [0 .. m -> T]
    BY <2>2, <2>3
  <2>5. ASSUME NEW k \in 0 .. m PROVE g[k] = h[k]
    <3>1. CASE k = m
      <4>1. m # 0 /\ m - 1 = n /\ n # m /\ n \in 0 .. m
        BY <2>2
      <4>2. QED
        BY <3>1, <4>1
    <3>2. CASE k = 0
      <4>1. f[0] = e /\ 0 # m
        BY <2>1, <2>2 DEF Follows
      <4>2. QED
        BY <3>2, <4>1
    <3>3. CASE k # m /\ k # 0
      <4>1. k \in 0 .. n /\ k - 1 \in 0 .. m /\ k - 1 # m
        BY <2>2, <3>3
      <4>2. f[k] = F[k][f[k - 1]]
        BY <2>1, <3>3, <4>1, Zenon DEF Follows
      <4>3. QED
        BY <3>3, <4>1, <4>2
    <3>4. QED
      BY <3>1, <3>2, <3>3
  <2>6. g = h
    BY <2>5
  <2> HIDE DEF g, m
  <2>7. Follows(g, m, e, F)
    BY <2>6 DEF Follows
  <2>8. QED
    BY <2>2, <2>4, <2>7 DEF m
<1> DEFINE R(n) == n <= N => n \in S
<1>3. R(0) /\ \A n \in Nat : R(n) => R(n + 1)
  BY <1>1, <1>2
<1> HIDE DEF R
<1>4. \A n \in Nat : R(n) => R(n + 2)
  <2> TAKE n \in Nat
  <2>1. R(n) => R(n + 1)
    BY <1>3
  <2>2. R(n + 1) => R(n + 1 + 1)
    BY <1>3
  <2>3. QED
    BY <2>1, <2>2
<1>5. \A n \in Nat : R(n) => R(n + 4)
  <2> TAKE n \in Nat
  <2>1. R(n) => R(n + 2)
    BY <1>4
  <2>2. R(n + 2) => R(n + 2 + 2)
    BY <1>4
  <2>3. QED
    BY <2>1, <2>2
<1>6. \A n \in Nat : R(n) => R(n + 8)
  <2> TAKE n \in Nat
  <2>1. R(n) => R(n + 4)
    BY <1>5
  <2>2. R(n + 4) => R(n + 4 + 4)
    BY <1>5
  <2>3. QED
    BY <2>1, <2>2
<1>7. R(N)
  <2>1. PICK a \in 0 .. 3, b \in 0 .. 1, c \in 0 .. 1, d \in 0 .. 1 : N = 8 * a + 4 * b + 2 * c + d
    OBVIOUS
  <2>2. R(8 * a)
    <3>1. R(0) /\ R(8) /\ R(16) /\ R(24)
      BY <1>3, <1>6
    <3>2. a = 0 \/ a = 1 \/ a = 2 \/ a = 3
      OBVIOUS
    <3>3. QED
      BY <3>1, <3>2
  <2>3. R(8 * a + 4 * b)
    BY <2>2, <1>5
  <2>4. R(8 * a + 4 * b + 2 * c)
    BY <2>3, <1>4
  <2> DEFINE m == 8 * a + 4 * b + 2 * c
  <2>5. m \in Nat /\ R(m) /\ (N = m \/ N = m + 1)
    BY <2>1, <2>4
  <2> HIDE DEF m
  <2>6. QED
    BY <2>5, <1>3
<1>8. QED
  BY <1>7 DEF R

-----------------------------------------------------------------------------
(* Exclusive or, bit by bit.                                               *)

Mix(a, b) == [i \in 0 .. 7 |-> (Bit(a, i) + Bit(b, i)) % 2]

LEMMA MixIsBits ==
  ASSUME NEW a \in Byte, NEW b \in Byte
  PROVE  Mix(a, b) \in Octets
<1>1. \A i \in 0 .. 7 : Bit(a, i) \in 0 .. 1 /\ Bit(b, i) \in 0 .. 1
  BY ByteOfBits DEF Bits, Octets
<1>2. QED
  BY <1>1 DEF Mix, Octets

LEMMA XorIs ==
  ASSUME NEW a \in Byte, NEW b \in Byte
  PROVE  Xor(a, b) = Binary(Mix(a, b))
<1> DEFINE D(h) == [i \in 0 .. 8 |->
                     IF i = 0 THEN 0
                     ELSE h[i - 1] + 2^(i - 1) * ((Bit(a, i - 1) + Bit(b, i - 1)) % 2)]
           low == CHOOSE h : h = D(h)
           m == Mix(a, b)
           F == [i \in 1 .. 8 |-> [v \in Int |-> v + 2^(i - 1) * m[i - 1]]]
<1>1. Xor(a, b) = low[8]
  BY DEF Xor
<1>2. m \in Octets
  BY MixIsBits
<1>3. \A i \in 1 .. 8 : 2^(i - 1) * m[i - 1] \in Int
  <2>1. \A i \in 1 .. 8 : m[i - 1] \in Int /\ 2^(i - 1) \in Int
    BY <1>2 DEF Octets
  <2>2. QED
    BY <2>1
<1>4. F \in [1 .. 8 -> [Int -> Int]]
  BY <1>3
<1>5. PICK f \in [0 .. 8 -> Int] : Follows(f, 8, 0, F)
  <2>1. 0 \in Int /\ 8 \in 0 .. 24
    OBVIOUS
  <2> HIDE DEF F
  <2>2. QED
    BY <1>4, <2>1, Recursion
<1>6. ASSUME NEW i \in 0 .. 8 PROVE f[i] = D(f)[i]
  <2>1. CASE i = 0
    BY <1>5, <2>1 DEF Follows
  <2>2. CASE i # 0
    <3>1. i \in 1 .. 8 /\ i - 1 \in 0 .. 7 /\ i - 1 \in 0 .. 8
      BY <2>2
    <3>2. f[i] = F[i][f[i - 1]] /\ f[i - 1] \in Int
      BY <1>5, <2>2, <3>1 DEF Follows
    <3>3. f[i] = f[i - 1] + 2^(i - 1) * m[i - 1]
      BY <3>1, <3>2
    <3>4. m[i - 1] = (Bit(a, i - 1) + Bit(b, i - 1)) % 2
      BY <3>1 DEF Mix
    <3>5. QED
      BY <2>2, <3>3, <3>4
  <2>3. QED
    BY <2>1, <2>2
<1>7. f = D(f)
  BY <1>5, <1>6
<1>8. low = D(low)
  BY <1>7, Zenon
<1> HIDE DEF low
<1>9. /\ low[0] = 0
      /\ \A i \in 0 .. 7 : low[i + 1] = low[i] + 2^i * m[i]
  <2>1. low[0] = 0
    BY <1>8
  <2>2. ASSUME NEW i \in 0 .. 7 PROVE low[i + 1] = low[i] + 2^i * m[i]
    <3>1. i + 1 \in 0 .. 8 /\ i + 1 # 0 /\ (i + 1) - 1 = i
      OBVIOUS
    <3>2. m[i] = (Bit(a, i) + Bit(b, i)) % 2
      BY DEF Mix
    <3>3. low[i + 1] = D(low)[i + 1]
      BY <1>8
    <3>4. QED
      BY <3>1, <3>2, <3>3
  <2>3. QED
    BY <2>1, <2>2
<1>10. /\ 2^0 = 1 /\ 2^1 = 2 /\ 2^2 = 4 /\ 2^3 = 8
       /\ 2^4 = 16 /\ 2^5 = 32 /\ 2^6 = 64 /\ 2^7 = 128
  OBVIOUS
<1> HIDE DEF m
<1>11. /\ low[1] = m[0] /\ low[2] = low[1] + 2 * m[1] /\ low[3] = low[2] + 4 * m[2]
       /\ low[4] = low[3] + 8 * m[3]
  BY <1>2, <1>9, <1>10 DEF Octets
<1>12. /\ low[5] = low[4] + 16 * m[4] /\ low[6] = low[5] + 32 * m[5]
       /\ low[7] = low[6] + 64 * m[6] /\ low[8] = low[7] + 128 * m[7]
  BY <1>2, <1>9, <1>10 DEF Octets
<1>13. low[8] = Binary(m)
  BY <1>2, <1>11, <1>12 DEF Binary, Octets
<1>14. QED
  BY <1>1, <1>13 DEF m

LEMMA XorBits ==
  ASSUME NEW a \in Byte, NEW b \in Byte
  PROVE  /\ Xor(a, b) \in Byte
         /\ \A i \in 0 .. 7 : Bit(Xor(a, b), i) = (Bit(a, i) + Bit(b, i)) % 2
<1> DEFINE m == Mix(a, b)
<1>1. m \in Octets /\ Xor(a, b) = Binary(m)
  BY MixIsBits, XorIs
<1>2. \A i \in 0 .. 7 : m[i] = (Bit(a, i) + Bit(b, i)) % 2
  BY DEF Mix
<1> HIDE DEF m
<1>3. Binary(m) \in Byte /\ \A i \in 0 .. 7 : Bit(Binary(m), i) = m[i]
  BY <1>1, BitsOfByte
<1>4. QED
  BY <1>1, <1>2, <1>3

LEMMA BitIs ==
  ASSUME NEW x \in Byte, NEW i \in 0 .. 7
  PROVE  Bit(x, i) \in 0 .. 1
  BY ByteOfBits DEF Bits, Octets

LEMMA ZeroBits ==
  \A i \in 0 .. 7 : Bit(0, i) = 0 /\ Bit(255, i) = 1
<1>1. /\ 0 \in 0 .. 1 /\ 1 \in 0 .. 1
      /\ 0 = 0 + 2 * 0 + 4 * 0 + 8 * 0 + 16 * 0 + 32 * 0 + 64 * 0 + 128 * 0
      /\ 255 = 1 + 2 * 1 + 4 * 1 + 8 * 1 + 16 * 1 + 32 * 1 + 64 * 1 + 128 * 1
  OBVIOUS
<1>2. /\ Bit(0, 0) = 0 /\ Bit(0, 1) = 0 /\ Bit(0, 2) = 0 /\ Bit(0, 3) = 0
      /\ Bit(0, 4) = 0 /\ Bit(0, 5) = 0 /\ Bit(0, 6) = 0 /\ Bit(0, 7) = 0
  BY <1>1, BitsAre
<1>3. /\ Bit(255, 0) = 1 /\ Bit(255, 1) = 1 /\ Bit(255, 2) = 1 /\ Bit(255, 3) = 1
      /\ Bit(255, 4) = 1 /\ Bit(255, 5) = 1 /\ Bit(255, 6) = 1 /\ Bit(255, 7) = 1
  BY <1>1, BitsAre
<1>4. QED
  BY <1>2, <1>3, Places

\* Subtracting from 0xFF inverts every bit.
LEMMA Complement ==
  ASSUME NEW a \in Byte
  PROVE  255 - a \in Byte /\ \A i \in 0 .. 7 : Bit(255 - a, i) = 1 - Bit(a, i)
<1>1. PICK a0, a1, a2, a3, a4, a5, a6, a7 \in 0 .. 1 :
             a = a0 + 2 * a1 + 4 * a2 + 8 * a3 + 16 * a4 + 32 * a5 + 64 * a6 + 128 * a7
  BY HasBits
<1> DEFINE y == 255 - a
<1>2. /\ 1 - a0 \in 0 .. 1 /\ 1 - a1 \in 0 .. 1 /\ 1 - a2 \in 0 .. 1 /\ 1 - a3 \in 0 .. 1
      /\ 1 - a4 \in 0 .. 1 /\ 1 - a5 \in 0 .. 1 /\ 1 - a6 \in 0 .. 1 /\ 1 - a7 \in 0 .. 1
      /\ y = (1 - a0) + 2 * (1 - a1) + 4 * (1 - a2) + 8 * (1 - a3) + 16 * (1 - a4)
               + 32 * (1 - a5) + 64 * (1 - a6) + 128 * (1 - a7)
  BY <1>1
<1> HIDE DEF y
<1>3. /\ y \in Byte
      /\ Bit(y, 0) = 1 - a0 /\ Bit(y, 1) = 1 - a1 /\ Bit(y, 2) = 1 - a2 /\ Bit(y, 3) = 1 - a3
      /\ Bit(y, 4) = 1 - a4 /\ Bit(y, 5) = 1 - a5 /\ Bit(y, 6) = 1 - a6 /\ Bit(y, 7) = 1 - a7
  BY <1>2, BitsAre
<1>4. /\ Bit(a, 0) = a0 /\ Bit(a, 1) = a1 /\ Bit(a, 2) = a2 /\ Bit(a, 3) = a3
      /\ Bit(a, 4) = a4 /\ Bit(a, 5) = a5 /\ Bit(a, 6) = a6 /\ Bit(a, 7) = a7
  BY <1>1, BitsAre
<1>5. \A i \in 0 .. 7 : Bit(y, i) = 1 - Bit(a, i)
  BY <1>3, <1>4, Places
<1>6. QED
  BY <1>3, <1>5 DEF y

LEMMA XorLaws ==
  ASSUME NEW a \in Byte, NEW b \in Byte, NEW c \in Byte
  PROVE  /\ Xor(a, b) = Xor(b, a)
         /\ Xor(a, Xor(b, c)) = Xor(Xor(a, b), c)
         /\ Xor(a, a) = 0 /\ Xor(a, 0) = a
         /\ Xor(a, 255 - a) = 255
<1>2. \A i \in 0 .. 7 : Bit(0, i) = 0 /\ Bit(255, i) = 1
  BY ZeroBits
<1>3. 255 - a \in Byte /\ \A i \in 0 .. 7 : Bit(255 - a, i) = 1 - Bit(a, i)
  BY Complement
<1>4. 0 \in Byte /\ 255 \in Byte
  BY DEF Byte
<1>5. Xor(a, b) = Xor(b, a)
  <2>1. \A i \in 0 .. 7 : Bit(Xor(a, b), i) = Bit(Xor(b, a), i)
    BY XorBits, BitIs
  <2>2. QED
    BY <2>1, XorBits, SameBits
<1>6. Xor(a, Xor(b, c)) = Xor(Xor(a, b), c)
  <2>1. ASSUME NEW i \in 0 .. 7 PROVE Bit(Xor(a, Xor(b, c)), i) = Bit(Xor(Xor(a, b), c), i)
    <3>1. /\ Bit(Xor(a, Xor(b, c)), i) = (Bit(a, i) + ((Bit(b, i) + Bit(c, i)) % 2)) % 2
          /\ Bit(Xor(Xor(a, b), c), i) = (((Bit(a, i) + Bit(b, i)) % 2) + Bit(c, i)) % 2
      BY XorBits
    <3>2. Bit(a, i) \in 0 .. 1 /\ Bit(b, i) \in 0 .. 1 /\ Bit(c, i) \in 0 .. 1
      BY BitIs
    <3>3. QED
      BY <3>1, <3>2
  <2>2. QED
    BY <2>1, XorBits, SameBits
<1>7. Xor(a, a) = 0
  <2>1. \A i \in 0 .. 7 : Bit(Xor(a, a), i) = Bit(0, i)
    BY <1>2, XorBits, BitIs
  <2>2. QED
    BY <1>4, <2>1, XorBits, SameBits
<1>8. Xor(a, 0) = a
  <2>1. \A i \in 0 .. 7 : Bit(Xor(a, 0), i) = Bit(a, i)
    BY <1>2, <1>4, XorBits, BitIs
  <2>2. QED
    BY <1>4, <2>1, XorBits, SameBits
<1>9. Xor(a, 255 - a) = 255
  <2>1. \A i \in 0 .. 7 : Bit(Xor(a, 255 - a), i) = Bit(255, i)
    BY <1>2, <1>3, XorBits, BitIs
  <2>2. QED
    BY <1>3, <1>4, <2>1, XorBits, SameBits
<1>10. QED
  BY <1>5, <1>6, <1>7, <1>8, <1>9

-----------------------------------------------------------------------------
(* One shift of build_table().                                             *)

Shift(c) == IF c % 2 = 1 THEN Xor(c \div 2, 224) ELSE c \div 2

\* Bits 5, 6 and 7 receive the bit shifted out.
LEMMA ShiftBits ==
  ASSUME NEW c \in Byte
  PROVE  /\ Shift(c) \in Byte
         /\ Bit(Shift(c), 7) = Bit(c, 0)
         /\ \A i \in 0 .. 6 :
              Bit(Shift(c), i) = (Bit(c, i + 1) + (IF i >= 5 THEN Bit(c, 0) ELSE 0)) % 2
<1>1. PICK c0, c1, c2, c3, c4, c5, c6, c7 \in 0 .. 1 :
             c = c0 + 2 * c1 + 4 * c2 + 8 * c3 + 16 * c4 + 32 * c5 + 64 * c6 + 128 * c7
  BY HasBits
<1>2. /\ Bit(c, 0) = c0 /\ Bit(c, 1) = c1 /\ Bit(c, 2) = c2 /\ Bit(c, 3) = c3
      /\ Bit(c, 4) = c4 /\ Bit(c, 5) = c5 /\ Bit(c, 6) = c6 /\ Bit(c, 7) = c7
  BY <1>1, BitsAre
<1> DEFINE y == c \div 2
<1>3. /\ c % 2 = c0
      /\ y = c1 + 2 * c2 + 4 * c3 + 8 * c4 + 16 * c5 + 32 * c6 + 64 * c7 + 128 * 0
  BY <1>1
<1> HIDE DEF y
<1>4. /\ y \in Byte
      /\ Bit(y, 0) = c1 /\ Bit(y, 1) = c2 /\ Bit(y, 2) = c3 /\ Bit(y, 3) = c4
      /\ Bit(y, 4) = c5 /\ Bit(y, 5) = c6 /\ Bit(y, 6) = c7 /\ Bit(y, 7) = 0
  <2>1. 0 \in 0 .. 1
    OBVIOUS
  <2>2. QED
    BY <1>3, <2>1, BitsAre
<1>5. /\ 224 \in Byte
      /\ Bit(224, 0) = 0 /\ Bit(224, 1) = 0 /\ Bit(224, 2) = 0 /\ Bit(224, 3) = 0
      /\ Bit(224, 4) = 0 /\ Bit(224, 5) = 1 /\ Bit(224, 6) = 1 /\ Bit(224, 7) = 1
  <2>1. 0 \in 0 .. 1 /\ 1 \in 0 .. 1 /\ 224 = 0 + 2 * 0 + 4 * 0 + 8 * 0 + 16 * 0 + 32 * 1 + 64 * 1 + 128 * 1
    OBVIOUS
  <2>2. QED
    BY <2>1, BitsAre
<1>6. CASE c0 = 0
  <2>1. Shift(c) = y
    BY <1>3, <1>6 DEF Shift, y
  <2>2. ASSUME NEW i \in 0 .. 6
        PROVE  Bit(y, i) = (Bit(c, i + 1) + (IF i >= 5 THEN Bit(c, 0) ELSE 0)) % 2
    <3>1. i = 0 \/ i = 1 \/ i = 2 \/ i = 3 \/ i = 4 \/ i = 5 \/ i = 6
      OBVIOUS
    <3>2. QED
      BY <3>1, <1>2, <1>4, <1>6
  <2>3. QED
    BY <2>1, <2>2, <1>2, <1>4, <1>6
<1>7. CASE c0 = 1
  <2>1. Shift(c) = Xor(y, 224)
    BY <1>3, <1>7 DEF Shift, y
  <2>2. Xor(y, 224) \in Byte /\ \A i \in 0 .. 7 : Bit(Xor(y, 224), i) = (Bit(y, i) + Bit(224, i)) % 2
    BY <1>4, <1>5, XorBits
  <2>3. ASSUME NEW i \in 0 .. 6
        PROVE  Bit(Xor(y, 224), i) = (Bit(c, i + 1) + (IF i >= 5 THEN Bit(c, 0) ELSE 0)) % 2
    <3>1. i = 0 \/ i = 1 \/ i = 2 \/ i = 3 \/ i = 4 \/ i = 5 \/ i = 6
      OBVIOUS
    <3>2. QED
      BY <2>2, <3>1, <1>2, <1>4, <1>5, <1>7
  <2>4. Bit(Xor(y, 224), 7) = 1
    BY <2>2, <1>4, <1>5
  <2>5. QED
    BY <2>1, <2>2, <2>3, <2>4, <1>2, <1>7
<1>8. QED
  BY <1>6, <1>7

\* The shift as arithmetic, to compute with.
LEMMA ShiftIs ==
  ASSUME NEW c \in Byte, NEW y, y = c \div 2
  PROVE  Shift(c) = IF c % 2 = 1 THEN 224 + 2 * (y % 32) - y ELSE y
<1>1. CASE c % 2 = 1
  <2>1. y \in Byte /\ 224 \in Byte
    BY DEF Byte
  <2>2. PICK y0, y1, y2, y3, y4, y5, y6, y7 \in 0 .. 1 :
               y = y0 + 2 * y1 + 4 * y2 + 8 * y3 + 16 * y4 + 32 * y5 + 64 * y6 + 128 * y7
    BY <2>1, HasBits
  <2>3. y7 = 0 /\ y % 32 = y0 + 2 * y1 + 4 * y2 + 8 * y3 + 16 * y4
    BY <2>2 DEF Byte
  <2> DEFINE z == 224 + 2 * (y % 32) - y
  <2>4. /\ 1 - y5 \in 0 .. 1 /\ 1 - y6 \in 0 .. 1 /\ 1 \in 0 .. 1
        /\ z = y0 + 2 * y1 + 4 * y2 + 8 * y3 + 16 * y4 + 32 * (1 - y5) + 64 * (1 - y6) + 128 * 1
    BY <2>2, <2>3
  <2> HIDE DEF z
  <2>5. /\ z \in Byte
        /\ Bit(z, 0) = y0 /\ Bit(z, 1) = y1 /\ Bit(z, 2) = y2 /\ Bit(z, 3) = y3
        /\ Bit(z, 4) = y4 /\ Bit(z, 5) = 1 - y5 /\ Bit(z, 6) = 1 - y6 /\ Bit(z, 7) = 1
    BY <2>4, BitsAre
  <2>6. /\ Bit(y, 0) = y0 /\ Bit(y, 1) = y1 /\ Bit(y, 2) = y2 /\ Bit(y, 3) = y3
        /\ Bit(y, 4) = y4 /\ Bit(y, 5) = y5 /\ Bit(y, 6) = y6 /\ Bit(y, 7) = 0
    BY <2>2, <2>3, BitsAre
  <2>7. /\ Bit(224, 0) = 0 /\ Bit(224, 1) = 0 /\ Bit(224, 2) = 0 /\ Bit(224, 3) = 0
        /\ Bit(224, 4) = 0 /\ Bit(224, 5) = 1 /\ Bit(224, 6) = 1 /\ Bit(224, 7) = 1
    <3>1. 0 \in 0 .. 1 /\ 1 \in 0 .. 1 /\ 224 = 0 + 2 * 0 + 4 * 0 + 8 * 0 + 16 * 0 + 32 * 1 + 64 * 1 + 128 * 1
      OBVIOUS
    <3>2. QED
      BY <3>1, BitsAre
  <2>8. \A i \in 0 .. 7 : Bit(Xor(y, 224), i) = (Bit(y, i) + Bit(224, i)) % 2
    BY <2>1, XorBits
  <2>9. \A i \in 0 .. 7 : Bit(Xor(y, 224), i) = Bit(z, i)
    <3>1. /\ (y0 + 0) % 2 = y0 /\ (y1 + 0) % 2 = y1 /\ (y2 + 0) % 2 = y2 /\ (y3 + 0) % 2 = y3
          /\ (y4 + 0) % 2 = y4 /\ (y5 + 1) % 2 = 1 - y5 /\ (y6 + 1) % 2 = 1 - y6
          /\ (0 + 1) % 2 = 1
      OBVIOUS
    <3>2. \A i \in 0 .. 7 : (Bit(y, i) + Bit(224, i)) % 2 = Bit(z, i)
      <4>1. /\ Bit(z, 0) = (Bit(y, 0) + Bit(224, 0)) % 2 /\ Bit(z, 1) = (Bit(y, 1) + Bit(224, 1)) % 2
            /\ Bit(z, 2) = (Bit(y, 2) + Bit(224, 2)) % 2 /\ Bit(z, 3) = (Bit(y, 3) + Bit(224, 3)) % 2
            /\ Bit(z, 4) = (Bit(y, 4) + Bit(224, 4)) % 2 /\ Bit(z, 5) = (Bit(y, 5) + Bit(224, 5)) % 2
            /\ Bit(z, 6) = (Bit(y, 6) + Bit(224, 6)) % 2 /\ Bit(z, 7) = (Bit(y, 7) + Bit(224, 7)) % 2
        BY <2>5, <2>6, <2>7, <3>1
      <4>2. QED
        BY <4>1, Places
    <3>3. QED
      BY <2>8, <3>2
  <2>10. Xor(y, 224) = z
    <3>1. Xor(y, 224) \in Byte /\ z \in Byte
      BY <2>1, <2>5, XorBits
    <3>2. QED
      BY <2>9, <3>1, SameBits, Zenon
  <2>11. QED
    BY <1>1, <2>10 DEF Shift, z
<1>2. CASE c % 2 # 1
  BY <1>2 DEF Shift
<1>3. QED
  BY <1>1, <1>2

LEMMA ShiftXor ==
  ASSUME NEW a \in Byte, NEW b \in Byte
  PROVE  Shift(Xor(a, b)) = Xor(Shift(a), Shift(b))
<1>1. Xor(a, b) \in Byte /\ Shift(a) \in Byte /\ Shift(b) \in Byte
  BY XorBits, ShiftBits
<1>2. ASSUME NEW i \in 0 .. 7
      PROVE  Bit(Shift(Xor(a, b)), i) = Bit(Xor(Shift(a), Shift(b)), i)
  <2>1. Bit(Xor(Shift(a), Shift(b)), i) = (Bit(Shift(a), i) + Bit(Shift(b), i)) % 2
    BY <1>1, XorBits
  <2>2. Bit(a, 0) \in 0 .. 1 /\ Bit(b, 0) \in 0 .. 1 /\ Bit(Xor(a, b), 0) = (Bit(a, 0) + Bit(b, 0)) % 2
    BY BitIs, XorBits
  <2>3. CASE i = 7
    BY <1>1, <2>1, <2>2, <2>3, ShiftBits
  <2>4. CASE i # 7
    <3>1. i \in 0 .. 6 /\ i + 1 \in 0 .. 7
      BY <2>4
    <3>2. Bit(a, i + 1) \in 0 .. 1 /\ Bit(b, i + 1) \in 0 .. 1
          /\ Bit(Xor(a, b), i + 1) = (Bit(a, i + 1) + Bit(b, i + 1)) % 2
      BY <3>1, BitIs, XorBits
    <3>3. CASE i >= 5
      <4>1. /\ Bit(Shift(a), i) = (Bit(a, i + 1) + Bit(a, 0)) % 2
            /\ Bit(Shift(b), i) = (Bit(b, i + 1) + Bit(b, 0)) % 2
            /\ Bit(Shift(Xor(a, b)), i) = (Bit(Xor(a, b), i + 1) + Bit(Xor(a, b), 0)) % 2
        BY <1>1, <3>1, <3>3, ShiftBits
      <4>2. QED
        BY <2>1, <2>2, <3>2, <4>1
    <3>4. CASE ~(i >= 5)
      <4>1. /\ Bit(Shift(a), i) = (Bit(a, i + 1) + 0) % 2
            /\ Bit(Shift(b), i) = (Bit(b, i + 1) + 0) % 2
            /\ Bit(Shift(Xor(a, b)), i) = (Bit(Xor(a, b), i + 1) + 0) % 2
        BY <1>1, <3>1, <3>4, ShiftBits
      <4>2. QED
        BY <2>1, <3>2, <4>1
    <3>5. QED
      BY <3>3, <3>4
  <2>5. QED
    BY <2>3, <2>4
<1>3. QED
  BY <1>1, <1>2, XorBits, ShiftBits, SameBits

LEMMA ShiftInjective ==
  ASSUME NEW a \in Byte, NEW b \in Byte, Shift(a) = Shift(b)
  PROVE  a = b
<1>1. Bit(a, 0) = Bit(b, 0)
  BY ShiftBits
<1>2. ASSUME NEW i \in 0 .. 6 PROVE Bit(a, i + 1) = Bit(b, i + 1)
  <2>1. i + 1 \in 0 .. 7
    OBVIOUS
  <2>2. /\ Bit(a, i + 1) \in 0 .. 1 /\ Bit(b, i + 1) \in 0 .. 1 /\ Bit(a, 0) \in 0 .. 1
    BY <2>1, BitIs
  <2>3. (Bit(a, i + 1) + (IF i >= 5 THEN Bit(a, 0) ELSE 0)) % 2
          = (Bit(b, i + 1) + (IF i >= 5 THEN Bit(a, 0) ELSE 0)) % 2
    BY <1>1, ShiftBits
  <2>4. QED
    BY <2>2, <2>3
<1>3. \A i \in 0 .. 7 : Bit(a, i) = Bit(b, i)
  <2>1. /\ Bit(a, 0 + 1) = Bit(b, 0 + 1) /\ Bit(a, 1 + 1) = Bit(b, 1 + 1)
        /\ Bit(a, 2 + 1) = Bit(b, 2 + 1) /\ Bit(a, 3 + 1) = Bit(b, 3 + 1)
        /\ Bit(a, 4 + 1) = Bit(b, 4 + 1) /\ Bit(a, 5 + 1) = Bit(b, 5 + 1)
        /\ Bit(a, 6 + 1) = Bit(b, 6 + 1)
    BY <1>2
  <2>2. QED
    BY <1>1, <2>1, Places
<1>4. QED
  BY <1>3, SameBits

-----------------------------------------------------------------------------
(* The table entry of a byte is eight shifts of it.                        *)

LEMMA TableStages ==
  /\ shifted[0] = [x \in Byte |-> x]
  /\ \A j \in 0 .. 7 : shifted[j + 1] = [x \in Byte |-> Shift(shifted[j][x])]
<1> DEFINE D(h) == [j \in 0 .. 8 |->
                     [i \in Byte |->
                        IF j = 0 THEN i
                        ELSE LET crc == h[j - 1][i]
                             IN  IF crc % 2 = 1 THEN Xor(crc \div 2, 224) ELSE crc \div 2]]
           T == [Byte -> Byte]
           e == [x \in Byte |-> x]
           F == [j \in 1 .. 8 |-> [g \in T |-> [x \in Byte |-> Shift(g[x])]]]
<1>1. F \in [1 .. 8 -> [T -> T]]
  BY ShiftBits
<1>2. e \in T /\ 8 \in 0 .. 24
  OBVIOUS
<1>3. PICK f \in [0 .. 8 -> T] : Follows(f, 8, e, F)
  <2> HIDE DEF F, e, T
  <2>1. QED
    BY <1>1, <1>2, Recursion
<1>4. ASSUME NEW j \in 0 .. 8 PROVE f[j] = D(f)[j]
  <2>1. CASE j = 0
    BY <1>3, <2>1 DEF Follows
  <2>2. CASE j # 0
    <3>1. j \in 1 .. 8 /\ j - 1 \in 0 .. 8
      BY <2>2
    <3>2. f[j] = F[j][f[j - 1]] /\ f[j - 1] \in T
      BY <1>3, <2>2, <3>1 DEF Follows
    <3>3. f[j] = [x \in Byte |-> Shift(f[j - 1][x])]
      BY <3>1, <3>2
    <3>4. QED
      BY <2>2, <3>3 DEF Shift
  <2>3. QED
    BY <2>1, <2>2
<1>5. f = D(f)
  BY <1>3, <1>4
<1>6. shifted = D(shifted)
  <2>1. shifted = CHOOSE h : h = D(h)
    BY DEF shifted
  <2>2. QED
    BY <1>5, <2>1, Zenon
<1>7. shifted[0] = [x \in Byte |-> x]
  BY <1>6
<1>8. ASSUME NEW j \in 0 .. 7 PROVE shifted[j + 1] = [x \in Byte |-> Shift(shifted[j][x])]
  <2>1. j + 1 \in 0 .. 8 /\ j + 1 # 0 /\ (j + 1) - 1 = j
    OBVIOUS
  <2>2. shifted[j + 1] = D(shifted)[j + 1]
    BY <1>6
  <2>3. QED
    BY <2>1, <2>2 DEF Shift
<1>9. QED
  BY <1>7, <1>8

LEMMA TableIs ==
  ASSUME NEW x \in Byte
  PROVE  TABLE[x] = Shift(Shift(Shift(Shift(Shift(Shift(Shift(Shift(x))))))))
<1>1. /\ shifted[0][x] = x
      /\ \A j \in 0 .. 7 : shifted[j + 1][x] = Shift(shifted[j][x])
  BY TableStages
<1>2. /\ shifted[1][x] = Shift(shifted[0][x]) /\ shifted[2][x] = Shift(shifted[1][x])
      /\ shifted[3][x] = Shift(shifted[2][x]) /\ shifted[4][x] = Shift(shifted[3][x])
      /\ shifted[5][x] = Shift(shifted[4][x]) /\ shifted[6][x] = Shift(shifted[5][x])
      /\ shifted[7][x] = Shift(shifted[6][x]) /\ shifted[8][x] = Shift(shifted[7][x])
  <2>1. /\ 0 + 1 = 1 /\ 1 + 1 = 2 /\ 2 + 1 = 3 /\ 3 + 1 = 4
        /\ 4 + 1 = 5 /\ 5 + 1 = 6 /\ 6 + 1 = 7 /\ 7 + 1 = 8
    OBVIOUS
  <2>2. QED
    BY <1>1, <2>1
<1>3. QED
  BY <1>1, <1>2 DEF TABLE

LEMMA TableXor ==
  ASSUME NEW a \in Byte, NEW b \in Byte
  PROVE  /\ TABLE[a] \in Byte
         /\ TABLE[Xor(a, b)] = Xor(TABLE[a], TABLE[b])
<1>1. \A x \in Byte : Shift(x) \in Byte
  BY ShiftBits
<1>2. \A x, y \in Byte : Shift(Xor(x, y)) = Xor(Shift(x), Shift(y))
  BY ShiftXor
<1> DEFINE S2(x) == Shift(Shift(x))
           S4(x) == S2(S2(x))
           S8(x) == S4(S4(x))
<1>3. \A x, y \in Byte : S2(x) \in Byte /\ S2(Xor(x, y)) = Xor(S2(x), S2(y))
  BY <1>1, <1>2, Zenon
<1> HIDE DEF S2
<1>4. \A x, y \in Byte : S4(x) \in Byte /\ S4(Xor(x, y)) = Xor(S4(x), S4(y))
  BY <1>3, Zenon
<1> HIDE DEF S4
<1>5. \A x, y \in Byte : S8(x) \in Byte /\ S8(Xor(x, y)) = Xor(S8(x), S8(y))
  BY <1>4, Zenon
<1>6. \A x \in Byte : TABLE[x] = S8(x)
  BY TableIs DEF S2, S4
<1> HIDE DEF S8
<1>7. Xor(a, b) \in Byte
  BY XorBits
<1>8. TABLE[a] = S8(a) /\ TABLE[b] = S8(b) /\ TABLE[Xor(a, b)] = S8(Xor(a, b))
  BY <1>6, <1>7
<1>9. QED
  BY <1>5, <1>8

LEMMA TableInjective ==
  ASSUME NEW a \in Byte, NEW b \in Byte, TABLE[a] = TABLE[b]
  PROVE  a = b
<1>1. \A x \in Byte : Shift(x) \in Byte
  BY ShiftBits
<1>2. \A x, y \in Byte : Shift(x) = Shift(y) => x = y
  BY ShiftInjective
<1> DEFINE S2(x) == Shift(Shift(x))
           S4(x) == S2(S2(x))
           S8(x) == S4(S4(x))
<1>3. \A x, y \in Byte : S2(x) \in Byte /\ (S2(x) = S2(y) => x = y)
  BY <1>1, <1>2, Zenon
<1> HIDE DEF S2
<1>4. \A x, y \in Byte : S4(x) \in Byte /\ (S4(x) = S4(y) => x = y)
  BY <1>3, Zenon
<1> HIDE DEF S4
<1>5. \A x, y \in Byte : S8(x) = S8(y) => x = y
  BY <1>4, Zenon
<1>6. \A x \in Byte : TABLE[x] = S8(x)
  BY TableIs DEF S2, S4
<1>7. QED
  BY <1>5, <1>6, Zenon

\* The residue of check(): only 0xFF is mapped to 0xCF.
LEMMA GoodResidue ==
  ASSUME NEW x \in Byte
  PROVE  TABLE[x] = GOOD_FCS <=> x = 255
<1>1. /\ 255 \in Byte /\ 159 \in Byte /\ 175 \in Byte /\ 183 \in Byte /\ 187 \in Byte
      /\ 189 \in Byte /\ 190 \in Byte /\ 95 \in Byte
  BY DEF Byte
<1>2. Shift(255) = 159 /\ Shift(159) = 175 /\ Shift(175) = 183 /\ Shift(183) = 187
  BY <1>1, ShiftIs
<1>3. Shift(187) = 189 /\ Shift(189) = 190 /\ Shift(190) = 95 /\ Shift(95) = 207
  BY <1>1, ShiftIs
<1>4. TABLE[255] = 207
  BY <1>1, <1>2, <1>3, TableIs
<1>5. QED
  BY <1>1, <1>4, TableInjective DEF GOOD_FCS

-----------------------------------------------------------------------------
(* The running CRC over the three octets of a header.                      *)

LEMMA RunIs ==
  ASSUME NEW x, NEW y, NEW z
  PROVE  run(<<x, y, z>>) = update(update(update(INIT, x), y), z)
<1> DEFINE s == <<x, y, z>>
           E(h) == [t \in SUBSET DOMAIN s |->
                      IF t = {} THEN INIT
                      ELSE LET i == Max(t) IN update(h[t \ {i}], s[i])]
           v1(t) == IF 1 \in t THEN update(INIT, x) ELSE INIT
           v2(t) == IF 2 \in t THEN update(v1(t), y) ELSE v1(t)
           g == [t \in SUBSET DOMAIN s |-> IF 3 \in t THEN update(v2(t), z) ELSE v2(t)]
           iter == CHOOSE h : h = E(h)
<1>1. run(s) = iter[DOMAIN s]
  BY DEF run, FoldLeft, MapThenFoldSet
<1>2. DOMAIN s = {1, 2, 3} /\ s[1] = x /\ s[2] = y /\ s[3] = z
  OBVIOUS
<1>3. ASSUME NEW t \in SUBSET {1, 2, 3}, NEW i \in t, \A j \in t : i >= j
      PROVE  Max(t) = i
  <2>1. Max(t) \in t /\ \A j \in t : Max(t) >= j
    BY <1>3, Zenon DEF Max
  <2>2. i >= Max(t) /\ Max(t) >= i
    BY <1>3, <2>1
  <2>3. i \in {1, 2, 3} /\ Max(t) \in {1, 2, 3}
    BY <2>1
  <2>4. QED
    BY <2>2, <2>3
<1>4. ASSUME NEW t \in SUBSET DOMAIN s PROVE g[t] = E(g)[t]
  <2>1. CASE 3 \in t
    <3>1. Max(t) = 3 /\ t \ {3} \in SUBSET DOMAIN s
      BY <1>2, <1>3, <2>1
    <3>2. g[t \ {3}] = v2(t)
      BY <3>1
    <3>3. QED
      BY <1>2, <2>1, <3>1, <3>2, Zenon
  <2>2. CASE 3 \notin t /\ 2 \in t
    <3>1. Max(t) = 2 /\ t \ {2} \in SUBSET DOMAIN s
      BY <1>2, <1>3, <2>2
    <3>2. g[t \ {2}] = v1(t) /\ g[t] = update(v1(t), y)
      BY <2>2, <3>1
    <3>3. QED
      BY <1>2, <2>2, <3>1, <3>2, Zenon
  <2>3. CASE 3 \notin t /\ 2 \notin t /\ 1 \in t
    <3>1. Max(t) = 1 /\ t \ {1} \in SUBSET DOMAIN s
      BY <1>2, <1>3, <2>3
    <3>2. g[t \ {1}] = INIT /\ g[t] = update(INIT, x)
      BY <2>3, <3>1
    <3>3. QED
      BY <1>2, <2>3, <3>1, <3>2, Zenon
  <2>4. CASE t = {}
    BY <2>4
  <2>5. QED
    BY <1>2, <2>1, <2>2, <2>3, <2>4
<1>5. g = E(g)
  BY <1>4
<1>6. iter = E(iter)
  BY <1>5, Zenon
<1> HIDE DEF iter
<1>7. \A t \in SUBSET {1, 2, 3} :
        iter[t] = IF t = {} THEN INIT ELSE update(iter[t \ {Max(t)}], s[Max(t)])
  BY <1>2, <1>6
<1>8. iter[{}] = INIT
  BY <1>7
<1>9. iter[{1}] = update(INIT, x)
  <2>1. Max({1}) = 1 /\ {1} \ {1} = {} /\ {1} # {}
    BY <1>3
  <2>2. QED
    BY <1>2, <1>7, <1>8, <2>1
<1>10. iter[{1, 2}] = update(update(INIT, x), y)
  <2>1. Max({1, 2}) = 2 /\ {1, 2} \ {2} = {1} /\ {1, 2} # {}
    BY <1>3
  <2>2. QED
    BY <1>2, <1>7, <1>9, <2>1
<1>11. iter[{1, 2, 3}] = update(update(update(INIT, x), y), z)
  <2>1. Max({1, 2, 3}) = 3 /\ {1, 2, 3} \ {3} = {1, 2} /\ {1, 2, 3} # {}
    BY <1>3
  <2>2. QED
    BY <1>2, <1>7, <1>10, <2>1
<1>12. QED
  BY <1>1, <1>2, <1>11

LEMMA RunInByte ==
  ASSUME NEW x \in Byte, NEW y \in Byte, NEW z \in Byte
  PROVE  run(<<x, y, z>>) \in Byte
<1>1. \A a, b \in Byte : update(a, b) \in Byte
  BY XorBits, TableXor DEF update
<1>2. INIT \in Byte
  BY DEF INIT, Byte
<1>3. QED
  BY <1>1, <1>2, RunIs

\* check() accepts exactly one octet behind a header: the one fcs() computes.
THEOREM CheckAcceptsOnlyFcs ==
  ASSUME NEW x \in Byte, NEW y \in Byte, NEW z \in Byte, NEW f \in Byte
  PROVE  check(<<x, y, z>>, f) <=> f = fcs(<<x, y, z>>)
<1> DEFINE r == run(<<x, y, z>>)
<1>1. r \in Byte /\ 255 - r \in Byte /\ 255 \in Byte
  <2>1. r \in Byte
    BY RunInByte
  <2> HIDE DEF r
  <2>2. QED
    BY <2>1 DEF Byte
<1>2. check(<<x, y, z>>, f) <=> Xor(r, f) = 255
  BY <1>1, GoodResidue, XorBits DEF check, update
<1>3. fcs(<<x, y, z>>) = 255 - r
  BY DEF fcs
<1> HIDE DEF r
<1>4. Xor(r, 255 - r) = 255
  BY <1>1, XorLaws
<1>5. \A b \in Byte : Xor(r, Xor(r, b)) = b
  <2> TAKE b \in Byte
  <2>1. Xor(r, Xor(r, b)) = Xor(Xor(r, r), b) /\ Xor(r, r) = 0
    BY <1>1, XorLaws
  <2>2. 0 \in Byte
    BY DEF Byte
  <2>3. Xor(0, b) = Xor(b, 0) /\ Xor(b, 0) = b
    BY <2>2, XorLaws
  <2>4. QED
    BY <2>1, <2>3
<1>6. Xor(r, f) = 255 <=> f = 255 - r
  <2>1. Xor(r, Xor(r, f)) = f /\ Xor(r, Xor(r, 255 - r)) = 255 - r
    BY <1>1, <1>5
  <2>2. QED
    BY <1>4, <2>1
<1>7. QED
  BY <1>2, <1>3, <1>6

-----------------------------------------------------------------------------
(* The parsers undo the encoder, and the encoder the parsers.              *)

LEMMA AddressRoundTrip ==
  ASSUME NEW d \in 0 .. 63, NEW r \in Role
  PROVE  /\ to_byte(outgoing(d, r)) \in Byte
         /\ IsAddress(to_byte(outgoing(d, r)))
         /\ from_byte(to_byte(outgoing(d, r))) = outgoing(d, r)
<1> DEFINE c == IF r = "Command" THEN 1 ELSE 0
           b == 4 * d + 2 * c + 1
<1>1. c \in 0 .. 1 /\ b \in Byte
  BY DEF Byte
<1>2. to_byte(outgoing(d, r)) = b
  <2>1. d % 64 = d
    OBVIOUS
  <2>2. to_byte(outgoing(d, r)) = 4 * d + (IF r = "Command" THEN 2 ELSE 0) + 1
    BY <2>1, Zenon DEF to_byte, outgoing
  <2>3. QED
    BY <2>2
<1>3. b % 2 = 1 /\ (b \div 4) % 64 = d /\ (b \div 2) % 2 = c
  <2> HIDE DEF c
  <2>1. QED
    BY <1>1
<1>4. Bit(b, 1) = (b \div 2) % 2
  <2> HIDE DEF b
  <2>1. 2^1 = 2
    OBVIOUS
  <2>2. QED
    BY <2>1, Zenon DEF Bit
<1>5. (Bit(b, 1) = 1) = (r = "Command")
  BY <1>3, <1>4
<1> HIDE DEF b
<1>6. QED
  BY <1>1, <1>2, <1>3, <1>5 DEF IsAddress, from_byte, outgoing

LEMMA AddressReencodes ==
  ASSUME NEW b \in Byte, IsAddress(b)
  PROVE  /\ from_byte(b).dlci \in 0 .. 63
         /\ to_byte(outgoing(from_byte(b).dlci,
                             IF from_byte(b).cr THEN "Command" ELSE "Response")) = b
<1>1. Bit(b, 1) = (b \div 2) % 2
  <2>1. 2^1 = 2
    OBVIOUS
  <2>2. QED
    BY <2>1, Zenon DEF Bit
<1>2. from_byte(b).dlci = (b \div 4) % 64 /\ from_byte(b).cr = ((b \div 2) % 2 = 1)
  BY <1>1 DEF from_byte
<1>3. b % 2 = 1
  BY DEF IsAddress
<1>4. (b \div 4) % 64 \in 0 .. 63 /\ ((b \div 4) % 64) % 64 = (b \div 4) % 64
  BY DEF Byte
<1>5. 4 * ((b \div 4) % 64) + 2 * ((b \div 2) % 2) + 1 = b /\ (b \div 2) % 2 \in 0 .. 1
  BY <1>3 DEF Byte
<1> DEFINE d == (b \div 4) % 64
           r == IF from_byte(b).cr THEN "Command" ELSE "Response"
<1>6. d \in 0 .. 63 /\ d % 64 = d
  BY <1>4
<1> HIDE DEF d
<1>7. to_byte(outgoing(d, r)) = 4 * d + (IF r = "Command" THEN 2 ELSE 0) + 1
  BY <1>6, Zenon DEF to_byte, outgoing
<1>8. (r = "Command") = ((b \div 2) % 2 = 1)
  BY <1>2
<1> HIDE DEF r
<1>9. to_byte(outgoing(d, r)) = b
  BY <1>5, <1>6, <1>7, <1>8 DEF d
<1>10. QED
  BY <1>2, <1>6, <1>9 DEF d, r

LEMMA BitFour ==
  ASSUME NEW n \in Nat
  PROVE  Bit(n, 4) = (n \div 16) % 2
<1>1. 2^4 = 16
  OBVIOUS
<1>2. QED
  BY <1>1, Zenon DEF Bit

\* The opcodes are distinct and leave the P/F bit clear.
LEMMA Opcodes ==
  ASSUME NEW k \in FrameKind
  PROVE  /\ base[k] \in Byte /\ base[k] + PF_MASK \in Byte
         /\ ~pf_set(base[k]) /\ pf_set(base[k] + PF_MASK)
         /\ \A l \in FrameKind : base[l] = base[k] => l = k
<1>1. base[k] \in {47, 99, 15, 67, 239}
  BY DEF base, FrameKind
<1>2. /\ (base[k] \div 16) % 2 = 0 /\ ((base[k] + 16) \div 16) % 2 = 1
      /\ base[k] \in Byte /\ base[k] + 16 \in Byte /\ base[k] \in Nat /\ base[k] + 16 \in Nat
  BY <1>1 DEF Byte
<1>3. Bit(base[k], 4) = 0 /\ Bit(base[k] + 16, 4) = 1
  BY <1>2, BitFour
<1>4. \A l \in FrameKind : base[l] = base[k] => l = k
  BY DEF base, FrameKind
<1>5. QED
  BY <1>2, <1>3, <1>4 DEF pf_set, PF_MASK

LEMMA ControlRoundTrip ==
  ASSUME NEW k \in FrameKind, NEW pf \in BOOLEAN
  PROVE  /\ to_ctrl(k, pf) \in Byte
         /\ IsControl(to_ctrl(k, pf))
         /\ from_ctrl(to_ctrl(k, pf)) = k
         /\ pf_set(to_ctrl(k, pf)) = pf
<1> DEFINE c == to_ctrl(k, pf)
<1>1. c \in Byte /\ pf_set(c) = pf
  BY Opcodes DEF to_ctrl, pf_set
<1>2. opcode(c) = base[k]
  BY <1>1, Opcodes DEF opcode, to_ctrl, PF_MASK, Byte
<1>3. IsControl(c) /\ from_ctrl(c) = k
  BY <1>2, Opcodes DEF IsControl, from_ctrl
<1>4. QED
  BY <1>1, <1>3

LEMMA ControlReencodes ==
  ASSUME NEW c \in Byte, IsControl(c)
  PROVE  from_ctrl(c) \in FrameKind /\ to_ctrl(from_ctrl(c), pf_set(c)) = c
<1>1. from_ctrl(c) \in FrameKind /\ base[from_ctrl(c)] = opcode(c)
  BY DEF IsControl, from_ctrl
<1>2. QED
  BY <1>1 DEF to_ctrl, opcode, PF_MASK, Byte

\* The encoder's output, for an info field it accepts.
LEMMA EncodedFrame ==
  ASSUME NEW f \in Frame, Len(f.info) <= MAX_INFO_LEN
  PROVE  encode(f, wire_len(MAX_INFO_LEN)).out
           = <<FLAG>> \o header(f) \o f.info \o << fcs(header(f)), FLAG >>
<1>1. f.info \in Seq(Byte) /\ Len(f.info) \in Nat
  BY DEF Frame
<1>2. ~(Len(f.info) > MAX_INFO_LEN) /\ ~(wire_len(MAX_INFO_LEN) < wire_len(Len(f.info)))
  BY <1>1 DEF wire_len, MAX_INFO_LEN
<1>3. QED
  BY <1>2 DEF encode

OnWire(x, y, z, d, c) == <<FLAG>> \o <<x, y, z>> \o d \o <<c, FLAG>>

LEMMA Concatenated ==
  ASSUME NEW s \in Seq(Byte), NEW t \in Seq(Byte)
  PROVE  /\ s \o t \in Seq(Byte) /\ Len(s \o t) = Len(s) + Len(t)
         /\ Len(s) \in Nat /\ Len(t) \in Nat
         /\ \A i \in 1 .. Len(s) : (s \o t)[i] = s[i]
         /\ \A i \in 1 .. Len(t) : (s \o t)[Len(s) + i] = t[i]
  OBVIOUS

\* The length octet of an info field gives its length back.
LEMMA OddHalf ==
  ASSUME NEW b \in Byte, b % 2 = 1
  PROVE  b \div 2 <= MAX_INFO_LEN /\ (2 * (b \div 2) + 1) % 256 = b
  BY DEF Byte, MAX_INFO_LEN

\* Where the octets of a frame lie on the wire.
LaidOut(w, x, y, z, d, c) ==
  /\ w \in Seq(Byte) /\ Len(w) = Len(d) + 6
  /\ w[1] = FLAG /\ w[2] = x /\ w[3] = y /\ w[4] = z
  /\ \A i \in 1 .. Len(d) : w[i + 4] = d[i]
  /\ w[Len(d) + 5] = c /\ w[Len(d) + 6] = FLAG

LEMMA FrameOctets ==
  ASSUME NEW x \in Byte, NEW y \in Byte, NEW z \in Byte, NEW c \in Byte,
         NEW d \in Seq(Byte)
  PROVE  LaidOut(OnWire(x, y, z, d, c), x, y, z, d, c)
<1> DEFINE w == OnWire(x, y, z, d, c)
<1>0. FLAG \in Byte
  BY DEF FLAG, Byte
<1> DEFINE h == <<FLAG>> \o <<x, y, z>>
           e == <<c, FLAG>>
           g == h \o d
<1>1. h \in Seq(Byte) /\ Len(h) = 4 /\ h[1] = FLAG /\ h[2] = x /\ h[3] = y /\ h[4] = z
  BY <1>0
<1>2. e \in Seq(Byte) /\ Len(e) = 2 /\ e[1] = c /\ e[2] = FLAG
  BY <1>0
<1>3. w = g \o e
  BY DEF OnWire
<1> HIDE DEF h, e
<1> HIDE DEF w
<1>4. /\ g \in Seq(Byte) /\ Len(g) = Len(d) + 4 /\ Len(d) \in Nat
      /\ g[1] = FLAG /\ g[2] = x /\ g[3] = y /\ g[4] = z
      /\ \A i \in 1 .. Len(d) : g[i + 4] = d[i]
  <2>1. /\ g \in Seq(Byte) /\ Len(g) = Len(h) + Len(d) /\ Len(d) \in Nat
        /\ \A i \in 1 .. Len(h) : g[i] = h[i]
        /\ \A i \in 1 .. Len(d) : g[Len(h) + i] = d[i]
    BY <1>1, Concatenated
  <2> HIDE DEF g
  <2>2. g[1] = h[1] /\ g[2] = h[2] /\ g[3] = h[3] /\ g[4] = h[4]
    BY <1>1, <2>1
  <2>3. ASSUME NEW i \in 1 .. Len(d) PROVE g[i + 4] = d[i]
    <3>1. Len(h) + i = i + 4
      BY <1>1, <2>1
    <3>2. QED
      BY <2>1, <3>1
  <2>4. QED
    BY <1>1, <2>1, <2>2, <2>3
<1> HIDE DEF g
<1>5. /\ w \in Seq(Byte) /\ Len(w) = Len(g) + Len(e)
      /\ \A i \in 1 .. Len(g) : w[i] = g[i]
      /\ \A i \in 1 .. Len(e) : w[Len(g) + i] = e[i]
  <2>1. g \in Seq(Byte) /\ e \in Seq(Byte)
    BY <1>2, <1>4
  <2>2. QED
    BY <2>1, <1>3, Concatenated
<1>6. w[Len(g) + 1] = e[1] /\ w[Len(g) + 2] = e[2]
  BY <1>2, <1>5
<1>7. LaidOut(w, x, y, z, d, c)
  BY <1>2, <1>4, <1>5, <1>6 DEF LaidOut
<1>8. QED
  BY <1>7 DEF w
===============================================================================
