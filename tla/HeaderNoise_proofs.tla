-------------------------- MODULE HeaderNoise_proofs --------------------------
(***************************************************************************)
(* For every header, and not only those of a run: the parsers undo the     *)
(* encoder, the table computes the polynomial remainder, and the check     *)
(* rejects one, two and any odd number of flipped bits.                    *)
(***************************************************************************)
EXTENDS HeaderNoise, WireLemmas, FiniteSetTheorems, SequenceTheorems

-----------------------------------------------------------------------------
(* What is sent, and what the line makes of it.                            *)

Four == [1 .. 4 -> Byte]

HeaderInv ==
  /\ frame \in Frame /\ Len(frame.info) <= MAX_INFO_LEN
  /\ sent = Protected(frame)
  /\ received \in Four
  /\ flipped \subseteq 0 .. 31
  /\ flipped = {} => received = sent

LEMMA ProtectedIs ==
  ASSUME NEW f \in Frame, Len(f.info) <= MAX_INFO_LEN
  PROVE  \E x, y, z \in Byte :
           /\ header(f) = <<x, y, z>>
           /\ Protected(f) = <<x, y, z, fcs(<<x, y, z>>)>>
           /\ Protected(f) \in Four
<1> DEFINE x == to_byte(outgoing(f.dlci, f.role))
           y == to_ctrl(f.kind, f.pf)
           z == (2 * Len(f.info) + 1) % 256
           c == fcs(<<x, y, z>>)
           w == encode(f, wire_len(MAX_INFO_LEN)).out
<1>1. f.dlci \in 0 .. 63 /\ f.role \in Role /\ f.kind \in FrameKind /\ f.pf \in BOOLEAN
      /\ f.info \in Seq(Byte) /\ Len(f.info) \in Nat
  BY DEF Frame
<1>2. header(f) = <<x, y, z>>
  BY DEF header
<1>3. x \in Byte /\ y \in Byte /\ z \in Byte
  <2>1. x \in Byte /\ y \in Byte
    BY <1>1, AddressRoundTrip, ControlRoundTrip
  <2> DEFINE n == Len(f.info)
  <2>2. n \in Nat /\ z = (2 * n + 1) % 256
    BY <1>1
  <2> HIDE DEF n, z
  <2>3. z \in Byte
    BY <2>2 DEF Byte
  <2>4. QED
    BY <2>1, <2>3
<1> HIDE DEF x, y, z
<1>4. c \in Byte
  <2> DEFINE r == run(<<x, y, z>>)
  <2>1. r \in Byte
    BY <1>3, RunInByte
  <2>2. c = 255 - r
    BY DEF fcs
  <2> HIDE DEF r, c
  <2>3. QED
    BY <2>1, <2>2 DEF Byte
<1>5. w = OnWire(x, y, z, f.info, c)
  BY <1>2, EncodedFrame DEF OnWire
<1>6. LaidOut(w, x, y, z, f.info, c)
  BY <1>1, <1>3, <1>4, <1>5, FrameOctets
<1>7. Protected(f) = SubSeq(w, 2, 4) \o << w[Len(w) - 1] >>
  BY DEF Protected
<1> HIDE DEF w, c
<1>8. /\ w \in Seq(Byte) /\ Len(w) = Len(f.info) + 6
      /\ w[2] = x /\ w[3] = y /\ w[4] = z /\ w[Len(w) - 1] = c
  <2>1. Len(w) = Len(f.info) + 6 /\ w[Len(f.info) + 5] = c
    BY <1>6 DEF LaidOut
  <2>2. Len(w) - 1 = Len(f.info) + 5
    BY <1>1, <2>1
  <2>3. QED
    BY <1>6, <2>1, <2>2 DEF LaidOut
<1>9. SubSeq(w, 2, 4) = <<x, y, z>>
  <2> DEFINE s == SubSeq(w, 2, 4) t == <<x, y, z>>
  <2>1. 2 \in 1 .. Len(w) + 1 /\ 4 \in 2 - 1 .. Len(w)
    BY <1>1, <1>8
  <2>2. s \in Seq(Byte) /\ Len(s) = 3 /\ \A i \in 1 .. 3 : s[i] = w[2 + i - 1]
    BY <1>8, <2>1, SubSeqProperties
  <2>3. t \in Seq(Byte) /\ Len(t) = 3 /\ t[1] = x /\ t[2] = y /\ t[3] = z
    BY <1>3
  <2> HIDE DEF s, t
  <2>4. s[1] = t[1] /\ s[2] = t[2] /\ s[3] = t[3]
    <3>1. 2 + 1 - 1 = 2 /\ 2 + 2 - 1 = 3 /\ 2 + 3 - 1 = 4
      OBVIOUS
    <3>2. s[1] = w[2] /\ s[2] = w[3] /\ s[3] = w[4]
      BY <2>2, <3>1
    <3>3. QED
      BY <1>8, <2>3, <3>2
  <2>5. s = t
    BY <2>2, <2>3, <2>4
  <2>6. QED
    BY <2>5 DEF s, t
<1>10. Protected(f) = <<x, y, z, c>>
  <2>1. Protected(f) = <<x, y, z>> \o <<c>>
    BY <1>7, <1>8, <1>9
  <2>2. <<x, y, z>> \o <<c>> = <<x, y, z, c>>
    <3> DEFINE s == <<x, y, z>> t == <<c>> u == <<x, y, z, c>>
    <3>1. s \in Seq(Byte) /\ Len(s) = 3 /\ s[1] = x /\ s[2] = y /\ s[3] = z
          /\ t \in Seq(Byte) /\ Len(t) = 1 /\ t[1] = c
          /\ u \in Seq(Byte) /\ Len(u) = 4 /\ u[1] = x /\ u[2] = y /\ u[3] = z /\ u[4] = c
      BY <1>3, <1>4
    <3> HIDE DEF s, t, u
    <3>2. /\ s \o t \in Seq(Byte) /\ Len(s \o t) = Len(s) + Len(t)
          /\ \A i \in 1 .. Len(s) : (s \o t)[i] = s[i]
          /\ \A i \in 1 .. Len(t) : (s \o t)[Len(s) + i] = t[i]
      BY <3>1, Concatenated
    <3>3. /\ (s \o t)[1] = x /\ (s \o t)[2] = y /\ (s \o t)[3] = z
          /\ (s \o t)[3 + 1] = c
      BY <3>1, <3>2
    <3>4. s \o t = u
      BY <3>1, <3>2, <3>3
    <3>5. QED
      BY <3>4 DEF s, t, u
  <2>3. QED
    BY <2>1, <2>2
<1>11. <<x, y, z, c>> \in Four
  BY <1>3, <1>4 DEF Four
<1>12. QED
  BY <1>2, <1>3, <1>10, <1>11 DEF c

LEMMA InitHeader == Init => HeaderInv
<1> SUFFICES ASSUME Init PROVE HeaderInv
  OBVIOUS
<1>1. PICK d \in SentDlcis, r \in Role, k \in FrameKind, pf \in BOOLEAN, n \in SentLengths :
        frame = [dlci |-> d, role |-> r, kind |-> k, pf |-> pf, info |-> [i \in 1 .. n |-> 0]]
  BY DEF Init
<1>2. d \in 0 .. 63 /\ n \in 0 .. 127
  BY NoiseAssumption DEF MAX_INFO_LEN
<1> DEFINE s == [i \in 1 .. n |-> 0]
<1>3. s \in Seq(Byte) /\ Len(s) = n
  BY <1>2 DEF Byte
<1> HIDE DEF s
<1>4. frame \in Frame /\ frame.info = s
  BY <1>1, <1>2, <1>3 DEF Frame, s
<1>5. Len(frame.info) <= MAX_INFO_LEN
  BY <1>2, <1>3, <1>4 DEF MAX_INFO_LEN
<1>6. QED
  BY <1>4, <1>5, ProtectedIs DEF Init, HeaderInv

LEMMA PowerInByte ==
  ASSUME NEW j \in 0 .. 7
  PROVE  2^j \in Byte
<1>1. /\ 2^0 = 1 /\ 2^1 = 2 /\ 2^2 = 4 /\ 2^3 = 8
      /\ 2^4 = 16 /\ 2^5 = 32 /\ 2^6 = 64 /\ 2^7 = 128
  OBVIOUS
<1>2. 1 \in Byte /\ 2 \in Byte /\ 4 \in Byte /\ 8 \in Byte /\ 16 \in Byte /\ 32 \in Byte
      /\ 64 \in Byte /\ 128 \in Byte
  BY DEF Byte
<1>3. QED
  <2>1. 2^0 \in Byte /\ 2^1 \in Byte /\ 2^2 \in Byte /\ 2^3 \in Byte
        /\ 2^4 \in Byte /\ 2^5 \in Byte /\ 2^6 \in Byte /\ 2^7 \in Byte
    BY <1>1, <1>2
  <2>2. QED
    BY <2>1, Places, Zenon

LEMMA FlipPlaces ==
  ASSUME NEW i \in 0 .. 31
  PROVE  i \div 8 + 1 \in 1 .. 4 /\ i % 8 \in 0 .. 7
  OBVIOUS

LEMMA StepHeader == HeaderInv /\ [Next]_vars => HeaderInv'
<1> SUFFICES ASSUME HeaderInv, [Next]_vars PROVE HeaderInv'
  OBVIOUS
<1>1. ASSUME NEW i \in 0 .. 31, Flip(i) PROVE HeaderInv'
  <2>1. received' \in Four
    <3>1. received' = [received EXCEPT ![i \div 8 + 1] = Xor(@, 2^(i % 8))]
      BY <1>1 DEF Flip
    <3>2. received \in Four
      BY DEF HeaderInv
    <3> DEFINE m == i \div 8 + 1 e == 2^(i % 8)
    <3>3. m \in 1 .. 4 /\ e \in Byte
      BY FlipPlaces, PowerInByte
    <3>4. received[m] \in Byte
      BY <3>2, <3>3 DEF Four
    <3>5. Xor(received[m], e) \in Byte
      BY <3>3, <3>4, XorBits
    <3> HIDE DEF m, e
    <3>6. received' = [received EXCEPT ![m] = Xor(received[m], e)]
      BY <3>1 DEF m, e
    <3>7. QED
      BY <3>2, <3>3, <3>5, <3>6 DEF Four
  <2>2. frame' = frame /\ sent' = sent /\ flipped' = flipped \cup {i}
    BY <1>1 DEF Flip
  <2>3. Protected(frame)' = Protected(frame)
    BY <2>2 DEF Protected
  <2>4. QED
    BY <2>1, <2>2, <2>3 DEF HeaderInv
<1>2. CASE UNCHANGED vars
  BY <1>2 DEF vars, HeaderInv, Protected
<1>3. QED
  BY <1>1, <1>2 DEF Next

LEMMA HeaderInvariant == Spec => []HeaderInv
  BY InitHeader, StepHeader, PTL DEF Spec

\* The parsers read back what the encoder was asked to send, for every DLCI
\* from 0 to 63 and every length of the info field.
THEOREM HeaderSurvivesTheWire == Spec => []HeaderRoundTrip
<1>1. HeaderInv => HeaderRoundTrip
  <2> SUFFICES ASSUME HeaderInv, flipped = {}
               PROVE  /\ IsAddress(received[1]) /\ IsControl(received[2])
                      /\ from_byte(received[1]) = outgoing(frame.dlci, frame.role)
                      /\ from_ctrl(received[2]) = frame.kind
                      /\ pf_set(received[2]) = frame.pf
                      /\ received[3] \div 2 = Len(frame.info)
    BY DEF HeaderRoundTrip
  <2>1. frame \in Frame /\ Len(frame.info) <= MAX_INFO_LEN /\ received = Protected(frame)
    BY DEF HeaderInv
  <2>2. frame.dlci \in 0 .. 63 /\ frame.role \in Role /\ frame.kind \in FrameKind
        /\ frame.pf \in BOOLEAN /\ Len(frame.info) \in Nat
    BY <2>1 DEF Frame
  <2>3. PICK x, y, z \in Byte :
               header(frame) = <<x, y, z>> /\ Protected(frame) = <<x, y, z, fcs(<<x, y, z>>)>>
    BY <2>1, ProtectedIs
  <2>4. /\ x = to_byte(outgoing(frame.dlci, frame.role))
        /\ y = to_ctrl(frame.kind, frame.pf)
        /\ z = (2 * Len(frame.info) + 1) % 256
    BY <2>3 DEF header
  <2>5. received[1] = x /\ received[2] = y /\ received[3] = z
    BY <2>1, <2>3
  <2>6. z \div 2 = Len(frame.info)
    <3> DEFINE n == Len(frame.info)
    <3>1. n \in Nat /\ n <= MAX_INFO_LEN /\ z = (2 * n + 1) % 256
      BY <2>1, <2>2, <2>4
    <3> HIDE DEF n
    <3>2. z \div 2 = n
      BY <3>1 DEF MAX_INFO_LEN
    <3>3. QED
      BY <3>2 DEF n
  <2>7. IsAddress(x) /\ from_byte(x) = outgoing(frame.dlci, frame.role)
    BY <2>2, <2>4, AddressRoundTrip
  <2>8. IsControl(y) /\ from_ctrl(y) = frame.kind /\ pf_set(y) = frame.pf
    BY <2>2, <2>4, ControlRoundTrip
  <2>9. QED
    BY <2>5, <2>6, <2>7, <2>8
<1>2. QED
  BY HeaderInvariant, <1>1, PTL

-----------------------------------------------------------------------------
(* The shifts of 1, the residue that a flipped bit adds.                   *)

\* Entry n is 1 after n shifts.
Shifts ==
  << 224, 112, 56, 28, 14, 7, 227, 145, 168, 84, 42, 21, 234, 117, 218,
     109, 214, 107, 213, 138, 69, 194, 97, 208, 104, 52, 26, 13, 230,
     115, 217, 140 >>

LEMMA ShiftsAre ==
  /\ Shifts \in [1 .. 32 -> Byte]
  /\ Shift(1) = Shifts[1]
  /\ \A n \in 1 .. 31 : Shift(Shifts[n]) = Shifts[n + 1]
<1>1. /\ 224 \in Byte /\ 112 \in Byte /\ 56 \in Byte /\ 28 \in Byte /\ 14 \in Byte /\ 7 \in Byte
      /\ 227 \in Byte /\ 145 \in Byte /\ 168 \in Byte /\ 84 \in Byte /\ 42 \in Byte /\ 21 \in Byte
      /\ 234 \in Byte /\ 117 \in Byte /\ 218 \in Byte /\ 109 \in Byte /\ 214 \in Byte /\ 107 \in Byte
      /\ 213 \in Byte /\ 138 \in Byte /\ 69 \in Byte /\ 194 \in Byte /\ 97 \in Byte /\ 208 \in Byte
      /\ 104 \in Byte /\ 52 \in Byte /\ 26 \in Byte /\ 13 \in Byte /\ 230 \in Byte /\ 115 \in Byte
      /\ 217 \in Byte /\ 140 \in Byte
  BY DEF Byte
<1>2. 1 \in Byte /\ Shift(1) = 224
  <2>1. 1 \in Byte
    BY DEF Byte
  <2>2. QED
    BY <2>1, ShiftIs
<1>3. /\ Shift(224) = 112 /\ Shift(112) = 56 /\ Shift(56) = 28 /\ Shift(28) = 14
      /\ Shift(14) = 7 /\ Shift(7) = 227 /\ Shift(227) = 145 /\ Shift(145) = 168
  BY <1>1, ShiftIs
<1>4. /\ Shift(168) = 84 /\ Shift(84) = 42 /\ Shift(42) = 21 /\ Shift(21) = 234
      /\ Shift(234) = 117 /\ Shift(117) = 218 /\ Shift(218) = 109 /\ Shift(109) = 214
  BY <1>1, ShiftIs
<1>5. /\ Shift(214) = 107 /\ Shift(107) = 213 /\ Shift(213) = 138 /\ Shift(138) = 69
      /\ Shift(69) = 194 /\ Shift(194) = 97 /\ Shift(97) = 208 /\ Shift(208) = 104
  BY <1>1, ShiftIs
<1>6. /\ Shift(104) = 52 /\ Shift(52) = 26 /\ Shift(26) = 13 /\ Shift(13) = 230
      /\ Shift(230) = 115 /\ Shift(115) = 217 /\ Shift(217) = 140
  BY <1>1, ShiftIs
<1>7. /\ Shifts[1] = 224 /\ Shifts[2] = 112 /\ Shifts[3] = 56 /\ Shifts[4] = 28 /\ Shifts[5] = 14
      /\ Shifts[6] = 7 /\ Shifts[7] = 227 /\ Shifts[8] = 145 /\ Shifts[9] = 168 /\ Shifts[10] = 84
      /\ Shifts[11] = 42 /\ Shifts[12] = 21 /\ Shifts[13] = 234 /\ Shifts[14] = 117 /\ Shifts[15] = 218
      /\ Shifts[16] = 109 /\ Shifts[17] = 214 /\ Shifts[18] = 107 /\ Shifts[19] = 213 /\ Shifts[20] = 138
      /\ Shifts[21] = 69 /\ Shifts[22] = 194 /\ Shifts[23] = 97 /\ Shifts[24] = 208 /\ Shifts[25] = 104
      /\ Shifts[26] = 52 /\ Shifts[27] = 26 /\ Shifts[28] = 13 /\ Shifts[29] = 230 /\ Shifts[30] = 115
      /\ Shifts[31] = 217 /\ Shifts[32] = 140
  BY DEF Shifts
<1>8. Shifts \in [1 .. 32 -> Byte]
  BY <1>1 DEF Shifts
<1>9. ASSUME NEW n \in 1 .. 31 PROVE Shift(Shifts[n]) = Shifts[n + 1]
  <2>1. /\ Shift(Shifts[1]) = Shifts[1 + 1] /\ Shift(Shifts[2]) = Shifts[2 + 1]
        /\ Shift(Shifts[3]) = Shifts[3 + 1] /\ Shift(Shifts[4]) = Shifts[4 + 1]
        /\ Shift(Shifts[5]) = Shifts[5 + 1] /\ Shift(Shifts[6]) = Shifts[6 + 1]
        /\ Shift(Shifts[7]) = Shifts[7 + 1] /\ Shift(Shifts[8]) = Shifts[8 + 1]
        /\ Shift(Shifts[9]) = Shifts[9 + 1] /\ Shift(Shifts[10]) = Shifts[10 + 1]
        /\ Shift(Shifts[11]) = Shifts[11 + 1] /\ Shift(Shifts[12]) = Shifts[12 + 1]
        /\ Shift(Shifts[13]) = Shifts[13 + 1] /\ Shift(Shifts[14]) = Shifts[14 + 1]
        /\ Shift(Shifts[15]) = Shifts[15 + 1] /\ Shift(Shifts[16]) = Shifts[16 + 1]
        /\ Shift(Shifts[17]) = Shifts[17 + 1] /\ Shift(Shifts[18]) = Shifts[18 + 1]
        /\ Shift(Shifts[19]) = Shifts[19 + 1] /\ Shift(Shifts[20]) = Shifts[20 + 1]
        /\ Shift(Shifts[21]) = Shifts[21 + 1] /\ Shift(Shifts[22]) = Shifts[22 + 1]
        /\ Shift(Shifts[23]) = Shifts[23 + 1] /\ Shift(Shifts[24]) = Shifts[24 + 1]
        /\ Shift(Shifts[25]) = Shifts[25 + 1] /\ Shift(Shifts[26]) = Shifts[26 + 1]
        /\ Shift(Shifts[27]) = Shifts[27 + 1] /\ Shift(Shifts[28]) = Shifts[28 + 1]
        /\ Shift(Shifts[29]) = Shifts[29 + 1] /\ Shift(Shifts[30]) = Shifts[30 + 1]
        /\ Shift(Shifts[31]) = Shifts[31 + 1]
    BY <1>3, <1>4, <1>5, <1>6, <1>7
  <2>2. n = 1 \/ n = 2 \/ n = 3 \/ n = 4 \/ n = 5 \/ n = 6 \/ n = 7 \/ n = 8 \/ n = 9 \/ n = 10
        \/ n = 11 \/ n = 12 \/ n = 13 \/ n = 14 \/ n = 15 \/ n = 16 \/ n = 17 \/ n = 18 \/ n = 19 \/ n = 20
        \/ n = 21 \/ n = 22 \/ n = 23 \/ n = 24 \/ n = 25 \/ n = 26 \/ n = 27 \/ n = 28 \/ n = 29 \/ n = 30 \/ n = 31
    OBVIOUS
  <2>3. QED
    BY <2>1, <2>2, Zenon
<1>10. QED
  BY <1>2, <1>7, <1>8, <1>9

LEMMA ShiftsDiffer ==
  ASSUME NEW m \in 1 .. 32, NEW n \in 1 .. 32, Shifts[m] = Shifts[n]
  PROVE  m = n
  BY SMTT(60) DEF Shifts

LEMMA TableOfPowers ==
  ASSUME NEW j \in 0 .. 7
  PROVE  TABLE[2^j] = Shifts[8 - j]
<1>1. /\ 2^0 = 1 /\ 2^1 = 2 /\ 2^2 = 4 /\ 2^3 = 8
      /\ 2^4 = 16 /\ 2^5 = 32 /\ 2^6 = 64 /\ 2^7 = 128
  OBVIOUS
<1>2. /\ 1 \in Byte /\ 2 \in Byte /\ 4 \in Byte /\ 8 \in Byte
      /\ 16 \in Byte /\ 32 \in Byte /\ 64 \in Byte /\ 128 \in Byte
  BY DEF Byte
<1>3. /\ Shift(128) = 64 /\ Shift(64) = 32 /\ Shift(32) = 16 /\ Shift(16) = 8
      /\ Shift(8) = 4 /\ Shift(4) = 2 /\ Shift(2) = 1
  BY <1>2, ShiftIs
<1>4. /\ Shift(1) = Shifts[1] /\ Shift(Shifts[1]) = Shifts[2]
      /\ Shift(Shifts[2]) = Shifts[3] /\ Shift(Shifts[3]) = Shifts[4]
      /\ Shift(Shifts[4]) = Shifts[5] /\ Shift(Shifts[5]) = Shifts[6]
      /\ Shift(Shifts[6]) = Shifts[7] /\ Shift(Shifts[7]) = Shifts[8]
  <2>1. Shift(1) = Shifts[1] /\ \A n \in 1 .. 31 : Shift(Shifts[n]) = Shifts[n + 1]
    BY ShiftsAre
  <2>2. QED
    BY <2>1
<1>5. /\ TABLE[1] = Shifts[8] /\ TABLE[2] = Shifts[7] /\ TABLE[4] = Shifts[6]
      /\ TABLE[8] = Shifts[5] /\ TABLE[16] = Shifts[4] /\ TABLE[32] = Shifts[3]
      /\ TABLE[64] = Shifts[2] /\ TABLE[128] = Shifts[1]
  BY <1>2, <1>3, <1>4, TableIs
<1>6. /\ TABLE[2^0] = Shifts[8 - 0] /\ TABLE[2^1] = Shifts[8 - 1] /\ TABLE[2^2] = Shifts[8 - 2]
      /\ TABLE[2^3] = Shifts[8 - 3] /\ TABLE[2^4] = Shifts[8 - 4] /\ TABLE[2^5] = Shifts[8 - 5]
      /\ TABLE[2^6] = Shifts[8 - 6] /\ TABLE[2^7] = Shifts[8 - 7]
  BY <1>1, <1>5
<1>7. QED
  BY <1>6, Places, Zenon

LEMMA TableOfShifts ==
  ASSUME NEW n \in 1 .. 24
  PROVE  TABLE[Shifts[n]] = Shifts[n + 8]
<1>1. \A k \in 1 .. 31 : Shift(Shifts[k]) = Shifts[k + 1]
  BY ShiftsAre
<1>2. /\ Shift(Shifts[n]) = Shifts[n + 1] /\ Shift(Shifts[n + 1]) = Shifts[n + 2]
      /\ Shift(Shifts[n + 2]) = Shifts[n + 3] /\ Shift(Shifts[n + 3]) = Shifts[n + 4]
      /\ Shift(Shifts[n + 4]) = Shifts[n + 5] /\ Shift(Shifts[n + 5]) = Shifts[n + 6]
      /\ Shift(Shifts[n + 6]) = Shifts[n + 7] /\ Shift(Shifts[n + 7]) = Shifts[n + 8]
  <2>1. /\ n \in 1 .. 31 /\ n + 1 \in 1 .. 31 /\ n + 1 + 1 = n + 2
        /\ n + 2 \in 1 .. 31 /\ n + 2 + 1 = n + 3 /\ n + 3 \in 1 .. 31 /\ n + 3 + 1 = n + 4
        /\ n + 4 \in 1 .. 31 /\ n + 4 + 1 = n + 5 /\ n + 5 \in 1 .. 31 /\ n + 5 + 1 = n + 6
        /\ n + 6 \in 1 .. 31 /\ n + 6 + 1 = n + 7 /\ n + 7 \in 1 .. 31 /\ n + 7 + 1 = n + 8
    OBVIOUS
  <2>2. QED
    BY <1>1, <2>1
<1>3. Shifts[n] \in Byte
  BY ShiftsAre
<1>4. QED
  BY <1>2, <1>3, TableIs

-----------------------------------------------------------------------------
(* The residue of a received header: what check() compares with 0xCF.      *)

Residue(r) == update(update(update(update(INIT, r[1]), r[2]), r[3]), r[4])

\* Position i of the header is shifted 32 - i times before the check is done.
Effect(i) == Shifts[32 - i]

LEMMA CheckIsResidue ==
  ASSUME NEW r \in Four
  PROVE  /\ SubSeq(r, 1, 3) = <<r[1], r[2], r[3]>>
         /\ check(SubSeq(r, 1, 3), r[4]) <=> Residue(r) = GOOD_FCS
<1>1. r[1] \in Byte /\ r[2] \in Byte /\ r[3] \in Byte /\ r[4] \in Byte
  BY DEF Four
<1> DEFINE s == SubSeq(r, 1, 3) t == <<r[1], r[2], r[3]>>
<1>2. s \in Seq(Byte) /\ Len(s) = 3 /\ s[1] = r[1] /\ s[2] = r[2] /\ s[3] = r[3]
  <2>1. 1 \in Int /\ 3 \in Int /\ \A i \in 1 .. 3 : r[i] \in Byte
    BY <1>1
  <2>2. s \in Seq(Byte) /\ Len(s) = 3 - 1 + 1 /\ \A i \in 1 .. 3 - 1 + 1 : s[i] = r[1 + i - 1]
    BY <2>1, SubSeqProperties
  <2>3. 3 - 1 + 1 = 3 /\ 1 + 1 - 1 = 1 /\ 1 + 2 - 1 = 2 /\ 1 + 3 - 1 = 3
    OBVIOUS
  <2>4. QED
    BY <2>2, <2>3
<1>3. t \in Seq(Byte) /\ Len(t) = 3 /\ t[1] = r[1] /\ t[2] = r[2] /\ t[3] = r[3]
  BY <1>1
<1> HIDE DEF s, t
<1>4. s = t
  BY <1>2, <1>3
<1>5. check(t, r[4]) <=> Residue(r) = GOOD_FCS
  BY RunIs DEF check, Residue, t
<1>6. QED
  BY <1>4, <1>5 DEF s, t

LEMMA UpdateXor ==
  ASSUME NEW a \in Byte, NEW b \in Byte, NEW d \in Byte
  PROVE  /\ update(a, b) \in Byte
         /\ update(Xor(a, d), b) = Xor(update(a, b), TABLE[d])
         /\ update(a, Xor(b, d)) = Xor(update(a, b), TABLE[d])
<1>1. Xor(a, b) \in Byte /\ TABLE[Xor(a, b)] \in Byte
  BY XorBits, TableXor
<1>2. Xor(a, Xor(b, d)) = Xor(Xor(a, b), d)
  BY XorLaws
<1>3. Xor(Xor(a, d), b) = Xor(Xor(a, b), d)
  <2>1. Xor(a, Xor(d, b)) = Xor(Xor(a, d), b) /\ Xor(d, b) = Xor(b, d)
    BY XorLaws
  <2>2. QED
    BY <1>2, <2>1
<1>4. TABLE[Xor(Xor(a, b), d)] = Xor(TABLE[Xor(a, b)], TABLE[d])
  BY <1>1, TableXor
<1>5. QED
  BY <1>1, <1>2, <1>3, <1>4 DEF update

LEMMA FlipResidue ==
  ASSUME NEW r \in Four, NEW i \in 0 .. 31
  PROVE  /\ Residue(r) \in Byte
         /\ Residue([r EXCEPT ![i \div 8 + 1] = Xor(@, 2^(i % 8))])
              = Xor(Residue(r), Effect(i))
<1> DEFINE m == i \div 8 + 1
           j == i % 8
           e == 2^j
           q == [r EXCEPT ![m] = Xor(@, e)]
<1>1. m \in 1 .. 4 /\ j \in 0 .. 7 /\ i = 8 * (m - 1) + j
  OBVIOUS
<1> HIDE DEF m, j
<1>2. e \in Byte /\ TABLE[e] = Shifts[8 - j]
  BY <1>1, PowerInByte, TableOfPowers
<1> HIDE DEF e
<1>3. r[1] \in Byte /\ r[2] \in Byte /\ r[3] \in Byte /\ r[4] \in Byte /\ INIT \in Byte
  BY DEF Four, INIT, Byte
<1>4. /\ q[m] = Xor(r[m], e) /\ \A k \in 1 .. 4 : k # m => q[k] = r[k]
  BY <1>1 DEF Four
<1> HIDE DEF q
<1> DEFINE c1 == update(INIT, r[1])
           c2 == update(c1, r[2])
           c3 == update(c2, r[3])
           c4 == update(c3, r[4])
<1>5. c1 \in Byte /\ c2 \in Byte /\ c3 \in Byte /\ c4 \in Byte
  <2>1. \A a, b \in Byte : update(a, b) \in Byte
    BY UpdateXor
  <2>2. QED
    BY <1>3, <2>1
<1>6. Residue(r) = c4
  BY DEF Residue
<1> DEFINE t1 == Shifts[8 - j] t2 == Shifts[16 - j] t3 == Shifts[24 - j] t4 == Shifts[32 - j]
<1>7. /\ t1 \in Byte /\ t2 \in Byte /\ t3 \in Byte /\ t4 \in Byte
      /\ TABLE[t1] = t2 /\ TABLE[t2] = t3 /\ TABLE[t3] = t4
  <2>1. /\ 8 - j \in 1 .. 24 /\ 16 - j \in 1 .. 24 /\ 24 - j \in 1 .. 24 /\ 32 - j \in 1 .. 32
        /\ (8 - j) + 8 = 16 - j /\ (16 - j) + 8 = 24 - j /\ (24 - j) + 8 = 32 - j
    BY <1>1
  <2>2. t1 \in Byte /\ t2 \in Byte /\ t3 \in Byte /\ t4 \in Byte
    BY <2>1, ShiftsAre
  <2>3. TABLE[t1] = Shifts[(8 - j) + 8] /\ TABLE[t2] = Shifts[(16 - j) + 8]
        /\ TABLE[t3] = Shifts[(24 - j) + 8]
    BY <2>1, TableOfShifts
  <2>4. QED
    BY <2>1, <2>2, <2>3
<1>8. TABLE[e] = t1
  BY <1>2
<1> HIDE DEF c1, c2, c3, c4, t1, t2, t3, t4
<1>9. /\ update(INIT, Xor(r[1], e)) = Xor(c1, t1)
      /\ update(c1, Xor(r[2], e)) = Xor(c2, t1)
      /\ update(c2, Xor(r[3], e)) = Xor(c3, t1)
      /\ update(c3, Xor(r[4], e)) = Xor(c4, t1)
  BY <1>2, <1>3, <1>5, <1>8, UpdateXor DEF c1, c2, c3, c4
<1>10. /\ update(Xor(c1, t1), r[2]) = Xor(c2, t2)
       /\ update(Xor(c2, t1), r[3]) = Xor(c3, t2)
       /\ update(Xor(c3, t1), r[4]) = Xor(c4, t2)
       /\ update(Xor(c2, t2), r[3]) = Xor(c3, t3)
       /\ update(Xor(c3, t2), r[4]) = Xor(c4, t3)
       /\ update(Xor(c3, t3), r[4]) = Xor(c4, t4)
  BY <1>3, <1>5, <1>7, UpdateXor DEF c2, c3, c4
<1>11. Residue(q) = Xor(c4, Effect(i))
  <2>1. CASE m = 1
    <3>1. q[1] = Xor(r[1], e) /\ q[2] = r[2] /\ q[3] = r[3] /\ q[4] = r[4]
      BY <1>4, <2>1
    <3>2. Residue(q) = Xor(c4, t4)
      BY <3>1, <1>9, <1>10 DEF Residue
    <3>3. 32 - i = 32 - j
      BY <1>1, <2>1
    <3>4. QED
      BY <3>2, <3>3 DEF Effect, t4
  <2>2. CASE m = 2
    <3>1. q[1] = r[1] /\ q[2] = Xor(r[2], e) /\ q[3] = r[3] /\ q[4] = r[4]
      BY <1>4, <2>2
    <3>2. Residue(q) = Xor(c4, t3)
      BY <3>1, <1>9, <1>10 DEF Residue, c1
    <3>3. 32 - i = 24 - j
      BY <1>1, <2>2
    <3>4. QED
      BY <3>2, <3>3 DEF Effect, t3
  <2>3. CASE m = 3
    <3>1. q[1] = r[1] /\ q[2] = r[2] /\ q[3] = Xor(r[3], e) /\ q[4] = r[4]
      BY <1>4, <2>3
    <3>2. Residue(q) = Xor(c4, t2)
      BY <3>1, <1>9, <1>10 DEF Residue, c1, c2
    <3>3. 32 - i = 16 - j
      BY <1>1, <2>3
    <3>4. QED
      BY <3>2, <3>3 DEF Effect, t2
  <2>4. CASE m = 4
    <3>1. q[1] = r[1] /\ q[2] = r[2] /\ q[3] = r[3] /\ q[4] = Xor(r[4], e)
      BY <1>4, <2>4
    <3>2. Residue(q) = Xor(c4, t1)
      BY <3>1, <1>9, <1>10 DEF Residue, c1, c2, c3
    <3>3. 32 - i = 8 - j
      BY <1>1, <2>4
    <3>4. QED
      BY <3>2, <3>3 DEF Effect, t1
  <2>5. QED
    BY <1>1, <2>1, <2>2, <2>3, <2>4
<1>12. QED
  BY <1>5, <1>6, <1>11 DEF q, e, m, j

-----------------------------------------------------------------------------
(* The polynomial is divisible by x + 1: the table keeps the parity.       *)

Parity(b) ==
  (Bit(b, 0) + Bit(b, 1) + Bit(b, 2) + Bit(b, 3)
     + Bit(b, 4) + Bit(b, 5) + Bit(b, 6) + Bit(b, 7)) % 2

LEMMA ParityXor ==
  ASSUME NEW a \in Byte, NEW b \in Byte
  PROVE  /\ Parity(a) \in 0 .. 1
         /\ Parity(Xor(a, b)) = (Parity(a) + Parity(b)) % 2
<1>1. /\ Bit(a, 0) \in 0 .. 1 /\ Bit(b, 0) \in 0 .. 1 /\ Bit(a, 1) \in 0 .. 1 /\ Bit(b, 1) \in 0 .. 1
      /\ Bit(a, 2) \in 0 .. 1 /\ Bit(b, 2) \in 0 .. 1 /\ Bit(a, 3) \in 0 .. 1 /\ Bit(b, 3) \in 0 .. 1
      /\ Bit(a, 4) \in 0 .. 1 /\ Bit(b, 4) \in 0 .. 1 /\ Bit(a, 5) \in 0 .. 1 /\ Bit(b, 5) \in 0 .. 1
      /\ Bit(a, 6) \in 0 .. 1 /\ Bit(b, 6) \in 0 .. 1 /\ Bit(a, 7) \in 0 .. 1 /\ Bit(b, 7) \in 0 .. 1
  BY BitIs
<1>2. /\ Bit(Xor(a, b), 0) = (Bit(a, 0) + Bit(b, 0)) % 2
      /\ Bit(Xor(a, b), 1) = (Bit(a, 1) + Bit(b, 1)) % 2
      /\ Bit(Xor(a, b), 2) = (Bit(a, 2) + Bit(b, 2)) % 2
      /\ Bit(Xor(a, b), 3) = (Bit(a, 3) + Bit(b, 3)) % 2
      /\ Bit(Xor(a, b), 4) = (Bit(a, 4) + Bit(b, 4)) % 2
      /\ Bit(Xor(a, b), 5) = (Bit(a, 5) + Bit(b, 5)) % 2
      /\ Bit(Xor(a, b), 6) = (Bit(a, 6) + Bit(b, 6)) % 2
      /\ Bit(Xor(a, b), 7) = (Bit(a, 7) + Bit(b, 7)) % 2
  BY XorBits
<1>3. QED
  BY <1>1, <1>2, SMTT(60) DEF Parity

LEMMA ParityShift ==
  ASSUME NEW c \in Byte
  PROVE  Parity(Shift(c)) = Parity(c)
<1>1. /\ Bit(c, 0) \in 0 .. 1 /\ Bit(c, 1) \in 0 .. 1 /\ Bit(c, 2) \in 0 .. 1 /\ Bit(c, 3) \in 0 .. 1
      /\ Bit(c, 4) \in 0 .. 1 /\ Bit(c, 5) \in 0 .. 1 /\ Bit(c, 6) \in 0 .. 1 /\ Bit(c, 7) \in 0 .. 1
  BY BitIs
<1>2. /\ Bit(Shift(c), 0) = (Bit(c, 0 + 1) + 0) % 2 /\ Bit(Shift(c), 1) = (Bit(c, 1 + 1) + 0) % 2
      /\ Bit(Shift(c), 2) = (Bit(c, 2 + 1) + 0) % 2 /\ Bit(Shift(c), 3) = (Bit(c, 3 + 1) + 0) % 2
      /\ Bit(Shift(c), 4) = (Bit(c, 4 + 1) + 0) % 2
      /\ Bit(Shift(c), 5) = (Bit(c, 5 + 1) + Bit(c, 0)) % 2
      /\ Bit(Shift(c), 6) = (Bit(c, 6 + 1) + Bit(c, 0)) % 2
      /\ Bit(Shift(c), 7) = Bit(c, 0)
  BY ShiftBits
<1>3. /\ Bit(Shift(c), 0) = Bit(c, 1) /\ Bit(Shift(c), 1) = Bit(c, 2) /\ Bit(Shift(c), 2) = Bit(c, 3)
      /\ Bit(Shift(c), 3) = Bit(c, 4) /\ Bit(Shift(c), 4) = Bit(c, 5)
      /\ Bit(Shift(c), 5) = (Bit(c, 6) + Bit(c, 0)) % 2
      /\ Bit(Shift(c), 6) = (Bit(c, 7) + Bit(c, 0)) % 2
  BY <1>1, <1>2
<1>4. QED
  BY <1>1, <1>2, <1>3, SMTT(60) DEF Parity

LEMMA ParityOfEffects ==
  ASSUME NEW n \in 1 .. 32
  PROVE  Parity(Shifts[n]) = 1
<1>1. \A k \in 1 .. 31 : Parity(Shifts[k + 1]) = Parity(Shifts[k])
  BY ShiftsAre, ParityShift
<1>2. Parity(1) = 1
  <2>1. 0 \in 0 .. 1 /\ 1 \in 0 .. 1
        /\ 1 = 1 + 2 * 0 + 4 * 0 + 8 * 0 + 16 * 0 + 32 * 0 + 64 * 0 + 128 * 0
    OBVIOUS
  <2>2. /\ Bit(1, 0) = 1 /\ Bit(1, 1) = 0 /\ Bit(1, 2) = 0 /\ Bit(1, 3) = 0
        /\ Bit(1, 4) = 0 /\ Bit(1, 5) = 0 /\ Bit(1, 6) = 0 /\ Bit(1, 7) = 0
    BY <2>1, BitsAre
  <2>3. QED
    BY <2>2 DEF Parity
<1>3. Parity(Shifts[1]) = 1
  <2>1. 1 \in Byte
    BY DEF Byte
  <2>2. QED
    BY <1>2, <2>1, ShiftsAre, ParityShift
<1> DEFINE P(k) == Parity(Shifts[k])
<1>4. P(1) = 1 /\ \A k \in 1 .. 31 : P(k + 1) = P(k)
  BY <1>1, <1>3
<1> HIDE DEF P
<1>5. \A k \in 1 .. 29 : P(k + 1) = P(k) /\ P(k + 2) = P(k) /\ P(k + 3) = P(k)
  <2> TAKE k \in 1 .. 29
  <2>1. k \in 1 .. 31 /\ k + 1 \in 1 .. 31 /\ k + 2 \in 1 .. 31
        /\ (k + 1) + 1 = k + 2 /\ (k + 2) + 1 = k + 3
    OBVIOUS
  <2>2. QED
    BY <2>1, <1>4
<1>6. /\ P(5) = P(1) /\ P(9) = P(5) /\ P(13) = P(9) /\ P(17) = P(13)
      /\ P(21) = P(17) /\ P(25) = P(21) /\ P(29) = P(25)
  <2>1. \A k \in 1 .. 28 : P(k + 4) = P(k)
    <3> TAKE k \in 1 .. 28
    <3>1. k \in 1 .. 29 /\ k + 3 \in 1 .. 31 /\ (k + 3) + 1 = k + 4
      OBVIOUS
    <3>2. QED
      BY <3>1, <1>4, <1>5
  <2>2. P(1 + 4) = P(1) /\ P(5 + 4) = P(5) /\ P(9 + 4) = P(9) /\ P(13 + 4) = P(13)
        /\ P(17 + 4) = P(17) /\ P(21 + 4) = P(21) /\ P(25 + 4) = P(25)
    BY <2>1
  <2>3. QED
    BY <2>2
<1>7. PICK k \in {1, 5, 9, 13, 17, 21, 25, 29} : n = k \/ n = k + 1 \/ n = k + 2 \/ n = k + 3
  OBVIOUS
<1>8. P(k) = 1 /\ k \in 1 .. 29
  BY <1>4, <1>6
<1>9. P(n) = 1
  BY <1>5, <1>7, <1>8
<1>10. QED
  BY <1>9 DEF P

LEMMA ParityOfGood == Parity(GOOD_FCS) = 0 /\ GOOD_FCS \in Byte
<1>1. 0 \in 0 .. 1 /\ 1 \in 0 .. 1
      /\ 207 = 1 + 2 * 1 + 4 * 1 + 8 * 1 + 16 * 0 + 32 * 0 + 64 * 1 + 128 * 1
  OBVIOUS
<1>2. /\ Bit(207, 0) = 1 /\ Bit(207, 1) = 1 /\ Bit(207, 2) = 1 /\ Bit(207, 3) = 1
      /\ Bit(207, 4) = 0 /\ Bit(207, 5) = 0 /\ Bit(207, 6) = 1 /\ Bit(207, 7) = 1
  BY <1>1, BitsAre
<1>3. QED
  BY <1>2 DEF Parity, GOOD_FCS, Byte

LEMMA EffectsDiffer ==
  ASSUME NEW i \in 0 .. 31, NEW j \in 0 .. 31
  PROVE  /\ Effect(i) \in Byte /\ Parity(Effect(i)) = 1
         /\ Effect(i) = Effect(j) => i = j
<1>1. 32 - i \in 1 .. 32 /\ 32 - j \in 1 .. 32
  OBVIOUS
<1>2. Shifts[32 - i] = Shifts[32 - j] => 32 - i = 32 - j
  BY <1>1, ShiftsDiffer
<1>3. QED
  BY <1>1, <1>2, ShiftsAre, ParityOfEffects DEF Effect

-----------------------------------------------------------------------------
(* The residue says how the header was damaged.                            *)

Damage(c) ==
  \/ flipped = {} /\ c = GOOD_FCS
  \/ \E i \in 0 .. 31 : flipped = {i} /\ c = Xor(GOOD_FCS, Effect(i))
  \/ \E i, j \in 0 .. 31 :
       i # j /\ flipped = {i, j} /\ c = Xor(Xor(GOOD_FCS, Effect(i)), Effect(j))
  \/ Cardinality(flipped) > 2

NoiseInv ==
  /\ HeaderInv
  /\ IsFiniteSet(flipped) /\ Cardinality(flipped) <= MaxFlips
  /\ Parity(Residue(received)) = Cardinality(flipped) % 2
  /\ Damage(Residue(received))

LEMMA InitNoise == Init => NoiseInv
<1> SUFFICES ASSUME Init PROVE NoiseInv
  OBVIOUS
<1>1. HeaderInv
  BY InitHeader
<1>2. flipped = {} /\ received = Protected(frame) /\ received \in Four
      /\ frame \in Frame /\ Len(frame.info) <= MAX_INFO_LEN
  BY <1>1 DEF Init, HeaderInv
<1>3. PICK x, y, z \in Byte : received = <<x, y, z, fcs(<<x, y, z>>)>>
  BY <1>2, ProtectedIs
<1>4. received[1] = x /\ received[2] = y /\ received[3] = z /\ received[4] = fcs(<<x, y, z>>)
      /\ received[4] \in Byte
  <2>1. received[1] = x /\ received[2] = y /\ received[3] = z /\ received[4] = fcs(<<x, y, z>>)
    BY <1>3
  <2>2. QED
    BY <1>2, <2>1 DEF Four
<1>5. check(<<x, y, z>>, received[4])
  BY <1>4, CheckAcceptsOnlyFcs
<1>6. Residue(received) = GOOD_FCS
  BY <1>2, <1>4, <1>5, CheckIsResidue
<1>7. IsFiniteSet(flipped) /\ Cardinality(flipped) = 0
  BY <1>2, FS_EmptySet
<1>8. QED
  BY <1>1, <1>2, <1>6, <1>7, ParityOfGood, NoiseAssumption DEF NoiseInv, Damage

LEMMA StepNoise == NoiseInv /\ [Next]_vars => NoiseInv'
<1> SUFFICES ASSUME NoiseInv, [Next]_vars PROVE NoiseInv'
  OBVIOUS
<1>1. HeaderInv /\ HeaderInv' /\ received \in Four
  BY StepHeader DEF NoiseInv, HeaderInv
<1>2. ASSUME NEW k \in 0 .. 31, Flip(k) PROVE NoiseInv'
  <2> DEFINE c == Residue(received)
             n == Cardinality(flipped)
  <2>1. /\ n < MaxFlips /\ k \notin flipped /\ flipped' = flipped \cup {k}
        /\ received' = [received EXCEPT ![k \div 8 + 1] = Xor(@, 2^(k % 8))]
    <3>1. \A j \in flipped : j < k
      BY <1>2 DEF Flip
    <3>2. ~(k < k)
      OBVIOUS
    <3>3. QED
      BY <1>2, <3>1, <3>2 DEF Flip
  <2>2. c \in Byte /\ Residue(received)' = Xor(c, Effect(k))
    BY <1>1, <2>1, FlipResidue DEF Residue
  <2>3. IsFiniteSet(flipped) /\ n \in Nat
    BY FS_CardinalityType DEF NoiseInv
  <2>4. IsFiniteSet(flipped') /\ Cardinality(flipped') = n + 1
    BY <2>1, <2>3, FS_AddElement
  <2>5. Effect(k) \in Byte /\ Parity(Effect(k)) = 1
    BY EffectsDiffer
  <2>6. Parity(c) = n % 2 /\ Damage(c)
    BY DEF NoiseInv
  <2>7. Cardinality(flipped)' <= MaxFlips
    BY <2>1, <2>3, <2>4, NoiseAssumption
  <2>8. Parity(Residue(received))' = Cardinality(flipped)' % 2
    <3>1. Parity(Xor(c, Effect(k))) = (Parity(c) + 1) % 2
      BY <2>2, <2>5, ParityXor
    <3>2. ((n % 2) + 1) % 2 = (n + 1) % 2
      BY <2>3
    <3>3. Parity(Residue(received))' = Parity(Xor(c, Effect(k)))
      BY <2>2 DEF Parity
    <3>4. QED
      BY <2>4, <2>6, <3>1, <3>2, <3>3
  <2> DEFINE d == Xor(c, Effect(k))
  <2>9. Damage(Residue(received))'
    <3>1. CASE flipped = {} /\ c = GOOD_FCS
      <4>1. flipped' = {k} /\ d = Xor(GOOD_FCS, Effect(k))
        BY <2>1, <3>1
      <4>2. QED
        BY <2>2, <4>1 DEF Damage, Effect
    <3>2. CASE \E i \in 0 .. 31 : flipped = {i} /\ c = Xor(GOOD_FCS, Effect(i))
      <4>1. PICK i \in 0 .. 31 : flipped = {i} /\ c = Xor(GOOD_FCS, Effect(i))
        BY <3>2
      <4>2. i # k /\ flipped' = {i, k} /\ d = Xor(Xor(GOOD_FCS, Effect(i)), Effect(k))
        BY <2>1, <4>1
      <4>3. QED
        BY <2>2, <4>2 DEF Damage, Effect
    <3>3. CASE \E i, j \in 0 .. 31 :
                 i # j /\ flipped = {i, j} /\ c = Xor(Xor(GOOD_FCS, Effect(i)), Effect(j))
      <4>1. PICK i \in 0 .. 31, j \in 0 .. 31 : i # j /\ flipped = {i, j}
        BY <3>3
      <4>2. n = 2
        <5>1. flipped = {i} \cup {j} /\ j \notin {i}
          BY <4>1
        <5>2. IsFiniteSet({i}) /\ Cardinality({i}) = 1
          BY FS_Singleton
        <5>3. QED
          BY <5>1, <5>2, FS_AddElement
      <4>3. QED
        BY <2>4, <4>2 DEF Damage
    <3>4. CASE n > 2
      BY <2>3, <2>4, <3>4 DEF Damage
    <3>5. QED
      BY <2>6, <3>1, <3>2, <3>3, <3>4 DEF Damage
  <2>10. QED
    BY <1>1, <2>4, <2>7, <2>8, <2>9 DEF NoiseInv
<1>3. CASE UNCHANGED vars
  BY <1>1, <1>3 DEF vars, NoiseInv, Residue, Damage, Parity
<1>4. QED
  BY <1>2, <1>3 DEF Next

LEMMA NoiseInvariant == Spec => []NoiseInv
  BY InitNoise, StepNoise, PTL DEF Spec

\* An undamaged header passes the check, and one damaged in one, two or
\* three bits does not: check() of fcs.rs has Hamming distance 4 over the
\* four octets it reads.  Not 5: the polynomial has four terms, and flipping
\* four bits that lie like them leaves the residue as it was.
THEOREM CheckDetectsThreeFlips == MaxFlips <= 3 => (Spec => []CheckDetectsFlips)
<1> SUFFICES ASSUME MaxFlips <= 3 PROVE Spec => []CheckDetectsFlips
  OBVIOUS
<1>1. NoiseInv => CheckDetectsFlips
  <2> SUFFICES ASSUME NoiseInv PROVE CheckDetectsFlips
    OBVIOUS
  <2> DEFINE c == Residue(received)
             n == Cardinality(flipped)
  <2>1. received \in Four /\ Parity(c) = n % 2 /\ Damage(c) /\ n \in Nat /\ n <= 3
    BY FS_CardinalityType, NoiseAssumption DEF NoiseInv, HeaderInv
  <2>2. check(SubSeq(received, 1, 3), received[4]) <=> c = GOOD_FCS
    BY <2>1, CheckIsResidue
  <2> HIDE DEF c
  <2>3. \A a, b \in Byte : Xor(Xor(a, b), b) = a
    <3> TAKE a, b \in Byte
    <3>1. Xor(a, Xor(b, b)) = Xor(Xor(a, b), b) /\ Xor(b, b) = 0 /\ Xor(a, 0) = a
      BY XorLaws
    <3>2. QED
      BY <3>1
  <2>4. \A a, b \in Byte : Xor(a, b) \in Byte /\ Xor(a, b) = Xor(b, a)
    BY XorBits, XorLaws
  <2>5. CASE flipped = {} /\ c = GOOD_FCS
    BY <2>2, <2>5 DEF CheckDetectsFlips
  <2>6. CASE \E i \in 0 .. 31 : flipped = {i} /\ c = Xor(GOOD_FCS, Effect(i))
    <3>1. PICK i \in 0 .. 31 : flipped = {i}
      BY <2>6
    <3>2. n = 1
      BY <3>1, FS_Singleton
    <3>3. c # GOOD_FCS
      BY <2>1, <3>2, ParityOfGood
    <3>4. QED
      BY <2>2, <3>1, <3>3 DEF CheckDetectsFlips
  <2>7. CASE \E i, j \in 0 .. 31 :
               i # j /\ flipped = {i, j} /\ c = Xor(Xor(GOOD_FCS, Effect(i)), Effect(j))
    <3>1. PICK i \in 0 .. 31, j \in 0 .. 31 :
                 i # j /\ flipped = {i, j} /\ c = Xor(Xor(GOOD_FCS, Effect(i)), Effect(j))
      BY <2>7
    <3> DEFINE a == Effect(i) b == Effect(j)
    <3>2. a \in Byte /\ b \in Byte /\ a # b /\ GOOD_FCS \in Byte
      BY <3>1, EffectsDiffer, ParityOfGood
    <3> HIDE DEF a, b
    <3>3. ASSUME Xor(Xor(GOOD_FCS, a), b) = GOOD_FCS PROVE FALSE
      <4>1. Xor(GOOD_FCS, b) = Xor(GOOD_FCS, a)
        BY <2>3, <2>4, <3>2, <3>3
      <4>2. Xor(Xor(b, GOOD_FCS), GOOD_FCS) = b /\ Xor(Xor(a, GOOD_FCS), GOOD_FCS) = a
        BY <2>3, <3>2
      <4>3. Xor(b, GOOD_FCS) = Xor(GOOD_FCS, b) /\ Xor(a, GOOD_FCS) = Xor(GOOD_FCS, a)
        BY <2>4, <3>2
      <4>4. QED
        BY <3>2, <4>1, <4>2, <4>3
    <3>4. c # GOOD_FCS
      BY <3>1, <3>3 DEF a, b
    <3>5. QED
      BY <2>2, <3>1, <3>4 DEF CheckDetectsFlips
  <2>8. CASE n > 2
    <3>1. n = 3 /\ flipped # {}
      BY <2>1, <2>8, FS_EmptySet
    <3>2. c # GOOD_FCS
      BY <2>1, <3>1, ParityOfGood
    <3>3. QED
      BY <2>2, <3>1, <3>2 DEF CheckDetectsFlips
  <2>9. QED
    BY <2>1, <2>5, <2>6, <2>7, <2>8 DEF Damage
<1>2. QED
  BY NoiseInvariant, <1>1, PTL

\* However many bits are wrong, an odd number of them is always noticed.
THEOREM CheckDetectsOddFlips ==
  Spec => [](Cardinality(flipped) % 2 = 1 => ~check(SubSeq(received, 1, 3), received[4]))
<1>1. NoiseInv =>
        (Cardinality(flipped) % 2 = 1 => ~check(SubSeq(received, 1, 3), received[4]))
  <2> SUFFICES ASSUME NoiseInv, Cardinality(flipped) % 2 = 1
               PROVE  ~check(SubSeq(received, 1, 3), received[4])
    OBVIOUS
  <2>1. received \in Four /\ Parity(Residue(received)) = 1
    BY DEF NoiseInv, HeaderInv
  <2>2. Residue(received) # GOOD_FCS
    BY <2>1, ParityOfGood
  <2>3. QED
    BY <2>1, <2>2, CheckIsResidue
<1>2. QED
  BY NoiseInvariant, <1>1, PTL

-----------------------------------------------------------------------------
(* Dividing by the polynomial: eight steps of the division do what one     *)
(* entry of the table does to the register.                                *)

Register == [1 .. 32 -> 0 .. 1]

\* Step k of the division, and its result for a dividend D after k steps.
Reduce(p, k) ==
  IF p[k] = 0 THEN p
  ELSE [q \in 1 .. 32 |-> IF q \in k .. k + 8 THEN (p[q] + POLY[q - k + 1]) % 2 ELSE p[q]]

\* After k steps the eight places behind k hold the register c of the table,
\* added to those bits of the dividend that lie behind place e.
Window(p, D, k, e, c) ==
  /\ p \in Register /\ c \in Byte
  /\ \A q \in k + 1 .. k + 8 : p[q] = (Bit(c, q - k - 1) + (IF q > e THEN D[q] ELSE 0)) % 2
  /\ \A q \in k + 9 .. 32 : p[q] = D[q]

LEMMA ReduceInRegister ==
  ASSUME NEW p \in Register, NEW k \in 1 .. 24
  PROVE  Reduce(p, k) \in Register
<1>1. ASSUME NEW q \in k .. k + 8 PROVE POLY[q - k + 1] \in 0 .. 1
  <2>1. q - k + 1 \in 1 .. 9
    OBVIOUS
  <2>2. QED
    BY <2>1 DEF POLY
<1>2. \A q \in 1 .. 32 : p[q] \in 0 .. 1
  BY DEF Register
<1>3. ASSUME NEW q \in 1 .. 32
      PROVE  (IF q \in k .. k + 8 THEN (p[q] + POLY[q - k + 1]) % 2 ELSE p[q]) \in 0 .. 1
  BY <1>1, <1>2
<1>4. QED
  BY <1>3 DEF Reduce, Register

LEMMA PolyIs ==
  /\ POLY[1] = 1 /\ POLY[2] = 0 /\ POLY[3] = 0 /\ POLY[4] = 0 /\ POLY[5] = 0
  /\ POLY[6] = 0 /\ POLY[7] = 1 /\ POLY[8] = 1 /\ POLY[9] = 1
  BY DEF POLY

LEMMA ReduceShifts ==
  ASSUME NEW p, NEW D \in Register, NEW k \in 0 .. 23, NEW e \in 1 .. 24, NEW c,
         Window(p, D, k, e, c), k < e, e <= k + 8
  PROVE  Window(Reduce(p, k + 1), D, k + 1, e, Shift(c))
<1> DEFINE r == Reduce(p, k + 1)
           b == Bit(c, 0)
<1>1. p \in Register /\ c \in Byte /\ b \in 0 .. 1
  BY BitIs DEF Window
<1>2. r \in Register /\ Shift(c) \in Byte
  BY <1>1, ReduceInRegister, ShiftBits
<1>3. p[k + 1] = b
  <2>1. k + 1 \in k + 1 .. k + 8 /\ ~(k + 1 > e) /\ (k + 1) - k - 1 = 0
    OBVIOUS
  <2>2. p[k + 1] = (Bit(c, (k + 1) - k - 1) + 0) % 2
    BY <2>1, Zenon DEF Window
  <2>3. p[k + 1] = (b + 0) % 2
    BY <2>1, <2>2
  <2> HIDE DEF b
  <2>4. QED
    BY <1>1, <2>3
<1> HIDE DEF b
<1>4. ASSUME NEW q \in k + 2 .. k + 9
      PROVE  r[q] = (p[q] + (IF q >= k + 7 THEN b ELSE 0)) % 2
  <2>1. q \in 1 .. 32 /\ q \in (k + 1) .. (k + 1) + 8 /\ q - (k + 1) + 1 \in 2 .. 9
    OBVIOUS
  <2>2. p[q] \in 0 .. 1
    BY <1>1, <2>1 DEF Register
  <2>3. CASE b = 0
    <3>1. r = p
      BY <1>3, <2>3 DEF Reduce
    <3>2. QED
      BY <2>2, <2>3, <3>1
  <2>4. CASE b = 1
    <3>1. r[q] = (p[q] + POLY[q - (k + 1) + 1]) % 2
      BY <1>3, <2>1, <2>4 DEF Reduce
    <3>2. POLY[q - (k + 1) + 1] = IF q >= k + 7 THEN 1 ELSE 0
      <4> DEFINE i == q - (k + 1) + 1
      <4>1. i \in 2 .. 9 /\ (i >= 7 <=> q >= k + 7)
        BY <2>1
      <4> HIDE DEF i
      <4>2. POLY[i] = IF i >= 7 THEN 1 ELSE 0
        BY <4>1, PolyIs
      <4>3. QED
        BY <4>1, <4>2 DEF i
    <3>3. QED
      BY <2>4, <3>1, <3>2
  <2>5. QED
    BY <1>1, <2>3, <2>4
<1>5. ASSUME NEW q \in k + 10 .. 32 PROVE r[q] = D[q]
  <2>1. q \in 1 .. 32 /\ q \notin (k + 1) .. (k + 1) + 8 /\ q \in k + 9 .. 32
    OBVIOUS
  <2>2. r[q] = p[q]
    BY <2>1 DEF Reduce
  <2>3. QED
    BY <2>1, <2>2 DEF Window
<1> HIDE DEF r
<1>6. ASSUME NEW q \in k + 2 .. k + 9
      PROVE  r[q] = (Bit(Shift(c), q - (k + 1) - 1) + (IF q > e THEN D[q] ELSE 0)) % 2
  <2> DEFINE i == q - k - 2
             a == IF q > e THEN D[q] ELSE 0
  <2>1. i \in 0 .. 7 /\ q - (k + 1) - 1 = i /\ (q >= k + 7 <=> i >= 5) /\ q \in 1 .. 32
    OBVIOUS
  <2>2. a \in 0 .. 1 /\ D[q] \in 0 .. 1
    BY <2>1 DEF Register
  <2>3. r[q] = (p[q] + (IF i >= 5 THEN b ELSE 0)) % 2
    BY <1>4, <2>1
  <2>4. CASE q = k + 9
    <3>1. i = 7 /\ q > e /\ q \in k + 9 .. 32
      BY <2>4
    <3>2. p[q] = D[q]
      BY <3>1 DEF Window
    <3>3. Bit(Shift(c), 7) = b
      BY <1>1, ShiftBits DEF b
    <3> HIDE DEF i
    <3>4. r[q] = (D[q] + b) % 2
      BY <2>3, <3>1, <3>2
    <3>5. r[q] = (b + D[q]) % 2
      BY <1>1, <2>2, <3>4
    <3>6. QED
      BY <2>1, <3>1, <3>3, <3>5
  <2>5. CASE q # k + 9
    <3>1. i \in 0 .. 6 /\ q \in k + 1 .. k + 8 /\ q - k - 1 = i + 1 /\ i + 1 \in 0 .. 7
      BY <2>5
    <3>2. p[q] = (Bit(c, i + 1) + a) % 2
      BY <3>1 DEF Window
    <3>3. Bit(Shift(c), i) = (Bit(c, i + 1) + (IF i >= 5 THEN b ELSE 0)) % 2
      BY <1>1, <3>1, ShiftBits DEF b
    <3>4. Bit(c, i + 1) \in 0 .. 1
      BY <1>1, <3>1, BitIs
    <3> HIDE DEF i, a
    <3>5. r[q] = (Bit(Shift(c), i) + a) % 2
      BY <1>1, <2>2, <2>3, <3>2, <3>3, <3>4
    <3>6. QED
      BY <2>1, <3>5 DEF a
  <2>6. QED
    BY <2>4, <2>5
<1>7. /\ (k + 1) + 1 = k + 2 /\ (k + 1) + 8 = k + 9 /\ (k + 1) + 9 = k + 10
  OBVIOUS
<1>8. Window(r, D, k + 1, e, Shift(c))
  BY <1>2, <1>5, <1>6, <1>7 DEF Window
<1>9. QED
  BY <1>8 DEF r

\* Divides(f, D): f holds the dividend D and the results of the 24 steps.
Divides(f, D) ==
  /\ f[0] = D
  /\ \A k \in 0 .. 23 : f[k + 1] = Reduce(f[k], k + 1)

LEMMA OctetDivided ==
  ASSUME NEW f, NEW D \in Register, Divides(f, D), NEW k \in {0, 8, 16}, NEW c,
         Window(f[k], D, k, k + 8, c)
  PROVE  Window(f[k + 8], D, k + 8, k + 8, TABLE[c])
<1> DEFINE e == k + 8
<1>1. c \in Byte /\ e \in 1 .. 24
  BY DEF Window
<1>2. ASSUME NEW j \in 0 .. 7, NEW x, Window(f[k + j], D, k + j, e, x)
      PROVE  Window(f[k + (j + 1)], D, k + (j + 1), e, Shift(x))
  <2>1. k + j \in 0 .. 23 /\ k + j < e /\ e <= (k + j) + 8 /\ (k + j) + 1 = k + (j + 1)
    OBVIOUS
  <2> HIDE DEF e
  <2>2. Window(Reduce(f[k + j], (k + j) + 1), D, (k + j) + 1, e, Shift(x))
    BY <1>1, <1>2, <2>1, ReduceShifts
  <2>3. f[(k + j) + 1] = Reduce(f[k + j], (k + j) + 1)
    BY <2>1 DEF Divides
  <2>4. QED
    BY <2>1, <2>2, <2>3
<1> DEFINE W(j, x) == Window(f[k + j], D, k + j, e, x)
<1>3. W(0, c) /\ \A j \in 0 .. 7 : \A x : W(j, x) => W(j + 1, Shift(x))
  BY <1>2
<1>4. W(8, Shift(Shift(Shift(Shift(Shift(Shift(Shift(Shift(c)))))))))
  <2> HIDE DEF W
  <2>1. /\ \A x : W(0, x) => W(1, Shift(x))
        /\ \A x : W(1, x) => W(2, Shift(x))
        /\ \A x : W(2, x) => W(3, Shift(x))
        /\ \A x : W(3, x) => W(4, Shift(x))
        /\ \A x : W(4, x) => W(5, Shift(x))
        /\ \A x : W(5, x) => W(6, Shift(x))
        /\ \A x : W(6, x) => W(7, Shift(x))
        /\ \A x : W(7, x) => W(8, Shift(x))
    <3>1. /\ 0 + 1 = 1 /\ 1 + 1 = 2 /\ 2 + 1 = 3 /\ 3 + 1 = 4
          /\ 4 + 1 = 5 /\ 5 + 1 = 6 /\ 6 + 1 = 7 /\ 7 + 1 = 8
      OBVIOUS
    <3>2. QED
      BY <1>3, <3>1
  <2>2. QED
    BY <1>3, <2>1, Zenon
<1>5. QED
  BY <1>1, <1>4, TableIs

\* The next octet o of the dividend enters the register.
LEMMA OctetEnters ==
  ASSUME NEW p, NEW D \in Register, NEW k \in {0, 8, 16}, NEW c, NEW o \in Byte,
         Window(p, D, k, k, c),
         \A i \in 0 .. 7 : D[k + 1 + i] = Bit(o, i)
  PROVE  Window(p, D, k, k + 8, Xor(c, o))
<1>1. c \in Byte /\ Xor(c, o) \in Byte
  BY XorBits DEF Window
<1>2. ASSUME NEW q \in k + 1 .. k + 8
      PROVE  p[q] = (Bit(Xor(c, o), q - k - 1) + (IF q > k + 8 THEN D[q] ELSE 0)) % 2
  <2> DEFINE i == q - k - 1
  <2>1. i \in 0 .. 7 /\ q > k /\ ~(q > k + 8) /\ k + 1 + i = q
    OBVIOUS
  <2> HIDE DEF i
  <2>2. p[q] = (Bit(c, i) + D[q]) % 2
    BY <2>1 DEF Window, i
  <2>3. D[q] = Bit(o, i)
    BY <2>1
  <2>4. Bit(Xor(c, o), i) = (Bit(c, i) + Bit(o, i)) % 2
    BY <1>1, <2>1, XorBits
  <2>5. Bit(c, i) \in 0 .. 1 /\ Bit(o, i) \in 0 .. 1
    BY <1>1, <2>1, BitIs
  <2>6. p[q] = (Bit(Xor(c, o), i) + 0) % 2
    BY <2>2, <2>3, <2>4, <2>5
  <2>7. QED
    BY <2>1, <2>6 DEF i
<1>3. QED
  BY <1>1, <1>2 DEF Window

LEMMA DividendIs ==
  ASSUME NEW x \in Byte, NEW y \in Byte, NEW z \in Byte
  PROVE  LET D == Dividend(<<x, y, z>>)
         IN  /\ D \in Register
             /\ \A i \in 0 .. 7 : /\ D[0 + 1 + i] = Bit(255 - x, i)
                                  /\ D[8 + 1 + i] = Bit(y, i)
                                  /\ D[16 + 1 + i] = Bit(z, i)
             /\ \A q \in 25 .. 32 : D[q] = 0
<1> DEFINE o == <<x, y, z>>
           D == Dividend(o)
           b(p) == IF p > 24 THEN 0 ELSE Bit(o[(p - 1) \div 8 + 1], (p - 1) % 8)
<1>1. o \in Seq(Byte) /\ Len(o) = 3 /\ o[1] = x /\ o[2] = y /\ o[3] = z
  OBVIOUS
<1>2. D = [p \in 1 .. 32 |-> IF p <= 8 THEN 1 - b(p) ELSE b(p)]
  <2>1. 8 * Len(o) = 24 /\ 8 * Len(o) + 8 = 32
    BY <1>1
  <2>2. QED
    BY <2>1, Zenon DEF Dividend
<1> HIDE DEF o, D
<1>3. ASSUME NEW i \in 0 .. 7
      PROVE  b(i + 1) = Bit(x, i) /\ b(i + 9) = Bit(y, i) /\ b(i + 17) = Bit(z, i)
  <2>1. /\ ((i + 1) - 1) \div 8 + 1 = 1 /\ ((i + 1) - 1) % 8 = i /\ ~(i + 1 > 24)
        /\ ((i + 9) - 1) \div 8 + 1 = 2 /\ ((i + 9) - 1) % 8 = i /\ ~(i + 9 > 24)
        /\ ((i + 17) - 1) \div 8 + 1 = 3 /\ ((i + 17) - 1) % 8 = i /\ ~(i + 17 > 24)
    OBVIOUS
  <2>2. QED
    BY <1>1, <2>1
<1>4. ASSUME NEW p \in 1 .. 32 PROVE b(p) \in 0 .. 1
  <2>1. CASE p > 24
    BY <2>1
  <2>2. CASE ~(p > 24)
    <3>1. (p - 1) \div 8 + 1 \in 1 .. 3 /\ (p - 1) % 8 \in 0 .. 7
      BY <2>2
    <3>2. o[(p - 1) \div 8 + 1] \in Byte
      BY <1>1, <3>1
    <3>3. Bit(o[(p - 1) \div 8 + 1], (p - 1) % 8) \in 0 .. 1
      BY <3>1, <3>2, BitIs
    <3>4. QED
      BY <2>2, <3>3
  <2>3. QED
    BY <2>1, <2>2
<1>5. \A q \in 25 .. 32 : b(q) = 0
  OBVIOUS
<1> HIDE DEF b
<1>6. D \in Register
  BY <1>2, <1>4 DEF Register
<1>7. 255 - x \in Byte /\ \A i \in 0 .. 7 : Bit(255 - x, i) = 1 - Bit(x, i)
  BY Complement
<1>8. ASSUME NEW i \in 0 .. 7
      PROVE  /\ D[0 + 1 + i] = Bit(255 - x, i)
             /\ D[8 + 1 + i] = Bit(y, i) /\ D[16 + 1 + i] = Bit(z, i)
  <2>1. /\ 0 + 1 + i = i + 1 /\ 8 + 1 + i = i + 9 /\ 16 + 1 + i = i + 17
        /\ i + 1 \in 1 .. 32 /\ i + 9 \in 1 .. 32 /\ i + 17 \in 1 .. 32
        /\ i + 1 <= 8 /\ ~(i + 9 <= 8) /\ ~(i + 17 <= 8)
    OBVIOUS
  <2>2. D[i + 1] = 1 - b(i + 1) /\ D[i + 9] = b(i + 9) /\ D[i + 17] = b(i + 17)
    BY <1>2, <2>1
  <2>3. QED
    BY <1>3, <1>7, <2>1, <2>2
<1>9. \A q \in 25 .. 32 : D[q] = 0
  BY <1>2, <1>5
<1>10. QED
  BY <1>6, <1>8, <1>9 DEF D, o

LEMMA RemainderIs ==
  ASSUME NEW x \in Byte, NEW y \in Byte, NEW z \in Byte
  PROVE  \E f : /\ Divides(f, Dividend(<<x, y, z>>))
                /\ Remainder(<<x, y, z>>) = SubSeq(f[24], 25, 32)
<1> DEFINE o == <<x, y, z>>
           D == Dividend(o)
           E(h) == [k \in 0 .. 24 |->
                     IF k = 0 THEN D
                     ELSE LET p == h[k - 1]
                          IN  IF p[k] = 0 THEN p
                              ELSE [q \in DOMAIN p |->
                                     IF q \in k .. k + 8
                                     THEN (p[q] + POLY[q - k + 1]) % 2 ELSE p[q]]]
           step == CHOOSE h : h = E(h)
           F == [k \in 1 .. 24 |-> [p \in Register |-> Reduce(p, k)]]
<1>1. D \in Register
  BY DividendIs
<1>2. Remainder(o) = SubSeq(step[24], 25, 32)
  <2>1. 8 * Len(o) = 24 /\ 24 + 1 = 25 /\ 24 + 8 = 32
    OBVIOUS
  <2>2. QED
    BY <2>1, Zenon DEF Remainder
<1> HIDE DEF D
<1>3. F \in [1 .. 24 -> [Register -> Register]]
  BY ReduceInRegister
<1>4. PICK f \in [0 .. 24 -> Register] : Follows(f, 24, D, F)
  <2>1. 24 \in 0 .. 24
    OBVIOUS
  <2> HIDE DEF F
  <2>2. QED
    BY <1>1, <1>3, <2>1, Recursion
<1>5. ASSUME NEW k \in 0 .. 24 PROVE f[k] = E(f)[k]
  <2>1. CASE k = 0
    BY <1>4, <2>1 DEF Follows
  <2>2. CASE k # 0
    <3>1. k \in 1 .. 24 /\ k - 1 \in 0 .. 24
      BY <2>2
    <3>2. f[k] = F[k][f[k - 1]] /\ f[k - 1] \in Register
      BY <1>4, <2>2, <3>1 DEF Follows
    <3>3. f[k] = Reduce(f[k - 1], k) /\ DOMAIN f[k - 1] = 1 .. 32
      BY <3>1, <3>2 DEF Register
    <3>4. QED
      BY <2>2, <3>3 DEF Reduce
  <2>3. QED
    BY <2>1, <2>2
<1>6. f = E(f)
  BY <1>4, <1>5
<1>7. step = E(step)
  BY <1>6, Zenon
<1> HIDE DEF step
<1>8. step[0] = D
  BY <1>7
<1>9. ASSUME NEW k \in 0 .. 23, step[k] \in Register
      PROVE  step[k + 1] = Reduce(step[k], k + 1) /\ step[k + 1] \in Register
  <2>1. k + 1 \in 0 .. 24 /\ k + 1 # 0 /\ (k + 1) - 1 = k /\ k + 1 \in 1 .. 24
    OBVIOUS
  <2>2. DOMAIN step[k] = 1 .. 32
    BY <1>9 DEF Register
  <2>3. step[k + 1] = E(step)[k + 1]
    BY <1>7
  <2>4. step[k + 1] = Reduce(step[k], k + 1)
    BY <2>1, <2>2, <2>3 DEF Reduce
  <2>5. QED
    BY <1>9, <2>1, <2>4, ReduceInRegister
<1>10. \A k \in 0 .. 23 : step[k] \in Register
  <2> DEFINE G(k) == k <= 23 => step[k] \in Register
  <2>1. G(0) /\ \A k \in Nat : G(k) => G(k + 1)
    BY <1>1, <1>8, <1>9
  <2> HIDE DEF G
  <2>2. \A k \in Nat : G(k) => G(k + 1) /\ G(k + 2) /\ G(k + 3) /\ G(k + 4)
    <3> TAKE k \in Nat
    <3>1. k + 1 \in Nat /\ k + 2 \in Nat /\ k + 3 \in Nat
          /\ (k + 1) + 1 = k + 2 /\ (k + 2) + 1 = k + 3 /\ (k + 3) + 1 = k + 4
      OBVIOUS
    <3>2. QED
      BY <2>1, <3>1
  <2>3. G(0) /\ G(4) /\ G(8) /\ G(12) /\ G(16) /\ G(20)
    <3>1. /\ G(0) => G(0 + 4)
          /\ G(4) => G(4 + 4)
          /\ G(8) => G(8 + 4)
          /\ G(12) => G(12 + 4)
          /\ G(16) => G(16 + 4)
      BY <2>2
    <3>2. QED
      BY <2>1, <3>1
  <2>4. ASSUME NEW k \in 0 .. 23 PROVE G(k)
    <3>1. PICK j \in {0, 4, 8, 12, 16, 20} : k = j \/ k = j + 1 \/ k = j + 2 \/ k = j + 3
      OBVIOUS
    <3>2. QED
      BY <2>2, <2>3, <3>1
  <2>5. QED
    BY <2>4 DEF G
<1>11. Divides(step, D)
  BY <1>8, <1>9, <1>10 DEF Divides
<1>12. QED
  BY <1>2, <1>11 DEF D

\* The last register of the table is the remainder, lowest bit first.
LEMMA RunIsRemainder ==
  ASSUME NEW x \in Byte, NEW y \in Byte, NEW z \in Byte
  PROVE  LET rem == Remainder(<<x, y, z>>)
         IN  \A i \in 0 .. 7 : rem[i + 1] = Bit(run(<<x, y, z>>), i)
<1> DEFINE D == Dividend(<<x, y, z>>)
           rem == Remainder(<<x, y, z>>)
<1>1. /\ D \in Register
      /\ \A i \in 0 .. 7 : /\ D[0 + 1 + i] = Bit(255 - x, i)
                           /\ D[8 + 1 + i] = Bit(y, i) /\ D[16 + 1 + i] = Bit(z, i)
      /\ \A q \in 25 .. 32 : D[q] = 0
  BY DividendIs
<1>2. PICK f : Divides(f, D) /\ rem = SubSeq(f[24], 25, 32)
  BY RemainderIs
<1> HIDE DEF D, rem
<1> DEFINE u0 == Xor(0, 255 - x)
           u1 == Xor(TABLE[u0], y)
           u2 == Xor(TABLE[u1], z)
           c == TABLE[u2]
<1>3. 0 \in Byte /\ 255 \in Byte /\ 255 - x \in Byte /\ \A i \in 0 .. 7 : Bit(0, i) = 0
  BY Complement, ZeroBits DEF Byte
<1>4. Window(f[0], D, 0, 0, 0)
  <2>1. f[0] = D /\ D \in Register
    BY <1>1, <1>2 DEF Divides
  <2>2. ASSUME NEW q \in 0 + 1 .. 0 + 8
        PROVE  D[q] = (Bit(0, q - 0 - 1) + (IF q > 0 THEN D[q] ELSE 0)) % 2
    <3>1. q - 0 - 1 \in 0 .. 7 /\ q \in 1 .. 32 /\ q > 0
      OBVIOUS
    <3>2. Bit(0, q - 0 - 1) = 0 /\ D[q] \in 0 .. 1
      BY <1>3, <2>1, <3>1 DEF Register
    <3>3. QED
      BY <3>1, <3>2
  <2>3. QED
    BY <1>3, <2>1, <2>2 DEF Window
<1>5. Window(f[8], D, 8, 8, TABLE[u0])
  <2>1. Window(f[0], D, 0, 0 + 8, u0)
    BY <1>1, <1>3, <1>4, OctetEnters
  <2> HIDE DEF u0
  <2>2. Window(f[0 + 8], D, 0 + 8, 0 + 8, TABLE[u0])
    BY <1>1, <1>2, <2>1, OctetDivided
  <2>3. 0 + 8 = 8
    OBVIOUS
  <2>4. QED
    BY <2>2, <2>3
<1> HIDE DEF u0
<1>6. Window(f[16], D, 16, 16, TABLE[u1])
  <2>1. Window(f[8], D, 8, 8 + 8, u1)
    BY <1>1, <1>5, OctetEnters
  <2> HIDE DEF u1
  <2>2. Window(f[8 + 8], D, 8 + 8, 8 + 8, TABLE[u1])
    BY <1>1, <1>2, <2>1, OctetDivided
  <2>3. 8 + 8 = 16
    OBVIOUS
  <2>4. QED
    BY <2>2, <2>3
<1> HIDE DEF u1
<1>7. Window(f[24], D, 24, 24, c)
  <2>1. Window(f[16], D, 16, 16 + 8, u2)
    BY <1>1, <1>6, OctetEnters
  <2> HIDE DEF u2
  <2>2. Window(f[16 + 8], D, 16 + 8, 16 + 8, TABLE[u2])
    BY <1>1, <1>2, <2>1, OctetDivided
  <2>3. 16 + 8 = 24
    OBVIOUS
  <2>4. QED
    BY <2>2, <2>3
<1>8. run(<<x, y, z>>) = c
  <2>1. Xor(INIT, x) = u0
    <3>1. Xor(255, x) = Xor(x, 255) /\ Xor(0, 255 - x) = Xor(255 - x, 0) /\ Xor(255 - x, 0) = 255 - x
      BY <1>3, XorLaws
    <3>2. Xor(x, 255) = 255 - x
      <4>1. Xor(x, 255 - x) = 255 /\ Xor(x, x) = 0
            /\ Xor(x, Xor(x, 255 - x)) = Xor(Xor(x, x), 255 - x)
        BY <1>3, XorLaws
      <4>2. QED
        BY <3>1, <4>1
    <3>3. QED
      BY <3>1, <3>2 DEF INIT, u0
  <2>2. QED
    BY <2>1, RunIs DEF update, u1, u2
<1> HIDE DEF c
<1>9. ASSUME NEW i \in 0 .. 7 PROVE rem[i + 1] = Bit(c, i)
  <2> DEFINE q == 25 + i
             p == f[24]
  <2>1. q \in 24 + 1 .. 24 + 8 /\ q > 24 /\ q - 24 - 1 = i /\ q \in 25 .. 32 /\ i + 1 \in 1 .. 8
        /\ 25 + (i + 1) - 1 = q /\ 32 - 25 + 1 = 8
    OBVIOUS
  <2> HIDE DEF q
  <2>2. p \in Register /\ p[q] = (Bit(c, i) + D[q]) % 2 /\ c \in Byte
    BY <1>7, <2>1 DEF Window
  <2> HIDE DEF p
  <2>3. p[q] = Bit(c, i)
    <3>1. D[q] = 0 /\ Bit(c, i) \in 0 .. 1
      BY <1>1, <2>1, <2>2, BitIs
    <3>2. QED
      BY <2>2, <3>1
  <2>4. \A j \in 1 .. 8 : rem[j] = p[25 + j - 1]
    <3>1. rem = SubSeq(p, 25, 32) /\ 25 \in Int /\ 32 \in Int /\ \A n \in 25 .. 32 : p[n] \in 0 .. 1
      BY <1>2, <2>2 DEF p, Register
    <3>2. \A j \in 1 .. 32 - 25 + 1 : SubSeq(p, 25, 32)[j] = p[25 + j - 1]
      BY <3>1, SubSeqProperties
    <3>3. QED
      BY <2>1, <3>1, <3>2
  <2>5. QED
    BY <2>1, <2>3, <2>4
<1>10. QED
  BY <1>8, <1>9 DEF rem

LEMMA ReferenceIs ==
  ASSUME NEW o, NEW c \in Byte,
         \A i \in 0 .. 7 : Remainder(o)[i + 1] = Bit(c, i)
  PROVE  ReferenceFcs(o) = 255 - c
<1> DEFINE rem == Remainder(o)
           E(h) == [i \in 0 .. 8 |->
                     IF i = 0 THEN 0 ELSE h[i - 1] + 2^(i - 1) * (1 - rem[i])]
           sum == CHOOSE h : h = E(h)
           F == [i \in 1 .. 8 |-> [v \in Int |-> v + 2^(i - 1) * (1 - rem[i])]]
<1>1. ReferenceFcs(o) = sum[8]
  BY DEF ReferenceFcs
<1>2. \A i \in 0 .. 7 : rem[i + 1] = Bit(c, i) /\ Bit(c, i) \in 0 .. 1
  BY BitIs
<1> HIDE DEF rem
<1>3. ASSUME NEW i \in 1 .. 8 PROVE 2^(i - 1) * (1 - rem[i]) \in Int
  <2>1. i - 1 \in 0 .. 7 /\ (i - 1) + 1 = i /\ 2^(i - 1) \in Int
    OBVIOUS
  <2>2. rem[i] \in 0 .. 1
    BY <1>2, <2>1
  <2>3. QED
    BY <2>1, <2>2
<1>4. F \in [1 .. 8 -> [Int -> Int]]
  BY <1>3
<1>5. PICK f \in [0 .. 8 -> Int] : Follows(f, 8, 0, F)
  <2>1. 0 \in Int /\ 8 \in 0 .. 24
    OBVIOUS
  <2> HIDE DEF F
  <2>2. QED
    BY <1>4, <2>1, Recursion
<1>6. ASSUME NEW i \in 0 .. 8 PROVE f[i] = E(f)[i]
  <2>1. CASE i = 0
    BY <1>5, <2>1 DEF Follows
  <2>2. CASE i # 0
    <3>1. i \in 1 .. 8 /\ i - 1 \in 0 .. 8
      BY <2>2
    <3>2. f[i] = F[i][f[i - 1]] /\ f[i - 1] \in Int
      BY <1>5, <2>2, <3>1 DEF Follows
    <3>3. f[i] = f[i - 1] + 2^(i - 1) * (1 - rem[i])
      BY <3>1, <3>2
    <3>4. QED
      BY <2>2, <3>3
  <2>3. QED
    BY <2>1, <2>2
<1>7. f = E(f)
  BY <1>5, <1>6
<1>8. sum = E(sum)
  BY <1>7, Zenon
<1> HIDE DEF sum
<1> DEFINE b(i) == Bit(c, i)
<1>9. sum[0] = 0 /\ \A i \in 0 .. 7 : sum[i + 1] = sum[i] + 2^i * (1 - b(i))
  <2>1. sum[0] = 0
    BY <1>8
  <2>2. ASSUME NEW i \in 0 .. 7 PROVE sum[i + 1] = sum[i] + 2^i * (1 - b(i))
    <3>1. i + 1 \in 0 .. 8 /\ i + 1 # 0 /\ (i + 1) - 1 = i
      OBVIOUS
    <3>2. sum[i + 1] = E(sum)[i + 1]
      BY <1>8
    <3>3. rem[i + 1] = b(i)
      BY <1>2
    <3>4. QED
      BY <3>1, <3>2, <3>3
  <2>3. QED
    BY <2>1, <2>2
<1>10. /\ 2^0 = 1 /\ 2^1 = 2 /\ 2^2 = 4 /\ 2^3 = 8
       /\ 2^4 = 16 /\ 2^5 = 32 /\ 2^6 = 64 /\ 2^7 = 128
  OBVIOUS
<1>11. \A i \in 0 .. 7 : b(i) \in 0 .. 1
  BY <1>2
<1>12. c = b(0) + 2 * b(1) + 4 * b(2) + 8 * b(3) + 16 * b(4) + 32 * b(5) + 64 * b(6) + 128 * b(7)
  <2>1. c = Binary(Bits(c))
    BY ByteOfBits
  <2>2. /\ Bits(c)[0] = b(0) /\ Bits(c)[1] = b(1) /\ Bits(c)[2] = b(2) /\ Bits(c)[3] = b(3)
        /\ Bits(c)[4] = b(4) /\ Bits(c)[5] = b(5) /\ Bits(c)[6] = b(6) /\ Bits(c)[7] = b(7)
    BY DEF Bits
  <2> HIDE DEF b
  <2>3. QED
    BY <2>1, <2>2 DEF Binary
<1> HIDE DEF b
<1>13. /\ sum[1] = 1 - b(0) /\ sum[2] = sum[1] + 2 * (1 - b(1))
       /\ sum[3] = sum[2] + 4 * (1 - b(2)) /\ sum[4] = sum[3] + 8 * (1 - b(3))
  BY <1>9, <1>10, <1>11
<1>14. /\ sum[5] = sum[4] + 16 * (1 - b(4)) /\ sum[6] = sum[5] + 32 * (1 - b(5))
       /\ sum[7] = sum[6] + 64 * (1 - b(6)) /\ sum[8] = sum[7] + 128 * (1 - b(7))
  BY <1>9, <1>10, <1>11
<1>15. sum[8] = 255 - c
  BY <1>11, <1>12, <1>13, <1>14
<1>16. QED
  BY <1>1, <1>15

\* For every header the table of fcs.rs computes the remainder of the
\* division by x^8 + x^2 + x + 1, octet after octet, as 3GPP TS 27.010 asks.
THEOREM TableDividesByPolynomial ==
  ASSUME NEW x \in Byte, NEW y \in Byte, NEW z \in Byte
  PROVE  fcs(<<x, y, z>>) = ReferenceFcs(<<x, y, z>>)
<1>1. run(<<x, y, z>>) \in Byte
  BY RunInByte
<1>2. \A i \in 0 .. 7 : Remainder(<<x, y, z>>)[i + 1] = Bit(run(<<x, y, z>>), i)
  BY RunIsRemainder
<1>3. ReferenceFcs(<<x, y, z>>) = 255 - run(<<x, y, z>>)
  BY <1>1, <1>2, ReferenceIs
<1>4. QED
  BY <1>3 DEF fcs

\* So the FCS the encoder appends is that remainder, inverted.
THEOREM FcsIsRemainder == Spec => []FcsIsPolynomialRemainder
<1>1. HeaderInv => FcsIsPolynomialRemainder
  <2> SUFFICES ASSUME HeaderInv PROVE sent[4] = ReferenceFcs(SubSeq(sent, 1, 3))
    BY DEF FcsIsPolynomialRemainder
  <2>1. frame \in Frame /\ Len(frame.info) <= MAX_INFO_LEN /\ sent = Protected(frame)
    BY DEF HeaderInv
  <2>2. PICK x, y, z \in Byte : sent = <<x, y, z, fcs(<<x, y, z>>)>> /\ sent \in Four
    BY <2>1, ProtectedIs
  <2>3. sent[1] = x /\ sent[2] = y /\ sent[3] = z /\ sent[4] = fcs(<<x, y, z>>)
    BY <2>2
  <2>4. SubSeq(sent, 1, 3) = <<x, y, z>>
    BY <2>2, <2>3, CheckIsResidue
  <2>5. fcs(<<x, y, z>>) = ReferenceFcs(<<x, y, z>>)
    BY TableDividesByPolynomial
  <2>6. QED
    BY <2>3, <2>4, <2>5, Zenon
<1>2. QED
  BY HeaderInvariant, <1>1, PTL
===============================================================================
