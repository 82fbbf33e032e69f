------------------------- MODULE FrameDecoder_proofs -------------------------
EXTENDS Link, WireLemmas

\* The n-th octet is appended after n - 1 others.
LEMMA AppendedOctet ==
  ASSUME NEW s \in Seq(Byte), NEW b \in Byte, NEW n, n = Len(s) + 1
  PROVE  /\ Len(Append(s, b)) = n
         /\ Append(s, b)[n] = b
         /\ \A i \in 1 .. Len(s) : Append(s, b)[i] = s[i]
  OBVIOUS

LEMMA ViewOfOctets ==
  ASSUME NEW a \in Byte, NEW c \in Byte, IsControl(c)
  PROVE  /\ from_byte(a) \in Address
         /\ from_ctrl(c) \in FrameKind
         /\ pf_set(c) \in BOOLEAN
<1>1. from_byte(a) \in Address
  BY DEF from_byte, Address, Byte
<1>2. from_ctrl(c) \in FrameKind
  BY DEF from_ctrl, IsControl
<1>3. QED
  BY <1>1, <1>2 DEF pf_set

LEMMA ResultsAreTyped ==
  /\ Pending \in Result
  /\ \A e \in DecodeError : Error(e) \in Result
  /\ \A v \in View : [is |-> "Frame", frame |-> v] \in Result
<1>1. NoFrame \in View
  BY DEF NoFrame, View, from_byte, Address, FrameKind
<1>2. QED
  BY <1>1 DEF Result, Pending, Error

LEMMA InitInv == Init => IInv
<1> SUFFICES ASSUME Init PROVE IInv
  OBVIOUS
<1>1. TypeOK
  BY ResultsAreTyped DEF Init, TypeOK, State, Byte, MAX_INFO_LEN
<1>2. ViewCannotPanic /\ InfoFits /\ DeliveredIsWireFrame
  BY DEF Init, ViewCannotPanic, InfoFits, DeliveredIsWireFrame, Pending
<1>3. Registers
  BY DEF Init, Registers, MAX_INFO_LEN, wire_len
<1>4. QED
  BY <1>1, <1>2, <1>3 DEF IInv, Init, Pending

\* The type invariant is preserved by each call of feed().
LEMMA FeedTypeOK ==
  ASSUME IInv, NEW b \in Byte, feed(b)
  PROVE  TypeOK'
<1> USE ResultsAreTyped DEF State
<1>1. TypeOK /\ ViewCannotPanic /\ InfoFits
  BY DEF IInv
<1>2. /\ Append(taken, b) \in Seq(Byte) /\ Append(info, b) \in Seq(Byte)
      /\ <<b>> \in Seq(Byte) /\ <<>> \in Seq(Byte)
  BY <1>1 DEF TypeOK
<1>3. ASSUME NEW e \in DecodeError, reset_to_hunt(e) PROVE TypeOK'
  BY <1>1, <1>2, <1>3 DEF TypeOK, reset_to_hunt
<1>4. CASE FeedHunt(b)
  BY <1>1, <1>4 DEF TypeOK, FeedHunt
<1>5. CASE FeedFill(b)
  BY <1>1, <1>2, <1>5 DEF TypeOK, FeedFill
<1>6. CASE FeedAddr(b)
  <2>1. CASE reset_to_hunt("BadAddress")
    BY <1>3, <2>1 DEF DecodeError
  <2>2. QED
    BY <1>1, <1>2, <1>6, <2>1 DEF TypeOK, FeedAddr
<1>7. CASE FeedCtrl(b)
  <2>1. CASE reset_to_hunt("BadControl")
    BY <1>3, <2>1 DEF DecodeError
  <2>2. QED
    BY <1>1, <1>2, <1>7, <2>1 DEF TypeOK, FeedCtrl, Progress
<1>8. CASE FeedLen(b)
  <2>1. CASE reset_to_hunt("TwoByteLengthUnsupported")
    BY <1>3, <2>1 DEF DecodeError
  <2>2. b \div 2 \in 0 .. MAX_INFO_LEN
    BY DEF Byte, MAX_INFO_LEN
  <2>3. QED
    BY <1>1, <1>2, <1>8, <2>1, <2>2 DEF TypeOK, FeedLen, length, Progress
<1>9. CASE FeedInfo(b)
  BY <1>1, <1>2, <1>9 DEF TypeOK, FeedInfo, push, Progress
<1>10. CASE FeedFcs(b)
  <2>1. CASE reset_to_hunt("BadFcs")
    BY <1>3, <2>1 DEF DecodeError
  <2>2. QED
    BY <1>1, <1>2, <1>10, <2>1 DEF TypeOK, FeedFcs, Progress
<1>11. CASE FeedEnd(b)
  <2>1. CASE reset_to_hunt("MissingEndFlag")
    BY <1>3, <2>1 DEF DecodeError
  <2>2. IsControl(ctrl)
    BY <1>1, <1>11 DEF ViewCannotPanic, FeedEnd
  <2>3. view \in View
    BY <1>1, <2>2, ViewOfOctets DEF view, View, TypeOK
  <2>4. QED
    BY <1>1, <1>2, <1>11, <2>1, <2>3 DEF TypeOK, FeedEnd
<1>12. QED
  BY <1>4, <1>5, <1>6, <1>7, <1>8, <1>9, <1>10, <1>11 DEF feed

\* A framing error leaves nothing of the frame behind.
LEMMA ResetKeepsInv ==
  ASSUME IInv, TypeOK', NEW e \in DecodeError, reset_to_hunt(e)
  PROVE  IInv'
<1>1. state' = "Hunt" /\ Len(info') = 0 /\ Len(taken') = 0
      /\ result'.is \notin {"Frame"}
  BY DEF reset_to_hunt, Error, DecodeError
<1>2. Registers' /\ InfoFits' /\ ViewCannotPanic' /\ DeliveredIsWireFrame'
  BY <1>1 DEF Registers, InfoFits, ViewCannotPanic, DeliveredIsWireFrame, MAX_INFO_LEN
<1>3. QED
  BY <1>1, <1>2 DEF IInv

\* Every call of feed() preserves the inductive invariant.
LEMMA FeedKeepsInv ==
  ASSUME IInv, NEW b \in Byte, feed(b)
  PROVE  IInv'
<1> USE DEF MAX_INFO_LEN, wire_len
<1>1. /\ TypeOK /\ ViewCannotPanic /\ InfoFits /\ Registers
      /\ DeliveredIsWireFrame /\ (result.is = "Frame" => state = "Addr")
  BY DEF IInv
<1>2. TypeOK'
  BY FeedTypeOK
<1>3. taken \in Seq(Byte) /\ info \in Seq(Byte) /\ info_len \in 0 .. 127
  BY <1>1 DEF TypeOK
<1>4. CASE FeedHunt(b)
  <2>1. /\ state' \in {"Hunt", "Addr"} /\ result'.is = "None"
        /\ taken' = taken /\ info' = info /\ Len(taken) = 0
    BY <1>1, <1>4 DEF FeedHunt, Pending, Registers
  <2>2. QED
    BY <1>1, <1>2, <2>1
    DEF IInv, ViewCannotPanic, InfoFits, Registers, DeliveredIsWireFrame
<1>5. CASE FeedFill(b)
  <2>1. /\ state' = "Addr" /\ result'.is = "None"
        /\ taken' = <<>> /\ info' = info
    BY <1>1, <1>5 DEF FeedFill, Pending
  <2>2. QED
    BY <1>1, <1>2, <2>1
    DEF IInv, ViewCannotPanic, InfoFits, Registers, DeliveredIsWireFrame
<1>6. CASE FeedAddr(b)
  <2>1. CASE reset_to_hunt("BadAddress")
    BY <1>2, <2>1, ResetKeepsInv DEF DecodeError
  <2>2. CASE ~ reset_to_hunt("BadAddress")
    <3>1. /\ state' = "Ctrl" /\ result'.is = "None" /\ info' = info
          /\ IsAddress(b) /\ addr' = b /\ taken' = <<b>>
      BY <1>6, <2>2 DEF FeedAddr, Pending
    <3>2. QED
      BY <1>1, <1>2, <3>1
      DEF IInv, ViewCannotPanic, InfoFits, Registers, DeliveredIsWireFrame
  <2>3. QED
    BY <2>1, <2>2
<1>7. CASE FeedCtrl(b)
  <2>1. CASE reset_to_hunt("BadControl")
    BY <1>2, <2>1, ResetKeepsInv DEF DecodeError
  <2>2. CASE ~ reset_to_hunt("BadControl")
    <3>1. /\ state = "Ctrl" /\ state' = "Len" /\ result'.is = "None"
          /\ info' = info /\ addr' = addr
          /\ IsControl(b) /\ ctrl' = b /\ taken' = Append(taken, b)
      BY <1>7, <2>2 DEF FeedCtrl, Progress, Pending
    <3>2. ViewCannotPanic'
      BY <1>1, <3>1 DEF ViewCannotPanic
    <3>3. Len(taken) = 1 /\ taken[1] = addr /\ Len(info) <= 127
      BY <1>1, <3>1 DEF Registers
    <3>4. Len(taken') = 2 /\ taken'[1] = addr /\ taken'[2] = b
      <4> DEFINE n == Len(taken) + 1
      <4>1. n = 2
        BY <3>3
      <4>2. /\ Len(taken') = n /\ taken'[n] = b
            /\ \A i \in 1 .. Len(taken) : taken'[i] = taken[i]
        BY <1>3, <3>1, AppendedOctet
      <4> HIDE DEF n
      <4>3. QED
        BY <3>3, <4>1, <4>2
    <3>5. Registers'
      BY <3>1, <3>3, <3>4 DEF Registers
    <3>6. QED
      BY <1>2, <3>1, <3>2, <3>5 DEF IInv, InfoFits, DeliveredIsWireFrame
  <2>3. QED
    BY <2>1, <2>2
<1>8. CASE FeedLen(b)
  <2>1. CASE reset_to_hunt("TwoByteLengthUnsupported")
    BY <1>2, <2>1, ResetKeepsInv DEF DecodeError
  <2>2. CASE ~ reset_to_hunt("TwoByteLengthUnsupported")
    <3>1. /\ state = "Len" /\ state' = IF b \div 2 = 0 THEN "Fcs" ELSE "Info"
          /\ result'.is = "None" /\ info' = <<>> /\ addr' = addr /\ ctrl' = ctrl
          /\ b % 2 = 1 /\ len_byte' = b /\ info_len' = b \div 2
          /\ taken' = Append(taken, b)
      BY <1>8, <2>2 DEF FeedLen, length, Progress, Pending
    <3>2. b \div 2 \in 0 .. 127
      BY DEF Byte
    <3>3. Len(taken) = 2 /\ taken[1] = addr /\ taken[2] = ctrl
      BY <1>1, <3>1 DEF Registers
    <3>4. /\ Len(taken') = 3 /\ taken'[1] = addr /\ taken'[2] = ctrl
          /\ taken'[3] = b /\ Len(info') = 0
      <4> DEFINE n == Len(taken) + 1
      <4>1. n = 3
        BY <3>3
      <4>2. /\ Len(taken') = n /\ taken'[n] = b
            /\ \A i \in 1 .. Len(taken) : taken'[i] = taken[i]
        BY <1>3, <3>1, AppendedOctet
      <4>3. Len(info') = 0
        BY <3>1
      <4> HIDE DEF n
      <4>4. QED
        BY <3>3, <4>1, <4>2, <4>3
    <3>5. KeepsHeader'
      BY <3>1, <3>4 DEF KeepsHeader
    <3>6. ViewCannotPanic'
      BY <1>1, <3>1 DEF ViewCannotPanic
    <3>7. Registers'
      BY <3>1, <3>2, <3>4, <3>5 DEF Registers
    <3>8. InfoFits'
      <4> DEFINE k == b \div 2
      <4>1. state' = "Info" => k # 0
        BY <3>1
      <4>2. Len(info') = 0 /\ info_len' = k /\ k \in 0 .. 127
        BY <3>1, <3>2, <3>4
      <4> HIDE DEF k
      <4>3. state' = "Info" => 0 < k /\ k <= 127
        BY <4>1, <4>2
      <4>4. QED
        BY <4>2, <4>3 DEF InfoFits
    <3>9. QED
      BY <1>2, <3>1, <3>6, <3>7, <3>8 DEF IInv, DeliveredIsWireFrame
  <2>3. QED
    BY <2>1, <2>2
<1>9. CASE FeedInfo(b)
  <2>1. /\ state = "Info" /\ Len(info) < info_len /\ KeepsHeader
        /\ Len(taken) = Len(info) + 3
    BY <1>1, <1>9 DEF FeedInfo, InfoFits, Registers
  <2>2. /\ info' = Append(info, b) /\ taken' = Append(taken, b)
        /\ state' = IF Len(info') = info_len THEN "Fcs" ELSE "Info"
        /\ result'.is = "None" /\ addr' = addr /\ ctrl' = ctrl
        /\ len_byte' = len_byte /\ info_len' = info_len
    BY <1>3, <1>9, <2>1 DEF FeedInfo, push, Progress, Pending
  <2>3. Len(info') = Len(info) + 1 /\ Len(taken') = Len(info') + 3
    BY <1>3, <2>1, <2>2
  <2>4. KeepsHeader'
    BY <1>3, <2>1, <2>2, <2>3 DEF KeepsHeader
  <2>5. QED
    BY <1>1, <1>2, <1>3, <2>1, <2>2, <2>3, <2>4
    DEF IInv, ViewCannotPanic, InfoFits, Registers, DeliveredIsWireFrame
<1>10. CASE FeedFcs(b)
  <2>1. CASE reset_to_hunt("BadFcs")
    BY <1>2, <2>1, ResetKeepsInv DEF DecodeError
  <2>2. CASE ~ reset_to_hunt("BadFcs")
    <3>1. /\ state = "Fcs" /\ state' = "End" /\ result'.is = "None"
          /\ info' = info /\ addr' = addr /\ ctrl' = ctrl
          /\ len_byte' = len_byte /\ info_len' = info_len
          /\ check(<<addr, ctrl, len_byte>>, b) /\ taken' = Append(taken, b)
      BY <1>10, <2>2 DEF FeedFcs, Progress, Pending
    <3>2. KeepsHeader /\ Len(taken) = Len(info) + 3 /\ Len(info) = info_len
      BY <1>1, <3>1 DEF Registers
    <3>3. KeepsHeader' /\ taken'[1] = addr /\ taken'[2] = ctrl
          /\ taken'[3] = len_byte
      BY <1>3, <3>1, <3>2 DEF KeepsHeader
    <3>4. taken'[Len(info) + 4] = b /\ Len(taken') = Len(info') + 4
      BY <1>3, <3>1, <3>2
    <3>5. QED
      BY <1>1, <1>2, <1>3, <3>1, <3>2, <3>3, <3>4
      DEF IInv, ViewCannotPanic, InfoFits, Registers, DeliveredIsWireFrame
  <2>3. QED
    BY <2>1, <2>2
<1>11. CASE FeedEnd(b)
  <2>1. CASE reset_to_hunt("MissingEndFlag")
    BY <1>2, <2>1, ResetKeepsInv DEF DecodeError
  <2>2. CASE ~ reset_to_hunt("MissingEndFlag")
    <3>1. /\ state = "End" /\ state' = "Addr" /\ info' = info /\ b = FLAG
          /\ result' = [is |-> "Frame", frame |-> view]
          /\ taken' = Append(taken, b)
      BY <1>11, <2>2 DEF FeedEnd
    <3>2. /\ KeepsHeader /\ Len(taken) = Len(info) + 4 /\ Len(info) = info_len
          /\ check(<<taken[1], taken[2], taken[3]>>, taken[Len(info) + 4])
          /\ IsAddress(addr) /\ IsControl(ctrl) /\ Len(info) <= 127
      BY <1>1, <3>1 DEF Registers, ViewCannotPanic
    <3>3. /\ Len(taken') = Len(info) + 5 /\ taken'[Len(info) + 5] = FLAG
          /\ \A i \in 1 .. Len(info) + 4 : taken'[i] = taken[i]
      BY <1>3, <3>1, <3>2
    <3>4. IsWireFrame(taken', view)
      <4>1. /\ taken'[1] = addr /\ taken'[2] = ctrl /\ taken'[3] = len_byte
            /\ taken'[Len(info) + 4] = taken[Len(info) + 4]
        <5>1. Len(info) \in Nat
          BY <1>3
        <5>2. {1, 2, 3, Len(info) + 4} \subseteq 1 .. Len(info) + 4
          BY <5>1
        <5>3. taken[1] = addr /\ taken[2] = ctrl /\ taken[3] = len_byte
          BY <3>2 DEF KeepsHeader
        <5>4. QED
          BY <3>3, <5>2, <5>3
      <4>2. \A i \in 1 .. Len(info) : taken'[i + 3] = info[i]
        BY <1>3, <3>2, <3>3 DEF KeepsHeader
      <4>3. len_byte % 2 = 1 /\ len_byte \div 2 = Len(info)
        BY <3>2 DEF KeepsHeader
      <4>4. check(<<taken'[1], taken'[2], taken'[3]>>, taken'[Len(info) + 4])
        BY <3>2, <4>1 DEF KeepsHeader
      <4>5. QED
        BY <3>2, <3>3, <4>1, <4>2, <4>3, <4>4 DEF IsWireFrame, view
    <3>5. DeliveredIsWireFrame'
      BY <3>1, <3>4 DEF DeliveredIsWireFrame
    <3>6. Registers'
      BY <1>1, <3>1, <3>2, <3>3 DEF Registers
    <3>7. QED
      BY <1>2, <3>1, <3>5, <3>6 DEF IInv, ViewCannotPanic, InfoFits
  <2>3. QED
    BY <2>1, <2>2
<1>12. QED
  BY <1>4, <1>5, <1>6, <1>7, <1>8, <1>9, <1>10, <1>11 DEF feed

-----------------------------------------------------------------------------
\* The inductive invariant holds of every behaviour, whatever bytes arrive.
THEOREM DecoderInvariant == Spec => []IInv
<1>1. IInv /\ [Next]_vars => IInv'
  <2> SUFFICES ASSUME IInv, [Next]_vars PROVE IInv'
    OBVIOUS
  <2>1. CASE Next
    BY <2>1, FeedKeepsInv, BytesAssumption DEF Next
  <2>2. CASE UNCHANGED vars
    BY <2>2 DEF vars, IInv, TypeOK, ViewCannotPanic, InfoFits, Registers,
                KeepsHeader, DeliveredIsWireFrame
  <2>3. QED
    BY <2>1, <2>2
<1>2. QED
  BY InitInv, <1>1, PTL DEF Spec

\* Neither expect() of view() can panic and no push into the info buffer is
\* refused, on any byte stream.
THEOREM DecoderNeverFails == Spec => [](ViewCannotPanic /\ InfoFits)
<1>1. IInv => ViewCannotPanic /\ InfoFits
  BY DEF IInv
<1>2. QED
  BY DecoderInvariant, <1>1, PTL

\* No push into the info buffer is refused, so feed() loses no byte of it.
THEOREM InfoBufferNeverOverflows == Spec => []InfoFits
<1>1. IInv => InfoFits
  BY DEF IInv
<1>2. QED
  BY DecoderInvariant, <1>1, PTL

\* The registers of the decoder stay octets and its result a view or an error.
THEOREM DecoderTypeOK == Spec => []TypeOK
<1>1. IInv => TypeOK
  BY DEF IInv
<1>2. QED
  BY DecoderInvariant, <1>1, PTL

\* What the decoder delivers is what arrived since the last flag.
THEOREM DecoderDeliversWireFrames == Spec => []DeliveredIsWireFrame
<1>1. IInv => DeliveredIsWireFrame
  BY DEF IInv
<1>2. QED
  BY DecoderInvariant, <1>1, PTL

\* On any byte stream the decoder keeps at most one frame.
THEOREM DecoderIsBounded == Spec => []SwallowsAtMostOneFrame
<1>1. IInv => SwallowsAtMostOneFrame
  <2> SUFFICES ASSUME IInv PROVE SwallowsAtMostOneFrame
    OBVIOUS
  <2>1. /\ Registers /\ state \in State /\ info \in Seq(Byte)
    BY DEF IInv, TypeOK
  <2>2. QED
    BY <2>1 DEF SwallowsAtMostOneFrame, Registers, State, MAX_INFO_LEN, wire_len
<1>2. QED
  BY DecoderInvariant, <1>1, PTL

\* What encode() is asked to send to repeat a delivered frame.
Repeated(v) ==
  [dlci |-> v.address.dlci, role |-> IF v.address.cr THEN "Command" ELSE "Response",
   kind |-> v.kind, pf |-> v.pf, info |-> v.info]

LEMMA WireFrameReencodes ==
  ASSUME NEW w \in Seq(Byte), NEW v \in View, IsWireFrame(w, v)
  PROVE  encode(Repeated(v), wire_len(MAX_INFO_LEN)).out = <<FLAG>> \o w
<1> DEFINE n == Len(v.info)
           f == Repeated(v)
<1>1. /\ n \in Nat /\ Len(w) = n + 5
      /\ v.info \in Seq(Byte)
      /\ IsAddress(w[1]) /\ v.address = from_byte(w[1])
      /\ IsControl(w[2]) /\ v.kind = from_ctrl(w[2]) /\ v.pf = pf_set(w[2])
      /\ w[3] % 2 = 1 /\ w[3] \div 2 = n
      /\ \A i \in 1 .. n : w[i + 3] = v.info[i]
      /\ check(<<w[1], w[2], w[3]>>, w[n + 4])
      /\ w[n + 5] = FLAG
  BY DEF IsWireFrame, View
<1>2. w[1] \in Byte /\ w[2] \in Byte /\ w[3] \in Byte /\ w[n + 4] \in Byte
  BY <1>1
<1> HIDE DEF n
<1>3. /\ f.dlci = from_byte(w[1]).dlci /\ f.kind = from_ctrl(w[2]) /\ f.pf = pf_set(w[2])
      /\ f.role = (IF from_byte(w[1]).cr THEN "Command" ELSE "Response")
      /\ f.info = v.info
  BY <1>1 DEF Repeated
<1> HIDE DEF f
<1>4. f \in Frame
  <2>1. f.dlci \in 0 .. 63
    BY <1>1, <1>2, <1>3, AddressReencodes
  <2>2. f.kind \in FrameKind
    BY <1>1, <1>2, <1>3, ControlReencodes
  <2>3. f.pf \in BOOLEAN
    BY <1>3 DEF pf_set
  <2>4. f.role \in Role
    BY <1>3 DEF Role
  <2>5. f.info \in Seq(Byte)
    BY <1>1, <1>3
  <2>6. f = [dlci |-> f.dlci, role |-> f.role, kind |-> f.kind, pf |-> f.pf,
             info |-> f.info]
    BY DEF Repeated, f
  <2>7. QED
    BY <2>1, <2>2, <2>3, <2>4, <2>5, <2>6 DEF Frame
<1>5. n <= MAX_INFO_LEN /\ (2 * n + 1) % 256 = w[3]
  <2>1. w[3] \div 2 <= MAX_INFO_LEN /\ (2 * (w[3] \div 2) + 1) % 256 = w[3]
    BY <1>1, <1>2, OddHalf
  <2>2. w[3] \div 2 = n
    BY <1>1
  <2>3. QED
    BY <2>1, <2>2
<1>6. header(f) = <<w[1], w[2], w[3]>>
  <2>1. to_byte(outgoing(f.dlci, f.role)) = w[1]
    BY <1>1, <1>2, <1>3, AddressReencodes
  <2>2. to_ctrl(f.kind, f.pf) = w[2]
    BY <1>1, <1>2, <1>3, ControlReencodes
  <2>3. QED
    BY <1>3, <1>5, <2>1, <2>2 DEF header, n
<1>7. fcs(header(f)) = w[n + 4]
  BY <1>1, <1>2, <1>6, CheckAcceptsOnlyFcs
<1> DEFINE o == OnWire(w[1], w[2], w[3], v.info, w[n + 4])
           p == <<FLAG>> \o w
<1>8. encode(f, wire_len(MAX_INFO_LEN)).out = o
  BY <1>3, <1>4, <1>5, <1>6, <1>7, EncodedFrame DEF n, OnWire
<1>9. /\ o \in Seq(Byte) /\ Len(o) = n + 6
      /\ o[1] = FLAG /\ o[2] = w[1] /\ o[3] = w[2] /\ o[4] = w[3]
      /\ \A i \in 1 .. n : o[i + 4] = v.info[i]
      /\ o[n + 5] = w[n + 4] /\ o[n + 6] = FLAG
  <2>1. v.info \in Seq(Byte)
    BY <1>1
  <2>2. LaidOut(o, w[1], w[2], w[3], v.info, w[n + 4])
    BY <1>2, <2>1, FrameOctets
  <2> HIDE DEF o
  <2>3. QED
    BY <2>2 DEF n, LaidOut
<1> HIDE DEF o
<1>10. p \in Seq(Byte) /\ Len(p) = n + 6 /\ p[1] = FLAG /\ \A i \in 1 .. n + 5 : p[i + 1] = w[i]
  BY <1>1 DEF FLAG, Byte
<1> HIDE DEF p
<1>11. ASSUME NEW i \in 1 .. n + 6 PROVE o[i] = p[i]
  <2>1. CASE i \in {1, 2, 3, 4}
    <3>1. p[1 + 1] = w[1] /\ p[2 + 1] = w[2] /\ p[3 + 1] = w[3]
      BY <1>1, <1>10
    <3>2. QED
      BY <2>1, <3>1, <1>9, <1>10
  <2>2. CASE i \in {n + 5, n + 6}
    <3>1. p[n + 4 + 1] = w[n + 4] /\ p[n + 5 + 1] = w[n + 5]
      BY <1>1, <1>10
    <3>2. n + 4 + 1 = n + 5 /\ n + 5 + 1 = n + 6
      BY <1>1
    <3>3. o[n + 5] = w[n + 4] /\ o[n + 6] = w[n + 5]
      BY <1>1, <1>9
    <3>4. QED
      BY <2>2, <3>1, <3>2, <3>3
  <2>3. CASE i \notin {1, 2, 3, 4} /\ i \notin {n + 5, n + 6}
    <3>1. i - 4 \in 1 .. n /\ i - 1 \in 1 .. n + 5 /\ (i - 4) + 4 = i /\ (i - 1) + 1 = i
          /\ (i - 4) + 3 = i - 1
      BY <1>1, <2>3
    <3>2. o[i] = v.info[i - 4] /\ p[i] = w[i - 1] /\ w[i - 1] = v.info[i - 4]
      <4>1. o[(i - 4) + 4] = v.info[i - 4]
        BY <1>9, <3>1
      <4>2. p[(i - 1) + 1] = w[i - 1]
        BY <1>10, <3>1
      <4>3. w[(i - 4) + 3] = v.info[i - 4]
        BY <1>1, <3>1
      <4>4. QED
        BY <3>1, <4>1, <4>2, <4>3
    <3>3. QED
      BY <3>2
  <2>4. QED
    BY <2>1, <2>2, <2>3
<1>12. o = p
  BY <1>9, <1>10, <1>11
<1>13. QED
  BY <1>8, <1>12 DEF f, p

\* The decoder accepts only what the encoder could have written: encoding
\* a delivered frame gives the received octets back, the FCS included.
THEOREM DecoderInvertsEncoder == Spec => []DeliveredReencodes
<1>1. IInv => DeliveredReencodes
  <2> SUFFICES ASSUME IInv, result.is = "Frame"
               PROVE  encode(Repeated(result.frame), wire_len(MAX_INFO_LEN)).out
                        = <<FLAG>> \o taken
    BY DEF DeliveredReencodes, Repeated
  <2>1. result.frame \in View /\ taken \in Seq(Byte) /\ IsWireFrame(taken, result.frame)
    BY DEF IInv, TypeOK, Result, DeliveredIsWireFrame
  <2>2. QED
    BY <2>1, WireFrameReencodes
<1>2. QED
  BY DecoderInvariant, <1>1, PTL

-----------------------------------------------------------------------------
(* The decoder behind the line of Link.                                    *)

\* What the octets of a frame of the traffic are.
Octets127(w, f) ==
  LET n == Len(f.info)
  IN  /\ n \in 0 .. MAX_INFO_LEN /\ f.info \in Seq(Byte)
      /\ w \in Seq(Byte) /\ Len(w) = n + 6
      /\ w[1] = FLAG /\ w[n + 6] = FLAG
      /\ w[2] # FLAG /\ IsAddress(w[2]) /\ IsControl(w[3])
      /\ w[4] % 2 = 1 /\ w[4] \div 2 = n
      /\ \A i \in 1 .. n : w[i + 4] = f.info[i]
      /\ check(<<w[2], w[3], w[4]>>, w[n + 5])
      /\ ViewOf(f) = [address |-> from_byte(w[2]), kind |-> from_ctrl(w[3]),
                      pf |-> pf_set(w[3]), info |-> f.info]

LEMMA TrafficOctets ==
  ASSUME NEW i \in DOMAIN Traffic
  PROVE  Octets127(wire[i], Traffic[i])
<1> DEFINE f == Traffic[i]
           w == wire[i]
           n == Len(f.info)
           h == header(f)
<1>1. f \in Frame /\ n <= MAX_INFO_LEN /\ w[2] # FLAG
  BY TrafficAssumption
<1>2. w = <<FLAG>> \o h \o f.info \o << fcs(h), FLAG >>
  BY <1>1, EncodedFrame DEF wire
<1> HIDE DEF w, f
<1>3. f.info \in Seq(Byte) /\ n \in 0 .. 127 /\ f.dlci \in 0 .. 63 /\ f.role \in Role
      /\ f.kind \in FrameKind /\ f.pf \in BOOLEAN
  <2>1. f.info \in Seq(Byte) /\ f.dlci \in 0 .. 63 /\ f.role \in Role
        /\ f.kind \in FrameKind /\ f.pf \in BOOLEAN
    BY <1>1 DEF Frame
  <2>2. n \in Nat
    BY <2>1
  <2>3. n <= MAX_INFO_LEN
    BY <1>1
  <2> HIDE DEF n
  <2>4. n \in 0 .. 127
    BY <2>2, <2>3 DEF MAX_INFO_LEN
  <2>5. QED
    BY <2>1, <2>4
<1> DEFINE a == to_byte(outgoing(f.dlci, f.role))
           c == to_ctrl(f.kind, f.pf)
           l == 2 * n + 1
<1>4. a \in Byte /\ IsAddress(a)
  BY <1>3, AddressRoundTrip
<1>5. c \in Byte /\ IsControl(c) /\ from_ctrl(c) = f.kind /\ pf_set(c) = f.pf
  BY <1>3, ControlRoundTrip
<1>6. l \in Byte /\ l % 256 = l /\ l % 2 = 1 /\ l \div 2 = n
  <2>1. n \in 0 .. 127
    BY <1>3
  <2> HIDE DEF n
  <2>2. QED
    BY <2>1 DEF Byte
<1> HIDE DEF a, c, l
<1>7. h = <<a, c, l>>
  BY <1>6 DEF header, a, c, l
<1>8. fcs(<<a, c, l>>) \in Byte
  <2>1. run(<<a, c, l>>) \in Byte
    BY <1>4, <1>5, <1>6, RunInByte
  <2>2. QED
    BY <2>1, Complement DEF fcs
<1>9. check(<<a, c, l>>, fcs(<<a, c, l>>))
  BY <1>4, <1>5, <1>6, <1>8, CheckAcceptsOnlyFcs
<1>10. LaidOut(w, a, c, l, f.info, fcs(<<a, c, l>>))
  <2>1. w = OnWire(a, c, l, f.info, fcs(<<a, c, l>>))
    BY <1>2, <1>7 DEF OnWire
  <2>2. QED
    BY <2>1, <1>3, <1>4, <1>5, <1>6, <1>8, FrameOctets
<1>11. ViewOf(f) = [address |-> from_byte(a), kind |-> from_ctrl(c),
                    pf |-> pf_set(c), info |-> f.info]
  <2>1. h[1] = a
    BY <1>7
  <2>2. QED
    BY <2>1, <1>5 DEF ViewOf
<1>12. Octets127(w, f)
  BY <1>1, <1>3, <1>4, <1>5, <1>6, <1>9, <1>10, <1>11 DEF Octets127, LaidOut, MAX_INFO_LEN
<1>13. QED
  BY <1>12 DEF w, f

\* Each state has its own step.
LEMMA FeedByState ==
  ASSUME NEW b, feed(b)
  PROVE  /\ state = "Hunt" => FeedHunt(b)
         /\ state = "Addr" /\ b = FLAG => FeedFill(b)
         /\ state = "Addr" /\ b # FLAG => FeedAddr(b)
         /\ state = "Ctrl" => FeedCtrl(b)
         /\ state = "Len" => FeedLen(b)
         /\ state = "Info" => FeedInfo(b)
         /\ state = "Fcs" => FeedFcs(b)
         /\ state = "End" => FeedEnd(b)
  BY DEF feed, FeedHunt, FeedFill, FeedAddr, FeedCtrl, FeedLen, FeedInfo, FeedFcs, FeedEnd

\* Where the line stands, and what is on it.
LEMMA OnTheLine ==
  ASSUME LinkInv
  PROVE  LET w == wire[frameNo]
             n == Len(Traffic[frameNo].info)
         IN  /\ frameNo \in DOMAIN Traffic /\ Octets127(w, Traffic[frameNo])
             /\ n \in 0 .. 127 /\ Len(w) = n + 6 /\ offset \in 1 .. n + 6
             /\ current = w[offset] /\ current \in Byte
<1> DEFINE w == wire[frameNo]
           n == Len(Traffic[frameNo].info)
<1>1. frameNo \in DOMAIN Traffic /\ offset \in DOMAIN w
  BY DEF LinkInv
<1>2. Octets127(w, Traffic[frameNo])
  BY <1>1, TrafficOctets
<1>3. w \in Seq(Byte) /\ Len(w) = n + 6 /\ n \in 0 .. 127
  BY <1>2 DEF Octets127, MAX_INFO_LEN
<1>4. current = w[offset]
  BY DEF current
<1> HIDE DEF w, n
<1>5. offset \in 1 .. n + 6 /\ w[offset] \in Byte
  BY <1>1, <1>3
<1>6. QED
  BY <1>1, <1>2, <1>3, <1>4, <1>5 DEF w, n

LEMMA Advances ==
  ASSUME LinkInv, Advance
  PROVE  LET n == Len(Traffic[frameNo].info)
         IN  /\ offset < n + 6 => offset' = offset + 1 /\ frameNo' = frameNo
             /\ offset = n + 6 => offset' = 1
             /\ frameNo' \in DOMAIN Traffic /\ offset' \in DOMAIN wire[frameNo']
<1> DEFINE n == Len(Traffic[frameNo].info)
<1>1. /\ frameNo \in DOMAIN Traffic /\ n \in 0 .. 127
      /\ Len(wire[frameNo]) = n + 6 /\ offset \in 1 .. n + 6
  BY OnTheLine
<1> HIDE DEF n
<1>2. offset < n + 6 => offset' = offset + 1 /\ frameNo' = frameNo
  BY <1>1 DEF Advance
<1>3. offset = n + 6 => offset' = 1 /\ frameNo' = (frameNo % Len(Traffic)) + 1
  BY <1>1 DEF Advance
<1>4. \A i \in DOMAIN Traffic : (i % Len(Traffic)) + 1 \in DOMAIN Traffic
  <2>1. Traffic \in Seq(Frame)
    BY TrafficAssumption
  <2>2. Len(Traffic) \in Nat /\ DOMAIN Traffic = 1 .. Len(Traffic)
    BY <2>1
  <2> DEFINE L == Len(Traffic)
  <2> HIDE DEF L
  <2>3. \A L2 \in Nat : \A i \in 1 .. L2 : (i % L2) + 1 \in 1 .. L2
    OBVIOUS
  <2>4. QED
    BY <2>2, <2>3
<1>5. \A i \in DOMAIN Traffic : 1 \in DOMAIN wire[i] /\ DOMAIN wire[i] = 1 .. Len(Traffic[i].info) + 6
  <2> SUFFICES ASSUME NEW i \in DOMAIN Traffic
               PROVE  1 \in DOMAIN wire[i] /\ DOMAIN wire[i] = 1 .. Len(Traffic[i].info) + 6
    OBVIOUS
  <2>1. /\ wire[i] \in Seq(Byte) /\ Len(wire[i]) = Len(Traffic[i].info) + 6
        /\ Len(Traffic[i].info) \in 0 .. 127
    BY TrafficOctets DEF Octets127, MAX_INFO_LEN
  <2>2. QED
    BY <2>1
<1>6. frameNo' \in DOMAIN Traffic /\ offset' \in DOMAIN wire[frameNo']
  <2>1. CASE offset < n + 6
    <3>1. offset + 1 \in 1 .. n + 6
      BY <1>1, <2>1
    <3>2. DOMAIN wire[frameNo] = 1 .. n + 6
      BY <1>1, <1>5 DEF n
    <3>3. QED
      BY <1>1, <1>2, <2>1, <3>1, <3>2
  <2>2. CASE offset = n + 6
    BY <1>1, <1>3, <1>4, <1>5, <2>2
  <2>3. QED
    BY <1>1, <2>1, <2>2
<1>7. QED
  BY <1>2, <1>3, <1>6 DEF n

\* A piece of a sequence, one element longer.
LEMMA LongerPiece ==
  ASSUME NEW d \in Seq(Byte), NEW i \in 1 .. Len(d)
  PROVE  /\ Append(SubSeq(d, 1, i - 1), d[i]) = SubSeq(d, 1, i)
         /\ Len(SubSeq(d, 1, i)) = i /\ Len(SubSeq(d, 1, i - 1)) = i - 1
         /\ i = Len(d) => SubSeq(d, 1, i) = d
  OBVIOUS

LEMMA NoPiece ==
  ASSUME NEW d \in Seq(Byte)
  PROVE  SubSeq(d, 1, 0) = <<>> /\ (Len(d) = 0 => d = <<>>)
  OBVIOUS

\* A decoder in step stays so, and delivers the frame with its last octet.
LEMMA CarryInStep ==
  ASSUME LinkInv, InStep, Carry
  PROVE  /\ InStep'
         /\ offset = Len(wire[frameNo])
              => result' = [is |-> "Frame", frame |-> ViewOf(Traffic[frameNo])]
<1> DEFINE w == wire[frameNo]
           d == Traffic[frameNo].info
           n == Len(d)
           Header == addr = w[2] /\ ctrl = w[3] /\ len_byte = w[4] /\ info_len = n
<1>1. /\ n \in 0 .. 127 /\ Len(w) = n + 6 /\ offset \in 1 .. n + 6 /\ current = w[offset]
      /\ d \in Seq(Byte)
      /\ w[1] = FLAG /\ w[n + 6] = FLAG /\ w[2] # FLAG
      /\ IsAddress(w[2]) /\ IsControl(w[3]) /\ w[4] % 2 = 1 /\ w[4] \div 2 = n
      /\ \A i \in 1 .. n : w[i + 4] = d[i]
      /\ check(<<w[2], w[3], w[4]>>, w[n + 5])
      /\ ViewOf(Traffic[frameNo]) = [address |-> from_byte(w[2]), kind |-> from_ctrl(w[3]),
                                     pf |-> pf_set(w[3]), info |-> d]
  BY OnTheLine DEF Octets127
<1>2. /\ offset < n + 6 => offset' = offset + 1 /\ frameNo' = frameNo
      /\ offset = n + 6 => offset' = 1
  BY Advances DEF Carry
<1>3. feed(current)
  BY DEF Carry
<1>4. \/ offset = 1 /\ state \in {"Hunt", "Addr", "End"}
      \/ offset = 2 /\ state = "Addr"
      \/ offset = 3 /\ state = "Ctrl" /\ addr = w[2]
      \/ offset = 4 /\ state = "Len" /\ addr = w[2] /\ ctrl = w[3]
      \/ offset \in 5 .. n + 4 /\ state = "Info" /\ Header /\ info = SubSeq(d, 1, offset - 5)
      \/ offset = n + 5 /\ state = "Fcs" /\ Header /\ info = d
      \/ offset = n + 6 /\ state = "End" /\ Header /\ info = d
  BY DEF InStep
<1> DEFINE Next1 == \/ offset' = 1 /\ state' \in {"Hunt", "Addr", "End"}
                    \/ offset' = 2 /\ state' = "Addr"
                    \/ offset' = 3 /\ state' = "Ctrl" /\ addr' = w[2]
                    \/ offset' = 4 /\ state' = "Len" /\ addr' = w[2] /\ ctrl' = w[3]
                    \/ /\ offset' \in 5 .. n + 4
                       /\ state' = "Info" /\ addr' = w[2] /\ ctrl' = w[3] /\ len_byte' = w[4]
                       /\ info_len' = n /\ info' = SubSeq(d, 1, offset' - 5)
                    \/ /\ offset' = n + 5 /\ state' = "Fcs" /\ addr' = w[2] /\ ctrl' = w[3]
                       /\ len_byte' = w[4] /\ info_len' = n /\ info' = d
                    \/ /\ offset' = n + 6 /\ state' = "End" /\ addr' = w[2] /\ ctrl' = w[3]
                       /\ len_byte' = w[4] /\ info_len' = n /\ info' = d
<1>5. (frameNo' = frameNo /\ Next1) => InStep'
  BY DEF InStep
<1>6. (offset' = 1 /\ state' = "Addr") => InStep'
  BY DEF InStep
<1>0. Len(wire[frameNo]) = n + 6
  BY <1>1
<1> HIDE DEF w, n, d
<1>7. CASE offset = 1
  <2>1. current = FLAG /\ offset' = 2 /\ frameNo' = frameNo
    BY <1>1, <1>2, <1>7
  <2>2. state \in {"Hunt", "Addr", "End"}
    BY <1>1, <1>4, <1>7
  <2>3. state' = "Addr"
    <3>1. CASE state = "Hunt"
      BY <1>3, <2>1, <3>1, FeedByState DEF FeedHunt
    <3>2. CASE state = "Addr"
      BY <1>3, <2>1, <3>2, FeedByState DEF FeedFill
    <3>3. CASE state = "End"
      BY <1>3, <2>1, <3>3, FeedByState DEF FeedEnd
    <3>4. QED
      BY <2>2, <3>1, <3>2, <3>3
  <2>4. QED
    BY <1>0, <1>1, <1>5, <1>7, <2>1, <2>3
<1>8. CASE offset = 2
  <2>1. /\ current = w[2] /\ current # FLAG /\ IsAddress(current) /\ state = "Addr"
        /\ offset' = 3 /\ frameNo' = frameNo
    BY <1>1, <1>2, <1>4, <1>8
  <2>2. state' = "Ctrl" /\ addr' = w[2]
    BY <1>3, <2>1, FeedByState DEF FeedAddr
  <2>3. Next1
    BY <2>1, <2>2
  <2>4. QED
    BY <1>0, <1>1, <1>5, <1>8, <2>1, <2>3
<1>9. CASE offset = 3
  <2>1. /\ current = w[3] /\ IsControl(current) /\ state = "Ctrl" /\ addr = w[2]
        /\ offset' = 4 /\ frameNo' = frameNo
    BY <1>1, <1>2, <1>4, <1>9
  <2>2. state' = "Len" /\ addr' = w[2] /\ ctrl' = w[3]
    BY <1>3, <2>1, FeedByState DEF FeedCtrl
  <2>3. Next1
    BY <2>1, <2>2
  <2>4. QED
    BY <1>0, <1>1, <1>5, <1>9, <2>1, <2>3
<1>10. CASE offset = 4
  <2>1. /\ current = w[4] /\ current % 2 = 1 /\ current \div 2 = n /\ state = "Len"
        /\ addr = w[2] /\ ctrl = w[3] /\ offset' = 5 /\ frameNo' = frameNo
    BY <1>1, <1>2, <1>4, <1>10
  <2>2. /\ addr' = w[2] /\ ctrl' = w[3] /\ len_byte' = w[4] /\ info_len' = n /\ info' = <<>>
        /\ state' = IF n = 0 THEN "Fcs" ELSE "Info"
    BY <1>3, <2>1, FeedByState DEF FeedLen, length
  <2>3. SubSeq(d, 1, 0) = <<>> /\ (n = 0 => d = <<>>)
    BY <1>1, NoPiece DEF n
  <2>4. Next1
    <3>1. CASE n = 0
      BY <2>1, <2>2, <2>3, <3>1
    <3>2. CASE n # 0
      <4>1. 5 \in 5 .. n + 4 /\ 5 - 5 = 0
        BY <1>1, <3>2
      <4>2. QED
        BY <2>1, <2>2, <2>3, <3>2, <4>1
    <3>3. QED
      BY <3>1, <3>2
  <2>5. QED
    BY <1>0, <1>1, <1>5, <1>10, <2>1, <2>4
<1>11. CASE offset \in 5 .. n + 4
  <2> DEFINE i == offset - 4
  <2>1. /\ i \in 1 .. n /\ offset = i + 4 /\ offset - 5 = i - 1 /\ i - 1 < 127
        /\ offset' = i + 5 /\ frameNo' = frameNo /\ offset # n + 6
    BY <1>1, <1>2, <1>11
  <2>2. state = "Info" /\ Header /\ info = SubSeq(d, 1, offset - 5)
    BY <1>1, <1>4, <1>11
  <2> HIDE DEF i
  <2>3. current = d[i] /\ info = SubSeq(d, 1, i - 1)
    BY <1>1, <2>1, <2>2
  <2>4. /\ Append(SubSeq(d, 1, i - 1), d[i]) = SubSeq(d, 1, i)
        /\ Len(SubSeq(d, 1, i)) = i /\ Len(SubSeq(d, 1, i - 1)) = i - 1
        /\ i = n => SubSeq(d, 1, i) = d
    BY <1>1, <2>1, LongerPiece DEF n
  <2>5. FeedInfo(current)
    BY <1>3, <2>2, FeedByState
  <2>6. info' = SubSeq(d, 1, i)
    BY <2>1, <2>3, <2>4, <2>5 DEF FeedInfo, push, MAX_INFO_LEN
  <2>7. /\ addr' = w[2] /\ ctrl' = w[3] /\ len_byte' = w[4] /\ info_len' = n
        /\ state' = IF i = n THEN "Fcs" ELSE "Info"
    BY <2>2, <2>4, <2>5, <2>6 DEF FeedInfo
  <2>8. Next1
    <3>1. CASE i = n
      BY <2>1, <2>4, <2>6, <2>7, <3>1
    <3>2. CASE i # n
      <4>1. i + 5 \in 5 .. n + 4 /\ (i + 5) - 5 = i
        BY <1>1, <2>1, <3>2
      <4>2. QED
        BY <2>1, <2>6, <2>7, <3>2, <4>1
    <3>3. QED
      BY <3>1, <3>2
  <2>9. QED
    BY <1>0, <1>1, <1>5, <2>1, <2>8
<1>12. CASE offset = n + 5
  <2>1. /\ current = w[n + 5] /\ state = "Fcs" /\ Header /\ info = d
        /\ offset' = n + 6 /\ frameNo' = frameNo
    BY <1>1, <1>2, <1>4, <1>12
  <2>2. check(<<addr, ctrl, len_byte>>, current)
    BY <1>1, <2>1
  <2>3. /\ addr' = w[2] /\ ctrl' = w[3] /\ len_byte' = w[4] /\ info_len' = n
        /\ info' = d /\ state' = "End"
    BY <1>3, <2>1, <2>2, FeedByState DEF FeedFcs
  <2>4. QED
    BY <1>0, <1>1, <1>5, <1>12, <2>1, <2>3
<1>13. CASE offset = n + 6
  <2>1. current = FLAG /\ state = "End" /\ Header /\ info = d /\ offset' = 1
    BY <1>1, <1>2, <1>4, <1>13
  <2>2. state' = "Addr" /\ result' = [is |-> "Frame", frame |-> view]
    BY <1>3, <2>1, FeedByState DEF FeedEnd
  <2>3. view = ViewOf(Traffic[frameNo])
    BY <1>1, <2>1 DEF view
  <2>4. QED
    BY <1>6, <2>1, <2>2, <2>3
<1>14. \/ offset = 1 \/ offset = 2 \/ offset = 3 \/ offset = 4
       \/ offset \in 5 .. n + 4 \/ offset = n + 5 \/ offset = n + 6
  BY <1>1
<1>15. QED
  BY <1>7, <1>8, <1>9, <1>10, <1>11, <1>12, <1>13, <1>14

\* Right after a fault the decoder may be anywhere, as far as its registers
\* allow.
LEMMA AstrayAtFirst ==
  ASSUME IInv', clean' = 0
  PROVE  Astray'
<1>1. state' \in State /\ info_len' \in 0 .. 127 /\ info' \in Seq(Byte)
  BY DEF IInv, TypeOK, MAX_INFO_LEN
<1>2. Len(info') \in Nat
  BY <1>1
<1>3. clean' + (info_len' - Len(info')) < RESYNC /\ clean' < RESYNC /\ clean' <= 1 /\ clean' <= 2
  BY <1>1, <1>2 DEF RESYNC, MAX_INFO_LEN
<1>4. QED
  BY <1>1, <1>3 DEF Astray, State

\* Out of step the decoder gets back into it at a flag, or comes closer to
\* giving up.
LEMMA CarryAstray ==
  ASSUME LinkInv, Astray, Carry
  PROVE  InStep' \/ Astray'
<1> DEFINE n == Len(Traffic[frameNo].info)
<1>1. /\ n \in 0 .. 127 /\ offset \in 1 .. n + 6 /\ Len(wire[frameNo]) = n + 6
      /\ current \in Byte
  BY OnTheLine
<1>2. /\ offset < n + 6 => offset' = offset + 1 /\ frameNo' = frameNo
      /\ offset = n + 6 => offset' = 1
  BY Advances DEF Carry
<1>3. feed(current) /\ clean \in 0 .. RESYNC
  BY DEF Carry, LinkInv
<1> HIDE DEF n
<1>4. CASE FlagInside
  <2>1. clean' = 0
    BY <1>4 DEF Carry
  <2>2. IInv'
    BY <1>1, <1>3, FeedKeepsInv DEF LinkInv
  <2>3. QED
    BY <2>1, <2>2, AstrayAtFirst
<1> SUFFICES ASSUME ~FlagInside PROVE InStep' \/ Astray'
  BY <1>4
<1>5. clean' = IF clean < RESYNC THEN clean + 1 ELSE clean
  BY DEF Carry
<1>6. ASSUME current = FLAG, state' = "Addr" PROVE InStep'
  <2>1. offset = 1 \/ offset = n + 6
    <3>1. offset \in {1, n + 6}
      BY <1>1, <1>6 DEF FlagInside
    <3>2. QED
      BY <1>1, <3>1
  <2>2. offset' = 1 \/ offset' = 2
    BY <1>1, <1>2, <2>1
  <2>3. QED
    BY <1>6, <2>2 DEF InStep
<1>7. CASE state = "Hunt"
  <2>1. state' = IF current = FLAG THEN "Addr" ELSE "Hunt"
    BY <1>3, <1>7, FeedByState DEF FeedHunt
  <2>2. QED
    BY <1>6, <2>1 DEF Astray
<1>8. CASE state = "End"
  <2>1. state' = IF current = FLAG THEN "Addr" ELSE "Hunt"
    BY <1>3, <1>8, FeedByState DEF FeedEnd, reset_to_hunt
  <2>2. QED
    BY <1>6, <2>1 DEF Astray
<1>9. CASE state = "Addr"
  <2>1. clean' = 1
    BY <1>3, <1>5, <1>9 DEF Astray, RESYNC, MAX_INFO_LEN
  <2>2. CASE current = FLAG
    <3>1. state' = "Addr"
      BY <1>3, <1>9, <2>2, FeedByState DEF FeedFill
    <3>2. QED
      BY <1>6, <2>2, <3>1
  <2>3. CASE current # FLAG
    <3>1. state' \in {"Hunt", "Ctrl"}
      BY <1>3, <1>9, <2>3, FeedByState DEF FeedAddr, reset_to_hunt
    <3>2. QED
      BY <2>1, <3>1 DEF Astray
  <2>4. QED
    BY <2>2, <2>3
<1>10. CASE state = "Ctrl"
  <2>1. clean' <= 2
    BY <1>3, <1>5, <1>10 DEF Astray, RESYNC, MAX_INFO_LEN
  <2>2. state' \in {"Hunt", "Len"}
    BY <1>3, <1>10, FeedByState DEF FeedCtrl, reset_to_hunt
  <2>3. QED
    BY <2>1, <2>2 DEF Astray
<1>11. CASE state = "Len"
  <2>1. clean' \in 0 .. 3
    BY <1>3, <1>5, <1>11 DEF Astray, RESYNC, MAX_INFO_LEN
  <2>2. \/ state' = "Hunt"
        \/ state' = "Fcs"
        \/ state' = "Info" /\ info_len' = current \div 2 /\ info' = <<>>
    BY <1>3, <1>11, FeedByState DEF FeedLen, reset_to_hunt, length
  <2>3. clean' < RESYNC
    BY <2>1 DEF RESYNC, MAX_INFO_LEN
  <2>4. CASE state' = "Info" /\ info_len' = current \div 2 /\ info' = <<>>
    <3>1. current \div 2 \in 0 .. 127
      BY <1>1 DEF Byte
    <3>2. info_len' \in 0 .. 127 /\ Len(info') = 0
      BY <2>4, <3>1
    <3>3. clean' + (info_len' - Len(info')) < RESYNC
      <4>1. RESYNC = 131
        BY DEF RESYNC, MAX_INFO_LEN
      <4>2. \A c \in 0 .. 3, l \in 0 .. 127 : c + (l - 0) < 131
        OBVIOUS
      <4>3. QED
        BY <2>1, <3>2, <4>1, <4>2
    <3>4. QED
      BY <2>4, <3>3 DEF Astray
  <2>5. QED
    BY <2>2, <2>3, <2>4 DEF Astray
<1>12. CASE state = "Info"
  <2>1. /\ info \in Seq(Byte) /\ info_len \in 0 .. 127 /\ Len(info) < info_len
        /\ clean + (info_len - Len(info)) < RESYNC
    BY <1>12 DEF LinkInv, IInv, TypeOK, InfoFits, Astray, MAX_INFO_LEN
  <2>2. Len(info) \in Nat /\ Len(Append(info, current)) = Len(info) + 1
    BY <1>1, <2>1
  <2>3. FeedInfo(current)
    BY <1>3, <1>12, FeedByState
  <2>4. /\ info' = Append(info, current) /\ info_len' = info_len
        /\ state' = IF Len(info') = info_len THEN "Fcs" ELSE "Info"
    BY <2>1, <2>2, <2>3 DEF FeedInfo, push, MAX_INFO_LEN
  <2>5. Len(info') = Len(info) + 1
    BY <2>2, <2>4
  <2>6. clean' = clean + 1
    BY <1>3, <1>5, <2>1, <2>2 DEF RESYNC, MAX_INFO_LEN
  <2>7. clean' + (info_len' - Len(info')) < RESYNC
    BY <1>3, <2>1, <2>2, <2>4, <2>5, <2>6 DEF RESYNC, MAX_INFO_LEN
  <2>8. ASSUME Len(info') = info_len PROVE clean' < RESYNC
    <3>1. info_len' - Len(info') = 0 /\ clean' + 0 = clean'
      BY <1>3, <2>1, <2>4, <2>6, <2>8
    <3>2. QED
      BY <2>7, <3>1
  <2>9. QED
    BY <2>4, <2>7, <2>8 DEF Astray
<1>13. CASE state = "Fcs"
  <2>1. state' \in {"Hunt", "End"}
    BY <1>3, <1>13, FeedByState DEF FeedFcs, reset_to_hunt
  <2>2. QED
    BY <2>1 DEF Astray
<1>14. QED
  BY <1>7, <1>8, <1>9, <1>10, <1>11, <1>12, <1>13 DEF Astray

\* A frame that begins RESYNC bytes after a fault begins in step.
LEMMA BeginsInStep ==
  ASSUME LinkInv, offset = 1, clean = RESYNC
  PROVE  InStep
<1>1. CASE InStep
  BY <1>1
<1>2. CASE Astray
  <2>1. /\ RESYNC = 131 /\ info \in Seq(Byte) /\ info_len \in 0 .. 127
        /\ state = "Info" => Len(info) < info_len
    BY DEF LinkInv, IInv, TypeOK, InfoFits, RESYNC, MAX_INFO_LEN
  <2>2. Len(info) \in Nat
    BY <2>1
  <2>3. state \in {"Hunt", "End"}
    BY <1>2, <2>1, <2>2 DEF Astray
  <2>4. QED
    BY <2>3 DEF InStep
<1>3. QED
  BY <1>1, <1>2 DEF LinkInv

LEMMA InitLink == LinkInit => LinkInv
<1> SUFFICES ASSUME LinkInit PROVE LinkInv
  OBVIOUS
<1>1. IInv
  BY InitInv DEF LinkInit
<1>2. Astray
  BY DEF LinkInit, Init, Astray
<1>3. clean \in 0 .. RESYNC /\ due = FALSE
  BY DEF LinkInit, RESYNC, MAX_INFO_LEN
<1>4. QED
  BY <1>1, <1>2, <1>3 DEF LinkInv, LinkInit

LEMMA StepLink == LinkInv /\ [LinkNext]_linkVars => LinkInv'
<1> SUFFICES ASSUME LinkInv, [LinkNext]_linkVars PROVE LinkInv'
  OBVIOUS
<1>1. CASE Carry
  <2>1. IInv'
    <3>1. current \in Byte
      BY OnTheLine
    <3>2. QED
      BY <1>1, <3>1, FeedKeepsInv DEF Carry, LinkInv
  <2>2. frameNo' \in DOMAIN Traffic /\ offset' \in DOMAIN wire[frameNo']
    BY <1>1, Advances DEF Carry
  <2>3. clean' \in 0 .. RESYNC /\ due' \in BOOLEAN
    <3>1. clean \in 0 .. 131 /\ RESYNC = 131
      BY DEF LinkInv, RESYNC, MAX_INFO_LEN
    <3>2. clean' = IF FlagInside THEN 0 ELSE IF clean < 131 THEN clean + 1 ELSE clean
      BY <1>1, <3>1 DEF Carry
    <3>3. clean' \in 0 .. RESYNC
      BY <3>1, <3>2
    <3>4. due' \in BOOLEAN
      <4>1. due \in BOOLEAN /\ due' = (due \/ (offset = 1 /\ clean = RESYNC))
        BY <1>1 DEF Carry, LinkInv
      <4>2. QED
        BY <4>1, Zenon
    <3>5. QED
      BY <3>3, <3>4
  <2>4. InStep' \/ Astray'
    BY <1>1, CarryInStep, CarryAstray DEF LinkInv
  <2>5. due' => InStep'
    <3> SUFFICES ASSUME due' PROVE InStep'
      OBVIOUS
    <3>1. InStep
      BY <1>1, BeginsInStep DEF Carry, LinkInv
    <3>2. QED
      BY <1>1, <3>1, CarryInStep
  <2>6. QED
    BY <2>1, <2>2, <2>3, <2>4, <2>5 DEF LinkInv
<1>2. CASE Fault
  <2>1. clean' = 0 /\ due' = FALSE /\ (Lose \/ Damage \/ Insert)
    BY <1>2 DEF Fault
  <2>2. IInv'
    <3>1. CASE Lose
      BY <3>1 DEF Lose, LinkInv, vars, IInv, TypeOK, ViewCannotPanic, InfoFits, Registers,
        KeepsHeader, DeliveredIsWireFrame
    <3>2. ASSUME NEW b \in Noise, feed(b) PROVE IInv'
      BY <3>2, LinkAssumption, FeedKeepsInv DEF LinkInv
    <3>3. QED
      BY <2>1, <3>1, <3>2 DEF Damage, Insert
  <2>3. frameNo' \in DOMAIN Traffic /\ offset' \in DOMAIN wire[frameNo']
    <3>1. Advance \/ UNCHANGED <<frameNo, offset>>
      BY <2>1 DEF Lose, Damage, Insert
    <3>2. CASE Advance
      BY <3>2, Advances
    <3>3. CASE UNCHANGED <<frameNo, offset>>
      BY <3>3 DEF LinkInv
    <3>4. QED
      BY <3>1, <3>2, <3>3
  <2>4. Astray'
    BY <2>1, <2>2, AstrayAtFirst
  <2>5. clean' \in 0 .. RESYNC
    BY <2>1 DEF RESYNC, MAX_INFO_LEN
  <2>6. QED
    BY <2>1, <2>2, <2>3, <2>4, <2>5, Zenon DEF LinkInv
<1>3. CASE UNCHANGED linkVars
  <2>1. IInv'
    BY <1>3 DEF linkVars, LinkInv, vars, IInv, TypeOK, ViewCannotPanic, InfoFits, Registers,
      KeepsHeader, DeliveredIsWireFrame
  <2>2. (InStep => InStep') /\ (Astray => Astray')
    BY <1>3 DEF linkVars, vars, InStep, Astray
  <2>3. QED
    BY <1>3, <2>1, <2>2 DEF linkVars, LinkInv
<1>4. QED
  BY <1>1, <1>2, <1>3 DEF LinkNext

\* The inductive invariant of the line.
LEMMA LinkInvariant == LinkSpec => []LinkInv
  BY InitLink, StepLink, PTL DEF LinkSpec

\* The decoder resynchronises on its own, whatever frames the modem sends,
\* with whatever payloads, and whatever bytes the line makes up and however
\* often: once 131 bytes have come without a fault and without a FLAG inside a
\* frame it delivers every frame, FLAGs or not, until the next fault.
THEOREM DecoderResyncs == LinkSpec => Resync
<1> DEFINE A == due' /\ offset = Len(wire[frameNo]) /\ offset' = 1
                  => result' = [is |-> "Frame", frame |-> ViewOf(Traffic[frameNo])]
<1>1. LinkInv /\ [LinkNext]_linkVars => [A]_linkVars
  <2> SUFFICES ASSUME LinkInv, LinkNext, due', offset = Len(wire[frameNo])
               PROVE  result' = [is |-> "Frame", frame |-> ViewOf(Traffic[frameNo])]
    OBVIOUS
  <2>1. Carry
    BY DEF LinkNext, Fault
  <2>2. InStep
    BY <2>1, BeginsInStep DEF Carry, LinkInv
  <2>3. QED
    BY <2>1, <2>2, CarryInStep
<1> HIDE DEF A
<1>2. LinkSpec => [][A]_linkVars
  BY LinkInvariant, <1>1, PTL DEF LinkSpec
<1>3. QED
  BY <1>2 DEF A, Resync
===============================================================================
