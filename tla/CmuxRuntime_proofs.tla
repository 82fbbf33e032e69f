------------------------- MODULE CmuxRuntime_proofs -------------------------
(***************************************************************************)
(* The runtime for every size of its queues and pipes, in three parts: the *)
(* inductive invariant and what it gives for the DLCs opened; each         *)
(* direction of each data DLC as a byte FIFO (DlcStream), step by step;    *)
(* and OpensDespiteFaults, the count of what uses up the attempts.         *)
(***************************************************************************)
EXTENDS MCRuntime, StreamLemmas, SequenceTheorems, FunctionTheorems,
        FiniteSetTheorems, TLAPS

-----------------------------------------------------------------------------
(* Counting the elements of a queue.                                       *)

LEMMA CountInType ==
  ASSUME NEW T, NEW s \in Seq(T), NEW K
  PROVE  CountIn(s, K) \in Nat
<1> DEFINE S == {i \in 1 .. Len(s) : s[i].kind \in K}
<1>1. IsFiniteSet(1 .. Len(s))
  BY FS_Interval
<1>2. IsFiniteSet(S)
  BY <1>1, FS_Subset
<1>3. QED
  BY <1>2, FS_CardinalityType DEF CountIn

LEMMA CountInEmpty ==
  ASSUME NEW K
  PROVE  CountIn(<<>>, K) = 0
<1>1. {i \in 1 .. Len(<<>>) : <<>>[i].kind \in K} = {}
  OBVIOUS
<1>2. QED
  BY <1>1, FS_EmptySet DEF CountIn

LEMMA CountInAppend ==
  ASSUME NEW T, NEW s \in Seq(T), NEW e \in T, NEW K
  PROVE  CountIn(Append(s, e), K) = CountIn(s, K) + (IF e.kind \in K THEN 1 ELSE 0)
<1> DEFINE S == {i \in 1 .. Len(s) : s[i].kind \in K}
           n == Len(s) + 1
           A == {i \in 1 .. Len(Append(s, e)) : Append(s, e)[i].kind \in K}
<1>1. IsFiniteSet(S)
  BY FS_Interval, FS_Subset
<1>2. n \notin S
  OBVIOUS
<1>3. A = IF e.kind \in K THEN S \cup {n} ELSE S
  OBVIOUS
<1>4. Cardinality(S \cup {n}) = Cardinality(S) + 1
  BY <1>1, <1>2, FS_AddElement
<1>5. Cardinality(S) \in Nat
  BY <1>1, FS_CardinalityType
<1>6. CountIn(s, K) = Cardinality(S) /\ CountIn(Append(s, e), K) = Cardinality(A)
  BY DEF CountIn
<1> HIDE DEF S, n, A
<1>7. QED
  BY <1>3, <1>4, <1>5, <1>6

LEMMA CountInTail ==
  ASSUME NEW T, NEW s \in Seq(T), s # <<>>, NEW K
  PROVE  CountIn(s, K) = CountIn(Tail(s), K) + (IF Head(s).kind \in K THEN 1 ELSE 0)
<1> DEFINE S == {i \in 1 .. Len(s) : s[i].kind \in K}
           R == {i \in 1 .. Len(Tail(s)) : Tail(s)[i].kind \in K}
           M == {i \in S : i # 1}
           f == [i \in R |-> i + 1]
<1>1. Len(Tail(s)) = Len(s) - 1 /\ \A i \in 1 .. Len(s) - 1 : Tail(s)[i] = s[i + 1]
  OBVIOUS
<1>2. IsFiniteSet(S) /\ IsFiniteSet(R)
  BY FS_Interval, FS_Subset
<1>3. IsFiniteSet(M) /\ 1 \notin M
  BY <1>2, FS_Subset
<1>4. f \in Bijection(R, M)
  <2>1. f \in [R -> M] /\ \A a, b \in R : f[a] = f[b] => a = b
    BY <1>1
  <2>2. \A j \in M : j - 1 \in R /\ f[j - 1] = j
    BY <1>1
  <2>3. QED
    BY <2>1, <2>2, Fun_IsBij
<1>5. Cardinality(M) = Cardinality(R)
  BY <1>2, <1>4, FS_Bijection DEF ExistsBijection
<1>6. S = IF Head(s).kind \in K THEN M \cup {1} ELSE M
  OBVIOUS
<1>7. Cardinality(M \cup {1}) = Cardinality(M) + 1
  BY <1>3, FS_AddElement
<1>8. Cardinality(R) \in Nat
  BY <1>2, FS_CardinalityType
<1>9. CountIn(s, K) = Cardinality(S) /\ CountIn(Tail(s), K) = Cardinality(R)
  BY DEF CountIn
<1> HIDE DEF S, R, M, f
<1>10. QED
  BY <1>5, <1>6, <1>7, <1>8, <1>9

-----------------------------------------------------------------------------
(* Types.                                                                  *)

LEMMA AppendType ==
  ASSUME NEW T, NEW s \in Seq(T), NEW e \in T
  PROVE  Append(s, e) \in Seq(T) /\ Len(Append(s, e)) = Len(s) + 1
  OBVIOUS

LEMMA TailType ==
  ASSUME NEW T, NEW s \in Seq(T), s # <<>>
  PROVE  Head(s) \in T /\ Tail(s) \in Seq(T) /\ Len(Tail(s)) = Len(s) - 1
  OBVIOUS

LEMMA SubSeqType ==
  ASSUME NEW T, NEW s \in Seq(T), NEW i \in Nat \ {0}, NEW j \in 0 .. Len(s)
  PROVE  SubSeq(s, i, j) \in Seq(T)
  OBVIOUS

LEMMA BytesAfterType ==
  ASSUME NEW b \in Nat, NEW n \in Nat
  PROVE  [i \in 1 .. n |-> b + i] \in Seq(Nat)
  OBVIOUS

LEMMA InitType == Init => TypeOK
<1> SUFFICES ASSUME Init PROVE TypeOK
  OBVIOUS
<1>1. phase \in Open!Phase /\ dlci \in Dlcs /\ attempt \in 0 .. SABM_RETRIES - 1
  BY RuntimeAssumption DEF Init, Open!Init, Open!Phase, Dlcs
<1>2. /\ requests \in Seq(TxReq) /\ sending \in Seq(Frame) /\ toModem \in Seq(Frame)
      /\ writing \in [DataDlcs -> Seq(Nat)] /\ written \in [DataDlcs -> Nat]
  BY DEF Init, Tx!Init, Tx!DataDlcs, DataDlcs
<1>3. /\ toHost \in Seq(Frame) /\ ctrl \in Seq(ControlEvt)
      /\ Len(ctrl) <= CTRL_QUEUE_DEPTH
      /\ pipe \in [DataDlcs -> Seq(Nat)] /\ lastRead \in [DataDlcs -> Nat]
  BY RuntimeAssumption DEF Init, Rx!Init, Rx!DataDlcs, DataDlcs
<1>4. pending \in Frame /\ pending.dlci \in DataDlcs
  BY DEF Init, Rx!Init, Rx!Uih, Frame, FrameKind, DataDlcs
<1>5. /\ accepted \subseteq Dlcs /\ refused \subseteq Dlcs /\ strays \in 0 .. MaxStrays
      /\ sent \in [DataDlcs -> Nat] /\ got \in [DataDlcs -> Nat]
  BY RuntimeAssumption DEF Init, Modem!Init, Modem!DataDlcs, DataDlcs
<1>6. QED
  BY <1>1, <1>2, <1>3, <1>4, <1>5 DEF TypeOK

\* What the main task writes is typed.
LEMMA MainType ==
  ASSUME TypeOK, MainStep \/ Timeout
  PROVE  TypeOK'
<1>1. \A d \in Dlcs : Open!Sabm(d) \in TxReq
  BY DEF Open!Sabm, TxReq, Dlcs
<1>2. dlci \in Dlcs /\ attempt \in 0 .. SABM_RETRIES - 1 /\ requests \in Seq(TxReq)
      /\ ctrl \in Seq(ControlEvt) /\ Len(ctrl) <= CTRL_QUEUE_DEPTH
      /\ CTRL_QUEUE_DEPTH \in Nat \ {0} /\ SABM_RETRIES \in Nat \ {0}
  BY RuntimeAssumption DEF TypeOK
<1> DEFINE Kept == /\ phase' \in Open!Phase /\ dlci' \in Dlcs
                   /\ attempt' \in 0 .. SABM_RETRIES - 1
                   /\ requests' \in Seq(TxReq) /\ ctrl' \in Seq(ControlEvt)
                   /\ Len(ctrl') <= CTRL_QUEUE_DEPTH
<1>3. ASSUME NEW d \in Dlcs, NEW a \in 0 .. SABM_RETRIES - 1, Open!BeginAttempt(d, a)
      PROVE  Kept
  <2>1. requests' \in Seq(TxReq)
    BY <1>1, <1>2, <1>3, AppendType DEF Open!BeginAttempt
  <2>2. ctrl' = <<>> /\ dlci' = d /\ attempt' = a /\ phase' \in {"waiting", "sending"}
    BY <1>3 DEF Open!BeginAttempt
  <2>3. QED
    BY <1>2, <2>1, <2>2 DEF Open!Phase
<1>4. ASSUME NEW r \in Seq(ControlEvt), Len(r) <= CTRL_QUEUE_DEPTH, Open!Retry(r)
      PROVE  Kept
  <2>1. CASE Open!BeginAttempt(dlci, attempt + 1) /\ Open!attempts_left
    <3>1. attempt + 1 \in 0 .. SABM_RETRIES - 1
      BY <1>2, <2>1 DEF Open!attempts_left
    <3>2. QED
      BY <1>2, <1>3, <2>1, <3>1
  <2>2. CASE /\ phase' = "SabmTimeout" /\ ctrl' = r
             /\ UNCHANGED <<dlci, attempt, requests>>
    BY <1>2, <1>4, <2>2 DEF Open!Phase
  <2>3. QED
    BY <1>4, <2>1, <2>2 DEF Open!Retry
<1>5. ctrl # <<>> => Tail(ctrl) \in Seq(ControlEvt) /\ Len(Tail(ctrl)) <= CTRL_QUEUE_DEPTH
  BY <1>2, TailType
<1>6. Kept
  <2>1. CASE Open!Start
    BY <1>2, <1>3, <2>1 DEF Open!Start, Dlcs
  <2>2. CASE Open!SendSabm
    BY <1>1, <1>2, <2>2, AppendType DEF Open!SendSabm, Open!Phase
  <2>3. CASE Open!ReceiveUa
    <3>1. CASE dlci + 1 \in Open!Dlcs /\ Open!BeginAttempt(dlci + 1, 0)
      BY <1>2, <1>3, <3>1 DEF Open!Dlcs, Dlcs
    <3>2. CASE phase' = "ok" /\ ctrl' = Tail(ctrl) /\ UNCHANGED <<dlci, attempt, requests>>
      BY <1>2, <1>5, <2>3, <3>2 DEF Open!ReceiveUa, Open!Heard, Open!Phase
    <3>3. QED
      BY <2>3, <3>1, <3>2 DEF Open!ReceiveUa
  <2>4. CASE Open!ReceiveDm
    BY <1>2, <1>5, <2>4 DEF Open!ReceiveDm, Open!Heard, Open!Phase
  <2>5. CASE Open!ReceiveOther
    BY <1>4, <1>5, <2>5 DEF Open!ReceiveOther
  <2>6. CASE Open!Timeout
    BY <1>2, <1>4, <2>6 DEF Open!Timeout
  <2>7. QED
    BY <2>1, <2>2, <2>3, <2>4, <2>5, <2>6 DEF MainStep, Timeout
<1>7. UNCHANGED <<txVars, rxVars, modemVars, toModem, toHost>>
  BY DEF MainStep, Timeout
<1>8. QED
  BY <1>6, <1>7 DEF TypeOK, txVars, rxVars, modemVars

LEMMA ChunkType ==
  ASSUME TypeOK, NEW d \in DataDlcs
  PROVE  Tx!Data(d, Tx!chunk(d)) \in TxReq /\ Len(Tx!chunk(d)) \in 0 .. Len(writing[d])
<1> DEFINE m == IF Len(writing[d]) < MAX_INFO_LEN THEN Len(writing[d]) ELSE MAX_INFO_LEN
<1>1. writing[d] \in Seq(Nat) /\ MAX_INFO_LEN \in Nat \ {0}
  BY RuntimeAssumption DEF TypeOK
<1>2. m \in 0 .. Len(writing[d]) /\ Tx!chunk(d) = SubSeq(writing[d], 1, m)
  BY <1>1 DEF Tx!chunk
<1> HIDE DEF m
<1>3. Tx!chunk(d) \in Seq(Nat)
  BY <1>1, <1>2, SubSeqType
<1>4. Tx!Data(d, Tx!chunk(d)) \in TxReq
  BY <1>3 DEF Tx!Data, TxReq, DataDlcs
<1>5. QED
  BY <1>1, <1>2, <1>4

LEMMA WriterType ==
  ASSUME TypeOK, NEW d \in DataDlcs, Writer(d)
  PROVE  TypeOK'
<1>1. writing[d] \in Seq(Nat) /\ written[d] \in Nat /\ requests \in Seq(TxReq)
      /\ MAX_INFO_LEN \in Nat \ {0} /\ MaxTxBytes \in Nat
  BY RuntimeAssumption DEF TypeOK
<1>2. CASE \E n \in 1 .. MaxTxBytes - written[1] - written[2] : Tx!Write(d, n)
  <2>1. PICK n \in 1 .. MaxTxBytes - written[1] - written[2] : Tx!Write(d, n)
    BY <1>2
  <2> n \in Nat
    BY <1>1
  <2>2. Tx!BytesAfter(written[d], n) \in Seq(Nat) /\ written[d] + n \in Nat
    BY <1>1, BytesAfterType DEF Tx!BytesAfter
  <2>3. QED
    BY <2>1, <2>2 DEF Writer, Tx!Write, TypeOK, openVars, rxVars, modemVars
<1>3. CASE Tx!SendChunk(d)
  <2>1. Tx!Data(d, Tx!chunk(d)) \in TxReq /\ Len(Tx!chunk(d)) \in 0 .. Len(writing[d])
    BY ChunkType
  <2>3. Tx!rest(d) \in Seq(Nat)
    <3> DEFINE k == Len(Tx!chunk(d))
    <3>1. k \in 0 .. Len(writing[d])
      BY <2>1
    <3> HIDE DEF k
    <3>2. SubSeq(writing[d], k + 1, Len(writing[d])) \in Seq(Nat)
      BY <1>1, <3>1, SubSeqType
    <3>3. QED
      BY <3>2 DEF Tx!rest, k
  <2>4. requests' \in Seq(TxReq)
    BY <1>1, <1>3, <2>1, AppendType DEF Tx!SendChunk
  <2>5. QED
    BY <1>3, <2>3, <2>4 DEF Writer, Tx!SendChunk, TypeOK, openVars, rxVars, modemVars
<1>4. QED
  BY <1>2, <1>3 DEF Writer

LEMMA ToFrameType ==
  ASSUME NEW q \in TxReq
  PROVE  /\ Tx!ToFrame(q) \in Frame /\ Tx!ToFrame(q).dlci = q.dlci
         /\ Tx!ToFrame(q).kind = "Sabm" => q.kind = "Sabm"
<1>1. q.kind \in {"Data", "Sabm"} /\ q.dlci \in 0 .. 63 /\ q.info \in Seq(Nat)
  BY DEF TxReq
<1>2. CASE q.kind = "Data"
  BY <1>1, <1>2 DEF Tx!ToFrame, Tx!Uih, Frame, FrameKind
<1>3. CASE q.kind = "Sabm"
  BY <1>1, <1>3 DEF Tx!ToFrame, Tx!Sabm, Frame, FrameKind
<1>4. QED
  BY <1>1, <1>2, <1>3

LEMMA TxType ==
  ASSUME TypeOK, TxStep \/ TransmitFails
  PROVE  TypeOK'
<1>1. requests \in Seq(TxReq) /\ sending \in Seq(Frame) /\ toModem \in Seq(Frame)
  BY DEF TypeOK
<1>2. \A r \in TxReq : Tx!ToFrame(r) \in Frame
  BY ToFrameType
<1>3. CASE Tx!TakeRequest
  <2>1. requests' \in Seq(TxReq) /\ Head(requests) \in TxReq
    BY <1>1, <1>3, TailType DEF Tx!TakeRequest
  <2>2. sending' \in Seq(Frame)
    BY <1>2, <1>3, <2>1 DEF Tx!TakeRequest
  <2>3. QED
    BY <1>3, <2>1, <2>2
    DEF TxStep, TransmitFails, Tx!TakeRequest, Tx!TransmitFails, Tx!Transmit, TypeOK,
        openVars, rxVars, modemVars
<1>4. CASE Tx!Transmit
  <2>1. toModem' \in Seq(Frame)
    BY <1>1, <1>4, TailType, AppendType DEF Tx!Transmit
  <2>2. sending' \in Seq(Frame)
    BY <1>4 DEF Tx!Transmit
  <2>3. QED
    BY <1>4, <2>1, <2>2
    DEF TxStep, TransmitFails, Tx!Transmit, Tx!TransmitFails, TypeOK,
        openVars, rxVars, modemVars
<1>5. CASE TransmitFails
  <2>1. /\ sending' = <<>> /\ UNCHANGED <<requests, toModem, writing, written>>
        /\ UNCHANGED <<openVars, rxVars, modemVars, toHost, ctrl>>
    BY <1>5 DEF TransmitFails, Tx!TransmitFails
  <2>2. sending' \in Seq(Frame)
    BY <2>1
  <2>3. QED
    BY <2>1, <2>2 DEF TypeOK, openVars, rxVars, modemVars
<1>6. QED
  BY <1>3, <1>4, <1>5 DEF TxStep

LEMMA RxType ==
  ASSUME TypeOK, RxStep
  PROVE  TypeOK'
<1>1. /\ toHost \in Seq(Frame) /\ ctrl \in Seq(ControlEvt) /\ pending \in Frame
      /\ pending.dlci \in DataDlcs /\ pipe \in [DataDlcs -> Seq(Nat)]
      /\ pending.info \in Seq(Nat) /\ pipe[pending.dlci] \in Seq(Nat)
      /\ Len(ctrl) <= CTRL_QUEUE_DEPTH /\ CTRL_QUEUE_DEPTH \in Nat \ {0}
  BY RuntimeAssumption DEF TypeOK, Frame
<1>2. toHost # <<>> => Head(toHost) \in Frame /\ Tail(toHost) \in Seq(Frame)
  BY <1>1, TailType
<1>3. CASE Rx!ToPipe
  <2>1. toHost' \in Seq(Frame) /\ pending' \in Frame /\ pending'.dlci \in DataDlcs
    BY <1>2, <1>3 DEF Rx!ToPipe, Rx!TakeFrame, Rx!DataDlcs, DataDlcs
  <2>2. QED
    BY <1>3, <2>1 DEF RxStep, Rx!ToPipe, TypeOK, openVars, txVars, modemVars
<1>4. CASE Rx!Ignore
  <2>1. toHost' \in Seq(Frame)
    BY <1>2, <1>4 DEF Rx!Ignore, Rx!TakeFrame
  <2>2. QED
    BY <1>4, <2>1 DEF RxStep, Rx!Ignore, TypeOK, openVars, txVars, modemVars
<1>5. CASE Rx!Emit
  <2> DEFINE e == [kind |-> Head(toHost).kind, dlci |-> Head(toHost).dlci]
  <2>1. toHost' \in Seq(Frame) /\ e \in ControlEvt
    BY <1>2, <1>5
    DEF Rx!Emit, Rx!TakeFrame, Rx!ControlKinds, ControlKinds, ControlEvt, Frame
  <2>2. ctrl' = IF Len(ctrl) < CTRL_QUEUE_DEPTH THEN Append(ctrl, e) ELSE ctrl
    BY <1>5 DEF Rx!Emit, Rx!emit
  <2> HIDE DEF e
  <2>3. ctrl' \in Seq(ControlEvt) /\ Len(ctrl') <= CTRL_QUEUE_DEPTH
    BY <1>1, <2>1, <2>2, AppendType
  <2>4. QED
    BY <1>5, <2>1, <2>3 DEF RxStep, Rx!Emit, TypeOK, openVars, txVars, modemVars
<1>6. CASE Rx!WritePipe
  <2> DEFINE n == Len(pending.info)
             room == PIPE_BYTES(pending.dlci) - Len(pipe[pending.dlci])
             k == IF n < room THEN n ELSE room
  <2>1. n \in Nat /\ PIPE_BYTES(pending.dlci) \in Nat /\ Len(pipe[pending.dlci]) \in Nat
    BY <1>1, RuntimeAssumption DEF PIPE_BYTES
  <2>2. room > 0
    BY <1>6 DEF Rx!WritePipe, Rx!PIPE_BYTES, PIPE_BYTES
  <2>3. k \in 0 .. n
    BY <2>1, <2>2
  <2>4. /\ pipe' = [pipe EXCEPT ![pending.dlci] = @ \o SubSeq(pending.info, 1, k)]
        /\ pending' = [pending EXCEPT !.info = SubSeq(pending.info, k + 1, n)]
    BY <1>6 DEF Rx!WritePipe, Rx!leftover, Rx!PIPE_BYTES, PIPE_BYTES
  <2> HIDE DEF k
  <2>5. SubSeq(pending.info, 1, k) \in Seq(Nat) /\ SubSeq(pending.info, k + 1, n) \in Seq(Nat)
    <3>1. pending.info \in Seq(Nat)
      BY <1>1
    <3>2. k \in 0 .. n /\ n \in 0 .. n /\ k + 1 \in Nat \ {0}
      BY <2>1, <2>3
    <3>3. QED
      BY <3>1, <3>2, SubSeqType
  <2>6. pipe' \in [DataDlcs -> Seq(Nat)]
    BY <1>1, <2>4, <2>5
  <2>7. pending' \in Frame /\ pending'.dlci \in DataDlcs
    BY <1>1, <2>4, <2>5 DEF Frame
  <2>8. QED
    BY <1>6, <2>6, <2>7 DEF RxStep, Rx!WritePipe, TypeOK, openVars, txVars, modemVars
<1>7. QED
  BY <1>3, <1>4, <1>5, <1>6 DEF RxStep

LEMMA ReaderType ==
  ASSUME TypeOK, NEW d \in DataDlcs, Reader(d)
  PROVE  TypeOK'
<1>1. PICK k \in 1 .. Len(pipe[d]) : Rx!ReadPipe(d, k)
  BY DEF Reader
<1>2. pipe[d] \in Seq(Nat)
  BY DEF TypeOK
<1>3. pipe[d][k] \in Nat /\ SubSeq(pipe[d], k + 1, Len(pipe[d])) \in Seq(Nat)
  BY <1>2, SubSeqType
<1>4. QED
  BY <1>1, <1>3 DEF Rx!ReadPipe, Reader, TypeOK, openVars, txVars, modemVars

LEMMA StrayType ==
  ASSUME NEW f \in Modem!Strays
  PROVE  f \in Frame /\ f.kind # "Ua" /\ (f.kind = "Dm" => f.dlci \in Dlcs)
<1>1. ASSUME NEW k \in {"Disc", "Dm", "Sabm"}, NEW c \in Dlcs,
             f = [kind |-> k, dlci |-> c, info |-> <<>>]
      PROVE  f \in Frame /\ f.dlci \in Dlcs /\ f.kind # "Ua"
  <2>1. k \in FrameKind /\ c \in 0 .. 63 /\ <<>> \in Seq(Nat)
    BY DEF FrameKind, Dlcs
  <2>2. [kind |-> k, dlci |-> c, info |-> <<>>] \in Frame
    BY <2>1 DEF Frame
  <2>3. QED
    BY <1>1, <2>2
<1>2. CASE f = Modem!Uih(0, <<>>) \/ f = Modem!Uih(3, <<>>)
  <2>1. "Uih" \in FrameKind /\ <<>> \in Seq(Nat) /\ 0 \in 0 .. 63 /\ 3 \in 0 .. 63
    BY DEF FrameKind
  <2>2. Modem!Uih(0, <<>>) \in Frame /\ Modem!Uih(3, <<>>) \in Frame
    BY <2>1 DEF Modem!Uih, Frame
  <2>3. f.kind = "Uih"
    BY <1>2 DEF Modem!Uih
  <2>4. QED
    BY <1>2, <2>2, <2>3
<1>3. QED
  BY <1>1, <1>2 DEF Modem!Strays, Modem!Dlcs, Dlcs

LEMMA ModemType ==
  ASSUME TypeOK, ModemAnswer \/ ModemRefuse \/ ModemSend
  PROVE  TypeOK'
<1>1. /\ toModem \in Seq(Frame) /\ toHost \in Seq(Frame)
      /\ sent \in [DataDlcs -> Nat] /\ got \in [DataDlcs -> Nat]
      /\ strays \in 0 .. MaxStrays /\ MaxStrays \in Nat /\ MaxRxBytes \in Nat
  BY RuntimeAssumption DEF TypeOK
<1>2. toModem # <<>> => Head(toModem) \in Frame /\ Tail(toModem) \in Seq(Frame)
  BY <1>1, TailType
<1>3. \A d \in Dlcs : Modem!Ua(d) \in Frame /\ Modem!Dm(d) \in Frame
  BY DEF Modem!Ua, Modem!Dm, Frame, FrameKind, Dlcs
<1>4. CASE Modem!Accept
  <2>1. PICK d \in Modem!Dlcs : /\ Modem!Answer(Modem!Ua(d)) /\ accepted' = accepted \cup {d}
                                /\ UNCHANGED refused
    BY <1>4 DEF Modem!Accept
  <2>2. d \in Dlcs
    BY DEF Modem!Dlcs, Dlcs
  <2>3. toModem' \in Seq(Frame) /\ toHost' \in Seq(Frame)
    BY <1>1, <1>2, <1>3, <2>1, <2>2, AppendType DEF Modem!Answer
  <2>4. UNCHANGED <<openVars, txVars, rxVars, requests, ctrl>>
    BY <1>4 DEF ModemAnswer, ModemRefuse, ModemSend, Modem!Refuse, Modem!Accept, Modem!SendData,
                Modem!SendStray, Modem!Answer
  <2>5. QED
    BY <2>1, <2>2, <2>3, <2>4 DEF Modem!Answer, TypeOK, openVars, txVars, rxVars
<1>5. CASE Modem!Refuse
  <2>1. PICK d \in Modem!Dlcs : /\ Modem!Answer(Modem!Dm(d)) /\ refused' = refused \cup {d}
                                /\ UNCHANGED accepted
    BY <1>5 DEF Modem!Refuse
  <2>2. d \in Dlcs
    BY DEF Modem!Dlcs, Dlcs
  <2>3. toModem' \in Seq(Frame) /\ toHost' \in Seq(Frame)
    BY <1>1, <1>2, <1>3, <2>1, <2>2, AppendType DEF Modem!Answer
  <2>4. UNCHANGED <<openVars, txVars, rxVars, requests, ctrl>>
    BY DEF ModemAnswer, ModemRefuse, ModemSend
  <2>5. QED
    BY <2>1, <2>2, <2>3, <2>4 DEF Modem!Answer, TypeOK, openVars, txVars, rxVars
<1>6. CASE Modem!TakeData
  <2>1. toModem' \in Seq(Frame)
    BY <1>2, <1>6 DEF Modem!TakeData
  <2> DEFINE f == Head(toModem)
  <2>2. f.info \in Seq(Nat) /\ (f.info # <<>> => f.info[Len(f.info)] \in Nat)
    <3>1. f.info \in Seq(Nat)
      BY <1>2, <1>6 DEF Modem!TakeData, Frame
    <3>2. QED
      BY <3>1
  <2>3. got' = [got EXCEPT ![f.dlci] = IF f.info = <<>> THEN @ ELSE f.info[Len(f.info)]]
    BY <1>6 DEF Modem!TakeData
  <2> HIDE DEF f
  <2>4. got' \in [DataDlcs -> Nat]
    BY <1>1, <2>2, <2>3
  <2>5. UNCHANGED <<openVars, txVars, rxVars, requests, ctrl>>
    BY DEF ModemAnswer, ModemRefuse, ModemSend
  <2>6. QED
    BY <1>6, <2>1, <2>4, <2>5 DEF Modem!TakeData, TypeOK, openVars, txVars, rxVars
<1>7. ASSUME NEW d \in DataDlcs, NEW n \in 1 .. MaxRxBytes - sent[1] - sent[2], Modem!SendData(d, n)
      PROVE  TypeOK'
  <2>1. sent[d] \in Nat /\ n \in Nat
    BY <1>1
  <2>2. Modem!Uih(d, Modem!BytesAfter(sent[d], n)) \in Frame
    <3>1. Modem!BytesAfter(sent[d], n) \in Seq(Nat)
      BY <2>1, BytesAfterType DEF Modem!BytesAfter
    <3>2. QED
      BY <3>1 DEF Modem!Uih, Frame, FrameKind, DataDlcs
  <2>3. toHost' \in Seq(Frame) /\ sent' \in [DataDlcs -> Nat]
    BY <1>1, <1>7, <2>1, <2>2, AppendType DEF Modem!SendData
  <2>4. UNCHANGED <<openVars, txVars, rxVars, requests, ctrl>>
    BY DEF ModemAnswer, ModemRefuse, ModemSend
  <2>5. QED
    BY <1>7, <2>3, <2>4 DEF Modem!SendData, TypeOK, openVars, txVars, rxVars
<1>8. ASSUME NEW f \in Modem!Strays, Modem!SendStray(f)
      PROVE  TypeOK'
  <2>1. f \in Frame /\ (f.kind = "Dm" => f.dlci \in Dlcs)
    BY StrayType
  <2>2. /\ toHost' \in Seq(Frame) /\ strays' \in 0 .. MaxStrays
        /\ refused' \subseteq Dlcs
    BY <1>1, <1>8, <2>1, AppendType DEF Modem!SendStray, TypeOK
  <2>3. UNCHANGED <<openVars, txVars, rxVars, requests, ctrl>>
    BY DEF ModemAnswer, ModemRefuse, ModemSend
  <2>4. QED
    BY <1>8, <2>2, <2>3 DEF Modem!SendStray, TypeOK, openVars, txVars, rxVars
<1>9. QED
  BY <1>4, <1>5, <1>6, <1>7, <1>8 DEF ModemAnswer, ModemRefuse, ModemSend

LEMMA LoseType ==
  ASSUME TypeOK, LoseToModem \/ LoseToHost
  PROVE  TypeOK'
<1>1. toModem \in Seq(Frame) /\ toHost \in Seq(Frame)
  BY DEF TypeOK
<1>2. CASE LoseToModem
  <2>1. toModem' \in Seq(Frame)
    BY <1>1, <1>2, TailType DEF LoseToModem
  <2>2. QED
    BY <1>2, <2>1 DEF LoseToModem, TypeOK, openVars, txVars, rxVars, modemVars
<1>3. CASE LoseToHost
  <2>1. toHost' \in Seq(Frame)
    BY <1>1, <1>3, TailType DEF LoseToHost
  <2>2. QED
    BY <1>3, <2>1 DEF LoseToHost, TypeOK, openVars, txVars, rxVars, modemVars
<1>4. QED
  BY <1>2, <1>3

LEMMA NextType ==
  ASSUME TypeOK, Next
  PROVE  TypeOK'
  BY MainType, WriterType, ReaderType, TxType, RxType, ModemType, LoseType DEF Next

\* Every behaviour is typed: in particular the DLC and attempt counters stay
\* in range and the control queue never exceeds its depth.
THEOREM RuntimeTypeOK == Spec => []TypeOK
<1>1. TypeOK /\ [Next]_vars => TypeOK'
  <2> SUFFICES ASSUME TypeOK, [Next]_vars PROVE TypeOK'
    OBVIOUS
  <2>1. CASE UNCHANGED vars
    BY <2>1 DEF vars, openVars, txVars, rxVars, modemVars, TypeOK
  <2>2. QED
    BY <2>1, NextType
<1>2. QED
  BY <1>1, InitType, PTL DEF Spec
-----------------------------------------------------------------------------
(* The elements of a queue.                                                *)

LEMMA AppendElements ==
  ASSUME NEW T, NEW s \in Seq(T), NEW e \in T, NEW i \in DOMAIN Append(s, e)
  PROVE  Append(s, e)[i] = e \/ (i \in DOMAIN s /\ Append(s, e)[i] = s[i])
  OBVIOUS

LEMMA TailElements ==
  ASSUME NEW T, NEW s \in Seq(T), s # <<>>, NEW i \in DOMAIN Tail(s)
  PROVE  i + 1 \in DOMAIN s /\ Tail(s)[i] = s[i + 1]
  OBVIOUS

LEMMA HeadElement ==
  ASSUME NEW T, NEW s \in Seq(T), s # <<>>
  PROVE  1 \in DOMAIN s /\ Head(s) = s[1]
  OBVIOUS

LEMMA ElementDlci ==
  /\ \A s \in Seq(TxReq) : \A i \in DOMAIN s : s[i].dlci \in 0 .. 63
  /\ \A s \in Seq(Frame) : \A i \in DOMAIN s : s[i].dlci \in 0 .. 63
<1>1. \A r \in TxReq : r.dlci \in 0 .. 63
  BY DEF TxReq
<1>2. \A f \in Frame : f.dlci \in 0 .. 63
  BY DEF Frame
<1>3. ASSUME NEW T, NEW s \in Seq(T), NEW i \in DOMAIN s
      PROVE  s[i] \in T
  OBVIOUS
<1>4. QED
  BY <1>1, <1>2, <1>3

LEMMA TailCount ==
  ASSUME NEW s \in Seq(Frame), s # <<>>, NEW K
  PROVE  /\ CountIn(Tail(s), K) \in Nat /\ CountIn(Tail(s), K) <= CountIn(s, K)
         /\ Head(s).kind \in K => CountIn(s, K) = CountIn(Tail(s), K) + 1
<1> DEFINE n == CountIn(Tail(s), K)
<1>1. n \in Nat
  BY TailType, CountInType
<1>2. CountIn(s, K) = n + (IF Head(s).kind \in K THEN 1 ELSE 0)
  BY CountInTail
<1> HIDE DEF n
<1>3. QED
  BY <1>1, <1>2 DEF n

LEMMA AppendCount ==
  ASSUME NEW s \in Seq(Frame), NEW f \in Frame, NEW K
  PROVE  /\ CountIn(Append(s, f), K) \in Nat /\ CountIn(Append(s, f), K) <= CountIn(s, K) + 1
         /\ f.kind \notin K => CountIn(Append(s, f), K) = CountIn(s, K)
<1> DEFINE n == CountIn(s, K)
<1>1. n \in Nat
  BY CountInType
<1>2. CountIn(Append(s, f), K) = n + (IF f.kind \in K THEN 1 ELSE 0)
  BY CountInAppend
<1> HIDE DEF n
<1>3. QED
  BY <1>1, <1>2 DEF n

-----------------------------------------------------------------------------
(* What a step of the main task does: it begins an attempt, gets a blocked *)
(* SABM through, or returns from start().                                  *)

MainInv ==
  /\ phase = "idle" => dlci = 0 /\ attempt = 0
  /\ phase = "ok" => dlci = 2

First(d, a) == phase = "idle" /\ d = 0 /\ a = 0
Again(d, a) == phase = "waiting" /\ d = dlci /\ a = attempt + 1 /\ a < SABM_RETRIES
NextDlc(d, a) ==
  /\ phase = "waiting" /\ ctrl # <<>> /\ Head(ctrl) = [kind |-> "Ua", dlci |-> dlci]
  /\ d = dlci + 1 /\ d \in Dlcs /\ a = 0

Begins ==
  \E d \in Dlcs, a \in 0 .. SABM_RETRIES - 1 :
    /\ First(d, a) \/ Again(d, a) \/ NextDlc(d, a)
    /\ Open!BeginAttempt(d, a)

Returns ==
  /\ phase = "waiting" /\ UNCHANGED <<dlci, attempt, requests>>
  /\ \/ ctrl = <<>> /\ ctrl' = <<>>
     \/ ctrl # <<>> /\ ctrl' = Tail(ctrl)
  /\ \/ phase' = "SabmTimeout"
     \/ /\ phase' = "Rejected" /\ ctrl # <<>>
        /\ Head(ctrl) = [kind |-> "Dm", dlci |-> dlci]
     \/ /\ phase' = "ok" /\ ctrl # <<>> /\ dlci = 2
        /\ Head(ctrl) = [kind |-> "Ua", dlci |-> dlci]

LEMMA MainEffect ==
  ASSUME TypeOK, MainStep \/ Timeout
  PROVE  /\ Begins \/ Open!SendSabm \/ Returns
         /\ UNCHANGED <<txVars, rxVars, modemVars, toModem, toHost>>
<1>0. SUFFICES Begins \/ Open!SendSabm \/ Returns
  BY DEF MainStep, Timeout
<1>1. /\ dlci \in 0 .. 2 /\ attempt \in 0 .. SABM_RETRIES - 1
      /\ SABM_RETRIES \in Nat \ {0}
  BY RuntimeAssumption DEF TypeOK, Dlcs
<1>2. ASSUME NEW r, Open!Retry(r), phase = "waiting",
             \/ ctrl = <<>> /\ r = <<>>
             \/ ctrl # <<>> /\ r = Tail(ctrl)
      PROVE  Begins \/ Returns
  <2>1. CASE Open!attempts_left /\ Open!BeginAttempt(dlci, attempt + 1)
    <3>1. attempt + 1 \in 0 .. SABM_RETRIES - 1 /\ attempt + 1 < SABM_RETRIES
      BY <1>1, <2>1 DEF Open!attempts_left
    <3>2. Again(dlci, attempt + 1)
      BY <1>2, <3>1 DEF Again
    <3>3. QED
      BY <1>1, <2>1, <3>1, <3>2 DEF Begins, Dlcs
  <2>2. CASE /\ phase' = "SabmTimeout" /\ ctrl' = r
             /\ UNCHANGED <<dlci, attempt, requests>>
    BY <1>2, <2>2 DEF Returns
  <2>3. QED
    BY <1>2, <2>1, <2>2 DEF Open!Retry
<1>3. CASE Open!Start
  BY <1>1, <1>3 DEF Open!Start, Begins, First, Dlcs
<1>4. CASE Open!ReceiveUa
  <2>1. /\ phase = "waiting" /\ ctrl # <<>>
        /\ Head(ctrl) = [kind |-> "Ua", dlci |-> dlci]
    BY <1>4 DEF Open!ReceiveUa, Open!Heard
  <2>2. CASE dlci + 1 \in Open!Dlcs /\ Open!BeginAttempt(dlci + 1, 0)
    <3>1. NextDlc(dlci + 1, 0)
      BY <2>1, <2>2 DEF NextDlc, Open!Dlcs, Dlcs
    <3>2. QED
      BY <1>1, <2>2, <3>1 DEF Begins, Open!Dlcs, Dlcs
  <2>3. CASE /\ dlci + 1 \notin Open!Dlcs /\ phase' = "ok" /\ ctrl' = Tail(ctrl)
             /\ UNCHANGED <<dlci, attempt, requests>>
    BY <1>1, <2>1, <2>3 DEF Returns, Open!Dlcs
  <2>4. QED
    BY <1>4, <2>2, <2>3 DEF Open!ReceiveUa
<1>5. CASE Open!ReceiveDm
  BY <1>5 DEF Open!ReceiveDm, Open!Heard, Returns
<1>6. CASE Open!ReceiveOther
  BY <1>2, <1>6 DEF Open!ReceiveOther
<1>7. CASE Open!Timeout
  BY <1>2, <1>7 DEF Open!Timeout
<1>8. QED
  BY <1>3, <1>4, <1>5, <1>6, <1>7 DEF MainStep, Timeout
-----------------------------------------------------------------------------
(* Answers, order of the DLCs, errors.                                     *)

OrderInv ==
  /\ MainInv /\ AnswersAreTrue /\ SabmsInOrder
  /\ OpenedIsAccepted /\ RejectedIsRefused

LEMMA InitOrder == Init => OrderInv
<1> SUFFICES ASSUME Init PROVE OrderInv
  OBVIOUS
<1>1. /\ phase = "idle" /\ dlci = 0 /\ attempt = 0 /\ requests = <<>>
      /\ sending = <<>> /\ toModem = <<>> /\ toHost = <<>> /\ ctrl = <<>>
      /\ accepted = {} /\ refused = {}
  BY DEF Init, Open!Init, Tx!Init, Rx!Init, Modem!Init
<1>2. Open!opened = {}
  BY <1>1 DEF Open!opened
<1>3. QED
  BY <1>1, <1>2 DEF OrderInv, MainInv, AnswersAreTrue, SabmsInOrder,
     OpenedIsAccepted, RejectedIsRefused

LEMMA MainOrder ==
  ASSUME TypeOK, OrderInv, MainStep \/ Timeout
  PROVE  OrderInv'
<1>1. /\ dlci \in 0 .. 2 /\ requests \in Seq(TxReq) /\ ctrl \in Seq(ControlEvt)
      /\ sending \in Seq(Frame) /\ toModem \in Seq(Frame) /\ accepted \subseteq 0 .. 2
  BY DEF TypeOK, Dlcs
<1>2. UNCHANGED <<sending, toModem, toHost, accepted, refused>>
  BY MainEffect DEF txVars, modemVars
<1>3. ctrl # <<>> =>
        /\ Head(ctrl).kind = "Ua" => Head(ctrl).dlci \in accepted
        /\ Head(ctrl).kind = "Dm" => Head(ctrl).dlci \in refused
  BY <1>1, HeadElement DEF OrderInv, AnswersAreTrue
<1>4. phase = "waiting" => Open!opened = 0 .. dlci - 1
  BY DEF Open!opened
\* Moving on to DLC e >= dlci keeps the order of the SABMs.
<1>5. ASSUME NEW e \in 0 .. 2, dlci <= e, dlci' = e,
             requests' = requests \/ requests' = Append(requests, Open!Sabm(e))
      PROVE  SabmsInOrder'
  <2>0. \A x \in 0 .. 63 : x <= dlci => x <= e
    BY <1>1, <1>5
  <2>1. Open!Sabm(e) \in TxReq /\ Open!Sabm(e).dlci = e
    BY DEF Open!Sabm, TxReq
  <2>2. ASSUME NEW i \in DOMAIN requests', requests'[i].kind = "Sabm"
        PROVE  requests'[i].dlci <= e
    <3>1. \A j \in DOMAIN requests : requests[j].dlci \in 0 .. 63
      BY <1>1, ElementDlci
    <3>2. \A j \in DOMAIN requests : requests[j].kind = "Sabm" => requests[j].dlci <= e
      BY <1>1, <2>0, <3>1 DEF OrderInv, SabmsInOrder
    <3>3. CASE requests' = requests
      BY <2>2, <3>2, <3>3
    <3>4. CASE requests' = Append(requests, Open!Sabm(e))
      BY <1>1, <2>1, <2>2, <3>2, <3>4, AppendElements
    <3>5. QED
      BY <1>5, <3>3, <3>4
  <2>3. \A i \in DOMAIN sending : sending[i].kind = "Sabm" => sending[i].dlci <= e
    <3>1. \A i \in DOMAIN sending : sending[i].dlci \in 0 .. 63
      BY <1>1, ElementDlci
    <3>2. QED
      BY <1>1, <2>0, <3>1 DEF OrderInv, SabmsInOrder
  <2>4. \A i \in DOMAIN toModem : toModem[i].kind = "Sabm" => toModem[i].dlci <= e
    <3>1. \A i \in DOMAIN toModem : toModem[i].dlci \in 0 .. 63
      BY <1>1, ElementDlci
    <3>2. QED
      BY <1>1, <2>0, <3>1 DEF OrderInv, SabmsInOrder
  <2>5. \A d \in accepted : d <= e
    BY <1>1, <1>5 DEF OrderInv, SabmsInOrder
  <2>6. QED
    BY <1>2, <1>5, <2>2, <2>3, <2>4, <2>5 DEF SabmsInOrder
<1>6. ASSUME ctrl' = <<>> \/ ctrl' = ctrl \/ (ctrl # <<>> /\ ctrl' = Tail(ctrl))
      PROVE  AnswersAreTrue'
  <2>1. \A i \in DOMAIN ctrl' : \E j \in DOMAIN ctrl : ctrl'[i] = ctrl[j]
    <3>1. CASE ctrl' = <<>>
      BY <3>1
    <3>2. CASE ctrl # <<>> /\ ctrl' = Tail(ctrl)
      BY <1>1, <3>2, TailElements
    <3>3. QED
      BY <1>6, <3>1, <3>2
  <2>2. QED
    BY <1>2, <2>1 DEF OrderInv, AnswersAreTrue
<1>7. CASE Begins
  <2>1. PICK d \in Dlcs, a \in 0 .. SABM_RETRIES - 1 :
               /\ First(d, a) \/ Again(d, a) \/ NextDlc(d, a)
               /\ Open!BeginAttempt(d, a)
    BY <1>7 DEF Begins
  <2>2. /\ dlci' = d /\ ctrl' = <<>> /\ phase' \in {"waiting", "sending"}
        /\ requests' = requests \/ requests' = Append(requests, Open!Sabm(d))
    BY <2>1 DEF Open!BeginAttempt
  <2>3. d \in 0 .. 2 /\ dlci <= d
    BY <1>1, <2>1 DEF First, Again, NextDlc, OrderInv, MainInv, Dlcs
  <2>4. 0 .. d - 1 \subseteq accepted
    <3>1. CASE First(d, a)
      BY <3>1 DEF First
    <3>2. CASE Again(d, a)
      BY <1>4, <3>2 DEF Again, OrderInv, OpenedIsAccepted
    <3>3. CASE NextDlc(d, a)
      <4>1. dlci \in accepted /\ 0 .. dlci - 1 \subseteq accepted
        BY <1>3, <1>4, <3>3 DEF NextDlc, OrderInv, OpenedIsAccepted
      <4>2. QED
        BY <1>1, <3>3, <4>1 DEF NextDlc
    <3>4. QED
      BY <2>1, <3>1, <3>2, <3>3
  <2>5. Open!opened' = 0 .. d - 1
    BY <2>2 DEF Open!opened
  <2>6. SabmsInOrder' /\ AnswersAreTrue'
    BY <1>5, <1>6, <2>2, <2>3
  <2>7. QED
    BY <1>2, <2>2, <2>4, <2>5, <2>6
    DEF OrderInv, MainInv, OpenedIsAccepted, RejectedIsRefused
<1>8. CASE Open!SendSabm
  <2>1. /\ phase = "sending" /\ phase' = "waiting" /\ UNCHANGED <<dlci, attempt, ctrl>>
        /\ requests' = Append(requests, Open!Sabm(dlci))
    BY <1>8 DEF Open!SendSabm
  <2>2. SabmsInOrder' /\ AnswersAreTrue'
    BY <1>1, <1>5, <1>6, <2>1
  <2>3. Open!opened' = Open!opened
    BY <2>1 DEF Open!opened
  <2>4. QED
    BY <1>2, <2>1, <2>2, <2>3
    DEF OrderInv, MainInv, OpenedIsAccepted, RejectedIsRefused
<1>9. CASE Returns
  <2>1. /\ phase = "waiting" /\ UNCHANGED <<dlci, attempt, requests>>
        /\ ctrl' = <<>> \/ (ctrl # <<>> /\ ctrl' = Tail(ctrl))
    BY <1>9 DEF Returns
  <2>2. SabmsInOrder' /\ AnswersAreTrue'
    BY <1>1, <1>5, <1>6, <2>1
  <2>3. 0 .. dlci - 1 \subseteq accepted
    BY <1>4, <2>1 DEF OrderInv, OpenedIsAccepted
  <2>4. MainInv' /\ OpenedIsAccepted' /\ RejectedIsRefused'
    <3>1. CASE phase' = "SabmTimeout"
      BY <1>2, <2>1, <2>3, <3>1
      DEF MainInv, OpenedIsAccepted, RejectedIsRefused, Open!opened
    <3>2. CASE /\ phase' = "Rejected" /\ ctrl # <<>>
               /\ Head(ctrl) = [kind |-> "Dm", dlci |-> dlci]
      BY <1>2, <1>3, <2>1, <2>3, <3>2
      DEF MainInv, OpenedIsAccepted, RejectedIsRefused, Open!opened
    <3>3. CASE /\ phase' = "ok" /\ ctrl # <<>> /\ dlci = 2
               /\ Head(ctrl) = [kind |-> "Ua", dlci |-> dlci]
      <4>1. 0 .. 2 \subseteq accepted
        BY <1>3, <2>3, <3>3
      <4>2. QED
        BY <1>2, <2>1, <3>3, <4>1
        DEF MainInv, OpenedIsAccepted, RejectedIsRefused, Open!opened, Open!Dlcs
    <3>4. QED
      BY <1>9, <3>1, <3>2, <3>3 DEF Returns
  <2>5. QED
    BY <2>2, <2>4 DEF OrderInv
<1>10. QED
  BY <1>7, <1>8, <1>9, MainEffect
\* The other tasks, the modem and the line do not touch the main task's state.
LEMMA FlowOrder ==
  ASSUME OrderInv, UNCHANGED openVars,
         accepted \subseteq accepted', refused \subseteq refused',
         AnswersAreTrue', SabmsInOrder'
  PROVE  OrderInv'
  BY DEF OrderInv, MainInv, OpenedIsAccepted, RejectedIsRefused, openVars, Open!opened

LEMMA WriterOrder ==
  ASSUME TypeOK, OrderInv, NEW d \in DataDlcs, Writer(d)
  PROVE  OrderInv'
<1>1. /\ UNCHANGED <<openVars, toHost, ctrl, accepted, refused, sending, toModem>>
      /\ \/ requests' = requests
         \/ requests' = Append(requests, Tx!Data(d, Tx!chunk(d)))
  BY DEF Writer, Tx!Write, Tx!SendChunk, modemVars
<1>2. requests \in Seq(TxReq) /\ requests' \in Seq(TxReq)
  BY WriterType DEF TypeOK
<1>3. \A i \in DOMAIN requests' : requests'[i].kind = "Sabm" =>
        i \in DOMAIN requests /\ requests'[i] = requests[i]
  <2>1. CASE requests' = Append(requests, Tx!Data(d, Tx!chunk(d)))
    <3> DEFINE e == Tx!Data(d, Tx!chunk(d))
    <3>1. e \in TxReq
      BY ChunkType
    <3>2. e.kind = "Data"
      BY DEF Tx!Data
    <3>3. requests' = Append(requests, e)
      BY <2>1
    <3> HIDE DEF e
    <3>4. QED
      BY <1>2, <3>1, <3>2, <3>3, AppendElements
  <2>2. QED
    BY <1>1, <2>1
<1>4. AnswersAreTrue' /\ SabmsInOrder'
  BY <1>1, <1>3 DEF OrderInv, AnswersAreTrue, SabmsInOrder, openVars
<1>5. QED
  BY <1>1, <1>4, FlowOrder

LEMMA ReaderOrder ==
  ASSUME OrderInv, NEW d \in DataDlcs, Reader(d)
  PROVE  OrderInv'
<1>1. UNCHANGED <<openVars, requests, sending, toModem, toHost, ctrl, accepted, refused>>
  BY DEF Reader, Rx!ReadPipe, txVars, modemVars
<1>2. AnswersAreTrue' /\ SabmsInOrder'
  BY <1>1 DEF OrderInv, AnswersAreTrue, SabmsInOrder, openVars
<1>3. QED
  BY <1>1, <1>2, FlowOrder

LEMMA TxOrder ==
  ASSUME TypeOK, OrderInv, TxStep \/ TransmitFails
  PROVE  OrderInv'
<1>1. UNCHANGED <<openVars, toHost, ctrl, accepted, refused>>
  BY DEF TxStep, TransmitFails, modemVars
<1>2. requests \in Seq(TxReq) /\ sending \in Seq(Frame) /\ toModem \in Seq(Frame)
  BY DEF TypeOK
<1>3. SabmsInOrder'
  <2>1. CASE Tx!TakeRequest
    <3>1. /\ requests # <<>> /\ requests' = Tail(requests) /\ toModem' = toModem
          /\ sending' = <<Tx!ToFrame(Head(requests))>>
      BY <2>1 DEF Tx!TakeRequest
    <3>2. Head(requests) \in TxReq
      BY <1>2, <3>1, TailType
    <3>3. Head(requests).kind = "Sabm" => Head(requests).dlci <= dlci
      BY <1>2, <3>1, HeadElement DEF OrderInv, SabmsInOrder
    <3>4. Tx!ToFrame(Head(requests)).kind = "Sabm" =>
            Tx!ToFrame(Head(requests)).dlci <= dlci
      BY <3>2, <3>3, ToFrameType
    <3>5. \A i \in DOMAIN sending' : sending'[i] = Tx!ToFrame(Head(requests))
      BY <3>1
    <3>6. \A i \in DOMAIN sending' : sending'[i].kind = "Sabm" => sending'[i].dlci <= dlci
      BY <3>4, <3>5
    <3>7. \A i \in DOMAIN requests' : requests'[i].kind = "Sabm" => requests'[i].dlci <= dlci
      BY <1>2, <3>1, TailElements DEF OrderInv, SabmsInOrder
    <3>8. QED
      BY <1>1, <3>1, <3>6, <3>7 DEF OrderInv, SabmsInOrder, openVars
  <2>2. CASE Tx!Transmit
    <3>1. /\ sending # <<>> /\ sending' = <<>> /\ requests' = requests
          /\ toModem' = Append(toModem, Head(sending))
      BY <2>2 DEF Tx!Transmit
    <3>2. Head(sending) \in Frame
          /\ (Head(sending).kind = "Sabm" => Head(sending).dlci <= dlci)
      BY <1>2, <3>1, HeadElement, TailType DEF OrderInv, SabmsInOrder
    <3>3. \A i \in DOMAIN toModem' : toModem'[i].kind = "Sabm" => toModem'[i].dlci <= dlci
      BY <1>2, <3>1, <3>2, AppendElements DEF OrderInv, SabmsInOrder
    <3>4. QED
      BY <1>1, <3>1, <3>3 DEF OrderInv, SabmsInOrder, openVars
  <2>3. CASE TransmitFails
    BY <1>1, <2>3 DEF TransmitFails, Tx!TransmitFails, OrderInv, SabmsInOrder, openVars
  <2>4. QED
    BY <2>1, <2>2, <2>3 DEF TxStep
<1>4. QED
  BY <1>1, <1>3, FlowOrder DEF OrderInv, AnswersAreTrue
LEMMA RxOrder ==
  ASSUME TypeOK, OrderInv, RxStep
  PROVE  OrderInv'
<1>1. UNCHANGED <<openVars, requests, sending, toModem, accepted, refused>>
  BY DEF RxStep, txVars, modemVars
<1>2. toHost \in Seq(Frame) /\ ctrl \in Seq(ControlEvt)
  BY DEF TypeOK
<1> DEFINE e == [kind |-> Head(toHost).kind, dlci |-> Head(toHost).dlci]
<1>3. /\ toHost' = toHost \/ (toHost # <<>> /\ toHost' = Tail(toHost))
      /\ \/ ctrl' = ctrl
         \/ toHost # <<>> /\ e \in ControlEvt /\ ctrl' = Append(ctrl, e)
  <2>1. CASE Rx!Emit
    <3>1. toHost # <<>> /\ toHost' = Tail(toHost) /\ Head(toHost).kind \in ControlKinds
      BY <2>1 DEF Rx!Emit, Rx!TakeFrame, Rx!ControlKinds, ControlKinds
    <3>2. e \in ControlEvt
      BY <1>2, <3>1, TailType DEF Frame, ControlEvt
    <3>3. ctrl' = ctrl \/ ctrl' = Append(ctrl, e)
      BY <2>1 DEF Rx!Emit, Rx!emit
    <3>4. QED
      BY <3>1, <3>2, <3>3
  <2>2. QED
    BY <2>1 DEF RxStep, Rx!ToPipe, Rx!Ignore, Rx!WritePipe, Rx!TakeFrame
<1>4. \A i \in DOMAIN toHost' : \E j \in DOMAIN toHost : toHost'[i] = toHost[j]
  BY <1>2, <1>3, TailElements
<1>5. toHost # <<>> =>
        /\ e.kind = "Ua" => e.dlci \in accepted
        /\ e.kind = "Dm" => e.dlci \in refused
  BY <1>2, HeadElement DEF OrderInv, AnswersAreTrue
<1> HIDE DEF e
<1>6. \A i \in DOMAIN ctrl' : /\ ctrl'[i].kind = "Ua" => ctrl'[i].dlci \in accepted
                              /\ ctrl'[i].kind = "Dm" => ctrl'[i].dlci \in refused
  <2>1. \A i \in DOMAIN ctrl' : \/ toHost # <<>> /\ ctrl'[i] = e
                                \/ \E j \in DOMAIN ctrl : ctrl'[i] = ctrl[j]
    BY <1>2, <1>3, AppendElements
  <2>2. QED
    BY <1>5, <2>1 DEF OrderInv, AnswersAreTrue
<1>7. \A i \in DOMAIN toHost' : /\ toHost'[i].kind = "Ua" => toHost'[i].dlci \in accepted
                                /\ toHost'[i].kind = "Dm" => toHost'[i].dlci \in refused
  BY <1>4 DEF OrderInv, AnswersAreTrue
<1>8. AnswersAreTrue'
  BY <1>1, <1>6, <1>7 DEF AnswersAreTrue
<1>9. SabmsInOrder'
  BY <1>1 DEF OrderInv, SabmsInOrder, openVars
<1>10. QED
  BY <1>1, <1>8, <1>9, FlowOrder

\* A frame the modem sends is true of what it has accepted and refused.
LEMMA ModemOrder ==
  ASSUME TypeOK, OrderInv, ModemAnswer \/ ModemRefuse \/ ModemSend
  PROVE  OrderInv'
<1>1. UNCHANGED <<openVars, requests, sending, ctrl>>
  BY DEF ModemAnswer, ModemRefuse, ModemSend, txVars
<1>2. toModem \in Seq(Frame) /\ toHost \in Seq(Frame) /\ toHost' \in Seq(Frame)
  BY ModemType DEF TypeOK
<1>3. ASSUME NEW f \in Frame, toHost' = toHost \/ toHost' = Append(toHost, f),
             toModem' = toModem \/ (toModem # <<>> /\ toModem' = Tail(toModem)),
             accepted \subseteq accepted', refused \subseteq refused',
             f.kind = "Ua" => f.dlci \in accepted',
             f.kind = "Dm" => f.dlci \in refused',
             \A d \in accepted' : d <= dlci
      PROVE  OrderInv'
  <2>1. \A i \in DOMAIN toHost' : /\ toHost'[i].kind = "Ua" => toHost'[i].dlci \in accepted'
                                  /\ toHost'[i].kind = "Dm" => toHost'[i].dlci \in refused'
    <3>1. \A i \in DOMAIN toHost' : \/ toHost'[i] = f
                                    \/ \E j \in DOMAIN toHost : toHost'[i] = toHost[j]
      BY <1>2, <1>3, AppendElements
    <3>2. QED
      BY <1>3, <3>1 DEF OrderInv, AnswersAreTrue
  <2>2. \A i \in DOMAIN toModem' : \E j \in DOMAIN toModem : toModem'[i] = toModem[j]
    BY <1>2, <1>3, TailElements
  <2>3. AnswersAreTrue' /\ SabmsInOrder'
    BY <1>1, <1>3, <2>1, <2>2 DEF OrderInv, AnswersAreTrue, SabmsInOrder, openVars
  <2>4. QED
    BY <1>1, <1>3, <2>3, FlowOrder
<1>4. \A d \in accepted : d <= dlci
  BY DEF OrderInv, SabmsInOrder
<1>5. \A d \in Dlcs : Modem!Ua(d) \in Frame /\ Modem!Dm(d) \in Frame
  BY DEF Modem!Ua, Modem!Dm, Frame, FrameKind, Dlcs
<1>6. CASE Modem!Accept
  <2>1. PICK d \in Modem!Dlcs : /\ Modem!Answer(Modem!Ua(d)) /\ accepted' = accepted \cup {d}
                                /\ UNCHANGED refused
    BY <1>6 DEF Modem!Accept
  <2>2. /\ toModem # <<>> /\ toModem' = Tail(toModem) /\ Head(toModem).kind = "Sabm"
        /\ toHost' = Append(toHost, Modem!Ua(d)) /\ Head(toModem).dlci = d
    BY <2>1 DEF Modem!Answer, Modem!Ua
  <2>3. d <= dlci
    BY <1>2, <2>2, HeadElement DEF OrderInv, SabmsInOrder
  <2>4. Modem!Ua(d) \in Frame /\ Modem!Ua(d).kind = "Ua" /\ Modem!Ua(d).dlci = d
    BY <1>5 DEF Modem!Dlcs, Dlcs, Modem!Ua
  <2>5. QED
    BY <1>3, <1>4, <2>1, <2>2, <2>3, <2>4
<1>7. CASE Modem!Refuse
  <2>1. PICK d \in Modem!Dlcs : /\ Modem!Answer(Modem!Dm(d)) /\ refused' = refused \cup {d}
                                /\ UNCHANGED accepted
    BY <1>7 DEF Modem!Refuse
  <2>2. /\ toModem # <<>> /\ toModem' = Tail(toModem)
        /\ toHost' = Append(toHost, Modem!Dm(d))
    BY <2>1 DEF Modem!Answer
  <2>3. Modem!Dm(d) \in Frame /\ Modem!Dm(d).kind = "Dm" /\ Modem!Dm(d).dlci = d
    BY <1>5 DEF Modem!Dlcs, Dlcs, Modem!Dm
  <2>4. QED
    BY <1>3, <1>4, <2>1, <2>2, <2>3
<1>8. CASE Modem!TakeData
  <2>1. /\ toModem # <<>> /\ toModem' = Tail(toModem)
        /\ UNCHANGED <<toHost, accepted, refused>>
    BY <1>8 DEF Modem!TakeData
  <2>2. \E f \in Frame : f.kind = "Uih"
    <3>1. Modem!Uih(0, <<>>) \in Frame
      BY DEF Modem!Uih, Frame, FrameKind
    <3>2. QED
      BY <3>1 DEF Modem!Uih
  <2>3. QED
    BY <1>3, <1>4, <2>1, <2>2
<1>9. ASSUME NEW d \in DataDlcs, NEW n \in 1 .. MaxRxBytes - sent[1] - sent[2], Modem!SendData(d, n)
      PROVE  OrderInv'
  <2> DEFINE f == Modem!Uih(d, Modem!BytesAfter(sent[d], n))
  <2>1. /\ toHost' = Append(toHost, f) /\ UNCHANGED <<toModem, accepted, refused>>
    BY <1>9 DEF Modem!SendData
  <2>2. f.kind = "Uih" /\ f \in Frame
    <3>1. sent[d] \in Nat /\ n \in Nat
      BY RuntimeAssumption DEF TypeOK
    <3>2. Modem!BytesAfter(sent[d], n) \in Seq(Nat)
      BY <3>1, BytesAfterType DEF Modem!BytesAfter
    <3>3. QED
      BY <3>2 DEF Modem!Uih, Frame, FrameKind, DataDlcs
  <2> HIDE DEF f
  <2>3. QED
    BY <1>3, <1>4, <2>1, <2>2
<1>10. ASSUME NEW f \in Modem!Strays, Modem!SendStray(f)
       PROVE  OrderInv'
  <2>1. /\ toHost' = Append(toHost, f) /\ UNCHANGED <<toModem, accepted>>
        /\ refused \subseteq refused' /\ (f.kind = "Dm" => f.dlci \in refused')
    BY <1>10 DEF Modem!SendStray
  <2>2. f \in Frame /\ f.kind # "Ua"
    BY StrayType
  <2>3. QED
    BY <1>3, <1>4, <2>1, <2>2
<1>11. QED
  BY <1>6, <1>7, <1>8, <1>9, <1>10 DEF ModemAnswer, ModemRefuse, ModemSend

LEMMA LoseOrder ==
  ASSUME TypeOK, OrderInv, LoseToModem \/ LoseToHost
  PROVE  OrderInv'
<1>1. UNCHANGED <<openVars, requests, sending, ctrl, accepted, refused>>
  BY DEF LoseToModem, LoseToHost, txVars, modemVars
<1>2. toModem \in Seq(Frame) /\ toHost \in Seq(Frame)
  BY DEF TypeOK
<1>3. /\ toModem' = toModem \/ (toModem # <<>> /\ toModem' = Tail(toModem))
      /\ toHost' = toHost \/ (toHost # <<>> /\ toHost' = Tail(toHost))
  BY DEF LoseToModem, LoseToHost
<1>4. \A i \in DOMAIN toHost' : \E j \in DOMAIN toHost : toHost'[i] = toHost[j]
  BY <1>2, <1>3, TailElements
<1>5. \A i \in DOMAIN toModem' : \E j \in DOMAIN toModem : toModem'[i] = toModem[j]
  BY <1>2, <1>3, TailElements
<1>6. AnswersAreTrue' /\ SabmsInOrder'
  BY <1>1, <1>4, <1>5 DEF OrderInv, AnswersAreTrue, SabmsInOrder, openVars
<1>7. QED
  BY <1>1, <1>6, FlowOrder

LEMMA NextOrder ==
  ASSUME TypeOK, OrderInv, Next
  PROVE  OrderInv'
  BY MainOrder, WriterOrder, ReaderOrder, TxOrder, RxOrder, ModemOrder, LoseOrder DEF Next
-----------------------------------------------------------------------------
(* What is behind an element of a queue.                                   *)

LEMMA FromParts ==
  ASSUME NEW T, NEW s \in Seq(T), NEW K
  PROVE  /\ \A i \in 1 .. Len(s) + 1 : CountFrom(s, i, K) \in Nat
         /\ CountFrom(s, 1, K) = CountIn(s, K)
         /\ CountFrom(s, Len(s) + 1, K) = 0
<1>1. ASSUME NEW i \in 1 .. Len(s) + 1 PROVE CountFrom(s, i, K) \in Nat
  <2>1. SubSeq(s, i, Len(s)) \in Seq(T)
    BY SubSeqType
  <2>2. QED
    BY <2>1, CountInType DEF CountFrom
<1>2. SubSeq(s, 1, Len(s)) = s /\ SubSeq(s, Len(s) + 1, Len(s)) = <<>>
  OBVIOUS
<1>3. QED
  BY <1>1, <1>2, CountInEmpty DEF CountFrom

LEMMA FromTail ==
  ASSUME NEW T, NEW s \in Seq(T), s # <<>>, NEW i \in DOMAIN Tail(s), NEW K
  PROVE  CountFrom(Tail(s), i, K) = CountFrom(s, i + 1, K)
<1>1. SubSeq(Tail(s), i, Len(Tail(s))) = SubSeq(s, i + 1, Len(s))
  OBVIOUS
<1>2. QED
  BY <1>1 DEF CountFrom

LEMMA FromAppend ==
  ASSUME NEW T, NEW s \in Seq(T), NEW e \in T, NEW i \in 1 .. Len(s) + 1, NEW K
  PROVE  CountFrom(Append(s, e), i, K)
           = CountFrom(s, i, K) + (IF e.kind \in K THEN 1 ELSE 0)
<1> DEFINE q == SubSeq(s, i, Len(s))
<1>1. SubSeq(Append(s, e), i, Len(Append(s, e))) = Append(q, e)
  OBVIOUS
<1>2. q \in Seq(T)
  BY SubSeqType
<1> HIDE DEF q
<1>3. CountIn(Append(q, e), K) = CountIn(q, K) + (IF e.kind \in K THEN 1 ELSE 0)
  BY <1>2, CountInAppend
<1>4. QED
  BY <1>1, <1>3 DEF CountFrom, q

\* What is behind a queue may grow by as much as the bound, or a removal from
\* the queue itself makes room.
LEMMA TurnLater ==
  ASSUME NEW T, NEW s \in Seq(T), NEW k, NEW d, NEW K, NEW n \in Int, NEW b \in Int,
         InTurn(s, k, d, K, n, b), NEW n1 \in Int, NEW b1 \in Int, n1 + b <= n + b1
  PROVE  InTurn(s, k, d, K, n1, b1)
<1> SUFFICES ASSUME NEW i \in DOMAIN s, s[i].kind = k, s[i].dlci = d
             PROVE  CountFrom(s, i, K) + n1 <= b1
  BY DEF InTurn
<1>1. CountFrom(s, i, K) + n <= b
  BY DEF InTurn
<1>2. CountFrom(s, i, K) \in Nat
  <2>1. i \in 1 .. Len(s) + 1
    OBVIOUS
  <2>2. QED
    BY <2>1, FromParts
<1>3. QED
  BY <1>1, <1>2

LEMMA TurnTail ==
  ASSUME NEW T, NEW s \in Seq(T), s # <<>>, NEW k, NEW d, NEW K,
         NEW n \in Int, NEW b \in Int, InTurn(s, k, d, K, n, b)
  PROVE  InTurn(Tail(s), k, d, K, n, b)
<1> SUFFICES ASSUME NEW i \in DOMAIN Tail(s), Tail(s)[i].kind = k, Tail(s)[i].dlci = d
             PROVE  CountFrom(Tail(s), i, K) + n <= b
  BY DEF InTurn
<1>1. i + 1 \in DOMAIN s /\ Tail(s)[i] = s[i + 1]
  BY TailElements
<1>2. CountFrom(s, i + 1, K) + n <= b
  BY <1>1 DEF InTurn
<1>3. QED
  BY <1>2, FromTail

LEMMA TurnAppend ==
  ASSUME NEW T, NEW s \in Seq(T), NEW e \in T, NEW k, NEW d, NEW K,
         NEW n \in Int, NEW b \in Int, InTurn(s, k, d, K, n, b),
         NEW n1 \in Int, NEW b1 \in Int, NEW x \in {0, 1},
         x = IF e.kind \in K THEN 1 ELSE 0,
         n1 + x + b <= n + b1,
         e.kind = k /\ e.dlci = d => x + n1 <= b1
  PROVE  InTurn(Append(s, e), k, d, K, n1, b1)
<1> SUFFICES ASSUME NEW i \in DOMAIN Append(s, e),
                    Append(s, e)[i].kind = k, Append(s, e)[i].dlci = d
             PROVE  CountFrom(Append(s, e), i, K) + n1 <= b1
  BY DEF InTurn
<1>1. i \in 1 .. Len(s) + 1
  OBVIOUS
<1>2. CountFrom(Append(s, e), i, K) = CountFrom(s, i, K) + x /\ CountFrom(s, i, K) \in Nat
  BY <1>1, FromAppend, FromParts
<1>3. CASE i = Len(s) + 1
  <2>1. Append(s, e)[i] = e
    BY <1>3
  <2>2. CountFrom(s, Len(s) + 1, K) = 0
    BY FromParts
  <2>3. QED
    BY <1>2, <1>3, <2>1, <2>2
<1>4. CASE i \in DOMAIN s
  <2>1. s[i].kind = k /\ s[i].dlci = d
    BY <1>4
  <2>2. CountFrom(s, i, K) + n <= b
    BY <1>4, <2>1 DEF InTurn
  <2>3. QED
    BY <1>2, <2>2
<1>5. QED
  BY <1>1, <1>3, <1>4

LEMMA TurnEmpty ==
  ASSUME NEW k, NEW d, NEW K, NEW n, NEW b
  PROVE  InTurn(<<>>, k, d, K, n, b)
  BY DEF InTurn

LEMMA TurnHead ==
  ASSUME NEW T, NEW s \in Seq(T), s # <<>>, NEW k, NEW d, NEW K, NEW n, NEW b,
         InTurn(s, k, d, K, n, b), Head(s).kind = k, Head(s).dlci = d
  PROVE  CountIn(s, K) + n <= b
<1>1. 1 \in DOMAIN s /\ Head(s) = s[1] /\ CountFrom(s, 1, K) = CountIn(s, K)
  BY HeadElement, FromParts
<1>2. QED
  BY <1>1 DEF InTurn

\* AnswersInTurn, of any five queues.
Sabms(q) == CountIn(q, {"Sabm"})
Events(q) == CountIn(q, ControlKinds)
Turn(r, s, m, h, c, d, b) ==
  /\ InTurn(r, "Sabm", d, {"Sabm"}, 0, b)
  /\ InTurn(s, "Sabm", d, {"Sabm"}, Sabms(r), b)
  /\ InTurn(m, "Sabm", d, {"Sabm"}, Sabms(r) + Sabms(s), b)
  /\ InTurn(h, "Ua", d, ControlKinds, Sabms(r) + Sabms(s) + Sabms(m), b)
  /\ InTurn(c, "Ua", d, ControlKinds, Sabms(r) + Sabms(s) + Sabms(m) + Events(h), b)

LEMMA CountsAre ==
  ASSUME NEW r \in Seq(TxReq), NEW s \in Seq(Frame), NEW m \in Seq(Frame),
         NEW h \in Seq(Frame)
  PROVE  Sabms(r) \in Nat /\ Sabms(s) \in Nat /\ Sabms(m) \in Nat /\ Events(h) \in Nat
  BY CountInType, SMTT(30), ZenonT(30) DEF Sabms, Events

\* A queue that does not change need not be looked at again if those behind it
\* grow by no more than the bound does.
Moved(r, s, m, h, c, d, b, r1, s1, m1, h1, c1, b1) ==
  LET x == Sabms(r)  x1 == Sabms(r1)
      y == x + Sabms(s)  y1 == x1 + Sabms(s1)
      z == y + Sabms(m)  z1 == y1 + Sabms(m1)
      w == z + Events(h)  w1 == z1 + Events(h1)
  IN  /\ (r1 = r /\ b <= b1) \/ InTurn(r1, "Sabm", d, {"Sabm"}, 0, b1)
      /\ (s1 = s /\ x1 + b <= x + b1) \/ InTurn(s1, "Sabm", d, {"Sabm"}, x1, b1)
      /\ (m1 = m /\ y1 + b <= y + b1) \/ InTurn(m1, "Sabm", d, {"Sabm"}, y1, b1)
      /\ (h1 = h /\ z1 + b <= z + b1) \/ InTurn(h1, "Ua", d, ControlKinds, z1, b1)
      /\ (c1 = c /\ w1 + b <= w + b1) \/ InTurn(c1, "Ua", d, ControlKinds, w1, b1)

LEMMA TurnParts ==
  ASSUME NEW r \in Seq(TxReq), NEW s \in Seq(Frame), NEW m \in Seq(Frame),
         NEW h \in Seq(Frame), NEW c \in Seq(ControlEvt), NEW d, NEW b \in Int,
         Turn(r, s, m, h, c, d, b),
         NEW r1 \in Seq(TxReq), NEW s1 \in Seq(Frame), NEW m1 \in Seq(Frame),
         NEW h1 \in Seq(Frame), NEW c1 \in Seq(ControlEvt), NEW b1 \in Int,
         Moved(r, s, m, h, c, d, b, r1, s1, m1, h1, c1, b1)
  PROVE  Turn(r1, s1, m1, h1, c1, d, b1)
<1> DEFINE x == Sabms(r)  x1 == Sabms(r1)
           y == x + Sabms(s)  y1 == x1 + Sabms(s1)
           z == y + Sabms(m)  z1 == y1 + Sabms(m1)
           w == z + Events(h)  w1 == z1 + Events(h1)
<1>1. /\ x \in Int /\ y \in Int /\ z \in Int /\ w \in Int
      /\ x1 \in Int /\ y1 \in Int /\ z1 \in Int /\ w1 \in Int
  <2> DEFINE i == Sabms(r)  j == Sabms(s)  k == Sabms(m)  l == Events(h)
             i1 == Sabms(r1)  j1 == Sabms(s1)  k1 == Sabms(m1)  l1 == Events(h1)
  <2>1. i \in Nat /\ j \in Nat /\ k \in Nat /\ l \in Nat
    BY CountsAre
  <2>2. i1 \in Nat /\ j1 \in Nat /\ k1 \in Nat /\ l1 \in Nat
    BY CountsAre
  <2> HIDE DEF i, j, k, l, i1, j1, k1, l1
  <2>3. /\ i + j \in Int /\ i + j + k \in Int /\ i + j + k + l \in Int
        /\ i1 + j1 \in Int /\ i1 + j1 + k1 \in Int /\ i1 + j1 + k1 + l1 \in Int
    BY <2>1, <2>2
  <2>4. QED
    BY <2>1, <2>2, <2>3 DEF i, j, k, l, i1, j1, k1, l1
<1>2. /\ InTurn(r, "Sabm", d, {"Sabm"}, 0, b) /\ InTurn(s, "Sabm", d, {"Sabm"}, x, b)
      /\ InTurn(m, "Sabm", d, {"Sabm"}, y, b) /\ InTurn(h, "Ua", d, ControlKinds, z, b)
      /\ InTurn(c, "Ua", d, ControlKinds, w, b)
  BY DEF Turn
<1>3. /\ (r1 = r /\ b <= b1) \/ InTurn(r1, "Sabm", d, {"Sabm"}, 0, b1)
      /\ (s1 = s /\ x1 + b <= x + b1) \/ InTurn(s1, "Sabm", d, {"Sabm"}, x1, b1)
      /\ (m1 = m /\ y1 + b <= y + b1) \/ InTurn(m1, "Sabm", d, {"Sabm"}, y1, b1)
      /\ (h1 = h /\ z1 + b <= z + b1) \/ InTurn(h1, "Ua", d, ControlKinds, z1, b1)
      /\ (c1 = c /\ w1 + b <= w + b1) \/ InTurn(c1, "Ua", d, ControlKinds, w1, b1)
  BY DEF Moved
<1>4. SUFFICES /\ InTurn(r1, "Sabm", d, {"Sabm"}, 0, b1)
               /\ InTurn(s1, "Sabm", d, {"Sabm"}, x1, b1)
               /\ InTurn(m1, "Sabm", d, {"Sabm"}, y1, b1)
               /\ InTurn(h1, "Ua", d, ControlKinds, z1, b1)
               /\ InTurn(c1, "Ua", d, ControlKinds, w1, b1)
  BY DEF Turn
<1> HIDE DEF x, y, z, w, x1, y1, z1, w1
<1>5. InTurn(r1, "Sabm", d, {"Sabm"}, 0, b1)
  <2>1. r1 = r /\ b <= b1 => InTurn(r, "Sabm", d, {"Sabm"}, 0, b1)
    BY <1>2, TurnLater
  <2>2. QED
    BY <1>3, <2>1
<1>6. InTurn(s1, "Sabm", d, {"Sabm"}, x1, b1)
  <2>1. s1 = s /\ x1 + b <= x + b1 => InTurn(s, "Sabm", d, {"Sabm"}, x1, b1)
    BY <1>1, <1>2, TurnLater
  <2>2. QED
    BY <1>3, <2>1
<1>7. InTurn(m1, "Sabm", d, {"Sabm"}, y1, b1)
  <2>1. m1 = m /\ y1 + b <= y + b1 => InTurn(m, "Sabm", d, {"Sabm"}, y1, b1)
    BY <1>1, <1>2, TurnLater
  <2>2. QED
    BY <1>3, <2>1
<1>8. InTurn(h1, "Ua", d, ControlKinds, z1, b1)
  <2>1. h1 = h /\ z1 + b <= z + b1 => InTurn(h, "Ua", d, ControlKinds, z1, b1)
    BY <1>1, <1>2, TurnLater
  <2>2. QED
    BY <1>3, <2>1
<1>9. InTurn(c1, "Ua", d, ControlKinds, w1, b1)
  <2>1. c1 = c /\ w1 + b <= w + b1 => InTurn(c, "Ua", d, ControlKinds, w1, b1)
    BY <1>1, <1>2, TurnLater
  <2>2. QED
    BY <1>3, <2>1
<1>10. QED
  BY <1>5, <1>6, <1>7, <1>8, <1>9

\* A request is queued; a SABM raises the bound.
LEMMA TurnQueue ==
  ASSUME NEW r \in Seq(TxReq), NEW s \in Seq(Frame), NEW m \in Seq(Frame),
         NEW h \in Seq(Frame), NEW c \in Seq(ControlEvt), NEW d, NEW b \in Nat,
         Turn(r, s, m, h, c, d, b), NEW e \in TxReq, NEW x \in {0, 1},
         x = IF e.kind \in {"Sabm"} THEN 1 ELSE 0
  PROVE  Turn(Append(r, e), s, m, h, c, d, b + x)
<1>1. Sabms(Append(r, e)) = Sabms(r) + x
  BY CountInAppend DEF Sabms
<1>2. Sabms(r) \in Nat /\ Sabms(s) \in Nat /\ Sabms(m) \in Nat /\ Events(h) \in Nat
  BY CountsAre
<1>3. Append(r, e) \in Seq(TxReq) /\ b + x \in Int
  BY AppendType
<1>4. InTurn(Append(r, e), "Sabm", d, {"Sabm"}, 0, b + x)
  <2>1. InTurn(r, "Sabm", d, {"Sabm"}, 0, b)
    BY DEF Turn
  <2>2. 0 + x + b <= 0 + (b + x) /\ (e.kind = "Sabm" /\ e.dlci = d => x + 0 <= b + x)
    OBVIOUS
  <2>3. QED
    BY <1>3, <2>1, <2>2, TurnAppend
<1>5. Moved(r, s, m, h, c, d, b, Append(r, e), s, m, h, c, b + x)
  <2> DEFINE i == Sabms(r)  j == Sabms(s)  n == Sabms(m)  l == Events(h)
             q == Sabms(Append(r, e))
  <2>1. i \in Nat /\ j \in Nat /\ n \in Nat /\ l \in Nat /\ q = i + x
    BY <1>1, <1>2
  <2> HIDE DEF i, j, n, l, q
  <2>2. /\ q + b <= i + (b + x) /\ q + j + b <= i + j + (b + x)
        /\ q + j + n + b <= i + j + n + (b + x)
        /\ q + j + n + l + b <= i + j + n + l + (b + x)
    BY <2>1
  <2>3. QED
    BY <1>4, <2>2, SMTT(30) DEF Moved, i, j, n, l, q
<1>6. b \in Int
  OBVIOUS
<1>7. QED
  BY <1>3, <1>5, <1>6, TurnParts, ZenonT(30)

\* tx_task takes a request.
LEMMA TurnTake ==
  ASSUME NEW r \in Seq(TxReq), NEW m \in Seq(Frame),
         NEW h \in Seq(Frame), NEW c \in Seq(ControlEvt), NEW d, NEW b \in Int,
         Turn(r, <<>>, m, h, c, d, b), r # <<>>, NEW f \in Frame,
         f.kind = "Sabm" <=> Head(r).kind = "Sabm",
         f.kind = "Sabm" => f.dlci = Head(r).dlci
  PROVE  Turn(Tail(r), <<f>>, m, h, c, d, b)
<1> DEFINE x == IF f.kind \in {"Sabm"} THEN 1 ELSE 0
<1>1. <<>> \in Seq(Frame) /\ <<f>> = Append(<<>>, f) /\ <<f>> \in Seq(Frame) /\ x \in {0, 1}
  OBVIOUS
<1>2. Tail(r) \in Seq(TxReq)
  BY TailType
<1>3. /\ Sabms(Tail(r)) \in Nat /\ Sabms(m) \in Nat /\ Events(h) \in Nat
  BY <1>1, <1>2, CountsAre
<1>4. Sabms(r) = Sabms(Tail(r)) + x
  BY CountInTail DEF Sabms
<1>5. Sabms(<<>>) = 0
  BY CountInEmpty DEF Sabms
<1>6. Sabms(<<f>>) = x
  <2>1. Sabms(Append(<<>>, f)) = Sabms(<<>>) + x
    BY <1>1, CountInAppend DEF Sabms
  <2>2. QED
    BY <1>1, <1>5, <2>1
<1>7. InTurn(Tail(r), "Sabm", d, {"Sabm"}, 0, b)
  BY TurnTail DEF Turn
<1>8. f.kind = "Sabm" /\ f.dlci = d => x + Sabms(Tail(r)) <= b
  <2> SUFFICES ASSUME f.kind = "Sabm", f.dlci = d PROVE Sabms(r) <= b
    BY <1>3, <1>4
  <2>1. Sabms(r) + 0 <= b
    BY TurnHead DEF Turn, Sabms
  <2>2. Sabms(r) \in Nat
    BY <1>3, <1>4
  <2>3. QED
    BY <2>1, <2>2
<1>9. InTurn(<<f>>, "Sabm", d, {"Sabm"}, Sabms(Tail(r)), b)
  <2>1. InTurn(<<>>, "Sabm", d, {"Sabm"}, Sabms(r), b)
    BY TurnEmpty
  <2>2. Sabms(Tail(r)) + x + b <= Sabms(r) + b /\ Sabms(r) \in Int
    BY <1>3, <1>4
  <2>3. x \in {0, 1} /\ (x = IF f.kind \in {"Sabm"} THEN 1 ELSE 0)
    OBVIOUS
  <2> HIDE DEF x
  <2>4. InTurn(Append(<<>>, f), "Sabm", d, {"Sabm"}, Sabms(Tail(r)), b)
    <3> DEFINE n == Sabms(r)
               n1 == Sabms(Tail(r))
    <3>1. /\ <<>> \in Seq(Frame) /\ n \in Int /\ n1 \in Int /\ x \in {0, 1}
          /\ InTurn(<<>>, "Sabm", d, {"Sabm"}, n, b)
          /\ n1 + x + b <= n + b /\ (f.kind = "Sabm" /\ f.dlci = d => x + n1 <= b)
      BY <1>1, <1>3, <1>8, <2>1, <2>2
    <3> HIDE DEF n, n1
    <3>2. InTurn(Append(<<>>, f), "Sabm", d, {"Sabm"}, n1, b)
      BY <2>3, <3>1, TurnAppend
    <3>3. QED
      BY <3>2 DEF n1
  <2>5. QED
    BY <1>1, <2>4
<1> HIDE DEF x
<1>10. Moved(r, <<>>, m, h, c, d, b, Tail(r), <<f>>, m, h, c, b)
  BY <1>1, <1>3, <1>4, <1>5, <1>6, <1>7, <1>9, SMTT(30) DEF Moved
<1>11. QED
  BY <1>1, <1>2, <1>10, TurnParts

\* Its frame is on the line.
LEMMA TurnTransmit ==
  ASSUME NEW r \in Seq(TxReq), NEW s \in Seq(Frame), NEW m \in Seq(Frame),
         NEW h \in Seq(Frame), NEW c \in Seq(ControlEvt), NEW d, NEW b \in Int,
         Turn(r, s, m, h, c, d, b), s # <<>>
  PROVE  Turn(r, <<>>, Append(m, Head(s)), h, c, d, b)
<1> DEFINE f == Head(s)
           x == IF f.kind \in {"Sabm"} THEN 1 ELSE 0
<1>1. f \in Frame /\ Tail(s) \in Seq(Frame) /\ <<>> \in Seq(Frame) /\ x \in {0, 1}
  BY TailType
<1>2. Append(m, f) \in Seq(Frame)
  BY <1>1, AppendType
<1>3. /\ Sabms(r) \in Nat /\ Sabms(Tail(s)) \in Nat /\ Sabms(m) \in Nat /\ Events(h) \in Nat
  BY <1>1, CountsAre
<1>4. Sabms(s) = Sabms(Tail(s)) + x
  BY CountInTail DEF Sabms
<1>5. Sabms(<<>>) = 0 /\ Sabms(Append(m, f)) = Sabms(m) + x
  BY <1>1, CountInEmpty, CountInAppend DEF Sabms
<1>6. f.kind = "Sabm" /\ f.dlci = d => x + Sabms(r) <= b
  <2> SUFFICES ASSUME f.kind = "Sabm", f.dlci = d PROVE x + Sabms(r) <= b
    OBVIOUS
  <2> DEFINE i == Sabms(r)  j == Sabms(s)  k == Sabms(Tail(s))
  <2>1. j + i <= b
    BY TurnHead DEF Turn, Sabms
  <2>2. i \in Nat /\ k \in Nat /\ j = k + x
    BY <1>3, <1>4
  <2> HIDE DEF i, j, k, x
  <2>3. x + i <= b
    BY <1>1, <2>1, <2>2
  <2>4. QED
    BY <2>3 DEF i
<1>7. InTurn(Append(m, f), "Sabm", d, {"Sabm"}, Sabms(r), b)
  <2>1. InTurn(m, "Sabm", d, {"Sabm"}, Sabms(r) + Sabms(s), b)
    BY DEF Turn
  <2>2. /\ Sabms(r) + x + b <= (Sabms(r) + Sabms(s)) + b
        /\ Sabms(r) + Sabms(s) \in Int /\ Sabms(r) \in Int
    <3> DEFINE i == Sabms(r)  j == Sabms(s)  k == Sabms(Tail(s))
    <3>1. i \in Nat /\ k \in Nat /\ j = k + x
      BY <1>3, <1>4
    <3> HIDE DEF i, j, k, x
    <3>2. i + x + b <= (i + j) + b /\ i + j \in Int /\ i \in Int
      BY <1>1, <3>1
    <3>3. QED
      BY <3>2 DEF i, j
  <2>3. x = IF f.kind \in {"Sabm"} THEN 1 ELSE 0
    OBVIOUS
  <2> HIDE DEF x, f
  <2>4. QED
    BY <1>1, <1>6, <2>1, <2>2, <2>3, TurnAppend
<1>8. InTurn(<<>>, "Sabm", d, {"Sabm"}, Sabms(r), b)
  BY TurnEmpty
<1> HIDE DEF x, f
<1>9. Turn(r, <<>>, Append(m, f), h, c, d, b)
  <2> DEFINE i == Sabms(r)  j == Sabms(s)  n == Sabms(m)  l == Events(h)
             z == Sabms(<<>>)  q == Sabms(Append(m, f))  k == Sabms(Tail(s))
  <2>1. /\ i \in Nat /\ k \in Nat /\ n \in Nat /\ l \in Nat
        /\ z = 0 /\ q = n + x /\ j = k + x
    BY <1>3, <1>4, <1>5
  <2>2. InTurn(<<>>, "Sabm", d, {"Sabm"}, i, b) /\ InTurn(Append(m, f), "Sabm", d, {"Sabm"}, i, b)
    BY <1>7, <1>8
  <2> HIDE DEF i, j, n, l, z, q, k
  <2>3. /\ i + z = i
        /\ i + z + q + b <= i + j + n + b /\ i + z + q + l + b <= i + j + n + l + b
    BY <1>1, <2>1
  <2>4. InTurn(Append(m, f), "Sabm", d, {"Sabm"}, i + z, b)
    BY <2>2, <2>3
  <2>5. b <= b
    OBVIOUS
  <2>6. Moved(r, s, m, h, c, d, b, r, <<>>, Append(m, f), h, c, b)
    BY <2>2, <2>3, <2>4, <2>5, SMTT(30) DEF Moved, i, j, n, l, z, q
  <2>7. QED
    BY <1>1, <1>2, <2>6, TurnParts
<1>10. QED
  BY <1>9 DEF f

\* A UART error eats it.
LEMMA TurnUnsent ==
  ASSUME NEW r \in Seq(TxReq), NEW s \in Seq(Frame), NEW m \in Seq(Frame),
         NEW h \in Seq(Frame), NEW c \in Seq(ControlEvt), NEW d, NEW b \in Int,
         Turn(r, s, m, h, c, d, b)
  PROVE  Turn(r, <<>>, m, h, c, d, b)
<1> DEFINE i == Sabms(r)  j == Sabms(s)  k == Sabms(m)  l == Events(h)  z == Sabms(<<>>)
<1>1. i \in Nat /\ j \in Nat /\ k \in Nat /\ l \in Nat
  BY CountsAre
<1>2. z = 0 /\ <<>> \in Seq(Frame)
  BY CountInEmpty DEF Sabms
<1>3. InTurn(<<>>, "Sabm", d, {"Sabm"}, i, b)
  BY TurnEmpty
<1> HIDE DEF i, j, k, l, z
<1>4. /\ i + b <= i + b /\ i + z + b <= i + j + b
      /\ i + z + k + b <= i + j + k + b /\ i + z + k + l + b <= i + j + k + l + b
  BY <1>1, <1>2
<1>5. Moved(r, s, m, h, c, d, b, r, <<>>, m, h, c, b)
  BY <1>3, <1>4, SMTT(30) DEF Moved, i, j, k, l, z
<1>6. QED
  BY <1>2, <1>5, TurnParts

\* A frame to the modem is lost or taken as data.
LEMMA TurnUntaken ==
  ASSUME NEW r \in Seq(TxReq), NEW s \in Seq(Frame), NEW m \in Seq(Frame),
         NEW h \in Seq(Frame), NEW c \in Seq(ControlEvt), NEW d, NEW b \in Int,
         Turn(r, s, m, h, c, d, b), m # <<>>
  PROVE  Turn(r, s, Tail(m), h, c, d, b)
<1> DEFINE i == Sabms(r)  j == Sabms(s)  k == Sabms(m)  l == Events(h)  z == Sabms(Tail(m))
<1>1. i \in Nat /\ j \in Nat /\ k \in Nat /\ l \in Nat
  BY CountsAre
<1>2. Tail(m) \in Seq(Frame) /\ z \in Nat /\ z <= k
  BY TailType, TailCount DEF Sabms
<1>3. InTurn(Tail(m), "Sabm", d, {"Sabm"}, i + j, b)
  <2>1. InTurn(m, "Sabm", d, {"Sabm"}, i + j, b) /\ i + j \in Int
    BY <1>1 DEF Turn
  <2> HIDE DEF i, j
  <2>2. QED
    BY <2>1, TurnTail
<1> HIDE DEF i, j, k, l, z
<1>4. i + j + z + b <= i + j + k + b /\ i + j + z + l + b <= i + j + k + l + b
  BY <1>1, <1>2
<1>5. Moved(r, s, m, h, c, d, b, r, s, Tail(m), h, c, b)
  BY <1>1, <1>3, <1>4, SMTT(30) DEF Moved, i, j, k, l, z
<1>6. QED
  BY <1>2, <1>5, TurnParts

\* The modem answers a SABM.
LEMMA TurnAnswer ==
  ASSUME NEW r \in Seq(TxReq), NEW s \in Seq(Frame), NEW m \in Seq(Frame),
         NEW h \in Seq(Frame), NEW c \in Seq(ControlEvt), NEW d, NEW b \in Int,
         Turn(r, s, m, h, c, d, b), m # <<>>, Head(m).kind = "Sabm",
         NEW f \in Frame, f.kind \in ControlKinds, f.dlci = Head(m).dlci
  PROVE  Turn(r, s, Tail(m), Append(h, f), c, d, b)
<1> DEFINE i == Sabms(r)  j == Sabms(s)  k == Sabms(m)  l == Events(h)
           z == Sabms(Tail(m))  y == Events(Append(h, f))
<1>1. i \in Nat /\ j \in Nat /\ k \in Nat /\ l \in Nat
  BY CountsAre
<1>2. /\ Tail(m) \in Seq(Frame) /\ Append(h, f) \in Seq(Frame)
      /\ z \in Nat /\ k = z + 1
  BY TailType, AppendType, TailCount DEF Sabms
<1>3. y = l + 1
  BY CountInAppend DEF Events
<1>4. InTurn(Tail(m), "Sabm", d, {"Sabm"}, i + j, b)
  <2>1. InTurn(m, "Sabm", d, {"Sabm"}, i + j, b) /\ i + j \in Int
    BY <1>1 DEF Turn
  <2> HIDE DEF i, j
  <2>2. QED
    BY <2>1, TurnTail
<1>5. f.dlci = d => k + (i + j) <= b
  <2> SUFFICES ASSUME f.dlci = d PROVE k + (i + j) <= b
    OBVIOUS
  <2>1. InTurn(m, "Sabm", d, {"Sabm"}, i + j, b)
    BY DEF Turn
  <2> HIDE DEF i, j
  <2>2. QED
    BY <2>1, TurnHead DEF Sabms
<1>6. InTurn(h, "Ua", d, ControlKinds, i + j + k, b)
  BY DEF Turn
<1> HIDE DEF i, j, k, l, z, y
<1>7. InTurn(Append(h, f), "Ua", d, ControlKinds, i + j + z, b)
  <2> DEFINE n == i + j + k
             n1 == i + j + z
  <2>1. /\ n \in Int /\ n1 \in Int /\ n1 + 1 + b <= n + b
        /\ (f.kind = "Ua" /\ f.dlci = d => 1 + n1 <= b)
    BY <1>1, <1>2, <1>5
  <2>2. 1 = (IF f.kind \in ControlKinds THEN 1 ELSE 0) /\ 1 \in {0, 1}
    OBVIOUS
  <2>3. InTurn(h, "Ua", d, ControlKinds, n, b)
    BY <1>6
  <2> HIDE DEF n, n1
  <2>4. InTurn(Append(h, f), "Ua", d, ControlKinds, n1, b)
    BY <2>1, <2>2, <2>3, TurnAppend
  <2>5. QED
    BY <2>4 DEF n1
<1>8. i + j + z + y + b <= i + j + k + l + b
  BY <1>1, <1>2, <1>3
<1>9. Moved(r, s, m, h, c, d, b, r, s, Tail(m), Append(h, f), c, b)
  BY <1>1, <1>4, <1>7, <1>8, SMTT(30) DEF Moved, i, j, k, l, z, y
<1>10. QED
  BY <1>2, <1>9, TurnParts

\* The modem sends something else; what becomes an event raises the bound.
LEMMA TurnSend ==
  ASSUME NEW r \in Seq(TxReq), NEW s \in Seq(Frame), NEW m \in Seq(Frame),
         NEW h \in Seq(Frame), NEW c \in Seq(ControlEvt), NEW d, NEW b \in Int,
         Turn(r, s, m, h, c, d, b), NEW f \in Frame, f.kind # "Ua", NEW b1 \in Int,
         b1 = b + 1 \/ (b1 = b /\ f.kind \notin ControlKinds)
  PROVE  Turn(r, s, m, Append(h, f), c, d, b1)
<1> DEFINE i == Sabms(r)  j == Sabms(s)  k == Sabms(m)  l == Events(h)
           y == Events(Append(h, f))
           x == IF f.kind \in ControlKinds THEN 1 ELSE 0
<1>1. i \in Nat /\ j \in Nat /\ k \in Nat /\ l \in Nat
  BY CountsAre
<1>2. Append(h, f) \in Seq(Frame) /\ x \in {0, 1} /\ b + x <= b1 /\ b <= b1
  BY AppendType
<1>3. y = l + x
  BY CountInAppend DEF Events
<1>4. InTurn(h, "Ua", d, ControlKinds, i + j + k, b)
  BY DEF Turn
<1>5. x = IF f.kind \in ControlKinds THEN 1 ELSE 0
  OBVIOUS
<1> HIDE DEF i, j, k, l, y, x
<1>6. InTurn(Append(h, f), "Ua", d, ControlKinds, i + j + k, b1)
  <2> DEFINE n == i + j + k
  <2>1. n \in Int /\ n + x + b <= n + b1
    BY <1>1, <1>2
  <2>2. InTurn(h, "Ua", d, ControlKinds, n, b)
    BY <1>4
  <2> HIDE DEF n
  <2>3. InTurn(Append(h, f), "Ua", d, ControlKinds, n, b1)
    BY <1>2, <1>5, <2>1, <2>2, TurnAppend
  <2>4. QED
    BY <2>3 DEF n
<1>7. /\ b <= b1 /\ i + b <= i + b1 /\ i + j + b <= i + j + b1
      /\ i + j + k + y + b <= i + j + k + l + b1
  BY <1>1, <1>2, <1>3
<1>8. Moved(r, s, m, h, c, d, b, r, s, m, Append(h, f), c, b1)
  BY <1>1, <1>6, <1>7, SMTT(30) DEF Moved, i, j, k, l, y
<1>9. QED
  BY <1>2, <1>8, TurnParts

\* A frame from the modem is lost, ignored or taken as data.
LEMMA TurnUnread ==
  ASSUME NEW r \in Seq(TxReq), NEW s \in Seq(Frame), NEW m \in Seq(Frame),
         NEW h \in Seq(Frame), NEW c \in Seq(ControlEvt), NEW d, NEW b \in Int,
         Turn(r, s, m, h, c, d, b), h # <<>>
  PROVE  Turn(r, s, m, Tail(h), c, d, b)
<1> DEFINE i == Sabms(r)  j == Sabms(s)  k == Sabms(m)  l == Events(h)  z == Events(Tail(h))
<1>1. i \in Nat /\ j \in Nat /\ k \in Nat /\ l \in Nat
  BY CountsAre
<1>2. Tail(h) \in Seq(Frame) /\ z \in Nat /\ z <= l
  BY TailType, TailCount DEF Events
<1>3. InTurn(Tail(h), "Ua", d, ControlKinds, i + j + k, b)
  <2>1. InTurn(h, "Ua", d, ControlKinds, i + j + k, b) /\ i + j + k \in Int
    BY <1>1 DEF Turn
  <2> HIDE DEF i, j, k
  <2>2. QED
    BY <2>1, TurnTail
<1> HIDE DEF i, j, k, l, z
<1>4. i + j + k + z + b <= i + j + k + l + b
  BY <1>1, <1>2
<1>5. Moved(r, s, m, h, c, d, b, r, s, m, Tail(h), c, b)
  BY <1>1, <1>3, <1>4, SMTT(30) DEF Moved, i, j, k, l, z
<1>6. QED
  BY <1>2, <1>5, TurnParts

\* The dispatcher queues an answer as an event.
LEMMA TurnEmit ==
  ASSUME NEW r \in Seq(TxReq), NEW s \in Seq(Frame), NEW m \in Seq(Frame),
         NEW h \in Seq(Frame), NEW c \in Seq(ControlEvt), NEW d, NEW b \in Int,
         Turn(r, s, m, h, c, d, b), h # <<>>, NEW e \in ControlEvt,
         e.kind = Head(h).kind, e.dlci = Head(h).dlci
  PROVE  Turn(r, s, m, Tail(h), Append(c, e), d, b)
<1> DEFINE i == Sabms(r)  j == Sabms(s)  k == Sabms(m)  l == Events(h)  z == Events(Tail(h))
<1>1. i \in Nat /\ j \in Nat /\ k \in Nat /\ l \in Nat
  BY CountsAre
<1>2. e.kind \in ControlKinds
  BY DEF ControlEvt
<1>3. /\ Tail(h) \in Seq(Frame) /\ Append(c, e) \in Seq(ControlEvt)
      /\ z \in Nat /\ l = z + 1
  BY <1>2, TailType, AppendType, TailCount DEF Events
<1>4. InTurn(Tail(h), "Ua", d, ControlKinds, i + j + k, b)
  <2>1. InTurn(h, "Ua", d, ControlKinds, i + j + k, b) /\ i + j + k \in Int
    BY <1>1 DEF Turn
  <2> HIDE DEF i, j, k
  <2>2. QED
    BY <2>1, TurnTail
<1>5. e.kind = "Ua" /\ e.dlci = d => l + (i + j + k) <= b
  <2> SUFFICES ASSUME e.kind = "Ua", e.dlci = d PROVE l + (i + j + k) <= b
    OBVIOUS
  <2>1. InTurn(h, "Ua", d, ControlKinds, i + j + k, b)
    BY DEF Turn
  <2> HIDE DEF i, j, k
  <2>2. QED
    BY <2>1, TurnHead DEF Events
<1>6. InTurn(c, "Ua", d, ControlKinds, i + j + k + l, b)
  BY DEF Turn
<1> HIDE DEF i, j, k, l, z
<1>7. InTurn(Append(c, e), "Ua", d, ControlKinds, i + j + k + z, b)
  <2> DEFINE n == i + j + k + l
             n1 == i + j + k + z
  <2>1. /\ n \in Int /\ n1 \in Int /\ n1 + 1 + b <= n + b
        /\ (e.kind = "Ua" /\ e.dlci = d => 1 + n1 <= b)
    BY <1>1, <1>3, <1>5
  <2>2. 1 = (IF e.kind \in ControlKinds THEN 1 ELSE 0) /\ 1 \in {0, 1}
    BY <1>2
  <2>3. InTurn(c, "Ua", d, ControlKinds, n, b)
    BY <1>6
  <2> HIDE DEF n, n1
  <2>4. InTurn(Append(c, e), "Ua", d, ControlKinds, n1, b)
    BY <2>1, <2>2, <2>3, TurnAppend
  <2>5. QED
    BY <2>4 DEF n1
<1>8. Moved(r, s, m, h, c, d, b, r, s, m, Tail(h), Append(c, e), b)
  BY <1>1, <1>4, <1>7, SMTT(30) DEF Moved, i, j, k, l, z
<1>9. QED
  BY <1>3, <1>8, TurnParts

\* The main task reads or drains events.
LEMMA TurnRead ==
  ASSUME NEW r \in Seq(TxReq), NEW s \in Seq(Frame), NEW m \in Seq(Frame),
         NEW h \in Seq(Frame), NEW c \in Seq(ControlEvt), NEW d, NEW b \in Int,
         Turn(r, s, m, h, c, d, b)
  PROVE  /\ Turn(r, s, m, h, <<>>, d, b)
         /\ c # <<>> => Turn(r, s, m, h, Tail(c), d, b)
<1> DEFINE n == Sabms(r) + Sabms(s) + Sabms(m) + Events(h)
<1>1. n \in Int
  <2> DEFINE i == Sabms(r)  j == Sabms(s)  k == Sabms(m)  l == Events(h)
  <2>1. i \in Nat /\ j \in Nat /\ k \in Nat /\ l \in Nat
    BY CountsAre
  <2> HIDE DEF i, j, k, l
  <2>2. i + j + k + l \in Int
    BY <2>1
  <2>3. QED
    BY <2>2 DEF i, j, k, l
<1>2. InTurn(c, "Ua", d, ControlKinds, n, b)
  BY DEF Turn
<1> HIDE DEF n
<1>3. InTurn(<<>>, "Ua", d, ControlKinds, n, b)
  BY TurnEmpty
<1>4. c # <<>> => InTurn(Tail(c), "Ua", d, ControlKinds, n, b)
  BY <1>1, <1>2, TurnTail
<1>5. QED
  BY <1>3, <1>4 DEF Turn, n

LEMMA TurnIs ==
  /\ AnswersInTurn <=> Turn(requests, sending, toModem, toHost, ctrl, dlci, Queued + strays)
  /\ AnswersInTurn' <=> Turn(requests', sending', toModem', toHost', ctrl', dlci',
                             Queued' + strays')
<1>1. AnswersInTurn <=> Turn(requests, sending, toModem, toHost, ctrl, dlci, Queued + strays)
  BY DEF AnswersInTurn, Turn, Sabms, Events
<1>2. AnswersInTurn' <=> Turn(requests', sending', toModem', toHost', ctrl', dlci',
                              Queued' + strays')
  BY DEF AnswersInTurn, Turn, Sabms, Events, InTurn, CountFrom, CountIn
<1>3. QED
  BY <1>1, <1>2

LEMMA FlowTurn ==
  ASSUME UNCHANGED openVars,
         Turn(requests', sending', toModem', toHost', ctrl', dlci, Queued + strays')
  PROVE  AnswersInTurn'
<1>1. Queued' = Queued /\ dlci' = dlci
  BY DEF Queued, openVars
<1>2. QED
  BY <1>1, TurnIs

LEMMA TurnTypes ==
  ASSUME TypeOK
  PROVE  /\ requests \in Seq(TxReq) /\ ctrl \in Seq(ControlEvt)
         /\ sending \in Seq(Frame) /\ toModem \in Seq(Frame) /\ toHost \in Seq(Frame)
         /\ Queued \in Nat /\ strays \in Nat /\ Queued + strays \in Nat
         /\ Queued + strays \in Int
<1>1. attempt \in Nat /\ strays \in Nat
  BY RuntimeAssumption DEF TypeOK
<1>2. Queued \in Nat
  BY <1>1 DEF Queued
<1>3. QED
  BY <1>1, <1>2 DEF TypeOK

LEMMA InitTurn == Init => AnswersInTurn
<1> SUFFICES ASSUME Init PROVE AnswersInTurn
  OBVIOUS
<1>1. /\ requests = <<>> /\ sending = <<>> /\ toModem = <<>> /\ toHost = <<>> /\ ctrl = <<>>
  BY DEF Init, Open!Init, Tx!Init, Rx!Init, Modem!Init
<1>2. QED
  BY <1>1, TurnEmpty DEF AnswersInTurn

\* Before its first SABM nothing is on its way for a DLC.
LEMMA NewDlcTurn ==
  ASSUME TypeOK, OrderInv, NEW b
  PROVE  Turn(requests, sending, toModem, toHost, <<>>, dlci + 1, b)
<1>1. /\ dlci \in 0 .. 2 /\ requests \in Seq(TxReq) /\ sending \in Seq(Frame)
      /\ toModem \in Seq(Frame) /\ toHost \in Seq(Frame)
  BY DEF TypeOK, Dlcs
<1>2. ASSUME NEW q, q \in Seq(TxReq) \/ q \in Seq(Frame),
             \A i \in DOMAIN q : q[i].kind = "Sabm" => q[i].dlci <= dlci, NEW n
      PROVE  InTurn(q, "Sabm", dlci + 1, {"Sabm"}, n, b)
  <2> SUFFICES ASSUME NEW i \in DOMAIN q, q[i].kind = "Sabm", q[i].dlci = dlci + 1
               PROVE  FALSE
    BY DEF InTurn
  <2>1. q[i].dlci <= dlci
    BY <1>2
  <2>2. QED
    BY <1>1, <2>1
<1>3. ASSUME NEW n PROVE InTurn(toHost, "Ua", dlci + 1, ControlKinds, n, b)
  <2> SUFFICES ASSUME NEW i \in DOMAIN toHost, toHost[i].kind = "Ua",
                      toHost[i].dlci = dlci + 1
               PROVE  FALSE
    BY DEF InTurn
  <2>1. dlci + 1 \in accepted
    BY DEF OrderInv, AnswersAreTrue
  <2>2. dlci + 1 <= dlci
    BY <2>1 DEF OrderInv, SabmsInOrder
  <2>3. QED
    BY <1>1, <2>2
<1>4. QED
  BY <1>1, <1>2, <1>3, TurnEmpty DEF Turn, OrderInv, SabmsInOrder

LEMMA MainTurn ==
  ASSUME TypeOK, OrderInv, AnswersInTurn, MainStep \/ Timeout
  PROVE  AnswersInTurn'
<1>1. UNCHANGED <<sending, toModem, toHost, strays>>
  BY MainEffect DEF txVars, modemVars
<1>2. /\ requests \in Seq(TxReq) /\ ctrl \in Seq(ControlEvt)
      /\ sending \in Seq(Frame) /\ toModem \in Seq(Frame) /\ toHost \in Seq(Frame)
      /\ strays \in Nat /\ Queued + strays \in Nat /\ Queued + strays \in Int
  BY TurnTypes
<1>3. Turn(requests, sending, toModem, toHost, ctrl, dlci, Queued + strays)
  BY TurnIs
\* A SABM is queued, or will be once there is room.
<1>4. ASSUME NEW d \in Dlcs, NEW k \in {0, 1}, NEW c \in Seq(ControlEvt), NEW b \in Nat,
             \/ k = 0 /\ requests' = requests
             \/ k = 1 /\ requests' = Append(requests, Open!Sabm(d)),
             Turn(requests, sending, toModem, toHost, c, d, b)
      PROVE  Turn(requests', sending, toModem, toHost, c, d, b + k)
  <2>1. CASE k = 0
    <3>1. b + k = b /\ requests' = requests
      BY <1>4, <2>1
    <3>2. QED
      BY <1>4, <3>1
  <2>2. CASE k = 1
    <3> DEFINE e == Open!Sabm(d)
    <3>1. e \in TxReq /\ k = (IF e.kind \in {"Sabm"} THEN 1 ELSE 0)
      BY <2>2 DEF Open!Sabm, TxReq, Dlcs
    <3>2. requests' = Append(requests, e)
      BY <1>4, <2>2
    <3> HIDE DEF e
    <3>3. Turn(Append(requests, e), sending, toModem, toHost, c, d, b + k)
      BY <1>2, <1>4, <3>1, TurnQueue
    <3>4. QED
      BY <3>2, <3>3
  <2>3. QED
    BY <2>1, <2>2
<1>5. CASE Begins
  <2>1. PICK d \in Dlcs, a \in 0 .. SABM_RETRIES - 1 :
               /\ First(d, a) \/ Again(d, a) \/ NextDlc(d, a)
               /\ Open!BeginAttempt(d, a)
    BY <1>5 DEF Begins
  <2>2. PICK k \in {0, 1} :
               /\ \/ k = 0 /\ requests' = requests /\ phase' = "sending"
                  \/ k = 1 /\ requests' = Append(requests, Open!Sabm(d)) /\ phase' = "waiting"
               /\ dlci' = d /\ attempt' = a /\ ctrl' = <<>>
    BY <2>1 DEF Open!BeginAttempt
  <2>3. a \in Nat /\ a + strays \in Nat
    BY <1>2
  <2>4. Turn(requests, sending, toModem, toHost, <<>>, d, a + strays)
    <3>1. CASE First(d, a) \/ Again(d, a)
      <4>1. d = dlci /\ Queued = a
        BY <2>3, <3>1 DEF First, Again, Queued, OrderInv, MainInv
      <4>2. QED
        BY <1>2, <1>3, <4>1, TurnRead
    <3>2. CASE NextDlc(d, a)
      BY <3>2, NewDlcTurn DEF NextDlc
    <3>3. QED
      BY <2>1, <3>1, <3>2
  <2>5. <<>> \in Seq(ControlEvt)
    OBVIOUS
  <2>6. Turn(requests', sending, toModem, toHost, <<>>, d, (a + strays) + k)
    BY <1>4, <2>2, <2>3, <2>4, <2>5
  <2>7. Queued' + strays' = (a + strays) + k
    BY <1>1, <1>2, <2>2, <2>3 DEF Queued
  <2>8. QED
    BY <1>1, <2>2, <2>6, <2>7, TurnIs
<1>6. CASE Open!SendSabm
  <2>1. /\ phase = "sending" /\ phase' = "waiting" /\ UNCHANGED <<dlci, attempt, ctrl>>
        /\ requests' = Append(requests, Open!Sabm(dlci)) /\ dlci \in Dlcs /\ attempt \in Nat
    BY <1>6 DEF Open!SendSabm, TypeOK
  <2>2. Turn(requests', sending, toModem, toHost, ctrl, dlci, (Queued + strays) + 1)
    BY <1>2, <1>3, <1>4, <2>1
  <2>3. Queued' + strays' = (Queued + strays) + 1
    BY <1>1, <1>2, <2>1 DEF Queued
  <2>4. QED
    BY <1>1, <2>1, <2>2, <2>3, TurnIs
<1>7. CASE Returns
  <2>1. /\ phase = "waiting" /\ UNCHANGED <<dlci, attempt, requests>>
        /\ phase' \in {"SabmTimeout", "Rejected", "ok"}
        /\ ctrl' = <<>> \/ (ctrl # <<>> /\ ctrl' = Tail(ctrl))
    BY <1>7 DEF Returns
  <2>2. Queued' = Queued
    BY <2>1 DEF Queued
  <2>3. Turn(requests, sending, toModem, toHost, ctrl', dlci, Queued + strays)
    BY <1>2, <1>3, <2>1, TurnRead
  <2>4. QED
    BY <1>1, <2>1, <2>2, <2>3, TurnIs
<1>8. Begins \/ Open!SendSabm \/ Returns
  BY MainEffect
<1>9. QED
  BY <1>5, <1>6, <1>7, <1>8

\* What the tasks with a handle write is not counted.
LEMMA WriterTurn ==
  ASSUME TypeOK, AnswersInTurn, NEW d \in DataDlcs, Writer(d) \/ Reader(d)
  PROVE  AnswersInTurn'
<1> DEFINE e == Tx!Data(d, Tx!chunk(d))
<1>1. /\ UNCHANGED <<openVars, toHost, ctrl, sending, toModem, strays>>
      /\ requests' = requests \/ requests' = Append(requests, e)
  BY DEF Writer, Reader, Rx!ReadPipe, Tx!Write, Tx!SendChunk, modemVars, txVars
<1>2. Turn(requests, sending, toModem, toHost, ctrl, dlci, Queued + strays)
  BY TurnIs
<1>3. requests' = Append(requests, e)
        => Turn(requests', sending, toModem, toHost, ctrl, dlci, Queued + strays)
  <2> SUFFICES ASSUME requests' = Append(requests, e), Writer(d)
               PROVE  Turn(Append(requests, e), sending, toModem, toHost, ctrl, dlci,
                           Queued + strays)
    <3>1. Reader(d) => requests' = requests
      BY DEF Reader
    <3>2. QED
      BY <1>2, <3>1
  <2>1. e \in TxReq /\ 0 = (IF e.kind \in {"Sabm"} THEN 1 ELSE 0)
    BY ChunkType DEF Tx!Data
  <2> HIDE DEF e
  <2>2. Turn(Append(requests, e), sending, toModem, toHost, ctrl, dlci,
             (Queued + strays) + 0)
    BY <1>2, <2>1, TurnTypes, TurnQueue
  <2>3. (Queued + strays) + 0 = Queued + strays
    BY TurnTypes
  <2>4. QED
    BY <2>2, <2>3
<1>4. QED
  BY <1>1, <1>2, <1>3, FlowTurn

LEMMA TxTurn ==
  ASSUME TypeOK, AnswersInTurn, TxStep \/ TransmitFails
  PROVE  AnswersInTurn'
<1>1. UNCHANGED <<openVars, toHost, ctrl, strays>>
  BY DEF TxStep, TransmitFails, modemVars
<1>2. Turn(requests, sending, toModem, toHost, ctrl, dlci, Queued + strays)
  BY TurnIs
<1>3. CASE Tx!TakeRequest
  <2> DEFINE q == Head(requests)
             f == Tx!ToFrame(q)
  <2>1. /\ requests # <<>> /\ requests' = Tail(requests) /\ toModem' = toModem
        /\ sending = <<>> /\ sending' = <<f>>
    BY <1>3 DEF Tx!TakeRequest
  <2>2. q \in TxReq
    BY <2>1, TailType, TurnTypes
  <2>3. /\ f \in Frame /\ (f.kind = "Sabm" <=> q.kind = "Sabm")
        /\ (f.kind = "Sabm" => f.dlci = q.dlci)
    BY <2>2, ToFrameType DEF Tx!ToFrame, Tx!Sabm, Tx!Uih, TxReq
  <2> HIDE DEF f
  <2>4. Turn(Tail(requests), <<f>>, toModem, toHost, ctrl, dlci, Queued + strays)
    BY <1>2, <2>1, <2>3, TurnTypes, TurnTake
  <2>5. QED
    BY <1>1, <2>1, <2>4, FlowTurn
<1>4. CASE Tx!Transmit
  <2>1. /\ sending # <<>> /\ sending' = <<>> /\ requests' = requests
        /\ toModem' = Append(toModem, Head(sending))
    BY <1>4 DEF Tx!Transmit
  <2>2. Turn(requests, <<>>, Append(toModem, Head(sending)), toHost, ctrl, dlci,
             Queued + strays)
    BY <1>2, <2>1, TurnTypes, TurnTransmit
  <2>3. QED
    BY <1>1, <2>1, <2>2, FlowTurn
<1>5. CASE TransmitFails
  <2>1. sending' = <<>> /\ UNCHANGED <<requests, toModem>>
    BY <1>5 DEF TransmitFails, Tx!TransmitFails
  <2>2. Turn(requests, <<>>, toModem, toHost, ctrl, dlci, Queued + strays)
    BY <1>2, TurnTypes, TurnUnsent
  <2>3. QED
    BY <1>1, <2>1, <2>2, FlowTurn
<1>6. QED
  BY <1>3, <1>4, <1>5 DEF TxStep

LEMMA RxTurn ==
  ASSUME TypeOK, AnswersInTurn, RxStep
  PROVE  AnswersInTurn'
<1>1. UNCHANGED <<openVars, requests, sending, toModem, strays>>
  BY DEF RxStep, txVars, modemVars
<1>2. Turn(requests, sending, toModem, toHost, ctrl, dlci, Queued + strays)
  BY TurnIs
<1>3. CASE toHost # <<>> /\ toHost' = Tail(toHost) /\ ctrl' = ctrl
  <2>1. Turn(requests, sending, toModem, Tail(toHost), ctrl, dlci, Queued + strays)
    BY <1>2, <1>3, TurnTypes, TurnUnread
  <2>2. QED
    BY <1>1, <1>3, <2>1, FlowTurn
<1>4. CASE Rx!Emit
  <2> DEFINE e == [kind |-> Head(toHost).kind, dlci |-> Head(toHost).dlci]
  <2>1. /\ toHost # <<>> /\ toHost' = Tail(toHost) /\ Head(toHost).kind \in ControlKinds
        /\ ctrl' = ctrl \/ ctrl' = Append(ctrl, e)
    BY <1>4 DEF Rx!Emit, Rx!TakeFrame, Rx!ControlKinds, ControlKinds, Rx!emit
  <2>2. /\ e \in ControlEvt /\ e.kind = Head(toHost).kind /\ e.dlci = Head(toHost).dlci
    <3>1. Head(toHost) \in Frame
      BY <2>1, TailType, TurnTypes
    <3>2. QED
      BY <2>1, <3>1 DEF ControlEvt, Frame
  <2> HIDE DEF e
  <2>3. /\ Turn(requests, sending, toModem, Tail(toHost), ctrl, dlci, Queued + strays)
        /\ Turn(requests, sending, toModem, Tail(toHost), Append(ctrl, e), dlci,
                Queued + strays)
    BY <1>2, <2>1, <2>2, TurnTypes, TurnUnread, TurnEmit
  <2>4. QED
    BY <1>1, <2>1, <2>3, FlowTurn
<1>5. CASE Rx!WritePipe
  BY <1>1, <1>2, <1>5, FlowTurn DEF Rx!WritePipe
<1>6. QED
  BY <1>3, <1>4, <1>5 DEF RxStep, Rx!ToPipe, Rx!Ignore, Rx!TakeFrame

LEMMA LoseTurn ==
  ASSUME TypeOK, AnswersInTurn, LoseToModem \/ LoseToHost
  PROVE  AnswersInTurn'
<1>1. UNCHANGED <<openVars, requests, sending, ctrl, strays>>
  BY DEF LoseToModem, LoseToHost, txVars, modemVars
<1>2. Turn(requests, sending, toModem, toHost, ctrl, dlci, Queued + strays)
  BY TurnIs
<1>3. CASE LoseToModem
  <2>1. toModem # <<>> /\ toModem' = Tail(toModem) /\ toHost' = toHost
    BY <1>3 DEF LoseToModem
  <2>2. Turn(requests, sending, Tail(toModem), toHost, ctrl, dlci, Queued + strays)
    BY <1>2, <2>1, TurnTypes, TurnUntaken
  <2>3. QED
    BY <1>1, <2>1, <2>2, FlowTurn
<1>4. CASE LoseToHost
  <2>1. toHost # <<>> /\ toHost' = Tail(toHost) /\ toModem' = toModem
    BY <1>4 DEF LoseToHost
  <2>2. Turn(requests, sending, toModem, Tail(toHost), ctrl, dlci, Queued + strays)
    BY <1>2, <2>1, TurnTypes, TurnUnread
  <2>3. QED
    BY <1>1, <2>1, <2>2, FlowTurn
<1>5. QED
  BY <1>3, <1>4

LEMMA ModemTurn ==
  ASSUME TypeOK, AnswersInTurn, ModemAnswer \/ ModemRefuse \/ ModemSend
  PROVE  AnswersInTurn'
<1>1. UNCHANGED <<openVars, requests, sending, ctrl>>
  BY DEF ModemAnswer, ModemRefuse, ModemSend, txVars
<1>2. Turn(requests, sending, toModem, toHost, ctrl, dlci, Queued + strays)
  BY TurnIs
<1>3. ASSUME NEW f \in Frame, f.kind \in {"Ua", "Dm"}, Modem!Answer(f)
      PROVE  AnswersInTurn'
  <2>1. /\ toModem # <<>> /\ Head(toModem).kind = "Sabm" /\ toModem' = Tail(toModem)
        /\ toHost' = Append(toHost, f) /\ f.dlci = Head(toModem).dlci /\ strays' = strays
    BY <1>3 DEF Modem!Answer
  <2>2. f.kind \in ControlKinds
    BY <1>3 DEF ControlKinds
  <2>3. Turn(requests, sending, Tail(toModem), Append(toHost, f), ctrl, dlci,
             Queued + strays)
    BY <1>2, <2>1, <2>2, TurnTypes, TurnAnswer
  <2>4. QED
    BY <1>1, <2>1, <2>3, FlowTurn
<1>4. \A d \in Dlcs : /\ Modem!Ua(d) \in Frame /\ Modem!Ua(d).kind \in {"Ua", "Dm"}
                      /\ Modem!Dm(d) \in Frame /\ Modem!Dm(d).kind \in {"Ua", "Dm"}
  BY DEF Modem!Ua, Modem!Dm, Frame, FrameKind, Dlcs
<1>5. CASE Modem!Accept
  BY <1>3, <1>4, <1>5 DEF Modem!Accept, Modem!Dlcs, Dlcs
<1>6. CASE Modem!Refuse
  BY <1>3, <1>4, <1>6 DEF Modem!Refuse, Modem!Dlcs, Dlcs
<1>7. CASE Modem!TakeData
  <2>1. /\ toModem # <<>> /\ toModem' = Tail(toModem)
        /\ toHost' = toHost /\ strays' = strays
    BY <1>7 DEF Modem!TakeData
  <2>2. Turn(requests, sending, Tail(toModem), toHost, ctrl, dlci, Queued + strays)
    BY <1>2, <2>1, TurnTypes, TurnUntaken
  <2>3. QED
    BY <1>1, <2>1, <2>2, FlowTurn
<1>8. ASSUME NEW d \in DataDlcs, NEW n \in 1 .. MaxRxBytes - sent[1] - sent[2],
             Modem!SendData(d, n)
      PROVE  AnswersInTurn'
  <2> DEFINE f == Modem!Uih(d, Modem!BytesAfter(sent[d], n))
  <2>1. /\ toHost' = Append(toHost, f) /\ toModem' = toModem /\ strays' = strays
    BY <1>8 DEF Modem!SendData
  <2>2. f \in Frame /\ f.kind = "Uih"
    <3>1. sent[d] \in Nat /\ n \in Nat
      BY RuntimeAssumption DEF TypeOK
    <3>2. Modem!BytesAfter(sent[d], n) \in Seq(Nat)
      BY <3>1, BytesAfterType DEF Modem!BytesAfter
    <3>3. QED
      BY <3>2 DEF Modem!Uih, Frame, FrameKind, DataDlcs
  <2>3. f.kind # "Ua" /\ f.kind \notin ControlKinds
    BY <2>2 DEF ControlKinds
  <2> HIDE DEF f
  <2>4. Turn(requests, sending, toModem, Append(toHost, f), ctrl, dlci, Queued + strays)
    BY <1>2, <2>2, <2>3, TurnTypes, TurnSend
  <2>5. QED
    BY <1>1, <2>1, <2>4, FlowTurn
<1>9. ASSUME NEW f \in Modem!Strays, Modem!SendStray(f) PROVE AnswersInTurn'
  <2>1. toHost' = Append(toHost, f) /\ toModem' = toModem /\ strays' = strays + 1
    BY <1>9 DEF Modem!SendStray
  <2>2. f \in Frame /\ f.kind # "Ua"
    <3>1. f.kind # "Ua"
      BY DEF Modem!Strays, Modem!Uih
    <3>2. QED
      BY <3>1, StrayType
  <2>3. Queued + strays' = (Queued + strays) + 1 /\ Queued + strays' \in Int
    BY <2>1, TurnTypes
  <2>4. Turn(requests, sending, toModem, Append(toHost, f), ctrl, dlci, Queued + strays')
    BY <1>2, <2>2, <2>3, TurnTypes, TurnSend
  <2>5. QED
    BY <1>1, <2>1, <2>4, FlowTurn
<1>10. QED
  BY <1>5, <1>6, <1>7, <1>8, <1>9 DEF ModemAnswer, ModemRefuse, ModemSend

LEMMA NextTurn ==
  ASSUME TypeOK, OrderInv, AnswersInTurn, Next
  PROVE  AnswersInTurn'
  BY MainTurn, WriterTurn, TxTurn, RxTurn, ModemTurn, LoseTurn DEF Next

-----------------------------------------------------------------------------
(* SABMs and answers outstanding.                                          *)

LEMMA CountTypes ==
  ASSUME TypeOK
  PROVE  /\ CountIn(requests, {"Sabm"}) \in Nat /\ CountIn(sending, {"Sabm"}) \in Nat
         /\ CountIn(toModem, {"Sabm"}) \in Nat /\ CountIn(toHost, ControlKinds) \in Nat
         /\ Len(ctrl) \in Nat /\ strays \in Nat /\ dlci \in 0 .. 2
         /\ attempt \in 0 .. SABM_RETRIES - 1 /\ SABM_RETRIES \in Nat \ {0}
<1>1. /\ requests \in Seq(TxReq) /\ ctrl \in Seq(ControlEvt)
      /\ sending \in Seq(Frame) /\ toModem \in Seq(Frame) /\ toHost \in Seq(Frame)
      /\ strays \in Nat /\ dlci \in 0 .. 2
      /\ attempt \in 0 .. SABM_RETRIES - 1 /\ SABM_RETRIES \in Nat \ {0}
  BY RuntimeAssumption DEF TypeOK, Dlcs
<1>2. QED
  BY <1>1, CountInType

LEMMA InitOutstanding == Init => OutstandingBound
<1> SUFFICES ASSUME Init PROVE OutstandingBound
  OBVIOUS
<1>1. /\ phase = "idle" /\ dlci = 0 /\ strays = 0 /\ requests = <<>>
      /\ sending = <<>> /\ toModem = <<>> /\ toHost = <<>> /\ ctrl = <<>>
  BY DEF Init, Open!Init, Tx!Init, Rx!Init, Modem!Init
<1>2. Outstanding = 0
  BY <1>1, CountInEmpty DEF Outstanding
<1>3. QED
  BY <1>1, <1>2 DEF OutstandingBound, Queued, Leftover

\* A step of the main task that queues k SABMs.
LEMMA QueueSabm ==
  ASSUME TypeOK, Len(ctrl') \in Nat, NEW d \in Dlcs, UNCHANGED <<sending, toModem, toHost>>,
         NEW k \in {0, 1},
         \/ k = 0 /\ requests' = requests
         \/ k = 1 /\ requests' = Append(requests, Open!Sabm(d))
  PROVE  Outstanding' = Outstanding - Len(ctrl) + Len(ctrl') + k
<1>1. CountIn(requests', {"Sabm"}) = CountIn(requests, {"Sabm"}) + k
  <2>1. Open!Sabm(d) \in TxReq /\ Open!Sabm(d).kind = "Sabm"
    BY DEF Open!Sabm, TxReq, Dlcs
  <2>2. requests \in Seq(TxReq)
    BY DEF TypeOK
  <2>3. CountIn(Append(requests, Open!Sabm(d)), {"Sabm"}) = CountIn(requests, {"Sabm"}) + 1
    BY <2>1, <2>2, CountInAppend
  <2>4. CountIn(requests, {"Sabm"}) \in Nat
    BY CountTypes
  <2>5. CASE k = 0
    <3>1. requests' = requests
      BY <2>5
    <3>2. QED
      BY <2>4, <2>5, <3>1
  <2>6. CASE k = 1
    <3>1. requests' = Append(requests, Open!Sabm(d))
      BY <2>6
    <3>2. QED
      BY <2>3, <2>6, <3>1
  <2>7. QED
    BY <2>5, <2>6
<1>2. /\ CountIn(requests, {"Sabm"}) \in Nat /\ CountIn(sending, {"Sabm"}) \in Nat
      /\ CountIn(toModem, {"Sabm"}) \in Nat /\ CountIn(toHost, ControlKinds) \in Nat
      /\ Len(ctrl) \in Nat
  BY CountTypes
<1>3. QED
  BY <1>1, <1>2 DEF Outstanding

LEMMA OutstandingType ==
  ASSUME TypeOK
  PROVE  Outstanding \in Nat
<1>1. /\ CountIn(requests, {"Sabm"}) \in Nat /\ CountIn(sending, {"Sabm"}) \in Nat
      /\ CountIn(toModem, {"Sabm"}) \in Nat /\ CountIn(toHost, ControlKinds) \in Nat
      /\ Len(ctrl) \in Nat
  BY CountTypes
<1>2. QED
  BY <1>1 DEF Outstanding

\* What is on its way when the UA of the DLC being opened is read, but for the
\* events behind it, which are drained.
LEMMA BehindUa ==
  ASSUME TypeOK, AnswersInTurn, ctrl # <<>>, Head(ctrl) = [kind |-> "Ua", dlci |-> dlci]
  PROVE  Outstanding - Len(ctrl) < Queued + strays
<1> DEFINE i == Sabms(requests)  j == Sabms(sending)  k == Sabms(toModem)  l == Events(toHost)
           u == CountIn(ctrl, ControlKinds)
           n == Len(ctrl)
<1>1. InTurn(ctrl, "Ua", dlci, ControlKinds, i + j + k + l, Queued + strays)
  BY TurnIs DEF Turn
<1>2. Head(ctrl).kind = "Ua" /\ Head(ctrl).dlci = dlci /\ ctrl \in Seq(ControlEvt)
  BY DEF TypeOK
<1>3. i \in Nat /\ j \in Nat /\ k \in Nat /\ l \in Nat /\ n \in Nat
  BY <1>2, CountsAre, TurnTypes
<1>4. u = CountIn(Tail(ctrl), ControlKinds) + 1 /\ CountIn(Tail(ctrl), ControlKinds) \in Nat
  <2>1. u = CountIn(Tail(ctrl), ControlKinds)
              + (IF Head(ctrl).kind \in ControlKinds THEN 1 ELSE 0)
    BY <1>2, CountInTail
  <2>2. Head(ctrl).kind \in ControlKinds
    BY <1>2 DEF ControlKinds
  <2>3. Tail(ctrl) \in Seq(ControlEvt)
    BY <1>2, TailType
  <2>4. CountIn(Tail(ctrl), ControlKinds) \in Nat
    BY <2>3, CountInType
  <2>5. QED
    BY <2>1, <2>2, <2>4
<1>5. Outstanding = i + j + k + l + n
  BY DEF Outstanding, Sabms, Events
<1> HIDE DEF i, j, k, l, n
<1>6. u + (i + j + k + l) <= Queued + strays
  <2> DEFINE s == i + j + k + l
             b == Queued + strays
  <2>1. InTurn(ctrl, "Ua", dlci, ControlKinds, s, b)
    BY <1>1
  <2> HIDE DEF s, b
  <2>2. u + s <= b
    BY <1>2, <2>1, TurnHead
  <2>3. QED
    BY <2>2 DEF s, b
<1> HIDE DEF u
<1>7. Outstanding - n = i + j + k + l /\ u \in Nat /\ u >= 1
  BY <1>3, <1>4, <1>5
<1>8. Outstanding - n < Queued + strays
  BY <1>3, <1>6, <1>7, TurnTypes
<1>9. QED
  BY <1>8 DEF n

LEMMA MainOutstanding ==
  ASSUME TypeOK, TypeOK', OrderInv, AnswersInTurn, OutstandingBound, MainStep \/ Timeout
  PROVE  OutstandingBound'
<1> DEFINE r == SABM_RETRIES - 1
           Left(d) == IF d = 0 THEN 0 ELSE r
<1>1. UNCHANGED <<sending, toModem, toHost, strays>>
  BY MainEffect DEF txVars, modemVars
<1>2. /\ Outstanding \in Nat /\ strays \in Nat /\ Len(ctrl) \in Nat
      /\ Len(ctrl') \in Nat /\ r \in Nat /\ attempt \in 0 .. r /\ dlci \in 0 .. 2
  <2>1. Len(ctrl') \in Nat
    BY DEF TypeOK
  <2>2. /\ strays \in Nat /\ Len(ctrl) \in Nat /\ dlci \in 0 .. 2
        /\ attempt \in 0 .. SABM_RETRIES - 1 /\ SABM_RETRIES \in Nat \ {0}
    BY CountTypes
  <2>3. Outstanding \in Nat
    BY OutstandingType
  <2>4. QED
    BY <2>1, <2>2, <2>3
<1>3. \A d \in Dlcs : Left(d) \in Nat
  BY <1>2
<1>4. Outstanding <= strays + Left(dlci) + Queued
  BY DEF OutstandingBound, Leftover
<1>5. CASE Begins
  <2>1. PICK d \in Dlcs, a \in 0 .. r :
               /\ First(d, a) \/ Again(d, a) \/ NextDlc(d, a)
               /\ Open!BeginAttempt(d, a)
    BY <1>5 DEF Begins
  <2>2. PICK k \in {0, 1} :
               /\ \/ k = 0 /\ requests' = requests /\ phase' = "sending"
                  \/ k = 1 /\ requests' = Append(requests, Open!Sabm(d)) /\ phase' = "waiting"
               /\ dlci' = d /\ attempt' = a /\ ctrl' = <<>>
    BY <2>1 DEF Open!BeginAttempt
  <2>3. Outstanding' = Outstanding - Len(ctrl) + k /\ Queued' = a + k
    BY <1>1, <1>2, <2>2, QueueSabm DEF Queued
  <2>4. Outstanding - Len(ctrl) <= strays + Left(d) + a
    <3>1. CASE First(d, a)
      BY <1>2, <1>3, <1>4, <3>1 DEF First, Queued, OrderInv, MainInv
    <3>2. CASE Again(d, a)
      BY <1>2, <1>3, <1>4, <3>2 DEF Again, Queued
    \* The leftovers are behind the UA that was read.
    <3>3. CASE NextDlc(d, a)
      <4>1. Queued = attempt + 1 /\ d = dlci + 1 /\ d # 0 /\ a = 0
        BY <1>2, <3>3 DEF NextDlc, Queued
      <4>2. Outstanding - Len(ctrl) < Queued + strays
        BY <3>3, BehindUa DEF NextDlc
      <4>3. Left(d) = r
        BY <4>1
      <4> HIDE DEF r, Left
      <4>4. QED
        BY <1>2, <4>1, <4>2, <4>3
    <3>4. QED
      BY <2>1, <3>1, <3>2, <3>3
  <2>5. Left(d) \in Nat
    BY <1>3
  <2> HIDE DEF r, Left
  <2>6. Outstanding' <= strays + Left(d) + Queued'
    BY <1>2, <2>1, <2>2, <2>3, <2>4, <2>5
  <2>7. Leftover' = Left(d)
    BY <2>2 DEF Leftover, Left, r
  <2>8. QED
    BY <1>1, <2>6, <2>7 DEF OutstandingBound
<1>6. CASE Open!SendSabm
  <2>1. /\ phase = "sending" /\ phase' = "waiting" /\ UNCHANGED <<dlci, attempt, ctrl>>
        /\ requests' = Append(requests, Open!Sabm(dlci))
    BY <1>6 DEF Open!SendSabm
  <2>2. Outstanding' = Outstanding + 1
    BY <1>1, <1>2, <2>1, QueueSabm DEF Dlcs
  <2>3. Queued' = Queued + 1 /\ Queued \in Nat
    BY <1>2, <2>1 DEF Queued
  <2>4. Left(dlci) \in Nat
    BY <1>2, <1>3 DEF Dlcs
  <2> HIDE DEF r, Left
  <2>5. Outstanding' <= strays + Left(dlci) + Queued'
    BY <1>2, <1>4, <2>2, <2>3, <2>4
  <2>6. Leftover' = Left(dlci)
    BY <2>1 DEF Leftover, Left, r
  <2>7. QED
    BY <1>1, <2>5, <2>6 DEF OutstandingBound
<1>7. CASE Returns
  <2>1. /\ phase = "waiting" /\ UNCHANGED <<dlci, attempt, requests>>
        /\ phase' \in {"SabmTimeout", "Rejected", "ok"}
        /\ Len(ctrl') \in Nat /\ Len(ctrl') <= Len(ctrl)
    BY <1>2, <1>7, TailType, SMTT(30), ZenonT(30) DEF Returns, TypeOK
  <2>2. Outstanding' = Outstanding - Len(ctrl) + Len(ctrl')
    BY <1>1, <1>2, <2>1, QueueSabm DEF Dlcs
  <2>3. Queued' = Queued /\ Queued \in Nat
    BY <1>2, <2>1 DEF Queued
  <2>4. Left(dlci) \in Nat
    BY <1>2, <1>3 DEF Dlcs
  <2> HIDE DEF r, Left
  <2>5. Outstanding' <= strays + Left(dlci) + Queued'
    BY <1>2, <1>4, <2>1, <2>2, <2>3, <2>4
  <2>6. Leftover' = Left(dlci)
    BY <2>1 DEF Leftover, Left, r
  <2>7. QED
    BY <1>1, <2>5, <2>6 DEF OutstandingBound
<1>8. Begins \/ Open!SendSabm \/ Returns
  BY MainEffect
<1>9. QED
  BY <1>5, <1>6, <1>7, <1>8

\* A step of another task, of the modem or of the line.
LEMMA FlowOutstanding ==
  ASSUME TypeOK, OutstandingBound, UNCHANGED openVars, strays' \in Nat,
         NEW x \in Int, Outstanding' = Outstanding + x, x <= strays' - strays
  PROVE  OutstandingBound'
<1> DEFINE b == Leftover
           o == Outstanding
           q == Queued
           t == strays'
<1>1. o \in Nat
  BY OutstandingType
<1>2. b \in Int /\ strays \in Nat /\ q \in Int /\ t \in Nat
  BY CountTypes, SMTT(30), ZenonT(30) DEF Queued, Leftover
<1>3. Queued' = q /\ Leftover' = b
  BY DEF Queued, Leftover, openVars
<1>4. o <= strays + b + q /\ x <= t - strays
  BY DEF OutstandingBound
<1>5. Outstanding' = o + x
  OBVIOUS
<1> HIDE DEF b, o, q, t
<1>6. o + x <= t + b + q
  BY <1>1, <1>2, <1>4
<1>7. QED
  BY <1>3, <1>5, <1>6 DEF OutstandingBound, t

\* Data is not counted.
LEMMA WriterOutstanding ==
  ASSUME TypeOK, OutstandingBound, NEW d \in DataDlcs, Writer(d)
  PROVE  OutstandingBound'
<1> DEFINE e == Tx!Data(d, Tx!chunk(d))
<1>1. /\ UNCHANGED <<openVars, toHost, ctrl, sending, toModem, strays>>
      /\ requests' = requests \/ requests' = Append(requests, e)
  BY DEF Writer, Tx!Write, Tx!SendChunk, modemVars
<1>2. e \in TxReq /\ e.kind = "Data"
  BY ChunkType DEF Tx!Data
<1>3. requests \in Seq(TxReq) /\ CountIn(requests, {"Sabm"}) \in Nat
  BY CountTypes DEF TypeOK
<1> HIDE DEF e
<1>4. CountIn(Append(requests, e), {"Sabm"}) = CountIn(requests, {"Sabm"})
  BY <1>2, <1>3, CountInAppend
<1>5. Outstanding' = Outstanding + 0
  <2>1. Outstanding' = Outstanding
    BY <1>1, <1>4 DEF Outstanding
  <2>2. Outstanding \in Nat
    BY CountTypes DEF Outstanding
  <2>3. QED
    BY <2>1, <2>2
<1>6. strays' = strays /\ strays \in Nat
  BY <1>1, CountTypes
<1>7. QED
  BY <1>1, <1>5, <1>6, FlowOutstanding

LEMMA ReaderOutstanding ==
  ASSUME TypeOK, OutstandingBound, NEW d \in DataDlcs, Reader(d)
  PROVE  OutstandingBound'
<1>1. UNCHANGED <<openVars, requests, sending, toModem, toHost, ctrl, strays>>
  BY DEF Reader, Rx!ReadPipe, txVars, modemVars
<1>2. QED
  BY <1>1 DEF OutstandingBound, Outstanding, Queued, Leftover, openVars

\* tx_task moves a SABM from place to place or loses it.
LEMMA TxOutstanding ==
  ASSUME TypeOK, OutstandingBound, TxStep \/ TransmitFails
  PROVE  OutstandingBound'
<1> DEFINE r == CountIn(requests, {"Sabm"})
           s == CountIn(sending, {"Sabm"})
           m == CountIn(toModem, {"Sabm"})
           r1 == CountIn(requests', {"Sabm"})
           s1 == CountIn(sending', {"Sabm"})
           m1 == CountIn(toModem', {"Sabm"})
<1>1. UNCHANGED <<openVars, toHost, ctrl, strays>>
  BY DEF TxStep, TransmitFails, modemVars
<1>2. /\ requests \in Seq(TxReq) /\ sending \in Seq(Frame) /\ toModem \in Seq(Frame)
      /\ strays \in Nat /\ strays' \in Nat
  BY <1>1, CountTypes DEF TypeOK
<1>3. r \in Nat /\ s \in Nat /\ m \in Nat
  BY CountTypes
<1>4. /\ r1 \in Nat /\ s1 \in Nat /\ m1 \in Nat /\ r1 + s1 + m1 <= r + s + m
  <2>1. CASE Tx!TakeRequest
    <3> DEFINE q == Head(requests)
               f == Tx!ToFrame(q)
    <3>1. /\ requests # <<>> /\ requests' = Tail(requests) /\ toModem' = toModem
          /\ sending = <<>> /\ sending' = <<f>>
      BY <2>1 DEF Tx!TakeRequest
    <3>2. r = r1 + (IF q.kind \in {"Sabm"} THEN 1 ELSE 0)
      BY <1>2, <3>1, CountInTail
    <3>3. r1 \in Nat
      <4>1. Tail(requests) \in Seq(TxReq)
        BY <1>2, <3>1, TailType
      <4>2. QED
        BY <3>1, <4>1, CountInType
    <3>4. q \in TxReq
      BY <1>2, <3>1, TailType
    <3>5. f \in Frame /\ (f.kind = "Sabm" => q.kind = "Sabm")
      BY <3>4, ToFrameType
    <3> HIDE DEF f, q
    <3>6. s = 0 /\ s1 = 0 + (IF f.kind \in {"Sabm"} THEN 1 ELSE 0)
      <4>1. <<>> \in Seq(Frame) /\ <<f>> = Append(<<>>, f)
        OBVIOUS
      <4>2. CountIn(<<f>>, {"Sabm"})
              = CountIn(<<>>, {"Sabm"}) + (IF f.kind \in {"Sabm"} THEN 1 ELSE 0)
        <5>1. f \in Frame /\ <<>> \in Seq(Frame)
          BY <3>5
        <5>2. CountIn(Append(<<>>, f), {"Sabm"})
                = CountIn(<<>>, {"Sabm"}) + (IF f.kind \in {"Sabm"} THEN 1 ELSE 0)
          BY <5>1, CountInAppend, SMTT(30), ZenonT(30)
        <5>3. QED
          BY <4>1, <5>2
      <4>3. CountIn(<<>>, {"Sabm"}) = 0
        BY CountInEmpty
      <4>4. QED
        BY <3>1, <4>2, <4>3
    <3>7. m1 = m
      BY <3>1
    <3> HIDE DEF r, s, m, r1, s1, m1
    <3>8. QED
      BY <1>3, <3>2, <3>3, <3>5, <3>6, <3>7
  <2>2. CASE Tx!Transmit
    <3> DEFINE f == Head(sending)
    <3>1. /\ sending # <<>> /\ sending' = <<>> /\ requests' = requests
          /\ toModem' = Append(toModem, f)
      BY <2>2 DEF Tx!Transmit
    <3>2. f \in Frame /\ Tail(sending) \in Seq(Frame)
      BY <1>2, <3>1, TailType
    <3>3. s = CountIn(Tail(sending), {"Sabm"}) + (IF f.kind \in {"Sabm"} THEN 1 ELSE 0)
      BY <1>2, <3>1, CountInTail
    <3>4. CountIn(Tail(sending), {"Sabm"}) \in Nat
      BY <3>2, CountInType
    <3> HIDE DEF f
    <3>5. m1 = m + (IF f.kind \in {"Sabm"} THEN 1 ELSE 0)
      BY <1>2, <3>1, <3>2, CountInAppend
    <3>6. s1 = 0 /\ r1 = r
      BY <3>1, CountInEmpty
    <3> HIDE DEF r, s, m, r1, s1, m1
    <3>7. QED
      BY <1>3, <3>3, <3>4, <3>5, <3>6
  <2>3. CASE TransmitFails
    <3>1. sending' = <<>> /\ UNCHANGED <<requests, toModem>>
      BY <2>3 DEF TransmitFails, Tx!TransmitFails
    <3>2. s1 = 0 /\ r1 = r /\ m1 = m
      BY <3>1, CountInEmpty
    <3> HIDE DEF r, s, m, r1, s1, m1
    <3>3. QED
      BY <1>3, <3>2
  <2>4. QED
    BY <2>1, <2>2, <2>3 DEF TxStep
<1>5. /\ Outstanding = r + s + m + CountIn(toHost, ControlKinds) + Len(ctrl)
      /\ Outstanding' = r1 + s1 + m1 + CountIn(toHost, ControlKinds) + Len(ctrl)
  BY <1>1 DEF Outstanding
<1>6. CountIn(toHost, ControlKinds) \in Nat /\ Len(ctrl) \in Nat
  BY CountTypes
<1> DEFINE x == (r1 + s1 + m1) - (r + s + m)
<1> HIDE DEF r, s, m, r1, s1, m1
<1>7. x \in Int /\ x <= 0 /\ Outstanding' = Outstanding + x
  <2>1. x \in Int /\ x <= 0
    BY <1>3, <1>4
  <2>2. Outstanding' = Outstanding + x
    BY <1>3, <1>4, <1>5, <1>6
  <2>3. QED
    BY <2>1, <2>2
<1> HIDE DEF x
<1>8. x <= strays' - strays
  BY <1>1, <1>2, <1>7
<1>9. QED
  BY <1>1, <1>2, <1>7, <1>8, FlowOutstanding
\* A step that moves frames between the line and the control queue.
LEMMA LineOutstanding ==
  \A m, h, c, t \in Nat :
    /\ TypeOK /\ OutstandingBound /\ UNCHANGED <<openVars, requests, sending>>
    /\ m = CountIn(toModem', {"Sabm"}) /\ h = CountIn(toHost', ControlKinds)
    /\ c = Len(ctrl') /\ t = strays'
    /\ m + h + c - t <= CountIn(toModem, {"Sabm"}) + CountIn(toHost, ControlKinds)
                        + Len(ctrl) - strays
    => OutstandingBound'
<1> TAKE m, h, c, t \in Nat
<1> DEFINE r == CountIn(requests, {"Sabm"})
           s == CountIn(sending, {"Sabm"})
           m0 == CountIn(toModem, {"Sabm"})
           h0 == CountIn(toHost, ControlKinds)
           c0 == Len(ctrl)
           t0 == strays
           x == (m + h + c) - (m0 + h0 + c0)
<1>1. SUFFICES
        ASSUME TypeOK, OutstandingBound, UNCHANGED <<openVars, requests, sending>>,
               m = CountIn(toModem', {"Sabm"}), h = CountIn(toHost', ControlKinds),
               c = Len(ctrl'), t = strays', m + h + c - t <= m0 + h0 + c0 - t0
        PROVE  OutstandingBound'
  OBVIOUS
<1>2. r \in Nat /\ s \in Nat /\ m0 \in Nat /\ h0 \in Nat /\ c0 \in Nat /\ t0 \in Nat
  BY <1>1, CountTypes
<1>3. Outstanding = r + s + m0 + h0 + c0 /\ Outstanding' = r + s + m + h + c
  BY <1>1 DEF Outstanding
<1>4. m + h + c - t <= m0 + h0 + c0 - t0
  BY <1>1
<1> HIDE DEF r, s, m0, h0, c0, t0
<1>5. x \in Int /\ x <= t - t0 /\ r + s + m + h + c = (r + s + m0 + h0 + c0) + x
  BY <1>2, <1>4
<1> HIDE DEF x
<1>6. QED
  BY <1>1, <1>3, <1>5, FlowOutstanding DEF openVars, t0

\* The dispatcher turns an answer on the line into at most one event.
LEMMA RxOutstanding ==
  ASSUME TypeOK, OutstandingBound, RxStep
  PROVE  OutstandingBound'
<1> DEFINE m == CountIn(toModem, {"Sabm"})
           h == CountIn(toHost, ControlKinds)
           c == Len(ctrl)
           h1 == CountIn(toHost', ControlKinds)
           c1 == Len(ctrl')
<1>1. UNCHANGED <<openVars, requests, sending, toModem, strays>>
  BY DEF RxStep, txVars, modemVars
<1>2. m \in Nat /\ h \in Nat /\ c \in Nat /\ strays \in Nat
  BY CountTypes
<1>3. toHost \in Seq(Frame) /\ ctrl \in Seq(ControlEvt)
  BY DEF TypeOK
<1>4. h1 \in Nat /\ c1 \in Nat /\ h1 + c1 <= h + c
  <2>1. CASE toHost # <<>> /\ toHost' = Tail(toHost) /\ ctrl' = ctrl
    <3>1. h1 \in Nat /\ h1 <= h /\ c1 = c
      BY <1>3, <2>1, TailCount
    <3> HIDE DEF h, h1, c, c1
    <3>2. QED
      BY <1>2, <3>1
  <2>2. CASE Rx!Emit
    <3>1. toHost # <<>> /\ toHost' = Tail(toHost) /\ Head(toHost).kind \in ControlKinds
      BY <2>2 DEF Rx!Emit, Rx!TakeFrame, Rx!ControlKinds, ControlKinds
    <3>2. h1 \in Nat /\ h = h1 + 1
      BY <1>3, <3>1, TailCount
    <3>3. c1 = c \/ c1 = c + 1
      <4>1. PICK e : ctrl' = ctrl \/ ctrl' = Append(ctrl, e)
        BY <2>2 DEF Rx!Emit, Rx!emit
      <4>2. QED
        BY <1>3, <4>1
    <3> HIDE DEF h, h1, c, c1
    <3>4. QED
      BY <1>2, <3>2, <3>3
  <2>3. CASE Rx!WritePipe
    <3>1. toHost' = toHost /\ ctrl' = ctrl
      BY <2>3 DEF Rx!WritePipe
    <3>2. h1 = h /\ c1 = c
      BY <3>1
    <3> HIDE DEF h, h1, c, c1
    <3>3. QED
      BY <1>2, <3>2
  <2>4. QED
    BY <2>1, <2>2, <2>3 DEF RxStep, Rx!ToPipe, Rx!Ignore, Rx!TakeFrame
<1>5. m = CountIn(toModem', {"Sabm"}) /\ strays = strays'
  BY <1>1
<1> HIDE DEF m, h, c, h1, c1
<1>6. m + h1 + c1 - strays <= m + h + c - strays
  BY <1>2, <1>4
<1>7. QED
  BY <1>1, <1>2, <1>4, <1>5, <1>6, LineOutstanding DEF m, h, c, h1, c1

LEMMA LoseOutstanding ==
  ASSUME TypeOK, OutstandingBound, LoseToModem \/ LoseToHost
  PROVE  OutstandingBound'
<1> DEFINE m == CountIn(toModem, {"Sabm"})
           h == CountIn(toHost, ControlKinds)
           c == Len(ctrl)
           m1 == CountIn(toModem', {"Sabm"})
           h1 == CountIn(toHost', ControlKinds)
<1>1. UNCHANGED <<openVars, requests, sending, ctrl, strays>>
  BY DEF LoseToModem, LoseToHost, txVars, modemVars
<1>2. m \in Nat /\ h \in Nat /\ c \in Nat /\ strays \in Nat
  BY CountTypes
<1>3. toModem \in Seq(Frame) /\ toHost \in Seq(Frame)
  BY DEF TypeOK
<1>4. m1 \in Nat /\ h1 \in Nat /\ m1 + h1 <= m + h
  <2>1. CASE LoseToModem
    <3>1. m1 \in Nat /\ m1 <= m /\ h1 = h
      BY <1>3, <2>1, TailCount DEF LoseToModem
    <3> HIDE DEF m, h, m1, h1
    <3>2. QED
      BY <1>2, <3>1
  <2>2. CASE LoseToHost
    <3>1. h1 \in Nat /\ h1 <= h /\ m1 = m
      BY <1>3, <2>2, TailCount DEF LoseToHost
    <3> HIDE DEF m, h, m1, h1
    <3>2. QED
      BY <1>2, <3>1
  <2>3. QED
    BY <2>1, <2>2
<1>5. c = Len(ctrl') /\ strays = strays'
  BY <1>1
<1> HIDE DEF m, h, c, m1, h1
<1>6. m1 + h1 + c - strays <= m + h + c - strays
  BY <1>2, <1>4
<1>7. QED
  BY <1>1, <1>2, <1>4, <1>5, <1>6, LineOutstanding DEF m, h, c, m1, h1
\* The modem turns a SABM into one answer; what it sends unasked is counted.
LEMMA ModemOutstanding ==
  ASSUME TypeOK, OutstandingBound, ModemAnswer \/ ModemRefuse \/ ModemSend
  PROVE  OutstandingBound'
<1> DEFINE m == CountIn(toModem, {"Sabm"})
           h == CountIn(toHost, ControlKinds)
           c == Len(ctrl)
           t == strays
           m1 == CountIn(toModem', {"Sabm"})
           h1 == CountIn(toHost', ControlKinds)
           t1 == strays'
<1>1. UNCHANGED <<openVars, requests, sending, ctrl>>
  BY DEF ModemAnswer, ModemRefuse, ModemSend, txVars
<1>2. m \in Nat /\ h \in Nat /\ c \in Nat /\ t \in Nat
  BY CountTypes
<1>3. toModem \in Seq(Frame) /\ toHost \in Seq(Frame)
  BY DEF TypeOK
<1> DEFINE Flow == m1 \in Nat /\ h1 \in Nat /\ t1 \in Nat /\ m1 + h1 - t1 <= m + h - t
<1>4. Flow
  <2>1. ASSUME NEW f \in Frame, Modem!Answer(f) PROVE  Flow
    <3>1. /\ toModem # <<>> /\ Head(toModem).kind = "Sabm" /\ toModem' = Tail(toModem)
          /\ toHost' = Append(toHost, f) /\ strays' = strays
      BY <2>1 DEF Modem!Answer
    <3>2. m1 \in Nat /\ m = m1 + 1
      BY <1>3, <3>1, TailCount
    <3>3. h1 \in Nat /\ h1 <= h + 1
      BY <1>3, <2>1, <3>1, AppendCount
    <3>4. t1 = t
      BY <3>1
    <3> HIDE DEF m, h, t, m1, h1, t1
    <3>5. QED
      BY <1>2, <3>2, <3>3, <3>4
  <2>2. \A d \in Dlcs : Modem!Ua(d) \in Frame /\ Modem!Dm(d) \in Frame
    BY DEF Modem!Ua, Modem!Dm, Frame, FrameKind, Dlcs
  <2>3. CASE Modem!Accept
    BY <2>1, <2>2, <2>3 DEF Modem!Accept, Modem!Dlcs, Dlcs
  <2>4. CASE Modem!Refuse
    BY <2>1, <2>2, <2>4 DEF Modem!Refuse, Modem!Dlcs, Dlcs
  <2>5. CASE Modem!TakeData
    <3>1. /\ toModem # <<>> /\ toModem' = Tail(toModem)
          /\ toHost' = toHost /\ strays' = strays
      BY <2>5 DEF Modem!TakeData
    <3>2. m1 \in Nat /\ m1 <= m
      BY <1>3, <3>1, TailCount
    <3>3. h1 = h /\ t1 = t
      BY <3>1
    <3> HIDE DEF m, h, t, m1, h1, t1
    <3>4. QED
      BY <1>2, <3>2, <3>3
  <2>6. ASSUME NEW d \in DataDlcs, NEW n \in 1 .. MaxRxBytes - sent[1] - sent[2],
               Modem!SendData(d, n)
        PROVE  Flow
    <3> DEFINE f == Modem!Uih(d, Modem!BytesAfter(sent[d], n))
    <3>1. /\ toHost' = Append(toHost, f) /\ toModem' = toModem /\ strays' = strays
      BY <2>6 DEF Modem!SendData
    <3>2. f \in Frame /\ f.kind = "Uih"
      <4>1. sent[d] \in Nat /\ n \in Nat
        BY RuntimeAssumption DEF TypeOK
      <4>2. Modem!BytesAfter(sent[d], n) \in Seq(Nat)
        BY <4>1, BytesAfterType DEF Modem!BytesAfter
      <4>3. QED
        BY <4>2 DEF Modem!Uih, Frame, FrameKind, DataDlcs
    <3> HIDE DEF f
    <3>3. h1 \in Nat /\ h1 = h
      BY <1>3, <3>1, <3>2, AppendCount DEF ControlKinds
    <3>4. m1 = m /\ t1 = t
      BY <3>1
    <3> HIDE DEF m, h, t, m1, h1, t1
    <3>5. QED
      BY <1>2, <3>3, <3>4
  <2>7. ASSUME NEW f \in Modem!Strays, Modem!SendStray(f) PROVE  Flow
    <3>1. toHost' = Append(toHost, f) /\ toModem' = toModem /\ strays' = strays + 1
      BY <2>7 DEF Modem!SendStray
    <3>2. h1 \in Nat /\ h1 <= h + 1
      BY <1>3, <3>1, StrayType, AppendCount
    <3>3. m1 = m /\ t1 = t + 1
      BY <3>1
    <3> HIDE DEF m, h, t, m1, h1, t1
    <3>4. QED
      BY <1>2, <3>2, <3>3
  <2>8. QED
    BY <2>3, <2>4, <2>5, <2>6, <2>7 DEF ModemAnswer, ModemRefuse, ModemSend
<1>5. c = Len(ctrl')
  BY <1>1
<1> HIDE DEF m, h, c, t, m1, h1, t1
<1>6. m1 + h1 + c - t1 <= m + h + c - t
  BY <1>2, <1>4
<1>7. QED
  BY <1>1, <1>2, <1>4, <1>5, <1>6, LineOutstanding DEF m, h, c, t, m1, h1, t1

LEMMA NextOutstanding ==
  ASSUME TypeOK, TypeOK', OrderInv, AnswersInTurn, OutstandingBound, Next
  PROVE  OutstandingBound'
  BY MainOutstanding, WriterOutstanding, ReaderOutstanding, TxOutstanding,
     RxOutstanding, ModemOutstanding, LoseOutstanding DEF Next
-----------------------------------------------------------------------------
(* Theorems.                                                               *)

\* The inductive invariant: typed, in order, and no more answers outstanding
\* than SABMs queued.
THEOREM RuntimeInvariant == Spec => []IInv
<1>1. IInv <=> TypeOK /\ OrderInv /\ OutstandingBound /\ AnswersInTurn
  BY DEF IInv, OrderInv, MainInv
<1>2. Init => IInv
  BY <1>1, InitType, InitOrder, InitOutstanding, InitTurn
<1>3. IInv /\ [Next]_vars => IInv'
  <2> SUFFICES ASSUME IInv, [Next]_vars PROVE IInv'
    OBVIOUS
  <2>1. CASE UNCHANGED vars
    BY <2>1
    DEF vars, openVars, txVars, rxVars, modemVars, IInv, TypeOK, AnswersAreTrue,
        SabmsInOrder, OpenedIsAccepted, RejectedIsRefused, OutstandingBound,
        Outstanding, Queued, Leftover, AnswersInTurn, Open!opened
  <2>2. CASE Next
    <3>1. TypeOK'
      BY <1>1, <2>2, NextType
    <3>2. OrderInv'
      BY <1>1, <2>2, NextOrder
    <3>3. OutstandingBound'
      BY <1>1, <2>2, <3>1, NextOutstanding
    <3>4. AnswersInTurn'
      BY <1>1, <2>2, NextTurn
    <3>5. QED
      BY <3>1, <3>2, <3>3, <3>4 DEF IInv, OrderInv, MainInv
  <2>3. QED
    BY <2>1, <2>2
<1>4. QED
  BY <1>2, <1>3, PTL DEF Spec

\* open_dlc() returns Ok only for a DLC the modem has accepted, for any number
\* of retries, queue depths and lost, late or stray frames.
THEOREM OpenedDlcsAreAccepted == Spec => []OpenedIsAccepted
<1>1. IInv => OpenedIsAccepted
  BY DEF IInv
<1>2. QED
  BY <1>1, RuntimeInvariant, PTL

\* A SABM for a DLC reaches the modem only when open_dlc() has returned Ok for
\* every lower DLC and the modem has accepted them all.
THEOREM DlcsAreAcceptedInOrder == Spec => []AcceptedInOrder
<1>1. IInv => AcceptedInOrder
  <2> SUFFICES ASSUME IInv, NEW d \in accepted, NEW e \in 0 .. d - 1
               PROVE  e \in Open!opened \cap accepted
    BY DEF AcceptedInOrder
  <2>1. d \in 0 .. 2 /\ dlci \in 0 .. 2 /\ d <= dlci
    BY DEF IInv, TypeOK, SabmsInOrder, Dlcs
  <2>2. e \in 0 .. dlci - 1 /\ e \in 0 .. 2
    BY <2>1
  <2>3. e \in Open!opened
    BY <2>2 DEF Open!opened, Open!Dlcs
  <2>4. QED
    BY <2>3 DEF IInv, OpenedIsAccepted
<1>2. QED
  BY <1>1, RuntimeInvariant, PTL

\* start() returns Rejected only for a DLC the modem has sent a DM for.
THEOREM RejectedDlcIsRefused == Spec => []RejectedIsRefused
<1>1. IInv => RejectedIsRefused
  BY DEF IInv
<1>2. QED
  BY <1>1, RuntimeInvariant, PTL

\* With a control queue as deep as ControlQueueAssumption asks (8 for three
\* retries and three stray frames), emit() never drops an answer.
THEOREM ControlQueueHasRoom == Spec => []RoomForControl
<1>1. IInv => RoomForControl
  <2> SUFFICES ASSUME IInv, toHost # <<>>, Head(toHost).kind \in ControlKinds
               PROVE  Len(ctrl) < CTRL_QUEUE_DEPTH
    BY DEF RoomForControl
  <2> DEFINE r == CountIn(requests, {"Sabm"})
             s == CountIn(sending, {"Sabm"})
             m == CountIn(toModem, {"Sabm"})
             h == CountIn(toHost, ControlKinds)
             n == CountIn(Tail(toHost), ControlKinds)
             c == Len(ctrl)
  <2>1. TypeOK
    BY DEF IInv
  <2>2. h = n + 1 /\ n \in Nat
    BY <2>1, TailCount DEF TypeOK
  <2>3. r \in Nat /\ s \in Nat /\ m \in Nat /\ c \in Nat
    BY <2>1, CountTypes
  <2>4. /\ strays \in Nat /\ strays <= MaxStrays /\ dlci \in 0 .. 2
        /\ attempt \in 0 .. SABM_RETRIES - 1
        /\ SABM_RETRIES \in Nat \ {0} /\ CTRL_QUEUE_DEPTH \in Nat /\ MaxStrays \in Nat
    BY <2>1, RuntimeAssumption DEF TypeOK, Dlcs
  <2>5. r + s + m + h + c <= strays + Leftover + Queued
    BY DEF IInv, OutstandingBound, Outstanding
  <2>6. Queued \in Int /\ Queued <= SABM_RETRIES
    BY <2>4 DEF Queued
  <2>7. Leftover \in Nat /\ Leftover <= SABM_RETRIES - 1
    BY <2>4 DEF Leftover
  <2> HIDE DEF r, s, m, h, n, c
  <2>8. c < 2 * SABM_RETRIES - 1 + MaxStrays
    BY <2>2, <2>3, <2>4, <2>5, <2>6, <2>7
  <2>9. c < CTRL_QUEUE_DEPTH
    BY <2>3, <2>4, <2>8, ControlQueueAssumption
  <2>10. QED
    BY <2>9 DEF c
<1>2. QED
  BY <1>1, RuntimeInvariant, PTL

-----------------------------------------------------------------------------
(***************************************************************************)
(* Each direction of each data DLC is a byte FIFO, for every size of the   *)
(* queues and pipes: the runtime implements DlcStream, step by step.       *)
(***************************************************************************)

-----------------------------------------------------------------------------
(* Only UIH frames carry bytes: what is answered, ignored or queued as an  *)
(* event costs a stream nothing.                                           *)

NoPayloadBut(k, s) == \A i \in DOMAIN s : s[i].kind # k => s[i].info = <<>>

\* Every frame but a UIH, and every request but a write, has no payload; tx_task
\* holds one frame at a time.
OnlyUihCarries ==
  /\ NoPayloadBut("Data", requests)
  /\ NoPayloadBut("Uih", sending) /\ NoPayloadBut("Uih", toModem)
  /\ NoPayloadBut("Uih", toHost)
  /\ Len(sending) <= 1

LEMMA Infos ==
  /\ \A e \in Frame : e.info \in Seq(Nat) /\ e.dlci \in 0 .. 63 /\ e.kind \in FrameKind
  /\ \A e \in TxReq : e.info \in Seq(Nat) /\ e.dlci \in 0 .. 63 /\ e.kind \in {"Data", "Sabm"}
  /\ Carries(Frame, Nat) /\ Carries(TxReq, Nat)
  BY DEF Frame, TxReq, Carries

LEMMA ByteCat ==
  \A a, b, c \in Seq(Nat) :
    Cat(a, Cat(b, c)) = Cat(Cat(a, b), c) /\ Cat(a, b) \in Seq(Nat)
  BY CatLaws

LEMMA HeadCarries ==
  ASSUME TypeOK, OnlyUihCarries
  PROVE  /\ requests # <<>> /\ Head(requests).kind # "Data" => Head(requests).info = <<>>
         /\ sending # <<>> /\ Head(sending).kind # "Uih" => Head(sending).info = <<>>
         /\ toModem # <<>> /\ Head(toModem).kind # "Uih" => Head(toModem).info = <<>>
         /\ toHost # <<>> /\ Head(toHost).kind # "Uih" => Head(toHost).info = <<>>
<1>1. /\ requests \in Seq(TxReq) /\ sending \in Seq(Frame)
      /\ toModem \in Seq(Frame) /\ toHost \in Seq(Frame)
  BY DEF TypeOK
<1>2. /\ requests # <<>> => 1 \in DOMAIN requests /\ Head(requests) = requests[1]
      /\ sending # <<>> => 1 \in DOMAIN sending /\ Head(sending) = sending[1]
      /\ toModem # <<>> => 1 \in DOMAIN toModem /\ Head(toModem) = toModem[1]
      /\ toHost # <<>> => 1 \in DOMAIN toHost /\ Head(toHost) = toHost[1]
  BY <1>1
<1>3. QED
  BY <1>2 DEF OnlyUihCarries, NoPayloadBut

-----------------------------------------------------------------------------
(* From the modem to the readers.                                          *)

RxFifo(d) == pipe[d] \o Payload(<<pending>> \o toHost, d)
RxStreamStep(d) == [RxStream(d)!Next]_(RxStream(d)!vars)

\* The fifo by its parts: what the pipe p, the payload f being written to it and
\* the frames s on the line hold for d.
RxWhole(p, f, s, d) == p \o Payload(<<f>> \o s, d)
RxParts(p, f, s, d) == Cat(p, Cat(Own(f, d), Payload(s, d)))

LEMMA RxFifoParts ==
  ASSUME NEW p \in Seq(Nat), NEW f \in Frame, NEW s \in Seq(Frame), NEW d
  PROVE  /\ RxWhole(p, f, s, d) = RxParts(p, f, s, d)
         /\ Own(f, d) \in Seq(Nat) /\ Payload(s, d) \in Seq(Nat)
<1> DEFINE q == <<f>>
<1>1. q \in Seq(Frame)
  OBVIOUS
<1>2. Carries(Frame, Nat)
  BY Infos
<1>3. Payload(q, d) = Own(f, d) /\ Own(f, d) \in Seq(Nat)
  BY <1>2, PayloadOne DEF Own, Carries
<1> HIDE DEF q
<1>4. Payload(q \o s, d) = Payload(q, d) \o Payload(s, d)
  BY <1>1, <1>2, PayloadConcat
<1>5. Payload(s, d) \in Seq(Nat)
  BY <1>2, PayloadType
<1>6. QED
  BY <1>3, <1>4, <1>5 DEF q, RxWhole, RxParts, Cat

LEMMA RxFifoIs ==
  ASSUME TypeOK, TypeOK', NEW d \in DataDlcs
  PROVE  /\ RxFifo(d) = Cat(pipe[d], Cat(Own(pending, d), Payload(toHost, d)))
         /\ RxFifo(d)' = Cat(pipe'[d], Cat(Own(pending', d), Payload(toHost', d)))
         /\ pipe[d] \in Seq(Nat) /\ Own(pending, d) \in Seq(Nat)
         /\ Payload(toHost, d) \in Seq(Nat)
         /\ pipe'[d] \in Seq(Nat) /\ Own(pending', d) \in Seq(Nat)
         /\ Payload(toHost', d) \in Seq(Nat)
<1>1. /\ pending \in Frame /\ toHost \in Seq(Frame) /\ pipe[d] \in Seq(Nat)
      /\ pending' \in Frame /\ toHost' \in Seq(Frame) /\ pipe'[d] \in Seq(Nat)
  BY DEF TypeOK
<1>2. /\ RxWhole(pipe[d], pending, toHost, d) = RxParts(pipe[d], pending, toHost, d)
      /\ Own(pending, d) \in Seq(Nat) /\ Payload(toHost, d) \in Seq(Nat)
  BY <1>1, RxFifoParts
<1>3. /\ RxWhole(pipe'[d], pending', toHost', d)
           = RxParts(pipe'[d], pending', toHost', d)
      /\ Own(pending', d) \in Seq(Nat) /\ Payload(toHost', d) \in Seq(Nat)
  BY <1>1, RxFifoParts
<1>4. QED
  BY <1>1, <1>2, <1>3 DEF RxFifo, RxWhole, RxParts

LEMMA RxSame ==
  ASSUME NEW d \in DataDlcs, sent'[d] = sent[d], lastRead'[d] = lastRead[d],
         RxFifo(d)' = RxFifo(d), faults' \in {faults, faults + 1}
  PROVE  RxStreamStep(d)
  BY DEF RxStreamStep, RxFifo, RxStream!Next, RxStream!Lose, RxStream!vars

LEMMA RxPut ==
  ASSUME NEW d \in DataDlcs, sent'[d] > sent[d], lastRead'[d] = lastRead[d],
         RxFifo(d)' = Cat(RxFifo(d), [i \in 1 .. sent'[d] - sent[d] |-> sent[d] + i]),
         faults' = faults
  PROVE  RxStreamStep(d)
  BY DEF RxStreamStep, RxFifo, RxStream!Next, RxStream!Put, Cat

LEMMA RxGot ==
  ASSUME NEW d \in DataDlcs, NEW a \in Seq(Nat), NEW c \in Seq(Nat), a # <<>>,
         RxFifo(d) = Cat(a, c), RxFifo(d)' = c,
         sent'[d] = sent[d], lastRead'[d] = a[Len(a)], faults' = faults
  PROVE  RxStreamStep(d)
<1>1. /\ Len(a) \in 1 .. Len(RxFifo(d)) /\ lastRead'[d] = RxFifo(d)[Len(a)]
      /\ RxFifo(d)' = SubSeq(RxFifo(d), Len(a) + 1, Len(RxFifo(d)))
  BY CutFront DEF Cat
<1>2. QED
  BY <1>1 DEF RxStreamStep, RxFifo, RxStream!Next, RxStream!Get

LEMMA RxLost ==
  ASSUME NEW d \in DataDlcs,
         NEW a \in Seq(Nat), NEW b \in Seq(Nat), NEW c \in Seq(Nat),
         RxFifo(d) = Cat(a, Cat(b, c)), RxFifo(d)' = Cat(a, c),
         sent'[d] = sent[d], lastRead'[d] = lastRead[d], faults' = faults + 1
  PROVE  RxStreamStep(d)
<1>1. CASE b = <<>>
  <2>1. Cat(a, Cat(b, c)) = Cat(a, c)
    BY <1>1, CatLaws
  <2>2. QED
    BY <2>1, RxSame
<1>2. CASE b # <<>>
  <2>1. CutRun(Cat(a, Cat(b, c)), Cat(a, c))
    BY <1>2, CutMiddle
  <2>2. CutRun(RxFifo(d), RxFifo(d)')
    BY <2>1, Zenon
  <2>3. QED
    BY <2>2 DEF CutRun, RxStreamStep, RxFifo, RxStream!Next, RxStream!Lose
<1>3. QED
  BY <1>1, <1>2

\* Taking a frame that carries nothing for d from the line.
LEMMA RxTaken ==
  ASSUME TypeOK, NEW d \in DataDlcs, toHost # <<>>, Own(Head(toHost), d) = <<>>
  PROVE  Payload(Tail(toHost), d) = Payload(toHost, d)
<1>1. toHost \in Seq(Frame) /\ Carries(Frame, Nat)
  BY Infos DEF TypeOK
<1>2. Payload(toHost, d) = Cat(Own(Head(toHost), d), Payload(Tail(toHost), d))
  BY <1>1, PayloadHead
<1>3. Tail(toHost) \in Seq(Frame)
  BY <1>1
<1>4. Payload(Tail(toHost), d) \in Seq(Nat)
  BY <1>1, <1>3, PayloadType
<1>5. QED
  BY <1>2, <1>4, CatLaws

LEMMA RxStepStreams ==
  ASSUME TypeOK, TypeOK', OnlyUihCarries, RxStep, faults' = faults, NEW d \in DataDlcs
  PROVE  RxStreamStep(d)
<1> DEFINE P == Payload(toHost, d)
<1>1. /\ RxFifo(d) = Cat(pipe[d], Cat(Own(pending, d), P))
      /\ RxFifo(d)' = Cat(pipe'[d], Cat(Own(pending', d), Payload(toHost', d)))
      /\ pipe[d] \in Seq(Nat) /\ Own(pending, d) \in Seq(Nat) /\ P \in Seq(Nat)
      /\ Own(pending', d) \in Seq(Nat) /\ Payload(toHost', d) \in Seq(Nat)
  BY RxFifoIs
<1>2. /\ toHost \in Seq(Frame) /\ pending \in Frame /\ pending.dlci \in DataDlcs
      /\ pipe \in [DataDlcs -> Seq(Nat)] /\ pending.info \in Seq(Nat)
      /\ Carries(Frame, Nat)
  BY Infos DEF TypeOK
<1>3. sent'[d] = sent[d]
  BY DEF RxStep, modemVars
<1>4. CASE Rx!ToPipe
  <2>1. /\ pending.info = <<>> /\ toHost # <<>> /\ pending' = Head(toHost)
        /\ toHost' = Tail(toHost) /\ pipe' = pipe /\ lastRead' = lastRead
    BY <1>4 DEF Rx!ToPipe, Rx!TakeFrame, Rx!Idle
  <2>2. P = Cat(Own(Head(toHost), d), Payload(Tail(toHost), d))
    BY <1>2, <2>1, PayloadHead
  <2>3. Own(pending, d) = <<>>
    BY <2>1 DEF Own
  <2>4. Own(pending', d) \in Seq(Nat) /\ Cat(<<>>, P) = P
    BY <1>1, CatLaws
  <2>5. RxFifo(d)' = RxFifo(d)
    BY <1>1, <2>1, <2>2, <2>3, <2>4
  <2>6. QED
    BY <1>3, <2>1, <2>5, RxSame
<1>5. CASE Rx!Ignore \/ Rx!Emit
  <2>1. /\ toHost # <<>> /\ toHost' = Tail(toHost)
        /\ pending' = pending /\ pipe' = pipe /\ lastRead' = lastRead
        /\ \/ Head(toHost).kind # "Uih"
           \/ Head(toHost).dlci \notin DataDlcs
    BY <1>5
    DEF Rx!Ignore, Rx!Emit, Rx!TakeFrame, Rx!DataDlcs, DataDlcs, Rx!ControlKinds
  <2>2. Own(Head(toHost), d) = <<>>
    BY <2>1, HeadCarries DEF Own
  <2>3. Payload(toHost', d) = P
    BY <2>1, <2>2, RxTaken
  <2>4. QED
    BY <1>1, <1>3, <2>1, <2>3, RxSame
<1>6. CASE Rx!WritePipe
  <2> DEFINE b == pending.info
             n == Len(b)
             room == PIPE_BYTES(pending.dlci) - Len(pipe[pending.dlci])
             k == IF n < room THEN n ELSE room
             u == SubSeq(b, 1, k)
             v == SubSeq(b, k + 1, n)
  <2>1. n \in Nat /\ PIPE_BYTES(pending.dlci) \in Nat /\ Len(pipe[pending.dlci]) \in Nat
    BY <1>2, RuntimeAssumption DEF PIPE_BYTES
  <2>2. room > 0
    BY <1>6 DEF Rx!WritePipe, Rx!PIPE_BYTES, PIPE_BYTES
  <2>3. k \in 0 .. n
    BY <2>1, <2>2
  <2>4. /\ pipe' = [pipe EXCEPT ![pending.dlci] = @ \o u]
        /\ pending' = [pending EXCEPT !.info = v]
        /\ toHost' = toHost /\ lastRead' = lastRead
    BY <1>6 DEF Rx!WritePipe, Rx!leftover, Rx!PIPE_BYTES, PIPE_BYTES
  <2> HIDE DEF k
  <2>5. u \in Seq(Nat) /\ v \in Seq(Nat) /\ Cat(u, v) = b
    BY <1>2, <2>3, CutBack DEF Cat
  <2> HIDE DEF u, v
  <2>6. CASE pending.dlci = d
    <3>1. pipe'[d] = Cat(pipe[d], u) /\ Own(pending, d) = b /\ Own(pending', d) = v
      BY <1>2, <2>4, <2>6 DEF Own, Frame, Cat
    <3>2. Cat(Cat(pipe[d], u), Cat(v, P)) = Cat(pipe[d], Cat(Cat(u, v), P))
      <4>1. pipe[d] \in Seq(Nat) /\ u \in Seq(Nat) /\ v \in Seq(Nat) /\ P \in Seq(Nat)
        BY <1>1, <2>5
      <4>2. QED
        BY <4>1, CatFour
    <3>3. RxFifo(d)' = RxFifo(d)
      BY <1>1, <2>4, <2>5, <3>1, <3>2
    <3>4. QED
      BY <1>3, <2>4, <3>3, RxSame
  <2>7. CASE pending.dlci # d
    <3>1. pipe'[d] = pipe[d] /\ Own(pending, d) = <<>> /\ Own(pending', d) = <<>>
      BY <1>2, <2>4, <2>7 DEF Own, Frame
    <3>2. QED
      BY <1>1, <1>3, <2>4, <3>1, RxSame
  <2>8. QED
    BY <2>6, <2>7
<1>7. QED
  BY <1>4, <1>5, <1>6 DEF RxStep

\* Putting a frame that carries nothing for d on the line.
LEMMA RxAdded ==
  ASSUME TypeOK, NEW f \in Frame, NEW d \in DataDlcs
  PROVE  Payload(Append(toHost, f), d) = Cat(Payload(toHost, d), Own(f, d))
<1>1. toHost \in Seq(Frame) /\ Carries(Frame, Nat)
  BY Infos DEF TypeOK
<1>2. QED
  BY <1>1, PayloadAppend

\* A frame without payload is answered, or sent unasked.
LEMMA RxQuietFrame ==
  ASSUME TypeOK, TypeOK', NEW d \in DataDlcs, NEW f \in Frame, f.info = <<>>,
         toHost' = Append(toHost, f),
         UNCHANGED <<pipe, pending, lastRead, sent, faults>>
  PROVE  RxStreamStep(d)
<1>1. Own(f, d) = <<>>
  BY DEF Own
<1>2. Payload(toHost', d) = Cat(Payload(toHost, d), <<>>) /\ Payload(toHost, d) \in Seq(Nat)
  BY <1>1, RxAdded, RxFifoIs
<1>3. Payload(toHost', d) = Payload(toHost, d)
  BY <1>2, CatLaws
<1>4. QED
  BY <1>3, RxFifoIs, RxSame

LEMMA ModemStreams ==
  ASSUME TypeOK, TypeOK', ModemAnswer \/ ModemRefuse \/ ModemSend,
         faults' = faults, NEW d \in DataDlcs
  PROVE  RxStreamStep(d)
<1>1. UNCHANGED <<pipe, pending, lastRead>>
  BY DEF ModemAnswer, ModemRefuse, ModemSend, rxVars
<1>2. ASSUME NEW e \in Dlcs,
             Modem!Answer(Modem!Ua(e)) \/ Modem!Answer(Modem!Dm(e))
      PROVE  RxStreamStep(d)
  <2>1. /\ Modem!Ua(e) \in Frame /\ Modem!Ua(e).info = <<>>
        /\ Modem!Dm(e) \in Frame /\ Modem!Dm(e).info = <<>>
    BY DEF Modem!Ua, Modem!Dm, Frame, FrameKind, Dlcs
  <2>2. /\ \/ toHost' = Append(toHost, Modem!Ua(e))
           \/ toHost' = Append(toHost, Modem!Dm(e))
        /\ sent' = sent
    BY <1>2 DEF Modem!Answer
  <2>3. QED
    BY <1>1, <2>1, <2>2, RxQuietFrame
<1>3. CASE Modem!TakeData
  BY <1>1, <1>3, RxSame DEF Modem!TakeData, RxFifo
<1>4. ASSUME NEW f \in Modem!Strays, Modem!SendStray(f)
      PROVE  RxStreamStep(d)
  <2>1. f.info = <<>>
    BY DEF Modem!Strays, Modem!Uih
  <2>2. f \in Frame
    BY StrayType
  <2>3. toHost' = Append(toHost, f) /\ sent' = sent
    BY <1>4 DEF Modem!SendStray
  <2>4. QED
    BY <1>1, <2>1, <2>2, <2>3, RxQuietFrame
<1>5. ASSUME NEW e \in DataDlcs, NEW n \in Nat \ {0}, Modem!SendData(e, n)
      PROVE  RxStreamStep(d)
  <2> DEFINE b == [i \in 1 .. n |-> sent[e] + i]
             f == Modem!Uih(e, b)
  <2>1. sent \in [DataDlcs -> Nat]
    BY DEF TypeOK
  <2>2. b \in Seq(Nat)
    BY <2>1, BytesAfterType
  <2>3. toHost' = Append(toHost, f) /\ sent' = [sent EXCEPT ![e] = @ + n]
    BY <1>5 DEF Modem!SendData, Modem!BytesAfter
  <2>4. f \in Frame /\ f.dlci = e /\ f.info = b
    BY <2>2 DEF Modem!Uih, Frame, FrameKind, DataDlcs
  <2> HIDE DEF f
  <2>5. Payload(toHost', d) = Cat(Payload(toHost, d), Own(f, d))
    BY <2>3, <2>4, RxAdded
  <2>6. CASE e = d
    <3>1. sent'[d] = sent[d] + n /\ sent'[d] > sent[d] /\ sent'[d] - sent[d] = n
      BY <2>1, <2>3, <2>6
    <3>2. Own(f, d) = b /\ b = [i \in 1 .. sent'[d] - sent[d] |-> sent[d] + i]
      BY <2>4, <2>6, <3>1 DEF Own
    <3> HIDE DEF b
    <3>3. RxFifo(d)' = Cat(pipe[d], Cat(Own(pending, d), Cat(Payload(toHost, d), b)))
      BY <1>1, <2>5, <3>2, RxFifoIs
    <3>4. Cat(pipe[d], Cat(Own(pending, d), Cat(Payload(toHost, d), b)))
            = Cat(Cat(pipe[d], Cat(Own(pending, d), Payload(toHost, d))), b)
      <4>1. /\ pipe[d] \in Seq(Nat) /\ Own(pending, d) \in Seq(Nat)
            /\ Payload(toHost, d) \in Seq(Nat) /\ b \in Seq(Nat)
        BY <2>2, RxFifoIs
      <4>2. QED
        BY <4>1, CatFour
    <3>5. RxFifo(d)' = Cat(RxFifo(d), b)
      BY <3>3, <3>4, RxFifoIs
    <3>6. QED
      BY <1>1, <3>1, <3>2, <3>5, RxPut
  <2>7. CASE e # d
    <3>1. sent'[d] = sent[d] /\ Own(f, d) = <<>>
      BY <2>1, <2>3, <2>4, <2>7 DEF Own
    <3>2. Payload(toHost', d) = Payload(toHost, d)
      BY <2>5, <3>1, RxFifoIs, CatLaws
    <3>3. QED
      BY <1>1, <3>1, <3>2, RxFifoIs, RxSame
  <2>8. QED
    BY <2>6, <2>7
<1>6. CASE ModemAnswer
  BY <1>2, <1>3, <1>6 DEF ModemAnswer, Modem!Accept, Modem!Dlcs, Dlcs
<1>7. CASE ModemRefuse
  BY <1>2, <1>7 DEF ModemRefuse, Modem!Refuse, Modem!Dlcs, Dlcs
<1>8. CASE ModemSend
  <2>1. CASE \E f \in Modem!Strays : Modem!SendStray(f)
    BY <1>4, <2>1
  <2>2. CASE \E e \in DataDlcs : \E n \in 1 .. MaxRxBytes - sent[1] - sent[2] :
               Modem!SendData(e, n)
    <3>1. MaxRxBytes \in Nat /\ sent[1] \in Nat /\ sent[2] \in Nat
      BY RuntimeAssumption DEF TypeOK, DataDlcs
    <3>2. 1 .. MaxRxBytes - sent[1] - sent[2] \subseteq Nat \ {0}
      BY <3>1
    <3>3. QED
      BY <1>5, <2>2, <3>2
  <2>3. QED
    BY <1>8, <2>1, <2>2 DEF ModemSend
<1>9. QED
  BY <1>6, <1>7, <1>8

LEMMA ReaderStreams ==
  ASSUME TypeOK, TypeOK', NEW e \in DataDlcs, Reader(e), faults' = faults,
         NEW d \in DataDlcs
  PROVE  RxStreamStep(d)
<1>1. PICK k \in 1 .. Len(pipe[e]) : Rx!ReadPipe(e, k)
  BY DEF Reader
<1>2. /\ lastRead' = [lastRead EXCEPT ![e] = pipe[e][k]]
      /\ pipe' = [pipe EXCEPT ![e] = SubSeq(@, k + 1, Len(@))]
      /\ UNCHANGED <<toHost, pending, sent>>
  BY <1>1 DEF Rx!ReadPipe, Reader, modemVars
<1>3. pipe \in [DataDlcs -> Seq(Nat)] /\ lastRead \in [DataDlcs -> Nat]
  BY DEF TypeOK
<1>4. CASE e = d
  <2> DEFINE u == SubSeq(pipe[d], 1, k)
             v == SubSeq(pipe[d], k + 1, Len(pipe[d]))
             r == Cat(Own(pending, d), Payload(toHost, d))
  <2>1. u \in Seq(Nat) /\ v \in Seq(Nat) /\ Cat(u, v) = pipe[d] /\ Len(u) = k
    BY <1>3, <1>4, CutBack DEF Cat
  <2>2. u[k] = pipe[d][k] /\ k # 0
    BY <1>3, <1>4
  <2>3. r \in Seq(Nat) /\ RxFifo(d) = Cat(pipe[d], r)
    BY RxFifoIs, CatLaws
  <2>4. pipe'[d] = v /\ lastRead'[d] = pipe[d][k]
    BY <1>2, <1>3, <1>4
  <2>5. RxFifo(d)' = Cat(v, r)
    BY <1>2, <2>4, RxFifoIs
  <2> HIDE DEF u, v, r
  <2>6. Cat(Cat(u, v), r) = Cat(u, Cat(v, r)) /\ Cat(v, r) \in Seq(Nat)
    BY <2>1, <2>3, ByteCat
  <2>7. RxFifo(d) = Cat(u, Cat(v, r))
    BY <2>1, <2>3, <2>6
  <2>8. u # <<>> /\ lastRead'[d] = u[Len(u)]
    BY <2>1, <2>2, <2>4
  <2>9. QED
    BY <1>2, <2>1, <2>5, <2>6, <2>7, <2>8, RxGot
<1>5. CASE e # d
  <2>1. pipe'[d] = pipe[d] /\ lastRead'[d] = lastRead[d]
    BY <1>2, <1>3, <1>5
  <2>2. QED
    BY <1>2, <2>1, RxFifoIs, RxSame
<1>6. QED
  BY <1>4, <1>5

LEMMA LoseToHostStreams ==
  ASSUME TypeOK, TypeOK', LoseToHost, faults' = faults + 1, NEW d \in DataDlcs
  PROVE  RxStreamStep(d)
<1> DEFINE b == Own(Head(toHost), d)
           c == Payload(Tail(toHost), d)
           a == Cat(pipe[d], Own(pending, d))
<1>1. /\ toHost # <<>> /\ toHost' = Tail(toHost)
      /\ UNCHANGED <<pipe, pending, lastRead, sent>>
  BY DEF LoseToHost, rxVars, modemVars
<1>2. toHost \in Seq(Frame) /\ Carries(Frame, Nat)
  BY Infos DEF TypeOK
<1>3. Payload(toHost, d) = Cat(b, c)
  BY <1>1, <1>2, PayloadHead
<1>4. b \in Seq(Nat)
  <2>1. Head(toHost) \in Frame
    BY <1>1, <1>2
  <2>2. QED
    BY <1>2, <2>1 DEF Own, Carries
<1>5. c \in Seq(Nat) /\ pipe[d] \in Seq(Nat) /\ Own(pending, d) \in Seq(Nat)
  BY <1>1, RxFifoIs
<1> HIDE DEF b
<1>6. RxFifo(d) = Cat(pipe[d], Cat(Own(pending, d), Cat(b, c)))
  BY <1>3, RxFifoIs
<1>7. RxFifo(d)' = Cat(pipe[d], Cat(Own(pending, d), c))
  BY <1>1, RxFifoIs
<1> HIDE DEF c
<1>8. a \in Seq(Nat) /\ RxFifo(d) = Cat(a, Cat(b, c)) /\ RxFifo(d)' = Cat(a, c)
  <2>1. a \in Seq(Nat)
    BY <1>5, CatLaws
  <2>2. Cat(pipe[d], Cat(Own(pending, d), Cat(b, c))) = Cat(a, Cat(b, c))
    BY <1>4, <1>5, CatFour
  <2>3. Cat(pipe[d], Cat(Own(pending, d), c)) = Cat(a, c)
    BY <1>5, ByteCat DEF a
  <2>4. QED
    BY <1>6, <1>7, <2>1, <2>2, <2>3
<1> HIDE DEF a
<1>9. QED
  BY <1>1, <1>4, <1>5, <1>8, RxLost

\* What leaves both ends of the RX direction alone.
LEMMA RxElsewhere ==
  ASSUME UNCHANGED <<sent, lastRead, pipe, pending, toHost>>,
         faults' \in {faults, faults + 1}, NEW d \in DataDlcs
  PROVE  RxStreamStep(d)
  BY RxSame DEF RxFifo

LEMMA RxNext ==
  ASSUME TypeOK, TypeOK', OnlyUihCarries, [MCNext]_mcVars, NEW d \in DataDlcs
  PROVE  RxStreamStep(d)
<1>1. CASE MCMain
  BY <1>1, RxElsewhere DEF MCMain, Quiet, MainStep, Timeout, rxVars, modemVars
<1>2. CASE MCTx
  BY <1>2, RxElsewhere DEF MCTx, Quiet, TxStep, rxVars, modemVars
<1>3. CASE MCRx
  BY <1>3, RxStepStreams DEF MCRx
<1>4. CASE MCAnswer \/ MCModem
  BY <1>4, ModemStreams DEF MCAnswer, MCModem, Quiet
<1>5. ASSUME NEW e \in DataDlcs, MCUser(e) PROVE RxStreamStep(d)
  <2>1. CASE Writer(e)
    BY <1>5, <2>1, RxElsewhere DEF MCUser, Quiet, Writer, rxVars, modemVars
  <2>2. CASE Reader(e)
    BY <1>5, <2>2, ReaderStreams DEF MCUser, Quiet
  <2>3. QED
    BY <1>5, <2>1, <2>2 DEF MCUser
<1>6. CASE Fault
  <2>1. faults' = faults + 1
    BY <1>6 DEF Fault
  <2>2. CASE Timeout \/ LoseToModem \/ TransmitFails
    BY <2>1, <2>2, RxElsewhere
    DEF Timeout, LoseToModem, TransmitFails, rxVars, modemVars
  <2>3. CASE LoseToHost
    BY <2>1, <2>3, LoseToHostStreams
  <2>4. QED
    BY <1>6, <2>2, <2>3 DEF Fault
<1>7. CASE UNCHANGED mcVars
  BY <1>7, RxElsewhere DEF mcVars, vars, rxVars, modemVars
<1>8. QED
  BY <1>1, <1>2, <1>3, <1>4, <1>5, <1>6, <1>7 DEF MCNext

-----------------------------------------------------------------------------
(* From the writers to the modem.                                          *)

TxFifo(d) == Payload(toModem \o sending \o requests, d) \o writing[d]
TxStreamStep(d) == [TxStream(d)!Next]_(TxStream(d)!vars)

\* The fifo by its parts: frames m on the line, the frame f being sent, requests
\* r, and what write() has yet to queue.
TxWhole(m, f, r, w, d) == Payload(m \o f \o r, d) \o w
TxParts(m, f, r, w, d) ==
  Cat(Payload(m, d), Cat(Payload(f, d), Cat(Payload(r, d), w)))

LEMMA TxFifoParts ==
  ASSUME NEW m \in Seq(Frame), NEW f \in Seq(Frame), NEW r \in Seq(TxReq),
         NEW w \in Seq(Nat), NEW d
  PROVE  /\ TxWhole(m, f, r, w, d) = TxParts(m, f, r, w, d)
         /\ Payload(m, d) \in Seq(Nat) /\ Payload(f, d) \in Seq(Nat)
         /\ Payload(r, d) \in Seq(Nat)
<1> DEFINE T == Frame \cup TxReq
           mf == Cat(m, f)
           M == Payload(m, d)
           F == Payload(f, d)
           R == Payload(r, d)
<1>1. Carries(T, Nat)
  BY Infos DEF Carries
<1>2. m \in Seq(T) /\ f \in Seq(T) /\ r \in Seq(T)
  OBVIOUS
<1>3. mf \in Seq(T)
  BY <1>2 DEF Cat
<1> HIDE DEF T
<1>4. M \in Seq(Nat) /\ F \in Seq(Nat) /\ R \in Seq(Nat)
  BY <1>1, <1>2, PayloadType
<1>5. Payload(mf, d) = Cat(M, F)
  BY <1>1, <1>2, PayloadCat
<1> HIDE DEF mf
<1>6. Payload(Cat(mf, r), d) = Cat(Payload(mf, d), R)
  BY <1>1, <1>2, <1>3, PayloadCat
<1>7. TxWhole(m, f, r, w, d) = Cat(Cat(Cat(M, F), R), w)
  BY <1>5, <1>6 DEF TxWhole, mf, Cat
<1> HIDE DEF M, F, R
<1>8. Cat(Cat(Cat(M, F), R), w) = Cat(M, Cat(F, Cat(R, w)))
  <2>1. Cat(M, F) \in Seq(Nat) /\ Cat(R, w) \in Seq(Nat)
    BY <1>4, CatLaws
  <2>2. Cat(Cat(Cat(M, F), R), w) = Cat(Cat(M, F), Cat(R, w))
    BY <1>4, <2>1, CatLaws
  <2>3. QED
    BY <1>4, <2>1, <2>2, CatLaws
<1>9. QED
  BY <1>4, <1>7, <1>8 DEF TxParts, M, F, R

LEMMA TxFifoIs ==
  ASSUME TypeOK, TypeOK', NEW d \in DataDlcs
  PROVE  /\ TxFifo(d) = Cat(Payload(toModem, d), Cat(Payload(sending, d),
                            Cat(Payload(requests, d), writing[d])))
         /\ TxFifo(d)' = Cat(Payload(toModem', d), Cat(Payload(sending', d),
                             Cat(Payload(requests', d), writing'[d])))
         /\ Payload(toModem, d) \in Seq(Nat) /\ Payload(sending, d) \in Seq(Nat)
         /\ Payload(requests, d) \in Seq(Nat) /\ writing[d] \in Seq(Nat)
         /\ Payload(toModem', d) \in Seq(Nat) /\ Payload(sending', d) \in Seq(Nat)
         /\ Payload(requests', d) \in Seq(Nat) /\ writing'[d] \in Seq(Nat)
<1>1. /\ toModem \in Seq(Frame) /\ sending \in Seq(Frame) /\ requests \in Seq(TxReq)
      /\ writing[d] \in Seq(Nat)
      /\ toModem' \in Seq(Frame) /\ sending' \in Seq(Frame) /\ requests' \in Seq(TxReq)
      /\ writing'[d] \in Seq(Nat)
  BY DEF TypeOK
<1>2. /\ TxWhole(toModem, sending, requests, writing[d], d)
           = TxParts(toModem, sending, requests, writing[d], d)
      /\ Payload(toModem, d) \in Seq(Nat) /\ Payload(sending, d) \in Seq(Nat)
      /\ Payload(requests, d) \in Seq(Nat)
  BY <1>1, TxFifoParts
<1>3. /\ TxWhole(toModem', sending', requests', writing'[d], d)
           = TxParts(toModem', sending', requests', writing'[d], d)
      /\ Payload(toModem', d) \in Seq(Nat) /\ Payload(sending', d) \in Seq(Nat)
      /\ Payload(requests', d) \in Seq(Nat)
  BY <1>1, TxFifoParts
<1>4. QED
  BY <1>1, <1>2, <1>3 DEF TxFifo, TxWhole, TxParts

LEMMA TxSame ==
  ASSUME NEW d \in DataDlcs, written'[d] = written[d], got'[d] = got[d],
         TxFifo(d)' = TxFifo(d), faults' \in {faults, faults + 1}
  PROVE  TxStreamStep(d)
  BY DEF TxStreamStep, TxFifo, TxStream!Next, TxStream!Lose, TxStream!vars

LEMMA TxPut ==
  ASSUME NEW d \in DataDlcs, written'[d] > written[d], got'[d] = got[d],
         TxFifo(d)'
           = Cat(TxFifo(d), [i \in 1 .. written'[d] - written[d] |-> written[d] + i]),
         faults' = faults
  PROVE  TxStreamStep(d)
  BY DEF TxStreamStep, TxFifo, TxStream!Next, TxStream!Put, Cat

LEMMA TxGot ==
  ASSUME NEW d \in DataDlcs, NEW a \in Seq(Nat), NEW c \in Seq(Nat), a # <<>>,
         TxFifo(d) = Cat(a, c), TxFifo(d)' = c,
         written'[d] = written[d], got'[d] = a[Len(a)], faults' = faults
  PROVE  TxStreamStep(d)
<1>1. /\ Len(a) \in 1 .. Len(TxFifo(d)) /\ got'[d] = TxFifo(d)[Len(a)]
      /\ TxFifo(d)' = SubSeq(TxFifo(d), Len(a) + 1, Len(TxFifo(d)))
  BY CutFront DEF Cat
<1>2. QED
  BY <1>1 DEF TxStreamStep, TxFifo, TxStream!Next, TxStream!Get

LEMMA TxLost ==
  ASSUME NEW d \in DataDlcs,
         NEW a \in Seq(Nat), NEW b \in Seq(Nat), NEW c \in Seq(Nat),
         TxFifo(d) = Cat(a, Cat(b, c)), TxFifo(d)' = Cat(a, c),
         written'[d] = written[d], got'[d] = got[d], faults' = faults + 1
  PROVE  TxStreamStep(d)
<1>1. CASE b = <<>>
  <2>1. Cat(a, Cat(b, c)) = Cat(a, c)
    BY <1>1, CatLaws
  <2>2. QED
    BY <2>1, TxSame
<1>2. CASE b # <<>>
  <2>1. CutRun(Cat(a, Cat(b, c)), Cat(a, c))
    BY <1>2, CutMiddle
  <2>2. CutRun(TxFifo(d), TxFifo(d)')
    BY <2>1, Zenon
  <2>3. QED
    BY <2>2 DEF CutRun, TxStreamStep, TxFifo, TxStream!Next, TxStream!Lose
<1>3. QED
  BY <1>1, <1>2

LEMMA TxElsewhere ==
  ASSUME UNCHANGED <<written, got, toModem, sending, requests, writing>>,
         faults' \in {faults, faults + 1}, NEW d \in DataDlcs
  PROVE  TxStreamStep(d)
  BY TxSame DEF TxFifo

LEMMA MainTxStreams ==
  ASSUME TypeOK, TypeOK', MainStep \/ Timeout, faults' \in {faults, faults + 1},
         NEW d \in DataDlcs
  PROVE  TxStreamStep(d)
<1>1. requests \in Seq(TxReq) /\ dlci \in Dlcs
  BY DEF TypeOK
<1>2. UNCHANGED <<written, got, toModem, sending, writing>>
  BY DEF MainStep, Timeout, txVars, modemVars
<1>3. \/ requests' = requests
      \/ \E e \in Dlcs : requests' = Append(requests, Open!Sabm(e))
  <2>1. CASE Begins
    BY <2>1 DEF Begins, Open!BeginAttempt
  <2>2. CASE Open!SendSabm
    BY <1>1, <2>2 DEF Open!SendSabm
  <2>3. CASE Returns
    BY <2>3 DEF Returns
  <2>4. QED
    BY <2>1, <2>2, <2>3, MainEffect
<1>4. ASSUME NEW e \in Dlcs, requests' = Append(requests, Open!Sabm(e))
      PROVE  TxStreamStep(d)
  <2> DEFINE q == Open!Sabm(e)
  <2>1. q \in TxReq /\ Own(q, d) = <<>>
    BY DEF Open!Sabm, TxReq, Dlcs, Own
  <2> HIDE DEF q
  <2>2. Carries(TxReq, Nat)
    BY Infos
  <2>3. Payload(Append(requests, q), d) = Cat(Payload(requests, d), Own(q, d))
    BY <1>1, <2>1, <2>2, PayloadAppend
  <2>4. Payload(requests', d) = Payload(requests, d)
    BY <1>4, <2>1, <2>3, TxFifoIs, CatLaws DEF q
  <2>5. QED
    BY <1>2, <2>4, TxFifoIs, TxSame
<1>5. QED
  BY <1>2, <1>3, <1>4, TxElsewhere

LEMMA WriterTxStreams ==
  ASSUME TypeOK, TypeOK', NEW e \in DataDlcs, Writer(e), faults' = faults,
         NEW d \in DataDlcs
  PROVE  TxStreamStep(d)
<1> DEFINE M == Payload(toModem, d)
           S == Payload(sending, d)
           R == Payload(requests, d)
<1>1. /\ requests \in Seq(TxReq) /\ writing \in [DataDlcs -> Seq(Nat)]
      /\ written \in [DataDlcs -> Nat] /\ MAX_INFO_LEN \in Nat \ {0}
  BY RuntimeAssumption DEF TypeOK
<1>2. UNCHANGED <<got, toModem, sending>>
  BY DEF Writer, modemVars, Tx!Write, Tx!SendChunk
<1>3. /\ TxFifo(d) = Cat(M, Cat(S, Cat(R, writing[d])))
      /\ TxFifo(d)' = Cat(M, Cat(S, Cat(Payload(requests', d), writing'[d])))
      /\ M \in Seq(Nat) /\ S \in Seq(Nat) /\ R \in Seq(Nat)
      /\ writing[d] \in Seq(Nat)
  BY <1>2, TxFifoIs
<1>4. ASSUME NEW n \in Nat \ {0}, Tx!Write(e, n) PROVE TxStreamStep(d)
  <2> DEFINE b == [i \in 1 .. n |-> written[e] + i]
  <2>1. /\ writing[e] = <<>> /\ requests' = requests
        /\ writing' = [writing EXCEPT ![e] = b]
        /\ written' = [written EXCEPT ![e] = @ + n]
    BY <1>4 DEF Tx!Write, Tx!BytesAfter
  <2>2. b \in Seq(Nat)
    BY <1>1, BytesAfterType
  <2>3. CASE e = d
    <3>1. /\ writing[d] = <<>> /\ writing'[d] = b
          /\ written'[d] > written[d] /\ written'[d] - written[d] = n
      BY <1>1, <2>1, <2>3
    <3>2. b = [i \in 1 .. written'[d] - written[d] |-> written[d] + i]
      BY <2>3, <3>1
    <3> HIDE DEF b, M, S, R
    <3>3. TxFifo(d) = Cat(M, Cat(S, R)) /\ TxFifo(d)' = Cat(M, Cat(S, Cat(R, b)))
      <4>1. Cat(R, <<>>) = R
        BY <1>3, CatLaws
      <4>2. QED
        BY <1>3, <2>1, <3>1, <4>1 DEF R
    <3>4. Cat(M, Cat(S, Cat(R, b))) = Cat(Cat(M, Cat(S, R)), b)
      BY <1>3, <2>2, CatFour
    <3>5. TxFifo(d)' = Cat(TxFifo(d), b)
      BY <3>3, <3>4
    <3>6. QED
      BY <1>2, <3>1, <3>2, <3>5, TxPut
  <2>4. CASE e # d
    <3>1. writing'[d] = writing[d] /\ written'[d] = written[d]
      BY <1>1, <2>1, <2>4
    <3>2. QED
      BY <1>2, <1>3, <2>1, <3>1, TxSame
  <2>5. QED
    BY <2>3, <2>4
<1>5. CASE Tx!SendChunk(e)
  <2> DEFINE u == Tx!chunk(e)
             q == Tx!Data(e, u)
             v == Tx!rest(e)
  <2>1. /\ requests' = Append(requests, q)
        /\ writing' = [writing EXCEPT ![e] = v] /\ written' = written
    BY <1>5 DEF Tx!SendChunk
  <2>2. u \in Seq(Nat) /\ v \in Seq(Nat) /\ Cat(u, v) = writing[e]
    <3> DEFINE w == writing[e]
               k == IF Len(w) < MAX_INFO_LEN THEN Len(w) ELSE MAX_INFO_LEN
    <3>1. w \in Seq(Nat) /\ k \in 0 .. Len(w) /\ u = SubSeq(w, 1, k)
      BY <1>1 DEF Tx!chunk
    <3> HIDE DEF k, w
    <3>2. /\ SubSeq(w, 1, k) \in Seq(Nat) /\ SubSeq(w, k + 1, Len(w)) \in Seq(Nat)
          /\ Cat(SubSeq(w, 1, k), SubSeq(w, k + 1, Len(w))) = w
          /\ Len(SubSeq(w, 1, k)) = k
      BY <3>1, CutBack DEF Cat
    <3>3. v = SubSeq(w, k + 1, Len(w))
      BY <3>1, <3>2 DEF Tx!rest, w
    <3>4. QED
      BY <3>1, <3>2, <3>3 DEF w
  <2>3. q \in TxReq /\ q.dlci = e /\ q.info = u
    BY ChunkType DEF Tx!Data
  <2> HIDE DEF u, v, q
  <2>4. Carries(TxReq, Nat)
    BY Infos
  <2>5. Payload(requests', d) = Cat(R, Own(q, d))
    BY <1>1, <2>1, <2>3, <2>4, PayloadAppend
  <2>6. CASE e = d
    <3>1. Own(q, d) = u /\ writing'[d] = v /\ writing[d] = Cat(u, v)
      BY <1>1, <2>1, <2>2, <2>3, <2>6 DEF Own
    <3> HIDE DEF M, S, R
    <3>2. Cat(Cat(R, u), v) = Cat(R, Cat(u, v))
      <4>1. R \in Seq(Nat) /\ u \in Seq(Nat) /\ v \in Seq(Nat)
        BY <1>3, <2>2
      <4>2. QED
        BY <4>1, CatLaws
    <3>3. TxFifo(d)' = TxFifo(d)
      BY <1>3, <2>5, <3>1, <3>2
    <3>4. QED
      BY <1>2, <2>1, <3>3, TxSame
  <2>7. CASE e # d
    <3>1. Own(q, d) = <<>> /\ writing'[d] = writing[d]
      BY <1>1, <2>1, <2>3, <2>7 DEF Own
    <3> HIDE DEF M, S, R
    <3>2. Cat(R, <<>>) = R
      BY <1>3, CatLaws
    <3>3. TxFifo(d)' = TxFifo(d)
      BY <1>3, <2>5, <3>1, <3>2
    <3>4. QED
      BY <1>2, <2>1, <3>3, TxSame
  <2>8. QED
    BY <2>6, <2>7
<1>6. CASE \E n \in 1 .. MaxTxBytes - written[1] - written[2] : Tx!Write(e, n)
  <2>1. MaxTxBytes \in Nat /\ written[1] \in Nat /\ written[2] \in Nat
    BY <1>1, RuntimeAssumption DEF DataDlcs
  <2>2. 1 .. MaxTxBytes - written[1] - written[2] \subseteq Nat \ {0}
    BY <2>1
  <2>3. QED
    BY <1>4, <1>6, <2>2
<1>7. QED
  BY <1>5, <1>6 DEF Writer

LEMMA TxTaskStreams ==
  ASSUME TypeOK, TypeOK', OnlyUihCarries, TxStep, faults' = faults, NEW d \in DataDlcs
  PROVE  TxStreamStep(d)
<1> DEFINE M == Payload(toModem, d)
           S == Payload(sending, d)
           R == Payload(requests, d)
           W == writing[d]
<1>1. requests \in Seq(TxReq) /\ sending \in Seq(Frame) /\ toModem \in Seq(Frame)
  BY DEF TypeOK
<1>2. /\ Carries(TxReq, Nat)
      /\ Carries(Frame, Nat)
  BY Infos
<1>3. UNCHANGED <<written, got, writing>>
  BY DEF TxStep, Tx!TakeRequest, Tx!Transmit, modemVars
<1>4. /\ TxFifo(d) = Cat(M, Cat(S, Cat(R, W)))
      /\ TxFifo(d)' = Cat(Payload(toModem', d), Cat(Payload(sending', d),
                          Cat(Payload(requests', d), W)))
      /\ M \in Seq(Nat) /\ S \in Seq(Nat) /\ R \in Seq(Nat) /\ W \in Seq(Nat)
      /\ Payload(requests', d) \in Seq(Nat) /\ Payload(sending', d) \in Seq(Nat)
  BY <1>3, TxFifoIs
<1>5. CASE Tx!TakeRequest
  <2> DEFINE h == Head(requests)
             f == Tx!ToFrame(h)
             Q == Payload(requests', d)
  <2>1. /\ requests # <<>> /\ requests' = Tail(requests) /\ sending' = <<f>>
        /\ sending = <<>> /\ toModem' = toModem
    BY <1>5 DEF Tx!TakeRequest
  <2>2. h \in TxReq /\ (h.kind # "Data" => h.info = <<>>)
    BY <1>1, <2>1, HeadCarries
  <2>3. f \in Frame /\ Own(f, d) = Own(h, d)
    <3>1. h.kind \in {"Data", "Sabm"}
      BY <2>2, Infos
    <3>2. f.dlci = h.dlci /\ f.info = h.info
      BY <2>2, <3>1 DEF Tx!ToFrame, Tx!Uih, Tx!Sabm
    <3>3. QED
      BY <2>2, <3>2, ToFrameType DEF Own
  <2> HIDE DEF f
  <2>4. Payload(sending', d) = Own(h, d)
    BY <1>2, <2>1, <2>3, PayloadOne DEF Carries
  <2>5. R = Cat(Own(h, d), Q)
    BY <1>1, <1>2, <2>1, PayloadHead
  <2>6. S = <<>>
    BY <2>1, PayloadEmpty
  <2> HIDE DEF h
  <2>7. Own(h, d) \in Seq(Nat) /\ Q \in Seq(Nat)
    BY <1>4, <2>4
  <2> HIDE DEF M, S, R, W, Q
  <2>8. /\ Cat(<<>>, Cat(R, W)) = Cat(R, W)
        /\ Cat(Cat(Own(h, d), Q), W) = Cat(Own(h, d), Cat(Q, W))
    <3>1. Cat(R, W) \in Seq(Nat)
      BY <1>4, CatLaws
    <3>2. QED
      BY <1>4, <2>7, <3>1, CatLaws
  <2>9. TxFifo(d)' = TxFifo(d)
    BY <1>4, <2>1, <2>4, <2>5, <2>6, <2>8 DEF M, Q
  <2>10. QED
    BY <1>3, <2>9, TxSame
<1>6. CASE Tx!Transmit
  <2> DEFINE f == Head(sending)
  <2>1. /\ sending # <<>> /\ sending' = <<>> /\ requests' = requests
        /\ toModem' = Append(toModem, f)
    BY <1>6 DEF Tx!Transmit
  <2>2. f \in Frame /\ sending = <<f>>
    <3>1. Len(sending) <= 1
      BY DEF OnlyUihCarries
    <3>2. QED
      BY <1>1, <2>1, <3>1, Singleton
  <2> HIDE DEF f
  <2>3. S = Own(f, d)
    BY <1>2, <2>2, PayloadOne DEF Carries
  <2>4. Payload(toModem', d) = Cat(M, Own(f, d))
    BY <1>1, <1>2, <2>1, <2>2, PayloadAppend
  <2>5. Payload(sending', d) = <<>>
    BY <2>1, PayloadEmpty
  <2> HIDE DEF M, S, R, W
  <2>6. Cat(Cat(M, S), Cat(<<>>, Cat(R, W))) = Cat(M, Cat(S, Cat(R, W)))
    <3>1. Cat(R, W) \in Seq(Nat)
      BY <1>4, CatLaws
    <3>2. QED
      BY <1>4, <3>1, CatLaws
  <2>7. TxFifo(d)' = TxFifo(d)
    BY <1>4, <2>1, <2>3, <2>4, <2>5, <2>6 DEF R
  <2>8. QED
    BY <1>3, <2>7, TxSame
<1>7. QED
  BY <1>5, <1>6 DEF TxStep

LEMMA TransmitFailsTxStreams ==
  ASSUME TypeOK, TypeOK', TransmitFails, faults' = faults + 1, NEW d \in DataDlcs
  PROVE  TxStreamStep(d)
<1> DEFINE M == Payload(toModem, d)
           S == Payload(sending, d)
           R == Payload(requests, d)
           c == Cat(R, writing[d])
<1>1. sending' = <<>> /\ UNCHANGED <<requests, toModem, writing, written, got>>
  BY DEF TransmitFails, Tx!TransmitFails, modemVars
<1>2. Payload(sending', d) = <<>>
  BY <1>1, PayloadEmpty
<1>3. /\ M \in Seq(Nat) /\ S \in Seq(Nat) /\ c \in Seq(Nat)
      /\ TxFifo(d) = Cat(M, Cat(S, c)) /\ TxFifo(d)' = Cat(M, Cat(<<>>, c))
  BY <1>1, <1>2, TxFifoIs, CatLaws
<1> HIDE DEF M, S, R, c
<1>4. Cat(<<>>, c) = c
  BY <1>3, CatLaws
<1>5. QED
  BY <1>1, <1>3, <1>4, TxLost

\* The modem takes the first frame off the line, or the line loses it.
LEMMA HeadTxStreams ==
  ASSUME TypeOK, TypeOK', OnlyUihCarries, NEW d \in DataDlcs,
         toModem # <<>>, toModem' = Tail(toModem),
         UNCHANGED <<requests, sending, writing, written>>,
         \/ UNCHANGED <<got, faults>> /\ Head(toModem).kind # "Uih"
         \/ UNCHANGED got /\ faults' = faults + 1
         \/ /\ faults' = faults
            /\ got' = [got EXCEPT ![Head(toModem).dlci] =
                         IF Head(toModem).info = <<>> THEN @
                         ELSE Head(toModem).info[Len(Head(toModem).info)]]
  PROVE  TxStreamStep(d)
<1> DEFINE h == Head(toModem)
           b == Own(h, d)
           Q == Payload(toModem', d)
           x == Cat(Payload(sending, d), Cat(Payload(requests, d), writing[d]))
           c == Cat(Q, x)
<1>1. toModem \in Seq(Frame) /\ Carries(Frame, Nat)
  BY Infos DEF TypeOK
<1>2. h \in Frame /\ (h.kind # "Uih" => h.info = <<>>)
  BY <1>1, HeadCarries
<1>3. Payload(toModem, d) = Cat(b, Q) /\ b \in Seq(Nat)
  BY <1>1, <1>2, PayloadHead DEF Own, Carries
<1>4. /\ x \in Seq(Nat) /\ Q \in Seq(Nat)
      /\ TxFifo(d) = Cat(Payload(toModem, d), x) /\ TxFifo(d)' = Cat(Q, x)
  BY TxFifoIs, CatLaws
<1> HIDE DEF x, Q, b
<1>5. c \in Seq(Nat) /\ TxFifo(d) = Cat(b, c) /\ TxFifo(d)' = c
  BY <1>3, <1>4, CatLaws
<1>6. Cat(<<>>, Cat(b, c)) = Cat(b, c) /\ Cat(<<>>, c) = c
  BY <1>3, <1>5, CatLaws
<1>7. CASE UNCHANGED got /\ faults' = faults + 1
  <2> HIDE DEF c
  <2>1. <<>> \in Seq(Nat) /\ TxFifo(d) = Cat(<<>>, Cat(b, c)) /\ TxFifo(d)' = Cat(<<>>, c)
    BY <1>5, <1>6
  <2>2. QED
    BY <1>3, <1>5, <1>7, <2>1, TxLost
<1>8. CASE b = <<>> /\ faults' = faults /\ got'[d] = got[d]
  <2>1. Cat(b, c) = c
    BY <1>5, <1>8, CatLaws
  <2>2. QED
    BY <1>5, <1>8, <2>1, TxSame
<1>9. CASE UNCHANGED <<got, faults>> /\ Head(toModem).kind # "Uih"
  <2>1. b = <<>>
    BY <1>2, <1>9 DEF b, Own
  <2>2. QED
    BY <1>8, <1>9, <2>1
<1>10. CASE /\ faults' = faults
            /\ got' = [got EXCEPT ![h.dlci] = IF h.info = <<>> THEN @
                                              ELSE h.info[Len(h.info)]]
  <2>1. got \in [DataDlcs -> Nat]
    BY DEF TypeOK
  <2>2. CASE h.dlci = d /\ h.info # <<>>
    <3>1. b = h.info /\ got'[d] = b[Len(b)]
      BY <1>10, <2>1, <2>2 DEF b, Own
    <3> HIDE DEF c
    <3>2. QED
      BY <1>3, <1>5, <1>10, <2>2, <3>1, TxGot
  <2>3. CASE ~(h.dlci = d /\ h.info # <<>>)
    <3>1. b = <<>> /\ got'[d] = got[d]
      BY <1>10, <2>1, <2>3 DEF b, Own
    <3>2. QED
      BY <1>8, <1>10, <3>1
  <2>4. QED
    BY <2>2, <2>3
<1>11. QED
  BY <1>7, <1>9, <1>10

LEMMA ModemTxStreams ==
  ASSUME TypeOK, TypeOK', OnlyUihCarries, ModemAnswer \/ ModemRefuse \/ ModemSend,
         faults' = faults, NEW d \in DataDlcs
  PROVE  TxStreamStep(d)
<1>1. UNCHANGED <<requests, sending, writing, written>>
  BY DEF ModemAnswer, ModemRefuse, ModemSend, txVars
<1>2. ASSUME NEW f, Modem!Answer(f) PROVE TxStreamStep(d)
  BY <1>1, <1>2, HeadTxStreams DEF Modem!Answer
<1>3. CASE Modem!TakeData
  BY <1>1, <1>3, HeadTxStreams DEF Modem!TakeData
<1>4. CASE ModemSend
  BY <1>1, <1>4, TxElsewhere DEF ModemSend, Modem!SendData, Modem!SendStray
<1>5. QED
  BY <1>2, <1>3, <1>4 DEF ModemAnswer, ModemRefuse, Modem!Accept, Modem!Refuse

LEMMA TxNext ==
  ASSUME TypeOK, TypeOK', OnlyUihCarries, [MCNext]_mcVars, NEW d \in DataDlcs
  PROVE  TxStreamStep(d)
<1>1. CASE MCMain
  BY <1>1, MainTxStreams DEF MCMain, Quiet
<1>2. CASE MCTx
  BY <1>2, TxTaskStreams DEF MCTx, Quiet
<1>3. CASE MCRx
  BY <1>3, TxElsewhere DEF MCRx, RxStep, txVars, modemVars
<1>4. CASE MCAnswer \/ MCModem
  BY <1>4, ModemTxStreams DEF MCAnswer, MCModem, Quiet
<1>5. ASSUME NEW e \in DataDlcs, MCUser(e) PROVE TxStreamStep(d)
  <2>1. CASE Writer(e)
    BY <1>5, <2>1, WriterTxStreams DEF MCUser, Quiet
  <2>2. CASE Reader(e)
    BY <1>5, <2>2, TxElsewhere DEF MCUser, Quiet, Reader, txVars, modemVars
  <2>3. QED
    BY <1>5, <2>1, <2>2 DEF MCUser
<1>6. CASE Fault
  <2>1. faults' = faults + 1
    BY <1>6 DEF Fault
  <2>2. CASE Timeout
    BY <2>1, <2>2, MainTxStreams
  <2>3. CASE LoseToModem
    BY <2>1, <2>3, HeadTxStreams DEF LoseToModem, txVars, modemVars
  <2>4. CASE LoseToHost
    BY <2>1, <2>4, TxElsewhere DEF LoseToHost, txVars, modemVars
  <2>5. CASE TransmitFails
    BY <2>1, <2>5, TransmitFailsTxStreams
  <2>6. QED
    BY <1>6, <2>2, <2>3, <2>4, <2>5 DEF Fault
<1>7. CASE UNCHANGED mcVars
  BY <1>7, TxElsewhere DEF mcVars, vars, txVars, modemVars
<1>8. QED
  BY <1>1, <1>2, <1>3, <1>4, <1>5, <1>6, <1>7 DEF MCNext

-----------------------------------------------------------------------------
(* OnlyUihCarries is an invariant.                                         *)

LEMMA CarryAppend ==
  ASSUME NEW T, NEW s \in Seq(T), NEW e \in T, NEW k, NoPayloadBut(k, s),
         e.kind # k => e.info = <<>>
  PROVE  NoPayloadBut(k, Append(s, e))
  BY AppendElements DEF NoPayloadBut

LEMMA CarryTail ==
  ASSUME NEW T, NEW s \in Seq(T), s # <<>>, NEW k, NoPayloadBut(k, s)
  PROVE  NoPayloadBut(k, Tail(s))
  BY TailElements DEF NoPayloadBut

LEMMA MainCarries ==
  ASSUME TypeOK, OnlyUihCarries, MainStep \/ Timeout
  PROVE  OnlyUihCarries'
<1>1. requests \in Seq(TxReq) /\ dlci \in Dlcs
  BY DEF TypeOK
<1>2. UNCHANGED <<sending, toModem, toHost>>
  BY DEF MainStep, Timeout, txVars
<1>3. ASSUME NEW d \in Dlcs, requests' = Append(requests, Open!Sabm(d))
      PROVE  NoPayloadBut("Data", requests')
  <2>1. Open!Sabm(d) \in TxReq /\ Open!Sabm(d).info = <<>>
    BY DEF Open!Sabm, TxReq, Dlcs
  <2>2. QED
    BY <1>1, <1>3, <2>1, CarryAppend DEF OnlyUihCarries
<1>4. requests' = requests => NoPayloadBut("Data", requests')
  BY DEF OnlyUihCarries
<1>5. \/ requests' = requests
      \/ \E d \in Dlcs : requests' = Append(requests, Open!Sabm(d))
  <2>1. CASE Begins
    BY <2>1 DEF Begins, Open!BeginAttempt
  <2>2. CASE Open!SendSabm
    BY <1>1, <2>2 DEF Open!SendSabm
  <2>3. CASE Returns
    BY <2>3 DEF Returns
  <2>4. QED
    BY <2>1, <2>2, <2>3, MainEffect
<1>6. NoPayloadBut("Data", requests')
  BY <1>3, <1>4, <1>5
<1>7. QED
  BY <1>2, <1>6 DEF OnlyUihCarries

LEMMA TxCarries ==
  ASSUME TypeOK, OnlyUihCarries, TxStep \/ TransmitFails
  PROVE  OnlyUihCarries'
<1>1. requests \in Seq(TxReq) /\ sending \in Seq(Frame) /\ toModem \in Seq(Frame)
  BY DEF TypeOK
<1>2. toHost' = toHost
  BY DEF TxStep, TransmitFails
<1>3. CASE Tx!TakeRequest
  <2> DEFINE f == Tx!ToFrame(Head(requests))
  <2>1. /\ requests # <<>> /\ requests' = Tail(requests) /\ sending' = <<f>>
        /\ toModem' = toModem
    BY <1>3 DEF Tx!TakeRequest
  <2>2. f.kind # "Uih" => f.info = <<>>
    BY DEF Tx!ToFrame, Tx!Uih, Tx!Sabm
  <2> HIDE DEF f
  <2>3. NoPayloadBut("Uih", sending') /\ Len(sending') <= 1
    BY <2>1, <2>2 DEF NoPayloadBut
  <2>4. NoPayloadBut("Data", requests')
    BY <1>1, <2>1, CarryTail DEF OnlyUihCarries
  <2>5. QED
    BY <1>2, <2>1, <2>3, <2>4 DEF OnlyUihCarries
<1>4. CASE Tx!Transmit
  <2>1. /\ sending # <<>> /\ sending' = <<>> /\ requests' = requests
        /\ toModem' = Append(toModem, Head(sending))
    BY <1>4 DEF Tx!Transmit
  <2>2. Head(sending) \in Frame
    BY <1>1, <2>1
  <2>3. NoPayloadBut("Uih", toModem')
    BY <1>1, <2>1, <2>2, HeadCarries, CarryAppend DEF OnlyUihCarries
  <2>4. NoPayloadBut("Uih", sending') /\ Len(sending') <= 1
    BY <2>1 DEF NoPayloadBut
  <2>5. QED
    BY <1>2, <2>1, <2>3, <2>4 DEF OnlyUihCarries
<1>5. CASE TransmitFails
  <2>1. sending' = <<>> /\ UNCHANGED <<requests, toModem>>
    BY <1>5 DEF TransmitFails, Tx!TransmitFails
  <2>2. NoPayloadBut("Uih", sending') /\ Len(sending') <= 1
    BY <2>1 DEF NoPayloadBut
  <2>3. QED
    BY <1>2, <2>1, <2>2 DEF OnlyUihCarries
<1>6. QED
  BY <1>3, <1>4, <1>5 DEF TxStep

LEMMA WriterCarries ==
  ASSUME TypeOK, OnlyUihCarries, NEW d \in DataDlcs, Writer(d)
  PROVE  OnlyUihCarries'
<1>1. requests \in Seq(TxReq)
  BY DEF TypeOK
<1>2. UNCHANGED <<sending, toModem, toHost>>
  BY DEF Writer, Tx!Write, Tx!SendChunk
<1>3. \/ requests' = requests
      \/ requests' = Append(requests, Tx!Data(d, Tx!chunk(d)))
  BY DEF Writer, Tx!Write, Tx!SendChunk
<1>4. Tx!Data(d, Tx!chunk(d)) \in TxReq /\ Tx!Data(d, Tx!chunk(d)).kind = "Data"
  BY ChunkType DEF Tx!Data
<1>5. NoPayloadBut("Data", requests')
  BY <1>1, <1>3, <1>4, CarryAppend DEF OnlyUihCarries
<1>6. QED
  BY <1>2, <1>5 DEF OnlyUihCarries

LEMMA LineCarries ==
  ASSUME TypeOK, OnlyUihCarries,
         \/ RxStep \/ \E d \in DataDlcs : Reader(d)
         \/ LoseToModem \/ LoseToHost
  PROVE  OnlyUihCarries'
<1>1. toHost \in Seq(Frame) /\ toModem \in Seq(Frame)
  BY DEF TypeOK
<1>2. UNCHANGED <<requests, sending>>
  BY DEF RxStep, Reader, LoseToModem, LoseToHost, txVars
<1>3. \/ toHost' = toHost
      \/ toHost # <<>> /\ toHost' = Tail(toHost)
  BY DEF RxStep, Reader, LoseToModem, LoseToHost, Rx!ToPipe, Rx!Ignore, Rx!Emit,
         Rx!TakeFrame, Rx!WritePipe, Rx!ReadPipe
<1>4. \/ toModem' = toModem
      \/ toModem # <<>> /\ toModem' = Tail(toModem)
  BY DEF RxStep, Reader, LoseToModem, LoseToHost
<1>5. NoPayloadBut("Uih", toHost') /\ NoPayloadBut("Uih", toModem')
  BY <1>1, <1>3, <1>4, CarryTail DEF OnlyUihCarries
<1>6. QED
  BY <1>2, <1>5 DEF OnlyUihCarries

LEMMA ModemCarries ==
  ASSUME TypeOK, OnlyUihCarries, ModemAnswer \/ ModemRefuse \/ ModemSend
  PROVE  OnlyUihCarries'
<1>1. toHost \in Seq(Frame) /\ toModem \in Seq(Frame)
  BY DEF TypeOK
<1>2. UNCHANGED <<requests, sending>>
  BY DEF ModemAnswer, ModemRefuse, ModemSend, txVars
<1>3. \/ toModem' = toModem
      \/ toModem # <<>> /\ toModem' = Tail(toModem)
  BY DEF ModemAnswer, ModemRefuse, ModemSend, Modem!Accept, Modem!Refuse, Modem!Answer,
         Modem!TakeData, Modem!SendData, Modem!SendStray
<1>4. NoPayloadBut("Uih", toModem')
  BY <1>1, <1>3, CarryTail DEF OnlyUihCarries
<1>5. ASSUME NEW f \in Frame, f.kind # "Uih" => f.info = <<>>, toHost' = Append(toHost, f)
      PROVE  NoPayloadBut("Uih", toHost')
  BY <1>1, <1>5, CarryAppend DEF OnlyUihCarries
<1>6. CASE Modem!TakeData
  BY <1>2, <1>4, <1>6 DEF Modem!TakeData, OnlyUihCarries
<1>7. ASSUME NEW e \in Dlcs, Modem!Answer(Modem!Ua(e)) \/ Modem!Answer(Modem!Dm(e))
      PROVE  NoPayloadBut("Uih", toHost')
  <2>1. /\ Modem!Ua(e) \in Frame /\ Modem!Ua(e).info = <<>>
        /\ Modem!Dm(e) \in Frame /\ Modem!Dm(e).info = <<>>
    BY DEF Modem!Ua, Modem!Dm, Frame, FrameKind, Dlcs
  <2>2. \/ toHost' = Append(toHost, Modem!Ua(e))
        \/ toHost' = Append(toHost, Modem!Dm(e))
    BY <1>7 DEF Modem!Answer
  <2>3. QED
    BY <1>5, <2>1, <2>2
<1>8. ASSUME NEW f \in Modem!Strays, Modem!SendStray(f)
      PROVE  NoPayloadBut("Uih", toHost')
  <2>1. f \in Frame
    BY StrayType
  <2>2. f.info = <<>>
    BY DEF Modem!Strays, Modem!Uih
  <2>3. QED
    BY <1>5, <1>8, <2>1, <2>2 DEF Modem!SendStray
<1>9. ASSUME NEW e \in DataDlcs, NEW n, Modem!SendData(e, n)
      PROVE  NoPayloadBut("Uih", toHost')
  <2> DEFINE f == Modem!Uih(e, Modem!BytesAfter(sent[e], n))
  <2>1. toHost' = Append(toHost, f)
    BY <1>9 DEF Modem!SendData
  <2>2. f.kind = "Uih"
    BY DEF Modem!Uih
  <2> HIDE DEF f
  <2>3. \A i \in DOMAIN toHost' : toHost'[i] = f \/ (i \in DOMAIN toHost /\ toHost'[i] = toHost[i])
    BY <1>1, <2>1
  <2>4. QED
    BY <2>2, <2>3 DEF OnlyUihCarries, NoPayloadBut
<1>10. CASE ModemAnswer
  BY <1>2, <1>4, <1>6, <1>7, <1>10
  DEF ModemAnswer, Modem!Accept, Modem!Dlcs, Dlcs, OnlyUihCarries
<1>11. CASE ModemRefuse
  BY <1>2, <1>4, <1>7, <1>11
  DEF ModemRefuse, Modem!Refuse, Modem!Dlcs, Dlcs, OnlyUihCarries
<1>12. CASE ModemSend
  BY <1>2, <1>4, <1>8, <1>9, <1>12 DEF ModemSend, OnlyUihCarries
<1>13. QED
  BY <1>10, <1>11, <1>12

LEMMA MCRefines ==
  /\ MCInit => Init
  /\ [MCNext]_mcVars => [Next]_vars
<1>1. MCInit => Init
  BY DEF MCInit
<1>2. ASSUME MCNext PROVE Next
  BY <1>2
  DEF MCNext, MCMain, MCTx, MCRx, MCAnswer, MCModem, MCUser, Fault, Next
<1>3. QED
  BY <1>1, <1>2 DEF mcVars

\* What both stream theorems rest on.
StreamInv == TypeOK /\ OnlyUihCarries

LEMMA StreamInvariant == MCSpec => []StreamInv
<1>1. MCInit => StreamInv
  <2> SUFFICES ASSUME MCInit PROVE StreamInv
    OBVIOUS
  <2>1. TypeOK
    BY MCRefines, InitType
  <2>2. requests = <<>> /\ sending = <<>> /\ toModem = <<>> /\ toHost = <<>>
    BY DEF MCInit, Init, Tx!Init, Rx!Init
  <2>3. OnlyUihCarries
    BY <2>2 DEF OnlyUihCarries, NoPayloadBut
  <2>4. QED
    BY <2>1, <2>3 DEF StreamInv
<1>2. StreamInv /\ [MCNext]_mcVars => StreamInv'
  <2> SUFFICES ASSUME TypeOK, OnlyUihCarries, [Next]_vars PROVE TypeOK' /\ OnlyUihCarries'
    BY MCRefines DEF StreamInv
  <2>1. CASE UNCHANGED vars
    BY <2>1 DEF vars, openVars, txVars, rxVars, modemVars, TypeOK, OnlyUihCarries
  <2>2. CASE Next
    <3>1. OnlyUihCarries'
      BY <2>2, MainCarries, TxCarries, WriterCarries, LineCarries, ModemCarries DEF Next
    <3>2. QED
      BY <2>2, <3>1, NextType
  <2>3. QED
    BY <2>1, <2>2
<1>3. QED
  BY <1>1, <1>2, PTL DEF MCSpec

\* Whatever the sizes of the pipes and queues, the bytes the modem sends on a
\* data DLC come out of read() in order and none twice, and each fault of the
\* line costs one frame of them at most: dispatcher, pipes and partial reads
\* implement DlcStream for each DLC, whatever happens on the other.
THEOREM RuntimeRxIsStream == MCSpec => RxIsStream
<1>1. MCInit => \A d \in DataDlcs : RxStream(d)!Init
  <2> SUFFICES ASSUME MCInit, NEW d \in DataDlcs PROVE RxStream(d)!Init
    OBVIOUS
  <2>1. /\ sent[d] = 0 /\ lastRead[d] = 0 /\ pipe[d] = <<>> /\ toHost = <<>>
        /\ pending = Rx!Uih(1, <<>>) /\ faults = 0
    BY DEF MCInit, Init, Rx!Init, Modem!Init, Rx!DataDlcs, Modem!DataDlcs, DataDlcs
  <2>2. <<pending>> \o toHost = <<pending>> /\ pending.info = <<>>
    BY <2>1 DEF Rx!Uih
  <2>3. Payload(<<pending>> \o toHost, d) = <<>>
    <3>1. pending.info \in Seq(Nat) /\ Own(pending, d) = <<>>
      BY <2>2 DEF Own
    <3>2. Payload(<<pending>>, d) = <<>>
      BY <3>1, PayloadOne
    <3>3. QED
      BY <2>2, <3>2, Zenon
  <2>4. QED
    BY <2>1, <2>3 DEF RxStream!Init
<1>2. StreamInv /\ StreamInv' /\ [MCNext]_mcVars
        => [\A d \in DataDlcs : [RxStream(d)!Next]_(RxStream(d)!vars)]_mcVars
  BY RxNext DEF StreamInv, RxStreamStep
<1>3. QED
  BY <1>1, <1>2, StreamInvariant, PTL DEF MCSpec, RxIsStream

\* In the other direction write()'s chunks, the shared queue and tx_task keep the
\* bytes of each data DLC in order, queue none twice and lose none but those of a
\* frame the line or a UART error takes, for every MAX_INFO_LEN and queue depth.
THEOREM RuntimeTxIsStream == MCSpec => TxIsStream
<1>1. MCInit => \A d \in DataDlcs : TxStream(d)!Init
  <2> SUFFICES ASSUME MCInit, NEW d \in DataDlcs PROVE TxStream(d)!Init
    OBVIOUS
  <2>1. /\ written[d] = 0 /\ got[d] = 0 /\ writing[d] = <<>> /\ faults = 0
        /\ toModem = <<>> /\ sending = <<>> /\ requests = <<>>
    BY DEF MCInit, Init, Tx!Init, Modem!Init, Tx!DataDlcs, Modem!DataDlcs, DataDlcs
  <2>2. toModem \o sending \o requests = <<>>
    BY <2>1
  <2>3. Payload(toModem \o sending \o requests, d) = <<>>
    BY <2>2, PayloadEmpty, Zenon
  <2>4. QED
    BY <2>1, <2>3 DEF TxStream!Init
<1>2. StreamInv /\ StreamInv' /\ [MCNext]_mcVars
        => [\A d \in DataDlcs : [TxStream(d)!Next]_(TxStream(d)!vars)]_mcVars
  BY TxNext DEF StreamInv, TxStreamStep
<1>3. QED
  BY <1>1, <1>2, StreamInvariant, PTL DEF MCSpec, TxIsStream

-----------------------------------------------------------------------------
(***************************************************************************)
(* OpensDespiteFaults for every SABM_RETRIES and any number of faults and  *)
(* strays.  An attempt is used up by a fault, or by an event that is not   *)
(* the awaited answer; such an event is a stray frame or the answer to an  *)
(* attempt that a fault used up before, and each is used only once.        *)
(***************************************************************************)

-----------------------------------------------------------------------------
(* Counting the elements of a queue by kind and DLCI.                      *)

Belongs(e, P) == <<e.kind, e.dlci>> \in P
Tally(s, P) == Cardinality({i \in 1 .. Len(s) : Belongs(s[i], P)})
Bit(b) == IF b THEN 1 ELSE 0

LEMMA TallyType ==
  ASSUME NEW T, NEW s \in Seq(T), NEW P
  PROVE  Tally(s, P) \in Nat
<1> DEFINE S == {i \in 1 .. Len(s) : Belongs(s[i], P)}
<1>1. IsFiniteSet(1 .. Len(s))
  BY FS_Interval
<1>2. IsFiniteSet(S)
  BY <1>1, FS_Subset
<1>3. QED
  BY <1>2, FS_CardinalityType DEF Tally

LEMMA TallyZero ==
  ASSUME NEW T, NEW s \in Seq(T), NEW P,
         \A i \in DOMAIN s : ~Belongs(s[i], P)
  PROVE  Tally(s, P) = 0
<1>1. {i \in 1 .. Len(s) : Belongs(s[i], P)} = {}
  OBVIOUS
<1>2. QED
  BY <1>1, FS_EmptySet DEF Tally

LEMMA TallyEmpty ==
  ASSUME NEW P
  PROVE  Tally(<<>>, P) = 0
<1>1. {i \in 1 .. Len(<<>>) : Belongs((<<>>)[i], P)} = {}
  OBVIOUS
<1>2. QED
  BY <1>1, FS_EmptySet DEF Tally

LEMMA TallyAppend ==
  ASSUME NEW T, NEW s \in Seq(T), NEW e \in T, NEW P
  PROVE  Tally(Append(s, e), P)
           = Tally(s, P) + Bit(Belongs(e, P))
<1> DEFINE S == {i \in 1 .. Len(s) : Belongs(s[i], P)}
           n == Len(s) + 1
           A == {i \in 1 .. Len(Append(s, e)) : Belongs(Append(s, e)[i], P)}
<1>1. IsFiniteSet(S)
  BY FS_Interval, FS_Subset
<1>2. n \notin S
  OBVIOUS
<1>3. A = IF Belongs(e, P) THEN S \cup {n} ELSE S
  OBVIOUS
<1>4. Cardinality(S \cup {n}) = Cardinality(S) + 1
  BY <1>1, <1>2, FS_AddElement
<1>5. Cardinality(S) \in Nat
  BY <1>1, FS_CardinalityType
<1>6. Tally(s, P) = Cardinality(S) /\ Tally(Append(s, e), P) = Cardinality(A)
  BY DEF Tally
<1> HIDE DEF S, n, A
<1>7. QED
  BY <1>3, <1>4, <1>5, <1>6 DEF Bit

LEMMA TallyTail ==
  ASSUME NEW T, NEW s \in Seq(T), s # <<>>, NEW P
  PROVE  Tally(s, P) = Tally(Tail(s), P)
                       + Bit(Belongs(Head(s), P))
<1> DEFINE S == {i \in 1 .. Len(s) : Belongs(s[i], P)}
           R == {i \in 1 .. Len(Tail(s)) : Belongs(Tail(s)[i], P)}
           M == {i \in S : i # 1}
           f == [i \in R |-> i + 1]
<1>1. Len(Tail(s)) = Len(s) - 1 /\ \A i \in 1 .. Len(s) - 1 : Tail(s)[i] = s[i + 1]
  OBVIOUS
<1>2. IsFiniteSet(S) /\ IsFiniteSet(R)
  BY FS_Interval, FS_Subset
<1>3. IsFiniteSet(M) /\ 1 \notin M
  BY <1>2, FS_Subset
<1>4. f \in Bijection(R, M)
  <2>1. f \in [R -> M] /\ \A a, b \in R : f[a] = f[b] => a = b
    BY <1>1
  <2>2. \A j \in M : j - 1 \in R /\ f[j - 1] = j
    BY <1>1
  <2>3. QED
    BY <2>1, <2>2, Fun_IsBij
<1>5. Cardinality(M) = Cardinality(R)
  BY <1>2, <1>4, FS_Bijection DEF ExistsBijection
<1>6. S = IF Belongs(Head(s), P) THEN M \cup {1} ELSE M
  OBVIOUS
<1>7. Cardinality(M \cup {1}) = Cardinality(M) + 1
  BY <1>3, FS_AddElement
<1>8. Cardinality(R) \in Nat
  BY <1>2, FS_CardinalityType
<1>9. Tally(s, P) = Cardinality(S) /\ Tally(Tail(s), P) = Cardinality(R)
  BY DEF Tally
<1> HIDE DEF S, R, M, f
<1>10. QED
  BY <1>5, <1>6, <1>7, <1>8, <1>9 DEF Bit

LEMMA TallySplit ==
  ASSUME NEW T, NEW s \in Seq(T), NEW P, NEW Q, P \cap Q = {}
  PROVE  Tally(s, P \cup Q) = Tally(s, P) + Tally(s, Q)
<1> DEFINE S == {i \in 1 .. Len(s) : Belongs(s[i], P)}
           R == {i \in 1 .. Len(s) : Belongs(s[i], Q)}
           U == {i \in 1 .. Len(s) : Belongs(s[i], P \cup Q)}
<1>1. IsFiniteSet(S) /\ IsFiniteSet(R)
  BY FS_Interval, FS_Subset
<1>2. U = S \cup R /\ S \cap R = {}
  BY DEF Belongs
<1>3. /\ Tally(s, P) = Cardinality(S) /\ Tally(s, Q) = Cardinality(R)
      /\ Tally(s, P \cup Q) = Cardinality(U)
  BY DEF Tally
<1>4. Cardinality(S) \in Nat /\ Cardinality(R) \in Nat
  BY <1>1, FS_CardinalityType
<1> HIDE DEF S, R, U
<1>5. Cardinality(S \cup R) = Cardinality(S) + Cardinality(R) - Cardinality(S \cap R)
  BY <1>1, FS_Union
<1>6. Cardinality(S \cap R) = 0
  BY <1>2, FS_EmptySet
<1>7. QED
  BY <1>2, <1>3, <1>4, <1>5, <1>6

-----------------------------------------------------------------------------
(* SABMs on their way to the modem and answers on their way back.          *)

Asks(D) == {"Sabm"} \X D
AnyAnswer == ControlKinds \X (0 .. 63)

\* SABMs for a DLC of D and answers in Q, in the five places they can be in.
Total(r, s, m, h, c, D, Q) ==
  Tally(r, Asks(D)) + Tally(s, Asks(D)) + Tally(m, Asks(D)) + Tally(h, Q) + Tally(c, Q)
Now(D, Q) == Total(requests, sending, toModem, toHost, ctrl, D, Q)
Soon(D, Q) == Total(requests', sending', toModem', toHost', ctrl', D, Q)

\* The answers to the SABMs for the DLCs of D are in Q, and those to no others.
Paired(D, Q) ==
  /\ Q \subseteq AnyAnswer
  /\ \A d \in 0 .. 63 : \A k \in {"Ua", "Dm"} : <<k, d>> \in Q <=> d \in D

LEMMA Belonging ==
  ASSUME NEW D, NEW Q, Paired(D, Q), NEW e
  PROVE  /\ Belongs(e, Asks(D)) <=> e.kind = "Sabm" /\ e.dlci \in D
         /\ e.kind \notin ControlKinds => ~Belongs(e, Q)
         /\ e.dlci \in 0 .. 63 /\ e.kind \in {"Ua", "Dm"}
              => (Belongs(e, Q) <=> e.dlci \in D)
<1>1. Belongs(e, Asks(D)) <=> e.kind = "Sabm" /\ e.dlci \in D
  BY DEF Belongs, Asks
<1>2. e.kind \notin ControlKinds => ~Belongs(e, Q)
  BY DEF Belongs, Paired, AnyAnswer
<1>3. e.dlci \in 0 .. 63 /\ e.kind \in {"Ua", "Dm"}
        => (Belongs(e, Q) <=> e.dlci \in D)
  BY DEF Belongs, Paired
<1>4. QED
  BY <1>1, <1>2, <1>3

LEMMA TotalTypes ==
  ASSUME TypeOK, NEW D, NEW Q
  PROVE  /\ Tally(requests, Asks(D)) \in Nat /\ Tally(sending, Asks(D)) \in Nat
         /\ Tally(toModem, Asks(D)) \in Nat /\ Tally(toHost, Q) \in Nat
         /\ Tally(ctrl, Q) \in Nat /\ Now(D, Q) \in Nat
<1>1. /\ Tally(requests, Asks(D)) \in Nat /\ Tally(sending, Asks(D)) \in Nat
      /\ Tally(toModem, Asks(D)) \in Nat /\ Tally(toHost, Q) \in Nat
      /\ Tally(ctrl, Q) \in Nat
  BY TallyType DEF TypeOK
<1>2. QED
  BY <1>1 DEF Now, Total

LEMMA SoonType ==
  ASSUME TypeOK', NEW D, NEW Q
  PROVE  Soon(D, Q) \in Nat
<1>1. /\ Tally(requests', Asks(D)) \in Nat /\ Tally(sending', Asks(D)) \in Nat
      /\ Tally(toModem', Asks(D)) \in Nat /\ Tally(toHost', Q) \in Nat
      /\ Tally(ctrl', Q) \in Nat
  BY TallyType DEF TypeOK
<1>2. QED
  BY <1>1 DEF Soon, Total

\* tx_task carries a SABM on.
LEMMA TxTotal ==
  ASSUME TypeOK, Len(sending) <= 1, NEW D, NEW Q, Paired(D, Q), TxStep
  PROVE  Soon(D, Q) = Now(D, Q)
<1> DEFINE A == Asks(D)
<1>1. requests \in Seq(TxReq) /\ sending \in Seq(Frame) /\ toModem \in Seq(Frame)
  BY DEF TypeOK
<1>2. Tally(toHost', Q) = Tally(toHost, Q) /\ Tally(ctrl', Q) = Tally(ctrl, Q)
  BY DEF TxStep
<1>3. /\ Tally(requests, A) \in Nat /\ Tally(sending, A) \in Nat
      /\ Tally(toModem, A) \in Nat /\ Tally(toHost, Q) \in Nat /\ Tally(ctrl, Q) \in Nat
  BY TotalTypes
<1>4. CASE Tx!TakeRequest
  <2> DEFINE q == Head(requests)
             f == Tx!ToFrame(q)
  <2>1. /\ requests # <<>> /\ requests' = Tail(requests) /\ toModem' = toModem
        /\ sending = <<>> /\ sending' = <<f>>
    BY <1>4 DEF Tx!TakeRequest
  <2>2. q \in TxReq /\ Tail(requests) \in Seq(TxReq)
    BY <1>1, <2>1, TailType
  <2>3. Tally(requests, A) = Tally(requests', A) + Bit(Belongs(q, A))
        /\ Tally(requests', A) \in Nat
    BY <1>1, <2>1, <2>2, TallyTail, TallyType
  <2>4. f \in Frame /\ (f.kind = "Sabm" <=> q.kind = "Sabm") /\ f.dlci = q.dlci
    <3>1. f \in Frame
      BY <2>2, ToFrameType
    <3>2. (f.kind = "Sabm" <=> q.kind = "Sabm") /\ f.dlci = q.dlci
      BY <2>2 DEF Tx!ToFrame, Tx!Uih, Tx!Sabm, TxReq
    <3>3. QED
      BY <3>1, <3>2
  <2>5. Belongs(f, A) <=> Belongs(q, A)
    <3> HIDE DEF f, q
    <3>1. QED
      BY <2>4, Belonging
  <2>6. Tally(sending, A) = 0 /\ Tally(sending', A) = Bit(Belongs(f, A))
    <3>1. <<>> \in Seq(Frame) /\ <<f>> = Append(<<>>, f)
      OBVIOUS
    <3>2. Tally(<<>>, A) = 0
      BY TallyEmpty
    <3> HIDE DEF f, A
    <3>3. Tally(Append(<<>>, f), A) = Tally(<<>>, A) + Bit(Belongs(f, A))
      BY <2>4, <3>1, TallyAppend
    <3>4. QED
      BY <2>1, <3>1, <3>2, <3>3 DEF Bit
  <2> HIDE DEF f, q, A
  <2>7. Bit(Belongs(f, A)) = Bit(Belongs(q, A)) /\ Bit(Belongs(q, A)) \in Int
    BY <2>5 DEF Bit
  <2>8. Tally(toModem', A) = Tally(toModem, A)
    BY <2>1
  <2>9. QED
    BY <1>2, <1>3, <2>3, <2>6, <2>7, <2>8 DEF Now, Soon, Total, A
<1>5. CASE Tx!Transmit
  <2> DEFINE f == Head(sending)
  <2>1. /\ sending # <<>> /\ sending' = <<>> /\ requests' = requests
        /\ toModem' = Append(toModem, f)
    BY <1>5 DEF Tx!Transmit
  <2>2. f \in Frame /\ Tail(sending) = <<>>
    BY <1>1, <2>1, TailType
  <2>3. Tally(<<>>, A) = 0
    BY TallyEmpty
  <2>4. Tally(sending, A) = Tally(<<>>, A) + Bit(Belongs(f, A))
    BY <1>1, <2>1, <2>2, TallyTail
  <2> HIDE DEF f
  <2>5. Tally(toModem', A) = Tally(toModem, A) + Bit(Belongs(f, A))
    BY <1>1, <2>1, <2>2, TallyAppend
  <2>6. Tally(sending', A) = 0 /\ Tally(requests', A) = Tally(requests, A)
    BY <2>1, <2>3
  <2>7. Bit(Belongs(f, A)) \in Int
    BY DEF Bit
  <2> HIDE DEF A
  <2>8. QED
    BY <1>2, <1>3, <2>3, <2>4, <2>5, <2>6, <2>7 DEF Now, Soon, Total, A
<1>6. QED
  BY <1>4, <1>5 DEF TxStep

\* Data is not counted.
LEMMA WriterTotal ==
  ASSUME TypeOK, NEW D, NEW Q, Paired(D, Q), NEW d \in DataDlcs, Writer(d)
  PROVE  Soon(D, Q) = Now(D, Q)
<1> DEFINE e == Tx!Data(d, Tx!chunk(d))
           A == Asks(D)
<1>1. /\ UNCHANGED <<toHost, ctrl, sending, toModem>>
      /\ requests' = requests \/ requests' = Append(requests, e)
  BY DEF Writer, Tx!Write, Tx!SendChunk
<1>2. e \in TxReq /\ e.kind = "Data" /\ requests \in Seq(TxReq)
  BY ChunkType DEF Tx!Data, TypeOK
<1> HIDE DEF e
<1>3. ~Belongs(e, A)
  BY <1>2, Belonging
<1>4. Tally(requests, A) \in Nat
  BY TotalTypes
<1> HIDE DEF A
<1>5. Tally(Append(requests, e), A) = Tally(requests, A)
  BY <1>2, <1>3, <1>4, TallyAppend DEF Bit
<1>6. QED
  BY <1>1, <1>5 DEF Now, Soon, Total, A

\* The dispatcher turns an answer on the line into an event, for which the
\* control queue has room.
LEMMA RxTotal ==
  ASSUME TypeOK, RoomForControl, NEW D, NEW Q, Paired(D, Q), RxStep
  PROVE  Soon(D, Q) = Now(D, Q)
<1> DEFINE f == Head(toHost)
           A == Asks(D)
<1>1. UNCHANGED <<requests, sending, toModem>>
  BY DEF RxStep, txVars
<1>2. /\ Tally(requests, A) \in Nat /\ Tally(sending, A) \in Nat
      /\ Tally(toModem, A) \in Nat /\ Tally(toHost, Q) \in Nat /\ Tally(ctrl, Q) \in Nat
  BY TotalTypes
<1>3. toHost \in Seq(Frame) /\ ctrl \in Seq(ControlEvt)
  BY DEF TypeOK
<1>4. toHost # <<>> => f \in Frame /\ f.dlci \in 0 .. 63 /\ Tail(toHost) \in Seq(Frame)
  <2>1. toHost # <<>> => f \in Frame /\ Tail(toHost) \in Seq(Frame)
    BY <1>3, TailType
  <2>2. \A g \in Frame : g.dlci \in 0 .. 63
    BY DEF Frame
  <2>3. QED
    BY <2>1, <2>2
<1>5. toHost # <<>> /\ toHost' = Tail(toHost)
        => Tally(toHost, Q) = Tally(toHost', Q) + Bit(Belongs(f, Q))
           /\ Tally(toHost', Q) \in Nat
  BY <1>3, <1>4, TallyTail, TallyType
<1>6. ASSUME toHost # <<>>, toHost' = Tail(toHost), f.kind \notin ControlKinds, ctrl' = ctrl
      PROVE  Soon(D, Q) = Now(D, Q)
  <2>1. ~Belongs(f, Q)
    BY <1>6, Belonging
  <2>2. Tally(toHost', Q) = Tally(toHost, Q)
    BY <1>2, <1>5, <1>6, <2>1 DEF Bit
  <2>3. QED
    BY <1>1, <1>6, <2>2 DEF Now, Soon, Total
<1>7. CASE Rx!ToPipe \/ Rx!Ignore
  <2>1. /\ toHost # <<>> /\ toHost' = Tail(toHost) /\ ctrl' = ctrl
        /\ f.kind \in {"Uih", "Sabm"}
    BY <1>7 DEF Rx!ToPipe, Rx!Ignore, Rx!TakeFrame
  <2>2. f.kind \notin ControlKinds
    BY <2>1 DEF ControlKinds
  <2>3. QED
    BY <1>6, <2>1, <2>2
<1>8. CASE Rx!Emit
  <2> DEFINE e == [kind |-> f.kind, dlci |-> f.dlci]
  <2>1. /\ toHost # <<>> /\ toHost' = Tail(toHost) /\ f.kind \in ControlKinds
        /\ ctrl' = IF Len(ctrl) < CTRL_QUEUE_DEPTH THEN Append(ctrl, e) ELSE ctrl
    BY <1>8 DEF Rx!Emit, Rx!TakeFrame, Rx!emit, Rx!ControlKinds, ControlKinds
  <2>2. ctrl' = Append(ctrl, e)
    BY <2>1 DEF RoomForControl
  <2>3. e \in ControlEvt /\ e.kind = f.kind /\ e.dlci = f.dlci
    BY <1>4, <2>1 DEF ControlEvt
  <2>4. Belongs(e, Q) <=> Belongs(f, Q)
    BY <2>3 DEF Belongs
  <2> HIDE DEF e, f
  <2>5. Tally(ctrl', Q) = Tally(ctrl, Q) + Bit(Belongs(e, Q))
    BY <1>3, <2>2, <2>3, TallyAppend
  <2>6. Bit(Belongs(e, Q)) = Bit(Belongs(f, Q)) /\ Bit(Belongs(f, Q)) \in Int
    BY <2>4 DEF Bit
  <2>7. Tally(toHost, Q) = Tally(toHost', Q) + Bit(Belongs(f, Q)) /\ Tally(toHost', Q) \in Nat
    BY <1>5, <2>1
  <2>8. /\ Tally(requests', A) = Tally(requests, A) /\ Tally(sending', A) = Tally(sending, A)
        /\ Tally(toModem', A) = Tally(toModem, A)
    BY <1>1
  <2> HIDE DEF A
  <2>9. QED
    BY <1>2, <2>5, <2>6, <2>7, <2>8 DEF Now, Soon, Total, A
<1>9. CASE Rx!WritePipe
  BY <1>1, <1>9 DEF Rx!WritePipe, Now, Soon, Total
<1>10. QED
  BY <1>7, <1>8, <1>9 DEF RxStep

\* The modem answers a SABM with a UA or a DM for the same DLC.
LEMMA AnswerTotal ==
  ASSUME TypeOK, NEW D, NEW Q, Paired(D, Q), NEW f \in Frame, f.kind \in {"Ua", "Dm"},
         Modem!Answer(f), UNCHANGED <<requests, sending, ctrl>>
  PROVE  Soon(D, Q) = Now(D, Q)
<1> DEFINE g == Head(toModem)
           A == Asks(D)
<1>1. /\ toModem # <<>> /\ g.kind = "Sabm" /\ f.dlci = g.dlci
      /\ toModem' = Tail(toModem) /\ toHost' = Append(toHost, f)
  BY DEF Modem!Answer
<1>2. toModem \in Seq(Frame) /\ toHost \in Seq(Frame) /\ f.dlci \in 0 .. 63
  BY DEF TypeOK, Frame
<1>3. Tail(toModem) \in Seq(Frame)
  BY <1>1, <1>2, TailType
<1>4. /\ Tally(requests, A) \in Nat /\ Tally(sending, A) \in Nat
      /\ Tally(toModem, A) \in Nat /\ Tally(toHost, Q) \in Nat /\ Tally(ctrl, Q) \in Nat
  BY TotalTypes
<1>5. Tally(toModem, A) = Tally(toModem', A) + Bit(Belongs(g, A)) /\ Tally(toModem', A) \in Nat
  BY <1>1, <1>2, <1>3, TallyTail, TallyType
<1>6. Tally(toHost', Q) = Tally(toHost, Q) + Bit(Belongs(f, Q))
  BY <1>1, <1>2, TallyAppend
<1> HIDE DEF g
<1>7. (Belongs(g, A) <=> g.dlci \in D) /\ (Belongs(f, Q) <=> f.dlci \in D)
  BY <1>1, <1>2, Belonging
<1> HIDE DEF A
<1>8. Bit(Belongs(g, A)) = Bit(Belongs(f, Q)) /\ Bit(Belongs(f, Q)) \in Int
  BY <1>1, <1>7 DEF Bit
<1>9. /\ Tally(requests', A) = Tally(requests, A) /\ Tally(sending', A) = Tally(sending, A)
      /\ Tally(ctrl', Q) = Tally(ctrl, Q)
  OBVIOUS
<1>10. QED
  BY <1>4, <1>5, <1>6, <1>8, <1>9 DEF Now, Soon, Total, A

\* A frame taken off one of the lines.
LEMMA HeadTotal ==
  ASSUME TypeOK, NEW D, NEW Q, Paired(D, Q), UNCHANGED <<requests, sending, ctrl>>,
         \/ toModem # <<>> /\ toModem' = Tail(toModem) /\ UNCHANGED toHost
         \/ toHost # <<>> /\ toHost' = Tail(toHost) /\ UNCHANGED toModem
  PROVE  /\ Soon(D, Q) <= Now(D, Q)
         /\ toModem # <<>> /\ Head(toModem).kind # "Sabm" /\ UNCHANGED toHost
              => Soon(D, Q) = Now(D, Q)
<1> DEFINE A == Asks(D)
<1>1. toModem \in Seq(Frame) /\ toHost \in Seq(Frame)
  BY DEF TypeOK
<1>2. /\ Tally(requests, A) \in Nat /\ Tally(sending, A) \in Nat
      /\ Tally(toModem, A) \in Nat /\ Tally(toHost, Q) \in Nat /\ Tally(ctrl, Q) \in Nat
  BY TotalTypes
<1>3. /\ Tally(requests', A) = Tally(requests, A) /\ Tally(sending', A) = Tally(sending, A)
      /\ Tally(ctrl', Q) = Tally(ctrl, Q)
  OBVIOUS
<1>5. CASE toModem # <<>> /\ toModem' = Tail(toModem) /\ UNCHANGED toHost
  <2>1. Tally(toModem, A) = Tally(toModem', A) + Bit(Belongs(Head(toModem), A))
    BY <1>1, <1>5, TallyTail
  <2>2. Tail(toModem) \in Seq(Frame)
    BY <1>1, <1>5, TailType
  <2>3. Tally(toModem', A) \in Nat
    BY <1>5, <2>2, TallyType
  <2>4. Tally(toHost', Q) = Tally(toHost, Q)
    BY <1>5
  <2> DEFINE b == Bit(Belongs(Head(toModem), A))
  <2>5. b \in 0 .. 1 /\ (Head(toModem).kind # "Sabm" => b = 0)
    BY Belonging DEF Bit
  <2> HIDE DEF A, b
  <2>6. Soon(D, Q) + b = Now(D, Q) /\ Soon(D, Q) \in Int
    BY <1>2, <1>3, <2>1, <2>3, <2>4, <2>5 DEF Now, Soon, Total, A, b
  <2>7. QED
    BY <2>5, <2>6
<1>6. CASE toHost # <<>> /\ toHost' = Tail(toHost) /\ UNCHANGED toModem
  <2>1. Tally(toHost, Q) = Tally(toHost', Q) + Bit(Belongs(Head(toHost), Q))
    BY <1>1, <1>6, TallyTail
  <2>2. Tail(toHost) \in Seq(Frame) /\ toHost' # toHost
    BY <1>1, <1>6, TailType
  <2>3. Tally(toHost', Q) \in Nat
    BY <1>6, <2>2, TallyType
  <2>4. Tally(toModem', A) = Tally(toModem, A)
    BY <1>6
  <2> DEFINE b == Bit(Belongs(Head(toHost), Q))
  <2>5. b \in 0 .. 1
    BY DEF Bit
  <2> HIDE DEF A, b
  <2>6. Soon(D, Q) + b = Now(D, Q) /\ Soon(D, Q) \in Int
    BY <1>2, <1>3, <2>1, <2>3, <2>4, <2>5 DEF Now, Soon, Total, A, b
  <2>7. QED
    BY <2>2, <2>5, <2>6
<1>7. QED
  BY <1>5, <1>6

\* A frame put on the line to the host.
LEMMA AddTotal ==
  ASSUME TypeOK, NEW D, NEW Q, Paired(D, Q), NEW f \in Frame,
         UNCHANGED <<requests, sending, toModem, ctrl>>, toHost' = Append(toHost, f)
  PROVE  /\ Soon(D, Q) \in {Now(D, Q), Now(D, Q) + 1}
         /\ f.kind \notin ControlKinds => Soon(D, Q) = Now(D, Q)
<1> DEFINE A == Asks(D)
<1>1. toHost \in Seq(Frame)
  BY DEF TypeOK
<1>2. /\ Tally(requests, A) \in Nat /\ Tally(sending, A) \in Nat
      /\ Tally(toModem, A) \in Nat /\ Tally(toHost, Q) \in Nat /\ Tally(ctrl, Q) \in Nat
  BY TotalTypes
<1>3. /\ Tally(requests', A) = Tally(requests, A) /\ Tally(sending', A) = Tally(sending, A)
      /\ Tally(toModem', A) = Tally(toModem, A) /\ Tally(ctrl', Q) = Tally(ctrl, Q)
  OBVIOUS
<1>4. Tally(toHost', Q) = Tally(toHost, Q) + Bit(Belongs(f, Q))
  BY <1>1, TallyAppend
<1>5. /\ Bit(Belongs(f, Q)) \in {0, 1}
      /\ f.kind \notin ControlKinds => Bit(Belongs(f, Q)) = 0
  BY Belonging DEF Bit
<1> HIDE DEF A
<1>6. QED
  BY <1>2, <1>3, <1>4, <1>5 DEF Now, Soon, Total, A

-----------------------------------------------------------------------------
(* What an attempt costs.                                                  *)

Answers(d) == {"Ua", "Dm"} \X {d}
Rest(d) == (0 .. 63) \ {d}
RestAnswers(d) == AnyAnswer \ Answers(d)

Abroad == Now(0 .. 63, AnyAnswer)
Mine == Now({dlci}, Answers(dlci))
Others == Now(Rest(dlci), RestAnswers(dlci))
Costs == faults + strays

\* The attempt in progress can no longer be answered.
Unheard == Bit(phase = "waiting" /\ Mine = 0)

\* Every attempt given up, and every SABM or event that is not for the attempts
\* in progress, has been paid for with a fault or a stray frame of its own.
Paid ==
  /\ phase \in {"idle", "sending"} => Abroad <= Costs
  /\ phase = "waiting" => Abroad <= Costs + 1
  /\ phase \in {"sending", "waiting"} => attempt + Others + Unheard <= Costs
  /\ phase = "SabmTimeout" => SABM_RETRIES <= Costs

LEMMA Pairs ==
  ASSUME NEW d \in 0 .. 63
  PROVE  /\ Paired({d}, Answers(d)) /\ Paired(Rest(d), RestAnswers(d))
         /\ Paired(0 .. 63, AnyAnswer)
<1>1. Answers(d) \subseteq AnyAnswer
  BY DEF Answers, AnyAnswer, ControlKinds
<1>2. \A c \in 0 .. 63 : \A k \in {"Ua", "Dm"} :
        <<k, c>> \in AnyAnswer /\ (<<k, c>> \in Answers(d) <=> c = d)
  BY DEF Answers, AnyAnswer, ControlKinds
<1>3. QED
  BY <1>1, <1>2 DEF Paired, Rest, RestAnswers

LEMMA TallyParts ==
  ASSUME NEW d \in 0 .. 63, NEW T, NEW s \in Seq(T)
  PROVE  /\ Tally(s, AnyAnswer) = Tally(s, Answers(d)) + Tally(s, RestAnswers(d))
         /\ Tally(s, Asks(0 .. 63)) = Tally(s, Asks({d})) + Tally(s, Asks(Rest(d)))
<1>1. /\ AnyAnswer = Answers(d) \cup RestAnswers(d)
      /\ Answers(d) \cap RestAnswers(d) = {}
  BY Pairs DEF RestAnswers, Paired
<1>2. /\ Asks(0 .. 63) = Asks({d}) \cup Asks(Rest(d))
      /\ Asks({d}) \cap Asks(Rest(d)) = {}
  BY DEF Asks, Rest
<1>3. Tally(s, Answers(d) \cup RestAnswers(d)) = Tally(s, Answers(d)) + Tally(s, RestAnswers(d))
  BY <1>1, TallySplit
<1>4. Tally(s, Asks({d}) \cup Asks(Rest(d))) = Tally(s, Asks({d})) + Tally(s, Asks(Rest(d)))
  BY <1>2, TallySplit
<1>5. QED
  BY <1>1, <1>2, <1>3, <1>4

LEMMA NowParts ==
  ASSUME TypeOK, NEW d \in 0 .. 63
  PROVE  /\ Now(0 .. 63, AnyAnswer) = Now({d}, Answers(d)) + Now(Rest(d), RestAnswers(d))
         /\ Now(0 .. 63, AnyAnswer) \in Nat
         /\ Now({d}, Answers(d)) \in Nat /\ Now(Rest(d), RestAnswers(d)) \in Nat
<1> DEFINE S(s) == Tally(s, Asks(0 .. 63)) = Tally(s, Asks({d})) + Tally(s, Asks(Rest(d)))
           Z(s) == Tally(s, AnyAnswer) = Tally(s, Answers(d)) + Tally(s, RestAnswers(d))
<1>1. /\ requests \in Seq(TxReq) /\ sending \in Seq(Frame) /\ toModem \in Seq(Frame)
      /\ toHost \in Seq(Frame) /\ ctrl \in Seq(ControlEvt)
  BY DEF TypeOK
<1>2. S(requests) /\ S(sending) /\ S(toModem) /\ Z(toHost) /\ Z(ctrl)
  BY <1>1, TallyParts
<1>3. /\ Tally(requests, Asks({d})) \in Nat /\ Tally(sending, Asks({d})) \in Nat
      /\ Tally(toModem, Asks({d})) \in Nat /\ Tally(toHost, Answers(d)) \in Nat
      /\ Tally(ctrl, Answers(d)) \in Nat /\ Now({d}, Answers(d)) \in Nat
  BY TotalTypes
<1>4. /\ Tally(requests, Asks(Rest(d))) \in Nat /\ Tally(sending, Asks(Rest(d))) \in Nat
      /\ Tally(toModem, Asks(Rest(d))) \in Nat /\ Tally(toHost, RestAnswers(d)) \in Nat
      /\ Tally(ctrl, RestAnswers(d)) \in Nat /\ Now(Rest(d), RestAnswers(d)) \in Nat
  BY TotalTypes
<1>5. Now(0 .. 63, AnyAnswer) = Now({d}, Answers(d)) + Now(Rest(d), RestAnswers(d))
  BY <1>2, <1>3, <1>4 DEF Now, Total
<1>6. QED
  BY <1>3, <1>4, <1>5

LEMMA DlciNumber == ASSUME TypeOK PROVE dlci \in 0 .. 63
  BY DEF TypeOK, Dlcs

LEMMA PaidTypes ==
  ASSUME TypeOK, faults \in Nat
  PROVE  /\ Abroad \in Nat /\ Mine \in Nat /\ Others \in Nat /\ Abroad = Mine + Others
         /\ Costs \in Nat /\ attempt \in Nat /\ Unheard \in {0, 1}
<1>1. dlci \in 0 .. 63 /\ strays \in Nat /\ attempt \in Nat
  BY RuntimeAssumption DEF TypeOK, Dlcs
<1>2. /\ Abroad \in Nat /\ Mine \in Nat /\ Others \in Nat /\ Abroad = Mine + Others
  BY <1>1, NowParts DEF Abroad, Mine, Others
<1>3. Costs \in Nat /\ Unheard \in {0, 1}
  BY <1>1 DEF Costs, Unheard, Bit
<1>4. QED
  BY <1>1, <1>2, <1>3

\* A step of another task, of the modem or of the line.
LEMMA FlowPaid ==
  ASSUME TypeOK, TypeOK', Paid, faults \in Nat, faults' \in Nat, UNCHANGED openVars,
         \/ /\ Costs' = Costs
            /\ \A D, Q : Paired(D, Q) => Soon(D, Q) = Now(D, Q)
         \/ /\ Costs' = Costs + 1
            /\ \A D, Q : Paired(D, Q) => Soon(D, Q) <= Now(D, Q)
         \/ /\ Costs' = Costs + 1
            /\ \A D, Q : Paired(D, Q) => Soon(D, Q) \in {Now(D, Q), Now(D, Q) + 1}
  PROVE  Paid'
<1>1. dlci \in 0 .. 63
  BY DlciNumber
<1>2. UNCHANGED <<phase, dlci, attempt>>
  BY DEF openVars
<1>3. /\ Abroad = Now(0 .. 63, AnyAnswer) /\ Abroad' = Soon(0 .. 63, AnyAnswer)
      /\ Mine = Now({dlci}, Answers(dlci)) /\ Mine' = Soon({dlci}, Answers(dlci))
      /\ Others = Now(Rest(dlci), RestAnswers(dlci))
      /\ Others' = Soon(Rest(dlci), RestAnswers(dlci))
  BY <1>2 DEF Abroad, Mine, Others, Now, Soon
<1>4. /\ Paired(0 .. 63, AnyAnswer) /\ Paired({dlci}, Answers(dlci))
      /\ Paired(Rest(dlci), RestAnswers(dlci))
  BY <1>1, Pairs
<1>5. \/ Costs' = Costs /\ Abroad' = Abroad /\ Mine' = Mine /\ Others' = Others
      \/ Costs' = Costs + 1 /\ Abroad' <= Abroad /\ Others' <= Others
      \/ /\ Costs' = Costs + 1 /\ Abroad' \in {Abroad, Abroad + 1}
         /\ Mine' \in {Mine, Mine + 1} /\ Others' \in {Others, Others + 1}
  BY <1>3, <1>4
<1>6. /\ Abroad \in Nat /\ Mine \in Nat /\ Others \in Nat
      /\ Costs \in Nat /\ attempt \in Nat /\ Unheard \in {0, 1}
  BY PaidTypes
<1>7. Abroad' \in Nat /\ Mine' \in Nat /\ Others' \in Nat /\ Unheard' \in {0, 1}
  <2>1. Abroad' \in Nat /\ Mine' \in Nat /\ Others' \in Nat
    BY <1>3, SoonType
  <2>2. Unheard' \in {0, 1}
    BY DEF Unheard, Bit
  <2>3. QED
    BY <2>1, <2>2
<1>8. (Mine = 0 <=> Mine' = 0) => Unheard' = Unheard
  BY <1>2 DEF Unheard, Bit
<1>9. Mine = 0 => Unheard' <= Unheard
  BY <1>2, <1>7 DEF Unheard, Bit
<1>10. Mine' # 0 => Unheard' = 0
  BY DEF Unheard, Bit
<1>11. SABM_RETRIES \in Nat
  BY RuntimeAssumption
<1>12. /\ phase \in {"idle", "sending"} => Abroad' <= Costs'
       /\ phase = "waiting" => Abroad' <= Costs' + 1
       /\ phase = "SabmTimeout" => SABM_RETRIES <= Costs'
  BY <1>5, <1>6, <1>7, <1>11 DEF Paid
<1>13. phase \in {"sending", "waiting"} => attempt + Others' + Unheard' <= Costs'
  BY <1>5, <1>6, <1>7, <1>8, <1>9, <1>10 DEF Paid
<1>14. QED
  BY <1>2, <1>12, <1>13 DEF Paid

\* open_dlc() goes round: it drains the control queue and queues a SABM.
LEMMA BeginTotal ==
  ASSUME TypeOK, NEW d \in Dlcs, NEW a, Open!BeginAttempt(d, a),
         UNCHANGED <<sending, toModem, toHost>>, NEW D, NEW Q, Paired(D, Q)
  PROVE  Soon(D, Q) = Now(D, Q) - Tally(ctrl, Q) + Bit(phase' = "waiting" /\ d \in D)
<1> DEFINE e == Open!Sabm(d)
           A == Asks(D)
           k == Bit(phase' = "waiting" /\ d \in D)
<1>1. e \in TxReq /\ e.kind = "Sabm" /\ e.dlci = d
  BY DEF Open!Sabm, TxReq, Dlcs
<1>2. requests \in Seq(TxReq)
  BY DEF TypeOK
<1>3. /\ Tally(requests, A) \in Nat /\ Tally(sending, A) \in Nat
      /\ Tally(toModem, A) \in Nat /\ Tally(toHost, Q) \in Nat /\ Tally(ctrl, Q) \in Nat
  BY TotalTypes
<1>4. /\ ctrl' = <<>>
      /\ \/ phase' = "waiting" /\ requests' = Append(requests, e)
         \/ phase' = "sending" /\ requests' = requests
  BY DEF Open!BeginAttempt
<1> HIDE DEF e
<1>5. Belongs(e, A) <=> d \in D
  BY <1>1, Belonging
<1> HIDE DEF A
<1>6. Tally(Append(requests, e), A) = Tally(requests, A) + Bit(Belongs(e, A))
  BY <1>1, <1>2, TallyAppend
<1>7. Tally(requests', A) = Tally(requests, A) + k /\ k \in Int
  <2>1. CASE phase' = "waiting" /\ requests' = Append(requests, e)
    <3>1. k = Bit(Belongs(e, A)) /\ k \in Int
      BY <1>5, <2>1 DEF Bit
    <3>2. QED
      BY <1>6, <2>1, <3>1
  <2>2. CASE phase' = "sending" /\ requests' = requests
    <3>1. k = 0
      BY <2>2 DEF Bit
    <3>2. QED
      BY <1>3, <2>2, <3>1
  <2>3. QED
    BY <1>4, <2>1, <2>2
<1>8. Tally(ctrl', Q) = 0
  BY <1>4, TallyEmpty
<1>9. /\ Tally(sending', A) = Tally(sending, A) /\ Tally(toModem', A) = Tally(toModem, A)
      /\ Tally(toHost', Q) = Tally(toHost, Q)
  OBVIOUS
<1> HIDE DEF k
<1>10. Soon(D, Q) = Now(D, Q) - Tally(ctrl, Q) + k
  BY <1>3, <1>7, <1>8, <1>9 DEF Now, Soon, Total, A
<1>11. QED
  BY <1>10 DEF k

LEMMA CostsType ==
  ASSUME TypeOK', faults' \in Nat
  PROVE  Costs' \in Nat
<1>1. strays' \in Nat
  BY RuntimeAssumption DEF TypeOK
<1>2. \A a, b \in Nat : a + b \in Nat
  OBVIOUS
<1>3. QED
  BY <1>1, <1>2 DEF Costs

LEMMA BeginPaid ==
  ASSUME TypeOK, TypeOK', NEW d \in Dlcs, NEW a \in Nat, Open!BeginAttempt(d, a),
         UNCHANGED <<sending, toModem, toHost>>, faults' \in Nat,
         Abroad - Tally(ctrl, AnyAnswer) <= Costs',
         a + Now(Rest(d), RestAnswers(d)) - Tally(ctrl, RestAnswers(d)) <= Costs'
  PROVE  Paid'
<1>1. /\ dlci' = d /\ attempt' = a /\ phase' \in {"waiting", "sending"}
  BY DEF Open!BeginAttempt
<1>2. d \in 0 .. 63 /\ d \notin Rest(d)
  BY DEF Dlcs, Rest
<1>3. /\ Paired(0 .. 63, AnyAnswer) /\ Paired({d}, Answers(d))
      /\ Paired(Rest(d), RestAnswers(d))
  BY <1>2, Pairs
<1> DEFINE k == Bit(phase' = "waiting")
           t == Tally(ctrl, AnyAnswer)
           m == Tally(ctrl, Answers(d))
           o == Tally(ctrl, RestAnswers(d))
           N == Now({d}, Answers(d))
           O == Now(Rest(d), RestAnswers(d))
<1>4. k \in {0, 1} /\ (phase' = "waiting" => k = 1) /\ (phase' = "sending" => k = 0)
  BY DEF Bit
<1>5. /\ Abroad' = Soon(0 .. 63, AnyAnswer) /\ Mine' = Soon({d}, Answers(d))
      /\ Others' = Soon(Rest(d), RestAnswers(d))
  BY <1>1 DEF Abroad, Mine, Others, Now, Soon
<1>6. Soon(0 .. 63, AnyAnswer) = Abroad - t + k
  <2>1. Soon(0 .. 63, AnyAnswer) = Now(0 .. 63, AnyAnswer) - t
                                   + Bit(phase' = "waiting" /\ d \in 0 .. 63)
    BY <1>3, BeginTotal
  <2>2. QED
    BY <1>2, <2>1 DEF Abroad
<1>7. Soon({d}, Answers(d)) = N - m + k
  <2>1. Soon({d}, Answers(d)) = N - m + Bit(phase' = "waiting" /\ d \in {d})
    BY <1>3, BeginTotal
  <2>2. QED
    BY <2>1
<1>8. Soon(Rest(d), RestAnswers(d)) = O - o
  <2>1. Soon(Rest(d), RestAnswers(d)) = O - o + Bit(phase' = "waiting" /\ d \in Rest(d))
    BY <1>3, BeginTotal
  <2>2. O \in Int /\ o \in Int
    BY TotalTypes
  <2>3. QED
    BY <1>2, <2>1, <2>2 DEF Bit
<1>9. N - m \in Nat
  <2>1. Tally(requests, Asks({d})) + Tally(sending, Asks({d})) + Tally(toModem, Asks({d}))
          + Tally(toHost, Answers(d)) + m = N
    BY DEF Now, Total
  <2>2. QED
    BY <2>1, TotalTypes
<1>10. /\ Abroad \in Nat /\ t \in Nat /\ O \in Nat /\ o \in Nat /\ m \in Nat /\ N \in Nat
  BY TotalTypes DEF Abroad
<1> DEFINE c == Costs'
<1>11. c \in Nat
  BY CostsType
<1>12. Abroad - t <= c /\ a + O - o <= c
  OBVIOUS
<1> HIDE DEF k, t, m, o, N, O, c
<1>13. /\ phase' = "sending" => Abroad' <= c
       /\ phase' = "waiting" => Abroad' <= c + 1
  <2>1. Abroad' = Abroad - t + k
    BY <1>5, <1>6
  <2>2. CASE phase' = "sending"
    BY <1>4, <1>10, <1>11, <1>12, <2>1, <2>2
  <2>3. CASE phase' = "waiting"
    BY <1>4, <1>10, <1>11, <1>12, <2>1, <2>3
  <2>4. QED
    BY <2>2, <2>3
<1>14. Unheard' = 0
  <2>1. phase' = "waiting" => Mine' # 0
    BY <1>4, <1>5, <1>7, <1>9
  <2>2. QED
    BY <2>1 DEF Unheard, Bit
<1>15. attempt' + Others' + Unheard' <= c
  BY <1>1, <1>5, <1>8, <1>10, <1>11, <1>12, <1>14
<1>16. QED
  BY <1>1, <1>13, <1>15 DEF Paid, c

-----------------------------------------------------------------------------
(* The steps.                                                              *)

LEMMA HeadAnswer ==
  ASSUME TypeOK, ctrl # <<>>
  PROVE  /\ Tally(ctrl, AnyAnswer) >= 1
         /\ ~Belongs(Head(ctrl), Answers(dlci)) => Tally(ctrl, RestAnswers(dlci)) >= 1
<1>1. ctrl \in Seq(ControlEvt)
  BY DEF TypeOK
<1>2. Head(ctrl) \in ControlEvt /\ Tail(ctrl) \in Seq(ControlEvt)
  BY <1>1, TailType
<1>3. Belongs(Head(ctrl), AnyAnswer)
  BY <1>2 DEF Belongs, AnyAnswer, ControlEvt
<1>4. ~Belongs(Head(ctrl), Answers(dlci)) => Belongs(Head(ctrl), RestAnswers(dlci))
  BY <1>3 DEF Belongs, RestAnswers
<1>5. ASSUME NEW P, Belongs(Head(ctrl), P) PROVE Tally(ctrl, P) >= 1
  <2>1. Tally(ctrl, P) = Tally(Tail(ctrl), P) + Bit(Belongs(Head(ctrl), P))
    BY <1>1, TallyTail
  <2>2. Tally(Tail(ctrl), P) \in Nat /\ Bit(Belongs(Head(ctrl), P)) = 1
    BY <1>2, <1>5, TallyType DEF Bit
  <2>3. QED
    BY <2>1, <2>2
<1>6. QED
  BY <1>3, <1>4, <1>5

\* The attempt is given up: it has been paid for, and so has what is left.
LEMMA RetryPaid ==
  ASSUME TypeOK, TypeOK', NEW r, Open!Retry(r), phase = "waiting",
         UNCHANGED <<sending, toModem, toHost>>, faults' \in Nat,
         Abroad - Tally(ctrl, AnyAnswer) <= Costs',
         attempt + 1 + Others - Tally(ctrl, RestAnswers(dlci)) <= Costs',
         attempt + 1 <= Costs'
  PROVE  Paid'
<1>1. dlci \in Dlcs /\ attempt \in 0 .. SABM_RETRIES - 1 /\ SABM_RETRIES \in Nat
  BY RuntimeAssumption DEF TypeOK
<1>2. CASE Open!BeginAttempt(dlci, attempt + 1)
  <2>1. attempt + 1 \in Nat
    BY <1>1
  <2>2. attempt + 1 + Now(Rest(dlci), RestAnswers(dlci)) - Tally(ctrl, RestAnswers(dlci))
          <= Costs'
    BY DEF Others
  <2>3. QED
    BY <1>1, <1>2, <2>1, <2>2, BeginPaid
<1>3. CASE ~Open!attempts_left /\ phase' = "SabmTimeout"
  <2>1. SABM_RETRIES = attempt + 1
    BY <1>1, <1>3 DEF Open!attempts_left
  <2>2. QED
    BY <1>3, <2>1 DEF Paid
<1>4. QED
  BY <1>2, <1>3 DEF Open!Retry

LEMMA TimeoutPaid ==
  ASSUME TypeOK, TypeOK', Paid, faults \in Nat, faults' \in Nat, Timeout,
         (Costs' = Costs /\ ~AnswerComing) \/ Costs' = Costs + 1
  PROVE  Paid'
<1>1. /\ phase = "waiting" /\ ctrl = <<>> /\ Open!Retry(<<>>)
      /\ UNCHANGED <<sending, toModem, toHost>>
  BY DEF Timeout, Open!Timeout, txVars
<1>2. Tally(ctrl, AnyAnswer) = 0 /\ Tally(ctrl, RestAnswers(dlci)) = 0
  BY <1>1, TallyEmpty
<1>3. /\ Abroad \in Nat /\ Mine \in Nat /\ Others \in Nat /\ Abroad = Mine + Others
      /\ Costs \in Nat /\ attempt \in Nat /\ Unheard \in {0, 1}
  BY PaidTypes
<1>4. Abroad <= Costs + 1 /\ attempt + Others + Unheard <= Costs
  BY <1>1 DEF Paid
<1>5. ASSUME ~AnswerComing PROVE Mine = 0
  <2>1. dlci \in 0 .. 63
    BY DlciNumber
  <2>2. /\ requests \in Seq(TxReq) /\ sending \in Seq(Frame) /\ toModem \in Seq(Frame)
        /\ toHost \in Seq(Frame)
    BY DEF TypeOK
  <2>3. ASSUME NEW T, NEW s \in Seq(T), s \in {requests, sending, toModem, toHost}
        PROVE  Tally(s, Asks({dlci})) = 0 /\ Tally(s, Answers(dlci)) = 0
    <3>1. \A i \in DOMAIN s : ~(s[i].kind \in {"Sabm", "Ua", "Dm"} /\ s[i].dlci = dlci)
      BY <1>5, <2>3 DEF AnswerComing
    <3>2. \A i \in DOMAIN s : ~Belongs(s[i], Asks({dlci})) /\ ~Belongs(s[i], Answers(dlci))
      BY <3>1 DEF Belongs, Asks, Answers
    <3>3. QED
      BY <3>2, TallyZero
  <2>4. Tally(requests, Asks({dlci})) = 0 /\ Tally(sending, Asks({dlci})) = 0
    BY <2>2, <2>3
  <2>5. Tally(toModem, Asks({dlci})) = 0 /\ Tally(toHost, Answers(dlci)) = 0
    BY <2>2, <2>3
  <2>6. Tally(ctrl, Answers(dlci)) = 0
    BY <1>1, TallyEmpty
  <2>7. QED
    BY <2>4, <2>5, <2>6 DEF Mine, Now, Total
<1>6. CASE Costs' = Costs /\ ~AnswerComing
  <2>1. Mine = 0 /\ Unheard = 1
    BY <1>1, <1>5, <1>6 DEF Unheard, Bit
  <2>2. /\ Abroad - Tally(ctrl, AnyAnswer) <= Costs' /\ attempt + 1 <= Costs'
        /\ attempt + 1 + Others - Tally(ctrl, RestAnswers(dlci)) <= Costs'
    BY <1>2, <1>3, <1>4, <1>6, <2>1
  <2>3. QED
    BY <1>1, <2>2, RetryPaid
<1>7. CASE Costs' = Costs + 1
  <2>1. /\ Abroad - Tally(ctrl, AnyAnswer) <= Costs' /\ attempt + 1 <= Costs'
        /\ attempt + 1 + Others - Tally(ctrl, RestAnswers(dlci)) <= Costs'
    BY <1>2, <1>3, <1>4, <1>7
  <2>2. QED
    BY <1>1, <2>1, RetryPaid
<1>8. QED
  BY <1>6, <1>7

LEMMA MainPaid ==
  ASSUME TypeOK, TypeOK', Paid, MainInv, faults \in Nat, faults' \in Nat, MainStep,
         Costs' = Costs
  PROVE  Paid'
<1>1. UNCHANGED <<sending, toModem, toHost>>
  BY DEF MainStep, txVars
<1>2. /\ Abroad \in Nat /\ Mine \in Nat /\ Others \in Nat /\ Abroad = Mine + Others
      /\ Costs \in Nat /\ attempt \in Nat /\ Unheard \in {0, 1}
  BY PaidTypes
<1>3. dlci \in 0 .. 2
  BY DEF TypeOK, Dlcs
\* What remains of the others after a drain is no more than what remains in all.
<1>4. ASSUME NEW d \in Dlcs
      PROVE  /\ Now(Rest(d), RestAnswers(d)) - Tally(ctrl, RestAnswers(d))
                  <= Abroad - Tally(ctrl, AnyAnswer)
             /\ Tally(ctrl, AnyAnswer) \in Nat /\ Tally(ctrl, RestAnswers(d)) \in Nat
             /\ Now(Rest(d), RestAnswers(d)) \in Nat
  <2>1. d \in 0 .. 63 /\ ctrl \in Seq(ControlEvt)
    BY DEF Dlcs, TypeOK
  <2>2. /\ Abroad = Now({d}, Answers(d)) + Now(Rest(d), RestAnswers(d))
        /\ Now({d}, Answers(d)) \in Nat /\ Now(Rest(d), RestAnswers(d)) \in Nat
    BY <2>1, NowParts DEF Abroad
  <2>3. Tally(ctrl, AnyAnswer) = Tally(ctrl, Answers(d)) + Tally(ctrl, RestAnswers(d))
    BY <2>1, TallyParts
  <2>4. /\ Tally(ctrl, Answers(d)) \in Nat /\ Tally(ctrl, RestAnswers(d)) \in Nat
        /\ Tally(ctrl, Answers(d)) <= Now({d}, Answers(d))
    <3>1. Now({d}, Answers(d))
            = Tally(requests, Asks({d})) + Tally(sending, Asks({d}))
              + Tally(toModem, Asks({d})) + Tally(toHost, Answers(d)) + Tally(ctrl, Answers(d))
      BY DEF Now, Total
    <3>2. /\ Tally(requests, Asks({d})) \in Nat /\ Tally(sending, Asks({d})) \in Nat
          /\ Tally(toModem, Asks({d})) \in Nat /\ Tally(toHost, Answers(d)) \in Nat
          /\ Tally(ctrl, Answers(d)) \in Nat /\ Tally(ctrl, RestAnswers(d)) \in Nat
      BY TotalTypes
    <3>3. QED
      BY <3>1, <3>2
  <2>5. QED
    BY <2>2, <2>3, <2>4
<1>5. CASE Open!Start
  <2>1. phase = "idle" /\ Open!BeginAttempt(0, 0) /\ 0 \in Dlcs /\ 0 \in Nat
    BY <1>5 DEF Open!Start, Dlcs
  <2>2. Abroad <= Costs
    BY <2>1 DEF Paid
  <2>3. /\ Abroad - Tally(ctrl, AnyAnswer) <= Costs'
        /\ 0 + Now(Rest(0), RestAnswers(0)) - Tally(ctrl, RestAnswers(0)) <= Costs'
    BY <1>2, <1>4, <2>1, <2>2
  <2>4. QED
    BY <1>1, <2>1, <2>3, BeginPaid
<1>6. CASE Open!SendSabm
  <2> DEFINE e == Open!Sabm(dlci)
  <2>1. /\ phase = "sending" /\ phase' = "waiting" /\ UNCHANGED <<dlci, attempt, ctrl>>
        /\ requests' = Append(requests, e)
    BY <1>6 DEF Open!SendSabm
  <2>2. e \in TxReq /\ e.kind = "Sabm" /\ e.dlci = dlci /\ requests \in Seq(TxReq)
    BY <1>3 DEF Open!Sabm, TxReq, TypeOK
  <2> HIDE DEF e
  <2>3. ASSUME NEW D, NEW Q, Paired(D, Q)
        PROVE  Soon(D, Q) = Now(D, Q) + Bit(dlci \in D)
    <3>1. Belongs(e, Asks(D)) <=> dlci \in D
      BY <2>2, <2>3, Belonging
    <3>2. Tally(requests', Asks(D)) = Tally(requests, Asks(D)) + Bit(Belongs(e, Asks(D)))
      BY <2>1, <2>2, TallyAppend
    <3>3. Bit(Belongs(e, Asks(D))) = Bit(dlci \in D) /\ Bit(dlci \in D) \in Int
      BY <3>1 DEF Bit
    <3>4. /\ Tally(sending', Asks(D)) = Tally(sending, Asks(D))
          /\ Tally(toModem', Asks(D)) = Tally(toModem, Asks(D))
          /\ Tally(toHost', Q) = Tally(toHost, Q) /\ Tally(ctrl', Q) = Tally(ctrl, Q)
      BY <1>1, <2>1
    <3>5. /\ Tally(requests, Asks(D)) \in Nat /\ Tally(sending, Asks(D)) \in Nat
          /\ Tally(toModem, Asks(D)) \in Nat /\ Tally(toHost, Q) \in Nat
          /\ Tally(ctrl, Q) \in Nat
      BY TotalTypes
    <3>6. QED
      BY <3>2, <3>3, <3>4, <3>5 DEF Now, Soon, Total
  <2>4. dlci \in 0 .. 63 /\ dlci \notin Rest(dlci) /\ dlci \in {dlci}
    BY <1>3 DEF Rest
  <2>5. /\ Abroad' = Soon(0 .. 63, AnyAnswer) /\ Mine' = Soon({dlci}, Answers(dlci))
        /\ Others' = Soon(Rest(dlci), RestAnswers(dlci))
    BY <2>1 DEF Abroad, Mine, Others, Now, Soon
  <2>6. /\ Paired(0 .. 63, AnyAnswer) /\ Paired({dlci}, Answers(dlci))
        /\ Paired(Rest(dlci), RestAnswers(dlci))
    BY <2>4, Pairs
  <2>7. Abroad' = Abroad + 1 /\ Mine' = Mine + 1 /\ Others' = Others
    <3>1. Abroad' = Abroad + Bit(dlci \in 0 .. 63)
      BY <2>3, <2>5, <2>6 DEF Abroad
    <3>2. Mine' = Mine + Bit(dlci \in {dlci})
      BY <2>3, <2>5, <2>6 DEF Mine
    <3>3. Others' = Others + Bit(dlci \in Rest(dlci))
      BY <2>3, <2>5, <2>6 DEF Others
    <3>4. Bit(dlci \in 0 .. 63) = 1 /\ Bit(dlci \in {dlci}) = 1 /\ Bit(dlci \in Rest(dlci)) = 0
      BY <2>4 DEF Bit
    <3>5. QED
      BY <1>2, <3>1, <3>2, <3>3, <3>4
  <2>8. Unheard' = 0
    BY <1>2, <2>7 DEF Unheard, Bit
  <2>9. Abroad <= Costs /\ attempt + Others + Unheard <= Costs
    BY <2>1 DEF Paid
  <2>10. Abroad' <= Costs' + 1 /\ attempt' + Others' + Unheard' <= Costs'
    BY <1>2, <2>1, <2>7, <2>8, <2>9
  <2>11. QED
    BY <2>1, <2>10 DEF Paid
<1>7. phase = "waiting" => Abroad <= Costs + 1 /\ attempt + Others + Unheard <= Costs
  BY DEF Paid
<1>8. CASE Open!ReceiveUa
  <2>1. phase = "waiting" /\ ctrl # <<>>
    BY <1>8 DEF Open!ReceiveUa, Open!Heard
  <2>2. Tally(ctrl, AnyAnswer) >= 1
    BY <2>1, HeadAnswer
  <2>3. CASE dlci + 1 \in Open!Dlcs /\ Open!BeginAttempt(dlci + 1, 0)
    <3>1. dlci + 1 \in Dlcs /\ 0 \in Nat
      BY <2>3 DEF Open!Dlcs, Dlcs
    <3>2. /\ Abroad - Tally(ctrl, AnyAnswer) <= Costs'
          /\ 0 + Now(Rest(dlci + 1), RestAnswers(dlci + 1))
               - Tally(ctrl, RestAnswers(dlci + 1)) <= Costs'
      <4> DEFINE t == Tally(ctrl, AnyAnswer)
                 o == Tally(ctrl, RestAnswers(dlci + 1))
                 n == Now(Rest(dlci + 1), RestAnswers(dlci + 1))
      <4>1. n - o <= Abroad - t /\ t \in Nat /\ o \in Nat /\ n \in Nat /\ t >= 1
        BY <1>4, <2>2, <3>1
      <4> HIDE DEF t, o, n
      <4>2. Abroad - t <= Costs' /\ 0 + n - o <= Costs'
        BY <1>2, <1>7, <2>1, <4>1
      <4>3. QED
        BY <4>2 DEF t, o, n
    <3>3. QED
      BY <1>1, <2>3, <3>1, <3>2, BeginPaid
  <2>4. CASE phase' = "ok"
    BY <2>4 DEF Paid
  <2>5. QED
    BY <1>8, <2>3, <2>4 DEF Open!ReceiveUa
<1>9. CASE Open!ReceiveDm
  BY <1>9 DEF Open!ReceiveDm, Paid
<1>10. CASE Open!ReceiveOther
  <2>1. phase = "waiting" /\ ctrl # <<>> /\ Open!Retry(Tail(ctrl))
    BY <1>10 DEF Open!ReceiveOther
  <2>2. ~Belongs(Head(ctrl), Answers(dlci))
    <3>1. Head(ctrl) \in ControlEvt
      BY <2>1, TailType DEF TypeOK
    <3>2. \A k \in {"Ua", "Dm"} : Head(ctrl) # [kind |-> k, dlci |-> dlci]
      BY <1>10 DEF Open!ReceiveOther
    <3>3. Head(ctrl) = [kind |-> Head(ctrl).kind, dlci |-> Head(ctrl).dlci]
      BY <3>1 DEF ControlEvt
    <3>4. QED
      BY <3>2, <3>3 DEF Belongs, Answers
  <2> DEFINE t == Tally(ctrl, AnyAnswer)
             o == Tally(ctrl, RestAnswers(dlci))
  <2>3. t >= 1 /\ o >= 1 /\ t \in Nat /\ o \in Nat
    BY <1>4, <2>1, <2>2, HeadAnswer DEF TypeOK
  <2>4. o <= Others
    <3>1. Others
            = Tally(requests, Asks(Rest(dlci))) + Tally(sending, Asks(Rest(dlci)))
              + Tally(toModem, Asks(Rest(dlci))) + Tally(toHost, RestAnswers(dlci)) + o
      BY DEF Others, Now, Total
    <3>2. /\ Tally(requests, Asks(Rest(dlci))) \in Nat /\ Tally(sending, Asks(Rest(dlci))) \in Nat
          /\ Tally(toModem, Asks(Rest(dlci))) \in Nat /\ Tally(toHost, RestAnswers(dlci)) \in Nat
          /\ o \in Nat
      BY TotalTypes
    <3> HIDE DEF o
    <3>3. QED
      BY <3>1, <3>2
  <2> HIDE DEF t, o
  <2>5. /\ Abroad - t <= Costs' /\ attempt + 1 + Others - o <= Costs'
        /\ attempt + 1 <= Costs'
    BY <1>2, <1>7, <2>1, <2>3, <2>4
  <2>6. QED
    BY <1>1, <2>1, <2>5, RetryPaid DEF t, o
<1>11. QED
  BY <1>5, <1>6, <1>8, <1>9, <1>10 DEF MainStep

\* The steps of the modem: it answers, takes or sends data, or sends a stray.
LEMMA ModemPaid ==
  ASSUME TypeOK, TypeOK', Paid, faults \in Nat, UNCHANGED faults,
         ModemAnswer \/ ModemRefuse \/ ModemSend
  PROVE  Paid'
<1> DEFINE Keeps == UNCHANGED strays /\ \A D, Q : Paired(D, Q) => Soon(D, Q) = Now(D, Q)
           Adds == /\ strays' = strays + 1
                   /\ \A D, Q : Paired(D, Q) => Soon(D, Q) \in {Now(D, Q), Now(D, Q) + 1}
<1>1. UNCHANGED <<openVars, requests, sending, ctrl>> /\ strays \in Nat /\ faults' = faults
  BY RuntimeAssumption DEF ModemAnswer, ModemRefuse, ModemSend, txVars, TypeOK
<1>2. ASSUME NEW d \in Dlcs, NEW f \in {Modem!Ua(d), Modem!Dm(d)}, Modem!Answer(f)
      PROVE  Keeps
  <2>1. f \in Frame /\ f.kind \in {"Ua", "Dm"}
    <3>1. Modem!Ua(d) \in Frame /\ Modem!Dm(d) \in Frame
      BY DEF Modem!Ua, Modem!Dm, Frame, FrameKind, Dlcs
    <3>2. Modem!Ua(d).kind = "Ua" /\ Modem!Dm(d).kind = "Dm"
      BY DEF Modem!Ua, Modem!Dm
    <3>3. QED
      BY <3>1, <3>2
  <2>2. UNCHANGED strays
    BY <1>2 DEF Modem!Answer
  <2>3. QED
    BY <1>1, <1>2, <2>1, <2>2, AnswerTotal
<1>3. ASSUME Modem!Accept PROVE Keeps
  BY <1>2, <1>3 DEF Modem!Accept, Modem!Dlcs, Dlcs
<1>4. ASSUME Modem!Refuse PROVE Keeps
  BY <1>2, <1>4 DEF Modem!Refuse, Modem!Dlcs, Dlcs
<1>5. ASSUME Modem!TakeData PROVE Keeps
  <2>1. /\ toModem # <<>> /\ Head(toModem).kind = "Uih" /\ toModem' = Tail(toModem)
        /\ UNCHANGED <<toHost, strays>>
    BY <1>5 DEF Modem!TakeData
  <2>2. QED
    BY <1>1, <2>1, HeadTotal
<1>6. ASSUME NEW d \in DataDlcs, NEW n \in 1 .. MaxRxBytes - sent[1] - sent[2],
             Modem!SendData(d, n)
      PROVE  Keeps
  <2> DEFINE f == Modem!Uih(d, Modem!BytesAfter(sent[d], n))
  <2>1. toHost' = Append(toHost, f) /\ toModem' = toModem /\ UNCHANGED strays
    BY <1>6 DEF Modem!SendData
  <2>2. f \in Frame /\ f.kind = "Uih"
    <3>1. sent[d] \in Nat /\ n \in Nat
      BY RuntimeAssumption DEF TypeOK
    <3>2. Modem!BytesAfter(sent[d], n) \in Seq(Nat)
      BY <3>1, BytesAfterType DEF Modem!BytesAfter
    <3>3. QED
      BY <3>2 DEF Modem!Uih, Frame, FrameKind, DataDlcs
  <2> HIDE DEF f
  <2>3. f.kind \notin ControlKinds
    BY <2>2 DEF ControlKinds
  <2>4. QED
    BY <1>1, <2>1, <2>2, <2>3, AddTotal
<1>7. ASSUME NEW f \in Modem!Strays, Modem!SendStray(f) PROVE Adds
  <2>1. toHost' = Append(toHost, f) /\ toModem' = toModem /\ strays' = strays + 1
    BY <1>7 DEF Modem!SendStray
  <2>2. f \in Frame
    BY StrayType
  <2>3. QED
    BY <1>1, <2>1, <2>2, AddTotal
<1>8. Keeps \/ Adds
  BY <1>3, <1>4, <1>5, <1>6, <1>7 DEF ModemAnswer, ModemRefuse, ModemSend
<1>9. CASE Keeps
  <2>1. Costs' = Costs
    BY <1>1, <1>9 DEF Costs
  <2>2. QED
    BY <1>1, <1>9, <2>1, FlowPaid
<1>10. CASE Adds
  <2>1. Costs' = Costs + 1
    <3>1. \A a, b \in Nat : a + (b + 1) = (a + b) + 1
      OBVIOUS
    <3>2. QED
      BY <1>1, <1>10, <3>1 DEF Costs
  <2>2. QED
    BY <1>1, <1>10, <2>1, FlowPaid
<1>11. QED
  BY <1>8, <1>9, <1>10

\* A fault: a late answer, a frame lost, a frame a UART error took.
LEMMA FaultPaid ==
  ASSUME TypeOK, TypeOK', OnlyUihCarries, Paid, faults \in Nat, Fault
  PROVE  Paid'
<1>1. faults' = faults + 1 /\ faults' \in Nat
  BY DEF Fault
<1>2. ASSUME strays' = strays PROVE Costs' = Costs + 1
  <2>1. \A a, b \in Nat : (a + 1) + b = (a + b) + 1
    OBVIOUS
  <2>2. strays \in Nat
    BY RuntimeAssumption DEF TypeOK
  <2>3. QED
    BY <1>1, <1>2, <2>1, <2>2 DEF Costs
<1>3. CASE Timeout
  <2>1. strays' = strays
    BY <1>3 DEF Timeout, modemVars
  <2>2. QED
    BY <1>1, <1>2, <1>3, <2>1, TimeoutPaid
<1>4. CASE LoseToModem \/ LoseToHost
  <2>1. /\ UNCHANGED <<openVars, requests, sending, ctrl, strays>>
        /\ \/ toModem # <<>> /\ toModem' = Tail(toModem) /\ UNCHANGED toHost
           \/ toHost # <<>> /\ toHost' = Tail(toHost) /\ UNCHANGED toModem
    BY <1>4 DEF LoseToModem, LoseToHost, txVars, modemVars
  <2>2. \A D, Q : Paired(D, Q) => Soon(D, Q) <= Now(D, Q)
    BY <2>1, HeadTotal
  <2>3. QED
    BY <1>1, <1>2, <2>1, <2>2, FlowPaid
<1>5. CASE TransmitFails
  <2>1. /\ UNCHANGED <<openVars, requests, toModem, toHost, ctrl, strays>>
        /\ sending' = <<>>
    BY <1>5 DEF TransmitFails, Tx!TransmitFails, modemVars
  <2>2. ASSUME NEW D, NEW Q PROVE Soon(D, Q) <= Now(D, Q)
    <3> DEFINE A == Asks(D)
    <3>1. /\ Tally(requests, A) \in Nat /\ Tally(sending, A) \in Nat
          /\ Tally(toModem, A) \in Nat /\ Tally(toHost, Q) \in Nat /\ Tally(ctrl, Q) \in Nat
      BY TotalTypes
    <3>2. /\ Tally(requests', A) = Tally(requests, A) /\ Tally(sending', A) = 0
          /\ Tally(toModem', A) = Tally(toModem, A) /\ Tally(toHost', Q) = Tally(toHost, Q)
          /\ Tally(ctrl', Q) = Tally(ctrl, Q)
      BY <2>1, TallyEmpty
    <3> HIDE DEF A
    <3>3. QED
      BY <3>1, <3>2 DEF Now, Soon, Total, A
  <2>3. QED
    BY <1>1, <1>2, <2>1, <2>2, FlowPaid
<1>6. QED
  BY <1>3, <1>4, <1>5 DEF Fault

FaultsInv == Paid /\ faults \in Nat

LEMMA NextPaid ==
  ASSUME IInv, IInv', OnlyUihCarries, RoomForControl, FaultsInv, MCNext
  PROVE  FaultsInv'
<1>1. TypeOK /\ TypeOK' /\ MainInv /\ Len(sending) <= 1
  BY DEF IInv, MainInv, OnlyUihCarries
<1>2. Paid /\ faults \in Nat
  BY DEF FaultsInv
<1>3. ASSUME UNCHANGED <<openVars, faults, strays>>,
             \A D, Q : Paired(D, Q) => Soon(D, Q) = Now(D, Q)
      PROVE  FaultsInv'
  <2>1. Costs' = Costs
    BY <1>3 DEF Costs
  <2>2. QED
    BY <1>1, <1>2, <1>3, <2>1, FlowPaid DEF FaultsInv
<1>4. CASE MCMain
  <2>1. faults' = faults /\ strays' = strays
    BY <1>4 DEF MCMain, Quiet, MainStep, Timeout, modemVars
  <2>2. Costs' = Costs
    BY <2>1 DEF Costs
  <2>3. Paid'
    <3>1. CASE MainStep
      BY <1>1, <1>2, <2>1, <2>2, <3>1, MainPaid
    <3>2. CASE Timeout /\ ~AnswerComing
      BY <1>1, <1>2, <2>1, <2>2, <3>2, TimeoutPaid
    <3>3. QED
      BY <1>4, <3>1, <3>2 DEF MCMain
  <2>4. QED
    BY <1>2, <2>1, <2>3 DEF FaultsInv
<1>5. CASE MCTx
  <2>1. TxStep /\ UNCHANGED <<openVars, faults, strays>>
    BY <1>5 DEF MCTx, TxStep, Quiet, modemVars
  <2>2. QED
    BY <1>1, <1>3, <2>1, TxTotal
<1>6. CASE MCRx
  <2>1. RxStep /\ UNCHANGED <<openVars, faults, strays>>
    BY <1>6 DEF MCRx, RxStep, modemVars
  <2>2. QED
    BY <1>1, <1>3, <2>1, RxTotal
<1>7. ASSUME NEW d \in DataDlcs, MCUser(d) PROVE FaultsInv'
  <2>1. CASE Writer(d)
    <3>1. UNCHANGED <<openVars, faults, strays>>
      BY <1>7, <2>1 DEF MCUser, Writer, Quiet, modemVars
    <3>2. QED
      BY <1>1, <1>3, <2>1, <3>1, WriterTotal
  <2>2. CASE Reader(d)
    <3>1. UNCHANGED <<openVars, faults, strays, requests, sending, toModem, toHost, ctrl>>
      BY <1>7, <2>2 DEF MCUser, Reader, Rx!ReadPipe, Quiet, modemVars, txVars
    <3>2. QED
      BY <1>3, <3>1 DEF Now, Soon
  <2>3. QED
    BY <1>7, <2>1, <2>2 DEF MCUser
<1>8. CASE MCAnswer \/ MCModem
  <2>1. faults' = faults /\ (ModemAnswer \/ ModemRefuse \/ ModemSend)
    BY <1>8 DEF MCAnswer, MCModem, Quiet
  <2>2. QED
    BY <1>1, <1>2, <2>1, ModemPaid DEF FaultsInv
<1>9. CASE Fault
  BY <1>1, <1>2, <1>9, FaultPaid DEF Fault, FaultsInv
<1>10. QED
  BY <1>4, <1>5, <1>6, <1>7, <1>8, <1>9 DEF MCNext

LEMMA InitPaid == MCInit => FaultsInv
<1> SUFFICES ASSUME MCInit PROVE FaultsInv
  OBVIOUS
<1>1. /\ phase = "idle" /\ requests = <<>> /\ sending = <<>> /\ toModem = <<>>
      /\ toHost = <<>> /\ ctrl = <<>> /\ faults = 0 /\ strays = 0
  BY DEF MCInit, Init, Open!Init, Tx!Init, Rx!Init, Modem!Init
<1>2. Abroad = 0
  <2>1. Tally(<<>>, Asks(0 .. 63)) = 0 /\ Tally(<<>>, AnyAnswer) = 0
    BY TallyEmpty
  <2>2. QED
    BY <1>1, <2>1 DEF Abroad, Now, Total
<1>3. QED
  BY <1>1, <1>2 DEF FaultsInv, Paid, Costs

\* start() reports SabmTimeout only when SABM_RETRIES frames were lost, answers
\* late or frames sent unasked, for every number of retries, queue depth and
\* interleaving: a late answer taken for the answer of a later attempt, and the
\* drain that throws away the one awaited, cost the host nothing more.
THEOREM RuntimeOpensDespiteFaults == MCSpec => []OpensDespiteFaults
<1>1. MCSpec => Spec
  BY MCRefines, PTL DEF MCSpec, Spec
<1>2. MCSpec => []IInv
  BY <1>1, RuntimeInvariant, PTL
<1>3. MCSpec => []RoomForControl
  BY <1>1, ControlQueueHasRoom, PTL
<1>4. StreamInv => OnlyUihCarries
  BY DEF StreamInv
<1>5. FaultsInv /\ IInv /\ IInv' /\ OnlyUihCarries /\ RoomForControl /\ [MCNext]_mcVars
        => FaultsInv'
  <2> SUFFICES ASSUME FaultsInv, IInv, IInv', OnlyUihCarries, RoomForControl, [MCNext]_mcVars
               PROVE  FaultsInv'
    OBVIOUS
  <2>1. CASE UNCHANGED mcVars
    BY <2>1
    DEF mcVars, vars, openVars, txVars, rxVars, modemVars, FaultsInv, Paid, Abroad, Others,
        Mine, Unheard, Costs, Now
  <2>2. QED
    BY <2>1, NextPaid
<1>6. FaultsInv => OpensDespiteFaults
  BY DEF FaultsInv, Paid, Costs, OpensDespiteFaults
<1>7. MCSpec => []FaultsInv
  BY InitPaid, StreamInvariant, <1>2, <1>3, <1>4, <1>5, PTL DEF MCSpec
<1>8. QED
  BY <1>6, <1>7, PTL
=============================================================================
