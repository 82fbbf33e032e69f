------------------------------ MODULE CmuxTypes ------------------------------
(***************************************************************************)
(* Vocabulary of the CMUX runtime (firmware/src/cmux): the frames on the   *)
(* line, the requests and the events in its two queues, and its constants. *)
(* A payload byte is its number in the stream of its DLC, so that a byte   *)
(* lost, repeated or out of place can be told from the one expected.       *)
(***************************************************************************)
EXTENDS Naturals, Sequences, SequencesExt, FiniteSets

CONSTANTS SABM_RETRIES,      \* 3
          TX_QUEUE_DEPTH,    \* 16
          CTRL_QUEUE_DEPTH,  \* 8
          DLC1_PIPE_BYTES,   \* 512
          DLC2_PIPE_BYTES,   \* 4096
          MAX_INFO_LEN       \* 127

Dlcs == 0 .. 2        \* the DLCs that start() opens
DataDlcs == {1, 2}    \* those it returns handles for

PIPE_BYTES(d) == IF d = 1 THEN DLC1_PIPE_BYTES ELSE DLC2_PIPE_BYTES

\* A decoded frame, as far as its reader distinguishes it.
FrameKind == {"Sabm", "Ua", "Dm", "Disc", "Uih"}
Frame == [kind : FrameKind, dlci : 0 .. 63, info : Seq(Nat)]
Sabm(d) == [kind |-> "Sabm", dlci |-> d, info |-> <<>>]
Ua(d) == [kind |-> "Ua", dlci |-> d, info |-> <<>>]
Dm(d) == [kind |-> "Dm", dlci |-> d, info |-> <<>>]
Uih(d, info) == [kind |-> "Uih", dlci |-> d, info |-> info]

\* TxReq::Data and TxReq::Sabm (TxReq::Disc is never constructed).
TxReq == [kind : {"Data", "Sabm"}, dlci : 0 .. 63, info : Seq(Nat)]
Data(d, info) == [kind |-> "Data", dlci |-> d, info |-> info]

\* The control event of a frame is named after it.
ControlKinds == {"Ua", "Dm", "Disc"}
ControlEvt == [kind : ControlKinds, dlci : 0 .. 63]

\* How many elements of the queue s are of a kind in K.
CountIn(s, K) == Cardinality({i \in 1 .. Len(s) : s[i].kind \in K})

\* The payload bytes of DLC d in a queue of frames or requests.
Payload(s, d) ==
  FlattenSeq([i \in DOMAIN s |-> IF s[i].dlci = d THEN s[i].info ELSE <<>>])

\* The n bytes that follow byte b of a stream.
BytesAfter(b, n) == [i \in 1 .. n |-> b + i]
=============================================================================
