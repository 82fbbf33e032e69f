---------------------------- MODULE FrameDecoder ----------------------------
(***************************************************************************)
(* The byte-fed decoder of cmux-core/src/frame.rs.  feed(b) has one action *)
(* for every state of the decoder; `result` is what the last call returned.*)
(* The history variable `taken` holds the bytes consumed since the opening *)
(* flag, and keeps a whole frame until the next address octet.             *)
(***************************************************************************)
EXTENDS CmuxWire

CONSTANT Bytes   \* the bytes that may arrive
ASSUME BytesAssumption == Bytes \subseteq Byte

VARIABLES state, addr, ctrl, len_byte, info_len, info,  \* FrameDecoder
          result, taken
vars == <<state, addr, ctrl, len_byte, info_len, info, result, taken>>

State == {"Hunt", "Addr", "Ctrl", "Len", "Info", "Fcs", "End"}
DecodeError == {"BadAddress", "BadControl", "BadFcs",
                "TwoByteLengthUnsupported", "MissingEndFlag"}

\* The frame part of a result that carries no frame.
NoFrame == [address |-> from_byte(1), kind |-> "Sabm", pf |-> FALSE,
            info |-> <<>>]
Pending == [is |-> "None", frame |-> NoFrame]
Error(e) == [is |-> e, frame |-> NoFrame]

Init ==
  /\ state = "Hunt"
  /\ addr = 0 /\ ctrl = 0 /\ len_byte = 0 /\ info_len = 0 /\ info = <<>>
  /\ result = Pending
  /\ taken = <<>>

\* MUTANT: the next byte is taken for an address.
reset_without_hunt(e) ==
  /\ state' = "Addr"
  /\ info' = <<>>
  /\ result' = Error(e)
  /\ taken' = <<>>
  /\ UNCHANGED <<addr, ctrl, len_byte, info_len>>

\* A framing error: back to hunting for a flag.
reset_to_hunt(e) ==
  /\ state' = "Hunt"
  /\ info' = <<>>
  /\ result' = Error(e)
  /\ taken' = <<>>
  /\ UNCHANGED <<addr, ctrl, len_byte, info_len>>

\* The byte belongs to a frame still in progress.
Progress(b) == result' = Pending /\ taken' = Append(taken, b)

\* MUTANT: the P/F bit is not looked at.
view_without_pf == [address |-> from_byte(addr), kind |-> from_ctrl(ctrl),
                    pf |-> FALSE, info |-> info]

view == [address |-> from_byte(addr), kind |-> from_ctrl(ctrl),
         pf |-> pf_set(ctrl), info |-> info]

FeedHunt(b) ==
  /\ state = "Hunt"
  /\ state' = IF b = FLAG THEN "Addr" ELSE "Hunt"
  /\ result' = Pending
  /\ UNCHANGED <<addr, ctrl, len_byte, info_len, info, taken>>

\* A repeated flag is fill between frames.
FeedFill(b) ==
  /\ state = "Addr" /\ b = FLAG
  /\ result' = Pending
  /\ taken' = <<>>
  /\ UNCHANGED <<state, addr, ctrl, len_byte, info_len, info>>

\* MUTANT: no test of the EA bit.
FeedAddrUnchecked(b) ==
  /\ state = "Addr" /\ b # FLAG
  /\ addr' = b
  /\ state' = "Ctrl"
  /\ result' = Pending
  /\ taken' = <<b>>
  /\ UNCHANGED <<ctrl, len_byte, info_len, info>>

FeedAddr(b) ==
  /\ state = "Addr" /\ b # FLAG
  /\ \/ /\ ~IsAddress(b)
        /\ reset_to_hunt("BadAddress")
     \/ /\ IsAddress(b)
        /\ addr' = b
        /\ state' = "Ctrl"
        /\ result' = Pending
        /\ taken' = <<b>>
        /\ UNCHANGED <<ctrl, len_byte, info_len, info>>

FeedCtrl(b) ==
  /\ state = "Ctrl"
  /\ \/ /\ ~IsControl(b)
        /\ reset_to_hunt("BadControl")
     \/ /\ IsControl(b)
        /\ ctrl' = b
        /\ state' = "Len"
        /\ Progress(b)
        /\ UNCHANGED <<addr, len_byte, info_len, info>>

\* MUTANT: the EA bit is taken as part of the length.
unshifted_length(b) == b

length(b) == b \div 2

\* MUTANT: the info of an earlier frame is not cleared.
FeedLenKeepsInfo(b) ==
  /\ state = "Len"
  /\ \/ /\ b % 2 = 0
        /\ reset_to_hunt("TwoByteLengthUnsupported")
     \/ /\ b % 2 = 1
        /\ len_byte' = b
        /\ info_len' = length(b)
        /\ state' = IF length(b) = 0 THEN "Fcs" ELSE "Info"
        /\ Progress(b)
        /\ UNCHANGED <<addr, ctrl, info>>

FeedLen(b) ==
  /\ state = "Len"
  /\ \/ /\ b % 2 = 0
        /\ reset_to_hunt("TwoByteLengthUnsupported")
     \/ /\ b % 2 = 1
        /\ len_byte' = b
        /\ info_len' = length(b)
        /\ info' = <<>>
        /\ state' = IF length(b) = 0 THEN "Fcs" ELSE "Info"
        /\ Progress(b)
        /\ UNCHANGED <<addr, ctrl>>

\* Vec::push: a byte that does not fit is refused, and feed() ignores that.
push(b) ==
  info' = IF Len(info) < MAX_INFO_LEN THEN Append(info, b) ELSE info

\* MUTANT: the length is compared before the byte is pushed.
FeedInfoLate(b) ==
  /\ state = "Info"
  /\ push(b)
  /\ state' = IF Len(info) = info_len THEN "Fcs" ELSE "Info"
  /\ Progress(b)
  /\ UNCHANGED <<addr, ctrl, len_byte, info_len>>

FeedInfo(b) ==
  /\ state = "Info"
  /\ push(b)
  /\ state' = IF Len(info') = info_len THEN "Fcs" ELSE "Info"
  /\ Progress(b)
  /\ UNCHANGED <<addr, ctrl, len_byte, info_len>>

FeedFcs(b) ==
  /\ state = "Fcs"
  /\ \/ /\ ~check(<<addr, ctrl, len_byte>>, b)
        /\ reset_to_hunt("BadFcs")
     \/ /\ check(<<addr, ctrl, len_byte>>, b)
        /\ state' = "End"
        /\ Progress(b)
        /\ UNCHANGED <<addr, ctrl, len_byte, info_len, info>>

\* The closing flag may also be the next frame's opening flag.
FeedEnd(b) ==
  /\ state = "End"
  /\ \/ /\ b # FLAG
        /\ reset_to_hunt("MissingEndFlag")
     \/ /\ b = FLAG
        /\ state' = "Addr"
        /\ result' = [is |-> "Frame", frame |-> view]
        /\ taken' = Append(taken, b)
        /\ UNCHANGED <<addr, ctrl, len_byte, info_len, info>>

feed(b) ==
  \/ FeedHunt(b) \/ FeedFill(b) \/ FeedAddr(b) \/ FeedCtrl(b) \/ FeedLen(b)
  \/ FeedInfo(b) \/ FeedFcs(b) \/ FeedEnd(b)

Next == \E b \in Bytes : feed(b)
Spec == Init /\ [][Next]_vars

-----------------------------------------------------------------------------
View == [address : Address, kind : FrameKind, pf : BOOLEAN, info : Seq(Byte)]
Result == [is : {"None", "Frame"} \cup DecodeError, frame : View]

TypeOK ==
  /\ state \in State
  /\ addr \in Byte /\ ctrl \in Byte /\ len_byte \in Byte
  /\ info_len \in 0 .. MAX_INFO_LEN
  /\ info \in Seq(Byte)
  /\ taken \in Seq(Byte)
  /\ result \in Result

\* A byte pushed into `info` is never refused: whatever has been received
\* before, the buffer still has room for every byte the length octet
\* announced ("info_len is at most 127, so this never overflows").
InfoFits ==
  state = "Info" => Len(info) < info_len /\ info_len <= MAX_INFO_LEN

\* The two expect() calls of view() cannot panic: once the decoder is past
\* the address (control) octet, the octet it kept is one the parser accepts,
\* although octets of earlier, broken frames are never erased.
ViewCannotPanic ==
  /\ state \in {"Ctrl", "Len", "Info", "Fcs", "End"} => IsAddress(addr)
  /\ state \in {"Len", "Info", "Fcs", "End"} => IsControl(ctrl)

\* The bytes w, closing flag included, are a frame with view v.
IsWireFrame(w, v) ==
  /\ Len(w) = Len(v.info) + 5
  /\ IsAddress(w[1]) /\ v.address = from_byte(w[1])
  /\ IsControl(w[2]) /\ v.kind = from_ctrl(w[2]) /\ v.pf = pf_set(w[2])
  /\ w[3] % 2 = 1 /\ w[3] \div 2 = Len(v.info)
  /\ \A i \in 1 .. Len(v.info) : w[i + 3] = v.info[i]
  /\ check(<<w[1], w[2], w[3]>>, w[Len(v.info) + 4])
  /\ w[Len(v.info) + 5] = FLAG

\* A frame the decoder delivers is exactly the bytes received since the last
\* flag: nothing of an abandoned or an earlier frame is left in its header
\* or its info, and no byte of it is missing.
DeliveredIsWireFrame ==
  result.is = "Frame" => IsWireFrame(taken, result.frame)

\* Encoding a delivered frame gives the received bytes back: the decoder
\* accepts only what the encoder could have written.
DeliveredReencodes ==
  result.is = "Frame" =>
    LET v == result.frame
        f == [dlci |-> v.address.dlci,
              role |-> IF v.address.cr THEN "Command" ELSE "Response",
              kind |-> v.kind, pf |-> v.pf, info |-> v.info]
    IN  encode(f, wire_len(MAX_INFO_LEN)).out = <<FLAG>> \o taken

\* However wrong the stream, the decoder holds at most the 132 octets of the
\* longest frame before it delivers or returns to hunting for a flag.
SwallowsAtMostOneFrame ==
  Len(taken) <= wire_len(MAX_INFO_LEN) - 1 /\ Len(info) <= MAX_INFO_LEN

-----------------------------------------------------------------------------
(* What the registers and the history mean in each state: the inductive    *)
(* strengthening of the invariants above.                                  *)

KeepsHeader ==
  /\ taken[1] = addr /\ taken[2] = ctrl /\ taken[3] = len_byte
  /\ len_byte % 2 = 1 /\ info_len = len_byte \div 2
  /\ \A i \in 1 .. Len(info) : taken[i + 3] = info[i]

Registers ==
  /\ Len(info) <= MAX_INFO_LEN
  /\ state = "Hunt" => Len(taken) = 0
  /\ state = "Addr" => Len(taken) <= wire_len(MAX_INFO_LEN) - 1
  /\ state = "Ctrl" => Len(taken) = 1 /\ taken[1] = addr
  /\ state = "Len" => Len(taken) = 2 /\ taken[1] = addr /\ taken[2] = ctrl
  /\ state \in {"Info", "Fcs"} => KeepsHeader /\ Len(taken) = Len(info) + 3
  /\ state = "End" => /\ KeepsHeader /\ Len(taken) = Len(info) + 4
                      /\ check(<<taken[1], taken[2], taken[3]>>, taken[Len(info) + 4])
  /\ state \in {"Fcs", "End"} => Len(info) = info_len

IInv ==
  /\ TypeOK
  /\ ViewCannotPanic
  /\ InfoFits
  /\ Registers
  /\ DeliveredIsWireFrame
  /\ result.is = "Frame" => state = "Addr"
=============================================================================
