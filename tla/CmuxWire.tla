------------------------------ MODULE CmuxWire ------------------------------
(***************************************************************************)
(* The wire format of 3GPP TS 27.010 basic mode as cmux-core implements it *)
(* (address.rs, control.rs, fcs.rs and the encoder of frame.rs).  A byte   *)
(* is a number of 0..255; masks and shifts are arithmetic on its bits.     *)
(***************************************************************************)
EXTENDS Naturals, Sequences, SequencesExt

Byte == 0 .. 255
FLAG == 249
MAX_INFO_LEN == 127

Bit(x, i) == (x \div 2^i) % 2

\* Exclusive or of two bytes.
Xor(a, b) ==
  LET low[i \in 0 .. 8] ==      \* of the i low bits
        IF i = 0 THEN 0
        ELSE low[i - 1] + 2^(i - 1) * ((Bit(a, i - 1) + Bit(b, i - 1)) % 2)
  IN  low[8]

-----------------------------------------------------------------------------
(* Address octet: DLCI in bits 7..2, C/R in bit 1, EA in bit 0.            *)

Role == {"Command", "Response"}
Address == [dlci : 0 .. 63, cr : BOOLEAN, ea : BOOLEAN]

outgoing(dlci, role) == [dlci |-> dlci, cr |-> role = "Command", ea |-> TRUE]

to_byte(a) ==
  4 * (a.dlci % 64) + (IF a.cr THEN 2 ELSE 0) + (IF a.ea THEN 1 ELSE 0)

\* from_byte is None unless the EA bit is set.
IsAddress(b) == b % 2 = 1
\* MUTANT: shifts the C/R bit into the DLCI.
from_byte_shift1(b) ==
  [dlci |-> (b \div 2) % 64, cr |-> Bit(b, 1) = 1, ea |-> TRUE]

from_byte(b) ==
  [dlci |-> (b \div 4) % 64, cr |-> Bit(b, 1) = 1, ea |-> TRUE]

-----------------------------------------------------------------------------
(* Control octet: one opcode per kind of frame, P/F in bit 4.              *)

FrameKind == {"Sabm", "Ua", "Dm", "Disc", "Uih"}
PF_MASK == 16

base == [Sabm |-> 47, Ua |-> 99, Dm |-> 15, Disc |-> 67, Uih |-> 239]

pf_set(ctrl) == Bit(ctrl, 4) = 1
opcode(ctrl) == IF pf_set(ctrl) THEN ctrl - PF_MASK ELSE ctrl

\* from_ctrl is None for the control octets outside IsControl.
IsControl(ctrl) == \E k \in FrameKind : base[k] = opcode(ctrl)
from_ctrl(ctrl) == CHOOSE k \in FrameKind : base[k] = opcode(ctrl)

to_ctrl(kind, pf) == IF pf THEN base[kind] + PF_MASK ELSE base[kind]

-----------------------------------------------------------------------------
(* Frame check sequence: CRC-8 with the reflected polynomial 0xE0, over    *)
(* the address, control and length octets only.                            *)

INIT == 255
GOOD_FCS == 207

\* The table entry of i after j of the eight shifts that build it.
shifted[j \in 0 .. 8] ==
  [i \in Byte |->
     IF j = 0 THEN i
     ELSE LET crc == shifted[j - 1][i]
          IN  IF crc % 2 = 1 THEN Xor(crc \div 2, 224) ELSE crc \div 2]

TABLE == shifted[8]

update(crc, byte) == TABLE[Xor(crc, byte)]
run(bytes) == FoldLeft(update, INIT, bytes)
\* MUTANT: the running CRC goes out uninverted.
fcs_uninverted(header) == run(header)

fcs(header) == 255 - run(header)

\* MUTANT: compares with the running CRC instead of testing the residue.
check_uninverted(header, received_fcs) == received_fcs = run(header)

check(header, received_fcs) == update(run(header), received_fcs) = GOOD_FCS

-----------------------------------------------------------------------------
(* The encoder.  A frame is what encode() takes: DLCI, role, kind, P/F and *)
(* the info bytes.  out_len is the size of the caller's buffer.            *)

Frame == [dlci : 0 .. 63, role : Role, kind : FrameKind, pf : BOOLEAN,
          info : Seq(Byte)]

sabm(dlci) == [dlci |-> dlci, role |-> "Command", kind |-> "Sabm",
               pf |-> TRUE, info |-> <<>>]
disc(dlci) == [sabm(dlci) EXCEPT !.kind = "Disc"]
uih(dlci, info) == [dlci |-> dlci, role |-> "Command", kind |-> "Uih",
                    pf |-> FALSE, info |-> info]

wire_len(info_len) == info_len + 6

\* The three octets the FCS covers.
header(frame) ==
  << to_byte(outgoing(frame.dlci, frame.role)),
     to_ctrl(frame.kind, frame.pf),
     (2 * Len(frame.info) + 1) % 256 >>

encode(frame, out_len) ==
  LET Fails(e) == [error |-> e, out |-> <<>>]
      n == Len(frame.info)
  IN  IF n > MAX_INFO_LEN THEN Fails("InfoTooLong")
      ELSE IF out_len < wire_len(n) THEN Fails("OutputTooSmall")
      ELSE [error |-> "None",
            out |-> <<FLAG>> \o header(frame) \o frame.info
                      \o << fcs(header(frame)), FLAG >>]
=============================================================================
