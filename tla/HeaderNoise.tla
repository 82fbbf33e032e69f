----------------------------- MODULE HeaderNoise -----------------------------
(***************************************************************************)
(* A header and its FCS cross the UART, which flips bits on the way.  The  *)
(* module exercises the pure functions of CmuxWire: what the encoder       *)
(* writes, the parsers read back, and the check lets no small error pass.  *)
(***************************************************************************)
EXTENDS CmuxWire, FiniteSets

CONSTANTS SentDlcis,   \* DLCIs of the frames sent
          SentLengths, \* lengths of their info fields
          MaxFlips     \* bits the line may flip in one header

ASSUME NoiseAssumption ==
  /\ SentDlcis \subseteq 0 .. 63
  /\ SentLengths \subseteq 0 .. MAX_INFO_LEN
  /\ MaxFlips \in Nat

VARIABLES frame,    \* the frame sent
          sent,     \* its three header octets and its FCS
          received, \* the same four octets at the decoder
          flipped   \* the positions flipped, 8 to an octet
vars == <<frame, sent, received, flipped>>

\* Header and FCS as the encoder puts them on the wire.
Protected(f) ==
  LET wire == encode(f, wire_len(MAX_INFO_LEN)).out
  IN  SubSeq(wire, 2, 4) \o << wire[Len(wire) - 1] >>

Init ==
  /\ \E d \in SentDlcis, r \in Role, k \in FrameKind, pf \in BOOLEAN,
        n \in SentLengths :
       frame = [dlci |-> d, role |-> r, kind |-> k, pf |-> pf,
                info |-> [i \in 1 .. n |-> 0]]
  /\ sent = Protected(frame)
  /\ received = sent
  /\ flipped = {}

\* Positions are flipped in ascending order: the order makes no difference.
Flip(i) ==
  /\ Cardinality(flipped) < MaxFlips
  /\ \A j \in flipped : j < i
  /\ received' = [received EXCEPT ![i \div 8 + 1] = Xor(@, 2^(i % 8))]
  /\ flipped' = flipped \cup {i}
  /\ UNCHANGED <<frame, sent>>

Next == \E i \in 0 .. 31 : Flip(i)
Spec == Init /\ [][Next]_vars

-----------------------------------------------------------------------------
(* Polynomial division, the definition the table of fcs.rs shortcuts.      *)

\* x^8 + x^2 + x + 1, highest power first.
POLY == <<1, 0, 0, 0, 0, 0, 1, 1, 1>>

\* The bits of the octets in the order the UART sends them, followed by
\* eight zeros, with the first eight inverted (the initial value 0xFF).
Dividend(octets) ==
  [p \in 1 .. 8 * Len(octets) + 8 |->
     LET b == IF p > 8 * Len(octets) THEN 0
              ELSE Bit(octets[(p - 1) \div 8 + 1], (p - 1) % 8)
     IN  IF p <= 8 THEN 1 - b ELSE b]

Remainder(octets) ==
  LET step[k \in 0 .. 8 * Len(octets)] ==
        IF k = 0 THEN Dividend(octets)
        ELSE LET p == step[k - 1]
             IN  IF p[k] = 0 THEN p
                 ELSE [q \in DOMAIN p |->
                         IF q \in k .. k + 8
                         THEN (p[q] + POLY[q - k + 1]) % 2 ELSE p[q]]
  IN  SubSeq(step[8 * Len(octets)], 8 * Len(octets) + 1, 8 * Len(octets) + 8)

\* The FCS octet whose bits, lowest first, are the inverted remainder.
ReferenceFcs(octets) ==
  LET rem == Remainder(octets)
      sum[i \in 0 .. 8] ==
        IF i = 0 THEN 0 ELSE sum[i - 1] + 2^(i - 1) * (1 - rem[i])
  IN  sum[8]

-----------------------------------------------------------------------------
\* The FCS the encoder appends is the one's complement of the remainder of
\* the header modulo x^8 + x^2 + x + 1, though the code only ever consults
\* its reflected table (fcs.rs, build_table and update).
FcsIsPolynomialRemainder ==
  flipped = {} => sent[4] = ReferenceFcs(SubSeq(sent, 1, 3))

\* The parsers of address.rs and control.rs give back what the encoder was
\* asked to send: DLCI, role, kind, P/F and length survive the wire.
HeaderRoundTrip ==
  flipped = {} =>
    /\ IsAddress(received[1]) /\ IsControl(received[2])
    /\ from_byte(received[1]) = outgoing(frame.dlci, frame.role)
    /\ from_ctrl(received[2]) = frame.kind
    /\ pf_set(received[2]) = frame.pf
    /\ received[3] \div 2 = Len(frame.info)

\* The residue test of check() accepts a header exactly when no bit of it
\* is wrong, as long as at most MaxFlips are: a header damaged that little is
\* never taken for another one.
CheckDetectsFlips ==
  check(SubSeq(received, 1, 3), received[4]) <=> flipped = {}
=============================================================================
