--------------------------- MODULE MCFrameDecoder ---------------------------
(***************************************************************************)
(* FrameDecoder with the bytes bounded for TLC.  A FLAG or a control octet *)
(* taken for a length announces up to 124 info bytes: only the first       *)
(* FreeInfo of them range over Bytes, the rest are Filler.                 *)
(***************************************************************************)
EXTENDS FrameDecoder

CONSTANTS FreeInfo, Filler
ASSUME FillerAssumption == FreeInfo \in Nat /\ Filler \in Bytes

Arriving ==
  IF state = "Info" /\ Len(info) >= FreeInfo THEN {Filler} ELSE Bytes

MCNext == \E b \in Arriving : feed(b)
MCSpec == Init /\ [][MCNext]_vars
=============================================================================
