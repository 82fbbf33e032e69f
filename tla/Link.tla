-------------------------------- MODULE Link --------------------------------
(***************************************************************************)
(* The bytes between the modem's encoder and the decoder of                *)
(* dispatcher_task: a UART without flow control that may lose, damage or   *)
(* insert bytes.  The dispatcher logs an error and goes on, with the       *)
(* decoder in whatever state it was; nothing else puts it back in step.    *)
(***************************************************************************)
EXTENDS FrameDecoder, SequencesExt

CONSTANTS Traffic,   \* the frames the modem sends, over and over
          Noise,     \* the bytes that damage or insertion may give
          MaxFaults  \* bound: bytes lost, damaged or inserted
ASSUME LinkAssumption == Noise \subseteq Byte /\ MaxFaults \in Nat

wire == [i \in DOMAIN Traffic |-> encode(Traffic[i], wire_len(MAX_INFO_LEN)).out]

\* Any frames, with any octets in their infos: the basic mode has no byte
\* stuffing.  Only an address octet that is a FLAG, which no decoder can tell
\* from an opening flag, is left out: it is that of DLC 62, and the firmware
\* opens 0 to 2.
ASSUME TrafficAssumption ==
  /\ Traffic \in Seq(Frame)
  /\ \A i \in DOMAIN Traffic :
       Len(Traffic[i].info) <= MAX_INFO_LEN /\ wire[i][2] # FLAG

VARIABLES frameNo, offset, \* the next byte of Traffic on the line
          clean,           \* bytes carried since the last fault or FlagInside,
                           \* up to RESYNC
          due,             \* must the frames on the line arrive?
          faults           \* how many faults there were
linkVars == <<vars, frameNo, offset, clean, due, faults>>

current == wire[frameNo][offset]

\* An octet of a frame that a decoder out of step takes for a flag.
FlagInside == current = FLAG /\ offset \notin {1, Len(wire[frameNo])}

\* How many bytes after a fault the decoder may still be out of step: what it
\* takes for an address, a control and a length octet, the 127 bytes that
\* this length promises, and what it takes for their FCS.
RESYNC == 3 + MAX_INFO_LEN + 1

Advance ==
  IF offset < Len(wire[frameNo])
  THEN offset' = offset + 1 /\ UNCHANGED frameNo
  ELSE offset' = 1 /\ frameNo' = (frameNo % Len(Traffic)) + 1

\* dispatcher_task starts listening in the middle of anything.
LinkInit ==
  /\ Init
  /\ frameNo \in DOMAIN Traffic /\ offset \in DOMAIN wire[frameNo]
  /\ clean = 0 /\ due = FALSE /\ faults = 0

Carry ==
  /\ feed(current) /\ Advance
  /\ clean' = IF FlagInside THEN 0 ELSE IF clean < RESYNC THEN clean + 1 ELSE clean
  /\ due' = (due \/ (offset = 1 /\ clean = RESYNC))
  /\ UNCHANGED faults

\* "modem UART RX error": an overrun.
Lose == Advance /\ UNCHANGED vars

Damage == Advance /\ \E b \in Noise \ {current} : feed(b)

Insert == (\E b \in Noise : feed(b)) /\ UNCHANGED <<frameNo, offset>>

Fault ==
  /\ faults < MaxFaults
  /\ Lose \/ Damage \/ Insert
  /\ faults' = faults + 1 /\ clean' = 0 /\ due' = FALSE

LinkNext == Carry \/ Fault
LinkSpec == LinkInit /\ [][LinkNext]_linkVars

-----------------------------------------------------------------------------
\* The frame f as the decoder should deliver it.
ViewOf(f) == [address |-> from_byte(header(f)[1]), kind |-> f.kind,
              pf |-> f.pf, info |-> f.info]

\* Once RESYNC bytes without a FLAG inside a frame have come, since the last
\* fault or since the dispatcher started to listen, every frame is delivered
\* with its closing flag until the next fault, whatever it holds: a lost,
\* damaged or inserted byte costs none beyond that, and a payload full of FLAGs
\* never puts the decoder out of step.
Resync ==
  [][due' /\ offset = Len(wire[frameNo]) /\ offset' = 1
       => result' = [is |-> "Frame", frame |-> ViewOf(Traffic[frameNo])]]_linkVars

-----------------------------------------------------------------------------
(* When the decoder is in step, and how long it can be out of step: the    *)
(* inductive strengthening of Resync.                                      *)

\* The decoder has what the octets of the frame on the line up to `offset`
\* say.  Before a frame it need only be where a FLAG makes it start one.
InStep ==
  LET w == wire[frameNo]
      data == Traffic[frameNo].info
      Header == /\ addr = w[2] /\ ctrl = w[3] /\ len_byte = w[4]
                /\ info_len = Len(data)
  IN  \/ offset = 1 /\ state \in {"Hunt", "Addr", "End"}
      \/ offset = 2 /\ state = "Addr"
      \/ offset = 3 /\ state = "Ctrl" /\ addr = w[2]
      \/ offset = 4 /\ state = "Len" /\ addr = w[2] /\ ctrl = w[3]
      \/ /\ offset \in 5 .. Len(data) + 4
         /\ state = "Info" /\ Header /\ info = SubSeq(data, 1, offset - 5)
      \/ offset = Len(data) + 5 /\ state = "Fcs" /\ Header /\ info = data
      \/ offset = Len(data) + 6 /\ state = "End" /\ Header /\ info = data

\* Out of step it is at most so far from giving up: in "Hunt" and "End" the
\* next FLAG puts it in step, which is one of the two around a frame.
Astray ==
  \/ state \in {"Hunt", "End"}
  \/ state = "Addr" /\ clean = 0
  \/ state = "Ctrl" /\ clean <= 1
  \/ state = "Len" /\ clean <= 2
  \/ state = "Info" /\ clean + (info_len - Len(info)) < RESYNC
  \/ state = "Fcs" /\ clean < RESYNC

LinkInv ==
  /\ IInv
  /\ frameNo \in DOMAIN Traffic /\ offset \in DOMAIN wire[frameNo]
  /\ clean \in 0 .. RESYNC /\ due \in BOOLEAN
  /\ InStep \/ Astray
  /\ due => InStep
=============================================================================
