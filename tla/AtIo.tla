-------------------------------- MODULE AtIo --------------------------------
(***************************************************************************)
(* The line reader of bringup.rs over the raw modem UART.  The body of a   *)
(* line and its end are two pieces that may arrive in different reads.     *)
(***************************************************************************)
EXTENDS Naturals, Sequences, SequencesExt

VARIABLES rx,   \* pieces received by the UART and not yet read
          held  \* what the reader holds: `buf` during a read_line(), and
                \* `leftover` between two of them

\* `of` tells which command an answer belongs to (0: none), `fields` what is
\* between the commas.
Line(text, of, fields) == [text |-> text, of |-> of, fields |-> fields]
LF == Line("LF", 0, <<>>)

HasLine == LF \in ToSet(held)

\* The first line held, a blank one if its body was lost, and what follows.
line == IF Head(held) = LF THEN Line("", 0, <<>>) ELSE Head(held)
after == SubSeq(held, Min({i \in DOMAIN held : held[i] = LF}) + 1, Len(held))

\* read_line() awaits the UART for want of a whole line.
ReadSome ==
  /\ ~HasLine
  /\ \E k \in 1 .. Len(rx) :
       /\ held' = held \o SubSeq(rx, 1, k)
       /\ rx' = SubSeq(rx, k + 1, Len(rx))

\* with_timeout gives up read_line(), and with it the piece of a line it had.
Cancel ==
  /\ ~HasLine /\ rx = <<>>
  /\ held' = <<>>
  /\ UNCHANGED rx

\* A step of drain() within its window.
drain_some ==
  /\ rx # <<>>
  /\ rx' = <<>> /\ held' = <<>>
=============================================================================
