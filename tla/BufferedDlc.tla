----------------------------- MODULE BufferedDlc -----------------------------
(***************************************************************************)
(* The BufRead adapter of net/buffered.rs over the RX pipe of DLC2 (rx).   *)
(* `buf` is the valid part of its array.  A fill_buf() that is cancelled   *)
(* before the pipe has a byte for it has changed nothing.                  *)
(***************************************************************************)
EXTENDS Naturals, Sequences

CONSTANT BUF  \* 256

VARIABLES rx, buf, pos,
          lastOut  \* history: the last byte handed out

Init == buf = <<>> /\ pos = 0

unread == SubSeq(buf, pos + 1, Len(buf))

\* MUTANT: refills whatever is still unread.
fill_buf_always ==
  /\ \E k \in 1 .. Len(rx) :
       /\ k <= BUF
       /\ buf' = SubSeq(rx, 1, k)
       /\ rx' = SubSeq(rx, k + 1, Len(rx))
  /\ pos' = 0
  /\ UNCHANGED lastOut

\* Reads the pipe only when the buffer is used up.
fill_buf ==
  /\ pos >= Len(buf)
  /\ \E k \in 1 .. Len(rx) :
       /\ k <= BUF
       /\ buf' = SubSeq(rx, 1, k)
       /\ rx' = SubSeq(rx, k + 1, Len(rx))
  /\ pos' = 0
  /\ UNCHANGED lastOut

\* The user takes amt of the bytes fill_buf() showed it, or copies them out
\* with read().
consume(amt) ==
  /\ amt \in 1 .. Len(buf) - pos
  /\ pos' = pos + amt
  /\ lastOut' = buf[pos + amt]
  /\ UNCHANGED <<rx, buf>>

\* read() with an empty buffer goes to the pipe itself.
read ==
  /\ pos >= Len(buf)
  /\ \E k \in 1 .. Len(rx) :
       /\ lastOut' = rx[k]
       /\ rx' = SubSeq(rx, k + 1, Len(rx))
  /\ UNCHANGED <<buf, pos>>
=============================================================================
