------------------------------ MODULE DlcStream ------------------------------
(***************************************************************************)
(* What one direction of a DLC promises its users: a FIFO of bytes.  Bytes *)
(* come out in the order they went in, none twice; each fault may take a   *)
(* run of consecutive bytes (the payload of a frame) and nothing else.     *)
(***************************************************************************)
EXTENDS Naturals, Sequences

VARIABLES put,    \* bytes put in so far: byte i is the number i
          fifo,   \* bytes on their way
          last,   \* the last byte that came out
          faults  \* how many there were
vars == <<put, fifo, last, faults>>

Init == put = 0 /\ fifo = <<>> /\ last = 0 /\ faults = 0

Put ==
  /\ put' > put
  /\ fifo' = fifo \o [i \in 1 .. put' - put |-> put + i]
  /\ UNCHANGED <<last, faults>>

Get ==
  \E k \in 1 .. Len(fifo) :
    /\ last' = fifo[k]
    /\ fifo' = SubSeq(fifo, k + 1, Len(fifo))
    /\ UNCHANGED <<put, faults>>

\* A fault costs one run of bytes, or none.
Lose ==
  /\ faults' = faults + 1
  /\ \/ UNCHANGED fifo
     \/ \E i, j \in 1 .. Len(fifo) :
          /\ i <= j
          /\ fifo' = SubSeq(fifo, 1, i - 1) \o SubSeq(fifo, j + 1, Len(fifo))
  /\ UNCHANGED <<put, last>>

Next == Put \/ Get \/ Lose
Spec == Init /\ [][Next]_vars
=============================================================================
