----------------------------- MODULE StatusTask -----------------------------
(***************************************************************************)
(* status_task of app/status.rs: polls the modem over DLC1 for ever, each  *)
(* time reading its RX pipe (rx) into a bounded accumulator until an OK or *)
(* an ERROR shows up there or three seconds are over.  The windows of 500  *)
(* ms only make it look at the clock.                                      *)
(***************************************************************************)
EXTENDS Naturals, Sequences

CONSTANTS ACC,       \* 256 bytes, here in lines
          Numbering  \* bound: commands are numbered modulo this

VARIABLES rx, out,
          status,  \* "off", "drain", "poll", "pause"
          acc,     \* the accumulator of the poll
          dropped, \* history: a chunk was refused for want of room in it
          nsent    \* number of the last command

Init == status = "off" /\ acc = <<>> /\ dropped = FALSE /\ nsent = 0

\* main() spawns the task.
Spawn == status = "off" /\ status' = "drain" /\ UNCHANGED <<rx, out, acc, dropped, nsent>>

\* What the bring-up left in the pipe is burnt.
DrainSome ==
  /\ status = "drain" /\ \E k \in 1 .. Len(rx) : rx' = SubSeq(rx, k + 1, Len(rx))
  /\ UNCHANGED <<status, out, acc, dropped, nsent>>
DrainEnds ==
  /\ status = "drain" /\ rx = <<>> /\ status' = "pause"
  /\ UNCHANGED <<rx, out, acc, dropped, nsent>>

\* AT+CSQ or AT+CREG?, after a pause of 2 or 30 seconds.
Poll ==
  /\ status = "pause" /\ status' = "poll"
  /\ nsent' = (nsent + 1) % Numbering
  /\ out' = Append(out, nsent')
  /\ acc' = <<>> /\ dropped' = FALSE
  /\ UNCHANGED rx

\* MUTANT: a poll is over with the line that carries the value.
EndsWithValue(a) ==
  \E i \in DOMAIN a : a[i].text \in {"+CSQ:", "OK", "ERROR"}

\* MUTANT: only the start of the accumulator is looked at.
EndsAtStart(a) == a # <<>> /\ a[1].text \in {"OK", "ERROR"}

\* The poll is over: the accumulator is UTF-8 and has an OK or an ERROR at
\* the start of some line.  "+CME ERROR" is neither.
Ends(a) ==
  /\ \A i \in DOMAIN a : a[i].text # "noise"
  /\ \E i \in DOMAIN a : a[i].text \in {"OK", "ERROR"}

\* A chunk that does not fit is dropped as a whole.
PollRead ==
  /\ status = "poll"
  /\ \E k \in 1 .. Len(rx) :
       LET fits == Len(acc) + k <= ACC
       IN  /\ rx' = SubSeq(rx, k + 1, Len(rx))
           /\ acc' = IF fits THEN acc \o SubSeq(rx, 1, k) ELSE acc
           /\ dropped' = (dropped \/ ~fits)
  /\ status' = IF Ends(acc') THEN "pause" ELSE "poll"
  /\ UNCHANGED <<out, nsent>>

\* MUTANT: the first error ends the task.
DeadlineFatal ==
  /\ status = "poll" /\ status' = "dead"
  /\ UNCHANGED <<rx, out, acc, dropped, nsent>>

\* StatusError::Timeout, which status_task() only logs.
Deadline ==
  /\ status = "poll" /\ status' = "pause"
  /\ UNCHANGED <<rx, out, acc, dropped, nsent>>
=============================================================================
