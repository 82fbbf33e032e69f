------------------------------ MODULE StartPpp ------------------------------
(***************************************************************************)
(* start_ppp() of bringup.rs: AT+CGDATA on DLC2, then lines until CONNECT, *)
(* with the line reader of the bring-up over the RX pipe of the DLC (rx).  *)
(***************************************************************************)
EXTENDS AtIo

VARIABLE ppp  \* "call", "reply", or how start_ppp() returned

Init == ppp = "call" /\ held = <<>>

\* The command is in the TX queue.
Send == ppp = "call" /\ ppp' = "reply" /\ UNCHANGED <<rx, held>>

Read == ppp = "reply" /\ ReadSome /\ UNCHANGED ppp

\* How a line ends the wait, if it does.
verdict ==
  CASE line.text = "CONNECT" -> "connected"
    [] line.text = "ERROR" -> "failed"
    [] OTHER -> "reply"

\* What is read is no line of text: not UTF-8, or LINE_BUF is full without an
\* LF, as by PPP when the CONNECT before it was lost.
Unreadable == held # <<>> /\ Head(held).text \in {"noise", "ppp"}

\* MUTANT: the reader does not keep what follows the line.
ReadLineForgets ==
  /\ ppp = "reply" /\ HasLine /\ ~Unreadable
  /\ ppp' = verdict
  /\ held' = <<>>
  /\ UNCHANGED rx

\* On return the reader is dropped, with what it had read beyond the line.
ReadLine ==
  /\ ppp = "reply" /\ HasLine /\ ~Unreadable
  /\ ppp' = verdict
  /\ held' = IF ppp' = "reply" THEN after ELSE <<>>
  /\ UNCHANGED rx

\* Err(Error::Io), from the line reader: the DLC itself has no errors.
ReadFails ==
  /\ ppp = "reply" /\ Unreadable
  /\ ppp' = "io" /\ held' = <<>>
  /\ UNCHANGED rx

\* No whole line within COMMAND_TIMEOUT.
Timeout == ppp = "reply" /\ Cancel /\ ppp' = "timeout"
=============================================================================
