------------------------------- MODULE ModemAt -------------------------------
(***************************************************************************)
(* The AT interpreter of the SIM800 during the bring-up, as far as         *)
(* bringup.rs depends on it: it answers the commands one by one, in the    *)
(* order they came, and reports events unasked.  Not code of this          *)
(* repository.                                                             *)
(***************************************************************************)
EXTENDS AtIo

CONSTANT MaxUrcs  \* bound: result codes the modem sends unasked

VARIABLES out,      \* commands on the line to the modem
          networks, \* those of "+CREG:" and "+CGREG:" it is registered on
          muxed,    \* it has acknowledged AT+CMUX
          rebooted, \* by AT+CFUN=1,1
          urcs      \* result codes sent unasked

Init == networks = {} /\ muxed = FALSE /\ rebooted = FALSE /\ urcs = 0

Networks == {"+CREG:", "+CGREG:"}
stat_of(n) == IF n \in networks THEN 1 ELSE 2

\* The last line of an answer to the command c.
Final(c, verdict) == << Line(verdict, c.of, <<>>), LF >>

Answer(lines) ==
  /\ ~muxed /\ out # <<>>
  /\ rx' = rx \o lines
  /\ UNCHANGED <<held, urcs>>

Queries == {"AT+CPIN?", "AT+CREG?", "AT+CGREG?", "AT+CSQ", "AT+COPS?"}

\* A command that asks for nothing succeeds or fails.  AT+CFUN=1,1 reboots
\* the modem, which forgets the commands it has not come to.
Execute ==
  \E verdict \in {"OK", "ERROR"} :
    LET cmd == Head(out).cmd
        Did(c) == cmd = c /\ verdict = "OK"
    IN  /\ Answer(Final(Head(out), verdict))
        /\ cmd \notin Queries
        /\ out' = IF Did("AT+CFUN=1") THEN <<>> ELSE Tail(out)
        /\ networks' = IF Did("AT+CFUN=1") THEN {} ELSE networks
        /\ rebooted' = (rebooted \/ Did("AT+CFUN=1"))
        /\ muxed' = Did("AT+CMUX=0")

Inform(c, text, fields) ==
  /\ Answer(<< Line(text, Head(out).of, fields), LF >> \o Final(Head(out), "OK"))
  /\ Head(out).cmd = c
  /\ out' = Tail(out)
  /\ UNCHANGED <<networks, muxed, rebooted>>

Query ==
  \/ Inform("AT+CPIN?", "READY", <<>>)
  \/ Inform("AT+CREG?", "+CREG:", <<2, stat_of("+CREG:")>>)
  \/ Inform("AT+CGREG?", "+CGREG:", <<0, stat_of("+CGREG:")>>)
  \/ Inform("AT+CSQ", "+CSQ:", <<18, 0>>)
  \/ Inform("AT+COPS?", "+COPS:", <<0, 0>>)

SimNotReady ==
  /\ Answer(Final(Head(out), "ERROR"))
  /\ Head(out).cmd = "AT+CPIN?"
  /\ out' = Tail(out)
  /\ UNCHANGED <<networks, muxed, rebooted>>

\* It is rebooting, off or at another baud rate.
Ignore ==
  /\ out # <<>>
  /\ out' = Tail(out)
  /\ UNCHANGED <<rx, held, networks, muxed, rebooted, urcs>>

RegisterOn(n) ==
  /\ n \notin networks
  /\ networks' = networks \cup {n}
  /\ UNCHANGED <<rx, held, out, muxed, rebooted, urcs>>

\* What it reports of itself: that the SIM is ready, or the registration on a
\* network: a single field.  RDY and Call Ready, which every command reads
\* past, are left out, and so is the READY of a boot before AT+CFUN=1,1,
\* which the commands until then read past.
Urcs ==
  (IF rebooted THEN {Line("READY", 0, <<>>)} ELSE {})
  \cup {Line(n, 0, <<stat_of(n)>>) : n \in Networks}

SendUrc ==
  /\ urcs < MaxUrcs /\ ~muxed
  /\ urcs' = urcs + 1
  /\ \E l \in Urcs : rx' = rx \o << l, LF >>
  /\ UNCHANGED <<held, out, networks, muxed, rebooted>>
=============================================================================
