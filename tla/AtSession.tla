------------------------------ MODULE AtSession ------------------------------
(***************************************************************************)
(* raw_at_init() talking to the modem.  Nothing is assumed of the time the *)
(* modem takes: a timeout may expire whenever there is nothing to read.    *)
(***************************************************************************)
EXTENDS RawAtInit

CONSTANT MaxUrcs  \* bound: result codes the modem sends unasked
ASSUME UrcsAssumption == MaxUrcs \in Nat

VARIABLES networks, muxed, rebooted, urcs,  \* modem
          told      \* history: those it reported in answers of this round

Modem == INSTANCE ModemAt

hostVars == <<held, phase, step, tries, stat, registered, nsent>>
modemVars == <<networks, muxed, rebooted, urcs>>
vars == <<hostVars, modemVars, rx, out, told>>

SessionInit == Init /\ Modem!Init /\ told = {}

\* raw_at_init() runs until it awaits the modem or an error ends a command.
HostSend ==
  /\ Send
  /\ told' = IF cmd = "AT+CREG?" THEN {} ELSE told
  /\ UNCHANGED modemVars
HostRead == (Read \/ ReadLine) /\ UNCHANGED <<modemVars, told>>
HostDrain == drain /\ UNCHANGED <<modemVars, told>>
HostTimeout == Timeout /\ UNCHANGED <<modemVars, told>>
HostError == IoError /\ UNCHANGED <<modemVars, told>>

ModemAnswer ==
  /\ Modem!Execute \/ Modem!Query \/ Modem!SimNotReady \/ Modem!Ignore
  /\ told' = told \cup (networks \cap {rx'[i].text : i \in Len(rx) + 1 .. Len(rx')})
  /\ UNCHANGED <<phase, step, tries, stat, registered, nsent>>
ModemEvent ==
  /\ Modem!SendUrc \/ \E n \in Modem!Networks : Modem!RegisterOn(n)
  /\ UNCHANGED <<phase, step, tries, stat, registered, nsent, told>>

Next ==
  \/ HostSend \/ HostRead \/ HostDrain \/ HostTimeout \/ HostError
  \/ ModemAnswer \/ ModemEvent

Spec == SessionInit /\ [][Next]_vars

-----------------------------------------------------------------------------
Texts == {"LF", "OK", "ERROR", "READY", "+CREG:", "+CGREG:", "+CSQ:", "+COPS:"}
Pieces == [text : Texts, of : Nat, fields : Seq(Nat)]

TypeOK ==
  /\ rx \in Seq(Pieces) /\ held \in Seq(Pieces)
  /\ \A i \in DOMAIN out : out[i].of \in 1 .. nsent
  /\ phase \in {"send", "reply", "ok", "failed"}
  /\ step \in 1 .. Len(Script) + 1 /\ (step > Len(Script) <=> phase = "ok")
  /\ phase # "ok" => tries \in 0 .. (IF kind = "try" THEN AtTries - 1 ELSE Rounds)
  /\ stat \in 0 .. NoStat /\ registered \in BOOLEAN
  /\ networks \subseteq Modem!Networks /\ told \subseteq Modem!Networks
  /\ muxed \in BOOLEAN /\ rebooted \in BOOLEAN /\ urcs \in 0 .. MaxUrcs

AfterDrain == phase # "ok" /\ step > StepOf("drain")

\* "Returns once the modem has acknowledged the CMUX command" (raw_at_init,
\* bringup.rs): Ok means that the modem has answered AT+CMUX with OK.
CmuxIsAcknowledged == phase = "ok" => muxed

\* wait_for_registration() gives up only when the modem has not answered a
\* query of the last round with "registered".
NotRegisteredIsHonest == phase = "failed" /\ kind = "csq" => told = {}

\* It returns Ok only when the modem is on a network.
RegistrationIsReal == AfterDrain /\ step > StepOf("csq") => networks # {}
=============================================================================
