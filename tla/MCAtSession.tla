----------------------------- MODULE MCAtSession -----------------------------
(***************************************************************************)
(* AtSession with a modem that answers in time, but for a bounded number   *)
(* of faults.                                                              *)
(***************************************************************************)
EXTENDS AtSession

CONSTANT MaxFaults  \* bound: answers late and UART errors
ASSUME FaultsAssumption == MaxFaults \in Nat

VARIABLES faults,  \* how many there were
          behind   \* how many commands were given up before the line that
                   \* ends their answer, since nothing was under way
mcVars == <<vars, faults, behind>>

MCInit == SessionInit /\ faults = 0 /\ behind = 0

\* The modem has not come to every command it was sent.
Owed == out # <<>> /\ ~muxed

HostInTime ==
  /\ UNCHANGED faults
  /\ \/ HostSend /\ UNCHANGED behind
     \/ /\ HostRead
        /\ behind' = IF kind = "needle" /\ step' > step THEN behind + 1 ELSE behind
     \/ HostTimeout /\ ~Owed /\ UNCHANGED behind
     \/ HostDrain /\ rx # <<>> /\ UNCHANGED behind
     \/ HostDrain /\ rx = <<>> /\ ~Owed /\ behind' = 0

ModemInTime == ModemAnswer /\ UNCHANGED <<faults, behind>>

Fault ==
  /\ faults < MaxFaults
  /\ \/ HostTimeout /\ Owed
     \/ HostDrain /\ rx = <<>> /\ Owed
     \/ HostError
  /\ faults' = faults + 1
  /\ behind' = IF phase = "reply" THEN behind + 1 ELSE behind

MCNext ==
  HostInTime \/ ModemInTime \/ Fault \/ (ModemEvent /\ UNCHANGED <<faults, behind>>)
MCSpec == MCInit /\ [][MCNext]_mcVars

\* The main task is polled and its timers expire; the modem answers a command
\* or never will.
MCFairSpec == MCSpec /\ WF_mcVars(HostInTime) /\ WF_mcVars(ModemInTime)

-----------------------------------------------------------------------------
\* Each command that is given up before its OK or ERROR (by a timeout, an
\* error, or wait_for_response() as it sees READY) puts the answers one more
\* command behind, but never further, and the drain puts them in step again
\* if it lasts.
AnswersLagByFaults ==
  [][phase = "reply" /\ phase' # "reply" /\ HasLine
       /\ line.text \in {"OK", "ERROR"} => nsent - line.of <= behind']_mcVars

\* So when the drain has ended with nothing under way, and no command was
\* given up since, NotRegistered and Ok are true of the modem.
NotRegisteredInStep == behind = 0 => NotRegisteredIsHonest
CmuxAcknowledgedInStep == behind = 0 => CmuxIsAcknowledged

\* raw_at_init() returns, with Ok or an error, whatever the modem answers or
\* leaves unanswered, although an answer out of step with its command keeps
\* the loops that wait for the SIM and the network going.
RawAtInitReturns == <>(phase \in {"ok", "failed"})
=============================================================================
