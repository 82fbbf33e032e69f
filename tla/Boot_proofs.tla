----------------------------- MODULE Boot_proofs -----------------------------
(***************************************************************************)
(* Proofs about Boot, for any number of crashes and faults, with and       *)
(* without a supply that drops while the gate is low.                      *)
(***************************************************************************)
EXTENDS Boot, TLAPS

\* At power-on nothing is spent and nothing is to come.
LEMMA InitInv == Init => IInv
<1> SUFFICES ASSUME Init PROVE IInv
  OBVIOUS
<1>1. gate \in BOOLEAN /\ (gate <=> pc # "reset") /\ ip \in BOOLEAN
  BY ZenonT(30) DEF Init
<1>2. ResetsToCome = 0
  BY DEF Init, ResetsToCome
<1>3. QED
  BY <1>1, <1>2 DEF Init, IInv, TypeOK, Modem, Mqtt!Steps

\* After a reset of the ESP32 at most one press is to come.
LEMMA RestartInv ==
  ASSUME Restart, modem' \in Modem, crashes' \in Nat, faults' \in Nat, resets' \in Nat,
         resets' + (IF modem' \in {"booting", "mux"} THEN 1 ELSE 0)
           <= crashes' + 2 * faults'
  PROVE  IInv'
<1>1. gate' \in BOOLEAN /\ (gate' <=> pc' # "reset") /\ ip' \in BOOLEAN
  BY ZenonT(30) DEF Restart
<1>2. /\ pc' = "reset" /\ mqtt' = "off" /\ runner' = "off"
      /\ left' = modem' /\ spent' = faults'
  BY DEF Restart
<1>3. ResetsToCome' = IF modem' \in {"booting", "mux"} THEN 1 ELSE 0
  BY <1>2 DEF ResetsToCome
<1>4. spent' \in 0 .. faults'
  BY <1>2
<1>5. QED
  BY <1>1, <1>2, <1>3, <1>4 DEF IInv, TypeOK, Clean, Mqtt!Steps

\* The steps of main() spend no more presses than were to come.
LEMMA MainStepInv ==
  ASSUME IInv, MainStep
  PROVE  IInv'
<1> USE DEF IInv, TypeOK, ResetsToCome, Clean, Goto, history, Modem
<1>1. CASE GateOn
  BY <1>1 DEF GateOn
<1>2. CASE ProbeAnswered
  BY <1>2 DEF ProbeAnswered
<1>3. CASE ProbeSilent
  BY <1>3 DEF ProbeSilent
<1>4. CASE Pulse
  BY <1>4 DEF Pulse, press
<1>5. CASE Settle
  BY <1>5 DEF Settle
<1>6. CASE InitOk
  BY <1>6 DEF InitOk
<1>7. CASE InitFails
  BY <1>7 DEF InitFails
<1>8. CASE StartCmux
  BY <1>8 DEF StartCmux
<1>9. CASE StartPpp
  BY <1>9 DEF StartPpp, Mqtt!Spawn
<1>10. QED
  BY <1>1, <1>2, <1>3, <1>4, <1>5, <1>6, <1>7, <1>8, <1>9 DEF MainStep

LEMMA TasksInv ==
  ASSUME IInv,
         \/ IpUp \/ RunnerEnds
         \/ MqttStep(Mqtt!Begin) \/ MqttSucceeds \/ MqttStep(Mqtt!Fail)
  PROVE  IInv'
<1>1. /\ pc = "running" /\ ip' \in BOOLEAN /\ runner' \in {"running", "ended"}
      /\ mqtt' \in {"config", "wait", "idle"} \cup Mqtt!Steps
      /\ UNCHANGED <<pc, gate, modem, left, spent, crashes, faults, resets>>
  <2> USE DEF IInv, TypeOK, MqttStep, history, Mqtt!Steps
  <2>1. CASE IpUp
    <3>1. /\ pc = "running" /\ mqtt' = mqtt /\ runner' = "running"
          /\ UNCHANGED <<pc, gate, modem, left, spent, crashes, faults, resets>>
      BY <2>1 DEF IpUp
    <3>2. ip' \in BOOLEAN
      BY <2>1, ZenonT(30) DEF IpUp
    <3>3. QED
      BY <3>1, <3>2
  <2>2. CASE RunnerEnds
    BY <2>2 DEF RunnerEnds
  <2>3. CASE MqttStep(Mqtt!Begin)
    BY <2>3 DEF Mqtt!Begin, Mqtt!first
  <2>4. CASE MqttSucceeds
    BY <2>4 DEF MqttSucceeds, Mqtt!Succeed, Mqtt!following
  <2>5. CASE MqttStep(Mqtt!Fail)
    BY <2>5 DEF Mqtt!Fail
  <2>6. QED
    BY <2>1, <2>2, <2>3, <2>4, <2>5
<1>2. QED
  BY <1>1 DEF IInv, TypeOK, ResetsToCome, Clean, Mqtt!Steps

\* A crash pays for the press it may cost and a failed step for two.
LEMMA TroubleInv ==
  ASSUME IInv, Crash \/ ManualReset \/ Fault \/ ModemBoots \/ RailFails
  PROVE  IInv'
<1> USE DEF IInv, TypeOK, ResetsToCome, Clean, history, Modem
<1>1. CASE Crash
  <2>1. modem' \in Modem
    BY <1>1 DEF Crash, press
  <2>2. resets <= crashes + 2 * faults
    OBVIOUS
  <2>3. QED
    BY <1>1, <2>1, <2>2, RestartInv DEF Crash
<1>2. CASE ManualReset
  BY <1>2, RestartInv DEF ManualReset
<1>3. CASE Fault
  BY <1>3 DEF Fault, Goto
<1>4. CASE ModemBoots
  BY <1>4 DEF ModemBoots
<1>5. CASE RailFails
  BY <1>5 DEF RailFails
<1>6. QED
  BY <1>1, <1>2, <1>3, <1>4, <1>5

\* The inductive invariant: what the reset button still has to be pressed for.
THEOREM BootInvariant == Spec => []IInv
<1>1. IInv /\ [Next]_vars => IInv'
  <2> SUFFICES ASSUME IInv, [Next]_vars PROVE IInv'
    OBVIOUS
  <2>1. CASE Next
    BY <2>1, MainStepInv, TasksInv, TroubleInv DEF Next
  <2>2. CASE UNCHANGED vars
    BY <2>2 DEF vars, history, IInv, TypeOK, ResetsToCome, Clean
  <2>3. QED
    BY <2>1, <2>2
<1>2. QED
  BY InitInv, <1>1, PTL DEF Spec

\* The state of the boot and of the modem is well formed.
THEOREM BootTypeOK == Spec => []TypeOK
<1>1. IInv => TypeOK
  BY DEF IInv
<1>2. QED
  BY BootInvariant, <1>1, PTL

\* Every press of the reset button is due to a crash or to a failed step.
THEOREM BootResetsAreBounded == Spec => []ResetsAreBounded
<1>1. IInv => ResetsAreBounded
  <2> SUFFICES ASSUME IInv PROVE ResetsAreBounded
    OBVIOUS
  <2>1. ResetsToCome \in Nat
    BY DEF ResetsToCome
  <2>2. QED
    BY <2>1 DEF IInv, TypeOK, ResetsAreBounded
<1>2. QED
  BY BootInvariant, <1>1, PTL

\* A boot of a modem that is off or answers, in which no step fails, never ends
\* in idle_panic_loop(): the boots before it, crashed anywhere, do not matter.
THEOREM BootCleanBoot == Spec => []CleanBoot
<1>1. IInv => CleanBoot
  BY DEF IInv, CleanBoot
<1>2. QED
  BY BootInvariant, <1>1, PTL
=============================================================================
