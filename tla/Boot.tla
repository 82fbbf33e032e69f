-------------------------------- MODULE Boot --------------------------------
(***************************************************************************)
(* main() of main.rs from reset to the running tasks, with the power       *)
(* sequence of power/sim800.rs and a modem that outlives the resets of the *)
(* ESP32.  raw_at_init(), cmux::start() and start_ppp() are one step each: *)
(* their own modules say when they succeed.                                *)
(***************************************************************************)
EXTENDS Naturals

CONSTANTS Host,       \* what MQTT_HOST is: a name or a literal address
          RailDrops,  \* whether the modem loses its supply with the gate low
          MaxCrashes, \* bound: brown-outs and watchdog resets of the ESP32
          MaxFaults   \* bound: steps that fail although the modem is well
ASSUME BootAssumption ==
  /\ Host \in {"name", "v4", "v6"} /\ RailDrops \in BOOLEAN
  /\ MaxCrashes \in Nat /\ MaxFaults \in Nat

VARIABLES pc,        \* where main() is
          gate,      \* POWER_ON is high
          modem,     \* "off", "booting", "at", "mux"
          left,      \* history: how the last reset of the ESP32 found the modem
          spent,     \* history: the faults there had been by then
          runner,    \* "off", "running", "ended": ppp_task
          ip, mqtt,  \* mqtt_task
          crashes, faults,
          resets     \* presses of the reset button
vars == <<pc, gate, modem, left, spent, runner, ip, mqtt, crashes, faults, resets>>
history == <<left, spent>>

Mqtt == INSTANCE MqttTask

\* Both are switched on for the first time.
Init ==
  /\ pc = "reset" /\ gate = FALSE /\ modem = "off" /\ left = "off" /\ spent = 0
  /\ runner = "off" /\ ip = FALSE /\ mqtt = "off"
  /\ crashes = 0 /\ faults = 0 /\ resets = 0

\* The next step of main() is p.
Goto(p) == pc' = p /\ UNCHANGED <<history, runner, ip, mqtt, crashes, resets>>

-----------------------------------------------------------------------------
(* Power.                                                                  *)

\* Output::new(Low), then power_on_if_needed() sets POWER_ON high.
GateOn ==
  /\ pc = "reset" /\ Goto("probe")
  /\ gate' = TRUE
  /\ UNCHANGED <<modem, faults>>

\* MUTANT: power_on() in place of power_on_if_needed().
PulseAlways ==
  /\ pc = "probe" /\ Goto("pulse")
  /\ UNCHANGED <<gate, modem, faults>>

\* probe_at_alive(): OK within 500 ms.  Only a modem in AT mode answers.
ProbeAnswered ==
  /\ pc = "probe" /\ modem = "at" /\ Goto("settle")
  /\ UNCHANGED <<gate, modem, faults>>

ProbeSilent ==
  /\ pc = "probe" /\ modem # "at" /\ Goto("pulse")
  /\ UNCHANGED <<gate, modem, faults>>

\* MUTANT: the key is not held long enough.
short_press(m) == {m}

\* What a second of PWKEY low does: it switches the modem on or off, and one
\* that is still booting heeds it or not.
press(m) == CASE m = "off" -> {"booting"}
              [] m = "booting" -> {"booting", "off"}
              [] OTHER -> {"off"}

\* PWKEY is low for 1.1 s.
Pulse ==
  /\ pc = "pulse" /\ Goto("settle")
  /\ modem' \in press(modem)
  /\ UNCHANGED <<gate, faults>>

-----------------------------------------------------------------------------
(* Bring-up.                                                               *)

\* The four seconds after the power sequence.
Settle ==
  /\ pc = "settle" /\ Goto("init")
  /\ UNCHANGED <<gate, modem, faults>>

\* MUTANT: the script ends before AT+CMUX.
InitStopsEarly ==
  /\ pc = "init" /\ modem = "at" /\ Goto("cmux")
  /\ UNCHANGED <<gate, modem, faults>>

\* raw_at_init() ends with the modem in CMUX mode.
InitOk ==
  /\ pc = "init" /\ modem = "at" /\ Goto("cmux")
  /\ modem' = "mux"
  /\ UNCHANGED <<gate, faults>>

\* Five times AT without an answer; main() ends in idle_panic_loop().
InitFails ==
  /\ pc = "init" /\ modem \in {"off", "mux"} /\ Goto("idle")
  /\ UNCHANGED <<gate, modem, faults>>

\* cmux::start(), then start_ppp().
StartCmux ==
  /\ pc = "cmux" /\ Goto("ppp")
  /\ UNCHANGED <<gate, modem, faults>>

\* The tasks are spawned.
StartPpp ==
  /\ pc = "ppp" /\ pc' = "running"
  /\ Mqtt!Spawn /\ runner' = "running"
  /\ UNCHANGED <<gate, modem, history, ip, crashes, faults, resets>>

MainStep ==
  \/ GateOn \/ ProbeAnswered \/ ProbeSilent \/ Pulse \/ Settle
  \/ InitOk \/ InitFails \/ StartCmux \/ StartPpp

\* IPCP is through: the stack is configured, unless there is no address.
IpUp ==
  /\ runner = "running" /\ ip' \in {ip, TRUE}
  /\ UNCHANGED <<pc, gate, modem, history, runner, mqtt, crashes, faults, resets>>

\* "PPP runner exited": ppp_task ends, and nothing starts it again.
RunnerEnds ==
  /\ runner = "running" /\ runner' = "ended"
  /\ UNCHANGED <<pc, gate, modem, history, ip, mqtt, crashes, faults, resets>>

MqttStep(A) ==
  /\ pc = "running" /\ A
  /\ UNCHANGED <<pc, gate, modem, history, runner, crashes, faults, resets>>

\* What a session waits for comes over PPP; the write at its end fits its buffer.
MqttSucceeds ==
  /\ runner = "running" \/ mqtt = "write"
  /\ MqttStep(Mqtt!Succeed)

-----------------------------------------------------------------------------
(* What goes wrong.                                                        *)

\* A reset of the ESP32: its pins float, and its tasks are gone.
Restart ==
  /\ pc' = "reset" /\ gate' = FALSE
  /\ runner' = "off" /\ ip' = FALSE /\ mqtt' = "off"
  /\ left' = modem' /\ spent' = faults'

\* At any time.  A pulse cut short may have worked or not, and raw_at_init()
\* may have come as far as the reboot of AT+CFUN=1,1 or as AT+CMUX.
Crash ==
  /\ crashes < MaxCrashes /\ crashes' = crashes + 1
  /\ modem' \in {modem}
       \cup (IF pc = "pulse" THEN press(modem) ELSE {})
       \cup (IF pc = "init" /\ modem = "at" THEN {"booting", "mux"} ELSE {})
  /\ UNCHANGED <<faults, resets>>
  /\ Restart

\* "fix the failing init step and reboot": idle_panic_loop() waits for that.
ManualReset ==
  /\ pc = "idle" /\ resets' = resets + 1
  /\ UNCHANGED <<modem, crashes, faults>>
  /\ Restart

\* The answer to the probe is late or damaged; the modem takes too long to
\* boot or to register, and raw_at_init() leaves it wherever it was; start()
\* or start_ppp() fails.
Fault ==
  /\ faults < MaxFaults /\ faults' = faults + 1
  /\ \/ /\ pc = "probe" /\ modem = "at" /\ Goto("pulse")
        /\ UNCHANGED <<gate, modem>>
     \/ /\ pc = "init" /\ modem \in {"booting", "at"} /\ Goto("idle")
        /\ modem' \in {"booting", "at", "mux"} /\ UNCHANGED gate
     \/ /\ pc \in {"cmux", "ppp"} /\ Goto("idle")
        /\ UNCHANGED <<gate, modem>>

ModemBoots ==
  /\ modem = "booting" /\ modem' = "at"
  /\ UNCHANGED <<pc, gate, history, runner, ip, mqtt, crashes, faults, resets>>

RailFails ==
  /\ RailDrops /\ ~gate /\ modem # "off" /\ modem' = "off"
  /\ UNCHANGED <<pc, gate, history, runner, ip, mqtt, crashes, faults, resets>>

Next ==
  \/ MainStep \/ Crash \/ ManualReset \/ Fault \/ ModemBoots \/ RailFails
  \/ IpUp \/ RunnerEnds
  \/ MqttStep(Mqtt!Begin) \/ MqttSucceeds \/ MqttStep(Mqtt!Fail)

Spec == Init /\ [][Next]_vars

\* main() is polled and the modem boots; mqtt_task is polled, and each step of
\* a session comes to an end, but for the TLS handshake: a DNS query and the
\* 15 s of the socket time out, the handshake waits for as long as its peer is
\* silent.  Nobody has to press the button, IPCP need not get through, the
\* runner may end and any step of a session fail, again and again.
FairSpec ==
  /\ Spec
  /\ WF_vars(MainStep) /\ WF_vars(ModemBoots) /\ WF_vars(MqttStep(Mqtt!Begin))
  /\ WF_vars(mqtt # "tls" /\ (MqttSucceeds \/ MqttStep(Mqtt!Fail)))

-----------------------------------------------------------------------------
Modem == {"off", "booting", "at", "mux"}

TypeOK ==
  /\ pc \in {"reset", "probe", "pulse", "settle", "init", "cmux", "ppp",
             "running", "idle"}
  /\ gate \in BOOLEAN /\ (gate <=> pc # "reset")
  /\ modem \in Modem /\ left \in Modem /\ ip \in BOOLEAN
  /\ runner \in {"off", "running", "ended"} /\ (runner = "off" <=> pc # "running")
  /\ mqtt \in {"off", "config", "wait", "idle"} \cup Mqtt!Steps
  /\ mqtt # "off" <=> pc = "running"
  /\ pc \in {"cmux", "ppp", "running"} => modem = "mux"
  /\ crashes \in Nat /\ faults \in Nat /\ spent \in 0 .. faults /\ resets \in Nat

\* A boot in which no step fails, of a modem that is off or answers AT.
Clean == left \in {"off", "at"} /\ faults = spent

\* "When it returns true, this function leaves the modem alone": such a boot
\* ends with the tasks running or in the next crash, and never in
\* idle_panic_loop(), whether or not the modem loses its supply while the gate
\* is low, between Output::new() and power_on_if_needed().
CleanBoot == Clean => pc # "idle"

\* Each crash costs at most one press of the reset button and each failed step
\* at most two, wherever the modem was left: a modem that does not answer the
\* probe because it is in CMUX mode is switched off by one boot and on by the
\* next.
ResetsAreBounded == resets <= crashes + 2 * faults

\* No await of the boot or of the sessions hangs, but for the two that have no
\* limit in the code: main() ends up running, or idle after a boot that was not
\* clean; and once IP is up, mqtt_task ends in its idle loop, tries one session
\* after the other, or hangs in the TLS handshake.
Settles ==
  /\ <>[](pc = "running") \/ <>[](pc = "idle" /\ ~Clean)
  /\ \/ <>[](~ip) \/ <>[](mqtt = "idle") \/ <>[](mqtt = "tls")
     \/ []<>(mqtt = "wait")

\* "Power on the modem only if it's not already responding. Prevents the
\* ESP32-reboot-kills-modem cycle" (main.rs): no boot of the ESP32 switches
\* off the modem that the last one brought up.
RebootSparesModem == [][modem = "mux" => modem' # "off"]_vars

-----------------------------------------------------------------------------
(* The inductive strengthening.                                            *)

\* Presses of the reset button still to come if nothing more goes wrong.
ResetsToCome ==
  (IF \/ pc \in {"reset", "probe"} /\ modem \in {"booting", "mux"}
      \/ pc = "pulse" /\ modem # "off"
      \/ pc \in {"settle", "init"} /\ modem = "off"
      \/ pc = "idle"
   THEN 1 ELSE 0)
  + (IF pc = "idle" /\ modem \in {"booting", "mux"} THEN 1 ELSE 0)

IInv ==
  /\ TypeOK
  /\ pc \in {"settle", "init"} => modem # "mux"
  /\ Clean => /\ pc # "idle"
              /\ pc \in {"reset", "probe"} => modem \in {"off", "at"}
              /\ pc = "pulse" => modem = "off"
              /\ pc \in {"settle", "init"} => modem \in {"booting", "at"}
  /\ resets + ResetsToCome <= crashes + 2 * faults
=============================================================================
