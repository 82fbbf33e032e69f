------------------------------ MODULE RawAtInit ------------------------------
(***************************************************************************)
(* raw_at_init() of bringup.rs: the commands that take the modem from boot *)
(* to CMUX mode, with the loops that wait for the SIM and for the network. *)
(* Script lists the commands in program order; the kind of a step says how *)
(* its answer is read and what a failure means.                            *)
(***************************************************************************)
EXTENDS AtIo

CONSTANTS AtTries, \* 5
          Rounds,  \* bound: rounds of a waiting loop before its deadline
          SimPin   \* whether SIM_PIN is configured

ASSUME AtAssumption == AtTries \in Nat \ {0} /\ Rounds \in Nat /\ SimPin \in BOOLEAN

VARIABLES phase,      \* "send", "reply", or how raw_at_init() returned
          step,       \* the step of Script
          tries,      \* attempts or rounds of the loop the step is in
          stat,       \* query_reg(): the <stat> parsed, NoStat if none
          registered, \* whether this round's CREG or CGREG said so
          out,        \* commands on the line to the modem
          nsent       \* history: number of commands sent

NoStat == 255

Step(cmd, kind) == [cmd |-> cmd, kind |-> kind]

\* Kinds: "try" is repeated until it succeeds, "must" fails the bring-up,
\* "opt" may fail; "poll" and "needle" are wait_for_response(), "drain",
\* "reg", "csq" and "cops" wait_for_registration().  "AT+CFUN=1" stands for
\* AT+CFUN=1,1, and the text "READY" of a line for "+CPIN: READY".
Script ==
  << Step("AT", "try"), Step("AT", "must"), Step("ATE0", "must"),
     Step("AT+CMEE=2", "must"),
     Step("AT+CFUN=0", "opt"), Step("AT+CFUN=1", "opt"),
     Step("AT", "try"), Step("ATE0", "must"), Step("AT+CMEE=2", "opt") >>
  \o (IF SimPin THEN << Step("AT+CPIN=", "must") >> ELSE << >>)
  \o << Step("AT+CPIN?", "poll"), Step("AT+CPIN?", "needle"),
        Step("AT+CREG=2", "opt"), Step("drain", "drain"),
        Step("AT+CREG?", "reg"), Step("AT+CGREG?", "reg"),
        Step("AT+CSQ", "csq"), Step("AT+COPS?", "cops"),
        Step("AT+CGDCONT=1", "opt"), Step("AT+CGATT=1", "opt"),
        Step("AT+CMUX=0", "must") >>

kind == Script[step].kind
cmd == Script[step].cmd
StepOf(k) == Min({i \in DOMAIN Script : Script[i].kind = k})

Init ==
  /\ rx = <<>> /\ held = <<>> /\ out = <<>>
  /\ phase = "send" /\ step = 1 /\ tries = 0 /\ nsent = 0
  /\ stat = NoStat /\ registered = FALSE

-----------------------------------------------------------------------------
(* What follows a step, after the pauses between commands.                 *)

Onward ==
  /\ step' = step + 1
  /\ phase' = IF step = Len(Script) THEN "ok" ELSE "send"
  /\ tries' = IF kind \in {"poll", "reg"} THEN tries ELSE 0

\* MUTANT: one round too many.
AgainOneMore(s, limit) ==
  /\ tries <= limit
  /\ step' = s /\ phase' = "send" /\ tries' = tries + 1

Again(s, limit) ==
  /\ tries < limit
  /\ step' = s /\ phase' = "send" /\ tries' = tries + 1

\* MUTANT: a modem that searches counts as registered.
searching_too(s) == s \in {1, 2, 5}

\* Registered at home or roaming.
is_registered(s) == s \in {1, 5}

Fail == phase' = "failed" /\ UNCHANGED <<step, tries>>

\* `outcome` is how the reading of the answer ended: "ok", "none" (an OK
\* that came without the line looked for) or "err".
Finish(outcome) ==
  /\ \/ /\ kind = "try"
        /\ \/ outcome # "ok" /\ Again(step, AtTries - 1)
           \/ outcome = "ok" /\ Onward
           \/ tries = AtTries - 1 /\ Onward
     \/ kind = "must" /\ IF outcome = "ok" THEN Onward ELSE Fail
     \/ kind \in {"opt", "drain", "reg", "cops"} /\ Onward
     \/ /\ kind = "poll"
        /\ \/ outcome = "ok" /\ Onward
           \/ outcome # "ok" /\ (Again(step, Rounds) \/ (tries = Rounds /\ Fail))
     \/ /\ kind = "needle"
        /\ \/ outcome = "ok" /\ Onward
           \/ outcome = "none" /\ (Again(step - 1, Rounds) \/ (tries = Rounds /\ Fail))
           \/ outcome = "err" /\ Fail
     \/ /\ kind = "csq"
        /\ \/ registered /\ Onward
           \/ ~registered /\ (Again(step - 2, Rounds) \/ (tries = Rounds /\ Fail))
  /\ registered' = CASE kind = "reg" -> registered \/ (outcome = "ok" /\ is_registered(stat'))
                     [] kind = "csq" -> FALSE
                     [] OTHER -> registered

-----------------------------------------------------------------------------
Send ==
  /\ phase = "send" /\ kind # "drain"
  /\ out' = Append(out, [cmd |-> cmd, of |-> nsent + 1])
  /\ nsent' = nsent + 1
  /\ phase' = "reply"
  /\ stat' = NoStat
  /\ UNCHANGED <<rx, held, step, tries, registered>>

Read ==
  /\ phase = "reply" /\ ReadSome
  /\ UNCHANGED <<phase, step, tries, stat, registered, out, nsent>>

\* MUTANT: the first field is taken even when there are two.
first_field(fields) == fields[1]

stat_field(fields) == IF Len(fields) >= 2 THEN fields[2] ELSE fields[1]

\* query_reg(): does the line start with the prefix of this query?
has_prefix ==
  \/ cmd = "AT+CREG?" /\ line.text = "+CREG:"
  \/ cmd = "AT+CGREG?" /\ line.text = "+CGREG:"

\* How the line ends the reading of the answer, if it does.
verdict ==
  CASE line.text = "OK" ->
         IF kind = "needle" \/ (kind = "reg" /\ stat = NoStat) THEN "none" ELSE "ok"
    [] line.text = "ERROR" /\ kind \notin {"needle", "csq", "cops"} -> "err"
    [] line.text = "READY" /\ kind = "needle" -> "ok"
    [] OTHER -> "more"

ReadLine ==
  /\ phase = "reply" /\ HasLine
  /\ held' = after
  /\ stat' = IF kind = "reg" /\ has_prefix THEN stat_field(line.fields) ELSE stat
  /\ IF verdict = "more" THEN UNCHANGED <<phase, step, tries, registered>>
                         ELSE Finish(verdict)
  /\ UNCHANGED <<rx, out, nsent>>

\* MUTANT: an expired timeout is waited for again.
TimeoutContinues ==
  /\ phase = "reply" /\ Cancel
  /\ UNCHANGED <<phase, step, tries, stat, registered, out, nsent>>

\* The timeout is for each line, not for the whole answer.
Timeout ==
  /\ phase = "reply" /\ Cancel
  /\ UNCHANGED <<stat, out, nsent>>
  /\ Finish("err")

\* write_line() fails; or read_line() does: on a line that is not UTF-8, or,
\* before the line is whole, on a UART error or for want of room in LINE_BUF.
\* drain() ends on an error too.
IoError ==
  /\ phase \in {"send", "reply"}
  /\ held' = CASE kind = "drain" -> <<>>
               [] kind # "drain" /\ phase = "send" -> held
               [] OTHER -> IF HasLine THEN after ELSE <<>>
  /\ UNCHANGED <<rx, stat, out, nsent>>
  /\ Finish("err")

\* MUTANT: drain() forgets the leftover.
DrainKeepsLeftover ==
  /\ phase = "send" /\ kind = "drain"
  /\ UNCHANGED <<out, nsent, stat, held>>
  /\ \/ rx # <<>> /\ rx' = <<>> /\ UNCHANGED <<phase, step, tries, registered>>
     \/ rx = <<>> /\ Finish("ok") /\ UNCHANGED rx

drain ==
  /\ phase = "send" /\ kind = "drain"
  /\ UNCHANGED <<out, nsent, stat>>
  /\ \/ drain_some /\ UNCHANGED <<phase, step, tries, registered>>
     \/ rx = <<>> /\ held' = <<>> /\ Finish("ok") /\ UNCHANGED rx
=============================================================================
