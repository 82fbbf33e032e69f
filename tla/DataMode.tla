------------------------------ MODULE DataMode ------------------------------
(***************************************************************************)
(* The firmware from the return of cmux::start() on: main() in start_ppp() *)
(* while nobody reads DLC1, then ppp_task on DLC2 and status_task on DLC1, *)
(* both behind the one dispatcher that blocks on a full pipe.  The host's  *)
(* commands reach the modem at once; the other direction goes through the  *)
(* dispatcher frame by frame.  A frame may be lost on its way, as when the *)
(* UART overruns because the dispatcher is blocked.                        *)
(***************************************************************************)
EXTENDS CmuxTypes

CONSTANTS BUF,       \* 256 bytes
          ACC,       \* 256 bytes, here in lines
          Numbering, \* bound: status commands are numbered modulo this
          MaxUrcs,   \* bound: lines the modem sends unasked on DLC1
          MaxPpp,    \* bound: bytes of PPP the modem sends
          MaxOwed,   \* bound: status commands the modem has not come to; no
                     \* more than MaxFaults + 1 can be outstanding anyway
          MaxLine,   \* bound: frames on the line
          MaxFaults  \* bound: answers that come after their timeout, and
                     \* frames lost in either direction
ASSUME DataModeAssumption ==
  /\ BUF \in Nat \ {0} /\ ACC \in Nat /\ Numbering \in Nat \ {0}
  /\ {DLC1_PIPE_BYTES, DLC2_PIPE_BYTES, MAX_INFO_LEN} \subseteq Nat \ {0}
  /\ {MaxUrcs, MaxPpp, MaxOwed, MaxLine, MaxFaults} \subseteq Nat

VARIABLES ppp, held,                       \* main task: start_ppp()
          buf, pos, lastOut, exited,       \* ppp_task
          status, acc, dropped, nsent,     \* status_task
          toHost, ctrl, pipe, pending,            \* line, dispatcher
          out, dlc2, pppSent, urcs,        \* modem
          garbled,   \* history: a line of it on DLC2 was no text
          robbed,    \* history: the poll's command or its answer was lost
          faults, lost

Ppp == INSTANCE StartPpp WITH rx <- pipe[2]
Net == INSTANCE BufferedDlc WITH rx <- pipe[2]
Status == INSTANCE StatusTask WITH rx <- pipe[1]
Rx == INSTANCE Dispatcher WITH lastRead <- <<>>

pppVars == <<ppp, held>>
netVars == <<buf, pos, lastOut, exited>>
statusVars == <<status, acc, dropped, nsent, robbed>>
rxVars == <<toHost, ctrl, pipe, pending>>
modemVars == <<dlc2, pppSent, urcs, garbled>>
vars == <<pppVars, netVars, statusVars, rxVars, modemVars, out, faults, lost>>

\* A line of AT text, or a byte of the PPP stream.
Text(t) == Ppp!Line(t, 0, <<>>)
Answer(t, n) == Ppp!Line(t, n, <<>>)
Byte(n) == Ppp!Line("ppp", n, <<>>)

Init ==
  /\ Ppp!Init /\ Net!Init /\ Status!Init
  /\ toHost = <<>> /\ ctrl = <<>> /\ pending = Uih(1, <<>>)
  /\ pipe = [d \in DataDlcs |-> <<>>]
  /\ lastOut = Byte(0) /\ exited = FALSE
  /\ out = <<>> /\ dlc2 = "at" /\ pppSent = 0 /\ urcs = 0 /\ garbled = FALSE
  /\ robbed = FALSE /\ faults = 0 /\ lost = 0

-----------------------------------------------------------------------------
(* Host.                                                                   *)

\* DlcChannel::read.
ReadPipe(d) ==
  /\ \E k \in 1 .. Len(pipe[d]) :
       pipe' = [pipe EXCEPT ![d] = SubSeq(@, k + 1, Len(@))]
  /\ UNCHANGED <<toHost, ctrl, pending>>

\* start_ppp(); at CONNECT main() starts ppp_task and status_task.
MainStep ==
  /\ \/ UNCHANGED <<rxVars, status>> /\ Ppp!Send
     \/ ReadPipe(2) /\ Ppp!Read /\ UNCHANGED status
     \/ UNCHANGED <<rxVars, status>> /\ Ppp!ReadFails
     \/ /\ UNCHANGED rxVars /\ Ppp!ReadLine
        /\ IF ppp' = "connected" THEN Status!Spawn ELSE UNCHANGED status
  /\ UNCHANGED <<netVars, acc, dropped, nsent, robbed, out, modemVars>>

PppTimeout ==
  /\ UNCHANGED rxVars /\ Ppp!Timeout
  /\ UNCHANGED <<netVars, statusVars, out, modemVars>>

\* The PPP runner, which may come to an end.
PppTask ==
  /\ ppp = "connected" /\ ~exited
  /\ \/ ReadPipe(2) /\ (Net!fill_buf \/ Net!read)
     \/ UNCHANGED rxVars /\ \E amt \in 1 .. Len(buf) : Net!consume(amt)
  /\ UNCHANGED <<pppVars, exited, statusVars, out, modemVars>>

PppExits ==
  /\ ppp = "connected" /\ ~exited /\ exited' = TRUE
  /\ UNCHANGED <<pppVars, buf, pos, lastOut, statusVars, rxVars, out, modemVars>>

StatusStep ==
  /\ \/ ReadPipe(1) /\ (Status!DrainSome \/ Status!PollRead) /\ UNCHANGED robbed
     \/ UNCHANGED <<rxVars, robbed>> /\ Status!DrainEnds
     \/ UNCHANGED rxVars /\ Len(out) < MaxOwed /\ Status!Poll /\ robbed' = FALSE
  /\ UNCHANGED <<pppVars, netVars, modemVars>>

StatusDeadline ==
  /\ UNCHANGED <<rxVars, robbed>> /\ Status!Deadline
  /\ UNCHANGED <<pppVars, netVars, modemVars>>

RxStep ==
  /\ Rx!ToPipe \/ Rx!WritePipe
  /\ UNCHANGED <<pppVars, netVars, statusVars, out, modemVars>>

-----------------------------------------------------------------------------
(* Modem.                                                                  *)

ToHost(d, lines) ==
  /\ Len(toHost) < MaxLine
  /\ toHost' = Append(toHost, Uih(d, lines))
  /\ UNCHANGED <<pppVars, netVars, statusVars, ctrl, pipe, pending>>

\* The answer to AT+CGDATA, perhaps after a line that is none, or no text.
AnswerCgdata ==
  /\ ppp # "call" /\ dlc2 \in {"at", "said"}
  /\ \/ /\ dlc2 = "at" /\ dlc2' = "said"
        /\ \E t \in {"RING", "noise"} :
             ToHost(2, <<Text(t), Ppp!LF>>) /\ garbled' = (t = "noise")
     \/ ToHost(2, <<Text("CONNECT"), Ppp!LF>>) /\ dlc2' = "data" /\ UNCHANGED garbled
     \/ ToHost(2, <<Text("ERROR"), Ppp!LF>>) /\ dlc2' = "refused" /\ UNCHANGED garbled
  /\ UNCHANGED <<out, pppSent, urcs>>

\* Frames as long as they may be.
SendPpp ==
  /\ dlc2 = "data" /\ pppSent < MaxPpp
  /\ LET n == Min({MAX_INFO_LEN, MaxPpp - pppSent})
     IN  /\ ToHost(2, [i \in 1 .. n |-> Byte(pppSent + i)])
         /\ pppSent' = pppSent + n
  /\ UNCHANGED <<out, dlc2, urcs, garbled>>

\* AT+CSQ and AT+CREG? succeed, or fail with the codes that the bring-up has
\* switched on (AT+CMEE=2).
AnswerStatus ==
  /\ out # <<>> /\ out' = Tail(out)
  /\ \/ ToHost(1, <<Answer("+CSQ:", Head(out)), Answer("OK", Head(out))>>)
     \/ ToHost(1, <<Answer("+CME ERROR", Head(out))>>)
  /\ UNCHANGED modemVars

\* Lines nobody asked for; some modems send bytes that are no text.
SendUrc ==
  /\ urcs < MaxUrcs /\ urcs' = urcs + 1
  /\ \E t \in {"RDY", "noise"} : ToHost(1, <<Text(t), Text("RDY")>>)
  /\ UNCHANGED <<out, dlc2, pppSent, garbled>>

-----------------------------------------------------------------------------
(* What the line loses.                                                    *)

\* An answer that ends the poll of command n: with its value or an error.
Ending(l, n) == l.of = n /\ l.text \in {"OK", "ERROR", "+CME ERROR"}

\* A frame of the modem: the UART overruns while the dispatcher is blocked on
\* a full pipe, or the decoder refuses the header.
LoseToHost ==
  /\ toHost # <<>> /\ toHost' = Tail(toHost)
  /\ robbed' = (robbed \/ \E i \in DOMAIN Head(toHost).info :
                            Ending(Head(toHost).info[i], nsent))
  /\ UNCHANGED <<out, dlc2>>

\* A status command just sent: a UART error in tx_task, or the modem's decoder.
LoseCommand ==
  /\ out # <<>> /\ out' = Front(out)
  /\ robbed' = (robbed \/ Last(out) = nsent)
  /\ UNCHANGED <<toHost, dlc2>>

\* AT+CGDATA: the modem is never asked.
LoseCgdata ==
  /\ ppp # "call" /\ dlc2 \in {"at", "said"} /\ dlc2' = "unasked"
  /\ UNCHANGED <<toHost, out, robbed>>

Lose ==
  /\ faults + lost < MaxFaults /\ lost' = lost + 1
  /\ LoseToHost \/ LoseCommand \/ LoseCgdata
  /\ UNCHANGED <<pppVars, netVars, status, acc, dropped, nsent, ctrl, pipe, pending>>
  /\ UNCHANGED <<pppSent, urcs, garbled, faults>>

-----------------------------------------------------------------------------
(* Which timeouts are faults.                                              *)

\* The dispatcher waits for a reader of DLC d.
Blocked(d) ==
  pending.dlci = d /\ pending.info # <<>> /\ Len(pipe[d]) = PIPE_BYTES(d)

\* What is on its way to the reader of DLC d.
Coming(d) == pipe[d] \o Payload(<<pending>> \o toHost, d)

ConnectComing == dlc2 \in {"at", "said"} \/ Coming(2) # <<>>
AnswerComing ==
  nsent \in ToSet(out) \/ \E i \in DOMAIN Coming(1) : Ending(Coming(1)[i], nsent)

HostTimers ==
  /\ \/ PppTimeout /\ (~ConnectComing \/ Blocked(1))
     \/ StatusDeadline /\ (~AnswerComing \/ (exited /\ Blocked(2)))
  /\ UNCHANGED <<faults, lost>>

Fault ==
  /\ faults + lost < MaxFaults /\ faults' = faults + 1 /\ UNCHANGED lost
  /\ \/ PppTimeout /\ ConnectComing /\ ~Blocked(1)
     \/ StatusDeadline /\ AnswerComing /\ ~(exited /\ Blocked(2))

Host == MainStep \/ PppTask \/ StatusStep \/ RxStep
ModemStep ==
  AnswerCgdata \/ SendPpp \/ AnswerStatus \/ SendUrc

Quiet == UNCHANGED <<faults, lost>>

Next ==
  \/ (Host \/ PppExits \/ ModemStep) /\ Quiet
  \/ HostTimers \/ Fault \/ Lose

FairSpec ==
  /\ Init /\ [][Next]_vars
  /\ WF_vars(PppTask /\ Quiet)
  /\ WF_vars(StatusStep /\ Quiet) /\ WF_vars(RxStep /\ Quiet)
  /\ WF_vars(HostTimers) /\ WF_vars(AnswerStatus /\ Quiet)

-----------------------------------------------------------------------------
TypeOK ==
  /\ ppp \in {"call", "reply", "connected", "timeout", "failed", "io"}
  /\ status \in {"off", "drain", "poll", "pause"}
  /\ status # "off" <=> ppp = "connected"
  /\ Len(acc) <= ACC /\ nsent \in 0 .. Numbering - 1
  /\ pos \in 0 .. Len(buf) /\ Len(buf) <= BUF
  /\ Len(pipe[1]) <= DLC1_PIPE_BYTES /\ Len(pipe[2]) <= DLC2_PIPE_BYTES
  /\ lastOut.text = "ppp"

\* start_ppp() ends as it should, and gives up only for one of these: the
\* modem refused; the answer was late; a frame was lost, the command or CONNECT
\* among them; a line on DLC2 was no text; or DLC1 has filled its pipe, which
\* nobody reads before status_task is spawned, so that the dispatcher delivers
\* nothing on DLC2.
StartPppIsExplained ==
  /\ ppp = "connected" => dlc2 = "data"
  /\ ppp = "failed" => dlc2 = "refused"
  /\ ppp = "timeout" => faults + lost > 0 \/ Len(pipe[1]) = DLC1_PIPE_BYTES
  /\ ppp = "io" => garbled \/ lost > 0

\* A status poll times out only if its answer is late, if that or its command
\* was lost, if ppp_task has ended and left a full pipe to the dispatcher, or
\* if the poll has seen something it does not understand: bytes that are no
\* text, more than the accumulator holds, or an error with a code.
PollTimeoutIsExplained ==
  [][status = "poll" /\ status' = "pause" /\ acc' = acc /\ pipe' = pipe =>
       \/ faults' > faults \/ robbed
       \/ exited /\ Blocked(2)
       \/ dropped \/ \E i \in DOMAIN acc : acc[i].text \in {"noise", "+CME ERROR"}]_vars

\* A poll never ends with an answer older than its own by more than the
\* number of answers that were late or lost, although what a poll leaves in the
\* pipe is never thrown away.
PollLagsByTimeouts ==
  status # "off" /\ ~exited =>
    \A i \in DOMAIN acc : acc[i].text \in {"OK", "ERROR"} =>
      (nsent + Numbering - acc[i].of) % Numbering <= faults + lost

-----------------------------------------------------------------------------
(* The PPP stream.                                                         *)

\* The numbers of the elements of s whose text is in K, in order.
Numbers(s, K) ==
  FlattenSeq([i \in DOMAIN s |-> IF s[i].text \in K THEN <<s[i].of>> ELSE <<>>])

PppOnWay == Numbers(held \o Net!unread \o Coming(2), {"ppp"})

\* A frame lost counts as a fault, and so does the return of start_ppp().
Stream == INSTANCE DlcStream WITH
  put <- pppSent, last <- lastOut.of, fifo <- PppOnWay,
  faults <- lost + (IF ppp \in {"call", "reply"} THEN 0 ELSE 1)

\* From the modem to the PPP runner the bytes stay in order and complete,
\* through the pipe, the line reader and the buffer of BufferedDlc, but for
\* the payload of each lost frame and the first bytes, those that start_ppp()
\* has read together with CONNECT.
PppIsStream == Stream!Init /\ [][[Stream!Next]_(Stream!vars)]_vars

\* Every byte of PPP that the UART has not lost gets to the runner: lines on
\* DLC1 may block the dispatcher, and cost PPP what then overruns, but never
\* for good, because status_task goes on polling whatever its polls meet.
PppFlows == ppp = "connected" ~> exited \/ PppOnWay = <<>>
=============================================================================
