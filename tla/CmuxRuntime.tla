----------------------------- MODULE CmuxRuntime -----------------------------
(***************************************************************************)
(* The CMUX runtime of firmware/src/cmux: the main task in start(), the    *)
(* TX task, the dispatcher and, once the handles are out, the tasks that   *)
(* read and write them, with the modem's multiplexer at the other end of a *)
(* UART that may lose frames in either direction.  All tasks run on one    *)
(* executor: a step is what a task does between two awaits.                *)
(***************************************************************************)
EXTENDS CmuxTypes

CONSTANTS MaxStrays,  \* bound: frames the modem sends unasked
          MaxRxBytes, \* bound: bytes the modem sends on both data DLCs together
          MaxTxBytes  \* bound: bytes the host writes on both together

ASSUME RuntimeAssumption ==
  /\ SABM_RETRIES \in Nat \ {0}
  /\ TX_QUEUE_DEPTH \in Nat \ {0} /\ CTRL_QUEUE_DEPTH \in Nat \ {0}
  /\ DLC1_PIPE_BYTES \in Nat \ {0} /\ DLC2_PIPE_BYTES \in Nat \ {0}
  /\ MAX_INFO_LEN \in Nat \ {0}
  /\ MaxStrays \in Nat /\ MaxRxBytes \in Nat /\ MaxTxBytes \in Nat

\* Room for every answer that can be outstanding: 8 >= 2 * 3 - 1 + 3 in the
\* firmware, with up to three unsolicited control frames.
ASSUME ControlQueueAssumption ==
  CTRL_QUEUE_DEPTH >= 2 * SABM_RETRIES - 1 + MaxStrays

VARIABLES phase, dlci, attempt,                 \* main task
          requests, sending, writing, written,  \* TX
          toModem, toHost,                      \* the line
          ctrl, pipe, pending, lastRead,        \* RX
          accepted, refused, strays, sent, got  \* modem

Open == INSTANCE OpenDlc
Tx == INSTANCE TxTask
Rx == INSTANCE Dispatcher
Modem == INSTANCE ModemMux

openVars == <<phase, dlci, attempt>>
txVars == <<sending, writing, written>>
rxVars == <<pipe, pending, lastRead>>
modemVars == <<accepted, refused, strays, sent, got>>
vars == <<openVars, txVars, rxVars, modemVars, requests, toModem, toHost, ctrl>>

Init == Open!Init /\ Tx!Init /\ Rx!Init /\ Modem!Init

-----------------------------------------------------------------------------
\* start() and open_dlc().
MainStep ==
  /\ \/ Open!Start \/ Open!SendSabm
     \/ Open!ReceiveUa \/ Open!ReceiveDm \/ Open!ReceiveOther
  /\ UNCHANGED <<txVars, rxVars, modemVars, toModem, toHost>>

Timeout ==
  Open!Timeout /\ UNCHANGED <<txVars, rxVars, modemVars, toModem, toHost>>

\* The tasks with a handle, which they have once start() has returned it.
Writer(d) ==
  /\ \/ /\ phase = "ok"
        /\ \E n \in 1 .. MaxTxBytes - written[1] - written[2] : Tx!Write(d, n)
     \/ Tx!SendChunk(d)
  /\ UNCHANGED <<openVars, rxVars, modemVars, toHost, ctrl>>

Reader(d) ==
  /\ phase = "ok"
  /\ \E k \in 1 .. Len(pipe[d]) : Rx!ReadPipe(d, k)
  /\ UNCHANGED <<openVars, txVars, modemVars, requests, toModem>>

TxStep ==
  /\ Tx!TakeRequest \/ Tx!Transmit
  /\ UNCHANGED <<openVars, rxVars, modemVars, toHost, ctrl>>

RxStep ==
  /\ Rx!ToPipe \/ Rx!Ignore \/ Rx!Emit \/ Rx!WritePipe
  /\ UNCHANGED <<openVars, txVars, modemVars, requests, toModem>>

ModemAnswer ==
  /\ Modem!Accept \/ Modem!TakeData
  /\ UNCHANGED <<openVars, txVars, rxVars, requests, ctrl>>

ModemRefuse ==
  Modem!Refuse /\ UNCHANGED <<openVars, txVars, rxVars, requests, ctrl>>

ModemSend ==
  /\ \/ \E d \in DataDlcs : \E n \in 1 .. MaxRxBytes - sent[1] - sent[2] :
          Modem!SendData(d, n)
     \/ \E f \in Modem!Strays : Modem!SendStray(f)
  /\ UNCHANGED <<openVars, txVars, rxVars, requests, ctrl>>

\* A UART error, an overrun, or a header that the decoder at the other end
\* refuses. The FCS is over the header alone: a wrong byte of the info passes.
LoseToModem ==
  /\ toModem # <<>>
  /\ toModem' = Tail(toModem)
  /\ UNCHANGED <<openVars, txVars, rxVars, modemVars, requests, toHost, ctrl>>

LoseToHost ==
  /\ toHost # <<>>
  /\ toHost' = Tail(toHost)
  /\ UNCHANGED <<openVars, txVars, rxVars, modemVars, requests, toModem, ctrl>>

TransmitFails ==
  /\ Tx!TransmitFails
  /\ UNCHANGED <<openVars, rxVars, modemVars, toHost, ctrl>>

Next ==
  \/ MainStep \/ Timeout \/ TxStep \/ RxStep
  \/ \E d \in DataDlcs : Writer(d) \/ Reader(d)
  \/ ModemAnswer \/ ModemRefuse \/ ModemSend
  \/ LoseToModem \/ LoseToHost \/ TransmitFails

Spec == Init /\ [][Next]_vars

\* The executor polls every ready task and the timer of with_timeout expires;
\* nothing is assumed of the modem or of the line.
FairSpec ==
  /\ Spec
  /\ WF_vars(MainStep \/ Timeout) /\ WF_vars(TxStep) /\ WF_vars(RxStep)

-----------------------------------------------------------------------------
TypeOK ==
  /\ phase \in Open!Phase /\ dlci \in Dlcs /\ attempt \in 0 .. SABM_RETRIES - 1
  /\ requests \in Seq(TxReq)
  /\ sending \in Seq(Frame) /\ toModem \in Seq(Frame) /\ toHost \in Seq(Frame)
  /\ writing \in [DataDlcs -> Seq(Nat)] /\ written \in [DataDlcs -> Nat]
  /\ ctrl \in Seq(ControlEvt) /\ Len(ctrl) <= CTRL_QUEUE_DEPTH
  /\ pipe \in [DataDlcs -> Seq(Nat)] /\ lastRead \in [DataDlcs -> Nat]
  /\ pending \in Frame /\ pending.dlci \in DataDlcs
  /\ accepted \subseteq Dlcs /\ refused \subseteq Dlcs
  /\ strays \in 0 .. MaxStrays
  /\ sent \in [DataDlcs -> Nat] /\ got \in [DataDlcs -> Nat]

\* A DLC that open_dlc() reports open is one the modem has accepted, although
\* answers may be late, lost or meant for another DLC.
OpenedIsAccepted == Open!opened \subseteq accepted

\* The modem is asked for a DLC only when every lower one is open on both
\* ends: a retransmitted SABM never overtakes the bring-up order.
AcceptedInOrder ==
  \A d \in accepted : 0 .. d - 1 \subseteq Open!opened \cap accepted

\* start() reports a rejection only for a DLC on which the modem has sent a
\* DM, never because of an answer meant for another one.
RejectedIsRefused == phase = "Rejected" => dlci \in refused

\* emit() never drops an answer: when a control frame is about to be handled
\* the control queue has room, however late the answers to the repeated
\* SABMs come in.
RoomForControl ==
  (toHost # <<>> /\ Head(toHost).kind \in ControlKinds)
    => Len(ctrl) < CTRL_QUEUE_DEPTH

\* start() returns, whatever the modem does or does not do: a full TX queue
\* delays an attempt and an event meant for another DLC uses one up, but
\* the attempts run out.
StartTerminates == <>Open!Done

-----------------------------------------------------------------------------
(* The inductive strengthening of these invariants.                        *)

\* A UA or a DM on its way stands for what the modem did.
AnswersAreTrue ==
  /\ \A i \in DOMAIN toHost :
       /\ toHost[i].kind = "Ua" => toHost[i].dlci \in accepted
       /\ toHost[i].kind = "Dm" => toHost[i].dlci \in refused
  /\ \A i \in DOMAIN ctrl :
       /\ ctrl[i].kind = "Ua" => ctrl[i].dlci \in accepted
       /\ ctrl[i].kind = "Dm" => ctrl[i].dlci \in refused

\* No SABM runs ahead of the DLC being opened.
SabmsInOrder ==
  /\ \A i \in DOMAIN requests : requests[i].kind = "Sabm" => requests[i].dlci <= dlci
  /\ \A i \in DOMAIN sending : sending[i].kind = "Sabm" => sending[i].dlci <= dlci
  /\ \A i \in DOMAIN toModem : toModem[i].kind = "Sabm" => toModem[i].dlci <= dlci
  /\ \A d \in accepted : d <= dlci

\* SABMs not yet answered and answers not yet handled, wherever they are.
Outstanding ==
  CountIn(requests, {"Sabm"}) + CountIn(sending, {"Sabm"})
  + CountIn(toModem, {"Sabm"}) + CountIn(toHost, ControlKinds) + Len(ctrl)

\* The SABMs queued so far for the DLC being opened.
Queued == IF phase = "idle" THEN 0
          ELSE IF phase = "sending" THEN attempt ELSE attempt + 1

\* The answers that the DLC opened last may have left behind: all but the one
\* that was read.
Leftover == IF dlci = 0 THEN 0 ELSE SABM_RETRIES - 1

OutstandingBound == Outstanding <= strays + Leftover + Queued

\* How many elements of the queue s from its i-th on are of a kind in K.
CountFrom(s, i, K) == CountIn(SubSeq(s, i, Len(s)), K)

\* From each element of s of kind k for DLC d on, the n items behind s
\* included, there are no more than b.
InTurn(s, k, d, K, n, b) ==
  \A i \in DOMAIN s :
    s[i].kind = k /\ s[i].dlci = d => CountFrom(s, i, K) + n <= b

\* Requests, SABMs, answers and events keep their order all the way round, so
\* that nothing is left over behind a SABM or a UA for the DLC being opened:
\* from there on, there are only SABMs queued for it, answers to them and stray
\* frames.  When its UA is read, the leftovers of the DLC before are gone.
AnswersInTurn ==
  LET r == CountIn(requests, {"Sabm"})
      s == CountIn(sending, {"Sabm"})
      m == CountIn(toModem, {"Sabm"})
      h == CountIn(toHost, ControlKinds)
      b == Queued + strays
  IN  /\ InTurn(requests, "Sabm", dlci, {"Sabm"}, 0, b)
      /\ InTurn(sending, "Sabm", dlci, {"Sabm"}, r, b)
      /\ InTurn(toModem, "Sabm", dlci, {"Sabm"}, r + s, b)
      /\ InTurn(toHost, "Ua", dlci, ControlKinds, r + s + m, b)
      /\ InTurn(ctrl, "Ua", dlci, ControlKinds, r + s + m + h, b)

IInv ==
  /\ TypeOK
  /\ phase = "idle" => dlci = 0 /\ attempt = 0
  /\ phase = "ok" => dlci = 2
  /\ AnswersAreTrue
  /\ SabmsInOrder
  /\ OpenedIsAccepted
  /\ RejectedIsRefused
  /\ OutstandingBound
  /\ AnswersInTurn

=============================================================================
