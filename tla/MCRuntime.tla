------------------------------ MODULE MCRuntime ------------------------------
(***************************************************************************)
(* CmuxRuntime with the faults of the line counted so that a run can bound *)
(* them, and with what the main task was told recorded.                    *)
(***************************************************************************)
EXTENDS CmuxRuntime

CONSTANTS MaxFaults  \* bound: frames lost and answers late

ASSUME BoundsAssumption == MaxFaults \in Nat

VARIABLES faults,     \* how many there were
          heard       \* the DLCs whose UA was queued while it was awaited
mcVars == <<vars, faults, heard>>

MCInit == Init /\ faults = 0 /\ heard = {}

\* An answer to a SABM for the DLC being opened is still on its way.
AnswerComing ==
  \E s \in {requests, sending, toModem, toHost} : \E i \in DOMAIN s :
    s[i].kind \in {"Sabm", "Ua", "Dm"} /\ s[i].dlci = dlci

\* The dispatcher is about to queue the UA that open_dlc() is waiting for.
Hearing ==
  /\ phase = "waiting"
  /\ Rx!Idle /\ toHost # <<>> /\ Head(toHost) = Ua(dlci)

Quiet == UNCHANGED <<faults, heard>>

MCMain == (MainStep \/ (Timeout /\ ~AnswerComing)) /\ Quiet
MCTx == TxStep /\ Quiet
MCRx ==
  /\ RxStep
  /\ heard' = heard \cup (IF Hearing THEN {dlci} ELSE {})
  /\ UNCHANGED faults
MCUser(d) == (Writer(d) \/ Reader(d)) /\ Quiet
MCAnswer == ModemAnswer /\ Quiet
MCModem == (ModemRefuse \/ ModemSend) /\ Quiet

\* A timeout is a fault when the answer was only late.
Fault ==
  /\ faults < MaxFaults
  /\ faults' = faults + 1
  /\ UNCHANGED heard
  /\ (Timeout /\ AnswerComing) \/ LoseToModem \/ LoseToHost \/ TransmitFails

MCNext ==
  \/ MCMain \/ MCTx \/ MCRx \/ MCAnswer \/ MCModem \/ Fault
  \/ \E d \in DataDlcs : MCUser(d)

MCSpec == MCInit /\ [][MCNext]_mcVars

\* Every task is polled and the modem answers; only faults are left to chance.
MCFairSpec ==
  /\ MCSpec
  /\ WF_mcVars(MCMain) /\ WF_mcVars(MCTx) /\ WF_mcVars(MCRx)
  /\ WF_mcVars(MCAnswer)
  /\ \A d \in DataDlcs : /\ WF_mcVars(Reader(d) /\ Quiet)
                         /\ WF_mcVars(Tx!SendChunk(d) /\ Writer(d) /\ Quiet)

-----------------------------------------------------------------------------
\* It takes SABM_RETRIES faults (frames lost either way, answers that miss
\* SABM_TIMEOUT) or frames nobody asked for to make start() report SabmTimeout,
\* although a late answer is taken for the answer of a later attempt, and with
\* it the drain throws away the one awaited.
OpensDespiteFaults == phase = "SabmTimeout" => faults + strays >= SABM_RETRIES

\* "Peer didn't acknowledge SABM within the timeout for this DLCI" (StartError
\* of mod.rs): start() reports SabmTimeout(d) only if no UA(d) reached the
\* control queue while open_dlc(d) was waiting for it.
SabmTimeoutIsHonest == phase = "SabmTimeout" => dlci \notin heard

-----------------------------------------------------------------------------
(* Both directions of each data DLC are byte FIFOs.                        *)

RxStream(d) == INSTANCE DlcStream WITH
  put <- sent[d], last <- lastRead[d],
  fifo <- pipe[d] \o Payload(<<pending>> \o toHost, d)

TxStream(d) == INSTANCE DlcStream WITH
  put <- written[d], last <- got[d],
  fifo <- Payload(toModem \o sending \o requests, d) \o writing[d]

\* Splitting into frames, the dispatcher, the pipes and partial reads keep the
\* bytes of each DLC in order, lose none and repeat none (but for the frames
\* the line loses), whatever happens on the other DLC.
RxIsStream ==
  /\ \A d \in DataDlcs : RxStream(d)!Init
  /\ [][\A d \in DataDlcs : [RxStream(d)!Next]_(RxStream(d)!vars)]_mcVars

\* So do write()'s chunks, the shared queue and tx_task in the other direction.
TxIsStream ==
  /\ \A d \in DataDlcs : TxStream(d)!Init
  /\ [][\A d \in DataDlcs : [TxStream(d)!Next]_(TxStream(d)!vars)]_mcVars

\* Without faults, once the handles are out every byte sent is read, as long
\* as both DLCs have a reader: the dispatcher gets past every full pipe. What
\* the UART loses meanwhile, as it has no flow control, is a fault here.
RxDelivered ==
  phase = "ok" ~> faults > 0 \/ \A d \in DataDlcs : lastRead[d] = sent[d]

\* And every byte written reaches the modem.
TxDelivered ==
  phase = "ok" ~> faults > 0 \/ \A d \in DataDlcs : writing[d] = <<>> /\ got[d] = written[d]
=============================================================================
