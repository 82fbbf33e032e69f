------------------------------- MODULE OpenDlc -------------------------------
(***************************************************************************)
(* The bring-up of the three DLCs by the main task: start() and open_dlc() *)
(* of mod.rs.  Between two awaits the task runs alone, so draining the     *)
(* control queue, queueing the SABM and starting to wait are one step,     *)
(* together with the event or the timeout that led to them.                *)
(***************************************************************************)
EXTENDS CmuxTypes

VARIABLES phase,    \* where the main task stands
          dlci,     \* the DLC being opened
          attempt,  \* the SABM attempt, from 0
          requests, \* the TxChan
          ctrl      \* the CtrlChan

Phase == {"idle",        \* start() not called yet
          "sending",     \* awaiting room for the SABM in the TxChan
          "waiting",     \* awaiting a control event, for SABM_TIMEOUT
          "ok",          \* start() returned the handles
          "SabmTimeout", "Rejected"}  \* start() returned this error for dlci

Done == phase \in {"ok", "SabmTimeout", "Rejected"}

\* The DLCs open_dlc() returned Ok for.
opened == IF phase = "ok" THEN Dlcs ELSE 0 .. dlci - 1

Init == phase = "idle" /\ dlci = 0 /\ attempt = 0

\* An iteration of open_dlc: drain the stale events, send the SABM.
BeginAttempt(d, a) ==
  /\ dlci' = d /\ attempt' = a
  /\ ctrl' = <<>>
  /\ \/ /\ Len(requests) < TX_QUEUE_DEPTH
        /\ requests' = Append(requests, Sabm(d))
        /\ phase' = "waiting"
     \/ /\ Len(requests) >= TX_QUEUE_DEPTH
        /\ phase' = "sending"
        /\ UNCHANGED requests

Start == phase = "idle" /\ BeginAttempt(0, 0)

\* The blocked send gets through.
SendSabm ==
  /\ phase = "sending"
  /\ Len(requests) < TX_QUEUE_DEPTH
  /\ requests' = Append(requests, Sabm(dlci))
  /\ phase' = "waiting"
  /\ UNCHANGED <<dlci, attempt, ctrl>>

\* MUTANT: one attempt too many.
one_attempt_more == attempt < SABM_RETRIES

\* MUTANT: one attempt too few.
one_attempt_less == attempt + 2 < SABM_RETRIES

\* Whether `for attempt in 0..SABM_RETRIES` goes round again.
attempts_left == attempt + 1 < SABM_RETRIES

\* MUTANT: an attempt that ends without an answer is not counted.
RetryUncounted(rest) == BeginAttempt(dlci, attempt)

\* The attempt is over; `rest` is what it leaves in the control queue.
Retry(rest) ==
  \/ attempts_left /\ BeginAttempt(dlci, attempt + 1)
  \/ /\ ~attempts_left
     /\ phase' = "SabmTimeout"
     /\ ctrl' = rest
     /\ UNCHANGED <<dlci, attempt, requests>>

\* MUTANT: the DLCI of the event is not compared.
HeardOnAnyDlc(evt) ==
  phase = "waiting" /\ ctrl # <<>> /\ Head(ctrl).kind = evt.kind

Heard(evt) == phase = "waiting" /\ ctrl # <<>> /\ Head(ctrl) = evt

\* The matching UA: on to the next DLC, or start() is done.
ReceiveUa ==
  /\ Heard([kind |-> "Ua", dlci |-> dlci])
  /\ \/ /\ dlci + 1 \in Dlcs
        /\ BeginAttempt(dlci + 1, 0)
     \/ /\ dlci + 1 \notin Dlcs
        /\ phase' = "ok"
        /\ ctrl' = Tail(ctrl)
        /\ UNCHANGED <<dlci, attempt, requests>>

ReceiveDm ==
  /\ Heard([kind |-> "Dm", dlci |-> dlci])
  /\ phase' = "Rejected"
  /\ ctrl' = Tail(ctrl)
  /\ UNCHANGED <<dlci, attempt, requests>>

\* Any other event uses up the attempt.
ReceiveOther ==
  /\ phase = "waiting" /\ ctrl # <<>>
  /\ \A k \in {"Ua", "Dm"} : Head(ctrl) # [kind |-> k, dlci |-> dlci]
  /\ Retry(Tail(ctrl))

\* with_timeout polls receive() first: it only expires on an empty queue.
Timeout ==
  /\ phase = "waiting" /\ ctrl = <<>>
  /\ Retry(<<>>)
=============================================================================
