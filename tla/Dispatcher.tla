----------------------------- MODULE Dispatcher -----------------------------
(***************************************************************************)
(* The RX side (dispatcher.rs): one task takes the frames off the line one *)
(* by one and fans them out to a byte pipe for each data DLC and to the    *)
(* queue of control events.  A full pipe blocks it, a full queue does not. *)
(***************************************************************************)
EXTENDS CmuxTypes

VARIABLES toHost,   \* frames on the line from the modem
          ctrl,     \* the CtrlChan
          pipe,     \* the RX pipes
          pending,  \* the payload write_all has yet to put in a pipe
          lastRead  \* history: the last byte read from each pipe

Init ==
  /\ toHost = <<>> /\ ctrl = <<>>
  /\ pipe = [d \in DataDlcs |-> <<>>]
  /\ pending = Uih(1, <<>>)
  /\ lastRead = [d \in DataDlcs |-> 0]

\* process() is awaited before the next byte is fed to the decoder.
Idle == pending.info = <<>>

TakeFrame(kinds, dlcis) ==
  /\ Idle
  /\ toHost # <<>>
  /\ Head(toHost).kind \in kinds /\ Head(toHost).dlci \in dlcis
  /\ toHost' = Tail(toHost)

\* (1, Uih) and (2, Uih): write_all into the pipe of the DLC.
\* MUTANT: the sinks are swapped.
ToPipeSwapped ==
  /\ TakeFrame({"Uih"}, DataDlcs)
  /\ pending' = [Head(toHost) EXCEPT !.dlci = 3 - @]
  /\ UNCHANGED <<ctrl, pipe, lastRead>>

ToPipe ==
  /\ TakeFrame({"Uih"}, DataDlcs)
  /\ pending' = Head(toHost)
  /\ UNCHANGED <<ctrl, pipe, lastRead>>

\* The arms of process() that only log.
Ignore ==
  /\ TakeFrame({"Sabm"}, 0 .. 63) \/ TakeFrame({"Uih"}, (0 .. 63) \ DataDlcs)
  /\ UNCHANGED <<ctrl, pipe, pending, lastRead>>

\* Ua, Dm, Disc: try_send, which drops the event when the queue is full.
emit(evt) ==
  ctrl' = IF Len(ctrl) < CTRL_QUEUE_DEPTH THEN Append(ctrl, evt) ELSE ctrl

Emit ==
  /\ TakeFrame(ControlKinds, 0 .. 63)
  /\ emit([kind |-> Head(toHost).kind, dlci |-> Head(toHost).dlci])
  /\ UNCHANGED <<pipe, pending, lastRead>>

\* MUTANT: write instead of write_all: what does not fit is forgotten.
no_leftover(k) == <<>>

\* What of the payload is left after its first k bytes.
leftover(k) == SubSeq(pending.info, k + 1, Len(pending.info))

\* A step of write_all: as many bytes as the pipe has room for.
WritePipe ==
  LET d == pending.dlci
      n == Len(pending.info)
      room == PIPE_BYTES(d) - Len(pipe[d])
      k == IF n < room THEN n ELSE room
  IN  /\ ~Idle /\ room > 0
      /\ pipe' = [pipe EXCEPT ![d] = @ \o SubSeq(pending.info, 1, k)]
      /\ pending' = [pending EXCEPT !.info = leftover(k)]
      /\ UNCHANGED <<toHost, ctrl, lastRead>>

\* DlcChannel::read of the task that owns DLC d returns k bytes.
ReadPipe(d, k) ==
  /\ k \in 1 .. Len(pipe[d])
  /\ lastRead' = [lastRead EXCEPT ![d] = pipe[d][k]]
  /\ pipe' = [pipe EXCEPT ![d] = SubSeq(@, k + 1, Len(@))]
  /\ UNCHANGED <<toHost, ctrl, pending>>
=============================================================================
