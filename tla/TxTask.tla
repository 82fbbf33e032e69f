------------------------------- MODULE TxTask -------------------------------
(***************************************************************************)
(* The TX side: DlcChannel::write (channel.rs) of the two data DLCs, the   *)
(* bounded queue of requests and tx_task (tx.rs), which owns the UART.     *)
(***************************************************************************)
EXTENDS CmuxTypes

VARIABLES requests, \* the TxChan
          sending,  \* the frame tx_task is writing to the UART, if any
          toModem,  \* frames on the line to the modem
          writing,  \* what write() has yet to queue, for each DLC
          written   \* history: bytes passed to write(), for each DLC

Init ==
  /\ requests = <<>> /\ sending = <<>> /\ toModem = <<>>
  /\ writing = [d \in DataDlcs |-> <<>>]
  /\ written = [d \in DataDlcs |-> 0]

\* A task calls write() with n bytes.
Write(d, n) ==
  /\ writing[d] = <<>>
  /\ writing' = [writing EXCEPT ![d] = BytesAfter(written[d], n)]
  /\ written' = [written EXCEPT ![d] = @ + n]
  /\ UNCHANGED <<requests, sending, toModem>>

\* The next chunk of what write() was given, and what follows it.
chunk(d) ==
  SubSeq(writing[d], 1, IF Len(writing[d]) < MAX_INFO_LEN
                        THEN Len(writing[d]) ELSE MAX_INFO_LEN)

\* MUTANT: the next chunk starts with the last byte of this one.
overlapping_rest(d) ==
  IF chunk(d) = writing[d] THEN <<>>
  ELSE SubSeq(writing[d], Len(chunk(d)), Len(writing[d]))

\* MUTANT: write() returns after the first chunk.
no_rest(d) == <<>>

rest(d) == SubSeq(writing[d], Len(chunk(d)) + 1, Len(writing[d]))

\* One iteration of write(): the next chunk is queued once there is room.
\* The writers of the two DLCs contend for the queue chunk by chunk.
SendChunk(d) ==
  /\ writing[d] # <<>>
  /\ Len(requests) < TX_QUEUE_DEPTH
  /\ requests' = Append(requests, Data(d, chunk(d)))
  /\ writing' = [writing EXCEPT ![d] = rest(d)]
  /\ UNCHANGED <<sending, toModem, written>>

\* The frame built from a request.
ToFrame(req) == IF req.kind = "Data" THEN Uih(req.dlci, req.info)
                ELSE Sabm(req.dlci)

\* tx_task takes a request and starts writing its frame: the place in the
\* queue is free from here on.  encode() cannot fail: the payload is at most
\* MAX_INFO_LEN bytes and `wire` holds the longest frame.
TakeRequest ==
  /\ sending = <<>>
  /\ requests # <<>>
  /\ sending' = <<ToFrame(Head(requests))>>
  /\ requests' = Tail(requests)
  /\ UNCHANGED <<toModem, writing, written>>

\* write_all returns: the frame is on the line, or a UART error ate it.
Transmit ==
  /\ sending # <<>>
  /\ toModem' = Append(toModem, Head(sending))
  /\ sending' = <<>>
  /\ UNCHANGED <<requests, writing, written>>

\* MUTANT: the frame is sent again although the error came after it was out.
TransmitAgain ==
  /\ sending # <<>>
  /\ toModem' = Append(toModem, Head(sending))
  /\ UNCHANGED <<sending, requests, writing, written>>

TransmitFails ==
  /\ sending # <<>>
  /\ sending' = <<>>
  /\ UNCHANGED <<requests, toModem, writing, written>>
=============================================================================
