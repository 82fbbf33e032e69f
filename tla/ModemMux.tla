------------------------------ MODULE ModemMux ------------------------------
(***************************************************************************)
(* The multiplexer in the SIM800, as far as the host sees it: it answers   *)
(* each SABM with one UA or one DM and exchanges data on the DLCs it has   *)
(* accepted.  Not code of this repository.                                 *)
(***************************************************************************)
EXTENDS CmuxTypes

CONSTANTS MaxStrays  \* bound: frames the modem sends unasked

VARIABLES toModem, toHost,
          accepted, \* the DLCs it has sent a UA for
          refused,  \* those it has sent a DM for
          strays,   \* how many frames it has sent unasked
          sent,     \* bytes sent on each data DLC
          got       \* the last byte taken from each data DLC

Init ==
  /\ toHost = <<>>
  /\ accepted = {} /\ refused = {}
  /\ strays = 0
  /\ sent = [d \in DataDlcs |-> 0]
  /\ got = [d \in DataDlcs |-> 0]

Answer(f) ==
  /\ toModem # <<>> /\ Head(toModem).kind = "Sabm"
  /\ f.dlci = Head(toModem).dlci
  /\ toModem' = Tail(toModem)
  /\ toHost' = Append(toHost, f)
  /\ UNCHANGED <<strays, sent, got>>

Accept ==
  \E d \in Dlcs :
    /\ Answer(Ua(d))
    /\ accepted' = accepted \cup {d}
    /\ UNCHANGED refused

Refuse ==
  \E d \in Dlcs \ accepted :
    /\ Answer(Dm(d))
    /\ refused' = refused \cup {d}
    /\ UNCHANGED accepted

TakeData ==
  /\ toModem # <<>> /\ Head(toModem).kind = "Uih"
  /\ LET f == Head(toModem)
     IN  got' = [got EXCEPT ![f.dlci] =
                   IF f.info = <<>> THEN @ ELSE f.info[Len(f.info)]]
  /\ toModem' = Tail(toModem)
  /\ UNCHANGED <<toHost, accepted, refused, strays, sent>>

SendData(d, n) ==
  /\ d \in accepted
  /\ toHost' = Append(toHost, Uih(d, BytesAfter(sent[d], n)))
  /\ sent' = [sent EXCEPT ![d] = @ + n]
  /\ UNCHANGED <<toModem, accepted, refused, strays, got>>

\* A frame nobody asked for: a DISC, a DM or a SABM on some DLC, modem
\* status on the control channel, data on a DLC the host did not open.
Strays == {[kind |-> k, dlci |-> d, info |-> <<>>] :
             k \in {"Disc", "Dm", "Sabm"}, d \in Dlcs}
          \cup {Uih(0, <<>>), Uih(3, <<>>)}

SendStray(f) ==
  /\ strays < MaxStrays
  /\ toHost' = Append(toHost, f)
  /\ strays' = strays + 1
  /\ refused' = refused \cup (IF f.kind = "Dm" THEN {f.dlci} ELSE {})
  /\ UNCHANGED <<toModem, accepted, sent, got>>
=============================================================================
