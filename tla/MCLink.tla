------------------------------- MODULE MCLink -------------------------------
(***************************************************************************)
(* Link with traffic for TLC: UAs, and data whose octets could pass for    *)
(* address, control and length octets.  A UA and such a frame are as long  *)
(* together as it takes for a stretch out of step to end right at the flag *)
(* of a UA.  One of the frames holds a FLAG and what could follow one.     *)
(***************************************************************************)
EXTENDS Link

ua == [sabm(0) EXCEPT !.role = "Response", !.kind = "Ua"]
plain == uih(1, <<255, 239, 255, 15, 5, 239, 0, 255>>)
misleading == uih(2, <<FLAG, 255, 239, 9>>)

Plain == [i \in 1 .. 16 |-> IF i % 2 = 1 THEN ua ELSE plain]
MCTraffic == Append(Plain, misleading)
=============================================================================
