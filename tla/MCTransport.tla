----------------------------- MODULE MCTransport -----------------------------
(***************************************************************************)
(* Transport on small flows.  Nothing needs a bound beside the constants:  *)
(* a packet is sent at most max_attempts times, so the copies, timers and  *)
(* acks of a flow are finite.                                              *)
(***************************************************************************)
EXTENDS Transport
=============================================================================
