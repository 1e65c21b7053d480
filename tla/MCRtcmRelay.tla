----------------------------- MODULE MCRtcmRelay -----------------------------
(* Instances of RtcmRelay for TLC. *)
EXTENDS RtcmRelay, TLC
CONSTANTS c1, c2
TwoClients == {c1, c2}
=============================================================================
