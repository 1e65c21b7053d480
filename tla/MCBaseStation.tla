---------------------------- MODULE MCBaseStation ----------------------------
(* Instances of BaseStation for TLC. *)
EXTENDS BaseStation, TLC

CONSTANTS a, b

OneClient == {a}
TwoClients == {a, b}
=============================================================================
