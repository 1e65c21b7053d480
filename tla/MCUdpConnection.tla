--------------------------- MODULE MCUdpConnection ---------------------------
(* Instances of UdpConnection for TLC: connections made one after the other. *)
EXTENDS UdpConnection, TLC

CONSTANTS g1, g2, g3

TwoConns == {g1, g2}
ThreeConns == {g1, g2, g3}
=============================================================================
