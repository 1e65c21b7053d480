------------------------- MODULE MCCommandDispatcher -------------------------
(* Instances of CommandDispatcher for TLC. *)
EXTENDS CommandDispatcher, TLC

CONSTANTS c1, c2, c3, d1, d2

Ask(op, drone) == [op |-> op, drone |-> drone]

(* Two calls: each way of arming beside a DISARM of the same drone, which has
   the command id of ARM, and beside a DISARM of another drone; a LAND beside a
   slower LAND; and the operation that is not tracked. *)
TwoCalls == {c1, c2}
TwoDrones == {d1, d2}
BesideDisarm == {Ask("ARM", d1), Ask("INDOOR_ARM", d1), Ask("FORCE_ARM", d1),
                 Ask("RESTORE", d1), Ask("ARM", d2)}
PairedRequests ==
  {[c \in TwoCalls |-> IF c = c1 THEN first ELSE Ask("DISARM", d1)] :
     first \in BesideDisarm}
    \union {[c \in TwoCalls |-> Ask(IF c = c1 THEN "LAND" ELSE "SLOW_LAND", d1)]}

(* Three calls for one drone, enough entries for a deletion to make an old key
   again: all with one command id, or two of one and one of another. *)
ThreeCalls == {c1, c2, c3}
OneDrone == {d1}
TripleRequests ==
  {[c \in ThreeCalls |-> IF c \in takeoffs THEN Ask("TAKEOFF", d1)
                                           ELSE Ask("DISARM", d1)] :
     takeoffs \in {{}, {c1}, {c2}, {c3}}}

Symmetry == Permutations(Call)
=============================================================================
