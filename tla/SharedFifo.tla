------------------------------ MODULE SharedFifo ------------------------------
(****************************************************************************)
(* What a source of correction data with several takers promises: each      *)
(* piece goes to one taker at most, and to each taker the pieces come in    *)
(* the order in which they were put in.  A piece may be lost.               *)
(****************************************************************************)
EXTENDS Naturals, Sequences, SequencesExt

CONSTANT Taker

VARIABLES sent, got   \* how many pieces were put in; got[t]: those that t was given

Init == sent = 0 /\ got = [t \in Taker |-> <<>>]

Put == sent' \in Nat /\ sent' > sent /\ UNCHANGED got

Give(t) ==
  \E p \in 1 .. sent :
    /\ \A u \in Taker : p \notin Range(got[u])
    /\ \A q \in Range(got[t]) : q < p
    /\ got' = [got EXCEPT ![t] = Append(@, p)]
    /\ UNCHANGED sent

Next == Put \/ \E t \in Taker : Give(t)

Spec == Init /\ [][Next]_<<sent, got>>
=============================================================================
