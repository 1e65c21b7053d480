------------------------------ MODULE LossyFifo ------------------------------
(****************************************************************************)
(* What a way for correction data promises: what comes out was put in, in   *)
(* the same order and at most once.  Anything may be lost on the way, which *)
(* a receiver makes up for with the next epoch.                             *)
(****************************************************************************)
EXTENDS Naturals, Sequences, SequencesExt

VARIABLES sent, got   \* how many pieces were put in; those that came out

Init == sent = 0 /\ got = <<>>

Put == sent' \in Nat /\ sent' > sent /\ UNCHANGED got

Increasing(q) == \A i, j \in DOMAIN q : i < j => q[i] < q[j]

(* Some pieces come out, one or more, and none that is older than the last. *)
Get ==
  /\ got' \in Seq(1 .. sent)
  /\ Len(got') > Len(got) /\ IsPrefix(got, got')
  /\ Increasing(got')
  /\ UNCHANGED sent

Spec == Init /\ [][Put \/ Get]_<<sent, got>>
=============================================================================
