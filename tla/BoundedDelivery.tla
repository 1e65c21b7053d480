--------------------------- MODULE BoundedDelivery ---------------------------
(****************************************************************************)
(* What the command path promises about one command, whatever the link does *)
(* and however the threads interleave: it goes out at most MaxTries times,  *)
(* is given up only when it has gone out MaxTries times, and once its fate  *)
(* is known nothing more is decided for it, so that at most the one         *)
(* transmission already decided still follows.  A command may also be       *)
(* displaced: forgotten before its fate is known.                           *)
(****************************************************************************)
EXTENDS Naturals

CONSTANTS Call, MaxTries

VARIABLES
  decided,   \* decided[c]: tries decided so far, each one transmission or none
  sent,      \* sent[c]: tries made so far
  outcome    \* outcome[c]: the fate of the command

vars == <<decided, sent, outcome>>

Outcome == {"none", "waiting", "answered", "expired", "displaced"}

TypeOK ==
  /\ decided \in [Call -> 0 .. MaxTries]
  /\ sent \in [Call -> 0 .. MaxTries]
  /\ outcome \in [Call -> Outcome]

Init ==
  /\ decided = [c \in Call |-> 0]
  /\ sent = [c \in Call |-> 0]
  /\ outcome = [c \in Call |-> "none"]

(* The first transmission; the answer is awaited only later. *)
Begin(c) ==
  /\ outcome[c] = "none" /\ sent[c] = 0
  /\ decided' = [decided EXCEPT ![c] = 1]
  /\ sent' = [sent EXCEPT ![c] = 1]
  /\ UNCHANGED outcome

(* Waiting for the answer of c starts; it may push another command out. *)
Await(c, displaced) ==
  /\ outcome[c] = "none" /\ sent[c] = 1
  /\ \A d \in displaced : outcome[d] = "waiting"
  /\ outcome' = [d \in Call |-> IF d = c THEN "waiting"
                                ELSE IF d \in displaced THEN "displaced"
                                ELSE outcome[d]]
  /\ UNCHANGED <<decided, sent>>

(* Time is up for some commands: one more try for these, the end for those. *)
Review(again, over) ==
  /\ \A c \in again : outcome[c] = "waiting" /\ decided[c] = sent[c] /\ sent[c] < MaxTries
  /\ \A c \in over : outcome[c] = "waiting" /\ sent[c] = MaxTries
  /\ decided' = [c \in Call |-> IF c \in again THEN decided[c] + 1 ELSE decided[c]]
  /\ outcome' = [c \in Call |-> IF c \in over THEN "expired" ELSE outcome[c]]
  /\ UNCHANGED sent

Transmit(c) ==
  /\ sent[c] < decided[c]
  /\ sent' = [sent EXCEPT ![c] = @ + 1]
  /\ UNCHANGED <<decided, outcome>>

Answer(c) ==
  /\ outcome[c] = "waiting"
  /\ outcome' = [outcome EXCEPT ![c] = "answered"]
  /\ UNCHANGED <<decided, sent>>

Next ==
  \/ \E c \in Call : Begin(c) \/ Transmit(c) \/ Answer(c)
  \/ \E c \in Call, displaced \in SUBSET Call : Await(c, displaced)
  \/ \E again, over \in SUBSET Call : Review(again, over)

Spec == Init /\ [][Next]_vars
=============================================================================
