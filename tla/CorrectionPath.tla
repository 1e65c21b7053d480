---------------------------- MODULE CorrectionPath ----------------------------
(****************************************************************************)
(* From the receiver of the base station to that of a rover: a source with  *)
(* several takers (SharedFifo, which BaseStation implements) and, behind    *)
(* the connection of one taker, a program that hands on what it is given    *)
(* (LossyFifo, which RtcmRelay implements).  The theorems say what the two  *)
(* promises come to when they are put one behind the other.                 *)
(****************************************************************************)
EXTENDS SharedFifo, SequenceFacts, TLAPS

CONSTANT Self    \* the taker whose connection the program is at the end of

VARIABLE places  \* the places, in what Self was given, of the pieces that come out

Given == got[Self]
Out == [i \in 1 .. Len(places) |-> Given[places[i]]]

First == INSTANCE LossyFifo WITH got <- Given
Second == INSTANCE LossyFifo WITH sent <- Len(Given), got <- places
Whole == INSTANCE LossyFifo WITH got <- Out

(* The source and the program do not act in the same moment. *)
Apart == UNCHANGED <<sent, got>> \/ UNCHANGED places

Path ==
  Spec /\ Second!Spec /\ [][Apart]_<<sent, got, places>>

-----------------------------------------------------------------------------
(* What each taker was given rises, and was put in. *)

SourceInv ==
  /\ sent \in Nat
  /\ got \in [Taker -> Seq(Nat)]
  /\ \A t \in Taker : Rising(got[t]) /\ Range(got[t]) \subseteq 1 .. sent

LEMMA GivenOne ==
  ASSUME SourceInv, NEW t \in Taker, NEW p \in 1 .. sent, \A q \in Range(got[t]) : q < p
  PROVE  LET s == Append(got[t], p) IN
         /\ s \in Seq(Nat) /\ Rising(s) /\ Range(s) \subseteq 1 .. sent
<1> DEFINE s == Append(got[t], p)
<1>1. /\ got[t] \in Seq(Nat) /\ Len(got[t]) \in Nat /\ sent \in Nat /\ p \in Nat
      /\ DOMAIN got[t] = 1 .. Len(got[t])
      /\ \A i \in 1 .. Len(got[t]) : got[t][i] \in Range(got[t])
  BY RangeOf DEF SourceInv
<1>2. /\ s \in Seq(Nat) /\ Range(s) = Range(got[t]) \union {p}
      /\ DOMAIN s = 1 .. Len(got[t]) + 1
      /\ \A i \in 1 .. Len(got[t]) : s[i] = got[t][i]
      /\ s[Len(got[t]) + 1] = p
  BY <1>1, Appended
<1> HIDE DEF s
<1>3. ASSUME NEW i \in DOMAIN s, NEW j \in DOMAIN s, i < j PROVE s[i] < s[j]
  <2>1. i \in 1 .. Len(got[t])
    BY <1>1, <1>2, <1>3
  <2>2. CASE j = Len(got[t]) + 1
    BY <1>1, <1>2, <2>1, <2>2
  <2>3. CASE j \in 1 .. Len(got[t])
    <3>1. got[t][i] < got[t][j]
      BY <1>1, <1>3, <2>1, <2>3 DEF SourceInv, Rising
    <3>2. QED BY <1>2, <2>1, <2>3, <3>1
  <2>4. QED BY <1>1, <1>2, <2>2, <2>3
<1>4. Rising(s) /\ Range(s) \subseteq 1 .. sent
  BY <1>2, <1>3 DEF Rising, SourceInv
<1>5. QED BY <1>2, <1>4 DEF s

LEMMA SourceStarts == Init => SourceInv
<1> SUFFICES ASSUME Init PROVE SourceInv
  OBVIOUS
<1>1. sent = 0 /\ \A t \in Taker : got[t] = <<>>
  BY DEF Init
<1>2. Rising(<<>>) /\ Range(<<>>) = {} /\ <<>> \in Seq(Nat)
  BY Empty DEF Rising
<1>3. QED BY <1>1, <1>2 DEF Init, SourceInv

LEMMA SourceSteps == SourceInv /\ [Next]_<<sent, got>> => SourceInv'
<1> SUFFICES ASSUME SourceInv, [Next]_<<sent, got>> PROVE SourceInv'
  OBVIOUS
<1>1. CASE Put
  <2>1. sent \in Nat /\ sent' \in Nat /\ sent' > sent /\ got' = got
    BY <1>1 DEF Put, SourceInv
  <2>2. 1 .. sent \subseteq 1 .. sent'
    BY <2>1
  <2>3. QED BY <2>1, <2>2 DEF SourceInv, Rising, Range
<1>2. ASSUME NEW t \in Taker, Give(t) PROVE SourceInv'
  <2>1. PICK p \in 1 .. sent :
          /\ \A q \in Range(got[t]) : q < p
          /\ got' = [got EXCEPT ![t] = Append(@, p)]
          /\ UNCHANGED sent
    BY <1>2 DEF Give
  <2> DEFINE s == Append(got[t], p)
  <2>2. s \in Seq(Nat) /\ Rising(s) /\ Range(s) \subseteq 1 .. sent
    BY <2>1, GivenOne
  <2>3. got'[t] = s /\ \A u \in Taker : u # t => got'[u] = got[u]
    BY <2>1 DEF SourceInv
  <2> HIDE DEF s
  <2>4. got' \in [Taker -> Seq(Nat)]
    BY <2>1, <2>2, <2>3 DEF SourceInv, s
  <2>5. \A u \in Taker : Rising(got'[u]) /\ Range(got'[u]) \subseteq 1 .. sent
    BY <2>2, <2>3 DEF SourceInv
  <2>6. QED BY <2>1, <2>4, <2>5 DEF SourceInv, Rising, Range
<1>3. CASE UNCHANGED <<sent, got>>
  BY <1>3 DEF SourceInv, Rising, Range
<1>4. QED BY <1>1, <1>2, <1>3 DEF Next

-----------------------------------------------------------------------------
(* A rising sequence with more at its end: what LossyFifo asks of a Get. *)

LEMMA Lengthened ==
  ASSUME NEW s \in Seq(Nat), NEW x \in Seq(Nat), x # <<>>
  PROVE  /\ Len(s \o x) > Len(s) /\ SubSeq(s \o x, 1, Len(s)) = s
         /\ SubSeq(s, 1, Len(s)) = s /\ Len(s) <= Len(s \o x)
<1> DEFINE r == s \o x
<1>1. /\ r \in Seq(Nat) /\ Len(r) = Len(s) + Len(x) /\ Len(s) \in Nat /\ Len(x) \in Nat
      /\ Len(x) > 0
      /\ \A i \in 1 .. Len(s) : r[i] = s[i]
  <2>1. Len(x) \in Nat /\ Len(s) \in Nat /\ Len(x) # 0
    BY EmptySeq, LenProperties
  <2>2. QED BY <2>1, Joined
<1> HIDE DEF r
<1>2. SubSeq(r, 1, Len(s)) = s
  <2>1. \A i \in 1 .. Len(s) : r[i] \in Nat
    BY <1>1, RangeOf
  <2>2. /\ SubSeq(r, 1, Len(s)) \in Seq(Nat)
        /\ Len(SubSeq(r, 1, Len(s))) = IF 1 <= Len(s) THEN Len(s) - 1 + 1 ELSE 0
        /\ \A i \in 1 .. Len(s) - 1 + 1 : SubSeq(r, 1, Len(s))[i] = r[1 + i - 1]
    BY <1>1, <2>1, SubSeqProperties
  <2>3. /\ Len(SubSeq(r, 1, Len(s))) = Len(s)
        /\ \A i \in 1 .. Len(s) : SubSeq(r, 1, Len(s))[i] = s[i]
    BY <1>1, <2>2
  <2>4. QED BY <2>2, <2>3, SeqEqual
<1>3. QED BY <1>1, <1>2, SubSeqFull DEF r

(* What is given to Self comes out of the first way. *)
LEMMA GivenComesOut ==
  ASSUME SourceInv, Self \in Taker, Give(Self)
  PROVE  First!Get /\ \E p \in Nat : Given' = Append(Given, p)
<1>1. PICK p \in 1 .. sent :
        /\ \A q \in Range(Given) : q < p
        /\ got' = [got EXCEPT ![Self] = Append(@, p)]
        /\ UNCHANGED sent
  BY DEF Give, Given
<1>2. /\ Given \in Seq(Nat) /\ sent \in Nat /\ p \in Nat /\ Given' = Append(Given, p)
  BY <1>1 DEF SourceInv, Given
<1>3. Given' \in Seq(Nat) /\ Rising(Given') /\ Range(Given') \subseteq 1 .. sent
  BY <1>1, <1>2, GivenOne DEF Given
<1>4. Given' \in Seq(1 .. sent)
  BY <1>3, OverItsRange
<1>5. First!Increasing(Given')
  BY <1>3 DEF First!Increasing, Rising
<1>6. Given' = Given \o <<p>>
  BY <1>2, AppendIsConcat
<1>7. <<p>> \in Seq(Nat) /\ <<p>> # <<>>
  BY <1>2
<1>8. Len(Given') > Len(Given) /\ First!IsPrefix(Given, Given')
  BY <1>2, <1>6, <1>7, Lengthened DEF First!IsPrefix
<1>9. QED BY <1>1, <1>2, <1>4, <1>5, <1>8 DEF First!Get

LEMMA SourceStepIsOfFirst ==
  ASSUME SourceInv, Self \in Taker, [Next]_<<sent, got>>
  PROVE  First!Put \/ First!Get \/ UNCHANGED <<sent, Given>>
<1>1. CASE Put
  BY <1>1 DEF Put, First!Put, Given
<1>2. CASE Give(Self)
  BY <1>2, GivenComesOut
<1>3. ASSUME NEW t \in Taker, t # Self, Give(t) PROVE UNCHANGED <<sent, Given>>
  BY <1>3 DEF Give, Given, SourceInv
<1>4. CASE UNCHANGED <<sent, got>>
  BY <1>4 DEF Given
<1>5. QED BY <1>1, <1>2, <1>3, <1>4 DEF Next

(* A source that shares out is, for each of its takers, a way that loses but does
   not reorder or repeat. *)
THEOREM OneTakersWay == Self \in Taker => (Spec => First!Spec)
<1> SUFFICES ASSUME Self \in Taker PROVE Spec => First!Spec
  OBVIOUS
<1>1. Init => First!Init
  BY DEF Init, First!Init, Given
<1>2. SourceInv /\ [Next]_<<sent, got>> => [First!Put \/ First!Get]_<<sent, Given>>
  BY SourceStepIsOfFirst
<1>3. QED BY SourceStarts, SourceSteps, <1>1, <1>2, PTL DEF Spec, First!Spec

-----------------------------------------------------------------------------
(* One way behind the other. *)

LEMMA PiecesAreNumbers ==
  ASSUME NEW n \in Nat, NEW s \in Seq(1 .. n)
  PROVE  s \in Seq(Nat)
<1>1. 1 .. n \subseteq Nat
  OBVIOUS
<1>2. QED BY <1>1, SeqMonotonic

PathInv ==
  /\ SourceInv
  /\ places \in Seq(1 .. Len(Given)) /\ Rising(places)

LEMMA PathStarts ==
  ASSUME Self \in Taker, Init, Second!Init
  PROVE  PathInv /\ Whole!Init
<1>1. SourceInv /\ Given = <<>> /\ places = <<>> /\ sent = 0
  BY SourceStarts DEF Init, Second!Init, Given
<1>2. places \in Seq(1 .. Len(Given)) /\ Rising(places) /\ Len(places) = 0
  BY <1>1, Empty DEF Rising
<1>3. Out = <<>>
  BY <1>2 DEF Out
<1>4. QED BY <1>1, <1>2, <1>3 DEF PathInv, Whole!Init

(* The source moves: what has come out stays as it is. *)
LEMMA SourceMoves ==
  ASSUME PathInv, Self \in Taker, [Next]_<<sent, got>>, UNCHANGED places
  PROVE  PathInv' /\ (Whole!Put \/ UNCHANGED <<sent, Out>>)
<1>1. /\ SourceInv /\ SourceInv'
      /\ places \in Seq(1 .. Len(Given)) /\ Rising(places) /\ places' = places
      /\ Given \in Seq(Nat) /\ Given' \in Seq(Nat)
      /\ Len(Given) \in Nat /\ Len(Given') \in Nat
  BY SourceSteps, LenProperties DEF PathInv, SourceInv, Given
<1>2. /\ Len(Given') >= Len(Given) /\ \A i \in 1 .. Len(Given) : Given'[i] = Given[i]
  <2>1. CASE Give(Self)
    <3>1. PICK p \in Nat : Given' = Append(Given, p)
      BY <1>1, <2>1, GivenComesOut
    <3>2. QED BY <1>1, <3>1, Appended
  <2>2. CASE ~Give(Self)
    <3>1. Given' = Given
      BY <1>1, <2>2 DEF Next, Put, Give, Given, SourceInv
    <3>2. QED BY <1>1, <3>1
  <2>3. QED BY <2>1, <2>2
<1>3. places \in Seq(1 .. Len(Given')) /\ \A i \in 1 .. Len(places) : places[i] \in 1 .. Len(Given)
  <2>1. 1 .. Len(Given) \subseteq 1 .. Len(Given')
    BY <1>1, <1>2
  <2>2. QED BY <1>1, <2>1, SeqMonotonic, RangeOf
<1>4. Out' = Out
  BY <1>1, <1>2, <1>3 DEF Out
<1>5. sent' = sent \/ (sent' \in Nat /\ sent' > sent)
  BY DEF Next, Put, Give
<1>6. Rising(places')
  BY <1>1 DEF Rising
<1>7. QED BY <1>1, <1>3, <1>4, <1>5, <1>6 DEF PathInv, Whole!Put

(* The program at the end of the connection moves. *)
LEMMA ProgramMoves ==
  ASSUME PathInv, Self \in Taker, UNCHANGED <<sent, got>>,
         [Second!Put \/ Second!Get]_<<Len(Given), places>>
  PROVE  PathInv' /\ (Whole!Get \/ UNCHANGED <<sent, Out>>)
<1>1. /\ SourceInv /\ SourceInv' /\ Given' = Given /\ Given \in Seq(Nat)
      /\ Len(Given) \in Nat /\ sent' = sent
      /\ places \in Seq(1 .. Len(Given)) /\ Rising(places)
  BY LenProperties DEF PathInv, SourceInv, Given, Rising, Range
<1>2. CASE UNCHANGED places
  BY <1>1, <1>2 DEF PathInv, Out, Rising
<1>3. CASE Second!Put
  BY <1>1, <1>2, <1>3 DEF Second!Put
<1>4. CASE Second!Get
  <2>1. /\ places' \in Seq(1 .. Len(Given)) /\ Len(places') > Len(places)
        /\ Len(places) <= Len(places')
        /\ SubSeq(places, 1, Len(places)) = SubSeq(places', 1, Len(places))
        /\ Rising(places')
    BY <1>4 DEF Second!Get, Second!IsPrefix, Second!Increasing, Rising
  <2>2. PathInv'
    BY <1>1, <2>1 DEF PathInv
  <2>3. /\ Len(places) \in Nat /\ Len(places') \in Nat /\ DOMAIN places' = 1 .. Len(places')
        /\ \A i \in 1 .. Len(places') : places'[i] \in 1 .. Len(Given)
    BY <2>1, <1>1, RangeOf
  <2>4. \A i \in 1 .. Len(places) : places'[i] = places[i]
    <3>1. SubSeq(places, 1, Len(places)) = places
      BY <1>1, SubSeqFull
    <3>2. \A i \in 1 .. Len(places) - 1 + 1 : SubSeq(places', 1, Len(places))[i] = places'[1 + i - 1]
      <4>1. \A i \in 1 .. Len(places) : places'[i] \in 1 .. Len(Given)
        BY <2>1, <2>3
      <4>2. QED BY <2>1, <2>3, <4>1, SubSeqProperties
    <3>3. QED BY <2>1, <2>3, <3>1, <3>2
  <2>5. /\ Out \in Seq(Nat) /\ Len(Out) = Len(places)
        /\ \A i \in 1 .. Len(places) : Out[i] = Given[places[i]]
    <3>1. \A i \in 1 .. Len(places) : Given[places[i]] \in Nat
      BY <1>1, RangeOf
    <3>2. QED BY <2>3, <3>1 DEF Out
  <2>6. Out' \in Seq(1 .. sent) /\ Len(Out') = Len(places')
    <3>1. \A i \in 1 .. Len(places') : Given[places'[i]] \in 1 .. sent
      BY <1>1, <2>3, RangeOf DEF SourceInv, Given
    <3>2. QED BY <1>1, <2>3, <3>1 DEF Out
  <2>7. \A i \in 1 .. Len(places') : Out'[i] = Given[places'[i]]
    BY <1>1 DEF Out
  <2>8. Whole!Increasing(Out')
    <3>1. Rising(Given) /\ DOMAIN Given = 1 .. Len(Given)
      BY <1>1, LenProperties DEF SourceInv, Given
    <3>2. ASSUME NEW i \in 1 .. Len(places'), NEW j \in 1 .. Len(places'), i < j
          PROVE  Out'[i] < Out'[j]
      <4>1. places'[i] < places'[j]
        BY <2>1, <2>3, <3>2 DEF Rising
      <4>2. QED BY <2>3, <2>7, <3>1, <4>1 DEF Rising
    <3>3. DOMAIN Out' = 1 .. Len(places')
      BY <1>1 DEF Out
    <3>4. QED BY <3>2, <3>3 DEF Whole!Increasing
  <2>9. Whole!IsPrefix(Out, Out')
    <3>1. Out' \in Seq(Nat)
      BY <1>1, <2>6, PiecesAreNumbers DEF SourceInv
    <3>2. QED BY <2>1, <2>3, <2>4, <2>5, <2>6, <2>7 DEF Whole!IsPrefix
  <2>10. QED BY <1>1, <2>1, <2>2, <2>5, <2>6, <2>8, <2>9 DEF Whole!Get
<1>5. QED BY <1>2, <1>3, <1>4

(* So is a program behind one of them, from the receiver to the far end of the
   program: no correction comes out twice there, or after a later one, whatever
   is lost, whoever else takes part of the stream, and however the two are
   scheduled. *)
THEOREM PathIsAWay == Self \in Taker => (Path => Whole!Spec)
<1> SUFFICES ASSUME Self \in Taker PROVE Path => Whole!Spec
  OBVIOUS
<1>1. Init /\ Second!Init => PathInv /\ Whole!Init
  BY PathStarts
<1>2. /\ PathInv
      /\ [Next]_<<sent, got>>
      /\ [Second!Put \/ Second!Get]_<<Len(Given), places>>
      /\ [Apart]_<<sent, got, places>>
      => PathInv' /\ [Whole!Put \/ Whole!Get]_<<sent, Out>>
  BY SourceMoves, ProgramMoves DEF Apart
<1>3. QED BY <1>1, <1>2, PTL DEF Path, Spec, Second!Spec, Whole!Spec
=============================================================================
