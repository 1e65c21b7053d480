-------------------------- MODULE BaseStationProofs --------------------------
(****************************************************************************)
(* Theorems about BaseStation, for any number of clients and frames and any *)
(* sizes of the queue and of the tty.                                       *)
(****************************************************************************)
EXTENDS BaseStation, SequenceFacts, WellFoundedInduction, TLAPS

(* What is read comes out in the order the receiver put it out. *)
InOrder(q) == \A i, j \in DOMAIN q : i < j => Before(q[i], q[j])

(* A frame on its way is in one place: a thread has one only in the step it
   needs it for. *)
Stages ==
  /\ reader = "put" <=> held # NoFrame
  /\ \A t \in Taker : at[t] = "send" <=> hand[t] # NoFrame

(* Every stage is behind the one before it: pieces in the tty, in the buffer, a
   frame in the reader's hands, those in the queue, those taken from it. *)
Raw == Range(buffer) \union Range(port)
Waiting == Held \union Range(queue)
Out == Hands \union Gone \union dropped

StreamInOrder ==
  /\ Rising(buffer) /\ Rising(port)
  /\ \A p \in Range(buffer), q \in Range(port) : p < q
  /\ \A p \in Raw : p <= emitted

FramesInOrder ==
  /\ \A f \in Waiting \union Out : f[1] <= emitted /\ \A p \in Raw : f[1] < p
  /\ InOrder(queue)
  /\ \A f \in Range(queue) \union Out, g \in Held : Before(f, g)
  /\ \A f \in Out, g \in Range(queue) : Before(f, g)

(* What a taker has or had, and that nobody else has or had it. *)
Mine(t) == IF hand[t] = NoFrame THEN {} ELSE {hand[t]}
Of(t) == Range(got[t]) \union Mine(t)

Owners ==
  /\ \A t \in Taker : InOrder(got[t]) /\ \A f \in Range(got[t]), g \in Mine(t) : Before(f, g)
  /\ \A t, u \in Taker : t # u => \A f \in Of(t), g \in Of(u) : f[1] # g[1]
  /\ \A t \in Taker : \A f \in Of(t), g \in dropped : f[1] # g[1]

(* While nothing was lost the buffer and the tty are the end of the stream, and
   the frames are the beginning of it. *)
Cut == emitted - Len(port) - Len(buffer)
Complete ==
  ~lost =>
    /\ Cut \in Nat /\ Cut % 2 = 0
    /\ From(Cut, buffer) /\ From(Cut + Len(buffer), port)
    /\ Waiting \union Out = {Whole(k) : k \in 1 .. Cut \div 2}

IInv == TypeOK /\ Stages /\ StreamInOrder /\ FramesInOrder /\ Owners /\ Complete

-----------------------------------------------------------------------------
(* The least of some numbers is one of them. *)

LEMMA Least ==
  ASSUME NEW T \in SUBSET Nat, T # {}
  PROVE  Min(T) \in T /\ \A y \in T : Min(T) <= y
<1> DEFINE R == {ss \in Nat \X Nat : ss[1] < ss[2]}
<1>1. OpToRel(<, Nat) = R
  BY DEF OpToRel
<1>2. IsWellFoundedOn(R, Nat)
  BY <1>1, NatLessThanWellFounded
<1>3. \E x \in T : \A y \in T : ~(<<y, x>> \in R)
  <2> HIDE DEF R
  <2> QED BY <1>2, WFMin
<1>4. \A x, y \in Nat : ~(<<y, x>> \in R) => x <= y
  OBVIOUS
<1>5. \E x \in T : \A y \in T : x <= y
  BY <1>3, <1>4
<1>6. QED BY <1>5 DEF Min

(* What is left of a buffer from its first 0xD3 on. *)
LEMMA SyncedIsRest ==
  ASSUME NEW b \in Seq(Nat)
  PROVE  \/ Synced(b) = <<>> /\ (\A i \in 1 .. Len(b) : ~IsHead(b[i]))
         \/ \E k \in 1 .. Len(b) :
              /\ Synced(b) = SubSeq(b, k, Len(b))
              /\ IsHead(b[k])
              /\ IsHead(b[1]) => k = 1
<1> DEFINE I == {i \in 1 .. Len(b) : IsHead(b[i])}
<1>1. I \subseteq Nat /\ Len(b) \in Nat
  BY LenProperties
<1>2. SelectInSeq(b, IsHead) = IF I # {} THEN Min(I) ELSE 0
  BY DEF SelectInSeq
<1>3. CASE I = {}
  BY <1>2, <1>3 DEF Synced
<1>4. CASE I # {}
  <2>1. Min(I) \in I /\ \A y \in I : Min(I) <= y
    <3> HIDE DEF I
    <3> QED BY <1>1, <1>4, Least
  <2>2. Synced(b) = SubSeq(b, Min(I), Len(b))
    <3>1. SelectInSeq(b, IsHead) = Min(I) /\ Min(I) # 0
      BY <1>1, <1>2, <1>4, <2>1
    <3> HIDE DEF I
    <3>2. QED BY <3>1 DEF Synced
  <2>3. IsHead(b[1]) => Min(I) = 1
    <3>1. Len(b) >= 1
      BY <1>1, <2>1
    <3>2. IsHead(b[1]) => 1 \in I
      BY <1>1, <3>1
    <3>3. QED BY <1>1, <2>1, <3>2
  <2>4. QED BY <2>1, <2>2, <2>3
<1>5. QED BY <1>3, <1>4

-----------------------------------------------------------------------------
(* Cutting a frame out of the buffer. *)

LEMMA PieceIsNat == Piece \in SUBSET Nat
  BY SizesAssumption DEF Piece

LEMMA FrameFacts ==
  /\ NoFrame \notin Frame
  /\ \A f \in Frame : f[1] \in Piece /\ f[2] \in Piece /\ f[1] \in Nat
<1>1. NoFrame \notin Frame
  BY DEF Frame, NoFrame
<1>2. ASSUME NEW f \in Frame
      PROVE  f[1] \in Piece /\ f[2] \in Piece /\ f[1] \in Nat
  BY PieceIsNat DEF Frame
<1>3. QED BY <1>1, <1>2

LEMMA ParseFacts ==
  ASSUME NEW b \in Seq(Piece), Rising(b), Parse(b)
  PROVE  /\ buffer' \in Seq(Piece) /\ Rising(buffer') /\ Range(buffer') \subseteq Range(b)
         /\ \/ /\ held' = NoFrame
               /\ reader' = IF ReaderRuns THEN "select" ELSE "ended"
            \/ /\ held' \in Frame /\ held'[1] \in Range(b)
               /\ \A p \in Range(buffer') : held'[1] < p
               /\ reader' = "put"
<1>1. b \in Seq(Nat) /\ Len(b) \in Nat /\ DOMAIN b = 1 .. Len(b)
  BY PieceIsNat, SeqMonotonic, LenProperties
<1>2. CASE Synced(b) = <<>>
  <2>1. held' = NoFrame /\ buffer' = <<>> /\ reader' = IF ReaderRuns THEN "select" ELSE "ended"
    BY <1>2, Empty DEF Parse
  <2>2. QED BY <2>1, Empty DEF Rising
<1>3. ASSUME NEW k \in 1 .. Len(b), Synced(b) = SubSeq(b, k, Len(b))
      PROVE  /\ buffer' \in Seq(Piece) /\ Rising(buffer') /\ Range(buffer') \subseteq Range(b)
             /\ \/ /\ held' = NoFrame
                   /\ reader' = IF ReaderRuns THEN "select" ELSE "ended"
                \/ /\ held' \in Frame /\ held'[1] \in Range(b)
                   /\ \A p \in Range(buffer') : held'[1] < p
                   /\ reader' = "put"
  <2> DEFINE s == SubSeq(b, k, Len(b))
  <2>1. /\ s \in Seq(Piece) /\ Len(s) \in Nat /\ Range(s) \subseteq Range(b) /\ Rising(s)
        /\ s \in Seq(Nat)
    BY <1>1, Rest, RestRises, PieceIsNat, SeqMonotonic, LenProperties
  <2>2. Synced(b) = s
    BY <1>3
  <2> HIDE DEF s
  <2>3. CASE Len(s) < 2
    BY <2>1, <2>2, <2>3 DEF Parse
  <2>4. CASE Len(s) >= 2
    <3>1. /\ held' = SubSeq(s, 1, 2) /\ buffer' = SubSeq(s, 3, Len(s)) /\ reader' = "put"
      BY <2>1, <2>2, <2>4 DEF Parse
    <3>2. \A i \in 1 .. Len(s) : s[i] \in Piece /\ s[i] \in Range(s)
      BY <2>1, RangeOf
    <3>3. held' = <<s[1], s[2]>>
      <4>1. Len(SubSeq(s, 1, 2)) = 2 /\ SubSeq(s, 1, 2)[1] = s[1] /\ SubSeq(s, 1, 2)[2] = s[2]
            /\ SubSeq(s, 1, 2) \in Seq(Piece)
        <5>1. \A i \in 1 .. 2 : s[i] \in Piece
          BY <2>1, <2>4, <3>2
        <5>2. /\ SubSeq(s, 1, 2) \in Seq(Piece)
              /\ Len(SubSeq(s, 1, 2)) = IF 1 <= 2 THEN 2 - 1 + 1 ELSE 0
              /\ \A i \in 1 .. 2 - 1 + 1 : SubSeq(s, 1, 2)[i] = s[1 + i - 1]
          BY <5>1, SubSeqProperties
        <5>3. QED BY <5>2
      <4>2. /\ <<s[1], s[2]>> \in Seq(Piece) /\ Len(<<s[1], s[2]>>) = 2
            /\ <<s[1], s[2]>>[1] = s[1] /\ <<s[1], s[2]>>[2] = s[2]
        BY <2>1, <2>4, <3>2
      <4>3. \A i \in 1 .. 2 : SubSeq(s, 1, 2)[i] = <<s[1], s[2]>>[i]
        BY <4>1, <4>2
      <4>4. QED BY <3>1, <4>1, <4>2, <4>3, SeqEqual
    <3>4. /\ buffer' \in Seq(Piece) /\ Rising(buffer') /\ Range(buffer') \subseteq Range(s)
          /\ Len(buffer') = Len(s) - 2 /\ \A i \in 1 .. Len(s) - 2 : buffer'[i] = s[i + 2]
      <4>1. 3 \in 1 .. Len(s) + 1
        BY <2>1, <2>4
      <4>2. QED BY SMTT(30), <2>1, <3>1, <4>1, Rest, RestRises
    <3>5. \A p \in Range(buffer') : s[1] < p
      <4>1. Range(buffer') = {buffer'[i] : i \in 1 .. Len(s) - 2}
        BY <3>4, RangeOf
      <4>2. ASSUME NEW i \in 1 .. Len(s) - 2 PROVE s[1] < buffer'[i]
        <5>1. 1 \in 1 .. Len(s) /\ i + 2 \in 1 .. Len(s) /\ 1 < i + 2 /\ DOMAIN s = 1 .. Len(s)
          BY <2>1, <2>4, LenProperties
        <5>2. QED BY <2>1, <3>4, <5>1 DEF Rising
      <4>3. QED BY <4>1, <4>2
    <3>6. held' \in Frame /\ held'[1] \in Range(b)
      BY <2>1, <2>4, <3>2, <3>3 DEF Frame
    <3>7. held'[1] = s[1]
      BY <3>3
    <3>8. QED BY <2>1, <3>1, <3>4, <3>5, <3>6, <3>7
  <2>5. QED BY <2>1, <2>3, <2>4
<1>4. QED BY <1>1, <1>2, <1>3, SyncedIsRest

(* An undamaged buffer gives its first frame, if it has one, and no piece is
   thrown away. *)
LEMMA ParseKeeps ==
  ASSUME NEW b \in Seq(Piece), NEW n \in Nat, n % 2 = 0, From(n, b), Parse(b)
  PROVE  \/ held' = NoFrame /\ Len(buffer') = Len(b) /\ From(n, buffer')
         \/ /\ held' = Whole(n \div 2 + 1)
            /\ Len(buffer') = Len(b) - 2 /\ From(n + 2, buffer')
<1>1. b \in Seq(Nat) /\ Len(b) \in Nat /\ DOMAIN b = 1 .. Len(b)
  BY PieceIsNat, SeqMonotonic, LenProperties
<1>2. Len(b) >= 1 => b[1] = n + 1 /\ IsHead(b[1])
  BY <1>1 DEF From, IsHead
<1>3. Synced(b) = b
  <2>1. CASE Len(b) >= 1
    <3>1. Synced(b) = SubSeq(b, 1, Len(b))
      BY <1>1, <1>2, <2>1, SyncedIsRest
    <3>2. QED BY <3>1, SubSeqFull
  <2>2. CASE Len(b) = 0
    <3>1. b = <<>>
      BY <1>1, <2>2, EmptySeq
    <3>2. ~\E k \in 1 .. Len(b) : TRUE
      BY <2>2
    <3>3. Synced(b) = <<>>
      BY <1>1, <3>2, SyncedIsRest
    <3>4. QED BY <3>1, <3>3
  <2>3. QED BY <1>1, <2>1, <2>2
<1>4. CASE Len(b) < 2
  <2>1. held' = NoFrame /\ buffer' = b
    BY <1>1, <1>3, <1>4 DEF Parse
  <2>2. QED BY <2>1
<1>5. CASE Len(b) >= 2
  <2>1. /\ held' = SubSeq(b, 1, 2) /\ buffer' = SubSeq(b, 3, Len(b))
    BY <1>1, <1>3, <1>5 DEF Parse
  <2>2. b[1] = n + 1 /\ b[2] = n + 2
    BY <1>1, <1>5 DEF From
  <2>3. held' = <<n + 1, n + 2>>
    <3>1. \A i \in 1 .. 2 : b[i] \in Nat
      BY <2>2
    <3>2. /\ SubSeq(b, 1, 2) \in Seq(Nat)
          /\ Len(SubSeq(b, 1, 2)) = IF 1 <= 2 THEN 2 - 1 + 1 ELSE 0
          /\ \A i \in 1 .. 2 - 1 + 1 : SubSeq(b, 1, 2)[i] = b[1 + i - 1]
      BY <3>1, SubSeqProperties
    <3>3. Len(SubSeq(b, 1, 2)) = 2 /\ SubSeq(b, 1, 2)[1] = n + 1 /\ SubSeq(b, 1, 2)[2] = n + 2
      BY <2>2, <3>2
    <3>4. /\ <<n + 1, n + 2>> \in Seq(Nat) /\ Len(<<n + 1, n + 2>>) = 2
          /\ <<n + 1, n + 2>>[1] = n + 1 /\ <<n + 1, n + 2>>[2] = n + 2
      OBVIOUS
    <3>5. \A i \in 1 .. 2 : SubSeq(b, 1, 2)[i] = <<n + 1, n + 2>>[i]
      BY <3>3, <3>4
    <3>6. QED BY <2>1, <3>2, <3>3, <3>4, <3>5, SeqEqual
  <2>4. Whole(n \div 2 + 1) = <<n + 1, n + 2>>
    <3>1. 2 * (n \div 2 + 1) = n + 2
      OBVIOUS
    <3>2. QED BY <3>1 DEF Whole
  <2>5. /\ Len(buffer') = Len(b) - 2 /\ DOMAIN buffer' = 1 .. Len(b) - 2
        /\ \A i \in 1 .. Len(b) - 2 : buffer'[i] = b[i + 2]
    <3>1. 3 \in 1 .. Len(b) + 1 /\ Len(b) - 3 + 1 = Len(b) - 2
      BY <1>1, <1>5
    <3>2. /\ Len(buffer') = Len(b) - 3 + 1 /\ DOMAIN buffer' = 1 .. Len(b) - 3 + 1
          /\ \A i \in 1 .. Len(b) - 3 + 1 : buffer'[i] = b[3 + i - 1]
      BY <1>1, <2>1, <3>1, Rest
    <3>3. QED BY <1>1, <3>1, <3>2
  <2>6. From(n + 2, buffer')
    <3>1. ASSUME NEW i \in 1 .. Len(b) - 2 PROVE buffer'[i] = n + 2 + i
      <4>1. i + 2 \in 1 .. Len(b)
        BY <1>1
      <4>2. b[i + 2] = n + (i + 2)
        BY <1>1, <4>1 DEF From
      <4>3. QED BY <2>5, <4>2
    <3>2. QED BY <2>5, <3>1 DEF From
  <2>7. QED BY <2>3, <2>4, <2>5, <2>6
<1>6. Len(b) < 2 \/ Len(b) >= 2
  BY <1>1
<1>7. QED BY <1>4, <1>5, <1>6


-----------------------------------------------------------------------------
(* The reader hands on a frame, or nothing, and keeps the rest. *)

LEMMA Sizes ==
  ASSUME TypeOK
  PROVE  /\ Len(port) \in Nat /\ Len(buffer) \in Nat /\ emitted \in Nat
         /\ DOMAIN port = 1 .. Len(port) /\ DOMAIN buffer = 1 .. Len(buffer)
         /\ Raw \subseteq Nat
         /\ \A f \in Waiting \union Out : f \in Frame /\ f[1] \in Nat
<1>1. /\ port \in Seq(Piece) /\ buffer \in Seq(Piece) /\ queue \in Seq(Frame)
      /\ held \in Frame \union {NoFrame} /\ dropped \subseteq Frame
      /\ hand \in [Taker -> Frame \union {NoFrame}]
      /\ got \in [Taker -> Seq(Frame)]
  BY DEF TypeOK
<1>2. Raw \subseteq Nat
  BY <1>1, RangeOf, PieceIsNat DEF Raw
<1>3. Gone \subseteq Frame
  <2>1. \A t \in Taker : Range(got[t]) \subseteq Frame
    BY <1>1, RangeOf
  <2>2. QED BY <2>1 DEF Gone
<1>4. Waiting \union Out \subseteq Frame
  BY <1>1, <1>3, RangeOf DEF Waiting, Out, Held, Hands
<1>5. emitted \in Nat
  BY SizesAssumption DEF TypeOK
<1>6. QED BY <1>1, <1>2, <1>4, <1>5, FrameFacts, LenProperties

(* The takers are out of it. *)
LEMMA TakersRest ==
  ASSUME IInv, UNCHANGED <<at, hand, got, dropped>>
  PROVE  /\ Owners' /\ Out' = Out
         /\ \A t \in Taker : at'[t] = "send" <=> hand'[t] # NoFrame
  BY DEF IInv, Stages, Owners, Of, Mine, Out, Hands, Gone, InOrder, Before

(* Read. *)
LEMMA ReadStep ==
  ASSUME IInv, Read
  PROVE  IInv'
<1> DEFINE b == buffer \o port
<1>1. /\ port \in Seq(Piece) /\ buffer \in Seq(Piece)
      /\ held = NoFrame /\ port' = <<>> /\ Parse(b)
      /\ UNCHANGED <<emitted, queue, status, at, hand, got, peer, dropped, stopped, lost>>
  BY DEF IInv, TypeOK, Stages, Read, takerVars
<1>2. /\ b \in Seq(Piece) /\ Len(b) = Len(buffer) + Len(port)
      /\ Range(b) = Raw
      /\ DOMAIN b = 1 .. Len(buffer) + Len(port)
      /\ \A i \in 1 .. Len(buffer) + Len(port) :
           b[i] = IF i <= Len(buffer) THEN buffer[i] ELSE port[i - Len(buffer)]
  BY <1>1, Joined DEF Raw
<1>3. /\ Len(port) \in Nat /\ Len(buffer) \in Nat /\ emitted \in Nat
      /\ DOMAIN port = 1 .. Len(port) /\ DOMAIN buffer = 1 .. Len(buffer)
      /\ Raw \subseteq Nat
      /\ \A f \in Waiting \union Out : f \in Frame /\ f[1] \in Nat
  BY Sizes DEF IInv
<1> HIDE DEF b
<1>6. Rising(b)
  <2>1. port \in Seq(Nat) /\ buffer \in Seq(Nat)
    BY <1>1, PieceIsNat, SeqMonotonic
  <2>2. QED BY <2>1, JoinedRises DEF b, IInv, StreamInOrder
<1>7. /\ buffer' \in Seq(Piece) /\ Rising(buffer') /\ Range(buffer') \subseteq Raw
      /\ \/ held' = NoFrame /\ reader' = IF ReaderRuns THEN "select" ELSE "ended"
         \/ /\ held' \in Frame /\ held'[1] \in Raw
            /\ \A p \in Range(buffer') : held'[1] < p
            /\ reader' = "put"
  BY <1>1, <1>2, <1>6, ParseFacts
<1>8. port' \in Seq(Piece) /\ Len(port') = 0 /\ Range(port') = {} /\ DOMAIN port' = {}
  BY <1>1, Empty
<1>9. TypeOK'
  BY <1>1, <1>7, <1>8, SizesAssumption DEF IInv, TypeOK
<1>10. Stages'
  BY <1>1, <1>7, TakersRest, FrameFacts DEF Stages
<1>11. Raw' \subseteq Raw
  BY <1>7, <1>8 DEF Raw
<1>12. StreamInOrder'
  BY <1>1, <1>7, <1>8, <1>11 DEF IInv, StreamInOrder, Rising
<1>13. Out' = Out /\ Owners' /\ Range(queue') = Range(queue) /\ queue' = queue
  BY <1>1, TakersRest
<1>14. Held' = (IF held' = NoFrame THEN {} ELSE {held'}) /\ Held = {}
  BY <1>1 DEF Held
<1>15. FramesInOrder'
  <2>1. \A f \in Waiting \union Out : f[1] <= emitted /\ \A p \in Raw : f[1] < p
    BY DEF IInv, FramesInOrder
  <2>2. \A p \in Raw : p <= emitted
    BY DEF IInv, StreamInOrder
  <2>3. \A f \in Waiting' \union Out' : f[1] <= emitted' /\ \A p \in Raw' : f[1] < p
    BY <1>1, <1>7, <1>8, <1>11, <1>13, <1>14, <2>1, <2>2 DEF Waiting, Raw
  <2>4. \A f \in Range(queue') \union Out', g \in Held' : Before(f, g)
    BY <1>7, <1>13, <1>14, <2>1 DEF Waiting, Before
  <2>5. QED BY <1>13, <2>3, <2>4 DEF IInv, FramesInOrder, InOrder
<1>16. Complete'
  <2> SUFFICES ASSUME ~lost
               PROVE  /\ Cut' \in Nat /\ Cut' % 2 = 0
                      /\ From(Cut', buffer') /\ From(Cut' + Len(buffer'), port')
                      /\ Waiting' \union Out' = {Whole(k) : k \in 1 .. Cut' \div 2}
    BY <1>1 DEF Complete
  <2>1. /\ Cut \in Nat /\ Cut % 2 = 0 /\ From(Cut, buffer) /\ From(Cut + Len(buffer), port)
        /\ Waiting \union Out = {Whole(k) : k \in 1 .. Cut \div 2}
    BY DEF IInv, Complete
  <2>2. From(Cut, b)
    <3>1. port \in Seq(Nat) /\ buffer \in Seq(Nat)
      BY <1>1, PieceIsNat, SeqMonotonic
    <3>2. QED BY <2>1, <3>1, JoinedCarriesOn DEF b
  <2>3. \/ held' = NoFrame /\ Len(buffer') = Len(b) /\ From(Cut, buffer')
        \/ /\ held' = Whole(Cut \div 2 + 1)
           /\ Len(buffer') = Len(b) - 2 /\ From(Cut + 2, buffer')
    BY <1>1, <1>2, <2>1, <2>2, ParseKeeps
  <2>4. From(Cut' + Len(buffer'), port')
    BY <1>8 DEF From
  <2>5. CASE held' = NoFrame /\ Len(buffer') = Len(b) /\ From(Cut, buffer')
    <3>1. Cut' = Cut
      BY <1>1, <1>2, <1>3, <1>8, <2>5 DEF Cut
    <3>2. Waiting' = Waiting
      BY <1>13, <1>14, <2>5 DEF Waiting
    <3>3. QED BY <1>13, <2>1, <2>4, <2>5, <3>1, <3>2
  <2>6. CASE /\ held' = Whole(Cut \div 2 + 1)
             /\ Len(buffer') = Len(b) - 2 /\ From(Cut + 2, buffer')
    <3>1. Cut' = Cut + 2
      BY <1>1, <1>2, <1>3, <1>8, <2>6 DEF Cut
    <3>2. Cut' \in Nat /\ Cut' % 2 = 0 /\ Cut' \div 2 = Cut \div 2 + 1 /\ Cut \div 2 \in Nat
      BY <2>1, <3>1
    <3>3. held' # NoFrame
      BY <2>6 DEF Whole, NoFrame
    <3>4. Waiting' = Waiting \union {Whole(Cut \div 2 + 1)}
      BY <1>13, <1>14, <2>6, <3>3 DEF Waiting
    <3>5. 1 .. Cut' \div 2 = (1 .. Cut \div 2) \union {Cut \div 2 + 1}
      BY <3>2
    <3>6. Waiting' \union Out' = {Whole(k) : k \in 1 .. Cut' \div 2}
      BY <1>13, <2>1, <3>4, <3>5
    <3>7. QED BY <2>4, <2>6, <3>1, <3>2, <3>6
  <2>7. QED BY <2>3, <2>5, <2>6
<1>17. QED BY <1>9, <1>10, <1>12, <1>13, <1>15, <1>16 DEF IInv

(* Put. *)
LEMMA PutStep ==
  ASSUME IInv, Put
  PROVE  IInv'
<1>1. /\ port \in Seq(Piece) /\ buffer \in Seq(Piece) /\ queue \in Seq(Frame)
      /\ held \in Frame /\ held # NoFrame /\ Len(queue) < QueueSize /\ Len(queue) \in Nat
      /\ queue' = Append(queue, held) /\ Parse(buffer) /\ Rising(buffer)
      /\ UNCHANGED <<emitted, port, status, at, hand, got, peer, dropped, stopped, lost>>
  BY LenProperties DEF IInv, TypeOK, Stages, StreamInOrder, Put, takerVars
<1>2. /\ Len(port) \in Nat /\ Len(buffer) \in Nat /\ emitted \in Nat
      /\ Raw \subseteq Nat
      /\ \A f \in Waiting \union Out : f \in Frame /\ f[1] \in Nat
  BY Sizes DEF IInv
<1>3. /\ buffer' \in Seq(Piece) /\ Rising(buffer') /\ Range(buffer') \subseteq Range(buffer)
      /\ \/ held' = NoFrame /\ reader' = IF ReaderRuns THEN "select" ELSE "ended"
         \/ /\ held' \in Frame /\ held'[1] \in Range(buffer)
            /\ \A p \in Range(buffer') : held'[1] < p
            /\ reader' = "put"
  BY <1>1, ParseFacts
<1>4. /\ queue' \in Seq(Frame) /\ Len(queue') = Len(queue) + 1
      /\ Range(queue') = Range(queue) \union {held}
      /\ DOMAIN queue' = 1 .. Len(queue) + 1
      /\ \A i \in 1 .. Len(queue) : queue'[i] = queue[i]
      /\ queue'[Len(queue) + 1] = held
  BY <1>1, Appended
<1>5. TypeOK'
  BY <1>1, <1>3, <1>4, SizesAssumption DEF IInv, TypeOK
<1>6. Out' = Out /\ Owners' /\ Stages'
  BY <1>1, <1>3, TakersRest, FrameFacts DEF Stages
<1>7. Raw' \subseteq Raw /\ Range(buffer) \subseteq Raw /\ Range(port') = Range(port)
  BY <1>1, <1>3 DEF Raw
<1>8. StreamInOrder'
  BY <1>1, <1>3, <1>7 DEF IInv, StreamInOrder, Rising
<1>9. /\ Held = {held} /\ Held' = IF held' = NoFrame THEN {} ELSE {held'}
      /\ Waiting' = Waiting \union Held'
  BY <1>1, <1>4 DEF Held, Waiting
<1>10. FramesInOrder'
  <2>1. /\ \A f \in Waiting \union Out : f[1] <= emitted /\ \A p \in Raw : f[1] < p
        /\ InOrder(queue)
        /\ \A f \in Range(queue) \union Out : Before(f, held)
        /\ \A f \in Out, g \in Range(queue) : Before(f, g)
        /\ \A p \in Raw : p <= emitted
    BY <1>9 DEF IInv, FramesInOrder, StreamInOrder
  <2>2. \A f \in Waiting' \union Out' : f[1] <= emitted' /\ \A p \in Raw' : f[1] < p
    <3>1. \A p \in Raw' : p \in Range(buffer') \/ p \in Range(port)
      BY <1>1 DEF Raw
    <3>2. ASSUME NEW f \in Held' PROVE f[1] <= emitted' /\ \A p \in Raw' : f[1] < p
      BY <1>1, <1>3, <1>7, <1>9, <2>1, <3>1, <3>2 DEF IInv, StreamInOrder
    <3>3. ASSUME NEW f \in Waiting \union Out
          PROVE  f[1] <= emitted' /\ \A p \in Raw' : f[1] < p
      BY <1>1, <1>7, <2>1
    <3>4. QED BY <1>6, <1>9, <3>2, <3>3
  <2>3. InOrder(queue')
    <3> SUFFICES ASSUME NEW i \in DOMAIN queue', NEW j \in DOMAIN queue', i < j
                 PROVE  Before(queue'[i], queue'[j])
      BY DEF InOrder
    <3>1. i \in 1 .. Len(queue) /\ queue'[i] = queue[i] /\ queue[i] \in Range(queue)
      BY <1>1, <1>4, RangeOf
    <3>2. CASE j \in 1 .. Len(queue)
      BY <1>1, <1>4, <2>1, <3>1, <3>2, LenProperties DEF InOrder
    <3>3. CASE j = Len(queue) + 1
      BY <1>4, <2>1, <3>1, <3>3
    <3>4. QED BY <1>1, <1>4, <3>2, <3>3
  <2>4. \A f \in Range(queue') \union Out', g \in Held' : Before(f, g)
    <3>1. \A f \in Range(queue') \union Out' : f \in Waiting \union Out
      BY <1>4, <1>6, <1>9 DEF Waiting
    <3>2. QED BY <1>3, <1>7, <1>9, <2>1, <3>1 DEF Before
  <2>5. \A f \in Out', g \in Range(queue') : Before(f, g)
    BY <1>4, <1>6, <2>1
  <2>6. QED BY <2>2, <2>3, <2>4, <2>5 DEF FramesInOrder
<1>11. Complete'
  <2> SUFFICES ASSUME ~lost
               PROVE  /\ Cut' \in Nat /\ Cut' % 2 = 0
                      /\ From(Cut', buffer') /\ From(Cut' + Len(buffer'), port')
                      /\ Waiting' \union Out' = {Whole(k) : k \in 1 .. Cut' \div 2}
    BY <1>1 DEF Complete
  <2>1. /\ Cut \in Nat /\ Cut % 2 = 0 /\ From(Cut, buffer) /\ From(Cut + Len(buffer), port)
        /\ Waiting \union Out = {Whole(k) : k \in 1 .. Cut \div 2}
    BY DEF IInv, Complete
  <2>2. \/ held' = NoFrame /\ Len(buffer') = Len(buffer) /\ From(Cut, buffer')
        \/ /\ held' = Whole(Cut \div 2 + 1)
           /\ Len(buffer') = Len(buffer) - 2 /\ From(Cut + 2, buffer')
    BY <1>1, <2>1, ParseKeeps
  <2>3. CASE held' = NoFrame /\ Len(buffer') = Len(buffer) /\ From(Cut, buffer')
    <3>1. Cut' = Cut
      BY <1>1, <1>2, <2>3 DEF Cut
    <3>2. QED BY <1>1, <1>6, <1>9, <2>1, <2>3, <3>1
  <2>4. CASE /\ held' = Whole(Cut \div 2 + 1)
             /\ Len(buffer') = Len(buffer) - 2 /\ From(Cut + 2, buffer')
    <3>1. Cut' = Cut + 2 /\ Cut' + Len(buffer') = Cut + Len(buffer)
      BY <1>1, <1>2, <2>4 DEF Cut
    <3>2. Cut' \in Nat /\ Cut' % 2 = 0 /\ Cut' \div 2 = Cut \div 2 + 1 /\ Cut \div 2 \in Nat
      BY <2>1, <3>1
    <3>3. held' # NoFrame
      BY <2>4 DEF Whole, NoFrame
    <3>4. Waiting' = Waiting \union {Whole(Cut \div 2 + 1)}
      BY <1>9, <2>4, <3>3
    <3>5. 1 .. Cut' \div 2 = (1 .. Cut \div 2) \union {Cut \div 2 + 1}
      BY <3>2
    <3>6. Waiting' \union Out' = {Whole(k) : k \in 1 .. Cut' \div 2}
      BY <1>6, <2>1, <3>4, <3>5
    <3>7. QED BY <1>1, <2>1, <2>4, <3>1, <3>2, <3>6
  <2>5. QED BY <2>2, <2>3, <2>4
<1>12. QED BY <1>5, <1>6, <1>8, <1>10, <1>11 DEF IInv

(* Emit. *)
LEMMA EmitStep ==
  ASSUME IInv, Emit
  PROVE  IInv'
<1>1. /\ port \in Seq(Piece) /\ buffer \in Seq(Piece) /\ emitted' = emitted + 1
      /\ emitted \in Nat /\ emitted' \in 0 .. 2 * Frames /\ emitted + 1 \in Piece
      /\ UNCHANGED <<reader, buffer, held, queue, status, at, hand, got, peer, dropped, stopped>>
  BY SizesAssumption DEF IInv, TypeOK, Emit, takerVars, Piece
<1>2. /\ Len(port) \in Nat /\ Len(buffer) \in Nat /\ Raw \subseteq Nat
      /\ DOMAIN port = 1 .. Len(port)
      /\ \A f \in Waiting \union Out : f \in Frame /\ f[1] \in Nat
  BY Sizes DEF IInv
<1>3. Out' = Out /\ Owners' /\ Stages' /\ Waiting' = Waiting
  BY <1>1, TakersRest DEF IInv, Stages, Waiting, Held
<1>4. \A p \in Raw : p <= emitted
  BY DEF IInv, StreamInOrder
<1>5. CASE Len(port) < PortSize
  <2>1. port' = Append(port, emitted + 1) /\ lost' = lost
    BY <1>5 DEF Emit
  <2>2. /\ port' \in Seq(Piece) /\ Len(port') = Len(port) + 1
        /\ Range(port') = Range(port) \union {emitted + 1}
        /\ DOMAIN port' = 1 .. Len(port) + 1
        /\ \A i \in 1 .. Len(port) : port'[i] = port[i]
        /\ port'[Len(port) + 1] = emitted + 1
    BY <1>1, <2>1, Appended
  <2>3. TypeOK'
    BY <1>1, <1>2, <1>5, <2>1, <2>2, SizesAssumption DEF IInv, TypeOK
  <2>4. Raw' = Raw \union {emitted + 1}
    BY <1>1, <2>2 DEF Raw
  <2>5. StreamInOrder'
    <3>1. Rising(port')
      <4> SUFFICES ASSUME NEW i \in DOMAIN port', NEW j \in DOMAIN port', i < j
                   PROVE  port'[i] < port'[j]
        BY DEF Rising
      <4>1. i \in 1 .. Len(port) /\ port'[i] = port[i] /\ port[i] \in Raw
        BY <1>1, <1>2, <2>2, RangeOf DEF Raw
      <4>2. CASE j \in 1 .. Len(port)
        BY <1>2, <2>2, <4>1, <4>2 DEF IInv, StreamInOrder, Rising
      <4>3. CASE j = Len(port) + 1
        <5>1. port[i] \in Nat /\ port[i] <= emitted
          BY <1>2, <1>4, <4>1
        <5>2. port'[i] = port[i] /\ port'[j] = emitted + 1
          BY <2>2, <4>1, <4>3
        <5>3. QED BY <1>1, <5>1, <5>2
      <4>4. QED BY <1>2, <2>2, <4>2, <4>3
    <3>2. \A p \in Range(buffer'), q \in Range(port') : p < q
      BY <1>1, <1>2, <1>4, <2>2 DEF IInv, StreamInOrder, Raw
    <3>3. \A p \in Raw' : p <= emitted'
      BY <1>1, <1>2, <1>4, <2>4
    <3>4. QED BY <1>1, <3>1, <3>2, <3>3 DEF IInv, StreamInOrder, Rising
  <2>6. FramesInOrder'
    <3>1. \A f \in Waiting' \union Out' : f[1] <= emitted' /\ \A p \in Raw' : f[1] < p
      BY <1>1, <1>2, <1>3, <2>4 DEF IInv, FramesInOrder
    <3>2. QED BY <1>1, <1>3, <3>1 DEF IInv, FramesInOrder, InOrder, Before, Held
  <2>7. Complete'
    <3> SUFFICES ASSUME ~lost
                 PROVE  /\ Cut' = Cut /\ From(Cut, buffer') /\ From(Cut + Len(buffer'), port')
                        /\ Cut \in Nat /\ Cut % 2 = 0
                        /\ Waiting' \union Out' = {Whole(k) : k \in 1 .. Cut \div 2}
      BY <2>1 DEF Complete
    <3>1. /\ Cut \in Nat /\ Cut % 2 = 0 /\ From(Cut, buffer) /\ From(Cut + Len(buffer), port)
          /\ Waiting \union Out = {Whole(k) : k \in 1 .. Cut \div 2}
      BY DEF IInv, Complete
    <3>2. Cut' = Cut /\ Cut + Len(buffer) + (Len(port) + 1) = emitted + 1
      BY <1>1, <1>2, <2>2 DEF Cut
    <3>3. From(Cut + Len(buffer), port')
      <4> SUFFICES ASSUME NEW i \in DOMAIN port' PROVE port'[i] = Cut + Len(buffer) + i
        BY DEF From
      <4>1. CASE i \in 1 .. Len(port)
        BY <1>2, <2>2, <3>1, <4>1 DEF From
      <4>2. CASE i = Len(port) + 1
        BY <2>2, <3>2, <4>2
      <4>3. QED BY <1>2, <2>2, <4>1, <4>2
    <3>4. QED BY <1>1, <1>3, <3>1, <3>2, <3>3
  <2>8. QED BY <1>3, <2>3, <2>5, <2>6, <2>7 DEF IInv
<1>6. CASE ~(Len(port) < PortSize)
  <2>1. port' = port /\ lost' = TRUE
    BY <1>6 DEF Emit
  <2>2. TypeOK' /\ Complete'
    BY <1>1, <2>1 DEF IInv, TypeOK, Complete
  <2>3. Raw' = Raw
    BY <1>1, <2>1 DEF Raw
  <2>4. StreamInOrder'
    BY <1>1, <1>2, <2>1, <2>3 DEF IInv, StreamInOrder, Rising
  <2>5. FramesInOrder'
    <3>1. \A f \in Waiting' \union Out' : f[1] <= emitted' /\ \A p \in Raw' : f[1] < p
      BY <1>1, <1>2, <1>3, <2>3 DEF IInv, FramesInOrder
    <3>2. QED BY <1>1, <1>3, <3>1 DEF IInv, FramesInOrder, InOrder, Before, Held
  <2>6. QED BY <1>3, <2>2, <2>4, <2>5 DEF IInv
<1>7. QED BY <1>5, <1>6

(* The steps that take no frame and put out no piece: at most they lose some. *)
LEMMA FramesStay ==
  ASSUME IInv,
         buffer' \in {buffer, <<>>},
         port' \in {port, <<>>} \/ (port # <<>> /\ port' = Tail(port)),
         lost' \in BOOLEAN,
         ~lost' => ~lost /\ buffer' = buffer /\ port' = port,
         reader' \in {"opening", "select", "put", "error", "ended"},
         reader' = "put" <=> held # NoFrame,
         status' \in BOOLEAN, stopped' \in 0 .. 3, peer' \subseteq Client,
         at' \in [Taker -> {"away", "get", "send", "closed"}],
         \A t \in Taker : at'[t] = "send" <=> hand[t] # NoFrame,
         UNCHANGED <<emitted, held, queue, hand, got, dropped>>
  PROVE  IInv'
<1>1. /\ port \in Seq(Piece) /\ buffer \in Seq(Piece) /\ queue \in Seq(Frame)
      /\ Len(port) \in Nat /\ Len(buffer) \in Nat /\ Len(port) <= PortSize
  BY Sizes DEF IInv, TypeOK
<1>2. /\ buffer' \in Seq(Piece) /\ Range(buffer') \subseteq Range(buffer) /\ Rising(buffer')
  BY <1>1, Empty DEF IInv, StreamInOrder, Rising
<1>3. /\ port' \in Seq(Piece) /\ Range(port') \subseteq Range(port) /\ Len(port') <= PortSize
      /\ Rising(port')
  <2>1. CASE port' = port
    BY <1>1, <2>1 DEF IInv, StreamInOrder
  <2>0. CASE port' = <<>>
    <3>1. /\ port' \in Seq(Piece) /\ Range(port') = {} /\ Len(port') = 0 /\ DOMAIN port' = {}
      BY <2>0, Empty
    <3>2. QED BY <3>1, SizesAssumption DEF Rising
  <2>2. CASE port # <<>> /\ port' = Tail(port)
    <3>1. /\ port' \in Seq(Piece) /\ Len(port') = Len(port) - 1 /\ Len(port) >= 1
          /\ Range(port') \subseteq Range(port)
      BY <1>1, <2>2, Beheaded
    <3>2. Rising(port')
      <4>1. port \in Seq(Nat)
        BY <1>1, PieceIsNat, SeqMonotonic
      <4>2. QED BY <2>2, <4>1, TailRises DEF IInv, StreamInOrder
    <3>3. Len(port') <= PortSize
      BY <1>1, <3>1, SizesAssumption
    <3>4. QED BY <3>1, <3>2, <3>3
  <2>3. QED BY <2>0, <2>1, <2>2
<1>4. TypeOK'
  BY <1>2, <1>3 DEF IInv, TypeOK
<1>5. Stages'
  BY DEF IInv, Stages
<1>6. Owners'
  BY DEF IInv, Owners, Of, Mine, InOrder, Before
<1>7. /\ Raw' \subseteq Raw /\ Waiting' = Waiting /\ Out' = Out /\ Held' = Held
      /\ Range(queue') = Range(queue)
  BY <1>2, <1>3 DEF Raw, Waiting, Held, Out, Hands, Gone
<1>8. StreamInOrder'
  BY <1>2, <1>3, <1>7 DEF IInv, StreamInOrder
<1>9. FramesInOrder'
  BY <1>7 DEF IInv, FramesInOrder, InOrder, Before
<1>10. Complete'
  BY <1>7 DEF IInv, Complete, Cut, From
<1>11. QED BY <1>4, <1>5, <1>6, <1>8, <1>9, <1>10 DEF IInv

(* What the takers of a range and of a hand hold are frames. *)
LEMMA Possessions ==
  ASSUME TypeOK, NEW t \in Taker
  PROVE  /\ Of(t) \subseteq Frame /\ Of(t) \subseteq Hands \union Gone
         /\ Range(got[t]) \subseteq Of(t)
         /\ hand[t] # NoFrame => hand[t] \in Of(t) /\ hand[t] \in Hands /\ hand[t] \in Frame
<1>1. got[t] \in Seq(Frame) /\ hand[t] \in Frame \union {NoFrame}
  BY DEF TypeOK
<1>2. Range(got[t]) \subseteq Frame /\ Range(got[t]) \subseteq Gone
  BY <1>1, RangeOf DEF Gone
<1>3. hand[t] # NoFrame => hand[t] \in Hands
  BY DEF Hands
<1>4. QED BY <1>1, <1>2, <1>3 DEF Of, Mine

(* Take: the frame goes from the head of the queue, which is behind all that are
   out, into a thread's hands. *)
LEMMA TakeStep ==
  ASSUME IInv, NEW t \in Taker, Take(t)
  PROVE  IInv'
<1> DEFINE f == Head(queue)
<1>1. /\ queue # <<>> /\ queue \in Seq(Frame) /\ queue' = Tail(queue)
      /\ hand \in [Taker -> Frame \union {NoFrame}] /\ hand[t] = NoFrame
      /\ hand' = [hand EXCEPT ![t] = f] /\ at' = [at EXCEPT ![t] = "send"]
      /\ at \in [Taker -> {"away", "get", "send", "closed"}]
      /\ UNCHANGED <<emitted, port, reader, buffer, held, lost, status, got, peer, dropped, stopped>>
  BY DEF IInv, TypeOK, Stages, Take, serialVars
<1>2. /\ queue' \in Seq(Frame) /\ Len(queue') = Len(queue) - 1 /\ Len(queue) >= 1
      /\ f = queue[1] /\ f \in Frame /\ f # NoFrame
      /\ Range(queue) = {f} \union Range(queue')
      /\ DOMAIN queue' = 1 .. Len(queue) - 1 /\ DOMAIN queue = 1 .. Len(queue)
      /\ \A i \in 1 .. Len(queue) - 1 : queue'[i] = queue[i + 1]
      /\ Len(queue) \in Nat
  BY <1>1, Beheaded, FrameFacts, LenProperties
<1> HIDE DEF f
<1>3. hand'[t] = f /\ \A u \in Taker : u # t => hand'[u] = hand[u]
  BY <1>1
<1>4. Hands' = Hands \union {f} /\ Gone' = Gone /\ Out' = Out \union {f}
  <2>1. Hands' \subseteq Hands \union {f}
    BY <1>3 DEF Hands
  <2>2. f \in Hands'
    BY <1>2, <1>3 DEF Hands
  <2>3. Hands \subseteq Hands'
    BY <1>1, <1>3 DEF Hands
  <2>4. Gone' = Gone
    BY <1>1 DEF Gone
  <2>5. QED BY <1>1, <2>1, <2>2, <2>3, <2>4 DEF Out
<1>5. /\ Raw' = Raw /\ Held' = Held /\ Cut' = Cut
      /\ Waiting' \union Out' = Waiting \union Out
  BY <1>1, <1>2, <1>4 DEF Raw, Held, Cut, Waiting
<1>6. TypeOK'
  BY <1>1, <1>2, SizesAssumption DEF IInv, TypeOK
<1>7. Stages'
  <2>1. \A u \in Taker : at'[u] = "send" <=> hand'[u] # NoFrame
    BY <1>1, <1>2, <1>3 DEF IInv, Stages
  <2>2. QED BY <1>1, <2>1 DEF IInv, Stages
<1>8. StreamInOrder'
  BY <1>1, <1>5 DEF IInv, StreamInOrder, Rising
<1>9. f \in Range(queue) /\ f \in Waiting /\ \A g \in Range(queue') : Before(f, g)
  <2>1. Range(queue') = {queue'[i] : i \in 1 .. Len(queue) - 1}
    BY <1>2, RangeOf
  <2>2. ASSUME NEW i \in 1 .. Len(queue) - 1 PROVE Before(f, queue'[i])
    <3>1. 1 \in DOMAIN queue /\ i + 1 \in DOMAIN queue /\ 1 < i + 1
      BY <1>2
    <3>2. QED BY <1>2, <3>1 DEF IInv, FramesInOrder, InOrder
  <2>3. QED BY <1>2, <2>1, <2>2 DEF Waiting
<1>10. FramesInOrder'
  <2>1. InOrder(queue')
    <3> SUFFICES ASSUME NEW i \in DOMAIN queue', NEW j \in DOMAIN queue', i < j
                 PROVE  Before(queue'[i], queue'[j])
      BY DEF InOrder
    <3>1. i + 1 \in DOMAIN queue /\ j + 1 \in DOMAIN queue /\ i + 1 < j + 1
      BY <1>2
    <3>2. QED BY <1>2, <3>1 DEF IInv, FramesInOrder, InOrder
  <2>2. \A g \in Waiting' \union Out' : g[1] <= emitted' /\ \A p \in Raw' : g[1] < p
    BY <1>1, <1>5 DEF IInv, FramesInOrder
  <2>3. \A g \in Range(queue') \union Out', h \in Held' : Before(g, h)
    BY <1>2, <1>4, <1>5 DEF IInv, FramesInOrder
  <2>4. \A g \in Out', h \in Range(queue') : Before(g, h)
    BY <1>2, <1>4, <1>9 DEF IInv, FramesInOrder
  <2>5. QED BY <2>1, <2>2, <2>3, <2>4 DEF FramesInOrder
<1>11. Owners'
  <2>1. \A g \in Out : g \in Frame /\ g[1] < f[1] /\ g[1] \in Nat /\ f[1] \in Nat
    BY <1>2, <1>9, Sizes, FrameFacts DEF IInv, FramesInOrder, Before
  <2>2. Of(t)' = Of(t) \union {f} /\ Mine(t)' = {f} /\ \A u \in Taker : u # t => Of(u)' = Of(u)
    BY <1>1, <1>2, <1>3 DEF Of, Mine
  <2>3. \A u \in Taker : Of(u) \subseteq Out /\ Range(got[u]) \subseteq Out
    BY Possessions DEF IInv, Out
  <2>4. ASSUME NEW u \in Taker
        PROVE  InOrder(got'[u]) /\ \A g \in Range(got'[u]), h \in Mine(u)' : Before(g, h)
    <3>1. InOrder(got'[u])
      BY <1>1 DEF IInv, Owners
    <3>2. CASE u = t
      BY <1>1, <2>1, <2>2, <2>3, <3>1, <3>2 DEF Before
    <3>3. CASE u # t
      BY <1>1, <1>3, <3>1, <3>3 DEF IInv, Owners, Mine
    <3>4. QED BY <3>2, <3>3
  <2>5. ASSUME NEW u \in Taker, NEW v \in Taker, u # v, NEW g \in Of(u)', NEW h \in Of(v)'
        PROVE  g[1] # h[1]
    <3>1. CASE g \in Of(u) /\ h \in Of(v)
      BY <2>5, <3>1 DEF IInv, Owners
    <3>2. CASE g \notin Of(u)
      <4>1. u = t /\ g = f /\ v # t
        BY <2>2, <2>5, <3>2
      <4>2. h \in Out
        BY <2>2, <2>3, <4>1
      <4>3. QED BY <2>1, <4>1, <4>2
    <3>3. CASE h \notin Of(v)
      <4>1. v = t /\ h = f /\ u # t
        BY <2>2, <2>5, <3>3
      <4>2. g \in Out
        BY <2>2, <2>3, <4>1
      <4>3. QED BY <2>1, <4>1, <4>2
    <3>4. QED BY <3>1, <3>2, <3>3
  <2>6. ASSUME NEW u \in Taker, NEW g \in Of(u)', NEW h \in dropped' PROVE g[1] # h[1]
    <3>1. h \in Out /\ h \in dropped
      BY <1>1 DEF Out
    <3>2. CASE g \in Of(u)
      BY <3>1, <3>2 DEF IInv, Owners
    <3>3. CASE g \notin Of(u)
      <4>1. g = f
        BY <2>2, <3>3
      <4>2. QED BY <2>1, <3>1, <4>1
    <3>4. QED BY <3>2, <3>3
  <2>7. QED BY <2>4, <2>5, <2>6 DEF Owners
<1>12. Complete'
  BY <1>1, <1>5 DEF IInv, Complete, From
<1>13. QED BY <1>6, <1>7, <1>8, <1>10, <1>11, <1>12 DEF IInv

(* A frame that leaves a thread's hands is sent or dropped: no stage loses or
   gains one. *)
LEMMA HandEmptied ==
  ASSUME IInv, NEW t \in Taker, at[t] = "send",
         hand' = [hand EXCEPT ![t] = NoFrame],
         NEW a \in {"get", "closed"}, at' = [at EXCEPT ![t] = a],
         \/ got' = [got EXCEPT ![t] = Append(@, hand[t])] /\ UNCHANGED dropped
         \/ dropped' = dropped \union {hand[t]} /\ UNCHANGED got,
         UNCHANGED <<emitted, port, reader, buffer, held, lost, queue, status, peer, stopped>>
  PROVE  IInv'
<1> DEFINE f == hand[t]
<1>1. /\ f # NoFrame /\ f \in Frame /\ f \in Hands /\ Mine(t) = {f}
      /\ got \in [Taker -> Seq(Frame)] /\ hand \in [Taker -> Frame \union {NoFrame}]
      /\ at \in [Taker -> {"away", "get", "send", "closed"}]
  BY FrameFacts DEF IInv, TypeOK, Stages, Hands, Mine
<1>2. /\ Append(got[t], f) \in Seq(Frame)
      /\ Range(Append(got[t], f)) = Range(got[t]) \union {f}
      /\ DOMAIN Append(got[t], f) = 1 .. Len(got[t]) + 1
      /\ \A i \in 1 .. Len(got[t]) : Append(got[t], f)[i] = got[t][i]
      /\ Append(got[t], f)[Len(got[t]) + 1] = f
      /\ Len(got[t]) \in Nat /\ DOMAIN got[t] = 1 .. Len(got[t])
      /\ \A i \in 1 .. Len(got[t]) : got[t][i] \in Range(got[t])
  BY <1>1, Appended, RangeOf
<1>3. /\ hand'[t] = NoFrame /\ \A u \in Taker : u # t => hand'[u] = hand[u] /\ got'[u] = got[u]
      /\ Mine(t)' = {} /\ \A u \in Taker : u # t => Mine(u)' = Mine(u) /\ Of(u)' = Of(u)
  BY <1>1 DEF Mine, Of
<1>4. \/ got'[t] = Append(got[t], f) /\ Range(got'[t]) = Range(got[t]) \union {f} /\ dropped' = dropped
      \/ got' = got /\ dropped' = dropped \union {f}
  BY <1>1, <1>2
<1> HIDE DEF f
<1>5. Out' = Out
  <2>1. Hands' \subseteq Hands /\ Hands \subseteq Hands' \union {f}
    <3>1. \A u \in Taker : hand'[u] # NoFrame => hand'[u] \in Hands
      BY <1>3 DEF Hands
    <3>2. \A u \in Taker : hand[u] # NoFrame => hand[u] = f \/ hand[u] \in Hands'
      BY <1>3 DEF Hands, f
    <3>3. QED BY <3>1, <3>2 DEF Hands
  <2>2. CASE got'[t] = Append(got[t], f) /\ Range(got'[t]) = Range(got[t]) \union {f} /\ dropped' = dropped
    <3>1. Gone' = Gone \union {f}
      <4>1. \A u \in Taker : Range(got'[u]) \subseteq Gone \union {f} /\ Range(got[u]) \subseteq Range(got'[u])
        BY <1>3, <2>2 DEF Gone
      <4>2. f \in Gone'
        BY <2>2 DEF Gone
      <4>3. QED BY <4>1, <4>2 DEF Gone
    <3>2. QED BY <1>1, <2>1, <2>2, <3>1 DEF Out
  <2>3. CASE got' = got /\ dropped' = dropped \union {f}
    BY <1>1, <2>1, <2>3 DEF Out, Gone
  <2>4. QED BY <1>4, <2>2, <2>3
<1>6. TypeOK'
  BY <1>1, <1>2 DEF IInv, TypeOK, f
<1>7. Stages'
  BY <1>1, <1>3 DEF IInv, Stages
<1>8. /\ Raw' = Raw /\ Held' = Held /\ Cut' = Cut /\ Waiting' = Waiting
      /\ Range(queue') = Range(queue)
  BY DEF Raw, Held, Cut, Waiting
<1>9. StreamInOrder'
  BY <1>8 DEF IInv, StreamInOrder, Rising
<1>10. FramesInOrder'
  BY <1>5, <1>8 DEF IInv, FramesInOrder, InOrder, Before
<1>11. Complete'
  BY <1>5, <1>8 DEF IInv, Complete, From
<1>12. \A g \in Range(got[t]) : Before(g, f)
  BY <1>1 DEF IInv, Owners
<1>13. \A u \in Taker : InOrder(got'[u])
  <2>1. ASSUME NEW u \in Taker, u # t PROVE InOrder(got'[u])
    BY <1>3, <2>1 DEF IInv, Owners
  <2>2. CASE got' = got
    BY <2>2 DEF IInv, Owners
  <2>3. CASE got'[t] = Append(got[t], f)
    <3> SUFFICES ASSUME NEW i \in DOMAIN got'[t], NEW j \in DOMAIN got'[t], i < j
                 PROVE  Before(got'[t][i], got'[t][j])
      BY <2>1 DEF InOrder
    <3>1. i \in 1 .. Len(got[t]) /\ got'[t][i] = got[t][i] /\ got[t][i] \in Range(got[t])
      BY <1>2, <2>3
    <3>2. CASE j \in 1 .. Len(got[t])
      <4>1. got'[t][j] = got[t][j] /\ j \in DOMAIN got[t] /\ i \in DOMAIN got[t]
        BY <1>2, <2>3, <3>1, <3>2
      <4>2. QED BY <3>1, <4>1 DEF IInv, Owners, InOrder
    <3>3. CASE j = Len(got[t]) + 1
      BY <1>2, <1>12, <2>3, <3>1, <3>3
    <3>4. QED BY <1>2, <2>3, <3>2, <3>3
  <2>4. QED BY <1>4, <2>1, <2>2, <2>3
<1>14. Of(t)' \subseteq Of(t) /\ f \in Of(t)
  BY <1>1, <1>3, <1>4 DEF Of
<1>15. ASSUME NEW u \in Taker, NEW g \in Of(u)', NEW h \in dropped' PROVE g[1] # h[1]
  <2>1. g \in Of(u)
    BY <1>3, <1>14
  <2>2. CASE h \in dropped
    BY <2>1, <2>2 DEF IInv, Owners
  <2>3. CASE h \notin dropped
    <3>1. got' = got /\ h = f
      BY <1>4, <2>3
    <3>2. CASE u = t
      <4>1. g \in Range(got[t])
        BY <1>3, <3>1, <3>2 DEF Of
      <4>2. g[1] < f[1] /\ g[1] \in Nat /\ f[1] \in Nat
        BY <1>1, <1>12, <2>1, <3>2, <4>1, Possessions, FrameFacts DEF Before, IInv
      <4>3. QED BY <3>1, <4>2
    <3>3. CASE u # t
      BY <1>14, <2>1, <3>1, <3>3 DEF IInv, Owners
    <3>4. QED BY <3>2, <3>3
  <2>4. QED BY <2>2, <2>3
<1>16. Owners'
  <2>1. \A u \in Taker : \A g \in Range(got'[u]), h \in Mine(u)' : Before(g, h)
    BY <1>3 DEF IInv, Owners
  <2>2. \A u, v \in Taker : u # v => \A g \in Of(u)', h \in Of(v)' : g[1] # h[1]
    BY <1>3, <1>14 DEF IInv, Owners
  <2>3. QED BY <1>13, <1>15, <2>1, <2>2 DEF Owners
<1>17. QED BY <1>6, <1>7, <1>9, <1>10, <1>11, <1>16 DEF IInv

-----------------------------------------------------------------------------
(* The invariant is inductive. *)

LEMMA InitEstablishes == Init => IInv
<1> SUFFICES ASSUME Init PROVE IInv
  OBVIOUS
<1>1. /\ port = <<>> /\ buffer = <<>> /\ queue = <<>> /\ held = NoFrame /\ emitted = 0
      /\ hand = [t \in Taker |-> NoFrame] /\ got = [t \in Taker |-> <<>>] /\ dropped = {}
      /\ at \in [Taker -> {"away", "get"}] /\ reader = "opening" /\ lost = FALSE
      /\ peer = {} /\ stopped = 0 /\ status = FALSE
  BY DEF Init
<1>2. /\ <<>> \in Seq(Piece) /\ <<>> \in Seq(Frame)
      /\ Range(<<>>) = {} /\ Len(<<>>) = 0 /\ DOMAIN <<>> = {}
  BY Empty
<1>3. TypeOK
  <2>1. emitted \in 0 .. 2 * Frames /\ stopped \in 0 .. 3
    BY <1>1, SizesAssumption
  <2>2. /\ port \in Seq(Piece) /\ Len(port) <= PortSize
        /\ queue \in Seq(Frame) /\ Len(queue) <= QueueSize
    BY <1>1, <1>2, SizesAssumption
  <2>3. /\ buffer \in Seq(Piece) /\ held \in Frame \union {NoFrame} /\ status \in BOOLEAN
        /\ reader \in {"opening", "select", "put", "error", "ended"} /\ lost \in BOOLEAN
    BY <1>1, <1>2
  <2>4. /\ at \in [Taker -> {"away", "get", "send", "closed"}]
        /\ hand \in [Taker -> Frame \union {NoFrame}] /\ got \in [Taker -> Seq(Frame)]
        /\ peer \subseteq Client /\ dropped \subseteq Frame
    BY <1>1, <1>2
  <2>5. QED BY <2>1, <2>2, <2>3, <2>4 DEF TypeOK
<1>4. Held = {} /\ Raw = {} /\ Waiting = {} /\ Out = {} /\ Range(queue) = {}
  BY <1>1, <1>2 DEF Held, Raw, Waiting, Out, Hands, Gone
<1>5. Stages /\ StreamInOrder /\ FramesInOrder
  BY <1>1, <1>2, <1>4 DEF Stages, StreamInOrder, FramesInOrder, Rising, InOrder
<1>6. Owners
  BY <1>1, <1>2 DEF Owners, Of, Mine, InOrder
<1>7. Complete
  <2>0. emitted = 0 /\ Len(port) = 0 /\ Len(buffer) = 0
    BY <1>1, <1>2
  <2>1. Cut = 0 /\ Cut + Len(buffer) = 0
    BY <2>0 DEF Cut
  <2>2. {Whole(k) : k \in 1 .. Cut \div 2} = {}
    BY <2>1
  <2>3. QED BY <1>1, <1>2, <1>4, <2>1, <2>2 DEF Complete, From
<1>8. QED BY <1>3, <1>5, <1>6, <1>7 DEF IInv

(* The serial side and stop. *)
LEMMA QuietSteps ==
  ASSUME IInv,
         \/ Open \/ SelectTimeout \/ SerialFails \/ Reopen
         \/ StatusOpen \/ StatusRead \/ StatusClose \/ Stop
  PROVE  IInv'
<1> USE DEF serialVars, takerVars
<1>1. /\ stopped \in 0 .. 3 /\ status \in BOOLEAN /\ lost \in BOOLEAN /\ peer \subseteq Client
      /\ at \in [Taker -> {"away", "get", "send", "closed"}]
      /\ reader \in {"opening", "select", "put", "error", "ended"}
      /\ reader = "put" <=> held # NoFrame
      /\ \A t \in Taker : at[t] = "send" <=> hand[t] # NoFrame
  BY DEF IInv, TypeOK, Stages
<1>2. CASE Open
  BY <1>1, <1>2, FramesStay DEF Open
<1>3. CASE SelectTimeout
  BY <1>1, <1>3, FramesStay DEF SelectTimeout
<1>4. CASE SerialFails
  BY <1>1, <1>4, FramesStay DEF SerialFails
<1>5. CASE Reopen
  BY <1>1, <1>5, FramesStay DEF Reopen
<1>6. CASE StatusOpen
  BY <1>1, <1>6, FramesStay DEF StatusOpen
<1>7. CASE StatusRead
  BY <1>1, <1>7, FramesStay DEF StatusRead
<1>8. CASE StatusClose
  BY <1>1, <1>8, FramesStay DEF StatusClose
<1>9. CASE Stop
  BY <1>1, <1>9, FramesStay DEF Stop
<1>10. QED BY <1>2, <1>3, <1>4, <1>5, <1>6, <1>7, <1>8, <1>9

(* One taker. *)
LEMMA TakerSteps ==
  ASSUME IInv, NEW t \in Taker,
         Accept(t) \/ Leave(t) \/ Take(t) \/ GetTimeout(t) \/ Deliver(t) \/ Drop(t)
  PROVE  IInv'
<1>1. /\ stopped \in 0 .. 3 /\ status \in BOOLEAN /\ lost \in BOOLEAN /\ peer \subseteq Client
      /\ at \in [Taker -> {"away", "get", "send", "closed"}]
      /\ reader \in {"opening", "select", "put", "error", "ended"}
      /\ reader = "put" <=> held # NoFrame
      /\ \A u \in Taker : at[u] = "send" <=> hand[u] # NoFrame
  BY DEF IInv, TypeOK, Stages
<1>2. CASE Accept(t)
  <2>1. t \in Client /\ at[t] = "away" /\ at' = [at EXCEPT ![t] = "get"]
    BY <1>2 DEF Accept
  <2>2. /\ at' \in [Taker -> {"away", "get", "send", "closed"}]
        /\ \A u \in Taker : at'[u] = "send" <=> hand[u] # NoFrame
    BY <1>1, <2>1
  <2>3. QED BY <1>1, <1>2, <2>1, <2>2, FramesStay DEF Accept, serialVars
<1>3. CASE Leave(t)
  BY <1>1, <1>3, FramesStay DEF Leave, serialVars
<1>4. CASE Take(t)
  BY <1>4, TakeStep
<1>5. CASE GetTimeout(t)
  <2>1. at[t] = "get" /\ at' = [at EXCEPT ![t] = "closed"]
    BY <1>5 DEF GetTimeout
  <2>2. /\ at' \in [Taker -> {"away", "get", "send", "closed"}]
        /\ \A u \in Taker : at'[u] = "send" <=> hand[u] # NoFrame
    BY <1>1, <2>1
  <2>3. QED BY <1>1, <1>5, <2>2, FramesStay DEF GetTimeout, serialVars
<1>6. CASE Deliver(t)
  <2>1. NextRound(t) \in {"get", "closed"}
    BY DEF NextRound
  <2>2. QED BY <1>6, <2>1, HandEmptied DEF Deliver, serialVars
<1>7. CASE Drop(t)
  <2>1. NextRound(t) \in {"get", "closed"}
    BY DEF NextRound
  <2>2. PICK a \in {"get", "closed"} : at' = [at EXCEPT ![t] = a]
    BY <1>7, <2>1 DEF Drop
  <2>3. QED BY <1>7, <2>2, HandEmptied DEF Drop, serialVars
<1>8. QED BY <1>2, <1>3, <1>4, <1>5, <1>6, <1>7

LEMMA NextPreserves == IInv /\ [Next]_vars => IInv'
<1> SUFFICES ASSUME IInv, [Next]_vars PROVE IInv'
  OBVIOUS
<1>1. CASE Emit
  BY <1>1, EmitStep
<1>2. CASE Read
  BY <1>2, ReadStep
<1>3. CASE Put
  BY <1>3, PutStep
<1>4. CASE \/ Open \/ SelectTimeout \/ SerialFails \/ Reopen
           \/ StatusOpen \/ StatusRead \/ StatusClose \/ Stop
  BY <1>4, QuietSteps
<1>5. ASSUME NEW t \in Taker,
             Accept(t) \/ Leave(t) \/ Take(t) \/ GetTimeout(t) \/ Deliver(t) \/ Drop(t)
      PROVE  IInv'
  BY <1>5, TakerSteps
<1>6. CASE UNCHANGED vars
  <2>1. /\ stopped \in 0 .. 3 /\ status \in BOOLEAN /\ lost \in BOOLEAN /\ peer \subseteq Client
        /\ at \in [Taker -> {"away", "get", "send", "closed"}]
        /\ reader \in {"opening", "select", "put", "error", "ended"}
        /\ reader = "put" <=> held # NoFrame
        /\ \A u \in Taker : at[u] = "send" <=> hand[u] # NoFrame
    BY DEF IInv, TypeOK, Stages
  <2>2. QED BY <1>6, <2>1, FramesStay DEF vars, serialVars, takerVars
<1>7. QED BY <1>1, <1>2, <1>3, <1>4, <1>5, <1>6 DEF Next

-----------------------------------------------------------------------------
(* The invariant says what the runs check. *)

LEMMA InOrderAndOnce == IInv => OnceAndInOrder
<1> SUFFICES ASSUME IInv PROVE OnceAndInOrder
  OBVIOUS
<1>1. \A f \in Waiting \union Out : f \in Frame /\ f[1] \in Nat
  BY Sizes DEF IInv
<1>2. \A t \in Taker : \A i, j \in DOMAIN got[t] : i < j => Before(got[t][i], got[t][j])
  BY DEF IInv, Owners, InOrder
<1>3. ASSUME NEW t \in Taker, NEW u \in Taker, t # u
      PROVE  Range(got[t]) \cap Range(got[u]) = {}
  BY <1>3 DEF IInv, Owners, Of
<1>4. ASSUME NEW f \in Hands \union Range(queue) \union Held, f \in Gone \union dropped
      PROVE  FALSE
  <2>1. f \in Out
    BY <1>4 DEF Out
  <2>2. f[1] \in Nat /\ ~Before(f, f)
    BY <1>1, <2>1 DEF Before
  <2>3. f \in Hands
    BY <1>4, <2>1, <2>2 DEF IInv, FramesInOrder
  <2>4. PICK t \in Taker : f = hand[t] /\ hand[t] # NoFrame
    BY <2>3 DEF Hands
  <2>5. f \in Mine(t) /\ f \in Of(t)
    BY <2>4 DEF Mine, Of
  <2>6. f \notin dropped
    BY <2>5 DEF IInv, Owners
  <2>7. PICK u \in Taker : f \in Range(got[u])
    BY <1>4, <2>6 DEF Gone
  <2>8. CASE u = t
    BY <2>2, <2>5, <2>7, <2>8 DEF IInv, Owners
  <2>9. CASE u # t
    BY <2>5, <2>7, <2>9 DEF IInv, Owners, Of
  <2>10. QED BY <2>8, <2>9
<1>5. QED BY <1>2, <1>3, <1>4 DEF OnceAndInOrder

(* Every variable of the base station always has a value of its type. *)
THEOREM StationTypes == Spec => []TypeOK
<1>1. IInv => TypeOK
  BY DEF IInv
<1>2. QED BY InitEstablishes, NextPreserves, <1>1, PTL DEF Spec

(* No frame goes out twice and each client gets its frames in order, whatever the
   reader, the status check, the clients and stop do in whatever order. *)
THEOREM FramesOnceInOrder == Spec => []OnceAndInOrder
BY InitEstablishes, NextPreserves, InOrderAndOnce, PTL DEF Spec

(* As long as the serial side lost nothing, the frames that came out of the buffer
   are the first ones the receiver put out, whole, and each is still somewhere. *)
THEOREM UndisturbedIsLossless == Spec => []LosslessWhileUndisturbed
<1>1. IInv => LosslessWhileUndisturbed
  BY DEF IInv, Complete, LosslessWhileUndisturbed, Cut, Waiting, Out
<1>2. QED BY InitEstablishes, NextPreserves, <1>1, PTL DEF Spec

-----------------------------------------------------------------------------
(* The refinement. *)

Ways == [t \in Taker |-> Starts(got[t])]

LEMMA StartsOf ==
  ASSUME NEW q \in Seq(Frame)
  PROVE  /\ Starts(q) \in Seq(Nat) /\ Len(Starts(q)) = Len(q)
         /\ Range(Starts(q)) = {f[1] : f \in Range(q)}
<1>1. Len(q) \in Nat /\ \A i \in 1 .. Len(q) : q[i] \in Frame /\ q[i][1] \in Nat
  BY RangeOf, FrameFacts
<1>2. Starts(q) \in Seq(Nat) /\ Len(Starts(q)) = Len(q)
  BY <1>1 DEF Starts
<1>3. Range(Starts(q)) = {Starts(q)[i] : i \in 1 .. Len(q)}
  BY <1>2, RangeOf
<1>4. Range(q) = {q[i] : i \in 1 .. Len(q)}
  BY RangeOf
<1>5. \A i \in 1 .. Len(q) : Starts(q)[i] = q[i][1]
  BY DEF Starts
<1>6. QED BY SMTT(30), <1>2, <1>3, <1>4, <1>5

LEMMA StartsAppended ==
  ASSUME NEW q \in Seq(Frame), NEW f \in Frame
  PROVE  Starts(Append(q, f)) = Append(Starts(q), f[1])
<1> DEFINE a == Starts(Append(q, f))
           b == Append(Starts(q), f[1])
<1>1. /\ Append(q, f) \in Seq(Frame) /\ Len(Append(q, f)) = Len(q) + 1
      /\ \A i \in 1 .. Len(q) : Append(q, f)[i] = q[i]
      /\ Append(q, f)[Len(q) + 1] = f
      /\ Len(q) \in Nat
  BY Appended, LenProperties
<1>2. a \in Seq(Nat) /\ Len(a) = Len(q) + 1
  BY <1>1, StartsOf
<1>3. Starts(q) \in Seq(Nat) /\ Len(Starts(q)) = Len(q) /\ f[1] \in Nat
  BY StartsOf, FrameFacts
<1>4. /\ b \in Seq(Nat) /\ Len(b) = Len(q) + 1
      /\ \A i \in 1 .. Len(q) : b[i] = Starts(q)[i]
      /\ b[Len(q) + 1] = f[1]
  BY <1>3, Appended
<1>5. \A i \in 1 .. Len(q) + 1 : a[i] = Append(q, f)[i][1]
  BY <1>1 DEF Starts
<1>6. \A i \in 1 .. Len(q) : Starts(q)[i] = q[i][1]
  BY DEF Starts
<1> HIDE DEF a, b
<1>7. \A i \in 1 .. Len(q) + 1 : a[i] = b[i]
  <2>1. \A i \in 1 .. Len(q) + 1 : i \in 1 .. Len(q) \/ i = Len(q) + 1
    BY <1>1
  <2>2. QED BY <1>1, <1>4, <1>5, <1>6, <2>1
<1>8. a = b
  BY <1>2, <1>4, <1>7, SeqEqual
<1>9. QED BY <1>8 DEF a, b

(* What goes out to t is a new piece for everybody, and later than all t has. *)
LEMMA DeliverGives ==
  ASSUME IInv, NEW t \in Taker, Deliver(t)
  PROVE  Shared!Give(t)
<1> DEFINE f == hand[t]
<1>1. /\ got \in [Taker -> Seq(Frame)] /\ hand \in [Taker -> Frame \union {NoFrame}]
      /\ got' = [got EXCEPT ![t] = Append(@, f)] /\ emitted' = emitted
      /\ f # NoFrame /\ emitted \in Nat
  BY Sizes DEF IInv, TypeOK, Stages, Deliver, serialVars
<1>2. f \in Frame /\ f \in Mine(t) /\ f \in Of(t) /\ f \in Out
  BY <1>1 DEF Mine, Of, Out, Hands
<1>3. f[1] \in 1 .. emitted
  <2>1. f[1] \in Piece /\ f[1] <= emitted
    BY <1>2, FrameFacts DEF IInv, FramesInOrder
  <2>2. QED BY <1>1, <2>1 DEF Piece
<1>4. \A g \in Range(got[t]) : g[1] < f[1]
  BY <1>2 DEF IInv, Owners, Before
<1>5. \A u \in Taker : Range(Ways[u]) = {g[1] : g \in Range(got[u])}
  BY <1>1, StartsOf DEF Ways
<1> HIDE DEF f
<1>6. \A u \in Taker : f[1] \notin Range(Ways[u])
  <2>1. CASE f[1] \in Range(Ways[t])
    <3>1. f[1] < f[1] /\ f[1] \in Nat
      BY <1>2, <1>4, <1>5, <2>1, FrameFacts
    <3>2. QED BY <3>1
  <2>2. ASSUME NEW u \in Taker, u # t PROVE f[1] \notin Range(Ways[u])
    BY <1>2, <1>5, <2>2 DEF IInv, Owners, Of
  <2>3. QED BY <2>1, <2>2
<1>7. \A q \in Range(Ways[t]) : q < f[1]
  BY <1>4, <1>5
<1>8. Ways' = [Ways EXCEPT ![t] = Append(@, f[1])]
  <2>1. Starts(Append(got[t], f)) = Append(Starts(got[t]), f[1])
    BY <1>1, <1>2, StartsAppended
  <2>2. QED BY <1>1, <2>1 DEF Ways
<1>9. QED BY <1>1, <1>3, <1>6, <1>7, <1>8 DEF Shared!Give, Shared!Range, Range, Ways

LEMMA StepShares ==
  ASSUME IInv, [Next]_vars
  PROVE  Shared!Next \/ UNCHANGED <<emitted, Ways>>
<1>1. CASE Emit
  BY <1>1, Sizes DEF Emit, takerVars, Shared!Next, Shared!Put, Ways, IInv
<1>2. ASSUME NEW t \in Taker, Deliver(t) PROVE Shared!Next
  BY <1>2, DeliverGives DEF Shared!Next
<1>3. CASE \/ Open \/ Read \/ SelectTimeout \/ Put \/ SerialFails \/ Reopen
           \/ StatusOpen \/ StatusRead \/ StatusClose \/ Stop
  BY <1>3 DEF Open, Read, SelectTimeout, Put, SerialFails, Reopen, StatusOpen, StatusRead,
              StatusClose, Stop, serialVars, takerVars, Ways
<1>4. ASSUME NEW t \in Taker, Accept(t) \/ Leave(t) \/ Take(t) \/ GetTimeout(t) \/ Drop(t)
      PROVE  UNCHANGED <<emitted, Ways>>
  BY <1>4 DEF Accept, Leave, Take, GetTimeout, Drop, serialVars, Ways
<1>5. CASE UNCHANGED vars
  BY <1>5 DEF vars, serialVars, takerVars, Ways
<1>6. QED BY <1>1, <1>2, <1>3, <1>4, <1>5 DEF Next

LEMMA StartsShared == Init => Shared!Init
<1> SUFFICES ASSUME Init PROVE Shared!Init
  OBVIOUS
<1>1. \A t \in Taker : Starts(got[t]) = <<>>
  BY DEF Init, Starts
<1>2. QED BY <1>1 DEF Init, Shared!Init

(* The station is a source that gives each frame to one taker at most and to each
   taker in order, whatever the threads, the ports and the clients do. *)
THEOREM StationImplementsSharedFifo == Spec => ImplementsSharedFifo
<1>1. IInv /\ [Next]_vars => [Shared!Next]_<<emitted, Ways>>
  BY StepShares
<1>2. QED BY InitEstablishes, NextPreserves, StartsShared, <1>1, PTL
          DEF Spec, ImplementsSharedFifo, Shared!Spec, Ways
=============================================================================
