--------------------------- MODULE RtcmRelayProofs ---------------------------
(****************************************************************************)
(* Theorems about RtcmRelay, for any clients, number of pieces and size of  *)
(* a batch.                                                                 *)
(****************************************************************************)
EXTENDS RtcmRelay, SequenceFacts, TLAPS

Shapes ==
  /\ stream \in Seq(Piece) /\ batch \in Seq(Piece) /\ took \in Seq(Piece)
  /\ out \in [Sink -> Seq(Piece)]
  /\ Len(took) + Len(stream) <= sent

(* What only some of the programs have. *)
Roles ==
  /\ ~Is({"tcp"}) => batch = <<>>
  /\ ~Is(Framed) => buffer = 0
  /\ ~Is({"relay"}) => todo = {} /\ \A c \in Client : sink[c] = "off"
  /\ Is({"relay"}) => out[Port] = <<>>
  /\ src = "off" => batch = <<>>

(* What is in the output came before what is in the batch, that before the half
   frame, and that before what is yet to be read.  The half frame of a connection
   that is closed is as good as gone. *)
Live == src \in {"on", "eof"}
Halves == IF buffer = 0 \/ ~Live THEN {} ELSE {buffer}
Behind(S, T) == \A p \in S, q \in T : p < q

InOrder ==
  /\ Rising(out[Port]) /\ Rising(batch) /\ Rising(stream)
  /\ Behind(Range(out[Port]), Range(batch) \union Halves \union Range(stream))
  /\ Behind(Range(batch), Halves \union Range(stream))
  /\ Behind(Halves, Range(stream))
  /\ \A p \in Range(out[Port]) \union Range(batch) \union Halves \union Range(stream) : p <= sent

(* A stream of whole frames, from its next piece on. *)
Frames(s) ==
  /\ Len(s) % 2 = 0
  /\ \A i \in 1 .. Len(s) : i % 2 = 1 => s[i] % 2 = 1 /\ s[i + 1] = s[i] + 1

(* The half frame is a first half; the stream carries on from it, and so will what
   the far end sends next. *)
Chain ==
  /\ buffer # 0 => buffer % 2 = 1
  /\ stream # <<>> =>
       /\ buffer # 0 => Head(stream) = buffer + 1
       /\ \A i \in 1 .. Len(stream) - 1 : stream[i + 1] = stream[i] + 1
  /\ src = "on" => IF stream # <<>> THEN stream[Len(stream)] = sent
                   ELSE buffer # 0 => buffer = sent

Cut == Is({"tcp", "script", "inject"})

InFrames == Cut /\ ~lured /\ Live => Frames(batch) /\ Chain

(* As long as nothing has gone wrong, nothing is missing. *)
Done == Len(out[Port]) + Len(batch)
OneHalf == IF buffer = 0 THEN 0 ELSE 1

Lossless ==
  calm /\ ~Is({"relay"}) =>
    /\ src \in {"off", "on"} /\ (src = "off" => sent = 0)
    /\ ~Is(Forwarder) => sink[Port] = "on"
    /\ From(0, out[Port]) /\ From(Len(out[Port]), batch)
    /\ buffer # 0 => buffer = Done + 1
    /\ From(Done + OneHalf, stream)
    /\ Done + OneHalf + Len(stream) = sent
    /\ Is(Framed) => Done % 2 = 0

(* A client has been sent all that was read since it was accepted. *)
Behindhand(c) == IF c \in todo THEN 1 ELSE 0

ClientsServed ==
  /\ todo \subseteq Served
  /\ \A c \in Served : from[c] + Behindhand(c) <= Len(took)
  /\ NoGap

IInv ==
  /\ TypeOK /\ Shapes /\ Roles
  /\ InOrder /\ InFrames /\ Lossless /\ ClientsServed

-----------------------------------------------------------------------------
(* What the parts of the invariant say of the sequences. *)

LEMMA Facts ==
  ASSUME IInv
  PROVE  /\ Port \in Sink /\ Client \subseteq Sink /\ \A c \in Client : c # Port
         /\ Piece \in SUBSET Nat /\ sent \in Nat /\ buffer \in Nat
         /\ out[Port] \in Seq(Piece) /\ out[Port] \in Seq(Nat)
         /\ batch \in Seq(Piece) /\ batch \in Seq(Nat)
         /\ stream \in Seq(Piece) /\ stream \in Seq(Nat)
         /\ Len(out[Port]) \in Nat /\ Len(batch) \in Nat /\ Len(stream) \in Nat /\ Len(took) \in Nat
         /\ Range(out[Port]) \subseteq Nat /\ Range(batch) \subseteq Nat /\ Range(stream) \subseteq Nat
         /\ Halves \subseteq Nat /\ Done \in Nat /\ OneHalf \in Nat
<1>1. Port \in Sink /\ Client \subseteq Sink /\ \A c \in Client : c # Port
  BY PortAssumption DEF Sink
<1>2. Piece \in SUBSET Nat /\ sent \in Nat /\ buffer \in Nat /\ OneHalf \in Nat
  BY SizeAssumption DEF IInv, TypeOK, Piece, OneHalf
<1>3. /\ out[Port] \in Seq(Piece) /\ batch \in Seq(Piece) /\ stream \in Seq(Piece)
      /\ took \in Seq(Piece)
  BY <1>1 DEF IInv, Shapes
<1>4. out[Port] \in Seq(Nat) /\ batch \in Seq(Nat) /\ stream \in Seq(Nat)
  BY <1>2, <1>3, SeqMonotonic
<1>5. Len(out[Port]) \in Nat /\ Len(batch) \in Nat /\ Len(stream) \in Nat /\ Len(took) \in Nat
  BY <1>3, LenProperties
<1>6. Range(out[Port]) \subseteq Nat /\ Range(batch) \subseteq Nat /\ Range(stream) \subseteq Nat
  BY <1>4, RangeOf
<1>7. Done \in Nat /\ Halves \subseteq Nat
  BY <1>2, <1>5 DEF Done, Halves
<1>8. QED BY <1>1, <1>2, <1>3, <1>4, <1>5, <1>6, <1>7

(* What can become of the stream in a step that puts nothing into it. *)
LEMMA Shorter ==
  ASSUME NEW S \in SUBSET Nat, NEW s \in Seq(S), Rising(s),
         NEW r, r \in {s, <<>>} \/ (s # <<>> /\ r = Tail(s))
  PROVE  /\ r \in Seq(S) /\ Rising(r) /\ Range(r) \subseteq Range(s)
         /\ Len(r) <= Len(s) /\ Len(r) \in Nat
         /\ s # <<>> => Head(s) \in S /\ Head(s) \in Range(s) /\ Len(s) >= 1
         /\ s # <<>> /\ r # s => Len(r) + 1 <= Len(s)
<1>1. Len(s) \in Nat /\ s \in Seq(Nat)
  BY LenProperties, SeqMonotonic
<1>2. s # <<>> => Head(s) \in S /\ Head(s) \in Range(s) /\ Len(s) >= 1
  BY Beheaded
<1>3. CASE r = s
  BY <1>1, <1>2, <1>3
<1>4. CASE r = <<>>
  <2>1. r \in Seq(S) /\ Range(r) = {} /\ Len(r) = 0 /\ DOMAIN r = {}
    BY <1>4, Empty
  <2>2. QED BY <1>1, <1>2, <2>1 DEF Rising
<1>5. CASE s # <<>> /\ r = Tail(s)
  <2>1. /\ r \in Seq(S) /\ Len(r) = Len(s) - 1 /\ Range(r) \subseteq Range(s)
    BY <1>5, Beheaded
  <2>2. Rising(r)
    BY <1>1, <1>5, TailRises
  <2>3. QED BY <1>1, <1>2, <2>1, <2>2
<1>6. QED BY <1>3, <1>4, <1>5

LEMMA NoPieces ==
  /\ <<>> \in Seq(Piece) /\ Len(<<>>) = 0 /\ Range(<<>>) = {} /\ Rising(<<>>)
  /\ \A n : From(n, <<>>)
  /\ Frames(<<>>)
BY Empty DEF Rising, From, Frames

LEMMA Parity ==
  \A m, n \in Nat :
    /\ m % 2 = 0 /\ n % 2 = 0 => (m + n) % 2 = 0
    /\ m % 2 = 0 /\ n % 2 = 1 /\ n <= m => n + 1 <= m
    /\ m % 2 = 0 /\ n % 2 = 1 /\ n > m => (n - m) % 2 = 1
    /\ n % 2 = 0 \/ n % 2 = 1
    /\ n % 2 = 0 => (n + 1) % 2 = 1
    /\ n % 2 = 1 => (n + 1) % 2 = 0
OBVIOUS

LEMMA FramesJoined ==
  ASSUME NEW s \in Seq(Nat), NEW t \in Seq(Nat), Frames(s), Frames(t)
  PROVE  Frames(s \o t)
<1> DEFINE b == s \o t
<1>1. \A i \in 1 .. Len(s) + Len(t) : b[i] = IF i <= Len(s) THEN s[i] ELSE t[i - Len(s)]
  BY Joined
<1>2. Len(s) \in Nat /\ Len(t) \in Nat /\ Len(b) = Len(s) + Len(t)
  BY Joined, LenProperties
<1>3. Len(s) % 2 = 0 /\ Len(t) % 2 = 0
  BY DEF Frames
<1> HIDE DEF b
<1>4. Len(b) % 2 = 0
  BY SMTT(30), <1>2, <1>3, Parity
<1>5. ASSUME NEW i \in 1 .. Len(b), i % 2 = 1
      PROVE  b[i] % 2 = 1 /\ b[i + 1] = b[i] + 1
  <2>1. CASE i <= Len(s)
    <3>1. i # Len(s)
      BY <1>5, <1>3
    <3>2. i \in 1 .. Len(s) /\ i + 1 <= Len(s)
      BY <1>2, <2>1, <3>1
    <3>3. i + 1 \in 1 .. Len(s) + Len(t) /\ i \in 1 .. Len(s) + Len(t)
      BY <1>2, <3>2
    <3>4. b[i] = s[i] /\ b[i + 1] = s[i + 1]
      BY <1>1, <1>2, <3>2, <3>3
    <3>5. QED BY <1>5, <3>2, <3>4 DEF Frames
  <2>2. CASE i > Len(s)
    <3>1. PICK j \in 1 .. Len(t) : j = i - Len(s)
      <4>1. i - Len(s) \in 1 .. Len(t)
        BY <1>2, <2>2
      <4>2. QED BY <4>1
    <3>2. j % 2 = 1
      BY SMTT(30), <1>2, <1>5, <1>3, <2>2, <3>1, Parity
    <3>3. j # Len(t)
      BY <1>3, <3>2
    <3>4. j + 1 <= Len(t) /\ i + 1 \in 1 .. Len(s) + Len(t) /\ i + 1 - Len(s) = j + 1
      BY <1>2, <2>2, <3>1, <3>3
    <3>5. b[i] = t[j] /\ b[i + 1] = t[j + 1]
      BY <1>1, <1>2, <2>2, <3>1, <3>4
    <3>6. t[j] % 2 = 1 /\ t[j + 1] = t[j] + 1
      BY <3>2 DEF Frames
    <3>7. QED BY <3>5, <3>6
  <2>3. QED BY <1>2, <2>1, <2>2
<1>6. QED BY <1>4, <1>5 DEF Frames, b

(* A frame put together from its halves. *)
LEMMA FrameOf ==
  ASSUME NEW b \in Piece, NEW p \in Piece, b < p
  PROVE  /\ <<b, p>> \in Seq(Piece) /\ Range(<<b, p>>) = {b, p} /\ Len(<<b, p>>) = 2
         /\ Rising(<<b, p>>)
         /\ p = b + 1 => \A n \in Nat : b = n + 1 => From(n, <<b, p>>)
         /\ p = b + 1 /\ b % 2 = 1 => Frames(<<b, p>>)
<1>1. b \in Nat /\ p \in Nat
  BY SizeAssumption DEF Piece
<1> DEFINE m == <<b, p>>
<1>2. m \in Seq(Piece) /\ Len(m) = 2 /\ DOMAIN m = 1 .. 2 /\ m[1] = b /\ m[2] = p
  OBVIOUS
<1> HIDE DEF m
<1>3. Range(m) = {b, p}
  BY <1>2, RangeOf
<1>4. QED BY <1>1, <1>2, <1>3 DEF Rising, From, Frames, m

LEMMA PieceAlone ==
  ASSUME NEW p \in Piece
  PROVE  /\ <<p>> \in Seq(Piece) /\ Range(<<p>>) = {p} /\ Len(<<p>>) = 1
         /\ Rising(<<p>>)
         /\ \A n \in Nat : p = n + 1 => From(n, <<p>>)
<1>1. p \in Nat
  BY SizeAssumption DEF Piece
<1> DEFINE m == <<p>>
<1>2. m \in Seq(Piece) /\ Len(m) = 1 /\ DOMAIN m = 1 .. 1 /\ m[1] = p
  OBVIOUS
<1> HIDE DEF m
<1>3. Range(m) = {p}
  BY <1>2, RangeOf
<1>4. QED BY <1>1, <1>2, <1>3 DEF Rising, From, m

-----------------------------------------------------------------------------
(* Steps that only lose. *)

LEMMA OrderKept ==
  ASSUME IInv,
         stream' \in {stream, <<>>} \/ (stream # <<>> /\ stream' = Tail(stream)),
         batch' \in {batch, <<>>}, buffer' = 0 \/ (buffer' = buffer /\ (Live' => Live)),
         out'[Port] = out[Port], sent' = sent
  PROVE  InOrder'
<1>1. /\ Piece \in SUBSET Nat /\ batch \in Seq(Piece) /\ stream \in Seq(Piece)
      /\ Rising(batch) /\ Rising(stream)
  BY Facts DEF IInv, InOrder
<1>2. Rising(stream') /\ Range(stream') \subseteq Range(stream)
  BY <1>1, Shorter
<1>3. Rising(batch') /\ Range(batch') \subseteq Range(batch)
  BY <1>1, NoPieces
<1>4. Halves' \subseteq Halves
  BY DEF Halves
<1>5. QED BY <1>2, <1>3, <1>4 DEF IInv, InOrder, Behind

(* A part of what was due came out, and the rest of it is lost. *)
LEMMA OrderOfPart ==
  ASSUME IInv, NEW d \in Seq(Piece), Rising(d),
         Range(d) \subseteq Range(batch) \union Halves \union Range(stream),
         Behind(Range(d), Range(stream')),
         stream' = <<>> \/ (stream # <<>> /\ stream' = Tail(stream)),
         batch' = <<>>, Halves' = {}, sent' = sent, Partly(d)
  PROVE  InOrder' /\ out' \in [Sink -> Seq(Piece)] /\ \A c \in Client : out'[c] = out[c]
<1>13. PICK n \in 0 .. Len(d) : out' = [out EXCEPT ![Port] = @ \o SubSeq(d, 1, n)]
  <2>1. Len(d) \in Nat
    BY LenProperties
  <2>2. PICK n \in 0 .. IF sink[Port] = "broken" THEN Len(d) ELSE 0 :
          out' = [out EXCEPT ![Port] = @ \o SubSeq(d, 1, n)]
    BY DEF Partly
  <2>3. n \in 0 .. Len(d)
    BY <2>1
  <2>4. QED BY <2>2, <2>3
<1> DEFINE q == SubSeq(d, 1, n)
           o == out[Port]
<1>1. /\ Piece \in SUBSET Nat /\ stream \in Seq(Piece) /\ Rising(stream)
      /\ o \in Seq(Piece) /\ o \in Seq(Nat) /\ Rising(o) /\ out \in [Sink -> Seq(Piece)]
      /\ Port \in Sink /\ Client \subseteq Sink /\ \A c \in Client : c # Port
      /\ Behind(Range(o), Range(batch) \union Halves \union Range(stream))
      /\ \A p \in Range(o) \union Range(batch) \union Halves \union Range(stream) : p <= sent
  BY Facts DEF IInv, InOrder, Shapes
<1>2. q \in Seq(Piece) /\ Rising(q) /\ Range(q) \subseteq Range(d)
  BY Part
<1>3. q \in Seq(Nat)
  BY <1>1, <1>2, SeqMonotonic
<1> HIDE DEF q, o
<1>4. Range(stream') \subseteq Range(stream) /\ Rising(stream')
  BY <1>1, Shorter
<1>5. o \o q \in Seq(Piece) /\ Range(o \o q) = Range(o) \union Range(q)
  BY <1>1, <1>2, Joined
<1>6. Rising(o \o q)
  <2>1. \A a \in Range(o), b \in Range(q) : a < b
    BY <1>1, <1>2 DEF Behind
  <2>2. QED BY <1>1, <1>2, <1>3, <2>1, JoinedRises
<1>7. out'[Port] = o \o q
  BY <1>1, <1>13 DEF o, q
<1>8. Behind(Range(o \o q), Range(stream'))
  BY <1>1, <1>2, <1>4, <1>5 DEF Behind
<1>9. \A p \in Range(o \o q) \union Range(stream') : p <= sent
  BY <1>1, <1>2, <1>4, <1>5
<1>10. InOrder'
  <2>1. Range(batch') = {} /\ Rising(batch')
    BY NoPieces
  <2>2. QED BY <1>4, <1>6, <1>7, <1>8, <1>9, <2>1 DEF InOrder, Behind
<1>11. out' = [out EXCEPT ![Port] = o \o q]
  BY <1>13 DEF o, q
<1>12. QED BY <1>1, <1>5, <1>10, <1>11

LEMMA ServedKept ==
  ASSUME IInv, UNCHANGED <<from, todo>>, Served' = Served,
         \A c \in Client : out'[c] = out[c],
         took' = took \/ ~Is({"relay"})
  PROVE  ClientsServed'
<1>1. CASE took' = took
  BY <1>1 DEF IInv, ClientsServed, Behindhand, NoGap, Served
<1>2. CASE ~Is({"relay"})
  <2>1. Served = {} /\ todo = {}
    BY <1>2 DEF IInv, Roles, Served
  <2>2. QED BY <2>1 DEF ClientsServed, NoGap
<1>3. QED BY <1>1, <1>2

LEMMA LosingStep ==
  ASSUME IInv, calm' = FALSE, knock' \in BOOLEAN, lured' \in BOOLEAN, InOrder',
         stream' \in {stream, <<>>} \/ (stream # <<>> /\ stream' = Tail(stream)),
         batch' \in {batch, <<>>}, buffer' \in {buffer, 0},
         \/ took' = took
         \/ /\ ~Is({"relay"}) /\ stream # <<>> /\ stream' # stream
            /\ took' = Append(took, Head(stream)),
         \/ src' \in {"off", "ended", "spin"} /\ (src' = "off" => batch' = <<>>)
         \/ ~Cut /\ src' = src,
         out' \in [Sink -> Seq(Piece)], \A c \in Client : out'[c] = out[c],
         Is({"relay"}) => out'[Port] = out[Port],
         UNCHANGED <<job, sent, sink, todo, from>>
  PROVE  IInv'
<1>1. /\ Piece \in SUBSET Nat /\ stream \in Seq(Piece) /\ Rising(stream)
      /\ sent \in Nat /\ sent <= MaxPiece /\ MaxPiece \in Nat
      /\ batch \in Seq(Piece) /\ took \in Seq(Piece) /\ Len(took) \in Nat /\ Len(stream) \in Nat
      /\ Len(took) + Len(stream) <= sent
  BY Facts, SizeAssumption DEF IInv, InOrder, Shapes, TypeOK
<1>2. /\ stream' \in Seq(Piece) /\ Len(stream') <= Len(stream) /\ Len(stream') \in Nat
      /\ stream # <<>> => Head(stream) \in Piece
      /\ stream # <<>> /\ stream' # stream => Len(stream') + 1 <= Len(stream)
  BY <1>1, Shorter
<1>3. took' \in Seq(Piece) /\ Len(took') \in Nat /\ Len(took') + Len(stream') <= sent
  <2>1. CASE took' = took
    BY <1>1, <1>2, <2>1
  <2>2. CASE stream # <<>> /\ stream' # stream /\ took' = Append(took, Head(stream))
    <3>1. took' \in Seq(Piece) /\ Len(took') = Len(took) + 1
      BY <1>1, <1>2, <2>2, Appended
    <3>2. QED BY <1>1, <1>2, <2>2, <3>1
  <2>3. QED BY <2>1, <2>2
<1>4. batch' \in Seq(Piece) /\ Len(batch') < BatchPieces /\ buffer' \in 0 .. MaxPiece
  <2>1. CASE batch' = batch
    BY <1>1, <2>1 DEF IInv, TypeOK
  <2>2. CASE batch' = <<>>
    <3>1. Len(batch') = 0
      BY <2>2, NoPieces
    <3>2. QED BY <2>2, <3>1, NoPieces, SizeAssumption DEF IInv, TypeOK
  <2>3. QED BY <2>1, <2>2
<1>5. Len(stream') <= MaxPiece
  BY <1>1, <1>2, <1>3
<1>6. TypeOK'
  BY <1>4, <1>5 DEF IInv, TypeOK
<1>7. Shapes'
  BY <1>2, <1>3, <1>4 DEF IInv, Shapes
<1>8. Roles'
  BY DEF IInv, Roles, Is
<1>10. InFrames'
  BY DEF InFrames, Cut, Is, Live
<1>11. Lossless'
  BY DEF Lossless
<1>12. ClientsServed'
  BY ServedKept DEF Served
<1>13. QED BY <1>6, <1>7, <1>8, <1>10, <1>11, <1>12 DEF IInv

-----------------------------------------------------------------------------
(* Steps that leave the pieces alone. *)

LEMMA QuietStep ==
  ASSUME IInv,
         src' \in {"off", "on", "eof", "spin", "ended"}, knock' \in BOOLEAN, calm' \in BOOLEAN,
         src' = "on" => src = "on", src' = "eof" => src \in {"on", "eof"},
         src' = "off" => src = "off",
         sink' \in [Sink -> {"off", "waiting", "on", "stalled", "gone", "broken"}],
         calm' => calm /\ src' = src /\ sink'[Port] = sink[Port],
         \A c \in Client :
           \/ sink'[c] = sink[c]
           \/ /\ Is({"relay"})
              /\ sink'[c] \in {"on", "stalled", "gone"} <=> sink[c] \in {"on", "stalled", "gone"},
         UNCHANGED <<job, sent, stream, lured, buffer, took, batch, todo, out, from>>
  PROVE  IInv'
<1>1. TypeOK'
  BY DEF IInv, TypeOK
<1>2. Shapes'
  BY DEF IInv, Shapes
<1>3. Roles'
  BY DEF IInv, Roles, Is
<1>4. InOrder'
  BY OrderKept DEF Live
<1>5. InFrames'
  BY DEF IInv, InFrames, Cut, Is, Frames, Chain, Live
<1>6. Lossless'
  BY DEF IInv, Lossless, Is, Done, OneHalf, From
<1>7. Served' = Served
  BY DEF Served
<1>8. ClientsServed'
  BY <1>7, ServedKept
<1>9. QED BY <1>1, <1>2, <1>3, <1>4, <1>5, <1>6, <1>8 DEF IInv

-----------------------------------------------------------------------------
(* Produce: the next piece goes behind all others, or nowhere. *)
LEMMA ProduceStep ==
  ASSUME IInv, Produce
  PROVE  IInv'
<1> DEFINE p == sent + 1
<1>1. /\ p \in Piece /\ sent' = p /\ sent \in Nat
      /\ MaxPiece \in Nat /\ p <= MaxPiece
      /\ UNCHANGED <<job, src, knock, buffer, lured, took, batch, sink, todo, out, from>>
  BY Facts, SizeAssumption DEF IInv, Shapes, TypeOK, Produce, outVars, Piece
<1>2. /\ Piece \in SUBSET Nat /\ stream \in Seq(Piece) /\ stream \in Seq(Nat)
      /\ Len(stream) \in Nat /\ Len(took) \in Nat /\ Len(took) + Len(stream) <= sent
      /\ Range(out[Port]) \subseteq Nat /\ Range(batch) \subseteq Nat /\ Range(stream) \subseteq Nat
      /\ Halves \subseteq Nat /\ buffer \in Nat /\ Done \in Nat /\ OneHalf \in Nat
  BY Facts DEF IInv, Shapes
<1>3. ASSUME NEW q \in Range(out[Port]) \union Range(batch) \union Halves \union Range(stream)
      PROVE  q < p /\ q <= p
  <2>1. q \in Nat /\ q <= sent
    BY <1>2 DEF IInv, InOrder
  <2>2. QED BY <1>1, <2>1
<1>4. Roles' /\ ClientsServed'
  BY <1>1, ServedKept DEF IInv, Roles, Is, Served
<1>5. CASE src = "on"
  <2>1. stream' = Append(stream, p) /\ calm' = calm
    BY <1>5 DEF Produce
  <2>2. /\ stream' \in Seq(Piece) /\ Len(stream') = Len(stream) + 1
        /\ Range(stream') = Range(stream) \union {p}
        /\ DOMAIN stream' = 1 .. Len(stream) + 1 /\ DOMAIN stream = 1 .. Len(stream)
        /\ \A i \in 1 .. Len(stream) : stream'[i] = stream[i] /\ stream[i] \in Range(stream)
        /\ stream'[Len(stream) + 1] = p
    BY <1>1, <1>2, <2>1, Appended, RangeOf
  <2> HIDE DEF p
  <2>3. p = sent + 1
    BY DEF p
  <2>4. Len(stream') <= MaxPiece
    BY <1>1, <1>2, <2>2, <2>3
  <2>5. TypeOK'
    BY <1>1, <2>1, <2>4, <2>3 DEF IInv, TypeOK
  <2>6. Shapes'
    BY <1>1, <1>2, <2>1, <2>2, <2>3 DEF IInv, Shapes
  <2>7. InOrder'
    <3>1. Rising(stream')
      <4> SUFFICES ASSUME NEW i \in DOMAIN stream', NEW j \in DOMAIN stream', i < j
                   PROVE  stream'[i] < stream'[j]
        BY DEF Rising
      <4>1. i \in 1 .. Len(stream)
        BY <1>2, <2>2
      <4>2. CASE j \in 1 .. Len(stream)
        BY <2>2, <4>1, <4>2 DEF IInv, InOrder, Rising
      <4>3. CASE j = Len(stream) + 1
        BY <1>3, <2>2, <4>1, <4>3
      <4>4. QED BY <1>2, <2>2, <4>2, <4>3
    <3>2. Halves' = Halves
      BY <1>1 DEF Halves, Live
    <3>3. \A q \in Range(out'[Port]) \union Range(batch') \union Halves' \union Range(stream') : q <= sent'
      <4>1. Range(stream') = Range(stream) \union {p} /\ p <= sent' /\ sent' = p
        BY <1>1, <2>2, <2>3
      <4>2. QED BY <1>1, <1>3, <3>2, <4>1
    <3>4. QED BY <1>1, <1>3, <2>2, <3>1, <3>2, <3>3 DEF IInv, InOrder, Behind
  <2>8. InFrames'
    <3> SUFFICES ASSUME Cut, ~lured PROVE Frames(batch') /\ Chain'
      BY <1>1 DEF InFrames, Cut, Is
    <3>1. Chain /\ Frames(batch') /\ src' = "on"
      BY <1>1, <1>5 DEF IInv, InFrames, Live
    <3>2. CASE stream = <<>>
      <4>1. Len(stream) = 0 /\ Len(stream') = 1 /\ stream'[1] = p /\ stream' # <<>>
        BY <2>2, <3>2, NoPieces
      <4>2. Head(stream') = p
        BY <2>2, <4>1
      <4>3. buffer # 0 => buffer = sent /\ buffer % 2 = 1
        BY <1>5, <3>1, <3>2 DEF Chain
      <4>4. Chain'
        BY <1>1, <2>1, <2>3, <4>1, <4>2, <4>3 DEF Chain
      <4>5. QED BY <3>1, <4>4
    <3>3. CASE stream # <<>>
      <4>1. Len(stream) >= 1 /\ Head(stream) = stream[1] /\ stream[Len(stream)] = sent
        BY <1>2, <1>5, <3>1, <3>3, Beheaded DEF Chain
      <4>2. stream' # <<>> /\ Head(stream') = stream'[1] /\ stream'[1] = stream[1]
        BY <1>2, <2>2, <4>1
      <4>3. ASSUME NEW i \in 1 .. Len(stream') - 1 PROVE stream'[i + 1] = stream'[i] + 1
        <5>1. i \in 1 .. Len(stream)
          BY <1>2, <2>2
        <5>2. CASE i \in 1 .. Len(stream) - 1
          <6>1. i + 1 \in 1 .. Len(stream)
            BY <1>2, <5>2
          <6>2. stream[i + 1] = stream[i] + 1
            BY <3>1, <3>3, <5>2 DEF Chain
          <6>3. QED BY <2>2, <5>1, <6>1, <6>2
        <5>3. CASE i = Len(stream)
          BY <2>2, <2>3, <4>1, <5>1, <5>3
        <5>4. QED BY <1>2, <5>1, <5>2, <5>3
      <4>4. buffer # 0 => buffer % 2 = 1 /\ Head(stream') = buffer + 1
        BY <3>1, <3>3, <4>1, <4>2 DEF Chain
      <4>5. Chain'
        BY <1>1, <2>1, <2>2, <4>2, <4>3, <4>4 DEF Chain
      <4>6. QED BY <3>1, <4>5
    <3>4. QED BY <3>2, <3>3
  <2>9. Lossless'
    <3> SUFFICES ASSUME calm, ~Is({"relay"})
                 PROVE  /\ src' \in {"off", "on"} /\ (src' = "off" => sent' = 0)
                        /\ ~Is(Forwarder) => sink'[Port] = "on"
                        /\ From(0, out'[Port]) /\ From(Len(out'[Port]), batch')
                        /\ buffer' # 0 => buffer' = Done' + 1
                        /\ From(Done' + OneHalf', stream')
                        /\ Done' + OneHalf' + Len(stream') = sent'
                        /\ Is(Framed) => Done' % 2 = 0
      BY <1>1, <2>1 DEF Lossless, Is
    <3>1. /\ src = "on"
          /\ ~Is(Forwarder) => sink[Port] = "on"
          /\ From(0, out[Port]) /\ From(Len(out[Port]), batch)
          /\ buffer # 0 => buffer = Done + 1
          /\ From(Done + OneHalf, stream)
          /\ Done + OneHalf + Len(stream) = sent
          /\ Is(Framed) => Done % 2 = 0
      BY <1>5 DEF IInv, Lossless
    <3>2. Done' = Done /\ OneHalf' = OneHalf
      BY <1>1 DEF Done, OneHalf
    <3>3. From(Done + OneHalf, stream')
      <4> SUFFICES ASSUME NEW i \in 1 .. Len(stream) + 1 PROVE stream'[i] = Done + OneHalf + i
        BY <2>2 DEF From
      <4>1. CASE i \in 1 .. Len(stream)
        BY <2>2, <3>1, <4>1 DEF From
      <4>2. CASE i = Len(stream) + 1
        BY <1>2, <2>2, <2>3, <3>1, <4>2
      <4>3. QED BY <1>2, <4>1, <4>2
    <3>4. QED BY <1>1, <1>2, <2>2, <2>3, <3>1, <3>2, <3>3
  <2>10. QED BY <1>4, <2>5, <2>6, <2>7, <2>8, <2>9 DEF IInv
<1>6. CASE src # "on"
  <2>1. stream' = stream /\ calm' = FALSE
    BY <1>6 DEF Produce
  <2>2. TypeOK' /\ Lossless'
    <3>1. sent' \in 0 .. MaxPiece
      BY <1>1
    <3>2. QED BY <1>1, <2>1, <3>1 DEF IInv, TypeOK, Lossless
  <2>3. Shapes'
    BY <1>1, <1>2, <2>1 DEF IInv, Shapes
  <2>4. InOrder'
    <3>1. Halves' = Halves
      BY <1>1 DEF Halves, Live
    <3>2. \A q \in Range(out'[Port]) \union Range(batch') \union Halves' \union Range(stream') : q <= sent'
      BY <1>1, <1>3, <2>1, <3>1
    <3>3. QED BY <1>1, <2>1, <3>1, <3>2 DEF IInv, InOrder, Behind
  <2>5. InFrames'
    <3>1. Cut /\ ~lured /\ Live => Chain'
      BY <1>1, <1>6, <2>1 DEF IInv, InFrames, Chain
    <3>2. QED BY <1>1, <2>1, <3>1 DEF IInv, InFrames, Cut, Is, Live
  <2>6. QED BY <1>4, <2>2, <2>3, <2>4, <2>5 DEF IInv
<1>7. QED BY <1>5, <1>6

-----------------------------------------------------------------------------
(* Connect. *)
LEMMA ConnectStep ==
  ASSUME IInv, Connect
  PROVE  IInv'
<1>1. /\ src = "off" /\ src' = "on" /\ knock' = FALSE
      /\ stream' = <<>> /\ lured' = FALSE /\ buffer' = 0
      /\ sink' = IF Is(Forwarder) THEN [sink EXCEPT ![Port] = "on"] ELSE sink
      /\ UNCHANGED <<job, sent, batch, todo, took, out, from, calm>>
  BY DEF Connect, Connected
<1>2. /\ Port \in Sink /\ (\A c \in Client : c # Port) /\ Client \subseteq Sink
      /\ sent \in Nat /\ Len(took) \in Nat /\ Len(stream) \in Nat /\ Len(took) + Len(stream) <= sent
      /\ Done \in Nat /\ OneHalf \in Nat /\ Len(out[Port]) \in Nat
      /\ sink \in [Sink -> {"off", "waiting", "on", "stalled", "gone", "broken"}]
  BY Facts DEF IInv, Shapes, TypeOK
<1>3. /\ sink' \in [Sink -> {"off", "waiting", "on", "stalled", "gone", "broken"}]
      /\ \A c \in Client : sink'[c] = sink[c]
      /\ ~Is(Forwarder) => sink'[Port] = sink[Port]
  BY <1>1, <1>2
<1>4. Len(stream') = 0
  BY <1>1, NoPieces
<1>5. TypeOK'
  <2>1. buffer' \in 0 .. MaxPiece /\ Len(stream') <= MaxPiece
    BY <1>1, <1>4, SizeAssumption
  <2>2. QED BY <1>1, <1>3, <2>1 DEF IInv, TypeOK
<1>6. Shapes'
  <2>1. Len(took') + Len(stream') <= sent'
    BY <1>1, <1>2, <1>4
  <2>2. QED BY <1>1, <2>1, NoPieces DEF IInv, Shapes
<1>7. Roles'
  BY <1>1, <1>3 DEF IInv, Roles, Is
<1>8. InOrder'
  <2>1. UNCHANGED <<sent, batch>> /\ out'[Port] = out[Port] /\ stream' = <<>> /\ buffer' = 0
    BY <1>1
  <2>2. QED BY <2>1, OrderKept
<1>9. InFrames'
  <2>1. Chain' /\ batch' = <<>>
    BY <1>1 DEF Chain, IInv, Roles
  <2>2. QED BY <2>1, NoPieces DEF InFrames
<1>10. Lossless'
  <2> SUFFICES ASSUME calm, ~Is({"relay"})
               PROVE  /\ ~Is(Forwarder) => sink'[Port] = "on"
                      /\ From(0, out'[Port]) /\ From(Len(out'[Port]), batch')
                      /\ From(Done' + OneHalf', stream')
                      /\ Done' + OneHalf' + Len(stream') = sent'
                      /\ Is(Framed) => Done' % 2 = 0
    BY <1>1 DEF Lossless, Is
  <2>1. /\ sent = 0 /\ Done + OneHalf + Len(stream) = sent
        /\ ~Is(Forwarder) => sink[Port] = "on"
        /\ From(0, out[Port]) /\ From(Len(out[Port]), batch)
        /\ Is(Framed) => Done % 2 = 0
    BY <1>1 DEF IInv, Lossless
  <2>2. Done' = Done /\ OneHalf' = 0
    BY <1>1 DEF Done, OneHalf
  <2>3. Done = 0
    BY <1>2, <2>1
  <2>4. Done' + OneHalf' + Len(stream') = sent'
    BY <1>1, <1>4, <2>1, <2>2, <2>3
  <2>5. QED BY <1>1, <1>3, <2>1, <2>2, <2>4, NoPieces
<1>11. ClientsServed'
  <2>1. Served' = Served
    BY <1>3 DEF Served
  <2>2. QED BY <1>1, <2>1, ServedKept
<1>12. QED BY <1>5, <1>6, <1>7, <1>8, <1>9, <1>10, <1>11 DEF IInv

-----------------------------------------------------------------------------
(* A program with one output takes the next piece. *)
LEMMA PieceTaken ==
  ASSUME IInv, ~Is({"relay"}), stream # <<>>, stream' = Tail(stream),
         took' = Append(took, Head(stream)),
         out' \in [Sink -> Seq(Piece)],
         batch' \in Seq(Piece), Len(batch') < BatchPieces, ~Is({"tcp"}) => batch' = <<>>,
         buffer' \in 0 .. MaxPiece, ~Is(Framed) => buffer' = 0,
         sink' \in [Sink -> {"off", "waiting", "on", "stalled", "gone", "broken"}],
         \A c \in Client : sink'[c] = sink[c], Live, lured' \in BOOLEAN,
         UNCHANGED <<job, sent, src, knock, calm, todo, from>>
  PROVE  TypeOK' /\ Shapes' /\ Roles' /\ ClientsServed'
<1>1. /\ Piece \in SUBSET Nat /\ stream \in Seq(Piece) /\ took \in Seq(Piece) /\ sent \in Nat
      /\ sent <= MaxPiece /\ MaxPiece \in Nat
      /\ Len(took) \in Nat /\ Len(stream) \in Nat /\ Len(took) + Len(stream) <= sent
  BY Facts, SizeAssumption DEF IInv, Shapes, TypeOK
<1>2. /\ stream' \in Seq(Piece) /\ Len(stream') = Len(stream) - 1 /\ Len(stream) >= 1
      /\ Head(stream) \in Piece
  BY <1>1, Beheaded
<1>3. took' \in Seq(Piece) /\ Len(took') = Len(took) + 1
  BY <1>1, <1>2, Appended
<1>4. Len(took') + Len(stream') <= sent' /\ Len(stream') <= MaxPiece
  BY <1>1, <1>2, <1>3
<1>5. TypeOK'
  BY <1>4 DEF IInv, TypeOK
<1>6. Shapes'
  BY <1>2, <1>3, <1>4 DEF IInv, Shapes
<1>7. Roles'
  BY DEF IInv, Roles, Is, Live
<1>8. ClientsServed'
  <2>1. Served' = {} /\ todo' = {}
    BY DEF IInv, Roles, Served
  <2>2. QED BY <2>1 DEF ClientsServed, NoGap
<1>9. QED BY <1>5, <1>6, <1>7, <1>8

(* The chain that is left when its first piece is taken: a first half, or nothing
   that has begun. *)
LEMMA ChainTaken ==
  ASSUME IInv, Chain, stream # <<>>, stream' = Tail(stream),
         buffer' = 0 \/ (buffer = 0 /\ buffer' = Head(stream) /\ Head(stream) % 2 = 1),
         UNCHANGED <<sent, src>>
  PROVE  /\ Chain'
         /\ buffer # 0 => buffer % 2 = 1 /\ Head(stream) = buffer + 1
<1>1. /\ stream \in Seq(Piece) /\ Piece \in SUBSET Nat /\ Len(stream) \in Nat /\ buffer \in Nat
  BY Facts
<1>2. /\ stream' \in Seq(Piece) /\ Len(stream') = Len(stream) - 1 /\ Len(stream) >= 1
      /\ Head(stream) = stream[1]
      /\ \A i \in 1 .. Len(stream) - 1 : stream'[i] = stream[i + 1]
  BY <1>1, Beheaded
<1>3. /\ buffer # 0 => buffer % 2 = 1 /\ Head(stream) = buffer + 1
      /\ \A i \in 1 .. Len(stream) - 1 : stream[i + 1] = stream[i] + 1
      /\ src = "on" => stream[Len(stream)] = sent
  BY DEF Chain
<1>4. buffer' # 0 => buffer' % 2 = 1 /\ buffer' = Head(stream)
  OBVIOUS
<1>5. CASE Len(stream) = 1
  <2>1. stream' = <<>> /\ (src = "on" => Head(stream) = sent)
    <3>1. Len(stream') = 0
      BY <1>2, <1>5
    <3>2. stream' = <<>>
      BY <1>2, <3>1, EmptySeq
    <3>3. QED BY <1>2, <1>3, <1>5, <3>2
  <2>2. QED BY <1>3, <1>4, <2>1 DEF Chain
<1>6. CASE Len(stream) # 1
  <2>1. Len(stream') >= 1
    BY <1>1, <1>2, <1>6
  <2>2. stream' # <<>>
    <3>1. Len(<<>>) = 0
      BY NoPieces
    <3>2. QED BY <2>1, <3>1
  <2>3. Head(stream') = stream'[1] /\ stream'[1] = stream[2] /\ stream[2] = Head(stream) + 1
    <3>1. 1 \in 1 .. Len(stream) - 1
      BY <1>1, <1>2, <1>6
    <3>2. QED BY <1>2, <1>3, <2>2, <3>1
  <2>4. ASSUME NEW i \in 1 .. Len(stream') - 1 PROVE stream'[i + 1] = stream'[i] + 1
    <3>1. i \in 1 .. Len(stream) - 1 /\ i + 1 \in 1 .. Len(stream) - 1
      BY <1>1, <1>2
    <3>2. QED BY <1>2, <1>3, <3>1
  <2>5. src = "on" => stream'[Len(stream')] = sent
    <3>1. Len(stream') \in 1 .. Len(stream) - 1 /\ Len(stream') + 1 = Len(stream)
      BY <1>1, <1>2, <1>6
    <3>2. QED BY <1>2, <1>3, <3>1
  <2>6. buffer' # 0 => Head(stream') = buffer' + 1
    BY <1>4, <2>3
  <2>7. QED BY <1>3, <1>4, <2>2, <2>4, <2>5, <2>6 DEF Chain
<1>7. QED BY <1>5, <1>6

(* What is due when the next piece has been read. *)
LEMMA DueIs ==
  ASSUME IInv, ~Is({"relay"}), Live, stream # <<>>
  PROVE  LET d == Due(Head(stream)) IN
         /\ d \in Seq(Piece) /\ Rising(d)
         /\ Range(d) \subseteq Range(batch) \union Halves \union Range(stream)
         /\ Behind(Range(d), Range(Tail(stream)))
         /\ Cut /\ ~lured => Frames(d)
<1> DEFINE p == Head(stream)
           m == <<buffer, p>>
           t == Tail(stream)
<1>1. /\ Piece \in SUBSET Nat /\ stream \in Seq(Piece) /\ stream \in Seq(Nat)
      /\ batch \in Seq(Piece) /\ batch \in Seq(Nat) /\ buffer \in Nat
      /\ Rising(stream) /\ Rising(batch)
      /\ Behind(Range(batch), Halves \union Range(stream)) /\ Behind(Halves, Range(stream))
  BY Facts DEF IInv, InOrder
<1>2. p \in Piece /\ p \in Nat /\ p \in Range(stream) /\ Range(t) \subseteq Range(stream)
  BY <1>1, Beheaded
<1>3. \A q \in Range(t) : p < q
  BY <1>1, TailRises
<1>4. Cut /\ ~lured => /\ Frames(batch)
                       /\ buffer # 0 => buffer % 2 = 1 /\ p = buffer + 1
  BY DEF IInv, InFrames, Chain
<1>5. buffer # 0 => buffer \in Piece /\ Halves = {buffer} /\ buffer < p
  BY <1>1, <1>2, SizeAssumption DEF IInv, TypeOK, Halves, Behind, Piece
<1>6. buffer # 0 => /\ m \in Seq(Piece) /\ Range(m) = {buffer, p} /\ Rising(m)
                    /\ p = buffer + 1 /\ buffer % 2 = 1 => Frames(m)
  BY <1>2, <1>5, FrameOf
<1>7. Complete(p) = IF buffer = 0 THEN <<>> ELSE m
  BY DEF Complete
<1>8. /\ <<p>> \in Seq(Piece) /\ Range(<<p>>) = {p} /\ Rising(<<p>>)
      /\ <<>> \in Seq(Piece) /\ Range(<<>>) = {} /\ Rising(<<>>) /\ Frames(<<>>)
  BY <1>2, PieceAlone, NoPieces
<1> DEFINE b == batch \o m
<1>9. buffer # 0 => /\ b \in Seq(Piece) /\ Range(b) = Range(batch) \union {buffer, p}
                    /\ Rising(b) /\ (Cut /\ ~lured => Frames(b))
  <2> SUFFICES ASSUME buffer # 0
               PROVE  /\ b \in Seq(Piece) /\ Range(b) = Range(batch) \union {buffer, p}
                      /\ Rising(b) /\ (Cut /\ ~lured => Frames(b))
    OBVIOUS
  <2> HIDE DEF m
  <2>1. m \in Seq(Nat)
    BY <1>1, <1>6, SeqMonotonic
  <2>2. b \in Seq(Piece) /\ Range(b) = Range(batch) \union Range(m)
    BY <1>1, <1>6, Joined
  <2>3. \A x \in Range(batch), y \in Range(m) : x < y
    BY <1>1, <1>2, <1>5, <1>6 DEF Behind
  <2>4. Rising(b)
    BY <1>1, <1>6, <2>1, <2>3, JoinedRises
  <2>5. Cut /\ ~lured => Frames(b)
    BY <1>1, <1>4, <1>6, <2>1, FramesJoined
  <2>6. QED BY <1>6, <2>2, <2>4, <2>5
<1>10. Is({"tcp"}) => Len(batch) < BatchPieces /\ batch \o <<>> = batch
  BY <1>1, ConcatEmptySeq DEF IInv, TypeOK
<1> DEFINE d == Due(p)
<1>11. \/ d = <<p>> /\ ~Is(Framed)
       \/ d = <<>>
       \/ buffer # 0 /\ (d = m \/ d = b)
  <2>1. Len(batch) \in Nat /\ BatchPieces \in Nat
    BY <1>1, LenProperties, SizeAssumption
  <2> HIDE DEF p, m
  <2>2. QED BY <1>7, <1>10, <2>1 DEF Due
<1>12. Cut => Is(Framed)
  BY DEF Cut, Is, Framed
<1>13. \A q \in Range(t) : \A x \in Range(batch) \union Halves : x < q
  BY <1>1, <1>2 DEF Behind
<1> HIDE DEF d, b, m, p, t
<1>14. QED
  <2>1. CASE d = <<p>> /\ ~Is(Framed)
    BY <1>2, <1>3, <1>8, <1>12, <2>1 DEF Behind, d, p, t
  <2>2. CASE d = <<>>
    BY <1>8, <2>2 DEF Behind, d, p, t
  <2>3. CASE buffer # 0 /\ d = m
    BY <1>2, <1>3, <1>4, <1>5, <1>6, <1>13, <2>3 DEF Behind, d, p, t
  <2>4. CASE buffer # 0 /\ d = b
    BY <1>2, <1>3, <1>5, <1>9, <1>13, <2>4 DEF Behind, d, p, t
  <2>5. QED BY <1>11, <2>1, <2>2, <2>3, <2>4

(* The same when a write fails: the output has a part of it, in order. *)
LEMMA PartOfDue ==
  ASSUME IInv, ~Is({"relay"}), Live, stream # <<>>, Partly(Due(Head(stream))),
         stream' = <<>> \/ stream' = Tail(stream),
         batch' = <<>>, Halves' = {}, sent' = sent
  PROVE  InOrder' /\ out' \in [Sink -> Seq(Piece)] /\ \A c \in Client : out'[c] = out[c]
<1> DEFINE d == Due(Head(stream))
<1>1. /\ d \in Seq(Piece) /\ Rising(d)
      /\ Range(d) \subseteq Range(batch) \union Halves \union Range(stream)
      /\ Behind(Range(d), Range(Tail(stream))) /\ Partly(d)
  BY DueIs
<1> HIDE DEF d
<1>2. Behind(Range(d), Range(stream'))
  BY <1>1, NoPieces DEF Behind
<1>3. QED BY <1>1, <1>2, OrderOfPart

(* ScriptReopens: a calm script has a port that works. *)
LEMMA ReopenStep ==
  ASSUME IInv, ScriptReopens
  PROVE  IInv'
<1>1. /\ Is({"script"}) /\ ~Is({"relay"}) /\ ~Is({"tcp"}) /\ ~Is(Forwarder) /\ Is(Framed) /\ Cut
      /\ job.kind = "script"
      /\ src \in {"on", "eof"} /\ stream # <<>> /\ ~Writable
      /\ Due(Head(stream)) # <<>> /\ took' = Append(took, Head(stream))
      /\ Live /\ Partly(Due(Head(stream)))
      /\ UNCHANGED <<job, sent, batch, todo, from, calm>>
  BY DEF ScriptReopens, Ready, Is, Forwarder, Framed, Cut, Live
<1>2. ~calm
  BY <1>1 DEF IInv, Lossless, Writable
<1>3. buffer # 0
  BY <1>1 DEF Due, Complete
<1>4. /\ stream \in Seq(Piece) /\ batch \in Seq(Piece) /\ Port \in Sink
      /\ \A c \in Client : c # Port
      /\ sink \in [Sink -> {"off", "waiting", "on", "stalled", "gone", "broken"}]
      /\ Len(batch) < BatchPieces /\ lured \in BOOLEAN
  BY Facts DEF IInv, TypeOK, Shapes
<1>7. batch = <<>> /\ batch' = <<>>
  BY <1>1 DEF IInv, Roles
<1>8. stream' \in {<<>>, Tail(stream)} /\ Halves' = {} /\ (src' = "off" \/ buffer' = 0)
  BY DEF ScriptReopens, Closed, Halves, Live
<1>9. InOrder' /\ out' \in [Sink -> Seq(Piece)] /\ \A c \in Client : out'[c] = out[c]
  BY <1>1, <1>7, <1>8, PartOfDue
<1>5. CASE /\ sink' = [sink EXCEPT ![Port] = "on"]
           /\ stream' = Tail(stream) /\ buffer' = 0 /\ UNCHANGED <<src, knock, lured>>
  <2>1. /\ sink' \in [Sink -> {"off", "waiting", "on", "stalled", "gone", "broken"}]
        /\ \A c \in Client : sink'[c] = sink[c]
    BY <1>4, <1>5
  <2>2. buffer' \in 0 .. MaxPiece
    BY <1>5, SizeAssumption
  <2>3. ~Is({"tcp"}) => batch' = <<>>
    BY <1>1 DEF IInv, Roles
  <2>4. TypeOK' /\ Shapes' /\ Roles' /\ ClientsServed'
    BY <1>1, <1>4, <1>5, <1>9, <2>1, <2>2, <2>3, PieceTaken
  <2>6. InFrames'
    <3> SUFFICES ASSUME ~lured PROVE Frames(batch') /\ Chain'
      BY <1>5 DEF InFrames
    <3>1. Chain
      BY <1>1 DEF IInv, InFrames
    <3>2. Chain'
      BY <1>1, <1>5, <3>1, ChainTaken
    <3>3. QED BY <1>7, <3>2, NoPieces
  <2>8. Lossless'
    BY <1>1, <1>2 DEF Lossless
  <2>9. QED BY <1>9, <2>4, <2>6, <2>8 DEF IInv
<1>6. CASE Closed /\ UNCHANGED sink
  <2>1. src' = "off" /\ stream' = <<>> /\ UNCHANGED <<knock, lured, buffer>>
    BY <1>6 DEF Closed
  <2>2. calm' = FALSE /\ knock' \in BOOLEAN
    BY <1>1, <1>2, <2>1 DEF IInv, TypeOK
  <2>3. QED BY <1>1, <1>4, <1>6, <1>7, <1>9, <2>1, <2>2, LosingStep
<1>10. QED BY <1>5, <1>6 DEF ScriptReopens

(* Flush. *)
LEMMA FlushStep ==
  ASSUME IInv, Flush
  PROVE  IInv'
<1>1. /\ Is({"tcp"}) /\ Cut /\ ~Is({"relay"}) /\ Is(Framed) /\ Is(Forwarder)
      /\ out' = [out EXCEPT ![Port] = @ \o batch] /\ batch' = <<>>
      /\ UNCHANGED <<job, sent, src, knock, stream, lured, buffer, took, sink, todo, from, calm>>
  BY DEF Flush, inVars, Is, Cut, Framed, Forwarder
<1>2. /\ Port \in Sink /\ (\A c \in Client : c # Port) /\ Client \subseteq Sink
      /\ Piece \in SUBSET Nat
      /\ out[Port] \in Seq(Piece) /\ out[Port] \in Seq(Nat)
      /\ batch \in Seq(Piece) /\ batch \in Seq(Nat) /\ stream \in Seq(Piece)
      /\ Len(out[Port]) \in Nat /\ Len(batch) \in Nat /\ Len(stream) \in Nat
      /\ out \in [Sink -> Seq(Piece)]
  BY Facts DEF IInv, Shapes
<1>3. /\ out'[Port] = out[Port] \o batch /\ out'[Port] \in Seq(Piece)
      /\ Len(out'[Port]) = Len(out[Port]) + Len(batch)
      /\ Range(out'[Port]) = Range(out[Port]) \union Range(batch)
      /\ out' \in [Sink -> Seq(Piece)] /\ \A c \in Client : out'[c] = out[c]
  BY <1>1, <1>2, Joined
<1>4. Len(batch') = 0 /\ Range(batch') = {} /\ Rising(batch') /\ batch' \in Seq(Piece)
  BY <1>1, NoPieces
<1>5. TypeOK'
  BY <1>1, <1>4, SizeAssumption DEF IInv, TypeOK
<1>6. Shapes' /\ Roles'
  BY <1>1, <1>3, <1>4 DEF IInv, Shapes, Roles, Is
<1>7. InOrder'
  <2>1. Rising(out'[Port])
    BY <1>2, <1>3, JoinedRises DEF IInv, InOrder, Behind
  <2>2. Halves' = Halves
    BY <1>1 DEF Halves, Live
  <2>3. QED BY <1>1, <1>3, <1>4, <2>1, <2>2 DEF IInv, InOrder, Behind
<1>8. InFrames'
  BY <1>1, NoPieces DEF IInv, InFrames, Chain, Cut, Is, Live
<1>9. Lossless'
  <2>1. Done' = Done /\ OneHalf' = OneHalf
    BY <1>1, <1>2, <1>3, <1>4 DEF Done, OneHalf
  <2>2. calm => From(0, out'[Port]) /\ From(Len(out'[Port]), batch')
    <3>1. calm => From(0, out[Port]) /\ From(0 + Len(out[Port]), batch)
      BY <1>1, <1>2 DEF IInv, Lossless
    <3>2. calm => From(0, out'[Port])
      BY <1>2, <1>3, <3>1, JoinedCarriesOn
    <3>3. QED BY <1>1, <3>2, NoPieces
  <2>3. QED BY <1>1, <2>1, <2>2 DEF IInv, Lossless, Is
<1>10. ClientsServed'
  <2>1. Served' = {} /\ todo' = {}
    BY <1>1 DEF IInv, Roles, Served
  <2>2. QED BY <2>1 DEF ClientsServed, NoGap
<1>11. QED BY <1>5, <1>6, <1>7, <1>8, <1>9, <1>10 DEF IInv

-----------------------------------------------------------------------------
(* Pass: what becomes of the piece. *)

LEMMA PassMoves ==
  ASSUME IInv, Pass
  PROVE  LET p == Head(stream)
             o == out[Port]
             m == <<buffer, p>> IN
         /\ stream # <<>> /\ p \in Piece /\ stream' = Tail(stream) /\ took' = Append(took, p)
         /\ Live /\ lured' \in BOOLEAN /\ ~Is({"relay"})
         /\ UNCHANGED <<job, sent, src, knock, sink, todo, from, calm>>
         /\ out' \in [Sink -> Seq(Piece)] /\ \A c \in Client : out'[c] = out[c]
         /\ \/ /\ ~Is(Framed) /\ buffer = 0 /\ batch = <<>>
               /\ out'[Port] = o \o <<p>> /\ batch' = <<>> /\ buffer' = 0 /\ lured' = lured
            \/ /\ Is(Framed) /\ buffer = 0
               /\ out'[Port] = o /\ batch' = batch
               /\ \/ buffer' = 0 /\ p % 2 = 0 /\ lured' = lured
                  \/ buffer' = p /\ lured' = (lured \/ p % 2 = 0)
            \/ /\ Is(Framed) /\ buffer # 0 /\ m \in Seq(Piece) /\ buffer' = 0 /\ lured' = lured
               /\ \/ ~Is({"tcp"}) /\ batch = <<>> /\ out'[Port] = o \o m /\ batch' = <<>>
                  \/ Is({"tcp"}) /\ out'[Port] = o /\ batch' = batch \o m /\ Len(batch') < BatchPieces
                  \/ Is({"tcp"}) /\ out'[Port] = o \o (batch \o m) /\ batch' = <<>>
<1> DEFINE p == Head(stream)
           o == out[Port]
           m == <<buffer, p>>
<1>1. /\ stream # <<>> /\ stream' = Tail(stream) /\ took' = Append(took, p)
      /\ Live /\ lured' \in BOOLEAN /\ ~Is({"relay"})
      /\ UNCHANGED <<job, sent, src, knock, sink, todo, from, calm>>
      /\ IF Is(Framed) THEN Cuts(p) ELSE UNCHANGED <<buffer, lured>>
      /\ batch' = Batched(p)
      /\ out' = [out EXCEPT ![Port] = @ \o Due(p)]
  BY DEF Pass, Consume, Ready, Live, Cuts, IInv, TypeOK
<1>2. /\ Port \in Sink /\ (\A c \in Client : c # Port) /\ Client \subseteq Sink
      /\ stream \in Seq(Piece) /\ batch \in Seq(Piece) /\ o \in Seq(Piece)
      /\ out \in [Sink -> Seq(Piece)] /\ Piece \in SUBSET Nat
      /\ Len(batch) < BatchPieces /\ Len(batch) \in Nat /\ BatchPieces \in Nat
  BY Facts, SizeAssumption DEF IInv, Shapes, TypeOK
<1>3. p \in Piece
  BY <1>1, <1>2, Beheaded
<1>4. buffer # 0 => buffer \in Piece
  BY SizeAssumption DEF IInv, TypeOK, Piece
<1>5. batch \o <<>> = batch /\ o \o <<>> = o
  BY <1>2, ConcatEmptySeq
<1> HIDE DEF p, o
<1>6. buffer # 0 => m \in Seq(Piece) /\ batch \o m \in Seq(Piece)
  BY <1>2, <1>3, <1>4, Joined
<1>7. Complete(p) = IF buffer = 0 THEN <<>> ELSE m
  BY DEF Complete
<1> HIDE DEF m
<1>8. Is(Framed) => /\ buffer # 0 => buffer' = 0 /\ lured' = lured
                    /\ buffer = 0 => \/ buffer' = 0 /\ p % 2 = 0 /\ lured' = lured
                                     \/ buffer' = p /\ lured' = (lured \/ p % 2 = 0)
  BY <1>1 DEF Cuts
<1>9. Due(p) \in Seq(Piece) => /\ out' \in [Sink -> Seq(Piece)] /\ out'[Port] = o \o Due(p)
                               /\ \A c \in Client : out'[c] = out[c]
  <2> SUFFICES ASSUME Due(p) \in Seq(Piece)
               PROVE  /\ out' \in [Sink -> Seq(Piece)] /\ out'[Port] = o \o Due(p)
                      /\ \A c \in Client : out'[c] = out[c]
    OBVIOUS
  <2>1. o \o Due(p) \in Seq(Piece)
    BY <1>2, Joined
  <2>2. out' = [out EXCEPT ![Port] = o \o Due(p)]
    BY <1>1 DEF o
  <2>3. QED BY <1>2, <2>1, <2>2
<1>10. CASE ~Is(Framed)
  <2>1. Due(p) = <<p>> /\ <<p>> \in Seq(Piece) /\ ~Is({"tcp"})
    BY <1>3, <1>10 DEF Due, Is, Framed
  <2>2. batch' = <<>> /\ batch = <<>> /\ buffer = 0 /\ buffer' = 0 /\ lured' = lured
    BY <1>1, <1>10, <2>1 DEF Batched, IInv, Roles
  <2>3. QED BY <1>1, <1>3, <1>9, <1>10, <2>1, <2>2 DEF p, o
<1>11. CASE Is(Framed) /\ buffer = 0
  <2>1. Due(p) = <<>>
    BY <1>2, <1>5, <1>7, <1>11 DEF Due
  <2>2. batch' = batch
    BY <1>1, <1>5, <1>7, <1>11, <2>1 DEF Batched, IInv, Roles
  <2>3. \/ buffer' = 0 /\ p % 2 = 0 /\ lured' = lured
        \/ buffer' = p /\ lured' = (lured \/ p % 2 = 0)
    BY <1>8, <1>11
  <2>4. out'[Port] = o
    BY <1>5, <1>9, <2>1, NoPieces
  <2>5. QED BY <1>1, <1>3, <1>9, <1>11, <2>1, <2>2, <2>3, <2>4, NoPieces DEF p, o
<1>12. CASE Is(Framed) /\ buffer # 0
  <2>1. buffer' = 0 /\ lured' = lured /\ Complete(p) = m /\ m \in Seq(Piece) /\ batch \o m \in Seq(Piece)
    BY <1>1, <1>6, <1>7, <1>8, <1>12
  <2>2. CASE ~Is({"tcp"})
    <3>1. Due(p) = m /\ batch' = <<>> /\ batch = <<>>
      BY <1>1, <1>12, <2>1, <2>2 DEF Due, Batched, IInv, Roles
    <3>2. QED BY <1>1, <1>3, <1>9, <1>12, <2>1, <2>2, <3>1 DEF p, o, m
  <2>3. CASE Is({"tcp"}) /\ Len(batch \o m) >= BatchPieces
    <3>1. Due(p) = batch \o m
      BY <1>12, <2>1, <2>3 DEF Due
    <3>2. Due(p) # <<>>
      <4>1. Len(m) = 2
        BY <2>1 DEF m
      <4>2. Len(batch \o m) = Len(batch) + Len(m)
        BY <1>2, <2>1, Joined
      <4>3. QED BY <1>2, <3>1, <4>1, <4>2, NoPieces
    <3>3. batch' = <<>>
      BY <1>1, <3>2 DEF Batched
    <3>4. QED BY <1>1, <1>3, <1>9, <1>12, <2>1, <2>3, <3>1, <3>3 DEF p, o, m
  <2>4. CASE Is({"tcp"}) /\ ~(Len(batch \o m) >= BatchPieces)
    <3>1. Due(p) = <<>>
      BY <1>12, <2>1, <2>4 DEF Due
    <3>2. batch' = batch \o m /\ Len(batch') < BatchPieces
      <4>1. Len(batch \o m) \in Nat
        BY <2>1, LenProperties
      <4>2. QED BY <1>1, <1>2, <2>1, <2>4, <3>1, <4>1 DEF Batched
    <3>3. out'[Port] = o
      BY <1>5, <1>9, <3>1, NoPieces
    <3>4. QED BY <1>1, <1>3, <1>9, <1>12, <2>1, <2>4, <3>1, <3>2, <3>3, NoPieces DEF p, o, m
  <2>5. QED BY <2>2, <2>3, <2>4
<1>13. QED BY <1>10, <1>11, <1>12

LEMMA PassStep ==
  ASSUME IInv, Pass
  PROVE  IInv'
<1> DEFINE p == Head(stream)
           o == out[Port]
           m == <<buffer, p>>
<1>1. /\ stream # <<>> /\ p \in Piece /\ stream' = Tail(stream) /\ took' = Append(took, p)
      /\ Live /\ lured' \in BOOLEAN /\ ~Is({"relay"})
      /\ UNCHANGED <<job, sent, src, knock, sink, todo, from, calm>>
      /\ out' \in [Sink -> Seq(Piece)] /\ \A c \in Client : out'[c] = out[c]
  BY PassMoves
<1>2. /\ Piece \in SUBSET Nat /\ buffer \in Nat /\ p \in Nat /\ p \in Range(stream)
      /\ o \in Seq(Piece) /\ o \in Seq(Nat) /\ batch \in Seq(Piece) /\ batch \in Seq(Nat)
      /\ stream \in Seq(Nat) /\ Len(stream) \in Nat /\ Len(o) \in Nat /\ Len(batch) \in Nat
      /\ Len(Tail(stream)) = Len(stream) - 1
  BY <1>1, Facts, Beheaded
<1>3. /\ Rising(Tail(stream)) /\ Range(Tail(stream)) \subseteq Range(stream)
      /\ \A q \in Range(Tail(stream)) : p < q
  BY <1>1, <1>2, Beheaded, TailRises DEF IInv, InOrder
<1>4. buffer # 0 => buffer \in Piece /\ buffer \in Halves /\ buffer < p
  BY <1>1, <1>2, SizeAssumption DEF IInv, TypeOK, InOrder, Halves, Behind, Piece
<1>5. sink \in [Sink -> {"off", "waiting", "on", "stalled", "gone", "broken"}]
  BY DEF IInv, TypeOK
<1>6. p \in 0 .. MaxPiece /\ p # 0
  BY <1>1, SizeAssumption DEF Piece
<1>7. Cut /\ ~lured => Chain /\ Frames(batch)
  BY <1>1 DEF IInv, InFrames
<1>23. (Cut => Is(Framed)) /\ (Cut' <=> Cut) /\ (Live' <=> Live)
  BY <1>1 DEF Cut, Is, Framed, Live
<1>8. /\ \A q \in Range(o) \union Range(batch) \union Halves : q < p
      /\ \A q \in Range(o) \union Range(batch) \union Halves \union Range(stream) : q <= sent
      /\ Rising(o) /\ Rising(batch)
      /\ Behind(Range(o), Range(batch) \union Halves \union Range(stream))
      /\ Behind(Range(batch), Halves \union Range(stream)) /\ Behind(Halves, Range(stream))
  BY <1>2 DEF IInv, InOrder, Behind
<1>9. calm => /\ src \in {"off", "on"} /\ (src = "off" => sent = 0)
              /\ ~Is(Forwarder) => sink[Port] = "on"
              /\ From(0, o) /\ From(Len(o), batch)
              /\ buffer # 0 => buffer = Done + 1
              /\ p = Done + OneHalf + 1 /\ From(Done + OneHalf + 1, stream')
              /\ Done + OneHalf + Len(stream) = sent
              /\ Is(Framed) => Done % 2 = 0
              /\ Done \in Nat /\ OneHalf \in Nat
  <2> SUFFICES ASSUME calm
               PROVE  p = Done + OneHalf + 1 /\ From(Done + OneHalf + 1, stream')
    BY <1>1, Facts DEF IInv, Lossless
  <2>1. From(Done + OneHalf, stream) /\ Done \in Nat /\ OneHalf \in Nat /\ Done + OneHalf \in Nat
    BY SMTT(30), <1>1, Facts DEF IInv, Lossless
  <2>2. QED BY <1>1, <1>2, <2>1, TailCarriesOn
<1>10. calm => Len(stream') = Len(stream) - 1
  BY <1>1, <1>2
<1>20. TypeOK' /\ Shapes' /\ Roles' /\ ClientsServed'
  <2>1. /\ batch' \in Seq(Piece) /\ Len(batch') < BatchPieces /\ (~Is({"tcp"}) => batch' = <<>>)
        /\ buffer' \in {0, p} /\ (~Is(Framed) => buffer' = 0)
    <3>1. Len(batch) < BatchPieces /\ 0 < BatchPieces /\ (~Is({"tcp"}) => batch = <<>>)
      BY SizeAssumption DEF IInv, TypeOK, Roles
    <3>2. \A b \in Seq(Piece), n \in Seq(Piece) : b \o n \in Seq(Piece)
      BY Joined
    <3> HIDE DEF p, o
    <3>3. QED BY <1>2, <3>1, <3>2, PassMoves, NoPieces DEF p, o
  <2>2. buffer' \in 0 .. MaxPiece
    BY <1>6, <2>1, SizeAssumption
  <2>3. QED BY <1>1, <1>5, <2>1, <2>2, PieceTaken
<1>21. ASSUME calm => /\ From(0, out'[Port]) /\ From(Len(out'[Port]), batch')
                      /\ Done' + OneHalf' = Done + OneHalf + 1
                      /\ buffer' # 0 => buffer' = Done' + 1
                      /\ Is(Framed) => Done' % 2 = 0
       PROVE  Lossless'
  <2> SUFFICES ASSUME calm
               PROVE  /\ src' \in {"off", "on"} /\ (src' = "off" => sent' = 0)
                      /\ ~Is(Forwarder) => sink'[Port] = "on"
                      /\ From(0, out'[Port]) /\ From(Len(out'[Port]), batch')
                      /\ buffer' # 0 => buffer' = Done' + 1
                      /\ From(Done' + OneHalf', stream')
                      /\ Done' + OneHalf' + Len(stream') = sent'
                      /\ Is(Framed) => Done' % 2 = 0
    BY <1>1 DEF Lossless, Is
  <2>1. /\ From(0, out'[Port]) /\ From(Len(out'[Port]), batch')
        /\ Done' + OneHalf' = Done + OneHalf + 1
        /\ buffer' # 0 => buffer' = Done' + 1
        /\ Is(Framed) => Done' % 2 = 0
    BY <1>21
  <2>2. From(Done' + OneHalf', stream')
    BY <1>9, <2>1
  <2>3. Done' + OneHalf' + Len(stream') = sent'
    <3>1. Done + OneHalf + Len(stream) = sent /\ Done \in Nat /\ OneHalf \in Nat
      BY <1>9
    <3>2. Len(stream') = Len(stream) - 1 /\ Len(stream) \in Nat /\ sent' = sent
      BY <1>1, <1>2, <1>10
    <3>3. QED BY <2>1, <3>1, <3>2
  <2>4. QED BY <1>1, <1>9, <2>1, <2>2, <2>3
<1>22. o \in Seq(Nat) /\ batch \in Seq(Nat) /\ Len(o) \in Nat /\ Len(batch) \in Nat
  BY <1>2
<1>11. CASE /\ ~Is(Framed) /\ buffer = 0 /\ batch = <<>>
            /\ out'[Port] = o \o <<p>> /\ batch' = <<>> /\ buffer' = 0
  <2>1. /\ <<p>> \in Seq(Nat) /\ Range(<<p>>) = {p} /\ Rising(<<p>>) /\ Len(<<p>>) = 1
        /\ \A n \in Nat : p = n + 1 => From(n, <<p>>)
    BY <1>1, <1>2, PieceAlone, SeqMonotonic
  <2>2. /\ Range(out'[Port]) = Range(o) \union {p} /\ Len(out'[Port]) = Len(o) + 1
    <3>1. Range(o \o <<p>>) = Range(o) \union Range(<<p>>) /\ Len(o \o <<p>>) = Len(o) + Len(<<p>>)
      <4> HIDE DEF p, o
      <4> QED BY ZenonT(30), <1>2, <2>1, Joined
    <3>2. QED BY <1>11, <2>1, <3>1
  <2>3. Rising(out'[Port])
    BY <1>2, <1>8, <1>11, <2>1, JoinedRises
  <2>4. Halves' = {} /\ Range(batch') = {} /\ Rising(batch') /\ Len(batch') = 0 /\ Len(batch) = 0
    BY <1>11, NoPieces DEF Halves
  <2>5. InOrder'
    <3> HIDE DEF p, o
    <3> QED BY <1>1, <1>2, <1>3, <1>8, <2>2, <2>3, <2>4 DEF InOrder, Behind
  <2>6. InFrames'
    BY <1>11, <1>23 DEF InFrames
  <2>7. Lossless'
    <3>1. Done = Len(o) /\ Done' = Len(o) + 1 /\ OneHalf' = 0 /\ OneHalf = 0
      <4>1. Len(o) \in Nat
        BY <1>22
      <4>2. QED BY <1>11, <2>2, <2>4, <4>1 DEF Done, OneHalf
    <3>2. calm => p = Len(o) + 1
      BY <1>9, <1>22, <3>1
    <3>3. calm => From(0 + Len(o), <<p>>)
      BY <1>22, <2>1, <3>2
    <3>4. calm => From(0, out'[Port])
      BY <1>9, <1>11, <1>22, <2>1, <3>3, JoinedCarriesOn
    <3>5. calm => From(Len(out'[Port]), batch')
      BY <1>11, NoPieces
    <3>6. Done' + OneHalf' = Done + OneHalf + 1
      BY <1>22, <3>1
    <3>7. QED BY <1>11, <1>21, <3>4, <3>5, <3>6
  <2>8. QED BY <1>20, <2>5, <2>6, <2>7 DEF IInv
<1>12. CASE /\ Is(Framed) /\ buffer = 0
            /\ out'[Port] = o /\ batch' = batch
            /\ \/ buffer' = 0 /\ p % 2 = 0 /\ lured' = lured
               \/ buffer' = p /\ lured' = (lured \/ p % 2 = 0)
  <2>1. Halves' \subseteq {p}
    BY <1>12 DEF Halves
  <2>2. InOrder'
    <3> HIDE DEF p, o
    <3> QED BY <1>1, <1>2, <1>3, <1>8, <1>12, <2>1 DEF InOrder, Behind
  <2>3. InFrames'
    <3> SUFFICES ASSUME Cut, ~lured' PROVE Frames(batch') /\ Chain'
      BY <1>23 DEF InFrames
    <3>1. ~lured /\ (buffer' = 0 \/ (buffer' = p /\ p % 2 = 1))
      <4>1. p % 2 = 0 \/ p % 2 = 1
        BY <1>2, Parity
      <4>2. lured \in BOOLEAN /\ lured' \in BOOLEAN
        BY <1>1 DEF IInv, TypeOK
      <4>3. CASE buffer' = p /\ lured' = (lured \/ p % 2 = 0)
        BY <4>1, <4>2, <4>3
      <4>4. QED BY <1>12, <4>3
    <3>2. Chain'
      BY <1>1, <1>7, <1>12, <3>1, ChainTaken
    <3>3. QED BY <1>7, <1>12, <3>1, <3>2
  <2>4. Lossless'
    <3>1. Done' = Done /\ OneHalf = 0
      BY <1>12 DEF Done, OneHalf
    <3>2. calm => p = Done + 1 /\ Done % 2 = 0 /\ Done \in Nat
      BY <1>9, <1>12, <3>1
    <3>3. calm => p % 2 = 1
      BY <3>2, Parity
    <3>4. calm => buffer' = p /\ OneHalf' = 1
      BY <1>6, <1>12, <3>3 DEF OneHalf
    <3>5. QED BY <1>9, <1>12, <1>21, <3>1, <3>2, <3>4
  <2>5. QED BY <1>20, <2>2, <2>3, <2>4 DEF IInv
<1>13. CASE /\ Is(Framed) /\ buffer # 0 /\ m \in Seq(Piece) /\ buffer' = 0 /\ lured' = lured
            /\ \/ ~Is({"tcp"}) /\ batch = <<>> /\ out'[Port] = o \o m /\ batch' = <<>>
               \/ Is({"tcp"}) /\ out'[Port] = o /\ batch' = batch \o m
               \/ Is({"tcp"}) /\ out'[Port] = o \o (batch \o m) /\ batch' = <<>>
  <2>1. /\ m \in Seq(Nat) /\ Range(m) = {buffer, p} /\ Len(m) = 2 /\ Rising(m)
        /\ p = buffer + 1 => \A n \in Nat : buffer = n + 1 => From(n, m)
        /\ p = buffer + 1 /\ buffer % 2 = 1 => Frames(m)
    BY <1>1, <1>2, <1>4, <1>13, FrameOf, SeqMonotonic
  <2>2. Halves' = {} /\ Halves = {buffer} /\ OneHalf' = 0 /\ OneHalf = 1
    BY <1>1, <1>13 DEF Halves, OneHalf
  <2>3. Cut /\ ~lured => Chain' /\ Frames(batch) /\ Frames(m)
    <3> SUFFICES ASSUME Cut, ~lured PROVE Chain' /\ Frames(batch) /\ Frames(m)
      OBVIOUS
    <3>1. Chain' /\ p = buffer + 1 /\ buffer % 2 = 1
      BY <1>1, <1>7, <1>13, ChainTaken
    <3>2. QED BY <1>7, <2>1, <3>1
  <2>4. calm => p = buffer + 1 /\ buffer = Done + 1 /\ Done = Len(o) + Len(batch)
    BY <1>2, <1>9, <1>13, <2>2 DEF Done
  <2>5. calm => From(Len(o) + Len(batch), m)
    <3>1. Len(o) + Len(batch) \in Nat
      BY <1>2
    <3> HIDE DEF p, o, m
    <3>2. QED BY <2>1, <2>4, <3>1
  <2> HIDE DEF m
  <2>6. batch \o m \in Seq(Nat) /\ Len(batch \o m) = Len(batch) + 2
        /\ Range(batch \o m) = Range(batch) \union {buffer, p} /\ Rising(batch \o m)
    <3>1. \A q \in Range(batch), r \in {buffer, p} : q < r
      BY <1>8, <2>2 DEF Behind
    <3> HIDE DEF p, o
    <3>2. Rising(batch) /\ Rising(m)
      BY <1>8, <2>1
    <3>3. Rising(batch \o m)
      BY <1>22, <2>1, <3>1, <3>2, JoinedRises
    <3>4. /\ Range(batch \o m) = Range(batch) \union Range(m) /\ batch \o m \in Seq(Nat)
          /\ Len(batch \o m) = Len(batch) + Len(m)
      BY ZenonT(30), <1>22, <2>1, Joined
    <3>5. QED BY <2>1, <3>3, <3>4
  <2>7. Cut /\ ~lured => Frames(batch \o m)
    BY <1>2, <2>1, <2>3, FramesJoined
  <2>8. calm => From(Len(o), batch \o m)
    BY <1>2, <1>9, <2>1, <2>5, JoinedCarriesOn
  <2>9. \A q \in Range(o), r \in Range(batch) \union {buffer, p} : q < r
    BY <1>8, <2>2 DEF Behind
  <2>10. CASE ~Is({"tcp"}) /\ batch = <<>> /\ out'[Port] = o \o m /\ batch' = <<>>
    <3>1. /\ Len(batch') = 0 /\ Len(batch) = 0 /\ Range(batch') = {} /\ Rising(batch')
          /\ (\A n : From(n, batch')) /\ Frames(batch')
      BY <2>10, NoPieces
    <3>2. Len(out'[Port]) = Len(o) + 2 /\ Range(out'[Port]) = Range(o) \union {buffer, p}
      <4> HIDE DEF p, o
      <4>1. Range(o \o m) = Range(o) \union Range(m) /\ Len(o \o m) = Len(o) + Len(m)
        BY <1>22, <2>1, Joined
      <4>2. QED BY <2>1, <2>10, <4>1
    <3>3. Rising(out'[Port])
      BY <1>2, <1>8, <2>1, <2>9, <2>10, JoinedRises
    <3>4. InOrder'
      <4> HIDE DEF p, o
      <4> QED BY <1>1, <1>2, <1>3, <1>4, <1>8, <2>2, <3>1, <3>2, <3>3 DEF InOrder, Behind
    <3>5. InFrames'
      BY <1>13, <1>23, <2>3, <3>1 DEF InFrames
    <3>6. Lossless'
      <4>1. Done' = Done + 2
        BY <1>22, <3>1, <3>2 DEF Done
      <4>2. calm => From(0, out'[Port])
        <5>1. calm => From(0 + Len(o), m) /\ From(0, o)
          BY <1>9, <1>22, <2>5, <3>1
        <5> HIDE DEF p, o
        <5>2. QED BY <1>22, <2>1, <2>10, <5>1, JoinedCarriesOn
      <4>3. calm => (Done + 2) % 2 = 0
        BY <1>9, <1>13, Parity
      <4>4. calm => Done \in Nat /\ From(Len(out'[Port]), batch')
        BY <1>9, <3>1
      <4>5. QED BY <1>13, <1>21, <2>2, <4>1, <4>2, <4>3, <4>4
    <3>7. QED BY <1>20, <3>4, <3>5, <3>6 DEF IInv
  <2>11. CASE Is({"tcp"}) /\ out'[Port] = o /\ batch' = batch \o m
    <3>1. InOrder'
      <4> HIDE DEF p, o
      <4> QED BY <1>1, <1>2, <1>3, <1>4, <1>8, <2>2, <2>6, <2>9, <2>11 DEF InOrder, Behind
    <3>2. InFrames'
      BY <1>13, <1>23, <2>3, <2>7, <2>11 DEF InFrames
    <3>3. Lossless'
      <4>1. Done' = Done + 2
        <5>1. Len(o) \in Nat /\ Len(batch) \in Nat
          BY <1>22
        <5>2. Done' = Len(o) + Len(batch \o m) /\ Done = Len(o) + Len(batch)
          BY <2>11 DEF Done
        <5> HIDE DEF o, p
        <5>3. QED BY <2>6, <5>1, <5>2
      <4>2. calm => (Done + 2) % 2 = 0
        BY <1>9, <1>13, Parity
      <4>3. calm => Done \in Nat /\ From(0, out'[Port]) /\ From(Len(out'[Port]), batch')
        BY <1>9, <2>8, <2>11
      <4>4. QED BY <1>13, <1>21, <2>2, <4>1, <4>2, <4>3
    <3>4. QED BY <1>20, <3>1, <3>2, <3>3 DEF IInv
  <2>12. CASE Is({"tcp"}) /\ out'[Port] = o \o (batch \o m) /\ batch' = <<>>
    <3>1. /\ Len(batch') = 0 /\ Range(batch') = {} /\ Rising(batch')
          /\ (\A n : From(n, batch')) /\ Frames(batch')
      BY <2>12, NoPieces
    <3>2. /\ Len(out'[Port]) = Len(o) + (Len(batch) + 2)
          /\ Range(out'[Port]) = Range(o) \union (Range(batch) \union {buffer, p})
      <4> HIDE DEF p, o
      <4> DEFINE n == batch \o m
      <4>1. n \in Seq(Nat) /\ Len(n) = Len(batch) + 2 /\ Range(n) = Range(batch) \union {buffer, p}
        BY <2>6
      <4> HIDE DEF n
      <4>2. Range(o \o n) = Range(o) \union Range(n) /\ Len(o \o n) = Len(o) + Len(n)
        BY ZenonT(30), <1>22, <4>1, Joined
      <4>3. QED BY <2>12, <4>1, <4>2 DEF n
    <3>3. Rising(out'[Port])
      BY <1>2, <1>8, <2>6, <2>9, <2>12, JoinedRises
    <3>4. InOrder'
      <4> HIDE DEF p, o
      <4> QED BY <1>1, <1>2, <1>3, <1>4, <1>8, <2>2, <3>1, <3>2, <3>3 DEF InOrder, Behind
    <3>5. InFrames'
      BY <1>13, <1>23, <2>3, <3>1 DEF InFrames
    <3>6. Lossless'
      <4>1. Done' = Done + 2
        <5>1. Len(o) \in Nat /\ Len(batch) \in Nat
          BY <1>22
        <5>2. Done' = Len(out'[Port]) + Len(batch') /\ Done = Len(o) + Len(batch)
          BY DEF Done
        <5> HIDE DEF o, p
        <5>3. QED BY <3>1, <3>2, <5>1, <5>2
      <4>2. calm => From(0, out'[Port])
        <5>1. calm => From(0 + Len(o), batch \o m) /\ From(0, o)
          BY <1>9, <1>22, <2>8
        <5> HIDE DEF p, o
        <5>2. QED BY <1>22, <2>6, <2>12, <5>1, JoinedCarriesOn
      <4>3. calm => (Done + 2) % 2 = 0
        BY <1>9, <1>13, Parity
      <4>4. calm => Done \in Nat /\ From(Len(out'[Port]), batch')
        BY <1>9, <3>1
      <4>5. QED BY <1>13, <1>21, <2>2, <4>1, <4>2, <4>3, <4>4
    <3>7. QED BY <1>20, <3>4, <3>5, <3>6 DEF IInv
  <2>13. QED BY <1>13, <2>10, <2>11, <2>12
<1>14. QED
  <2> HIDE DEF m, o, p
  <2> QED BY PassMoves, <1>11, <1>12, <1>13 DEF m, o, p

-----------------------------------------------------------------------------
(* ntrip_relay. *)

LEMMA PartKept ==
  ASSUME NEW S, NEW s \in Seq(S), NEW e \in S, NEW k \in 1 .. Len(s) + 1
  PROVE  SubSeq(Append(s, e), k, Len(s)) = SubSeq(s, k, Len(s))
<1> DEFINE a == Append(s, e)
<1>1. /\ Len(s) \in Nat /\ \A i \in 1 .. Len(s) : a[i] = s[i] /\ s[i] \in S /\ a[i] \in S
  BY LenProperties, AppendProperties, ElementOfSeq
<1> HIDE DEF a
<1>2. /\ k \in Int /\ Len(s) \in Int /\ k \in Nat /\ k >= 1
      /\ \A i \in k .. Len(s) : s[i] \in S /\ a[i] \in S
  BY <1>1
<1>3. /\ SubSeq(s, k, Len(s)) \in Seq(S)
      /\ Len(SubSeq(s, k, Len(s))) = IF k <= Len(s) THEN Len(s) - k + 1 ELSE 0
      /\ \A i \in 1 .. Len(s) - k + 1 : SubSeq(s, k, Len(s))[i] = s[k + i - 1]
  BY <1>2, SubSeqProperties
<1>4. /\ SubSeq(a, k, Len(s)) \in Seq(S)
      /\ Len(SubSeq(a, k, Len(s))) = IF k <= Len(s) THEN Len(s) - k + 1 ELSE 0
      /\ \A i \in 1 .. Len(s) - k + 1 : SubSeq(a, k, Len(s))[i] = a[k + i - 1]
  BY <1>2, SubSeqProperties
<1> DEFINE u == SubSeq(s, k, Len(s))
           v == SubSeq(a, k, Len(s))
<1>5. /\ u \in Seq(S) /\ v \in Seq(S) /\ Len(u) = Len(v)
      /\ Len(u) = IF k <= Len(s) THEN Len(s) - k + 1 ELSE 0
      /\ \A i \in 1 .. Len(s) - k + 1 : u[i] = s[k + i - 1] /\ v[i] = a[k + i - 1]
  BY <1>3, <1>4
<1> HIDE DEF u, v
<1>6. \A i \in 1 .. Len(u) : u[i] = v[i]
  <2> SUFFICES ASSUME NEW i \in 1 .. Len(u) PROVE u[i] = v[i]
    OBVIOUS
  <2>1. i \in 1 .. Len(s) - k + 1 /\ k + i - 1 \in 1 .. Len(s)
    BY <1>1, <1>2, <1>5
  <2>2. QED BY <1>1, <1>5, <2>1
<1>7. u = v
  BY <1>5, <1>6, SeqEqual
<1>8. QED BY <1>7 DEF u, v, a

LEMMA PartGrows ==
  ASSUME NEW S, NEW s \in Seq(S), NEW k \in 1 .. Len(s)
  PROVE  Append(SubSeq(s, k, Len(s) - 1), s[Len(s)]) = SubSeq(s, k, Len(s))
<1>1. Len(s) \in Nat /\ Len(s) \in k .. Len(s) /\ k \in Int /\ Len(s) - 1 \in Int /\ s[Len(s)] \in S
  BY LenProperties, ElementOfSeq
<1>2. \A i \in k .. Len(s) - 1 : s[i] \in S
  BY <1>1, ElementOfSeq
<1>3. SubSeq(s, k, Len(s) - 1) \in Seq(S)
  BY <1>1, <1>2, SubSeqProperties
<1>4. SubSeq(s, k, Len(s)) = SubSeq(s, k, Len(s) - 1) \o <<s[Len(s)]>>
  BY <1>1, SubSeqRecursiveSecond
<1>5. QED BY <1>1, <1>3, <1>4, AppendIsConcat

(* A step of the relay that takes nothing from the stream. *)
LEMMA RelayStep ==
  ASSUME IInv, Is({"relay"}),
         out' \in [Sink -> Seq(Piece)], out'[Port] = out[Port],
         sink' \in [Sink -> {"off", "waiting", "on", "stalled", "gone", "broken"}],
         todo' \subseteq Client, from' \in [Sink -> 0 .. MaxPiece], ClientsServed',
         UNCHANGED <<job, sent, inVars, batch, calm>>
  PROVE  IInv'
<1>1. UNCHANGED <<src, knock, stream, lured, buffer, took>>
  BY DEF inVars
<1>2. TypeOK' /\ Shapes' /\ Roles'
  BY <1>1 DEF IInv, TypeOK, Shapes, Roles, Is
<1>3. InOrder'
  BY <1>1, OrderKept DEF Live
<1>4. InFrames' /\ Lossless'
  BY DEF InFrames, Lossless, Cut, Is
<1>5. QED BY <1>2, <1>3, <1>4 DEF IInv

LEMMA FetchStep ==
  ASSUME IInv, Fetch
  PROVE  IInv'
<1> DEFINE p == Head(stream)
<1>1. /\ Is({"relay"}) /\ stream # <<>> /\ stream' = Tail(stream) /\ took' = Append(took, p)
      /\ todo = {} /\ todo' = Served
      /\ UNCHANGED <<job, sent, src, knock, lured, buffer, batch, sink, out, from, calm>>
  BY DEF Fetch, Ready
<1>2. /\ Piece \in SUBSET Nat /\ stream \in Seq(Piece) /\ took \in Seq(Piece) /\ sent \in Nat
      /\ sent <= MaxPiece /\ MaxPiece \in Nat /\ Client \subseteq Sink
      /\ Len(took) \in Nat /\ Len(stream) \in Nat /\ Len(took) + Len(stream) <= sent
  BY Facts, SizeAssumption DEF IInv, Shapes, TypeOK
<1>3. /\ stream' \in Seq(Piece) /\ Len(stream') = Len(stream) - 1 /\ Len(stream) >= 1
      /\ p \in Piece
  BY <1>1, <1>2, Beheaded
<1> HIDE DEF p
<1>4. took' \in Seq(Piece) /\ Len(took') = Len(took) + 1
  BY <1>1, <1>2, <1>3, Appended
<1>5. Len(took') + Len(stream') <= sent' /\ Len(stream') <= MaxPiece
  BY <1>1, <1>2, <1>3, <1>4
<1>6. todo' \subseteq Client
  BY <1>1 DEF Served
<1>7. TypeOK' /\ Shapes' /\ Roles'
  BY <1>1, <1>3, <1>4, <1>5, <1>6 DEF IInv, TypeOK, Shapes, Roles, Is
<1>8. InOrder'
  BY <1>1, OrderKept DEF Live
<1>9. InFrames' /\ Lossless'
  BY <1>1 DEF InFrames, Lossless, Cut, Is
<1>10. ClientsServed'
  <2>1. Served' = Served
    BY <1>1 DEF Served
  <2>2. ASSUME NEW c \in Served
        PROVE  /\ from'[c] + Behindhand(c)' <= Len(took')
               /\ out'[c] = SubSeq(took', from'[c] + 1, Len(took') - IF c \in todo' THEN 1 ELSE 0)
    <3>1. c \in todo' /\ c \notin todo /\ c \in Sink
      BY <1>1, <1>2 DEF Served
    <3>2. from[c] \in Nat /\ from[c] <= Len(took)
      <4>1. from[c] + 0 <= Len(took)
        BY <3>1 DEF IInv, ClientsServed, Behindhand
      <4>2. from[c] \in 0 .. MaxPiece
        BY <3>1 DEF IInv, TypeOK
      <4>3. QED BY <4>1, <4>2
    <3>3. out[c] = SubSeq(took, from[c] + 1, Len(took))
      <4>1. out[c] = SubSeq(took, from[c] + 1, Len(took) - 0)
        BY <3>1 DEF IInv, ClientsServed, NoGap
      <4>2. Len(took) - 0 = Len(took)
        BY <1>2
      <4>3. QED BY <4>1, <4>2
    <3>4. SubSeq(took', from[c] + 1, Len(took)) = SubSeq(took, from[c] + 1, Len(took))
      <4>1. from[c] + 1 \in 1 .. Len(took) + 1
        BY <1>2, <3>2
      <4>2. QED BY <1>1, <1>2, <1>3, <4>1, PartKept
    <3>5. Len(took') - 1 = Len(took)
      BY <1>2, <1>4
    <3>6. from'[c] + 1 <= Len(took')
      BY <1>1, <1>2, <1>4, <3>2
    <3>7. QED BY <1>1, <3>1, <3>3, <3>4, <3>5, <3>6 DEF Behindhand
  <2>3. QED BY <1>1, <2>1, <2>2 DEF ClientsServed, NoGap
<1>11. QED BY <1>7, <1>8, <1>9, <1>10 DEF IInv

LEMMA SendAllStep ==
  ASSUME IInv, NEW c \in Client, SendAll(c)
  PROVE  IInv'
<1> DEFINE p == took[Len(took)]
<1>1. /\ c \in todo /\ out' = [out EXCEPT ![c] = Append(@, p)] /\ todo' = todo \ {c}
      /\ UNCHANGED <<job, sent, inVars, batch, sink, from, calm>>
  BY DEF SendAll
<1>2. took' = took
  BY <1>1 DEF inVars
<1>3. Is({"relay"}) /\ c \in Served
  BY <1>1 DEF IInv, Roles, ClientsServed
<1>4. /\ Port \in Sink /\ c \in Sink /\ c # Port /\ Client \subseteq Sink
      /\ took \in Seq(Piece) /\ Len(took) \in Nat /\ out \in [Sink -> Seq(Piece)]
      /\ from \in [Sink -> 0 .. MaxPiece] /\ todo \subseteq Client
      /\ sink \in [Sink -> {"off", "waiting", "on", "stalled", "gone", "broken"}]
  BY Facts DEF IInv, Shapes, TypeOK
<1>5. from[c] \in Nat /\ from[c] + 1 \in 1 .. Len(took)
  <2>1. from[c] + 1 <= Len(took)
    BY <1>1, <1>3 DEF IInv, ClientsServed, Behindhand
  <2>2. from[c] \in 0 .. MaxPiece
    BY <1>4
  <2>3. QED BY <1>4, <2>1, <2>2
<1>6. p \in Piece
  BY <1>4, <1>5, ElementOfSeq
<1>7. out[c] = SubSeq(took, from[c] + 1, Len(took) - 1)
  BY <1>1, <1>3 DEF IInv, ClientsServed, NoGap
<1>8. Append(out[c], p) = SubSeq(took, from[c] + 1, Len(took)) /\ Append(out[c], p) \in Seq(Piece)
  <2>1. out[c] \in Seq(Piece)
    BY <1>4
  <2>2. QED BY <1>4, <1>5, <1>6, <1>7, <2>1, PartGrows, AppendProperties
<1> HIDE DEF p
<1>9. /\ out' \in [Sink -> Seq(Piece)] /\ out'[Port] = out[Port]
      /\ out'[c] = Append(out[c], p) /\ \A d \in Client : d # c => out'[d] = out[d]
  BY <1>1, <1>4, <1>8
<1>10. Served' = Served
  BY <1>1 DEF Served
<1>11. ClientsServed'
  <2>1. ASSUME NEW d \in Served
        PROVE  /\ from'[d] + Behindhand(d)' <= Len(took')
               /\ out'[d] = SubSeq(took', from'[d] + 1, Len(took') - IF d \in todo' THEN 1 ELSE 0)
    <3>1. CASE d = c
      <4>1. d \notin todo' /\ Len(took) - 0 = Len(took) /\ from[c] + 0 <= Len(took)
        BY <1>1, <1>4, <1>5, <3>1
      <4>2. QED BY <1>1, <1>2, <1>8, <1>9, <3>1, <4>1 DEF Behindhand
    <3>2. CASE d # c
      <4>1. (d \in todo' <=> d \in todo) /\ out'[d] = out[d] /\ d \in Client
        BY <1>1, <1>9, <3>2 DEF Served
      <4>2. /\ from[d] + Behindhand(d) <= Len(took)
            /\ out[d] = SubSeq(took, from[d] + 1, Len(took) - IF d \in todo THEN 1 ELSE 0)
        BY DEF IInv, ClientsServed, NoGap
      <4>3. QED BY <1>1, <1>2, <4>1, <4>2 DEF Behindhand
    <3>3. QED BY <3>1, <3>2
  <2>2. todo' \subseteq Served
    BY <1>1 DEF IInv, ClientsServed
  <2>3. QED BY <1>10, <2>1, <2>2 DEF ClientsServed, NoGap
<1>12. QED BY <1>1, <1>3, <1>4, <1>9, <1>11, RelayStep

(* The clients that remain have what they had. *)
LEMMA SendFailsStep ==
  ASSUME IInv, NEW c \in Client, SendFails(c)
  PROVE  IInv'
<1>1. /\ c \in todo /\ todo' = todo \ {c} /\ sink' = [sink EXCEPT ![c] = "off"]
      /\ UNCHANGED <<job, sent, inVars, batch, out, from, calm>>
  BY DEF SendFails
<1>2. Is({"relay"}) /\ took' = took
  BY <1>1 DEF IInv, Roles, inVars
<1>3. /\ out \in [Sink -> Seq(Piece)] /\ from \in [Sink -> 0 .. MaxPiece] /\ todo \subseteq Client
      /\ sink \in [Sink -> {"off", "waiting", "on", "stalled", "gone", "broken"}] /\ Client \subseteq Sink
  BY Facts DEF IInv, Shapes, TypeOK
<1>4. sink' \in [Sink -> {"off", "waiting", "on", "stalled", "gone", "broken"}]
  BY <1>1, <1>3
<1>5. Served' = Served \ {c}
  BY <1>1, <1>3 DEF Served
<1>6. ClientsServed'
  BY <1>1, <1>2, <1>5 DEF IInv, ClientsServed, Behindhand, NoGap
<1>7. QED BY <1>1, <1>2, <1>3, <1>4, <1>6, RelayStep

(* One that was accepted has nothing, and nothing to catch up with. *)
LEMMA AcceptStep ==
  ASSUME IInv, NEW c \in Client, AcceptClient(c)
  PROVE  IInv'
<1>1. /\ sink[c] = "waiting" /\ todo = {} /\ sink' = [sink EXCEPT ![c] = "on"]
      /\ out' = [out EXCEPT ![c] = <<>>] /\ from' = [from EXCEPT ![c] = Len(took)]
      /\ UNCHANGED <<job, sent, inVars, batch, todo, calm>>
  BY DEF AcceptClient
<1>2. Is({"relay"}) /\ took' = took /\ c \notin Served
  BY <1>1 DEF IInv, Roles, inVars, Served
<1>3. /\ out \in [Sink -> Seq(Piece)] /\ from \in [Sink -> 0 .. MaxPiece]
      /\ sink \in [Sink -> {"off", "waiting", "on", "stalled", "gone", "broken"}]
      /\ Port \in Sink /\ c \in Sink /\ c # Port /\ Client \subseteq Sink
      /\ Len(took) \in Nat /\ Len(stream) \in Nat /\ sent \in Nat /\ sent <= MaxPiece
      /\ Len(took) + Len(stream) <= sent /\ MaxPiece \in Nat
  BY Facts, SizeAssumption DEF IInv, Shapes, TypeOK
<1>4. Len(took) \in 0 .. MaxPiece
  BY <1>3
<1>5. /\ sink' \in [Sink -> {"off", "waiting", "on", "stalled", "gone", "broken"}]
      /\ from' \in [Sink -> 0 .. MaxPiece] /\ out' \in [Sink -> Seq(Piece)]
      /\ out'[Port] = out[Port] /\ out'[c] = <<>> /\ from'[c] = Len(took)
      /\ \A d \in Client : d # c => out'[d] = out[d] /\ from'[d] = from[d]
  BY <1>1, <1>3, <1>4, NoPieces
<1>6. Served' = Served \union {c}
  BY <1>1, <1>3 DEF Served
<1>7. ClientsServed'
  <2>1. out'[c] = SubSeq(took', from'[c] + 1, Len(took') - 0)
    <3>1. Len(took) + 1 \in Int /\ Len(took) - 0 \in Int /\ Len(took) - 0 < Len(took) + 1
      BY <1>3
    <3>2. QED BY <1>2, <1>5, <3>1, SubSeqEmpty
  <2>2. from'[c] + 0 <= Len(took')
    BY <1>2, <1>3, <1>5
  <2>3. ASSUME NEW d \in Served', d # c
        PROVE  /\ from'[d] + Behindhand(d)' <= Len(took')
               /\ out'[d] = SubSeq(took', from'[d] + 1, Len(took') - IF d \in todo' THEN 1 ELSE 0)
    <3>1. d \in Served /\ d \in Client
      BY <1>6, <2>3 DEF Served
    <3>2. QED BY <1>1, <1>2, <1>5, <2>3, <3>1 DEF IInv, ClientsServed, NoGap, Behindhand
  <2>4. QED BY <1>1, <2>1, <2>2, <2>3 DEF ClientsServed, NoGap, Behindhand
<1>8. QED BY <1>1, <1>2, <1>3, <1>5, <1>7, RelayStep

-----------------------------------------------------------------------------
(* The steps of the world and those in which something is lost. *)

LEMMA WorldStep ==
  ASSUME IInv,
         \/ SourceEnds \/ Knock \/ PortBreaks \/ HeaderEnds \/ EndsForGood
         \/ \E c \in Client : ClientKnocks(c) \/ ClientStalls(c) \/ ClientResumes(c) \/ ClientGoes(c)
  PROVE  IInv'
<1>1. /\ sink \in [Sink -> {"off", "waiting", "on", "stalled", "gone", "broken"}]
      /\ src \in {"off", "on", "eof", "spin", "ended"} /\ knock \in BOOLEAN /\ calm \in BOOLEAN
      /\ Port \in Sink /\ Client \subseteq Sink /\ \A c \in Client : c # Port
  BY Facts DEF IInv, TypeOK
<1>2. CASE SourceEnds
  <2>1. /\ src = "on" /\ src' = "eof" /\ calm' = FALSE
        /\ UNCHANGED <<job, sent, knock, stream, lured, buffer, took, batch, sink, todo, out, from>>
    BY <1>2 DEF SourceEnds, outVars
  <2>2. QED BY <1>1, <2>1, QuietStep
<1>3. CASE Knock
  <2>1. /\ knock' = TRUE
        /\ UNCHANGED <<job, sent, src, calm, stream, lured, buffer, took, batch, sink, todo, out, from>>
    BY <1>3 DEF Knock, outVars
  <2>2. QED BY <1>1, <2>1, QuietStep
<1>4. CASE HeaderEnds \/ EndsForGood
  <2>1. /\ src' \in {"spin", "ended"} /\ calm' = FALSE
        /\ UNCHANGED <<job, sent, knock, stream, lured, buffer, took, batch, sink, todo, out, from>>
    BY <1>4 DEF HeaderEnds, EndsForGood, outVars
  <2>2. QED BY <1>1, <2>1, QuietStep
<1>5. CASE PortBreaks
  <2>1. /\ sink' = [sink EXCEPT ![Port] = "broken"] /\ calm' = FALSE
        /\ UNCHANGED <<job, sent, src, knock, stream, lured, buffer, took, batch, todo, out, from>>
    BY <1>5 DEF PortBreaks, Becomes, inVars
  <2>2. /\ sink' \in [Sink -> {"off", "waiting", "on", "stalled", "gone", "broken"}]
        /\ \A c \in Client : sink'[c] = sink[c]
    BY <1>1, <2>1
  <2>3. QED BY <1>1, <2>1, <2>2, QuietStep
<1>6. ASSUME NEW c \in Client, ClientKnocks(c) \/ ClientStalls(c) \/ ClientResumes(c) \/ ClientGoes(c)
      PROVE  IInv'
  <2>1. PICK s \in {"waiting", "stalled", "on", "gone"} :
          /\ sink' = [sink EXCEPT ![c] = s]
          /\ s = "waiting" => Is({"relay"}) /\ sink[c] = "off"
          /\ s # "waiting" => sink[c] \in {"on", "stalled"}
    BY <1>6 DEF ClientKnocks, ClientStalls, ClientResumes, ClientGoes, Becomes
  <2>2. UNCHANGED <<job, sent, src, knock, calm, stream, lured, buffer, took, batch, todo, out, from>>
    BY <1>6 DEF ClientKnocks, ClientStalls, ClientResumes, ClientGoes, Becomes, inVars
  <2>3. Is({"relay"})
    BY <1>6, <2>1 DEF IInv, Roles
  <2>4. /\ sink' \in [Sink -> {"off", "waiting", "on", "stalled", "gone", "broken"}]
        /\ sink'[Port] = sink[Port]
        /\ \A d \in Client :
             sink'[d] \in {"on", "stalled", "gone"} <=> sink[d] \in {"on", "stalled", "gone"}
    BY <1>1, <2>1
  <2>5. QED BY <1>1, <2>2, <2>3, <2>4, QuietStep
<1>7. QED BY <1>2, <1>3, <1>4, <1>5, <1>6

LEMMA FaultStep ==
  ASSUME IInv,
         \/ SourceResets \/ Overflow \/ ShortRead \/ PassFails \/ PassDropped
         \/ FlushFails \/ Ends \/ HealthTimeout
  PROVE  IInv'
<1>1. /\ knock \in BOOLEAN /\ lured \in BOOLEAN
      /\ stream \in Seq(Piece) /\ Len(stream) \in Nat /\ batch \in Seq(Piece) /\ Rising(batch)
      /\ out \in [Sink -> Seq(Piece)] /\ (Live => src \in {"on", "eof"})
  BY Facts DEF IInv, TypeOK, Shapes, InOrder, Live
<1>2. stream # <<>> => stream # Tail(stream)
  <2> DEFINE t == Tail(stream)
  <2>1. stream # <<>> => Len(t) = Len(stream) - 1
    BY <1>1, Beheaded
  <2> HIDE DEF t
  <2>2. stream # <<>> => stream # t
    BY <1>1, <2>1
  <2>3. QED BY <2>2 DEF t
<1>3. CASE Overflow \/ ShortRead
  <2>1. /\ ~Cut /\ calm' = FALSE /\ (stream' = stream \/ (stream # <<>> /\ stream' = Tail(stream)))
        /\ buffer' \in {buffer, 0}
        /\ UNCHANGED <<job, sent, src, knock, lured, took, batch, sink, todo, out, from>>
    BY <1>3 DEF Overflow, ShortRead, outVars, Cut, Is
  <2>2. InOrder'
    BY <2>1, OrderKept DEF Live
  <2>3. out' = out /\ out' \in [Sink -> Seq(Piece)]
    BY <1>1, <2>1
  <2>4. QED BY <1>1, <2>1, <2>2, <2>3, LosingStep
<1>4. CASE SourceResets
  <2>1. /\ src' \in {"off", "ended"} /\ stream' = <<>> /\ batch' = <<>> /\ calm' = FALSE
        /\ UNCHANGED <<job, sent, knock, buffer, lured, took, sink, todo, out, from>>
    BY <1>4 DEF SourceResets
  <2>2. InOrder'
    BY <2>1, OrderKept DEF Live
  <2>3. out' = out /\ out' \in [Sink -> Seq(Piece)]
    BY <1>1, <2>1
  <2>4. QED BY <1>1, <2>1, <2>2, <2>3, LosingStep
<1>5. CASE PassFails
  <2>1. /\ ~Is({"relay"}) /\ Live /\ stream # <<>> /\ stream' = <<>>
        /\ took' = Append(took, Head(stream)) /\ Partly(Due(Head(stream)))
        /\ src' \in {"off", "ended"} /\ batch' = <<>> /\ calm' = FALSE
        /\ UNCHANGED <<knock, lured, buffer, job, sent, sink, todo, from>>
    BY <1>5 DEF PassFails, Ready, Live, Is, Forwarder, Once
  <2>2. Halves' = {}
    BY <2>1 DEF Halves, Live
  <2>3. InOrder' /\ out' \in [Sink -> Seq(Piece)] /\ \A c \in Client : out'[c] = out[c]
    BY <2>1, <2>2, PartOfDue
  <2>4. QED BY <1>1, <2>1, <2>3, LosingStep
<1>6. CASE PassDropped
  <2>1. /\ Is({"gga"}) /\ ~Writable /\ Live /\ stream # <<>>
        /\ stream' = Tail(stream) /\ took' = Append(took, Head(stream)) /\ Partly(<<Head(stream)>>)
        /\ UNCHANGED <<src, knock, lured, buffer, batch, sink, calm, job, sent, todo, from>>
    BY <1>6 DEF PassDropped, Ready, Live, Consume
  <2>2. ~Is({"relay"}) /\ ~Cut /\ ~Is(Forwarder) /\ ~Is({"tcp"}) /\ ~Is(Framed)
    BY <2>1 DEF Is, Cut, Forwarder, Framed
  <2>3. calm' = FALSE
    BY <2>1, <2>2 DEF IInv, Lossless, Writable, TypeOK
  <2>4. batch' = <<>> /\ Halves' = {} /\ Due(Head(stream)) = <<Head(stream)>>
    BY <2>1, <2>2 DEF IInv, Roles, Halves, Due
  <2>5. InOrder' /\ out' \in [Sink -> Seq(Piece)] /\ \A c \in Client : out'[c] = out[c]
    BY <2>1, <2>2, <2>4, PartOfDue
  <2>6. QED BY <1>1, <1>2, <2>1, <2>2, <2>3, <2>5, LosingStep
<1>7. CASE FlushFails
  <2>1. /\ src' = "off" /\ stream' = <<>> /\ batch' = <<>> /\ calm' = FALSE /\ Partly(batch)
        /\ stream = <<>> /\ ~Is({"relay"})
        /\ UNCHANGED <<knock, lured, buffer, job, sent, sink, todo, took, from>>
    BY <1>7 DEF FlushFails, Closed, Quiet, Is
  <2>2. Halves' = {} /\ Range(stream') = {}
    BY <2>1, NoPieces DEF Halves, Live
  <2>3. InOrder' /\ out' \in [Sink -> Seq(Piece)] /\ \A c \in Client : out'[c] = out[c]
    BY <1>1, <2>1, <2>2, OrderOfPart DEF Behind
  <2>4. QED BY <1>1, <2>1, <2>3, LosingStep
<1>8. CASE Ends \/ HealthTimeout
  <2>1. /\ src' = "off" /\ stream' = <<>> /\ calm' = FALSE
        /\ UNCHANGED <<knock, lured, buffer, job, sent, batch, sink, todo, took, out, from>>
    BY <1>8 DEF Ends, HealthTimeout, Closed, outVars
  <2>2. batch = <<>>
    BY <1>8 DEF Ends, HealthTimeout, IInv, Roles, Is
  <2>3. InOrder'
    BY <2>1, OrderKept DEF Live
  <2>4. out' = out /\ out' \in [Sink -> Seq(Piece)]
    BY <1>1, <2>1
  <2>5. QED BY <1>1, <2>1, <2>2, <2>3, <2>4, LosingStep
<1>9. QED BY <1>3, <1>4, <1>5, <1>6, <1>7, <1>8

-----------------------------------------------------------------------------
(* The invariant. *)

LEMMA InitEstablishes == Init => IInv
<1> SUFFICES ASSUME Init PROVE IInv
  OBVIOUS
<1>1. /\ job \in [kind : Kind, udp : BOOLEAN] /\ src = "off" /\ knock = FALSE /\ sent = 0
      /\ stream = <<>> /\ lured = FALSE /\ buffer = 0 /\ batch = <<>> /\ todo = {} /\ took = <<>>
      /\ sink = [s \in Sink |-> IF s = Port /\ ~Is(Forwarder) THEN "on" ELSE "off"]
      /\ out = [s \in Sink |-> <<>>] /\ from = [s \in Sink |-> 0] /\ calm = TRUE
  BY DEF Init
<1>2. Port \in Sink /\ (\A c \in Client : c # Port) /\ Client \subseteq Sink
  BY PortAssumption DEF Sink
<1>3. /\ sink \in [Sink -> {"off", "waiting", "on", "stalled", "gone", "broken"}]
      /\ \A c \in Client : sink[c] = "off"
      /\ ~Is(Forwarder) => sink[Port] = "on"
      /\ out \in [Sink -> Seq(Piece)] /\ out[Port] = <<>> /\ from \in [Sink -> 0 .. MaxPiece]
  BY <1>1, <1>2, NoPieces, SizeAssumption
<1>4. Len(stream) = 0 /\ Len(batch) = 0 /\ Len(took) = 0 /\ Len(out[Port]) = 0
  BY <1>1, <1>3, NoPieces
<1>5. TypeOK
  <2>1. 0 \in 0 .. MaxPiece /\ 0 <= MaxPiece /\ 0 < BatchPieces
    BY SizeAssumption
  <2>2. QED BY <1>1, <1>3, <1>4, <2>1 DEF TypeOK
<1>6. Shapes /\ Roles
  BY <1>1, <1>3, <1>4, NoPieces DEF Shapes, Roles
<1>7. InOrder
  <2>1. Halves = {} /\ Range(<<>>) = {} /\ Rising(<<>>)
    BY <1>1, NoPieces DEF Halves
  <2>2. QED BY <1>1, <1>3, <2>1 DEF InOrder, Behind
<1>8. InFrames
  BY <1>1 DEF InFrames, Live
<1>9. Lossless
  <2>1. Done = 0 /\ OneHalf = 0
    BY <1>1, <1>4 DEF Done, OneHalf
  <2>2. QED BY <1>1, <1>3, <1>4, <2>1, NoPieces DEF Lossless
<1>10. ClientsServed
  <2>1. Served = {}
    BY <1>3 DEF Served
  <2>2. QED BY <1>1, <2>1 DEF ClientsServed, NoGap
<1>11. QED BY <1>5, <1>6, <1>7, <1>8, <1>9, <1>10 DEF IInv

LEMMA StutterKeeps ==
  ASSUME IInv, UNCHANGED vars
  PROVE  IInv'
<1>1. UNCHANGED <<job, sent, src, knock, stream, lured, buffer, took, batch, sink, todo, out, from, calm>>
  BY DEF vars, inVars, outVars
<1>2. src \in {"off", "on", "eof", "spin", "ended"} /\ knock \in BOOLEAN /\ calm \in BOOLEAN
      /\ sink \in [Sink -> {"off", "waiting", "on", "stalled", "gone", "broken"}]
  BY DEF IInv, TypeOK
<1>3. QED BY <1>1, <1>2, QuietStep

LEMMA NextPreserves ==
  ASSUME IInv, [Next]_vars
  PROVE  IInv'
<1>1. CASE Program
  <2>1. ASSUME NEW c \in Client, SendAll(c) \/ SendFails(c)
        PROVE  IInv'
    BY <2>1, SendAllStep, SendFailsStep
  <2>2. QED BY <1>1, <2>1, ConnectStep, PassStep, ReopenStep, FlushStep, FetchStep,
               WorldStep, FaultStep DEF Program
<1>2. CASE World
  <2>1. ASSUME NEW c \in Client, AcceptClient(c)
        PROVE  IInv'
    BY <2>1, AcceptStep
  <2>2. QED BY <1>2, <2>1, ProduceStep, WorldStep, FaultStep DEF World
<1>3. CASE UNCHANGED vars
  BY <1>3, StutterKeeps
<1>4. QED BY <1>1, <1>2, <1>3 DEF Next

(* The parts hold together in every state. *)
THEOREM Invariance == Spec => []IInv
<1>1. Spec => Init /\ [][Next]_vars
  BY DEF Spec
<1>2. Init => IInv
  BY InitEstablishes
<1>3. IInv /\ [Next]_vars => IInv'
  BY NextPreserves
<1>4. QED BY <1>1, <1>2, <1>3, PTL

(* The type invariant. *)
THEOREM RelayTypes == Spec => []TypeOK
<1>1. IInv => TypeOK
  BY DEF IInv
<1>2. QED BY <1>1, Invariance, PTL

(* Without a fault every piece is in the output or still on its way. *)
THEOREM NothingLost == Spec => []NothingLostWhileCalm
<1>1. ASSUME IInv, calm, ~Is({"relay"})
      PROVE  out[Port] \o batch \o Half \o stream = [i \in 1 .. sent |-> i]
  <2> DEFINE o == out[Port]
             a == o \o batch
             b == a \o Half
             c == b \o stream
             n == [i \in 1 .. sent |-> i]
  <2>1. /\ o \in Seq(Nat) /\ batch \in Seq(Nat) /\ stream \in Seq(Nat) /\ sent \in Nat
        /\ Len(o) \in Nat /\ Len(batch) \in Nat /\ Len(stream) \in Nat /\ buffer \in Nat
    BY <1>1, Facts
  <2>2. /\ From(0, o) /\ From(0 + Len(o), batch)
        /\ buffer # 0 => buffer = Len(o) + Len(batch) + 1
        /\ From(Len(o) + Len(batch) + OneHalf, stream)
        /\ Len(o) + Len(batch) + OneHalf + Len(stream) = sent
    BY <1>1, <2>1 DEF IInv, Lossless, Done
  <2> HIDE DEF o
  <2>3. a \in Seq(Nat) /\ Len(a) = Len(o) + Len(batch) /\ From(0, a) /\ Len(a) \in Nat
    <3>1. From(0, a)
      BY <2>1, <2>2, JoinedCarriesOn
    <3>2. a \in Seq(Nat) /\ Len(a) = Len(o) + Len(batch)
      BY <2>1, Joined
    <3>3. QED BY <2>1, <3>1, <3>2
  <2>4. Half \in Seq(Nat) /\ Len(Half) = OneHalf /\ From(Len(o) + Len(batch), Half)
    <3>1. CASE buffer = 0
      <4>1. Half = <<>> /\ OneHalf = 0
        BY <3>1 DEF Half, OneHalf
      <4>2. QED BY <4>1, NoPieces, EmptySeq
    <3>2. CASE buffer # 0
      <4>1. Half = <<buffer>> /\ OneHalf = 1 /\ buffer = Len(o) + Len(batch) + 1
        BY <2>2, <3>2 DEF Half, OneHalf
      <4>2. /\ <<buffer>> \in Seq(Nat) /\ Len(<<buffer>>) = 1 /\ DOMAIN <<buffer>> = 1 .. 1
            /\ <<buffer>>[1] = buffer
        BY <2>1
      <4>3. QED BY <2>1, <4>1, <4>2 DEF From
    <3>3. QED BY <3>1, <3>2
  <2> HIDE DEF a
  <2>5. b \in Seq(Nat) /\ Len(b) = Len(a) + OneHalf /\ From(0, b) /\ Len(b) \in Nat
    <3>1. From(0 + Len(a), Half)
      BY <2>3, <2>4
    <3>2. From(0, b)
      BY <2>3, <2>4, <3>1, JoinedCarriesOn
    <3>3. b \in Seq(Nat) /\ Len(b) = Len(a) + Len(Half)
      BY <2>3, <2>4, Joined
    <3>4. QED BY <2>3, <2>4, <3>2, <3>3, LenProperties
  <2> HIDE DEF b
  <2>6. c \in Seq(Nat) /\ Len(c) = sent /\ From(0, c)
    <3>1. From(0 + Len(b), stream)
      BY <2>1, <2>2, <2>3, <2>5
    <3>2. From(0, c)
      BY <2>1, <2>5, <3>1, JoinedCarriesOn
    <3>3. c \in Seq(Nat) /\ Len(c) = Len(b) + Len(stream)
      BY <2>1, <2>5, Joined
    <3>4. Len(b) + Len(stream) = sent
      BY <2>1, <2>2, <2>3, <2>5
    <3>5. QED BY <3>2, <3>3, <3>4
  <2> HIDE DEF c
  <2>7. n \in Seq(Nat) /\ Len(n) = sent
    BY <2>1
  <2>8. \A i \in 1 .. sent : c[i] = n[i]
    <3>1. DOMAIN c = 1 .. sent
      BY <2>1, <2>6, LenProperties
    <3>2. \A i \in 1 .. sent : c[i] = 0 + i
      BY <2>6, <3>1 DEF From
    <3>3. QED BY <2>1, <3>2
  <2> HIDE DEF n
  <2>9. c = n
    BY <2>6, <2>7, <2>8, SeqEqual
  <2>10. QED BY <2>9 DEF c, b, a, o, n
<1>2. IInv => NothingLostWhileCalm
  BY <1>1 DEF NothingLostWhileCalm
<1>3. QED BY <1>2, Invariance, PTL

(* A part of whole frames, from their beginning. *)
LEMMA PartIsWhole ==
  ASSUME NEW d \in Seq(Nat), Frames(d), NEW n \in 0 .. Len(d)
  PROVE  Whole(SubSeq(d, 1, n))
<1> DEFINE q == SubSeq(d, 1, n)
<1>1. Len(d) \in Nat /\ Len(q) = n /\ \A i \in 1 .. n : q[i] = d[i]
  BY Part, LenProperties
<1> HIDE DEF q
<1>2. ASSUME NEW i \in 1 .. n
      PROVE  IF i % 2 = 1 THEN q[i] % 2 = 1 ELSE q[i] = q[i - 1] + 1
  <2>1. i \in 1 .. Len(d) /\ i \in Nat
    BY <1>1
  <2>2. CASE i % 2 = 1
    BY <1>1, <2>1, <2>2 DEF Frames
  <2>3. CASE i % 2 # 1
    <3>1. i - 1 \in 1 .. n /\ i - 1 \in 1 .. Len(d) /\ (i - 1) % 2 = 1 /\ i - 1 + 1 = i
      BY <1>1, <2>1, <2>3
    <3>2. d[i - 1 + 1] = d[i - 1] + 1
      BY <3>1 DEF Frames
    <3>3. QED BY <1>1, <2>3, <3>1, <3>2
  <2>4. QED BY <2>2, <2>3
<1>3. Whole(q)
  BY <1>1, <1>2 DEF Whole
<1>4. QED BY <1>3 DEF q

(* A step that writes a part of whole frames writes as it should. *)
LEMMA WritesWhole ==
  ASSUME IInv, NEW d \in Seq(Piece), Frames(d), NEW n \in 0 .. Len(d),
         out' = [out EXCEPT ![Port] = @ \o SubSeq(d, 1, n)], Writable => n = Len(d)
  PROVE  Whole(Written) /\ (Writable => Len(Written) % 2 = 0)
<1> DEFINE q == SubSeq(d, 1, n)
           o == out[Port]
<1>1. /\ o \in Seq(Piece) /\ Port \in Sink /\ out \in [Sink -> Seq(Piece)] /\ Piece \in SUBSET Nat
      /\ d \in Seq(Nat)
  BY Facts, SeqMonotonic DEF IInv, Shapes
<1>2. q \in Seq(Piece) /\ Len(q) = n
  BY Part
<1>3. Whole(q)
  BY <1>1, PartIsWhole
<1>4. out'[Port] = o \o q
  BY <1>1
<1> HIDE DEF q, o
<1>5. SubSeq(o \o q, Len(o) + 1, Len(o \o q)) = q
  BY <1>1, <1>2, RestOfJoined
<1>6. Written = q
  BY <1>4, <1>5 DEF Written, o
<1>7. Writable => Len(q) % 2 = 0
  BY <1>2 DEF Frames
<1>8. QED BY <1>3, <1>6, <1>7

LEMMA WritesNothing ==
  ASSUME IInv, out'[Port] = out[Port]
  PROVE  Whole(Written) /\ (Writable => Len(Written) % 2 = 0)
<1>1. Len(out[Port]) + 1 \in Int /\ Len(out[Port]) \in Int /\ Len(out[Port]) < Len(out[Port]) + 1
  BY Facts
<1>2. Written = <<>>
  BY <1>1, SubSeqEmpty DEF Written
<1>3. Len(Written) = 0
  BY <1>2, NoPieces
<1>4. QED BY <1>3 DEF Whole

LEMMA StepWritesWhole ==
  ASSUME IInv, [Next]_vars, Is({"tcp", "script", "inject"}), ~lured
  PROVE  Whole(Written) /\ (Writable => Len(Written) % 2 = 0)
<1> DEFINE d == Due(Head(stream))
<1>1. Cut /\ ~Is({"relay", "gga", "bridge", "pipe", "ntrip", "serial"}) /\ todo = {}
      /\ ~Is({"relay"}) /\ \A c \in Client : sink[c] = "off"
  BY DEF Cut, Is, IInv, Roles
<1>2. Live /\ stream # <<>> => d \in Seq(Piece) /\ Frames(d)
  BY <1>1, DueIs
<1>3. Live => batch \in Seq(Piece) /\ Frames(batch)
  BY <1>1, Facts DEF IInv, InFrames
<1>4. \A x \in Seq(Piece) : Len(x) \in 0 .. Len(x) /\ SubSeq(x, 1, Len(x)) = x
  BY SubSeqFull, LenProperties
<1>5. ASSUME NEW x, Partly(x), Live, ~Writable, x \in Seq(Piece), Frames(x)
      PROVE  Whole(Written) /\ (Writable => Len(Written) % 2 = 0)
  <2>1. PICK n \in 0 .. IF sink[Port] = "broken" THEN Len(x) ELSE 0 :
          out' = [out EXCEPT ![Port] = @ \o SubSeq(x, 1, n)]
    BY <1>5 DEF Partly
  <2>2. n \in 0 .. Len(x)
    BY <1>5, LenProperties
  <2>3. QED BY <1>5, <2>1, <2>2, WritesWhole
<1>6. CASE Pass
  <2>1. Live /\ stream # <<>> /\ out' = [out EXCEPT ![Port] = @ \o d]
    BY <1>6 DEF Pass, Ready, Live
  <2> HIDE DEF d
  <2>2. Len(d) \in 0 .. Len(d) /\ SubSeq(d, 1, Len(d)) = d
    BY <1>2, <1>4, <2>1
  <2>3. QED BY <1>2, <2>1, <2>2, WritesWhole
<1>7. CASE Flush
  <2>1. Live /\ out' = [out EXCEPT ![Port] = @ \o batch]
    BY <1>7 DEF Flush, Quiet, Live
  <2>2. Len(batch) \in 0 .. Len(batch) /\ SubSeq(batch, 1, Len(batch)) = batch
    BY <1>3, <1>4, <2>1
  <2>3. QED BY <1>3, <2>1, <2>2, WritesWhole
<1>8. CASE PassFails \/ ScriptReopens
  <2>1. Live /\ stream # <<>> /\ ~Writable /\ Partly(d)
    BY <1>8 DEF PassFails, ScriptReopens, Ready, Live
  <2>2. QED BY <1>2, <1>5, <2>1
<1>9. CASE FlushFails
  <2>1. Live /\ ~Writable /\ Partly(batch)
    BY <1>9 DEF FlushFails, Quiet, Live
  <2>2. QED BY <1>3, <1>5, <2>1
<1>10. CASE \/ Connect \/ Ends \/ EndsForGood \/ HealthTimeout \/ Fetch \/ Produce \/ SourceEnds
            \/ SourceResets \/ Overflow \/ Knock \/ PortBreaks \/ ShortRead \/ HeaderEnds
            \/ UNCHANGED vars
  <2>1. out' = out
    BY <1>10 DEF Connect, Ends, EndsForGood, HealthTimeout, Fetch, Produce, SourceEnds,
                 SourceResets, Overflow, Knock, PortBreaks, ShortRead, HeaderEnds, Becomes,
                 vars, outVars
  <2>2. QED BY <2>1, WritesNothing
<1>11. ASSUME NEW c \in Client,
              \/ SendAll(c) \/ SendFails(c) \/ AcceptClient(c)
              \/ ClientKnocks(c) \/ ClientStalls(c) \/ ClientResumes(c) \/ ClientGoes(c)
       PROVE  FALSE
  BY <1>1, <1>11 DEF SendAll, SendFails, AcceptClient, ClientKnocks, ClientStalls, ClientResumes,
                     ClientGoes, Becomes
<1>12. CASE PassDropped
  BY <1>12, <1>1 DEF PassDropped, Is
<1>13. QED BY <1>6, <1>7, <1>8, <1>9, <1>10, <1>11, <1>12 DEF Next, Program, World

(* What is written begins with a beginning of a frame and goes on with its own
   second half, whatever breaks and however much of it a failing write puts out,
   as long as no byte within a frame passes for a beginning. *)
THEOREM FramesStayWhole == Spec => WholeFrames
<1>1. Spec => [][Next]_vars
  BY DEF Spec
<1>2. IInv /\ [Next]_vars
      => [Is({"tcp", "script", "inject"}) /\ ~lured =>
            Whole(Written) /\ (Writable => Len(Written) % 2 = 0)]_vars
  BY StepWritesWhole
<1>3. QED BY <1>1, <1>2, Invariance, PTL DEF WholeFrames

(* A client of the relay misses nothing. *)
THEOREM ClientsMissNothing == Spec => []NoGap
<1>1. IInv => NoGap
  BY DEF IInv, ClientsServed
<1>2. QED BY <1>1, Invariance, PTL

-----------------------------------------------------------------------------
(* What is read is in order: a program reads from the front of the stream, which
   rises, and keeps on at its end. *)

ReadInOrder ==
  /\ Rising(took) /\ Behind(Range(took), Range(stream))
  /\ \A p \in Range(took) : p <= sent

(* Nothing is read, and nothing is put into the stream. *)
LEMMA ReadsNothing ==
  ASSUME ReadInOrder, UNCHANGED <<took, sent>>, Range(stream') \subseteq Range(stream)
  PROVE  ReadInOrder'
BY DEF ReadInOrder, Behind, Rising, Range

LEMMA ReadsOne ==
  ASSUME IInv, ReadInOrder, stream # <<>>, took' = Append(took, Head(stream)),
         stream' = Tail(stream) \/ stream' = <<>>, sent' = sent
  PROVE  ReadInOrder'
<1> DEFINE p == Head(stream)
<1>1. /\ took \in Seq(Nat) /\ stream \in Seq(Nat) /\ Len(took) \in Nat /\ sent \in Nat
      /\ DOMAIN took = 1 .. Len(took) /\ \A i \in 1 .. Len(took) : took[i] \in Range(took)
      /\ Rising(stream) /\ \A q \in Range(stream) : q <= sent
  <2>1. took \in Seq(Nat) /\ stream \in Seq(Nat) /\ sent \in Nat
    BY Facts, SeqMonotonic DEF IInv, Shapes
  <2>2. QED BY <2>1, RangeOf DEF IInv, InOrder
<1>2. /\ p \in Range(stream) /\ p \in Nat /\ Range(Tail(stream)) \subseteq Range(stream)
      /\ \A q \in Range(Tail(stream)) : p < q
  BY <1>1, Beheaded, TailRises
<1>3. Range(stream') \subseteq Range(Tail(stream))
  BY Empty
<1> HIDE DEF p
<1>4. /\ Range(took') = Range(took) \union {p} /\ DOMAIN took' = 1 .. Len(took) + 1
      /\ \A i \in 1 .. Len(took) : took'[i] = took[i]
      /\ took'[Len(took) + 1] = p
  BY <1>1, <1>2, Appended DEF p
<1>5. ASSUME NEW i \in DOMAIN took', NEW j \in DOMAIN took', i < j PROVE took'[i] < took'[j]
  <2>1. i \in 1 .. Len(took)
    BY <1>1, <1>4, <1>5
  <2>2. CASE j = Len(took) + 1
    BY <1>1, <1>2, <1>4, <2>1, <2>2 DEF ReadInOrder, Behind
  <2>3. CASE j \in 1 .. Len(took)
    <3>1. took[i] < took[j]
      BY <1>1, <1>5, <2>1, <2>3 DEF ReadInOrder, Rising
    <3>2. QED BY <1>4, <2>1, <2>3, <3>1
  <2>4. QED BY <1>1, <1>4, <2>2, <2>3
<1>6. Behind(Range(took'), Range(stream'))
  <2>1. Range(stream') \subseteq Range(stream) /\ \A q \in Range(stream') : p < q
    BY <1>2, <1>3
  <2>2. QED BY <1>4, <2>1 DEF ReadInOrder, Behind
<1>7. \A q \in Range(took') : q <= sent
  BY <1>1, <1>2, <1>4 DEF ReadInOrder
<1>8. QED BY <1>5, <1>6, <1>7 DEF ReadInOrder, Rising, Behind, Range

LEMMA ReadStaysInOrder == IInv /\ ReadInOrder /\ [Next]_vars => ReadInOrder'
<1> SUFFICES ASSUME IInv, ReadInOrder, [Next]_vars PROVE ReadInOrder'
  OBVIOUS
<1>1. CASE Produce
  <2>1. /\ took' = took /\ sent' = sent + 1 /\ sent \in Nat
        /\ stream' = stream \/ stream' = Append(stream, sent + 1)
    BY <1>1, Facts DEF Produce, outVars
  <2>2. stream \in Seq(Nat) /\ sent + 1 \in Nat
    BY <2>1, Facts
  <2>3. Range(stream') \subseteq Range(stream) \union {sent + 1}
    <3>1. Range(Append(stream, sent + 1)) = Range(stream) \union {sent + 1}
      BY <2>2, Appended
    <3>2. QED BY <2>1, <3>1
  <2>4. \A p \in Range(took) : p <= sent /\ p \in Nat
    BY Facts, RangeOf DEF ReadInOrder, IInv, Shapes
  <2>5. Behind(Range(took), Range(stream')) /\ \A p \in Range(took) : p <= sent + 1
    BY <2>1, <2>3, <2>4 DEF ReadInOrder, Behind
  <2>6. Rising(took')
    BY <2>1 DEF ReadInOrder, Rising
  <2>7. QED BY <2>1, <2>5, <2>6 DEF ReadInOrder, Behind, Range
<1>2. CASE Pass \/ PassFails \/ PassDropped \/ ScriptReopens \/ Fetch
  <2>1. stream # <<>> /\ took' = Append(took, Head(stream)) /\ sent' = sent
    BY <1>2 DEF Pass, PassFails, PassDropped, ScriptReopens, Fetch, Ready, Consume
  <2>2. stream' = Tail(stream) \/ stream' = <<>>
    BY <1>2 DEF Pass, PassFails, PassDropped, ScriptReopens, Fetch, Consume, Closed
  <2>3. QED BY <2>1, <2>2, ReadsOne
<1>3. CASE Connect \/ SourceResets \/ FlushFails \/ Ends \/ HealthTimeout
  <2>1. stream' = <<>> /\ UNCHANGED <<took, sent>>
    BY <1>3 DEF Connect, SourceResets, FlushFails, Ends, HealthTimeout, Closed, outVars
  <2>2. QED BY <2>1, ReadsNothing, Empty
<1>4. CASE Overflow
  <2>1. stream # <<>> /\ stream' = Tail(stream) /\ UNCHANGED <<took, sent>>
    BY <1>4 DEF Overflow
  <2>2. Range(Tail(stream)) \subseteq Range(stream)
    BY <2>1, Facts, Beheaded
  <2>3. QED BY <2>1, <2>2, ReadsNothing
<1>5. CASE Flush \/ EndsForGood \/ SourceEnds \/ Knock \/ PortBreaks \/ ShortRead \/ HeaderEnds
  <2>1. UNCHANGED <<took, sent, stream>>
    BY <1>5 DEF Flush, EndsForGood, SourceEnds, Knock, PortBreaks, ShortRead, HeaderEnds, Becomes,
                inVars
  <2>2. Range(stream') = Range(stream)
    BY <2>1
  <2>3. QED BY <2>1, <2>2, ReadsNothing
<1>6. ASSUME NEW c \in Client,
             \/ SendAll(c) \/ SendFails(c) \/ AcceptClient(c)
             \/ ClientKnocks(c) \/ ClientStalls(c) \/ ClientResumes(c) \/ ClientGoes(c)
      PROVE  ReadInOrder'
  <2>1. UNCHANGED <<took, sent, stream>>
    BY <1>6 DEF SendAll, SendFails, AcceptClient, ClientKnocks, ClientStalls,
                ClientResumes, ClientGoes, Becomes,
                inVars
  <2>2. Range(stream') = Range(stream)
    BY <2>1
  <2>3. QED BY <2>1, <2>2, ReadsNothing
<1>7. CASE UNCHANGED vars
  <2>1. UNCHANGED <<took, sent, stream>>
    BY <1>7 DEF vars, inVars
  <2>2. Range(stream') = Range(stream)
    BY <2>1
  <2>3. QED BY <2>1, <2>2, ReadsNothing
<1>8. QED BY <1>1, <1>2, <1>3, <1>4, <1>5, <1>6, <1>7 DEF Next, Program, World

-----------------------------------------------------------------------------
(* The refinement. *)

Got == IF Is({"relay"}) THEN took ELSE out[Port]

GotIsWay ==
  Got \in Seq(Piece) /\ Rising(Got) /\ \A p \in Range(Got) : p <= sent

LEMMA GotRises == IInv /\ ReadInOrder => GotIsWay
<1> SUFFICES ASSUME IInv, ReadInOrder PROVE GotIsWay
  OBVIOUS
<1>1. CASE Is({"relay"})
  BY <1>1 DEF GotIsWay, Got, IInv, Shapes, ReadInOrder
<1>2. CASE ~Is({"relay"})
  BY <1>2, Facts DEF GotIsWay, Got, IInv, InOrder
<1>3. QED BY <1>1, <1>2

(* What a step adds to the output comes out of the abstract way. *)
LEMMA ComesOut ==
  ASSUME IInv, IInv', ReadInOrder, ReadInOrder', NEW x \in Seq(Nat),
         Got' = Got \o x, sent' = sent
  PROVE  Fifo!Get \/ UNCHANGED <<sent, Got>>
<1> DEFINE o == Got
           q == Got'
<1>1. o \in Seq(Nat) /\ Len(o) \in Nat /\ sent \in Nat
  BY GotRises, Facts, SeqMonotonic, LenProperties DEF GotIsWay
<1>2. /\ q \in Seq(Nat) /\ q \in Seq(Piece) /\ Len(q) \in Nat
      /\ Rising(q) /\ \A p \in Range(q) : p <= sent
  <2>1. GotIsWay'
    BY GotRises, PTL
  <2>2. q \in Seq(Piece) /\ Rising(q) /\ \A p \in Range(q) : p <= sent
    BY <2>1 DEF GotIsWay, Rising, Range, Piece
  <2> HIDE DEF q
  <2>3. q \in Seq(Nat)
    BY <2>2, Facts, SeqMonotonic
  <2>4. QED BY <2>2, <2>3, LenProperties
<1> HIDE DEF o, q
<1>3. q = o \o x
  BY DEF o, q
<1>5. CASE x = <<>>
  BY <1>1, <1>3, <1>5, ConcatEmptySeq DEF o, q
<1>6. CASE x # <<>>
  <2>1. Len(x) \in Nat /\ Len(x) > 0 /\ Len(q) = Len(o) + Len(x)
    BY <1>1, <1>3, <1>6, Joined, EmptySeq, LenProperties
  <2>2. Len(q) > Len(o) /\ Len(o) <= Len(q)
    BY <1>1, <2>1
  <2>3. SubSeq(o, 1, Len(o)) = SubSeq(q, 1, Len(o))
    <3>1. CASE o = <<>>
      BY <1>1, <3>1, SubSeqEmpty, EmptySeq
    <3>2. CASE o # <<>>
      <4>1. Len(o) \in 1 .. Len(o) /\ 1 \in 1 .. Len(o)
        BY <1>1, <3>2, EmptySeq
      <4>2. QED BY <1>1, <1>3, <4>1, SubSeqOfConcat1
    <3>3. QED BY <3>1, <3>2
  <2>4. Fifo!IsPrefix(o, q)
    BY <2>2, <2>3 DEF Fifo!IsPrefix
  <2>5. q \in Seq(1 .. sent)
    <3>1. Range(q) \subseteq Piece
      BY <1>2, RangeOf
    <3>2. Range(q) \subseteq 1 .. sent
      BY <1>1, <1>2, <3>1, SizeAssumption DEF Piece
    <3>3. QED BY <1>2, <3>2, OverItsRange
  <2>6. Fifo!Increasing(q)
    BY <1>2 DEF Fifo!Increasing, Rising
  <2>7. Fifo!Get
    BY <2>2, <2>4, <2>5, <2>6 DEF Fifo!Get, Got, o, q
  <2>8. QED BY <2>7
<1>7. QED BY <1>5, <1>6

LEMMA StepImplements ==
  ASSUME IInv, IInv', ReadInOrder, ReadInOrder', [Next]_vars
  PROVE  Fifo!Put \/ Fifo!Get \/ UNCHANGED <<sent, Got>>
<1>1. CASE Produce
  BY <1>1, Facts DEF Produce, outVars, Fifo!Put, Got, Is
<1>2. CASE Pass
  <2>1. UNCHANGED <<job, sent>> /\ ~Is({"relay"})
    BY <1>2, PassMoves
  <2>2. PICK x \in Seq(Nat) : out'[Port] = out[Port] \o x
    <3>1. /\ batch \in Seq(Nat) /\ Piece \in SUBSET Nat /\ out[Port] \in Seq(Nat)
      BY Facts
    <3>2. out[Port] \o <<>> = out[Port] /\ <<>> \in Seq(Nat)
      BY <3>1, ConcatEmptySeq, EmptySeq
    <3> DEFINE p == Head(stream)
               m == <<buffer, p>>
               o == out[Port]
    <3>3. p \in Piece
      BY <1>2, PassMoves
    <3>4. <<p>> \in Seq(Nat)
      BY <3>1, <3>3, PieceAlone, SeqMonotonic
    <3>5. m \in Seq(Piece) => m \in Seq(Nat) /\ batch \o m \in Seq(Nat)
      BY <3>1, SeqMonotonic, Joined
    <3>6. \/ out'[Port] = o \o <<p>> \/ out'[Port] = o
          \/ m \in Seq(Piece) /\ out'[Port] = o \o m
          \/ m \in Seq(Piece) /\ out'[Port] = o \o (batch \o m)
      BY <1>2, PassMoves
    <3> HIDE DEF p, m, o
    <3>7. QED BY <3>2, <3>4, <3>5, <3>6 DEF o
  <2>3. QED BY <2>1, <2>2, ComesOut DEF Got, Is
<1>3. CASE Flush
  <2>1. /\ UNCHANGED <<job, sent>> /\ ~Is({"relay"}) /\ out' = [out EXCEPT ![Port] = @ \o batch]
    BY <1>3 DEF Flush, Is
  <2>2. batch \in Seq(Nat) /\ out'[Port] = out[Port] \o batch
    BY <2>1, Facts DEF IInv, Shapes
  <2>3. QED BY <2>1, <2>2, ComesOut DEF Got, Is
<1>4. CASE Fetch
  <2>1. /\ Is({"relay"}) /\ UNCHANGED <<job, sent>> /\ stream # <<>>
        /\ took' = Append(took, Head(stream))
    BY <1>4 DEF Fetch, Ready
  <2>2. took \in Seq(Nat) /\ Head(stream) \in Nat
    BY <2>1, Facts, SeqMonotonic, Beheaded DEF IInv, Shapes
  <2>3. <<Head(stream)>> \in Seq(Nat) /\ took' = took \o <<Head(stream)>>
    BY <2>1, <2>2, AppendIsConcat
  <2>4. QED BY <2>1, <2>3, ComesOut DEF Got, Is
<1>5. ASSUME NEW c \in Client, SendAll(c) \/ SendFails(c) \/ AcceptClient(c)
      PROVE  UNCHANGED <<sent, Got>>
  <2>1. Is({"relay"})
    BY <1>5 DEF SendAll, SendFails, AcceptClient, IInv, Roles
  <2>2. QED BY <1>5, <2>1 DEF SendAll, SendFails, AcceptClient, Got, Is, inVars
<1>6. ASSUME NEW c \in Client, ClientKnocks(c) \/ ClientStalls(c) \/ ClientResumes(c) \/ ClientGoes(c)
      PROVE  UNCHANGED <<sent, Got>>
  BY <1>6 DEF ClientKnocks, ClientStalls, ClientResumes, ClientGoes, Becomes, Got, Is, inVars
<1>7. CASE PassFails \/ PassDropped \/ ScriptReopens \/ FlushFails
  <2>1. ~Is({"relay"}) /\ Live /\ UNCHANGED <<job, sent>>
    BY <1>7 DEF PassFails, PassDropped, ScriptReopens, FlushFails, Consume, Closed, Ready, Quiet,
                Live, Is, Forwarder, Once
  <2>2. \/ Partly(batch)
        \/ stream # <<>> /\ (Partly(Due(Head(stream))) \/ Partly(<<Head(stream)>>))
    BY <1>7 DEF PassFails, PassDropped, ScriptReopens, FlushFails, Ready
  <2>3. PICK x \in Seq(Piece) : Partly(x)
    <3>1. batch \in Seq(Piece) /\ (stream # <<>> => Head(stream) \in Piece)
      BY Facts, Beheaded
    <3>2. stream # <<>> => Due(Head(stream)) \in Seq(Piece) /\ <<Head(stream)>> \in Seq(Piece)
      BY <2>1, <3>1, DueIs, PieceAlone
    <3>3. QED BY <2>2, <3>1, <3>2
  <2>4. PICK n \in 0 .. IF sink[Port] = "broken" THEN Len(x) ELSE 0 :
          out' = [out EXCEPT ![Port] = @ \o SubSeq(x, 1, n)]
    BY <2>3 DEF Partly
  <2>5. SubSeq(x, 1, n) \in Seq(Nat)
    <3>1. n \in 0 .. Len(x) /\ Piece \in SUBSET Nat
      BY LenProperties, Facts
    <3>2. SubSeq(x, 1, n) \in Seq(Piece)
      BY <3>1, Part
    <3>3. QED BY <3>1, <3>2, SeqMonotonic
  <2>6. out'[Port] = out[Port] \o SubSeq(x, 1, n)
    BY <2>4, Facts DEF IInv, Shapes
  <2>7. QED BY <2>1, <2>5, <2>6, ComesOut DEF Got, Is
<1>8. CASE Connect \/ SourceResets \/ Ends \/ EndsForGood \/ HealthTimeout
  BY <1>8 DEF Connect, SourceResets, Ends, EndsForGood, HealthTimeout, outVars, Got, Is
<1>9. CASE SourceEnds \/ Overflow \/ Knock \/ PortBreaks \/ ShortRead \/ HeaderEnds
  BY <1>9 DEF SourceEnds, Overflow, Knock, PortBreaks, ShortRead, HeaderEnds, Becomes, inVars,
              outVars, Got, Is
<1>10. CASE UNCHANGED vars
  BY <1>10 DEF vars, inVars, outVars, Got, Is
<1>11. QED BY <1>1, <1>2, <1>3, <1>4, <1>5, <1>6, <1>7, <1>8, <1>9, <1>10 DEF Next, Program, World

(* Each program is a way that loses but does not reorder or repeat: the programs
   with one output in what they write, the relay in what it reads and fans out. *)
THEOREM RelayImplementsLossyFifo == Spec => ImplementsLossyFifo
<1>1. Spec => Init /\ [][Next]_vars
  BY DEF Spec
<1>2. Init => Fifo!Init /\ ReadInOrder
  <2> SUFFICES ASSUME Init PROVE Fifo!Init /\ ReadInOrder
    OBVIOUS
  <2>1. took = <<>> /\ out[Port] = <<>> /\ sent = 0
    BY PortAssumption DEF Init, Sink
  <2>2. Range(took) = {} /\ Rising(took)
    BY <2>1, Empty DEF Rising
  <2>3. QED BY <2>1, <2>2 DEF Fifo!Init, ReadInOrder, Behind
<1>3. /\ IInv /\ IInv' /\ ReadInOrder /\ ReadInOrder' /\ [Next]_vars
      => [Fifo!Put \/ Fifo!Get]_<<sent, Got>>
  BY StepImplements
<1>4. QED BY <1>1, <1>2, <1>3, Invariance, ReadStaysInOrder, PTL
          DEF ImplementsLossyFifo, Fifo!Spec, Got
=============================================================================
