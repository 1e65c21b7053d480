---------------------------- MODULE SequenceFacts ----------------------------
(****************************************************************************)
(* Facts about sequences that the proofs about streams of pieces rest on.   *)
(****************************************************************************)
EXTENDS Naturals, Sequences, SequenceTheorems, TLAPS

(* Each element is greater than those before it. *)
Rising(s) == \A i, j \in DOMAIN s : i < j => s[i] < s[j]

(* s is what comes after piece n, with nothing missing. *)
From(n, s) == \A i \in DOMAIN s : s[i] = n + i

LEMMA RangeOf ==
  ASSUME NEW S, NEW s \in Seq(S)
  PROVE  /\ Len(s) \in Nat /\ DOMAIN s = 1 .. Len(s)
         /\ Range(s) = {s[i] : i \in 1 .. Len(s)} /\ Range(s) \subseteq S
         /\ \A i \in 1 .. Len(s) : s[i] \in Range(s) /\ s[i] \in S
  BY RangeEquality, RangeOfSeq, LenProperties, ElementOfSeq

(* A sequence is one over any set that has its elements. *)
LEMMA OverItsRange ==
  ASSUME NEW S, NEW s \in Seq(S), NEW T, Range(s) \subseteq T
  PROVE  s \in Seq(T)
<1>1. Len(s) \in Nat /\ s \in [1 .. Len(s) -> S] /\ \A i \in 1 .. Len(s) : s[i] \in T
  BY RangeOf, LenProperties
<1>2. s \in [1 .. Len(s) -> T]
  BY <1>1
<1>3. QED BY <1>1, <1>2, SeqDef

LEMMA Empty ==
  ASSUME NEW S
  PROVE  <<>> \in Seq(S) /\ Range(<<>>) = {} /\ Len(<<>>) = 0 /\ DOMAIN <<>> = {}
  BY EmptySeq DEF Range

LEMMA Appended ==
  ASSUME NEW S, NEW s \in Seq(S), NEW e \in S
  PROVE  /\ Append(s, e) \in Seq(S) /\ Len(Append(s, e)) = Len(s) + 1
         /\ Range(Append(s, e)) = Range(s) \union {e}
         /\ DOMAIN Append(s, e) = 1 .. Len(s) + 1
         /\ \A i \in 1 .. Len(s) : Append(s, e)[i] = s[i]
         /\ Append(s, e)[Len(s) + 1] = e
<1>1. /\ Append(s, e) \in Seq(S) /\ Len(Append(s, e)) = Len(s) + 1
      /\ \A i \in 1 .. Len(s) : Append(s, e)[i] = s[i]
      /\ Append(s, e)[Len(s) + 1] = e
  BY AppendProperties
<1>2. /\ Len(s) \in Nat
      /\ Range(s) = {s[i] : i \in 1 .. Len(s)}
      /\ Range(Append(s, e)) = {Append(s, e)[i] : i \in 1 .. Len(s) + 1}
      /\ DOMAIN Append(s, e) = 1 .. Len(s) + 1
  BY <1>1, RangeOf
<1>3. Range(Append(s, e)) = Range(s) \union {e}
  BY <1>1, <1>2
<1>4. QED BY <1>1, <1>2, <1>3

LEMMA Beheaded ==
  ASSUME NEW S, NEW s \in Seq(S), s # <<>>
  PROVE  /\ Tail(s) \in Seq(S) /\ Len(Tail(s)) = Len(s) - 1 /\ Len(s) >= 1
         /\ Head(s) = s[1] /\ Head(s) \in S
         /\ Range(s) = {Head(s)} \union Range(Tail(s))
         /\ DOMAIN Tail(s) = 1 .. Len(s) - 1
         /\ \A i \in 1 .. Len(s) - 1 : Tail(s)[i] = s[i + 1]
<1>1. /\ Tail(s) \in Seq(S) /\ Len(Tail(s)) = Len(s) - 1 /\ Head(s) \in S
      /\ \A i \in 1 .. Len(s) - 1 : Tail(s)[i] = s[i + 1]
  BY HeadTailProperties
<1>2. Len(s) \in Nat \ {0}
  BY EmptySeq
<1>3. Head(s) = s[1]
  BY <1>2
<1>4. /\ Range(s) = {s[i] : i \in 1 .. Len(s)}
      /\ Range(Tail(s)) = {Tail(s)[i] : i \in 1 .. Len(s) - 1}
      /\ DOMAIN Tail(s) = 1 .. Len(s) - 1
  BY <1>1, RangeOf
<1>5. ASSUME NEW i \in 1 .. Len(s) PROVE s[i] \in {Head(s)} \union Range(Tail(s))
  <2>1. CASE i = 1
    BY <1>3, <2>1
  <2>2. CASE i # 1
    <3>1. i - 1 \in 1 .. Len(s) - 1 /\ i - 1 + 1 = i
      BY <1>2, <2>2
    <3>2. Tail(s)[i - 1] = s[i]
      BY <1>1, <3>1
    <3>3. QED BY <1>4, <3>1, <3>2
  <2>3. QED BY <2>1, <2>2
<1>6. ASSUME NEW i \in 1 .. Len(s) - 1 PROVE Tail(s)[i] \in Range(s)
  <2>1. i + 1 \in 1 .. Len(s)
    BY <1>2
  <2>2. QED BY <1>1, <1>4, <2>1
<1>7. Head(s) \in Range(s)
  BY <1>2, <1>3, <1>4
<1>8. QED BY <1>1, <1>2, <1>3, <1>4, <1>5, <1>6, <1>7

LEMMA Joined ==
  ASSUME NEW S, NEW s \in Seq(S), NEW t \in Seq(S)
  PROVE  /\ s \o t \in Seq(S) /\ Len(s \o t) = Len(s) + Len(t)
         /\ Range(s \o t) = Range(s) \union Range(t)
         /\ DOMAIN (s \o t) = 1 .. Len(s) + Len(t)
         /\ \A i \in 1 .. Len(s) + Len(t) :
              (s \o t)[i] = IF i <= Len(s) THEN s[i] ELSE t[i - Len(s)]
  BY ConcatProperties, RangeConcatenation, LenProperties

(* The rest of a sequence from a place on. *)
LEMMA Rest ==
  ASSUME NEW S, NEW s \in Seq(S), NEW k \in 1 .. Len(s) + 1
  PROVE  LET r == SubSeq(s, k, Len(s)) IN
         /\ r \in Seq(S) /\ Len(r) = Len(s) - k + 1 /\ DOMAIN r = 1 .. Len(s) - k + 1
         /\ \A i \in 1 .. Len(s) - k + 1 : r[i] = s[k + i - 1]
         /\ Range(r) \subseteq Range(s)
<1> DEFINE r == SubSeq(s, k, Len(s))
<1>1. Len(s) \in Nat /\ \A i \in 1 .. Len(s) : s[i] \in S /\ s[i] \in Range(s)
  BY RangeOf
<1>2. /\ r \in Seq(S)
      /\ Len(r) = IF k <= Len(s) THEN Len(s) - k + 1 ELSE 0
      /\ \A i \in 1 .. Len(s) - k + 1 : r[i] = s[k + i - 1]
  BY <1>1, SubSeqProperties
<1>3. Len(r) = Len(s) - k + 1
  BY <1>1, <1>2
<1> HIDE DEF r
<1>4. DOMAIN r = 1 .. Len(s) - k + 1 /\ Range(r) = {r[i] : i \in 1 .. Len(s) - k + 1}
  BY <1>2, <1>3, RangeOf
<1>5. ASSUME NEW i \in 1 .. Len(s) - k + 1 PROVE r[i] \in Range(s)
  <2>1. k + i - 1 \in 1 .. Len(s)
    BY <1>1
  <2>2. QED BY <1>1, <1>2, <2>1
<1>6. QED BY <1>2, <1>3, <1>4, <1>5 DEF r

LEMMA RestRises ==
  ASSUME NEW s \in Seq(Nat), Rising(s), NEW k \in 1 .. Len(s) + 1
  PROVE  Rising(SubSeq(s, k, Len(s)))
<1> DEFINE r == SubSeq(s, k, Len(s))
<1>1. /\ DOMAIN r = 1 .. Len(s) - k + 1
      /\ \A i \in 1 .. Len(s) - k + 1 : r[i] = s[k + i - 1]
      /\ Len(s) \in Nat /\ DOMAIN s = 1 .. Len(s)
  BY Rest, RangeOf
<1> HIDE DEF r
<1>2. ASSUME NEW i \in 1 .. Len(s) - k + 1, NEW j \in 1 .. Len(s) - k + 1, i < j
      PROVE  r[i] < r[j]
  <2>1. k + i - 1 \in 1 .. Len(s) /\ k + j - 1 \in 1 .. Len(s) /\ k + i - 1 < k + j - 1
    BY <1>1, <1>2
  <2>2. QED BY <1>1, <2>1 DEF Rising
<1>3. Rising(r)
  BY <1>1, <1>2 DEF Rising
<1>4. QED BY <1>3 DEF r

(* The first n elements of a sequence, which rise when it does. *)
LEMMA Part ==
  ASSUME NEW S, NEW s \in Seq(S), NEW n \in 0 .. Len(s)
  PROVE  LET r == SubSeq(s, 1, n) IN
         /\ r \in Seq(S) /\ Len(r) = n /\ DOMAIN r = 1 .. n
         /\ \A i \in 1 .. n : r[i] = s[i]
         /\ Range(r) \subseteq Range(s)
         /\ Rising(s) => Rising(r)
<1> DEFINE r == SubSeq(s, 1, n)
<1>1. Len(s) \in Nat /\ DOMAIN s = 1 .. Len(s) /\ \A i \in 1 .. Len(s) : s[i] \in S /\ s[i] \in Range(s)
  BY RangeOf
<1>2. n \in Nat /\ n <= Len(s) /\ \A i \in 1 .. n : i \in 1 .. Len(s) /\ 1 + i - 1 = i
  BY <1>1
<1>3. /\ r \in Seq(S) /\ Len(r) = IF 1 <= n THEN n - 1 + 1 ELSE 0
      /\ \A i \in 1 .. n - 1 + 1 : r[i] = s[1 + i - 1]
  BY <1>1, <1>2, SubSeqProperties
<1> HIDE DEF r
<1>4. Len(r) = n /\ n - 1 + 1 = n
  BY <1>2, <1>3
<1>5. \A i \in 1 .. n : r[i] = s[i]
  BY <1>2, <1>3, <1>4
<1>6. DOMAIN r = 1 .. n /\ Range(r) = {r[i] : i \in 1 .. n}
  BY <1>3, <1>4, RangeOf
<1>7. Range(r) \subseteq Range(s)
  BY <1>1, <1>2, <1>5, <1>6
<1>8. Rising(s) => Rising(r)
  BY <1>1, <1>2, <1>5, <1>6 DEF Rising
<1>9. QED BY <1>3, <1>4, <1>5, <1>6, <1>7, <1>8 DEF r

(* What was joined to a sequence is its rest. *)
LEMMA RestOfJoined ==
  ASSUME NEW S, NEW s \in Seq(S), NEW t \in Seq(S)
  PROVE  SubSeq(s \o t, Len(s) + 1, Len(s \o t)) = t
<1> DEFINE b == s \o t
           r == SubSeq(b, Len(s) + 1, Len(b))
<1>1. Len(s) \in Nat /\ Len(t) \in Nat
  BY LenProperties
<1>2. /\ b \in Seq(S) /\ Len(b) = Len(s) + Len(t)
      /\ \A i \in 1 .. Len(s) + Len(t) : b[i] = IF i <= Len(s) THEN s[i] ELSE t[i - Len(s)]
  BY Joined
<1> HIDE DEF b
<1>3. Len(s) + 1 \in 1 .. Len(b) + 1
  BY <1>1, <1>2
<1>4. /\ r \in Seq(S) /\ Len(r) = Len(b) - (Len(s) + 1) + 1
      /\ \A i \in 1 .. Len(b) - (Len(s) + 1) + 1 : r[i] = b[Len(s) + 1 + i - 1]
  BY <1>2, <1>3, Rest
<1> HIDE DEF r
<1>5. Len(r) = Len(t) /\ Len(b) - (Len(s) + 1) + 1 = Len(t)
  BY <1>1, <1>2, <1>4
<1>6. ASSUME NEW i \in 1 .. Len(t) PROVE r[i] = t[i]
  <2>1. /\ Len(s) + 1 + i - 1 = Len(s) + i /\ Len(s) + i \in 1 .. Len(s) + Len(t)
        /\ Len(s) + i - Len(s) = i /\ ~(Len(s) + i <= Len(s))
    BY <1>1
  <2>2. r[i] = b[Len(s) + i]
    BY <1>4, <1>5, <2>1
  <2>3. b[Len(s) + i] = t[Len(s) + i - Len(s)]
    BY <1>2, <2>1
  <2>4. QED BY <2>1, <2>2, <2>3
<1>7. r = t
  BY <1>4, <1>5, <1>6, SeqEqual
<1>8. QED BY <1>7 DEF r, b

(* Two rising sequences, all of the first below all of the second, rise together. *)
LEMMA JoinedRises ==
  ASSUME NEW s \in Seq(Nat), NEW t \in Seq(Nat), Rising(s), Rising(t),
         \A p \in Range(s), q \in Range(t) : p < q
  PROVE  Rising(s \o t)
<1> DEFINE b == s \o t
<1>1. /\ Len(s) \in Nat /\ DOMAIN s = 1 .. Len(s) /\ \A i \in 1 .. Len(s) : s[i] \in Range(s)
      /\ Len(t) \in Nat /\ DOMAIN t = 1 .. Len(t) /\ \A i \in 1 .. Len(t) : t[i] \in Range(t)
  BY RangeOf
<1>2. /\ DOMAIN b = 1 .. Len(s) + Len(t)
      /\ \A i \in 1 .. Len(s) + Len(t) : b[i] = IF i <= Len(s) THEN s[i] ELSE t[i - Len(s)]
  BY Joined
<1> HIDE DEF b
<1>3. ASSUME NEW i \in DOMAIN b, NEW j \in DOMAIN b, i < j PROVE b[i] < b[j]
  <2>1. CASE j <= Len(s)
    BY <1>1, <1>2, <1>3, <2>1 DEF Rising
  <2>2. CASE i > Len(s)
    <3>1. i - Len(s) \in 1 .. Len(t) /\ j - Len(s) \in 1 .. Len(t) /\ i - Len(s) < j - Len(s)
      BY <1>1, <1>2, <1>3, <2>2
    <3>2. t[i - Len(s)] < t[j - Len(s)]
      BY <1>1, <3>1 DEF Rising
    <3>3. b[i] = t[i - Len(s)] /\ b[j] = t[j - Len(s)]
      BY <1>1, <1>2, <1>3, <2>2
    <3>4. QED BY <3>2, <3>3
  <2>3. CASE i <= Len(s) /\ j > Len(s)
    <3>1. i \in 1 .. Len(s) /\ j - Len(s) \in 1 .. Len(t)
      BY <1>1, <1>2, <2>3
    <3>2. s[i] < t[j - Len(s)]
      BY <1>1, <3>1
    <3>3. b[i] = s[i] /\ b[j] = t[j - Len(s)]
      BY <1>1, <1>2, <2>3
    <3>4. QED BY <3>2, <3>3
  <2>4. QED BY <1>1, <1>2, <2>1, <2>2, <2>3
<1>4. QED BY <1>3 DEF Rising, b

(* So do two that carry on from each other. *)
LEMMA JoinedCarriesOn ==
  ASSUME NEW s \in Seq(Nat), NEW t \in Seq(Nat), NEW n \in Nat,
         From(n, s), From(n + Len(s), t)
  PROVE  From(n, s \o t)
<1> DEFINE b == s \o t
<1>1. /\ Len(s) \in Nat /\ DOMAIN s = 1 .. Len(s)
      /\ Len(t) \in Nat /\ DOMAIN t = 1 .. Len(t)
  BY RangeOf
<1>2. /\ DOMAIN b = 1 .. Len(s) + Len(t)
      /\ \A i \in 1 .. Len(s) + Len(t) : b[i] = IF i <= Len(s) THEN s[i] ELSE t[i - Len(s)]
  BY Joined
<1> HIDE DEF b
<1>3. ASSUME NEW i \in DOMAIN b PROVE b[i] = n + i
  <2>1. CASE i <= Len(s)
    BY <1>1, <1>2, <2>1 DEF From
  <2>2. CASE i > Len(s)
    <3>1. i - Len(s) \in 1 .. Len(t)
      BY <1>1, <1>2, <2>2
    <3>2. t[i - Len(s)] = n + Len(s) + (i - Len(s))
      BY <1>1, <3>1 DEF From
    <3>3. QED BY <1>1, <1>2, <2>2, <3>2
  <2>3. QED BY <1>1, <1>2, <2>1, <2>2
<1>4. QED BY <1>3 DEF From, b

(* What is behind the head of a rising sequence. *)
LEMMA TailRises ==
  ASSUME NEW s \in Seq(Nat), s # <<>>, Rising(s)
  PROVE  Rising(Tail(s)) /\ \A p \in Range(Tail(s)) : Head(s) < p
<1> DEFINE r == Tail(s)
<1>1. /\ r \in Seq(Nat) /\ Len(s) >= 1 /\ Head(s) = s[1] /\ DOMAIN r = 1 .. Len(s) - 1
      /\ \A i \in 1 .. Len(s) - 1 : r[i] = s[i + 1]
      /\ Len(r) = Len(s) - 1 /\ Len(s) \in Nat /\ DOMAIN s = 1 .. Len(s)
  BY Beheaded, LenProperties
<1> HIDE DEF r
<1>2. Range(r) = {r[i] : i \in 1 .. Len(s) - 1}
  BY <1>1, RangeOf
<1>3. ASSUME NEW i \in 1 .. Len(s) - 1
      PROVE  s[1] < r[i] /\ \A j \in 1 .. Len(s) - 1 : i < j => r[i] < r[j]
  <2>1. i + 1 \in DOMAIN s /\ 1 \in DOMAIN s /\ 1 < i + 1
    BY <1>1
  <2>2. \A j \in 1 .. Len(s) - 1 : j + 1 \in DOMAIN s /\ (i < j => i + 1 < j + 1)
    BY <1>1
  <2>3. QED BY <1>1, <2>1, <2>2 DEF Rising
<1>4. QED BY <1>1, <1>2, <1>3 DEF Rising, r

LEMMA TailCarriesOn ==
  ASSUME NEW s \in Seq(Nat), s # <<>>, NEW n \in Nat, From(n, s)
  PROVE  Head(s) = n + 1 /\ From(n + 1, Tail(s))
<1> DEFINE r == Tail(s)
<1>1. /\ Len(s) >= 1 /\ Head(s) = s[1] /\ DOMAIN r = 1 .. Len(s) - 1
      /\ \A i \in 1 .. Len(s) - 1 : r[i] = s[i + 1]
      /\ Len(s) \in Nat /\ DOMAIN s = 1 .. Len(s)
  BY Beheaded, LenProperties
<1> HIDE DEF r
<1>2. ASSUME NEW i \in 1 .. Len(s) - 1 PROVE r[i] = n + 1 + i
  <2>1. i + 1 \in DOMAIN s
    BY <1>1
  <2>2. s[i + 1] = n + (i + 1)
    BY <2>1 DEF From
  <2>3. QED BY <1>1, <2>2
<1>3. Head(s) = n + 1
  <2>1. 1 \in DOMAIN s
    BY <1>1
  <2>2. QED BY <1>1, <2>1 DEF From
<1>4. QED BY <1>1, <1>2, <1>3 DEF From, r
=============================================================================
