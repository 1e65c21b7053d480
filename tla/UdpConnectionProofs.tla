------------------------- MODULE UdpConnectionProofs -------------------------
(****************************************************************************)
(* Theorems about UdpConnection, for any number of connects, timeouts and   *)
(* failures, with or without the tunnel.                                    *)
(****************************************************************************)
EXTENDS UdpConnection, SequenceTheorems, TLAPS

(* Where the thread of a UDP connection can be, and that of a serial one. *)
UdpPc == {"none", "starting", "recv", "blocked", "error", "tunnel", "wait", "done"}
SerialPc == {"starting", "serial", "opening", "done"}

KindOfThread(g) ==
  /\ kind[g] = "udp" => pc[g] \in UdpPc
  /\ kind[g] = "serial" => pc[g] \in SerialPc

(* A connection that was never made has nothing; a device is opened by its
   receive thread only, and only while it is closed. *)
Untouched(g) ==
  /\ pc[g] = "none" =>
       sock[g] = "none" /\ ~connected[g] /\ failures[g] = 0 /\ current # g /\ ~outlived[g]
  /\ pc[g] = "starting" => sock[g] # "closed"
  /\ kind[g] = "serial" /\ pc[g] \in {"starting", "opening"} => sock[g] # "open"

(* UpMeansFresh, of one connection. *)
Fresh(g) ==
  /\ kind[g] = "udp" /\ connected[g] => failures[g] = 0
  /\ kind[g] = "serial" /\ sock[g] = "open" => connected[g] /\ failures[g] = 0

(* A thread that is at work has its flag set, or is being joined, or the join
   has given up on it. *)
AtWork == Pc \ {"none", "starting", "done"}
FlagFollowsStop(g) == pc[g] \in AtWork => running[g] \/ current = g \/ outlived[g]

(* What there is before a connection is made, and what a join that succeeded
   and the close after it leave behind. *)
JoinedIsClean(g) ==
  pc[g] \in {"none", "done"} /\ current # g /\ ~outlived[g] =>
    g \notin Range(bound) /\ tunnel[g] = "none" /\ (pc[g] = "done" => sock[g] # "open")

Thread(g) ==
  KindOfThread(g) /\ Untouched(g) /\ Fresh(g) /\ FlagFollowsStop(g) /\ JoinedIsClean(g)

(* No socket has two places at the port. *)
BoundOnce == \A i, j \in DOMAIN bound : bound[i] = bound[j] => i = j

(* stop waits for a receive thread that was started. *)
StopUnderWay == joining => current \in Conn /\ pc[current] # "starting"

IInv == TypeOK /\ BoundOnce /\ StopUnderWay /\ \A g \in Conn : Thread(g)

(* What a step of connection g leaves alone, and what is to be shown of it. *)
Others(g) ==
  \A h \in Conn \ {g} :
    /\ kind'[h] = kind[h] /\ pc'[h] = pc[h] /\ running'[h] = running[h]
    /\ sock'[h] = sock[h] /\ failures'[h] = failures[h] /\ connected'[h] = connected[h]
    /\ tunnel'[h] = tunnel[h] /\ outlived'[h] = outlived[h]
    /\ current' = h <=> current = h
    /\ h \in Range(bound') <=> h \in Range(bound)

StepOf(g) == TypeOK' /\ BoundOnce' /\ StopUnderWay' /\ Others(g) /\ Thread(g)'

-----------------------------------------------------------------------------
(* The sockets at the port. *)

LEMMA Removed ==
  ASSUME NEW S, NEW s \in Seq(S), NEW i \in 1 .. Len(s)
  PROVE  /\ RemoveAt(s, i) \in Seq(S)
         /\ Len(RemoveAt(s, i)) = Len(s) - 1
         /\ \A j \in 1 .. Len(s) - 1 :
              RemoveAt(s, i)[j] = IF j < i THEN s[j] ELSE s[j + 1]
<1> DEFINE before == SubSeq(s, 1, i - 1)
           after == SubSeq(s, i + 1, Len(s))
<1>1. Len(s) \in Nat /\ \A j \in 1 .. Len(s) : s[j] \in S
  BY LenProperties
<1>2. /\ before \in Seq(S) /\ Len(before) = i - 1
      /\ \A j \in 1 .. i - 1 : before[j] = s[j]
  <2>1. /\ before \in Seq(S)
        /\ Len(before) = IF 1 <= i - 1 THEN i - 1 - 1 + 1 ELSE 0
        /\ \A j \in 1 .. i - 1 - 1 + 1 : before[j] = s[1 + j - 1]
    BY <1>1, SubSeqProperties
  <2>2. QED BY <1>1, <2>1
<1>3. /\ after \in Seq(S) /\ Len(after) = Len(s) - i
      /\ \A j \in 1 .. Len(s) - i : after[j] = s[i + j]
  <2>1. /\ after \in Seq(S)
        /\ Len(after) = IF i + 1 <= Len(s) THEN Len(s) - (i + 1) + 1 ELSE 0
        /\ \A j \in 1 .. Len(s) - (i + 1) + 1 : after[j] = s[i + 1 + j - 1]
    BY <1>1, SubSeqProperties
  <2>2. QED BY <1>1, <2>1
<1>4. RemoveAt(s, i) = before \o after
  BY DEF RemoveAt
<1> HIDE DEF before, after
<1>5. /\ before \o after \in Seq(S)
      /\ Len(before \o after) = Len(before) + Len(after)
      /\ \A j \in 1 .. Len(before) + Len(after) :
           (before \o after)[j] = IF j <= Len(before) THEN before[j] ELSE after[j - Len(before)]
  BY <1>2, <1>3, ConcatProperties
<1>6. QED BY <1>1, <1>2, <1>3, <1>4, <1>5

LEMMA RangeOf ==
  ASSUME NEW S, NEW s \in Seq(S)
  PROVE  Range(s) = {s[i] : i \in 1 .. Len(s)} /\ Range(s) \subseteq S
  BY RangeEquality, RangeOfSeq

(* To unbind a socket takes it, and nothing else, from the port. *)
LEMMA Unbinds ==
  ASSUME TypeOK, BoundOnce, NEW g \in Conn
  PROVE  /\ Unbound(g) \in Seq(Conn)
         /\ Range(Unbound(g)) = Range(bound) \ {g}
         /\ \A i, j \in DOMAIN Unbound(g) : Unbound(g)[i] = Unbound(g)[j] => i = j
<1>1. bound \in Seq(Conn) /\ Len(bound) \in Nat /\ DOMAIN bound = 1 .. Len(bound)
  BY LenProperties DEF TypeOK
<1>2. CASE g \notin Range(bound)
  BY <1>1, <1>2 DEF Unbound, BoundOnce
<1>3. CASE g \in Range(bound)
  <2>1. Place(g) \in 1 .. Len(bound) /\ bound[Place(g)] = g
    BY <1>1, <1>3, RangeOf DEF Place
  <2>2. PICK k \in 1 .. Len(bound) : k = Place(g)
    BY <2>1
  <2>3. Unbound(g) = RemoveAt(bound, k)
    BY <1>3, <2>2 DEF Unbound
  <2>4. /\ Unbound(g) \in Seq(Conn)
        /\ Len(Unbound(g)) = Len(bound) - 1
        /\ \A j \in 1 .. Len(bound) - 1 :
             Unbound(g)[j] = IF j < k THEN bound[j] ELSE bound[j + 1]
    BY <1>1, <2>3, Removed
  <2>5. DOMAIN Unbound(g) = 1 .. Len(bound) - 1
    BY <2>4, LenProperties
  <2>6. \A i, j \in DOMAIN Unbound(g) : Unbound(g)[i] = Unbound(g)[j] => i = j
    <3>1. SUFFICES ASSUME NEW i \in 1 .. Len(bound) - 1, NEW j \in 1 .. Len(bound) - 1,
                          Unbound(g)[i] = Unbound(g)[j]
                   PROVE  i = j
      BY <2>5
    <3>2. bound[IF i < k THEN i ELSE i + 1] = bound[IF j < k THEN j ELSE j + 1]
      BY <2>4, <3>1
    <3>3. (IF i < k THEN i ELSE i + 1) = (IF j < k THEN j ELSE j + 1)
      BY <1>1, <3>2 DEF BoundOnce
    <3>4. QED BY <1>1, <3>3
  <2>7. Range(Unbound(g)) = {Unbound(g)[j] : j \in 1 .. Len(bound) - 1}
    BY <2>4, RangeOf
  <2>8. Range(bound) = {bound[j] : j \in 1 .. Len(bound)}
    BY <1>1, RangeOf
  <2>9. ASSUME NEW h \in Range(bound), h # g PROVE h \in Range(Unbound(g))
    <3>1. PICK j \in 1 .. Len(bound) : bound[j] = h
      BY <2>8
    <3>2. CASE j < k
      BY <1>1, <2>4, <2>7, <3>1, <3>2
    <3>3. CASE j > k
      <4>1. j - 1 \in 1 .. Len(bound) - 1 /\ ~(j - 1 < k) /\ j - 1 + 1 = j
        BY <1>1, <3>3
      <4>2. Unbound(g)[j - 1] = h
        BY <2>4, <3>1, <4>1
      <4>3. QED BY <2>7, <4>1, <4>2
    <3>4. j # k
      BY <2>1, <2>2, <2>9, <3>1
    <3>5. QED BY <1>1, <3>2, <3>3, <3>4
  <2>10. ASSUME NEW j \in 1 .. Len(bound) - 1 PROVE Unbound(g)[j] \in Range(bound) \ {g}
    <3>1. PICK i \in 1 .. Len(bound) : Unbound(g)[j] = bound[i] /\ i # k
      BY <1>1, <2>4
    <3>2. bound[i] # g
      BY <1>1, <2>1, <2>2, <3>1 DEF BoundOnce
    <3>3. QED BY <2>8, <3>1, <3>2
  <2>11. QED BY <2>4, <2>6, <2>7, <2>9, <2>10
<1>4. QED BY <1>2, <1>3

(* To bind one that is not there adds it. *)
LEMMA Binds ==
  ASSUME NEW s \in Seq(Conn), NEW g \in Conn, g \notin Range(s),
         \A i, j \in DOMAIN s : s[i] = s[j] => i = j
  PROVE  /\ Append(s, g) \in Seq(Conn)
         /\ Range(Append(s, g)) = Range(s) \union {g}
         /\ \A i, j \in DOMAIN Append(s, g) : Append(s, g)[i] = Append(s, g)[j] => i = j
<1>1. Len(s) \in Nat /\ DOMAIN s = 1 .. Len(s)
  BY LenProperties
<1>2. /\ Append(s, g) \in Seq(Conn) /\ Len(Append(s, g)) = Len(s) + 1
      /\ \A i \in 1 .. Len(s) : Append(s, g)[i] = s[i]
      /\ Append(s, g)[Len(s) + 1] = g
  BY AppendProperties
<1>3. DOMAIN Append(s, g) = 1 .. Len(s) + 1
  BY <1>2, LenProperties
<1>4. Range(s) = {s[i] : i \in 1 .. Len(s)}
      /\ Range(Append(s, g)) = {Append(s, g)[i] : i \in 1 .. Len(s) + 1}
  BY <1>2, RangeOf
<1>5. \A i \in 1 .. Len(s) : s[i] # g
  BY <1>4
<1>6. \A i, j \in DOMAIN Append(s, g) : Append(s, g)[i] = Append(s, g)[j] => i = j
  BY <1>1, <1>2, <1>3, <1>5
<1>7. Range(Append(s, g)) = Range(s) \union {g}
  BY <1>1, <1>2, <1>4
<1>8. QED BY <1>2, <1>6, <1>7

-----------------------------------------------------------------------------
(* Each step is a step of one connection. *)

LEMMA OneAtATime ==
  ASSUME IInv, NEW g \in Conn, StepOf(g)
  PROVE  IInv'
<1>1. ASSUME NEW h \in Conn, h # g PROVE Thread(h)'
  <2>1. Thread(h)
    BY DEF IInv
  <2>2. QED
    BY <1>1, <2>1
       DEF StepOf, Others, Thread, KindOfThread, Untouched, Fresh, FlagFollowsStop, JoinedIsClean
<1>2. QED BY <1>1 DEF IInv, StepOf

(* What a step may do to the port: nothing, unbind its connection, or bind it
   anew. *)
LEMMA PortMoves ==
  ASSUME IInv, NEW g \in Conn, bound' \in {bound, Unbound(g), Append(Unbound(g), g)}
  PROVE  /\ bound' \in Seq(Conn) /\ BoundOnce'
         /\ \A h \in Conn \ {g} : h \in Range(bound') <=> h \in Range(bound)
         /\ bound' = Unbound(g) => g \notin Range(bound')
<1>1. TypeOK /\ BoundOnce
  BY DEF IInv
<1>2. /\ Unbound(g) \in Seq(Conn) /\ Range(Unbound(g)) = Range(bound) \ {g}
      /\ \A i, j \in DOMAIN Unbound(g) : Unbound(g)[i] = Unbound(g)[j] => i = j
  BY <1>1, Unbinds
<1>3. CASE bound' = bound
  BY <1>1, <1>2, <1>3 DEF TypeOK, BoundOnce
<1>4. CASE bound' = Unbound(g)
  BY <1>2, <1>4 DEF BoundOnce
<1>5. CASE bound' = Append(Unbound(g), g)
  <2>1. /\ bound' \in Seq(Conn) /\ Range(bound') = Range(Unbound(g)) \union {g}
        /\ \A i, j \in DOMAIN bound' : bound'[i] = bound'[j] => i = j
    BY <1>2, <1>5, Binds
  <2>2. bound' # Unbound(g)
    BY <1>2, <1>5, AppendProperties, LenProperties
  <2>3. QED BY <1>2, <2>1, <2>2 DEF BoundOnce
<1>6. QED BY <1>3, <1>4, <1>5

LEMMA Ranges ==
  ASSUME IInv, NEW g \in Conn
  PROVE  /\ MoreFailures(g) \in 0 .. FailureCap
         /\ Loop(g) \in {"done", "blocked", "recv"} /\ (Loop(g) = "done" <=> ~running[g])
  BY FailureCapAssumption DEF IInv, TypeOK, MoreFailures, Loop

(* A new connection is not at the port yet. *)
LEMMA ConnectSteps ==
  ASSUME IInv, NEW g \in Conn, Connect(g)
  PROVE  StepOf(g)
<1> USE DEF Connect, loopVars
<1>1. bound' \in {bound, Unbound(g), Append(Unbound(g), g)}
  <2>1. g \notin Range(bound)
    BY DEF IInv, Thread, JoinedIsClean, Untouched
  <2>2. QED BY <2>1 DEF Unbound
<1>2. TypeOK'
  <2>1. bound' \in Seq(Conn)
    BY <1>1, PortMoves
  <2>2. QED
    BY <2>1, Ranges, MaxTimeoutsAssumption, FailureCapAssumption DEF IInv, TypeOK, Pc, Sock
<1>3. BoundOnce' /\ StopUnderWay'
  <2>1. BoundOnce'
    BY <1>1, PortMoves
  <2>2. StopUnderWay'
    BY Ranges, NoConnAssumption DEF IInv, TypeOK, StopUnderWay
  <2>3. QED BY <2>1, <2>2
<1>4. Others(g)
  BY <1>1, PortMoves, NoConnAssumption DEF Others, IInv, TypeOK
<1>5. Thread(g)'
  <2>1. KindOfThread(g) /\ Untouched(g) /\ Fresh(g) /\ FlagFollowsStop(g) /\ JoinedIsClean(g)
    BY DEF IInv, Thread
  <2>2. KindOfThread(g)'
    BY <2>1, Ranges DEF IInv, TypeOK, KindOfThread, UdpPc, SerialPc
  <2>3. Untouched(g)'
    BY <2>1, Ranges, NoConnAssumption
       DEF IInv, TypeOK, StopUnderWay, KindOfThread, Untouched, UdpPc, SerialPc
  <2>4. Fresh(g)'
    BY <2>1, Ranges DEF IInv, TypeOK, KindOfThread, Untouched, Fresh, UdpPc, SerialPc
  <2>5. FlagFollowsStop(g)'
    BY <2>1, Ranges DEF IInv, TypeOK, FlagFollowsStop, AtWork, Pc
  <2>6. JoinedIsClean(g)'
    BY <1>1, <2>1, PortMoves, Ranges
       DEF IInv, TypeOK, Untouched, FlagFollowsStop, JoinedIsClean, AtWork, Pc
  <2>7. QED BY <2>2, <2>3, <2>4, <2>5, <2>6 DEF Thread
<1>6. QED BY <1>2, <1>3, <1>4, <1>5 DEF StepOf

(* The router thread calls start; stop clears the flag. *)
LEMMA FlagSteps ==
  ASSUME IInv, NEW g \in Conn, Start(g) \/ Disconnect(g)
  PROVE  StepOf(g)
<1> USE DEF Start, Disconnect, loopVars
<1>1. bound' \in {bound, Unbound(g), Append(Unbound(g), g)}
  OBVIOUS
<1>2. TypeOK'
  <2>1. bound' \in Seq(Conn)
    BY <1>1, PortMoves
  <2>2. CASE Start(g)
    BY <2>1, <2>2, Ranges, MaxTimeoutsAssumption, FailureCapAssumption
       DEF IInv, TypeOK, Pc, Sock
  <2>3. CASE Disconnect(g)
    BY <2>1, <2>3, Ranges, MaxTimeoutsAssumption, FailureCapAssumption
       DEF IInv, TypeOK, Pc, Sock
  <2>4. QED BY <2>2, <2>3
<1>3. BoundOnce' /\ StopUnderWay'
  <2>1. BoundOnce'
    BY <1>1, PortMoves
  <2>2. \A h \in Conn : pc'[h] = "starting" => pc[h] = "starting"
    BY Ranges DEF IInv, TypeOK
  <2>3. StopUnderWay'
    BY <2>2 DEF IInv, TypeOK, StopUnderWay
  <2>4. QED BY <2>1, <2>3
<1>4. Others(g)
  BY <1>1, PortMoves, NoConnAssumption DEF Others, IInv, TypeOK
<1>5. Thread(g)'
  <2>1. KindOfThread(g) /\ Untouched(g) /\ Fresh(g) /\ FlagFollowsStop(g) /\ JoinedIsClean(g)
    BY DEF IInv, Thread
  <2>2. KindOfThread(g)'
    BY <2>1, Ranges DEF IInv, TypeOK, KindOfThread, UdpPc, SerialPc
  <2>3. Untouched(g)'
    BY <2>1, Ranges, NoConnAssumption
       DEF IInv, TypeOK, StopUnderWay, KindOfThread, Untouched, UdpPc, SerialPc
  <2>4. Fresh(g)'
    BY <2>1, Ranges DEF IInv, TypeOK, KindOfThread, Untouched, Fresh, UdpPc, SerialPc
  <2>5. FlagFollowsStop(g)'
    BY <2>1, Ranges DEF IInv, TypeOK, FlagFollowsStop, AtWork, Pc
  <2>6. JoinedIsClean(g)'
    BY <1>1, <2>1, PortMoves, Ranges
       DEF IInv, TypeOK, Untouched, FlagFollowsStop, JoinedIsClean, AtWork, Pc
  <2>7. QED BY <2>2, <2>3, <2>4, <2>5, <2>6 DEF Thread
<1>6. QED BY <1>2, <1>3, <1>4, <1>5 DEF StepOf

(* stop has joined, or not, and closes. *)
LEMMA CloseSteps ==
  ASSUME IInv, NEW g \in Conn, Close(g)
  PROVE  StepOf(g)
<1> USE DEF Close, loopVars
<1>1. bound' \in {bound, Unbound(g), Append(Unbound(g), g)}
  OBVIOUS
<1>2. TypeOK'
  <2>1. bound' \in Seq(Conn)
    BY <1>1, PortMoves
  <2>2. QED
    BY <2>1, Ranges, MaxTimeoutsAssumption, FailureCapAssumption DEF IInv, TypeOK, Pc, Sock
<1>3. BoundOnce' /\ StopUnderWay'
  <2>1. BoundOnce'
    BY <1>1, PortMoves
  <2>2. StopUnderWay'
    BY Ranges, NoConnAssumption DEF IInv, TypeOK, StopUnderWay
  <2>3. QED BY <2>1, <2>2
<1>4. Others(g)
  BY <1>1, PortMoves, NoConnAssumption DEF Others, IInv, TypeOK
<1>5. Thread(g)'
  <2>1. KindOfThread(g) /\ Untouched(g) /\ Fresh(g) /\ FlagFollowsStop(g) /\ JoinedIsClean(g)
    BY DEF IInv, Thread
  <2>2. KindOfThread(g)'
    BY <2>1, Ranges DEF IInv, TypeOK, KindOfThread, UdpPc, SerialPc
  <2>3. Untouched(g)'
    BY <2>1, Ranges, NoConnAssumption
       DEF IInv, TypeOK, StopUnderWay, KindOfThread, Untouched, UdpPc, SerialPc
  <2>4. Fresh(g)'
    BY <2>1, Ranges DEF IInv, TypeOK, KindOfThread, Untouched, Fresh, UdpPc, SerialPc
  <2>5. FlagFollowsStop(g)'
    BY <2>1, Ranges DEF IInv, TypeOK, FlagFollowsStop, AtWork, Pc
  <2>6. JoinedIsClean(g)'
    BY <1>1, <2>1, PortMoves, Ranges
       DEF IInv, TypeOK, Untouched, FlagFollowsStop, JoinedIsClean, AtWork, Pc
  <2>7. QED BY <2>2, <2>3, <2>4, <2>5, <2>6 DEF Thread
<1>6. QED BY <1>2, <1>3, <1>4, <1>5 DEF StepOf

(* A datagram. *)
LEMMA DatagramSteps ==
  ASSUME IInv, NEW g \in Conn, Receive(g) \/ Answered(g)
  PROVE  StepOf(g)
<1> USE DEF Receive, Answered, loopVars
<1>1. bound' \in {bound, Unbound(g), Append(Unbound(g), g)}
  OBVIOUS
<1>2. TypeOK'
  <2>1. bound' \in Seq(Conn)
    BY <1>1, PortMoves
  <2>2. CASE Receive(g)
    BY <2>1, <2>2, Ranges, MaxTimeoutsAssumption, FailureCapAssumption
       DEF IInv, TypeOK, Pc, Sock
  <2>3. CASE Answered(g)
    BY <2>1, <2>3, Ranges, MaxTimeoutsAssumption, FailureCapAssumption
       DEF IInv, TypeOK, Pc, Sock
  <2>4. QED BY <2>2, <2>3
<1>3. BoundOnce' /\ StopUnderWay'
  <2>1. BoundOnce'
    BY <1>1, PortMoves
  <2>2. \A h \in Conn : pc'[h] = "starting" => pc[h] = "starting"
    <3>1. CASE Receive(g)
      BY <3>1, Ranges DEF IInv, TypeOK
    <3>2. CASE Answered(g)
      BY <3>2, Ranges DEF IInv, TypeOK
    <3>3. QED BY <3>1, <3>2
  <2>3. StopUnderWay'
    BY <2>2 DEF IInv, TypeOK, StopUnderWay
  <2>4. QED BY <2>1, <2>3
<1>4. Others(g)
  BY <1>1, PortMoves, NoConnAssumption DEF Others, IInv, TypeOK
<1>5. Thread(g)'
  <2>1. KindOfThread(g) /\ Untouched(g) /\ Fresh(g) /\ FlagFollowsStop(g) /\ JoinedIsClean(g)
    BY DEF IInv, Thread
  <2>2. KindOfThread(g)'
    BY <2>1, Ranges DEF IInv, TypeOK, KindOfThread, UdpPc, SerialPc
  <2>3. Untouched(g)'
    BY <2>1, Ranges, NoConnAssumption
       DEF IInv, TypeOK, StopUnderWay, KindOfThread, Untouched, UdpPc, SerialPc
  <2>4. Fresh(g)'
    BY <2>1, Ranges DEF IInv, TypeOK, KindOfThread, Untouched, Fresh, UdpPc, SerialPc
  <2>5. FlagFollowsStop(g)'
    BY <2>1, Ranges DEF IInv, TypeOK, FlagFollowsStop, AtWork, Pc
  <2>6. JoinedIsClean(g)'
    BY <1>1, <2>1, PortMoves, Ranges
       DEF IInv, TypeOK, Untouched, FlagFollowsStop, JoinedIsClean, AtWork, Pc
  <2>7. QED BY <2>2, <2>3, <2>4, <2>5, <2>6 DEF Thread
<1>6. QED BY <1>2, <1>3, <1>4, <1>5 DEF StepOf

(* recvfrom fails. *)
LEMMA FailSteps ==
  ASSUME IInv, NEW g \in Conn, RecvFails(g) \/ Reset(g)
  PROVE  StepOf(g)
<1> USE DEF RecvFails, Reset, loopVars
<1>1. bound' \in {bound, Unbound(g), Append(Unbound(g), g)}
  OBVIOUS
<1>2. TypeOK'
  <2>1. bound' \in Seq(Conn)
    BY <1>1, PortMoves
  <2>2. CASE RecvFails(g)
    BY <2>1, <2>2, Ranges, MaxTimeoutsAssumption, FailureCapAssumption
       DEF IInv, TypeOK, Pc, Sock
  <2>3. CASE Reset(g)
    BY <2>1, <2>3, Ranges, MaxTimeoutsAssumption, FailureCapAssumption
       DEF IInv, TypeOK, Pc, Sock
  <2>4. QED BY <2>2, <2>3
<1>3. BoundOnce' /\ StopUnderWay'
  <2>1. BoundOnce'
    BY <1>1, PortMoves
  <2>2. \A h \in Conn : pc'[h] = "starting" => pc[h] = "starting"
    BY Ranges DEF IInv, TypeOK
  <2>3. StopUnderWay'
    BY <2>2 DEF IInv, TypeOK, StopUnderWay
  <2>4. QED BY <2>1, <2>3
<1>4. Others(g)
  BY <1>1, PortMoves, NoConnAssumption DEF Others, IInv, TypeOK
<1>5. Thread(g)'
  <2>1. KindOfThread(g) /\ Untouched(g) /\ Fresh(g) /\ FlagFollowsStop(g) /\ JoinedIsClean(g)
    BY DEF IInv, Thread
  <2>2. KindOfThread(g)'
    BY <2>1, Ranges DEF IInv, TypeOK, KindOfThread, UdpPc, SerialPc
  <2>3. Untouched(g)'
    BY <2>1, Ranges, NoConnAssumption
       DEF IInv, TypeOK, StopUnderWay, KindOfThread, Untouched, UdpPc, SerialPc
  <2>4. Fresh(g)'
    BY <2>1, Ranges DEF IInv, TypeOK, KindOfThread, Untouched, Fresh, UdpPc, SerialPc
  <2>5. FlagFollowsStop(g)'
    BY <2>1, Ranges DEF IInv, TypeOK, FlagFollowsStop, AtWork, Pc
  <2>6. JoinedIsClean(g)'
    BY <1>1, <2>1, PortMoves, Ranges
       DEF IInv, TypeOK, Untouched, FlagFollowsStop, JoinedIsClean, AtWork, Pc
  <2>7. QED BY <2>2, <2>3, <2>4, <2>5, <2>6 DEF Thread
<1>6. QED BY <1>2, <1>3, <1>4, <1>5 DEF StepOf

(* recvfrom times out. *)
LEMMA TimeoutSteps ==
  ASSUME IInv, NEW g \in Conn, Timeout(g) \/ LinkDown(g)
  PROVE  StepOf(g)
<1> USE DEF Timeout, LinkDown, loopVars, TimesOut
<1>1. bound' \in {bound, Unbound(g), Append(Unbound(g), g)}
  OBVIOUS
<1>2. TypeOK'
  <2>1. bound' \in Seq(Conn)
    BY <1>1, PortMoves
  <2>2. CASE Timeout(g)
    <3>1. pc' \in [Conn -> Pc]
      BY <2>2, Ranges DEF IInv, TypeOK, Pc
    <3>2. timeouts' \in [Conn -> 0 .. MaxTimeouts - 1]
      BY <2>2, MaxTimeoutsAssumption DEF IInv, TypeOK
    <3>3. QED BY <2>1, <2>2, <3>1, <3>2 DEF IInv, TypeOK
  <2>3. CASE LinkDown(g)
    <3>1. pc' \in [Conn -> Pc] /\ tunnel' \in [Conn -> {"none", "alive", "dead"}]
      BY <2>3 DEF IInv, TypeOK, Pc
    <3>2. timeouts' \in [Conn -> 0 .. MaxTimeouts - 1] /\ failures' \in [Conn -> 0 .. FailureCap]
      BY <2>3, Ranges, MaxTimeoutsAssumption DEF IInv, TypeOK
    <3>3. QED BY <2>1, <2>3, <3>1, <3>2 DEF IInv, TypeOK
  <2>4. QED BY <2>2, <2>3
<1>3. BoundOnce' /\ StopUnderWay'
  <2>1. BoundOnce'
    BY <1>1, PortMoves
  <2>2. \A h \in Conn : pc'[h] = "starting" => pc[h] = "starting"
    <3>1. CASE Timeout(g)
      BY <3>1, Ranges DEF IInv, TypeOK
    <3>2. CASE LinkDown(g)
      BY <3>2, Ranges DEF IInv, TypeOK
    <3>3. QED BY <3>1, <3>2
  <2>3. StopUnderWay'
    BY <2>2 DEF IInv, TypeOK, StopUnderWay
  <2>4. QED BY <2>1, <2>3
<1>4. Others(g)
  BY <1>1, PortMoves, NoConnAssumption DEF Others, IInv, TypeOK
<1>5. Thread(g)'
  <2>1. KindOfThread(g) /\ Untouched(g) /\ Fresh(g) /\ FlagFollowsStop(g) /\ JoinedIsClean(g)
    BY DEF IInv, Thread
  <2>2. KindOfThread(g)'
    BY <2>1, Ranges DEF IInv, TypeOK, KindOfThread, UdpPc, SerialPc
  <2>3. Untouched(g)'
    BY <2>1, Ranges, NoConnAssumption
       DEF IInv, TypeOK, StopUnderWay, KindOfThread, Untouched, UdpPc, SerialPc
  <2>4. Fresh(g)'
    BY <2>1, Ranges DEF IInv, TypeOK, KindOfThread, Untouched, Fresh, UdpPc, SerialPc
  <2>5. FlagFollowsStop(g)'
    BY <2>1, Ranges DEF IInv, TypeOK, FlagFollowsStop, AtWork, Pc
  <2>6. JoinedIsClean(g)'
    BY <1>1, <2>1, PortMoves, Ranges
       DEF IInv, TypeOK, Untouched, FlagFollowsStop, JoinedIsClean, AtWork, Pc
  <2>7. QED BY <2>2, <2>3, <2>4, <2>5, <2>6 DEF Thread
<1>6. QED BY <1>2, <1>3, <1>4, <1>5 DEF StepOf

(* The socket is made anew, or not. *)
LEMMA RebindSteps ==
  ASSUME IInv, NEW g \in Conn, Rebind(g)
  PROVE  StepOf(g)
<1> USE DEF Rebind, loopVars
<1>1. bound' \in {bound, Unbound(g), Append(Unbound(g), g)}
  OBVIOUS
<1>2. TypeOK'
  <2>1. bound' \in Seq(Conn)
    BY <1>1, PortMoves
  <2>2. sock' \in [Conn -> Sock]
    BY DEF IInv, TypeOK, Sock
  <2>3. pc' \in [Conn -> Pc]
    <3>1. PICK p \in Pc : pc' = [pc EXCEPT ![g] = p]
      BY DEF Pc
    <3>2. QED BY <3>1 DEF IInv, TypeOK
  <2>4. failures' \in [Conn -> 0 .. FailureCap]
    BY Ranges DEF IInv, TypeOK
  <2>5. QED BY <2>1, <2>2, <2>3, <2>4 DEF IInv, TypeOK
<1>3. BoundOnce' /\ StopUnderWay'
  <2>1. BoundOnce'
    BY <1>1, PortMoves
  <2>2. StopUnderWay'
    BY Ranges, NoConnAssumption DEF IInv, TypeOK, StopUnderWay
  <2>3. QED BY <2>1, <2>2
<1>4. Others(g)
  BY <1>1, PortMoves, NoConnAssumption DEF Others, IInv, TypeOK
<1>5. Thread(g)'
  <2>1. KindOfThread(g) /\ Untouched(g) /\ Fresh(g) /\ FlagFollowsStop(g) /\ JoinedIsClean(g)
    BY DEF IInv, Thread
  <2>2. KindOfThread(g)'
    BY <2>1, Ranges DEF IInv, TypeOK, KindOfThread, UdpPc, SerialPc
  <2>3. Untouched(g)'
    BY <2>1, Ranges, NoConnAssumption
       DEF IInv, TypeOK, StopUnderWay, KindOfThread, Untouched, UdpPc, SerialPc
  <2>4. Fresh(g)'
    BY <2>1, Ranges DEF IInv, TypeOK, KindOfThread, Untouched, Fresh, UdpPc, SerialPc
  <2>5. FlagFollowsStop(g)'
    BY <2>1, Ranges DEF IInv, TypeOK, FlagFollowsStop, AtWork, Pc
  <2>6. JoinedIsClean(g)'
    BY <1>1, <2>1, PortMoves, Ranges
       DEF IInv, TypeOK, Untouched, FlagFollowsStop, JoinedIsClean, AtWork, Pc
  <2>7. QED BY <2>2, <2>3, <2>4, <2>5, <2>6 DEF Thread
<1>6. QED BY <1>2, <1>3, <1>4, <1>5 DEF StepOf

(* The waits, and the end of ssh. *)
LEMMA WaitSteps ==
  ASSUME IInv, NEW g \in Conn, TunnelStarted(g) \/ WaitOver(g) \/ TunnelDies(g)
  PROVE  StepOf(g)
<1> USE DEF TunnelStarted, WaitOver, TunnelDies, loopVars
<1>1. bound' \in {bound, Unbound(g), Append(Unbound(g), g)}
  OBVIOUS
<1>2. TypeOK'
  <2>1. bound' \in Seq(Conn)
    BY <1>1, PortMoves
  <2>2. CASE TunnelStarted(g)
    BY <2>1, <2>2, Ranges, MaxTimeoutsAssumption, FailureCapAssumption
       DEF IInv, TypeOK, Pc, Sock
  <2>3. CASE WaitOver(g)
    BY <2>1, <2>3, Ranges, MaxTimeoutsAssumption, FailureCapAssumption
       DEF IInv, TypeOK, Pc, Sock
  <2>4. CASE TunnelDies(g)
    BY <2>1, <2>4, Ranges, MaxTimeoutsAssumption, FailureCapAssumption
       DEF IInv, TypeOK, Pc, Sock
  <2>5. QED BY <2>2, <2>3, <2>4
<1>3. BoundOnce' /\ StopUnderWay'
  <2>1. BoundOnce'
    BY <1>1, PortMoves
  <2>2. \A h \in Conn : pc'[h] = "starting" => pc[h] = "starting"
    <3>1. CASE TunnelStarted(g)
      BY <3>1, Ranges DEF IInv, TypeOK
    <3>2. CASE WaitOver(g)
      BY <3>2, Ranges DEF IInv, TypeOK
    <3>3. CASE TunnelDies(g)
      BY <3>3, Ranges DEF IInv, TypeOK
    <3>4. QED BY <3>1, <3>2, <3>3
  <2>3. StopUnderWay'
    BY <2>2 DEF IInv, TypeOK, StopUnderWay
  <2>4. QED BY <2>1, <2>3
<1>4. Others(g)
  BY <1>1, PortMoves, NoConnAssumption DEF Others, IInv, TypeOK
<1>5. Thread(g)'
  <2>1. KindOfThread(g) /\ Untouched(g) /\ Fresh(g) /\ FlagFollowsStop(g) /\ JoinedIsClean(g)
    BY DEF IInv, Thread
  <2>2. KindOfThread(g)'
    BY <2>1, Ranges DEF IInv, TypeOK, KindOfThread, UdpPc, SerialPc
  <2>3. Untouched(g)'
    BY <2>1, Ranges, NoConnAssumption
       DEF IInv, TypeOK, StopUnderWay, KindOfThread, Untouched, UdpPc, SerialPc
  <2>4. Fresh(g)'
    BY <2>1, Ranges DEF IInv, TypeOK, KindOfThread, Untouched, Fresh, UdpPc, SerialPc
  <2>5. FlagFollowsStop(g)'
    BY <2>1, Ranges DEF IInv, TypeOK, FlagFollowsStop, AtWork, Pc
  <2>6. JoinedIsClean(g)'
    BY <1>1, <2>1, PortMoves, Ranges
       DEF IInv, TypeOK, Untouched, FlagFollowsStop, JoinedIsClean, AtWork, Pc
  <2>7. QED BY <2>2, <2>3, <2>4, <2>5, <2>6 DEF Thread
<1>6. QED BY <1>2, <1>3, <1>4, <1>5 DEF StepOf

(* The serial loop opens its device. *)
LEMMA OpenSteps ==
  ASSUME IInv, NEW g \in Conn, OpenSerial(g) \/ SerialOpened(g)
  PROVE  StepOf(g)
<1> USE DEF OpenSerial, SerialOpened, loopVars
<1>1. bound' \in {bound, Unbound(g), Append(Unbound(g), g)}
  OBVIOUS
<1>2. TypeOK'
  <2>1. bound' \in Seq(Conn)
    BY <1>1, PortMoves
  <2>2. CASE OpenSerial(g)
    BY <2>1, <2>2, Ranges, MaxTimeoutsAssumption, FailureCapAssumption
       DEF IInv, TypeOK, Pc, Sock
  <2>3. CASE SerialOpened(g)
    <3>1. sock' \in [Conn -> Sock] /\ connected' \in [Conn -> BOOLEAN]
      BY <2>3 DEF IInv, TypeOK, Sock
    <3>2. failures' \in [Conn -> 0 .. FailureCap]
      BY <2>3, Ranges, FailureCapAssumption DEF IInv, TypeOK
    <3>3. QED BY <2>1, <2>3, <3>1, <3>2 DEF IInv, TypeOK, Pc
  <2>4. QED BY <2>2, <2>3
<1>3. BoundOnce' /\ StopUnderWay'
  <2>1. BoundOnce'
    BY <1>1, PortMoves
  <2>2. \A h \in Conn : pc'[h] = "starting" => pc[h] = "starting"
    BY Ranges DEF IInv, TypeOK
  <2>3. StopUnderWay'
    BY <2>2 DEF IInv, TypeOK, StopUnderWay
  <2>4. QED BY <2>1, <2>3
<1>4. Others(g)
  BY <1>1, PortMoves, NoConnAssumption DEF Others, IInv, TypeOK
<1>5. Thread(g)'
  <2>1. KindOfThread(g) /\ Untouched(g) /\ Fresh(g) /\ FlagFollowsStop(g) /\ JoinedIsClean(g)
    BY DEF IInv, Thread
  <2>2. KindOfThread(g)'
    BY <2>1, Ranges DEF IInv, TypeOK, KindOfThread, UdpPc, SerialPc
  <2>3. Untouched(g)'
    BY <2>1, Ranges, NoConnAssumption
       DEF IInv, TypeOK, StopUnderWay, KindOfThread, Untouched, UdpPc, SerialPc
  <2>4. Fresh(g)'
    BY <2>1, Ranges DEF IInv, TypeOK, KindOfThread, Untouched, Fresh, UdpPc, SerialPc
  <2>5. FlagFollowsStop(g)'
    BY <2>1, Ranges DEF IInv, TypeOK, FlagFollowsStop, AtWork, Pc
  <2>6. JoinedIsClean(g)'
    BY <1>1, <2>1, PortMoves, Ranges
       DEF IInv, TypeOK, Untouched, FlagFollowsStop, JoinedIsClean, AtWork, Pc
  <2>7. QED BY <2>2, <2>3, <2>4, <2>5, <2>6 DEF Thread
<1>6. QED BY <1>2, <1>3, <1>4, <1>5 DEF StepOf

(* The device fails, or the serial loop ends. *)
LEMMA SerialSteps ==
  ASSUME IInv, NEW g \in Conn, SerialFails(g) \/ SerialEnds(g)
  PROVE  StepOf(g)
<1> USE DEF SerialFails, SerialEnds, loopVars
<1>1. bound' \in {bound, Unbound(g), Append(Unbound(g), g)}
  OBVIOUS
<1>2. TypeOK'
  <2>1. bound' \in Seq(Conn)
    BY <1>1, PortMoves
  <2>2. CASE SerialFails(g)
    BY <2>1, <2>2, Ranges, MaxTimeoutsAssumption, FailureCapAssumption
       DEF IInv, TypeOK, Pc, Sock
  <2>3. CASE SerialEnds(g)
    BY <2>1, <2>3, Ranges, MaxTimeoutsAssumption, FailureCapAssumption
       DEF IInv, TypeOK, Pc, Sock
  <2>4. QED BY <2>2, <2>3
<1>3. BoundOnce' /\ StopUnderWay'
  <2>1. BoundOnce'
    BY <1>1, PortMoves
  <2>2. \A h \in Conn : pc'[h] = "starting" => pc[h] = "starting"
    <3>1. CASE SerialFails(g)
      BY <3>1
    <3>2. CASE SerialEnds(g)
      BY <3>2 DEF IInv, TypeOK
    <3>3. QED BY <3>1, <3>2
  <2>3. StopUnderWay'
    BY <2>2 DEF IInv, TypeOK, StopUnderWay
  <2>4. QED BY <2>1, <2>3
<1>4. Others(g)
  BY <1>1, PortMoves, NoConnAssumption DEF Others, IInv, TypeOK
<1>5. Thread(g)'
  <2>1. KindOfThread(g) /\ Untouched(g) /\ Fresh(g) /\ FlagFollowsStop(g) /\ JoinedIsClean(g)
    BY DEF IInv, Thread
  <2>2. KindOfThread(g)'
    BY <2>1, Ranges DEF IInv, TypeOK, KindOfThread, UdpPc, SerialPc
  <2>3. Untouched(g)'
    BY <2>1, Ranges, NoConnAssumption
       DEF IInv, TypeOK, StopUnderWay, KindOfThread, Untouched, UdpPc, SerialPc
  <2>4. Fresh(g)'
    BY <2>1, Ranges DEF IInv, TypeOK, KindOfThread, Untouched, Fresh, UdpPc, SerialPc
  <2>5. FlagFollowsStop(g)'
    BY <2>1, Ranges DEF IInv, TypeOK, FlagFollowsStop, AtWork, Pc
  <2>6. JoinedIsClean(g)'
    BY <1>1, <2>1, PortMoves, Ranges
       DEF IInv, TypeOK, Untouched, FlagFollowsStop, JoinedIsClean, AtWork, Pc
  <2>7. QED BY <2>2, <2>3, <2>4, <2>5, <2>6 DEF Thread
<1>6. QED BY <1>2, <1>3, <1>4, <1>5 DEF StepOf

-----------------------------------------------------------------------------
LEMMA InitEstablishes == Init => IInv
<1> SUFFICES ASSUME Init PROVE IInv
  OBVIOUS
<1> USE DEF Init
<1>1. bound \in Seq(Conn) /\ Range(bound) = {} /\ DOMAIN bound = {}
  <2>1. bound \in Seq(Conn) /\ Len(bound) = 0
    BY EmptySeq
  <2>2. DOMAIN bound = {}
    BY <2>1, LenProperties
  <2>3. QED BY <2>1, <2>2 DEF Range
<1>2. TypeOK
  <2>1. pc \in [Conn -> Pc] /\ sock \in [Conn -> Sock]
    BY DEF Pc, Sock
  <2>2. timeouts \in [Conn -> 0 .. MaxTimeouts - 1] /\ failures \in [Conn -> 0 .. FailureCap]
    BY MaxTimeoutsAssumption, FailureCapAssumption
  <2>3. QED BY <1>1, <2>1, <2>2 DEF TypeOK
<1>3. BoundOnce /\ StopUnderWay
  BY <1>1 DEF BoundOnce, StopUnderWay
<1>4. \A g \in Conn : Thread(g)
  BY <1>1, NoConnAssumption
     DEF Thread, KindOfThread, Untouched, Fresh, FlagFollowsStop, JoinedIsClean,
         UdpPc, SerialPc, AtWork
<1>5. QED BY <1>2, <1>3, <1>4 DEF IInv

LEMMA NextPreserves == IInv /\ [Next]_vars => IInv'
<1> SUFFICES ASSUME IInv, [Next]_vars PROVE IInv'
  OBVIOUS
<1>1. CASE Next
  <2>1. PICK g \in Conn : \/ Connect(g) \/ Start(g) \/ Disconnect(g) \/ Close(g)
                          \/ RecvThread(g) \/ Answered(g) \/ TunnelDies(g)
    BY <1>1 DEF Next
  <2>2. StepOf(g)
    BY <2>1, ConnectSteps, FlagSteps, CloseSteps, DatagramSteps, FailSteps, TimeoutSteps,
       RebindSteps, WaitSteps, OpenSteps, SerialSteps DEF RecvThread
  <2>3. QED BY <2>2, OneAtATime
<1>2. CASE UNCHANGED vars
  BY <1>2 DEF vars, loopVars, IInv, TypeOK, BoundOnce, StopUnderWay, Thread, KindOfThread,
              Untouched, Fresh, FlagFollowsStop, JoinedIsClean
<1>3. QED BY <1>1, <1>2

(* Connections, threads and sockets keep their types. *)
THEOREM TypesKept == Spec => []TypeOK
<1>1. IInv => TypeOK
  BY DEF IInv
<1>2. QED BY <1>1, InitEstablishes, NextPreserves, PTL DEF Spec

(* However links fail, and however many connections are made and stopped, one
   that is reported up carries no failure over into its back-off
   (connection.py:139-176, 254-296). *)
THEOREM LinkUpMeansFresh == Spec => []UpMeansFresh
<1>1. IInv => UpMeansFresh
  BY DEF IInv, Thread, Fresh, UpMeansFresh
<1>2. QED BY <1>1, InitEstablishes, NextPreserves, PTL DEF Spec

(* A stop whose join succeeds leaves neither socket, nor device, nor tunnel, and
   the port to the connection in use (connection.py:233-246). *)
THEOREM JoinLeavesNothing == Spec => []CleanWhenJoined
<1>1. IInv => CleanWhenJoined
  <2> SUFFICES ASSUME IInv PROVE CleanWhenJoined
    OBVIOUS
  <2>1. ASSUME NEW g \in Conn, Stopped(g), ~outlived[g]
        PROVE  g \notin Range(bound) /\ tunnel[g] = "none"
    <3>1. Thread(g) /\ pc[g] \in Pc
      BY DEF IInv, TypeOK
    <3>2. pc[g] = "done"
      BY <2>1, <3>1 DEF Stopped, Thread, Untouched, FlagFollowsStop, AtWork
    <3>3. QED BY <2>1, <3>1, <3>2 DEF Stopped, Thread, JoinedIsClean
  <2>2. ASSUME NEW g \in Conn, pc[g] = "done", current # g, ~outlived[g]
        PROVE  sock[g] # "open"
    BY <2>2 DEF IInv, Thread, JoinedIsClean
  <2>3. ASSUME \A g \in Conn : ~outlived[g] /\ (pc[g] \in {"none", "done"} \/ current = g)
        PROVE  Range(bound) \subseteq {current}
    <3>1. Range(bound) \subseteq Conn
      BY RangeOf DEF IInv, TypeOK
    <3>2. QED BY <2>3, <3>1 DEF IInv, Thread, JoinedIsClean
  <2>4. QED BY <2>1, <2>2, <2>3 DEF CleanWhenJoined
<1>2. QED BY <1>1, InitEstablishes, NextPreserves, PTL DEF Spec

(* StoppedWindsDown, of one connection. *)
WindsDown(g) ==
  pc[g] \notin {"none", "starting"} /\ ~running[g] =>
    /\ ~running'[g]
    /\ pc'[g] # pc[g] => StepsLeft(pc'[g]) < StepsLeft(pc[g])
    /\ g \in Range(bound') \ Range(bound) => pc[g] = "error"

LEMMA StepsLeftIs ==
  /\ StepsLeft("recv") = 3 /\ StepsLeft("error") = 2 /\ StepsLeft("tunnel") = 2
  /\ StepsLeft("blocked") = 1 /\ StepsLeft("wait") = 1
  /\ StepsLeft("serial") = 1 /\ StepsLeft("opening") = 1 /\ StepsLeft("done") = 0
  BY DEF StepsLeft

(* The API and the environment move no thread that was told to stop. *)
LEMMA OutsideWindsDown ==
  ASSUME IInv, NEW g \in Conn,
         Connect(g) \/ Start(g) \/ Disconnect(g) \/ Close(g) \/ TunnelDies(g)
  PROVE  WindsDown(g)
<1>1. CASE Close(g)
  <2>1. bound' = bound \/ g \notin Range(bound')
    BY <1>1, PortMoves DEF Close
  <2>2. QED BY <1>1, <2>1 DEF Close, WindsDown
<1>2. CASE Connect(g) \/ Start(g) \/ TunnelDies(g)
  BY <1>2 DEF Connect, Start, TunnelDies, WindsDown
<1>3. CASE Disconnect(g)
  BY <1>3 DEF Disconnect, WindsDown, IInv, TypeOK
<1>4. QED BY <1>1, <1>2, <1>3

(* Nor does its own thread turn back. *)
LEMMA ThreadWindsDown ==
  ASSUME IInv, NEW g \in Conn, RecvThread(g) \/ Answered(g)
  PROVE  WindsDown(g)
<1> SUFFICES ASSUME ~running[g] PROVE WindsDown(g)
  BY DEF WindsDown
<1>1. pc \in [Conn -> Pc] /\ Loop(g) = "done"
  BY DEF IInv, TypeOK, Loop
<1>2. bound' \in {bound, Unbound(g)} => g \notin Range(bound') \ Range(bound)
  BY PortMoves
<1>3. CASE Receive(g) \/ Answered(g) \/ Reset(g)
  BY <1>1, <1>3, StepsLeftIs DEF Receive, Answered, Reset, WindsDown
<1>4. CASE RecvFails(g)
  BY <1>1, <1>2, <1>4, StepsLeftIs DEF RecvFails, WindsDown
<1>5. CASE Rebind(g)
  BY <1>1, <1>5, StepsLeftIs DEF Rebind, WindsDown
<1>6. CASE Timeout(g)
  BY <1>1, <1>2, <1>6, StepsLeftIs DEF Timeout, TimesOut, WindsDown
<1>7. CASE LinkDown(g)
  <2>1. pc[g] = "recv" /\ pc'[g] \in {"wait", "tunnel"} /\ running' = running
        /\ bound' \in {bound, Unbound(g)}
    BY <1>1, <1>7 DEF LinkDown, TimesOut
  <2>2. QED BY <1>2, <2>1, StepsLeftIs DEF WindsDown
<1>8. CASE TunnelStarted(g) \/ WaitOver(g)
  BY <1>1, <1>8, StepsLeftIs DEF TunnelStarted, WaitOver, loopVars, WindsDown
<1>9. CASE OpenSerial(g) \/ SerialOpened(g) \/ SerialFails(g) \/ SerialEnds(g)
  BY <1>1, <1>9, StepsLeftIs
     DEF OpenSerial, SerialOpened, SerialFails, SerialEnds, loopVars, WindsDown
<1>10. QED BY <1>3, <1>4, <1>5, <1>6, <1>7, <1>8, <1>9 DEF RecvThread

(* Wherever a stop finds a receive thread, and whatever fails on its way out, it
   takes no further round of its loop and binds the port at most once more
   (connection.py:254-303, 312-379). *)
THEOREM StopIsNotUndone == Spec => StoppedWindsDown
<1> DEFINE Winding ==
      \A g \in Conn : pc[g] \notin {"none", "starting"} /\ ~running[g] =>
        /\ ~running'[g]
        /\ pc'[g] # pc[g] => StepsLeft(pc'[g]) < StepsLeft(pc[g])
        /\ g \in Range(bound') \ Range(bound) => pc[g] = "error"
<1>1. IInv /\ [Next]_vars => [Winding]_vars
  <2> SUFFICES ASSUME IInv, Next, NEW h \in Conn PROVE WindsDown(h)
    BY DEF WindsDown
  <2>1. PICK g \in Conn : \/ Connect(g) \/ Start(g) \/ Disconnect(g) \/ Close(g)
                          \/ RecvThread(g) \/ Answered(g) \/ TunnelDies(g)
    BY DEF Next
  <2>2. StepOf(g)
    BY <2>1, ConnectSteps, FlagSteps, CloseSteps, DatagramSteps, FailSteps, TimeoutSteps,
       RebindSteps, WaitSteps, OpenSteps, SerialSteps DEF RecvThread
  <2>3. CASE h = g
    BY <2>1, <2>3, OutsideWindsDown, ThreadWindsDown
  <2>4. CASE h # g
    BY <2>2, <2>4 DEF StepOf, Others, WindsDown
  <2>5. QED BY <2>3, <2>4
<1>2. QED BY <1>1, InitEstablishes, NextPreserves, PTL DEF Spec, StoppedWindsDown

=============================================================================
