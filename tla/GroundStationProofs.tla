------------------------- MODULE GroundStationProofs -------------------------
(****************************************************************************)
(* Theorems about Telemetry and GroundStation, for any number of drones,    *)
(* sockets, pages and retries and every OFFLINE_TIMEOUT: no browser that is *)
(* there is forgotten, and the pages do to the backend only what Telemetry  *)
(* lets a far end do, so that what holds of the backend alone holds with    *)
(* the pages.                                                               *)
(****************************************************************************)
EXTENDS GroundStation, FiniteSetTheorems, TLAPS

(* A socket on which a send has raised stays gone for the round: its place is
   not given away while the round remembers it. *)
DeadHaveLeft ==
  round.at = "send" => \A s \in round.dead : far[s] = "left"

IInv == TypeOK /\ OpenIsRegistered /\ DeadHaveLeft

-----------------------------------------------------------------------------
(* The round. *)

LEMMA ActiveSize ==
  ASSUME TypeOK
  PROVE  Cardinality(active) \in 0 .. Cardinality(Socket)
<1>1. IsFiniteSet(active) /\ Cardinality(active) <= Cardinality(Socket)
  BY SocketAssumption, FS_Subset DEF TypeOK
<1>2. Cardinality(active) \in Nat /\ Cardinality(Socket) \in Nat
  BY <1>1, SocketAssumption, FS_CardinalityType
<1>3. QED BY <1>1, <1>2

(* The fields of a round under way. *)
LEMMA RoundFields ==
  ASSUME TypeOK, round.at = "send"
  PROVE  /\ round \in [at : {"send"}, payload : Payload, size : 0 .. Cardinality(Socket),
                       todo : SUBSET Socket, dead : SUBSET Socket]
         /\ round.todo \subseteq Socket /\ round.dead \subseteq Socket
  BY DEF TypeOK, Round

LEMMA RoundAt ==
  ASSUME TypeOK
  PROVE  round.at \in {"sleep", "send"}
  BY DEF TypeOK, Round

LEMMA SleepingIsRound == Sleeping \in Round /\ Sleeping.at = "sleep"
  BY DEF Sleeping, Round

(* The backend without a store. *)
LEMMA NoStoreTypes ==
  ASSUME NoStore
  PROVE  /\ up' = FALSE /\ link' = FALSE
         /\ beat' \in [Drone -> Beat]
         /\ age' \in [Drone -> 0 .. OfflineAge]
<1>1. beat' \in [Drone -> Beat]
  BY DEF NoStore, Beat
<1>2. age' \in [Drone -> 0 .. OfflineAge]
  BY OfflineAgeAssumption DEF NoStore
<1>3. QED BY <1>1, <1>2 DEF NoStore

-----------------------------------------------------------------------------
(* One lemma for each kind of step: IInv is preserved. *)

(* The steps that leave broadcast_loop and the sockets alone. *)
LEMMA StoreSteps ==
  ASSUME IInv, UNCHANGED <<round, socketVars>>,
         \/ \E d \in Drone : Heartbeat(d) \/ OtherMessage(d) \/ StatusText(d)
         \/ LinkDown \/ Tick \/ Connect \/ Disconnect
  PROVE  IInv'
<1> USE DEF IInv, socketVars, storeVars
<1>1. TypeOK'
  <2> USE OfflineAgeAssumption DEF TypeOK
  <2>1. CASE \E d \in Drone : Heartbeat(d) \/ OtherMessage(d) \/ StatusText(d)
    <3> PICK d \in Drone : Heartbeat(d) \/ OtherMessage(d) \/ StatusText(d)
      BY <2>1
    <3>1. CASE Heartbeat(d)
      BY <3>1 DEF Heartbeat, Beat
    <3>2. CASE OtherMessage(d)
      BY <3>2 DEF OtherMessage, Known, Beat
    <3>3. CASE StatusText(d)
      BY <3>3 DEF StatusText, Known, Beat
    <3>4. QED BY <3>1, <3>2, <3>3
  <2>2. CASE LinkDown
    BY <2>2 DEF LinkDown
  <2>3. CASE Tick
    BY <2>3 DEF Tick
  <2>4. CASE Connect
    BY <2>4 DEF Connect
  <2>5. CASE Disconnect
    BY <2>5, NoStoreTypes DEF Disconnect
  <2>6. QED BY <2>1, <2>2, <2>3, <2>4, <2>5
<1>2. OpenIsRegistered' /\ DeadHaveLeft'
  BY DEF OpenIsRegistered, DeadHaveLeft
<1>3. QED BY <1>1, <1>2

(* A socket joins at a place that the round does not remember. *)
LEMMA Joins ==
  ASSUME IInv, NEW s \in Socket, Accept(s)
  PROVE  IInv'
<1> USE DEF IInv, Accept, storeVars
<1>1. /\ round' \in Round
      /\ round'.at = "send" =>
           round.at = "send" /\ round'.dead = round.dead /\ s \notin round'.dead
  <2>1. CASE round.at = "sleep"
    BY <2>1 DEF TypeOK
  <2>2. CASE round.at = "send"
    <3>1. PICK rest \in SUBSET Socket : round' = [round EXCEPT !.todo = rest]
      BY <2>2 DEF TypeOK
    <3>2. round' \in Round /\ round'.dead = round.dead
      BY <2>2, <3>1, RoundFields DEF Round
    <3>3. QED BY <2>2, <3>2 DEF Free
  <2>3. QED BY <2>1, <2>2, RoundAt
<1>2. TypeOK'
  BY <1>1 DEF TypeOK
<1>3. OpenIsRegistered'
  BY DEF OpenIsRegistered, TypeOK
<1>4. DeadHaveLeft'
  BY <1>1, RoundFields DEF DeadHaveLeft, TypeOK
<1>5. QED BY <1>2, <1>3, <1>4

(* The far end of a socket stalls, recovers or leaves. *)
LEMMA FarEndMoves ==
  ASSUME IInv, NEW s \in Socket, FarEnd(s)
  PROVE  IInv'
<1> USE DEF IInv, FarEnd, Stall, Recover, Leave, storeVars
<1>1. TypeOK'
  BY DEF TypeOK
<1>2. OpenIsRegistered'
  BY DEF OpenIsRegistered, TypeOK
<1>3. DeadHaveLeft'
  BY RoundFields DEF DeadHaveLeft, TypeOK
<1>4. QED BY <1>1, <1>2, <1>3

(* The endpoint's finally forgets a socket that has left. *)
LEMMA EndpointSteps ==
  ASSUME IInv, NEW s \in Socket, EndpointEnds(s)
  PROVE  IInv'
<1> USE DEF IInv, EndpointEnds, storeVars
<1>1. round' \in Round /\ round'.at = round.at /\ (round.at = "send" => round'.dead = round.dead)
  <2>1. CASE round.at = "sleep"
    BY <2>1 DEF TypeOK
  <2>2. CASE round.at = "send"
    BY <2>2, RoundFields DEF Round
  <2>3. QED BY <2>1, <2>2, RoundAt
<1>2. TypeOK'
  BY <1>1 DEF TypeOK
<1>3. OpenIsRegistered' /\ DeadHaveLeft'
  BY <1>1 DEF OpenIsRegistered, DeadHaveLeft
<1>4. QED BY <1>2, <1>3

(* The steps of broadcast_loop. *)
LEMMA WakeStep ==
  ASSUME IInv, Wake
  PROVE  IInv'
<1> USE DEF IInv, Wake, storeVars, socketVars
<1>1. [link |-> link, online |-> Online, beat |-> beat] \in Payload
  BY DEF TypeOK, Payload, Online
<1>2. round' \in Round /\ round'.dead = {}
  BY <1>1, ActiveSize DEF Round, TypeOK
<1>3. TypeOK'
  BY <1>2 DEF TypeOK
<1>4. OpenIsRegistered' /\ DeadHaveLeft'
  BY <1>2 DEF OpenIsRegistered, DeadHaveLeft
<1>5. QED BY <1>3, <1>4

LEMMA SendSteps ==
  ASSUME IInv, NEW s \in Socket, Send(s) \/ SendRaises(s)
  PROVE  IInv'
<1> USE DEF IInv, storeVars, socketVars
<1>1. /\ UNCHANGED <<up, link, beat, age, active, far>>
      /\ round.at = "send" /\ round' \in Round
      /\ \/ round'.dead = round.dead
         \/ far[s] = "left" /\ round'.dead = round.dead \union {s}
  <2>1. CASE Send(s)
    BY <2>1, RoundFields DEF Send, Round
  <2>2. CASE SendRaises(s)
    BY <2>2, RoundFields DEF SendRaises, Round
  <2>3. QED BY <2>1, <2>2
<1>2. TypeOK'
  BY <1>1 DEF TypeOK
<1>3. OpenIsRegistered' /\ DeadHaveLeft'
  BY <1>1 DEF OpenIsRegistered, DeadHaveLeft
<1>4. QED BY <1>2, <1>3

(* Only sockets that have left are dropped at the end of a round. *)
LEMMA RoundEnds ==
  ASSUME IInv, Abort \/ EndRound \/ Restart
  PROVE  IInv'
<1> USE SleepingIsRound DEF IInv, storeVars, socketVars
<1>1. CASE Abort
  BY <1>1 DEF Abort, TypeOK, OpenIsRegistered, DeadHaveLeft
<1>2. CASE EndRound
  <2> USE <1>2 DEF EndRound
  <2>1. TypeOK'
    BY DEF TypeOK
  <2>2. OpenIsRegistered' /\ DeadHaveLeft'
    BY DEF OpenIsRegistered, DeadHaveLeft
  <2>3. QED BY <2>1, <2>2
<1>3. CASE Restart
  <2> USE <1>3 DEF Restart
  <2>1. TypeOK'
    <3>1. round' \in Round /\ active' \subseteq Socket
      OBVIOUS
    <3>2. far' \in [Socket -> {"left", "open", "silent"}]
      OBVIOUS
    <3>3. QED BY <3>1, <3>2, NoStoreTypes DEF TypeOK
  <2>2. OpenIsRegistered' /\ DeadHaveLeft'
    BY DEF OpenIsRegistered, DeadHaveLeft
  <2>3. QED BY <2>1, <2>2
<1>4. QED BY <1>1, <1>2, <1>3

-----------------------------------------------------------------------------
LEMMA InitEstablishes == Init => IInv
<1> SUFFICES ASSUME Init PROVE IInv
  OBVIOUS
<1> USE SleepingIsRound DEF Init
<1>1. TypeOK
  <2>1. beat \in [Drone -> Beat]
    BY DEF Beat
  <2>2. age \in [Drone -> 0 .. OfflineAge]
    BY OfflineAgeAssumption
  <2>3. far \in [Socket -> {"left", "open", "silent"}]
    OBVIOUS
  <2>4. QED BY <2>1, <2>2, <2>3 DEF TypeOK
<1>2. OpenIsRegistered /\ DeadHaveLeft
  BY DEF OpenIsRegistered, DeadHaveLeft
<1>3. QED BY <1>1, <1>2 DEF IInv

LEMMA NextPreserves == IInv /\ [Next]_vars => IInv'
<1> SUFFICES ASSUME IInv, [Next]_vars PROVE IInv'
  OBVIOUS
<1>1. CASE \/ \E d \in Drone : Heartbeat(d) \/ OtherMessage(d) \/ StatusText(d)
           \/ LinkDown \/ Tick \/ Connect \/ Disconnect
  BY <1>1, StoreSteps
     DEF Heartbeat, OtherMessage, StatusText, LinkDown, Tick, Connect, Disconnect, socketVars
<1>2. CASE Restart \/ Abort \/ EndRound
  BY <1>2, RoundEnds
<1>3. CASE Wake
  BY <1>3, WakeStep
<1>4. CASE \E s \in Socket : EndpointEnds(s) \/ SendRaises(s)
  BY <1>4, EndpointSteps, SendSteps
<1>5. CASE \E s \in Socket : Accept(s) \/ Send(s) \/ FarEnd(s)
  BY <1>5, Joins, SendSteps, FarEndMoves
<1>6. CASE UNCHANGED vars
  BY <1>6 DEF IInv, vars, storeVars, socketVars, TypeOK, OpenIsRegistered, DeadHaveLeft
<1>7. QED BY <1>1, <1>2, <1>3, <1>4, <1>5, <1>6 DEF Next, Backend

(* The backend keeps its types, and with them the limits of a round: it names
   sockets only, and no more than there are. *)
THEOREM BackendTypes == Spec => []TypeOK
<1>1. IInv => TypeOK
  BY DEF IInv
<1>2. QED BY <1>1, InitEstablishes, NextPreserves, PTL DEF Spec

(* However many browsers come and go and whatever the rounds drop, a browser
   that is still there stays in _active_clients (websocket.py:39, 56, 95). *)
THEOREM BrowsersStayRegistered == Spec => []OpenIsRegistered
<1>1. IInv => OpenIsRegistered
  BY DEF IInv
<1>2. QED BY <1>1, InitEstablishes, NextPreserves, PTL DEF Spec

-----------------------------------------------------------------------------
(* The pages. *)

PageInv ==
  /\ PageTypeOK(Socket)
  /\ \A p \in Page : at[p] = "open" => ws[p] \in Socket

LEMMA PagesBegin == GroundInit => PageInv
  BY MaxRetriesAssumption DEF GroundInit, PageInit, PageInv, PageTypeOK, Card

LEMMA PagesMove == PageInv /\ [GroundNext]_allVars => PageInv'
<1> SUFFICES ASSUME PageInv, [GroundNext]_allVars PROVE PageInv'
  OBVIOUS
<1> USE MaxRetriesAssumption DEF PageInv, PageTypeOK
<1>1. ASSUME NEW p \in Page, PageOpens(p) PROVE PageInv'
  BY <1>1 DEF PageOpens, OnOpen
<1>2. ASSUME NEW p \in Page, PageReceives(p) PROVE PageInv'
  <2>1. \A d \in Drone : Updated(p, round.payload, d) \in Card /\ Redrawn(round.payload, d) \in Card
    BY DEF Updated, Redrawn, Badge, Card
  <2>2. card' \in [Page -> [Drone -> Card]]
    BY <1>2, <2>1 DEF PageReceives, OnMessage
  <2>3. QED BY <1>2, <2>2 DEF PageReceives, OnMessage
<1>3. ASSUME NEW p \in Page, PageCloses(p) PROVE PageInv'
  <2> USE <1>3 DEF PageCloses, OnClose
  <2>1. ws' \in [Page -> Socket \union {NoSocket}]
    OBVIOUS
  <2>2. /\ at' \in [Page -> {"connecting", "open", "gaveup"}]
        /\ \A q \in Page : at'[q] = "open" => q # p /\ at[q] = "open"
    OBVIOUS
  <2>3. retries' \in [Page -> 0 .. MaxRetries]
    OBVIOUS
  <2>4. QED BY <2>1, <2>2, <2>3
<1>4. ASSUME NEW p \in Page, Reload(p) PROVE PageInv'
  BY <1>4 DEF Reload, Card
<1>5. ASSUME NEW p \in Page, OperatorActs(p) PROVE PageInv'
  BY <1>5 DEF OperatorActs, Focus, Blur
<1>6. CASE UNCHANGED pages
  BY <1>6 DEF pages
<1>7. QED
  BY <1>1, <1>2, <1>3, <1>4, <1>5, <1>6
     DEF GroundNext, BackendActs, PageActs, allVars, pages

(* A step of the pages and the backend is a step of the backend, or none. *)
LEMMA PagesStutter == PageInv /\ [GroundNext]_allVars => [Next]_vars
<1> SUFFICES ASSUME PageInv, [GroundNext]_allVars PROVE [Next]_vars
  OBVIOUS
<1>1. ASSUME NEW p \in Page, PageActs(p) PROVE [Next]_vars
  <2>1. CASE PageOpens(p)
    BY <2>1 DEF PageOpens, Next
  <2>2. CASE PageReceives(p)
    BY <2>2 DEF PageReceives, PageInv, Next
  <2>3. CASE PageCloses(p) \/ UNCHANGED vars
    BY <2>3 DEF PageCloses
  <2>4. QED BY <1>1, <2>1, <2>2, <2>3 DEF PageActs
<1>2. CASE BackendActs
  <2>1. Owned \ {NoSocket} \subseteq Socket
    BY DEF Owned, PageInv, PageTypeOK
  <2>2. QED BY <1>2, <2>1 DEF BackendActs, OthersAct, FarEnd, Next
<1>3. ASSUME NEW p \in Page, OperatorActs(p) PROVE [Next]_vars
  BY <1>3 DEF OperatorActs
<1>4. CASE UNCHANGED allVars
  BY <1>4 DEF allVars
<1>5. QED BY <1>1, <1>2, <1>3, <1>4 DEF GroundNext

(* With its pages the ground station implements the backend alone: a page makes
   and loses sockets only in ways that Telemetry foresees. *)
THEOREM PagesImplementBackend == GroundSpec => Spec
<1>1. GroundInit => Init
  BY DEF GroundInit
<1>2. QED
  BY <1>1, PagesBegin, PagesMove, PagesStutter, PTL DEF GroundSpec, Spec

(* Backend and pages keep their types: an open page has a socket, and its
   retries stay within MAX_RETRIES. *)
THEOREM GroundTypes == GroundSpec => []GroundTypeOK
<1>1. PageInv /\ TypeOK => GroundTypeOK
  BY DEF PageInv, GroundTypeOK
<1>2. QED
  BY <1>1, PagesBegin, PagesMove, PagesImplementBackend, BackendTypes, PTL DEF GroundSpec

(* What is proved of the backend alone holds with the pages. *)
THEOREM PagesStayRegistered == GroundSpec => []OpenIsRegistered
  BY PagesImplementBackend, BrowsersStayRegistered, PTL
=============================================================================
