---------------------------- MODULE GroundStation ----------------------------
(****************************************************************************)
(* The backend of module Telemetry with the pages of module Dashboard: a    *)
(* step of a socket's far end is a step of the page that owns the socket.   *)
(* The commands that a dialog sends are the subject of CommandDispatcher.   *)
(****************************************************************************)
EXTENDS Telemetry

CONSTANTS Page, NoSocket, MaxRetries

ASSUME NoSocketAssumption == NoSocket \notin Socket
ASSUME MaxRetriesAssumption == MaxRetries \in Nat

VARIABLES
  ws, at, retries, card, focus   \* as in Dashboard

INSTANCE Dashboard

pages == <<ws, at, retries, card, focus>>
allVars == <<vars, pages>>

GroundTypeOK ==
  /\ TypeOK
  /\ PageTypeOK(Socket)

GroundInit == Init /\ PageInit

Owned == {ws[p] : p \in Page}

-----------------------------------------------------------------------------
(* Steps of a page with its socket. *)

PageOpens(p) == \E s \in Socket \ Owned : Accept(s) /\ OnOpen(p, s)

PageReceives(p) ==
  /\ at[p] = "open" /\ far[ws[p]] = "open"
  /\ Send(ws[p])
  /\ OnMessage(p, round.payload)

(* The socket is closed, or there is no way to open one. *)
PageCloses(p) ==
  /\ at[p] = "open" => far[ws[p]] = "left"
  /\ OnClose(p)
  /\ UNCHANGED vars

PageActs(p) ==
  \/ PageOpens(p) \/ PageReceives(p) \/ PageCloses(p)
  \/ Reload(p) /\ UNCHANGED vars

OperatorActs(p) == (Focus(p) \/ Blur(p)) /\ UNCHANGED vars

(* The sockets no page owns are those of tabs that come and go as they like, and
   of rtk_data_collector, which opens one for each sample, takes what the first
   payload with a drone says, whenever that was built, and closes it. *)
OthersAct == \E s \in Socket \ Owned : Accept(s) \/ Send(s)

(* What reaches no page of Page. *)
BackendActs ==
  /\ \/ Backend
     \/ \E s \in Socket : Stall(s) \/ Recover(s) \/ Leave(s)
     \/ OthersAct
     \/ \E s \in Owned \ {NoSocket} : far[s] = "left" /\ Send(s)
  /\ UNCHANGED pages

GroundNext == BackendActs \/ \E p \in Page : PageActs(p) \/ OperatorActs(p)

GroundSpec == GroundInit /\ [][GroundNext]_allVars

(* Browsers handle their events. *)
GroundFairness ==
  /\ Fairness
  /\ \A p \in Page : WF_allVars(PageCloses(p))

FairGroundSpec == GroundSpec /\ GroundFairness

-----------------------------------------------------------------------------
(* Properties. *)

Reached(p) == up /\ at[p] = "open" /\ far[ws[p]] = "open"
SocketsSettle == <>[][far' = far]_far

(* A page with an open socket, in front of a connected backend, goes on getting
   payloads once the other tabs stop coming and going: one that takes nothing
   holds the round up in send_text, and a round broken off by the iterator
   leaves some of them out (websocket.py:88-98), but neither for ever. *)
KeepsHearing ==
  SocketsSettle =>
    \A p \in Page : <>[]Reached(p) => []<><<PageReceives(p)>>_allVars

(* A drone that falls silent ends up as NO SIGNAL, or without a card, on every
   page that goes on hearing, unless a field of its grid keeps the focus:
   OFFLINE_TIMEOUT, the payload, the socket and the card all do their part
   (websocket.py:127-129: flagged "so the frontend can immediately show them as
   offline"). *)
SilentShownOffline ==
  SocketsSettle =>
    \A p \in Page, d \in Drone :
      <>[](Reached(p) /\ ~focus[p] /\ age[d] = OfflineAge)
        => <>[](card[p][d] # "online")
=============================================================================
