------------------------------ MODULE Telemetry ------------------------------
(****************************************************************************)
(* The way of telemetry through the backend: MessageRouter files each       *)
(* MAVLink message in the TelemetryStore (app/mavlink/message_router.py,    *)
(* app/rtk_tools/telemetry_store.py); broadcast_loop (app/api/websocket.py) *)
(* builds a payload from the store and sends it to the sockets in           *)
(* _active_clients one after the other; telemetry_websocket keeps that set. *)
(* POST /api/connect and /api/disconnect replace the store.                 *)
(*                                                                          *)
(* Handlers and coroutines share one event loop and interleave at an await  *)
(* only; the router runs on a thread of its own, between any two reads of   *)
(* the store.                                                               *)
(****************************************************************************)
EXTENDS Naturals, FiniteSets

CONSTANTS
  Drone,        \* system ids
  Socket,       \* WebSocket objects; a new one may take the place of one that
                \* the backend has forgotten
  OfflineAge    \* OFFLINE_TIMEOUT, in ticks

ASSUME SocketAssumption == IsFiniteSet(Socket)
ASSUME OfflineAgeAssumption == OfflineAge \in Nat \ {0}

VARIABLES
  up,       \* api_srv.telemetry_store is not None
  link,     \* is_connected of the connection
  beat,     \* beat[d]: the HEARTBEAT in the store
  age,      \* age[d]: ticks since _last_seen[d]
  round,    \* broadcast_loop: where it is, its payload, the sockets to come
  active,   \* _active_clients
  far       \* far[s]: the far end of socket s

storeVars == <<link, beat, age>>
socketVars == <<active, far>>
vars == <<up, storeVars, round, socketVars>>

(* "unknown" is a drone that is not in _data, "none" one that is there without
   a HEARTBEAT: its mode is "N/A" in the payload. *)
Beat == {"unknown", "none", "beating"}

Payload == [link : BOOLEAN, online : SUBSET Drone, beat : [Drone -> Beat]]

Round == [at : {"sleep"}]
  \union [at : {"send"}, payload : Payload, size : 0 .. Cardinality(Socket),
          todo : SUBSET Socket, dead : SUBSET Socket]

TypeOK ==
  /\ up \in BOOLEAN /\ link \in BOOLEAN
  /\ beat \in [Drone -> Beat]
  /\ age \in [Drone -> 0 .. OfflineAge]
  /\ round \in Round
  /\ active \subseteq Socket
  /\ far \in [Socket -> {"left", "open", "silent"}]

Sleeping == [at |-> "sleep"]

Init ==
  /\ up = FALSE
  /\ link = FALSE
  /\ beat = [d \in Drone |-> "unknown"]
  /\ age = [d \in Drone |-> OfflineAge]
  /\ round = Sleeping
  /\ active = {}
  /\ far = [s \in Socket |-> "left"]

-----------------------------------------------------------------------------
(* The router thread. *)

Known(d) == IF beat[d] = "unknown" THEN "none" ELSE beat[d]

Heartbeat(d) ==
  /\ up
  /\ beat' = [beat EXCEPT ![d] = "beating"]
  /\ age' = [age EXCEPT ![d] = 0]
  /\ link' = TRUE
  /\ UNCHANGED <<up, round, socketVars>>

OtherMessage(d) ==
  /\ up
  /\ beat' = [beat EXCEPT ![d] = Known(d)]
  /\ age' = [age EXCEPT ![d] = 0]
  /\ link' = TRUE
  /\ UNCHANGED <<up, round, socketVars>>

(* add_status_text makes an entry for the drone but leaves _last_seen alone. *)
StatusText(d) ==
  /\ up
  /\ beat' = [beat EXCEPT ![d] = Known(d)]
  /\ link' = TRUE
  /\ UNCHANGED <<up, age, round, socketVars>>

(* The receive thread reports the link down: timeouts or a socket error. *)
LinkDown ==
  /\ up /\ link
  /\ link' = FALSE
  /\ UNCHANGED <<up, beat, age, round, socketVars>>

(* The definitions named Slip... are wrong on purpose: each is a definition of
   this module as a plausible slip would have left it, and the runs must find a
   property that tells it from the right one. *)
SlipTick ==
  /\ age' = [d \in Drone |-> age[d] + 1]
  /\ UNCHANGED <<up, link, beat, round, socketVars>>

Tick ==
  /\ age' = [d \in Drone |-> IF age[d] < OfflineAge THEN age[d] + 1 ELSE OfflineAge]
  /\ UNCHANGED <<up, link, beat, round, socketVars>>

-----------------------------------------------------------------------------
(* The API. *)

Connect ==
  /\ ~up
  /\ up' = TRUE
  /\ UNCHANGED <<storeVars, round, socketVars>>

(* The store goes, with what it holds. *)
NoStore ==
  /\ up' = FALSE
  /\ link' = FALSE
  /\ beat' = [d \in Drone |-> "unknown"]
  /\ age' = [d \in Drone |-> OfflineAge]

Disconnect ==
  /\ up
  /\ NoStore
  /\ UNCHANGED <<round, socketVars>>

(* The server process goes away with its sockets and comes back. *)
Restart ==
  /\ NoStore
  /\ round' = Sleeping
  /\ active' = {}
  /\ far' = [s \in Socket |-> "left"]

-----------------------------------------------------------------------------
(* telemetry_websocket, and the far end of its socket. *)

(* A place is free again when the backend holds no reference to its socket. *)
Free(s) ==
  /\ far[s] = "left"
  /\ s \notin active
  /\ round.at = "send" => s \notin round.todo \union round.dead

(* A socket that joins while broadcast_loop is iterating may move the members
   about in the table, before or behind the iterator. *)
Accept(s) ==
  /\ Free(s)
  /\ far' = [far EXCEPT ![s] = "open"]
  /\ active' = active \union {s}
  /\ \/ round.at = "sleep" /\ UNCHANGED round
     \/ /\ round.at = "send"
        /\ \E rest \in SUBSET active' : round' = [round EXCEPT !.todo = rest]
  /\ UNCHANGED <<up, storeVars>>

(* A far end that takes nothing, its computer asleep or out of reach: when the
   kernel's buffer is full, send_text waits.  The buffer is left out. *)
Stall(s) ==
  /\ far[s] = "open"
  /\ far' = [far EXCEPT ![s] = "silent"]
  /\ UNCHANGED <<up, storeVars, round, active>>

Recover(s) ==
  /\ far[s] = "silent"
  /\ far' = [far EXCEPT ![s] = "open"]
  /\ UNCHANGED <<up, storeVars, round, active>>

(* The far end goes away, or the keepalive of the server gives it up. *)
Leave(s) ==
  /\ far[s] # "left"
  /\ far' = [far EXCEPT ![s] = "left"]
  /\ UNCHANGED <<up, storeVars, round, active>>

(* receive_text raises and the endpoint's finally discards the socket. *)
EndpointEnds(s) ==
  /\ far[s] = "left"
  /\ s \in active
  /\ active' = active \ {s}
  /\ round' = IF round.at = "send" THEN [round EXCEPT !.todo = @ \ {s}] ELSE round
  /\ UNCHANGED <<up, storeVars, far>>

-----------------------------------------------------------------------------
(* broadcast_loop. *)

SlipOnline == {d \in Drone : age[d] <= OfflineAge}

Online == {d \in Drone : age[d] < OfflineAge}

(* The sleep is over and there is someone to send to.  _build_payload reads the
   connection, the times and the ids one after the other and awaits nothing: a
   message that the router files in between is as good as one filed after. *)
Wake ==
  /\ round.at = "sleep"
  /\ active # {}
  /\ up
  /\ round' = [at |-> "send",
               payload |-> [link |-> link, online |-> Online, beat |-> beat],
               size |-> Cardinality(active), todo |-> active, dead |-> {}]
  /\ UNCHANGED <<up, storeVars, socketVars>>

(* A set that changed its size while it is iterated over ends the iteration. *)
Intact == Cardinality(active) = round.size

Send(s) ==
  /\ round.at = "send" /\ Intact
  /\ s \in round.todo
  /\ far[s] \in {"open", "left"}
  /\ round' = [round EXCEPT !.todo = @ \ {s}]
  /\ UNCHANGED <<up, storeVars, socketVars>>

(* A slip would be to give up a send that takes long as well. *)
SlipSendRaises(s) ==
  /\ round.at = "send" /\ Intact
  /\ s \in round.todo
  /\ far[s] \in {"left", "silent"}
  /\ round' = [round EXCEPT !.todo = @ \ {s}, !.dead = @ \union {s}]
  /\ UNCHANGED <<up, storeVars, socketVars>>

SendRaises(s) ==
  /\ round.at = "send" /\ Intact
  /\ s \in round.todo
  /\ far[s] = "left"
  /\ round' = [round EXCEPT !.todo = @ \ {s}, !.dead = @ \union {s}]
  /\ UNCHANGED <<up, storeVars, socketVars>>

(* The RuntimeError of the iterator ends the round; dead is forgotten.  The code
   asks the iterator for the next socket when the send to the last one is over;
   here the round may end while that send still waits for a silent client, which
   the keepalive gives up in the end. *)
SlipAbort ==
  /\ round.at = "send" /\ ~Intact
  /\ round' = [round EXCEPT !.size = 0, !.todo = {}]
  /\ UNCHANGED <<up, storeVars, socketVars>>

Abort ==
  /\ round.at = "send" /\ ~Intact
  /\ round' = Sleeping
  /\ UNCHANGED <<up, storeVars, socketVars>>

EndRound ==
  /\ round.at = "send" /\ Intact
  /\ round.todo = {}
  /\ active' = active \ round.dead
  /\ round' = Sleeping
  /\ UNCHANGED <<up, storeVars, far>>

-----------------------------------------------------------------------------
Backend ==
  \/ \E d \in Drone : Heartbeat(d) \/ OtherMessage(d) \/ StatusText(d)
  \/ LinkDown \/ Tick \/ Connect \/ Disconnect \/ Restart
  \/ Wake \/ Abort \/ EndRound
  \/ \E s \in Socket : EndpointEnds(s) \/ SendRaises(s)

FarEnd(s) == Stall(s) \/ Recover(s) \/ Leave(s)

Next == Backend \/ \E s \in Socket : Accept(s) \/ Send(s) \/ FarEnd(s)

Spec == Init /\ [][Next]_vars

(* The clock goes on, and the event loop runs what is ready in the order it
   became ready.  A far end that stays silent is given up by the keepalive.
   Nothing is assumed of drones, operators and networks. *)
Fairness ==
  /\ WF_vars(Tick) /\ WF_vars(Wake) /\ WF_vars(Abort) /\ WF_vars(EndRound)
  /\ \A s \in Socket : /\ WF_vars(EndpointEnds(s))
                       /\ WF_vars(Send(s) \/ SendRaises(s))
                       /\ WF_vars(far[s] = "silent" /\ Leave(s))

-----------------------------------------------------------------------------
(* Properties. *)

(* A socket that is open at both ends is in _active_clients: neither the dead
   of an earlier round, nor a round broken off, nor the endpoint's finally
   makes broadcast_loop forget a browser that is still there
   (websocket.py:39, 56, 95). *)
OpenIsRegistered == \A s \in Socket : far[s] \in {"open", "silent"} => s \in active
=============================================================================
