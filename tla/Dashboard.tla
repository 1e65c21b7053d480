------------------------------ MODULE Dashboard ------------------------------
(****************************************************************************)
(* The pages of the operators (web/static/js): websocket.js keeps one       *)
(* socket open and the last payload in telemetryState, dashboard.js draws   *)
(* a card for each drone from it.  Each operator here is what one handler   *)
(* does to the page; the module that composes pages and backend says when   *)
(* it runs.                                                                 *)
(****************************************************************************)
EXTENDS Naturals, FiniteSets

CONSTANTS
  Drone,       \* system ids that have a card
  Page,        \* browser tabs
  NoSocket,    \* it has none
  MaxRetries   \* MAX_RETRIES

VARIABLES
  ws,        \* ws[p]: the socket page p has open
  at,        \* at[p]: "connecting" from the wait of scheduleReconnect on
  retries,   \* wsRetryCount
  card,      \* card[p][d]: what the card of drone d shows
  focus      \* an input or a mode select of the grid has the focus

(* "down" is the placeholder "Backend offline", "empty" is "No drone". *)
Card == {"down", "empty", "nosignal", "online"}
Drawn == {"nosignal", "online"}

PageTypeOK(Socket) ==
  /\ ws \in [Page -> Socket \union {NoSocket}]
  /\ at \in [Page -> {"connecting", "open", "gaveup"}]
  /\ retries \in [Page -> 0 .. MaxRetries]
  /\ card \in [Page -> [Drone -> Card]]
  /\ focus \in [Page -> BOOLEAN]

(* The script connects as it loads, and initDashboardUiState draws
   placeholders. *)
PageInit ==
  /\ ws = [p \in Page |-> NoSocket]
  /\ at = [p \in Page |-> "connecting"]
  /\ retries = [p \in Page |-> 0]
  /\ card = [p \in Page |-> [d \in Drone |-> "down"]]
  /\ focus = [p \in Page |-> FALSE]

-----------------------------------------------------------------------------
(* websocket.js. *)

OnOpen(p, s) ==
  /\ at[p] = "connecting"
  /\ at' = [at EXCEPT ![p] = "open"]
  /\ ws' = [ws EXCEPT ![p] = s]
  /\ retries' = [retries EXCEPT ![p] = 0]
  /\ UNCHANGED <<card, focus>>

(* onclose and scheduleReconnect; they draw nothing: the cards stay as the last
   payload left them. *)
OnClose(p) ==
  /\ at[p] \in {"connecting", "open"}
  /\ ws' = [ws EXCEPT ![p] = NoSocket]
  /\ \/ /\ retries[p] >= MaxRetries
        /\ at' = [at EXCEPT ![p] = "gaveup"]
        /\ UNCHANGED retries
     \/ /\ retries[p] < MaxRetries
        /\ at' = [at EXCEPT ![p] = "connecting"]
        /\ retries' = [retries EXCEPT ![p] = @ + 1]
  /\ UNCHANGED <<card, focus>>

Badge(m, d) == IF d \in m.online THEN "online" ELSE "nosignal"

(* renderAllCards: every card anew. *)
Redrawn(m, d) ==
  IF ~m.link THEN "down"
  ELSE IF m.beat[d] = "unknown" THEN "empty" ELSE Badge(m, d)

(* updateCardValuesOnly: a card that is there, of a drone in the payload. *)
Updated(p, m, d) ==
  IF card[p][d] \in Drawn /\ m.beat[d] # "unknown" THEN Badge(m, d) ELSE card[p][d]

OnMessage(p, m) ==
  /\ at[p] = "open"
  /\ card' = [card EXCEPT ![p] =
       [d \in Drone |-> IF focus[p] THEN Updated(p, m, d) ELSE Redrawn(m, d)]]
  /\ UNCHANGED <<ws, at, retries, focus>>

(* The operator reloads a page that has given up. *)
Reload(p) ==
  /\ at[p] = "gaveup"
  /\ at' = [at EXCEPT ![p] = "connecting"]
  /\ retries' = [retries EXCEPT ![p] = 0]
  /\ card' = [card EXCEPT ![p] = [d \in Drone |-> "down"]]
  /\ focus' = [focus EXCEPT ![p] = FALSE]
  /\ UNCHANGED ws

-----------------------------------------------------------------------------
(* The grid. *)

Focus(p) ==
  /\ ~focus[p]
  /\ \E d \in Drone : card[p][d] \in Drawn
  /\ focus' = [focus EXCEPT ![p] = TRUE]
  /\ UNCHANGED <<ws, at, retries, card>>

Blur(p) ==
  /\ focus[p]
  /\ focus' = [focus EXCEPT ![p] = FALSE]
  /\ UNCHANGED <<ws, at, retries, card>>
=============================================================================
