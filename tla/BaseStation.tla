----------------------------- MODULE BaseStation -----------------------------
(****************************************************************************)
(* The RTK base station (rtk_tools/rtk_base_station_v2.py): a thread reads  *)
(* RTCM frames from the serial port of the F9P receiver into one bounded    *)
(* queue; a thread for each TCP client, and one for the UDP broadcast, take *)
(* frames from that same queue; once a minute the main thread opens the     *)
(* serial port beside the reader to print the state of the receiver.        *)
(*                                                                          *)
(* A frame is two pieces of the byte stream, the second without a 0xD3 at   *)
(* its start: enough to cut a frame in two, to lose half of it and to find  *)
(* the next one.                                                            *)
(****************************************************************************)
EXTENDS Naturals, Sequences, FiniteSets, SequencesExt

CONSTANTS
  Client,      \* TCP clients
  Udp,         \* the UDP broadcaster, which takes frames as a client does
  EnableUdp,   \* the values of config.enable_udp considered
  Frames,      \* how many frames the receiver puts out
  QueueSize,   \* maxsize of rtcm_queue
  PortSize     \* pieces the tty keeps; what comes while it is full is lost

ASSUME ClientAssumption == Udp \notin Client
ASSUME EnableUdpAssumption == EnableUdp \subseteq BOOLEAN
ASSUME SizesAssumption ==
  Frames \in Nat /\ QueueSize \in Nat \ {0} /\ PortSize \in Nat \ {0}

Taker == Client \union {Udp}

VARIABLES
  emitted,   \* pieces the receiver has put out
  port,      \* pieces in the tty, not yet read
  reader,    \* where _read_loop is
  buffer,    \* its buffer
  held,      \* the frame it is putting into the queue
  queue,     \* rtcm_queue
  status,    \* _read_gps_status has the serial port open
  at,        \* at[t]: where the thread of taker t is
  hand,      \* hand[t]: the frame it has taken and not yet sent
  got,       \* got[t]: the frames that have gone out to t
  peer,      \* the clients whose far end is still there
  stopped,   \* components RtkBaseStation.stop has stopped: reader, TCP, UDP
  lost,      \* some piece was lost before it reached the buffer, or in it
  dropped    \* frames taken by a send that failed

serialVars == <<emitted, port, reader, buffer, held, lost>>
takerVars == <<at, hand, got, peer, dropped>>
vars == <<serialVars, queue, status, takerVars, stopped>>

Piece == 1 .. 2 * Frames
NoFrame == <<>>

(* The first two pieces of a buffer that starts with 0xD3. *)
Frame == Piece \X Piece

IsHead(p) == p % 2 = 1

TypeOK ==
  /\ emitted \in 0 .. 2 * Frames
  /\ port \in Seq(Piece) /\ Len(port) <= PortSize
  /\ reader \in {"opening", "select", "put", "error", "ended"}
  /\ buffer \in Seq(Piece)
  /\ held \in Frame \union {NoFrame}
  /\ queue \in Seq(Frame) /\ Len(queue) <= QueueSize
  /\ status \in BOOLEAN
  /\ at \in [Taker -> {"away", "get", "send", "closed"}]
  /\ hand \in [Taker -> Frame \union {NoFrame}]
  /\ got \in [Taker -> Seq(Frame)]
  /\ peer \subseteq Client
  /\ stopped \in 0 .. 3
  /\ lost \in BOOLEAN
  /\ dropped \subseteq Frame

Init ==
  /\ emitted = 0
  /\ port = <<>>
  /\ reader = "opening"
  /\ buffer = <<>>
  /\ held = NoFrame
  /\ queue = <<>>
  /\ status = FALSE
  /\ \E on \in EnableUdp :
       at = [t \in Taker |-> IF t = Udp /\ on THEN "get" ELSE "away"]
  /\ hand = [t \in Taker |-> NoFrame]
  /\ got = [t \in Taker |-> <<>>]
  /\ peer = {}
  /\ stopped = 0
  /\ lost = FALSE
  /\ dropped = {}

ReaderRuns == stopped = 0
Runs(t) == stopped < IF t = Udp THEN 3 ELSE 2

-----------------------------------------------------------------------------
(* The receiver and the tty. *)

Emit ==
  /\ emitted < 2 * Frames
  /\ emitted' = emitted + 1
  /\ IF Len(port) < PortSize THEN port' = Append(port, emitted + 1) /\ UNCHANGED lost
                             ELSE lost' = TRUE /\ UNCHANGED port
  /\ UNCHANGED <<reader, buffer, held, queue, status, takerVars, stopped>>

-----------------------------------------------------------------------------
(* _read_loop. *)

(* Opening the port discards what the tty holds. *)
Open ==
  /\ reader = "opening"
  /\ \/ /\ reader' = IF ReaderRuns THEN "select" ELSE "ended"
        /\ port' = <<>>
        /\ lost' = (lost \/ port # <<>>)
     \/ reader' = "ended" /\ UNCHANGED <<port, lost>>
  /\ UNCHANGED <<emitted, buffer, held, queue, status, takerVars, stopped>>

(* The buffer from its first 0xD3 on. *)
Synced(b) ==
  LET i == SelectInSeq(b, IsHead) IN IF i = 0 THEN <<>> ELSE SubSeq(b, i, Len(b))

(* The definitions named Slip... are wrong on purpose: each is a definition of
   this module as a plausible slip would have left it, and the run must find a
   property that tells it from the right one. *)
SlipParse(b) ==
  IF Len(Synced(b)) >= 2
  THEN /\ held' = SubSeq(Synced(b), 1, 2)
       /\ buffer' = <<>>
       /\ reader' = "put"
  ELSE /\ held' = NoFrame
       /\ buffer' = Synced(b)
       /\ reader' = IF ReaderRuns THEN "select" ELSE "ended"

(* One round of the loop that cuts frames out of the buffer. *)
Parse(b) ==
  IF Len(Synced(b)) >= 2
  THEN /\ held' = SubSeq(Synced(b), 1, 2)
       /\ buffer' = SubSeq(Synced(b), 3, Len(Synced(b)))
       /\ reader' = "put"
  ELSE /\ held' = NoFrame
       /\ buffer' = Synced(b)
       /\ reader' = IF ReaderRuns THEN "select" ELSE "ended"

Read ==
  /\ reader = "select"
  /\ port # <<>>
  /\ port' = <<>>
  /\ Parse(buffer \o port)
  /\ UNCHANGED <<emitted, queue, status, takerVars, stopped, lost>>

(* The select of one second runs out after stop has cleared the flag. *)
SelectTimeout ==
  /\ reader = "select"
  /\ port = <<>>
  /\ ~ReaderRuns
  /\ reader' = "ended"
  /\ UNCHANGED <<emitted, port, buffer, held, queue, status, takerVars, stopped, lost>>

SlipPut ==
  /\ reader = "put"
  /\ queue' = Append(queue, held)
  /\ Parse(buffer)
  /\ UNCHANGED <<emitted, port, status, takerVars, stopped, lost>>

SlipPutEarlyFull ==
  /\ reader = "put"
  /\ Len(queue) + 1 < QueueSize
  /\ queue' = Append(queue, held)
  /\ Parse(buffer)
  /\ UNCHANGED <<emitted, port, status, takerVars, stopped, lost>>

(* queue.put waits, without a limit, for a place in the queue. *)
Put ==
  /\ reader = "put"
  /\ Len(queue) < QueueSize
  /\ queue' = Append(queue, held)
  /\ Parse(buffer)
  /\ UNCHANGED <<emitted, port, status, takerVars, stopped, lost>>

SerialFails ==
  /\ reader = "select"
  /\ reader' = "error"
  /\ UNCHANGED <<emitted, port, buffer, held, queue, status, takerVars, stopped, lost>>

(* A second later the port is opened again, with an empty buffer; when that
   fails too the thread ends. *)
Reopen ==
  /\ reader = "error"
  /\ \/ /\ reader' = IF ReaderRuns THEN "select" ELSE "ended"
        /\ buffer' = <<>>
        /\ port' = <<>>
        /\ lost' = (lost \/ buffer # <<>> \/ port # <<>>)
     \/ /\ reader' = "ended"
        /\ UNCHANGED <<buffer, port, lost>>
  /\ UNCHANGED <<emitted, held, queue, status, takerVars, stopped>>

-----------------------------------------------------------------------------
(* print_stats: _read_gps_status opens the same port, which discards what is
   there, and then takes bytes the reader would have had. *)

StatusOpen ==
  /\ stopped = 0
  /\ ~status
  /\ status' = TRUE
  /\ port' = <<>>
  /\ lost' = (lost \/ port # <<>>)
  /\ UNCHANGED <<emitted, reader, buffer, held, queue, takerVars, stopped>>

StatusRead ==
  /\ status
  /\ port # <<>>
  /\ port' = Tail(port)
  /\ lost' = TRUE
  /\ UNCHANGED <<emitted, reader, buffer, held, queue, status, takerVars, stopped>>

StatusClose ==
  /\ status
  /\ status' = FALSE
  /\ UNCHANGED <<serialVars, queue, takerVars, stopped>>

-----------------------------------------------------------------------------
(* The TCP server and its handlers, and the broadcaster. *)

Accept(c) ==
  /\ c \in Client
  /\ stopped < 2
  /\ at[c] = "away"
  /\ at' = [at EXCEPT ![c] = "get"]
  /\ peer' = peer \union {c}
  /\ UNCHANGED <<serialVars, queue, status, hand, got, dropped, stopped>>

(* The far end goes away; the handler learns of it from a send at the earliest. *)
Leave(c) ==
  /\ c \in peer
  /\ peer' = peer \ {c}
  /\ UNCHANGED <<serialVars, queue, status, at, hand, got, dropped, stopped>>

SlipTake(t) ==
  /\ at[t] = "get"
  /\ queue # <<>>
  /\ hand' = [hand EXCEPT ![t] = Head(queue)]
  /\ at' = [at EXCEPT ![t] = "send"]
  /\ UNCHANGED <<serialVars, queue, status, got, peer, dropped, stopped>>

(* queue.get, which a thread that has seen the flag still set may finish after
   stop has cleared it. *)
Take(t) ==
  /\ at[t] = "get"
  /\ queue # <<>>
  /\ queue' = Tail(queue)
  /\ hand' = [hand EXCEPT ![t] = Head(queue)]
  /\ at' = [at EXCEPT ![t] = "send"]
  /\ UNCHANGED <<serialVars, status, got, peer, dropped, stopped>>

(* The get of one second runs out after stop has cleared the flag. *)
GetTimeout(t) ==
  /\ at[t] = "get"
  /\ queue = <<>>
  /\ ~Runs(t)
  /\ at' = [at EXCEPT ![t] = "closed"]
  /\ UNCHANGED <<serialVars, queue, status, hand, got, peer, dropped, stopped>>

NextRound(t) == IF Runs(t) THEN "get" ELSE "closed"

Deliver(t) ==
  /\ at[t] = "send"
  /\ t \in peer \union {Udp}
  /\ got' = [got EXCEPT ![t] = Append(@, hand[t])]
  /\ hand' = [hand EXCEPT ![t] = NoFrame]
  /\ at' = [at EXCEPT ![t] = NextRound(t)]
  /\ UNCHANGED <<serialVars, queue, status, peer, dropped, stopped>>

(* The frame of a send that failed goes back into the queue, behind the others. *)
SlipDrop(t) ==
  /\ at[t] = "send"
  /\ t \notin peer
  /\ IF t # Udp /\ Len(queue) < QueueSize
       THEN queue' = Append(queue, hand[t]) /\ UNCHANGED dropped
       ELSE dropped' = dropped \union {hand[t]} /\ UNCHANGED queue
  /\ hand' = [hand EXCEPT ![t] = NoFrame]
  /\ \E to \in {NextRound(t)} \union (IF t = Udp THEN {} ELSE {"closed"}) :
       at' = [at EXCEPT ![t] = to]
  /\ UNCHANGED <<serialVars, status, got, peer, stopped>>

(* A send that reaches nobody: the broadcaster counts an error and goes on; a
   handler whose client has left may not notice the first time, and ends when
   the send raises. *)
Drop(t) ==
  /\ at[t] = "send"
  /\ t \notin peer
  /\ dropped' = dropped \union {hand[t]}
  /\ hand' = [hand EXCEPT ![t] = NoFrame]
  /\ \E to \in {NextRound(t)} \union (IF t = Udp THEN {} ELSE {"closed"}) :
       at' = [at EXCEPT ![t] = to]
  /\ UNCHANGED <<serialVars, queue, status, got, peer, stopped>>

(* RtkBaseStation.stop stops one component after the other and waits for none of
   them longer than two seconds. *)
Stop ==
  /\ stopped < 3
  /\ ~status
  /\ stopped' = stopped + 1
  /\ UNCHANGED <<serialVars, queue, status, takerVars>>

Next ==
  \/ Emit
  \/ Open \/ Read \/ SelectTimeout \/ Put \/ SerialFails \/ Reopen
  \/ StatusOpen \/ StatusRead \/ StatusClose
  \/ \E t \in Taker :
       Accept(t) \/ Leave(t) \/ Take(t) \/ GetTimeout(t) \/ Deliver(t) \/ Drop(t)
  \/ Stop

Spec == Init /\ [][Next]_vars

(* The threads are scheduled and the waits of the reader end; a datagram goes out
   without waiting, and a send to a far end that has gone fails in the end.  A
   far end that is there may not read: sendall has no timeout. *)
Fairness ==
  /\ WF_vars(Open) /\ WF_vars(Read) /\ WF_vars(Put) /\ WF_vars(Reopen)
  /\ WF_vars(Deliver(Udp))
  /\ \A t \in Taker : WF_vars(Take(t)) /\ WF_vars(Drop(t))

FairSpec == Spec /\ Fairness
-----------------------------------------------------------------------------

Held == IF held = NoFrame THEN {} ELSE {held}
Hands == {hand[t] : t \in Taker} \ {NoFrame}
Gone == UNION {Range(got[t]) : t \in Taker}

Whole(k) == <<2 * k - 1, 2 * k>>

(* As long as the serial side has lost nothing, the frames that have come out of
   the buffer are exactly the first ones the receiver put out, each of them
   whole, and every one is waiting in the queue, in some thread's hands, sent,
   or lost in a send that failed (_read_loop, Queue, _handle_client,
   _broadcast_loop together). *)
LosslessWhileUndisturbed ==
  ~lost =>
    Held \union Range(queue) \union Hands \union Gone \union dropped
      = {Whole(k) : k \in 1 .. (emitted - Len(port) - Len(buffer)) \div 2}

Before(f, g) == f[1] < g[1]

(* However pieces and clients come and go, no frame goes out twice, to one client
   or to two, and each client gets its frames in the order they were read. *)
OnceAndInOrder ==
  /\ \A t \in Taker : \A i, j \in DOMAIN got[t] : i < j => Before(got[t][i], got[t][j])
  /\ \A t, u \in Taker : t # u => Range(got[t]) \cap Range(got[u]) = {}
  /\ \A f \in Hands \union Range(queue) \union Held : f \notin Gone \union dropped

(* The station is a source that shares its frames out: to the pieces the receiver
   puts out, in any order of the threads, restarts of the port and losses, it
   adds nothing, gives none to two takers and never an old one after a new one.
   A frame is known by the place of its first piece (_read_loop, _handle_client
   and _broadcast_loop around the one rtcm_queue). *)
Starts(q) == [i \in 1 .. Len(q) |-> q[i][1]]
Shared == INSTANCE SharedFifo WITH
  sent <- emitted, got <- [t \in Taker |-> Starts(got[t])]
ImplementsSharedFifo == Shared!Spec

(* A client that reads what is sent to it, or goes. *)
Reads(c) == WF_vars(Deliver(c))

(* A reader that waits for a place in the full queue, and leaves the serial port
   unread meanwhile, gets it if one client that reads stays connected, whatever
   the others do, or if the broadcaster runs; without either it waits for ever
   (Queue.put without a timeout against _handle_client and _broadcast_loop). *)
ReaderUnblocks ==
  /\ \A c \in Client :
       Reads(c) => ((reader = "put" /\ c \in peer) ~>
                      (reader # "put" \/ c \notin peer \/ stopped > 0))
  /\ (reader = "put" /\ at[Udp] # "away") ~> (reader # "put" \/ stopped > 0)

(* docs/01-specification/communication-architecture.md, line 412, says that the TCP
   server broadcasts each frame it receives to every client connected to it: a
   client that reads and waits for a frame while one is in the queue gets it. *)
EveryClientGetsIt ==
  \A c \in Client : \A k \in 1 .. Frames :
    Reads(c) => ((at[c] = "get" /\ Whole(k) \in Range(queue)) ~>
      (Whole(k) \in Range(got[c]) \/ c \notin peer \/ stopped > 0))
=============================================================================
