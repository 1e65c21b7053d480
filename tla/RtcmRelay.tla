------------------------------ MODULE RtcmRelay ------------------------------
(****************************************************************************)
(* The programs that hand RTCM corrections on: the three sources of         *)
(* rtk_tools/rtk_forwarder_service.py ("tcp", "ntrip", "serial"), the two   *)
(* bridges from TCP to a serial port, rtk_tools/tcp2serial.py ("bridge")    *)
(* and scripts/tcp2serial.py ("script"), the NTRIP client of                *)
(* scripts/ichimill_positioning.py ("gga"), scripts/mavlink_rtcm_inject.py  *)
(* ("inject"), the way back of scripts/udp_tcp_bridge.py and                *)
(* direct_bridge.py ("pipe"), and scripts/ntrip_relay.py ("relay"), which   *)
(* serves many clients from one connection to a caster.                     *)
(*                                                                          *)
(* The stream is a sequence of numbered pieces; frame n is pieces 2n-1 and  *)
(* 2n.  A connection may be made in the middle of a frame: ntrip_relay, from *)
(* which the script reads, sends a new client whatever it reads next.       *)
(****************************************************************************)
EXTENDS Naturals, Sequences, FiniteSets

CONSTANTS
  Port,        \* the serial port or UDP address of the programs with one output
  Client,      \* clients of ntrip_relay
  MaxPiece,    \* bound: pieces produced
  BatchPieces  \* BATCH_BYTES, in pieces

ASSUME PortAssumption == Port \notin Client
ASSUME SizeAssumption == MaxPiece \in Nat /\ BatchPieces \in Nat \ {0}

VARIABLES
  job,     \* the program and the type of its output
  src,     \* its incoming connection: "eof" when the far end has closed it,
           \* "ended" when the program reads no more, "spin" when it does for ever
  knock,   \* somebody waits in the backlog of a bridge
  sent,    \* pieces produced so far
  stream,  \* what is in the incoming connection
  buffer,  \* the first half of a frame, or 0
  lured,   \* a byte within a frame has passed for the start of one, since Connect
  batch,   \* send_buf
  sink,    \* sink[s]: its state
  todo,    \* ntrip_relay, holding _clients_lock: clients to be sent the piece read
  took,    \* what the program has read
  out,     \* out[s]: what reached s; a client, since it was accepted
  from,    \* from[s]: Len(took) when it was accepted
  calm     \* nothing has broken, timed out or overflowed

inVars == <<src, knock, stream, buffer, lured, took>>
outVars == <<batch, sink, todo, out, from>>
vars == <<job, sent, inVars, outVars, calm>>

Kind == {"tcp", "ntrip", "serial", "bridge", "script", "gga", "inject", "pipe", "relay"}
Sink == {Port} \union Client
Piece == 1 .. MaxPiece
Is(kinds) == job.kind \in kinds

Forwarder == {"tcp", "ntrip", "serial"}
Framed == {"tcp", "serial", "script", "inject"}   \* they cut the stream into frames
Once == {"inject", "pipe"}                        \* they connect once, and send datagrams

TypeOK ==
  /\ job \in [kind : Kind, udp : BOOLEAN]
  /\ src \in {"off", "on", "eof", "spin", "ended"} /\ knock \in BOOLEAN
  /\ sent \in 0 .. MaxPiece
  /\ buffer \in 0 .. MaxPiece /\ lured \in BOOLEAN
  /\ Len(stream) <= MaxPiece /\ Len(batch) < BatchPieces
  /\ sink \in [Sink -> {"off", "waiting", "on", "stalled", "gone", "broken"}]
  /\ todo \subseteq Client
  /\ from \in [Sink -> 0 .. MaxPiece]
  /\ calm \in BOOLEAN

Init ==
  /\ job \in {j \in [kind : Kind, udp : BOOLEAN] : j.udp => j.kind \in Forwarder}
  /\ src = "off" /\ knock = FALSE
  /\ sent = 0 /\ stream = <<>> /\ buffer = 0 /\ lured = FALSE
  /\ batch = <<>> /\ todo = {} /\ took = <<>>
  /\ sink = [s \in Sink |-> IF s = Port /\ ~Is(Forwarder) THEN "on" ELSE "off"]
  /\ out = [s \in Sink |-> <<>>] /\ from = [s \in Sink |-> 0]
  /\ calm = TRUE

-----------------------------------------------------------------------------
(* The world. *)

(* What comes before the connection is made, or the port opened, is lost. *)
Produce ==
  /\ sent < MaxPiece
  /\ sent' = sent + 1
  /\ IF src = "on" THEN stream' = Append(stream, sent + 1) /\ UNCHANGED calm
                   ELSE calm' = FALSE /\ UNCHANGED stream
  /\ UNCHANGED <<job, src, knock, buffer, lured, took, outVars>>

(* The far end closes the connection, or the source's port fails. *)
SourceEnds ==
  /\ src = "on"
  /\ src' = "eof"
  /\ calm' = FALSE
  /\ UNCHANGED <<job, sent, knock, stream, buffer, lured, took, outVars>>

(* recv raises: what the connection still held is lost, and so is the batch,
   which only the end of a stream flushes. *)
SourceResets ==
  /\ src \in {"on", "eof"} /\ todo = {}
  /\ src' = IF Is(Once) THEN "ended" ELSE "off"
  /\ stream' = <<>> /\ batch' = <<>>
  /\ calm' = FALSE
  /\ UNCHANGED <<job, sent, knock, buffer, lured, took, sink, todo, out, from>>

(* The tty of a serial source overflows. *)
Overflow ==
  /\ Is({"serial"}) /\ stream # <<>>
  /\ stream' = Tail(stream)
  /\ calm' = FALSE
  /\ UNCHANGED <<job, sent, src, knock, buffer, lured, took, outVars>>

Knock ==
  /\ Is({"bridge", "script"}) /\ ~knock
  /\ knock' = TRUE
  /\ UNCHANGED <<job, sent, src, stream, buffer, lured, took, outVars, calm>>

(* The output's device fails, or its network; a client stalls, takes up reading
   again, or goes away.  Nothing makes a client that stalls go. *)
Becomes(s, before, after) ==
  /\ sink[s] \in before
  /\ sink' = [sink EXCEPT ![s] = after]
  /\ UNCHANGED <<job, sent, inVars, batch, todo, out, from>>

PortBreaks == ~Is({"relay"}) /\ Becomes(Port, {"on"}, "broken") /\ calm' = FALSE
ClientKnocks(c) == Is({"relay"}) /\ Becomes(c, {"off"}, "waiting") /\ UNCHANGED calm
ClientStalls(c) == Becomes(c, {"on"}, "stalled") /\ UNCHANGED calm
ClientResumes(c) == Becomes(c, {"stalled"}, "on") /\ UNCHANGED calm
ClientGoes(c) == Becomes(c, {"on", "stalled"}, "gone") /\ UNCHANGED calm

-----------------------------------------------------------------------------
(* Connecting. *)

(* A forwarder opens its output anew each time. *)
Connected == sink' = IF Is(Forwarder) THEN [sink EXCEPT ![Port] = "on"] ELSE sink

SlipConnect ==
  /\ src = "off"
  /\ Is({"bridge", "script"}) => knock
  /\ src' = "on" /\ knock' = FALSE
  /\ stream' = <<>> /\ lured' = FALSE /\ UNCHANGED buffer
  /\ Connected
  /\ UNCHANGED <<job, sent, batch, todo, took, out, from, calm>>

Connect ==
  /\ src = "off"
  /\ Is({"bridge", "script"}) => knock
  /\ src' = "on" /\ knock' = FALSE
  /\ stream' = <<>> /\ buffer' = 0 /\ lured' = FALSE
  /\ Connected
  /\ UNCHANGED <<job, sent, batch, todo, took, out, from, calm>>

(* connect_ntrip reads the caster's header until its end; at the end of the
   stream recv(1) returns nothing, again and again. *)
HeaderEnds ==
  /\ Is({"relay"}) /\ src = "off"
  /\ src' = "spin"
  /\ calm' = FALSE
  /\ UNCHANGED <<job, sent, knock, stream, buffer, lured, took, outVars>>

Closed == src' = "off" /\ stream' = <<>> /\ UNCHANGED <<knock, buffer, lured>>

-----------------------------------------------------------------------------
(* Reading. *)

Ready == src \in {"on", "eof"} /\ stream # <<>>
Quiet == src \in {"on", "eof"} /\ stream = <<>>

(* The frame that is complete with piece p, if any. *)
Complete(p) == IF buffer = 0 THEN <<>> ELSE <<buffer, p>>

(* The parser drops bytes up to a 0xD3, keeps a first half until the second comes,
   and checks no CRC: a 0xD3 within half a frame that comes without its beginning
   passes for the start of one.  The length read after it is then wrong; here it
   runs to the end of the next piece. *)
Cuts(p) ==
  \/ /\ buffer # 0 \/ p % 2 = 0
     /\ buffer' = 0 /\ UNCHANGED lured
  \/ /\ buffer = 0
     /\ buffer' = p
     /\ lured' = (lured \/ p % 2 = 0)

SlipDue(p) ==
  IF ~Is(Framed) THEN <<p>>
  ELSE IF ~Is({"tcp"}) THEN Complete(p)
  ELSE IF Len(batch \o Complete(p)) >= BatchPieces THEN batch ELSE <<>>

(* What is to be written now that p was read, in a program with one output. *)
Due(p) ==
  IF ~Is(Framed) THEN <<p>>
  ELSE IF ~Is({"tcp"}) THEN Complete(p)
  ELSE IF Len(batch \o Complete(p)) >= BatchPieces THEN batch \o Complete(p) ELSE <<>>

SlipBatched(p) == IF Is({"tcp"}) THEN batch \o Complete(p) ELSE <<>>

Batched(p) == IF Is({"tcp"}) /\ Due(p) = <<>> THEN batch \o Complete(p) ELSE <<>>

(* _run_tcp_once calls write and flush, which a UDP socket does not have. *)
Writable == sink[Port] = "on" /\ ~(Is({"tcp"}) /\ job.udp)

(* A write that fails may have put out a part of what was due. *)
Partly(due) ==
  \E n \in 0 .. IF sink[Port] = "broken" THEN Len(due) ELSE 0 :
    out' = [out EXCEPT ![Port] = @ \o SubSeq(due, 1, n)]

Consume(p) ==
  /\ stream' = Tail(stream)
  /\ took' = Append(took, p)
  /\ UNCHANGED <<job, sent, todo, from>>

Pass ==
  /\ Ready /\ ~Is({"relay"})
  /\ LET p == Head(stream) IN
       /\ Due(p) # <<>> => Writable
       /\ Consume(p)
       /\ IF Is(Framed) THEN Cuts(p) ELSE UNCHANGED <<buffer, lured>>
       /\ batch' = Batched(p)
       /\ out' = [out EXCEPT ![Port] = @ \o Due(p)]
  /\ UNCHANGED <<src, knock, sink, calm>>

(* The write fails: a forwarder closes both ends and loses what it holds; the
   bridge drops the client and keeps the broken handle; the injector and the pipe
   end. *)
PassFails ==
  /\ Ready /\ Is(Forwarder \union {"bridge"} \union Once)
  /\ LET p == Head(stream) IN Due(p) # <<>> /\ took' = Append(took, p) /\ Partly(Due(p))
  /\ ~Writable
  /\ src' = IF Is(Once) THEN "ended" ELSE "off"
  /\ stream' = <<>> /\ batch' = <<>>
  /\ calm' = FALSE
  /\ UNCHANGED <<job, sent, knock, buffer, lured, sink, todo, from>>

(* The GGA client only makes a note of a failed write: the piece is lost, and
   the port stays as it is. *)
PassDropped ==
  /\ Ready /\ Is({"gga"}) /\ ~Writable
  /\ Consume(Head(stream))
  /\ Partly(<<Head(stream)>>)
  /\ UNCHANGED <<src, knock, buffer, lured, batch, sink, calm>>

(* The script opens the port again in place; it loses the rest of the frame, or
   the client when the port does not open. *)
ScriptReopens ==
  /\ Ready /\ Is({"script"})
  /\ LET p == Head(stream) IN
       /\ Due(p) # <<>> /\ ~Writable
       /\ Partly(Due(p))
       /\ \/ /\ sink' = [sink EXCEPT ![Port] = "on"]
             /\ stream' = Tail(stream) /\ buffer' = 0 /\ UNCHANGED <<src, knock, lured>>
          \/ Closed /\ UNCHANGED sink
       /\ took' = Append(took, p)
  /\ UNCHANGED <<job, sent, batch, todo, from, calm>>

SlipFlush ==
  /\ Quiet /\ Is({"tcp"}) /\ batch # <<>> /\ Writable
  /\ out' = [out EXCEPT ![Port] = @ \o batch]
  /\ UNCHANGED <<job, sent, inVars, batch, sink, todo, from, calm>>

SlipFlushFull ==
  /\ Quiet /\ Is({"tcp"}) /\ Len(batch) >= BatchPieces /\ Writable
  /\ out' = [out EXCEPT ![Port] = @ \o batch]
  /\ batch' = <<>>
  /\ UNCHANGED <<job, sent, inVars, sink, todo, from, calm>>

(* recv times out, and the batch goes out. *)
Flush ==
  /\ Quiet /\ Is({"tcp"}) /\ batch # <<>> /\ Writable
  /\ out' = [out EXCEPT ![Port] = @ \o batch]
  /\ batch' = <<>>
  /\ UNCHANGED <<job, sent, inVars, sink, todo, from, calm>>

FlushFails ==
  /\ Quiet /\ Is({"tcp"}) /\ batch # <<>> /\ ~Writable
  /\ Partly(batch)
  /\ Closed
  /\ batch' = <<>>
  /\ calm' = FALSE
  /\ UNCHANGED <<job, sent, sink, todo, took, from>>

(* The end of the stream, to those that see it as such; an NTRIP source that is
   silent for timeout_sec counts as closed as well. *)
Ends ==
  /\ Quiet
  /\ \/ src = "eof" /\ Is({"tcp", "serial", "script", "gga", "relay"}) /\ batch = <<>>
     \/ Is({"ntrip"})
  /\ todo = {}
  /\ Closed
  /\ calm' = FALSE
  /\ UNCHANGED <<job, sent, batch, sink, todo, took, out, from>>

(* The injector stops at the end of the stream; a pipe takes it for nothing and
   asks again and again, or its thread ends, after 15 s of silence in
   direct_bridge. *)
EndsForGood ==
  /\ Quiet /\ Is(Once)
  /\ src = "eof" \/ Is({"pipe"})
  /\ src' \in {"ended"} \union IF src = "eof" /\ Is({"pipe"}) THEN {"spin"} ELSE {}
  /\ calm' = FALSE
  /\ UNCHANGED <<job, sent, knock, stream, buffer, lured, took, outVars>>

(* A serial read that times out within a frame drops the half it has. *)
ShortRead ==
  /\ Quiet /\ Is({"serial"}) /\ buffer # 0
  /\ buffer' = 0
  /\ calm' = FALSE
  /\ UNCHANGED <<job, sent, src, knock, stream, lured, took, outVars>>

SlipHealthTimeout ==
  /\ Quiet /\ Is({"bridge"}) /\ src = "eof" /\ ~knock
  /\ Closed
  /\ calm' = FALSE
  /\ UNCHANGED <<job, sent, took, outVars>>

(* The bridge takes the end of a stream for silence, and gives up a client that
   has been silent for health_timeout. *)
HealthTimeout ==
  /\ Quiet /\ Is({"bridge"})
  /\ Closed
  /\ calm' = FALSE
  /\ UNCHANGED <<job, sent, took, outVars>>

-----------------------------------------------------------------------------
(* ntrip_relay. *)

Served == {c \in Client : sink[c] \in {"on", "stalled", "gone"}}

Fetch ==
  /\ Ready /\ Is({"relay"}) /\ todo = {}
  /\ stream' = Tail(stream)
  /\ took' = Append(took, Head(stream))
  /\ todo' = Served
  /\ UNCHANGED <<job, sent, src, knock, buffer, lured, batch, sink, out, from, calm>>

SendAll(c) ==
  /\ c \in todo /\ sink[c] = "on"
  /\ out' = [out EXCEPT ![c] = Append(@, took[Len(took)])]
  /\ todo' = todo \ {c}
  /\ UNCHANGED <<job, sent, inVars, batch, sink, from, calm>>

SlipSendFails(c) ==
  /\ c \in todo /\ sink[c] \in {"gone", "stalled"}
  /\ todo' = todo \ {c}
  /\ UNCHANGED <<job, sent, inVars, batch, sink, out, from, calm>>

(* It is closed and taken off the list once the others have been served. *)
SendFails(c) ==
  /\ c \in todo /\ sink[c] = "gone"
  /\ todo' = todo \ {c}
  /\ sink' = [sink EXCEPT ![c] = "off"]
  /\ UNCHANGED <<job, sent, inVars, batch, out, from, calm>>

(* accept, then the lock: not while a piece is being sent around. *)
AcceptClient(c) ==
  /\ sink[c] = "waiting" /\ todo = {}
  /\ sink' = [sink EXCEPT ![c] = "on"]
  /\ out' = [out EXCEPT ![c] = <<>>]
  /\ from' = [from EXCEPT ![c] = Len(took)]
  /\ UNCHANGED <<job, sent, inVars, batch, todo, calm>>

-----------------------------------------------------------------------------
Program ==
  \/ Connect \/ Pass \/ PassFails \/ PassDropped \/ ScriptReopens
  \/ Flush \/ FlushFails \/ Ends \/ EndsForGood \/ HealthTimeout
  \/ Fetch \/ \E c \in Client : SendAll(c) \/ SendFails(c)

World ==
  \/ Produce \/ SourceEnds \/ SourceResets \/ Overflow \/ Knock \/ PortBreaks
  \/ ShortRead \/ HeaderEnds
  \/ \E c \in Client :
       ClientKnocks(c) \/ ClientStalls(c) \/ ClientResumes(c) \/ ClientGoes(c) \/ AcceptClient(c)

Next == Program \/ World

(* Timeouts expire, and ready sockets are served by the program's thread and by
   the thread that accepts, which gets the lock in its turn.  A client that reads
   again and again, if with stops, takes the piece: sendall goes on where it was.
   The far ends owe nothing. *)
Fairness ==
  /\ WF_vars(Program)
  /\ \A c \in Client : SF_vars(AcceptClient(c)) /\ SF_vars(SendAll(c))

Spec == Init /\ [][Next]_vars /\ Fairness

-----------------------------------------------------------------------------
(* Properties. *)

Half == IF buffer = 0 THEN <<>> ELSE <<buffer>>

(* While the connection stands and nothing breaks or overflows, nothing is lost:
   what was produced is in the output, the batch, the half frame or the stream, in order
   (rtk_forwarder_service.py:251-323, tcp2serial.py:233-281). *)
NothingLostWhileCalm ==
  calm /\ ~Is({"relay"}) =>
    out[Port] \o batch \o Half \o stream = [i \in 1 .. sent |-> i]

(* Frames from the first piece on, the last of them perhaps without its end. *)
Whole(q) ==
  \A i \in 1 .. Len(q) : IF i % 2 = 1 THEN q[i] % 2 = 1 ELSE q[i] = q[i - 1] + 1

Written == SubSeq(out'[Port], Len(out[Port]) + 1, Len(out'[Port]))

(* Wherever in a frame a connection begins, breaks or is reset, what a program
   that cuts a TCP stream into frames writes begins with the beginning of a frame
   and goes on with its own second half: a half frame or a batch does not survive
   its connection, and the rest of a frame of which a failing write has put out a
   part does not follow.  Only a write that fails ends within a frame.  Only
   while no byte within a frame has passed for the start of one, that is: the
   parsers check no CRC (_run_tcp_once, scripts/tcp2serial.py run_server,
   mavlink_rtcm_inject.py run). *)
WholeFrames ==
  [][Is({"tcp", "script", "inject"}) /\ ~lured =>
       Whole(Written) /\ (Writable => Len(Written) % 2 = 0)]_vars

(* A client of ntrip_relay has everything the relay has read since it was
   accepted, but for the piece it is being sent (ntrip_relay.py:131-168). *)
NoGap ==
  \A c \in Served :
    out[c] = SubSeq(took, from[c] + 1, Len(took) - IF c \in todo THEN 1 ELSE 0)

(* Each program is a way that loses but does not reorder or repeat.  What
   ntrip_relay puts out is what it has read, of which NoGap gives each client a
   part without a gap. *)
Fifo == INSTANCE LossyFifo WITH got <- IF Is({"relay"}) THEN took ELSE out[Port]
ImplementsLossyFifo == Fifo!Spec

(* A batch does not wait for ever (rtk_forwarder_service.py:274, "flush at
   least every 0.5s"): when the stream falls silent it is written or given up. *)
BatchLeaves == []<>(batch = <<>>)

(* Who connects is served in the end: the health timeout frees the bridge from
   a client that went away or fell silent (tcp2serial.py:9-11), and the relay
   accepts a client unless it waits for ever, the lock in its hands, in the
   sendall to one that has stalled (ntrip_relay.py:131-168: no timeout there). *)
EveryoneServed ==
  /\ Is({"bridge"}) => []<>~knock
  /\ \A c \in Client : \/ []<>(sink[c] # "waiting")
                       \/ <>[](\E d \in todo : sink[d] = "stalled")
=============================================================================
