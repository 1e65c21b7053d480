---------------------------- MODULE UdpConnection ----------------------------
(****************************************************************************)
(* The life of the link: POST /api/connect and /api/disconnect              *)
(* (app/api/routes.py), MessageRouter.start and stop, and the receive loops *)
(* of MavlinkConnection (app/mavlink/connection.py): UDP with its timeouts, *)
(* back-off, socket rebinding and SSH tunnel, and serial, which a           *)
(* connection uses when its configuration says so.  Every connect makes a   *)
(* new MavlinkConnection on the same port; stop waits at most three seconds *)
(* for the receive thread, which may sit in recvfrom, in a wait or in       *)
(* opening a device for longer, so an old thread may outlive its stop and   *)
(* meet the next connection.                                                *)
(****************************************************************************)
EXTENDS Naturals, Sequences, SequencesExt

CONSTANTS
  Conn,           \* the MavlinkConnection objects, one for each connect
  NoConn,         \* the value None of api_srv.connection
  MaxTimeouts,    \* max_consecutive_timeouts
  FailureCap,     \* _consecutive_failures is counted up to here
  TunnelEnabled   \* ssh_tunnel.enabled

ASSUME NoConnAssumption == NoConn \notin Conn
ASSUME MaxTimeoutsAssumption == MaxTimeouts \in Nat \ {0}
ASSUME FailureCapAssumption == FailureCap \in Nat \ {0}
ASSUME TunnelAssumption == TunnelEnabled \in BOOLEAN

VARIABLES
  current,     \* api_srv.connection
  joining,     \* a disconnect is in MavlinkConnection.stop, before the close
  kind,        \* kind[g]: connection_type
  pc,          \* pc[g]: where the receive thread of g is
  running,     \* running[g]: the flag its loop tests
  sock,        \* sock[g]: the socket of g, or its serial_conn
  bound,       \* sockets the kernel has bound to the port, in bind order
  timeouts,    \* timeouts[g]: timeout_count of the loop
  failures,    \* failures[g]: _consecutive_failures
  connected,   \* connected[g]: is_connected
  tunnel,      \* tunnel[g]: the ssh process of g
  outlived     \* outlived[g]: the join of stop gave up on the thread of g

loopVars == <<timeouts, failures, connected>>
vars == <<current, joining, kind, pc, running, sock, bound, loopVars, tunnel, outlived>>

(* "starting" is the router thread before it calls start; "error" is a receive
   thread whose recvfrom raised OSError and that has not handled it yet;
   "blocked" is one in recvfrom on a socket that has no timeout.  A serial
   thread is in its loop, "serial", or in "opening" the device. *)
Pc == {"none", "starting", "recv", "blocked", "error", "tunnel", "wait", "done",
       "serial", "opening"}

(* "unbound" is what a _bind_udp that raises in bind leaves: a new socket, not
   bound to the port and not yet given its timeout. *)
Sock == {"none", "open", "unbound", "closed"}

TypeOK ==
  /\ current \in Conn \union {NoConn}
  /\ joining \in BOOLEAN
  /\ kind \in [Conn -> {"udp", "serial"}]
  /\ pc \in [Conn -> Pc]
  /\ running \in [Conn -> BOOLEAN]
  /\ sock \in [Conn -> Sock]
  /\ bound \in Seq(Conn)
  /\ timeouts \in [Conn -> 0 .. MaxTimeouts - 1]
  /\ failures \in [Conn -> 0 .. FailureCap]
  /\ connected \in [Conn -> BOOLEAN]
  /\ tunnel \in [Conn -> {"none", "alive", "dead"}]
  /\ outlived \in [Conn -> BOOLEAN]

Init ==
  /\ current = NoConn
  /\ joining = FALSE
  /\ kind = [g \in Conn |-> "udp"]
  /\ pc = [g \in Conn |-> "none"]
  /\ running = [g \in Conn |-> FALSE]
  /\ sock = [g \in Conn |-> "none"]
  /\ bound = <<>>
  /\ timeouts = [g \in Conn |-> 0]
  /\ failures = [g \in Conn |-> 0]
  /\ connected = [g \in Conn |-> FALSE]
  /\ tunnel = [g \in Conn |-> "none"]
  /\ outlived = [g \in Conn |-> FALSE]

(* A connection has one socket at a time, so its place is unique. *)
Place(g) == CHOOSE i \in DOMAIN bound : bound[i] = g
Unbound(g) == IF g \in Range(bound) THEN RemoveAt(bound, Place(g)) ELSE bound

(* The definitions named Slip... are wrong on purpose: each is a definition of
   this module as a plausible slip would have left it, and the runs must find a
   property that tells it from the right one. *)
SlipMoreFailures(g) == failures[g] + 1

SlipLoop(g) == IF sock[g] = "unbound" THEN "blocked" ELSE "recv"

(* _next_backoff, counted up to the cap. *)
MoreFailures(g) == IF failures[g] < FailureCap THEN failures[g] + 1 ELSE FailureCap

(* The head of the receive loop, and the recvfrom it goes on to. *)
Loop(g) ==
  IF ~running[g] THEN "done"
  ELSE IF sock[g] = "unbound" THEN "blocked" ELSE "recv"

-----------------------------------------------------------------------------
(* The API.  Its handlers run on one event loop and await nothing, so a
   disconnect that joins keeps every other request waiting.  An exception after
   router.start leaves the threads of g running and api_srv without them. *)

Connect(g) ==
  /\ current = NoConn
  /\ pc[g] = "none"
  /\ \/ /\ sock' = [sock EXCEPT ![g] = "open"]
        /\ bound' = Append(bound, g)
        /\ UNCHANGED kind
     \/ /\ kind' = [kind EXCEPT ![g] = "serial"]
        /\ UNCHANGED <<sock, bound>>
  /\ pc' = [pc EXCEPT ![g] = "starting"]
  /\ current' \in {g, NoConn}
  /\ UNCHANGED <<joining, running, loopVars, tunnel, outlived>>

(* The router thread calls start, which starts the receive thread. *)
Start(g) ==
  /\ pc[g] = "starting"
  /\ pc' = [pc EXCEPT ![g] = IF kind[g] = "udp" THEN "recv" ELSE "serial"]
  /\ running' = [running EXCEPT ![g] = TRUE]
  /\ UNCHANGED <<current, joining, kind, sock, bound, loopVars, tunnel, outlived>>

(* router.stop has joined the router thread; mav_conn.stop clears the flag. *)
Disconnect(g) ==
  /\ current = g
  /\ ~joining
  /\ pc[g] # "starting"
  /\ running' = [running EXCEPT ![g] = FALSE]
  /\ joining' = TRUE
  /\ UNCHANGED <<current, kind, pc, sock, bound, loopVars, tunnel, outlived>>

SlipClose(g) ==
  /\ current = g
  /\ joining
  /\ outlived' = [outlived EXCEPT ![g] = pc[g] # "done"]
  /\ sock' = [sock EXCEPT ![g] = IF @ = "none" THEN @ ELSE "closed"]
  /\ bound' \in {Unbound(g)} \union (IF pc[g] = "recv" THEN {bound} ELSE {})
  /\ joining' = FALSE
  /\ current' = NoConn
  /\ UNCHANGED <<kind, pc, running, loopVars, tunnel>>

(* The join returns, because the thread ended or after three seconds; then stop
   ends the tunnel and closes the socket.  The kernel keeps a socket that a
   thread is polling until the poll returns. *)
Close(g) ==
  /\ current = g
  /\ joining
  /\ outlived' = [outlived EXCEPT ![g] = pc[g] # "done"]
  /\ tunnel' = [tunnel EXCEPT ![g] = "none"]
  /\ sock' = [sock EXCEPT ![g] = IF @ = "none" THEN @ ELSE "closed"]
  /\ bound' \in {Unbound(g)} \union (IF pc[g] = "recv" THEN {bound} ELSE {})
  /\ joining' = FALSE
  /\ current' = NoConn
  /\ UNCHANGED <<kind, pc, running, loopVars>>

-----------------------------------------------------------------------------
(* The receive thread.  A datagram goes to the socket bound last. *)

Arrives(g) == bound # <<>> /\ Last(bound) = g

SlipReceive(g) ==
  /\ pc[g] = "recv"
  /\ sock[g] = "open"
  /\ Arrives(g)
  /\ pc' = [pc EXCEPT ![g] = Loop(g)]
  /\ timeouts' = [timeouts EXCEPT ![g] = 0]
  /\ connected' = [connected EXCEPT ![g] = TRUE]
  /\ UNCHANGED <<current, joining, kind, running, sock, bound, failures, tunnel, outlived>>

Receive(g) ==
  /\ pc[g] = "recv"
  /\ sock[g] = "open"
  /\ Arrives(g)
  /\ pc' = [pc EXCEPT ![g] = Loop(g)]
  /\ timeouts' = [timeouts EXCEPT ![g] = 0]
  /\ connected' = [connected EXCEPT ![g] = TRUE]
  /\ failures' = IF connected[g] THEN failures ELSE [failures EXCEPT ![g] = 0]
  /\ UNCHANGED <<current, joining, kind, running, sock, bound, tunnel, outlived>>

(* A blocked recvfrom returns when a command sent through its socket has given
   that a port and something answers to this port.  Nothing else wakes it, not
   even a close. *)
Answered(g) ==
  /\ pc[g] = "blocked"
  /\ pc' = [pc EXCEPT ![g] = Loop(g)]
  /\ timeouts' = [timeouts EXCEPT ![g] = 0]
  /\ connected' = [connected EXCEPT ![g] = TRUE]
  /\ failures' = IF connected[g] THEN failures ELSE [failures EXCEPT ![g] = 0]
  /\ UNCHANGED <<current, joining, kind, running, sock, bound, tunnel, outlived>>

(* recvfrom raises OSError: at once on a closed socket, on a datagram when stop
   closed the socket under the poll, or because the network went away. *)
RecvFails(g) ==
  /\ pc[g] = "recv"
  /\ sock[g] = "closed" => Arrives(g) \/ g \notin Range(bound)
  /\ pc' = [pc EXCEPT ![g] = "error"]
  /\ bound' = IF sock[g] = "closed" THEN Unbound(g) ELSE bound
  /\ UNCHANGED <<current, joining, kind, running, sock, loopVars, tunnel, outlived>>

SlipRebind(g) ==
  /\ pc[g] = "error"
  /\ connected' = [connected EXCEPT ![g] = FALSE]
  /\ \/ /\ sock' = [sock EXCEPT ![g] = "open"]
        /\ bound' = Append(Unbound(g), g)
        /\ pc' = [pc EXCEPT ![g] = "recv"]
        /\ UNCHANGED failures
     \/ /\ \E left \in {"closed", "unbound"} : sock' = [sock EXCEPT ![g] = left]
        /\ bound' = Unbound(g)
        /\ pc' = [pc EXCEPT ![g] = "wait"]
        /\ failures' = [failures EXCEPT ![g] = MoreFailures(g)]
  /\ UNCHANGED <<current, joining, kind, running, timeouts, tunnel, outlived>>

(* The OSError branch: close, bind again, and wait if that fails too, either in
   making the socket or in binding it. *)
Rebind(g) ==
  /\ pc[g] = "error"
  /\ connected' = [connected EXCEPT ![g] = FALSE]
  /\ \/ /\ sock' = [sock EXCEPT ![g] = "open"]
        /\ bound' = Append(Unbound(g), g)
        /\ pc' = [pc EXCEPT ![g] = IF running[g] THEN "recv" ELSE "done"]
        /\ UNCHANGED failures
     \/ /\ \E left \in {"closed", "unbound"} : sock' = [sock EXCEPT ![g] = left]
        /\ bound' = Unbound(g)
        /\ pc' = [pc EXCEPT ![g] = "wait"]
        /\ failures' = [failures EXCEPT ![g] = MoreFailures(g)]
  /\ UNCHANGED <<current, joining, kind, running, timeouts, tunnel, outlived>>

(* recvfrom times out, on a socket that is bound or was when it began. *)
TimesOut(g) ==
  /\ pc[g] = "recv"
  /\ g \in Range(bound)
  /\ bound' = IF sock[g] = "closed" THEN Unbound(g) ELSE bound

Timeout(g) ==
  /\ TimesOut(g)
  /\ timeouts[g] + 1 < MaxTimeouts
  /\ timeouts' = [timeouts EXCEPT ![g] = @ + 1]
  /\ pc' = [pc EXCEPT ![g] = Loop(g)]
  /\ UNCHANGED <<current, joining, kind, running, sock, failures, connected, tunnel,
                 outlived>>

(* The last timeout in a row: the link is down.  When its 30 s check is due and
   the tunnel is not alive, the thread starts another, which may fail. *)
LinkDown(g) ==
  /\ TimesOut(g)
  /\ timeouts[g] + 1 = MaxTimeouts
  /\ timeouts' = [timeouts EXCEPT ![g] = 0]
  /\ connected' = [connected EXCEPT ![g] = FALSE]
  /\ failures' = [failures EXCEPT ![g] = MoreFailures(g)]
  /\ \/ /\ pc' = [pc EXCEPT ![g] = "wait"]
        /\ UNCHANGED tunnel
     \/ /\ TunnelEnabled /\ tunnel[g] # "alive"
        /\ \E process \in {"none", "alive", "dead"} :
             tunnel' = [tunnel EXCEPT ![g] = process]
        /\ pc' = [pc EXCEPT ![g] = "tunnel"]
  /\ UNCHANGED <<current, joining, kind, running, sock, outlived>>

(* ConnectionReset or ConnectionRefused from recvfrom. *)
Reset(g) ==
  /\ pc[g] = "recv"
  /\ sock[g] = "open"
  /\ connected' = [connected EXCEPT ![g] = FALSE]
  /\ failures' = [failures EXCEPT ![g] = MoreFailures(g)]
  /\ pc' = [pc EXCEPT ![g] = "wait"]
  /\ UNCHANGED <<current, joining, kind, running, sock, bound, timeouts, tunnel, outlived>>

(* The two seconds _setup_ssh_tunnel gives ssh to fail. *)
TunnelStarted(g) ==
  /\ pc[g] = "tunnel"
  /\ pc' = [pc EXCEPT ![g] = "wait"]
  /\ UNCHANGED <<current, joining, kind, running, sock, bound, loopVars, tunnel, outlived>>

WaitOver(g) ==
  /\ pc[g] = "wait"
  /\ pc' = [pc EXCEPT ![g] = Loop(g)]
  /\ UNCHANGED <<current, joining, kind, running, sock, bound, loopVars, tunnel, outlived>>

(* The serial loop.  It opens the device when it has none and its back-off is
   over; the open may fail, and may take longer than stop waits for it. *)
OpenSerial(g) ==
  /\ pc[g] = "serial"
  /\ running[g] /\ sock[g] # "open"
  /\ pc' = [pc EXCEPT ![g] = "opening"]
  /\ UNCHANGED <<current, joining, kind, running, sock, bound, loopVars, tunnel, outlived>>

SerialOpened(g) ==
  /\ pc[g] = "opening"
  /\ pc' = [pc EXCEPT ![g] = IF running[g] THEN "serial" ELSE "done"]
  /\ \/ /\ sock' = [sock EXCEPT ![g] = "open"]
        /\ connected' = [connected EXCEPT ![g] = TRUE]
        /\ failures' = [failures EXCEPT ![g] = 0]
     \/ /\ connected' = [connected EXCEPT ![g] = FALSE]
        /\ failures' = [failures EXCEPT ![g] = MoreFailures(g)]
        /\ UNCHANGED sock
  /\ UNCHANGED <<current, joining, kind, running, bound, timeouts, tunnel, outlived>>

(* The device fails: it is closed and the back-off grows.  serial_error_count,
   which every open clears, never gets to serial_max_errors, so the link is not
   reported down. *)
SerialFails(g) ==
  /\ pc[g] = "serial"
  /\ running[g] /\ sock[g] = "open"
  /\ sock' = [sock EXCEPT ![g] = "none"]
  /\ failures' = [failures EXCEPT ![g] = MoreFailures(g)]
  /\ UNCHANGED <<current, joining, kind, pc, running, bound, timeouts, connected, tunnel,
                 outlived>>

SerialEnds(g) ==
  /\ pc[g] = "serial"
  /\ ~running[g]
  /\ pc' = [pc EXCEPT ![g] = "done"]
  /\ UNCHANGED <<current, joining, kind, running, sock, bound, loopVars, tunnel, outlived>>

(* The environment: ssh exits by itself. *)
TunnelDies(g) ==
  /\ tunnel[g] = "alive"
  /\ tunnel' = [tunnel EXCEPT ![g] = "dead"]
  /\ UNCHANGED <<current, joining, kind, pc, running, sock, bound, loopVars, outlived>>

RecvThread(g) ==
  \/ Receive(g) \/ RecvFails(g) \/ Rebind(g) \/ Timeout(g) \/ LinkDown(g)
  \/ Reset(g) \/ TunnelStarted(g) \/ WaitOver(g)
  \/ OpenSerial(g) \/ SerialOpened(g) \/ SerialFails(g) \/ SerialEnds(g)

Next == \E g \in Conn :
  \/ Connect(g) \/ Start(g) \/ Disconnect(g) \/ Close(g)
  \/ RecvThread(g)
  \/ Answered(g) \/ TunnelDies(g)

Spec == Init /\ [][Next]_vars

(* recvfrom has a timeout, waits end, threads are scheduled and a join returns;
   nobody has to connect or disconnect, and no datagram has to arrive. *)
Fairness ==
  \A g \in Conn : WF_vars(Start(g)) /\ WF_vars(Close(g)) /\ WF_vars(RecvThread(g))

FairSpec == Spec /\ Fairness

-----------------------------------------------------------------------------

(* A UDP link that is reported up has no failure left in its back-off: every
   branch that counts one takes the link down, and the next datagram clears it.
   A serial link is reported up, without failures, while its port is open, but
   also for as long as it tries to open it again (connection.py:139-176,
   254-296). *)
UpMeansFresh ==
  \A g \in Conn :
    /\ kind[g] = "udp" /\ connected[g] => failures[g] = 0
    /\ kind[g] = "serial" /\ sock[g] = "open" => connected[g] /\ failures[g] = 0

Stopped(g) == sock[g] = "closed" /\ ~running[g] /\ current # g

(* A connection whose receive thread ended before the close leaves neither a
   bound socket, nor an open device, nor a tunnel behind, and as long as every
   thread has done so and every connect has succeeded, only the connection in
   use is bound (connection.py:233-246). *)
CleanWhenJoined ==
  /\ \A g \in Conn : Stopped(g) /\ ~outlived[g] =>
       g \notin Range(bound) /\ tunnel[g] = "none"
  /\ \A g \in Conn : kind[g] = "serial" /\ pc[g] = "done" /\ current # g /\ ~outlived[g] =>
       sock[g] # "open"
  /\ (\A g \in Conn : ~outlived[g] /\ (pc[g] \in {"none", "done"} \/ current = g)) =>
       Range(bound) \subseteq {current}

(* How many steps, at most, a thread that was told to stop has before it. *)
StepsLeft(p) ==
  CASE p = "recv" -> 3
    [] p \in {"error", "tunnel"} -> 2
    [] p \in {"blocked", "wait", "serial", "opening"} -> 1
    [] OTHER -> 0

(* A receive thread whose flag was cleared takes no further round of its loop,
   wherever the stop found it and whatever fails on its way out: it moves only
   towards its end, binds the port at most once more, and nothing sets the flag
   again (connection.py:254-303, 312-379). *)
StoppedWindsDown ==
  [][\A g \in Conn : pc[g] \notin {"none", "starting"} /\ ~running[g] =>
       /\ ~running'[g]
       /\ pc'[g] # pc[g] => StepsLeft(pc'[g]) < StepsLeft(pc[g])
       /\ g \in Range(bound') \ Range(bound) => pc[g] = "error"]_vars

(* A receive thread does not outlive its stop for ever: it ends, whatever it was
   doing and whatever fails on the way, unless it blocks on an unbound socket. *)
StopEndsThread ==
  \A g \in Conn :
    (current = g /\ joining) ~> (current # g /\ pc[g] \in {"done", "blocked"})

(* app/mavlink/connection.py, lines 19 and 371, promise "UDP reconnection support
   (socket rebind on prolonged disconnect)" and, when a rebind fails, "backoff":
   a loop that has failed to rebind tries again, unless it is stopped. *)
RebindIsRetried ==
  \A g \in Conn :
    (pc[g] = "wait" /\ sock[g] # "open") ~> (pc[g] = "error" \/ ~running[g])

(* app/api/routes.py, line 233: disconnect is to "Safely disconnect and tear down
   all backend components".  When it has returned and the receive thread has
   ended, nothing of the connection holds the port. *)
PortReleased ==
  \A g \in Conn : pc[g] = "done" /\ current # g => g \notin Range(bound)
=============================================================================
