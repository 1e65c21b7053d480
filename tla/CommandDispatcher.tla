-------------------------- MODULE CommandDispatcher --------------------------
(****************************************************************************)
(* The command path of the ground station: CommandDispatcher                *)
(* (app/rtk_tools/command_dispatcher.py), the 0.5 s timeout loop of         *)
(* MessageRouter that drives it (app/mavlink/message_router.py), the        *)
(* threading.Timer threads that send a delayed ARM, and the drones at the   *)
(* far end of a UDP link that may lose, delay and reorder what it carries.  *)
(*                                                                          *)
(* Four kinds of thread share the table _pending_commands: the operator's   *)
(* thread (Qt or the asyncio loop), the timer threads, the receive thread   *)
(* that handles a COMMAND_ACK and the router thread that retries.  A step   *)
(* of this module is what one of them does between two points where the     *)
(* lock is free.                                                            *)
(****************************************************************************)
EXTENDS Naturals, FiniteSets

CONSTANTS
  Call,        \* the requests of the operator, one element per call
  Drone,       \* system ids
  Requests,    \* what the calls may ask for: functions from Call to Request
  CmdTimeout,  \* cmd_timeout, in ticks of the abstract clock
  MaxRetries,  \* max_retries
  Result       \* the results a drone may give: TRUE is MAV_RESULT_ACCEPTED

AllOperations ==
  {"ARM", "INDOOR_ARM", "FORCE_ARM", "DISARM", "TAKEOFF", "LAND", "SLOW_LAND",
   "RESTORE"}

(* One call of an operation of the dispatcher, for one drone. *)
Request == [op: AllOperations, drone: Drone]

ASSUME CallAssumption == IsFiniteSet(Call)
ASSUME RequestsAssumption == Requests \subseteq [Call -> Request]
ASSUME TimeoutAssumption == CmdTimeout \in Nat
ASSUME RetriesAssumption == MaxRetries \in Nat
ASSUME ResultAssumption == Result \subseteq BOOLEAN

VARIABLES
  request,   \* request[c]: the operation call c asks for, and of which drone
  phase,     \* phase[c]: how far the thread serving call c has come
  sent,      \* sent[c]: tries of the tracked COMMAND_LONG of call c: the first
             \* if it went out, and every retry, whether or not its send raised
  live,      \* the calls whose entry is in _pending_commands
  seq,       \* seq[c]: second component of the dictionary key of c's entry
  place,     \* place[c]: position of c's entry in the dictionary's order
  inserted,  \* number of keys inserted so far, the next free position
  status,    \* status[c]: the 'status' field of c's entry
  retries,   \* retries[c]: its 'retries' field
  age,       \* age[c]: ticks since its 'sent_time', up to CmdTimeout + 1
  resend,    \* timed_out of the router thread: the calls still to be resent
  uplink,    \* messages on their way to the drones
  acks,      \* COMMAND_ACKs on their way back
  answers,   \* answers[c]: the results drones have given to call c's command
  open       \* the connection of the dispatcher has not been stopped

tableVars == <<live, seq, place, inserted, status, retries, age>>
linkVars == <<uplink, acks, answers>>
vars == <<request, phase, sent, tableVars, resend, linkVars, open>>

(* A call is served by the operator's thread, or by a timer thread: "force",
   "mode" and "delay" are the timers of force_arm, of arm with a mode and of
   the ARM itself; a call is "sent" between _send_command and _track_command;
   "raised" is one whose send raised, which ends it before it tracks anything. *)
Phase == {"idle", "force", "mode", "delay", "sent", "tracked", "untracked",
          "raised"}
Status == {"none", "pending", "acked", "failed", "timeout"}

Settled == {"acked", "failed", "timeout"}

(* MAV_CMD 400 serves both ARM and DISARM; 22 is TAKEOFF, 21 is LAND. *)
CommandOf(op) ==
  CASE op \in {"ARM", "INDOOR_ARM", "FORCE_ARM", "DISARM"} -> "ARM_DISARM"
    [] op = "TAKEOFF" -> "TAKEOFF"
    [] op \in {"LAND", "SLOW_LAND"} -> "LAND"
    [] OTHER -> "PARAM_SET"

(* The parameters of the first transmission.  LAND is sent bare: the descent
   rate goes ahead in a DO_CHANGE_SPEED of its own. *)
SentParams(op) ==
  CASE op \in {"ARM", "INDOOR_ARM", "FORCE_ARM"} -> "arm"
    [] op = "DISARM" -> "disarm"
    [] op = "TAKEOFF" -> "altitude"
    [] OTHER -> "none"

(* The parameters the table keeps for a retransmission: land stores those of
   its DO_CHANGE_SPEED under the command id of LAND. *)
TrackedParams(op) == IF op = "SLOW_LAND" THEN "speed" ELSE SentParams(op)

Command(c) == CommandOf(request[c].op)

(* attempt numbers the transmissions of one call, so that two of them are two
   messages; neither the drone nor the dispatcher sees it, nor the call. *)
Message == [call: Call, cmd: {"ARM_DISARM", "TAKEOFF", "LAND", "SET_MODE",
                              "CHANGE_SPEED", "PARAM_SET"},
            params: {"arm", "disarm", "altitude", "speed", "none"},
            attempt: Nat]
Ack == [call: Call, cmd: {"ARM_DISARM", "TAKEOFF", "LAND", "SET_MODE",
                          "CHANGE_SPEED", "PARAM_SET"},
        attempt: Nat, ok: BOOLEAN]

Extra(c, cmd) == [call |-> c, cmd |-> cmd, params |-> "none", attempt |-> 0]

First(c) == [call |-> c, cmd |-> Command(c),
             params |-> SentParams(request[c].op), attempt |-> 0]

Repeat(c) == [call |-> c, cmd |-> Command(c),
              params |-> TrackedParams(request[c].op), attempt |-> sent[c]]

TypeOK ==
  /\ request \in Requests
  /\ phase \in [Call -> Phase]
  /\ sent \in [Call -> 0 .. MaxRetries + 1]
  /\ live \subseteq Call
  /\ seq \in [Call -> Nat]
  /\ place \in [Call -> Nat]
  /\ inserted \in Nat
  /\ status \in [Call -> Status]
  /\ retries \in [Call -> 0 .. MaxRetries]
  /\ age \in [Call -> 0 .. CmdTimeout + 1]
  /\ resend \subseteq Call
  /\ uplink \subseteq Message
  /\ acks \subseteq Ack
  /\ answers \in [Call -> SUBSET BOOLEAN]
  /\ open \in BOOLEAN

Init ==
  /\ request \in Requests
  /\ phase = [c \in Call |-> "idle"]
  /\ sent = [c \in Call |-> 0]
  /\ live = {}
  /\ seq = [c \in Call |-> 0]
  /\ place = [c \in Call |-> 0]
  /\ inserted = 0
  /\ status = [c \in Call |-> "none"]
  /\ retries = [c \in Call |-> 0]
  /\ age = [c \in Call |-> 0]
  /\ resend = {}
  /\ uplink = {}
  /\ acks = {}
  /\ answers = [c \in Call |-> {}]
  /\ open = TRUE

-----------------------------------------------------------------------------
(* The operator.  Its thread runs a call to the end before the next one: it
   is busy while a call it serves itself has sent and not yet tracked. *)

Immediate == {"DISARM", "TAKEOFF", "LAND", "SLOW_LAND"}

OperatorFree ==
  \A c \in Call : phase[c] = "sent" => request[c].op \notin Immediate

Calls(c, op) ==
  /\ open
  /\ OperatorFree
  /\ phase[c] = "idle"
  /\ request[c].op = op

(* The last step of every operation that transmits its command, when the
   command goes out. *)
Transmit(c, before) ==
  /\ phase' = [phase EXCEPT ![c] = "sent"]
  /\ sent' = [sent EXCEPT ![c] = 1]
  /\ uplink' = uplink \union before \union {First(c)}

(* arm without a mode: nothing but a 0.3 s timer. *)
Arm(c) ==
  /\ Calls(c, "ARM")
  /\ phase' = [phase EXCEPT ![c] = "delay"]
  /\ UNCHANGED <<request, sent, tableVars, resend, linkVars, open>>

(* arm with a mode: PARAM_SETs, then the timer of _step2_set_mode. *)
IndoorArm(c) ==
  /\ Calls(c, "INDOOR_ARM")
  /\ phase' = [phase EXCEPT ![c] = "mode"]
  /\ uplink' = uplink \union {Extra(c, "PARAM_SET")}
  /\ UNCHANGED <<request, sent, tableVars, resend, acks, answers, open>>

(* force_arm: PARAM_SETs, then a timer whose callback calls arm. *)
ForceArm(c) ==
  /\ Calls(c, "FORCE_ARM")
  /\ phase' = [phase EXCEPT ![c] = "force"]
  /\ uplink' = uplink \union {Extra(c, "PARAM_SET")}
  /\ UNCHANGED <<request, sent, tableVars, resend, acks, answers, open>>

(* restore_arm_params: PARAM_SETs that nothing tracks. *)
RestoreArmParams(c) ==
  /\ Calls(c, "RESTORE")
  /\ phase' = [phase EXCEPT ![c] = "untracked"]
  /\ uplink' = uplink \union {Extra(c, "PARAM_SET")}
  /\ UNCHANGED <<request, sent, tableVars, resend, acks, answers, open>>

Disarm(c) ==
  /\ Calls(c, "DISARM")
  /\ Transmit(c, {})
  /\ UNCHANGED <<request, tableVars, resend, acks, answers, open>>

Takeoff(c) ==
  /\ Calls(c, "TAKEOFF")
  /\ Transmit(c, {})
  /\ UNCHANGED <<request, tableVars, resend, acks, answers, open>>

Land(c) ==
  /\ \/ Calls(c, "LAND") /\ Transmit(c, {})
     \/ Calls(c, "SLOW_LAND") /\ Transmit(c, {Extra(c, "CHANGE_SPEED")})
  /\ UNCHANGED <<request, tableVars, resend, acks, answers, open>>

(* What an operation sends before its command, or instead of one. *)
Ahead(c) ==
  CASE request[c].op \in {"INDOOR_ARM", "FORCE_ARM", "RESTORE"} ->
         {Extra(c, "PARAM_SET")}
    [] request[c].op = "SLOW_LAND" -> {Extra(c, "CHANGE_SPEED")}
    [] OTHER -> {}

(* sendto raises OSError on a link that is open, too: the network is not
   reachable, or the receive thread has closed the socket and not yet another.
   The exception leaves the operation where it is: what went ahead has gone,
   no timer is started and nothing is tracked. *)
CallRaises(c) ==
  /\ \E op \in AllOperations \ {"ARM"} : Calls(c, op)
  /\ phase' = [phase EXCEPT ![c] = "raised"]
  /\ \E gone \in SUBSET Ahead(c) : uplink' = uplink \union gone
  /\ UNCHANGED <<request, sent, tableVars, resend, acks, answers, open>>

-----------------------------------------------------------------------------
(* Timer threads.  A send on a stopped connection always raises, one on an open
   connection may; the thread then ends without tracking anything, and nobody
   hears of it. *)

ForceDelayedArm(c) ==
  /\ phase[c] = "force"
  /\ phase' = [phase EXCEPT ![c] = "delay"]
  /\ UNCHANGED <<request, sent, tableVars, resend, linkVars, open>>

Step2SetMode(c) ==
  /\ open
  /\ phase[c] = "mode"
  /\ phase' = [phase EXCEPT ![c] = "delay"]
  /\ uplink' = uplink \union {Extra(c, "SET_MODE")}
  /\ UNCHANGED <<request, sent, tableVars, resend, acks, answers, open>>

DelayedArm(c) ==
  /\ open
  /\ phase[c] = "delay"
  /\ Transmit(c, {})
  /\ UNCHANGED <<request, tableVars, resend, acks, answers, open>>

TimerSendRaises(c) ==
  /\ phase[c] \in {"mode", "delay"}
  /\ phase' = [phase EXCEPT ![c] = "raised"]
  /\ UNCHANGED <<request, sent, tableVars, resend, linkVars, open>>

TimerRuns(c) ==
  ForceDelayedArm(c) \/ Step2SetMode(c) \/ DelayedArm(c) \/ TimerSendRaises(c)

-----------------------------------------------------------------------------
(* The table.  The definitions named Slip... are wrong on purpose: each is one
   of the definitions after it as a plausible slip would have left it, and the
   runs must find a property that tells it from the right one. *)

SlipClash(c) == {d \in live : request[d].drone = request[c].drone}

SlipMatchesGone(a) ==
  {c \in Call : /\ phase[c] = "tracked"
                /\ request[c].drone = request[a.call].drone
                /\ Command(c) = a.cmd}

SlipMatchesAnyDrone(a) == {c \in live : Command(c) = a.cmd}

SlipDueAnyStatus == {c \in live : age[c] > CmdTimeout}

SlipDueWhileRetries ==
  {c \in live : status[c] = "pending" /\ age[c] > CmdTimeout
                 /\ retries[c] < MaxRetries}

SlipRetriableOnceMore ==
  {c \in live : status[c] = "pending" /\ age[c] > CmdTimeout
                 /\ retries[c] <= MaxRetries}

SlipRetriableOnceLess ==
  {c \in live : status[c] = "pending" /\ age[c] > CmdTimeout
                 /\ retries[c] + 1 < MaxRetries}

(* The entry a new one would replace: a key is the drone and the present
   number of entries, which an earlier deletion makes an old key again. *)
Clash(c) ==
  {d \in live : request[d].drone = request[c].drone /\ seq[d] = Cardinality(live)}

(* _track_command, by the thread that sent the command.  Assigning to a key
   that is there keeps its position in the dictionary. *)
TrackCommand(c) ==
  /\ phase[c] = "sent"
  /\ phase' = [phase EXCEPT ![c] = "tracked"]
  /\ live' = (live \ Clash(c)) \union {c}
  /\ seq' = [seq EXCEPT ![c] = Cardinality(live)]
  /\ \/ /\ Clash(c) = {}
        /\ place' = [place EXCEPT ![c] = inserted]
        /\ inserted' = inserted + 1
     \/ \E d \in Clash(c) :
          /\ place' = [place EXCEPT ![c] = place[d]]
          /\ UNCHANGED inserted
  /\ status' = [status EXCEPT ![c] = "pending"]
  /\ retries' = [retries EXCEPT ![c] = 0]
  /\ age' = [age EXCEPT ![c] = 0]
  /\ UNCHANGED <<request, sent, resend, linkVars, open>>

Matches(a) ==
  {c \in live : request[c].drone = request[a.call].drone /\ Command(c) = a.cmd}

(* handle_command_ack, in the receive thread: the first entry of that drone
   with that command id takes the answer, whatever its status. *)
HandleCommandAck(a) ==
  /\ open
  /\ acks' = acks \ {a}
  /\ \/ Matches(a) = {} /\ UNCHANGED status
     \/ \E c \in Matches(a) :
          /\ \A d \in Matches(a) : place[c] <= place[d]
          /\ status' = [status EXCEPT ![c] = IF a.ok THEN "acked" ELSE "failed"]
  /\ UNCHANGED <<request, phase, sent, live, seq, place, inserted, retries, age,
                 resend, uplink, answers, open>>

Due == {c \in live : status[c] = "pending" /\ age[c] > CmdTimeout}

Retriable == {c \in Due : retries[c] < MaxRetries}

(* check_timeouts, up to the end of its critical section: an entry that is due
   is retried or given up, and the latter's timeout callback has been called. *)
CheckTimeouts ==
  /\ open
  /\ resend = {}
  /\ Due # {}
  /\ retries' = [c \in Call |-> IF c \in Retriable THEN retries[c] + 1
                                                   ELSE retries[c]]
  /\ age' = [c \in Call |-> IF c \in Retriable THEN 0 ELSE age[c]]
  /\ status' = [c \in Call |-> IF c \in Due \ Retriable THEN "timeout"
                                                        ELSE status[c]]
  /\ live' = live \ (Due \ Retriable)
  /\ resend' = Retriable
  /\ UNCHANGED <<request, phase, sent, seq, place, inserted, linkVars, open>>

(* The loop of check_timeouts outside the lock, one _resend_command.  If send
   raises, the exception is logged and the retry is over. *)
ResendCommand(c) ==
  /\ c \in resend
  /\ \A d \in resend : place[c] <= place[d]
  /\ resend' = resend \ {c}
  /\ sent' = [sent EXCEPT ![c] = @ + 1]
  /\ uplink' \in {uplink, uplink \union {Repeat(c)}}
  /\ UNCHANGED <<request, phase, tableVars, acks, answers, open>>

(* MessageRouter.stop joins the router thread, so no resend is left over, and
   then the connection is stopped. *)
Disconnect ==
  /\ open
  /\ OperatorFree
  /\ resend = {}
  /\ open' = FALSE
  /\ UNCHANGED <<request, phase, sent, tableVars, resend, linkVars>>

-----------------------------------------------------------------------------
(* The environment: the clock, and a drone that obeys or refuses a command and
   answers it.  A message that is never executed, an ACK that is never handled,
   has been lost. *)

Waiting == {c \in live : status[c] = "pending" /\ age[c] <= CmdTimeout}

Tick ==
  /\ open
  /\ Waiting # {}
  /\ age' = [c \in Call |-> IF c \in Waiting THEN age[c] + 1 ELSE age[c]]
  /\ UNCHANGED <<request, phase, sent, live, seq, place, inserted, status,
                 retries, resend, linkVars, open>>

DroneExecutes(m) ==
  /\ uplink' = uplink \ {m}
  /\ \/ /\ m.cmd = "PARAM_SET"
        /\ UNCHANGED <<acks, answers>>
     \/ \E ok \in Result :
          /\ m.cmd # "PARAM_SET"
          /\ acks' = acks \union {[call |-> m.call, cmd |-> m.cmd,
                                   attempt |-> m.attempt, ok |-> ok]}
          /\ answers' = IF m.cmd = Command(m.call)
                        THEN [answers EXCEPT ![m.call] = @ \union {ok}]
                        ELSE answers
  /\ UNCHANGED <<request, phase, sent, tableVars, resend, open>>

Next ==
  \/ \E c \in Call :
       \/ Arm(c) \/ IndoorArm(c) \/ ForceArm(c) \/ RestoreArmParams(c)
       \/ Disarm(c) \/ Takeoff(c) \/ Land(c)
       \/ CallRaises(c)
       \/ TimerRuns(c)
       \/ TrackCommand(c)
       \/ ResendCommand(c)
  \/ \E a \in acks : HandleCommandAck(a)
  \/ \E m \in uplink : DroneExecutes(m)
  \/ CheckTimeouts
  \/ Tick
  \/ Disconnect

Spec == Init /\ [][Next]_vars

(* Timers expire, threads are scheduled, the clock runs and the router's loop
   goes round.  The operator, the link and the drones owe nothing. *)
Fairness ==
  /\ \A c \in Call :
       /\ WF_vars(TimerRuns(c))
       /\ WF_vars(TrackCommand(c))
       /\ WF_vars(ResendCommand(c))
  /\ WF_vars(CheckTimeouts)
  /\ WF_vars(Tick)

FairSpec == Spec /\ Fairness
-----------------------------------------------------------------------------
(* What the commands are owed. *)

(* Every transmission is accounted for: a tracked command was tried once and
   once more for each retry but the one still queued, so it goes out at most
   MaxRetries + 1 times; it is given up only when all tries have been made (one
   whose send raised is a try); and an entry that was given up has left the
   table (check_timeouts and _resend_command against whatever happened while the
   lock was free). *)
RetryBudget ==
  \A c \in Call :
    /\ phase[c] = "tracked" =>
         sent[c] = 1 + retries[c] - (IF c \in resend THEN 1 ELSE 0)
    /\ status[c] = "timeout" => sent[c] = MaxRetries + 1 /\ c \notin live

(* An entry is marked acked, or failed, only if the drone it was meant for
   accepted, or refused, some command with its command id: answers never cross
   from one drone to another or from one kind of command to another. *)
AnswerFromItsDrone ==
  \A c \in live : status[c] \in {"acked", "failed"} =>
    \E d \in Call :
      /\ request[d].drone = request[c].drone
      /\ Command(d) = Command(c)
      /\ (status[c] = "acked") \in answers[d]

(* As long as no command has been given up, no entry that still waits is lost:
   the sequence numbers of _track_command collide only after a deletion. *)
LossNeedsExpiry ==
  (\A d \in Call : status[d] # "timeout") =>
    \A c \in Call : phase[c] = "tracked" => c \in live

(* Once the fate of a command is known no step decides another transmission of
   it; only one that was decided before, and queued outside the lock, may still
   follow. *)
NothingNewOnceSettled ==
  [][\A c \in Call : status[c] \in Settled =>
       /\ status'[c] \in Settled
       /\ status[c] = "timeout" => status'[c] = "timeout"
       /\ c \in resend' => c \in resend
       /\ sent'[c] = sent[c] + (IF c \in resend \ resend' THEN 1 ELSE 0)]_vars

(* The history of every command is one that BoundedDelivery allows. *)
Outcome ==
  [c \in Call |->
     IF phase[c] # "tracked" THEN "none"
     ELSE IF status[c] \in {"acked", "failed"} THEN "answered"
     ELSE IF status[c] = "timeout" THEN "expired"
     ELSE IF c \in live THEN "waiting" ELSE "displaced"]

Decided == [c \in Call |-> sent[c] + (IF c \in resend THEN 1 ELSE 0)]

Delivery == INSTANCE BoundedDelivery
              WITH MaxTries <- MaxRetries + 1, decided <- Decided,
                   outcome <- Outcome

ImplementsBoundedDelivery == Delivery!Spec

(* Nothing waits forever: a call that was made ends acked, failed, given up or
   displaced by a later one, or its connection is stopped.  A call whose own
   send raised ends there: it is not tracked, so never retried and never given
   up (the operator sees the exception, that of a timer thread nobody sees); one
   that has sent its command has no such way out. *)
EveryCallEnds ==
  \A c \in Call :
    phase[c] # "idle" ~>
      \/ phase[c] \in {"untracked", "raised"}
      \/ phase[c] = "tracked" /\ (status[c] # "pending" \/ c \notin live)
      \/ ~open

(* memory-bank/system_patterns.md, lines 116 to 128, says of a tracked command
   that a COMMAND_ACK ends its wait: an ACK that answers an entry still waiting
   should end the wait of one such entry. *)
AckEndsAWait ==
  [][\A a \in acks \ acks' :
       (\E c \in Matches(a) : status[c] = "pending") =>
         \E c \in Matches(a) : status[c] = "pending" /\ status'[c] # "pending"]_vars

(* The same lines say that a tracked command leaves the table by an answer or,
   after its retries, by a timeout callback: while it waits it is there. *)
TrackedUntilSettled ==
  \A c \in Call : phase[c] = "tracked" /\ status[c] = "pending" => c \in live
=============================================================================
