----------------------- MODULE CommandDispatcherProofs -----------------------
(****************************************************************************)
(* Theorems about CommandDispatcher, for every set of calls, every number   *)
(* of drones, every timeout and every number of retries.  IInv is the       *)
(* inductive invariant: beside the types and the properties it holds what   *)
(* they need about the phase a call is in, the keys of the table and the    *)
(* messages under way.                                                      *)
(****************************************************************************)
EXTENDS CommandDispatcher, FiniteSetTheorems, TLAPS

(* What a call has done is read off its phase: only a call that is tracked has
   an entry, a status and queued resends. *)
Lifecycle ==
  \A c \in Call :
    /\ phase[c] = "sent" => sent[c] = 1
    /\ phase[c] \notin {"sent", "tracked"} => sent[c] = 0
    /\ status[c] = "none" <=> phase[c] # "tracked"
    /\ c \in live => phase[c] = "tracked"
    /\ c \in resend => phase[c] = "tracked"

(* Until an entry has been deleted the table holds every tracked call, under
   sequence numbers below its size. *)
NoExpiry == \A d \in Call : status[d] # "timeout"

KeysBelowSize ==
  NoExpiry => \A c \in Call : phase[c] = "tracked" =>
                c \in live /\ seq[c] < Cardinality(live)

(* The commands that go out untracked, beside the one of the call. *)
Aside == {"SET_MODE", "CHANGE_SPEED"}

(* An ACK under way repeats a result its drone has given. *)
HonestLink ==
  /\ \A m \in uplink : m.cmd \in Aside \union {"PARAM_SET", Command(m.call)}
  /\ \A a \in acks : \/ a.cmd \in Aside
                     \/ a.cmd = Command(a.call) /\ a.ok \in answers[a.call]

IInv ==
  /\ TypeOK
  /\ Lifecycle
  /\ RetryBudget
  /\ KeysBelowSize
  /\ HonestLink
  /\ AnswerFromItsDrone

-----------------------------------------------------------------------------
(* Facts about the helpers. *)

LEMMA CommandRange ==
  ASSUME NEW op \in AllOperations
  PROVE  CommandOf(op) \in {"ARM_DISARM", "TAKEOFF", "LAND", "PARAM_SET"}
  BY DEF CommandOf, AllOperations

LEMMA ParamsRange ==
  ASSUME NEW op \in AllOperations
  PROVE  /\ SentParams(op) \in {"arm", "disarm", "altitude", "speed", "none"}
         /\ TrackedParams(op) \in {"arm", "disarm", "altitude", "speed", "none"}
  BY DEF SentParams, TrackedParams, AllOperations

(* The messages of the dispatcher are messages, and honest ones. *)
LEMMA Messages ==
  ASSUME TypeOK, NEW c \in Call
  PROVE  /\ First(c) \in Message /\ First(c).cmd = Command(c) /\ First(c).call = c
         /\ Repeat(c) \in Message /\ Repeat(c).cmd = Command(c) /\ Repeat(c).call = c
         /\ \A cmd \in Aside \union {"PARAM_SET"} :
              /\ Extra(c, cmd) \in Message
              /\ Extra(c, cmd).cmd = cmd
              /\ Extra(c, cmd).call = c
<1>1. request[c].op \in AllOperations
  BY RequestsAssumption DEF TypeOK, Request
<1>2. Command(c) \in {"ARM_DISARM", "TAKEOFF", "LAND", "PARAM_SET"}
  BY <1>1, CommandRange DEF Command
<1>3. sent[c] \in Nat
  BY RetriesAssumption DEF TypeOK
<1>4. First(c) \in Message /\ First(c).cmd = Command(c) /\ First(c).call = c
  BY <1>1, <1>2, ParamsRange DEF First, Message
<1>5. Repeat(c) \in Message /\ Repeat(c).cmd = Command(c) /\ Repeat(c).call = c
  BY <1>1, <1>2, <1>3, ParamsRange DEF Repeat, Message
<1>6. \A cmd \in Aside \union {"PARAM_SET"} :
        Extra(c, cmd) \in Message /\ Extra(c, cmd).cmd = cmd /\ Extra(c, cmd).call = c
  BY DEF Extra, Message, Aside
<1>7. QED BY <1>4, <1>5, <1>6

LEMMA LiveFinite ==
  ASSUME TypeOK
  PROVE  IsFiniteSet(live) /\ Cardinality(live) \in Nat
  BY CallAssumption, FS_Subset, FS_CardinalityType DEF TypeOK

(* A fresh entry that replaces none makes the table one longer. *)
LEMMA LiveGrows ==
  ASSUME TypeOK, NEW c \in Call, c \notin live
  PROVE  Cardinality(live \union {c}) = Cardinality(live) + 1
  BY LiveFinite, FS_AddElement

-----------------------------------------------------------------------------
(* One lemma for each kind of step: IInv is preserved. *)

(* A thread moves a call to another phase before anything of it is tracked, and
   may send messages of the kinds that are not tracked. *)
LEMMA MovesOn ==
  ASSUME IInv, NEW c \in Call, NEW p \in Phase \ {"sent", "tracked"},
         NEW extra \in SUBSET {Extra(c, cmd) : cmd \in Aside \union {"PARAM_SET"}},
         phase[c] \notin {"sent", "tracked"},
         phase' = [phase EXCEPT ![c] = p],
         uplink' = uplink \union extra,
         UNCHANGED <<request, sent, tableVars, resend, acks, answers, open>>
  PROVE  IInv'
<1> USE DEF IInv, tableVars
<1>1. TypeOK'
  <2>1. extra \subseteq Message
    BY Messages
  <2>2. QED BY <2>1 DEF TypeOK
<1>2. Lifecycle'
  BY DEF Lifecycle, TypeOK
<1>3. RetryBudget'
  BY DEF RetryBudget, TypeOK
<1>4. KeysBelowSize'
  BY DEF KeysBelowSize, NoExpiry, TypeOK
<1>5. HonestLink'
  BY Messages DEF HonestLink, Command, TypeOK
<1>6. AnswerFromItsDrone'
  BY DEF AnswerFromItsDrone, Command
<1>7. QED BY <1>1, <1>2, <1>3, <1>4, <1>5, <1>6

(* A thread sends the command of a call that has sent nothing. *)
LEMMA Transmits ==
  ASSUME IInv, NEW c \in Call,
         NEW extra \in SUBSET {Extra(c, cmd) : cmd \in Aside \union {"PARAM_SET"}},
         phase[c] \notin {"sent", "tracked"},
         Transmit(c, extra),
         UNCHANGED <<request, tableVars, resend, acks, answers, open>>
  PROVE  IInv'
<1> USE DEF IInv, tableVars, Transmit
<1>1. TypeOK'
  <2>1. extra \union {First(c)} \subseteq Message
    BY Messages
  <2>2. sent' \in [Call -> 0 .. MaxRetries + 1]
    BY RetriesAssumption DEF TypeOK
  <2>3. phase' \in [Call -> Phase]
    BY DEF TypeOK, Phase
  <2>4. QED BY <2>1, <2>2, <2>3 DEF TypeOK
<1>2. Lifecycle'
  BY DEF Lifecycle, TypeOK
<1>3. RetryBudget'
  BY DEF RetryBudget, Lifecycle, TypeOK
<1>4. KeysBelowSize'
  BY DEF KeysBelowSize, NoExpiry, TypeOK
<1>5. HonestLink'
  BY Messages DEF HonestLink, Command, TypeOK
<1>6. AnswerFromItsDrone'
  BY DEF AnswerFromItsDrone, Command
<1>7. QED BY <1>1, <1>2, <1>3, <1>4, <1>5, <1>6

(* A new entry is honest by itself; it may displace one other, but only where a
   deletion has made an old key again. *)
LEMMA Tracks ==
  ASSUME IInv, NEW c \in Call, TrackCommand(c)
  PROVE  IInv'
<1> USE DEF IInv, TrackCommand, linkVars
<1>1. TypeOK'
  <2>1. live' \subseteq Call
    BY DEF TypeOK, Clash
  <2>2. seq' \in [Call -> Nat]
    BY LiveFinite DEF TypeOK
  <2>3. place' \in [Call -> Nat] /\ inserted' \in Nat
    BY DEF TypeOK, Clash
  <2>4. /\ status' \in [Call -> Status] /\ phase' \in [Call -> Phase]
        /\ retries' \in [Call -> 0 .. MaxRetries]
        /\ age' \in [Call -> 0 .. CmdTimeout + 1]
    BY RetriesAssumption, TimeoutAssumption DEF TypeOK, Status, Phase
  <2>5. QED BY <2>1, <2>2, <2>3, <2>4 DEF TypeOK
<1>2. Lifecycle'
  BY DEF Lifecycle, TypeOK, Clash
<1>3. RetryBudget'
  BY DEF RetryBudget, Lifecycle, TypeOK
<1>4. KeysBelowSize'
  <2>1. SUFFICES ASSUME NoExpiry', NEW d \in Call, phase'[d] = "tracked"
                 PROVE  d \in live' /\ seq'[d] < Cardinality(live')
    BY DEF KeysBelowSize
  <2>2. NoExpiry
    BY <2>1 DEF NoExpiry, Lifecycle, TypeOK
  <2>3. \A e \in live : seq[e] < Cardinality(live)
    BY <2>2 DEF KeysBelowSize, Lifecycle, TypeOK
  <2>4. Clash(c) = {}
    BY <2>3, LiveFinite DEF Clash, TypeOK
  <2>5. live' = live \union {c} /\ c \notin live
    BY <2>4 DEF Lifecycle
  <2>6. Cardinality(live') = Cardinality(live) + 1
    BY <2>5, LiveGrows
  <2>7. CASE d = c
    BY <2>5, <2>6, <2>7, LiveFinite DEF TypeOK
  <2>8. CASE d # c
    BY <2>1, <2>2, <2>5, <2>6, <2>8, LiveFinite DEF KeysBelowSize, TypeOK
  <2>9. QED BY <2>7, <2>8
<1>5. HonestLink'
  BY DEF HonestLink, Command
<1>6. AnswerFromItsDrone'
  BY DEF AnswerFromItsDrone, Command, TypeOK, Clash
<1>7. QED BY <1>1, <1>2, <1>3, <1>4, <1>5, <1>6

LEMMA Acknowledges ==
  ASSUME IInv, NEW a \in acks, HandleCommandAck(a)
  PROVE  IInv'
<1> USE DEF IInv, HandleCommandAck
<1>1. TypeOK'
  BY DEF TypeOK, Status
<1>2. Lifecycle'
  BY DEF Lifecycle, TypeOK, Matches
<1>3. RetryBudget'
  BY DEF RetryBudget, TypeOK, Matches
<1>4. KeysBelowSize'
  <2>1. NoExpiry' => NoExpiry
    BY DEF NoExpiry, RetryBudget, TypeOK, Matches
  <2>2. QED BY <2>1 DEF KeysBelowSize
<1>5. HonestLink'
  BY DEF HonestLink, Command
<1>6. AnswerFromItsDrone'
  <2>1. CASE UNCHANGED status
    BY <2>1 DEF AnswerFromItsDrone, Command
  <2>2. ASSUME NEW c \in Matches(a),
               status' = [status EXCEPT ![c] = IF a.ok THEN "acked" ELSE "failed"]
        PROVE  AnswerFromItsDrone'
    <3>1. c \in live /\ a.call \in Call /\ a.ok \in BOOLEAN
      BY DEF Matches, TypeOK, Ack
    <3>2. Command(c) \notin Aside
      BY <3>1, CommandRange, RequestsAssumption DEF TypeOK, Command, Request, Aside
    <3>3. /\ request[a.call].drone = request[c].drone
          /\ Command(a.call) = Command(c)
          /\ a.ok \in answers[a.call]
      BY <3>2 DEF Matches, HonestLink
    <3>4. (status'[c] = "acked") = a.ok
      BY <2>2, <3>1 DEF TypeOK
    <3>5. \A d \in live' : d # c => status'[d] = status[d]
      BY <2>2 DEF TypeOK
    <3>6. QED BY <3>1, <3>3, <3>4, <3>5 DEF AnswerFromItsDrone, Command
  <2>3. QED BY <2>1, <2>2
<1>7. QED BY <1>1, <1>2, <1>3, <1>4, <1>5, <1>6

LEMMA Scans ==
  ASSUME IInv, CheckTimeouts
  PROVE  IInv'
<1> USE DEF IInv, CheckTimeouts, linkVars
<1>1. TypeOK'
  <2>1. retries' \in [Call -> 0 .. MaxRetries]
    BY RetriesAssumption DEF TypeOK, Retriable
  <2>2. age' \in [Call -> 0 .. CmdTimeout + 1]
    BY TimeoutAssumption DEF TypeOK
  <2>3. status' \in [Call -> Status]
    BY DEF TypeOK, Status
  <2>4. live' \subseteq Call /\ resend' \subseteq Call
    BY DEF TypeOK, Retriable, Due
  <2>5. QED BY <2>1, <2>2, <2>3, <2>4 DEF TypeOK
<1>2. Lifecycle'
  BY DEF Lifecycle, TypeOK, Retriable, Due
<1>3. RetryBudget'
  BY RetriesAssumption DEF RetryBudget, Lifecycle, TypeOK, Retriable, Due
<1>4. KeysBelowSize'
  <2>1. SUFFICES ASSUME NoExpiry' PROVE KeysBelowSize'
    BY DEF KeysBelowSize
  <2>2. Due \ Retriable = {}
    BY <2>1 DEF NoExpiry, TypeOK, Retriable, Due
  <2>3. NoExpiry
    BY <2>1, <2>2 DEF NoExpiry, TypeOK
  <2>4. live' = live
    BY <2>2
  <2>5. QED BY <2>3, <2>4 DEF KeysBelowSize
<1>5. HonestLink'
  BY DEF HonestLink, Command
<1>6. AnswerFromItsDrone'
  BY DEF AnswerFromItsDrone, Command, TypeOK
<1>7. QED BY <1>1, <1>2, <1>3, <1>4, <1>5, <1>6

LEMMA Resends ==
  ASSUME IInv, NEW c \in Call, ResendCommand(c)
  PROVE  IInv'
<1> USE DEF IInv, ResendCommand, tableVars
<1>1. sent[c] = retries[c] /\ phase[c] = "tracked"
  BY DEF Lifecycle, RetryBudget, TypeOK
<1>2. TypeOK'
  <2>1. sent' \in [Call -> 0 .. MaxRetries + 1]
    BY <1>1, RetriesAssumption DEF TypeOK
  <2>2. uplink' \subseteq Message
    BY Messages DEF TypeOK
  <2>3. QED BY <2>1, <2>2 DEF TypeOK
<1>3. Lifecycle'
  BY <1>1 DEF Lifecycle, TypeOK
<1>4. RetryBudget'
  <2>1. status[c] # "timeout"
    BY <1>1, RetriesAssumption DEF RetryBudget, TypeOK
  <2>2. QED BY <1>1, <2>1, RetriesAssumption DEF RetryBudget, TypeOK
<1>5. KeysBelowSize'
  BY DEF KeysBelowSize, NoExpiry
<1>6. HonestLink'
  BY Messages DEF HonestLink, Command
<1>7. AnswerFromItsDrone'
  BY DEF AnswerFromItsDrone, Command
<1>8. QED BY <1>2, <1>3, <1>4, <1>5, <1>6, <1>7

LEMMA Executes ==
  ASSUME IInv, NEW m \in uplink, DroneExecutes(m)
  PROVE  IInv'
<1> USE DEF IInv, DroneExecutes, tableVars
<1>1. m.call \in Call
  BY DEF TypeOK, Message
<1>2. /\ answers' \in [Call -> SUBSET BOOLEAN]
      /\ \A c \in Call : answers[c] \subseteq answers'[c]
  BY <1>1, ResultAssumption DEF TypeOK
<1>3. TypeOK'
  <2>1. acks' \subseteq Ack
    BY <1>1, ResultAssumption DEF TypeOK, Ack, Message
  <2>2. QED BY <1>2, <2>1 DEF TypeOK
<1>4. Lifecycle' /\ RetryBudget'
  BY DEF Lifecycle, RetryBudget
<1>5. KeysBelowSize'
  BY DEF KeysBelowSize, NoExpiry
<1>6. HonestLink'
  <2>1. ASSUME NEW n \in uplink'
        PROVE  n.cmd \in Aside \union {"PARAM_SET", Command(n.call)}
    BY <2>1 DEF HonestLink
  <2>2. ASSUME NEW a \in acks'
        PROVE  a.cmd \in Aside \/ (a.cmd = Command(a.call) /\ a.ok \in answers'[a.call])
    <3>1. CASE a \in acks
      BY <1>2, <3>1 DEF HonestLink, TypeOK, Ack
    <3>2. CASE a \notin acks
      <4>1. PICK ok \in Result :
              /\ m.cmd # "PARAM_SET"
              /\ a = [call |-> m.call, cmd |-> m.cmd, attempt |-> m.attempt, ok |-> ok]
              /\ answers' = IF m.cmd = Command(m.call)
                            THEN [answers EXCEPT ![m.call] = @ \union {ok}]
                            ELSE answers
        BY <2>2, <3>2
      <4>2. m.cmd \in Aside \/ m.cmd = Command(m.call)
        BY <4>1 DEF HonestLink
      <4>3. QED BY <1>1, <4>1, <4>2 DEF TypeOK
    <3>3. QED BY <3>1, <3>2
  <2>3. QED BY <2>1, <2>2 DEF HonestLink, Command
<1>7. AnswerFromItsDrone'
  BY <1>2 DEF AnswerFromItsDrone, Command
<1>8. QED BY <1>3, <1>4, <1>5, <1>6, <1>7

LEMMA Ticks ==
  ASSUME IInv, Tick
  PROVE  IInv'
<1> USE DEF IInv, Tick, linkVars
<1>1. TypeOK'
  BY TimeoutAssumption DEF TypeOK, Waiting
<1>2. Lifecycle' /\ RetryBudget' /\ KeysBelowSize'
  BY DEF Lifecycle, RetryBudget, KeysBelowSize, NoExpiry
<1>3. HonestLink' /\ AnswerFromItsDrone'
  BY DEF HonestLink, AnswerFromItsDrone, Command
<1>4. QED BY <1>1, <1>2, <1>3

(* A step that changes nothing the invariant speaks of but whether the
   connection is open. *)
LEMMA Disconnects ==
  ASSUME IInv, open' \in BOOLEAN,
         UNCHANGED <<request, phase, sent, tableVars, resend, linkVars>>
  PROVE  IInv'
<1> USE DEF IInv, tableVars, linkVars
<1>1. TypeOK'
  BY DEF TypeOK
<1>2. Lifecycle' /\ RetryBudget' /\ KeysBelowSize'
  BY DEF Lifecycle, RetryBudget, KeysBelowSize, NoExpiry
<1>3. HonestLink' /\ AnswerFromItsDrone'
  BY DEF HonestLink, AnswerFromItsDrone, Command
<1>4. QED BY <1>1, <1>2, <1>3

-----------------------------------------------------------------------------

LEMMA Initially == Init => IInv
<1> SUFFICES ASSUME Init PROVE IInv
  OBVIOUS
<1> USE DEF Init, IInv
<1>1. TypeOK
  BY RetriesAssumption, TimeoutAssumption DEF TypeOK, Phase, Status
<1>2. Lifecycle /\ RetryBudget /\ KeysBelowSize
  BY DEF Lifecycle, RetryBudget, KeysBelowSize
<1>3. HonestLink /\ AnswerFromItsDrone
  BY DEF HonestLink, AnswerFromItsDrone
<1>4. QED BY <1>1, <1>2, <1>3

LEMMA Inductive == IInv /\ [Next]_vars => IInv'
<1> SUFFICES ASSUME IInv, [Next]_vars PROVE IInv'
  OBVIOUS
<1>1. ASSUME NEW c \in Call, Arm(c) \/ ForceDelayedArm(c) \/ TimerSendRaises(c)
      PROVE  IInv'
  <2>1. /\ phase[c] \notin {"sent", "tracked"}
        /\ \E p \in Phase \ {"sent", "tracked"} : phase' = [phase EXCEPT ![c] = p]
        /\ UNCHANGED <<request, sent, tableVars, resend, linkVars, open>>
    BY <1>1 DEF Arm, ForceDelayedArm, TimerSendRaises, Calls, Phase
  <2>2. uplink' = uplink \union {}
    BY <2>1 DEF linkVars
  <2>3. QED BY <2>1, <2>2, MovesOn DEF linkVars
<1>2. ASSUME NEW c \in Call,
             IndoorArm(c) \/ ForceArm(c) \/ RestoreArmParams(c) \/ Step2SetMode(c)
      PROVE  IInv'
  <2>1. /\ phase[c] \notin {"sent", "tracked"}
        /\ \E p \in Phase \ {"sent", "tracked"} : phase' = [phase EXCEPT ![c] = p]
        /\ \E cmd \in Aside \union {"PARAM_SET"} : uplink' = uplink \union {Extra(c, cmd)}
        /\ UNCHANGED <<request, sent, tableVars, resend, acks, answers, open>>
    BY <1>2 DEF IndoorArm, ForceArm, RestoreArmParams, Step2SetMode, Calls, Phase, Aside
  <2>2. PICK cmd \in Aside \union {"PARAM_SET"} : uplink' = uplink \union {Extra(c, cmd)}
    BY <2>1
  <2>3. {Extra(c, cmd)} \in SUBSET {Extra(c, k) : k \in Aside \union {"PARAM_SET"}}
    OBVIOUS
  <2>4. QED BY <2>1, <2>2, <2>3, MovesOn
<1>3. ASSUME NEW c \in Call, CallRaises(c)
       PROVE  IInv'
  <2>1. /\ phase[c] \notin {"sent", "tracked"}
        /\ "raised" \in Phase \ {"sent", "tracked"}
        /\ phase' = [phase EXCEPT ![c] = "raised"]
        /\ UNCHANGED <<request, sent, tableVars, resend, acks, answers, open>>
    BY <1>3 DEF CallRaises, Calls, Phase
  <2>2. PICK gone \in SUBSET Ahead(c) : uplink' = uplink \union gone
    BY <1>3 DEF CallRaises
  <2>3. gone \in SUBSET {Extra(c, k) : k \in Aside \union {"PARAM_SET"}}
    BY DEF Ahead, Aside
  <2>4. QED BY <2>1, <2>2, <2>3, MovesOn
<1>4. ASSUME NEW c \in Call, Disarm(c) \/ Takeoff(c) \/ Land(c) \/ DelayedArm(c)
      PROVE  IInv'
  <2>1. /\ phase[c] \notin {"sent", "tracked"}
        /\ Transmit(c, {}) \/ Transmit(c, {Extra(c, "CHANGE_SPEED")})
        /\ UNCHANGED <<request, tableVars, resend, acks, answers, open>>
    BY <1>4 DEF Disarm, Takeoff, Land, DelayedArm, Calls
  <2>2. /\ {} \in SUBSET {Extra(c, k) : k \in Aside \union {"PARAM_SET"}}
        /\ {Extra(c, "CHANGE_SPEED")} \in SUBSET {Extra(c, k) : k \in Aside \union {"PARAM_SET"}}
    BY DEF Aside
  <2>3. QED BY <2>1, <2>2, Transmits
<1>5. ASSUME NEW c \in Call, TrackCommand(c) PROVE IInv'
  BY <1>5, Tracks
<1>6. ASSUME NEW c \in Call, ResendCommand(c) PROVE IInv'
  BY <1>6, Resends
<1>7. ASSUME NEW a \in acks, HandleCommandAck(a) PROVE IInv'
  BY <1>7, Acknowledges
<1>8. ASSUME NEW m \in uplink, DroneExecutes(m) PROVE IInv'
  BY <1>8, Executes
<1>9. CASE CheckTimeouts
  BY <1>9, Scans
<1>10. CASE Tick
  BY <1>10, Ticks
<1>11. CASE Disconnect
  BY <1>11, Disconnects DEF Disconnect
<1>12. CASE UNCHANGED vars
  <2>1. open' \in BOOLEAN
    BY <1>12 DEF vars, IInv, TypeOK
  <2>2. QED BY <1>12, <2>1, Disconnects DEF vars
<1>13. QED
  BY <1>1, <1>2, <1>3, <1>4, <1>5, <1>6, <1>7, <1>8, <1>9, <1>10, <1>11, <1>12
  DEF Next, TimerRuns

(* IInv holds in every state the dispatcher, the link and the drones reach. *)
THEOREM Invariance == Spec => []IInv
<1>1. QED BY Initially, Inductive, PTL DEF Spec

(* Every variable keeps its type; a command is transmitted at most
   MaxRetries + 1 times. *)
THEOREM TypeCorrect == Spec => []TypeOK
<1>1. IInv => TypeOK
  BY DEF IInv
<1>2. QED BY <1>1, Invariance, PTL

(* Every transmission of a tracked command is accounted for by its retry count,
   and a command is given up only after the last of them. *)
THEOREM RetryBudgetKept == Spec => []RetryBudget
<1>1. IInv => RetryBudget
  BY DEF IInv
<1>2. QED BY <1>1, Invariance, PTL

(* An answer of one drone never settles a command of another, nor one of
   another command id. *)
THEOREM AnswersDoNotCross == Spec => []AnswerFromItsDrone
<1>1. IInv => AnswerFromItsDrone
  BY DEF IInv
<1>2. QED BY <1>1, Invariance, PTL

(* The collision of keys that loses an entry needs an earlier expiry. *)
THEOREM NoLossBeforeExpiry == Spec => []LossNeedsExpiry
<1>1. IInv => LossNeedsExpiry
  BY DEF IInv, KeysBelowSize, NoExpiry, LossNeedsExpiry
<1>2. QED BY <1>1, Invariance, PTL

(* After its fate is known nothing new is decided for a command. *)
THEOREM NothingNewOnceSettledKept == Spec => NothingNewOnceSettled
<1>1. IInv /\ [Next]_vars =>
        [\A c \in Call : status[c] \in Settled =>
           /\ status'[c] \in Settled
           /\ status[c] = "timeout" => status'[c] = "timeout"
           /\ c \in resend' => c \in resend
           /\ sent'[c] = sent[c] + (IF c \in resend \ resend' THEN 1 ELSE 0)]_vars
  <2>1. SUFFICES ASSUME IInv, Next, NEW c \in Call, status[c] \in Settled
                 PROVE  /\ status'[c] \in Settled
                        /\ status[c] = "timeout" => status'[c] = "timeout"
                        /\ c \in resend' => c \in resend
                        /\ sent'[c] = sent[c] + (IF c \in resend \ resend' THEN 1 ELSE 0)
    OBVIOUS
  <2>2. phase[c] = "tracked" /\ status[c] # "pending" /\ sent[c] \in Nat
    BY <2>1, RetriesAssumption DEF IInv, Lifecycle, Settled, TypeOK
  <2>3. CASE UNCHANGED <<status, resend, sent>>
    BY <2>1, <2>2, <2>3
  <2>4. ASSUME NEW d \in Call, Transmit(d, {}) \/ Transmit(d, {Extra(d, "CHANGE_SPEED")}),
               phase[d] # "tracked", UNCHANGED <<status, resend>>
        PROVE  c \notin resend \ resend' /\ status'[c] = status[c] /\ sent'[c] = sent[c]
    BY <2>1, <2>2, <2>4 DEF Transmit, IInv, TypeOK
  <2>5. CASE \E d \in Call : Disarm(d) \/ Takeoff(d) \/ Land(d) \/ DelayedArm(d)
    <3>1. PICK d \in Call : Disarm(d) \/ Takeoff(d) \/ Land(d) \/ DelayedArm(d)
      BY <2>5
    <3>2. /\ Transmit(d, {}) \/ Transmit(d, {Extra(d, "CHANGE_SPEED")})
          /\ phase[d] # "tracked"
          /\ UNCHANGED <<status, resend>>
      BY <3>1 DEF Disarm, Takeoff, Land, DelayedArm, Calls, tableVars
    <3>3. QED BY <2>1, <2>2, <2>4, <3>2
  <2>6. CASE \E d \in Call : TrackCommand(d)
    BY <2>1, <2>2, <2>6 DEF TrackCommand, IInv, TypeOK
  <2>7. CASE \E d \in Call : ResendCommand(d)
    BY <2>1, <2>2, <2>7 DEF ResendCommand, tableVars, IInv, TypeOK
  <2>8. CASE \E a \in acks : HandleCommandAck(a)
    <3>1. PICK a \in acks : HandleCommandAck(a)
      BY <2>8
    <3>2. UNCHANGED <<resend, sent>>
      BY <3>1 DEF HandleCommandAck
    <3>3. \A d \in Matches(a) : status[d] # "timeout"
      BY <2>1 DEF Matches, IInv, RetryBudget, TypeOK
    <3>4. status'[c] = status[c] \/ (c \in Matches(a) /\ status'[c] \in {"acked", "failed"})
      BY <2>1, <3>1 DEF HandleCommandAck, Matches, IInv, TypeOK
    <3>5. QED BY <2>1, <2>2, <3>2, <3>3, <3>4 DEF Settled
  <2>9. CASE CheckTimeouts
    BY <2>1, <2>2, <2>9 DEF CheckTimeouts, Retriable, Due, IInv, TypeOK
  <2>10. CASE \E d \in Call : \/ Arm(d) \/ IndoorArm(d) \/ ForceArm(d)
                              \/ RestoreArmParams(d) \/ ForceDelayedArm(d)
                              \/ Step2SetMode(d) \/ TimerSendRaises(d)
                              \/ CallRaises(d)
    BY <2>3, <2>10 DEF Arm, IndoorArm, ForceArm, RestoreArmParams, ForceDelayedArm,
                       Step2SetMode, TimerSendRaises, CallRaises, tableVars
  <2>11. CASE (\E m \in uplink : DroneExecutes(m)) \/ Tick \/ Disconnect
    BY <2>3, <2>11 DEF DroneExecutes, Tick, Disconnect, tableVars
  <2>12. QED
    BY <2>1, <2>5, <2>6, <2>7, <2>8, <2>9, <2>10, <2>11
    DEF Next, TimerRuns
<1>2. QED BY <1>1, Invariance, PTL DEF Spec, NothingNewOnceSettled

-----------------------------------------------------------------------------
(* The refinement, one lemma for each kind of step that BoundedDelivery sees. *)

LEMMA DeliveryBegins ==
  ASSUME IInv, NEW c \in Call, NEW extra, Transmit(c, extra),
         phase[c] \notin {"sent", "tracked"},
         UNCHANGED <<live, status, resend>>
  PROVE  Delivery!Begin(c)
<1> USE DEF IInv, Transmit, TypeOK, Lifecycle, Outcome, Decided
<1>1. Outcome[c] = "none" /\ sent[c] = 0
  OBVIOUS
<1>2. Decided' = [Decided EXCEPT ![c] = 1]
  <2>1. c \notin resend
    OBVIOUS
  <2>2. \A d \in Call : Decided'[d] = IF d = c THEN 1 ELSE Decided[d]
    BY <2>1, RetriesAssumption
  <2>3. QED BY <2>2
<1>3. Outcome' = Outcome
  OBVIOUS
<1>4. QED BY <1>1, <1>2, <1>3 DEF Delivery!Begin

(* The waiting commands that the entry of call c displaces. *)
Displaced(c) == {d \in Clash(c) : status[d] = "pending"}

LEMMA DeliveryAwaits ==
  ASSUME IInv, NEW c \in Call, TrackCommand(c)
  PROVE  Displaced(c) \in SUBSET Call /\ Delivery!Await(c, Displaced(c))
<1> USE DEF IInv, TrackCommand, TypeOK, Lifecycle, Outcome, Decided
<1>1. Outcome[c] = "none" /\ sent[c] = 1
  OBVIOUS
<1>2. /\ Displaced(c) \in SUBSET Call
      /\ \A d \in Displaced(c) : Outcome[d] = "waiting"
  BY DEF Displaced, Clash, Settled
<1>3. Outcome' = [d \in Call |-> IF d = c THEN "waiting"
                                ELSE IF d \in Displaced(c) THEN "displaced"
                                ELSE Outcome[d]]
  <2>1. \A d \in Call : Outcome'[d] = IF d = c THEN "waiting"
                                       ELSE IF d \in Displaced(c) THEN "displaced"
                                       ELSE Outcome[d]
    BY RetriesAssumption DEF Displaced, Clash, Status, RetryBudget
  <2>2. QED BY <2>1
<1>4. UNCHANGED <<Decided, sent>>
  OBVIOUS
<1>5. QED
  BY <1>1, <1>2, <1>3, <1>4 DEF Delivery!Await

LEMMA DeliveryReviews ==
  ASSUME IInv, CheckTimeouts
  PROVE  Delivery!Review(Retriable, Due \ Retriable)
<1> USE DEF IInv, CheckTimeouts, TypeOK, Lifecycle, RetryBudget
<1>1. \A c \in Due : phase[c] = "tracked" /\ Outcome[c] = "waiting" /\ Decided[c] = sent[c]
  BY RetriesAssumption DEF Due, Outcome, Decided
<1>2. \A c \in Retriable : c \in Due /\ sent[c] < MaxRetries + 1
  BY <1>1, RetriesAssumption DEF Retriable, Due
<1>3. \A c \in Due \ Retriable : sent[c] = MaxRetries + 1
  BY <1>1, RetriesAssumption DEF Retriable, Due
<1>4. Decided' = [c \in Call |-> IF c \in Retriable THEN Decided[c] + 1 ELSE Decided[c]]
  BY RetriesAssumption DEF Decided
<1>5. Outcome' = [c \in Call |-> IF c \in Due \ Retriable THEN "expired" ELSE Outcome[c]]
  <2>1. \A c \in Call : Outcome'[c] = IF c \in Due \ Retriable THEN "expired" ELSE Outcome[c]
    BY <1>1 DEF Outcome
  <2>2. QED BY <2>1 DEF Outcome
<1>6. UNCHANGED sent
  OBVIOUS
<1>7. QED BY <1>1, <1>2, <1>3, <1>4, <1>5, <1>6 DEF Delivery!Review

LEMMA DeliveryAnswers ==
  ASSUME IInv, NEW a \in acks, HandleCommandAck(a)
  PROVE  (\E c \in Call : Delivery!Answer(c)) \/ UNCHANGED Delivery!vars
<1> USE DEF IInv, HandleCommandAck, TypeOK, Lifecycle, Outcome, Decided
<1>1. UNCHANGED <<Decided, sent>>
  OBVIOUS
<1>2. CASE UNCHANGED status
  BY <1>1, <1>2 DEF Delivery!vars
<1>3. ASSUME NEW c \in Matches(a),
             status' = [status EXCEPT ![c] = IF a.ok THEN "acked" ELSE "failed"]
      PROVE  (\E d \in Call : Delivery!Answer(d)) \/ UNCHANGED Delivery!vars
  <2>1. c \in live /\ c \in Call /\ phase[c] = "tracked" /\ status[c] # "timeout"
    BY DEF Matches, RetryBudget
  <2>2. status'[c] \in {"acked", "failed"}
    BY <1>3, <2>1
  <2>3. \A d \in Call : Outcome'[d] = IF d = c THEN "answered" ELSE Outcome[d]
    BY <1>3, <2>1, <2>2
  <2>4. CASE status[c] = "pending"
    <3>1. Outcome[c] = "waiting"
      BY <2>1, <2>4
    <3>2. Outcome' = [Outcome EXCEPT ![c] = "answered"]
      BY <2>3, <2>1
    <3>3. QED BY <1>1, <2>1, <3>1, <3>2 DEF Delivery!Answer
  <2>5. CASE status[c] # "pending"
    <3>1. Outcome[c] = "answered"
      BY <2>1, <2>5 DEF Status
    <3>2. Outcome' = Outcome
      BY <2>3, <3>1
    <3>3. QED BY <1>1, <3>2 DEF Delivery!vars
  <2>6. QED BY <2>4, <2>5
<1>4. QED BY <1>2, <1>3

LEMMA DeliveryTransmits ==
  ASSUME IInv, NEW c \in Call, ResendCommand(c)
  PROVE  Delivery!Transmit(c)
<1> USE DEF IInv, ResendCommand, TypeOK, Outcome, Decided, tableVars
<1>1. sent[c] < Decided[c]
  BY RetriesAssumption
<1>2. Decided' = Decided
  BY RetriesAssumption
<1>3. Outcome' = Outcome
  OBVIOUS
<1>4. QED BY <1>1, <1>2, <1>3 DEF Delivery!Transmit

(* The dispatcher implements BoundedDelivery: whatever the threads, the link and
   the drones do, each command goes out at most MaxRetries + 1 times, is given up
   only then, and has at most one transmission after its fate is known. *)
THEOREM DispatcherImplementsBoundedDelivery == Spec => ImplementsBoundedDelivery
<1>1. Init => Delivery!Init
  BY DEF Init, Delivery!Init, Outcome, Decided
<1>2. IInv /\ [Next]_vars => [Delivery!Next]_(Delivery!vars)
  <2> SUFFICES ASSUME IInv, [Next]_vars PROVE [Delivery!Next]_(Delivery!vars)
    OBVIOUS
  <2>1. ASSUME NEW c \in Call, Disarm(c) \/ Takeoff(c) \/ Land(c) \/ DelayedArm(c)
        PROVE  Delivery!Next
    <3>1. /\ Transmit(c, {}) \/ Transmit(c, {Extra(c, "CHANGE_SPEED")})
          /\ phase[c] \notin {"sent", "tracked"}
          /\ UNCHANGED <<live, status, resend>>
      BY <2>1 DEF Disarm, Takeoff, Land, DelayedArm, Calls, tableVars
    <3>2. Delivery!Begin(c)
      BY <3>1, DeliveryBegins
    <3>3. QED BY <3>2 DEF Delivery!Next
  <2>2. ASSUME NEW c \in Call, TrackCommand(c) PROVE Delivery!Next
    <3>1. Displaced(c) \in SUBSET Call /\ Delivery!Await(c, Displaced(c))
      BY <2>2, DeliveryAwaits
    <3>2. QED BY <3>1 DEF Delivery!Next
  <2>3. ASSUME NEW c \in Call, ResendCommand(c) PROVE Delivery!Next
    BY <2>3, DeliveryTransmits DEF Delivery!Next
  <2>4. ASSUME NEW a \in acks, HandleCommandAck(a)
        PROVE  Delivery!Next \/ UNCHANGED Delivery!vars
    BY <2>4, DeliveryAnswers DEF Delivery!Next
  <2>5. CASE CheckTimeouts
    <3>1. Retriable \in SUBSET Call /\ Due \ Retriable \in SUBSET Call
      BY DEF Retriable, Due, IInv, TypeOK
    <3>2. QED BY <2>5, <3>1, DeliveryReviews DEF Delivery!Next
  <2>6. ASSUME NEW c \in Call, NEW p \in Phase \ {"tracked"},
               phase' = [phase EXCEPT ![c] = p], phase[c] # "tracked",
               UNCHANGED <<sent, live, status, resend>>
        PROVE  UNCHANGED Delivery!vars
    BY <2>6 DEF Delivery!vars, Outcome, Decided, IInv, TypeOK
  <2>7. ASSUME NEW c \in Call,
               \/ Arm(c) \/ IndoorArm(c) \/ ForceArm(c) \/ RestoreArmParams(c)
               \/ ForceDelayedArm(c) \/ Step2SetMode(c) \/ TimerSendRaises(c)
               \/ CallRaises(c)
        PROVE  UNCHANGED Delivery!vars
    <3>1. /\ \E p \in Phase \ {"tracked"} : phase' = [phase EXCEPT ![c] = p]
          /\ phase[c] # "tracked"
          /\ UNCHANGED <<sent, live, status, resend>>
      BY <2>7 DEF Arm, IndoorArm, ForceArm, RestoreArmParams, ForceDelayedArm,
                  Step2SetMode, TimerSendRaises, CallRaises, Calls, Phase, tableVars
    <3>2. QED BY <2>6, <3>1
  <2>8. CASE \/ \E m \in uplink : DroneExecutes(m)
             \/ Tick \/ Disconnect \/ UNCHANGED vars
    BY <2>8 DEF DroneExecutes, Tick, Disconnect, vars, tableVars, Delivery!vars,
                Outcome, Decided
  <2>9. QED
    BY <2>1, <2>2, <2>3, <2>4, <2>5, <2>7, <2>8 DEF Next, TimerRuns
<1>3. QED
  BY <1>1, <1>2, Invariance, PTL DEF Spec, ImplementsBoundedDelivery, Delivery!Spec
=============================================================================
