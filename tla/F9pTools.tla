------------------------------ MODULE F9pTools -------------------------------
(****************************************************************************)
(* The programs that configure and check a u-blox F9P over its serial port: *)
(* rtk_tools/f9p_config_all.py, f9p_configurator.py, f9p_rover_config.py,   *)
(* f9p_verify_config.py, f9p_config_monitor.py, f9p_fix_monitor.py, the     *)
(* positioner of scripts/ichimill_positioning.py, and what                  *)
(* rtk_base_station_v2.py does before it starts.  They write with           *)
(* CFG-VALSET, on whose ACK or NAK nothing depends, and verify by polling   *)
(* with CFG-VALGET; an answer is known by its class and id only.  Here each *)
(* program is a script of such exchanges, run by one set of actions.        *)
(*                                                                          *)
(* First and Second stand for the two groups of items that the programs     *)
(* write one after the other; a group is a flag that should be set.         *)
(* CFG-UART2-BAUDRATE, which write_rover_uart2 sends by itself before the   *)
(* rest of its group, goes with it: its loss alone is not modelled.         *)
(****************************************************************************)
EXTENDS Naturals, Sequences

CONSTANTS
  First, Second,  \* the two groups of items
  MaxLine         \* bound: requests the receiver has yet to look at

ASSUME KeyAssumption == First # Second
ASSUME MaxLineAssumption == MaxLine \in Nat \ {0}

VARIABLES
  job,     \* the program, save_to_flash, and whether it resets the receiver
  step,    \* where it is in its script; "waiting" after a poll
  notes,   \* what it has found out so far
  result,  \* what it reports in the end
  base,    \* f9p_config_monitor: the baseline and the last report; and, for the
           \* properties only, what the receiver had at the baseline, and
           \* whether that check was calm
  line,    \* requests on their way to the receiver
  tty,     \* answers on their way back
  rover,   \* the receiver: the items set in RAM and in flash, booting
  fix,     \* it has RTK fixed now; it had since f9p_fix_monitor opened the port
  calm,    \* since the check began no answer was late, no call on the port
           \* failed, and the receiver did not restart by itself
  heeded   \* the receiver has carried out every request

toolVars == <<job, step, notes, result, base>>
vars == <<toolVars, line, tty, rover, fix, calm, heeded>>

Key == {First, Second}

(* f9p_config_all is "base" and "rover" in its mode write-verify, "write" in
   its mode write, and "full" in its mode full; f9p_verify_config is "verifybase"
   and "verifyrover"; f9p_fix_monitor is "fixonce" with --once and "fixwait"
   without. *)
Verifiers == {"verifybase", "verifyrover"}
Configurators == {"configurator", "station"}
FixMonitors == {"fixonce", "fixwait"}
Programs == Configurators \union FixMonitors \union
  {"base", "rover", "write", "full", "roverconfig", "verifybase", "verifyrover",
   "monitor", "ichimill"}

Do(what, k) == [do |-> what, key |-> k]
Sets == <<Do("set", First), Do("set", Second)>>
ResetIt == <<Do("reset", First)>>
Polls == <<Do("alive", First), Do("poll", First), Do("poll", Second)>>

(* What a program does, one exchange after the other. *)
SlipWriteAndVerify == Sets \o Polls \o ResetIt

WriteAndVerify == Sets \o ResetIt \o Polls
WriteOnly == Sets \o ResetIt
Full == WriteAndVerify \o <<Do("chain", First)>>
Configure == Sets \o Polls
ConfigureUart2 == <<Do("set", First), Do("poll", First)>>
Position == Sets \o <<Do("fix", First)>>
AwaitFixed == <<Do("await", First)>>

Script(p) ==
  CASE p \in {"base", "rover"} -> WriteAndVerify
    [] p = "write" -> WriteOnly
    [] p = "full" -> Full
    [] p \in Configurators -> Configure
    [] p \in FixMonitors -> AwaitFixed
    [] p = "roverconfig" -> ConfigureUart2
    [] p = "ichimill" -> Position
    [] p \in Verifiers \union {"monitor"} -> Polls

(* How often a poll is sent before the program goes on without an answer. *)
Tries(p, k) ==
  CASE p = "roverconfig" \/ (p \in Configurators /\ k = Second) -> 1
    [] p \in Verifiers \/ (p \in Configurators /\ k = First) -> 3
    [] OTHER -> 2

(* Two programs look items up by key ids that no answer holds: 0x40590001, ..4
   and ..5 for those of UART2, which f9p_config_all has as 0x4053000x, and
   0x40520005, the id of a four-byte item, for a flag. *)
Mistaken == {"verifyrover", "roverconfig"}

(* f9p_config_all takes the value from any CFG-VALGET answer.  The others know
   the answer to another poll from their own: they look their key up in it, or
   take the values by position and find too few. *)
Telling == Mistaken \union Configurators \union {"verifybase"}

(* What is known of an item; "unsupported" is f9p_config_all's ok for one that
   should be 0 and does not answer. *)
Status == {"unchecked", "ok", "unsupported", "warn", "fail"}

(* --no-flash and --no-reset, where the program knows them. *)
Jobs ==
  {j \in [program : Programs, flash : BOOLEAN, reset : BOOLEAN] :
     /\ j.program \in {"monitor", "ichimill"} \union Verifiers \union FixMonitors => ~j.flash
     /\ j.program = "full" => j.flash
     /\ j.program \notin {"base", "rover", "write", "full"} => ~j.reset}

TypeOK ==
  /\ job \in Jobs
  /\ step \in [at : 1 .. 8, waiting : BOOLEAN, tries : 0 .. 3]
  /\ notes \in [wrote : BOOLEAN, alive : BOOLEAN, status : [Key -> Status]]
  /\ result \in {"none", "ok", "failed", "raises"}
  /\ base \in [saved : BOOLEAN, keys : [Key -> Status],
                report : {"none", "same", "changed"}, had : SUBSET Key, sure : BOOLEAN]
  /\ rover \in [ram : SUBSET Key, stored : SUBSET Key, up : BOOLEAN]
  /\ fix \in [now : BOOLEAN, was : BOOLEAN]
  /\ calm \in BOOLEAN /\ heeded \in BOOLEAN
  /\ Len(line) <= MaxLine

Fresh == [wrote |-> TRUE, alive |-> FALSE, status |-> [k \in Key |-> "unchecked"]]
Start == [at |-> 1, waiting |-> FALSE, tries |-> 0]

Init ==
  /\ job \in Jobs
  /\ step = Start
  /\ notes = Fresh
  /\ result = "none"
  /\ base = [saved |-> FALSE, keys |-> [k \in Key |-> "unchecked"], report |-> "none",
             had |-> {}, sure |-> FALSE]
  /\ line = <<>> /\ tty = <<>>
  /\ fix = [now |-> FALSE, was |-> FALSE]
  /\ rover \in [ram : SUBSET Key, stored : SUBSET Key, up : {TRUE}]
  /\ calm = TRUE /\ heeded = TRUE

-----------------------------------------------------------------------------
(* The program. *)

Running == result = "none"
Now == Script(job.program)[step.at]
Ended == step.at > Len(Script(job.program))
At(what) == Running /\ ~Ended /\ Now.do = what
Advance == step' = [Start EXCEPT !.at = step.at + 1]

(* The port is opened for each stage of writing, and its input discarded. *)
Request(what) == [do |-> what, key |-> Now.key, flash |-> FALSE]
Send(request) ==
  /\ Len(line) < MaxLine
  /\ tty' = <<>>
  /\ line' = Append(line, request)

(* A base station whose first stage failed is not given the second. *)
StageSkipped ==
  /\ Now.key = Second
  /\ ~notes.wrote
  /\ job.program # "rover"

(* The definitions named Slip... are wrong on purpose: each is a definition of
   this module as a plausible slip would have left it, and the runs must find a
   property that tells it from the right one. *)
SlipWriteStage ==
  /\ At("set") /\ ~StageSkipped
  /\ Send([Request("set") EXCEPT !.flash = job.flash /\ Now.key = First])
  /\ Advance
  /\ UNCHANGED <<job, notes, result, base, rover, fix, calm, heeded>>

WriteStage ==
  /\ At("set") /\ ~StageSkipped
  /\ Send([Request("set") EXCEPT !.flash = job.flash])
  /\ Advance
  /\ UNCHANGED <<job, notes, result, base, rover, fix, calm, heeded>>

(* The write of a stage fails, or the stage is skipped because of that. *)
WriteFails ==
  /\ At("set") /\ job.program # "ichimill"
  /\ notes' = [notes EXCEPT !.wrote = FALSE]
  /\ tty' = <<>>
  /\ Advance
  /\ UNCHANGED <<job, result, base, line, rover, fix, calm, heeded>>

(* The positioner opens the port once, and a step that fails is its last. *)
PositionFails ==
  /\ job.program = "ichimill" /\ At("set")
  /\ result' = "failed"
  /\ UNCHANGED <<job, step, notes, base, line, tty, rover, fix, calm, heeded>>

WantsReset == notes.wrote /\ job.reset

(* _open_serial is called outside try: what it raises ends the program.  The
   monitor catches it and goes on with its next check, others give up. *)
Catches == {"ichimill", "station"} \union FixMonitors

Opens ==
  \/ Now.do \in {"set", "alive", "await"}
  \/ Now.do = "reset" /\ WantsReset
  \/ Now.do = "poll" /\ Tries(job.program, Now.key) = 1

OpenFails ==
  /\ Running /\ ~Ended /\ ~step.waiting
  /\ Opens
  /\ IF job.program = "monitor"
       THEN step' = Start /\ UNCHANGED result
       ELSE /\ result' = IF job.program \in Catches THEN "failed" ELSE "raises"
            /\ UNCHANGED step
  /\ calm' = FALSE
  /\ UNCHANGED <<job, notes, base, line, tty, rover, fix, heeded>>

(* Not sent when it is not wanted, or when its write fails. *)
Reset ==
  /\ At("reset")
  /\ job.program = "full" => notes.wrote
  /\ Advance
  /\ \/ WantsReset /\ Send(Request("reset"))
     \/ UNCHANGED <<line, tty>>
  /\ UNCHANGED <<job, notes, result, base, rover, fix, calm, heeded>>

(* MON-VER, to see whether the receiver answers at all. *)
AskVersion ==
  /\ At("alive") /\ ~step.waiting
  /\ Send(Request("version"))
  /\ step' = [step EXCEPT !.waiting = TRUE]
  /\ calm' = IF step.at = 1 THEN line = <<>> ELSE calm
  /\ UNCHANGED <<job, notes, result, base, rover, fix, heeded>>

(* CFG-VALGET, once more when no answer came. *)
Poll ==
  /\ At("poll") /\ ~step.waiting
  /\ Send(Request("poll"))
  /\ step' = [step EXCEPT !.waiting = TRUE, !.tries = @ + 1]
  /\ UNCHANGED <<job, notes, result, base, rover, fix, calm, heeded>>

(* _read_ubx_response: the first frame with the class and id asked for, among
   the places in the tty that hold one. *)
Kind == IF Now.do = "alive" THEN "version" ELSE "poll"
Matching == {i \in 1 .. Len(tty) : tty[i].kind = Kind}

SlipHearVersion ==
  /\ At("alive") /\ step.waiting /\ Matching # {}
  /\ tty' = <<>>
  /\ Advance
  /\ UNCHANGED <<job, notes, result, base, line, rover, fix, calm, heeded>>

HearVersion ==
  /\ At("alive") /\ step.waiting /\ Matching # {}
  /\ notes' = [notes EXCEPT !.alive = TRUE]
  /\ tty' = <<>>
  /\ Advance
  /\ UNCHANGED <<job, result, base, line, rover, fix, calm, heeded>>

Given(a) == IF a.set THEN "ok" ELSE "fail"

Finds(a) ==
  job.program \in Telling => job.program \notin Mistaken /\ a.key = Now.key

(* The configurators know only verified and not verified. *)
Unfound == IF job.program \in Verifiers THEN "warn" ELSE "fail"

Judged(a) == IF Finds(a) THEN Given(a) ELSE Unfound

Hear ==
  /\ At("poll") /\ step.waiting /\ Matching # {}
  /\ \E i \in Matching :
       /\ \A j \in Matching : i <= j
       /\ notes' = [notes EXCEPT !.status[Now.key] = Judged(tty[i])]
  /\ tty' = <<>>
  /\ Advance
  /\ UNCHANGED <<job, result, base, line, rover, fix, calm, heeded>>

Skip == step' = [Start EXCEPT !.at = Len(Script(job.program)) + 1]
Warned == [notes EXCEPT !.status = [k \in Key |-> "warn"]]

SlipNoVersion ==
  /\ At("alive") /\ step.waiting /\ Matching = {}
  /\ notes' = Warned
  /\ calm' = FALSE
  /\ UNCHANGED <<job, step, result, base, line, tty, rover, fix, heeded>>

(* The base station's configurator polls a receiver that did not answer all the
   same; f9p_config_all marks every key and stops, f9p_verify_config just stops. *)
NoVersion ==
  /\ At("alive") /\ step.waiting /\ Matching = {}
  /\ IF job.program \in Configurators
       THEN Advance /\ UNCHANGED notes
       ELSE Skip /\ notes' = IF job.program \in Verifiers THEN notes ELSE Warned
  /\ calm' = FALSE
  /\ UNCHANGED <<job, result, base, line, tty, rover, fix, heeded>>

SlipNoAnswer ==
  /\ At("poll") /\ step.waiting /\ Matching = {}
  /\ step' = [step EXCEPT !.waiting = FALSE]
  /\ calm' = FALSE
  /\ UNCHANGED <<job, notes, result, base, line, tty, rover, fix, heeded>>

(* Items that should be 0: many of a rover's, and one in a base station's TMODE3
   group; the monitor watches either. *)
Unanswered ==
  {"warn"} \union
    IF job.program \in {"rover", "monitor"} \/ (job.program \in {"base", "full"} /\ Now.key = First)
      THEN {"unsupported"} ELSE {}

NoAnswer ==
  /\ At("poll") /\ step.waiting /\ Matching = {}
  /\ IF step.tries < Tries(job.program, Now.key)
       THEN step' = [step EXCEPT !.waiting = FALSE] /\ UNCHANGED notes
       ELSE Advance /\ \E s \in Unanswered : notes' = [notes EXCEPT !.status[Now.key] = s]
  /\ calm' = FALSE
  /\ UNCHANGED <<job, result, base, line, tty, rover, fix, heeded>>

(* An error of the port while polling: the check is over, and not passed.  The
   configurator's two checks catch it each for itself. *)
PollRaises ==
  /\ At("poll")
  /\ notes' = [notes EXCEPT !.alive = FALSE]
  /\ IF job.program \in Configurators THEN Advance ELSE Skip
  /\ calm' = FALSE
  /\ UNCHANGED <<job, result, base, line, tty, rover, fix, heeded>>

-----------------------------------------------------------------------------
(* What comes after the verification. *)

(* The positioner waits for fixType 6, which is not among the types a receiver
   reports (its own table, lines 45-48): the wait ends at its deadline, and what
   would follow it, the samples and the fixed mode, is never reached. *)
WaitForFix ==
  /\ At("fix")
  /\ result' = "failed"
  /\ UNCHANGED <<job, step, notes, base, line, tty, rover, fix, calm, heeded>>

-----------------------------------------------------------------------------
(* f9p_fix_monitor. *)

SlipOpenPort ==
  /\ At("await") /\ ~step.waiting
  /\ step' = [step EXCEPT !.waiting = TRUE]
  /\ fix' = [fix EXCEPT !.was = fix.now]
  /\ UNCHANGED <<job, notes, result, base, line, tty, rover, calm, heeded>>

OpenPort ==
  /\ At("await") /\ ~step.waiting
  /\ step' = [step EXCEPT !.waiting = TRUE]
  /\ tty' = <<>>
  /\ fix' = [fix EXCEPT !.was = fix.now]
  /\ UNCHANGED <<job, notes, result, base, line, rover, calm, heeded>>

(* The next NAV-PVT in the tty, however old it is by now; --once takes the
   first for good. *)
HearFix ==
  /\ At("await") /\ step.waiting /\ tty # <<>>
  /\ notes' = [notes EXCEPT !.alive = TRUE]
  /\ tty' = Tail(tty)
  /\ result' = IF Head(tty).set THEN "ok"
               ELSE IF job.program = "fixonce" THEN "failed" ELSE "none"
  /\ UNCHANGED <<job, step, base, line, rover, fix, calm, heeded>>

(* It is passed over instead when the class and id of the parsed message, which
   are compared with integers, are bytes: that is up to the library. *)
IgnoreFix ==
  /\ At("await") /\ step.waiting /\ tty # <<>>
  /\ tty' = Tail(tty)
  /\ UNCHANGED <<toolVars, line, rover, fix, calm, heeded>>

(* Its time is over, and it is not held in a read: a read of a stream that has
   no UBX frame does not return.  With --once, main then comes to its end without
   a call of sys.exit: the exit status is that of success. *)
FixTimeout ==
  /\ At("await") /\ step.waiting
  /\ result' = IF job.program = "fixonce" THEN "ok" ELSE "failed"
  /\ UNCHANGED <<job, step, notes, base, line, tty, rover, fix, calm, heeded>>

-----------------------------------------------------------------------------
(* What it reports. *)

(* A key that did not answer is a warning, and a warning is as good as ok. *)
Verified == notes.alive /\ \A k \in Key : notes.status[k] # "fail"

AllOk == notes.wrote /\ notes.status[First] = "ok"

Passed ==
  CASE job.program \in {"base", "rover", "full"} -> notes.wrote /\ Verified
    [] job.program = "write" -> notes.wrote
    [] job.program \in Configurators -> AllOk
    [] job.program \in Verifiers -> Verified
    [] job.program = "roverconfig" -> FALSE

(* Mode full goes on to the rover, the base station, the forwarder and the wait
   for RTK fixed, programs of their own, once the base is verified.  It ends when
   the rover's write or check, the start of the base station or the wait fails,
   or on an ssh that does not return in time; not when RTCM types are missing or
   the forwarder is not started.  It may also wait for good for the next line of
   the base station's output. *)
Chain ==
  /\ At("chain") /\ Passed
  /\ \/ Advance /\ UNCHANGED result
     \/ result' \in {"failed", "raises"} /\ UNCHANGED step
  /\ UNCHANGED <<job, notes, base, line, tty, rover, fix, calm, heeded>>

GiveUp ==
  /\ job.program = "full"
  /\ \/ At("reset") /\ ~notes.wrote
     \/ At("chain") /\ ~Passed
  /\ result' = "failed"
  /\ UNCHANGED <<job, step, notes, base, line, tty, rover, fix, calm, heeded>>

(* verify_uart2_config returns its result only when there was no answer;
   otherwise it returns None, on which configure calls get. *)
Report ==
  /\ Running /\ Ended
  /\ job.program # "monitor"
  /\ result' = IF job.program = "roverconfig" /\ notes.status[First] # "warn"
                 THEN "raises" ELSE IF Passed THEN "ok" ELSE "failed"
  /\ UNCHANGED <<job, step, notes, base, line, tty, rover, fix, calm, heeded>>

SlipDiffers == \E k \in Key : notes.status[k] # base.keys[k]

(* A key that both checks lack, broken off before it, is not compared. *)
Absent(k) == notes.status[k] = "unchecked" /\ base.keys[k] = "unchecked"

Differs ==
  \E k \in Key :
    /\ ~Absent(k)
    /\ \/ notes.status[k] # base.keys[k]
       \/ notes.status[k] \notin {"ok", "unsupported"}

Baseline ==
  [saved |-> TRUE, keys |-> notes.status, report |-> "none",
   had |-> rover.ram, sure |-> calm]

(* The first check becomes the baseline, whatever it found; the next ones are
   compared with it. *)
Diff ==
  /\ Running /\ Ended
  /\ job.program = "monitor"
  /\ base' = IF base.saved
               THEN [base EXCEPT !.report = IF Differs THEN "changed" ELSE "same"]
               ELSE Baseline
  /\ step' = Start
  /\ notes' = Fresh
  /\ UNCHANGED <<job, result, line, tty, rover, fix, calm, heeded>>

(* Started anew with --reset-baseline, it replaces the baseline it finds. *)
ResetBaseline ==
  /\ Running /\ Ended
  /\ job.program = "monitor"
  /\ base.saved
  /\ base' = Baseline
  /\ step' = Start
  /\ notes' = Fresh
  /\ UNCHANGED <<job, result, line, tty, rover, fix, calm, heeded>>

-----------------------------------------------------------------------------
(* The receiver. *)

Carry(r) ==
  CASE r.do = "set" -> /\ rover' = [rover EXCEPT !.ram = @ \union {r.key},
                                      !.stored = IF r.flash THEN @ \union {r.key} ELSE @]
                       /\ line' = Tail(line)
                       /\ UNCHANGED tty
    [] r.do = "reset" -> /\ rover' = [rover EXCEPT !.ram = rover.stored, !.up = FALSE]
                         /\ line' = <<>>
                         /\ UNCHANGED tty
    [] r.do \in {"version", "poll"} ->
         /\ tty' = Append(tty, [kind |-> r.do, key |-> r.key, set |-> r.key \in rover.ram])
         /\ line' = Tail(line)
         /\ UNCHANGED rover

Receive ==
  /\ rover.up /\ line # <<>>
  /\ Carry(Head(line))
  /\ UNCHANGED <<toolVars, fix, calm, heeded>>

(* A request that is damaged, refused with a NAK, or sent to a receiver that is
   booting or has no room for it. *)
Lose ==
  /\ line # <<>>
  /\ line' = Tail(line)
  /\ heeded' = FALSE
  /\ UNCHANGED <<toolVars, tty, rover, fix, calm>>

Boot ==
  /\ ~rover.up
  /\ rover' = [rover EXCEPT !.up = TRUE]
  /\ UNCHANGED <<toolVars, line, tty, fix, calm, heeded>>

(* Its power fails for a moment. *)
PowerCycle ==
  /\ rover' = [rover EXCEPT !.ram = rover.stored, !.up = FALSE]
  /\ line' = <<>>
  /\ calm' = FALSE
  /\ UNCHANGED <<toolVars, tty, fix, heeded>>

(* NAV-PVT comes unasked; one that finds the tty full is lost. *)
Navigate ==
  /\ job.program \in FixMonitors /\ rover.up
  /\ Len(tty) < MaxLine
  /\ tty' = Append(tty, [kind |-> "fix", key |-> First, set |-> fix.now])
  /\ UNCHANGED <<toolVars, line, rover, fix, calm, heeded>>

FixChanges ==
  /\ job.program \in FixMonitors
  /\ fix' = [now |-> ~fix.now, was |-> fix.was \/ ~fix.now]
  /\ UNCHANGED <<toolVars, line, tty, rover, calm, heeded>>

-----------------------------------------------------------------------------
Tool ==
  \/ WriteStage \/ WriteFails \/ OpenFails \/ Reset \/ AskVersion \/ Poll
  \/ HearVersion \/ Hear \/ NoVersion \/ NoAnswer \/ PollRaises
  \/ PositionFails \/ WaitForFix \/ Chain \/ GiveUp \/ Report \/ Diff
  \/ ResetBaseline \/ OpenPort \/ HearFix \/ IgnoreFix \/ FixTimeout

Next == Tool \/ Receive \/ Lose \/ Boot \/ PowerCycle \/ Navigate \/ FixChanges

Spec == Init /\ [][Next]_vars

-----------------------------------------------------------------------------
(* Properties. *)

Writes == {"base", "rover", "write", "full"} \union Configurators
Vouched == IF job.program \in Configurators THEN {First} ELSE Key

(* A program that reports success after it has verified is right, whatever
   became of its writes, unless an answer was late or missing
   (f9p_config_all.py:684-741, f9p_configurator.py:478-536,
   f9p_verify_config.py:156-181).  Not so f9p_verify_config in its rover role: it
   finds none of its keys, which is a warning, and passes whatever the receiver
   holds (f9p_verify_config.py:295-418). *)
OkIsTrue ==
  /\ result = "ok" /\ calm
  /\ job.program \notin {"write", "verifyrover"} \union FixMonitors
  => Vouched \subseteq rover.ram

(* And one that reports a failure has a reason to. *)
FailureIsTrue ==
  /\ result = "failed" /\ calm /\ notes.wrote
  /\ job.program \in {"base", "rover", "configurator", "verifybase"}
  => rover.ram # Key

(* f9p_fix_monitor reports RTK fixed only when the receiver had it while the
   monitor was looking, not on what an earlier session left in the tty
   (f9p_fix_monitor.py:109-124, 226-359).  What --once returns when it heard
   nothing says nothing. *)
FixedIsTrue ==
  job.program \in FixMonitors /\ result = "ok" /\ notes.alive => fix.was

(* When nothing is lost or refused, the receiver ends up with all that was to
   be written, and keeps it in flash if that was asked for.  Not so with
   --no-flash and a reset: the reset takes back what was written
   (f9p_config_all.py:534-682, 747-807). *)
ConfiguredAsAsked ==
  /\ job.program \in Writes /\ result \in {"ok", "failed"}
  /\ notes.wrote /\ calm /\ heeded /\ line = <<>>
  /\ job.flash \/ ~job.reset
  => Key \subseteq IF job.flash THEN rover.ram \intersect rover.stored ELSE rover.ram

(* A check of f9p_config_monitor reports "no changes" exactly when the receiver
   has what it should have and had it when the baseline was taken, if neither of
   the two checks was disturbed (f9p_config_monitor.py:135-250, 361-394). *)
MonitorTellsTruth ==
  base.report # "none" /\ calm /\ base.sure /\ step = Start
    => (base.report = "same" <=> rover.ram = Key /\ base.had = Key)

(* The place in an exchange: an even number before a request, an odd one while
   its answer is awaited. *)
Round(s) ==
  IF s.tries = 0 THEN IF s.waiting THEN 1 ELSE 0
  ELSE IF s.waiting THEN 2 * s.tries - 1 ELSE 2 * s.tries

Forward ==
  \/ step'.at > step.at
  \/ step'.at = step.at /\ Round(step') > Round(step)

(* A program never turns back: what it does ends it, or brings it on in its
   script or in the rounds of a poll, of which there are as many as it was
   given, lost answers or not; a report is its last word.  But the monitor begins
   its check anew, and who waits for a fix listens on (f9p_config_all.py:432-528,
   f9p_config_monitor.py:356-450, f9p_fix_monitor.py:262-359). *)
GoesForward ==
  [][/\ result # "none" => UNCHANGED toolVars
     /\ \/ UNCHANGED toolVars
        \/ result' # "none"
        \/ Forward
        \/ job.program = "monitor" /\ step' = Start
        \/ job.program = "fixwait" /\ step.waiting /\ UNCHANGED <<job, step, base>>
     /\ step'.tries > step.tries => step.tries < Tries(job.program, Now.key)]_vars
=============================================================================
