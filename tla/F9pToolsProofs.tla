---------------------------- MODULE F9pToolsProofs ----------------------------
(****************************************************************************)
(* Theorems about F9pTools: what a program reports about the receiver is so *)
(* unless its check was disturbed, for any bound on the requests under way. *)
(****************************************************************************)
EXTENDS F9pTools, SequenceFacts, TLAPS

Answer == [kind : {"version", "poll", "fix"}, key : Key, set : BOOLEAN]
Requested == [do : {"set", "reset", "version", "poll"}, key : Key, flash : BOOLEAN]

(* What is in the two directions of the port, and how far a poll has got. *)
Port ==
  /\ tty \in Seq(Answer) /\ line \in Seq(Requested)
  /\ ~step.waiting => step.tries <= 2

(* A fix monitor has one step, in which it takes only what came since it opened
   the port; --once takes no second answer. *)
Watching == job.program \in FixMonitors

Watch ==
  Watching =>
    /\ step.at = 1 /\ line = <<>>
    /\ step.waiting => /\ fix.now => fix.was
                       /\ \A i \in 1 .. Len(tty) : tty[i].set => fix.was
    /\ notes.alive => step.waiting
    /\ job.program = "fixonce" /\ notes.alive => result # "none"
    /\ FixedIsTrue

(* The programs that ask the receiver for what it has, and how far into their
   script they do. *)
Checked == {"base", "rover", "full", "configurator", "station", "verifybase", "monitor"}
Before(p) == IF p \in {"verifybase", "monitor"} THEN 0 ELSE IF p \in Configurators THEN 2 ELSE 3
B == Before(job.program)

(* Before the check there are only writes under way, and before one that is the
   program's first exchange there is nothing. *)
OnlyWrites(n) == \A i \in 1 .. n : line[i].do \in {"set", "reset"}

Writing ==
  step.at <= B \/ (step.at = B + 1 /\ ~step.waiting) =>
    OnlyWrites(Len(line)) /\ (B = 0 => line = <<>>)

(* The answer to the version request comes when all before it has been dealt
   with ... *)
Asking ==
  step.at = B + 1 /\ step.waiting =>
    line = <<>> \/ (tty = <<>> /\ OnlyWrites(Len(line) - 1))

(* ... so that from there on each poll is alone on the line. *)
Polling ==
  step.at >= B + 2 =>
    /\ notes.alive
    /\ ~step.waiting => line = <<>>
    /\ step.waiting =>
         \/ line = <<>> /\ \A i \in 1 .. Len(tty) :
              tty[i].key = Now.key /\ (tty[i].set <=> Now.key \in rover.ram)
         \/ /\ Len(line) = 1 /\ tty = <<>>
            /\ line[1].do = "poll" /\ line[1].key = Now.key
    /\ step.at >= B + 4 => ~step.waiting

(* What was found out is so. *)
Known(k) == notes.status[k] = IF k \in rover.ram THEN "ok" ELSE "fail"

Polled ==
  /\ step.at >= B + 3 => Known(First)
  /\ step.at >= B + 4 => Known(Second)

Verdict ==
  /\ result = "ok" => line = <<>> /\ Vouched \subseteq rover.ram
  /\ result = "failed" /\ job.program # "full" => line = <<>>
  /\ job.program = "monitor" => result = "none" /\ MonitorTellsTruth
  /\ FailureIsTrue

Faithful ==
  job.program \in Checked /\ calm =>
    /\ Running => Writing /\ Asking /\ Polling /\ Polled
    /\ Verdict

(* Each item that was to be written is where it should be or on its way, with no
   reset before it that would take it back. *)
Carried(k) == k \in rover.ram /\ (job.flash => k \in rover.stored)

OnItsWay(k) ==
  \E j \in 1 .. Len(line) :
    /\ line[j].do = "set" /\ line[j].key = k /\ line[j].flash = job.flash
    /\ \A i \in 1 .. j : line[i].do # "reset"

Place(k) == IF k = First THEN 1 ELSE 2

Asked ==
  job.program \in Writes =>
    /\ \A i \in 1 .. Len(line) : line[i].do = "reset" => job.reset /\ step.at >= 3
    /\ result \in {"ok", "failed"} /\ calm => step.at >= 3
    /\ calm /\ heeded /\ notes.wrote /\ (job.flash \/ ~job.reset) =>
         \A k \in Key : step.at > Place(k) => Carried(k) \/ OnItsWay(k)

(* What the others never do. *)
Others ==
  /\ job.program \in {"roverconfig", "ichimill"} => result # "ok"
  /\ job.program = "ichimill" => step.at <= 3
  /\ job.program # "monitor" => base.report = "none"

(* A baseline taken undisturbed holds what the receiver had. *)
Recorded ==
  base.saved /\ base.sure =>
    \A k \in Key : base.keys[k] = IF k \in base.had THEN "ok" ELSE "fail"

IInv == TypeOK /\ Port /\ Watch /\ Recorded /\ Faithful /\ Asked /\ Others

-----------------------------------------------------------------------------
(* The scripts. *)

Exchange == [do : {"set", "reset", "alive", "poll", "fix", "await", "chain"}, key : Key]

LEMMA DoIs ==
  /\ Do("set", First) \in Exchange /\ Do("set", Second) \in Exchange
  /\ Do("reset", First) \in Exchange /\ Do("alive", First) \in Exchange
  /\ Do("poll", First) \in Exchange /\ Do("poll", Second) \in Exchange
  /\ Do("fix", First) \in Exchange /\ Do("await", First) \in Exchange
  /\ Do("chain", First) \in Exchange
BY DEF Do, Exchange, Key

LEMMA Programmes ==
  /\ Sets \in Seq(Exchange) /\ Len(Sets) = 2
  /\ Sets[1] = Do("set", First) /\ Sets[2] = Do("set", Second)
  /\ ResetIt \in Seq(Exchange) /\ Len(ResetIt) = 1 /\ ResetIt[1] = Do("reset", First)
  /\ Polls \in Seq(Exchange) /\ Len(Polls) = 3
  /\ Polls[1] = Do("alive", First) /\ Polls[2] = Do("poll", First) /\ Polls[3] = Do("poll", Second)
  /\ AwaitFixed \in Seq(Exchange) /\ Len(AwaitFixed) = 1 /\ AwaitFixed[1] = Do("await", First)
  /\ ConfigureUart2 \in Seq(Exchange) /\ Len(ConfigureUart2) = 2
  /\ ConfigureUart2[1] = Do("set", First) /\ ConfigureUart2[2] = Do("poll", First)
BY DoIs DEF Sets, ResetIt, Polls, AwaitFixed, ConfigureUart2

LEMMA Concatenated ==
  ASSUME NEW s \in Seq(Exchange), NEW t \in Seq(Exchange)
  PROVE  /\ s \o t \in Seq(Exchange) /\ Len(s \o t) = Len(s) + Len(t)
         /\ Len(s) \in Nat /\ Len(t) \in Nat
         /\ \A i \in 1 .. Len(s) : (s \o t)[i] = s[i]
         /\ \A i \in 1 .. Len(t) : (s \o t)[Len(s) + i] = t[i]
<1>1. Len(s) \in Nat /\ Len(t) \in Nat
  BY LenProperties
<1> DEFINE b == s \o t
<1>2. /\ b \in Seq(Exchange) /\ Len(b) = Len(s) + Len(t)
      /\ \A i \in 1 .. Len(s) + Len(t) : b[i] = IF i <= Len(s) THEN s[i] ELSE t[i - Len(s)]
  BY Joined
<1> HIDE DEF b
<1>3. \A i \in 1 .. Len(s) : b[i] = s[i]
  BY <1>1, <1>2
<1>4. ASSUME NEW i \in 1 .. Len(t) PROVE b[Len(s) + i] = t[i]
  <2>1. Len(s) + i \in 1 .. Len(s) + Len(t) /\ ~(Len(s) + i <= Len(s)) /\ (Len(s) + i) - Len(s) = i
    BY <1>1
  <2>2. b[Len(s) + i] = t[(Len(s) + i) - Len(s)]
    BY <1>2, <2>1
  <2>3. QED BY <2>1, <2>2
<1>5. QED BY <1>1, <1>2, <1>3, <1>4 DEF b

LEMMA WriteOnlyIs ==
  /\ WriteOnly \in Seq(Exchange) /\ Len(WriteOnly) = 3
  /\ WriteOnly[1] = Do("set", First) /\ WriteOnly[2] = Do("set", Second)
  /\ WriteOnly[3] = Do("reset", First)
<1>1. 1 \in 1 .. 2 /\ 2 \in 1 .. 2 /\ 1 \in 1 .. 1 /\ 2 + 1 = 3
  OBVIOUS
<1>2. /\ WriteOnly \in Seq(Exchange) /\ Len(WriteOnly) = Len(Sets) + Len(ResetIt)
      /\ \A i \in 1 .. Len(Sets) : WriteOnly[i] = Sets[i]
      /\ \A i \in 1 .. Len(ResetIt) : WriteOnly[Len(Sets) + i] = ResetIt[i]
  BY Concatenated, Programmes DEF WriteOnly
<1>3. QED BY <1>1, <1>2, Programmes

LEMMA ConfigureIs ==
  /\ Configure \in Seq(Exchange) /\ Len(Configure) = 5
  /\ Configure[1] = Do("set", First) /\ Configure[2] = Do("set", Second)
  /\ Configure[3] = Do("alive", First)
  /\ Configure[4] = Do("poll", First) /\ Configure[5] = Do("poll", Second)
<1>1. /\ 1 \in 1 .. 2 /\ 2 \in 1 .. 2 /\ 1 \in 1 .. 3 /\ 2 \in 1 .. 3 /\ 3 \in 1 .. 3
      /\ 2 + 1 = 3 /\ 2 + 2 = 4 /\ 2 + 3 = 5
  OBVIOUS
<1>2. /\ Configure \in Seq(Exchange) /\ Len(Configure) = Len(Sets) + Len(Polls)
      /\ \A i \in 1 .. Len(Sets) : Configure[i] = Sets[i]
      /\ \A i \in 1 .. Len(Polls) : Configure[Len(Sets) + i] = Polls[i]
  BY Concatenated, Programmes DEF Configure
<1>3. QED BY <1>1, <1>2, Programmes

LEMMA WriteAndVerifyIs ==
  /\ WriteAndVerify \in Seq(Exchange) /\ Len(WriteAndVerify) = 6
  /\ WriteAndVerify[1] = Do("set", First) /\ WriteAndVerify[2] = Do("set", Second)
  /\ WriteAndVerify[3] = Do("reset", First) /\ WriteAndVerify[4] = Do("alive", First)
  /\ WriteAndVerify[5] = Do("poll", First) /\ WriteAndVerify[6] = Do("poll", Second)
<1>1. /\ 1 \in 1 .. 3 /\ 2 \in 1 .. 3 /\ 3 \in 1 .. 3
      /\ 3 + 1 = 4 /\ 3 + 2 = 5 /\ 3 + 3 = 6
  OBVIOUS
<1>2. WriteAndVerify = WriteOnly \o Polls
  BY DEF WriteAndVerify, WriteOnly
<1>3. /\ WriteAndVerify \in Seq(Exchange) /\ Len(WriteAndVerify) = Len(WriteOnly) + Len(Polls)
      /\ \A i \in 1 .. Len(WriteOnly) : WriteAndVerify[i] = WriteOnly[i]
      /\ \A i \in 1 .. Len(Polls) : WriteAndVerify[Len(WriteOnly) + i] = Polls[i]
  BY <1>2, Concatenated, Programmes, WriteOnlyIs
<1>4. QED BY <1>1, <1>3, Programmes, WriteOnlyIs

LEMMA FullIs ==
  /\ Full \in Seq(Exchange) /\ Len(Full) = 7
  /\ \A i \in 1 .. 6 : Full[i] = WriteAndVerify[i]
  /\ Full[7] = Do("chain", First)
<1> DEFINE c == <<Do("chain", First)>>
<1>1. c \in Seq(Exchange) /\ Len(c) = 1 /\ c[1] = Do("chain", First) /\ Full = WriteAndVerify \o c
  BY DoIs DEF Full
<1> HIDE DEF c
<1>2. /\ Full \in Seq(Exchange) /\ Len(Full) = Len(WriteAndVerify) + Len(c)
      /\ \A i \in 1 .. Len(WriteAndVerify) : Full[i] = WriteAndVerify[i]
      /\ \A i \in 1 .. Len(c) : Full[Len(WriteAndVerify) + i] = c[i]
  BY <1>1, Concatenated, WriteAndVerifyIs
<1>3. 1 \in 1 .. 1 /\ 6 + 1 = 7
  OBVIOUS
<1>4. QED BY <1>1, <1>2, <1>3, WriteAndVerifyIs

LEMMA PositionIs ==
  /\ Position \in Seq(Exchange) /\ Len(Position) = 3
  /\ Position[1] = Do("set", First) /\ Position[2] = Do("set", Second)
  /\ Position[3] = Do("fix", First)
<1> DEFINE c == <<Do("fix", First)>>
<1>1. c \in Seq(Exchange) /\ Len(c) = 1 /\ c[1] = Do("fix", First) /\ Position = Sets \o c
  BY DoIs DEF Position
<1> HIDE DEF c
<1>2. /\ Position \in Seq(Exchange) /\ Len(Position) = Len(Sets) + Len(c)
      /\ \A i \in 1 .. Len(Sets) : Position[i] = Sets[i]
      /\ \A i \in 1 .. Len(c) : Position[Len(Sets) + i] = c[i]
  <2>1. Sets \in Seq(Exchange)
    BY Programmes
  <2>2. QED BY <1>1, <2>1, Concatenated
<1>3. 1 \in 1 .. 1 /\ 1 \in 1 .. 2 /\ 2 \in 1 .. 2 /\ 2 + 1 = 3
  OBVIOUS
<1>4. QED BY <1>1, <1>2, <1>3, Programmes

LEMMA ScriptIs ==
  ASSUME NEW p \in Programs
  PROVE  LET s == Script(p)
             b == Before(p) IN
         /\ s \in Seq(Exchange) /\ Len(s) \in 1 .. 7
         /\ p \in FixMonitors => Len(s) = 1 /\ s[1] = Do("await", First)
         /\ p = "roverconfig" => Len(s) = 2 /\ s[1] = Do("set", First) /\ s[2] = Do("poll", First)
         /\ p = "ichimill" => Len(s) = 3 /\ s[3] = Do("fix", First)
         /\ p = "write" => Len(s) = 3
         /\ p = "verifyrover" => /\ Len(s) = 3 /\ s[1] = Do("alive", First)
                                 /\ s[2] = Do("poll", First) /\ s[3] = Do("poll", Second)
         /\ p \in Checked =>
              /\ Len(s) = IF p = "full" THEN b + 4 ELSE b + 3
              /\ s[b + 1] = Do("alive", First)
              /\ s[b + 2] = Do("poll", First) /\ s[b + 3] = Do("poll", Second)
              /\ p = "full" => s[b + 4] = Do("chain", First)
         /\ p \in Writes \union {"ichimill"} => s[1] = Do("set", First) /\ s[2] = Do("set", Second)
         /\ p \in {"base", "rover", "full", "write"} => s[3] = Do("reset", First)
<1>1. 3 + 1 = 4 /\ 3 + 2 = 5 /\ 3 + 3 = 6 /\ 3 + 4 = 7 /\ 2 + 1 = 3 /\ 2 + 2 = 4 /\ 2 + 3 = 5
      /\ 0 + 1 = 1 /\ 0 + 2 = 2 /\ 0 + 3 = 3
      /\ (\A i \in {1, 2, 3, 4, 5, 6, 7} : i \in 1 .. 7)
      /\ \A i \in {1, 2, 3, 4, 5, 6} : i \in 1 .. 6
  OBVIOUS
<1>2. CASE p \in {"base", "rover"}
  BY <1>1, <1>2, WriteAndVerifyIs DEF Script, Before, Checked, Writes, Configurators, FixMonitors, Verifiers
<1>3. CASE p = "full"
  BY <1>1, <1>3, WriteAndVerifyIs, FullIs DEF Script, Before, Checked, Writes, Configurators, FixMonitors, Verifiers
<1>4. CASE p = "write"
  BY <1>1, <1>4, WriteOnlyIs DEF Script, Before, Checked, Writes, Configurators, FixMonitors, Verifiers
<1>5. CASE p \in Configurators
  BY <1>1, <1>5, ConfigureIs DEF Script, Before, Checked, Writes, Configurators, FixMonitors, Verifiers
<1>6. CASE p \in FixMonitors
  BY <1>1, <1>6, Programmes DEF Script, Before, Checked, Writes, Configurators, FixMonitors, Verifiers
<1>7. CASE p = "roverconfig"
  BY <1>1, <1>7, Programmes DEF Script, Before, Checked, Writes, Configurators, FixMonitors, Verifiers
<1>8. CASE p = "ichimill"
  BY <1>1, <1>8, PositionIs DEF Script, Before, Checked, Writes, Configurators, FixMonitors, Verifiers
<1>9. CASE p \in Verifiers \union {"monitor"}
  BY <1>1, <1>9, Programmes DEF Script, Before, Checked, Writes, Configurators, FixMonitors, Verifiers
<1>10. QED BY <1>2, <1>3, <1>4, <1>5, <1>6, <1>7, <1>8, <1>9 DEF Programs, Verifiers

LEMMA KeysDiffer == First # Second /\ First \in Key /\ Second \in Key
BY KeyAssumption DEF Key

(* Where a program is. *)
LEMMA Exchanging ==
  ASSUME TypeOK, ~Ended
  PROVE  /\ step.at \in 1 .. Len(Script(job.program)) /\ step.at \in 1 .. 7
         /\ Now \in Exchange /\ Now.key \in Key
<1>1. job.program \in Programs /\ step.at \in 1 .. 8
  BY DEF TypeOK, Jobs
<1>2. Script(job.program) \in Seq(Exchange) /\ Len(Script(job.program)) \in 1 .. 7
  BY <1>1, ScriptIs
<1>3. step.at \in 1 .. Len(Script(job.program)) /\ step.at \in 1 .. 7
  <2> DEFINE n == Len(Script(job.program))
  <2>1. n \in 1 .. 7 /\ step.at \in 1 .. 8 /\ ~(step.at > n)
    BY <1>1, <1>2 DEF Ended
  <2> HIDE DEF n
  <2>2. step.at \in 1 .. n /\ step.at \in 1 .. 7
    BY <2>1
  <2>3. QED BY <2>2 DEF n
<1>4. Now \in Exchange
  BY <1>2, <1>3, ElementOfSeq DEF Now
<1>5. QED BY <1>3, <1>4 DEF Exchange

LEMMA PlaceIs ==
  ASSUME TypeOK, job.program \in Checked
  PROVE  /\ B \in {0, 2, 3} /\ step.at \in 1 .. 8
         /\ Ended => step.at >= B + 4
         /\ ~Ended /\ Now.do \in {"set", "reset"} => step.at <= B
         /\ ~Ended /\ Now.do = "alive" => step.at = B + 1
         /\ ~Ended /\ Now.do = "poll" => \/ step.at = B + 2 /\ Now.key = First
                                         \/ step.at = B + 3 /\ Now.key = Second
         /\ ~Ended /\ Now.do = "chain" => job.program = "full" /\ step.at = B + 4
         /\ ~Ended => Now.do \notin {"fix", "await"}
<1> DEFINE p == job.program
           s == Script(p)
<1>1. p \in Programs /\ step.at \in 1 .. 8
  BY DEF TypeOK, Jobs
<1>2. B = Before(p) /\ B \in {0, 2, 3} /\ (B = 0 <=> p \in {"verifybase", "monitor"}) /\ (B = 2 <=> p \in Configurators)
      /\ (B = 3 <=> p \in {"base", "rover", "full"})
  BY DEF B, Before, Checked, Configurators
<1>3. /\ Len(s) = IF p = "full" THEN B + 4 ELSE B + 3
      /\ s[B + 1] = Do("alive", First)
      /\ s[B + 2] = Do("poll", First) /\ s[B + 3] = Do("poll", Second)
      /\ p = "full" => s[B + 4] = Do("chain", First)
      /\ B # 0 => s[1] = Do("set", First) /\ s[2] = Do("set", Second)
      /\ B = 3 => s[3] = Do("reset", First)
  BY <1>1, <1>2, ScriptIs DEF Writes, Checked, Configurators
<1>4. Now = s[step.at] /\ (Ended <=> step.at > Len(s))
  BY DEF Now, Ended
<1> HIDE DEF s, p
<1>5. step.at \in {1, 2, 3, 4, 5, 6, 7, 8}
  BY <1>1
<1>6. CASE B = 0
  BY <1>2, <1>3, <1>4, <1>5, <1>6, KeysDiffer DEF Do, p, Configurators
<1>7. CASE B = 2
  BY <1>2, <1>3, <1>4, <1>5, <1>7, KeysDiffer DEF Do, p, Configurators
<1>8. CASE B = 3
  BY <1>2, <1>3, <1>4, <1>5, <1>8, KeysDiffer DEF Do, p, Configurators
<1>9. QED BY <1>1, <1>2, <1>6, <1>7, <1>8

LEMMA WriterIs ==
  ASSUME TypeOK, job.program \in Writes
  PROVE  /\ ~Ended /\ Now.do = "set" => step.at = Place(Now.key) /\ step.at <= 2
         /\ ~Ended /\ Now.do # "set" => step.at >= 3
         /\ Ended => step.at >= 3
         /\ ~Ended => Now.do \notin {"fix", "await"}
<1> DEFINE p == job.program
           s == Script(p)
<1>1. p \in Programs /\ step.at \in 1 .. 8
  BY DEF TypeOK, Jobs
<1>2. /\ s[1] = Do("set", First) /\ s[2] = Do("set", Second) /\ Len(s) >= 3
      /\ p = "write" => Len(s) = 3 /\ s[3] = Do("reset", First)
      /\ p # "write" => p \in Checked
  BY <1>1, ScriptIs DEF Writes, Checked, Configurators, Before
<1>3. Now = s[step.at] /\ (Ended <=> step.at > Len(s))
  BY DEF Now, Ended
<1>4. p \in Checked => B \in {2, 3}
  BY DEF B, Before, Writes, Configurators
<1> HIDE DEF s
<1>5. CASE p = "write"
  BY <1>1, <1>2, <1>3, <1>5, KeysDiffer DEF Do, Place
<1>6. CASE p \in Checked
  <2>1. CASE step.at <= 2
    BY <1>1, <1>2, <1>3, <2>1, KeysDiffer DEF Do, Place
  <2>2. CASE step.at >= 3
    <3>1. ~Ended => Now.do # "set"
      <4>1. ~Ended /\ Now.do = "set" => step.at = 3 /\ B = 3
        BY <1>1, <1>4, <1>6, <2>2, PlaceIs
      <4>2. B = 3 => s[3] = Do("reset", First)
        BY <1>1, <1>6, ScriptIs DEF B, Before, Checked, Configurators, s
      <4>3. QED BY <1>3, <4>1, <4>2 DEF Do
    <3>2. QED BY <1>6, <2>2, <3>1, PlaceIs
  <2>3. QED BY <1>1, <2>1, <2>2
<1>7. QED BY <1>2, <1>5, <1>6

LEMMA WatcherIs ==
  ASSUME TypeOK, Watching, Watch
  PROVE  ~Ended /\ Now.do = "await"
<1>1. job.program \in Programs /\ step.at = 1
  BY DEF TypeOK, Jobs, Watch
<1>2. Len(Script(job.program)) = 1 /\ Script(job.program)[1] = Do("await", First)
  BY <1>1, ScriptIs DEF Watching
<1>3. QED BY <1>1, <1>2 DEF Ended, Now, Do

-----------------------------------------------------------------------------
(* Types. *)

LEMMA Advances ==
  ASSUME TypeOK, ~Ended, Advance
  PROVE  /\ step'.at = step.at + 1 /\ ~step'.waiting /\ step'.tries = 0
         /\ step' \in [at : 1 .. 8, waiting : BOOLEAN, tries : 0 .. 3]
         /\ step' # Start
<1>1. step.at \in 1 .. 7
  BY Exchanging
<1>2. step' = [at |-> step.at + 1, waiting |-> FALSE, tries |-> 0]
  BY DEF Advance, Start
<1>3. QED BY <1>1, <1>2 DEF Start

LEMMA Skips ==
  ASSUME TypeOK, Skip
  PROVE  /\ ~step'.waiting /\ step'.tries = 0 /\ step'.at = Len(Script(job.program)) + 1
         /\ step' \in [at : 1 .. 8, waiting : BOOLEAN, tries : 0 .. 3]
<1> DEFINE n == Len(Script(job.program))
<1>1. n \in 1 .. 7
  BY ScriptIs DEF TypeOK, Jobs
<1>2. step' = [at |-> n + 1, waiting |-> FALSE, tries |-> 0]
  BY DEF Skip, Start
<1> HIDE DEF n
<1>3. step'.at = n + 1 /\ ~step'.waiting /\ step'.tries = 0
      /\ step' \in [at : 1 .. 8, waiting : BOOLEAN, tries : 0 .. 3]
  BY <1>1, <1>2
<1>4. QED BY <1>3 DEF n

LEMMA Starts ==
  /\ Start \in [at : 1 .. 8, waiting : BOOLEAN, tries : 0 .. 3]
  /\ Start.at = 1 /\ ~Start.waiting /\ Start.tries = 0
BY DEF Start

LEMMA Sends ==
  ASSUME TypeOK, Port, NEW r \in Requested, Send(r)
  PROVE  /\ tty' = <<>> /\ tty' \in Seq(Answer)
         /\ line' = Append(line, r) /\ line' \in Seq(Requested) /\ Len(line') <= MaxLine
         /\ Len(line) \in Nat /\ Len(line') = Len(line) + 1
         /\ \A i \in 1 .. Len(line) : line'[i] = line[i]
         /\ line'[Len(line) + 1] = r
<1>1. /\ Len(line) < MaxLine /\ tty' = <<>> /\ line' = Append(line, r)
      /\ line \in Seq(Requested) /\ Len(line) \in Nat /\ MaxLine \in Nat
  BY LenProperties, MaxLineAssumption DEF Send, Port
<1>2. tty' \in Seq(Answer)
  BY <1>1, EmptySeq
<1>3. /\ line' \in Seq(Requested) /\ Len(line') = Len(line) + 1
      /\ \A i \in 1 .. Len(line) : line'[i] = line[i]
      /\ line'[Len(line) + 1] = r
  BY <1>1, AppendProperties
<1>4. QED BY <1>1, <1>2, <1>3

LEMMA NothingThere ==
  /\ Len(<<>>) = 0 /\ <<>> \in Seq(Answer) /\ <<>> \in Seq(Requested) /\ Len(<<>>) <= MaxLine
BY EmptySeq, MaxLineAssumption

(* A step of a program that sends nothing. *)
LEMMA TypesHeld ==
  ASSUME TypeOK, Port, UNCHANGED <<job, line, rover>>,
         step' \in [at : 1 .. 8, waiting : BOOLEAN, tries : 0 .. 3],
         ~step'.waiting => step'.tries <= 2,
         notes' \in [wrote : BOOLEAN, alive : BOOLEAN, status : [Key -> Status]],
         result' \in {"none", "ok", "failed", "raises"},
         base' \in [saved : BOOLEAN, keys : [Key -> Status], report : {"none", "same", "changed"},
              had : SUBSET Key, sure : BOOLEAN],
         tty' \in Seq(Answer), fix' \in [now : BOOLEAN, was : BOOLEAN],
         calm' \in BOOLEAN, heeded' \in BOOLEAN
  PROVE  TypeOK' /\ Port'
BY DEF TypeOK, Port

(* And one that does. *)
LEMMA TypesSent ==
  ASSUME TypeOK, Port, NEW r \in Requested, Send(r),
         step' \in [at : 1 .. 8, waiting : BOOLEAN, tries : 0 .. 3],
         ~step'.waiting => step'.tries <= 2,
         calm' \in BOOLEAN,
         UNCHANGED <<job, notes, result, base, rover, fix, heeded>>
  PROVE  TypeOK' /\ Port'
BY Sends DEF TypeOK, Port

LEMMA RequestIs ==
  ASSUME TypeOK, ~Ended
  PROVE  /\ \A what \in {"set", "reset", "version", "poll"} : Request(what) \in Requested
         /\ [Request("set") EXCEPT !.flash = job.flash] \in Requested
BY Exchanging DEF Request, Requested, TypeOK, Jobs

LEMMA MatchingIs ==
  ASSUME Port, NEW i \in Matching
  PROVE  i \in 1 .. Len(tty) /\ tty[i] \in Answer /\ tty[i].kind = Kind
BY ElementOfSeq DEF Port, Matching

LEMMA ToolTypes ==
  ASSUME TypeOK, Port, Tool
  PROVE  TypeOK' /\ Port'
<1>1. /\ job \in Jobs /\ notes \in [wrote : BOOLEAN, alive : BOOLEAN, status : [Key -> Status]]
      /\ step \in [at : 1 .. 8, waiting : BOOLEAN, tries : 0 .. 3]
      /\ result \in {"none", "ok", "failed", "raises"}
      /\ base \in [saved : BOOLEAN, keys : [Key -> Status], report : {"none", "same", "changed"},
              had : SUBSET Key, sure : BOOLEAN]
      /\ fix \in [now : BOOLEAN, was : BOOLEAN] /\ calm \in BOOLEAN /\ heeded \in BOOLEAN
      /\ tty \in Seq(Answer) /\ <<>> \in Seq(Answer) /\ (~step.waiting => step.tries <= 2)
  BY NothingThere DEF TypeOK, Port
<1>2. Fresh \in [wrote : BOOLEAN, alive : BOOLEAN, status : [Key -> Status]]
  BY DEF Fresh, Status
<1>3. CASE WriteStage
  <2> DEFINE r == [Request("set") EXCEPT !.flash = job.flash]
  <2>1. /\ ~Ended /\ Advance /\ Send(r)
        /\ UNCHANGED <<job, notes, result, base, rover, fix, calm, heeded>>
    BY <1>3 DEF WriteStage, At
  <2>2. r \in Requested
    BY <2>1, RequestIs
  <2> HIDE DEF r
  <2>3. QED BY <1>1, <2>1, <2>2, Advances, TypesSent
<1>4. CASE WriteFails
  <2>1. /\ ~Ended /\ Advance /\ tty' = <<>> /\ UNCHANGED <<job, result, base, line, rover, fix, calm, heeded>>
        /\ notes' = [notes EXCEPT !.wrote = FALSE]
    BY <1>4 DEF WriteFails, At
  <2>2. notes' \in [wrote : BOOLEAN, alive : BOOLEAN, status : [Key -> Status]]
    BY <1>1, <2>1
  <2>3. QED BY <1>1, <2>1, <2>2, Advances, TypesHeld
<1>5. CASE OpenFails
  <2>1. /\ step' \in {step, Start} /\ result' \in {result, "failed", "raises"}
        /\ UNCHANGED <<job, notes, base, line, tty, rover, fix, heeded>> /\ calm' = FALSE
    BY <1>5 DEF OpenFails
  <2>2. /\ step' \in [at : 1 .. 8, waiting : BOOLEAN, tries : 0 .. 3]
        /\ ~step'.waiting => step'.tries <= 2
    BY <1>1, <2>1, Starts
  <2>3. /\ result' \in {"none", "ok", "failed", "raises"} /\ calm' \in BOOLEAN
        /\ UNCHANGED <<job, notes, base, line, tty, rover, fix, heeded>>
    BY <1>1, <2>1
  <2>4. QED BY <1>1, <2>2, <2>3, TypesHeld
<1>6. CASE Reset
  <2>1. /\ ~Ended /\ Advance /\ UNCHANGED <<job, notes, result, base, rover, fix, calm, heeded>>
        /\ Send(Request("reset")) \/ UNCHANGED <<line, tty>>
    BY <1>6 DEF Reset, At
  <2>2. QED BY <1>1, <2>1, Advances, RequestIs, TypesSent, TypesHeld
<1>7. CASE AskVersion
  <2>1. /\ ~Ended /\ ~step.waiting /\ Send(Request("version")) /\ step' = [step EXCEPT !.waiting = TRUE]
        /\ calm' = IF step.at = 1 THEN line = <<>> ELSE calm
        /\ UNCHANGED <<job, notes, result, base, rover, fix, heeded>>
    BY <1>7 DEF AskVersion, At
  <2>2. step' \in [at : 1 .. 8, waiting : BOOLEAN, tries : 0 .. 3] /\ step'.waiting
    BY <1>1, <2>1
  <2>3. calm' \in BOOLEAN
    BY <1>1, <2>1
  <2>4. QED BY <2>1, <2>2, <2>3, RequestIs, TypesSent
<1>8. CASE Poll
  <2>1. /\ ~Ended /\ ~step.waiting /\ Send(Request("poll"))
        /\ step' = [step EXCEPT !.waiting = TRUE, !.tries = @ + 1]
        /\ UNCHANGED <<job, notes, result, base, rover, fix, calm, heeded>>
    BY <1>8 DEF Poll, At
  <2>2. step.tries + 1 \in 0 .. 3
    <3>1. step.tries \in 0 .. 3 /\ step.tries <= 2
      BY <1>1, <2>1
    <3>2. QED BY <3>1
  <2>3. step' \in [at : 1 .. 8, waiting : BOOLEAN, tries : 0 .. 3] /\ step'.waiting
    BY <1>1, <2>1, <2>2
  <2>4. QED BY <1>1, <2>1, <2>3, RequestIs, TypesSent
<1>9. CASE HearVersion
  <2>1. /\ ~Ended /\ Advance /\ tty' = <<>> /\ notes' = [notes EXCEPT !.alive = TRUE]
        /\ UNCHANGED <<job, result, base, line, rover, fix, calm, heeded>>
    BY <1>9 DEF HearVersion, At
  <2>2. notes' \in [wrote : BOOLEAN, alive : BOOLEAN, status : [Key -> Status]]
    BY <1>1, <2>1
  <2>3. QED BY <1>1, <2>1, <2>2, Advances, TypesHeld
<1>10. CASE Hear
  <2>1. PICK i \in Matching : notes' = [notes EXCEPT !.status[Now.key] = Judged(tty[i])]
    BY <1>10 DEF Hear
  <2>2. /\ ~Ended /\ Advance /\ tty' = <<>>
        /\ UNCHANGED <<job, result, base, line, rover, fix, calm, heeded>>
    BY <1>10 DEF Hear, At
  <2>3. Judged(tty[i]) \in Status
    BY DEF Judged, Given, Unfound, Status
  <2>4. notes' \in [wrote : BOOLEAN, alive : BOOLEAN, status : [Key -> Status]]
    BY <1>1, <2>1, <2>3
  <2>5. QED BY <1>1, <2>2, <2>4, Advances, TypesHeld
<1>11. CASE NoVersion
  <2>1. /\ ~Ended /\ (Advance \/ Skip) /\ notes' \in {notes, Warned} /\ calm' = FALSE
        /\ UNCHANGED <<job, result, base, line, tty, rover, fix, heeded>>
    BY <1>11 DEF NoVersion, At
  <2>2. Warned \in [wrote : BOOLEAN, alive : BOOLEAN, status : [Key -> Status]]
    BY <1>1 DEF Warned, Status
  <2>3. /\ step' \in [at : 1 .. 8, waiting : BOOLEAN, tries : 0 .. 3]
        /\ ~step'.waiting => step'.tries <= 2
    BY <2>1, Advances, Skips
  <2>4. QED BY <1>1, <2>1, <2>2, <2>3, TypesHeld
<1>12. CASE NoAnswer
  <2>1. /\ ~Ended /\ calm' = FALSE /\ UNCHANGED <<job, result, base, line, tty, rover, fix, heeded>>
    BY <1>12 DEF NoAnswer, At
  <2>2. \/ step.tries <= 2 /\ step' = [step EXCEPT !.waiting = FALSE] /\ UNCHANGED notes
        \/ Advance /\ \E s \in Status : notes' = [notes EXCEPT !.status[Now.key] = s]
    <3>1. Tries(job.program, Now.key) \in {1, 2, 3}
      BY DEF Tries
    <3>2. step.tries \in 0 .. 3
      BY <1>1
    <3>3. step.tries < Tries(job.program, Now.key) => step.tries <= 2
      BY <3>1, <3>2
    <3>4. Unanswered \subseteq Status
      BY DEF Unanswered, Status
    <3>5. QED BY <1>12, <3>3, <3>4 DEF NoAnswer
  <2>3. notes' \in [wrote : BOOLEAN, alive : BOOLEAN, status : [Key -> Status]]
    BY <1>1, <2>2
  <2>4. /\ step' \in [at : 1 .. 8, waiting : BOOLEAN, tries : 0 .. 3]
        /\ ~step'.waiting => step'.tries <= 2
    <3>1. CASE step.tries <= 2 /\ step' = [step EXCEPT !.waiting = FALSE]
      BY <1>1, <3>1
    <3>2. CASE Advance
      BY <2>1, <3>2, Advances
    <3>3. QED BY <2>2, <3>1, <3>2
  <2>5. QED BY <1>1, <2>1, <2>3, <2>4, TypesHeld
<1>13. CASE PollRaises
  <2>1. /\ ~Ended /\ (Advance \/ Skip) /\ notes' = [notes EXCEPT !.alive = FALSE] /\ calm' = FALSE
        /\ UNCHANGED <<job, result, base, line, tty, rover, fix, heeded>>
    BY <1>13 DEF PollRaises, At
  <2>2. notes' \in [wrote : BOOLEAN, alive : BOOLEAN, status : [Key -> Status]]
    BY <1>1, <2>1
  <2>3. /\ step' \in [at : 1 .. 8, waiting : BOOLEAN, tries : 0 .. 3]
        /\ ~step'.waiting => step'.tries <= 2
    BY <2>1, Advances, Skips
  <2>4. QED BY <1>1, <2>1, <2>2, <2>3, TypesHeld
<1>14. CASE PositionFails \/ WaitForFix \/ GiveUp \/ Report \/ FixTimeout
  <2>1. /\ result' \in {"ok", "failed", "raises"}
        /\ UNCHANGED <<job, step, notes, base, line, tty, rover, fix, calm, heeded>>
    BY <1>14 DEF PositionFails, WaitForFix, GiveUp, Report, FixTimeout
  <2>2. QED BY <1>1, <2>1, TypesHeld
<1>15. CASE Chain
  <2>1. /\ ~Ended /\ (Advance \/ UNCHANGED step) /\ result' \in {result, "failed", "raises"}
        /\ UNCHANGED <<job, notes, base, line, tty, rover, fix, calm, heeded>>
    BY <1>15 DEF Chain, At
  <2>2. QED BY <1>1, <2>1, Advances, TypesHeld
<1>16. CASE Diff \/ ResetBaseline
  <2>1. /\ base' \in {Baseline, [base EXCEPT !.report = "changed"], [base EXCEPT !.report = "same"]}
        /\ step' = Start /\ notes' = Fresh
        /\ UNCHANGED <<job, result, line, tty, rover, fix, calm, heeded>>
    BY <1>16 DEF Diff, ResetBaseline
  <2>2. base' \in [saved : BOOLEAN, keys : [Key -> Status], report : {"none", "same", "changed"},
              had : SUBSET Key, sure : BOOLEAN]
    <3>1. Baseline \in [saved : BOOLEAN, keys : [Key -> Status], report : {"none", "same", "changed"},
              had : SUBSET Key, sure : BOOLEAN]
      BY <1>1 DEF Baseline, TypeOK
    <3>2. QED BY <1>1, <2>1, <3>1
  <2>3. QED BY <1>1, <1>2, <2>1, <2>2, Starts, TypesHeld
<1>17. CASE OpenPort
  <2>1. /\ step' = [step EXCEPT !.waiting = TRUE] /\ tty' = <<>> /\ fix' = [fix EXCEPT !.was = fix.now]
        /\ UNCHANGED <<job, notes, result, base, line, rover, calm, heeded>>
    BY <1>17 DEF OpenPort
  <2>2. /\ step' \in [at : 1 .. 8, waiting : BOOLEAN, tries : 0 .. 3] /\ step'.waiting
        /\ fix' \in [now : BOOLEAN, was : BOOLEAN]
    BY <1>1, <2>1
  <2>3. QED BY <1>1, <2>1, <2>2, TypesHeld
<1>18. CASE HearFix
  <2>1. /\ tty # <<>> /\ tty' = Tail(tty) /\ notes' = [notes EXCEPT !.alive = TRUE]
        /\ result' \in {"ok", "failed", "none"}
        /\ UNCHANGED <<job, step, base, line, rover, fix, calm, heeded>>
    BY <1>18 DEF HearFix
  <2>2. /\ notes' \in [wrote : BOOLEAN, alive : BOOLEAN, status : [Key -> Status]]
        /\ tty' \in Seq(Answer)
    BY <1>1, <2>1, Beheaded
  <2>3. QED BY <1>1, <2>1, <2>2, TypesHeld
<1>19. CASE IgnoreFix
  <2>1. /\ tty # <<>> /\ tty' = Tail(tty)
        /\ UNCHANGED <<job, step, notes, result, base, line, rover, fix, calm, heeded>>
    BY <1>19 DEF IgnoreFix, toolVars
  <2>2. tty' \in Seq(Answer)
    BY <1>1, <2>1, Beheaded
  <2>3. QED BY <1>1, <2>1, <2>2, TypesHeld
<1>20. QED BY <1>3, <1>4, <1>5, <1>6, <1>7, <1>8, <1>9, <1>10, <1>11, <1>12, <1>13, <1>14, <1>15,
              <1>16, <1>17, <1>18, <1>19 DEF Tool

LEMMA ReceiverTypes ==
  ASSUME TypeOK, Port,
         Receive \/ Lose \/ Boot \/ PowerCycle \/ Navigate \/ FixChanges \/ UNCHANGED vars
  PROVE  TypeOK' /\ Port'
<1>1. /\ rover \in [ram : SUBSET Key, stored : SUBSET Key, up : BOOLEAN]
      /\ fix \in [now : BOOLEAN, was : BOOLEAN]
      /\ tty \in Seq(Answer) /\ line \in Seq(Requested) /\ Len(line) <= MaxLine
      /\ Len(line) \in Nat /\ MaxLine \in Nat
      /\ Len(<<>>) = 0 /\ <<>> \in Seq(Requested) /\ Len(<<>>) <= MaxLine
  BY NothingThere, LenProperties, MaxLineAssumption DEF TypeOK, Port
<1>2. line # <<>> => /\ Tail(line) \in Seq(Requested) /\ Len(Tail(line)) <= MaxLine
                     /\ Head(line) \in Requested
  <2> SUFFICES ASSUME line # <<>>
               PROVE  /\ Tail(line) \in Seq(Requested) /\ Len(Tail(line)) <= MaxLine
                      /\ Head(line) \in Requested
    OBVIOUS
  <2>1. Tail(line) \in Seq(Requested) /\ Head(line) \in Requested /\ Len(Tail(line)) = Len(line) - 1
    BY <1>1, Beheaded
  <2> DEFINE n == Len(Tail(line))
  <2>2. n = Len(line) - 1
    BY <2>1
  <2> HIDE DEF n
  <2>3. n <= MaxLine
    BY <1>1, <2>2
  <2>4. QED BY <2>1, <2>3 DEF n
<1>3. ASSUME rover' \in [ram : SUBSET Key, stored : SUBSET Key, up : BOOLEAN],
             tty' \in Seq(Answer), line' \in Seq(Requested), Len(line') <= MaxLine,
             calm' \in BOOLEAN, heeded' \in BOOLEAN, fix' \in [now : BOOLEAN, was : BOOLEAN],
             UNCHANGED toolVars
      PROVE  TypeOK' /\ Port'
  BY <1>3 DEF TypeOK, Port, toolVars
<1>4. CASE Receive
  <2> DEFINE r == Head(line)
  <2>1. /\ line # <<>> /\ Carry(r) /\ UNCHANGED <<toolVars, fix, calm, heeded>>
    BY <1>4 DEF Receive
  <2>2. r \in Requested
    BY <1>2, <2>1
  <2> HIDE DEF r
  <2>3. r.do \in {"set", "reset", "version", "poll"} /\ r.key \in Key
    BY <2>2 DEF Requested
  <2>4. CASE r.do = "set"
    <3>1. /\ rover' = [rover EXCEPT !.ram = @ \union {r.key},
                        !.stored = IF r.flash THEN @ \union {r.key} ELSE @]
          /\ line' = Tail(line) /\ tty' = tty
      BY <2>1, <2>4 DEF Carry
    <3>2. rover' \in [ram : SUBSET Key, stored : SUBSET Key, up : BOOLEAN]
      BY <1>1, <2>3, <3>1
    <3>3. QED BY <1>1, <1>2, <1>3, <2>1, <3>1, <3>2 DEF TypeOK
  <2>5. CASE r.do = "reset"
    <3>1. rover' = [rover EXCEPT !.ram = rover.stored, !.up = FALSE] /\ line' = <<>> /\ tty' = tty
      BY <2>1, <2>5 DEF Carry
    <3>2. rover' \in [ram : SUBSET Key, stored : SUBSET Key, up : BOOLEAN]
      BY <1>1, <3>1
    <3>3. QED BY <1>1, <1>3, <2>1, <3>1, <3>2 DEF TypeOK
  <2>6. CASE r.do \in {"version", "poll"}
    <3> DEFINE a == [kind |-> r.do, key |-> r.key, set |-> r.key \in rover.ram]
    <3>1. tty' = Append(tty, a) /\ line' = Tail(line) /\ rover' = rover
      BY <2>1, <2>6 DEF Carry
    <3>2. a \in Answer
      BY <2>3, <2>6 DEF Answer
    <3> HIDE DEF a
    <3>3. tty' \in Seq(Answer)
      BY <1>1, <3>1, <3>2, AppendProperties
    <3>4. QED BY <1>1, <1>2, <1>3, <2>1, <3>1, <3>3 DEF TypeOK
  <2>7. QED BY <2>3, <2>4, <2>5, <2>6
<1>5. CASE Lose
  BY <1>1, <1>2, <1>3, <1>5 DEF Lose, TypeOK
<1>6. CASE Boot
  BY <1>1, <1>3, <1>6 DEF Boot, TypeOK
<1>7. CASE PowerCycle
  BY <1>1, <1>3, <1>7 DEF PowerCycle, TypeOK
<1>8. CASE Navigate
  <2> DEFINE a == [kind |-> "fix", key |-> First, set |-> fix.now]
  <2>1. tty' = Append(tty, a) /\ UNCHANGED <<toolVars, line, rover, fix, calm, heeded>>
    BY <1>8 DEF Navigate
  <2>2. a \in Answer
    BY <1>1 DEF Answer, Key
  <2> HIDE DEF a
  <2>3. tty' \in Seq(Answer)
    BY <1>1, <2>1, <2>2, AppendProperties
  <2>4. QED BY <1>1, <1>3, <2>1, <2>3 DEF TypeOK
<1>9. CASE FixChanges
  BY <1>1, <1>3, <1>9 DEF FixChanges, TypeOK
<1>10. CASE UNCHANGED vars
  BY <1>1, <1>3, <1>10 DEF vars, TypeOK
<1>11. QED BY <1>4, <1>5, <1>6, <1>7, <1>8, <1>9, <1>10

-----------------------------------------------------------------------------
(* f9p_fix_monitor. *)

LEMMA WatchKept ==
  ASSUME TypeOK, Port, Watch, [Next]_vars
  PROVE  Watch'
<1>1. CASE ~Watching
  BY <1>1 DEF Watch, Watching, Next, Tool, WriteStage, WriteFails, OpenFails, Reset, AskVersion, Poll,
     HearVersion, Hear, NoVersion, NoAnswer, PollRaises, PositionFails, WaitForFix, Chain, GiveUp,
     Report, Diff, ResetBaseline, OpenPort, HearFix, IgnoreFix, FixTimeout, Receive, Lose, Boot, PowerCycle,
     Navigate, FixChanges, vars, toolVars
<1>2. CASE Watching
  <2>1. ~Ended /\ Now.do = "await" /\ job.program \in {"fixonce", "fixwait"}
    BY <1>2, WatcherIs DEF Watching, FixMonitors
  <2>2. /\ step.at = 1 /\ (notes.alive => step.waiting) /\ line = <<>>
        /\ step.waiting => /\ fix.now => fix.was
                           /\ \A i \in 1 .. Len(tty) : tty[i].set => fix.was
        /\ job.program = "fixonce" /\ notes.alive => result # "none"
        /\ result = "ok" /\ notes.alive => fix.was
    BY <1>2 DEF Watch, Watching, FixedIsTrue
  <2>3. /\ step \in [at : 1 .. 8, waiting : BOOLEAN, tries : 0 .. 3]
        /\ notes \in [wrote : BOOLEAN, alive : BOOLEAN, status : [Key -> Status]]
        /\ fix \in [now : BOOLEAN, was : BOOLEAN] /\ tty \in Seq(Answer) /\ Len(tty) \in Nat
    BY LenProperties DEF TypeOK, Port
  <2> USE DEF Watch, FixedIsTrue
  <2>4. CASE OpenFails
    BY <2>1, <2>2, <2>4 DEF OpenFails, Catches, FixMonitors
  <2>5. CASE OpenPort
    BY <2>1, <2>2, <2>3, <2>5, NothingThere DEF OpenPort, At, Running
  <2>6. CASE HearFix
    <3>1. /\ step.waiting /\ tty # <<>> /\ tty' = Tail(tty) /\ notes' = [notes EXCEPT !.alive = TRUE]
          /\ result' = IF Head(tty).set THEN "ok" ELSE IF job.program = "fixonce" THEN "failed" ELSE "none"
          /\ UNCHANGED <<job, step, line, fix>>
      BY <2>6 DEF HearFix
    <3>2. /\ Len(tty') = Len(tty) - 1 /\ Head(tty) = tty[1] /\ Len(tty) >= 1
          /\ \A i \in 1 .. Len(tty) - 1 : tty'[i] = tty[i + 1]
      BY <2>3, <3>1, Beheaded
    <3>3. Head(tty).set => fix.was
      BY <2>2, <2>3, <3>1, <3>2
    <3>4. \A i \in 1 .. Len(tty') : tty'[i].set => fix.was
      <4> SUFFICES ASSUME NEW i \in 1 .. Len(tty') PROVE tty'[i].set => fix.was
        OBVIOUS
      <4>1. i \in 1 .. Len(tty) - 1 /\ i + 1 \in 1 .. Len(tty)
        BY <2>3, <3>2
      <4>2. QED BY <2>2, <3>1, <3>2, <4>1
    <3>5. QED BY <2>1, <2>2, <2>3, <3>1, <3>3, <3>4
  <2>7. CASE FixTimeout
    BY <2>1, <2>2, <2>7 DEF FixTimeout, At, Running
  <2>15. CASE IgnoreFix
    <3>1. tty # <<>> /\ tty' = Tail(tty) /\ UNCHANGED <<toolVars, line, fix>>
      BY <2>15 DEF IgnoreFix
    <3>2. Len(tty') = Len(tty) - 1 /\ \A i \in 1 .. Len(tty) - 1 : tty'[i] = tty[i + 1]
      BY <2>3, <3>1, Beheaded
    <3>3. \A i \in 1 .. Len(tty') : i \in 1 .. Len(tty) - 1 /\ i + 1 \in 1 .. Len(tty)
      BY <2>3, <3>2
    <3>4. step.waiting => \A i \in 1 .. Len(tty') : tty'[i].set => fix.was
      BY <2>2, <3>2, <3>3
    <3>5. QED BY <2>2, <3>1, <3>4 DEF toolVars
  <2>8. CASE Navigate
    <3> DEFINE a == [kind |-> "fix", key |-> First, set |-> fix.now]
    <3>1. tty' = Append(tty, a) /\ UNCHANGED <<toolVars, line, fix>>
      BY <2>8 DEF Navigate
    <3>2. a \in Answer /\ a.set = fix.now
      BY <2>3 DEF Answer, Key
    <3> HIDE DEF a
    <3>3. /\ Len(tty') = Len(tty) + 1 /\ (\A i \in 1 .. Len(tty) : tty'[i] = tty[i])
          /\ tty'[Len(tty) + 1] = a
      BY <2>3, <3>1, <3>2, AppendProperties
    <3>4. step.waiting => \A i \in 1 .. Len(tty') : tty'[i].set => fix.was
      <4> SUFFICES ASSUME step.waiting, NEW i \in 1 .. Len(tty') PROVE tty'[i].set => fix.was
        OBVIOUS
      <4>1. CASE i \in 1 .. Len(tty)
        BY <2>2, <3>3, <4>1
      <4>2. CASE i = Len(tty) + 1
        BY <2>2, <3>2, <3>3, <4>2
      <4>3. QED BY <2>3, <3>3, <4>1, <4>2
    <3>5. QED BY <2>2, <3>1, <3>4 DEF toolVars
  <2>9. CASE FixChanges
    BY <2>2, <2>3, <2>9 DEF FixChanges, toolVars
  <2>10. CASE Boot
    BY <2>2, <2>10 DEF Boot, toolVars
  <2>11. CASE UNCHANGED vars \/ PowerCycle
    BY <2>2, <2>11 DEF vars, PowerCycle, toolVars
  <2>12. ~(Receive \/ Lose)
    BY <2>2 DEF Receive, Lose
  <2>13. ~(\/ WriteStage \/ WriteFails \/ Reset \/ AskVersion \/ Poll \/ HearVersion \/ Hear \/ NoVersion
           \/ NoAnswer \/ PollRaises \/ PositionFails \/ WaitForFix \/ Chain \/ GiveUp \/ Report
           \/ Diff \/ ResetBaseline)
    BY <2>1 DEF WriteStage, WriteFails, Reset, AskVersion, Poll, HearVersion, Hear, NoVersion, NoAnswer,
       PollRaises, PositionFails, WaitForFix, Chain, GiveUp, Report, Diff, ResetBaseline, At
  <2>14. QED BY <2>4, <2>5, <2>6, <2>7, <2>8, <2>9, <2>10, <2>11, <2>12, <2>13, <2>15 DEF Next, Tool
<1>3. QED BY <1>1, <1>2

-----------------------------------------------------------------------------
(* The programs that check. *)

Checking == job.program \in Checked /\ calm

(* As long as no result is in, there is nothing to vouch for, except that the
   monitor is between two checks. *)
LEMMA StillRunning ==
  ASSUME UNCHANGED job, result' = "none", job.program = "monitor" => step' # Start
  PROVE  Verdict'
BY DEF Verdict, MonitorTellsTruth, FailureIsTrue

LEMMA WritingKept ==
  ASSUME TypeOK, Port, Faithful, Checking, UNCHANGED <<job, result>>, Running,
         step.at <= B, Advance, ~Ended, OnlyWrites(Len(line))'
  PROVE  Faithful'
<1>1. /\ step'.at = step.at + 1 /\ ~step'.waiting /\ step' # Start
      /\ step.at \in 1 .. 8 /\ B \in {0, 2, 3} /\ B' = B
  BY Advances, PlaceIs DEF Checking, B
<1>2. B # 0 /\ step'.at <= B + 1
  BY <1>1
<1>3. Writing' /\ Asking'
  BY <1>1, <1>2 DEF Writing, Asking
<1>4. Polling' /\ Polled'
  BY <1>1, <1>2 DEF Polling, Polled
<1>5. Verdict'
  BY <1>1, StillRunning DEF Running
<1>6. QED BY <1>3, <1>4, <1>5 DEF Faithful

LEMMA WritesFaithfully ==
  ASSUME TypeOK, Port, Faithful, Checking, WriteStage \/ WriteFails \/ Reset
  PROVE  Faithful'
<1>1. /\ Running /\ ~Ended /\ Now.do \in {"set", "reset"} /\ Advance /\ UNCHANGED <<job, result>>
      /\ \/ Send([Request("set") EXCEPT !.flash = job.flash])
         \/ Send(Request("reset"))
         \/ line' = line
  BY DEF WriteStage, WriteFails, Reset, At
<1>2. step.at <= B
  BY <1>1, PlaceIs DEF Checking
<1>3. OnlyWrites(Len(line))
  BY <1>1, <1>2 DEF Faithful, Checking, Writing
<1>4. ASSUME NEW r \in Requested, Send(r), r.do \in {"set", "reset"}
      PROVE  OnlyWrites(Len(line))'
  BY <1>3, <1>4, Sends DEF OnlyWrites
<1>5. OnlyWrites(Len(line))'
  <2>1. CASE Send([Request("set") EXCEPT !.flash = job.flash])
    <3>1. [Request("set") EXCEPT !.flash = job.flash].do = "set"
      BY DEF Request
    <3>2. QED BY <1>1, <1>4, <2>1, <3>1, RequestIs
  <2>2. CASE Send(Request("reset"))
    <3>1. Request("reset").do = "reset"
      BY DEF Request
    <3>2. QED BY <1>1, <1>4, <2>2, <3>1, RequestIs
  <2>3. CASE line' = line
    BY <1>3, <2>3 DEF OnlyWrites
  <2>4. QED BY <1>1, <2>1, <2>2, <2>3
<1>6. QED BY <1>1, <1>2, <1>5, WritingKept

LEMMA AsksFaithfully ==
  ASSUME TypeOK, Port, Faithful, job.program \in Checked, AskVersion
  PROVE  Faithful'
<1> SUFFICES ASSUME calm' PROVE Faithful'
  BY DEF Faithful
<1>1. /\ Running /\ ~Ended /\ Now.do = "alive" /\ ~step.waiting
      /\ Send(Request("version")) /\ UNCHANGED <<job, result>>
      /\ step' = [step EXCEPT !.waiting = TRUE]
      /\ calm' = IF step.at = 1 THEN line = <<>> ELSE calm
  BY DEF AskVersion, At
<1>2. step.at = B + 1 /\ B \in {0, 2, 3} /\ B' = B
  BY <1>1, PlaceIs DEF B
<1>3. step'.waiting /\ step'.at = B + 1 /\ step' # Start
  BY <1>1, <1>2 DEF TypeOK, Start
<1>4. OnlyWrites(Len(line))
  <2>1. CASE line = <<>>
    BY <2>1, NothingThere DEF OnlyWrites
  <2>2. CASE calm
    BY <1>1, <1>2, <2>2 DEF Faithful, Writing
  <2>3. QED BY <1>1, <2>1, <2>2
<1>5. Request("version") \in Requested
  BY <1>1, RequestIs
<1>6. /\ tty' = <<>> /\ Len(line) \in Nat /\ Len(line') = Len(line) + 1
      /\ \A i \in 1 .. Len(line) : line'[i] = line[i]
  BY <1>1, <1>5, Sends
<1>7. Asking'
  <2>1. Len(line') - 1 = Len(line)
    BY <1>6
  <2>2. \A i \in 1 .. Len(line') - 1 : line'[i].do \in {"set", "reset"}
    BY <1>4, <1>6, <2>1 DEF OnlyWrites
  <2>3. QED BY <1>6, <2>2 DEF Asking, OnlyWrites
<1>8. Writing' /\ Polling' /\ Polled'
  BY <1>2, <1>3 DEF Writing, Polling, Polled
<1>9. Verdict'
  BY <1>1, <1>3, StillRunning DEF Running
<1>10. QED BY <1>7, <1>8, <1>9 DEF Faithful

LEMMA MatchIsThere ==
  ASSUME Port, Matching # {}
  PROVE  tty # <<>>
<1>1. PICK i \in Matching : TRUE
  OBVIOUS
<1>2. i \in 1 .. Len(tty)
  BY <1>1, MatchingIs
<1>3. QED BY <1>2, NothingThere

LEMMA HearsVersionFaithfully ==
  ASSUME TypeOK, Port, Faithful, Checking, HearVersion
  PROVE  Faithful'
<1>1. /\ Running /\ ~Ended /\ Now.do = "alive" /\ step.waiting /\ Matching # {}
      /\ notes' = [notes EXCEPT !.alive = TRUE] /\ tty' = <<>> /\ Advance
      /\ UNCHANGED <<job, result, line>>
  BY DEF HearVersion, At
<1>2. step.at = B + 1 /\ B \in {0, 2, 3} /\ B' = B
  BY <1>1, PlaceIs DEF Checking, B
<1>3. step'.at = B + 2 /\ ~step'.waiting /\ step' # Start
  BY <1>1, <1>2, Advances
<1>4. line' = <<>> /\ notes'.alive
  BY <1>1, <1>2, MatchIsThere DEF Faithful, Checking, Asking, TypeOK
<1>5. Writing' /\ Asking' /\ Polling' /\ Polled'
  BY <1>1, <1>2, <1>3, <1>4 DEF Writing, Asking, Polling, Polled
<1>6. Verdict'
  BY <1>1, <1>3, StillRunning DEF Running
<1>7. QED BY <1>5, <1>6 DEF Faithful

LEMMA PollsFaithfully ==
  ASSUME TypeOK, Port, Faithful, Checking, Poll
  PROVE  Faithful'
<1>1. /\ Running /\ ~Ended /\ Now.do = "poll" /\ ~step.waiting
      /\ Send(Request("poll")) /\ UNCHANGED <<job, result, notes, rover>>
      /\ step' = [step EXCEPT !.waiting = TRUE, !.tries = @ + 1]
  BY DEF Poll, At
<1>2. step.at \in {B + 2, B + 3} /\ B \in {0, 2, 3} /\ B' = B
  BY <1>1, PlaceIs DEF Checking, B
<1>3. step'.waiting /\ step'.at = step.at /\ step' # Start /\ Now' = Now
  BY <1>1, <1>2 DEF TypeOK, Start, Now
<1>4. line = <<>> /\ notes.alive
  BY <1>1, <1>2 DEF Faithful, Checking, Polling
<1>5. Request("poll") \in Requested /\ Request("poll").do = "poll" /\ Request("poll").key = Now.key
  BY <1>1, RequestIs DEF Request
<1> DEFINE r == Request("poll")
<1> HIDE DEF r
<1>6. /\ tty' = <<>> /\ Len(line') = 1 /\ line'[1] = r /\ r.do = "poll" /\ r.key = Now.key
  <2>1. r \in Requested /\ Send(r) /\ r.do = "poll" /\ r.key = Now.key
    BY <1>1, <1>5 DEF r
  <2>2. tty' = <<>> /\ Len(line') = Len(line) + 1 /\ line'[Len(line) + 1] = r
    BY <2>1, Sends
  <2>3. Len(line) = 0
    BY <1>4, NothingThere
  <2>4. QED BY <2>1, <2>2, <2>3
<1>7. Polling'
  BY <1>1, <1>2, <1>3, <1>4, <1>6 DEF Polling
<1>8. Writing' /\ Asking'
  BY <1>2, <1>3 DEF Writing, Asking
<1>9. Polled'
  BY <1>1, <1>2, <1>3 DEF Faithful, Checking, Polled, Known
<1>10. Verdict'
  BY <1>1, <1>3, StillRunning DEF Running
<1>11. QED BY <1>7, <1>8, <1>9, <1>10 DEF Faithful

LEMMA HearsFaithfully ==
  ASSUME TypeOK, Port, Faithful, Checking, Hear
  PROVE  Faithful'
<1>1. /\ Running /\ ~Ended /\ Now.do = "poll" /\ step.waiting /\ Matching # {}
      /\ tty' = <<>> /\ Advance /\ UNCHANGED <<job, result, line, rover>>
  BY DEF Hear, At
<1>2. PICK i \in Matching : notes' = [notes EXCEPT !.status[Now.key] = Judged(tty[i])]
  BY DEF Hear
<1>3. /\ \/ step.at = B + 2 /\ Now.key = First
         \/ step.at = B + 3 /\ Now.key = Second
      /\ B \in {0, 2, 3} /\ B' = B
  BY <1>1, PlaceIs DEF Checking, B
<1>4. step'.at = step.at + 1 /\ ~step'.waiting /\ step' # Start
  BY <1>1, Advances
<1>5. Polling /\ Polled
  BY <1>1 DEF Faithful, Checking
<1>6. /\ line = <<>> /\ notes.alive
      /\ \A j \in 1 .. Len(tty) : tty[j].key = Now.key /\ (tty[j].set <=> Now.key \in rover.ram)
  BY <1>1, <1>3, <1>5, MatchIsThere DEF Polling
<1>7. Judged(tty[i]) = IF Now.key \in rover.ram THEN "ok" ELSE "fail"
  BY <1>6, MatchingIs DEF Judged, Finds, Given, Checking, Checked, Mistaken
<1>8. /\ notes'.alive = notes.alive
      /\ \A k \in Key : notes'.status[k] = IF k = Now.key THEN Judged(tty[i]) ELSE notes.status[k]
  BY <1>2 DEF TypeOK
<1>9. Polled'
  BY <1>1, <1>3, <1>4, <1>5, <1>7, <1>8, KeysDiffer DEF Polled, Known
<1>10. Writing' /\ Asking' /\ Polling'
  BY <1>1, <1>3, <1>4, <1>6, <1>8 DEF Writing, Asking, Polling
<1>11. Verdict'
  BY <1>1, <1>4, StillRunning DEF Running
<1>12. QED BY <1>9, <1>10, <1>11 DEF Faithful

(* At the end of a check that went undisturbed. *)
LEMMA CheckIsOver ==
  ASSUME TypeOK, Faithful, Checking, Running, step.at >= B + 4
  PROVE  /\ notes.alive /\ line = <<>> /\ ~step.waiting
         /\ Known(First) /\ Known(Second)
         /\ \A k \in Key : Known(k)
<1>1. B \in {0, 2, 3} /\ step.at \in 1 .. 8
  BY PlaceIs DEF Checking
<1>2. QED BY <1>1 DEF Faithful, Checking, Polling, Polled, Key

LEMMA ChainsFaithfully ==
  ASSUME TypeOK, Port, Faithful, Checking, Chain
  PROVE  Faithful'
<1>1. /\ Running /\ ~Ended /\ Now.do = "chain" /\ UNCHANGED <<job, notes, line, rover>>
      /\ (Advance /\ UNCHANGED result) \/ result' \in {"failed", "raises"}
  BY DEF Chain, At
<1>2. step.at = B + 4 /\ B \in {0, 2, 3} /\ B' = B /\ job.program = "full"
  BY <1>1, PlaceIs DEF Checking, B
<1>3. CASE Advance /\ UNCHANGED result
  <2>1. step'.at = B + 5 /\ ~step'.waiting
    BY <1>1, <1>2, <1>3, Advances
  <2>2. notes.alive /\ line = <<>> /\ Known(First) /\ Known(Second)
    BY <1>1, <1>2, CheckIsOver
  <2>3. Polling' /\ Polled'
    BY <1>1, <1>2, <2>1, <2>2 DEF Polling, Polled, Known
  <2>4. Writing' /\ Asking'
    BY <1>2, <2>1 DEF Writing, Asking
  <2>5. Verdict'
    BY <1>1, <1>2, <1>3, StillRunning DEF Running
  <2>6. QED BY <2>3, <2>4, <2>5 DEF Faithful
<1>4. CASE result' \in {"failed", "raises"}
  BY <1>1, <1>2, <1>4 DEF Faithful, Running, Verdict, FailureIsTrue
<1>5. QED BY <1>1, <1>3, <1>4

LEMMA ReportsFaithfully ==
  ASSUME TypeOK, Port, Faithful, Checking, Report
  PROVE  Faithful'
<1>1. /\ Running /\ Ended /\ job.program # "monitor"
      /\ UNCHANGED <<job, notes, line, rover, calm>>
      /\ job.program # "roverconfig"
      /\ result' = IF Passed THEN "ok" ELSE "failed"
  BY DEF Report, Checking, Checked
<1>2. /\ notes.alive /\ line = <<>>
      /\ \A k \in Key : notes.status[k] = IF k \in rover.ram THEN "ok" ELSE "fail"
  <2>1. step.at >= B + 4
    BY <1>1, PlaceIs DEF Checking
  <2>2. QED BY <1>1, <2>1, CheckIsOver DEF Known
<1>3. Passed => Vouched \subseteq rover.ram
  <2>1. CASE job.program \in {"base", "rover", "full", "verifybase"}
    BY <1>2, <2>1 DEF Passed, Verified, Vouched, Configurators, Verifiers
  <2>2. CASE job.program \in Configurators
    BY <1>2, <2>2, KeysDiffer DEF Passed, AllOk, Vouched, Configurators, Verifiers
  <2>3. QED BY <1>1, <2>1, <2>2 DEF Checking, Checked, Configurators
<1>4. ~Passed /\ notes.wrote /\ job.program \in {"base", "rover", "configurator", "verifybase"} => rover.ram # Key
  <2>1. CASE job.program \in {"base", "rover", "verifybase"}
    BY <1>2, <2>1 DEF Passed, Verified, Configurators, Verifiers
  <2>2. CASE job.program = "configurator"
    BY <1>2, <2>2, KeysDiffer DEF Passed, AllOk, Configurators, Verifiers
  <2>3. QED BY <2>1, <2>2
<1>5. Vouched' = Vouched
  BY <1>1 DEF Vouched
<1>6. Verdict'
  BY <1>1, <1>2, <1>3, <1>4, <1>5 DEF Verdict, FailureIsTrue
<1>7. QED BY <1>1, <1>6 DEF Faithful, Running

LEMMA MonitorsFaithfully ==
  ASSUME TypeOK, Port, Recorded, Faithful, Checking, Diff \/ ResetBaseline
  PROVE  Faithful'
<1>1. /\ Running /\ Ended /\ job.program = "monitor" /\ step' = Start
      /\ UNCHANGED <<job, result, line, rover>>
      /\ \/ base.saved /\ base' = [base EXCEPT !.report = IF Differs THEN "changed" ELSE "same"]
         \/ base' = Baseline
  BY DEF Diff, ResetBaseline
<1>2. B = 0 /\ B' = 0 /\ step'.at = 1 /\ ~step'.waiting
  BY <1>1 DEF B, Before, Start
<1>3. line = <<>> /\ \A k \in Key : notes.status[k] = IF k \in rover.ram THEN "ok" ELSE "fail"
  <2>1. step.at >= B + 4
    BY <1>1, PlaceIs DEF Checking
  <2>2. QED BY <1>1, <2>1, CheckIsOver DEF Known
<1>4. Writing' /\ Asking' /\ Polling' /\ Polled'
  BY <1>1, <1>2, <1>3, NothingThere DEF Writing, Asking, Polling, Polled, OnlyWrites
<1>5. MonitorTellsTruth'
  <2>1. CASE base' = Baseline
    BY <2>1 DEF Baseline, MonitorTellsTruth
  <2>2. CASE base' = [base EXCEPT !.report = IF Differs THEN "changed" ELSE "same"]
    <3> SUFFICES ASSUME base.saved, base.sure PROVE MonitorTellsTruth'
      BY <1>1, <2>1, <2>2 DEF MonitorTellsTruth, TypeOK
    <3>1. \A k \in Key : base.keys[k] = IF k \in base.had THEN "ok" ELSE "fail"
      BY DEF Recorded
    <3>2. Differs <=> \E k \in Key : k \notin base.had \/ k \notin rover.ram
      BY <1>3, <3>1 DEF Differs, Absent
    <3>3. /\ base'.had = base.had /\ (base'.report = "same" <=> ~Differs)
          /\ rover.ram \subseteq Key /\ base.had \subseteq Key
      BY <2>2 DEF TypeOK
    <3>4. QED BY <1>1, <3>2, <3>3 DEF MonitorTellsTruth
  <2>3. QED BY <1>1, <2>1, <2>2
<1>6. Verdict'
  BY <1>1, <1>5 DEF Verdict, FailureIsTrue, Running
<1>7. QED BY <1>4, <1>6 DEF Faithful

LEMMA RecordedKept ==
  ASSUME TypeOK, Recorded, Faithful, [Next]_vars
  PROVE  Recorded'
<1>1. CASE Diff \/ ResetBaseline
  <2>1. CASE base' = Baseline
    <3> SUFFICES ASSUME calm PROVE Recorded'
      BY <2>1 DEF Baseline, Recorded
    <3>1. Running /\ Ended /\ job.program = "monitor" /\ Checking
      BY <1>1 DEF Diff, ResetBaseline, Checking, Checked
    <3>2. step.at >= B + 4
      BY <3>1, PlaceIs DEF Checking
    <3>3. \A k \in Key : notes.status[k] = IF k \in rover.ram THEN "ok" ELSE "fail"
      BY <3>1, <3>2, CheckIsOver DEF Known
    <3>4. QED BY <2>1, <3>3 DEF Baseline, Recorded
  <2>2. CASE base.saved /\ base' \in {[base EXCEPT !.report = "changed"], [base EXCEPT !.report = "same"]}
    BY <2>2 DEF TypeOK, Recorded
  <2>3. QED BY <1>1, <2>1, <2>2 DEF Diff, ResetBaseline
<1>2. CASE ~(Diff \/ ResetBaseline)
  <2>1. base' = base
    BY <1>2 DEF Next, Tool, WriteStage, WriteFails, OpenFails, Reset, AskVersion, Poll,
       HearVersion, Hear, NoVersion, NoAnswer, PollRaises, PositionFails, WaitForFix, Chain, GiveUp,
       Report, OpenPort, HearFix, IgnoreFix, FixTimeout, Receive, Lose, Boot, PowerCycle,
       Navigate, FixChanges, vars, toolVars
  <2>2. QED BY <2>1 DEF Recorded
<1>3. QED BY <1>1, <1>2

(* The receiver has carried out or lost the first request, or all of them. *)
Shorter ==
  /\ line # <<>>
  /\ line' \in {Tail(line), <<>>}
  /\ UNCHANGED <<job, step, notes, result, base, calm>>

LEMMA Taken ==
  ASSUME Port, Shorter
  PROVE  /\ Head(line) = line[1] /\ line[1] \in Requested
         /\ Len(line) \in Nat /\ Len(line) >= 1 /\ Len(line') \in 0 .. Len(line) - 1
         /\ \A i \in 1 .. Len(line') : line'[i] = line[i + 1]
         /\ line' # <<>> => line' = Tail(line) /\ Len(line') = Len(line) - 1 /\ Len(line) >= 2
         /\ Len(line') = 0 => line' = <<>>
<1>1. /\ line \in Seq(Requested) /\ line # <<>>
      /\ Len(line) \in Nat
  BY LenProperties DEF Port, Shorter
<1>2. /\ Tail(line) \in Seq(Requested) /\ Len(Tail(line)) = Len(line) - 1 /\ Len(line) >= 1
      /\ Head(line) = line[1] /\ Head(line) \in Requested
      /\ \A i \in 1 .. Len(line) - 1 : Tail(line)[i] = line[i + 1]
  BY <1>1, Beheaded
<1>3. CASE line' = <<>>
  <2>1. Len(line') = 0
    BY <1>3, NothingThere
  <2>2. 1 .. 0 = {} /\ 0 \in 0 .. Len(line) - 1
    BY <1>1, <1>2
  <2>3. QED BY <1>1, <1>2, <1>3, <2>1, <2>2
<1>4. CASE line' = Tail(line) /\ line' # <<>>
  <2>1. Len(line') # 0
    BY <1>2, <1>4, EmptySeq
  <2>2. Len(line') = Len(line) - 1 /\ \A i \in 1 .. Len(line') : line'[i] = line[i + 1]
    BY <1>2, <1>4
  <2> DEFINE n == Len(line)
             m == Len(line')
  <2>3. n \in Nat /\ n >= 1 /\ m = n - 1 /\ m # 0
    BY <1>1, <1>2, <2>1, <2>2
  <2> HIDE DEF n, m
  <2>4. m \in 0 .. n - 1 /\ n >= 2
    BY <2>3
  <2>5. QED BY <1>1, <1>2, <1>4, <2>1, <2>2, <2>4 DEF n, m
<1>5. QED BY <1>3, <1>4 DEF Shorter

(* What such a step must do to leave all as the invariant has it. *)
LEMMA ShorterFaithfully ==
  ASSUME TypeOK, Port, Faithful, Checking, Shorter,
         tty = <<>> => \/ UNCHANGED <<tty, rover>>
                       \/ line[1].do \in {"set", "reset"} /\ UNCHANGED tty
                       \/ /\ Len(line) = 1 => line' = <<>>
                          /\ line[1].do = "poll" /\ UNCHANGED rover
                          /\ \A i \in 1 .. Len(tty') : tty'[i].key = line[1].key
                               /\ (tty'[i].set <=> line[1].key \in rover.ram)
                       \/ line[1].do = "version" /\ UNCHANGED rover
  PROVE  Faithful'
<1>1. /\ job.program \in Checked /\ B \in {0, 2, 3} /\ B' = B /\ step.at \in 1 .. 8 /\ calm
      /\ UNCHANGED <<job, step, notes, result, base>> /\ Now' = Now
  BY PlaceIs DEF Checking, B, Shorter, Now
<1>2. /\ line[1] \in Requested
      /\ Len(line) \in Nat /\ Len(line) >= 1 /\ Len(line') \in 0 .. Len(line) - 1
      /\ \A i \in 1 .. Len(line') : line'[i] = line[i + 1]
      /\ line' # <<>> => line' = Tail(line) /\ Len(line') = Len(line) - 1 /\ Len(line) >= 2
      /\ line # <<>> /\ (Len(line') = 0 => line' = <<>>)
  BY Taken DEF Shorter
<1>3. CASE ~Running
  <2>1. result # "ok" /\ (result = "failed" => job.program = "full") /\ job.program # "monitor"
    BY <1>1, <1>2, <1>3 DEF Faithful, Verdict, Running
  <2>2. QED BY <1>1, <1>3, <2>1 DEF Faithful, Verdict, FailureIsTrue, Running
<1>4. CASE Running /\ (step.at <= B \/ (step.at = B + 1 /\ ~step.waiting))
  <2>1. OnlyWrites(Len(line)) /\ B # 0
    BY <1>1, <1>2, <1>4 DEF Faithful, Writing
  <2>2. \A i \in 1 .. Len(line') : i + 1 \in 1 .. Len(line)
    BY <1>2
  <2>3. OnlyWrites(Len(line))'
    BY <1>2, <2>1, <2>2 DEF OnlyWrites
  <2>4. Writing' /\ Asking' /\ Polling' /\ Polled'
    BY <1>1, <1>4, <2>1, <2>3 DEF Writing, Asking, Polling, Polled
  <2>5. Verdict'
    <3>1. job.program # "monitor"
      BY <2>1 DEF B, Before
    <3>2. QED BY <1>1, <1>4, <3>1, StillRunning DEF Running
  <2>6. QED BY <2>4, <2>5 DEF Faithful
<1>5. CASE Running /\ step.at = B + 1 /\ step.waiting
  <2>1. tty = <<>> /\ OnlyWrites(Len(line) - 1)
    BY <1>1, <1>2, <1>5 DEF Faithful, Asking
  <2>2. Asking'
    <3> SUFFICES ASSUME line' # <<>> PROVE Asking'
      BY DEF Asking
    <3>1. Len(line') = Len(line) - 1 /\ 1 \in 1 .. Len(line) - 1
      BY <1>2
    <3>2. line[1].do \in {"set", "reset"}
      BY <2>1, <3>1 DEF OnlyWrites
    <3>3. tty' = <<>>
      BY <2>1, <3>2
    <3>4. \A i \in 1 .. Len(line') - 1 : i \in 1 .. Len(line') /\ i + 1 \in 1 .. Len(line) - 1
      BY <1>2, <3>1
    <3>5. OnlyWrites(Len(line) - 1)'
      BY <1>2, <2>1, <3>4 DEF OnlyWrites
    <3>6. QED BY <3>3, <3>5 DEF Asking
  <2>3. Writing' /\ Polling' /\ Polled'
    BY <1>1, <1>5 DEF Writing, Polling, Polled
  <2>4. Verdict'
    BY <1>1, <1>5, StillRunning DEF Running, Start
  <2>5. QED BY <2>2, <2>3, <2>4 DEF Faithful
<1>6. CASE Running /\ step.at >= B + 2
  <2>1. /\ step.waiting /\ Len(line) = 1 /\ tty = <<>> /\ notes.alive /\ step.at < B + 4
        /\ line[1].do = "poll" /\ line[1].key = Now.key
    BY <1>1, <1>2, <1>6 DEF Faithful, Checking, Polling
  <2>2. line' = <<>>
    BY <1>2, <2>1
  <2>3. /\ UNCHANGED rover
        /\ \A i \in 1 .. Len(tty') : tty'[i].key = Now.key /\ (tty'[i].set <=> Now.key \in rover.ram)
    BY <2>1, NothingThere
  <2>4. Polling'
    BY <1>1, <1>6, <2>1, <2>2, <2>3 DEF Polling
  <2>5. Polled'
    BY <1>1, <1>6, <2>3 DEF Faithful, Checking, Polled, Known
  <2>6. Writing' /\ Asking'
    BY <1>1, <1>6 DEF Writing, Asking
  <2>7. Verdict'
    BY <1>1, <1>6, <2>1, StillRunning DEF Running, Start
  <2>8. QED BY <2>4, <2>5, <2>6, <2>7 DEF Faithful
<1>7. QED BY <1>1, <1>3, <1>4, <1>5, <1>6

LEMMA ReceivesFaithfully ==
  ASSUME TypeOK, Port, Faithful, Checking, Receive \/ Lose
  PROVE  Faithful'
<1>1. /\ line # <<>> /\ UNCHANGED <<job, step, notes, result, base, calm>>
      /\ Carry(Head(line)) \/ (line' = Tail(line) /\ UNCHANGED <<tty, rover>>)
  BY DEF Receive, Lose, toolVars
<1>2. /\ Head(line) = line[1] /\ Head(line).do \in {"set", "reset", "version", "poll"}
      /\ Head(line).key \in Key
      /\ line \in Seq(Requested) /\ Len(Tail(line)) = Len(line) - 1 /\ Tail(line) \in Seq(Requested)
  <2>1. line \in Seq(Requested) /\ line # <<>>
    BY <1>1 DEF Port
  <2>2. /\ Head(line) = line[1] /\ Head(line) \in Requested
        /\ Len(Tail(line)) = Len(line) - 1 /\ Tail(line) \in Seq(Requested)
    BY <2>1, Beheaded
  <2>3. QED BY <2>1, <2>2 DEF Requested
<1> DEFINE r == Head(line)
<1> HIDE DEF r
<1>3. CASE line' = Tail(line) /\ UNCHANGED <<tty, rover>>
  BY <1>1, <1>3, ShorterFaithfully DEF Shorter
<1>4. CASE Carry(r) /\ r.do \in {"set", "reset"}
  <2>1. line' \in {Tail(line), <<>>} /\ UNCHANGED tty
    BY <1>4 DEF Carry
  <2>2. line[1].do \in {"set", "reset"}
    BY <1>2, <1>4 DEF r
  <2>3. QED BY <1>1, <2>1, <2>2, ShorterFaithfully DEF Shorter
<1>5. CASE Carry(r) /\ r.do = "version"
  <2>1. line' = Tail(line) /\ UNCHANGED rover
    BY <1>5 DEF Carry
  <2>2. line[1].do = "version"
    BY <1>2, <1>5 DEF r
  <2>3. QED BY <1>1, <2>1, <2>2, ShorterFaithfully DEF Shorter
<1>6. CASE Carry(r) /\ r.do = "poll"
  <2> DEFINE a == [kind |-> r.do, key |-> r.key, set |-> r.key \in rover.ram]
  <2>1. line' = Tail(line) /\ UNCHANGED rover /\ tty' = Append(tty, a)
    BY <1>6 DEF Carry
  <2>2. a \in Answer /\ a.key = r.key /\ (a.set <=> r.key \in rover.ram)
    <3>1. r.key \in Key
      BY <1>2 DEF r
    <3>2. a \in Answer
      BY <1>6, <3>1 DEF Answer
    <3>3. a.key = r.key
      OBVIOUS
    <3>4. a.set = (r.key \in rover.ram)
      OBVIOUS
    <3>5. QED BY <3>2, <3>3, <3>4
  <2> HIDE DEF a
  <2>3. line[1].do = "poll" /\ line[1].key = r.key
    BY <1>2, <1>6 DEF r
  <2>4. Len(line) = 1 => line' = <<>>
    <3>1. Len(line) = 1 => Len(Tail(line)) = 0
      BY <1>2
    <3>2. QED BY <1>2, <2>1, <3>1, EmptySeq
  <2>5. tty = <<>> => \A i \in 1 .. Len(tty') : tty'[i] = a
    <3> SUFFICES ASSUME tty = <<>> PROVE \A i \in 1 .. Len(tty') : tty'[i] = a
      OBVIOUS
    <3>1. Len(tty) = 0 /\ tty \in Seq(Answer)
      BY NothingThere DEF Port
    <3>2. Len(tty') = Len(tty) + 1 /\ tty'[Len(tty) + 1] = a
      BY <2>1, <2>2, <3>1, AppendProperties
    <3>3. Len(tty') = 1 /\ tty'[1] = a /\ \A i \in 1 .. 1 : i = 1
      BY <3>1, <3>2
    <3>4. QED BY <3>3
  <2>6. QED BY <1>1, <2>1, <2>2, <2>3, <2>4, <2>5, ShorterFaithfully DEF Shorter
<1>7. QED BY <1>1, <1>2, <1>3, <1>4, <1>5, <1>6 DEF r

LEMMA FaithfulKept ==
  ASSUME TypeOK, Port, Recorded, Faithful, [Next]_vars
  PROVE  Faithful'
<1> SUFFICES ASSUME job'.program \in Checked, calm'
             PROVE  Faithful'
  BY DEF Faithful
<1>1. job' = job
  BY DEF Next, Tool, WriteStage, WriteFails, OpenFails, Reset, AskVersion, Poll,
     HearVersion, Hear, NoVersion, NoAnswer, PollRaises, PositionFails, WaitForFix, Chain, GiveUp,
     Report, Diff, ResetBaseline, OpenPort, HearFix, IgnoreFix, FixTimeout, Receive, Lose, Boot, PowerCycle,
     Navigate, FixChanges, vars, toolVars
<1>2. ~(OpenFails \/ NoVersion \/ NoAnswer \/ PollRaises \/ PowerCycle)
  BY DEF OpenFails, NoVersion, NoAnswer, PollRaises, PowerCycle
<1>3. ~(PositionFails \/ WaitForFix \/ OpenPort \/ HearFix \/ IgnoreFix \/ FixTimeout \/ Navigate
        \/ FixChanges)
  <2>1. job.program # "ichimill" /\ job.program \notin FixMonitors
    BY <1>1 DEF Checked, FixMonitors
  <2>2. ~Ended => Now.do \notin {"fix", "await"}
    BY <1>1, PlaceIs
  <2>3. QED BY <2>1, <2>2 DEF PositionFails, WaitForFix, OpenPort, HearFix, IgnoreFix, FixTimeout, Navigate,
               FixChanges, At
<1>4. CASE AskVersion
  BY <1>1, <1>4, AsksFaithfully
<1>5. CASE ~AskVersion
  <2>1. Checking
    BY <1>1, <1>2, <1>3, <1>5 DEF Checking, Next, Tool, WriteStage, WriteFails, Reset, Poll,
       HearVersion, Hear, Chain, GiveUp, Report, Diff, ResetBaseline, Receive, Lose, Boot, vars
  <2>2. CASE GiveUp
    BY <2>1, <2>2 DEF GiveUp, Faithful, Checking, Running, Verdict, FailureIsTrue
  <2>3. CASE Boot \/ UNCHANGED vars
    <3>1. rover'.ram = rover.ram /\ UNCHANGED <<toolVars, line, tty, calm>>
      BY <2>3 DEF Boot, vars, toolVars, TypeOK
    <3>2. UNCHANGED <<Running, B, Now, Vouched>>
      BY <3>1 DEF toolVars, Running, B, Now, Vouched
    <3>3. Running => Writing /\ Asking /\ Polling /\ Polled
      BY <2>1 DEF Faithful, Checking
    <3>4. Verdict
      BY <2>1 DEF Faithful, Checking
    <3>5. Writing /\ Asking => Writing' /\ Asking'
      BY <3>1, <3>2 DEF Writing, Asking, OnlyWrites, toolVars
    <3>6. Polling /\ Polled => Polling' /\ Polled'
      BY <3>1, <3>2 DEF Polling, Polled, Known, toolVars
    <3>7. Verdict'
      BY <3>1, <3>2, <3>4 DEF Verdict, MonitorTellsTruth, FailureIsTrue, toolVars
    <3>8. QED BY <3>2, <3>3, <3>5, <3>6, <3>7 DEF Faithful
  <2>4. QED BY <1>2, <1>3, <1>5, <2>1, <2>2, <2>3, WritesFaithfully, HearsVersionFaithfully,
               PollsFaithfully, HearsFaithfully, ChainsFaithfully, ReportsFaithfully,
               MonitorsFaithfully, ReceivesFaithfully DEF Next, Tool
<1>6. QED BY <1>4, <1>5

-----------------------------------------------------------------------------
(* The programs that write. *)

Configuring == job.program \in Writes

LEMMA PlacesAre == \A k \in Key : Place(k) \in {1, 2}
BY DEF Place

(* A step that leaves the line and the receiver alone, after all was written. *)
LEMMA WriterHolds ==
  ASSUME Asked, Configuring, UNCHANGED <<job, line, rover>>,
         step.at \in 3 .. 8, step'.at \in 3 .. 8,
         calm' => calm, heeded' => heeded, notes'.wrote => notes.wrote
  PROVE  Asked'
<1>1. /\ \A i \in 1 .. Len(line') : line'[i].do = "reset" => job'.reset /\ step'.at >= 3
      /\ step'.at >= 3
  BY DEF Asked, Configuring
<1>2. ASSUME calm', heeded', notes'.wrote, job'.flash \/ ~job'.reset, NEW k \in Key
      PROVE  Carried(k)' \/ OnItsWay(k)'
  <2>1. step.at > Place(k)
    BY PlacesAre
  <2>2. Carried(k) \/ OnItsWay(k)
    BY <1>2, <2>1 DEF Asked, Configuring
  <2>3. (Carried(k) <=> Carried(k)') /\ (OnItsWay(k) <=> OnItsWay(k)')
    BY DEF Carried, OnItsWay
  <2>4. QED BY <2>2, <2>3
<1>3. QED BY <1>1, <1>2 DEF Asked

(* What is on its way stays so when another request follows it. *)
LEMMA FollowedUp ==
  ASSUME TypeOK, Port, NEW r \in Requested, Send(r), UNCHANGED job, NEW k \in Key, OnItsWay(k)
  PROVE  OnItsWay(k)'
<1>1. /\ Len(line) \in Nat /\ Len(line') = Len(line) + 1
      /\ \A i \in 1 .. Len(line) : line'[i] = line[i]
  BY Sends
<1>2. PICK j \in 1 .. Len(line) :
        /\ line[j].do = "set" /\ line[j].key = k /\ line[j].flash = job.flash
        /\ \A i \in 1 .. j : line[i].do # "reset"
  BY DEF OnItsWay
<1>3. j \in 1 .. Len(line') /\ \A i \in 1 .. j : i \in 1 .. Len(line)
  BY <1>1, <1>2
<1>4. QED BY <1>1, <1>2, <1>3 DEF OnItsWay

LEMMA WriterSends ==
  ASSUME TypeOK, Port, Asked, Configuring, NEW r \in Requested, Send(r),
         UNCHANGED <<job, notes, result, rover, heeded>>,
         step.at \in 3 .. 8, step'.at \in 3 .. 8, calm' => calm,
         r.do = "reset" => job.reset
  PROVE  Asked'
<1>1. \A i \in 1 .. Len(line') : line'[i].do = "reset" => job'.reset /\ step'.at >= 3
  <2> SUFFICES ASSUME NEW i \in 1 .. Len(line'), line'[i].do = "reset" PROVE job.reset
    OBVIOUS
  <2>1. /\ Len(line) \in Nat /\ Len(line') = Len(line) + 1
        /\ \A n \in 1 .. Len(line) : line'[n] = line[n]
        /\ line'[Len(line) + 1] = r
    BY Sends
  <2>2. CASE i \in 1 .. Len(line)
    BY <2>1, <2>2 DEF Asked, Configuring
  <2>3. CASE i = Len(line) + 1
    BY <2>1, <2>3
  <2>4. QED BY <2>1, <2>2, <2>3
<1>2. ASSUME calm', heeded', notes'.wrote, job'.flash \/ ~job'.reset, NEW k \in Key
      PROVE  Carried(k)' \/ OnItsWay(k)'
  <2>1. step.at > Place(k)
    BY PlacesAre
  <2>2. Carried(k) \/ OnItsWay(k)
    BY <1>2, <2>1 DEF Asked, Configuring
  <2>3. Carried(k) <=> Carried(k)'
    BY DEF Carried
  <2>4. QED BY <2>2, <2>3, FollowedUp
<1>3. QED BY <1>1, <1>2 DEF Asked

LEMMA WriterWrites ==
  ASSUME TypeOK, Port, Asked, Configuring, WriteStage
  PROVE  Asked'
<1> DEFINE r == [Request("set") EXCEPT !.flash = job.flash]
<1>1. /\ ~Ended /\ Now.do = "set" /\ Send(r) /\ Advance /\ Running
      /\ UNCHANGED <<job, notes, result, rover, calm, heeded>>
  BY DEF WriteStage, At
<1>2. r \in Requested /\ r.do = "set" /\ r.key = Now.key /\ r.flash = job.flash
  BY <1>1, RequestIs DEF Request
<1> HIDE DEF r
<1>3. /\ step.at = Place(Now.key) /\ step.at \in 1 .. 2 /\ step'.at = step.at + 1
      /\ Now.key \in Key
  BY <1>1, WriterIs, Advances, Exchanging, PlacesAre DEF Configuring
<1>4. /\ Len(line) \in Nat /\ Len(line') = Len(line) + 1
      /\ \A i \in 1 .. Len(line) : line'[i] = line[i]
      /\ line'[Len(line) + 1] = r
  BY <1>1, <1>2, Sends
<1>5. \A i \in 1 .. Len(line) : line[i].do # "reset"
  BY <1>3 DEF Asked, Configuring
<1>6. \A i \in 1 .. Len(line') : line'[i].do # "reset"
  <2> SUFFICES ASSUME NEW i \in 1 .. Len(line') PROVE line'[i].do # "reset"
    OBVIOUS
  <2>1. CASE i \in 1 .. Len(line)
    BY <1>4, <1>5, <2>1
  <2>2. CASE i = Len(line) + 1
    BY <1>2, <1>4, <2>2
  <2>3. QED BY <1>4, <2>1, <2>2
<1>7. ASSUME NEW k \in Key, k = Now.key PROVE OnItsWay(k)'
  <2>1. Len(line') \in 1 .. Len(line') /\ line'[Len(line')] = r
        /\ \A i \in 1 .. Len(line') : line'[i].do # "reset"
    BY <1>4, <1>6
  <2>2. \E j \in 1 .. Len(line') :
          /\ line'[j].do = "set" /\ line'[j].key = k /\ line'[j].flash = job'.flash
          /\ \A i \in 1 .. j : line'[i].do # "reset"
    BY <1>1, <1>2, <1>7, <2>1
  <2>3. QED BY <2>2 DEF OnItsWay
<1>8. ASSUME calm', heeded', notes'.wrote, job'.flash \/ ~job'.reset, NEW k \in Key,
             step'.at > Place(k)
      PROVE  Carried(k)' \/ OnItsWay(k)'
  <2>1. CASE k = Now.key
    BY <1>7, <2>1
  <2>2. CASE k # Now.key
    <3>1. step.at > Place(k)
      <4>1. Place(k) # Place(Now.key)
        BY <1>3, <2>2 DEF Place, Key
      <4>2. QED BY <1>3, <1>8, <4>1, PlacesAre
    <3>2. Carried(k) \/ OnItsWay(k)
      BY <1>1, <1>8, <3>1 DEF Asked, Configuring
    <3>3. Carried(k) <=> Carried(k)'
      BY <1>1 DEF Carried
    <3>4. OnItsWay(k) => OnItsWay(k)'
      BY <1>1, <1>2, FollowedUp
    <3>5. QED BY <3>2, <3>3, <3>4
  <2>3. QED BY <2>1, <2>2
<1>9. QED BY <1>1, <1>6, <1>8 DEF Asked, Running

LEMMA WritesArrive ==
  ASSUME TypeOK, Port, Asked, Configuring, Receive
  PROVE  Asked'
<1> DEFINE r == Head(line)
<1>1. /\ line # <<>> /\ Carry(r) /\ UNCHANGED <<job, step, notes, result, calm, heeded>>
  BY DEF Receive, toolVars
<1>2. /\ r = line[1] /\ r \in Requested /\ Len(line) \in Nat /\ Len(line) >= 1
      /\ Len(Tail(line)) = Len(line) - 1
      /\ \A i \in 1 .. Len(line) - 1 : Tail(line)[i] = line[i + 1]
  <2>1. line \in Seq(Requested) /\ line # <<>>
    BY <1>1 DEF Port
  <2>2. QED BY <2>1, Beheaded, LenProperties
<1> HIDE DEF r
<1>3. r.do \in {"set", "reset", "version", "poll"} /\ r.key \in Key
  BY <1>2 DEF Requested
<1>4. rover \in [ram : SUBSET Key, stored : SUBSET Key, up : BOOLEAN]
  BY DEF TypeOK
<1>5. line' \in {Tail(line), <<>>}
  BY <1>1, <1>3 DEF Carry
<1>6. \A i \in 1 .. Len(line') : line'[i].do = "reset" => job'.reset /\ step'.at >= 3
  <2>1. \A i \in 1 .. Len(line) : line[i].do = "reset" => job.reset /\ step.at >= 3
    BY DEF Asked, Configuring
  <2>2. CASE line' = Tail(line)
    <3>1. \A i \in 1 .. Len(line) - 1 : i + 1 \in 1 .. Len(line)
      BY <1>2
    <3>2. QED BY <1>1, <1>2, <2>1, <2>2, <3>1
  <2>3. CASE line' = <<>>
    BY <2>3, NothingThere
  <2>4. QED BY <1>5, <2>2, <2>3
<1>7. result' \in {"ok", "failed"} /\ calm' => step'.at >= 3
  BY <1>1 DEF Asked, Configuring
<1>8. ASSUME calm', heeded', notes'.wrote, job'.flash \/ ~job'.reset, NEW k \in Key,
             step'.at > Place(k)
      PROVE  Carried(k)' \/ OnItsWay(k)'
  <2>1. Carried(k) \/ OnItsWay(k)
    BY <1>1, <1>8 DEF Asked, Configuring
  <2>2. CASE r.do = "reset"
    <3>1. rover' = [rover EXCEPT !.ram = rover.stored, !.up = FALSE]
      BY <1>1, <2>2 DEF Carry
    <3>2. job.flash /\ job' = job
      <4>1. 1 \in 1 .. Len(line) /\ line[1].do = "reset"
        BY <1>2, <2>2
      <4>2. QED BY <1>1, <1>8, <4>1 DEF Asked, Configuring
    <3>3. ~OnItsWay(k)
      <4>1. \A j \in 1 .. Len(line) : 1 \in 1 .. j
        OBVIOUS
      <4>2. QED BY <1>2, <2>2, <4>1 DEF OnItsWay
    <3>4. rover'.ram = rover.stored /\ rover'.stored = rover.stored
      BY <1>4, <3>1
    <3>5. QED BY <2>1, <3>2, <3>3, <3>4 DEF Carried
  <2>3. CASE r.do # "reset"
    <3>1. /\ line' = Tail(line)
          /\ rover.ram \subseteq rover'.ram /\ rover.stored \subseteq rover'.stored
          /\ r.do = "set" => r.key \in rover'.ram /\ (r.flash => r.key \in rover'.stored)
      <4>1. CASE r.do = "set"
        <5>1. /\ rover' = [rover EXCEPT !.ram = @ \union {r.key},
                            !.stored = IF r.flash THEN @ \union {r.key} ELSE @]
              /\ line' = Tail(line)
          BY <1>1, <4>1 DEF Carry
        <5>2. /\ rover'.ram = rover.ram \union {r.key}
              /\ rover'.stored = IF r.flash THEN rover.stored \union {r.key} ELSE rover.stored
          BY <1>4, <5>1
        <5>3. QED BY <5>1, <5>2
      <4>2. CASE r.do \in {"version", "poll"}
        BY <1>1, <4>2 DEF Carry
      <4>3. QED BY <1>3, <2>3, <4>1, <4>2
    <3>2. CASE Carried(k)
      BY <1>1, <3>1, <3>2 DEF Carried
    <3>3. CASE OnItsWay(k)
      <4>1. PICK j \in 1 .. Len(line) :
              /\ line[j].do = "set" /\ line[j].key = k /\ line[j].flash = job.flash
              /\ \A i \in 1 .. j : line[i].do # "reset"
        BY <3>3 DEF OnItsWay
      <4>2. CASE j = 1
        BY <1>1, <1>2, <3>1, <4>1, <4>2 DEF Carried
      <4>3. CASE j # 1
        <5>1. j - 1 \in 1 .. Len(line') /\ (j - 1) + 1 = j /\ Len(line') = Len(line) - 1
          BY <1>2, <3>1, <4>1, <4>3
        <5>2. line'[j - 1] = line[j]
          BY <1>2, <3>1, <5>1
        <5>3. \A i \in 1 .. j - 1 : line'[i].do # "reset"
          <6> SUFFICES ASSUME NEW i \in 1 .. j - 1 PROVE line'[i].do # "reset"
            OBVIOUS
          <6>1. i \in 1 .. Len(line) - 1 /\ i + 1 \in 1 .. j
            BY <1>2, <4>1
          <6>2. line'[i] = line[i + 1]
            BY <1>2, <3>1, <6>1
          <6>3. QED BY <4>1, <6>1, <6>2
        <5>4. QED BY <1>1, <4>1, <5>1, <5>2, <5>3 DEF OnItsWay
      <4>4. QED BY <4>2, <4>3
    <3>4. QED BY <2>1, <3>2, <3>3
  <2>4. QED BY <2>2, <2>3
<1>9. QED BY <1>6, <1>7, <1>8 DEF Asked

LEMMA AskedKept ==
  ASSUME TypeOK, Port, Asked, [Next]_vars
  PROVE  Asked'
<1> SUFFICES ASSUME job'.program \in Writes
             PROVE  Asked'
  BY DEF Asked
<1>1. job' = job
  BY DEF Next, Tool, WriteStage, WriteFails, OpenFails, Reset, AskVersion, Poll,
     HearVersion, Hear, NoVersion, NoAnswer, PollRaises, PositionFails, WaitForFix, Chain, GiveUp,
     Report, Diff, ResetBaseline, OpenPort, HearFix, IgnoreFix, FixTimeout, Receive, Lose, Boot, PowerCycle,
     Navigate, FixChanges, vars, toolVars
<1>2. /\ Configuring /\ step.at \in 1 .. 8
      /\ job.program \notin {"ichimill", "monitor"} \union FixMonitors
      /\ ~Ended => Now.do \notin {"fix", "await"}
  BY <1>1, WriterIs DEF Configuring, Writes, Configurators, FixMonitors, TypeOK
<1>3. ~(PositionFails \/ WaitForFix \/ OpenPort \/ HearFix \/ IgnoreFix \/ FixTimeout \/ Navigate
        \/ FixChanges \/ Diff \/ ResetBaseline)
  BY <1>2 DEF PositionFails, WaitForFix, OpenPort, HearFix, IgnoreFix, FixTimeout, Navigate,
     FixChanges, Diff, ResetBaseline, At
<1>4. ~Ended /\ Now.do # "set" => step.at \in 3 .. 8
  BY <1>2, WriterIs DEF Configuring
<1>5. ~Ended /\ Now.do # "set" /\ Advance => step'.at \in 3 .. 8
  BY <1>4, Advances
<1>6. Skip => step'.at \in 3 .. 8
  <2>1. job.program \in Programs
    BY DEF TypeOK, Jobs
  <2>2. Len(Script(job.program)) \in 2 .. 7
    <3>1. CASE job.program = "write"
      BY <2>1, <3>1, ScriptIs
    <3>2. CASE job.program \in Checked
      BY <2>1, <3>2, ScriptIs DEF Checked, Before, Configurators
    <3>3. QED BY <1>2, <3>1, <3>2 DEF Configuring, Writes, Checked, Configurators
  <2> DEFINE n == Len(Script(job.program))
  <2>3. Skip => step'.at = n + 1
    BY Skips
  <2>4. n \in 2 .. 7
    BY <2>2
  <2> HIDE DEF n
  <2>5. QED BY <2>3, <2>4
<1>7. CASE WriteStage
  BY <1>2, <1>7, WriterWrites
<1>8. CASE WriteFails
  <2>1. /\ ~Ended /\ Now.do = "set" /\ Running /\ Advance /\ ~notes'.wrote
        /\ UNCHANGED <<result, line>>
    BY <1>8 DEF WriteFails, At, TypeOK
  <2>2. step'.at = step.at + 1
    BY <2>1, Advances
  <2>3. \A i \in 1 .. Len(line) : line[i].do = "reset" => job.reset /\ step.at >= 3
    BY <1>2 DEF Asked, Configuring
  <2>4. QED BY <1>1, <1>2, <2>1, <2>2, <2>3 DEF Asked, Running
<1>9. CASE OpenFails
  BY <1>1, <1>2, <1>9 DEF OpenFails, Asked, Configuring
<1>10. CASE Reset
  <2>1. /\ ~Ended /\ Now.do = "reset" /\ Advance
        /\ UNCHANGED <<notes, result, rover, calm, heeded>>
        /\ (WantsReset /\ Send(Request("reset"))) \/ UNCHANGED line
    BY <1>10 DEF Reset, At
  <2>2. Request("reset") \in Requested
    BY <2>1, RequestIs
  <2>3. CASE WantsReset /\ Send(Request("reset"))
    BY <1>1, <1>2, <1>4, <1>5, <2>1, <2>2, <2>3, WriterSends DEF WantsReset
  <2>4. CASE UNCHANGED line
    BY <1>1, <1>2, <1>4, <1>5, <2>1, <2>4, WriterHolds
  <2>5. QED BY <2>1, <2>3, <2>4
<1>11. CASE AskVersion
  <2>1. /\ ~Ended /\ Now.do = "alive" /\ Send(Request("version"))
        /\ step' = [step EXCEPT !.waiting = TRUE]
        /\ calm' = IF step.at = 1 THEN line = <<>> ELSE calm
        /\ UNCHANGED <<notes, result, rover, heeded>>
    BY <1>11 DEF AskVersion, At
  <2>2. step'.at = step.at /\ step.at \in 3 .. 8
    BY <1>4, <2>1 DEF TypeOK
  <2>3. calm' = calm
    BY <2>1, <2>2
  <2>4. Request("version") \in Requested /\ Request("version").do # "reset"
    BY <2>1, RequestIs DEF Request
  <2>5. QED BY <1>1, <1>2, <2>1, <2>2, <2>3, <2>4, WriterSends
<1>12. CASE Poll
  <2>1. /\ ~Ended /\ Now.do = "poll" /\ Send(Request("poll"))
        /\ step' = [step EXCEPT !.waiting = TRUE, !.tries = @ + 1]
        /\ UNCHANGED <<notes, result, rover, calm, heeded>>
    BY <1>12 DEF Poll, At
  <2>2. step'.at = step.at /\ step.at \in 3 .. 8
    BY <1>4, <2>1 DEF TypeOK
  <2>3. Request("poll") \in Requested /\ Request("poll").do # "reset"
    BY <2>1, RequestIs DEF Request
  <2>4. QED BY <1>1, <1>2, <2>1, <2>2, <2>3, WriterSends
<1>13. CASE HearVersion \/ Hear \/ NoVersion \/ NoAnswer \/ PollRaises
  <2>1. /\ ~Ended /\ Now.do # "set" /\ UNCHANGED <<line, rover, heeded>> /\ (calm' => calm)
        /\ Advance \/ Skip \/ step' = [step EXCEPT !.waiting = FALSE]
    BY <1>13 DEF HearVersion, Hear, NoVersion, NoAnswer, PollRaises, At
  <2>2. notes'.wrote => notes.wrote
    BY <1>13 DEF HearVersion, Hear, NoVersion, NoAnswer, PollRaises, Warned, TypeOK
  <2>3. step'.at \in 3 .. 8
    BY <1>4, <1>5, <1>6, <2>1 DEF TypeOK
  <2>4. QED BY <1>1, <1>2, <1>4, <2>1, <2>2, <2>3, WriterHolds
<1>14. CASE Chain \/ GiveUp \/ Report
  <2>1. /\ UNCHANGED <<notes, line, rover, calm, heeded>>
        /\ Ended \/ Now.do # "set"
        /\ UNCHANGED step \/ (Advance /\ ~Ended)
    BY <1>14 DEF Chain, GiveUp, Report, At
  <2>2. step.at \in 3 .. 8
    BY <1>2, <1>4, <2>1, WriterIs DEF Configuring
  <2>3. step'.at \in 3 .. 8
    <3>1. CASE UNCHANGED step
      BY <2>2, <3>1
    <3>2. CASE Advance /\ ~Ended
      BY <2>2, <3>2, Advances
    <3>3. QED BY <2>1, <3>1, <3>2
  <2>4. QED BY <1>1, <1>2, <2>1, <2>2, <2>3, WriterHolds
<1>15. CASE Receive
  BY <1>2, <1>15, WritesArrive
<1>16. CASE Lose
  <2>1. /\ line # <<>> /\ line' = Tail(line) /\ ~heeded' /\ UNCHANGED <<step, result, calm>>
    BY <1>16 DEF Lose, toolVars
  <2>2. /\ Len(line') = Len(line) - 1 /\ Len(line) \in Nat
        /\ \A i \in 1 .. Len(line) - 1 : line'[i] = line[i + 1]
    <3>1. line \in Seq(Requested)
      BY DEF Port
    <3>2. QED BY <2>1, <3>1, Beheaded, LenProperties
  <2>3. \A i \in 1 .. Len(line') : i \in 1 .. Len(line) - 1 /\ i + 1 \in 1 .. Len(line)
    BY <2>2
  <2>4. /\ \A i \in 1 .. Len(line) : line[i].do = "reset" => job.reset /\ step.at >= 3
        /\ result \in {"ok", "failed"} /\ calm => step.at >= 3
    BY <1>2 DEF Asked, Configuring
  <2>5. QED BY <1>1, <2>1, <2>2, <2>3, <2>4 DEF Asked
<1>17. CASE PowerCycle
  BY <1>1, <1>17, NothingThere DEF PowerCycle, Asked
<1>18. CASE Boot \/ UNCHANGED vars
  <2>1. /\ rover'.ram = rover.ram /\ rover'.stored = rover.stored
        /\ UNCHANGED <<step, notes, result, line, calm, heeded>>
    BY <1>18 DEF Boot, vars, toolVars, TypeOK
  <2>2. \A k \in Key : Carried(k)' = Carried(k) /\ OnItsWay(k)' = OnItsWay(k)
    BY <1>1, <2>1 DEF Carried, OnItsWay
  <2>3. QED BY <1>1, <2>1, <2>2 DEF Asked
<1>19. QED BY <1>3, <1>7, <1>8, <1>9, <1>10, <1>11, <1>12, <1>13, <1>14, <1>15, <1>16, <1>17, <1>18
           DEF Next, Tool

-----------------------------------------------------------------------------
(* The rest. *)

LEMMA OthersKept ==
  ASSUME TypeOK, Others, [Next]_vars
  PROVE  Others'
<1>1. job' = job /\ job.program \in Programs
  BY DEF Next, Tool, WriteStage, WriteFails, OpenFails, Reset, AskVersion, Poll,
     HearVersion, Hear, NoVersion, NoAnswer, PollRaises, PositionFails, WaitForFix, Chain, GiveUp,
     Report, Diff, ResetBaseline, OpenPort, HearFix, IgnoreFix, FixTimeout, Receive, Lose, Boot, PowerCycle,
     Navigate, FixChanges, vars, toolVars, TypeOK, Jobs
<1>2. job.program # "monitor" => base' = base
  BY DEF Next, Tool, WriteStage, WriteFails, OpenFails, Reset, AskVersion, Poll,
     HearVersion, Hear, NoVersion, NoAnswer, PollRaises, PositionFails, WaitForFix, Chain, GiveUp,
     Report, Diff, ResetBaseline, OpenPort, HearFix, IgnoreFix, FixTimeout, Receive, Lose, Boot, PowerCycle,
     Navigate, FixChanges, vars, toolVars
<1>3. job.program = "ichimill" => ~Ended /\ (Now.do = "set" => step.at <= 2) /\ Now.do \in {"set", "fix"}
  <2> SUFFICES ASSUME job.program = "ichimill"
               PROVE  ~Ended /\ (Now.do = "set" => step.at <= 2) /\ Now.do \in {"set", "fix"}
    OBVIOUS
  <2>1. step.at \in {1, 2, 3}
    BY DEF Others, TypeOK
  <2>2. /\ Len(Script(job.program)) = 3 /\ Script(job.program)[3] = Do("fix", First)
        /\ Script(job.program)[1] = Do("set", First) /\ Script(job.program)[2] = Do("set", Second)
    BY <1>1, ScriptIs
  <2>3. QED BY <2>1, <2>2 DEF Ended, Now, Do
<1>4. job.program = "roverconfig" /\ ~Ended => Now.do \in {"set", "poll"}
  <2> SUFFICES ASSUME job.program = "roverconfig", ~Ended
               PROVE  Now.do \in {"set", "poll"}
    OBVIOUS
  <2>1. /\ Len(Script(job.program)) = 2
        /\ Script(job.program)[1] = Do("set", First) /\ Script(job.program)[2] = Do("poll", First)
    BY <1>1, ScriptIs
  <2>2. step.at \in 1 .. 2
    BY <2>1, Exchanging
  <2>3. step.at \in {1, 2}
    BY <2>2
  <2>4. QED BY <2>1, <2>3 DEF Now, Do
<1>5. job.program = "ichimill" => step'.at <= 3
  <2> SUFFICES ASSUME job.program = "ichimill" PROVE step'.at <= 3
    OBVIOUS
  <2>1. UNCHANGED step \/ (Now.do = "set" /\ ~Ended /\ Advance)
    BY <1>3 DEF Next, Tool, WriteStage, WriteFails, OpenFails, Reset, AskVersion, Poll,
       HearVersion, Hear, NoVersion, NoAnswer, PollRaises, PositionFails, WaitForFix, Chain, GiveUp,
       Report, Diff, ResetBaseline, OpenPort, HearFix, IgnoreFix, FixTimeout, Receive, Lose, Boot, PowerCycle,
       Navigate, FixChanges, vars, toolVars, At
  <2>2. QED BY <1>3, <2>1, Advances DEF Others, TypeOK
<1>6. job.program \in {"roverconfig", "ichimill"} => result' # "ok"
  <2> SUFFICES ASSUME job.program \in {"roverconfig", "ichimill"} PROVE result' # "ok"
    OBVIOUS
  <2>1. ~Ended => Now.do # "await"
    BY <1>3, <1>4
  <2>2. Report => result' # "ok"
    BY <1>3 DEF Report, Passed, Configurators, Verifiers
  <2>3. QED BY <2>1, <2>2 DEF Others, Next, Tool, WriteStage, WriteFails, OpenFails, Reset, AskVersion, Poll,
       HearVersion, Hear, NoVersion, NoAnswer, PollRaises, PositionFails, WaitForFix, Chain, GiveUp,
       Diff, ResetBaseline, OpenPort, HearFix, IgnoreFix, FixTimeout, Receive, Lose, Boot, PowerCycle,
       Navigate, FixChanges, vars, toolVars, At
<1>7. QED BY <1>1, <1>2, <1>5, <1>6 DEF Others

-----------------------------------------------------------------------------
(* Turning back. *)

(* Tries are counted in polls only, and there is one left whenever a request may
   be sent. *)
Rounds ==
  /\ step.tries > 0 => ~Ended /\ Now.do = "poll"
  /\ step.waiting => ~Ended /\ (Now.do = "poll" => step.tries > 0)
  /\ ~step.waiting /\ ~Ended => step.tries < Tries(job.program, Now.key)

LEMMA TriesAre == \A p, k : Tries(p, k) \in {1, 2, 3}
BY DEF Tries

LEMMA JobKept == [Next]_vars => job' = job
BY DEF Next, Tool, WriteStage, WriteFails, OpenFails, Reset, AskVersion, Poll,
   HearVersion, Hear, NoVersion, NoAnswer, PollRaises, PositionFails, WaitForFix, Chain, GiveUp,
   Report, Diff, ResetBaseline, OpenPort, HearFix, IgnoreFix, FixTimeout, Receive, Lose, Boot, PowerCycle,
   Navigate, FixChanges, vars, toolVars

(* How a step of a program moves it in its script. *)
Moves ==
  \/ UNCHANGED step
  \/ ~Ended /\ Advance
  \/ ~Ended /\ Skip
  \/ job.program = "monitor" /\ step' = Start
  \/ ~Ended /\ Now.do \in {"alive", "await"} /\ ~step.waiting
     /\ step' = [step EXCEPT !.waiting = TRUE]
  \/ ~Ended /\ Now.do = "poll" /\ ~step.waiting
     /\ step' = [step EXCEPT !.waiting = TRUE, !.tries = @ + 1]
  \/ ~Ended /\ Now.do = "poll" /\ step.waiting
     /\ step.tries < Tries(job.program, Now.key)
     /\ step' = [step EXCEPT !.waiting = FALSE]

LEMMA ToolMoves == [Next]_vars => Moves
<1> SUFFICES ASSUME [Next]_vars PROVE Moves
  OBVIOUS
<1>1. CASE UNCHANGED vars \/ Receive \/ Lose \/ Boot \/ PowerCycle \/ Navigate \/ FixChanges
  BY <1>1 DEF Receive, Lose, Boot, PowerCycle, Navigate, FixChanges, vars, toolVars, Moves
<1>2. CASE WriteStage \/ WriteFails \/ Reset \/ HearVersion \/ Hear
  BY <1>2 DEF WriteStage, WriteFails, Reset, HearVersion, Hear, At, Moves
<1>3. CASE PositionFails \/ WaitForFix \/ GiveUp \/ Report \/ HearFix \/ IgnoreFix \/ FixTimeout
  BY <1>3 DEF PositionFails, WaitForFix, GiveUp, Report, HearFix, IgnoreFix, FixTimeout, toolVars, Moves
<1>4. CASE OpenFails \/ Diff \/ ResetBaseline
  BY <1>4 DEF OpenFails, Diff, ResetBaseline, Moves
<1>5. CASE AskVersion \/ OpenPort
  BY <1>5 DEF AskVersion, OpenPort, At, Moves
<1>6. CASE Poll \/ NoAnswer
  BY <1>6 DEF Poll, NoAnswer, At, Moves
<1>7. CASE NoVersion \/ PollRaises \/ Chain
  BY <1>7 DEF NoVersion, PollRaises, Chain, At, Moves
<1>8. QED BY <1>1, <1>2, <1>3, <1>4, <1>5, <1>6, <1>7 DEF Next, Tool

LEMMA RoundsKept ==
  ASSUME TypeOK, Rounds, Moves, job' = job
  PROVE  Rounds'
<1>1. step \in [at : 1 .. 8, waiting : BOOLEAN, tries : 0 .. 3]
  BY DEF TypeOK
<1>2. ASSUME ~step'.waiting, step'.tries = 0 PROVE Rounds'
  BY <1>2, TriesAre DEF Rounds
<1>3. CASE UNCHANGED step
  BY <1>3 DEF Rounds, Ended, Now
<1>4. CASE (~Ended /\ Advance) \/ (~Ended /\ Skip) \/ step' = Start
  BY <1>2, <1>4, Advances, Skips, Starts
<1>5. CASE /\ ~Ended /\ Now.do \in {"alive", "await"} /\ ~step.waiting
           /\ step' = [step EXCEPT !.waiting = TRUE]
  <2>1. step'.at = step.at /\ step'.waiting /\ step'.tries = step.tries
    BY <1>1, <1>5
  <2>2. Now' = Now /\ (Ended' <=> Ended)
    BY <2>1 DEF Now, Ended
  <2>3. QED BY <1>5, <2>1, <2>2 DEF Rounds
<1>6. CASE /\ ~Ended /\ Now.do = "poll" /\ ~step.waiting
           /\ step' = [step EXCEPT !.waiting = TRUE, !.tries = @ + 1]
  <2>1. step'.at = step.at /\ step'.waiting /\ step'.tries = step.tries + 1
    BY <1>1, <1>6
  <2>2. Now' = Now /\ (Ended' <=> Ended)
    BY <2>1 DEF Now, Ended
  <2>3. QED BY <1>1, <1>6, <2>1, <2>2 DEF Rounds
<1>7. CASE /\ ~Ended /\ Now.do = "poll" /\ step.waiting
           /\ step.tries < Tries(job.program, Now.key)
           /\ step' = [step EXCEPT !.waiting = FALSE]
  <2>1. step'.at = step.at /\ ~step'.waiting /\ step'.tries = step.tries
    BY <1>1, <1>7
  <2>2. Now' = Now /\ (Ended' <=> Ended)
    BY <2>1 DEF Now, Ended
  <2>3. QED BY <1>7, <2>1, <2>2 DEF Rounds
<1>8. QED BY <1>3, <1>4, <1>5, <1>6, <1>7 DEF Moves

LEMMA AdvancesForward ==
  ASSUME TypeOK, ~Ended, Advance \/ Skip
  PROVE  Forward /\ step'.tries = 0
<1>1. step.at \in 1 .. 8 /\ Len(Script(job.program)) \in 1 .. 7
  BY ScriptIs DEF TypeOK, Jobs
<1>2. CASE Advance
  BY <1>1, <1>2, Advances DEF Forward
<1>3. CASE Skip
  BY <1>1, <1>3, Skips DEF Forward, Ended
<1>4. QED BY <1>2, <1>3

(* A move is one forward, or the monitor's to its next check. *)
LEMMA MovesForward ==
  ASSUME TypeOK, Rounds, Moves
  PROVE  /\ UNCHANGED step \/ Forward \/ (job.program = "monitor" /\ step' = Start)
         /\ step'.tries > step.tries => step.tries < Tries(job.program, Now.key)
<1>1. step \in [at : 1 .. 8, waiting : BOOLEAN, tries : 0 .. 3]
  BY DEF TypeOK
<1>2. ASSUME step'.tries = 0 PROVE ~(step'.tries > step.tries)
  BY <1>1, <1>2
<1>3. CASE UNCHANGED step
  BY <1>1, <1>3
<1>4. CASE ~Ended /\ (Advance \/ Skip)
  BY <1>2, <1>4, AdvancesForward
<1>5. CASE job.program = "monitor" /\ step' = Start
  BY <1>2, <1>5, Starts
<1>6. CASE /\ ~Ended /\ Now.do \in {"alive", "await"} /\ ~step.waiting
           /\ step' = [step EXCEPT !.waiting = TRUE]
  <2>1. step'.at = step.at /\ step'.waiting /\ step'.tries = 0 /\ step.tries = 0
    BY <1>1, <1>6 DEF Rounds
  <2>2. QED BY <1>6, <2>1 DEF Forward, Round
<1>7. CASE /\ ~Ended /\ Now.do = "poll" /\ ~step.waiting
           /\ step' = [step EXCEPT !.waiting = TRUE, !.tries = @ + 1]
  <2>1. step'.at = step.at /\ step'.waiting /\ step'.tries = step.tries + 1
    BY <1>1, <1>7
  <2>2. step.tries < Tries(job.program, Now.key)
    BY <1>7 DEF Rounds
  <2>3. QED BY <1>1, <1>7, <2>1, <2>2 DEF Forward, Round
<1>8. CASE /\ ~Ended /\ Now.do = "poll" /\ step.waiting
           /\ step.tries < Tries(job.program, Now.key)
           /\ step' = [step EXCEPT !.waiting = FALSE]
  <2>1. step'.at = step.at /\ ~step'.waiting /\ step'.tries = step.tries /\ step.tries > 0
    BY <1>1, <1>8 DEF Rounds
  <2>2. QED BY <1>1, <1>8, <2>1 DEF Forward, Round
<1>9. QED BY <1>3, <1>4, <1>5, <1>6, <1>7, <1>8 DEF Moves

(* Only a fix monitor waits for a fix in its own step. *)
LEMMA AwaitIs ==
  ASSUME TypeOK, ~Ended, Now.do = "await"
  PROVE  Watching
<1>1. job.program \in Programs /\ step.at \in 1 .. Len(Script(job.program))
  BY Exchanging DEF TypeOK, Jobs
<1>2. job.program \notin Writes \union Checked
  BY WriterIs, PlaceIs
<1>3. job.program # "ichimill"
  <2> SUFFICES ASSUME job.program = "ichimill" PROVE FALSE
    OBVIOUS
  <2>1. /\ Len(Script(job.program)) = 3 /\ Script(job.program)[3] = Do("fix", First)
        /\ Script(job.program)[1] = Do("set", First) /\ Script(job.program)[2] = Do("set", Second)
    BY <1>1, ScriptIs
  <2>2. step.at \in 1 .. 3
    BY <1>1, <2>1
  <2>3. step.at \in {1, 2, 3}
    BY <2>2
  <2>4. QED BY <2>1, <2>3 DEF Now, Do
<1>4. job.program # "roverconfig"
  <2> SUFFICES ASSUME job.program = "roverconfig" PROVE FALSE
    OBVIOUS
  <2>1. /\ Len(Script(job.program)) = 2
        /\ Script(job.program)[1] = Do("set", First) /\ Script(job.program)[2] = Do("poll", First)
    BY <1>1, ScriptIs
  <2>2. step.at \in 1 .. 2
    BY <1>1, <2>1
  <2>3. step.at \in {1, 2}
    BY <2>2
  <2>4. QED BY <2>1, <2>3 DEF Now, Do
<1>5. job.program # "verifyrover"
  <2> SUFFICES ASSUME job.program = "verifyrover" PROVE FALSE
    OBVIOUS
  <2>1. /\ Len(Script(job.program)) = 3 /\ Script(job.program)[1] = Do("alive", First)
        /\ Script(job.program)[2] = Do("poll", First) /\ Script(job.program)[3] = Do("poll", Second)
    BY <1>1, ScriptIs
  <2>2. step.at \in 1 .. 3
    BY <1>1, <2>1
  <2>3. step.at \in {1, 2, 3}
    BY <2>2
  <2>4. QED BY <2>1, <2>3 DEF Now, Do
<1>6. QED BY <1>1, <1>2, <1>3, <1>4, <1>5 DEF Programs, Writes, Checked, Watching, Configurators

(* A program that has reported does nothing any more; one that stays where it is
   in its script has changed nothing, reported, or waits for a fix. *)
LEMMA LastWord ==
  ASSUME TypeOK, [Next]_vars
  PROVE  /\ result # "none" => UNCHANGED toolVars
         /\ UNCHANGED step =>
              \/ UNCHANGED toolVars
              \/ result' # "none"
              \/ job.program = "monitor" /\ step' = Start
              \/ job.program = "fixwait" /\ step.waiting /\ UNCHANGED <<job, step, base>>
              \/ ~Ended /\ (Advance \/ Skip)
<1>1. CASE \/ UNCHANGED vars \/ Receive \/ Lose \/ Boot \/ PowerCycle \/ Navigate \/ FixChanges
           \/ IgnoreFix
  BY <1>1 DEF Receive, Lose, Boot, PowerCycle, Navigate, FixChanges, IgnoreFix, vars
<1>2. CASE WriteStage \/ WriteFails \/ Reset \/ HearVersion \/ Hear
  BY <1>2 DEF WriteStage, WriteFails, Reset, HearVersion, Hear, At, Running
<1>3. CASE PositionFails \/ WaitForFix \/ GiveUp \/ Report \/ FixTimeout
  BY <1>3 DEF PositionFails, WaitForFix, GiveUp, Report, FixTimeout, At, Running
<1>4. CASE HearFix
  <2>1. job.program \in {"fixonce", "fixwait"}
    BY <1>4, AwaitIs DEF HearFix, At, Watching, FixMonitors
  <2>2. Running /\ step.waiting /\ UNCHANGED <<job, step, base>>
        /\ (job.program = "fixonce" => result' \in {"ok", "failed"})
    BY <1>4 DEF HearFix, At
  <2>3. QED BY <2>1, <2>2 DEF Running
<1>5. CASE OpenFails \/ Diff \/ ResetBaseline
  BY <1>5 DEF OpenFails, Diff, ResetBaseline, Running, toolVars
<1>6. CASE AskVersion \/ OpenPort \/ Poll
  BY <1>6 DEF AskVersion, OpenPort, Poll, At, Running, toolVars
<1>7. CASE NoAnswer \/ NoVersion \/ PollRaises \/ Chain
  BY <1>7 DEF NoAnswer, NoVersion, PollRaises, Chain, At, Running, toolVars
<1>8. QED BY <1>1, <1>2, <1>3, <1>4, <1>5, <1>6, <1>7 DEF Next, Tool

-----------------------------------------------------------------------------
(* The theorems. *)

LEMMA InitEstablishes == Init => IInv
<1> SUFFICES ASSUME Init PROVE IInv
  OBVIOUS
<1>1. /\ job \in Jobs /\ step.at = 1 /\ ~step.waiting /\ step.tries = 0
      /\ step \in [at : 1 .. 8, waiting : BOOLEAN, tries : 0 .. 3]
      /\ ~notes.alive /\ result = "none" /\ base.report = "none"
      /\ line = <<>> /\ tty = <<>> /\ Len(line) = 0 /\ calm
  BY Starts, NothingThere DEF Init, Fresh
<1>2. TypeOK
  BY <1>1, NothingThere DEF Init, TypeOK, Fresh, Status
<1>3. Port
  BY <1>1, NothingThere DEF Port
<1>4. Watch
  BY <1>1 DEF Watch, FixedIsTrue
<1>5. Faithful
  <2>1. job.program \in Checked => B \in {0, 2, 3}
    BY <1>2, PlaceIs
  <2>2. job.program \in Checked => Writing /\ Asking /\ Polling /\ Polled
    BY <1>1, <2>1 DEF Writing, Asking, Polling, Polled, OnlyWrites
  <2>3. Verdict
    BY <1>1 DEF Verdict, MonitorTellsTruth, FailureIsTrue
  <2>4. QED BY <2>2, <2>3 DEF Faithful
<1>6. Asked
  <2>1. \A k \in Key : ~(step.at > Place(k))
    BY <1>1, PlacesAre
  <2>2. QED BY <1>1, <2>1 DEF Asked
<1>7. Others
  BY <1>1 DEF Others
<1>8. Recorded
  BY DEF Init, Recorded
<1>9. QED BY <1>2, <1>3, <1>4, <1>5, <1>6, <1>7, <1>8 DEF IInv

LEMMA NextPreserves == IInv /\ [Next]_vars => IInv'
<1> SUFFICES ASSUME IInv, [Next]_vars PROVE IInv'
  OBVIOUS
<1>1. TypeOK' /\ Port'
  BY ToolTypes, ReceiverTypes DEF IInv, Next
<1>2. QED BY <1>1, WatchKept, RecordedKept, FaithfulKept, AskedKept, OthersKept DEF IInv

LEMMA AlwaysIInv == Spec => []IInv
BY InitEstablishes, NextPreserves, PTL DEF Spec

(* The variables keep their types, and at most MaxLine requests are under way. *)
THEOREM ToolsTypes == Spec => []TypeOK
<1>1. IInv => TypeOK
  BY DEF IInv
<1>2. QED BY <1>1, AlwaysIInv, PTL

(* What f9p_fix_monitor reports as RTK fixed was so while it looked. *)
THEOREM FixReportedIsTrue == Spec => []FixedIsTrue
<1>1. IInv => FixedIsTrue
  BY DEF IInv, Watch, Watching, FixedIsTrue
<1>2. QED BY <1>1, AlwaysIInv, PTL

(* A success reported after an undisturbed check is one, of every program that
   finds what it looks up. *)
THEOREM SuccessIsTrue == Spec => []OkIsTrue
<1>1. IInv => OkIsTrue
  <2> SUFFICES ASSUME IInv, result = "ok", calm,
                      job.program \notin {"write", "verifyrover"} \union FixMonitors
               PROVE  Vouched \subseteq rover.ram
    BY DEF OkIsTrue
  <2>1. job.program \in Programs
    BY DEF IInv, TypeOK, Jobs
  <2>2. job.program \in Checked
    BY <2>1 DEF IInv, Others, Programs, Checked, Configurators
  <2>3. QED BY <2>2 DEF IInv, Faithful, Verdict
<1>2. QED BY <1>1, AlwaysIInv, PTL

(* So is a failure. *)
THEOREM FailureHasReason == Spec => []FailureIsTrue
<1>1. IInv => FailureIsTrue
  BY DEF IInv, Faithful, Verdict, FailureIsTrue, Checked
<1>2. QED BY <1>1, AlwaysIInv, PTL

(* Between undisturbed checks the monitor reports no changes exactly when the
   receiver has all now and had it at the baseline. *)
THEOREM MonitorIsTruthful == Spec => []MonitorTellsTruth
<1>1. IInv => MonitorTellsTruth
  BY DEF IInv, Others, Faithful, Verdict, MonitorTellsTruth, Checked
<1>2. QED BY <1>1, AlwaysIInv, PTL

(* What was to be written is in the receiver when nothing got lost. *)
THEOREM WrittenAsAsked == Spec => []ConfiguredAsAsked
<1>1. IInv => ConfiguredAsAsked
  <2> SUFFICES ASSUME IInv, job.program \in Writes, result \in {"ok", "failed"}, notes.wrote, calm,
                      heeded, line = <<>>, job.flash \/ ~job.reset, NEW k \in Key
               PROVE  Carried(k)
    BY DEF ConfiguredAsAsked, Carried
  <2>1. step.at \in 3 .. 8
    BY DEF IInv, Asked, TypeOK
  <2>2. step.at > Place(k)
    BY <2>1, PlacesAre
  <2>3. ~OnItsWay(k)
    BY NothingThere DEF OnItsWay
  <2>4. QED BY <2>2, <2>3 DEF IInv, Asked
<1>2. QED BY <1>1, AlwaysIInv, PTL

(* No program turns back, polls more often than it is to, or takes its report
   back, whatever is lost on the way. *)
THEOREM ToolsGoForward == Spec => GoesForward
<1> DEFINE Goes ==
      /\ result # "none" => UNCHANGED toolVars
      /\ \/ UNCHANGED toolVars
         \/ result' # "none"
         \/ Forward
         \/ job.program = "monitor" /\ step' = Start
         \/ job.program = "fixwait" /\ step.waiting /\ UNCHANGED <<job, step, base>>
      /\ step'.tries > step.tries => step.tries < Tries(job.program, Now.key)
<1>1. Init => Rounds
  BY Starts, TriesAre DEF Init, Rounds
<1>2. IInv /\ Rounds /\ [Next]_vars => Rounds'
  BY ToolMoves, JobKept, RoundsKept DEF IInv
<1>3. IInv /\ Rounds /\ [Next]_vars => [Goes]_vars
  <2> SUFFICES ASSUME IInv, Rounds, [Next]_vars PROVE Goes
    OBVIOUS
  <2>1. TypeOK /\ Moves
    BY ToolMoves DEF IInv
  <2>2. ~Ended /\ (Advance \/ Skip) => Forward
    BY <2>1, AdvancesForward
  <2>3. QED BY <2>1, <2>2, MovesForward, LastWord
<1>4. QED BY <1>1, <1>2, <1>3, AlwaysIInv, PTL DEF Spec, GoesForward
=============================================================================
