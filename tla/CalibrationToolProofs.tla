------------------------ MODULE CalibrationToolProofs ------------------------
(***************************************************************************)
(* What the calibration tool's operator is told is true, for any number of *)
(* runs, saves, sessions of the node and restarts of the Teensy.           *)
(*                                                                         *)
(* A sound answer to the tool's call comes when nothing else is left for   *)
(* the firmware to do (Quiet), so that it stays true until the tool asks   *)
(* for something else or the Teensy restarts (Told).  Between a sound      *)
(* START and the final STOP the tool asks for nothing but SAVEs, which     *)
(* leave the firmware calibrating or not as they find it (Calibrating).    *)
(* A run asks once to start, once for each save and once to stop, wherever *)
(* Ctrl-C ends it (Counted).                                               *)
(***************************************************************************)
EXTENDS CalibrationTool, TLAPS

Answers(a) == a.sound \in BOOLEAN /\ a.boots \in Nat /\ a.boots <= boots

Types ==
  /\ busy \in BOOLEAN /\ cmd \in CommandId /\ pending \subseteq CommandId
  /\ cal \in BOOLEAN /\ boots \in Nat
  /\ executed.boots \in Nat /\ executed.boots <= boots /\ executed.cal \in BOOLEAN
  /\ reply.boots \in Nat /\ reply.boots <= boots
  /\ call \in Nat /\ serving_call \in Nat /\ serving_call <= call
  /\ future # "none" <=> phase \in DOMAIN Calling
  /\ Answers(answer) /\ Answers(started) /\ Answers(saved) /\ Answers(stopped)

(* What the firmware is since its last execution: restarted, or as that left it. *)
Remembered ==
  /\ executed.boots = boots => executed.cal = cal
  /\ executed.boots # boots => ~cal

(* A request is waiting or being served, under a number of its own; the last  *)
(* one's command is that of the phase that waits for it.                      *)
Numbered ==
  /\ \A r \in waiting : r.call \in Nat /\ r.call <= call /\ r.cmd \in CommandId
  /\ \A r, s \in waiting : r.call = s.call => r = s
  /\ \A r \in waiting : busy => r.call # serving_call
  /\ future = "pending" =>
       /\ busy /\ serving_call = call => cmd = Calling[phase]
       /\ \A r \in waiting : r.call = call => r.cmd = Calling[phase]

(* The firmware has nothing left to execute. *)
Quiet == ~busy /\ waiting = {} /\ pending = {}

Told(a, c) ==
  a.sound => /\ Quiet
             /\ a.boots = executed.boots
             /\ a.ok => (executed.cal <=> c # "CALIBRATION_STOP")

Truthful ==
  /\ future = "done" => Told(answer, Calling[phase])
  /\ phase = "off" => Told(stopped, "CALIBRATION_STOP")

OnlySaves ==
  /\ pending \subseteq {"CALIBRATION_SAVE"}
  /\ \A r \in waiting : r.cmd = "CALIBRATION_SAVE"
  /\ busy => cmd = "CALIBRATION_SAVE"

Stages == {"stages", "confirm", "saving", "retry"}

Calibrating ==
  phase \in Stages /\ started.sound =>
    /\ OnlySaves
    /\ cal <=> started.boots = boots
    /\ executed.cal => executed.boots = started.boots

Saving ==
  /\ phase \in {"off", "preflight", "start"} => ~saved.sound
  /\ SavedIsStarted

IInv == Types /\ Remembered /\ Numbered /\ Truthful /\ Calibrating /\ Saving

-------------------------------------------------------------------------------
(* No run has begun, and no call. *)
LEMMA InitIInv == Init => IInv
<1> SUFFICES ASSUME Init
             PROVE  IInv
  OBVIOUS
<1>1. /\ busy \in BOOLEAN /\ cal \in BOOLEAN /\ ~busy /\ ~cal
      /\ executed.cal \in BOOLEAN /\ ~executed.cal
      /\ NoAnswer.sound \in BOOLEAN /\ ~NoAnswer.sound
  <2>1. /\ busy \in BOOLEAN /\ cal \in BOOLEAN /\ ~busy /\ ~cal
        /\ executed = [boots |-> 0, cal |-> FALSE]
    BY Zenon DEF Init, ServiceInit
  <2> QED
    BY <2>1 DEF NoAnswer
<1>2. Types
  <2>1. /\ cmd = "CALIBRATION_STOP" /\ pending = {} /\ boots = 0 /\ executed.boots = 0 /\ reply.boots = 0
        /\ call = 0 /\ serving_call = 0 /\ future = "none" /\ phase = "off"
        /\ answer = NoAnswer /\ started = NoAnswer /\ saved = NoAnswer /\ stopped = NoAnswer
    BY DEF Init, ServiceInit
  <2>2. Answers(NoAnswer) /\ NoAnswer.boots = 0
    BY <1>1, <2>1 DEF Answers, NoAnswer
  <2> QED
    BY <1>1, <2>1, <2>2 DEF Types, Calling, CommandId
<1>3. Remembered /\ Numbered /\ Calibrating
  BY <1>1 DEF Init, ServiceInit, Remembered, Numbered, Calibrating, Stages
<1>4. Truthful /\ Saving
  BY <1>1 DEF Init, Truthful, Told, Saving, SavedIsStarted
<1> QED
  BY <1>2, <1>3, <1>4 DEF IInv

(* The tool goes on without asking for anything.                              *)
LEMMA GoToFacts ==
  ASSUME NEW p, GoTo(p)
  PROVE  /\ phase' = p /\ future' = "none" /\ answer' = NoAnswer
         /\ UNCHANGED <<busy, cmd, pending, cal, boots, executed, settled, reply>>
         /\ UNCHANGED <<waiting, serving_call, call>>
BY DEF GoTo, serviceVars, firmware, requests

(* The tool asks for something.                                               *)
LEMMA RequestFacts ==
  ASSUME NEW p, Request(p)
  PROVE  /\ phase' = p /\ future' = "pending" /\ answer' = NoAnswer /\ call' = call + 1
         /\ UNCHANGED <<busy, cmd, pending, cal, boots, executed, settled, reply, serving_call>>
         /\ \/ waiting' = waiting \cup {[cmd |-> Calling[p], call |-> call']}
            \/ waiting' = waiting
BY DEF Request, serviceVars, firmware

(* What there is before any answer. *)
LEMMA NoAnswerFacts ==
  ASSUME boots \in Nat
  PROVE  ~NoAnswer.sound /\ Answers(NoAnswer)
BY DEF NoAnswer, Answers

(* A request of one's own number changes nothing of the others.               *)
LEMMA RequestNumbered ==
  ASSUME IInv, NEW p \in DOMAIN Calling, Request(p)
  PROVE  Numbered'
<1>1. /\ phase' = p /\ future' = "pending" /\ call' = call + 1
      /\ UNCHANGED <<busy, cmd, serving_call>>
      /\ \/ waiting' = waiting \cup {[cmd |-> Calling[p], call |-> call']}
         \/ waiting' = waiting
  BY RequestFacts
<1>2. call \in Nat /\ serving_call <= call /\ serving_call \in Nat
  BY DEF IInv, Types
<1>3. serving_call # call'
  BY <1>1, <1>2
<1>4. \A r \in waiting : r.call \in Nat /\ r.call <= call /\ r.cmd \in CommandId /\ r.call # call'
  BY <1>1, <1>2 DEF IInv, Numbered
<1>5. Calling[p] \in CommandId
  BY DEF Calling, CommandId
<1> DEFINE m == [cmd |-> Calling[p], call |-> call']
<1>6. m.cmd = Calling[p] /\ m.call = call'
  OBVIOUS
<1> HIDE DEF m
<1>7. \A r \in waiting' : r \in waiting \/ r = m
  BY <1>1 DEF m
<1>8. \A r \in waiting' : r.call \in Nat /\ r.call <= call' /\ r.cmd \in CommandId
  BY <1>1, <1>2, <1>4, <1>5, <1>6, <1>7
<1>9. \A r, s \in waiting' : r.call = s.call => r = s
  BY <1>4, <1>6, <1>7 DEF IInv, Numbered
<1>10. \A r \in waiting' : busy' => r.call # serving_call'
  BY <1>1, <1>3, <1>4, <1>6, <1>7 DEF IInv, Numbered
<1>11. \A r \in waiting' : r.call = call' => r.cmd = Calling[phase']
  BY <1>1, <1>4, <1>6, <1>7
<1> QED
  BY <1>1, <1>3, <1>8, <1>9, <1>10, <1>11 DEF Numbered

(* A question asked in the stages is a SAVE. *)
LEMMA RequestKeeps ==
  ASSUME IInv, NEW p \in DOMAIN Calling, Request(p),
         p = "saving" => phase \in Stages /\ started' = started,
         p = "start" => ~saved'.sound, SavedIsStarted',
         Answers(started'), Answers(saved'), Answers(stopped')
  PROVE  IInv'
<1>1. /\ phase' = p /\ future' = "pending" /\ answer' = NoAnswer /\ call' = call + 1
      /\ UNCHANGED <<busy, cmd, pending, cal, boots, executed, settled, reply, serving_call>>
      /\ \/ waiting' = waiting \cup {[cmd |-> Calling[p], call |-> call']}
         \/ waiting' = waiting
  BY RequestFacts
<1>2. p \in {"start", "saving", "stop"}
  BY DEF Calling
<1>3. boots \in Nat /\ Answers(NoAnswer)'
  BY <1>1 DEF IInv, Types, NoAnswer, Answers
<1>4. Types'
  BY <1>1, <1>3 DEF IInv, Types, Answers
<1>5. Remembered'
  BY <1>1 DEF IInv, Remembered
<1>6. Numbered'
  BY RequestNumbered
<1>7. Truthful'
  BY <1>1, <1>2 DEF Truthful
<1>8. Calibrating'
  <2>1. CASE p = "saving"
    <3> SUFFICES ASSUME started'.sound
                 PROVE  /\ OnlySaves'
                        /\ cal' <=> started'.boots = boots'
                        /\ executed'.cal => executed'.boots = started'.boots
      BY DEF Calibrating
    <3>1. /\ OnlySaves
          /\ cal <=> started.boots = boots
          /\ executed.cal => executed.boots = started.boots
      <4>1. phase \in Stages /\ started.sound
        BY <2>1
      <4> QED
        BY <4>1 DEF IInv, Calibrating
    <3>2. Calling[p] = "CALIBRATION_SAVE"
      BY <2>1 DEF Calling
    <3>3. \A r \in waiting' : r.cmd = "CALIBRATION_SAVE"
      BY <1>1, <3>1, <3>2 DEF OnlySaves
    <3>4. OnlySaves'
      BY <1>1, <3>1, <3>3 DEF OnlySaves
    <3>5. started' = started
      BY <2>1
    <3> QED
      BY <1>1, <3>1, <3>4, <3>5
  <2>2. CASE p # "saving"
    BY <1>1, <1>2, <2>2 DEF Calibrating, Stages
  <2> QED
    BY <2>1, <2>2
<1>9. Saving'
  BY <1>1, <1>2 DEF Saving
<1> QED
  BY <1>4, <1>5, <1>6, <1>7, <1>8, <1>9 DEF IInv

(* A step of the tool after which it waits for nothing. *)
LEMMA GoToKeeps ==
  ASSUME IInv, phase' \notin DOMAIN Calling, future' = "none",
         UNCHANGED <<busy, cmd, pending, cal, boots, executed, reply, waiting, serving_call, call>>,
         Answers(answer'), Answers(started'), Answers(saved'), Answers(stopped'),
         phase' = "off" => Told(stopped', "CALIBRATION_STOP"),
         \/ Calibrating'
         \/ phase' \in Stages => started' = started /\ phase \in Stages,
         phase' \in {"off", "preflight"} => ~saved'.sound, SavedIsStarted'
  PROVE  IInv'
<1>1. Types'
  BY DEF IInv, Types, Answers
<1>2. Remembered'
  BY DEF IInv, Remembered
<1>3. Numbered'
  BY DEF IInv, Numbered
<1>4. Truthful'
  BY DEF Truthful, Told, Quiet
<1>5. Calibrating'
  BY DEF IInv, Calibrating, OnlySaves
<1>6. Saving'
  <2>1. phase' # "start"
    BY DEF Calling
  <2> QED
    BY <2>1 DEF Saving
<1> QED
  BY <1>1, <1>2, <1>3, <1>4, <1>5, <1>6 DEF IInv

(* The tool's own steps, which leave the driver and the firmware alone. *)
LEMMA ToolStep ==
  ASSUME IInv, \/ Launch \/ Continue \/ StagesDone \/ Save \/ Retry \/ Finish \/ Stopped
               \/ Interrupt \/ Leave
  PROVE  IInv'
<1> USE DEF acted
<1>a. boots \in Nat /\ Answers(answer) /\ Answers(started) /\ Answers(saved) /\ Answers(stopped)
  BY DEF IInv, Types
<1>b. ~NoAnswer.sound /\ Answers(NoAnswer)
  BY <1>a, NoAnswerFacts
<1>c. SavedIsStarted
  BY DEF IInv, Saving
<1>1. CASE Launch
  <2>1. /\ phase = "off" /\ phase' = "preflight" /\ stopped' = NoAnswer
        /\ UNCHANGED <<busy, cmd, pending, cal, boots, executed, settled, reply>>
        /\ UNCHANGED <<waiting, serving_call, call, future, answer, started, saved>>
    BY <1>1 DEF Launch, serviceVars, firmware, requests
  <2>2. future' = "none" /\ phase' \notin DOMAIN Calling
    BY <2>1 DEF IInv, Types, Calling
  <2>3. ~saved'.sound /\ SavedIsStarted'
    BY <2>1 DEF IInv, Saving, SavedIsStarted
  <2>4. Answers(answer') /\ Answers(started') /\ Answers(saved') /\ Answers(stopped')
    BY <1>a, <1>b, <2>1
  <2> QED
    BY <2>1, <2>2, <2>3, <2>4, GoToKeeps DEF Stages
<1>2. CASE StagesDone \/ Retry
  <2>1. PICK p \in Stages : GoTo(p) /\ phase \in Stages /\ p # "saving" /\ UNCHANGED acted
    BY <1>2 DEF StagesDone, Retry, Stages
  <2>2. /\ phase' = p /\ future' = "none" /\ answer' = NoAnswer
        /\ UNCHANGED <<busy, cmd, pending, cal, boots, executed, reply, waiting, serving_call, call>>
    BY <2>1, GoToFacts
  <2>3. phase' \notin DOMAIN Calling /\ phase' \notin {"off", "preflight"}
    BY <2>1, <2>2 DEF Stages, Calling
  <2>4. SavedIsStarted'
    BY <1>c, <2>1 DEF SavedIsStarted
  <2> QED
    BY <1>a, <1>b, <2>1, <2>2, <2>3, <2>4, GoToKeeps
<1>3. CASE Continue \/ Save \/ Finish \/ Interrupt
  <2>1. PICK p \in DOMAIN Calling :
          /\ Request(p) /\ UNCHANGED acted
          /\ p = "saving" => phase \in Stages
          /\ p = "start" => phase = "preflight"
    BY <1>3 DEF Continue, Save, Finish, Interrupt, Calling, Stages
  <2>2. /\ SavedIsStarted' /\ Answers(started') /\ Answers(saved') /\ Answers(stopped')
        /\ (p = "start" => ~saved'.sound)
    <3>1. Answers(started') /\ Answers(saved') /\ Answers(stopped')
      BY <1>a, <2>1
    <3>2. SavedIsStarted'
      BY <1>c, <2>1 DEF SavedIsStarted
    <3>3. phase = "preflight" => ~saved.sound
      BY DEF IInv, Saving
    <3> QED
      BY <2>1, <3>1, <3>2, <3>3
  <2> QED
    BY <2>1, <2>2, RequestKeeps
<1>4. CASE Stopped \/ Leave
  <2>1. /\ GoTo("off") /\ started' = NoAnswer /\ saved' = NoAnswer
        /\ \/ stopped' = NoAnswer
           \/ phase = "stop" /\ future = "done" /\ stopped' = answer
    BY <1>4 DEF Stopped, Leave, Answered
  <2>2. /\ phase' = "off" /\ future' = "none" /\ answer' = NoAnswer
        /\ UNCHANGED <<busy, cmd, pending, cal, boots, executed, reply, waiting, serving_call, call>>
    BY <2>1, GoToFacts
  <2>3. Told(stopped', "CALIBRATION_STOP")
    <3>1. CASE stopped' = NoAnswer
      BY <1>b, <3>1 DEF Told
    <3>2. CASE phase = "stop" /\ future = "done" /\ stopped' = answer
      BY <3>2 DEF IInv, Truthful, Calling
    <3> QED
      BY <2>1, <3>1, <3>2
  <2>4. /\ Answers(answer') /\ Answers(started') /\ Answers(saved') /\ Answers(stopped')
        /\ ~saved'.sound
    BY <1>a, <1>b, <2>1, <2>2
  <2>5. SavedIsStarted'
    BY <2>4 DEF SavedIsStarted
  <2>6. phase' \notin DOMAIN Calling /\ phase' \notin Stages
    BY <2>2 DEF Calling, Stages
  <2> QED
    BY <2>2, <2>3, <2>4, <2>5, <2>6, GoToKeeps
<1> QED
  BY <1>1, <1>2, <1>3, <1>4

(* What the tool does on an answer. *)
LEMMA AnswerStep ==
  ASSUME IInv, Started \/ Saved
  PROVE  IInv'
<1>a. boots \in Nat /\ Answers(answer) /\ Answers(started) /\ Answers(saved) /\ Answers(stopped)
  BY DEF IInv, Types
<1>b. ~NoAnswer.sound /\ Answers(NoAnswer)
  BY <1>a, NoAnswerFacts
<1>1. CASE Started
  <2>1. /\ phase = "start" /\ future = "done" /\ started' = answer /\ UNCHANGED <<saved, stopped>>
    BY <1>1 DEF Started, Answered
  <2>2. Told(answer, "CALIBRATION_START")
    BY <2>1 DEF IInv, Truthful, Calling
  <2>3. ~saved'.sound
    BY <2>1 DEF IInv, Saving
  <2>4. SavedIsStarted'
    BY <2>3 DEF SavedIsStarted
  <2>5. Answers(started') /\ Answers(saved') /\ Answers(stopped')
    BY <1>a, <2>1
  <2>6. CASE answer.ok /\ GoTo("stages")
    <3>1. /\ phase' = "stages" /\ future' = "none" /\ answer' = NoAnswer
          /\ UNCHANGED <<busy, cmd, pending, cal, boots, executed, reply, waiting, serving_call, call>>
      BY <2>6, GoToFacts
    <3>2. Calibrating'
      <4> SUFFICES ASSUME answer.sound
                   PROVE  /\ OnlySaves'
                          /\ cal' <=> answer.boots = boots'
                          /\ executed'.cal => executed'.boots = answer.boots
        BY <2>1 DEF Calibrating
      <4>1. Quiet /\ answer.boots = executed.boots /\ executed.cal
        BY <2>2, <2>6 DEF Told
      <4>2. cal <=> executed.boots = boots
        BY <4>1 DEF IInv, Remembered, Types
      <4> QED
        BY <3>1, <4>1, <4>2 DEF Quiet, OnlySaves
    <3>3. phase' \notin DOMAIN Calling
      BY <3>1 DEF Calling
    <3> QED
      BY <1>b, <2>4, <2>5, <3>1, <3>2, <3>3, GoToKeeps
  <2>7. CASE Request("stop")
    <3>1. "stop" \in DOMAIN Calling
      BY DEF Calling
    <3> QED
      BY <2>4, <2>5, <2>7, <3>1, RequestKeeps
  <2> QED
    BY <1>1, <2>6, <2>7 DEF Started
<1>2. CASE Saved
  <2>1. /\ phase = "saving" /\ future = "done" /\ saved' = answer /\ UNCHANGED <<started, stopped>>
    BY <1>2 DEF Saved, Answered
  <2>2. Told(answer, "CALIBRATION_SAVE")
    BY <2>1 DEF IInv, Truthful, Calling
  <2>3. SavedIsStarted'
    <3> SUFFICES ASSUME answer.ok, answer.sound, started.sound
                 PROVE  answer.boots = started.boots
      BY <2>1 DEF SavedIsStarted
    <3>1. executed.cal /\ answer.boots = executed.boots
      BY <2>2 DEF Told
    <3>2. executed.cal => executed.boots = started.boots
      BY <2>1 DEF IInv, Calibrating, Stages
    <3> QED
      BY <3>1, <3>2
  <2>4. Answers(started') /\ Answers(saved') /\ Answers(stopped')
    BY <1>a, <2>1
  <2>5. CASE GoTo("retry")
    <3>1. /\ phase' = "retry" /\ future' = "none" /\ answer' = NoAnswer
          /\ UNCHANGED <<busy, cmd, pending, cal, boots, executed, reply, waiting, serving_call, call>>
      BY <2>5, GoToFacts
    <3>2. phase' \notin DOMAIN Calling /\ phase \in Stages
      BY <2>1, <3>1 DEF Calling, Stages
    <3> QED
      BY <1>b, <2>1, <2>3, <2>4, <3>1, <3>2, GoToKeeps
  <2>6. CASE Request("stop")
    <3>1. "stop" \in DOMAIN Calling
      BY DEF Calling
    <3> QED
      BY <2>3, <2>4, <2>6, <3>1, RequestKeeps
  <2> QED
    BY <1>2, <2>5, <2>6 DEF Saved
<1> QED
  BY <1>1, <1>2

-------------------------------------------------------------------------------
(* The driver's services and the firmware. *)

(* The tool's part of a step of the services. *)
LEMMA ServiceKeeps ==
  ASSUME IInv, UNCHANGED <<phase, call, started, saved, stopped>>,
         Types', Remembered', Numbered',
         future' = "done" => Told(answer, Calling[phase])',
         Quiet => Quiet' /\ executed' = executed,
         phase \in Stages /\ started.sound /\ OnlySaves =>
           /\ OnlySaves'
           /\ cal' <=> started.boots = boots'
           /\ executed'.cal => executed'.boots = started.boots
  PROVE  IInv'
<1>1. Truthful'
  <2>1. phase' = "off" => Told(stopped, "CALIBRATION_STOP")'
    BY DEF IInv, Truthful, Told
  <2> QED
    BY <2>1 DEF Truthful
<1>2. Calibrating'
  BY DEF IInv, Calibrating
<1>3. Saving'
  BY DEF IInv, Saving, SavedIsStarted
<1> QED
  BY <1>1, <1>2, <1>3 DEF IInv

(* The executor takes a request. *)
LEMMA ServeStep ==
  ASSUME IInv, Serve
  PROVE  IInv'
<1> USE DEF tool, acted, bounds, firmware
<1>1. PICK r \in waiting : /\ Begin(r.cmd)
                           /\ waiting' = waiting \ {r} /\ serving_call' = r.call
                           /\ UNCHANGED <<tool, acted>>
  BY DEF Serve
<1>2. /\ ~busy /\ busy' = TRUE /\ cmd' = r.cmd /\ pending' = pending \cup {r.cmd}
      /\ UNCHANGED <<cal, boots, executed, reply, phase, call, future, answer>>
      /\ UNCHANGED <<started, saved, stopped>>
  BY <1>1 DEF Begin
<1>3. r.call \in Nat /\ r.call <= call /\ r.cmd \in CommandId
  BY DEF IInv, Numbered
<1>4. Types'
  BY <1>1, <1>2, <1>3 DEF IInv, Types, Answers
<1>5. Remembered'
  BY <1>2 DEF IInv, Remembered
<1>6. Numbered'
  BY <1>1, <1>2, <1>3 DEF IInv, Numbered
<1>7. ~Quiet
  BY DEF Quiet
<1>8. future' = "done" => Told(answer, Calling[phase])'
  BY <1>2, <1>7 DEF IInv, Truthful, Told
<1>9. ASSUME phase \in Stages, started.sound, OnlySaves
      PROVE  /\ OnlySaves'
             /\ cal' <=> started.boots = boots'
             /\ executed'.cal => executed'.boots = started.boots
  <2>1. OnlySaves'
    BY <1>1, <1>2, <1>9 DEF OnlySaves
  <2> QED
    BY <1>2, <1>9, <2>1 DEF IInv, Calibrating
<1> QED
  BY <1>2, <1>4, <1>5, <1>6, <1>7, <1>8, <1>9, ServiceKeeps

(* What a response brings: the answer of a settled call is true of the last   *)
(* execution, and leaves nothing pending.                                     *)
LEMMA ReturnFacts ==
  ASSUME IInv, Return
  PROVE  /\ busy /\ ~busy' /\ busy' \in BOOLEAN
         /\ UNCHANGED <<cmd, cal, boots, executed>>
         /\ pending' \subseteq pending
         /\ reply'.boots \in Nat /\ reply'.boots <= boots
         /\ settled' => /\ pending' = {}
                        /\ reply'.boots = executed.boots
                        /\ Agrees(cmd, reply'.verdict, executed.cal)
<1>0. executed.boots \in Nat /\ executed.boots <= boots /\ boots \in Nat
  BY DEF IInv, Types
<1>1. ASSUME NEW v, NEW b, ReturnWith(v, b), b \in Nat, b <= boots
      PROVE  /\ busy /\ ~busy' /\ busy' \in BOOLEAN
             /\ UNCHANGED <<cmd, cal, boots, executed>>
             /\ reply'.verdict = v /\ reply'.boots = b
  BY <1>1 DEF ReturnWith, firmware
<1>2. CASE \E result \in CommandResponse : Answer(result)
  <2>1. PICK result \in CommandResponse : Answer(result)
    BY <1>2
  <2>2. /\ ReturnWith(result, executed.boots)
        /\ Agrees(cmd, result, executed.cal)
        /\ pending' = {}
    BY <2>1 DEF Answer
  <2> QED
    BY <1>0, <1>1, <2>2
<1>3. CASE \E result \in CommandResponse, b \in 0 .. boots : AnswerStale(result, b)
  <2>1. PICK result \in CommandResponse, b \in 0 .. boots : AnswerStale(result, b)
    BY <1>3
  <2>2. ReturnWith(result, b) /\ ~settled' /\ pending' \subseteq pending /\ b \in Nat /\ b <= boots
    BY <1>0, <2>1 DEF AnswerStale, LeftPending
  <2> QED
    BY <1>1, <2>2
<1>4. CASE \E failure \in Failure : Fail(failure)
  <2>1. PICK failure \in Failure : Fail(failure)
    BY <1>4
  <2>2. ReturnWith(failure, boots) /\ ~settled' /\ pending' \subseteq pending
    BY <2>1 DEF Fail, LeftPending
  <2> QED
    BY <1>0, <1>1, <2>2
<1> QED
  BY <1>2, <1>3, <1>4 DEF Return

(* A service returns: the one step that tells the tool something. *)
LEMMA ReturnStep ==
  ASSUME IInv, ServiceReturns
  PROVE  IInv'
<1> USE DEF acted, bounds
<1>1. /\ Return
      /\ UNCHANGED <<waiting, phase, call, started, saved, stopped>>
      /\ serving_call' = 0
      /\ \/ UNCHANGED <<future, answer>>
         \/ /\ serving_call = call /\ future = "pending"
            /\ future' = "done" /\ answer' = Answering
  BY DEF ServiceReturns, Awaited
<1>2. /\ busy /\ ~busy' /\ busy' \in BOOLEAN
      /\ UNCHANGED <<cmd, cal, boots, executed>>
      /\ pending' \subseteq pending
      /\ reply'.boots \in Nat /\ reply'.boots <= boots
      /\ settled' => /\ pending' = {}
                     /\ reply'.boots = executed.boots
                     /\ Agrees(cmd, reply'.verdict, executed.cal)
  BY <1>1, ReturnFacts
<1>3. ASSUME answer' = Answering
      PROVE  /\ answer'.sound \in BOOLEAN
             /\ answer'.boots \in {reply'.boots, 0}
             /\ answer'.sound => answer'.boots = reply'.boots
             /\ answer'.sound => settled' /\ Alone
             /\ answer'.ok => reply'.verdict = "OK"
  BY <1>3, Zenon DEF Answering
<1>4. Types'
  <2>1. Answers(answer')
    <3>1. CASE answer' = answer
      BY <3>1 DEF IInv, Types, Answers
    <3>2. CASE answer' = Answering
      BY <1>2, <1>3, <3>2 DEF Answers, IInv, Types
    <3> QED
      BY <1>1, <3>1, <3>2
  <2>2. future' # "none" <=> phase \in DOMAIN Calling
    BY <1>1 DEF IInv, Types
  <2> QED
    BY <1>1, <1>2, <2>1, <2>2 DEF IInv, Types, Answers
<1>5. Remembered'
  BY <1>2 DEF IInv, Remembered
<1>6. Numbered'
  <2>1. future' = "pending" => future = "pending"
    BY <1>1
  <2> QED
    BY <1>1, <1>2, <2>1 DEF IInv, Numbered
<1>7. ~Quiet
  BY <1>2 DEF Quiet
<1>8. future' = "done" => Told(answer, Calling[phase])'
  <2>1. CASE UNCHANGED <<future, answer>>
    BY <1>1, <1>2, <1>7, <2>1 DEF IInv, Truthful, Told
  <2>2. CASE serving_call = call /\ future = "pending" /\ answer' = Answering
    <3>1. cmd = Calling[phase]
      BY <1>2, <2>2 DEF IInv, Numbered
    <3>2. ASSUME Alone
          PROVE  waiting' = {}
      <4>1. \A r \in waiting : r.call = call
        BY <3>2 DEF Alone
      <4> QED
        BY <1>1, <1>2, <2>2, <4>1 DEF IInv, Numbered
    <3>3. ASSUME answer'.sound
          PROVE  Quiet' /\ answer'.boots = executed'.boots
      BY <1>2, <1>3, <2>2, <3>2, <3>3 DEF Quiet
    <3>4. ASSUME answer'.sound, answer'.ok
          PROVE  executed'.cal <=> cmd # "CALIBRATION_STOP"
      BY <1>2, <1>3, <2>2, <3>4 DEF Agrees
    <3> QED
      BY <1>1, <3>1, <3>3, <3>4 DEF Told
  <2> QED
    BY <1>1, <2>1, <2>2
<1>9. ASSUME phase \in Stages, started.sound, OnlySaves
      PROVE  /\ OnlySaves'
             /\ cal' <=> started.boots = boots'
             /\ executed'.cal => executed'.boots = started.boots
  <2>1. OnlySaves'
    BY <1>1, <1>2, <1>9 DEF OnlySaves
  <2> QED
    BY <1>2, <1>9, <2>1 DEF IInv, Calibrating
<1> QED
  BY <1>1, <1>4, <1>5, <1>6, <1>7, <1>8, <1>9, ServiceKeeps

(* A new session, a cleanup, the last of an earlier session's answers.        *)
LEMMA SessionStep ==
  ASSUME IInv, OnConfigure \/ OnCleanup \/ (Expire /\ UNCHANGED <<requests, tool, acted>>)
  PROVE  IInv'
<1> USE DEF requests, tool, acted, bounds, firmware
<1>1. /\ UNCHANGED <<phase, call, future, answer, started, saved, stopped>>
      /\ UNCHANGED <<cmd, cal, boots, executed, reply>>
      /\ pending' \subseteq pending
      /\ \/ UNCHANGED <<busy, waiting, serving_call>>
         \/ busy' = FALSE /\ waiting' = {} /\ serving_call' = 0
  <2>1. CASE OnConfigure
    BY <2>1 DEF OnConfigure, Configure
  <2>2. CASE OnCleanup
    BY <2>2 DEF OnCleanup, Close, LeftPending
  <2>3. CASE Expire /\ UNCHANGED <<requests, tool, acted>>
    BY <2>3 DEF Expire
  <2> QED
    BY <2>1, <2>2, <2>3
<1>2. Types'
  <2>1. busy' \in BOOLEAN
    BY <1>1 DEF IInv, Types
  <2>2. serving_call' \in Nat /\ serving_call' <= call
    BY <1>1 DEF IInv, Types
  <2> QED
    BY <1>1, <2>1, <2>2 DEF IInv, Types, Answers
<1>3. Remembered'
  BY <1>1 DEF IInv, Remembered
<1>4. Numbered'
  <2>1. CASE UNCHANGED <<busy, waiting, serving_call>>
    BY <1>1, <2>1 DEF IInv, Numbered
  <2>2. CASE busy' = FALSE /\ waiting' = {} /\ serving_call' = 0
    BY <2>2 DEF Numbered
  <2> QED
    BY <1>1, <2>1, <2>2
<1>5. Quiet => Quiet' /\ executed' = executed
  BY <1>1 DEF Quiet
<1>6. future' = "done" => Told(answer, Calling[phase])'
  BY <1>1, <1>5 DEF IInv, Truthful, Told
<1>7. ASSUME phase \in Stages, started.sound, OnlySaves
      PROVE  /\ OnlySaves'
             /\ cal' <=> started.boots = boots'
             /\ executed'.cal => executed'.boots = started.boots
  <2>1. OnlySaves'
    BY <1>1, <1>7 DEF OnlySaves
  <2> QED
    BY <1>1, <1>7, <2>1 DEF IInv, Calibrating
<1> QED
  BY <1>1, <1>2, <1>3, <1>4, <1>5, <1>6, <1>7, ServiceKeeps

(* The Teensy restarts; what was executed is then of an earlier boot. *)
LEMMA RestartStep ==
  ASSUME IInv, Restart, UNCHANGED <<requests, tool, acted>>
  PROVE  IInv'
<1> USE DEF requests, tool, acted
<1>1. /\ UNCHANGED <<phase, call, future, answer, started, saved, stopped, waiting, serving_call>>
      /\ UNCHANGED <<busy, cmd, executed, reply>>
      /\ boots' = boots + 1 /\ ~cal' /\ cal' \in BOOLEAN
      /\ pending' = IF busy THEN {cmd} ELSE {}
  BY DEF Restart
<1>2. boots \in Nat /\ boots' \in Nat /\ boots <= boots' /\ boots # boots'
  BY <1>1 DEF IInv, Types
<1>a. \A a : Answers(a) => Answers(a)' /\ a.boots # boots'
  BY <1>1, <1>2 DEF Answers
<1>3. pending' \subseteq CommandId
  BY <1>1 DEF IInv, Types
<1>4. Types'
  <2>1. executed.boots <= boots' /\ reply.boots <= boots'
    BY <1>1, <1>2 DEF IInv, Types
  <2> QED
    BY <1>1, <1>2, <1>3, <2>1 DEF IInv, Types, Answers
<1>5. Remembered'
  BY <1>1, <1>2 DEF IInv, Types, Remembered
<1>6. Numbered'
  BY <1>1 DEF IInv, Numbered
<1>7. Quiet => Quiet' /\ executed' = executed
  BY <1>1 DEF Quiet
<1>8. future' = "done" => Told(answer, Calling[phase])'
  BY <1>1, <1>7 DEF IInv, Truthful, Told
<1>9. ASSUME phase \in Stages, started.sound, OnlySaves
      PROVE  /\ OnlySaves'
             /\ cal' <=> started.boots = boots'
             /\ executed'.cal => executed'.boots = started.boots
  <2>1. OnlySaves'
    BY <1>1, <1>9 DEF OnlySaves
  <2>2. started.boots # boots'
    BY <1>1, <1>2 DEF IInv, Types, Answers
  <2> QED
    BY <1>1, <1>9, <2>1, <2>2 DEF IInv, Calibrating
<1> QED
  BY <1>1, <1>4, <1>5, <1>6, <1>7, <1>8, <1>9, ServiceKeeps

(* SAVE leaves the firmware calibrating or not, as it was. *)
LEMMA SaveKeeps ==
  ASSUME NEW o \in Outcomes("CALIBRATION_SAVE", cal), cal \in BOOLEAN
  PROVE  o.cal <=> cal
<1>1. o \in SaveOutcomes(cal)
  BY DEF Outcomes
<1>2. CASE cal
  BY <1>1, <1>2 DEF SaveOutcomes
<1>3. CASE ~cal
  BY <1>1, <1>3 DEF SaveOutcomes
<1> QED
  BY <1>2, <1>3

(* The outcomes of a command have their types. *)
LEMMA OutcomeType ==
  ASSUME NEW c \in CommandId, NEW o \in Outcomes(c, cal), cal \in BOOLEAN
  PROVE  o.cal \in BOOLEAN
<1>1. CASE c = "CALIBRATION_START"
  <2>1. o \in StartOutcomes(cal)
    BY <1>1 DEF Outcomes
  <2>2. o.cal = TRUE \/ o.cal = FALSE
    BY <2>1 DEF StartOutcomes
  <2> QED
    BY <2>2
<1>2. CASE c = "CALIBRATION_SAVE"
  <2>1. o \in SaveOutcomes(cal)
    BY <1>2 DEF Outcomes
  <2>2. o.cal = TRUE \/ o.cal = FALSE
    BY <2>1 DEF SaveOutcomes
  <2> QED
    BY <2>2
<1>3. CASE c = "CALIBRATION_STOP"
  <2>1. o \in StopOutcomes(cal)
    BY <1>3 DEF Outcomes
  <2>2. o.cal = TRUE \/ o.cal = FALSE
    BY <2>1 DEF StopOutcomes
  <2> QED
    BY <2>2
<1> QED
  BY <1>1, <1>2, <1>3 DEF CommandId

(* The Teensy executes a pending command. *)
LEMMA ExecuteStep ==
  ASSUME IInv, NEW c \in CommandId, Execute(c), UNCHANGED <<requests, tool, acted>>
  PROVE  IInv'
<1> USE DEF requests, tool, acted
<1>1. /\ UNCHANGED <<phase, call, future, answer, started, saved, stopped, waiting, serving_call>>
      /\ UNCHANGED <<busy, cmd, boots, reply>>
      /\ c \in pending /\ pending' \subseteq pending
      /\ executed' = [boots |-> boots, cal |-> cal']
  BY DEF Execute
<1>2. PICK o \in Outcomes(c, cal) : cal' = o.cal
  BY DEF Execute
<1>3. cal \in BOOLEAN /\ cal' \in BOOLEAN /\ boots \in Nat
  BY <1>2, OutcomeType DEF IInv, Types
<1>4. executed'.boots = boots' /\ executed'.cal = cal' /\ boots' = boots
  BY <1>1
<1>5. Types'
  BY <1>1, <1>3, <1>4 DEF IInv, Types, Answers
<1>6. Remembered'
  BY <1>4 DEF Remembered
<1>7. Numbered'
  BY <1>1 DEF IInv, Numbered
<1>8. ~Quiet
  BY <1>1 DEF Quiet
<1>9. future' = "done" => Told(answer, Calling[phase])'
  BY <1>1, <1>8 DEF IInv, Truthful, Told
<1>10. ASSUME phase \in Stages, started.sound, OnlySaves
       PROVE  /\ OnlySaves'
              /\ cal' <=> started.boots = boots'
              /\ executed'.cal => executed'.boots = started.boots
  <2>1. OnlySaves'
    BY <1>1, <1>10 DEF OnlySaves
  <2>2. c = "CALIBRATION_SAVE"
    BY <1>1, <1>10 DEF OnlySaves
  <2>3. cal' <=> cal
    BY <1>2, <1>3, <2>2, SaveKeeps
  <2>4. cal <=> started.boots = boots
    BY <1>10 DEF IInv, Calibrating
  <2> QED
    BY <1>4, <2>1, <2>3, <2>4
<1> QED
  BY <1>1, <1>5, <1>6, <1>7, <1>8, <1>9, <1>10, ServiceKeeps

-------------------------------------------------------------------------------
(* Every step keeps the invariant. *)
LEMMA NextIInv == IInv /\ [Next]_vars => IInv'
<1> SUFFICES ASSUME IInv, [Next]_vars
             PROVE  IInv'
  OBVIOUS
<1>1. CASE UNCHANGED vars
  <2>1. /\ UNCHANGED <<busy, cmd, pending, cal, boots, executed, settled, reply>>
        /\ UNCHANGED <<waiting, serving_call, phase, call, future, answer, started, saved, stopped>>
    BY <1>1 DEF vars, serviceVars, firmware, requests, tool, acted
  <2>2. Types' /\ Remembered' /\ Numbered'
    BY <2>1 DEF IInv, Types, Answers, Remembered, Numbered
  <2>3. Truthful' /\ Calibrating' /\ Saving'
    BY <2>1 DEF IInv, Truthful, Told, Quiet, Calibrating, OnlySaves, Saving, SavedIsStarted
  <2> QED
    BY <2>2, <2>3 DEF IInv
<1>2. CASE \/ Launch \/ Continue \/ StagesDone \/ Save \/ Retry \/ Finish \/ Stopped
           \/ Interrupt \/ Leave
  BY <1>2, ToolStep
<1>3. CASE Started \/ Saved
  BY <1>3, AnswerStep
<1>4. CASE Serve
  BY <1>4, ServeStep
<1>5. CASE ServiceReturns
  BY <1>5, ReturnStep
<1>6. CASE OnConfigure \/ OnCleanup
  BY <1>6, SessionStep
<1>7. CASE Firmware
  <2>1. UNCHANGED <<requests, tool, acted>>
    BY <1>7 DEF Firmware
  <2> QED
    BY <1>7, <2>1, RestartStep, SessionStep, ExecuteStep DEF Firmware
<1> QED
  BY <1>1, <1>2, <1>3, <1>4, <1>5, <1>6, <1>7 DEF Next

(* The invariant holds throughout. *)
LEMMA ToolInv == ToolSpec => []IInv
BY InitIInv, NextIInv, PTL DEF ToolSpec

(* calibrate_imu.py:211: a final STOP that succeeded leaves the Teensy not    *)
(* calibrating, whatever calls were abandoned before it.                      *)
THEOREM ToolStopMeansStopped == ToolSpec => []StopMeansStopped
<1>1. IInv => StopMeansStopped
  <2> SUFFICES ASSUME IInv, phase = "off", stopped.ok, stopped.sound
               PROVE  ~cal
    BY DEF StopMeansStopped
  <2>1. ~executed.cal
    BY DEF IInv, Truthful, Told
  <2> QED
    BY <2>1 DEF IInv, Remembered
<1> QED
  BY <1>1, ToolInv, PTL

(* calibrate_imu.py:194-208: the stages are gone through on a Teensy that     *)
(* calibrates, unless it has restarted since START.                           *)
THEOREM ToolStagesCalibrate == ToolSpec => []StagesCalibrate
<1>1. IInv => StagesCalibrate
  BY DEF IInv, Calibrating, Stages, StagesCalibrate
<1> QED
  BY <1>1, ToolInv, PTL

(* calibrate_imu.py:180: a SAVE that succeeded stored what was calibrated     *)
(* since START, in the same boot of the Teensy.                               *)
THEOREM ToolSavedIsStarted == ToolSpec => []SavedIsStarted
<1>1. IInv => SavedIsStarted
  BY DEF IInv, Saving
<1> QED
  BY <1>1, ToolInv, PTL

-------------------------------------------------------------------------------
(* Types.  Whatever the tool and its node do is a step of the services.       *)

(* How many requests a run has made at most, when it is at p with s saves.    *)
Asked(p, s) ==
  IF p = "off" THEN MaxSaves + 2
  ELSE IF p = "preflight" THEN 0
  ELSE IF p = "start" THEN 1
  ELSE IF p = "stop" THEN s + 2
  ELSE s + 1

Counted ==
  /\ phase # "off" => runs >= 1
  /\ call <= (runs - 1) * (MaxSaves + 2) + Asked(phase, saves)

ToolTypes ==
  /\ phase \in Running \cup {"off"} /\ future \in {"none", "pending", "done"}
  /\ future # "none" <=> phase \in DOMAIN Calling
  /\ lost \in BOOLEAN /\ interrupted \in BOOLEAN
  /\ answer \in AnswerType /\ started \in AnswerType /\ saved \in AnswerType
  /\ stopped \in AnswerType

RequestTypes ==
  /\ call \in Nat /\ serving_call \in 0 .. call /\ waiting \subseteq [cmd : CommandId, call : 1 .. call]
  /\ busy <=> serving_call # 0

BoundTypes == runs \in 0 .. MaxRuns /\ saves \in 0 .. MaxSaves /\ sessions \in 0 .. MaxSessions

TInv == ServiceTypeOK /\ ToolTypes /\ RequestTypes /\ BoundTypes /\ Counted

(* What an execution leaves behind. *)
LEMMA ExecutedType ==
  ASSUME NEW b \in Nat, NEW c \in BOOLEAN
  PROVE  [boots |-> b, cal |-> c] \in [boots : 0 .. b, cal : BOOLEAN]
OBVIOUS

(* What a call returns, of a boot that has been. *)
LEMMA ReplyType ==
  ASSUME NEW c \in CommandId, NEW v \in Verdict, NEW k, NEW b \in 0 .. k
  PROVE  [cmd |-> c, verdict |-> v, boots |-> b] \in [cmd : CommandId, verdict : Verdict, boots : 0 .. k]
OBVIOUS

(* One more boot, of which nothing speaks yet. *)
LEMMA MoreBoots ==
  ASSUME NEW k \in Nat,
         NEW e \in [boots : 0 .. k, cal : BOOLEAN],
         NEW r \in [cmd : CommandId, verdict : Verdict, boots : 0 .. k]
  PROVE  /\ e \in [boots : 0 .. k + 1, cal : BOOLEAN]
         /\ r \in [cmd : CommandId, verdict : Verdict, boots : 0 .. k + 1]
<1>1. \A b \in 0 .. k : b \in 0 .. k + 1
  OBVIOUS
<1> QED
  BY <1>1, Zenon

(* A call that returns. *)
LEMMA ReturnTypes ==
  ASSUME ServiceTypeOK, NEW v \in Verdict, NEW b \in 0 .. boots, ReturnWith(v, b),
         pending' \subseteq pending, settled' \in BOOLEAN
  PROVE  ServiceTypeOK'
<1>1. /\ UNCHANGED <<serving, cmd, cal, boots, executed>>
      /\ reply' = [cmd |-> cmd, verdict |-> v, boots |-> b]
      /\ stale' \in {stale, FALSE} /\ busy' = FALSE
  BY DEF ReturnWith, firmware
<1>2. cmd \in CommandId /\ pending' \subseteq CommandId
  BY DEF ServiceTypeOK
<1>3. reply' \in [cmd : CommandId, verdict : Verdict, boots : 0 .. boots]
  BY <1>1, <1>2, ReplyType
<1>4. busy' \in BOOLEAN /\ stale' \in BOOLEAN
  BY <1>1, Zenon DEF ServiceTypeOK
<1> QED
  BY <1>1, <1>2, <1>3, <1>4 DEF ServiceTypeOK

(* The services' variables keep their types, whoever their client is.         *)
LEMMA ServiceTypes ==
  ASSUME ServiceTypeOK, [ServiceNext]_serviceVars
  PROVE  ServiceTypeOK'
<1> USE DEF firmware
<1>a. boots \in Nat /\ executed.boots \in 0 .. boots /\ boots \in 0 .. boots
  BY MaxBootsAssumption DEF ServiceTypeOK
<1>1. CASE Configure
  <2>1. /\ serving' = TRUE /\ stale' = (pending # {})
        /\ UNCHANGED <<busy, cmd, pending, cal, boots, executed, settled, reply>>
    BY <1>1 DEF Configure
  <2>2. serving' \in BOOLEAN /\ stale' \in BOOLEAN
    BY <2>1, Zenon
  <2> QED
    BY <2>1, <2>2 DEF ServiceTypeOK
<1>2. CASE Close
  <2>1. /\ serving' = FALSE /\ busy' = FALSE /\ stale' = FALSE /\ settled' = FALSE
        /\ UNCHANGED <<cmd, cal, boots, executed, reply>>
        /\ pending' \subseteq pending
    BY <1>2 DEF Close, LeftPending
  <2>2. serving' \in BOOLEAN /\ busy' \in BOOLEAN /\ stale' \in BOOLEAN /\ settled' \in BOOLEAN
    BY <2>1, Zenon
  <2> QED
    BY <2>1, <2>2 DEF ServiceTypeOK
<1>3. ASSUME NEW c \in CommandId, Begin(c)
      PROVE  ServiceTypeOK'
  <2>1. /\ busy' = TRUE /\ settled' = FALSE /\ cmd' = c /\ pending' = pending \cup {c}
        /\ UNCHANGED <<serving, cal, boots, executed, stale, reply>>
    BY <1>3 DEF Begin
  <2>2. busy' \in BOOLEAN /\ settled' \in BOOLEAN
    BY <2>1, Zenon
  <2> QED
    BY <2>1, <2>2 DEF ServiceTypeOK
<1>4. ASSUME NEW c \in CommandId, Execute(c)
      PROVE  ServiceTypeOK'
  <2>1. /\ UNCHANGED <<serving, busy, cmd, boots, settled, reply>>
        /\ executed' = [boots |-> boots, cal |-> cal']
        /\ pending' \subseteq pending /\ stale' \in {stale, FALSE}
    BY <1>4 DEF Execute
  <2>2. PICK o \in Outcomes(c, cal) : cal' = o.cal
    BY <1>4 DEF Execute
  <2>3. cal' \in BOOLEAN
    BY <2>2, OutcomeType DEF ServiceTypeOK
  <2>4. executed' \in [boots : 0 .. boots, cal : BOOLEAN]
    BY <1>a, <2>1, <2>3, ExecutedType
  <2>5. stale' \in BOOLEAN
    BY <2>1, Zenon DEF ServiceTypeOK
  <2> QED
    BY <2>1, <2>3, <2>4, <2>5 DEF ServiceTypeOK
<1>5. CASE Return
  <2>1. ASSUME NEW result \in CommandResponse, Answer(result)
        PROVE  ServiceTypeOK'
    <3>1. ReturnWith(result, executed.boots) /\ settled' = TRUE /\ pending' = {}
      BY <2>1 DEF Answer
    <3>2. settled' \in BOOLEAN /\ pending' \subseteq pending /\ result \in Verdict
      BY <3>1, Zenon DEF Verdict
    <3> QED
      BY <1>a, <3>1, <3>2, ReturnTypes
  <2>2. ASSUME NEW result \in CommandResponse, NEW b \in 0 .. boots, AnswerStale(result, b)
        PROVE  ServiceTypeOK'
    <3>1. ReturnWith(result, b) /\ settled' = FALSE /\ pending' \subseteq pending
      BY <2>2 DEF AnswerStale, LeftPending
    <3>2. settled' \in BOOLEAN /\ result \in Verdict
      BY <3>1, Zenon DEF Verdict
    <3> QED
      BY <3>1, <3>2, ReturnTypes
  <2>3. ASSUME NEW failure \in Failure, Fail(failure)
        PROVE  ServiceTypeOK'
    <3>1. ReturnWith(failure, boots) /\ settled' = FALSE /\ pending' \subseteq pending
      BY <2>3 DEF Fail, LeftPending
    <3>2. settled' \in BOOLEAN /\ failure \in Verdict
      BY <3>1, Zenon DEF Verdict
    <3> QED
      BY <1>a, <3>1, <3>2, ReturnTypes
  <2> QED
    BY <1>5, <2>1, <2>2, <2>3 DEF Return
<1>6. CASE Restart
  <2>1. /\ boots < MaxBoots /\ boots' = boots + 1 /\ cal' = FALSE
        /\ pending' = (IF busy THEN {cmd} ELSE {}) /\ stale' \in {stale, FALSE}
        /\ UNCHANGED <<serving, busy, cmd, executed, settled, reply>>
    BY <1>6 DEF Restart
  <2>2. cal' \in BOOLEAN /\ stale' \in BOOLEAN
    BY <2>1, Zenon DEF ServiceTypeOK
  <2>3. pending' \subseteq CommandId
    BY <2>1 DEF ServiceTypeOK
  <2>4. boots' \in 0 .. MaxBoots
    BY <1>a, <2>1, MaxBootsAssumption
  <2>5. /\ executed' \in [boots : 0 .. boots', cal : BOOLEAN]
        /\ reply' \in [cmd : CommandId, verdict : Verdict, boots : 0 .. boots']
    BY <1>a, <2>1, MoreBoots DEF ServiceTypeOK
  <2> QED
    BY <2>1, <2>2, <2>3, <2>4, <2>5 DEF ServiceTypeOK
<1>7. CASE Expire
  <2>1. stale' = FALSE /\ UNCHANGED <<serving, busy, cmd, pending, cal, boots, executed, settled, reply>>
    BY <1>7 DEF Expire
  <2>2. stale' \in BOOLEAN
    BY <2>1, Zenon
  <2> QED
    BY <2>1, <2>2 DEF ServiceTypeOK
<1>8. CASE UNCHANGED serviceVars
  BY <1>8 DEF serviceVars, ServiceTypeOK
<1> QED
  BY <1>1, <1>2, <1>3, <1>4, <1>5, <1>6, <1>7, <1>8 DEF ServiceNext

(* The tool is a client: it does nothing to the services but what they allow. *)
LEMMA IsClient ==
  ASSUME TInv, [Next]_vars
  PROVE  [ServiceNext]_serviceVars
<1>1. CASE UNCHANGED vars
  BY <1>1 DEF vars
<1>2. CASE Launch \/ Continue \/ Started \/ StagesDone \/ Save \/ Saved \/ Retry \/ Finish
           \/ Stopped \/ Interrupt \/ Leave
  <2>1. (\E p : GoTo(p) \/ Request(p)) \/ Launch
    BY <1>2 DEF Continue, Started, StagesDone, Save, Saved, Retry, Finish, Stopped, Interrupt, Leave
  <2> QED
    BY <2>1 DEF GoTo, Request, Launch
<1>3. CASE Serve
  <2>1. PICK r \in waiting : Begin(r.cmd)
    BY <1>3 DEF Serve
  <2>2. r.cmd \in CommandId
    BY DEF TInv, RequestTypes
  <2> QED
    BY <2>1, <2>2 DEF ServiceNext
<1>4. CASE ServiceReturns \/ OnConfigure \/ OnCleanup \/ Firmware
  BY <1>4 DEF ServiceReturns, OnConfigure, OnCleanup, Firmware, ServiceNext
<1> QED
  BY <1>1, <1>2, <1>3, <1>4 DEF Next

(* How many requests, place by place. *)
LEMMA AskedFacts ==
  ASSUME NEW s
  PROVE  /\ Asked("off", s) = MaxSaves + 2 /\ Asked("preflight", s) = 0
         /\ Asked("start", s) = 1 /\ Asked("stop", s) = s + 2
         /\ \A p \in Stages : Asked(p, s) = s + 1
<1>1. \A p \in Stages : p # "off" /\ p # "preflight" /\ p # "start" /\ p # "stop"
  BY DEF Stages
<1>2. "stop" # "off" /\ "stop" # "preflight" /\ "stop" # "start" /\ "start" # "off"
      /\ "start" # "preflight" /\ "preflight" # "off"
  OBVIOUS
<1> QED
  BY <1>1, <1>2, Zenon DEF Asked

(* A run asks no more often than once to start, for each save, and to stop.   *)
LEMMA AskedMost ==
  ASSUME TInv
  PROVE  /\ Asked(phase, saves) \in Nat /\ Asked(phase, saves) <= MaxSaves + 2
         /\ phase \in Running => Asked(phase, saves) <= saves + 2
<1>1. saves \in Nat /\ MaxSaves \in Nat /\ saves <= MaxSaves
  BY ToolBoundsAssumption DEF TInv, BoundTypes
<1>2. phase \in Stages \cup {"off", "preflight", "start", "stop"}
  BY DEF TInv, ToolTypes, Running, Calling, Stages
<1>3. \/ Asked(phase, saves) = MaxSaves + 2 /\ phase = "off"
      \/ Asked(phase, saves) = 0 \/ Asked(phase, saves) = 1
      \/ Asked(phase, saves) = saves + 2 \/ Asked(phase, saves) = saves + 1
  BY <1>2, AskedFacts
<1>4. phase \in Running => phase # "off"
  BY DEF Running, Calling
<1> QED
  BY <1>1, <1>3, <1>4

(* A run asks in turn. *)
LEMMA CountedOn ==
  ASSUME TInv, NEW p, runs' = runs, runs >= 1, phase' = p, call' \in Nat,
         NEW a \in Nat, call' <= (runs - 1) * (MaxSaves + 2) + a, a <= Asked(p, saves'),
         Asked(p, saves') \in Nat
  PROVE  Counted'
<1> DEFINE r == (runs - 1) * (MaxSaves + 2)
<1>1. r \in Int
  BY ToolBoundsAssumption DEF TInv, BoundTypes
<1> HIDE DEF r
<1>2. call' <= r + a
  BY DEF r
<1>3. call' <= r + Asked(p, saves')
  BY <1>1, <1>2
<1> QED
  BY <1>3 DEF Counted, r

(* A request that is made. *)
LEMMA RequestTyped ==
  ASSUME TInv, NEW p \in DOMAIN Calling, Request(p), phase \in Running,
         saves' \in 0 .. MaxSaves,
         Asked(p, saves') >= Asked(phase, saves) + 1, Asked(p, saves') \in Nat,
         {started', saved', stopped'} \subseteq AnswerType, interrupted' \in BOOLEAN
  PROVE  ToolTypes' /\ RequestTypes' /\ BoundTypes' /\ Counted'
<1>1. /\ phase' = p /\ future' = "pending" /\ call' = call + 1 /\ answer' = NoAnswer
      /\ lost' = ~serving /\ UNCHANGED <<runs, sessions, serving_call, busy>>
      /\ \/ waiting' = waiting \cup {[cmd |-> Calling[p], call |-> call']}
         \/ waiting' = waiting
  BY DEF Request, serviceVars
<1>2. call \in Nat /\ call' \in Nat
  BY <1>1 DEF TInv, RequestTypes
<1>3. ToolTypes'
  <2>1. NoAnswer \in AnswerType
    BY DEF NoAnswer, AnswerType
  <2>2. lost' \in BOOLEAN
    BY <1>1, Zenon
  <2>3. p \in Running
    BY DEF Running
  <2> QED
    BY <1>1, <2>1, <2>2, <2>3 DEF ToolTypes
<1>4. RequestTypes'
  <2>1. Calling[p] \in CommandId
    BY DEF Calling, CommandId
  <2> DEFINE m == [cmd |-> Calling[p], call |-> call']
  <2>2. m \in [cmd : CommandId, call : 1 .. call']
    BY <1>1, <1>2, <2>1
  <2> HIDE DEF m
  <2>3. \A i \in 1 .. call : i \in 1 .. call'
    BY <1>1, <1>2
  <2>4. waiting \subseteq [cmd : CommandId, call : 1 .. call']
    BY <2>3 DEF TInv, RequestTypes
  <2>5. waiting' \subseteq [cmd : CommandId, call : 1 .. call']
    BY <1>1, <2>2, <2>4 DEF m
  <2>6. serving_call' \in 0 .. call'
    BY <1>1, <1>2 DEF TInv, RequestTypes
  <2>7. busy' <=> serving_call' # 0
    BY <1>1 DEF TInv, RequestTypes
  <2> QED
    BY <1>2, <2>5, <2>6, <2>7 DEF RequestTypes
<1>5. BoundTypes'
  BY <1>1 DEF TInv, BoundTypes
<1>6. Counted'
  <2> DEFINE a == Asked(phase, saves) + 1
             r == (runs - 1) * (MaxSaves + 2)
  <2>1. Asked(phase, saves) \in Nat /\ a \in Nat
    BY AskedMost
  <2>2. call <= r + Asked(phase, saves) /\ r \in Int
    BY ToolBoundsAssumption DEF TInv, Counted, BoundTypes
  <2>3. call' <= r + a
    <3> HIDE DEF r
    <3> QED
      BY <1>1, <1>2, <2>1, <2>2
  <2>4. runs >= 1
    <3>1. phase # "off"
      BY DEF Running, Calling
    <3> QED
      BY <3>1 DEF TInv, Counted
  <2>5. a <= Asked(p, saves')
    BY <2>1
  <2> HIDE DEF a
  <2> QED
    BY <1>1, <1>2, <2>1, <2>3, <2>4, <2>5, CountedOn
<1> QED
  BY <1>3, <1>4, <1>5, <1>6

(* A step without a request. *)
LEMMA GoToTyped ==
  ASSUME TInv, NEW p \in {"off", "stages", "confirm", "retry"}, GoTo(p), phase \in Running,
         p # "off" => Asked(phase, saves) <= saves + 1,
         {started', saved', stopped'} \subseteq AnswerType
  PROVE  ToolTypes' /\ RequestTypes' /\ BoundTypes' /\ Counted'
<1>1. /\ phase' = p /\ future' = "none" /\ answer' = NoAnswer /\ lost' = FALSE
      /\ interrupted' = (interrupted /\ p # "off")
      /\ UNCHANGED <<call, waiting, serving_call, busy, runs, saves, sessions>>
  BY DEF GoTo, serviceVars, requests, bounds
<1>2. ToolTypes'
  <2>1. NoAnswer \in AnswerType
    BY DEF NoAnswer, AnswerType
  <2>2. lost' \in BOOLEAN /\ interrupted' \in BOOLEAN
    BY <1>1, Zenon
  <2>3. p \in Running \cup {"off"} /\ p \notin DOMAIN Calling
    BY DEF Running, Calling
  <2> QED
    BY <1>1, <2>1, <2>2, <2>3 DEF ToolTypes
<1>3. RequestTypes' /\ BoundTypes'
  BY <1>1 DEF TInv, RequestTypes, BoundTypes
<1>4. Counted'
  <2> DEFINE a == Asked(phase, saves)
  <2>1. a \in Nat /\ a <= MaxSaves + 2
    BY AskedMost
  <2>2. call <= (runs - 1) * (MaxSaves + 2) + a
    BY DEF TInv, Counted
  <2>3. p # "off" => a <= saves + 1
    OBVIOUS
  <2>4. Asked(p, saves') = IF p = "off" THEN MaxSaves + 2 ELSE saves + 1
    BY <1>1, AskedFacts DEF Stages
  <2>5. MaxSaves \in Nat /\ saves \in Nat /\ call \in Nat
    BY ToolBoundsAssumption DEF TInv, BoundTypes, RequestTypes
  <2>6. runs >= 1
    <3>1. phase # "off"
      BY DEF Running, Calling
    <3> QED
      BY <3>1 DEF TInv, Counted
  <2> HIDE DEF a
  <2>7. a <= Asked(p, saves') /\ Asked(p, saves') \in Nat
    BY <2>1, <2>3, <2>4, <2>5
  <2> QED
    BY <1>1, <2>1, <2>2, <2>5, <2>6, <2>7, CountedOn
<1> QED
  BY <1>2, <1>3, <1>4

(* The tool's steps keep its types and its bounds. *)
LEMMA ToolTyped ==
  ASSUME TInv, \/ Launch \/ Continue \/ Started \/ StagesDone \/ Save \/ Saved \/ Retry \/ Finish
               \/ Stopped \/ Interrupt \/ Leave
  PROVE  ToolTypes' /\ RequestTypes' /\ BoundTypes' /\ Counted'
<1> USE DEF acted
<1>a. /\ {answer, started, saved, stopped} \subseteq AnswerType /\ NoAnswer \in AnswerType
      /\ saves \in 0 .. MaxSaves /\ MaxSaves \in Nat /\ saves \in Nat
  <2>1. NoAnswer \in AnswerType
    BY DEF NoAnswer, AnswerType
  <2> QED
    BY <2>1, ToolBoundsAssumption DEF TInv, ToolTypes, BoundTypes
<1>b. /\ "start" \in DOMAIN Calling /\ "saving" \in DOMAIN Calling /\ "stop" \in DOMAIN Calling
      /\ {"preflight", "start", "stop", "stages", "confirm", "saving", "retry"} = Running
      /\ "off" \notin Running
      /\ "saving" \in Stages /\ Stages = {"stages", "confirm", "saving", "retry"}
  BY DEF Calling, Running, Stages
<1>1. CASE Launch
  <2>1. /\ phase = "off" /\ phase' = "preflight" /\ runs < MaxRuns /\ runs' = runs + 1 /\ saves' = 0
        /\ stopped' = NoAnswer
        /\ UNCHANGED <<busy, waiting, serving_call, call, future, answer, lost, interrupted>>
        /\ UNCHANGED <<started, saved, sessions>>
    BY <1>1 DEF Launch, serviceVars, requests
  <2>2. ToolTypes'
    <3>1. future' = "none" /\ "preflight" \in Running /\ "preflight" \notin DOMAIN Calling
      BY <1>b, <2>1 DEF TInv, ToolTypes, Calling
    <3> QED
      BY <1>a, <2>1, <3>1 DEF TInv, ToolTypes
  <2>3. RequestTypes' /\ BoundTypes'
    <3>1. runs' \in 0 .. MaxRuns /\ saves' \in 0 .. MaxSaves
      BY <1>a, <2>1, ToolBoundsAssumption DEF TInv, BoundTypes
    <3> QED
      BY <2>1, <3>1 DEF TInv, RequestTypes, BoundTypes
  <2>4. Counted'
    <3> DEFINE m == MaxSaves + 2
    <3>1. runs \in Nat /\ m \in Nat
      BY <1>a, ToolBoundsAssumption DEF TInv, BoundTypes
    <3>2. call <= (runs - 1) * m + m
      BY <2>1, AskedFacts DEF TInv, Counted
    <3>3. Asked(phase', saves') = 0
      BY <2>1, AskedFacts
    <3> HIDE DEF m
    <3>4. (runs - 1) * m + m = (runs' - 1) * m + 0 /\ runs' >= 1
      BY <2>1, <3>1
    <3> QED
      BY <2>1, <3>2, <3>3, <3>4 DEF Counted, m
  <2> QED
    BY <2>2, <2>3, <2>4
<1>2. CASE Continue \/ Save \/ Finish \/ Interrupt
  <2>1. PICK p \in DOMAIN Calling :
          /\ Request(p) /\ UNCHANGED acted /\ phase \in Running \ {"stop"}
          /\ \/ p = "start" /\ phase = "preflight" /\ saves' = saves
             \/ p = "saving" /\ phase = "confirm" /\ saves < MaxSaves /\ saves' = saves + 1
             \/ p = "stop" /\ phase # "preflight" /\ saves' = saves
          /\ interrupted' \in {interrupted, TRUE}
    BY <1>2, <1>b DEF Continue, Save, Finish, Interrupt
  <2>2. saves' \in 0 .. MaxSaves /\ saves' \in Nat
    BY <1>a, <2>1
  <2>3. Asked(p, saves') >= Asked(phase, saves) + 1 /\ Asked(p, saves') \in Nat
    <3>1. phase \in Stages \cup {"preflight", "start"}
      BY <1>b, <2>1
    <3>2. CASE p = "start"
      BY <2>1, <3>2, AskedFacts
    <3>3. CASE p = "saving"
      <4>1. phase \in Stages /\ p \in Stages /\ saves' = saves + 1
        BY <1>b, <2>1, <3>3
      <4>2. Asked(phase, saves) = saves + 1 /\ Asked(p, saves') = saves' + 1
        BY <4>1, AskedFacts
      <4> QED
        BY <1>a, <2>2, <4>1, <4>2
    <3>4. CASE p = "stop"
      <4>1. Asked(p, saves') = saves + 2 /\ (phase = "start" \/ phase \in Stages)
        BY <2>1, <3>1, <3>4, AskedFacts
      <4>2. Asked(phase, saves) = 1 \/ Asked(phase, saves) = saves + 1
        BY <4>1, AskedFacts
      <4> QED
        BY <1>a, <4>1, <4>2
    <3> QED
      BY <2>1, <3>2, <3>3, <3>4
  <2>4. {started', saved', stopped'} \subseteq AnswerType
    BY <1>a, <2>1
  <2>5. interrupted' \in BOOLEAN
    BY <2>1, Zenon DEF TInv, ToolTypes
  <2> QED
    BY <2>1, <2>2, <2>3, <2>4, <2>5, RequestTyped
<1>3. CASE Started \/ Saved
  <2>1. /\ phase = "start" \/ phase = "saving"
        /\ {started', saved', stopped'} \subseteq AnswerType
        /\ GoTo("stages") \/ GoTo("retry") \/ (Request("stop") /\ UNCHANGED <<saves, interrupted>>)
    BY <1>3, <1>a DEF Started, Saved, Answered
  <2>2. phase \in Running /\ (Asked(phase, saves) = 1 \/ Asked(phase, saves) = saves + 1)
    BY <1>b, <2>1, AskedFacts
  <2>3. Asked(phase, saves) <= saves + 1
    BY <1>a, <2>2
  <2>4. CASE GoTo("stages") \/ GoTo("retry")
    BY <2>1, <2>2, <2>3, <2>4, GoToTyped
  <2>5. CASE Request("stop") /\ UNCHANGED <<saves, interrupted>>
    <3>1. Asked("stop", saves') = saves + 2
      BY <2>5, AskedFacts
    <3>2. Asked("stop", saves') >= Asked(phase, saves) + 1 /\ Asked("stop", saves') \in Nat
      BY <1>a, <2>2, <3>1
    <3>3. interrupted' \in BOOLEAN
      BY <2>5 DEF TInv, ToolTypes
    <3> QED
      BY <1>a, <1>b, <2>1, <2>2, <2>5, <3>2, <3>3, RequestTyped
  <2> QED
    BY <2>1, <2>4, <2>5
<1>4. CASE StagesDone \/ Retry
  <2>1. GoTo("confirm") /\ UNCHANGED acted /\ phase \in Stages
    BY <1>4, <1>b DEF StagesDone, Retry
  <2>2. phase \in Running /\ Asked(phase, saves) = saves + 1
    BY <1>b, <2>1, AskedFacts
  <2>3. {started', saved', stopped'} \subseteq AnswerType /\ Asked(phase, saves) <= saves + 1
    BY <1>a, <2>1, <2>2
  <2> QED
    BY <2>1, <2>2, <2>3, GoToTyped
<1>5. CASE Stopped \/ Leave
  <2>1. GoTo("off") /\ phase \in Running /\ {started', saved', stopped'} \subseteq AnswerType
    BY <1>5, <1>a, <1>b DEF Stopped, Leave, Answered
  <2> QED
    BY <2>1, GoToTyped
<1> QED
  BY <1>1, <1>2, <1>3, <1>4, <1>5

(* So do the services' and the firmware's. *)
LEMMA DriverTyped ==
  ASSUME TInv, Serve \/ ServiceReturns \/ OnConfigure \/ OnCleanup \/ Firmware
  PROVE  ToolTypes' /\ RequestTypes' /\ BoundTypes' /\ Counted'
<1> USE DEF tool, acted, bounds, requests
<1>a. boots \in Nat /\ call \in Nat /\ MaxSessions \in Nat
  BY MaxBootsAssumption, ToolBoundsAssumption DEF TInv, ServiceTypeOK, RequestTypes
<1>1. UNCHANGED <<phase, call, interrupted, started, saved, stopped, runs, saves>>
  BY DEF Serve, ServiceReturns, OnConfigure, OnCleanup, Firmware
<1>2. Counted'
  BY <1>1 DEF TInv, Counted
<1>3. CASE Serve
  <2>1. PICK r \in waiting : /\ Begin(r.cmd)
                             /\ waiting' = waiting \ {r} /\ serving_call' = r.call
                             /\ UNCHANGED <<tool, bounds>>
    BY <1>3 DEF Serve
  <2>2. busy' /\ r.call \in 1 .. call
    BY <2>1 DEF Begin, TInv, RequestTypes
  <2>3. serving_call' \in 0 .. call /\ serving_call' # 0
    BY <1>a, <2>1, <2>2
  <2>4. RequestTypes'
    BY <2>1, <2>2, <2>3 DEF TInv, RequestTypes
  <2> QED
    BY <1>1, <1>2, <2>1, <2>4 DEF TInv, ToolTypes, BoundTypes
<1>4. CASE ServiceReturns
  <2>1. /\ Return /\ serving_call' = 0 /\ UNCHANGED <<waiting, lost, sessions>>
        /\ \/ UNCHANGED <<future, answer>>
           \/ future = "pending" /\ future' = "done" /\ answer' = Answering
    BY <1>4 DEF ServiceReturns, Awaited
  <2>2. /\ ~busy' /\ reply'.boots \in Nat /\ settled' \in BOOLEAN
    <3>1. ServiceTypeOK' /\ boots' = boots /\ ~busy'
      <4>1. [ServiceNext]_serviceVars
        BY <2>1 DEF ServiceNext
      <4>2. ServiceTypeOK'
        BY <4>1, ServiceTypes DEF TInv
      <4>3. ~busy' /\ boots' = boots
        BY <2>1 DEF Return, Answer, AnswerStale, Fail, ReturnWith, firmware
      <4> QED
        BY <4>2, <4>3
    <3>2. reply'.boots \in 0 .. boots
      BY <3>1 DEF ServiceTypeOK
    <3> QED
      BY <1>a, <3>1, <3>2 DEF ServiceTypeOK
  <2>3. Answering \in AnswerType
    <3> DEFINE b == IF settled' /\ Alone THEN reply'.boots ELSE 0
               a == [ok |-> reply'.verdict = "OK", sound |-> settled' /\ Alone, boots |-> b]
    <3>0. b \in Nat
      BY <2>2
    <3> HIDE DEF b
    <3>1. (reply'.verdict = "OK") \in BOOLEAN /\ (settled' /\ Alone) \in BOOLEAN
      BY Zenon
    <3>2. a \in AnswerType
      BY <3>0, <3>1, Zenon DEF AnswerType
    <3> QED
      BY <3>2 DEF Answering, b
  <2>4. answer' \in AnswerType /\ future' \in {"none", "pending", "done"}
    BY <2>1, <2>3 DEF TInv, ToolTypes
  <2>5. future' # "none" <=> phase' \in DOMAIN Calling
    BY <1>1, <2>1 DEF TInv, ToolTypes
  <2>6. RequestTypes'
    BY <1>1, <1>a, <2>1, <2>2 DEF TInv, RequestTypes
  <2> QED
    BY <1>1, <1>2, <2>1, <2>4, <2>5, <2>6 DEF TInv, ToolTypes, BoundTypes
<1>5. CASE OnConfigure
  <2>1. /\ sessions < MaxSessions /\ sessions' = sessions + 1
        /\ UNCHANGED <<busy, waiting, serving_call, future, answer, lost>>
    BY <1>5 DEF OnConfigure, Configure
  <2>2. sessions' \in 0 .. MaxSessions
    BY <1>a, <2>1 DEF TInv, BoundTypes
  <2> QED
    BY <1>1, <1>2, <2>1, <2>2 DEF TInv, ToolTypes, RequestTypes, BoundTypes
<1>6. CASE OnCleanup
  <2>1. /\ ~busy' /\ waiting' = {} /\ serving_call' = 0 /\ lost' = (lost \/ future = "pending")
        /\ UNCHANGED <<future, answer, sessions>>
    BY <1>6 DEF OnCleanup, Close
  <2>2. lost' \in BOOLEAN
    BY <2>1, Zenon
  <2>3. RequestTypes'
    BY <1>1, <1>a, <2>1 DEF RequestTypes
  <2> QED
    BY <1>1, <1>2, <2>1, <2>2, <2>3 DEF TInv, ToolTypes, BoundTypes
<1>7. CASE Firmware
  <2>1. UNCHANGED <<busy, waiting, serving_call, future, answer, lost, sessions>>
    BY <1>7 DEF Firmware, Restart, Expire, Execute
  <2> QED
    BY <1>1, <1>2, <2>1 DEF TInv, ToolTypes, RequestTypes, BoundTypes
<1> QED
  BY <1>3, <1>4, <1>5, <1>6, <1>7

(* Types and bounds hold at the start, and after every step. *)
LEMMA TypedInv == ToolSpec => []TInv
<1>1. Init => TInv
  <2> SUFFICES ASSUME Init
               PROVE  TInv
    OBVIOUS
  <2>1. ServiceTypeOK
    <3>1. /\ serving = FALSE /\ busy = FALSE /\ cal = FALSE /\ stale = FALSE /\ settled = FALSE
          /\ cmd = "CALIBRATION_STOP" /\ pending = {} /\ boots = 0
          /\ executed = [boots |-> 0, cal |-> FALSE]
          /\ reply = [cmd |-> "CALIBRATION_STOP", verdict |-> "LINK_DOWN", boots |-> 0]
      BY DEF Init, ServiceInit
    <3>2. /\ serving \in BOOLEAN /\ busy \in BOOLEAN /\ cal \in BOOLEAN /\ stale \in BOOLEAN
          /\ settled \in BOOLEAN /\ FALSE \in BOOLEAN
      BY <3>1, Zenon
    <3>3. 0 \in 0 .. 0 /\ 0 \in Nat /\ boots \in 0 .. MaxBoots
      BY <3>1, MaxBootsAssumption
    <3>4. executed \in [boots : 0 .. 0, cal : BOOLEAN]
      BY <3>1, <3>2, <3>3, ExecutedType
    <3>5. "CALIBRATION_STOP" \in CommandId /\ "LINK_DOWN" \in Verdict
      BY DEF CommandId, Verdict, Failure
    <3>6. reply \in [cmd : CommandId, verdict : Verdict, boots : 0 .. 0]
      BY <3>1, <3>3, <3>5, ReplyType
    <3> QED
      BY <3>1, <3>2, <3>3, <3>4, <3>5, <3>6 DEF ServiceTypeOK
  <2>2. ToolTypes
    <3>1. NoAnswer \in AnswerType /\ lost \in BOOLEAN /\ interrupted \in BOOLEAN
      BY Zenon DEF Init, NoAnswer, AnswerType
    <3>2. "off" \notin DOMAIN Calling
      BY DEF Calling
    <3> QED
      BY <3>1, <3>2 DEF Init, ToolTypes
  <2>3. RequestTypes /\ BoundTypes
    BY ToolBoundsAssumption DEF Init, ServiceInit, RequestTypes, BoundTypes
  <2>4. Counted
    <3>1. call = 0 /\ runs = 0 /\ phase = "off" /\ Asked(phase, saves) = MaxSaves + 2
      BY AskedFacts DEF Init
    <3> DEFINE m == MaxSaves + 2
    <3>2. m \in Nat
      BY ToolBoundsAssumption
    <3> HIDE DEF m
    <3>3. 0 <= (0 - 1) * m + m
      BY <3>2
    <3> QED
      BY <3>1, <3>3 DEF Counted, m
  <2> QED
    BY <2>1, <2>2, <2>3, <2>4 DEF TInv
<1>2. TInv /\ [Next]_vars => TInv'
  <2> SUFFICES ASSUME TInv, [Next]_vars
               PROVE  TInv'
    OBVIOUS
  <2>1. ServiceTypeOK'
    BY IsClient, ServiceTypes DEF TInv
  <2>2. CASE UNCHANGED vars
    <3>1. /\ UNCHANGED <<busy, waiting, serving_call, phase, call, future, answer, lost, interrupted>>
          /\ UNCHANGED <<started, saved, stopped, runs, saves, sessions>>
      BY <2>2 DEF vars, serviceVars, requests, tool, acted, bounds
    <3> QED
      BY <2>1, <3>1 DEF TInv, ToolTypes, RequestTypes, BoundTypes, Counted
  <2>3. CASE Next
    BY <2>1, <2>3, ToolTyped, DriverTyped DEF TInv, Next
  <2> QED
    BY <2>2, <2>3
<1> QED
  BY <1>1, <1>2, PTL DEF ToolSpec

(* The tool's calls are numbered within a bound: MaxSaves saves in a run, a   *)
(* START before and a STOP after them, also when Ctrl-C ends it anywhere.     *)
THEOREM ToolTypeCorrect == ToolSpec => []TypeOK
<1>1. TInv => TypeOK
  <2> SUFFICES ASSUME TInv
               PROVE  call <= MaxRequests
    BY DEF TInv, ToolTypes, RequestTypes, BoundTypes, TypeOK, MaxRequests
  <2> DEFINE m == MaxSaves + 2
             a == Asked(phase, saves)
  <2>1. m \in Nat /\ a \in Nat /\ a <= m /\ runs \in Nat /\ runs <= MaxRuns /\ MaxRuns \in Nat
    BY AskedMost, ToolBoundsAssumption DEF TInv, BoundTypes
  <2>2. call <= (runs - 1) * m + a /\ call \in Nat
    BY DEF TInv, Counted, RequestTypes
  <2> HIDE DEF m, a
  <2>3. (MaxRuns - runs) * m \in Nat /\ (runs - 1) * m \in Int
    BY <2>1
  <2>4. MaxRuns * m = (runs - 1) * m + m + (MaxRuns - runs) * m
    BY <2>1
  <2>5. call <= MaxRuns * m
    BY <2>1, <2>2, <2>3, <2>4
  <2> QED
    BY <2>5 DEF MaxRequests, m
<1> QED
  BY <1>1, TypedInv, PTL

(* driver.cpp:135-151: the tool and what becomes of its node are a client of  *)
(* CalibrationService, whose promises it may therefore rely on: nothing it    *)
(* does is beyond what the service allows.                                    *)
THEOREM ToolKeepsService == ToolSpec => Safety
<1>1. Init => ServiceInit
  BY DEF Init
<1>2. TInv /\ [Next]_vars => [ServiceNext]_serviceVars
  BY IsClient
<1> QED
  BY <1>1, <1>2, TypedInv, PTL DEF ToolSpec, Safety
===============================================================================
