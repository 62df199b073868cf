-------------------------- MODULE CalibrationTool --------------------------
(***************************************************************************)
(* The operator's calibration tool (calibrate_imu.py) using the driver's   *)
(* three services, as CalibrationService promises them.                    *)
(*                                                                         *)
(* The tool's main thread asks, waits for the future its spin thread will  *)
(* complete, and goes on; Ctrl-C may interrupt it anywhere, abandons the   *)
(* call it is in, and ends the spin thread: rclpy.init's handler of SIGINT *)
(* shuts the context down.  The three services share the driver's executor: it  *)
(* serves one request at a time and promises no order between waiting ones.*)
(* A request to a node that is not configured is lost, and so are the      *)
(* waiting ones when it is cleaned up.  The tool is their only client.     *)
(*                                                                         *)
(* started, saved, stopped and the bounds' counters are history variables. *)
(***************************************************************************)
EXTENDS CalibrationService

CONSTANTS MaxRuns, MaxSaves, MaxSessions
  \* bounds: runs of the tool, saves in one, times the node is configured

ASSUME ToolBoundsAssumption == MaxRuns \in Nat /\ MaxSaves \in Nat /\ MaxSessions \in Nat

VARIABLES
  phase,                   \* where run() is
  call,                    \* the last request's number, over all runs
  future,                  \* the state of its future
  answer,                  \* the future's response
  lost,                    \* history: the node went, or was not there, with the request
  interrupted,             \* the context is shut down: the spin thread may have ended
  waiting,                 \* the requests the executor has not taken
  serving_call,            \* the request it is serving, 0 if none
  started, saved, stopped, \* the answers that this run acted on
  runs, saves, sessions

requests  == <<waiting, serving_call>>
tool      == <<phase, call, future, answer, lost, interrupted>>
acted     == <<started, saved, stopped>>
bounds    == <<runs, saves, sessions>>
vars      == <<serviceVars, requests, tool, acted, bounds>>

Calling == [start |-> "CALIBRATION_START", saving |-> "CALIBRATION_SAVE", stop |-> "CALIBRATION_STOP"]
Running == {"preflight", "stages", "confirm", "retry"} \cup DOMAIN Calling
MaxRequests == MaxRuns * (MaxSaves + 2)

(* An answer is sound if the Teensy gave it, in this session, and no other   *)
(* request, of a call abandoned before, was waiting to be served after it;   *)
(* boots tells which boot of the Teensy a sound answer came from.            *)
AnswerType == [ok : BOOLEAN, sound : BOOLEAN, boots : Nat]
NoAnswer   == [ok |-> FALSE, sound |-> FALSE, boots |-> 0]

TypeOK ==
  /\ ServiceTypeOK
  /\ phase \in Running \cup {"off"}
  /\ call \in 0 .. MaxRequests /\ future \in {"none", "pending", "done"}
  /\ future # "none" <=> phase \in DOMAIN Calling
  /\ lost \in BOOLEAN /\ interrupted \in BOOLEAN
  /\ waiting \subseteq [cmd : CommandId, call : 1 .. call] /\ serving_call \in 0 .. call /\ (busy <=> serving_call # 0)
  /\ {answer, started, saved, stopped} \subseteq AnswerType
  /\ runs \in 0 .. MaxRuns /\ saves \in 0 .. MaxSaves /\ sessions \in 0 .. MaxSessions

Init ==
  /\ ServiceInit
  /\ phase = "off" /\ call = 0 /\ future = "none" /\ answer = NoAnswer /\ lost = FALSE
  /\ interrupted = FALSE /\ waiting = {} /\ serving_call = 0
  /\ started = NoAnswer /\ saved = NoAnswer /\ stopped = NoAnswer
  /\ runs = 0 /\ saves = 0 /\ sessions = 0

-------------------------------------------------------------------------------
(* The tool. *)

(* make_client waits for the services, the spin thread starts, and preflight  *)
(* asks whether to go on.                                                     *)
Launch ==
  /\ phase = "off" /\ serving /\ runs < MaxRuns
  /\ phase' = "preflight" /\ runs' = runs + 1 /\ saves' = 0
  /\ stopped' = NoAnswer
  /\ UNCHANGED <<serviceVars, requests, call, future, answer, lost, interrupted, started, saved, sessions>>

(* call_async: the phase p begins with its request, which is sent also when   *)
(* nothing spins for its answer any more.                                     *)
Request(p) ==
  /\ phase' = p /\ future' = "pending" /\ call' = call + 1 /\ answer' = NoAnswer
  /\ lost' = ~serving
  /\ waiting' = IF serving THEN waiting \cup {[cmd |-> Calling[p], call |-> call']} ELSE waiting
  /\ UNCHANGED <<serviceVars, serving_call, runs, sessions>>

GoTo(p) ==
  /\ phase' = p /\ future' = "none" /\ answer' = NoAnswer /\ lost' = FALSE
  /\ interrupted' = (interrupted /\ p # "off")
  /\ UNCHANGED <<serviceVars, requests, call, bounds>>

Continue == phase = "preflight" /\ Request("start") /\ UNCHANGED <<acted, saves, interrupted>>

Answered(p) == phase = p /\ future = "done"

(* Mutant of Started: the result of START is only printed. *)
StartedAnyhow ==
  /\ Answered("start") /\ started' = answer /\ UNCHANGED <<saved, stopped>>
  /\ GoTo("stages")

(* A START that failed aborts the calibration, through the final STOP.        *)
Started ==
  /\ Answered("start") /\ started' = answer /\ UNCHANGED <<saved, stopped>>
  /\ \/ answer.ok /\ GoTo("stages")
     \/ ~answer.ok /\ Request("stop") /\ UNCHANGED <<saves, interrupted>>

(* calibrate_accel, calibrate_gyro, calibrate_compass: how long each goes on  *)
(* is for the operator and the last status to say; none changes anything.    *)
StagesDone == phase = "stages" /\ GoTo("confirm") /\ UNCHANGED acted

Save ==
  /\ phase = "confirm" /\ saves < MaxSaves /\ saves' = saves + 1
  /\ Request("saving") /\ UNCHANGED <<acted, interrupted>>

Saved ==
  /\ Answered("saving") /\ saved' = answer /\ UNCHANGED <<started, stopped>>
  /\ \/ ~answer.ok /\ GoTo("retry")
     \/ answer.ok /\ Request("stop") /\ UNCHANGED <<saves, interrupted>>

(* Mutant of Retry: a save that failed is tried again without being asked. *)
RetryAtOnce == phase = "retry" /\ Request("saving") /\ UNCHANGED <<acted, saves, interrupted>>

Retry == phase = "retry" /\ GoTo("confirm") /\ UNCHANGED acted

(* No save, or no other, is wanted: run()'s finally. *)
Finish == phase \in {"confirm", "retry"} /\ Request("stop") /\ UNCHANGED <<acted, saves, interrupted>>

Stopped ==
  /\ Answered("stop") /\ stopped' = answer /\ started' = NoAnswer /\ saved' = NoAnswer
  /\ GoTo("off")

(* Ctrl-C inside run()'s try: its finally still asks for STOP, while the      *)
(* context is being shut down ...                                             *)
Interrupt ==
  /\ phase \in Running \ {"preflight", "stop"}
  /\ Request("stop") /\ interrupted' = TRUE /\ UNCHANGED <<acted, saves>>

(* ... and outside it, as a kill anywhere and a No to preflight, ends the tool.*)
Leave ==
  /\ phase \in Running /\ GoTo("off")
  /\ started' = NoAnswer /\ saved' = NoAnswer /\ stopped' = NoAnswer

-------------------------------------------------------------------------------
(* The driver's services. *)

Serve ==
  \E r \in waiting :
    /\ Begin(r.cmd)
    /\ waiting' = waiting \ {r} /\ serving_call' = r.call
    /\ UNCHANGED <<tool, acted, bounds>>

(* No call abandoned before this one has its request still waiting.           *)
Alone == \A r \in waiting : r.call = call

Answering == [ok    |-> reply'.verdict = "OK",
              sound |-> settled' /\ Alone,
              boots |-> IF settled' /\ Alone THEN reply'.boots ELSE 0]

(* The call being served is the one the tool waits for. *)
Awaited == serving_call = call /\ future = "pending"

(* Mutant of ServiceReturns: a response completes whichever future is open.   *)
ServiceReturnsAny ==
  /\ Return
  /\ \/ future = "pending" /\ future' = "done" /\ answer' = Answering
     \/ future # "pending" /\ UNCHANGED <<future, answer>>
     \/ interrupted /\ UNCHANGED <<future, answer>>
  /\ serving_call' = 0
  /\ UNCHANGED <<waiting, phase, call, lost, interrupted, acted, bounds>>

(* Mutant of ServiceReturns: the service responds to what succeeded only.     *)
ServiceReturnsSuccess ==
  /\ Return
  /\ \/ Awaited /\ reply'.verdict = "OK" /\ future' = "done" /\ answer' = Answering
     \/ ~(Awaited /\ reply'.verdict = "OK") /\ UNCHANGED <<future, answer>>
     \/ interrupted /\ UNCHANGED <<future, answer>>
  /\ serving_call' = 0
  /\ UNCHANGED <<waiting, phase, call, lost, interrupted, acted, bounds>>

(* The response completes the future of the call it answers, if that has not  *)
(* been abandoned, as long as the spin thread runs: after Ctrl-C it may have  *)
(* ended before the response of the only call that follows, the final STOP.   *)
ServiceReturns ==
  /\ Return
  /\ \/ Awaited /\ future' = "done" /\ answer' = Answering
     \/ ~Awaited /\ UNCHANGED <<future, answer>>
     \/ interrupted /\ UNCHANGED <<future, answer>>
  /\ serving_call' = 0
  /\ UNCHANGED <<waiting, phase, call, lost, interrupted, acted, bounds>>

OnConfigure ==
  /\ Configure /\ sessions < MaxSessions /\ sessions' = sessions + 1
  /\ UNCHANGED <<requests, tool, acted, runs, saves>>

OnCleanup ==
  /\ Close /\ waiting' = {} /\ serving_call' = 0
  /\ lost' = (lost \/ future = "pending")
  /\ UNCHANGED <<phase, call, future, answer, interrupted, acted, bounds>>

Firmware ==
  /\ Restart \/ Expire \/ \E c \in CommandId : Execute(c)
  /\ UNCHANGED <<requests, tool, acted, bounds>>

-------------------------------------------------------------------------------
Next ==
  \/ Launch \/ Continue \/ Started \/ StagesDone
  \/ Save \/ Saved \/ Retry \/ Finish \/ Stopped
  \/ Interrupt \/ Leave
  \/ Serve \/ ServiceReturns \/ OnConfigure \/ OnCleanup \/ Firmware

(* The driver's executor keeps running, and its calls return. *)
Fairness == WF_vars(Serve) /\ WF_vars(ServiceReturns)

ToolSpec == Init /\ [][Next]_vars /\ Fairness

-------------------------------------------------------------------------------
(* Properties. *)

(* calibrate_imu.py:211: a tool whose final STOP succeeded leaves the Teensy  *)
(* not calibrating, though calls interrupted before may execute late and      *)
(* their answers arrive while it waits.                                       *)
StopMeansStopped == phase = "off" /\ stopped.ok /\ stopped.sound => ~cal

(* calibrate_imu.py:194-208: the operator is led through the stages only      *)
(* while the Teensy calibrates, as long as it has not restarted.              *)
StagesCalibrate ==
  phase \in {"stages", "confirm", "saving", "retry"} /\ started.sound /\ started.boots = boots => cal

(* calibrate_imu.py:180: what a successful SAVE stores was calibrated since   *)
(* this run's START; a Teensy that restarted in between refuses it.           *)
SavedIsStarted == saved.ok /\ saved.sound /\ started.sound => saved.boots = started.boots

(* calibrate_imu.py:57: the wait without a limit ends, unless the node was    *)
(* cleaned up or died with the request, or Ctrl-C has shut the context down,  *)
(* after which the wait of the final STOP may last for good.                  *)
CallEnds == future = "pending" ~> future # "pending" \/ lost \/ interrupted
===============================================================================
