---------------------------- MODULE CommandChannel ----------------------------
(***************************************************************************)
(* One calibration service call of the Pi's TeensyDriver, end to end:      *)
(* send_command's retry loop (driver.cpp), the serial Client and its read  *)
(* thread (client.cpp), the serial link, and the firmware's command        *)
(* dispatch (teensy/lib/packet/client.cpp, teensy/src/main.cpp).           *)
(*                                                                         *)
(* Three processes interleave: the node's single-threaded executor (the    *)
(* services and the lifecycle transitions), the Client's read thread, and  *)
(* the Teensy's loop().  The link keeps order and may lose a frame in      *)
(* either direction (a lost or corrupted byte makes the receiver drop the  *)
(* frame: modules CommandStream and TelemetryStream).                      *)
(*                                                                         *)
(* The history variables id, base, boots, exec, calls and sessions, and    *)
(* the fields id, boots and cal of the frames, are in no guard of the      *)
(* code's steps other than the bounds and Timely.                          *)
(***************************************************************************)
EXTENDS Integers, Sequences, CalibrationCommands

CONSTANTS
  SeqMod,       \* the number of sequence numbers: 256, command_seq_ is a uint8_t
  Retries,      \* the parameter command_retries
  LinkCap,      \* frames the link can hold in one direction
  MaxLag,       \* how many attempts a frame can be overtaken by (see Timely)
  MaxCalls,     \* bound: service calls
  MaxBoots,     \* bound: Teensy restarts
  MaxSessions   \* bound: times the node is configured

ASSUME SeqModAssumption  == SeqMod \in Nat /\ SeqMod > 1
ASSUME RetriesAssumption == Retries \in Nat \ {0}
ASSUME LinkCapAssumption == LinkCap \in Nat \ {0}
ASSUME MaxLagAssumption  == MaxLag \in Nat /\ MaxLag < SeqMod
ASSUME BoundsAssumption  == MaxCalls \in Nat /\ MaxBoots \in Nat /\ MaxSessions \in Nat

VARIABLES
  pc,               \* where the executor is in send_command
  cmd, attempt,     \* send_command: command_id, attempt
  ready, answer,    \* send_command: the future's status and its value
  command_seq, pending_seq, pending_promise,
  open,             \* client_ exists: the node is configured
  connected,        \* Client::connected_
  reading,          \* the read thread is in its loop
  to_teensy, to_pi, \* frames in flight, oldest first
  up,               \* the Teensy runs loop(), not error_loop()
  cal,              \* imu.calibrating()
  reply,            \* what the last service call answered
  id,               \* history: attempts made so far, the last one's number
  base,             \* history: id when the node was last cleaned up
  boots,            \* history: Teensy restarts
  exec,             \* history: the last command the Teensy executed
  calls, sessions

driver == <<pc, cmd, attempt, ready, answer, command_seq, pending_seq, pending_promise>>
client == <<open, connected, reading>>
link   == <<to_teensy, to_pi>>
teensy == <<up, cal, boots, exec>>
vars   == <<driver, client, link, teensy, reply, id, base, calls, sessions>>

SeqNums  == 0 .. SeqMod - 1
Frame    == [cmd : CommandId, seq : SeqNums, id : Nat]
Response == [cmd : CommandId, seq : SeqNums, result : CommandResponse,
             id : Nat, boots : Nat, cal : BOOLEAN]
Verdict  == CommandResponse \cup {"LINK_DOWN", "TIMED_OUT"}

NoResponse ==
  [cmd |-> "CALIBRATION_STOP", seq |-> 0, result |-> "OK", id |-> 0, boots |-> 0, cal |-> FALSE]

DriverTypeOK ==
  /\ pc \in {"idle", "attempt", "send", "wait"}
  /\ cmd \in CommandId /\ attempt \in 0 .. Retries
  /\ pc \in {"send", "wait"} => attempt < Retries
  /\ ready \in BOOLEAN /\ answer \in Response
  /\ command_seq \in SeqNums /\ pending_seq \in SeqNums /\ pending_promise \in BOOLEAN
  /\ reply \in [cmd : CommandId, verdict : Verdict, id : Nat, boots : Nat]

LinkTypeOK ==
  /\ open \in BOOLEAN /\ connected \in BOOLEAN /\ reading \in BOOLEAN
  /\ to_teensy \in Seq(Frame) /\ Len(to_teensy) <= LinkCap
  /\ to_pi \in Seq(Response) /\ Len(to_pi) <= LinkCap

TeensyTypeOK ==
  /\ up \in BOOLEAN /\ cal \in BOOLEAN
  /\ boots \in 0 .. MaxBoots /\ exec \in Response

HistoryTypeOK ==
  /\ id \in Nat /\ base \in 0 .. id
  /\ calls \in 0 .. MaxCalls /\ sessions \in 0 .. MaxSessions

TypeOK == DriverTypeOK /\ LinkTypeOK /\ TeensyTypeOK /\ HistoryTypeOK

(* The node is unconfigured; the Teensy has booted and is not calibrating. *)
Init ==
  /\ pc = "idle" /\ cmd = "CALIBRATION_STOP" /\ attempt = 0
  /\ ready = FALSE /\ answer = NoResponse
  /\ command_seq = 0 /\ pending_seq = 0 /\ pending_promise = FALSE
  /\ open = FALSE /\ connected = FALSE /\ reading = FALSE
  /\ to_teensy = <<>> /\ to_pi = <<>>
  /\ up = TRUE /\ cal = FALSE
  /\ reply = [cmd |-> "CALIBRATION_STOP", verdict |-> "LINK_DOWN", id |-> 0, boots |-> 0]
  /\ id = 0 /\ base = 0 /\ boots = 0 /\ exec = NoResponse
  /\ calls = 0 /\ sessions = 0

-------------------------------------------------------------------------------
(* The executor in send_command. *)

(* A client calls start_, save_ or stop_calibration. *)
Call(c) ==
  /\ pc = "idle" /\ open /\ calls < MaxCalls
  /\ pc' = "attempt" /\ cmd' = c /\ attempt' = 0
  /\ calls' = calls + 1
  /\ UNCHANGED <<ready, answer, command_seq, pending_seq, pending_promise,
                 client, link, teensy, reply, id, base, sessions>>

(* Mutant of NextSeq: the number is wider than its byte in the frame. *)
NextSeqUnwrapped(s) == s + 1

(* ++command_seq_, on a uint8_t *)
NextSeq(s) == IF s = SeqMod - 1 THEN 0 ELSE s + 1

(* The environment's one promise: no frame stays in flight while the driver *)
(* makes more than MaxLag attempts.  In the code an attempt lasts           *)
(* command_timeout (0.5 s) and MaxLag is 255: two minutes.                  *)
Timely ==
  connected =>
    /\ \A i \in DOMAIN to_teensy : to_teensy[i].id > base => id + 1 - to_teensy[i].id <= MaxLag
    /\ \A i \in DOMAIN to_pi : to_pi[i].id > base => id + 1 - to_pi[i].id <= MaxLag

(* Mutant of BeginAttempt: a retry reuses the sequence number of its call. *)
RetryReusesSeq ==
  /\ pc = "attempt" /\ attempt < Retries /\ Timely
  /\ command_seq' = IF attempt = 0 THEN NextSeq(command_seq) ELSE command_seq
  /\ pending_seq' = command_seq'
  /\ pending_promise' = TRUE /\ ready' = FALSE
  /\ id' = id + 1
  /\ pc' = "send"
  /\ UNCHANGED <<cmd, attempt, answer, client, link, teensy, reply, base, calls, sessions>>

(* Mutant of BeginAttempt: the promise is made once and kept, ready or not.   *)
BeginAttemptKeepsPromise ==
  /\ pc = "attempt" /\ attempt < Retries /\ Timely
  /\ command_seq' = NextSeq(command_seq) /\ pending_seq' = NextSeq(command_seq)
  /\ pending_promise' = ~ready
  /\ id' = id + 1
  /\ pc' = "send"
  /\ UNCHANGED <<cmd, attempt, ready, answer, client, link, teensy, reply, base, calls, sessions>>

(* The head of the loop: a new sequence number and promise, under the lock. *)
BeginAttempt ==
  /\ pc = "attempt" /\ attempt < Retries /\ Timely
  /\ command_seq' = NextSeq(command_seq) /\ pending_seq' = NextSeq(command_seq)
  /\ pending_promise' = TRUE /\ ready' = FALSE
  /\ id' = id + 1
  /\ pc' = "send"
  /\ UNCHANGED <<cmd, attempt, answer, client, link, teensy, reply, base, calls, sessions>>

Return(verdict, n, b) ==
  /\ pc' = "idle"
  /\ reply' = [cmd |-> cmd, verdict |-> verdict, id |-> n, boots |-> b]

GiveUp ==
  /\ pc = "attempt" /\ attempt = Retries
  /\ Return("TIMED_OUT", id, boots)
  /\ UNCHANGED <<cmd, attempt, ready, answer, command_seq, pending_seq, pending_promise,
                 client, link, teensy, id, base, calls, sessions>>

(* A frame written to the link q is lost, or is the last of q. *)
Transmit(q, m, receiving) ==
  \/ q' = q
  \/ receiving /\ Len(q) < LinkCap /\ q' = Append(q, m)

(* Client::send: refused when the link is known to be down ... *)
SendRefused ==
  /\ pc = "send" /\ ~connected
  /\ Return("LINK_DOWN", id, boots)
  /\ UNCHANGED <<cmd, attempt, ready, answer, command_seq, pending_seq, pending_promise,
                 client, link, teensy, id, base, calls, sessions>>

(* ... or failing in write, which marks the link down ... *)
SendFails ==
  /\ pc = "send" /\ connected
  /\ connected' = FALSE
  /\ Return("LINK_DOWN", id, boots)
  /\ UNCHANGED <<cmd, attempt, ready, answer, command_seq, pending_seq, pending_promise,
                 open, reading, link, teensy, id, base, calls, sessions>>

(* ... or written; the driver waits for the future. *)
SendWritten ==
  /\ pc = "send" /\ connected
  /\ Transmit(to_teensy, [cmd |-> cmd, seq |-> command_seq, id |-> id], up)
  /\ pc' = "wait"
  /\ UNCHANGED <<cmd, attempt, ready, answer, command_seq, pending_seq, pending_promise,
                 client, to_pi, teensy, reply, id, base, calls, sessions>>

(* wait_for returns ready: the response code is the service's answer. *)
FutureReady ==
  /\ pc = "wait" /\ ready
  /\ Return(answer.result, answer.id, answer.boots)
  /\ UNCHANGED <<cmd, attempt, ready, answer, command_seq, pending_seq, pending_promise,
                 client, link, teensy, id, base, calls, sessions>>

(* Mutant of FutureTimeout: future.get() in place of wait_for. *)
WaitForever == FALSE /\ UNCHANGED vars

(* wait_for times out: the attempt is abandoned, its promise still pending. *)
FutureTimeout ==
  /\ pc = "wait" /\ ~ready
  /\ attempt' = attempt + 1 /\ pc' = "attempt"
  /\ UNCHANGED <<cmd, ready, answer, command_seq, pending_seq, pending_promise,
                 client, link, teensy, reply, id, base, calls, sessions>>

-------------------------------------------------------------------------------
(* The Client's read thread. *)

(* Mutant: any response is taken for the pending one. *)
CallbackIgnoresSeq ==
  /\ reading /\ to_pi # <<>>
  /\ to_pi' = Tail(to_pi)
  /\ IF pending_promise
     THEN ready' = TRUE /\ answer' = Head(to_pi) /\ pending_promise' = FALSE
     ELSE UNCHANGED <<ready, answer, pending_promise>>
  /\ UNCHANGED <<pc, cmd, attempt, command_seq, pending_seq,
                 client, to_teensy, teensy, reply, id, base, calls, sessions>>

(* Mutant: the command id, payload[0], is compared in place of the number. *)
CallbackComparesCommand ==
  /\ reading /\ to_pi # <<>>
  /\ to_pi' = Tail(to_pi)
  /\ IF pending_promise /\ Head(to_pi).cmd = cmd
     THEN ready' = TRUE /\ answer' = Head(to_pi) /\ pending_promise' = FALSE
     ELSE UNCHANGED <<ready, answer, pending_promise>>
  /\ UNCHANGED <<pc, cmd, attempt, command_seq, pending_seq,
                 client, to_teensy, teensy, reply, id, base, calls, sessions>>

(* The COMMAND_RESPONSE callback: only payload[1] is compared. *)
CommandResponseCallback ==
  /\ reading /\ to_pi # <<>>
  /\ to_pi' = Tail(to_pi)
  /\ IF pending_promise /\ Head(to_pi).seq = pending_seq
     THEN ready' = TRUE /\ answer' = Head(to_pi) /\ pending_promise' = FALSE
     ELSE UNCHANGED <<ready, answer, pending_promise>>
  /\ UNCHANGED <<pc, cmd, attempt, command_seq, pending_seq,
                 client, to_teensy, teensy, reply, id, base, calls, sessions>>

(* poll_connection: an I/O error ends the thread for good. *)
ReadFails ==
  /\ reading
  /\ reading' = FALSE /\ connected' = FALSE
  /\ UNCHANGED <<driver, open, link, teensy, reply, id, base, calls, sessions>>

-------------------------------------------------------------------------------
(* The Teensy. *)

(* poll_command and dispatch_command: execute the oldest command, answer it. *)
(* Nobody receives the answer while the Pi's port is closed.                 *)
PollCommand ==
  /\ up /\ to_teensy # <<>>
  /\ to_teensy' = Tail(to_teensy)
  /\ \E o \in Outcomes(Head(to_teensy).cmd, cal) :
       LET m == Head(to_teensy)
           r == [cmd |-> m.cmd, seq |-> m.seq, result |-> o.result,
                 id |-> m.id, boots |-> boots, cal |-> o.cal]
       IN  /\ cal' = o.cal
           /\ exec' = r
           /\ Transmit(to_pi, r, open)
  /\ UNCHANGED <<driver, client, up, boots, reply, id, base, calls, sessions>>

(* setup() after a power cycle: the receive buffer is lost, the IMU is left  *)
(* not calibrating, or does not start at all and the Teensy is in error_loop.*)
Reboot ==
  /\ boots < MaxBoots /\ boots' = boots + 1
  /\ up' \in BOOLEAN /\ cal' = FALSE
  /\ to_teensy' = <<>>
  /\ UNCHANGED <<driver, client, to_pi, exec, reply, id, base, calls, sessions>>

-------------------------------------------------------------------------------
(* The lifecycle transitions, on the executor. *)

OnConfigure ==
  /\ pc = "idle" /\ ~open /\ sessions < MaxSessions
  /\ open' = TRUE /\ connected' = TRUE /\ reading' = TRUE
  /\ sessions' = sessions + 1
  /\ UNCHANGED <<driver, link, teensy, reply, id, base, calls>>

(* Without the node, or its port, what comes from the Teensy is lost; the     *)
(* next session's sequence numbers start over.                               *)
EndSession ==
  /\ open' = FALSE /\ connected' = FALSE /\ reading' = FALSE
  /\ to_pi' = <<>>
  /\ pending_promise' = FALSE /\ pending_seq' = 0 /\ command_seq' = 0
  /\ base' = id
  /\ UNCHANGED <<cmd, attempt, ready, answer, to_teensy, teensy, reply, id, calls, sessions>>

(* client_.reset() joins the read thread and closes the port. *)
OnCleanup == pc = "idle" /\ open /\ EndSession /\ UNCHANGED pc

(* The node's process is killed, at any point of a call.                     *)
NodeDies == open /\ EndSession /\ pc' = "idle"

-------------------------------------------------------------------------------
SendCommandStep ==
  \/ BeginAttempt \/ GiveUp
  \/ SendRefused \/ SendFails \/ SendWritten
  \/ FutureReady \/ FutureTimeout

(* The node's process goes on running. *)
SurvivingNext ==
  \/ \E c \in CommandId : Call(c)
  \/ SendCommandStep
  \/ CommandResponseCallback \/ ReadFails
  \/ PollCommand \/ Reboot
  \/ OnConfigure \/ OnCleanup

Next == SurvivingNext \/ NodeDies

(* Every thread keeps running: the executor inside a call (its wait is       *)
(* bounded by command_timeout), the read thread, and the Teensy's loop.      *)
Fairness ==
  WF_vars(SendCommandStep) /\ WF_vars(CommandResponseCallback) /\ WF_vars(PollCommand)

Spec == Init /\ [][Next]_vars /\ Fairness

(* One process of the node, configured and cleaned up as often as asked. *)
SurvivingSpec == Init /\ [][SurvivingNext]_vars

-------------------------------------------------------------------------------
(* Properties. *)

(* driver.cpp:126: the response the driver acts on answers the attempt it is *)
(* waiting on, and the command it sent, whatever was lost, late, retried or  *)
(* reused of the sequence numbers, for the commands of this session.         *)
AnswerIsCurrent ==
  pc = "wait" /\ ready /\ answer.id > base => answer.id = id /\ answer.cmd = cmd

(* A service's answer that came from the Teensy. *)
Definitive == pc = "idle" /\ reply.verdict \in CommandResponse /\ reply.id > base

(* Once a call has been answered by the Teensy, none of its retries or of    *)
(* those of an earlier call is left in flight: nothing executes later that   *)
(* could change the calibration behind the answer.                           *)
NothingInFlightAfterReply == Definitive => to_teensy = <<>> /\ to_pi = <<>>

(* What the service's answer says of the calibration is so on the Teensy,    *)
(* until it restarts, although the command may have been executed once per   *)
(* retry (main.cpp makes START and STOP idempotent for this).                *)
ReplyMatchesFirmware == Definitive /\ reply.boots = boots => Agrees(reply.cmd, reply.verdict, cal)

(* driver.cpp:126-127, for every response: "a response whose seq doesn't     *)
(* match the attempt currently being waited on is stale - it belongs to an   *)
(* earlier, already-abandoned retry, and is discarded".  Not so of one that  *)
(* an earlier session left in flight: on_cleanup (driver.cpp:191) starts the *)
(* numbers again, as a new process does (driver.hpp:60).                     *)
StaleResponseDiscarded == pc = "wait" /\ ready => answer.id = id

(* send_command returns: every call is answered, under any loss, a dead read *)
(* thread or a dead Teensy.                                                  *)
CallReturns == pc # "idle" ~> pc = "idle"
-------------------------------------------------------------------------------
(* The abstract service. *)

(* A command of before the last cleanup, or its response, is in flight, or    *)
(* has been taken for the pending one.                                        *)
Leftover ==
  \/ \E i \in 1 .. Len(to_teensy) : to_teensy[i].id <= base
  \/ \E i \in 1 .. Len(to_pi) : to_pi[i].id <= base
  \/ pc \in {"send", "wait"} /\ ready /\ answer.id <= base

Stale == open /\ Leftover

Busy == pc # "idle"

(* The commands that the Teensy may still execute. *)
Pending ==
  {to_teensy[i].cmd : i \in 1 .. Len(to_teensy)} \cup (IF Busy THEN {cmd} ELSE {})

Reply == [cmd |-> reply.cmd, verdict |-> reply.verdict, boots |-> reply.boots]

Execution == [boots |-> exec.boots, cal |-> exec.cal]

Service == INSTANCE CalibrationService WITH
  serving <- open, busy <- Busy, pending <- Pending, executed <- Execution,
  stale <- Stale, settled <- Definitive, reply <- Reply

(* driver.cpp:197-251: the retry loop, the line and the firmware together     *)
(* keep the promise of CalibrationService to the caller of a service.         *)
ImplementsCalibrationService == Service!Spec
===============================================================================
