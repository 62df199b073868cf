------------------------- MODULE CalibrationService -------------------------
(***************************************************************************)
(* What the TeensyDriver's calibration services promise their client,      *)
(* without the line, the retries and the sequence numbers.  CommandChannel *)
(* implements it; CalibrationTool builds on it.                            *)
(*                                                                         *)
(* A call that has begun may be executed by the firmware any number of     *)
(* times, also after it has failed.  An answer that comes from the Teensy  *)
(* settles it: nothing of it, or of an earlier call, is executed later,    *)
(* and the answer is true of the firmware until that restarts.  The one    *)
(* exception is a session that began with commands of an earlier one still *)
(* pending: it may take an answer to those for its own.                    *)
(***************************************************************************)
EXTENDS Integers, CalibrationCommands

CONSTANT MaxBoots   \* bound: Teensy restarts

ASSUME MaxBootsAssumption == MaxBoots \in Nat

VARIABLES
  serving,     \* the node is configured
  busy, cmd,   \* a call is being served; the command of the last call
  pending,     \* the commands that the firmware may still execute
  cal, boots,  \* the firmware's calibrating(); its restarts
  executed,    \* boots and calibrating() when it last executed a command
  stale,       \* commands of an earlier session may still be answered in this one
  settled,     \* the last call was answered by the Teensy, in this session
  reply        \* what the last call returned, and of which boot it speaks

firmware    == <<cal, boots, executed>>
serviceVars == <<serving, busy, cmd, pending, firmware, stale, settled, reply>>

Failure == {"LINK_DOWN", "TIMED_OUT"}
Verdict == CommandResponse \cup Failure

ServiceTypeOK ==
  /\ serving \in BOOLEAN /\ busy \in BOOLEAN /\ cmd \in CommandId
  /\ pending \subseteq CommandId
  /\ cal \in BOOLEAN /\ boots \in 0 .. MaxBoots /\ executed \in [boots : 0 .. boots, cal : BOOLEAN]
  /\ stale \in BOOLEAN /\ settled \in BOOLEAN
  /\ reply \in [cmd : CommandId, verdict : Verdict, boots : 0 .. boots]

ServiceInit ==
  /\ serving = FALSE /\ busy = FALSE /\ cmd = "CALIBRATION_STOP" /\ pending = {}
  /\ cal = FALSE /\ boots = 0 /\ executed = [boots |-> 0, cal |-> FALSE]
  /\ stale = FALSE /\ settled = FALSE
  /\ reply = [cmd |-> "CALIBRATION_STOP", verdict |-> "LINK_DOWN", boots |-> 0]

Configure ==
  /\ ~serving /\ serving' = TRUE
  /\ stale' = (pending # {})
  /\ UNCHANGED <<busy, cmd, pending, firmware, settled, reply>>

(* What is pending once no call is being served: the last call, if at all.    *)
LeftPending == {pending, pending \ {cmd}}

(* A cleanup, or the end of the node's process in the middle of a call.       *)
Close ==
  /\ serving /\ serving' = FALSE
  /\ busy' = FALSE /\ stale' = FALSE /\ settled' = FALSE
  /\ pending' \in LeftPending
  /\ UNCHANGED <<cmd, firmware, reply>>

Begin(c) ==
  /\ serving /\ ~busy
  /\ busy' = TRUE /\ cmd' = c /\ pending' = pending \cup {c}
  /\ settled' = FALSE
  /\ UNCHANGED <<serving, firmware, stale, reply>>

Execute(c) ==
  /\ c \in pending
  /\ \E o \in Outcomes(c, cal) : cal' = o.cal
  /\ executed' = [boots |-> boots, cal |-> cal']
  /\ pending' \in {pending, pending \ {c}} /\ (busy => cmd \in pending')
  /\ stale' \in {stale, FALSE}
  /\ UNCHANGED <<serving, busy, cmd, boots, settled, reply>>

ReturnWith(verdict, b) ==
  /\ busy /\ busy' = FALSE
  /\ reply' = [cmd |-> cmd, verdict |-> verdict, boots |-> b]
  /\ stale' \in {stale, FALSE}
  /\ UNCHANGED <<serving, cmd, firmware>>

(* Mutant of Answer: SAVE is answered OK whether or not it calibrates.        *)
AnswerSavesAlways(result) ==
  /\ ReturnWith(result, executed.boots)
  /\ cmd # "CALIBRATION_SAVE" => Agrees(cmd, result, executed.cal)
  /\ settled' = TRUE /\ pending' = {}

(* The Teensy's answer: of its last execution, which was of this command.     *)
Answer(result) ==
  /\ ReturnWith(result, executed.boots)
  /\ Agrees(cmd, result, executed.cal)
  /\ settled' = TRUE /\ pending' = {}

(* An answer to a call of an earlier session, taken for this one's.           *)
AnswerStale(result, b) ==
  /\ stale /\ ReturnWith(result, b)
  /\ settled' = FALSE /\ pending' \in LeftPending

Fail(failure) ==
  /\ ReturnWith(failure, boots)
  /\ settled' = FALSE /\ pending' \in LeftPending

Return ==
  \/ \E result \in CommandResponse : Answer(result) \/ \E b \in 0 .. boots : AnswerStale(result, b)
  \/ \E failure \in Failure : Fail(failure)

(* What was pending at the Teensy is lost; a call being served may send again. *)
Restart ==
  /\ boots < MaxBoots /\ boots' = boots + 1 /\ cal' = FALSE
  /\ pending' = IF busy THEN {cmd} ELSE {}
  /\ stale' \in {stale, FALSE}
  /\ UNCHANGED <<serving, busy, cmd, executed, settled, reply>>

(* The last answer to an earlier session's command is dropped. *)
Expire ==
  /\ stale /\ stale' = FALSE
  /\ UNCHANGED <<serving, busy, cmd, pending, firmware, settled, reply>>

ServiceNext ==
  \/ Configure \/ Close
  \/ \E c \in CommandId : Begin(c) \/ Execute(c)
  \/ Return
  \/ Restart \/ Expire

Safety == ServiceInit /\ [][ServiceNext]_serviceVars

(* Every call returns. *)
Spec == Safety /\ WF_serviceVars(Return)
===============================================================================
