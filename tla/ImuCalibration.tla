---------------------------- MODULE ImuCalibration ----------------------------
(***************************************************************************)
(* The Teensy's calibration of the IMU: setup() and loop() of main.cpp and *)
(* the BNO085 driver (bno085.cpp), one step per I2C operation.             *)
(*                                                                         *)
(* The IMU is a sensor hub with a life of its own: between any two steps   *)
(* it may reset, which turns its reports off and forgets its calibration   *)
(* configuration.  The library notices a reset some time later and raises  *)
(* a flag that wasReset() reads and clears.  An I2C operation that fails   *)
(* may have taken effect all the same, its acknowledgement lost.           *)
(***************************************************************************)
EXTENDS Integers, Sequences, CalibrationCommands

CONSTANTS
  MaxFaults,    \* bound: failing I2C operations
  MaxHubResets, \* bound: unexpected resets of the hub
  MaxCommands   \* bound: commands polled

ASSUME CalibrationBounds == MaxFaults \in Nat /\ MaxHubResets \in Nat /\ MaxCommands \in Nat

VARIABLES
  pc,             \* where setup() and loop() are
  job,            \* who runs the operations, and the mask they apply
  ops,            \* the I2C operations left of the running job
  ok,             \* none of the job's operations that count has failed
  cal_mask,       \* cal_mask_
  hub,            \* the hub: enabled reports, calibration configuration
  unseen,         \* the hub has reset and the library has not noticed
  reset_occurred, \* the library's flag, read and cleared by wasReset()
  failed,         \* history: the parts of the configuration whose last attempt failed
  last,           \* history: the last command, its result, calibrating() before it
  faults, resets, commands

firmware == <<pc, job, ops, ok, cal_mask>>
history  == <<failed, last>>
vars     == <<firmware, hub, unseen, reset_occurred, history, faults, resets, commands>>

Mask   == {"NONE", "DEFAULT", "CALIBRATING"}   \* 0, CAL_MASK_DEFAULT, CAL_MASK_CALIBRATING
Caller == {"BEGIN", "SETUP", "CONFIGURE", "RESTORE"} \cup CommandId
Op     == {"accel", "gyro", "quat", "mag", "config", "save"}
Hub    == [accel : BOOLEAN, gyro : BOOLEAN, quat : BOOLEAN, mag : BOOLEAN,
           cal : {"POWER_ON", "DEFAULT", "CALIBRATING"}]
HubAfterReset == [accel |-> FALSE, gyro |-> FALSE, quat |-> FALSE, mag |-> FALSE, cal |-> "POWER_ON"]

Calibrating == cal_mask = "CALIBRATING"

TypeOK ==
  /\ pc \in {"begin", "busy", "poll", "check", "error_loop"}
  /\ job \in [caller : Caller, mask : Mask]
  /\ ops \in Seq(Op) /\ Len(ops) <= 3 /\ ok \in BOOLEAN
  /\ cal_mask \in Mask /\ hub \in Hub
  /\ unseen \in BOOLEAN /\ reset_occurred \in BOOLEAN /\ failed \subseteq {"reports", "calibration"}
  /\ last \in [cmd : CommandId, result : CommandResponse, before : BOOLEAN]
  /\ faults \in 0 .. MaxFaults /\ resets \in 0 .. MaxHubResets /\ commands \in 0 .. MaxCommands

Init ==
  /\ pc = "begin" /\ job = [caller |-> "BEGIN", mask |-> "NONE"] /\ ops = <<>> /\ ok = TRUE
  /\ cal_mask = "NONE" /\ hub = HubAfterReset
  /\ unseen = FALSE /\ reset_occurred \in BOOLEAN
  /\ failed = {}
  /\ last = [cmd |-> "CALIBRATION_STOP", result |-> "OK", before |-> FALSE]
  /\ faults = 0 /\ resets = 0 /\ commands = 0

-------------------------------------------------------------------------------
(* The I2C operations. *)

Run(caller, mask, program) ==
  pc' = "busy" /\ job' = [caller |-> caller, mask |-> mask] /\ ops' = program /\ ok' = TRUE

(* configure(): set_reports() enables the three reports. *)
RunConfigure(caller) == Run(caller, "NONE", <<"accel", "gyro", "quat">>)

(* calibrate(sensors): the magnetometer's report on or off, then the mask. *)
RunCalibrate(caller, mask) == Run(caller, mask, <<"mag", "config">>)

(* What calibrate() returned, for the history. *)
CalibrateResult == IF ok THEN failed \ {"calibration"} ELSE failed \cup {"calibration"}

(* What an operation does to the hub. *)
Effect(op) ==
  CASE op = "accel"  -> [hub EXCEPT !.accel = TRUE]
    [] op = "gyro"   -> [hub EXCEPT !.gyro = TRUE]
    [] op = "quat"   -> [hub EXCEPT !.quat = TRUE]
    [] op = "mag"    -> [hub EXCEPT !.mag = (job.mask = "CALIBRATING")]
    [] op = "config" -> [hub EXCEPT !.cal = job.mask]
    [] op = "save"   -> hub

(* Mutant of OpSucceeds: the mask is stored before it is configured. *)
MaskStoredFirst ==
  /\ pc = "busy" /\ ops # <<>>
  /\ hub' = Effect(Head(ops)) /\ ops' = Tail(ops)
  /\ cal_mask' = IF Head(ops) = "mag" THEN job.mask ELSE cal_mask
  /\ UNCHANGED <<pc, job, ok, unseen, reset_occurred, history, faults, resets, commands>>

(* Mutant of OpSucceeds: the mask is what the hub's configuration was. *)
MaskReadBack ==
  /\ pc = "busy" /\ ops # <<>>
  /\ hub' = Effect(Head(ops)) /\ ops' = Tail(ops)
  /\ cal_mask' = IF Head(ops) = "config" THEN hub.cal ELSE cal_mask
  /\ UNCHANGED <<pc, job, ok, unseen, reset_occurred, history, faults, resets, commands>>

(* cal_mask_ is stored once the hub has been configured. *)
OpSucceeds ==
  /\ pc = "busy" /\ ops # <<>>
  /\ hub' = Effect(Head(ops)) /\ ops' = Tail(ops)
  /\ cal_mask' = IF Head(ops) = "config" THEN job.mask ELSE cal_mask
  /\ UNCHANGED <<pc, job, ok, unseen, reset_occurred, history, faults, resets, commands>>

(* The accelerometer's failure is ignored and the other two reports are both *)
(* tried; calibrate() returns at the first failure.                          *)
OpFails ==
  /\ pc = "busy" /\ ops # <<>> /\ faults < MaxFaults
  /\ hub' \in {hub, Effect(Head(ops))}
  /\ ops' = IF Head(ops) \in {"accel", "gyro", "quat"} THEN Tail(ops) ELSE <<>>
  /\ ok' = (ok /\ Head(ops) = "accel")
  /\ faults' = faults + 1
  /\ UNCHANGED <<pc, job, cal_mask, unseen, reset_occurred, history, resets, commands>>

-------------------------------------------------------------------------------
(* setup() *)

(* imu_.begin() succeeds, or the retries time out. *)
Begin ==
  /\ pc = "begin"
  /\ \/ RunConfigure("BEGIN")
     \/ pc' = "error_loop" /\ UNCHANGED <<job, ops, ok>>
  /\ UNCHANGED <<cal_mask, hub, unseen, reset_occurred, history, faults, resets, commands>>

(* begin() returns what configure() returned, once. *)
BeginDone ==
  /\ pc = "busy" /\ ops = <<>> /\ job.caller = "BEGIN"
  /\ IF ok THEN RunCalibrate("SETUP", "DEFAULT")
           ELSE pc' = "error_loop" /\ UNCHANGED <<job, ops, ok>>
  /\ UNCHANGED <<cal_mask, hub, unseen, reset_occurred, history, faults, resets, commands>>

(* A failure to apply the default configuration is only logged. *)
SetupDone ==
  /\ pc = "busy" /\ ops = <<>> /\ job.caller = "SETUP"
  /\ pc' = "poll" /\ failed' = CalibrateResult
  /\ UNCHANGED <<job, ops, ok, cal_mask, hub, unseen, reset_occurred, last, faults, resets, commands>>

-------------------------------------------------------------------------------
(* loop(): poll_command, then was_reset. *)

Polled == pc = "poll" /\ commands < MaxCommands /\ commands' = commands + 1

(* A handler that answers without touching the IMU. *)
Answer(c, result) ==
  /\ last' = [cmd |-> c, result |-> result, before |-> Calibrating]
  /\ pc' = "check" /\ UNCHANGED <<job, ops, ok>>

StartCalibrationCommand ==
  /\ Polled
  /\ \/ Calibrating /\ Answer("CALIBRATION_START", "OK")
     \/ ~Calibrating /\ RunCalibrate("CALIBRATION_START", "CALIBRATING") /\ UNCHANGED last
  /\ UNCHANGED <<cal_mask, hub, unseen, reset_occurred, failed, faults, resets>>

SaveCalibrationCommand ==
  /\ Polled
  /\ \/ ~Calibrating /\ Answer("CALIBRATION_SAVE", "INVALID_STATE")
     \/ Calibrating /\ Run("CALIBRATION_SAVE", "NONE", <<"save">>) /\ UNCHANGED last
  /\ UNCHANGED <<cal_mask, hub, unseen, reset_occurred, failed, faults, resets>>

StopCalibrationCommand ==
  /\ Polled
  /\ \/ ~Calibrating /\ Answer("CALIBRATION_STOP", "OK")
     \/ Calibrating /\ RunCalibrate("CALIBRATION_STOP", "DEFAULT") /\ UNCHANGED last
  /\ UNCHANGED <<cal_mask, hub, unseen, reset_occurred, failed, faults, resets>>

(* The result; calibrating() before START is its negation, before the others TRUE. *)
CommandDone ==
  /\ pc = "busy" /\ ops = <<>> /\ job.caller \in CommandId
  /\ last' = [cmd |-> job.caller, result |-> IF ok THEN "OK" ELSE "SENSOR_ERROR",
              before |-> job.caller # "CALIBRATION_START"]
  /\ failed' = IF job.caller = "CALIBRATION_SAVE" THEN failed ELSE CalibrateResult
  /\ pc' = "check"
  /\ UNCHANGED <<job, ops, ok, cal_mask, hub, unseen, reset_occurred, faults, resets, commands>>

NoCommand ==
  /\ pc = "poll" /\ pc' = "check"
  /\ UNCHANGED <<job, ops, ok, cal_mask, hub, unseen, reset_occurred, history, faults, resets, commands>>

(* was_reset() reads and clears the flag, then reset() configures. *)
WasReset ==
  /\ pc = "check" /\ reset_occurred
  /\ reset_occurred' = FALSE
  /\ RunConfigure("CONFIGURE")
  /\ UNCHANGED <<cal_mask, hub, unseen, history, faults, resets, commands>>

WasNotReset ==
  /\ pc = "check" /\ ~reset_occurred
  /\ pc' = "poll"
  /\ UNCHANGED <<job, ops, ok, cal_mask, hub, unseen, reset_occurred, history, faults, resets, commands>>

(* Mutant of ConfigureDone: the default is restored whatever was calibrating. *)
RestoreDefault ==
  /\ pc = "busy" /\ ops = <<>> /\ job.caller = "CONFIGURE"
  /\ IF ok
     THEN RunCalibrate("RESTORE", "DEFAULT") /\ failed' = failed \ {"reports"}
     ELSE pc' = "poll" /\ failed' = {"reports", "calibration"} /\ UNCHANGED <<job, ops, ok>>
  /\ UNCHANGED <<cal_mask, hub, unseen, reset_occurred, last, faults, resets, commands>>

(* reset(): then the calibration state is restored, unless configure() failed. *)
ConfigureDone ==
  /\ pc = "busy" /\ ops = <<>> /\ job.caller = "CONFIGURE"
  /\ IF ok
     THEN /\ RunCalibrate("RESTORE", IF Calibrating THEN "CALIBRATING" ELSE "DEFAULT")
          /\ failed' = failed \ {"reports"}
     ELSE pc' = "poll" /\ failed' = {"reports", "calibration"} /\ UNCHANGED <<job, ops, ok>>
  /\ UNCHANGED <<cal_mask, hub, unseen, reset_occurred, last, faults, resets, commands>>

(* Mutant of RestoreDone: the flag is cleared again after the recovery. *)
RestoreClearsFlag ==
  /\ pc = "busy" /\ ops = <<>> /\ job.caller = "RESTORE"
  /\ pc' = "poll" /\ failed' = CalibrateResult /\ reset_occurred' = FALSE
  /\ UNCHANGED <<job, ops, ok, cal_mask, hub, unseen, last, faults, resets, commands>>

RestoreDone ==
  /\ pc = "busy" /\ ops = <<>> /\ job.caller = "RESTORE"
  /\ pc' = "poll" /\ failed' = CalibrateResult
  /\ UNCHANGED <<job, ops, ok, cal_mask, hub, unseen, reset_occurred, last, faults, resets, commands>>

-------------------------------------------------------------------------------
(* The IMU and its library, outside src/. *)

HubReset ==
  /\ pc # "error_loop" /\ resets < MaxHubResets
  /\ hub' = HubAfterReset /\ unseen' = TRUE /\ resets' = resets + 1
  /\ UNCHANGED <<firmware, reset_occurred, history, faults, commands>>

NoticeReset ==
  /\ unseen
  /\ unseen' = FALSE /\ reset_occurred' = TRUE
  /\ UNCHANGED <<firmware, hub, history, faults, resets, commands>>

-------------------------------------------------------------------------------
FirmwareStep ==
  \/ OpSucceeds \/ OpFails
  \/ Begin \/ BeginDone \/ SetupDone
  \/ StartCalibrationCommand \/ SaveCalibrationCommand \/ StopCalibrationCommand
  \/ CommandDone \/ NoCommand
  \/ WasReset \/ WasNotReset \/ ConfigureDone \/ RestoreDone

Next == FirmwareStep \/ HubReset \/ NoticeReset

(* loop() runs for ever, and the library is called in every read(). *)
Spec == Init /\ [][Next]_vars /\ WF_vars(FirmwareStep) /\ WF_vars(NoticeReset)

-------------------------------------------------------------------------------
(* Properties. *)

ResetPending == unseen \/ reset_occurred

(* The hub is as cal_mask_ says. *)
Reporting     == hub.gyro /\ hub.quat
CalibratingAs == hub.mag = Calibrating /\ hub.cal = cal_mask

(* bno085.cpp:71-77, main.cpp:60: between two commands the hub is configured *)
(* as the firmware believes, unless a reset waits to be handled or the last  *)
(* attempt to configure it was reported as failed.  No reset is lost, not    *)
(* one that comes while a command or the recovery of another is under way.   *)
HubMatchesMask ==
  pc \in {"poll", "check"} /\ ~ResetPending =>
    /\ "reports" \notin failed => Reporting
    /\ "calibration" \notin failed => CalibratingAs

(* main.cpp:79-101: each command's result and its effect on calibrating()    *)
(* are among those that module CommandChannel relies on, whatever operation  *)
(* failed and whenever the hub reset.                                        *)
CommandOutcome ==
  pc = "check" => [result |-> last.result, cal |-> Calibrating] \in Outcomes(last.cmd, last.before)

(* bno085.h:47-48: no reset makes the firmware leave or enter calibration by  *)
(* itself; only an answered command changes calibrating().                    *)
OnlyCommandsChangeCalibrating ==
  [][Calibrating' # Calibrating => job.caller \in {"CALIBRATION_START", "CALIBRATION_STOP"}]_vars

(* main.cpp:60-62: a reset is eventually followed by a configured hub, or by *)
(* the failure that the firmware logs (and does not retry).                  *)
ResetRecovered ==
  ResetPending ~> (pc = "poll" /\ Reporting /\ CalibratingAs) \/ failed # {} \/ pc = "error_loop"

(* bno085.h:66, calibrating(): "check whether the IMU is currently            *)
(* calibrating".  main.cpp:97 answers a STOP OK on its word; a STOP that is   *)
(* answered OK leaves the hub not calibrating.                                *)
StopStopsCalibration ==
  pc = "check" /\ last.cmd = "CALIBRATION_STOP" /\ last.result = "OK" /\ ~ResetPending
    => hub.cal # "CALIBRATING"
===============================================================================
