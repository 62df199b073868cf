------------------------- MODULE CalibrationCommands -------------------------
(***************************************************************************)
(* The command vocabulary that the Pi driver and the Teensy firmware       *)
(* mirror (command.hpp / command.h), and what one execution of a command   *)
(* does to the firmware's calibrating() flag (main.cpp).                   *)
(*                                                                         *)
(* The handlers talk to the IMU over I2C, and every such exchange may      *)
(* fail.  This module abstracts the exchange to that success or failure;   *)
(* module ImuCalibration models it operation by operation.                 *)
(***************************************************************************)

(* enum CommandId *)
CommandId == {"CALIBRATION_START", "CALIBRATION_SAVE", "CALIBRATION_STOP"}

(* enum CommandResponse *)
CommandResponse == {"OK", "UNKNOWN_COMMAND", "SENSOR_ERROR", "INVALID_STATE"}

(* start_calibration_command: a no-op answered OK while calibrating. *)
StartOutcomes(cal) ==
  IF cal THEN {[result |-> "OK", cal |-> TRUE]}
  ELSE {[result |-> "OK", cal |-> TRUE], [result |-> "SENSOR_ERROR", cal |-> FALSE]}

(* save_calibration_command: only valid while calibrating. *)
SaveOutcomes(cal) ==
  IF ~cal THEN {[result |-> "INVALID_STATE", cal |-> FALSE]}
  ELSE {[result |-> "OK", cal |-> TRUE], [result |-> "SENSOR_ERROR", cal |-> TRUE]}

(* stop_calibration_command: a no-op answered OK while not calibrating. *)
StopOutcomes(cal) ==
  IF ~cal THEN {[result |-> "OK", cal |-> FALSE]}
  ELSE {[result |-> "OK", cal |-> FALSE], [result |-> "SENSOR_ERROR", cal |-> TRUE]}

(* The handler that setup() registers for each command id. *)
Outcomes(c, cal) ==
  CASE c = "CALIBRATION_START" -> StartOutcomes(cal)
    [] c = "CALIBRATION_SAVE"  -> SaveOutcomes(cal)
    [] c = "CALIBRATION_STOP"  -> StopOutcomes(cal)

(* What an answer to c tells its reader about calibrating(). *)
Agrees(c, result, cal) ==
  /\ result = "INVALID_STATE" => ~cal
  /\ result = "OK" => (cal <=> c # "CALIBRATION_STOP")
  /\ result = "SENSOR_ERROR" => (cal <=> c # "CALIBRATION_START")
==============================================================================
