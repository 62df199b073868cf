----------------------------- MODULE ImuSampling -----------------------------
(***************************************************************************)
(* The Teensy's clocks: loop() of main.cpp with BNO085::read() (bno085.cpp)*)
(* and the CAL_STATUS pacing, on millis(), which wraps around.             *)
(*                                                                         *)
(* Two intervals are measured by unsigned subtraction of millis() readings:*)
(* the time since the last gyroscope report, which decides whether a       *)
(* sample carries angular rates or zeros, and the time since the last      *)
(* CAL_STATUS.  The history variables hold the true intervals.             *)
(***************************************************************************)
EXTENDS Integers

CONSTANTS
  MillisMod,       \* millis() is taken modulo this: 2^32
  GyroStaleMs,     \* gyro_stale_ms: 100
  CalStatusPeriod, \* CAL_STATUS_PERIOD_MS: 100
  ConfigureDelay,  \* the delay(100) in configure()
  MaxIteration     \* bound: time one iteration of loop() takes, without that delay

ASSUME ClockAssumption ==
  /\ MillisMod \in Nat /\ GyroStaleMs \in Nat \ {0}
  /\ CalStatusPeriod \in Nat \ {0} /\ ConfigureDelay \in Nat
  /\ MaxIteration \in Nat \ {0}
  /\ GyroStaleMs < MillisMod /\ CalStatusPeriod + ConfigureDelay + MaxIteration <= MillisMod

VARIABLES
  pc,                   \* where loop() is
  millis,               \* the clock
  have_accel, have_quat,
  gyro_live,            \* sample_ holds angular rates, not zeros
  last_gyro_ms, last_cal_status_ms,
  iteration,            \* time since loop() last came round to the status
  calibrating,
  out,                  \* the last read()'s or loop()'s packet
  gyro_age,             \* history: time since the last gyroscope report
  gyro_cleared,         \* history: configure() ran since that report
  status_gap            \* history: time between the last two CAL_STATUS, then
                        \* counting since the last one (see SendCalStatus)

sensing == <<have_accel, have_quat, gyro_live, last_gyro_ms, gyro_cleared>>
status  == <<last_cal_status_ms, status_gap>>
vars    == <<pc, millis, iteration, sensing, status, calibrating, out, gyro_age>>

(* True intervals are counted up to MillisMod, and no further. *)
Ages      == 0 .. MillisMod
Older(a, n) == IF a + n > MillisMod THEN MillisMod ELSE a + n

Events == {"none", "accel", "gyro", "mag", "quat"}
Packet == [kind : {"NONE", "IMU_DATA", "CAL_STATUS"}, live : BOOLEAN, age : Ages]
Silence == [kind |-> "NONE", live |-> FALSE, age |-> 0]

TypeOK ==
  /\ pc \in {"poll", "check", "read", "status"}
  /\ millis \in 0 .. MillisMod - 1 /\ iteration \in 0 .. MaxIteration
  /\ last_gyro_ms \in 0 .. MillisMod - 1 /\ last_cal_status_ms \in 0 .. MillisMod - 1
  /\ have_accel \in BOOLEAN /\ have_quat \in BOOLEAN /\ gyro_live \in BOOLEAN
  /\ calibrating \in BOOLEAN /\ gyro_cleared \in BOOLEAN
  /\ out \in Packet /\ gyro_age \in Ages /\ status_gap \in Ages

(* After setup(), whose configure() took its delay; no report and no status yet. *)
Init ==
  /\ pc = "poll" /\ millis = ConfigureDelay /\ iteration = 0
  /\ have_accel = FALSE /\ have_quat = FALSE /\ gyro_live = FALSE
  /\ last_gyro_ms = 0 /\ last_cal_status_ms = 0
  /\ calibrating = FALSE /\ out = Silence
  /\ gyro_age = MillisMod /\ gyro_cleared = TRUE /\ status_gap = MillisMod

(* Unsigned subtraction. *)
Since(t) == (millis - t) % MillisMod

(* Mutant of Elapse: the clock does not wrap. *)
ElapseUnwrapped(n) ==
  /\ millis' = millis + n
  /\ gyro_age' = Older(gyro_age, n)
  /\ status_gap' = Older(status_gap, n)

(* n milliseconds pass. *)
Elapse(n) ==
  /\ millis' = (millis + n) % MillisMod
  /\ gyro_age' = Older(gyro_age, n)
  /\ status_gap' = Older(status_gap, n)

Tick ==
  /\ iteration < MaxIteration /\ iteration' = iteration + 1
  /\ Elapse(1)
  /\ UNCHANGED <<pc, sensing, last_cal_status_ms, calibrating, out>>

(* poll_command: a command may start or stop the calibration. *)
PollCommand ==
  /\ pc = "poll" /\ pc' = "check"
  /\ calibrating' \in BOOLEAN /\ out' = Silence
  /\ UNCHANGED <<iteration, millis, sensing, status, gyro_age>>

(* was_reset(): configure() after a reset of the IMU. *)
Configure ==
  /\ pc = "check" /\ pc' = "read"
  /\ have_accel' = FALSE /\ have_quat' = FALSE /\ last_gyro_ms' = 0
  /\ gyro_cleared' = TRUE
  /\ Elapse(ConfigureDelay)
  /\ UNCHANGED <<iteration, gyro_live, last_cal_status_ms, calibrating, out>>

WasNotReset ==
  /\ pc = "check" /\ pc' = "read"
  /\ UNCHANGED <<iteration, millis, sensing, status, calibrating, out, gyro_age>>

(* Mutant: the two readings are compared, not subtracted. *)
StaleByComparison == millis > last_gyro_ms + GyroStaleMs

(* read(): millis() - last_gyro_ms_ > gyro_stale_ms_ *)
Stale == Since(last_gyro_ms) > GyroStaleMs

(* getSensorEvent: one report, or none. *)
Receive(e) ==
  /\ have_accel' = (have_accel \/ e = "accel")
  /\ have_quat' = (have_quat \/ e = "quat")
  /\ pc = "read" /\ pc' = "status"
  /\ UNCHANGED <<millis, iteration, status, calibrating>>

(* A gyroscope report. It never completes a sample, for a sample is given    *)
(* out by the report that completes it.                                      *)
ReadGyro ==
  /\ Receive("gyro")
  /\ gyro_live' = TRUE /\ last_gyro_ms' = millis /\ gyro_age' = 0 /\ gyro_cleared' = FALSE
  /\ UNCHANGED out

(* Another report, or none, with which the sample is still incomplete. *)
ReadIncomplete(e) ==
  /\ Receive(e)
  /\ ~(have_accel' /\ have_quat')
  /\ UNCHANGED <<gyro_live, last_gyro_ms, gyro_age, gyro_cleared, out>>

(* The report that completes a sample: the rates are zeroed if stale. *)
ReadSample(e) ==
  /\ pc = "read" /\ pc' = "status"
  /\ (have_accel \/ e = "accel") /\ (have_quat \/ e = "quat")
  /\ have_accel' = FALSE /\ have_quat' = FALSE
  /\ gyro_live' = (gyro_live /\ ~Stale)
  /\ out' = [kind |-> "IMU_DATA", live |-> gyro_live /\ ~Stale, age |-> gyro_age]
  /\ UNCHANGED <<iteration, millis, last_gyro_ms, gyro_age, gyro_cleared, status, calibrating>>

(* Mutant: the next status's time is compared with the clock. *)
DueByComparison == millis >= (last_cal_status_ms + CalStatusPeriod) % MillisMod

(* loop(): millis() - last_cal_status_ms >= CAL_STATUS_PERIOD_MS *)
Due == Since(last_cal_status_ms) >= CalStatusPeriod

(* send_calibration_status. *)
SendCalStatus ==
  /\ pc = "status" /\ pc' = "poll" /\ iteration' = 0
  /\ calibrating /\ Due
  /\ out' = [kind |-> "CAL_STATUS", live |-> FALSE, age |-> status_gap]
  /\ last_cal_status_ms' = millis /\ status_gap' = 0
  /\ UNCHANGED <<millis, sensing, calibrating, gyro_age>>

NoCalStatus ==
  /\ pc = "status" /\ pc' = "poll" /\ iteration' = 0
  /\ ~(calibrating /\ Due)
  /\ UNCHANGED <<millis, sensing, status, calibrating, out, gyro_age>>

LoopStep ==
  \/ PollCommand
  \/ Configure \/ WasNotReset
  \/ ReadGyro
  \/ \E e \in Events \ {"gyro"} : ReadIncomplete(e) \/ ReadSample(e)
  \/ SendCalStatus \/ NoCalStatus

Next == Tick \/ LoopStep

(* Time passes, and loop() runs for ever. *)
Spec == Init /\ [][Next]_vars /\ WF_vars(Tick) /\ WF_vars(LoopStep)

-------------------------------------------------------------------------------
(* Properties. *)

(* bno085.cpp:126-130: angular rates in a sample are no older than           *)
(* gyro_stale_ms, across the wrap of millis(), so long as the gyroscope has  *)
(* not been silent for a whole turn of the clock (49 days).  The exception   *)
(* is a sample in the first gyro_stale_ms after a wrap that follows a        *)
(* configure() with no gyroscope report since: last_gyro_ms_ = 0 is then a   *)
(* recent time, and the rates are those of before the reset.                 *)
GyroIsFresh ==
  [][pc = "read" /\ out'.kind = "IMU_DATA" /\ out'.live /\ gyro_age > GyroStaleMs =>
       gyro_age = MillisMod \/ (gyro_cleared /\ millis <= GyroStaleMs)]_vars

(* calibration.h:6, "minimum interval between CAL_STATUS packets sent while  *)
(* calibrating": it holds of the true time, across the wrap and across stop  *)
(* and start.                                                                *)
CalStatusInterval == out.kind = "CAL_STATUS" => out.age >= CalStatusPeriod

(* main.cpp:71-73: while calibrating, a status is sent again and again.       *)
CalStatusFlows == calibrating ~> ~calibrating \/ out.kind = "CAL_STATUS"
===============================================================================
