------------------------- MODULE ImuCalibrationProofs -------------------------
(***************************************************************************)
(* The firmware's picture of its IMU is true, for any number of failing    *)
(* I2C operations, unexpected resets and commands.                         *)
(*                                                                         *)
(* A job's operations are what is left of its program (Program), so that   *)
(* what it has done to the hub and to cal_mask follows from how far it is  *)
(* (Reports, Sensors, Commanded).  A reset of the hub undoes it at any     *)
(* point, but leaves a mark, unseen or reset_occurred, that only the next  *)
(* configure() removes, at its beginning: hence every clause about the hub *)
(* is about one without such a mark.                                       *)
(***************************************************************************)
EXTENDS ImuCalibration, TLAPS

ReportJobs == {"BEGIN", "CONFIGURE"}
SensorJobs == {"SETUP", "RESTORE", "CALIBRATION_START", "CALIBRATION_STOP"}

Doing(jobs) == pc = "busy" /\ job.caller \in jobs

Program ==
  /\ Doing(ReportJobs) =>
       ops \in {<<"accel", "gyro", "quat">>, <<"gyro", "quat">>, <<"quat">>, <<>>}
  /\ Doing(SensorJobs) => ops \in {<<"mag", "config">>, <<"config">>, <<>>} /\ (ops # <<>> => ok)
  /\ Doing({"CALIBRATION_SAVE"}) => ops \in {<<"save">>, <<>>}
  /\ pc # "busy" => ops = <<>>

(* The mask that a job applies, and calibrating() before and after.           *)
Commanded ==
  /\ pc = "begin" \/ Doing({"BEGIN"}) => ~Calibrating
  /\ Doing({"SETUP"}) => ~Calibrating /\ job.mask = "DEFAULT"
  /\ Doing({"RESTORE"}) => job.mask = IF Calibrating THEN "CALIBRATING" ELSE "DEFAULT"
  /\ Doing({"CALIBRATION_START"}) =>
       job.mask = "CALIBRATING" /\ (Calibrating <=> ops = <<>> /\ ok)
  /\ Doing({"CALIBRATION_STOP"}) =>
       job.mask = "DEFAULT" /\ (~Calibrating <=> ops = <<>> /\ ok)
  /\ Doing({"CALIBRATION_SAVE"}) => Calibrating

Outcome == [result |-> last.result, cal |-> Calibrating] \in Outcomes(last.cmd, last.before)

(* The last command's answer stays true while no other is executed.           *)
Answered == ~Doing(CommandId) => Outcome

Reports ==
  Doing(ReportJobs) /\ ok =>
    /\ ops \in {<<"quat">>, <<>>} => hub.gyro
    /\ ops = <<>> => hub.quat

Sensors ==
  Doing(SensorJobs) /\ ok =>
    /\ ops \in {<<"config">>, <<>>} => hub.mag = (job.mask = "CALIBRATING")
    /\ ops = <<>> => hub.cal = job.mask /\ cal_mask = job.mask

(* What is so of the hub outside a job that is just changing it.              *)
Known ==
  /\ ~Doing(ReportJobs) /\ pc \notin {"begin", "error_loop"} /\ "reports" \notin failed => Reporting
  /\ ~Doing(ReportJobs \cup SensorJobs) /\ pc \notin {"begin", "error_loop"}
       /\ "calibration" \notin failed => CalibratingAs

HubKnown == ~ResetPending => Reports /\ Sensors /\ Known

IInv == TypeOK /\ Program /\ Commanded /\ Answered /\ HubKnown

-------------------------------------------------------------------------------
(* The programs. *)

LEMMA Programs ==
  /\ Head(<<"accel", "gyro", "quat">>) = "accel"
  /\ Tail(<<"accel", "gyro", "quat">>) = <<"gyro", "quat">>
  /\ Head(<<"gyro", "quat">>) = "gyro" /\ Tail(<<"gyro", "quat">>) = <<"quat">>
  /\ Head(<<"quat">>) = "quat" /\ Tail(<<"quat">>) = <<>>
  /\ Head(<<"mag", "config">>) = "mag" /\ Tail(<<"mag", "config">>) = <<"config">>
  /\ Head(<<"config">>) = "config" /\ Tail(<<"config">>) = <<>>
  /\ Head(<<"save">>) = "save" /\ Tail(<<"save">>) = <<>>
OBVIOUS

(* ... no two of them are equal, *)
LEMMA ProgramsDiffer ==
  /\ <<"accel", "gyro", "quat">> # <<>> /\ <<"gyro", "quat">> # <<>> /\ <<"quat">> # <<>>
  /\ <<"mag", "config">> # <<>> /\ <<"config">> # <<>> /\ <<"save">> # <<>>
  /\ <<"accel", "gyro", "quat">> # <<"quat">> /\ <<"gyro", "quat">> # <<"quat">>
  /\ <<"mag", "config">> # <<"config">>
OBVIOUS

(* ... and they have their type. *)
LEMMA ProgramTypes ==
  ASSUME NEW q \in {<<"accel", "gyro", "quat">>, <<"gyro", "quat">>, <<"quat">>,
                    <<"mag", "config">>, <<"config">>, <<"save">>, <<>>}
  PROVE  q \in Seq(Op) /\ Len(q) <= 3
<1>1. CASE q = <<"accel", "gyro", "quat">>
  BY <1>1 DEF Op
<1>2. CASE q = <<"gyro", "quat">>
  BY <1>2 DEF Op
<1>3. CASE q = <<"quat">>
  BY <1>3 DEF Op
<1>4. CASE q = <<"mag", "config">>
  BY <1>4 DEF Op
<1>5. CASE q = <<"config">>
  BY <1>5 DEF Op
<1>6. CASE q = <<"save">>
  BY <1>6 DEF Op
<1>7. CASE q = <<>>
  BY <1>7
<1> QED
  BY <1>1, <1>2, <1>3, <1>4, <1>5, <1>6, <1>7

(* What an operation does to the hub, field by field. *)
LEMMA HubEffect ==
  ASSUME TypeOK, NEW op \in Op, op = "config" => job.mask # "NONE"
  PROVE  /\ Effect(op) \in Hub
         /\ op # "gyro" => Effect(op).gyro = hub.gyro
         /\ op = "gyro" => Effect(op).gyro
         /\ op # "quat" => Effect(op).quat = hub.quat
         /\ op = "quat" => Effect(op).quat
         /\ op # "mag" => Effect(op).mag = hub.mag
         /\ op = "mag" => Effect(op).mag = (job.mask = "CALIBRATING")
         /\ op # "config" => Effect(op).cal = hub.cal
         /\ op = "config" => Effect(op).cal = job.mask
<1>0. hub \in Hub /\ job.mask \in Mask
  BY DEF TypeOK
<1>1. CASE op = "accel"
  BY <1>0, <1>1 DEF Effect, Hub
<1>2. CASE op = "gyro"
  BY <1>0, <1>2 DEF Effect, Hub
<1>3. CASE op = "quat"
  BY <1>0, <1>3 DEF Effect, Hub
<1>4. CASE op = "mag"
  BY <1>0, <1>4 DEF Effect, Hub
<1>5. CASE op = "config"
  BY <1>0, <1>5 DEF Effect, Hub, Mask
<1>6. CASE op = "save"
  BY <1>0, <1>6 DEF Effect, Hub
<1> QED
  BY <1>1, <1>2, <1>3, <1>4, <1>5, <1>6 DEF Op

-------------------------------------------------------------------------------
(* Nothing is configured, and nothing claimed. *)
LEMMA InitIInv == Init => IInv
<1> SUFFICES ASSUME Init
             PROVE  IInv
  OBVIOUS
<1>1. TypeOK
  <2>1. HubAfterReset \in Hub
    BY DEF HubAfterReset, Hub
  <2>2. ok \in BOOLEAN /\ unseen \in BOOLEAN /\ reset_occurred \in BOOLEAN
    BY Zenon DEF Init
  <2>3. ops \in Seq(Op) /\ Len(ops) <= 3
    BY DEF Init
  <2>4. /\ job \in [caller : Caller, mask : Mask]
        /\ last \in [cmd : CommandId, result : CommandResponse, before : BOOLEAN]
    BY DEF Init, Caller, Mask, CommandId, CommandResponse
  <2> QED
    BY <2>1, <2>2, <2>3, <2>4, CalibrationBounds DEF Init, TypeOK, Mask
<1>2. Program /\ Commanded /\ HubKnown
  BY DEF Init, Program, Commanded, HubKnown, Reports, Sensors, Known, Doing, Calibrating
<1>3. Answered
  <2>1. last.cmd = "CALIBRATION_STOP" /\ last.result = "OK" /\ last.before = FALSE
    BY DEF Init
  <2>2. Calibrating = FALSE
    BY DEF Init, Calibrating
  <2> QED
    BY <2>1, <2>2 DEF Answered, Outcome, Outcomes, StopOutcomes
<1> QED
  BY <1>1, <1>2, <1>3 DEF IInv

-------------------------------------------------------------------------------
(* The I2C operations. *)

LEMMA Callers == Caller = ReportJobs \cup SensorJobs \cup {"CALIBRATION_SAVE"}
BY DEF Caller, ReportJobs, SensorJobs, CommandId

(* The job's next operation, and what is left of it after that.               *)
LEMMA NextOp ==
  ASSUME IInv, pc = "busy", ops # <<>>
  PROVE  /\ job.caller \in ReportJobs =>
              \/ Head(ops) = "accel" /\ Tail(ops) = <<"gyro", "quat">>
              \/ Head(ops) = "gyro" /\ Tail(ops) = <<"quat">>
              \/ ops = <<"quat">> /\ Head(ops) = "quat" /\ Tail(ops) = <<>>
         /\ job.caller \in SensorJobs =>
              /\ ok /\ job.mask \in {"DEFAULT", "CALIBRATING"}
              /\ \/ Head(ops) = "mag" /\ Tail(ops) = <<"config">>
                 \/ ops = <<"config">> /\ Head(ops) = "config" /\ Tail(ops) = <<>>
         /\ job.caller = "CALIBRATION_SAVE" => Head(ops) = "save" /\ Tail(ops) = <<>>
<1>1. job.caller \in ReportJobs =>
        ops \in {<<"accel", "gyro", "quat">>, <<"gyro", "quat">>, <<"quat">>}
  BY DEF IInv, Program, Doing
<1>2. job.caller \in SensorJobs => ok /\ ops \in {<<"mag", "config">>, <<"config">>}
  BY DEF IInv, Program, Doing
<1>3. job.caller \in SensorJobs => job.mask \in {"DEFAULT", "CALIBRATING"}
  BY DEF IInv, Commanded, Doing, SensorJobs
<1>4. job.caller = "CALIBRATION_SAVE" => ops = <<"save">>
  BY DEF IInv, Program, Doing
<1> QED
  BY <1>1, <1>2, <1>3, <1>4, Programs

(* An operation succeeds: by whom, then which. *)
LEMMA OpSucceedsStep ==
  ASSUME IInv, OpSucceeds
  PROVE  IInv'
<1>1. /\ pc = "busy" /\ ops # <<>> /\ hub' = Effect(Head(ops)) /\ ops' = Tail(ops)
      /\ cal_mask' = IF Head(ops) = "config" THEN job.mask ELSE cal_mask
      /\ UNCHANGED <<pc, job, ok, unseen, reset_occurred, failed, last, faults, resets, commands>>
  BY DEF OpSucceeds, history
<1>2. TypeOK
  BY DEF IInv
<1>3. job.caller \in Caller
  BY <1>2 DEF TypeOK
<1>5. CASE job.caller \in ReportJobs
  <2>1. \/ Head(ops) = "accel" /\ Tail(ops) = <<"gyro", "quat">>
        \/ Head(ops) = "gyro" /\ Tail(ops) = <<"quat">>
        \/ ops = <<"quat">> /\ Head(ops) = "quat" /\ Tail(ops) = <<>>
    BY <1>1, <1>5, NextOp
  <2>2. /\ hub' \in Hub /\ cal_mask' = cal_mask
        /\ Head(ops) = "gyro" => hub'.gyro
        /\ Head(ops) = "quat" => hub'.quat /\ hub'.gyro = hub.gyro
    BY <1>1, <1>2, <2>1, HubEffect DEF Op
  <2>3. job.caller \notin SensorJobs /\ job.caller \notin CommandId
    BY <1>5 DEF ReportJobs, SensorJobs, CommandId
  <2>4. TypeOK'
    <3>1. ops' \in Seq(Op) /\ Len(ops') <= 3
      BY <1>1, <2>1, ProgramTypes
    <3> QED
      BY <1>1, <1>2, <2>2, <3>1 DEF TypeOK
  <2>5. Program'
    BY <1>1, <1>5, <2>1, <2>3 DEF Program, Doing, CommandId
  <2>6. Commanded' /\ Answered'
    <3>1. Commanded'
      BY <1>1, <2>2, <2>3 DEF IInv, Commanded, Doing, Calibrating, SensorJobs, CommandId
    <3>2. Answered'
      BY <1>1, <2>2, <2>3 DEF IInv, Answered, Outcome, Doing, Calibrating
    <3> QED
      BY <3>1, <3>2
  <2>7. HubKnown'
    <3> SUFFICES ASSUME ~ResetPending
                 PROVE  Reports' /\ Sensors' /\ Known'
      BY <1>1 DEF HubKnown, ResetPending
    <3>1. Reports
      BY DEF IInv, HubKnown
    <3>2. Reports'
      <4>1. CASE Head(ops) = "quat"
        BY <1>1, <1>5, <2>1, <2>2, <3>1, <4>1 DEF Reports, Doing
      <4>2. CASE Head(ops) # "quat"
        BY <1>1, <1>5, <2>1, <2>2, <4>2, ProgramsDiffer DEF Reports, Doing
      <4> QED
        BY <4>1, <4>2
    <3>3. Sensors' /\ Known'
      BY <1>1, <1>5, <2>3 DEF Sensors, Known, Doing
    <3> QED
      BY <3>2, <3>3
  <2> QED
    BY <2>4, <2>5, <2>6, <2>7 DEF IInv
<1>6. CASE job.caller \in SensorJobs
  <2>1. /\ ok /\ job.mask \in {"DEFAULT", "CALIBRATING"}
        /\ \/ Head(ops) = "mag" /\ Tail(ops) = <<"config">>
           \/ ops = <<"config">> /\ Head(ops) = "config" /\ Tail(ops) = <<>>
    BY <1>1, <1>6, NextOp
  <2>2. /\ hub' \in Hub /\ hub'.gyro = hub.gyro /\ hub'.quat = hub.quat
        /\ Head(ops) = "mag" => hub'.mag = (job.mask = "CALIBRATING")
        /\ Head(ops) = "config" => hub'.mag = hub.mag /\ hub'.cal = job.mask
    <3>1. Head(ops) \in Op /\ (Head(ops) = "config" => job.mask # "NONE")
      BY <2>1 DEF Op
    <3> QED
      BY <1>1, <1>2, <2>1, <3>1, HubEffect
  <2>3. job.caller \notin ReportJobs /\ job.caller # "CALIBRATION_SAVE"
    BY <1>6 DEF ReportJobs, SensorJobs
  <2>4. TypeOK'
    <3>1. ops' \in Seq(Op) /\ Len(ops') <= 3
      BY <1>1, <2>1, ProgramTypes
    <3>2. cal_mask' \in Mask
      BY <1>1, <1>2 DEF TypeOK
    <3> QED
      BY <1>1, <1>2, <2>2, <3>1, <3>2 DEF TypeOK
  <2>5. Program'
    BY <1>1, <1>6, <2>1, <2>3 DEF Program, Doing
  <2>6. Commanded'
    <3>1. CASE Head(ops) = "mag"
      BY <1>1, <2>1, <2>3, <3>1, ProgramsDiffer DEF IInv, Commanded, Doing, Calibrating, ReportJobs
    <3>2. CASE Head(ops) = "config"
      BY <1>1, <2>1, <2>3, <3>2 DEF IInv, Commanded, Doing, Calibrating, ReportJobs
    <3> QED
      BY <2>1, <3>1, <3>2
  <2>7. Answered'
    <3>1. CASE job.caller \in CommandId
      BY <1>1, <3>1 DEF Answered, Doing
    <3>2. CASE job.caller \notin CommandId
      <4>1. Calibrating' = Calibrating
        BY <1>1, <1>6, <2>1, <3>2
           DEF IInv, Commanded, Doing, Calibrating, SensorJobs, CommandId
      <4> QED
        BY <1>1, <3>2, <4>1 DEF IInv, Answered, Outcome, Doing
    <3> QED
      BY <3>1, <3>2
  <2>8. HubKnown'
    <3> SUFFICES ASSUME ~ResetPending
                 PROVE  Reports' /\ Sensors' /\ Known'
      BY <1>1 DEF HubKnown, ResetPending
    <3>1. Sensors /\ Known
      BY DEF IInv, HubKnown
    <3>2. Sensors'
      <4>1. CASE Head(ops) = "mag"
        BY <1>1, <1>6, <2>1, <2>2, <4>1, ProgramsDiffer DEF Sensors, Doing
      <4>2. CASE Head(ops) = "config"
        BY <1>1, <1>6, <2>1, <2>2, <3>1, <4>2 DEF Sensors, Doing
      <4> QED
        BY <2>1, <4>1, <4>2
    <3>3. Reports'
      BY <1>1, <2>3 DEF Reports, Doing
    <3>4. Known'
      BY <1>1, <1>6, <2>2, <2>3, <3>1 DEF Known, Doing, Reporting
    <3> QED
      BY <3>2, <3>3, <3>4
  <2> QED
    BY <2>4, <2>5, <2>6, <2>7, <2>8 DEF IInv
<1>7. CASE job.caller = "CALIBRATION_SAVE"
  <2>1. Head(ops) = "save" /\ Tail(ops) = <<>>
    BY <1>1, <1>7, NextOp
  <2>2. hub' = hub /\ cal_mask' = cal_mask
    BY <1>1, <2>1 DEF Effect
  <2>3. job.caller \notin ReportJobs /\ job.caller \notin SensorJobs
    BY <1>7 DEF ReportJobs, SensorJobs
  <2>4. TypeOK'
    <3>1. ops' \in Seq(Op) /\ Len(ops') <= 3
      BY <1>1, <2>1, ProgramTypes
    <3> QED
      BY <1>1, <1>2, <2>2, <3>1 DEF TypeOK
  <2>5. Program' /\ Commanded'
    BY <1>1, <1>7, <2>1, <2>2, <2>3 DEF IInv, Program, Commanded, Doing, Calibrating, ReportJobs, SensorJobs
  <2>6. Answered'
    BY <1>1, <1>7 DEF Answered, Doing, CommandId
  <2>7. HubKnown'
    BY <1>1, <1>7, <2>2, <2>3
       DEF IInv, HubKnown, ResetPending, Reports, Sensors, Known, Doing, Reporting, CalibratingAs, Calibrating
  <2> QED
    BY <2>4, <2>5, <2>6, <2>7 DEF IInv
<1> QED
  BY <1>3, <1>5, <1>6, <1>7, Callers

(* An operation fails, and may have taken effect. *)
LEMMA OpFailsStep ==
  ASSUME IInv, OpFails
  PROVE  IInv'
<1>1. /\ pc = "busy" /\ ops # <<>> /\ hub' \in {hub, Effect(Head(ops))}
      /\ ops' = IF Head(ops) \in {"accel", "gyro", "quat"} THEN Tail(ops) ELSE <<>>
      /\ ok' = (ok /\ Head(ops) = "accel")
      /\ faults < MaxFaults /\ faults' = faults + 1
      /\ UNCHANGED <<pc, job, cal_mask, unseen, reset_occurred, failed, last, resets, commands>>
  BY DEF OpFails, history
<1>2. TypeOK
  BY DEF IInv
<1>3. job.caller \in Caller
  BY <1>2 DEF TypeOK
<1>4. ok' \in BOOLEAN /\ (ok' => ok /\ Head(ops) = "accel")
  BY <1>1, Zenon
<1>5. ASSUME ops' \in Seq(Op), Len(ops') <= 3, hub' \in Hub
      PROVE  TypeOK'
  <2>1. faults' \in 0 .. MaxFaults
    BY <1>1, <1>2, CalibrationBounds DEF TypeOK
  <2> QED
    BY <1>1, <1>2, <1>4, <1>5, <2>1 DEF TypeOK
<1>6. Answered'
  BY <1>1 DEF IInv, Answered, Outcome, Doing, Calibrating
<1>7. CASE job.caller \in ReportJobs
  <2>1. \/ Head(ops) = "accel" /\ ops' = <<"gyro", "quat">>
        \/ Head(ops) = "gyro" /\ ops' = <<"quat">>
        \/ Head(ops) = "quat" /\ ops' = <<>>
    BY <1>1, <1>7, NextOp
  <2>2. hub' \in Hub
    <3>1. Head(ops) \in Op /\ Head(ops) # "config"
      BY <2>1 DEF Op
    <3>2. Effect(Head(ops)) \in Hub
      BY <1>2, <3>1, HubEffect
    <3> QED
      BY <1>1, <1>2, <3>2 DEF TypeOK
  <2>3. job.caller \notin SensorJobs /\ job.caller \notin CommandId
    BY <1>7 DEF ReportJobs, SensorJobs, CommandId
  <2>4. TypeOK'
    BY <1>5, <2>1, <2>2, ProgramTypes
  <2>5. Program'
    BY <1>1, <1>7, <2>1, <2>3 DEF Program, Doing, CommandId
  <2>6. Commanded'
    BY <1>1, <2>3 DEF IInv, Commanded, Doing, Calibrating, SensorJobs, CommandId
  <2>7. HubKnown'
    <3>1. Reports'
      BY <1>4, <2>1, ProgramsDiffer DEF Reports
    <3>2. Sensors' /\ Known'
      BY <1>1, <1>7, <2>3 DEF Sensors, Known, Doing
    <3> QED
      BY <3>1, <3>2 DEF HubKnown
  <2> QED
    BY <1>6, <2>4, <2>5, <2>6, <2>7 DEF IInv
<1>8. CASE job.caller \in SensorJobs
  <2>1. /\ ok /\ job.mask \in {"DEFAULT", "CALIBRATING"}
        /\ Head(ops) \in {"mag", "config"} /\ ops' = <<>> /\ ~ok'
    BY <1>1, <1>4, <1>8, NextOp
  <2>2. hub' \in Hub /\ hub'.gyro = hub.gyro /\ hub'.quat = hub.quat
    <3>1. Head(ops) \in Op /\ Head(ops) \notin {"gyro", "quat"} /\ job.mask # "NONE"
      BY <2>1 DEF Op
    <3>2. /\ Effect(Head(ops)) \in Hub
          /\ Effect(Head(ops)).gyro = hub.gyro /\ Effect(Head(ops)).quat = hub.quat
      BY <1>2, <3>1, HubEffect
    <3> QED
      BY <1>1, <1>2, <3>2 DEF TypeOK
  <2>3. job.caller \notin ReportJobs /\ job.caller # "CALIBRATION_SAVE"
    BY <1>8 DEF ReportJobs, SensorJobs
  <2>4. TypeOK'
    BY <1>5, <2>1, <2>2, ProgramTypes
  <2>5. Program'
    BY <1>1, <2>1, <2>3 DEF Program, Doing
  <2>6. Commanded'
    BY <1>1, <2>1, <2>3 DEF IInv, Commanded, Doing, Calibrating, ReportJobs
  <2>7. HubKnown'
    <3> SUFFICES ASSUME ~ResetPending
                 PROVE  Reports' /\ Sensors' /\ Known'
      BY <1>1 DEF HubKnown, ResetPending
    <3>1. Known
      BY DEF IInv, HubKnown
    <3>2. Reports' /\ Sensors'
      BY <2>1 DEF Reports, Sensors
    <3>3. Known'
      BY <1>1, <1>8, <2>2, <2>3, <3>1 DEF Known, Doing, Reporting
    <3> QED
      BY <3>2, <3>3
  <2> QED
    BY <1>6, <2>4, <2>5, <2>6, <2>7 DEF IInv
<1>9. CASE job.caller = "CALIBRATION_SAVE"
  <2>1. Head(ops) = "save" /\ ops' = <<>>
    BY <1>1, <1>9, NextOp
  <2>2. hub' = hub
    BY <1>1, <2>1 DEF Effect
  <2>3. job.caller \notin ReportJobs /\ job.caller \notin SensorJobs
    BY <1>9 DEF ReportJobs, SensorJobs
  <2>4. TypeOK'
    BY <1>2, <1>5, <2>1, <2>2, ProgramTypes DEF TypeOK
  <2>5. Program' /\ Commanded'
    BY <1>1, <1>9, <2>1, <2>3 DEF IInv, Program, Commanded, Doing, Calibrating, ReportJobs, SensorJobs
  <2>6. HubKnown'
    BY <1>1, <1>9, <2>2, <2>3
       DEF IInv, HubKnown, ResetPending, Reports, Sensors, Known, Doing, Reporting, CalibratingAs, Calibrating
  <2> QED
    BY <1>6, <2>4, <2>5, <2>6 DEF IInv
<1> QED
  BY <1>3, <1>7, <1>8, <1>9, Callers

-------------------------------------------------------------------------------
(* The jobs' beginnings and ends. *)

LEMMA RunType ==
  ASSUME TypeOK, NEW c \in Caller, NEW m \in Mask,
         NEW q \in {<<"accel", "gyro", "quat">>, <<"mag", "config">>, <<"save">>}, Run(c, m, q)
  PROVE  /\ pc' = "busy" /\ job' \in [caller : Caller, mask : Mask]
         /\ job'.caller = c /\ job'.mask = m
         /\ ops' = q /\ ops' \in Seq(Op) /\ Len(ops') <= 3
         /\ ok' /\ ok' \in BOOLEAN
<1>1. ok' = TRUE
  BY Zenon DEF Run
<1>2. q \in Seq(Op) /\ Len(q) <= 3
  BY ProgramTypes
<1> QED
  BY <1>1, <1>2 DEF Run

(* setup(): begin(), configure(), the default calibration. *)
LEMMA SetupStep ==
  ASSUME IInv, Begin \/ BeginDone \/ SetupDone
  PROVE  IInv'
<1>1. UNCHANGED <<cal_mask, hub, unseen, reset_occurred, last, faults, resets, commands>>
  BY DEF Begin, BeginDone, SetupDone, history
<1>2. TypeOK /\ ~Calibrating /\ Outcome
  <2>1. ~Doing(CommandId) /\ ~Calibrating
    BY DEF IInv, Commanded, Begin, BeginDone, SetupDone, Doing, CommandId
  <2> QED
    BY <2>1 DEF IInv, Answered
<1>3. ~Calibrating' /\ Outcome'
  BY <1>1, <1>2 DEF Calibrating, Outcome
<1>4. CASE Begin /\ RunConfigure("BEGIN")
  <2>1. /\ pc' = "busy" /\ job' \in [caller : Caller, mask : Mask] /\ job'.caller = "BEGIN"
        /\ ops' = <<"accel", "gyro", "quat">> /\ ops' \in Seq(Op) /\ Len(ops') <= 3
        /\ ok' \in BOOLEAN /\ failed' = failed
    BY <1>2, <1>4, RunType DEF Begin, RunConfigure, history, Caller, Mask
  <2>2. TypeOK'
    BY <1>1, <1>2, <2>1 DEF TypeOK
  <2> QED
    BY <1>3, <2>1, <2>2, ProgramsDiffer
       DEF IInv, Program, Commanded, Answered, HubKnown, Reports, Sensors, Known, Doing,
           ReportJobs, SensorJobs, CommandId
<1>5. CASE pc' = "error_loop" /\ UNCHANGED <<job, ops, ok, failed>> /\ ops = <<>>
  <2>1. TypeOK'
    BY <1>1, <1>2, <1>5 DEF TypeOK
  <2> QED
    BY <1>3, <1>5, <2>1
       DEF IInv, Program, Commanded, Answered, HubKnown, Reports, Sensors, Known, Doing
<1>6. CASE BeginDone /\ ok /\ RunCalibrate("SETUP", "DEFAULT")
  <2>1. /\ pc' = "busy" /\ job' \in [caller : Caller, mask : Mask] /\ job'.caller = "SETUP"
        /\ job'.mask = "DEFAULT"
        /\ ops' = <<"mag", "config">> /\ ops' \in Seq(Op) /\ Len(ops') <= 3
        /\ ok' \in BOOLEAN /\ ok' /\ failed' = failed
    BY <1>2, <1>6, RunType DEF BeginDone, RunCalibrate, history, Caller, Mask
  <2>2. TypeOK'
    BY <1>1, <1>2, <2>1 DEF TypeOK
  <2>3. Program' /\ Commanded' /\ Answered'
    BY <1>3, <2>1 DEF Program, Commanded, Answered, Doing, ReportJobs, SensorJobs, CommandId
  <2>4. ~ResetPending => hub.gyro /\ hub.quat
    BY <1>6 DEF IInv, HubKnown, Reports, Doing, ReportJobs, BeginDone
  <2>5. HubKnown'
    BY <1>1, <2>1, <2>4, ProgramsDiffer
       DEF HubKnown, ResetPending, Reports, Sensors, Known, Doing, Reporting, ReportJobs, SensorJobs
  <2> QED
    BY <2>2, <2>3, <2>5 DEF IInv
<1>7. CASE SetupDone
  <2>1. /\ pc = "busy" /\ ops = <<>> /\ job.caller = "SETUP"
        /\ pc' = "poll" /\ failed' = CalibrateResult /\ UNCHANGED <<job, ops, ok>>
    BY <1>7 DEF SetupDone
  <2>2. TypeOK'
    BY <1>1, <1>2, <2>1 DEF TypeOK, CalibrateResult
  <2>3. Program' /\ Commanded' /\ Answered'
    BY <1>3, <2>1 DEF Program, Commanded, Answered, Doing
  <2>4. HubKnown'
    <3> SUFFICES ASSUME ~ResetPending
                 PROVE  Reports' /\ Sensors' /\ Known'
      BY <1>1 DEF HubKnown, ResetPending
    <3>1. "reports" \notin failed => Reporting
      BY <2>1 DEF IInv, HubKnown, Known, Doing, ReportJobs
    <3>2. ok => CalibratingAs
      BY <1>2, <2>1 DEF IInv, Commanded, HubKnown, Sensors, Doing, SensorJobs, CalibratingAs, Calibrating
    <3> QED
      BY <1>1, <2>1, <3>1, <3>2
         DEF Reports, Sensors, Known, Doing, Reporting, CalibratingAs, Calibrating, CalibrateResult
  <2> QED
    BY <2>2, <2>3, <2>4 DEF IInv
<1> QED
  <2>1. pc = "begin" => ops = <<>>
    BY DEF IInv, Program
  <2> QED
    BY <1>4, <1>5, <1>6, <1>7, <2>1 DEF Begin, BeginDone, SetupDone, history

(* A command that is answered at once, or a job that it starts. *)
LEMMA CommandStep ==
  ASSUME IInv, StartCalibrationCommand \/ SaveCalibrationCommand \/ StopCalibrationCommand
  PROVE  IInv'
<1>1. /\ pc = "poll" /\ commands < MaxCommands /\ commands' = commands + 1
      /\ UNCHANGED <<cal_mask, hub, unseen, reset_occurred, failed, faults, resets>>
  BY DEF StartCalibrationCommand, SaveCalibrationCommand, StopCalibrationCommand, Polled
<1>2. TypeOK /\ ops = <<>> /\ Calibrating' = Calibrating
  BY <1>1 DEF IInv, Program, Calibrating
<1>3. commands' \in 0 .. MaxCommands
  BY <1>1, <1>2, CalibrationBounds DEF TypeOK
<1>4. ~ResetPending => ("reports" \notin failed => Reporting) /\ ("calibration" \notin failed => CalibratingAs)
  BY <1>1 DEF IInv, HubKnown, Known, Doing
<1>5. ASSUME NEW c \in CommandId, NEW r \in CommandResponse, Answer(c, r),
             [result |-> r, cal |-> Calibrating] \in Outcomes(c, Calibrating)
      PROVE  IInv'
  <2>1. /\ last'.cmd = c /\ last'.result = r /\ last'.before = Calibrating
        /\ last' \in [cmd : CommandId, result : CommandResponse, before : BOOLEAN]
        /\ pc' = "check" /\ UNCHANGED <<job, ops, ok>>
    <3>1. Calibrating \in BOOLEAN
      BY DEF Calibrating
    <3> QED
      BY <1>5, <3>1 DEF Answer
  <2>2. TypeOK'
    BY <1>1, <1>2, <1>3, <2>1 DEF TypeOK
  <2>3. Program' /\ Commanded'
    BY <1>2, <2>1 DEF Program, Commanded, Doing
  <2>4. Answered'
    BY <1>2, <1>5, <2>1 DEF Answered, Outcome
  <2>5. HubKnown'
    BY <1>1, <1>2, <1>4, <2>1
       DEF HubKnown, ResetPending, Reports, Sensors, Known, Doing, Reporting, CalibratingAs
  <2> QED
    BY <2>2, <2>3, <2>4, <2>5 DEF IInv
<1>6. ASSUME NEW c \in CommandId, NEW m \in Mask, NEW q \in {<<"mag", "config">>, <<"save">>},
             Run(c, m, q), UNCHANGED last,
             c = "CALIBRATION_START" => ~Calibrating /\ m = "CALIBRATING" /\ q = <<"mag", "config">>,
             c = "CALIBRATION_STOP" => Calibrating /\ m = "DEFAULT" /\ q = <<"mag", "config">>,
             c = "CALIBRATION_SAVE" => Calibrating /\ q = <<"save">>
      PROVE  IInv'
  <2>1. /\ pc' = "busy" /\ job' \in [caller : Caller, mask : Mask]
        /\ job'.caller = c /\ job'.mask = m
        /\ ops' = q /\ ops' \in Seq(Op) /\ Len(ops') <= 3
        /\ ok' /\ ok' \in BOOLEAN
    BY <1>2, <1>6, RunType DEF Caller
  <2>2. TypeOK'
    BY <1>1, <1>2, <1>3, <1>6, <2>1 DEF TypeOK
  <2>3. c \notin ReportJobs /\ c \notin {"SETUP", "RESTORE", "BEGIN"}
    BY DEF CommandId, ReportJobs
  <2>4. Program'
    BY <1>6, <2>1, <2>3 DEF Program, Doing, SensorJobs
  <2>5. Commanded'
    BY <1>2, <1>6, <2>1, <2>3, ProgramsDiffer DEF Commanded, Doing
  <2>6. Answered'
    BY <2>1 DEF Answered, Doing
  <2>7. HubKnown'
    <3>1. ~Doing(ReportJobs)'
      BY <2>1, <2>3 DEF Doing
    <3>2. c \in SensorJobs => q # <<"config">> /\ q # <<>>
      BY <1>6, ProgramsDiffer DEF SensorJobs, CommandId
    <3>3. Sensors'
      BY <2>1, <3>2 DEF Sensors, Doing
    <3>4. ~ResetPending' => Known'
      BY <1>1, <1>2, <1>4, <2>1, <2>3 DEF ResetPending, Known, Doing, Reporting, CalibratingAs
    <3> QED
      BY <3>1, <3>3, <3>4 DEF HubKnown, Reports
  <2> QED
    BY <2>2, <2>4, <2>5, <2>6, <2>7 DEF IInv
<1>7. CASE StartCalibrationCommand
  <2>1. CASE Calibrating /\ Answer("CALIBRATION_START", "OK")
    <3>1. [result |-> "OK", cal |-> Calibrating] \in Outcomes("CALIBRATION_START", Calibrating)
      BY <2>1 DEF Outcomes, StartOutcomes, Calibrating
    <3> QED
      BY <1>5, <2>1, <3>1 DEF CommandId, CommandResponse
  <2>2. CASE ~Calibrating /\ RunCalibrate("CALIBRATION_START", "CALIBRATING") /\ UNCHANGED last
    BY <1>6, <2>2 DEF RunCalibrate, CommandId, Mask
  <2> QED
    BY <1>7, <2>1, <2>2 DEF StartCalibrationCommand
<1>8. CASE SaveCalibrationCommand
  <2>1. CASE ~Calibrating /\ Answer("CALIBRATION_SAVE", "INVALID_STATE")
    <3>1. [result |-> "INVALID_STATE", cal |-> Calibrating] \in Outcomes("CALIBRATION_SAVE", Calibrating)
      BY <2>1 DEF Outcomes, SaveOutcomes, Calibrating
    <3> QED
      BY <1>5, <2>1, <3>1 DEF CommandId, CommandResponse
  <2>2. CASE Calibrating /\ Run("CALIBRATION_SAVE", "NONE", <<"save">>) /\ UNCHANGED last
    BY <1>6, <2>2 DEF CommandId, Mask
  <2> QED
    BY <1>8, <2>1, <2>2 DEF SaveCalibrationCommand
<1>9. CASE StopCalibrationCommand
  <2>1. CASE ~Calibrating /\ Answer("CALIBRATION_STOP", "OK")
    <3>1. [result |-> "OK", cal |-> Calibrating] \in Outcomes("CALIBRATION_STOP", Calibrating)
      BY <2>1 DEF Outcomes, StopOutcomes, Calibrating
    <3> QED
      BY <1>5, <2>1, <3>1 DEF CommandId, CommandResponse
  <2>2. CASE Calibrating /\ RunCalibrate("CALIBRATION_STOP", "DEFAULT") /\ UNCHANGED last
    BY <1>6, <2>2 DEF RunCalibrate, CommandId, Mask
  <2> QED
    BY <1>9, <2>1, <2>2 DEF StopCalibrationCommand
<1> QED
  BY <1>7, <1>8, <1>9

(* A command's job ends: what calibrating() was before follows from the command. *)
LEMMA CommandDoneStep ==
  ASSUME IInv, CommandDone
  PROVE  IInv'
<1>1. /\ pc = "busy" /\ ops = <<>> /\ job.caller \in CommandId /\ pc' = "check"
      /\ last' = [cmd |-> job.caller, result |-> IF ok THEN "OK" ELSE "SENSOR_ERROR",
                  before |-> job.caller # "CALIBRATION_START"]
      /\ failed' = IF job.caller = "CALIBRATION_SAVE" THEN failed ELSE CalibrateResult
      /\ UNCHANGED <<job, ops, ok, cal_mask, hub, unseen, reset_occurred, faults, resets, commands>>
  BY DEF CommandDone
<1>2. TypeOK /\ Calibrating' = Calibrating
  BY <1>1 DEF IInv, Calibrating
<1>3. TypeOK'
  <2>1. last' \in [cmd : CommandId, result : CommandResponse, before : BOOLEAN]
    BY <1>1 DEF CommandResponse
  <2>2. failed' \subseteq {"reports", "calibration"}
    BY <1>1, <1>2 DEF TypeOK, CalibrateResult
  <2> QED
    BY <1>1, <1>2, <2>1, <2>2 DEF TypeOK
<1>4. Program' /\ Commanded'
  BY <1>1 DEF Program, Commanded, Doing
<1>5. Answered'
  <2>1. /\ job.caller = "CALIBRATION_START" => (Calibrating <=> ok)
        /\ job.caller = "CALIBRATION_STOP" => (~Calibrating <=> ok)
        /\ job.caller = "CALIBRATION_SAVE" => Calibrating
    BY <1>1 DEF IInv, Commanded, Doing
  <2>2. Calibrating \in BOOLEAN
    BY DEF Calibrating
  <2>3. [result |-> IF ok THEN "OK" ELSE "SENSOR_ERROR", cal |-> Calibrating]
          \in Outcomes(job.caller, job.caller # "CALIBRATION_START")
    BY <1>1, <2>1, <2>2 DEF CommandId, Outcomes, StartOutcomes, SaveOutcomes, StopOutcomes
  <2> QED
    BY <1>1, <1>2, <2>3 DEF Answered, Outcome
<1>6. HubKnown'
  <2> SUFFICES ASSUME ~ResetPending
               PROVE  Reports' /\ Sensors' /\ Known'
    BY <1>1 DEF HubKnown, ResetPending
  <2>1. job.caller \notin ReportJobs /\ Sensors /\ Known
    BY <1>1 DEF IInv, HubKnown, CommandId, ReportJobs
  <2>2. "reports" \notin failed => Reporting
    BY <1>1, <2>1 DEF Known, Doing
  <2>3. CASE job.caller = "CALIBRATION_SAVE"
    <3>1. "calibration" \notin failed => CalibratingAs
      BY <1>1, <2>1, <2>3 DEF Known, Doing, SensorJobs, ReportJobs
    <3> QED
      BY <1>1, <1>2, <2>2, <2>3, <3>1 DEF Reports, Sensors, Known, Doing, Reporting, CalibratingAs
  <2>4. CASE job.caller # "CALIBRATION_SAVE"
    <3>1. job.caller \in SensorJobs /\ job.mask \in {"DEFAULT", "CALIBRATING"}
      BY <1>1, <2>4 DEF IInv, Commanded, Doing, SensorJobs, CommandId
    <3>2. ok => CalibratingAs
      BY <1>1, <2>1, <3>1 DEF Sensors, Doing, CalibratingAs, Calibrating
    <3> QED
      BY <1>1, <1>2, <2>2, <2>4, <3>2
         DEF Reports, Sensors, Known, Doing, Reporting, CalibratingAs, CalibrateResult
  <2> QED
    BY <2>3, <2>4
<1> QED
  BY <1>3, <1>4, <1>5, <1>6 DEF IInv
(* loop() looks for a reset of the hub, and recovers from it. *)
LEMMA CheckStep ==
  ASSUME IInv, NoCommand \/ WasReset \/ WasNotReset
  PROVE  IInv'
<1>1. UNCHANGED <<cal_mask, hub, unseen, failed, last, faults, resets, commands>>
  BY DEF NoCommand, WasReset, WasNotReset, history
<1>2. TypeOK /\ ops = <<>> /\ pc \in {"poll", "check"} /\ Calibrating' = Calibrating
  BY <1>1 DEF IInv, Program, Calibrating, NoCommand, WasReset, WasNotReset
<1>3. Outcome
  BY <1>2 DEF IInv, Answered, Doing
<1>4. CASE NoCommand \/ WasNotReset
  <2>1. pc' \in {"poll", "check"} /\ UNCHANGED <<job, ops, ok, reset_occurred>>
    BY <1>4 DEF NoCommand, WasNotReset
  <2>2. TypeOK'
    BY <1>1, <1>2, <2>1 DEF TypeOK
  <2>3. Program' /\ Commanded' /\ Answered'
    BY <1>1, <1>2, <1>3, <2>1 DEF Program, Commanded, Answered, Outcome, Doing
  <2>4. HubKnown'
    BY <1>1, <1>2, <2>1
       DEF IInv, HubKnown, ResetPending, Reports, Sensors, Known, Doing, Reporting, CalibratingAs
  <2> QED
    BY <2>2, <2>3, <2>4 DEF IInv
<1>5. CASE WasReset
  <2>1. /\ pc' = "busy" /\ job' \in [caller : Caller, mask : Mask] /\ job'.caller = "CONFIGURE"
        /\ ops' = <<"accel", "gyro", "quat">> /\ ops' \in Seq(Op) /\ Len(ops') <= 3
        /\ ok' \in BOOLEAN /\ reset_occurred' = FALSE
    BY <1>2, <1>5, RunType DEF WasReset, RunConfigure, Caller, Mask
  <2>2. TypeOK'
    BY <1>1, <1>2, <2>1 DEF TypeOK
  <2>3. Program' /\ Commanded' /\ Answered'
    BY <1>1, <1>2, <1>3, <2>1
       DEF Program, Commanded, Answered, Outcome, Doing, ReportJobs, SensorJobs, CommandId
  <2>4. Reports' /\ Sensors'
    BY <2>1, ProgramsDiffer DEF Reports, Sensors, Doing, SensorJobs
  <2>5. Known'
    BY <2>1 DEF Known, Doing, ReportJobs
  <2> QED
    BY <2>2, <2>3, <2>4, <2>5 DEF IInv, HubKnown
<1> QED
  BY <1>4, <1>5

(* configure() is done, or has failed and ends the recovery. *)
LEMMA ConfigureDoneStep ==
  ASSUME IInv, ConfigureDone
  PROVE  IInv'
<1>1. /\ pc = "busy" /\ ops = <<>> /\ job.caller = "CONFIGURE"
      /\ UNCHANGED <<cal_mask, hub, unseen, reset_occurred, last, faults, resets, commands>>
  BY DEF ConfigureDone
<1>2. TypeOK /\ Calibrating' = Calibrating
  BY <1>1 DEF IInv, Calibrating
<1>3. Outcome'
  BY <1>1, <1>2 DEF IInv, Answered, Outcome, Doing, CommandId
<1>4. CASE ~ok
  <2>1. pc' = "poll" /\ failed' = {"reports", "calibration"} /\ UNCHANGED <<job, ops, ok>>
    BY <1>4 DEF ConfigureDone
  <2>2. TypeOK'
    BY <1>1, <1>2, <2>1 DEF TypeOK
  <2>3. Program' /\ Commanded' /\ Answered' /\ HubKnown'
    BY <1>1, <1>3, <2>1 DEF Program, Commanded, Answered, HubKnown, Reports, Sensors, Known, Doing
  <2> QED
    BY <2>2, <2>3 DEF IInv
<1>5. CASE ok
  <2> DEFINE mask == IF Calibrating THEN "CALIBRATING" ELSE "DEFAULT"
  <2>1. RunCalibrate("RESTORE", mask) /\ failed' = failed \ {"reports"}
    BY <1>5 DEF ConfigureDone
  <2>2. mask \in Mask
    BY DEF Mask
  <2> HIDE DEF mask
  <2>3. /\ pc' = "busy" /\ job' \in [caller : Caller, mask : Mask] /\ job'.caller = "RESTORE"
        /\ job'.mask = mask
        /\ ops' = <<"mag", "config">> /\ ops' \in Seq(Op) /\ Len(ops') <= 3
        /\ ok' /\ ok' \in BOOLEAN
    BY <1>2, <2>1, <2>2, RunType DEF RunCalibrate, Caller
  <2>4. TypeOK'
    BY <1>1, <1>2, <2>1, <2>3 DEF TypeOK
  <2>5. Program' /\ Answered'
    BY <1>3, <2>3 DEF Program, Answered, Doing, ReportJobs, SensorJobs, CommandId
  <2>6. Commanded'
    BY <1>2, <2>3 DEF Commanded, Doing, mask
  <2>7. HubKnown'
    <3>1. ~ResetPending => Reporting
      BY <1>1, <1>5 DEF IInv, HubKnown, Reports, Doing, ReportJobs, Reporting
    <3> QED
      BY <1>1, <2>3, <3>1, ProgramsDiffer
         DEF HubKnown, ResetPending, Reports, Sensors, Known, Doing, Reporting, ReportJobs, SensorJobs
  <2> QED
    BY <2>4, <2>5, <2>6, <2>7 DEF IInv
<1> QED
  BY <1>4, <1>5

(* The recovery ends. *)
LEMMA RestoreDoneStep ==
  ASSUME IInv, RestoreDone
  PROVE  IInv'
<1>1. /\ pc = "busy" /\ ops = <<>> /\ job.caller = "RESTORE"
      /\ pc' = "poll" /\ failed' = CalibrateResult
      /\ UNCHANGED <<job, ops, ok, cal_mask, hub, unseen, reset_occurred, last, faults, resets, commands>>
  BY DEF RestoreDone
<1>2. TypeOK /\ Calibrating' = Calibrating
  BY <1>1 DEF IInv, Calibrating
<1>3. Outcome'
  BY <1>1, <1>2 DEF IInv, Answered, Outcome, Doing, CommandId
<1>4. TypeOK'
  BY <1>1, <1>2 DEF TypeOK, CalibrateResult
<1>5. Program' /\ Commanded' /\ Answered'
  BY <1>1, <1>3 DEF Program, Commanded, Answered, Doing
<1>6. HubKnown'
  <2> SUFFICES ASSUME ~ResetPending
               PROVE  Reports' /\ Sensors' /\ Known'
    BY <1>1 DEF HubKnown, ResetPending
  <2>1. "reports" \notin failed => Reporting
    BY <1>1 DEF IInv, HubKnown, Known, Doing, ReportJobs
  <2>2. ok => CalibratingAs
    BY <1>1 DEF IInv, Commanded, HubKnown, Sensors, Doing, SensorJobs, CalibratingAs, Calibrating
  <2> QED
    BY <1>1, <1>2, <2>1, <2>2
       DEF Reports, Sensors, Known, Doing, Reporting, CalibratingAs, CalibrateResult
<1> QED
  BY <1>4, <1>5, <1>6 DEF IInv

(* The hub resets at any point, and the library notices it. *)
LEMMA ResetStep ==
  ASSUME IInv, HubReset \/ NoticeReset
  PROVE  IInv'
<1>1. UNCHANGED <<pc, job, ops, ok, cal_mask, failed, last, faults, commands>>
  BY DEF HubReset, NoticeReset, firmware, history
<1>2. hub' \in {hub, HubAfterReset} /\ unseen' \in BOOLEAN /\ reset_occurred' \in {reset_occurred, TRUE}
  BY DEF HubReset, NoticeReset
<1>3. ResetPending'
  BY DEF HubReset, NoticeReset, ResetPending
<1>4. resets' \in 0 .. MaxHubResets
  BY CalibrationBounds DEF IInv, TypeOK, HubReset, NoticeReset
<1>5. TypeOK'
  <2>1. HubAfterReset \in Hub
    BY DEF HubAfterReset, Hub
  <2> QED
    BY <1>1, <1>2, <1>4, <2>1 DEF IInv, TypeOK
<1>6. Program' /\ Commanded' /\ Answered'
  BY <1>1 DEF IInv, Program, Commanded, Answered, Outcome, Doing, Calibrating
<1> QED
  BY <1>3, <1>5, <1>6 DEF IInv, HubKnown

-------------------------------------------------------------------------------
(* Every step keeps the invariant. *)
LEMMA NextIInv == IInv /\ [Next]_vars => IInv'
<1> SUFFICES ASSUME IInv, [Next]_vars
             PROVE  IInv'
  OBVIOUS
<1>1. CASE UNCHANGED vars
  BY <1>1
     DEF vars, firmware, history, IInv, TypeOK, Program, Commanded, Answered, Outcome, HubKnown,
         ResetPending, Reports, Sensors, Known, Doing, Reporting, CalibratingAs, Calibrating
<1>2. CASE FirmwareStep
  BY <1>2, OpSucceedsStep, OpFailsStep, SetupStep, CommandStep, CommandDoneStep, CheckStep,
     ConfigureDoneStep, RestoreDoneStep DEF FirmwareStep
<1>3. CASE HubReset \/ NoticeReset
  BY <1>3, ResetStep
<1> QED
  BY <1>1, <1>2, <1>3 DEF Next

(* The invariant holds throughout. *)
LEMMA ImuInv == Spec => []IInv
BY InitIInv, NextIInv, PTL DEF Spec

(* Every variable of the firmware and of its IMU keeps its type: no job has   *)
(* more than three operations, no report but those two ever fails.            *)
THEOREM ImuTypeCorrect == Spec => []TypeOK
<1>1. IInv => TypeOK
  BY DEF IInv
<1> QED
  BY <1>1, ImuInv, PTL

(* bno085.cpp:71-77, main.cpp:60: between two commands the hub is configured  *)
(* as the firmware believes, however many resets and failures there have been, *)
(* unless a reset waits to be handled or a failure has been reported.         *)
THEOREM HubMatches == Spec => []HubMatchesMask
<1>1. IInv => HubMatchesMask
  BY DEF IInv, HubKnown, Known, Doing, HubMatchesMask
<1> QED
  BY <1>1, ImuInv, PTL

(* main.cpp:79-101: a command's result and its effect on calibrating() are    *)
(* among those that module CommandChannel assumes of the firmware.            *)
THEOREM OutcomesAreThose == Spec => []CommandOutcome
<1>1. IInv => CommandOutcome
  BY DEF IInv, Answered, Outcome, Doing, CommandOutcome
<1> QED
  BY <1>1, ImuInv, PTL

(* bno085.h:47-48: only a START or a STOP changes calibrating(); the recovery *)
(* of a reset applies the mask that is already in force.                      *)
THEOREM OnlyCommandsDo == Spec => OnlyCommandsChangeCalibrating
<1>1. IInv /\ [Next]_vars =>
        [Calibrating' # Calibrating => job.caller \in {"CALIBRATION_START", "CALIBRATION_STOP"}]_vars
  <2> SUFFICES ASSUME IInv, [Next]_vars, Calibrating' # Calibrating
               PROVE  job.caller \in {"CALIBRATION_START", "CALIBRATION_STOP"}
    OBVIOUS
  <2>1. OpSucceeds
    <3>1. cal_mask' # cal_mask
      BY DEF Calibrating
    <3> QED
      BY <3>1
         DEF Next, FirmwareStep, vars, firmware, history, OpFails, Begin, BeginDone, SetupDone,
             StartCalibrationCommand, SaveCalibrationCommand, StopCalibrationCommand, CommandDone,
             NoCommand, WasReset, WasNotReset, ConfigureDone, RestoreDone, HubReset, NoticeReset
  <2>2. pc = "busy" /\ ops # <<>> /\ Head(ops) = "config" /\ cal_mask' = job.mask
    BY <2>1 DEF OpSucceeds, Calibrating
  <2>3. job.caller \in SensorJobs
    <3>1. job.caller \in Caller
      BY DEF IInv, TypeOK
    <3> QED
      BY <2>2, <3>1, NextOp, Callers
  <2>4. job.caller \notin {"SETUP", "RESTORE"}
    BY <2>2 DEF IInv, Commanded, Doing, Calibrating
  <2> QED
    BY <2>3, <2>4 DEF SensorJobs
<1> QED
  BY <1>1, ImuInv, PTL DEF Spec, OnlyCommandsChangeCalibrating
===============================================================================
