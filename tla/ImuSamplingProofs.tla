--------------------------- MODULE ImuSamplingProofs ---------------------------
(***************************************************************************)
(* The firmware's two intervals are right on every clock that wraps, the   *)
(* Teensy's 2^32 milliseconds included.                                    *)
(*                                                                         *)
(* As long as an interval is shorter than a whole turn of the clock, the   *)
(* clock is that much ahead of the remembered reading, or that much less a *)
(* turn (Ahead); the unsigned difference of the two is then the interval.  *)
(***************************************************************************)
EXTENDS ImuSampling, TLAPS

(* The clock is n after its reading t, with at most one wrap in between.      *)
Ahead(t, n) == n < MillisMod => millis = t + n \/ millis = t + n - MillisMod

GyroClock ==
  /\ gyro_cleared => last_gyro_ms = 0
  /\ ~gyro_cleared => Ahead(last_gyro_ms, gyro_age)

StatusClock == Ahead(last_cal_status_ms, status_gap)

(* poll_command ends the history of the last packet, before any read().       *)
NothingRead == pc \in {"check", "read"} => out = Silence

IInv == TypeOK /\ GyroClock /\ StatusClock /\ NothingRead /\ CalStatusInterval

-------------------------------------------------------------------------------
(* Arithmetic of a clock that wraps, for any modulus. *)

LEMMA WrapOnce ==
  ASSUME NEW m \in Nat \ {0}, NEW x \in Int, 0 - m <= x, x < 2 * m, NEW r, r = x % m
  PROVE  /\ r \in 0 .. m - 1
         /\ x < 0 => r = x + m
         /\ 0 <= x /\ x < m => r = x
         /\ m <= x => r = x - m
<1>1. x < 0 => x % m = x + m
  OBVIOUS
<1>2. 0 <= x /\ x < m => x % m = x
  OBVIOUS
<1>3. m <= x => x % m = x - m
  OBVIOUS
<1> QED
  BY <1>1, <1>2, <1>3

(* No packet is a packet, for the types. *)
LEMMA SilenceIsPacket == Silence \in Packet
<1>1. 0 \in Ages
  BY ClockAssumption DEF Ages
<1> QED
  BY <1>1 DEF Silence, Packet

(* There is a turn of the clock. *)
LEMMA ClockTurns == MillisMod \in Nat \ {0}
BY ClockAssumption

(* The unsigned difference is the interval, if that is less than a turn.      *)
LEMMA SinceIsInterval ==
  ASSUME NEW t \in 0 .. MillisMod - 1, millis \in 0 .. MillisMod - 1,
         NEW n \in Ages, n < MillisMod, Ahead(t, n)
  PROVE  Since(t) = n
<1>1. n \in 0 .. MillisMod - 1 /\ (millis - t = n \/ millis - t = n - MillisMod)
  BY ClockTurns DEF Ahead, Ages
<1>2. ASSUME NEW x \in Int, 0 - MillisMod <= x, x < 2 * MillisMod, x = n \/ x = n - MillisMod,
             NEW r, r = x % MillisMod
      PROVE  r = n
  <2>1. /\ x < 0 => r = x + MillisMod
        /\ 0 <= x /\ x < MillisMod => r = x
    BY <1>2, ClockTurns, WrapOnce
  <2> QED
    BY <1>1, <1>2, <2>1, ClockTurns
<1>3. millis - t \in Int /\ 0 - MillisMod <= millis - t /\ millis - t < 2 * MillisMod
  BY <1>1, ClockTurns
<1> QED
  BY <1>1, <1>2, <1>3 DEF Since

(* Time passes for the clock and for an interval alike.                       *)
LEMMA ElapseStep ==
  ASSUME NEW n \in 0 .. MillisMod, Elapse(n), TypeOK
  PROVE  /\ millis' \in 0 .. MillisMod - 1 /\ gyro_age' \in Ages /\ status_gap' \in Ages
         /\ \A t \in 0 .. MillisMod - 1 :
              /\ Ahead(t, gyro_age) => Ahead(t, gyro_age)'
              /\ Ahead(t, status_gap) => Ahead(t, status_gap)'
<1>1. /\ MillisMod \in Nat \ {0} /\ n \in 0 .. MillisMod
      /\ millis \in 0 .. MillisMod - 1
      /\ gyro_age \in 0 .. MillisMod /\ status_gap \in 0 .. MillisMod
  BY ClockTurns DEF TypeOK, Ages
<1>2. /\ millis' \in 0 .. MillisMod - 1
      /\ millis' = millis + n \/ millis' = millis + n - MillisMod
      /\ (millis + n < MillisMod => millis' = millis + n)
  <2>1. ASSUME NEW x \in Int, 0 <= x, x < 2 * MillisMod, NEW r, r = x % MillisMod
        PROVE  /\ r \in 0 .. MillisMod - 1
               /\ r = x \/ r = x - MillisMod
               /\ x < MillisMod => r = x
    <3>1. 0 - MillisMod <= x
      BY <1>1, <2>1
    <3>2. /\ r \in 0 .. MillisMod - 1
          /\ 0 <= x /\ x < MillisMod => r = x
          /\ MillisMod <= x => r = x - MillisMod
      BY <1>1, <2>1, <3>1, WrapOnce
    <3> QED
      BY <1>1, <2>1, <3>2
  <2>2. millis + n \in Int /\ 0 <= millis + n /\ millis + n < 2 * MillisMod
    BY <1>1
  <2>3. millis' = (millis + n) % MillisMod
    BY DEF Elapse
  <2> DEFINE x == millis + n
  <2>4. x \in Int /\ 0 <= x /\ x < 2 * MillisMod /\ millis' = x % MillisMod
    BY <2>2, <2>3
  <2> HIDE DEF x
  <2>5. /\ millis' \in 0 .. MillisMod - 1
        /\ millis' = x \/ millis' = x - MillisMod
        /\ x < MillisMod => millis' = x
    BY <2>1, <2>4
  <2> USE DEF x
  <2>6. millis' = x \/ millis' = x - MillisMod
    BY <2>5
  <2>7. x < MillisMod => millis' = x
    BY <2>5
  <2> QED
    BY <1>1, <2>2, <2>5, <2>6, <2>7
<1>3. ASSUME NEW a \in 0 .. MillisMod, NEW b, b = Older(a, n)
      PROVE  /\ b \in Ages
             /\ b < MillisMod => b = a + n /\ a < MillisMod
  BY <1>1, <1>3 DEF Older, Ages
<1>4. ASSUME NEW a \in 0 .. MillisMod, NEW b, b = Older(a, n), NEW t \in 0 .. MillisMod - 1,
             a < MillisMod => millis = t + a \/ millis = t + a - MillisMod, b < MillisMod
      PROVE  millis' = t + b \/ millis' = t + b - MillisMod
  <2>1. b = a + n /\ a < MillisMod
    BY <1>3, <1>4
  <2> QED
    BY <1>1, <1>2, <1>4, <2>1
<1>5. gyro_age' = Older(gyro_age, n) /\ status_gap' = Older(status_gap, n)
  BY DEF Elapse
<1> QED
  BY <1>1, <1>2, <1>3, <1>4, <1>5 DEF Ahead

-------------------------------------------------------------------------------
(* Both intervals begin as endless. *)
LEMMA InitIInv == Init => IInv
<1> SUFFICES ASSUME Init
             PROVE  IInv
  OBVIOUS
<1>1. TypeOK
  <2>1. /\ have_accel = FALSE /\ have_quat = FALSE /\ gyro_live = FALSE
        /\ calibrating = FALSE /\ gyro_cleared = TRUE
    BY DEF Init
  <2>2. ConfigureDelay \in 0 .. MillisMod - 1 /\ 0 \in 0 .. MillisMod - 1
    BY ClockAssumption
  <2>3. 0 \in 0 .. MaxIteration /\ MillisMod \in Ages
    BY ClockAssumption DEF Ages
  <2>4. /\ have_accel \in BOOLEAN /\ have_quat \in BOOLEAN /\ gyro_live \in BOOLEAN
        /\ calibrating \in BOOLEAN /\ gyro_cleared \in BOOLEAN
    BY <2>1, Zenon
  <2> QED
    BY <2>2, <2>3, <2>4, SilenceIsPacket DEF Init, TypeOK
<1>2. GyroClock /\ NothingRead
  BY DEF Init, GyroClock, NothingRead
<1>3. StatusClock
  BY ClockTurns DEF Init, StatusClock, Ahead
<1>4. CalStatusInterval
  BY DEF Init, CalStatusInterval, Silence
<1> QED
  BY <1>1, <1>2, <1>3, <1>4 DEF IInv

(* A millisecond passes. *)
LEMMA TickStep ==
  ASSUME IInv, Tick
  PROVE  IInv'
<1>1. /\ Elapse(1) /\ iteration' \in 0 .. MaxIteration
      /\ UNCHANGED <<pc, sensing, last_cal_status_ms, calibrating, out>>
  BY ClockAssumption DEF IInv, TypeOK, Tick
<1>2. TypeOK /\ 1 \in 0 .. MillisMod
  BY ClockAssumption DEF IInv
<1>3. TypeOK'
  BY <1>1, <1>2, ElapseStep DEF TypeOK, sensing
<1>4. GyroClock' /\ StatusClock'
  <2>1. /\ last_gyro_ms \in 0 .. MillisMod - 1 /\ last_cal_status_ms \in 0 .. MillisMod - 1
        /\ last_gyro_ms' = last_gyro_ms /\ last_cal_status_ms' = last_cal_status_ms
        /\ gyro_cleared' = gyro_cleared
    BY <1>1 DEF IInv, TypeOK, sensing
  <2>2. /\ Ahead(last_gyro_ms, gyro_age) => Ahead(last_gyro_ms, gyro_age)'
        /\ Ahead(last_cal_status_ms, status_gap) => Ahead(last_cal_status_ms, status_gap)'
    BY <1>1, <1>2, <2>1, ElapseStep DEF Ahead
  <2> QED
    BY <2>1, <2>2 DEF IInv, GyroClock, StatusClock
<1>5. NothingRead' /\ CalStatusInterval'
  BY <1>1 DEF IInv, NothingRead, CalStatusInterval, Silence
<1> QED
  BY <1>3, <1>4, <1>5 DEF IInv

(* configure() takes its delay and forgets the gyroscope's last report. *)
LEMMA ConfigureStep ==
  ASSUME IInv, Configure
  PROVE  IInv'
<1>1. /\ Elapse(ConfigureDelay) /\ pc = "check" /\ pc' = "read"
      /\ have_accel' = FALSE /\ have_quat' = FALSE /\ last_gyro_ms' = 0 /\ gyro_cleared' = TRUE
      /\ UNCHANGED <<iteration, gyro_live, last_cal_status_ms, calibrating, out>>
  BY DEF Configure
<1>2. TypeOK /\ ConfigureDelay \in 0 .. MillisMod
  BY ClockAssumption DEF IInv
<1>3. TypeOK'
  <2>1. millis' \in 0 .. MillisMod - 1 /\ gyro_age' \in Ages /\ status_gap' \in Ages
    BY <1>1, <1>2, ElapseStep
  <2>2. last_gyro_ms' \in 0 .. MillisMod - 1
    BY <1>1, ClockTurns
  <2>3. have_accel' \in BOOLEAN /\ have_quat' \in BOOLEAN /\ gyro_cleared' \in BOOLEAN
    BY <1>1, Zenon
  <2> QED
    BY <1>1, <1>2, <2>1, <2>2, <2>3 DEF TypeOK
<1>4. GyroClock'
  BY <1>1 DEF GyroClock
<1>5. StatusClock'
  <2>1. last_cal_status_ms \in 0 .. MillisMod - 1 /\ last_cal_status_ms' = last_cal_status_ms
    BY <1>1, <1>2 DEF TypeOK
  <2>2. Ahead(last_cal_status_ms, status_gap) => Ahead(last_cal_status_ms, status_gap)'
    BY <1>1, <1>2, <2>1, ElapseStep DEF Ahead
  <2> QED
    BY <2>1, <2>2 DEF IInv, StatusClock
<1>6. NothingRead' /\ CalStatusInterval'
  BY <1>1 DEF IInv, NothingRead, CalStatusInterval, Silence
<1> QED
  BY <1>3, <1>4, <1>5, <1>6 DEF IInv

(* A status is sent when the unsigned difference says so; and that is the     *)
(* true interval, or the interval is a turn of the clock or more.             *)
LEMMA SendCalStatusStep ==
  ASSUME IInv, SendCalStatus
  PROVE  IInv'
<1>1. /\ pc' = "poll" /\ iteration' = 0 /\ Due
      /\ out' = [kind |-> "CAL_STATUS", live |-> FALSE, age |-> status_gap]
      /\ last_cal_status_ms' = millis /\ status_gap' = 0
      /\ UNCHANGED <<millis, sensing, calibrating, gyro_age>>
  BY DEF SendCalStatus
<1>2. TypeOK /\ status_gap \in Ages
  BY DEF IInv, TypeOK
<1>3. TypeOK'
  BY <1>1, <1>2, ClockAssumption DEF TypeOK, Ages, Packet, sensing
<1>4. GyroClock' /\ StatusClock' /\ NothingRead'
  BY <1>1, <1>2 DEF IInv, GyroClock, StatusClock, Ahead, NothingRead, sensing, TypeOK
<1>5. CalStatusInterval'
  <2>1. CASE status_gap < MillisMod
    <3>1. Since(last_cal_status_ms) = status_gap
      BY <1>2, <2>1, SinceIsInterval DEF IInv, TypeOK, StatusClock
    <3> QED
      BY <1>1, <3>1 DEF CalStatusInterval, Due
  <2>2. CASE ~(status_gap < MillisMod)
    BY <1>1, <1>2, <2>2, ClockAssumption DEF CalStatusInterval, Ages
  <2> QED
    BY <2>1, <2>2
<1> QED
  BY <1>3, <1>4, <1>5 DEF IInv

(* The steps that leave the clock alone, and the status's history.            *)
LEMMA OtherSteps ==
  ASSUME IInv, \/ PollCommand \/ WasNotReset \/ NoCalStatus \/ ReadGyro
               \/ \E e \in Events \ {"gyro"} : ReadIncomplete(e) \/ ReadSample(e)
  PROVE  IInv'
<1>1. TypeOK
  BY DEF IInv
<1>2. UNCHANGED <<millis, status>>
  BY DEF PollCommand, WasNotReset, NoCalStatus, ReadGyro, ReadIncomplete, ReadSample, Receive
<1>3. StatusClock'
  BY <1>2 DEF IInv, StatusClock, Ahead, status
<1>4. CASE PollCommand \/ WasNotReset \/ NoCalStatus
  <2>1. /\ UNCHANGED <<sensing, gyro_age>> /\ iteration' \in {iteration, 0} /\ calibrating' \in BOOLEAN
        /\ pc' = "read" => out' = out /\ pc = "check"
        /\ pc' = "check" => out' = Silence
        /\ out' \in {out, Silence} /\ pc' \in {"poll", "check", "read"}
    BY <1>1, <1>4 DEF PollCommand, WasNotReset, NoCalStatus, TypeOK
  <2>2. TypeOK'
    <3>1. out' \in Packet
      BY <1>1, <2>1, SilenceIsPacket DEF TypeOK
    <3>2. iteration' \in 0 .. MaxIteration
      BY <1>1, <2>1, ClockAssumption DEF TypeOK
    <3>3. pc' \in {"poll", "check", "read", "status"}
      BY <2>1
    <3> QED
      BY <1>1, <1>2, <2>1, <3>1, <3>2, <3>3 DEF TypeOK, sensing, status
  <2>3. GyroClock' /\ NothingRead' /\ CalStatusInterval'
    BY <1>2, <2>1 DEF IInv, GyroClock, Ahead, NothingRead, CalStatusInterval, Silence, sensing
  <2> QED
    BY <1>3, <2>2, <2>3 DEF IInv
<1>5. CASE ReadGyro
  <2>1. /\ have_accel' = (have_accel \/ "gyro" = "accel") /\ have_quat' = (have_quat \/ "gyro" = "quat")
        /\ pc' = "status" /\ UNCHANGED <<iteration, calibrating, out>>
        /\ gyro_live' = TRUE /\ last_gyro_ms' = millis /\ gyro_age' = 0 /\ gyro_cleared' = FALSE
    BY <1>5 DEF ReadGyro, Receive
  <2>2. have_accel' \in BOOLEAN /\ have_quat' \in BOOLEAN
    BY <2>1, Zenon
  <2>3. TypeOK'
    <3>1. gyro_live' \in BOOLEAN /\ gyro_cleared' \in BOOLEAN
      BY <2>1, Zenon
    <3>2. last_gyro_ms' \in 0 .. MillisMod - 1 /\ gyro_age' \in Ages
      BY <1>1, <2>1, ClockTurns DEF TypeOK, Ages
    <3> QED
      BY <1>1, <1>2, <2>1, <2>2, <3>1, <3>2 DEF TypeOK, status
  <2>4. GyroClock' /\ NothingRead' /\ CalStatusInterval'
    BY <1>1, <1>2, <2>1 DEF IInv, TypeOK, GyroClock, Ahead, NothingRead, CalStatusInterval
  <2> QED
    BY <1>3, <2>3, <2>4 DEF IInv
<1>6. ASSUME NEW e \in Events \ {"gyro"}, ReadIncomplete(e)
      PROVE  IInv'
  <2>1. /\ have_accel' = (have_accel \/ e = "accel") /\ have_quat' = (have_quat \/ e = "quat")
        /\ pc' = "status"
        /\ UNCHANGED <<iteration, calibrating, out, gyro_live, last_gyro_ms, gyro_age, gyro_cleared>>
    BY <1>6 DEF ReadIncomplete, Receive
  <2>2. have_accel' \in BOOLEAN /\ have_quat' \in BOOLEAN
    BY <2>1, Zenon
  <2>3. TypeOK'
    BY <1>1, <1>2, <2>1, <2>2 DEF TypeOK, status
  <2>4. GyroClock' /\ NothingRead' /\ CalStatusInterval'
    BY <1>2, <2>1 DEF IInv, GyroClock, Ahead, NothingRead, CalStatusInterval
  <2> QED
    BY <1>3, <2>3, <2>4 DEF IInv
<1>7. ASSUME NEW e \in Events \ {"gyro"}, ReadSample(e)
      PROVE  IInv'
  <2>1. /\ have_accel' = FALSE /\ have_quat' = FALSE /\ pc' = "status"
        /\ gyro_live' = (gyro_live /\ ~Stale)
        /\ out' = [kind |-> "IMU_DATA", live |-> gyro_live /\ ~Stale, age |-> gyro_age]
        /\ UNCHANGED <<iteration, calibrating, last_gyro_ms, gyro_age, gyro_cleared>>
    BY <1>7 DEF ReadSample
  <2>2. gyro_live' \in BOOLEAN /\ (gyro_live /\ ~Stale) \in BOOLEAN
    BY <2>1, Zenon
  <2>3. TypeOK'
    BY <1>1, <1>2, <2>1, <2>2 DEF TypeOK, Packet, status
  <2>4. GyroClock' /\ NothingRead' /\ CalStatusInterval'
    BY <1>2, <2>1 DEF IInv, GyroClock, Ahead, NothingRead, CalStatusInterval
  <2> QED
    BY <1>3, <2>3, <2>4 DEF IInv
<1> QED
  BY <1>4, <1>5, <1>6, <1>7

(* Every step keeps the invariant. *)
LEMMA NextIInv == IInv /\ [Next]_vars => IInv'
<1> SUFFICES ASSUME IInv, [Next]_vars
             PROVE  IInv'
  OBVIOUS
<1>1. CASE UNCHANGED vars
  BY <1>1 DEF vars, sensing, status, IInv, TypeOK, GyroClock, StatusClock, Ahead, NothingRead, CalStatusInterval
<1>2. CASE Next
  BY <1>2, TickStep, ConfigureStep, SendCalStatusStep, OtherSteps DEF Next, LoopStep
<1> QED
  BY <1>1, <1>2

(* The invariant holds throughout. *)
LEMMA SamplingInv == Spec => []IInv
BY InitIInv, NextIInv, PTL DEF Spec

(* Every variable of the sampling loop keeps its type: the clock stays within *)
(* its turn, whatever it is.                                                  *)
THEOREM SamplingTypeCorrect == Spec => []TypeOK
<1>1. IInv => TypeOK
  BY DEF IInv
<1> QED
  BY <1>1, SamplingInv, PTL

(* main.cpp:71: two calibration statuses are never sent closer together than  *)
(* CAL_STATUS_PERIOD_MS, on any clock, across its wrap.                       *)
THEOREM StatusesKeepTheirInterval == Spec => []CalStatusInterval
<1>1. IInv => CalStatusInterval
  BY DEF IInv
<1> QED
  BY <1>1, SamplingInv, PTL

(* bno085.cpp:126-130: the angular rates of a sample are not older than       *)
(* gyro_stale_ms, on any clock, but for the case that GyroIsFresh names.      *)
THEOREM RatesAreFresh == Spec => GyroIsFresh
<1>1. IInv /\ [Next]_vars =>
        [pc = "read" /\ out'.kind = "IMU_DATA" /\ out'.live /\ gyro_age > GyroStaleMs =>
           gyro_age = MillisMod \/ (gyro_cleared /\ millis <= GyroStaleMs)]_vars
  <2> SUFFICES ASSUME IInv, Next, pc = "read", out'.kind = "IMU_DATA", out'.live,
                      gyro_age > GyroStaleMs, gyro_age # MillisMod
               PROVE  gyro_cleared /\ millis <= GyroStaleMs
    OBVIOUS
  <2>1. /\ gyro_age \in Ages /\ millis \in 0 .. MillisMod - 1 /\ last_gyro_ms \in 0 .. MillisMod - 1
        /\ gyro_age < MillisMod
    BY ClockTurns DEF IInv, TypeOK, Ages
  <2>2. out' # out
    BY DEF IInv, NothingRead, Silence
  <2>3. PICK e \in Events \ {"gyro"} : ReadSample(e)
    BY <2>2 DEF Next, LoopStep, Tick, PollCommand, Configure, WasNotReset, ReadGyro,
                ReadIncomplete, SendCalStatus, NoCalStatus
  <2>4. ~Stale
    BY <2>3 DEF ReadSample
  <2>5. Since(last_gyro_ms) <= GyroStaleMs
    <3>1. Since(last_gyro_ms) \in 0 .. MillisMod - 1
      BY <2>1, ClockTurns, WrapOnce DEF Since
    <3> QED
      BY <2>4, <3>1, ClockAssumption DEF Stale
  <2>6. gyro_cleared
    <3> SUFFICES ASSUME ~gyro_cleared
                 PROVE  FALSE
      OBVIOUS
    <3>1. Since(last_gyro_ms) = gyro_age
      BY <2>1, SinceIsInterval DEF IInv, GyroClock
    <3> QED
      BY <2>1, <2>5, <3>1, ClockAssumption DEF Ages
  <2>7. Since(0) = millis
    <3>1. Ahead(0, millis) /\ 0 \in 0 .. MillisMod - 1 /\ millis \in Ages /\ millis < MillisMod
      BY <2>1, ClockTurns DEF Ahead, Ages
    <3> QED
      BY <2>1, <3>1, SinceIsInterval
  <2> QED
    BY <2>5, <2>6, <2>7 DEF IInv, GyroClock
<1> QED
  BY <1>1, SamplingInv, PTL DEF Spec, GyroIsFresh
===============================================================================
