# Verification of the BlueROV2 autonomy deployment

TLA+ specifications of the parts of this repository that keep state: the serial
command and telemetry path between the Raspberry Pi's `teensy_driver` node
(`modules/autonomy_pi/ros/autonomy_teensy`) and the Teensy firmware
(`modules/teensy`), the firmware's handling of its IMU, the node's lifecycle and
its launch file, and the operator's two programs (`calibrate_imu.py`,
`status.py`). TLC checks them on small instances; TLAPS proves the safety of the
command channel, of the service it implements, of the calibration tool, the
lifecycle, the firmware's IMU handling and the status display, that the codec
inverts itself, and that both ends of the serial line deliver what they should, for
every value of their constants.
Source paths below are relative to `modules/`.

## The system

| Component | Source | State | Operations |
|---|---|---|---|
| Teensy driver, command service | `autonomy_teensy/src/driver.cpp` | `command_seq_`, `pending_seq_`, `pending_promise_` under `command_lock_` | the three calibration services (`send_command`), the COMMAND_RESPONSE callback |
| Teensy driver, lifecycle | `driver.cpp` | publishers, `client_`, services | `on_configure`, `on_activate`, `on_deactivate`, `on_cleanup`, the destructor |
| Serial client | `autonomy_teensy/src/client.cpp` | port, read thread, `running_`, `connected_`, `accumulated_`, callbacks | `send`, `poll_connection`, `dispatch`, `register_callback` |
| Frame codec | `cobs`, `crc`, `packet` on both sides | none | encode, decode |
| Serial framing, Teensy | `teensy/lib/packet/serial_buffer.cpp`, `client.cpp` | `buffer_`, `len_`, `overflowed_` | `push`, `poll_command`, `dispatch_command` |
| Firmware | `teensy/src/main.cpp` | handlers, `last_cal_status_ms` | `setup`, `loop`, the START, SAVE and STOP handlers, `error_loop` |
| IMU driver | `teensy/lib/bno085/bno085.cpp` | `cal_mask_`, `have_accel_`, `have_quat_`, `last_gyro_ms_`, the sample | `begin`, `configure`, `reset`, `read`, `calibrate`, `save_calibration` |
| Calibration tool | `autonomy_pi/scripts/calibrate_imu.py` | where `run` is, the call it waits for, the last status | START, the stages, SAVE with retries, STOP in `finally`, Ctrl-C |
| Status display | `autonomy_pi/scripts/status.py` | time-stamped readings | `store`, `fresh`, `draw` |
| Driver launch file | `autonomy_teensy/launch/teensy.launch.py` | events on their way | CONFIGURE once, ACTIVATE at each report of configuring -> inactive |
| Bringup | `autonomy_bringup/launch` | processes | chains of spawners |
| Power, power loss, depth router, installation, containers, robot description | scripts, shell, URDF, YAML | little or none | |

Interaction. A service call runs on the node's single-threaded executor: it
numbers an attempt, leaves a promise for the answer, writes a COMMAND frame and
waits for `command_timeout`, `command_retries` times. The client's read thread
cuts the incoming bytes into frames and runs the callbacks, which fulfil the
promise or publish. The Teensy polls one frame per turn of `loop()`, runs the
handler, answers, recovers the IMU if it was reset, and streams samples and
statuses on the same line. The executor and the read thread share the promise
(under a lock) and the publishers (under none: the order of creation, join and
destruction has to protect them). The IMU may reset by itself at any time. The
launch file moves the node to active by events, which an operator's requests may
overtake. The calibration tool is a client of the three services; its main
thread may be interrupted at any point and leaves requests behind. The status
display subscribes to topics; its callbacks and its drawing timer share one
thread.

What is hard: late and lost responses against retries and a one-byte sequence
number; the read thread against lifecycle transitions; failures and resets
between any two I2C operations; a clock that wraps; bytes lost or corrupted on
the line and frames cut or joined by it; what a restart of either end leaves
behind; calls abandoned by Ctrl-C that are served all the same; messages that
wait while the display blocks and are stamped as new. `PROJECT.json` lists each hazard at its line.

What makes each component correct:

- command service: the driver acts on the answer to its current attempt only;
  an answer from the Teensy is true of the firmware and final; every call
  returns.
- lifecycle: callbacks never find a publisher that is gone; a cleanup and a
  failed configuration leave nothing behind, and a cleanup does not deadlock with
  the thread it joins.
- codec and framing: decoding inverts encoding; delivery does not depend on how
  the bytes were split; a fault costs only the frames it touches; no command
  appears that was not sent.
- IMU: what the hub does and what the firmware believes agree, or a reset is
  pending, or a failure has been reported; the outcome of a command is one the
  driver relies on; samples do not carry old angular rates.
- calibration tool: what the operator is told is true of the Teensy: a STOP that
  succeeded has stopped it, the stages are gone through while it calibrates, a
  SAVE that succeeded saved this run's calibration.
- status display: nothing old is shown as current, and what is bad gets shown.

## The modules

Each names the code in its comments; `PROJECT.json` maps every definition to
lines.

- **CalibrationCommands**: commands, result codes, and what one execution of a
  command does to `calibrating()`. The interface of the next two.
- **CommandChannel**: one service call, end to end. Processes: the executor in
  `send_command` (`Call`, `BeginAttempt`, `SendRefused`, `SendFails`,
  `SendWritten`, `FutureReady`, `FutureTimeout`, `GiveUp`), the read thread
  (`CommandResponseCallback`, `ReadFails`), the Teensy (`PollCommand`,
  `Reboot`), the lifecycle (`OnConfigure`, `OnCleanup`) and the process
  (`NodeDies`: in the middle of a call, too; `SurvivingSpec` is the system
  without it). The link is two FIFO
  queues of frames that may lose any frame. A frame carries the number of its
  attempt as history, so that properties can say which attempt an answer
  belongs to. **CommandChannelProofs** holds the theorems.
- **CalibrationService**: what a calibration service promises its client. A call
  that has begun may be executed any number of times, also after it failed
  (`pending`); an answer that comes from the Teensy settles it. CommandChannel
  implements it (`ImplementsCalibrationService`, mapping `Service`: `pending` is
  what is queued or may be sent again, `executed` the firmware's last execution,
  `stale` the old session's leftovers); CommandChannelProofs proves it.
- **CalibrationTool**: `run`, `call` and `main` of the tool on top of that
  service, with the requests that wait at the driver's executor, Ctrl-C
  (`Interrupt` inside the `try`, `Leave` outside), a node that is cleaned up or
  dies, and several runs. Ctrl-C also shuts the context down, by the handler that
  `rclpy.init` installs, and the spin thread ends: from then on (`interrupted`) a
  response may or may not complete the future (`ServiceReturns`). **CalibrationToolProofs**.
- **StatusDisplay**: `store`, `on_mavlink`, `fresh`, `draw` on a single-threaded
  executor that serves rounds, with queues of limited depth, a `draw` that
  blocks and a timer that such a draw makes late. **StatusDisplayProofs**.
- **ImuCalibration**: `setup()`, the handlers and the reset recovery, one step
  per I2C operation; `job` and `ops` are the rest of the running function. The
  hub resets at any step, and an operation that fails may have taken effect.
  `CommandOutcome` discharges what CalibrationCommands assumes.
  **ImuCalibrationProofs**.
- **ImuSampling**: `read()` and the pacing of CAL_STATUS on `millis()`, which is
  taken modulo a constant; histories hold the true intervals.
  **ImuSamplingProofs**.
- **DriverLifecycle**: every transition, cut where the read thread can see a
  difference, against that thread. **TeensyLaunch** composes it with the launch
  file: its CONFIGURE, the reports it waits for, its ACTIVATE requests, and an
  operator who asks for transitions of his own. **TeensyLaunchProofs**.
- **Cobs**, **Crc8**, **Packet**: the codec, one model for the two
  implementations, which differ only in the bound on the Teensy's output
  (`Decode` and `DecodePacket`). `Full` stands for 0xFF, so that blocks can be
  made short. **CodecProofs** (it proves about MCCobs too).
- **SerialLine**: a direction of the line at the level of bytes, with a sender
  and faults. **CommandStream** adds the Teensy's receiver, **TelemetryStream**
  the Pi's. **FrameStream** is the abstract specification of both: what has been
  delivered is a function of the bytes received. Each receiver is shown to
  implement it, and **StreamProofs** proves it of both.
- **MCCobs**, **MCCommandStream**, **MCTelemetryStream**: instances.

Operators whose comment begins "Mutant of" are wrong versions of the definition
that follows them; they are not part of the specification, and each property is
known to fail when one replaces its original.

## The runs

| Run | Shows | Bounds |
|---|---|---|
| `command_channel` | `AnswerIsCurrent`, `NothingInFlightAfterReply`, `ReplyMatchesFirmware`, `CallReturns`, `ImplementsCalibrationService` | 3 sequence numbers, 2 attempts a call, 2 frames per direction, 2 calls, 1 restart, 2 sessions: 4 attempts, so the numbers wrap; a stale frame, its retry and a new call can be in flight together |
| `calibration_tool` | `StopMeansStopped`, `StagesCalibrate`, `SavedIsStarted`, `CallEnds` | 2 runs of one SAVE each, 2 sessions, 1 restart: a run meets the requests that the one before it abandoned, in the same session or another. `CallEnds` excludes requests that the node lost and a tool that Ctrl-C has interrupted |
| `status_display` | `CurrentIsRecent`, `ScreenFollows` | half-second ticks: the real five seconds and one; one topic, the MAVLink one, whose messages may say nothing; a queue of two, a `draw` of up to one and a half seconds, longer than the timer's period. The bound of `CurrentIsRecent` is tight: one tick less is violated |
| `stale_response` | violation, see below | 1 attempt a call, 2 calls, 2 sessions of one process (`SurvivingSpec`) |
| `imu_calibration` | `HubMatchesMask`, `CommandOutcome`, `OnlyCommandsChangeCalibrating`, `ResetRecovered` | 3 commands, 2 hub resets, 2 failing operations: a reset during the recovery of a reset, a failure in a recovery or a command |
| `stop_is_a_no_op` | violation, see below | 1 failing operation |
| `imu_sampling` | `GyroIsFresh`, `CalStatusInterval`, `CalStatusFlows` | a clock of 8 ticks, thresholds 2 and 3: several wraps between reports |
| `driver_lifecycle` | `CallbacksFindTheirPublishers`, `UnconfiguredIsClean`, `CleanupReturns`, `ComesUp` (on TeensyLaunch) | 8 transitions, by the launch file or an operator: configure, use, clean up, configure again, with requests that arrive too late; 2 packets per read |
| `cobs` | `RoundTrip`, `EncodedFits` | bytes of two bits, strings up to 7: every arrangement of zeros and of up to three full blocks |
| `command_stream` | `CommandsResynchronize`, `CommandsImplementFrameStream` | a buffer of one command, 3 commands, 2 faulty bytes (5 values) |
| `command_fault` | `OnlySentCommands` | real sizes, 2 commands, 1 faulty byte with any of its values or lost |
| `telemetry_stream` | `OnlySentPackets`, `TelemetryResynchronizes`, `TelemetryImplementsFrameStream` | 3 packets, each one of two; 1 faulty byte, lost or with one of 16 values: the delimiter, every block length their frames can hold, and 255; reads of 1, 3 or up to 20 bytes. `OnlySentPackets` is about these packets and values |

`CHECK_DEADLOCK FALSE` stands where a bound ends the behaviour (no call, packet
or transition left) or the code really stops (`error_loop`).

Type invariants (`TypeOK`; `LaunchTypeOK`, `CommandTypeOK` and `TelemetryTypeOK`
where one module extends several) are checked once per stateful component.

### Disagreements with the documentation

- `stale_response`: `on_cleanup` starts the sequence numbers over. A call times
  out, the node is cleaned up and configured again, and the response to the old
  session's first command arrives: it is taken for that of the new session's
  first command, against the comment at `driver.cpp:126-127`. (A new process
  after a kill starts at 0 as well, `driver.hpp:60`, with the same effect; the run
  leaves kills out.) `AnswerIsCurrent` and the theorems therefore speak of
  responses of the current session (`answer.id > base`).
- `stop_is_a_no_op`: when `setCalibrationConfig` takes effect but is reported as
  failed, `cal_mask_` says "not calibrating" of a hub that is, against
  `bno085.h:66` ("check whether the IMU is currently calibrating"), and STOP
  answers OK without touching the hub.

Met while modelling and worth knowing, though no document says otherwise:

- The checksum of a packet followed by its checksum is zero, so two frames whose
  delimiter is lost form a frame that passes the checksum, and single corrupted
  bytes yield thousands of such frames of other sizes. Only the size checks of
  `dispatch_command` and of the callbacks keep them out; `OnlySentCommands` and
  `OnlySentPackets` fail without them.
- COBS is outside the checksum, so a changed code byte changes several decoded
  bytes at once. A calibration status `a g 0 0 cfg f0 f1 f2 f3` whose other bytes
  and checksum are not zero is sent as `05 02 01 a g 01 07 cfg f0 f1 f2 f3 crc 00`.
  With `0D` in place of `05` the Pi decodes `02 01 a g 01 07 cfg ...`: of the same
  size, and different by `01 07`, the checksum's polynomial, so that it passes and
  is published with magnetometer accuracy 1 and orientation accuracy 7. What a
  callback is told is therefore not safe from a single faulty byte for every
  packet, and `OnlySentPackets` claims it of the instance's only. For commands,
  which are five bytes, `command_fault` shows it for sequence numbers at the
  edges and every faulty value.
- After Ctrl-C the tool's final STOP (`calibrate_imu.py:211`) is sent and served,
  but the thread that would complete its future (line 231) ends with the context,
  and the loop at lines 57-58 then waits until it is interrupted again.

## Assumptions

- *Timely* (CommandChannel): no frame stays in flight, on an open link, while the
  driver makes more than `MaxLag < SeqMod` further attempts. In the code that is
  255 attempts of half a second.
- The line keeps order. Faults hit at most one byte of a frame in the stream
  modules; with several faulty bytes in one frame an eight-bit checksum promises
  nothing.
- The executor is single-threaded, so lifecycle transitions and service calls do
  not overlap. Requests that wait at it, to three services, are served in any
  order.
- The calibration tool is the services' only client. Its properties speak of
  *sound* answers: given by the Teensy, in this session, while no request of a
  call abandoned before was still waiting. Without the last condition a STOP
  left over from an interrupted run may be served after the next run's START,
  and nothing in the tool notices.
- The launch file's events and requests arrive, in any time.
- The display's executor serves the timer and one message of each subscription
  per round; callbacks other than `draw` take no time. The timer's calls fall
  on multiples of its period: calls that a draw has made it miss are skipped.
- After Ctrl-C a request can still be sent; whether its answer is still taken is
  left open.
- The hub applies an operation entirely or not at all, also when it reports a
  failure. Its library notices every reset.

Fairness. `CommandChannel`: the executor inside a call (its wait ends after
`command_timeout`), the callback and the Teensy's poll are weakly fair; nothing
is assumed of the link, of calls or of restarts. `ImuCalibration` and
`ImuSampling`: `loop()` runs for ever and time passes; the library is called in
every turn. `DriverLifecycle`: a transition that has begun goes on, and the read
thread's poll returns after 100 ms. `TeensyLaunch` adds that its events and
requests arrive. `CalibrationTool`: the driver's executor serves what waits, and
its calls return, which is `CallReturns` of CommandChannel, and the tool's spin
thread takes the answer unless Ctrl-C has shut the context down; nothing is
assumed of the operator. `StatusDisplay` needs no fairness: its promises have deadlines.

## What is proved

For every value of the constants, bounds included:

| Module | Theorem | Statement |
|---|---|---|
| CommandChannelProofs | `TypeCorrect`, `AnswersAreCurrent`, `RepliesEndTheTraffic`, `RepliesAreTrue` | `Spec => []` `TypeOK`, `AnswerIsCurrent`, `NothingInFlightAfterReply`, `ReplyMatchesFirmware` |
| CommandChannelProofs | `RefinesCalibrationService` | `Spec => Service!Safety` |
| CalibrationToolProofs | `ToolStopMeansStopped`, `ToolStagesCalibrate`, `ToolSavedIsStarted`, `ToolTypeCorrect`, `ToolKeepsService` | `ToolSpec => []` `StopMeansStopped`, `StagesCalibrate`, `SavedIsStarted`, `TypeOK`; `ToolSpec => Safety`, that of CalibrationService |
| ImuCalibrationProofs | `ImuTypeCorrect`, `HubMatches`, `OutcomesAreThose`, `OnlyCommandsDo` | `Spec => []` `TypeOK`, `HubMatchesMask`, `CommandOutcome`; `Spec => OnlyCommandsChangeCalibrating` |
| ImuSamplingProofs | `SamplingTypeCorrect`, `StatusesKeepTheirInterval`, `RatesAreFresh` | `Spec => []` `TypeOK`, `CalStatusInterval`; `Spec => GyroIsFresh` |
| StatusDisplayProofs | `DisplayTypes`, `CurrentRecent`, `ScreenCurrent` | `Spec => []` `TypeOK`, `CurrentIsRecent`, `ScreenFollows` |
| TeensyLaunchProofs | `LaunchTypeCorrect`, `LaunchedCallbacksFindTheirPublishers`, `LaunchedUnconfiguredIsClean` | `LaunchSpec => []` `LaunchTypeOK`, `CallbacksFindTheirPublishers`, `UnconfiguredIsClean` |
| CodecProofs | `EncodingDecodes`, `EncodingFits` | decoding inverts encoding, the encoding has no delimiter, and it fits in `EncodedSize` |
| CodecProofs | `PacketDecodes`, `PacketFits` | the same of packets, with `DecodePacket` and with the Teensy's `Decode` |
| CodecProofs | `StringsRoundTrip`, `StringsFit` | `StringSpec => []` `RoundTrip`, `EncodedFits` (of MCCobs) |
| StreamProofs | `CommandTypeCorrect`, `CommandsImplement` | `CommandSpec => []CommandTypeOK`, `CommandSpec => CommandsImplementFrameStream` |
| StreamProofs | `TelemetryTypeCorrect`, `TelemetryImplements` | `TelemetrySpec => []TelemetryTypeOK`, `TelemetrySpec => TelemetryImplementsFrameStream` |
| StreamProofs | `CleanCommandsArrive`, `CleanPacketsArrive` | once the line has been read, the packets transmitted without a fault after a delimiter (on the Pi: those that a callback expects) are among the delivered, each at a place of its own and in order |

Together, from the line up: a command does to the firmware what
CalibrationCommands says (`OutcomesAreThose`); given that, the driver implements
CalibrationService (`RefinesCalibrationService`); the tool, with its executor's
waiting requests, uses that service as its client may (`ToolKeepsService`), and
tells its operator the truth. The assumptions are those of the constants (`SeqMod > 1`,
`MaxLag < SeqMod`, a clock longer than the intervals measured on it) and those
above, which are in the models' actions. The theorems about packets and streams
take one more: a checksum is a byte (`CrcIsByte`; `crc8` returns a `uint8_t`).
They hold for any such function, so nothing in them rests on which errors the
checksum finds; Crc8, which computes it with bitwise operators, is out of the
provers' reach.

None of the safety properties is inductive. In each module `IInv` is, and it is
shown to hold initially, to be kept action by action, and to imply the property.

*CommandChannel.* `Ordered`: attempt numbers grow along responses, then commands,
in flight, and none exceeds `id`; this makes the answer to the current attempt
the last message on the line. `SeqsInStep`: a frame of this session carries its
attempt's number modulo `SeqMod`: with `Timely`, equal sequence numbers mean
equal attempts. `Executed`: the last command the Teensy executed is not newer
than any in flight and agrees with `calibrating()`. `LinkState`, `Current`,
`Answered`: how the promise, the future and the reply relate to these. The
refinement needs `RInv` besides: no answer speaks of a boot that has not been,
and nothing is in flight to a node that is not configured.

*CalibrationTool.* A sound answer comes when the firmware has nothing left to
execute (`Quiet`, `Told`), and stays true until the next request; between START
and STOP only SAVEs can be waiting, being served or pending (`OnlySaves`). The
proof needs the service's answer to agree with what the firmware was *when it
executed*, not with what it is since it restarted: hence `executed` carries
`calibrating()` and boot.

The bound on the requests in `TypeOK` comes from counting (`Counted`): each run
asks a bounded number of times and nothing is asked between runs (`Asked`).

*StatusDisplay.* Ages are bounded by what still has to happen. A message at
position *i* of its queue was sent no longer ago than the rounds before it is
taken allow, each with at most one draw (`InTurn`); the timer is at most a period
away, or late by no more than a draw (`OnTime`); what the screen shows was read
as long ago as the timer has run (`Reflected`), or a draw is due now. An attempt
to prove this with a timer that chose its next call freely failed: a call that
came early made a message wait for two draws. rclpy advances a timer's next call
by whole periods (`NextCall`), and the model now does.

*ImuCalibration.* What is left of a job's program says how far it is (`Program`),
hence what it has done to the hub and to `cal_mask_` (`Reports`, `Sensors`,
`Commanded`). A reset undoes it anywhere but leaves a mark that only the
beginning of the next `configure()` removes, so every clause about the hub is
about one without a mark (`HubKnown`).

*ImuSampling.* As long as an interval is shorter than a turn of the clock, the
clock is ahead of the remembered reading by it, or by it less a turn (`Ahead`);
the unsigned difference is then the interval, for every modulus.

*DriverLifecycle.* Where each transition creates and destroys the `Client`: its
thread exists only between a configuration's third step and a cleanup's second,
and in that span the publishers do (`Members`, `Publishers`); a configuration
that fails leaves neither, so `UnconfiguredIsClean` also holds of the finalized
node it ends in (services and parameters are not modelled); the lock is held
only inside one callback (`Lock`). The launch file and the operator take no step
of the node but through its requests (`LaunchInv`).

*Codec.* The encoder folds over the data and the decoder is a recursive function
over the frame. The library's induction theorems cannot be used here, but its
theorem on least elements of well-founded orders can, on the set of lengths for
which a statement fails: that gives induction (`Induction`), and with it that the
fold and the recursion have the functions they are defined by (`FoldExists`,
`BlocksRight`) and go a byte, or a block, at a time (`EncodedAppend`,
`NextBlock`). The encoder's invariant: its closed blocks decode to a prefix of
the data whatever follows them (`Prefix`), the open one holds the rest
(`Pending`), and what it has written exceeds the data by a byte for each full
block and one more (`Sized`). Closing the open block turns this into the round
trip and the bound.

*CommandStream.* The buffer is the frame that has not ended (`Rest`), unless that
frame is longer than the buffer, and then it is marked as overflowed
(`Buffered`): a mark that is left, or set too early, breaks it. FrameStream's
delivery speaks of all the bytes received; by induction it changes with the last
one only, and only if that is a delimiter (`DeliveredAppend`). The Teensy's
decoder has a buffer of its own, and whatever it refuses for want of room could
not have been a command, because a command is shorter (`CommandFits`; hence
`MAX_PAYLOAD_SIZE >= 3` in `CommandAssumption`).

*TelemetryStream.* The Pi does in one step what FrameStream does byte by byte:
it folds over the bytes of a read, then over the packets found in them. Both
folds are shown to have the functions they are defined by (`TypedFoldExists`)
and to go one element further (`TakeAppend`, `DispatchAppend`). By induction over
the bytes of a read, what is kept is `Rest` of all the bytes received, and what
has been used is FrameStream's delivery of them (`ReadsOn`), so where a read is
cut makes no difference (`TelemetryInv`). `accumulated_` has no bound in the code;
FrameStream's longest frame is therefore all that can ever have been sent, and no
frame is longer because the bytes received and on the line never exceed it. That
needs the size `encode` refuses (`packet.cpp:22`, in `SampleAssumption`).

*Clean packets.* *Resynchronize* says two things: what was transmitted intact
arrives, and nothing else that arrives looks like it. The first depends neither
on the checksum nor on the number of faults. Its invariant takes the bytes on the
line as if they had been received (`CleanArrives`): delivery of `received \o line`
has the clean packets in order, and `Rest` of it is empty whenever the last byte
sent is a delimiter, so that the frame of an intact packet is gathered whole
(`FrameGathers`), decoded by `PacketDecodes` and accepted (`IntactArrives`).
Reading moves bytes from one side of the `\o` to the other and disturbs nothing.
On the Pi this rests on TelemetryStream's fold having been written so that it can
be unfolded (`Dispatch`, where an earlier version selected a subsequence).

Only model-checked:

- the liveness properties: TLAPS does not reach liveness under fairness here;
- `OnlySentCommands`, `OnlySentPackets`, and that nothing a fault has made equals
  a packet of `clean` (the rest of `CommandsResynchronize` and
  `TelemetryResynchronizes`): they depend on this checksum, and on the packets
  and faulty values of the instances; for other packets they may fail, as the
  status above shows, and the provers cannot compute the checksum.

## Not modelled

- Bringup (`controllers.launch.py`, `estimation.launch.yaml`): straight-line
  configuration of external programs. The chain of `OnProcessExit` handlers has
  no state of its own; that it goes on after a spawner that failed is listed as a
  hazard.
- Power and power-loss scripts, depth router, installation scripts: sequential,
  with nothing kept between two steps, or pure I/O. Message definitions, robot
  description, parameters, services and containers: data.
- Within modelled components: the floating-point content of samples and its
  conversion into ROS messages, time stamps, covariances and log messages; the
  accuracy the calibration tool shows (`tool.status`), which only advises the
  operator; the display's layout and its switch rows, which keep nothing; the
  blinking of `error_loop`.

## Plan

Every safety property and refinement that does not depend on the checksum's
values is proved. What is left is out of the provers' reach: liveness under
fairness, and what this particular checksum detects: for commands `command_fault`
takes the real sizes and every value of a faulty byte; for telemetry it does not
detect everything, and `telemetry_stream` says what it does for two packets.
