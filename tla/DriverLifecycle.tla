--------------------------- MODULE DriverLifecycle ---------------------------
(***************************************************************************)
(* The TeensyDriver node's lifecycle (driver.cpp) against its Client's     *)
(* read thread (client.cpp): the transitions run on the executor and       *)
(* create, activate and destroy the members that the packet callbacks,     *)
(* which run on the read thread, use.                                      *)
(*                                                                         *)
(* Each transition is taken apart at the points where the read thread can  *)
(* see a difference.  What a callback does with a member it finds          *)
(* destroyed is undefined; the properties are about it never finding one.  *)
(***************************************************************************)
EXTENDS Integers

CONSTANTS
  MaxTransitions, \* bound: lifecycle transitions started
  MaxBatch        \* bound: packets decoded from one read

ASSUME TransitionsAssumption == MaxTransitions \in Nat /\ MaxBatch \in Nat

VARIABLES
  state,        \* the node's lifecycle state
  step,         \* how far the running transition is; 0 when none runs
  imu_pub, calib_pub,
  client,       \* "none", or "alive": client_ holds a Client
  running,      \* Client::running_
  callbacks,    \* the packet ids registered in Client::callbacks_
  reader,       \* the read thread: outside a callback, or how far in it
  packet, batch,\* the packet being dispatched, and how many are left
  command_lock, \* who holds the mutex
  members,      \* command_lock_ and pending_promise_ exist
  transitions

publishers == <<imu_pub, calib_pub>>
clients    == <<client, running, callbacks>>
thread     == <<reader, packet, batch>>
command    == <<command_lock, members>>
executor   == <<state, step, publishers, clients, members, transitions>>
vars       == <<executor, thread, command_lock>>

PacketId  == {"IMU_DATA", "CAL_STATUS", "COMMAND_RESPONSE"}
Publisher == {"null", "inactive", "active"}
Primary   == {"unconfigured", "inactive", "active", "finalized"}
Transit   == {"configuring", "activating", "deactivating", "cleaningup", "destroying"}
Outside   == {"none", "loop", "ended"}

InCallback(p) == reader \in {"enter", "use"} /\ packet = p

TypeOK ==
  /\ state \in Primary \cup Transit \cup {"destroyed"} /\ step \in 0 .. 6
  /\ imu_pub \in Publisher /\ calib_pub \in Publisher
  /\ client \in {"none", "alive"} /\ running \in BOOLEAN
  /\ callbacks \subseteq PacketId
  /\ reader \in Outside \cup {"enter", "use"}
  /\ packet \in PacketId /\ batch \in 0 .. MaxBatch
  /\ command_lock \in {"free", "executor", "reader"} /\ members \in BOOLEAN
  /\ transitions \in 0 .. MaxTransitions

Init ==
  /\ state = "unconfigured" /\ step = 0
  /\ imu_pub = "null" /\ calib_pub = "null"
  /\ client = "none" /\ running = FALSE /\ callbacks = {}
  /\ reader = "none" /\ packet = "IMU_DATA" /\ batch = 0
  /\ command_lock = "free" /\ members = TRUE
  /\ transitions = 0

Begin(from, transit) ==
  /\ state = from /\ step = 0 /\ transitions < MaxTransitions
  /\ state' = transit /\ step' = 1 /\ transitions' = transitions + 1

At(transit, n) == state = transit /\ step = n
Goto(n)        == step' = n /\ UNCHANGED <<state, transitions>>
End(primary)   == state' = primary /\ step' = 0 /\ UNCHANGED transitions

-------------------------------------------------------------------------------
(* on_configure *)

StartConfigure ==
  /\ Begin("unconfigured", "configuring")
  /\ UNCHANGED <<publishers, clients, thread, command>>

(* The parameters are read and the publishers created.  An error in a        *)
(* transition finalizes the node: it does not override on_error.             *)
ConfigurePublishers ==
  /\ At("configuring", 1)
  /\ \/ End("finalized") /\ UNCHANGED publishers
     \/ Goto(2) /\ imu_pub' = "inactive" /\ calib_pub' = "inactive"
  /\ UNCHANGED <<clients, thread, command>>

(* Mutant of ConfigureClient: the publishers outlive a failed configuration. *)
ConfigureClientHalf ==
  /\ At("configuring", 2)
  /\ \/ End("finalized") /\ UNCHANGED <<client, running, reader>>
     \/ Goto(3) /\ client' = "alive" /\ running' = TRUE /\ reader' = "loop"
  /\ callbacks' = {}
  /\ UNCHANGED <<publishers, command, packet, batch>>

(* The Client opens the port and starts its read thread, or throws. *)
ConfigureClient ==
  /\ At("configuring", 2)
  /\ \/ /\ End("finalized") /\ imu_pub' = "null" /\ calib_pub' = "null"
        /\ UNCHANGED <<client, running, reader>>
     \/ /\ Goto(3) /\ client' = "alive" /\ running' = TRUE /\ reader' = "loop"
        /\ UNCHANGED publishers
  /\ callbacks' = {}
  /\ UNCHANGED <<command, packet, batch>>

(* register_callback, three times, while packets already arrive. *)
ConfigureCallback ==
  /\ state = "configuring" /\ step \in 3 .. 5
  /\ callbacks' = callbacks \cup {CASE step = 3 -> "IMU_DATA"
                                    [] step = 4 -> "CAL_STATUS"
                                    [] step = 5 -> "COMMAND_RESPONSE"}
  /\ Goto(step + 1)
  /\ UNCHANGED <<publishers, client, running, thread, command>>

ConfigureServices ==
  /\ At("configuring", 6) /\ End("inactive")
  /\ UNCHANGED <<publishers, clients, thread, command>>

-------------------------------------------------------------------------------
(* on_activate, on_deactivate *)

StartActivate ==
  /\ Begin("inactive", "activating")
  /\ UNCHANGED <<publishers, clients, thread, command>>

StartDeactivate ==
  /\ Begin("active", "deactivating")
  /\ UNCHANGED <<publishers, clients, thread, command>>

SwitchPublishers(transit, to, primary) ==
  /\ \/ At(transit, 1) /\ imu_pub' = to /\ Goto(2) /\ UNCHANGED calib_pub
     \/ At(transit, 2) /\ calib_pub' = to /\ End(primary) /\ UNCHANGED imu_pub
  /\ UNCHANGED <<clients, thread, command>>

Activate   == SwitchPublishers("activating", "active", "active")
Deactivate == SwitchPublishers("deactivating", "inactive", "inactive")

-------------------------------------------------------------------------------
(* on_cleanup *)

StartCleanup ==
  /\ Begin("inactive", "cleaningup")
  /\ UNCHANGED <<publishers, clients, thread, command>>

(* Mutant of CleanupStop: the command state's lock is taken before the join. *)
CleanupStopLocked ==
  /\ At("cleaningup", 1) /\ command_lock = "free"
  /\ command_lock' = "executor"
  /\ running' = FALSE /\ Goto(2)
  /\ UNCHANGED <<publishers, client, callbacks, reader, members, packet, batch>>

(* client_.reset(): ~Client asks the read thread to stop ... *)
CleanupStop ==
  /\ At("cleaningup", 1)
  /\ running' = FALSE /\ Goto(2)
  /\ UNCHANGED <<publishers, client, callbacks, thread, command>>

(* Mutant of CleanupJoin: the thread is detached, not joined. *)
CleanupDetach ==
  /\ At("cleaningup", 2)
  /\ client' = "none" /\ callbacks' = {} /\ Goto(3)
  /\ UNCHANGED <<publishers, running, thread, command>>

(* ... and joins it. *)
CleanupJoin ==
  /\ At("cleaningup", 2) /\ reader = "ended"
  /\ client' = "none" /\ callbacks' = {} /\ reader' = "none" /\ Goto(3)
  /\ UNCHANGED <<publishers, running, command, packet, batch>>

(* Then the publishers and the services are released ... *)
CleanupPublishers ==
  /\ At("cleaningup", 3)
  /\ imu_pub' = "null" /\ calib_pub' = "null" /\ Goto(4)
  /\ UNCHANGED <<clients, thread, command>>

(* ... and the command state is reset, under its lock. *)
CleanupCommand ==
  /\ At("cleaningup", 4) /\ command_lock # "reader"
  /\ command_lock' = "free" /\ End("unconfigured")
  /\ UNCHANGED <<publishers, clients, reader, members, packet, batch>>

-------------------------------------------------------------------------------
(* on_shutdown is not overridden: the node is finalized with all it has.     *)
Shutdown ==
  /\ state \in {"unconfigured", "inactive", "active"} /\ step = 0 /\ transitions < MaxTransitions
  /\ state' = "finalized" /\ transitions' = transitions + 1
  /\ UNCHANGED <<step, imu_pub, calib_pub, clients, thread, command>>

(* The process ends: ~TeensyDriver destroys the members in the reverse order *)
(* of their declaration: the command state first, the Client last.           *)
Destroy ==
  /\ state \in Primary /\ step = 0
  /\ state' = "destroying" /\ step' = 1 /\ members' = FALSE
  /\ UNCHANGED <<publishers, clients, reader, command_lock, transitions, packet, batch>>

DestroyPublishers ==
  /\ At("destroying", 1)
  /\ imu_pub' = "null" /\ calib_pub' = "null" /\ running' = FALSE /\ Goto(2)
  /\ UNCHANGED <<client, callbacks, thread, command>>

DestroyClient ==
  /\ At("destroying", 2) /\ reader \in {"none", "ended"}
  /\ client' = "none" /\ callbacks' = {} /\ reader' = "none" /\ End("destroyed")
  /\ UNCHANGED <<publishers, running, command, packet, batch>>

-------------------------------------------------------------------------------
(* The read thread: poll_connection, read_from_socket, dispatch. *)

(* Mutant of Read: it does not wait for the batch to be dispatched. *)
ReadAhead ==
  /\ reader = "loop" /\ running
  /\ batch' \in batch + 1 .. batch + MaxBatch
  /\ UNCHANGED <<executor, reader, packet, command_lock>>

(* poll_connection: some bytes, with a number of packets in them ... *)
Read ==
  /\ reader = "loop" /\ running /\ batch = 0
  /\ batch' \in 1 .. MaxBatch
  /\ UNCHANGED <<executor, reader, packet, command_lock>>

(* ... each dispatched to the callbacks registered by then, stopped or not. *)
Dispatch(p) ==
  /\ reader = "loop" /\ batch > 0 /\ batch' = batch - 1
  /\ IF p \in callbacks THEN reader' = "enter" /\ packet' = p ELSE UNCHANGED <<reader, packet>>
  /\ UNCHANGED <<executor, command_lock>>

(* Stopped, or an I/O error. *)
ReaderEnds ==
  /\ reader = "loop" /\ batch = 0
  /\ reader' = "ended"
  /\ UNCHANGED <<executor, packet, batch, command_lock>>

(* The streaming callbacks look whether the publisher is activated ... *)
StreamCallback(p, pub) ==
  /\ reader = "enter" /\ packet = p
  /\ reader' = IF pub = "active" THEN "use" ELSE "loop"
  /\ UNCHANGED <<executor, packet, batch, command_lock>>

(* ... and publish. *)
Publish ==
  /\ reader = "use" /\ packet # "COMMAND_RESPONSE"
  /\ reader' = "loop"
  /\ UNCHANGED <<executor, packet, batch, command_lock>>

(* The command response callback runs under the lock. *)
ResponseLock ==
  /\ reader = "enter" /\ packet = "COMMAND_RESPONSE" /\ command_lock = "free"
  /\ reader' = "use" /\ command_lock' = "reader"
  /\ UNCHANGED <<executor, packet, batch>>

ResponseUnlock ==
  /\ reader = "use" /\ packet = "COMMAND_RESPONSE"
  /\ reader' = "loop" /\ command_lock' = "free"
  /\ UNCHANGED <<executor, packet, batch>>

-------------------------------------------------------------------------------
TransitionStep ==
  \/ ConfigurePublishers \/ ConfigureClient \/ ConfigureCallback \/ ConfigureServices
  \/ Activate \/ Deactivate
  \/ CleanupStop \/ CleanupJoin \/ CleanupPublishers \/ CleanupCommand
  \/ DestroyPublishers \/ DestroyClient

ReaderStep ==
  \/ Read
  \/ \E p \in PacketId : Dispatch(p)
  \/ ReaderEnds
  \/ StreamCallback("IMU_DATA", imu_pub) \/ StreamCallback("CAL_STATUS", calib_pub)
  \/ Publish
  \/ ResponseLock \/ ResponseUnlock

Next ==
  \/ StartConfigure \/ StartActivate \/ StartDeactivate \/ StartCleanup
  \/ Shutdown \/ Destroy
  \/ TransitionStep
  \/ ReaderStep

(* A transition that runs goes on, and so does the read thread, whose poll   *)
(* returns after 100 ms at the latest; once running_ is false it ends.       *)
Spec == Init /\ [][Next]_vars /\ WF_vars(TransitionStep) /\ WF_vars(ReaderStep)

-------------------------------------------------------------------------------
(* Properties. *)

(* driver.cpp:179-185: no callback runs on a publisher that has been reset,  *)
(* at any point of a configuration, a cleanup or a new configuration.        *)
(* (The destructor gives no such promise: see Destroy.)                      *)
CallbacksFindTheirPublishers ==
  state # "destroying" =>
    /\ InCallback("IMU_DATA") => imu_pub # "null"
    /\ InCallback("CAL_STATUS") => calib_pub # "null"

NothingLeft ==
  /\ reader = "none" /\ callbacks = {}
  /\ imu_pub = "null" /\ calib_pub = "null" /\ command_lock = "free"

(* driver.cpp:33-47, 175-195: an unconfigured node has no Client, and neither *)
(* it nor one finalized without a Client, as a failed configuration leaves    *)
(* it, has a read thread, a callback, a publisher or a lock that is held.     *)
UnconfiguredIsClean ==
  /\ state = "unconfigured" => client = "none"
  /\ state \in {"unconfigured", "finalized"} /\ client = "none" => NothingLeft

(* driver.cpp:179: the join in on_cleanup comes to an end, although the       *)
(* thread may be in the callback that needs command_lock_.                   *)
CleanupReturns == state = "cleaningup" ~> state = "unconfigured"
===============================================================================
