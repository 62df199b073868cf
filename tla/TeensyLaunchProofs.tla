-------------------------- MODULE TeensyLaunchProofs --------------------------
(***************************************************************************)
(* The safety properties of the driver's lifecycle, for any number of      *)
(* transitions and packets, with the launch file and an operator asking    *)
(* for transitions.                                                        *)
(*                                                                         *)
(* The properties hold because of where each transition creates and        *)
(* destroys the Client: its read thread, the only one that runs callbacks, *)
(* exists only between a configuration's third step and a cleanup's        *)
(* second, and in that span the publishers do (Members, Publishers); a     *)
(* configuration that fails leaves neither.  The  *)
(* lock is held only inside the command response callback (Lock), so that  *)
(* a node without a thread holds none.                                     *)
(***************************************************************************)
EXTENDS TeensyLaunch, TLAPS

(* The transitions' points at which the node has no Client. *)
Disconnected ==
  \/ state \in {"unconfigured", "destroyed"}
  \/ state = "configuring" /\ step <= 2
  \/ state = "cleaningup" /\ step >= 3

Members ==
  /\ Disconnected => client = "none"
  /\ state = "configuring" /\ step >= 3 => client = "alive"
  /\ state \in {"inactive", "activating", "active", "deactivating"} => client = "alive"
  /\ client = "none" => reader = "none" /\ callbacks = {}

Publishers ==
  /\ state = "unconfigured" \/ At("configuring", 1) \/ At("cleaningup", 4)
       => imu_pub = "null" /\ calib_pub = "null"
  /\ state = "finalized" /\ client = "none" => imu_pub = "null" /\ calib_pub = "null"
  /\ At("configuring", 2) => imu_pub # "null" /\ calib_pub # "null"
  /\ client = "alive" /\ state # "destroying" => imu_pub # "null" /\ calib_pub # "null"

Lock ==
  /\ command_lock # "executor"
  /\ command_lock = "reader" <=> reader = "use" /\ packet = "COMMAND_RESPONSE"

Safe == Members /\ Publishers /\ Lock

IInv == TypeOK /\ Safe

-------------------------------------------------------------------------------
(* An unconfigured node has nothing. *)
LEMMA InitIInv == Init => IInv
<1> SUFFICES ASSUME Init
             PROVE  IInv
  OBVIOUS
<1>1. TypeOK
  <2>1. running \in BOOLEAN /\ members \in BOOLEAN
    BY Zenon DEF Init
  <2> QED
    BY <2>1, TransitionsAssumption
       DEF Init, TypeOK, Primary, Transit, Outside, Publisher, PacketId
<1>2. Safe
  BY DEF Init, Safe, Members, Publishers, Lock, Disconnected, At
<1> QED
  BY <1>1, <1>2 DEF IInv

(* The parts of TypeOK that the executor, the Client and its thread change.   *)
StateType ==
  state \in Primary \cup Transit \cup {"destroyed"} /\ step \in 0 .. 6 /\ transitions \in 0 .. MaxTransitions

MemberType ==
  /\ imu_pub \in Publisher /\ calib_pub \in Publisher
  /\ client \in {"none", "alive"} /\ running \in BOOLEAN /\ members \in BOOLEAN
  /\ callbacks \subseteq PacketId

ThreadType ==
  /\ reader \in Outside \cup {"enter", "use"} /\ packet \in PacketId /\ batch \in 0 .. MaxBatch
  /\ command_lock \in {"free", "executor", "reader"}

(* The types in three parts, which the steps change separately. *)
LEMMA TypeParts == TypeOK <=> StateType /\ MemberType /\ ThreadType
BY DEF TypeOK, StateType, MemberType, ThreadType

(* Every step keeps the types of the transition, *)
LEMMA NextStateType == StateType /\ [Next]_vars => StateType'
<1> SUFFICES ASSUME StateType, [Next]_vars
             PROVE  StateType'
  OBVIOUS
<1> USE TransitionsAssumption DEF StateType, Primary, Transit
<1>1. CASE \/ StartConfigure \/ StartActivate \/ StartDeactivate \/ StartCleanup
           \/ Shutdown \/ Destroy
  BY <1>1 DEF StartConfigure, StartActivate, StartDeactivate, StartCleanup, Begin, Shutdown, Destroy
<1>2. CASE ConfigurePublishers \/ ConfigureClient \/ ConfigureServices
  BY <1>2 DEF ConfigurePublishers, ConfigureClient, ConfigureServices, Goto, End
<1>3. CASE ConfigureCallback
  <2>1. step \in 3 .. 5 /\ step' = step + 1 /\ UNCHANGED <<state, transitions>>
    BY <1>3 DEF ConfigureCallback, Goto
  <2> QED
    BY <2>1
<1>4. CASE Activate \/ Deactivate
  BY <1>4 DEF Activate, Deactivate, SwitchPublishers, Goto, End
<1>5. CASE CleanupStop \/ CleanupJoin \/ CleanupPublishers \/ CleanupCommand
  BY <1>5 DEF CleanupStop, CleanupJoin, CleanupPublishers, CleanupCommand, Goto, End
<1>6. CASE DestroyPublishers \/ DestroyClient
  BY <1>6 DEF DestroyPublishers, DestroyClient, Goto, End
<1>7. CASE ReaderStep \/ UNCHANGED vars
  <2>1. UNCHANGED executor
    BY <1>7 DEF ReaderStep, vars, Read, Dispatch, ReaderEnds, StreamCallback, Publish,
                ResponseLock, ResponseUnlock
  <2> QED
    BY <2>1 DEF executor
<1> QED
  BY <1>1, <1>2, <1>3, <1>4, <1>5, <1>6, <1>7 DEF Next, TransitionStep

(* ... those of the node's members, *)
LEMMA NextMemberType == MemberType /\ [Next]_vars => MemberType'
<1> SUFFICES ASSUME MemberType, [Next]_vars
             PROVE  MemberType'
  OBVIOUS
<1> USE DEF MemberType, Publisher, PacketId, publishers, clients, command
<1>1. CASE \/ StartConfigure \/ StartActivate \/ StartDeactivate \/ StartCleanup \/ Shutdown
           \/ ConfigureServices \/ CleanupCommand \/ ReaderStep \/ UNCHANGED vars
  <2>1. UNCHANGED <<imu_pub, calib_pub, client, running, members, callbacks>>
    BY <1>1 DEF StartConfigure, StartActivate, StartDeactivate, StartCleanup, Shutdown,
                ConfigureServices, CleanupCommand, ReaderStep, vars, executor, Read, Dispatch,
                ReaderEnds, StreamCallback, Publish, ResponseLock, ResponseUnlock
  <2> QED
    BY <2>1
<1>2. CASE Destroy \/ DestroyPublishers \/ CleanupStop
  <2>1. running' \in BOOLEAN /\ members' \in BOOLEAN
    BY <1>2, Zenon DEF Destroy, DestroyPublishers, CleanupStop
  <2> QED
    BY <1>2, <2>1 DEF Destroy, DestroyPublishers, CleanupStop
<1>3. CASE ConfigurePublishers \/ CleanupPublishers
  BY <1>3 DEF ConfigurePublishers, CleanupPublishers
<1>4. CASE ConfigureClient
  <2>1. running' \in BOOLEAN
    BY <1>4, Zenon DEF ConfigureClient
  <2> QED
    BY <1>4, <2>1 DEF ConfigureClient
<1>5. CASE ConfigureCallback
  <2>1. UNCHANGED <<imu_pub, calib_pub, client, running, members>>
    BY <1>5 DEF ConfigureCallback
  <2>2. PICK p \in PacketId : callbacks' = callbacks \cup {p}
    BY <1>5 DEF ConfigureCallback
  <2> QED
    BY <2>1, <2>2
<1>6. CASE Activate \/ Deactivate
  BY <1>6 DEF Activate, Deactivate, SwitchPublishers
<1>7. CASE CleanupJoin \/ DestroyClient
  BY <1>7 DEF CleanupJoin, DestroyClient
<1> QED
  BY <1>1, <1>2, <1>3, <1>4, <1>5, <1>6, <1>7 DEF Next, TransitionStep

(* ... those of the read thread, *)
LEMMA NextThreadType == ThreadType /\ [Next]_vars => ThreadType'
<1> SUFFICES ASSUME ThreadType, [Next]_vars
             PROVE  ThreadType'
  OBVIOUS
<1> USE TransitionsAssumption DEF ThreadType, Outside, thread, command
<1>1. CASE \/ StartConfigure \/ StartActivate \/ StartDeactivate \/ StartCleanup \/ Shutdown
           \/ Destroy \/ ConfigurePublishers \/ ConfigureCallback \/ ConfigureServices
           \/ Activate \/ Deactivate \/ CleanupStop \/ CleanupPublishers \/ DestroyPublishers
           \/ UNCHANGED vars
  <2>1. UNCHANGED <<thread, command_lock>>
    BY <1>1 DEF StartConfigure, StartActivate, StartDeactivate, StartCleanup, Shutdown, Destroy,
                ConfigurePublishers, ConfigureCallback, ConfigureServices, Activate, Deactivate,
                SwitchPublishers, CleanupStop, CleanupPublishers, DestroyPublishers, vars
  <2> QED
    BY <2>1
<1>2. CASE ConfigureClient \/ CleanupJoin \/ CleanupCommand \/ DestroyClient
  BY <1>2 DEF ConfigureClient, CleanupJoin, CleanupCommand, DestroyClient
<1>3. CASE Read \/ ReaderEnds \/ Publish \/ ResponseLock \/ ResponseUnlock
  BY <1>3 DEF Read, ReaderEnds, Publish, ResponseLock, ResponseUnlock
<1>4. CASE \E p \in PacketId : Dispatch(p)
  BY <1>4 DEF Dispatch
<1>5. CASE StreamCallback("IMU_DATA", imu_pub) \/ StreamCallback("CAL_STATUS", calib_pub)
  BY <1>5 DEF StreamCallback
<1> QED
  BY <1>1, <1>2, <1>3, <1>4, <1>5 DEF Next, TransitionStep, ReaderStep

(* ... and so all of them. *)
LEMMA NextType == TypeOK /\ [Next]_vars => TypeOK'
<1>1. TypeOK' <=> StateType' /\ MemberType' /\ ThreadType'
  BY TypeParts DEF TypeOK, StateType, MemberType, ThreadType
<1> QED
  BY <1>1, TypeParts, NextStateType, NextMemberType, NextThreadType

(* A step of the node keeps its members in the order of their lives. *)
LEMMA NextSafe == IInv /\ [Next]_vars => Safe'
<1> SUFFICES ASSUME IInv, [Next]_vars
             PROVE  Safe'
  OBVIOUS
<1> USE DEF IInv, TypeOK, Safe, Members, Publishers, Lock, Disconnected,
            executor, publishers, clients, thread, command, Begin, At, Goto, End,
            Primary, Transit, Outside, Publisher
<1>1. CASE StartConfigure \/ StartActivate \/ StartDeactivate \/ StartCleanup
  BY <1>1 DEF StartConfigure, StartActivate, StartDeactivate, StartCleanup
<1>2. CASE Shutdown \/ Destroy
  <2>1. CASE Shutdown
    BY <2>1 DEF Shutdown
  <2>2. CASE Destroy
    BY <2>2 DEF Destroy
  <2> QED
    BY <1>2, <2>1, <2>2
<1>3. CASE ConfigurePublishers \/ ConfigureServices
  BY <1>3 DEF ConfigurePublishers, ConfigureServices
<1>4. CASE ConfigureClient
  BY <1>4 DEF ConfigureClient
<1>5. CASE ConfigureCallback
  <2>1. /\ UNCHANGED <<state, publishers, client, thread, command>>
        /\ state = "configuring" /\ step \in 3 .. 5 /\ step' = step + 1
    BY <1>5 DEF ConfigureCallback
  <2>2. step > 2 /\ step' > 2 /\ step' # 1 /\ step' # 2
    BY <2>1
  <2>3. client' = "alive"
    BY <2>1
  <2> QED
    BY <2>1, <2>2, <2>3
<1>6. CASE Activate \/ Deactivate
  BY <1>6 DEF Activate, Deactivate, SwitchPublishers
<1>7. CASE CleanupStop \/ CleanupJoin
  BY <1>7 DEF CleanupStop, CleanupJoin
<1>8. CASE CleanupPublishers \/ CleanupCommand
  BY <1>8 DEF CleanupPublishers, CleanupCommand
<1>9. CASE DestroyPublishers \/ DestroyClient
  BY <1>9 DEF DestroyPublishers, DestroyClient
<1>10. CASE Read \/ ReaderEnds \/ Publish
  BY <1>10 DEF Read, ReaderEnds, Publish
<1>11. CASE ResponseLock \/ ResponseUnlock
  BY <1>11 DEF ResponseLock, ResponseUnlock
<1>12. CASE \E p \in PacketId : Dispatch(p)
  BY <1>12 DEF Dispatch
<1>13. CASE StreamCallback("IMU_DATA", imu_pub) \/ StreamCallback("CAL_STATUS", calib_pub)
  BY <1>13 DEF StreamCallback
<1>14. CASE UNCHANGED vars
  BY <1>14 DEF vars
<1> QED
  BY <1>1, <1>2, <1>3, <1>4, <1>5, <1>6, <1>7, <1>8, <1>9, <1>10, <1>11, <1>12, <1>13, <1>14
     DEF Next, TransitionStep, ReaderStep

(* Every step of the node keeps the invariant. *)
LEMMA NextIInv == IInv /\ [Next]_vars => IInv'
BY NextType, NextSafe DEF IInv

(* Whatever the launch file and the operator ask for, the node takes its own  *)
(* steps.                                                                     *)
LEMMA LaunchStepsTheNode == [LaunchNext]_launchVars => [Next]_vars
<1> SUFFICES ASSUME [LaunchNext]_launchVars
             PROVE  [Next]_vars
  OBVIOUS
<1>1. CASE LaunchConfigures
  BY <1>1 DEF LaunchConfigures, Requested, Next
<1>2. CASE LaunchActivates
  BY <1>2 DEF LaunchActivates, Requested, Next
<1>3. CASE LaunchNotices
  BY <1>3 DEF LaunchNotices
<1>4. CASE NodeTransition \/ NodeReader
  BY <1>4 DEF NodeTransition, NodeReader, Next
<1>5. CASE OperatorStep
  BY <1>5 DEF OperatorStep, Next
<1>6. CASE UNCHANGED launchVars
  BY <1>6 DEF launchVars
<1> QED
  BY <1>1, <1>2, <1>3, <1>4, <1>5, <1>6 DEF LaunchNext

(* The launch file and the operator take no other steps of the node. *)
LEMMA LaunchIInv == LaunchSpec => []IInv
<1>1. LaunchInit => Init
  BY DEF LaunchInit
<1> QED
  BY <1>1, InitIInv, NextIInv, LaunchStepsTheNode, PTL DEF LaunchSpec

-------------------------------------------------------------------------------
(* driver.cpp:179-185: while a callback runs, its publisher exists, however   *)
(* often the node is configured, cleaned up and configured again, and however *)
(* many packets are still being dispatched when it is.                        *)
THEOREM LaunchedCallbacksFindTheirPublishers == LaunchSpec => []CallbacksFindTheirPublishers
<1>1. IInv => CallbacksFindTheirPublishers
  BY DEF IInv, TypeOK, Safe, Members, Publishers, CallbacksFindTheirPublishers, InCallback
<1> QED
  BY <1>1, LaunchIInv, PTL

(* driver.cpp:33-47, 175-195: an unconfigured node, and one that a failed     *)
(* configuration finalized, has no Client, no read thread, callback or        *)
(* publisher of it, and nobody holds its lock.                                *)
THEOREM LaunchedUnconfiguredIsClean == LaunchSpec => []UnconfiguredIsClean
<1>1. IInv => UnconfiguredIsClean
  BY DEF IInv, TypeOK, Safe, Members, Publishers, Lock, Disconnected, UnconfiguredIsClean, NothingLeft
<1> QED
  BY <1>1, LaunchIInv, PTL

-------------------------------------------------------------------------------
(* The launch file: every report, and every request made of one, is of a      *)
(* configuration, and each of those began as a transition.                    *)
Configuring == IF state = "configuring" THEN 1 ELSE 0

LaunchInv ==
  /\ configure \in BOOLEAN /\ operator \in BOOLEAN
  /\ reports \in Nat /\ activate \in Nat
  /\ reports + activate + Configuring <= transitions

(* Fewer requests and no more configurations than transitions begun meanwhile.*)
LEMMA Budget ==
  ASSUME NEW r \in Nat, NEW a \in Nat, NEW c \in Nat, NEW n \in Nat, r + a + c <= n,
         NEW b \in Nat, NEW d \in Nat, NEW k \in Nat, b <= a, d <= c + (k - n)
  PROVE  r + b + d <= k
OBVIOUS

(* Nothing has been reported or asked for. *)
LEMMA InitLaunchInv == LaunchInit => LaunchInv
<1> SUFFICES ASSUME LaunchInit
             PROVE  LaunchInv
  OBVIOUS
<1>1. configure \in BOOLEAN /\ operator \in BOOLEAN
  BY Zenon DEF LaunchInit
<1> QED
  BY <1>1 DEF LaunchInit, LaunchInv, Init, Configuring

(* A report needs a transition of its own, an ACTIVATE a report. *)
LEMMA NextLaunchInv == IInv /\ LaunchInv /\ [LaunchNext]_launchVars => LaunchInv'
<1> SUFFICES ASSUME IInv, LaunchInv, [LaunchNext]_launchVars
             PROVE  LaunchInv'
  OBVIOUS
<1> USE TransitionsAssumption DEF LaunchInv
<1>t. transitions \in Nat /\ transitions' \in Nat
  <2>1. StateType /\ StateType'
    BY LaunchStepsTheNode, NextStateType, TypeParts DEF IInv
  <2> QED
    BY <2>1 DEF StateType
<1>c. Configuring \in 0 .. 1 /\ Configuring' \in 0 .. 1
  BY DEF Configuring
<1>1. CASE LaunchConfigures \/ LaunchActivates \/ OperatorStep
  <2>1. /\ reports' = reports /\ activate' \in Nat /\ activate' <= activate
        /\ configure' \in BOOLEAN /\ operator' \in BOOLEAN
    <3>1. configure' \in BOOLEAN /\ operator' \in BOOLEAN
      BY <1>1, Zenon DEF LaunchConfigures, LaunchActivates, OperatorStep
    <3> QED
      BY <1>1, <3>1 DEF LaunchConfigures, LaunchActivates, OperatorStep
  <2>2. \/ UNCHANGED <<state, transitions>>
        \/ transitions' = transitions + 1
        \/ state' # "configuring" /\ transitions' = transitions
    <3>1. \/ StartConfigure \/ StartActivate \/ StartDeactivate \/ StartCleanup
          \/ Shutdown \/ Destroy \/ UNCHANGED vars
      BY <1>1 DEF LaunchConfigures, LaunchActivates, OperatorStep, Requested
    <3>2. CASE \/ StartConfigure \/ StartActivate \/ StartDeactivate \/ StartCleanup
               \/ Shutdown \/ Destroy
      BY <3>2 DEF StartConfigure, StartActivate, StartDeactivate, StartCleanup, Begin, Shutdown, Destroy
    <3>3. CASE UNCHANGED vars
      BY <3>3 DEF vars, executor
    <3> QED
      BY <3>1, <3>2, <3>3
  <2>3. Configuring' <= Configuring + (transitions' - transitions)
    <3>1. CASE UNCHANGED <<state, transitions>>
      <4>1. Configuring' = Configuring
        BY <3>1 DEF Configuring
      <4> QED
        BY <1>t, <1>c, <3>1, <4>1
    <3>2. CASE transitions' = transitions + 1
      BY <1>t, <1>c, <3>2
    <3>3. CASE state' # "configuring" /\ transitions' = transitions
      <4>1. Configuring' = 0
        BY <3>3 DEF Configuring
      <4> QED
        BY <1>t, <1>c, <3>3, <4>1
    <3> QED
      BY <2>2, <3>1, <3>2, <3>3
  <2>4. reports' \in Nat /\ reports' + activate' + Configuring' <= transitions'
    <3>1. /\ reports \in Nat /\ activate \in Nat /\ activate' \in Nat /\ activate' <= activate
          /\ reports' = reports
      BY <2>1
    <3>2. Configuring \in Nat /\ Configuring' \in Nat
      BY <1>c
    <3>3. reports + activate + Configuring <= transitions
      OBVIOUS
    <3>4. reports + activate' + Configuring' <= transitions'
      BY <1>t, <3>1, <3>2, <3>3, <2>3, Budget
    <3> QED
      BY <3>1, <3>4
  <2> QED
    BY <2>1, <2>4
<1>2. CASE LaunchNotices
  <2>1. /\ UNCHANGED <<state, transitions, configure, operator>>
        /\ reports > 0 /\ reports' = reports - 1 /\ activate' = activate + 1
    BY <1>2 DEF LaunchNotices, vars, executor
  <2> QED
    BY <1>t, <2>1 DEF Configuring
<1>3. CASE NodeTransition
  <2>1. /\ UNCHANGED <<configure, operator, activate>>
        /\ TransitionStep /\ reports' = Reported
    BY <1>3 DEF NodeTransition
  <2>2. /\ transitions' = transitions
        /\ At("configuring", 6) => state' # "configuring"
        /\ state # "configuring" => state' # "configuring"
    BY <2>1 DEF TransitionStep, ConfigurePublishers, ConfigureClient, ConfigureCallback,
                ConfigureServices, Activate, Deactivate, SwitchPublishers, CleanupStop, CleanupJoin,
                CleanupPublishers, CleanupCommand, DestroyPublishers, DestroyClient, At, Goto, End
  <2>3. reports' \in Nat /\ reports' + Configuring' <= reports + Configuring
    BY <2>1, <2>2 DEF Reported, Configuring, At
  <2> QED
    BY <1>t, <2>1, <2>2, <2>3 DEF Configuring
<1>4. CASE NodeReader \/ UNCHANGED launchVars
  <2>1. UNCHANGED <<launch, state, transitions>>
    BY <1>4 DEF NodeReader, launchVars, vars, executor, ReaderStep, Read, Dispatch, ReaderEnds,
                StreamCallback, Publish, ResponseLock, ResponseUnlock
  <2> QED
    BY <2>1 DEF launch, Configuring
<1> QED
  BY <1>1, <1>2, <1>3, <1>4 DEF LaunchNext

(* Type correctness of the node and its launch file: in particular that       *)
(* neither the reports nor the requests ever pile up beyond the transitions.  *)
THEOREM LaunchTypeCorrect == LaunchSpec => []LaunchTypeOK
<1>1. LaunchSpec => []LaunchInv
  BY LaunchIInv, InitLaunchInv, NextLaunchInv, PTL DEF LaunchSpec
<1>2. IInv /\ LaunchInv => LaunchTypeOK
  <2> SUFFICES ASSUME IInv, LaunchInv
               PROVE  LaunchTypeOK
    OBVIOUS
  <2>1. TypeOK /\ transitions \in 0 .. MaxTransitions
    BY TypeParts DEF IInv, StateType
  <2>2. reports \in 0 .. MaxTransitions /\ activate \in 0 .. MaxTransitions
    BY <2>1, TransitionsAssumption DEF LaunchInv, Configuring
  <2> QED
    BY <2>1, <2>2 DEF LaunchInv, LaunchTypeOK
<1> QED
  BY <1>1, <1>2, LaunchIInv, PTL
===============================================================================
