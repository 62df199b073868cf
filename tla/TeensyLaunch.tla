----------------------------- MODULE TeensyLaunch -----------------------------
(***************************************************************************)
(* The driver's launch file (teensy.launch.py) around its lifecycle: it    *)
(* asks for CONFIGURE once, and for ACTIVATE each time the node reports    *)
(* the transition from configuring to inactive.  Reports and requests are  *)
(* messages: between the transition and the request's arrival an operator  *)
(* may have moved the node on, and a request that no longer fits the       *)
(* node's state is refused.                                                *)
(***************************************************************************)
EXTENDS DriverLifecycle

VARIABLES
  configure,  \* the launch file's CONFIGURE has not reached the node
  reports,    \* configuring -> inactive: reports the launch file has not seen
  activate,   \* its ACTIVATE requests that have not reached the node
  operator    \* history: somebody else has asked for a transition

launch     == <<configure, reports, activate, operator>>
launchVars == <<vars, launch>>

LaunchTypeOK ==
  /\ TypeOK
  /\ configure \in BOOLEAN /\ operator \in BOOLEAN
  /\ reports \in 0 .. MaxTransitions /\ activate \in 0 .. MaxTransitions

LaunchInit == Init /\ configure = TRUE /\ reports = 0 /\ activate = 0 /\ operator = FALSE

(* A request reaches the node between two transitions. *)
Requested(start, primary) ==
  /\ state \in Primary /\ step = 0
  /\ \/ state = primary /\ start
     \/ state # primary /\ UNCHANGED vars

(* configure_event *)
LaunchConfigures ==
  /\ configure /\ configure' = FALSE
  /\ Requested(StartConfigure, "unconfigured")
  /\ UNCHANGED <<reports, activate, operator>>

(* Mutant of Reported: the start state is named unconfigured, which is not    *)
(* the state that on_configure runs in.                                       *)
ReportedFromUnconfigured == IF At("unconfigured", 6) THEN reports + 1 ELSE reports

(* OnStateTransition matches configuring -> inactive, nothing else.           *)
Reported == IF At("configuring", 6) THEN reports + 1 ELSE reports

(* activate_event *)
LaunchNotices ==
  /\ reports > 0 /\ reports' = reports - 1 /\ activate' = activate + 1
  /\ UNCHANGED <<vars, configure, operator>>

LaunchActivates ==
  /\ activate > 0 /\ activate' = activate - 1
  /\ Requested(StartActivate, "inactive")
  /\ UNCHANGED <<configure, reports, operator>>

NodeTransition ==
  /\ TransitionStep /\ reports' = Reported
  /\ UNCHANGED <<configure, activate, operator>>

NodeReader == ReaderStep /\ UNCHANGED launch

OperatorStep ==
  /\ \/ StartConfigure \/ StartActivate \/ StartDeactivate \/ StartCleanup
     \/ Shutdown \/ Destroy
  /\ operator' = TRUE
  /\ UNCHANGED <<configure, reports, activate>>

LaunchNext ==
  \/ LaunchConfigures \/ LaunchNotices \/ LaunchActivates
  \/ NodeTransition \/ NodeReader \/ OperatorStep

(* The node's threads keep running, and messages arrive in the end. *)
LaunchSpec ==
  /\ LaunchInit /\ [][LaunchNext]_launchVars
  /\ WF_launchVars(NodeTransition) /\ WF_launchVars(NodeReader)
  /\ WF_launchVars(LaunchConfigures) /\ WF_launchVars(LaunchNotices) /\ WF_launchVars(LaunchActivates)

-------------------------------------------------------------------------------
(* teensy.launch.py: left alone, a launched driver comes up active, or its    *)
(* configuration fails and it is finalized for good; it never stays in        *)
(* between.                                                                   *)
ComesUp == ~operator ~> operator \/ state \in {"active", "finalized"}
===============================================================================
