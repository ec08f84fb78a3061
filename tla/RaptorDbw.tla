----------------------------- MODULE RaptorDbw -----------------------------
(***************************************************************************)
(* The enable state machine of the Raptor CAN node.  Drive-by-wire is      *)
(* enabled while enable_ is set and no system is overridden by the driver  *)
(* or reports a fault; each change is published.  The node is single       *)
(* threaded; a brake report sets two faults and an override one after the  *)
(* other, and each of them may publish.                                    *)
(*                                                                         *)
(* Only the brakes and the gear are ever set: the reports of the           *)
(* accelerator and the steering that would set theirs are not handled.     *)
(***************************************************************************)
VARIABLES
  enable_,
  prev_enable_,
  raised,                \* which of override_*_ and fault_*_ are set
  dbw_enabled,           \* topic: what was published last
  by_wire,               \* the last AKit_GlobalByWireEnblReq
  cancelled,             \* systems the last timer sent a request of zero
  asked                  \* history: an enable was heeded since the system was on

vars == <<enable_, prev_enable_, raised, dbw_enabled, by_wire, cancelled, asked>>

Overrides == {"override_brake", "override_gear"}
Faults == {"fault_brakes", "fault_watchdog"}

TypeOK ==
  /\ enable_ \in BOOLEAN
  /\ prev_enable_ \in BOOLEAN
  /\ raised \in SUBSET (Overrides \cup Faults)
  /\ dbw_enabled \in BOOLEAN
  /\ by_wire \in BOOLEAN
  /\ cancelled \in SUBSET Overrides
  /\ asked \in BOOLEAN

\* The constructor publishes: prev_enable_ begins as the other value.
Init ==
  /\ enable_ = FALSE /\ prev_enable_ = FALSE
  /\ raised = {}
  /\ dbw_enabled = FALSE
  /\ by_wire = FALSE
  /\ cancelled = {}
  /\ asked = FALSE

-----------------------------------------------------------------------------
\* What the functions read and write, as a record.
Node(enable, set, prev, published) ==
  [enable |-> enable, raised |-> set, prev |-> prev, published |-> published]

Now == Node(enable_, raised, prev_enable_, dbw_enabled)

EnabledIn(node) == node.enable /\ node.raised = {}

Enabled == enable_ /\ raised = {}

\* Mutant: the request is published, whatever the faults.
PublishedByRequest(node) ==
  Node(node.enable, node.raised, node.enable,
       IF node.prev # node.enable THEN node.enable ELSE node.published)

\* publishDbwEnabled.
Published(node) ==
  Node(node.enable, node.raised, EnabledIn(node),
       IF node.prev # EnabledIn(node) THEN EnabledIn(node) ELSE node.published)

Set(node, which, value) ==
  IF value THEN node.raised \cup {which} ELSE node.raised \ {which}

\* Mutant: the request outlives the fault.
RaisedKept(node, which, value) ==
  Published(Node(node.enable, Set(node, which, value), node.prev, node.published))

\* overrideBrake, overrideGear, faultBrakes and faultWatchdog: an enabled system
\* is turned off for good, one that is not keeps its request.
Raised(node, which, value) ==
  Published(Node(node.enable /\ ~(value /\ EnabledIn(node)),
                 Set(node, which, value), node.prev, node.published))

Requested(node, enable) ==
  Published(Node(enable, node.raised, node.prev, node.published))

Become(node) ==
  /\ enable_' = node.enable
  /\ raised' = node.raised
  /\ prev_enable_' = node.prev
  /\ dbw_enabled' = node.published
  /\ UNCHANGED <<by_wire, cancelled>>

-----------------------------------------------------------------------------
\* enableSystem: a fault refuses it, an override does not.
RecvEnable ==
  /\ Become(IF ~enable_ /\ raised \cap Faults = {} THEN Requested(Now, TRUE) ELSE Now)
  /\ asked' = (enable_' /\ ~Enabled')

\* disableSystem.
RecvDisable ==
  /\ Become(IF enable_ THEN Requested(Now, FALSE) ELSE Now)
  /\ asked' = FALSE

RecvBrakeReport(fault, system_fault, driver) ==
  /\ Become(Raised(Raised(Raised(Now, "fault_brakes", fault),
                          "fault_watchdog", system_fault),
                   "override_brake", driver))
  /\ asked' = (asked /\ ~Enabled')

RecvGearReport(driver) ==
  /\ Become(Raised(Now, "override_gear", driver))
  /\ asked' = (asked /\ ~Enabled')

\* The global request goes out by whether the system is enabled.
RecvGlobalEnableCmd(global_enable) ==
  /\ by_wire' = (Enabled /\ global_enable)
  /\ UNCHANGED <<enable_, prev_enable_, raised, dbw_enabled, cancelled, asked>>

\* timerCallback: requests of zero to what the driver overrides, as long as
\* the system is to be enabled.
TimerCallback ==
  /\ cancelled' = IF enable_ THEN raised \cap Overrides ELSE {}
  /\ UNCHANGED <<enable_, prev_enable_, raised, dbw_enabled, by_wire, asked>>

Next ==
  \/ RecvEnable
  \/ RecvDisable
  \/ \E fault, system_fault, driver \in BOOLEAN :
       RecvBrakeReport(fault, system_fault, driver)
  \/ \E driver \in BOOLEAN : RecvGearReport(driver)
  \/ \E global_enable \in BOOLEAN : RecvGlobalEnableCmd(global_enable)
  \/ TimerCallback

Spec == Init /\ [][Next]_vars

-----------------------------------------------------------------------------
(* Properties.                                                             *)

\* What was published last is the truth, after every report, request and fault,
\* in whatever order they set and clear the flags: a system that is disabled
\* inside a report is never left published as enabled.
PublishedIsTrue == dbw_enabled = Enabled

\* Once the driver or a fault has turned the system off, it does not come back
\* on with the fault or the driver going away: somebody has asked again.
NotEnabledUnasked ==
  [][~Enabled /\ Enabled' => asked \/ RecvEnable]_vars
=============================================================================
