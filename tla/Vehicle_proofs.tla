--------------------------- MODULE Vehicle_proofs ---------------------------
(***************************************************************************)
(* Proofs about the machines of Vehicle, for every value of the constants: *)
(* a behaviour of Vehicle is a behaviour of each machine, and each machine *)
(* keeps an invariant of its own.                                          *)
(***************************************************************************)
EXTENDS Vehicle, Sequences, TLAPS

-----------------------------------------------------------------------------
(* A step of Vehicle, as the machines see it.                              *)

LEMMA StepOfMachines ==
  ASSUME [Next]_vars
  PROVE  /\ [Raptor!Next]_(Raptor!vars)
         /\ [Ssc!Next]_(Ssc!vars)
         /\ [Planner!Next]_(Planner!vars)
         /\ [Location!Next]_(Location!vars)
         /\ [Flags!Next]_(Flags!vars)
         /\ [Gear!Next]_(Gear!vars)
         /\ [Braking!Next]_(Braking!vars)
         /\ [Cruise!Next]_(Cruise!vars)
         /\ [Pedals!Next]_(Pedals!vars)
         /\ [Speed!Next]_(Speed!vars)
<1> USE DEF vars, controlVars, driverVars, trackingVars
<1>1. [Raptor!Next]_raptorVars
  BY DEF Next, PedalsNext, GearNext, BrakingNext, SscNext, RaptorNext, FlagsNext,
         PlannerNext, LocalizationNext, CruiseNext, SpeedNext
<1>2. [Ssc!Next]_sscVars
  BY DEF Next, PedalsNext, GearNext, BrakingNext, SscNext, RaptorNext, FlagsNext,
         PlannerNext, LocalizationNext, CruiseNext, SpeedNext
<1>3. [Planner!Next]_plannerVars
  BY DEF Next, PedalsNext, GearNext, BrakingNext, SscNext, RaptorNext, FlagsNext,
         PlannerNext, LocalizationNext, CruiseNext, SpeedNext
<1>4. [Location!Next]_localizationVars
  BY DEF Next, PedalsNext, GearNext, BrakingNext, SscNext, RaptorNext, FlagsNext,
         PlannerNext, LocalizationNext, CruiseNext, SpeedNext
<1>5. [Flags!Next]_flagVars
  BY DEF Next, PedalsNext, GearNext, BrakingNext, SscNext, RaptorNext, FlagsNext,
         PlannerNext, LocalizationNext, CruiseNext, SpeedNext
<1>6. [Gear!Next]_gearVars
  BY DEF Next, PedalsNext, GearNext, BrakingNext, SscNext, RaptorNext, FlagsNext,
         PlannerNext, LocalizationNext, CruiseNext, SpeedNext
<1>7. [Braking!Next]_brakingVars
  BY DEF Next, PedalsNext, GearNext, BrakingNext, SscNext, RaptorNext, FlagsNext,
         PlannerNext, LocalizationNext, CruiseNext, SpeedNext
<1>8. [Raptor!Next]_(Raptor!vars)
  BY <1>1 DEF raptorVars, Raptor!vars
<1>9. [Ssc!Next]_(Ssc!vars)
  BY <1>2 DEF sscVars, Ssc!vars
<1>10. [Planner!Next]_(Planner!vars)
  BY <1>3 DEF plannerVars, Planner!vars
<1>11. [Location!Next]_(Location!vars)
  BY <1>4 DEF localizationVars, Location!vars, Location!sensorVars, Location!outVars
<1>12. [Flags!Next]_(Flags!vars)
  BY <1>5 DEF flagVars, Flags!vars, Flags!topicVars, Flags!sscVars, Flags!ctVars
<1>13. [Gear!Next]_(Gear!vars)
  BY <1>6 DEF gearVars, Gear!vars, Gear!shiftVars, Gear!inputVars
<1>14. [Braking!Next]_(Braking!vars)
  BY <1>7 DEF brakingVars, Braking!vars
<1>15. [Cruise!Next]_cruiseVars
  BY DEF Next, PedalsNext, GearNext, BrakingNext, SscNext, RaptorNext, FlagsNext,
         PlannerNext, LocalizationNext, CruiseNext, SpeedNext
<1>16. [Cruise!Next]_(Cruise!vars)
  BY <1>15 DEF cruiseVars, Cruise!vars, Cruise!topicVars, Cruise!lqrVars, Cruise!limitVars
<1>17. [Pedals!Next]_pedalVars
  BY DEF Next, PedalsNext, GearNext, BrakingNext, SscNext, RaptorNext, FlagsNext,
         PlannerNext, LocalizationNext, CruiseNext, SpeedNext
<1>18. [Pedals!Next]_(Pedals!vars)
  BY <1>17 DEF pedalVars, Pedals!vars, Pedals!safetyVars, Pedals!accelVars,
               Pedals!topicVars, Pedals!carVars
<1>19. [Speed!Next]_speedVars
  BY DEF Next, PedalsNext, GearNext, BrakingNext, SscNext, RaptorNext, FlagsNext,
         PlannerNext, LocalizationNext, CruiseNext, SpeedNext
<1>20. [Speed!Next]_(Speed!vars)
  BY <1>19 DEF speedVars, Speed!vars, Speed!velocityVars
<1> QED
  BY <1>8, <1>9, <1>10, <1>11, <1>12, <1>13, <1>14, <1>16, <1>18, <1>20

-----------------------------------------------------------------------------
(* The Raptor CAN node: what is published.                                 *)

NodeSet == [enable : BOOLEAN, raised : SUBSET (Raptor!Overrides \cup Raptor!Faults),
            prev : BOOLEAN, published : BOOLEAN]

\* What a function that sets a flag begins from, and what it leaves.
Known(node) == node \in NodeSet /\ node.prev = node.published

Told(node) == Known(node) /\ node.published = Raptor!EnabledIn(node)

LEMMA PublishedTells ==
  ASSUME NEW enable \in BOOLEAN, NEW raised_ \in SUBSET (Raptor!Overrides \cup Raptor!Faults),
         NEW prev \in BOOLEAN
  PROVE  LET node == Raptor!Published(Raptor!Node(enable, raised_, prev, prev))
         IN /\ Told(node)
            /\ node.enable = enable
            /\ node.raised = raised_
BY DEF NodeSet, Known, Told, Raptor!Published, Raptor!EnabledIn, Raptor!Node

LEMMA RaisedTells ==
  ASSUME NEW node, Told(node), NEW which \in Raptor!Overrides \cup Raptor!Faults,
         NEW value \in BOOLEAN
  PROVE  LET next == Raptor!Raised(node, which, value)
         IN /\ Told(next)
            /\ next.enable => node.enable
            /\ Raptor!EnabledIn(node) /\ next.enable => Raptor!EnabledIn(next)
<1> DEFINE enable == node.enable /\ ~(value /\ Raptor!EnabledIn(node))
           set    == Raptor!Set(node, which, value)
           next   == Raptor!Published(Raptor!Node(enable, set, node.prev, node.prev))
<1>1. /\ node.raised \in SUBSET (Raptor!Overrides \cup Raptor!Faults)
      /\ node.prev \in BOOLEAN
      /\ node.enable \in BOOLEAN
      /\ node.prev = node.published
  BY DEF Told, Known, NodeSet
<1>2. set \in SUBSET (Raptor!Overrides \cup Raptor!Faults)
  BY <1>1 DEF Raptor!Set
<1>3. enable \in BOOLEAN
  BY <1>1
<1>4. /\ Told(next)
      /\ next.enable = enable
      /\ next.raised = set
  <2> HIDE DEF enable, set
  <2> QED
    BY <1>1, <1>2, <1>3, PublishedTells
<1>5. next.enable => node.enable
  BY <1>4
<1>6. ASSUME Raptor!EnabledIn(node), next.enable
      PROVE  Raptor!EnabledIn(next)
  <2>1. ~value /\ node.raised = {}
    BY <1>4, <1>6 DEF Raptor!EnabledIn
  <2>2. set = {}
    BY <2>1 DEF Raptor!Set
  <2> QED
    BY <1>4, <1>6, <2>2 DEF Raptor!EnabledIn
<1>7. Raptor!Raised(node, which, value) = next
  BY <1>1 DEF Raptor!Raised
<1> HIDE DEF next
<1> QED
  BY <1>4, <1>5, <1>6, <1>7

\* What is published is so, and a request that is not granted was asked for.
RaptorInv ==
  /\ Raptor!TypeOK
  /\ dbw_enabled = Raptor!Enabled
  /\ prev_enable_ = Raptor!Enabled
  /\ enable_ /\ ~Raptor!Enabled => asked

LEMMA NowTells ==
  ASSUME RaptorInv
  PROVE  /\ Told(Raptor!Now)
         /\ Raptor!Now.enable = enable_
         /\ Raptor!EnabledIn(Raptor!Now) = Raptor!Enabled
BY DEF RaptorInv, Raptor!TypeOK, Raptor!Now, Raptor!Node, Told, Known, NodeSet,
       Raptor!Enabled, Raptor!EnabledIn

LEMMA BecomeTells ==
  ASSUME NEW node, Told(node), RaptorInv, Raptor!Become(node), asked' \in BOOLEAN
  PROVE  /\ Raptor!TypeOK'
         /\ dbw_enabled' = Raptor!Enabled'
         /\ prev_enable_' = Raptor!Enabled'
         /\ enable_' = node.enable
         /\ Raptor!Enabled' = Raptor!EnabledIn(node)
BY DEF RaptorInv, Raptor!TypeOK, Raptor!Become, Told, Known, NodeSet,
       Raptor!Enabled, Raptor!EnabledIn

LEMMA RequestedTells ==
  ASSUME RaptorInv, NEW enable \in BOOLEAN
  PROVE  LET next == Raptor!Requested(Raptor!Now, enable)
         IN Told(next) /\ next.enable = enable
<1>1. Raptor!Requested(Raptor!Now, enable)
        = Raptor!Published(Raptor!Node(enable, raised, prev_enable_, prev_enable_))
  BY DEF RaptorInv, Raptor!Requested, Raptor!Now, Raptor!Node
<1>2. raised \in SUBSET (Raptor!Overrides \cup Raptor!Faults) /\ prev_enable_ \in BOOLEAN
  BY DEF RaptorInv, Raptor!TypeOK
<1> QED
  BY <1>1, <1>2, PublishedTells

LEMMA RaptorStep ==
  ASSUME RaptorInv, [Raptor!Next]_(Raptor!vars)
  PROVE  /\ RaptorInv'
         /\ ~Raptor!Enabled /\ Raptor!Enabled' => asked \/ Raptor!RecvEnable
<1>1. CASE Raptor!RecvEnable
  <2>1. PICK node : Told(node) /\ Raptor!Become(node)
    BY <1>1, NowTells, RequestedTells DEF Raptor!RecvEnable
  <2>2. asked' = (enable_' /\ ~Raptor!Enabled')
    BY <1>1 DEF Raptor!RecvEnable
  <2>3. asked' \in BOOLEAN
    BY <2>2
  <2> QED
    BY <1>1, <2>1, <2>2, <2>3, BecomeTells DEF RaptorInv
<1>2. CASE Raptor!RecvDisable
  <2>1. PICK node : Told(node) /\ Raptor!Become(node) /\ ~node.enable
    BY <1>2, NowTells, RequestedTells DEF Raptor!RecvDisable
  <2>2. ~asked' /\ asked' \in BOOLEAN
    BY <1>2 DEF Raptor!RecvDisable
  <2>3. ~enable_'
    BY <2>1, <2>2, BecomeTells
  <2> QED
    BY <2>1, <2>2, <2>3, BecomeTells DEF RaptorInv, Raptor!Enabled
<1>3. ASSUME NEW node, Told(node), Raptor!Become(node),
             node.enable => enable_,
             Raptor!Enabled /\ node.enable => Raptor!EnabledIn(node),
             asked' = (asked /\ ~Raptor!Enabled')
      PROVE  RaptorInv' /\ (~Raptor!Enabled /\ Raptor!Enabled' => asked)
  <2>1. asked' \in BOOLEAN
    BY <1>3
  <2>2. /\ Raptor!TypeOK'
        /\ dbw_enabled' = Raptor!Enabled'
        /\ prev_enable_' = Raptor!Enabled'
        /\ enable_' = node.enable
        /\ Raptor!Enabled' = Raptor!EnabledIn(node)
    BY <1>3, <2>1, BecomeTells
  <2>3. enable_' /\ ~Raptor!Enabled' => asked'
    BY <1>3, <2>2 DEF RaptorInv
  <2>4. ~Raptor!Enabled /\ Raptor!Enabled' => asked
    BY <1>3, <2>2 DEF RaptorInv, Raptor!Enabled
  <2> QED
    BY <2>2, <2>3, <2>4 DEF RaptorInv
<1>4. ASSUME NEW fault \in BOOLEAN, NEW system_fault \in BOOLEAN, NEW driver \in BOOLEAN,
             Raptor!RecvBrakeReport(fault, system_fault, driver)
      PROVE  RaptorInv' /\ (~Raptor!Enabled /\ Raptor!Enabled' => asked)
  <2> DEFINE one   == Raptor!Raised(Raptor!Now, "fault_brakes", fault)
             two   == Raptor!Raised(one, "fault_watchdog", system_fault)
             three == Raptor!Raised(two, "override_brake", driver)
  <2>1. /\ Told(one)
        /\ one.enable => enable_
        /\ Raptor!Enabled /\ one.enable => Raptor!EnabledIn(one)
    BY NowTells, RaisedTells DEF Raptor!Faults
  <2>2. Raptor!Become(three) /\ asked' = (asked /\ ~Raptor!Enabled')
    BY <1>4 DEF Raptor!RecvBrakeReport
  <2> HIDE DEF one
  <2>3. /\ Told(two)
        /\ two.enable => one.enable
        /\ Raptor!EnabledIn(one) /\ two.enable => Raptor!EnabledIn(two)
    BY <2>1, RaisedTells DEF Raptor!Faults
  <2> HIDE DEF two
  <2>4. /\ Told(three)
        /\ three.enable => two.enable
        /\ Raptor!EnabledIn(two) /\ three.enable => Raptor!EnabledIn(three)
    BY <2>3, RaisedTells DEF Raptor!Overrides
  <2> HIDE DEF three
  <2> QED
    BY <1>3, <2>1, <2>2, <2>3, <2>4
<1>5. ASSUME NEW driver \in BOOLEAN, Raptor!RecvGearReport(driver)
      PROVE  RaptorInv' /\ (~Raptor!Enabled /\ Raptor!Enabled' => asked)
  <2> DEFINE node == Raptor!Raised(Raptor!Now, "override_gear", driver)
  <2>1. /\ Told(node)
        /\ node.enable => enable_
        /\ Raptor!Enabled /\ node.enable => Raptor!EnabledIn(node)
    BY NowTells, RaisedTells DEF Raptor!Overrides
  <2>2. Raptor!Become(node) /\ asked' = (asked /\ ~Raptor!Enabled')
    BY <1>5 DEF Raptor!RecvGearReport
  <2> HIDE DEF node
  <2> QED
    BY <1>3, <2>1, <2>2
<1>6. CASE (\E global_enable \in BOOLEAN : Raptor!RecvGlobalEnableCmd(global_enable))
  BY <1>6 DEF Raptor!RecvGlobalEnableCmd, RaptorInv, Raptor!TypeOK, Raptor!Enabled
<1>7. CASE Raptor!TimerCallback
  BY <1>7 DEF Raptor!TimerCallback, RaptorInv, Raptor!TypeOK, Raptor!Enabled
<1>8. CASE UNCHANGED Raptor!vars
  BY <1>8 DEF Raptor!vars, RaptorInv, Raptor!TypeOK, Raptor!Enabled
<1> QED
  BY <1>1, <1>2, <1>4, <1>5, <1>6, <1>7, <1>8 DEF Raptor!Next

LEMMA RaptorInvariant == Spec => []RaptorInv
<1>1. Init => RaptorInv
  BY DEF Init, Raptor!Init, RaptorInv, Raptor!TypeOK, Raptor!Enabled
<1>2. RaptorInv /\ [Next]_vars => RaptorInv'
  BY StepOfMachines, RaptorStep
<1> QED
  BY <1>1, <1>2, PTL DEF Spec

\* Whatever reports, requests and faults come, and in whatever order they set
\* and clear the flags, what the node published last is whether drive-by-wire
\* is enabled.
THEOREM WhatIsPublishedIsTrue == Spec => []PublishedIsTrue
<1>1. RaptorInv => PublishedIsTrue
  BY DEF RaptorInv, PublishedIsTrue, Raptor!PublishedIsTrue
<1> QED
  BY <1>1, RaptorInvariant, PTL

\* A system that the driver or a fault has turned off comes back on only after
\* somebody has asked for it since.
THEOREM EnabledOnlyWhenAsked == Spec => NotEnabledUnasked
<1>1. RaptorInv /\ [Next]_vars
        => [~Raptor!Enabled /\ Raptor!Enabled' => asked \/ Raptor!RecvEnable]_(Raptor!vars)
  BY StepOfMachines, RaptorStep
<1> QED
  BY <1>1, RaptorInvariant, PTL DEF Spec, NotEnabledUnasked, Raptor!NotEnabledUnasked

-----------------------------------------------------------------------------
(* Race control's flags: what was shown before the race.                   *)

\* Every flag that is under way was shown.  What the memory held at the start
\* can have been red at most, once the car is out of its first state.
FlagsInv ==
  /\ flag_summary \in Seq(Summaries) /\ rc_to_ct \in Seq(Nat)
  /\ \A i \in 1 .. Len(flag_summary) : flag_summary[i].track_flag \in shown
  /\ \A i \in 1 .. Len(rc_to_ct) : rc_to_ct[i] \in shown
  /\ ct_current_mode \in Flags!CtModes
  /\ ct_current_mode # 255 => m_rec_track_cond \in shown \cup {Flags!RED}
  /\ ct_current_mode \in 5 .. 9 => Flags!ORANGE \in shown
  /\ ct_current_mode \in 7 .. 9 => Flags!YELLOW \in shown
  /\ ct_current_mode = 9 => Flags!GREEN \in shown

LEMMA PublishHolds ==
  ASSUME FlagsInv, NEW summary, summary \in Summaries, summary.track_flag \in Nat
  PROVE  LET summaries == Flags!Publish(flag_summary, summary)
             flags     == Flags!Publish(rc_to_ct, summary.track_flag)
         IN /\ summaries \in Seq(Summaries)
            /\ \A i \in 1 .. Len(summaries) :
                 summaries[i].track_flag \in shown \cup {summary.track_flag}
            /\ flags \in Seq(Nat)
            /\ \A i \in 1 .. Len(flags) : flags[i] \in shown \cup {summary.track_flag}
<1> DEFINE summaries == Flags!Publish(flag_summary, summary)
           flags     == Flags!Publish(rc_to_ct, summary.track_flag)
<1> USE DEF FlagsInv
<1>1. FlagDepth \in Nat \ {0}
  BY VehicleAssumption DEF Flags!FlagsConstants
<1>2. /\ summaries \in Seq(Summaries)
      /\ \A i \in 1 .. Len(summaries) :
           summaries[i].track_flag \in shown \cup {summary.track_flag}
  <2>1. CASE Len(flag_summary) < FlagDepth
    BY <2>1 DEF Flags!Publish
  <2>2. CASE ~(Len(flag_summary) < FlagDepth)
    BY <1>1, <2>2 DEF Flags!Publish
  <2> QED
    BY <2>1, <2>2
<1>3. /\ flags \in Seq(Nat)
      /\ \A i \in 1 .. Len(flags) : flags[i] \in shown \cup {summary.track_flag}
  <2>1. CASE Len(rc_to_ct) < FlagDepth
    BY <2>1 DEF Flags!Publish
  <2>2. CASE ~(Len(rc_to_ct) < FlagDepth)
    BY <1>1, <2>2 DEF Flags!Publish
  <2> QED
    BY <2>1, <2>2
<1> QED
  BY <1>2, <1>3

LEMMA TakeHolds ==
  ASSUME NEW Messages, NEW topic \in Seq(Messages), topic # <<>>
  PROVE  /\ Tail(topic) \in Seq(Messages)
         /\ \A i \in 1 .. Len(Tail(topic)) :
              \E j \in 1 .. Len(topic) : Tail(topic)[i] = topic[j]
         /\ Head(topic) = topic[1] /\ 1 \in 1 .. Len(topic)
  OBVIOUS

LEMMA FlagsStep ==
  ASSUME FlagsInv, [Flags!Next]_(Flags!vars)
  PROVE  FlagsInv'
<1> USE DEF FlagsInv
<1>1. ASSUME NEW summary \in Summaries, Flags!RecvSummary(summary)
      PROVE  FlagsInv'
  <2>1. summary.track_flag \in Nat
    BY VehicleAssumption DEF Flags!FlagsConstants
  <2>2. /\ flag_summary' = Flags!Publish(flag_summary, summary)
        /\ rc_to_ct' = Flags!Publish(rc_to_ct, summary.track_flag)
        /\ shown' = shown \cup {summary.track_flag}
        /\ UNCHANGED <<ct_current_mode, m_rec_track_cond>>
    BY <1>1 DEF Flags!RecvSummary, Flags!sscVars, Flags!ctVars
  <2>3. /\ flag_summary' \in Seq(Summaries)
        /\ \A i \in 1 .. Len(flag_summary') : flag_summary'[i].track_flag \in shown'
        /\ rc_to_ct' \in Seq(Nat)
        /\ \A i \in 1 .. Len(rc_to_ct') : rc_to_ct'[i] \in shown'
    BY <2>1, <2>2, PublishHolds
  <2> QED
    BY <2>2, <2>3
<1>2. CASE Flags!FlagSummaryCallback
  <2>1. /\ flag_summary # <<>> /\ flag_summary' = Tail(flag_summary)
        /\ m_rec_track_cond' \in {Head(flag_summary).track_flag, m_rec_track_cond}
        /\ UNCHANGED <<rc_to_ct, shown, ct_current_mode>>
    BY <1>2 DEF Flags!FlagSummaryCallback, Flags!ctVars
  <2>2. /\ flag_summary' \in Seq(Summaries)
        /\ \A i \in 1 .. Len(flag_summary') : flag_summary'[i].track_flag \in shown
        /\ Head(flag_summary).track_flag \in shown
    BY <2>1, TakeHolds
  <2> QED
    BY <2>1, <2>2
<1>3. CASE Flags!RcToCtCallback
  <2>1. /\ rc_to_ct # <<>> /\ rc_to_ct' = Tail(rc_to_ct)
        /\ m_rec_track_cond' \in {Head(rc_to_ct), m_rec_track_cond}
        /\ UNCHANGED <<flag_summary, shown, ct_current_mode>>
    BY <1>3 DEF Flags!RcToCtCallback, Flags!RcTrackCond, Flags!ctVars
  <2>2. /\ rc_to_ct' \in Seq(Nat)
        /\ \A i \in 1 .. Len(rc_to_ct') : rc_to_ct'[i] \in shown
        /\ Head(rc_to_ct) \in shown
    BY <2>1, TakeHolds
  <2> QED
    BY <2>1, <2>2
<1>4. ASSUME NEW sys_state \in {1, 4, 5, 8, 9}, NEW standing \in BOOLEAN,
             NEW emergency_ \in BOOLEAN,
             Flags!MiscReportCallback(sys_state, standing, emergency_)
      PROVE  FlagsInv'
  <2>1. UNCHANGED <<flag_summary, rc_to_ct, shown, m_rec_track_cond>>
    BY <1>4 DEF Flags!MiscReportCallback, Flags!topicVars, Flags!sscVars
  <2>2. CASE ct_current_mode \in 1 .. 7
    <3>1. CASE emergency_
      BY <1>4, <2>1, <2>2, <3>1 DEF Flags!MiscReportCallback, Flags!CtModes
    <3>2. CASE ~emergency_
      <4>1. ct_current_mode' = Flags!Advanced(sys_state)
        BY <1>4, <2>2, <3>2 DEF Flags!MiscReportCallback
      <4> QED
        BY <2>1, <2>2, <4>1 DEF Flags!Advanced, Flags!Track, Flags!CtModes, Flags!RED,
             Flags!ORANGE, Flags!YELLOW, Flags!GREEN
    <3> QED
      BY <3>1, <3>2
  <2>3. CASE ct_current_mode \in 8 .. 10
    <3>1. CASE emergency_
      BY <1>4, <2>1, <2>3, <3>1 DEF Flags!MiscReportCallback, Flags!CtModes
    <3>2. CASE ~emergency_
      <4>1. ct_current_mode' = Flags!Driven(standing)
        BY <1>4, <2>3, <3>2 DEF Flags!MiscReportCallback
      <4> QED
        BY <2>1, <2>3, <4>1 DEF Flags!Driven, Flags!Track, Flags!CtModes, Flags!RED,
             Flags!ORANGE, Flags!YELLOW, Flags!GREEN
    <3> QED
      BY <3>1, <3>2
  <2>4. CASE ct_current_mode \in {11, 12}
    BY <1>4, <2>1, <2>4 DEF Flags!MiscReportCallback
  <2>5. CASE ct_current_mode = 255
    BY <1>4, <2>1, <2>5 DEF Flags!MiscReportCallback, Flags!Track, Flags!CtModes
  <2> QED
    BY <2>2, <2>3, <2>4, <2>5 DEF Flags!CtModes
<1>5. CASE UNCHANGED Flags!vars
  BY <1>5 DEF Flags!vars, Flags!topicVars, Flags!sscVars, Flags!ctVars
<1> QED
  BY <1>1, <1>2, <1>3, <1>4, <1>5 DEF Flags!Next, Flags!RecvSummaries, Flags!MiscReport

\* Whatever the memory of the flags holds when the SSC interface starts, and in
\* whatever order it takes its two topics, the car is in the race only after
\* race control has shown orange, yellow and green.
THEOREM NoRaceBeforeTheFlags == Spec => []RaceNeedsFlags
<1>1. Init => FlagsInv
  BY DEF Init, Flags!Init, FlagsInv, Flags!CtModes
<1>2. FlagsInv /\ [Next]_vars => FlagsInv'
  BY StepOfMachines, FlagsStep
<1>3. FlagsInv => RaceNeedsFlags
  BY DEF FlagsInv, RaceNeedsFlags, Flags!RaceNeedsFlags
<1> QED
  BY <1>1, <1>2, <1>3, PTL DEF Spec

-----------------------------------------------------------------------------
(* The planner: the line that is named.                                    *)

Followed(plan) ==
  plan.line # "none" => plan.alias = plan.line /\ plan.reset \in {"none", plan.line}

LEMMA OntoIsFollowed ==
  ASSUME NEW new
  PROVE  Followed(Planner!Onto(new))
BY DEF Followed, Planner!Onto

LEMMA SwitchedIsFollowed ==
  ASSUME NEW new, NEW passed \in BOOLEAN, AliasFollowsPath
  PROVE  /\ Followed(Planner!Plan)
         /\ Followed(Planner!Switched(Planner!Base(new), passed))
         /\ line # "none" => Followed(Planner!Switched(Planner!Plan, passed))
         /\ Followed(Planner!Switched(Planner!Onto(new), passed))
BY DEF AliasFollowsPath, Planner!AliasFollowsPath, Followed, Planner!Plan,
       Planner!Onto, Planner!Base, Planner!Switched

LEMMA PlannedIsFollowed ==
  ASSUME NEW plan, NEW lat_type, NEW longi_type, Followed(plan),
         Planner!Planned(plan, lat_type, longi_type)
  PROVE  AliasFollowsPath'
BY DEF AliasFollowsPath, Planner!AliasFollowsPath, Followed, Planner!Planned

LEMMA PlannerStep ==
  ASSUME AliasFollowsPath, [Planner!Next]_(Planner!vars)
  PROVE  AliasFollowsPath'
<1>1. CASE Planner!RunPit
  BY <1>1 DEF AliasFollowsPath, Planner!AliasFollowsPath, Planner!RunPit,
              Planner!Planned, Planner!Pitted, Planner!Plan
<1>2. ASSUME NEW passed \in BOOLEAN, NEW far \in BOOLEAN, NEW generated \in BOOLEAN,
             NEW zone, Planner!RunRace(passed, zone, far, generated)
      PROVE  AliasFollowsPath'
  <2> DEFINE plan == Planner!Switched(Planner!Base("raceline"), passed)
  <2>1. Followed(Planner!Plan) /\ Followed(plan)
    BY SwitchedIsFollowed
  <2>2. \/ Planner!Estop(Planner!Plan)
        \/ Planner!Planned(Planner!Onto("raceline"), "MERGE", "STRAIGHT")
        \/ Planner!Estop(plan)
        \/ Planner!KeepsOrPasses(plan, zone, generated)
    BY <1>2 DEF Planner!RunRace
  <2> HIDE DEF plan
  <2>3. CASE Planner!KeepsOrPasses(plan, zone, generated)
    BY <2>1, <2>3, OntoIsFollowed, PlannedIsFollowed DEF Planner!KeepsOrPasses
  <2> QED
    BY <2>1, <2>2, <2>3, OntoIsFollowed, PlannedIsFollowed DEF Planner!Estop
<1>3. ASSUME NEW passed \in BOOLEAN, NEW generated \in BOOLEAN,
             Planner!RunConstantSpeed(passed, generated)
      PROVE  AliasFollowsPath'
  <2> DEFINE first == defender_first \/ line = "none"
             base  == IF first THEN Planner!Onto("defender") ELSE Planner!Plan
             plan  == Planner!Switched(base, passed)
  <2>1. Followed(plan) /\ Followed(Planner!Plan)
    BY SwitchedIsFollowed
  <2>2. Planner!Estop(Planner!Plan) \/ Planner!Planned(plan, "KEEP", "FOLLOW")
    BY <1>3 DEF Planner!RunConstantSpeed
  <2> HIDE DEF plan
  <2> QED
    BY <2>1, <2>2, PlannedIsFollowed DEF Planner!Estop
<1>4. ASSUME NEW passed \in BOOLEAN, NEW close \in BOOLEAN, NEW generated \in BOOLEAN,
             NEW zone, Planner!RunOther(passed, zone, close, generated)
      PROVE  AliasFollowsPath'
  <2> DEFINE plan == Planner!Switched(Planner!Base("raceline"), passed)
  <2>1. Followed(Planner!Plan) /\ Followed(plan)
    BY SwitchedIsFollowed
  <2>2. \/ Planner!Estop(Planner!Plan)
        \/ Planner!Planned(Planner!Onto("stay_behind"), "MERGE", "STRAIGHT")
        \/ Planner!Estop(plan)
        \/ Planner!Planned(plan, "KEEP", "FOLLOW")
    BY <1>4 DEF Planner!RunOther
  <2> HIDE DEF plan
  <2> QED
    BY <2>1, <2>2, OntoIsFollowed, PlannedIsFollowed DEF Planner!Estop
<1>5. CASE UNCHANGED <<line, alias, reset_line>>
  BY <1>5 DEF AliasFollowsPath, Planner!AliasFollowsPath
<1> QED
  BY <1>1, <1>2, <1>3, <1>4, <1>5
  DEF Planner!Next, Planner!Run, Planner!RunWaiting, Planner!PredictionResultCallback,
      Planner!Tick, Planner!SystemStatus, Planner!vars

\* Through every change of mission, failed generation and pit stop, and for any
\* lines to pass on, the line the planner names is the one its trajectory is on
\* or is to be switched to.
THEOREM NamedLineIsDriven == Spec => []AliasFollowsPath
<1>1. Init => AliasFollowsPath
  BY DEF Init, Planner!Init, AliasFollowsPath, Planner!AliasFollowsPath
<1>2. AliasFollowsPath /\ [Next]_vars => AliasFollowsPath'
  BY StepOfMachines, PlannerStep
<1> QED
  BY <1>1, <1>2, PTL DEF Spec

-----------------------------------------------------------------------------
(* The localization: what a converged filter is fed with.                  *)

\* Of a converged filter's choices, those that are unset are not to be used.
LEMMA UnsetIsNotUsed ==
  ASSUME NEW choice, choice \in Location!Choices(TRUE),
         Location!Decided(choice, TRUE).update
  PROVE  Location!Decided(choice, TRUE).from # "unset"
<1>1. choice.update => choice.from # "unset"
  BY DEF Location!Choices, Location!BestCorrection, Location!Choice
<1>2. choice.from = Location!Decided(choice, TRUE).from
  <2>1. DOMAIN choice = {"from", "code", "update"}
    BY DEF Location!Choices, Location!Choice, Location!BestCorrection
  <2> QED
    BY <2>1 DEF Location!Decided
<1>3. ~Location!Noisy
  BY DEF Location!Decided, Location!Choices, Location!Choice, Location!BestCorrection
<1> QED
  BY <1>1, <1>2, <1>3 DEF Location!Decided

LocationInv == MeasuredOnceConverged /\ bInitConverged \in BOOLEAN

LEMMA LocationStep ==
  ASSUME LocationInv, [Location!Next]_(Location!vars)
  PROVE  LocationInv'
<1> USE DEF LocationInv, MeasuredOnceConverged, Location!MeasuredOnceConverged
<1>1. CASE Location!Runs
  <2>1. PICK near \in BOOLEAN : Location!Run(near)
    BY <1>1 DEF Location!Runs
  <2>2. bInitConverged' \in BOOLEAN
    BY <2>1 DEF Location!Run, Location!Converges
  <2>3. CASE bInitConverged'
    <3>1. PICK choice \in Location!Choices(TRUE) :
                 Location!Corrected(Location!Decided(choice, TRUE))
      BY <2>1, <2>3 DEF Location!Run
    <3>2. corrected' # "unset"
      BY <3>1, UnsetIsNotUsed DEF Location!Corrected
    <3> QED
      BY <2>2, <3>2
  <2> QED
    BY <2>2, <2>3
<1>2. CASE UNCHANGED Location!outVars
  BY <1>2 DEF Location!outVars
<1>3. CASE Location!Messages
  BY <1>2, <1>3 DEF Location!Messages, Location!BestPos, Location!InsStdev,
                    Location!Heading, Location!Imu
<1>4. CASE Location!Tick
  BY <1>2, <1>4 DEF Location!Tick
<1>5. CASE UNCHANGED Location!vars
  BY <1>2, <1>5 DEF Location!vars
<1> QED
  BY <1>1, <1>3, <1>4, <1>5 DEF Location!Next

\* Whatever receivers fall silent, get noisy or disagree, the estimate of a
\* filter that has converged is never corrected with a variable that nothing
\* has been assigned to.
THEOREM ConvergedIsMeasured == Spec => []MeasuredOnceConverged
<1>1. Init => LocationInv
  BY DEF Init, Location!Init, LocationInv, MeasuredOnceConverged,
         Location!MeasuredOnceConverged
<1>2. LocationInv /\ [Next]_vars => LocationInv'
  BY StepOfMachines, LocationStep
<1>3. LocationInv => MeasuredOnceConverged
  BY DEF LocationInv
<1> QED
  BY <1>1, <1>2, <1>3, PTL DEF Spec

-----------------------------------------------------------------------------
(* The shifting: no hunting.                                               *)

\* The speed is still on the side of the table that the last shift came from.
GearInv ==
  /\ curr_gear \in Gear!Gears
  /\ speed \in GearSpeeds
  /\ last_shift \in {"none", "up", "down"}
  /\ last_shift = "up" => curr_gear > 1 /\ speed > UpshiftSpeed[curr_gear - 1]
  /\ last_shift = "down" => curr_gear < TopGear /\ speed < DownshiftSpeed[curr_gear + 1]

LEMMA GearStep ==
  ASSUME GearInv, [Gear!Next]_(Gear!vars)
  PROVE  /\ GearInv'
         /\ Gear!ShiftUp => last_shift # "down"
         /\ Gear!ShiftDown => last_shift # "up"
<1> USE DEF GearInv, Gear!Gears
<1>1. /\ TopGear \in Nat \ {0}
      /\ DownshiftSpeed \in [1 .. TopGear -> Int]
      /\ UpshiftSpeed \in [1 .. TopGear -> Int]
      /\ \A gear \in 1 .. TopGear - 1 : DownshiftSpeed[gear + 1] <= UpshiftSpeed[gear]
      /\ GearSpeeds \subseteq Nat
  BY VehicleAssumption DEF Gear!GearConstants
<1>2. last_shift = "down" => ~Gear!WantsUp
  <2>1. SUFFICES ASSUME last_shift = "down", Gear!WantsUp
                 PROVE  FALSE
    OBVIOUS
  <2>2. speed < DownshiftSpeed[curr_gear + 1] /\ speed > UpshiftSpeed[curr_gear]
    BY <2>1 DEF Gear!WantsUp
  <2>3. DownshiftSpeed[curr_gear + 1] <= UpshiftSpeed[curr_gear]
    BY <1>1, <2>1
  <2> QED
    BY <1>1, <2>1, <2>2, <2>3
<1>3. last_shift = "up" => ~Gear!WantsDown
  <2>1. SUFFICES ASSUME last_shift = "up", Gear!WantsDown
                 PROVE  FALSE
    OBVIOUS
  <2>2. speed > UpshiftSpeed[curr_gear - 1] /\ speed < DownshiftSpeed[curr_gear]
    BY <2>1 DEF Gear!WantsDown
  <2>3. DownshiftSpeed[(curr_gear - 1) + 1] <= UpshiftSpeed[curr_gear - 1]
    BY <1>1, <2>1
  <2> QED
    BY <1>1, <2>1, <2>2, <2>3
<1>4. GearInv'
  <2>1. CASE Gear!ShiftUp
    BY <1>1, <2>1 DEF Gear!ShiftUp, Gear!ShiftTo, Gear!WantsUp, Gear!inputVars
  <2>2. CASE Gear!ShiftDown
    BY <1>1, <2>2 DEF Gear!ShiftDown, Gear!ShiftTo, Gear!WantsDown, Gear!inputVars
  <2>3. CASE Gear!ShiftDenied \/ Gear!ShiftStays
    BY <2>3 DEF Gear!ShiftDenied, Gear!ShiftStays, Gear!inputVars
  <2>4. ASSUME NEW mps \in GearSpeeds, Gear!ReceiveVelocity(mps)
        PROVE  GearInv'
    BY <2>4 DEF Gear!ReceiveVelocity
  <2>5. CASE \E gear \in 0 .. TopGear, running \in BOOLEAN :
               Gear!ReceivePtReport(gear, running)
    BY <2>5 DEF Gear!ReceivePtReport, Gear!shiftVars
  <2>6. CASE \E pressed \in BOOLEAN : Gear!ReceivePedals(pressed)
    BY <2>6 DEF Gear!ReceivePedals, Gear!shiftVars
  <2>7. CASE UNCHANGED Gear!vars
    BY <2>7 DEF Gear!vars, Gear!shiftVars, Gear!inputVars
  <2> QED
    BY <2>1, <2>2, <2>3, <2>4, <2>5, <2>6, <2>7 DEF Gear!Next, Gear!Shift
<1> QED
  BY <1>2, <1>3, <1>4 DEF Gear!ShiftUp, Gear!ShiftDown

\* For every table whose downshift speeds are not above the upshift speeds of
\* the gear below: at one speed no shift is taken back.
THEOREM GearsAreNotHunted == Spec => NoHunting
<1>1. Init => GearInv
  BY VehicleAssumption DEF Init, Gear!Init, GearInv, Gear!Gears, Gear!GearConstants
<1>2. GearInv /\ [Next]_vars => GearInv'
  BY StepOfMachines, GearStep
<1>3. GearInv /\ [Next]_vars
        => [/\ Gear!ShiftUp => last_shift # "down"
            /\ Gear!ShiftDown => last_shift # "up"]_(Gear!vars)
  BY StepOfMachines, GearStep
<1> QED
  BY <1>1, <1>2, <1>3, PTL DEF Spec, NoHunting, Gear!NoHunting

-----------------------------------------------------------------------------
(* The brake of an emergency.                                              *)

LEMMA DivBounds ==
  ASSUME NEW a \in Nat, NEW d \in Nat \ {0}
  PROVE  /\ a \div d \in Nat
         /\ d * (a \div d) <= a
         /\ a < d * (a \div d) + d
  OBVIOUS

LEMMA TimesMonotone ==
  ASSUME NEW a \in Nat, NEW b \in Nat, a <= b, NEW d \in Nat
  PROVE  d * a <= d * b
  OBVIOUS

LEMMA DivMonotone ==
  ASSUME NEW a \in Nat, NEW b \in Nat, a <= b, NEW d \in Nat \ {0}
  PROVE  a \div d <= b \div d
<1> DEFINE p == a \div d
           q == b \div d
<1>1. p \in Nat /\ q \in Nat /\ d * p <= a /\ b < d * q + d
  BY DivBounds
<1> HIDE DEF p, q
<1>2. SUFFICES ASSUME q + 1 <= p PROVE FALSE
  BY <1>1 DEF p, q
<1>3. d * (q + 1) <= d * p
  BY <1>1, <1>2, TimesMonotone
<1>4. d * (q + 1) = d * q + d
  BY <1>1
<1> QED
  BY <1>1, <1>3, <1>4

\* The desired velocity falls.
LEMMA SafeDesVelFalls ==
  ASSUME NEW from \in Nat, NEW time \in Nat \ {0}, NEW before \in Nat, NEW after \in Nat,
         before <= after
  PROVE  /\ Braking!SafeDesVel(from, time, after) \in Nat
         /\ Braking!SafeDesVel(from, time, after) <= Braking!SafeDesVel(from, time, before)
<1> DEFINE p == (from * (2 * before)) \div time
           q == (from * (2 * after)) \div time
<1>1. from * (2 * before) \in Nat /\ from * (2 * after) \in Nat
  OBVIOUS
<1>2. from * (2 * before) <= from * (2 * after)
  BY TimesMonotone
<1>3. p <= q /\ p \in Nat /\ q \in Nat
  BY <1>1, <1>2, DivMonotone, DivBounds
<1>4. /\ Braking!SafeDesVel(from, time, before) = IF from - p > 1 THEN from - p ELSE 0
      /\ Braking!SafeDesVel(from, time, after) = IF from - q > 1 THEN from - q ELSE 0
  BY DEF Braking!SafeDesVel, Braking!Stamp
<1> HIDE DEF p, q
<1> QED
  BY <1>3, <1>4

\* What the constants say, and the brake at a wheel speed and a desired one.
LEMMA BrakingNumbers ==
  /\ BrakeSpeeds \subseteq Nat
  /\ SoftBrakingTime \in Nat \ {0} /\ HardBrakingTime \in Nat \ {0}
  /\ FullBrake \in 3 .. 27
BY VehicleAssumption DEF Braking!BrakingConstants

BrakeAt(mps, wanted) ==
  IF mps < 3 THEN FullBrake
  ELSE Braking!Least(Braking!Greatest(mps - wanted, 0), FullBrake)

\* The profile is whole, and the brake that the wheels set last in this
\* emergency was that of the profile, at this time or before.
BrakingInv ==
  /\ speed_mps \in BrakeSpeeds
  /\ elapsed \in 0 .. HardBrakingTime
  /\ {braking_control_cmd, measured} \subseteq 0 .. FullBrake
  /\ \/ init_vel = -1 /\ safe_braking_time = -1
     \/ init_vel \in BrakeSpeeds /\ safe_braking_time \in {SoftBrakingTime, HardBrakingTime}
  /\ seen # -1 =>
       /\ init_vel # -1 /\ seen \in BrakeSpeeds
       /\ \E ticks \in Nat :
            /\ ticks <= elapsed
            /\ measured
                 = BrakeAt(seen, Braking!SafeDesVel(init_vel, safe_braking_time, ticks))

\* Wheels that turn as fast as they did, or faster above walking speed.
AsFast == seen = speed_mps \/ (3 <= seen /\ seen <= speed_mps)

BrakeKept ==
  /\ Braking!ProfiledRun /\ AsFast => braking_control_cmd' >= measured
  /\ Braking!BlindRun /\ emergency => braking_control_cmd' >= braking_control_cmd

\* Without a wheel speed the brake is full, and the profile goes on.
LEMMA BlindStep ==
  ASSUME BrakingInv, Braking!EmergencyRun, Braking!BlindRun
  PROVE  BrakingInv' /\ BrakeKept
<1>1. /\ braking_control_cmd' = FullBrake
      /\ UNCHANGED <<speed_mps, init_vel, safe_braking_time, elapsed, seen, measured>>
  BY BrakingNumbers DEF Braking!EmergencyRun, Braking!BlindRun, Braking!EmergencyBrakeCmd,
       Braking!BlindError, Braking!Least, Braking!Greatest
<1>2. BrakingInv'
  BY <1>1, BrakingNumbers DEF BrakingInv
<1>3. ~Braking!ProfiledRun
  BY DEF Braking!BlindRun, Braking!ProfiledRun
<1>4. braking_control_cmd' >= braking_control_cmd
  BY <1>1, BrakingNumbers DEF BrakingInv
<1> QED
  BY <1>2, <1>3, <1>4 DEF BrakeKept

\* At wheel speeds that do not fall, a desired velocity that falls brakes more.
LEMMA BrakeGrows ==
  ASSUME NEW slow \in Nat, NEW fast \in Nat, slow = fast \/ (3 <= slow /\ slow <= fast),
         NEW before \in Nat, NEW wanted \in Nat, wanted <= before
  PROVE  BrakeAt(fast, wanted) >= BrakeAt(slow, before)
BY BrakingNumbers DEF BrakeAt, Braking!Least, Braking!Greatest

LEMMA ProfiledStep ==
  ASSUME BrakingInv, Braking!EmergencyRun, Braking!ProfiledRun
  PROVE  BrakingInv' /\ BrakeKept
<1> DEFINE wanted == Braking!SafeDesVel(init_vel', safe_braking_time', elapsed')
<1>1. /\ braking_control_cmd' = BrakeAt(speed_mps, wanted)
      /\ seen' = speed_mps
      /\ measured' = braking_control_cmd'
      /\ UNCHANGED speed_mps
  BY DEF Braking!EmergencyRun, Braking!ProfiledRun, Braking!EmergencyBrakeCmd, BrakeAt
<1>2. /\ init_vel' \in BrakeSpeeds
      /\ safe_braking_time' \in {SoftBrakingTime, HardBrakingTime}
      /\ elapsed' \in 0 .. HardBrakingTime /\ elapsed' \in Nat
      /\ ~Braking!NoProfile => UNCHANGED <<init_vel, safe_braking_time, elapsed>>
  BY BrakingNumbers DEF BrakingInv, Braking!ProfiledRun, Braking!ProfileStarts, Braking!NoProfile
<1>3. init_vel' \in Nat /\ safe_braking_time' \in Nat \ {0}
  BY <1>2, BrakingNumbers
<1>4. wanted \in Nat
  BY <1>2, <1>3, SafeDesVelFalls
<1>5. speed_mps \in Nat
  BY BrakingNumbers DEF BrakingInv
<1>6. BrakeAt(speed_mps, wanted) \in 0 .. FullBrake
  <2> HIDE DEF wanted
  <2> QED
    BY <1>4, <1>5, BrakingNumbers DEF BrakeAt, Braking!Least, Braking!Greatest
<1>7. BrakingInv'
  <2>1. elapsed' <= elapsed'
    BY <1>2
  <2>2. speed_mps' \in BrakeSpeeds
    BY <1>1 DEF BrakingInv
  <2>3. init_vel' # -1 /\ seen' \in BrakeSpeeds
    BY <1>1, <1>3 DEF BrakingInv
  <2>4. measured' = BrakeAt(seen', wanted)
    BY <1>1
  <2> QED
    BY <1>1, <1>2, <1>6, <2>1, <2>2, <2>3, <2>4 DEF BrakingInv, BrakeAt
<1>8. ASSUME AsFast
      PROVE  braking_control_cmd' >= measured
  <2>1. seen # -1
    BY <1>5, <1>8 DEF AsFast
  <2>2. ~Braking!NoProfile /\ seen \in Nat
    BY <2>1, BrakingNumbers DEF BrakingInv, Braking!NoProfile
  <2>3. PICK ticks \in Nat :
          /\ ticks <= elapsed
          /\ measured = BrakeAt(seen, Braking!SafeDesVel(init_vel, safe_braking_time, ticks))
    BY <2>1 DEF BrakingInv
  <2> DEFINE before == Braking!SafeDesVel(init_vel, safe_braking_time, ticks)
  <2>4. before \in Nat /\ wanted <= before
    <3>1. UNCHANGED <<init_vel, safe_braking_time, elapsed>>
      BY <1>2, <2>2
    <3>2. ticks <= ticks /\ ticks <= elapsed'
      BY <2>3, <3>1
    <3>3. init_vel \in Nat /\ safe_braking_time \in Nat \ {0} /\ elapsed' \in Nat
      BY <1>2, <1>3, <3>1
    <3>4. wanted = Braking!SafeDesVel(init_vel, safe_braking_time, elapsed')
      BY <3>1
    <3> HIDE DEF wanted
    <3> QED
      BY <3>2, <3>3, <3>4, SafeDesVelFalls
  <2> HIDE DEF before
  <2>5. measured = BrakeAt(seen, before)
    BY <2>3 DEF before
  <2> HIDE DEF wanted
  <2> QED
    BY <1>1, <1>4, <1>5, <1>8, <2>2, <2>4, <2>5, BrakeGrows DEF AsFast
<1>9. ~Braking!BlindRun
  BY DEF Braking!BlindRun, Braking!ProfiledRun
<1> QED
  BY <1>7, <1>8, <1>9 DEF BrakeKept

LEMMA BrakingStep ==
  ASSUME BrakingInv, [Braking!Next]_(Braking!vars)
  PROVE  BrakingInv' /\ BrakeKept
<1>1. CASE Braking!EmergencyRun
  BY <1>1, BlindStep, ProfiledStep DEF Braking!EmergencyRun
<1>2. ASSUME ~Braking!EmergencyRun
      PROVE  BrakingInv'
  <2>1. CASE Braking!NominalRun
    BY <2>1 DEF Braking!NominalRun, BrakingInv
  <2>2. ASSUME NEW mps \in BrakeSpeeds, Braking!ReceiveVelocity(mps)
        PROVE  BrakingInv'
    BY <2>2 DEF Braking!ReceiveVelocity, BrakingInv
  <2>3. CASE Braking!Tick
    <3>1. elapsed' \in 0 .. HardBrakingTime
      BY <2>3, BrakingNumbers
      DEF Braking!Tick, BrakingInv, Braking!Least
    <3>2. init_vel # -1 => elapsed <= elapsed'
      BY <2>3, BrakingNumbers DEF Braking!Tick, BrakingInv, Braking!Least, Braking!NoProfile
    <3>3. UNCHANGED <<speed_mps, init_vel, safe_braking_time, braking_control_cmd,
                      emergency, seen, measured>>
      BY <2>3 DEF Braking!Tick
    <3>4. ASSUME seen # -1
          PROVE  \E ticks \in Nat :
                   /\ ticks <= elapsed'
                   /\ measured
                        = BrakeAt(seen, Braking!SafeDesVel(init_vel, safe_braking_time, ticks))
      <4>1. PICK ticks \in Nat :
              /\ ticks <= elapsed
              /\ measured
                   = BrakeAt(seen, Braking!SafeDesVel(init_vel, safe_braking_time, ticks))
        BY <3>4 DEF BrakingInv
      <4>2. ticks <= elapsed'
        BY <3>1, <3>2, <3>4, <4>1 DEF BrakingInv
      <4> QED
        BY <4>1, <4>2
    <3> QED
      BY <3>1, <3>3, <3>4 DEF BrakingInv
  <2>4. CASE UNCHANGED Braking!vars
    BY <2>4 DEF Braking!vars, BrakingInv
  <2> QED
    BY <1>2, <2>1, <2>2, <2>3, <2>4 DEF Braking!Next
<1>3. ASSUME ~Braking!EmergencyRun
      PROVE  BrakeKept
  <2>1. UNCHANGED <<braking_control_cmd, measured>>
    BY <1>3 DEF Braking!Next, Braking!NominalRun, Braking!ReceiveVelocity, Braking!Tick,
                Braking!vars
  <2>2. braking_control_cmd \in Nat /\ measured \in Nat
    BY BrakingNumbers DEF BrakingInv
  <2>3. Braking!ProfiledRun => braking_control_cmd' >= measured
    BY <2>1, <2>2 DEF Braking!ProfiledRun
  <2> QED
    BY <2>1, <2>2, <2>3 DEF BrakeKept
<1> QED
  BY <1>1, <1>2, <1>3

LEMMA BrakingInvariant == Spec => []BrakingInv
<1>1. Init => BrakingInv
  BY VehicleAssumption, BrakingNumbers
  DEF Init, Braking!Init, BrakingInv, Braking!BrakingConstants
<1>2. BrakingInv /\ [Next]_vars => BrakingInv'
  BY StepOfMachines, BrakingStep
<1> QED
  BY <1>1, <1>2, PTL DEF Spec

\* Whatever the speeds, times and gains: through an emergency the wheels never
\* ease the brake that they asked for before, however often their speed is
\* missing in between, unless they have slowed down or left walking speed; and
\* the loss of their speed does not ease it.
THEOREM BrakeIsNotEased == Spec => BrakeNotEased
<1>1. BrakingInv /\ [Next]_vars
        => [/\ Braking!ProfiledRun /\ (seen = speed_mps \/ (3 <= seen /\ seen <= speed_mps))
                 => braking_control_cmd' >= measured
            /\ Braking!BlindRun /\ emergency
                 => braking_control_cmd' >= braking_control_cmd]_(Braking!vars)
  BY StepOfMachines, BrakingStep DEF BrakeKept, AsFast
<1> QED
  BY <1>1, BrakingInvariant, PTL DEF Spec, BrakeNotEased, Braking!BrakeNotEased

-----------------------------------------------------------------------------
(* The cruise control: how old its limit may be.                           *)

\* Once it was heard, the limit in force is no older than the trajectory that
\* waits for the LQR, than the one the LQR follows and a delay, and than the
\* command on its way, its trajectory and a delay.
CruiseInv ==
  /\ Cruise!TypeOK
  /\ Cruise!Heard /\ to_lqr # Cruise!None =>
       ~m_accCMD_firstcall /\ limit_age <= to_lqr.age
  /\ Cruise!Heard /\ traj_age < PathTimeout =>
       ~m_accCMD_firstcall /\ limit_age <= traj_age + MaxDelay
  /\ Cruise!Heard /\ control_cmd.msg = "drive" =>
       ~m_accCMD_firstcall /\ limit_age <= control_cmd.age + (PathTimeout - 1) + MaxDelay

LEMMA CruiseNumbers ==
  /\ PathTimeout \in Nat \ {0} /\ MaxDelay \in Nat /\ CruiseTimeout \in Nat
  /\ 2 * MaxDelay + PathTimeout <= CruiseTimeout + 1
BY VehicleAssumption DEF Cruise!CruiseConstants

\* What a topic holds, in the terms the steps below need.
LEMMA TopicContents ==
  ASSUME NEW msgs, "none" \notin msgs, NEW topic \in Cruise!Topic(msgs)
  PROVE  /\ topic.age \in 0 .. MaxDelay
         /\ topic # Cruise!None => topic.msg \in msgs
         /\ topic = [msg |-> topic.msg, age |-> topic.age]
BY CruiseNumbers DEF Cruise!Topic, Cruise!None

LEMMA SentIsTopic ==
  ASSUME NEW msgs, NEW msg \in msgs
  PROVE  /\ Cruise!Sent(msg) \in Cruise!Topic(msgs)
         /\ Cruise!Sent(msg).msg = msg
         /\ Cruise!Sent(msg).age = 0
         /\ msg # "none" => Cruise!Sent(msg) # Cruise!None
BY CruiseNumbers DEF Cruise!Topic, Cruise!Sent, Cruise!None

LEMMA AgedIsTopic ==
  ASSUME NEW msgs, "none" \notin msgs, NEW topic \in Cruise!Topic(msgs),
         Cruise!InTime(topic)
  PROVE  /\ Cruise!Aged(topic) \in Cruise!Topic(msgs)
         /\ topic = Cruise!None <=> Cruise!Aged(topic) = Cruise!None
         /\ topic # Cruise!None => /\ Cruise!Aged(topic).msg = topic.msg
                                   /\ Cruise!Aged(topic).age = topic.age + 1
<1>1. CASE topic = Cruise!None
  BY <1>1 DEF Cruise!Aged, Cruise!Topic
<1>2. CASE topic # Cruise!None
  <2>1. PICK msg \in msgs, age \in 0 .. MaxDelay : topic = [msg |-> msg, age |-> age]
    BY <1>2 DEF Cruise!Topic
  <2>2. age < MaxDelay
    BY <1>2, <2>1 DEF Cruise!InTime
  <2>3. Cruise!Aged(topic) = [msg |-> msg, age |-> age + 1]
    BY <1>2, <2>1 DEF Cruise!Aged
  <2>4. age + 1 \in 0 .. MaxDelay
    BY <2>2, CruiseNumbers
  <2>5. [msg |-> msg, age |-> age + 1] \in [msg : msgs, age : 0 .. MaxDelay]
    BY <2>4
  <2>6. Cruise!Aged(topic) # Cruise!None
    BY <2>3, <2>1 DEF Cruise!None
  <2> QED
    BY <1>2, <2>1, <2>3, <2>5, <2>6 DEF Cruise!Topic
<1> QED
  BY <1>1, <1>2

LEMMA CruiseStep ==
  ASSUME CruiseInv, [Cruise!Next]_(Cruise!vars)
  PROVE  CruiseInv'
<1> USE CruiseNumbers
<1>t. /\ to_lqr \in Cruise!Topic({"empty", "points"})
      /\ to_acc \in Cruise!Topic({"trajectory"})
      /\ control_cmd \in Cruise!Topic({"drive", "zero"})
      /\ des_acc \in Cruise!Topic({"limit"})
      /\ traj_age \in 0 .. PathTimeout
      /\ limit_age \in 0 .. CruiseTimeout + 1
  BY DEF CruiseInv, Cruise!TypeOK
<1>a. to_lqr.age \in 0 .. MaxDelay /\ control_cmd.age \in 0 .. MaxDelay
  BY <1>t, TopicContents
<1>n. /\ \A msgs : Cruise!None \in Cruise!Topic(msgs)
      /\ Cruise!None.msg = "none"
  BY DEF Cruise!Topic, Cruise!None
<1>1. ASSUME NEW trajectory \in {"empty", "points"}, Cruise!Publish(trajectory)
      PROVE  CruiseInv'
  <2>1. /\ to_lqr' \in Cruise!Topic({"empty", "points"})
        /\ to_acc' \in Cruise!Topic({"trajectory"})
        /\ to_acc' # Cruise!None
    BY <1>1, SentIsTopic DEF Cruise!Publish
  <2>2. ~Cruise!Heard'
    BY <2>1 DEF Cruise!Heard
  <2> QED
    BY <1>1, <2>1, <2>2 DEF CruiseInv, Cruise!TypeOK, Cruise!Publish, Cruise!lqrVars,
                             Cruise!limitVars
<1>2. CASE Cruise!LostToLqr
  BY <1>2, <1>n DEF CruiseInv, Cruise!TypeOK, Cruise!LostToLqr, Cruise!Heard, Cruise!lqrVars,
                    Cruise!limitVars
<1>3. CASE Cruise!LostToAcc
  BY <1>3, <1>n DEF CruiseInv, Cruise!TypeOK, Cruise!LostToAcc, Cruise!Heard, Cruise!lqrVars,
                    Cruise!limitVars
<1>4. CASE Cruise!ReferenceTrajectoryCallback
  <2>1. Cruise!TypeOK'
    BY <1>4, <1>n DEF CruiseInv, Cruise!TypeOK, Cruise!ReferenceTrajectoryCallback,
                      Cruise!limitVars
  <2>2. Cruise!Heard' => Cruise!Heard
    BY <1>4 DEF Cruise!Heard, Cruise!ReferenceTrajectoryCallback
  <2>3. Cruise!Heard' => ~m_accCMD_firstcall' /\ limit_age' <= traj_age' + MaxDelay
    BY <1>4, <1>a, <1>t, <2>2 DEF CruiseInv, Cruise!ReferenceTrajectoryCallback, Cruise!limitVars
  <2> QED
    BY <1>4, <2>1, <2>2, <2>3 DEF CruiseInv, Cruise!ReferenceTrajectoryCallback,
                                  Cruise!limitVars
<1>5. ASSUME NEW long \in BOOLEAN, Cruise!ReferencePathCallback(long)
      PROVE  CruiseInv'
  BY <1>5 DEF CruiseInv, Cruise!TypeOK, Cruise!ReferencePathCallback, Cruise!Heard,
              Cruise!topicVars, Cruise!limitVars
<1>6. ASSUME NEW located \in BOOLEAN, NEW heard \in BOOLEAN, NEW autonomy \in BOOLEAN,
             Cruise!Solve(located, heard, autonomy)
      PROVE  CruiseInv'
  <2> DEFINE msg == IF Cruise!ValidPath /\ located THEN "drive" ELSE "zero"
  <2>1. /\ control_cmd' = Cruise!Sent(msg)
        /\ UNCHANGED <<to_lqr, to_acc, missed, traj_age, traj_empty, path_long, des_acc,
                       m_accCMD_firstcall, limit_age>>
    BY <1>6 DEF Cruise!Solve, Cruise!topicVars, Cruise!lqrVars, Cruise!limitVars
  <2>2. msg \in {"drive", "zero"} /\ (msg = "drive" => traj_age < PathTimeout)
    BY DEF Cruise!ValidPath
  <2> HIDE DEF msg
  <2>3. /\ control_cmd' \in Cruise!Topic({"drive", "zero"})
        /\ control_cmd'.msg = msg
        /\ control_cmd'.age = 0
    BY <2>1, <2>2, SentIsTopic
  <2>4. Cruise!TypeOK' /\ (Cruise!Heard' <=> Cruise!Heard)
    BY <2>1, <2>3 DEF CruiseInv, Cruise!TypeOK, Cruise!Heard
  <2>5. Cruise!Heard' /\ control_cmd'.msg = "drive" =>
          /\ ~m_accCMD_firstcall'
          /\ limit_age' <= control_cmd'.age + (PathTimeout - 1) + MaxDelay
    BY <1>t, <2>1, <2>2, <2>3, <2>4 DEF CruiseInv
  <2> QED
    BY <2>1, <2>4, <2>5 DEF CruiseInv
<1>7. CASE Cruise!EgoTrajectoryCallback
  <2>1. /\ to_acc' \in Cruise!Topic({"trajectory"})
        /\ des_acc' \in Cruise!Topic({"limit"})
        /\ des_acc' # Cruise!None
    BY <1>7, <1>n, SentIsTopic DEF Cruise!EgoTrajectoryCallback
  <2>2. ~Cruise!Heard'
    BY <2>1 DEF Cruise!Heard
  <2> QED
    BY <1>7, <2>1, <2>2 DEF CruiseInv, Cruise!TypeOK, Cruise!EgoTrajectoryCallback,
                             Cruise!lqrVars, Cruise!limitVars
<1>8. CASE Cruise!AccCMDCallback
  <2>1. /\ UNCHANGED <<to_lqr, to_acc, missed, traj_age, traj_empty, path_long, control_cmd>>
        /\ ~m_accCMD_firstcall' /\ m_accCMD_firstcall' \in BOOLEAN
        /\ limit_age' = 0
        /\ des_acc' = Cruise!None
    BY <1>8 DEF Cruise!AccCMDCallback, Cruise!topicVars, Cruise!lqrVars
  <2>2. Cruise!TypeOK'
    BY <2>1, <1>n DEF CruiseInv, Cruise!TypeOK
  <2>3. /\ limit_age' <= to_lqr'.age
        /\ limit_age' <= traj_age' + MaxDelay
        /\ limit_age' <= control_cmd'.age + (PathTimeout - 1) + MaxDelay
    BY <2>1, <1>a, <1>t
  <2> QED
    BY <2>1, <2>2, <2>3 DEF CruiseInv
<1>9. CASE Cruise!ReceiveDesAccel
  BY <1>9, <1>n DEF CruiseInv, Cruise!TypeOK, Cruise!ReceiveDesAccel, Cruise!Heard,
                    Cruise!topicVars, Cruise!lqrVars, Cruise!limitVars
<1>10. CASE Cruise!Tick
  <2>1. /\ to_lqr' \in Cruise!Topic({"empty", "points"})
        /\ to_lqr = Cruise!None <=> to_lqr' = Cruise!None
        /\ to_lqr # Cruise!None => to_lqr'.age = to_lqr.age + 1
    BY <1>10, <1>t, AgedIsTopic DEF Cruise!Tick
  <2>2. /\ to_acc' \in Cruise!Topic({"trajectory"})
        /\ to_acc = Cruise!None <=> to_acc' = Cruise!None
    BY <1>10, <1>t, AgedIsTopic DEF Cruise!Tick
  <2>3. /\ des_acc' \in Cruise!Topic({"limit"})
        /\ des_acc = Cruise!None <=> des_acc' = Cruise!None
    BY <1>10, <1>t, AgedIsTopic DEF Cruise!Tick
  <2>4. /\ control_cmd' \in Cruise!Topic({"drive", "zero"})
        /\ control_cmd'.msg = "drive" => /\ control_cmd.msg = "drive"
                                         /\ control_cmd'.age = control_cmd.age + 1
    <3>1. /\ control_cmd' \in Cruise!Topic({"drive", "zero"})
          /\ control_cmd = Cruise!None <=> control_cmd' = Cruise!None
          /\ control_cmd # Cruise!None => /\ control_cmd'.msg = control_cmd.msg
                                          /\ control_cmd'.age = control_cmd.age + 1
      BY <1>10, <1>t, AgedIsTopic DEF Cruise!Tick
    <3> QED
      BY <3>1, <1>n
  <2>5. /\ traj_age' \in 0 .. PathTimeout
        /\ traj_age' < PathTimeout => traj_age < PathTimeout /\ traj_age' = traj_age + 1
        /\ limit_age' \in 0 .. CruiseTimeout + 1
        /\ limit_age' <= limit_age + 1
    BY <1>10, <1>t DEF Cruise!Tick, Cruise!Older
  <2>6. Cruise!TypeOK'
    BY <1>10, <2>1, <2>2, <2>3, <2>4, <2>5 DEF CruiseInv, Cruise!TypeOK, Cruise!Tick
  <2>7. Cruise!Heard' => Cruise!Heard
    BY <1>10, <2>2, <2>3 DEF Cruise!Heard, Cruise!Tick
  <2>8. m_accCMD_firstcall' = m_accCMD_firstcall
    BY <1>10 DEF Cruise!Tick
  <2>9. Cruise!Heard' /\ to_lqr' # Cruise!None =>
          ~m_accCMD_firstcall' /\ limit_age' <= to_lqr'.age
    BY <1>a, <1>t, <2>1, <2>5, <2>7, <2>8 DEF CruiseInv
  <2>10. Cruise!Heard' /\ traj_age' < PathTimeout =>
           ~m_accCMD_firstcall' /\ limit_age' <= traj_age' + MaxDelay
    BY <1>t, <2>5, <2>7, <2>8 DEF CruiseInv
  <2>11. Cruise!Heard' /\ control_cmd'.msg = "drive" =>
           /\ ~m_accCMD_firstcall'
           /\ limit_age' <= control_cmd'.age + (PathTimeout - 1) + MaxDelay
    BY <1>a, <1>t, <2>4, <2>5, <2>7, <2>8 DEF CruiseInv
  <2> QED
    BY <2>6, <2>9, <2>10, <2>11 DEF CruiseInv
<1>11. CASE UNCHANGED Cruise!vars
  BY <1>11 DEF CruiseInv, Cruise!TypeOK, Cruise!Heard, Cruise!vars, Cruise!topicVars,
               Cruise!lqrVars, Cruise!limitVars
<1> QED
  BY <1>1, <1>2, <1>3, <1>4, <1>5, <1>6, <1>7, <1>8, <1>9, <1>10, <1>11
  DEF Cruise!Next, Cruise!Planning, Cruise!Control, Cruise!Limiting

LEMMA CruiseInvariant == Spec => []CruiseInv
<1>1. Init => CruiseInv
  <2> SUFFICES ASSUME Cruise!Init PROVE CruiseInv
    BY DEF Init
  <2>1. Cruise!TypeOK
    <3>1. /\ Cruise!None \in Cruise!Topic({"empty", "points"})
          /\ Cruise!None \in Cruise!Topic({"trajectory"})
          /\ Cruise!None \in Cruise!Topic({"drive", "zero"})
          /\ Cruise!None \in Cruise!Topic({"limit"})
      BY DEF Cruise!Topic
    <3>2. traj_age \in 0 .. PathTimeout /\ limit_age \in 0 .. CruiseTimeout + 1
      BY CruiseNumbers DEF Cruise!Init
    <3> QED
      BY <3>1, <3>2 DEF Cruise!Init, Cruise!TypeOK
  <2>2. to_lqr = Cruise!None /\ ~(traj_age < PathTimeout)
    BY CruiseNumbers DEF Cruise!Init
  <2>3. control_cmd.msg # "drive"
    BY DEF Cruise!Init, Cruise!None
  <2> QED
    BY <2>1, <2>2, <2>3 DEF CruiseInv
<1>2. CruiseInv /\ [Next]_vars => CruiseInv'
  BY StepOfMachines, CruiseStep
<1> QED
  BY <1>1, <1>2, PTL DEF Spec

\* For any timeouts and delays that keep the assumption: two delays and the
\* LQR's timeout are less than the acceleration controller's, so that a car
\* that follows a trajectory keeps to the limit made of it.
THEOREM LimitStaysInForce == Spec => []LimitOutlivesTrajectory
<1>1. CruiseInv => LimitOutlivesTrajectory
  <2> SUFFICES ASSUME CruiseInv, control_cmd.msg = "drive", Cruise!Heard
               PROVE  ~m_accCMD_firstcall /\ ~Cruise!Forgotten
    BY DEF LimitOutlivesTrajectory, Cruise!LimitOutlivesTrajectory
  <2>1. control_cmd.age \in 0 .. MaxDelay
    BY TopicContents DEF CruiseInv, Cruise!TypeOK
  <2> QED
    BY <2>1, CruiseNumbers DEF CruiseInv, Cruise!TypeOK, Cruise!Forgotten
<1> QED
  BY <1>1, CruiseInvariant, PTL
=============================================================================
