----------------------------- MODULE RaceFlags -----------------------------
(***************************************************************************)
(* Race control's flags on their way to the state of the car: the Raptor   *)
(* CAN node publishes each summary of them twice, on flag_summary with     *)
(* both flags and on rc_to_ct with the track's, the SSC interface takes    *)
(* the two topics in whatever order its executor finds them, each          *)
(* overwriting what the other said, and each miscellaneous report moves    *)
(* the state (ct_mode_transition) by the flags of that moment.             *)
(*                                                                         *)
(* The rest of what the state depends on, the state of the car's           *)
(* controllers, standing still, the joystick's emergency and a failed      *)
(* heartbeat (DiagHeartbeat), may be anything at each report.              *)
(***************************************************************************)
EXTENDS Naturals, Sequences

CONSTANTS
  Summaries,        \* [track_flag, veh_flag] of race control
  Depth             \* bound: 10 messages in the code's QoS

RED == 1
ORANGE == 2
YELLOW == 3
GREEN == 4

NO_SIGNAL == 1
CHECK == 4
PURPLE == 8

\* TrackCondition and VehicleSignal.
TrackConds == 0 .. 4 \cup {255}
VehSignals == {0, 1, 2, 4, 8}

FlagsConstants ==
  /\ Summaries \subseteq [track_flag : Nat, veh_flag : Nat]
  /\ Depth \in Nat \ {0}

VARIABLES
  flag_summary,          \* topic
  rc_to_ct,              \* topic
  m_rec_track_cond,
  m_rec_veh_signal,
  ct_current_mode,
  on_track,              \* the summary the CAN node received last
  shown,                 \* history: every track flag it received
  counter_ct             \* of the reports; bound: modulo 2, not 8

topicVars == <<flag_summary, rc_to_ct, on_track, shown>>
sscVars == <<m_rec_track_cond, m_rec_veh_signal>>
ctVars == <<ct_current_mode, counter_ct>>
vars == <<topicVars, sscVars, ctVars>>

CtModes == 1 .. 12 \cup {255}

NoSummary == [track_flag |-> 255, veh_flag |-> 0]

TypeOK ==
  /\ flag_summary \in Seq(Summaries) /\ Len(flag_summary) <= Depth
  /\ rc_to_ct \in Seq(Nat) /\ Len(rc_to_ct) <= Depth
  /\ m_rec_track_cond \in TrackConds
  /\ m_rec_veh_signal \in VehSignals
  /\ ct_current_mode \in CtModes
  /\ on_track \in Summaries \cup {NoSummary}
  /\ shown \subseteq Nat
  /\ counter_ct \in 0 .. 1

\* The members for the flags are not initialized.
Init ==
  /\ flag_summary = <<>> /\ rc_to_ct = <<>>
  /\ m_rec_track_cond \in TrackConds
  /\ m_rec_veh_signal \in VehSignals
  /\ ct_current_mode = 255
  /\ on_track = NoSummary
  /\ shown = {}
  /\ counter_ct = 0

\* Mutant: nothing is dropped.
PublishKeepAll(topic, msg) == Append(topic, msg)

Publish(topic, msg) ==
  IF Len(topic) < Depth THEN Append(topic, msg) ELSE Append(Tail(topic), msg)

-----------------------------------------------------------------------------
\* recvCAN of ID_BASE_TO_CAR_SUMMARY: two messages of one.
RecvSummary(summary) ==
  /\ flag_summary' = Publish(flag_summary, summary)
  /\ rc_to_ct' = Publish(rc_to_ct, summary.track_flag)
  /\ on_track' = summary
  /\ shown' = shown \cup {summary.track_flag}
  /\ UNCHANGED <<sscVars, ctVars>>

\* A flag the SSC interface does not know leaves the one before.
FlagSummaryCallback ==
  /\ flag_summary # <<>>
  /\ LET summary == Head(flag_summary) IN
       /\ m_rec_track_cond' =
            IF summary.track_flag \in TrackConds
              THEN summary.track_flag ELSE m_rec_track_cond
       /\ m_rec_veh_signal' =
            IF summary.veh_flag \in VehSignals
              THEN summary.veh_flag ELSE m_rec_veh_signal
  /\ flag_summary' = Tail(flag_summary)
  /\ UNCHANGED <<rc_to_ct, on_track, shown, ctVars>>

\* Mutant: a track flag that is not known is a caution.
RcTrackCondCaution(track_cond) ==
  IF track_cond \in TrackConds \ {0} THEN track_cond ELSE YELLOW

\* A null flag is not known here.
RcTrackCond(track_cond) ==
  IF track_cond \in TrackConds \ {0} THEN track_cond ELSE m_rec_track_cond

\* None of the CAN node's messages has a vehicle's flag.
RcToCtCallback ==
  /\ rc_to_ct # <<>>
  /\ m_rec_track_cond' = RcTrackCond(Head(rc_to_ct))
  /\ m_rec_veh_signal' = NO_SIGNAL
  /\ rc_to_ct' = Tail(rc_to_ct)
  /\ UNCHANGED <<flag_summary, on_track, shown, ctVars>>

-----------------------------------------------------------------------------
(* ct_mode_transition.                                                     *)

Track(flag) == m_rec_track_cond = flag
Signal(signal) == m_rec_veh_signal = signal

\* The way to the race, by the report of the car's controllers.
Advanced(sys_state) ==
  CASE ct_current_mode = 1 -> 2
    [] ct_current_mode = 2 /\ sys_state = 4 /\ Track(RED) -> 3
    [] ct_current_mode = 3 /\ sys_state = 5 /\ Track(RED) -> 4
    [] ct_current_mode = 4 /\ Track(ORANGE) -> 5
    [] ct_current_mode = 5 /\ sys_state = 8 -> 6
    [] ct_current_mode = 6 /\ Track(YELLOW) -> 7
    [] ct_current_mode = 7 /\ sys_state = 9 /\ Track(YELLOW) -> 8
    [] OTHER -> ct_current_mode

\* Mutant: the red flag is looked at in the race only.
DrivenNoRedCaution(standing) ==
  CASE ct_current_mode \in 8 .. 10 /\ Signal(PURPLE) -> 12
    [] ct_current_mode = 8 /\ Track(GREEN) /\ Signal(NO_SIGNAL) -> 9
    [] ct_current_mode = 8 /\ standing /\ Signal(CHECK) -> 11
    [] ct_current_mode = 9 /\ Signal(CHECK) -> 8
    [] ct_current_mode = 9 /\ Track(RED) -> 10
    [] OTHER -> ct_current_mode

\* Caution (8), the race (9) and the coordinated stop (10).
Driven(standing) ==
  CASE ct_current_mode \in 8 .. 10 /\ Signal(PURPLE) -> 12
    [] ct_current_mode = 8 /\ Track(GREEN) /\ Signal(NO_SIGNAL) -> 9
    [] ct_current_mode = 8 /\ standing /\ Signal(CHECK) -> 11
    [] ct_current_mode = 9 /\ Signal(CHECK) -> 8
    [] ct_current_mode \in {8, 9} /\ Track(RED) -> 10
    [] OTHER -> ct_current_mode

\* misc_report_callback.  Before the power is on nothing is an emergency, and
\* 11 and 12 are final.
MiscReportCallback(sys_state, standing, emergency) ==
  /\ ct_current_mode' =
       CASE ct_current_mode = 255 ->
              IF sys_state = 1 /\ Track(RED) THEN 1 ELSE 255
         [] ct_current_mode \in 1 .. 10 /\ emergency -> 12
         [] ct_current_mode \in 1 .. 7 /\ ~emergency -> Advanced(sys_state)
         [] ct_current_mode \in 8 .. 10 /\ ~emergency -> Driven(standing)
         [] OTHER -> ct_current_mode
  /\ counter_ct' = 1 - counter_ct
  /\ UNCHANGED <<topicVars, sscVars>>

MiscReport ==
  \E sys_state \in {1, 4, 5, 8, 9}, standing, emergency \in BOOLEAN :
    MiscReportCallback(sys_state, standing, emergency)

RecvSummaries == \E summary \in Summaries : RecvSummary(summary)

Next ==
  \/ RecvSummaries
  \/ FlagSummaryCallback
  \/ RcToCtCallback
  \/ MiscReport

Spec == Init /\ [][Next]_vars

-----------------------------------------------------------------------------
(* Properties.                                                             *)

\* The car is not in the race before race control has shown it orange, yellow
\* and green, whatever was in the memory of the flags at the start and in
\* whatever order the topics are taken.
RaceNeedsFlags == ct_current_mode = 9 => {ORANGE, YELLOW, GREEN} \subseteq shown

\* A red flag that stays takes the car out of caution and of the race.
RedStops ==
  <>[](on_track.track_flag = RED) => <>[](ct_current_mode \notin {8, 9})

\* "ShutOff engine": purple, shown for good, does, once the car is on track.
PurpleShutsOff ==
  <>[](on_track.veh_flag = PURPLE) => <>[](ct_current_mode \notin {8, 9, 10})
=============================================================================
