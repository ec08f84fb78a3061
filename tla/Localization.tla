---------------------------- MODULE Localization ----------------------------
(***************************************************************************)
(* What the localization corrects its estimate with.  Two satellite        *)
(* receivers, bottom and top, deliver positions; every 10 ms a run chooses *)
(* between them, or blends them, and hands the choice to a Kalman filter   *)
(* if a position has come since the last correction.                       *)
(*                                                                         *)
(* The filter is left out: how far the positions are from the estimate and *)
(* from each other is open in every run.  So are the codes of the heading  *)
(* and of the uncertainty, which replace the code of the choice on its way *)
(* out.  A heading is a number that has come or not.                       *)
(***************************************************************************)
EXTENDS Naturals

CONSTANTS
  Compensated,     \* ages of a position that the filter can make up for
  GpsTimeout,      \* gps_timeout, beyond that
  Noises           \* standard deviations of a position, in m

LocalizationConstants ==
  /\ Compensated \in Nat
  /\ GpsTimeout \in Nat
  /\ Compensated < GpsTimeout
  /\ Noises \subseteq Nat

Receivers == {"bottom", "top"}

VARIABLES
  received,        \* bBOTTOM_GPS, bTOP_GPS
  gps_update,      \* bottom_gps_update, top_gps_update
  noise,           \* of the last INSSTDEV; at first what the memory holds
  gps_age,         \* since bestpos_time_last_update and top_bestpos_time_last_update
  imu_age,
  bImuFirstCall,   \* not initialized
  heading,         \* a heading has come
  bInitConverged,
  node_status,
  code,            \* of m_localization_status
  corrected        \* history: what the last run corrected the estimate with

sensorVars == <<received, gps_update, noise, gps_age, imu_age, bImuFirstCall, heading>>
outVars == <<bInitConverged, node_status, code, corrected>>
vars == <<sensorVars, outVars>>

Ages == 0 .. GpsTimeout

Codes == {"NONE", "BEST_STATUS", "SENSOR_FUSION", "ONLY_TOP", "ONLY_BOTTOM",
          "GPS_HIGH_ERROR", "NO_SENSOR_INITIALIZED", "NO_CONVERGED"}

\* What a correction may be made of: positions, a variable that nothing has
\* been assigned to, or there is no correction.
Corrections == {"none", "bottom", "top", "both", "unset"}

TypeOK ==
  /\ received \in [Receivers -> BOOLEAN]
  /\ gps_update \in [Receivers -> BOOLEAN]
  /\ noise \in [Receivers -> Noises]
  /\ gps_age \in [Receivers -> Ages]
  /\ imu_age \in Ages
  /\ bImuFirstCall \in BOOLEAN
  /\ heading \in BOOLEAN
  /\ bInitConverged \in BOOLEAN
  /\ node_status \in {"INITIALIZED", "OK", "ERROR"}
  /\ code \in Codes
  /\ corrected \in Corrections

\* A time that was never set is the oldest.
Init ==
  /\ received = [r \in Receivers |-> FALSE]
  /\ gps_update = [r \in Receivers |-> FALSE]
  /\ noise \in [Receivers -> Noises]
  /\ gps_age = [r \in Receivers |-> GpsTimeout]
  /\ imu_age = GpsTimeout
  /\ bImuFirstCall \in BOOLEAN
  /\ heading = FALSE
  /\ bInitConverged = FALSE
  /\ node_status = "INITIALIZED"
  /\ code = "NONE"
  /\ corrected = "none"

-----------------------------------------------------------------------------
(* Messages.                                                               *)

\* BESTPOSCallback and TOPBESTPOSCallback.  A receiver without a solution sends
\* the latitude and the longitude zero: the time is taken, from the top one also
\* the position, whose distance is open, but it does not count as received.
BestPos(receiver, solved) ==
  /\ gps_age' = [gps_age EXCEPT ![receiver] = 0]
  /\ received' = [received EXCEPT ![receiver] = @ \/ solved]
  /\ gps_update' = [gps_update EXCEPT ![receiver] = @ \/ solved]
  /\ UNCHANGED <<noise, imu_age, bImuFirstCall, heading, outVars>>

\* INSSTDEVCallback and TOPINSSTDEVCallback, subscribed with use_inspva_heading.
InsStdev(receiver, value) ==
  /\ noise' = [noise EXCEPT ![receiver] = value]
  /\ UNCHANGED <<received, gps_update, gps_age, imu_age, bImuFirstCall, heading, outVars>>

\* Any of the callbacks that bring a heading.
Heading ==
  /\ heading' = TRUE
  /\ UNCHANGED <<received, gps_update, noise, gps_age, imu_age, bImuFirstCall, outVars>>

\* IMUCallback or MessageFilteringCallback, by use_bestvel_for_speed.
Imu ==
  /\ imu_age' = 0
  /\ bImuFirstCall' = TRUE
  /\ UNCHANGED <<received, gps_update, noise, gps_age, heading, outVars>>

Older(age) == IF age < GpsTimeout THEN age + 1 ELSE age

Tick ==
  /\ gps_age' = [r \in Receivers |-> Older(gps_age[r])]
  /\ imu_age' = Older(imu_age)
  /\ UNCHANGED <<received, gps_update, noise, bImuFirstCall, heading, outVars>>

-----------------------------------------------------------------------------
(* timerCallback.                                                          *)

Started == bImuFirstCall /\ (\E r \in Receivers : received[r]) /\ heading

\* The age of the last position is the bottom one's, wherever the position is
\* from, unless the bottom receiver has never sent one.
PositionAge == gps_age[IF received["bottom"] THEN "bottom" ELSE "top"]

TooOld == PositionAge >= GpsTimeout \/ imu_age >= GpsTimeout

Choice(what, name, update) == [from |-> what, code |-> name, update |-> update]

\* CalculateBestCorrection: agree says that the two positions are close to each
\* other, inside which of them are inside the gate, ok which have a good
\* solution.  Before the filter has converged the gate is open.
BestCorrection(agree, inside, ok, converged) ==
  LET gated == IF converged THEN inside ELSE Receivers
  IN IF agree THEN Choice("bottom", "BEST_STATUS", TRUE)
     ELSE IF gated = Receivers THEN Choice("both", "SENSOR_FUSION", TRUE)
     ELSE IF gated = {"top"} \/ ok = {"top"} THEN Choice("top", "ONLY_TOP", TRUE)
     ELSE IF gated = {"bottom"} \/ ok = {"bottom"} THEN Choice("bottom", "ONLY_BOTTOM", TRUE)
     ELSE Choice("unset", "GPS_HIGH_ERROR", FALSE)

Choices(converged) ==
  IF received["bottom"] /\ received["top"]
    THEN {BestCorrection(agree, inside, ok, converged) :
            agree \in BOOLEAN, inside \in SUBSET Receivers, ok \in SUBSET Receivers}
  ELSE IF received["bottom"] /\ noise["bottom"] < 2
    THEN {Choice("bottom", "ONLY_BOTTOM", TRUE)}
  ELSE IF received["top"] /\ noise["top"] < 2
    THEN {Choice("top", "ONLY_TOP", TRUE)}
  ELSE {Choice("unset", "NO_SENSOR_INITIALIZED", FALSE)}

\* A receiver that has been heard, and is noisy, ends all correction.
Noisy == \E r \in Receivers : received[r] /\ noise[r] > 2

\* Mutant: noise forbids a correction, the choice does not.
DecidedByNoise(choice, converged) ==
  IF ~converged THEN [choice EXCEPT !.code = "NO_CONVERGED", !.update = TRUE]
  ELSE IF Noisy THEN [choice EXCEPT !.code = "GPS_HIGH_ERROR", !.update = FALSE]
  ELSE [choice EXCEPT !.update = TRUE]

\* Until the filter has converged the estimate is corrected whatever the noise.
Decided(choice, converged) ==
  IF ~converged THEN [choice EXCEPT !.code = "NO_CONVERGED", !.update = TRUE]
  ELSE IF Noisy THEN [choice EXCEPT !.code = "GPS_HIGH_ERROR", !.update = FALSE]
  ELSE choice

\* near: the estimate is close enough to what it is compared with, which is a
\* measured position.
Converges(near) ==
  /\ near
  /\ \/ received["bottom"] /\ received["top"]
     \/ \E r \in Receivers : received[r] /\ noise[r] < 2

\* measurementUpdatePose drops a position that is too old to be made up for.
Corrected(decision) ==
  LET due == decision.update /\ \E r \in Receivers : gps_update[r]
  IN /\ corrected' = IF due /\ PositionAge <= Compensated THEN decision.from ELSE "none"
     /\ gps_update' = IF due THEN [r \in Receivers |-> FALSE] ELSE gps_update

Run(near) ==
  /\ Started
  /\ bInitConverged' = (bInitConverged \/ Converges(near))
  /\ \E choice \in Choices(bInitConverged') :
       LET decision == Decided(choice, bInitConverged')
       IN /\ code' = decision.code
          /\ Corrected(decision)
          /\ node_status' =
               IF TooOld \/ Noisy \/ ~bInitConverged'
                         \/ choice.code = "NO_SENSOR_INITIALIZED"
                 THEN "ERROR" ELSE "OK"
  /\ gps_age' = IF received["bottom"] THEN gps_age
                  ELSE [gps_age EXCEPT !["bottom"] = gps_age["top"]]
  /\ UNCHANGED <<received, noise, imu_age, bImuFirstCall, heading>>

Runs == \E near \in BOOLEAN : Run(near)

Messages ==
  \/ \E receiver \in Receivers, solved \in BOOLEAN : BestPos(receiver, solved)
  \/ \E receiver \in Receivers, value \in Noises : InsStdev(receiver, value)
  \/ Heading
  \/ Imu

Next == Runs \/ Messages \/ Tick

Spec == Init /\ [][Next]_vars

-----------------------------------------------------------------------------
(* Properties.                                                             *)

\* CalculateBestCorrection leaves the correction unassigned when it refuses
\* both positions, and so does timerCallback when there is none it wants.  A
\* filter that has converged is never fed with that, whatever receivers fall
\* silent, get noisy or come back, and in whatever order.
MeasuredOnceConverged == corrected = "unset" => ~bInitConverged

\* "if bottom is diverged, and top is nominal, USE NOVATEL TOP": the run that
\* says so has corrected the estimate with the top position, if a new one has
\* just come.
TopTakesOver ==
  [][Runs /\ code' = "ONLY_TOP" /\ gps_update["top"] /\ gps_age["top"] <= Compensated
       => corrected' = "top"]_vars
=============================================================================
