-------------------------- MODULE EmergencyBraking --------------------------
(***************************************************************************)
(* The brake of an emergency (emergencyVelocityError, emergencyBrakeCmd,   *)
(* emergencyDesVelProfiler): the car follows a desired velocity that falls *)
(* from the speed at which the profile began to zero, and without a wheel  *)
(* speed of less than half a second it brakes blindly.  The profile begins *)
(* at the first emergency run that has a wheel speed, and for good.        *)
(*                                                                         *)
(* A speed is in m/s; a brake is the error of the velocity that asks for   *)
(* it, up to FullBrake; a tick is 1/4 s, the unit of the constants.        *)
(***************************************************************************)
EXTENDS Integers

CONSTANTS
  Speeds,
  HardBrakingTime, SoftBrakingTime,
  SafeVelThres,     \* safe_vel_thres_mph, in m/s
  VelTimeout,       \* the 0.5 s of emergencyVelocityError
  FullBrake         \* brake.cmd_max / brake.p_gain

BrakingConstants ==
  /\ Speeds \subseteq Nat /\ 0 \in Speeds
  /\ {HardBrakingTime, SoftBrakingTime, VelTimeout} \subseteq Nat \ {0}
  /\ SoftBrakingTime <= HardBrakingTime
  /\ SafeVelThres \in Nat
  /\ FullBrake \in 3 .. 27

VARIABLES
  speed_mps,
  vel_age,               \* VelTimeout: none yet, or too old
  init_vel,              \* -1: no profile yet
  safe_braking_time,     \* -1: no profile yet
  elapsed,               \* since init_tick_, up to HardBrakingTime
  braking_control_cmd,
  emergency,             \* the last run was one
  seen,                  \* history: the wheel speed of the last run of this
                         \* emergency that had one, -1 if none had
  measured,              \* history: the brake of that run
  due                    \* history: what is left of hard_braking_time to this
                         \* emergency, 0 if it began at SafeVelThres or below

vars == <<speed_mps, vel_age, init_vel, safe_braking_time, elapsed,
          braking_control_cmd, emergency, seen, measured, due>>

TypeOK ==
  /\ speed_mps \in Speeds
  /\ vel_age \in 0 .. VelTimeout
  /\ init_vel \in Speeds \cup {-1}
  /\ safe_braking_time \in {-1, SoftBrakingTime, HardBrakingTime}
  /\ elapsed \in 0 .. HardBrakingTime
  /\ braking_control_cmd \in 0 .. FullBrake
  /\ emergency \in BOOLEAN
  /\ seen \in Speeds \cup {-1}
  /\ measured \in 0 .. FullBrake
  /\ due \in 0 .. HardBrakingTime

Init ==
  /\ speed_mps = 0 /\ vel_age = VelTimeout
  /\ init_vel = -1 /\ safe_braking_time = -1 /\ elapsed = 0
  /\ braking_control_cmd = 0
  /\ emergency = FALSE /\ seen = -1 /\ measured = 0 /\ due = 0

-----------------------------------------------------------------------------
Least(a, b) == IF a <= b THEN a ELSE b
Greatest(a, b) == IF a >= b THEN a ELSE b

Fresh == vel_age < VelTimeout

NoProfile == init_vel = -1 /\ safe_braking_time = -1

\* The seconds of a stamp already contain the nanoseconds that are added.
Stamp(ticks) == 2 * ticks

\* What is left of the velocity, and nothing of 1.5 m/s or less, though the
\* comment in the code has a saturation at 1.0.
SafeDesVel(from, time, ticks) ==
  LET left == from - (from * Stamp(ticks)) \div time IN IF left > 1 THEN left ELSE 0

\* emergencyDesVelProfiler.
ProfileStarts ==
  IF NoProfile
    THEN /\ init_vel' = speed_mps
         /\ safe_braking_time' =
              IF speed_mps > SafeVelThres THEN HardBrakingTime ELSE SoftBrakingTime
         /\ elapsed' = 0
    ELSE UNCHANGED <<init_vel, safe_braking_time, elapsed>>

\* emergencyBrakeCmd: at walking speed, fully.
EmergencyBrakeCmd(error) ==
  IF speed_mps < 3 THEN FullBrake ELSE Least(Greatest(error, 0), FullBrake)

\* 27.78 m/s, whatever the speed.
BlindError == 27

\* Mutant: the profile that the code never takes back ends with the wheel speed.
BlindRunForgets ==
  /\ ~Fresh
  /\ braking_control_cmd' = EmergencyBrakeCmd(BlindError)
  /\ init_vel' = -1 /\ safe_braking_time' = -1 /\ elapsed' = 0
  /\ UNCHANGED <<seen, measured, due>>

BlindRun ==
  /\ ~Fresh
  /\ braking_control_cmd' = EmergencyBrakeCmd(BlindError)
  /\ UNCHANGED <<init_vel, safe_braking_time, elapsed, seen, measured, due>>

ProfiledRun ==
  /\ Fresh
  /\ ProfileStarts
  /\ braking_control_cmd' =
       EmergencyBrakeCmd(speed_mps - SafeDesVel(init_vel', safe_braking_time', elapsed'))
  /\ seen' = speed_mps
  /\ measured' = braking_control_cmd'
  /\ due' = CASE seen # -1                -> due
              [] speed_mps > SafeVelThres -> HardBrakingTime
              [] OTHER                    -> 0

EmergencyRun ==
  /\ BlindRun \/ ProfiledRun
  /\ emergency' = TRUE
  /\ UNCHANGED <<speed_mps, vel_age>>

\* Any other: the brake is somebody else's.
NominalRun ==
  /\ emergency' = FALSE
  /\ seen' = -1 /\ due' = 0
  /\ UNCHANGED <<speed_mps, vel_age, init_vel, safe_braking_time, elapsed,
                 braking_control_cmd, measured>>

ReceiveVelocity(mps) ==
  /\ speed_mps' = mps
  /\ vel_age' = 0
  /\ UNCHANGED <<init_vel, safe_braking_time, elapsed, braking_control_cmd,
                 emergency, seen, measured, due>>

Tick ==
  /\ vel_age' = Least(vel_age + 1, VelTimeout)
  /\ elapsed' = IF NoProfile THEN 0 ELSE Least(elapsed + 1, HardBrakingTime)
  /\ due' = Greatest(due - 1, 0)
  /\ UNCHANGED <<speed_mps, init_vel, safe_braking_time, braking_control_cmd,
                 emergency, seen, measured>>

Next ==
  \/ EmergencyRun
  \/ NominalRun
  \/ \E mps \in Speeds : ReceiveVelocity(mps)
  \/ Tick

Spec == Init /\ [][Next]_vars

-----------------------------------------------------------------------------
(* Properties.                                                             *)

\* Through an emergency the brake follows a profile that only falls.  A run that
\* has a wheel speed does not brake less than the last one that had, however many
\* blind ones lie in between, unless the wheels have slowed down or have left
\* walking speed, where the brake is full; and a run that has none does not brake
\* less than the one before it.  (After a blind run the brake is eased, from the
\* full brake to that of the profile.)
BrakeNotEased ==
  [][/\ ProfiledRun /\ (seen = speed_mps \/ (3 <= seen /\ seen <= speed_mps))
          => braking_control_cmd' >= measured
     /\ BlindRun /\ emergency => braking_control_cmd' >= braking_control_cmd]_vars

\* "hard_braking_time: safe braking time when faster than safe_vel_thres_mph": an
\* emergency that begins at such a speed is not asked to stand before three
\* quarters of that time are over.
BrakingTimeGiven ==
  [][ProfiledRun /\ 4 * due' > HardBrakingTime
       => SafeDesVel(init_vel', safe_braking_time', elapsed') > 0]_vars
=============================================================================
