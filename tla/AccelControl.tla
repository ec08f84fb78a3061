---------------------------- MODULE AccelControl ----------------------------
(***************************************************************************)
(* AccelControl turns a desired acceleration into the pedals: everything   *)
(* is computed and published in the callback of the desired acceleration,  *)
(* from what the joystick, the wheel speeds, the powertrain and the        *)
(* adaptive cruise control said last.  It is single threaded.              *)
(*                                                                         *)
(* A pedal is written as the acceleration it is for, in 1/100 m/s2, which  *)
(* the pedal profiles grow with; a speed in m/s.  What the tires allow,    *)
(* the slip of the wheels and the lateral error are any, as nothing bounds *)
(* them or their age.                                                      *)
(***************************************************************************)
EXTENDS Integers, FiniteSets

CONSTANTS
  Accels,           \* accelerations that are asked for, or that the tires allow
  Limits,           \* accelerator_cmd of the joystick
  Speeds,
  DataTimeout,      \* the 1 s of isDataOk
  AccTimeout,       \* the 2 s of receiveDesAccel
  MaxAge            \* bound: an age is counted up to it

INF == 10000        \* no limit, above every acceleration

ASSUME AccelControlAssumption ==
  /\ Accels \subseteq Int /\ \A a \in Accels : a < INF
  /\ Limits \subseteq Nat /\ 0 \in Limits
  /\ Speeds \subseteq Nat /\ 0 \in Speeds
  /\ DataTimeout \in Nat
  /\ AccTimeout \in Nat
  /\ MaxAge \in Nat /\ MaxAge > DataTimeout /\ MaxAge > AccTimeout

VARIABLES
  joy_age, vel_age, pt_age,      \* MaxAge: none yet, or long ago
  max_throttle,
  speed,
  m_acc_des_accel,
  acc_age,
  m_accCMD_firstcall,
  throttle_cmd,                  \* as published
  brake_cmd

ageVars   == <<joy_age, vel_age, pt_age>>
accVars   == <<m_acc_des_accel, acc_age, m_accCMD_firstcall>>
pedalVars == <<throttle_cmd, brake_cmd>>
accelVars == <<ageVars, max_throttle, speed, accVars, pedalVars>>

Least(a, b) == IF a <= b THEN a ELSE b

AccelTypeOK ==
  /\ joy_age \in 0 .. MaxAge /\ vel_age \in 0 .. MaxAge
  /\ pt_age \in 0 .. MaxAge /\ acc_age \in 0 .. MaxAge
  /\ max_throttle \in Limits
  /\ speed \in Speeds
  /\ m_acc_des_accel \in Accels \cup {INF}
  /\ m_accCMD_firstcall \in BOOLEAN
  /\ throttle_cmd \in Nat
  /\ brake_cmd \in Nat

\* m_acc_des_accel is not initialized: it may be anything.
AccelInit ==
  /\ joy_age = MaxAge /\ vel_age = MaxAge /\ pt_age = MaxAge
  /\ max_throttle = 0
  /\ speed = 0
  /\ m_acc_des_accel \in Accels \cup {INF}
  /\ acc_age = MaxAge
  /\ m_accCMD_firstcall = TRUE
  /\ throttle_cmd = 0
  /\ brake_cmd = 0

-----------------------------------------------------------------------------
(* The inputs.                                                             *)

ReceiveJoystick(limit) ==
  /\ max_throttle' = limit
  /\ joy_age' = 0
  /\ UNCHANGED <<vel_age, pt_age, speed, accVars, pedalVars>>

ReceiveVelocity(mps) ==
  /\ speed' = mps
  /\ vel_age' = 0
  /\ UNCHANGED <<joy_age, pt_age, max_throttle, accVars, pedalVars>>

\* What else it stores is read by the shifting.
ReceivePtReport ==
  /\ pt_age' = 0
  /\ UNCHANGED <<joy_age, vel_age, max_throttle, speed, accVars, pedalVars>>

AccCMDCallback(accel) ==
  /\ m_acc_des_accel' = accel
  /\ acc_age' = 0
  /\ m_accCMD_firstcall' = FALSE
  /\ UNCHANGED <<ageVars, max_throttle, speed, pedalVars>>

-----------------------------------------------------------------------------
(* The pedals.                                                             *)

AccIsStale == ~m_accCMD_firstcall /\ acc_age > AccTimeout

\* The limit of the cruise control, as it is stored once it is found stale.
AccLimit == IF AccIsStale THEN INF ELSE m_acc_des_accel

\* Mutant: the cruise control is not asked.
FollowedPlanner(des_accel) == des_accel

\* The acceleration of the car: the least of the two.
Followed(des_accel) == Least(des_accel, AccLimit)

\* The profiles saturate at the acceleration of full pedals.
FullBrake == 800
HoldBrake == 300

\* tractionControl and ABSControl: one call in ten, at speed and with a slip,
\* the pedal is released to a fifth.
Released(cmd, slip) == IF slip /\ speed > 20 THEN cmd \div 5 ELSE cmd

\* calculateThrottleCmd.
CalculateThrottleCmd(accel, tires, slip) ==
  LET allowed == Least(accel, tires) IN
    IF allowed > 5 THEN Released(allowed, slip) ELSE 0

\* calculateBrakeCmd: a car that stands, or nearly, is held.
CalculateBrakeCmd(accel, slip) ==
  IF (speed < 3 /\ accel < 0) \/ (speed = 0 /\ accel <= 0)
    THEN HoldBrake
    ELSE IF accel < -10 THEN Released(Least(-accel, FullBrake), slip) ELSE 0

\* Mutant: the powertrain is not looked at.
IsDataOkNoPt == joy_age <= DataTimeout /\ vel_age <= DataTimeout

\* The desired acceleration is checked too, and is always new here.
IsDataOk ==
  joy_age <= DataTimeout /\ vel_age <= DataTimeout /\ pt_age <= DataTimeout

\* With a lateral error, at speed, half of the throttle at most is taken away.
Steadied(throttle, astray) == IF astray /\ speed > 15 THEN throttle \div 2 ELSE throttle

\* publishThrottleBrake.
PublishThrottleBrake(throttle, brake, astray) ==
  IF IsDataOk
    THEN /\ throttle_cmd' =
              IF brake > 0 THEN 0 ELSE Steadied(Least(throttle, max_throttle), astray)
         /\ brake_cmd' = brake
    ELSE /\ throttle_cmd' = 0
         /\ brake_cmd' = FullBrake

ReceiveDesAccel(des_accel, tires, slip, astray) ==
  /\ m_acc_des_accel' = AccLimit
  /\ PublishThrottleBrake(
       CalculateThrottleCmd(Followed(des_accel), tires, slip),
       CalculateBrakeCmd(Followed(des_accel), slip), astray)
  /\ UNCHANGED <<ageVars, max_throttle, speed, acc_age, m_accCMD_firstcall>>

-----------------------------------------------------------------------------
Older(age) == IF age < MaxAge THEN age + 1 ELSE age

AccelTick ==
  /\ joy_age' = Older(joy_age)
  /\ vel_age' = Older(vel_age)
  /\ pt_age' = Older(pt_age)
  /\ acc_age' = Older(acc_age)
  /\ UNCHANGED <<max_throttle, speed, m_acc_des_accel, m_accCMD_firstcall, pedalVars>>

Inputs ==
  \/ \E limit \in Limits : ReceiveJoystick(limit)
  \/ \E mps \in Speeds : ReceiveVelocity(mps)
  \/ ReceivePtReport
  \/ \E accel \in Accels : AccCMDCallback(accel)
=============================================================================
