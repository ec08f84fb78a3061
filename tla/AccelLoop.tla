------------------------------ MODULE AccelLoop ------------------------------
(***************************************************************************)
(* The acceleration controller under a Control Safety Layer that keeps its *)
(* promise (PedalSource) and runs once in every tick, and whose desired    *)
(* acceleration is answered within the tick: how long a throttle may       *)
(* outlive what it was computed from.                                      *)
(***************************************************************************)
EXTENDS AccelControl

CONSTANTS
  MaxHunger,        \* buffer_empty_counter_threshold
  NoAccel

ASSUME LoopAssumption ==
  /\ MaxHunger \in Nat \ {0}
  /\ NoAccel \notin Accels
  /\ MaxAge > DataTimeout + MaxHunger + 1

VARIABLES
  said, hunger, locked,  \* the safety layer
  ran,                   \* it has run in this tick
  asked,                 \* the desired acceleration that is not answered yet
  car_throttle           \* what is left of the controller's throttle

Safety == INSTANCE PedalSource

loopVars == <<said, hunger, locked, ran, asked, car_throttle>>
vars == <<accelVars, loopVars>>

TypeOK ==
  /\ AccelTypeOK
  /\ Safety!SourceTypeOK
  /\ ran \in BOOLEAN
  /\ asked \in Accels \cup {NoAccel}
  /\ car_throttle \in Nat

Init ==
  /\ AccelInit
  /\ Safety!SourceInit
  /\ ran = FALSE
  /\ asked = NoAccel
  /\ car_throttle = 0

\* A run of the safety layer that no exception cuts short.
SafetyRun ==
  \/ Safety!RunStop
  \/ Safety!RunHungry
  \/ Safety!RunHanded /\ said' \notin Safety!Partial

\* With an accelerator of its own it replaces the controller's.
Run ==
  /\ ~ran
  /\ SafetyRun
  /\ ran' = TRUE
  /\ asked' = said'.desired_accel
  /\ car_throttle' = IF said'.accelerator = "none" THEN car_throttle ELSE 0
  /\ UNCHANGED accelVars

DesAccel ==
  /\ asked # NoAccel
  /\ \E tires \in Accels, slip, astray \in BOOLEAN :
       ReceiveDesAccel(asked, tires, slip, astray)
  /\ asked' = NoAccel
  /\ car_throttle' = throttle_cmd'
  /\ UNCHANGED <<said, hunger, locked, ran>>

Input == Inputs /\ UNCHANGED loopVars

Tick ==
  /\ ran /\ asked = NoAccel
  /\ AccelTick
  /\ ran' = FALSE
  /\ UNCHANGED <<said, hunger, locked, asked, car_throttle>>

Next == Run \/ DesAccel \/ Input \/ Tick

Spec == Init /\ [][Next]_vars

-----------------------------------------------------------------------------
(* Properties.                                                             *)

\* Data that is too old closes the throttle, but only when a desired
\* acceleration is answered; when those stop, the safety layer does, after as
\* many runs as its buffer may be empty.  So the throttle outlives the joystick,
\* the wheel speed and the powertrain by their timeout and those runs, and never
\* by more, whatever stops first.
DeadMansThrottle ==
  car_throttle > 0 =>
    \A age \in {joy_age, vel_age, pt_age} : age <= DataTimeout + MaxHunger + 1

\* A cruise command that wants no acceleration, still good, and heard before
\* the last runs the buffer may have been empty for.
CruiseRefuses ==
  /\ ~m_accCMD_firstcall
  /\ m_acc_des_accel <= 5
  /\ acc_age \in MaxHunger + 2 .. AccTimeout

\* It has closed the throttle, whatever the planner asks for, whether the
\* acceleration controller was asked again or the safety layer found nobody to
\* ask.
CruiseCloses == CruiseRefuses => car_throttle = 0
=============================================================================
