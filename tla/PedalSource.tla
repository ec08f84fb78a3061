----------------------------- MODULE PedalSource -----------------------------
(***************************************************************************)
(* What the Control Safety Layer promises to whoever moves the pedals: a   *)
(* run stops the car, or hands over to the acceleration controller, or to  *)
(* the joystick, or says nothing; and it says nothing at most              *)
(* MaxHunger times before it stops the car.                                *)
(***************************************************************************)
EXTENDS Naturals

CONSTANTS
  Accels,           \* desired accelerations
  NoAccel,          \* none of them
  MaxHunger         \* buffer_empty_counter_threshold

VARIABLES
  said,     \* what the last run published
  hunger,   \* runs without a command to follow
  locked    \* too many of them: the next run stops the car

sourceVars == <<said, hunger, locked>>

\* Who moves a pedal.
Pedals == {"none", "stop", "joystick"}

\* The brake is published before the accelerator, and either of them or a
\* desired acceleration.
Sayings ==
  [brake : Pedals, accelerator : Pedals, desired_accel : Accels \cup {NoAccel}]

Saying(pedal, accel) ==
  [brake |-> pedal, accelerator |-> pedal, desired_accel |-> accel]

Silence      == Saying("none", NoAccel)
Stop         == Saying("stop", NoAccel)
Hands        == Saying("joystick", NoAccel)
Drive(accel) == Saying("none", accel)

\* An exception may come between the brake and the accelerator.
Partial == {Silence, [Silence EXCEPT !.brake = "joystick"]}

SourceTypeOK ==
  /\ said \in Sayings
  /\ hunger \in 0 .. MaxHunger
  /\ locked \in BOOLEAN

SourceInit ==
  /\ said = Silence
  /\ hunger = 0
  /\ locked = FALSE

RunStop ==
  /\ said' = Stop
  /\ locked' \in {locked, FALSE}
  /\ UNCHANGED hunger

\* Nobody says what to do.
RunHungry ==
  /\ ~locked
  /\ said' = Silence
  /\ hunger' = IF hunger < MaxHunger THEN hunger + 1 ELSE hunger
  /\ locked' = (hunger' = MaxHunger)

RunHanded ==
  /\ ~locked
  /\ said' \in {Hands} \cup {Drive(accel) : accel \in Accels} \cup Partial
  /\ hunger' \in {hunger, 0}
  /\ UNCHANGED locked

SourceRun == RunStop \/ RunHungry \/ RunHanded

SourceSpec == SourceInit /\ [][SourceRun]_sourceVars
=============================================================================
