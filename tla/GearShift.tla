----------------------------- MODULE GearShift -----------------------------
(***************************************************************************)
(* The shifting of the acceleration controller (shiftCallback): every      *)
(* 10 ms it moves its own idea of the gear by at most one and commands it, *)
(* by the speed of the car and a table of two speeds for each gear.  What  *)
(* the transmission reports is used for one thing: while the engine is     *)
(* off, or after too many shifts in a row, the command is set to it, and   *)
(* is not sent.                                                            *)
(***************************************************************************)
EXTENDS Integers

CONSTANTS
  TopGear,          \* 6
  DownshiftSpeed,   \* of each gear, in m/s
  UpshiftSpeed,
  Speeds,
  ShiftLimit        \* shift_time_ms / 100

Gears == 1 .. TopGear

\* The table of a track: it is not hunted about in.
GearConstants ==
  /\ TopGear \in Nat \ {0}
  /\ DownshiftSpeed \in [Gears -> Int]
  /\ UpshiftSpeed \in [Gears -> Int]
  /\ \A gear \in 1 .. TopGear - 1 : DownshiftSpeed[gear + 1] <= UpshiftSpeed[gear]
  /\ Speeds \subseteq Nat /\ 0 \in Speeds
  /\ ShiftLimit \in Nat

VARIABLES
  curr_gear,             \* curr_gear_ptr_->gear
  gear_cmd,
  sent_gear,             \* the command that was published last, or 0
  current_gear,          \* as the transmission reports it
  engine_running,
  speed,
  upshift_enabled,       \* throttle_cmd or max_throttle_ is pressed
  shifting_counter,
  last_shift             \* history: how the last shift at this speed went

shiftVars == <<curr_gear, gear_cmd, sent_gear, shifting_counter, last_shift>>
inputVars == <<current_gear, engine_running, speed, upshift_enabled>>
vars == <<shiftVars, inputVars>>

TypeOK ==
  /\ curr_gear \in Gears
  /\ {gear_cmd, current_gear, sent_gear} \subseteq 0 .. TopGear
  /\ engine_running \in BOOLEAN /\ upshift_enabled \in BOOLEAN
  /\ speed \in Speeds
  /\ shifting_counter \in 0 .. ShiftLimit
  /\ last_shift \in {"none", "up", "down"}

Init ==
  /\ curr_gear = 1 /\ gear_cmd = 1 /\ sent_gear = 0
  /\ current_gear = 0
  /\ engine_running = FALSE
  /\ speed = 0
  /\ upshift_enabled = FALSE
  /\ shifting_counter = 0
  /\ last_shift = "none"

-----------------------------------------------------------------------------
Denied == ~engine_running \/ shifting_counter >= ShiftLimit

\* Mutant: once denied, always denied.
CountAfterDenialKept == shifting_counter

CountAfterDenial == 0

\* The command follows the transmission, unsent, and the next shift is counted
\* from zero.
ShiftDenied ==
  /\ Denied
  /\ gear_cmd' = current_gear
  /\ shifting_counter' = CountAfterDenial
  /\ UNCHANGED <<curr_gear, sent_gear, last_shift, inputVars>>

WantsUp == speed > UpshiftSpeed[curr_gear] /\ upshift_enabled /\ curr_gear < TopGear

\* Mutant: down by the speed at which it would go up.
WantsDownEarly == speed < UpshiftSpeed[curr_gear] /\ curr_gear > 1

WantsDown == speed < DownshiftSpeed[curr_gear] /\ curr_gear > 1

ShiftTo(gear, how) ==
  /\ ~Denied
  /\ curr_gear' = gear
  /\ gear_cmd' = gear
  /\ sent_gear' = gear
  /\ shifting_counter' = shifting_counter + 1
  /\ last_shift' = how
  /\ UNCHANGED inputVars

ShiftUp   == WantsUp /\ ShiftTo(curr_gear + 1, "up")
ShiftDown == ~WantsUp /\ WantsDown /\ ShiftTo(curr_gear - 1, "down")

ShiftStays ==
  /\ ~Denied /\ ~WantsUp /\ ~WantsDown
  /\ gear_cmd' = curr_gear
  /\ sent_gear' = curr_gear
  /\ shifting_counter' = 0
  /\ UNCHANGED <<curr_gear, last_shift, inputVars>>

Shift == ShiftDenied \/ ShiftUp \/ ShiftDown \/ ShiftStays

-----------------------------------------------------------------------------
(* The inputs.                                                             *)

ReceivePtReport(gear, running) ==
  /\ current_gear' = gear
  /\ engine_running' = running
  /\ UNCHANGED <<shiftVars, speed, upshift_enabled>>

ReceiveVelocity(mps) ==
  /\ speed' = mps
  /\ last_shift' = IF mps = speed THEN last_shift ELSE "none"
  /\ UNCHANGED <<curr_gear, gear_cmd, sent_gear, shifting_counter, current_gear,
                 engine_running, upshift_enabled>>

\* receiveJoystick, and the throttle published with each desired acceleration.
ReceivePedals(pressed) ==
  /\ upshift_enabled' = pressed
  /\ UNCHANGED <<shiftVars, current_gear, engine_running, speed>>

Next ==
  \/ Shift
  \/ \E gear \in 0 .. TopGear, running \in BOOLEAN : ReceivePtReport(gear, running)
  \/ \E mps \in Speeds : ReceiveVelocity(mps)
  \/ \E pressed \in BOOLEAN : ReceivePedals(pressed)

Spec == Init /\ [][Next]_vars

-----------------------------------------------------------------------------
(* Properties.                                                             *)

\* At one speed the gears are not hunted through: however the pedals, the engine
\* and the transmission come and go, a shift is never taken back before the
\* wheel speed has changed.
NoHunting ==
  [][/\ ShiftUp => last_shift # "down"
     /\ ShiftDown => last_shift # "up"]_vars

Fits == ~WantsUp /\ ~WantsDown

\* At a steady speed, with the engine on, the pedals held and the count of
\* shifts within its limit, the command ends in a gear the table allows, and is
\* sent.
GearSettles ==
  \A mps \in Speeds, pressed \in BOOLEAN :
    <>[](speed = mps /\ upshift_enabled = pressed /\ engine_running)
      => <>[](Fits /\ sent_gear = curr_gear)
=============================================================================
