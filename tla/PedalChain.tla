----------------------------- MODULE PedalChain -----------------------------
(***************************************************************************)
(* Three processes move the pedals of the car: the Control Safety Layer,   *)
(* of which only the promise PedalSource is known, the acceleration        *)
(* controller, and the SSC interface, which passes on what the two send to *)
(* its two topics.  A callback that publishes twice does so in two steps,  *)
(* between which the other processes run.  A topic keeps the last Depth    *)
(* messages its reader has not taken; the desired acceleration is sent     *)
(* with best effort and may be lost.                                       *)
(***************************************************************************)
EXTENDS Naturals, Sequences

CONSTANTS
  MaxHunger,        \* buffer_empty_counter_threshold
  Depth             \* bound: 1 to 10 in the code's QoS

ChainConstants ==
  /\ MaxHunger \in Nat \ {0}
  /\ Depth \in Nat \ {0}

VARIABLES
  said, hunger, locked,  \* the safety layer
  unsaid,                \* topics its last run has yet to publish on
  desired_accel,         \* topic: to the acceleration controller
  answer,                \* what its callback is publishing
  unanswered,            \* topics it has yet to publish on
  accelerator_cmd,       \* topic: to the SSC interface
  brake_cmd,             \* topic: to the SSC interface
  m_acc_cmd,             \* the last the car was sent
  m_brake_cmd

Safety == INSTANCE PedalSource WITH Accels <- {"accel"}, NoAccel <- "no"

safetyVars == <<said, hunger, locked, unsaid>>
accelVars  == <<answer, unanswered>>
topicVars  == <<desired_accel, accelerator_cmd, brake_cmd>>
carVars    == <<m_acc_cmd, m_brake_cmd>>
vars == <<safetyVars, accelVars, topicVars, carVars>>

\* A pedal of the acceleration controller is pressed or released.
Words == {"none", "stop", "joystick", "pressed", "released"}

\* What a desired acceleration is answered with: never both pedals.
Answers ==
  [accelerator : {"pressed", "released"}, brake : {"pressed", "released"}]
    \ {[accelerator |-> "pressed", brake |-> "pressed"]}

\* The publications of a callback, in order.
BrakeFirst       == <<"brake", "accelerator">>
AcceleratorFirst == <<"accelerator", "brake">>

ChainTypeOK ==
  /\ Safety!SourceTypeOK
  /\ unsaid \in {<<>>, <<"brake">>, <<"accelerator">>, BrakeFirst}
  /\ unanswered \in {<<>>, <<"brake">>, AcceleratorFirst}
  /\ answer \in Answers
  /\ desired_accel \in Seq({"accel"}) /\ Len(desired_accel) <= Depth
  /\ {accelerator_cmd, brake_cmd} \subseteq Seq(Words)
  /\ Len(accelerator_cmd) <= Depth /\ Len(brake_cmd) <= Depth
  /\ {m_acc_cmd, m_brake_cmd} \subseteq Words

NoAnswer == [accelerator |-> "released", brake |-> "released"]

Init ==
  /\ Safety!SourceInit
  /\ unsaid = <<>> /\ unanswered = <<>>
  /\ answer = NoAnswer
  /\ desired_accel = <<>> /\ accelerator_cmd = <<>> /\ brake_cmd = <<>>
  /\ m_acc_cmd = "none" /\ m_brake_cmd = "none"

\* A topic that is full drops its oldest message.
Publish(topic, msg) ==
  IF Len(topic) < Depth THEN Append(topic, msg) ELSE Append(Tail(topic), msg)

-----------------------------------------------------------------------------
(* The Control Safety Layer.                                               *)

\* A pedal that a run says nothing about is not published on.
Spoken(saying, pedal) == IF saying[pedal] = "none" THEN <<>> ELSE <<pedal>>

\* Mutant: the accelerator is published first.
PedalsOfSwapped(saying) == Spoken(saying, "accelerator") \o Spoken(saying, "brake")

\* Mutant: a stop is of the brake only.
PedalsOfBrakeOnly(saying) ==
  IF saying = Safety!Stop THEN <<"brake">>
  ELSE Spoken(saying, "brake") \o Spoken(saying, "accelerator")

\* The pedals a run publishes on, in their order.
PedalsOf(saying) == Spoken(saying, "brake") \o Spoken(saying, "accelerator")

Run ==
  /\ unsaid = <<>>
  /\ Safety!SourceRun
  /\ unsaid' = PedalsOf(said')
  /\ desired_accel' = IF said'.desired_accel = "accel"
                        THEN Publish(desired_accel, "accel") ELSE desired_accel
  /\ UNCHANGED <<accelVars, accelerator_cmd, brake_cmd, carVars>>

\* One publication on a topic of the SSC interface.
Send(pedal, word) ==
  \/ /\ pedal = "brake"
     /\ brake_cmd' = Publish(brake_cmd, word)
     /\ UNCHANGED accelerator_cmd
  \/ /\ pedal = "accelerator"
     /\ accelerator_cmd' = Publish(accelerator_cmd, word)
     /\ UNCHANGED brake_cmd

RunPublishes ==
  /\ unsaid # <<>>
  /\ Send(Head(unsaid), said[Head(unsaid)])
  /\ unsaid' = Tail(unsaid)
  /\ UNCHANGED <<said, hunger, locked, accelVars, desired_accel, carVars>>

-----------------------------------------------------------------------------
(* The acceleration controller.                                            *)

ReceiveDesAccel ==
  /\ unanswered = <<>>
  /\ desired_accel # <<>>
  /\ desired_accel' = Tail(desired_accel)
  /\ answer' \in Answers
  /\ unanswered' = AcceleratorFirst
  /\ UNCHANGED <<safetyVars, accelerator_cmd, brake_cmd, carVars>>

DesAccelLost ==
  /\ desired_accel # <<>>
  /\ desired_accel' = Tail(desired_accel)
  /\ UNCHANGED <<safetyVars, accelVars, accelerator_cmd, brake_cmd, carVars>>

AnswerPublishes ==
  /\ unanswered # <<>>
  /\ Send(Head(unanswered), answer[Head(unanswered)])
  /\ unanswered' = Tail(unanswered)
  /\ UNCHANGED <<safetyVars, answer, desired_accel, carVars>>

-----------------------------------------------------------------------------
(* The SSC interface.                                                      *)

JoystickAcceleratorCmdCallback ==
  /\ accelerator_cmd # <<>>
  /\ m_acc_cmd' = Head(accelerator_cmd)
  /\ accelerator_cmd' = Tail(accelerator_cmd)
  /\ UNCHANGED <<safetyVars, accelVars, desired_accel, brake_cmd, m_brake_cmd>>

JoystickBrakeCmdCallback ==
  /\ brake_cmd # <<>>
  /\ m_brake_cmd' = Head(brake_cmd)
  /\ brake_cmd' = Tail(brake_cmd)
  /\ UNCHANGED <<safetyVars, accelVars, desired_accel, accelerator_cmd, m_acc_cmd>>

Next ==
  \/ Run
  \/ RunPublishes
  \/ ReceiveDesAccel
  \/ DesAccelLost
  \/ AnswerPublishes
  \/ JoystickAcceleratorCmdCallback
  \/ JoystickBrakeCmdCallback

Spec == Init /\ [][Next]_vars

-----------------------------------------------------------------------------
(* Properties.                                                             *)

StopReachesCar ==
  <>[][Run => ~Safety!RunHanded]_vars
    => <>[](m_acc_cmd = "stop" /\ m_brake_cmd = "stop")

JoystickReachesCar ==
  <>[][Run => said' = Safety!Hands]_vars
    => <>[](m_acc_cmd = "joystick" /\ m_brake_cmd = "joystick")

\* When the safety layer hands the pedals to nobody any more, because of an
\* emergency or because no controller says anything, the car ends braked with
\* the throttle closed, and when the joystick has both pedals in every run it
\* ends with the joystick's, whatever accelerations were still on their way and
\* whatever their answers: neither of two nodes that write the same topics
\* undoes what the other did last.
LastWordReachesCar == StopReachesCar /\ JoystickReachesCar

\* Nothing is under way to the car.
AtRest ==
  unsaid = <<>> /\ unanswered = <<>> /\ accelerator_cmd = <<>> /\ brake_cmd = <<>>

\* However the publications of the two nodes mix on the two topics, the car is
\* not left with the brake of an emergency and the throttle of the controller:
\* one node brakes first, the other accelerates first.
PedalsNotFought ==
  AtRest => ~(m_brake_cmd = "stop" /\ m_acc_cmd = "pressed")
=============================================================================
