------------------------- MODULE VehicleState_proofs -------------------------
(***************************************************************************)
(* Proofs about the state of the machines of Vehicle, for every value of   *)
(* the constants: each variable keeps its type, and the pedals that two    *)
(* nodes move are not left fighting each other.                            *)
(***************************************************************************)
EXTENDS Vehicle_proofs, SequenceTheorems

-----------------------------------------------------------------------------
(* The pedals.                                                             *)

LEMMA PedalNumbers == MaxHunger \in Nat \ {0} /\ TopicDepth \in Nat \ {0}
BY VehicleAssumption DEF Pedals!ChainConstants

\* The last word on a topic, or the one the car has already been sent.
LastOf(topic, taken) == IF topic = <<>> THEN taken ELSE topic[Len(topic)]

LEMMA PublishIsLast ==
  ASSUME NEW Messages, NEW topic \in Seq(Messages), Len(topic) <= TopicDepth,
         NEW msg \in Messages
  PROVE  LET sent == Pedals!Publish(topic, msg)
         IN /\ sent \in Seq(Messages)
            /\ Len(sent) <= TopicDepth
            /\ \A taken : LastOf(sent, taken) = msg
<1> USE PedalNumbers DEF Pedals!Publish, LastOf
<1>1. CASE Len(topic) < TopicDepth
  BY <1>1
<1>2. CASE ~(Len(topic) < TopicDepth)
  <2>1. /\ Tail(topic) \in Seq(Messages)
        /\ Len(Tail(topic)) = TopicDepth - 1
    BY <1>2
  <2> QED
    BY <1>2, <2>1
<1> QED
  BY <1>1, <1>2

LEMMA TakeIsLast ==
  ASSUME NEW Messages, NEW topic \in Seq(Messages), topic # <<>>, Len(topic) <= TopicDepth
  PROVE  /\ Tail(topic) \in Seq(Messages)
         /\ Len(Tail(topic)) <= TopicDepth
         /\ Head(topic) \in Messages
         /\ \A taken : LastOf(Tail(topic), Head(topic)) = LastOf(topic, taken)
<1> USE PedalNumbers DEF LastOf
<1>1. /\ Tail(topic) \in Seq(Messages)
      /\ Len(Tail(topic)) = Len(topic) - 1
      /\ Head(topic) = topic[1] /\ topic[1] \in Messages
      /\ \A i \in 1 .. Len(Tail(topic)) : Tail(topic)[i] = topic[i + 1]
  OBVIOUS
<1>2. CASE Len(topic) = 1
  BY <1>1, <1>2
<1>3. CASE Len(topic) > 1
  <2>1. /\ Tail(topic) # <<>>
        /\ Tail(topic)[Len(Tail(topic))] = topic[Len(topic)]
    BY <1>1, <1>3
  <2> QED
    BY <1>1, <1>3, <2>1
<1>4. Len(topic) \in Nat \ {0}
  OBVIOUS
<1> QED
  BY <1>2, <1>3, <1>4

\* A run that stops the brake goes on to stop the accelerator.
StopIsOfBoth ==
  unsaid \in {<<"brake">>, Pedals!BrakeFirst} /\ said.brake = "stop"
    => unsaid = Pedals!BrakeFirst /\ said.accelerator = "stop"

\* When the last words on the two topics are a stop and a pressed accelerator,
\* one of the two nodes has its second word still to say.
OneMoreWord ==
  /\ LastOf(brake_cmd, m_brake_cmd) = "stop"
  /\ LastOf(accelerator_cmd, m_acc_cmd) = "pressed"
  => \/ unsaid = <<"accelerator">> /\ said.accelerator = "stop"
     \/ unanswered = <<"brake">>

PedalsInv == Pedals!ChainTypeOK /\ StopIsOfBoth /\ OneMoreWord

BrakeWord       == LastOf(brake_cmd, m_brake_cmd)
AcceleratorWord == LastOf(accelerator_cmd, m_acc_cmd)

\* The two topics of the SSC interface and what it took from them.
TopicsTypeOK ==
  /\ accelerator_cmd \in Seq(Pedals!Words) /\ Len(accelerator_cmd) <= TopicDepth
  /\ brake_cmd \in Seq(Pedals!Words) /\ Len(brake_cmd) <= TopicDepth
  /\ m_acc_cmd \in Pedals!Words /\ m_brake_cmd \in Pedals!Words

\* A word that is sent is the last on its topic, and leaves the other alone.
LEMMA SendIsLast ==
  ASSUME TopicsTypeOK, UNCHANGED <<m_acc_cmd, m_brake_cmd>>,
         NEW pedal \in {"brake", "accelerator"}, NEW word \in Pedals!Words,
         Pedals!Send(pedal, word)
  PROVE  /\ TopicsTypeOK'
         /\ BrakeWord' = IF pedal = "brake" THEN word ELSE BrakeWord
         /\ AcceleratorWord' = IF pedal = "accelerator" THEN word ELSE AcceleratorWord
<1>1. CASE pedal = "brake"
  <2>1. /\ brake_cmd' = Pedals!Publish(brake_cmd, word)
        /\ accelerator_cmd' = accelerator_cmd
    BY <1>1 DEF Pedals!Send
  <2> QED
    BY <1>1, <2>1, PublishIsLast DEF TopicsTypeOK, BrakeWord, AcceleratorWord
<1>2. CASE pedal = "accelerator"
  <2>1. /\ accelerator_cmd' = Pedals!Publish(accelerator_cmd, word)
        /\ brake_cmd' = brake_cmd
    BY <1>2 DEF Pedals!Send
  <2> QED
    BY <1>2, <2>1, PublishIsLast DEF TopicsTypeOK, BrakeWord, AcceleratorWord
<1> QED
  BY <1>1, <1>2

\* What the SSC interface takes was on its topic, and the last word stays.
LEMMA TakingKeepsWords ==
  ASSUME TopicsTypeOK,
         Pedals!JoystickAcceleratorCmdCallback \/ Pedals!JoystickBrakeCmdCallback
  PROVE  TopicsTypeOK' /\ BrakeWord' = BrakeWord /\ AcceleratorWord' = AcceleratorWord
<1>1. CASE Pedals!JoystickAcceleratorCmdCallback
  BY <1>1, TakeIsLast
  DEF Pedals!JoystickAcceleratorCmdCallback, TopicsTypeOK, BrakeWord, AcceleratorWord
<1>2. CASE Pedals!JoystickBrakeCmdCallback
  BY <1>2, TakeIsLast
  DEF Pedals!JoystickBrakeCmdCallback, TopicsTypeOK, BrakeWord, AcceleratorWord
<1> QED
  BY <1>1, <1>2

LEMMA TwoWords ==
  ASSUME NEW first, NEW second
  PROVE  <<first>> \o <<second>> = <<first, second>>
<1> DEFINE S == {first, second}
<1>1. /\ <<first>> \in Seq(S) /\ <<second>> \in Seq(S) /\ <<first, second>> \in Seq(S)
      /\ Len(<<first>>) = 1 /\ Len(<<second>>) = 1 /\ Len(<<first, second>>) = 2
  OBVIOUS
<1> HIDE DEF S
<1>2. /\ <<first>> \o <<second>> \in Seq(S)
      /\ Len(<<first>> \o <<second>>) = 2
      /\ \A i \in 1 .. 2 : (<<first>> \o <<second>>)[i]
           = IF i <= 1 THEN <<first>>[i] ELSE <<second>>[i - 1]
  BY <1>1, ConcatProperties
<1>3. \A i \in 1 .. 2 : (<<first>> \o <<second>>)[i] = <<first, second>>[i]
  BY <1>2
<1> QED
  BY <1>1, <1>2, <1>3, SeqEqual

\* What a run says, and on which topics it has to say it.
LEMMA RunSays ==
  ASSUME Pedals!Safety!SourceTypeOK, Pedals!Safety!SourceRun, unsaid' = Pedals!PedalsOf(said')
  PROVE  /\ Pedals!Safety!SourceTypeOK'
         /\ unsaid' \in {<<>>, <<"brake">>, Pedals!BrakeFirst}
         /\ StopIsOfBoth'
<1> USE PedalNumbers
    DEF Pedals!Safety!SourceTypeOK, Pedals!Safety!Sayings, Pedals!Safety!Pedals,
        Pedals!Safety!Saying
<1>1. \/ said' = Pedals!Safety!Stop
      \/ said' = Pedals!Safety!Silence
      \/ said' = Pedals!Safety!Hands
      \/ said' = Pedals!Safety!Drive("accel")
      \/ said' = [Pedals!Safety!Silence EXCEPT !.brake = "joystick"]
  BY DEF Pedals!Safety!SourceRun, Pedals!Safety!RunStop, Pedals!Safety!RunHungry,
         Pedals!Safety!RunHanded, Pedals!Safety!Partial
<1>2. /\ said' \in Pedals!Safety!Sayings
      /\ \/ said'.brake = said'.accelerator
         \/ said'.brake = "joystick" /\ said'.accelerator = "none"
  BY <1>1 DEF Pedals!Safety!Stop, Pedals!Safety!Silence, Pedals!Safety!Hands,
              Pedals!Safety!Drive
<1>t. Pedals!Safety!SourceTypeOK'
  <2>1. hunger' \in 0 .. MaxHunger
    <3>1. \/ hunger' \in {hunger, 0}
          \/ hunger < MaxHunger /\ hunger' = hunger + 1
      BY DEF Pedals!Safety!SourceRun, Pedals!Safety!RunStop, Pedals!Safety!RunHungry,
             Pedals!Safety!RunHanded
    <3>2. hunger \in 0 .. MaxHunger
      OBVIOUS
    <3> QED
      BY <3>1, <3>2
  <2>2. locked' \in BOOLEAN
    BY DEF Pedals!Safety!SourceRun, Pedals!Safety!RunStop, Pedals!Safety!RunHungry,
           Pedals!Safety!RunHanded
  <2> QED
    BY <1>2, <2>1, <2>2
<1>3. unsaid' = (IF said'.brake = "none" THEN <<>> ELSE <<"brake">>)
                  \o (IF said'.accelerator = "none" THEN <<>> ELSE <<"accelerator">>)
  BY DEF Pedals!PedalsOf, Pedals!Spoken
<1>4. CASE said'.brake = "none"
  <2>1. unsaid' = <<>>
    BY <1>2, <1>3, <1>4
  <2> QED
    BY <1>t, <2>1 DEF StopIsOfBoth, Pedals!BrakeFirst
<1>5. CASE said'.brake # "none" /\ said'.accelerator = "none"
  <2>1. unsaid' = <<"brake">>
    BY <1>3, <1>5
  <2> QED
    BY <1>t, <1>2, <1>5, <2>1 DEF StopIsOfBoth
<1>6. CASE said'.brake # "none" /\ said'.accelerator # "none"
  <2>1. unsaid' = <<"brake", "accelerator">>
    BY <1>3, <1>6, TwoWords
  <2> QED
    BY <1>t, <1>2, <1>6, <2>1 DEF StopIsOfBoth, Pedals!BrakeFirst
<1> QED
  BY <1>4, <1>5, <1>6

\* The queues of publications, and what is left of them.
LEMMA Queues ==
  /\ Head(<<"brake">>) = "brake" /\ Tail(<<"brake">>) = <<>>
  /\ Head(<<"accelerator">>) = "accelerator" /\ Tail(<<"accelerator">>) = <<>>
  /\ Head(<<"brake", "accelerator">>) = "brake"
  /\ Tail(<<"brake", "accelerator">>) = <<"accelerator">>
  /\ Head(<<"accelerator", "brake">>) = "accelerator"
  /\ Tail(<<"accelerator", "brake">>) = <<"brake">>
  /\ <<>> # <<"brake">> /\ <<>> # <<"brake", "accelerator">>
  /\ <<"accelerator">> # <<"brake">> /\ <<"accelerator">> # <<"brake", "accelerator">>
<1>1. <<"accelerator">> # <<"brake", "accelerator">>
  <2>1. Len(<<"accelerator">>) # Len(<<"brake", "accelerator">>)
    OBVIOUS
  <2> QED
    BY <2>1
<1> QED
  BY <1>1

\* What the publications to come are, and to whom.
LEMMA QueuedWords ==
  ASSUME Pedals!ChainTypeOK
  PROVE  /\ TopicsTypeOK
         /\ said.brake \in Pedals!Words /\ said.accelerator \in Pedals!Words
         /\ said.accelerator # "pressed"
         /\ \A pedal \in {"brake", "accelerator"} :
              answer[pedal] \in {"pressed", "released"}
         /\ \A queue \in {unsaid, unanswered} : queue # <<>> =>
              /\ Head(queue) \in {"brake", "accelerator"}
              /\ Tail(queue) \in {<<>>, <<"brake">>, <<"accelerator">>}
<1>1. TopicsTypeOK
  BY DEF TopicsTypeOK, Pedals!ChainTypeOK
<1>2. said \in [brake : Pedals!Safety!Pedals, accelerator : Pedals!Safety!Pedals,
                desired_accel : {"accel"} \cup {"no"}]
  BY DEF Pedals!ChainTypeOK, Pedals!Safety!SourceTypeOK, Pedals!Safety!Sayings
<1>3. /\ said.brake \in Pedals!Words /\ said.accelerator \in Pedals!Words
      /\ said.accelerator # "pressed"
  BY <1>2 DEF Pedals!Safety!Pedals, Pedals!Words
<1>4. \A pedal \in {"brake", "accelerator"} : answer[pedal] \in {"pressed", "released"}
  BY DEF Pedals!ChainTypeOK, Pedals!Answers
<1>5. /\ unsaid \in {<<>>, <<"brake">>, <<"accelerator">>, <<"brake", "accelerator">>}
      /\ unanswered \in {<<>>, <<"brake">>, <<"accelerator", "brake">>}
  BY DEF Pedals!ChainTypeOK, Pedals!BrakeFirst, Pedals!AcceleratorFirst
<1> QED
  BY <1>1, <1>3, <1>4, <1>5, Queues

LEMMA RunKeepsPedals ==
  ASSUME PedalsInv, Pedals!Run
  PROVE  PedalsInv'
<1>1. /\ Pedals!Safety!SourceTypeOK'
      /\ unsaid' \in {<<>>, <<"brake">>, Pedals!BrakeFirst}
      /\ StopIsOfBoth'
  BY RunSays DEF PedalsInv, Pedals!ChainTypeOK, Pedals!Run
<1>2. desired_accel' \in Seq({"accel"}) /\ Len(desired_accel') <= TopicDepth
  BY PublishIsLast DEF PedalsInv, Pedals!ChainTypeOK, Pedals!Run
<1>3. Pedals!ChainTypeOK'
  BY <1>1, <1>2
  DEF PedalsInv, Pedals!ChainTypeOK, Pedals!Run, Pedals!accelVars, Pedals!carVars
<1>4. unsaid # <<"accelerator">>
  BY DEF Pedals!Run
<1>5. OneMoreWord'
  BY <1>4 DEF PedalsInv, OneMoreWord, Pedals!Run, Pedals!accelVars, Pedals!carVars
<1> QED
  BY <1>1, <1>3, <1>5 DEF PedalsInv

LEMMA RunPublishesKeepsPedals ==
  ASSUME PedalsInv, Pedals!RunPublishes
  PROVE  PedalsInv'
<1> USE DEF PedalsInv
<1> DEFINE pedal == Head(unsaid)
<1>1. /\ UNCHANGED <<said, hunger, locked, answer, unanswered, desired_accel, m_acc_cmd,
                     m_brake_cmd>>
      /\ unsaid # <<>> /\ unsaid' = Tail(unsaid)
      /\ Pedals!Send(pedal, said[pedal])
  BY DEF Pedals!RunPublishes, Pedals!accelVars, Pedals!carVars
<1>2. /\ pedal \in {"brake", "accelerator"} /\ said[pedal] \in Pedals!Words
      /\ said.accelerator # "pressed"
      /\ unsaid' \in {<<>>, <<"brake">>, <<"accelerator">>}
  BY <1>1, QueuedWords
<1>3. /\ TopicsTypeOK'
      /\ BrakeWord' = IF pedal = "brake" THEN said[pedal] ELSE BrakeWord
      /\ AcceleratorWord' = IF pedal = "accelerator" THEN said[pedal] ELSE AcceleratorWord
  BY <1>1, <1>2, QueuedWords, SendIsLast
<1>4. Pedals!ChainTypeOK'
  BY <1>1, <1>2, <1>3 DEF Pedals!ChainTypeOK, TopicsTypeOK, Pedals!Safety!SourceTypeOK
<1>5. /\ unsaid = <<"brake">> => pedal = "brake" /\ Tail(unsaid) = <<>>
      /\ unsaid = <<"accelerator">> => pedal = "accelerator" /\ Tail(unsaid) = <<>>
      /\ unsaid = Pedals!BrakeFirst => pedal = "brake" /\ Tail(unsaid) = <<"accelerator">>
  BY Queues DEF Pedals!BrakeFirst
<1>6. unsaid \in {<<"brake">>, <<"accelerator">>, Pedals!BrakeFirst}
  BY <1>1 DEF Pedals!ChainTypeOK
<1> HIDE DEF pedal
<1>7. StopIsOfBoth'
  BY <1>1, <1>5, <1>6, Queues DEF StopIsOfBoth, Pedals!BrakeFirst
<1>8. OneMoreWord'
  <2> SUFFICES ASSUME BrakeWord' = "stop", AcceleratorWord' = "pressed"
               PROVE  \/ unsaid' = <<"accelerator">> /\ said'.accelerator = "stop"
                      \/ unanswered' = <<"brake">>
    BY DEF OneMoreWord, BrakeWord, AcceleratorWord
  <2>1. pedal = "brake" /\ said.brake = "stop"
    BY <1>2, <1>3
  <2>2. unsaid = Pedals!BrakeFirst /\ said.accelerator = "stop"
    BY <1>5, <1>6, <2>1 DEF StopIsOfBoth
  <2> QED
    BY <1>1, <1>5, <2>2
<1> QED
  BY <1>4, <1>7, <1>8

LEMMA AnswerKeepsPedals ==
  ASSUME PedalsInv, Pedals!AnswerPublishes
  PROVE  PedalsInv'
<1> USE DEF PedalsInv
<1> DEFINE pedal == Head(unanswered)
<1>1. /\ UNCHANGED <<said, hunger, locked, unsaid, answer, desired_accel, m_acc_cmd,
                     m_brake_cmd>>
      /\ unanswered # <<>> /\ unanswered' = Tail(unanswered)
      /\ Pedals!Send(pedal, answer[pedal])
  BY DEF Pedals!AnswerPublishes, Pedals!safetyVars, Pedals!carVars
<1>2. pedal \in {"brake", "accelerator"} /\ answer[pedal] \in {"pressed", "released"}
  BY <1>1, QueuedWords
<1>3. answer[pedal] \in Pedals!Words
  BY <1>2 DEF Pedals!Words
<1>4. /\ TopicsTypeOK'
      /\ BrakeWord' = IF pedal = "brake" THEN answer[pedal] ELSE BrakeWord
      /\ AcceleratorWord' = IF pedal = "accelerator" THEN answer[pedal] ELSE AcceleratorWord
  BY <1>1, <1>2, <1>3, QueuedWords, SendIsLast
<1>5. /\ unanswered = <<"brake">> /\ pedal = "brake" /\ unanswered' = <<>>
      \/ /\ unanswered = Pedals!AcceleratorFirst /\ pedal = "accelerator"
         /\ unanswered' = <<"brake">>
  BY <1>1, Queues DEF Pedals!ChainTypeOK, Pedals!AcceleratorFirst
<1> HIDE DEF pedal
<1>6. Pedals!ChainTypeOK'
  BY <1>1, <1>4, <1>5 DEF Pedals!ChainTypeOK, TopicsTypeOK, Pedals!Safety!SourceTypeOK
<1>7. StopIsOfBoth'
  BY <1>1 DEF StopIsOfBoth
<1>8. OneMoreWord'
  <2> SUFFICES ASSUME BrakeWord' = "stop"
               PROVE  unanswered' = <<"brake">>
    BY DEF OneMoreWord, BrakeWord
  <2> QED
    BY <1>2, <1>4, <1>5
<1> QED
  BY <1>6, <1>7, <1>8

LEMMA PedalsStep ==
  ASSUME PedalsInv, [Pedals!Next]_(Pedals!vars)
  PROVE  PedalsInv'
<1> USE DEF PedalsInv
<1>1. CASE Pedals!ReceiveDesAccel
  <2>1. desired_accel' \in Seq({"accel"}) /\ Len(desired_accel') <= TopicDepth
    BY <1>1, TakeIsLast DEF Pedals!ReceiveDesAccel, Pedals!ChainTypeOK
  <2>2. UNCHANGED <<said, hunger, locked, unsaid, accelerator_cmd, brake_cmd, m_acc_cmd,
                    m_brake_cmd>>
    BY <1>1 DEF Pedals!ReceiveDesAccel, Pedals!safetyVars, Pedals!carVars
  <2>3. answer' \in Pedals!Answers /\ unanswered' = Pedals!AcceleratorFirst
    BY <1>1 DEF Pedals!ReceiveDesAccel
  <2>4. Pedals!ChainTypeOK'
    BY <2>1, <2>2, <2>3 DEF Pedals!ChainTypeOK, Pedals!Safety!SourceTypeOK
  <2>5. unanswered # <<"brake">>
    BY <1>1 DEF Pedals!ReceiveDesAccel
  <2> QED
    BY <2>2, <2>4, <2>5 DEF StopIsOfBoth, OneMoreWord
<1>2. CASE Pedals!DesAccelLost
  <2>1. desired_accel' \in Seq({"accel"}) /\ Len(desired_accel') <= TopicDepth
    BY <1>2, TakeIsLast DEF Pedals!DesAccelLost, Pedals!ChainTypeOK
  <2>2. UNCHANGED <<said, hunger, locked, unsaid, answer, unanswered, accelerator_cmd,
                    brake_cmd, m_acc_cmd, m_brake_cmd>>
    BY <1>2 DEF Pedals!DesAccelLost, Pedals!safetyVars, Pedals!accelVars, Pedals!carVars
  <2> QED
    BY <2>1, <2>2
    DEF Pedals!ChainTypeOK, Pedals!Safety!SourceTypeOK, StopIsOfBoth, OneMoreWord
<1>3. CASE Pedals!JoystickAcceleratorCmdCallback \/ Pedals!JoystickBrakeCmdCallback
  <2>1. /\ TopicsTypeOK'
        /\ BrakeWord' = BrakeWord
        /\ AcceleratorWord' = AcceleratorWord
    BY <1>3, QueuedWords, TakingKeepsWords
  <2>2. UNCHANGED <<said, hunger, locked, unsaid, answer, unanswered, desired_accel>>
    BY <1>3 DEF Pedals!JoystickAcceleratorCmdCallback, Pedals!JoystickBrakeCmdCallback,
                Pedals!safetyVars, Pedals!accelVars
  <2>3. Pedals!ChainTypeOK'
    BY <2>1, <2>2 DEF Pedals!ChainTypeOK, Pedals!Safety!SourceTypeOK, TopicsTypeOK
  <2>4. StopIsOfBoth' /\ OneMoreWord'
    BY <2>1, <2>2 DEF StopIsOfBoth, OneMoreWord, BrakeWord, AcceleratorWord
  <2> QED
    BY <2>3, <2>4
<1>4. CASE UNCHANGED Pedals!vars
  BY <1>4 DEF Pedals!vars, Pedals!safetyVars, Pedals!accelVars, Pedals!topicVars,
              Pedals!carVars, Pedals!ChainTypeOK, Pedals!Safety!SourceTypeOK,
              StopIsOfBoth, OneMoreWord
<1> QED
  BY <1>1, <1>2, <1>3, <1>4, RunKeepsPedals, RunPublishesKeepsPedals, AnswerKeepsPedals
  DEF Pedals!Next

LEMMA PedalsInvariant == Spec => []PedalsInv
<1>1. Init => PedalsInv
  <2> SUFFICES ASSUME Pedals!Init PROVE PedalsInv
    BY DEF Init
  <2>1. Pedals!Safety!SourceTypeOK
    <3>1. /\ said = [brake |-> "none", accelerator |-> "none", desired_accel |-> "no"]
          /\ hunger = 0 /\ locked = FALSE
      BY DEF Pedals!Init, Pedals!Safety!SourceInit, Pedals!Safety!Silence,
             Pedals!Safety!Saying
    <3>2. 0 \in 0 .. MaxHunger
      BY PedalNumbers
    <3> QED
      BY <3>1, <3>2
      DEF Pedals!Safety!SourceTypeOK, Pedals!Safety!Sayings, Pedals!Safety!Pedals
  <2>2. /\ desired_accel = <<>> /\ accelerator_cmd = <<>> /\ brake_cmd = <<>>
        /\ unsaid = <<>> /\ unanswered = <<>>
        /\ m_acc_cmd = "none" /\ m_brake_cmd = "none"
        /\ answer \in Pedals!Answers
    BY DEF Pedals!Init, Pedals!NoAnswer, Pedals!Answers
  <2>3. Pedals!ChainTypeOK
    BY <2>1, <2>2, PedalNumbers DEF Pedals!ChainTypeOK, Pedals!Words
  <2>4. StopIsOfBoth /\ OneMoreWord
    BY <2>2 DEF StopIsOfBoth, OneMoreWord, LastOf, Pedals!BrakeFirst
  <2> QED
    BY <2>3, <2>4 DEF PedalsInv
<1>2. PedalsInv /\ [Next]_vars => PedalsInv'
  BY StepOfMachines, PedalsStep
<1> QED
  BY <1>1, <1>2, PTL DEF Spec

\* However long the topics, and however the publications of the safety layer and
\* of the acceleration controller mix on them: once nothing is under way, the car
\* has not the brake of the one and the throttle of the other.
THEOREM PedalsAreNotFought == Spec => []PedalsNotFought
<1>1. PedalsInv => PedalsNotFought
  BY DEF PedalsInv, OneMoreWord, LastOf, PedalsNotFought, Pedals!PedalsNotFought,
         Pedals!AtRest
<1> QED
  BY <1>1, PedalsInvariant, PTL

-----------------------------------------------------------------------------
(* The types of the machines.                                              *)

LEMMA GearType ==
  ASSUME Gear!TypeOK, [Gear!Next]_(Gear!vars)
  PROVE  Gear!TypeOK'
<1> USE DEF Gear!TypeOK, Gear!Gears
<1>1. TopGear \in Nat \ {0} /\ ShiftLimit \in Nat
  BY VehicleAssumption DEF Gear!GearConstants
<1>2. CASE Gear!ShiftUp
  BY <1>1, <1>2 DEF Gear!ShiftUp, Gear!ShiftTo, Gear!WantsUp, Gear!Denied, Gear!inputVars
<1>3. CASE Gear!ShiftDown
  BY <1>1, <1>3 DEF Gear!ShiftDown, Gear!ShiftTo, Gear!WantsDown, Gear!Denied, Gear!inputVars
<1>4. CASE Gear!ShiftDenied
  BY <1>1, <1>4 DEF Gear!ShiftDenied, Gear!CountAfterDenial, Gear!inputVars
<1>5. CASE Gear!ShiftStays
  BY <1>1, <1>5 DEF Gear!ShiftStays, Gear!inputVars
<1>6. ASSUME NEW gear \in 0 .. TopGear, NEW running \in BOOLEAN,
             Gear!ReceivePtReport(gear, running)
      PROVE  Gear!TypeOK'
  BY <1>6 DEF Gear!ReceivePtReport, Gear!shiftVars
<1>7. ASSUME NEW mps \in GearSpeeds, Gear!ReceiveVelocity(mps)
      PROVE  Gear!TypeOK'
  BY <1>7 DEF Gear!ReceiveVelocity
<1>8. ASSUME NEW pressed \in BOOLEAN, Gear!ReceivePedals(pressed)
      PROVE  Gear!TypeOK'
  BY <1>8 DEF Gear!ReceivePedals, Gear!shiftVars
<1>9. CASE UNCHANGED Gear!vars
  BY <1>9 DEF Gear!vars, Gear!shiftVars, Gear!inputVars
<1> QED
  BY <1>2, <1>3, <1>4, <1>5, <1>6, <1>7, <1>8, <1>9 DEF Gear!Next, Gear!Shift

LEMMA BrakingType ==
  ASSUME BrakingInv, Braking!TypeOK, [Braking!Next]_(Braking!vars)
  PROVE  Braking!TypeOK'
<1> USE DEF Braking!TypeOK
<1>1. /\ speed_mps' \in BrakeSpeeds
      /\ elapsed' \in 0 .. HardBrakingTime
      /\ braking_control_cmd' \in 0 .. FullBrake
      /\ init_vel' \in BrakeSpeeds \cup {-1}
      /\ safe_braking_time' \in {-1, SoftBrakingTime, HardBrakingTime}
  BY BrakingStep DEF BrakingInv
<1>2. vel_age' \in 0 .. VelTimeout
  <2>1. VelTimeout \in Nat \ {0}
    BY VehicleAssumption DEF Braking!BrakingConstants
  <2>2. vel_age' \in {vel_age, 0} \/ vel_age' = Braking!Least(vel_age + 1, VelTimeout)
    BY DEF Braking!Next, Braking!EmergencyRun, Braking!NominalRun,
           Braking!ReceiveVelocity, Braking!Tick, Braking!vars
  <2> QED
    BY <2>1, <2>2 DEF Braking!Least
<1>3. measured' \in 0 .. FullBrake
  BY BrakingStep DEF BrakingInv
<1>4. emergency' \in BOOLEAN /\ seen' \in BrakeSpeeds \cup {-1}
  BY DEF Braking!Next, Braking!EmergencyRun, Braking!BlindRun, Braking!ProfiledRun,
         Braking!NominalRun, Braking!ReceiveVelocity, Braking!Tick, Braking!vars
<1>5. due' \in 0 .. HardBrakingTime
  <2>1. HardBrakingTime \in Nat /\ due \in 0 .. HardBrakingTime
    BY BrakingNumbers
  <2>2. due' \in {due, 0, HardBrakingTime, Braking!Greatest(due - 1, 0)}
    BY DEF Braking!Next, Braking!EmergencyRun, Braking!BlindRun, Braking!ProfiledRun,
           Braking!NominalRun, Braking!ReceiveVelocity, Braking!Tick, Braking!vars
  <2> QED
    BY <2>1, <2>2 DEF Braking!Greatest
<1> QED
  BY <1>1, <1>2, <1>3, <1>4, <1>5

LEMMA SscType ==
  ASSUME Ssc!TypeOK, [Ssc!Next]_(Ssc!vars)
  PROVE  Ssc!TypeOK'
<1> USE DEF Ssc!TypeOK, Ssc!DbwStates, Ssc!DisableAndReset
<1>1. ASSUME NEW enable \in BOOLEAN, Ssc!UserRequest(enable)
      PROVE  Ssc!TypeOK'
  <2>1. 0 \in 0 .. DISABLED_FEEDBACK_THRESH
    BY VehicleAssumption DEF Ssc!DbwConstants
  <2> QED
    BY <1>1, <2>1 DEF Ssc!UserRequest
<1>2. ASSUME NEW enabled \in BOOLEAN, Ssc!DbwFeedback(enabled)
      PROVE  Ssc!TypeOK'
  <2>1. DISABLED_FEEDBACK_THRESH \in Nat
    BY VehicleAssumption DEF Ssc!DbwConstants
  <2>2. m_disabled_feedback_count' \in 0 .. DISABLED_FEEDBACK_THRESH
    BY <1>2, <2>1 DEF Ssc!DbwFeedback, Ssc!TurnsOff, Ssc!NextCount
  <2> QED
    BY <1>2, <2>2 DEF Ssc!DbwFeedback
<1>3. CASE Ssc!StateCommandCallback
  BY <1>3 DEF Ssc!StateCommandCallback
<1>4. CASE Ssc!OnCommandMessage
  BY <1>4 DEF Ssc!OnCommandMessage, Ssc!ControlCmdSent, Ssc!SendStateCommand, Ssc!BothSent
<1>5. CASE UNCHANGED Ssc!vars
  BY <1>5 DEF Ssc!vars
<1> QED
  BY <1>1, <1>2, <1>3, <1>4, <1>5 DEF Ssc!Next

LEMMA SpeedType ==
  ASSUME Speed!TypeOK, [Speed!Next]_(Speed!vars)
  PROVE  Speed!TypeOK'
<1> USE DEF Speed!TypeOK, Speed!Velocities, Speed!NoVelocity
<1>1. TopVelocity \in Nat /\ SpeedPathTimeout \in Nat \ {0}
  BY VehicleAssumption DEF Speed!SpeedConstants
<1>2. ASSUME NEW velocity \in 0 .. TopVelocity, Speed!Mission(velocity)
      PROVE  Speed!TypeOK'
  BY <1>2 DEF Speed!Mission, Speed!velocityVars
<1>3. CASE Speed!AfterSystemStatusCallback
  BY <1>3 DEF Speed!AfterSystemStatusCallback
<1>4. ASSUME NEW points \in BOOLEAN, Speed!PathCallback(points)
      PROVE  Speed!TypeOK'
  BY <1>1, <1>4 DEF Speed!PathCallback
<1>5. ASSUME NEW odometry \in BOOLEAN, NEW heard \in BOOLEAN, NEW autonomy \in BOOLEAN,
             NEW planned \in 0 .. TopVelocity, Speed!Run(odometry, heard, autonomy, planned)
      PROVE  Speed!TypeOK'
  <2> DEFINE target == IF Speed!ValidPath /\ odometry THEN planned ELSE 0
  <2>1. /\ desired_velocity_prev' = Speed!SmoothSignal(desired_velocity_prev, target)
        /\ des_vel' = desired_velocity_prev'
        /\ planner_status' \in {"OK", "ERROR"}
        /\ UNCHANGED <<max_velocity, m_max_vel_mps, path_age, path_points,
                       direct_desired_velocity>>
    BY <1>5 DEF Speed!Run
  <2>2. target \in 0 .. TopVelocity
    BY <1>1
  <2> HIDE DEF target
  <2>3. Speed!SmoothSignal(desired_velocity_prev, target) \in 0 .. TopVelocity
    BY <1>1, <2>2 DEF Speed!SmoothSignal
  <2> QED
    BY <2>1, <2>3
<1>6. CASE Speed!DirectDesiredVelocityCallback
  BY <1>6 DEF Speed!DirectDesiredVelocityCallback, Speed!velocityVars
<1>7. CASE Speed!Tick
  BY <1>1, <1>7 DEF Speed!Tick
<1>8. CASE UNCHANGED Speed!vars
  BY <1>8 DEF Speed!vars, Speed!velocityVars
<1> QED
  BY <1>2, <1>3, <1>4, <1>5, <1>6, <1>7, <1>8 DEF Speed!Next, Speed!Runs

LEMMA FlagsTopics ==
  ASSUME NEW Messages, NEW topic \in Seq(Messages), Len(topic) <= FlagDepth
  PROVE  /\ \A msg \in Messages : /\ Flags!Publish(topic, msg) \in Seq(Messages)
                                  /\ Len(Flags!Publish(topic, msg)) <= FlagDepth
         /\ topic # <<>> => /\ Tail(topic) \in Seq(Messages)
                            /\ Len(Tail(topic)) <= FlagDepth
<1>1. FlagDepth \in Nat \ {0}
  BY VehicleAssumption DEF Flags!FlagsConstants
<1>2. ASSUME NEW msg \in Messages
      PROVE  /\ Flags!Publish(topic, msg) \in Seq(Messages)
             /\ Len(Flags!Publish(topic, msg)) <= FlagDepth
  <2>1. CASE Len(topic) < FlagDepth
    BY <1>1, <2>1 DEF Flags!Publish
  <2>2. CASE ~(Len(topic) < FlagDepth)
    <3>1. Tail(topic) \in Seq(Messages) /\ Len(Tail(topic)) = FlagDepth - 1
      BY <1>1, <2>2
    <3> QED
      BY <1>1, <2>2, <3>1 DEF Flags!Publish
  <2> QED
    BY <2>1, <2>2
<1>3. topic # <<>> => Tail(topic) \in Seq(Messages) /\ Len(Tail(topic)) <= FlagDepth
  BY <1>1
<1> QED
  BY <1>2, <1>3

LEMMA FlagsType ==
  ASSUME FlagsInv, Flags!TypeOK, [Flags!Next]_(Flags!vars)
  PROVE  Flags!TypeOK'
<1> USE DEF Flags!TypeOK
<1>1. ASSUME NEW summary \in Summaries, Flags!RecvSummary(summary)
      PROVE  Flags!TypeOK'
  <2>1. summary.track_flag \in Nat
    BY VehicleAssumption DEF Flags!FlagsConstants
  <2>2. UNCHANGED <<m_rec_track_cond, m_rec_veh_signal, ct_current_mode, counter_ct>>
    BY <1>1 DEF Flags!RecvSummary, Flags!sscVars, Flags!ctVars
  <2>3. /\ flag_summary' \in Seq(Summaries) /\ Len(flag_summary') <= FlagDepth
        /\ rc_to_ct' \in Seq(Nat) /\ Len(rc_to_ct') <= FlagDepth
    BY <1>1, <2>1, FlagsTopics DEF Flags!RecvSummary
  <2> QED
    BY <1>1, <2>1, <2>2, <2>3 DEF Flags!RecvSummary
<1>2. CASE Flags!FlagSummaryCallback
  <2>1. /\ m_rec_track_cond' \in Flags!TrackConds
        /\ m_rec_veh_signal' \in Flags!VehSignals
        /\ UNCHANGED <<rc_to_ct, on_track, shown, ct_current_mode, counter_ct>>
    BY <1>2 DEF Flags!FlagSummaryCallback, Flags!ctVars
  <2>2. flag_summary' \in Seq(Summaries) /\ Len(flag_summary') <= FlagDepth
    BY <1>2, FlagsTopics DEF Flags!FlagSummaryCallback
  <2> QED
    BY <2>1, <2>2
<1>3. CASE Flags!RcToCtCallback
  <2>1. /\ m_rec_track_cond' \in Flags!TrackConds
        /\ m_rec_veh_signal' = Flags!NO_SIGNAL
        /\ UNCHANGED <<flag_summary, on_track, shown, ct_current_mode, counter_ct>>
    BY <1>3 DEF Flags!RcToCtCallback, Flags!RcTrackCond, Flags!ctVars
  <2>2. rc_to_ct' \in Seq(Nat) /\ Len(rc_to_ct') <= FlagDepth
    BY <1>3, FlagsTopics DEF Flags!RcToCtCallback
  <2> QED
    BY <2>1, <2>2 DEF Flags!NO_SIGNAL, Flags!VehSignals
<1>4. CASE Flags!MiscReport
  <2>1. UNCHANGED <<flag_summary, rc_to_ct, on_track, shown, m_rec_track_cond,
                    m_rec_veh_signal>>
    BY <1>4 DEF Flags!MiscReport, Flags!MiscReportCallback, Flags!topicVars, Flags!sscVars
  <2>2. counter_ct' = 1 - counter_ct
    BY <1>4 DEF Flags!MiscReport, Flags!MiscReportCallback
  <2>3. ct_current_mode' \in Flags!CtModes
    BY FlagsStep DEF FlagsInv
  <2> QED
    BY <2>1, <2>2, <2>3
<1>5. CASE UNCHANGED Flags!vars
  BY <1>5 DEF Flags!vars, Flags!topicVars, Flags!sscVars, Flags!ctVars
<1> QED
  BY <1>1, <1>2, <1>3, <1>4, <1>5 DEF Flags!Next, Flags!RecvSummaries

\* A plan of lines the planner knows.
PlanTypeOK(plan) ==
  plan \in [line : Planner!Lines \cup {"none"},
            alias : Planner!Lines \cup {"none", "race_ready"},
            reset : Planner!Lines \cup {"none"}]

LEMMA PlansAreTyped ==
  ASSUME Planner!TypeOK
  PROVE  /\ PlanTypeOK(Planner!Plan)
         /\ \A new \in Planner!Lines : /\ PlanTypeOK(Planner!Onto(new))
                                       /\ PlanTypeOK(Planner!Base(new))
         /\ PlanTypeOK(Planner!Pitted(Planner!Plan))
<1>1. PlanTypeOK(Planner!Plan)
  BY DEF Planner!TypeOK, PlanTypeOK, Planner!Plan
<1>2. \A new \in Planner!Lines : PlanTypeOK(Planner!Onto(new))
  BY DEF PlanTypeOK, Planner!Onto
<1>3. PlanTypeOK(Planner!Pitted(Planner!Plan))
  BY <1>1 DEF PlanTypeOK, Planner!Pitted
<1> QED
  BY <1>1, <1>2, <1>3 DEF Planner!Base

LEMMA SwitchedIsTyped ==
  ASSUME NEW plan, PlanTypeOK(plan), NEW passed
  PROVE  PlanTypeOK(Planner!Switched(plan, passed))
BY DEF PlanTypeOK, Planner!Switched

LEMMA PlannerType ==
  ASSUME Planner!TypeOK, [Planner!Next]_(Planner!vars)
  PROVE  Planner!TypeOK'
<1> DEFINE Laterals      == {"KEEP", "MERGE", "CHANGE_PATH"}
           Longitudinals == {"STRAIGHT", "FOLLOW", "ESTOP"}
<1>l. {"raceline", "defender", "stay_behind"} \cup Candidates \subseteq Planner!Lines
  BY DEF Planner!Lines
<1>1. ASSUME NEW plan, PlanTypeOK(plan),
             NEW lat_type \in Laterals, NEW longi_type \in Longitudinals,
             Planner!Planned(plan, lat_type, longi_type), Planner!Refresh,
             defender_first' \in BOOLEAN
      PROVE  Planner!TypeOK'
  BY <1>1 DEF Planner!TypeOK, PlanTypeOK, Planner!Planned, Planner!Refresh, Planner!Watched
<1>2. CASE Planner!RunPit
  BY <1>1, <1>2, PlansAreTyped DEF Planner!RunPit
<1>3. ASSUME NEW passed \in BOOLEAN, NEW zone \in Planner!Zones, NEW far \in BOOLEAN,
             NEW generated \in BOOLEAN, Planner!RunRace(passed, zone, far, generated)
      PROVE  Planner!TypeOK'
  <2> DEFINE plan == Planner!Switched(Planner!Base("raceline"), passed)
  <2>1. PlanTypeOK(plan)
    BY <1>l, PlansAreTyped, SwitchedIsTyped
  <2>2. /\ defender_first' = TRUE /\ Planner!Refresh
        /\ \/ Planner!Estop(Planner!Plan)
           \/ Planner!Planned(Planner!Onto("raceline"), "MERGE", "STRAIGHT")
           \/ Planner!Estop(plan)
           \/ Planner!KeepsOrPasses(plan, zone, generated)
    BY <1>3 DEF Planner!RunRace
  <2> HIDE DEF plan
  <2>3. CASE Planner!KeepsOrPasses(plan, zone, generated)
    <3>1. \/ \E longi_type \in {"STRAIGHT", "FOLLOW"} :
               Planner!Planned(plan, "KEEP", longi_type)
          \/ \E candidate \in Candidates :
               Planner!Planned(Planner!Onto(candidate), "CHANGE_PATH", "STRAIGHT")
      BY <2>3 DEF Planner!KeepsOrPasses
    <3> QED
      BY <1>1, <1>l, <2>1, <2>2, <3>1, PlansAreTyped
  <2> QED
    BY <1>1, <1>l, <2>1, <2>2, <2>3, PlansAreTyped DEF Planner!Estop
<1>4. ASSUME NEW passed \in BOOLEAN, NEW generated \in BOOLEAN,
             Planner!RunConstantSpeed(passed, generated)
      PROVE  Planner!TypeOK'
  <2> DEFINE first == defender_first \/ line = "none"
             base  == IF first THEN Planner!Onto("defender") ELSE Planner!Plan
             plan  == Planner!Switched(base, passed)
  <2>1. PlanTypeOK(plan)
    BY <1>l, PlansAreTyped, SwitchedIsTyped
  <2>2. /\ defender_first' = FALSE /\ Planner!Refresh
        /\ \/ Planner!Estop(Planner!Plan)
           \/ Planner!Planned(plan, "KEEP", "FOLLOW")
    BY <1>4 DEF Planner!RunConstantSpeed
  <2> HIDE DEF plan
  <2> QED
    BY <1>1, <2>1, <2>2, PlansAreTyped DEF Planner!Estop
<1>5. ASSUME NEW passed \in BOOLEAN, NEW zone \in Planner!Zones, NEW close \in BOOLEAN,
             NEW generated \in BOOLEAN, Planner!RunOther(passed, zone, close, generated)
      PROVE  Planner!TypeOK'
  <2> DEFINE plan == Planner!Switched(Planner!Base("raceline"), passed)
  <2>1. PlanTypeOK(plan)
    BY <1>l, PlansAreTyped, SwitchedIsTyped
  <2>2. /\ defender_first' = TRUE /\ Planner!Refresh
        /\ \/ Planner!Estop(Planner!Plan)
           \/ Planner!Planned(Planner!Onto("stay_behind"), "MERGE", "STRAIGHT")
           \/ Planner!Estop(plan)
           \/ Planner!Planned(plan, "KEEP", "FOLLOW")
    BY <1>5 DEF Planner!RunOther
  <2> HIDE DEF plan
  <2> QED
    BY <1>1, <1>l, <2>1, <2>2, PlansAreTyped DEF Planner!Estop
<1>6. CASE Planner!RunWaiting
  BY <1>6 DEF Planner!RunWaiting, Planner!Refresh, Planner!Watched, Planner!TypeOK
<1>7. CASE \/ Planner!PredictionResultCallback \/ Planner!Tick
           \/ Planner!SystemStatus \/ UNCHANGED Planner!vars
  BY <1>7 DEF Planner!PredictionResultCallback, Planner!Tick, Planner!SystemStatus,
              Planner!vars, Planner!TypeOK
<1> QED
  BY <1>2, <1>3, <1>4, <1>5, <1>6, <1>7 DEF Planner!Next, Planner!Run

\* What a run may decide: to correct with what, and to say what.
DecisionTypeOK(decision) ==
  decision \in [from : Location!Corrections, code : Location!Codes, update : BOOLEAN]

LEMMA DecisionsAreTyped ==
  ASSUME NEW converged, NEW choice \in Location!Choices(converged)
  PROVE  DecisionTypeOK(Location!Decided(choice, converged))
<1> USE DEF DecisionTypeOK, Location!Codes, Location!Corrections
<1>1. DecisionTypeOK(choice)
  <2>1. choice.from \in Location!Corrections
    BY DEF Location!Choices, Location!BestCorrection, Location!Choice
  <2>2. choice.code \in Location!Codes
    BY DEF Location!Choices, Location!BestCorrection, Location!Choice
  <2>3. choice.update = TRUE \/ choice.update = FALSE
    BY DEF Location!Choices, Location!BestCorrection, Location!Choice
  <2>4. choice = [from |-> choice.from, code |-> choice.code, update |-> choice.update]
    BY DEF Location!Choices, Location!BestCorrection, Location!Choice
  <2> QED
    BY <2>1, <2>2, <2>3, <2>4
<1>2. /\ DecisionTypeOK([choice EXCEPT !.code = "NO_CONVERGED", !.update = TRUE])
      /\ DecisionTypeOK([choice EXCEPT !.code = "GPS_HIGH_ERROR", !.update = FALSE])
  BY <1>1
<1> QED
  BY <1>1, <1>2 DEF Location!Decided

LEMMA LocationType ==
  ASSUME Location!TypeOK, [Location!Next]_(Location!vars)
  PROVE  Location!TypeOK'
<1> USE DEF Location!TypeOK, Location!Receivers, Location!Ages
<1>n. GpsTimeout \in Nat
  BY VehicleAssumption DEF Location!LocalizationConstants
<1>1. ASSUME NEW near \in BOOLEAN, Location!Run(near)
      PROVE  Location!TypeOK'
  <2>1. /\ UNCHANGED <<received, noise, imu_age, bImuFirstCall, heading>>
        /\ node_status' \in {"OK", "ERROR"}
        /\ gps_age' = IF received["bottom"] THEN gps_age
                        ELSE [gps_age EXCEPT !["bottom"] = gps_age["top"]]
    BY <1>1 DEF Location!Run
  <2>2. bInitConverged' \in BOOLEAN
    BY <1>1 DEF Location!Run, Location!Converges
  <2>3. PICK choice \in Location!Choices(bInitConverged') :
          LET decision == Location!Decided(choice, bInitConverged')
          IN code' = decision.code /\ Location!Corrected(decision)
    BY <1>1 DEF Location!Run
  <2> DEFINE decision == Location!Decided(choice, bInitConverged')
  <2>4. DecisionTypeOK(decision)
    BY DecisionsAreTyped
  <2>5. code' = decision.code /\ Location!Corrected(decision)
    BY <2>3
  <2> HIDE DEF decision
  <2>6. /\ corrected' \in Location!Corrections
        /\ gps_update' \in [{"bottom", "top"} -> BOOLEAN]
    BY <2>4, <2>5 DEF Location!Corrected, DecisionTypeOK, Location!Corrections
  <2>7. code' \in Location!Codes
    BY <2>4, <2>5 DEF DecisionTypeOK
  <2>8. gps_age' \in [{"bottom", "top"} -> 0 .. GpsTimeout]
    BY <2>1
  <2> QED
    BY <2>1, <2>2, <2>6, <2>7, <2>8
<1>2. ASSUME NEW receiver \in {"bottom", "top"}, NEW solved \in BOOLEAN,
             Location!BestPos(receiver, solved)
      PROVE  Location!TypeOK'
  <2>1. 0 \in 0 .. GpsTimeout
    BY <1>n
  <2> QED
    BY <1>2, <2>1 DEF Location!BestPos, Location!outVars
<1>3. ASSUME NEW receiver \in {"bottom", "top"}, NEW value \in Noises,
             Location!InsStdev(receiver, value)
      PROVE  Location!TypeOK'
  BY <1>3 DEF Location!InsStdev, Location!outVars
<1>4. CASE Location!Heading \/ UNCHANGED Location!vars
  BY <1>4 DEF Location!Heading, Location!vars, Location!sensorVars, Location!outVars
<1>5. CASE Location!Imu
  BY <1>n, <1>5 DEF Location!Imu, Location!outVars
<1>6. CASE Location!Tick
  <2>1. \A age \in 0 .. GpsTimeout : Location!Older(age) \in 0 .. GpsTimeout
    BY <1>n DEF Location!Older
  <2>2. /\ gps_age' = [r \in {"bottom", "top"} |-> Location!Older(gps_age[r])]
        /\ imu_age' = Location!Older(imu_age)
        /\ UNCHANGED <<received, gps_update, noise, bImuFirstCall, heading, bInitConverged,
                       node_status, code, corrected>>
    BY <1>6 DEF Location!Tick, Location!outVars
  <2> QED
    BY <2>1, <2>2
<1> QED
  BY <1>1, <1>2, <1>3, <1>4, <1>5, <1>6
  DEF Location!Next, Location!Runs, Location!Messages

\* What each machine needs of its own state to keep its type.
TypeInv ==
  /\ focus \in Machines
  /\ Gear!TypeOK
  /\ BrakingInv /\ Braking!TypeOK
  /\ Ssc!TypeOK
  /\ FlagsInv /\ Flags!TypeOK
  /\ Planner!TypeOK
  /\ Location!TypeOK
  /\ Speed!TypeOK

LEMMA InitTypes ==
  ASSUME Init
  PROVE  TypeInv
<1>i. /\ focus \in Machines
      /\ Gear!Init /\ Braking!Init /\ Ssc!Init /\ Flags!Init
      /\ Planner!Init /\ Location!Init /\ Speed!Init
  BY DEF Init
<1>1. focus \in Machines
  BY <1>i
<1>2. Gear!TypeOK
  <2>1. TopGear \in Nat \ {0} /\ ShiftLimit \in Nat /\ 0 \in GearSpeeds
    BY VehicleAssumption DEF Gear!GearConstants
  <2>2. /\ 1 \in 1 .. TopGear /\ 0 \in 0 .. ShiftLimit /\ {0, 1} \subseteq 0 .. TopGear
        /\ FALSE \in BOOLEAN
    BY <2>1
  <2> QED
    BY <1>i, <2>1, <2>2, Zenon DEF Gear!Init, Gear!TypeOK, Gear!Gears
<1>3. BrakingInv /\ Braking!TypeOK
  <2>1. VelTimeout \in Nat /\ 0 \in BrakeSpeeds
    BY VehicleAssumption DEF Braking!BrakingConstants
  <2>2. /\ speed_mps = 0 /\ vel_age = VelTimeout
        /\ init_vel = -1 /\ safe_braking_time = -1 /\ elapsed = 0
        /\ braking_control_cmd = 0
        /\ emergency = FALSE /\ seen = -1 /\ measured = 0 /\ due = 0
    BY <1>i DEF Braking!Init
  <2>3. Braking!TypeOK
    <3>1. /\ VelTimeout \in 0 .. VelTimeout /\ 0 \in 0 .. HardBrakingTime
          /\ 0 \in 0 .. FullBrake /\ FALSE \in BOOLEAN
      BY <2>1, BrakingNumbers
    <3> QED
      BY <2>1, <2>2, <3>1, Zenon DEF Braking!TypeOK
  <2> QED
    BY <2>1, <2>2, <2>3, BrakingNumbers DEF BrakingInv, Braking!TypeOK
<1>4. Ssc!TypeOK
  <2>1. 0 \in 0 .. DISABLED_FEEDBACK_THRESH
    BY VehicleAssumption DEF Ssc!DbwConstants
  <2> QED
    BY <1>i, <2>1 DEF Ssc!Init, Ssc!TypeOK, Ssc!DbwStates
<1>5. FlagsInv /\ Flags!TypeOK
  <2>1. FlagDepth \in Nat
    BY VehicleAssumption DEF Flags!FlagsConstants
  <2> QED
    BY <1>i, <2>1 DEF Flags!Init, FlagsInv, Flags!TypeOK, Flags!CtModes
<1>6. Planner!TypeOK
  BY <1>i DEF Planner!Init, Planner!TypeOK, Planner!Missions
<1>7. Location!TypeOK
  <2>1. GpsTimeout \in Nat
    BY VehicleAssumption DEF Location!LocalizationConstants
  <2> QED
    <3>1. GpsTimeout \in 0 .. GpsTimeout
      BY <2>1
    <3> QED
      BY <1>i, <3>1 DEF Location!Init, Location!TypeOK, Location!Ages, Location!Codes,
                        Location!Corrections
<1>8. Speed!TypeOK
  <2>1. TopVelocity \in Nat /\ SpeedPathTimeout \in Nat
    BY VehicleAssumption DEF Speed!SpeedConstants
  <2> QED
    <3>1. /\ 0 \in 0 .. TopVelocity /\ TopVelocity \in 0 .. TopVelocity
          /\ SpeedPathTimeout \in 0 .. SpeedPathTimeout /\ FALSE \in BOOLEAN
      BY <2>1
    <3> QED
      BY <1>i, <3>1, Zenon DEF Speed!Init, Speed!TypeOK, Speed!Velocities, Speed!NoVelocity
<1> QED
  BY <1>1, <1>2, <1>3, <1>4, <1>5, <1>6, <1>7, <1>8 DEF TypeInv

LEMMA FocusStays ==
  ASSUME [Next]_vars
  PROVE  focus' = focus
BY DEF Next, PedalsNext, GearNext, BrakingNext, SscNext, RaptorNext, FlagsNext,
       PlannerNext, LocalizationNext, CruiseNext, SpeedNext, vars

\* Each variable of each machine keeps its type: no topic outgrows its depth,
\* no count its limit, the gear commanded is one the car has, and the planner's
\* lines are lines of the track.
THEOREM VehicleTypeCorrect == Spec => []TypeOK
<1>1. Init => TypeInv
  BY InitTypes
<1>2. TypeInv /\ [Next]_vars => TypeInv'
  <2> SUFFICES ASSUME TypeInv, [Next]_vars PROVE TypeInv'
    OBVIOUS
  <2>1. focus' \in Machines
    BY FocusStays DEF TypeInv
  <2>2. BrakingInv' /\ FlagsInv'
    BY StepOfMachines, BrakingStep, FlagsStep DEF TypeInv
  <2>3. /\ Gear!TypeOK' /\ Braking!TypeOK' /\ Ssc!TypeOK' /\ Flags!TypeOK'
        /\ Planner!TypeOK' /\ Location!TypeOK' /\ Speed!TypeOK'
    BY StepOfMachines, GearType, BrakingType, SscType, FlagsType, PlannerType,
       LocationType, SpeedType
    DEF TypeInv
  <2> QED
    BY <2>1, <2>2, <2>3 DEF TypeInv
<1>3. TypeInv /\ PedalsInv /\ RaptorInv /\ CruiseInv => TypeOK
  BY DEF TypeInv, PedalsInv, RaptorInv, CruiseInv, TypeOK
<1> QED
  BY <1>1, <1>2, <1>3, PedalsInvariant, RaptorInvariant, CruiseInvariant, PTL DEF Spec

-----------------------------------------------------------------------------
(* What the liveness properties need to stay: the state that each of them  *)
(* ends in is not left.  That it is reached is for TLC.                    *)

\* Nothing but red is known of the track, or on its way.
OnlyRed ==
  /\ m_rec_track_cond = Flags!RED
  /\ \A i \in DOMAIN flag_summary : flag_summary[i].track_flag = Flags!RED
  /\ \A i \in DOMAIN rc_to_ct : rc_to_ct[i] = Flags!RED

\* RedStops, once it is reached: while race control shows red, a car that is
\* neither in caution nor in the race stays so.
RedHolds ==
  [][OnlyRed /\ on_track'.track_flag = Flags!RED =>
       /\ OnlyRed'
       /\ ct_current_mode \notin {8, 9} => ct_current_mode' \notin {8, 9}]_vars

\* A topic keeps its messages, but for the first, and has the new one.
LEMMA PublishedMessages ==
  ASSUME NEW S, NEW topic \in Seq(S), NEW msg \in S,
         NEW i \in DOMAIN Flags!Publish(topic, msg)
  PROVE  \/ Flags!Publish(topic, msg)[i] = msg
         \/ \E j \in DOMAIN topic : Flags!Publish(topic, msg)[i] = topic[j]
<1> DEFINE full == Append(Tail(topic), msg)
<1>1. CASE Len(topic) < FlagDepth
  BY <1>1, AppendProperties DEF Flags!Publish
<1>2. CASE ~(Len(topic) < FlagDepth) /\ topic # <<>>
  <2>1. /\ Tail(topic) \in Seq(S) /\ Len(Tail(topic)) = Len(topic) - 1
        /\ \A j \in 1 .. Len(topic) - 1 : Tail(topic)[j] = topic[j + 1]
        /\ Len(topic) \in Nat \ {0}
    BY <1>2
  <2>2. /\ Len(full) = Len(topic) /\ full[Len(topic)] = msg
        /\ \A j \in 1 .. Len(topic) - 1 : full[j] = topic[j + 1]
    BY <2>1, AppendProperties
  <2>3. Flags!Publish(topic, msg) = full /\ full \in Seq(S)
    BY <1>2, <2>1, AppendProperties DEF Flags!Publish
  <2>4. i \in 1 .. Len(topic)
    BY <2>2, <2>3
  <2>5. CASE i = Len(topic)
    BY <2>2, <2>3, <2>5
  <2>6. ASSUME i \in 1 .. Len(topic) - 1
        PROVE  full[i] = topic[i + 1] /\ i + 1 \in DOMAIN topic
    <3> HIDE DEF full
    <3>1. full[i] = topic[i + 1]
      BY <2>2, <2>6
    <3>2. DOMAIN topic = 1 .. Len(topic)
      OBVIOUS
    <3> QED
      BY <2>1, <2>6, <3>1, <3>2
  <2>7. i = Len(topic) \/ i \in 1 .. Len(topic) - 1
    BY <2>1, <2>4
  <2> HIDE DEF full
  <2> QED
    BY <2>3, <2>5, <2>6, <2>7
<1>3. CASE topic = <<>> /\ ~(Len(topic) < FlagDepth)
  <2>1. FlagDepth \in Nat \ {0}
    BY VehicleAssumption DEF Flags!FlagsConstants
  <2> QED
    BY <1>3, <2>1
<1> QED
  BY <1>1, <1>2, <1>3

LEMMA RedStep ==
  ASSUME Flags!TypeOK, [Flags!Next]_(Flags!vars), OnlyRed,
         on_track'.track_flag = Flags!RED
  PROVE  /\ OnlyRed'
         /\ ct_current_mode \notin {8, 9} => ct_current_mode' \notin {8, 9}
<1> DEFINE Off == ct_current_mode \notin {8, 9} => ct_current_mode' \notin {8, 9}
<1> USE DEF OnlyRed, Flags!RED
<1>1. ASSUME NEW summary \in Summaries, Flags!RecvSummary(summary)
      PROVE  OnlyRed' /\ Off
  <2>1. /\ flag_summary \in Seq(Summaries) /\ rc_to_ct \in Seq(Nat)
        /\ summary.track_flag = 1
    BY <1>1 DEF Flags!TypeOK, Flags!RecvSummary
  <2>2. /\ flag_summary' = Flags!Publish(flag_summary, summary)
        /\ rc_to_ct' = Flags!Publish(rc_to_ct, 1)
        /\ UNCHANGED <<m_rec_track_cond, ct_current_mode>>
    BY <1>1, <2>1 DEF Flags!RecvSummary, Flags!sscVars, Flags!ctVars
  <2>3. \A i \in DOMAIN flag_summary' : flag_summary'[i].track_flag = 1
    <3> SUFFICES ASSUME NEW i \in DOMAIN flag_summary'
                 PROVE  flag_summary'[i].track_flag = 1
      OBVIOUS
    <3> QED
      BY <2>1, <2>2, PublishedMessages
  <2>4. \A i \in DOMAIN rc_to_ct' : rc_to_ct'[i] = 1
    <3> SUFFICES ASSUME NEW i \in DOMAIN rc_to_ct'
                 PROVE  rc_to_ct'[i] = 1
      OBVIOUS
    <3>1. 1 \in Nat
      OBVIOUS
    <3> QED
      BY <2>1, <2>2, <3>1, PublishedMessages
  <2> QED
    BY <2>2, <2>3, <2>4
<1>2. CASE Flags!FlagSummaryCallback
  <2>1. /\ flag_summary \in Seq(Summaries) /\ flag_summary # <<>>
        /\ flag_summary' = Tail(flag_summary)
        /\ UNCHANGED <<rc_to_ct, ct_current_mode>>
    BY <1>2 DEF Flags!TypeOK, Flags!FlagSummaryCallback, Flags!ctVars
  <2>2. Head(flag_summary).track_flag = 1
    BY <2>1
  <2>3. m_rec_track_cond' = 1
    BY <1>2, <2>2 DEF Flags!FlagSummaryCallback
  <2>4. \A i \in DOMAIN Tail(flag_summary) : Tail(flag_summary)[i].track_flag = 1
    BY <2>1
  <2> QED
    BY <2>1, <2>3, <2>4
<1>3. CASE Flags!RcToCtCallback
  <2>1. /\ rc_to_ct \in Seq(Nat) /\ rc_to_ct # <<>>
        /\ rc_to_ct' = Tail(rc_to_ct)
        /\ UNCHANGED <<flag_summary, ct_current_mode>>
    BY <1>3 DEF Flags!TypeOK, Flags!RcToCtCallback, Flags!ctVars
  <2>2. Head(rc_to_ct) = 1
    BY <2>1
  <2>3. m_rec_track_cond' = 1
    BY <1>3, <2>2 DEF Flags!RcToCtCallback, Flags!RcTrackCond
  <2>4. \A i \in DOMAIN Tail(rc_to_ct) : Tail(rc_to_ct)[i] = 1
    BY <2>1
  <2> QED
    BY <2>1, <2>3, <2>4
<1>4. ASSUME NEW sys_state, NEW standing, NEW urgent,
             Flags!MiscReportCallback(sys_state, standing, urgent)
      PROVE  OnlyRed' /\ Off
  <2>1. UNCHANGED <<m_rec_track_cond, flag_summary, rc_to_ct>>
    BY <1>4 DEF Flags!MiscReportCallback, Flags!topicVars, Flags!sscVars
  <2>2. Off
    BY <1>4
    DEF Flags!MiscReportCallback, Flags!Advanced, Flags!Driven, Flags!Track, Flags!Signal,
        Flags!YELLOW, Flags!ORANGE, Flags!GREEN, Flags!TypeOK, Flags!CtModes
  <2> QED
    BY <2>1, <2>2
<1>5. CASE UNCHANGED Flags!vars
  BY <1>5 DEF Flags!vars, Flags!topicVars, Flags!sscVars, Flags!ctVars
<1> QED
  BY <1>1, <1>2, <1>3, <1>4, <1>5 DEF Flags!Next, Flags!RecvSummaries, Flags!MiscReport

\* For every depth of the two topics: what the CAN node and the SSC interface
\* hold of the flags lets nothing but red through once it is red.
THEOREM RedIsNotLeft == Spec => RedHolds
<1>1. TypeOK /\ [Next]_vars =>
        [OnlyRed /\ on_track'.track_flag = Flags!RED =>
           /\ OnlyRed'
           /\ ct_current_mode \notin {8, 9} => ct_current_mode' \notin {8, 9}]_vars
  BY StepOfMachines, RedStep DEF TypeOK
<1> QED
  BY <1>1, VehicleTypeCorrect, PTL DEF Spec, RedHolds

\* A race with no opponent, and its end.
RacesAlone == mission = "race" /\ opponent = "none"

OnRaceline == line = "raceline" /\ reset_line = "none"

\* ComesBack, once it is reached: a car that races alone does not leave the
\* racing line, nor is it stopped for a segment that cannot be generated.
RacelineHolds ==
  [][RacesAlone /\ RacesAlone' /\ OnRaceline =>
       /\ OnRaceline'
       /\ longi' = "ESTOP" => longi = "ESTOP"]_vars

LEMMA RacelineStep ==
  ASSUME AliasFollowsPath, [Planner!Next]_(Planner!vars),
         RacesAlone, RacesAlone', OnRaceline
  PROVE  /\ OnRaceline'
         /\ longi' = "ESTOP" => longi = "ESTOP"
<1>1. alias = "raceline"
  BY DEF AliasFollowsPath, Planner!AliasFollowsPath, OnRaceline
<1>2. ASSUME NEW passed, NEW zone, NEW far, NEW generated,
             Planner!RunRace(passed, zone, far, generated)
      PROVE  OnRaceline' /\ longi' # "ESTOP"
  <2> DEFINE plan == Planner!Switched(Planner!Base("raceline"), passed)
  <2>1. plan = Planner!Plan /\ plan.line = "raceline" /\ plan.reset = "none"
    BY DEF OnRaceline, Planner!Switched, Planner!Base, Planner!Plan
  <2>2. ~Planner!MergesBack(plan, zone, far)
    BY <1>1, <2>1 DEF Planner!MergesBack, Planner!Plan
  <2>3. Planner!Watched = "none"
    BY DEF RacesAlone, Planner!Watched
  <2>4. Planner!KeepsOrPasses(plan, zone, generated)
    BY <1>2, <2>2 DEF Planner!RunRace, OnRaceline
  <2>5. Planner!Planned(plan, "KEEP", "STRAIGHT")
    BY <2>3, <2>4 DEF Planner!KeepsOrPasses
  <2> QED
    BY <2>1, <2>5 DEF Planner!Planned, OnRaceline
<1>3. CASE Planner!RunWaiting \/ Planner!PredictionResultCallback \/ Planner!Tick
             \/ Planner!SystemStatus \/ UNCHANGED Planner!vars
  BY <1>3 DEF OnRaceline, Planner!RunWaiting, Planner!PredictionResultCallback,
              Planner!Tick, Planner!SystemStatus, Planner!vars
<1> QED
  BY <1>2, <1>3
  DEF Planner!Next, Planner!Run, Planner!RunPit, Planner!RunConstantSpeed,
      Planner!RunOther, RacesAlone

\* For any candidate lines, and however often generation fails.
THEOREM RacelineIsNotLeft == Spec => RacelineHolds
<1>1. AliasFollowsPath /\ [Next]_vars =>
        [RacesAlone /\ RacesAlone' /\ OnRaceline =>
           /\ OnRaceline'
           /\ longi' = "ESTOP" => longi = "ESTOP"]_vars
  BY StepOfMachines, RacelineStep
<1> QED
  BY <1>1, NamedLineIsDriven, PTL DEF Spec, RacelineHolds

\* The mission stops the car and the velocity planner knows, or the planner of
\* the path is silent.
Stopping == (max_velocity = 0 /\ m_max_vel_mps = 0) \/ Speed!Unplanned

\* No velocity above v is in force or on its way.
AtMost(v) ==
  /\ desired_velocity_prev <= v
  /\ des_vel \in 0 .. v \cup {Speed!NoVelocity}
  /\ direct_desired_velocity <= v

\* StopReachesController, on the way there and once it is reached: a car that
\* is being stopped is not accelerated, whatever velocity the controller still
\* has and whatever is on its way to it; at zero it stands.
StopHolds ==
  [][\A v \in Speed!Velocities : Stopping /\ AtMost(v) => AtMost(v)']_vars

LEMMA StoppingStep ==
  ASSUME Speed!TypeOK, [Speed!Next]_(Speed!vars), Stopping,
         NEW v \in Speed!Velocities, AtMost(v)
  PROVE  AtMost(v)'
<1>t. TopVelocity \in Nat /\ v \in 0 .. TopVelocity
  BY VehicleAssumption DEF Speed!SpeedConstants, Speed!Velocities
<1>1. ASSUME NEW odometry \in BOOLEAN, NEW heard, NEW autonomy,
             NEW planned \in Speed!Velocities,
             Speed!Run(odometry, heard, autonomy, planned)
      PROVE  AtMost(v)'
  <2> DEFINE target == IF Speed!ValidPath /\ odometry THEN planned ELSE 0
  <2>1. target = 0
    BY <1>t, <1>1
    DEF Stopping, Speed!Run, Speed!Unplanned, Speed!ValidPath, Speed!Velocities, Speed!TypeOK
  <2>2. /\ desired_velocity_prev' = Speed!SmoothSignal(desired_velocity_prev, target)
        /\ des_vel' = desired_velocity_prev'
        /\ UNCHANGED direct_desired_velocity
    BY <1>1 DEF Speed!Run
  <2>3. desired_velocity_prev \in 0 .. v
    BY <1>t DEF AtMost, Speed!TypeOK, Speed!Velocities
  <2>4. desired_velocity_prev' \in 0 .. v
    <3> HIDE DEF target
    <3> QED
      BY <1>t, <2>1, <2>2, <2>3 DEF Speed!SmoothSignal
  <2> QED
    BY <1>t, <2>2, <2>4 DEF AtMost, Speed!NoVelocity
<1>2. CASE Speed!DirectDesiredVelocityCallback
  <2>1. des_vel \in 0 .. v
    BY <1>2 DEF AtMost, Speed!DirectDesiredVelocityCallback
  <2> QED
    BY <1>2, <1>t, <2>1
    DEF AtMost, Speed!DirectDesiredVelocityCallback, Speed!velocityVars, Speed!NoVelocity
<1>3. CASE UNCHANGED <<desired_velocity_prev, des_vel, direct_desired_velocity>>
  BY <1>3 DEF AtMost, Speed!NoVelocity
<1> QED
  BY <1>1, <1>2, <1>3
  DEF Speed!Next, Speed!Runs, Speed!Mission, Speed!AfterSystemStatusCallback,
      Speed!PathCallback, Speed!Tick, Speed!vars, Speed!velocityVars

\* For every top velocity and timeout.
THEOREM StopIsNotOutrun == Spec => StopHolds
<1>1. TypeOK /\ [Next]_vars =>
        [\A v \in Speed!Velocities : Stopping /\ AtMost(v) => AtMost(v)']_vars
  BY StepOfMachines, StoppingStep DEF TypeOK
<1> QED
  BY <1>1, VehicleTypeCorrect, PTL DEF Spec, StopHolds
=============================================================================
