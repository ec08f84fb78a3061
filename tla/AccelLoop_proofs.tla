--------------------------- MODULE AccelLoop_proofs ---------------------------
(***************************************************************************)
(* Proofs about the acceleration controller under the safety layer: the    *)
(* bounds on what a throttle outlives, for any timeouts, any number of     *)
(* silent runs and any accelerations.                                      *)
(***************************************************************************)
EXTENDS AccelLoop, TLAPS

-----------------------------------------------------------------------------
(* The type.                                                               *)

LEMMA FollowedType ==
  ASSUME TypeOK, NEW accel \in Accels
  PROVE  /\ AccLimit \in Accels \cup {INF}
         /\ Followed(accel) \in Int
BY AccelControlAssumption DEF TypeOK, AccelTypeOK, AccLimit, Followed, Least, INF

LEMMA ThrottleType ==
  ASSUME TypeOK, NEW accel \in Int, NEW tires \in Accels, NEW slip \in BOOLEAN
  PROVE  /\ CalculateThrottleCmd(accel, tires, slip) \in Nat
         /\ CalculateBrakeCmd(accel, slip) \in Nat
<1> USE AccelControlAssumption
<1>1. Least(accel, tires) \in Int
  BY DEF Least
<1>2. CalculateThrottleCmd(accel, tires, slip) \in Nat
  BY <1>1 DEF CalculateThrottleCmd, Released
<1>3. ASSUME accel < -10
      PROVE  Least(-accel, FullBrake) \in Nat
  BY <1>3 DEF Least, FullBrake
<1>4. CalculateBrakeCmd(accel, slip) \in Nat
  BY <1>3 DEF CalculateBrakeCmd, Released, HoldBrake
<1> QED
  BY <1>2, <1>4

LEMMA PedalsType ==
  ASSUME TypeOK, NEW throttle \in Nat, NEW brake \in Nat, NEW astray \in BOOLEAN,
         PublishThrottleBrake(throttle, brake, astray)
  PROVE  /\ throttle_cmd' \in Nat /\ brake_cmd' \in Nat
         /\ throttle_cmd' > 0 => IsDataOk /\ throttle > 0
<1>1. max_throttle \in Nat
  BY AccelControlAssumption DEF TypeOK, AccelTypeOK
<1>2. Least(throttle, max_throttle) \in 0 .. throttle
  BY <1>1 DEF Least
<1>3. Steadied(Least(throttle, max_throttle), astray) \in 0 .. throttle
  BY <1>2 DEF Steadied
<1> QED
  BY <1>3 DEF PublishThrottleBrake, FullBrake

LEMMA OlderType ==
  ASSUME NEW age \in 0 .. MaxAge
  PROVE  /\ Older(age) \in 0 .. MaxAge
         /\ Older(age) <= age + 1
         /\ Older(age) < MaxAge => Older(age) = age + 1
BY AccelControlAssumption DEF Older

LEMMA DesAccelType ==
  ASSUME TypeOK, DesAccel
  PROVE  TypeOK'
<1>1. PICK tires \in Accels, slip \in BOOLEAN, astray \in BOOLEAN :
        ReceiveDesAccel(asked, tires, slip, astray)
  BY DEF DesAccel
<1>2. asked \in Accels
  BY DEF DesAccel, TypeOK
<1>3. throttle_cmd' \in Nat /\ brake_cmd' \in Nat
  BY <1>1, <1>2, FollowedType, ThrottleType, PedalsType DEF ReceiveDesAccel
<1>4. m_acc_des_accel' \in Accels \cup {INF}
  BY <1>1, <1>2, FollowedType DEF ReceiveDesAccel
<1>5. UNCHANGED <<ageVars, max_throttle, speed, acc_age, m_accCMD_firstcall>>
  BY <1>1 DEF ReceiveDesAccel
<1>6. asked' = NoAccel /\ car_throttle' = throttle_cmd' /\ UNCHANGED <<said, hunger, locked, ran>>
  BY DEF DesAccel
<1> QED
  BY <1>3, <1>4, <1>5, <1>6 DEF TypeOK, AccelTypeOK, Safety!SourceTypeOK, ageVars

\* A run of the safety layer, of the three kinds the loop tells apart.
LEMMA RunCases ==
  ASSUME TypeOK, Run
  PROVE  \/ said'.accelerator # "none" /\ asked' = NoAccel /\ Safety!SourceTypeOK'
         \/ /\ Safety!RunHungry
            /\ asked' = NoAccel /\ said'.accelerator = "none" /\ Safety!SourceTypeOK'
         \/ /\ ~locked /\ ~locked' /\ hunger' \in {hunger, 0}
            /\ asked' \in Accels /\ said'.accelerator = "none" /\ Safety!SourceTypeOK'
<1> USE LoopAssumption DEF Safety!Saying, Safety!Sayings, Safety!Pedals
<1>1. CASE Safety!RunStop
  BY <1>1 DEF Run, Safety!RunStop, Safety!Stop, Safety!SourceTypeOK, TypeOK
<1>2. CASE Safety!RunHungry
  <2>1. hunger' \in 0 .. MaxHunger /\ locked' \in BOOLEAN
    BY <1>2 DEF Safety!RunHungry, Safety!SourceTypeOK, TypeOK
  <2> QED
    BY <1>2, <2>1 DEF Run, Safety!RunHungry, Safety!Silence, Safety!SourceTypeOK, TypeOK
<1>3. CASE Safety!RunHanded /\ said' \notin Safety!Partial
  <2>1. hunger' \in 0 .. MaxHunger /\ locked' = FALSE /\ ~locked /\ hunger' \in {hunger, 0}
    BY <1>3 DEF Safety!RunHanded, Safety!SourceTypeOK, TypeOK
  <2>2. CASE said' = Safety!Hands
    BY <2>1, <2>2 DEF Run, Safety!Hands, Safety!SourceTypeOK, TypeOK
  <2>3. ASSUME NEW accel \in Accels, said' = Safety!Drive(accel)
        PROVE  /\ asked' \in Accels /\ said'.accelerator = "none"
               /\ Safety!SourceTypeOK'
    BY <2>1, <2>3 DEF Run, Safety!Drive, Safety!SourceTypeOK, TypeOK
  <2> QED
    BY <1>3, <2>1, <2>2, <2>3 DEF Safety!RunHanded
<1> QED
  BY <1>1, <1>2, <1>3 DEF Run, SafetyRun

LEMMA RunType ==
  ASSUME TypeOK, Run
  PROVE  TypeOK'
<1>1. asked' \in Accels \cup {NoAccel} /\ Safety!SourceTypeOK'
  BY RunCases
<1>2. ran' = TRUE /\ car_throttle' \in Nat /\ UNCHANGED accelVars
  BY DEF Run, TypeOK
<1> QED
  BY <1>1, <1>2 DEF TypeOK, AccelTypeOK, accelVars, ageVars, accVars, pedalVars

LEMMA InputType ==
  ASSUME TypeOK, Input
  PROVE  TypeOK'
<1> USE AccelControlAssumption DEF TypeOK, AccelTypeOK, ageVars, accVars, pedalVars
<1>0. 0 \in 0 .. MaxAge
  OBVIOUS
<1>1. AccelTypeOK'
  <2>1. CASE \E limit \in Limits : ReceiveJoystick(limit)
    BY <1>0, <2>1 DEF ReceiveJoystick
  <2>2. CASE \E mps \in Speeds : ReceiveVelocity(mps)
    BY <1>0, <2>2 DEF ReceiveVelocity
  <2>3. CASE ReceivePtReport
    BY <1>0, <2>3 DEF ReceivePtReport
  <2>4. CASE \E accel \in Accels : AccCMDCallback(accel)
    BY <1>0, <2>4 DEF AccCMDCallback
  <2> QED
    BY <2>1, <2>2, <2>3, <2>4 DEF Input, Inputs
<1> QED
  BY <1>1 DEF Input, loopVars, Safety!SourceTypeOK

LEMMA TickType ==
  ASSUME TypeOK, Tick
  PROVE  TypeOK'
<1>1. /\ joy_age' \in 0 .. MaxAge /\ vel_age' \in 0 .. MaxAge
      /\ pt_age' \in 0 .. MaxAge /\ acc_age' \in 0 .. MaxAge
  BY OlderType DEF Tick, AccelTick, TypeOK, AccelTypeOK
<1>2. /\ UNCHANGED <<max_throttle, speed, m_acc_des_accel, m_accCMD_firstcall, pedalVars>>
      /\ ran' = FALSE
      /\ UNCHANGED <<said, hunger, locked, asked, car_throttle>>
  BY DEF Tick, AccelTick
<1> QED
  BY <1>1, <1>2 DEF TypeOK, AccelTypeOK, pedalVars, Safety!SourceTypeOK

\* The state keeps its type: above all, no throttle and no brake is negative.
THEOREM AccelTypeCorrect == Spec => []TypeOK
<1>1. Init => TypeOK
  <2> SUFFICES ASSUME Init PROVE TypeOK
    OBVIOUS
  <2>0. MaxAge \in 0 .. MaxAge
    BY AccelControlAssumption
  <2>1. AccelTypeOK
    BY <2>0, AccelControlAssumption DEF Init, AccelInit, AccelTypeOK
  <2>2. Safety!SourceTypeOK
    <3>1. Safety!Silence \in Safety!Sayings
      BY DEF Safety!Silence, Safety!Saying, Safety!Sayings, Safety!Pedals
    <3>2. 0 \in 0 .. MaxHunger
      BY LoopAssumption
    <3> QED
      BY <3>1, <3>2 DEF Init, Safety!SourceInit, Safety!SourceTypeOK
  <2> QED
    BY <2>1, <2>2 DEF Init, TypeOK
<1>2. TypeOK /\ [Next]_vars => TypeOK'
  <2> SUFFICES ASSUME TypeOK, [Next]_vars PROVE TypeOK'
    OBVIOUS
  <2>1. CASE UNCHANGED vars
    BY <2>1 DEF vars, accelVars, loopVars, ageVars, accVars, pedalVars,
       TypeOK, AccelTypeOK, Safety!SourceTypeOK
  <2> QED
    BY <2>1, RunType, DesAccelType, InputType, TickType DEF Next
<1> QED
  BY <1>1, <1>2, PTL DEF Spec

-----------------------------------------------------------------------------
(* How long a throttle lives.                                              *)

\* The silent runs the safety layer has behind it without having stopped the
\* car.
Used == IF locked THEN MaxHunger ELSE IF hunger = MaxHunger THEN 0 ELSE hunger

\* The ticks a throttle may have outlived what it was computed from.
Slack ==
  IF asked # NoAccel THEN MaxHunger + 1 ELSE IF ran THEN Used ELSE Used + 1

\* A cruise command in force, that wants no acceleration.
Refusing == ~m_accCMD_firstcall /\ m_acc_des_accel <= 5 /\ acc_age <= AccTimeout

ThrottleInv ==
  /\ ~ran => asked = NoAccel
  /\ car_throttle > 0 =>
       /\ joy_age <= DataTimeout + Slack
       /\ vel_age <= DataTimeout + Slack
       /\ pt_age <= DataTimeout + Slack
       /\ Refusing => acc_age <= Slack

LEMMA AgesAreNat ==
  /\ TypeOK => /\ joy_age \in Nat /\ vel_age \in Nat /\ pt_age \in Nat
               /\ acc_age \in Nat /\ car_throttle \in Nat
  /\ TypeOK' => /\ joy_age' \in Nat /\ vel_age' \in Nat /\ pt_age' \in Nat
                /\ acc_age' \in Nat /\ car_throttle' \in Nat
BY AccelControlAssumption DEF TypeOK, AccelTypeOK

LEMMA UsedBounds ==
  /\ TypeOK => Used \in 0 .. MaxHunger
  /\ TypeOK' => Used' \in 0 .. MaxHunger
BY LoopAssumption DEF TypeOK, Safety!SourceTypeOK, Used

\* A silent run uses up one more.
LEMMA HungryUses ==
  ASSUME TypeOK, Safety!RunHungry
  PROVE  Used' >= Used + 1
<1>1. MaxHunger \in Nat \ {0} /\ hunger \in 0 .. MaxHunger
  BY LoopAssumption DEF TypeOK, Safety!SourceTypeOK
<1>2. ~locked
  BY DEF Safety!RunHungry
<1>3. CASE hunger = MaxHunger
  <2>1. Used = 0
    BY <1>2, <1>3 DEF Used
  <2>2. locked' /\ Used' = MaxHunger
    <3>1. hunger' = MaxHunger
      BY <1>1, <1>3 DEF Safety!RunHungry
    <3>2. locked'
      BY <3>1 DEF Safety!RunHungry
    <3> QED
      BY <3>2 DEF Used
  <2> QED
    BY <1>1, <2>1, <2>2
<1>4. CASE hunger < MaxHunger
  <2>1. Used = hunger
    BY <1>1, <1>2, <1>4 DEF Used
  <2>2. hunger' = hunger + 1 /\ locked' = (hunger' = MaxHunger)
    BY <1>1, <1>4 DEF Safety!RunHungry
  <2>3. Used' = hunger'
    BY <2>2 DEF Used
  <2> QED
    BY <1>1, <2>1, <2>2, <2>3
<1> QED
  BY <1>1, <1>3, <1>4

LEMMA SlackBounds ==
  /\ TypeOK => Slack \in 0 .. MaxHunger + 1
  /\ TypeOK' => Slack' \in 0 .. MaxHunger + 1
BY UsedBounds, LoopAssumption DEF Slack

\* Nothing gets older than it may.
LEMMA SlackGrows ==
  ASSUME TypeOK, TypeOK', ThrottleInv, ~ran' => asked' = NoAccel,
         car_throttle' = car_throttle,
         UNCHANGED <<joy_age, vel_age, pt_age, acc_age, m_acc_des_accel,
                     m_accCMD_firstcall>>,
         Slack' >= Slack
  PROVE  ThrottleInv'
<1>1. Slack \in Nat /\ Slack' \in Nat /\ DataTimeout \in Nat
  BY SlackBounds, AccelControlAssumption, LoopAssumption
<1> QED
  BY <1>1, AgesAreNat DEF ThrottleInv, Refusing

LEMMA RunKeepsThrottle ==
  ASSUME TypeOK, ThrottleInv, Run
  PROVE  ThrottleInv'
<1> USE LoopAssumption, AccelControlAssumption
<1>1. /\ ~ran /\ ran' = TRUE /\ asked = NoAccel
      /\ UNCHANGED <<joy_age, vel_age, pt_age, acc_age, m_acc_des_accel,
                     m_accCMD_firstcall>>
  BY DEF Run, ThrottleInv, accelVars, ageVars, accVars
<1>2. TypeOK' /\ Used \in 0 .. MaxHunger /\ Used' \in 0 .. MaxHunger
  BY UsedBounds, RunType
<1>3. Slack = Used + 1
  BY <1>1 DEF Slack
<1>4. CASE said'.accelerator # "none"
  BY <1>1, <1>4 DEF Run, ThrottleInv
<1>5. CASE Safety!RunHungry /\ asked' = NoAccel /\ said'.accelerator = "none"
  <2>1. Used' >= Used + 1
    BY <1>5, HungryUses
  <2>2. Slack' >= Slack
    BY <1>1, <1>2, <1>3, <1>5, <2>1 DEF Slack
  <2> QED
    BY <1>1, <1>2, <1>5, <2>2, SlackGrows DEF Run
<1>6. CASE asked' \in Accels /\ said'.accelerator = "none"
  <2>1. Slack' >= Slack
    BY <1>1, <1>2, <1>3, <1>6 DEF Slack
  <2> QED
    BY <1>1, <1>2, <1>6, <2>1, SlackGrows DEF Run
<1> QED
  BY <1>4, <1>5, <1>6, RunCases

\* A throttle that is computed is of data in time, and of no cruise command
\* that refuses it.
LEMMA DesAccelKeepsThrottle ==
  ASSUME TypeOK, ThrottleInv, DesAccel
  PROVE  ThrottleInv'
<1> USE LoopAssumption, AccelControlAssumption
<1>1. PICK tires \in Accels, slip \in BOOLEAN, astray \in BOOLEAN :
        ReceiveDesAccel(asked, tires, slip, astray)
  BY DEF DesAccel
<1> DEFINE accel    == Followed(asked)
           throttle == CalculateThrottleCmd(accel, tires, slip)
           brake    == CalculateBrakeCmd(accel, slip)
<1>2. asked \in Accels /\ accel \in Int /\ throttle \in Nat /\ brake \in Nat
  BY FollowedType, ThrottleType DEF DesAccel, TypeOK
<1>3. /\ PublishThrottleBrake(throttle, brake, astray)
      /\ m_acc_des_accel' = AccLimit
      /\ UNCHANGED <<joy_age, vel_age, pt_age, acc_age, m_accCMD_firstcall>>
  BY <1>1 DEF ReceiveDesAccel, ageVars
<1>4. car_throttle' = throttle_cmd' /\ asked' = NoAccel /\ UNCHANGED ran /\ ran
  BY DEF DesAccel, ThrottleInv
<1>5. car_throttle' > 0 => IsDataOk /\ throttle > 0
  <2> HIDE DEF throttle, brake, accel
  <2> QED
    BY <1>2, <1>3, <1>4, PedalsType
<1>6. Slack' \in Nat /\ DataTimeout \in Nat
  BY DesAccelType, SlackBounds
<1>7. ASSUME Refusing'
      PROVE  throttle = 0
  <2>1. ~AccIsStale
    BY <1>3, <1>7 DEF Refusing, AccLimit, AccIsStale, INF, TypeOK, AccelTypeOK
  <2>2. AccLimit \in Int
    <3>1. asked \in Accels
      BY <1>2
    <3>2. AccLimit \in Accels \cup {INF}
      BY <3>1, FollowedType
    <3> QED
      BY <3>2 DEF INF
  <2>3. AccLimit <= 5
    BY <1>3, <1>7 DEF Refusing
  <2>4. accel <= 5
    BY <1>2, <2>2, <2>3 DEF Followed, Least
  <2>5. Least(accel, tires) <= 5 /\ Least(accel, tires) \in Int
    <3> HIDE DEF accel
    <3> QED
      BY <1>2, <2>4 DEF Least
  <2> QED
    BY <2>5 DEF CalculateThrottleCmd
<1>8. car_throttle' > 0 => ~Refusing'
  BY <1>5, <1>7
<1>9. IsDataOk => /\ joy_age' <= DataTimeout + Slack'
                  /\ vel_age' <= DataTimeout + Slack'
                  /\ pt_age' <= DataTimeout + Slack'
  BY <1>3, <1>6, AgesAreNat DEF IsDataOk
<1> HIDE DEF throttle, brake, accel
<1> QED
  BY <1>4, <1>5, <1>8, <1>9 DEF ThrottleInv

LEMMA InputKeepsThrottle ==
  ASSUME TypeOK, ThrottleInv, Input
  PROVE  ThrottleInv'
<1>1. UNCHANGED <<locked, hunger, ran, asked, car_throttle>>
  BY DEF Input, loopVars
<1>2. Slack' = Slack /\ Slack \in Nat /\ DataTimeout \in Nat
  BY <1>1, SlackBounds, AccelControlAssumption, LoopAssumption DEF Slack, Used
<1>3. /\ joy_age' \in {joy_age, 0} /\ vel_age' \in {vel_age, 0}
      /\ pt_age' \in {pt_age, 0}
      /\ \/ acc_age' = 0
         \/ /\ acc_age' = acc_age /\ m_acc_des_accel' = m_acc_des_accel
            /\ m_accCMD_firstcall' = m_accCMD_firstcall
  BY DEF Input, Inputs, ReceiveJoystick, ReceiveVelocity, ReceivePtReport,
         AccCMDCallback, ageVars, accVars
<1>4. \/ acc_age' = 0
      \/ acc_age' = acc_age /\ (Refusing' => Refusing)
  <2>1. CASE /\ acc_age' = acc_age /\ m_acc_des_accel' = m_acc_des_accel
             /\ m_accCMD_firstcall' = m_accCMD_firstcall
    BY <2>1 DEF Refusing
  <2> QED
    BY <1>3, <2>1
<1> QED
  BY <1>1, <1>2, <1>3, <1>4, AgesAreNat DEF ThrottleInv

LEMMA TickKeepsThrottle ==
  ASSUME TypeOK, ThrottleInv, Tick
  PROVE  ThrottleInv'
<1> USE LoopAssumption, AccelControlAssumption
<1>1. /\ ran /\ ~ran' /\ asked = NoAccel
      /\ UNCHANGED <<locked, hunger, asked, car_throttle, m_acc_des_accel,
                     m_accCMD_firstcall>>
  BY DEF Tick, AccelTick
<1>2. Used' = Used /\ Used \in 0 .. MaxHunger
  BY <1>1, UsedBounds DEF Used
<1>3. Slack = Used /\ Slack' = Slack + 1
  BY <1>1, <1>2 DEF Slack
<1>4. /\ joy_age' <= joy_age + 1 /\ vel_age' <= vel_age + 1 /\ pt_age' <= pt_age + 1
      /\ acc_age' <= acc_age + 1
      /\ acc_age' < MaxAge => acc_age' = acc_age + 1
  BY OlderType DEF Tick, AccelTick, TypeOK, AccelTypeOK
<1>5. Refusing' => Refusing
  BY <1>1, <1>4, TickType DEF Refusing, TypeOK, AccelTypeOK
<1>6. TypeOK'
  BY TickType
<1> QED
  BY <1>1, <1>2, <1>3, <1>4, <1>5, <1>6, AgesAreNat DEF ThrottleInv

THEOREM ThrottleInvariant == Spec => []ThrottleInv
<1>1. Init => ThrottleInv
  BY DEF Init, ThrottleInv
<1>2. TypeOK /\ ThrottleInv /\ [Next]_vars => ThrottleInv'
  <2> SUFFICES ASSUME TypeOK, ThrottleInv, [Next]_vars PROVE ThrottleInv'
    OBVIOUS
  <2>1. CASE UNCHANGED vars
    BY <2>1 DEF vars, accelVars, loopVars, ageVars, accVars,
       ThrottleInv, Slack, Used, Refusing
  <2> QED
    BY <2>1, RunKeepsThrottle, DesAccelKeepsThrottle, InputKeepsThrottle,
       TickKeepsThrottle DEF Next
<1> QED
  BY <1>1, <1>2, AccelTypeCorrect, PTL DEF Spec

\* Whatever falls silent first, the throttle outlives the joystick, the wheel
\* speed and the powertrain by their timeout, the silent runs of the safety
\* layer and one tick, and by no more.
THEOREM ThrottleHasADeadMan == Spec => []DeadMansThrottle
<1>1. TypeOK /\ ThrottleInv => DeadMansThrottle
  <2> SUFFICES ASSUME TypeOK, ThrottleInv PROVE DeadMansThrottle
    OBVIOUS
  <2>1. Slack \in 0 .. MaxHunger + 1 /\ MaxHunger \in Nat /\ DataTimeout \in Nat
    BY SlackBounds, LoopAssumption, AccelControlAssumption
  <2> QED
    BY <2>1 DEF ThrottleInv, DeadMansThrottle, TypeOK, AccelTypeOK
<1> QED
  BY <1>1, AccelTypeCorrect, ThrottleInvariant, PTL

\* A cruise command that wants no acceleration closes the throttle, though it is
\* looked at only when the planner's acceleration comes.
THEOREM CruiseClosesTheThrottle == Spec => []CruiseCloses
<1>1. TypeOK /\ ThrottleInv => CruiseCloses
  <2> SUFFICES ASSUME TypeOK, ThrottleInv PROVE CruiseCloses
    OBVIOUS
  <2>1. Slack \in 0 .. MaxHunger + 1 /\ MaxHunger \in Nat /\ AccTimeout \in Nat
    BY SlackBounds, LoopAssumption, AccelControlAssumption
  <2>2. car_throttle \in Nat /\ acc_age \in Nat
    BY AccelControlAssumption DEF TypeOK, AccelTypeOK
  <2>3. CruiseRefuses => Refusing /\ acc_age > Slack
    BY <2>1, <2>2 DEF CruiseRefuses, Refusing
  <2> QED
    BY <2>1, <2>2, <2>3 DEF ThrottleInv, CruiseCloses
<1> QED
  BY <1>1, AccelTypeCorrect, ThrottleInvariant, PTL
=============================================================================
