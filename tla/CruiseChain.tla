----------------------------- MODULE CruiseChain -----------------------------
(***************************************************************************)
(* Two nodes make the acceleration of the car out of one trajectory: the   *)
(* joint LQR controller (ControlLQRNode::solve), which asks for one, and   *)
(* the adaptive cruise control (IDMACCNode), which limits it.  They meet   *)
(* in the acceleration controller, which forgets a limit that is too old,  *)
(* while the LQR drives on for as long as its trajectory is not.  Messages *)
(* take up to MaxDelay; a trajectory is sent with best effort and may be   *)
(* lost to either node.                                                    *)
(*                                                                         *)
(* Left out: the LQR and the IDM law, with the prediction of the opponent  *)
(* that it reads: every branch of the cruise control sends some limit, and *)
(* AccelControl says what its values do.  Whether the car is where the     *)
(* trajectory starts is open in each run.  The status of the LQR's node,   *)
(* which nothing here reads, is an error when it sends nothing.  The       *)
(* safety layer on the way of the command is part of its delay.            *)
(***************************************************************************)
EXTENDS Naturals

CONSTANTS
  PathTimeout,     \* path_timeout_sec of the LQR
  CruiseTimeout,   \* 2 s, of the acceleration controller
  MaxDelay         \* bound: of a message between two nodes

CruiseConstants ==
  /\ PathTimeout \in Nat \ {0}
  /\ MaxDelay \in Nat
  /\ CruiseTimeout \in Nat
  /\ 2 * MaxDelay + PathTimeout <= CruiseTimeout + 1

VARIABLES
  to_lqr, to_acc,       \* topic traj_global, at its two readers
  missed,               \* history: the last trajectory was lost to the cruise control
  traj_age, traj_empty,
  path_long,            \* reference_path_last_point_distance; not initialized
  control_cmd,          \* topic
  des_acc,              \* topic
  m_accCMD_firstcall,
  limit_age             \* since m_last_acc_update

topicVars == <<to_lqr, to_acc, missed>>
lqrVars == <<traj_age, traj_empty, path_long>>
limitVars == <<m_accCMD_firstcall, limit_age>>
vars == <<topicVars, lqrVars, control_cmd, des_acc, limitVars>>

\* A topic of depth 1: a message and its age, or none.
None == [msg |-> "none", age |-> 0]
Sent(msg) == [msg |-> msg, age |-> 0]
Topic(msgs) == {None} \cup [msg : msgs, age : 0 .. MaxDelay]

TypeOK ==
  /\ to_lqr \in Topic({"empty", "points"}) /\ to_acc \in Topic({"trajectory"})
  /\ missed \in BOOLEAN
  /\ traj_age \in 0 .. PathTimeout
  /\ traj_empty \in BOOLEAN /\ path_long \in BOOLEAN
  /\ control_cmd \in Topic({"drive", "zero"})
  /\ des_acc \in Topic({"limit"})
  /\ m_accCMD_firstcall \in BOOLEAN
  /\ limit_age \in 0 .. CruiseTimeout + 1

\* What never came is as old as can be.
Init ==
  /\ to_lqr = None /\ to_acc = None /\ missed = FALSE
  /\ traj_age = PathTimeout /\ traj_empty = TRUE
  /\ path_long \in BOOLEAN
  /\ control_cmd = None
  /\ des_acc = None
  /\ m_accCMD_firstcall = TRUE
  /\ limit_age = CruiseTimeout + 1

-----------------------------------------------------------------------------
(* The planner's trajectory on its way.                                    *)

Publish(trajectory) ==
  /\ to_lqr' = Sent(trajectory)
  /\ to_acc' = Sent("trajectory")
  /\ UNCHANGED <<missed, lqrVars, control_cmd, des_acc, limitVars>>

LostToLqr ==
  /\ to_lqr # None
  /\ to_lqr' = None
  /\ UNCHANGED <<to_acc, missed, lqrVars, control_cmd, des_acc, limitVars>>

LostToAcc ==
  /\ to_acc # None
  /\ to_acc' = None
  /\ missed' = TRUE
  /\ UNCHANGED <<to_lqr, lqrVars, control_cmd, des_acc, limitVars>>

-----------------------------------------------------------------------------
(* The joint LQR controller.                                               *)

ReferenceTrajectoryCallback ==
  /\ to_lqr # None
  /\ to_lqr' = None
  /\ traj_age' = 0
  /\ traj_empty' = (to_lqr.msg = "empty")
  /\ UNCHANGED <<to_acc, missed, path_long, control_cmd, des_acc, limitVars>>

\* The length is measured on another topic, the planner's trajectory for
\* visualization.  The tracking index that this resets is left out.
ReferencePathCallback(long) ==
  /\ path_long' = long
  /\ UNCHANGED <<topicVars, traj_age, traj_empty, control_cmd, des_acc, limitVars>>

ValidPathOnce == ~traj_empty /\ path_long

ValidPath == ~traj_empty /\ path_long /\ traj_age < PathTimeout

\* located: valid_odom, valid_wpt_distance and valid_target_position; heard:
\* hasSystemStatus.  In autonomy nothing is sent that does not track; out of it
\* zeros are.  What smoothSignal returns is not used, so that the last command
\* has no effect.
Solve(located, heard, autonomy) ==
  LET tracking == ValidPath /\ located
  IN  /\ heard
      /\ autonomy => tracking
      /\ control_cmd' = Sent(IF tracking THEN "drive" ELSE "zero")
      /\ UNCHANGED <<topicVars, lqrVars, des_acc, limitVars>>

-----------------------------------------------------------------------------
(* The adaptive cruise control, and the acceleration controller as far as  *)
(* the limit goes.                                                         *)

EgoTrajectoryCallback ==
  /\ to_acc # None
  /\ to_acc' = None
  /\ missed' = FALSE
  /\ des_acc' = Sent("limit")
  /\ UNCHANGED <<to_lqr, lqrVars, control_cmd, limitVars>>

AccCMDCallback ==
  /\ des_acc # None
  /\ des_acc' = None
  /\ m_accCMD_firstcall' = FALSE
  /\ limit_age' = 0
  /\ UNCHANGED <<topicVars, lqrVars, control_cmd>>

\* receiveDesAccel puts INF for a limit that is forgotten.
Forgotten == ~m_accCMD_firstcall /\ limit_age > CruiseTimeout

ReceiveDesAccel ==
  /\ control_cmd # None
  /\ control_cmd' = None
  /\ UNCHANGED <<topicVars, lqrVars, des_acc, limitVars>>

-----------------------------------------------------------------------------

Older(age, last) == IF age < last THEN age + 1 ELSE age
InTime(topic) == topic # None => topic.age < MaxDelay
Aged(topic) == IF topic = None THEN None ELSE [topic EXCEPT !.age = @ + 1]

Tick ==
  /\ InTime(to_lqr) /\ InTime(to_acc) /\ InTime(control_cmd) /\ InTime(des_acc)
  /\ to_lqr' = Aged(to_lqr)
  /\ to_acc' = Aged(to_acc)
  /\ control_cmd' = Aged(control_cmd)
  /\ des_acc' = Aged(des_acc)
  /\ traj_age' = Older(traj_age, PathTimeout)
  /\ limit_age' = Older(limit_age, CruiseTimeout + 1)
  /\ UNCHANGED <<missed, traj_empty, path_long, m_accCMD_firstcall>>

Planning ==
  (\E trajectory \in {"empty", "points"} : Publish(trajectory)) \/ LostToLqr \/ LostToAcc

Control ==
  \/ ReferenceTrajectoryCallback
  \/ \E long \in BOOLEAN : ReferencePathCallback(long)
  \/ \E located, heard, autonomy \in BOOLEAN : Solve(located, heard, autonomy)

Limiting == EgoTrajectoryCallback \/ AccCMDCallback \/ ReceiveDesAccel

Next == Planning \/ Control \/ Limiting \/ Tick

Spec == Init /\ [][Next]_vars

-----------------------------------------------------------------------------
(* Properties.                                                             *)

\* The cruise control has answered the last trajectory, and was heard.
Heard == to_acc = None /\ des_acc = None /\ ~missed

\* The acceleration controller does not let the car drive on a trajectory and
\* without its limit: by the time the limit is forgotten, the LQR no longer
\* follows the trajectory that both were made of.  Before the cruise control
\* has spoken at all, or once it loses trajectories, nothing limits the car.
LimitOutlivesTrajectory ==
  control_cmd.msg = "drive" /\ Heard => ~m_accCMD_firstcall /\ ~Forgotten
=============================================================================
