-------------------------- MODULE DbwStateMachine --------------------------
(***************************************************************************)
(* How the SSC interface turns the drive-by-wire system on: the systems of *)
(* the SSC accept an "enable" only after a "disable", so enabled() waits,  *)
(* after a request, for a first control command and a first state command. *)
(*                                                                         *)
(* A state command that arrives is kept, and goes out with the next        *)
(* control command: to send_state_command of the node, whose call of the   *)
(* interface is commented out, so that state_cmd_sent is never called.     *)
(***************************************************************************)
EXTENDS Naturals

CONSTANT
  DISABLED_FEEDBACK_THRESH   \* 3

DbwConstants == DISABLED_FEEDBACK_THRESH \in Nat

VARIABLES
  m_last_state_command,      \* there is one that has not gone out
  m_state,
  m_first_control_cmd_sent,
  m_first_state_cmd_sent,
  m_disabled_feedback_count

vars == <<m_last_state_command, m_state, m_first_control_cmd_sent,
          m_first_state_cmd_sent, m_disabled_feedback_count>>

DbwStates == {"DISABLED", "ENABLE_REQUESTED", "ENABLE_SENT", "ENABLED"}

TypeOK ==
  /\ m_last_state_command \in BOOLEAN
  /\ m_state \in DbwStates
  /\ m_first_control_cmd_sent \in BOOLEAN
  /\ m_first_state_cmd_sent \in BOOLEAN
  /\ m_disabled_feedback_count \in 0 .. DISABLED_FEEDBACK_THRESH

Init ==
  /\ m_last_state_command = FALSE
  /\ m_state = "DISABLED"
  /\ m_first_control_cmd_sent = FALSE /\ m_first_state_cmd_sent = FALSE
  /\ m_disabled_feedback_count = 0

-----------------------------------------------------------------------------
BothSent == m_first_control_cmd_sent /\ m_first_state_cmd_sent

Enabled ==
  \/ m_state \in {"ENABLED", "ENABLE_SENT"}
  \/ m_state = "ENABLE_REQUESTED" /\ BothSent

DisableAndReset ==
  /\ m_state' = "DISABLED"
  /\ m_first_control_cmd_sent' = FALSE /\ m_first_state_cmd_sent' = FALSE
  /\ m_disabled_feedback_count' = 0

\* handle_mode_change_request.
UserRequest(enable) ==
  /\ \/ /\ enable
        /\ m_state' = IF m_state = "DISABLED" THEN "ENABLE_REQUESTED" ELSE m_state
        /\ UNCHANGED <<m_first_control_cmd_sent, m_first_state_cmd_sent,
                       m_disabled_feedback_count>>
     \/ ~enable /\ DisableAndReset
  /\ UNCHANGED m_last_state_command

NextCount == m_disabled_feedback_count + 1

\* A report of "disabled" that ends the enabling, or is one too many for it.
TurnsOff ==
  \/ m_state = "ENABLED"
  \/ m_state = "ENABLE_SENT" /\ NextCount > DISABLED_FEEDBACK_THRESH

\* on_dbw_state_report.  The reports may not come at all: the launch files remap
\* their topic to a name that has a letter less.
DbwFeedback(enabled) ==
  /\ IF ~enabled /\ TurnsOff
       THEN DisableAndReset
       ELSE /\ m_state' =
                 IF enabled /\ m_state = "ENABLE_SENT" THEN "ENABLED" ELSE m_state
            /\ m_disabled_feedback_count' =
                 IF m_state # "ENABLE_SENT" THEN m_disabled_feedback_count
                 ELSE IF enabled THEN 0 ELSE NextCount
            /\ UNCHANGED <<m_first_control_cmd_sent, m_first_state_cmd_sent>>
  /\ UNCHANGED m_last_state_command

-----------------------------------------------------------------------------
(* The commands.                                                           *)

StateCommandCallback ==
  /\ m_last_state_command' = TRUE
  /\ UNCHANGED <<m_state, m_first_control_cmd_sent, m_first_state_cmd_sent,
                 m_disabled_feedback_count>>

ControlCmdSent ==
  /\ m_state' =
       IF m_state = "ENABLE_REQUESTED" /\ BothSent THEN "ENABLE_SENT" ELSE m_state
  /\ m_first_control_cmd_sent' =
       (m_first_control_cmd_sent \/ (m_state = "ENABLE_REQUESTED" /\ ~BothSent))

\* Nothing but a comment is left of it.
SendStateCommand == UNCHANGED m_first_state_cmd_sent

\* on_command_message, for a command with a later stamp: what the safety state
\* machine adds to the state command does not go out either.
OnCommandMessage ==
  /\ m_last_state_command' = FALSE
  /\ ControlCmdSent
  /\ SendStateCommand
  /\ UNCHANGED m_disabled_feedback_count

Next ==
  \/ \E enable \in BOOLEAN : UserRequest(enable)
  \/ \E enabled \in BOOLEAN : DbwFeedback(enabled)
  \/ StateCommandCallback
  \/ OnCommandMessage

Spec == Init /\ [][Next]_vars

-----------------------------------------------------------------------------
(* Properties.                                                             *)

\* "Once an initial control command and an initial state command have been sent
\* with the enabled flag set to false, start returning true in
\* DbwStateMachine::enabled()": while commands of both kinds go on coming, a
\* request is enabled in the end, or turned off again.
RequestSettles == m_state = "ENABLE_REQUESTED" ~> Enabled \/ m_state = "DISABLED"
=============================================================================
