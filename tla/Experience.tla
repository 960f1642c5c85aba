------------------------------- MODULE Experience ------------------------------
(***************************************************************************)
(* ExperienceModel of faceauth-ui-model: what one screen shows of one      *)
(* operation.  A method is an operator from the model's state to its next  *)
(* state; a call that the model refuses leaves the state as it was.        *)
(*                                                                         *)
(* The flow is the exact operation: a kind and the id of the transaction   *)
(* or management operation.                                                *)
(*                                                                         *)
(* Slip definitions are deliberate errors, as in SessionManager.           *)
(***************************************************************************)

IdleScreen == [state |-> "Idle"]

Authentication(t) == [kind |-> "Authentication", id |-> t]
AuthenticationRejection(t) == [kind |-> "AuthenticationRejection", id |-> t]
Enrollment(o) == [kind |-> "Enrollment", id |-> o]

ActiveScreen(flow, cue) == [state |-> "Active", flow |-> flow, cue |-> cue]
TerminalScreen(flow, outcome) ==
  [state |-> "Terminal", flow |-> flow, outcome |-> outcome]

\* Whatever operation is active takes the update.
SlipRequireActive(screen, flow) == screen.state = "Active"

\* require_active: only the exact flow on the screen, and only while it runs.
RequireActive(screen, flow) ==
  screen.state = "Active" /\ screen.flow = flow

\* begin_authentication and begin_enrollment.
BeginFlow(screen, flow) ==
  IF screen = IdleScreen THEN ActiveScreen(flow, "Preparing") ELSE screen

\* authentication_progress and the progress of management_update.  A cue is
\* the progress code by another name; ActiveChallenge alone is renamed.
CueOf(progress) ==
  IF progress = "ActiveChallenge" THEN "FollowChallenge" ELSE progress

ProgressFlow(screen, flow, progress) ==
  IF RequireActive(screen, flow)
  THEN ActiveScreen(flow, CueOf(progress))
  ELSE screen

\* authentication_outcome.  Refused stands for the decisions that are about the
\* evidence itself, which the screen does not tell apart.
AuthenticationOutcome(decision) ==
  CASE decision = "Accepted" -> "Succeeded"
    [] decision \in {"Cancelled", "TimedOut"} -> decision
    [] decision \in {"InternalError", "InfraredMissing", "VisibleMissing"}
         -> "Unavailable"
    [] OTHER -> "TryAgain"

\* management_outcome.
ManagementOutcome(result) ==
  CASE result = "Completed" -> "Succeeded"
    [] result \in {"Cancelled", "TimedOut"} -> result
    [] OTHER -> "Unavailable"

\* authentication_completed and the completion of management_update.
CompleteFlow(screen, flow, outcome) ==
  IF RequireActive(screen, flow) THEN TerminalScreen(flow, outcome) ELSE screen

\* authentication_rejected: never through an active state, and for every reason
\* alike.
RejectFlow(screen, t) ==
  IF screen = IdleScreen
  THEN TerminalScreen(AuthenticationRejection(t), "Unavailable")
  ELSE screen

\* reset refuses an operation that still runs.
ResetScreen(screen) == IF screen.state = "Active" THEN screen ELSE IdleScreen

\* presentation: whether the screen counts as busy.
ShowsBusy(screen) == screen.state = "Active"

===============================================================================
