------------------------------- MODULE Challenge -------------------------------
(***************************************************************************)
(* The active challenge of faceauth-liveness: ChallengeSession as a value  *)
(* and observe_cancellable as an operator on it.                           *)
(*                                                                         *)
(* The module has no behaviour of its own: ActiveChallenge offers a        *)
(* session every sequence of observations, Observation the ones that the   *)
(* capture pipeline makes.                                                 *)
(*                                                                         *)
(* Eye openness and yaw are reduced to what the session tells apart: a     *)
(* neutral pose, the requested action, any other pose, and a measurement   *)
(* that is out of range.  ChallengeConfig::validate keeps the thresholds   *)
(* apart, so that no pose is both neutral and the action.                  *)
(*                                                                         *)
(* Slip definitions are deliberate errors, as in SessionManager.           *)
(***************************************************************************)
EXTENDS Naturals

CONSTANTS
  MaxSkew,                \* ChallengeConfig::max_pair_skew_micros
  ChallengeDuration,      \* ChallengeConfig::duration_micros
  MaxObservations,        \* ChallengeConfig::max_observations
  ActionObservations,     \* ChallengeConfig::action_consecutive_observations
  MinimumActionDuration,  \* ChallengeConfig::minimum_action_duration_micros
  RecoveryObservations,   \* ChallengeConfig::recovery_consecutive_observations
  MaxStreak,              \* u8::MAX, where the streaks saturate
  NoChallenge,            \* Option::None for the session
  NoTime,                 \* Option::None for a timestamp
  NoFrames                \* Option::None for the sequence numbers

\* What ChallengeConfig::validate demands of the values that matter here.
ValidConfig ==
  /\ MaxSkew \in Nat \ {0}
  /\ ChallengeDuration \in Nat \ {0}
  /\ MaxObservations \in Nat \ {0}
  /\ ActionObservations \in Nat \ {0}
  /\ MinimumActionDuration \in 1..(ChallengeDuration - 1)
  /\ RecoveryObservations \in Nat \ {0}
  /\ ActionObservations + RecoveryObservations + 1 <= MaxObservations

ASSUME ChallengeAssumption ==
  /\ ValidConfig
  /\ MaxStreak \in Nat
  /\ ActionObservations <= MaxStreak /\ RecoveryObservations <= MaxStreak
  /\ NoTime \notin Nat
  /\ NoFrames \notin Nat \X Nat

Phases == {"Baseline", "Action", "Recovery", "Passed"}
Poses == {"neutral", "action", "other", "invalid"}

Frames == [sequence : Nat, time : Nat]
FaceObservations ==
  [infrared : Frames, visible : Frames, faces : Nat, pose : Poses]

Challenges ==
  [issued : Nat, observations : Nat, lastTime : Nat \cup {NoTime},
   lastFrames : (Nat \X Nat) \cup {NoFrames}, phase : Phases,
   actionStreak : Nat, actionStarted : Nat \cup {NoTime},
   recoveryStreak : Nat]

ASSUME NoChallengeAssumption == NoChallenge \notin Challenges

--------------------------------------------------------------------------------

Skew(o) == IF o.infrared.time <= o.visible.time
           THEN o.visible.time - o.infrared.time
           ELSE o.infrared.time - o.visible.time

\* An observation happens when the later of its two frames was exposed.
Timestamp(o) == IF o.infrared.time <= o.visible.time
                THEN o.visible.time ELSE o.infrared.time

FramesOf(o) == <<o.infrared.sequence, o.visible.sequence>>

Begin(issued) ==
  [issued |-> issued, observations |-> 0, lastTime |-> NoTime,
   lastFrames |-> NoFrames, phase |-> "Baseline", actionStreak |-> 0,
   actionStarted |-> NoTime, recoveryStreak |-> 0]

SlipRepeatsFrame(ch, o) ==
  ch.lastFrames # NoFrames /\ ch.lastFrames = FramesOf(o)
RepeatsFrame(ch, o) ==
  /\ ch.lastFrames # NoFrames
  /\ \/ ch.lastFrames[1] = o.infrared.sequence
     \/ ch.lastFrames[2] = o.visible.sequence

\* What is wrong with the observation, in the order in which the code looks.
Refusal(ch, o, cancelled) ==
  IF cancelled THEN "Cancelled"
  ELSE IF ch.phase = "Passed" THEN "AlreadyCompleted"
  ELSE IF Skew(o) > MaxSkew THEN "InvalidFramePair"
  ELSE IF o.faces # 1 THEN "SingleFaceRequired"
  ELSE IF o.pose = "invalid" THEN "InvalidMeasurement"
  ELSE IF Timestamp(o) < ch.issued THEN "PredatesChallenge"
  ELSE IF Timestamp(o) > ch.issued + ChallengeDuration THEN "Expired"
  ELSE IF ch.lastTime # NoTime /\ Timestamp(o) <= ch.lastTime
  THEN "NonIncreasingTimestamp"
  ELSE IF RepeatsFrame(ch, o) THEN "RepeatedCameraFrame"
  ELSE IF ch.observations + 1 > MaxObservations
  THEN "ObservationBudgetExhausted"
  ELSE "None"

\* The observation that breaks the budget is still counted, without bound:
\* only the comparison with the budget matters afterwards.
Counted(ch) ==
  [ch EXCEPT !.observations = IF @ > MaxObservations THEN @ ELSE @ + 1]

Longer(streak) == IF streak < MaxStreak THEN streak + 1 ELSE MaxStreak

SlipActed(ch, o) ==
  IF o.pose # "action"
  THEN [ch EXCEPT !.actionStreak = 0]
  ELSE LET started == IF ch.actionStarted = NoTime
                      THEN Timestamp(o) ELSE ch.actionStarted
           streak == Longer(ch.actionStreak)
           enough == /\ streak >= ActionObservations
                     /\ Timestamp(o) - started >= MinimumActionDuration
       IN  [ch EXCEPT !.actionStarted = started, !.actionStreak = streak,
                      !.phase = IF enough THEN "Recovery" ELSE @,
                      !.recoveryStreak = IF enough THEN 0 ELSE @]
Acted(ch, o) ==
  IF o.pose # "action"
  THEN [ch EXCEPT !.actionStreak = 0, !.actionStarted = NoTime]
  ELSE LET started == IF ch.actionStarted = NoTime
                      THEN Timestamp(o) ELSE ch.actionStarted
           streak == Longer(ch.actionStreak)
           enough == /\ streak >= ActionObservations
                     /\ Timestamp(o) - started >= MinimumActionDuration
       IN  [ch EXCEPT !.actionStarted = started, !.actionStreak = streak,
                      !.phase = IF enough THEN "Recovery" ELSE @,
                      !.recoveryStreak = IF enough THEN 0 ELSE @]

Recovered(ch, o) ==
  IF o.pose # "neutral"
  THEN [ch EXCEPT !.recoveryStreak = 0]
  ELSE LET streak == Longer(ch.recoveryStreak)
       IN  [ch EXCEPT !.recoveryStreak = streak,
                      !.phase = IF streak >= RecoveryObservations
                                THEN "Passed" ELSE @]

Advanced(ch, o) ==
  CASE ch.phase = "Action" -> Acted(ch, o)
    [] ch.phase = "Recovery" -> Recovered(ch, o)
    [] ch.phase = "Baseline" /\ o.pose = "neutral" ->
         [ch EXCEPT !.phase = "Action"]
    [] OTHER -> ch

\* The session after an observation, whether or not it was refused.
Observed(ch, o, cancelled) ==
  CASE Refusal(ch, o, cancelled) = "None" ->
         Advanced([Counted(ch) EXCEPT !.lastTime = Timestamp(o),
                                      !.lastFrames = FramesOf(o)], o)
    [] Refusal(ch, o, cancelled) = "ObservationBudgetExhausted" -> Counted(ch)
    [] OTHER -> ch

================================================================================
