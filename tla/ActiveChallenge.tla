---------------------------- MODULE ActiveChallenge ----------------------------
(***************************************************************************)
(* A ChallengeSession under every sequence of observations: stale ones,    *)
(* repeated frames, missing and additional faces, and any order of poses.  *)
(***************************************************************************)
EXTENDS Challenge, Sequences

CONSTANTS
  Issues,       \* times at which a challenge may be issued
  Observations  \* observations a caller may offer

ASSUME ObservationsAssumption ==
  /\ Issues \subseteq Nat
  /\ Observations \subseteq FaceObservations

VARIABLES
  self,     \* the ChallengeSession
  accepted  \* history: the observations it accepted, in order

challengeVars == <<self, accepted>>

ChallengeInit ==
  /\ \E issued \in Issues : self = Begin(issued)
  /\ accepted = <<>>

Observe(o, cancelled) ==
  /\ self' = Observed(self, o, cancelled)
  /\ accepted' = IF Refusal(self, o, cancelled) = "None"
                 THEN Append(accepted, o) ELSE accepted

ChallengeNext == \E o \in Observations, cancelled \in BOOLEAN : Observe(o, cancelled)

ChallengeSpec == ChallengeInit /\ [][ChallengeNext]_challengeVars

--------------------------------------------------------------------------------

\* Type correctness of ChallengeSession and of the history of observe.
ChallengeTypeOK ==
  /\ self \in Challenges
  /\ accepted \in Seq(FaceObservations)
  /\ Len(accepted) <= MaxObservations
  /\ self.observations <= MaxObservations + 1
  /\ self.actionStreak <= MaxStreak
  /\ self.recoveryStreak <= MaxStreak

\* A run of the requested action that is long enough in observations and in
\* time, after a neutral observation.
Performed(first, last) ==
  /\ \E b \in 1..(first - 1) : accepted[b].pose = "neutral"
  /\ \A i \in first..last : accepted[i].pose = "action"
  /\ last - first + 1 >= ActionObservations
  /\ Timestamp(accepted[last]) - Timestamp(accepted[first])
       >= MinimumActionDuration

\* A run of neutral observations that is long enough.
Returned(first, last) ==
  /\ \A i \in first..last : accepted[i].pose = "neutral"
  /\ last - first + 1 >= RecoveryObservations

\* The phase that the accepted observations amount to, read off the whole
\* history instead of being counted along.
PhaseOfHistory ==
  LET n == Len(accepted)
      performed == {last \in 1..n : \E first \in 1..last : Performed(first, last)}
      recovered == \E a \in performed : \E first \in (a + 1)..n, last \in (a + 1)..n :
                     Returned(first, last)
  IN  IF recovered THEN "Passed"
      ELSE IF performed # {} THEN "Recovery"
      ELSE IF \E b \in 1..n : accepted[b].pose = "neutral" THEN "Action"
      ELSE "Baseline"

\* The counters of observe_action and observe_recovery recognise exactly a
\* neutral pose, then an uninterrupted action of the calibrated length and
\* duration, then an uninterrupted recovery.
PhaseIsEarned == self.phase = PhaseOfHistory

\* No challenge passes without a neutral pose, an uninterrupted action of the
\* calibrated length and duration and an uninterrupted recovery, in this
\* order (observe_action, observe_recovery).
PassIsEarned ==
  self.phase = "Passed" =>
    \E first \in DOMAIN accepted : \E last \in DOMAIN accepted :
      /\ first <= last
      /\ Performed(first, last)
      /\ Returned(Len(accepted) - RecoveryObservations + 1, Len(accepted))
      /\ last <= Len(accepted) - RecoveryObservations

\* The evidence a phase rests on is fresh: single faces in pairs within the
\* skew, inside the challenge's time, strictly later one by one, and no frame
\* of either camera used twice in a row (observe_cancellable).
EvidenceIsFresh ==
  /\ \A i \in DOMAIN accepted :
       /\ Skew(accepted[i]) <= MaxSkew
       /\ accepted[i].faces = 1
       /\ accepted[i].pose # "invalid"
       /\ Timestamp(accepted[i]) \in
            self.issued..(self.issued + ChallengeDuration)
  /\ \A i, j \in DOMAIN accepted :
       i < j => Timestamp(accepted[i]) < Timestamp(accepted[j])
  /\ \A i \in 1..(Len(accepted) - 1) :
       /\ accepted[i].infrared.sequence # accepted[i + 1].infrared.sequence
       /\ accepted[i].visible.sequence # accepted[i + 1].visible.sequence

================================================================================
