--------------------------- MODULE ObservationProofs ---------------------------
(***************************************************************************)
(* Proofs about the active challenge, for any calibration and any          *)
(* observations, and about the session of the pipeline that leads through  *)
(* it, for any cameras, faces and enrollment policy.                       *)
(***************************************************************************)
EXTENDS ActiveChallenge, Observation, TLAPS

\* What the session remembers of the last observation is what the history
\* says of it, and the session counts what it accepts.
MemoryMatches ==
  /\ accepted = <<>> =>
       self.lastTime = NoTime /\ self.lastFrames = NoFrames
  /\ accepted # <<>> =>
       /\ self.lastTime = Timestamp(accepted[Len(accepted)])
       /\ self.lastFrames = FramesOf(accepted[Len(accepted)])
  /\ self.observations <= MaxObservations =>
       Len(accepted) = self.observations

\* The action under way since observation first, after a neutral one.
Acting(first) ==
  /\ \E b \in 1..(first - 1) : accepted[b].pose = "neutral"
  /\ \A i \in first..Len(accepted) : accepted[i].pose = "action"
  /\ self.actionStarted = Timestamp(accepted[first])
  /\ self.actionStreak <= Len(accepted) - first + 1

\* Before the action there is no streak; while the challenge waits for it, a
\* neutral observation has been seen, and a streak is an action under way.
ActionCounted ==
  /\ self.phase = "Baseline" => self.actionStarted = NoTime
  /\ self.phase \in {"Baseline", "Action"} /\ self.actionStarted = NoTime =>
       self.actionStreak = 0
  /\ self.phase = "Action" =>
       /\ \E b \in DOMAIN accepted : accepted[b].pose = "neutral"
       /\ self.actionStarted = NoTime \/ \E s \in DOMAIN accepted : Acting(s)

\* Once the action was performed, the recovery streak is the run of neutral
\* observations at the end, after the action.
RecoveryCounted ==
  /\ self.phase \in {"Recovery", "Passed"} =>
       \E first \in DOMAIN accepted : \E last \in DOMAIN accepted :
         /\ first <= last
         /\ Performed(first, last)
         /\ last <= Len(accepted) - self.recoveryStreak
         /\ \A i \in (last + 1)..Len(accepted) :
              i > Len(accepted) - self.recoveryStreak =>
                accepted[i].pose = "neutral"
  /\ self.phase = "Passed" => self.recoveryStreak >= RecoveryObservations

\* Nothing neutral was seen before the action is waited for, and none was
\* performed while it is.  The streak of an action under way is its whole run,
\* unless it is saturated.
ActionExact ==
  /\ self.phase = "Baseline" =>
       \A i \in DOMAIN accepted : accepted[i].pose # "neutral"
  /\ self.phase = "Action" =>
       \A last \in DOMAIN accepted : \A first \in 1..last : ~Performed(first, last)
  /\ self.phase = "Action" /\ self.actionStarted = NoTime =>
       accepted[Len(accepted)].pose # "action"
  /\ self.phase = "Action" /\ self.actionStarted # NoTime =>
       \E s \in DOMAIN accepted :
         /\ s > 1 /\ accepted[s - 1].pose # "action"
         /\ self.actionStarted = Timestamp(accepted[s])
         /\ \/ self.actionStreak >= Len(accepted) - s + 1
            \/ self.actionStreak >= MaxStreak

\* The recovery begins with the first action that was performed, no recovery
\* after it was complete, and the streak is the whole run of neutral poses
\* since the last other one, unless it is saturated.
RecoveryExact ==
  self.phase = "Recovery" =>
    \E a \in DOMAIN accepted :
      /\ \E first \in 1..a : Performed(first, a)
      /\ \A last \in 1..(a - 1) : \A first \in 1..last : ~Performed(first, last)
      /\ \A first, last \in (a + 1)..Len(accepted) : ~Returned(first, last)
      /\ \E t \in a..Len(accepted) :
           /\ accepted[t].pose # "neutral"
           /\ \/ self.recoveryStreak >= Len(accepted) - t
              \/ self.recoveryStreak >= MaxStreak

\* The inductive invariant.
ChallengeInv ==
  /\ ChallengeTypeOK
  /\ MemoryMatches
  /\ EvidenceIsFresh
  /\ ActionCounted
  /\ RecoveryCounted

-------------------------------------------------------------------------------

\* The time of an observation is a natural number.
LEMMA TimestampType ==
  ASSUME NEW o \in FaceObservations
  PROVE  Timestamp(o) \in Nat
BY DEF Timestamp, FaceObservations, Frames

\* What is true of an observation that nothing is wrong with.
LEMMA Accepts ==
  ASSUME NEW ch, NEW o, NEW stopped, Refusal(ch, o, stopped) = "None"
  PROVE  /\ ch.phase # "Passed"
         /\ ~(Skew(o) > MaxSkew)
         /\ o.faces = 1
         /\ o.pose # "invalid"
         /\ ~(Timestamp(o) < ch.issued)
         /\ ~(Timestamp(o) > ch.issued + ChallengeDuration)
         /\ ~(ch.lastTime # NoTime /\ Timestamp(o) <= ch.lastTime)
         /\ ~ RepeatsFrame(ch, o)
         /\ ~(ch.observations + 1 > MaxObservations)
BY DEF Refusal

\* One field at a time, a session stays a session.
LEMMA Update ==
  ASSUME NEW ch \in Challenges
  PROVE  /\ \A n \in Nat : [ch EXCEPT !.observations = n] \in Challenges
         /\ \A t \in Nat \cup {NoTime} : [ch EXCEPT !.lastTime = t] \in Challenges
         /\ \A f \in (Nat \X Nat) \cup {NoFrames} :
              [ch EXCEPT !.lastFrames = f] \in Challenges
         /\ \A p \in Phases : [ch EXCEPT !.phase = p] \in Challenges
         /\ \A n \in Nat : [ch EXCEPT !.actionStreak = n] \in Challenges
         /\ \A t \in Nat \cup {NoTime} : [ch EXCEPT !.actionStarted = t] \in Challenges
         /\ \A n \in Nat : [ch EXCEPT !.recoveryStreak = n] \in Challenges
BY DEF Challenges

\* The session that a taken observation is judged in.
Kept(ch, o) ==
  [Counted(ch) EXCEPT !.lastTime = Timestamp(o), !.lastFrames = FramesOf(o)]

\* Taking an observation changes the count and the memory, and no more.
LEMMA KeptFields ==
  ASSUME NEW ch \in Challenges, NEW o \in FaceObservations,
         ~(ch.observations + 1 > MaxObservations)
  PROVE  /\ Kept(ch, o) \in Challenges
         /\ Kept(ch, o).observations = ch.observations + 1
         /\ Kept(ch, o).lastTime = Timestamp(o)
         /\ Kept(ch, o).lastFrames = FramesOf(o)
         /\ Kept(ch, o).issued = ch.issued
         /\ Kept(ch, o).phase = ch.phase
         /\ Kept(ch, o).actionStreak = ch.actionStreak
         /\ Kept(ch, o).actionStarted = ch.actionStarted
         /\ Kept(ch, o).recoveryStreak = ch.recoveryStreak
<1> DEFINE counted == [ch EXCEPT !.observations = ch.observations + 1]
           timed == [counted EXCEPT !.lastTime = Timestamp(o)]
<1>1. Timestamp(o) \in Nat /\ FramesOf(o) \in Nat \X Nat
  BY TimestampType DEF FramesOf, FaceObservations, Frames
<1>2. ch.observations \in Nat /\ MaxObservations \in Nat
  BY ChallengeAssumption DEF ValidConfig, Challenges
<1>3. Kept(ch, o) = [timed EXCEPT !.lastFrames = FramesOf(o)]
  <2>1. ~(ch.observations > MaxObservations)
    BY <1>2
  <2>2. Counted(ch) = counted
    BY <2>1 DEF Counted
  <2>3. QED
    BY <2>2 DEF Kept
<1>4. counted \in Challenges
  BY <1>2, Update
<1>5. timed \in Challenges
  BY <1>1, <1>4, Update
<1>6. Kept(ch, o) \in Challenges
  BY <1>1, <1>3, <1>5, Update
<1> HIDE DEF timed
<1>7. /\ timed.observations = ch.observations + 1
      /\ timed.lastTime = Timestamp(o)
      /\ timed.issued = ch.issued
      /\ timed.phase = ch.phase
      /\ timed.actionStreak = ch.actionStreak
      /\ timed.actionStarted = ch.actionStarted
      /\ timed.recoveryStreak = ch.recoveryStreak
  BY DEF timed, Challenges
<1>8. QED
  BY <1>3, <1>5, <1>6, <1>7 DEF Challenges

\* What observe_action makes of the session.
LEMMA ActedFields ==
  ASSUME NEW ch \in Challenges, NEW o \in FaceObservations
  PROVE  /\ Acted(ch, o) \in Challenges
         /\ Acted(ch, o).issued = ch.issued
         /\ Acted(ch, o).observations = ch.observations
         /\ Acted(ch, o).lastTime = ch.lastTime
         /\ Acted(ch, o).lastFrames = ch.lastFrames
         /\ o.pose # "action" =>
              /\ Acted(ch, o).phase = ch.phase
              /\ Acted(ch, o).actionStreak = 0
              /\ Acted(ch, o).actionStarted = NoTime
              /\ Acted(ch, o).recoveryStreak = ch.recoveryStreak
         /\ o.pose = "action" =>
              /\ Acted(ch, o).actionStreak = Longer(ch.actionStreak)
              /\ Acted(ch, o).actionStarted =
                   IF ch.actionStarted = NoTime THEN Timestamp(o) ELSE ch.actionStarted
              /\ \/ /\ Acted(ch, o).phase = ch.phase
                    /\ Acted(ch, o).recoveryStreak = ch.recoveryStreak
                    /\ ~ (/\ Acted(ch, o).actionStreak >= ActionObservations
                          /\ Timestamp(o) - Acted(ch, o).actionStarted
                               >= MinimumActionDuration)
                 \/ /\ Acted(ch, o).phase = "Recovery"
                    /\ Acted(ch, o).recoveryStreak = 0
                    /\ Acted(ch, o).actionStreak >= ActionObservations
                    /\ Timestamp(o) - Acted(ch, o).actionStarted
                         >= MinimumActionDuration
<1>1. Timestamp(o) \in Nat /\ MaxStreak \in Nat
  BY TimestampType, ChallengeAssumption
<1>2. CASE o.pose # "action"
  <2> DEFINE reset == [ch EXCEPT !.actionStreak = 0]
  <2>1. Acted(ch, o) = [reset EXCEPT !.actionStarted = NoTime]
    BY <1>2 DEF Acted
  <2>2. reset \in Challenges
    BY Update
  <2>3. Acted(ch, o) \in Challenges
    BY <2>1, <2>2, Update
  <2>4. QED
    BY <1>2, <2>1, <2>3 DEF Challenges
<1>3. CASE o.pose = "action"
  <2> DEFINE started == IF ch.actionStarted = NoTime
                        THEN Timestamp(o) ELSE ch.actionStarted
             streak == Longer(ch.actionStreak)
             enough == /\ streak >= ActionObservations
                       /\ Timestamp(o) - started >= MinimumActionDuration
             phase == IF enough THEN "Recovery" ELSE ch.phase
             recovery == IF enough THEN 0 ELSE ch.recoveryStreak
             one == [ch EXCEPT !.actionStarted = started]
             two == [one EXCEPT !.actionStreak = streak]
             three == [two EXCEPT !.phase = phase]
  <2>1. Acted(ch, o) = [three EXCEPT !.recoveryStreak = recovery]
    BY <1>3 DEF Acted
  <2>2. started \in Nat /\ streak \in Nat
    BY <1>1 DEF Longer, Challenges
  <2>3. phase \in Phases /\ recovery \in Nat
    BY DEF Challenges, Phases
  <2>4. \/ phase = ch.phase /\ recovery = ch.recoveryStreak /\ ~enough
        \/ phase = "Recovery" /\ recovery = 0 /\ enough
    OBVIOUS
  <2> HIDE DEF started, streak, phase, recovery
  <2>5. one \in Challenges
    BY <2>2, Update
  <2>6. two \in Challenges
    BY <2>2, <2>5, Update
  <2>7. three \in Challenges
    BY <2>3, <2>6, Update
  <2>8. Acted(ch, o) \in Challenges
    BY <2>1, <2>3, <2>7, Update
  <2>9. /\ Acted(ch, o).issued = ch.issued
        /\ Acted(ch, o).observations = ch.observations
        /\ Acted(ch, o).lastTime = ch.lastTime
        /\ Acted(ch, o).lastFrames = ch.lastFrames
        /\ Acted(ch, o).actionStarted = started
        /\ Acted(ch, o).actionStreak = streak
        /\ Acted(ch, o).phase = phase
        /\ Acted(ch, o).recoveryStreak = recovery
    BY <2>1 DEF Challenges
  <2> HIDE DEF one, two, three
  <2>10. QED
    BY <1>3, <2>4, <2>8, <2>9 DEF started, streak
<1>4. QED
  BY <1>2, <1>3

\* What observe_recovery makes of the session.
LEMMA RecoveredFields ==
  ASSUME NEW ch \in Challenges, NEW o \in FaceObservations
  PROVE  /\ Recovered(ch, o) \in Challenges
         /\ Recovered(ch, o).issued = ch.issued
         /\ Recovered(ch, o).observations = ch.observations
         /\ Recovered(ch, o).lastTime = ch.lastTime
         /\ Recovered(ch, o).lastFrames = ch.lastFrames
         /\ Recovered(ch, o).actionStreak = ch.actionStreak
         /\ Recovered(ch, o).actionStarted = ch.actionStarted
         /\ o.pose # "neutral" =>
              /\ Recovered(ch, o).phase = ch.phase
              /\ Recovered(ch, o).recoveryStreak = 0
         /\ o.pose = "neutral" =>
              /\ Recovered(ch, o).recoveryStreak = Longer(ch.recoveryStreak)
              /\ \/ /\ Recovered(ch, o).phase = ch.phase
                    /\ ~(Recovered(ch, o).recoveryStreak >= RecoveryObservations)
                 \/ /\ Recovered(ch, o).phase = "Passed"
                    /\ Recovered(ch, o).recoveryStreak >= RecoveryObservations
<1>1. MaxStreak \in Nat
  BY ChallengeAssumption
<1>2. CASE o.pose # "neutral"
  <2>1. Recovered(ch, o) = [ch EXCEPT !.recoveryStreak = 0]
    BY <1>2 DEF Recovered
  <2>2. Recovered(ch, o) \in Challenges
    BY <2>1, Update
  <2>3. QED
    BY <1>2, <2>1, <2>2 DEF Challenges
<1>3. CASE o.pose = "neutral"
  <2> DEFINE streak == Longer(ch.recoveryStreak)
             phase == IF streak >= RecoveryObservations THEN "Passed" ELSE ch.phase
             one == [ch EXCEPT !.recoveryStreak = streak]
  <2>1. Recovered(ch, o) = [one EXCEPT !.phase = phase]
    BY <1>3 DEF Recovered
  <2>2. streak \in Nat /\ phase \in Phases
    BY <1>1 DEF Longer, Challenges, Phases
  <2>3. \/ phase = ch.phase /\ ~(streak >= RecoveryObservations)
        \/ phase = "Passed" /\ streak >= RecoveryObservations
    OBVIOUS
  <2> HIDE DEF streak, phase
  <2>4. one \in Challenges
    BY <2>2, Update
  <2>5. Recovered(ch, o) \in Challenges
    BY <2>1, <2>2, <2>4, Update
  <2>6. /\ Recovered(ch, o).issued = ch.issued
        /\ Recovered(ch, o).observations = ch.observations
        /\ Recovered(ch, o).lastTime = ch.lastTime
        /\ Recovered(ch, o).lastFrames = ch.lastFrames
        /\ Recovered(ch, o).actionStreak = ch.actionStreak
        /\ Recovered(ch, o).actionStarted = ch.actionStarted
        /\ Recovered(ch, o).recoveryStreak = streak
        /\ Recovered(ch, o).phase = phase
    BY <2>1 DEF Challenges
  <2> HIDE DEF one
  <2>7. QED
    BY <1>3, <2>3, <2>5, <2>6 DEF streak
<1>4. QED
  BY <1>2, <1>3

\* The observation that takes a place in the history, and what it does to the
\* session.
Takes(o) ==
  /\ o \in FaceObservations
  /\ self.phase # "Passed"
  /\ Skew(o) <= MaxSkew
  /\ o.faces = 1
  /\ o.pose # "invalid"
  /\ Timestamp(o) \in self.issued..(self.issued + ChallengeDuration)
  /\ self.lastTime # NoTime => self.lastTime < Timestamp(o)
  /\ ~ RepeatsFrame(self, o)
  /\ self.observations + 1 <= MaxObservations
  /\ self' = Advanced(Kept(self, o), o)
  /\ accepted' = Append(accepted, o)

\* An observation is taken, or changes nothing but the count, and that only
\* when it breaks the budget.
LEMMA Steps ==
  ASSUME ChallengeTypeOK, [ChallengeNext]_challengeVars
  PROVE  \/ /\ self' = self
            /\ accepted' = accepted
         \/ /\ self' = Counted(self)
            /\ ~(self.observations + 1 <= MaxObservations)
            /\ accepted' = accepted
         \/ \E o \in Observations : Takes(o)
<1>1. CASE UNCHANGED challengeVars
  BY <1>1 DEF challengeVars
<1>2. CASE ChallengeNext
  <2>1. PICK o \in Observations, stopped \in BOOLEAN : Observe(o, stopped)
    BY <1>2 DEF ChallengeNext
  <2>2. CASE Refusal(self, o, stopped) = "None"
    <3>1. o \in FaceObservations /\ Timestamp(o) \in Nat
      BY ObservationsAssumption, TimestampType
    <3>2. /\ self' = Advanced(Kept(self, o), o)
          /\ accepted' = Append(accepted, o)
      BY <2>1, <2>2 DEF Observe, Observed, Kept
    <3>3. /\ self.issued \in Nat /\ self.observations \in Nat
          /\ self.lastTime \in Nat \cup {NoTime}
      BY DEF ChallengeTypeOK, Challenges
    <3>4. MaxSkew \in Nat /\ MaxObservations \in Nat /\ ChallengeDuration \in Nat
      BY ChallengeAssumption DEF ValidConfig
    <3>5. Skew(o) \in Nat
      BY <3>1 DEF Skew, FaceObservations, Frames
    <3>6. /\ Skew(o) <= MaxSkew
          /\ Timestamp(o) \in self.issued..(self.issued + ChallengeDuration)
          /\ self.lastTime # NoTime => self.lastTime < Timestamp(o)
          /\ self.observations + 1 <= MaxObservations
      BY <2>2, <3>1, <3>3, <3>4, <3>5, Accepts
    <3>7. Takes(o)
      BY <2>2, <3>1, <3>2, <3>6, Accepts DEF Takes
    <3>8. QED
      BY <3>7
  <2>3. CASE Refusal(self, o, stopped) = "ObservationBudgetExhausted"
    <3>1. self.observations + 1 > MaxObservations
      BY <2>3 DEF Refusal
    <3>2. ~(self.observations + 1 <= MaxObservations)
      BY <3>1, ChallengeAssumption DEF ValidConfig, ChallengeTypeOK, Challenges
    <3>3. self' = Counted(self) /\ accepted' = accepted
      BY <2>1, <2>3 DEF Observe, Observed
    <3>4. QED
      BY <3>2, <3>3
  <2>4. CASE Refusal(self, o, stopped) \notin {"None", "ObservationBudgetExhausted"}
    BY <2>1, <2>4 DEF Observe, Observed
  <2>5. QED
    BY <2>2, <2>3, <2>4
<1>3. QED
  BY <1>1, <1>2

\* Counting changes nothing but the count.
LEMMA CountedFields ==
  ASSUME NEW ch \in Challenges, ~(ch.observations + 1 <= MaxObservations)
  PROVE  /\ Counted(ch) \in Challenges
         /\ ~(Counted(ch).observations <= MaxObservations)
         /\ ch.observations <= MaxObservations + 1 =>
              Counted(ch).observations <= MaxObservations + 1
         /\ Counted(ch).issued = ch.issued
         /\ Counted(ch).lastTime = ch.lastTime
         /\ Counted(ch).lastFrames = ch.lastFrames
         /\ Counted(ch).phase = ch.phase
         /\ Counted(ch).actionStreak = ch.actionStreak
         /\ Counted(ch).actionStarted = ch.actionStarted
         /\ Counted(ch).recoveryStreak = ch.recoveryStreak
<1> DEFINE count == IF ch.observations > MaxObservations
                    THEN ch.observations ELSE ch.observations + 1
<1>1. ch.observations \in Nat /\ MaxObservations \in Nat
  BY ChallengeAssumption DEF ValidConfig, Challenges
<1>2. /\ count \in Nat
      /\ ~(count <= MaxObservations)
      /\ ch.observations <= MaxObservations + 1 => count <= MaxObservations + 1
  BY <1>1
<1>3. Counted(ch) = [ch EXCEPT !.observations = count]
  BY DEF Counted
<1> HIDE DEF count
<1>4. Counted(ch) \in Challenges
  BY <1>2, <1>3, Update
<1>5. QED
  BY <1>2, <1>3, <1>4 DEF Challenges

\* The history after an observation was taken.
LEMMA TakenHistory ==
  ASSUME ChallengeTypeOK, NEW o, Takes(o)
  PROVE  /\ accepted' \in Seq(FaceObservations)
         /\ Len(accepted) \in Nat
         /\ Len(accepted') = Len(accepted) + 1
         /\ accepted'[Len(accepted) + 1] = o
         /\ \A i \in 1..Len(accepted) : accepted'[i] = accepted[i]
         /\ DOMAIN accepted = 1..Len(accepted)
         /\ DOMAIN accepted' = 1..(Len(accepted) + 1)
BY DEF ChallengeTypeOK, Takes

\* The memory of the session after an observation was taken.
LEMMA TakenMemory ==
  ASSUME ChallengeTypeOK, NEW o, Takes(o)
  PROVE  /\ self' \in Challenges
         /\ self'.issued = self.issued
         /\ self'.observations = self.observations + 1
         /\ self'.lastTime = Timestamp(o)
         /\ self'.lastFrames = FramesOf(o)
<1> DEFINE kept == Kept(self, o)
<1>1. self \in Challenges /\ o \in FaceObservations
      /\ ~(self.observations + 1 > MaxObservations)
  BY ChallengeAssumption DEF ChallengeTypeOK, Takes, ValidConfig, Challenges
<1>2. /\ kept \in Challenges
      /\ kept.issued = self.issued
      /\ kept.observations = self.observations + 1
      /\ kept.lastTime = Timestamp(o)
      /\ kept.lastFrames = FramesOf(o)
  BY <1>1, KeptFields
<1>3. self' = Advanced(kept, o)
  BY DEF Takes
<1> HIDE DEF kept
<1>4. CASE kept.phase = "Action"
  <2>1. self' = Acted(kept, o)
    BY <1>3, <1>4 DEF Advanced
  <2>2. QED
    BY <1>1, <1>2, <2>1, ActedFields
<1>5. CASE kept.phase = "Recovery"
  <2>1. self' = Recovered(kept, o)
    BY <1>3, <1>5 DEF Advanced
  <2>2. QED
    BY <1>1, <1>2, <2>1, RecoveredFields
<1>6. CASE kept.phase \notin {"Action", "Recovery"}
  <2>1. self' = kept \/ self' = [kept EXCEPT !.phase = "Action"]
    BY <1>3, <1>6 DEF Advanced
  <2>2. self' \in Challenges
    BY <1>2, <2>1, Update DEF Phases
  <2>3. QED
    BY <1>2, <2>1, <2>2 DEF Challenges
<1>7. QED
  BY <1>4, <1>5, <1>6

\* What a taken observation does in each phase.
LEMMA TakenPhase ==
  ASSUME ChallengeTypeOK, NEW o, Takes(o)
  PROVE  /\ self.phase = "Baseline" =>
              /\ self'.phase \in {"Baseline", "Action"}
              /\ self'.phase = "Action" <=> o.pose = "neutral"
              /\ self'.actionStreak = self.actionStreak
              /\ self'.actionStarted = self.actionStarted
              /\ self'.recoveryStreak = self.recoveryStreak
         /\ self.phase = "Action" /\ o.pose # "action" =>
              /\ self'.phase = "Action"
              /\ self'.actionStreak = 0
              /\ self'.actionStarted = NoTime
              /\ self'.recoveryStreak = self.recoveryStreak
         /\ self.phase = "Action" /\ o.pose = "action" =>
              /\ self'.actionStreak = Longer(self.actionStreak)
              /\ self'.actionStarted =
                   IF self.actionStarted = NoTime
                   THEN Timestamp(o) ELSE self.actionStarted
              /\ \/ /\ self'.phase = "Action"
                    /\ self'.recoveryStreak = self.recoveryStreak
                    /\ ~ (/\ self'.actionStreak >= ActionObservations
                          /\ Timestamp(o) - self'.actionStarted
                               >= MinimumActionDuration)
                 \/ /\ self'.phase = "Recovery"
                    /\ self'.recoveryStreak = 0
                    /\ self'.actionStreak >= ActionObservations
                    /\ Timestamp(o) - self'.actionStarted
                         >= MinimumActionDuration
         /\ self.phase = "Recovery" =>
              /\ self'.actionStreak = self.actionStreak
              /\ self'.actionStarted = self.actionStarted
         /\ self.phase = "Recovery" /\ o.pose # "neutral" =>
              /\ self'.phase = "Recovery"
              /\ self'.recoveryStreak = 0
         /\ self.phase = "Recovery" /\ o.pose = "neutral" =>
              /\ self'.recoveryStreak = Longer(self.recoveryStreak)
              /\ \/ /\ self'.phase = "Recovery"
                    /\ ~(self'.recoveryStreak >= RecoveryObservations)
                 \/ /\ self'.phase = "Passed"
                    /\ self'.recoveryStreak >= RecoveryObservations
<1> DEFINE kept == Kept(self, o)
<1>1. self \in Challenges /\ o \in FaceObservations
      /\ ~(self.observations + 1 > MaxObservations)
  BY ChallengeAssumption DEF ChallengeTypeOK, Takes, ValidConfig, Challenges
<1>2. /\ kept \in Challenges
      /\ kept.phase = self.phase
      /\ kept.actionStreak = self.actionStreak
      /\ kept.actionStarted = self.actionStarted
      /\ kept.recoveryStreak = self.recoveryStreak
  BY <1>1, KeptFields
<1>3. self' = Advanced(kept, o)
  BY DEF Takes
<1> HIDE DEF kept
<1>4. CASE self.phase = "Baseline"
  <2>1. \/ self' = kept /\ o.pose # "neutral"
        \/ self' = [kept EXCEPT !.phase = "Action"] /\ o.pose = "neutral"
    BY <1>2, <1>3, <1>4 DEF Advanced
  <2>2. QED
    BY <1>2, <1>4, <2>1 DEF Challenges
<1>5. CASE self.phase = "Action"
  <2>1. self' = Acted(kept, o)
    BY <1>2, <1>3, <1>5 DEF Advanced
  <2>2. CASE o.pose # "action"
    BY <1>1, <1>2, <1>5, <2>1, <2>2, ActedFields
  <2>3. CASE o.pose = "action"
    BY <1>1, <1>2, <1>5, <2>1, <2>3, ActedFields
  <2>4. QED
    BY <1>5, <2>2, <2>3
<1>6. CASE self.phase = "Recovery"
  <2>1. self' = Recovered(kept, o)
    BY <1>2, <1>3, <1>6 DEF Advanced
  <2>2. QED
    BY <1>1, <1>2, <1>6, <2>1, RecoveredFields
<1>7. QED
  BY <1>1, <1>4, <1>5, <1>6 DEF Takes, Challenges, Phases

\* A streak grows by one at most, and never beyond its limit.
LEMMA LongerBounds ==
  ASSUME NEW n \in Nat, n <= MaxStreak
  PROVE  Longer(n) \in Nat /\ Longer(n) <= n + 1 /\ Longer(n) <= MaxStreak
BY ChallengeAssumption DEF Longer

\* Nothing but the count of observations moves unless one is taken.
Refused ==
  /\ accepted' = accepted
  /\ self' \in Challenges
  /\ self.observations <= MaxObservations + 1 =>
       self'.observations <= MaxObservations + 1
  /\ self'.observations <= MaxObservations =>
       self'.observations = self.observations
  /\ self'.issued = self.issued
  /\ self'.lastTime = self.lastTime
  /\ self'.lastFrames = self.lastFrames
  /\ self'.phase = self.phase
  /\ self'.actionStreak = self.actionStreak
  /\ self'.actionStarted = self.actionStarted
  /\ self'.recoveryStreak = self.recoveryStreak

\* Every step refuses an observation, or nothing at all, or takes one.
LEMMA RefusedOrTaken ==
  ASSUME ChallengeTypeOK, [ChallengeNext]_challengeVars
  PROVE  Refused \/ \E o \in Observations : Takes(o)
<1>1. self \in Challenges
  BY DEF ChallengeTypeOK
<1>2. CASE self' = self /\ accepted' = accepted
  BY <1>1, <1>2 DEF Refused
<1>3. CASE /\ self' = Counted(self)
           /\ ~(self.observations + 1 <= MaxObservations)
           /\ accepted' = accepted
  BY <1>1, <1>3, CountedFields DEF Refused
<1>4. QED
  BY <1>2, <1>3, Steps

LEMMA TypeStep ==
  ASSUME ChallengeTypeOK, MemoryMatches, [ChallengeNext]_challengeVars
  PROVE  ChallengeTypeOK'
<1>1. CASE Refused
  BY <1>1 DEF ChallengeTypeOK, Refused
<1>2. CASE \E o \in Observations : Takes(o)
  <2>1. PICK o \in Observations : Takes(o)
    BY <1>2
  <2>2. self \in Challenges /\ self' \in Challenges
    BY <2>1, TakenMemory DEF ChallengeTypeOK
  <2>3. /\ MaxObservations \in Nat /\ MaxStreak \in Nat
        /\ self.observations \in Nat
        /\ self.actionStreak \in Nat /\ self.recoveryStreak \in Nat
    BY <2>2, ChallengeAssumption DEF ValidConfig, Challenges
  <2>4. self.observations + 1 <= MaxObservations
    BY <2>1 DEF Takes
  <2>5. self'.observations <= MaxObservations + 1
    BY <2>1, <2>3, <2>4, TakenMemory
  <2>6. Len(accepted') <= MaxObservations
    BY <2>1, <2>3, <2>4, TakenHistory DEF MemoryMatches
  <2>7. /\ Longer(self.actionStreak) <= MaxStreak
        /\ Longer(self.recoveryStreak) <= MaxStreak
    BY <2>3, LongerBounds DEF ChallengeTypeOK
  <2>8. self.phase \in {"Baseline", "Action", "Recovery"}
    BY <2>1, <2>2 DEF Takes, Challenges, Phases
  <2>9. self'.actionStreak <= MaxStreak
    BY <2>1, <2>3, <2>7, <2>8, TakenPhase DEF ChallengeTypeOK
  <2>10. self'.recoveryStreak <= MaxStreak
    BY <2>1, <2>3, <2>7, <2>8, TakenPhase DEF ChallengeTypeOK
  <2>11. QED
    BY <2>1, <2>2, <2>5, <2>6, <2>9, <2>10, TakenHistory DEF ChallengeTypeOK
<1>3. QED
  BY <1>1, <1>2, RefusedOrTaken

LEMMA MemoryStep ==
  ASSUME ChallengeTypeOK, MemoryMatches, [ChallengeNext]_challengeVars
  PROVE  MemoryMatches'
<1>1. CASE Refused
  BY <1>1 DEF MemoryMatches, Refused
<1>2. CASE \E o \in Observations : Takes(o)
  <2>1. PICK o \in Observations : Takes(o)
    BY <1>2
  <2>2. /\ Len(accepted') = Len(accepted) + 1
        /\ accepted'[Len(accepted')] = o
        /\ Len(accepted) \in Nat
        /\ accepted' # <<>>
    BY <2>1, TakenHistory
  <2>3. Len(accepted) = self.observations
    BY <2>1, ChallengeAssumption DEF Takes, MemoryMatches, ChallengeTypeOK, ValidConfig, Challenges
  <2>4. QED
    BY <2>1, <2>2, <2>3, TakenMemory DEF MemoryMatches
<1>3. QED
  BY <1>1, <1>2, RefusedOrTaken

LEMMA FreshStep ==
  ASSUME ChallengeTypeOK, MemoryMatches, EvidenceIsFresh, [ChallengeNext]_challengeVars
  PROVE  EvidenceIsFresh'
<1>1. CASE Refused
  BY <1>1 DEF EvidenceIsFresh, Refused
<1>2. CASE \E o \in Observations : Takes(o)
  <2>1. PICK o \in Observations : Takes(o)
    BY <1>2
  <2> DEFINE n == Len(accepted)
  <2>2. /\ n \in Nat
        /\ Len(accepted') = n + 1
        /\ accepted'[n + 1] = o
        /\ \A i \in 1..n : accepted'[i] = accepted[i]
        /\ DOMAIN accepted = 1..n
        /\ DOMAIN accepted' = 1..(n + 1)
        /\ self'.issued = self.issued
    BY <2>1, TakenHistory, TakenMemory
  <2>3. n > 0 =>
          /\ self.lastTime = Timestamp(accepted[n])
          /\ self.lastFrames = FramesOf(accepted[n])
    BY <2>2 DEF MemoryMatches
  <2>4. \A i \in 1..n : Timestamp(accepted[i]) \in Nat
    BY <2>2, TimestampType DEF ChallengeTypeOK
  <2>5. n > 0 => Timestamp(accepted[n]) < Timestamp(o)
    <3>1. SUFFICES ASSUME n > 0
                   PROVE  Timestamp(accepted[n]) < Timestamp(o)
      OBVIOUS
    <3>2. Timestamp(accepted[n]) \in Nat
      BY <2>2, <2>4, <3>1
    <3>3. self.lastTime # NoTime
      BY <2>3, <3>1, <3>2, ChallengeAssumption
    <3>4. QED
      BY <2>1, <2>3, <3>1, <3>3 DEF Takes
  <2>6. n > 0 => /\ accepted[n].infrared.sequence # o.infrared.sequence
                 /\ accepted[n].visible.sequence # o.visible.sequence
    <3>1. SUFFICES ASSUME n > 0
                   PROVE  /\ accepted[n].infrared.sequence # o.infrared.sequence
                          /\ accepted[n].visible.sequence # o.visible.sequence
      OBVIOUS
    <3>2. accepted[n] \in FaceObservations
      BY <2>2, <3>1 DEF ChallengeTypeOK
    <3>3. FramesOf(accepted[n]) \in Nat \X Nat
      BY <3>2 DEF FramesOf, FaceObservations, Frames
    <3>4. self.lastFrames # NoFrames
      BY <2>3, <3>1, <3>3, ChallengeAssumption
    <3>5. ~ RepeatsFrame(self, o)
      BY <2>1 DEF Takes
    <3>6. QED
      BY <2>3, <3>1, <3>4, <3>5 DEF RepeatsFrame, FramesOf
  <2>7. /\ Skew(o) <= MaxSkew
        /\ o.faces = 1
        /\ o.pose # "invalid"
        /\ Timestamp(o) \in self.issued..(self.issued + ChallengeDuration)
    BY <2>1 DEF Takes
  <2> HIDE DEF n
  <2>8. \A i \in DOMAIN accepted' :
          /\ Skew(accepted'[i]) <= MaxSkew
          /\ accepted'[i].faces = 1
          /\ accepted'[i].pose # "invalid"
          /\ Timestamp(accepted'[i]) \in
               self'.issued..(self'.issued + ChallengeDuration)
    <3>1. SUFFICES ASSUME NEW i \in 1..(n + 1)
                   PROVE  /\ Skew(accepted'[i]) <= MaxSkew
                          /\ accepted'[i].faces = 1
                          /\ accepted'[i].pose # "invalid"
                          /\ Timestamp(accepted'[i]) \in
                               self.issued..(self.issued + ChallengeDuration)
      BY <2>2
    <3>2. CASE i = n + 1
      BY <2>2, <2>7, <3>2
    <3>3. CASE i # n + 1
      <4>1. i \in 1..n /\ accepted'[i] = accepted[i]
        BY <2>2, <3>3
      <4>2. QED
        BY <2>2, <4>1 DEF EvidenceIsFresh
    <3>4. QED
      BY <3>2, <3>3
  <2>9. \A i, j \in DOMAIN accepted' :
          i < j => Timestamp(accepted'[i]) < Timestamp(accepted'[j])
    <3>1. SUFFICES ASSUME NEW i \in 1..(n + 1), NEW j \in 1..(n + 1), i < j
                   PROVE  Timestamp(accepted'[i]) < Timestamp(accepted'[j])
      BY <2>2
    <3>2. i \in 1..n /\ accepted'[i] = accepted[i] /\ n > 0
      BY <2>2, <3>1
    <3>3. CASE j = n + 1
      <4>1. i = n \/ Timestamp(accepted[i]) < Timestamp(accepted[n])
        BY <2>2, <3>2 DEF EvidenceIsFresh
      <4>2. /\ Timestamp(accepted[i]) \in Nat
            /\ Timestamp(accepted[n]) \in Nat
            /\ Timestamp(o) \in Nat
        BY <2>1, <2>2, <2>4, <3>2, TimestampType DEF Takes
      <4>3. QED
        BY <2>2, <2>5, <3>2, <3>3, <4>1, <4>2
    <3>4. CASE j # n + 1
      <4>1. j \in 1..n /\ accepted'[j] = accepted[j]
        BY <2>2, <3>4
      <4>2. QED
        BY <2>2, <3>1, <3>2, <4>1 DEF EvidenceIsFresh
    <3>5. QED
      BY <3>3, <3>4
  <2>10. \A i \in 1..(Len(accepted') - 1) :
           /\ accepted'[i].infrared.sequence # accepted'[i + 1].infrared.sequence
           /\ accepted'[i].visible.sequence # accepted'[i + 1].visible.sequence
    <3>1. SUFFICES ASSUME NEW i \in 1..n
                   PROVE  /\ accepted'[i].infrared.sequence
                               # accepted'[i + 1].infrared.sequence
                          /\ accepted'[i].visible.sequence
                               # accepted'[i + 1].visible.sequence
      BY <2>2
    <3>2. CASE i = n
      BY <2>2, <2>6, <3>2
    <3>3. CASE i # n
      <4>1. i \in 1..(n - 1) /\ i + 1 \in 1..n
        BY <2>2, <3>3
      <4>2. accepted'[i] = accepted[i] /\ accepted'[i + 1] = accepted[i + 1]
        BY <2>2, <4>1
      <4>3. QED
        BY <4>1, <4>2 DEF EvidenceIsFresh, n
    <3>4. QED
      BY <3>2, <3>3
  <2>11. QED
    BY <2>8, <2>9, <2>10 DEF EvidenceIsFresh
<1>3. QED
  BY <1>1, <1>2, RefusedOrTaken

\* An action that the challenge waits for is under way once observed.
LEMMA ActionUnderWay ==
  ASSUME ChallengeTypeOK, ActionCounted, NEW o, Takes(o),
         self.phase = "Action", o.pose = "action"
  PROVE  \E s \in DOMAIN accepted' :
           /\ s \in 1..(Len(accepted) + 1)
           /\ \E b \in 1..(s - 1) : accepted'[b].pose = "neutral"
           /\ \A i \in s..(Len(accepted) + 1) : accepted'[i].pose = "action"
           /\ self'.actionStarted = Timestamp(accepted'[s])
           /\ self'.actionStreak <= Len(accepted) + 1 - s + 1
<1> DEFINE n == Len(accepted)
<1>1. /\ n \in Nat
      /\ Len(accepted') = n + 1
      /\ accepted'[n + 1] = o
      /\ \A i \in 1..n : accepted'[i] = accepted[i]
      /\ DOMAIN accepted = 1..n
      /\ DOMAIN accepted' = 1..(n + 1)
  BY TakenHistory
<1>2. /\ self'.actionStreak = Longer(self.actionStreak)
      /\ self'.actionStarted =
           IF self.actionStarted = NoTime
           THEN Timestamp(o) ELSE self.actionStarted
  BY TakenPhase
<1>3. self.actionStreak \in Nat /\ self.actionStreak <= MaxStreak
  BY DEF ChallengeTypeOK, Challenges
<1>4. /\ self'.actionStreak \in Nat
      /\ self'.actionStreak <= self.actionStreak + 1
  BY <1>2, <1>3, LongerBounds
<1> HIDE DEF n
<1>5. CASE self.actionStarted = NoTime
  <2>1. PICK b \in 1..n : accepted[b].pose = "neutral"
    BY <1>1 DEF ActionCounted
  <2>2. b \in 1..(n + 1 - 1) /\ accepted'[b].pose = "neutral"
    BY <1>1, <2>1
  <2>3. self.actionStreak = 0
    BY <1>5 DEF ActionCounted
  <2>4. self'.actionStreak <= n + 1 - (n + 1) + 1
    BY <1>1, <1>4, <2>3
  <2>5. \A i \in (n + 1)..(n + 1) : accepted'[i].pose = "action"
    BY <1>1
  <2>6. self'.actionStarted = Timestamp(accepted'[n + 1])
    BY <1>1, <1>2, <1>5
  <2>7. n + 1 \in 1..(n + 1)
    BY <1>1
  <2>8. QED
    BY <1>1, <2>2, <2>4, <2>5, <2>6, <2>7 DEF n
<1>6. CASE self.actionStarted # NoTime
  <2>1. PICK s \in 1..n : Acting(s)
    BY <1>1, <1>6 DEF ActionCounted
  <2>2. PICK b \in 1..(s - 1) : accepted[b].pose = "neutral"
    BY <2>1 DEF Acting
  <2>3. accepted'[b].pose = "neutral"
    BY <1>1, <2>1, <2>2
  <2>4. \A i \in s..(n + 1) : accepted'[i].pose = "action"
    <3>1. SUFFICES ASSUME NEW i \in s..(n + 1)
                   PROVE  accepted'[i].pose = "action"
      OBVIOUS
    <3>2. CASE i = n + 1
      BY <1>1, <3>2
    <3>3. CASE i # n + 1
      <4>1. i \in s..n /\ i \in 1..n
        BY <1>1, <2>1, <3>3
      <4>2. QED
        BY <1>1, <2>1, <4>1 DEF Acting, n
    <3>4. QED
      BY <3>2, <3>3
  <2>5. self'.actionStarted = Timestamp(accepted'[s])
    BY <1>1, <1>2, <1>6, <2>1 DEF Acting
  <2>6. self'.actionStreak <= n + 1 - s + 1
    <3>1. self.actionStreak <= n - s + 1
      BY <2>1 DEF Acting, n
    <3>2. QED
      BY <1>1, <1>3, <1>4, <2>1, <3>1
  <2>7. s \in 1..(n + 1)
    BY <1>1, <2>1
  <2>8. QED
    BY <1>1, <2>2, <2>3, <2>4, <2>5, <2>6, <2>7 DEF n
<1>7. QED
  BY <1>5, <1>6

LEMMA ActionStep ==
  ASSUME ChallengeTypeOK, ActionCounted, [ChallengeNext]_challengeVars
  PROVE  ActionCounted'
<1>1. CASE Refused
  BY <1>1 DEF ActionCounted, Acting, Refused
<1>2. CASE \E o \in Observations : Takes(o)
  <2>1. PICK o \in Observations : Takes(o)
    BY <1>2
  <2> DEFINE n == Len(accepted)
  <2>2. /\ n \in Nat
        /\ Len(accepted') = n + 1
        /\ accepted'[n + 1] = o
        /\ \A i \in 1..n : accepted'[i] = accepted[i]
        /\ DOMAIN accepted = 1..n
        /\ DOMAIN accepted' = 1..(n + 1)
    BY <2>1, TakenHistory
  <2>3. o \in FaceObservations /\ Timestamp(o) \in Nat
    BY <2>1, TimestampType DEF Takes
  <2> HIDE DEF n
  <2>4. CASE self.phase = "Baseline"
    <3>1. /\ self'.phase \in {"Baseline", "Action"}
          /\ self'.phase = "Action" => o.pose = "neutral"
          /\ self'.actionStreak = self.actionStreak
          /\ self'.actionStarted = self.actionStarted
      BY <2>1, <2>4, TakenPhase
    <3>2. self.actionStarted = NoTime /\ self.actionStreak = 0
      BY <2>4 DEF ActionCounted
    <3>3. self'.phase = "Action" =>
            \E b \in DOMAIN accepted' : accepted'[b].pose = "neutral"
      BY <2>2, <3>1
    <3>4. QED
      BY <3>1, <3>2, <3>3 DEF ActionCounted
  <2>5. CASE self.phase = "Action"
    <3>1. \E b \in DOMAIN accepted' : accepted'[b].pose = "neutral"
      <4>1. PICK b \in 1..n : accepted[b].pose = "neutral"
        BY <2>2, <2>5 DEF ActionCounted
      <4>2. b \in 1..(n + 1) /\ accepted'[b].pose = "neutral"
        BY <2>2, <4>1
      <4>3. QED
        BY <2>2, <4>2
    <3>2. CASE o.pose # "action"
      <4>1. /\ self'.phase = "Action"
            /\ self'.actionStreak = 0
            /\ self'.actionStarted = NoTime
        BY <2>1, <2>5, <3>2, TakenPhase
      <4>2. QED
        BY <3>1, <4>1 DEF ActionCounted
    <3>3. CASE o.pose = "action"
      <4>1. PICK s \in DOMAIN accepted' :
              /\ s \in 1..(n + 1)
              /\ \E b \in 1..(s - 1) : accepted'[b].pose = "neutral"
              /\ \A i \in s..(n + 1) : accepted'[i].pose = "action"
              /\ self'.actionStarted = Timestamp(accepted'[s])
              /\ self'.actionStreak <= n + 1 - s + 1
        BY <2>1, <2>5, <3>3, ActionUnderWay DEF n
      <4>2. Acting(s)'
        BY <2>2, <4>1 DEF Acting
      <4>3. self'.phase \in {"Action", "Recovery"}
        BY <2>1, <2>5, <3>3, TakenPhase
      <4>4. self'.actionStarted # NoTime
        <5>1. self'.actionStarted =
                IF self.actionStarted = NoTime
                THEN Timestamp(o) ELSE self.actionStarted
          BY <2>1, <2>5, <3>3, TakenPhase
        <5>2. QED
          BY <2>3, <5>1, ChallengeAssumption
      <4>5. QED
        BY <3>1, <4>2, <4>3, <4>4 DEF ActionCounted
    <3>4. QED
      BY <3>2, <3>3
  <2>6. CASE self.phase = "Recovery"
    <3>1. self'.phase \in {"Recovery", "Passed"}
      BY <2>1, <2>6, TakenPhase
    <3>2. QED
      BY <3>1 DEF ActionCounted
  <2>7. QED
    BY <2>1, <2>4, <2>5, <2>6 DEF Takes, ChallengeTypeOK, Challenges, Phases
<1>3. QED
  BY <1>1, <1>2, RefusedOrTaken

\* A performed action stays performed.
LEMMA PerformedStays ==
  ASSUME ChallengeTypeOK, NEW o, Takes(o),
         NEW first \in DOMAIN accepted, NEW last \in DOMAIN accepted,
         first <= last, Performed(first, last)
  PROVE  Performed(first, last)'
<1>1. /\ \A i \in 1..Len(accepted) : accepted'[i] = accepted[i]
      /\ DOMAIN accepted = 1..Len(accepted)
      /\ Len(accepted) \in Nat
  BY TakenHistory
<1>2. accepted'[first] = accepted[first] /\ accepted'[last] = accepted[last]
  BY <1>1
<1>3. \E b \in 1..(first - 1) : accepted'[b].pose = "neutral"
  <2>1. PICK b \in 1..(first - 1) : accepted[b].pose = "neutral"
    BY DEF Performed
  <2>2. b \in 1..Len(accepted)
    BY <1>1, <2>1
  <2>3. QED
    BY <1>1, <2>1, <2>2
<1>4. \A i \in first..last : accepted'[i].pose = "action"
  <2>1. SUFFICES ASSUME NEW i \in first..last
                 PROVE  accepted'[i].pose = "action"
    OBVIOUS
  <2>2. i \in 1..Len(accepted)
    BY <1>1
  <2>3. QED
    BY <1>1, <2>2 DEF Performed
<1>5. QED
  BY <1>2, <1>3, <1>4 DEF Performed

LEMMA RecoveryStep ==
  ASSUME ChallengeTypeOK, ActionCounted, RecoveryCounted, [ChallengeNext]_challengeVars
  PROVE  RecoveryCounted'
<1>1. CASE Refused
  BY <1>1 DEF RecoveryCounted, Performed, Refused
<1>2. CASE \E o \in Observations : Takes(o)
  <2>1. PICK o \in Observations : Takes(o)
    BY <1>2
  <2> DEFINE n == Len(accepted)
             r == self.recoveryStreak
  <2>2. /\ n \in Nat
        /\ Len(accepted') = n + 1
        /\ accepted'[n + 1] = o
        /\ \A i \in 1..n : accepted'[i] = accepted[i]
        /\ DOMAIN accepted = 1..n
        /\ DOMAIN accepted' = 1..(n + 1)
    BY <2>1, TakenHistory
  <2>3. r \in Nat /\ r <= MaxStreak
    BY DEF ChallengeTypeOK, Challenges
  <2>4. /\ ActionObservations \in Nat /\ RecoveryObservations \in Nat \ {0}
        /\ MinimumActionDuration \in Nat
    BY ChallengeAssumption DEF ValidConfig
  <2> HIDE DEF n, r
  <2>5. CASE self.phase = "Baseline"
    <3>1. self'.phase \in {"Baseline", "Action"}
      BY <2>1, <2>5, TakenPhase
    <3>2. QED
      BY <3>1 DEF RecoveryCounted
  <2>6. CASE self.phase = "Action" /\ self'.phase = "Action"
    BY <2>6 DEF RecoveryCounted
  <2>7. CASE self.phase = "Action" /\ self'.phase # "Action"
    <3>1. /\ o.pose = "action"
          /\ self'.phase = "Recovery"
          /\ self'.recoveryStreak = 0
          /\ self'.actionStreak >= ActionObservations
          /\ Timestamp(o) - self'.actionStarted >= MinimumActionDuration
      BY <2>1, <2>7, TakenPhase
    <3>2. PICK s \in DOMAIN accepted' :
            /\ s \in 1..(n + 1)
            /\ \E b \in 1..(s - 1) : accepted'[b].pose = "neutral"
            /\ \A i \in s..(n + 1) : accepted'[i].pose = "action"
            /\ self'.actionStarted = Timestamp(accepted'[s])
            /\ self'.actionStreak <= n + 1 - s + 1
      BY <2>1, <2>7, <3>1, ActionUnderWay DEF n
    <3>3. self'.actionStreak \in Nat
      BY <2>1, TakenMemory DEF Challenges
    <3>4. n + 1 - s + 1 >= ActionObservations
      BY <2>2, <2>4, <3>1, <3>2, <3>3
    <3>5. PICK last \in 1..(n + 1) : last = n + 1
      BY <2>2
    <3>6. Performed(s, last)'
      <4>1. Timestamp(accepted'[last]) - Timestamp(accepted'[s])
              >= MinimumActionDuration
        BY <2>2, <3>1, <3>2, <3>5
      <4>2. \A i \in s..last : accepted'[i].pose = "action"
        BY <3>2, <3>5
      <4>3. last - s + 1 >= ActionObservations
        BY <2>2, <2>4, <3>2, <3>4, <3>5
      <4>4. QED
        BY <3>2, <4>1, <4>2, <4>3 DEF Performed
    <3>7. /\ last \in DOMAIN accepted' /\ s <= last
          /\ last <= Len(accepted') - self'.recoveryStreak
      BY <2>2, <3>1, <3>2, <3>5
    <3>8. \A i \in (last + 1)..Len(accepted') : accepted'[i].pose = "neutral"
      BY <2>2, <3>5
    <3>9. QED
      BY <3>1, <3>2, <3>6, <3>7, <3>8 DEF RecoveryCounted
  <2>8. CASE self.phase = "Recovery"
    <3>1. PICK first \in DOMAIN accepted, last \in DOMAIN accepted :
            /\ first <= last
            /\ Performed(first, last)
            /\ last <= n - r
            /\ \A i \in (last + 1)..n : i > n - r => accepted[i].pose = "neutral"
      BY <2>8 DEF RecoveryCounted, n, r
    <3>2. Performed(first, last)'
      BY <2>1, <3>1, PerformedStays
    <3>3. first \in 1..n /\ last \in 1..n
      BY <2>2, <3>1
    <3>4. first \in DOMAIN accepted' /\ last \in DOMAIN accepted'
      BY <2>2, <3>3
    <3> HIDE DEF n
    <3>5. CASE o.pose # "neutral"
      <4>1. self'.phase = "Recovery" /\ self'.recoveryStreak = 0
        BY <2>1, <2>8, <3>5, TakenPhase
      <4>2. /\ last <= Len(accepted') - self'.recoveryStreak
            /\ \A i \in (last + 1)..Len(accepted') :
                 ~(i > Len(accepted') - self'.recoveryStreak)
        BY <2>2, <3>3, <4>1
      <4>3. QED
        BY <3>1, <3>2, <3>4, <4>1, <4>2 DEF RecoveryCounted
    <3>6. CASE o.pose = "neutral"
      <4>1. /\ self'.recoveryStreak = Longer(r)
            /\ self'.phase = "Passed" =>
                 self'.recoveryStreak >= RecoveryObservations
        BY <2>1, <2>8, <3>6, TakenPhase DEF r
      <4>2. self'.recoveryStreak \in Nat /\ self'.recoveryStreak <= r + 1
        BY <2>3, <4>1, LongerBounds
      <4>3. last <= Len(accepted') - self'.recoveryStreak
        BY <2>2, <2>3, <3>1, <3>3, <4>2
      <4>4. \A i \in (last + 1)..(n + 1) :
              i > n + 1 - self'.recoveryStreak =>
                accepted'[i].pose = "neutral"
        <5>1. SUFFICES ASSUME NEW i \in (last + 1)..(n + 1),
                              i > n + 1 - self'.recoveryStreak
                       PROVE  accepted'[i].pose = "neutral"
          OBVIOUS
        <5>2. CASE i = n + 1
          BY <2>2, <3>6, <5>2
        <5>3. CASE i # n + 1
          <6>1. i \in (last + 1)..n /\ i \in 1..n /\ i > n - r
            BY <2>2, <2>3, <3>3, <4>2, <5>1, <5>3
          <6>2. QED
            BY <2>2, <3>1, <6>1
        <5>4. QED
          BY <5>2, <5>3
      <4>5. \A i \in (last + 1)..Len(accepted') :
              i > Len(accepted') - self'.recoveryStreak =>
                accepted'[i].pose = "neutral"
        <5>1. SUFFICES ASSUME NEW i \in (last + 1)..Len(accepted'),
                              i > Len(accepted') - self'.recoveryStreak
                       PROVE  accepted'[i].pose = "neutral"
          OBVIOUS
        <5>2. i \in (last + 1)..(n + 1) /\ i > n + 1 - self'.recoveryStreak
          BY <2>2, <4>2, <5>1
        <5>3. QED
          BY <4>4, <5>2
      <4>6. QED
        BY <3>1, <3>2, <3>4, <4>1, <4>3, <4>5 DEF RecoveryCounted
    <3>7. QED
      BY <3>5, <3>6
  <2>9. QED
    BY <2>1, <2>5, <2>6, <2>7, <2>8 DEF Takes, ChallengeTypeOK, Challenges, Phases
<1>3. QED
  BY <1>1, <1>2, RefusedOrTaken

-------------------------------------------------------------------------------

LEMMA ChallengeInvInit == ChallengeInit => ChallengeInv
<1>1. SUFFICES ASSUME ChallengeInit
               PROVE  ChallengeInv
  OBVIOUS
<1>2. PICK issued \in Issues : self = Begin(issued)
  BY <1>1 DEF ChallengeInit
<1>3. accepted = <<>> /\ accepted \in Seq(FaceObservations) /\ Len(accepted) = 0
      /\ DOMAIN accepted = {}
  BY <1>1 DEF ChallengeInit
<1>4. MaxObservations \in Nat /\ MaxStreak \in Nat /\ issued \in Nat
  BY ChallengeAssumption, ObservationsAssumption DEF ValidConfig
<1>5. self \in Challenges
  BY <1>2, <1>4 DEF Begin, Challenges, Phases
<1>6. /\ self.phase = "Baseline"
      /\ self.observations = 0
      /\ self.actionStreak = 0
      /\ self.recoveryStreak = 0
      /\ self.lastTime = NoTime
      /\ self.lastFrames = NoFrames
      /\ self.actionStarted = NoTime
  BY <1>2 DEF Begin
<1>7. ChallengeTypeOK
  BY <1>3, <1>4, <1>5, <1>6 DEF ChallengeTypeOK
<1>8. MemoryMatches
  BY <1>3, <1>6 DEF MemoryMatches
<1>9. EvidenceIsFresh
  BY <1>3 DEF EvidenceIsFresh
<1>10. ActionCounted
  BY <1>6 DEF ActionCounted
<1>11. RecoveryCounted
  BY <1>6 DEF RecoveryCounted
<1>12. QED
  BY <1>7, <1>8, <1>9, <1>10, <1>11 DEF ChallengeInv

\* ChallengeInv is an invariant of every challenge.
LEMMA ChallengeInvCorrect == ChallengeSpec => []ChallengeInv
<1>1. ChallengeInv /\ [ChallengeNext]_challengeVars => ChallengeInv'
  BY TypeStep, MemoryStep, FreshStep, ActionStep, RecoveryStep DEF ChallengeInv
<1>2. QED
  BY <1>1, ChallengeInvInit, PTL DEF ChallengeSpec

\* ChallengeSession keeps its type, its budget and its saturating counters
\* under every sequence of observations.
THEOREM TypeCorrect == ChallengeSpec => []ChallengeTypeOK
<1>1. ChallengeInv => ChallengeTypeOK
  BY DEF ChallengeInv
<1>2. QED
  BY <1>1, ChallengeInvCorrect, PTL

\* observe_cancellable accepts only fresh evidence: single faces in pairs
\* within the skew, inside the challenge's time, strictly later one by one and
\* without a frame used twice in a row.
THEOREM FreshCorrect == ChallengeSpec => []EvidenceIsFresh
<1>1. ChallengeInv => EvidenceIsFresh
  BY DEF ChallengeInv
<1>2. QED
  BY <1>1, ChallengeInvCorrect, PTL

\* A challenge passes only on a neutral pose, an uninterrupted action of the
\* calibrated length and duration and an uninterrupted recovery.
THEOREM PassCorrect == ChallengeSpec => []PassIsEarned
<1>1. ChallengeInv => PassIsEarned
  <2>1. SUFFICES ASSUME ChallengeInv, self.phase = "Passed"
                 PROVE  PassIsEarned
    BY DEF PassIsEarned
  <2> DEFINE n == Len(accepted)
             r == self.recoveryStreak
             k == RecoveryObservations
  <2>2. PICK first \in DOMAIN accepted, last \in DOMAIN accepted :
          /\ first <= last
          /\ Performed(first, last)
          /\ last <= n - r
          /\ \A i \in (last + 1)..n : i > n - r => accepted[i].pose = "neutral"
    BY <2>1 DEF ChallengeInv, RecoveryCounted
  <2>3. r >= k
    BY <2>1 DEF ChallengeInv, RecoveryCounted
  <2>4. /\ n \in Nat /\ r \in Nat /\ k \in Nat \ {0}
        /\ first \in 1..n /\ last \in 1..n
    BY <2>1, <2>2, ChallengeAssumption DEF ChallengeInv, ChallengeTypeOK, Challenges, ValidConfig
  <2> HIDE DEF n, r, k
  <2>5. last <= n - k
    BY <2>2, <2>3, <2>4
  <2>6. \A i \in (n - k + 1)..n : accepted[i].pose = "neutral"
    <3>1. SUFFICES ASSUME NEW i \in (n - k + 1)..n
                   PROVE  accepted[i].pose = "neutral"
      OBVIOUS
    <3>2. i \in (last + 1)..n /\ i > n - r
      BY <2>2, <2>3, <2>4
    <3>3. QED
      BY <2>2, <3>2
  <2>7. n - (n - k + 1) + 1 >= k
    BY <2>4
  <2>8. Returned(n - k + 1, n)
    BY <2>6, <2>7 DEF Returned, k
  <2>9. QED
    BY <2>2, <2>5, <2>8 DEF PassIsEarned, n, k
<1>2. QED
  BY <1>1, ChallengeInvCorrect, PTL

-------------------------------------------------------------------------------
(***************************************************************************)
(* The converse: what the history amounts to is what the session says.     *)
(***************************************************************************)

LEMMA ExactInit == ChallengeInit => ActionExact /\ RecoveryExact
<1>1. SUFFICES ASSUME ChallengeInit PROVE ActionExact /\ RecoveryExact
  OBVIOUS
<1>2. self.phase = "Baseline" /\ DOMAIN accepted = {}
  BY <1>1 DEF ChallengeInit, Begin
<1>3. QED
  BY <1>2 DEF ActionExact, RecoveryExact

\* Nothing was performed among the earlier observations that was not performed
\* before this one was taken.
LEMMA PerformedWas ==
  ASSUME ChallengeTypeOK, NEW o, Takes(o),
         NEW last \in 1..Len(accepted), NEW first \in 1..last, Performed(first, last)'
  PROVE  Performed(first, last)
<1>1. /\ \A i \in 1..Len(accepted) : accepted'[i] = accepted[i]
      /\ Len(accepted) \in Nat
  BY TakenHistory
<1>2. first \in 1..Len(accepted)
  BY <1>1
<1>3. accepted'[first] = accepted[first] /\ accepted'[last] = accepted[last]
  BY <1>1, <1>2
<1>4. \E b \in 1..(first - 1) : accepted[b].pose = "neutral"
  <2>1. PICK b \in 1..(first - 1) : accepted'[b].pose = "neutral"
    BY DEF Performed
  <2>2. b \in 1..Len(accepted)
    BY <1>1, <1>2, <2>1
  <2>3. QED
    BY <1>1, <2>1, <2>2
<1>5. \A i \in first..last : accepted[i].pose = "action"
  <2>1. SUFFICES ASSUME NEW i \in first..last
                 PROVE  accepted[i].pose = "action"
    OBVIOUS
  <2>2. i \in 1..Len(accepted)
    BY <1>1, <1>2
  <2>3. QED
    BY <1>1, <2>2 DEF Performed
<1>6. QED
  BY <1>3, <1>4, <1>5 DEF Performed

LEMMA ReturnedWas ==
  ASSUME ChallengeTypeOK, NEW o, Takes(o),
         NEW first \in 1..Len(accepted), NEW last \in 1..Len(accepted),
         Returned(first, last)'
  PROVE  Returned(first, last)
<1>1. /\ \A i \in 1..Len(accepted) : accepted'[i] = accepted[i]
      /\ Len(accepted) \in Nat
  BY TakenHistory
<1>2. \A i \in first..last : i \in 1..Len(accepted)
  BY <1>1
<1>3. QED
  BY <1>1, <1>2 DEF Returned

\* A run of action poses that ends with the newest observation is no longer
\* than the streak, and no older than its start.
LEMMA StreakIsEnough ==
  ASSUME ChallengeInv, ChallengeInv', ActionExact, NEW o, Takes(o),
         self.phase = "Action", o.pose = "action",
         NEW last, last = Len(accepted) + 1, NEW first \in 1..last, Performed(first, last)'
  PROVE  /\ self'.actionStreak >= ActionObservations
         /\ Timestamp(o) - self'.actionStarted >= MinimumActionDuration
<1> DEFINE n == Len(accepted)
<1>1. /\ n \in Nat
      /\ Len(accepted') = n + 1
      /\ accepted'[n + 1] = o
      /\ \A i \in 1..n : accepted'[i] = accepted[i]
      /\ DOMAIN accepted = 1..n
      /\ DOMAIN accepted' = 1..(n + 1)
  BY TakenHistory DEF ChallengeInv
<1>2. /\ self'.actionStreak = Longer(self.actionStreak)
      /\ self'.actionStarted =
           IF self.actionStarted = NoTime THEN Timestamp(o) ELSE self.actionStarted
  BY TakenPhase DEF ChallengeInv
<1>3. /\ \A i \in first..(n + 1) : accepted'[i].pose = "action"
      /\ n + 1 - first + 1 >= ActionObservations
      /\ Timestamp(o) - Timestamp(accepted'[first]) >= MinimumActionDuration
      /\ first > 1
  <2>1. PICK b \in 1..(first - 1) : TRUE
    BY DEF Performed
  <2>2. first > 1
    BY <1>1, <2>1
  <2>3. /\ \A i \in first..last : accepted'[i].pose = "action"
        /\ last - first + 1 >= ActionObservations
        /\ Timestamp(accepted'[last]) - Timestamp(accepted'[first])
             >= MinimumActionDuration
    BY DEF Performed
  <2>4. QED
    BY <1>1, <2>2, <2>3
<1>4. /\ MaxStreak \in Nat /\ ActionObservations \in Nat
      /\ ActionObservations <= MaxStreak /\ MinimumActionDuration \in Nat
      /\ self.actionStreak \in Nat /\ self.actionStreak <= MaxStreak
  BY ChallengeAssumption DEF ValidConfig, ChallengeInv, ChallengeTypeOK, Challenges
<1> HIDE DEF n
<1>5. \A i \in 1..(n + 1) : Timestamp(accepted'[i]) \in Nat
  BY <1>1, TimestampType DEF ChallengeInv, ChallengeTypeOK
<1>6. \A i, j \in 1..(n + 1) : i <= j => Timestamp(accepted'[i]) <= Timestamp(accepted'[j])
  <2>1. \A i, j \in 1..(n + 1) : i < j => Timestamp(accepted'[i]) < Timestamp(accepted'[j])
    BY <1>1 DEF ChallengeInv, EvidenceIsFresh
  <2>2. QED
    BY <1>5, <2>1
\* The run began with observation s: n + 1 - s + 1 long, or saturated.
<1>7. \E s \in 2..(n + 1) :
        /\ first >= s
        /\ self'.actionStarted = Timestamp(accepted'[s])
        /\ \/ self'.actionStreak >= n + 1 - s + 1
           \/ self'.actionStreak >= MaxStreak
  <2>1. CASE self.actionStarted = NoTime
    <3>1. n \in 1..n /\ accepted'[n].pose # "action"
      <4>1. \E b \in DOMAIN accepted : accepted[b].pose = "neutral"
        BY DEF ChallengeInv, ActionCounted
      <4>2. n \in 1..n
        BY <1>1, <4>1
      <4>3. accepted[n].pose # "action"
        BY <2>1 DEF ActionExact, n
      <4>4. QED
        BY <1>1, <4>2, <4>3
    <3>2. first = n + 1
      <4>1. n \in first..(n + 1) => FALSE
        BY <1>3, <3>1
      <4>2. QED
        BY <1>1, <4>1
    <3>3. self'.actionStreak >= 1
      <4>1. 1 >= ActionObservations /\ ActionObservations \in Nat \ {0}
        BY <1>1, <1>3, <3>2, ChallengeAssumption DEF ValidConfig
      <4>2. MaxStreak >= 1
        BY <1>4, <4>1
      <4>3. QED
        BY <1>2, <1>4, <4>2 DEF Longer
    <3>4. QED
      BY <1>1, <1>2, <1>4, <2>1, <3>1, <3>2, <3>3
  <2>2. CASE self.actionStarted # NoTime
    <3>1. PICK s \in 1..n :
            /\ s > 1 /\ accepted[s - 1].pose # "action"
            /\ self.actionStarted = Timestamp(accepted[s])
            /\ \/ self.actionStreak >= n - s + 1
               \/ self.actionStreak >= MaxStreak
      BY <1>1, <2>2 DEF ActionExact, n
    <3>2. s - 1 \in 1..n /\ accepted'[s - 1].pose # "action"
      BY <1>1, <3>1
    <3>3. first >= s
      BY <1>1, <1>3, <3>1, <3>2
    <3>4. \/ self'.actionStreak >= n + 1 - s + 1
          \/ self'.actionStreak >= MaxStreak
      BY <1>1, <1>2, <1>4, <3>1 DEF Longer
    <3>5. accepted'[s] = accepted[s] /\ s \in 2..(n + 1)
      BY <1>1, <3>1
    <3>6. QED
      BY <1>2, <2>2, <3>1, <3>3, <3>4, <3>5
  <2>3. QED
    BY <2>1, <2>2
<1>8. PICK s \in 2..(n + 1) :
        /\ first >= s
        /\ self'.actionStarted = Timestamp(accepted'[s])
        /\ \/ self'.actionStreak >= n + 1 - s + 1
           \/ self'.actionStreak >= MaxStreak
  BY <1>7
<1>9. self'.actionStreak \in Nat
  BY DEF ChallengeInv, ChallengeTypeOK, Challenges
<1>10. self'.actionStreak >= ActionObservations
  BY <1>1, <1>3, <1>4, <1>8, <1>9
<1>11. Timestamp(accepted'[s]) <= Timestamp(accepted'[first])
  BY <1>1, <1>6, <1>8 DEF n
<1>12. Timestamp(o) \in Nat /\ Timestamp(accepted'[s]) \in Nat
       /\ Timestamp(accepted'[first]) \in Nat
  BY <1>1, <1>5, <1>8 DEF n
<1>13. QED
  BY <1>3, <1>4, <1>8, <1>10, <1>11, <1>12

\* Nothing is performed while the session waits for the action.
LEMMA StillUnperformed ==
  ASSUME ChallengeInv, ChallengeInv', ActionExact, NEW o, Takes(o),
         self.phase = "Action", self'.phase = "Action",
         NEW last \in DOMAIN accepted', NEW first \in 1..last
  PROVE  ~Performed(first, last)'
<1> DEFINE n == Len(accepted)
<1>1. /\ n \in Nat
      /\ accepted'[n + 1] = o
      /\ DOMAIN accepted = 1..n
      /\ DOMAIN accepted' = 1..(n + 1)
  BY TakenHistory DEF ChallengeInv
<1>2. CASE last # n + 1
  <2>1. last \in 1..n
    BY <1>1, <1>2
  <2>2. ~Performed(first, last)
    BY <1>1, <2>1 DEF ActionExact
  <2>3. QED
    BY <2>1, <2>2, PerformedWas DEF ChallengeInv
<1>3. CASE last = n + 1 /\ o.pose = "action"
  <2>1. ~(/\ self'.actionStreak >= ActionObservations
          /\ Timestamp(o) - self'.actionStarted >= MinimumActionDuration)
    BY <1>3, TakenPhase DEF ChallengeInv
  <2>2. QED
    BY <1>3, <2>1, StreakIsEnough
<1>4. CASE last = n + 1 /\ o.pose # "action"
  <2>1. last \in first..last
    BY <1>1
  <2>2. QED
    BY <1>1, <1>4, <2>1 DEF Performed
<1>5. QED
  BY <1>2, <1>3, <1>4

LEMMA ActionExactStep ==
  ASSUME ChallengeInv, ChallengeInv', ActionExact, [ChallengeNext]_challengeVars
  PROVE  ActionExact'
<1>1. CASE Refused
  BY <1>1 DEF ActionExact, Performed, Refused
<1>2. ASSUME NEW o \in Observations, Takes(o) PROVE ActionExact'
  <2> DEFINE n == Len(accepted)
  <2>1. /\ n \in Nat
        /\ Len(accepted') = n + 1
        /\ accepted'[n + 1] = o
        /\ \A i \in 1..n : accepted'[i] = accepted[i]
        /\ DOMAIN accepted = 1..n
        /\ DOMAIN accepted' = 1..(n + 1)
    BY <1>2, TakenHistory DEF ChallengeInv
  <2>2. /\ MaxStreak \in Nat /\ self.actionStreak \in Nat
        /\ self.actionStreak <= MaxStreak
        /\ Timestamp(o) \in Nat /\ NoTime \notin Nat
    BY <1>2, TimestampType, ChallengeAssumption DEF ChallengeInv, ChallengeTypeOK, Challenges, Takes
  <2> HIDE DEF n
  <2>3. CASE self.phase = "Baseline"
    <3>1. /\ self'.phase \in {"Baseline", "Action"}
          /\ self'.phase = "Action" <=> o.pose = "neutral"
          /\ self'.actionStarted = self.actionStarted
          /\ self.actionStarted = NoTime
      BY <1>2, <2>3, TakenPhase DEF ChallengeInv, ActionCounted
    <3>2. \A i \in 1..n : accepted'[i].pose # "neutral"
      BY <2>1, <2>3 DEF ActionExact
    <3>3. \A i \in DOMAIN accepted' : accepted'[i].pose # "neutral" \/ i = n + 1
      BY <2>1, <3>2
    <3>4. \A last \in DOMAIN accepted' : \A first \in 1..last :
            ~ \E b \in 1..(first - 1) : accepted'[b].pose = "neutral"
      BY <2>1, <3>2
    <3>5. \A last \in DOMAIN accepted' : \A first \in 1..last : ~Performed(first, last)'
      BY <3>4 DEF Performed
    <3>6. QED
      BY <2>1, <3>1, <3>3, <3>5 DEF ActionExact
  <2>4. CASE self.phase = "Action" /\ self'.phase = "Action"
    <3>1. \A last \in DOMAIN accepted' : \A first \in 1..last : ~Performed(first, last)'
      BY <1>2, <2>4, StillUnperformed
    <3>2. CASE o.pose # "action"
      <4>1. self'.actionStarted = NoTime
        BY <1>2, <2>4, <3>2, TakenPhase DEF ChallengeInv
      <4>2. QED
        BY <2>1, <2>4, <3>1, <3>2, <4>1 DEF ActionExact
    <3>3. CASE o.pose = "action"
      <4>1. /\ self'.actionStreak = Longer(self.actionStreak)
            /\ self'.actionStarted =
                 IF self.actionStarted = NoTime
                 THEN Timestamp(o) ELSE self.actionStarted
        BY <1>2, <2>4, <3>3, TakenPhase DEF ChallengeInv
      <4>2. self'.actionStarted # NoTime
        BY <2>2, <4>1
      <4>3. CASE self.actionStarted = NoTime
        <5>1. n \in 1..n /\ accepted'[n].pose # "action"
          <6>1. \E b \in 1..n : accepted[b].pose = "neutral"
            BY <2>1, <2>4 DEF ChallengeInv, ActionCounted
          <6>2. n \in 1..n
            BY <2>1, <6>1
          <6>3. accepted[n].pose # "action"
            BY <2>4, <4>3 DEF ActionExact, n
          <6>4. QED
            BY <2>1, <6>2, <6>3
        <5>2. n + 1 \in DOMAIN accepted' /\ n + 1 > 1 /\ accepted'[(n + 1) - 1].pose # "action"
          BY <2>1, <5>1
        <5>3. self'.actionStarted = Timestamp(accepted'[n + 1])
          BY <2>1, <4>1, <4>3
        <5>4. \/ self'.actionStreak >= Len(accepted') - (n + 1) + 1
              \/ self'.actionStreak >= MaxStreak
          <6>1. Len(accepted') - (n + 1) + 1 = 1
            BY <2>1
          <6>2. self'.actionStreak >= 1 \/ self'.actionStreak >= MaxStreak
            BY <2>2, <4>1 DEF Longer
          <6>3. QED
            BY <6>1, <6>2
        <5>5. QED
          BY <2>4, <3>1, <4>2, <5>2, <5>3, <5>4 DEF ActionExact
      <4>4. CASE self.actionStarted # NoTime
        <5>1. PICK s \in 1..n :
                /\ s > 1 /\ accepted[s - 1].pose # "action"
                /\ self.actionStarted = Timestamp(accepted[s])
                /\ \/ self.actionStreak >= n - s + 1
                   \/ self.actionStreak >= MaxStreak
          BY <2>1, <2>4, <4>4 DEF ActionExact, n
        <5>2. /\ s \in DOMAIN accepted' /\ s - 1 \in 1..n
              /\ accepted'[s] = accepted[s] /\ accepted'[s - 1] = accepted[s - 1]
          BY <2>1, <5>1
        <5>3. \/ self'.actionStreak >= Len(accepted') - s + 1
              \/ self'.actionStreak >= MaxStreak
          BY <2>1, <2>2, <4>1, <5>1 DEF Longer
        <5>4. self'.actionStarted = Timestamp(accepted'[s])
          BY <4>1, <4>4, <5>1, <5>2
        <5>5. QED
          BY <2>4, <3>1, <4>2, <5>1, <5>2, <5>3, <5>4 DEF ActionExact
      <4>5. QED
        BY <4>3, <4>4
    <3>4. QED
      BY <3>2, <3>3
  <2>5. CASE self'.phase \notin {"Baseline", "Action"}
    BY <2>5 DEF ActionExact
  <2>6. CASE self.phase = "Recovery"
    <3>1. self'.phase \in {"Recovery", "Passed"}
      BY <1>2, <2>6, TakenPhase DEF ChallengeInv
    <3>2. QED
      BY <3>1 DEF ActionExact
  <2>7. self.phase = "Action" => self'.phase # "Baseline"
    <3>1. CASE o.pose = "action"
      BY <1>2, <3>1, TakenPhase DEF ChallengeInv
    <3>2. CASE o.pose # "action"
      BY <1>2, <3>2, TakenPhase DEF ChallengeInv
    <3>3. QED
      BY <3>1, <3>2
  <2>8. QED
    BY <1>2, <2>3, <2>4, <2>5, <2>6, <2>7 DEF Takes, ChallengeInv, ChallengeTypeOK, Challenges, Phases
<1>3. QED
  BY <1>1, <1>2, RefusedOrTaken DEF ChallengeInv

\* The action that is performed first ends with the observation that makes the
\* session wait for the recovery.
LEMMA RecoveryBegins ==
  ASSUME ChallengeInv, ChallengeInv', ActionExact, NEW o, Takes(o),
         self.phase = "Action", self'.phase = "Recovery"
  PROVE  RecoveryExact'
<1> DEFINE n == Len(accepted)
<1>1. /\ n \in Nat
      /\ Len(accepted') = n + 1
      /\ accepted'[n + 1] = o
      /\ DOMAIN accepted = 1..n
      /\ DOMAIN accepted' = 1..(n + 1)
  BY TakenHistory DEF ChallengeInv
<1>2. self'.recoveryStreak = 0 /\ o.pose = "action"
  BY TakenPhase DEF ChallengeInv
<1>3. \A last \in 1..n : \A first \in 1..last : ~Performed(first, last)'
  BY <1>1, PerformedWas DEF ChallengeInv, ActionExact
<1> HIDE DEF n
<1>4. PICK first \in 1..(n + 1), last \in 1..(n + 1) :
        first <= last /\ Performed(first, last)'
  BY <1>1 DEF ChallengeInv, RecoveryCounted
<1>5. last = n + 1
  BY <1>1, <1>3, <1>4
<1>6. \E f \in 1..last : Performed(f, last)'
  BY <1>1, <1>4
<1>7. \A l \in 1..(last - 1) : \A f \in 1..l : ~Performed(f, l)'
  BY <1>1, <1>3, <1>5
<1>8. \A f, l \in (last + 1)..Len(accepted') : ~Returned(f, l)'
  BY <1>1, <1>5
<1>9. /\ last \in last..Len(accepted')
      /\ accepted'[last].pose # "neutral"
      /\ self'.recoveryStreak >= Len(accepted') - last
  BY <1>1, <1>2, <1>5
<1>10. QED
  BY <1>1, <1>6, <1>7, <1>8, <1>9 DEF RecoveryExact

\* While the session waits for the recovery, none was complete.
LEMMA RecoveryGoesOn ==
  ASSUME ChallengeInv, RecoveryExact, NEW o, Takes(o),
         self.phase = "Recovery", self'.phase = "Recovery"
  PROVE  RecoveryExact'
<1> DEFINE n == Len(accepted)
<1>1. /\ n \in Nat
      /\ Len(accepted') = n + 1
      /\ accepted'[n + 1] = o
      /\ \A i \in 1..n : accepted'[i] = accepted[i]
      /\ DOMAIN accepted = 1..n
      /\ DOMAIN accepted' = 1..(n + 1)
  BY TakenHistory DEF ChallengeInv
<1>2. /\ RecoveryObservations \in Nat /\ MaxStreak \in Nat
      /\ RecoveryObservations <= MaxStreak
      /\ self.recoveryStreak \in Nat /\ self.recoveryStreak <= MaxStreak
  BY ChallengeAssumption DEF ValidConfig, ChallengeInv, ChallengeTypeOK, Challenges
<1> HIDE DEF n
<1>3. PICK a \in 1..n :
        /\ \E first \in 1..a : Performed(first, a)
        /\ \A last \in 1..(a - 1) : \A first \in 1..last : ~Performed(first, last)
        /\ \A first, last \in (a + 1)..n : ~Returned(first, last)
        /\ \E t \in a..n :
             /\ accepted[t].pose # "neutral"
             /\ \/ self.recoveryStreak >= n - t
                \/ self.recoveryStreak >= MaxStreak
  BY <1>1 DEF RecoveryExact, n
<1>4. \E first \in 1..a : Performed(first, a)'
  <2>1. PICK first \in 1..a : Performed(first, a)
    BY <1>3
  <2>2. first \in DOMAIN accepted /\ a \in DOMAIN accepted /\ first <= a
    BY <1>1, <1>3
  <2>3. QED
    BY <2>1, <2>2, PerformedStays DEF ChallengeInv
<1>5. \A last \in 1..(a - 1) : \A first \in 1..last : ~Performed(first, last)'
  <2>1. \A last \in 1..(a - 1) : last \in 1..n
    BY <1>1
  <2>2. QED
    BY <1>3, <2>1, PerformedWas DEF ChallengeInv, n
<1>6. PICK t \in a..n :
        /\ accepted[t].pose # "neutral"
        /\ \/ self.recoveryStreak >= n - t
           \/ self.recoveryStreak >= MaxStreak
  BY <1>3
\* The last pose that was not neutral, and the streak since then.
<1>7. \E u \in a..(n + 1) :
        /\ accepted'[u].pose # "neutral"
        /\ \/ self'.recoveryStreak >= n + 1 - u
           \/ self'.recoveryStreak >= MaxStreak
        /\ o.pose # "neutral" => u = n + 1
  <2>1. CASE o.pose = "neutral"
    <3>1. self'.recoveryStreak = Longer(self.recoveryStreak)
      BY <2>1, TakenPhase DEF ChallengeInv
    <3>2. \/ self'.recoveryStreak >= n + 1 - t
          \/ self'.recoveryStreak >= MaxStreak
      BY <1>1, <1>2, <1>6, <3>1 DEF Longer
    <3>3. accepted'[t] = accepted[t] /\ t \in a..(n + 1)
      BY <1>1, <1>3
    <3>4. QED
      BY <1>6, <2>1, <3>2, <3>3
  <2>2. CASE o.pose # "neutral"
    <3>1. self'.recoveryStreak = 0
      BY <2>2, TakenPhase DEF ChallengeInv
    <3>2. QED
      BY <1>1, <1>3, <2>2, <3>1
  <2>3. QED
    BY <2>1, <2>2
<1>8. PICK u \in a..(n + 1) :
        /\ accepted'[u].pose # "neutral"
        /\ \/ self'.recoveryStreak >= n + 1 - u
           \/ self'.recoveryStreak >= MaxStreak
        /\ o.pose # "neutral" => u = n + 1
  BY <1>7
<1>9. ~(self'.recoveryStreak >= RecoveryObservations) \/ u = n + 1
  BY <1>8, TakenPhase DEF ChallengeInv
<1>10. self'.recoveryStreak \in Nat
  BY TakenMemory DEF ChallengeInv, Challenges
<1>11. ASSUME NEW first \in (a + 1)..(n + 1), NEW last \in (a + 1)..(n + 1)
       PROVE  ~Returned(first, last)'
  <2>1. SUFFICES ASSUME Returned(first, last)' PROVE FALSE
    OBVIOUS
  <2>2. /\ \A i \in first..last : accepted'[i].pose = "neutral"
        /\ last - first + 1 >= RecoveryObservations
    BY <2>1 DEF Returned
  <2>3. CASE last # n + 1
    <3>1. first <= last
      BY <1>1, <1>2, <1>3, <2>2, ChallengeAssumption DEF ValidConfig
    <3>2. /\ first \in (a + 1)..n /\ last \in (a + 1)..n
          /\ first \in 1..n /\ last \in 1..n
      BY <1>1, <1>3, <2>3, <3>1
    <3>3. Returned(first, last)
      BY <2>1, <3>2, ReturnedWas DEF ChallengeInv, n
    <3>4. QED
      BY <1>3, <3>2, <3>3
  <2>4. CASE last = n + 1
    <3>1. u \in first..last => FALSE
      BY <1>8, <2>2
    <3>2. first > u
      BY <1>1, <1>3, <1>8, <2>4, <3>1
    <3>3. u # n + 1
      BY <1>1, <1>3, <1>8, <3>2
    <3>4. self'.recoveryStreak >= RecoveryObservations
      BY <1>1, <1>2, <1>3, <1>8, <1>10, <2>2, <2>4, <3>2
    <3>5. QED
      BY <1>9, <3>3, <3>4
  <2>5. QED
    BY <2>3, <2>4
<1>12. a \in DOMAIN accepted'
  BY <1>1
<1>13. \A first, last \in (a + 1)..Len(accepted') : ~Returned(first, last)'
  BY <1>1, <1>11
<1>14. \E v \in a..Len(accepted') :
         /\ accepted'[v].pose # "neutral"
         /\ \/ self'.recoveryStreak >= Len(accepted') - v
            \/ self'.recoveryStreak >= MaxStreak
  BY <1>1, <1>8
<1>15. QED
  BY <1>4, <1>5, <1>12, <1>13, <1>14, Zenon DEF RecoveryExact

LEMMA RecoveryExactStep ==
  ASSUME ChallengeInv, ChallengeInv', ActionExact, RecoveryExact,
         [ChallengeNext]_challengeVars
  PROVE  RecoveryExact'
<1>1. CASE Refused
  BY <1>1 DEF RecoveryExact, Performed, Returned, Refused
<1>2. ASSUME NEW o \in Observations, Takes(o) PROVE RecoveryExact'
  <2>1. CASE self'.phase # "Recovery"
    BY <2>1 DEF RecoveryExact
  <2>2. self.phase \in {"Baseline", "Action", "Recovery"}
    BY <1>2 DEF Takes, ChallengeInv, ChallengeTypeOK, Challenges, Phases
  <2>3. self.phase = "Baseline" => self'.phase # "Recovery"
    BY <1>2, TakenPhase DEF ChallengeInv
  <2>4. QED
    BY <1>2, <2>1, <2>2, <2>3, RecoveryBegins, RecoveryGoesOn
<1>3. QED
  BY <1>1, <1>2, RefusedOrTaken DEF ChallengeInv

\* What the history amounts to in each phase.
LEMMA PhaseMatches ==
  ASSUME ChallengeInv, PassIsEarned, ActionExact, RecoveryExact PROVE PhaseIsEarned
<1> DEFINE n == Len(accepted)
           performed == {last \in 1..n : \E first \in 1..last : Performed(first, last)}
           recovered == \E a \in performed : \E first \in (a + 1)..n, last \in (a + 1)..n :
                          Returned(first, last)
<1>1. n \in Nat /\ DOMAIN accepted = 1..n
  BY DEF ChallengeInv, ChallengeTypeOK
<1>2. PhaseOfHistory =
        IF recovered THEN "Passed"
        ELSE IF performed # {} THEN "Recovery"
        ELSE IF \E b \in 1..n : accepted[b].pose = "neutral" THEN "Action"
        ELSE "Baseline"
  BY DEF PhaseOfHistory
<1>3. RecoveryObservations \in Nat \ {0}
  BY ChallengeAssumption DEF ValidConfig
<1>4. CASE self.phase = "Passed"
  <2>1. PICK first \in 1..n, last \in 1..n :
          /\ first <= last
          /\ Performed(first, last)
          /\ Returned(n - RecoveryObservations + 1, n)
          /\ last <= n - RecoveryObservations
    BY <1>1, <1>4 DEF PassIsEarned
  <2>2. last \in performed
    BY <1>1, <2>1
  <2>3. n - RecoveryObservations + 1 \in (last + 1)..n /\ n \in (last + 1)..n
    BY <1>1, <1>3, <2>1
  <2>4. recovered
    BY <2>1, <2>2, <2>3
  <2>5. QED
    BY <1>2, <1>4, <2>4 DEF PhaseIsEarned
<1>5. CASE self.phase = "Recovery"
  <2>1. PICK a \in 1..n :
          /\ \E first \in 1..a : Performed(first, a)
          /\ \A last \in 1..(a - 1) : \A first \in 1..last : ~Performed(first, last)
          /\ \A first, last \in (a + 1)..n : ~Returned(first, last)
    BY <1>1, <1>5 DEF RecoveryExact
  <2>2. a \in performed
    BY <2>1
  <2>3. \A b \in performed : b >= a
    <3>1. \A b \in 1..n : b < a => b \in 1..(a - 1)
      BY <1>1
    <3>2. QED
      BY <1>1, <2>1, <3>1
  <2>4. \A b \in performed : \A i \in (b + 1)..n : i \in (a + 1)..n
    BY <1>1, <2>3
  <2> HIDE DEF n, performed
  <2>5. ~recovered
    BY <2>1, <2>4
  <2>6. QED
    BY <1>2, <1>5, <2>2, <2>5 DEF PhaseIsEarned
<1>6. CASE self.phase = "Action"
  <2>1. performed = {}
    BY <1>1, <1>6 DEF ActionExact
  <2>2. \E b \in 1..n : accepted[b].pose = "neutral"
    BY <1>1, <1>6 DEF ChallengeInv, ActionCounted
  <2>3. QED
    BY <1>2, <1>6, <2>1, <2>2 DEF PhaseIsEarned
<1>7. CASE self.phase = "Baseline"
  <2>1. ~ \E b \in 1..n : accepted[b].pose = "neutral"
    BY <1>1, <1>7 DEF ActionExact
  <2>2. ASSUME NEW last \in 1..n, NEW first \in 1..last, Performed(first, last)
        PROVE  FALSE
    <3>1. PICK b \in 1..(first - 1) : accepted[b].pose = "neutral"
      BY <2>2 DEF Performed
    <3>2. b \in 1..n
      BY <1>1, <3>1
    <3>3. QED
      BY <2>1, <3>1, <3>2
  <2>3. performed = {}
    BY <2>2
  <2>4. QED
    BY <1>2, <1>7, <2>1, <2>3 DEF PhaseIsEarned
<1>8. QED
  BY <1>4, <1>5, <1>6, <1>7 DEF ChallengeInv, ChallengeTypeOK, Challenges, Phases

\* The counters of observe_action and observe_recovery recognise exactly a
\* neutral pose, an uninterrupted action of the calibrated length and duration
\* and an uninterrupted recovery: no challenge passes that did not earn it, and
\* none that earned it is held back.
THEOREM PhaseCorrect == ChallengeSpec => []PhaseIsEarned
<1>1. ChallengeInv /\ ChallengeInv' /\ ActionExact /\ RecoveryExact /\ [ChallengeNext]_challengeVars
        => ActionExact' /\ RecoveryExact'
  BY ActionExactStep, RecoveryExactStep
<1>2. ChallengeInv /\ PassIsEarned /\ ActionExact /\ RecoveryExact => PhaseIsEarned
  BY PhaseMatches
<1>3. QED
  BY <1>1, <1>2, ExactInit, ChallengeInvCorrect, PassCorrect, PTL DEF ChallengeSpec


-------------------------------------------------------------------------------
(***************************************************************************)
(* The samples of an enrollment.                                           *)
(***************************************************************************)

\* What is true of the samples that an EnrollmentSession has accepted, whenever
\* it is looked at.
SoundSamples(en) ==
  /\ Len(en.samples) <= MaximumSamples
  /\ en.samples # <<>> => en.lastTime = en.samples[Len(en.samples)].time
  /\ \A i, j \in DOMAIN en.samples :
       i < j => /\ en.samples[i].time + SampleInterval <= en.samples[j].time
                /\ Similar(en.samples[i].embedding, en.samples[j].embedding)
  /\ \A i \in DOMAIN en.samples :
       /\ en.samples[i].time > en.issued
       /\ en.samples[i].time < Deadline(en)

\* Whether a sample in the session is one that was there, or this one.
OldOrAt(en, after, time) ==
  \A i \in DOMAIN after.samples :
    \/ after.samples[i].time = time
    \/ i \in DOMAIN en.samples /\ after.samples[i] = en.samples[i]

Offered == [time : Nat, quality : {"good", "low"},
            passive : {"live", "spoof", "error"}, embedding : Nat,
            yaw : Nat \cup {InvalidYaw}]

\* What is true of an observation that EnrollmentSession::observe accepts.
LEMMA SampleAccepts ==
  ASSUME NEW en, NEW o, SampleRefusal(en, o) = "None"
  PROVE  /\ ~ StaleObservation(en, o.time)
         /\ o.yaw # InvalidYaw
         /\ ~(Len(en.samples) >= MaximumSamples)
         /\ \A i \in DOMAIN en.samples :
              Similar(en.samples[i].embedding, o.embedding)
BY DEF SampleRefusal

\* The sample that is accepted, and the session that has it.
SampleOf(o) == [time |-> o.time, embedding |-> o.embedding, yaw |-> o.yaw]
Extended(en, o) ==
  [en EXCEPT !.lastTime = o.time, !.samples = Append(@, SampleOf(o))]

LEMMA ExtendedFields ==
  ASSUME NEW en \in Enrollments, NEW o \in Offered, o.yaw # InvalidYaw
  PROVE  /\ Extended(en, o) \in Enrollments
         /\ Extended(en, o).issued = en.issued
         /\ Extended(en, o).lastTime = o.time
         /\ Extended(en, o).samples = Append(en.samples, SampleOf(o))
         /\ SampleOf(o) \in Samples
         /\ en.samples \in Seq(Samples)
<1>1. SampleOf(o) \in Samples /\ o.time \in Nat
  BY DEF SampleOf, Samples, Offered
<1>2. en.samples \in Seq(Samples)
  BY DEF Enrollments
<1> HIDE DEF Samples
<1>3. Append(en.samples, SampleOf(o)) \in Seq(Samples)
  BY <1>1, <1>2
<1>4. QED
  BY <1>1, <1>2, <1>3 DEF Extended, Enrollments

\* An accepted sample comes late enough after the last one, inside the time of
\* the enrollment, and is like all the others.
LEMMA ExtendedSound ==
  ASSUME NEW en \in Enrollments, NEW o \in Offered, SoundSamples(en),
         SampleRefusal(en, o) = "None"
  PROVE  /\ SoundSamples(Extended(en, o))
         /\ OldOrAt(en, Extended(en, o), o.time)
<1> DEFINE n == Len(en.samples)
           s == Extended(en, o).samples
<1>1. /\ o.yaw # InvalidYaw
      /\ ~ StaleObservation(en, o.time)
      /\ ~(n >= MaximumSamples)
      /\ \A i \in DOMAIN en.samples : Similar(en.samples[i].embedding, o.embedding)
  BY SampleAccepts
<1>2. /\ Extended(en, o).issued = en.issued
      /\ Extended(en, o).lastTime = o.time
      /\ s = Append(en.samples, SampleOf(o))
      /\ en.samples \in Seq(Samples)
  BY <1>1, ExtendedFields
<1>3. /\ n \in Nat /\ DOMAIN en.samples = 1..n
      /\ DOMAIN s = 1..(n + 1) /\ Len(s) = n + 1
      /\ s[n + 1] = SampleOf(o)
      /\ \A i \in 1..n : s[i] = en.samples[i] /\ en.samples[i] \in Samples
      /\ s # <<>>
  BY <1>2
<1>4. /\ o.time \in Nat /\ SampleInterval \in Nat \ {0} /\ MaximumSamples \in Nat
      /\ NoSample \notin Nat
      /\ \A i \in 1..n : en.samples[i].time \in Nat
  BY <1>3, EnrollmentAssumption DEF ValidEnrollment, Offered, Samples
<1>5. SampleOf(o).time = o.time /\ SampleOf(o).embedding = o.embedding
  BY DEF SampleOf
<1> HIDE DEF n, s
<1>6. n + 1 <= MaximumSamples
  BY <1>1, <1>3, <1>4
<1>7. o.time > en.issued /\ o.time < Deadline(en)
  <2>1. en.issued \in Nat /\ Deadline(en) \in Nat
    BY EnrollmentAssumption DEF Enrollments, Deadline, ValidEnrollment
  <2>2. QED
    BY <1>1, <1>4, <2>1 DEF StaleObservation
<1>8. \A i \in 1..n : en.samples[i].time + SampleInterval <= o.time
  <2>1. SUFFICES ASSUME NEW i \in 1..n
                 PROVE  en.samples[i].time + SampleInterval <= o.time
    OBVIOUS
  <2>2. n \in 1..n /\ en.lastTime = en.samples[n].time
    BY <1>3 DEF SoundSamples, n
  <2>3. en.lastTime + SampleInterval <= o.time
    BY <1>1, <1>4, <2>2 DEF StaleObservation
  <2>4. i < n => en.samples[i].time + SampleInterval <= en.samples[n].time
    BY <1>3, <2>2 DEF SoundSamples
  <2>5. QED
    BY <1>3, <1>4, <2>2, <2>3, <2>4
<1>9. \A i, j \in 1..(n + 1) :
        i < j => /\ s[i].time + SampleInterval <= s[j].time
                 /\ Similar(s[i].embedding, s[j].embedding)
  <2>1. SUFFICES ASSUME NEW i \in 1..(n + 1), NEW j \in 1..(n + 1), i < j
                 PROVE  /\ s[i].time + SampleInterval <= s[j].time
                        /\ Similar(s[i].embedding, s[j].embedding)
    OBVIOUS
  <2>2. i \in 1..n /\ s[i] = en.samples[i]
    BY <1>3, <2>1
  <2>3. CASE j = n + 1
    BY <1>1, <1>3, <1>5, <1>8, <2>2, <2>3
  <2>4. CASE j # n + 1
    <3>1. j \in 1..n /\ s[j] = en.samples[j]
      BY <1>3, <2>4
    <3>2. QED
      BY <1>3, <2>1, <2>2, <3>1 DEF SoundSamples
  <2>5. QED
    BY <2>3, <2>4
<1>10. \A i \in 1..(n + 1) :
         s[i].time > Extended(en, o).issued /\ s[i].time < Deadline(Extended(en, o))
  <2>1. Deadline(Extended(en, o)) = Deadline(en)
    BY <1>2 DEF Deadline
  <2>2. \A i \in 1..n : en.samples[i].time > en.issued
                        /\ en.samples[i].time < Deadline(en)
    BY <1>3 DEF SoundSamples
  <2>3. QED
    BY <1>2, <1>3, <1>5, <1>7, <2>1, <2>2
<1>11. SoundSamples(Extended(en, o))
  BY <1>2, <1>3, <1>5, <1>6, <1>9, <1>10 DEF SoundSamples, s
<1>12. OldOrAt(en, Extended(en, o), o.time)
  <2>1. SUFFICES ASSUME NEW i \in 1..(n + 1)
                 PROVE  \/ s[i].time = o.time
                        \/ i \in DOMAIN en.samples /\ s[i] = en.samples[i]
    BY <1>3 DEF OldOrAt, s
  <2>2. QED
    BY <1>3, <1>5
<1>13. QED
  BY <1>11, <1>12


\* EnrollmentAccumulator::observe keeps the session sound, whatever it is shown.
LEMMA AccumulatedSound ==
  ASSUME NEW en \in Enrollments, NEW o \in Offered, SoundSamples(en)
  PROVE  /\ Accumulated(en, o) \in Enrollments
         /\ SoundSamples(Accumulated(en, o))
         /\ OldOrAt(en, Accumulated(en, o), o.time)
<1>1. OldOrAt(en, en, o.time)
  BY DEF OldOrAt
<1>2. CASE TooClose(en, o) \/ o.passive = "error"
  BY <1>1, <1>2 DEF Accumulated
<1>3. CASE ~(TooClose(en, o) \/ o.passive = "error")
  <2>1. Accumulated(en, o) = Sampled(en, o)
    BY <1>3 DEF Accumulated
  <2>2. CASE SampleRefusal(en, o) = "None"
    <3>1. Sampled(en, o) = Extended(en, o)
      BY <2>2 DEF Sampled, Extended, SampleOf
    <3>2. o.yaw # InvalidYaw
      BY <2>2, SampleAccepts
    <3>3. QED
      BY <2>1, <2>2, <3>1, <3>2, ExtendedFields, ExtendedSound
  <2>3. CASE SampleRefusal(en, o) = "InsufficientQuality"
    BY <1>1, <2>1, <2>3 DEF Sampled
  <2>4. CASE SampleRefusal(en, o) \notin {"None", "InsufficientQuality"}
    <3> DEFINE dead == [en EXCEPT !.failed = TRUE]
    <3>1. Sampled(en, o) = dead
      BY <2>4 DEF Sampled
    <3>2. /\ dead \in Enrollments
          /\ dead.samples = en.samples
          /\ dead.lastTime = en.lastTime
          /\ dead.issued = en.issued
      BY DEF Enrollments
    <3> HIDE DEF dead
    <3>3. SoundSamples(dead) /\ OldOrAt(en, dead, o.time)
      BY <3>2 DEF SoundSamples, OldOrAt, Deadline
    <3>4. QED
      BY <2>1, <3>1, <3>2, <3>3
  <2>5. QED
    BY <2>2, <2>3, <2>4
<1>4. QED
  BY <1>2, <1>3

\* A template is the answer only to an enrollment that is ready for it.
LEMMA TemplateWhenReady ==
  ASSUME NEW en, NEW o, Answer(en, o) = "Template"
  PROVE  ReadyToFinish(Accumulated(en, o))
BY DEF Answer

LEMMA AnswersOf ==
  ASSUME NEW en, NEW o
  PROVE  Answer(en, o) \in {"Continue", "Inference", "InvalidEvidence",
                            "Template", "AttemptLimit"}
BY DEF Answer

-------------------------------------------------------------------------------
(***************************************************************************)
(* The session of the pipeline.                                            *)
(***************************************************************************)

\* The challenge after an observation is a challenge.
LEMMA ObservedType ==
  ASSUME NEW ch \in Challenges, NEW o \in FaceObservations, NEW stopped
  PROVE  Observed(ch, o, stopped) \in Challenges
<1>1. CASE Refusal(ch, o, stopped) = "None"
  <2>1. ~(ch.observations + 1 > MaxObservations)
    BY <1>1, Accepts
  <2>2. Kept(ch, o) \in Challenges
    BY <2>1, KeptFields
  <2>3. Observed(ch, o, stopped) = Advanced(Kept(ch, o), o)
    BY <1>1 DEF Observed, Kept
  <2> HIDE DEF Kept
  <2>4. [Kept(ch, o) EXCEPT !.phase = "Action"] \in Challenges
    BY <2>2, Update DEF Phases
  <2>5. /\ Acted(Kept(ch, o), o) \in Challenges
        /\ Recovered(Kept(ch, o), o) \in Challenges
    BY <2>2, ActedFields, RecoveredFields
  <2>6. Advanced(Kept(ch, o), o) \in Challenges
    BY <2>2, <2>4, <2>5 DEF Advanced
  <2>7. QED
    BY <2>3, <2>6
<1>2. CASE Refusal(ch, o, stopped) = "ObservationBudgetExhausted"
  <2>1. ch.observations \in Nat /\ MaxObservations \in Nat
    BY ChallengeAssumption DEF ValidConfig, Challenges
  <2>2. Counted(ch) \in Challenges
    <3>1. CASE ch.observations > MaxObservations
      <4>1. Counted(ch) = [ch EXCEPT !.observations = ch.observations]
        BY <3>1 DEF Counted
      <4>2. QED
        BY <2>1, <4>1, Update
    <3>2. CASE ~(ch.observations > MaxObservations)
      <4>1. Counted(ch) = [ch EXCEPT !.observations = ch.observations + 1]
        BY <3>2 DEF Counted
      <4>2. QED
        BY <2>1, <4>1, Update
    <3>3. QED
      BY <3>1, <3>2
  <2>3. QED
    BY <1>2, <2>2 DEF Observed
<1>3. CASE Refusal(ch, o, stopped) \notin {"None", "ObservationBudgetExhausted"}
  BY <1>3 DEF Observed
<1>4. QED
  BY <1>1, <1>2, <1>3

LEMMA BeginType ==
  ASSUME NEW t \in Nat PROVE Begin(t) \in Challenges
BY DEF Begin, Challenges, Phases

\* What the places say about the counters.
CountersMatch ==
  /\ pc = "open" => updates = 0
  /\ pc \in {"infrared", "visible", "older", "process"} => captures < CaptureLimit
  /\ pc = "older" => replacements < MaxReplacements
  /\ pc \notin {"consume", "done"} => derived < MaxDerived

ObservationTypes == TypeOK /\ CountersMatch

LEMMA Limits ==
  /\ MaxReplacements \in Nat \ {0} /\ MaxDerived \in Nat \ {0}
  /\ MaxProgress \in Nat \ {0} /\ CaptureLimit \in Nat \ {0}
BY ObservationAssumption, ChallengeAssumption DEF ValidConfig, CaptureLimit

LEMMA PairType ==
  ASSUME NEW p \in Pairs
  PROVE  PairTime(p) \in Nat /\ p \in [infrared : Frames, visible : Frames]
BY DEF Pairs, PairTime, Timestamp, Frames

LEMMA NextFramesType ==
  ASSUME NEW f \in Frames, NEW steps, steps \subseteq Nat \X Nat
  PROVE  NextFrames(f, steps) \subseteq Frames
<1>1. SUFFICES ASSUME NEW g \in NextFrames(f, steps) PROVE g \in Frames
  OBVIOUS
<1>2. PICK step \in steps :
        g = [sequence |-> (f.sequence + step[1]) % SequenceSpan,
             time |-> f.time + step[2]]
  BY DEF NextFrames
<1>3. /\ step[1] \in Nat /\ step[2] \in Nat
      /\ f.sequence \in Nat /\ f.time \in Nat
      /\ SequenceSpan \in Nat \ {0}
  BY ObservationAssumption DEF Frames
<1>4. (f.sequence + step[1]) % SequenceSpan \in Nat
  BY <1>3
<1>5. QED
  BY <1>2, <1>3, <1>4 DEF Frames

LEMMA ObservationInit == Init => ObservationTypes
<1> SUFFICES ASSUME Init PROVE ObservationTypes
  OBVIOUS
<1>1. StartSession(0) \in Enrollments
  <2>1. <<>> \in Seq(Samples)
    OBVIOUS
  <2> HIDE DEF Samples
  <2>2. QED
    BY <2>1 DEF StartSession, Enrollments
<1>2. TypeOK
  <2>1. /\ 0 \in 0..MaxReplacements /\ 0 \in 0..CaptureLimit
        /\ 0 \in 0..MaxProgress /\ 0 \in 0..MaxDerived
    BY Limits
  <2>2. [sequence |-> 0, time |-> 0] \in Frames
    BY DEF Frames
  <2>3. pc \in Places /\ verdict \in Verdicts /\ lastPrompt \in Prompts
    BY DEF Init, Places, Verdicts, Prompts
  <2>4. QED
    BY <1>1, <2>1, <2>2, <2>3, Zenon DEF Init, TypeOK
<1>3. CountersMatch
  BY Limits DEF Init, CountersMatch
<1>4. QED
  BY <1>2, <1>3 DEF ObservationTypes


\* A step that ends the session or moves it on, with the cameras and counters
\* as they were.
LEMMA TypesMove ==
  ASSUME ObservationTypes, UNCHANGED <<cancelled, cameras, session, outcome>>,
         updates' \in 0..MaxProgress,
         \/ /\ pc' = "done" /\ verdict' \in Verdicts
         \/ /\ pc' = "loop" /\ verdict' = verdict
            /\ pc \in {"open", "process"} \/ derived < MaxDerived
         \/ /\ pc' = "infrared" /\ verdict' = verdict
            /\ pc = "loop" /\ captures < CaptureLimit
  PROVE  ObservationTypes'
<1>1. /\ UNCHANGED <<cancelled, infrared, visible, replacements, previous,
                     captures, challenge, lastPrompt, passedAt, derived,
                     enrollment>>
  BY DEF cameras, session, outcome
<1>2. pc' \in Places /\ verdict' \in Verdicts
  BY DEF ObservationTypes, TypeOK, Places
<1>3. TypeOK'
  BY <1>1, <1>2, Zenon DEF ObservationTypes, TypeOK
<1>4. CountersMatch'
  BY <1>1 DEF ObservationTypes, CountersMatch
<1>5. QED
  BY <1>3, <1>4 DEF ObservationTypes

LEMMA FailureType ==
  ASSUME NEW v \in Verdicts PROVE Failure(v) \in Verdicts
BY DEF Failure, Verdicts

LEMMA TypesOpenLoop ==
  ASSUME ObservationTypes, Open \/ Loop \/ ReadFails PROVE ObservationTypes'
<1>1. CASE Open
  <2>1. /\ updates' \in 0..MaxProgress
        /\ \/ pc' = "done" /\ verdict' \in Verdicts
           \/ pc' = "loop" /\ verdict' = verdict /\ pc = "open"
    BY <1>1, Limits DEF Open, Return, Proceed, Verdicts, ObservationTypes,
         CountersMatch, TypeOK
  <2>2. UNCHANGED <<cancelled, cameras, session, outcome>>
    BY <1>1 DEF Open
  <2>3. QED
    BY <2>1, <2>2, TypesMove
<1>2. CASE Loop
  <2>1. /\ updates' \in 0..MaxProgress
        /\ \/ pc' = "done" /\ verdict' \in Verdicts
           \/ /\ pc' = "infrared" /\ verdict' = verdict
              /\ pc = "loop" /\ captures < CaptureLimit
    BY <1>2, Limits DEF Loop, Return, Proceed, Verdicts, ObservationTypes, TypeOK
  <2>2. UNCHANGED <<cancelled, cameras, session, outcome>>
    BY <1>2 DEF Loop
  <2>3. QED
    BY <2>1, <2>2, TypesMove
<1>3. CASE ReadFails
  <2>1. /\ updates' \in 0..MaxProgress
        /\ pc' = "done" /\ verdict' \in Verdicts
    BY <1>3 DEF ReadFails, Return, Failure, Verdicts, ObservationTypes, TypeOK
  <2>2. UNCHANGED <<cancelled, cameras, session, outcome>>
    BY <1>3 DEF ReadFails
  <2>3. QED
    BY <2>1, <2>2, TypesMove
<1>4. QED
  BY <1>1, <1>2, <1>3

\* A frame is read, and the pair is looked at.
LEMMA TypesRead ==
  ASSUME ObservationTypes, infrared' \in Frames, visible' \in Frames,
         replacements' \in 0..MaxReplacements,
         pc \in {"infrared", "visible", "older"},
         UNCHANGED <<cancelled, session, updates, outcome>>,
         \/ pc' = "done" /\ verdict' \in Verdicts
         \/ pc' \in {"visible", "process"} /\ verdict' = verdict
         \/ /\ pc' = "older" /\ verdict' = verdict
            /\ replacements' < MaxReplacements
  PROVE  ObservationTypes'
<1>1. UNCHANGED <<cancelled, previous, captures, challenge, lastPrompt,
                  passedAt, derived, enrollment, updates>>
  BY DEF session, outcome
<1>2. pc' \in Places /\ verdict' \in Verdicts
  BY DEF ObservationTypes, TypeOK, Places
<1>3. TypeOK'
  BY <1>1, <1>2, Zenon DEF ObservationTypes, TypeOK
<1>4. CountersMatch'
  BY <1>1 DEF ObservationTypes, CountersMatch
<1>5. QED
  BY <1>3, <1>4 DEF ObservationTypes

LEMMA TypesReads ==
  ASSUME ObservationTypes, ReadInfrared \/ ReadVisible \/ ReadOlder
  PROVE  ObservationTypes'
<1>1. /\ NextFrames(infrared, InfraredSteps) \subseteq Frames
      /\ NextFrames(visible, VisibleSteps) \subseteq Frames
      /\ infrared \in Frames /\ visible \in Frames
      /\ replacements \in 0..MaxReplacements /\ verdict \in Verdicts
  BY NextFramesType, ObservationAssumption DEF ObservationTypes, TypeOK
<1>2. \A p, n : n \in 0..MaxReplacements /\ Align(p, n) =>
        \/ pc' = "done" /\ verdict' \in Verdicts
        \/ pc' \in {"visible", "process"} /\ verdict' = verdict
        \/ pc' = "older" /\ verdict' = verdict /\ n < MaxReplacements
  BY Limits DEF Align, Return, Proceed, Verdicts
<1>3. CASE ReadInfrared
  <2>1. /\ pc = "infrared" /\ infrared' \in Frames /\ visible' \in Frames
        /\ replacements' = replacements
        /\ UNCHANGED <<cancelled, session, updates, outcome>>
        /\ \/ pc' = "done" /\ verdict' \in Verdicts
           \/ pc' \in {"visible", "process"} /\ verdict' = verdict
    BY <1>1, <1>3 DEF ReadInfrared, GoesOn, Return, Proceed, Verdicts
  <2>2. QED
    BY <1>1, <2>1, TypesRead
<1>4. CASE ReadVisible
  <2>1. /\ pc = "visible" /\ infrared' \in Frames /\ visible' \in Frames
        /\ replacements' = 0 /\ replacements' \in 0..MaxReplacements
        /\ UNCHANGED <<cancelled, session, updates, outcome>>
        /\ \E p : Align(p, replacements')
    BY <1>1, <1>4, Limits DEF ReadVisible
  <2>2. \/ pc' = "done" /\ verdict' \in Verdicts
        \/ pc' \in {"visible", "process"} /\ verdict' = verdict
        \/ pc' = "older" /\ verdict' = verdict /\ replacements' < MaxReplacements
    BY <1>2, <2>1
  <2>3. QED
    BY <2>1, <2>2, TypesRead
<1>5. CASE ReadOlder
  <2>1. /\ pc = "older" /\ infrared' \in Frames /\ visible' \in Frames
        /\ replacements' = replacements + 1
        /\ UNCHANGED <<cancelled, session, updates, outcome>>
        /\ \E p : Align(p, replacements')
    BY <1>1, <1>5 DEF ReadOlder, Replaced
  <2>2. replacements' \in 0..MaxReplacements
    BY <1>1, <2>1, Limits DEF ObservationTypes, CountersMatch
  <2>3. \/ pc' = "done" /\ verdict' \in Verdicts
        \/ pc' \in {"visible", "process"} /\ verdict' = verdict
        \/ pc' = "older" /\ verdict' = verdict /\ replacements' < MaxReplacements
    BY <1>2, <2>1, <2>2
  <2>4. QED
    BY <2>1, <2>2, <2>3, TypesRead
<1>6. QED
  BY <1>3, <1>4, <1>5


\* A pair is taken: it is counted, remembered, and shown to the challenge.
LEMMA TypesProcess ==
  ASSUME ObservationTypes, pc = "process", captures' = captures + 1,
         previous' \in Pairs \cup {NoPair},
         challenge' \in Challenges \cup {NoChallenge}, lastPrompt' \in Prompts,
         passedAt' \in Nat \cup {NoTime}, updates' \in 0..MaxProgress,
         UNCHANGED <<cancelled, cameras, outcome>>,
         \/ pc' = "done" /\ verdict' \in Verdicts
         \/ pc' \in {"loop", "derive"} /\ verdict' = verdict
  PROVE  ObservationTypes'
<1>1. UNCHANGED <<cancelled, infrared, visible, replacements, derived, enrollment>>
  BY DEF cameras, outcome
<1>2. pc' \in Places /\ verdict' \in Verdicts
  BY DEF ObservationTypes, TypeOK, Places
<1>3. captures' \in 0..CaptureLimit
  <2>1. captures \in 0..CaptureLimit /\ captures < CaptureLimit
    BY DEF ObservationTypes, TypeOK, CountersMatch
  <2>2. QED
    BY <2>1, Limits
<1>4. TypeOK'
  BY <1>1, <1>2, <1>3, Zenon DEF ObservationTypes, TypeOK
<1>5. CountersMatch'
  BY <1>1 DEF ObservationTypes, CountersMatch
<1>6. QED
  BY <1>4, <1>5 DEF ObservationTypes

LEMMA PromptType ==
  ASSUME ObservationTypes, NEW place, Prompt(place)
  PROVE  /\ updates' \in 0..MaxProgress
         /\ \/ pc' = "done" /\ verdict' \in {"Cancelled", "Internal"}
            \/ pc' = place /\ verdict' = verdict
BY Limits DEF ObservationTypes, TypeOK, Prompt, MayPrompt, Proceed, Return,
   Failure

\* What the challenge is shown is a pair of frames, later than 0.
LEMMA SeenType ==
  ASSUME ObservationTypes
  PROVE  /\ Pair \in Pairs
         /\ PairTime(Pair) \in Nat
         /\ Active \in Challenges
         /\ \A pose \in Poses : Sees(pose) \in FaceObservations
<1>1. infrared \in Frames /\ visible \in Frames
      /\ challenge \in Challenges \cup {NoChallenge}
  BY DEF ObservationTypes, TypeOK
<1>2. Pair \in Pairs
  BY <1>1 DEF Pair, Pairs
<1>3. PairTime(Pair) \in Nat
  BY <1>2, PairType
<1>4. \A pose \in Poses : Sees(pose) \in FaceObservations
  BY <1>1 DEF Sees, FaceObservations
<1>5. Begin(PairTime(Pair)) \in Challenges
  BY <1>3, BeginType
<1>6. QED
  BY <1>1, <1>2, <1>3, <1>4, <1>5, Zenon DEF Active

LEMMA TypesProcesses ==
  ASSUME ObservationTypes,
         \/ RejectPair \/ ProcessFails \/ ProcessFindsNoFace \/ ProcessAfterPass
  PROVE  ObservationTypes'
<1>1. /\ previous \in Pairs \cup {NoPair} /\ Pair \in Pairs
      /\ challenge \in Challenges \cup {NoChallenge} /\ lastPrompt \in Prompts
      /\ passedAt \in Nat \cup {NoTime} /\ updates \in 0..MaxProgress
  BY SeenType DEF ObservationTypes, TypeOK
<1>2. /\ pc = "process" /\ captures' = captures + 1
      /\ previous' \in {previous, Pair}
      /\ UNCHANGED <<cancelled, cameras, outcome>>
      /\ UNCHANGED <<challenge, lastPrompt, passedAt>>
      /\ updates' \in 0..MaxProgress
      /\ \/ pc' = "done" /\ verdict' \in Verdicts
         \/ pc' \in {"loop", "derive"} /\ verdict' = verdict
  <2>1. CASE RejectPair
    BY <1>1, <2>1 DEF RejectPair, Return, Verdicts
  <2>2. CASE ProcessFails
    BY <1>1, <2>2 DEF ProcessFails, AdmitPair, Return, Failure, Verdicts
  <2>3. CASE ProcessFindsNoFace
    <3>1. /\ updates' \in 0..MaxProgress
          /\ \/ pc' = "done" /\ verdict' \in {"Cancelled", "Internal"}
             \/ pc' = "loop" /\ verdict' = verdict
      BY <2>3, PromptType DEF ProcessFindsNoFace
    <3>2. QED
      BY <2>3, <3>1 DEF ProcessFindsNoFace, AdmitPair, Verdicts
  <2>4. CASE ProcessAfterPass
    BY <1>1, <2>4 DEF ProcessAfterPass, AdmitPair, GoesOn, Proceed, Return,
         Verdicts
  <2>5. QED
    BY <2>1, <2>2, <2>3, <2>4
<1>3. previous' \in Pairs \cup {NoPair}
  BY <1>1, <1>2
<1>4. QED
  BY <1>1, <1>2, <1>3, TypesProcess, Zenon

\* What an observation of the challenge leads to.
LEMMA Advances ==
  ASSUME ObservationTypes, NEW pose \in Poses, ProcessAdvances(pose)
  PROVE  /\ pc = "process" /\ captures' = captures + 1 /\ previous' = Pair
         /\ previous # NoPair => IsFreshAfter(Pair, previous)
         /\ ~Passed
         /\ challenge' \in Challenges
         /\ UNCHANGED <<cancelled, cameras, outcome>>
         /\ updates' \in 0..MaxProgress
         /\ lastPrompt' \in Prompts
         /\ \/ /\ pc' = "done" /\ verdict' \in Verdicts \ {"Template"}
               /\ passedAt' = passedAt /\ challenge'.phase # "Passed"
            \/ /\ pc' = "derive" /\ verdict' = verdict
               /\ challenge'.phase = "Passed" /\ passedAt' = PairTime(Pair)
            \/ /\ pc' = "loop" /\ verdict' = verdict /\ passedAt' = passedAt
               /\ challenge'.phase # "Passed"
<1> DEFINE after == Observed(Active, Sees(pose), cancelled)
           refusal == Refusal(Active, Sees(pose), cancelled)
<1>1. after \in Challenges
  BY SeenType, ObservedType
<1>2. lastPrompt \in Prompts /\ updates \in 0..MaxProgress
  BY DEF ObservationTypes, TypeOK
<1>3. /\ AdmitPair /\ ~Passed /\ challenge' = after
      /\ UNCHANGED <<cancelled, cameras, outcome>>
  BY DEF ProcessAdvances
<1>4. \/ /\ refusal # "None" /\ Return(Failure("Liveness"))
         /\ UNCHANGED <<lastPrompt, passedAt, updates>>
      \/ /\ after.phase = "Passed" /\ Proceed("derive")
         /\ passedAt' = PairTime(Pair) /\ UNCHANGED <<lastPrompt, updates>>
      \/ /\ after.phase # "Passed"
         /\ \/ Proceed("loop") /\ UNCHANGED updates
            \/ Prompt("loop")
         /\ lastPrompt' = PromptOf(after) /\ UNCHANGED passedAt
  BY DEF ProcessAdvances
<1>10. refusal # "None" => after.phase # "Passed"
  <2>1. Active \in Challenges /\ Active.phase # "Passed"
    BY <1>3, SeenType DEF Active, Begin, Passed
  <2>2. CASE refusal # "None"
    <3>1. after \in {Active, Counted(Active)}
      BY <2>2 DEF Observed
    <3>2. Counted(Active).phase = Active.phase
      BY <2>1 DEF Counted, Challenges
    <3>3. QED
      BY <2>1, <3>1, <3>2
  <2>3. QED
    BY <2>2
<1> HIDE DEF after, refusal
<1>5. after.phase # "Passed" => PromptOf(after) \in Prompts
  <2>1. after.phase \in Phases
    BY <1>1 DEF Challenges
  <2>2. QED
    BY <2>1 DEF PromptOf, Prompts, Phases
<1>6. Failure("Liveness") \in Verdicts \ {"Template"}
  BY DEF Failure, Verdicts
<1>7. Prompt("loop") => /\ updates' \in 0..MaxProgress
                        /\ \/ pc' = "done" /\ verdict' \in {"Cancelled", "Internal"}
                           \/ pc' = "loop" /\ verdict' = verdict
  BY PromptType
<1>8. /\ lastPrompt' \in Prompts /\ updates' \in 0..MaxProgress
      /\ \/ /\ pc' = "done" /\ verdict' \in Verdicts \ {"Template"}
            /\ passedAt' = passedAt /\ after.phase # "Passed"
         \/ /\ pc' = "derive" /\ verdict' = verdict
            /\ after.phase = "Passed" /\ passedAt' = PairTime(Pair)
         \/ /\ pc' = "loop" /\ verdict' = verdict /\ passedAt' = passedAt
            /\ after.phase # "Passed"
  BY <1>2, <1>4, <1>5, <1>6, <1>7, <1>10 DEF Return, Proceed, Verdicts
<1>9. QED
  BY <1>1, <1>3, <1>8 DEF AdmitPair


LEMMA TypesAdvance ==
  ASSUME ObservationTypes, NEW pose \in Poses, ProcessAdvances(pose)
  PROVE  ObservationTypes'
<1>1. /\ Pair \in Pairs /\ PairTime(Pair) \in Nat
      /\ passedAt \in Nat \cup {NoTime}
  BY SeenType DEF ObservationTypes, TypeOK
<1>2. /\ pc = "process" /\ captures' = captures + 1
      /\ previous' \in Pairs \cup {NoPair}
      /\ challenge' \in Challenges \cup {NoChallenge}
      /\ lastPrompt' \in Prompts /\ updates' \in 0..MaxProgress
      /\ passedAt' \in Nat \cup {NoTime}
      /\ UNCHANGED <<cancelled, cameras, outcome>>
      /\ \/ pc' = "done" /\ verdict' \in Verdicts
         \/ pc' \in {"loop", "derive"} /\ verdict' = verdict
  BY <1>1, Advances
<1>3. QED
  BY <1>2, TypesProcess, Zenon

\* An observation is derived, or the session ends.
LEMMA TypesDerive == ASSUME ObservationTypes, Derive PROVE ObservationTypes'
<1>1. /\ pc = "derive" /\ derived \in 0..MaxDerived /\ derived < MaxDerived
      /\ updates \in 0..MaxProgress
  BY DEF Derive, ObservationTypes, TypeOK, CountersMatch
<1>2. /\ updates' \in 0..MaxProgress
      /\ \/ pc' = "done" /\ verdict' \in Verdicts /\ derived' = derived
         \/ pc' = "consume" /\ verdict' = verdict /\ derived' = derived + 1
      /\ UNCHANGED <<cancelled, cameras, session, enrollment>>
  BY <1>1, Limits DEF Derive, MayPrompt, Return, Proceed, Failure, Verdicts
<1>3. UNCHANGED <<cancelled, infrared, visible, replacements, previous,
                  captures, challenge, lastPrompt, passedAt, enrollment>>
  BY <1>2 DEF cameras, session
<1>4. pc' \in Places /\ verdict' \in Verdicts /\ derived' \in 0..MaxDerived
  BY <1>1, <1>2, Limits DEF ObservationTypes, TypeOK, Places
<1>5. TypeOK'
  BY <1>2, <1>3, <1>4, Zenon DEF ObservationTypes, TypeOK
<1>6. CountersMatch'
  BY <1>2, <1>3 DEF ObservationTypes, CountersMatch
<1>7. QED
  BY <1>5, <1>6 DEF ObservationTypes

\* The observations that the consumer may be shown.
LEMMA OfferedType ==
  ASSUME ObservationTypes, NEW o \in OfferedAt(PairTime(Pair))
  PROVE  o \in Offered
BY SeenType, ObservationAssumption DEF OfferedAt, Offered

\* What ConsumeSample does, however the enrollment answers.
LEMMA Consumes ==
  ASSUME ObservationTypes, NEW o \in OfferedAt(PairTime(Pair)), ConsumeSample(o)
  PROVE  /\ pc = "consume" /\ ~cancelled
         /\ o.time = PairTime(Pair) /\ o \in Offered
         /\ enrollment' = Accumulated(enrollment, o)
         /\ UNCHANGED <<cancelled, cameras, session, derived>>
         /\ updates' \in 0..MaxProgress
         /\ \/ pc' = "loop" /\ verdict' = verdict /\ derived < MaxDerived
            \/ pc' = "done" /\ verdict' \in Verdicts
         /\ verdict' = "Template" =>
              ReadyToFinish(enrollment') \/ verdict' = verdict
<1> DEFINE answer == Answer(enrollment, o)
<1>1. /\ pc = "consume" /\ ~cancelled
      /\ o.time = PairTime(Pair) /\ o \in Offered
      /\ enrollment' = Accumulated(enrollment, o)
      /\ UNCHANGED <<cancelled, cameras, session, derived>>
  BY OfferedType DEF ConsumeSample
<1>2. \/ derived < MaxDerived /\ Prompt("loop")
      \/ Return("AttemptLimit") /\ UNCHANGED updates
      \/ answer # "Continue" /\ Return(answer) /\ UNCHANGED updates
  BY DEF ConsumeSample
<1>3. answer = "Template" => ReadyToFinish(enrollment')
  BY <1>1, TemplateWhenReady
<1>4. answer \in {"Continue", "Inference", "InvalidEvidence", "Template",
                  "AttemptLimit"}
  BY AnswersOf
<1>5. updates \in 0..MaxProgress
  BY DEF ObservationTypes, TypeOK
<1> HIDE DEF answer
<1>6. CASE derived < MaxDerived /\ Prompt("loop")
  BY <1>1, <1>6, PromptType DEF Verdicts
<1>7. CASE Return("AttemptLimit") /\ UNCHANGED updates
  BY <1>1, <1>5, <1>7 DEF Return, Verdicts
<1>8. CASE answer # "Continue" /\ Return(answer) /\ UNCHANGED updates
  BY <1>1, <1>3, <1>4, <1>5, <1>8 DEF Return, Verdicts
<1>9. QED
  BY <1>2, <1>6, <1>7, <1>8

LEMMA TypesConsume ==
  ASSUME ObservationTypes, SoundSamples(enrollment),
         \/ ConsumeEvidence \/ ConsumeNothing \/ Cancel
         \/ \E o \in OfferedAt(PairTime(Pair)) : ConsumeSample(o)
  PROVE  ObservationTypes'
<1>1. CASE ConsumeEvidence \/ ConsumeNothing
  <2>1. /\ updates' \in 0..MaxProgress
        /\ pc' = "done" /\ verdict' \in Verdicts
    BY <1>1 DEF ConsumeEvidence, ConsumeNothing, Return, Verdicts,
         ObservationTypes, TypeOK
  <2>2. UNCHANGED <<cancelled, cameras, session, outcome>>
    BY <1>1 DEF ConsumeEvidence, ConsumeNothing, outcome
  <2>3. QED
    BY <2>1, <2>2, TypesMove
<1>2. CASE Cancel
  <2>1. /\ cancelled' = TRUE
        /\ UNCHANGED <<pc, infrared, visible, replacements, previous, captures,
                       challenge, lastPrompt, passedAt, updates, derived,
                       enrollment, verdict>>
    BY <1>2 DEF Cancel, cameras, session, outcome
  <2>2. TypeOK'
    BY <2>1, Zenon DEF ObservationTypes, TypeOK
  <2>3. CountersMatch'
    BY <2>1 DEF ObservationTypes, CountersMatch
  <2>4. QED
    BY <2>2, <2>3 DEF ObservationTypes
<1>3. ASSUME NEW o \in OfferedAt(PairTime(Pair)), ConsumeSample(o)
      PROVE  ObservationTypes'
  <2>1. /\ updates' \in 0..MaxProgress
        /\ UNCHANGED <<cancelled, infrared, visible, replacements, previous,
                       captures, challenge, lastPrompt, passedAt, derived>>
        /\ \/ pc' = "loop" /\ verdict' = verdict /\ derived < MaxDerived
           \/ pc' = "done" /\ verdict' \in Verdicts
    BY <1>3, Consumes DEF cameras, session
  <2>2. enrollment' \in Enrollments
    <3>1. enrollment \in Enrollments
      BY DEF ObservationTypes, TypeOK
    <3>2. QED
      BY <1>3, <3>1, Consumes, AccumulatedSound
  <2>3. pc' \in Places /\ verdict' \in Verdicts
    BY <2>1 DEF ObservationTypes, TypeOK, Places
  <2>4. TypeOK'
    BY <2>1, <2>2, <2>3, Zenon DEF ObservationTypes, TypeOK
  <2>5. CountersMatch'
    BY <2>1 DEF ObservationTypes, CountersMatch
  <2>6. QED
    BY <2>4, <2>5 DEF ObservationTypes
<1>4. QED
  BY <1>1, <1>2, <1>3


\* Why a template is earned: the samples are sound, what is derived and consumed
\* is a pair after a challenge that has passed, and nothing taken earlier is
\* among the samples.
Earned ==
  /\ SoundSamples(enrollment)
  /\ pc \in {"derive", "consume"} => Passed /\ previous = Pair
  /\ Passed => /\ passedAt \in Nat /\ previous \in Pairs
               /\ PairTime(previous) >= passedAt
  /\ enrollment.samples # <<>> => Passed
  /\ \A i \in DOMAIN enrollment.samples : enrollment.samples[i].time >= passedAt
  /\ verdict = "Template" => pc = "done" /\ ~cancelled /\ ReadyToFinish(enrollment)

ObservationInv == ObservationTypes /\ Earned

LEMMA EarnedInit == Init => Earned
<1>1. SUFFICES ASSUME Init PROVE Earned
  OBVIOUS
<1>2. enrollment.samples = <<>> /\ enrollment.samples \in Seq(Samples)
  BY <1>1 DEF Init, StartSession
<1>3. /\ Len(enrollment.samples) = 0 /\ DOMAIN enrollment.samples = {}
      /\ MaximumSamples \in Nat
  BY <1>2, EnrollmentAssumption DEF ValidEnrollment
<1>4. pc = "open" /\ challenge = NoChallenge /\ verdict = "None"
  BY <1>1 DEF Init
<1>5. QED
  BY <1>2, <1>3, <1>4 DEF Earned, SoundSamples, Passed

\* A step that neither hands over a pair nor touches what is earned.
LEMMA EarnedQuiet ==
  ASSUME Earned, pc' \notin {"derive", "consume"}, verdict' # "Template",
         challenge' = challenge, passedAt' = passedAt, previous' = previous,
         enrollment' = enrollment
  PROVE  Earned'
<1>1. Passed' <=> Passed
  BY DEF Passed
<1>2. QED
  BY <1>1 DEF Earned, SoundSamples, Deadline

\* A session that has not returned has made no template.
LEMMA NotYet ==
  ASSUME Earned, pc # "done" PROVE verdict # "Template"
BY DEF Earned

LEMMA FailureIsNoTemplate ==
  ASSUME NEW v, v # "Template" PROVE Failure(v) # "Template"
BY DEF Failure

LEMMA EarnedQuietly ==
  ASSUME ObservationTypes, Earned,
         \/ Open \/ Loop \/ ReadFails
         \/ ReadInfrared \/ ReadVisible \/ ReadOlder \/ RejectPair
  PROVE  Earned'
<1>1. CASE Open
  BY <1>1, NotYet, EarnedQuiet DEF Open, Return, Proceed, session, outcome
<1>2. CASE Loop
  BY <1>2, NotYet, EarnedQuiet DEF Loop, Return, Proceed, session, outcome
<1>3. CASE ReadFails
  BY <1>3, FailureIsNoTemplate, EarnedQuiet DEF ReadFails, Return, session, outcome
<1>4. CASE ReadInfrared
  BY <1>4, NotYet, EarnedQuiet DEF ReadInfrared, GoesOn, Return, Proceed,
       session, outcome
<1>5. CASE ReadVisible
  BY <1>5, NotYet, EarnedQuiet DEF ReadVisible, Align, Return, Proceed,
       session, outcome
<1>6. CASE ReadOlder
  BY <1>6, NotYet, EarnedQuiet DEF ReadOlder, Align, Return, Proceed,
       session, outcome
<1>7. CASE RejectPair
  BY <1>7, EarnedQuiet DEF RejectPair, Return, outcome
<1>8. QED
  BY <1>1, <1>2, <1>3, <1>4, <1>5, <1>6, <1>7

\* A fresh pair after the one that passed the challenge is not older than it.
LEMMA LaterPair ==
  ASSUME ObservationTypes, Earned, Passed,
         previous # NoPair => IsFreshAfter(Pair, previous)
  PROVE  passedAt \in Nat /\ Pair \in Pairs /\ PairTime(Pair) >= passedAt
<1>1. /\ passedAt \in Nat /\ previous \in Pairs
      /\ PairTime(previous) >= passedAt
  BY DEF Earned
<1>2. previous # NoPair
  BY <1>1, NoPairAssumption
<1>3. PairTime(Pair) > PairTime(previous)
  BY <1>2 DEF IsFreshAfter
<1>4. PairTime(previous) \in Nat /\ PairTime(Pair) \in Nat /\ Pair \in Pairs
  BY <1>1, PairType, SeenType
<1>5. QED
  BY <1>1, <1>3, <1>4

\* A pair that the challenge does not hear of, or that comes after it.
LEMMA EarnedUnheard ==
  ASSUME ObservationTypes, Earned,
         ProcessFails \/ ProcessFindsNoFace \/ ProcessAfterPass
  PROVE  Earned'
<1>1. /\ pc = "process" /\ previous' = Pair
      /\ previous # NoPair => IsFreshAfter(Pair, previous)
      /\ challenge' = challenge /\ passedAt' = passedAt
      /\ infrared' = infrared /\ visible' = visible
      /\ cancelled' = cancelled /\ enrollment' = enrollment
  BY DEF ProcessFails, ProcessFindsNoFace, ProcessAfterPass, AdmitPair,
       cameras, outcome
<1>2. pc' = "derive" => Passed
  BY PromptType DEF ProcessFails, ProcessFindsNoFace, ProcessAfterPass, Return
<1>3. pc' # "consume" /\ verdict' # "Template"
  <2>1. verdict # "Template"
    BY <1>1, NotYet
  <2>2. CASE ProcessFails
    BY <2>2, FailureIsNoTemplate DEF ProcessFails, Return
  <2>3. CASE ProcessFindsNoFace
    BY <2>1, <2>3, PromptType DEF ProcessFindsNoFace
  <2>4. CASE ProcessAfterPass
    BY <2>1, <2>4 DEF ProcessAfterPass, GoesOn, Proceed, Return
  <2>5. QED
    BY <2>2, <2>3, <2>4
<1>4. (Passed' <=> Passed) /\ Pair' = Pair
  BY <1>1 DEF Passed, Pair
<1>5. Passed => passedAt \in Nat /\ Pair \in Pairs /\ PairTime(Pair) >= passedAt
  BY <1>1, LaterPair
<1>6. SoundSamples(enrollment)'
  BY <1>1 DEF Earned, SoundSamples, Deadline
<1>7. Passed' => /\ passedAt' \in Nat /\ previous' \in Pairs
                 /\ PairTime(previous') >= passedAt'
  BY <1>1, <1>4, <1>5
<1>8. QED
  BY <1>1, <1>2, <1>3, <1>4, <1>6, <1>7 DEF Earned

\* The observation that passes the challenge is the first that is derived.
LEMMA EarnedAdvance ==
  ASSUME ObservationTypes, Earned, NEW pose \in Poses, ProcessAdvances(pose)
  PROVE  Earned'
<1>1. /\ pc = "process" /\ previous' = Pair /\ ~Passed
      /\ challenge' \in Challenges
      /\ infrared' = infrared /\ visible' = visible /\ enrollment' = enrollment
      /\ \/ /\ pc' = "done" /\ verdict' # "Template"
            /\ challenge'.phase # "Passed"
         \/ /\ pc' = "derive" /\ verdict' = verdict
            /\ challenge'.phase = "Passed" /\ passedAt' = PairTime(Pair)
         \/ /\ pc' = "loop" /\ verdict' = verdict
            /\ challenge'.phase # "Passed"
  BY Advances DEF cameras, outcome
<1>2. Pair \in Pairs /\ PairTime(Pair) \in Nat
  BY SeenType
<1>3. verdict' # "Template"
  BY <1>1, NotYet
<1>4. Passed' <=> pc' = "derive"
  BY <1>1, NoChallengeAssumption DEF Passed
<1>5. enrollment.samples = <<>>
  BY <1>1 DEF Earned
<1>6. SoundSamples(enrollment)'
  BY <1>1 DEF Earned, SoundSamples, Deadline
<1>7. DOMAIN enrollment'.samples = {} /\ enrollment'.samples = <<>>
  BY <1>1, <1>5
<1>8. Passed' => /\ passedAt' \in Nat /\ previous' \in Pairs
                 /\ PairTime(previous') >= passedAt'
  BY <1>1, <1>2, <1>4
<1>9. pc' \in {"derive", "consume"} => Passed' /\ previous' = Pair'
  BY <1>1, <1>4 DEF Pair
<1>10. QED
  BY <1>3, <1>6, <1>7, <1>8, <1>9 DEF Earned

LEMMA EarnedDerive == ASSUME ObservationTypes, Earned, Derive PROVE Earned'
<1>1. /\ pc = "derive" /\ challenge' = challenge /\ passedAt' = passedAt
      /\ previous' = previous /\ enrollment' = enrollment
      /\ infrared' = infrared /\ visible' = visible
  BY DEF Derive, cameras, session
<1>2. verdict' # "Template"
  <2>1. verdict # "Template"
    BY <1>1, NotYet
  <2>2. QED
    BY <2>1, FailureIsNoTemplate DEF Derive, Return, Proceed
<1>3. Passed /\ previous = Pair
  BY <1>1 DEF Earned
<1>4. Passed' /\ previous' = Pair'
  BY <1>1, <1>3 DEF Passed, Pair
<1>5. QED
  BY <1>1, <1>2, <1>3, <1>4 DEF Earned, SoundSamples, Deadline

LEMMA EarnedConsume ==
  ASSUME ObservationTypes, Earned,
         NEW o \in OfferedAt(PairTime(Pair)), ConsumeSample(o)
  PROVE  Earned'
<1>1. /\ pc = "consume" /\ ~cancelled /\ o.time = PairTime(Pair) /\ o \in Offered
      /\ enrollment' = Accumulated(enrollment, o)
      /\ cancelled' = cancelled /\ challenge' = challenge
      /\ passedAt' = passedAt /\ previous' = previous
      /\ pc' \in {"loop", "done"} /\ (pc' = "loop" => verdict' = verdict)
      /\ verdict' = "Template" => ReadyToFinish(enrollment') \/ verdict' = verdict
  BY Consumes DEF session
<1>2. enrollment \in Enrollments /\ SoundSamples(enrollment)
  BY DEF ObservationTypes, TypeOK, Earned
<1>3. /\ SoundSamples(enrollment')
      /\ OldOrAt(enrollment, enrollment', o.time)
  BY <1>1, <1>2, AccumulatedSound
<1>4. /\ Passed /\ previous = Pair /\ passedAt \in Nat
      /\ PairTime(previous) >= passedAt
  BY <1>1 DEF Earned
<1>5. Passed'
  BY <1>1, <1>4 DEF Passed
<1>6. \A i \in DOMAIN enrollment'.samples : enrollment'.samples[i].time >= passedAt'
  <2>1. SUFFICES ASSUME NEW i \in DOMAIN enrollment'.samples
                 PROVE  enrollment'.samples[i].time >= passedAt
    BY <1>1
  <2>2. \/ enrollment'.samples[i].time = o.time
        \/ i \in DOMAIN enrollment.samples
           /\ enrollment'.samples[i] = enrollment.samples[i]
    BY <1>3 DEF OldOrAt
  <2>3. CASE enrollment'.samples[i].time = o.time
    BY <1>1, <1>4, <2>3
  <2>4. CASE i \in DOMAIN enrollment.samples
             /\ enrollment'.samples[i] = enrollment.samples[i]
    BY <2>4 DEF Earned
  <2>5. QED
    BY <2>2, <2>3, <2>4
<1>7. verdict' = "Template" =>
        pc' = "done" /\ ~cancelled' /\ ReadyToFinish(enrollment')
  BY <1>1, NotYet
<1>8. passedAt' \in Nat /\ previous' \in Pairs /\ PairTime(previous') >= passedAt'
  BY <1>1, <1>4 DEF Earned
<1>9. QED
  BY <1>1, <1>3, <1>5, <1>6, <1>7, <1>8 DEF Earned, SoundSamples, Deadline,
       ReadyToFinish, PoseIsCovered

LEMMA EarnedEnd ==
  ASSUME ObservationTypes, Earned, ConsumeEvidence \/ ConsumeNothing \/ Cancel
  PROVE  Earned'
<1>1. /\ challenge' = challenge /\ passedAt' = passedAt /\ previous' = previous
      /\ enrollment' = enrollment
      /\ infrared' = infrared /\ visible' = visible
  BY DEF ConsumeEvidence, ConsumeNothing, Cancel, cameras, session, outcome
<1>2. CASE ConsumeEvidence \/ ConsumeNothing
  <2>1. pc' = "done" /\ verdict' # "Template"
    BY <1>2 DEF ConsumeEvidence, ConsumeNothing, Return
  <2>2. QED
    BY <1>1, <2>1, EarnedQuiet
<1>3. CASE Cancel
  <2>1. pc' = pc /\ pc # "done" /\ verdict' = verdict
    BY <1>3 DEF Cancel
  <2>2. verdict' # "Template"
    BY <2>1, NotYet
  <2>3. (Passed' <=> Passed) /\ Pair' = Pair
    BY <1>1 DEF Passed, Pair
  <2>4. QED
    BY <1>1, <2>1, <2>2, <2>3 DEF Earned, SoundSamples, Deadline
<1>4. QED
  BY <1>2, <1>3

LEMMA ObservationStep ==
  ASSUME ObservationInv, Next PROVE ObservationInv'
<1>1. ObservationTypes /\ Earned /\ SoundSamples(enrollment)
  BY DEF ObservationInv, Earned
<1>2. CASE Open \/ Loop \/ ReadFails
  BY <1>1, <1>2, TypesOpenLoop, EarnedQuietly DEF ObservationInv
<1>3. CASE ReadInfrared \/ ReadVisible \/ ReadOlder
  BY <1>1, <1>3, TypesReads, EarnedQuietly DEF ObservationInv
<1>4. CASE RejectPair
  BY <1>1, <1>4, TypesProcesses, EarnedQuietly DEF ObservationInv
<1>5. CASE ProcessFails \/ ProcessFindsNoFace \/ ProcessAfterPass
  BY <1>1, <1>5, TypesProcesses, EarnedUnheard DEF ObservationInv
<1>6. CASE \E pose \in Poses : ProcessAdvances(pose)
  BY <1>1, <1>6, TypesAdvance, EarnedAdvance DEF ObservationInv
<1>7. CASE Derive
  BY <1>1, <1>7, TypesDerive, EarnedDerive DEF ObservationInv
<1>8. CASE ConsumeEvidence \/ ConsumeNothing \/ Cancel
  BY <1>1, <1>8, TypesConsume, EarnedEnd DEF ObservationInv
<1>9. CASE \E o \in OfferedAt(PairTime(Pair)) : ConsumeSample(o)
  BY <1>1, <1>9, TypesConsume, EarnedConsume DEF ObservationInv
<1>10. QED
  BY <1>2, <1>3, <1>4, <1>5, <1>6, <1>7, <1>8, <1>9 DEF Next, Work

LEMMA ObservationStays ==
  ASSUME ObservationInv, UNCHANGED vars PROVE ObservationInv'
<1>1. /\ cancelled' = cancelled /\ pc' = pc /\ infrared' = infrared
      /\ visible' = visible /\ replacements' = replacements
      /\ previous' = previous /\ captures' = captures
      /\ challenge' = challenge /\ lastPrompt' = lastPrompt
      /\ passedAt' = passedAt /\ updates' = updates /\ derived' = derived
      /\ enrollment' = enrollment /\ verdict' = verdict
  BY DEF vars, cameras, session, outcome
<1>2. ObservationTypes'
  BY <1>1 DEF ObservationInv, ObservationTypes, TypeOK, CountersMatch
<1>3. Earned'
  BY <1>1 DEF ObservationInv, Earned, Passed, Pair, SoundSamples, Deadline,
       ReadyToFinish, PoseIsCovered
<1>4. QED
  BY <1>2, <1>3 DEF ObservationInv

LEMMA ObservationCorrect == Spec => []ObservationInv
<1>1. Init => ObservationInv
  BY ObservationInit, EarnedInit DEF ObservationInv
<1>2. ObservationInv /\ [Next]_vars => ObservationInv'
  BY ObservationStep, ObservationStays
<1>3. QED
  BY <1>1, <1>2, PTL DEF Spec

\* Every counter of run_session stays within its limit and every value of the
\* session within its type (run_session, capture_pair_cancellable).
THEOREM ObservationTyped == Spec => []TypeOK
<1>1. ObservationInv => TypeOK
  BY DEF ObservationInv, ObservationTypes
<1>2. QED
  BY <1>1, ObservationCorrect, PTL

\* Enrollment makes a template only of enough spaced, similar and spread
\* samples, taken after the challenge and in time, and never for a cancelled
\* job (run_session, EnrollmentAccumulator::observe, EnrollmentSession::finish).
THEOREM TemplateCorrect == Spec => []TemplateIsEarned
<1>1. ObservationInv => TemplateIsEarned
  <2>1. SUFFICES ASSUME ObservationInv, verdict = "Template"
                 PROVE  TemplateIsEarned
    BY DEF TemplateIsEarned
  <2> DEFINE n == Len(enrollment.samples)
  <2>2. /\ ~cancelled /\ ReadyToFinish(enrollment) /\ SoundSamples(enrollment)
        /\ enrollment.samples # <<>> => Passed
        /\ \A i \in DOMAIN enrollment.samples : enrollment.samples[i].time >= passedAt
    BY <2>1 DEF ObservationInv, Earned
  <2>3. enrollment.samples \in Seq(Samples)
    BY <2>1 DEF ObservationInv, ObservationTypes, TypeOK, Enrollments
  <2>4. MinimumSamples \in Nat \ {0} /\ MaximumSamples \in Nat
    BY EnrollmentAssumption DEF ValidEnrollment
  <2>5. n \in Nat /\ n >= MinimumSamples /\ n <= MaximumSamples
    BY <2>2, <2>3 DEF ReadyToFinish, SoundSamples
  <2>6. enrollment.samples # <<>>
    BY <2>3, <2>4, <2>5
  <2>7. \E i, j \in DOMAIN enrollment.samples :
          enrollment.samples[j].yaw >= enrollment.samples[i].yaw + YawSpan
    <3>1. PICK i, j \in DOMAIN enrollment.samples :
            enrollment.samples[i].yaw + YawSpan <= enrollment.samples[j].yaw
      BY <2>2 DEF ReadyToFinish, PoseIsCovered
    <3>2. enrollment.samples[i] \in Samples /\ enrollment.samples[j] \in Samples
      BY <2>3
    <3>3. /\ enrollment.samples[i].yaw \in Nat /\ enrollment.samples[j].yaw \in Nat
          /\ YawSpan \in Nat
      BY <3>2, EnrollmentAssumption DEF Samples, ValidEnrollment
    <3>4. QED
      BY <3>1, <3>3
  <2>8. n \in MinimumSamples..MaximumSamples
    BY <2>4, <2>5
  <2>9. QED
    BY <2>2, <2>6, <2>7, <2>8 DEF TemplateIsEarned, SoundSamples
<1>2. QED
  BY <1>1, ObservationCorrect, PTL

===============================================================================
