------------------------------ MODULE Observation ------------------------------
(***************************************************************************)
(* One session of the observation pipeline: run_session captures pairs of  *)
(* frames, leads the user through the active challenge and hands derived   *)
(* observations to the consumer that authenticate or enroll passed in.     *)
(*                                                                         *)
(* The worker runs alone; what happens around it is the cancellation of    *)
(* the job, at any moment, and the cameras.  A camera delivers the next    *)
(* frame, the same buffer once more, or an error.  Between two looks at    *)
(* the cancellation at most one frame is read, so an action is a read and  *)
(* the look that follows it.                                               *)
(*                                                                         *)
(* run_session is the same for an authentication and for an enrollment:    *)
(* whose consumer it got shows when it hands over the first observation.   *)
(* The receiver of the progress outlives the session (AuthDaemon and       *)
(* EnrollmentControl), and the lease keeps the pipeline's lock free.       *)
(***************************************************************************)
EXTENDS Challenge, EnrollmentSamples

CONSTANTS
  PairSkew,         \* PairingPolicy::max_skew_micros
  MaxReplacements,  \* PairingPolicy::max_replacements
  MaxDerived,       \* MAX_DERIVED_OBSERVATION_ATTEMPTS
  MaxProgress,      \* what is left of MAX_PROGRESS_UPDATES at the start
  SequenceSpan,     \* 2^32, where the sequence numbers of a camera wrap
  InfraredSteps,    \* how far sequence and clock advance in a read
  VisibleSteps,     \* the same of the visible camera
  Embeddings,       \* embeddings a face may have
  Yaws,             \* yaws a face may have
  Horizon,          \* bound: no frame is exposed later
  NoPair            \* Option::None for previous_pair

ASSUME ObservationAssumption ==
  /\ PairSkew \in Nat \ {0}
  /\ MaxReplacements \in Nat \ {0}
  /\ MaxDerived \in Nat \ {0}
  /\ MaxProgress \in Nat \ {0}
  /\ SequenceSpan \in Nat \ {0}
  /\ InfraredSteps \subseteq Nat \X Nat /\ VisibleSteps \subseteq Nat \X Nat
  /\ Embeddings \subseteq Nat /\ Yaws \subseteq Nat
  /\ Horizon \in Nat

VARIABLES
  cancelled,     \* is_cancelled of the job
  pc,            \* where run_session is
  infrared,      \* infrared_frame, or the last one the camera delivered
  visible,       \* visible_frame, or the last one the camera delivered
  replacements,  \* replacement of capture_pair_cancellable
  previous,      \* previous_pair
  captures,      \* capture_attempts
  challenge,     \* the ChallengeSession; challenge_passed is its last phase
  lastPrompt,    \* last_progress
  updates,       \* progress_count
  derived,       \* derived_attempts
  enrollment,    \* the EnrollmentSession that enroll has started
  verdict,       \* the result, "None" while the session runs
  passedAt       \* history: when the pair that passed the challenge was taken

cameras == <<infrared, visible, replacements>>
session == <<previous, captures, challenge, lastPrompt, passedAt>>
outcome == <<derived, enrollment>>
vars == <<cancelled, pc, cameras, session, updates, outcome, verdict>>

Pairs == [infrared : Frames, visible : Frames]

ASSUME NoPairAssumption == NoPair \notin Pairs

Prompts == {"None", "HoldStill", "Act", "ReturnToCenter"}
Places == {"open", "loop", "infrared", "visible", "older", "process", "derive",
           "consume", "done"}
Verdicts == {"None", "Evidence", "Template", "Cancelled", "Capture", "Inference",
             "Liveness", "InvalidEvidence", "AttemptLimit", "Internal"}

Init ==
  /\ cancelled = FALSE
  /\ pc = "open"
  /\ infrared = [sequence |-> 0, time |-> 0]
  /\ visible = [sequence |-> 0, time |-> 0]
  /\ replacements = 0
  /\ previous = NoPair
  /\ captures = 0
  /\ challenge = NoChallenge
  /\ lastPrompt = "None"
  /\ updates = 0
  /\ derived = 0
  /\ enrollment = StartSession(0)
  /\ verdict = "None"
  /\ passedAt = NoTime

--------------------------------------------------------------------------------

Proceed(place) == pc' = place /\ UNCHANGED verdict
Return(v) == pc' = "done" /\ verdict' = v

\* An error is reported as a cancellation if there was one.
Failure(v) == IF cancelled THEN "Cancelled" ELSE v

\* The progress closure of run_job, behind that of the engine.
MayPrompt == ~cancelled /\ updates < MaxProgress
Prompt(place) ==
  \/ MayPrompt /\ updates' = updates + 1 /\ Proceed(place)
  \/ ~MayPrompt /\ UNCHANGED updates /\ Return(Failure("Internal"))

CaptureLimit == 2 * MaxObservations + MaxDerived

\* What the user is asked for next.
PromptOf(ch) ==
  CASE ch.phase = "Baseline" -> "HoldStill"
    [] ch.phase = "Action" -> "Act"
    [] ch.phase = "Recovery" -> "ReturnToCenter"

Passed == challenge # NoChallenge /\ challenge.phase = "Passed"

Pair == [infrared |-> infrared, visible |-> visible]
PairTime(p) == Timestamp(p)

IsFreshAfter(p, q) ==
  /\ p.infrared.sequence # q.infrared.sequence
  /\ p.visible.sequence # q.visible.sequence
  /\ PairTime(p) > PairTime(q)

NextFrames(f, steps) ==
  {g \in {[sequence |-> (f.sequence + step[1]) % SequenceSpan,
           time |-> f.time + step[2]] : step \in steps} :
     g.time <= Horizon}

--------------------------------------------------------------------------------

\* From the engine's first look at the job to the first prompt.
Open ==
  /\ pc = "open"
  /\ \/ cancelled /\ Return("Cancelled") /\ UNCHANGED updates
     \/ ~cancelled /\ Return("Capture") /\ UNCHANGED updates
     \/ ~cancelled /\ Proceed("loop") /\ updates' = updates + 1
  /\ UNCHANGED <<cancelled, cameras, session, outcome>>

Loop ==
  /\ pc = "loop"
  /\ IF cancelled THEN Return("Cancelled")
     ELSE IF captures >= CaptureLimit THEN Return("AttemptLimit")
     ELSE Proceed("infrared")
  /\ UNCHANGED <<cancelled, cameras, session, updates, outcome>>

ReadFails ==
  /\ pc \in {"infrared", "visible", "older"}
  /\ Return(Failure("Capture"))
  /\ UNCHANGED <<cancelled, cameras, session, updates, outcome>>

GoesOn(place) == IF cancelled THEN Return("Cancelled") ELSE Proceed(place)

ReadInfrared ==
  /\ pc = "infrared"
  /\ infrared' \in NextFrames(infrared, InfraredSteps)
  /\ GoesOn("visible")
  /\ UNCHANGED <<cancelled, visible, replacements, session, updates,
                 outcome>>

\* One turn of the alignment loop.
Align(p, replaced) ==
  IF cancelled THEN Return("Cancelled")
  ELSE IF Skew(p) <= PairSkew THEN Proceed("process")
  ELSE IF replaced = MaxReplacements THEN Return("Capture")
  ELSE Proceed("older")

ReadVisible ==
  /\ pc = "visible"
  /\ visible' \in NextFrames(visible, VisibleSteps)
  /\ replacements' = 0
  /\ Align([infrared |-> infrared, visible |-> visible'], 0)
  /\ UNCHANGED <<cancelled, infrared, session, updates, outcome>>

Replaced(n) == n + 1

\* The stream that is behind delivers another frame.
ReadOlder ==
  /\ pc = "older"
  /\ IF infrared.time < visible.time
     THEN infrared' \in NextFrames(infrared, InfraredSteps) /\ UNCHANGED visible
     ELSE visible' \in NextFrames(visible, VisibleSteps) /\ UNCHANGED infrared
  /\ replacements' = Replaced(replacements)
  /\ Align([infrared |-> infrared', visible |-> visible'], replacements')
  /\ UNCHANGED <<cancelled, session, updates, outcome>>

--------------------------------------------------------------------------------

\* The pair shows nothing new: it is counted and ends the session.
RejectPair ==
  /\ pc = "process"
  /\ previous # NoPair /\ ~ IsFreshAfter(Pair, previous)
  /\ captures' = captures + 1
  /\ Return("InvalidEvidence")
  /\ UNCHANGED <<cancelled, cameras, previous, challenge, lastPrompt,
                 passedAt, updates, outcome>>

AdmitPair ==
  /\ pc = "process"
  /\ previous # NoPair => IsFreshAfter(Pair, previous)
  /\ captures' = captures + 1
  /\ previous' = Pair

\* A model fails on the pair.
ProcessFails ==
  /\ AdmitPair
  /\ Return(Failure("Inference"))
  /\ UNCHANGED <<cancelled, cameras, challenge, lastPrompt, passedAt,
                 updates, outcome>>

\* RetryPosition: no face, several, or one across the border.  The challenge
\* does not hear of it.
ProcessFindsNoFace ==
  /\ AdmitPair
  /\ Prompt("loop")
  /\ UNCHANGED <<cancelled, cameras, challenge, lastPrompt, passedAt,
                 outcome>>

\* advance_challenge: the challenge is issued by the first face, and observes
\* what this pair shows of it.
Active == IF challenge = NoChallenge THEN Begin(PairTime(Pair)) ELSE challenge
Sees(pose) ==
  [infrared |-> infrared, visible |-> visible, faces |-> 1, pose |-> pose]

\* advance_challenge and what run_session makes of the state it returns.
ProcessAdvances(pose) ==
  LET after == Observed(Active, Sees(pose), cancelled)
      refusal == Refusal(Active, Sees(pose), cancelled)
  IN  /\ AdmitPair
      /\ ~Passed
      /\ challenge' = after
      /\ CASE refusal # "None" ->
                /\ Return(Failure("Liveness"))
                /\ UNCHANGED <<lastPrompt, passedAt, updates>>
           [] /\ refusal = "None"
              /\ after.phase = "Passed" ->
                /\ Proceed("derive")
                /\ passedAt' = PairTime(Pair)
                /\ UNCHANGED <<lastPrompt, updates>>
           [] /\ refusal = "None"
              /\ after.phase # "Passed" ->
                /\ IF lastPrompt = PromptOf(after)
                   THEN Proceed("loop") /\ UNCHANGED updates
                   ELSE Prompt("loop")
                /\ lastPrompt' = PromptOf(after)
                /\ UNCHANGED passedAt
      /\ UNCHANGED <<cancelled, cameras, outcome>>

\* Once the challenge has passed every further face is derived.
ProcessAfterPass ==
  /\ AdmitPair
  /\ Passed
  /\ GoesOn("derive")
  /\ UNCHANGED <<cancelled, cameras, challenge, lastPrompt, passedAt,
                 updates, outcome>>

\* The Processing prompt and derive_observation.
Derive ==
  /\ pc = "derive"
  /\ \/ /\ MayPrompt
        /\ updates' = updates + 1
        /\ \/ Return("InvalidEvidence") /\ UNCHANGED derived
           \/ Return("Inference") /\ UNCHANGED derived
           \/ Proceed("consume") /\ derived' = derived + 1
     \/ /\ ~MayPrompt
        /\ Return(Failure("Internal"))
        /\ UNCHANGED <<updates, derived>>
  /\ UNCHANGED <<cancelled, cameras, session, enrollment>>

\* The consumer of ProductionAuthenticationEngine breaks at once, and does
\* not look at the cancellation: run_job does.
ConsumeEvidence ==
  /\ pc = "consume" /\ derived = 1
  /\ Return("Evidence")
  /\ UNCHANGED <<cancelled, cameras, session, updates, derived, enrollment>>

\* The consumer of ProductionEnrollmentEngine.
ConsumeSample(o) ==
  /\ pc = "consume" /\ ~cancelled
  /\ o.time = PairTime(Pair)
  /\ enrollment' = Accumulated(enrollment, o)
  /\ LET answer == Answer(enrollment, o)
     IN  \/ answer = "Continue" /\ derived < MaxDerived /\ Prompt("loop")
         \/ /\ answer = "Continue" /\ derived >= MaxDerived
            /\ Return("AttemptLimit") /\ UNCHANGED updates
         \/ answer # "Continue" /\ Return(answer) /\ UNCHANGED updates
  /\ UNCHANGED <<cancelled, cameras, session, derived>>

ConsumeNothing ==
  /\ pc = "consume" /\ cancelled
  /\ Return("Cancelled")
  /\ UNCHANGED <<cancelled, cameras, session, updates, outcome>>

\* The owner of the job, or the shutdown, at any time.
Cancel ==
  /\ pc # "done" /\ ~cancelled
  /\ cancelled' = TRUE
  /\ UNCHANGED <<pc, cameras, session, updates, outcome, verdict>>

OfferedAt(time) ==
  [time : {time}, quality : {"good", "low"}, passive : {"live", "spoof", "error"},
   embedding : Embeddings, yaw : Yaws \cup {InvalidYaw}]

Work ==
  \/ Open \/ Loop
  \/ ReadFails \/ ReadInfrared \/ ReadVisible \/ ReadOlder
  \/ RejectPair \/ ProcessFails \/ ProcessFindsNoFace \/ ProcessAfterPass
  \/ \E pose \in Poses : ProcessAdvances(pose)
  \/ Derive \/ ConsumeEvidence \/ ConsumeNothing
  \/ \E o \in OfferedAt(PairTime(Pair)) : ConsumeSample(o)

Next == Work \/ Cancel

Spec == Init /\ [][Next]_vars

--------------------------------------------------------------------------------

\* Type correctness of run_session and of the accumulator behind it.
TypeOK ==
  /\ cancelled \in BOOLEAN
  /\ pc \in Places
  /\ infrared \in Frames /\ visible \in Frames
  /\ replacements \in 0..MaxReplacements
  /\ previous \in Pairs \cup {NoPair}
  /\ captures \in 0..CaptureLimit
  /\ challenge \in Challenges \cup {NoChallenge}
  /\ lastPrompt \in Prompts
  /\ updates \in 0..MaxProgress
  /\ derived \in 0..MaxDerived
  /\ enrollment \in Enrollments
  /\ verdict \in Verdicts
  /\ passedAt \in Nat \cup {NoTime}

\* A template comes out only of enough samples that are spaced, alike two by
\* two and seen from far enough apart, all taken after the challenge has
\* passed and inside the enrollment's time, and never for a job that has been
\* cancelled (EnrollmentSession::observe, finish, EnrollmentAccumulator::observe,
\* the consumer of enroll).
TemplateIsEarned ==
  verdict = "Template" =>
    LET samples == enrollment.samples
    IN  /\ ~cancelled
        /\ Passed
        /\ Len(samples) \in MinimumSamples..MaximumSamples
        /\ \A i, j \in DOMAIN samples :
             i < j => /\ samples[i].time + SampleInterval <= samples[j].time
                      /\ Similar(samples[i].embedding, samples[j].embedding)
        /\ \E i, j \in DOMAIN samples : samples[j].yaw >= samples[i].yaw + YawSpan
        /\ \A i \in DOMAIN samples :
             /\ samples[i].time >= passedAt
             /\ samples[i].time > enrollment.issued
             /\ samples[i].time < Deadline(enrollment)

================================================================================
