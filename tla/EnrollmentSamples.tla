--------------------------- MODULE EnrollmentSamples ---------------------------
(***************************************************************************)
(* The samples of one enrollment: EnrollmentSession of faceauth-enrollment *)
(* as a value, and the EnrollmentAccumulator that the enrollment worker    *)
(* puts before it.                                                         *)
(*                                                                         *)
(* An embedding is a point on a line, similar to the points next to it:    *)
(* similarity is not transitive.  A yaw is a number of degrees to the left *)
(* of the rightmost one.  All embeddings of a pipeline come from one       *)
(* session, so their compatibility digest and dimension are not modelled.  *)
(*                                                                         *)
(* Slip definitions are deliberate errors, as in SessionManager.           *)
(***************************************************************************)
EXTENDS Naturals, Sequences

CONSTANTS
  EnrollmentDuration,  \* EnrollmentConfig::duration_micros
  MinimumSamples,      \* EnrollmentConfig::minimum_samples
  MaximumSamples,      \* EnrollmentConfig::maximum_samples
  SampleInterval,      \* EnrollmentConfig::minimum_sample_interval_micros
  YawSpan,             \* EnrollmentConfig::minimum_yaw_span_degrees
  NoSample,            \* Option::None for the time of a sample
  InvalidYaw           \* a yaw that is not finite or beyond ninety degrees

\* What EnrollmentConfig::validate demands.
ValidEnrollment ==
  /\ EnrollmentDuration \in Nat \ {0}
  /\ MinimumSamples \in Nat \ {0}
  /\ MaximumSamples \in Nat /\ MinimumSamples <= MaximumSamples
  /\ SampleInterval \in Nat \ {0}
  /\ YawSpan \in Nat \ {0}

ASSUME EnrollmentAssumption == ValidEnrollment /\ NoSample \notin Nat /\ InvalidYaw \notin Nat

Samples == [time : Nat, embedding : Nat, yaw : Nat]

Enrollments ==
  [issued : Nat, lastTime : Nat \cup {NoSample}, samples : Seq(Samples),
   failed : BOOLEAN]

StartSession(issued) ==
  [issued |-> issued, lastTime |-> NoSample, samples |-> <<>>, failed |-> FALSE]

--------------------------------------------------------------------------------

Distance(a, b) == IF a <= b THEN b - a ELSE a - b
Similar(a, b) == Distance(a, b) <= 1

Deadline(en) == en.issued + EnrollmentDuration

StaleObservation(en, time) ==
  \/ time <= en.issued
  \/ time >= Deadline(en)
  \/ en.lastTime # NoSample /\ time < en.lastTime + SampleInterval

\* What is wrong with the observation, in the order in which the code looks.
SlipSampleRefusal(en, o) ==
  IF en.failed THEN "SessionFailed"
  ELSE IF StaleObservation(en, o.time) THEN "StaleObservation"
  ELSE IF o.quality = "low" THEN "InsufficientQuality"
  ELSE IF o.yaw = InvalidYaw THEN "InvalidPose"
  ELSE IF o.passive # "live" THEN "LivenessRequired"
  ELSE IF Len(en.samples) >= MaximumSamples THEN "SampleLimitReached"
  ELSE IF /\ en.samples # <<>>
          /\ ~ Similar(en.samples[Len(en.samples)].embedding, o.embedding)
  THEN "InconsistentIdentity"
  ELSE "None"
SampleRefusal(en, o) ==
  IF en.failed THEN "SessionFailed"
  ELSE IF StaleObservation(en, o.time) THEN "StaleObservation"
  ELSE IF o.quality = "low" THEN "InsufficientQuality"
  ELSE IF o.yaw = InvalidYaw THEN "InvalidPose"
  ELSE IF o.passive # "live" THEN "LivenessRequired"
  ELSE IF Len(en.samples) >= MaximumSamples THEN "SampleLimitReached"
  ELSE IF \E i \in DOMAIN en.samples :
            ~ Similar(en.samples[i].embedding, o.embedding)
  THEN "InconsistentIdentity"
  ELSE "None"

\* EnrollmentSession::observe: every refusal but one is final.
Sampled(en, o) ==
  CASE SampleRefusal(en, o) = "None" ->
         [en EXCEPT !.lastTime = o.time,
                    !.samples = Append(@, [time |-> o.time,
                                           embedding |-> o.embedding,
                                           yaw |-> o.yaw])]
    [] SampleRefusal(en, o) = "InsufficientQuality" -> en
    [] OTHER -> [en EXCEPT !.failed = TRUE]

PoseIsCovered(en) ==
  \E i, j \in DOMAIN en.samples :
    en.samples[i].yaw + YawSpan <= en.samples[j].yaw

ReadyToFinish(en) ==
  ~en.failed /\ Len(en.samples) >= MinimumSamples /\ PoseIsCovered(en)

IsFull(en) == Len(en.samples) >= MaximumSamples

\* EnrollmentSession::finish makes a template; aggregation is arithmetic.
Finishes(en, now) == ReadyToFinish(en) /\ now < Deadline(en)

--------------------------------------------------------------------------------

\* EnrollmentAccumulator::observe: what the pipeline is told.  The
\* accumulator's own last accepted time is that of the session.
TooClose(en, o) ==
  en.lastTime # NoSample /\ o.time < en.lastTime + SampleInterval

Accumulated(en, o) ==
  IF TooClose(en, o) \/ o.passive = "error" THEN en ELSE Sampled(en, o)

Answer(en, o) ==
  LET after == Accumulated(en, o)
  IN  IF TooClose(en, o) THEN "Continue"
      ELSE IF o.passive = "error" THEN "Inference"
      ELSE IF SampleRefusal(en, o) = "InsufficientQuality" THEN "Continue"
      ELSE IF SampleRefusal(en, o) # "None" THEN "InvalidEvidence"
      ELSE IF ReadyToFinish(after)
      THEN IF Finishes(after, o.time) THEN "Template" ELSE "InvalidEvidence"
      ELSE IF IsFull(after) THEN "AttemptLimit"
      ELSE "Continue"

================================================================================
