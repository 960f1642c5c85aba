---------------------------- MODULE PerceptionProofs ----------------------------
(* Proofs about Perception, for every deployment, pair of frames and graph.   *)
EXTENDS Perception, TLAPS, FiniteSetTheorems, WellFoundedInduction

\* A graph started after the cancellation is the only one, and no other is
\* started when it ends: the worker leaves the run for the verdict.
LateInv ==
  /\ late \in {0, 1}
  /\ late = 1 => cancelled /\ pc \in {"run", "done"}

LEMMA LateInit == Init => LateInv
<1> SUFFICES ASSUME Init PROVE LateInv
  OBVIOUS
<1>1. late = 0
  BY DEF Init
<1> QED
  BY <1>1 DEF LateInv

\* A step of the worker that is elsewhere than before a graph or in it.
LEMMA LateElsewhere ==
  ASSUME LateInv, pc \notin {"run", "done"}, UNCHANGED <<cancelled, late>>
  PROVE  LateInv'
BY DEF LateInv

LEMMA LateStart == ASSUME LateInv, Start PROVE LateInv'
<1>1. /\ pc = "start" /\ UNCHANGED cancelled
      /\ \/ pc' = "run" /\ late' = IF cancelled THEN late + 1 ELSE late
         \/ UNCHANGED late
  BY DEF Start, Proceed
<1>2. late = 0
  BY <1>1 DEF LateInv
<1> QED
  BY <1>1, <1>2 DEF LateInv

LEMMA LateJoin == ASSUME LateInv, Join PROVE LateInv'
<1>1. pc = "run" /\ UNCHANGED <<cancelled, late>>
  BY DEF Join
<1>2. cancelled => pc' = "done"
  BY DEF Join, Succeeded, Return
<1> QED
  BY <1>1, <1>2 DEF LateInv

LEMMA LateNext == LateInv /\ [Next]_vars => LateInv'
<1> SUFFICES ASSUME LateInv, [Next]_vars PROVE LateInv'
  OBVIOUS
<1>1. CASE Load
  <2>1. pc = "load" /\ UNCHANGED <<cancelled, late>>
    BY <1>1 DEF Load
  <2> QED BY <2>1, LateElsewhere
<1>2. CASE Build
  <2>1. pc = "build" /\ UNCHANGED <<cancelled, late>>
    BY <1>2 DEF Build
  <2> QED BY <2>1, LateElsewhere
<1>3. CASE PrepareDetector \/ PrepareLandmarks \/ PrepareEmbedding \/ PreparePassive
  <2>1. pc = "prepare" /\ UNCHANGED <<cancelled, late>>
    BY <1>3 DEF PrepareDetector, PrepareLandmarks, PrepareEmbedding,
                PreparePassive, evidence
  <2> QED BY <2>1, LateElsewhere
<1>4. CASE Start
  BY <1>4, LateStart
<1>5. CASE StartFails
  <2>1. pc = "start" /\ UNCHANGED <<cancelled, late>>
    BY <1>5 DEF StartFails
  <2> QED BY <2>1, LateElsewhere
<1>6. CASE Join
  BY <1>6, LateJoin
<1>7. CASE ReadFaces \/ ReadLandmarks \/ ReadEmbedding \/ ReadScores
  <2>1. pc = "read" /\ UNCHANGED <<cancelled, late>>
    BY <1>7 DEF ReadFaces, ReadLandmarks, ReadEmbedding, ReadScores
  <2> QED BY <2>1, LateElsewhere
<1>8. CASE Decide
  <2>1. pc = "decide" /\ UNCHANGED <<cancelled, late>>
    BY <1>8 DEF Decide
  <2> QED BY <2>1, LateElsewhere
<1>9. CASE Watchdog \/ Expire \/ GraphEnds
  <2>1. UNCHANGED <<pc, cancelled, late>>
    BY <1>9 DEF Watchdog, WatchdogFires, WatchdogWakes, Expire, GraphEnds,
                Running
  <2> QED BY <2>1 DEF LateInv
<1>10. CASE Cancel
  <2>1. cancelled' = TRUE /\ UNCHANGED <<pc, late>>
    BY <1>10 DEF Cancel
  <2> QED BY <2>1 DEF LateInv
<1>11. CASE UNCHANGED vars
  BY <1>11 DEF vars, LateInv
<1> QED
  BY <1>1, <1>2, <1>3, <1>4, <1>5, <1>6, <1>7, <1>8, <1>9, <1>10, <1>11
  DEF Next, Work

\* Once the job is cancelled at most one more graph is started, for every
\* number of looks and whatever the graphs do: Start follows a look at the
\* cancellation, and the look after the run ends the job.
THEOREM LateGraph == Spec => []CancelStopsInference
<1>1. LateInv => CancelStopsInference
  BY DEF LateInv, CancelStopsInference
<1> QED
  BY LateInit, LateNext, <1>1, PTL DEF Spec

--------------------------------------------------------------------------------
(***************************************************************************)
(* Acceptance.  What each model has shown is kept with the model it came   *)
(* from until the decision: the invariant says it place by place.          *)
(***************************************************************************)

Working == {"prepare", "start", "run", "read", "decide"}

\* The composition root has looked at the roles before the first model runs.
RolesHeld ==
  /\ stage \in 1 .. 6
  /\ pc = "build" => stage = 1
  /\ pc \in Working => RolesMatch

FaceHeld ==
  pc \in Working /\ stage >= 2 => SquareInside(Model(2).crop, face)

LandmarksHeld ==
  pc \in Working /\ stage >= 3 =>
    landmarks.compatibility = Compatibility(Model(2))

\* Only an embedding model that was made for these landmarks gets to run.
AlignedFor ==
  \/ pc \in Working /\ stage >= 4
  \/ pc \in {"start", "run", "read"} /\ stage = 3

AlignmentHeld ==
  AlignedFor => Model(3).alignment.landmarks = Compatibility(Model(2))

EmbeddingHeld ==
  pc \in Working /\ stage >= 4 =>
    embedding.compatibility = Compatibility(Model(3))

ScoresHeld ==
  pc = "decide" =>
    /\ stage = 6
    /\ DOMAIN scores = 1 .. 3
    /\ \A k \in 1 .. 3 :
         /\ scores[k].role = Model(k + 3).role
         /\ scores[k].compatibility = Compatibility(Model(k + 3))

EvidenceInv ==
  /\ RolesHeld
  /\ FaceHeld
  /\ LandmarksHeld
  /\ AlignmentHeld
  /\ EmbeddingHeld
  /\ ScoresHeld
  /\ verdict = "Accepted" => pc = "done"
  /\ AcceptanceIsEvidenced

\* A decision to accept means that every check of complete_authentication and
\* of AuthPolicy::evaluate has been passed.
LEMMA AcceptedPassed ==
  ASSUME NEW p, NEW pad, NEW t, NEW o, DecisionCode(p, pad, t, o) = "Accepted"
  PROVE  /\ AcceptsTiming(p.capture, o.timing)
         /\ Comparable(t, o.embedding)
         /\ PassiveStatus(pad, o.scores) = "Passed"
         /\ ~Below(o.quality, p.minQuality)
         /\ ~Below(Similarity(o.embedding, t), p.minSimilarity)
<1> DEFINE passive == PassiveStatus(pad, o.scores)
           active == IF o.challenge = "Passed" THEN "Passed" ELSE "Failed"
           similarity == Similarity(o.embedding, t)
           e == [similarity |-> similarity, quality |-> o.quality,
                 infrared |-> "Observed", visible |-> "Observed",
                 passive |-> passive, active |-> active]
           code == Evaluate(p, e)
<1>1. /\ AcceptsTiming(p.capture, o.timing)
      /\ TemplateUsable(t, o.embedding)
      /\ code # Absent
      /\ code = "Accepted"
  <2> HIDE DEF similarity
  <2>1. DecisionCode(p, pad, t, o) =
          IF /\ t # Absent
             /\ AcceptsTiming(p.capture, o.timing)
             /\ TemplateUsable(t, o.embedding)
             /\ passive # "Invalid"
             /\ code # Absent
          THEN code ELSE "InternalError"
    BY DEF DecisionCode, similarity
  <2> HIDE DEF code, passive
  <2>2. QED
    BY <2>1
<1>2. Reason(p, e) = "Accepted"
  BY <1>1 DEF Evaluate
<1>3. /\ ~Below(e.quality, p.minQuality)
      /\ e.passive = "Passed"
      /\ ~Below(e.similarity, p.minSimilarity)
  BY <1>2 DEF Reason
<1>4. QED
  BY <1>1, <1>3 DEF TemplateUsable

\* A passive check that passed rests on one score for each role that is asked
\* for, by the calibrated model, and it is sure enough.
LEMMA PassivePassed ==
  ASSUME NEW pad, NEW s, PassiveStatus(pad, s) = "Passed",
         NEW role \in RequiredRoles(pad)
  PROVE  \E k \in DOMAIN s :
           /\ s[k].role = role
           /\ s[k].compatibility = pad[role].compatibility
           /\ s[k].probability >= pad[role].minimum
<1>1. /\ ExactScore(pad, s, role)
      /\ \A i \in OfRole(s, role) : s[i].probability >= pad[role].minimum
  BY DEF PassiveStatus
<1>2. PICK k \in DOMAIN s :
        OfRole(s, role) = {k} /\ s[k].compatibility = pad[role].compatibility
  BY <1>1 DEF ExactScore
<1>3. k \in OfRole(s, role)
  BY <1>2
<1>4. QED
  BY <1>1, <1>2, <1>3 DEF OfRole

LEMMA EvidenceInit == Init => EvidenceInv
<1> SUFFICES ASSUME Init PROVE EvidenceInv
  OBVIOUS
<1>1. pc = "load" /\ stage = 1 /\ verdict = "None"
  BY DEF Init
<1>2. QED
  BY <1>1 DEF EvidenceInv, RolesHeld, FaceHeld, LandmarksHeld, AlignmentHeld,
              AlignedFor, EmbeddingHeld, ScoresHeld, AcceptanceIsEvidenced,
              Working

\* The worker ends without having accepted.
LEMMA EvidenceEnds ==
  ASSUME EvidenceInv, pc' = "done", verdict' # "Accepted", UNCHANGED stage
  PROVE  EvidenceInv'
BY DEF EvidenceInv, RolesHeld, FaceHeld, LandmarksHeld, AlignmentHeld,
       AlignedFor, EmbeddingHeld, ScoresHeld, AcceptanceIsEvidenced, Working

\* The worker goes on with the evidence it has, or another thread acts.
LEMMA EvidenceStays ==
  ASSUME EvidenceInv, UNCHANGED <<given, evidence, verdict, stage>>,
         \/ UNCHANGED pc
         \/ /\ pc \in Working
            /\ pc' \in {"start", "run", "read"}
            /\ AlignedFor \/ (pc = "prepare" /\ stage \in {1, 2})
  PROVE  EvidenceInv'
<1>1. UNCHANGED <<deployment, pair, face, landmarks, quality, embedding, scores>>
  BY DEF given, evidence
<1>2. /\ RolesHeld' /\ FaceHeld' /\ LandmarksHeld' /\ EmbeddingHeld'
      /\ (verdict = "Accepted" => pc = "done")'
  BY <1>1 DEF EvidenceInv, RolesHeld, RolesMatch, FaceHeld, LandmarksHeld,
              EmbeddingHeld, Model, Config, Working
<1>3. AlignmentHeld'
  BY <1>1 DEF EvidenceInv, RolesHeld, AlignmentHeld, AlignedFor, Model, Config,
              Working
<1>4. ScoresHeld'
  BY <1>1 DEF EvidenceInv, ScoresHeld, Model, Config
<1>5. AcceptanceIsEvidenced'
  <2>1. AcceptanceIsEvidenced
    BY DEF EvidenceInv
  <2>2. UNCHANGED <<verdict, face, quality, embedding, scores>>
    BY <1>1
  <2>3. UNCHANGED <<Config, Frames, Order>> /\ \A i : Model(i)' = Model(i)
    BY <1>1 DEF Model, Config, Frames
  <2> QED
    BY <2>1, <2>2, <2>3 DEF AcceptanceIsEvidenced
<1>6. QED
  BY <1>2, <1>3, <1>4, <1>5 DEF EvidenceInv

LEMMA NotAccepted ==
  /\ Failure("Inference") # "Accepted"
  /\ Failure("InvalidEvidence") # "Accepted"
BY DEF Failure

LEMMA EvidenceLoad == ASSUME EvidenceInv, Load PROVE EvidenceInv'
<1>1. CASE stage \in Loadable[deployment]
  <2>1. /\ pc = "load" /\ pc' \in {"load", "build"} /\ verdict' = verdict
        /\ stage' = IF stage = 6 THEN 1 ELSE stage + 1
        /\ pc' = "build" => stage = 6
    BY <1>1 DEF Load, Proceed, Order
  <2>2. stage' \in 1 .. 6 /\ (pc' = "build" => stage' = 1) /\ verdict # "Accepted"
    BY <2>1 DEF EvidenceInv, RolesHeld
  <2>3. QED
    BY <2>1, <2>2 DEF EvidenceInv, RolesHeld, FaceHeld, LandmarksHeld,
         AlignmentHeld, AlignedFor, EmbeddingHeld, ScoresHeld,
         AcceptanceIsEvidenced, Working
<1>2. CASE stage \notin Loadable[deployment]
  BY <1>2, EvidenceEnds DEF Load, Return
<1>3. QED
  BY <1>1, <1>2

LEMMA EvidenceBuild == ASSUME EvidenceInv, Build PROVE EvidenceInv'
<1>1. CASE pc' = "prepare"
  <2>1. /\ pc = "build" /\ RolesMatch /\ verdict' = verdict
        /\ UNCHANGED <<deployment, stage>>
    BY <1>1 DEF Build, Proceed, Return, given
  <2>2. stage' = 1 /\ verdict' # "Accepted"
    BY <2>1 DEF EvidenceInv, RolesHeld
  <2>3. RolesMatch'
    BY <2>1 DEF RolesMatch, Model, Config
  <2>4. QED
    BY <1>1, <2>2, <2>3 DEF EvidenceInv, RolesHeld, FaceHeld, LandmarksHeld,
         AlignmentHeld, AlignedFor, EmbeddingHeld, ScoresHeld,
         AcceptanceIsEvidenced, Working
<1>2. CASE pc' # "prepare"
  BY <1>2, EvidenceEnds DEF Build, Proceed, Return
<1>3. QED
  BY <1>1, <1>2

LEMMA EvidencePrepare ==
  ASSUME EvidenceInv,
         PrepareDetector \/ PrepareLandmarks \/ PreparePassive
  PROVE  EvidenceInv'
<1>1. /\ pc = "prepare" /\ stage \in {1, 2, 4}
      /\ UNCHANGED <<given, stage, evidence>>
      /\ \/ pc' = "start" /\ verdict' = verdict
         \/ pc' = "done" /\ verdict' = Failure("Inference")
  BY DEF PrepareDetector, PrepareLandmarks, PreparePassive, GoesOn, Proceed,
         Return
<1>2. CASE pc' = "start"
  <2>1. /\ pc \in Working /\ pc' \in {"start", "run", "read"}
        /\ AlignedFor \/ (pc = "prepare" /\ stage \in {1, 2})
    BY <1>1, <1>2 DEF Working, AlignedFor
  <2>2. given' = given /\ evidence' = evidence /\ verdict' = verdict /\ stage' = stage
    BY <1>1, <1>2
  <2>3. QED
    BY <2>1, <2>2, EvidenceStays, Zenon
<1>3. CASE pc' = "done"
  BY <1>1, <1>3, EvidenceEnds, NotAccepted
<1>4. QED
  BY <1>1, <1>2, <1>3

\* preprocess_aligned_image refuses landmarks of another model.
LEMMA AlignmentRefuses ==
  ASSUME NEW m, NEW image, NEW l, AlignmentRefusal(m, image, l) = "None"
  PROVE  l.compatibility = m.alignment.landmarks
BY DEF AlignmentRefusal

LEMMA EvidencePrepareEmbedding ==
  ASSUME EvidenceInv, PrepareEmbedding PROVE EvidenceInv'
<1>1. /\ pc = "prepare" /\ stage = 3
      /\ UNCHANGED <<deployment, pair, stage, face, landmarks, embedding, scores>>
      /\ \/ /\ pc' = "start" /\ verdict' = verdict
            /\ AlignmentRefusal(Model(3), Frames.visible, landmarks) = "None"
         \/ pc' = "done" /\ verdict' = Failure("Inference")
         \/ pc' = "done" /\ verdict' = Failure("InvalidEvidence")
  BY DEF PrepareEmbedding, GoesOn, Proceed, Return, given
<1>2. CASE pc' = "start"
  <2>1. landmarks.compatibility = Model(3).alignment.landmarks
    BY <1>1, <1>2, AlignmentRefuses
  <2>2. verdict' # "Accepted"
    BY <1>1, <1>2 DEF EvidenceInv
  <2>3. /\ RolesHeld' /\ FaceHeld' /\ LandmarksHeld' /\ EmbeddingHeld'
        /\ AlignmentHeld' /\ ScoresHeld'
    BY <1>1, <1>2, <2>1 DEF EvidenceInv, RolesHeld, RolesMatch, FaceHeld,
         LandmarksHeld, EmbeddingHeld, AlignmentHeld, AlignedFor, ScoresHeld,
         Model, Config, Working
  <2>4. QED
    BY <2>2, <2>3 DEF EvidenceInv, AcceptanceIsEvidenced
<1>3. CASE pc' = "done"
  BY <1>1, <1>3, EvidenceEnds, NotAccepted
<1>4. QED
  BY <1>1, <1>2, <1>3

LEMMA EvidenceStart ==
  ASSUME EvidenceInv, Start \/ StartFails PROVE EvidenceInv'
<1>1. /\ pc = "start"
      /\ given' = given /\ evidence' = evidence /\ stage' = stage
      /\ \/ pc' = "run" /\ verdict' = verdict
         \/ pc' = "done" /\ verdict' = Failure("Inference")
  BY DEF Start, StartFails, Proceed, Return
<1>2. CASE pc' = "run"
  <2>1. verdict' # "Accepted"
    BY <1>1, <1>2, NotAccepted DEF EvidenceInv
  <2>2. UNCHANGED <<deployment, face, landmarks, embedding, scores>>
    BY <1>1 DEF given, evidence
  <2>3. /\ RolesHeld' /\ FaceHeld' /\ LandmarksHeld' /\ EmbeddingHeld'
        /\ AlignmentHeld' /\ ScoresHeld'
    BY <1>1, <1>2, <2>2 DEF EvidenceInv, RolesHeld, RolesMatch, FaceHeld,
         LandmarksHeld, EmbeddingHeld, AlignmentHeld, AlignedFor, ScoresHeld,
         Model, Config, Working
  <2>4. QED
    BY <2>1, <2>3 DEF EvidenceInv, AcceptanceIsEvidenced
<1>3. CASE pc' = "done"
  BY <1>1, <1>3, EvidenceEnds, NotAccepted DEF EvidenceInv
<1>4. QED
  BY <1>1, <1>2, <1>3

\* The passive models run one after the other: the last of them is reached
\* with what the embedding model has shown.
LEMMA EvidenceJoin == ASSUME EvidenceInv, Join PROVE EvidenceInv'
<1>1. /\ pc = "run"
      /\ given' = given /\ evidence' = evidence
      /\ \/ /\ pc' = AfterRun /\ verdict' = verdict
            /\ stage' = IF AfterRun = "start" THEN stage + 1 ELSE stage
         \/ pc' = "done" /\ verdict' \in {"Inference", Failure("Inference")}
            /\ stage' = stage
  BY DEF Join, Proceed, Return
<1>2. CASE pc' # "done"
  <2>1. verdict' # "Accepted"
    BY <1>1, <1>2 DEF EvidenceInv
  <2>2. UNCHANGED <<deployment, face, landmarks, embedding, scores>>
    BY <1>1 DEF given, evidence
  <2>3. /\ stage \in 1 .. 6
        /\ \/ pc' = "start" /\ stage \in {4, 5} /\ stage' = stage + 1
           \/ pc' = "read" /\ stage' = stage
    BY <1>1, <1>2 DEF AfterRun, EvidenceInv, RolesHeld
  <2>4. /\ RolesHeld' /\ FaceHeld' /\ LandmarksHeld' /\ EmbeddingHeld'
        /\ ScoresHeld'
    BY <1>1, <2>2, <2>3 DEF EvidenceInv, RolesHeld, RolesMatch, FaceHeld,
         LandmarksHeld, EmbeddingHeld, ScoresHeld, Model, Config, Working
  <2>5. AlignmentHeld'
    BY <1>1, <2>2, <2>3 DEF EvidenceInv, AlignmentHeld, AlignedFor, Model,
         Config, Working
  <2>6. QED
    BY <2>1, <2>4, <2>5 DEF EvidenceInv, AcceptanceIsEvidenced
<1>3. CASE pc' = "done"
  <2>1. stage' = stage /\ verdict' # "Accepted"
    BY <1>1, <1>3, NotAccepted DEF AfterRun
  <2>2. QED
    BY <1>3, <2>1, EvidenceEnds
<1>4. QED
  BY <1>2, <1>3

LEMMA EvidenceReadFaces == ASSUME EvidenceInv, ReadFaces PROVE EvidenceInv'
<1>1. /\ pc = "read" /\ stage = 1
      /\ UNCHANGED <<deployment, landmarks, embedding, scores>>
      /\ \/ /\ pc' = "prepare" /\ stage' = 2 /\ verdict' = verdict
            /\ SquareInside(Model(2).crop, face')
         \/ /\ pc' = "done" /\ stage' = stage
            /\ verdict' \in {"Retry", Failure("Inference")}
  <2>1. \A i \in SingleFace : SquareInside(Model(2).crop, Found[i].box)
    BY DEF SingleFace
  <2>2. QED
    BY <2>1 DEF ReadFaces, Proceed, Return, given
<1>2. CASE pc' = "prepare"
  <2>1. verdict' # "Accepted"
    BY <1>1, <1>2 DEF EvidenceInv
  <2>2. /\ RolesHeld' /\ FaceHeld' /\ LandmarksHeld' /\ EmbeddingHeld'
        /\ AlignmentHeld' /\ ScoresHeld'
    BY <1>1, <1>2 DEF EvidenceInv, RolesHeld, RolesMatch, FaceHeld,
         LandmarksHeld, EmbeddingHeld, AlignmentHeld, AlignedFor, ScoresHeld,
         Model, Config, Working
  <2>3. QED
    BY <2>1, <2>2 DEF EvidenceInv, AcceptanceIsEvidenced
<1>3. CASE pc' = "done"
  BY <1>1, <1>3, EvidenceEnds, NotAccepted
<1>4. QED
  BY <1>1, <1>2, <1>3

\* The outputs that are read are those of the model they are kept with.
LEMMA LandmarksOf ==
  ASSUME NEW m, NEW outs, NEW region
  PROVE  FacialLandmarks(m, outs, region).compatibility = Compatibility(m)
BY DEF FacialLandmarks

LEMMA EmbeddingOf ==
  ASSUME NEW m, NEW outs
  PROVE  FaceEmbedding(m, outs).compatibility = Compatibility(m)
BY DEF FaceEmbedding

LEMMA ScoreOf ==
  ASSUME NEW m, NEW outs
  PROVE  /\ PassiveScore(m, outs).role = m.role
         /\ PassiveScore(m, outs).compatibility = Compatibility(m)
BY DEF PassiveScore

LEMMA EvidenceReadLandmarks ==
  ASSUME EvidenceInv, ReadLandmarks PROVE EvidenceInv'
<1> DEFINE marks == FacialLandmarks(Model(2), outputs[1],
                                    SquareOf(Model(2).crop, face))
<1>1. /\ pc = "read" /\ stage = 2
      /\ UNCHANGED <<deployment, face, embedding, scores>>
      /\ \/ /\ pc' = "prepare" /\ stage' = 3 /\ verdict' = verdict
            /\ landmarks' = marks
         \/ pc' = "done" /\ stage' = stage /\ verdict' = Failure("Inference")
  BY DEF ReadLandmarks, Proceed, Return, given
<1>2. CASE pc' = "prepare"
  <2>1. landmarks'.compatibility = Compatibility(Model(2))
    BY <1>1, <1>2, LandmarksOf
  <2>2. verdict' # "Accepted"
    BY <1>1, <1>2 DEF EvidenceInv
  <2> HIDE DEF marks
  <2>3. /\ RolesHeld' /\ FaceHeld' /\ LandmarksHeld' /\ EmbeddingHeld'
        /\ AlignmentHeld' /\ ScoresHeld'
    BY <1>1, <1>2, <2>1 DEF EvidenceInv, RolesHeld, RolesMatch, FaceHeld,
         LandmarksHeld, EmbeddingHeld, AlignmentHeld, AlignedFor, ScoresHeld,
         Model, Config, Working
  <2>4. QED
    BY <2>2, <2>3 DEF EvidenceInv, AcceptanceIsEvidenced
<1>3. CASE pc' = "done"
  BY <1>1, <1>3, EvidenceEnds, NotAccepted
<1>4. QED
  BY <1>1, <1>2, <1>3

LEMMA EvidenceReadEmbedding ==
  ASSUME EvidenceInv, ReadEmbedding PROVE EvidenceInv'
<1> DEFINE derived == FaceEmbedding(Model(3), outputs[1])
<1>1. /\ pc = "read" /\ stage = 3
      /\ UNCHANGED <<deployment, face, landmarks, scores>>
      /\ \/ /\ pc' = "prepare" /\ stage' = 4 /\ verdict' = verdict
            /\ embedding' = derived
         \/ pc' = "done" /\ stage' = stage /\ verdict' = Failure("Inference")
  BY DEF ReadEmbedding, Proceed, Return, given
<1>2. CASE pc' = "prepare"
  <2>1. embedding'.compatibility = Compatibility(Model(3))
    BY <1>1, <1>2, EmbeddingOf
  <2>2. verdict' # "Accepted"
    BY <1>1, <1>2 DEF EvidenceInv
  <2> HIDE DEF derived
  <2>3. /\ RolesHeld' /\ FaceHeld' /\ LandmarksHeld' /\ EmbeddingHeld'
        /\ AlignmentHeld' /\ ScoresHeld'
    BY <1>1, <1>2, <2>1 DEF EvidenceInv, RolesHeld, RolesMatch, FaceHeld,
         LandmarksHeld, EmbeddingHeld, AlignmentHeld, AlignedFor, ScoresHeld,
         Model, Config, Working
  <2>4. QED
    BY <2>2, <2>3 DEF EvidenceInv, AcceptanceIsEvidenced
<1>3. CASE pc' = "done"
  BY <1>1, <1>3, EvidenceEnds, NotAccepted
<1>4. QED
  BY <1>1, <1>2, <1>3

LEMMA EvidenceReadScores ==
  ASSUME EvidenceInv, ReadScores PROVE EvidenceInv'
<1> DEFINE read == [i \in 1 .. 3 |-> PassiveScore(Model(i + 3), outputs[i])]
<1>1. /\ pc = "read" /\ stage = 6
      /\ UNCHANGED <<deployment, face, landmarks, embedding, stage>>
      /\ \/ /\ pc' = "decide" /\ verdict' = verdict
            /\ scores' = read
         \/ pc' = "done" /\ verdict' = Failure("Inference")
  BY DEF ReadScores, Proceed, Return, given
<1>2. CASE pc' = "decide"
  <2>1. /\ DOMAIN scores' = 1 .. 3
        /\ \A k \in 1 .. 3 :
             /\ scores'[k].role = Model(k + 3).role
             /\ scores'[k].compatibility = Compatibility(Model(k + 3))
    <3>1. /\ DOMAIN scores' = 1 .. 3
          /\ \A k \in 1 .. 3 :
               scores'[k] = PassiveScore(Model(k + 3), outputs[k])
      BY <1>1, <1>2
    <3>2. QED
      BY <3>1, ScoreOf
  <2>2. verdict' # "Accepted"
    BY <1>1, <1>2 DEF EvidenceInv
  <2> HIDE DEF read
  <2>3. /\ RolesHeld' /\ FaceHeld' /\ LandmarksHeld' /\ EmbeddingHeld'
        /\ AlignmentHeld'
    BY <1>1, <1>2 DEF EvidenceInv, RolesHeld, RolesMatch, FaceHeld,
         LandmarksHeld, EmbeddingHeld, AlignmentHeld, AlignedFor, Model,
         Config, Working
  <2>4. ScoresHeld'
    BY <1>1, <2>1 DEF ScoresHeld, Model, Config
  <2>5. QED
    BY <2>2, <2>3, <2>4 DEF EvidenceInv, AcceptanceIsEvidenced
<1>3. CASE pc' = "done"
  BY <1>1, <1>3, EvidenceEnds, NotAccepted
<1>4. QED
  BY <1>1, <1>2, <1>3

\* The decision finds the evidence of the five models in the place each has.
LEMMA EvidenceDecide ==
  ASSUME EvidenceInv, pair \in DOMAIN Pairs, Decide PROVE EvidenceInv'
<1> DEFINE o == [embedding |-> embedding, quality |-> quality,
                 scores |-> scores, timing |-> Frames.timing,
                 challenge |-> "Passed"]
<1>1. /\ pc = "decide" /\ pc' = "done"
      /\ UNCHANGED <<deployment, pair, stage, face, landmarks, quality,
                     embedding, scores>>
      /\ verdict' = DecisionCode(Config.policy, Config.pad, Config.template, o)
  BY DEF Decide, Return, given, evidence
<1>2. CASE verdict' # "Accepted"
  BY <1>1, <1>2, EvidenceEnds
<1>3. CASE verdict' = "Accepted"
  <2>1. /\ stage = 6 /\ pc \in Working /\ RolesMatch
        /\ AcceptsTiming(Config.policy.capture, o.timing)
        /\ Comparable(Config.template, o.embedding)
        /\ PassiveStatus(Config.pad, o.scores) = "Passed"
        /\ ~Below(o.quality, Config.policy.minQuality)
        /\ ~Below(Similarity(o.embedding, Config.template),
                  Config.policy.minSimilarity)
    <3>1. stage = 6 /\ pc \in Working /\ RolesMatch
      BY <1>1 DEF EvidenceInv, RolesHeld, ScoresHeld, Working
    <3>2. DecisionCode(Config.policy, Config.pad, Config.template, o) = "Accepted"
      BY <1>1, <1>3
    <3> HIDE DEF o
    <3>3. QED
      BY <3>1, <3>2, AcceptedPassed
  <2>2. Config.template.compatibility = Compatibility(Model(3))
    BY <2>1 DEF Comparable, EvidenceInv, EmbeddingHeld
  <2>3. Model(3).alignment.landmarks = Compatibility(Model(2))
    BY <2>1 DEF EvidenceInv, AlignmentHeld, AlignedFor
  <2>4. SquareInside(Model(2).crop, face)
    BY <2>1 DEF EvidenceInv, FaceHeld
  <2>5. Magnitude(Frames.timing.infrared - Frames.timing.visible)
          <= Config.policy.capture.maxSkew
    <3>1. Frames.timing.visible # Absent
      BY PerceptionAssumption DEF Frames
    <3>2. QED
      BY <2>1, <3>1 DEF AcceptsTiming
  <2>6. ASSUME NEW i \in 4 .. 6, Config.pad[Order[i]] # Absent
        PROVE  /\ Config.pad[Order[i]].compatibility = Compatibility(Model(i))
               /\ \E s \in {scores[k] : k \in DOMAIN scores} :
                    /\ s.role = Order[i]
                    /\ s.probability >= Config.pad[Order[i]].minimum
    <3>1. Order[i] \in RequiredRoles(Config.pad)
      BY <2>6 DEF RequiredRoles, PassiveRoles, Order
    <3>2. PICK k \in DOMAIN scores :
            /\ scores[k].role = Order[i]
            /\ scores[k].compatibility = Config.pad[Order[i]].compatibility
            /\ scores[k].probability >= Config.pad[Order[i]].minimum
      BY <2>1, <3>1, PassivePassed
    <3>3. /\ k \in 1 .. 3
          /\ scores[k].role = Model(k + 3).role
          /\ scores[k].compatibility = Compatibility(Model(k + 3))
      BY <1>1, <3>2 DEF EvidenceInv, ScoresHeld
    <3>4. Model(k + 3).role = Order[k + 3]
      BY <2>1, <3>3 DEF RolesMatch, Order
    <3>5. k + 3 = i
      BY <3>2, <3>3, <3>4 DEF Order
    <3>6. QED
      BY <3>2, <3>3, <3>5
  <2>7. AcceptanceIsEvidenced'
    BY <1>1, <2>1, <2>2, <2>3, <2>4, <2>5, <2>6
    DEF AcceptanceIsEvidenced, Model, Config, Frames
  <2>8. QED
    BY <1>1, <2>7 DEF EvidenceInv, RolesHeld, FaceHeld, LandmarksHeld,
         AlignmentHeld, AlignedFor, EmbeddingHeld, ScoresHeld, Working
<1>4. QED
  BY <1>2, <1>3

\* The other threads leave the evidence alone.
LEMMA EvidenceOthers ==
  ASSUME EvidenceInv, Watchdog \/ Expire \/ GraphEnds \/ Cancel \/ UNCHANGED vars
  PROVE  EvidenceInv'
<1>1. given' = given /\ evidence' = evidence /\ verdict' = verdict
      /\ stage' = stage /\ pc' = pc
  BY DEF Watchdog, WatchdogFires, WatchdogWakes, Expire, GraphEnds, Running,
         Cancel, vars
<1>2. QED
  BY <1>1, EvidenceStays, Zenon

LEMMA EvidenceNext ==
  ASSUME EvidenceInv, pair \in DOMAIN Pairs, [Next]_vars PROVE EvidenceInv'
<1>1. CASE Load \/ Build
  BY <1>1, EvidenceLoad, EvidenceBuild
<1>2. CASE PrepareDetector \/ PrepareLandmarks \/ PreparePassive
  BY <1>2, EvidencePrepare
<1>3. CASE PrepareEmbedding
  BY <1>3, EvidencePrepareEmbedding
<1>4. CASE Start \/ StartFails \/ Join
  BY <1>4, EvidenceStart, EvidenceJoin
<1>5. CASE ReadFaces \/ ReadLandmarks \/ ReadEmbedding \/ ReadScores
  BY <1>5, EvidenceReadFaces, EvidenceReadLandmarks, EvidenceReadEmbedding,
     EvidenceReadScores
<1>6. CASE Decide
  BY <1>6, EvidenceDecide
<1>7. CASE Watchdog \/ Expire \/ GraphEnds \/ Cancel \/ UNCHANGED vars
  BY <1>7, EvidenceOthers
<1>8. QED
  BY <1>1, <1>2, <1>3, <1>4, <1>5, <1>6, <1>7 DEF Next, Work

LEMMA PairKept == ASSUME [Next]_vars PROVE pair' = pair
<1>1. CASE Work
  BY <1>1 DEF Work, Load, Build, PrepareDetector, PrepareLandmarks,
       PrepareEmbedding, PreparePassive, Start, StartFails, Join, ReadFaces,
       ReadLandmarks, ReadEmbedding, ReadScores, Decide, given
<1>2. CASE ~Work
  BY <1>2 DEF Next, Watchdog, WatchdogFires, WatchdogWakes, Expire, GraphEnds,
       Running, Cancel, vars, given
<1>3. QED
  BY <1>1, <1>2

\* Nothing is accepted without all of its evidence, whatever was deployed,
\* whatever the graphs return and whenever the job is cancelled: the roles,
\* the landmarks an embedding was made for, the calibrated models, the timing,
\* the quality and the similarity are each looked at on the one way there
\* (process_pair, derive_observation, complete_authentication).
THEOREM AcceptanceNeedsAll == Spec => []AcceptanceIsEvidenced
<1> DEFINE PairInv == pair \in DOMAIN Pairs
<1>1. Init => EvidenceInv /\ PairInv
  BY EvidenceInit DEF Init
<1>2. EvidenceInv /\ PairInv /\ [Next]_vars => (EvidenceInv /\ PairInv)'
  BY EvidenceNext, PairKept
<1>3. EvidenceInv => AcceptanceIsEvidenced
  BY DEF EvidenceInv
<1> HIDE DEF PairInv
<1>4. QED
  BY <1>1, <1>2, <1>3, PTL DEF Spec

--------------------------------------------------------------------------------
(*****************************************************************************)
(* Numbers: induction over a set, quotients, mixed radix, and the product of *)
(* dimensions.                                                               *)
(*****************************************************************************)

\* Induction over the natural numbers, for a set instead of a predicate.
LEMMA SetInduction ==
  ASSUME NEW S, 0 \in S, \A n \in Nat : n \in S => n + 1 \in S
  PROVE  Nat \subseteq S
<1> DEFINE R == OpToRel(<, Nat)
           T == Nat \ S
<1> SUFFICES ASSUME T # {} PROVE FALSE
  OBVIOUS
<1>1. PICK x \in T : \A y \in T : ~ (<<y, x>> \in R)
  <2>1. IsWellFoundedOn(R, Nat) /\ T \subseteq Nat
    BY NatLessThanWellFounded
  <2> HIDE DEF R, T
  <2>2. QED
    BY <2>1, WFMin
<1>2. x - 1 \in Nat /\ x - 1 < x
  OBVIOUS
<1>3. x - 1 \in S
  BY <1>1, <1>2 DEF OpToRel
<1>4. QED
  BY <1>2, <1>3

LEMMA DivIs ==
  ASSUME NEW d \in Nat \ {0}, NEW q \in Int, NEW r \in 0 .. d - 1
  PROVE  /\ (d * q + r) \div d = q
         /\ (d * q + r) % d = r
<1> DEFINE a == d * q + r
           Q == a \div d
           R == a % d
<1>1. a \in Int
  OBVIOUS
<1>2. Q \in Int /\ R \in 0 .. d - 1 /\ a = d * Q + R
  BY <1>1
<1> HIDE DEF Q, R
<1>3. d * (q - Q) = R - r
  BY <1>2
<1>4. q - Q \in Int
  BY <1>2
<1> DEFINE e == q - Q
<1>5. d * e = R - r /\ e \in Int
  BY <1>3, <1>4
<1> HIDE DEF e
<1>6. e = 0
  <2>1. CASE e >= 1
    <3>1. d * e >= d
      BY <1>5, <2>1
    <3>2. QED
      BY <1>2, <1>5, <3>1
  <2>2. CASE e <= -1
    <3>1. d * e <= -d
      BY <1>5, <2>2
    <3>2. QED
      BY <1>2, <1>5, <3>1
  <2>3. QED
    BY <1>5, <2>1, <2>2
<1>7. q = Q /\ R = r
  BY <1>2, <1>5, <1>6 DEF e
<1>8. QED
  BY <1>7 DEF Q, R

\* A number in mixed radix: its digits are below a, b and c.
MixedDigits(a, b, c) ==
  /\ \A i \in 0 .. a - 1, j \in 0 .. b - 1, k \in 0 .. c - 1 :
       /\ a * (b * k + j) + i \in 0 .. a * b * c - 1
       /\ (a * (b * k + j) + i) % a = i
       /\ ((a * (b * k + j) + i) \div a) % b = j
       /\ ((a * (b * k + j) + i) \div a) \div b = k
  /\ \A n \in 0 .. a * b * c - 1 :
       \E i \in 0 .. a - 1, j \in 0 .. b - 1, k \in 0 .. c - 1 :
         n = a * (b * k + j) + i

LEMMA MixedRadix ==
  ASSUME NEW a \in Nat \ {0}, NEW b \in Nat \ {0}, NEW c \in Nat \ {0}
  PROVE  MixedDigits(a, b, c)
<1>1. ASSUME NEW i \in 0 .. a - 1, NEW j \in 0 .. b - 1, NEW k \in 0 .. c - 1
      PROVE  /\ a * (b * k + j) + i \in 0 .. a * b * c - 1
             /\ (a * (b * k + j) + i) % a = i
             /\ ((a * (b * k + j) + i) \div a) % b = j
             /\ ((a * (b * k + j) + i) \div a) \div b = k
  <2>1. b * k + j \in 0 .. b * c - 1
    <3>1. b * k <= b * (c - 1)
      OBVIOUS
    <3>2. QED
      BY <3>1
  <2> DEFINE m == b * k + j
  <2>2. m \in Int /\ m \div b = k /\ m % b = j
    BY DivIs
  <2> HIDE DEF m
  <2>3. (a * m + i) % a = i /\ (a * m + i) \div a = m
    BY <2>2, DivIs
  <2>4. a * m + i \in 0 .. a * b * c - 1
    <3>1. 0 <= m /\ m <= b * c - 1 /\ b * c \in Nat
      BY <2>1 DEF m
    <3>2. 0 <= a * m /\ a * m <= a * (b * c - 1)
      BY <2>2, <3>1
    <3>3. a * (b * c - 1) = a * b * c - a
      OBVIOUS
    <3>4. a * m \in Int /\ a * b * c \in Int
      BY <2>2
    <3>5. QED
      BY <3>2, <3>3, <3>4
  <2>5. QED
    BY <2>2, <2>3, <2>4 DEF m
<1>2. ASSUME NEW n \in 0 .. a * b * c - 1
      PROVE  \E i \in 0 .. a - 1, j \in 0 .. b - 1, k \in 0 .. c - 1 :
               n = a * (b * k + j) + i
  <2> DEFINE m == n \div a
             i == n % a
             k == m \div b
             j == m % b
  <2>1. m \in Int /\ i \in 0 .. a - 1 /\ n = a * m + i
    OBVIOUS
  <2> HIDE DEF m, i
  <2>2. k \in Int /\ j \in 0 .. b - 1 /\ m = b * k + j
    BY <2>1
  <2> HIDE DEF k, j
  <2>3. 0 <= m
    <3>1. CASE m <= -1
      <4>1. a * m <= -a
        BY <2>1, <3>1
      <4>2. QED
        BY <2>1, <4>1
    <3>2. QED
      BY <2>1, <3>1
  <2>4. 0 <= k
    <3>1. CASE k <= -1
      <4>1. b * k <= -b
        BY <2>2, <3>1
      <4>2. QED
        BY <2>2, <2>3, <4>1
    <3>2. QED
      BY <2>2, <3>1
  <2>5. k < c
    <3>1. CASE k >= c
      <4>1. b * k >= b * c
        BY <2>2, <3>1
      <4>2. m >= b * c
        BY <2>2, <4>1
      <4>3. a * m >= a * (b * c)
        BY <2>1, <4>2
      <4>4. a * (b * c) = a * b * c
        OBVIOUS
      <4>5. QED
        BY <2>1, <4>3, <4>4
    <3>2. QED
      BY <2>2, <3>1
  <2>6. k \in 0 .. c - 1 /\ n = a * (b * k + j) + i
    BY <2>1, <2>2, <2>4, <2>5
  <2>7. QED
    BY <2>1, <2>2, <2>6
<1>3. QED
  BY <1>1, <1>2 DEF MixedDigits

\* The product of dimensions, step by step.
IsProduct(g, dims, k) ==
  /\ g \in [0 .. k -> Nat]
  /\ g = [n \in 0 .. k |-> IF n = 0 THEN 1 ELSE g[n - 1] * dims[n]]

LEMMA ProductStep ==
  ASSUME NEW dims \in Seq(Nat), NEW k \in Nat, k + 1 <= Len(dims),
         NEW g, IsProduct(g, dims, k)
  PROVE  \E h : IsProduct(h, dims, k + 1)
<1> DEFINE h == [n \in 0 .. k + 1 |->
                   IF n = k + 1 THEN g[k] * dims[k + 1] ELSE g[n]]
<1>1. g \in [0 .. k -> Nat]
  BY DEF IsProduct
<1>2. h \in [0 .. k + 1 -> Nat]
  <2>1. g[k] \in Nat /\ dims[k + 1] \in Nat
    BY <1>1
  <2>2. g[k] * dims[k + 1] \in Nat
    BY <2>1
  <2> QED
    BY <1>1, <2>2
<1>3. ASSUME NEW n \in 0 .. k + 1
      PROVE  h[n] = IF n = 0 THEN 1 ELSE h[n - 1] * dims[n]
  <2>1. CASE n = k + 1
    BY <2>1
  <2>2. CASE n \in 0 .. k
    <3>1. g[n] = IF n = 0 THEN 1 ELSE g[n - 1] * dims[n]
      BY <2>2 DEF IsProduct
    <3>2. h[n] = g[n] /\ (n # 0 => h[n - 1] = g[n - 1])
      BY <2>2
    <3> QED
      BY <3>1, <3>2
  <2> QED
    BY <2>1, <2>2
<1>4. h = [n \in 0 .. k + 1 |-> IF n = 0 THEN 1 ELSE h[n - 1] * dims[n]]
  BY <1>2, <1>3
<1> HIDE DEF h
<1>5. QED
  BY <1>2, <1>4 DEF IsProduct

LEMMA ProductExists ==
  ASSUME NEW dims \in Seq(Nat) PROVE \E g : IsProduct(g, dims, Len(dims))
<1> DEFINE Has(k) == \E g : IsProduct(g, dims, k)
           S == {k \in Nat : k <= Len(dims) => Has(k)}
<1>1. Has(0)
  <2> DEFINE g == [n \in 0 .. 0 |-> 1]
  <2>1. IsProduct(g, dims, 0)
    BY DEF IsProduct
  <2> QED
    BY <2>1
<1>2. ASSUME NEW k \in Nat, k + 1 <= Len(dims), Has(k) PROVE Has(k + 1)
  BY <1>2, ProductStep
<1> HIDE DEF Has
<1>3. 0 \in S
  BY <1>1
<1>4. \A k \in Nat : k \in S => k + 1 \in S
  BY <1>2
<1>5. Nat \subseteq S
  <2> HIDE DEF S
  <2> QED
    BY <1>3, <1>4, SetInduction
<1>6. Has(Len(dims))
  BY <1>5
<1> QED
  BY <1>6 DEF Has

LEMMA Product ==
  ASSUME NEW dims \in Seq(Nat)
  PROVE  \E p : /\ IsProduct(p, dims, Len(dims))
                /\ DimensionProduct(dims) = p[Len(dims)]
<1> DEFINE Step(g) == [n \in 0 .. Len(dims) |->
                         IF n = 0 THEN 1 ELSE g[n - 1] * dims[n]]
           p == CHOOSE g : g = Step(g)
           S == {k \in Nat : k <= Len(dims) => p[k] \in Nat}
<1>1. p = Step(p)
  <2>1. \E g : g = Step(g)
    BY ProductExists DEF IsProduct
  <2> HIDE DEF Step
  <2> QED
    BY <2>1
<1>2. DimensionProduct(dims) = p[Len(dims)]
  BY DEF DimensionProduct
<1> HIDE DEF p
<1>3. \A n \in 0 .. Len(dims) :
        p[n] = IF n = 0 THEN 1 ELSE p[n - 1] * dims[n]
  BY <1>1
<1>4. Nat \subseteq S
  <2>1. 0 \in S
    BY <1>3
  <2>2. ASSUME NEW k \in Nat, k \in S PROVE k + 1 \in S
    <3>1. CASE k + 1 <= Len(dims)
      <4>1. p[k] \in Nat /\ dims[k + 1] \in Nat /\ p[k + 1] = p[k] * dims[k + 1]
        BY <1>3, <2>2, <3>1
      <4> QED
        BY <4>1
    <3> QED
      BY <3>1
  <2> HIDE DEF S
  <2> QED
    BY <2>1, <2>2, SetInduction
<1>5. p \in [0 .. Len(dims) -> Nat]
  <2>1. \A k \in 0 .. Len(dims) : p[k] \in Nat
    BY <1>4
  <2>2. p = [k \in 0 .. Len(dims) |-> p[k]]
    BY <1>1
  <2> HIDE DEF S
  <2> QED
    BY <2>1, <2>2
<1>6. IsProduct(p, dims, Len(dims))
  BY <1>1, <1>5 DEF IsProduct
<1> QED
  BY <1>2, <1>6

LEMMA ProductSteps ==
  ASSUME NEW dims \in Seq(Nat)
  PROVE  \E p : /\ p \in [0 .. Len(dims) -> Nat]
                /\ p[0] = 1
                /\ \A n \in 1 .. Len(dims) : p[n] = p[n - 1] * dims[n]
                /\ DimensionProduct(dims) = p[Len(dims)]
<1>1. PICK p : /\ IsProduct(p, dims, Len(dims))
               /\ DimensionProduct(dims) = p[Len(dims)]
  BY Product
<1>2. \A n \in 0 .. Len(dims) : p[n] = IF n = 0 THEN 1 ELSE p[n - 1] * dims[n]
  BY <1>1 DEF IsProduct
<1>3. p \in [0 .. Len(dims) -> Nat]
  BY <1>1 DEF IsProduct
<1>4. p[0] = 1 /\ \A n \in 1 .. Len(dims) : p[n] = p[n - 1] * dims[n]
  <2>1. /\ Len(dims) \in Nat /\ 0 \in 0 .. Len(dims)
        /\ \A n \in 1 .. Len(dims) : n # 0 /\ n \in 0 .. Len(dims)
    OBVIOUS
  <2> QED
    BY <1>2, <2>1
<1>5. QED
  BY <1>1, <1>3, <1>4, Zenon

\* The products of the shapes that models have.
LEMMA Products ==
  /\ \A a \in Nat : DimensionProduct(<<a>>) = a
  /\ \A a, b \in Nat : DimensionProduct(<<a, b>>) = a * b
  /\ \A a, b, c \in Nat : DimensionProduct(<<a, b, c>>) = a * b * c
  /\ \A a, b, c, d \in Nat : DimensionProduct(<<a, b, c, d>>) = a * b * c * d
<1>1. ASSUME NEW a \in Nat
      PROVE  DimensionProduct(<<a>>) = a
  <2>1. <<a>> \in Seq(Nat) /\ Len(<<a>>) = 1
    OBVIOUS
  <2>2. PICK p : /\ p \in [0 .. 1 -> Nat]
                 /\ p[0] = 1
                 /\ \A n \in 1 .. 1 : p[n] = p[n - 1] * <<a>>[n]
                 /\ DimensionProduct(<<a>>) = p[1]
    BY <2>1, ProductSteps
  <2>3. p[1] = p[0] * a
    BY <2>2
  <2> QED
    BY <2>2, <2>3
<1>2. ASSUME NEW a \in Nat, NEW b \in Nat
      PROVE  DimensionProduct(<<a, b>>) = a * b
  <2>1. <<a, b>> \in Seq(Nat) /\ Len(<<a, b>>) = 2
    OBVIOUS
  <2>2. PICK p : /\ p \in [0 .. 2 -> Nat]
                 /\ p[0] = 1
                 /\ \A n \in 1 .. 2 : p[n] = p[n - 1] * <<a, b>>[n]
                 /\ DimensionProduct(<<a, b>>) = p[2]
    BY <2>1, ProductSteps
  <2>3. p[1] = p[0] * a /\ p[2] = p[1] * b
    BY <2>2
  <2> QED
    BY <2>2, <2>3
<1>3. ASSUME NEW a \in Nat, NEW b \in Nat, NEW c \in Nat
      PROVE  DimensionProduct(<<a, b, c>>) = a * b * c
  <2>1. <<a, b, c>> \in Seq(Nat) /\ Len(<<a, b, c>>) = 3
    OBVIOUS
  <2>2. PICK p : /\ p \in [0 .. 3 -> Nat]
                 /\ p[0] = 1
                 /\ \A n \in 1 .. 3 : p[n] = p[n - 1] * <<a, b, c>>[n]
                 /\ DimensionProduct(<<a, b, c>>) = p[3]
    BY <2>1, ProductSteps
  <2>3. p[1] = p[0] * a /\ p[2] = p[1] * b /\ p[3] = p[2] * c
    BY <2>2
  <2> QED
    BY <2>2, <2>3
<1>4. ASSUME NEW a \in Nat, NEW b \in Nat, NEW c \in Nat, NEW d \in Nat
      PROVE  DimensionProduct(<<a, b, c, d>>) = a * b * c * d
  <2>1. <<a, b, c, d>> \in Seq(Nat) /\ Len(<<a, b, c, d>>) = 4
    OBVIOUS
  <2>2. PICK p : /\ p \in [0 .. 4 -> Nat]
                 /\ p[0] = 1
                 /\ \A n \in 1 .. 4 : p[n] = p[n - 1] * <<a, b, c, d>>[n]
                 /\ DimensionProduct(<<a, b, c, d>>) = p[4]
    BY <2>1, ProductSteps
  <2>3. p[1] = p[0] * a /\ p[2] = p[1] * b /\ p[3] = p[2] * c /\ p[4] = p[3] * d
    BY <2>2
  <2> QED
    BY <2>2, <2>3
<1> QED
  BY <1>1, <1>2, <1>3, <1>4

--------------------------------------------------------------------------------
(*****************************************************************************)
(* Samples: where the samplers read, and that they agree.                    *)
(*****************************************************************************)

\* Quotients and remainders stay in bounds.
LEMMA DivBounds ==
  ASSUME NEW a \in Int, NEW d \in Nat \ {0}
  PROVE  /\ a \div d \in Int /\ a % d \in 0 .. d - 1
         /\ a = d * (a \div d) + (a % d)
OBVIOUS

LEMMA DivInside ==
  ASSUME NEW d \in Nat \ {0}, NEW q \in Nat, NEW a \in 0 .. q * d
  PROVE  a \div d \in 0 .. q
<1> DEFINE m == a \div d
           r == a % d
<1>1. m \in Int /\ r \in 0 .. d - 1 /\ a = d * m + r /\ a \in Int
  BY DivBounds
<1>2. 0 <= a /\ a <= q * d /\ q * d \in Int
  OBVIOUS
<1> HIDE DEF m, r
<1>3. 0 <= m
  <2>1. CASE m <= -1
    <3>1. d * m <= -d
      BY <1>1, <2>1
    <3> QED
      BY <1>1, <1>2, <3>1
  <2> QED
    BY <1>1, <2>1
<1>4. m <= q
  <2>1. CASE m >= q + 1
    <3>1. d * m >= d * (q + 1)
      BY <1>1, <2>1
    <3>2. d * (q + 1) = q * d + d
      OBVIOUS
    <3> QED
      BY <1>1, <1>2, <3>1, <3>2
  <2> QED
    BY <1>1, <2>1
<1> QED
  BY <1>1, <1>3, <1>4 DEF m

\* A pixel of a picture has its place in the rows.
LEMMA PixelInside ==
  ASSUME NEW w \in Nat \ {0}, NEW h \in Nat \ {0},
         NEW x \in 0 .. w - 1, NEW y \in 0 .. h - 1
  PROVE  y * w + x \in 0 .. w * h - 1
<1>1. y * w <= (h - 1) * w /\ 0 <= y * w /\ y * w \in Int
  OBVIOUS
<1>2. (h - 1) * w = w * h - w /\ w * h \in Int
  OBVIOUS
<1> QED
  BY <1>1, <1>2

\* The bytes of a picture that the capture may deliver.
Picture(image) ==
  /\ image.width \in Nat \ {0} /\ image.height \in Nat \ {0}
  /\ image.format \in {"Gray8", "Yuyv"}
  /\ image.format = "Yuyv" => image.width % 2 = 0
  /\ image.bytes = image.width * image.height * PixelBytes(image.format)

LEMMA BytesInside ==
  ASSUME NEW image, Picture(image),
         NEW x \in 0 .. image.width - 1, NEW y \in 0 .. image.height - 1
  PROVE  /\ BytesRead(image, x, y) \subseteq 0 .. image.bytes - 1
         /\ LumaByte(image, x, y) \in 0 .. image.bytes - 1
<1> DEFINE w == image.width
           h == image.height
<1>1. w \in Nat \ {0} /\ h \in Nat \ {0} /\ x \in 0 .. w - 1 /\ y \in 0 .. h - 1
  BY DEF Picture
<1>2. y * w + x \in 0 .. w * h - 1
  <2> HIDE DEF w, h
  <2> QED
    BY <1>1, PixelInside
<1>3. CASE image.format = "Gray8"
  <2>1. image.bytes = w * h
    BY <1>1, <1>3 DEF Picture, PixelBytes
  <2>2. BytesRead(image, x, y) = {y * w + x} /\ LumaByte(image, x, y) = (y * w + x) * 1
    BY <1>3 DEF BytesRead, LumaByte
  <2> HIDE DEF w, h
  <2> QED
    BY <1>1, <1>2, <2>1, <2>2
<1>4. CASE image.format = "Yuyv"
  <2> DEFINE v == w \div 2
             u == x \div 2
             two == y * v + u
  <2>1. w = 2 * v /\ v \in Nat \ {0} /\ u \in 0 .. v - 1 /\ x % 2 \in 0 .. 1
    <3>1. w % 2 = 0
      BY <1>4 DEF Picture
    <3> HIDE DEF w
    <3> QED
      BY <1>1, <3>1
  <2>2. image.bytes = w * h * 2
    BY <1>1, <1>4 DEF Picture, PixelBytes
  <2>3. /\ BytesRead(image, x, y) =
             {4 * two + 2 * (x % 2), 4 * two + 1, 4 * two + 3}
        /\ LumaByte(image, x, y) = (y * w + x) * 2
    BY <1>4 DEF BytesRead, LumaByte
  <2>4. two \in 0 .. v * h - 1
    <3> HIDE DEF v, u
    <3> QED
      BY <1>1, <2>1, PixelInside
  <2> HIDE DEF w, h, v, u, two
  <2> DEFINE n == v * h
             par == x % 2
  <2>5. image.bytes = 4 * n /\ n \in Nat /\ w * h = 2 * n
    BY <1>1, <2>1, <2>2
  <2>6. two \in 0 .. n - 1 /\ par \in 0 .. 1
    BY <2>1, <2>4
  <2>7. y * w + x \in 0 .. 2 * n - 1
    BY <1>2, <2>5
  <2> DEFINE at == y * w + x
  <2>8. /\ BytesRead(image, x, y) = {4 * two + 2 * par, 4 * two + 1, 4 * two + 3}
        /\ LumaByte(image, x, y) = at * 2 /\ at \in 0 .. 2 * n - 1
    BY <2>3, <2>7
  <2> HIDE DEF n, par, at
  <2> QED
    BY <2>5, <2>6, <2>8
<1>5. QED
  BY <1>3, <1>4 DEF Picture

\* Both samplers stay between the first and the last pixel.
LEMMA AxisInside ==
  ASSUME NEW t \in Int, NEW extent \in Nat \ {0}, NEW source \in Nat \ {0}
  PROVE  /\ Axis(t, extent, source).lower \in 0 .. source - 1
         /\ Axis(t, extent, source).upper \in 0 .. source - 1
<1> DEFINE num == (2 * t + 1) * source - extent
           raw == num \div (2 * extent)
<1>1. raw \in Int
  OBVIOUS
<1>2. Axis(t, extent, source) =
        IF raw < 0 THEN [lower |-> 0, upper |-> 0, num |-> 0, den |-> 1]
        ELSE IF Smaller(raw, source - 1) = source - 1
        THEN [lower |-> Smaller(raw, source - 1), upper |-> Smaller(raw, source - 1),
              num |-> 0, den |-> 1]
        ELSE [lower |-> Smaller(raw, source - 1),
              upper |-> Smaller(raw, source - 1) + 1,
              num |-> num % (2 * extent), den |-> 2 * extent]
  BY DEF Axis
<1> HIDE DEF raw, num
<1>3. QED
  BY <1>1, <1>2 DEF Smaller

LEMMA FloatingInside ==
  ASSUME NEW num \in Int, NEW den \in Nat \ {0}, NEW source \in Nat \ {0}
  PROVE  /\ FloatingAxis(num, den, source).lower \in 0 .. source - 1
         /\ FloatingAxis(num, den, source).upper \in 0 .. source - 1
<1> DEFINE last == (source - 1) * den
           at == Larger(0, Smaller(num, last))
           lower == at \div den
<1>1. last \in Nat
  OBVIOUS
<1>2. at \in 0 .. last
  <2> HIDE DEF last
  <2> QED
    BY <1>1 DEF Larger, Smaller
<1>3. lower \in 0 .. source - 1
  <2> HIDE DEF at
  <2> QED
    BY <1>2, DivInside
<1>4. /\ FloatingAxis(num, den, source).lower = lower
      /\ FloatingAxis(num, den, source).upper = Smaller(lower + 1, source - 1)
  BY DEF FloatingAxis
<1> HIDE DEF lower
<1> QED
  BY <1>3, <1>4 DEF Smaller

LEMMA FineIs == Fine \in Nat \ {0}
BY ManifestAssumption DEF Fine

LEMMA RegionInside ==
  ASSUME NEW t \in Int, NEW extent \in Nat \ {0}, NEW source \in Nat \ {0},
         NEW from \in Int, NEW span \in Int
  PROVE  /\ RegionAxis(t, extent, source, from, span).lower \in 0 .. source - 1
         /\ RegionAxis(t, extent, source, from, span).upper \in 0 .. source - 1
<1>1. 2 * extent * Fine \in Nat \ {0}
  BY FineIs
<1>2. source * ((2 * t + 1) * span + 2 * extent * from) - extent * Fine \in Int
  BY FineIs
<1> QED
  BY <1>1, <1>2, FloatingInside DEF RegionAxis

LEMMA WholeInside ==
  ASSUME NEW input, NEW image, Picture(image),
         input.width \in Nat \ {0}, input.height \in Nat \ {0}
  PROVE  InFrame(WholeTaps(input, image), image)
<1>1. image.width \in Nat \ {0} /\ image.height \in Nat \ {0}
  BY DEF Picture
<1>2. ASSUME NEW tap \in WholeTaps(input, image)
      PROVE  tap \in (0 .. image.width - 1) \X (0 .. image.height - 1)
  <2>1. PICK x \in 0 .. input.width - 1, y \in 0 .. input.height - 1 :
          tap \in SourceTaps(Axis(x, input.width, image.width),
                             Axis(y, input.height, image.height))
    BY <1>2 DEF WholeTaps
  <2> DEFINE ax == Axis(x, input.width, image.width)
             ay == Axis(y, input.height, image.height)
  <2>2. {ax.lower, ax.upper} \subseteq 0 .. image.width - 1
    <3>1. x \in Int
      OBVIOUS
    <3>2. ax.lower \in 0 .. image.width - 1 /\ ax.upper \in 0 .. image.width - 1
      BY <1>1, <3>1, AxisInside, Zenon
    <3> HIDE DEF ax
    <3> QED
      BY <3>2
  <2>3. {ay.lower, ay.upper} \subseteq 0 .. image.height - 1
    <3>1. y \in Int
      OBVIOUS
    <3>2. ay.lower \in 0 .. image.height - 1 /\ ay.upper \in 0 .. image.height - 1
      BY <1>1, <3>1, AxisInside, Zenon
    <3> HIDE DEF ay
    <3> QED
      BY <3>2
  <2>4. tap \in {ax.lower, ax.upper} \X {ay.lower, ay.upper}
    BY <2>1 DEF SourceTaps
  <2> HIDE DEF ax, ay
  <2> QED
    BY <2>2, <2>3, <2>4
<1>3. ASSUME NEW tap \in WholeTaps(input, image)
      PROVE  BytesRead(image, tap[1], tap[2]) \subseteq 0 .. image.bytes - 1
  <2>1. tap[1] \in 0 .. image.width - 1 /\ tap[2] \in 0 .. image.height - 1
    BY <1>2
  <2> QED
    BY <2>1, BytesInside
<1> QED
  BY <1>2, <1>3 DEF InFrame

LEMMA RegionTapsInside ==
  ASSUME NEW input, NEW image, Picture(image),
         input.width \in Nat \ {0}, input.height \in Nat \ {0},
         NEW region, \A k \in 1 .. 4 : region[k] \in Int
  PROVE  InFrame(RegionTaps(input, image, region), image)
<1>1. image.width \in Nat \ {0} /\ image.height \in Nat \ {0}
  BY DEF Picture
<1>2. ASSUME NEW tap \in RegionTaps(input, image, region)
      PROVE  tap \in (0 .. image.width - 1) \X (0 .. image.height - 1)
  <2> DEFINE ax(x) == RegionAxis(x, input.width, image.width, region[1],
                                 region[3] - region[1])
             ay(y) == RegionAxis(y, input.height, image.height, region[2],
                                 region[4] - region[2])
  <2>1. PICK x \in 0 .. input.width - 1, y \in 0 .. input.height - 1 :
          tap \in SourceTaps(ax(x), ay(y))
    BY <1>2 DEF RegionTaps
  <2>2. {ax(x).lower, ax(x).upper} \subseteq 0 .. image.width - 1
    <3>1. x \in Int /\ region[1] \in Int /\ region[3] - region[1] \in Int
      OBVIOUS
    <3>2. ax(x).lower \in 0 .. image.width - 1 /\ ax(x).upper \in 0 .. image.width - 1
      BY <1>1, <3>1, RegionInside, Zenon
    <3> HIDE DEF ax
    <3> QED
      BY <3>2
  <2>3. {ay(y).lower, ay(y).upper} \subseteq 0 .. image.height - 1
    <3>1. y \in Int /\ region[2] \in Int /\ region[4] - region[2] \in Int
      OBVIOUS
    <3>2. ay(y).lower \in 0 .. image.height - 1 /\ ay(y).upper \in 0 .. image.height - 1
      BY <1>1, <3>1, RegionInside, Zenon
    <3> HIDE DEF ay
    <3> QED
      BY <3>2
  <2>4. tap \in {ax(x).lower, ax(x).upper} \X {ay(y).lower, ay(y).upper}
    BY <2>1 DEF SourceTaps
  <2> HIDE DEF ax, ay
  <2> QED
    BY <2>2, <2>3, <2>4
<1>3. ASSUME NEW tap \in RegionTaps(input, image, region)
      PROVE  BytesRead(image, tap[1], tap[2]) \subseteq 0 .. image.bytes - 1
  <2>1. tap[1] \in 0 .. image.width - 1 /\ tap[2] \in 0 .. image.height - 1
    BY <1>2
  <2> QED
    BY <2>1, BytesInside
<1> QED
  BY <1>2, <1>3 DEF InFrame

LEMMA GreyLemma == GreyStaysGrey
<1> DEFINE grey(l) == YuyvRgb(l, 128, 128)
<1>1. ASSUME NEW luma \in 0 .. 255
      PROVE  /\ grey(luma)[1] = grey(luma)[2] /\ grey(luma)[2] = grey(luma)[3]
             /\ luma > 0 => grey(luma)[1] \in grey(luma - 1)[1] .. 255
  BY DEF YuyvRgb, ClampByte, Smaller, Larger
<1> QED
  BY <1>1 DEF GreyStaysGrey

\* A cell of three coordinates has one number, and every number is a cell's.
Numbering(a, b, c) ==
  /\ \A i \in 0 .. a - 1, j \in 0 .. b - 1, k \in 0 .. c - 1 :
       a * (b * k + j) + i \in 0 .. a * b * c - 1
  /\ \A i, u \in 0 .. a - 1, j, v \in 0 .. b - 1, k, l \in 0 .. c - 1 :
       a * (b * k + j) + i = a * (b * l + v) + u =>
         i = u /\ j = v /\ k = l
  /\ \A n \in 0 .. a * b * c - 1 :
       \E i \in 0 .. a - 1, j \in 0 .. b - 1, k \in 0 .. c - 1 :
         n = a * (b * k + j) + i

LEMMA Numbered ==
  ASSUME NEW a \in Nat \ {0}, NEW b \in Nat \ {0}, NEW c \in Nat \ {0}
  PROVE  Numbering(a, b, c)
<1>1. MixedDigits(a, b, c)
  BY MixedRadix
<1>2. \A i \in 0 .. a - 1, j \in 0 .. b - 1, k \in 0 .. c - 1 :
        /\ a * (b * k + j) + i \in 0 .. a * b * c - 1
        /\ (a * (b * k + j) + i) % a = i
        /\ ((a * (b * k + j) + i) \div a) % b = j
        /\ ((a * (b * k + j) + i) \div a) \div b = k
  BY <1>1 DEF MixedDigits
<1>3. ASSUME NEW i \in 0 .. a - 1, NEW j \in 0 .. b - 1, NEW k \in 0 .. c - 1,
             NEW u \in 0 .. a - 1, NEW v \in 0 .. b - 1, NEW l \in 0 .. c - 1,
             a * (b * k + j) + i = a * (b * l + v) + u
      PROVE  i = u /\ j = v /\ k = l
  <2> DEFINE m == a * (b * k + j) + i
             n == a * (b * l + v) + u
  <2>1. m % a = i /\ (m \div a) % b = j /\ (m \div a) \div b = k
    BY <1>2
  <2>2. n % a = u /\ (n \div a) % b = v /\ (n \div a) \div b = l
    BY <1>2
  <2>3. m = n
    BY <1>3
  <2> HIDE DEF m, n
  <2> QED
    BY <2>1, <2>2, <2>3
<1>4. \A n \in 0 .. a * b * c - 1 :
        \E i \in 0 .. a - 1, j \in 0 .. b - 1, k \in 0 .. c - 1 :
          n = a * (b * k + j) + i
  BY <1>1 DEF MixedDigits
<1> QED
  BY <1>2, <1>3, <1>4 DEF Numbering

\* Whatever the layout: a cell has one place, and every place is one cell's.
LEMMA TensorFilled ==
  ASSUME NEW input, InputIsNamed(input),
         input.width \in Nat \ {0}, input.height \in Nat \ {0},
         input.channels \in Nat \ {0}
  PROVE  FillsTensor(input)
<1> DEFINE w == input.width
           h == input.height
           c == input.channels
           cells == (0 .. w - 1) \X (0 .. h - 1) \X (0 .. c - 1)
           place(cell) == TensorIndex(input, cell[1], cell[2], cell[3])
           places == 0 .. w * h * c - 1
           f == [cell \in cells |-> place(cell)]
<1>1. w \in Nat \ {0} /\ h \in Nat \ {0} /\ c \in Nat \ {0}
  OBVIOUS
<1>2. DimensionProduct(Dimensions(input)) = w * h * c
  <2>1. /\ DimensionProduct(<<1, c, h, w>>) = 1 * c * h * w
        /\ DimensionProduct(<<1, h, w, c>>) = 1 * h * w * c
    <3> HIDE DEF w, h, c
    <3> QED
      BY <1>1, Products
  <2>2. 1 * c * h * w = w * h * c /\ 1 * h * w * c = w * h * c
    <3> HIDE DEF w, h, c
    <3> QED
      BY <1>1
  <2>3. Dimensions(input) \in {<<1, c, h, w>>, <<1, h, w, c>>}
    BY DEF Dimensions
  <2> QED
    BY <2>1, <2>2, <2>3
<1>3. \A x \in 0 .. w - 1, y \in 0 .. h - 1, k \in 0 .. c - 1 :
        TensorIndex(input, x, y, k) =
          IF input.layout = "Nchw" THEN w * (h * k + y) + x
          ELSE c * (w * y + x) + k
  <2> SUFFICES ASSUME NEW x \in 0 .. w - 1, NEW y \in 0 .. h - 1, NEW k \in 0 .. c - 1
               PROVE  TensorIndex(input, x, y, k) =
                        IF input.layout = "Nchw" THEN w * (h * k + y) + x
                        ELSE c * (w * y + x) + k
    OBVIOUS
  <2>1. TensorIndex(input, x, y, k) =
          IF input.layout = "Nchw" THEN k * w * h + y * w + x
          ELSE (y * w + x) * c + k
    BY DEF TensorIndex
  <2>2. /\ k * w * h + y * w + x = w * (h * k + y) + x
        /\ (y * w + x) * c + k = c * (w * y + x) + k
    <3> HIDE DEF w, h, c
    <3> QED
      BY <1>1
  <2> QED
    BY <2>1, <2>2
<1>4. /\ \A x \in 0 .. w - 1, y \in 0 .. h - 1, k \in 0 .. c - 1 :
           TensorIndex(input, x, y, k) \in places
      /\ \A x, u \in 0 .. w - 1, y, v \in 0 .. h - 1, k, l \in 0 .. c - 1 :
           TensorIndex(input, x, y, k) = TensorIndex(input, u, v, l) =>
             x = u /\ y = v /\ k = l
      /\ \A n \in places :
           \E x \in 0 .. w - 1, y \in 0 .. h - 1, k \in 0 .. c - 1 :
             n = TensorIndex(input, x, y, k)
  <2> HIDE DEF w, h, c
  <2>1. Numbering(w, h, c)
    BY <1>1, Numbered
  <2>2. Numbering(c, w, h)
    BY <1>1, Numbered
  <2>3. CASE input.layout = "Nchw"
    <3>1. \A x \in 0 .. w - 1, y \in 0 .. h - 1, k \in 0 .. c - 1 :
            TensorIndex(input, x, y, k) = w * (h * k + y) + x
      BY <1>3, <2>3
    <3>2. places = 0 .. w * h * c - 1
      BY <1>1
    <3>3. \A x \in 0 .. w - 1, y \in 0 .. h - 1, k \in 0 .. c - 1 :
            w * (h * k + y) + x \in 0 .. w * h * c - 1
      BY <2>1 DEF Numbering
    <3>4. \A x, u \in 0 .. w - 1, y, v \in 0 .. h - 1, k, l \in 0 .. c - 1 :
            w * (h * k + y) + x = w * (h * l + v) + u =>
              x = u /\ y = v /\ k = l
      BY <2>1 DEF Numbering
    <3>5. \A n \in 0 .. w * h * c - 1 :
            \E x \in 0 .. w - 1, y \in 0 .. h - 1, k \in 0 .. c - 1 :
              n = w * (h * k + y) + x
      BY <2>1 DEF Numbering
    <3> HIDE DEF places
    <3>6. ASSUME NEW x \in 0 .. w - 1, NEW y \in 0 .. h - 1, NEW k \in 0 .. c - 1
          PROVE  TensorIndex(input, x, y, k) \in places
      BY <3>1, <3>2, <3>3
    <3>7. ASSUME NEW x \in 0 .. w - 1, NEW u \in 0 .. w - 1,
                 NEW y \in 0 .. h - 1, NEW v \in 0 .. h - 1,
                 NEW k \in 0 .. c - 1, NEW l \in 0 .. c - 1,
                 TensorIndex(input, x, y, k) = TensorIndex(input, u, v, l)
          PROVE  x = u /\ y = v /\ k = l
      <4>1. w * (h * k + y) + x = w * (h * l + v) + u
        BY <3>1, <3>7
      <4> QED
        BY <3>4, <4>1
    <3>8. ASSUME NEW n \in places
          PROVE  \E x \in 0 .. w - 1, y \in 0 .. h - 1, k \in 0 .. c - 1 :
                   n = TensorIndex(input, x, y, k)
      <4>1. PICK x \in 0 .. w - 1, y \in 0 .. h - 1, k \in 0 .. c - 1 : n = w * (h * k + y) + x
        BY <3>2, <3>5
      <4>2. n = TensorIndex(input, x, y, k)
        BY <3>1, <4>1
      <4> QED
        BY <4>2
    <3> QED
      BY <3>6, <3>7, <3>8
  <2>4. CASE input.layout # "Nchw"
    <3>1. \A x \in 0 .. w - 1, y \in 0 .. h - 1, k \in 0 .. c - 1 :
            TensorIndex(input, x, y, k) = c * (w * y + x) + k
      BY <1>3, <2>4
    <3>2. places = 0 .. c * w * h - 1
      BY <1>1
    <3>3. \A k \in 0 .. c - 1, x \in 0 .. w - 1, y \in 0 .. h - 1 :
            c * (w * y + x) + k \in 0 .. c * w * h - 1
      BY <2>2 DEF Numbering
    <3>4. \A k, l \in 0 .. c - 1, x, u \in 0 .. w - 1, y, v \in 0 .. h - 1 :
            c * (w * y + x) + k = c * (w * v + u) + l =>
              k = l /\ x = u /\ y = v
      BY <2>2 DEF Numbering
    <3>5. \A n \in 0 .. c * w * h - 1 :
            \E k \in 0 .. c - 1, x \in 0 .. w - 1, y \in 0 .. h - 1 :
              n = c * (w * y + x) + k
      BY <2>2 DEF Numbering
    <3> HIDE DEF places
    <3>6. ASSUME NEW x \in 0 .. w - 1, NEW y \in 0 .. h - 1, NEW k \in 0 .. c - 1
          PROVE  TensorIndex(input, x, y, k) \in places
      BY <3>1, <3>2, <3>3
    <3>7. ASSUME NEW x \in 0 .. w - 1, NEW u \in 0 .. w - 1,
                 NEW y \in 0 .. h - 1, NEW v \in 0 .. h - 1,
                 NEW k \in 0 .. c - 1, NEW l \in 0 .. c - 1,
                 TensorIndex(input, x, y, k) = TensorIndex(input, u, v, l)
          PROVE  x = u /\ y = v /\ k = l
      <4>1. c * (w * y + x) + k = c * (w * v + u) + l
        BY <3>1, <3>7
      <4> QED
        BY <3>4, <4>1
    <3>8. ASSUME NEW n \in places
          PROVE  \E x \in 0 .. w - 1, y \in 0 .. h - 1, k \in 0 .. c - 1 :
                   n = TensorIndex(input, x, y, k)
      <4>1. PICK k \in 0 .. c - 1, x \in 0 .. w - 1, y \in 0 .. h - 1 : n = c * (w * y + x) + k
        BY <3>2, <3>5
      <4>2. n = TensorIndex(input, x, y, k)
        BY <3>1, <4>1
      <4> QED
        BY <4>2
    <3> QED
      BY <3>6, <3>7, <3>8
  <2> QED
    BY <2>3, <2>4
<1> HIDE DEF w, h, c
<1>5. /\ \A cell \in cells : place(cell) \in places
      /\ \A a, b \in cells : place(a) = place(b) => a = b
      /\ \A n \in places : \E cell \in cells : n = place(cell)
  <2> HIDE DEF places
  <2>1. ASSUME NEW cell \in cells PROVE place(cell) \in places
    BY <1>4
  <2>2. ASSUME NEW a \in cells, NEW b \in cells, place(a) = place(b) PROVE a = b
    <3>1. a[1] = b[1] /\ a[2] = b[2] /\ a[3] = b[3]
      BY <1>4, <2>2
    <3> QED
      BY <3>1
  <2>3. ASSUME NEW n \in places PROVE \E cell \in cells : n = place(cell)
    <3>1. PICK x \in 0 .. w - 1, y \in 0 .. h - 1, k \in 0 .. c - 1 :
            n = TensorIndex(input, x, y, k)
      BY <1>4
    <3>2. <<x, y, k>> \in cells /\ n = place(<<x, y, k>>)
      BY <3>1
    <3> HIDE DEF cells, place
    <3> QED
      BY <3>2
  <2> HIDE DEF cells, place
  <2> QED
    BY <2>1, <2>2, <2>3
<1>6. {place(cell) : cell \in cells} = places
  <2> HIDE DEF cells, place, places
  <2> QED
    BY <1>5
<1>7. Cardinality(cells) = w * h * c
  <2>1. f \in Injection(cells, places) /\ f \in Surjection(cells, places)
    <3> HIDE DEF cells, place, places
    <3> QED
      BY <1>5 DEF Injection, Surjection, IsInjective
  <2>2. w * h * c \in Nat
    BY <1>1
  <2>3. IsFiniteSet(places) /\ Cardinality(places) = w * h * c
    <3> DEFINE N == w * h * c
    <3>1. N \in Nat /\ N - 1 \in Int /\ 0 \in Int
      BY <2>2
    <3> HIDE DEF N
    <3>2. IsFiniteSet(0 .. N - 1) /\ Cardinality(0 .. N - 1) = N
      <4>1. /\ IsFiniteSet(0 .. N - 1)
            /\ Cardinality(0 .. N - 1) = IF 0 > N - 1 THEN 0 ELSE N - 1 - 0 + 1
        BY <3>1, FS_Interval, Zenon
      <4> QED
        BY <3>1, <4>1
    <3> QED
      BY <3>2 DEF N
  <2> HIDE DEF f, cells, places
  <2> QED
    BY <2>1, <2>3, FS_Injection
<1>8. QED
  <2>1. /\ {place(cell) : cell \in cells} = 0 .. DimensionProduct(Dimensions(input)) - 1
        /\ Cardinality(cells) = DimensionProduct(Dimensions(input))
    BY <1>2, <1>6, <1>7
  <2> QED
    BY <2>1 DEF FillsTensor, w, h, c

\* The two samplers agree on a crop of the whole frame.
LEMMA SamplersAgree ==
  ASSUME NEW extent \in Nat \ {0}, NEW source \in Nat \ {0}
  PROVE  WholeIsWhole(extent, source)
<1> SUFFICES ASSUME NEW t \in 0 .. extent - 1
             PROVE  LET a == Axis(t, extent, source)
                        b == RegionAxis(t, extent, source, 0, Fine)
                    IN  /\ a.lower = b.lower
                        /\ a.num * b.den = b.num * a.den
                        /\ a.upper = b.upper \/ a.num = 0
  BY DEF WholeIsWhole
<1> DEFINE num == (2 * t + 1) * source - extent
           D == 2 * extent
           F == Fine
           raw == num \div D
           r == num % D
           last == source - 1
           at == Larger(0, Smaller(F * num, last * (D * F)))
           a == Axis(t, extent, source)
           b == RegionAxis(t, extent, source, 0, Fine)
<1>1. num \in Int /\ D \in Nat \ {0} /\ F \in Nat \ {0} /\ last \in Nat
  BY FineIs
<1>2. a = IF raw < 0 THEN [lower |-> 0, upper |-> 0, num |-> 0, den |-> 1]
          ELSE IF Smaller(raw, last) = last
          THEN [lower |-> Smaller(raw, last), upper |-> Smaller(raw, last),
                num |-> 0, den |-> 1]
          ELSE [lower |-> Smaller(raw, last), upper |-> Smaller(raw, last) + 1,
                num |-> r, den |-> D]
  BY DEF Axis
<1>3. b = [lower |-> at \div (D * F),
           upper |-> Smaller(at \div (D * F) + 1, last),
           num |-> at % (D * F), den |-> D * F]
  <2>1. source * ((2 * t + 1) * F + 2 * extent * 0) - extent * F = F * num
    <3>1. F \in Int
      BY <1>1
    <3> HIDE DEF F
    <3> QED
      BY <3>1
  <2>2. RegionAxis(t, extent, source, 0, Fine) = FloatingAxis(F * num, D * F, source)
    BY <2>1 DEF RegionAxis
  <2> HIDE DEF num, D, F
  <2> QED
    BY <2>2 DEF FloatingAxis
<1> HIDE DEF num, D, F, last, a, b
<1>4. raw \in Int /\ r \in 0 .. D - 1 /\ num = D * raw + r
  BY <1>1, DivBounds
<1> HIDE DEF raw, r
<1>5. D * F \in Nat \ {0}
  BY <1>1
<1>6. CASE raw < 0
  <2>1. num < 0
    <3>1. D * raw <= -D
      BY <1>1, <1>4, <1>6
    <3> QED
      BY <1>1, <1>4, <3>1
  <2>2. F * num < 0 /\ F * num \in Int /\ last * (D * F) \in Nat
    BY <1>1, <1>5, <2>1
  <2>3. at = 0
    BY <2>2 DEF Larger, Smaller
  <2> HIDE DEF at
  <2>4. at \div (D * F) = 0 /\ at % (D * F) = 0
    <3> DEFINE G == D * F
    <3>1. G \in Nat \ {0} /\ 0 \in 0 .. G - 1 /\ at = G * 0 + 0
      BY <1>5, <2>3
    <3> HIDE DEF G
    <3>2. at \div G = 0 /\ at % G = 0
      BY <3>1, DivIs
    <3> QED
      BY <3>2 DEF G
  <2>5. a.lower = 0 /\ a.num = 0 /\ a.den = 1 /\ b.lower = 0 /\ b.num = 0 /\ b.den = D * F
    BY <1>2, <1>3, <1>6, <2>4
  <2>6. a.num * b.den = b.num * a.den
    BY <1>5, <2>5
  <2> QED
    BY <2>5, <2>6 DEF a, b, F
<1>7. CASE raw >= last
  <2>1. num >= D * last
    <3>1. D * raw >= D * last
      BY <1>1, <1>4, <1>7
    <3> QED
      BY <1>1, <1>4, <3>1
  <2>2. F * num >= F * (D * last)
    BY <1>1, <2>1
  <2>3. F * (D * last) = last * (D * F) /\ F * num \in Int /\ last * (D * F) \in Nat
    BY <1>1
  <2>4. at = last * (D * F)
    BY <2>2, <2>3 DEF Larger, Smaller
  <2> HIDE DEF at
  <2>5. at \div (D * F) = last /\ at % (D * F) = 0
    <3> DEFINE G == D * F
    <3>1. G \in Nat \ {0} /\ 0 \in 0 .. G - 1 /\ last \in Int
      BY <1>1, <1>5
    <3>2. at = last * G
      BY <2>4
    <3> HIDE DEF G
    <3>3. at = G * last + 0
      BY <3>1, <3>2
    <3>4. at \div G = last /\ at % G = 0
      BY <3>1, <3>3, DivIs
    <3> QED
      BY <3>4 DEF G
  <2>6. Smaller(raw, last) = last
    BY <1>1, <1>4, <1>7 DEF Smaller
  <2>7. /\ a.lower = last /\ a.num = 0 /\ a.den = 1
        /\ b.lower = last /\ b.num = 0 /\ b.den = D * F
    BY <1>1, <1>2, <1>3, <1>4, <1>7, <2>5, <2>6
  <2>8. a.num * b.den = b.num * a.den
    BY <1>5, <2>7
  <2> QED
    BY <2>7, <2>8 DEF a, b, F
<1>8. CASE 0 <= raw /\ raw < last
  <2>1. 0 <= num /\ num < D * last
    <3>1. 0 <= D * raw /\ D * raw <= D * (last - 1)
      BY <1>1, <1>4, <1>8
    <3>2. D * (last - 1) = D * last - D
      BY <1>1
    <3>3. D * raw \in Int /\ D * last \in Int
      BY <1>1, <1>4
    <3> QED
      BY <1>1, <1>4, <3>1, <3>2, <3>3
  <2>2. 0 <= F * num /\ F * num <= F * (D * last)
    BY <1>1, <2>1
  <2>3. F * (D * last) = last * (D * F) /\ F * num \in Int /\ last * (D * F) \in Nat
    BY <1>1
  <2>4. at = F * num
    BY <2>2, <2>3 DEF Larger, Smaller
  <2> HIDE DEF at
  <2>5. F * num = (D * F) * raw + F * r
    BY <1>1, <1>4
  <2>6. F * r \in 0 .. D * F - 1
    <3>1. r >= 0 /\ r <= D - 1 /\ r \in Int
      BY <1>1, <1>4
    <3>2. F * r >= 0 /\ F * r <= F * (D - 1) /\ F * r \in Int
      BY <1>1, <3>1
    <3>3. F * (D - 1) = D * F - F
      BY <1>1
    <3> QED
      BY <1>1, <1>5, <3>2, <3>3
  <2>7. at \div (D * F) = raw /\ at % (D * F) = F * r
    <3> DEFINE G == D * F
               s == F * r
    <3>1. G \in Nat \ {0} /\ s \in 0 .. G - 1 /\ at = G * raw + s
      BY <1>5, <2>4, <2>5, <2>6
    <3> HIDE DEF G, s
    <3>2. at \div G = raw /\ at % G = s
      BY <1>4, <3>1, DivIs
    <3> QED
      BY <3>2 DEF G, s
  <2>8. Smaller(raw, last) = raw /\ raw # last /\ Smaller(raw + 1, last) = raw + 1
    BY <1>1, <1>4, <1>8 DEF Smaller
  <2>9. /\ a.lower = raw /\ a.upper = raw + 1 /\ a.num = r /\ a.den = D
        /\ b.lower = raw /\ b.upper = raw + 1 /\ b.num = F * r /\ b.den = D * F
    BY <1>1, <1>2, <1>3, <1>4, <1>8, <2>7, <2>8
  <2>10. r * (D * F) = (F * r) * D
    BY <1>1, <1>4
  <2> QED
    BY <2>9, <2>10 DEF a, b, F
<1> QED
  BY <1>1, <1>4, <1>6, <1>7, <1>8

\* A region of the picture ends in the picture.
LEMMA RegionWithin ==
  ASSUME NEW image, image.width \in Nat \ {0}, image.height \in Nat \ {0},
         NEW l, l.region[1] \in 0 .. Fine, l.region[2] \in 0 .. Fine,
         l.region[3] \in 0 .. Fine, l.region[4] \in 0 .. Fine
  PROVE  LET r == PixelRegion(image, GeometryOf(l))
         IN  /\ r.x0 \in 0 .. image.width /\ r.x1 \in 0 .. image.width
             /\ r.y0 \in 0 .. image.height /\ r.y1 \in 0 .. image.height
<1> DEFINE low(twice, span, extent) == ((twice - span) * extent) \div (2 * Fine)
           high(twice, span, extent) == -((-(twice + span) * extent) \div (2 * Fine))
<1>1. ASSUME NEW a \in 0 .. Fine, NEW b \in 0 .. Fine, NEW extent \in Nat \ {0}
      PROVE  /\ low(a + b, b - a, extent) \in 0 .. extent
             /\ high(a + b, b - a, extent) \in 0 .. extent
  <2> DEFINE F == 2 * Fine
  <2>1. F \in Nat \ {0} /\ a \in Nat /\ b \in Nat /\ 2 * a <= F /\ 2 * b <= F
    BY FineIs
  <2>2. (a + b) - (b - a) = 2 * a /\ -((a + b) + (b - a)) = -(2 * b)
    BY <2>1
  <2>3. low(a + b, b - a, extent) \in 0 .. extent
    <3> DEFINE n == 2 * a * extent
    <3>1. n \in Int /\ 0 <= n
      BY <2>1
    <3>2. n <= F * extent
      <4> HIDE DEF F
      <4> QED
        BY <2>1
    <3>3. F * extent = extent * F /\ F * extent \in Int
      BY <2>1
    <3> HIDE DEF n, F
    <3>4. n \in 0 .. extent * F
      BY <3>1, <3>2, <3>3
    <3>5. n \div F \in 0 .. extent
      BY <2>1, <3>4, DivInside
    <3> QED
      BY <2>2, <3>5 DEF n, F
  <2>4. high(a + b, b - a, extent) \in 0 .. extent
    <3> DEFINE n == -(2 * b) * extent
               m == n \div F
               r == n % F
    <3>1. n \in Int /\ n <= 0
      BY <2>1
    <3>2. -(F * extent) <= n
      <4> HIDE DEF F
      <4> QED
        BY <2>1
    <3> HIDE DEF n
    <3>3. m \in Int /\ r \in 0 .. F - 1 /\ n = F * m + r
      <4> HIDE DEF F
      <4> QED
        BY <2>1, <3>1, DivBounds
    <3> HIDE DEF m, r, F
    <3>4. m <= 0
      <4>1. CASE m >= 1
        <5>1. F * m >= F
          BY <2>1, <3>3, <4>1
        <5> QED
          BY <2>1, <3>1, <3>3, <5>1
      <4> QED
        BY <3>3, <4>1
    <3>5. m >= -extent
      <4>1. CASE m <= -extent - 1
        <5>1. F * m <= F * (-extent - 1)
          BY <2>1, <3>3, <4>1
        <5>2. F * (-extent - 1) = -(F * extent) - F /\ F * extent \in Int /\ F * m \in Int
          BY <2>1, <3>3
        <5> QED
          BY <2>1, <3>1, <3>2, <3>3, <5>1, <5>2
      <4> QED
        BY <3>3, <4>1
    <3>6. -m \in 0 .. extent
      BY <3>3, <3>4, <3>5
    <3> QED
      BY <2>2, <3>6 DEF n, m, F
  <2> QED
    BY <2>3, <2>4
<1> DEFINE r == l.region
           w == image.width
           h == image.height
<1>2. PixelRegion(image, GeometryOf(l)) =
        [x0 |-> low(r[1] + r[3], r[3] - r[1], w),
         x1 |-> high(r[1] + r[3], r[3] - r[1], w),
         y0 |-> low(r[2] + r[4], r[4] - r[2], h),
         y1 |-> high(r[2] + r[4], r[4] - r[2], h)]
  BY DEF PixelRegion, GeometryOf
<1> DEFINE q == PixelRegion(image, GeometryOf(l))
<1>3. q.x0 \in 0 .. w /\ q.x1 \in 0 .. w
  <2>1. /\ low(r[1] + r[3], r[3] - r[1], w) \in 0 .. w
        /\ high(r[1] + r[3], r[3] - r[1], w) \in 0 .. w
    BY <1>1, Zenon
  <2> HIDE DEF low, high
  <2> QED
    BY <1>2, <2>1
<1>4. q.y0 \in 0 .. h /\ q.y1 \in 0 .. h
  <2>1. /\ low(r[2] + r[4], r[4] - r[2], h) \in 0 .. h
        /\ high(r[2] + r[4], r[4] - r[2], h) \in 0 .. h
    BY <1>1, Zenon
  <2> HIDE DEF low, high
  <2> QED
    BY <1>2, <2>1
<1> QED
  BY <1>3, <1>4

\* The pixels of the region are in the picture.
LEMMA PixelsInside ==
  ASSUME NEW image, image.width \in Nat \ {0}, image.height \in Nat \ {0},
         NEW l, l.region[1] \in 0 .. Fine, l.region[2] \in 0 .. Fine,
         l.region[3] \in 0 .. Fine, l.region[4] \in 0 .. Fine,
         NEW p \in PixelsOf(PixelRegion(image, GeometryOf(l)))
  PROVE  p[1] \in 0 .. image.width - 1 /\ p[2] \in 0 .. image.height - 1
<1> DEFINE r == PixelRegion(image, GeometryOf(l))
<1>1. /\ r.x0 \in 0 .. image.width /\ r.x1 \in 0 .. image.width
      /\ r.y0 \in 0 .. image.height /\ r.y1 \in 0 .. image.height
  BY RegionWithin
<1>2. p \in (r.x0 .. r.x1 - 1) \X (r.y0 .. r.y1 - 1)
  BY DEF PixelsOf
<1> HIDE DEF r
<1> QED
  BY <1>1, <1>2

--------------------------------------------------------------------------------
(***************************************************************************)
(* What the worker has looked at stays looked at: the models are admitted, *)
(* the policies valid, the input it prepared is sound, and the outputs it  *)
(* has not read yet are those of the models that ran, in their shapes.     *)
(***************************************************************************)

GivenHeld == deployment \in DOMAIN Deployments /\ pair \in DOMAIN Pairs

ModelsHeld ==
  /\ pc = "load" => \A i \in 1 .. stage - 1 : Admitted(Model(i))
  /\ pc = "build" \/ pc \in Working => \A i \in 1 .. 6 : Admitted(Model(i))

\* The places a stage has, and the policy of the detector.
StagesHeld ==
  /\ pc = "prepare" => stage \in 1 .. 4
  /\ pc = "read" => stage \in {1, 2, 3, 6}
  /\ pc \in Working => ValidDetection(Config.detection)

RegionHeld ==
  pc \in Working /\ stage >= 3 =>
    landmarks.region = SquareOf(Model(2).crop, face)

InputHeld ==
  pc = "start" =>
    /\ stage = 1 => Preprocesses(Model(1).input, Frames.visible)
    /\ stage = 2 => Preprocesses(Model(2).input, Frames.visible)
    /\ stage = 3 => QualityRefusal(Frames.visible, GeometryOf(landmarks),
                                   Config.quality) = "None"
    /\ stage = 4 => Preprocesses(Model(4).input, Frames.infrared)

\* The outputs of one model, as run_named copies them.
Shaped(m, o) ==
  /\ DOMAIN o = DOMAIN m.outputs /\ Len(o) = Len(m.outputs)
  /\ \A i \in DOMAIN m.outputs :
       /\ o[i].name = m.outputs[i].name
       /\ o[i].dims = m.outputs[i].dims
       /\ o[i].values \in Seq(Int)
       /\ Len(o[i].values) = DimensionProduct(m.outputs[i].dims)

\* The models whose outputs wait to be read, the last of them run last.
Ran(place, at) ==
  CASE place \in {"start", "run"} /\ at >= 4 -> at - 4
    [] place = "read" -> IF at = 6 THEN 3 ELSE 1
    [] OTHER -> 0

RanAt(at, k) == IF at >= 4 THEN k + 3 ELSE at


CopiesOf(d, i) ==
  {CopyOf(Deployments[d].models[i], r) : r \in Returned(Order[i])}

AllCopies ==
  UNION {CopiesOf(d, i) : d \in DOMAIN Deployments, i \in DOMAIN Order}

OutputsHeld ==
  /\ outputs \in Seq(AllCopies)
  /\ pc \in Working \/ pc = "build" =>
       /\ Len(outputs) = Ran(pc, stage)
       /\ \A k \in 1 .. Ran(pc, stage) : Shaped(Model(RanAt(stage, k)), outputs[k])
  /\ pc = "load" => outputs = <<>>

SoundInv ==
  /\ RolesHeld
  /\ FaceHeld
  /\ GivenHeld
  /\ ModelsHeld
  /\ StagesHeld
  /\ RegionHeld
  /\ InputHeld
  /\ OutputsHeld

LEMMA SoundInit == Init => SoundInv
<1> SUFFICES ASSUME Init PROVE SoundInv
  OBVIOUS
<1>1. /\ deployment \in DOMAIN Deployments /\ pair \in DOMAIN Pairs
      /\ pc = "load" /\ stage = 1 /\ outputs = <<>>
  BY DEF Init
<1>2. outputs \in Seq(AllCopies)
  <2> HIDE DEF AllCopies
  <2> QED
    BY <1>1
<1>3. QED
  BY <1>1, <1>2 DEF SoundInv, RolesHeld, FaceHeld, GivenHeld, ModelsHeld,
     StagesHeld, RegionHeld, InputHeld, OutputsHeld, Working

\* The worker ends.
LEMMA SoundEnds ==
  ASSUME SoundInv, pc' = "done", stage' \in 1 .. 6, UNCHANGED given,
         outputs' \in {outputs, <<>>}
  PROVE  SoundInv'
<1>1. GivenHeld'
  BY DEF SoundInv, GivenHeld, given
<1>2. outputs' \in Seq(AllCopies)
  <2> DEFINE S == AllCopies
  <2>1. outputs \in Seq(S)
    BY DEF SoundInv, OutputsHeld
  <2> HIDE DEF S
  <2>2. <<>> \in Seq(S)
    OBVIOUS
  <2>3. outputs' \in Seq(S)
    BY <2>1, <2>2
  <2> QED
    BY <2>3 DEF S
<1>3. AllCopies' = AllCopies
  BY DEF AllCopies, CopiesOf, CopyOf
<1>4. QED
  BY <1>1, <1>2 DEF SoundInv, RolesHeld, FaceHeld, ModelsHeld,
     StagesHeld, RegionHeld, InputHeld, OutputsHeld, Working, AllCopies

\* Nothing but the place changes, and the input may have been looked at.
LEMMA SoundStays ==
  ASSUME SoundInv, UNCHANGED <<given, stage, outputs>>,
         UNCHANGED <<face, landmarks>>,
         \/ UNCHANGED pc
         \/ pc = "prepare" /\ pc' = "start" /\ InputHeld'
         \/ pc = "start" /\ pc' = "run"
  PROVE  SoundInv'
<1>1. UNCHANGED <<deployment, pair, stage, outputs, face, landmarks>>
  BY DEF given
<1>2. pc = "start" \/ pc = "prepare" \/ pc' = pc
  OBVIOUS
<1>3. GivenHeld' /\ RolesHeld' /\ FaceHeld' /\ RegionHeld'
  BY <1>1 DEF SoundInv, GivenHeld, RolesHeld, RolesMatch, FaceHeld, RegionHeld,
              Model, Config, Working
<1>4. ModelsHeld'
  BY <1>1 DEF SoundInv, ModelsHeld, Model, Config, Working
<1>5. StagesHeld'
  BY <1>1 DEF SoundInv, StagesHeld, Config, Working
<1>6. InputHeld'
  BY <1>1 DEF SoundInv, InputHeld, Model, Config, Frames
<1>7. OutputsHeld'
  <2>1. pc' = "load" => pc = "load"
    OBVIOUS
  <2>2. pc' \in Working \/ pc' = "build" => pc \in Working \/ pc = "build"
    BY DEF Working
  <2>3. Ran(pc', stage') = Ran(pc, stage)
    <3>1. stage \in 1 .. 6 /\ (pc = "prepare" => stage \in 1 .. 4)
      BY DEF SoundInv, RolesHeld, StagesHeld
    <3>2. CASE pc' = pc
      BY <1>1, <3>2 DEF Ran
    <3>3. CASE pc = "prepare" /\ pc' = "start"
      BY <1>1, <3>1, <3>3 DEF Ran
    <3>4. CASE pc = "start" /\ pc' = "run"
      BY <1>1, <3>4 DEF Ran
    <3> QED
      BY <3>2, <3>3, <3>4
  <2>4. \A k : Model(k)' = Model(k)
    BY <1>1 DEF Model, Config, RanAt
  <2> QED
    BY <1>1, <2>1, <2>2, <2>3, <2>4 DEF SoundInv, OutputsHeld
<1>8. QED
  BY <1>3, <1>4, <1>5, <1>6, <1>7 DEF SoundInv

LEMMA LoadedAdmitted ==
  ASSUME deployment \in DOMAIN Deployments, stage \in Loadable[deployment]
  PROVE  Admitted(Model(stage))
BY DEF Loadable, Loads, ModelInstalled, FileMatches, Model, Config

LEMMA SoundLoad == ASSUME SoundInv, Load PROVE SoundInv'
<1>1. /\ pc = "load" /\ stage \in 1 .. 6 /\ UNCHANGED <<deployment, pair, outputs>>
      /\ deployment \in DOMAIN Deployments /\ pair \in DOMAIN Pairs
  BY DEF SoundInv, Load, RolesHeld, given, GivenHeld
<1>2. CASE stage \in Loadable[deployment]
  <2>1. /\ pc' = IF stage = 6 THEN "build" ELSE "load"
        /\ stage' = IF stage = 6 THEN 1 ELSE stage + 1
    BY <1>2 DEF Load, Proceed, Order
  <2>2. \A i \in 1 .. stage : Admitted(Model(i))
    BY <1>1, <1>2, LoadedAdmitted DEF SoundInv, ModelsHeld
  <2>3. ModelsHeld'
    BY <1>1, <2>1, <2>2 DEF ModelsHeld, Model, Config, Working
  <2>4. OutputsHeld'
    <3>1. Ran(pc', stage') = 0
      BY <2>1 DEF Ran
    <3>2. outputs' \in Seq(AllCopies) /\ outputs' = <<>>
      BY <1>1 DEF SoundInv, OutputsHeld
    <3> QED
      BY <3>1, <3>2 DEF OutputsHeld
  <2>5. QED
    BY <1>1, <2>1, <2>3, <2>4 DEF SoundInv, RolesHeld, FaceHeld, GivenHeld,
       StagesHeld, RegionHeld, InputHeld, Working
<1>3. CASE stage \notin Loadable[deployment]
  <2>1. pc' = "done" /\ stage' = stage
    BY <1>3 DEF Load, Return
  <2> QED
    BY <1>1, <2>1, SoundEnds DEF given
<1>4. QED
  BY <1>2, <1>3

LEMMA SoundBuild == ASSUME SoundInv, Build PROVE SoundInv'
<1>1. /\ pc = "build" /\ stage = 1 /\ UNCHANGED <<deployment, pair, stage, outputs>>
      /\ deployment \in DOMAIN Deployments /\ pair \in DOMAIN Pairs
  BY DEF SoundInv, Build, RolesHeld, given, GivenHeld
<1>2. CASE pc' = "prepare"
  <2>1. ValidDetection(Config.detection) /\ RolesMatch
    BY <1>2 DEF Build, Proceed, Return
  <2>2. ModelsHeld'
    BY <1>1, <1>2 DEF SoundInv, ModelsHeld, Model, Config, Working
  <2>3. OutputsHeld'
    <3>1. Ran(pc', stage') = 0 /\ Ran(pc, stage) = 0
      BY <1>1, <1>2 DEF Ran
    <3>2. outputs' \in Seq(AllCopies) /\ Len(outputs') = 0
      BY <1>1, <3>1 DEF SoundInv, OutputsHeld
    <3> QED
      BY <1>2, <3>1, <3>2 DEF OutputsHeld
  <2>4. QED
    BY <1>1, <1>2, <2>1, <2>2, <2>3 DEF SoundInv, RolesHeld, RolesMatch, FaceHeld,
       GivenHeld, StagesHeld, RegionHeld, InputHeld, Working, Model, Config
<1>3. CASE pc' # "prepare"
  <2>1. pc' = "done"
    BY <1>3 DEF Build, Proceed, Return
  <2> QED
    BY <1>1, <2>1, SoundEnds DEF given
<1>4. QED
  BY <1>2, <1>3

LEMMA SoundPrepare ==
  ASSUME SoundInv, PrepareDetector \/ PrepareLandmarks \/ PrepareEmbedding
                     \/ PreparePassive
  PROVE  SoundInv'
<1>1. /\ pc = "prepare" /\ stage \in 1 .. 6
      /\ given' = given /\ stage' = stage /\ outputs' = outputs
      /\ face' = face /\ landmarks' = landmarks
      /\ deployment' = deployment /\ pair' = pair
  BY DEF SoundInv, RolesHeld, PrepareDetector, PrepareLandmarks,
         PrepareEmbedding, PreparePassive, given, evidence
<1>2. \/ pc' = "done"
      \/ /\ pc' = "start"
         /\ stage = 1 => Preprocesses(Model(1).input, Frames.visible)
         /\ stage = 2 => Preprocesses(Model(2).input, Frames.visible)
         /\ stage = 3 => QualityRefusal(Frames.visible, GeometryOf(landmarks),
                                        Config.quality) = "None"
         /\ stage = 4 => Preprocesses(Model(4).input, Frames.infrared)
  BY DEF PrepareDetector, PrepareLandmarks, PrepareEmbedding, PreparePassive,
         GoesOn, Proceed, Return
<1>3. CASE pc' = "done"
  BY <1>1, <1>3, SoundEnds
<1>4. CASE pc' # "done"
  <2>1. InputHeld'
    BY <1>1, <1>2, <1>4 DEF InputHeld, Model, Config, Frames
  <2>2. pc = "prepare" /\ pc' = "start"
    BY <1>1, <1>2, <1>4
  <2> QED
    BY <1>1, <2>1, <2>2, SoundStays, Zenon
<1>5. QED
  BY <1>3, <1>4

LEMMA SoundStart == ASSUME SoundInv, Start \/ StartFails PROVE SoundInv'
<1>1. /\ pc = "start" /\ stage \in 1 .. 6
      /\ given' = given /\ stage' = stage /\ outputs' = outputs
      /\ face' = face /\ landmarks' = landmarks
      /\ pc' \in {"run", "done"}
  BY DEF SoundInv, RolesHeld, Start, StartFails, evidence, Proceed, Return
<1>2. CASE pc' = "done"
  BY <1>1, <1>2, SoundEnds
<1>3. CASE pc' = "run"
  BY <1>1, <1>3, SoundStays, Zenon
<1>4. QED
  BY <1>1, <1>2, <1>3

\* What run_named copies has the shapes the manifest declares.
LEMMA CopyShaped ==
  ASSUME NEW d \in DOMAIN Deployments, NEW i \in DOMAIN Order,
         Deployments[d].models[i].role = Order[i],
         NEW r \in Returned(Order[i]), Copies(Deployments[d].models[i], r)
  PROVE  Shaped(Deployments[d].models[i], CopyOf(Deployments[d].models[i], r))
<1> DEFINE m == Deployments[d].models[i]
           o == CopyOf(m, r)
<1>1. \A k \in DOMAIN r : r[k].values \in Seq({NaN} \cup Int)
  <2>1. Order[i] \in Roles
    BY DEF Order, Roles, PassiveRoles
  <2> QED
    BY <2>1, PerceptionAssumption
<1>2. ASSUME NEW k \in DOMAIN m.outputs
      PROVE  /\ o[k].name = m.outputs[k].name
             /\ o[k].dims = m.outputs[k].dims
             /\ o[k].values \in Seq(Int)
             /\ Len(o[k].values) = DimensionProduct(m.outputs[k].dims)
  <2> DEFINE name == m.outputs[k].name
             found == Get(r, name)
  <2>1. /\ Named(r, name) # {} /\ found.dims = m.outputs[k].dims
        /\ Len(found.values) = DimensionProduct(m.outputs[k].dims)
        /\ \A n \in DOMAIN found.values : found.values[n] # NaN
    BY DEF Copies
  <2>2. o[k] = found
    BY DEF CopyOf
  <2>3. found.name = name /\ found.values \in Seq({NaN} \cup Int)
    <3>1. PICK n : n \in Named(r, name) /\ found = r[n]
      BY <2>1, Zenon DEF Get
    <3>2. n \in DOMAIN r /\ r[n].name = name
      BY <3>1 DEF Named
    <3> HIDE DEF found, name
    <3> QED
      BY <1>1, <3>1, <3>2, Zenon
  <2>4. found.values \in Seq(Int)
    <3> DEFINE v == found.values
    <3>1. v \in Seq({NaN} \cup Int) /\ \A n \in DOMAIN v : v[n] # NaN
      BY <2>1, <2>3, Zenon
    <3> HIDE DEF v
    <3>2. v \in Seq(Int)
      BY <3>1
    <3> QED
      BY <3>2, Zenon DEF v
  <2> HIDE DEF o, found, m
  <2> QED
    BY <2>1, <2>2, <2>3, <2>4
<1>3. DOMAIN o = DOMAIN m.outputs /\ Len(o) = Len(m.outputs)
  <2> DEFINE n == Len(m.outputs)
  <2>1. n \in Nat /\ DOMAIN m.outputs = 1 .. n
    <3>1. m.outputs \in Seq(Range(m.outputs))
      BY PerceptionAssumption DEF ManifestIsNamed
    <3> HIDE DEF m
    <3> QED
      BY <3>1
  <2>2. o = [k \in 1 .. n |-> Get(r, m.outputs[k].name)]
    BY <2>1 DEF CopyOf
  <2> HIDE DEF n, o
  <2>3. o \in Seq({Get(r, m.outputs[k].name) : k \in 1 .. n})
    BY <2>1, <2>2
  <2>4. DOMAIN o = 1 .. n /\ Len(o) = n
    BY <2>1, <2>2, <2>3
  <2> QED
    BY <2>1, <2>4 DEF n
<1> HIDE DEF o, m
<1>4. Shaped(m, o)
  BY <1>2, <1>3 DEF Shaped
<1> QED
  BY <1>4 DEF o, m

LEMMA SoundJoin == ASSUME SoundInv, Join PROVE SoundInv'
<1>1. /\ pc = "run" /\ stage \in 1 .. 6
      /\ given' = given /\ face' = face /\ landmarks' = landmarks
      /\ deployment' = deployment /\ pair' = pair
      /\ deployment \in DOMAIN Deployments
      /\ RolesMatch
  BY DEF SoundInv, RolesHeld, GivenHeld, Join, given, evidence, Working
<1>2. CASE pc' = "done"
  <2>1. stage' = stage /\ outputs' = outputs
    BY <1>2 DEF Join, AfterRun, Proceed, Return
  <2> QED
    BY <1>1, <1>2, <2>1, SoundEnds
<1>3. CASE pc' # "done"
  <2>1. PICK r \in Returned(Order[stage]) :
          /\ Copies(Model(stage), r)
          /\ outputs' = Append(outputs, CopyOf(Model(stage), r))
          /\ pc' = AfterRun
          /\ stage' = IF AfterRun = "start" THEN stage + 1 ELSE stage
    BY <1>3 DEF Join, Proceed, Return
  <2> DEFINE o == CopyOf(Model(stage), r)
  <2>2. Shaped(Model(stage), o)
    <3>1. stage \in DOMAIN Order
      BY <1>1 DEF Order
    <3>2. Model(stage) = Deployments[deployment].models[stage]
          /\ Model(stage).role = Order[stage]
      BY <1>1, <3>1 DEF Model, Config, RolesMatch
    <3> DEFINE m == Deployments[deployment].models[stage]
    <3>3. Copies(m, r) /\ m.role = Order[stage]
      BY <2>1, <3>2
    <3>4. Shaped(m, CopyOf(m, r))
      BY <1>1, <2>1, <3>1, <3>3, CopyShaped
    <3> QED
      BY <3>2, <3>4
  <2>3. o \in AllCopies
    <3>1. stage \in DOMAIN Order
      BY <1>1 DEF Order
    <3>2. o \in CopiesOf(deployment, stage)
      BY DEF CopiesOf, Model, Config
    <3> HIDE DEF o
    <3> QED
      BY <1>1, <3>1, <3>2 DEF AllCopies
  <2>4. \/ pc' = "start" /\ stage \in {4, 5} /\ stage' = stage + 1
        \/ pc' = "read" /\ stage \in {1, 2, 3, 6} /\ stage' = stage
    <3>1. AfterRun = IF stage \in {4, 5} THEN "start" ELSE "read"
      BY DEF AfterRun
    <3>2. stage \in 1 .. 6
      BY <1>1
    <3>3. pc' = AfterRun /\ stage' = IF AfterRun = "start" THEN stage + 1 ELSE stage
      BY <2>1
    <3> QED
      BY <3>1, <3>2, <3>3
  <2>5. Ran(pc', stage') = Ran(pc, stage) + 1 /\ Ran(pc, stage) \in Nat
    BY <1>1, <2>4 DEF Ran
  <2>6. /\ RanAt(stage', Ran(pc, stage) + 1) = stage
        /\ \A k \in 1 .. Ran(pc, stage) : RanAt(stage', k) = RanAt(stage, k)
    BY <1>1, <2>4 DEF Ran, RanAt
  <2>7. OutputsHeld'
    <3>1. /\ outputs \in Seq(AllCopies) /\ Len(outputs) = Ran(pc, stage)
          /\ \A k \in 1 .. Ran(pc, stage) : Shaped(Model(RanAt(stage, k)), outputs[k])
      BY <1>1 DEF SoundInv, OutputsHeld, Working
    <3> HIDE DEF o
    <3>2. outputs' = Append(outputs, o)
      BY <2>1 DEF o
    <3>3. /\ outputs' \in Seq(AllCopies) /\ Len(outputs') = Ran(pc, stage) + 1
          /\ outputs'[Ran(pc, stage) + 1] = o
          /\ \A k \in 1 .. Ran(pc, stage) : outputs'[k] = outputs[k]
      <4> DEFINE S == AllCopies
                 n == Ran(pc, stage)
      <4>1. outputs \in Seq(S) /\ Len(outputs) = n /\ o \in S /\ n \in Nat
        BY <2>3, <2>5, <3>1
      <4> HIDE DEF S, n
      <4>2. /\ outputs' \in Seq(S) /\ Len(outputs') = n + 1
            /\ outputs'[n + 1] = o
            /\ \A k \in 1 .. n : outputs'[k] = outputs[k]
        <5>1. Append(outputs, o) \in Seq(S) /\ Len(Append(outputs, o)) = n + 1
          BY <4>1
        <5>2. \A k \in 1 .. n + 1 :
                Append(outputs, o)[k] = IF k = n + 1 THEN o ELSE outputs[k]
          BY <4>1
        <5>3. \A k \in 1 .. n : k \in 1 .. n + 1 /\ k # n + 1
          BY <4>1
        <5> QED
          BY <3>2, <4>1, <5>1, <5>2, <5>3
      <4> QED
        BY <4>2 DEF S, n
    <3>4. ASSUME NEW k \in 1 .. Ran(pc, stage) + 1
          PROVE  Shaped(Model(RanAt(stage, k)), outputs[k])'
      <4>1. CASE k = Ran(pc, stage) + 1
        <5>1. Model(RanAt(stage, k))' = Model(stage) /\ outputs'[k] = o
          BY <1>1, <2>6, <3>3, <4>1 DEF Model, Config
        <5> QED
          BY <2>2, <5>1 DEF o
      <4>2. CASE k \in 1 .. Ran(pc, stage)
        <5>1. Model(RanAt(stage, k))' = Model(RanAt(stage, k)) /\ outputs'[k] = outputs[k]
          BY <1>1, <2>6, <3>3, <4>2 DEF Model, Config
        <5> QED
          BY <3>1, <4>2, <5>1
      <4> QED
        BY <2>5, <4>1, <4>2
    <3>5. pc' # "load" /\ Len(outputs') = Ran(pc', stage')
      BY <2>4, <2>5, <3>3
    <3>6. \A k \in 1 .. Ran(pc', stage') : Shaped(Model(RanAt(stage, k)), outputs[k])'
      BY <2>5, <3>4
    <3> QED
      BY <3>3, <3>5, <3>6 DEF OutputsHeld
  <2>8. ModelsHeld' /\ RolesHeld' /\ FaceHeld' /\ RegionHeld'
    BY <1>1, <2>4 DEF SoundInv, ModelsHeld, RolesHeld, RolesMatch, FaceHeld,
         RegionHeld, Model, Config, Working
  <2>9. StagesHeld' /\ InputHeld' /\ GivenHeld'
    BY <1>1, <2>4 DEF SoundInv, StagesHeld, InputHeld, GivenHeld, Config, Working
  <2>10. QED
    BY <2>7, <2>8, <2>9 DEF SoundInv
<1>4. QED
  BY <1>2, <1>3

\* The outputs were read and the next model is prepared.
LEMMA SoundReads ==
  ASSUME SoundInv, pc = "read", pc' \in {"prepare", "decide"},
         stage' \in 1 .. 6, pc' = "prepare" => stage' \in 1 .. 4,
         UNCHANGED <<deployment, pair>>, outputs' = <<>>,
         stage' >= 2 => SquareInside(Model(2).crop, face'),
         stage' >= 3 => landmarks'.region = SquareOf(Model(2).crop, face')
  PROVE  SoundInv'
<1>1. /\ RolesMatch /\ ValidDetection(Config.detection)
      /\ \A i \in 1 .. 6 : Admitted(Model(i))
  BY DEF SoundInv, RolesHeld, StagesHeld, ModelsHeld, Working
<1>2. OutputsHeld'
  <2>1. Ran(pc', stage') = 0
    BY DEF Ran
  <2>2. outputs' \in Seq(AllCopies)
    <3> HIDE DEF AllCopies
    <3> QED
      OBVIOUS
  <2> QED
    BY <2>1, <2>2 DEF OutputsHeld
<1>3. GivenHeld' /\ RolesHeld' /\ StagesHeld' /\ InputHeld' /\ ModelsHeld'
  BY <1>1 DEF SoundInv, GivenHeld, RolesHeld, RolesMatch, StagesHeld, InputHeld,
              ModelsHeld, Model, Config, Working
<1>4. FaceHeld' /\ RegionHeld'
  BY DEF FaceHeld, RegionHeld, Model, Config
<1>5. QED
  BY <1>2, <1>3, <1>4 DEF SoundInv

LEMMA SoundRead ==
  ASSUME SoundInv, ReadFaces \/ ReadLandmarks \/ ReadEmbedding \/ ReadScores
  PROVE  SoundInv'
<1>1. /\ pc = "read" /\ stage \in 1 .. 6
      /\ deployment' = deployment /\ pair' = pair /\ given' = given
      /\ outputs' = <<>>
  BY DEF SoundInv, RolesHeld, ReadFaces, ReadLandmarks, ReadEmbedding,
         ReadScores, given
<1>2. /\ stage >= 2 => SquareInside(Model(2).crop, face)
      /\ stage >= 3 => landmarks.region = SquareOf(Model(2).crop, face)
  BY <1>1 DEF SoundInv, FaceHeld, RegionHeld, Working
<1>3. \/ pc' = "done" /\ stage' = stage
      \/ /\ pc' \in {"prepare", "decide"} /\ stage' \in 1 .. 6
         /\ pc' = "prepare" => stage' \in 1 .. 4
         /\ SquareInside(Model(2).crop, face')
         /\ stage' >= 3 => landmarks'.region = SquareOf(Model(2).crop, face')
  <2>1. CASE ReadFaces
    <3>1. \A i \in SingleFace : SquareInside(Model(2).crop, Found[i].box)
      BY DEF SingleFace
    <3> QED
      BY <2>1, <3>1 DEF ReadFaces, Proceed, Return
  <2>2. CASE ReadLandmarks
    <3>1. \A m, o, region : FacialLandmarks(m, o, region).region = region
      BY DEF FacialLandmarks
    <3>2. /\ stage = 2 /\ face' = face
          /\ \/ pc' = "done" /\ stage' = stage
             \/ /\ pc' = "prepare" /\ stage' = 3
                /\ landmarks' = FacialLandmarks(Model(2), outputs[1],
                                                SquareOf(Model(2).crop, face))
      BY <2>2 DEF ReadLandmarks, Proceed, Return
    <3> QED
      BY <1>2, <3>1, <3>2
  <2>3. CASE ReadEmbedding
    BY <1>2, <2>3 DEF ReadEmbedding, Proceed, Return
  <2>4. CASE ReadScores
    BY <1>2, <2>4 DEF ReadScores, Proceed, Return
  <2> QED
    BY <2>1, <2>2, <2>3, <2>4
<1>4. CASE pc' = "done"
  <2>1. stage' \in 1 .. 6
    BY <1>1, <1>3, <1>4
  <2> QED
    BY <1>1, <1>4, <2>1, SoundEnds
<1>5. CASE pc' # "done"
  BY <1>1, <1>3, <1>5, SoundReads
<1>6. QED
  BY <1>4, <1>5

LEMMA SoundNext == ASSUME SoundInv, [Next]_vars PROVE SoundInv'
<1>1. CASE Load \/ Build
  BY <1>1, SoundLoad, SoundBuild
<1>2. CASE PrepareDetector \/ PrepareLandmarks \/ PrepareEmbedding \/ PreparePassive
  BY <1>2, SoundPrepare
<1>3. CASE Start \/ StartFails \/ Join
  BY <1>3, SoundStart, SoundJoin
<1>4. CASE ReadFaces \/ ReadLandmarks \/ ReadEmbedding \/ ReadScores
  BY <1>4, SoundRead
<1>5. CASE Decide
  <2>1. pc' = "done" /\ stage' = stage /\ outputs' = outputs /\ given' = given
        /\ stage \in 1 .. 6
    BY <1>5 DEF Decide, Return, SoundInv, RolesHeld
  <2> QED
    BY <2>1, SoundEnds
<1>6. CASE Watchdog \/ Expire \/ GraphEnds \/ Cancel \/ UNCHANGED vars
  <2>1. given' = given /\ face' = face /\ landmarks' = landmarks
        /\ stage' = stage /\ pc' = pc /\ outputs' = outputs
    BY <1>6 DEF Watchdog, WatchdogFires, WatchdogWakes, Expire, GraphEnds,
         Running, Cancel, vars, evidence
  <2> QED
    BY <2>1, SoundStays, Zenon
<1>7. QED
  BY <1>1, <1>2, <1>3, <1>4, <1>5, <1>6 DEF Next, Work

LEMMA SoundCorrect == Spec => []SoundInv
BY SoundInit, SoundNext, PTL DEF Spec

\* What preprocessing and the quality check accept is a picture.
LEMMA PreprocessedPicture ==
  ASSUME NEW input, NEW image, Preprocesses(input, image)
  PROVE  Picture(image)
<1>1. /\ image.width \in 1 .. MaxSource /\ image.height \in 1 .. MaxSource
      /\ MaxSource \in Nat
  BY InferenceAssumption DEF Preprocesses, ValidSource
<1> QED
  BY <1>1 DEF Preprocesses, ValidSource, Picture

LEMMA AssessedPicture ==
  ASSUME NEW image, NEW g, NEW q, QualityRefusal(image, g, q) = "None"
  PROVE  Picture(image)
<1>1. QualityView(image)
  BY DEF QualityRefusal
<1>2. /\ image.width \in 1 .. MaxSide /\ image.height \in 1 .. MaxSide
      /\ MaxSide \in Nat
  BY <1>1, QualityAssumption DEF QualityView, ValidLayout
<1> QED
  BY <1>1, <1>2 DEF QualityView, ValidLayout, Picture

\* The input of a model that was admitted.
LEMMA AdmittedInput ==
  ASSUME NEW m, Admitted(m), ManifestIsNamed(m), m.role # "PassiveFusion"
  PROVE  /\ InputIsNamed(m.input)
         /\ m.input.width \in Nat \ {0} /\ m.input.height \in Nat \ {0}
         /\ m.input.channels \in Nat \ {0}
<1>1. DeclaredInputs(m) = <<m.input>>
  <2>1. m.additional = <<>>
    BY DEF Admitted, InputsMatchRole
  <2>2. ASSUME NEW x PROVE <<x>> \o <<>> = <<x>>
    <3>1. <<x>> \in Seq({x}) /\ <<>> \in Seq({x})
      OBVIOUS
    <3> QED
      BY <3>1
  <2> QED
    BY <2>1, <2>2 DEF DeclaredInputs
<1>2. ValidInput(m.input)
  BY <1>1 DEF Admitted, InputsAreValid
<1>3. MaxDimension \in Nat
  BY ManifestAssumption
<1>4. /\ m.input.width \in 1 .. MaxDimension /\ m.input.height \in 1 .. MaxDimension
      /\ m.input.channels = IF m.input.color = "Grayscale" THEN 1 ELSE 3
  BY <1>2 DEF ValidInput, ChannelsOf
<1>5. InputIsNamed(m.input)
  BY DEF ManifestIsNamed
<1>6. m.input.width \in Nat \ {0} /\ m.input.height \in Nat \ {0}
  BY <1>3, <1>4
<1>7. m.input.channels \in Nat \ {0}
  BY <1>4
<1> QED
  BY <1>5, <1>6, <1>7

LEMMA SquareIsWhole ==
  ASSUME NEW crop, NEW b, SquareInside(crop, b)
  PROVE  \A k \in 1 .. 4 : SquareOf(crop, b)[k] \in 0 .. Fine
BY DEF SquareInside

\* Preprocessing and the quality check read inside the frame, a tensor is
\* filled once, the two samplers agree and grey stays grey, for every size,
\* format and layout that was admitted (preprocess_image_cancellable,
\* preprocess_image_region, interpolation_axis, floating_interpolation_axis,
\* source_channel, yuyv_rgb, write_tensor_value, ImageView::luma).
THEOREM SamplesCorrect == Spec => []SamplesAreSound
<1>1. ASSUME SoundInv, pc = "start"
      PROVE  SamplesAreSound
  <2>1. /\ stage \in 1 .. 6 /\ deployment \in DOMAIN Deployments
        /\ RolesMatch /\ \A i \in 1 .. 6 : Admitted(Model(i))
    BY <1>1 DEF SoundInv, RolesHeld, GivenHeld, ModelsHeld, Working
  <2>2. ASSUME NEW i \in {1, 2, 4}
        PROVE  /\ InputIsNamed(Model(i).input)
               /\ Model(i).input.width \in Nat \ {0}
               /\ Model(i).input.height \in Nat \ {0}
               /\ Model(i).input.channels \in Nat \ {0}
    <3>1. i \in DOMAIN Order /\ i \in 1 .. 6 /\ Order[i] # "PassiveFusion"
      BY DEF Order
    <3>2. ManifestIsNamed(Model(i))
      BY <2>1, <3>1, PerceptionAssumption DEF Model, Config
    <3>3. Admitted(Model(i)) /\ Model(i).role # "PassiveFusion"
      BY <2>1, <3>1 DEF RolesMatch
    <3> QED
      BY <3>2, <3>3, AdmittedInput
  <2>3. CASE stage = 1
    <3>1. Picture(Frames.visible)
      BY <1>1, <2>3, PreprocessedPicture DEF SoundInv, InputHeld
    <3>2. Frames.visible.width \in Nat \ {0} /\ Frames.visible.height \in Nat \ {0}
      BY <3>1 DEF Picture
    <3>3. InFrame(WholeTaps(Model(1).input, Frames.visible), Frames.visible)
      BY <2>2, <3>1, WholeInside
    <3>4. FillsTensor(Model(1).input)
      BY <2>2, TensorFilled
    <3>5. /\ WholeIsWhole(Model(1).input.width, Frames.visible.width)
          /\ WholeIsWhole(Model(1).input.height, Frames.visible.height)
      BY <2>2, <3>2, SamplersAgree
    <3> QED
      BY <2>3, <3>3, <3>4, <3>5, GreyLemma DEF SamplesAreSound
  <2>4. CASE stage = 2
    <3> DEFINE region == SquareOf(Model(2).crop, face)
    <3>1. Picture(Frames.visible)
      BY <1>1, <2>4, PreprocessedPicture DEF SoundInv, InputHeld
    <3>2. \A k \in 1 .. 4 : region[k] \in Int
      <4>1. \A k \in 1 .. 4 : region[k] \in 0 .. Fine
        BY <1>1, <2>4, SquareIsWhole DEF SoundInv, FaceHeld, Working
      <4> HIDE DEF region
      <4> QED
        BY <4>1, FineIs
    <3>3. InFrame(RegionTaps(Model(2).input, Frames.visible, region), Frames.visible)
      <4> HIDE DEF region
      <4> QED
        BY <2>2, <3>1, <3>2, RegionTapsInside
    <3>4. FillsTensor(Model(2).input)
      BY <2>2, TensorFilled
    <3> QED
      BY <2>4, <3>3, <3>4 DEF SamplesAreSound
  <2>5. CASE stage = 3
    <3> DEFINE image == Frames.visible
    <3>1. Picture(image)
      BY <1>1, <2>5, AssessedPicture DEF SoundInv, InputHeld
    <3>2. /\ landmarks.region[1] \in 0 .. Fine /\ landmarks.region[2] \in 0 .. Fine
          /\ landmarks.region[3] \in 0 .. Fine /\ landmarks.region[4] \in 0 .. Fine
      <4>1. /\ landmarks.region = SquareOf(Model(2).crop, face)
            /\ SquareInside(Model(2).crop, face)
        BY <1>1, <2>5 DEF SoundInv, FaceHeld, RegionHeld, Working
      <4> QED
        BY <4>1, SquareIsWhole
    <3>3. ASSUME NEW p \in PixelsOf(PixelRegion(image, GeometryOf(landmarks)))
          PROVE  LumaByte(image, p[1], p[2]) \in 0 .. image.bytes - 1
      <4>1. image.width \in Nat \ {0} /\ image.height \in Nat \ {0}
        BY <3>1 DEF Picture
      <4>2. p[1] \in 0 .. image.width - 1 /\ p[2] \in 0 .. image.height - 1
        BY <3>2, <3>3, <4>1, PixelsInside
      <4> QED
        BY <3>1, <4>2, BytesInside
    <3> QED
      BY <2>5, <3>3 DEF SamplesAreSound
  <2>6. CASE stage = 4
    <3>1. Picture(Frames.infrared)
      BY <1>1, <2>6, PreprocessedPicture DEF SoundInv, InputHeld
    <3>2. InFrame(WholeTaps(Model(4).input, Frames.infrared), Frames.infrared)
      BY <2>2, <3>1, WholeInside
    <3>3. FillsTensor(Model(4).input)
      BY <2>2, TensorFilled
    <3> QED
      BY <2>6, <3>2, <3>3 DEF SamplesAreSound
  <2>7. CASE stage \in {5, 6}
    BY <2>7 DEF SamplesAreSound
  <2> QED
    BY <2>1, <2>3, <2>4, <2>5, <2>6, <2>7
<1>2. SoundInv => SamplesAreSound
  BY <1>1 DEF SamplesAreSound
<1> QED
  BY SoundCorrect, <1>2, PTL

--------------------------------------------------------------------------------
(***************************************************************************)
(* The single face.  suppress_overlaps goes through the faces in an order; *)
(* what it retains is the one set that Retained describes, because the     *)
(* order can be counted.                                                   *)
(***************************************************************************)

\* K is retained of the elements of D that are counted below b.
IsKernel(D, M, R, b, K) ==
  /\ K \in SUBSET D
  /\ \A k \in K : M[k] < b
  /\ \A i \in D : M[i] < b =>
       ((i \in K) <=> ~\E k \in K : M[k] < M[i] /\ <<i, k>> \in R)

\* Elements counted without repetition have such a set, below every number.
LEMMA Kernel ==
  ASSUME NEW D, NEW M \in [D -> Nat], NEW R,
         \A i, j \in D : M[i] = M[j] => i = j,
         NEW top \in Nat
  PROVE  \E K : IsKernel(D, M, R, top, K)
<1> DEFINE Passed(i, K) == \E k \in K : M[k] < M[i] /\ <<i, k>> \in R
           Is(b, K) == /\ K \in SUBSET D
                       /\ \A k \in K : M[k] < b
                       /\ \A i \in D : M[i] < b => ((i \in K) <=> ~Passed(i, K))
           S == {b \in Nat : \E K : Is(b, K)}
<1>1. 0 \in S
  <2>1. \A i \in D : ~(M[i] < 0)
    <3> SUFFICES ASSUME NEW i \in D PROVE ~(M[i] < 0)
      OBVIOUS
    <3>1. M[i] \in Nat
      OBVIOUS
    <3> QED
      BY <3>1
  <2>2. Is(0, {})
    <3> HIDE DEF Passed
    <3> QED
      BY <2>1
  <2> HIDE DEF Is
  <2> QED
    BY <2>2
<1>2. ASSUME NEW b \in Nat, b \in S PROVE b + 1 \in S
  <2>1. PICK K : Is(b, K)
    BY <1>2
  <2>2. CASE \A z \in D : M[z] # b
    <3>1. \A i \in D : M[i] < b + 1 <=> M[i] < b
      <4> SUFFICES ASSUME NEW i \in D PROVE M[i] < b + 1 <=> M[i] < b
        OBVIOUS
      <4>1. M[i] \in Nat /\ M[i] # b
        BY <2>2
      <4> QED
        BY <4>1
    <3>2. Is(b + 1, K)
      <4> HIDE DEF Passed
      <4> QED
        BY <2>1, <3>1
    <3> HIDE DEF Is
    <3> QED
      BY <3>2
  <2>3. ASSUME NEW z \in D, M[z] = b PROVE b + 1 \in S
    <3>0. \A i \in D : (M[i] < b => M[i] < b + 1 /\ i # z)
                       /\ (M[i] < b + 1 => M[i] < b \/ i = z)
      <4> SUFFICES ASSUME NEW i \in D
                   PROVE  (M[i] < b => M[i] < b + 1 /\ i # z)
                            /\ (M[i] < b + 1 => M[i] < b \/ i = z)
        OBVIOUS
      <4>1. M[i] \in Nat /\ (M[i] = b => i = z)
        BY <2>3
      <4> QED
        BY <2>3, <4>1
    <3>1. \A i \in D : M[i] < b + 1 => M[i] < b \/ i = z
      BY <3>0
    <3>2. z \notin K /\ K \in SUBSET D
      BY <2>1, <2>3
    <3>3. CASE Passed(z, K)
      <4>1. \A k \in K : M[k] < b + 1
        BY <2>1, <3>0
      <4>2. \A i \in D : M[i] < b + 1 => ((i \in K) <=> ~Passed(i, K))
        <5> HIDE DEF Passed
        <5> QED
          BY <2>1, <3>1, <3>2, <3>3
      <4>3. Is(b + 1, K)
        <5> HIDE DEF Passed
        <5> QED
          BY <3>2, <4>1, <4>2
      <4> HIDE DEF Is
      <4> QED
        BY <4>3
    <3>4. CASE ~Passed(z, K)
      <4> DEFINE L == K \cup {z}
      <4>1. L \in SUBSET D /\ \A k \in L : M[k] < b + 1
        <5>1. \A k \in K : M[k] < b + 1
          BY <2>1, <3>0
        <5>2. M[z] < b + 1
          BY <2>3
        <5> QED
          BY <3>2, <5>1, <5>2
      <4>2. \A i \in D : M[i] < b + 1 => (Passed(i, L) <=> Passed(i, K))
        <5>1. \A i \in D : M[i] < b + 1 => ~(M[z] < M[i])
          <6> SUFFICES ASSUME NEW i \in D, M[i] < b + 1 PROVE ~(M[z] < M[i])
            OBVIOUS
          <6>1. M[i] \in Nat
            OBVIOUS
          <6> QED
            BY <2>3, <6>1
        <5> QED
          BY <5>1
      <4>3. \A i \in D : M[i] < b + 1 => ((i \in L) <=> ~Passed(i, L))
        <5>1. \A i \in D : M[i] < b => ((i \in K) <=> ~Passed(i, K))
          BY <2>1
        <5>2. \A i \in D : M[i] < b => i # z
          BY <3>0
        <5> HIDE DEF Passed
        <5> QED
          BY <3>1, <3>2, <3>4, <4>2, <5>1, <5>2
      <4>4. Is(b + 1, L)
        <5> HIDE DEF Passed, L
        <5> QED
          BY <4>1, <4>3
      <4> HIDE DEF Is
      <4> QED
        BY <4>4
    <3> QED
      BY <3>3, <3>4
  <2> QED
    BY <2>2, <2>3
<1>3. Nat \subseteq S
  <2> HIDE DEF S
  <2> QED
    BY <1>1, <1>2, SetInduction
<1>4. PICK K : Is(top, K)
  BY <1>3
<1>5. IsKernel(D, M, R, top, K)
  BY <1>4 DEF IsKernel
<1> QED
  BY <1>5

\* The faces a detector can be sure of.
Faces(faces, n) ==
  /\ DOMAIN faces \subseteq 1 .. n
  /\ \A i \in DOMAIN faces : faces[i].score \in 0 .. One

\* The order of suppress_overlaps counts the faces.
LEMMA OrderCounts ==
  ASSUME NEW n \in Nat, NEW i \in 1 .. n, NEW j \in 1 .. n,
         NEW s \in 0 .. One, NEW t \in 0 .. One
  PROVE  /\ (One - s) * (n + 1) + i \in 0 .. One * (n + 1) + n
         /\ (s > t \/ (s = t /\ i < j)) <=>
              (One - s) * (n + 1) + i < (One - t) * (n + 1) + j
<1>1. One \in Nat
  BY ManifestAssumption
<1> DEFINE a == One - s
           b == One - t
           N == n + 1
<1>2. a \in 0 .. One /\ b \in 0 .. One /\ N \in Nat \ {0}
      /\ (s > t <=> a < b) /\ (s = t <=> a = b)
      /\ i \in 1 .. N - 1 /\ j \in 1 .. N - 1
  BY <1>1
<1> HIDE DEF a, b, N
<1>3. a * N + i \in 0 .. One * N + N - 1
  <2>1. 0 <= a * N /\ a * N <= One * N /\ a * N \in Int /\ One * N \in Int
    BY <1>1, <1>2
  <2> QED
    BY <1>1, <1>2, <2>1
<1>4. (a < b \/ (a = b /\ i < j)) <=> a * N + i < b * N + j
  <2>0. a * N \in Int /\ b * N \in Int /\ a \in Int /\ b \in Int /\ N \in Int
    BY <1>1, <1>2
  <2>1. CASE a < b
    <3>1. (a + 1) * N <= b * N
      BY <1>1, <1>2, <2>1
    <3>2. (a + 1) * N = a * N + N
      BY <1>1, <1>2
    <3> QED
      BY <1>2, <2>0, <2>1, <3>1, <3>2
  <2>2. CASE a = b
    BY <1>2, <2>0, <2>2
  <2>3. CASE a > b
    <3>1. (b + 1) * N <= a * N
      BY <1>1, <1>2, <2>3
    <3>2. (b + 1) * N = b * N + N
      BY <1>1, <1>2
    <3> QED
      BY <1>2, <2>0, <2>3, <3>1, <3>2
  <2> QED
    BY <2>0, <2>1, <2>2, <2>3
<1>5. One * N + N - 1 = One * (n + 1) + n
  BY <1>1 DEF N
<1> QED
  BY <1>2, <1>3, <1>4, <1>5 DEF a, b, N

\* There is a set that Retained can choose.
LEMMA RetainedIs ==
  ASSUME NEW faces, NEW n \in Nat, Faces(faces, n), NEW iou
  PROVE  /\ Retained(faces, iou) \in SUBSET DOMAIN faces
         /\ \A i \in DOMAIN faces :
              (i \in Retained(faces, iou)) <=>
                ~\E k \in Retained(faces, iou) :
                   /\ Precedes(faces, k, i)
                   /\ SameFace(faces[i].box, faces[k].box, iou)
<1> DEFINE D == DOMAIN faces
           M == [i \in D |-> (One - faces[i].score) * (n + 1) + i]
           R == {p \in D \X D : SameFace(faces[p[1]].box, faces[p[2]].box, iou)}
           top == One * (n + 1) + n + 1
           Is(K) == \A i \in D :
                      (i \in K) <=>
                        ~\E k \in K : /\ Precedes(faces, k, i)
                                      /\ SameFace(faces[i].box, faces[k].box, iou)
<1>1. One \in Nat /\ top \in Nat
  BY ManifestAssumption
<1>2. \A i \in D : M[i] \in Nat /\ M[i] < top
  <2> SUFFICES ASSUME NEW i \in D PROVE M[i] \in Nat /\ M[i] < top
    OBVIOUS
  <2>1. i \in 1 .. n /\ faces[i].score \in 0 .. One
    BY DEF Faces
  <2>2. M[i] \in 0 .. One * (n + 1) + n
    BY <2>1, OrderCounts
  <2>3. One * (n + 1) + n \in Nat /\ top = One * (n + 1) + n + 1
    BY <1>1
  <2> HIDE DEF M, top
  <2> QED
    BY <2>2, <2>3
<1>3. \A i, j \in D : Precedes(faces, i, j) <=> M[i] < M[j]
  <2> SUFFICES ASSUME NEW i \in D, NEW j \in D
               PROVE  Precedes(faces, i, j) <=> M[i] < M[j]
    OBVIOUS
  <2>1. /\ i \in 1 .. n /\ j \in 1 .. n
        /\ faces[i].score \in 0 .. One /\ faces[j].score \in 0 .. One
    BY DEF Faces
  <2>2. (faces[i].score > faces[j].score \/ (faces[i].score = faces[j].score /\ i < j))
          <=> M[i] < M[j]
    BY <2>1, OrderCounts
  <2> HIDE DEF M
  <2> QED
    BY <2>2 DEF Precedes
<1>4. \A i, j \in D : M[i] = M[j] => i = j
  <2> SUFFICES ASSUME NEW i \in D, NEW j \in D, M[i] = M[j] PROVE i = j
    OBVIOUS
  <2>1. /\ i \in 1 .. n /\ j \in 1 .. n
        /\ faces[i].score \in 0 .. One /\ faces[j].score \in 0 .. One
    BY DEF Faces
  <2>2. ~Precedes(faces, i, j) /\ ~Precedes(faces, j, i)
    <3>1. ~(M[i] < M[j]) /\ ~(M[j] < M[i])
      <4> HIDE DEF M
      <4> QED
        BY <1>2
    <3> HIDE DEF M
    <3> QED
      BY <1>3, <3>1
  <2>3. faces[i].score = faces[j].score /\ i = j
    BY <1>1, <2>1, <2>2 DEF Precedes
  <2> QED
    BY <2>3
<1>5. M \in [D -> Nat]
  BY <1>2
<1> HIDE DEF M, top
<1>6. PICK K : IsKernel(D, M, R, top, K)
  <2> HIDE DEF R, D
  <2> QED
    BY <1>1, <1>4, <1>5, Kernel
<1>7. Is(K)
  <2>1. \A i \in D, k \in K :
          <<i, k>> \in R <=> SameFace(faces[i].box, faces[k].box, iou)
    <3>1. K \in SUBSET D
      BY <1>6 DEF IsKernel
    <3>2. ASSUME NEW i \in D, NEW k \in D
          PROVE  <<i, k>> \in R <=> SameFace(faces[i].box, faces[k].box, iou)
      OBVIOUS
    <3> HIDE DEF R, D
    <3> QED
      BY <3>1, <3>2
  <2> HIDE DEF R, D
  <2> QED
    BY <1>2, <1>3, <1>6, <2>1 DEF IsKernel
<1>8. Retained(faces, iou) = CHOOSE kept \in SUBSET D : Is(kept)
  BY DEF Retained
<1> HIDE DEF Is
<1>9. Retained(faces, iou) \in SUBSET D /\ Is(Retained(faces, iou))
  <2>1. K \in SUBSET D
    BY <1>6 DEF IsKernel
  <2> QED
    BY <1>7, <1>8, <2>1
<1> QED
  BY <1>9 DEF Is

\* A box of whole numbers.
WholeBox(b) ==
  b[1] \in Int /\ b[2] \in Int /\ b[3] \in Int /\ b[4] \in Int

\* What the overlap with a box has along an axis.
LEMMA OverlapIs ==
  ASSUME NEW a, NEW b, WholeBox(a), WholeBox(b)
  PROVE  \E x, y \in Nat :
           /\ Overlap(a, b) = x * y
           /\ x = Larger(Smaller(a[3], b[3]) - Larger(a[1], b[1]), 0)
           /\ y = Larger(Smaller(a[4], b[4]) - Larger(a[2], b[2]), 0)
<1> DEFINE x == Larger(Smaller(a[3], b[3]) - Larger(a[1], b[1]), 0)
           y == Larger(Smaller(a[4], b[4]) - Larger(a[2], b[2]), 0)
<1>1. x \in Nat /\ y \in Nat
  BY DEF WholeBox, Larger, Smaller
<1>2. Overlap(a, b) = x * y
  BY DEF Overlap
<1> HIDE DEF x, y
<1>3. \E u, v \in Nat : Overlap(a, b) = u * v /\ u = x /\ v = y
  BY <1>1, <1>2
<1> QED
  BY <1>3 DEF x, y

\* Beyond a half, the shared part is more than half of either box.
LEMMA HalfShared ==
  ASSUME NEW a, NEW b, WholeBox(a), WholeBox(b), IsBox(a), IsBox(b),
         NEW iou \in Nat, 2 * iou >= One, SameFace(a, b, iou)
  PROVE  2 * Overlap(a, b) > Area(b)
<1>1. One \in Nat \ {0}
  BY ManifestAssumption
<1>2. PICK x, y \in Nat :
        /\ Overlap(a, b) = x * y
        /\ x = Larger(Smaller(a[3], b[3]) - Larger(a[1], b[1]), 0)
        /\ y = Larger(Smaller(a[4], b[4]) - Larger(a[2], b[2]), 0)
  BY OverlapIs
<1> DEFINE w == a[3] - a[1]
           h == a[4] - a[2]
           u == b[3] - b[1]
           v == b[4] - b[2]
<1>3. /\ w \in Nat /\ h \in Nat /\ u \in Nat /\ v \in Nat
      /\ x <= w /\ y <= h /\ x <= u /\ y <= v
  BY <1>2 DEF WholeBox, IsBox, Larger, Smaller
<1>4. Area(a) = w * h /\ Area(b) = u * v
  BY DEF Area
<1> HIDE DEF w, h, u, v
<1>5. x * y <= w * h /\ x * y <= u * v /\ x * y \in Nat /\ w * h \in Nat /\ u * v \in Nat
  <2>1. x * y <= w * y /\ w * y <= w * h /\ x * y <= u * y /\ u * y <= u * v
    BY <1>3
  <2>2. x * y \in Nat /\ w * y \in Nat /\ u * y \in Nat /\ w * h \in Nat /\ u * v \in Nat
    BY <1>3
  <2> QED
    BY <2>1, <2>2
<1> DEFINE o == x * y
           A == w * h
           B == u * v
<1>6. o * One > iou * (A + B - o)
  BY <1>2, <1>4 DEF SameFace
<1>7. o \in Nat /\ A \in Nat /\ B \in Nat /\ o <= A /\ o <= B
  BY <1>5
<1> HIDE DEF o, A, B
<1> DEFINE c == A + B - o
<1>8. c \in Nat /\ c >= B
  BY <1>7
<1> HIDE DEF c
<1>9. 2 * (o * One) > 2 * (iou * c)
  <2>1. o * One > iou * c
    BY <1>6 DEF c
  <2>2. o * One \in Int /\ iou * c \in Int
    BY <1>1, <1>7, <1>8
  <2> QED
    BY <2>1, <2>2
<1>10. 2 * (iou * c) >= One * c
  <2>1. (2 * iou) * c >= One * c
    BY <1>1, <1>8
  <2>2. (2 * iou) * c = 2 * (iou * c)
    BY <1>8
  <2> QED
    BY <2>1, <2>2
<1>11. One * (2 * o) > One * c
  <2>1. 2 * (o * One) = One * (2 * o) /\ 2 * (o * One) \in Int /\ One * c \in Int
        /\ 2 * (iou * c) \in Int
    BY <1>1, <1>7, <1>8
  <2> QED
    BY <1>9, <1>10, <2>1
<1>12. 2 * o > c
  <2>1. CASE 2 * o <= c
    <3>1. One * (2 * o) <= One * c
      BY <1>1, <1>7, <1>8, <2>1
    <3>2. One * (2 * o) \in Int /\ One * c \in Int
      BY <1>1, <1>7, <1>8
    <3> QED
      BY <1>11, <3>1, <3>2
  <2> QED
    BY <1>7, <1>8, <2>1
<1>13. 2 * o > B
  BY <1>7, <1>8, <1>12
<1> QED
  BY <1>2, <1>4, <1>13 DEF o, B

\* A part of more than half of a box is more than half of it along both axes.
LEMMA HalfAlong ==
  ASSUME NEW x \in Nat, NEW y \in Nat, NEW w \in Nat, NEW h \in Nat,
         x <= w, y <= h, 2 * (x * y) > w * h
  PROVE  2 * x > w /\ 2 * y > h
<1>1. x * y \in Nat /\ w * h \in Nat
  OBVIOUS
<1>2. 2 * x > w
  <2>1. CASE 2 * x <= w
    <3>1. (2 * x) * y <= w * y /\ w * y <= w * h
      BY <2>1
    <3>2. (2 * x) * y = 2 * (x * y) /\ w * y \in Nat
      OBVIOUS
    <3> QED
      BY <1>1, <3>1, <3>2
  <2> QED
    BY <2>1
<1>3. 2 * y > h
  <2>1. CASE 2 * y <= h
    <3>1. (2 * y) * x <= h * x /\ h * x <= h * w
      BY <2>1
    <3>2. (2 * y) * x = 2 * (x * y) /\ h * x \in Nat /\ h * w = w * h
      OBVIOUS
    <3> QED
      BY <1>1, <3>1, <3>2
  <2> QED
    BY <2>1
<1> QED
  BY <1>2, <1>3

\* Two boxes that each share more than half of a third one meet.
LEMMA HalvesMeet ==
  ASSUME NEW a, NEW b, NEW f, WholeBox(a), WholeBox(b), WholeBox(f), IsBox(f),
         2 * Overlap(a, f) > Area(f), 2 * Overlap(b, f) > Area(f)
  PROVE  Overlap(a, b) > 0
<1>1. PICK x, y \in Nat :
        /\ Overlap(a, f) = x * y
        /\ x = Larger(Smaller(a[3], f[3]) - Larger(a[1], f[1]), 0)
        /\ y = Larger(Smaller(a[4], f[4]) - Larger(a[2], f[2]), 0)
  BY OverlapIs
<1>2. PICK u, v \in Nat :
        /\ Overlap(b, f) = u * v
        /\ u = Larger(Smaller(b[3], f[3]) - Larger(b[1], f[1]), 0)
        /\ v = Larger(Smaller(b[4], f[4]) - Larger(b[2], f[2]), 0)
  BY OverlapIs
<1>3. PICK p, q \in Nat :
        /\ Overlap(a, b) = p * q
        /\ p = Larger(Smaller(a[3], b[3]) - Larger(a[1], b[1]), 0)
        /\ q = Larger(Smaller(a[4], b[4]) - Larger(a[2], b[2]), 0)
  BY OverlapIs
<1> DEFINE w == f[3] - f[1]
           h == f[4] - f[2]
<1>4. w \in Nat /\ h \in Nat /\ x <= w /\ u <= w /\ y <= h /\ v <= h
  BY <1>1, <1>2 DEF WholeBox, IsBox, Larger, Smaller
<1>5. 2 * (x * y) > w * h /\ 2 * (u * v) > w * h
  BY <1>1, <1>2 DEF Area
<1>6. 2 * x > w /\ 2 * y > h /\ 2 * u > w /\ 2 * v > h
  <2> HIDE DEF w, h
  <2> QED
    BY <1>4, <1>5, HalfAlong
<1>7. p > 0
  BY <1>1, <1>2, <1>3, <1>4, <1>6 DEF WholeBox, Larger, Smaller
<1>8. q > 0
  BY <1>1, <1>2, <1>3, <1>4, <1>6 DEF WholeBox, Larger, Smaller
<1>9. p * q > 0
  BY <1>7, <1>8
<1> QED
  BY <1>3, <1>9

\* The values of a meaning are numbers.
LEMMA ValuesTyped ==
  ASSUME NEW m, NEW o, Shaped(m, o), NEW semantic
  PROVE  ValuesOf(m, o, semantic) \in Seq(Int)
<1> DEFINE output == TheOutput(m, semantic)
           Has == /\ HasOne(m, semantic)
                  /\ \E k \in DOMAIN o :
                       Named(o, output.name) = {k} /\ o[k].dims = output.dims
<1>1. CASE Has
  <2>1. PICK k \in DOMAIN o : Named(o, output.name) = {k}
    BY <1>1
  <2>2. ValuesOf(m, o, semantic) = Get(o, output.name).values
    BY <1>1 DEF ValuesOf
  <2>3. Get(o, output.name) = o[k]
    BY <2>1 DEF Get
  <2>4. o[k].values \in Seq(Int)
    BY <2>1 DEF Shaped
  <2> QED
    BY <2>2, <2>3, <2>4
<1>2. CASE ~Has
  <2>1. ValuesOf(m, o, semantic) = <<>>
    BY <1>2 DEF ValuesOf
  <2> QED
    BY <2>1
<1> QED
  BY <1>1, <1>2

\* What can be read of a detector is a set of boxes with their scores.
LEMMA DetectionsTyped ==
  ASSUME NEW m, NEW o, NEW confidence, Shaped(m, o), ReadsFaces(m, o, confidence)
  PROVE  LET faces == Detections(m, o, confidence)
             n == Len(ValuesOf(m, o, "Scores"))
         IN  /\ n \in Nat /\ Faces(faces, n)
             /\ \A i \in DOMAIN faces : WholeBox(faces[i].box) /\ IsBox(faces[i].box)
<1> DEFINE boxes == ValuesOf(m, o, "Boxes")
           ratings == ValuesOf(m, o, "Scores")
           faces == Detections(m, o, confidence)
           n == Len(ratings)
<1>1. boxes \in Seq(Int) /\ ratings \in Seq(Int)
  BY ValuesTyped
<1>2. /\ Len(boxes) = 4 * n
      /\ \A i \in DOMAIN ratings : Unit(ratings[i])
      /\ \A i \in DOMAIN ratings : ratings[i] >= confidence => IsBox(BoxAt(boxes, i))
  BY DEF ReadsFaces
<1>3. faces = [i \in {k \in DOMAIN ratings : ratings[k] >= confidence} |->
                 [box |-> BoxAt(boxes, i), score |-> ratings[i]]]
  BY DEF Detections
<1> HIDE DEF boxes, ratings, faces
<1>4. n \in Nat /\ DOMAIN ratings = 1 .. n
  BY <1>1
<1>5. Faces(faces, n)
  BY <1>2, <1>3, <1>4 DEF Faces, Unit
<1>6. ASSUME NEW i \in DOMAIN faces
      PROVE  WholeBox(faces[i].box) /\ IsBox(faces[i].box)
  <2>1. i \in 1 .. n /\ ratings[i] >= confidence /\ faces[i].box = BoxAt(boxes, i)
    BY <1>3, <1>4
  <2>2. \A k \in 1 .. 4 : 4 * i - 4 + k \in 1 .. Len(boxes)
    BY <1>2, <1>4, <2>1
  <2>3. \A k \in 1 .. 4 : boxes[4 * i - 4 + k] \in Int
    BY <1>1, <2>2
  <2>4. WholeBox(BoxAt(boxes, i))
    BY <2>3 DEF WholeBox, BoxAt
  <2> QED
    BY <1>2, <1>4, <2>1, <2>4
<1> QED
  BY <1>4, <1>5, <1>6 DEF faces, n, ratings

\* The face that is left alone was surer than any other, and every other was
\* passed over for its sake.
LEMMA SingleIsSurest ==
  ASSUME NEW faces, NEW n \in Nat, Faces(faces, n), NEW iou,
         NEW i, Retained(faces, iou) = {i}
  PROVE  /\ i \in DOMAIN faces
         /\ \A j \in DOMAIN faces :
              /\ faces[j].score <= faces[i].score
              /\ j # i => SameFace(faces[j].box, faces[i].box, iou)
<1>1. i \in DOMAIN faces
  BY RetainedIs
<1>2. ASSUME NEW j \in DOMAIN faces, j # i
      PROVE  Precedes(faces, i, j) /\ SameFace(faces[j].box, faces[i].box, iou)
  <2>1. j \notin Retained(faces, iou)
    BY <1>2
  <2>2. PICK k \in Retained(faces, iou) :
          Precedes(faces, k, j) /\ SameFace(faces[j].box, faces[k].box, iou)
    BY <2>1, RetainedIs
  <2>3. k = i
    BY <2>2
  <2> QED
    BY <2>2, <2>3
<1>3. ASSUME NEW j \in DOMAIN faces PROVE faces[j].score <= faces[i].score
  <2>1. faces[i].score \in Int /\ faces[j].score \in Int
    BY <1>1, ManifestAssumption DEF Faces
  <2>2. CASE j = i
    BY <2>1, <2>2
  <2>3. CASE j # i
    BY <1>2, <2>1, <2>3 DEF Precedes
  <2> QED
    BY <2>2, <2>3
<1> QED
  BY <1>1, <1>2, <1>3

\* The faces around it all meet.
LEMMA AroundOne ==
  ASSUME NEW faces, NEW i \in DOMAIN faces, NEW iou \in Nat, 2 * iou >= One,
         \A j \in DOMAIN faces : WholeBox(faces[j].box) /\ IsBox(faces[j].box),
         \A j \in DOMAIN faces : j # i => SameFace(faces[j].box, faces[i].box, iou),
         NEW j \in DOMAIN faces, NEW k \in DOMAIN faces
  PROVE  Overlap(faces[j].box, faces[k].box) > 0
<1> DEFINE f == faces[i].box
<1>1. WholeBox(f) /\ IsBox(f)
  OBVIOUS
<1>2. ASSUME NEW l \in DOMAIN faces PROVE 2 * Overlap(faces[l].box, f) > Area(f)
  <2>1. CASE l = i
    <3>1. Overlap(f, f) = Area(f)
      BY <1>1 DEF WholeBox, IsBox, Overlap, Area, Larger, Smaller
    <3>2. f[3] - f[1] \in Nat \ {0} /\ f[4] - f[2] \in Nat \ {0}
      BY <1>1 DEF WholeBox, IsBox
    <3>3. Area(f) \in Nat \ {0}
      <4> DEFINE w == f[3] - f[1]
                 h == f[4] - f[2]
      <4>1. w \in Nat \ {0} /\ h \in Nat \ {0} /\ Area(f) = w * h
        BY <3>2 DEF Area
      <4> HIDE DEF w, h
      <4>2. w * h \in Nat /\ w * h > 0
        BY <4>1
      <4> QED
        BY <4>1, <4>2
    <3> HIDE DEF f
    <3> QED
      BY <2>1, <3>1, <3>3 DEF f
  <2>2. CASE l # i
    <3>1. SameFace(faces[l].box, f, iou) /\ WholeBox(faces[l].box) /\ IsBox(faces[l].box)
      BY <2>2
    <3> QED
      BY <1>1, <3>1, HalfShared
  <2> QED
    BY <2>1, <2>2
<1> QED
  BY <1>1, <1>2, HalvesMeet

LEMMA SecondFaceReads ==
  ASSUME SoundInv, SecondFaceIsSeen, ReadFaces
  PROVE  SecondFaceIsSeen'
<1>1. /\ pc = "read" /\ stage = 1 /\ deployment' = deployment
      /\ \/ UNCHANGED <<face, candidates>>
         \/ /\ FacesRead
            /\ \E i \in SingleFace :
                 /\ face' = Found[i].box
                 /\ candidates' = {Found[k] : k \in DOMAIN Found}
  BY DEF ReadFaces, given
<1>2. CASE UNCHANGED <<face, candidates>>
  BY <1>1, <1>2 DEF SecondFaceIsSeen, Config
<1>3. ASSUME FacesRead, NEW i \in SingleFace, face' = Found[i].box,
             candidates' = {Found[k] : k \in DOMAIN Found}
      PROVE  SecondFaceIsSeen'
  <2> DEFINE iou == Config.detection.iou
             n == Len(ValuesOf(Model(1), outputs[1], "Scores"))
  <2>1. /\ ReadsFaces(Model(1), outputs[1], Config.detection.confidence)
        /\ Retained(Found, iou) = {i}
    BY <1>3 DEF FacesRead, SingleFace
  <2>2. Shaped(Model(1), outputs[1])
    BY <1>1 DEF SoundInv, OutputsHeld, Working, Ran, RanAt
  <2>3. /\ n \in Nat /\ Faces(Found, n)
        /\ \A j \in DOMAIN Found : WholeBox(Found[j].box) /\ IsBox(Found[j].box)
    BY <2>1, <2>2, DetectionsTyped DEF Found
  <2>4. iou \in Nat
    <3>1. Unit(iou) /\ One \in Nat
      BY <1>1, ManifestAssumption DEF SoundInv, StagesHeld, Working, ValidDetection
    <3> QED
      BY <3>1 DEF Unit
  <2> HIDE DEF iou, n
  <2>5. /\ i \in DOMAIN Found
        /\ \A j \in DOMAIN Found : Found[j].score <= Found[i].score
        /\ \A j \in DOMAIN Found : j # i => SameFace(Found[j].box, Found[i].box, iou)
    BY <2>1, <2>3, SingleIsSurest
  <2>6. \E c \in candidates' :
          c.box = face' /\ \A d \in candidates' : d.score <= c.score
    <3>1. Found[i] \in candidates' /\ Found[i].box = face'
      BY <1>3, <2>5
    <3>2. \A d \in candidates' : d.score <= Found[i].score
      BY <1>3, <2>5
    <3> QED
      BY <3>1, <3>2
  <2>7. ASSUME 2 * iou >= One, NEW c \in candidates', NEW d \in candidates'
        PROVE  Overlap(c.box, d.box) > 0
    <3>1. PICK j \in DOMAIN Found : c = Found[j]
      BY <1>3
    <3>2. PICK k \in DOMAIN Found : d = Found[k]
      BY <1>3
    <3>3. Overlap(Found[j].box, Found[k].box) > 0
      BY <2>3, <2>4, <2>5, <2>7, AroundOne
    <3> QED
      BY <3>1, <3>2, <3>3
  <2>8. Config.detection.iou' = iou
    BY <1>1 DEF Config, iou
  <2> QED
    BY <2>6, <2>7, <2>8 DEF SecondFaceIsSeen
<1> QED
  BY <1>1, <1>2, <1>3

LEMMA FaceKept ==
  ASSUME [Next]_vars, ~ReadFaces PROVE UNCHANGED <<deployment, face, candidates>>
<1>1. CASE Work
  BY <1>1 DEF Work, Load, Build, PrepareDetector, PrepareLandmarks,
       PrepareEmbedding, PreparePassive, Start, StartFails, Join,
       ReadLandmarks, ReadEmbedding, ReadScores, Decide, given, evidence
<1>2. CASE ~Work
  BY <1>2 DEF Next, Watchdog, WatchdogFires, WatchdogWakes, Expire, GraphEnds,
       Running, Cancel, vars, given, evidence
<1>3. QED
  BY <1>1, <1>2

\* The face that is used is the one the detector was surest of, and with a
\* limit of one half or more no two candidates lie apart, however many the
\* detector returns (suppress_overlaps, require_single_face).
THEOREM SecondFaceCorrect == Spec => []SecondFaceIsSeen
<1>1. Init => SecondFaceIsSeen
  BY DEF Init, SecondFaceIsSeen
<1>2. SoundInv /\ SecondFaceIsSeen /\ [Next]_vars => SecondFaceIsSeen'
  <2> SUFFICES ASSUME SoundInv, SecondFaceIsSeen, [Next]_vars
               PROVE  SecondFaceIsSeen'
    OBVIOUS
  <2>1. CASE ReadFaces
    BY <2>1, SecondFaceReads
  <2>2. CASE ~ReadFaces
    BY <2>2, FaceKept DEF SecondFaceIsSeen, Config
  <2> QED
    BY <2>1, <2>2
<1> QED
  BY SoundCorrect, <1>1, <1>2, PTL DEF Spec

--------------------------------------------------------------------------------
(*****************************************************************************)
(* The outputs of an admitted model.                                         *)
(*****************************************************************************)

\* The output of a meaning is the one in the place the manifest gives it.
Holds(m, o, semantic, i) ==
  /\ i \in DOMAIN m.outputs /\ i \in DOMAIN o
  /\ m.outputs[i].semantic = semantic
  /\ TheOutput(m, semantic) = m.outputs[i]
  /\ ValuesOf(m, o, semantic) = o[i].values
  /\ o[i].name = m.outputs[i].name
  /\ o[i].values \in Seq(Int)
  /\ Len(o[i].values) = DimensionProduct(TheOutput(m, semantic).dims)

LEMMA ValuesAre ==
  ASSUME NEW m, NEW o, Shaped(m, o), OutputsAreBounded(m),
         NEW semantic, HasOne(m, semantic)
  PROVE  \E i : Holds(m, o, semantic, i)
<1>1. PICK i \in DOMAIN m.outputs : Meaning(m, semantic) = {i}
  BY DEF HasOne
<1> DEFINE output == TheOutput(m, semantic)
<1>2. output = m.outputs[i] /\ m.outputs[i].semantic = semantic
  BY <1>1 DEF TheOutput, Meaning
<1>3. /\ i \in DOMAIN o
      /\ o[i].name = m.outputs[i].name /\ o[i].dims = m.outputs[i].dims
      /\ o[i].values \in Seq(Int)
      /\ Len(o[i].values) = DimensionProduct(m.outputs[i].dims)
  BY DEF Shaped
<1> HIDE DEF output
<1>4. Named(o, output.name) = {i}
  <2>1. \A k \in DOMAIN o : o[k].name = m.outputs[k].name /\ k \in DOMAIN m.outputs
    BY DEF Shaped
  <2>2. \A j, k \in DOMAIN m.outputs : m.outputs[j].name = m.outputs[k].name => j = k
    BY DEF OutputsAreBounded
  <2> QED
    BY <1>2, <1>3, <2>1, <2>2 DEF Named
<1>5. Get(o, output.name) = o[i]
  BY <1>4 DEF Get
<1>6. ValuesOf(m, o, semantic) = o[i].values
  BY <1>2, <1>3, <1>4, <1>5 DEF ValuesOf, output
<1>7. Holds(m, o, semantic, i)
  BY <1>2, <1>3, <1>6 DEF Holds, output
<1> QED
  BY <1>7

LEMMA DetectorReads ==
  ASSUME NEW m, NEW o, Shaped(m, o), OutputsAreBounded(m), DetectorOutputs(m),
         m.role = "Detector", NEW confidence, Unit(confidence),
         \A i \in DOMAIN o : \A k \in DOMAIN o[i].values : Unit(o[i].values[k]),
         \A i \in DOMAIN o :
           o[i].name = TheOutput(m, "Boxes").name =>
             HoldsBoxes(o[i].values)
  PROVE  ReadsFaces(m, o, confidence)
<1>1. PICK n \in 1 .. MaxCandidates : /\ TheOutput(m, "Boxes").dims = <<1, n, 4>>
                                      /\ TheOutput(m, "Scores").dims = <<1, n>>
  BY DEF DetectorOutputs
<1>2. n \in Nat \ {0}
  BY <1>1, ManifestAssumption
<1>3. PICK i : Holds(m, o, "Boxes", i)
  BY ValuesAre DEF DetectorOutputs
<1>4. PICK j : Holds(m, o, "Scores", j)
  BY ValuesAre DEF DetectorOutputs
<1> DEFINE boxes == o[i].values
           ratings == o[j].values
<1>5. boxes \in Seq(Int) /\ Len(boxes) = 4 * n
  <2>1. DimensionProduct(<<1, n, 4>>) = 4 * n
    <3>1. DimensionProduct(<<1, n, 4>>) = 1 * n * 4
      BY <1>2, Products
    <3> QED
      BY <1>2, <3>1
  <2>2. boxes \in Seq(Int) /\ Len(boxes) = DimensionProduct(<<1, n, 4>>)
    BY <1>1, <1>3 DEF Holds
  <2> QED
    BY <2>1, <2>2
<1>6. ratings \in Seq(Int) /\ Len(ratings) = n
  <2>1. DimensionProduct(<<1, n>>) = n
    <3>1. DimensionProduct(<<1, n>>) = 1 * n
      BY <1>2, Products
    <3> QED
      BY <1>2, <3>1
  <2>2. ratings \in Seq(Int) /\ Len(ratings) = DimensionProduct(<<1, n>>)
    BY <1>1, <1>4 DEF Holds
  <2> QED
    BY <2>1, <2>2
<1>7. /\ ValuesOf(m, o, "Boxes") = boxes /\ ValuesOf(m, o, "Scores") = ratings
      /\ i \in DOMAIN o /\ j \in DOMAIN o
      /\ o[i].name = TheOutput(m, "Boxes").name
  BY <1>3, <1>4 DEF Holds
<1>8. /\ \A k \in DOMAIN boxes : Unit(boxes[k])
      /\ \A k \in DOMAIN ratings : Unit(ratings[k])
  BY <1>7
<1>9. \A k \in 1 .. n : IsBox(BoxAt(boxes, k))
  <2>1. Len(boxes) \div 4 = n
    <3>1. (4 * n + 0) \div 4 = n
      BY <1>2, DivIs
    <3> QED
      BY <1>2, <1>5, <3>1
  <2>2. \A k \in 1 .. Len(boxes) \div 4 : IsBox(BoxAt(boxes, k))
    BY <1>7 DEF HoldsBoxes
  <2> HIDE DEF boxes
  <2> QED
    BY <2>1, <2>2
<1>10. Len(o) = 2
  BY DEF Shaped, DetectorOutputs
<1> HIDE DEF boxes, ratings
<1>11. ratings # <<>> /\ DOMAIN ratings = 1 .. n
  BY <1>2, <1>6
<1> QED
  BY <1>5, <1>6, <1>7, <1>8, <1>9, <1>10, <1>11 DEF ReadsFaces

LEMMA LandmarksRead ==
  ASSUME NEW m, NEW o, Shaped(m, o), OutputsAreBounded(m), LandmarkOutputs(m),
         m.role = "Landmarks", ValidMeasurement(m.measurement),
         \A i \in DOMAIN o : \A k \in DOMAIN o[i].values :
           IF o[i].name = TheOutput(m, "Pose").name
           THEN Magnitude(o[i].values[k]) <= 1 ELSE Unit(o[i].values[k])
  PROVE  ReadsLandmarks(m, o)
<1>1. PICK n \in MinLandmarks .. MaxLandmarks :
        /\ TheOutput(m, "Points").dims = <<1, n, 2>>
        /\ TheOutput(m, "PointConfidence").dims = <<1, n>>
  BY DEF LandmarkOutputs
<1>2. n \in Nat \ {0}
  BY <1>1, ManifestAssumption
<1>3. PICK a : Holds(m, o, "Points", a)
  BY ValuesAre DEF LandmarkOutputs, LandmarkSemantics
<1>4. PICK b : Holds(m, o, "PointConfidence", b)
  BY ValuesAre DEF LandmarkOutputs, LandmarkSemantics
<1>5. PICK c : Holds(m, o, "Pose", c)
  BY ValuesAre DEF LandmarkOutputs, LandmarkSemantics
<1>6. PICK d : Holds(m, o, "Eyes", d)
  BY ValuesAre DEF LandmarkOutputs, LandmarkSemantics
<1> DEFINE points == o[a].values
           confidence == o[b].values
           pose == o[c].values
           eyes == o[d].values
<1>7. /\ DimensionProduct(<<1, n, 2>>) = 2 * n
      /\ DimensionProduct(<<1, n>>) = n
      /\ DimensionProduct(<<1, 3>>) = 3
      /\ DimensionProduct(<<1, 2>>) = 2
  <2>1. /\ DimensionProduct(<<1, n, 2>>) = 1 * n * 2
        /\ DimensionProduct(<<1, n>>) = 1 * n
        /\ DimensionProduct(<<1, 3>>) = 1 * 3
        /\ DimensionProduct(<<1, 2>>) = 1 * 2
    BY <1>2, Products
  <2> QED
    BY <1>2, <2>1
<1>8. points \in Seq(Int) /\ Len(points) = 2 * n
  <2>1. points \in Seq(Int) /\ Len(points) = DimensionProduct(<<1, n, 2>>)
    BY <1>1, <1>3 DEF Holds
  <2> QED
    BY <1>7, <2>1
<1>9. confidence \in Seq(Int) /\ Len(confidence) = n
  <2>1. /\ confidence \in Seq(Int)
        /\ Len(confidence) = DimensionProduct(<<1, n>>)
    BY <1>1, <1>4 DEF Holds
  <2> QED
    BY <1>7, <2>1
<1>10. pose \in Seq(Int) /\ Len(pose) = 3
  <2>1. pose \in Seq(Int) /\ Len(pose) = DimensionProduct(<<1, 3>>)
    BY <1>5 DEF Holds, LandmarkOutputs
  <2> QED
    BY <1>7, <2>1
<1>11. eyes \in Seq(Int) /\ Len(eyes) = 2
  <2>1. eyes \in Seq(Int) /\ Len(eyes) = DimensionProduct(<<1, 2>>)
    BY <1>6 DEF Holds, LandmarkOutputs
  <2> QED
    BY <1>7, <2>1
<1>12. /\ ValuesOf(m, o, "Points") = points
       /\ ValuesOf(m, o, "PointConfidence") = confidence
       /\ ValuesOf(m, o, "Pose") = pose /\ ValuesOf(m, o, "Eyes") = eyes
  BY <1>3, <1>4, <1>5, <1>6 DEF Holds
<1>13. /\ o[c].name = TheOutput(m, "Pose").name
       /\ \A i \in {a, b, d} : i \in DOMAIN o
                               /\ o[i].name # TheOutput(m, "Pose").name
  <2>1. /\ m.outputs[a].semantic = "Points"
        /\ m.outputs[b].semantic = "PointConfidence"
        /\ m.outputs[c].semantic = "Pose" /\ m.outputs[d].semantic = "Eyes"
        /\ TheOutput(m, "Pose") = m.outputs[c]
        /\ \A i \in {a, b, c, d} : /\ i \in DOMAIN m.outputs /\ i \in DOMAIN o
                                   /\ o[i].name = m.outputs[i].name
    BY <1>3, <1>4, <1>5, <1>6 DEF Holds
  <2>2. \A i, j \in DOMAIN m.outputs : m.outputs[i].name = m.outputs[j].name => i = j
    BY DEF OutputsAreBounded
  <2>3. a # c /\ b # c /\ d # c
    BY <2>1
  <2> QED
    BY <2>1, <2>2, <2>3
<1>14. /\ \A k \in DOMAIN points : Unit(points[k])
       /\ \A k \in DOMAIN confidence : Unit(confidence[k])
       /\ \A k \in DOMAIN eyes : Unit(eyes[k])
  BY <1>13
<1>15. \A k \in DOMAIN pose : Magnitude(pose[k]) <= 1
  <2>1. c \in DOMAIN o
    BY <1>5 DEF Holds
  <2> QED
    BY <1>13, <2>1
<1>16. Len(o) = 4
  BY DEF Shaped, LandmarkOutputs
<1> HIDE DEF points, confidence, pose, eyes
<1>17. /\ DOMAIN points = 1 .. 2 * n /\ DOMAIN confidence = 1 .. n
       /\ DOMAIN pose = 1 .. 3 /\ DOMAIN eyes = 1 .. 2
  BY <1>2, <1>8, <1>9, <1>10, <1>11
<1>18. \A k \in 1 .. n : UnitPoint(PointAt(points, k)) /\ Unit(confidence[k])
  <2> SUFFICES ASSUME NEW k \in 1 .. n
               PROVE  UnitPoint(PointAt(points, k)) /\ Unit(confidence[k])
    OBVIOUS
  <2>1. /\ 2 * k - 2 + 1 \in 1 .. 2 * n /\ 2 * k - 2 + 2 \in 1 .. 2 * n
    BY <1>2
  <2>2. Unit(points[2 * k - 2 + 1]) /\ Unit(points[2 * k - 2 + 2])
    BY <1>14, <1>17, <2>1
  <2>3. /\ PointAt(points, k)[1] = points[2 * k - 2 + 1]
        /\ PointAt(points, k)[2] = points[2 * k - 2 + 2]
    BY DEF PointAt
  <2> QED
    BY <1>14, <1>17, <2>2, <2>3 DEF UnitPoint
<1>19. /\ pose[1] \in Int /\ pose[2] \in Int /\ pose[3] \in Int
       /\ Magnitude(pose[1]) <= 1 /\ Magnitude(pose[2]) <= 1
       /\ Magnitude(pose[3]) <= 1
  <2>1. 1 \in DOMAIN pose /\ 2 \in DOMAIN pose /\ 3 \in DOMAIN pose
    BY <1>17
  <2> QED
    BY <1>10, <1>15, <2>1
<1>20. NaN \notin {pose[1], pose[2], pose[3]}
  BY <1>19, ManifestAssumption
<1>21. /\ Magnitude(pose[1]) <= m.measurement.yaw
       /\ Magnitude(pose[2]) <= m.measurement.pitch
       /\ Magnitude(pose[3]) <= m.measurement.roll
  <2>1. /\ m.measurement.yaw \in 1 .. 90 /\ m.measurement.pitch \in 1 .. 90
        /\ m.measurement.roll \in 1 .. 180
    BY DEF ValidMeasurement
  <2>2. /\ Magnitude(pose[1]) \in Int /\ Magnitude(pose[2]) \in Int
        /\ Magnitude(pose[3]) \in Int
    BY <1>19 DEF Magnitude
  <2> QED
    BY <1>19, <2>1, <2>2
<1>22. UnitPoint(eyes)
  BY <1>14, <1>17 DEF UnitPoint
<1> QED
  BY <1>1, <1>8, <1>9, <1>10, <1>11, <1>12, <1>16, <1>18, <1>20, <1>21, <1>22
  DEF ReadsLandmarks

LEMMA EmbeddingReads ==
  ASSUME NEW m, NEW o, Shaped(m, o), OutputsAreBounded(m),
         m.role = "Embedding", HasOne(m, "Embedding"),
         EmbeddingDims(TheOutput(m, "Embedding").dims),
         \A i \in DOMAIN o : \E k \in DOMAIN o[i].values : o[i].values[k] # 0
  PROVE  ReadsEmbedding(m, o)
<1>1. PICK n \in EmbeddingSizes : \/ TheOutput(m, "Embedding").dims = <<n>>
                                  \/ TheOutput(m, "Embedding").dims = <<1, n>>
  BY DEF EmbeddingDims
<1>2. n \in Nat
  BY ManifestAssumption
<1>3. DimensionProduct(<<n>>) = n /\ DimensionProduct(<<1, n>>) = n
  <2>1. DimensionProduct(<<n>>) = n /\ DimensionProduct(<<1, n>>) = 1 * n
    BY <1>2, Products
  <2> QED
    BY <1>2, <2>1
<1>4. PICK i : Holds(m, o, "Embedding", i)
  BY ValuesAre
<1>5. /\ ValuesOf(m, o, "Embedding") = o[i].values /\ i \in DOMAIN o
      /\ Len(o[i].values) = n
  BY <1>1, <1>3, <1>4 DEF Holds
<1> QED
  BY <1>5 DEF ReadsEmbedding

LEMMA ScoreReads ==
  ASSUME NEW m, NEW o, Shaped(m, o), OutputsAreBounded(m),
         m.role \in PassiveRoles, HasOne(m, "LiveProbability"),
         DimensionProduct(TheOutput(m, "LiveProbability").dims) = 1,
         \A i \in DOMAIN o : \A k \in DOMAIN o[i].values : Unit(o[i].values[k])
  PROVE  ReadsScore(m, o)
<1>1. PICK i : Holds(m, o, "LiveProbability", i)
  BY ValuesAre
<1>2. /\ ValuesOf(m, o, "LiveProbability") = o[i].values /\ i \in DOMAIN o
      /\ o[i].values \in Seq(Int) /\ Len(o[i].values) = 1
  BY <1>1 DEF Holds
<1>3. 1 \in DOMAIN o[i].values
  BY <1>2
<1> QED
  BY <1>2, <1>3 DEF ReadsScore

\* Which outputs an admitted model has is a matter of its role.
LEMMA OutputsOfRole ==
  ASSUME NEW m, OutputsMatchRole(m)
  PROVE  /\ m.role = "Detector" => DetectorOutputs(m)
         /\ m.role = "Landmarks" => LandmarkOutputs(m)
         /\ m.role = "Embedding" =>
              /\ HasOne(m, "Embedding")
              /\ EmbeddingDims(TheOutput(m, "Embedding").dims)
         /\ m.role \in PassiveRoles =>
              /\ HasOne(m, "LiveProbability")
              /\ DimensionProduct(TheOutput(m, "LiveProbability").dims) = 1
<1>1. CASE m.role = "Detector"
  BY <1>1 DEF OutputsMatchRole, DetectorOutputs, PassiveRoles
<1>2. CASE m.role = "Landmarks"
  BY <1>2 DEF OutputsMatchRole, LandmarkOutputs, PassiveRoles
<1>3. CASE m.role = "Embedding"
  BY <1>3 DEF OutputsMatchRole, PassiveRoles, HasOne, EmbeddingDims
<1>4. CASE m.role \in PassiveRoles
  BY <1>4 DEF OutputsMatchRole, PassiveRoles, HasOne
<1> QED
  BY <1>1, <1>2, <1>3, <1>4

\* Whatever manifest was admitted: outputs of the declared shapes whose numbers
\* are sound can be read, so a model that loads does not fail at its first face
\* (ModelManifest::validate against the extract functions of OnnxSession).
THEOREM OutputsCorrect == Spec => []AdmittedOutputsRead
<1>1. SoundInv => AdmittedOutputsRead
  <2> SUFFICES ASSUME SoundInv, pc = "read", NumbersAreSound
               PROVE  CASE stage = 1 -> ReadsFaces(Model(1), outputs[1],
                                                   Config.detection.confidence)
                        [] stage = 2 -> ReadsLandmarks(Model(2), outputs[1])
                        [] stage = 3 -> ReadsEmbedding(Model(3), outputs[1])
                        [] stage = 6 -> \A i \in 1 .. 3 :
                                          ReadsScore(Model(i + 3), outputs[i])
    BY DEF AdmittedOutputsRead
  <2>1. /\ \A i \in 1 .. 6 : Admitted(Model(i)) /\ Model(i).role = Order[i]
        /\ ValidDetection(Config.detection)
        /\ stage \in {1, 2, 3, 6}
        /\ Len(outputs) = Ran("read", stage)
        /\ \A k \in 1 .. Ran("read", stage) :
             Shaped(Model(RanAt(stage, k)), outputs[k])
    BY DEF SoundInv, RolesHeld, RolesMatch, ModelsHeld, StagesHeld, OutputsHeld,
           Working, Order
  <2>2. \A i \in 1 .. 6 : OutputsAreBounded(Model(i)) /\ OutputsMatchRole(Model(i))
    BY <2>1 DEF Admitted
  <2>0. /\ Model(1).role = "Detector" /\ Model(2).role = "Landmarks"
        /\ Model(3).role = "Embedding"
        /\ OutputsMatchRole(Model(1)) /\ OutputsAreBounded(Model(1))
        /\ OutputsMatchRole(Model(2)) /\ OutputsAreBounded(Model(2))
        /\ OutputsMatchRole(Model(3)) /\ OutputsAreBounded(Model(3))
    BY <2>1, <2>2 DEF Order
  <2>3. CASE stage = 1
    <3>1. Shaped(Model(1), outputs[1])
      BY <2>1, <2>3 DEF Ran, RanAt
    <3>2. DetectorOutputs(Model(1))
      BY <2>0, OutputsOfRole, Zenon
    <3>3. \A i \in DOMAIN outputs[1] : \A k \in DOMAIN outputs[1][i].values :
            Unit(outputs[1][i].values[k])
      BY <2>3 DEF NumbersAreSound, Unit
    <3>6. \A i \in DOMAIN outputs[1] :
            outputs[1][i].name = TheOutput(Model(1), "Boxes").name =>
              HoldsBoxes(outputs[1][i].values)
      <4>1. \A values : HoldsBoxes(values) \in BOOLEAN
        BY DEF HoldsBoxes
      <4> QED
        BY <2>3, <4>1 DEF NumbersAreSound
    <3>4. Unit(Config.detection.confidence) /\ OutputsAreBounded(Model(1))
      BY <2>1, <2>2 DEF ValidDetection
    <3>5. ReadsFaces(Model(1), outputs[1], Config.detection.confidence)
      BY <2>0, <3>1, <3>2, <3>3, <3>4, <3>6, DetectorReads, Zenon
    <3> QED
      BY <2>3, <3>5
  <2>4. CASE stage = 2
    <3>1. Shaped(Model(2), outputs[1])
      BY <2>1, <2>4 DEF Ran, RanAt
    <3>2. LandmarkOutputs(Model(2)) /\ OutputsAreBounded(Model(2))
      BY <2>0, OutputsOfRole, Zenon
    <3>3. ValidMeasurement(Model(2).measurement)
      BY <2>0, <2>1 DEF Admitted, MeasurementMatchesRole
    <3>4. \A i \in DOMAIN outputs[1] : \A k \in DOMAIN outputs[1][i].values :
            IF outputs[1][i].name = TheOutput(Model(2), "Pose").name
            THEN Magnitude(outputs[1][i].values[k]) <= 1
            ELSE Unit(outputs[1][i].values[k])
      BY <2>4 DEF NumbersAreSound
    <3>5. ReadsLandmarks(Model(2), outputs[1])
      BY <2>0, <3>1, <3>2, <3>3, <3>4, LandmarksRead, Zenon
    <3> QED
      BY <2>4, <3>5
  <2>5. CASE stage = 3
    <3>1. Shaped(Model(3), outputs[1])
      BY <2>1, <2>5 DEF Ran, RanAt
    <3>2. /\ HasOne(Model(3), "Embedding") /\ OutputsAreBounded(Model(3))
          /\ EmbeddingDims(TheOutput(Model(3), "Embedding").dims)
      BY <2>0, OutputsOfRole, Zenon
    <3>3. \A i \in DOMAIN outputs[1] :
            \E k \in DOMAIN outputs[1][i].values : outputs[1][i].values[k] # 0
      BY <2>5 DEF NumbersAreSound
    <3>4. ReadsEmbedding(Model(3), outputs[1])
      BY <2>0, <3>1, <3>2, <3>3, EmbeddingReads, Zenon
    <3> QED
      BY <2>5, <3>4
  <2>6. CASE stage = 6
    <3>1. ASSUME NEW i \in 1 .. 3 PROVE ReadsScore(Model(i + 3), outputs[i])
      <4>1. Ran("read", stage) = 3 /\ RanAt(stage, i) = i + 3 /\ i + 3 \in 4 .. 6
        BY <2>6 DEF Ran, RanAt
      <4>2. Shaped(Model(i + 3), outputs[i])
        BY <2>1, <4>1
      <4>3. i \in DOMAIN outputs
        <5>1. outputs \in Seq(AllCopies)
          BY DEF SoundInv, OutputsHeld
        <5> HIDE DEF AllCopies
        <5> QED
          BY <2>1, <4>1, <5>1
      <4>4. Model(i + 3).role \in PassiveRoles
        <5>1. Model(i + 3).role = Order[i + 3]
          BY <2>1, <4>1
        <5> QED
          BY <5>1, <4>1 DEF Order, PassiveRoles
      <4>5. /\ HasOne(Model(i + 3), "LiveProbability")
            /\ DimensionProduct(TheOutput(Model(i + 3), "LiveProbability").dims) = 1
        <5>1. OutputsMatchRole(Model(i + 3))
          BY <2>2, <4>1
        <5> QED
          BY <4>4, <5>1 DEF OutputsMatchRole, PassiveRoles
      <4>6. \A j \in DOMAIN outputs[i] : \A k \in DOMAIN outputs[i][j].values :
              Unit(outputs[i][j].values[k])
        BY <2>6, <4>3 DEF NumbersAreSound
      <4>7. OutputsAreBounded(Model(i + 3))
        BY <2>2, <4>1
      <4> QED
        BY <4>2, <4>4, <4>5, <4>6, <4>7, ScoreReads
    <3> QED
      BY <2>6, <3>1
  <2> QED
    BY <2>1, <2>3, <2>4, <2>5, <2>6
<1> QED
  BY SoundCorrect, <1>1, PTL

--------------------------------------------------------------------------------
(*******************************************************************************)
(* Sums and products over a finite set.  The folds of the library take the     *)
(* elements in an order that depends on the set alone; what they compute is    *)
(* a function of the subsets that are left.                                    *)
(*******************************************************************************)

\* The element a fold takes next, and what it leaves.
NextOf(s) == CHOOSE x \in s : TRUE
RestOf(s) == s \ {NextOf(s)}

\* What is left of a set without its next element.
LEMMA RestIs ==
  ASSUME NEW S, IsFiniteSet(S), NEW s \in SUBSET S, s # {}
  PROVE  /\ NextOf(s) \in s /\ NextOf(s) \in S
         /\ RestOf(s) \in SUBSET S
         /\ IsFiniteSet(s) /\ Cardinality(s) \in Nat
         /\ Cardinality(RestOf(s)) = Cardinality(s) - 1
<1>1. IsFiniteSet(s)
  BY FS_Subset
<1>2. NextOf(s) \in s
  BY DEF NextOf
<1>3. Cardinality(s) \in Nat /\ Cardinality(RestOf(s)) = Cardinality(s) - 1
  BY <1>1, <1>2, FS_CardinalityType, FS_RemoveElement DEF RestOf
<1> QED
  BY <1>1, <1>2, <1>3 DEF RestOf

\* Induction along the order in which a fold takes the elements, for a set of
\* subsets instead of a predicate.
LEMMA SubsetInduction ==
  ASSUME NEW S, IsFiniteSet(S), NEW P, {} \in P,
         \A s \in SUBSET S : s # {} /\ RestOf(s) \in P => s \in P
  PROVE  SUBSET S \subseteq P
<1> DEFINE N == {n \in Nat : \A s \in SUBSET S : Cardinality(s) = n => s \in P}
<1>1. 0 \in N
  <2> SUFFICES ASSUME NEW s \in SUBSET S, Cardinality(s) = 0 PROVE s \in P
    OBVIOUS
  <2>1. IsFiniteSet(s)
    BY FS_Subset
  <2>2. s = {}
    BY <2>1, FS_EmptySet
  <2> QED
    BY <2>2
<1>2. ASSUME NEW n \in Nat, n \in N PROVE n + 1 \in N
  <2> SUFFICES ASSUME NEW s \in SUBSET S, Cardinality(s) = n + 1 PROVE s \in P
    OBVIOUS
  <2>1. s # {}
    BY FS_EmptySet
  <2>2. RestOf(s) \in SUBSET S /\ Cardinality(RestOf(s)) = n
    BY <2>1, RestIs
  <2>3. RestOf(s) \in P
    BY <1>2, <2>2
  <2> QED
    BY <2>1, <2>3
<1>3. Nat \subseteq N
  <2> HIDE DEF N
  <2> QED
    BY <1>1, <1>2, SetInduction
<1> SUFFICES ASSUME NEW s \in SUBSET S PROVE s \in P
  OBVIOUS
<1>4. Cardinality(s) \in Nat
  BY FS_Subset, FS_CardinalityType
<1> QED
  BY <1>3, <1>4

\* The fold of the elements of S: each of them is a function of a number.
IsFold(g, base, op, D) ==
  /\ g \in [D -> Int]
  /\ \A s \in D : g[s] = IF s = {} THEN base ELSE op[NextOf(s)][g[RestOf(s)]]

LEMMA FoldExists ==
  ASSUME NEW S, IsFiniteSet(S), NEW base \in Int, NEW op \in [S -> [Int -> Int]]
  PROVE  \E g : IsFold(g, base, op, SUBSET S)
<1> DEFINE D(n) == {s \in SUBSET S : Cardinality(s) <= n}
           N == {n \in Nat : \E g : IsFold(g, base, op, D(n))}
<1>1. 0 \in N
  <2> DEFINE g == [s \in D(0) |-> base]
  <2>1. \A s \in D(0) : s = {}
    BY FS_Subset, FS_EmptySet, FS_CardinalityType
  <2>2. IsFold(g, base, op, D(0))
    BY <2>1 DEF IsFold
  <2> QED
    BY <2>2
<1>2. ASSUME NEW n \in Nat, n \in N PROVE n + 1 \in N
  <2>1. PICK g : IsFold(g, base, op, D(n))
    BY <1>2
  <2> DEFINE h == [s \in D(n + 1) |->
                     IF s = {} THEN base ELSE op[NextOf(s)][g[RestOf(s)]]]
  <2>2. ASSUME NEW s \in D(n + 1), s # {}
        PROVE  RestOf(s) \in D(n) /\ NextOf(s) \in S
    BY <2>2, RestIs
  <2>3. ASSUME NEW s \in D(n) PROVE s \in D(n + 1) /\ h[s] = g[s]
    <3>1. Cardinality(s) \in Nat
      BY FS_Subset, FS_CardinalityType
    <3>2. s \in D(n + 1)
      BY <3>1
    <3> QED
      BY <2>1, <3>2 DEF IsFold
  <2>4. ASSUME NEW s \in D(n + 1)
        PROVE  /\ h[s] \in Int
               /\ h[s] = IF s = {} THEN base ELSE op[NextOf(s)][h[RestOf(s)]]
    <3>1. CASE s = {}
      BY <3>1
    <3>2. CASE s # {}
      <4>1. RestOf(s) \in D(n) /\ NextOf(s) \in S
        BY <2>2, <3>2
      <4>2. g[RestOf(s)] \in Int /\ h[RestOf(s)] = g[RestOf(s)]
        BY <2>1, <2>3, <4>1 DEF IsFold
      <4>3. h[s] = op[NextOf(s)][g[RestOf(s)]]
        BY <3>2
      <4>4. op[NextOf(s)][g[RestOf(s)]] \in Int
        BY <4>1, <4>2
      <4> QED
        BY <3>2, <4>2, <4>3, <4>4
    <3> QED
      BY <3>1, <3>2
  <2>5. IsFold(h, base, op, D(n + 1))
    <3>1. h \in [D(n + 1) -> Int]
      BY <2>4
    <3> HIDE DEF h
    <3> QED
      BY <2>4, <3>1 DEF IsFold
  <2> HIDE DEF D, h
  <2>6. \E f : IsFold(f, base, op, D(n + 1))
    BY <2>5
  <2> QED
    BY <2>6
<1>3. Nat \subseteq N
  <2> HIDE DEF N
  <2> QED
    BY <1>1, <1>2, SetInduction
<1>4. Cardinality(S) \in N
  BY <1>3, FS_CardinalityType
<1>5. D(Cardinality(S)) = SUBSET S
  BY FS_Subset
<1>6. PICK g : IsFold(g, base, op, D(Cardinality(S)))
  BY <1>4
<1> HIDE DEF D
<1> QED
  BY <1>5, <1>6

\* sum adds f up over the subsets of S.
IsSum(sum, f, S) ==
  sum = [s \in SUBSET S |-> IF s = {} THEN 0 ELSE f[NextOf(s)] + sum[RestOf(s)]]

LEMMA SumSteps ==
  ASSUME NEW S, IsFiniteSet(S), NEW f, \A x \in S : f[x] \in Int
  PROVE  \E sum \in [SUBSET S -> Int] :
           /\ sum[{}] = 0
           /\ \A s \in SUBSET S : s # {} => sum[s] = f[NextOf(s)] + sum[RestOf(s)]
           /\ SumFunctionOnSet(f, S) = sum[S]
<1>1. \E g : IsSum(g, f, S)
  <2> DEFINE op == [x \in S |-> [v \in Int |-> f[x] + v]]
  <2>1. op \in [S -> [Int -> Int]]
    OBVIOUS
  <2> HIDE DEF op
  <2>2. PICK g : IsFold(g, 0, op, SUBSET S)
    <3>1. 0 \in Int
      OBVIOUS
    <3> QED
      BY <2>1, <3>1, FoldExists, Zenon
  <2>3. ASSUME NEW s \in SUBSET S
        PROVE  g[s] = IF s = {} THEN 0 ELSE f[NextOf(s)] + g[RestOf(s)]
    <3>1. CASE s = {}
      BY <2>2, <3>1 DEF IsFold
    <3>2. CASE s # {}
      <4>1. NextOf(s) \in S /\ RestOf(s) \in SUBSET S
        BY <3>2, RestIs
      <4>2. g[s] = op[NextOf(s)][g[RestOf(s)]] /\ g[RestOf(s)] \in Int
        BY <2>2, <3>2, <4>1 DEF IsFold
      <4> QED
        BY <3>2, <4>1, <4>2 DEF op
    <3> QED
      BY <3>1, <3>2
  <2>4. g = [s \in SUBSET S |-> g[s]]
    BY <2>2 DEF IsFold
  <2>5. IsSum(g, f, S)
    BY <2>3, <2>4 DEF IsSum
  <2> QED
    BY <2>5
<1> DEFINE sum == CHOOSE g : IsSum(g, f, S)
           P == {s \in SUBSET S : sum[s] \in Int}
<1>2. SumFunctionOnSet(f, S) = sum[S]
  BY DEF SumFunctionOnSet, FoldFunctionOnSet, MapThenFoldSet, IsSum, NextOf,
         RestOf
<1>3. IsSum(sum, f, S)
  BY <1>1
<1> HIDE DEF sum
<1>4. sum[{}] = 0
  BY <1>3 DEF IsSum
<1>5. ASSUME NEW s \in SUBSET S, s # {}
      PROVE  sum[s] = f[NextOf(s)] + sum[RestOf(s)]
  BY <1>3, <1>5 DEF IsSum
<1>6. SUBSET S \subseteq P
  <2>1. {} \in P
    BY <1>4
  <2>2. ASSUME NEW s \in SUBSET S, s # {}, RestOf(s) \in P PROVE s \in P
    BY <1>5, <2>2, RestIs
  <2> HIDE DEF P
  <2> QED
    BY <2>1, <2>2, SubsetInduction
<1>7. sum \in [SUBSET S -> Int]
  <2>1. sum = [s \in SUBSET S |-> sum[s]]
    BY <1>3 DEF IsSum
  <2> QED
    BY <1>6, <2>1
<1> QED
  BY <1>2, <1>4, <1>5, <1>7

\* The sum of a linear combination is the combination of the sums.
LEMMA SumIsLinear ==
  ASSUME NEW S, IsFiniteSet(S), NEW f, NEW g, NEW h, NEW a \in Int, NEW b \in Int,
         \A x \in S : f[x] \in Int /\ g[x] \in Int /\ h[x] = a * f[x] + b * g[x]
  PROVE  SumFunctionOnSet(h, S)
           = a * SumFunctionOnSet(f, S) + b * SumFunctionOnSet(g, S)
<1>1. \A x \in S : h[x] \in Int
  OBVIOUS
<1>2. PICK F \in [SUBSET S -> Int] :
        /\ F[{}] = 0
        /\ \A s \in SUBSET S : s # {} => F[s] = f[NextOf(s)] + F[RestOf(s)]
        /\ SumFunctionOnSet(f, S) = F[S]
  BY SumSteps
<1>3. PICK G \in [SUBSET S -> Int] :
        /\ G[{}] = 0
        /\ \A s \in SUBSET S : s # {} => G[s] = g[NextOf(s)] + G[RestOf(s)]
        /\ SumFunctionOnSet(g, S) = G[S]
  BY SumSteps
<1>4. PICK H \in [SUBSET S -> Int] :
        /\ H[{}] = 0
        /\ \A s \in SUBSET S : s # {} => H[s] = h[NextOf(s)] + H[RestOf(s)]
        /\ SumFunctionOnSet(h, S) = H[S]
  BY <1>1, SumSteps
<1> DEFINE P == {s \in SUBSET S : H[s] = a * F[s] + b * G[s]}
<1>5. {} \in P
  BY <1>2, <1>3, <1>4
<1>6. ASSUME NEW s \in SUBSET S, s # {}, RestOf(s) \in P PROVE s \in P
  <2> DEFINE x == NextOf(s)
             r == RestOf(s)
  <2>1. x \in S /\ r \in SUBSET S
    BY <1>6, RestIs
  <2>2. /\ F[s] = f[x] + F[r] /\ G[s] = g[x] + G[r] /\ H[s] = h[x] + H[r]
        /\ H[r] = a * F[r] + b * G[r] /\ h[x] = a * f[x] + b * g[x]
    BY <1>2, <1>3, <1>4, <1>6, <2>1
  <2>3. f[x] \in Int /\ g[x] \in Int /\ F[r] \in Int /\ G[r] \in Int
    BY <2>1
  <2> HIDE DEF x, r
  <2>4. a * (f[x] + F[r]) + b * (g[x] + G[r])
          = (a * f[x] + b * g[x]) + (a * F[r] + b * G[r])
    BY <2>3
  <2> QED
    BY <2>2, <2>4
<1>7. SUBSET S \subseteq P
  <2> HIDE DEF P
  <2> QED
    BY <1>5, <1>6, SubsetInduction
<1> QED
  BY <1>2, <1>3, <1>4, <1>7

\* What is no larger anywhere has no larger sum.
LEMMA SumIsMonotonic ==
  ASSUME NEW S, IsFiniteSet(S), NEW f, NEW g,
         \A x \in S : f[x] \in Int /\ g[x] \in Int /\ f[x] <= g[x]
  PROVE  SumFunctionOnSet(f, S) <= SumFunctionOnSet(g, S)
<1>1. PICK F \in [SUBSET S -> Int] :
        /\ F[{}] = 0
        /\ \A s \in SUBSET S : s # {} => F[s] = f[NextOf(s)] + F[RestOf(s)]
        /\ SumFunctionOnSet(f, S) = F[S]
  BY SumSteps
<1>2. PICK G \in [SUBSET S -> Int] :
        /\ G[{}] = 0
        /\ \A s \in SUBSET S : s # {} => G[s] = g[NextOf(s)] + G[RestOf(s)]
        /\ SumFunctionOnSet(g, S) = G[S]
  BY SumSteps
<1> DEFINE P == {s \in SUBSET S : F[s] <= G[s]}
<1>3. {} \in P
  BY <1>1, <1>2
<1>4. ASSUME NEW s \in SUBSET S, s # {}, RestOf(s) \in P PROVE s \in P
  <2>1. NextOf(s) \in S /\ RestOf(s) \in SUBSET S
    BY <1>4, RestIs
  <2>2. /\ F[s] = f[NextOf(s)] + F[RestOf(s)] /\ G[s] = g[NextOf(s)] + G[RestOf(s)]
        /\ F[RestOf(s)] <= G[RestOf(s)] /\ f[NextOf(s)] <= g[NextOf(s)]
    BY <1>1, <1>2, <1>4, <2>1
  <2>3. /\ f[NextOf(s)] \in Int /\ g[NextOf(s)] \in Int
        /\ F[RestOf(s)] \in Int /\ G[RestOf(s)] \in Int
    BY <2>1
  <2> QED
    BY <2>2, <2>3
<1>5. SUBSET S \subseteq P
  <2> HIDE DEF P
  <2> QED
    BY <1>3, <1>4, SubsetInduction
<1> QED
  BY <1>1, <1>2, <1>5

\* A sum of integers is one, and positive when its terms are and it has one.
LEMMA SumIsInt ==
  ASSUME NEW S, IsFiniteSet(S), NEW f, \A x \in S : f[x] \in Int
  PROVE  SumFunctionOnSet(f, S) \in Int
<1>1. PICK F \in [SUBSET S -> Int] : SumFunctionOnSet(f, S) = F[S]
  BY SumSteps, ZenonT(30)
<1> QED
  BY <1>1

LEMMA SumIsPositive ==
  ASSUME NEW S, IsFiniteSet(S), S # {}, NEW f, \A x \in S : f[x] \in Nat \ {0}
  PROVE  SumFunctionOnSet(f, S) \in Nat \ {0}
<1>1. \A x \in S : f[x] \in Int
  OBVIOUS
<1>2. PICK F \in [SUBSET S -> Int] :
        /\ F[{}] = 0
        /\ \A s \in SUBSET S : s # {} => F[s] = f[NextOf(s)] + F[RestOf(s)]
        /\ SumFunctionOnSet(f, S) = F[S]
  BY <1>1, SumSteps
<1> DEFINE P == {s \in SUBSET S : F[s] \in Nat /\ (s # {} => F[s] # 0)}
<1>3. {} \in P
  BY <1>2
<1>4. ASSUME NEW s \in SUBSET S, s # {}, RestOf(s) \in P PROVE s \in P
  <2>1. NextOf(s) \in S /\ RestOf(s) \in SUBSET S
    BY <1>4, RestIs
  <2>2. F[s] = f[NextOf(s)] + F[RestOf(s)] /\ F[RestOf(s)] \in Nat
    BY <1>2, <1>4, <2>1
  <2> QED
    BY <2>1, <2>2
<1>5. SUBSET S \subseteq P
  <2> HIDE DEF P
  <2> QED
    BY <1>3, <1>4, SubsetInduction
<1> QED
  BY <1>2, <1>5

\* product multiplies the elements of the subsets of S.
IsProductOf(product, S) ==
  product = [s \in SUBSET S |->
               IF s = {} THEN 1 ELSE NextOf(s) * product[RestOf(s)]]

LEMMA ProductIsPositive ==
  ASSUME NEW S \in SUBSET (Nat \ {0}), IsFiniteSet(S)
  PROVE  ProductSet(S) \in Nat \ {0}
<1>1. \E g : IsProductOf(g, S)
  <2> DEFINE op == [x \in S |-> [v \in Int |-> x * v]]
  <2>1. op \in [S -> [Int -> Int]]
    OBVIOUS
  <2> HIDE DEF op
  <2>2. PICK g : IsFold(g, 1, op, SUBSET S)
    <3>1. 1 \in Int
      OBVIOUS
    <3> QED
      BY <2>1, <3>1, FoldExists, Zenon
  <2>3. ASSUME NEW s \in SUBSET S
        PROVE  g[s] = IF s = {} THEN 1 ELSE NextOf(s) * g[RestOf(s)]
    <3>1. CASE s = {}
      BY <2>2, <3>1 DEF IsFold
    <3>2. CASE s # {}
      <4>1. NextOf(s) \in S /\ RestOf(s) \in SUBSET S
        BY <3>2, RestIs
      <4>2. g[s] = op[NextOf(s)][g[RestOf(s)]] /\ g[RestOf(s)] \in Int
        BY <2>2, <3>2, <4>1 DEF IsFold
      <4> QED
        BY <3>2, <4>1, <4>2 DEF op
    <3> QED
      BY <3>1, <3>2
  <2>4. g = [s \in SUBSET S |-> g[s]]
    BY <2>2 DEF IsFold
  <2>5. IsProductOf(g, S)
    BY <2>3, <2>4 DEF IsProductOf
  <2> QED
    BY <2>5
<1> DEFINE product == CHOOSE g : IsProductOf(g, S)
           P == {s \in SUBSET S : product[s] \in Nat \ {0}}
<1>2. ProductSet(S) = product[S]
  BY DEF ProductSet, FoldSet, MapThenFoldSet, IsProductOf, NextOf, RestOf
<1>3. IsProductOf(product, S)
  BY <1>1
<1> HIDE DEF product
<1>4. {} \in P
  BY <1>3 DEF IsProductOf
<1>5. ASSUME NEW s \in SUBSET S, s # {}, RestOf(s) \in P PROVE s \in P
  <2>1. NextOf(s) \in Nat \ {0} /\ product[RestOf(s)] \in Nat \ {0}
    BY <1>5, RestIs
  <2>2. product[s] = NextOf(s) * product[RestOf(s)]
    BY <1>3, <1>5 DEF IsProductOf
  <2>3. \A x, v \in Nat \ {0} : x * v \in Nat \ {0}
    OBVIOUS
  <2> QED
    BY <2>1, <2>2, <2>3
<1>6. SUBSET S \subseteq P
  <2> HIDE DEF P
  <2> QED
    BY <1>4, <1>5, SubsetInduction
<1> QED
  BY <1>2, <1>6

--------------------------------------------------------------------------------
(*******************************************************************************)
(* The aggregate of the quality.  A weighted harmonic mean of the scores,      *)
(* held below the weakest of them and the headroom.                            *)
(*******************************************************************************)

\* A set of natural numbers has a least one.
LEMMA Least ==
  ASSUME NEW T \in SUBSET Nat, T # {}
  PROVE  \E x \in T : \A y \in T : x <= y
<1> DEFINE R == OpToRel(<, Nat)
<1>1. PICK x \in T : \A y \in T : ~ (<<y, x>> \in R)
  <2>1. IsWellFoundedOn(R, Nat)
    BY NatLessThanWellFounded
  <2> HIDE DEF R
  <2> QED
    BY <2>1, WFMin
<1>2. ASSUME NEW y \in T, y < x PROVE FALSE
  BY <1>1, <1>2 DEF OpToRel
<1> QED
  BY <1>2

\* A factor keeps the order of two numbers.
LEMMA Times ==
  ASSUME NEW a \in Int, NEW b \in Int, NEW k \in Nat, a <= b
  PROVE  a * k <= b * k /\ k * a <= k * b
<1>1. 0 <= (b - a) * k
  OBVIOUS
<1>2. (b - a) * k = b * k - a * k /\ k * a = a * k /\ k * b = b * k
  OBVIOUS
<1>3. a * k \in Int /\ b * k \in Int
  OBVIOUS
<1> QED
  BY <1>1, <1>2, <1>3

LEMMA ComponentsAreFinite == IsFiniteSet(Components) /\ Components # {}
<1> DEFINE named == <<"exposure", "dynamicRange", "sharpness", "faceScale",
                      "centering", "pose", "occlusion", "landmarkConfidence">>
<1>1. IsFiniteSet(1 .. 8)
  <2>1. 1 \in Int /\ 8 \in Int
    OBVIOUS
  <2> QED
    BY <2>1, FS_Interval, Zenon
<1>2. [i \in 1 .. 8 |-> named[i]] \in Surjection(1 .. 8, Components)
  BY DEF Surjection, Components
<1>3. IsFiniteSet(Components)
  BY <1>1, <1>2, FS_Surjection
<1> QED
  BY <1>3 DEF Components

\* The scores and the weights of an assessment.
Scored(s) == \A c \in Components : s[c] \in 0 .. One
Weighed(w) == \A c \in Components : w[c] \in Nat \ {0}

LEMMA WeakestIs ==
  ASSUME NEW s, Scored(s)
  PROVE  /\ \E c \in Components : Weakest(s) = s[c]
         /\ \A c \in Components : Weakest(s) <= s[c]
         /\ Weakest(s) \in 0 .. One
<1> DEFINE T == {s[c] : c \in Components}
<1>1. T \in SUBSET Nat /\ T # {}
  BY ComponentsAreFinite, ManifestAssumption DEF Scored
<1>2. \E x \in T : \A y \in T : x <= y
  <2> HIDE DEF T
  <2> QED
    BY <1>1, Least
<1>3. \E x \in T : \A c \in Components : x <= s[c]
  BY <1>2
<1>4. Weakest(s) \in T /\ \A c \in Components : Weakest(s) <= s[c]
  BY <1>3 DEF Weakest
<1> QED
  BY <1>4 DEF Scored

LEMMA ScaleIs == Scale \in Nat \ {0}
<1>1. 1 \in Int /\ One \in Int /\ 1 .. One \in SUBSET (Nat \ {0})
  BY ManifestAssumption
<1>2. IsFiniteSet(1 .. One)
  BY <1>1, FS_Interval, Zenon
<1> QED
  BY <1>1, <1>2, ProductIsPositive DEF Scale

LEMMA WeightSumIs ==
  ASSUME NEW w, Weighed(w) PROVE WeightSum(w) \in Nat \ {0}
BY ComponentsAreFinite, SumIsPositive DEF WeightSum, Weighed

\* A quotient that rounds down, and what a larger divisor makes of it.
LEMMA Quotient ==
  ASSUME NEW m \in Nat \ {0}, NEW v \in Nat \ {0}, NEW u \in Nat \ {0}, v <= u
  PROVE  /\ m \div v \in Nat
         /\ v * (m \div v) <= m
         /\ m \div u <= m \div v
         /\ m >= v => m \div v # 0
<1> DEFINE p == m \div v
           q == m \div u
           r == m % v
           s == m % u
<1>1. /\ p \in Int /\ r \in 0 .. v - 1 /\ m = v * p + r
      /\ q \in Int /\ s \in 0 .. u - 1 /\ m = u * q + s
  BY DivBounds
<1> HIDE DEF p, q, r, s
<1>2. v * p \in Int /\ v * p <= m /\ m < v * p + v
  BY <1>1
<1>3. 0 <= p
  <2>1. CASE p <= -1
    <3>1. v * p <= v * (-1)
      BY <1>1, <2>1, Times
    <3> QED
      BY <1>2, <3>1
  <2> QED
    BY <1>1, <2>1
<1>4. q <= p
  <2>1. u * q \in Int /\ u * q <= m
    BY <1>1
  <2>2. CASE q >= p + 1
    <3>1. v * (p + 1) <= u * (p + 1)
      BY <1>1, <1>3, Times
    <3>2. u * (p + 1) <= u * q
      BY <1>1, <2>2, Times
    <3>3. v * (p + 1) = v * p + v /\ v * (p + 1) \in Int /\ u * (p + 1) \in Int
      BY <1>1
    <3> QED
      BY <1>2, <2>1, <3>1, <3>2, <3>3
  <2> QED
    BY <1>1, <2>2
<1>5. m >= v => p # 0
  BY <1>1
<1> QED
  BY <1>1, <1>2, <1>3, <1>4, <1>5 DEF p, q

\* A factor comes out of a sum.
LEMMA SumOfMultiples ==
  ASSUME NEW S, IsFiniteSet(S), NEW f, NEW h, NEW k \in Int,
         \A x \in S : f[x] \in Int /\ h[x] = k * f[x]
  PROVE  SumFunctionOnSet(h, S) = k * SumFunctionOnSet(f, S)
<1>1. \A x \in S : h[x] \in Int
  OBVIOUS
<1>2. PICK F \in [SUBSET S -> Int] :
        /\ F[{}] = 0
        /\ \A s \in SUBSET S : s # {} => F[s] = f[NextOf(s)] + F[RestOf(s)]
        /\ SumFunctionOnSet(f, S) = F[S]
  BY SumSteps
<1>3. PICK H \in [SUBSET S -> Int] :
        /\ H[{}] = 0
        /\ \A s \in SUBSET S : s # {} => H[s] = h[NextOf(s)] + H[RestOf(s)]
        /\ SumFunctionOnSet(h, S) = H[S]
  BY <1>1, SumSteps
<1> DEFINE P == {s \in SUBSET S : H[s] = k * F[s]}
<1>4. {} \in P
  BY <1>2, <1>3
<1>5. ASSUME NEW s \in SUBSET S, s # {}, RestOf(s) \in P PROVE s \in P
  <2> DEFINE x == NextOf(s)
             r == RestOf(s)
  <2>1. x \in S /\ r \in SUBSET S
    BY <1>5, RestIs
  <2>2. /\ F[s] = f[x] + F[r] /\ H[s] = h[x] + H[r]
        /\ H[r] = k * F[r] /\ h[x] = k * f[x]
    BY <1>2, <1>3, <1>5, <2>1
  <2>3. f[x] \in Int /\ F[r] \in Int
    BY <2>1
  <2> HIDE DEF x, r
  <2>4. k * (f[x] + F[r]) = k * f[x] + k * F[r]
    BY <2>3
  <2> QED
    BY <2>2, <2>4
<1>6. SUBSET S \subseteq P
  <2> HIDE DEF P
  <2> QED
    BY <1>4, <1>5, SubsetInduction
<1> QED
  BY <1>2, <1>3, <1>6

\* With no component at zero: the sum of the reciprocals against the weights.
LEMMA ReciprocalsAre ==
  ASSUME NEW s, Scored(s), Weakest(s) # 0, NEW w, Weighed(w)
  PROVE  /\ Reciprocals(s, w) \in Nat
         /\ Weakest(s) * Reciprocals(s, w) <= WeightSum(w) * Scale
<1> DEFINE k == Weakest(s)
           m == Scale
           f == [c \in Components |-> w[c] * (m \div s[c])]
           g == [c \in Components |-> m * w[c]]
           h == [c \in Components |-> k * f[c]]
<1>1. k \in Nat \ {0} /\ m \in Nat \ {0} /\ IsFiniteSet(Components)
  BY WeakestIs, ScaleIs, ComponentsAreFinite, ManifestAssumption
<1>2. Reciprocals(s, w) = SumFunctionOnSet(f, Components)
  BY DEF Reciprocals, SumFunction
<1>3. \A c \in Components : /\ w[c] \in Nat \ {0} /\ s[c] \in Nat \ {0}
                            /\ k <= s[c]
  BY <1>1, WeakestIs, ManifestAssumption DEF Scored, Weighed
<1> HIDE DEF k, m
<1>4. ASSUME NEW c \in Components
      PROVE  f[c] \in Nat /\ g[c] \in Int /\ h[c] \in Int /\ h[c] <= g[c]
  <2> DEFINE p == m \div s[c]
  <2>1. s[c] \in Nat \ {0} /\ w[c] \in Nat \ {0}
    BY <1>3
  <2>2. p \in Nat /\ s[c] * p <= m
    <3>1. s[c] <= s[c]
      BY <2>1
    <3> HIDE DEF f, g, h
    <3> QED
      BY <1>1, <2>1, <3>1, Quotient
  <2> HIDE DEF p
  <2>3. f[c] = w[c] * p
    BY DEF p
  <2>4. g[c] = m * w[c] /\ h[c] = k * f[c]
    <3> HIDE DEF f
    <3> QED
      OBVIOUS
  <2> HIDE DEF f
  <2> HIDE DEF p, g, h
  <2>5. k * p <= s[c] * p
    BY <1>1, <1>3, <2>1, <2>2, Times
  <2>6. k * p <= m /\ k * p \in Int
    BY <1>1, <2>1, <2>2, <2>5
  <2>7. (k * p) * w[c] <= m * w[c]
    BY <1>1, <2>1, <2>6, Times
  <2>8. k * (w[c] * p) = (k * p) * w[c]
    BY <1>1, <2>1, <2>2
  <2>9. w[c] * p \in Nat
    BY <2>1, <2>2
  <2> QED
    BY <1>1, <2>1, <2>3, <2>7, <2>8, <2>9, <2>4
<1>5. SumFunctionOnSet(h, Components) = k * SumFunctionOnSet(f, Components)
  <2>1. \A c \in Components : f[c] \in Int /\ h[c] = k * f[c]
    BY <1>4
  <2> HIDE DEF f, h
  <2> QED
    BY <1>1, <2>1, SumOfMultiples
<1>6. SumFunctionOnSet(g, Components) = m * WeightSum(w)
  <2>1. \A c \in Components : w[c] \in Int /\ g[c] = m * w[c]
    BY <1>3
  <2> HIDE DEF g
  <2> QED
    BY <1>1, <2>1, SumOfMultiples DEF WeightSum
<1>7. SumFunctionOnSet(h, Components) <= SumFunctionOnSet(g, Components)
  <2> HIDE DEF g, h
  <2> QED
    BY <1>1, <1>4, SumIsMonotonic
<1>8. SumFunctionOnSet(f, Components) \in Nat
  <2> DEFINE none == [c \in Components |-> 0 * w[c]]
  <2>1. \A c \in Components : w[c] \in Int /\ none[c] = 0 * w[c]
    BY <1>3
  <2>2. \A c \in Components : none[c] \in Int /\ f[c] \in Int /\ none[c] <= f[c]
    BY <1>3, <1>4
  <2> HIDE DEF none, f
  <2>3. 0 \in Int
    OBVIOUS
  <2>4. SumFunctionOnSet(none, Components) = 0 * SumFunctionOnSet(w, Components)
    BY <1>1, <2>1, <2>3, SumOfMultiples
  <2>5. SumFunctionOnSet(w, Components) \in Int
    BY <1>1, <2>1, SumIsInt
  <2>6. SumFunctionOnSet(none, Components) <= SumFunctionOnSet(f, Components)
    BY <1>1, <2>2, SumIsMonotonic
  <2>7. SumFunctionOnSet(f, Components) \in Int
    BY <1>1, <2>2, SumIsInt
  <2> QED
    BY <2>4, <2>5, <2>6, <2>7
<1>9. WeightSum(w) \in Nat
  BY WeightSumIs
<1> QED
  <2> HIDE DEF f, g, h
  <2>1. k * Reciprocals(s, w) <= m * WeightSum(w)
    BY <1>2, <1>5, <1>6, <1>7
  <2> QED
    BY <1>1, <1>2, <1>8, <1>9, <2>1 DEF k, m

\* Better components have the smaller sum of reciprocals.
LEMMA ReciprocalsFall ==
  ASSUME NEW s, Scored(s), Weakest(s) # 0, NEW w, Weighed(w),
         NEW t, Scored(t), \A c \in Components : s[c] <= t[c]
  PROVE  /\ Weakest(s) <= Weakest(t)
         /\ Reciprocals(t, w) <= Reciprocals(s, w)
<1> DEFINE m == Scale
           f == [c \in Components |-> w[c] * (m \div s[c])]
           g == [c \in Components |-> w[c] * (m \div t[c])]
<1>1. m \in Nat \ {0} /\ IsFiniteSet(Components)
  BY ScaleIs, ComponentsAreFinite
<1>2. /\ Reciprocals(s, w) = SumFunctionOnSet(f, Components)
      /\ Reciprocals(t, w) = SumFunctionOnSet(g, Components)
  BY DEF Reciprocals, SumFunction
<1>3. ASSUME NEW c \in Components
      PROVE  w[c] \in Nat \ {0} /\ s[c] \in Nat \ {0} /\ t[c] \in Nat \ {0}
  <2>1. Weakest(s) \in 1 .. One /\ Weakest(s) <= s[c]
    BY WeakestIs, ManifestAssumption
  <2>2. s[c] \in 0 .. One /\ t[c] \in 0 .. One /\ s[c] <= t[c]
    BY DEF Scored
  <2>3. w[c] \in Nat \ {0}
    BY DEF Weighed
  <2> QED
    BY <2>1, <2>2, <2>3, ManifestAssumption
<1> HIDE DEF m
<1>4. ASSUME NEW c \in Components
      PROVE  f[c] \in Int /\ g[c] \in Int /\ g[c] <= f[c]
  <2> DEFINE p == m \div s[c]
             q == m \div t[c]
  <2>1. p \in Nat /\ q \in Nat /\ q <= p
    BY <1>1, <1>3, Quotient
  <2>2. f[c] = w[c] * p /\ g[c] = w[c] * q
    OBVIOUS
  <2> HIDE DEF p, q, f, g
  <2>3. w[c] * q <= w[c] * p
    BY <1>3, <2>1, Times
  <2> QED
    BY <1>3, <2>1, <2>2, <2>3
<1>5. SumFunctionOnSet(g, Components) <= SumFunctionOnSet(f, Components)
  <2> HIDE DEF f, g
  <2> QED
    BY <1>1, <1>4, SumIsMonotonic
<1>6. Weakest(s) <= Weakest(t)
  <2>1. PICK c \in Components : Weakest(t) = t[c]
    BY WeakestIs
  <2>2. Weakest(s) <= s[c] /\ s[c] <= t[c]
    BY WeakestIs
  <2>3. Weakest(s) \in 0 .. One /\ s[c] \in 0 .. One /\ t[c] \in 0 .. One
    BY WeakestIs DEF Scored
  <2> QED
    BY <2>1, <2>2, <2>3, ManifestAssumption
<1> QED
  <2> HIDE DEF f, g
  <2> QED
    BY <1>2, <1>5, <1>6

\* The cap of an aggregate.
Cap(s, headroom) == Smaller(Weakest(s) + headroom, One)

LEMMA CapIs ==
  ASSUME NEW s, Scored(s), NEW headroom \in 0 .. One
  PROVE  /\ Cap(s, headroom) \in Nat
         /\ Cap(s, headroom) = Smaller(One, Weakest(s) + headroom)
         /\ Weakest(s) <= Cap(s, headroom)
<1>1. Weakest(s) \in 0 .. One
  BY WeakestIs
<1> QED
  BY <1>1, ManifestAssumption DEF Cap, Smaller

\* The three forms an aggregate has.
LEMMA AggregateCases ==
  ASSUME NEW s, Scored(s), NEW w, Weighed(w), NEW headroom \in 0 .. One
  PROVE  LET a == Aggregate(s, w, headroom)
             num == WeightSum(w) * Scale
             den == Reciprocals(s, w)
             cap == Cap(s, headroom)
         IN  \/ Weakest(s) = 0 /\ a.num = 0 /\ a.den = 1
             \/ /\ Weakest(s) # 0 /\ num <= cap * den
                /\ a.num = num /\ a.den = den
             \/ /\ Weakest(s) # 0 /\ ~ (num <= cap * den)
                /\ a.num = cap /\ a.den = 1
BY DEF Aggregate, Cap

LEMMA NumeratorIs ==
  ASSUME NEW w, Weighed(w) PROVE WeightSum(w) * Scale \in Nat \ {0}
<1>1. WeightSum(w) \in Nat \ {0} /\ Scale \in Nat \ {0}
  BY WeightSumIs, ScaleIs
<1>2. \A x, y \in Nat \ {0} : x * y \in Nat \ {0}
  OBVIOUS
<1> QED
  BY <1>1, <1>2

\* An aggregate lies between the weakest component and the cap.
LEMMA AggregateIsConservative ==
  ASSUME NEW s, Scored(s), NEW w, Weighed(w), NEW headroom \in 0 .. One
  PROVE  LET a == Aggregate(s, w, headroom)
         IN  /\ a.num \in Nat /\ a.den \in Nat \ {0}
             /\ a.num = 0 <=> \E c \in Components : s[c] = 0
             /\ Weakest(s) * a.den <= a.num
             /\ a.num <= Smaller(One, Weakest(s) + headroom) * a.den
<1> DEFINE a == Aggregate(s, w, headroom)
           num == WeightSum(w) * Scale
           den == Reciprocals(s, w)
           cap == Cap(s, headroom)
           least == Weakest(s)
<1>1. /\ cap \in Nat /\ cap = Smaller(One, least + headroom) /\ least <= cap
      /\ least \in 0 .. One
  BY CapIs, WeakestIs
<1>2. num \in Nat \ {0}
  BY NumeratorIs
<1>3. least = 0 <=> \E c \in Components : s[c] = 0
  <2>1. \A c \in Components : s[c] \in Nat /\ least <= s[c]
    BY WeakestIs, ManifestAssumption DEF Scored
  <2>2. \E c \in Components : least = s[c]
    BY WeakestIs
  <2> QED
    BY <1>1, <2>1, <2>2, ManifestAssumption
<1>4. \/ least = 0 /\ a.num = 0 /\ a.den = 1
      \/ least # 0 /\ num <= cap * den /\ a.num = num /\ a.den = den
      \/ least # 0 /\ ~ (num <= cap * den) /\ a.num = cap /\ a.den = 1
  BY AggregateCases
<1>5. least # 0 => den \in Nat /\ least * den <= num
  BY ReciprocalsAre
<1>6. least \in Nat
  BY <1>1, ManifestAssumption
<1> SUFFICES /\ a.num \in Nat /\ a.den \in Nat \ {0}
             /\ a.num = 0 <=> least = 0
             /\ least * a.den <= a.num
             /\ a.num <= cap * a.den
  BY <1>1, <1>3
<1> HIDE DEF a, num, den, cap, least
<1>7. CASE least = 0 /\ a.num = 0 /\ a.den = 1
  BY <1>1, <1>7
<1>8. CASE least # 0 /\ num <= cap * den /\ a.num = num /\ a.den = den
  <2>1. den # 0
    BY <1>1, <1>2, <1>8
  <2> QED
    BY <1>2, <1>5, <1>8, <2>1
<1>9. CASE least # 0 /\ a.num = cap /\ a.den = 1
  BY <1>1, <1>6, <1>9
<1> QED
  BY <1>4, <1>7, <1>8, <1>9

\* Better components have no smaller aggregate.
LEMMA AggregateIsMonotonic ==
  ASSUME NEW s, Scored(s), NEW w, Weighed(w), NEW headroom \in 0 .. One,
         NEW t, Scored(t), \A c \in Components : s[c] <= t[c]
  PROVE  AtMostFraction(Aggregate(s, w, headroom), Aggregate(t, w, headroom))
<1> DEFINE a == Aggregate(s, w, headroom)
           b == Aggregate(t, w, headroom)
           num == WeightSum(w) * Scale
           low == Reciprocals(t, w)
           high == Reciprocals(s, w)
           cap == Cap(s, headroom)
           top == Cap(t, headroom)
<1>1. num \in Nat \ {0} /\ cap \in Nat /\ top \in Nat
  BY NumeratorIs, CapIs
<1>2. b.num \in Nat /\ b.den \in Nat \ {0}
  BY AggregateIsConservative
<1>3. CASE Weakest(s) = 0
  <2>1. a.num = 0 /\ a.den = 1
    BY <1>3, AggregateCases
  <2> HIDE DEF a, b
  <2> QED
    BY <1>2, <2>1 DEF AtMostFraction, a, b
<1>4. CASE Weakest(s) # 0
  <2>1. Weakest(s) <= Weakest(t) /\ low <= high
    BY <1>4, ReciprocalsFall
  <2>2. Weakest(s) \in 0 .. One /\ Weakest(t) \in 0 .. One
    BY WeakestIs
  <2>3. Weakest(t) # 0
    BY <1>4, <2>1, <2>2, ManifestAssumption
  <2>4. low \in Nat /\ high \in Nat
    BY <1>4, <2>3, ReciprocalsAre
  <2>5. cap <= top
    BY <2>1, <2>2, ManifestAssumption DEF Cap, Smaller
  <2>6. \/ num <= cap * high /\ a.num = num /\ a.den = high
        \/ ~ (num <= cap * high) /\ a.num = cap /\ a.den = 1
    BY <1>4, AggregateCases
  <2>7. \/ num <= top * low /\ b.num = num /\ b.den = low
        \/ ~ (num <= top * low) /\ b.num = top /\ b.den = 1
    BY <2>3, AggregateCases
  <2> SUFFICES a.num * b.den <= b.num * a.den
    BY DEF AtMostFraction
  <2> HIDE DEF a, b, num, low, high, cap, top
  <2>8. /\ num * low <= num * high
        /\ cap * high <= top * high
        /\ cap * low <= cap * high
    BY <1>1, <2>1, <2>4, <2>5, Times
  <2>9. /\ num * low \in Nat /\ num * high \in Nat /\ cap * high \in Nat
        /\ top * high \in Nat /\ cap * low \in Nat
    BY <1>1, <2>4
  <2>10. CASE a.num = num /\ a.den = high /\ b.num = num /\ b.den = low
    BY <2>8, <2>10
  <2>11. CASE /\ a.num = num /\ a.den = high /\ b.num = top /\ b.den = 1
              /\ num <= cap * high
    BY <1>1, <2>8, <2>9, <2>11
  <2>12. CASE /\ a.num = cap /\ a.den = 1 /\ b.num = num /\ b.den = low
              /\ ~ (num <= cap * high)
    BY <1>1, <2>8, <2>9, <2>12
  <2>13. CASE a.num = cap /\ a.den = 1 /\ b.num = top /\ b.den = 1
    BY <1>1, <2>5, <2>13
  <2> QED
    BY <2>6, <2>7, <2>10, <2>11, <2>12, <2>13
<1> QED
  BY <1>3, <1>4

--------------------------------------------------------------------------------
(*******************************************************************************)
(* The scores.  A calibration that was admitted makes a score of every         *)
(* measurement, and what is measured on the pixels of a picture is a number.   *)
(*******************************************************************************)

\* A score is between 0 and 1.
LEMMA ClampInUnit ==
  ASSUME NEW num \in Int, NEW den \in Nat \ {0}
  PROVE  ClampScore(num, den) \in 0 .. One
<1>1. num * One \in Int /\ One \in Nat
  BY ManifestAssumption
<1>2. (num * One) \div den \in Int
  BY <1>1, DivBounds
<1> QED
  BY <1>1, <1>2 DEF ClampScore, Larger, Smaller

LEMMA SmallerInUnit ==
  ASSUME NEW a \in 0 .. One, NEW b \in 0 .. One PROVE Smaller(a, b) \in 0 .. One
BY DEF Smaller

LEMMA BandInUnit ==
  ASSUME NEW b, ValidBand(b), BandIsNumeric(b), NEW v \in Int
  PROVE  BandScore(b, v) \in 0 .. One
<1>1. /\ b.rejectBelow \in Int /\ b.idealMin \in Int /\ b.idealMax \in Int
      /\ b.rejectAbove \in Int
  BY DEF ValidBand, BandIsNumeric
<1>2. /\ b.idealMin - b.rejectBelow \in Nat \ {0}
      /\ b.rejectAbove - b.idealMax \in Nat \ {0}
  BY <1>1 DEF ValidBand
<1>3. /\ ClampScore(v - b.rejectBelow, b.idealMin - b.rejectBelow) \in 0 .. One
      /\ ClampScore(b.rejectAbove - v, b.rejectAbove - b.idealMax) \in 0 .. One
  <2>1. v - b.rejectBelow \in Int /\ b.rejectAbove - v \in Int
    BY <1>1
  <2> QED
    BY <1>2, <2>1, ClampInUnit
<1>4. 0 \in 0 .. One
  BY ManifestAssumption
<1> QED
  BY <1>3, <1>4, SmallerInUnit DEF BandScore

LEMMA LowerInUnit ==
  ASSUME NEW b, ValidLower(b), LimitIsNumeric(b), NEW v \in Int
  PROVE  LowerScore(b, v) \in 0 .. One
<1>1. b.reject \in Int /\ b.ideal \in Int
  BY DEF ValidLower, LimitIsNumeric
<1>2. b.ideal - b.reject \in Nat \ {0} /\ v - b.reject \in Int
  BY <1>1 DEF ValidLower
<1> QED
  BY <1>2, ClampInUnit DEF LowerScore

LEMMA DeviationInUnit ==
  ASSUME NEW b, ValidDeviation(b), LimitIsNumeric(b), NEW v \in Int
  PROVE  DeviationScore(b, v) \in 0 .. One
<1>1. b.reject \in Int /\ b.ideal \in Int
  BY DEF ValidDeviation, LimitIsNumeric
<1>2. b.reject - b.ideal \in Nat \ {0} /\ b.reject - v \in Int
  BY <1>1 DEF ValidDeviation
<1> QED
  BY <1>2, ClampInUnit DEF DeviationScore

\* What a face shows of itself, in whole numbers.
WholeGeometry(g) ==
  {g.twiceX, g.twiceY, g.width, g.height, g.yaw, g.pitch, g.roll, g.visible,
   g.confidence} \subseteq Int
WholeMeasures(x) ==
  {x.mean, x.clipped, x.range, x.sharpness, x.fraction} \subseteq Int

LEMMA MagnitudeIs ==
  ASSUME NEW a \in Int PROVE Magnitude(a) \in Int /\ Magnitude(a) \div 2 \in Int
<1>1. Magnitude(a) \in Int
  BY DEF Magnitude
<1> QED
  BY <1>1, DivBounds

\* Whatever is measured, a valid calibration makes scores of it.
LEMMA ScoresAreScored ==
  ASSUME NEW x, WholeMeasures(x), NEW g, WholeGeometry(g),
         NEW q, ValidQuality(q), QualityIsNumeric(q)
  PROVE  Scored(Scores(x, g, q))
<1>1. /\ x.mean \in Int /\ x.clipped \in Int /\ x.range \in Int
      /\ x.sharpness \in Int /\ x.fraction \in Int
  BY DEF WholeMeasures
<1>2. /\ g.twiceX \in Int /\ g.twiceY \in Int /\ g.yaw \in Int /\ g.pitch \in Int
      /\ g.roll \in Int /\ g.visible \in Int /\ g.confidence \in Int
  BY DEF WholeGeometry
<1>3. /\ BandScore(q.exposure, x.mean) \in 0 .. One
      /\ BandScore(q.faceFraction, x.fraction) \in 0 .. One
  <2>1. /\ ValidBand(q.exposure) /\ ValidBand(q.faceFraction)
        /\ BandIsNumeric(q.exposure) /\ BandIsNumeric(q.faceFraction)
    BY DEF ValidQuality, QualityIsNumeric
  <2> QED
    BY <1>1, <2>1, BandInUnit
<1>4. /\ LowerScore(q.range, x.range) \in 0 .. One
      /\ LowerScore(q.sharpness, x.sharpness) \in 0 .. One
      /\ LowerScore(q.visibility, g.visible) \in 0 .. One
      /\ LowerScore(q.confidence, g.confidence) \in 0 .. One
  <2>1. /\ ValidLower(q.range) /\ ValidLower(q.sharpness)
        /\ ValidLower(q.visibility) /\ ValidLower(q.confidence)
        /\ LimitIsNumeric(q.range) /\ LimitIsNumeric(q.sharpness)
        /\ LimitIsNumeric(q.visibility) /\ LimitIsNumeric(q.confidence)
    BY DEF ValidQuality, QualityIsNumeric
  <2> QED
    BY <1>1, <1>2, <2>1, LowerInUnit
<1>5. /\ ValidDeviation(q.clipped) /\ ValidDeviation(q.horizontal)
      /\ ValidDeviation(q.vertical) /\ ValidDeviation(q.yaw)
      /\ ValidDeviation(q.pitch) /\ ValidDeviation(q.roll)
      /\ LimitIsNumeric(q.clipped) /\ LimitIsNumeric(q.horizontal)
      /\ LimitIsNumeric(q.vertical) /\ LimitIsNumeric(q.yaw)
      /\ LimitIsNumeric(q.pitch) /\ LimitIsNumeric(q.roll)
  BY DEF ValidQuality, QualityIsNumeric
<1>6. /\ Magnitude(g.twiceX - Fine) \div 2 \in Int
      /\ Magnitude(g.twiceY - Fine) \div 2 \in Int
      /\ Magnitude(g.yaw) \in Int /\ Magnitude(g.pitch) \in Int
      /\ Magnitude(g.roll) \in Int
  <2>1. g.twiceX - Fine \in Int /\ g.twiceY - Fine \in Int
    BY <1>2, FineIs
  <2> QED
    BY <1>2, <2>1, MagnitudeIs
<1>7. /\ DeviationScore(q.clipped, x.clipped) \in 0 .. One
      /\ DeviationScore(q.horizontal, Magnitude(g.twiceX - Fine) \div 2) \in 0 .. One
      /\ DeviationScore(q.vertical, Magnitude(g.twiceY - Fine) \div 2) \in 0 .. One
      /\ DeviationScore(q.yaw, Magnitude(g.yaw)) \in 0 .. One
      /\ DeviationScore(q.pitch, Magnitude(g.pitch)) \in 0 .. One
      /\ DeviationScore(q.roll, Magnitude(g.roll)) \in 0 .. One
  BY <1>1, <1>5, <1>6, DeviationInUnit
<1> SUFFICES ASSUME NEW c \in Components
             PROVE  Scores(x, g, q)[c] \in 0 .. One
  BY DEF Scored
<1>8. CASE c = "exposure"
  BY <1>3, <1>7, <1>8, SmallerInUnit DEF Scores
<1>9. CASE c \in {"dynamicRange", "sharpness", "faceScale", "occlusion",
                  "landmarkConfidence"}
  BY <1>3, <1>4, <1>9 DEF Scores
<1>10. CASE c = "centering"
  BY <1>7, <1>10, SmallerInUnit DEF Scores
<1>11. CASE c = "pose"
  BY <1>7, <1>11, SmallerInUnit DEF Scores
<1> QED
  BY <1>8, <1>9, <1>10, <1>11 DEF Components

\* A region of whole pixels, at least three by three of them.
WholeRegion(r) ==
  /\ r.x0 \in Int /\ r.x1 \in Int /\ r.y0 \in Int /\ r.y1 \in Int
  /\ r.x1 - r.x0 >= 3 /\ r.y1 - r.y0 >= 3

LumaIn(pixels, r) == \A p \in PixelsOf(r) : pixels[p] \in Luma

\* The size of a row of pixels, and of the pixels of a region.
LEMMA RowIs ==
  ASSUME NEW a \in Int, NEW b \in Int, a <= b
  PROVE  IsFiniteSet(a .. b) /\ Cardinality(a .. b) = b - a + 1
<1>1. ~ (a > b)
  OBVIOUS
<1> QED
  BY <1>1, FS_Interval

LEMMA PixelsAre ==
  ASSUME NEW r, WholeRegion(r)
  PROVE  /\ IsFiniteSet(PixelsOf(r)) /\ IsFiniteSet(InnerPixels(r))
         /\ PixelCount(r) \in Nat \ {0}
         /\ Cardinality(PixelsOf(r)) = PixelCount(r)
         /\ Cardinality(InnerPixels(r)) \in Nat \ {0}
<1> DEFINE w == r.x1 - r.x0
           h == r.y1 - r.y0
<1>1. \A x, y \in Nat \ {0} : x * y \in Nat \ {0}
  OBVIOUS
<1>2. /\ r.x0 \in Int /\ r.x1 \in Int /\ r.y0 \in Int /\ r.y1 \in Int
      /\ w \in Nat /\ h \in Nat /\ w >= 3 /\ h >= 3
  BY DEF WholeRegion
<1>3. /\ IsFiniteSet(PixelsOf(r))
      /\ Cardinality(PixelsOf(r)) = ((r.x1 - 1) - r.x0 + 1) * ((r.y1 - 1) - r.y0 + 1)
  <2> DEFINE S == r.x0 .. r.x1 - 1
             T == r.y0 .. r.y1 - 1
  <2>1. /\ r.x0 \in Int /\ r.x1 - 1 \in Int /\ r.y0 \in Int /\ r.y1 - 1 \in Int
        /\ r.x0 <= r.x1 - 1 /\ r.y0 <= r.y1 - 1
    BY <1>2
  <2>2. IsFiniteSet(S) /\ Cardinality(S) = (r.x1 - 1) - r.x0 + 1
    BY <2>1, RowIs
  <2>3. IsFiniteSet(T) /\ Cardinality(T) = (r.y1 - 1) - r.y0 + 1
    BY <2>1, RowIs
  <2>4. PixelsOf(r) = S \X T
    BY DEF PixelsOf
  <2> HIDE DEF S, T
  <2>5. /\ IsFiniteSet(S \X T)
        /\ Cardinality(S \X T) = Cardinality(S) * Cardinality(T)
    BY <2>2, <2>3, FS_Product
  <2> QED
    BY <2>2, <2>3, <2>4, <2>5
<1>4. /\ IsFiniteSet(InnerPixels(r))
      /\ Cardinality(InnerPixels(r))
           = ((r.x1 - 2) - (r.x0 + 1) + 1) * ((r.y1 - 2) - (r.y0 + 1) + 1)
  <2> DEFINE S == r.x0 + 1 .. r.x1 - 2
             T == r.y0 + 1 .. r.y1 - 2
  <2>1. /\ r.x0 + 1 \in Int /\ r.x1 - 2 \in Int /\ r.y0 + 1 \in Int /\ r.y1 - 2 \in Int
        /\ r.x0 + 1 <= r.x1 - 2 /\ r.y0 + 1 <= r.y1 - 2
    BY <1>2
  <2>2. IsFiniteSet(S) /\ Cardinality(S) = (r.x1 - 2) - (r.x0 + 1) + 1
    BY <2>1, RowIs
  <2>3. IsFiniteSet(T) /\ Cardinality(T) = (r.y1 - 2) - (r.y0 + 1) + 1
    BY <2>1, RowIs
  <2>4. InnerPixels(r) = S \X T
    BY DEF InnerPixels
  <2> HIDE DEF S, T
  <2>5. /\ IsFiniteSet(S \X T)
        /\ Cardinality(S \X T) = Cardinality(S) * Cardinality(T)
    BY <2>2, <2>3, FS_Product
  <2> QED
    BY <2>2, <2>3, <2>4, <2>5
<1>5. /\ (r.x1 - 1) - r.x0 + 1 = w /\ (r.y1 - 1) - r.y0 + 1 = h
      /\ (r.x1 - 2) - (r.x0 + 1) + 1 = w - 2
      /\ (r.y1 - 2) - (r.y0 + 1) + 1 = h - 2
  BY <1>2
<1>6. PixelCount(r) = w * h
  BY DEF PixelCount, RegionWidth, RegionHeight
<1> HIDE DEF w, h
<1>7. w \in Nat \ {0} /\ h \in Nat \ {0} /\ w - 2 \in Nat \ {0}
      /\ h - 2 \in Nat \ {0}
  BY <1>2
<1> QED
  BY <1>1, <1>3, <1>4, <1>5, <1>6, <1>7

LEMMA AtMostIs ==
  ASSUME NEW r, WholeRegion(r), NEW pixels, NEW luma
  PROVE  AtMost(pixels, r, luma) \in Nat
<1>1. IsFiniteSet({p \in PixelsOf(r) : pixels[p] <= luma})
  BY PixelsAre, FS_Subset
<1> QED
  BY <1>1, FS_CardinalityType DEF AtMost

\* The darkest luma that more pixels than the rank are no brighter than.
LEMMA PercentileIs ==
  ASSUME NEW r, WholeRegion(r), NEW pixels, LumaIn(pixels, r),
         NEW percentile \in 1 .. 99
  PROVE  Percentile(pixels, r, percentile) \in Luma
<1> DEFINE n == PixelCount(r)
           rank == ((n - 1) * percentile) \div 100
           T == {v \in Luma : AtMost(pixels, r, v) > rank}
<1>1. n \in Nat \ {0} /\ Cardinality(PixelsOf(r)) = n
  BY PixelsAre
<1>2. MaxLuma \in Nat /\ Luma = 0 .. MaxLuma
  BY QualityAssumption DEF Luma, MaxLuma
<1>3. rank \in 0 .. n - 1
  <2> HIDE DEF n
  <2>1. n - 1 \in Nat /\ percentile \in Nat /\ percentile <= 100
    BY <1>1
  <2>2. (n - 1) * percentile <= (n - 1) * 100 /\ (n - 1) * percentile \in Nat
        /\ (n - 1) * 100 \in Nat
    BY <2>1, Times
  <2>3. (n - 1) * percentile \in 0 .. (n - 1) * 100
    BY <2>2
  <2> QED
    BY <2>1, <2>3, DivInside
<1>4. AtMost(pixels, r, MaxLuma) = n
  <2>1. {p \in PixelsOf(r) : pixels[p] <= MaxLuma} = PixelsOf(r)
    BY <1>2 DEF LumaIn
  <2> QED
    BY <1>1, <2>1 DEF AtMost
<1>5. \A v : AtMost(pixels, r, v) \in Nat
  BY AtMostIs
<1> HIDE DEF n, rank
<1>6. MaxLuma \in T /\ T \in SUBSET Nat
  BY <1>1, <1>2, <1>3, <1>4
<1>7. PICK v \in T : \A u \in T : v <= u
  <2> HIDE DEF T
  <2> QED
    BY <1>6, Least
<1>8. v > 0 => AtMost(pixels, r, v - 1) <= rank
  <2> SUFFICES ASSUME v > 0 PROVE AtMost(pixels, r, v - 1) <= rank
    OBVIOUS
  <2>1. v \in 0 .. MaxLuma
    BY <1>2
  <2>2. v - 1 \in Luma /\ ~ (v <= v - 1)
    BY <1>2, <2>1
  <2>3. v - 1 \notin T
    BY <1>7, <2>2
  <2>4. ~ (AtMost(pixels, r, v - 1) > rank)
    BY <2>2, <2>3
  <2> QED
    BY <1>1, <1>3, <1>5, <2>4
<1>9. \E u \in Luma : /\ AtMost(pixels, r, u) > rank
                      /\ u > 0 => AtMost(pixels, r, u - 1) <= rank
  BY <1>7, <1>8
<1>10. Percentile(pixels, r, percentile)
         = CHOOSE u \in Luma : /\ AtMost(pixels, r, u) > rank
                               /\ u > 0 => AtMost(pixels, r, u - 1) <= rank
  BY DEF Percentile, rank, n
<1> HIDE DEF T
<1> QED
  BY <1>9, <1>10

LEMMA LaplacianIs ==
  ASSUME NEW r, WholeRegion(r), NEW pixels, LumaIn(pixels, r),
         NEW p \in InnerPixels(r)
  PROVE  Laplacian(pixels, p) \in Int
<1> DEFINE around == {p, <<p[1] - 1, p[2]>>, <<p[1] + 1, p[2]>>,
                      <<p[1], p[2] - 1>>, <<p[1], p[2] + 1>>}
<1>1. around \subseteq PixelsOf(r)
  BY DEF WholeRegion, InnerPixels, PixelsOf
<1>2. Luma \subseteq Int
  BY QualityAssumption DEF Luma, MaxLuma
<1>3. \A x \in around : pixels[x] \in Int
  BY <1>1, <1>2 DEF LumaIn
<1>4. /\ pixels[p] \in Int
      /\ pixels[<<p[1] - 1, p[2]>>] \in Int /\ pixels[<<p[1] + 1, p[2]>>] \in Int
      /\ pixels[<<p[1], p[2] - 1>>] \in Int /\ pixels[<<p[1], p[2] + 1>>] \in Int
  BY <1>3
<1> QED
  BY <1>4 DEF Laplacian

LEMMA SpreadIs ==
  ASSUME NEW r, WholeRegion(r), NEW pixels, LumaIn(pixels, r)
  PROVE  LaplacianSpread(pixels, r) \in Int
<1> DEFINE n == Cardinality(InnerPixels(r))
           at == [p \in InnerPixels(r) |-> Laplacian(pixels, p)]
           square == [p \in InnerPixels(r) |-> at[p] * at[p]]
<1>1. IsFiniteSet(InnerPixels(r)) /\ n \in Nat
  BY PixelsAre
<1>2. \A p \in InnerPixels(r) : at[p] \in Int
  BY LaplacianIs
<1>3. SumFunction(at) \in Int
  <2>1. SumFunction(at) = SumFunctionOnSet(at, InnerPixels(r))
    BY DEF SumFunction
  <2> HIDE DEF at
  <2> QED
    BY <1>1, <1>2, <2>1, SumIsInt
<1>4. SumFunction(square) \in Int
  <2> HIDE DEF at
  <2>1. SumFunction(square) = SumFunctionOnSet(square, InnerPixels(r))
    BY DEF SumFunction
  <2>2. \A p \in InnerPixels(r) : square[p] \in Int
    BY <1>2
  <2> HIDE DEF square
  <2> QED
    BY <1>1, <2>1, <2>2, SumIsInt
<1>5. LaplacianSpread(pixels, r)
        = n * SumFunction(square) - SumFunction(at) * SumFunction(at)
  BY DEF LaplacianSpread
<1> HIDE DEF n, at, square
<1> QED
  BY <1>1, <1>3, <1>4, <1>5

\* What is measured on the pixels of a region is a number.
LEMMA MeasuresAreWhole ==
  ASSUME NEW image, NEW g, NEW q, WholeRegion(PixelRegion(image, g)),
         LumaIn(image.pixels, PixelRegion(image, g)),
         q.low \in 1 .. 49, q.high \in 51 .. 99,
         g.width \in Int, g.height \in Int
  PROVE  WholeMeasures(Measured(image, g, q))
<1> DEFINE r == PixelRegion(image, g)
           pixels == image.pixels
           n == Cardinality(InnerPixels(r))
           count == PixelCount(r)
<1>1. /\ IsFiniteSet(PixelsOf(r)) /\ count \in Nat \ {0} /\ n \in Nat \ {0}
  BY PixelsAre
<1>2. Luma \subseteq Int /\ One \in Nat \ {0}
  BY QualityAssumption, ManifestAssumption DEF Luma, MaxLuma
<1>3. LumaSum(pixels, r) \div count \in Int
  <2>1. \A p \in PixelsOf(r) : pixels[p] \in Int
    BY <1>2 DEF LumaIn
  <2>2. LumaSum(pixels, r) \in Int
    BY <1>1, <2>1, SumIsInt DEF LumaSum
  <2> HIDE DEF count
  <2> QED
    BY <1>1, <2>2, DivBounds
<1>4. (ClippedCount(pixels, r, q) * One) \div count \in Int
  <2>1. ClippedCount(pixels, r, q) \in Int
    BY <1>1, AtMostIs DEF ClippedCount
  <2> HIDE DEF count
  <2>2. ClippedCount(pixels, r, q) * One \in Int
    BY <1>2, <2>1
  <2> QED
    BY <1>1, <2>2, DivBounds
<1>5. Larger(0, Percentile(pixels, r, q.high) - Percentile(pixels, r, q.low)) \in Int
  <2>1. q.low \in 1 .. 99 /\ q.high \in 1 .. 99
    OBVIOUS
  <2>2. /\ Percentile(pixels, r, q.high) \in Int
        /\ Percentile(pixels, r, q.low) \in Int
    BY <1>2, <2>1, PercentileIs
  <2> QED
    BY <2>2 DEF Larger
<1>6. LaplacianSpread(pixels, r) \div (n * n) \in Int
  <2>1. LaplacianSpread(pixels, r) \in Int
    BY SpreadIs
  <2> HIDE DEF n
  <2>2. n * n \in Nat \ {0}
    <3>1. \A x \in Nat \ {0} : x * x \in Nat \ {0}
      OBVIOUS
    <3> QED
      BY <1>1, <3>1
  <2> QED
    BY <2>1, <2>2, DivBounds
<1>7. (g.width * g.height) \div (4 * One * Fine) \in Int
  <2>1. \A x, y \in Nat \ {0} : 4 * x * y \in Nat \ {0}
    OBVIOUS
  <2>2. 4 * One * Fine \in Nat \ {0}
    BY <1>2, <2>1, FineIs
  <2>3. g.width * g.height \in Int
    OBVIOUS
  <2> QED
    BY <2>2, <2>3, DivBounds
<1>8. Measured(image, g, q)
        = [mean |-> LumaSum(pixels, r) \div count,
           clipped |-> (ClippedCount(pixels, r, q) * One) \div count,
           range |-> Larger(0, Percentile(pixels, r, q.high)
                                 - Percentile(pixels, r, q.low)),
           sharpness |-> LaplacianSpread(pixels, r) \div (n * n),
           fraction |-> (g.width * g.height) \div (4 * One * Fine)]
  BY DEF Measured
<1> HIDE DEF r, pixels, n, count
<1> QED
  BY <1>3, <1>4, <1>5, <1>6, <1>7, <1>8 DEF WholeMeasures

--------------------------------------------------------------------------------
(*******************************************************************************)
(* What was judged of the picture.  Where the embedding model is about to      *)
(* run, the landmarks are numbers, the quality is the one assessed for them    *)
(* and the alignment was accepted.                                             *)
(*******************************************************************************)

\* The landmarks are numbers, one point for each, and at least one.
MarksTyped(l) ==
  /\ l.count \in Nat \ {0}
  /\ l.visible \in Nat /\ l.confidence \in Int
  /\ {l.yaw, l.pitch, l.roll} \subseteq Int
  /\ l.points \in Seq([1 .. 2 -> Int])

\* What the worker holds when it is about to align the face.
MarksHeld == pc \in Working /\ stage >= 3 => MarksTyped(landmarks)

AlignedHeld ==
  pc = "start" /\ stage = 3 =>
    AlignmentRefusal(Model(3), Frames.visible, landmarks) = "None"

QualityHeld ==
  pc = "start" /\ stage = 3 =>
    quality = Assessed(Frames.visible, GeometryOf(landmarks), Config.quality)

JudgedInv == MarksHeld /\ AlignedHeld /\ QualityHeld

LEMMA JudgedInit == Init => JudgedInv
<1> SUFFICES ASSUME Init PROVE JudgedInv
  OBVIOUS
<1>1. pc = "load"
  BY DEF Init
<1> QED
  BY <1>1 DEF JudgedInv, MarksHeld, AlignedHeld, QualityHeld, Working

\* The landmarks that can be read of the outputs are numbers.
LEMMA MarksAreTyped ==
  ASSUME NEW m, NEW o, Shaped(m, o), ReadsLandmarks(m, o), NEW region
  PROVE  MarksTyped(FacialLandmarks(m, o, region))
<1> DEFINE coordinates == ValuesOf(m, o, "Points")
           confidence == ValuesOf(m, o, "PointConfidence")
           pose == ValuesOf(m, o, "Pose")
           n == Len(confidence)
           seen == {i \in DOMAIN confidence : confidence[i] >= m.measurement.visible}
           points == [i \in DOMAIN confidence |-> PointAt(coordinates, i)]
           l == FacialLandmarks(m, o, region)
<1>1. coordinates \in Seq(Int) /\ confidence \in Seq(Int) /\ pose \in Seq(Int)
  BY ValuesTyped
<1>2. /\ n \in MinLandmarks .. MaxLandmarks /\ Len(coordinates) = 2 * n
      /\ Len(pose) = 3
  BY DEF ReadsLandmarks
<1>3. /\ l.count = n /\ l.visible = Cardinality(seen)
      /\ l.confidence = SumFunction(confidence)
      /\ l.yaw = pose[1] /\ l.pitch = pose[2] /\ l.roll = pose[3]
      /\ l.points = points
  BY DEF FacialLandmarks
<1> HIDE DEF coordinates, confidence, pose, l
<1>4. n \in Nat \ {0} /\ DOMAIN confidence = 1 .. n /\ IsFiniteSet(1 .. n)
  <2>1. n \in Nat \ {0} /\ DOMAIN confidence = 1 .. n
    BY <1>1, <1>2, ManifestAssumption
  <2>2. 1 \in Int /\ n \in Int
    BY <2>1
  <2> QED
    BY <2>1, <2>2, FS_Interval
<1>5. Cardinality(seen) \in Nat
  BY <1>4, FS_Subset, FS_CardinalityType
<1>6. SumFunction(confidence) \in Int
  <2>1. \A i \in DOMAIN confidence : confidence[i] \in Int
    BY <1>1
  <2> HIDE DEF n
  <2> QED
    BY <1>4, <2>1, SumIsInt DEF SumFunction
<1>7. pose[1] \in Int /\ pose[2] \in Int /\ pose[3] \in Int
  <2>1. pose \in Seq(Int) /\ Len(pose) = 3
    BY <1>1, <1>2
  <2> HIDE DEF n, seen, points
  <2> QED
    BY <2>1
<1>8. points \in Seq([1 .. 2 -> Int])
  <2>1. ASSUME NEW i \in 1 .. n PROVE PointAt(coordinates, i) \in [1 .. 2 -> Int]
    <3>1. \A k \in 1 .. 2 : 2 * i - 2 + k \in 1 .. Len(coordinates)
      BY <1>2, <1>4, <2>1
    <3>2. \A k \in 1 .. 2 : coordinates[2 * i - 2 + k] \in Int
      BY <1>1, <3>1
    <3> QED
      BY <3>2 DEF PointAt
  <2>2. points \in [1 .. n -> [1 .. 2 -> Int]]
    BY <1>4, <2>1
  <2> HIDE DEF points, n
  <2> QED
    BY <1>4, <2>2
<1> HIDE DEF n, seen, points
<1> QED
  BY <1>3, <1>4, <1>5, <1>6, <1>7, <1>8 DEF MarksTyped, l

\* Nothing else touches the landmarks and what was made of them, or comes to
\* where they are judged.
LEMMA JudgedKept ==
  ASSUME RolesHeld, [Next]_vars, ~ReadLandmarks, ~PrepareEmbedding
  PROVE  /\ UNCHANGED <<deployment, pair, landmarks, quality>>
         /\ pc' \in Working /\ stage' >= 3 => pc \in Working /\ stage >= 3
         /\ pc' = "start" /\ stage' = 3 => pc = "start" /\ stage = 3
<1>1. CASE Load
  BY <1>1 DEF Load, Proceed, Return, Working, given, evidence
<1>2. CASE Build
  BY <1>2 DEF Build, Proceed, Return, RolesHeld, Working, given, evidence
<1>3. CASE PrepareDetector \/ PrepareLandmarks \/ PreparePassive
  BY <1>3 DEF PrepareDetector, PrepareLandmarks, PreparePassive, GoesOn, Proceed,
       Return, Working, given, evidence
<1>4. CASE Start \/ StartFails
  BY <1>4 DEF Start, StartFails, Proceed, Return, Working, given, evidence
<1>5. CASE Join
  BY <1>5 DEF Join, AfterRun, Proceed, Return, RolesHeld, Working, given, evidence
<1>6. CASE ReadFaces
  BY <1>6 DEF ReadFaces, Proceed, Return, Working, given
<1>7. CASE ReadEmbedding \/ ReadScores \/ Decide
  BY <1>7 DEF ReadEmbedding, ReadScores, Decide, Proceed, Return, Working, given,
       evidence
<1>8. CASE Watchdog \/ Expire \/ GraphEnds \/ Cancel
  BY <1>8 DEF Watchdog, WatchdogFires, WatchdogWakes, Expire, GraphEnds, Running,
       Cancel, Working, given, evidence
<1>9. CASE UNCHANGED vars
  BY <1>9 DEF vars, given, evidence
<1> QED
  BY <1>1, <1>2, <1>3, <1>4, <1>5, <1>6, <1>7, <1>8, <1>9 DEF Next, Work

LEMMA JudgedNext == ASSUME SoundInv, JudgedInv, [Next]_vars PROVE JudgedInv'
<1>1. CASE ReadLandmarks
  <2>1. /\ pc = "read" /\ stage = 2
        /\ \/ /\ ReadsLandmarks(Model(2), outputs[1])
              /\ landmarks' = FacialLandmarks(Model(2), outputs[1],
                                              SquareOf(Model(2).crop, face))
              /\ pc' = "prepare"
           \/ pc' = "done"
    BY <1>1 DEF ReadLandmarks, Proceed, Return
  <2>2. Shaped(Model(2), outputs[1])
    BY <2>1 DEF SoundInv, OutputsHeld, Working, Ran, RanAt
  <2>3. pc' = "prepare" => MarksTyped(landmarks')
    BY <2>1, <2>2, MarksAreTyped
  <2> QED
    BY <2>1, <2>3 DEF JudgedInv, MarksHeld, AlignedHeld, QualityHeld, Working,
         MarksTyped
<1>2. CASE PrepareEmbedding
  <2>1. /\ pc = "prepare" /\ stage = 3 /\ stage' = 3
        /\ UNCHANGED <<deployment, pair, landmarks>>
        /\ \/ pc' = "done"
           \/ /\ pc' = "start"
              /\ quality' = Assessed(Frames.visible, GeometryOf(landmarks),
                                     Config.quality)
              /\ AlignmentRefusal(Model(3), Frames.visible, landmarks) = "None"
    BY <1>2 DEF PrepareEmbedding, GoesOn, Proceed, Return, given
  <2>2. MarksTyped(landmarks)
    BY <2>1 DEF JudgedInv, MarksHeld, Working
  <2>3. MarksHeld'
    BY <2>1, <2>2 DEF MarksHeld, MarksTyped
  <2> QED
    BY <2>1, <2>3 DEF JudgedInv, AlignedHeld, QualityHeld, Model, Config, Frames
<1>3. CASE ~ReadLandmarks /\ ~PrepareEmbedding
  <2>1. /\ UNCHANGED <<deployment, pair, landmarks, quality>>
        /\ pc' \in Working /\ stage' >= 3 => pc \in Working /\ stage >= 3
        /\ pc' = "start" /\ stage' = 3 => pc = "start" /\ stage = 3
    BY <1>3, JudgedKept DEF SoundInv
  <2>2. MarksHeld'
    BY <2>1 DEF JudgedInv, MarksHeld, MarksTyped, Working
  <2>3. AlignedHeld' /\ QualityHeld'
    BY <2>1 DEF JudgedInv, AlignedHeld, QualityHeld, Model, Config, Frames
  <2> QED
    BY <2>2, <2>3 DEF JudgedInv
<1> QED
  BY <1>1, <1>2, <1>3

LEMMA JudgedCorrect == Spec => [](SoundInv /\ JudgedInv)
<1>1. Init => JudgedInv
  BY JudgedInit
<1>2. SoundInv /\ JudgedInv /\ [Next]_vars => JudgedInv'
  BY JudgedNext
<1> QED
  BY SoundCorrect, <1>1, <1>2, PTL DEF Spec

\* The weights and the headroom of a valid calibration.
LEMMA WeightsAreValid ==
  ASSUME NEW q, ValidQuality(q)
  PROVE  Weighed(q.weights) /\ q.headroom \in 0 .. One
<1>1. ValidWeights(q.weights) /\ Unit(q.headroom)
  BY DEF ValidQuality
<1>2. ASSUME NEW w, ValidWeights(w) PROVE Weighed(w)
  <2> DEFINE most == 10000
  <2>1. most \in Nat /\ \A c \in Components : w[c] \in 1 .. most
    BY <1>2 DEF ValidWeights
  <2> HIDE DEF most
  <2> QED
    BY <2>1, SMTT(30) DEF Weighed
<1> QED
  BY <1>1, <1>2 DEF Unit

LEMMA ScoresAre ==
  ASSUME NEW x, NEW g, NEW q
  PROVE  DOMAIN Scores(x, g, q) = Components
BY DEF Scores

\* The geometry of typed landmarks in a region of whole numbers.
LEMMA GeometryIsWhole ==
  ASSUME NEW l, MarksTyped(l), l.region[1] \in 0 .. Fine, l.region[2] \in 0 .. Fine,
         l.region[3] \in 0 .. Fine, l.region[4] \in 0 .. Fine
  PROVE  WholeGeometry(GeometryOf(l))
<1> DEFINE g == GeometryOf(l)
           r == l.region
<1>1. r[1] \in Int /\ r[2] \in Int /\ r[3] \in Int /\ r[4] \in Int
  BY FineIs
<1>2. /\ l.count \in Nat \ {0} /\ l.visible * One \in Int /\ l.confidence \in Int
      /\ l.yaw \in Int /\ l.pitch \in Int /\ l.roll \in Int
  <2>1. /\ l.count \in Nat \ {0} /\ l.visible \in Nat /\ l.confidence \in Int
        /\ l.yaw \in Int /\ l.pitch \in Int /\ l.roll \in Int
    BY DEF MarksTyped
  <2>2. l.visible * One \in Int
    BY <2>1, ManifestAssumption
  <2> QED
    BY <2>1, <2>2
<1>3. (l.visible * One) \div l.count \in Int /\ l.confidence \div l.count \in Int
  <2> DEFINE a == l.visible * One
             b == l.confidence
             d == l.count
  <2>1. a \in Int /\ b \in Int /\ d \in Nat \ {0}
    BY <1>2
  <2> HIDE DEF a, b, d
  <2>2. a \div d \in Int /\ b \div d \in Int
    BY <2>1, DivBounds
  <2> QED
    BY <2>2 DEF a, b, d
<1>4. /\ g.twiceX = r[1] + r[3] /\ g.twiceY = r[2] + r[4]
      /\ g.width = r[3] - r[1] /\ g.height = r[4] - r[2]
      /\ g.yaw = l.yaw /\ g.pitch = l.pitch /\ g.roll = l.roll
      /\ g.visible = (l.visible * One) \div l.count
      /\ g.confidence = l.confidence \div l.count
  BY DEF GeometryOf
<1> HIDE DEF g, r
<1>5. /\ g.twiceX \in Int /\ g.twiceY \in Int /\ g.width \in Int /\ g.height \in Int
  BY <1>1, <1>4
<1> QED
  BY <1>2, <1>3, <1>4, <1>5 DEF WholeGeometry, g

\* What the quality check accepts of a frame of the pair is a whole region of
\* it, and its luma.
LEMMA RegionAccepted ==
  ASSUME NEW image, QualityView(image) => HasPixels(image),
         NEW l, l.region[1] \in 0 .. Fine, l.region[2] \in 0 .. Fine,
         l.region[3] \in 0 .. Fine, l.region[4] \in 0 .. Fine,
         NEW q, QualityRefusal(image, GeometryOf(l), q) = "None"
  PROVE  LET r == PixelRegion(image, GeometryOf(l))
         IN  WholeRegion(r) /\ LumaIn(image.pixels, r)
<1> DEFINE r == PixelRegion(image, GeometryOf(l))
<1>1. /\ QualityView(image) /\ ValidQuality(q)
      /\ ~ (r.x0 >= r.x1 \/ r.y0 >= r.y1)
      /\ ~ (RegionWidth(r) < q.minWidth \/ RegionHeight(r) < q.minHeight)
  BY DEF QualityRefusal
<1>2. image.width \in Nat \ {0} /\ image.height \in Nat \ {0}
  BY AssessedPicture DEF Picture
<1>3. /\ r.x0 \in 0 .. image.width /\ r.x1 \in 0 .. image.width
      /\ r.y0 \in 0 .. image.height /\ r.y1 \in 0 .. image.height
  BY <1>2, RegionWithin
<1>4. q.minWidth \in 3 .. MaxSide /\ q.minHeight \in 3 .. MaxSide /\ MaxSide \in Nat
  BY <1>1, QualityAssumption DEF ValidQuality
<1>5. ASSUME NEW p \in PixelsOf(r) PROVE image.pixels[p] \in Luma
  <2>1. p[1] \in 0 .. image.width - 1 /\ p[2] \in 0 .. image.height - 1
    BY <1>2, PixelsInside
  <2>2. p \in (r.x0 .. r.x1 - 1) \X (r.y0 .. r.y1 - 1)
    BY DEF PixelsOf
  <2> HIDE DEF r
  <2>3. p \in (0 .. image.width - 1) \X (0 .. image.height - 1)
    BY <2>1, <2>2
  <2> QED
    BY <1>1, <2>3 DEF HasPixels
<1> HIDE DEF r
<1>6. WholeRegion(r)
  BY <1>1, <1>2, <1>3, <1>4 DEF WholeRegion, RegionWidth, RegionHeight
<1> QED
  BY <1>5, <1>6 DEF LumaIn, r

\* One component made better is a better set of components.
LEMMA BetterIsScored ==
  ASSUME NEW s, DOMAIN s = Components, Scored(s), NEW c \in Components
  PROVE  LET t == [s EXCEPT ![c] = Smaller(@ + 1, One)]
         IN  Scored(t) /\ \A d \in Components : s[d] <= t[d]
<1> DEFINE t == [s EXCEPT ![c] = Smaller(@ + 1, One)]
<1>1. \A d \in Components : t[d] = IF d = c THEN Smaller(s[d] + 1, One) ELSE s[d]
  OBVIOUS
<1>2. One \in Nat /\ \A d \in Components : s[d] \in 0 .. One
  BY ManifestAssumption DEF Scored
<1> HIDE DEF t
<1>3. \A d \in Components : t[d] \in 0 .. One /\ s[d] <= t[d]
  BY <1>1, <1>2 DEF Smaller
<1> QED
  BY <1>3 DEF Scored, t

\* Whatever the calibration, the picture and the landmarks: a component of zero
\* is a quality of zero, the quality lies between the weakest component and the
\* headroom above it, and a better component never lowers it
\* (conservative_aggregate).
THEOREM QualityCorrect == Spec => []QualityIsConservative
<1>1. ASSUME SoundInv, JudgedInv, pc = "start", stage = 3
      PROVE  QualityIsConservative
  <2> DEFINE g == GeometryOf(landmarks)
             q == Config.quality
             image == Frames.visible
             s == Scores(Measured(image, g, q), g, q)
  <2>1. /\ deployment \in DOMAIN Deployments /\ pair \in DOMAIN Pairs
        /\ QualityRefusal(image, g, q) = "None"
        /\ quality = Assessed(image, g, q)
        /\ MarksTyped(landmarks)
    BY <1>1 DEF SoundInv, JudgedInv, GivenHeld, InputHeld, QualityHeld, MarksHeld,
         Working
  <2>2. /\ landmarks.region[1] \in 0 .. Fine /\ landmarks.region[2] \in 0 .. Fine
        /\ landmarks.region[3] \in 0 .. Fine /\ landmarks.region[4] \in 0 .. Fine
    <3>1. /\ landmarks.region = SquareOf(Model(2).crop, face)
          /\ SquareInside(Model(2).crop, face)
      BY <1>1 DEF SoundInv, FaceHeld, RegionHeld, Working
    <3> QED
      BY <3>1, SquareIsWhole
  <2>3. QualityIsNumeric(q) /\ (QualityView(image) => HasPixels(image))
    BY <2>1, PerceptionAssumption DEF Config, Frames
  <2>4. ValidQuality(q)
    BY <2>1 DEF QualityRefusal
  <2>5. WholeRegion(PixelRegion(image, g)) /\ LumaIn(image.pixels, PixelRegion(image, g))
    BY <2>1, <2>2, <2>3, RegionAccepted
  <2>6. WholeGeometry(g)
    BY <2>1, <2>2, GeometryIsWhole
  <2>7. WholeMeasures(Measured(image, g, q))
    <3>1. /\ q.low \in 1 .. 49 /\ q.high \in 51 .. 99
          /\ g.width \in Int /\ g.height \in Int
      BY <2>4, <2>6 DEF ValidQuality, WholeGeometry
    <3> QED
      BY <2>5, <3>1, MeasuresAreWhole
  <2>8. Scored(s)
    BY <2>3, <2>4, <2>6, <2>7, ScoresAreScored
  <2>9. DOMAIN s = Components
    BY ScoresAre
  <2>10. Weighed(q.weights) /\ q.headroom \in 0 .. One
    BY <2>4, WeightsAreValid
  <2>11. quality = Aggregate(s, q.weights, q.headroom)
    BY <2>1 DEF Assessed
  <2> HIDE DEF s, q, g, image
  <2>12. /\ quality.num = 0 <=> \E c \in Components : s[c] = 0
         /\ Weakest(s) * quality.den <= quality.num
         /\ quality.num <= Smaller(One, Weakest(s) + q.headroom) * quality.den
    BY <2>8, <2>10, <2>11, AggregateIsConservative
  <2>13. ASSUME NEW c \in Components
         PROVE  AtMostFraction(quality,
                  Aggregate([s EXCEPT ![c] = Smaller(@ + 1, One)], q.weights,
                            q.headroom))
    <3> DEFINE t == [s EXCEPT ![c] = Smaller(@ + 1, One)]
    <3>1. Scored(t) /\ \A d \in Components : s[d] <= t[d]
      BY <2>8, <2>9, BetterIsScored
    <3> HIDE DEF t
    <3>2. AtMostFraction(quality, Aggregate(t, q.weights, q.headroom))
      BY <2>8, <2>10, <2>11, <3>1, AggregateIsMonotonic
    <3> QED
      BY <3>2 DEF t
  <2> QED
    BY <2>12, <2>13 DEF QualityIsConservative, s, g, q, image
<1>2. SoundInv /\ JudgedInv => QualityIsConservative
  BY <1>1 DEF QualityIsConservative
<1> QED
  BY JudgedCorrect, <1>2, PTL

--------------------------------------------------------------------------------
(*******************************************************************************)
(* Alignment.  The error of a similarity is a quadratic in its cosine and      *)
(* sine, which is least at the fit.                                            *)
(*******************************************************************************)

\* One point for each of the points of an alignment, in whole numbers.
PointsTyped(points) ==
  /\ DOMAIN points = 1 .. AlignmentPoints
  /\ \A i \in 1 .. AlignmentPoints : points[i][1] \in Int /\ points[i][2] \in Int

LEMMA PlacesAre == IsFiniteSet(1 .. AlignmentPoints) /\ AlignmentPoints \in Nat \ {0}
<1>1. AlignmentPoints \in Nat \ {0}
  BY ManifestAssumption
<1>2. 1 \in Int /\ AlignmentPoints \in Int
  BY <1>1
<1> QED
  BY <1>1, <1>2, FS_Interval

\* The centre and the centred points are whole numbers.
LEMMA CentreIs ==
  ASSUME NEW points, PointsTyped(points)
  PROVE  Centre(points)[1] \in Int /\ Centre(points)[2] \in Int
<1> DEFINE I == 1 .. AlignmentPoints
           f == [i \in I |-> points[i][1]]
           g == [i \in I |-> points[i][2]]
<1>1. IsFiniteSet(I)
  BY PlacesAre
<1>2. Centre(points) = <<SumFunctionOnSet(f, I), SumFunctionOnSet(g, I)>>
  BY DEF Centre, PointsTyped, SumFunction
<1>3. \A i \in I : f[i] \in Int /\ g[i] \in Int
  BY DEF PointsTyped
<1> HIDE DEF I, f, g
<1>4. SumFunctionOnSet(f, I) \in Int /\ SumFunctionOnSet(g, I) \in Int
  BY <1>1, <1>3, SumIsInt
<1> QED
  BY <1>2, <1>4

LEMMA CentredIs ==
  ASSUME NEW points, PointsTyped(points) PROVE PointsTyped(Centred(points))
<1>1. /\ Centre(points)[1] \in Int /\ Centre(points)[2] \in Int
      /\ AlignmentPoints \in Nat
  BY CentreIs, PlacesAre
<1>2. DOMAIN Centred(points) = 1 .. AlignmentPoints
  BY DEF Centred, PointsTyped
<1>3. ASSUME NEW i \in 1 .. AlignmentPoints
      PROVE  Centred(points)[i][1] \in Int /\ Centred(points)[i][2] \in Int
  <2>1. /\ points[i][1] \in Int /\ points[i][2] \in Int
        /\ Centred(points)[i] =
             <<AlignmentPoints * points[i][1] - Centre(points)[1],
               AlignmentPoints * points[i][2] - Centre(points)[2]>>
    BY DEF Centred, PointsTyped
  <2> QED
    BY <1>1, <2>1
<1> QED
  BY <1>2, <1>3 DEF PointsTyped

\* A square is nowhere negative.
LEMMA SquareIs == ASSUME NEW x \in Int PROVE x * x \in Int /\ 0 <= x * x
<1>1. CASE 0 <= x
  <2>1. 0 * x <= x * x
    BY <1>1, Times
  <2> QED
    BY <2>1
<1>2. CASE x < 0
  <2>1. -x \in Nat
    BY <1>2
  <2>2. 0 * (-x) <= (-x) * (-x)
    BY <2>1, Times
  <2>3. (-x) * (-x) = x * x
    OBVIOUS
  <2> QED
    BY <2>1, <2>2, <2>3
<1> QED
  BY <1>1, <1>2

\* The squared distance of one point after the similarity from its target.
LEMMA PointError ==
  ASSUME NEW p \in Int, NEW q \in Int, NEW u \in Int, NEW v \in Int,
         NEW c \in Int, NEW s \in Int, NEW e \in Int
  PROVE  LET x == c * p - s * q - e * u
             y == s * p + c * q - e * v
         IN  x * x + y * y
               = 1 * ((c * c + s * s) * (p * p + q * q) + (e * e) * (u * u + v * v))
                 + (-2 * e) * (c * (p * u + q * v) + s * (p * v - q * u))
OBVIOUS

\* A rotation undone, on either coordinate.
LEMMA Rotated ==
  ASSUME NEW c \in Int, NEW s \in Int, NEW a \in Int, NEW b \in Int
  PROVE  /\ c * (c * a + s * b) - s * (c * b - s * a) = (c * c + s * s) * a
         /\ s * (c * a + s * b) + c * (c * b - s * a) = (c * c + s * s) * b
OBVIOUS

\* The sums that Fit is made of.
Spread(p, I) == SumFunctionOnSet([i \in I |-> p[i][1] * p[i][1] + p[i][2] * p[i][2]], I)
Along(p, u, I) ==
  SumFunctionOnSet([i \in I |-> p[i][1] * u[i][1] + p[i][2] * u[i][2]], I)
Across(p, u, I) ==
  SumFunctionOnSet([i \in I |-> p[i][1] * u[i][2] - p[i][2] * u[i][1]], I)

LEMMA FitIs ==
  ASSUME NEW points, PointsTyped(points), NEW reference, PointsTyped(reference)
  PROVE  LET I == 1 .. AlignmentPoints
             p == Centred(points)
             u == Centred(reference)
             fit == Fit(points, reference)
         IN  /\ fit.cos = Along(p, u, I) /\ fit.sin = Across(p, u, I)
             /\ fit.den = Spread(p, I)
<1>1. DOMAIN Centred(points) = 1 .. AlignmentPoints
  BY CentredIs DEF PointsTyped
<1> QED
  BY <1>1 DEF Fit, SumFunction, Along, Across, Spread

\* The sums are whole numbers, and a sum of squares is not negative.
LEMMA SpreadIsNat ==
  ASSUME NEW p, PointsTyped(p) PROVE Spread(p, 1 .. AlignmentPoints) \in Nat
<1> DEFINE I == 1 .. AlignmentPoints
           f == [i \in I |-> p[i][1] * p[i][1] + p[i][2] * p[i][2]]
           none == [i \in I |-> 0 * f[i]]
<1>1. IsFiniteSet(I) /\ 0 \in Int
  BY PlacesAre
<1>2. \A i \in I : f[i] \in Int /\ 0 <= f[i]
  <2> SUFFICES ASSUME NEW i \in I PROVE f[i] \in Int /\ 0 <= f[i]
    OBVIOUS
  <2>1. p[i][1] \in Int /\ p[i][2] \in Int
    BY DEF PointsTyped
  <2>2. /\ p[i][1] * p[i][1] \in Int /\ 0 <= p[i][1] * p[i][1]
        /\ p[i][2] * p[i][2] \in Int /\ 0 <= p[i][2] * p[i][2]
    BY <2>1, SquareIs
  <2> QED
    BY <2>2
<1>3. Spread(p, I) = SumFunctionOnSet(f, I)
  BY DEF Spread
<1> HIDE DEF I, f
<1>4. \A i \in I : f[i] \in Int /\ none[i] = 0 * f[i]
  BY <1>2
<1>5. \A i \in I : none[i] \in Int /\ f[i] \in Int /\ none[i] <= f[i]
  BY <1>2
<1> HIDE DEF none
<1>6. SumFunctionOnSet(f, I) \in Int
  BY <1>1, <1>2, SumIsInt
<1>7. SumFunctionOnSet(none, I) = 0 * SumFunctionOnSet(f, I)
  BY <1>1, <1>4, SumOfMultiples
<1>8. SumFunctionOnSet(none, I) <= SumFunctionOnSet(f, I)
  BY <1>1, <1>5, SumIsMonotonic
<1> QED
  BY <1>3, <1>6, <1>7, <1>8 DEF I

LEMMA AlongIsInt ==
  ASSUME NEW p, PointsTyped(p), NEW u, PointsTyped(u)
  PROVE  /\ Along(p, u, 1 .. AlignmentPoints) \in Int
         /\ Across(p, u, 1 .. AlignmentPoints) \in Int
<1> DEFINE I == 1 .. AlignmentPoints
           f == [i \in I |-> p[i][1] * u[i][1] + p[i][2] * u[i][2]]
           g == [i \in I |-> p[i][1] * u[i][2] - p[i][2] * u[i][1]]
<1>1. IsFiniteSet(I)
  BY PlacesAre
<1>2. \A i \in I : f[i] \in Int /\ g[i] \in Int
  <2> SUFFICES ASSUME NEW i \in I PROVE f[i] \in Int /\ g[i] \in Int
    OBVIOUS
  <2>1. /\ p[i][1] \in Int /\ p[i][2] \in Int
        /\ u[i][1] \in Int /\ u[i][2] \in Int
    BY DEF PointsTyped
  <2> QED
    BY <2>1
<1>3. Along(p, u, I) = SumFunctionOnSet(f, I) /\ Across(p, u, I) = SumFunctionOnSet(g, I)
  BY DEF Along, Across
<1> HIDE DEF I, f, g
<1>4. SumFunctionOnSet(f, I) \in Int /\ SumFunctionOnSet(g, I) \in Int
  BY <1>1, <1>2, SumIsInt
<1> QED
  BY <1>3, <1>4 DEF I

\* How far a similarity leaves the points from their targets, by those sums.
LEMMA ErrorIs ==
  ASSUME NEW p, PointsTyped(p), NEW u, PointsTyped(u),
         NEW c \in Int, NEW s \in Int, NEW e \in Int
  PROVE  LET I == 1 .. AlignmentPoints
         IN  SquaredError(c, s, e, p, u)
               = ((c * c + s * s) * Spread(p, I) + (e * e) * Spread(u, I))
                 + (-2 * e) * (c * Along(p, u, I) + s * Across(p, u, I))
<1> DEFINE I == 1 .. AlignmentPoints
           f1 == [i \in I |-> p[i][1] * p[i][1] + p[i][2] * p[i][2]]
           f2 == [i \in I |-> u[i][1] * u[i][1] + u[i][2] * u[i][2]]
           f3 == [i \in I |-> p[i][1] * u[i][1] + p[i][2] * u[i][2]]
           f4 == [i \in I |-> p[i][1] * u[i][2] - p[i][2] * u[i][1]]
           left(i) == c * p[i][1] - s * p[i][2] - e * u[i][1]
           up(i) == s * p[i][1] + c * p[i][2] - e * u[i][2]
           h == [i \in I |-> left(i) * left(i) + up(i) * up(i)]
           r == c * c + s * s
           t == e * e
           z == -2 * e
           g1 == [i \in I |-> r * f1[i] + t * f2[i]]
           g2 == [i \in I |-> c * f3[i] + s * f4[i]]
<1>1. IsFiniteSet(I) /\ r \in Int /\ t \in Int /\ z \in Int /\ 1 \in Int
  BY PlacesAre
<1>2. SquaredError(c, s, e, p, u) = SumFunctionOnSet(h, I)
  BY DEF SquaredError, SumFunction, PointsTyped
<1>3. /\ Spread(p, I) = SumFunctionOnSet(f1, I)
      /\ Spread(u, I) = SumFunctionOnSet(f2, I)
      /\ Along(p, u, I) = SumFunctionOnSet(f3, I)
      /\ Across(p, u, I) = SumFunctionOnSet(f4, I)
  BY DEF Spread, Along, Across
<1>4. ASSUME NEW i \in I
      PROVE  /\ f1[i] \in Int /\ f2[i] \in Int /\ f3[i] \in Int /\ f4[i] \in Int
             /\ h[i] = 1 * (r * f1[i] + t * f2[i]) + z * (c * f3[i] + s * f4[i])
  <2>1. /\ p[i][1] \in Int /\ p[i][2] \in Int
        /\ u[i][1] \in Int /\ u[i][2] \in Int
    BY DEF PointsTyped
  <2>2. /\ f1[i] = p[i][1] * p[i][1] + p[i][2] * p[i][2]
        /\ f2[i] = u[i][1] * u[i][1] + u[i][2] * u[i][2]
        /\ f3[i] = p[i][1] * u[i][1] + p[i][2] * u[i][2]
        /\ f4[i] = p[i][1] * u[i][2] - p[i][2] * u[i][1]
        /\ h[i] = left(i) * left(i) + up(i) * up(i)
    OBVIOUS
  <2>3. left(i) * left(i) + up(i) * up(i)
          = 1 * (r * (p[i][1] * p[i][1] + p[i][2] * p[i][2])
                 + t * (u[i][1] * u[i][1] + u[i][2] * u[i][2]))
            + z * (c * (p[i][1] * u[i][1] + p[i][2] * u[i][2])
                   + s * (p[i][1] * u[i][2] - p[i][2] * u[i][1]))
    BY <2>1, PointError
  <2>4. /\ p[i][1] * p[i][1] + p[i][2] * p[i][2] \in Int
        /\ u[i][1] * u[i][1] + u[i][2] * u[i][2] \in Int
        /\ p[i][1] * u[i][1] + p[i][2] * u[i][2] \in Int
        /\ p[i][1] * u[i][2] - p[i][2] * u[i][1] \in Int
    BY <2>1
  <2> HIDE DEF f1, f2, f3, f4, h, r, t, z, left, up
  <2> QED
    BY <2>2, <2>3, <2>4
<1> HIDE DEF I, f1, f2, f3, f4, h, r, t, z, left, up
<1>5. \A i \in I : /\ g1[i] = r * f1[i] + t * f2[i] /\ g1[i] \in Int
                   /\ g2[i] = c * f3[i] + s * f4[i] /\ g2[i] \in Int
                   /\ h[i] = 1 * g1[i] + z * g2[i]
  BY <1>1, <1>4
<1> HIDE DEF g1, g2
<1>6. SumFunctionOnSet(g1, I)
        = r * SumFunctionOnSet(f1, I) + t * SumFunctionOnSet(f2, I)
  BY <1>1, <1>4, <1>5, SumIsLinear
<1>7. SumFunctionOnSet(g2, I)
        = c * SumFunctionOnSet(f3, I) + s * SumFunctionOnSet(f4, I)
  BY <1>1, <1>4, <1>5, SumIsLinear
<1>8. SumFunctionOnSet(h, I)
        = 1 * SumFunctionOnSet(g1, I) + z * SumFunctionOnSet(g2, I)
  BY <1>1, <1>5, SumIsLinear
<1>9. SumFunctionOnSet(g1, I) \in Int
  BY <1>1, <1>5, SumIsInt
<1>10. SumFunctionOnSet(h, I)
         = (r * SumFunctionOnSet(f1, I) + t * SumFunctionOnSet(f2, I))
           + z * (c * SumFunctionOnSet(f3, I) + s * SumFunctionOnSet(f4, I))
  BY <1>6, <1>7, <1>8, <1>9
<1> QED
  BY <1>2, <1>3, <1>10 DEF r, t, z, I

\* No similarity leaves the points closer to their targets than the fit.
LEMMA FitIsBest ==
  ASSUME NEW points, PointsTyped(points), NEW reference, PointsTyped(reference),
         NEW da \in Int, NEW db \in Int
  PROVE  LET fit == Fit(points, reference)
             error(a, b) == SquaredError(fit.cos + a, fit.sin + b, fit.den,
                                         Centred(points), Centred(reference))
         IN  error(0, 0) <= error(da, db)
<1> DEFINE I == 1 .. AlignmentPoints
           p == Centred(points)
           u == Centred(reference)
           fit == Fit(points, reference)
           c == Along(p, u, I)
           s == Across(p, u, I)
           e == Spread(p, I)
           w == Spread(u, I)
<1>1. PointsTyped(p) /\ PointsTyped(u)
  BY CentredIs
<1>2. c \in Int /\ s \in Int /\ e \in Nat /\ w \in Int
  BY <1>1, AlongIsInt, SpreadIsNat
<1>3. fit.cos = c /\ fit.sin = s /\ fit.den = e
  BY FitIs
<1>4. ASSUME NEW a \in Int, NEW b \in Int
      PROVE  SquaredError(c + a, s + b, e, p, u)
               = (((c + a) * (c + a) + (s + b) * (s + b)) * e + (e * e) * w)
                 + (-2 * e) * ((c + a) * c + (s + b) * s)
  <2>1. c + a \in Int /\ s + b \in Int
    BY <1>2
  <2> QED
    BY <1>1, <1>2, <2>1, ErrorIs
<1> HIDE DEF I, p, u, fit, c, s, e, w
<1>5. ASSUME NEW a \in Int, NEW b \in Int
      PROVE  (((c + a) * (c + a) + (s + b) * (s + b)) * e + (e * e) * w)
                 + (-2 * e) * ((c + a) * c + (s + b) * s)
               = ((e * e) * w - (c * c + s * s) * e) + (a * a + b * b) * e
  BY <1>2
<1> DEFINE base == (e * e) * w - (c * c + s * s) * e
<1>6. \A a, b \in Int :
        SquaredError(c + a, s + b, e, p, u) = base + (a * a + b * b) * e
  BY <1>2, <1>4, <1>5
<1>7. /\ SquaredError(c + 0, s + 0, e, p, u) = base + (0 * 0 + 0 * 0) * e
      /\ SquaredError(c + da, s + db, e, p, u) = base + (da * da + db * db) * e
  <2> HIDE DEF base
  <2>1. 0 \in Int
    OBVIOUS
  <2> QED
    BY <1>6, <2>1, Zenon
<1>8. 0 <= (da * da + db * db) * e /\ (da * da + db * db) * e \in Int
  <2>1. da * da + db * db \in Nat
    BY SquareIs
  <2>2. 0 * e <= (da * da + db * db) * e
    BY <1>2, <2>1, Times
  <2> QED
    BY <1>2, <2>1, <2>2
<1>9. base \in Int
  BY <1>2
<1> HIDE DEF base
<1>10. SquaredError(c + 0, s + 0, e, p, u) <= SquaredError(c + da, s + db, e, p, u)
  BY <1>2, <1>7, <1>8, <1>9
<1> QED
  BY <1>3, <1>10 DEF fit, p, u

LEMMA FitIsWhole ==
  ASSUME NEW points, PointsTyped(points), NEW reference, PointsTyped(reference)
  PROVE  LET fit == Fit(points, reference)
         IN  fit.cos \in Int /\ fit.sin \in Int /\ fit.den \in Int
<1> DEFINE I == 1 .. AlignmentPoints
           p == Centred(points)
           u == Centred(reference)
           fit == Fit(points, reference)
<1>1. PointsTyped(p) /\ PointsTyped(u)
  BY CentredIs
<1>2. /\ fit.cos = Along(p, u, I) /\ fit.sin = Across(p, u, I)
      /\ fit.den = Spread(p, I)
  BY FitIs
<1> HIDE DEF p, u, fit
<1>3. Along(p, u, I) \in Int /\ Across(p, u, I) \in Int /\ Spread(p, I) \in Int
  BY <1>1, AlongIsInt, SpreadIsNat
<1> QED
  BY <1>2, <1>3 DEF fit

\* Every pixel is sampled where the fit takes it: the inverse undoes the fit.
LEMMA PixelLands ==
  ASSUME NEW points, PointsTyped(points), NEW reference, PointsTyped(reference),
         NEW fit, fit.cos \in Int, fit.sin \in Int, fit.den \in Int,
         NEW input, input.width \in Nat \ {0}, input.height \in Nat \ {0},
         NEW x \in Int, NEW y \in Int
  PROVE  LandsOn(fit, points, reference, input, x, y)
<1> DEFINE n == AlignmentPoints
           w == input.width
           h == input.height
           c == fit.cos
           s == fit.sin
           d == fit.den
           p1 == Centre(points)[1]
           p2 == Centre(points)[2]
           r1 == Centre(reference)[1]
           r2 == Centre(reference)[2]
           tx == (2 * x + 1) * One * n
           ty == (2 * y + 1) * One * n
           dx == tx - 2 * w * r1
           dy == ty - 2 * h * r2
           det == c * c + s * s
           q == 2 * w * h * det
           ux == c * dx * h + s * dy * w
           uy == c * dy * w - s * dx * h
           at == Inverse2(fit, points, reference, input, x, y)
<1>1. /\ n \in Nat \ {0} /\ w \in Int /\ h \in Int /\ c \in Int /\ s \in Int
      /\ d \in Int /\ p1 \in Int /\ p2 \in Int /\ r1 \in Int /\ r2 \in Int
  BY PlacesAre, CentreIs
<1>2. tx \in Int /\ ty \in Int
  BY <1>1, ManifestAssumption
<1>3. /\ at.x = p1 * ((q * n) \div n) + d * ux
      /\ at.y = p2 * ((q * n) \div n) + d * uy
      /\ at.den = q * n
  BY DEF Inverse2
<1>4. LandsOn(fit, points, reference, input, x, y) <=>
        LET vx == n * at.x - at.den * p1
            vy == n * at.y - at.den * p2
            unit == d * at.den
        IN  /\ 2 * w * (c * vx - s * vy + unit * r1) = tx * unit
            /\ 2 * h * (s * vx + c * vy + unit * r2) = ty * unit
  BY DEF LandsOn
<1> HIDE DEF n, w, h, c, s, d, p1, p2, r1, r2, tx, ty, at
<1>5. dx \in Int /\ dy \in Int /\ det \in Int /\ q \in Int
  BY <1>1, <1>2
<1>6. /\ tx = dx + 2 * w * r1 /\ ty = dy + 2 * h * r2
  BY <1>1, <1>2
<1> HIDE DEF dx, dy
<1>7. /\ c * ux - s * uy = det * (dx * h)
      /\ s * ux + c * uy = det * (dy * w)
      /\ ux \in Int /\ uy \in Int
  <2> DEFINE a == dx * h
             b == dy * w
  <2>1. a \in Int /\ b \in Int
    BY <1>1, <1>5
  <2>2. ux = c * a + s * b /\ uy = c * b - s * a
    BY <1>1, <1>5
  <2> HIDE DEF a, b, ux, uy
  <2>3. /\ c * (c * a + s * b) - s * (c * b - s * a) = (c * c + s * s) * a
        /\ s * (c * a + s * b) + c * (c * b - s * a) = (c * c + s * s) * b
    BY <1>1, <2>1, Rotated
  <2>4. c * a + s * b \in Int /\ c * b - s * a \in Int
    BY <1>1, <2>1
  <2> QED
    BY <2>2, <2>3, <2>4 DEF a, b
<1>8. 2 * w * (det * (dx * h)) = q * dx /\ 2 * h * (det * (dy * w)) = q * dy
  <2> HIDE DEF det
  <2> QED
    BY <1>1, <1>5
<1> HIDE DEF ux, uy, det, q
<1>9. (q * n) \div n = q
  <2>1. (n * q + 0) \div n = q
    <3>1. 0 \in 0 .. n - 1
      BY <1>1
    <3> QED
      BY <1>1, <1>5, <3>1, DivIs
  <2>2. n * q + 0 = q * n
    BY <1>1, <1>5
  <2> QED
    BY <2>1, <2>2
<1>10. /\ n * at.x - at.den * p1 = (n * d) * ux
       /\ n * at.y - at.den * p2 = (n * d) * uy
  <2>1. /\ n * (p1 * q + d * ux) - (q * n) * p1 = (n * d) * ux
        /\ n * (p2 * q + d * uy) - (q * n) * p2 = (n * d) * uy
    BY <1>1, <1>5, <1>7
  <2> QED
    BY <1>3, <1>9, <2>1
<1> DEFINE k == n * d
           unit == d * (q * n)
<1>11. k \in Int /\ unit = k * q
  BY <1>1, <1>5
<1>12. /\ c * (k * ux) - s * (k * uy) = k * (det * (dx * h))
       /\ s * (k * ux) + c * (k * uy) = k * (det * (dy * w))
  <2>1. /\ c * (k * ux) - s * (k * uy) = k * (c * ux - s * uy)
        /\ s * (k * ux) + c * (k * uy) = k * (s * ux + c * uy)
    <3> HIDE DEF k
    <3> QED
      BY <1>1, <1>7, <1>11
  <2> HIDE DEF k
  <2> QED
    BY <1>7, <2>1
<1>13. /\ 2 * w * (k * (det * (dx * h)) + unit * r1) = tx * unit
       /\ 2 * h * (k * (det * (dy * w)) + unit * r2) = ty * unit
  <2> DEFINE a == det * (dx * h)
             b == det * (dy * w)
  <2>1. a \in Int /\ b \in Int
    BY <1>1, <1>5
  <2> HIDE DEF a, b, k, unit
  <2>2. 2 * w * a = q * dx /\ 2 * h * b = q * dy
    BY <1>8 DEF a, b
  <2>3. /\ 2 * w * (k * a + (k * q) * r1) = k * (2 * w * a) + (k * q) * (2 * w * r1)
        /\ 2 * h * (k * b + (k * q) * r2) = k * (2 * h * b) + (k * q) * (2 * h * r2)
    BY <1>1, <1>5, <1>11, <2>1
  <2>4. /\ k * (q * dx) + (k * q) * (2 * w * r1) = (dx + 2 * w * r1) * (k * q)
        /\ k * (q * dy) + (k * q) * (2 * h * r2) = (dy + 2 * h * r2) * (k * q)
    BY <1>1, <1>5, <1>11
  <2> QED
    BY <1>6, <1>11, <2>2, <2>3, <2>4 DEF a, b
<1>14. /\ n * at.x - at.den * p1 = k * ux /\ n * at.y - at.den * p2 = k * uy
       /\ d * at.den = unit
  BY <1>3, <1>10
<1> HIDE DEF k, unit
<1> QED
  BY <1>4, <1>12, <1>13, <1>14

\* The points a face is aligned by are numbers.
LEMMA AlignmentIsTyped ==
  ASSUME NEW m, m.role = "Embedding", Admitted(m), ManifestIsNamed(m),
         NEW image, NEW l, MarksTyped(l), AlignmentRefusal(m, image, l) = "None"
  PROVE  /\ PointsTyped(AlignmentLandmarks(m, l))
         /\ PointsTyped(m.alignment.reference)
<1> DEFINE a == m.alignment
           I == 1 .. AlignmentPoints
<1>1. a # Absent /\ ValidAlignment(a)
  BY DEF Admitted, AlignmentMatchesRole
<1>2. a.indices \in [I -> Nat] /\ DOMAIN a.reference = I
  BY <1>1 DEF ManifestIsNamed, AlignmentIsNamed
<1>3. \A i \in I : ~ (a.indices[i] >= Len(l.points))
  BY DEF AlignmentRefusal
<1>4. l.points \in Seq([1 .. 2 -> Int])
  BY DEF MarksTyped
<1>5. AlignmentLandmarks(m, l) = [i \in I |-> l.points[a.indices[i] + 1]]
  BY DEF AlignmentLandmarks
<1>6. \A i \in I : UnitPoint(a.reference[i])
  BY <1>1, <1>2 DEF ValidAlignment
<1> HIDE DEF a, I
<1>7. ASSUME NEW i \in I
      PROVE  /\ AlignmentLandmarks(m, l)[i][1] \in Int
             /\ AlignmentLandmarks(m, l)[i][2] \in Int
  <2>1. a.indices[i] \in Nat /\ Len(l.points) \in Nat
    BY <1>2, <1>4
  <2>2. a.indices[i] + 1 \in 1 .. Len(l.points)
    BY <1>3, <2>1
  <2>3. l.points[a.indices[i] + 1] \in [1 .. 2 -> Int]
    BY <1>4, <2>2
  <2> QED
    BY <1>5, <2>3
<1>8. ASSUME NEW i \in I
      PROVE  a.reference[i][1] \in Int /\ a.reference[i][2] \in Int
  BY <1>6, ManifestAssumption DEF UnitPoint, Unit
<1>9. DOMAIN AlignmentLandmarks(m, l) = I
  BY <1>5, SMTT(30)
<1> QED
  BY <1>2, <1>7, <1>8, <1>9 DEF PointsTyped, a, I

\* For any landmarks and reference points: the similarity a face is aligned with
\* leaves the landmarks no further from the reference points than its neighbours
\* do, and every pixel of the model's picture is sampled where the similarity
\* takes it (SimilarityTransform::fit, forward, inverse).
THEOREM AlignmentCorrect == Spec => []AlignedFaceFits
<1>1. ASSUME SoundInv, JudgedInv, pc = "start", stage = 3
      PROVE  AlignedFaceFits
  <2> DEFINE m == Model(3)
             points == AlignmentLandmarks(m, landmarks)
             reference == m.alignment.reference
             fit == Fit(points, reference)
  <2>1. /\ deployment \in DOMAIN Deployments /\ RolesMatch
        /\ Admitted(m) /\ MarksTyped(landmarks)
        /\ AlignmentRefusal(m, Frames.visible, landmarks) = "None"
    BY <1>1 DEF SoundInv, JudgedInv, GivenHeld, RolesHeld, ModelsHeld, AlignedHeld,
         MarksHeld, Working
  <2>2. m.role = "Embedding" /\ ManifestIsNamed(m)
    <3>1. 3 \in DOMAIN Order /\ Order[3] = "Embedding"
      BY DEF Order
    <3> QED
      BY <2>1, <3>1, PerceptionAssumption DEF RolesMatch, Model, Config
  <2>3. PointsTyped(points) /\ PointsTyped(reference)
    BY <2>1, <2>2, AlignmentIsTyped
  <2>4. m.input.width \in Nat \ {0} /\ m.input.height \in Nat \ {0}
    BY <2>1, <2>2, AdmittedInput
  <2> HIDE DEF points, reference, m
  <2>5. fit.cos \in Int /\ fit.sin \in Int /\ fit.den \in Int
    BY <2>3, FitIsWhole
  <2>6. ASSUME NEW da \in -1 .. 1, NEW db \in -1 .. 1
        PROVE  SquaredError(fit.cos + 0, fit.sin + 0, fit.den,
                            Centred(points), Centred(reference))
                 <= SquaredError(fit.cos + da, fit.sin + db, fit.den,
                                 Centred(points), Centred(reference))
    <3>1. da \in Int /\ db \in Int
      OBVIOUS
    <3> QED
      BY <2>3, <3>1, FitIsBest
  <2> HIDE DEF fit
  <2>7. ASSUME NEW x \in 0 .. m.input.width - 1, NEW y \in 0 .. m.input.height - 1
        PROVE  LandsOn(fit, points, reference, m.input, x, y)
    <3>1. x \in Int /\ y \in Int
      BY <2>4, SMTT(30)
    <3> QED
      BY <2>3, <2>4, <2>5, <3>1, PixelLands
  <2> QED
    BY <2>6, <2>7 DEF AlignedFaceFits, fit, points, reference, m
<1>2. SoundInv /\ JudgedInv => AlignedFaceFits
  BY <1>1 DEF AlignedFaceFits
<1> QED
  BY JudgedCorrect, <1>2, PTL

--------------------------------------------------------------------------------
(*******************************************************************************)
(* A bound on what becomes of one pair: every step takes something away.       *)
(*******************************************************************************)

\* What a call of run_named may still do before it is joined.
LeftOf(r) ==
  (IF r.overdue THEN 0 ELSE 1) + (IF r.watchdog = "waiting" THEN 1 ELSE 0)
    + (IF r.graph = "running" THEN 1 ELSE 0)

Left(place, at, r) ==
  CASE place = "done" -> 0
    [] place = "decide" -> 1
    [] place = "read" -> 10 * (9 - at) + 1
    [] place = "run" -> 10 * (9 - at) + 2 + LeftOf(r)
    [] place = "start" -> 10 * (9 - at) + 7
    [] place = "prepare" -> 10 * (9 - at) + 8
    [] place = "build" -> 90
    [] OTHER -> 100 - at

\* The steps that are left at most.
Measure == Left(pc, stage, run) + (IF cancelled THEN 0 ELSE 1)

PlacesHeld ==
  /\ pc \in Places /\ stage \in 1 .. 6 /\ cancelled \in BOOLEAN
  /\ pc = "build" => stage = 1
  /\ pc = "run" =>
       run \in [graph : {"running", "returned", "failed"},
                watchdog : {"waiting", "fired", "woken"}, overdue : BOOLEAN]

LEMMA PlacesInit == Init => PlacesHeld
<1> SUFFICES ASSUME Init PROVE PlacesHeld
  OBVIOUS
<1>1. pc = "load" /\ pc \in Places /\ stage \in 1 .. 6
  BY DEF Init, Places
<1>2. cancelled \in BOOLEAN
  BY DEF Init
<1> QED
  BY <1>1, <1>2 DEF PlacesHeld

\* One step: where it leads, and what it takes away.
\* One step: where it leads, and what it takes away.
LEMMA StepCounts ==
  ASSUME PlacesHeld, Next
  PROVE  PlacesHeld' /\ Measure' < Measure
<1>1. /\ pc \in Places /\ stage \in 1 .. 6 /\ cancelled \in BOOLEAN
      /\ pc = "build" => stage = 1
      /\ pc = "run" =>
           run \in [graph : {"running", "returned", "failed"},
                    watchdog : {"waiting", "fired", "woken"}, overdue : BOOLEAN]
  BY DEF PlacesHeld
<1>2. pc = "run" => LeftOf(run) \in 0 .. 3
  BY <1>1 DEF LeftOf
<1> DEFINE Kept == cancelled' = cancelled
           Gone == pc # "done" /\ pc' = "done" /\ stage' = stage
<1>3. ASSUME Kept, Gone PROVE PlacesHeld' /\ Measure' < Measure
  <2>1. Left(pc, stage, run) \in Nat \ {0} /\ Left(pc', stage', run') = 0
    BY <1>1, <1>2, <1>3 DEF Left, Places
  <2> QED
    BY <1>1, <1>3, <2>1 DEF PlacesHeld, Measure, Places
<1>4. CASE Load
  <2>1. /\ pc = "load" /\ Kept
        /\ \/ pc' = "done" /\ stage' = stage
           \/ pc' = "build" /\ stage' = 1
           \/ pc' = "load" /\ stage' = stage + 1 /\ stage # 6
    BY <1>4 DEF Load, Proceed, Return, Order
  <2> QED
    BY <1>1, <1>3, <2>1 DEF PlacesHeld, Measure, Left, Places
<1>5. CASE Build
  <2>1. /\ pc = "build" /\ Kept /\ stage' = stage
        /\ pc' = "done" \/ pc' = "prepare"
    BY <1>5 DEF Build, Proceed, Return
  <2> QED
    BY <1>1, <1>3, <2>1 DEF PlacesHeld, Measure, Left, Places
<1>6. CASE PrepareDetector \/ PrepareLandmarks \/ PrepareEmbedding \/ PreparePassive
  <2>1. /\ pc = "prepare" /\ Kept /\ stage' = stage
        /\ pc' = "done" \/ pc' = "start"
    BY <1>6 DEF PrepareDetector, PrepareLandmarks, PrepareEmbedding,
       PreparePassive, GoesOn, Proceed, Return
  <2> QED
    BY <1>1, <1>3, <2>1 DEF PlacesHeld, Measure, Left, Places
<1>7. CASE Start \/ StartFails
  <2>1. /\ pc = "start" /\ Kept /\ stage' = stage
        /\ \/ pc' = "done"
           \/ /\ pc' = "run"
              /\ run' = [graph |-> "running", watchdog |-> "waiting",
                         overdue |-> FALSE]
    BY <1>7 DEF Start, StartFails, Proceed, Return
  <2>2. pc' = "run" =>
          /\ LeftOf(run') = 3
          /\ run' \in [graph : {"running", "returned", "failed"},
                       watchdog : {"waiting", "fired", "woken"},
                       overdue : BOOLEAN]
    <3> DEFINE begun == [graph |-> "running", watchdog |-> "waiting",
                         overdue |-> FALSE]
    <3>1. LeftOf(begun) = 3
      BY DEF LeftOf
    <3>2. begun \in [graph : {"running", "returned", "failed"},
                      watchdog : {"waiting", "fired", "woken"},
                      overdue : BOOLEAN]
      OBVIOUS
    <3>3. pc' = "run" => run' = begun
      BY <2>1
    <3> QED
      BY <3>1, <3>2, <3>3, Zenon DEF LeftOf
  <2> QED
    BY <1>1, <1>3, <2>1, <2>2 DEF PlacesHeld, Measure, Left, Places
<1>8. CASE Watchdog \/ Expire \/ GraphEnds
  <2>1. /\ pc = "run" /\ pc' = pc /\ stage' = stage /\ Kept
        /\ \/ run.watchdog = "waiting" /\ run' = [run EXCEPT !.watchdog = "fired"]
           \/ run.watchdog = "waiting" /\ run' = [run EXCEPT !.watchdog = "woken"]
           \/ ~run.overdue /\ run' = [run EXCEPT !.overdue = TRUE]
           \/ /\ run.graph = "running"
              /\ \E how \in {"returned", "failed"} : run' = [run EXCEPT !.graph = how]
    BY <1>8 DEF Watchdog, WatchdogFires, WatchdogWakes, Expire, GraphEnds, Running
  <2>2. LeftOf(run') < LeftOf(run) /\ LeftOf(run') \in Nat
    BY <1>1, <2>1 DEF LeftOf
  <2>3. run' \in [graph : {"running", "returned", "failed"},
                  watchdog : {"waiting", "fired", "woken"}, overdue : BOOLEAN]
    BY <1>1, <2>1
  <2> QED
    BY <1>1, <1>2, <2>1, <2>2, <2>3 DEF PlacesHeld, Measure, Left, Places
<1>9. CASE Join
  <2>1. /\ pc = "run" /\ Kept
        /\ \/ pc' = "done" /\ stage' = stage
           \/ pc' = "start" /\ stage \in {4, 5} /\ stage' = stage + 1
           \/ pc' = "read" /\ stage' = stage
    BY <1>1, <1>9 DEF Join, Proceed, Return, AfterRun
  <2> QED
    BY <1>1, <1>2, <1>3, <2>1 DEF PlacesHeld, Measure, Left, Places
<1>10. CASE ReadFaces \/ ReadLandmarks \/ ReadEmbedding \/ ReadScores
  <2>1. /\ pc = "read" /\ Kept
        /\ \/ pc' = "done" /\ stage' = stage
           \/ pc' = "prepare" /\ stage \in 1 .. 3 /\ stage' = stage + 1
           \/ pc' = "decide" /\ stage' = stage
    BY <1>10 DEF ReadFaces, ReadLandmarks, ReadEmbedding, ReadScores, Proceed,
       Return
  <2> QED
    BY <1>1, <1>3, <2>1 DEF PlacesHeld, Measure, Left, Places
<1>11. CASE Decide
  <2>1. pc = "decide" /\ Kept /\ Gone
    BY <1>11 DEF Decide, Return
  <2> QED
    BY <1>3, <2>1
<1>12. CASE Cancel
  <2>1. /\ ~cancelled /\ cancelled' /\ UNCHANGED <<pc, stage, run>>
    BY <1>12 DEF Cancel
  <2>2. Left(pc, stage, run) \in Nat
    BY <1>1, <1>2 DEF Left
  <2>3. Left(pc', stage', run') = Left(pc, stage, run)
    BY <2>1
  <2> QED
    BY <1>1, <1>12, <2>1, <2>2, <2>3 DEF PlacesHeld, Measure, Cancel
<1> QED
  BY <1>4, <1>5, <1>6, <1>7, <1>8, <1>9, <1>10, <1>11, <1>12 DEF Next, Work

\* Whatever is installed, delivered and returned by the graphs: every step takes
\* one of at most a hundred away, so that no pair goes round, and PairEnds only
\* needs that the threads of a pair go on (process_pair, run_named).
THEOREM PairIsBounded ==
  Spec => [](Measure \in 0 .. 100) /\ [][Measure' < Measure]_vars
<1>1. PlacesHeld /\ [Next]_vars => PlacesHeld'
  <2> SUFFICES ASSUME PlacesHeld, UNCHANGED vars PROVE PlacesHeld'
    BY StepCounts
  <2> QED
    BY DEF PlacesHeld, vars
<1>2. PlacesHeld => Measure \in 0 .. 100
  <2> SUFFICES ASSUME PlacesHeld PROVE Measure \in 0 .. 100
    OBVIOUS
  <2>1. pc = "run" => LeftOf(run) \in 0 .. 3
    BY DEF LeftOf, PlacesHeld
  <2>2. Left(pc, stage, run) \in 0 .. 99
    BY <2>1 DEF PlacesHeld, Left, Places
  <2> QED
    BY <2>2 DEF PlacesHeld, Measure
<1>3. PlacesHeld /\ [Next]_vars => [Measure' < Measure]_vars
  BY StepCounts
<1> QED
  BY PlacesInit, <1>1, <1>2, <1>3, PTL DEF Spec

================================================================================
