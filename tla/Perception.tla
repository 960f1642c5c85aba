------------------------------- MODULE Perception -------------------------------
(***************************************************************************)
(* What becomes of one pair of frames: process_pair and derive_observation *)
(* with the six model sessions they run, from the loading of the models to *)
(* the decision.  Observation takes their outcome as given; this module    *)
(* has their order, their looks at the cancellation and the values that    *)
(* pass from one to the next.                                              *)
(*                                                                         *)
(* A model runs on the worker, beside a watchdog of its own that ends it   *)
(* at the deadline; the cancellation comes at any moment.  Deployments and *)
(* Pairs are named: a deployment has the six manifests with the files and  *)
(* graphs they are installed with, the policies and the template of the    *)
(* account.                                                                *)
(***************************************************************************)
EXTENDS Quality, Decision

CONSTANTS
  Deployments,  \* what the process may find installed and configured
  Pairs,        \* pairs of frames the cameras may deliver
  Returned(_),  \* what the graph of a role may return
  NoRun         \* no graph runs

VARIABLES
  deployment,  \* the name of the deployment
  pair,        \* the name of the PairedFrames
  cancelled,   \* is_cancelled of the job
  pc,          \* where the worker is
  stage,       \* the model it is at, by its place in Order
  run,         \* the call of run_named under way
  outputs,     \* the copied outputs not yet read
  face,        \* the bounds of the single face
  landmarks,   \* FacialLandmarks
  quality,     \* the aggregate of the QualityReport
  embedding,   \* FaceEmbedding
  scores,      \* the PassiveLivenessScores
  verdict,     \* the result, "None" while the worker is busy
  candidates,  \* history: the candidates the detector was sure of
  late         \* history: graphs started after the cancellation

given == <<deployment, pair>>
evidence == <<face, landmarks, quality, embedding, scores, candidates>>
vars == <<given, cancelled, pc, stage, run, outputs, evidence, verdict, late>>

Order == <<"Detector", "Landmarks", "Embedding", "PassiveInfrared",
           "PassiveVisible", "PassiveFusion">>

\* What the configuration's formats can say: the enumerations of the manifest,
\* its arrays of alignment points, and the pixel formats of a frame, one of
\* which nobody decodes.  A PairedFrames has a frame of either camera, a frame
\* that is laid out has its pixels, and a tensor or a calibration is numbers.
InputIsNamed(input) == input.layout \in Layouts /\ input.color \in Colors

AlignmentIsNamed(c) ==
  /\ c.indices \in [1 .. AlignmentPoints -> Nat]
  /\ DOMAIN c.reference = 1 .. AlignmentPoints

ManifestIsNamed(m) ==
  /\ m.role \in Roles
  /\ InputIsNamed(m.input)
  /\ \A i \in DOMAIN m.additional : InputIsNamed(m.additional[i])
  /\ m.alignment # Absent => AlignmentIsNamed(m.alignment)
  /\ m.outputs \in Seq(Range(m.outputs))
  /\ \A i \in DOMAIN m.outputs :
       m.outputs[i].semantic \in Semantics /\ m.outputs[i].dims \in Seq(Nat)

BandIsNumeric(b) ==
  {b.rejectBelow, b.idealMin, b.idealMax, b.rejectAbove} \subseteq {NaN} \cup Int

LimitIsNumeric(b) == {b.reject, b.ideal} \subseteq {NaN} \cup Int

QualityIsNumeric(q) ==
  /\ \A b \in {q.exposure, q.faceFraction} : BandIsNumeric(b)
  /\ \A b \in {q.clipped, q.range, q.sharpness, q.horizontal, q.vertical,
               q.yaw, q.pitch, q.roll, q.visibility, q.confidence} :
       LimitIsNumeric(b)

HasPixels(image) ==
  image.pixels \in
    [(0 .. image.width - 1) \X (0 .. image.height - 1) -> Luma]

ASSUME PerceptionAssumption ==
  /\ \A d \in DOMAIN Deployments :
       /\ \A i \in DOMAIN Order : ManifestIsNamed(Deployments[d].models[i])
       /\ QualityIsNumeric(Deployments[d].quality)
  /\ \A p \in DOMAIN Pairs :
       /\ {Pairs[p].infrared.format, Pairs[p].visible.format}
            \subseteq Formats \cup {"Mjpeg"}
       /\ Pairs[p].timing.visible # Absent
       /\ QualityView(Pairs[p].visible) => HasPixels(Pairs[p].visible)
  /\ \A role \in Roles : \A returned \in Returned(role) :
       \A i \in DOMAIN returned : returned[i].values \in Seq({NaN} \cup Int)

Verdicts == {"None", "NotLoaded", "InvalidPolicy", "Cancelled", "Inference",
             "InvalidEvidence", "Retry"} \cup DecisionCodes

Places == {"load", "build", "prepare", "start", "run", "read", "decide", "done"}

Config == Deployments[deployment]
Frames == Pairs[pair]
Model(i) == Config.models[i]

Init ==
  /\ deployment \in DOMAIN Deployments
  /\ pair \in DOMAIN Pairs
  /\ cancelled = FALSE
  /\ pc = "load" /\ stage = 1
  /\ run = NoRun
  /\ outputs = <<>>
  /\ face = Absent /\ landmarks = Absent /\ quality = Absent
  /\ embedding = Absent /\ scores = <<>>
  /\ verdict = "None"
  /\ candidates = {}
  /\ late = 0

Return(v) == pc' = "done" /\ verdict' = v
Proceed(place) == pc' = place /\ UNCHANGED verdict

\* inference_failure and the like: an error after a cancellation is one.
Failure(v) == IF cancelled THEN "Cancelled" ELSE v

\* The worker has done what it does at this place and goes on, or fails.
GoesOn(ok, place, v) ==
  IF ok /\ ~cancelled THEN Proceed(place) ELSE Return(Failure(v))

--------------------------------------------------------------------------------
(***************************************************************************)
(* Loading                                                                 *)
(***************************************************************************)

\* Which of the models of a deployment load, the library being the one that
\* the first of them has initialized.
Loadable ==
  [d \in DOMAIN Deployments |->
    {i \in DOMAIN Order :
       Loads(Deployments[d].runtime, Deployments[d].models[i],
             Deployments[d].files[i], Deployments[d].library,
             IF i = 1 THEN Deployments[d].loaded ELSE Deployments[d].library.path,
             Deployments[d].graphs[i])}]

\* The session of the next role, in the order of the composition root.
Load ==
  /\ pc = "load"
  /\ IF stage \in Loadable[deployment]
     THEN /\ Proceed(IF stage = Len(Order) THEN "build" ELSE "load")
          /\ stage' = IF stage = Len(Order) THEN 1 ELSE stage + 1
     ELSE Return("NotLoaded") /\ UNCHANGED stage
  /\ UNCHANGED <<given, cancelled, run, outputs, evidence, late>>

ValidDetection(d) == Unit(d.confidence) /\ Unit(d.iou) /\ d.limit \in 1 .. 64

RolesMatch == \A i \in DOMAIN Order : Model(i).role = Order[i]

\* ProductionObservationPipeline::new and the policies of the boundary.
Build ==
  /\ pc = "build"
  /\ IF /\ ValidDetection(Config.detection) /\ ValidQuality(Config.quality)
        /\ RolesMatch
        /\ ValidPolicy(Config.policy) /\ ValidPad(Config.pad)
     THEN Proceed("prepare") ELSE Return("InvalidPolicy")
  /\ UNCHANGED <<given, cancelled, stage, run, outputs, evidence, late>>

--------------------------------------------------------------------------------
(***************************************************************************)
(* One call of OnnxSession::run_named                                      *)
(***************************************************************************)

\* The prepared tensors by their names, those of the fusion as the code has them.
Tensors ==
  IF stage = 6
  THEN <<[name |-> "infrared", dims |-> Dimensions(Model(6).input)],
         [name |-> "visible", dims |-> Dimensions(Model(6).additional[1])]>>
  ELSE <<[name |-> Model(stage).input.name,
          dims |-> Dimensions(Model(stage).input)]>>

\* The worker has just looked at the cancellation and does not look again.
Start ==
  /\ pc = "start"
  /\ IF NamedInputs(Model(stage), Tensors)
     THEN /\ Proceed("run")
          /\ run' = [graph |-> "running", watchdog |-> "waiting",
                     overdue |-> FALSE]
          /\ late' = IF cancelled THEN late + 1 ELSE late
     ELSE Return(Failure("Inference")) /\ UNCHANGED <<run, late>>
  /\ UNCHANGED <<given, cancelled, stage, outputs, evidence>>

\* The watchdog's thread cannot be spawned.
StartFails ==
  /\ pc = "start"
  /\ Return(Failure("Inference"))
  /\ UNCHANGED <<given, cancelled, stage, run, outputs, evidence, late>>

Running(changed) ==
  /\ pc = "run"
  /\ run' = changed
  /\ UNCHANGED <<given, cancelled, pc, stage, outputs, evidence, verdict, late>>

\* The deadline of the run passes.
Expire == pc = "run" /\ ~run.overdue /\ Running([run EXCEPT !.overdue = TRUE])

SlipWatchdogFires ==
  /\ pc = "run" /\ run.overdue /\ run.watchdog = "waiting"
  /\ run.graph # "running"
  /\ Running([run EXCEPT !.watchdog = "fired"])

\* recv_timeout ends with the time: the graph is told to terminate.
WatchdogFires ==
  /\ pc = "run" /\ run.overdue /\ run.watchdog = "waiting"
  /\ Running([run EXCEPT !.watchdog = "fired"])

\* recv_timeout ends with the message that follows the run.
WatchdogWakes ==
  /\ pc = "run" /\ run.graph # "running" /\ run.watchdog = "waiting"
  /\ Running([run EXCEPT !.watchdog = "woken"])

GraphEnds ==
  /\ pc = "run" /\ run.graph = "running"
  /\ \E how \in {"returned", "failed"} : Running([run EXCEPT !.graph = how])

\* Where the run of a stage leads: the passive models run in a row.
AfterRun == IF stage \in {4, 5} THEN "start" ELSE "read"

SlipSucceeded == ~run.overdue /\ run.graph = "returned"
\* The time, the result, and the look at the cancellation after every run.
Succeeded == ~cancelled /\ ~run.overdue /\ run.graph = "returned"

\* The watchdog has ended, and what the graph returned is copied.
Join ==
  /\ pc = "run"
  /\ run.graph # "running" /\ run.watchdog # "waiting"
  /\ run' = NoRun
  /\ IF Succeeded
     THEN \E r \in Returned(Order[stage]) :
            IF Copies(Model(stage), r)
            THEN /\ Proceed(AfterRun)
                 /\ stage' = IF AfterRun = "start" THEN stage + 1 ELSE stage
                 /\ outputs' = Append(outputs, CopyOf(Model(stage), r))
            ELSE Return("Inference") /\ UNCHANGED <<stage, outputs>>
     ELSE Return(Failure("Inference")) /\ UNCHANGED <<stage, outputs>>
  /\ UNCHANGED <<given, cancelled, evidence, late>>

--------------------------------------------------------------------------------
(***************************************************************************)
(* Preparing the input of a model                                          *)
(***************************************************************************)

\* inference_frame_view and validate_preprocess_inputs.
Preprocesses(input, image) ==
  image.format \in {"Gray8", "Yuyv"} /\ ValidSource(input, image)

PrepareDetector ==
  /\ pc = "prepare" /\ stage = 1
  /\ GoesOn(Preprocesses(Model(1).input, Frames.visible), "start", "Inference")
  /\ UNCHANGED <<given, cancelled, stage, run, outputs, evidence, late>>

PrepareLandmarks ==
  /\ pc = "prepare" /\ stage = 2
  /\ GoesOn(/\ Preprocesses(Model(2).input, Frames.visible)
            /\ ValidRegion(SquareOf(Model(2).crop, face)),
            "start", "Inference")
  /\ UNCHANGED <<given, cancelled, stage, run, outputs, evidence, late>>

\* assess_landmark_frame_quality, then the alignment of the face.
PrepareEmbedding ==
  /\ pc = "prepare" /\ stage = 3
  /\ LET geometry == GeometryOf(landmarks)
         assessed ==
           QualityRefusal(Frames.visible, geometry, Config.quality) = "None"
     IN  \/ /\ ~assessed
            /\ Return(Failure("InvalidEvidence"))
            /\ UNCHANGED quality
         \/ /\ assessed
            /\ quality' = Assessed(Frames.visible, geometry, Config.quality)
            /\ GoesOn(/\ Preprocesses(Model(3).input, Frames.visible)
                      /\ AlignmentRefusal(Model(3), Frames.visible, landmarks)
                           = "None",
                      "start", "Inference")
  /\ UNCHANGED <<given, cancelled, stage, run, outputs, face, landmarks,
                 embedding, scores, candidates, late>>

\* The four tensors of the passive models, before any of them runs.
PreparePassive ==
  /\ pc = "prepare" /\ stage = 4
  /\ GoesOn(/\ Preprocesses(Model(4).input, Frames.infrared)
            /\ Preprocesses(Model(5).input, Frames.visible)
            /\ Preprocesses(Model(6).input, Frames.infrared)
            /\ Preprocesses(Model(6).additional[1], Frames.visible),
            "start", "Inference")
  /\ UNCHANGED <<given, cancelled, stage, run, outputs, evidence, late>>

--------------------------------------------------------------------------------
(***************************************************************************)
(* Reading the outputs                                                     *)
(***************************************************************************)

\* extract_face_detections, suppress_overlaps and require_single_face: the
\* faces that are sure enough, and the only one that is left of them, if its
\* square lies in the image.
Found == Detections(Model(1), outputs[1], Config.detection.confidence)

SingleFace ==
  LET distinct == Retained(Found, Config.detection.iou)
  IN  {i \in distinct : /\ distinct = {i}
                        /\ SquareInside(Model(2).crop, Found[i].box)}

FacesRead ==
  /\ ReadsFaces(Model(1), outputs[1], Config.detection.confidence)
  /\ Suppresses(Found, Config.detection.iou, Config.detection.limit)

\* One face whose square lies in the image, or the user has to move.
ReadFaces ==
  /\ pc = "read" /\ stage = 1
  /\ outputs' = <<>>
  /\ IF ~FacesRead
     THEN Return(Failure("Inference")) /\ UNCHANGED <<stage, face, candidates>>
     ELSE IF SingleFace = {}
     THEN Return("Retry") /\ UNCHANGED <<stage, face, candidates>>
     ELSE \E i \in SingleFace :
            /\ face' = Found[i].box
            /\ candidates' = {Found[k] : k \in DOMAIN Found}
            /\ stage' = 2
            /\ Proceed("prepare")
  /\ UNCHANGED <<given, cancelled, run, landmarks, quality, embedding, scores,
                 late>>

ReadLandmarks ==
  /\ pc = "read" /\ stage = 2
  /\ outputs' = <<>>
  /\ IF ReadsLandmarks(Model(2), outputs[1])
     THEN /\ landmarks' = FacialLandmarks(Model(2), outputs[1],
                                          SquareOf(Model(2).crop, face))
          /\ stage' = 3
          /\ Proceed("prepare")
     ELSE Return(Failure("Inference")) /\ UNCHANGED <<stage, landmarks>>
  /\ UNCHANGED <<given, cancelled, run, face, quality, embedding, scores,
                 candidates, late>>

ReadEmbedding ==
  /\ pc = "read" /\ stage = 3
  /\ outputs' = <<>>
  /\ IF ReadsEmbedding(Model(3), outputs[1])
     THEN /\ embedding' = FaceEmbedding(Model(3), outputs[1])
          /\ stage' = 4
          /\ Proceed("prepare")
     ELSE Return(Failure("Inference")) /\ UNCHANGED <<stage, embedding>>
  /\ UNCHANGED <<given, cancelled, run, face, landmarks, quality, scores,
                 candidates, late>>

ReadScores ==
  /\ pc = "read" /\ stage = 6
  /\ outputs' = <<>>
  /\ IF \A i \in 1 .. 3 : ReadsScore(Model(i + 3), outputs[i])
     THEN /\ scores' = [i \in 1 .. 3 |-> PassiveScore(Model(i + 3), outputs[i])]
          /\ Proceed("decide")
     ELSE Return(Failure("Inference")) /\ UNCHANGED scores
  /\ UNCHANGED <<given, cancelled, stage, run, face, landmarks, quality,
                 embedding, candidates, late>>

\* The observation reached the coordinator, after a challenge that passed.
Decide ==
  /\ pc = "decide"
  /\ Return(DecisionCode(Config.policy, Config.pad, Config.template,
                         [embedding |-> embedding, quality |-> quality,
                          scores |-> scores, timing |-> Frames.timing,
                          challenge |-> "Passed"]))
  /\ UNCHANGED <<given, cancelled, stage, run, outputs, evidence, late>>

\* The owner of the job, or the shutdown.
Cancel ==
  /\ pc \notin {"load", "build", "done"} /\ ~cancelled
  /\ cancelled' = TRUE
  /\ UNCHANGED <<given, pc, stage, run, outputs, evidence, verdict, late>>

Work ==
  \/ Load \/ Build
  \/ PrepareDetector \/ PrepareLandmarks \/ PrepareEmbedding \/ PreparePassive
  \/ Start \/ StartFails \/ Join
  \/ ReadFaces \/ ReadLandmarks \/ ReadEmbedding \/ ReadScores
  \/ Decide

Watchdog == WatchdogFires \/ WatchdogWakes

Next == Work \/ Watchdog \/ Expire \/ GraphEnds \/ Cancel

\* The worker goes on wherever it is, but to join the watchdog it must wait.
Advance ==
  /\ pc # "done"
  /\ pc = "run" => run.graph # "running" /\ run.watchdog # "waiting"
  /\ pc' \in Places /\ stage' \in DOMAIN Order
  /\ <<pc, stage>>' # <<pc, stage>>

\* Threads are scheduled and time passes; a graph may run for ever unless it
\* was told to terminate.  (Among the steps of Next, those of Work advance.)
Spec ==
  /\ Init /\ [][Next]_vars
  /\ WF_<<pc, stage>>(Advance) /\ WF_run(Watchdog) /\ WF_run(Expire)
  /\ WF_run(run # NoRun /\ run.watchdog = "fired" /\ GraphEnds)

--------------------------------------------------------------------------------

HoldsBoxes(values) == \A i \in 1 .. Len(values) \div 4 : IsBox(BoxAt(values, i))

\* The numbers of the outputs are such as the contract of the role asks for.
NumbersAreSound ==
  CASE stage = 1 ->
         /\ \A i \in DOMAIN outputs[1] : \A k \in DOMAIN outputs[1][i].values :
              Unit(outputs[1][i].values[k])
         /\ \A i \in DOMAIN outputs[1] :
              outputs[1][i].name = TheOutput(Model(1), "Boxes").name =>
                HoldsBoxes(outputs[1][i].values)
    [] stage = 2 ->
         \A i \in DOMAIN outputs[1] : \A k \in DOMAIN outputs[1][i].values :
           IF outputs[1][i].name = TheOutput(Model(2), "Pose").name
           THEN Magnitude(outputs[1][i].values[k]) <= 1
           ELSE Unit(outputs[1][i].values[k])
    [] stage = 3 ->
         \A i \in DOMAIN outputs[1] :
           \E k \in DOMAIN outputs[1][i].values : outputs[1][i].values[k] # 0
    [] stage = 6 ->
         \A j \in DOMAIN outputs : \A i \in DOMAIN outputs[j] :
           \A k \in DOMAIN outputs[j][i].values : Unit(outputs[j][i].values[k])

\* Whatever manifest was admitted: outputs of the declared shapes whose numbers
\* are sound can be read, so a model that loads does not fail at its first face
\* (ModelManifest::validate against the extract functions of OnnxSession).
AdmittedOutputsRead ==
  pc = "read" /\ NumbersAreSound =>
    CASE stage = 1 -> ReadsFaces(Model(1), outputs[1],
                                 Config.detection.confidence)
      [] stage = 2 -> ReadsLandmarks(Model(2), outputs[1])
      [] stage = 3 -> ReadsEmbedding(Model(3), outputs[1])
      [] stage = 6 -> \A i \in 1 .. 3 : ReadsScore(Model(i + 3), outputs[i])

\* The face that is used is the one the detector was surest of, and with a
\* limit of one half or more no two candidates of the picture lie apart: a
\* second face is never taken for an echo of the first (suppress_overlaps,
\* require_single_face).
SecondFaceIsSeen ==
  face # Absent =>
    /\ \E c \in candidates :
         c.box = face /\ \A d \in candidates : d.score <= c.score
    /\ 2 * Config.detection.iou >= One =>
         \A c, d \in candidates : Overlap(c.box, d.box) > 0

InFrame(taps, image) ==
  /\ taps \subseteq (0 .. image.width - 1) \X (0 .. image.height - 1)
  /\ \A tap \in taps :
       BytesRead(image, tap[1], tap[2]) \subseteq 0 .. image.bytes - 1

\* Every value of the tensor has one place, and no place is left over.
FillsTensor(input) ==
  LET cells == (0 .. input.width - 1) \X (0 .. input.height - 1)
                 \X (0 .. input.channels - 1)
      place(cell) == TensorIndex(input, cell[1], cell[2], cell[3])
  IN  /\ {place(cell) : cell \in cells}
           = 0 .. DimensionProduct(Dimensions(input)) - 1
      /\ Cardinality(cells) = DimensionProduct(Dimensions(input))

\* A crop of the whole frame is sampled as the frame is.
WholeIsWhole(extent, source) ==
  \A t \in 0 .. extent - 1 :
    LET a == Axis(t, extent, source)
        b == RegionAxis(t, extent, source, 0, Fine)
    IN  /\ a.lower = b.lower
        /\ a.num * b.den = b.num * a.den
        /\ a.upper = b.upper \/ a.num = 0

\* Without colour the three channels agree and follow the luma.
GreyStaysGrey ==
  LET grey(luma) == YuyvRgb(luma, 128, 128)
  IN  \A luma \in 0 .. 255 :
        /\ grey(luma)[1] = grey(luma)[2] /\ grey(luma)[2] = grey(luma)[3]
        /\ luma > 0 => grey(luma)[1] \in grey(luma - 1)[1] .. 255

\* Whatever sizes, formats and layouts were admitted: preprocessing and the
\* quality check read inside the frame, a tensor is filled once, the two
\* samplers agree and grey stays grey (preprocess_image_cancellable,
\* preprocess_image_region, interpolation_axis, floating_interpolation_axis,
\* source_channel, yuyv_rgb, write_tensor_value, ImageView::luma).
SamplesAreSound ==
  pc = "start" =>
    CASE stage = 1 ->
           /\ InFrame(WholeTaps(Model(1).input, Frames.visible), Frames.visible)
           /\ FillsTensor(Model(1).input)
           /\ GreyStaysGrey
           /\ WholeIsWhole(Model(1).input.width, Frames.visible.width)
           /\ WholeIsWhole(Model(1).input.height, Frames.visible.height)
      [] stage = 2 ->
           /\ InFrame(RegionTaps(Model(2).input, Frames.visible,
                                 SquareOf(Model(2).crop, face)),
                      Frames.visible)
           /\ FillsTensor(Model(2).input)
      [] stage = 3 ->
           \A p \in PixelsOf(PixelRegion(Frames.visible, GeometryOf(landmarks))) :
             LumaByte(Frames.visible, p[1], p[2]) \in 0 .. Frames.visible.bytes - 1
      [] stage = 4 ->
           /\ InFrame(WholeTaps(Model(4).input, Frames.infrared),
                      Frames.infrared)
           /\ FillsTensor(Model(4).input)
      [] OTHER -> TRUE

\* Where a source point lands among the reference points, against the centre
\* of the target pixel it was sampled for.
LandsOn(fit, points, reference, input, x, y) ==
  LET at == Inverse2(fit, points, reference, input, x, y)
      n == AlignmentPoints
      vx == n * at.x - at.den * Centre(points)[1]
      vy == n * at.y - at.den * Centre(points)[2]
      unit == fit.den * at.den
  IN  /\ 2 * input.width * (fit.cos * vx - fit.sin * vy
                              + unit * Centre(reference)[1])
           = (2 * x + 1) * One * n * unit
      /\ 2 * input.height * (fit.sin * vx + fit.cos * vy
                               + unit * Centre(reference)[2])
           = (2 * y + 1) * One * n * unit

\* The similarity a face is aligned with leaves the landmarks no further from
\* the reference points than any of its neighbours does, and every pixel of the
\* model's picture is sampled where the similarity takes it
\* (SimilarityTransform::fit, forward, inverse).
AlignedFaceFits ==
  pc = "start" /\ stage = 3 =>
    LET points == AlignmentLandmarks(Model(3), landmarks)
        reference == Model(3).alignment.reference
        fit == Fit(points, reference)
        error(da, db) == SquaredError(fit.cos + da, fit.sin + db, fit.den,
                                      Centred(points), Centred(reference))
    IN  /\ \A da, db \in -1 .. 1 : error(0, 0) <= error(da, db)
        /\ \A x \in 0 .. Model(3).input.width - 1,
              y \in 0 .. Model(3).input.height - 1 :
             LandsOn(fit, points, reference, Model(3).input, x, y)

\* Good components do not buy off a bad one: a component of zero is a quality
\* of zero, the quality is at most the weakest one and the headroom, at least
\* the weakest one, and a better component never lowers it
\* (conservative_aggregate).
QualityIsConservative ==
  pc = "start" /\ stage = 3 =>
    LET geometry == GeometryOf(landmarks)
        q == Config.quality
        s == Scores(Measured(Frames.visible, geometry, q), geometry, q)
        better(c) == [s EXCEPT ![c] = Smaller(@ + 1, One)]
    IN  /\ (quality.num = 0) <=> \E c \in Components : s[c] = 0
        /\ Weakest(s) * quality.den <= quality.num
        /\ quality.num <= Smaller(One, Weakest(s) + q.headroom) * quality.den
        /\ \A c \in Components :
             AtMostFraction(quality, Aggregate(better(c), q.weights, q.headroom))

\* Once the job is cancelled at most one more graph is started: the one whose
\* look at the cancellation was already over (ensure_active before every run).
CancelStopsInference == late <= 1

\* Acceptance needs all of it at once: the template was enrolled with this
\* embedding model on these landmarks, every passive model is the calibrated
\* one and sure enough, the frames belong together, the picture is good enough
\* and holds the whole square around the one face (process_pair,
\* derive_observation, complete_authentication).
AcceptanceIsEvidenced ==
  verdict = "Accepted" =>
    /\ Config.template.compatibility = Compatibility(Model(3))
    /\ Model(3).alignment.landmarks = Compatibility(Model(2))
    /\ \A i \in 4 .. 6 : Config.pad[Order[i]] # Absent =>
         /\ Config.pad[Order[i]].compatibility = Compatibility(Model(i))
         /\ \E s \in {scores[k] : k \in DOMAIN scores} :
              /\ s.role = Order[i]
              /\ s.probability >= Config.pad[Order[i]].minimum
    /\ Magnitude(Frames.timing.infrared - Frames.timing.visible)
         <= Config.policy.capture.maxSkew
    /\ ~Below(quality, Config.policy.minQuality)
    /\ ~Below(Similarity(embedding, Config.template),
              Config.policy.minSimilarity)
    /\ SquareInside(Model(2).crop, face)

\* Every pair comes to a verdict, also when a graph never returns by itself:
\* the watchdog ends it (run_named).
PairEnds == <>(pc = "done")

================================================================================
