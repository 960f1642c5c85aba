----------------------------- MODULE ModelManifest -----------------------------
(***************************************************************************)
(* What a model may declare about itself, and which declarations are       *)
(* admitted: the checks of faceauth-model, without the files and the ONNX  *)
(* runtime that Inference adds.                                            *)
(*                                                                         *)
(* A number of a manifest is an integer in units of 1/One; NaN stands for  *)
(* whatever is not finite.  Labels, source, licence and digest of a        *)
(* manifest are sound or malformed; all errors of a check are one refusal, *)
(* as they are to every caller.                                            *)
(***************************************************************************)
EXTENDS Integers, Sequences, SequencesExt

CONSTANTS
  One,              \* the number 1.0
  NaN,              \* a number that is not finite
  Absent,           \* Option::None of a contract
  MaxDimension,     \* MAX_INPUT_DIMENSION
  MaxOutputs,       \* MAX_OUTPUT_TENSORS
  MaxRank,          \* MAX_TENSOR_RANK
  MaxElements,      \* MAX_TENSOR_ELEMENTS and MAX_TOTAL_OUTPUT_ELEMENTS
  MaxCandidates,    \* MAX_FACE_DETECTION_CANDIDATES
  MinLandmarks,     \* MIN_FACE_LANDMARKS
  MaxLandmarks,     \* MAX_FACE_LANDMARKS
  AlignmentPoints,  \* FACE_ALIGNMENT_LANDMARKS
  EmbeddingSizes    \* 32..4096

ASSUME ManifestAssumption ==
  /\ One \in Nat \ {0}
  /\ NaN \notin Int
  /\ {MaxDimension, MaxOutputs, MaxRank, MaxElements, MaxCandidates,
      MinLandmarks, MaxLandmarks, AlignmentPoints} \subseteq Nat \ {0}
  /\ MinLandmarks <= MaxLandmarks
  /\ EmbeddingSizes \subseteq Nat \ {0}

PassiveRoles == {"PassiveInfrared", "PassiveVisible", "PassiveFusion"}
Roles == {"Detector", "Landmarks", "Embedding"} \cup PassiveRoles

LandmarkSemantics == {"Points", "PointConfidence", "Pose", "Eyes"}
FaceSemantics == {"Boxes", "Scores"} \cup LandmarkSemantics
Semantics == FaceSemantics \cup {"Embedding", "LiveProbability", "Auxiliary"}

Layouts == {"Nchw", "Nhwc"}
Colors == {"Grayscale", "Rgb", "Bgr"}

Unit(x) == x \in 0 .. One
UnitPoint(p) == Unit(p[1]) /\ Unit(p[2])

--------------------------------------------------------------------------------

DimensionProduct(dims) ==
  LET product[n \in 0 .. Len(dims)] ==
        IF n = 0 THEN 1 ELSE product[n - 1] * dims[n]
  IN  product[Len(dims)]

\* checked_mul fails on products that the limit refuses as well.
ValidDimensions(dims) ==
  /\ Len(dims) \in 1 .. MaxRank
  /\ \A i \in DOMAIN dims : dims[i] # 0
  /\ DimensionProduct(dims) <= MaxElements

Dimensions(input) ==
  IF input.layout = "Nchw"
  THEN <<1, input.channels, input.height, input.width>>
  ELSE <<1, input.height, input.width, input.channels>>

ChannelsOf(color) == IF color = "Grayscale" THEN 1 ELSE 3

ValidNormalization(n, channels) ==
  /\ Len(n.scale) = channels /\ Len(n.bias) = channels
  /\ \A c \in 1 .. channels : n.scale[c] \notin {NaN, 0} /\ n.bias[c] # NaN

ValidInput(input) ==
  /\ input.name # ""
  /\ input.width \in 1 .. MaxDimension
  /\ input.height \in 1 .. MaxDimension
  /\ input.channels = ChannelsOf(input.color)
  /\ ValidNormalization(input.normalization, input.channels)
  /\ ValidDimensions(Dimensions(input))

ValidMeasurement(c) ==
  /\ Unit(c.visible)
  /\ c.yaw \in 1 .. 90 /\ c.pitch \in 1 .. 90 /\ c.roll \in 1 .. 180

\* The offsets are in units of half a box: -1/2 .. 1/2 is -One .. One.
ValidCrop(c) ==
  /\ c.scale \in One .. 3 * One
  /\ c.offsetX \in -One .. One /\ c.offsetY \in -One .. One

\* Reference points that all coincide have no variance.
ValidAlignment(c) ==
  /\ IsInjective(c.indices)
  /\ \A i \in DOMAIN c.indices : c.indices[i] < MaxLandmarks
  /\ \A i \in DOMAIN c.reference : UnitPoint(c.reference[i])
  /\ c.residual \in 1 .. One
  /\ \E i, j \in DOMAIN c.reference : c.reference[i] # c.reference[j]

DeclaredInputs(m) == <<m.input>> \o m.additional

InputsMatchRole(m) ==
  IF m.role = "PassiveFusion"
  THEN /\ Len(m.additional) = 1
       /\ m.input.name = "infrared" /\ m.additional[1].name = "visible"
  ELSE m.additional = <<>>

InputsAreValid(m) ==
  LET inputs == DeclaredInputs(m)
  IN  /\ \A i \in DOMAIN inputs : ValidInput(inputs[i])
      /\ \A i, j \in DOMAIN inputs : inputs[i].name = inputs[j].name => i = j

\* A contract belongs to one role, which must have it.
AlignmentMatchesRole(m) ==
  IF m.role = "Embedding"
  THEN m.alignment # Absent /\ ValidAlignment(m.alignment)
  ELSE m.alignment = Absent

CropMatchesRole(m) ==
  IF m.role = "Landmarks" THEN m.crop # Absent /\ ValidCrop(m.crop)
  ELSE m.crop = Absent

MeasurementMatchesRole(m) ==
  IF m.role = "Landmarks"
  THEN m.measurement # Absent /\ ValidMeasurement(m.measurement)
  ELSE m.measurement = Absent

OutputsAreBounded(m) ==
  /\ Len(m.outputs) \in 1 .. MaxOutputs
  /\ \A i \in DOMAIN m.outputs :
       m.outputs[i].name # "" /\ ValidDimensions(m.outputs[i].dims)
  /\ FoldLeft(LAMBDA n, o : n + DimensionProduct(o.dims), 0, m.outputs)
       <= MaxElements
  /\ \A i, j \in DOMAIN m.outputs :
       m.outputs[i].name = m.outputs[j].name => i = j

--------------------------------------------------------------------------------

\* The places of the outputs of a meaning.
Meaning(m, semantic) ==
  {i \in DOMAIN m.outputs : m.outputs[i].semantic = semantic}

\* unique_semantic_output and semantic_output: the one output of a meaning.
HasOne(m, semantic) ==
  \E i \in DOMAIN m.outputs : Meaning(m, semantic) = {i}
TheOutput(m, semantic) ==
  m.outputs[CHOOSE i \in Meaning(m, semantic) : TRUE]

FaceSemanticsAbsent(m) ==
  \A i \in DOMAIN m.outputs : m.outputs[i].semantic \notin FaceSemantics

SlipDetectorOutputs(m) ==
  /\ Len(m.outputs) = 2
  /\ HasOne(m, "Boxes") /\ HasOne(m, "Scores")
  /\ \E n \in 1 .. MaxCandidates : TheOutput(m, "Boxes").dims = <<1, n, 4>>
DetectorOutputs(m) ==
  /\ Len(m.outputs) = 2
  /\ HasOne(m, "Boxes") /\ HasOne(m, "Scores")
  /\ \E n \in 1 .. MaxCandidates :
       /\ TheOutput(m, "Boxes").dims = <<1, n, 4>>
       /\ TheOutput(m, "Scores").dims = <<1, n>>

LandmarkOutputs(m) ==
  /\ Len(m.outputs) = 4
  /\ \A s \in LandmarkSemantics : HasOne(m, s)
  /\ \E n \in MinLandmarks .. MaxLandmarks :
       /\ TheOutput(m, "Points").dims = <<1, n, 2>>
       /\ TheOutput(m, "PointConfidence").dims = <<1, n>>
  /\ TheOutput(m, "Pose").dims = <<1, 3>>
  /\ TheOutput(m, "Eyes").dims = <<1, 2>>

EmbeddingDims(dims) ==
  \E n \in EmbeddingSizes : dims = <<n>> \/ dims = <<1, n>>

OutputsMatchRole(m) ==
  CASE m.role = "Detector" -> DetectorOutputs(m)
    [] m.role = "Landmarks" -> LandmarkOutputs(m)
    [] m.role = "Embedding" ->
         /\ HasOne(m, "Embedding") /\ Meaning(m, "LiveProbability") = {}
         /\ FaceSemanticsAbsent(m)
         /\ EmbeddingDims(TheOutput(m, "Embedding").dims)
    [] m.role \in PassiveRoles ->
         /\ HasOne(m, "LiveProbability") /\ Meaning(m, "Embedding") = {}
         /\ FaceSemanticsAbsent(m)
         /\ DimensionProduct(TheOutput(m, "LiveProbability").dims) = 1

\* Schema, labels, source, licence and digest of the manifest.
SoundIdentity(m) == m.identity = "Sound"

\* ModelManifest::validate.
Admitted(m) ==
  /\ SoundIdentity(m)
  /\ InputsMatchRole(m)
  /\ InputsAreValid(m)
  /\ AlignmentMatchesRole(m)
  /\ CropMatchesRole(m)
  /\ MeasurementMatchesRole(m)
  /\ OutputsAreBounded(m)
  /\ OutputsMatchRole(m)

\* A digest identifies the manifest, and with it graph and preprocessing.
Compatibility(m) == m

FileMatches(m, file) == Admitted(m) /\ file.regular /\ file.digest = m.digest

================================================================================
