------------------------------- MODULE Inference -------------------------------
(***************************************************************************)
(* What the inference boundary does with images, tensors and the outputs   *)
(* of a graph.  The operators take what the code takes and say whether it  *)
(* is refused; the order of the calls and the watchdog are in Perception.  *)
(*                                                                         *)
(* A box is <<left, top, right, bottom>>, a point <<x, y>>, both in units  *)
(* of 1/One.  A region is a box in units of 1/Fine, fine enough to hold    *)
(* what the code computes from a box.  A tensor is a name, its dimensions  *)
(* and the sequence of its values.                                         *)
(***************************************************************************)
EXTENDS ModelManifest, FiniteSets

CONSTANTS
  MaxSource,      \* MAX_SOURCE_DIMENSION
  MaxModelBytes,  \* ABSOLUTE_MAX_MODEL_BYTES
  MaxRunTime      \* ABSOLUTE_MAX_RUN_MILLIS

ASSUME InferenceAssumption ==
  {MaxSource, MaxModelBytes, MaxRunTime} \subseteq Nat \ {0}

Fine == 4 * One * One

Formats == {"Gray8", "Rgb8", "Bgr8", "Yuyv"}

Larger(a, b) == IF a > b THEN a ELSE b
Smaller(a, b) == IF a < b THEN a ELSE b
Magnitude(a) == IF a < 0 THEN -a ELSE a

\* The places of a name among tensors, and the tensor that has it.
Named(tensors, name) == {k \in DOMAIN tensors : tensors[k].name = name}
Get(tensors, name) == tensors[CHOOSE k \in Named(tensors, name) : TRUE]

--------------------------------------------------------------------------------
(***************************************************************************)
(* Installation                                                            *)
(***************************************************************************)

ValidRuntime(c) ==
  /\ c.library # ""
  /\ c.intra \in 1 .. 16 /\ c.inter = 1
  /\ c.bytes \in 1 .. MaxModelBytes
  /\ c.deadline \in 1 .. MaxRunTime

TrustedFile(file) ==
  /\ file.regular
  /\ file.owner = "root" /\ ~file.writable   \* by its group or others
  /\ file.parents = "trusted"

TrustedModel(file, limit) == TrustedFile(file) /\ file.bytes \in 1 .. limit

ModelInstalled(c, m, file) ==
  ValidRuntime(c) /\ TrustedModel(file, c.bytes) /\ FileMatches(m, file)

\* A process keeps the first library; loaded is Absent before it has one.
MayInitialize(library, loaded) ==
  TrustedFile(library) /\ loaded \in {Absent, library.path}

OutletMatches(actual, name, dims) ==
  actual.name = name /\ actual.type = "Float32" /\ actual.dims = dims

\* Inputs are found by their name, outputs by their position.
GraphMatches(m, graph) ==
  LET inputs == DeclaredInputs(m)
  IN  /\ Len(graph.inputs) = Len(inputs)
      /\ Len(graph.outputs) = Len(m.outputs)
      /\ \A i \in DOMAIN inputs :
           /\ Named(graph.inputs, inputs[i].name) # {}
           /\ OutletMatches(Get(graph.inputs, inputs[i].name), inputs[i].name,
                            Dimensions(inputs[i]))
      /\ \A i \in DOMAIN m.outputs :
           OutletMatches(graph.outputs[i], m.outputs[i].name, m.outputs[i].dims)

\* OnnxSession::load, where graph is what the runtime makes of the file.
Loads(c, m, file, library, loaded, graph) ==
  /\ ModelInstalled(c, m, file)
  /\ MayInitialize(library, loaded)
  /\ graph # Absent /\ GraphMatches(m, graph)

--------------------------------------------------------------------------------
(***************************************************************************)
(* Preprocessing                                                           *)
(***************************************************************************)

PixelBytes(format) ==
  CASE format = "Gray8" -> 1 [] format = "Yuyv" -> 2 [] OTHER -> 3

ValidSource(input, image) ==
  /\ image.width \in 1 .. MaxSource /\ image.height \in 1 .. MaxSource
  /\ image.format = "Yuyv" => image.width % 2 = 0
  /\ image.bytes = image.width * image.height * PixelBytes(image.format)
  /\ (input.color = "Grayscale") <=> (image.format = "Gray8")

\* The bytes that source_channel and yuyv_rgb read for the pixel at x, y.
BytesRead(image, x, y) ==
  LET pixel == y * image.width + x
      pair == y * (image.width \div 2) + x \div 2
  IN  CASE image.format = "Gray8" -> {pixel}
        [] image.format = "Yuyv" ->
             {4 * pair + 2 * (x % 2), 4 * pair + 1, 4 * pair + 3}
        [] OTHER -> {3 * pixel, 3 * pixel + 1, 3 * pixel + 2}

ClampByte(v) == IF v < 0 THEN 0 ELSE Smaller(v, 255)

\* BT.601 in limited range, in fixed point.
YuyvRgb(luma, blue, red) ==
  LET scaled == 298 * Larger(luma - 16, 0) + 128
  IN  <<ClampByte((scaled + 409 * (red - 128)) \div 256),
        ClampByte((scaled - 100 * (blue - 128) - 208 * (red - 128)) \div 256),
        ClampByte((scaled + 516 * (blue - 128)) \div 256)>>

SlipAxis(target, extent, source) ==
  LET num == (2 * target + 1) * source - extent
      raw == num \div (2 * extent)
  IN  IF raw < 0 THEN [lower |-> 0, upper |-> 0, num |-> 0, den |-> 1]
      ELSE [lower |-> raw, upper |-> raw + 1,
            num |-> num % (2 * extent), den |-> 2 * extent]
\* The two neighbours of a target pixel along an axis, and the weight of the
\* second as a fraction: interpolation_axis, half-pixel centres.
Axis(target, extent, source) ==
  LET num == (2 * target + 1) * source - extent
      raw == num \div (2 * extent)
      lower == Smaller(raw, source - 1)
  IN  IF raw < 0 THEN [lower |-> 0, upper |-> 0, num |-> 0, den |-> 1]
      ELSE IF lower = source - 1
      THEN [lower |-> lower, upper |-> lower, num |-> 0, den |-> 1]
      ELSE [lower |-> lower, upper |-> lower + 1,
            num |-> num % (2 * extent), den |-> 2 * extent]

\* floating_interpolation_axis, of the coordinate num/den in pixels.
FloatingAxis(num, den, source) ==
  LET at == Larger(0, Smaller(num, (source - 1) * den))
      lower == at \div den
  IN  [lower |-> lower, upper |-> Smaller(lower + 1, source - 1),
       num |-> at % den, den |-> den]

\* Where a target pixel of a crop that starts at from and spans span falls.
RegionAxis(target, extent, source, from, span) ==
  FloatingAxis(source * ((2 * target + 1) * span + 2 * extent * from)
                 - extent * Fine,
               2 * extent * Fine, source)

SourceTaps(axisX, axisY) ==
  {axisX.lower, axisX.upper} \X {axisY.lower, axisY.upper}

WholeTaps(input, image) ==
  UNION {SourceTaps(Axis(x, input.width, image.width),
                    Axis(y, input.height, image.height)) :
           x \in 0 .. input.width - 1, y \in 0 .. input.height - 1}

RegionTaps(input, image, region) ==
  UNION {SourceTaps(
           RegionAxis(x, input.width, image.width, region[1],
                      region[3] - region[1]),
           RegionAxis(y, input.height, image.height, region[2],
                      region[4] - region[2])) :
           x \in 0 .. input.width - 1, y \in 0 .. input.height - 1}

\* Where write_tensor_value puts the channel c of the pixel x, y.
TensorIndex(input, x, y, c) ==
  IF input.layout = "Nchw"
  THEN c * input.width * input.height + y * input.width + x
  ELSE (y * input.width + x) * input.channels + c

ValidRegion(region) ==
  /\ region[1] >= 0 /\ region[2] >= 0
  /\ region[1] < region[3] /\ region[2] < region[4]
  /\ region[3] <= Fine /\ region[4] <= Fine

--------------------------------------------------------------------------------
(***************************************************************************)
(* Alignment: the similarity that takes the landmarks closest to the       *)
(* reference points.  Coordinates are multiplied by the number of points,  *)
(* so that the centres are integers; cos and sin are over den.             *)
(***************************************************************************)

Centre(points) ==
  <<SumFunction([i \in DOMAIN points |-> points[i][1]]),
    SumFunction([i \in DOMAIN points |-> points[i][2]])>>

Centred(points) ==
  [i \in DOMAIN points |->
    <<AlignmentPoints * points[i][1] - Centre(points)[1],
      AlignmentPoints * points[i][2] - Centre(points)[2]>>]

\* How far the similarity (cos, sin)/den leaves source from target, squared.
SquaredError(cos, sin, den, source, target) ==
  SumFunction([i \in DOMAIN source |->
    LET x == cos * source[i][1] - sin * source[i][2] - den * target[i][1]
        y == sin * source[i][1] + cos * source[i][2] - den * target[i][2]
    IN  x * x + y * y])

SlipFit(points, reference) ==
  LET s == Centred(points)
      d == Centred(reference)
  IN  [cos |-> SumFunction([i \in DOMAIN s |-> s[i][1] * d[i][1] + s[i][2] * d[i][2]]),
       sin |-> SumFunction([i \in DOMAIN s |-> s[i][2] * d[i][1] - s[i][1] * d[i][2]]),
       den |-> SumFunction([i \in DOMAIN s |-> s[i][1] * s[i][1] + s[i][2] * s[i][2]])]
Fit(points, reference) ==
  LET s == Centred(points)
      d == Centred(reference)
  IN  [cos |-> SumFunction([i \in DOMAIN s |-> s[i][1] * d[i][1] + s[i][2] * d[i][2]]),
       sin |-> SumFunction([i \in DOMAIN s |-> s[i][1] * d[i][2] - s[i][2] * d[i][1]]),
       den |-> SumFunction([i \in DOMAIN s |-> s[i][1] * s[i][1] + s[i][2] * s[i][2]])]

Degenerate(fit) == fit.den = 0 \/ (fit.cos = 0 /\ fit.sin = 0)

\* The root of the mean squared error, against a residual in units of 1/One.
WithinResidual(fit, points, reference, residual) ==
  SquaredError(fit.cos, fit.sin, fit.den, Centred(points), Centred(reference))
    <= AlignmentPoints * AlignmentPoints * AlignmentPoints
         * fit.den * fit.den * residual * residual

\* The centre of a target pixel through the inverse, as a fraction of the crop.
Inverse2(fit, points, reference, input, x, y) ==
  LET n == AlignmentPoints
      dx == (2 * x + 1) * One * n - 2 * input.width * Centre(reference)[1]
      dy == (2 * y + 1) * One * n - 2 * input.height * Centre(reference)[2]
      det == fit.cos * fit.cos + fit.sin * fit.sin
      ux == fit.cos * dx * input.height + fit.sin * dy * input.width
      uy == fit.cos * dy * input.width - fit.sin * dx * input.height
      den == 2 * input.width * input.height * det * n
  IN  [x |-> Centre(points)[1] * (den \div n) + fit.den * ux,
       y |-> Centre(points)[2] * (den \div n) + fit.den * uy,
       den |-> den]

\* The point lies in the image when the crop does.
InsideImage(at, region) ==
  \A k \in {1, 2} :
    LET span == region[k + 2] - region[k]
        coordinate == IF k = 1 THEN at.x ELSE at.y
    IN  /\ region[k] * One * at.den + span * coordinate >= 0
        /\ region[k] * One * at.den + span * coordinate <= Fine * One * at.den

\* The points of the face that the reference points are for.
AlignmentLandmarks(m, landmarks) ==
  [i \in 1 .. AlignmentPoints |->
     landmarks.points[m.alignment.indices[i] + 1]]

\* preprocess_aligned_image: the refusal, or "None".  The landmarks are those
\* of a crop, which maps to the image by a similarity as well.
AlignmentRefusal(m, image, landmarks) ==
  LET a == m.alignment
      points == AlignmentLandmarks(m, landmarks)
      fit == Fit(points, a.reference)
  IN  IF ~ValidSource(m.input, image) THEN "SourceImageInvalid"
      ELSE IF landmarks.compatibility # a.landmarks
      THEN "AlignmentIncompatible"
      ELSE IF \E i \in 1 .. AlignmentPoints :
                a.indices[i] >= Len(landmarks.points)
      THEN "AlignmentInvalid"
      ELSE IF Degenerate(fit) THEN "AlignmentInvalid"
      ELSE IF ~WithinResidual(fit, points, a.reference, a.residual)
      THEN "ResidualExceeded"
      ELSE IF \E x \in 0 .. m.input.width - 1, y \in 0 .. m.input.height - 1 :
                ~InsideImage(Inverse2(fit, points, a.reference, m.input, x, y),
                             landmarks.region)
      THEN "OutsideImage"
      ELSE "None"

--------------------------------------------------------------------------------
(***************************************************************************)
(* Outputs of a graph                                                      *)
(***************************************************************************)

\* The copy run_named makes of what the graph returned, by name.
Copies(m, returned) ==
  \A i \in DOMAIN m.outputs :
    LET found == Get(returned, m.outputs[i].name)
    IN  /\ Named(returned, m.outputs[i].name) # {}
        /\ found.dims = m.outputs[i].dims
        /\ Len(found.values) = DimensionProduct(m.outputs[i].dims)
        /\ \A k \in DOMAIN found.values : found.values[k] # NaN

CopyOf(m, returned) ==
  [i \in DOMAIN m.outputs |-> Get(returned, m.outputs[i].name)]

\* exact_output of the meaning; <<>> when there is not exactly one.
ValuesOf(m, outputs, semantic) ==
  LET output == TheOutput(m, semantic)
  IN  IF /\ HasOne(m, semantic)
         /\ \E k \in DOMAIN outputs :
              Named(outputs, output.name) = {k} /\ outputs[k].dims = output.dims
      THEN Get(outputs, output.name).values ELSE <<>>

BoxAt(values, i) == [k \in 1 .. 4 |-> values[4 * i - 4 + k]]
PointAt(values, i) == [k \in 1 .. 2 |-> values[2 * i - 2 + k]]
IsBox(b) == b[1] < b[3] /\ b[2] < b[4]

\* extract_face_detections: whether it can read the outputs, and what it reads,
\* the faces that reach the confidence, by their place in the outputs.
ReadsFaces(m, outputs, confidence) ==
  LET boxes == ValuesOf(m, outputs, "Boxes")
      scores == ValuesOf(m, outputs, "Scores")
  IN  /\ m.role = "Detector" /\ Unit(confidence) /\ Len(outputs) = 2
      /\ scores # <<>> /\ Len(boxes) = 4 * Len(scores)
      /\ \A i \in DOMAIN scores : Unit(scores[i])
      /\ \A i \in DOMAIN boxes : Unit(boxes[i])
      /\ \A i \in DOMAIN scores :
           scores[i] >= confidence => IsBox(BoxAt(boxes, i))

Detections(m, outputs, confidence) ==
  LET boxes == ValuesOf(m, outputs, "Boxes")
      scores == ValuesOf(m, outputs, "Scores")
  IN  [i \in {k \in DOMAIN scores : scores[k] >= confidence} |->
         [box |-> BoxAt(boxes, i), score |-> scores[i]]]

Area(b) == (b[3] - b[1]) * (b[4] - b[2])
Overlap(a, b) ==
  Larger(Smaller(a[3], b[3]) - Larger(a[1], b[1]), 0)
    * Larger(Smaller(a[4], b[4]) - Larger(a[2], b[2]), 0)

\* intersection_over_union > iou, without the division.
SameFace(a, b, iou) ==
  Overlap(a, b) * One > iou * (Area(a) + Area(b) - Overlap(a, b))

SlipPrecedes(faces, i, j) == i < j
\* total_cmp of the confidence, descending, then the index.
Precedes(faces, i, j) ==
  \/ faces[i].score > faces[j].score
  \/ faces[i].score = faces[j].score /\ i < j

\* The places suppress_overlaps retains: a face is passed over when it is the
\* same as one retained before it.
Retained(faces, iou) ==
  CHOOSE kept \in SUBSET DOMAIN faces :
    \A i \in DOMAIN faces :
      (i \in kept) <=> ~\E k \in kept : /\ Precedes(faces, k, i)
                                      /\ SameFace(faces[i].box, faces[k].box, iou)

\* suppress_overlaps does not err.
Suppresses(faces, iou, limit) ==
  /\ Unit(iou) /\ limit \in 1 .. 64
  /\ Cardinality(Retained(faces, iou)) <= limit

\* derive_face_region: the square around the box, or why there is none.
SquareOf(crop, b) ==
  LET w == b[3] - b[1]
      h == b[4] - b[2]
      x == 2 * One * (b[1] + b[3]) + 2 * crop.offsetX * w
      y == 2 * One * (b[2] + b[4]) + 2 * crop.offsetY * h
      half == 2 * Larger(w, h) * crop.scale
  IN  <<x - half, y - half, x + half, y + half>>

SquareInside(crop, b) == \A k \in 1 .. 4 : SquareOf(crop, b)[k] \in 0 .. Fine

\* extract_face_landmarks with its measurements: whether it can read the
\* outputs, and what it reads.
ReadsLandmarks(m, outputs) ==
  LET n == Len(ValuesOf(m, outputs, "PointConfidence"))
      coordinates == ValuesOf(m, outputs, "Points")
      confidence == ValuesOf(m, outputs, "PointConfidence")
      pose == ValuesOf(m, outputs, "Pose")
      eyes == ValuesOf(m, outputs, "Eyes")
      limit == m.measurement
  IN  /\ m.role = "Landmarks" /\ Len(outputs) = 4
      /\ n \in MinLandmarks .. MaxLandmarks /\ Len(coordinates) = 2 * n
      /\ \A i \in 1 .. n : UnitPoint(PointAt(coordinates, i)) /\ Unit(confidence[i])
      /\ Len(pose) = 3 /\ NaN \notin {pose[1], pose[2], pose[3]}
      /\ Magnitude(pose[1]) <= limit.yaw /\ Magnitude(pose[2]) <= limit.pitch
      /\ Magnitude(pose[3]) <= limit.roll
      /\ Len(eyes) = 2 /\ UnitPoint(eyes)

FacialLandmarks(m, outputs, region) ==
  LET coordinates == ValuesOf(m, outputs, "Points")
      confidence == ValuesOf(m, outputs, "PointConfidence")
      pose == ValuesOf(m, outputs, "Pose")
      eyes == ValuesOf(m, outputs, "Eyes")
  IN  [compatibility |-> Compatibility(m), region |-> region,
       points |-> [i \in DOMAIN confidence |-> PointAt(coordinates, i)],
       count |-> Len(confidence),
       confidence |-> SumFunction(confidence),   \* of count * One
       visible |-> Cardinality({i \in DOMAIN confidence :
                                  confidence[i] >= m.measurement.visible}),
       yaw |-> pose[1], pitch |-> pose[2], roll |-> pose[3],
       eyes |-> Smaller(eyes[1], eyes[2])]

\* extract_embedding: a vector that is not zero, up to its length.
ReadsEmbedding(m, outputs) ==
  LET values == ValuesOf(m, outputs, "Embedding")
  IN  /\ m.role = "Embedding"
      /\ Len(values) \in EmbeddingSizes
      /\ \E i \in DOMAIN values : values[i] # 0

FaceEmbedding(m, outputs) ==
  [compatibility |-> Compatibility(m),
   direction |-> ValuesOf(m, outputs, "Embedding")]

\* similarity refuses vectors of different models or sizes.
Comparable(e, f) ==
  /\ e.compatibility = f.compatibility
  /\ Len(e.direction) = Len(f.direction)

\* extract_passive_liveness: a probability.
ReadsScore(m, outputs) ==
  LET values == ValuesOf(m, outputs, "LiveProbability")
  IN  m.role \in PassiveRoles /\ Len(values) = 1 /\ Unit(values[1])

PassiveScore(m, outputs) ==
  [role |-> m.role, compatibility |-> Compatibility(m),
   probability |-> ValuesOf(m, outputs, "LiveProbability")[1]]

\* validate_named_inputs: every declared input once, of its dimensions.
NamedInputs(m, tensors) ==
  LET inputs == DeclaredInputs(m)
  IN  /\ Len(tensors) = Len(inputs)
      /\ \A i \in DOMAIN inputs :
           \E k \in DOMAIN tensors :
             /\ Named(tensors, inputs[i].name) = {k}
             /\ tensors[k].dims = Dimensions(inputs[i])

================================================================================
