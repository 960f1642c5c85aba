-------------------------------- MODULE Quality --------------------------------
(***************************************************************************)
(* How faceauth-quality judges the picture of a face: the pixels of the    *)
(* region, what is measured on them, a score for each measure and the      *)
(* conservative aggregate of the scores.                                   *)
(*                                                                         *)
(* An image is a function from its pixels to their luma.  Fractions and    *)
(* scores are integers in units of 1/One, rounded down, and geometry is in *)
(* units of 1/Fine.                                                        *)
(***************************************************************************)
EXTENDS Inference

CONSTANTS
  MaxPixels,   \* ABSOLUTE_MAX_IMAGE_PIXELS
  MaxSide,     \* ABSOLUTE_MAX_IMAGE_DIMENSION
  LumaLevels   \* LUMA_LEVELS

ASSUME QualityAssumption == {MaxPixels, MaxSide, LumaLevels} \subseteq Nat \ {0}

MaxLuma == LumaLevels - 1
Luma == 0 .. MaxLuma

Components == {"exposure", "dynamicRange", "sharpness", "faceScale",
               "centering", "pose", "occlusion", "landmarkConfidence"}

--------------------------------------------------------------------------------
(***************************************************************************)
(* Calibration                                                             *)
(***************************************************************************)

ValidBand(b) ==
  /\ NaN \notin {b.rejectBelow, b.idealMin, b.idealMax, b.rejectAbove}
  /\ b.rejectBelow < b.idealMin /\ b.idealMin <= b.idealMax
  /\ b.idealMax < b.rejectAbove

ValidLower(b) == NaN \notin {b.reject, b.ideal} /\ b.reject < b.ideal

ValidDeviation(b) ==
  NaN \notin {b.reject, b.ideal} /\ 0 <= b.ideal /\ b.ideal < b.reject

ClampScore(num, den) == Larger(0, Smaller(One, (num * One) \div den))

BandScore(b, v) ==
  IF v <= b.rejectBelow \/ v >= b.rejectAbove THEN 0
  ELSE Smaller(ClampScore(v - b.rejectBelow, b.idealMin - b.rejectBelow),
               ClampScore(b.rejectAbove - v, b.rejectAbove - b.idealMax))

LowerScore(b, v) == ClampScore(v - b.reject, b.ideal - b.reject)

DeviationScore(b, v) == ClampScore(b.reject - v, b.reject - b.ideal)

ValidWeights(w) == \A c \in Components : w[c] \in 1 .. 10000

ValidQuality(q) ==
  /\ q.maxPixels \in 9 .. MaxPixels
  /\ q.minWidth \in 3 .. MaxSide /\ q.minHeight \in 3 .. MaxSide
  /\ q.minWidth * q.minHeight <= q.maxPixels
  /\ q.low \in 1 .. 49 /\ q.high \in 51 .. 99
  /\ ValidBand(q.exposure)
  /\ q.exposure.rejectBelow >= 0 /\ q.exposure.rejectAbove <= MaxLuma
  /\ q.dark < q.bright
  /\ ValidDeviation(q.clipped) /\ q.clipped.reject <= One
  /\ ValidLower(q.range) /\ q.range.reject >= 0 /\ q.range.ideal <= MaxLuma
  /\ ValidLower(q.sharpness) /\ q.sharpness.reject >= 0
  /\ q.sharpness.ideal <= 16 * MaxLuma * MaxLuma
  /\ ValidBand(q.faceFraction)
  /\ q.faceFraction.rejectBelow >= 0 /\ q.faceFraction.rejectAbove <= One
  /\ \A b \in {q.horizontal, q.vertical} :
       ValidDeviation(b) /\ 2 * b.reject <= Fine
  /\ \A b \in {q.yaw, q.pitch} : ValidDeviation(b) /\ b.reject <= 90
  /\ ValidDeviation(q.roll) /\ q.roll.reject <= 180
  /\ \A b \in {q.visibility, q.confidence} :
       ValidLower(b) /\ b.reject >= 0 /\ b.ideal <= One
  /\ ValidWeights(q.weights)
  /\ Unit(q.headroom) /\ 2 * q.headroom <= One

--------------------------------------------------------------------------------
(***************************************************************************)
(* Geometry and pixels                                                     *)
(***************************************************************************)

\* assess_landmark_frame_quality: the region of the landmarks as a geometry.
GeometryOf(landmarks) ==
  LET r == landmarks.region
  IN  [twiceX |-> r[1] + r[3], twiceY |-> r[2] + r[4],
       width |-> r[3] - r[1], height |-> r[4] - r[2],
       yaw |-> landmarks.yaw, pitch |-> landmarks.pitch,
       roll |-> landmarks.roll,
       visible |-> (landmarks.visible * One) \div landmarks.count,
       confidence |-> landmarks.confidence \div landmarks.count]

ValidGeometry(g) ==
  /\ g.width \in 1 .. Fine /\ g.height \in 1 .. Fine
  /\ Unit(g.visible) /\ Unit(g.confidence)
  /\ Magnitude(g.yaw) <= 90 /\ Magnitude(g.pitch) <= 90
  /\ Magnitude(g.roll) <= 180
  /\ g.twiceX >= g.width /\ g.twiceX + g.width <= 2 * Fine
  /\ g.twiceY >= g.height /\ g.twiceY + g.height <= 2 * Fine

ValidLayout(width, height, bytes, channels) ==
  /\ width \in 1 .. MaxSide /\ height \in 1 .. MaxSide
  /\ width * height <= MaxPixels
  /\ bytes = width * height * channels

\* Gray8View::new, YuyvView::new and the refusal of every other encoding.
QualityView(image) ==
  /\ image.format \in {"Gray8", "Yuyv"}
  /\ image.format = "Yuyv" => image.width % 2 = 0
  /\ ValidLayout(image.width, image.height, image.bytes,
                 PixelBytes(image.format))

\* The byte that holds the luma, in the two layouts a camera delivers.
LumaByte(image, x, y) ==
  (y * image.width + x) * (IF image.format = "Yuyv" THEN 2 ELSE 1)

\* Outwards to whole pixels: PixelRegion::from_geometry.
PixelRegion(image, g) ==
  LET low(twice, span, extent) == ((twice - span) * extent) \div (2 * Fine)
      high(twice, span, extent) ==
        -((-(twice + span) * extent) \div (2 * Fine))
  IN  [x0 |-> low(g.twiceX, g.width, image.width),
       x1 |-> high(g.twiceX, g.width, image.width),
       y0 |-> low(g.twiceY, g.height, image.height),
       y1 |-> high(g.twiceY, g.height, image.height)]

RegionWidth(r) == r.x1 - r.x0
RegionHeight(r) == r.y1 - r.y0
PixelsOf(r) == (r.x0 .. r.x1 - 1) \X (r.y0 .. r.y1 - 1)
InnerPixels(r) == (r.x0 + 1 .. r.x1 - 2) \X (r.y0 + 1 .. r.y1 - 2)

\* scan_luma: the histogram is kept as the number of pixels at most so bright.
AtMost(pixels, r, luma) == Cardinality({p \in PixelsOf(r) : pixels[p] <= luma})
LumaSum(pixels, r) == SumFunctionOnSet(pixels, PixelsOf(r))
PixelCount(r) == RegionWidth(r) * RegionHeight(r)

Percentile(pixels, r, percentile) ==
  LET rank == ((PixelCount(r) - 1) * percentile) \div 100
  IN  CHOOSE v \in Luma :
        /\ AtMost(pixels, r, v) > rank
        /\ v > 0 => AtMost(pixels, r, v - 1) <= rank

\* The two histogram_count_inclusive of the clipped pixels.
ClippedCount(pixels, r, q) ==
  AtMost(pixels, r, q.dark) + PixelCount(r) - AtMost(pixels, r, q.bright - 1)

Laplacian(pixels, p) ==
  4 * pixels[p] - pixels[<<p[1] - 1, p[2]>>] - pixels[<<p[1] + 1, p[2]>>]
    - pixels[<<p[1], p[2] - 1>>] - pixels[<<p[1], p[2] + 1>>]

\* scan_laplacian: the variance, times the square of the number of pixels.
LaplacianSpread(pixels, r) ==
  LET n == Cardinality(InnerPixels(r))
      at == [p \in InnerPixels(r) |-> Laplacian(pixels, p)]
      sum == SumFunction(at)
      squares == SumFunction([p \in InnerPixels(r) |-> at[p] * at[p]])
  IN  n * squares - sum * sum

--------------------------------------------------------------------------------
(***************************************************************************)
(* Scores                                                                  *)
(***************************************************************************)

Measured(image, g, q) ==
  LET r == PixelRegion(image, g)
      n == Cardinality(InnerPixels(r))
  IN  [mean |-> LumaSum(image.pixels, r) \div PixelCount(r),
       clipped |-> (ClippedCount(image.pixels, r, q) * One) \div PixelCount(r),
       range |-> Larger(0, Percentile(image.pixels, r, q.high)
                             - Percentile(image.pixels, r, q.low)),
       sharpness |-> LaplacianSpread(image.pixels, r) \div (n * n),
       fraction |-> (g.width * g.height) \div (4 * One * Fine)]

Scores(measured, g, q) ==
  [c \in Components |->
    CASE c = "exposure" ->
           Smaller(BandScore(q.exposure, measured.mean),
                   DeviationScore(q.clipped, measured.clipped))
      [] c = "dynamicRange" -> LowerScore(q.range, measured.range)
      [] c = "sharpness" -> LowerScore(q.sharpness, measured.sharpness)
      [] c = "faceScale" -> BandScore(q.faceFraction, measured.fraction)
      [] c = "centering" ->
           Smaller(DeviationScore(q.horizontal,
                                  Magnitude(g.twiceX - Fine) \div 2),
                   DeviationScore(q.vertical,
                                  Magnitude(g.twiceY - Fine) \div 2))
      [] c = "pose" ->
           Smaller(Smaller(DeviationScore(q.yaw, Magnitude(g.yaw)),
                           DeviationScore(q.pitch, Magnitude(g.pitch))),
                   DeviationScore(q.roll, Magnitude(g.roll)))
      [] c = "occlusion" -> LowerScore(q.visibility, g.visible)
      [] c = "landmarkConfidence" -> LowerScore(q.confidence, g.confidence)]

Weakest(scores) ==
  CHOOSE s \in {scores[c] : c \in Components} :
    \A c \in Components : s <= scores[c]

\* The weighted harmonic mean is (weight * scale) / reciprocals, in units of
\* 1/One; scale is a multiple of every score that is not 0.
Scale == ProductSet(1 .. One)
WeightSum(w) == SumFunctionOnSet(w, Components)
Reciprocals(scores, w) ==
  SumFunction([c \in Components |-> w[c] * (Scale \div scores[c])])

SlipAggregate(scores, w, headroom) ==
  IF Weakest(scores) = 0 THEN [num |-> 0, den |-> 1]
  ELSE [num |-> WeightSum(w) * Scale, den |-> Reciprocals(scores, w)]
\* conservative_aggregate, as the fraction num/den of 1/One.
Aggregate(scores, w, headroom) ==
  LET weakest == Weakest(scores)
      num == WeightSum(w) * Scale
      cap == Smaller(weakest + headroom, One)
  IN  IF weakest = 0 THEN [num |-> 0, den |-> 1]
      ELSE IF num <= cap * Reciprocals(scores, w)
      THEN [num |-> num, den |-> Reciprocals(scores, w)]
      ELSE [num |-> cap, den |-> 1]

AtMostFraction(a, b) == a.num * b.den <= b.num * a.den

\* assess_cancellable without its looks at the cancellation: why it refuses.
QualityRefusal(image, g, q) ==
  LET r == PixelRegion(image, g)
  IN  IF ~QualityView(image) THEN "ImageInvalid"
      ELSE IF ~ValidQuality(q) THEN "InvalidConfig"
      ELSE IF ~ValidGeometry(g) THEN "InvalidGeometry"
      ELSE IF image.width * image.height > q.maxPixels THEN "ImageTooLarge"
      ELSE IF r.x0 >= r.x1 \/ r.y0 >= r.y1 THEN "InvalidGeometry"
      ELSE IF RegionWidth(r) < q.minWidth \/ RegionHeight(r) < q.minHeight
      THEN "FaceRegionTooSmall"
      ELSE IF InnerPixels(r) = {} THEN "FaceRegionTooSmall"
      ELSE "None"

Assessed(image, g, q) ==
  Aggregate(Scores(Measured(image, g, q), g, q), q.weights, q.headroom)

================================================================================
