------------------------------ MODULE MCPerception ------------------------------
(* Small deployments and pairs for Perception: one that works, and one for    *)
(* each thing that can be wrong with it.                                      *)
EXTENDS Perception

RECURSIVE Flattened(_)
Flattened(s) == IF s = <<>> THEN <<>> ELSE Head(s) \o Flattened(Tail(s))

InputOf(name, width, height, color, layout) ==
  [name |-> name, width |-> width, height |-> height,
   channels |-> ChannelsOf(color), layout |-> layout, color |-> color,
   normalization |-> [scale |-> [c \in 1 .. ChannelsOf(color) |-> One],
                      bias |-> [c \in 1 .. ChannelsOf(color) |-> 0]]]

Visible(width, height) == InputOf("image", width, height, "Rgb", "Nchw")
InfraredInput(name) == InputOf(name, 3, 2, "Grayscale", "Nhwc")

Manifest(role, input, outs) ==
  [role |-> role, identity |-> "Sound", digest |-> role, input |-> input,
   additional |-> <<>>, alignment |-> Absent, crop |-> Absent,
   measurement |-> Absent, outputs |-> outs]

Out(name, dims, semantic) ==
  [name |-> name, dims |-> dims, semantic |-> semantic]

Detector ==
  Manifest("Detector", Visible(3, 5),
           <<Out("boxes", <<1, 3, 4>>, "Boxes"), Out("scores", <<1, 3>>, "Scores")>>)

LandmarkModel ==
  [Manifest("Landmarks", InputOf("image", 2, 3, "Bgr", "Nhwc"),
            <<Out("points", <<1, 3, 2>>, "Points"),
              Out("sure", <<1, 3>>, "PointConfidence"),
              Out("pose", <<1, 3>>, "Pose"), Out("eyes", <<1, 2>>, "Eyes")>>)
   EXCEPT !.crop = [scale |-> One, offsetX |-> 0, offsetY |-> 0],
          !.measurement = [visible |-> 2, yaw |-> 1, pitch |-> 1, roll |-> 1]]

EmbeddingModel ==
  [Manifest("Embedding", Visible(2, 2),
            <<Out("face", <<1, 2>>, "Embedding"), Out("aux", <<1, 1>>, "Auxiliary")>>)
   EXCEPT !.alignment = [landmarks |-> LandmarkModel, indices |-> <<0, 1, 2>>,
                         reference |-> <<<<1, 1>>, <<3, 1>>, <<2, 3>>>>,
                         residual |-> 1]]

Live == <<Out("live", <<1, 1>>, "LiveProbability")>>

Fusion ==
  [Manifest("PassiveFusion", InfraredInput("infrared"), Live)
   EXCEPT !.additional = <<InputOf("visible", 2, 2, "Rgb", "Nhwc")>>]

Models ==
  <<Detector, LandmarkModel, EmbeddingModel,
    Manifest("PassiveInfrared", InfraredInput("image"), Live),
    Manifest("PassiveVisible", Visible(2, 2), Live),
    Fusion>>

File(m) ==
  [regular |-> TRUE, owner |-> "root", writable |-> FALSE, parents |-> "trusted",
   bytes |-> 2, digest |-> m.digest, path |-> "model"]

Outlet(name, dims) == [name |-> name, type |-> "Float32", dims |-> dims]

GraphOf(m) ==
  [inputs |-> Reverse([i \in DOMAIN DeclaredInputs(m) |->
                Outlet(DeclaredInputs(m)[i].name,
                       Dimensions(DeclaredInputs(m)[i]))]),
   outputs |-> [i \in DOMAIN m.outputs |->
                  Outlet(m.outputs[i].name, m.outputs[i].dims)]]

Band(a, b, c, d) ==
  [rejectBelow |-> a, idealMin |-> b, idealMax |-> c, rejectAbove |-> d]
AtLeast(reject, ideal) == [reject |-> reject, ideal |-> ideal]
NoFurther(ideal, reject) == [reject |-> reject, ideal |-> ideal]

QualityConfig ==
  [maxPixels |-> 32, minWidth |-> 5, minHeight |-> 3, low |-> 10, high |-> 90,
   exposure |-> Band(0, 4, 8, 12), dark |-> 0, bright |-> 14,
   clipped |-> NoFurther(0, 4), range |-> AtLeast(0, 4),
   sharpness |-> AtLeast(0, 4), faceFraction |-> Band(0, 1, 3, 4),
   horizontal |-> NoFurther(4, 20), vertical |-> NoFurther(4, 20),
   yaw |-> NoFurther(0, 4), pitch |-> NoFurther(0, 4), roll |-> NoFurther(0, 4),
   visibility |-> AtLeast(0, 4), confidence |-> AtLeast(0, 4),
   weights |-> [c \in Components |-> IF c = "pose" THEN 2 ELSE 1],
   headroom |-> 1]

\* The value of a set with one element: what it holds is named once.
The(set) == CHOOSE x \in set : TRUE

Installed(models) ==
  [models |-> models, files |-> [i \in 1 .. 6 |-> File(models[i])],
   graphs |-> [i \in 1 .. 6 |-> GraphOf(models[i])],
   library |-> [regular |-> TRUE, owner |-> "root", writable |-> FALSE,
                parents |-> "trusted", path |-> "ort"],
   loaded |-> Absent,
   runtime |-> [library |-> "ort", intra |-> 1, inter |-> 1, bytes |-> 2,
                deadline |-> 1],
   detection |-> [confidence |-> 2, iou |-> 2, limit |-> 2],
   quality |-> QualityConfig,
   policy |-> [capture |-> [requireInfrared |-> TRUE, requireVisible |-> TRUE,
                            maxSkew |-> 2],
               minSimilarity |-> 3, minQuality |-> 1,
               passwordFallback |-> TRUE, liveness |-> "PassiveAndActive"],
   pad |-> [r \in PassiveRoles |->
              [compatibility |->
                 models[CHOOSE i \in 4 .. 6 : models[i].role = r],
               minimum |-> 2]],
   template |-> TemplateFromEmbedding(1, [compatibility |-> models[3],
                                          direction |-> <<3, 4>>])]

\* The deployment d with its i-th model replaced, installed and calibrated.
WithModel(d, i, m) ==
  [d EXCEPT !.models[i] = m, !.files[i] = File(m), !.graphs[i] = GraphOf(m)]

\* The deployment that works, and what may be different about it.
Variants(works) ==
  [works |-> works,
   lenient |-> [works EXCEPT !.detection.iou = 1, !.pad["PassiveFusion"].minimum = 0,
                             !.policy.minSimilarity = 2],
   crowded |-> [works EXCEPT !.detection.limit = 1, !.pad["PassiveFusion"] = Absent],
   strict |-> [works EXCEPT !.policy.capture.maxSkew = 1],
   wide |-> WithModel(works, 2, [works.models[2] EXCEPT !.crop.scale = 5]),
   otherLandmarks |-> WithModel(works, 2, [works.models[2] EXCEPT !.digest = "other"]),
   otherEmbedding |-> WithModel(works, 3, [works.models[3] EXCEPT !.digest = "other"]),
   otherPassive |-> WithModel(works, 5, [works.models[5] EXCEPT !.digest = "other"]),
   farIndex |-> WithModel(works, 3, [works.models[3] EXCEPT !.alignment.indices[3] = 3]),
   oddDetector |->
     WithModel(works, 1, [works.models[1] EXCEPT
                            !.outputs[2] = Out("scores", <<1, 2>>, "Scores")]),
   swapped |-> WithModel(WithModel(works, 4, works.models[5]), 5, works.models[4]),
   untrusted |-> [works EXCEPT !.files[2].writable = TRUE],
   otherFile |-> [works EXCEPT !.files[3].digest = "other"],
   otherGraph |-> [works EXCEPT !.graphs[6] = works.graphs[1]],
   otherRuntime |-> [works EXCEPT !.loaded = "elsewhere"],
   badQuality |-> [works EXCEPT !.quality.headroom = 3],
   smallPicture |-> [works EXCEPT !.quality.maxPixels = 9]]

MCDeployments ==
  The({Variants(works) : works \in {Installed(models) : models \in {Models}}})

Picture(width, height, format, bytes, luma(_, _)) ==
  [width |-> width, height |-> height, format |-> format, bytes |-> bytes,
   pixels |-> [p \in (0 .. width - 1) \X (0 .. height - 1) |-> luma(p[1], p[2])]]

Textured(x, y) == (5 * x + 3 * y * y) % 12
Flat(x, y) == 6

Infrared == Picture(4, 4, "Gray8", 16, Flat)
Seen == Picture(8, 4, "Yuyv", 64, Textured)
Together == [infrared |-> 3, visible |-> 5]

Deliveries(infrared, seen) ==
  [good |-> [infrared |-> infrared, visible |-> seen, timing |-> Together],
   flat |-> [infrared |-> infrared, visible |-> Picture(8, 4, "Yuyv", 64, Flat),
             timing |-> Together],
   short |-> [infrared |-> infrared,
              visible |-> [seen EXCEPT !.bytes = 63], timing |-> Together],
   grey |-> [infrared |-> infrared, visible |-> infrared, timing |-> Together],
   packed |-> [infrared |-> [infrared EXCEPT !.format = "Mjpeg"],
               visible |-> seen, timing |-> Together]]

MCPairs ==
  The({Deliveries(infrared, seen) : infrared \in {Infrared}, seen \in {Seen}})

Tensor(name, dims, values) == [name |-> name, dims |-> dims, values |-> values]

Surety(s) == Tensor("scores", <<1, Len(s)>>, s)
Faces(a, b, c, s) == <<Tensor("boxes", <<1, 3, 4>>, a \o b \o c), Surety(s)>>

Left == <<0, 0, 3, 3>>
Wider == <<0, 0, 4, 3>>
Right == <<1, 1, 4, 4>>
Small == <<0, 0, 2, 2>>
Flipped == <<2, 2, 2, 4>>

Detected ==
  {Faces(Left, Wider, Right, s) :
     s \in {<<4, 2, 0>>, <<2, 4, 0>>, <<2, 2, 4>>, <<0, 1, 0>>, <<4, 0, 5>>}}
  \cup {Faces(Left, Small, Right, s) : s \in {<<4, 2, 0>>, <<1, 0, 2>>}}
  \cup {Faces(Left, Flipped, <<0, 0, 4, 2>>, s) :
          s \in {<<4, 0, 0>>, <<4, 4, 0>>, <<0, 0, 4>>}}
  \cup {<<Surety(<<4, 0, 0>>)>>,
        Faces(Left, Left, Left, <<4, 0>>),
        Faces(Left, <<0, 0, 3, NaN>>, Left, <<4, 0, 0>>)}

Marks(points, sure, pose, eyes) ==
  <<Tensor("points", <<1, 3, 2>>, Flattened(points)),
    Tensor("sure", <<1, 3>>, sure), Tensor("pose", <<1, 3>>, pose),
    Tensor("eyes", <<1, 2>>, eyes)>>

Straight == <<<<1, 1>>, <<3, 1>>, <<2, 3>>>>
Turned == <<<<1, 3>>, <<1, 1>>, <<3, 2>>>>

Marked ==
  {Marks(points, <<4, 4, 4>>, <<0, 0, 0>>, <<4, 4>>) :
     points \in {Straight, Turned, <<<<1, 1>>, <<3, 1>>, <<2, 4>>>>,
                 <<<<1, 1>>, <<2, 1>>, <<1, 2>>>>, <<<<2, 1>>, <<4, 1>>, <<3, 3>>>>,
                 <<<<2, 2>>, <<2, 2>>, <<2, 2>>>>, <<<<1, 1>>, <<3, 1>>, <<2, 5>>>>,
                 <<<<3, 1>>, <<1, 1>>, <<2, 3>>>>}}
  \cup {Marks(Straight, <<4, 0, 0>>, <<0, 0, 0>>, <<4, 4>>),
        Marks(Straight, <<4, 4, 4>>, <<1, 0, -1>>, <<4, 1>>),
        Marks(Straight, <<4, 4, 4>>, <<0, 2, 0>>, <<4, 4>>)}

Embedded ==
  {<<Tensor("face", <<1, 2>>, v), Tensor("aux", <<1, 1>>, <<7>>)>> :
     v \in {<<3, 4>>, <<5, 0>>, <<0, 0>>}}
  \cup {<<Tensor("face", <<2>>, <<3, 4>>), Tensor("aux", <<1, 1>>, <<7>>)>>}

MCReturned(role) ==
  CASE role = "Detector" -> Detected
    [] role = "Landmarks" -> Marked
    [] role = "Embedding" -> Embedded
    [] OTHER -> {<<Tensor("live", <<1, 1>>, <<v>>)>> : v \in {1, 2, 5}}

================================================================================
