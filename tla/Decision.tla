-------------------------------- MODULE Decision -------------------------------
(***************************************************************************)
(* How the evidence of one observation is decided: the policy of           *)
(* faceauth-core, the contracts of the passive models and the comparison   *)
(* with the template, up to the code the client is told.                   *)
(***************************************************************************)
EXTENDS Inference

DecisionCodes == {"Accepted", "InfraredMissing", "VisibleMissing",
                  "InsufficientQuality", "PassiveLivenessFailed",
                  "ActiveChallengeFailed", "FaceMismatch", "InternalError"}

\* A quantity that may be a fraction against a number in units of 1/One.
Below(fraction, bound) == fraction.num < bound * fraction.den
UnitFraction(f) == f.num >= 0 /\ f.num <= One * f.den

ValidCapture(c) == c.requireInfrared /\ c.maxSkew > 0

\* CapturePolicy::accepts: a pair of frames, the visible one perhaps Absent.
AcceptsTiming(c, timing) ==
  /\ ValidCapture(c)
  /\ IF timing.visible = Absent THEN ~c.requireVisible
     ELSE Magnitude(timing.infrared - timing.visible) <= c.maxSkew

ValidPolicy(p) ==
  /\ ValidCapture(p.capture)
  /\ Unit(p.minSimilarity) /\ Unit(p.minQuality)
  /\ p.passwordFallback

Reason(p, e) ==
  IF e.infrared # "Observed" THEN "InfraredMissing"
  ELSE IF p.capture.requireVisible /\ e.visible # "Observed"
  THEN "VisibleMissing"
  ELSE IF Below(e.quality, p.minQuality) THEN "InsufficientQuality"
  ELSE IF e.passive # "Passed" THEN "PassiveLivenessFailed"
  ELSE IF p.liveness = "PassiveAndActive" /\ e.active # "Passed"
  THEN "ActiveChallengeFailed"
  ELSE IF Below(e.similarity, p.minSimilarity) THEN "FaceMismatch"
  ELSE "Accepted"

\* AuthPolicy::evaluate; Absent stands for PolicyError.
Evaluate(p, e) ==
  IF ValidPolicy(p) /\ UnitFraction(e.similarity) /\ UnitFraction(e.quality)
  THEN Reason(p, e) ELSE Absent

--------------------------------------------------------------------------------

ValidPad(pad) ==
  /\ \A role \in {"PassiveInfrared", "PassiveVisible"} : Unit(pad[role].minimum)
  /\ pad["PassiveFusion"] # Absent => Unit(pad["PassiveFusion"].minimum)

\* The places of a role's scores.
OfRole(scores, role) == {i \in DOMAIN scores : scores[i].role = role}

SlipExactScore(pad, scores, role) ==
  \E i \in DOMAIN scores : OfRole(scores, role) = {i}
\* exact_pad_score: one score of the role, by the model it was calibrated for.
ExactScore(pad, scores, role) ==
  \E i \in DOMAIN scores :
    /\ OfRole(scores, role) = {i}
    /\ scores[i].compatibility = pad[role].compatibility

RequiredRoles(pad) == {role \in PassiveRoles : pad[role] # Absent}

\* PassivePadPolicy::accepts: "Invalid" is an error, not a failed check.
PassiveStatus(pad, scores) ==
  IF ~ValidPad(pad)
     \/ \E role \in RequiredRoles(pad) : ~ExactScore(pad, scores, role)
  THEN "Invalid"
  ELSE IF /\ \A role \in RequiredRoles(pad) :
               \A i \in OfRole(scores, role) :
                 scores[i].probability >= pad[role].minimum
          /\ pad["PassiveFusion"] = Absent =>
               OfRole(scores, "PassiveFusion") = {}
       THEN "Passed" ELSE "Failed"

--------------------------------------------------------------------------------

Dot(v, w) == SumFunction([i \in DOMAIN v |-> v[i] * w[i]])

\* Directions are given by vectors of integral length.
VectorLength(v) == CHOOSE n \in 0 .. Dot(v, v) : n * n = Dot(v, v)

\* The cosine mapped to 0 .. 1, as a fraction of 1/One.
Similarity(e, f) ==
  LET n == VectorLength(e.direction) * VectorLength(f.direction)
  IN  [num |-> One * (n + Dot(e.direction, f.direction)), den |-> 2 * n]

TemplateFromEmbedding(uid, e) ==
  [uid |-> uid, compatibility |-> e.compatibility, direction |-> e.direction]

\* require_compatibility and from_normalized_template, before the comparison.
TemplateUsable(t, e) ==
  Comparable(t, e) /\ Len(t.direction) \in EmbeddingSizes

\* complete_authentication without the session; Absent is a failed load.
DecisionCode(p, pad, t, o) ==
  LET passive == PassiveStatus(pad, o.scores)
      verdict == Evaluate(p,
        [similarity |-> Similarity(o.embedding, t), quality |-> o.quality,
         infrared |-> "Observed", visible |-> "Observed", passive |-> passive,
         active |-> IF o.challenge = "Passed" THEN "Passed" ELSE "Failed"])
  IN  IF /\ t # Absent
         /\ AcceptsTiming(p.capture, o.timing)
         /\ TemplateUsable(t, o.embedding)
         /\ passive # "Invalid"
         /\ verdict # Absent
      THEN verdict ELSE "InternalError"

================================================================================
