----------------------------- MODULE MCObservation -----------------------------
(* Cameras for Observation.  The infrared one delivers a frame in each unit  *)
(* of time, or the old buffer with a new time; the visible one delivers its  *)
(* next frame two units later, or at the same time as the one before.        *)
EXTENDS Observation

MCInfraredSteps == {<<1, 1>>, <<0, 1>>}
MCVisibleSteps == {<<1, 2>>, <<1, 0>>}

================================================================================
