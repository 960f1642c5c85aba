--------------------------- MODULE MCActiveChallenge ---------------------------
(* Small inputs for ActiveChallenge: a visible frame at each time, an        *)
(* infrared frame with it or too early, sequence numbers modulo two.         *)
EXTENDS ActiveChallenge

CONSTANTS Horizon, MaxSequence, MaxFaces

Times == 0..Horizon
Paired(s, v, t, u, f, p) ==
  [infrared |-> [sequence |-> s, time |-> t],
   visible |-> [sequence |-> v, time |-> u], faces |-> f, pose |-> p]

\* Every pose at every time with every pair of sequence numbers; a missing and
\* a second face, and frames apart by the skew and by more, once for each time.
MCObservations ==
  {Paired(s, v, t, t, 1, p) :
     s \in 0..MaxSequence, v \in 0..MaxSequence, t \in Times, p \in Poses}
  \cup {Paired(0, 0, t, t, f, "action") : f \in 0..MaxFaces, t \in Times}
  \cup {Paired(1, 1, t + d, t, 1, "action") : d \in 1..(MaxSkew + 1), t \in Times}
  \cup {Paired(1, 1, t, t + d, 1, "neutral") : d \in 1..(MaxSkew + 1), t \in Times}

MCIssues == {1}

================================================================================
