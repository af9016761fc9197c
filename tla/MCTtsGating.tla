---------------------------- MODULE MCTtsGating ----------------------------
(* Instances of TtsGating for the model checker. *)
EXTENDS TtsGating, TLC

CONSTANTS c1, c2, p1, p2, p3, b1, b2

(* One call with every playback on it. *)
OneCall == {c1}
AllOnC1 == [p \in Playbacks |-> c1]

(* Two calls, the first with all but one playback. *)
TwoCalls == {c1, c2}
SplitCalls == [p \in Playbacks |-> IF p = p1 THEN c2 ELSE c1]

(* The playbacks of one call are interchangeable, and so are the bargers. *)
Symmetry == Permutations(Playbacks) \cup Permutations(Bargers)
=============================================================================
