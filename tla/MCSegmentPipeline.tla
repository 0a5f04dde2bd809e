------------------------- MODULE MCSegmentPipeline -------------------------
(* Small instances of SegmentPipeline for TLC.                             *)
EXTENDS SegmentPipeline, TLC

CONSTANTS a, b, c, d

(* The text under c is as long as the character limit.                      *)
MCIds  == {a, b, c, d}
MCSize == [i \in MCIds |-> IF i = c THEN 3 ELSE 1]
MCTwoIds  == {a, b}
MCTwoSize == [i \in MCTwoIds |-> 1]

(* a, b and d carry texts of the same length.                               *)
MCSymmetry == Permutations({a, b, d})
============================================================================
