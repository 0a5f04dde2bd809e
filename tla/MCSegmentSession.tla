------------------------- MODULE MCSegmentSession -------------------------
(* Small instances of SegmentSession for TLC.                              *)
EXTENDS SegmentSession

CONSTANTS a, b, c

MCIds == {a, b, c}
(* The text under b is longer than the waiting limit.                       *)
MCSize == [i \in MCIds |-> IF i = b THEN 2 ELSE 1]
============================================================================
