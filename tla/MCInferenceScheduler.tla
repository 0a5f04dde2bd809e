----------------------- MODULE MCInferenceScheduler -----------------------
(* Small instances of InferenceScheduler for TLC.                          *)
EXTENDS InferenceScheduler, TLC

CONSTANTS f1, f2, f3, c1, c2

(* Three frames, one of them undecodable, and one close(): enough for a     *)
(* batch of two to run with a frame still queued behind it.                 *)
MCFrames    == {f1, f2, f3}
MCBadFrames == {f3}
MCClosers   == {c1}

(* Two frames and two close() calls: a second _STOP reaches the worker.     *)
MCTwoFrames   == {f1, f3}
MCTwoClosers  == {c1, c2}

(* f1 and f2 are both good frames; two close() calls are alike.             *)
MCSymmetry == Permutations({f1, f2}) \cup Permutations({c1, c2})
===========================================================================
