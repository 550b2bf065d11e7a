--------------------------- MODULE MCTaskAttempt ---------------------------
(* Instances of TaskAttempt for TLC: goroutine slots are interchangeable.  *)
EXTENDS TaskAttempt, TLC

Symmetry == Permutations(Gor)
=============================================================================
