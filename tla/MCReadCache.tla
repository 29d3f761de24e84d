----------------------------- MODULE MCReadCache -----------------------------
(* Small instances of ReadCache. *)
EXTENDS ReadCache, TLC

\* Goroutines are interchangeable; keys are too, but AnyKey picks one of them.
MCSymmetry == Permutations(Readers) \cup Permutations(Writers)
=============================================================================
