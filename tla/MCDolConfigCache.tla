--------------------------- MODULE MCDolConfigCache ---------------------------
(* Small instances of DolConfigCache. *)
EXTENDS DolConfigCache, TLC

\* Goroutines are interchangeable.
MCSymmetry == Permutations(Callers)
=============================================================================
