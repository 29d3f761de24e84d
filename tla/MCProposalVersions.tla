-------------------------- MODULE MCProposalVersions --------------------------
(* Small instances of ProposalVersions. *)
EXTENDS ProposalVersions, TLC

\* Goroutines are interchangeable.
MCSymmetry == Permutations(Readers)
=============================================================================
