---------------------------- MODULE MCSharedText ----------------------------
(* Symmetry of the browsers, for the runs of SharedText.                     *)
EXTENDS SharedText, TLC

Symmetry == Permutations(Browsers)
=============================================================================
