--------------------------- MODULE MCCorpusIndices ---------------------------
(* Administrators are interchangeable. *)
EXTENDS CorpusIndices, TLC

AdminSymmetry == Permutations(Admins)

=============================================================================
