---------------------------- MODULE MCDocuments ----------------------------
EXTENDS Documents, TLC

(* Uploads are alike, and so are requests; documents have an order. *)
Symmetry == Permutations(Uploads) \cup Permutations(Requests)

=============================================================================
