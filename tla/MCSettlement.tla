--------------------------- MODULE MCSettlement ---------------------------
(* Settlement on small sets; payments and materials are interchangeable. *)
EXTENDS Settlement, TLC
Symmetry == Permutations(Payments) \cup Permutations(Materials)
=============================================================================
