--------------------------- MODULE MCSessionStore ---------------------------
EXTENDS SessionStore, TLC

(* The workers run the same program: any permutation of them is a symmetry.*)
Symmetry == Permutations(Workers)

=============================================================================
