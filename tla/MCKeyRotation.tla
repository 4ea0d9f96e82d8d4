--------------------------- MODULE MCKeyRotation ---------------------------
(* The instances of KeyRotation that TLC checks. *)
EXTENDS KeyRotation, TLC

Symmetry == Permutations(Token) \cup Permutations(Attempt)
=============================================================================
