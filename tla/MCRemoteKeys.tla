---------------------------- MODULE MCRemoteKeys ----------------------------
(* The instances of RemoteKeys that TLC checks. *)
EXTENDS RemoteKeys, TLC

Symmetry == Permutations(Call) \cup Permutations(Kid)
=============================================================================
