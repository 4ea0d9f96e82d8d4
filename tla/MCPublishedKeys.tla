-------------------------- MODULE MCPublishedKeys --------------------------
(* The instances of PublishedKeys that TLC checks. *)
EXTENDS PublishedKeys, TLC

\* Every process has a name of its own, as NewPublished requires.
UniqueNames == [p \in Process |-> p]

\* All processes run in one pod, one after the other: POD_NAME is the same.
OnePod == [p \in Process |-> "pod-0"]

Symmetry == Permutations(Process)
=============================================================================
