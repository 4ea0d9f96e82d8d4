----------------------------- MODULE MCWaitGate -----------------------------
(* The instances of WaitGate that TLC checks. *)
EXTENDS WaitGate, TLC

\* Calls are interchangeable, and so are backends.
Symmetry == Permutations(Request) \cup Permutations(Backend)
=============================================================================
