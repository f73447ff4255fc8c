------------------------- MODULE MCDebugIterators -------------------------
(* Model-checking instance of DebugIterators. *)
EXTENDS DebugIterators, TLC

\* Addresses are compared for equality only.
Addresses == Permutations(Buffer) \cup Permutations(Iterator)
=============================================================================
