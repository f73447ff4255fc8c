-------------------------- MODULE MCCircularBuffer --------------------------
(* Model-checking instance of CircularBuffer. *)
EXTENDS CircularBuffer, TLC

\* The fate of the buffer does not depend on the values it holds.
ValueSymmetry == Permutations(Value)
=============================================================================
