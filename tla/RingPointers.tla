---------------------------- MODULE RingPointers ----------------------------
(***************************************************************************)
(* The pointer arithmetic of boost::circular_buffer                        *)
(* (include/boost/circular_buffer/base.hpp and details.hpp).               *)
(*                                                                         *)
(* A pointer into the internal buffer is its offset from m_buff, so m_buff *)
(* is 0 and m_end is cap.  The operators repeat the comparisons of the     *)
(* source and never use a remainder: that they wrap correctly is proved    *)
(* in RingPointers_proofs and checked on the way by every run.             *)
(***************************************************************************)
EXTENDS Integers

\* An iterator whose m_it is 0: the iterator returned by end().
NULL == -1

Slots(cap) == 0 .. cap - 1

\* What m_first and m_last may hold; without a buffer both are m_buff.
Pointers(cap) == IF cap = 0 THEN {0} ELSE Slots(cap)

\* Mutant: the wrap at m_end is missing.
IncrementPastEnd(p, cap) == p + 1

\* increment(p): ++p, wrapped to m_buff at m_end.
Increment(p, cap) == IF p + 1 = cap THEN 0 ELSE p + 1

\* decrement(p): wrapped to m_end before --p.
Decrement(p, cap) == IF p = 0 THEN cap - 1 ELSE p - 1

\* add(p, n): p moved n elements forward.
Add(p, n, cap) == p + (IF n < cap - p THEN n ELSE n - cap)

\* sub(p, n): p moved n elements backward.
Sub(p, n, cap) == p - (IF n > p THEN n - cap ELSE n)

\* linearize_pointer: how far p lies behind first, walking forward.
Index(p, first, cap) == IF p < first THEN p + (cap - first) ELSE p - first

\* The slots a buffer with these members holds elements in.
Window(first, size, cap) == {p \in Slots(cap) : Index(p, first, cap) < size}
=============================================================================
