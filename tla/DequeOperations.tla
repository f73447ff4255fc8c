-------------------------- MODULE DequeOperations --------------------------
(***************************************************************************)
(* What each operation of a circular buffer is documented to do, as pure   *)
(* functions of the contents s and the capacity cap.  BoundedDeque states  *)
(* with them what boost::circular_buffer promises; SpaceOptimized uses     *)
(* them for the calls it makes of its base class, with the capacity of the *)
(* internal buffer, and for its own promise, with its own capacity.        *)
(*                                                                         *)
(* A call is a record: op, positions i and j, an item x.  Positions are    *)
(* counted from 1 and Len(s) + 1 stands for end(); insert_n and rinsert_n  *)
(* insert j copies of x at i, resize and rresize have the new size in i.   *)
(***************************************************************************)
EXTENDS Sequences, Integers

Lesser(m, n) == IF m < n THEN m ELSE n

InsertAt(s, i, x) == SubSeq(s, 1, i - 1) \o <<x>> \o SubSeq(s, i, Len(s))

Without(s, i, j) == SubSeq(s, 1, i - 1) \o SubSeq(s, j, Len(s))

Copies(n, x) == [k \in 1 .. n |-> x]

FirstOf(s, m) == SubSeq(s, 1, Lesser(m, Len(s)))
LastOf(s, m)  == SubSeq(s, Len(s) - Lesser(m, Len(s)) + 1, Len(s))

\* The preconditions: the BOOST_CB_ASSERTs.
Allowed(c, s) ==
    LET n == Len(s) IN
    CASE c.op \in {"pop_back", "pop_front"}       -> n > 0
      [] c.op \in {"insert", "rinsert", "insert_n", "rinsert_n"} -> c.i \in 1 .. n + 1
      [] c.op \in {"erase", "rerase", "rotate"}   -> c.i \in 1 .. n
      [] c.op \in {"erase_range", "rerase_range"} -> c.i \in 1 .. c.j /\ c.j \in 1 .. n + 1
      [] OTHER -> TRUE

\* After each operation: <<contents, capacity, position of the iterator
\* returned (0: none)>>.

\* A full buffer overwrites the element at the other end.
PushBackOutcome(s, x, cap)  == <<LastOf(Append(s, x), cap), cap, 0>>
PushFrontOutcome(s, x, cap) == <<FirstOf(<<x>> \o s, cap), cap, 0>>

PopBackOutcome(s, cap)  == <<SubSeq(s, 1, Len(s) - 1), cap, 0>>
PopFrontOutcome(s, cap) == <<Tail(s), cap, 0>>

\* A full buffer drops its first element; at begin() that is the item itself.
InsertOutcome(s, i, x, cap) ==
    IF Len(s) # cap THEN <<InsertAt(s, i, x), cap, i>>
    ELSE IF i = 1 THEN <<s, cap, 1>>
    ELSE <<Tail(InsertAt(s, i, x)), cap, i - 1>>

\* A full buffer drops its last element; at end() that is the item itself.
RInsertOutcome(s, i, x, cap) == <<FirstOf(InsertAt(s, i, x), cap), cap, i>>

WithCopies(s, i, n, x) == SubSeq(s, 1, i - 1) \o Copies(n, x) \o SubSeq(s, i, Len(s))

InsertNOutcome(s, i, n, x, cap)  == <<LastOf(WithCopies(s, i, n, x), cap), cap, 0>>
RInsertNOutcome(s, i, n, x, cap) == <<FirstOf(WithCopies(s, i, n, x), cap), cap, 0>>

\* erase returns the element behind the removed ones, ...
EraseOutcome(s, i, cap)         == <<Without(s, i, i + 1), cap, i>>
EraseRangeOutcome(s, i, j, cap) == <<Without(s, i, j), cap, i>>

\* ... rerase the one in front of them, or begin(); an empty range its first.
REraseOutcome(s, i, cap) == <<Without(s, i, i + 1), cap, IF i = 1 THEN 1 ELSE i - 1>>
REraseRangeOutcome(s, i, j, cap) ==
    <<Without(s, i, j), cap, IF i = j \/ i = 1 THEN i ELSE i - 1>>

ClearOutcome(cap) == << <<>>, cap, 0>>

\* set_capacity drops elements from the back, rset_capacity from the front.
SetCapacityOutcome(s, n)  == <<FirstOf(s, n), n, 0>>
RSetCapacityOutcome(s, n) == <<LastOf(s, n), n, 0>>

\* resize works at the back, rresize at the front; both may raise the capacity.
ResizeOutcome(s, n, x, cap) ==
    <<FirstOf(s, n) \o Copies(n - Lesser(Len(s), n), x), IF n > cap THEN n ELSE cap, 0>>
RResizeOutcome(s, n, x, cap) ==
    <<Copies(n - Lesser(Len(s), n), x) \o LastOf(s, n), IF n > cap THEN n ELSE cap, 0>>

RotateOutcome(s, i, cap) == <<SubSeq(s, i, Len(s)) \o SubSeq(s, 1, i - 1), cap, 0>>

After(c, s, cap) ==
    CASE c.op = "push_back"     -> PushBackOutcome(s, c.x, cap)
      [] c.op = "push_front"    -> PushFrontOutcome(s, c.x, cap)
      [] c.op = "pop_back"      -> PopBackOutcome(s, cap)
      [] c.op = "pop_front"     -> PopFrontOutcome(s, cap)
      [] c.op = "insert"        -> InsertOutcome(s, c.i, c.x, cap)
      [] c.op = "rinsert"       -> RInsertOutcome(s, c.i, c.x, cap)
      [] c.op = "insert_n"      -> InsertNOutcome(s, c.i, c.j, c.x, cap)
      [] c.op = "rinsert_n"     -> RInsertNOutcome(s, c.i, c.j, c.x, cap)
      [] c.op = "erase"         -> EraseOutcome(s, c.i, cap)
      [] c.op = "erase_range"   -> EraseRangeOutcome(s, c.i, c.j, cap)
      [] c.op = "rerase"        -> REraseOutcome(s, c.i, cap)
      [] c.op = "rerase_range"  -> REraseRangeOutcome(s, c.i, c.j, cap)
      [] c.op = "clear"         -> ClearOutcome(cap)
      [] c.op = "set_capacity"  -> SetCapacityOutcome(s, c.i)
      [] c.op = "rset_capacity" -> RSetCapacityOutcome(s, c.i)
      [] c.op = "resize"        -> ResizeOutcome(s, c.i, c.x, cap)
      [] c.op = "rresize"       -> RResizeOutcome(s, c.i, c.x, cap)
      [] c.op = "rotate"        -> RotateOutcome(s, c.i, cap)

\* Operations that leave the contents as they were when they throw.
Strong == {"push_back", "push_front", "set_capacity", "rset_capacity"}

\* The contents an operation may leave when it throws.  The basic guarantee:
\* the elements are old ones, copies of them, the item, or (for types that are
\* moved) left in the moved-from state; none is lost, and an insertion may have
\* added some.  rotate stops part of the way round.
Interrupted(c, s, cap, Moved) ==
    LET n     == Len(s)
        Old   == {s[k] : k \in 1 .. n} \cup {c.x, Moved}
        added == CASE c.op \in {"insert_n", "rinsert_n"} -> c.j
                   [] c.op \in {"insert", "rinsert"}     -> 1
                   [] OTHER                              -> 0
    IN  CASE c.op \in Strong   -> {s}
          [] c.op = "rotate"   -> {SubSeq(s, k, n) \o SubSeq(s, 1, k - 1) : k \in 1 .. n}
          [] OTHER -> UNION {[1 .. m -> Old] : m \in n .. Lesser(cap, n + added)}
=============================================================================
