------------------------------ MODULE Linearize ------------------------------
(***************************************************************************)
(* circular_buffer::linearize() (base.hpp), the in-place algorithm that    *)
(* turns a wrapped buffer into one whose elements start at m_buff.         *)
(*                                                                         *)
(* It is called on every state CircularBuffer can be in between two calls: *)
(* any capacity, any m_first, any size, the window of live slots being     *)
(* what LiveIsWindow and PointersAgree say.  The algorithm never looks at  *)
(* a value, so the k-th element simply holds k.                            *)
(***************************************************************************)
EXTENDS RingPointers, FiniteSets

CONSTANT MaxCapacity    \* bound on the capacities a run explores

ASSUME LinearizeAssumption == MaxCapacity \in Nat

Raw   == 0      \* an uninitialized slot; elements are 1, 2, ...
Moved == -1     \* a live element that was moved from

VARIABLES
    nothrow,                        \* is_nothrow_move_constructible<T>
    cap, first, last, size, mem,    \* the buffer
    pc,                             \* "call", "outer", "inner", "done" or "threw"
    src, dest, from,                \* local pointers; from is the inner "first"
    ii, moved, constructed,         \* local counters
    result,                         \* the pointer returned
    count,                          \* history: the size when linearize was called
    fault                           \* history: an element life-cycle rule was broken

buffer == <<cap, first, last, size>>
lvars  == <<nothrow, buffer, mem, pc, src, dest, from, ii, moved, constructed, result, count, fault>>

\* Mutant: off by one at m_last.
UninitializedBehindLast(p) == p > last /\ (first < last \/ p < first)

is_uninitialized(p) == p >= last /\ (first < last \/ p < first)

\* Also the second early return of linearize().
is_linearized == first < last \/ last = 0

MovedFrom(v) == IF nothrow THEN Moved ELSE v

Live == {p \in Slots(cap) : mem[p] # Raw}

Elem(k) == mem[Add(first, k, cap)]

Init ==
    /\ nothrow \in BOOLEAN
    /\ cap \in 0 .. MaxCapacity
    /\ first \in (IF cap = 0 THEN {0} ELSE Slots(cap))
    /\ size \in 0 .. cap
    /\ last = Add(first, size, cap)
    /\ mem = [p \in Slots(cap) |->
                IF Index(p, first, cap) < size THEN Index(p, first, cap) + 1 ELSE Raw]
    /\ pc = "call"
    /\ src = 0 /\ dest = 0 /\ from = 0 /\ ii = 0 /\ moved = 0 /\ constructed = 0
    /\ result = NULL /\ count = size /\ fault = FALSE

\* The two early returns: nothing to do, or linearized already.
Enter ==
    /\ pc = "call"
    /\ IF size = 0 \/ is_linearized
       THEN /\ pc' = "done"
            /\ result' = IF size = 0 THEN NULL ELSE first
            /\ UNCHANGED <<src, from>>
       ELSE /\ pc' = "outer"
            /\ src' = first /\ from' = first
            /\ UNCHANGED result
    /\ UNCHANGED <<nothrow, buffer, mem, dest, ii, moved, constructed, count, fault>>

\* for (first = m_first; dest < src; src = first)
Outer ==
    /\ pc = "outer" /\ dest < src
    /\ ii' = 0
    /\ pc' = "inner"
    /\ UNCHANGED <<nothrow, buffer, mem, src, dest, from, moved, constructed, result, count, fault>>

\* Mutant: does not stop the outer loop once every element was moved.
BreakForgetsDone ==
    /\ pc = "inner"
    /\ from' = IF src < cap /\ dest = from THEN from + ii ELSE from
    /\ src = cap \/ moved = size \/ dest = from
    /\ src' = from'
    /\ pc' = "outer"
    /\ UNCHANGED <<nothrow, buffer, mem, dest, ii, moved, constructed, result, count, fault>>

\* Mutant: the next round starts where this one did.
BreakStartsOver ==
    /\ pc = "inner"
    /\ from' = IF src < cap /\ moved = size THEN dest ELSE from
    /\ src = cap \/ moved = size \/ dest = from
    /\ src' = from'
    /\ pc' = "outer"
    /\ UNCHANGED <<nothrow, buffer, mem, dest, ii, moved, constructed, result, count, fault>>

\* The inner loop ends: at m_end, when every element was moved, or when dest
\* caught up with the slots already moved out of.
Break ==
    /\ pc = "inner"
    /\ from' = IF src < cap /\ moved = size THEN dest
               ELSE IF src < cap /\ dest = from THEN from + ii
               ELSE from
    /\ src = cap \/ moved = size \/ dest = from
    /\ src' = from'
    /\ pc' = "outer"
    /\ UNCHANGED <<nothrow, buffer, mem, dest, ii, moved, constructed, result, count, fault>>

InLoop == pc = "inner" /\ src < cap /\ moved # size /\ dest # from

Advance ==
    /\ src' = src + 1 /\ dest' = dest + 1 /\ moved' = moved + 1 /\ ii' = ii + 1
    /\ UNCHANGED <<nothrow, buffer, pc, from, result, count>>

\* construct(dest, move_if_noexcept(*src))
MoveIntoFree ==
    /\ InLoop /\ is_uninitialized(dest)
    /\ mem' = [mem EXCEPT ![dest] = mem[src], ![src] = MovedFrom(@)]
    /\ fault' = (fault \/ mem[dest] # Raw \/ mem[src] = Raw)
    /\ constructed' = constructed + 1
    /\ Advance

\* Mutant: the temporary is not put back.
SwapForgetsDest ==
    /\ InLoop /\ ~is_uninitialized(dest)
    /\ mem' = [mem EXCEPT ![src] = mem[dest]]
    /\ fault' = (fault \/ mem[dest] = Raw \/ mem[src] = Raw)
    /\ UNCHANGED constructed
    /\ Advance

\* tmp = *src; replace(src, *dest); replace(dest, tmp)
Swap ==
    /\ InLoop /\ ~is_uninitialized(dest)
    /\ mem' = [mem EXCEPT ![dest] = mem[src], ![src] = mem[dest]]
    /\ fault' = (fault \/ mem[dest] = Raw \/ mem[src] = Raw)
    /\ UNCHANGED constructed
    /\ Advance

\* The handler: the slots constructed so far are those behind m_last.  Of a
\* swap, the second assignment may throw after the first was done.
Throw ==
    /\ InLoop /\ ~nothrow
    /\ \/ UNCHANGED mem
       \/ ~is_uninitialized(dest) /\ mem' = [mem EXCEPT ![src] = mem[dest]]
    /\ last' = last + constructed
    /\ size' = size + constructed
    /\ pc' = "threw"
    /\ UNCHANGED <<nothrow, cap, first, src, dest, from, ii, moved, constructed, result, count, fault>>

\* Mutant: m_last is not wrapped.
FinishUnwrapped ==
    /\ pc = "outer" /\ dest >= src
    /\ LET gone == cap - constructed .. cap - 1 IN
       /\ mem' = [p \in Slots(cap) |-> IF p \in gone THEN Raw ELSE mem[p]]
       /\ fault' = (fault \/ \E p \in gone : mem[p] = Raw)
    /\ first' = 0
    /\ last' = size
    /\ result' = 0
    /\ pc' = "done"
    /\ UNCHANGED <<nothrow, cap, size, src, dest, from, ii, moved, constructed, count>>

\* Destroy what was moved out of at the end of the buffer, adopt the new pointers.
Finish ==
    /\ pc = "outer" /\ dest >= src
    /\ LET gone == cap - constructed .. cap - 1 IN
       /\ mem' = [p \in Slots(cap) |-> IF p \in gone THEN Raw ELSE mem[p]]
       /\ fault' = (fault \/ \E p \in gone : mem[p] = Raw)
    /\ first' = 0
    /\ last' = Add(0, size, cap)
    /\ result' = 0
    /\ pc' = "done"
    /\ UNCHANGED <<nothrow, cap, size, src, dest, from, ii, moved, constructed, count>>

Body == Enter \/ Outer \/ Break \/ MoveIntoFree \/ Swap \/ Throw \/ Finish

Next == Body

Spec == Init /\ [][Next]_lvars /\ WF_lvars(Body)

---------------------------------------------------------------------------
Ended == pc \in {"done", "threw"}

\* The result is an array: every element is still there, once, in order,
\* and m_buff[0] .. m_buff[size - 1] (from the returned pointer) hold them.
Linearized ==
    pc = "done" =>
        /\ size = count
        /\ \A k \in 0 .. size - 1 : Elem(k) = k + 1 /\ mem[result + k] = k + 1

\* No step of the nested loops constructs over an element or reads, assigns
\* or destroys a free slot, although is_uninitialized is asked about slots
\* while the loops fill them.
NoLifecycleFault == ~fault

\* Afterwards, exceptions included, exactly the window is live, so that the
\* next operation and the destructor find what the pointers say.
LiveIsWindow ==
    Ended => /\ Live = Window(first, size, cap)
             /\ last = Add(first, size, cap)

\* When an exception interrupts it, at most the one element held in the
\* temporary of a swap is lost.
ThrowLosesAtMostOne ==
    pc = "threw" =>
        Cardinality({k \in 1 .. count : \A p \in Live : mem[p] # k}) <= 1

\* The loops end, whatever the capacity and the size: moved and dest only grow,
\* but src and from jump.
Terminates == <>Ended
=============================================================================
