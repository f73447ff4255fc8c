--------------------------- MODULE SpaceOptimized ---------------------------
(***************************************************************************)
(* circular_buffer_space_optimized (space_optimized.hpp): an adaptor of    *)
(* circular_buffer with a capacity controller of its own, which lets the   *)
(* capacity of the adapted buffer, the internal capacity, follow the       *)
(* number of elements.  Its operations call those of the base class with   *)
(* a change of the internal capacity before (growth) or after (shrinking); *)
(* the base class does what DequeOperations says of it, which module       *)
(* CircularBuffer establishes.                                             *)
(*                                                                         *)
(* A call is two steps: Invoke, and one that runs it to its return or to   *)
(* the point where it throws.  Integers of size_type wrap at SizeMax.      *)
(***************************************************************************)
EXTENDS DequeOperations

CONSTANTS Value,
          Moved,        \* what an element moved away from holds
          NothrowMove,  \* moving an element never throws
          Bits,         \* the width of size_type
          MaxCapacity,  \* bound on the capacity of a new buffer
          Source,       \* sequences a buffer is constructed from
          Call,         \* the calls made, preconditions apart
          MayFail,      \* operations that may meet an exception
          NoCall

ASSUME BitsAssumption == Bits \in Nat \ {0}
ASSUME CapacityAssumption == MaxCapacity \in Nat
ASSUME SourceAssumption == Source \subseteq Seq(Value)

SizeMax == 2 ^ Bits

\* circular_buffer::max_size(), the largest difference_type: an allocator that
\* admits less would only refuse more.
max_size == SizeMax \div 2 - 1

VARIABLES contents,  \* the elements, as the base class holds them
          inner,     \* circular_buffer::capacity()
          ctrl,      \* m_capacity_ctrl: [cap, min]
          request,   \* the call in progress, or NoCall
          result,    \* index of the iterator returned, from 1 (0: none)
          threw      \* the last call ended with an exception

vars == <<contents, inner, ctrl, request, result, threw>>

Greater(m, n) == IF m < n THEN n ELSE m

-----------------------------------------------------------------------------
(* The policy *)

\* Mutant: no reserve for what comes next.
ensure_reserve_exact(new_capacity, buffer_size, ctl) == Lesser(new_capacity, ctl.cap)

\* At least 20% reserve, and never more than the capacity.
ensure_reserve(new_capacity, buffer_size, ctl) ==
    LET roomy == IF (buffer_size + new_capacity \div 5) % SizeMax >= new_capacity
                 THEN (new_capacity * 2) % SizeMax
                 ELSE new_capacity
    IN  Lesser(roomy, ctl.cap)

\* Mutant: the doubling of a buffer without memory starts from 0.
DoublingsFromZero(new_size) ==
    {k \in 0 .. Bits : (inner * 2 ^ k) % SizeMax >= new_size}

\* The rounds after which the doubling of the capacity has reached new_size.
\* A doubling that wraps to 0 never does.
Doublings(new_size) ==
    {k \in 0 .. Bits : (Greater(inner, 1) * 2 ^ k) % SizeMax >= new_size}

\* check_low_capacity: the internal capacity for n more elements.
NewSize(n) == (Len(contents) + n) % SizeMax

LowCapacity(n, ctl) ==
    LET k == CHOOSE k \in Doublings(NewSize(n)) : \A l \in Doublings(NewSize(n)) : k <= l
    IN  IF NewSize(n) <= inner THEN inner
        ELSE ensure_reserve((Greater(inner, 1) * 2 ^ k) % SizeMax, NewSize(n), ctl)

\* Mutant: the halving passes the minimum by.
HighCapacityBelowMin(size, ctl) ==
    LET half(k)  == inner \div 2 ^ k
        stops(k) == half(k) = 0 \/ half(k) \div 3 < size
    IN  ensure_reserve(half(CHOOSE k \in 0 .. Bits : stops(k) /\ \A l \in 0 .. k - 1 : ~stops(l)),
                       size, ctl)

\* check_high_capacity: the internal capacity for size elements.  It is halved
\* until a third of it is less than size, or to the minimal capacity.
HighCapacity(size, ctl) ==
    LET half(k)  == inner \div 2 ^ k
        low(k)   == k > 0 /\ half(k) <= ctl.min
        stops(k) == low(k) \/ half(k) \div 3 < size
        last     == CHOOSE k \in 0 .. Bits : stops(k) /\ \A l \in 0 .. k - 1 : ~stops(l)
    IN  ensure_reserve(IF low(last) THEN ctl.min ELSE half(last), size, ctl)

\* init_capacity with n items, or a forward range of n.
init_capacity(ctl, n) == Greater(ctl.min, Lesser(ctl.cap, n))

-----------------------------------------------------------------------------
(* Calls and their outcomes *)

Pushing  == {"push_back", "push_front", "insert", "rinsert", "insert_n", "rinsert_n"}
Removing == {"pop_back", "pop_front", "erase", "rerase", "erase_range", "rerase_range", "clear"}
Sizing   == {"resize", "rresize"}
Setting  == {"set_capacity", "rset_capacity"}
Standard == Pushing \cup Removing \cup Sizing \cup Setting \cup {"rotate"}
Assigning == {"assign", "assign_items", "assign_range", "copy_assign"}

\* What capacity_control can hold: BOOST_CB_ASSERT(buffer_capacity >= min_buffer_capacity).
CapacityControl == {c \in [cap : Nat, min : Nat] : c.min <= c.cap}

\* The calls, with the preconditions that their arguments alone decide.
ASSUME CallAssumption ==
    \A c \in Call :
        /\ c.op \in Standard => c \in [op : Standard, i : Nat, j : Nat, x : Value]
        /\ c.op \in Setting => c.j <= c.i
        /\ c.op \in Assigning => c.seq \in Seq(Value)
        /\ c.op \in (Assigning \ {"assign"}) \cup {"move"} => c.ctl \in CapacityControl
        /\ c.op \in {"assign_items", "copy_assign"} => Len(c.seq) <= c.ctl.cap

Invoke == /\ request = NoCall
          /\ request' \in Call
          /\ Allowed(request', contents)
          /\ result' = 0
          /\ threw' = FALSE
          /\ UNCHANGED <<contents, inner, ctrl>>

\* circular_buffer::allocate refuses more than max_size().
Return(s, k, ctl, pos) ==
    /\ k <= max_size
    /\ contents' = s /\ inner' = k /\ ctrl' = ctl /\ result' = pos
    /\ request' = NoCall /\ threw' = FALSE

Throw(s, k, ctl) ==
    /\ request.op \in MayFail
    /\ k <= max_size
    /\ contents' = s /\ inner' = k /\ ctrl' = ctl /\ result' = 0
    /\ request' = NoCall /\ threw' = TRUE

\* circular_buffer::set_capacity(k) does nothing when k is the capacity;
\* else it allocates, unless k is 0, and only then moves the elements.
SetMayThrow(k) == k # inner /\ k > 0

-----------------------------------------------------------------------------
(* Growth first, then the operation of the base class *)

Grows == request # NoCall /\ \/ request.op \in Pushing
                             \/ request.op \in Sizing /\ request.i > Len(contents)

\* resize inserts copies at end(), rresize at begin().
Insertion ==
    CASE request.op = "resize"  -> [op |-> "insert_n", i |-> Len(contents) + 1,
                                    j |-> request.i - Len(contents), x |-> request.x]
      [] request.op = "rresize" -> [op |-> "rinsert_n", i |-> 1,
                                    j |-> request.i - Len(contents), x |-> request.x]
      [] OTHER -> request

Added == IF Insertion.op \in {"insert_n", "rinsert_n"} THEN Insertion.j ELSE 1

\* Mutant: resize and rresize insert under the old capacity.
RaisedControlNot == ctrl

\* resize and rresize raise the capacity before they insert.
RaisedControl ==
    IF request.op \in Sizing THEN [ctrl EXCEPT !.cap = Greater(@, request.i)] ELSE ctrl

Grow ==
    /\ Grows
    /\ NewSize(Added) > inner => Doublings(NewSize(Added)) # {}
    /\ LET k     == LowCapacity(Added, RaisedControl)
           kept  == FirstOf(contents, k)
           after == After(Insertion, kept, k)
       IN  \/ Return(after[1], k, RaisedControl, after[3])
           \/ SetMayThrow(k) /\ Throw(contents, inner, RaisedControl)
           \/ /\ k > 0 /\ Added > 0
              /\ \E s \in Interrupted(Insertion, kept, k, Moved) : Throw(s, k, RaisedControl)

-----------------------------------------------------------------------------
(* The operation of the base class first, then shrinking *)

Shrinks == request # NoCall /\ \/ request.op \in Removing
                               \/ request.op \in Sizing /\ request.i <= Len(contents)

\* clear is erase(begin(), end()); resize erases at the back, rresize at the front.
Removal ==
    LET n == Len(contents) IN
    CASE request.op = "clear"   -> [request EXCEPT !.op = "erase_range", !.i = 1, !.j = n + 1]
      [] request.op = "resize"  -> [request EXCEPT !.op = "erase_range", !.i = @ + 1, !.j = n + 1]
      [] request.op = "rresize" -> [request EXCEPT !.op = "rerase_range", !.i = 1, !.j = n - request.i + 1]
      [] OTHER -> request

\* Elements behind the removed ones (in front of them) are assigned to.
Shifts(c) ==
    \/ c.op = "erase"        /\ c.i < Len(contents)
    \/ c.op = "rerase"       /\ c.i > 1
    \/ c.op = "erase_range"  /\ c.i < c.j /\ c.j <= Len(contents)
    \/ c.op = "rerase_range" /\ c.i < c.j /\ c.i > 1

Shrink ==
    /\ Shrinks
    /\ LET after == After(Removal, contents, inner)
           k     == HighCapacity(Len(after[1]), ctrl)
           pos   == IF request.op \in Sizing \cup {"clear"} THEN 0 ELSE after[3]
       IN  \/ Return(after[1], k, ctrl, pos)
           \/ SetMayThrow(k) /\ Throw(after[1], inner, ctrl)
           \/ /\ Shifts(Removal) /\ ~NothrowMove
              /\ \E s \in Interrupted(Removal, contents, inner, Moved) : Throw(s, inner, ctrl)

Rotate ==
    /\ request # NoCall /\ request.op = "rotate"
    /\ \/ Return(After(request, contents, inner)[1], inner, ctrl, 0)
       \/ /\ ~NothrowMove /\ Len(contents) < inner /\ request.i > 1
          /\ \E s \in Interrupted(request, contents, inner, Moved) : Throw(s, inner, ctrl)

-----------------------------------------------------------------------------
(* Changing the controller *)

\* set_capacity erases the last elements, rset_capacity the first.
KeptUnder(ctl) ==
    IF request.op = "set_capacity" THEN FirstOf(contents, ctl.cap) ELSE LastOf(contents, ctl.cap)

\* The controller first, then the elements that have no place under it, then
\* the internal capacity.
SetCapacity ==
    /\ request # NoCall /\ request.op \in Setting
    /\ LET ctl  == [cap |-> request.i, min |-> request.j]
           kept == KeptUnder(ctl)
           k    == IF ctl.min > inner THEN ctl.min ELSE HighCapacity(Len(kept), ctl)
       IN  \/ Return(kept, k, ctl, 0)
           \/ SetMayThrow(k) /\ Throw(kept, inner, ctl)

\* circular_buffer::assign_n: in place when the capacity is the same already,
\* and then a throw leaves nothing; else in a new buffer.  The controller is
\* set to ctl on success, and is early at the time of a throw.
BaseAssign(capacity, s, ctl, early) ==
    \/ Return(s, capacity, ctl, 0)
    \/ capacity = inner /\ s # <<>> /\ Throw(<<>>, inner, early)
    \/ SetMayThrow(capacity) /\ Throw(contents, inner, early)

\* Mutant: assign keeps the old controller.
AssignKeepsControl ==
    /\ request # NoCall /\ request.op = "assign"
    /\ BaseAssign(Len(request.seq), request.seq, ctrl, ctrl)

\* assign(n, item) and assign(first, last).
Assign ==
    /\ request # NoCall /\ request.op = "assign"
    /\ LET n == Len(request.seq) IN BaseAssign(n, request.seq, [cap |-> n, min |-> 0], ctrl)

\* assign(capacity_ctrl, n, item)
AssignItems ==
    /\ request # NoCall /\ request.op = "assign_items"
    /\ BaseAssign(Greater(request.ctl.min, Len(request.seq)), request.seq, request.ctl, ctrl)

\* assign(capacity_ctrl, first, last): the controller first.
AssignRange ==
    /\ request # NoCall /\ request.op = "assign_range"
    /\ BaseAssign(request.ctl.cap, LastOf(request.seq, request.ctl.cap), request.ctl, request.ctl)

\* operator = from a buffer with contents seq and controller ctl.
AssignOperator ==
    /\ request # NoCall /\ request.op = "copy_assign"
    /\ BaseAssign(Len(request.seq), request.seq, request.ctl, ctrl)

\* This buffer is moved from.  It gets the controller of the buffer it is
\* moved to (0 from the move constructor) and an internal buffer of no size.
MoveFrom ==
    /\ request # NoCall /\ request.op = "move"
    /\ Return(<<>>, 0, request.ctl, 0)

-----------------------------------------------------------------------------
Control == {c \in [cap : 0 .. MaxCapacity, min : 0 .. MaxCapacity] : c.min <= c.cap}

\* The constructors: empty; of one item throughout; from n items or a range
\* with a controller; a copy of a buffer with contents s and controller ctl;
\* from a range alone.
NewEmpty(ctl)   == contents = <<>> /\ inner = ctl.min /\ ctrl = ctl
NewFull(ctl)    == (\E x \in Value : contents = Copies(ctl.cap, x)) /\ inner = ctl.cap /\ ctrl = ctl
NewFrom(ctl, s) == contents = LastOf(s, ctl.cap) /\ inner = init_capacity(ctl, Len(s)) /\ ctrl = ctl
NewCopy(ctl, s) == Len(s) <= ctl.cap /\ contents = s /\ inner = Len(s) /\ ctrl = ctl
NewOfRange(s)   == contents = s /\ inner = Len(s) /\ ctrl = [cap |-> Len(s), min |-> 0]

New(ctl, s) == NewEmpty(ctl) \/ NewFull(ctl) \/ NewFrom(ctl, s) \/ NewCopy(ctl, s) \/ NewOfRange(s)

Init == /\ \E ctl \in Control, s \in Source : New(ctl, s)
        /\ inner <= max_size
        /\ request = NoCall
        /\ result = 0
        /\ threw = FALSE

Complete == \/ Grow \/ Shrink \/ Rotate \/ SetCapacity
            \/ Assign \/ AssignItems \/ AssignRange \/ AssignOperator \/ MoveFrom

Next == Invoke \/ Complete

Spec == Init /\ [][Next]_vars

-----------------------------------------------------------------------------
(* Properties *)

\* Neither the elements nor the memory ever exceed the capacity the user set:
\* reserve(), an unsigned m_capacity_ctrl - size(), never wraps, and the base
\* class, which knows only its own capacity, overwrites when the adaptor is full.
CapacityIsTheLimit == Len(contents) <= inner /\ inner <= ctrl.cap

Completes == request # NoCall /\ request' = NoCall
Succeeds  == Completes /\ ~threw'

\* Whatever the internal capacity was, a call does what it does to a
\* circular_buffer of the capacity the user set: same elements, capacity and
\* iterator.  No element is lost to a buffer that grows too late or shrinks too far.
ActsLikeDeque ==
    [][Succeeds /\ request.op \in Standard =>
          LET after == After(request, contents, ctrl.cap) IN
          /\ contents' = after[1]
          /\ ctrl'.cap = after[2]
          /\ result' = IF request.op \in {"clear", "rotate"} THEN 0 ELSE after[3]]_vars

\* Once the internal buffer is as large as min_capacity asks, no call makes it
\* smaller, except copying another buffer's contents and moving them away.
KeepsMinimum ==
    [][Completes /\ inner >= ctrl.min /\ request.op \notin {"copy_assign", "move"} =>
          inner' >= ctrl'.min]_vars

\* A call that resizes the internal buffer leaves a fifth of it free, unless
\* that would exceed the capacity (the comment at ensure_reserve).
LeavesReserve ==
    [][Succeeds /\ request.op \in Pushing \cup Removing \cup Sizing /\ inner' # inner =>
          \/ inner' \in {0, ctrl'.cap}
          \/ Len(contents') + inner' \div 5 < inner']_vars

\* The doubling loop of check_low_capacity ends, so that no call hangs.
DoublingStops == Grows /\ NewSize(Added) > inner => Doublings(NewSize(Added)) # {}

=============================================================================
