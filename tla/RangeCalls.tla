------------------------------ MODULE RangeCalls ------------------------------
(***************************************************************************)
(* The operations of a circular buffer that are loops over, or sequences   *)
(* of, other operations (base.hpp): resize and rresize, insert, rinsert    *)
(* and assign(capacity, ...) for input iterators.  An input range is read  *)
(* once and its length is unknown, so its items go in one by one and every *)
(* step moves the position; forward ranges take the other way, insert_n.   *)
(*                                                                         *)
(* The calls made inside do what DequeOperations says, each may throw.     *)
(***************************************************************************)
EXTENDS DequeOperations

CONSTANTS MaxCapacity,  \* bound on capacities and sizes
          MaxItems,     \* bound on the length of the range
          Moved         \* the value of a moved-from element

ASSUME RangeAssumption == MaxCapacity \in Nat /\ MaxItems \in Nat /\ Moved \notin Nat

VARIABLES s, cap,       \* the buffer: its elements and its capacity
          call,         \* the call: op, at (the position), size (new size or capacity)
          range,        \* the items of the range, as its caller knows them
          pc,           \* where the call is
          pos,          \* the iterator; Len(s) + 1 is the end
          rest,         \* what first and last delimit
          before,       \* history: the elements and the capacity before the call
          incremented   \* history: ++pos was applied to the end

rvars == <<s, cap, call, range, pc, pos, rest, before, incremented>>

Ranged == {"insert", "rinsert", "assign"}
Item   == -1            \* the argument of resize and rresize

full == Len(s) = cap

Init ==
    /\ cap \in 0 .. MaxCapacity
    /\ \E n \in 0 .. cap : s = [k \in 1 .. n |-> k]
    /\ call \in [op : Ranged \cup {"resize", "rresize"}, at : 1 .. Len(s) + 1, size : 0 .. MaxCapacity]
    /\ call.op \in {"resize", "rresize", "assign"} => call.at = 1
    /\ call.op \in {"insert", "rinsert"} => call.size = 0
    /\ \E n \in 0 .. MaxItems : range = [k \in 1 .. n |-> MaxCapacity + k]
    /\ call.op \in {"resize", "rresize"} => range = <<>>
    /\ pc = "call" /\ pos = 0 /\ rest = <<>>
    /\ before = [s |-> s, cap |-> cap]
    /\ incremented = FALSE

Op(name, i, j, x) == [op |-> name, i |-> i, j |-> j, x |-> x]

Does(c)  == s' = After(c, s, cap)[1] /\ cap' = After(c, s, cap)[2]
Fails(c) == s' \in Interrupted(c, s, cap, Moved) /\ pc' = "threw" /\ UNCHANGED cap

asked == <<call, range, before>>

-----------------------------------------------------------------------------
(* resize and rresize *)

Grows == call.size > Len(s)

\* set_capacity(new_size), if it is needed; it may throw.
EnsureCapacity ==
    /\ pc = "call" /\ call.op \in {"resize", "rresize"} /\ Grows
    /\ LET c == Op("set_capacity", call.size, 0, Item) IN
       \/ call.size > cap /\ Does(c) /\ pc' = "fill"
       \/ call.size > cap /\ Fails(c)
       \/ call.size <= cap /\ pc' = "fill" /\ UNCHANGED <<s, cap>>
    /\ UNCHANGED <<asked, pos, rest, incremented>>

\* insert(end(), ...), rinsert(begin(), new_size - size(), item)
Fill ==
    /\ pc = "fill"
    /\ LET c == IF call.op = "resize" THEN Op("insert_n", Len(s) + 1, call.size - Len(s), Item)
                ELSE Op("rinsert_n", 1, call.size - Len(s), Item)
       IN  (Does(c) /\ pc' = "done") \/ Fails(c)
    /\ UNCHANGED <<asked, pos, rest, incremented>>

\* erase(e - (size() - new_size), e), rerase(begin(), end() - new_size)
Shrink ==
    /\ pc = "call" /\ call.op \in {"resize", "rresize"} /\ ~Grows
    /\ LET c == IF call.op = "resize" THEN Op("erase_range", call.size + 1, Len(s) + 1, Item)
                ELSE Op("rerase_range", 1, Len(s) - call.size + 1, Item)
       IN  (Does(c) /\ pc' = "done") \/ Fails(c)
    /\ UNCHANGED <<asked, pos, rest, incremented>>

-----------------------------------------------------------------------------
(* Ranges of input iterators *)

\* insert(pos, first, last): nothing goes in at the beginning of a full buffer.
InsertRange ==
    /\ pc = "call" /\ call.op = "insert"
    /\ pos' = call.at /\ rest' = range
    /\ pc' = IF ~full \/ call.at # 1 THEN "insert" ELSE "done"
    /\ UNCHANGED <<s, cap, asked, incremented>>

\* rinsert(pos, first, last): nor at the end.
RInsertRange ==
    /\ pc = "call" /\ call.op = "rinsert"
    /\ pos' = call.at /\ rest' = range
    /\ pc' = IF ~full \/ call.at # Len(s) + 1 THEN "rinsert" ELSE "done"
    /\ UNCHANGED <<s, cap, asked, incremented>>

\* ++pos, p being where pos is
Step(p) == pos' = p + 1 /\ incremented' = (incremented \/ p = Len(s') + 1)

\* Mutant: pos stays where the item was inserted.
InsertItemInPlace ==
    /\ pc = "insert" /\ rest # <<>>
    /\ LET c == Op("insert", pos, 0, Head(rest)) IN
       \/ Does(c) /\ pos' = After(c, s, cap)[3] /\ UNCHANGED <<incremented, pc>>
       \/ Fails(c) /\ UNCHANGED <<pos, incremented>>
    /\ rest' = Tail(rest)
    /\ UNCHANGED asked

\* pos = insert(pos, *first++), ++pos
InsertItem ==
    /\ pc = "insert" /\ rest # <<>>
    /\ LET c == Op("insert", pos, 0, Head(rest)) IN
       \/ Does(c) /\ Step(After(c, s, cap)[3]) /\ UNCHANGED pc
       \/ Fails(c) /\ UNCHANGED <<pos, incremented>>
    /\ rest' = Tail(rest)
    /\ UNCHANGED asked

\* Mutant: the loop does not end when there is no place left.
RInsertItemOn ==
    /\ pc = "rinsert" /\ rest # <<>>
    /\ LET c == Op("rinsert", pos, 0, Head(rest)) IN
       \/ Does(c) /\ Step(After(c, s, cap)[3]) /\ UNCHANGED pc
       \/ Fails(c) /\ UNCHANGED <<pos, incremented>>
    /\ rest' = Tail(rest)
    /\ UNCHANGED asked

\* pos = rinsert(pos, *first++); the end is returned when there is no place.
RInsertItem ==
    /\ pc = "rinsert" /\ rest # <<>>
    /\ LET c == Op("rinsert", pos, 0, Head(rest))
           p == After(c, s, cap)[3]
       IN  \/ /\ Does(c)
              /\ IF p = Len(s') + 1 THEN pc' = "done" /\ pos' = p /\ UNCHANGED incremented
                 ELSE Step(p) /\ UNCHANGED pc
           \/ Fails(c) /\ UNCHANGED <<pos, incremented>>
    /\ rest' = Tail(rest)
    /\ UNCHANGED asked

RangeDone ==
    /\ pc \in {"insert", "rinsert"} /\ rest = <<>>
    /\ pc' = "done"
    /\ UNCHANGED <<s, cap, asked, pos, rest, incremented>>

\* assign(capacity, first, last): in place if the capacity is the same, ...
AssignInPlace ==
    /\ pc = "call" /\ call.op = "assign" /\ call.size = cap
    /\ Does(Op("clear", 0, 0, Item))
    /\ pos' = 1 /\ rest' = range
    /\ pc' = IF cap > 0 THEN "insert" ELSE "done"
    /\ UNCHANGED <<asked, incremented>>

\* ... else a temporary buffer takes the range, and its place at the end.
AssignNew ==
    /\ pc = "call" /\ call.op = "assign" /\ call.size # cap
    /\ \/ s' = LastOf(range, call.size) /\ cap' = call.size /\ pc' = "done"
       \/ pc' = "threw" /\ UNCHANGED <<s, cap>>
    /\ UNCHANGED <<asked, pos, rest, incremented>>

Next ==
    \/ EnsureCapacity \/ Fill \/ Shrink
    \/ InsertRange \/ RInsertRange \/ InsertItem \/ RInsertItem \/ RangeDone
    \/ AssignInPlace \/ AssignNew

Spec == Init /\ [][Next]_rvars

-----------------------------------------------------------------------------
\* The elements with the range put in at the position.
Unbounded == SubSeq(before.s, 1, call.at - 1) \o range \o SubSeq(before.s, call.at, Len(before.s))

\* What the documentation promises of the whole call; for ranges it makes no
\* difference that their items are inserted one by one, and that each item
\* pushes another out of a full buffer.
OneByOneIsAtOnce ==
    pc = "done" =>
        <<s, cap>> =
            CASE call.op = "insert"  -> <<LastOf(Unbounded, before.cap), before.cap>>
              [] call.op = "rinsert" -> <<FirstOf(Unbounded, before.cap), before.cap>>
              [] call.op = "assign"  -> <<LastOf(range, call.size), call.size>>
              [] OTHER -> SubSeq(After(Op(call.op, call.size, 0, Item), before.s, before.cap), 1, 2)

\* pos is never incremented when it is the end (operator ++ asserts so), and the
\* position an item is inserted at is one of the buffer's, although items fall
\* out in front of it and the buffer fills up on the way.
PositionStaysInside ==
    /\ ~incremented
    /\ pc \in {"insert", "rinsert"} => pos \in 1 .. Len(s) + 1
=============================================================================
