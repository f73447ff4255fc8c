--------------------------- MODULE CircularBuffer ---------------------------
(***************************************************************************)
(* boost::circular_buffer (include/boost/circular_buffer/base.hpp): the    *)
(* internal buffer, its four pointers and m_size, and the operations that  *)
(* work on single elements or move the whole contents.                     *)
(*                                                                         *)
(* The unit of a step is one operation on one element: a construction, an  *)
(* assignment or a destruction, because each of the first two may throw    *)
(* and run the handler of the code.  A loop of the code is an action that  *)
(* fires once per iteration; src, dest and pos are its local pointers.     *)
(* Memory is tracked slot by slot: a slot is Raw or holds a live element,  *)
(* and every step that touches a slot in the wrong state sets fault.       *)
(***************************************************************************)
EXTENDS RingPointers, Sequences

CONSTANTS Value,        \* values of T
          Raw,          \* an uninitialized slot
          Moved,        \* a live element that was moved from
          NothrowMove,  \* is_nothrow_move_constructible<T>
          MaxCapacity   \* bound on the capacities a run explores

ASSUME CellAssumption == Raw \notin Value /\ Moved \notin Value /\ Raw # Moved

ASSUME MoveAssumption == NothrowMove \in BOOLEAN

ASSUME CapacityAssumption == MaxCapacity \in Nat

VARIABLES
    cap, first, last, size,     \* m_end - m_buff, m_first, m_last, m_size
    mem,                        \* the slots of the internal buffer
    pc,                         \* "idle", or where the call in progress is
    call,                       \* the call in progress and its arguments
    pos, src, dest,             \* local pointers of the operation
    construct,                  \* its local flag of that name
    count,                      \* its local loop counter
    nbuf,                       \* the new buffer of set_capacity
    ret,                        \* m_it of the iterator the last call returned
    threw,                      \* the last call ended with an exception
    old,                        \* history: the contents when the call was made
    fault                       \* history: an element life-cycle rule was broken

object == <<cap, first, last, size, mem>>
locals == <<pos, src, dest, construct, count, nbuf>>
vars   == <<object, locals, pc, call, ret, threw, old, fault>>

Element == Value \cup {Moved}
Cell    == Element \cup {Raw}

\* A call returned nothing, or no call has been made.
NoIter == -2
NoCall == [op |-> "none", i |-> 0, j |-> 0, x |-> Raw]
NoBuf  == <<>>

---------------------------------------------------------------------------
(* Reading the buffer.                                                     *)

full  == size = cap
empty == size = 0

\* The iterator to the k-th element, counted from 0: begin() + k.
It(k) == IF k = size THEN NULL ELSE Add(first, k, cap)

begin == IF empty THEN NULL ELSE first

map_pointer(p) == IF p = NULL THEN last ELSE p

\* operator++ of the iterator.
IterNext(p) == IF Increment(p, cap) = last THEN NULL ELSE Increment(p, cap)

\* operator+= and operator-= of the iterator, for n >= 0.
IterAdd(p, n) == IF n = 0 THEN p
                 ELSE IF Add(p, n, cap) = last THEN NULL ELSE Add(p, n, cap)
IterSub(p, n) == IF n = 0 THEN p ELSE Sub(map_pointer(p), n, cap)

Contents == [k \in 1 .. size |-> mem[Add(first, k - 1, cap)]]

Live(m) == {p \in DOMAIN m : m[p] # Raw}

---------------------------------------------------------------------------
(* Steps on elements.                                                      *)

\* Mutant: std::move where the code has move_if_noexcept.
AlwaysMovedFrom(v) == Moved

\* What *move_if_noexcept(q) leaves behind at q.
MovedFrom(v) == IF NothrowMove THEN Moved ELSE v

\* Construct (raw) or assign (not raw) slot d from slot s.
MoveTo(raw, d, s) ==
    /\ mem' = [mem EXCEPT ![d] = mem[s], ![s] = MovedFrom(mem[s])]
    /\ fault' = (fault \/ (raw # (mem[d] = Raw)) \/ mem[s] = Raw)

\* construct_or_replace(raw, d, item).
Put(raw, d) ==
    /\ mem' = [mem EXCEPT ![d] = call.x]
    /\ fault' = (fault \/ (raw # (mem[d] = Raw)))

\* destroy_item(d).
Destroy(d) ==
    /\ mem' = [mem EXCEPT ![d] = Raw]
    /\ fault' = (fault \/ mem[d] = Raw)

\* An element is copied, so its copy constructor or assignment may throw.
MoveMayThrow == ~NothrowMove

ResetLocals == /\ pos' = NULL /\ src' = NULL /\ dest' = NULL
               /\ construct' = FALSE /\ count' = 0 /\ nbuf' = NoBuf

Leave == pc' = "idle" /\ call' = NoCall /\ old' = <<>> /\ ResetLocals

Return(p) == Leave /\ ret' = p /\ threw' = FALSE
Throw     == Leave /\ ret' = NoIter /\ threw' = TRUE

Goto(label) == pc' = label /\ UNCHANGED <<call, ret, threw, old>>

Enter(op) == pc = "enter" /\ call.op = op

---------------------------------------------------------------------------
(* The calls a user may make: the BOOST_CB_ASSERTs are their preconditions. *)

WithItem   == {"push_back", "push_front", "insert", "rinsert"}
AtPosition == {"insert", "rinsert", "erase", "rerase", "rotate"}
OnRange    == {"erase_range", "rerase_range"}
Resizing   == {"set_capacity", "rset_capacity"}
Popping    == {"pop_back", "pop_front"}
Operations == WithItem \cup AtPosition \cup OnRange \cup Resizing \cup Popping \cup {"clear"}

Legal(c) ==
    /\ c.op \in WithItem <=> c.x # Raw
    /\ c.op \in Popping => ~empty
    /\ c.op \in AtPosition => c.i <= size
    /\ c.op \in {"erase", "rerase", "rotate"} => c.i < size
    /\ c.op \in OnRange => c.i <= c.j /\ c.j <= size
    /\ c.op \notin AtPosition \cup OnRange \cup Resizing => c.i = 0
    /\ c.op \notin OnRange => c.j = 0

Calls == {c \in [op : Operations, i : 0 .. MaxCapacity, j : 0 .. MaxCapacity,
                 x : Value \cup {Raw}] : Legal(c)}

Invoke ==
    /\ pc = "idle"
    /\ call' \in Calls
    /\ pc' = "enter"
    /\ old' = Contents
    /\ ret' = NoIter
    /\ threw' = FALSE
    /\ UNCHANGED <<object, locals, fault>>

---------------------------------------------------------------------------
(* push_back, push_front, pop_back, pop_front, clear                       *)

PushBack ==
    /\ Enter("push_back")
    /\ \/ /\ full /\ empty
          /\ Return(NoIter)
          /\ UNCHANGED <<object, fault>>
       \/ /\ ~(full /\ empty)
          /\ Put(~full, last)
          /\ last' = Increment(last, cap)
          /\ IF full THEN first' = last' /\ UNCHANGED size
                     ELSE size' = size + 1 /\ UNCHANGED first
          /\ Return(NoIter)
          /\ UNCHANGED cap
       \/ /\ ~(full /\ empty)
          /\ Throw
          /\ UNCHANGED <<object, fault>>

\* The handler's increment(m_first) undoes the decrement.
PushFront ==
    /\ Enter("push_front")
    /\ LET f == Decrement(first, cap) IN
       \/ /\ full /\ empty
          /\ Return(NoIter)
          /\ UNCHANGED <<object, fault>>
       \/ /\ ~(full /\ empty)
          /\ Put(~full, f)
          /\ first' = f
          /\ IF full THEN last' = f /\ UNCHANGED size
                     ELSE size' = size + 1 /\ UNCHANGED last
          /\ Return(NoIter)
          /\ UNCHANGED cap
       \/ /\ ~(full /\ empty)
          /\ first' = Increment(f, cap)
          /\ Throw
          /\ UNCHANGED <<cap, last, size, mem, fault>>

PopBack ==
    /\ Enter("pop_back")
    /\ last' = Decrement(last, cap)
    /\ Destroy(last')
    /\ size' = size - 1
    /\ Return(NoIter)
    /\ UNCHANGED <<cap, first>>

PopFront ==
    /\ Enter("pop_front")
    /\ Destroy(first)
    /\ first' = Increment(first, cap)
    /\ size' = size - 1
    /\ Return(NoIter)
    /\ UNCHANGED <<cap, last>>

\* destroy_content() walks m_first over the elements; none of it can throw.
Clear ==
    /\ Enter("clear")
    /\ LET gone == Window(first, size, cap) IN
       /\ mem' = [p \in Slots(cap) |-> IF p \in gone THEN Raw ELSE mem[p]]
       /\ fault' = (fault \/ \E p \in gone : mem[p] = Raw)
    /\ first' = Add(first, size, cap)
    /\ size' = 0
    /\ Return(NoIter)
    /\ UNCHANGED <<cap, last>>

---------------------------------------------------------------------------
(* insert_impl and insert_item: shift the tail back by one, last element   *)
(* first, into the slot at m_last.                                         *)

\* The end of insert_item, the item at p.
Inserted(p) ==
    /\ last' = Increment(last, cap)
    /\ IF full THEN first' = last' /\ UNCHANGED size
               ELSE size' = size + 1 /\ UNCHANGED first
    /\ Return(p)
    /\ UNCHANGED cap

\* Mutant: the handler forgets ++m_size.
InsertCatchForgetsSize ==
    /\ IF ~construct /\ ~full THEN last' = Increment(last, cap) ELSE UNCHANGED last
    /\ Throw
    /\ UNCHANGED <<cap, first, size, mem, fault>>

\* Its handler: if the slot at m_last was constructed, it joins the buffer.
InsertCatch ==
    /\ IF ~construct /\ ~full
       THEN last' = Increment(last, cap) /\ size' = size + 1
       ELSE UNCHANGED <<last, size>>
    /\ Throw
    /\ UNCHANGED <<cap, first, mem, fault>>

Insert ==
    /\ Enter("insert")
    /\ LET p == It(call.i) IN
       \/ /\ full /\ p = begin
          /\ Return(p)
          /\ UNCHANGED <<object, fault>>
       \/ /\ ~(full /\ p = begin) /\ p = NULL
          /\ \/ Put(~full, last) /\ Inserted(last)
             \/ Throw /\ UNCHANGED <<object, fault>>
       \/ /\ ~(full /\ p = begin) /\ p # NULL
          /\ pos' = p /\ src' = last /\ dest' = last
          /\ construct' = ~full
          /\ Goto("insert")
          /\ UNCHANGED <<object, count, nbuf, fault>>

\* Mutant: construct stays set after the first element.
InsertShiftKeepsConstruct ==
    /\ pc = "insert" /\ src # pos
    /\ src' = Decrement(src, cap)
    /\ MoveTo(construct, dest, src')
    /\ dest' = Decrement(dest, cap)
    /\ Goto("insert")
    /\ UNCHANGED <<cap, first, last, size, pos, construct, count, nbuf>>

InsertShift ==
    /\ pc = "insert" /\ src # pos
    /\ \/ /\ src' = Decrement(src, cap)
          /\ MoveTo(construct, dest, src')
          /\ dest' = Decrement(dest, cap)
          /\ construct' = FALSE
          /\ Goto("insert")
          /\ UNCHANGED <<cap, first, last, size, pos, count, nbuf>>
       \/ MoveMayThrow /\ InsertCatch

InsertItem ==
    /\ pc = "insert" /\ src = pos
    /\ \/ Put(FALSE, pos) /\ Inserted(pos)
       \/ InsertCatch

---------------------------------------------------------------------------
(* rinsert_impl: shift the head forward by one, first element first, into  *)
(* the slot in front of m_first.                                           *)

\* Mutant: returns begin() instead of the position of the item.
RInsertedReturnsBegin(f, p) ==
    /\ first' = f
    /\ IF full THEN last' = f /\ UNCHANGED size
               ELSE size' = size + 1 /\ UNCHANGED last
    /\ Return(f)
    /\ UNCHANGED cap

\* The end of rinsert_impl, with m_first already moved to f.
RInserted(f, p) ==
    /\ first' = f
    /\ IF full THEN last' = f /\ UNCHANGED size
               ELSE size' = size + 1 /\ UNCHANGED last
    /\ Return(p)
    /\ UNCHANGED cap

\* Mutant: no handler.
RInsertCatchNothing == Throw /\ UNCHANGED <<object, fault>>

RInsertCatch ==
    /\ IF ~construct /\ ~full
       THEN first' = Decrement(first, cap) /\ size' = size + 1
       ELSE UNCHANGED <<first, size>>
    /\ Throw
    /\ UNCHANGED <<cap, last, mem, fault>>

RInsert ==
    /\ Enter("rinsert")
    /\ LET p == It(call.i)
           f == Decrement(first, cap) IN
       \/ /\ full /\ p = NULL
          /\ Return(NULL)
          /\ UNCHANGED <<object, fault>>
       \/ /\ ~(full /\ p = NULL) /\ p = begin
          /\ \/ Put(~full, f) /\ RInserted(f, f)
             \/ /\ first' = Increment(f, cap)
                /\ Throw
                /\ UNCHANGED <<cap, last, size, mem, fault>>
       \/ /\ ~(full /\ p = NULL) /\ p # begin
          /\ pos' = map_pointer(p) /\ src' = first /\ dest' = f
          /\ construct' = ~full
          /\ Goto("rinsert")
          /\ UNCHANGED <<object, count, nbuf, fault>>

RInsertShift ==
    /\ pc = "rinsert" /\ src # pos
    /\ \/ /\ MoveTo(construct, dest, src)
          /\ src' = Increment(src, cap)
          /\ dest' = Increment(dest, cap)
          /\ construct' = FALSE
          /\ Goto("rinsert")
          /\ UNCHANGED <<cap, first, last, size, pos, count, nbuf>>
       \/ MoveMayThrow /\ RInsertCatch

RInsertItem ==
    /\ pc = "rinsert" /\ src = pos
    /\ \/ /\ Put(FALSE, Decrement(pos, cap))
          /\ RInserted(Decrement(first, cap), Decrement(pos, cap))
       \/ RInsertCatch

---------------------------------------------------------------------------
(* erase(pos) and erase(first, last): move the tail forward over the gap,  *)
(* then destroy from the end.  There is no handler.                        *)

Erase ==
    /\ Enter("erase")
    /\ LET p == It(call.i) IN
       /\ pos' = p /\ dest' = p /\ src' = Increment(p, cap)
       /\ Goto("erase")
       /\ UNCHANGED <<object, construct, count, nbuf, fault>>

\* Mutant: increment(next) is missing from the loop.
EraseShiftStuck ==
    /\ pc = "erase" /\ src # last
    /\ MoveTo(FALSE, dest, src)
    /\ dest' = src
    /\ Goto("erase")
    /\ UNCHANGED <<cap, first, last, size, src, pos, construct, count, nbuf>>

EraseShift ==
    /\ pc = "erase" /\ src # last
    /\ \/ /\ MoveTo(FALSE, dest, src)
          /\ dest' = src
          /\ src' = Increment(src, cap)
          /\ Goto("erase")
          /\ UNCHANGED <<cap, first, last, size, pos, construct, count, nbuf>>
       \/ MoveMayThrow /\ Throw /\ UNCHANGED <<object, fault>>

EraseLast ==
    /\ pc = "erase" /\ src = last
    /\ last' = Decrement(last, cap)
    /\ Destroy(last')
    /\ size' = size - 1
    /\ Return(IF last' = pos THEN NULL ELSE pos)
    /\ UNCHANGED <<cap, first>>

\* dest is the iterator named first, src the one named last.
EraseRange ==
    /\ Enter("erase_range")
    /\ LET f == It(call.i)
           l == It(call.j) IN
       \/ /\ f = l
          /\ Return(f)
          /\ UNCHANGED <<object, fault>>
       \/ /\ f # l
          /\ pos' = f /\ dest' = f /\ src' = l
          /\ Goto("erase_range")
          /\ UNCHANGED <<object, construct, count, nbuf, fault>>

EraseRangeShift ==
    /\ pc = "erase_range" /\ src # NULL
    /\ \/ /\ MoveTo(FALSE, dest, src)
          /\ dest' = IterNext(dest)
          /\ src' = IterNext(src)
          /\ Goto("erase_range")
          /\ UNCHANGED <<cap, first, last, size, pos, construct, count, nbuf>>
       \/ MoveMayThrow /\ Throw /\ UNCHANGED <<object, fault>>

\* Mutant: destroys before it decrements.
EraseRangeTailSwapped ==
    /\ pc = "erase_range" /\ src = NULL
    /\ Destroy(last)
    /\ last' = Decrement(last, cap)
    /\ size' = size - 1
    /\ IF last' = dest
       THEN Return(IF last' = pos THEN NULL ELSE pos)
       ELSE Goto("erase_range") /\ UNCHANGED locals
    /\ UNCHANGED <<cap, first>>

\* do { decrement(m_last); destroy_item(m_last); --m_size; } while (m_last != first.m_it)
EraseRangeTail ==
    /\ pc = "erase_range" /\ src = NULL
    /\ last' = Decrement(last, cap)
    /\ Destroy(last')
    /\ size' = size - 1
    /\ IF last' = dest
       THEN Return(IF last' = pos THEN NULL ELSE pos)
       ELSE Goto("erase_range") /\ UNCHANGED locals
    /\ UNCHANGED <<cap, first>>

---------------------------------------------------------------------------
(* rerase(pos) and rerase(first, last): the mirror image.                  *)

\* dest is the local p, src the local prev, which runs one ahead of the test.
RErase ==
    /\ Enter("rerase")
    /\ LET p == It(call.i) IN
       /\ pos' = p /\ dest' = p /\ src' = Decrement(p, cap)
       /\ Goto("rerase")
       /\ UNCHANGED <<object, construct, count, nbuf, fault>>

REraseShift ==
    /\ pc = "rerase" /\ dest # first
    /\ \/ /\ MoveTo(FALSE, dest, src)
          /\ dest' = src
          /\ src' = Decrement(src, cap)
          /\ Goto("rerase")
          /\ UNCHANGED <<cap, first, last, size, pos, construct, count, nbuf>>
       \/ MoveMayThrow /\ Throw /\ UNCHANGED <<object, fault>>

REraseFirst ==
    /\ pc = "rerase" /\ dest = first
    /\ Destroy(first)
    /\ first' = Increment(first, cap)
    /\ size' = size - 1
    /\ Return(IF dest # pos THEN pos ELSE IF size' = 0 THEN NULL ELSE first')
    /\ UNCHANGED <<cap, last>>

\* src is first.m_it, dest the local p, pos last.m_it after map_pointer.
REraseRange ==
    /\ Enter("rerase_range")
    /\ LET f == It(call.i)
           l == It(call.j) IN
       \/ /\ f = l
          /\ Return(f)
          /\ UNCHANGED <<object, fault>>
       \/ /\ f # l
          /\ pos' = map_pointer(l) /\ dest' = map_pointer(l) /\ src' = f
          /\ Goto("rerase_range")
          /\ UNCHANGED <<object, construct, count, nbuf, fault>>

REraseRangeShift ==
    /\ pc = "rerase_range" /\ src # first
    /\ \/ /\ src' = Decrement(src, cap)
          /\ dest' = Decrement(dest, cap)
          /\ MoveTo(FALSE, dest', src')
          /\ Goto("rerase_range")
          /\ UNCHANGED <<cap, first, last, size, pos, construct, count, nbuf>>
       \/ MoveMayThrow /\ Throw /\ UNCHANGED <<object, fault>>

\* do { destroy_item(m_first); increment(m_first); --m_size; } while (m_first != p)
REraseRangeHead ==
    /\ pc = "rerase_head" \/ (pc = "rerase_range" /\ src = first)
    /\ Destroy(first)
    /\ first' = Increment(first, cap)
    /\ size' = size - 1
    /\ IF first' # dest
       THEN Goto("rerase_head") /\ UNCHANGED locals
       ELSE Return(IF first' # pos THEN Decrement(pos, cap)
                   ELSE IF size' = 0 THEN NULL ELSE first')
    /\ UNCHANGED <<cap, last>>

---------------------------------------------------------------------------
(* set_capacity and rset_capacity: uninitialized_move_if_noexcept into a   *)
(* new buffer, then reset().                                               *)

Lesser(m, n) == IF m < n THEN m ELSE n

\* allocate(c) may throw (it allocates nothing when c is 0); otherwise
\* relocate the elements from f up to l.
Relocate(c, f, l) ==
    \/ /\ c = cap
       /\ Return(NoIter)
       /\ UNCHANGED <<object, fault>>
    \/ /\ c # cap /\ c > 0
       /\ Throw
       /\ UNCHANGED <<object, fault>>
    \/ /\ c # cap
       /\ nbuf' = [p \in Slots(c) |-> Raw]
       /\ src' = f /\ pos' = l /\ dest' = 0
       /\ Goto("relocate")
       /\ UNCHANGED <<object, construct, count, fault>>

SetCapacity ==
    /\ Enter("set_capacity")
    /\ Relocate(call.i, begin, IterAdd(begin, Lesser(call.i, size)))

\* Mutant: keeps the elements set_capacity keeps.
RSetCapacityKeepsFront ==
    /\ Enter("rset_capacity")
    /\ Relocate(call.i, begin, IterAdd(begin, Lesser(call.i, size)))

RSetCapacity ==
    /\ Enter("rset_capacity")
    /\ Relocate(call.i, IterSub(NULL, Lesser(call.i, size)), NULL)

\* A throw destroys the copies made so far, then frees the new buffer.
RelocateOne ==
    /\ pc = "relocate" /\ src # pos
    /\ \/ /\ nbuf' = [nbuf EXCEPT ![dest] = mem[src]]
          /\ mem' = [mem EXCEPT ![src] = MovedFrom(@)]
          /\ fault' = (fault \/ nbuf[dest] # Raw \/ mem[src] = Raw)
          /\ src' = IterNext(src)
          /\ dest' = dest + 1
          /\ Goto("relocate")
          /\ UNCHANGED <<cap, first, last, size, pos, construct, count>>
       \/ /\ MoveMayThrow
          /\ fault' = (fault \/ Live(nbuf) # 0 .. dest - 1)
          /\ Throw
          /\ UNCHANGED object

\* reset(): destroy() the old contents and deallocate, adopt the new buffer.
Reset ==
    /\ pc = "relocate" /\ src = pos
    /\ fault' = (fault \/ Live(mem) # Window(first, size, cap))
    /\ mem' = nbuf
    /\ cap' = call.i
    /\ size' = dest
    /\ first' = 0
    /\ last' = IF dest = cap' THEN 0 ELSE dest
    /\ Return(NoIter)

---------------------------------------------------------------------------
(* rotate: a full buffer only moves its pointers, another one carries the  *)
(* shorter side over, element by element.                                  *)

Rotate ==
    /\ Enter("rotate")
    /\ IF full
       THEN /\ first' = It(call.i) /\ last' = It(call.i)
            /\ Return(NoIter)
            /\ UNCHANGED <<cap, size, mem, fault>>
       ELSE /\ count' = Lesser(size - call.i, call.i)
            /\ construct' = (size - call.i < call.i)
            /\ Goto("rotate")
            /\ UNCHANGED <<object, pos, src, dest, nbuf, fault>>

\* push_front(back()); pop_back()
RotateBack ==
    /\ pc = "rotate" /\ count > 0 /\ construct
    /\ \/ LET b == Decrement(last, cap)
              f == Decrement(first, cap) IN
          /\ mem' = [mem EXCEPT ![f] = mem[b], ![b] = Raw]
          /\ fault' = (fault \/ mem[f] # Raw \/ mem[b] = Raw)
          /\ first' = f /\ last' = b
          /\ count' = count - 1
          /\ Goto("rotate")
          /\ UNCHANGED <<cap, size, pos, src, dest, construct, nbuf>>
       \/ MoveMayThrow /\ Throw /\ UNCHANGED <<object, fault>>

\* push_back(front()); pop_front()
RotateFront ==
    /\ pc = "rotate" /\ count > 0 /\ ~construct
    /\ \/ /\ mem' = [mem EXCEPT ![last] = mem[first], ![first] = Raw]
          /\ fault' = (fault \/ mem[last] # Raw \/ mem[first] = Raw)
          /\ first' = Increment(first, cap) /\ last' = Increment(last, cap)
          /\ count' = count - 1
          /\ Goto("rotate")
          /\ UNCHANGED <<cap, size, pos, src, dest, construct, nbuf>>
       \/ MoveMayThrow /\ Throw /\ UNCHANGED <<object, fault>>

RotateDone ==
    /\ pc = "rotate" /\ count = 0
    /\ Return(NoIter)
    /\ UNCHANGED <<object, fault>>

---------------------------------------------------------------------------
\* circular_buffer(c): an empty buffer.
Init ==
    /\ cap \in 0 .. MaxCapacity
    /\ first = 0 /\ last = 0 /\ size = 0
    /\ mem = [p \in Slots(cap) |-> Raw]
    /\ pc = "idle" /\ call = NoCall
    /\ pos = NULL /\ src = NULL /\ dest = NULL
    /\ construct = FALSE /\ count = 0 /\ nbuf = NoBuf
    /\ ret = NoIter /\ threw = FALSE /\ old = <<>> /\ fault = FALSE

\* The steps of the operation in progress.
Body ==
    \/ PushBack \/ PushFront \/ PopBack \/ PopFront \/ Clear
    \/ Insert \/ InsertShift \/ InsertItem
    \/ RInsert \/ RInsertShift \/ RInsertItem
    \/ Erase \/ EraseShift \/ EraseLast
    \/ EraseRange \/ EraseRangeShift \/ EraseRangeTail
    \/ RErase \/ REraseShift \/ REraseFirst
    \/ REraseRange \/ REraseRangeShift \/ REraseRangeHead
    \/ SetCapacity \/ RSetCapacity \/ RelocateOne \/ Reset
    \/ Rotate \/ RotateBack \/ RotateFront \/ RotateDone

Next == Invoke \/ Body

Spec == Init /\ [][Next]_vars

\* The thread that made a call keeps running it.
FairSpec == Spec /\ WF_vars(Body)

---------------------------------------------------------------------------
\* Types of the variables between the calls.
TypeOK ==
    /\ cap \in 0 .. MaxCapacity
    /\ size \in 0 .. cap
    /\ first \in Pointers(cap) /\ last \in Pointers(cap)
    /\ mem \in [Slots(cap) -> Cell]
    /\ fault \in BOOLEAN /\ threw \in BOOLEAN /\ construct \in BOOLEAN
    /\ count \in Nat
    /\ pc = "idle" => ret \in Slots(cap) \cup {NULL, NoIter}

\* m_last is always m_size slots behind m_first, in the middle of an
\* operation and after an exception as well: the class never stores a
\* pointer and a count that disagree (m_size is redundant except for
\* telling full from empty, and ++m_size is apart from the pointer moves).
PointersAgree == last = Add(first, size, cap)

\* Life-cycle safety: no step of any operation, its handler included,
\* constructs over a live element, assigns to, moves from or destroys an
\* uninitialized slot, or frees a buffer holding one it does not own.
NoLifecycleFault == ~fault

---------------------------------------------------------------------------
(* The invariants of the loops: where the local pointers are and which     *)
(* slots are live after each iteration.                                    *)

Settled == Live(mem) = Window(first, size, cap)

\* src walks from m_last down to pos; the slot at m_last is the first to fill.
InsertLoop ==
    /\ call.x \in Value
    /\ pos \in Window(first, size, cap)
    /\ src \in Slots(cap) /\ dest = src
    /\ Index(src, pos, cap) <= size - Index(pos, first, cap)
    /\ construct = (~full /\ src = last)
    /\ Live(mem) = Window(first, IF full \/ construct THEN size ELSE size + 1, cap)

\* src walks from m_first up to pos; the slot in front of m_first fills first.
RInsertLoop ==
    /\ call.x \in Value
    /\ pos \in Slots(cap) /\ Index(pos, first, cap) \in 1 .. size
    /\ src \in Slots(cap) /\ dest = Decrement(src, cap)
    /\ Index(src, first, cap) <= Index(pos, first, cap)
    /\ construct = (~full /\ src = first)
    /\ Live(mem) = IF full \/ construct THEN Window(first, size, cap)
                   ELSE Window(Decrement(first, cap), size + 1, cap)

EraseLoop ==
    /\ pos \in Slots(cap)
    /\ dest \in Window(first, size, cap)
    /\ src = Increment(dest, cap)
    /\ Settled

EraseRangeLoop ==
    /\ pos \in Slots(cap)
    /\ dest \in Window(first, size, cap)
    /\ src # NULL => /\ src \in Window(first, size, cap)
                     /\ Index(dest, first, cap) < Index(src, first, cap)
    /\ Settled

REraseLoop ==
    /\ pos \in Slots(cap)
    /\ dest \in Window(first, size, cap)
    /\ src = Decrement(dest, cap)
    /\ Settled

\* The two pointers keep the distance of the range.
REraseRangeLoop ==
    /\ pos \in Slots(cap)
    /\ src \in Window(first, size, cap)
    /\ call.j - call.i \in 1 .. size - Index(src, first, cap)
    /\ dest = Add(first, Index(src, first, cap) + (call.j - call.i), cap)
    /\ Settled

REraseHeadLoop ==
    /\ pos \in Slots(cap)
    /\ dest \in Slots(cap) /\ dest # first
    /\ Index(dest, first, cap) <= size
    /\ Settled

\* dest elements were relocated, of the m that fit, from the begin or the end.
RelocateLoop ==
    LET m    == Lesser(call.i, size)
        skip == IF call.op = "set_capacity" THEN 0 ELSE size - m
    IN  /\ call.i \in 0 .. MaxCapacity
        /\ dest \in 0 .. m
        /\ src = It(skip + dest) /\ pos = It(skip + m)
        /\ nbuf \in [Slots(call.i) -> Cell]
        /\ Live(nbuf) = 0 .. dest - 1
        /\ Settled

RotateLoop == ~full /\ (count > 0 => size > 0) /\ Settled

Labels == {"idle", "enter", "insert", "rinsert", "erase", "erase_range", "rerase",
           "rerase_range", "rerase_head", "relocate", "rotate"}

\* Which slots are live, at every point of every operation.
LoopInvariants ==
    /\ pc \in Labels
    /\ pc = "idle"         => Settled
    /\ pc = "enter"        => Settled /\ call \in Calls
    /\ pc = "insert"       => InsertLoop
    /\ pc = "rinsert"      => RInsertLoop
    /\ pc = "erase"        => EraseLoop
    /\ pc = "erase_range"  => EraseRangeLoop
    /\ pc = "rerase"       => REraseLoop
    /\ pc = "rerase_range" => REraseRangeLoop
    /\ pc = "rerase_head"  => REraseHeadLoop
    /\ pc = "relocate"     => RelocateLoop
    /\ pc = "rotate"       => RotateLoop

\* The inductive invariant.
IInv == TypeOK /\ PointersAgree /\ NoLifecycleFault /\ LoopInvariants

\* Between the calls exactly the slots in [m_first, m_first + m_size) hold
\* elements, whichever step of whichever operation threw: nothing leaks and
\* every slot a later operation takes for an element is one.
LiveIsWindow == pc = "idle" => Settled

\* The elements (counted from 0) a completed call would keep.
Kept(c) ==
    LET n == Len(old)
        all == 0 .. n - 1
    IN CASE c.op \in {"push_back", "insert"} /\ n = cap  -> 1 .. n - 1
         [] c.op \in {"push_front", "rinsert"} /\ n = cap -> 0 .. n - 2
         [] c.op \in {"erase", "rerase"} -> all \ {c.i}
         [] c.op \in {"erase_range", "rerase_range"} -> all \ (c.i .. c.j - 1)
         [] OTHER -> all

\* An exception loses no element that the completed call would have kept: a
\* shift that can throw copies an element before its slot is overwritten, and
\* the handlers take in what was built.  Where elements are moved, only the
\* copy of the item (after the shift) and the allocation can throw.
KeptWhenThrown ==
    threw' /\ ~threw => \A k \in Kept(call) : \E p \in 1 .. size' : Contents'[p] = old[k + 1]

ThrowKeepsElements == [][KeptWhenThrown]_vars

\* Every call returns: the pointer comparisons that end the loops are met.
EveryCallReturns == [](pc # "idle" => <>(pc = "idle"))

---------------------------------------------------------------------------
(* The abstract deque: positions count from 1, and end() is size + 1.      *)

\* The position an iterator stands for; a pointer below m_first has wrapped.
Position(p) == CASE p = NoIter -> 0
                 [] p = NULL -> size + 1
                 [] OTHER -> Index(p, first, cap) + 1

AbstractCall(c) ==
    IF c.op \in {"insert", "rinsert", "erase", "rerase", "rotate"} THEN [c EXCEPT !.i = @ + 1]
    ELSE IF c.op \in {"erase_range", "rerase_range"} THEN [c EXCEPT !.i = @ + 1, !.j = @ + 1]
    ELSE c

Deque == INSTANCE BoundedDeque WITH
    contents <- IF pc = "idle" THEN Contents ELSE old,
    capacity <- cap,
    request  <- AbstractCall(call),
    result   <- Position(ret),
    Call     <- [op : Operations, i : Nat, j : Nat, x : Cell]

\* The buffer implements the bounded deque: contents, order, the iterator
\* returned and what an exception leaves behind, for every operation.
ImplementsDeque == Deque!Spec
=============================================================================
