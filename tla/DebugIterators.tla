---------------------------- MODULE DebugIterators ----------------------------
(***************************************************************************)
(* Iterators and the debug mode (BOOST_CB_ENABLE_DEBUG, debug.hpp and the  *)
(* iterator of details.hpp).  Every container keeps its valid iterators in *)
(* a singly linked chain; constructing, copying, assigning and destroying  *)
(* an iterator relinks it, and the container's operations invalidate and   *)
(* unlink those whose element they assign to or destroy.                   *)
(*                                                                         *)
(* The operations are calls of DequeOperations.  What each promises about  *)
(* iterators, its "Iterator Invalidation" paragraph, is followed in the    *)
(* history denotes, independently of pointers and chains.  An iterator     *)
(* step whose BOOST_CB_ASSERT fails stops the program: it is no step here. *)
(***************************************************************************)
EXTENDS RingPointers, DequeOperations, FiniteSets

CONSTANTS Buffer,       \* addresses of containers
          Iterator,     \* addresses of iterator variables
          Temp,         \* the iterator made to invalidate others
          Null,         \* the null pointer, for both
          MaxCapacity,  \* bound on the capacity of a container
          MaxSlots      \* bound on the capacities of all containers together

\* Variables that are not the same have different addresses.
ASSUME DebugAssumption == /\ MaxCapacity \in Nat /\ MaxSlots \in Nat
                          /\ Temp \notin Iterator /\ Null \notin Buffer \cup Iterator \cup {Temp}
                          /\ Buffer \cap Iterator = {} /\ IsFiniteSet(Iterator)

Sets == INSTANCE FiniteSetsExt

VARIABLES ring,     \* of each container: cap, first, size
          head,     \* its m_iterators
          it,       \* of each iterator: registry, next, buff, m_it
          live,     \* the containers and iterators that exist
          denotes   \* history: the position each iterator has, from 1

dvars == <<ring, head, it, live, denotes>>

Gone == 0               \* of denotes: invalidated, or uninitialized
End  == -1              \* of denotes: the end, wherever it is

NoIterator == [registry |-> Null, next |-> Null, buff |-> Null, m_it |-> NULL]
NoRing     == [cap |-> 0, first |-> 0, size |-> 0]

m_last(r)  == Add(r.first, r.size, r.cap)
Full(r)    == r.size = r.cap
Slot(r, k) == Add(r.first, k - 1, r.cap)        \* of the k-th element

\* m_it of an iterator at position k.
Pointer(r, k) == IF k = r.size + 1 THEN NULL ELSE Slot(r, k)

-----------------------------------------------------------------------------
(* The chains.  h is [head, it].                                           *)

Heap == [head |-> head, it |-> it]

\* The iterators met from m_iterators along m_next.
Chain(h, b) ==
    LET limit == Cardinality(Iterator) + 2
        hop[n \in 1 .. limit] ==
            IF n = 1 THEN h.head[b]
            ELSE IF hop[n - 1] = Null THEN Null ELSE h.it[hop[n - 1]].next
    IN  SubSeq(hop, 1, Cardinality({n \in 1 .. limit : hop[n] # Null}))

register_iterator(h, b, i) ==
    [h EXCEPT !.it[i].next = h.head[b], !.head[b] = i]

register_self(h, i) ==
    IF h.it[i].registry = Null THEN h ELSE register_iterator(h, h.it[i].registry, i)

\* Unlinks current, which follows previous.
remove(h, b, current, previous) ==
    IF previous = Null THEN [h EXCEPT !.head[b] = h.it[@].next]
                       ELSE [h EXCEPT !.it[previous].next = h.it[current].next]

\* The search ends at i because i is in the chain (RegistryIsExact).
unregister_iterator(h, b, i) ==
    LET chain == Chain(h, b)
        k     == CHOOSE k \in 1 .. Len(chain) : chain[k] = i
    IN  remove(h, b, i, IF k = 1 THEN Null ELSE chain[k - 1])

unregister_self(h, i) ==
    IF h.it[i].registry = Null THEN h ELSE unregister_iterator(h, h.it[i].registry, i)

\* A step of the walk along the chain in invalidate_iterators and
\* invalidate_iterators_except, with a pointer trailing behind, which stays
\* where it is when an iterator is unlinked.
Visit(s, b, p, doomed) ==
    IF p \in doomed
    THEN [s EXCEPT !.h = remove([s.h EXCEPT !.it[p].registry = Null], b, p, s.previous)]
    ELSE [s EXCEPT !.previous = p]

Invalidate(h, b, doomed) ==
    LET chain == Chain(h, b)
        walk[n \in 0 .. Len(chain)] ==
            IF n = 0 THEN [h |-> h, previous |-> Null]
            ELSE Visit(walk[n - 1], b, chain[n], doomed)
    IN  walk[Len(chain)].h

\* The argument of both is an iterator of the container, made for the call.
WithTemp(h, b, p) ==
    register_self([h EXCEPT !.it[Temp] = [NoIterator EXCEPT !.registry = b, !.buff = b, !.m_it = p]],
                  Temp)

WithoutTemp(h) == [unregister_self(h, Temp) EXCEPT !.it[Temp] = NoIterator]

PointingTo(h, p) == {i \in DOMAIN h.it : h.it[i].m_it = p}

invalidate_iterators(h, b, p) ==
    LET g == WithTemp(h, b, p) IN WithoutTemp(Invalidate(g, b, PointingTo(g, p)))

invalidate_iterators_except(h, b, p) ==
    LET g == WithTemp(h, b, p) IN WithoutTemp(Invalidate(g, b, DOMAIN g.it \ PointingTo(g, p)))

invalidate_all_iterators(h, b) ==
    LET chain == Chain(h, b) IN
    [head |-> [h.head EXCEPT ![b] = Null],
     it   |-> [i \in DOMAIN h.it |->
                 IF \E k \in 1 .. Len(chain) : chain[k] = i
                 THEN [h.it[i] EXCEPT !.registry = Null] ELSE h.it[i]]]

\* replace() and destroy_item() end with the invalidation of their slot.
Touch(h, b, slots) ==
    LET touched[n \in 0 .. ring[b].cap] ==
            IF n = 0 THEN h
            ELSE IF n - 1 \in slots THEN invalidate_iterators(touched[n - 1], b, n - 1)
            ELSE touched[n - 1]
    IN  touched[ring[b].cap]

-----------------------------------------------------------------------------
(* Iterators *)

Exists(i)    == i \in live
Made(b)      == b \in live
is_valid(i)  == it[i].registry = it[i].buff

\* What iterators are subtracted and compared by.
linearize_pointer(i) ==
    LET r == ring[it[i].buff] IN
    IF it[i].m_it = NULL THEN r.size ELSE Index(it[i].m_it, r.first, r.cap)

Adopt(h) == head' = h.head /\ it' = h.it

\* iterator()
DefaultConstruct(i) ==
    /\ ~Exists(i)
    /\ it' = [it EXCEPT ![i] = NoIterator]
    /\ denotes' = [denotes EXCEPT ![i] = Gone]
    /\ live' = live \cup {i}
    /\ UNCHANGED <<ring, head>>

\* iterator(cb, p), as begin(), end() and the operations that return one make it.
Construct(i, b, k) ==
    /\ ~Exists(i) /\ Made(b)
    /\ k \in 1 .. ring[b].size + 1
    /\ Adopt(register_self([Heap EXCEPT !.it[i] =
            [NoIterator EXCEPT !.registry = b, !.buff = b, !.m_it = Pointer(ring[b], k)]], i))
    /\ denotes' = [denotes EXCEPT ![i] = IF k = ring[b].size + 1 THEN End ELSE k]
    /\ live' = live \cup {i}
    /\ UNCHANGED ring

CopyConstruct(i, j) ==
    /\ ~Exists(i) /\ Exists(j)
    /\ Adopt(register_self([Heap EXCEPT !.it[i] = [it[j] EXCEPT !.next = Null]], i))
    /\ denotes' = [denotes EXCEPT ![i] = denotes[j]]
    /\ live' = live \cup {i}
    /\ UNCHANGED ring

\* Mutant: the new registry is taken before the iterator leaves the old one.
AssignRegistersTwice(i, j) ==
    /\ Exists(i) /\ Exists(j)
    /\ LET moved == [Heap EXCEPT !.it[i].registry = it[j].registry]
           base  == IF it[i].registry = it[j].registry THEN Heap ELSE register_self(moved, i)
       IN  Adopt([base EXCEPT !.it[i].buff = it[j].buff, !.it[i].m_it = it[j].m_it])
    /\ denotes' = [denotes EXCEPT ![i] = denotes[j]]
    /\ UNCHANGED <<ring, live>>

\* operator =; an iterator of the same container keeps its place in the chain.
Assign(i, j) ==
    /\ Exists(i) /\ Exists(j)
    /\ LET left == unregister_self(Heap, i)
           base == IF it[i].registry = it[j].registry THEN Heap
                   ELSE register_self([left EXCEPT !.it[i].registry = it[j].registry], i)
       IN  Adopt([base EXCEPT !.it[i].buff = it[j].buff, !.it[i].m_it = it[j].m_it])
    /\ denotes' = [denotes EXCEPT ![i] = denotes[j]]
    /\ UNCHANGED <<ring, live>>

Destroy(i) ==
    /\ Exists(i)
    /\ Adopt([unregister_self(Heap, i) EXCEPT !.it[i] = NoIterator])
    /\ denotes' = [denotes EXCEPT ![i] = Gone]
    /\ live' = live \ {i}
    /\ UNCHANGED ring

\* What the documentation says of a position moved n elements on.
Onward(i, n) ==
    LET size == ring[it[i].buff].size
        k    == (IF denotes[i] = End THEN size + 1 ELSE denotes[i]) + n
    IN  IF k = size + 1 THEN End ELSE k

\* it is valid, and not one a default constructor made.
Usable(i) == Exists(i) /\ it[i].buff # Null /\ is_valid(i)

PointTo(i, p, n) ==
    /\ it' = [it EXCEPT ![i].m_it = p]
    /\ denotes' = [denotes EXCEPT ![i] = Onward(i, n)]
    /\ UNCHANGED <<ring, head, live>>

\* Mutant: an iterator that reaches m_last is not made the end.
IncrementToLast(i) ==
    /\ Usable(i) /\ it[i].m_it # NULL
    /\ PointTo(i, Increment(it[i].m_it, ring[it[i].buff].cap), 1)

EndAtLast(p, r) == IF p = m_last(r) THEN NULL ELSE p

\* operator ++
IncrementIterator(i) ==
    LET r == ring[it[i].buff] IN
    /\ Usable(i) /\ it[i].m_it # NULL
    /\ PointTo(i, EndAtLast(Increment(it[i].m_it, r.cap), r), 1)

\* operator --; the assertion does not see that an empty buffer has no element
\* in front of its end, so callers must.
DecrementIterator(i) ==
    LET r == ring[it[i].buff] IN
    /\ Usable(i) /\ it[i].m_it # r.first /\ r.size > 0
    /\ PointTo(i, Decrement(IF it[i].m_it = NULL THEN m_last(r) ELSE it[i].m_it, r.cap), -1)

\* operator += (n > 0)
AddToIterator(i, n) ==
    LET r == ring[it[i].buff] IN
    /\ Usable(i) /\ r.size - linearize_pointer(i) >= n
    /\ PointTo(i, EndAtLast(Add(it[i].m_it, n, r.cap), r), n)

\* operator -= (n > 0)
SubFromIterator(i, n) ==
    LET r == ring[it[i].buff] IN
    /\ Usable(i) /\ linearize_pointer(i) >= n
    /\ PointTo(i, Sub(IF it[i].m_it = NULL THEN m_last(r) ELSE it[i].m_it, n, r.cap), -n)

-----------------------------------------------------------------------------
(* What the documentation of the container's operations says               *)

\* The positions an operation c on n elements invalidates iterators to.
Invalidated(c, n, cap) ==
    LET full    == n = cap
        room    == cap - n
        count   == IF c.op \in {"insert_n", "rinsert_n"} THEN c.j ELSE 1
        \* how many items find no room, and the elements there are to overwrite
        excess  == IF count > room THEN count - room ELSE 0
        inFront == c.i - 1
        behind  == n - c.i + 1
    IN
    CASE c.op = "push_back"  -> IF full THEN {1} \cap 1 .. n ELSE {}
      [] c.op = "push_front" -> IF full THEN {n} \cap 1 .. n ELSE {}
      [] c.op = "pop_back"   -> {n}
      [] c.op = "pop_front"  -> {1}
      \* from the insertion point on, and the elements overwritten
      [] c.op \in {"insert", "insert_n"} ->
            IF Lesser(count, inFront + room) = 0 THEN {}
            ELSE c.i .. n \cup 1 .. Lesser(excess, inFront)
      [] c.op \in {"rinsert", "rinsert_n"} ->
            IF Lesser(count, behind + room) = 0 THEN {}
            ELSE 1 .. inFront \cup n - Lesser(excess, behind) + 1 .. n
      \* from the first erased element on; rerase: up to the last one
      [] c.op = "erase_range"  -> IF c.i = c.j THEN {} ELSE c.i .. n
      [] c.op = "rerase_range" -> IF c.i = c.j THEN {} ELSE 1 .. c.j - 1
      [] c.op = "erase"  -> c.i .. n
      [] c.op = "rerase" -> 1 .. c.i
      [] c.op \in {"set_capacity", "rset_capacity"} -> IF c.i = cap THEN {} ELSE 1 .. n
      [] c.op = "clear" -> 1 .. n
      [] c.op = "rotate" ->
            LET m == n - c.i + 1 IN
            IF full THEN {} ELSE IF m < c.i - 1 THEN c.i .. n ELSE 1 .. c.i - 1

\* The iterators of b: those to elements are where Where says.
Follow(b, Where(_)) ==
    denotes' = [i \in Iterator |->
        IF it[i].buff = b /\ denotes[i] \notin {Gone, End} THEN Where(denotes[i]) ELSE denotes[i]]

FollowCall(b, c) ==
    LET n     == ring[b].size
        after == After(c, [k \in 1 .. n |-> k], ring[b].cap)[1]
    IN  Follow(b, LAMBDA k : IF k \in Invalidated(c, n, ring[b].cap) THEN Gone
                             ELSE CHOOSE m \in 1 .. Len(after) : after[m] = k)

-----------------------------------------------------------------------------
(* The container's operations: the slots they assign to and destroy, and   *)
(* the buffer they leave.                                                  *)

Op(name, i, j) == [op |-> name, i |-> i, j |-> j, x |-> 0]

Call(b, c, slots, r) ==
    /\ Made(b)
    /\ Allowed(c, [k \in 1 .. ring[b].size |-> k])
    /\ Adopt(Touch(Heap, b, slots))
    /\ ring' = [ring EXCEPT ![b] = r]
    /\ FollowCall(b, c)
    /\ UNCHANGED live

Elements(r, i, j) == {Slot(r, k) : k \in i .. j}

\* An item more at the end (at the beginning); a full buffer moves on.
Appended(r)  == IF r.cap = 0 THEN r ELSE IF Full(r) THEN [r EXCEPT !.first = Increment(@, r.cap)]
                ELSE [r EXCEPT !.size = @ + 1]
Prepended(r) == IF r.cap = 0 THEN r ELSE [r EXCEPT !.first = Decrement(@, r.cap),
                                                   !.size = IF Full(r) THEN @ ELSE @ + 1]
Shortened(r, n) == [r EXCEPT !.size = @ - n]
Advanced(r, n)  == [r EXCEPT !.first = Add(@, n, r.cap), !.size = @ - n]

\* The slot a full buffer overwrites at its end (at its beginning).
Overwritten(r)  == IF Full(r) /\ r.cap > 0 THEN {m_last(r)} ELSE {}
ROverwritten(r) == IF Full(r) /\ r.cap > 0 THEN {Decrement(r.first, r.cap)} ELSE {}

PushBack(b) ==
    Call(b, Op("push_back", 0, 0), Overwritten(ring[b]), Appended(ring[b]))

PushFront(b) ==
    Call(b, Op("push_front", 0, 0), ROverwritten(ring[b]), Prepended(ring[b]))

PopBack(b) ==
    LET r == ring[b] IN
    Call(b, Op("pop_back", 0, 0), {Decrement(m_last(r), r.cap)}, Shortened(r, 1))

PopFront(b) ==
    LET r == ring[b] IN
    Call(b, Op("pop_front", 0, 0), {r.first}, Advanced(r, 1))

\* The elements from the insertion point on move one slot on.
Insert(b, k) ==
    LET r == ring[b] IN
    IF Full(r) /\ k = 1 THEN Call(b, Op("insert", k, 0), {}, r)
    ELSE Call(b, Op("insert", k, 0), Elements(r, k, r.size) \cup Overwritten(r), Appended(r))

RInsert(b, k) ==
    LET r == ring[b] IN
    IF Full(r) /\ k = r.size + 1 THEN Call(b, Op("rinsert", k, 0), {}, r)
    ELSE Call(b, Op("rinsert", k, 0), Elements(r, 1, k - 1) \cup ROverwritten(r), Prepended(r))

\* Mutant: only the last element, which is destroyed, is invalidated.
EraseLastOnly(b, k) ==
    LET r == ring[b] IN
    Call(b, Op("erase", k, 0), {Slot(r, r.size)}, Shortened(r, 1))

Erase(b, k) ==
    LET r == ring[b] IN
    Call(b, Op("erase", k, 0), Elements(r, k, r.size), Shortened(r, 1))

RErase(b, k) ==
    LET r == ring[b] IN
    Call(b, Op("rerase", k, 0), Elements(r, 1, k), Advanced(r, 1))

EraseRange(b, k, l) ==
    LET r == ring[b] IN
    Call(b, Op("erase_range", k, l), IF k = l THEN {} ELSE Elements(r, k, r.size),
         Shortened(r, l - k))

REraseRange(b, k, l) ==
    LET r == ring[b] IN
    Call(b, Op("rerase_range", k, l), IF k = l THEN {} ELSE Elements(r, 1, l - 1),
         IF k = l THEN r ELSE Advanced(r, l - k))

\* clear() leaves m_first at m_last.
Clear(b) ==
    LET r == ring[b] IN
    Call(b, Op("clear", 0, 0), Elements(r, 1, r.size),
         [r EXCEPT !.first = m_last(r), !.size = 0])

SetCapacity(b, op, cap) ==
    LET r == ring[b] IN
    IF cap = r.cap THEN Call(b, Op(op, cap, 0), {}, r)
    ELSE Call(b, Op(op, cap, 0), Elements(r, 1, r.size),
              [cap |-> cap, first |-> 0, size |-> Lesser(cap, r.size)])

\* A full buffer just turns; else the shorter end is pushed to the other one.
Rotate(b, k) ==
    LET r == ring[b]
        m == r.size - k + 1
        n == k - 1
    IN  IF Full(r) THEN Call(b, Op("rotate", k, 0), {}, [r EXCEPT !.first = Slot(r, k)])
        ELSE IF m < n
        THEN Call(b, Op("rotate", k, 0), Elements(r, k, r.size), [r EXCEPT !.first = Sub(@, m, r.cap)])
        ELSE Call(b, Op("rotate", k, 0), Elements(r, 1, n), [r EXCEPT !.first = Add(@, n, r.cap)])

\* The insertion of n items (of which it keeps what has a place in front of or
\* behind pos): the slots from pos on (up to pos) that hold elements.
InsertN(b, k, n) ==
    LET r     == ring[b]
        tail  == r.size - k + 1
        copy  == Lesser(n, r.cap - tail)
        built == Lesser(copy, r.cap - r.size)
        after == [r EXCEPT !.first = Add(@, copy - built, r.cap), !.size = @ + built]
    IN  IF copy = 0 THEN Call(b, Op("insert_n", k, n), {}, r)
        ELSE Call(b, Op("insert_n", k, n),
                  Window(r.first, r.size, r.cap) \cap
                      {Add(Slot(r, k), t, r.cap) : t \in 0 .. tail + copy - 1}, after)

RInsertN(b, k, n) ==
    LET r     == ring[b]
        front == k - 1
        copy  == Lesser(n, r.cap - front)
        built == Lesser(copy, r.cap - r.size)
        after == [r EXCEPT !.first = Sub(@, copy, r.cap), !.size = @ + built]
    IN  IF copy = 0 THEN Call(b, Op("rinsert_n", k, n), {}, r)
        ELSE Call(b, Op("rinsert_n", k, n),
                  Window(r.first, r.size, r.cap) \cap
                      {Add(after.first, t, r.cap) : t \in 0 .. front + copy - 1}, after)

\* linearize() of a buffer that is not linearized: all but the end.
Linearize(b) ==
    LET r       == ring[b]
        already == r.size = 0 \/ r.first < m_last(r) \/ m_last(r) = 0
    IN  /\ Made(b)
        /\ Adopt(IF already THEN Heap ELSE invalidate_iterators_except(Heap, b, NULL))
        /\ ring' = [ring EXCEPT ![b].first = IF already THEN @ ELSE 0]
        /\ Follow(b, LAMBDA k : IF already THEN k ELSE Gone)
        /\ UNCHANGED live

\* assign and operator =, in place or into a new buffer.
AssignItems(b, cap, size) ==
    LET r == ring[b] IN
    /\ Made(b) /\ size <= cap
    /\ Adopt(Touch(Heap, b, Elements(r, 1, r.size)))
    /\ ring' = [ring EXCEPT ![b] = [cap |-> cap, first |-> 0, size |-> size]]
    /\ Follow(b, LAMBDA k : Gone)
    /\ UNCHANGED live

ForgetAll(B) ==
    denotes' = [i \in Iterator |-> IF it[i].buff \in B THEN Gone ELSE denotes[i]]

\* Also the move constructor and the move assignment.
Swap(b, c) ==
    /\ Made(b) /\ Made(c) /\ b # c
    /\ ring' = [ring EXCEPT ![b] = ring[c], ![c] = ring[b]]
    /\ Adopt(invalidate_all_iterators(invalidate_all_iterators(Heap, b), c))
    /\ ForgetAll({b, c})
    /\ UNCHANGED live

\* A container is constructed, full or empty; addresses are used again.
New(b, cap, size) ==
    /\ ~Made(b) /\ size <= cap
    /\ ring' = [ring EXCEPT ![b] = [cap |-> cap, first |-> 0, size |-> size]]
    /\ head' = [head EXCEPT ![b] = Null]
    /\ live' = live \cup {b}
    /\ UNCHANGED <<it, denotes>>

\* ~circular_buffer(): destroy() and then the rest, those at the end.
Delete(b) ==
    /\ Made(b)
    /\ Adopt(invalidate_all_iterators(Touch(Heap, b, Elements(ring[b], 1, ring[b].size)), b))
    /\ ring' = [ring EXCEPT ![b] = NoRing]
    /\ ForgetAll({b})
    /\ live' = live \ {b}

-----------------------------------------------------------------------------
Init ==
    /\ ring = [b \in Buffer |-> NoRing]
    /\ head = [b \in Buffer |-> Null]
    /\ it = [i \in Iterator \cup {Temp} |-> NoIterator]
    /\ live = {}
    /\ denotes = [i \in Iterator |-> Gone]

Capacities == 0 .. MaxCapacity
Fits       == Sets!MapThenSumSet(LAMBDA b : ring'[b].cap, Buffer) <= MaxSlots
Places     == 1 .. MaxCapacity + 1

IteratorStep(i) ==
    \/ DefaultConstruct(i) \/ Destroy(i)
    \/ \E b \in Buffer, k \in Places : Construct(i, b, k)
    \/ \E j \in Iterator \ {i} : CopyConstruct(i, j) \/ Assign(i, j)
    \/ IncrementIterator(i) \/ DecrementIterator(i)
    \/ \E n \in 1 .. MaxCapacity : AddToIterator(i, n) \/ SubFromIterator(i, n)

ContainerStep(b) ==
    \/ PushBack(b) \/ PushFront(b) \/ PopBack(b) \/ PopFront(b)
    \/ \E k \in Places : Insert(b, k) \/ RInsert(b, k) \/ Erase(b, k) \/ RErase(b, k) \/ Rotate(b, k)
    \/ \E k, l \in Places : EraseRange(b, k, l) \/ REraseRange(b, k, l)
    \/ \E k \in Places, n \in Capacities : InsertN(b, k, n) \/ RInsertN(b, k, n)
    \/ Clear(b) \/ Linearize(b)
    \/ \E op \in {"set_capacity", "rset_capacity"}, cap \in Capacities :
          SetCapacity(b, op, cap) /\ Fits
    \/ \E cap, size \in Capacities : (AssignItems(b, cap, size) \/ New(b, cap, size)) /\ Fits
    \/ \E c \in Buffer : Swap(b, c)
    \/ Delete(b)

Next == (\E i \in Iterator : IteratorStep(i)) \/ (\E b \in Buffer : ContainerStep(b))

Spec == Init /\ [][Next]_dvars

-----------------------------------------------------------------------------
\* The chain of a container holds exactly the existing iterators that are
\* registered with it, each once: the search of unregister_iterator finds its
\* iterator and never runs past the end, no chain leads through an iterator that
\* was destroyed, and none is forgotten when elements go.
RegistryIsExact ==
    \A b \in Buffer :
        LET chain == Chain(Heap, b) IN
        /\ \A m, n \in 1 .. Len(chain) : chain[m] = chain[n] => m = n
        /\ {chain[n] : n \in 1 .. Len(chain)} = {i \in Iterator \cap live : it[i].registry = b}

\* Iterators are valid as long as the documentation of the operations performed
\* since says so, and no longer, whatever they were copied from or assigned to.
InvalidatesAsDocumented ==
    \A i \in Iterator \cap live : it[i].buff # Null => (is_valid(i) <=> denotes[i] # Gone)

\* A valid iterator points to the element it has pointed to all along, although
\* elements before it came and went and the buffer wrapped, rotated or moved on:
\* the arithmetic and the comparison of iterators are those of positions.
ValidKeepsItsPosition ==
    \A i \in Iterator \cap live : denotes[i] # Gone =>
        linearize_pointer(i) =
            IF denotes[i] = End THEN ring[it[i].buff].size ELSE denotes[i] - 1

=============================================================================
