---------------------------- MODULE Construction ----------------------------
(***************************************************************************)
(* Construction, assignment, swap and destruction of circular_buffer       *)
(* (base.hpp), for several buffers and the memory blocks they allocate.    *)
(*                                                                         *)
(* A call is Invoke, then a step for the allocation and one for each item  *)
(* that is copied, as each of these may throw; what cannot throw is one    *)
(* step.  The i-th item a call is given is the number i, so that elements  *)
(* out of place show; a pointer is an offset from m_buff, see RingPointers.*)
(***************************************************************************)
EXTENDS RingPointers, Sequences, FiniteSets

CONSTANTS Buffer,       \* the variables of type circular_buffer
          NoBlock,      \* m_buff = 0, and a block that is not allocated
          Raw,          \* an uninitialized slot
          Dead,         \* a variable that is not constructed
          MaxCapacity,  \* bound on capacities
          MaxItems,     \* bound on the number of items of a call
          Defects       \* calls whose known defects a run looks at

ASSUME BoundsAssumption == MaxCapacity \in Nat /\ MaxItems \in Nat

ASSUME BufferAssumption == IsFiniteSet(Buffer)

\* Every variable owns a block at most, and a call may build one more.
Block == 1 .. Cardinality(Buffer) + 1

\* A slot, an allocated block, and the members of a variable.
Cell == Nat \cup {Raw}
Memory(n) == [cap : {n}, mem : [Slots(n) -> Cell]]
Members == [buff : Block \cup {NoBlock}, cap : 0 .. MaxCapacity, first : Nat, last : Nat, size : Nat]

\* The markers differ from what they are told from.
ASSUME MarkerAssumption ==
    /\ Raw \notin Nat /\ NoBlock \notin Nat /\ Dead \notin Members
    /\ \A n \in 1 .. MaxCapacity : NoBlock \notin Memory(n)

VARIABLES scalar, \* is_scalar<T>, of all buffers: elements are dropped, not destroyed
          obj,    \* Dead, or the members: [buff, cap, first, last, size]
          heap,   \* NoBlock, or [cap, mem]: the slots of an allocated block
          call,   \* the call in progress
          pc,     \* where it is: "idle", "enter", "build"
          self,   \* the members of the buffer it builds
          k,      \* items read so far
          old,    \* history: contents of the variable when the call was made
          threw,  \* the last call ended with an exception
          fault   \* history: an element or a block was misused

vars == <<scalar, obj, heap, call, pc, self, k, old, threw, fault>>

NoCall == [op |-> "none"]

\* The members after circular_buffer(): no buffer at all.
Empty == [buff |-> NoBlock, cap |-> 0, first |-> 0, last |-> 0, size |-> 0]

Alive == {b \in Buffer : obj[b] # Dead}

Elements(o, h) == [i \in 1 .. o.size |-> h[o.buff].mem[Add(o.first, i - 1, o.cap)]]
Contents(b)    == IF obj[b] = Dead THEN <<>> ELSE Elements(obj[b], heap)

Occupied(o) == Window(o.first, o.size, o.cap)

-----------------------------------------------------------------------------
(* Memory *)

\* Slots P of block q lose their elements, or are found to hold none.
Destroyed(h, q, P) ==
    IF q = NoBlock THEN h
    ELSE [h EXCEPT ![q].mem = [p \in DOMAIN @ |-> IF p \in P THEN Raw ELSE @[p]]]

DestroysRaw(q, P) == q # NoBlock /\ \E p \in P : heap[q].mem[p] = Raw

\* deallocate(p, n)
Deallocated(h, q) == IF q = NoBlock THEN h ELSE [h EXCEPT ![q] = NoBlock]

\* ... with the size it was allocated with, and no element left in it.
WrongRelease(h, q, n) ==
    q # NoBlock /\ (h[q].cap # n \/ \E p \in DOMAIN h[q].mem : h[q].mem[p] # Raw)

\* destroy(): destroy_content and deallocate(m_buff, capacity()).
AfterDestroy(o) == Deallocated(Destroyed(heap, o.buff, Occupied(o)), o.buff)

DestroyFaults(o) ==
    \/ DestroysRaw(o.buff, Occupied(o))
    \/ WrongRelease(Destroyed(heap, o.buff, Occupied(o)), o.buff, o.cap)

\* m_first after n elements were destroyed one by one.
Walk(o, n) == LET w[i \in 0 .. n] == IF i = 0 THEN o.first ELSE Increment(w[i - 1], o.cap) IN w[n]

\* Mutant: the jump of the scalar version does not wrap.
Jump(o, n) == o.first + n

\* m_first after the first n elements are gone.
Advanced(o, n) == IF scalar THEN Add(o.first, n, o.cap) ELSE Walk(o, n)

-----------------------------------------------------------------------------
(* Calls *)

Filling  == {"fill", "range", "input"}             \* constructors from items
Building == Filling \cup {"copy", "assign", "assign_input", "copy_assign"}

\* The items a call reads, and how many of them std::advance passes over.
Source(c) == IF c.op \in {"copy", "copy_assign"} THEN Contents(c.from) ELSE [i \in 1 .. c.m |-> i]
Wanted(c) == CASE c.op \in {"copy", "copy_assign"} -> obj[c.from].cap
               [] c.op = "assign_input"           -> c.m
               [] OTHER                           -> c.n
Skipped(c) ==
    IF c.op \in {"range", "assign"} /\ Len(Source(c)) > Wanted(c)
    THEN Len(Source(c)) - Wanted(c) ELSE 0

Calls ==
    [op : Filling \cup {"assign"}, b : Buffer, n : 0 .. MaxCapacity, m : 0 .. MaxItems]
    \cup [op : {"copy", "copy_assign", "move", "move_assign", "swap"}, b : Buffer, from : Buffer]
    \cup [op : {"erase_begin", "erase_end"}, b : Buffer, m : 0 .. MaxItems]
    \cup [op : {"assign_input"}, b : Buffer, m : 0 .. MaxCapacity]
    \cup [op : {"default", "clear", "destroy"}, b : Buffer]

\* A constructor is for a new variable, the rest for one that exists.
Legal(c) ==
    /\ (c.op \in Filling \cup {"default", "copy", "move"}) = (obj[c.b] = Dead)
    /\ c.op \in {"copy", "copy_assign", "move", "move_assign", "swap"} => obj[c.from] # Dead
    /\ c.op = "fill" => c.m <= c.n
    /\ c.op \in {"erase_begin", "erase_end"} => c.m <= obj[c.b].size

Invoke ==
    /\ pc = "idle"
    /\ call' \in Calls
    /\ Legal(call')
    /\ pc' = "enter"
    /\ old' = Contents(call'.b)
    /\ threw' = FALSE
    /\ UNCHANGED <<scalar, obj, heap, self, k, fault>>

Leave(t) ==
    /\ pc' = "idle" /\ call' = NoCall /\ self' = Empty /\ k' = 0 /\ old' = <<>> /\ threw' = t
    /\ UNCHANGED scalar

-----------------------------------------------------------------------------
(* A buffer built from items: constructors, assign, operator =             *)

\* assign_n reuses the buffer when the capacity stays the same.
InPlace == call.op \in {"assign", "assign_input"} /\ Wanted(call) = obj[call.b].cap

SelfAssignment == call.op = "copy_assign" /\ call.from = call.b

Enter(ops) == pc = "enter" /\ call.op \in ops

Build == pc' = "build" /\ k' = Skipped(call) /\ UNCHANGED <<scalar, obj, call, old, threw>>

\* assign from input iterators reads its items into a std::deque first, and
\* assigns those; until then a throw has no effect.
ReadThrows ==
    /\ Enter({"assign_input"})
    /\ Leave(TRUE) /\ UNCHANGED <<obj, heap, fault>>

\* allocate(capacity)
Allocate ==
    /\ Enter(Building) /\ ~InPlace /\ ~SelfAssignment
    /\ LET n == Wanted(call)
           q == CHOOSE q \in Block : heap[q] = NoBlock
       IN  \/ /\ n = 0
              /\ self' = Empty
              /\ UNCHANGED <<heap, fault>> /\ Build
           \/ /\ n > 0
              /\ heap' = [heap EXCEPT ![q] = [cap |-> n, mem |-> [p \in Slots(n) |-> Raw]]]
              /\ self' = [Empty EXCEPT !.buff = q, !.cap = n]
              /\ UNCHANGED fault /\ Build
           \/ n > 0 /\ Leave(TRUE) /\ UNCHANGED <<obj, heap, fault>>

\* destroy_content before the new items are built in place.
AssignInPlace ==
    /\ Enter({"assign", "assign_input"}) /\ InPlace
    /\ LET o == obj[call.b] IN
       /\ heap' = Destroyed(heap, o.buff, Occupied(o))
       /\ fault' = (fault \/ DestroysRaw(o.buff, Occupied(o)))
       /\ obj' = [obj EXCEPT ![call.b].first = Advanced(o, o.size)]
       /\ self' = [o EXCEPT !.first = 0, !.last = 0, !.size = 0]
    /\ pc' = "build" /\ k' = Skipped(call) /\ UNCHANGED <<scalar, call, old, threw>>

\* uninitialized_copy, uninitialized_fill_n: the next item into the next slot.
\* The input iterator constructor goes on with replace when the buffer is full.
Construct(p) ==
    /\ heap' = [heap EXCEPT ![self.buff].mem[p] = Source(call)[k + 1]]
    /\ fault' = (fault \/ heap[self.buff].mem[p] # Raw)

BuildItem ==
    /\ pc = "build" /\ k < Len(Source(call))
    /\ self.cap > self.size
    /\ Construct(self.last)
    /\ self' = [self EXCEPT !.last = Increment(@, self.cap), !.size = @ + 1]
    /\ k' = k + 1
    /\ UNCHANGED <<scalar, obj, call, pc, old, threw>>

\* Mutant: m_first stays at the replaced item.
ReplaceKeepsFirst ==
    /\ pc = "build" /\ k < Len(Source(call))
    /\ self.cap = self.size /\ self.cap > 0
    /\ heap' = [heap EXCEPT ![self.buff].mem[self.last] = Source(call)[k + 1]]
    /\ self' = [self EXCEPT !.last = Increment(@, self.cap)]
    /\ k' = k + 1
    /\ UNCHANGED <<scalar, obj, call, pc, old, threw, fault>>

ReplaceItem ==
    /\ pc = "build" /\ k < Len(Source(call))
    /\ self.cap = self.size /\ self.cap > 0
    /\ heap' = [heap EXCEPT ![self.buff].mem[self.last] = Source(call)[k + 1]]
    /\ fault' = (fault \/ heap[self.buff].mem[self.last] = Raw)
    /\ self' = [self EXCEPT !.last = Increment(@, self.cap), !.first = Increment(self.last, self.cap)]
    /\ k' = k + 1
    /\ UNCHANGED <<scalar, obj, call, pc, old, threw>>

\* The size the handler returns the block with: initialize_buffer(capacity,
\* item) gives size(), all others the capacity.
ReleasedSize == IF call.op = "fill" THEN call.m ELSE self.cap

Excluded ==
    \/ call.op = "fill" /\ call.m # call.n /\ "fill" \notin Defects
    \/ call.op = "input" /\ "input" \notin Defects

\* Mutant: the block is returned before the copies in it are destroyed.
CopyThrowsKeepsCopies ==
    /\ pc = "build" /\ k < Len(Source(call)) /\ self.cap > 0 /\ ~scalar /\ ~Excluded /\ call.op # "input"
    /\ Leave(TRUE)
    /\ IF InPlace
       THEN /\ obj' = [obj EXCEPT ![call.b].size = 0]
            /\ UNCHANGED <<heap, fault>>
       ELSE /\ heap' = Deallocated(heap, self.buff)
            /\ fault' = (fault \/ WrongRelease(heap, self.buff, ReleasedSize))
            /\ UNCHANGED obj

\* Mutant: the handler of the reused buffer leaves m_size.
CopyThrowsKeepsSize ==
    /\ pc = "build" /\ k < Len(Source(call)) /\ self.cap > 0 /\ ~scalar /\ ~Excluded /\ call.op # "input"
    /\ Leave(TRUE)
    /\ LET rest == Destroyed(heap, self.buff, 0 .. self.size - 1) IN
       heap' = IF InPlace THEN rest ELSE Deallocated(rest, self.buff)
    /\ UNCHANGED <<obj, fault>>

\* The copy of an item throws, which that of a scalar does not.  The loop
\* destroys the copies it has made, then the block is returned, or the reused
\* buffer is left empty.  The input iterator constructor has no handler.
CopyThrows ==
    /\ pc = "build" /\ k < Len(Source(call)) /\ self.cap > 0 /\ ~scalar /\ ~Excluded
    /\ Leave(TRUE)
    /\ LET rest == Destroyed(heap, self.buff, 0 .. self.size - 1) IN
       CASE call.op = "input" -> UNCHANGED <<obj, heap, fault>>
         [] InPlace ->
              /\ heap' = rest
              /\ obj' = [obj EXCEPT ![call.b].size = 0]
              /\ UNCHANGED fault
         [] OTHER ->
              /\ heap' = Deallocated(rest, self.buff)
              /\ fault' = (fault \/ WrongRelease(rest, self.buff, ReleasedSize))
              /\ UNCHANGED obj

\* Mutant: the old buffer is not freed.
BuiltKeepsOld ==
    /\ pc = "build" /\ (k = Len(Source(call)) \/ self.cap = 0)
    /\ Leave(FALSE)
    /\ obj' = [obj EXCEPT ![call.b] = self]
    /\ UNCHANGED <<heap, fault>>

\* All items are in place: destroy() of the old buffer, if there is one, and
\* the members are set.
Built ==
    /\ pc = "build" /\ (k = Len(Source(call)) \/ self.cap = 0)
    /\ Leave(FALSE)
    /\ obj' = [obj EXCEPT ![call.b] = self]
    /\ IF obj[call.b] = Dead \/ InPlace
       THEN UNCHANGED <<heap, fault>>
       ELSE /\ heap' = AfterDestroy(obj[call.b])
            /\ fault' = (fault \/ DestroyFaults(obj[call.b]))

-----------------------------------------------------------------------------
(* Calls that copy nothing                                                 *)

Default == /\ Enter({"default"})
           /\ obj' = [obj EXCEPT ![call.b] = Empty]
           /\ Leave(FALSE) /\ UNCHANGED <<heap, fault>>

AssignSelf == /\ pc = "enter" /\ SelfAssignment
              /\ Leave(FALSE) /\ UNCHANGED <<obj, heap, fault>>

Swap == /\ Enter({"swap"})
        /\ obj' = [obj EXCEPT ![call.b] = obj[call.from], ![call.from] = obj[call.b]]
        /\ Leave(FALSE) /\ UNCHANGED <<heap, fault>>

\* The move constructor: an empty buffer, then cb.swap(*this).
Move == /\ Enter({"move"})
        /\ obj' = [obj EXCEPT ![call.b] = obj[call.from], ![call.from] = Empty]
        /\ Leave(FALSE) /\ UNCHANGED <<heap, fault>>

\* Mutant: the temporary that takes over the old buffer is forgotten.
MoveAssignSwaps ==
    /\ Enter({"move_assign"})
    /\ obj' = [obj EXCEPT ![call.b] = obj[call.from], ![call.from] = obj[call.b]]
    /\ Leave(FALSE) /\ UNCHANGED <<heap, fault>>

\* cb.swap(*this); then a temporary empty buffer is swapped with cb and
\* destroyed with what *this held, which for a self-move is all there is.
MoveAssign ==
    /\ Enter({"move_assign"})
    /\ obj' = [b \in Buffer |-> IF b = call.from THEN Empty
                                ELSE IF b = call.b THEN obj[call.from] ELSE obj[b]]
    /\ heap' = AfterDestroy(obj[call.b])
    /\ fault' = (fault \/ DestroyFaults(obj[call.b]))
    /\ Leave(FALSE)

\* ~circular_buffer
Destructor ==
    /\ Enter({"destroy"})
    /\ obj' = [obj EXCEPT ![call.b] = Dead]
    /\ heap' = AfterDestroy(obj[call.b])
    /\ fault' = (fault \/ DestroyFaults(obj[call.b]))
    /\ Leave(FALSE)

\* The slots of P are emptied and the members become o.
Emptied(P, o) ==
    /\ obj' = [obj EXCEPT ![call.b] = o]
    /\ heap' = Destroyed(heap, o.buff, P)
    /\ fault' = (fault \/ DestroysRaw(o.buff, P))
    /\ Leave(FALSE)

Clear ==
    /\ Enter({"clear"})
    /\ LET o == obj[call.b] IN
       Emptied(Occupied(o), [o EXCEPT !.first = Advanced(o, o.size), !.size = 0])

\* Mutant: m_first stays.
EraseBeginForgetsFirst ==
    /\ Enter({"erase_begin"})
    /\ LET o == obj[call.b] IN
       Emptied(Window(o.first, call.m, o.cap), [o EXCEPT !.size = @ - call.m])

\* erase_begin: rerase(begin(), begin() + n), for scalars a jump of m_first.
EraseBegin ==
    /\ Enter({"erase_begin"})
    /\ LET o == obj[call.b] IN
       Emptied(Window(o.first, call.m, o.cap),
               [o EXCEPT !.first = Advanced(o, call.m), !.size = @ - call.m])

\* erase_end: erase(end() - n, end()), for scalars a jump of m_last.
EraseEnd ==
    /\ Enter({"erase_end"})
    /\ LET o    == obj[call.b]
           back == Sub(o.last, call.m, o.cap)
       IN  Emptied(IF call.m = 0 THEN {} ELSE Window(back, call.m, o.cap),
                   [o EXCEPT !.last = back, !.size = @ - call.m])

-----------------------------------------------------------------------------
Init == /\ scalar \in BOOLEAN
        /\ obj = [b \in Buffer |-> Dead]
        /\ heap = [q \in Block |-> NoBlock]
        /\ call = NoCall /\ pc = "idle" /\ self = Empty /\ k = 0 /\ old = <<>>
        /\ threw = FALSE /\ fault = FALSE

Next == \/ Invoke
        \/ ReadThrows \/ Allocate \/ AssignInPlace \/ BuildItem \/ ReplaceItem \/ CopyThrows \/ Built
        \/ Default \/ AssignSelf \/ Swap \/ Move \/ MoveAssign \/ Destructor
        \/ Clear \/ EraseBegin \/ EraseEnd

Spec == Init /\ [][Next]_vars

-----------------------------------------------------------------------------
(* Properties *)

\* Between calls every allocated block belongs to exactly one buffer: nothing
\* leaks and nothing will be freed twice, whichever copy threw.
OneOwner ==
    pc = "idle" => \A q \in Block :
        heap[q] # NoBlock <=> Cardinality({b \in Alive : obj[b].buff = q}) = 1

\* Between calls a block holds elements in the window of its owner and nowhere
\* else, and m_last is where the window ends.
LiveIsWindow ==
    pc = "idle" => \A b \in Alive : obj[b].buff # NoBlock =>
        LET o == obj[b] IN
        /\ {p \in Slots(o.cap) : heap[o.buff].mem[p] # Raw} = Occupied(o)
        /\ o.last = Add(o.first, o.size, o.cap)

\* No slot is constructed twice or destroyed when raw; no block is returned
\* with a size it was not allocated with, or with elements in it.
NoMemoryFault == ~fault

LastItems(s, n) == SubSeq(s, Len(s) - (IF n < Len(s) THEN n ELSE Len(s)) + 1, Len(s))

Completes == pc # "idle" /\ pc' = "idle"

ContentsAfter(b) == IF obj'[b] = Dead THEN <<>> ELSE Elements(obj'[b], heap')

\* A buffer built from a range holds the last capacity items of it, in order;
\* a copy holds what its source holds, and has its capacity.
BuildsTheLastItems ==
    [][Completes /\ ~threw' /\ call.op \in Building =>
          /\ ContentsAfter(call.b) = LastItems(Source(call), Wanted(call))
          /\ obj'[call.b].cap = Wanted(call)]_vars

\* operator = and assign to another capacity have no effect when they throw;
\* assign to the same capacity leaves the buffer empty with its capacity; a
\* failed constructor leaves no buffer; and no other buffer is touched.
ThrowIsContained ==
    [][Completes /\ threw' =>
          /\ \A b \in Buffer \ {call.b} : obj'[b] = obj[b] /\ ContentsAfter(b) = Contents(b)
          /\ IF call.op \in Filling \cup {"copy"} THEN obj'[call.b] = Dead
             ELSE /\ obj'[call.b].cap = obj[call.b].cap
                  /\ ContentsAfter(call.b) = IF InPlace /\ pc = "build" THEN <<>> ELSE old]_vars

\* swap exchanges contents and capacities; a move hands them over and leaves
\* an empty buffer of no capacity.
HandsOver ==
    [][Completes /\ call.op \in {"swap", "move", "move_assign"} =>
          /\ call.op # "swap" => obj'[call.from] = Empty
          /\ call.op = "swap" => ContentsAfter(call.from) = Contents(call.b)
          /\ call.b # call.from =>
                /\ ContentsAfter(call.b) = Contents(call.from)
                /\ obj'[call.b].cap = obj[call.from].cap]_vars

\* erase_begin and erase_end take off exactly the elements they name.
ErasesTheEnds ==
    [][Completes /\ call.op \in {"erase_begin", "erase_end", "clear"} =>
          LET n == Len(old) IN
          ContentsAfter(call.b) = CASE call.op = "clear"       -> <<>>
                                    [] call.op = "erase_begin" -> SubSeq(old, call.m + 1, n)
                                    [] call.op = "erase_end"   -> SubSeq(old, 1, n - call.m)]_vars
=============================================================================
