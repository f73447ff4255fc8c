------------------------ MODULE Construction_proofs ------------------------
(***************************************************************************)
(* Proofs about Construction, for every finite set of buffers, every bound *)
(* on capacities and items, scalars as well as elements that can throw.    *)
(***************************************************************************)
EXTENDS Construction, RingPointers_proofs, FiniteSetTheorems, SequenceTheorems

\* The two constructors of finding 3 and observation a are not called: each
\* breaks what is proved here.
NoDefects == "input" \notin Defects /\ "fill" \notin Defects

---------------------------------------------------------------------------
(* The inductive invariant.                                                *)

Live(h, q) == {p \in Slots(h[q].cap) : h[q].mem[p] # Raw}

HeapOK(h) == /\ h = [q \in Block |-> h[q]]
             /\ \A q \in Block : h[q] # NoBlock => \E n \in 1 .. MaxCapacity : h[q] \in Memory(n)

TypeOK == /\ scalar \in BOOLEAN /\ threw \in BOOLEAN /\ fault \in BOOLEAN
          /\ obj \in [Buffer -> Members \cup {Dead}]
          /\ HeapOK(heap)
          /\ pc \in {"idle", "enter", "build"}
          /\ pc # "idle" => call \in Calls
          /\ self \in Members
          /\ k \in Nat

\* Members that agree with the block they point to.
InBlock(o, h) == /\ o.buff \in Block /\ h[o.buff] # NoBlock /\ h[o.buff].cap = o.cap
                 /\ o.first \in Slots(o.cap) /\ o.last \in Slots(o.cap) /\ o.size \in 0 .. o.cap

\* ... and with the elements in it: what a call finds and leaves behind.
Fits(o, h) == \/ o = Empty
              \/ /\ InBlock(o, h)
                 /\ o.last = Add(o.first, o.size, o.cap)
                 /\ Live(h, o.buff) = Occupied(o)

\* The members of a buffer while assign_n refills its block: m_size is stale,
\* but m_first stands at m_last, so that m_size = 0 is all a handler needs.
Refilled(o, h) == o = Empty \/ (InBlock(o, h) /\ o.first = o.last)

Refilling(b) == pc = "build" /\ InPlace /\ b = call.b

Owners == \A b, c \in Alive : b # c /\ obj[b].buff = obj[c].buff => obj[b].buff = NoBlock

Owned == \A q \in Block : heap[q] # NoBlock =>
            \/ \E b \in Alive : obj[b].buff = q
            \/ pc = "build" /\ self.buff = q

Consistent == \A b \in Alive : IF Refilling(b) THEN Refilled(obj[b], heap) ELSE Fits(obj[b], heap)

\* The buffer being built fills its block from the start.
BuildInv ==
    pc = "build" =>
        /\ call.op \in Building /\ ~SelfAssignment
        /\ self.cap = Wanted(call)
        /\ Fits(self, heap)
        /\ self.size < self.cap => self.first = 0
        /\ IF InPlace THEN self.buff = obj[call.b].buff
           ELSE \A b \in Alive : obj[b].buff = self.buff => self.buff = NoBlock

IInv == /\ TypeOK /\ ~fault
        /\ Owners /\ Owned /\ Consistent
        /\ pc # "idle" => Legal(call)
        /\ BuildInv

---------------------------------------------------------------------------
(* Facts about the heap.                                                   *)

\* What is known of an allocated block.
LEMMA BlockFacts ==
    ASSUME NEW h, HeapOK(h), NEW q \in Block, h[q] # NoBlock
    PROVE  /\ h[q] = [cap |-> h[q].cap, mem |-> h[q].mem]
           /\ h[q].cap \in 1 .. MaxCapacity /\ h[q].cap \in Nat \ {0}
           /\ h[q].mem \in [Slots(h[q].cap) -> Cell]
BY BoundsAssumption DEF HeapOK, Memory

\* A record of that form is never mistaken for a free block.
LEMMA BlockIsAllocated ==
    ASSUME NEW n \in 1 .. MaxCapacity, NEW m \in [Slots(n) -> Cell]
    PROVE  [cap |-> n, mem |-> m] \in Memory(n) /\ [cap |-> n, mem |-> m] # NoBlock
<1>1. [cap |-> n, mem |-> m] \in Memory(n)
    BY DEF Memory
<1> QED
    BY <1>1, MarkerAssumption

\* Putting new contents into a block, whatever they are.
LEMMA BlockUpdate ==
    ASSUME NEW h, HeapOK(h), NEW q \in Block, NEW n \in 1 .. MaxCapacity,
           NEW m \in [Slots(n) -> Cell],
           NEW g, g = [r \in Block |-> IF r = q THEN [cap |-> n, mem |-> m] ELSE h[r]]
    PROVE  /\ HeapOK(g)
           /\ g[q] # NoBlock /\ g[q].cap = n /\ g[q].mem = m
           /\ \A r \in Block \ {q} : g[r] = h[r]
BY BlockIsAllocated DEF HeapOK

\* Destroying slots of a block.
LEMMA DestroyedFacts ==
    ASSUME NEW h, HeapOK(h), NEW q \in Block, h[q] # NoBlock, NEW P,
           NEW g, g = Destroyed(h, q, P)
    PROVE  /\ HeapOK(g)
           /\ g[q] # NoBlock /\ g[q].cap = h[q].cap
           /\ g[q].mem \in [Slots(h[q].cap) -> Cell]
           /\ \A p \in Slots(h[q].cap) : g[q].mem[p] = IF p \in P THEN Raw ELSE h[q].mem[p]
           /\ Live(g, q) = Live(h, q) \ P
           /\ \A r \in Block \ {q} : g[r] = h[r]
<1> DEFINE n == h[q].cap
           m == [p \in Slots(n) |-> IF p \in P THEN Raw ELSE h[q].mem[p]]
<1>1. h[q] = [cap |-> n, mem |-> h[q].mem] /\ n \in 1 .. MaxCapacity /\ h[q].mem \in [Slots(n) -> Cell]
    BY BlockFacts
<1>2. m \in [Slots(n) -> Cell]
    BY <1>1 DEF Cell
<1>3. q # NoBlock
    BY MarkerAssumption, BufferAssumption, FS_CardinalityType DEF Block
<1>4. g = [r \in Block |-> IF r = q THEN [cap |-> n, mem |-> m] ELSE h[r]]
    BY <1>1, <1>3 DEF Destroyed, HeapOK
<1>5. /\ HeapOK(g)
      /\ g[q] # NoBlock /\ g[q].cap = n /\ g[q].mem = m
      /\ \A r \in Block \ {q} : g[r] = h[r]
    <2> HIDE DEF n, m
    <2> QED
        BY <1>1, <1>2, <1>4, BlockUpdate
<1>6. Live(g, q) = Live(h, q) \ P
    BY <1>5 DEF Live
<1> QED
    BY <1>1, <1>2, <1>5, <1>6

\* Returning a block.
LEMMA DeallocatedFacts ==
    ASSUME NEW h, HeapOK(h), NEW q \in Block, NEW g, g = Deallocated(h, q)
    PROVE  HeapOK(g) /\ g[q] = NoBlock /\ \A r \in Block \ {q} : g[r] = h[r]
<1>1. q # NoBlock
    BY MarkerAssumption, BufferAssumption, FS_CardinalityType DEF Block
<1>2. g = [r \in Block |-> IF r = q THEN NoBlock ELSE h[r]]
    BY <1>1 DEF Deallocated, HeapOK
<1> QED
    BY <1>2 DEF HeapOK

\* Constructing or assigning an element.
Written(h, q, p, v) == [h EXCEPT ![q].mem[p] = v]

LEMMA WriteFacts ==
    ASSUME NEW h, HeapOK(h), NEW q \in Block, h[q] # NoBlock, NEW p \in Slots(h[q].cap), NEW v \in Cell, v # Raw,
           NEW g, g = Written(h, q, p, v)
    PROVE  /\ HeapOK(g)
           /\ g[q] # NoBlock /\ g[q].cap = h[q].cap
           /\ Live(g, q) = Live(h, q) \cup {p}
           /\ \A r \in Block \ {q} : g[r] = h[r]
<1> DEFINE n == h[q].cap
           m == [h[q].mem EXCEPT ![p] = v]
<1>1. h[q] = [cap |-> n, mem |-> h[q].mem] /\ n \in 1 .. MaxCapacity /\ h[q].mem \in [Slots(n) -> Cell]
    BY BlockFacts
<1>2. m \in [Slots(n) -> Cell]
    BY <1>1 DEF Cell
<1>3. g = [r \in Block |-> IF r = q THEN [cap |-> n, mem |-> m] ELSE h[r]]
    BY <1>1 DEF HeapOK, Written
<1>4. /\ HeapOK(g)
      /\ g[q] # NoBlock /\ g[q].cap = n /\ g[q].mem = m
      /\ \A r \in Block \ {q} : g[r] = h[r]
    <2> HIDE DEF n, m
    <2> QED
        BY <1>1, <1>2, <1>3, BlockUpdate
<1>5. Live(g, q) = Live(h, q) \cup {p}
    BY <1>1, <1>4, MarkerAssumption DEF Live
<1> QED
    BY <1>1, <1>2, <1>4, <1>5

\* Allocating a block: all its slots are raw.
Allocated(h, q, n) == [h EXCEPT ![q] = [cap |-> n, mem |-> [p \in Slots(n) |-> Raw]]]

LEMMA AllocatedFacts ==
    ASSUME NEW h, HeapOK(h), NEW q \in Block, h[q] = NoBlock, NEW n \in 1 .. MaxCapacity,
           NEW g, g = Allocated(h, q, n)
    PROVE  /\ HeapOK(g)
           /\ g[q] # NoBlock /\ g[q].cap = n /\ Live(g, q) = {}
           /\ \A r \in Block \ {q} : g[r] = h[r]
<1> DEFINE m == [p \in Slots(n) |-> Raw]
<1>1. m \in [Slots(n) -> Cell]
    BY DEF Cell
<1>2. g = [r \in Block |-> IF r = q THEN [cap |-> n, mem |-> m] ELSE h[r]]
    BY DEF HeapOK, Allocated
<1>3. /\ HeapOK(g)
      /\ g[q] # NoBlock /\ g[q].cap = n /\ g[q].mem = m
      /\ \A r \in Block \ {q} : g[r] = h[r]
    <2> HIDE DEF m
    <2> QED
        BY <1>1, <1>2, BlockUpdate
<1> QED
    BY <1>3 DEF Live

---------------------------------------------------------------------------
(* Facts about members and their block.                                    *)

\* What another block holds does not matter.
LEMMA FitsFrame ==
    ASSUME NEW h, NEW g, NEW o, o.buff \in Block => g[o.buff] = h[o.buff]
    PROVE  /\ Fits(o, h) => Fits(o, g)
           /\ Refilled(o, h) => Refilled(o, g)
BY DEF Fits, Refilled, InBlock, Live

LEMMA EmptyFits ==
    ASSUME NEW h
    PROVE  Empty \in Members /\ Fits(Empty, h) /\ Empty.buff = NoBlock /\ Empty.cap = 0 /\ Empty.size = 0
BY BoundsAssumption DEF Empty, Members, Fits

LEMMA EmptyUpdates ==
    ASSUME NEW o, o = Empty
    PROVE  /\ [o EXCEPT !.first = 0] = o
           /\ [o EXCEPT !.first = 0, !.last = 0, !.size = 0] = o
<1>1. o = [buff |-> NoBlock, cap |-> 0, first |-> 0, last |-> 0, size |-> 0]
    BY DEF Empty
<1>2. [o EXCEPT !.first = 0] = o
    BY <1>1
<1>3. o.first = 0 /\ o.last = 0 /\ o.size = 0
    BY <1>1
<1>4. o \in [{"buff", "cap", "first", "last", "size"} -> {NoBlock, 0}]
    BY <1>1
<1>5. [o EXCEPT !.first = 0, !.last = 0, !.size = 0] = o
    <2> HIDE <1>1
    <2> QED
        BY <1>3, <1>4
<1> QED
    BY <1>2, <1>5

\* Blocks are numbers, and no number stands for the null pointer.
LEMMA BlockIsNotNull ==
    /\ NoBlock \notin Block /\ Block \subseteq Nat \ {0}
    /\ IsFiniteSet(Block) /\ Cardinality(Block) = Cardinality(Buffer) + 1 /\ Cardinality(Buffer) \in Nat
<1>1. Cardinality(Buffer) \in Nat
    BY BufferAssumption, FS_CardinalityType
<1>2. IsFiniteSet(Block) /\ Cardinality(Block) = Cardinality(Buffer) + 1
    BY <1>1, FS_Interval DEF Block
<1> QED
    BY <1>1, <1>2, MarkerAssumption DEF Block

\* What the members of a buffer say of its block.
LEMMA FitsFacts ==
    ASSUME NEW h, HeapOK(h), NEW o \in Members, Fits(o, h)
    PROVE  \/ o = Empty /\ o.buff = NoBlock
           \/ /\ o.buff \in Block /\ h[o.buff] # NoBlock /\ h[o.buff].cap = o.cap
              /\ o.cap \in 1 .. MaxCapacity /\ o.cap \in Nat \ {0}
              /\ h[o.buff].mem \in [Slots(o.cap) -> Cell]
              /\ o.first \in Slots(o.cap) /\ o.last \in Slots(o.cap) /\ o.size \in 0 .. o.cap
              /\ o.last = Add(o.first, o.size, o.cap)
              /\ Live(h, o.buff) = Occupied(o)
              /\ Occupied(o) \subseteq Slots(o.cap)
<1>1. CASE o = Empty
    BY <1>1, EmptyFits
<1>2. CASE o # Empty
    <2>1. /\ InBlock(o, h) /\ o.last = Add(o.first, o.size, o.cap)
          /\ Live(h, o.buff) = Occupied(o)
        BY <1>2 DEF Fits
    <2>2. /\ h[o.buff].cap \in 1 .. MaxCapacity /\ h[o.buff].cap \in Nat \ {0}
          /\ h[o.buff].mem \in [Slots(h[o.buff].cap) -> Cell]
        BY <2>1, BlockFacts DEF InBlock
    <2> QED
        BY <2>1, <2>2 DEF InBlock, Occupied, Window
<1> QED
    BY <1>1, <1>2

\* The elements taken off one by one leave m_first where the jump of the scalar
\* version puts it.
LEMMA WalkIsAdd ==
    ASSUME NEW o, o.cap \in Nat \ {0}, o.first \in Slots(o.cap), NEW n \in 0 .. o.cap
    PROVE  Walk(o, n) = Add(o.first, n, o.cap)
<1> DEFINE Step(w) == [i \in 0 .. n |-> IF i = 0 THEN o.first ELSE Increment(w[i - 1], o.cap)]
           sum     == [i \in 0 .. n |-> Add(o.first, i, o.cap)]
           Agrees(w) == {i \in 0 .. n : w[i] = Add(o.first, i, o.cap)}
<1>1. Add(o.first, 0, o.cap) = o.first
    BY AddInRing
<1>2. ASSUME NEW i \in 1 .. n
      PROVE  Add(o.first, i, o.cap) = Increment(Add(o.first, i - 1, o.cap), o.cap)
    <2>1. i - 1 \in 0 .. o.cap /\ i - 1 < o.cap /\ (i - 1) + 1 = i
        OBVIOUS
    <2>2. Add(o.first, (i - 1) + 1, o.cap) = Increment(Add(o.first, i - 1, o.cap), o.cap)
        BY <2>1, AddInRing
    <2> QED
        BY <2>1, <2>2
<1>3. sum = Step(sum)
    BY <1>1, <1>2
<1>4. PICK w : w = Step(w) /\ Walk(o, n) = w[n]
    BY <1>3 DEF Walk
<1>5. w[0] = o.first /\ \A i \in 1 .. n : w[i] = Increment(w[i - 1], o.cap)
    BY <1>4
<1>6. 0 \in Agrees(w) /\ \A i \in 1 .. n : i - 1 \in Agrees(w) => i \in Agrees(w)
    BY <1>1, <1>2, <1>5
<1>7. n \in Agrees(w)
    <2> HIDE DEF Agrees
    <2> QED
        BY <1>6, BoundedInduction
<1> QED
    BY <1>4, <1>7

LEMMA AdvancedIsAdd ==
    ASSUME NEW o, o.cap \in Nat \ {0}, o.first \in Slots(o.cap), NEW n \in 0 .. o.cap
    PROVE  Advanced(o, n) = Add(o.first, n, o.cap)
BY WalkIsAdd DEF Advanced

\* Without a buffer there is nothing to take off.
LEMMA AdvancedOfEmpty == Advanced(Empty, 0) = 0
<1> DEFINE Step(w) == [i \in 0 .. 0 |-> IF i = 0 THEN Empty.first ELSE Increment(w[i - 1], Empty.cap)]
           w      == CHOOSE w : w = Step(w)
           zero   == [i \in 0 .. 0 |-> 0]
<1>1. zero = Step(zero)
    BY DEF Empty
<1>2. w = Step(w)
    BY <1>1
<1>3. w[0] = 0
    <2> HIDE DEF w
    <2> QED
        BY <1>2 DEF Empty
<1>4. Walk(Empty, 0) = w[0]
    BY DEF Walk
<1> QED
    BY <1>3, <1>4 DEF Advanced, Add, Empty

---------------------------------------------------------------------------
(* Facts about calls.                                                      *)

LEMMA CallArguments ==
    ASSUME call \in Calls
    PROVE  /\ call.b \in Buffer
           /\ call.op \in Filling \cup {"assign"} =>
                  call.n \in 0 .. MaxCapacity /\ call.m \in 0 .. MaxItems
           /\ call.op \in {"copy", "copy_assign", "move", "move_assign", "swap"} => call.from \in Buffer
           /\ call.op \in {"erase_begin", "erase_end"} => call.m \in 0 .. MaxItems
           /\ call.op = "assign_input" => call.m \in 0 .. MaxCapacity
BY DEF Calls, Filling

\* Which variables a call may be about.
LEMMA CallVariables ==
    ASSUME call \in Calls, Legal(call)
    PROVE  /\ call.op \in Filling \cup {"default", "copy", "move"} => call.b \notin Alive
           /\ call.op \notin Filling \cup {"default", "copy", "move"} => call.b \in Alive
           /\ call.op \in {"copy", "copy_assign", "move", "move_assign", "swap"} => call.from \in Alive
BY CallArguments DEF Legal, Alive

LEMMA AliveIsMembers == ASSUME TypeOK, NEW b \in Alive PROVE b \in Buffer /\ obj[b] \in Members
BY DEF TypeOK, Alive

\* The source of a copy is a variable that nothing is going on in.
LEMMA CopySource ==
    ASSUME IInv, pc # "idle", call.op \in {"copy", "copy_assign"}
    PROVE  call.from \in Alive /\ Fits(obj[call.from], heap)
<1>1. call.from \in Alive
    BY CallVariables DEF IInv, TypeOK
<1>2. ~Refilling(call.from)
    BY DEF Refilling, InPlace
<1> QED
    BY <1>1, <1>2 DEF IInv, Consistent

\* What a buffer that fits its block holds are elements.
LEMMA ElementsAreItems ==
    ASSUME NEW h, HeapOK(h), NEW o \in Members, Fits(o, h)
    PROVE  /\ o.size \in Nat /\ o.size <= o.cap
           /\ Elements(o, h) \in [1 .. o.size -> Nat]
<1>1. CASE o.cap = 0
    <2>1. o = Empty
        BY <1>1, FitsFacts
    <2> QED
        BY <2>1 DEF Elements, Empty
<1>2. CASE o.cap # 0
    <2>1. /\ o.buff \in Block /\ h[o.buff].cap = o.cap /\ o.cap \in Nat \ {0}
          /\ h[o.buff].mem \in [Slots(o.cap) -> Cell]
          /\ o.first \in Slots(o.cap) /\ o.size \in 0 .. o.cap
          /\ Live(h, o.buff) = Occupied(o)
        BY <1>2, FitsFacts, EmptyFits
    <2>2. ASSUME NEW i \in 1 .. o.size
          PROVE  h[o.buff].mem[Add(o.first, i - 1, o.cap)] \in Nat
        <3>1. i - 1 \in 0 .. o.cap /\ i - 1 < o.cap /\ i - 1 < o.size
            BY <2>1
        <3>2. Add(o.first, i - 1, o.cap) \in Slots(o.cap) /\ Index(Add(o.first, i - 1, o.cap), o.first, o.cap) = i - 1
            BY <2>1, <3>1, AddInRing
        <3>3. Add(o.first, i - 1, o.cap) \in Live(h, o.buff)
            BY <2>1, <3>1, <3>2 DEF Occupied, Window
        <3> QED
            BY <2>1, <3>2, <3>3 DEF Live, Cell
    <2> QED
        BY <2>1, <2>2 DEF Elements
<1> QED
    BY <1>1, <1>2

\* The items a call reads, and what it skips of them.
LEMMA SourceFacts ==
    ASSUME IInv, pc # "idle", call.op \in Building
    PROVE  /\ Len(Source(call)) \in Nat
           /\ \A i \in 1 .. Len(Source(call)) : Source(call)[i] \in Nat
           /\ Wanted(call) \in 0 .. MaxCapacity /\ Wanted(call) \in Nat
           /\ Skipped(call) \in Nat
<1>1. call \in Calls /\ Legal(call) /\ TypeOK
    BY DEF IInv, TypeOK
<1>2. CASE call.op \in {"copy", "copy_assign"}
    <2> DEFINE o == obj[call.from]
    <2>1. o \in Members /\ Fits(o, heap) /\ o # Dead /\ HeapOK(heap)
        BY <1>1, <1>2, CopySource, AliveIsMembers DEF Alive, TypeOK
    <2>2. o.size \in Nat /\ Elements(o, heap) \in [1 .. o.size -> Nat]
        BY <2>1, ElementsAreItems
    <2>3. Source(call) = Elements(o, heap) /\ Wanted(call) = o.cap /\ Skipped(call) = 0
        BY <1>2, <2>1 DEF Source, Contents, Wanted, Skipped
    <2>4. o.cap \in 0 .. MaxCapacity
        BY <2>1 DEF Members
    <2> QED
        BY <2>2, <2>3, <2>4, BoundsAssumption
<1>3. CASE call.op \notin {"copy", "copy_assign"}
    <2>1. call.op = "assign_input" => call.m \in 0 .. MaxCapacity
        BY <1>1, <1>3, CallArguments, BoundsAssumption DEF Building, Filling
    <2>2. call.op # "assign_input" => call.n \in 0 .. MaxCapacity
        BY <1>1, <1>3, CallArguments DEF Building, Filling
    <2>a. call.op # "assign_input" => call.m \in 0 .. MaxItems
        BY <1>1, <1>3, CallArguments DEF Building, Filling
    <2>3. call.m \in Nat
        BY <2>1, <2>a, BoundsAssumption
    <2>4. Source(call) = [i \in 1 .. call.m |-> i]
        BY <1>3 DEF Source
    <2>5. Len(Source(call)) = call.m /\ \A i \in 1 .. call.m : Source(call)[i] = i
        BY <2>3, <2>4
    <2>6. Wanted(call) \in 0 .. MaxCapacity
        BY <1>3, <2>1, <2>2 DEF Wanted
    <2>7. Wanted(call) \in Nat
        BY <2>6, BoundsAssumption
    <2> QED
        BY <2>3, <2>5, <2>6, <2>7 DEF Skipped
<1> QED
    BY <1>2, <1>3

---------------------------------------------------------------------------
(* The invariant is kept.                                                  *)

\* Between calls there is one block more than buffers that could own it.
LEMMA FreeBlock ==
    ASSUME TypeOK, Owners, Owned, pc # "build"
    PROVE  \E q \in Block : heap[q] = NoBlock
<1> SUFFICES ASSUME \A q \in Block : heap[q] # NoBlock PROVE FALSE
    OBVIOUS
<1> DEFINE owner == [q \in Block |-> CHOOSE b \in Alive : obj[b].buff = q]
<1>1. ASSUME NEW q \in Block
      PROVE  owner[q] \in Alive /\ obj[owner[q]].buff = q
    BY DEF Owned
<1>2. owner \in [Block -> Buffer]
    <2> HIDE DEF owner
    <2>1. owner = [q \in Block |-> owner[q]]
        BY DEF owner
    <2> QED
        BY <1>1, <2>1 DEF Alive
<1> HIDE DEF owner
<1>3. IsFiniteSet(Block) /\ Cardinality(Buffer) < Cardinality(Block)
    BY BlockIsNotNull
<1>4. PICK q, r \in Block : q # r /\ owner[q] = owner[r]
    BY <1>2, <1>3, BufferAssumption, FS_PigeonHole
<1> QED
    BY <1>1, <1>4

LEMMA LeaveFacts ==
    ASSUME NEW t \in BOOLEAN, Leave(t)
    PROVE  /\ pc' = "idle" /\ self' \in Members /\ k' \in Nat /\ threw' \in BOOLEAN
           /\ scalar' = scalar
BY EmptyFits DEF Leave

\* What has to be shown of a call that returns.
LEMMA ReturnIInv ==
    ASSUME IInv, NEW t \in BOOLEAN, Leave(t), fault' = FALSE,
           obj' \in [Buffer -> Members \cup {Dead}], HeapOK(heap'),
           \A b \in Alive' : Fits(obj'[b], heap'),
           \A b, c \in Alive' : b # c /\ obj'[b].buff = obj'[c].buff => obj'[b].buff = NoBlock,
           \A q \in Block : heap'[q] # NoBlock => \E b \in Alive' : obj'[b].buff = q
    PROVE  IInv'
BY LeaveFacts DEF IInv, TypeOK, Owners, Owned, Consistent, Refilling, BuildInv

\* A call that gives its variable other members, in the same block.
LEMMA ReshapedIInv ==
    ASSUME IInv, pc = "enter" \/ (pc = "build" /\ InPlace),
           NEW t \in BOOLEAN, Leave(t), fault' = FALSE,
           call.b \in Alive, NEW n \in Members, n.buff = obj[call.b].buff,
           obj' = [obj EXCEPT ![call.b] = n],
           HeapOK(heap'), \A q \in Block : q # n.buff => heap'[q] = heap[q],
           Fits(n, heap')
    PROVE  IInv'
<1>1. call.b \in Buffer /\ obj \in [Buffer -> Members \cup {Dead}] /\ n # Dead
    BY MarkerAssumption DEF IInv, TypeOK, Alive
<1>2. /\ obj' \in [Buffer -> Members \cup {Dead}] /\ Alive' = Alive
      /\ \A b \in Alive : obj'[b] = IF b = call.b THEN n ELSE obj[b]
    BY <1>1 DEF Alive
<1>3. \A b \in Alive : obj'[b].buff = obj[b].buff
    BY <1>2
<1>4. ASSUME NEW b \in Alive PROVE Fits(obj'[b], heap')
    <2>1. CASE b = call.b
        BY <1>2, <2>1
    <2>2. CASE b # call.b
        <3>1. Fits(obj[b], heap)
            BY <2>2 DEF IInv, Consistent, Refilling
        <3>2. obj[b].buff \in Block => obj[b].buff # n.buff
            BY <2>2, BlockIsNotNull DEF IInv, Owners
        <3> QED
            BY <1>2, <2>2, <3>1, <3>2, FitsFrame
    <2> QED
        BY <2>1, <2>2
<1>5. \A b, c \in Alive : b # c /\ obj'[b].buff = obj'[c].buff => obj'[b].buff = NoBlock
    BY <1>3 DEF IInv, Owners
<1>6. ASSUME NEW q \in Block, heap'[q] # NoBlock
      PROVE  \E b \in Alive : obj'[b].buff = q
    <2>1. CASE q = n.buff
        BY <1>3, <2>1
    <2>2. CASE q # n.buff
        <3>1. heap[q] # NoBlock
            BY <1>6, <2>2
        <3>2. pc = "build" => self.buff = n.buff
            BY DEF IInv, BuildInv
        <3> QED
            BY <1>3, <2>2, <3>1, <3>2 DEF IInv, Owned
    <2> QED
        BY <2>1, <2>2
<1> QED
    BY <1>2, <1>4, <1>5, <1>6, ReturnIInv

\* Destroying elements of a buffer.
LEMMA TakenOffFacts ==
    ASSUME HeapOK(heap), NEW o \in Members, Fits(o, heap), o.buff # NoBlock,
           NEW P, P \subseteq Occupied(o)
    PROVE  LET g == Destroyed(heap, o.buff, P) IN
           /\ HeapOK(g) /\ g[o.buff] # NoBlock /\ g[o.buff].cap = o.cap
           /\ Live(g, o.buff) = Occupied(o) \ P
           /\ \A q \in Block : q # o.buff => g[q] = heap[q]
           /\ ~DestroysRaw(o.buff, P)
<1>1. /\ o.buff \in Block /\ heap[o.buff] # NoBlock /\ heap[o.buff].cap = o.cap
      /\ Live(heap, o.buff) = Occupied(o)
    BY FitsFacts
<1>2. ~DestroysRaw(o.buff, P)
    BY <1>1 DEF DestroysRaw, Live
<1> SUFFICES ASSUME NEW g, g = Destroyed(heap, o.buff, P)
             PROVE  /\ HeapOK(g) /\ g[o.buff] # NoBlock /\ g[o.buff].cap = o.cap
                    /\ Live(g, o.buff) = Occupied(o) \ P
                    /\ \A q \in Block : q # o.buff => g[q] = heap[q]
    BY <1>2
<1>3. /\ HeapOK(g) /\ g[o.buff] # NoBlock /\ g[o.buff].cap = heap[o.buff].cap
      /\ Live(g, o.buff) = Live(heap, o.buff) \ P
      /\ \A q \in Block \ {o.buff} : g[q] = heap[q]
    BY <1>1, DestroyedFacts
<1> QED
    BY <1>1, <1>3

\* destroy(): every element is destroyed and the block goes back.
LEMMA ReleaseFacts ==
    ASSUME HeapOK(heap), NEW o \in Members, Fits(o, heap)
    PROVE  /\ ~DestroyFaults(o)
           /\ HeapOK(AfterDestroy(o))
           /\ o.buff \in Block => AfterDestroy(o)[o.buff] = NoBlock
           /\ \A q \in Block : q # o.buff => AfterDestroy(o)[q] = heap[q]
<1> DEFINE g == Destroyed(heap, o.buff, Occupied(o))
<1>1. CASE o.buff = NoBlock
    BY <1>1, BlockIsNotNull
       DEF AfterDestroy, DestroyFaults, Deallocated, Destroyed, DestroysRaw, WrongRelease
<1>2. CASE o.buff # NoBlock
    <2>1. /\ o.buff \in Block /\ heap[o.buff] # NoBlock /\ heap[o.buff].cap = o.cap
          /\ heap[o.buff].mem \in [Slots(o.cap) -> Cell]
          /\ Live(heap, o.buff) = Occupied(o)
        BY <1>2, FitsFacts
    <2>2. /\ HeapOK(g) /\ g[o.buff].cap = o.cap
          /\ g[o.buff].mem \in [Slots(o.cap) -> Cell]
          /\ \A p \in Slots(o.cap) : g[o.buff].mem[p] = IF p \in Occupied(o) THEN Raw ELSE heap[o.buff].mem[p]
          /\ \A q \in Block \ {o.buff} : g[q] = heap[q]
        BY <2>1, DestroyedFacts
    <2>3. ~DestroysRaw(o.buff, Occupied(o))
        BY <2>1 DEF DestroysRaw, Live
    <2>4. ~WrongRelease(g, o.buff, o.cap)
        BY <2>1, <2>2 DEF WrongRelease, Live
    <2>5. AfterDestroy(o) = Deallocated(g, o.buff)
        BY DEF AfterDestroy
    <2>6. /\ HeapOK(AfterDestroy(o)) /\ AfterDestroy(o)[o.buff] = NoBlock
          /\ \A q \in Block \ {o.buff} : AfterDestroy(o)[q] = g[q]
        <3> HIDE DEF g
        <3> QED
            BY <2>1, <2>2, <2>5, DeallocatedFacts
    <2> QED
        BY <2>2, <2>3, <2>4, <2>6 DEF DestroyFaults
<1> QED
    BY <1>1, <1>2

LEMMA InitIInv == Init => IInv
<1> SUFFICES ASSUME Init PROVE IInv
    OBVIOUS
<1>1. HeapOK(heap)
    BY DEF Init, HeapOK
<1>2. TypeOK
    BY <1>1, EmptyFits DEF Init, TypeOK
<1>3. Alive = {}
    BY DEF Init, Alive
<1>4. Owners /\ Owned /\ Consistent
    BY <1>3 DEF Init, Owners, Owned, Consistent
<1> QED
    BY <1>2, <1>4 DEF Init, IInv, BuildInv

LEMMA InvokeIInv == IInv /\ Invoke => IInv'
<1> SUFFICES ASSUME IInv, Invoke PROVE IInv'
    OBVIOUS
<1>1. UNCHANGED <<scalar, obj, heap, self, k, fault>> /\ pc = "idle" /\ pc' = "enter" /\ threw' = FALSE
    BY DEF Invoke
<1>2. Alive' = Alive
    BY <1>1 DEF Alive
<1>3. TypeOK' /\ ~fault'
    <2>1. call' \in Calls
        BY DEF Invoke
    <2> QED
        BY <1>1, <2>1 DEF IInv, TypeOK
<1>4. Owners' /\ Owned'
    BY <1>1, <1>2 DEF IInv, Owners, Owned
<1>5. Consistent'
    BY <1>1, <1>2 DEF IInv, Consistent, Refilling
<1>6. Legal(call)'
    BY <1>1 DEF Invoke, Legal
<1> QED
    BY <1>1, <1>3, <1>4, <1>5, <1>6 DEF IInv, BuildInv

\* A call that returns, or throws, having changed nothing.
LEMMA NothingIInv ==
    ASSUME IInv, pc = "enter", NEW t \in BOOLEAN, Leave(t), UNCHANGED <<obj, heap, fault>>
    PROVE  IInv'
<1>1. Alive' = Alive
    BY DEF Alive
<1>2. \A b \in Alive : Fits(obj[b], heap)
    BY DEF IInv, Consistent, Refilling
<1> QED
    BY <1>1, <1>2, ReturnIInv DEF IInv, TypeOK, Owners, Owned

LEMMA ReadThrowsIInv == IInv /\ ReadThrows => IInv'
BY NothingIInv DEF ReadThrows, Enter

LEMMA AssignSelfIInv == IInv /\ AssignSelf => IInv'
BY NothingIInv DEF AssignSelf

\* The block is the buffer's alone while it is being built.
LEMMA AllocateIInv == IInv /\ Allocate => IInv'
<1> SUFFICES ASSUME IInv, Allocate PROVE IInv'
    OBVIOUS
<1> DEFINE n == Wanted(call)
           q == CHOOSE q \in Block : heap[q] = NoBlock
<1>1. pc = "enter" /\ call.op \in Building /\ ~InPlace /\ ~SelfAssignment
    BY DEF Allocate, Enter
<1>2. n \in 0 .. MaxCapacity /\ n \in Nat /\ Skipped(call) \in Nat
    BY <1>1, SourceFacts
<1>3. q \in Block /\ heap[q] = NoBlock
    BY <1>1, FreeBlock DEF IInv
<1>4. ASSUME Build, UNCHANGED fault, self' \in Members, self'.cap = n, self'.first = 0,
             HeapOK(heap'), Fits(self', heap'),
             \A r \in Block : heap[r] # NoBlock => heap'[r] = heap[r],
             \A r \in Block : heap'[r] # NoBlock => heap[r] # NoBlock \/ self'.buff = r,
             self'.buff \in Block => heap[self'.buff] = NoBlock
      PROVE  IInv'
    <2>1. /\ UNCHANGED <<scalar, obj, call, old, threw>> /\ pc' = "build" /\ k' \in Nat
          /\ Alive' = Alive /\ ~InPlace' /\ ~SelfAssignment'
        BY <1>1, <1>2, <1>4 DEF Build, Alive, InPlace, SelfAssignment, Wanted
    <2>2. \A b \in Alive : Fits(obj[b], heap) /\ (obj[b].buff \in Block => heap[obj[b].buff] # NoBlock)
        <3>1. \A b \in Alive : Fits(obj[b], heap) /\ obj[b] \in Members
            BY <1>1, AliveIsMembers DEF IInv, Consistent, Refilling
        <3> QED
            BY <3>1, FitsFacts, BlockIsNotNull DEF IInv, TypeOK
    <2>3. TypeOK' /\ ~fault'
        BY <2>1, <1>4, <1>1 DEF IInv, TypeOK
    <2>4. Owners' /\ Owned'
        BY <1>1, <1>4, <2>1 DEF IInv, Owners, Owned
    <2>5. \A b \in Alive : Fits(obj[b], heap')
        BY <1>4, <2>2, FitsFrame
    <2>6. Consistent'
        BY <2>1, <2>5 DEF Consistent, Refilling
    <2>7. Legal(call)' /\ Wanted(call)' = n
        BY <1>1, <2>1 DEF IInv, Legal, Wanted
    <2>8. ASSUME NEW b \in Alive, obj[b].buff = self'.buff PROVE self'.buff = NoBlock
        BY <1>4, <2>2, <2>8 DEF Members
    <2>9. BuildInv'
        BY <1>1, <1>4, <2>1, <2>7, <2>8 DEF BuildInv
    <2> QED
        BY <2>3, <2>4, <2>6, <2>7, <2>9 DEF IInv
<1>5. CASE n = 0 /\ self' = Empty /\ UNCHANGED <<heap, fault>> /\ Build
    <2> HIDE DEF n
    <2> QED
        BY <1>4, <1>5, EmptyFits, BlockIsNotNull DEF Empty, IInv, TypeOK
<1>6. CASE /\ n > 0 /\ heap' = Allocated(heap, q, n)
           /\ self' = [Empty EXCEPT !.buff = q, !.cap = n]
           /\ UNCHANGED fault /\ Build
    <2> HIDE DEF n, q
    <2>1. n \in 1 .. MaxCapacity
        BY <1>2, <1>6
    <2>2. /\ HeapOK(heap') /\ heap'[q] # NoBlock /\ heap'[q].cap = n /\ Live(heap', q) = {}
          /\ \A r \in Block \ {q} : heap'[r] = heap[r]
        BY <1>3, <1>6, <2>1, AllocatedFacts DEF IInv, TypeOK
    <2>3. self' = [buff |-> q, cap |-> n, first |-> 0, last |-> 0, size |-> 0]
        BY <1>6 DEF Empty
    <2>4. self' \in Members
        BY <1>2, <1>3, <2>3 DEF Members
    <2>5. Fits(self', heap')
        <3>1. InBlock(self', heap')
            BY <1>3, <2>1, <2>2, <2>3, BoundsAssumption DEF InBlock, Slots
        <3>2. Add(0, 0, n) = 0 /\ Window(0, 0, n) = {}
            BY <1>2, <1>6 DEF Add, Window, Index, Slots
        <3> QED
            BY <2>2, <2>3, <3>1, <3>2 DEF Fits, Occupied
    <2>6. self'.buff = q /\ self'.cap = n /\ self'.first = 0
        BY <2>3
    <2>7. /\ \A r \in Block : heap[r] # NoBlock => heap'[r] = heap[r]
          /\ \A r \in Block : heap'[r] # NoBlock => heap[r] # NoBlock \/ q = r
        BY <1>3, <2>2
    <2> QED
        BY <1>3, <1>4, <1>6, <2>2, <2>4, <2>5, <2>6, <2>7
<1>7. CASE Leave(TRUE) /\ UNCHANGED <<obj, heap, fault>>
    BY <1>1, <1>7, NothingIInv
<1> QED
    BY <1>5, <1>6, <1>7 DEF Allocate, Allocated

\* assign_n on the block it has: the elements are gone and m_first has walked
\* to m_last.
LEMMA AssignInPlaceIInv == IInv /\ AssignInPlace => IInv'
<1> SUFFICES ASSUME IInv, AssignInPlace PROVE IInv'
    OBVIOUS
<1> DEFINE o == obj[call.b]
           n == [o EXCEPT !.first = Advanced(o, o.size)]
<1>1. /\ pc = "enter" /\ call.op \in {"assign", "assign_input"} /\ InPlace
      /\ pc' = "build" /\ k' = Skipped(call) /\ UNCHANGED <<scalar, call, old, threw>>
      /\ heap' = Destroyed(heap, o.buff, Occupied(o))
      /\ fault' = (fault \/ DestroysRaw(o.buff, Occupied(o)))
      /\ self' = [o EXCEPT !.first = 0, !.last = 0, !.size = 0]
    BY DEF AssignInPlace, Enter
<1>2. /\ call \in Calls /\ Legal(call) /\ TypeOK /\ ~fault /\ HeapOK(heap)
      /\ call.b \in Alive /\ call.b \in Buffer /\ o \in Members
      /\ \A b \in Alive : Fits(obj[b], heap)
    BY <1>1, CallVariables, AliveIsMembers DEF IInv, TypeOK, Filling, Consistent, Refilling
<1>3. obj' = [obj EXCEPT ![call.b] = n]
    BY <1>2 DEF AssignInPlace, TypeOK
<1>4. k' \in Nat
    BY <1>1, SourceFacts DEF Building
<1>5. /\ HeapOK(heap') /\ fault' = FALSE
      /\ \A q \in Block : q # o.buff => heap'[q] = heap[q]
      /\ self' \in Members /\ self'.buff = o.buff /\ self'.cap = o.cap /\ self'.first = 0
      /\ Fits(self', heap') /\ Refilled(n, heap')
      /\ n \in Members /\ n.buff = o.buff /\ n.cap = o.cap
      /\ o.buff \in Block => heap[o.buff] # NoBlock
    <2>1. CASE o = Empty /\ o.buff = NoBlock
        <3>1. heap' = heap /\ fault' = FALSE
            BY <1>1, <1>2, <2>1 DEF Destroyed, DestroysRaw
        <3>2. n = Empty /\ self' = Empty
            <4>1. Advanced(o, o.size) = 0
                BY <2>1, AdvancedOfEmpty, EmptyFits
            <4> QED
                BY <1>1, <2>1, <4>1, EmptyUpdates
        <3>3. Empty.first = 0
            BY DEF Empty
        <3> HIDE DEF o, n
        <3> QED
            BY <1>2, <2>1, <3>1, <3>2, <3>3, EmptyFits, BlockIsNotNull DEF Refilled
    <2>2. CASE /\ o.buff \in Block /\ heap[o.buff] # NoBlock /\ heap[o.buff].cap = o.cap
               /\ o.cap \in 1 .. MaxCapacity /\ o.cap \in Nat \ {0}
               /\ o.first \in Slots(o.cap) /\ o.last \in Slots(o.cap) /\ o.size \in 0 .. o.cap
               /\ o.last = Add(o.first, o.size, o.cap)
               /\ Live(heap, o.buff) = Occupied(o)
        <3>1. n.first = o.last
            BY <2>2, AdvancedIsAdd
        <3>2. /\ HeapOK(heap') /\ heap'[o.buff] # NoBlock /\ heap'[o.buff].cap = o.cap
              /\ Live(heap', o.buff) = {}
              /\ \A q \in Block \ {o.buff} : heap'[q] = heap[q]
            <4>1. o.buff # NoBlock /\ Occupied(o) \ Occupied(o) = {}
                BY <2>2, BlockIsNotNull
            <4>2. HeapOK(heap) /\ o \in Members /\ Fits(o, heap)
                BY <1>2
            <4>3. heap' = Destroyed(heap, o.buff, Occupied(o))
                BY <1>1
            <4> HIDE DEF o
            <4> QED
                BY <4>1, <4>2, <4>3, TakenOffFacts
        <3>3. ~DestroysRaw(o.buff, Occupied(o))
            BY <2>2 DEF DestroysRaw, Live
        <3>4. o = [buff |-> o.buff, cap |-> o.cap, first |-> o.first, last |-> o.last, size |-> o.size]
            BY <1>2 DEF Members
        <3>5. self' = [buff |-> o.buff, cap |-> o.cap, first |-> 0, last |-> 0, size |-> 0]
            BY <1>1, <3>4
        <3>6. n = [buff |-> o.buff, cap |-> o.cap, first |-> o.last, last |-> o.last, size |-> o.size]
            BY <3>1, <3>4
        <3>7. self' \in Members /\ n \in Members
            BY <1>2, <3>5, <3>6 DEF Members
        <3>8. Refilled(n, heap')
            BY <2>2, <3>2, <3>6 DEF Refilled, InBlock
        <3>9. Fits(self', heap')
            <4>1. Add(0, 0, o.cap) = 0 /\ Window(0, 0, o.cap) = {}
                BY <2>2 DEF Add, Window, Index, Slots
            <4>2. InBlock(self', heap')
                BY <2>2, <3>2, <3>5 DEF InBlock, Slots
            <4> QED
                BY <3>2, <3>5, <4>1, <4>2 DEF Fits, Occupied
        <3> HIDE DEF o, n
        <3> QED
            BY <1>1, <1>2, <2>2, <3>2, <3>3, <3>5, <3>6, <3>7, <3>8, <3>9
    <2> QED
        BY <1>2, <2>1, <2>2, FitsFacts
<1> HIDE DEF n
<1>6. /\ obj' \in [Buffer -> Members \cup {Dead}] /\ Alive' = Alive
      /\ \A b \in Alive : obj'[b] = IF b = call.b THEN n ELSE obj[b]
    BY <1>2, <1>3, <1>5, MarkerAssumption DEF Alive, TypeOK
<1>7. \A b \in Alive : obj'[b].buff = obj[b].buff
    BY <1>5, <1>6
<1>8. InPlace' /\ Wanted(call)' = Wanted(call) /\ Wanted(call) = o.cap /\ ~SelfAssignment'
    BY <1>1, <1>2, <1>5, <1>6 DEF InPlace, Wanted, SelfAssignment
<1>9. TypeOK' /\ ~fault'
    BY <1>1, <1>2, <1>4, <1>5, <1>6 DEF TypeOK
<1>10. Owners' /\ Owned'
    <2>1. Owners'
        BY <1>6, <1>7 DEF IInv, Owners
    <2>2. ASSUME NEW q \in Block, heap'[q] # NoBlock PROVE \E b \in Alive : obj'[b].buff = q
        <3>1. CASE q = o.buff
            BY <1>2, <1>7, <3>1
        <3>2. CASE q # o.buff
            BY <1>1, <1>5, <1>7, <2>2, <3>2 DEF IInv, Owned
        <3> QED
            BY <3>1, <3>2
    <2> QED
        BY <1>6, <2>1, <2>2 DEF Owned
<1>11. Consistent'
    <2>1. ASSUME NEW b \in Alive PROVE IF Refilling(b)' THEN Refilled(obj'[b], heap') ELSE Fits(obj'[b], heap')
        <3>1. CASE b = call.b
            BY <1>1, <1>5, <1>6, <1>8, <3>1 DEF Refilling
        <3>2. CASE b # call.b
            <4>1. obj[b].buff \in Block => obj[b].buff # o.buff
                BY <1>2, <3>2, BlockIsNotNull DEF IInv, Owners
            <4>2. Fits(obj'[b], heap')
                BY <1>2, <1>5, <1>6, <3>2, <4>1, FitsFrame
            <4> QED
                BY <1>1, <3>2, <4>2 DEF Refilling
        <3> QED
            BY <3>1, <3>2
    <2> QED
        BY <1>6, <2>1 DEF Consistent
<1>12. Legal(call)'
    BY <1>1, <1>2, <1>6 DEF Legal, Filling, Alive
<1>13. BuildInv'
    BY <1>1, <1>2, <1>5, <1>6, <1>8 DEF BuildInv, Building
<1> QED
    BY <1>9, <1>10, <1>11, <1>12, <1>13 DEF IInv

\* A step of the loop that fills the block.
LEMMA BuildingIInv ==
    ASSUME IInv, pc = "build", UNCHANGED <<scalar, obj, call, pc, old, threw>>,
           k' \in Nat, fault' = FALSE, HeapOK(heap'), self.buff \in Block,
           self' \in Members, self'.buff = self.buff, self'.cap = self.cap,
           heap'[self.buff] # NoBlock, heap'[self.buff].cap = heap[self.buff].cap,
           heap[self.buff] # NoBlock,
           \A q \in Block : q # self.buff => heap'[q] = heap[q],
           Fits(self', heap'), self'.size < self'.cap => self'.first = 0
    PROVE  IInv'
<1>1. /\ Alive' = Alive /\ InPlace' = InPlace /\ SelfAssignment' = SelfAssignment
      /\ Wanted(call)' = Wanted(call) /\ Legal(call)' = Legal(call)
    BY DEF Alive, InPlace, SelfAssignment, Wanted, Legal
<1>2. TypeOK' /\ ~fault'
    BY DEF IInv, TypeOK
<1>3. Owners' /\ Owned'
    BY <1>1 DEF IInv, Owners, Owned
<1>4. Consistent'
    <2>1. ASSUME NEW b \in Alive
          PROVE  IF Refilling(b)' THEN Refilled(obj'[b], heap') ELSE Fits(obj'[b], heap')
        <3>1. CASE Refilling(b)
            <4>1. Refilled(obj[b], heap)
                BY <3>1 DEF IInv, Consistent
            <4>2. obj[b].buff = self.buff
                BY <3>1 DEF IInv, BuildInv, Refilling
            <4>3. Refilled(obj[b], heap')
                BY <4>1, <4>2 DEF Refilled, InBlock
            <4> QED
                BY <1>1, <3>1, <4>3 DEF Refilling
        <3>2. CASE ~Refilling(b)
            <4>1. Fits(obj[b], heap)
                BY <3>2 DEF IInv, Consistent
            <4>2. obj[b].buff \in Block => obj[b].buff # self.buff
                BY <3>2, CallVariables, BlockIsNotNull
                   DEF IInv, TypeOK, BuildInv, Refilling, Owners, InPlace, Filling
            <4>3. Fits(obj[b], heap')
                BY <4>1, <4>2, FitsFrame
            <4> QED
                BY <1>1, <3>2, <4>3 DEF Refilling
        <3> QED
            BY <3>1, <3>2
    <2> QED
        BY <1>1, <2>1 DEF Consistent
<1>5. BuildInv'
    BY <1>1 DEF IInv, BuildInv
<1> QED
    BY <1>1, <1>2, <1>3, <1>4, <1>5 DEF IInv

\* What is known when an item is copied.
LEMMA ItemFacts ==
    ASSUME IInv, pc = "build", k < Len(Source(call)), self.cap > 0
    PROVE  /\ Source(call)[k + 1] \in Nat /\ k \in Nat
           /\ HeapOK(heap) /\ self \in Members /\ fault = FALSE
           /\ self.buff \in Block /\ heap[self.buff] # NoBlock /\ heap[self.buff].cap = self.cap
           /\ heap[self.buff].mem \in [Slots(self.cap) -> Cell]
           /\ self.cap \in Nat \ {0} /\ self.first \in Slots(self.cap) /\ self.last \in Slots(self.cap)
           /\ self.size \in 0 .. self.cap /\ self.last = Add(self.first, self.size, self.cap)
           /\ self.size < self.cap => self.first = 0
           /\ Live(heap, self.buff) = Occupied(self)
<1>1. HeapOK(heap) /\ self \in Members /\ fault = FALSE /\ k \in Nat /\ Fits(self, heap)
    BY DEF IInv, TypeOK, BuildInv
<1>2. self # Empty
    BY EmptyFits
<1>3. Source(call)[k + 1] \in Nat
    BY <1>1, SourceFacts DEF IInv, BuildInv
<1> QED
    BY <1>1, <1>2, <1>3, FitsFacts DEF IInv, BuildInv

LEMMA BuildItemIInv == IInv /\ BuildItem => IInv'
<1> SUFFICES ASSUME IInv, BuildItem PROVE IInv'
    OBVIOUS
<1> DEFINE c == self.cap
           v == Source(call)[k + 1]
<1>1. /\ pc = "build" /\ k < Len(Source(call)) /\ c > self.size /\ k' = k + 1
      /\ UNCHANGED <<scalar, obj, call, pc, old, threw>>
      /\ heap' = Written(heap, self.buff, self.last, v)
      /\ fault' = (fault \/ heap[self.buff].mem[self.last] # Raw)
      /\ self' = [self EXCEPT !.last = Increment(@, self.cap), !.size = @ + 1]
    BY DEF BuildItem, Construct, Written
<1>2. self.size \in Nat /\ c \in Nat
    BY FitsFacts, BoundsAssumption DEF IInv, TypeOK, BuildInv, Members
<1>3. c > 0
    BY <1>1, <1>2
<1>4. /\ v \in Nat /\ k \in Nat /\ HeapOK(heap) /\ fault = FALSE
      /\ self.buff \in Block /\ heap[self.buff] # NoBlock /\ heap[self.buff].cap = c
      /\ heap[self.buff].mem \in [Slots(c) -> Cell]
      /\ c \in Nat \ {0} /\ self.first \in Slots(c) /\ self.last \in Slots(c)
      /\ self.size \in 0 .. c /\ self.last = Add(self.first, self.size, c)
      /\ Live(heap, self.buff) = Occupied(self)
    BY <1>1, <1>3, ItemFacts
<1>a. self.first = 0 /\ self.size \in 0 .. c - 1 /\ k' \in Nat
    <2>1. self.size < c => self.first = 0
        BY <1>1, <1>3, ItemFacts
    <2> QED
        BY <1>1, <1>2, <1>4, <2>1
<1>5. self' = [buff |-> self.buff, cap |-> c, first |-> 0, last |-> Increment(self.last, c), size |-> self.size + 1]
    BY <1>1, <1>4, <1>a DEF IInv, TypeOK, Members
<1>6. Increment(self.last, c) \in Slots(c) /\ Increment(self.last, c) = Add(0, self.size + 1, c)
    <2>1. Increment(self.last, c) \in Slots(c)
        BY <1>4, StepInRing
    <2>2. 0 \in Slots(c) /\ self.size \in 0 .. c /\ self.size < c /\ self.last = Add(0, self.size, c)
        BY <1>4, <1>a DEF Slots
    <2>3. Add(0, self.size + 1, c) = Increment(Add(0, self.size, c), c)
        BY <1>4, <2>2, AddInRing
    <2> QED
        BY <2>1, <2>2, <2>3
<1>7. /\ HeapOK(heap') /\ heap'[self.buff] # NoBlock /\ heap'[self.buff].cap = c
      /\ Live(heap', self.buff) = Occupied(self) \cup {self.last}
      /\ \A q \in Block : q # self.buff => heap'[q] = heap[q]
    <2>1. heap' = Written(heap, self.buff, self.last, v)
        BY <1>1
    <2>2. HeapOK(heap) /\ self.buff \in Block /\ heap[self.buff] # NoBlock /\ v \in Cell /\ v # Raw
        BY <1>4, MarkerAssumption DEF Cell
    <2>3. self.last \in Slots(heap[self.buff].cap)
        BY <1>4
    <2>4. heap[self.buff].cap = c /\ Live(heap, self.buff) = Occupied(self)
        BY <1>4
    <2> HIDE DEF v, c
    <2>5. /\ HeapOK(heap') /\ heap'[self.buff] # NoBlock /\ heap'[self.buff].cap = heap[self.buff].cap
          /\ Live(heap', self.buff) = Live(heap, self.buff) \cup {self.last}
          /\ \A q \in Block \ {self.buff} : heap'[q] = heap[q]
        BY <2>1, <2>2, <2>3, WriteFacts
    <2> QED
        BY <2>4, <2>5
<1>8. Occupied(self') = Occupied(self) \cup {self.last} /\ self.last \notin Occupied(self)
    BY <1>4, <1>5, <1>a, WindowGrows DEF Occupied
<1>9. fault' = FALSE
    BY <1>1, <1>4, <1>8 DEF Live
<1>10. self' \in Members
    BY <1>4, <1>5, <1>6, <1>a DEF Members, Slots, IInv, TypeOK
<1>11. Fits(self', heap')
    <2>1. InBlock(self', heap')
        BY <1>4, <1>5, <1>6, <1>7, <1>a DEF InBlock, Slots
    <2> QED
        BY <1>5, <1>6, <1>7, <1>8, <2>1 DEF Fits
<1>12. /\ self'.buff = self.buff /\ self'.cap = self.cap
       /\ self'.size < self'.cap => self'.first = 0
    BY <1>5
<1> HIDE DEF c, v
<1> QED
    BY <1>1, <1>4, <1>a, <1>12, <1>7, <1>9, <1>10, <1>11, BuildingIInv DEF c

LEMMA ReplaceItemIInv == IInv /\ ReplaceItem => IInv'
<1> SUFFICES ASSUME IInv, ReplaceItem PROVE IInv'
    OBVIOUS
<1> DEFINE c == self.cap
           v == Source(call)[k + 1]
           next == Increment(self.last, c)
<1>1. /\ pc = "build" /\ k < Len(Source(call)) /\ c = self.size /\ c > 0 /\ k' = k + 1
      /\ UNCHANGED <<scalar, obj, call, pc, old, threw>>
      /\ heap' = Written(heap, self.buff, self.last, v)
      /\ fault' = (fault \/ heap[self.buff].mem[self.last] = Raw)
      /\ self' = [self EXCEPT !.last = Increment(@, self.cap), !.first = Increment(self.last, self.cap)]
    BY DEF ReplaceItem, Written
<1>2. /\ v \in Nat /\ k \in Nat /\ HeapOK(heap) /\ fault = FALSE
      /\ self.buff \in Block /\ heap[self.buff] # NoBlock /\ heap[self.buff].cap = c
      /\ heap[self.buff].mem \in [Slots(c) -> Cell]
      /\ c \in Nat \ {0} /\ self.first \in Slots(c) /\ self.last \in Slots(c)
      /\ Live(heap, self.buff) = Occupied(self)
    BY <1>1, ItemFacts
<1>3. self' = [buff |-> self.buff, cap |-> c, first |-> next, last |-> next, size |-> c]
    BY <1>1, <1>2 DEF IInv, TypeOK, Members
<1>4. next \in Slots(c) /\ next = Add(next, c, c)
    BY <1>2, StepInRing, AddInRing
<1>5. /\ HeapOK(heap') /\ heap'[self.buff] # NoBlock /\ heap'[self.buff].cap = c
      /\ Live(heap', self.buff) = Occupied(self) \cup {self.last}
      /\ \A q \in Block : q # self.buff => heap'[q] = heap[q]
    <2>1. heap' = Written(heap, self.buff, self.last, v)
        BY <1>1
    <2>2. HeapOK(heap) /\ self.buff \in Block /\ heap[self.buff] # NoBlock /\ v \in Cell /\ v # Raw
        BY <1>2, MarkerAssumption DEF Cell
    <2>3. self.last \in Slots(heap[self.buff].cap)
        BY <1>2
    <2>4. heap[self.buff].cap = c /\ Live(heap, self.buff) = Occupied(self)
        BY <1>2
    <2> HIDE DEF v, c
    <2>5. /\ HeapOK(heap') /\ heap'[self.buff] # NoBlock /\ heap'[self.buff].cap = heap[self.buff].cap
          /\ Live(heap', self.buff) = Live(heap, self.buff) \cup {self.last}
          /\ \A q \in Block \ {self.buff} : heap'[q] = heap[q]
        BY <2>1, <2>2, <2>3, WriteFacts
    <2> QED
        BY <2>4, <2>5
<1>6. Occupied(self') = Slots(c) /\ Occupied(self) = Slots(c)
    BY <1>1, <1>2, <1>3, <1>4, WindowBounds DEF Occupied, Pointers
<1>7. fault' = FALSE
    BY <1>1, <1>2, <1>6 DEF Live
<1>8. self' \in Members
    BY <1>2, <1>3, <1>4 DEF Members, Slots, IInv, TypeOK
<1>9. Fits(self', heap')
    <2>1. InBlock(self', heap')
        BY <1>2, <1>3, <1>4, <1>5 DEF InBlock
    <2> QED
        BY <1>2, <1>3, <1>4, <1>5, <1>6, <2>1 DEF Fits
<1>10. /\ self'.buff = self.buff /\ self'.cap = self.cap
       /\ ~(self'.size < self'.cap) /\ k' \in Nat
    BY <1>1, <1>2, <1>3
<1> HIDE DEF c, v, next
<1> QED
    BY <1>1, <1>2, <1>5, <1>7, <1>8, <1>9, <1>10, BuildingIInv DEF c

\* The copies made so far are all there is to destroy.
LEMMA CopiesAreAll ==
    ASSUME IInv, pc = "build", k < Len(Source(call)), self.cap > 0
    PROVE  Occupied(self) = 0 .. self.size - 1
<1>1. /\ self.cap \in Nat \ {0} /\ self.first \in Slots(self.cap) /\ self.size \in 0 .. self.cap
      /\ self.size < self.cap => self.first = 0
    BY ItemFacts
<1>2. self.cap \in Nat /\ self.first \in Pointers(self.cap) /\ 0 \in Pointers(self.cap)
    BY <1>1 DEF Pointers, Slots
<1>3. CASE self.size < self.cap
    BY <1>1, <1>2, <1>3, WindowBounds DEF Occupied
<1>4. CASE self.size = self.cap
    <2>1. Window(self.first, self.cap, self.cap) = Slots(self.cap)
        BY <1>2, WindowBounds
    <2> QED
        BY <1>4, <2>1 DEF Occupied, Slots
<1> QED
    BY <1>1, <1>3, <1>4

\* The handler of a copy that throws leaves a buffer that owns its block and
\* no element, or returns a block that is empty and of the size it says.
LEMMA CopyThrowsIInv == NoDefects /\ IInv /\ CopyThrows => IInv'
<1> SUFFICES ASSUME NoDefects, IInv, CopyThrows PROVE IInv'
    OBVIOUS
<1> DEFINE rest == Destroyed(heap, self.buff, 0 .. self.size - 1)
           o == obj[call.b]
           n == [o EXCEPT !.size = 0]
<1>1. /\ pc = "build" /\ k < Len(Source(call)) /\ self.cap > 0 /\ Leave(TRUE)
      /\ call.op # "input"
      /\ call.op = "fill" => call.m = call.n
      /\ InPlace => heap' = rest /\ obj' = [obj EXCEPT ![call.b].size = 0] /\ fault' = fault
      /\ ~InPlace => /\ heap' = Deallocated(rest, self.buff) /\ obj' = obj
                     /\ fault' = (fault \/ WrongRelease(rest, self.buff, ReleasedSize))
    BY DEF CopyThrows, Excluded, NoDefects
<1>2. /\ HeapOK(heap) /\ self \in Members /\ fault = FALSE
      /\ self.buff \in Block /\ self.buff # NoBlock /\ heap[self.buff].cap = self.cap
      /\ self.cap \in Nat \ {0} /\ Fits(self, heap)
    BY <1>1, ItemFacts, BlockIsNotNull DEF IInv, BuildInv
<1>3. /\ HeapOK(rest) /\ rest[self.buff] # NoBlock /\ rest[self.buff].cap = self.cap
      /\ Live(rest, self.buff) = {}
      /\ \A q \in Block : q # self.buff => rest[q] = heap[q]
    <2>1. 0 .. self.size - 1 = Occupied(self)
        BY <1>1, CopiesAreAll
    <2> DEFINE P == 0 .. self.size - 1
    <2>2. P = Occupied(self)
        BY <2>1
    <2> HIDE DEF P
    <2>3. LET g == Destroyed(heap, self.buff, P) IN
           /\ HeapOK(g) /\ g[self.buff] # NoBlock /\ g[self.buff].cap = self.cap
           /\ Live(g, self.buff) = Occupied(self) \ P
           /\ \A q \in Block : q # self.buff => g[q] = heap[q]
           /\ ~DestroysRaw(self.buff, P)
        BY <1>2, <2>2, TakenOffFacts
    <2> QED
        BY <2>2, <2>3 DEF P
<1>4. CASE InPlace
    <2>1. heap' = rest /\ obj' = [obj EXCEPT ![call.b].size = 0] /\ fault' = FALSE
        BY <1>1, <1>2, <1>4
    <2>2. call.b \in Alive /\ o \in Members /\ call.b \in Buffer
        <3>1. call \in Calls /\ Legal(call) /\ TypeOK
            BY <1>1 DEF IInv, TypeOK
        <3>2. call.op \in {"assign", "assign_input"}
            BY <1>4 DEF InPlace
        <3>3. call.b \in Alive
            BY <3>1, <3>2, CallVariables DEF Filling
        <3> QED
            BY <3>1, <3>3, AliveIsMembers
    <2>3. obj' = [obj EXCEPT ![call.b] = n]
        BY <2>1, <2>2 DEF IInv, TypeOK
    <2>4. Refilled(o, heap) /\ o.buff = self.buff
        BY <1>1, <1>4, <2>2 DEF IInv, Consistent, Refilling, BuildInv
    <2>5. /\ o.buff \in Block /\ heap[o.buff] # NoBlock /\ heap[o.buff].cap = o.cap
          /\ o.first \in Slots(o.cap) /\ o.last = o.first
        BY <1>2, <2>4, EmptyFits DEF Refilled, InBlock
    <2>6. o.cap \in Nat \ {0} /\ o.cap = self.cap
        BY <1>2, <2>4, <2>5
    <2>7. n = [buff |-> o.buff, cap |-> o.cap, first |-> o.first, last |-> o.last, size |-> 0]
        BY <2>2 DEF Members
    <2>8. n \in Members /\ n.buff = self.buff /\ n.buff = o.buff
        BY <2>2, <2>4, <2>7 DEF Members
    <2>9. Fits(n, heap')
        <3>1. Add(o.first, 0, o.cap) = o.first /\ Window(o.first, 0, o.cap) = {}
            <4> HIDE DEF o
            <4>1. o.first \in Pointers(o.cap) /\ o.cap \in Nat
                BY <2>5, <2>6 DEF Pointers
            <4>2. 0 \in 0 .. o.cap
                BY <2>6
            <4>3. Add(o.first, 0, o.cap) = o.first
                BY <2>5, <2>6, <4>2, AddInRing
            <4>4. Window(o.first, 0, o.cap) = {}
                BY <4>1, <4>2, WindowBounds
            <4> QED
                BY <4>3, <4>4
        <3>2. InBlock(n, heap')
            BY <1>2, <1>3, <2>1, <2>4, <2>5, <2>6, <2>7 DEF InBlock
        <3> QED
            BY <1>3, <2>1, <2>4, <2>5, <2>7, <3>1, <3>2 DEF Fits, Occupied
    <2> HIDE DEF o, n
    <2> QED
        BY <1>1, <1>3, <1>4, <2>1, <2>2, <2>3, <2>8, <2>9, ReshapedIInv DEF o
<1>5. CASE ~InPlace
    <2>1. /\ heap' = Deallocated(rest, self.buff) /\ obj' = obj
          /\ fault' = (fault \/ WrongRelease(rest, self.buff, ReleasedSize))
        BY <1>1, <1>5
    <2>2. ReleasedSize = self.cap
        <3>1. self.cap = Wanted(call)
            BY <1>1 DEF IInv, BuildInv
        <3> QED
            BY <1>1, <3>1 DEF ReleasedSize, Wanted
    <2>3. ~WrongRelease(rest, self.buff, self.cap)
        BY <1>2, <1>3, BlockFacts DEF WrongRelease, Live
    <2>4. fault' = FALSE
        BY <1>2, <2>1, <2>2, <2>3
    <2>5. HeapOK(heap') /\ heap'[self.buff] = NoBlock /\ \A q \in Block \ {self.buff} : heap'[q] = rest[q]
        <3> HIDE DEF rest
        <3> QED
            BY <1>2, <1>3, <2>1, DeallocatedFacts
    <2>6. \A q \in Block : q # self.buff => heap'[q] = heap[q]
        BY <1>3, <2>5
    <2>7. \A b \in Alive : Fits(obj[b], heap) /\ obj[b].buff # self.buff
        BY <1>1, <1>2, <1>5 DEF IInv, Consistent, Refilling, BuildInv
    <2>8. \A b \in Alive : Fits(obj[b], heap')
        BY <2>6, <2>7, FitsFrame
    <2>9. \A q \in Block : heap'[q] # NoBlock => \E b \in Alive : obj[b].buff = q
        BY <2>5, <2>6 DEF IInv, Owned
    <2>10. Alive' = Alive
        BY <2>1 DEF Alive
    <2>11. obj' \in [Buffer -> Members \cup {Dead}]
           /\ \A b, c \in Alive : b # c /\ obj'[b].buff = obj'[c].buff => obj'[b].buff = NoBlock
        BY <2>1 DEF IInv, TypeOK, Owners
    <2> QED
        BY <1>1, <2>1, <2>4, <2>5, <2>8, <2>9, <2>10, <2>11, ReturnIInv
<1> QED
    BY <1>4, <1>5

\* Nothing else happens between the start of a call and its only step.
LEMMA EnterFacts ==
    ASSUME IInv, pc = "enter"
    PROVE  /\ call \in Calls /\ Legal(call) /\ TypeOK /\ HeapOK(heap) /\ fault = FALSE
           /\ obj \in [Buffer -> Members \cup {Dead}] /\ call.b \in Buffer
           /\ \A b \in Alive : b \in Buffer /\ obj[b] \in Members /\ Fits(obj[b], heap)
           /\ \A q \in Block : heap[q] # NoBlock => \E b \in Alive : obj[b].buff = q
<1>1. call \in Calls /\ Legal(call) /\ TypeOK /\ HeapOK(heap) /\ fault = FALSE
    BY DEF IInv, TypeOK
<1>2. call.b \in Buffer
    BY <1>1, CallArguments
<1>3. \A b \in Alive : Fits(obj[b], heap)
    BY DEF IInv, Consistent, Refilling
<1> QED
    BY <1>1, <1>2, <1>3, AliveIsMembers DEF IInv, TypeOK, Owned

\* The new buffer takes the place of the old one, whose block is freed.
LEMMA BuiltIInv == IInv /\ Built => IInv'
<1> SUFFICES ASSUME IInv, Built PROVE IInv'
    OBVIOUS
<1> DEFINE o == obj[call.b]
<1>1. pc = "build" /\ Leave(FALSE) /\ obj' = [obj EXCEPT ![call.b] = self]
    BY DEF Built
<1>2. /\ call \in Calls /\ Legal(call) /\ TypeOK /\ HeapOK(heap) /\ fault = FALSE /\ self \in Members
      /\ Fits(self, heap) /\ obj \in [Buffer -> Members \cup {Dead}]
    BY <1>1 DEF IInv, TypeOK, BuildInv
<1>3. call.b \in Buffer /\ self # Dead
    BY <1>2, CallArguments, MarkerAssumption
<1>4. /\ obj' \in [Buffer -> Members \cup {Dead}] /\ Alive' = Alive \cup {call.b}
      /\ \A b \in Alive' : obj'[b] = IF b = call.b THEN self ELSE obj[b]
    BY <1>1, <1>2, <1>3 DEF Alive
<1>5. CASE InPlace
    <2>1. call.b \in Alive
        <3>1. call.op \in {"assign", "assign_input"}
            BY <1>5 DEF InPlace
        <3> QED
            BY <1>2, <3>1, CallVariables DEF Filling
    <2>2. self.buff = obj[call.b].buff
        BY <1>1, <1>5 DEF IInv, BuildInv
    <2>3. heap' = heap /\ fault' = FALSE
        BY <1>2, <1>5 DEF Built
    <2> QED
        BY <1>1, <1>2, <1>5, <2>1, <2>2, <2>3, ReshapedIInv
<1>6. ASSUME ~InPlace, fault' = FALSE, HeapOK(heap'),
             \A q \in Block : (call.b \in Alive => q # o.buff) => heap'[q] = heap[q],
             call.b \in Alive /\ o.buff \in Block => heap'[o.buff] = NoBlock
      PROVE  IInv'
    <2>1. \A b \in Alive : Fits(obj[b], heap) /\ (obj[b].buff = self.buff => self.buff = NoBlock)
        BY <1>1, <1>6 DEF IInv, BuildInv, Consistent, Refilling
    <2>2. ASSUME NEW b \in Alive' PROVE Fits(obj'[b], heap')
        <3>1. CASE b = call.b
            <4>1. self.buff \in Block => heap'[self.buff] = heap[self.buff]
                BY <1>6, <2>1, BlockIsNotNull
            <4> QED
                BY <1>2, <1>4, <3>1, <4>1, FitsFrame
        <3>2. CASE b # call.b
            <4>1. obj[b].buff \in Block => heap'[obj[b].buff] = heap[obj[b].buff]
                BY <1>4, <1>6, <3>2, BlockIsNotNull DEF IInv, Owners
            <4> QED
                BY <1>4, <2>1, <3>2, <4>1, FitsFrame
        <3> QED
            BY <3>1, <3>2
    <2>3. \A b, c \in Alive' : b # c /\ obj'[b].buff = obj'[c].buff => obj'[b].buff = NoBlock
        BY <1>4, <2>1 DEF IInv, Owners
    <2>4. ASSUME NEW q \in Block, heap'[q] # NoBlock PROVE \E b \in Alive' : obj'[b].buff = q
        <3>1. call.b \in Alive => q # o.buff
            BY <1>6, <2>4
        <3>2. heap[q] # NoBlock
            BY <1>6, <2>4, <3>1
        <3>3. CASE \E b \in Alive : obj[b].buff = q
            BY <1>4, <3>1, <3>3
        <3>4. CASE self.buff = q
            BY <1>4, <3>4
        <3> QED
            BY <3>2, <3>3, <3>4 DEF IInv, Owned
    <2> QED
        BY <1>1, <1>4, <1>6, <2>2, <2>3, <2>4, ReturnIInv
<1>7. CASE ~InPlace /\ o = Dead
    <2>1. call.b \notin Alive /\ heap' = heap /\ fault' = FALSE
        BY <1>2, <1>7 DEF Built, Alive
    <2> QED
        BY <1>2, <1>6, <1>7, <2>1
<1>8. CASE ~InPlace /\ o # Dead
    <2>1. /\ call.b \in Alive /\ o \in Members /\ Fits(o, heap)
        BY <1>1, <1>2, <1>3, <1>8, AliveIsMembers DEF Alive, IInv, Consistent, Refilling
    <2>2. heap' = AfterDestroy(o) /\ fault' = (fault \/ DestroyFaults(o))
        BY <1>8 DEF Built
    <2>3. /\ ~DestroyFaults(o) /\ HeapOK(heap')
          /\ o.buff \in Block => heap'[o.buff] = NoBlock
          /\ \A q \in Block : q # o.buff => heap'[q] = heap[q]
        <3> HIDE DEF o
        <3> QED
            BY <1>2, <2>1, <2>2, ReleaseFacts
    <2>4. fault' = FALSE
        BY <1>2, <2>2, <2>3
    <2> QED
        BY <1>6, <1>8, <2>1, <2>3, <2>4
<1> QED
    BY <1>5, <1>7, <1>8

LEMMA DefaultIInv == IInv /\ Default => IInv'
<1> SUFFICES ASSUME IInv, Default PROVE IInv'
    OBVIOUS
<1>1. /\ pc = "enter" /\ call.op = "default" /\ Leave(FALSE)
      /\ obj' = [obj EXCEPT ![call.b] = Empty] /\ heap' = heap /\ fault' = fault
    BY DEF Default, Enter
<1>2. call.b \notin Alive
    BY <1>1, EnterFacts, CallVariables
<1>3. /\ obj' \in [Buffer -> Members \cup {Dead}] /\ Alive' = Alive \cup {call.b}
      /\ \A b \in Alive' : obj'[b] = IF b = call.b THEN Empty ELSE obj[b]
    BY <1>1, EnterFacts, EmptyFits, MarkerAssumption DEF Alive
<1>4. \A b \in Alive' : Fits(obj'[b], heap')
    BY <1>1, <1>3, EnterFacts, EmptyFits
<1>5. \A b, c \in Alive' : b # c /\ obj'[b].buff = obj'[c].buff => obj'[b].buff = NoBlock
    BY <1>3, EmptyFits DEF IInv, Owners
<1>6. \A q \in Block : heap'[q] # NoBlock => \E b \in Alive' : obj'[b].buff = q
    BY <1>1, <1>2, <1>3, EnterFacts
<1> QED
    BY <1>1, <1>3, <1>4, <1>5, <1>6, EnterFacts, ReturnIInv

LEMMA SwapIInv == IInv /\ Swap => IInv'
<1> SUFFICES ASSUME IInv, Swap PROVE IInv'
    OBVIOUS
<1>1. /\ pc = "enter" /\ call.op = "swap" /\ Leave(FALSE) /\ heap' = heap /\ fault' = fault
      /\ obj' = [obj EXCEPT ![call.b] = obj[call.from], ![call.from] = obj[call.b]]
    BY DEF Swap, Enter
<1>2. call.b \in Alive /\ call.from \in Alive
    BY <1>1, EnterFacts, CallVariables DEF Filling
<1> DEFINE other(b) == IF b = call.b THEN call.from ELSE IF b = call.from THEN call.b ELSE b
<1>3. /\ obj' \in [Buffer -> Members \cup {Dead}]
      /\ \A b \in Buffer : obj'[b] = obj[other(b)]
    BY <1>1, <1>2, EnterFacts
<1>4. /\ Alive' = Alive
      /\ \A b \in Alive : other(b) \in Alive /\ other(other(b)) = b
    BY <1>2, <1>3 DEF Alive
<1>5. \A b \in Alive : obj'[b] = obj[other(b)]
    BY <1>3 DEF Alive
<1> HIDE DEF other
<1>6. \A b \in Alive : Fits(obj'[b], heap')
    BY <1>1, <1>4, <1>5, EnterFacts
<1>7. \A b, c \in Alive : b # c /\ obj'[b].buff = obj'[c].buff => obj'[b].buff = NoBlock
    <2>1. \A b, c \in Alive : b # c => other(b) # other(c)
        BY <1>4
    <2> QED
        BY <1>4, <1>5, <2>1 DEF IInv, Owners
<1>8. ASSUME NEW q \in Block, heap'[q] # NoBlock PROVE \E b \in Alive : obj'[b].buff = q
    <2>1. PICK c \in Alive : obj[c].buff = q
        BY <1>1, <1>8, EnterFacts
    <2>2. other(c) \in Alive /\ obj'[other(c)] = obj[c]
        BY <1>4, <1>5
    <2> QED
        BY <2>1, <2>2
<1> QED
    BY <1>1, <1>3, <1>4, <1>6, <1>7, <1>8, EnterFacts, ReturnIInv

LEMMA MoveIInv == IInv /\ Move => IInv'
<1> SUFFICES ASSUME IInv, Move PROVE IInv'
    OBVIOUS
<1>1. /\ pc = "enter" /\ call.op = "move" /\ Leave(FALSE) /\ heap' = heap /\ fault' = fault
      /\ obj' = [obj EXCEPT ![call.b] = obj[call.from], ![call.from] = Empty]
    BY DEF Move, Enter
<1>2. call.b \notin Alive /\ call.from \in Alive /\ call.b # call.from
    BY <1>1, EnterFacts, CallVariables DEF Filling
<1>3. /\ obj' \in [Buffer -> Members \cup {Dead}]
      /\ \A b \in Buffer : obj'[b] = IF b = call.from THEN Empty
                                     ELSE IF b = call.b THEN obj[call.from] ELSE obj[b]
    BY <1>1, <1>2, EnterFacts, EmptyFits
<1>4. /\ Alive' = Alive \cup {call.b}
      /\ \A b \in Alive' : obj'[b] = IF b = call.from THEN Empty
                                     ELSE IF b = call.b THEN obj[call.from] ELSE obj[b]
    <2>1. Empty # Dead
        BY EmptyFits, MarkerAssumption
    <2>2. call.b \in Buffer /\ call.from \in Buffer /\ obj[call.from] # Dead
        BY <1>1, <1>2, EnterFacts DEF Alive
    <2> QED
        BY <1>2, <1>3, <2>1, <2>2 DEF Alive
<1>5. \A b \in Alive' : Fits(obj'[b], heap')
    BY <1>1, <1>2, <1>4, EnterFacts, EmptyFits
<1>6. \A b, c \in Alive' : b # c /\ obj'[b].buff = obj'[c].buff => obj'[b].buff = NoBlock
    BY <1>2, <1>4, EmptyFits DEF IInv, Owners
<1>7. ASSUME NEW q \in Block, heap'[q] # NoBlock PROVE \E b \in Alive' : obj'[b].buff = q
    <2>1. PICK c \in Alive : obj[c].buff = q
        BY <1>1, <1>7, EnterFacts
    <2> QED
        BY <1>2, <1>4, <2>1
<1> QED
    BY <1>1, <1>3, <1>5, <1>6, <1>7, EnterFacts, ReturnIInv

\* What *this held is destroyed, whether it was moved to or from.
LEMMA MoveAssignIInv == IInv /\ MoveAssign => IInv'
<1> SUFFICES ASSUME IInv, MoveAssign PROVE IInv'
    OBVIOUS
<1> DEFINE o == obj[call.b]
<1>1. /\ pc = "enter" /\ call.op = "move_assign" /\ Leave(FALSE)
      /\ heap' = AfterDestroy(o) /\ fault' = (fault \/ DestroyFaults(o))
      /\ obj' = [b \in Buffer |-> IF b = call.from THEN Empty
                                  ELSE IF b = call.b THEN obj[call.from] ELSE obj[b]]
    BY DEF MoveAssign, Enter
<1>2. call.b \in Alive /\ call.from \in Alive
    BY <1>1, EnterFacts, CallVariables DEF Filling
<1>3. /\ ~DestroyFaults(o) /\ HeapOK(heap')
      /\ o.buff \in Block => heap'[o.buff] = NoBlock
      /\ \A q \in Block : q # o.buff => heap'[q] = heap[q]
    <2>1. HeapOK(heap) /\ o \in Members /\ Fits(o, heap) /\ heap' = AfterDestroy(o)
        BY <1>1, <1>2, EnterFacts
    <2> HIDE DEF o
    <2> QED
        BY <2>1, ReleaseFacts
<1>4. fault' = FALSE
    BY <1>1, <1>3, EnterFacts
<1>5. /\ obj' \in [Buffer -> Members \cup {Dead}] /\ Alive' = Alive
      /\ \A b \in Alive : obj'[b] = IF b = call.from THEN Empty
                                    ELSE IF b = call.b THEN obj[call.from] ELSE obj[b]
    <2>1. Empty # Dead /\ Empty \in Members
        BY EmptyFits, MarkerAssumption
    <2> QED
        BY <1>1, <1>2, <2>1, EnterFacts DEF Alive
<1>6. ASSUME NEW b \in Alive PROVE Fits(obj'[b], heap')
    <2>1. CASE b = call.from
        BY <1>5, <2>1, EmptyFits
    <2>2. CASE b # call.from
        <3>1. PICK c \in Alive : c # call.b /\ obj'[b] = obj[c]
            BY <1>2, <1>5, <2>2
        <3>2. obj[c].buff \in Block => heap'[obj[c].buff] = heap[obj[c].buff]
            BY <1>2, <1>3, <3>1, BlockIsNotNull DEF IInv, Owners
        <3>3. Fits(obj[c], heap)
            BY <1>1, EnterFacts
        <3> QED
            BY <3>1, <3>2, <3>3, FitsFrame
    <2> QED
        BY <2>1, <2>2
<1>7. \A b, c \in Alive : b # c /\ obj'[b].buff = obj'[c].buff => obj'[b].buff = NoBlock
    BY <1>2, <1>5, EmptyFits DEF IInv, Owners
<1>8. ASSUME NEW q \in Block, heap'[q] # NoBlock PROVE \E b \in Alive : obj'[b].buff = q
    <2>1. q # o.buff /\ heap[q] # NoBlock
        BY <1>3, <1>8
    <2>2. PICK c \in Alive : obj[c].buff = q
        BY <1>1, <2>1, EnterFacts
    <2>3. c # call.b
        BY <2>1, <2>2
    <2> QED
        BY <1>2, <1>5, <2>2, <2>3
<1> QED
    BY <1>1, <1>3, <1>4, <1>5, <1>6, <1>7, <1>8, EnterFacts, ReturnIInv

LEMMA DestructorIInv == IInv /\ Destructor => IInv'
<1> SUFFICES ASSUME IInv, Destructor PROVE IInv'
    OBVIOUS
<1> DEFINE o == obj[call.b]
<1>1. /\ pc = "enter" /\ call.op = "destroy" /\ Leave(FALSE)
      /\ heap' = AfterDestroy(o) /\ fault' = (fault \/ DestroyFaults(o))
      /\ obj' = [obj EXCEPT ![call.b] = Dead]
    BY DEF Destructor, Enter
<1>2. call.b \in Alive
    BY <1>1, EnterFacts, CallVariables DEF Filling
<1>3. /\ ~DestroyFaults(o) /\ HeapOK(heap')
      /\ o.buff \in Block => heap'[o.buff] = NoBlock
      /\ \A q \in Block : q # o.buff => heap'[q] = heap[q]
    <2>1. HeapOK(heap) /\ o \in Members /\ Fits(o, heap) /\ heap' = AfterDestroy(o)
        BY <1>1, <1>2, EnterFacts
    <2> HIDE DEF o
    <2> QED
        BY <2>1, ReleaseFacts
<1>4. fault' = FALSE
    BY <1>1, <1>3, EnterFacts
<1>5. /\ obj' \in [Buffer -> Members \cup {Dead}] /\ Alive' = Alive \ {call.b}
      /\ \A b \in Alive' : obj'[b] = obj[b]
    BY <1>1, <1>2, EnterFacts DEF Alive
<1>6. ASSUME NEW b \in Alive' PROVE Fits(obj'[b], heap')
    <2>1. obj[b].buff \in Block => heap'[obj[b].buff] = heap[obj[b].buff]
        BY <1>2, <1>3, <1>5, BlockIsNotNull DEF IInv, Owners
    <2>2. Fits(obj[b], heap)
        BY <1>1, <1>5, EnterFacts
    <2> QED
        BY <1>5, <2>1, <2>2, FitsFrame
<1>7. \A b, c \in Alive' : b # c /\ obj'[b].buff = obj'[c].buff => obj'[b].buff = NoBlock
    BY <1>5 DEF IInv, Owners
<1>8. \A q \in Block : heap'[q] # NoBlock => \E b \in Alive' : obj'[b].buff = q
    BY <1>1, <1>3, <1>5, EnterFacts
<1> QED
    BY <1>1, <1>3, <1>4, <1>5, <1>6, <1>7, <1>8, EnterFacts, ReturnIInv

\* A call that empties the slots of P and leaves the members n.
LEMMA EmptiedIInv ==
    ASSUME IInv, pc = "enter", call.b \in Alive, NEW P, NEW n \in Members, Emptied(P, n),
           n.buff = obj[call.b].buff, n.cap = obj[call.b].cap,
           obj[call.b] = Empty => n = Empty,
           obj[call.b] # Empty =>
               /\ P \subseteq Occupied(obj[call.b])
               /\ n.first \in Slots(n.cap) /\ n.last \in Slots(n.cap) /\ n.size \in 0 .. n.cap
               /\ n.last = Add(n.first, n.size, n.cap)
               /\ Occupied(n) = Occupied(obj[call.b]) \ P
    PROVE  IInv'
<1> DEFINE o == obj[call.b]
<1>1. /\ Leave(FALSE) /\ obj' = [obj EXCEPT ![call.b] = n]
      /\ heap' = Destroyed(heap, n.buff, P)
      /\ fault' = (fault \/ DestroysRaw(n.buff, P))
    BY DEF Emptied
<1>2. o \in Members /\ Fits(o, heap) /\ HeapOK(heap) /\ fault = FALSE
    BY EnterFacts
<1>3. CASE o = Empty
    <2>1. n.buff = NoBlock /\ Fits(n, heap)
        BY <1>3, EmptyFits
    <2>2. heap' = heap /\ fault' = FALSE
        BY <1>1, <1>2, <2>1 DEF Destroyed, DestroysRaw
    <2> QED
        BY <1>1, <1>2, <2>1, <2>2, ReshapedIInv
<1>4. CASE o # Empty
    <2>1. o.buff \in Block /\ o.buff # NoBlock
        BY <1>2, <1>4, FitsFacts, BlockIsNotNull
    <2>2. /\ HeapOK(heap') /\ heap'[o.buff] # NoBlock /\ heap'[o.buff].cap = o.cap
          /\ Live(heap', o.buff) = Occupied(o) \ P
          /\ \A q \in Block : q # o.buff => heap'[q] = heap[q]
          /\ ~DestroysRaw(o.buff, P)
        <3>1. P \subseteq Occupied(o) /\ heap' = Destroyed(heap, o.buff, P)
            BY <1>1, <1>4
        <3> HIDE DEF o
        <3> QED
            BY <1>2, <2>1, <3>1, TakenOffFacts
    <2>3. fault' = FALSE
        BY <1>1, <1>2, <2>2
    <2>4. Fits(n, heap')
        BY <1>4, <2>1, <2>2 DEF Fits, InBlock
    <2> QED
        BY <1>1, <2>2, <2>3, <2>4, ReshapedIInv
<1> QED
    BY <1>3, <1>4

\* The members of a buffer, written out.
LEMMA MembersAre ==
    ASSUME NEW o \in Members
    PROVE  /\ o = [buff |-> o.buff, cap |-> o.cap, first |-> o.first, last |-> o.last, size |-> o.size]
           /\ o.first \in Nat /\ o.last \in Nat /\ o.size \in Nat
           /\ o.cap \in 0 .. MaxCapacity /\ o.buff \in Block \cup {NoBlock}
BY DEF Members

\* Setting m_first or m_last together with m_size.
WithFirst(o, p, z) == [o EXCEPT !.first = p, !.size = z]
WithLast(o, p, z)  == [o EXCEPT !.last = p, !.size = z]

LEMMA MembersUpdates ==
    ASSUME NEW o \in Members, NEW p, NEW z
    PROVE  /\ WithFirst(o, p, z)
                  = [buff |-> o.buff, cap |-> o.cap, first |-> p, last |-> o.last, size |-> z]
           /\ WithLast(o, p, z)
                  = [buff |-> o.buff, cap |-> o.cap, first |-> o.first, last |-> p, size |-> z]
<1> DEFINE f == [o EXCEPT !.first = p]
           l == [o EXCEPT !.last = p]
<1>1. /\ f = [buff |-> o.buff, cap |-> o.cap, first |-> p, last |-> o.last, size |-> o.size]
      /\ l = [buff |-> o.buff, cap |-> o.cap, first |-> o.first, last |-> p, size |-> o.size]
    BY MembersAre
<1> HIDE DEF f, l
<1>2. /\ [f EXCEPT !.size = z] = [buff |-> o.buff, cap |-> o.cap, first |-> p, last |-> o.last, size |-> z]
      /\ [l EXCEPT !.size = z] = [buff |-> o.buff, cap |-> o.cap, first |-> o.first, last |-> p, size |-> z]
    BY <1>1
<1>3. /\ WithFirst(o, p, z) = [f EXCEPT !.size = z]
      /\ WithLast(o, p, z) = [l EXCEPT !.size = z]
    BY DEF f, l, WithFirst, WithLast
<1> QED
    BY <1>2, <1>3

\* Members after an erasure at either end.
LEMMA ShrunkMembers ==
    ASSUME NEW o \in Members, NEW f, NEW l, NEW z, NEW n,
           n = [buff |-> o.buff, cap |-> o.cap, first |-> f, last |-> l, size |-> z]
    PROVE  /\ n.buff = o.buff /\ n.cap = o.cap /\ n.first = f /\ n.last = l /\ n.size = z
           /\ f \in Nat /\ l \in Nat /\ z \in Nat => n \in Members
           /\ o = Empty /\ f = 0 /\ l = 0 /\ z = 0 => n = Empty
BY EmptyFits DEF Members, Empty

\* The first m elements of a buffer are taken off.
LEMMA FrontTakenOff ==
    ASSUME IInv, pc = "enter", call.b \in Alive, NEW m \in 0 .. obj[call.b].size,
           NEW P, P = Window(obj[call.b].first, m, obj[call.b].cap),
           NEW n \in Members, n.buff = obj[call.b].buff, n.cap = obj[call.b].cap,
           n.last = obj[call.b].last, n.size = obj[call.b].size - m,
           obj[call.b] # Empty => n.first = Add(obj[call.b].first, m, obj[call.b].cap),
           obj[call.b] = Empty => n = Empty,
           Emptied(P, n)
    PROVE  IInv'
<1> DEFINE o == obj[call.b]
<1>1. o \in Members /\ Fits(o, heap) /\ HeapOK(heap)
    BY EnterFacts
<1>2. o.size - m \in Nat /\ m \in Nat
    BY <1>1, MembersAre
<1>3. CASE o = Empty
    BY <1>3, EmptiedIInv
<1>4. CASE o # Empty
    <2>1. /\ o.buff \in Block /\ o.cap \in Nat \ {0} /\ o.cap \in 1 .. MaxCapacity
          /\ o.first \in Slots(o.cap) /\ o.last \in Slots(o.cap) /\ o.size \in 0 .. o.cap
          /\ o.last = Add(o.first, o.size, o.cap)
        BY <1>1, <1>4, FitsFacts
    <2>2. m \in 0 .. o.cap
        BY <1>2, <2>1
    <2>3. /\ Add(o.first, m, o.cap) \in Slots(o.cap)
          /\ Window(o.first, m, o.cap) \subseteq Window(o.first, o.size, o.cap)
          /\ Window(Add(o.first, m, o.cap), o.size - m, o.cap) = Window(o.first, o.size, o.cap) \ P
          /\ Add(Add(o.first, m, o.cap), o.size - m, o.cap) = o.last
        <3> HIDE DEF o
        <3> QED
            BY <2>1, <2>2, AddInRing, WindowSplits DEF o
    <2>4. /\ P \subseteq Occupied(o)
          /\ n.first \in Slots(n.cap) /\ n.last \in Slots(n.cap) /\ n.size \in 0 .. n.cap
          /\ n.last = Add(n.first, n.size, n.cap)
          /\ Occupied(n) = Occupied(o) \ P
        BY <1>2, <1>4, <2>1, <2>3 DEF Occupied
    <2> QED
        BY <1>4, <2>4, EmptiedIInv
<1> QED
    BY <1>3, <1>4

\* The members that clear and erase_begin leave.
LEMMA FrontMembers ==
    ASSUME HeapOK(heap), NEW o \in Members, Fits(o, heap), NEW m \in 0 .. o.size,
           NEW n, n = [buff |-> o.buff, cap |-> o.cap, first |-> Advanced(o, m), last |-> o.last, size |-> o.size - m]
    PROVE  /\ n \in Members /\ n.buff = o.buff /\ n.cap = o.cap
           /\ n.last = o.last /\ n.size = o.size - m
           /\ o # Empty => n.first = Add(o.first, m, o.cap)
           /\ o = Empty => n = Empty
<1>1. n.buff = o.buff /\ n.cap = o.cap /\ n.first = Advanced(o, m) /\ n.last = o.last /\ n.size = o.size - m
    BY ShrunkMembers
<1>2. o.last \in Nat /\ o.size - m \in Nat
    BY MembersAre
<1>3. CASE o = Empty
    <2>1. m = 0 /\ o.size - m = 0
        BY <1>3, EmptyFits
    <2>2. Advanced(o, m) = 0
        BY <1>3, <2>1, AdvancedOfEmpty
    <2>3. o.last = 0
        BY <1>3 DEF Empty
    <2>4. n = Empty
        BY <1>3, <2>1, <2>2, <2>3, ShrunkMembers
    <2> QED
        BY <1>1, <1>3, <2>4, EmptyFits
<1>4. CASE o # Empty
    <2>1. o.cap \in Nat \ {0} /\ o.first \in Slots(o.cap) /\ o.size \in 0 .. o.cap
        BY <1>4, FitsFacts
    <2>2. m \in 0 .. o.cap
        BY <2>1
    <2>3. Advanced(o, m) = Add(o.first, m, o.cap) /\ Advanced(o, m) \in Slots(o.cap)
        BY <2>1, <2>2, AdvancedIsAdd, AddInRing
    <2>4. Advanced(o, m) \in Nat
        BY <2>1, <2>3 DEF Slots
    <2>5. n \in Members
        BY <1>2, <2>4, ShrunkMembers
    <2> QED
        BY <1>1, <1>4, <2>3, <2>5
<1> QED
    BY <1>3, <1>4

LEMMA ClearIInv == IInv /\ Clear => IInv'
<1> SUFFICES ASSUME IInv, Clear PROVE IInv'
    OBVIOUS
<1> DEFINE o == obj[call.b]
           P == Window(o.first, o.size, o.cap)
           n == [o EXCEPT !.first = Advanced(o, o.size), !.size = 0]
<1>1. /\ pc = "enter" /\ call.op = "clear" /\ Emptied(P, n)
    BY DEF Clear, Enter, Occupied
<1>2. call.b \in Alive
    BY <1>1, EnterFacts, CallVariables DEF Filling
<1>3. HeapOK(heap) /\ o \in Members /\ Fits(o, heap)
    BY <1>1, <1>2, EnterFacts
<1>4. o.size \in 0 .. o.size /\ o.size - o.size = 0
    BY <1>3, MembersAre
<1>5. n = [buff |-> o.buff, cap |-> o.cap, first |-> Advanced(o, o.size), last |-> o.last, size |-> o.size - o.size]
    <2>1. n = WithFirst(o, Advanced(o, o.size), 0)
        BY DEF WithFirst
    <2> HIDE DEF o, n
    <2> QED
        BY <1>3, <1>4, <2>1, MembersUpdates
<1>6. /\ n \in Members /\ n.buff = o.buff /\ n.cap = o.cap
      /\ n.last = o.last /\ n.size = o.size - o.size
      /\ o # Empty => n.first = Add(o.first, o.size, o.cap)
      /\ o = Empty => n = Empty
    <2> HIDE DEF o, n
    <2> QED
        BY <1>3, <1>4, <1>5, FrontMembers
<1>7. P = Window(o.first, o.size, o.cap)
    OBVIOUS
<1> HIDE DEF P, n
<1> QED
    BY <1>1, <1>2, <1>4, <1>6, <1>7, FrontTakenOff

\* What erase_begin empties, and the members it leaves.
FrontErased(P, n) ==
    /\ P = Window(obj[call.b].first, call.m, obj[call.b].cap)
    /\ n \in Members /\ n.buff = obj[call.b].buff /\ n.cap = obj[call.b].cap
    /\ n.last = obj[call.b].last /\ n.size = obj[call.b].size - call.m
    /\ obj[call.b] # Empty => n.first = Add(obj[call.b].first, call.m, obj[call.b].cap)
    /\ obj[call.b] = Empty => n = Empty

LEMMA EraseBeginFacts ==
    ASSUME IInv, EraseBegin
    PROVE  /\ pc = "enter" /\ call.op = "erase_begin" /\ call.b \in Alive
           /\ call.m \in 0 .. obj[call.b].size
           /\ \E P, n : Emptied(P, n) /\ FrontErased(P, n)
<1> DEFINE o == obj[call.b]
           m == call.m
           P == Window(o.first, m, o.cap)
           n == [o EXCEPT !.first = Advanced(o, m), !.size = o.size - m]
<1>1. /\ pc = "enter" /\ call.op = "erase_begin" /\ Emptied(P, n)
    BY DEF EraseBegin, Enter
<1>2. call.b \in Alive
    BY <1>1, EnterFacts, CallVariables DEF Filling
<1>3. HeapOK(heap) /\ o \in Members /\ Fits(o, heap)
    BY <1>1, <1>2, EnterFacts
<1>4. m \in 0 .. o.size
    <2>1. m \in 0 .. MaxItems /\ m <= o.size
        BY <1>1, EnterFacts, CallArguments DEF Legal
    <2>2. o.size \in Nat
        BY <1>3, MembersAre
    <2> QED
        BY <2>1, <2>2, BoundsAssumption
<1>5. n = [buff |-> o.buff, cap |-> o.cap, first |-> Advanced(o, m), last |-> o.last, size |-> o.size - m]
    <2>1. n = WithFirst(o, Advanced(o, m), o.size - m)
        BY DEF WithFirst
    <2> HIDE DEF o, m, n
    <2> QED
        BY <1>3, <2>1, MembersUpdates
<1>6. /\ n \in Members /\ n.buff = o.buff /\ n.cap = o.cap
      /\ n.last = o.last /\ n.size = o.size - m
      /\ o # Empty => n.first = Add(o.first, m, o.cap)
      /\ o = Empty => n = Empty
    <2> HIDE DEF o, m, n
    <2> QED
        BY <1>3, <1>4, <1>5, FrontMembers
<1>7. P = Window(o.first, m, o.cap)
    OBVIOUS
<1> HIDE DEF P, n
<1>8. FrontErased(P, n)
    BY <1>6, <1>7 DEF FrontErased
<1> QED
    BY <1>1, <1>2, <1>4, <1>8

LEMMA EraseBeginIInv == IInv /\ EraseBegin => IInv'
<1> SUFFICES ASSUME IInv, EraseBegin PROVE IInv'
    OBVIOUS
<1>1. pc = "enter" /\ call.b \in Alive /\ call.m \in 0 .. obj[call.b].size
    BY EraseBeginFacts
<1>2. PICK P, n : Emptied(P, n) /\ FrontErased(P, n)
    BY EraseBeginFacts
<1> QED
    BY <1>1, <1>2, FrontTakenOff DEF FrontErased

\* What erase_end empties, and the members it leaves.
BackErased(P, n) ==
    /\ n \in Members /\ n.buff = obj[call.b].buff /\ n.cap = obj[call.b].cap
    /\ n.first = obj[call.b].first /\ n.size = obj[call.b].size - call.m
    /\ obj[call.b] = Empty => n = Empty
    /\ obj[call.b] # Empty =>
          /\ P \subseteq Occupied(obj[call.b])
          /\ n.first \in Slots(n.cap) /\ n.last \in Slots(n.cap) /\ n.size \in 0 .. n.cap
          /\ n.last = Add(n.first, n.size, n.cap)
          /\ Occupied(n) = Occupied(obj[call.b]) \ P

LEMMA EraseEndFacts ==
    ASSUME IInv, EraseEnd
    PROVE  /\ pc = "enter" /\ call.op = "erase_end" /\ call.b \in Alive
           /\ call.m \in 0 .. obj[call.b].size
           /\ \E P, n : Emptied(P, n) /\ BackErased(P, n)

<1> DEFINE o == obj[call.b]
           m == call.m
           back == Sub(o.last, m, o.cap)
           P == IF m = 0 THEN {} ELSE Window(back, m, o.cap)
           n == [o EXCEPT !.last = back, !.size = o.size - m]
<1>1. pc = "enter" /\ call.op = "erase_end" /\ Emptied(P, n)
    BY DEF EraseEnd, Enter
<1>2. call.b \in Alive
    BY <1>1, EnterFacts, CallVariables DEF Filling
<1>3. o \in Members /\ Fits(o, heap) /\ HeapOK(heap)
    BY <1>1, <1>2, EnterFacts
<1>4. m \in 0 .. o.size /\ m \in Nat /\ o.size \in Nat /\ o.size - m \in Nat
    <2>1. m \in 0 .. MaxItems /\ m <= o.size
        BY <1>1, EnterFacts, CallArguments DEF Legal
    <2>2. o.size \in Nat
        BY <1>3, MembersAre
    <2> QED
        BY <2>1, <2>2, BoundsAssumption
<1>5. n = [buff |-> o.buff, cap |-> o.cap, first |-> o.first, last |-> back, size |-> o.size - m]
    <2>1. n = WithLast(o, back, o.size - m)
        BY DEF WithLast
    <2> HIDE DEF o, m, back, n
    <2> QED
        BY <1>3, <2>1, MembersUpdates
<1>6. CASE o = Empty
    <2>1. m = 0
        BY <1>4, <1>6, EmptyFits
    <2>2. n = Empty
        <3>1. o.last = 0 /\ o.first = 0 /\ o.size - m = 0 /\ back = 0
            BY <1>6, <2>1 DEF Empty, Sub
        <3> HIDE DEF o, n, m, back
        <3> QED
            BY <1>3, <1>5, <1>6, <3>1, ShrunkMembers
    <2>3. n \in Members /\ n.buff = o.buff /\ n.cap = o.cap
        BY <1>6, <2>2, EmptyFits
    <2>4. n.first = o.first /\ n.size = o.size - m
        BY <1>4, <1>6, <2>1, <2>2, EmptyFits
    <2> HIDE DEF n, P
    <2> QED
        BY <1>1, <1>2, <1>4, <1>6, <2>2, <2>3, <2>4 DEF BackErased
<1>7. CASE o # Empty
    <2>1. /\ o.buff \in Block /\ o.cap \in Nat \ {0} /\ o.cap \in 1 .. MaxCapacity
          /\ o.first \in Slots(o.cap) /\ o.last \in Slots(o.cap) /\ o.size \in 0 .. o.cap
          /\ o.last = Add(o.first, o.size, o.cap)
        BY <1>3, <1>7, FitsFacts
    <2>2. o.size - m \in 0 .. o.size /\ o.size - m \in 0 .. o.cap /\ o.size - (o.size - m) = m
        BY <1>4, <2>1
    <2>3. back = Add(o.first, o.size - m, o.cap) /\ back \in Slots(o.cap)
        <3>1. CASE m = 0
            BY <2>1, <3>1 DEF Sub, Slots
        <3>2. CASE m # 0
            <4>1. m \in 1 .. o.size
                BY <1>4, <3>2
            <4> HIDE DEF o, m
            <4> QED
                BY <2>1, <2>2, <4>1, SubIsAdd, AddInRing
        <3> QED
            BY <3>1, <3>2
    <2>4. /\ P \subseteq Window(o.first, o.size, o.cap)
          /\ Window(o.first, o.size - m, o.cap) = Window(o.first, o.size, o.cap) \ P
        <3>1. CASE m = 0
            BY <1>4, <3>1
        <3>2. CASE m # 0
            <4>1. P = Window(Add(o.first, o.size - m, o.cap), o.size - (o.size - m), o.cap)
                BY <2>2, <2>3, <3>2
            <4>2. /\ Window(o.first, o.size - m, o.cap) \subseteq Window(o.first, o.size, o.cap)
                  /\ P = Window(o.first, o.size, o.cap) \ Window(o.first, o.size - m, o.cap)
                <5> HIDE DEF o, m, P
                <5> QED
                    BY <2>1, <2>2, <4>1, WindowSplits
            <4> QED
                BY <4>2
        <3> QED
            BY <3>1, <3>2
    <2>5. n \in Members /\ n.buff = o.buff /\ n.cap = o.cap
        <3>1. o.first \in Nat /\ back \in Nat /\ o.size - m \in Nat
            BY <1>4, <2>1, <2>3 DEF Slots
        <3> HIDE DEF o, n, m, back
        <3> QED
            BY <1>3, <1>5, <3>1, ShrunkMembers
    <2>6. /\ P \subseteq Occupied(o)
          /\ n.first \in Slots(n.cap) /\ n.last \in Slots(n.cap) /\ n.size \in 0 .. n.cap
          /\ n.last = Add(n.first, n.size, n.cap)
          /\ Occupied(n) = Occupied(o) \ P
        BY <1>5, <2>1, <2>2, <2>3, <2>4 DEF Occupied
    <2>7. n.first = o.first /\ n.size = o.size - m
        BY <1>5
    <2> HIDE DEF n, P
    <2> QED
        BY <1>1, <1>2, <1>4, <1>7, <2>5, <2>6, <2>7 DEF BackErased
<1> QED
    BY <1>6, <1>7

LEMMA EraseEndIInv == IInv /\ EraseEnd => IInv'
<1> SUFFICES ASSUME IInv, EraseEnd PROVE IInv'
    OBVIOUS
<1>1. pc = "enter" /\ call.b \in Alive
    BY EraseEndFacts
<1>2. PICK P, n : Emptied(P, n) /\ BackErased(P, n)
    BY EraseEndFacts
<1> QED
    BY <1>1, <1>2, EmptiedIInv DEF BackErased

LEMMA NextIInv == NoDefects /\ IInv /\ [Next]_vars => IInv'
<1> SUFFICES ASSUME NoDefects, IInv, [Next]_vars PROVE IInv'
    OBVIOUS
<1>1. CASE Invoke \/ ReadThrows \/ Allocate \/ AssignInPlace \/ BuildItem \/ ReplaceItem
    BY <1>1, InvokeIInv, ReadThrowsIInv, AllocateIInv, AssignInPlaceIInv, BuildItemIInv, ReplaceItemIInv
<1>2. CASE CopyThrows \/ Built \/ Default \/ AssignSelf \/ Swap \/ Move \/ MoveAssign
    BY <1>2, CopyThrowsIInv, BuiltIInv, DefaultIInv, AssignSelfIInv, SwapIInv, MoveIInv, MoveAssignIInv
<1>3. CASE Destructor \/ Clear \/ EraseBegin \/ EraseEnd
    BY <1>3, DestructorIInv, ClearIInv, EraseBeginIInv, EraseEndIInv
<1>4. CASE UNCHANGED vars
    BY <1>4 DEF vars, IInv, TypeOK, HeapOK, Owners, Owned, Consistent, BuildInv, Fits, Refilled, InBlock,
                Live, Refilling, InPlace, SelfAssignment, Wanted, Legal, Alive
<1> QED
    BY <1>1, <1>2, <1>3, <1>4 DEF Next

---------------------------------------------------------------------------
(* What follows from it.                                                   *)

\* Members and blocks agree at every step of every call: the invariant the
\* three theorems below are read off.
THEOREM Invariance == NoDefects /\ Spec => []IInv
<1>1. Init => IInv
    BY InitIInv
<1>2. NoDefects /\ IInv /\ [Next]_vars => IInv'
    BY NextIInv
<1>3. NoDefects => NoDefects'
    BY DEF NoDefects
<1> QED
    BY <1>1, <1>2, <1>3, PTL DEF Spec

\* Every allocated block belongs to exactly one buffer between calls: nothing
\* leaks and nothing is freed twice, whichever copy or allocation has thrown.
THEOREM BlocksHaveOneOwner == NoDefects /\ Spec => []OneOwner
<1>1. IInv => OneOwner
    <2> SUFFICES ASSUME IInv, pc = "idle", NEW q \in Block
                 PROVE  heap[q] # NoBlock <=> Cardinality({b \in Alive : obj[b].buff = q}) = 1
        BY DEF OneOwner
    <2> DEFINE S == {b \in Alive : obj[b].buff = q}
    <2>1. q # NoBlock /\ HeapOK(heap) /\ \A b \in Alive : obj[b] \in Members /\ Fits(obj[b], heap)
        BY BlockIsNotNull, AliveIsMembers DEF IInv, TypeOK, Consistent, Refilling
    <2>2. ASSUME heap[q] # NoBlock PROVE Cardinality(S) = 1
        <3>1. PICK b \in Alive : obj[b].buff = q
            BY <2>2 DEF IInv, Owned
        <3>2. S = {b}
            BY <2>1, <3>1 DEF IInv, Owners
        <3> QED
            BY <3>2, FS_Singleton
    <2>3. ASSUME Cardinality(S) = 1 PROVE heap[q] # NoBlock
        <3>1. IsFiniteSet(S)
            <4>1. S \subseteq Buffer
                BY DEF Alive
            <4> QED
                BY <4>1, BufferAssumption, FS_Subset
        <3>2. PICK b : S = {b}
            BY <2>3, <3>1, FS_Singleton
        <3>3. b \in Alive /\ obj[b].buff = q
            BY <3>2
        <3> QED
            BY <2>1, <3>3, FitsFacts
    <2> QED
        BY <2>2, <2>3
<1> QED
    BY <1>1, Invariance, PTL

\* Between calls the elements of a block are in the window of its owner and
\* nowhere else, whatever the owner went through.
THEOREM ElementsAreInTheWindow == NoDefects /\ Spec => []LiveIsWindow
<1>1. IInv => LiveIsWindow
    <2> SUFFICES ASSUME IInv, pc = "idle", NEW b \in Alive, obj[b].buff # NoBlock
                 PROVE  /\ {p \in Slots(obj[b].cap) : heap[obj[b].buff].mem[p] # Raw} = Occupied(obj[b])
                        /\ obj[b].last = Add(obj[b].first, obj[b].size, obj[b].cap)
        BY DEF LiveIsWindow
    <2>1. HeapOK(heap) /\ obj[b] \in Members /\ Fits(obj[b], heap)
        BY AliveIsMembers DEF IInv, TypeOK, Consistent, Refilling
    <2> QED
        BY <2>1, FitsFacts DEF Live
<1> QED
    BY <1>1, Invariance, PTL

\* No slot is constructed twice or destroyed when raw, and every block goes
\* back empty and with the size it was allocated with.
THEOREM MemoryIsUsedRight == NoDefects /\ Spec => []NoMemoryFault
<1>1. IInv => NoMemoryFault
    BY DEF IInv, NoMemoryFault
<1> QED
    BY <1>1, Invariance, PTL

---------------------------------------------------------------------------
(* What the calls do to the elements of the buffers: the action properties *)
(* of Construction.                                                        *)

(* Facts about contents.                                                   *)

\* Elements depend on one block only, and on none when there are none.
LEMMA ElementsFrame ==
    ASSUME NEW o, NEW h, NEW g, NEW n \in Nat, o.size = n, n # 0 => g[o.buff] = h[o.buff]
    PROVE  Elements(o, g) = Elements(o, h)
<1>1. ASSUME NEW i \in 1 .. o.size
      PROVE  g[o.buff].mem[Add(o.first, i - 1, o.cap)] = h[o.buff].mem[Add(o.first, i - 1, o.cap)]
    BY <1>1
<1> QED
    BY <1>1 DEF Elements

\* A buffer whose members and block stay as they are keeps its elements.
LEMMA ContentsFrame ==
    ASSUME HeapOK(heap), NEW o \in Members, Fits(o, heap), NEW g,
           o.buff \in Block => g[o.buff] = heap[o.buff]
    PROVE  Elements(o, g) = Elements(o, heap)
<1>1. o.size \in Nat /\ (o.size # 0 => o.buff \in Block)
    BY FitsFacts, EmptyFits, MembersAre
<1> QED
    BY <1>1, ElementsFrame

LEMMA EmptyHoldsNothing == ASSUME NEW h PROVE Elements(Empty, h) = <<>>
BY EmptyFits DEF Elements

\* Buffers no step of the call touches.
LEMMA Untouched ==
    ASSUME IInv, NEW b \in Buffer, obj[b] # Dead => Fits(obj[b], heap), obj'[b] = obj[b],
           obj[b] # Dead => (obj[b].buff \in Block => heap'[obj[b].buff] = heap[obj[b].buff])
    PROVE  ContentsAfter(b) = Contents(b)
<1>1. CASE obj[b] = Dead
    BY <1>1 DEF ContentsAfter, Contents
<1>2. CASE obj[b] # Dead
    <2>1. obj[b] \in Members /\ HeapOK(heap)
        BY <1>2, AliveIsMembers DEF Alive, IInv, TypeOK
    <2>2. Elements(obj[b], heap') = Elements(obj[b], heap)
        BY <1>2, <2>1, ContentsFrame
    <2> QED
        BY <1>2, <2>2 DEF ContentsAfter, Contents
<1> QED
    BY <1>1, <1>2

\* Which step ended a call.
LEMMA CompletingSteps ==
    ASSUME IInv, [Next]_vars, Completes
    PROVE  \/ ReadThrows \/ Allocate \/ CopyThrows \/ Built
           \/ Default \/ AssignSelf \/ Swap \/ Move \/ MoveAssign \/ Destructor
           \/ Clear \/ EraseBegin \/ EraseEnd
BY DEF Completes, Next, vars, Invoke, AssignInPlace, BuildItem, ReplaceItem

---------------------------------------------------------------------------
(* swap and the moves.                                                     *)

LEMMA HandsOverStep ==
    ASSUME IInv, [Next]_vars, Completes, call.op \in {"swap", "move", "move_assign"}
    PROVE  /\ call.op # "swap" => obj'[call.from] = Empty
           /\ call.op = "swap" => ContentsAfter(call.from) = Contents(call.b)
           /\ call.b # call.from =>
                 /\ ContentsAfter(call.b) = Contents(call.from)
                 /\ obj'[call.b].cap = obj[call.from].cap
<1>1. Swap \/ Move \/ MoveAssign
    BY CompletingSteps DEF ReadThrows, Allocate, CopyThrows, Built, Default, AssignSelf, Destructor,
       Clear, EraseBegin, EraseEnd, Enter, SelfAssignment, IInv, BuildInv, Building, Filling
<1>2. pc = "enter"
    BY <1>1 DEF Swap, Move, MoveAssign, Enter
<1>3. /\ call.from \in Alive /\ call.b \in Buffer /\ call.from \in Buffer
      /\ obj \in [Buffer -> Members \cup {Dead}]
      /\ call.op # "move" => call.b \in Alive
      /\ call.op = "move" => call.b \notin Alive
    BY <1>2, EnterFacts, CallVariables DEF Filling
<1>4. CASE Swap
    <2>1. /\ obj' = [obj EXCEPT ![call.b] = obj[call.from], ![call.from] = obj[call.b]]
          /\ heap' = heap /\ call.op = "swap"
        BY <1>4 DEF Swap, Enter
    <2>2. obj'[call.from] = obj[call.b] /\ (call.b # call.from => obj'[call.b] = obj[call.from])
        BY <1>3, <2>1
    <2> QED
        BY <2>1, <2>2 DEF ContentsAfter, Contents
<1>5. CASE Move
    <2>1. /\ obj' = [obj EXCEPT ![call.b] = obj[call.from], ![call.from] = Empty]
          /\ heap' = heap /\ call.op = "move"
        BY <1>5 DEF Move, Enter
    <2>2. obj'[call.from] = Empty /\ (call.b # call.from => obj'[call.b] = obj[call.from])
        BY <1>3, <2>1
    <2> QED
        BY <2>1, <2>2 DEF ContentsAfter, Contents
<1>6. CASE MoveAssign
    <2>1. /\ obj' = [b \in Buffer |-> IF b = call.from THEN Empty
                                     ELSE IF b = call.b THEN obj[call.from] ELSE obj[b]]
          /\ heap' = AfterDestroy(obj[call.b]) /\ call.op = "move_assign"
        BY <1>6 DEF MoveAssign, Enter
    <2>2. obj'[call.from] = Empty /\ (call.b # call.from => obj'[call.b] = obj[call.from])
        BY <1>3, <2>1
    <2>3. ASSUME call.b # call.from PROVE ContentsAfter(call.b) = Contents(call.from)
        <3>1. call.b \in Alive
            BY <1>3, <2>1
        <3>2. \A q \in Block : q # obj[call.b].buff => heap'[q] = heap[q]
            BY <1>2, <2>1, <3>1, EnterFacts, ReleaseFacts
        <3>3. obj[call.from].buff \in Block => obj[call.from].buff # obj[call.b].buff
            BY <1>3, <2>3, <3>1, BlockIsNotNull DEF IInv, Owners
        <3>4. HeapOK(heap) /\ obj[call.from] \in Members /\ Fits(obj[call.from], heap)
            BY <1>2, <1>3, EnterFacts
        <3>5. Elements(obj[call.from], heap') = Elements(obj[call.from], heap)
            BY <3>2, <3>3, <3>4, ContentsFrame
        <3> QED
            BY <1>3, <2>2, <2>3, <3>5 DEF ContentsAfter, Contents, Alive
    <2> QED
        BY <2>1, <2>2, <2>3
<1> QED
    BY <1>1, <1>4, <1>5, <1>6

\* swap exchanges contents and capacities; the moves hand them over and leave
\* an empty buffer of no capacity, also when a variable is moved to itself.
THEOREM ContentsAreHandedOver == NoDefects /\ Spec => HandsOver
<1>1. IInv /\ [Next]_vars =>
        [Completes /\ call.op \in {"swap", "move", "move_assign"} =>
          /\ call.op # "swap" => obj'[call.from] = Empty
          /\ call.op = "swap" => ContentsAfter(call.from) = Contents(call.b)
          /\ call.b # call.from =>
                /\ ContentsAfter(call.b) = Contents(call.from)
                /\ obj'[call.b].cap = obj[call.from].cap]_vars
    BY HandsOverStep
<1> QED
    BY <1>1, Invariance, PTL DEF Spec, HandsOver

---------------------------------------------------------------------------
(* What a call remembers, and what it has copied.                          *)

\* The contents of the variable are what they were when the call was made,
\* unless its elements have been destroyed to make room in its block.
Remembered == pc # "idle" => (pc = "build" /\ InPlace) \/ old = Contents(call.b)

\* The buffer being built holds the last of the items read so far.
Copied ==
    pc = "build" =>
        /\ k \in Skipped(call) .. Len(Source(call))
        /\ self.size <= k - Skipped(call)
        /\ self.size < self.cap => self.size = k - Skipped(call)
        /\ \A i \in 1 .. self.size : Elements(self, heap)[i] = Source(call)[k - self.size + i]

\* A block that is allocated is not the one the call gets.
LEMMA AllocateFrame ==
    ASSUME IInv, Allocate
    PROVE  /\ pc = "enter" /\ call.op \in Building /\ ~InPlace /\ obj' = obj
           /\ \A r \in Block : heap[r] # NoBlock => heap'[r] = heap[r]
           /\ \/ /\ pc' = "build" /\ call' = call /\ old' = old /\ k' = Skipped(call)
                 /\ self'.size = 0 /\ self'.cap \in Nat
              \/ pc' = "idle" /\ threw' = TRUE /\ heap' = heap
<1> DEFINE q == CHOOSE q \in Block : heap[q] = NoBlock
<1>1. pc = "enter" /\ call.op \in Building /\ ~InPlace
    BY DEF Allocate, Enter
<1>2. q \in Block /\ heap[q] = NoBlock
    BY <1>1, FreeBlock DEF IInv
<1>3. heap = [r \in Block |-> heap[r]]
    BY DEF IInv, TypeOK, HeapOK
<1>4. Wanted(call) \in Nat
    BY <1>1, SourceFacts
<1> DEFINE n == Wanted(call)
<1>5. CASE n = 0 /\ self' = Empty /\ UNCHANGED <<heap, fault>> /\ Build
    BY <1>1, <1>5, EmptyFits DEF Build
<1>6. CASE /\ n > 0 /\ heap' = Allocated(heap, q, n)
           /\ self' = [Empty EXCEPT !.buff = q, !.cap = n] /\ UNCHANGED fault /\ Build
    <2> HIDE DEF q, n
    <2>1. \A r \in Block : r # q => heap'[r] = heap[r]
        BY <1>3, <1>6 DEF Allocated
    <2>2. self' = [buff |-> q, cap |-> n, first |-> 0, last |-> 0, size |-> 0]
        BY <1>6 DEF Empty
    <2>3. self'.size = 0 /\ self'.cap = n /\ n \in Nat
        BY <1>4, <2>2 DEF n
    <2> QED
        BY <1>1, <1>2, <1>6, <2>1, <2>3 DEF Build
<1>7. CASE Leave(TRUE) /\ UNCHANGED <<obj, heap, fault>>
    BY <1>1, <1>7 DEF Leave
<1> QED
    BY <1>5, <1>6, <1>7 DEF Allocate, Allocated

\* A step of the loop writes one slot of the block being filled.
LEMMA ItemFrame ==
    ASSUME IInv, BuildItem \/ ReplaceItem
    PROVE  /\ pc = "build" /\ k < Len(Source(call)) /\ self.cap > 0 /\ k' = k + 1
           /\ UNCHANGED <<obj, call, pc, old>>
           /\ heap' = Written(heap, self.buff, self.last, Source(call)[k + 1])
           /\ \A q \in Block : q # self.buff => heap'[q] = heap[q]
<1>1. /\ pc = "build" /\ k < Len(Source(call)) /\ k' = k + 1
      /\ UNCHANGED <<obj, call, pc, old>>
      /\ heap' = Written(heap, self.buff, self.last, Source(call)[k + 1])
    BY DEF BuildItem, ReplaceItem, Construct, Written
<1>2. self.cap \in Nat /\ self.size \in Nat
    BY BoundsAssumption DEF IInv, TypeOK, Members
<1>3. self.cap > 0
    BY <1>2 DEF BuildItem, ReplaceItem
<1>4. heap = [r \in Block |-> heap[r]]
    BY DEF IInv, TypeOK, HeapOK
<1>5. \A q \in Block : q # self.buff => heap'[q] = heap[q]
    BY <1>1, <1>4 DEF Written
<1> QED
    BY <1>1, <1>3, <1>5

\* The variable a call is about, while its items go into another block.
LEMMA RememberedStep == IInv /\ Remembered /\ [Next]_vars => Remembered'
<1> SUFFICES ASSUME IInv, Remembered, [Next]_vars, pc' # "idle" PROVE Remembered'
    BY DEF Remembered
<1>1. Invoke \/ Allocate \/ AssignInPlace \/ BuildItem \/ ReplaceItem \/ UNCHANGED vars
    BY DEF Next, ReadThrows, CopyThrows, Built, Default, AssignSelf, Swap, Move, MoveAssign, Destructor,
           Clear, EraseBegin, EraseEnd, Emptied, Leave
<1>2. CASE Invoke
    BY <1>2 DEF Invoke, Remembered, Contents
<1>3. CASE Allocate
    <2>1. /\ pc = "enter" /\ obj' = obj /\ call' = call /\ old' = old
          /\ \A r \in Block : heap[r] # NoBlock => heap'[r] = heap[r]
        BY <1>3, AllocateFrame
    <2>2. call.b \in Buffer /\ (obj[call.b] # Dead => obj[call.b] \in Members /\ Fits(obj[call.b], heap))
        BY <2>1, EnterFacts DEF Alive
    <2>3. obj[call.b] # Dead => (obj[call.b].buff \in Block => heap[obj[call.b].buff] # NoBlock)
        BY <2>1, <2>2, EnterFacts, FitsFacts, BlockIsNotNull
    <2>4. ContentsAfter(call.b) = Contents(call.b)
        BY <2>1, <2>2, <2>3, Untouched
    <2> QED
        BY <2>1, <2>4 DEF Remembered, ContentsAfter, Contents
<1>4. CASE AssignInPlace
    <2>1. /\ pc = "enter" /\ call.op \in {"assign", "assign_input"} /\ InPlace /\ pc' = "build" /\ call' = call
          /\ obj' = [obj EXCEPT ![call.b].first = Advanced(obj[call.b], obj[call.b].size)]
        BY <1>4 DEF AssignInPlace, Enter
    <2>2. obj'[call.b].cap = obj[call.b].cap
        BY <2>1, EnterFacts
    <2>3. InPlace'
        BY <2>1, <2>2 DEF InPlace, Wanted
    <2> QED
        BY <2>1, <2>3 DEF Remembered
<1>5. CASE BuildItem \/ ReplaceItem
    <2>1. /\ pc = "build" /\ UNCHANGED <<obj, call, pc, old>>
          /\ \A q \in Block : q # self.buff => heap'[q] = heap[q]
        BY <1>5, ItemFrame
    <2>2. CASE InPlace
        BY <2>1, <2>2 DEF Remembered, InPlace, Wanted
    <2>3. CASE ~InPlace
        <3>1. call.b \in Buffer
            BY <2>1, CallArguments DEF IInv, TypeOK
        <3>2. obj[call.b] # Dead => Fits(obj[call.b], heap)
            BY <2>3, <3>1 DEF IInv, Consistent, Refilling, Alive
        <3>3. obj[call.b] # Dead => (obj[call.b].buff \in Block => obj[call.b].buff # self.buff)
            BY <2>1, <2>3, <3>1, BlockIsNotNull DEF IInv, BuildInv, Alive
        <3>4. ContentsAfter(call.b) = Contents(call.b)
            BY <2>1, <3>1, <3>2, <3>3, Untouched
        <3> QED
            BY <2>1, <2>3, <3>4 DEF Remembered, ContentsAfter, Contents
    <2> QED
        BY <2>2, <2>3
<1>6. CASE UNCHANGED vars
    BY <1>6 DEF vars, Remembered, InPlace, Wanted, Contents
<1> QED
    BY <1>1, <1>2, <1>3, <1>4, <1>5, <1>6

\* The range of a call stays what it is while it is copied.
LEMMA SourceFrame ==
    ASSUME IInv, pc # "idle", call.op \in Building, call' = call,
           call.op \in {"copy", "copy_assign"} =>
               /\ obj'[call.from] = obj[call.from]
               /\ obj[call.from].buff \in Block => heap'[obj[call.from].buff] = heap[obj[call.from].buff]
    PROVE  /\ Source(call)' = Source(call) /\ Wanted(call)' = Wanted(call)
           /\ Skipped(call)' = Skipped(call)
<1>1. CASE call.op \in {"copy", "copy_assign"}
    <2>1. call.from \in Buffer /\ obj[call.from] # Dead /\ Fits(obj[call.from], heap)
        BY <1>1, CopySource DEF Alive
    <2>2. ContentsAfter(call.from) = Contents(call.from)
        BY <1>1, <2>1, Untouched
    <2>3. Source(call)' = Source(call)
        BY <1>1, <2>2 DEF Source, ContentsAfter, Contents
    <2>4. Wanted(call)' = Wanted(call)
        BY <1>1 DEF Wanted
    <2> QED
        BY <1>1, <2>3, <2>4 DEF Skipped
<1>2. CASE call.op \notin {"copy", "copy_assign"}
    BY <1>2 DEF Source, Wanted, Skipped
<1> QED
    BY <1>1, <1>2

\* Nothing is skipped that is not there.
LEMMA SkippedFacts ==
    ASSUME IInv, pc # "idle", call.op \in Building
    PROVE  /\ Skipped(call) \in 0 .. Len(Source(call))
           /\ Skipped(call) # 0 => Skipped(call) = Len(Source(call)) - Wanted(call)
BY SourceFacts DEF Skipped

\* What one write leaves in the block.
LEMMA WrittenMemory ==
    ASSUME NEW h, HeapOK(h), NEW q \in Block, h[q] # NoBlock, NEW p \in Slots(h[q].cap), NEW v \in Cell,
           NEW g, g = Written(h, q, p, v)
    PROVE  /\ g[q].mem[p] = v
           /\ \A r \in Slots(h[q].cap) : r # p => g[q].mem[r] = h[q].mem[r]
<1> DEFINE n == h[q].cap
           m == [h[q].mem EXCEPT ![p] = v]
<1>1. h[q] = [cap |-> n, mem |-> h[q].mem] /\ n \in 1 .. MaxCapacity /\ h[q].mem \in [Slots(n) -> Cell]
    BY BlockFacts
<1>2. m \in [Slots(n) -> Cell]
    BY <1>1 DEF Cell
<1>3. g = [r \in Block |-> IF r = q THEN [cap |-> n, mem |-> m] ELSE h[r]]
    BY <1>1 DEF HeapOK, Written
<1>4. g[q].mem = m
    BY <1>3
<1> QED
    BY <1>1, <1>2, <1>4

\* The elements of a buffer, slot by slot.
LEMMA ElementAt ==
    ASSUME NEW o, NEW h, NEW i \in 1 .. o.size
    PROVE  Elements(o, h)[i] = h[o.buff].mem[Add(o.first, i - 1, o.cap)]
BY DEF Elements

\* The slot a step of the loop writes, and the others.
LEMMA ItemMemory ==
    ASSUME IInv, BuildItem \/ ReplaceItem
    PROVE  /\ heap'[self.buff].mem[self.last] = Source(call)[k + 1]
           /\ \A r \in Slots(self.cap) : r # self.last => heap'[self.buff].mem[r] = heap[self.buff].mem[r]
<1> DEFINE v == Source(call)[k + 1]
<1>1. /\ v \in Cell /\ HeapOK(heap) /\ self.buff \in Block /\ heap[self.buff] # NoBlock
      /\ heap[self.buff].cap = self.cap /\ self.last \in Slots(heap[self.buff].cap)
    BY ItemFrame, ItemFacts DEF Cell
<1>2. heap' = Written(heap, self.buff, self.last, v)
    BY ItemFrame
<1> HIDE DEF v
<1>3. /\ heap'[self.buff].mem[self.last] = v
      /\ \A r \in Slots(heap[self.buff].cap) : r # self.last => heap'[self.buff].mem[r] = heap[self.buff].mem[r]
    BY <1>1, <1>2, WrittenMemory
<1> QED
    BY <1>1, <1>3 DEF v

\* The next item goes behind those copied so far.
LEMMA BuildItemCopies ==
    ASSUME IInv, Copied, BuildItem
    PROVE  /\ self'.size = self.size + 1 /\ self'.cap = self.cap
           /\ self'.size <= k' - Skipped(call)
           /\ self'.size < self'.cap => self'.size = k' - Skipped(call)
           /\ \A i \in 1 .. self'.size : Elements(self', heap')[i] = Source(call)[k' - self'.size + i]
<1> DEFINE c == self.cap
<1>1. pc = "build" /\ k < Len(Source(call)) /\ self.cap > 0 /\ k' = k + 1
    BY ItemFrame
<1>2. /\ k \in Nat /\ self \in Members /\ c \in Nat \ {0} /\ self.first \in Slots(c) /\ self.last \in Slots(c)
      /\ self.size \in 0 .. c /\ self.last = Add(self.first, self.size, c)
    BY <1>1, ItemFacts
<1>3. self.size < c /\ self.size \in 0 .. c - 1
    BY <1>2 DEF BuildItem
<1>4. self' = [self EXCEPT !.last = Increment(@, self.cap), !.size = @ + 1]
    BY DEF BuildItem
<1>5. /\ self'.buff = self.buff /\ self'.cap = c /\ self'.first = self.first
      /\ self'.size = self.size + 1
    BY <1>2, <1>4 DEF Members
<1>6. Skipped(call) \in Nat /\ self.size = k - Skipped(call)
    BY <1>1, <1>3, SourceFacts DEF Copied, IInv, BuildInv
<1>7. ASSUME NEW i \in 1 .. self'.size
      PROVE  Elements(self', heap')[i] = Source(call)[k' - self'.size + i]
    <2>1. Elements(self', heap')[i] = heap'[self.buff].mem[Add(self.first, i - 1, c)]
        BY <1>5, ElementAt
    <2>2. i - 1 \in 0 .. c /\ i - 1 < c
        BY <1>2, <1>3, <1>5
    <2>3. CASE i = self.size + 1
        <3>1. Add(self.first, i - 1, c) = self.last /\ k' - self'.size + i = k + 1
            BY <1>1, <1>2, <1>5, <2>3
        <3> QED
            BY <2>1, <3>1, ItemMemory
    <2>4. CASE i # self.size + 1
        <3>1. i \in 1 .. self.size /\ k' - self'.size + i = k - self.size + i
            BY <1>1, <1>2, <1>5, <2>4
        <3>2. /\ Add(self.first, i - 1, c) \in Slots(c)
              /\ Index(Add(self.first, i - 1, c), self.first, c) = i - 1
              /\ Index(self.last, self.first, c) = self.size
            BY <1>2, <1>3, <2>2, AddInRing
        <3>3. Add(self.first, i - 1, c) # self.last
            BY <1>2, <3>1, <3>2
        <3>4. Elements(self', heap')[i] = Elements(self, heap)[i]
            BY <2>1, <3>1, <3>2, <3>3, ItemMemory, ElementAt
        <3> QED
            BY <1>1, <3>1, <3>4 DEF Copied
    <2> QED
        BY <2>3, <2>4
<1>8. /\ self'.size <= k' - Skipped(call)
      /\ self'.size < self'.cap => self'.size = k' - Skipped(call)
    BY <1>1, <1>2, <1>5, <1>6
<1> QED
    BY <1>5, <1>7, <1>8

\* In a full buffer it takes the place of the oldest.
LEMMA ReplaceItemCopies ==
    ASSUME IInv, Copied, ReplaceItem
    PROVE  /\ self'.size = self.size /\ self'.cap = self.cap
           /\ self'.size <= k' - Skipped(call)
           /\ ~(self'.size < self'.cap)
           /\ \A i \in 1 .. self'.size : Elements(self', heap')[i] = Source(call)[k' - self'.size + i]
<1> DEFINE c == self.cap
           f == Increment(self.last, c)
<1>1. pc = "build" /\ k < Len(Source(call)) /\ self.cap > 0 /\ k' = k + 1
    BY ItemFrame
<1>2. /\ k \in Nat /\ self \in Members /\ c \in Nat \ {0} /\ self.first \in Slots(c) /\ self.last \in Slots(c)
      /\ self.last = Add(self.first, self.size, c)
    BY <1>1, ItemFacts
<1>3. self.size = c
    BY DEF ReplaceItem
<1>4. self' = [self EXCEPT !.last = Increment(@, self.cap), !.first = Increment(self.last, self.cap)]
    BY DEF ReplaceItem
<1>5. self'.buff = self.buff /\ self'.cap = c /\ self'.first = f /\ self'.size = c
    BY <1>2, <1>3, <1>4 DEF Members
<1>6. Skipped(call) \in Nat /\ self.size <= k - Skipped(call)
    BY <1>1, SourceFacts DEF Copied, IInv, BuildInv
<1>7. self.last = self.first /\ f \in Slots(c)
    BY <1>2, <1>3, AddInRing, StepInRing
<1>8. ASSUME NEW i \in 1 .. self'.size
      PROVE  Elements(self', heap')[i] = Source(call)[k' - self'.size + i]
    <2>1. Elements(self', heap')[i] = heap'[self.buff].mem[Add(f, i - 1, c)]
        BY <1>5, ElementAt
    <2>2. i \in 1 .. c /\ i \in 0 .. c /\ i > 0
        BY <1>2, <1>5
    <2>3. Add(f, i - 1, c) = Add(self.first, i, c)
        BY <1>2, <1>7, <2>2, FirstMoves
    <2>4. CASE i = c
        <3>1. Add(f, i - 1, c) = self.last /\ k' - self'.size + i = k + 1
            BY <1>1, <1>2, <1>3, <1>5, <2>3, <2>4
        <3> QED
            BY <2>1, <3>1, ItemMemory
    <2>5. CASE i # c
        <3>1. i < c /\ i + 1 \in 1 .. self.size /\ (i + 1) - 1 = i /\ k' - self'.size + i = k - self.size + (i + 1)
            BY <1>1, <1>2, <1>3, <1>5, <2>2, <2>5
        <3>2. /\ Add(self.first, i, c) \in Slots(c)
              /\ Index(Add(self.first, i, c), self.first, c) = i
              /\ Index(self.first, self.first, c) = 0
            BY <1>2, <2>2, <3>1, AddInRing, IndexInRing
        <3>3. Add(f, i - 1, c) # self.last
            BY <1>7, <2>2, <2>3, <3>2
        <3>4. Elements(self, heap)[i + 1] = heap[self.buff].mem[Add(self.first, i, c)]
            BY <3>1, ElementAt
        <3>5. Elements(self', heap')[i] = Elements(self, heap)[i + 1]
            BY <2>1, <2>3, <3>2, <3>3, <3>4, ItemMemory
        <3> QED
            BY <1>1, <3>1, <3>5 DEF Copied
    <2> QED
        BY <2>4, <2>5
<1> QED
    BY <1>1, <1>2, <1>3, <1>5, <1>6, <1>8

LEMMA CopiedStep == IInv /\ Copied /\ [Next]_vars => Copied'
<1> SUFFICES ASSUME IInv, Copied, [Next]_vars, pc' = "build" PROVE Copied'
    BY DEF Copied
<1>1. Allocate \/ AssignInPlace \/ BuildItem \/ ReplaceItem \/ UNCHANGED vars
    BY DEF Next, Invoke, ReadThrows, CopyThrows, Built, Default, AssignSelf, Swap, Move, MoveAssign, Destructor,
           Clear, EraseBegin, EraseEnd, Emptied, Leave
<1>2. ASSUME pc = "enter", call.op \in Building, call' = call, self'.size = 0, self'.cap \in Nat,
             k' = Skipped(call),
             call.op \in {"copy", "copy_assign"} =>
               /\ obj'[call.from] = obj[call.from]
               /\ obj[call.from].buff \in Block => heap'[obj[call.from].buff] = heap[obj[call.from].buff]
      PROVE  Copied'
    <2>1. Skipped(call)' = k' /\ Source(call)' = Source(call)
        BY <1>2, SourceFrame
    <2>2. k' \in 0 .. Len(Source(call)) /\ Len(Source(call)) \in Nat
        BY <1>2, SkippedFacts, SourceFacts
    <2> QED
        BY <1>2, <2>1, <2>2 DEF Copied
<1>3. CASE Allocate
    <2>1. /\ pc = "enter" /\ call.op \in Building /\ obj' = obj
          /\ \A r \in Block : heap[r] # NoBlock => heap'[r] = heap[r]
          /\ call' = call /\ k' = Skipped(call) /\ self'.size = 0 /\ self'.cap \in Nat
        BY <1>3, AllocateFrame
    <2>2. ASSUME call.op \in {"copy", "copy_assign"}, obj[call.from].buff \in Block
          PROVE  heap'[obj[call.from].buff] = heap[obj[call.from].buff]
        <3>1. obj[call.from] \in Members /\ Fits(obj[call.from], heap) /\ HeapOK(heap)
            BY <2>1, <2>2, CopySource, AliveIsMembers DEF IInv, TypeOK
        <3>2. heap[obj[call.from].buff] # NoBlock
            BY <2>2, <3>1, FitsFacts, BlockIsNotNull
        <3> QED
            BY <2>1, <2>2, <3>2
    <2> QED
        BY <1>2, <2>1, <2>2
<1>4. CASE AssignInPlace
    <2>1. /\ pc = "enter" /\ call.op \in {"assign", "assign_input"} /\ call' = call /\ k' = Skipped(call)
          /\ self' = [obj[call.b] EXCEPT !.first = 0, !.last = 0, !.size = 0]
        BY <1>4 DEF AssignInPlace, Enter
    <2>2. obj[call.b] \in Members
        BY <2>1, EnterFacts, CallVariables DEF Filling
    <2>3. self'.size = 0 /\ self'.cap \in Nat
        BY <2>1, <2>2, BoundsAssumption DEF Members
    <2> QED
        BY <1>2, <2>1, <2>3 DEF Building
<1>5. CASE BuildItem \/ ReplaceItem
    <2>1. /\ pc = "build" /\ k < Len(Source(call)) /\ k' = k + 1 /\ UNCHANGED <<obj, call>>
          /\ \A q \in Block : q # self.buff => heap'[q] = heap[q]
        BY <1>5, ItemFrame
    <2>2. call.op \in Building
        BY <2>1 DEF IInv, BuildInv
    <2>3. ASSUME call.op \in {"copy", "copy_assign"}
          PROVE  obj[call.from].buff \in Block => heap'[obj[call.from].buff] = heap[obj[call.from].buff]
        <3>1. call.from \in Alive /\ ~InPlace
            BY <2>1, <2>3, CopySource DEF InPlace
        <3>2. obj[call.from].buff = self.buff => self.buff = NoBlock
            BY <2>1, <3>1 DEF IInv, BuildInv
        <3> QED
            BY <2>1, <3>2, BlockIsNotNull
    <2>4. Skipped(call)' = Skipped(call) /\ Source(call)' = Source(call)
        BY <2>1, <2>2, <2>3, SourceFrame
    <2>5. k \in Skipped(call) .. Len(Source(call)) /\ Skipped(call) \in Nat /\ Len(Source(call)) \in Nat
        BY <2>1, <2>2, SourceFacts DEF Copied
    <2>6. k' \in Skipped(call) .. Len(Source(call))
        BY <2>1, <2>5
    <2>7. /\ self'.size <= k' - Skipped(call)
          /\ self'.size < self'.cap => self'.size = k' - Skipped(call)
          /\ \A i \in 1 .. self'.size : Elements(self', heap')[i] = Source(call)[k' - self'.size + i]
        BY <1>5, BuildItemCopies, ReplaceItemCopies
    <2> QED
        BY <2>4, <2>6, <2>7 DEF Copied
<1>6. CASE UNCHANGED vars
    BY <1>6 DEF vars, Copied, Skipped, Source, Wanted, Contents, Elements
<1> QED
    BY <1>1, <1>3, <1>4, <1>5, <1>6

\* Between its steps a call knows what its variable held, and what of its range
\* the new buffer holds.
THEOREM CallsRemember == NoDefects /\ Spec => [](IInv /\ Remembered /\ Copied)
<1>1. Init => Remembered /\ Copied
    BY DEF Init, Remembered, Copied
<1>2. IInv /\ Remembered /\ Copied /\ [Next]_vars => (Remembered /\ Copied)'
    BY RememberedStep, CopiedStep
<1> QED
    BY <1>1, <1>2, Invariance, PTL DEF Spec

---------------------------------------------------------------------------
(* A call that throws.                                                     *)

LEMMA CopyThrowsFrame ==
    ASSUME NoDefects, IInv, CopyThrows
    PROVE  /\ pc = "build" /\ call.op \in Building
           /\ \A q \in Block : q # self.buff => heap'[q] = heap[q]
           /\ obj' = IF InPlace THEN [obj EXCEPT ![call.b].size = 0] ELSE obj
<1> DEFINE rest == Destroyed(heap, self.buff, 0 .. self.size - 1)
<1>1. /\ pc = "build" /\ call.op # "input"
      /\ InPlace => heap' = rest /\ obj' = [obj EXCEPT ![call.b].size = 0]
      /\ ~InPlace => heap' = Deallocated(rest, self.buff) /\ obj' = obj
    BY DEF CopyThrows, Excluded, NoDefects
<1>2. heap = [r \in Block |-> heap[r]]
    BY DEF IInv, TypeOK, HeapOK
<1>3. \A q \in Block : q # self.buff => rest[q] = heap[q]
    BY <1>2 DEF Destroyed
<1>4. DOMAIN rest = Block
    BY <1>2 DEF Destroyed
<1>5. \A q \in Block : q # self.buff => Deallocated(rest, self.buff)[q] = heap[q]
    <2> HIDE DEF rest
    <2> QED
        BY <1>3, <1>4 DEF Deallocated
<1>6. call.op \in Building
    BY <1>1 DEF IInv, BuildInv
<1> QED
    BY <1>1, <1>3, <1>5, <1>6

LEMMA NothingElseThrows ==
    ASSUME NoDefects, IInv, [Next]_vars, Completes, threw'
    PROVE  CopyThrows \/ (pc = "enter" /\ obj' = obj /\ heap' = heap /\ call.op \in Building)
<1>1. ReadThrows \/ Allocate \/ CopyThrows
    BY CompletingSteps DEF Built, Default, AssignSelf, Swap, Move, MoveAssign, Destructor, Clear,
       EraseBegin, EraseEnd, Emptied, Leave
<1>2. CASE ReadThrows
    BY <1>2 DEF ReadThrows, Enter, Building
<1>3. CASE Allocate
    BY <1>3, AllocateFrame DEF Completes
<1> QED
    BY <1>1, <1>2, <1>3

\* What a call that throws may do to its own variable.
OwnEffect ==
    IF call.op \in Filling \cup {"copy"} THEN obj'[call.b] = Dead
    ELSE /\ obj'[call.b].cap = obj[call.b].cap
         /\ ContentsAfter(call.b) = IF InPlace /\ pc = "build" THEN <<>> ELSE old

LEMMA ThrowIsContainedStep ==
    ASSUME NoDefects, IInv, Remembered, [Next]_vars, Completes, threw'
    PROVE  /\ \A b \in Buffer \ {call.b} : obj'[b] = obj[b] /\ ContentsAfter(b) = Contents(b)
           /\ OwnEffect
<1>1. /\ pc # "idle" /\ call \in Calls /\ Legal(call) /\ TypeOK /\ call.b \in Buffer
    BY CallArguments DEF Completes, IInv, TypeOK
<1>2. call.op \in Filling \cup {"copy"} => obj[call.b] = Dead
    BY <1>1, CallVariables DEF Alive
<1>3. CASE pc = "enter" /\ obj' = obj /\ heap' = heap
    <2>1. \A b \in Buffer : ContentsAfter(b) = Contents(b)
        BY <1>3 DEF ContentsAfter, Contents
    <2>2. old = Contents(call.b)
        BY <1>1, <1>3 DEF Remembered
    <2> QED
        BY <1>1, <1>2, <1>3, <2>1, <2>2 DEF OwnEffect
<1>4. CASE CopyThrows
    <2>1. /\ pc = "build" /\ \A q \in Block : q # self.buff => heap'[q] = heap[q]
          /\ obj' = IF InPlace THEN [obj EXCEPT ![call.b].size = 0] ELSE obj
        BY <1>4, CopyThrowsFrame
    <2>2. ASSUME NEW b \in Buffer, ~Refilling(b)
          PROVE  /\ obj[b] # Dead => Fits(obj[b], heap)
                 /\ obj[b] # Dead => (obj[b].buff \in Block => heap'[obj[b].buff] = heap[obj[b].buff])
        <3>1. obj[b] # Dead => Fits(obj[b], heap)
            BY <2>2 DEF IInv, Consistent, Alive
        <3>2. ASSUME obj[b] # Dead, obj[b].buff \in Block PROVE obj[b].buff # self.buff
            <4>1. CASE InPlace
                <5>1. call.op \in {"assign", "assign_input"}
                    BY <4>1 DEF InPlace
                <5>2. call.b \in Alive
                    BY <1>1, <5>1, CallVariables DEF Filling
                <5>3. b # call.b /\ self.buff = obj[call.b].buff
                    BY <2>1, <2>2, <4>1 DEF Refilling, IInv, BuildInv
                <5> QED
                    BY <3>2, <5>2, <5>3, BlockIsNotNull DEF IInv, Owners, Alive
            <4>2. CASE ~InPlace
                BY <2>1, <3>2, <4>2, BlockIsNotNull DEF IInv, BuildInv, Alive
            <4> QED
                BY <4>1, <4>2
        <3> QED
            BY <2>1, <3>1, <3>2
    <2>3. ASSUME NEW b \in Buffer, ~Refilling(b), obj'[b] = obj[b]
          PROVE  ContentsAfter(b) = Contents(b)
        BY <2>2, <2>3, Untouched
    <2>4. ASSUME NEW b \in Buffer \ {call.b} PROVE obj'[b] = obj[b]
        BY <2>1 DEF IInv, TypeOK
    <2>5. \A b \in Buffer \ {call.b} : ContentsAfter(b) = Contents(b)
        BY <2>3, <2>4 DEF Refilling
    <2>6. OwnEffect
        <3>1. CASE InPlace
            <4>1. call.op \in {"assign", "assign_input"}
                BY <3>1 DEF InPlace
            <4>2. obj[call.b] \in Members
                BY <1>1, <4>1, CallVariables, AliveIsMembers DEF Filling
            <4>3. obj'[call.b] = [obj[call.b] EXCEPT !.size = 0]
                BY <1>1, <2>1, <3>1 DEF TypeOK
            <4>4. obj'[call.b].size = 0 /\ obj'[call.b].cap = obj[call.b].cap
                BY <4>2, <4>3 DEF Members
            <4>5. obj'[call.b] # Dead
                <5>1. obj'[call.b] \in Members
                    BY <4>2, <4>3 DEF Members
                <5> QED
                    BY <5>1, MarkerAssumption
            <4>6. ContentsAfter(call.b) = <<>>
                BY <4>4, <4>5 DEF ContentsAfter, Elements
            <4> QED
                BY <2>1, <3>1, <4>1, <4>4, <4>6 DEF OwnEffect, Filling
        <3>2. CASE ~InPlace
            <4>1. obj'[call.b] = obj[call.b] /\ old = Contents(call.b)
                BY <1>1, <2>1, <3>2 DEF Remembered
            <4>2. ContentsAfter(call.b) = Contents(call.b)
                BY <1>1, <2>3, <3>2, <4>1 DEF Refilling
            <4> QED
                BY <1>2, <3>2, <4>1, <4>2 DEF OwnEffect
        <3> QED
            BY <3>1, <3>2
    <2> QED
        BY <2>4, <2>5, <2>6
<1> QED
    BY <1>3, <1>4, NothingElseThrows

\* A throwing constructor leaves no buffer, assign to the same capacity an
\* empty one, and every other call, like every other buffer, no trace at all.
THEOREM ThrowsAreContained == NoDefects /\ Spec => ThrowIsContained
<1>1. NoDefects /\ IInv /\ Remembered /\ [Next]_vars =>
        [Completes /\ threw' =>
          /\ \A b \in Buffer \ {call.b} : obj'[b] = obj[b] /\ ContentsAfter(b) = Contents(b)
          /\ IF call.op \in Filling \cup {"copy"} THEN obj'[call.b] = Dead
             ELSE /\ obj'[call.b].cap = obj[call.b].cap
                  /\ ContentsAfter(call.b) = IF InPlace /\ pc = "build" THEN <<>> ELSE old]_vars
    BY ThrowIsContainedStep DEF OwnEffect
<1>2. NoDefects => NoDefects'
    BY DEF NoDefects
<1> QED
    BY <1>1, <1>2, CallsRemember, PTL DEF Spec, ThrowIsContained

---------------------------------------------------------------------------
(* erase_begin, erase_end and clear.                                       *)

\* A sequence given slot by slot is a part of another.
LEMMA PartOf ==
    ASSUME NEW s, NEW n \in Nat, NEW m \in Int, NEW l \in Int, l - m + 1 = n,
           NEW t \in [1 .. n -> Nat], \A i \in 1 .. n : t[i] = s[m + i - 1]
    PROVE  t = SubSeq(s, m, l)
<1>1. ASSUME NEW i \in m .. l PROVE s[i] \in Nat
    <2>1. i - m + 1 \in 1 .. n /\ m + (i - m + 1) - 1 = i
        OBVIOUS
    <2> QED
        BY <2>1
<1>2. /\ SubSeq(s, m, l) \in Seq(Nat) /\ Len(SubSeq(s, m, l)) = IF m <= l THEN l - m + 1 ELSE 0
      /\ \A i \in 1 .. l - m + 1 : SubSeq(s, m, l)[i] = s[m + i - 1]
    BY <1>1, SubSeqProperties
<1>3. t \in Seq(Nat) /\ Len(t) = n
    BY SeqDef
<1>4. Len(SubSeq(s, m, l)) = n
    BY <1>2
<1>5. \A i \in 1 .. n : t[i] = SubSeq(s, m, l)[i]
    BY <1>2
<1> QED
    BY <1>2, <1>3, <1>4, <1>5, SeqEqual

\* The slots that are not destroyed keep their elements.
LEMMA KeptMemory ==
    ASSUME NEW h, HeapOK(h), NEW q \in Block, h[q] # NoBlock, NEW P,
           NEW g, g = Destroyed(h, q, P), NEW p \in Slots(h[q].cap), p \notin P
    PROVE  g[q].mem[p] = h[q].mem[p]
BY DestroyedFacts

\* Two steps forward are one.
LEMMA AddAdd ==
    ASSUME NEW c \in Nat \ {0}, NEW f \in Slots(c), NEW m \in Nat, NEW j \in Nat, m + j <= c
    PROVE  Add(Add(f, m, c), j, c) = Add(f, m + j, c)
BY DEF Add, Slots

\* The elements that are left are those at places d + 1, d + 2, ... of before.
LEMMA LeftOver ==
    ASSUME IInv, pc = "enter", call.b \in Alive, NEW P, NEW n \in Members, Emptied(P, n),
           n.buff = obj[call.b].buff, n.cap = obj[call.b].cap, IInv',
           NEW d \in Nat, n.size + d <= obj[call.b].size,
           n # Empty => n.first = Add(obj[call.b].first, d, n.cap),
           n # Empty => \A p \in P : Index(p, obj[call.b].first, n.cap) \notin d .. d + n.size - 1
    PROVE  ContentsAfter(call.b) = SubSeq(Contents(call.b), d + 1, d + n.size)
<1> DEFINE o == obj[call.b]
           t == Elements(n, heap')
           s == Elements(o, heap)
<1>1. /\ call.b \in Buffer /\ obj' = [obj EXCEPT ![call.b] = n] /\ heap' = Destroyed(heap, n.buff, P)
      /\ o \in Members /\ Fits(o, heap) /\ HeapOK(heap) /\ o # Dead /\ n # Dead
      /\ obj \in [Buffer -> Members \cup {Dead}]
    BY EnterFacts, MarkerAssumption DEF Emptied, Alive
<1>2. ContentsAfter(call.b) = t /\ Contents(call.b) = s
    BY <1>1 DEF ContentsAfter, Contents
<1>a. HeapOK(heap') /\ Fits(n, heap')
    <2>1. pc' = "idle" /\ call.b \in Alive' /\ obj'[call.b] = n
        BY <1>1 DEF Emptied, Leave, Alive
    <2> QED
        BY <2>1 DEF IInv, TypeOK, Consistent, Refilling
<1>3. n.size \in Nat /\ t \in [1 .. n.size -> Nat]
    BY <1>a, ElementsAreItems
<1>4. ASSUME NEW i \in 1 .. n.size PROVE t[i] = s[d + 1 + i - 1]
    <2>1. /\ n # Empty /\ n.buff \in Block /\ n.cap \in Nat \ {0} /\ n.size \in 0 .. n.cap
        BY <1>3, <1>4, <1>a, FitsFacts, EmptyFits
    <2>2. /\ o # Empty /\ heap[n.buff] # NoBlock /\ heap[n.buff].cap = n.cap
          /\ o.first \in Slots(n.cap) /\ o.size \in 0 .. n.cap
        BY <1>1, <2>1, FitsFacts, EmptyFits
    <2>3. /\ i - 1 \in Nat /\ d + (i - 1) \in 0 .. n.cap /\ d + (i - 1) < n.cap /\ d + i \in 1 .. o.size
          /\ (d + i) - 1 = d + (i - 1) /\ d + 1 + i - 1 = d + i
          /\ d + (i - 1) \in d .. d + n.size - 1
        BY <1>3, <2>1, <2>2
    <2> DEFINE p == Add(o.first, d + (i - 1), n.cap)
    <2>4. Add(n.first, i - 1, n.cap) = p
        BY <2>1, <2>2, <2>3, AddAdd
    <2>5. p \in Slots(n.cap) /\ Index(p, o.first, n.cap) = d + (i - 1)
        BY <2>1, <2>2, <2>3, AddInRing
    <2>6. p \notin P
        BY <2>1, <2>3, <2>5
    <2>7. heap'[n.buff].mem[p] = heap[n.buff].mem[p]
        <3> HIDE DEF p
        <3> QED
            BY <1>1, <2>1, <2>2, <2>5, <2>6, KeptMemory
    <2>8. t[i] = heap'[n.buff].mem[p]
        BY <2>4, ElementAt
    <2>9. s[d + i] = heap[n.buff].mem[p]
        BY <2>3, ElementAt
    <2> QED
        BY <2>3, <2>7, <2>8, <2>9
<1> DEFINE z == n.size
           m == d + 1
           l == d + z
<1>5. z \in Nat /\ m \in Int /\ l \in Int /\ l - m + 1 = z /\ t \in [1 .. z -> Nat]
    BY <1>3
<1>6. \A i \in 1 .. z : t[i] = s[m + i - 1]
    BY <1>4
<1>7. t = SubSeq(s, m, l)
    <2> HIDE DEF t, s, m, l, z
    <2> QED
        BY <1>5, <1>6, PartOf
<1> QED
    BY <1>2, <1>7

LEMMA ErasesTheEndsStep ==
    ASSUME NoDefects, IInv, Remembered, [Next]_vars, Completes,
           call.op \in {"erase_begin", "erase_end", "clear"}
    PROVE  LET n == Len(old) IN
           ContentsAfter(call.b) = CASE call.op = "clear"       -> <<>>
                                     [] call.op = "erase_begin" -> SubSeq(old, call.m + 1, n)
                                     [] call.op = "erase_end"   -> SubSeq(old, 1, n - call.m)
<1> DEFINE o == obj[call.b]
<1>1. Clear \/ EraseBegin \/ EraseEnd
    BY CompletingSteps DEF ReadThrows, Allocate, CopyThrows, Built, Default, AssignSelf, Swap, Move, MoveAssign,
       Destructor, Enter, SelfAssignment, IInv, BuildInv, Building, Filling
<1>2. IInv'
    BY NextIInv
<1>3. pc = "enter"
    BY <1>1 DEF Clear, EraseBegin, EraseEnd, Enter
<1>4. /\ call.b \in Alive /\ call.b \in Buffer /\ o \in Members /\ Fits(o, heap) /\ HeapOK(heap) /\ o # Dead
      /\ old = Contents(call.b)
    BY <1>3, EnterFacts, CallVariables DEF Filling, Alive, Remembered
<1>5. o.size \in Nat /\ Len(old) = o.size
    <2>1. o.size \in Nat /\ Elements(o, heap) \in [1 .. o.size -> Nat]
        BY <1>4, ElementsAreItems
    <2>2. old = Elements(o, heap)
        BY <1>4 DEF Contents
    <2> QED
        BY <2>1, <2>2
<1>6. CASE Clear
    <2> DEFINE n == WithFirst(o, Advanced(o, o.size), 0)
    <2>1. call.op = "clear" /\ Emptied(Occupied(o), n)
        BY <1>6 DEF Clear, Enter, WithFirst
    <2>2. n.size = 0 /\ n.buff = o.buff /\ n.cap = o.cap
        <3>1. n = [buff |-> o.buff, cap |-> o.cap, first |-> Advanced(o, o.size), last |-> o.last, size |-> 0]
            BY <1>4, MembersUpdates
        <3> HIDE DEF n
        <3> QED
            BY <3>1
    <2>3. obj'[call.b] = n
        BY <1>4, <2>1 DEF Emptied, IInv, TypeOK
    <2>4. ContentsAfter(call.b) = <<>>
        <3> HIDE DEF n
        <3> QED
            BY <2>2, <2>3 DEF ContentsAfter, Elements
    <2> QED
        BY <2>1, <2>4
<1>7. CASE EraseBegin
    <2> DEFINE m == call.m
    <2>1. call.op = "erase_begin" /\ m \in 0 .. o.size /\ m \in Nat
        BY <1>5, <1>7, EraseBeginFacts
    <2>a. PICK P, n : Emptied(P, n) /\ FrontErased(P, n)
        BY <1>7, EraseBeginFacts
    <2>2. /\ Emptied(P, n) /\ P = Window(o.first, m, o.cap)
          /\ n \in Members /\ n.buff = o.buff /\ n.cap = o.cap
          /\ n.size = o.size - m
          /\ o # Empty => n.first = Add(o.first, m, o.cap)
          /\ o = Empty => n = Empty
        BY <2>a DEF FrontErased
    <2>3. n.size + m <= o.size /\ n.size \in Nat /\ m + n.size = o.size
        BY <1>5, <2>1, <2>2
    <2>4. n # Empty => n.first = Add(o.first, m, n.cap)
        BY <2>2
    <2>5. n # Empty => \A p \in P : Index(p, o.first, n.cap) \notin m .. m + n.size - 1
        <3>1. ASSUME n # Empty, NEW p \in P PROVE Index(p, o.first, n.cap) < m /\ Index(p, o.first, n.cap) \in Int
            <4>1. p \in Slots(o.cap) /\ Index(p, o.first, o.cap) < m
                BY <2>2 DEF Window
            <4>2. o.first \in Int /\ o.cap \in Int
                BY <1>4, MembersAre
            <4> QED
                BY <2>2, <4>1, <4>2 DEF Index, Slots
        <3> QED
            BY <2>1, <3>1
    <2>6. ContentsAfter(call.b) = SubSeq(Contents(call.b), m + 1, m + n.size)
        <3> HIDE DEF m
        <3> QED
            BY <1>2, <1>3, <1>4, <2>1, <2>2, <2>3, <2>4, <2>5, LeftOver
    <2> QED
        BY <1>4, <1>5, <2>1, <2>3, <2>6
<1>8. CASE EraseEnd
    <2> DEFINE m == call.m
    <2>1. call.op = "erase_end" /\ m \in 0 .. o.size /\ m \in Nat
        BY <1>5, <1>8, EraseEndFacts
    <2>a. PICK P, n : Emptied(P, n) /\ BackErased(P, n)
        BY <1>8, EraseEndFacts
    <2>2. /\ Emptied(P, n)
          /\ n \in Members /\ n.buff = o.buff /\ n.cap = o.cap
          /\ n.first = o.first /\ n.size = o.size - m
          /\ o = Empty => n = Empty
          /\ o # Empty => P \subseteq Occupied(o) /\ Occupied(n) = Occupied(o) \ P
        BY <2>a DEF BackErased
    <2>3. n.size + 0 <= o.size /\ n.size \in Nat /\ 0 + n.size = o.size - m
        BY <1>5, <2>1, <2>2
    <2>4. n # Empty => n.first = Add(o.first, 0, n.cap) /\ n.cap \in Nat \ {0} /\ o.first \in Slots(n.cap)
        <3>1. n # Empty => o # Empty
            BY <2>2
        <3>2. o # Empty => o.cap \in Nat \ {0} /\ o.first \in Slots(o.cap)
            BY <1>4, FitsFacts
        <3>3. o # Empty => 0 \in 0 .. o.cap /\ Add(o.first, 0, o.cap) = o.first
            BY <3>2, AddInRing
        <3> QED
            BY <2>2, <3>1, <3>2, <3>3
    <2>5. n # Empty => \A p \in P : Index(p, o.first, n.cap) \notin 0 .. 0 + n.size - 1
        <3>1. ASSUME n # Empty, NEW p \in P PROVE ~(Index(p, o.first, n.cap) < n.size)
            <4>1. p \notin Occupied(n) /\ p \in Occupied(o)
                BY <2>2, <3>1
            <4> QED
                BY <2>2, <4>1 DEF Occupied, Window
        <3> QED
            BY <2>3, <3>1
    <2>6. ContentsAfter(call.b) = SubSeq(Contents(call.b), 0 + 1, 0 + n.size)
        <3> DEFINE d == 0
        <3>1. ContentsAfter(call.b) = SubSeq(Contents(call.b), d + 1, d + n.size)
            <4>1. /\ d \in Nat /\ n.size + d <= o.size
                  /\ n # Empty => n.first = Add(o.first, d, n.cap)
                  /\ n # Empty => \A p \in P : Index(p, o.first, n.cap) \notin d .. d + n.size - 1
                BY <2>3, <2>4, <2>5
            <4> HIDE DEF d
            <4> QED
                BY <1>2, <1>3, <1>4, <2>2, <4>1, LeftOver
        <3> QED
            BY <3>1
    <2> QED
        BY <1>4, <1>5, <2>1, <2>3, <2>6
<1> QED
    BY <1>1, <1>6, <1>7, <1>8

\* erase_begin, erase_end and clear take off exactly the elements they name,
\* whichever way m_first and m_last are moved.
THEOREM EndsAreErased == NoDefects /\ Spec => ErasesTheEnds
<1>1. NoDefects /\ IInv /\ Remembered /\ [Next]_vars =>
        [Completes /\ call.op \in {"erase_begin", "erase_end", "clear"} =>
          LET n == Len(old) IN
          ContentsAfter(call.b) = CASE call.op = "clear"       -> <<>>
                                    [] call.op = "erase_begin" -> SubSeq(old, call.m + 1, n)
                                    [] call.op = "erase_end"   -> SubSeq(old, 1, n - call.m)]_vars
    BY ErasesTheEndsStep
<1>2. NoDefects => NoDefects'
    BY DEF NoDefects
<1> QED
    BY <1>1, <1>2, CallsRemember, PTL DEF Spec, ErasesTheEnds

---------------------------------------------------------------------------
(* A buffer built from a range.                                            *)

\* When the loop is over, what it has copied are the last items of the range.
LEMMA LoopOver ==
    ASSUME IInv, Copied, pc = "build", k = Len(Source(call)) \/ self.cap = 0
    PROVE  Elements(self, heap) = LastItems(Source(call), Wanted(call))
<1> DEFINE s == Source(call)
           L == Len(s)
           W == Wanted(call)
           t == Elements(self, heap)
           m == L - self.size + 1
<1>1. call.op \in Building /\ self.cap = W /\ self \in Members /\ Fits(self, heap) /\ HeapOK(heap)
    BY DEF IInv, BuildInv, TypeOK
<1>2. L \in Nat /\ W \in Nat /\ Skipped(call) \in 0 .. L /\ (Skipped(call) # 0 => Skipped(call) = L - W)
    BY <1>1, SourceFacts, SkippedFacts
<1>3. self.size \in Nat /\ self.size <= W /\ t \in [1 .. self.size -> Nat]
    BY <1>1, ElementsAreItems
<1>4. /\ k \in Skipped(call) .. L /\ self.size <= k - Skipped(call)
      /\ self.size < W => self.size = k - Skipped(call)
      /\ \A i \in 1 .. self.size : t[i] = s[k - self.size + i]
    BY <1>1 DEF Copied
<1>5. self.size = IF W < L THEN W ELSE L
    BY <1>1, <1>2, <1>3, <1>4
<1>6. k = L \/ self.size = 0
    BY <1>1, <1>3
<1>7. \A i \in 1 .. self.size : t[i] = s[m + i - 1]
    BY <1>2, <1>3, <1>4, <1>6
<1>8. m \in Int /\ L \in Int /\ L - m + 1 = self.size
    BY <1>2, <1>3
<1>9. t = SubSeq(s, m, L)
    <2> HIDE DEF t, s, m, L
    <2> QED
        BY <1>3, <1>7, <1>8, PartOf
<1> QED
    BY <1>5, <1>9 DEF LastItems

LEMMA BuildsTheLastItemsStep ==
    ASSUME NoDefects, IInv, Copied, [Next]_vars, Completes, ~threw', call.op \in Building
    PROVE  /\ ContentsAfter(call.b) = LastItems(Source(call), Wanted(call))
           /\ obj'[call.b].cap = Wanted(call)
<1>1. Built \/ AssignSelf
    BY CompletingSteps, AllocateFrame DEF ReadThrows, CopyThrows, Default, Swap, Move, MoveAssign,
       Destructor, Clear, EraseBegin, EraseEnd, Enter, Leave, Completes, Building, Filling
<1>2. CASE Built
    <2>1. /\ pc = "build" /\ (k = Len(Source(call)) \/ self.cap = 0) /\ pc' = "idle"
          /\ obj' = [obj EXCEPT ![call.b] = self]
        BY <1>2 DEF Built, Leave
    <2>2. /\ call.b \in Buffer /\ self \in Members /\ self # Dead /\ self.cap = Wanted(call)
          /\ obj'[call.b] = self /\ Fits(self, heap) /\ HeapOK(heap)
        BY <2>1, CallArguments, MarkerAssumption DEF IInv, TypeOK, BuildInv
    <2>3. self.buff \in Block => heap'[self.buff] = heap[self.buff]
        <3>1. CASE obj[call.b] = Dead \/ InPlace
            BY <1>2, <3>1 DEF Built
        <3>2. CASE obj[call.b] # Dead /\ ~InPlace
            <4>1. heap' = AfterDestroy(obj[call.b])
                BY <1>2, <3>2 DEF Built
            <4>2. /\ call.b \in Alive /\ obj[call.b] \in Members /\ Fits(obj[call.b], heap)
                BY <2>1, <2>2, <3>2, AliveIsMembers DEF Alive, IInv, Consistent, Refilling
            <4>3. \A q \in Block : q # obj[call.b].buff => heap'[q] = heap[q]
                BY <2>2, <4>1, <4>2, ReleaseFacts
            <4>4. self.buff \in Block => self.buff # obj[call.b].buff
                BY <2>1, <3>2, <4>2, BlockIsNotNull DEF IInv, BuildInv
            <4> QED
                BY <4>3, <4>4
        <3> QED
            BY <3>1, <3>2
    <2>4. Elements(self, heap') = Elements(self, heap)
        BY <2>2, <2>3, ContentsFrame
    <2>5. ContentsAfter(call.b) = Elements(self, heap)
        BY <2>2, <2>4 DEF ContentsAfter
    <2> QED
        BY <2>1, <2>2, <2>5, LoopOver
<1>3. CASE AssignSelf
    <2>1. /\ pc = "enter" /\ call.op = "copy_assign" /\ call.from = call.b /\ obj' = obj /\ heap' = heap
        BY <1>3 DEF AssignSelf, SelfAssignment
    <2>2. call.b \in Alive /\ obj[call.b] \in Members /\ Fits(obj[call.b], heap) /\ HeapOK(heap) /\ obj[call.b] # Dead
        BY <2>1, EnterFacts, CallVariables DEF Filling, Alive
    <2> DEFINE s == Elements(obj[call.b], heap)
               n == obj[call.b].size
    <2>3. n \in Nat /\ n <= obj[call.b].cap /\ s \in [1 .. n -> Nat]
        BY <2>2, ElementsAreItems
    <2>4. /\ Source(call) = s /\ ContentsAfter(call.b) = s /\ Wanted(call) = obj[call.b].cap
          /\ obj[call.b].cap \in Nat
        BY <2>1, <2>2, BoundsAssumption DEF Source, Contents, ContentsAfter, Wanted, Members
    <2>5. Len(s) = n
        BY <2>3
    <2>6. s = SubSeq(s, 1, n)
        <3>1. n - 1 + 1 = n /\ \A i \in 1 .. n : s[i] = s[1 + i - 1]
            BY <2>3
        <3> HIDE DEF s, n
        <3> QED
            BY <2>3, <3>1, PartOf
    <2>7. LastItems(s, obj[call.b].cap) = SubSeq(s, 1, n)
        <3>1. ~(obj[call.b].cap < n) /\ n - n + 1 = 1
            BY <2>3, <2>4
        <3> HIDE DEF s, n
        <3> QED
            BY <2>5, <3>1 DEF LastItems
    <2> QED
        BY <2>1, <2>4, <2>6, <2>7
<1> QED
    BY <1>1, <1>2, <1>3

\* Every constructor and assignment that succeeds leaves the last items of its
\* range that the capacity has room for, in order, and that capacity.
THEOREM LastItemsAreBuilt == NoDefects /\ Spec => BuildsTheLastItems
<1>1. NoDefects /\ IInv /\ Copied /\ [Next]_vars =>
        [Completes /\ ~threw' /\ call.op \in Building =>
          /\ ContentsAfter(call.b) = LastItems(Source(call), Wanted(call))
          /\ obj'[call.b].cap = Wanted(call)]_vars
    BY BuildsTheLastItemsStep
<1>2. NoDefects => NoDefects'
    BY DEF NoDefects
<1> QED
    BY <1>1, <1>2, CallsRemember, PTL DEF Spec, BuildsTheLastItems

=============================================================================
