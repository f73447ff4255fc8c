-------------------------- MODULE Linearize_proofs --------------------------
(***************************************************************************)
(* The algorithm of linearize() is right for every capacity, every m_first *)
(* and every size.                                                         *)
(*                                                                         *)
(* The free slots are seen as items with the numbers size + 1 .. cap: then *)
(* the nested loops rotate all cap slots, and a construction in a free     *)
(* slot is a swap with an item nobody asks for.                            *)
(***************************************************************************)
EXTENDS Linearize, RingPointers_proofs, FiniteSetTheorems

-----------------------------------------------------------------------------
(* The inductive invariant.                                                *)

Running == pc \in {"outer", "inner"}

TypeInv ==
    /\ nothrow \in BOOLEAN /\ cap \in Nat /\ count \in Nat
    /\ mem \in [Slots(cap) -> Int]
    /\ pc \in {"call", "outer", "inner", "done", "threw"}

\* Nothing was done yet.
Untouched ==
    /\ size \in 0 .. cap /\ count = size
    /\ first \in Pointers(cap)
    /\ last = Add(first, size, cap)
    /\ \A p \in Slots(cap) :
          mem[p] = IF Index(p, first, cap) < size THEN Index(p, first, cap) + 1 ELSE Raw
    /\ dest = 0 /\ moved = 0 /\ constructed = 0

\* The loops run on wrapped buffers only: the free slots are last .. first - 1.
Wrapped ==
    /\ first \in Slots(cap) /\ last \in 1 .. first
    /\ size = (cap - first) + last /\ count = size

\* The outer loop starts at from; when all is done, from may be at dest.
Locals ==
    /\ dest \in 0 .. count /\ moved = dest
    /\ pc = "outer" => /\ src = from
                       /\ \/ from \in first .. cap - 1 /\ dest <= from
                          \/ from = dest /\ dest = count
    /\ pc = "inner" => /\ from \in first .. cap - 1 /\ dest <= from
                       /\ src \in from .. cap /\ ii = src - from

\* dest passes each free slot once.
Constructed == constructed = IF dest <= last THEN 0
                             ELSE IF dest < first THEN dest - last ELSE first - last

\* The slots that hold nothing: dest has not filled them yet.
Free == \A p \in Slots(cap) : mem[p] = Raw <=> last <= p /\ p < first /\ dest <= p

\* Where item k, not yet moved, waits: the rest of this round from s on, what
\* this round swapped out, at f .. s - 1, and what lies before f.
Spot(k, d, s, f, c) ==
    LET t == k - 1 - d IN
    IF t < c - s THEN s + t
    ELSE IF t < c - f THEN f + (t - (c - s))
    ELSE d + (t - (c - f))

Place(k) == Spot(k, dest, src, from, cap)

Moving ==
    /\ \A k \in 1 .. dest : mem[k - 1] = k
    /\ \A k \in dest + 1 .. count : Place(k) \in Slots(cap) /\ mem[Place(k)] = k

IInv ==
    /\ TypeInv /\ ~fault
    /\ pc = "call" => Untouched
    /\ Running => Wrapped /\ Locals /\ Constructed /\ Free /\ Moving
    /\ Linearized /\ LiveIsWindow /\ ThrowLosesAtMostOne

-----------------------------------------------------------------------------
(* How items wait.                                                         *)

\* An iteration takes the first waiting item, from s, and lets the one at d wait
\* at s in its place; nobody else moves.
LEMMA SpotsStep ==
    ASSUME NEW c \in Nat, NEW f \in 0 .. c - 1, NEW s \in f .. c - 1, NEW d \in 0 .. f - 1,
           NEW k \in d + 2 .. c
    PROVE  /\ Spot(k, d + 1, s + 1, f, c) = IF Spot(k, d, s, f, c) = d THEN s ELSE Spot(k, d, s, f, c)
           /\ Spot(k, d, s, f, c) \in Slots(c)
           /\ Spot(k, d, s, f, c) # s
BY DEF Spot, Slots

LEMMA FirstSpot ==
    ASSUME NEW c \in Nat, NEW f \in 0 .. c - 1, NEW s \in f .. c - 1, NEW d \in 0 .. f - 1
    PROVE  Spot(d + 1, d, s, f, c) = s
BY DEF Spot

\* At m_end the round starts again, at dest = first the next one begins at src:
\* the items wait where they did.
LEMMA SpotsTurn ==
    ASSUME NEW c \in Nat, NEW f \in 0 .. c - 1, NEW s \in f .. c, NEW d \in 0 .. f,
           NEW k \in d + 1 .. c
    PROVE  /\ Spot(k, d, c, f, c) = Spot(k, d, f, f, c)
           /\ d = f => Spot(k, d, s, f, c) = Spot(k, d, s, s, c)
BY DEF Spot

\* The window is what waits at the beginning; and who waits at the end is home.
LEMMA SpotsBeginAndEnd ==
    ASSUME NEW c \in Nat, NEW f \in 0 .. c - 1
    PROVE  /\ \A k \in 1 .. c : /\ Spot(k, 0, f, f, c) \in Slots(c)
                                 /\ Index(Spot(k, 0, f, f, c), f, c) = k - 1
           /\ \A k \in f + 1 .. c : Spot(k, f, f, f, c) = k - 1
BY DEF Spot, Slots, Index

-----------------------------------------------------------------------------
(* The steps.                                                              *)

LEMMA InitIInv == Init => IInv
<1> SUFFICES ASSUME Init PROVE IInv
    OBVIOUS
<1>1. cap \in Nat /\ size \in 0 .. cap /\ count = size /\ first \in Pointers(cap)
    BY LinearizeAssumption DEF Init, Pointers
<1>2. Untouched
    BY <1>1 DEF Init, Untouched
<1>3. mem \in [Slots(cap) -> Int]
    BY <1>1 DEF Init, Slots, Pointers, Index, Raw
<1>4. TypeInv
    BY <1>1, <1>3 DEF Init, TypeInv
<1> QED
    BY <1>2, <1>4 DEF Init, IInv, Running, Linearized, LiveIsWindow, ThrowLosesAtMostOne, Ended

\* The early returns: what is there is what is wanted.
LEMMA EnterIInv == IInv /\ Enter => IInv'
<1> SUFFICES ASSUME IInv, Enter PROVE IInv'
    OBVIOUS
<1> USE DEF buffer
<1>1. /\ TypeInv /\ ~fault /\ Untouched /\ pc = "call"
      /\ UNCHANGED <<nothrow, cap, first, last, size, mem, dest, ii, moved, constructed, count, fault>>
    BY DEF IInv, Enter
<1>2. TypeInv' /\ ~fault'
    BY <1>1 DEF TypeInv, Enter
<1>3. CASE size = 0 \/ is_linearized
    <2>1. pc' = "done" /\ (size > 0 => result' = first)
        BY <1>1, <1>3 DEF Enter, Untouched, TypeInv
    <2>2. ASSUME NEW k \in 0 .. size - 1
          PROVE  Elem(k) = k + 1 /\ mem[first + k] = k + 1
        <3>1. cap \in Nat \ {0} /\ first \in Slots(cap) /\ k \in Nat /\ k < cap /\ size > 0
            BY <1>1 DEF Untouched, TypeInv, Pointers, Slots
        <3>2. Add(first, k, cap) \in Slots(cap) /\ Index(Add(first, k, cap), first, cap) = k
            BY <3>1, AddInRing
        <3>3. Elem(k) = k + 1
            BY <1>1, <3>1, <3>2 DEF Untouched, Elem
        <3>4. first + k = Add(first, k, cap)
            BY <1>1, <1>3, <3>1 DEF is_linearized, Untouched, Add, Slots, TypeInv
        <3> QED
            BY <3>3, <3>4 DEF Elem
    <2>3. Linearized'
        BY <1>1, <2>1, <2>2 DEF Linearized, Untouched, TypeInv, Elem
    <2>4. \A p \in Slots(cap) : mem[p] # Raw <=> Index(p, first, cap) < size
        BY <1>1 DEF Untouched, TypeInv, Pointers, Slots, Index, Raw
    <2>5. LiveIsWindow'
        BY <1>1, <2>4 DEF LiveIsWindow, Live, Window, Untouched
    <2> QED
        BY <1>2, <2>1, <2>3, <2>5 DEF IInv, Running, ThrowLosesAtMostOne
<1>4. CASE ~(size = 0 \/ is_linearized)
    <2>1. pc' = "outer" /\ src' = first /\ from' = first
        BY <1>4 DEF Enter
    <2>2. Wrapped
        BY <1>1, <1>4 DEF Untouched, TypeInv, Wrapped, Add, Pointers, Slots, is_linearized
    <2>3. first \in 0 .. cap - 1 /\ size \in 1 .. cap /\ cap \in Nat
        BY <1>1, <2>2 DEF Wrapped, Slots, TypeInv, Untouched
    <2>4. Wrapped' /\ Locals' /\ Constructed'
        BY <1>1, <2>1, <2>2, <2>3 DEF Wrapped, Locals, Constructed, Untouched, TypeInv
    <2>5. Free'
        <3>1. ASSUME NEW p \in Slots(cap)
              PROVE  mem[p] = Raw <=> last <= p /\ p < first
            <4>1. /\ p \in 0 .. cap - 1 /\ last \in 1 .. first /\ size = (cap - first) + last
                BY <2>2 DEF Wrapped, Slots
            <4>2. Index(p, first, cap) \in Nat /\ (Index(p, first, cap) < size <=> ~(last <= p /\ p < first))
                BY <2>3, <4>1 DEF Index
            <4>3. mem[p] = IF Index(p, first, cap) < size THEN Index(p, first, cap) + 1 ELSE Raw
                BY <1>1 DEF Untouched
            <4> QED
                BY <4>2, <4>3 DEF Raw
        <3>2. \A p \in Slots(cap) : dest <= p
            BY <1>1, <2>3 DEF Untouched, Slots
        <3> QED
            BY <1>1, <3>1, <3>2 DEF Free
    <2>6. ASSUME NEW k \in 1 .. count
          PROVE  Spot(k, 0, first, first, cap) \in Slots(cap) /\ mem[Spot(k, 0, first, first, cap)] = k
        <3>1. k \in 1 .. cap /\ k - 1 < size
            BY <1>1, <2>3 DEF Untouched, TypeInv
        <3>2. /\ Spot(k, 0, first, first, cap) \in Slots(cap)
              /\ Index(Spot(k, 0, first, first, cap), first, cap) = k - 1
            BY <3>1, <2>3, SpotsBeginAndEnd
        <3> QED
            BY <1>1, <3>1, <3>2 DEF Untouched
    <2>7. Moving'
        BY <1>1, <2>1, <2>6 DEF Moving, Place, Untouched, TypeInv
    <2> QED
        BY <1>2, <2>1, <2>4, <2>5, <2>7
        DEF IInv, Running, Linearized, LiveIsWindow, ThrowLosesAtMostOne, Ended
<1> QED
    BY <1>3, <1>4

LEMMA OuterIInv == IInv /\ Outer => IInv'
<1> SUFFICES ASSUME IInv, Outer PROVE IInv'
    OBVIOUS
<1> USE DEF buffer
<1>1. /\ TypeInv /\ ~fault /\ Wrapped /\ Locals /\ Constructed /\ Free /\ Moving
      /\ pc = "outer" /\ dest < src
    BY DEF IInv, Outer, Running
<1>2. /\ pc' = "inner" /\ ii' = 0
      /\ UNCHANGED <<nothrow, cap, first, last, size, mem, src, dest, from, moved, constructed, count, fault>>
    BY DEF Outer
<1>3. TypeInv' /\ ~fault' /\ Wrapped' /\ Constructed' /\ Free'
    BY <1>1, <1>2 DEF TypeInv, Wrapped, Constructed, Free
<1>4. Moving'
    BY <1>1, <1>2 DEF Moving, Place
<1>5. Locals'
    BY <1>1, <1>2 DEF Locals, Wrapped, TypeInv, Slots
<1> QED
    BY <1>2, <1>3, <1>4, <1>5
    DEF IInv, Running, Linearized, LiveIsWindow, ThrowLosesAtMostOne, Ended

\* A round ends: the next one begins where the items left wait.
LEMMA BreakIInv == IInv /\ Break => IInv'
<1> SUFFICES ASSUME IInv, Break PROVE IInv'
    OBVIOUS
<1> USE DEF buffer
<1>1. /\ TypeInv /\ ~fault /\ Wrapped /\ Locals /\ Constructed /\ Free /\ Moving
      /\ pc = "inner"
    BY DEF IInv, Break, Running
<1>2. /\ pc' = "outer" /\ src' = from'
      /\ UNCHANGED <<nothrow, cap, first, last, size, mem, dest, ii, moved, constructed, count, fault>>
    BY DEF Break
<1>3. TypeInv' /\ ~fault' /\ Wrapped' /\ Constructed' /\ Free'
    BY <1>1, <1>2 DEF TypeInv, Wrapped, Constructed, Free
<1>4. /\ cap \in Nat /\ first \in 0 .. cap - 1 /\ from \in first .. cap - 1 /\ src \in from .. cap
      /\ dest \in 0 .. from /\ ii = src - from /\ count \in 0 .. cap /\ moved = dest /\ size = count
      /\ dest <= count
    BY <1>1 DEF TypeInv, Wrapped, Locals, Slots
<1>5. Locals'
    BY <1>1, <1>2, <1>4 DEF Locals, Break
<1>6. ASSUME NEW k \in dest + 1 .. count
      PROVE  Spot(k, dest, from', from', cap) = Spot(k, dest, src, from, cap)
    <2>1. k \in dest + 1 .. cap /\ dest # count
        BY <1>4
    <2>2. CASE src = cap
        <3>1. from' = from
            BY <1>4, <2>2 DEF Break
        <3> QED
            BY <1>4, <2>1, <2>2, <3>1, SpotsTurn
    <2>3. CASE src # cap
        <3>1. dest = from /\ from' = src
            BY <1>4, <2>1, <2>3 DEF Break
        <3> QED
            BY <1>4, <2>1, <3>1, SpotsTurn
    <2> QED
        BY <2>2, <2>3
<1>7. Moving'
    <2>1. \A k \in dest + 1 .. count : Place(k)' = Place(k)
        BY <1>2, <1>6 DEF Place
    <2> QED
        BY <1>1, <1>2, <2>1 DEF Moving
<1> QED
    BY <1>2, <1>3, <1>5, <1>7
    DEF IInv, Running, Linearized, LiveIsWindow, ThrowLosesAtMostOne, Ended

\* Where the pointers are in the inner loop, and what they find there: src an
\* element, dest a free slot exactly if is_uninitialized says so.
LEMMA LoopSlots ==
    ASSUME IInv, InLoop
    PROVE  /\ TypeInv /\ ~fault /\ Wrapped /\ Locals /\ Constructed /\ Free /\ Moving /\ pc = "inner"
           /\ cap \in Nat /\ last \in 1 .. first /\ first \in 1 .. cap - 1
           /\ from \in first .. cap - 1 /\ src \in from .. cap - 1
           /\ dest \in 0 .. from - 1 /\ count \in 0 .. cap /\ dest + 1 <= count /\ moved = dest
           /\ src \in Slots(cap) /\ dest \in Slots(cap) /\ src # dest
           /\ mem[src] = dest + 1
           /\ is_uninitialized(dest) <=> last <= dest /\ dest < first
           /\ is_uninitialized(dest) <=> mem[dest] = Raw
<1>1. /\ TypeInv /\ ~fault /\ Wrapped /\ Locals /\ Constructed /\ Free /\ Moving
      /\ pc = "inner" /\ src < cap /\ moved # size /\ dest # from
    BY DEF IInv, InLoop, Running
<1>2. /\ cap \in Nat /\ last \in 1 .. first /\ first \in 1 .. cap - 1
      /\ from \in first .. cap - 1 /\ src \in from .. cap - 1
      /\ dest \in 0 .. from - 1 /\ count \in 0 .. cap /\ dest + 1 <= count /\ moved = dest
    BY <1>1 DEF TypeInv, Wrapped, Locals, Slots
<1>3. src \in Slots(cap) /\ dest \in Slots(cap) /\ src # dest
    BY <1>2 DEF Slots
<1>4. mem[src] = dest + 1
    BY <1>1, <1>2, FirstSpot DEF Moving, Place
<1>5. is_uninitialized(dest) <=> last <= dest /\ dest < first
    BY <1>2 DEF is_uninitialized
<1>6. is_uninitialized(dest) <=> mem[dest] = Raw
    BY <1>1, <1>2, <1>3, <1>5 DEF Free
<1> QED
    BY <1>1, <1>2, <1>3, <1>4, <1>5, <1>6

\* What both bodies of the inner loop do to the items: the one that waits at src
\* is brought to dest; who waited at dest, if an item did, waits at src.
LEMMA ItemMoves ==
    ASSUME IInv, InLoop, Advance,
           mem' \in [Slots(cap) -> Int], mem'[dest] = mem[src],
           \A p \in Slots(cap) \ {src, dest} : mem'[p] = mem[p],
           \A k \in dest + 2 .. count : mem[dest] = k => mem'[src] = k
    PROVE  Moving'
<1> USE DEF buffer
<1>1. Moving /\ mem[src] = dest + 1
    BY LoopSlots
<1>2. /\ cap \in Nat /\ from \in 0 .. cap - 1 /\ src \in from .. cap - 1
      /\ dest \in 0 .. from - 1 /\ count \in 0 .. cap /\ dest + 1 <= count
    BY LoopSlots
<1>3. src' = src + 1 /\ dest' = dest + 1 /\ UNCHANGED <<cap, from, count>>
    BY DEF Advance
<1>4. \A k \in 1 .. dest + 1 : mem'[k - 1] = k
    <2>1. \A k \in 1 .. dest : mem'[k - 1] = mem[k - 1]
        BY <1>2 DEF Slots
    <2> QED
        BY <1>1, <1>2, <2>1 DEF Moving
<1>5. ASSUME NEW k \in dest + 2 .. count
      PROVE  /\ Spot(k, dest + 1, src + 1, from, cap) \in Slots(cap)
             /\ mem'[Spot(k, dest + 1, src + 1, from, cap)] = k
    <2> DEFINE here  == Spot(k, dest, src, from, cap)
               there == Spot(k, dest + 1, src + 1, from, cap)
    <2>1. k \in dest + 2 .. cap /\ k \in dest + 1 .. count
        BY <1>2
    <2>2. there = IF here = dest THEN src ELSE here
        BY <1>2, <2>1, SpotsStep
    <2>3. here \in Slots(cap) /\ here # src
        BY <1>2, <2>1, SpotsStep
    <2>4. mem[here] = k
        BY <1>1, <2>1 DEF Moving, Place
    <2>5. src \in Slots(cap)
        BY <1>2 DEF Slots
    <2> HIDE DEF here, there
    <2>6. there \in Slots(cap) /\ mem'[there] = k
        BY <2>2, <2>3, <2>4, <2>5
    <2> QED
        BY <2>6 DEF there
<1> QED
    BY <1>2, <1>3, <1>4, <1>5 DEF Moving, Place

\* An iteration leaves the bookkeeping right, provided the slots do.
LEMMA Advances ==
    ASSUME IInv, InLoop, Advance,
           mem' \in [Slots(cap) -> Int], mem'[dest] = mem[src], mem'[src] # Raw,
           \A p \in Slots(cap) \ {src, dest} : mem'[p] = mem[p],
           \A k \in dest + 2 .. count : mem[dest] = k => mem'[src] = k,
           constructed' = IF is_uninitialized(dest) THEN constructed + 1 ELSE constructed,
           ~fault'
    PROVE  IInv'
<1> USE DEF buffer
<1>1. /\ TypeInv /\ Wrapped /\ Locals /\ Constructed /\ Free /\ pc = "inner"
      /\ cap \in Nat /\ last \in 1 .. first /\ first \in 1 .. cap - 1
      /\ from \in first .. cap - 1 /\ src \in from .. cap - 1
      /\ dest \in 0 .. from - 1 /\ count \in 0 .. cap /\ dest + 1 <= count /\ moved = dest
      /\ src \in Slots(cap) /\ dest \in Slots(cap) /\ src # dest
      /\ mem[src] = dest + 1
      /\ is_uninitialized(dest) <=> last <= dest /\ dest < first
    BY LoopSlots
<1>2. /\ src' = src + 1 /\ dest' = dest + 1 /\ moved' = moved + 1 /\ ii' = ii + 1
      /\ UNCHANGED <<nothrow, cap, first, last, size, pc, from, result, count>>
    BY DEF Advance
<1>3. TypeInv' /\ Wrapped'
    BY <1>1, <1>2 DEF TypeInv, Wrapped
<1>4. Locals'
    BY <1>1, <1>2 DEF Locals
<1>5. Constructed'
    BY <1>1, <1>2 DEF Constructed
<1>6. ASSUME NEW p \in Slots(cap)
      PROVE  mem'[p] = Raw <=> last <= p /\ p < first /\ dest + 1 <= p
    <2>1. p \in Int /\ (mem[p] = Raw <=> last <= p /\ p < first /\ dest <= p)
        BY <1>1 DEF Free, Slots
    <2>2. CASE p = src
        BY <1>1, <2>2
    <2>3. CASE p = dest
        BY <1>1, <2>3 DEF Raw
    <2>4. CASE p # src /\ p # dest
        BY <1>1, <2>1, <2>4
    <2> QED
        BY <2>2, <2>3, <2>4
<1>7. Free'
    BY <1>2, <1>6 DEF Free
<1>8. Moving'
    BY ItemMoves
<1> QED
    BY <1>1, <1>2, <1>3, <1>4, <1>5, <1>7, <1>8
    DEF IInv, Running, Linearized, LiveIsWindow, ThrowLosesAtMostOne, Ended

LEMMA MoveIntoFreeIInv == IInv /\ MoveIntoFree => IInv'
<1> SUFFICES ASSUME IInv, MoveIntoFree PROVE IInv'
    OBVIOUS
<1>1. InLoop /\ Advance /\ is_uninitialized(dest) /\ constructed' = constructed + 1
    BY DEF MoveIntoFree
<1>2. /\ TypeInv /\ ~fault /\ src \in Slots(cap) /\ dest \in Slots(cap) /\ src # dest
      /\ mem[src] = dest + 1 /\ mem[dest] = Raw /\ dest \in Nat
    BY <1>1, LoopSlots
<1>3. mem' = [mem EXCEPT ![dest] = mem[src], ![src] = MovedFrom(@)]
    BY DEF MoveIntoFree
<1>4. mem' \in [Slots(cap) -> Int] /\ mem'[dest] = mem[src] /\ mem'[src] # Raw
    <2> DEFINE left == MovedFrom(mem[src])
    <2>1. left \in Int /\ left # Raw
        BY <1>2 DEF TypeInv, MovedFrom, Moved, Raw
    <2>2. mem' = [mem EXCEPT ![dest] = mem[src], ![src] = left]
        BY <1>2, <1>3 DEF TypeInv
    <2> HIDE DEF left
    <2> QED
        BY <1>2, <2>1, <2>2 DEF TypeInv
<1>5. \A p \in Slots(cap) \ {src, dest} : mem'[p] = mem[p]
    BY <1>2, <1>3 DEF TypeInv
<1>6. \A k \in dest + 2 .. count : mem[dest] # k
    BY <1>2 DEF Raw
<1>7. ~fault'
    <2>1. mem[dest] = Raw /\ mem[src] # Raw
        BY <1>2 DEF Raw
    <2> QED
        BY <1>2, <2>1, Zenon DEF MoveIntoFree
<1> QED
    BY <1>1, <1>4, <1>5, <1>6, <1>7, Advances

LEMMA SwapIInv == IInv /\ Swap => IInv'
<1> SUFFICES ASSUME IInv, Swap PROVE IInv'
    OBVIOUS
<1>1. InLoop /\ Advance /\ ~is_uninitialized(dest) /\ constructed' = constructed
    BY DEF Swap
<1>2. /\ TypeInv /\ ~fault /\ src \in Slots(cap) /\ dest \in Slots(cap) /\ src # dest
      /\ mem[src] = dest + 1 /\ mem[dest] # Raw /\ dest \in Nat
    BY <1>1, LoopSlots
<1>3. mem' = [mem EXCEPT ![dest] = mem[src], ![src] = mem[dest]]
    BY DEF Swap
<1>4. /\ mem' \in [Slots(cap) -> Int] /\ mem'[dest] = mem[src] /\ mem'[src] = mem[dest]
      /\ \A p \in Slots(cap) \ {src, dest} : mem'[p] = mem[p]
    BY <1>2, <1>3 DEF TypeInv
<1>5. ~fault'
    <2>1. mem[dest] # Raw /\ mem[src] # Raw
        BY <1>2 DEF Raw
    <2> QED
        BY <1>2, <2>1, Zenon DEF Swap
<1> QED
    BY <1>1, <1>2, <1>4, <1>5, Advances

\* The handler takes in the slots constructed so far; half a swap loses the item
\* that was at src, and no other.
LEMMA ThrowIInv == IInv /\ Throw => IInv'
<1> SUFFICES ASSUME IInv, Throw PROVE IInv'
    OBVIOUS
<1>1. /\ InLoop /\ pc' = "threw" /\ last' = last + constructed /\ size' = size + constructed
      /\ UNCHANGED <<nothrow, cap, first, src, dest, from, constructed, count, fault>>
    BY DEF Throw
<1>2. /\ TypeInv /\ ~fault /\ Wrapped /\ Constructed /\ Free /\ Moving
      /\ cap \in Nat /\ last \in 1 .. first /\ first \in 1 .. cap - 1
      /\ from \in first .. cap - 1 /\ src \in from .. cap - 1
      /\ dest \in 0 .. from - 1 /\ count \in 0 .. cap /\ dest + 1 <= count
      /\ src \in Slots(cap) /\ dest \in Slots(cap) /\ src # dest
      /\ mem[src] = dest + 1
    BY <1>1, LoopSlots
<1>3. /\ mem' \in [Slots(cap) -> Int]
      /\ \A p \in Slots(cap) : mem'[p] = Raw <=> mem[p] = Raw
      /\ \A p \in Slots(cap) \ {src} : mem'[p] = mem[p]
    <2>1. CASE mem' = mem
        BY <1>2, <2>1 DEF TypeInv
    <2>2. CASE ~is_uninitialized(dest) /\ mem' = [mem EXCEPT ![src] = mem[dest]]
        <3>1. mem[dest] # Raw
            BY <1>1, <2>2, LoopSlots
        <3> QED
            BY <1>2, <2>2, <3>1 DEF TypeInv, Raw
    <2> QED
        BY <2>1, <2>2 DEF Throw
<1>4. LiveIsWindow'
    <2>1. constructed \in 0 .. first - last /\ size = (cap - first) + last
        BY <1>2 DEF Constructed, Wrapped
    <2>2. last' = Add(first, size', cap)
        BY <1>1, <1>2, <2>1 DEF Add
    <2>3. ASSUME NEW p \in Slots(cap)
          PROVE  mem[p] # Raw <=> Index(p, first, cap) < size + constructed
        <3>1. p \in 0 .. cap - 1 /\ (mem[p] = Raw <=> last <= p /\ p < first /\ dest <= p)
            BY <1>2 DEF Free, Slots
        <3>2. Index(p, first, cap) < size + constructed <=> p >= first \/ p < last + constructed
            BY <1>2, <2>1, <3>1 DEF Index
        <3>3. p >= first \/ p < last + constructed <=> ~(last <= p /\ p < first /\ dest <= p)
            BY <1>2, <3>1 DEF Constructed
        <3> QED
            BY <3>1, <3>2, <3>3
    <2>4. Live' = Window(first', size', cap')
        BY <1>1, <1>3, <2>3 DEF Live, Window
    <2> QED
        BY <1>1, <2>2, <2>4 DEF LiveIsWindow
<1>5. ThrowLosesAtMostOne'
    <2> DEFINE Lost == {k \in 1 .. count : \A p \in Live' : mem'[p] # k}
    <2>1. ASSUME NEW k \in 1 .. count, k # dest + 1
          PROVE  \E p \in Live' : mem'[p] = k
        <3>1. PICK p \in Slots(cap) : mem[p] = k
            <4>1. CASE k <= dest
                <5>1. k - 1 \in Slots(cap) /\ k \in 1 .. dest
                    BY <1>2, <4>1 DEF Slots
                <5> QED
                    BY <1>2, <5>1 DEF Moving
            <4>2. CASE k > dest
                <5>1. k \in dest + 1 .. count
                    BY <1>2, <4>2
                <5>2. Place(k) \in Slots(cap) /\ mem[Place(k)] = k
                    BY <1>2, <5>1 DEF Moving
                <5> QED
                    BY <5>2
            <4> QED
                BY <1>2, <4>1, <4>2
        <3>2. p # src /\ mem[p] # Raw
            BY <1>2, <2>1, <3>1 DEF Raw
        <3> QED
            BY <1>1, <1>3, <3>1, <3>2 DEF Live
    <2>2. Lost \subseteq {dest + 1}
        BY <2>1
    <2>3. Cardinality({dest + 1}) = 1 /\ IsFiniteSet({dest + 1})
        BY FS_Singleton
    <2>4. Cardinality(Lost) <= 1
        <3> HIDE DEF Lost
        <3> QED
            BY <2>2, <2>3, FS_Subset
    <2> QED
        BY <1>1, <2>4 DEF ThrowLosesAtMostOne
<1> QED
    BY <1>1, <1>2, <1>3, <1>4, <1>5 DEF IInv, Running, Linearized, TypeInv

\* What is destroyed at the end of the buffer is exactly what was moved out of.
LEMMA FinishIInv == IInv /\ Finish => IInv'
<1> SUFFICES ASSUME IInv, Finish PROVE IInv'
    OBVIOUS
<1> DEFINE gone == cap - constructed .. cap - 1
<1>1. /\ TypeInv /\ ~fault /\ Wrapped /\ Locals /\ Constructed /\ Free /\ Moving
      /\ pc = "outer" /\ dest >= src
    BY DEF IInv, Finish, Running
<1>2. /\ pc' = "done" /\ first' = 0 /\ last' = Add(0, size, cap) /\ result' = 0
      /\ UNCHANGED <<nothrow, cap, size, src, dest, from, constructed, count>>
      /\ mem' = [p \in Slots(cap) |-> IF p \in gone THEN Raw ELSE mem[p]]
      /\ fault' = (fault \/ \E p \in gone : mem[p] = Raw)
    BY Zenon DEF Finish
<1>3. /\ cap \in Nat /\ first \in 0 .. cap - 1 /\ last \in 1 .. first
      /\ size = (cap - first) + last /\ count = size /\ count \in 1 .. cap /\ dest \in 0 .. count
      /\ dest = from /\ src = from
      /\ from \in first .. cap - 1 \/ dest = count
    BY <1>1 DEF TypeInv, Wrapped, Locals, Slots
<1>4. constructed \in 0 .. cap - size
    BY <1>1, <1>3 DEF Constructed
<1>5. ASSUME NEW p \in Slots(cap)
      PROVE  /\ mem[p] # Raw <=> p \in gone \/ p < size
             /\ ~(p \in gone /\ p < size)
    <2>1. p \in 0 .. cap - 1 /\ (mem[p] = Raw <=> last <= p /\ p < first /\ dest <= p)
        BY <1>1 DEF Free, Slots
    <2> QED
        BY <1>1, <1>3, <2>1 DEF Constructed
<1>6. gone \subseteq Slots(cap)
    BY <1>3, <1>4 DEF Slots
<1>7. ASSUME NEW k \in 1 .. count
      PROVE  mem[k - 1] = k
    <2>1. CASE k <= dest
        BY <1>1, <1>3, <2>1 DEF Moving
    <2>2. CASE k > dest
        <3>1. k \in dest + 1 .. count /\ k \in from + 1 .. cap /\ from \in 0 .. cap - 1
            BY <1>3, <2>2
        <3>2. Spot(k, from, from, from, cap) = k - 1
            BY <1>3, <3>1, SpotsBeginAndEnd
        <3> QED
            BY <1>1, <1>3, <3>1, <3>2 DEF Moving, Place
    <2> QED
        BY <1>3, <2>1, <2>2
<1> HIDE DEF gone
<1>8. ~fault'
    <2>1. \A p \in gone : mem[p] # Raw
        BY <1>5, <1>6
    <2> QED
        BY <1>1, <1>2, <2>1, Zenon
<1>9. \A p \in Slots(cap) : mem'[p] # Raw <=> p < size
    BY <1>2, <1>5
<1>10. ASSUME NEW k \in 0 .. size - 1
       PROVE  k \in Slots(cap) /\ mem'[k] = k + 1
    <2>1. k \in Slots(cap) /\ k < size /\ k + 1 \in 1 .. count /\ (k + 1) - 1 = k
        BY <1>3 DEF Slots
    <2>2. mem'[k] = mem[k]
        BY <1>2, <1>5, <2>1
    <2>3. mem[(k + 1) - 1] = k + 1
        BY <1>7, <2>1
    <2> QED
        BY <2>1, <2>2, <2>3
<1>11. Linearized'
    <2>1. ASSUME NEW k \in 0 .. size - 1
          PROVE  Add(0, k, cap) = k /\ 0 + k = k
        BY <1>3 DEF Add
    <2> QED
        BY <1>2, <1>3, <1>10, <2>1 DEF Linearized, Elem
<1>12. LiveIsWindow'
    <2>1. \A p \in Slots(cap) : Index(p, 0, cap) = p
        BY DEF Index, Slots
    <2> QED
        BY <1>2, <1>9, <2>1 DEF LiveIsWindow, Live, Window
<1>13. mem' \in [Slots(cap) -> Int]
    BY <1>1, <1>2 DEF TypeInv, Raw
<1> QED
    BY <1>1, <1>2, <1>8, <1>11, <1>12, <1>13 DEF IInv, Running, TypeInv, ThrowLosesAtMostOne

-----------------------------------------------------------------------------
(* The theorems.                                                           *)

\* Every step of linearize() keeps the invariant of its nested loops.
LEMMA Inductive == IInv /\ [Next]_lvars => IInv'
<1>1. IInv /\ UNCHANGED lvars => IInv'
    BY DEF lvars, buffer, IInv, TypeInv, Untouched, Running, Wrapped, Locals, Constructed, Free, Moving,
           Place, Linearized, LiveIsWindow, ThrowLosesAtMostOne, Ended, Live, Elem
<1> QED
    BY <1>1, EnterIInv, OuterIInv, BreakIInv, MoveIntoFreeIInv, SwapIInv, ThrowIInv, FinishIInv
    DEF Next, Body

\* The loop invariants of linearize() hold throughout, for every capacity, every
\* layout of the buffer and both kinds of element.
THEOREM Invariance == Spec => []IInv
BY InitIInv, Inductive, PTL DEF Spec

\* When linearize() returns, the elements are all there, in order, in an array
\* that starts at the pointer returned.
THEOREM ResultIsAnArray == Spec => []Linearized
<1>1. IInv => Linearized
    BY DEF IInv
<1> QED
    BY <1>1, Invariance, PTL

\* No iteration constructs over an element, or reads or destroys a free slot:
\* is_uninitialized is right although the loops fill the slots it is asked about.
THEOREM SlotsAreUsedRight == Spec => []NoLifecycleFault
<1>1. IInv => NoLifecycleFault
    BY DEF IInv, NoLifecycleFault
<1> QED
    BY <1>1, Invariance, PTL

\* When linearize() returns or throws, exactly the window of the buffer is live.
THEOREM WindowIsLive == Spec => []LiveIsWindow
<1>1. IInv => LiveIsWindow
    BY DEF IInv
<1> QED
    BY <1>1, Invariance, PTL

\* An exception in the middle of a swap loses one element, any other none.
THEOREM OneLostAtMost == Spec => []ThrowLosesAtMostOne
<1>1. IInv => ThrowLosesAtMostOne
    BY DEF IInv
<1> QED
    BY <1>1, Invariance, PTL

=============================================================================
