----------------------- MODULE CircularBuffer_proofs -----------------------
(***************************************************************************)
(* Proofs about CircularBuffer, for every set of values, every bound on    *)
(* the capacity and types that are moved as well as types that are copied. *)
(***************************************************************************)
EXTENDS CircularBuffer, RingPointers_proofs, SequenceTheorems

---------------------------------------------------------------------------
(* Facts about slots and calls.                                            *)

\* Writing an element makes its slot live, destroying one makes it free.
LEMMA LiveUpdate ==
    ASSUME NEW c \in Nat, NEW m \in [Slots(c) -> Cell], NEW d \in Slots(c), NEW v \in Cell
    PROVE  /\ [m EXCEPT ![d] = v] \in [Slots(c) -> Cell]
           /\ v # Raw => Live([m EXCEPT ![d] = v]) = Live(m) \cup {d}
           /\ v = Raw => Live([m EXCEPT ![d] = v]) = Live(m) \ {d}
           /\ m[d] = Raw <=> d \notin Live(m)
BY DEF Live

\* An element stays an element when it is moved from.
LEMMA MovedFromIsLive ==
    ASSUME NEW v \in Cell PROVE MovedFrom(v) \in Cell /\ (v # Raw => MovedFrom(v) # Raw)
BY CellAssumption DEF MovedFrom, Cell, Element

\* The arguments of a call satisfy its preconditions.
LEMMA CallArguments ==
    ASSUME size \in Nat, call \in Calls
    PROVE  /\ call.op \in {"push_back", "push_front"} => call.x \in Value
           /\ call.op \in {"pop_back", "pop_front"} => size > 0
           /\ call.op \in {"insert", "rinsert"} => call.x \in Value /\ call.i \in 0 .. size
           /\ call.op \in {"erase", "rerase", "rotate"} => call.i \in 0 .. size - 1
           /\ call.op \in {"erase_range", "rerase_range"} =>
                  call.i \in 0 .. size /\ call.j \in call.i .. size
           /\ call.op \in {"set_capacity", "rset_capacity"} => call.i \in 0 .. MaxCapacity
BY DEF Calls, Legal, WithItem, AtPosition, OnRange, Resizing, Popping, empty

---------------------------------------------------------------------------
(* Steps on elements, and the ways an operation ends.                      *)

\* The members of the object fit together.
Shape == /\ cap \in 0 .. MaxCapacity /\ size \in 0 .. cap
         /\ first \in Pointers(cap) /\ last \in Pointers(cap)
         /\ mem \in [Slots(cap) -> Cell]
         /\ PointersAgree

\* Writing the item into a slot of the expected state.
LEMMA PutStep ==
    ASSUME Shape, fault = FALSE, call.x \in Value,
           NEW raw \in BOOLEAN, NEW d \in Slots(cap), raw <=> d \notin Live(mem),
           Put(raw, d)
    PROVE  /\ mem' \in [Slots(cap) -> Cell] /\ fault' = FALSE
           /\ Live(mem') = Live(mem) \cup {d}
<1>1. call.x \in Cell /\ call.x # Raw
    BY CellAssumption DEF Cell, Element
<1>2. cap \in Nat
    BY CapacityAssumption DEF Shape
<1>3. mem' \in [Slots(cap) -> Cell] /\ Live(mem') = Live(mem) \cup {d}
    BY <1>1, <1>2, LiveUpdate DEF Put, Shape
<1>4. raw = (mem[d] = Raw)
    BY <1>1, <1>2, LiveUpdate DEF Shape
<1> QED
    BY <1>3, <1>4 DEF Put

\* Moving or copying a live element into a slot of the expected state.
LEMMA MoveStep ==
    ASSUME Shape, fault = FALSE,
           NEW raw \in BOOLEAN, NEW d \in Slots(cap), raw <=> d \notin Live(mem),
           NEW s \in Live(mem),
           MoveTo(raw, d, s)
    PROVE  /\ mem' \in [Slots(cap) -> Cell] /\ fault' = FALSE
           /\ Live(mem') = Live(mem) \cup {d}
<1> DEFINE m == [mem EXCEPT ![d] = mem[s]]
<1>1. /\ cap \in Nat /\ s \in Slots(cap) /\ mem[s] \in Cell /\ mem[s] # Raw
      /\ mem \in [Slots(cap) -> Cell]
    BY CapacityAssumption DEF Shape, Live
<1>2. /\ m \in [Slots(cap) -> Cell] /\ Live(m) = Live(mem) \cup {d}
    BY <1>1, LiveUpdate
<1>3. mem' = [m EXCEPT ![s] = MovedFrom(mem[s])]
    BY DEF MoveTo
<1>4. MovedFrom(mem[s]) \in Cell /\ MovedFrom(mem[s]) # Raw
    BY <1>1, MovedFromIsLive
<1>5. mem' \in [Slots(cap) -> Cell] /\ Live(mem') = Live(m) \cup {s}
    BY <1>1, <1>2, <1>3, <1>4, LiveUpdate
<1>6. fault' = FALSE
    BY <1>1, LiveUpdate DEF MoveTo
<1> QED
    BY <1>2, <1>5, <1>6

\* Destroying a live element.
LEMMA DestroyStep ==
    ASSUME Shape, fault = FALSE, NEW d \in Live(mem), Destroy(d)
    PROVE  /\ mem' \in [Slots(cap) -> Cell] /\ fault' = FALSE
           /\ Live(mem') = Live(mem) \ {d}
<1>1. cap \in Nat /\ d \in Slots(cap) /\ mem \in [Slots(cap) -> Cell] /\ Raw \in Cell
    BY CapacityAssumption DEF Shape, Live, Cell
<1> QED
    BY <1>1, LiveUpdate DEF Destroy

\* The members when the window has grown at the end, or a full one turned.
LEMMA GrownBack ==
    ASSUME Shape, cap > 0, cap' = cap, last' = Increment(last, cap),
           IF full THEN first' = last' /\ size' = size
                   ELSE first' = first /\ size' = size + 1,
           mem' \in [Slots(cap) -> Cell],
           Live(mem') = Window(first, IF full THEN size ELSE size + 1, cap)
    PROVE  Shape' /\ Settled'
<1>1. cap \in Nat \ {0} /\ first \in Slots(cap) /\ last \in Slots(cap) /\ size \in 0 .. cap
    BY CapacityAssumption DEF Shape, Pointers
<1>2. last = Add(first, size, cap)
    BY DEF Shape, PointersAgree
<1>3. CASE full
    <2>1. last = first /\ first' \in Slots(cap) /\ last' = first' /\ size = cap /\ size' = cap
        BY <1>1, <1>2, <1>3, StepInRing, AddInRing DEF full
    <2>2. last' = Add(first', size', cap')
        BY <1>1, <2>1, AddInRing
    <2>3. Window(first, size, cap) = Window(first', size', cap')
        BY <1>1, <2>1, WindowBounds DEF Pointers
    <2> QED
        BY <1>1, <1>3, <2>1, <2>2, <2>3 DEF Shape, PointersAgree, Settled, Pointers
<1>4. CASE ~full
    BY <1>1, <1>2, <1>4, StepInRing, AddInRing
       DEF Shape, PointersAgree, Settled, Pointers, full
<1> QED
    BY <1>3, <1>4

\* The same at the begin.
LEMMA GrownFront ==
    ASSUME Shape, cap > 0, cap' = cap, first' = Decrement(first, cap),
           IF full THEN last' = first' /\ size' = size
                   ELSE last' = last /\ size' = size + 1,
           mem' \in [Slots(cap) -> Cell],
           Live(mem') = IF full THEN Window(first, size, cap)
                        ELSE Window(Decrement(first, cap), size + 1, cap)
    PROVE  Shape' /\ Settled'
<1>1. cap \in Nat \ {0} /\ first \in Slots(cap) /\ last \in Slots(cap) /\ size \in 0 .. cap
    BY CapacityAssumption DEF Shape, Pointers
<1>2. last = Add(first, size, cap)
    BY DEF Shape, PointersAgree
<1>3. CASE full
    <2>1. last = first /\ first' \in Slots(cap) /\ last' = first' /\ size = cap /\ size' = cap
        BY <1>1, <1>2, <1>3, StepInRing, AddInRing DEF full
    <2>2. last' = Add(first', size', cap')
        BY <1>1, <2>1, AddInRing
    <2>3. Window(first, size, cap) = Window(first', size', cap')
        BY <1>1, <2>1, WindowBounds DEF Pointers
    <2> QED
        BY <1>1, <1>3, <2>1, <2>2, <2>3 DEF Shape, PointersAgree, Settled, Pointers
<1>4. CASE ~full
    BY <1>1, <1>2, <1>4, StepInRing, FirstMoves
       DEF Shape, PointersAgree, Settled, Pointers, full
<1> QED
    BY <1>3, <1>4

\* The last element was destroyed.
LEMMA ShrunkBack ==
    ASSUME Shape, Settled, size > 0, cap' = cap, first' = first,
           last' = Decrement(last, cap), size' = size - 1,
           mem' \in [Slots(cap) -> Cell], Live(mem') = Live(mem) \ {last'}
    PROVE  Shape' /\ Settled'
<1>1. cap \in Nat \ {0} /\ first \in Slots(cap) /\ last \in Slots(cap) /\ size \in 1 .. cap
    BY CapacityAssumption DEF Shape, Pointers
<1> QED
    BY <1>1, StepInRing, AddInRing, WindowShrinks
       DEF Shape, PointersAgree, Settled, Pointers

\* The first element was destroyed.
LEMMA ShrunkFront ==
    ASSUME Shape, Settled, size > 0, cap' = cap, last' = last,
           first' = Increment(first, cap), size' = size - 1,
           mem' \in [Slots(cap) -> Cell], Live(mem') = Live(mem) \ {first}
    PROVE  Shape' /\ Settled'
<1>1. cap \in Nat \ {0} /\ first \in Slots(cap) /\ last \in Slots(cap) /\ size \in 1 .. cap
    BY CapacityAssumption DEF Shape, Pointers
<1> QED
    BY <1>1, StepInRing, FirstMoves, WindowShrinks
       DEF Shape, PointersAgree, Settled, Pointers

\* A call that returns from such a state.
LEMMA ReturnIInv ==
    ASSUME NEW r, r \in Slots(cap') \cup {NULL, NoIter}, Return(r),
           Shape', Settled', fault' = FALSE
    PROVE  IInv'
BY DEF Return, Leave, ResetLocals, Shape, IInv, TypeOK, NoLifecycleFault, LoopInvariants, Labels

\* A call that throws.
LEMMA ThrowIInv ==
    ASSUME Throw, Shape', Settled', fault' = FALSE
    PROVE  IInv'
BY DEF Throw, Leave, ResetLocals, Shape, IInv, TypeOK, NoLifecycleFault, LoopInvariants, Labels, NoIter

LEMMA UnchangedShape ==
    ASSUME UNCHANGED object
    PROVE  (Shape => Shape') /\ (Settled => Settled')
BY DEF object, Shape, Settled, PointersAgree

\* What the invariant says while an operation runs.
LEMMA IInvFacts ==
    ASSUME IInv
    PROVE  /\ Shape /\ fault = FALSE /\ threw \in BOOLEAN /\ construct \in BOOLEAN /\ count \in Nat
           /\ cap \in Nat /\ size \in Nat /\ size <= cap /\ first \in Nat /\ last \in Nat
           /\ cap > 0 => first \in Slots(cap) /\ last \in Slots(cap)
           /\ last = Add(first, size, cap)
BY CapacityAssumption DEF IInv, Shape, TypeOK, NoLifecycleFault, PointersAgree, Pointers, Slots

---------------------------------------------------------------------------
LEMMA InitIInv == Init => IInv
<1> SUFFICES ASSUME Init PROVE IInv
    OBVIOUS
<1>1. TypeOK
    <2>1. cap \in 0 .. MaxCapacity /\ size \in 0 .. cap /\ first \in Pointers(cap) /\ last \in Pointers(cap)
        BY CapacityAssumption DEF Init, Pointers, Slots
    <2>2. mem \in [Slots(cap) -> Cell]
        BY DEF Init, Cell
    <2> QED
        BY <2>1, <2>2 DEF Init, TypeOK
<1>2. PointersAgree
    BY CapacityAssumption DEF Init, PointersAgree, Add
<1>3. Settled
    BY WindowBounds, CapacityAssumption DEF Init, Settled, Live, Pointers, Slots
<1> QED
    BY <1>1, <1>2, <1>3 DEF Init, IInv, LoopInvariants, Labels, NoLifecycleFault

LEMMA InvokeIInv == IInv /\ Invoke => IInv'
<1> SUFFICES ASSUME IInv, Invoke PROVE IInv'
    OBVIOUS
<1>1. Shape' /\ Settled' /\ fault' = FALSE
    BY IInvFacts, UnchangedShape DEF Invoke, IInv, LoopInvariants
<1>2. Calls' = Calls
    BY DEF Invoke, Calls, Legal, empty, object
<1>3. threw' \in BOOLEAN /\ construct' \in BOOLEAN /\ count' \in Nat /\ pc' = "enter" /\ call' \in Calls
    BY IInvFacts DEF Invoke, locals
<1> QED
    BY <1>1, <1>2, <1>3 DEF IInv, Shape, TypeOK, NoLifecycleFault, LoopInvariants, Labels

\* A call that changes nothing and then returns or throws.
LEMMA NothingDone ==
    ASSUME IInv, Settled, UNCHANGED <<object, fault>>
    PROVE  /\ Throw => IInv'
           /\ \A r \in Slots(cap) \cup {NULL, NoIter} : Return(r) => IInv'
<1>1. Shape' /\ Settled' /\ fault' = FALSE /\ cap' = cap
    BY UnchangedShape, IInvFacts DEF object
<1>2. Throw => IInv'
    BY <1>1, ThrowIInv
<1>3. ASSUME NEW r \in Slots(cap) \cup {NULL, NoIter}, Return(r) PROVE IInv'
    BY <1>1, <1>3, ReturnIInv
<1> QED
    BY <1>2, <1>3

\* The slots just outside the window, when there is a buffer at all.
LEMMA Edges ==
    ASSUME Shape, Settled, cap > 0
    PROVE  /\ cap \in Nat \ {0} /\ size \in 0 .. cap
           /\ first \in Slots(cap) /\ last \in Slots(cap)
           /\ Decrement(first, cap) \in Slots(cap)
           /\ full <=> last \in Live(mem)
           /\ full <=> Decrement(first, cap) \in Live(mem)
           /\ full => Live(mem) = Slots(cap) /\ last = first
           /\ ~full => /\ Live(mem) \cup {last} = Window(first, size + 1, cap)
                       /\ Live(mem) \cup {Decrement(first, cap)}
                              = Window(Decrement(first, cap), size + 1, cap)
<1>1. /\ cap \in Nat \ {0} /\ size \in 0 .. cap /\ first \in Slots(cap) /\ last \in Slots(cap)
      /\ last = Add(first, size, cap) /\ Decrement(first, cap) \in Slots(cap)
    BY CapacityAssumption, StepInRing DEF Shape, Pointers, PointersAgree
<1>2. CASE full
    BY <1>1, <1>2, WindowBounds, AddInRing DEF full, Settled, Pointers
<1>3. CASE ~full
    <2>1. size \in 0 .. cap - 1
        BY <1>1, <1>3 DEF full
    <2> QED
        BY <1>1, <1>3, <2>1, WindowGrows DEF Settled
<1> QED
    BY <1>1, <1>2, <1>3

\* The iterator begin() + k.
LEMMA Iterator ==
    ASSUME Shape, NEW k \in 0 .. size
    PROVE  /\ It(k) \in Slots(cap) \cup {NULL}
           /\ It(k) = NULL <=> k = size
           /\ k < size => /\ cap > 0 /\ It(k) \in Window(first, size, cap)
                          /\ It(k) \in Slots(cap) /\ Index(It(k), first, cap) = k
           /\ It(k) = begin <=> k = 0
<1>1. CASE k = size
    <2>1. size > 0 => first \in Slots(cap)
        BY CapacityAssumption DEF Shape, Pointers
    <2> QED
        BY <1>1, <2>1 DEF It, NULL, begin, empty, Slots, Shape
<1>2. CASE k < size
    <2>1. cap \in Nat \ {0} /\ first \in Slots(cap) /\ k \in 0 .. cap - 1 /\ It(k) = Add(first, k, cap)
        BY <1>2, CapacityAssumption DEF Shape, Pointers, It
    <2>2. It(k) \in Slots(cap) /\ Index(It(k), first, cap) = k
        BY <2>1, AddInRing
    <2>3. It(k) # NULL /\ begin = first
        BY <2>1, <2>2, <1>2 DEF NULL, Slots, begin, empty
    <2>4. It(k) = first <=> k = 0
        BY <2>1, <2>2, IndexInRing
    <2> QED
        BY <1>2, <2>1, <2>2, <2>3, <2>4 DEF Window
<1> QED
    BY <1>1, <1>2 DEF Shape

LEMMA PushBackIInv == IInv /\ PushBack => IInv'
<1> SUFFICES ASSUME IInv, PushBack PROVE IInv'
    OBVIOUS
<1>1. call.x \in Value /\ Settled /\ Shape /\ fault = FALSE
    BY IInvFacts, CallArguments DEF PushBack, Enter, LoopInvariants, IInv
<1>2. CASE UNCHANGED <<object, fault>> /\ (Return(NoIter) \/ Throw)
    BY <1>1, <1>2, NothingDone
<1>3. CASE ~(full /\ empty) /\ Put(~full, last) /\ Return(NoIter) /\ ~UNCHANGED <<object, fault>>
    <2>1. cap > 0
        BY <1>3, IInvFacts DEF full, empty
    <2>2. /\ mem' \in [Slots(cap) -> Cell] /\ fault' = FALSE
          /\ Live(mem') = Live(mem) \cup {last}
        BY <1>1, <1>3, <2>1, Edges, PutStep
    <2>3. Live(mem') = Window(first, IF full THEN size ELSE size + 1, cap)
        BY <1>1, <2>1, <2>2, Edges DEF Settled
    <2>4. Shape' /\ Settled'
        BY <1>1, <1>3, <2>1, <2>2, <2>3, GrownBack DEF PushBack
    <2> QED
        BY <1>3, <2>2, <2>4, ReturnIInv
<1> QED
    BY <1>2, <1>3 DEF PushBack

LEMMA PushFrontIInv == IInv /\ PushFront => IInv'
<1> SUFFICES ASSUME IInv, PushFront PROVE IInv'
    OBVIOUS
<1> DEFINE f == Decrement(first, cap)
<1>1. call.x \in Value /\ Settled /\ Shape /\ fault = FALSE
    BY IInvFacts, CallArguments DEF PushFront, Enter, LoopInvariants, IInv
<1>2. CASE UNCHANGED <<object, fault>> /\ Return(NoIter)
    BY <1>1, <1>2, NothingDone
<1>3. CASE /\ ~(full /\ empty) /\ Put(~full, f) /\ first' = f
           /\ IF full THEN last' = f /\ UNCHANGED size ELSE size' = size + 1 /\ UNCHANGED last
           /\ Return(NoIter) /\ UNCHANGED cap
    <2>1. cap > 0
        BY <1>3, IInvFacts DEF full, empty
    <2>2. /\ mem' \in [Slots(cap) -> Cell] /\ fault' = FALSE
          /\ Live(mem') = Live(mem) \cup {f}
        BY <1>1, <1>3, <2>1, Edges, PutStep
    <2>3. Live(mem') = IF full THEN Window(first, size, cap) ELSE Window(f, size + 1, cap)
        BY <1>1, <2>1, <2>2, Edges DEF Settled
    <2>4. Shape' /\ Settled'
        BY <1>1, <1>3, <2>1, <2>2, <2>3, GrownFront
    <2> QED
        BY <1>3, <2>2, <2>4, ReturnIInv
<1>4. CASE /\ ~(full /\ empty) /\ first' = Increment(f, cap)
           /\ Throw /\ UNCHANGED <<cap, last, size, mem, fault>>
    <2>1. cap > 0
        BY <1>4, IInvFacts DEF full, empty
    <2>2. first' = first
        BY <1>4, <2>1, IInvFacts, StepInRing
    <2> QED
        BY <1>1, <1>4, <2>2, NothingDone DEF object
<1> QED
    BY <1>2, <1>3, <1>4 DEF PushFront

\* The element at either end is destroyed.
LEMMA DropBack ==
    ASSUME Shape, Settled, fault = FALSE, size > 0, UNCHANGED <<cap, first>>,
           last' = Decrement(last, cap), Destroy(last'), size' = size - 1
    PROVE  Shape' /\ Settled' /\ fault' = FALSE
<1>1. cap \in Nat \ {0} /\ size \in 1 .. cap /\ first \in Slots(cap) /\ last = Add(first, size, cap)
    BY CapacityAssumption DEF Shape, Pointers, PointersAgree
<1>2. last' \in Live(mem)
    BY <1>1, WindowShrinks DEF Settled
<1>3. /\ mem' \in [Slots(cap) -> Cell] /\ fault' = FALSE
      /\ Live(mem') = Live(mem) \ {last'}
    BY <1>2, DestroyStep
<1> QED
    BY <1>3, ShrunkBack

LEMMA DropFront ==
    ASSUME Shape, Settled, fault = FALSE, size > 0, UNCHANGED <<cap, last>>,
           first' = Increment(first, cap), Destroy(first), size' = size - 1
    PROVE  Shape' /\ Settled' /\ fault' = FALSE
<1>1. cap \in Nat \ {0} /\ size \in 1 .. cap /\ first \in Slots(cap)
    BY CapacityAssumption DEF Shape, Pointers
<1>2. first \in Live(mem)
    BY <1>1, WindowShrinks DEF Settled
<1>3. /\ mem' \in [Slots(cap) -> Cell] /\ fault' = FALSE
      /\ Live(mem') = Live(mem) \ {first}
    BY <1>2, DestroyStep
<1> QED
    BY <1>3, ShrunkFront

LEMMA PopBackIInv == IInv /\ PopBack => IInv'
<1> SUFFICES ASSUME IInv, PopBack PROVE IInv'
    OBVIOUS
<1>1. size > 0 /\ Settled /\ Shape /\ fault = FALSE
    BY IInvFacts, CallArguments DEF PopBack, Enter, LoopInvariants, IInv
<1>2. Shape' /\ Settled' /\ fault' = FALSE
    BY <1>1, DropBack DEF PopBack
<1> QED
    BY <1>2, ReturnIInv DEF PopBack

LEMMA PopFrontIInv == IInv /\ PopFront => IInv'
<1> SUFFICES ASSUME IInv, PopFront PROVE IInv'
    OBVIOUS
<1>1. size > 0 /\ Settled /\ Shape /\ fault = FALSE
    BY IInvFacts, CallArguments DEF PopFront, Enter, LoopInvariants, IInv
<1>2. Shape' /\ Settled' /\ fault' = FALSE
    BY <1>1, DropFront DEF PopFront
<1> QED
    BY <1>2, ReturnIInv DEF PopFront

LEMMA ClearIInv == IInv /\ Clear => IInv'
<1> SUFFICES ASSUME IInv, Clear PROVE IInv'
    OBVIOUS
<1>1. Settled /\ Shape /\ fault = FALSE /\ cap \in Nat
    BY IInvFacts DEF Clear, Enter, LoopInvariants, IInv
<1>2. mem' \in [Slots(cap) -> Cell] /\ Live(mem') = {} /\ fault' = FALSE
    BY <1>1 DEF Clear, Settled, Live, Shape, Cell
<1>3. first' \in Pointers(cap) /\ first' = last
    BY <1>1, IInvFacts DEF Clear, Shape, PointersAgree
<1>4. last' = Add(first', 0, cap) /\ Window(first', 0, cap) = {}
    <2>1. first' \in Int /\ (cap > 0 => first' \in Slots(cap)) /\ (cap = 0 => first' = 0)
        BY <1>1, <1>3 DEF Pointers, Slots
    <2>2. Add(first', 0, cap) = first'
        <3>1. CASE cap = 0
            BY <2>1, <3>1 DEF Add
        <3>2. CASE cap > 0
            BY <1>1, <2>1, <3>2, AddInRing
        <3> QED
            BY <1>1, <3>1, <3>2
    <2>3. Window(first', 0, cap) = {}
        BY <1>1, <1>3, WindowBounds
    <2> QED
        BY <1>3, <2>2, <2>3 DEF Clear
<1>5. Shape' /\ Settled'
    BY <1>1, <1>2, <1>3, <1>4 DEF Clear, Shape, Settled, PointersAgree
<1> QED
    BY <1>2, <1>5, ReturnIInv DEF Clear

---------------------------------------------------------------------------
(* insert                                                                  *)

LEMMA InsertedIInv ==
    ASSUME Shape, cap > 0, NEW p \in Slots(cap), Inserted(p), fault' = FALSE,
           mem' \in [Slots(cap) -> Cell],
           Live(mem') = Window(first, IF full THEN size ELSE size + 1, cap)
    PROVE  IInv'
<1>1. Shape' /\ Settled'
    BY GrownBack DEF Inserted
<1> QED
    BY <1>1, ReturnIInv DEF Inserted

\* What the loop of insert_item relies on.
LEMMA InsertFacts ==
    ASSUME IInv, pc = "insert"
    PROVE  /\ InsertLoop /\ Shape /\ fault = FALSE /\ cap \in Nat \ {0}
           /\ cap > 0 /\ pos \in Slots(cap) /\ first \in Slots(cap) /\ size \in 1 .. cap
           /\ Window(first, size, cap) \subseteq Live(mem)
           /\ construct <=> src \notin Live(mem)
           /\ ~full => last \notin Window(first, size, cap)
<1>1. /\ InsertLoop /\ Shape /\ fault = FALSE /\ cap \in Nat /\ size \in 0 .. cap
      /\ last = Add(first, size, cap)
    BY IInvFacts DEF IInv, LoopInvariants
<1>2. pos \in Slots(cap) /\ cap \in Nat \ {0} /\ cap > 0
    BY <1>1 DEF InsertLoop, Window, Slots
<1>3. first \in Slots(cap)
    BY <1>1, <1>2, IInvFacts
<1>4. size \in 1 .. cap /\ Index(pos, first, cap) \in 0 .. size - 1
    BY <1>1, <1>2, <1>3, IndexInRing DEF InsertLoop, Window
<1>5. CASE full
    <2>1. Live(mem) = Slots(cap)
        BY <1>1, <1>3, <1>5, WindowBounds DEF InsertLoop, full, Pointers
    <2> QED
        BY <1>1, <1>2, <1>3, <1>4, <1>5, <2>1, WindowBounds DEF InsertLoop, full, Pointers
<1>6. CASE ~full
    <2>1. size \in 0 .. cap - 1
        BY <1>1, <1>2, <1>4, <1>6 DEF full
    <2>2. /\ Window(first, size + 1, cap) = Window(first, size, cap) \cup {last}
          /\ last \notin Window(first, size, cap)
        BY <1>1, <1>2, <1>3, <2>1, WindowGrows
    <2>3. Index(src, first, cap) = Index(src, pos, cap) + Index(pos, first, cap)
        BY <1>1, <1>2, <1>3, <1>4, <2>1, IndexSum, IndexInRing DEF InsertLoop
    <2>4. src \in Window(first, size + 1, cap)
        BY <1>1, <1>2, <1>4, <2>1, <2>3, IndexInRing DEF InsertLoop, Window
    <2> QED
        BY <1>1, <1>2, <1>3, <1>4, <1>6, <2>2, <2>4 DEF InsertLoop
<1> QED
    BY <1>5, <1>6

LEMMA InsertIInv == IInv /\ Insert => IInv'
<1> SUFFICES ASSUME IInv, Insert PROVE IInv'
    OBVIOUS
<1> DEFINE p == It(call.i)
<1>1. call.x \in Value /\ call.i \in 0 .. size /\ Settled /\ Shape /\ fault = FALSE
    BY IInvFacts, CallArguments DEF Insert, Enter, LoopInvariants, IInv
<1>2. CASE UNCHANGED <<object, fault>> /\ (Return(p) \/ Throw)
    BY <1>1, <1>2, NothingDone, Iterator
<1>3. CASE ~(full /\ p = begin) /\ p = NULL /\ Put(~full, last) /\ Inserted(last)
    <2>1. cap > 0
        BY <1>1, <1>3, Iterator, IInvFacts DEF full, begin, empty
    <2>2. /\ mem' \in [Slots(cap) -> Cell] /\ fault' = FALSE
          /\ Live(mem') = Live(mem) \cup {last}
        BY <1>1, <1>3, <2>1, Edges, PutStep
    <2>3. Live(mem') = Window(first, IF full THEN size ELSE size + 1, cap)
        BY <1>1, <2>1, <2>2, Edges DEF Settled
    <2> QED
        BY <1>1, <1>3, <2>1, <2>2, <2>3, Edges, InsertedIInv
<1>4. CASE /\ ~(full /\ p = begin) /\ p # NULL
           /\ pos' = p /\ src' = last /\ dest' = last /\ construct' = ~full
           /\ Goto("insert") /\ UNCHANGED <<object, count, nbuf, fault>>
    <2>1. cap > 0 /\ p \in Window(first, size, cap)
        BY <1>1, <1>4, Iterator, IInvFacts
    <2>2. Index(last, p, cap) <= size - Index(p, first, cap)
        BY <1>1, <2>1, Edges, IInvFacts, IndexOfEnd
    <2>3. InsertLoop'
        BY <1>1, <1>4, <2>1, <2>2, Edges DEF InsertLoop, object, Goto, full, Settled
    <2>4. Shape' /\ fault' = FALSE
        BY <1>1, <1>4, UnchangedShape
    <2> QED
        BY <1>4, <2>3, <2>4, IInvFacts
           DEF Goto, IInv, Shape, TypeOK, NoLifecycleFault, LoopInvariants, Labels
<1> QED
    BY <1>2, <1>3, <1>4 DEF Insert

LEMMA InsertCatchIInv == IInv /\ pc = "insert" /\ InsertCatch => IInv'
<1> SUFFICES ASSUME IInv, pc = "insert", InsertCatch PROVE IInv'
    OBVIOUS
<1>1. CASE construct \/ full
    BY <1>1, InsertFacts, NothingDone DEF InsertCatch, InsertLoop, Settled, object
<1>2. CASE ~construct /\ ~full
    <2>1. Shape' /\ Settled'
        BY <1>2, InsertFacts, GrownBack DEF InsertCatch, InsertLoop, Shape
    <2> QED
        BY <2>1, InsertFacts, ThrowIInv DEF InsertCatch
<1> QED
    BY <1>1, <1>2

LEMMA InsertShiftIInv == IInv /\ InsertShift => IInv'
<1> SUFFICES ASSUME IInv, InsertShift, ~InsertCatch PROVE IInv'
    BY InsertCatchIInv DEF InsertShift
<1>1. /\ pc = "insert" /\ src # pos /\ src' = Decrement(src, cap)
      /\ MoveTo(construct, dest, src') /\ dest' = Decrement(dest, cap)
      /\ construct' = FALSE /\ Goto("insert")
      /\ UNCHANGED <<cap, first, last, size, pos, count, nbuf>>
    BY DEF InsertShift
<1>2. src \in Slots(cap) /\ dest = src
    BY <1>1, InsertFacts DEF InsertLoop
<1>3. src' \in Slots(cap) /\ Index(src', pos, cap) = Index(src, pos, cap) - 1
    BY <1>1, <1>2, InsertFacts, IndexSum, StepInRing
<1>4. src' \in Window(first, size, cap)
    <2>1. Index(src', pos, cap) + Index(pos, first, cap) < size
        BY <1>1, <1>2, <1>3, InsertFacts, IndexInRing DEF InsertLoop
    <2>2. Index(src', first, cap) < size
        BY <1>1, <1>3, <2>1, InsertFacts, IndexSum, IndexInRing
    <2> QED
        BY <1>3, <2>2 DEF Window
<1>5. /\ mem' \in [Slots(cap) -> Cell] /\ fault' = FALSE
      /\ Live(mem') = Live(mem) \cup {dest}
    BY <1>1, <1>2, <1>4, InsertFacts, IInvFacts, MoveStep
<1>6. Live(mem') = Window(first, IF full THEN size ELSE size + 1, cap)
    <2>1. CASE construct
        <3>1. ~full /\ dest = last /\ Live(mem) = Window(first, size, cap)
            BY <1>1, <2>1, InsertFacts DEF InsertLoop
        <3> QED
            BY <1>1, <1>5, <3>1, InsertFacts, Edges DEF Settled
    <2>2. CASE ~construct
        BY <1>1, <1>2, <1>5, <2>2, InsertFacts DEF InsertLoop
    <2> QED
        BY <2>1, <2>2, IInvFacts
<1>7. InsertLoop'
    <2>1. Index(src', pos, cap) <= size - Index(pos, first, cap)
        BY <1>1, <1>2, <1>3, InsertFacts, IndexInRing DEF InsertLoop
    <2>2. ~full => src' # last
        BY <1>1, <1>4, InsertFacts
    <2> QED
        BY <1>1, <1>2, <1>3, <1>6, <2>1, <2>2, InsertFacts DEF InsertLoop, Goto, full
<1>8. Shape'
    BY <1>1, <1>5, InsertFacts DEF Shape, PointersAgree
<1> QED
    BY <1>1, <1>5, <1>7, <1>8, IInvFacts
       DEF Goto, IInv, Shape, TypeOK, NoLifecycleFault, LoopInvariants, Labels

LEMMA InsertItemIInv == IInv /\ InsertItem => IInv'
<1> SUFFICES ASSUME IInv, InsertItem, ~InsertCatch PROVE IInv'
    BY InsertCatchIInv DEF InsertItem
<1>1. pc = "insert" /\ src = pos /\ Put(FALSE, pos) /\ Inserted(pos)
    BY DEF InsertItem
<1>2. pos \in Live(mem) /\ pos \in Slots(cap) /\ ~construct
    BY <1>1, InsertFacts DEF InsertLoop
<1>3. /\ mem' \in [Slots(cap) -> Cell] /\ fault' = FALSE
      /\ Live(mem') = Live(mem) \cup {pos}
    BY <1>1, <1>2, InsertFacts, PutStep DEF InsertLoop
<1> QED
    BY <1>1, <1>2, <1>3, InsertFacts, InsertedIInv DEF InsertLoop

---------------------------------------------------------------------------
(* rinsert                                                                 *)

LEMMA RInsertedIInv ==
    ASSUME Shape, cap > 0, NEW p \in Slots(cap), RInserted(Decrement(first, cap), p),
           fault' = FALSE, mem' \in [Slots(cap) -> Cell],
           Live(mem') = IF full THEN Window(first, size, cap)
                        ELSE Window(Decrement(first, cap), size + 1, cap)
    PROVE  IInv'
<1>1. Shape' /\ Settled'
    BY GrownFront DEF RInserted
<1> QED
    BY <1>1, ReturnIInv DEF RInserted

\* What the loop of rinsert_impl relies on.
LEMMA RInsertFacts ==
    ASSUME IInv, pc = "rinsert"
    PROVE  /\ RInsertLoop /\ Shape /\ fault = FALSE /\ cap \in Nat \ {0} /\ cap > 0
           /\ first \in Slots(cap) /\ size \in 1 .. cap /\ dest \in Slots(cap)
           /\ src # pos => src \in Window(first, size, cap)
           /\ Window(first, size, cap) \subseteq Live(mem)
           /\ construct <=> dest \notin Live(mem)
<1>1. /\ RInsertLoop /\ Shape /\ fault = FALSE /\ cap \in Nat /\ size \in 0 .. cap
    BY IInvFacts DEF IInv, LoopInvariants
<1>2. cap \in Nat \ {0} /\ cap > 0
    BY <1>1 DEF RInsertLoop, Slots
<1>3. first \in Slots(cap) /\ dest \in Slots(cap)
    BY <1>1, <1>2, IInvFacts, StepInRing DEF RInsertLoop
<1>4. /\ size \in 1 .. cap /\ Index(pos, first, cap) \in 1 .. size
      /\ Index(src, first, cap) \in 0 .. Index(pos, first, cap)
    BY <1>1, <1>2, <1>3, IndexInRing DEF RInsertLoop
<1>5. src # pos => src \in Window(first, size, cap)
    <2> SUFFICES ASSUME src # pos PROVE src \in Window(first, size, cap)
        OBVIOUS
    <2>1. Index(src, first, cap) # Index(pos, first, cap)
        BY <1>1, <1>2, <1>3, IndexInRing DEF RInsertLoop
    <2> QED
        BY <1>1, <1>2, <1>4, <2>1 DEF RInsertLoop, Window
<1>6. CASE full
    <2>1. Live(mem) = Slots(cap)
        BY <1>1, <1>2, <1>3, <1>6, WindowBounds DEF RInsertLoop, full, Pointers
    <2> QED
        BY <1>1, <1>2, <1>3, <1>4, <1>5, <1>6, <2>1, WindowBounds DEF RInsertLoop, full, Pointers
<1>7. CASE ~full
    <2>1. size \in 0 .. cap - 1
        BY <1>1, <1>2, <1>4, <1>7 DEF full
    <2>2. /\ Window(Decrement(first, cap), size + 1, cap)
              = Window(first, size, cap) \cup {Decrement(first, cap)}
          /\ Decrement(first, cap) \notin Window(first, size, cap)
        BY <1>1, <1>2, <1>3, <2>1, WindowGrows
    <2>3. src # first => dest \in Window(first, size, cap)
        BY <1>1, <1>2, <1>3, <1>4, IndexSum DEF RInsertLoop, Window
    <2> QED
        BY <1>1, <1>2, <1>3, <1>4, <1>5, <1>7, <2>2, <2>3 DEF RInsertLoop
<1> QED
    BY <1>6, <1>7

LEMMA RInsertIInv == IInv /\ RInsert => IInv'
<1> SUFFICES ASSUME IInv, RInsert PROVE IInv'
    OBVIOUS
<1> DEFINE p == It(call.i)
           f == Decrement(first, cap)
<1>1. call.x \in Value /\ call.i \in 0 .. size /\ Settled /\ Shape /\ fault = FALSE
    BY IInvFacts, CallArguments DEF RInsert, Enter, LoopInvariants, IInv
<1>2. CASE UNCHANGED <<object, fault>> /\ Return(NULL)
    BY <1>1, <1>2, NothingDone
<1>3. CASE ~(full /\ p = NULL) /\ p = begin /\ Put(~full, f) /\ RInserted(f, f)
    <2>1. cap > 0
        BY <1>1, <1>3, IInvFacts DEF full, begin, empty
    <2>2. /\ mem' \in [Slots(cap) -> Cell] /\ fault' = FALSE
          /\ Live(mem') = Live(mem) \cup {f}
        BY <1>1, <1>3, <2>1, Edges, PutStep
    <2>3. Live(mem') = IF full THEN Window(first, size, cap) ELSE Window(f, size + 1, cap)
        BY <1>1, <2>1, <2>2, Edges DEF Settled
    <2> QED
        BY <1>1, <1>3, <2>1, <2>2, <2>3, Edges, RInsertedIInv
<1>4. CASE /\ ~(full /\ p = NULL) /\ p = begin /\ first' = Increment(f, cap)
           /\ Throw /\ UNCHANGED <<cap, last, size, mem, fault>>
    <2>1. cap > 0
        BY <1>1, <1>4, IInvFacts DEF full, begin, empty
    <2>2. first' = first
        BY <1>4, <2>1, IInvFacts, StepInRing
    <2> QED
        BY <1>1, <1>4, <2>2, NothingDone DEF object
<1>5. CASE /\ ~(full /\ p = NULL) /\ p # begin
           /\ pos' = map_pointer(p) /\ src' = first /\ dest' = f /\ construct' = ~full
           /\ Goto("rinsert") /\ UNCHANGED <<object, count, nbuf, fault>>
    <2>1. call.i > 0 /\ cap > 0 /\ size \in 1 .. cap
        BY <1>1, <1>5, Iterator, IInvFacts
    <2>2. pos' \in Slots(cap) /\ Index(pos', first, cap) = call.i
        <3>1. CASE call.i = size
            BY <1>1, <1>5, <2>1, <3>1, Edges, Iterator, AddInRing, IInvFacts DEF map_pointer, full
        <3>2. CASE call.i < size
            BY <1>1, <1>5, <3>2, Iterator DEF map_pointer
        <3> QED
            BY <1>1, <3>1, <3>2, IInvFacts
    <2>3. Index(first, first, cap) = 0
        BY <1>1, <2>1, Edges, IndexInRing
    <2>4. RInsertLoop'
        <3>1. /\ pos' \in Slots(cap') /\ Index(pos', first', cap') \in 1 .. size'
              /\ src' \in Slots(cap') /\ dest' = Decrement(src', cap')
              /\ Index(src', first', cap') <= Index(pos', first', cap')
            BY <1>1, <1>5, <2>1, <2>2, <2>3, Edges DEF object
        <3>2. call'.x \in Value /\ construct' = (~full' /\ src' = first')
            BY <1>1, <1>5 DEF object, Goto, full
        <3>3. Live(mem') = IF full' \/ construct' THEN Window(first', size', cap')
                           ELSE Window(Decrement(first', cap'), size' + 1, cap')
            BY <1>1, <1>5, <3>2 DEF object, full, Settled
        <3> QED
            BY <3>1, <3>2, <3>3 DEF RInsertLoop
    <2>5. Shape' /\ fault' = FALSE
        BY <1>1, <1>5, UnchangedShape
    <2> QED
        BY <1>5, <2>4, <2>5, IInvFacts
           DEF Goto, IInv, Shape, TypeOK, NoLifecycleFault, LoopInvariants, Labels
<1> QED
    BY <1>2, <1>3, <1>4, <1>5 DEF RInsert

LEMMA RInsertCatchIInv == IInv /\ pc = "rinsert" /\ RInsertCatch => IInv'
<1> SUFFICES ASSUME IInv, pc = "rinsert", RInsertCatch PROVE IInv'
    OBVIOUS
<1>1. CASE construct \/ full
    BY <1>1, RInsertFacts, NothingDone DEF RInsertCatch, RInsertLoop, Settled, object
<1>2. CASE ~construct /\ ~full
    <2>1. Shape' /\ Settled'
        BY <1>2, RInsertFacts, GrownFront DEF RInsertCatch, RInsertLoop, Shape
    <2> QED
        BY <2>1, RInsertFacts, ThrowIInv DEF RInsertCatch
<1> QED
    BY <1>1, <1>2

LEMMA RInsertShiftIInv == IInv /\ RInsertShift => IInv'
<1> SUFFICES ASSUME IInv, RInsertShift, ~RInsertCatch PROVE IInv'
    BY RInsertCatchIInv DEF RInsertShift
<1>1. /\ pc = "rinsert" /\ src # pos /\ MoveTo(construct, dest, src)
      /\ src' = Increment(src, cap) /\ dest' = Increment(dest, cap)
      /\ construct' = FALSE /\ Goto("rinsert")
      /\ UNCHANGED <<cap, first, last, size, pos, count, nbuf>>
    BY DEF RInsertShift
<1>2. /\ src \in Slots(cap) /\ src \in Window(first, size, cap) /\ pos \in Slots(cap)
      /\ dest = Decrement(src, cap) /\ dest \in Slots(cap)
    BY <1>1, RInsertFacts DEF RInsertLoop
<1>3. /\ mem' \in [Slots(cap) -> Cell] /\ fault' = FALSE
      /\ Live(mem') = Live(mem) \cup {dest}
    BY <1>1, <1>2, RInsertFacts, IInvFacts, MoveStep
<1>4. /\ src' \in Slots(cap) /\ Index(src', first, cap) = Index(src, first, cap) + 1
      /\ Index(src', first, cap) <= Index(pos, first, cap) /\ src' # first
    <2>1. Index(src, first, cap) # Index(pos, first, cap)
        BY <1>1, <1>2, RInsertFacts, IndexInRing
    <2>2. /\ Index(pos, first, cap) \in 0 .. cap - 1
          /\ Index(src, first, cap) \in 0 .. Index(pos, first, cap) - 1
        BY <1>1, <1>2, <2>1, RInsertFacts, IndexInRing DEF RInsertLoop
    <2>3. src' \in Slots(cap) /\ Index(src', first, cap) = Index(src, first, cap) + 1
        <3>1. Index(src, first, cap) < cap - 1
            BY <1>1, <2>2, RInsertFacts
        <3> QED
            BY <1>1, <1>2, <3>1, RInsertFacts, IndexSum, StepInRing
    <2> QED
        BY <1>1, <1>2, <2>2, <2>3, RInsertFacts, IndexInRing
<1>5. dest' = Decrement(src', cap)
    BY <1>1, <1>2, RInsertFacts, StepInRing
<1>6. Live(mem') = IF full THEN Window(first, size, cap)
                   ELSE Window(Decrement(first, cap), size + 1, cap)
    <2>1. CASE construct
        <3>1. ~full /\ dest = Decrement(first, cap) /\ Live(mem) = Window(first, size, cap)
            BY <1>1, <1>2, <2>1, RInsertFacts DEF RInsertLoop
        <3> QED
            BY <1>1, <1>3, <3>1, RInsertFacts, Edges DEF Settled
    <2>2. CASE ~construct
        BY <1>1, <1>2, <1>3, <2>2, RInsertFacts DEF RInsertLoop
    <2> QED
        BY <2>1, <2>2, IInvFacts
<1>7. RInsertLoop'
    BY <1>1, <1>2, <1>4, <1>5, <1>6, RInsertFacts DEF RInsertLoop, Goto, full
<1>8. Shape'
    BY <1>1, <1>3, RInsertFacts DEF Shape, PointersAgree
<1> QED
    BY <1>1, <1>3, <1>7, <1>8, IInvFacts
       DEF Goto, IInv, Shape, TypeOK, NoLifecycleFault, LoopInvariants, Labels

LEMMA RInsertItemIInv == IInv /\ RInsertItem => IInv'
<1> SUFFICES ASSUME IInv, RInsertItem, ~RInsertCatch PROVE IInv'
    BY RInsertCatchIInv DEF RInsertItem
<1> DEFINE d == Decrement(pos, cap)
<1>1. pc = "rinsert" /\ src = pos /\ Put(FALSE, d) /\ RInserted(Decrement(first, cap), d)
    BY DEF RInsertItem
<1>2. dest = d /\ d \in Live(mem) /\ d \in Slots(cap) /\ ~construct
    <2>1. pos # first
        BY <1>1, RInsertFacts, IndexInRing DEF RInsertLoop
    <2> QED
        BY <1>1, <2>1, RInsertFacts DEF RInsertLoop
<1>3. /\ mem' \in [Slots(cap) -> Cell] /\ fault' = FALSE
      /\ Live(mem') = Live(mem) \cup {d}
    BY <1>1, <1>2, RInsertFacts, PutStep DEF RInsertLoop
<1> QED
    BY <1>1, <1>2, <1>3, RInsertFacts, RInsertedIInv DEF RInsertLoop

---------------------------------------------------------------------------
(* erase                                                                   *)

\* The state between two iterations of a loop of its own invariant.
LEMMA LoopIInv ==
    ASSUME Shape', fault' = FALSE, threw' \in BOOLEAN, construct' \in BOOLEAN, count' \in Nat,
           \/ pc' = "erase" /\ EraseLoop'
           \/ pc' = "erase_range" /\ EraseRangeLoop'
           \/ pc' = "rerase" /\ REraseLoop'
           \/ pc' = "rerase_range" /\ REraseRangeLoop'
           \/ pc' = "rerase_head" /\ REraseHeadLoop'
           \/ pc' = "relocate" /\ RelocateLoop'
           \/ pc' = "rotate" /\ RotateLoop'
    PROVE  IInv'
BY DEF IInv, Shape, TypeOK, NoLifecycleFault, LoopInvariants, Labels

\* Assigning one element of the window to another disturbs nothing else.
LEMMA AssignInWindow ==
    ASSUME Shape, Settled, fault = FALSE, NEW d \in Live(mem), NEW s \in Live(mem),
           MoveTo(FALSE, d, s), UNCHANGED <<cap, first, last, size>>
    PROVE  Shape' /\ Settled' /\ fault' = FALSE
<1>1. d \in Slots(cap)
    BY DEF Shape, Live
<1>2. mem' \in [Slots(cap) -> Cell] /\ fault' = FALSE /\ Live(mem') = Live(mem)
    BY <1>1, MoveStep
<1> QED
    BY <1>2 DEF Shape, Settled, PointersAgree

LEMMA EraseIInv == IInv /\ Erase => IInv'
<1> SUFFICES ASSUME IInv, Erase PROVE IInv'
    OBVIOUS
<1>1. /\ call.i \in 0 .. size - 1 /\ Settled /\ Shape /\ fault = FALSE
      /\ call.i \in 0 .. size /\ call.i < size
    BY IInvFacts, CallArguments DEF Erase, Enter, LoopInvariants, IInv
<1>2. EraseLoop'
    BY <1>1, Iterator DEF Erase, object, EraseLoop, Settled
<1> QED
    BY <1>1, <1>2, IInvFacts, UnchangedShape, LoopIInv DEF Erase, Goto

LEMMA EraseShiftIInv == IInv /\ EraseShift => IInv'
<1> SUFFICES ASSUME IInv, EraseShift PROVE IInv'
    OBVIOUS
<1>1. EraseLoop /\ Settled /\ Shape /\ fault = FALSE /\ src # last
    BY IInvFacts DEF EraseShift, IInv, LoopInvariants, EraseLoop
<1>2. CASE Throw /\ UNCHANGED <<object, fault>>
    BY <1>1, <1>2, NothingDone
<1>3. CASE /\ MoveTo(FALSE, dest, src) /\ dest' = src /\ src' = Increment(src, cap)
           /\ Goto("erase") /\ UNCHANGED <<cap, first, last, size, pos, construct, count, nbuf>>
    <2>1. cap \in Nat \ {0} /\ first \in Slots(cap) /\ size \in 0 .. cap /\ last = Add(first, size, cap)
        BY <1>1, IInvFacts DEF EraseLoop, Window, Slots
    <2>2. src \in Window(first, size, cap)
        BY <1>1, <2>1, WindowNeighbours DEF EraseLoop
    <2>3. Shape' /\ Settled' /\ fault' = FALSE
        BY <1>1, <1>3, <2>2, AssignInWindow DEF EraseLoop, Settled
    <2>4. EraseLoop'
        BY <1>1, <1>3, <2>2, <2>3 DEF EraseLoop
    <2> QED
        BY <1>3, <2>3, <2>4, IInvFacts, LoopIInv DEF Goto
<1> QED
    BY <1>2, <1>3 DEF EraseShift

LEMMA EraseLastIInv == IInv /\ EraseLast => IInv'
<1> SUFFICES ASSUME IInv, EraseLast PROVE IInv'
    OBVIOUS
<1>1. EraseLoop /\ Settled /\ Shape /\ fault = FALSE
    BY IInvFacts DEF EraseLast, IInv, LoopInvariants, EraseLoop
<1>2. size > 0
    BY <1>1, IInvFacts, WindowNeighbours DEF EraseLoop, Window, Slots
<1>3. Shape' /\ Settled' /\ fault' = FALSE
    BY <1>1, <1>2, DropBack DEF EraseLast
<1> QED
    BY <1>1, <1>3, ReturnIInv DEF EraseLast, EraseLoop

LEMMA EraseRangeIInv == IInv /\ EraseRange => IInv'
<1> SUFFICES ASSUME IInv, EraseRange PROVE IInv'
    OBVIOUS
<1>1. /\ call.i \in 0 .. size /\ call.j \in call.i .. size /\ call.j \in 0 .. size
      /\ Settled /\ Shape /\ fault = FALSE
    BY IInvFacts, CallArguments DEF EraseRange, Enter, LoopInvariants, IInv
<1>2. CASE Return(It(call.i)) /\ UNCHANGED <<object, fault>>
    BY <1>1, <1>2, NothingDone, Iterator
<1>3. CASE /\ It(call.i) # It(call.j)
           /\ pos' = It(call.i) /\ dest' = It(call.i) /\ src' = It(call.j)
           /\ Goto("erase_range") /\ UNCHANGED <<object, construct, count, nbuf, fault>>
    <2>1. call.i < call.j /\ call.i < size
        BY <1>1, <1>3, IInvFacts
    <2>2. It(call.j) # NULL => call.j < size
        BY <1>1, Iterator, IInvFacts
    <2>3. EraseRangeLoop'
        BY <1>1, <1>3, <2>1, <2>2, Iterator DEF object, EraseRangeLoop, Settled
    <2> QED
        BY <1>1, <1>3, <2>3, IInvFacts, UnchangedShape, LoopIInv DEF Goto
<1> QED
    BY <1>2, <1>3 DEF EraseRange

LEMMA EraseRangeShiftIInv == IInv /\ EraseRangeShift => IInv'
<1> SUFFICES ASSUME IInv, EraseRangeShift PROVE IInv'
    OBVIOUS
<1>1. EraseRangeLoop /\ Settled /\ Shape /\ fault = FALSE /\ src # NULL
    BY IInvFacts DEF EraseRangeShift, IInv, LoopInvariants, EraseRangeLoop
<1>2. CASE Throw /\ UNCHANGED <<object, fault>>
    BY <1>1, <1>2, NothingDone
<1>3. CASE /\ MoveTo(FALSE, dest, src) /\ dest' = IterNext(dest) /\ src' = IterNext(src)
           /\ Goto("erase_range")
           /\ UNCHANGED <<cap, first, last, size, pos, construct, count, nbuf>>
    <2>1. /\ cap \in Nat \ {0} /\ first \in Slots(cap) /\ size \in 0 .. cap /\ last = Add(first, size, cap)
          /\ src \in Window(first, size, cap) /\ dest \in Window(first, size, cap)
          /\ Index(dest, first, cap) < Index(src, first, cap)
        BY <1>1, IInvFacts DEF EraseRangeLoop, Window, Slots
    <2>2. /\ dest' \in Window(first, size, cap)
          /\ Index(dest', first, cap) = Index(dest, first, cap) + 1
        BY <1>3, <2>1, WindowNeighbours DEF IterNext
    <2>3. src' # NULL => /\ src' \in Window(first, size, cap)
                         /\ Index(src', first, cap) = Index(src, first, cap) + 1
        BY <1>3, <2>1, WindowNeighbours DEF IterNext
    <2>4. Shape' /\ Settled' /\ fault' = FALSE
        BY <1>1, <1>3, <2>1, AssignInWindow DEF Settled
    <2>5. Index(dest, first, cap) \in Nat /\ Index(src, first, cap) \in Nat
        BY <2>1, WindowNeighbours
    <2>6. EraseRangeLoop'
        BY <1>1, <1>3, <2>1, <2>2, <2>3, <2>4, <2>5 DEF EraseRangeLoop
    <2> QED
        BY <1>3, <2>4, <2>6, IInvFacts, LoopIInv DEF Goto
<1> QED
    BY <1>2, <1>3 DEF EraseRangeShift

LEMMA EraseRangeTailIInv == IInv /\ EraseRangeTail => IInv'
<1> SUFFICES ASSUME IInv, EraseRangeTail PROVE IInv'
    OBVIOUS
<1>1. EraseRangeLoop /\ Settled /\ Shape /\ fault = FALSE /\ src = NULL
    BY IInvFacts DEF EraseRangeTail, IInv, LoopInvariants, EraseRangeLoop
<1>2. cap \in Nat \ {0} /\ first \in Slots(cap) /\ size \in 1 .. cap /\ last = Add(first, size, cap)
    <2>1. cap \in Nat \ {0} /\ first \in Slots(cap) /\ size \in 0 .. cap /\ last = Add(first, size, cap)
        BY <1>1, IInvFacts DEF EraseRangeLoop, Window, Slots
    <2> QED
        BY <1>1, <2>1, WindowNeighbours DEF EraseRangeLoop
<1>3. Shape' /\ Settled' /\ fault' = FALSE
    <2>1. /\ UNCHANGED <<cap, first>> /\ last' = Decrement(last, cap)
          /\ Destroy(last') /\ size' = size - 1
        BY DEF EraseRangeTail
    <2>2. size > 0
        BY <1>2
    <2> QED
        BY <1>1, <2>1, <2>2, DropBack
<1>4. CASE last' = dest
    BY <1>1, <1>3, <1>4, ReturnIInv DEF EraseRangeTail, EraseRangeLoop
<1>5. CASE last' # dest
    <2>1. dest \in Window(first, size - 1, cap)
        BY <1>1, <1>2, <1>5, WindowShrinks DEF EraseRangeTail, EraseRangeLoop
    <2>2. EraseRangeLoop'
        BY <1>1, <1>3, <1>5, <2>1 DEF EraseRangeTail, EraseRangeLoop, locals
    <2> QED
        BY <1>3, <1>5, <2>2, IInvFacts, LoopIInv DEF EraseRangeTail, Goto, locals
<1> QED
    BY <1>4, <1>5

---------------------------------------------------------------------------
(* rerase                                                                  *)

LEMMA REraseIInv == IInv /\ RErase => IInv'
<1> SUFFICES ASSUME IInv, RErase PROVE IInv'
    OBVIOUS
<1>1. /\ call.i \in 0 .. size - 1 /\ Settled /\ Shape /\ fault = FALSE
      /\ call.i \in 0 .. size /\ call.i < size
    BY IInvFacts, CallArguments DEF RErase, Enter, LoopInvariants, IInv
<1>2. REraseLoop'
    BY <1>1, Iterator DEF RErase, object, REraseLoop, Settled
<1> QED
    BY <1>1, <1>2, IInvFacts, UnchangedShape, LoopIInv DEF RErase, Goto

LEMMA REraseShiftIInv == IInv /\ REraseShift => IInv'
<1> SUFFICES ASSUME IInv, REraseShift PROVE IInv'
    OBVIOUS
<1>1. REraseLoop /\ Settled /\ Shape /\ fault = FALSE /\ dest # first
    BY IInvFacts DEF REraseShift, IInv, LoopInvariants, REraseLoop
<1>2. CASE Throw /\ UNCHANGED <<object, fault>>
    BY <1>1, <1>2, NothingDone
<1>3. CASE /\ MoveTo(FALSE, dest, src) /\ dest' = src /\ src' = Decrement(src, cap)
           /\ Goto("rerase") /\ UNCHANGED <<cap, first, last, size, pos, construct, count, nbuf>>
    <2>1. cap \in Nat \ {0} /\ first \in Slots(cap) /\ size \in 0 .. cap
        BY <1>1, IInvFacts DEF REraseLoop, Window, Slots
    <2>2. src \in Window(first, size, cap)
        BY <1>1, <2>1, WindowNeighbours DEF REraseLoop
    <2>3. Shape' /\ Settled' /\ fault' = FALSE
        BY <1>1, <1>3, <2>2, AssignInWindow DEF REraseLoop, Settled
    <2>4. REraseLoop'
        BY <1>1, <1>3, <2>2, <2>3 DEF REraseLoop
    <2> QED
        BY <1>3, <2>3, <2>4, IInvFacts, LoopIInv DEF Goto
<1> QED
    BY <1>2, <1>3 DEF REraseShift

LEMMA REraseFirstIInv == IInv /\ REraseFirst => IInv'
<1> SUFFICES ASSUME IInv, REraseFirst PROVE IInv'
    OBVIOUS
<1>1. REraseLoop /\ Settled /\ Shape /\ fault = FALSE
    BY IInvFacts DEF REraseFirst, IInv, LoopInvariants, REraseLoop
<1>2. cap \in Nat \ {0} /\ first \in Slots(cap) /\ size > 0
    BY <1>1, IInvFacts, WindowNeighbours DEF REraseLoop, Window, Slots
<1>3. Shape' /\ Settled' /\ fault' = FALSE
    BY <1>1, <1>2, DropFront DEF REraseFirst
<1>4. first' \in Slots(cap) /\ pos \in Slots(cap) /\ cap' = cap
    BY <1>1, <1>2, StepInRing DEF REraseFirst, REraseLoop
<1> QED
    BY <1>3, <1>4, ReturnIInv DEF REraseFirst

LEMMA REraseRangeIInv == IInv /\ REraseRange => IInv'
<1> SUFFICES ASSUME IInv, REraseRange PROVE IInv'
    OBVIOUS
<1>1. /\ call.i \in 0 .. size /\ call.j \in call.i .. size /\ call.j \in 0 .. size
      /\ Settled /\ Shape /\ fault = FALSE
    BY IInvFacts, CallArguments DEF REraseRange, Enter, LoopInvariants, IInv
<1>2. CASE Return(It(call.i)) /\ UNCHANGED <<object, fault>>
    BY <1>1, <1>2, NothingDone, Iterator
<1>3. CASE /\ It(call.i) # It(call.j)
           /\ pos' = map_pointer(It(call.j)) /\ dest' = map_pointer(It(call.j))
           /\ src' = It(call.i) /\ Goto("rerase_range")
           /\ UNCHANGED <<object, construct, count, nbuf, fault>>
    <2>1. call.i < call.j /\ call.i < size /\ call.i \in Nat /\ call.j \in Nat
        BY <1>1, <1>3, IInvFacts
    <2>2. /\ It(call.i) \in Window(first, size, cap) /\ Index(It(call.i), first, cap) = call.i
          /\ cap > 0 /\ first \in Slots(cap) /\ last \in Slots(cap)
        BY <1>1, <2>1, Iterator, IInvFacts
    <2>3. map_pointer(It(call.j)) = Add(first, call.j, cap) /\ map_pointer(It(call.j)) \in Slots(cap)
        <3>1. CASE call.j = size
            BY <1>1, <2>2, <3>1, Iterator, IInvFacts DEF map_pointer
        <3>2. CASE call.j < size
            BY <1>1, <3>2, Iterator DEF map_pointer, It
        <3> QED
            BY <1>1, <3>1, <3>2, IInvFacts
    <2>4. Index(src', first', cap') = call.i
        BY <1>3, <2>2 DEF object
    <2>5. call.j - call.i \in 1 .. size - call.i /\ call.i + (call.j - call.i) = call.j
        BY <1>1, <2>1, IInvFacts
    <2>6. REraseRangeLoop'
        BY <1>1, <1>3, <2>2, <2>3, <2>4, <2>5 DEF object, REraseRangeLoop, Settled, Goto
    <2> QED
        BY <1>1, <1>3, <2>6, IInvFacts, UnchangedShape, LoopIInv DEF Goto
<1> QED
    BY <1>2, <1>3 DEF REraseRange

\* Where the loops of rerase(first, last) are.
LEMMA REraseRangeFacts ==
    ASSUME IInv, REraseRangeLoop
    PROVE  /\ cap \in Nat \ {0} /\ first \in Slots(cap) /\ size \in 1 .. cap
           /\ src \in Slots(cap) /\ Index(src, first, cap) \in 0 .. size - 1
           /\ call.j - call.i \in 1 .. size
           /\ Index(src, first, cap) + (call.j - call.i) \in 1 .. size
<1>1. cap \in Nat \ {0} /\ first \in Slots(cap) /\ size \in 0 .. cap
    BY IInvFacts DEF REraseRangeLoop, Window, Slots
<1>2. size \in 1 .. cap /\ src \in Slots(cap) /\ Index(src, first, cap) \in 0 .. size - 1
    BY <1>1, WindowNeighbours DEF REraseRangeLoop
<1> QED
    BY <1>1, <1>2 DEF REraseRangeLoop

LEMMA REraseRangeShiftIInv == IInv /\ REraseRangeShift => IInv'
<1> SUFFICES ASSUME IInv, REraseRangeShift PROVE IInv'
    OBVIOUS
<1> DEFINE d == call.j - call.i
           k == Index(src, first, cap)
<1>1. REraseRangeLoop /\ Settled /\ Shape /\ fault = FALSE /\ src # first
    BY IInvFacts DEF REraseRangeShift, IInv, LoopInvariants, REraseRangeLoop
<1>2. CASE Throw /\ UNCHANGED <<object, fault>>
    BY <1>1, <1>2, NothingDone
<1>3. CASE /\ src' = Decrement(src, cap) /\ dest' = Decrement(dest, cap)
           /\ MoveTo(FALSE, dest', src') /\ Goto("rerase_range")
           /\ UNCHANGED <<cap, first, last, size, pos, construct, count, nbuf>>
    <2>1. src' \in Window(first, size, cap) /\ Index(src', first, cap) = k - 1
        BY <1>1, <1>3, REraseRangeFacts, WindowNeighbours DEF REraseRangeLoop
    <2>2. k - 1 + d \in 0 .. size - 1 /\ k + d \in 1 .. cap /\ k - 1 + d = (k + d) - 1
        BY <1>1, REraseRangeFacts
    <2>3. dest' = Add(first, k - 1 + d, cap)
        BY <1>1, <1>3, <2>2, REraseRangeFacts, AddInRing DEF REraseRangeLoop
    <2>4. dest' \in Window(first, size, cap)
        BY <1>1, <2>2, <2>3, REraseRangeFacts, AddInRing DEF Window
    <2>5. Shape' /\ Settled' /\ fault' = FALSE
        BY <1>1, <1>3, <2>1, <2>4, AssignInWindow DEF Settled
    <2>6. d \in 1 .. size - (k - 1)
        BY <1>1, REraseRangeFacts
    <2>7. REraseRangeLoop'
        BY <1>1, <1>3, <2>1, <2>3, <2>5, <2>6 DEF REraseRangeLoop, Goto
    <2> QED
        BY <1>3, <2>5, <2>7, IInvFacts, LoopIInv DEF Goto
<1> QED
    BY <1>2, <1>3 DEF REraseRangeShift

LEMMA REraseRangeHeadIInv == IInv /\ REraseRangeHead => IInv'
<1> SUFFICES ASSUME IInv, REraseRangeHead PROVE IInv'
    OBVIOUS
<1>1. Settled /\ Shape /\ fault = FALSE /\ pos \in Slots(cap)
    BY IInvFacts DEF REraseRangeHead, IInv, LoopInvariants, REraseRangeLoop, REraseHeadLoop
<1>2. /\ cap \in Nat \ {0} /\ first \in Slots(cap) /\ size \in 1 .. cap
      /\ \E n \in 1 .. size : dest = Add(first, n, cap)
    <2>1. CASE pc = "rerase_range" /\ src = first
        <3>1. REraseRangeLoop
            BY <2>1 DEF IInv, LoopInvariants
        <3>2. Index(src, first, cap) = 0
            BY <2>1, <3>1, REraseRangeFacts, IndexInRing
        <3> QED
            BY <3>1, <3>2, REraseRangeFacts DEF REraseRangeLoop
    <2>2. CASE pc = "rerase_head"
        <3>1. REraseHeadLoop
            BY <2>2 DEF IInv, LoopInvariants
        <3>2. cap \in Nat \ {0} /\ first \in Slots(cap) /\ size \in 0 .. cap
            BY <3>1, IInvFacts DEF REraseHeadLoop, Slots
        <3>3. Index(dest, first, cap) \in 1 .. size /\ dest = Add(first, Index(dest, first, cap), cap)
            BY <3>1, <3>2, IndexInRing DEF REraseHeadLoop
        <3> QED
            BY <3>2, <3>3
    <2> QED
        BY <2>1, <2>2 DEF REraseRangeHead
<1>3. Shape' /\ Settled' /\ fault' = FALSE
    <2>1. /\ UNCHANGED <<cap, last>> /\ first' = Increment(first, cap)
          /\ Destroy(first) /\ size' = size - 1
        BY DEF REraseRangeHead
    <2>2. size > 0
        BY <1>2
    <2> QED
        BY <1>1, <2>1, <2>2, DropFront
<1>4. first' \in Slots(cap) /\ cap' = cap /\ size' = size - 1 /\ Decrement(pos, cap) \in Slots(cap)
    BY <1>1, <1>2, StepInRing DEF REraseRangeHead
<1>5. CASE first' # dest
    <2>1. UNCHANGED locals /\ Goto("rerase_head")
        BY <1>5 DEF REraseRangeHead
    <2>2. PICK n \in 1 .. size : dest = Add(first, n, cap)
        BY <1>2
    <2>3. dest \in Slots(cap) /\ Index(dest, first', cap) = n - 1
        BY <1>2, <2>2, CloserToFirst DEF REraseRangeHead
    <2>4. REraseHeadLoop'
        BY <1>1, <1>2, <1>3, <1>4, <1>5, <2>1, <2>2, <2>3 DEF REraseHeadLoop, locals
    <2> QED
        BY <1>3, <2>1, <2>4, IInvFacts, LoopIInv DEF Goto, locals
<1>6. CASE first' = dest
    <2>1. Return(IF first' # pos THEN Decrement(pos, cap) ELSE IF size' = 0 THEN NULL ELSE first')
        BY <1>6 DEF REraseRangeHead
    <2> QED
        BY <1>3, <1>4, <2>1, ReturnIInv
<1> QED
    BY <1>5, <1>6

---------------------------------------------------------------------------
(* set_capacity and rset_capacity                                          *)

\* Iterators to different positions differ, and ++ takes one to the next.
LEMMA IteratorSteps ==
    ASSUME Shape, NEW j \in 0 .. size, NEW k \in 0 .. size
    PROVE  /\ It(j) = It(k) => j = k
           /\ k < size => IterNext(It(k)) = It(k + 1)
<1>1. size \in Nat
    BY CapacityAssumption DEF Shape
<1>2. It(j) = It(k) => j = k
    BY <1>1, Iterator
<1>3. ASSUME k < size PROVE IterNext(It(k)) = It(k + 1)
    <2>1. /\ cap \in Nat \ {0} /\ first \in Slots(cap) /\ size \in 0 .. cap /\ last = Add(first, size, cap)
          /\ k \in 0 .. cap - 1
        BY <1>3, CapacityAssumption DEF Shape, PointersAgree, Pointers
    <2>2. Increment(It(k), cap) = Add(first, k + 1, cap)
        BY <1>3, <2>1, AddInRing DEF It
    <2>3. CASE k + 1 = size
        BY <2>1, <2>2, <2>3 DEF IterNext, It
    <2>4. CASE k + 1 < size
        <3>1. It(k) \in Window(first, size, cap) /\ Index(It(k), first, cap) = k
            BY <1>3, Iterator
        <3>2. Increment(It(k), cap) # last
            BY <2>1, <2>4, <3>1, WindowNeighbours
        <3> QED
            BY <2>1, <2>2, <2>4, <3>2 DEF IterNext, It
    <2> QED
        BY <1>1, <1>3, <2>3, <2>4
<1> QED
    BY <1>2, <1>3

\* The ends of what is relocated: begin() + m, and end() - m.
LEMMA RelocatedEnds ==
    ASSUME Shape, NEW m \in 0 .. size
    PROVE  begin = It(0) /\ IterAdd(begin, m) = It(m) /\ NULL = It(size) /\ IterSub(NULL, m) = It(size - m)
<1>1. /\ size \in Nat /\ begin = It(0) /\ NULL = It(size)
    BY CapacityAssumption, Iterator DEF Shape
<1>2. CASE m = 0
    BY <1>1, <1>2 DEF IterAdd, IterSub
<1>3. CASE m > 0
    <2>1. /\ cap \in Nat \ {0} /\ first \in Slots(cap) /\ size \in 1 .. cap /\ last = Add(first, size, cap)
          /\ m \in 1 .. size /\ m # 0
        BY <1>3, CapacityAssumption DEF Shape, PointersAgree, Pointers
    <2>2. begin = first
        BY <2>1 DEF begin, empty
    <2>3. IterSub(NULL, m) = It(size - m)
        BY <2>1, SubIsAdd DEF IterSub, map_pointer, It
    <2>4. CASE m = size
        BY <2>1, <2>2, <2>3, <2>4, <1>1 DEF IterAdd
    <2>5. CASE m < size
        <3>1. Index(Add(first, m, cap), first, cap) = m /\ m \in 1 .. cap - 1
            BY <2>1, <2>5, AddInRing
        <3>2. Add(first, m, cap) # last
            <4>1. size < cap => Index(last, first, cap) = size
                BY <2>1, AddInRing
            <4>2. size = cap => Index(last, first, cap) = 0
                BY <2>1, AddInRing, IndexInRing
            <4> QED
                BY <2>1, <2>5, <3>1, <4>1, <4>2
        <3> QED
            BY <1>1, <2>1, <2>2, <2>3, <2>5, <3>2 DEF IterAdd, It
    <2> QED
        BY <2>1, <2>4, <2>5
<1> QED
    BY <1>1, <1>2, <1>3

\* Entering the loop that fills the new buffer.
LEMMA RelocateStarts ==
    ASSUME IInv, pc = "enter", call \in Calls, call.op \in {"set_capacity", "rset_capacity"},
           Relocate(call.i,
                    IF call.op = "set_capacity" THEN begin ELSE IterSub(NULL, Lesser(call.i, size)),
                    IF call.op = "set_capacity" THEN IterAdd(begin, Lesser(call.i, size)) ELSE NULL)
    PROVE  IInv'
<1> DEFINE m == Lesser(call.i, size)
           skip == IF call.op = "set_capacity" THEN 0 ELSE size - m
           f == IF call.op = "set_capacity" THEN begin ELSE IterSub(NULL, m)
           l == IF call.op = "set_capacity" THEN IterAdd(begin, m) ELSE NULL
<1>1. Settled /\ Shape /\ fault = FALSE /\ size \in Nat /\ call.i \in 0 .. MaxCapacity /\ call.i \in Nat
    BY IInvFacts, CallArguments, CapacityAssumption DEF IInv, LoopInvariants
<1>2. CASE UNCHANGED <<object, fault>> /\ (Return(NoIter) \/ Throw)
    BY <1>1, <1>2, NothingDone
<1>3. CASE /\ nbuf' = [p \in Slots(call.i) |-> Raw] /\ src' = f /\ pos' = l /\ dest' = 0
           /\ Goto("relocate") /\ UNCHANGED <<object, construct, count, fault>>
    <2>1. m \in 0 .. size /\ m \in 0 .. call.i
        BY <1>1 DEF Lesser
    <2>2. f = It(skip) /\ l = It(skip + m) /\ skip + 0 = skip
        BY <1>1, <2>1, RelocatedEnds
    <2>3. It(skip)' = It(skip) /\ It(skip + m)' = It(skip + m) /\ call' = call /\ size' = size
        BY <1>3 DEF It, object, Goto
    <2>4. nbuf' \in [Slots(call.i) -> Cell] /\ Live(nbuf') = {} /\ 0 .. 0 - 1 = {}
        BY <1>3 DEF Cell, Live
    <2>5. Settled'
        BY <1>1, <1>3, UnchangedShape
    <2>6. RelocateLoop'
        BY <1>1, <1>3, <2>1, <2>2, <2>3, <2>4, <2>5 DEF RelocateLoop
    <2> QED
        BY <1>1, <1>3, <2>6, IInvFacts, UnchangedShape, LoopIInv DEF Goto
<1> QED
    BY <1>2, <1>3 DEF Relocate

LEMMA SetCapacityIInv == IInv /\ SetCapacity => IInv'
BY RelocateStarts DEF SetCapacity, Enter, IInv, LoopInvariants

LEMMA RSetCapacityIInv == IInv /\ RSetCapacity => IInv'
BY RelocateStarts DEF RSetCapacity, Enter, IInv, LoopInvariants

LEMMA RelocateOneIInv == IInv /\ RelocateOne => IInv'
<1> SUFFICES ASSUME IInv, RelocateOne PROVE IInv'
    OBVIOUS
<1> DEFINE m == Lesser(call.i, size)
           skip == IF call.op = "set_capacity" THEN 0 ELSE size - m
<1>1. RelocateLoop /\ Settled /\ Shape /\ fault = FALSE /\ src # pos
    BY IInvFacts DEF RelocateOne, IInv, LoopInvariants, RelocateLoop
<1>2. CASE Throw /\ UNCHANGED object /\ fault' = (fault \/ Live(nbuf) # 0 .. dest - 1)
    BY <1>1, <1>2, NothingDone DEF RelocateLoop
<1>3. CASE /\ nbuf' = [nbuf EXCEPT ![dest] = mem[src]]
           /\ mem' = [mem EXCEPT ![src] = MovedFrom(@)]
           /\ fault' = (fault \/ nbuf[dest] # Raw \/ mem[src] = Raw)
           /\ src' = IterNext(src) /\ dest' = dest + 1 /\ Goto("relocate")
           /\ UNCHANGED <<cap, first, last, size, pos, construct, count>>
    <2>1. /\ call.i \in Nat /\ size \in Nat /\ size <= cap /\ cap \in Nat
          /\ m \in 0 .. size /\ m <= call.i /\ dest \in 0 .. m /\ skip \in 0 .. size - m
        BY <1>1, CapacityAssumption, IInvFacts DEF RelocateLoop, Lesser
    <2>2. dest < m
        BY <1>1, <2>1 DEF RelocateLoop
    <2>3. /\ skip + dest \in 0 .. size /\ skip + dest < size /\ skip + dest + 1 = skip + (dest + 1)
          /\ dest \in Slots(call.i)
        BY <2>1, <2>2 DEF Slots
    <2>4. /\ src \in Live(mem) /\ src \in Slots(cap) /\ src = It(skip + dest)
          /\ src' = It(skip + (dest + 1))
        BY <1>1, <1>3, <2>3, Iterator, IteratorSteps DEF RelocateLoop, Settled
    <2>5. mem[src] \in Cell /\ mem[src] # Raw /\ mem \in [Slots(cap) -> Cell]
        BY <1>1, <2>1, <2>4 DEF Shape, Live
    <2>6. MovedFrom(mem[src]) \in Cell /\ MovedFrom(mem[src]) # Raw
        BY <2>5, MovedFromIsLive
    <2>7. mem' \in [Slots(cap) -> Cell] /\ Live(mem') = Live(mem)
        <3>1. mem' = [mem EXCEPT ![src] = MovedFrom(mem[src])]
            BY <1>3
        <3>2. mem' \in [Slots(cap) -> Cell] /\ Live(mem') = Live(mem) \cup {src}
            BY <2>1, <2>4, <2>5, <2>6, <3>1, LiveUpdate
        <3> QED
            BY <2>4, <3>2
    <2>8. /\ nbuf' \in [Slots(call.i) -> Cell] /\ Live(nbuf') = Live(nbuf) \cup {dest}
          /\ nbuf[dest] = Raw
        <3> DEFINE c == call.i
                   v == mem[src]
        <3>1. /\ c \in Nat /\ dest \in Slots(c) /\ v \in Cell /\ v # Raw
              /\ nbuf \in [Slots(c) -> Cell] /\ dest \notin Live(nbuf)
            BY <1>1, <2>1, <2>3, <2>5 DEF RelocateLoop
        <3>2. nbuf' = [nbuf EXCEPT ![dest] = v]
            BY <1>3
        <3> HIDE DEF c, v
        <3>3. nbuf' \in [Slots(c) -> Cell] /\ Live(nbuf') = Live(nbuf) \cup {dest} /\ nbuf[dest] = Raw
            BY <3>1, <3>2, LiveUpdate
        <3> QED
            BY <3>3 DEF c
    <2>9. Live(nbuf') = 0 .. (dest + 1) - 1
        BY <1>1, <2>1, <2>8 DEF RelocateLoop
    <2>10. Shape' /\ Settled' /\ fault' = FALSE
        BY <1>1, <1>3, <2>5, <2>7, <2>8 DEF Shape, Settled, PointersAgree
    <2>11. call' = call /\ size' = size /\ It(skip + m)' = It(skip + m)
        BY <1>3 DEF It, Goto
    <2>12. RelocateLoop'
        <3>1. src' = It(skip + dest)'
            BY <1>3, <2>4, <2>11 DEF It
        <3>2. pos' = It(skip + m)'
            BY <1>1, <1>3, <2>11 DEF RelocateLoop
        <3>3. dest' \in 0 .. m
            BY <1>3, <2>1, <2>2
        <3> QED
            BY <1>1, <1>3, <2>8, <2>9, <2>10, <2>11, <3>1, <3>2, <3>3 DEF RelocateLoop
    <2> QED
        BY <1>3, <2>10, <2>12, IInvFacts, LoopIInv DEF Goto
<1> QED
    BY <1>2, <1>3 DEF RelocateOne

LEMMA ResetIInv == IInv /\ Reset => IInv'
<1> SUFFICES ASSUME IInv, Reset PROVE IInv'
    OBVIOUS
<1>1. RelocateLoop /\ Settled /\ Shape /\ fault = FALSE /\ size \in Nat
    BY IInvFacts DEF Reset, IInv, LoopInvariants, RelocateLoop
<1>2. call.i \in Nat /\ call.i \in 0 .. MaxCapacity /\ dest \in 0 .. call.i
    BY <1>1, CapacityAssumption DEF RelocateLoop, Lesser
<1>3. 0 \in Pointers(call.i) /\ last' \in Pointers(call.i) /\ last' = Add(0, dest, call.i)
    BY <1>2 DEF Reset, Pointers, Slots, Add
<1>4. Window(0, dest, call.i) = 0 .. dest - 1
    BY <1>2, <1>3, WindowBounds
<1>5. Shape' /\ Settled' /\ fault' = FALSE
    BY <1>1, <1>2, <1>3, <1>4 DEF Reset, Shape, Settled, PointersAgree, RelocateLoop
<1> QED
    BY <1>5, ReturnIInv DEF Reset

---------------------------------------------------------------------------
(* rotate                                                                  *)

LEMMA RotateIInv == IInv /\ Rotate => IInv'
<1> SUFFICES ASSUME IInv, Rotate PROVE IInv'
    OBVIOUS
<1>1. /\ call.i \in 0 .. size - 1 /\ call.i \in 0 .. size /\ call.i < size
      /\ Settled /\ Shape /\ fault = FALSE /\ size \in Nat
    BY IInvFacts, CallArguments DEF Rotate, Enter, LoopInvariants, IInv
<1>2. CASE full
    <2>1. /\ cap \in Nat \ {0} /\ first \in Slots(cap) /\ size = cap
          /\ It(call.i) \in Slots(cap)
        BY <1>1, <1>2, Iterator, CapacityAssumption DEF full, Shape, Pointers
    <2>2. /\ first' = It(call.i) /\ last' = It(call.i) /\ Return(NoIter)
          /\ UNCHANGED <<cap, size, mem, fault>>
        BY <1>2 DEF Rotate
    <2>3. last' = Add(first', size, cap)
        BY <2>1, <2>2, AddInRing
    <2>4. Live(mem) = Window(first', size, cap)
        BY <1>1, <2>1, <2>2, WindowBounds DEF Settled, Pointers
    <2>5. Shape' /\ Settled'
        BY <1>1, <2>1, <2>2, <2>3, <2>4 DEF Shape, Settled, PointersAgree, Pointers
    <2> QED
        BY <1>1, <2>2, <2>5, ReturnIInv
<1>3. CASE ~full
    <2>1. /\ count' = Lesser(size - call.i, call.i) /\ construct' = (size - call.i < call.i)
          /\ Goto("rotate") /\ UNCHANGED <<object, pos, src, dest, nbuf, fault>>
        BY <1>3 DEF Rotate
    <2>2. count' \in Nat /\ size > 0
        BY <1>1, <2>1 DEF Lesser
    <2>3. RotateLoop'
        BY <1>1, <1>3, <2>1, <2>2, UnchangedShape DEF RotateLoop, full, object
    <2> QED
        BY <1>1, <2>1, <2>2, <2>3, IInvFacts, UnchangedShape, LoopIInv DEF Goto
<1> QED
    BY <1>2, <1>3

\* What one turn of rotate starts from.
LEMMA RotateFacts ==
    ASSUME IInv, pc = "rotate", count > 0
    PROVE  /\ Shape /\ Settled /\ ~full /\ fault = FALSE /\ cap \in Nat \ {0}
           /\ size \in 1 .. cap - 1 /\ first \in Slots(cap) /\ last = Add(first, size, cap)
           /\ last \in Slots(cap) /\ count - 1 \in Nat
BY IInvFacts DEF IInv, LoopInvariants, RotateLoop, full

\* The memory after an element went from slot s to the free slot d.
LEMMA CarriedOver ==
    ASSUME Shape, NEW s \in Live(mem), NEW d \in Slots(cap), d \notin Live(mem),
           mem' = [mem EXCEPT ![d] = mem[s], ![s] = Raw]
    PROVE  /\ mem' \in [Slots(cap) -> Cell] /\ mem[d] = Raw /\ mem[s] # Raw
           /\ Live(mem') = (Live(mem) \cup {d}) \ {s}
<1> DEFINE v == mem[s]
           m == [mem EXCEPT ![d] = v]
<1>1. /\ cap \in Nat /\ s \in Slots(cap) /\ v \in Cell /\ v # Raw /\ Raw \in Cell
      /\ mem \in [Slots(cap) -> Cell]
    BY CapacityAssumption DEF Shape, Live, Cell
<1>2. mem' = [m EXCEPT ![s] = Raw]
    OBVIOUS
<1> HIDE DEF v
<1>3. m \in [Slots(cap) -> Cell] /\ Live(m) = Live(mem) \cup {d} /\ mem[d] = Raw
    BY <1>1, LiveUpdate
<1> HIDE DEF m
<1>4. mem' \in [Slots(cap) -> Cell] /\ Live(mem') = Live(m) \ {s}
    <2>1. /\ [m EXCEPT ![s] = Raw] \in [Slots(cap) -> Cell]
          /\ Live([m EXCEPT ![s] = Raw]) = Live(m) \ {s}
        BY <1>1, <1>3, LiveUpdate
    <2> QED
        BY <1>2, <2>1
<1>5. mem[s] # Raw
    BY <1>1 DEF v
<1> QED
    BY <1>3, <1>4, <1>5

LEMMA RotateBackIInv == IInv /\ RotateBack => IInv'
<1> SUFFICES ASSUME IInv, RotateBack PROVE IInv'
    OBVIOUS
<1> DEFINE b == Decrement(last, cap)
           f == Decrement(first, cap)
<1>1. /\ Shape /\ Settled /\ ~full /\ fault = FALSE /\ cap \in Nat \ {0}
      /\ size \in 1 .. cap - 1 /\ first \in Slots(cap) /\ last = Add(first, size, cap)
      /\ last \in Slots(cap) /\ count - 1 \in Nat
    BY RotateFacts DEF RotateBack
<1>2. CASE Throw /\ UNCHANGED <<object, fault>>
    BY <1>1, <1>2, NothingDone
<1>3. CASE /\ mem' = [mem EXCEPT ![f] = mem[b], ![b] = Raw]
           /\ fault' = (fault \/ mem[f] # Raw \/ mem[b] = Raw)
           /\ first' = f /\ last' = b /\ count' = count - 1 /\ Goto("rotate")
           /\ UNCHANGED <<cap, size, pos, src, dest, construct, nbuf>>
    <2>1. f \in Slots(cap) /\ b \in Slots(cap) /\ size \in 0 .. cap - 1 /\ size + 1 \in 1 .. cap
        BY <1>1, StepInRing
    <2>2. /\ f \notin Live(mem) /\ Live(mem) \cup {f} = Window(f, size + 1, cap)
          /\ Add(f, size + 1, cap) = last
        BY <1>1, <2>1, WindowGrows, FirstMoves DEF Settled
    <2>3. b \in Live(mem)
        BY <1>1, WindowShrinks DEF Settled
    <2>4. /\ mem' \in [Slots(cap) -> Cell] /\ fault' = FALSE
          /\ Live(mem') = (Live(mem) \cup {f}) \ {b}
        BY <1>1, <1>3, <2>1, <2>2, <2>3, CarriedOver
    <2>5. Window(f, size, cap) = Window(f, size + 1, cap) \ {b} /\ b = Add(f, size, cap)
        <3>1. size = (size + 1) - 1
            BY <1>1
        <3> QED
            BY <1>1, <2>1, <2>2, <3>1, WindowShrinks, AddInRing
    <2>6. Shape' /\ Settled'
        BY <1>1, <1>3, <2>1, <2>2, <2>4, <2>5 DEF Shape, Settled, PointersAgree, Pointers
    <2>7. RotateLoop'
        BY <1>1, <1>3, <2>6 DEF RotateLoop, full
    <2> QED
        BY <1>1, <1>3, <2>4, <2>6, <2>7, IInvFacts, LoopIInv DEF Goto
<1> QED
    BY <1>2, <1>3 DEF RotateBack

LEMMA RotateFrontIInv == IInv /\ RotateFront => IInv'
<1> SUFFICES ASSUME IInv, RotateFront PROVE IInv'
    OBVIOUS
<1>1. /\ Shape /\ Settled /\ ~full /\ fault = FALSE /\ cap \in Nat \ {0}
      /\ size \in 1 .. cap - 1 /\ first \in Slots(cap) /\ last = Add(first, size, cap)
      /\ last \in Slots(cap) /\ count - 1 \in Nat
    BY RotateFacts DEF RotateFront
<1>2. CASE Throw /\ UNCHANGED <<object, fault>>
    BY <1>1, <1>2, NothingDone
<1>3. CASE /\ mem' = [mem EXCEPT ![last] = mem[first], ![first] = Raw]
           /\ fault' = (fault \/ mem[last] # Raw \/ mem[first] = Raw)
           /\ first' = Increment(first, cap) /\ last' = Increment(last, cap)
           /\ count' = count - 1 /\ Goto("rotate")
           /\ UNCHANGED <<cap, size, pos, src, dest, construct, nbuf>>
    <2>1. size \in 0 .. cap - 1 /\ size + 1 \in 1 .. cap /\ size = (size + 1) - 1
        BY <1>1
    <2>2. /\ last \notin Live(mem) /\ Live(mem) \cup {last} = Window(first, size + 1, cap)
          /\ first' \in Slots(cap) /\ last' \in Slots(cap)
        <3>1. first' \in Slots(cap) /\ last' \in Slots(cap)
            BY <1>1, <1>3, StepInRing
        <3> QED
            BY <1>1, <2>1, <3>1, WindowGrows DEF Settled
    <2>3. first \in Live(mem)
        BY <1>1, WindowShrinks DEF Settled
    <2>4. /\ mem' \in [Slots(cap) -> Cell] /\ fault' = FALSE
          /\ Live(mem') = (Live(mem) \cup {last}) \ {first}
        BY <1>1, <1>3, <2>2, <2>3, CarriedOver
    <2>5. Window(first', size, cap) = Window(first, size + 1, cap) \ {first}
        BY <1>1, <1>3, <2>1, WindowShrinks
    <2>6. last' = Add(first', size, cap)
        BY <1>1, <1>3, <2>1, FirstMoves, AddInRing
    <2>7. Shape' /\ Settled'
        BY <1>1, <1>3, <2>1, <2>2, <2>4, <2>5, <2>6 DEF Shape, Settled, PointersAgree, Pointers
    <2>8. RotateLoop'
        BY <1>1, <1>3, <2>7 DEF RotateLoop, full
    <2> QED
        BY <1>1, <1>3, <2>4, <2>7, <2>8, IInvFacts, LoopIInv DEF Goto
<1> QED
    BY <1>2, <1>3 DEF RotateFront

LEMMA RotateDoneIInv == IInv /\ RotateDone => IInv'
BY IInvFacts, NothingDone DEF RotateDone, IInv, LoopInvariants, RotateLoop

---------------------------------------------------------------------------
(* The theorems.                                                           *)

LEMMA StutterIInv == IInv /\ UNCHANGED vars => IInv'
<1> SUFFICES ASSUME IInv, UNCHANGED vars PROVE IInv'
    OBVIOUS
<1>1. /\ UNCHANGED <<cap, first, last, size, mem, pos, src, dest>>
      /\ UNCHANGED <<construct, count, nbuf, pc, call, ret, threw, old, fault>>
    BY DEF vars, object, locals
<1>2. TypeOK' /\ PointersAgree' /\ NoLifecycleFault'
    BY <1>1 DEF IInv, TypeOK, PointersAgree, NoLifecycleFault
<1>3. LoopInvariants'
    <2>1. Calls' = Calls
        BY <1>1 DEF Calls, Legal, empty
    <2>2. /\ Settled' = Settled /\ InsertLoop' = InsertLoop /\ RInsertLoop' = RInsertLoop
          /\ EraseLoop' = EraseLoop /\ EraseRangeLoop' = EraseRangeLoop
          /\ REraseLoop' = REraseLoop /\ REraseRangeLoop' = REraseRangeLoop
          /\ REraseHeadLoop' = REraseHeadLoop /\ RotateLoop' = RotateLoop
        BY <1>1 DEF Settled, InsertLoop, RInsertLoop, EraseLoop, EraseRangeLoop, REraseLoop,
                    REraseRangeLoop, REraseHeadLoop, RotateLoop, full
    <2>3. RelocateLoop' = RelocateLoop
        BY <1>1 DEF RelocateLoop, It, Settled
    <2> QED
        BY <1>1, <2>1, <2>2, <2>3 DEF IInv, LoopInvariants
<1> QED
    BY <1>2, <1>3 DEF IInv

\* Every step of every operation preserves the invariant: each loop keeps its
\* own, and each handler restores what the idle state requires.
THEOREM Inductive == IInv /\ [Next]_vars => IInv'
<1>1. IInv /\ Body => IInv'
    BY PushBackIInv, PushFrontIInv, PopBackIInv, PopFrontIInv, ClearIInv,
       InsertIInv, InsertShiftIInv, InsertItemIInv, RInsertIInv,
       RInsertShiftIInv, RInsertItemIInv, EraseIInv, EraseShiftIInv,
       EraseLastIInv, EraseRangeIInv, EraseRangeShiftIInv,
       EraseRangeTailIInv, REraseIInv, REraseShiftIInv, REraseFirstIInv,
       REraseRangeIInv, REraseRangeShiftIInv, REraseRangeHeadIInv,
       SetCapacityIInv, RSetCapacityIInv, RelocateOneIInv, ResetIInv,
       RotateIInv, RotateBackIInv, RotateFrontIInv, RotateDoneIInv
       DEF Body
<1> QED
    BY <1>1, InvokeIInv, StutterIInv DEF Next

\* The invariant of the loops holds in every reachable state.
THEOREM InvariantHolds == Spec => []IInv
<1>1. Init => IInv
    BY InitIInv
<1>2. IInv /\ [Next]_vars => IInv'
    BY Inductive
<1> QED
    BY <1>1, <1>2, PTL DEF Spec

\* The members stay in their ranges: m_first and m_last never leave the buffer.
THEOREM TypeCorrect == Spec => []TypeOK
<1>1. IInv => TypeOK
    BY DEF IInv
<1> QED
    BY <1>1, InvariantHolds, PTL

\* m_last is m_size slots behind m_first at every point of every operation.
THEOREM PointersAlwaysAgree == Spec => []PointersAgree
<1>1. IInv => PointersAgree
    BY DEF IInv
<1> QED
    BY <1>1, InvariantHolds, PTL

\* No operation constructs over an element or touches an uninitialized slot,
\* whatever throws, for every capacity and every element type.
THEOREM LifecycleSafe == Spec => []NoLifecycleFault
<1>1. IInv => NoLifecycleFault
    BY DEF IInv
<1> QED
    BY <1>1, InvariantHolds, PTL

\* Between the calls the live slots are exactly the window: no operation and
\* no handler leaks an element or claims a free slot.
THEOREM WindowIsLive == Spec => []LiveIsWindow
<1>1. IInv => LiveIsWindow
    BY DEF IInv, LoopInvariants, LiveIsWindow
<1> QED
    BY <1>1, InvariantHolds, PTL

---------------------------------------------------------------------------
(***************************************************************************)
(* The refinement.  CircularBuffer implements BoundedDeque: whatever a     *)
(* call does slot by slot, its caller sees the one step that               *)
(* DequeOperations defines, or the effect of an exception that it allows.  *)
(*                                                                         *)
(* The invariant says, for each loop, which element of the contents at the *)
(* time of the call is at which position now.  What an exception leaves    *)
(* follows from it too.                                                    *)
(***************************************************************************)
---------------------------------------------------------------------------
(* The invariant.                                                          *)

\* The call in progress and what it found.
CallFits ==
    LET n == Len(old) IN
    /\ call \in [op : Operations, i : Nat, j : Nat, x : Cell]
    /\ call.op \in {"push_back", "push_front"} => call.x \in Value
    /\ call.op \in {"pop_back", "pop_front"} => n > 0
    /\ call.op \in {"insert", "rinsert"} => call.x \in Value /\ call.i \in 0 .. n
    /\ call.op \in {"erase", "rerase", "rotate"} => call.i \in 0 .. n - 1
    /\ call.op \in {"erase_range", "rerase_range"} => call.i \in 0 .. n /\ call.j \in call.i .. n
    /\ call.op \in {"set_capacity", "rset_capacity"} => call.i \in 0 .. MaxCapacity

\* The operation whose loop this is.
RightLoop ==
    /\ pc = "insert"       => call.op = "insert"
    /\ pc = "rinsert"      => call.op = "rinsert"
    /\ pc = "erase"        => call.op = "erase"
    /\ pc = "erase_range"  => call.op = "erase_range"
    /\ pc = "rerase"       => call.op = "rerase"
    /\ pc = "rerase_range" => call.op = "rerase_range"
    /\ pc = "rerase_head"  => call.op = "rerase_range"
    /\ pc = "relocate"     => call.op \in {"set_capacity", "rset_capacity"}
    /\ pc = "rotate"       => call.op = "rotate"

CallInv ==
    /\ pc = "idle" => call = NoCall
    /\ pc # "idle" => /\ ret = NoIter /\ threw = FALSE
                      /\ old \in Seq(Element) /\ Len(old) <= cap
                      /\ CallFits /\ RightLoop

\* Every element is an old one, the item, or was moved from.
Olds == {old[k] : k \in 1 .. Len(old)} \cup {call.x, Moved}
HoldsOld == pc # "idle" => \A p \in Live(mem) : mem[p] \in Olds

\* Position k, counted from m_first, holds what was at position j.
Holds(k, j) == mem[Add(first, k, cap)] = old[j + 1]

\* The same for the positions counted from the slot in front of m_first.
HoldsInFront(k, j) == mem[Add(Decrement(first, cap), k, cap)] = old[j + 1]

\* The elements from j on were shifted by one; the first shift of a full
\* buffer went over its first element.
InsertOrder(j) ==
    /\ size = Len(old) /\ call.i < size /\ (full => call.i > 0)
    /\ pos = Add(first, call.i, cap) /\ src = Add(first, j, cap)
    /\ \A k \in 0 .. j - 1 : (k = 0 /\ full /\ j < size) \/ Holds(k, k)
    /\ \A k \in j + 1 .. size : Holds(k, k - 1)
    /\ (j < size /\ ~NothrowMove) => Holds(j, j)

\* The elements in front of j were shifted by one.
RInsertOrder(j) ==
    /\ size = Len(old) /\ call.i > 0 /\ (full => call.i < size)
    /\ pos = Add(first, call.i, cap) /\ src = Add(first, j, cap)
    /\ \A k \in 0 .. j - 1 : HoldsInFront(k, k)
    /\ \A k \in j + 1 .. size : (k = size /\ full /\ j > 0) \/ HoldsInFront(k, k - 1)
    /\ (j > 0 /\ ~NothrowMove) => HoldsInFront(j, j - 1)

\* The gap is at j.
EraseOrder(j) ==
    /\ size = Len(old)
    /\ pos = Add(first, call.i, cap)
    /\ dest = Add(first, j, cap) /\ src = Add(first, j + 1, cap)
    /\ \A k \in 0 .. call.i - 1 : Holds(k, k)
    /\ \A k \in call.i .. j - 1 : Holds(k, k + 1)
    /\ \A k \in j + 1 .. size - 1 : Holds(k, k)

REraseOrder(j) ==
    /\ size = Len(old)
    /\ pos = Add(first, call.i, cap)
    /\ dest = Add(first, j, cap) /\ src = Decrement(Add(first, j, cap), cap)
    /\ \A k \in 0 .. j - 1 : Holds(k, k)
    /\ \A k \in j + 1 .. call.i : Holds(k, k - 1)
    /\ \A k \in call.i + 1 .. size - 1 : Holds(k, k)

\* t elements were moved over the gap, or all of them and some destroyed.
EraseRangeOrder(t) ==
    LET n == Len(old)
        d == call.j - call.i
    IN  /\ d > 0
        /\ pos = Add(first, call.i, cap)
        /\ dest = Add(first, call.i + t, cap)
        /\ IF t = n - call.j
           THEN src = NULL /\ size \in n - d + 1 .. n
           ELSE src = Add(first, call.j + t, cap) /\ size = n
        /\ \A k \in 0 .. call.i - 1 : Holds(k, k)
        /\ \A k \in call.i .. call.i + t - 1 : Holds(k, k + d)
        /\ \A k \in call.j + t .. n - 1 : Holds(k, k)

REraseRangeOrder(t) ==
    LET n == Len(old)
        d == call.j - call.i
    IN  /\ d > 0 /\ size = n
        /\ pos = Add(first, call.j, cap)
        /\ dest = Add(first, call.j - t, cap) /\ src = Add(first, call.i - t, cap)
        /\ \A k \in 0 .. call.i - t - 1 : Holds(k, k)
        /\ \A k \in call.j - t .. call.j - 1 : Holds(k, k - d)
        /\ \A k \in call.j .. n - 1 : Holds(k, k)

\* w elements are left to destroy in front.
REraseHeadOrder(w) ==
    LET n == Len(old)
        d == call.j - call.i
    IN  /\ size = n - d + w
        /\ pos = Add(first, w + call.i, cap) /\ dest = Add(first, w, cap)
        /\ \A k \in 0 .. call.i - 1 : Holds(w + k, k)
        /\ \A k \in call.i .. n - d - 1 : Holds(w + k, k + d)

\* dest elements were relocated, all that have gone by the first skip ones.
RelocateOrder(skip, m) ==
    /\ size = Len(old)
    /\ \A k \in 0 .. dest - 1 : nbuf[k] = old[skip + k + 1]
    /\ \A k \in 0 .. size - 1 : (NothrowMove /\ k \in skip .. skip + dest - 1) \/ Holds(k, k)

\* The elements have come round by h positions.
RotateOrder(h) ==
    /\ size = Len(old)
    /\ h = (IF construct THEN call.i + count ELSE call.i - count)
    /\ \A k \in 0 .. size - 1 : Holds(k, IF k + h < size THEN k + h ELSE k + h - size)

Order ==
    /\ pc = "enter"        => old = Contents
    /\ pc = "insert"       => \E j \in call.i .. size : InsertOrder(j)
    /\ pc = "rinsert"      => \E j \in 0 .. call.i : RInsertOrder(j)
    /\ pc = "erase"        => \E j \in call.i .. size - 1 : EraseOrder(j)
    /\ pc = "rerase"       => \E j \in 0 .. call.i : REraseOrder(j)
    /\ pc = "erase_range"  => \E t \in 0 .. Len(old) - call.j : EraseRangeOrder(t)
    /\ pc = "rerase_range" => \E t \in 0 .. call.i : REraseRangeOrder(t)
    /\ pc = "rerase_head"  => \E w \in 1 .. call.j - call.i : REraseHeadOrder(w)
    /\ pc = "relocate"     =>
          LET m == Lesser(call.i, size) IN
          RelocateOrder(IF call.op = "set_capacity" THEN 0 ELSE size - m, m)
    /\ pc = "rotate"       => \E h \in 0 .. size : RotateOrder(h)

RInv == IInv /\ CallInv /\ HoldsOld /\ Order

---------------------------------------------------------------------------
(* Facts about sequences of elements.                                      *)

LEMMA PartFacts ==
    ASSUME NEW t \in Seq(Element), NEW m \in 1 .. Len(t) + 1, NEW l \in m - 1 .. Len(t)
    PROVE  /\ SubSeq(t, m, l) \in Seq(Element) /\ Len(SubSeq(t, m, l)) = l - m + 1
           /\ \A k \in 1 .. l - m + 1 : SubSeq(t, m, l)[k] = t[m + k - 1]
<1>1. Len(t) \in Nat
    BY LenProperties
<1>2. m \in Int /\ l \in Int /\ \A k \in m .. l : t[k] \in Element
    BY <1>1, ElementOfSeq
<1>3. /\ SubSeq(t, m, l) \in Seq(Element) /\ Len(SubSeq(t, m, l)) = IF m <= l THEN l - m + 1 ELSE 0
      /\ \A k \in 1 .. l - m + 1 : SubSeq(t, m, l)[k] = t[m + k - 1]
    BY <1>2, SubSeqProperties
<1> QED
    BY <1>1, <1>2, <1>3

\* The first l elements, and those from m on.
LEMMA HeadFacts ==
    ASSUME NEW t \in Seq(Element), NEW l \in 0 .. Len(t)
    PROVE  /\ SubSeq(t, 1, l) \in Seq(Element) /\ Len(SubSeq(t, 1, l)) = l
           /\ \A k \in 1 .. l : SubSeq(t, 1, l)[k] = t[k]
<1>1. Len(t) \in Nat
    BY LenProperties
<1>2. 1 \in 1 .. Len(t) + 1 /\ l \in 1 - 1 .. Len(t) /\ l - 1 + 1 = l
    BY <1>1
<1>3. \A k \in 1 .. l : 1 + k - 1 = k
    BY <1>1
<1>4. /\ SubSeq(t, 1, l) \in Seq(Element) /\ Len(SubSeq(t, 1, l)) = l - 1 + 1
      /\ \A k \in 1 .. l - 1 + 1 : SubSeq(t, 1, l)[k] = t[1 + k - 1]
    BY <1>2, PartFacts
<1> QED
    BY <1>2, <1>3, <1>4

LEMMA RestFacts ==
    ASSUME NEW t \in Seq(Element), NEW m \in 1 .. Len(t) + 1
    PROVE  /\ SubSeq(t, m, Len(t)) \in Seq(Element) /\ Len(SubSeq(t, m, Len(t))) = Len(t) - m + 1
           /\ \A k \in 1 .. Len(t) - m + 1 : SubSeq(t, m, Len(t))[k] = t[m + k - 1]
<1>1. Len(t) \in Nat
    BY LenProperties
<1>2. m \in 1 .. Len(t) + 1 /\ Len(t) \in m - 1 .. Len(t)
    BY <1>1
<1> QED
    BY <1>2, PartFacts

LEMMA JoinFacts ==
    ASSUME NEW t \in Seq(Element), NEW u \in Seq(Element)
    PROVE  /\ t \o u \in Seq(Element) /\ Len(t \o u) = Len(t) + Len(u)
           /\ \A k \in 1 .. Len(t) + Len(u) : (t \o u)[k] = IF k <= Len(t) THEN t[k] ELSE u[k - Len(t)]
BY ConcatProperties, Zenon

\* x put in at i.
LEMMA InsertFactsSeq ==
    ASSUME NEW t \in Seq(Element), NEW i \in 1 .. Len(t) + 1, NEW x \in Element
    PROVE  /\ Deque!InsertAt(t, i, x) \in Seq(Element) /\ Len(Deque!InsertAt(t, i, x)) = Len(t) + 1
           /\ \A k \in 1 .. Len(t) + 1 : Deque!InsertAt(t, i, x)[k] =
                 IF k < i THEN t[k] ELSE IF k = i THEN x ELSE t[k - 1]
<1> DEFINE a == SubSeq(t, 1, i - 1)
           b == <<x>>
           c == SubSeq(t, i, Len(t))
           n == Len(t)
           ab == a \o b
<1>1. n \in Nat
    BY LenProperties
<1>2. a \in Seq(Element) /\ Len(a) = i - 1 /\ \A k \in 1 .. i - 1 : a[k] = t[k]
    <2>1. i - 1 \in 0 .. Len(t)
        BY <1>1
    <2> QED
        BY <2>1, HeadFacts
<1>3. c \in Seq(Element) /\ Len(c) = n - i + 1 /\ \A k \in 1 .. n - i + 1 : c[k] = t[i + k - 1]
    BY <1>1, RestFacts
<1>4. b \in Seq(Element) /\ Len(b) = 1 /\ b[1] = x
    OBVIOUS
<1>5. Deque!InsertAt(t, i, x) = ab \o c
    BY DEF Deque!InsertAt
<1> HIDE DEF a, b, c
<1>6. /\ ab \in Seq(Element) /\ Len(ab) = Len(a) + Len(b)
      /\ \A k \in 1 .. Len(a) + Len(b) : ab[k] = IF k <= Len(a) THEN a[k] ELSE b[k - Len(a)]
    <2>1. a \in Seq(Element) /\ b \in Seq(Element)
        BY <1>2, <1>4
    <2> QED
        BY <2>1, JoinFacts
<1> HIDE DEF ab
<1>7. /\ ab \o c \in Seq(Element) /\ Len(ab \o c) = Len(ab) + Len(c)
      /\ \A k \in 1 .. Len(ab) + Len(c) : (ab \o c)[k] = IF k <= Len(ab) THEN ab[k] ELSE c[k - Len(ab)]
    <2>1. ab \in Seq(Element) /\ c \in Seq(Element)
        BY <1>3, <1>6
    <2> QED
        BY <2>1, JoinFacts
<1>8. Len(ab) = i /\ \A k \in 1 .. i : ab[k] = IF k < i THEN t[k] ELSE x
    <2>1. i \in 1 .. n + 1 /\ Len(ab) = i
        BY <1>1, <1>2, <1>4, <1>6
    <2>2. ASSUME NEW k \in 1 .. i PROVE ab[k] = IF k < i THEN t[k] ELSE x
        <3>1. CASE k < i
            BY <1>2, <1>4, <1>6, <2>1, <3>1
        <3>2. CASE k = i
            <4>1. ~(k <= Len(a)) /\ k - Len(a) = 1 /\ k \in 1 .. Len(a) + Len(b)
                BY <1>1, <1>2, <1>4, <2>1, <3>2
            <4> QED
                BY <1>4, <1>6, <3>2, <4>1
        <3> QED
            BY <1>1, <3>1, <3>2
    <2> QED
        BY <2>1, <2>2
<1>9. ASSUME NEW k \in 1 .. n + 1
      PROVE (ab \o c)[k] = IF k < i THEN t[k] ELSE IF k = i THEN x ELSE t[k - 1]
    <2>1. i \in 1 .. n + 1 /\ k \in 1 .. Len(ab) + Len(c)
        BY <1>1, <1>3, <1>8
    <2>2. CASE k <= i
        BY <1>7, <1>8, <1>1, <2>1, <2>2
    <2>3. CASE k > i
        <3>1. /\ k - i \in 1 .. n - i + 1 /\ i + (k - i) - 1 = k - 1 /\ ~(k <= Len(ab))
              /\ k - Len(ab) = k - i
            BY <1>1, <1>8, <2>1, <2>3
        <3>2. c[k - i] = t[k - 1]
            BY <1>3, <3>1
        <3>3. (ab \o c)[k] = c[k - i]
            BY <1>7, <2>1, <3>1
        <3> QED
            BY <1>1, <2>1, <2>3, <3>2, <3>3
    <2> QED
        BY <1>1, <2>1, <2>2, <2>3
<1>10. Len(ab \o c) = n + 1
    BY <1>1, <1>3, <1>7, <1>8
<1> QED
    BY <1>5, <1>7, <1>9, <1>10

\* t without the elements from i up to j.
LEMMA WithoutFacts ==
    ASSUME NEW t \in Seq(Element), NEW i \in 1 .. Len(t) + 1, NEW j \in i .. Len(t) + 1
    PROVE  /\ Deque!Without(t, i, j) \in Seq(Element) /\ Len(Deque!Without(t, i, j)) = Len(t) - (j - i)
           /\ \A k \in 1 .. Len(t) - (j - i) : Deque!Without(t, i, j)[k] =
                 IF k < i THEN t[k] ELSE t[k + (j - i)]
<1> DEFINE a == SubSeq(t, 1, i - 1)
           c == SubSeq(t, j, Len(t))
           n == Len(t)
<1>1. n \in Nat
    BY LenProperties
<1>2. a \in Seq(Element) /\ Len(a) = i - 1 /\ \A k \in 1 .. i - 1 : a[k] = t[k]
    <2>1. i - 1 \in 0 .. Len(t)
        BY <1>1
    <2> QED
        BY <2>1, HeadFacts
<1>3. c \in Seq(Element) /\ Len(c) = n - j + 1 /\ \A k \in 1 .. n - j + 1 : c[k] = t[j + k - 1]
    BY <1>1, RestFacts
<1>4. Deque!Without(t, i, j) = a \o c
    BY DEF Deque!Without
<1> HIDE DEF a, c
<1>5. /\ a \o c \in Seq(Element) /\ Len(a \o c) = Len(a) + Len(c)
      /\ \A k \in 1 .. Len(a) + Len(c) : (a \o c)[k] = IF k <= Len(a) THEN a[k] ELSE c[k - Len(a)]
    <2>1. a \in Seq(Element) /\ c \in Seq(Element)
        BY <1>2, <1>3
    <2> QED
        BY <2>1, JoinFacts
<1>6. Len(a \o c) = n - (j - i)
    BY <1>1, <1>2, <1>3, <1>5
<1>7. ASSUME NEW k \in 1 .. n - (j - i)
      PROVE (a \o c)[k] = IF k < i THEN t[k] ELSE t[k + (j - i)]
    <2>1. k \in 1 .. Len(a) + Len(c)
        BY <1>1, <1>2, <1>3
    <2>2. CASE k < i
        BY <1>1, <1>2, <1>5, <2>1, <2>2
    <2>3. CASE ~(k < i)
        <3>1. /\ k - (i - 1) \in 1 .. n - j + 1 /\ j + (k - (i - 1)) - 1 = k + (j - i) /\ ~(k <= Len(a))
              /\ k - Len(a) = k - (i - 1)
            BY <1>1, <1>2, <2>3
        <3> QED
            BY <1>3, <1>5, <2>1, <2>3, <3>1
    <2> QED
        BY <2>2, <2>3
<1> QED
    BY <1>4, <1>5, <1>6, <1>7

\* t with its element i in front.
LEMMA TurnedFacts ==
    ASSUME NEW t \in Seq(Element), NEW i \in 1 .. Len(t) + 1
    PROVE  LET r == SubSeq(t, i, Len(t)) \o SubSeq(t, 1, i - 1) IN
           /\ r \in Seq(Element) /\ Len(r) = Len(t)
           /\ \A k \in 1 .. Len(t) : r[k] =
                 IF k + (i - 1) <= Len(t) THEN t[k + (i - 1)] ELSE t[k + (i - 1) - Len(t)]
<1> DEFINE a == SubSeq(t, 1, i - 1)
           c == SubSeq(t, i, Len(t))
           n == Len(t)
<1>1. n \in Nat
    BY LenProperties
<1>2. a \in Seq(Element) /\ Len(a) = i - 1 /\ \A k \in 1 .. i - 1 : a[k] = t[k]
    <2>1. i - 1 \in 0 .. Len(t)
        BY <1>1
    <2> QED
        BY <2>1, HeadFacts
<1>3. c \in Seq(Element) /\ Len(c) = n - i + 1 /\ \A k \in 1 .. n - i + 1 : c[k] = t[i + k - 1]
    BY <1>1, RestFacts
<1> HIDE DEF a, c
<1>5. /\ c \o a \in Seq(Element) /\ Len(c \o a) = Len(c) + Len(a)
      /\ \A k \in 1 .. Len(c) + Len(a) : (c \o a)[k] = IF k <= Len(c) THEN c[k] ELSE a[k - Len(c)]
    <2>1. a \in Seq(Element) /\ c \in Seq(Element)
        BY <1>2, <1>3
    <2> QED
        BY <2>1, JoinFacts
<1>6. Len(c \o a) = n
    BY <1>1, <1>2, <1>3, <1>5
<1>7. ASSUME NEW k \in 1 .. n
      PROVE (c \o a)[k] = IF k + (i - 1) <= n THEN t[k + (i - 1)] ELSE t[k + (i - 1) - n]
    <2>1. k \in 1 .. Len(c) + Len(a)
        BY <1>1, <1>2, <1>3
    <2>2. CASE k + (i - 1) <= n
        <3>1. k \in 1 .. n - i + 1 /\ i + k - 1 = k + (i - 1) /\ k <= Len(c)
            BY <1>1, <1>3, <2>2
        <3> QED
            BY <1>3, <1>5, <2>1, <2>2, <3>1
    <2>3. CASE ~(k + (i - 1) <= n)
        <3>1. /\ k + (i - 1) - n \in 1 .. i - 1 /\ k - Len(c) = k + (i - 1) - n /\ ~(k <= Len(c))
            BY <1>1, <1>3, <2>3
        <3> QED
            BY <1>2, <1>5, <2>1, <2>3, <3>1
    <2> QED
        BY <2>2, <2>3
<1>8. SubSeq(t, i, Len(t)) \o SubSeq(t, 1, i - 1) = c \o a
    BY DEF a, c
<1> QED
    BY <1>5, <1>6, <1>7, <1>8

LEMMA FirstOfFacts ==
    ASSUME NEW t \in Seq(Element), NEW m \in Nat
    PROVE  /\ Deque!FirstOf(t, m) \in Seq(Element) /\ Len(Deque!FirstOf(t, m)) = Lesser(m, Len(t))
           /\ \A k \in 1 .. Lesser(m, Len(t)) : Deque!FirstOf(t, m)[k] = t[k]
<1> DEFINE l == Lesser(m, Len(t))
<1>1. Len(t) \in Nat
    BY LenProperties
<1>2. l \in 0 .. Len(t)
    BY <1>1 DEF Lesser
<1>3. Deque!FirstOf(t, m) = SubSeq(t, 1, l)
    BY DEF Deque!FirstOf, Deque!Lesser, Lesser
<1> HIDE DEF l
<1>4. /\ SubSeq(t, 1, l) \in Seq(Element) /\ Len(SubSeq(t, 1, l)) = l
      /\ \A k \in 1 .. l : SubSeq(t, 1, l)[k] = t[k]
    BY <1>2, HeadFacts
<1> QED
    BY <1>3, <1>4 DEF l

LEMMA LastOfFacts ==
    ASSUME NEW t \in Seq(Element), NEW m \in Nat
    PROVE  /\ Deque!LastOf(t, m) \in Seq(Element) /\ Len(Deque!LastOf(t, m)) = Lesser(m, Len(t))
           /\ \A k \in 1 .. Lesser(m, Len(t)) :
                 Deque!LastOf(t, m)[k] = t[k + (Len(t) - Lesser(m, Len(t)))]
<1> DEFINE l == Lesser(m, Len(t))
           n == Len(t)
           f == n - l + 1
<1>1. n \in Nat
    BY LenProperties
<1>2. l \in 0 .. n
    BY <1>1 DEF Lesser
<1>3. Deque!LastOf(t, m) = SubSeq(t, f, n)
    BY DEF Deque!LastOf, Deque!Lesser, Lesser
<1> HIDE DEF l
<1>4. f \in 1 .. n + 1 /\ n - f + 1 = l /\ \A k \in 1 .. l : f + k - 1 = k + (n - l)
    BY <1>1, <1>2
<1> HIDE DEF f
<1>5. /\ SubSeq(t, f, n) \in Seq(Element) /\ Len(SubSeq(t, f, n)) = n - f + 1
      /\ \A k \in 1 .. n - f + 1 : SubSeq(t, f, n)[k] = t[f + k - 1]
    BY <1>4, RestFacts
<1> QED
    BY <1>3, <1>4, <1>5 DEF l

LEMMA TailFacts ==
    ASSUME NEW t \in Seq(Element), Len(t) > 0
    PROVE  /\ Tail(t) \in Seq(Element) /\ Len(Tail(t)) = Len(t) - 1
           /\ \A k \in 1 .. Len(t) - 1 : Tail(t)[k] = t[k + 1]
<1>1. Len(t) \in Nat /\ t # <<>>
    BY LenProperties
<1> QED
    BY <1>1, HeadTailProperties, Zenon

---------------------------------------------------------------------------
(* What the caller sees.                                                   *)

LEMMA AbstractNoCall == AbstractCall(NoCall) = NoCall
BY DEF AbstractCall, NoCall

\* The parts of the abstract call.
LEMMA AbstractParts ==
    ASSUME NEW c \in [op : Operations, i : Nat, j : Nat, x : Cell]
    PROVE  /\ AbstractCall(c) \in [op : Operations, i : Nat, j : Nat, x : Cell]
           /\ AbstractCall(c).op = c.op /\ AbstractCall(c).x = c.x
           /\ c.op \in {"insert", "rinsert", "erase", "rerase", "rotate", "erase_range", "rerase_range"}
              => AbstractCall(c).i = c.i + 1
           /\ c.op \in {"erase_range", "rerase_range"} => AbstractCall(c).j = c.j + 1
           /\ c.op \in {"set_capacity", "rset_capacity"} => AbstractCall(c).i = c.i
<1> DEFINE one == {"insert", "rinsert", "erase", "rerase", "rotate"}
           two == {"erase_range", "rerase_range"}
<1>1. c.i \in Nat /\ c.j \in Nat /\ c.op \in Operations /\ c.x \in Cell
    OBVIOUS
<1>2. CASE c.op \in one
    <2>1. AbstractCall(c) = [c EXCEPT !.i = c.i + 1]
        BY <1>2 DEF AbstractCall
    <2>2. AbstractCall(c) \in [op : Operations, i : Nat, j : Nat, x : Cell]
        BY <1>1, <2>1
    <2> QED
        BY <1>1, <1>2, <2>1, <2>2
<1>3. CASE c.op \in two
    <2> DEFINE d == [c EXCEPT !.i = c.i + 1]
    <2>1. AbstractCall(c) = [d EXCEPT !.j = c.j + 1]
        BY <1>3 DEF AbstractCall
    <2>2. d \in [op : Operations, i : Nat, j : Nat, x : Cell] /\ d.op = c.op /\ d.x = c.x /\ d.i = c.i + 1
        BY <1>1
    <2> HIDE DEF d
    <2>3. AbstractCall(c) \in [op : Operations, i : Nat, j : Nat, x : Cell]
        BY <1>1, <2>1, <2>2
    <2> QED
        BY <1>1, <1>3, <2>1, <2>2, <2>3
<1>4. CASE c.op \notin one \cup two
    <2>1. AbstractCall(c) = c
        BY <1>4 DEF AbstractCall
    <2> QED
        BY <1>4, <2>1
<1> QED
    BY <1>2, <1>3, <1>4

LEMMA RefInit == Init => Deque!Init /\ CallInv /\ HoldsOld /\ Order
<1> SUFFICES ASSUME Init PROVE Deque!Init /\ CallInv /\ HoldsOld /\ Order
    OBVIOUS
<1>1. cap \in Nat
    BY CapacityAssumption DEF Init
<1>2. Contents = <<>>
    BY DEF Contents, Init
<1>3. Position(ret) = 0
    BY DEF Init, Position, NoIter, NULL
<1>4. Deque!Init
    BY <1>1, <1>2, <1>3, AbstractNoCall DEF Init, Deque!Init
<1> QED
    BY <1>4 DEF Init, CallInv, HoldsOld, Order

\* The steps inside a call are invisible.
LEMMA Stutters ==
    ASSUME CallInv, pc # "idle", pc' # "idle", cap' = cap, UNCHANGED <<call, ret, threw, old>>
    PROVE  UNCHANGED Deque!dvars
<1>1. Position(ret) = 0 /\ Position(ret)' = 0
    BY DEF CallInv, Position, NoIter, NULL
<1> QED
    BY <1>1 DEF Deque!dvars, AbstractCall

\* The invariant about the call is kept inside it, ...
LEMMA StaysInCall ==
    ASSUME CallInv, pc # "idle", pc' # "idle", cap' = cap, UNCHANGED <<call, ret, threw, old>>,
           RightLoop'
    PROVE  CallInv' /\ UNCHANGED Deque!dvars
<1>1. CallInv'
    BY DEF CallInv, CallFits
<1> QED
    BY <1>1, Stutters

\* ... and ends with it.
LEMMA CallEnds ==
    ASSUME pc' = "idle", call' = NoCall
    PROVE  CallInv' /\ HoldsOld' /\ Order'
BY DEF CallInv, HoldsOld, Order

\* A call is never NoCall.
LEMMA CallIsOne ==
    ASSUME CallInv, pc # "idle"
    PROVE  AbstractCall(call) # NoCall
BY AbstractParts DEF CallInv, CallFits, Operations, NoCall, WithItem, AtPosition, OnRange, Resizing, Popping

\* A call that returns.
LEMMA Returns ==
    ASSUME CallInv, pc # "idle", NEW p, Return(p), NEW t, NEW r,
           Contents' = t, Position(ret)' = r,
           Deque!After(AbstractCall(call), old, cap) = <<t, cap', r>>
    PROVE  CallInv' /\ HoldsOld' /\ Order' /\ Deque!Return
<1>1. pc' = "idle" /\ call' = NoCall /\ threw' = FALSE
    BY DEF Return, Leave
<1>2. CallInv' /\ HoldsOld' /\ Order'
    BY <1>1, CallEnds
<1>3. Deque!Return
    BY <1>1, CallIsOne, AbstractNoCall DEF Deque!Return, AbstractCall
<1> QED
    BY <1>2, <1>3

\* What the members show.
LEMMA ContentsAre ==
    ASSUME NEW t \in Seq(Element), size' = Len(t),
           \A k \in 0 .. size' - 1 : mem'[Add(first', k, cap')] = t[k + 1]
    PROVE  Contents' = t
<1>1. Len(t) \in Nat /\ DOMAIN t = 1 .. Len(t) /\ t = [k \in 1 .. Len(t) |-> t[k]]
    BY LenProperties
<1>2. ASSUME NEW k \in 1 .. Len(t) PROVE mem'[Add(first', k - 1, cap')] = t[k]
    <2>1. k - 1 \in 0 .. size' - 1 /\ (k - 1) + 1 = k
        BY <1>1
    <2> QED
        BY <2>1
<1>3. Contents' = [k \in 1 .. size' |-> mem'[Add(first', k - 1, cap')]]
    BY DEF Contents
<1> QED
    BY <1>1, <1>2, <1>3

\* The contents between the calls, and at the begin of one.
LEMMA ContentsFacts ==
    ASSUME Shape, Settled
    PROVE  /\ Contents \in Seq(Element) /\ Len(Contents) = size
           /\ \A k \in 0 .. size - 1 : mem[Add(first, k, cap)] = Contents[k + 1]
           /\ \A p \in Live(mem) : \E k \in 1 .. size : mem[p] = Contents[k]
<1>1. /\ cap \in Nat /\ size \in 0 .. cap /\ mem \in [Slots(cap) -> Cell]
      /\ size > 0 => cap \in Nat \ {0} /\ first \in Slots(cap)
    BY CapacityAssumption DEF Shape, Pointers
<1>2. ASSUME NEW k \in 0 .. size - 1
      PROVE  Add(first, k, cap) \in Slots(cap) /\ Add(first, k, cap) \in Live(mem)
    <2>1. cap \in Nat \ {0} /\ first \in Slots(cap) /\ k \in 0 .. cap /\ k < cap /\ k < size
        BY <1>1
    <2>2. Add(first, k, cap) \in Slots(cap) /\ Index(Add(first, k, cap), first, cap) = k
        BY <2>1, AddInRing
    <2> QED
        BY <2>1, <2>2 DEF Settled, Window
<1>3. ASSUME NEW k \in 1 .. size
      PROVE  Contents[k] \in Element /\ Contents[k] = mem[Add(first, k - 1, cap)]
    <2>1. Contents[k] = mem[Add(first, k - 1, cap)] /\ k - 1 \in 0 .. size - 1
        BY <1>1 DEF Contents
    <2>2. mem[Add(first, k - 1, cap)] \in Cell \ {Raw}
        BY <1>1, <1>2, <2>1 DEF Live
    <2> QED
        BY <2>1, <2>2 DEF Cell
<1>4. Contents \in [1 .. size -> Element]
    BY <1>3 DEF Contents
<1>5. Contents \in Seq(Element) /\ Len(Contents) = size
    BY <1>1, <1>4
<1>6. ASSUME NEW k \in 0 .. size - 1 PROVE mem[Add(first, k, cap)] = Contents[k + 1]
    <2>1. k + 1 \in 1 .. size /\ (k + 1) - 1 = k
        BY <1>1
    <2> QED
        BY <1>3, <2>1
<1>7. ASSUME NEW p \in Live(mem) PROVE \E k \in 1 .. size : mem[p] = Contents[k]
    <2>1. p \in Slots(cap) /\ Index(p, first, cap) < size
        BY <1>7 DEF Settled, Window
    <2>2. cap \in Nat \ {0} /\ first \in Slots(cap)
        BY <1>1, <2>1 DEF Slots, Shape, Pointers
    <2>3. Index(p, first, cap) \in 0 .. size - 1 /\ Add(first, Index(p, first, cap), cap) = p
        BY <1>1, <2>1, <2>2, IndexInRing
    <2>4. Index(p, first, cap) + 1 \in 1 .. size
        BY <1>1, <2>3
    <2> QED
        BY <1>6, <2>3, <2>4
<1> QED
    BY <1>5, <1>6, <1>7

LEMMA InvokeRefines == RInv /\ Invoke => CallInv' /\ HoldsOld' /\ Order' /\ Deque!Invoke
<1> SUFFICES ASSUME RInv, Invoke PROVE CallInv' /\ HoldsOld' /\ Order' /\ Deque!Invoke
    OBVIOUS
<1>1. Shape /\ Settled /\ size \in Nat /\ size <= cap
    BY IInvFacts DEF RInv, IInv, LoopInvariants, Invoke
<1>2. Contents \in Seq(Element) /\ Len(Contents) = size
    BY <1>1, ContentsFacts
<1>3. UNCHANGED object /\ Contents' = Contents
    BY DEF Invoke, object, Contents
<1>4. /\ pc = "idle" /\ pc' = "enter" /\ call' \in Calls /\ old' = Contents
      /\ ret' = NoIter /\ threw' = FALSE /\ cap' = cap /\ size' = size
    BY DEF Invoke, object
<1>5. call' \in [op : Operations, i : Nat, j : Nat, x : Cell]
    <2>1. call' \in [op : Operations, i : 0 .. MaxCapacity, j : 0 .. MaxCapacity, x : Value \cup {Raw}]
        BY <1>4 DEF Calls
    <2>2. 0 .. MaxCapacity \subseteq Nat
        BY CapacityAssumption
    <2>3. Value \cup {Raw} \subseteq Cell
        BY DEF Cell, Element
    <2> QED
        BY <2>1, <2>2, <2>3
<1>6. CallFits'
    BY <1>1, <1>2, <1>4, <1>5, CapacityAssumption
       DEF CallFits, Calls, Legal, WithItem, AtPosition, OnRange, Resizing, Popping, empty
<1>7. CallInv'
    BY <1>1, <1>2, <1>4, <1>6 DEF CallInv, RightLoop
<1>8. HoldsOld'
    <2>1. \A p \in Live(mem) : \E k \in 1 .. size : mem[p] = Contents[k]
        BY <1>1, ContentsFacts
    <2> QED
        BY <1>2, <1>3, <1>4, <2>1 DEF HoldsOld, Olds, object, Live
<1>9. Order'
    BY <1>3, <1>4 DEF Order
<1>10. Deque!Invoke
    <2>1. AbstractCall(call) = NoCall
        BY <1>4, AbstractNoCall DEF RInv, CallInv
    <2>2. /\ AbstractCall(call') \in [op : Operations, i : Nat, j : Nat, x : Cell]
          /\ AbstractCall(call').op = call'.op
          /\ call'.op \in {"insert", "rinsert", "erase", "rerase", "rotate", "erase_range", "rerase_range"}
             => AbstractCall(call').i = call'.i + 1
          /\ call'.op \in {"erase_range", "rerase_range"} => AbstractCall(call').j = call'.j + 1
        BY <1>5, AbstractParts
    <2>3. Deque!Allowed(AbstractCall(call'), Contents)
        <3> DEFINE c == AbstractCall(call')
                   n == Len(Contents)
        <3>1. /\ n \in Nat /\ c.op = call'.op /\ call'.i \in Nat /\ call'.j \in Nat
              /\ call'.op \in {"pop_back", "pop_front"} => n > 0
              /\ call'.op \in {"insert", "rinsert"} => call'.i \in 0 .. n
              /\ call'.op \in {"erase", "rerase", "rotate"} => call'.i \in 0 .. n - 1
              /\ call'.op \in {"erase_range", "rerase_range"} => call'.i \in 0 .. n /\ call'.j \in call'.i .. n
            BY <1>1, <1>2, <1>4, <1>5, <1>6, <2>2 DEF CallFits
        <3>2. call'.op \notin {"insert_n", "rinsert_n"}
            BY <1>4 DEF Calls, Operations, WithItem, AtPosition, OnRange, Resizing, Popping
        <3>3. /\ call'.op \in {"insert", "rinsert"} => c.i \in 1 .. n + 1
              /\ call'.op \in {"erase", "rerase", "rotate"} => c.i \in 1 .. n
              /\ call'.op \in {"erase_range", "rerase_range"} => c.i \in 1 .. c.j /\ c.j \in 1 .. n + 1
            BY <2>2, <3>1
        <3> HIDE DEF c, n
        <3>4. Deque!Allowed(c, Contents)
            BY <3>1, <3>2, <3>3 DEF Deque!Allowed, n
        <3> QED
            BY <3>4 DEF c
    <2>4. Position(ret)' = 0
        BY <1>4 DEF Position, NoIter, NULL
    <2>5. AbstractCall(call)' = AbstractCall(call')
        BY DEF AbstractCall
    <2> QED
        BY <1>4, <2>1, <2>2, <2>3, <2>4, <2>5 DEF Deque!Invoke
<1> QED
    BY <1>7, <1>8, <1>9, <1>10

---------------------------------------------------------------------------
(* What the steps of a call do to the places of the elements.              *)

\* Less than a round apart, places have different slots.
LEMMA PlacesDiffer ==
    ASSUME NEW c \in Nat \ {0}, NEW f \in Slots(c), NEW k \in 0 .. c, NEW l \in 0 .. c,
           k # l, k - l < c, l - k < c
    PROVE  Add(f, k, c) # Add(f, l, c)
BY DEF Add, Slots

\* The places seen from the next and from the previous slot.
LEMMA PlacesMove ==
    ASSUME NEW c \in Nat \ {0}, NEW f \in Slots(c), NEW k \in 0 .. c - 1
    PROVE  /\ Add(Increment(f, c), k, c) = Add(f, k + 1, c)
           /\ Add(Decrement(f, c), k + 1, c) = Add(f, k, c)
BY DEF Add, Increment, Decrement, Slots

\* What the invariant says at the begin of an operation.
LEMMA EnterFacts ==
    ASSUME RInv, pc = "enter"
    PROVE  /\ Shape /\ Settled /\ CallFits /\ CallInv /\ fault = FALSE
           /\ cap \in Nat /\ size \in 0 .. cap /\ Len(old) = size /\ old \in Seq(Element)
           /\ old = Contents
           /\ \A k \in 0 .. size - 1 : mem[Add(first, k, cap)] = old[k + 1]
           /\ cap > 0 => cap \in Nat \ {0} /\ first \in Slots(cap) /\ last \in Slots(cap)
           /\ last = Add(first, size, cap) /\ mem \in [Slots(cap) -> Cell]
<1>1. Shape /\ Settled
    BY IInvFacts DEF RInv, IInv, LoopInvariants
<1>2. old = Contents /\ CallFits /\ CallInv
    BY DEF RInv, Order, CallInv
<1> QED
    BY <1>1, <1>2, ContentsFacts, IInvFacts DEF RInv, Shape

\* A call that throws and leaves the contents as they were.
LEMMA ThrowsStrong ==
    ASSUME CallInv, pc # "idle",
           call.op \in {"push_back", "push_front", "set_capacity", "rset_capacity"},
           Throw, Contents' = old, cap' = cap
    PROVE  CallInv' /\ HoldsOld' /\ Order' /\ Deque!Fail
<1>1. pc' = "idle" /\ call' = NoCall /\ threw' = TRUE /\ ret' = NoIter
    BY DEF Throw, Leave
<1>2. CallInv' /\ HoldsOld' /\ Order'
    BY <1>1, CallEnds
<1>3. AbstractCall(call).op = call.op /\ AbstractCall(call) # NoCall /\ AbstractCall(call)' = NoCall
    BY <1>1, CallIsOne, AbstractParts, AbstractNoCall DEF CallInv, CallFits, AbstractCall
<1>4. old \in Deque!Interrupted(AbstractCall(call), old, cap, Moved)
    BY <1>3 DEF Deque!Interrupted, Deque!Strong
<1>5. AbstractCall(call).op \notin Deque!NoThrow
    BY <1>3 DEF Deque!NoThrow
<1>6. Position(ret)' = 0
    BY <1>1 DEF Position, NoIter, NULL
<1>7. Deque!Fail
    BY <1>1, <1>3, <1>4, <1>5, <1>6 DEF Deque!Fail
<1> QED
    BY <1>2, <1>7

\* The elements between the calls are those of the live slots.
Shown == /\ Contents \in Seq(Element) /\ Len(Contents) = size /\ size \in Nat
         /\ \A k \in 1 .. size : \E p \in Live(mem) : Contents[k] = mem[p]

LEMMA SettledShown == Shape /\ Settled => Shown
<1> SUFFICES ASSUME Shape, Settled PROVE Shown
    OBVIOUS
<1>1. /\ cap \in Nat /\ size \in 0 .. cap
      /\ size > 0 => cap \in Nat \ {0} /\ first \in Slots(cap)
    BY CapacityAssumption DEF Shape, Pointers
<1>2. Contents \in Seq(Element) /\ Len(Contents) = size
    BY ContentsFacts
<1>3. ASSUME NEW k \in 1 .. size PROVE \E p \in Live(mem) : Contents[k] = mem[p]
    <2>1. k - 1 \in 0 .. cap /\ k - 1 < cap /\ k - 1 < size /\ cap \in Nat \ {0} /\ first \in Slots(cap)
        BY <1>1
    <2>2. Add(first, k - 1, cap) \in Window(first, size, cap)
        BY <2>1, AddInRing DEF Window
    <2>3. Contents[k] = mem[Add(first, k - 1, cap)]
        BY <1>1 DEF Contents
    <2> QED
        BY <2>2, <2>3 DEF Settled
<1> QED
    BY <1>1, <1>2, <1>3 DEF Shown

\* After a call that left the elements alone they are old ones still.
LEMMA ShownAfter == IInv' /\ pc' = "idle" => Shown'
<1>1. IInv /\ pc = "idle" => Shape /\ Settled
    BY IInvFacts DEF IInv, LoopInvariants
<1>2. IInv /\ pc = "idle" => Shown
    BY <1>1, SettledShown
<1>3. (IInv /\ pc = "idle" => Shown)'
    BY <1>2, PTL
<1> QED
    BY <1>3

\* A call that throws in the middle: what is left is allowed.
LEMMA ThrowsBasic ==
    ASSUME CallInv, HoldsOld, pc # "idle", IInv',
           \/ call.op \in {"insert", "rinsert"} /\ size' \in Len(old) .. Lesser(cap, Len(old) + 1)
           \/ /\ call.op \in {"erase", "rerase", "erase_range", "rerase_range"}
              /\ ~NothrowMove /\ size' = Len(old),
           Throw, mem' = mem, cap' = cap
    PROVE  CallInv' /\ HoldsOld' /\ Order' /\ Deque!Fail
<1>1. pc' = "idle" /\ call' = NoCall /\ threw' = TRUE /\ ret' = NoIter
    BY DEF Throw, Leave
<1>2. CallInv' /\ HoldsOld' /\ Order'
    BY <1>1, CallEnds
<1> DEFINE c == AbstractCall(call)
<1>3. c.op = call.op /\ c.x = call.x /\ c # NoCall /\ AbstractCall(call)' = NoCall
    BY <1>1, CallIsOne, AbstractParts, AbstractNoCall DEF CallInv, CallFits, AbstractCall
<1>4. Contents' \in [1 .. size' -> Olds]
    <2>1. Shown'
        BY <1>1, ShownAfter
    <2>2. ASSUME NEW k \in 1 .. size' PROVE Contents'[k] \in Olds
        <3>1. PICK p \in Live(mem') : Contents'[k] = mem'[p]
            BY <2>1 DEF Shown
        <3>2. p \in Live(mem) /\ mem'[p] = mem[p]
            BY <3>1 DEF Live
        <3> QED
            BY <3>1, <3>2 DEF HoldsOld
    <2>3. Contents' \in [1 .. size' -> Element]
        BY <2>1, LenProperties DEF Shown
    <2> QED
        BY <2>2, <2>3
<1> HIDE DEF c
<1>5. /\ Len(old) \in Nat /\ size' \in Nat /\ cap \in Nat
      /\ size' \in Len(old) .. Deque!Lesser(cap, Len(old) + IF call.op \in {"insert", "rinsert"} THEN 1 ELSE 0)
    <2>1. Len(old) \in Nat /\ Len(old) <= cap
        BY LenProperties DEF CallInv
    <2>2. size' \in Nat /\ cap \in Nat
        BY CapacityAssumption DEF IInv, TypeOK
    <2> QED
        BY <2>1, <2>2 DEF Deque!Lesser, Lesser
<1>6. Contents' \in Deque!Interrupted(c, old, cap, Moved)
    BY <1>3, <1>4, <1>5 DEF Deque!Interrupted, Deque!Strong, Olds
<1>7. c.op \notin Deque!NoThrow
    BY <1>3 DEF Deque!NoThrow
<1>8. Position(ret)' = 0
    BY <1>1 DEF Position, NoIter, NULL
<1>9. Deque!Fail
    BY <1>1, <1>3, <1>6, <1>7, <1>8 DEF Deque!Fail, c
<1> QED
    BY <1>2, <1>9

\* What is to be shown of a step of an operation.
Refines == /\ CallInv' /\ HoldsOld' /\ Order'
           /\ Deque!Return \/ Deque!Fail \/ UNCHANGED Deque!dvars

LEMMA PushBackRefines == RInv /\ PushBack => Refines
<1> SUFFICES ASSUME RInv, PushBack PROVE Refines
    OBVIOUS
<1> DEFINE s == Append(old, call.x)
           t == Deque!LastOf(s, cap)
           n == Len(old)
<1>1. pc = "enter" /\ pc # "idle" /\ call.op = "push_back"
    BY DEF PushBack, Enter
<1>2. /\ Shape /\ CallFits /\ CallInv /\ cap \in Nat /\ size \in 0 .. cap /\ n = size /\ old \in Seq(Element)
      /\ old = Contents
      /\ \A k \in 0 .. size - 1 : mem[Add(first, k, cap)] = old[k + 1]
      /\ cap > 0 => cap \in Nat \ {0} /\ first \in Slots(cap) /\ last \in Slots(cap)
      /\ last = Add(first, size, cap) /\ mem \in [Slots(cap) -> Cell]
    BY <1>1, EnterFacts
<1>3. call.x \in Element
    BY <1>1, <1>2 DEF CallFits, Element
<1>4. /\ s \in Seq(Element) /\ Len(s) = n + 1
      /\ \A k \in 1 .. n : s[k] = old[k]
      /\ s[n + 1] = call.x
    BY <1>2, <1>3, AppendProperties, LenProperties
<1>5. /\ t \in Seq(Element) /\ Len(t) = Lesser(cap, n + 1)
      /\ \A k \in 1 .. Lesser(cap, n + 1) : t[k] = s[k + (n + 1 - Lesser(cap, n + 1))]
    <2> HIDE DEF s
    <2>1. /\ t \in Seq(Element) /\ Len(t) = Lesser(cap, Len(s))
          /\ \A k \in 1 .. Lesser(cap, Len(s)) : t[k] = s[k + (Len(s) - Lesser(cap, Len(s)))]
        BY <1>2, <1>4, LastOfFacts
    <2> QED
        BY <1>4, <2>1
<1>6. Deque!After(AbstractCall(call), old, cap) = <<t, cap, 0>>
    BY <1>1, <1>2, AbstractParts DEF Deque!After, Deque!PushBackOutcome, CallFits
<1> HIDE DEF s, t, n
<1>7. ASSUME Return(NoIter), cap' = cap, Contents' = t PROVE Refines
    <2>1. Position(ret)' = 0
        BY <1>7 DEF Return, Position, NoIter, NULL
    <2> QED
        BY <1>1, <1>2, <1>6, <1>7, <2>1, Returns DEF Refines
<1>8. CASE full /\ empty /\ Return(NoIter) /\ UNCHANGED <<object, fault>>
    <2>1. size' = 0 /\ cap = 0 /\ cap' = cap /\ n = 0
        BY <1>2, <1>8 DEF full, empty, object
    <2>2. Len(t) = 0
        BY <1>5, <2>1 DEF Lesser
    <2>3. \A k \in 0 .. size' - 1 : FALSE
        BY <2>1
    <2>4. Contents' = t
        BY <1>5, <2>1, <2>2, <2>3, ContentsAre
    <2> QED
        BY <1>7, <1>8, <2>1, <2>4
<1>9. CASE /\ ~(full /\ empty) /\ Put(~full, last) /\ last' = Increment(last, cap)
           /\ IF full THEN first' = last' /\ UNCHANGED size ELSE size' = size + 1 /\ UNCHANGED first
           /\ Return(NoIter) /\ UNCHANGED cap
    <2>1. cap \in Nat \ {0} /\ first \in Slots(cap) /\ cap' = cap /\ last \in Slots(cap)
        BY <1>2, <1>9 DEF full, empty
    <2>2. \A q \in Slots(cap) : mem'[q] = IF q = last THEN call.x ELSE mem[q]
        BY <1>2, <1>9 DEF Put
    <2>3. CASE full
        <3>1. first' = Increment(first, cap) /\ size' = cap /\ n = cap /\ last = first
            BY <1>2, <1>9, <2>1, <2>3, AddInRing DEF full
        <3>2. Len(t) = cap /\ \A k \in 1 .. cap : t[k] = s[k + 1]
            BY <1>2, <1>5, <2>1, <3>1 DEF Lesser
        <3>3. ASSUME NEW k \in 0 .. size' - 1 PROVE mem'[Add(first', k, cap')] = t[k + 1]
            <4>1. k \in 0 .. cap - 1 /\ k + 1 \in 1 .. cap /\ Add(first', k, cap') = Add(first, k + 1, cap)
                BY <2>1, <3>1, PlacesMove
            <4>2. CASE k + 1 = cap
                <5>1. Add(first, k + 1, cap) = last
                    BY <1>2, <2>1, <3>1, <4>2, AddInRing
                <5> QED
                    BY <1>4, <2>1, <2>2, <3>1, <3>2, <4>1, <4>2, <5>1
            <4>3. CASE k + 1 < cap
                <5>1. /\ Add(first, k + 1, cap) # Add(first, 0, cap) /\ Add(first, 0, cap) = last
                      /\ Add(first, k + 1, cap) \in Slots(cap)
                    BY <2>1, <3>1, <4>1, <4>3, PlacesDiffer, AddInRing
                <5>2. mem'[Add(first, k + 1, cap)] = old[(k + 1) + 1]
                    BY <1>2, <2>1, <2>2, <3>1, <4>1, <4>3, <5>1
                <5>3. t[k + 1] = old[(k + 1) + 1]
                    BY <1>4, <2>1, <3>1, <3>2, <4>1, <4>3
                <5> QED
                    BY <4>1, <5>2, <5>3
            <4> QED
                BY <2>1, <4>1, <4>2, <4>3
        <3>4. Contents' = t
            BY <1>5, <3>1, <3>2, <3>3, ContentsAre
        <3> QED
            BY <1>7, <1>9, <2>1, <3>4
    <2>4. CASE ~full
        <3>1. first' = first /\ size' = n + 1 /\ n < cap /\ n \in Nat /\ last = Add(first, n, cap)
            BY <1>2, <1>9, <2>1, <2>4 DEF full
        <3>2. Len(t) = n + 1 /\ \A k \in 1 .. n + 1 : t[k] = s[k]
            BY <1>2, <1>5, <2>1, <3>1 DEF Lesser
        <3>3. ASSUME NEW k \in 0 .. size' - 1 PROVE mem'[Add(first', k, cap')] = t[k + 1]
            <4>1. k \in 0 .. n /\ k + 1 \in 1 .. n + 1
                BY <3>1
            <4>2. CASE k = n
                BY <1>4, <2>1, <2>2, <3>1, <3>2, <4>1, <4>2
            <4>3. CASE k < n
                <5>1. Add(first, k, cap) # last /\ Add(first, k, cap) \in Slots(cap)
                    BY <2>1, <3>1, <4>1, <4>3, PlacesDiffer, AddInRing
                <5>2. mem'[Add(first, k, cap)] = old[k + 1]
                    BY <1>2, <2>2, <3>1, <4>1, <4>3, <5>1
                <5>3. t[k + 1] = old[k + 1]
                    BY <1>4, <3>1, <3>2, <4>1, <4>3
                <5> QED
                    BY <2>1, <3>1, <5>2, <5>3
            <4> QED
                BY <3>1, <4>1, <4>2, <4>3
        <3>4. Contents' = t
            BY <1>5, <3>1, <3>2, <3>3, ContentsAre
        <3> QED
            BY <1>7, <1>9, <2>1, <3>4
    <2> QED
        BY <2>3, <2>4
<1>10. CASE ~(full /\ empty) /\ Throw /\ UNCHANGED <<object, fault>>
    <2>1. Contents' = old /\ cap' = cap
        BY <1>2, <1>10 DEF object, Contents
    <2> QED
        BY <1>1, <1>2, <1>10, <2>1, ThrowsStrong DEF Refines
<1> QED
    BY <1>8, <1>9, <1>10 DEF PushBack

LEMMA PushFrontRefines == RInv /\ PushFront => Refines
<1> SUFFICES ASSUME RInv, PushFront PROVE Refines
    OBVIOUS
<1> DEFINE u == <<call.x>>
           s == u \o old
           t == Deque!FirstOf(s, cap)
           n == Len(old)
           f == Decrement(first, cap)
<1>1. pc = "enter" /\ pc # "idle" /\ call.op = "push_front"
    BY DEF PushFront, Enter
<1>2. /\ Shape /\ CallFits /\ CallInv /\ cap \in Nat /\ size \in 0 .. cap /\ n = size /\ old \in Seq(Element)
      /\ old = Contents
      /\ \A k \in 0 .. size - 1 : mem[Add(first, k, cap)] = old[k + 1]
      /\ cap > 0 => cap \in Nat \ {0} /\ first \in Slots(cap) /\ last \in Slots(cap)
      /\ last = Add(first, size, cap) /\ mem \in [Slots(cap) -> Cell]
    BY <1>1, EnterFacts
<1>3. call.x \in Element
    BY <1>1, <1>2 DEF CallFits, Element
<1>4. /\ s \in Seq(Element) /\ Len(s) = n + 1
      /\ \A k \in 1 .. n : s[k + 1] = old[k]
      /\ s[1] = call.x
    <2>1. u \in Seq(Element) /\ Len(u) = 1 /\ u[1] = call.x
        BY <1>3
    <2> HIDE DEF u
    <2>2. /\ s \in Seq(Element) /\ Len(s) = Len(u) + Len(old)
          /\ \A k \in 1 .. Len(u) + Len(old) : s[k] = IF k <= Len(u) THEN u[k] ELSE old[k - Len(u)]
        BY <1>2, <2>1, JoinFacts
    <2>3. n \in Nat
        BY <1>2
    <2> HIDE DEF s
    <2> QED
        BY <2>1, <2>2, <2>3
<1>5. /\ t \in Seq(Element) /\ Len(t) = Lesser(cap, n + 1)
      /\ \A k \in 1 .. Lesser(cap, n + 1) : t[k] = s[k]
    <2> HIDE DEF s
    <2>1. /\ t \in Seq(Element) /\ Len(t) = Lesser(cap, Len(s))
          /\ \A k \in 1 .. Lesser(cap, Len(s)) : t[k] = s[k]
        BY <1>2, <1>4, FirstOfFacts
    <2> QED
        BY <1>4, <2>1
<1>6. Deque!After(AbstractCall(call), old, cap) = <<t, cap, 0>>
    BY <1>1, <1>2, AbstractParts DEF Deque!After, Deque!PushFrontOutcome, CallFits
<1> HIDE DEF u, s, t, n
<1>7. ASSUME Return(NoIter), cap' = cap, Contents' = t PROVE Refines
    <2>1. Position(ret)' = 0
        BY <1>7 DEF Return, Position, NoIter, NULL
    <2> QED
        BY <1>1, <1>2, <1>6, <1>7, <2>1, Returns DEF Refines
<1>8. CASE full /\ empty /\ Return(NoIter) /\ UNCHANGED <<object, fault>>
    <2>1. size' = 0 /\ cap = 0 /\ cap' = cap /\ n = 0
        BY <1>2, <1>8 DEF full, empty, object
    <2>2. Len(t) = 0
        BY <1>5, <2>1 DEF Lesser
    <2>3. \A k \in 0 .. size' - 1 : FALSE
        BY <2>1
    <2>4. Contents' = t
        BY <1>5, <2>1, <2>2, <2>3, ContentsAre
    <2> QED
        BY <1>7, <1>8, <2>1, <2>4
<1>9. CASE /\ ~(full /\ empty) /\ Put(~full, f) /\ first' = f
           /\ IF full THEN last' = f /\ UNCHANGED size ELSE size' = size + 1 /\ UNCHANGED last
           /\ Return(NoIter) /\ UNCHANGED cap
    <2>1. cap \in Nat \ {0} /\ first \in Slots(cap) /\ cap' = cap /\ f \in Slots(cap)
        <3>1. cap \in Nat \ {0} /\ first \in Slots(cap) /\ cap' = cap
            BY <1>2, <1>9 DEF full, empty
        <3> QED
            BY <3>1, StepInRing
    <2>2. \A q \in Slots(cap) : mem'[q] = IF q = f THEN call.x ELSE mem[q]
        BY <1>2, <1>9 DEF Put
    <2>3. size' = Lesser(cap, n + 1) /\ size' \in 0 .. cap /\ size' <= n + 1
        BY <1>2, <1>9, <2>1 DEF full, Lesser
    <2>4. first' = f
        BY <1>9
    <2>5. ASSUME NEW k \in 0 .. size' - 1 PROVE mem'[Add(first', k, cap')] = t[k + 1]
        <3>1. k + 1 \in 1 .. Lesser(cap, n + 1) /\ t[k + 1] = s[k + 1] /\ k \in 0 .. cap - 1 /\ k <= n /\ n \in Nat
            BY <1>2, <1>5, <2>1, <2>3
        <3>2. CASE k = 0
            <4>1. Add(f, 0, cap) = f
                BY <2>1, AddInRing
            <4> QED
                BY <1>4, <2>1, <2>2, <2>4, <3>1, <3>2, <4>1
        <3>3. CASE k > 0
            <4>1. k - 1 \in 0 .. cap - 1 /\ (k - 1) + 1 = k /\ k - 1 \in 0 .. size - 1 /\ k \in 1 .. n
                BY <1>2, <2>1, <3>1, <3>3
            <4>2. Add(f, k, cap) = Add(first, k - 1, cap)
                BY <2>1, <4>1, PlacesMove
            <4>3. Add(f, k, cap) # Add(f, 0, cap) /\ Add(f, 0, cap) = f /\ Add(f, k, cap) \in Slots(cap)
                BY <2>1, <3>1, <3>3, PlacesDiffer, AddInRing
            <4>4. mem'[Add(f, k, cap)] = old[k]
                BY <1>2, <2>2, <4>1, <4>2, <4>3
            <4>5. t[k + 1] = old[k]
                BY <1>4, <3>1, <4>1
            <4> QED
                BY <2>1, <2>4, <4>4, <4>5
        <3> QED
            BY <3>1, <3>2, <3>3
    <2>6. Contents' = t
        BY <1>5, <2>3, <2>5, ContentsAre
    <2> QED
        BY <1>7, <1>9, <2>1, <2>6
<1>10. CASE ~(full /\ empty) /\ first' = Increment(f, cap) /\ Throw /\ UNCHANGED <<cap, last, size, mem, fault>>
    <2>1. cap \in Nat \ {0} /\ first \in Slots(cap)
        BY <1>2, <1>10 DEF full, empty
    <2>2. Contents' = old /\ cap' = cap
        BY <1>2, <1>10, <2>1, StepInRing DEF Contents
    <2> QED
        BY <1>1, <1>2, <1>10, <2>2, ThrowsStrong DEF Refines
<1> QED
    BY <1>8, <1>9, <1>10 DEF PushFront

LEMMA PopBackRefines == RInv /\ PopBack => Refines
<1> SUFFICES ASSUME RInv, PopBack PROVE Refines
    OBVIOUS
<1> DEFINE n == Len(old)
           t == SubSeq(old, 1, n - 1)
<1>1. pc = "enter" /\ pc # "idle" /\ call.op = "pop_back"
    BY DEF PopBack, Enter
<1>2. /\ Shape /\ CallFits /\ CallInv /\ cap \in Nat /\ size \in 0 .. cap /\ n = size /\ old \in Seq(Element)
      /\ \A k \in 0 .. size - 1 : mem[Add(first, k, cap)] = old[k + 1]
      /\ cap > 0 => cap \in Nat \ {0} /\ first \in Slots(cap) /\ last \in Slots(cap)
      /\ last = Add(first, size, cap) /\ mem \in [Slots(cap) -> Cell]
    BY <1>1, EnterFacts
<1>3. n > 0
    BY <1>1, <1>2 DEF CallFits
<1>4. t \in Seq(Element) /\ Len(t) = n - 1 /\ \A k \in 1 .. n - 1 : t[k] = old[k]
    <2>1. n - 1 \in 0 .. Len(old)
        BY <1>2, <1>3
    <2> QED
        BY <1>2, <2>1, HeadFacts
<1>5. Deque!After(AbstractCall(call), old, cap) = <<t, cap, 0>>
    BY <1>1, <1>2, AbstractParts DEF Deque!After, Deque!PopBackOutcome, CallFits
<1> HIDE DEF t, n
<1>6. cap \in Nat \ {0} /\ first \in Slots(cap) /\ cap' = cap /\ first' = first /\ size' = n - 1
    BY <1>2, <1>3 DEF PopBack
<1>7. last' = Add(first, n - 1, cap)
    <2>1. n - 1 \in 0 .. cap /\ n \in 0 .. cap /\ n > 0
        BY <1>2, <1>3
    <2> QED
        BY <1>2, <1>6, <2>1, AddInRing DEF PopBack
<1>8. ASSUME NEW k \in 0 .. size' - 1 PROVE mem'[Add(first', k, cap')] = t[k + 1]
    <2>1. k \in 0 .. cap /\ n - 1 \in 0 .. cap /\ k # n - 1 /\ k - (n - 1) < cap /\ (n - 1) - k < cap
        BY <1>2, <1>3, <1>6
    <2>2. Add(first, k, cap) # last' /\ Add(first, k, cap) \in Slots(cap)
        BY <1>6, <1>7, <2>1, PlacesDiffer, AddInRing
    <2>3. mem'[Add(first, k, cap)] = mem[Add(first, k, cap)]
        BY <1>2, <2>2 DEF PopBack, Destroy
    <2>4. k \in 0 .. size - 1 /\ k + 1 \in 1 .. n - 1
        BY <1>2, <1>6
    <2> QED
        BY <1>2, <1>4, <1>6, <2>3, <2>4
<1>9. Contents' = t
    BY <1>4, <1>6, <1>8, ContentsAre
<1>10. Return(NoIter) /\ Position(ret)' = 0
    BY DEF PopBack, Return, Position, NoIter, NULL
<1> QED
    BY <1>1, <1>2, <1>5, <1>6, <1>9, <1>10, Returns DEF Refines

LEMMA PopFrontRefines == RInv /\ PopFront => Refines
<1> SUFFICES ASSUME RInv, PopFront PROVE Refines
    OBVIOUS
<1> DEFINE n == Len(old)
           t == Tail(old)
<1>1. pc = "enter" /\ pc # "idle" /\ call.op = "pop_front"
    BY DEF PopFront, Enter
<1>2. /\ Shape /\ CallFits /\ CallInv /\ cap \in Nat /\ size \in 0 .. cap /\ n = size /\ old \in Seq(Element)
      /\ \A k \in 0 .. size - 1 : mem[Add(first, k, cap)] = old[k + 1]
      /\ cap > 0 => cap \in Nat \ {0} /\ first \in Slots(cap) /\ last \in Slots(cap)
      /\ last = Add(first, size, cap) /\ mem \in [Slots(cap) -> Cell]
    BY <1>1, EnterFacts
<1>3. n > 0
    BY <1>1, <1>2 DEF CallFits
<1>4. t \in Seq(Element) /\ Len(t) = n - 1 /\ \A k \in 1 .. n - 1 : t[k] = old[k + 1]
    BY <1>2, <1>3, TailFacts
<1>5. Deque!After(AbstractCall(call), old, cap) = <<t, cap, 0>>
    BY <1>1, <1>2, AbstractParts DEF Deque!After, Deque!PopFrontOutcome, CallFits
<1> HIDE DEF t, n
<1>6. /\ cap \in Nat \ {0} /\ first \in Slots(cap) /\ cap' = cap /\ first' = Increment(first, cap)
      /\ size' = n - 1
    BY <1>2, <1>3 DEF PopFront
<1>7. ASSUME NEW k \in 0 .. size' - 1 PROVE mem'[Add(first', k, cap')] = t[k + 1]
    <2>1. /\ k \in 0 .. cap - 1 /\ k + 1 \in 0 .. cap /\ k + 1 \in 0 .. size - 1 /\ k + 1 \in 1 .. n - 1
          /\ k + 1 # 0 /\ (k + 1) - 0 < cap /\ 0 - (k + 1) < cap /\ 0 \in 0 .. cap
        BY <1>2, <1>3, <1>6
    <2>2. Add(first', k, cap') = Add(first, k + 1, cap)
        BY <1>6, <2>1, PlacesMove
    <2>3. Add(first, k + 1, cap) # first /\ Add(first, k + 1, cap) \in Slots(cap)
        <3>1. Add(first, k + 1, cap) # Add(first, 0, cap)
            BY <1>6, <2>1, PlacesDiffer
        <3> QED
            BY <1>6, <2>1, <3>1, AddInRing
    <2>4. mem'[Add(first, k + 1, cap)] = mem[Add(first, k + 1, cap)]
        BY <1>2, <2>3 DEF PopFront, Destroy
    <2> QED
        BY <1>2, <1>4, <2>1, <2>2, <2>4
<1>8. Contents' = t
    BY <1>4, <1>6, <1>7, ContentsAre
<1>9. Return(NoIter) /\ Position(ret)' = 0
    BY DEF PopFront, Return, Position, NoIter, NULL
<1> QED
    BY <1>1, <1>2, <1>5, <1>6, <1>8, <1>9, Returns DEF Refines

LEMMA ClearRefines == RInv /\ Clear => Refines
<1> SUFFICES ASSUME RInv, Clear PROVE Refines
    OBVIOUS
<1>1. pc = "enter" /\ pc # "idle" /\ call.op = "clear"
    BY DEF Clear, Enter
<1>2. CallFits /\ CallInv
    BY <1>1, EnterFacts
<1>3. Deque!After(AbstractCall(call), old, cap) = << <<>>, cap, 0>>
    BY <1>1, <1>2, AbstractParts DEF Deque!After, Deque!ClearOutcome, CallFits
<1>4. size' = 0 /\ cap' = cap
    BY DEF Clear
<1>5. Contents' = <<>>
    BY <1>4 DEF Contents
<1>6. Return(NoIter) /\ Position(ret)' = 0
    BY DEF Clear, Return, Position, NoIter, NULL
<1> QED
    BY <1>1, <1>2, <1>3, <1>4, <1>5, <1>6, Returns DEF Refines

---------------------------------------------------------------------------
(* The loops.                                                              *)

\* What the invariant says inside an operation.
LEMMA LoopFacts ==
    ASSUME RInv, pc # "idle"
    PROVE  /\ Shape /\ CallInv /\ CallFits /\ RightLoop /\ HoldsOld /\ Order
           /\ cap \in Nat /\ size \in 0 .. cap /\ old \in Seq(Element) /\ Len(old) \in Nat /\ Len(old) <= cap
           /\ call.i \in Nat /\ call.j \in Nat /\ call.x \in Cell /\ construct \in BOOLEAN /\ count \in Nat
           /\ cap > 0 => cap \in Nat \ {0} /\ first \in Slots(cap) /\ last \in Slots(cap)
           /\ last = Add(first, size, cap) /\ mem \in [Slots(cap) -> Cell]
<1>1. Shape /\ cap \in Nat /\ last = Add(first, size, cap) /\ construct \in BOOLEAN /\ count \in Nat
    BY IInvFacts DEF RInv
<1>2. /\ CallInv /\ CallFits /\ RightLoop /\ HoldsOld /\ Order /\ old \in Seq(Element) /\ Len(old) <= cap
    BY DEF RInv, CallInv
<1>3. Len(old) \in Nat
    BY <1>2, LenProperties
<1> QED
    BY <1>1, <1>2, <1>3, IInvFacts DEF RInv, Shape, CallFits

\* What a move or a copy from s to d leaves in the slots.
LEMMA MoveEffect ==
    ASSUME mem \in [Slots(cap) -> Cell], NEW raw, NEW d \in Slots(cap), NEW s \in Slots(cap),
           MoveTo(raw, d, s)
    PROVE  \A q \in Slots(cap) : mem'[q] = IF q = s THEN MovedFrom(mem[s])
                                           ELSE IF q = d THEN mem[s] ELSE mem[q]
BY DEF MoveTo

LEMMA MoveKeepsOld ==
    ASSUME HoldsOld, pc # "idle", mem \in [Slots(cap) -> Cell],
           NEW raw, NEW d \in Slots(cap), NEW s \in Slots(cap),
           MoveTo(raw, d, s), UNCHANGED <<call, old>>
    PROVE  HoldsOld'
<1>1. Olds' = Olds /\ Moved \in Olds
    BY DEF Olds
<1>2. ASSUME NEW p \in Live(mem') PROVE mem'[p] \in Olds
    <2>1. p \in Slots(cap) /\ mem'[p] # Raw
        BY DEF Live, MoveTo
    <2>2. mem'[p] = Moved \/ mem'[p] = mem[s] \/ mem'[p] = mem[p]
        BY <2>1, MoveEffect DEF MovedFrom
    <2>3. mem'[p] = mem[s] => s \in Live(mem)
        BY <2>1 DEF Live
    <2>4. mem'[p] = mem[p] => p \in Live(mem)
        BY <2>1 DEF Live
    <2> QED
        BY <1>1, <2>2, <2>3, <2>4 DEF HoldsOld
<1> QED
    BY <1>1, <1>2 DEF HoldsOld

LEMMA DestroyKeepsOld ==
    ASSUME HoldsOld, pc # "idle", mem \in [Slots(cap) -> Cell], NEW d, Destroy(d), UNCHANGED <<call, old>>
    PROVE  HoldsOld'
<1>1. Olds' = Olds
    BY DEF Olds
<1>2. ASSUME NEW p \in Live(mem') PROVE mem'[p] \in Olds
    <2>1. p \in Live(mem) /\ mem'[p] = mem[p]
        BY DEF Live, Destroy
    <2> QED
        BY <2>1 DEF HoldsOld
<1> QED
    BY <1>1, <1>2 DEF HoldsOld

LEMMA SameKeepsOld ==
    ASSUME HoldsOld, pc # "idle", UNCHANGED <<mem, call, old>>
    PROVE  HoldsOld'
BY DEF HoldsOld, Olds, Live

\* A step that stays inside the call.
LEMMA LoopStep ==
    ASSUME CallInv, pc # "idle", NEW label, label # "idle", Goto(label), cap' = cap,
           RightLoop', HoldsOld', Order'
    PROVE  Refines
<1>1. pc' # "idle" /\ UNCHANGED <<call, ret, threw, old>>
    BY DEF Goto
<1> QED
    BY <1>1, StaysInCall DEF Refines

---------------------------------------------------------------------------
(* insert                                                                  *)

\* The contents with the item put in.
LEMMA InsertedItem ==
    ASSUME old \in Seq(Element), call.i \in 0 .. Len(old), call.x \in Element
    PROVE  LET s == Deque!InsertAt(old, call.i + 1, call.x) IN
           /\ s \in Seq(Element) /\ Len(s) = Len(old) + 1
           /\ \A k \in 1 .. Len(old) + 1 : s[k] =
                 IF k < call.i + 1 THEN old[k] ELSE IF k = call.i + 1 THEN call.x ELSE old[k - 1]
<1>1. Len(old) \in Nat
    BY LenProperties
<1> DEFINE m == call.i + 1
<1>2. m \in 1 .. Len(old) + 1
    BY <1>1
<1> HIDE DEF m
<1>3. LET s == Deque!InsertAt(old, m, call.x) IN
      /\ s \in Seq(Element) /\ Len(s) = Len(old) + 1
      /\ \A k \in 1 .. Len(old) + 1 : s[k] =
            IF k < m THEN old[k] ELSE IF k = m THEN call.x ELSE old[k - 1]
    BY <1>2, InsertFactsSeq
<1> QED
    BY <1>3 DEF m

\* The item is in place, and everything from its position on one further.
LEMMA InsertEnds ==
    ASSUME RInv, pc # "idle", call.op = "insert", size = Len(old), call.i <= size, cap > 0,
           full => call.i > 0,
           Inserted(Add(first, call.i, cap)),
           \A k \in 0 .. size : (k = 0 /\ full) \/
               mem'[Add(first, k, cap)] = IF k < call.i THEN old[k + 1]
                                          ELSE IF k = call.i THEN call.x ELSE old[k]
    PROVE  Refines
<1> DEFINE n == Len(old)
           i == call.i
           s == Deque!InsertAt(old, i + 1, call.x)
           p == Add(first, i, cap)
<1>1. /\ CallInv /\ CallFits /\ cap \in Nat \ {0} /\ n \in 0 .. cap /\ size = n /\ old \in Seq(Element)
      /\ n \in Nat /\ i \in 0 .. n /\ first \in Slots(cap) /\ last = Add(first, n, cap)
    BY LoopFacts
<1>2. call.x \in Element
    BY <1>1 DEF CallFits, Element
<1>3. /\ s \in Seq(Element) /\ Len(s) = n + 1
      /\ \A k \in 1 .. n + 1 : s[k] = IF k < i + 1 THEN old[k] ELSE IF k = i + 1 THEN call.x ELSE old[k - 1]
    BY <1>1, <1>2, InsertedItem
<1>4. /\ AbstractCall(call).op = "insert" /\ AbstractCall(call).i = i + 1 /\ AbstractCall(call).x = call.x
    BY <1>1, AbstractParts DEF CallFits
<1>5. p \in Slots(cap) /\ p # NULL /\ p # NoIter
    <2>1. i \in 0 .. cap
        BY <1>1
    <2>2. p \in Slots(cap)
        BY <1>1, <2>1, AddInRing
    <2> HIDE DEF p
    <2> QED
        BY <1>1, <2>2 DEF Slots, NULL, NoIter
<1> HIDE DEF s, p, n, i
<1>6. Return(p) /\ cap' = cap /\ ret' = p
    BY DEF Inserted, Return, p, i
<1>7. CASE full
    <2> DEFINE t == Tail(s)
    <2>1. t \in Seq(Element) /\ Len(t) = n /\ \A k \in 1 .. n : t[k] = s[k + 1]
        <3>1. Len(s) > 0 /\ Len(s) - 1 = n
            <4>1. Len(s) = n + 1 /\ n \in Nat
                BY <1>1, <1>3
            <4> QED
                BY <4>1
        <3>2. /\ Tail(s) \in Seq(Element) /\ Len(Tail(s)) = Len(s) - 1
              /\ \A k \in 1 .. Len(s) - 1 : Tail(s)[k] = s[k + 1]
            BY <1>3, <3>1, TailFacts
        <3> QED
            BY <3>1, <3>2
    <2> HIDE DEF t
    <2>2. n = cap /\ i > 0 /\ size' = n /\ first' = Increment(first, cap)
        <3>1. size = cap /\ i > 0 /\ size' = size /\ first' = Increment(last, cap)
            BY <1>7 DEF Inserted, full, i
        <3>2. last = first
            BY <1>1, <3>1, AddInRing
        <3> QED
            BY <1>1, <3>1, <3>2
    <2>3. ASSUME NEW k \in 0 .. size' - 1 PROVE mem'[Add(first', k, cap')] = t[k + 1]
        <3>1. k \in 0 .. cap - 1 /\ k + 1 \in 1 .. n /\ k + 1 \in 0 .. size /\ k + 1 # 0
            BY <1>1, <2>2
        <3>2. Add(first', k, cap') = Add(first, k + 1, cap)
            BY <1>1, <1>6, <2>2, <3>1, PlacesMove
        <3>3. mem'[Add(first, k + 1, cap)] = IF k + 1 < i THEN old[(k + 1) + 1]
                                             ELSE IF k + 1 = i THEN call.x ELSE old[k + 1]
            BY <3>1 DEF i
        <3>4. /\ t[k + 1] = s[(k + 1) + 1] /\ (k + 1) + 1 \in 1 .. n + 1
              /\ (k + 1) + 1 < i + 1 <=> k + 1 < i
              /\ (k + 1) + 1 = i + 1 <=> k + 1 = i
              /\ ((k + 1) + 1) - 1 = k + 1
            BY <1>1, <2>1, <3>1
        <3>5. s[(k + 1) + 1] = IF (k + 1) + 1 < i + 1 THEN old[(k + 1) + 1]
                               ELSE IF (k + 1) + 1 = i + 1 THEN call.x ELSE old[((k + 1) + 1) - 1]
            BY <1>3, <3>4
        <3> QED
            BY <3>2, <3>3, <3>4, <3>5
    <2>4. Contents' = t
        BY <2>1, <2>2, <2>3, ContentsAre
    <2>5. Position(ret)' = i
        <3>1. i - 1 \in 0 .. cap /\ i - 1 < cap /\ i - 1 \in 0 .. cap - 1 /\ (i - 1) + 1 = i
            BY <1>1, <2>2
        <3>2. p = Add(first', i - 1, cap) /\ first' \in Slots(cap)
            BY <1>1, <2>2, <3>1, PlacesMove, StepInRing DEF p, i
        <3>3. Index(p, first', cap') = i - 1
            BY <1>1, <1>6, <3>1, <3>2, AddInRing
        <3> QED
            BY <1>5, <1>6, <3>1, <3>3 DEF Position
    <2>6. Deque!After(AbstractCall(call), old, cap) = <<t, cap, i>>
        <3>1. i + 1 # 1 /\ (i + 1) - 1 = i /\ Len(old) = cap
            BY <1>1, <2>2 DEF n
        <3> QED
            BY <1>4, <3>1 DEF Deque!After, Deque!InsertOutcome, t, s
    <2> QED
        BY <1>1, <1>6, <2>4, <2>5, <2>6, Returns DEF Refines
<1>8. CASE ~full
    <2>1. n < cap /\ size' = n + 1 /\ first' = first
        BY <1>1, <1>8 DEF Inserted, full
    <2>2. ASSUME NEW k \in 0 .. size' - 1 PROVE mem'[Add(first', k, cap')] = s[k + 1]
        <3>1. k \in 0 .. size /\ k + 1 \in 1 .. n + 1 /\ (k + 1 < i + 1 <=> k < i) /\ (k + 1 = i + 1 <=> k = i)
              /\ (k + 1) - 1 = k
            BY <1>1, <2>1
        <3>2. mem'[Add(first, k, cap)] = IF k < i THEN old[k + 1] ELSE IF k = i THEN call.x ELSE old[k]
            BY <1>8, <3>1 DEF i
        <3>3. s[k + 1] = IF k + 1 < i + 1 THEN old[k + 1] ELSE IF k + 1 = i + 1 THEN call.x ELSE old[(k + 1) - 1]
            BY <1>3, <3>1
        <3> QED
            BY <1>6, <2>1, <3>1, <3>2, <3>3
    <2>3. Contents' = s
        BY <1>3, <2>1, <2>2, ContentsAre
    <2>4. Position(ret)' = i + 1
        <3>1. i \in 0 .. cap /\ i < cap
            BY <1>1, <2>1
        <3>2. Index(p, first', cap') = i
            BY <1>1, <1>6, <2>1, <3>1, AddInRing DEF p, i
        <3> QED
            BY <1>5, <1>6, <3>2 DEF Position
    <2>5. Deque!After(AbstractCall(call), old, cap) = <<s, cap, i + 1>>
        <3>1. Len(old) # cap
            BY <1>1, <2>1 DEF n
        <3> QED
            BY <1>4, <3>1 DEF Deque!After, Deque!InsertOutcome, s
    <2> QED
        BY <1>1, <1>6, <2>3, <2>4, <2>5, Returns DEF Refines
<1> QED
    BY <1>7, <1>8

LEMMA InsertRefines == RInv /\ Insert => Refines
<1> SUFFICES ASSUME RInv, Insert PROVE Refines
    OBVIOUS
<1> DEFINE p == It(call.i)
           n == Len(old)
<1>1. pc = "enter" /\ pc # "idle" /\ call.op = "insert"
    BY DEF Insert, Enter
<1>2. /\ Shape /\ CallFits /\ CallInv /\ HoldsOld
      /\ cap \in Nat /\ size \in 0 .. cap /\ n = size /\ n \in Nat /\ old \in Seq(Element)
      /\ old = Contents
      /\ \A k \in 0 .. size - 1 : mem[Add(first, k, cap)] = old[k + 1]
      /\ cap > 0 => cap \in Nat \ {0} /\ first \in Slots(cap) /\ last \in Slots(cap)
      /\ last = Add(first, size, cap) /\ mem \in [Slots(cap) -> Cell]
    BY <1>1, EnterFacts, LoopFacts
<1>3. IInv'
    BY InsertIInv DEF RInv
<1>4. call.i \in 0 .. size /\ call.x \in Value
    BY <1>1, <1>2 DEF CallFits
<1>5. /\ p \in Slots(cap) \cup {NULL} /\ (p = NULL <=> call.i = size) /\ (p = begin <=> call.i = 0)
      /\ call.i < size => cap > 0 /\ p \in Slots(cap) /\ Index(p, first, cap) = call.i
    BY <1>2, <1>4, Iterator
<1>6. CASE full /\ p = begin /\ Return(p) /\ UNCHANGED <<object, fault>>
    <2>1. Contents' = old /\ cap' = cap /\ size' = size /\ first' = first /\ ret' = p
        BY <1>2, <1>6 DEF object, Contents, Return
    <2>2. call.i = 0
        BY <1>5, <1>6
    <2>3. Position(ret)' = 1
        <3>1. CASE call.i = size
            BY <1>2, <1>5, <2>1, <2>2, <3>1 DEF Position, NULL, NoIter
        <3>2. CASE call.i < size
            BY <1>2, <1>5, <2>1, <2>2, <3>2 DEF Position, NULL, NoIter, Slots
        <3> QED
            BY <1>4, <1>2, <3>1, <3>2
    <2>4. Deque!After(AbstractCall(call), old, cap) = <<old, cap, 1>>
        <3>1. /\ AbstractCall(call).op = "insert" /\ AbstractCall(call).i = 1 /\ Len(old) = cap
            BY <1>1, <1>2, <1>6, <2>2, AbstractParts DEF CallFits, full
        <3> QED
            BY <3>1 DEF Deque!After, Deque!InsertOutcome
    <2> QED
        BY <1>1, <1>2, <1>6, <2>1, <2>3, <2>4, Returns DEF Refines
<1>7. CASE ~(full /\ p = begin) /\ p = NULL /\ Put(~full, last) /\ Inserted(last)
    <2>1. call.i = size /\ cap > 0 /\ (full => call.i > 0) /\ last = Add(first, call.i, cap)
        BY <1>2, <1>4, <1>5, <1>7 DEF full
    <2>2. /\ cap \in Nat \ {0} /\ first \in Slots(cap) /\ last \in Slots(cap)
          /\ \A q \in Slots(cap) : mem'[q] = IF q = last THEN call.x ELSE mem[q]
        BY <1>2, <1>7, <2>1 DEF Put
    <2>3. ASSUME NEW k \in 0 .. size, ~(k = 0 /\ full)
          PROVE mem'[Add(first, k, cap)] = IF k < call.i THEN old[k + 1]
                                           ELSE IF k = call.i THEN call.x ELSE old[k]
        <3>1. CASE k = size
            BY <2>1, <2>2, <3>1
        <3>2. CASE k < size
            <4>1. k \in 0 .. cap /\ size \in 0 .. cap /\ k # size /\ k - size < cap /\ size - k < cap
                BY <1>2, <2>3, <3>2 DEF full
            <4>2. Add(first, k, cap) # last /\ Add(first, k, cap) \in Slots(cap)
                BY <1>2, <2>2, <4>1, PlacesDiffer, AddInRing
            <4> QED
                BY <1>2, <2>1, <2>2, <3>2, <4>2
        <3> QED
            BY <1>2, <3>1, <3>2
    <2>4. \A k \in 0 .. size : (k = 0 /\ full) \/
               mem'[Add(first, k, cap)] = IF k < call.i THEN old[k + 1]
                                          ELSE IF k = call.i THEN call.x ELSE old[k]
        BY <2>3
    <2> QED
        BY <1>1, <1>2, <1>7, <2>1, <2>4, InsertEnds
<1>8. CASE Throw /\ UNCHANGED <<object, fault>>
    <2>1. mem' = mem /\ cap' = cap /\ size' \in n .. Lesser(cap, n + 1)
        BY <1>2, <1>8 DEF object, Lesser
    <2> QED
        BY <1>1, <1>2, <1>3, <1>8, <2>1, ThrowsBasic DEF Refines
<1>9. CASE /\ ~(full /\ p = begin) /\ p # NULL
           /\ pos' = p /\ src' = last /\ dest' = last /\ construct' = ~full
           /\ Goto("insert") /\ UNCHANGED <<object, count, nbuf, fault>>
    <2>1. call.i < size /\ (full => call.i > 0) /\ p = Add(first, call.i, cap)
        BY <1>2, <1>4, <1>5, <1>9 DEF It
    <2>2. /\ cap' = cap /\ first' = first /\ size' = size /\ mem' = mem /\ call' = call /\ old' = old
          /\ pc' = "insert" /\ full' = full
        BY <1>9 DEF object, Goto, full
    <2>3. InsertOrder(size)'
        BY <1>2, <1>9, <2>1, <2>2 DEF InsertOrder, Holds
    <2>4. Order'
        BY <1>2, <1>4, <2>2, <2>3 DEF Order
    <2>5. HoldsOld' /\ RightLoop'
        BY <1>1, <1>2, <2>2, SameKeepsOld DEF RightLoop
    <2> QED
        BY <1>1, <1>2, <1>9, <2>2, <2>4, <2>5, LoopStep
<1> QED
    BY <1>6, <1>7, <1>8, <1>9 DEF Insert

\* What the invariants say in the loop of insert_item.
LEMMA InsertPlaces ==
    ASSUME RInv, pc = "insert"
    PROVE  /\ call.op = "insert" /\ cap \in Nat \ {0} /\ first \in Slots(cap) /\ size \in 1 .. cap
           /\ dest = src /\ size = Len(old) /\ call.i \in 0 .. size - 1 /\ (full => call.i > 0)
           /\ \E j \in call.i .. size : InsertOrder(j) /\ (src = pos <=> j = call.i)
<1>1. /\ cap \in Nat \ {0} /\ first \in Slots(cap) /\ size \in 1 .. cap /\ dest = src
    BY InsertFacts DEF RInv, InsertLoop
<1>2. /\ call.op = "insert" /\ call.i \in Nat /\ \E j \in call.i .. size : InsertOrder(j)
    BY LoopFacts DEF RightLoop, Order
<1>3. PICK j \in call.i .. size : InsertOrder(j)
    BY <1>2
<1>4. call.i \in 0 .. size - 1 /\ (full => call.i > 0) /\ size = Len(old)
    BY <1>1, <1>2, <1>3 DEF InsertOrder
<1>5. src = pos <=> j = call.i
    <2>1. CASE j = call.i
        BY <1>3, <2>1 DEF InsertOrder
    <2>2. CASE j # call.i
        <3>1. j \in 0 .. cap /\ call.i \in 0 .. cap /\ j - call.i < cap /\ call.i - j < cap
            BY <1>1, <1>4, <1>3 DEF full
        <3>2. Add(first, j, cap) # Add(first, call.i, cap)
            BY <1>1, <2>2, <3>1, PlacesDiffer
        <3> QED
            BY <1>3, <2>2, <3>2 DEF InsertOrder
    <2> QED
        BY <2>1, <2>2
<1> QED
    BY <1>1, <1>2, <1>3, <1>4, <1>5

LEMMA InsertCatchRefines == RInv /\ pc = "insert" /\ InsertCatch => Refines
<1> SUFFICES ASSUME RInv, pc = "insert", InsertCatch PROVE Refines
    OBVIOUS
<1>1. IInv'
    BY InsertCatchIInv DEF RInv
<1>2. /\ call.op = "insert" /\ size \in 0 .. cap /\ size = Len(old) /\ cap \in Nat /\ size \in Nat
      /\ CallInv /\ HoldsOld
    BY InsertPlaces, LoopFacts
<1>3. Throw /\ mem' = mem /\ cap' = cap /\ size' \in size .. Lesser(cap, size + 1)
    BY <1>2 DEF InsertCatch, Lesser, full
<1> QED
    BY <1>1, <1>2, <1>3, ThrowsBasic DEF Refines

LEMMA InsertItemRefines == RInv /\ InsertItem => Refines
<1> SUFFICES ASSUME RInv, InsertItem PROVE Refines
    OBVIOUS
<1>1. pc = "insert" /\ src = pos
    BY DEF InsertItem
<1>2. /\ call.op = "insert" /\ cap \in Nat \ {0} /\ cap > 0 /\ first \in Slots(cap) /\ size \in 1 .. cap
      /\ size = Len(old) /\ call.i \in 0 .. size - 1 /\ (full => call.i > 0)
      /\ mem \in [Slots(cap) -> Cell]
    BY <1>1, InsertPlaces, LoopFacts
<1>3. InsertOrder(call.i) /\ pos = Add(first, call.i, cap)
    BY <1>1, InsertPlaces DEF InsertOrder
<1>4. CASE Put(FALSE, pos) /\ Inserted(pos)
    <2>1. pos \in Slots(cap) /\ \A q \in Slots(cap) : mem'[q] = IF q = pos THEN call.x ELSE mem[q]
        <3>1. call.i \in 0 .. cap
            BY <1>2
        <3>2. pos \in Slots(cap)
            BY <1>2, <1>3, <3>1, AddInRing
        <3> QED
            BY <1>2, <1>4, <3>2 DEF Put
    <2>2. ASSUME NEW k \in 0 .. size, ~(k = 0 /\ full)
          PROVE mem'[Add(first, k, cap)] = IF k < call.i THEN old[k + 1]
                                           ELSE IF k = call.i THEN call.x ELSE old[k]
        <3>1. CASE k = call.i
            BY <1>3, <2>1, <3>1
        <3>2. CASE k # call.i
            <4>1. k \in 0 .. cap /\ call.i \in 0 .. cap /\ k - call.i < cap /\ call.i - k < cap
                BY <1>2, <2>2 DEF full
            <4>2. Add(first, k, cap) # pos /\ Add(first, k, cap) \in Slots(cap)
                BY <1>2, <1>3, <3>2, <4>1, PlacesDiffer, AddInRing
            <4>3. mem'[Add(first, k, cap)] = mem[Add(first, k, cap)]
                BY <2>1, <4>2
            <4>4. k < call.i => Holds(k, k)
                BY <1>2, <1>3, <2>2 DEF InsertOrder
            <4>5. k > call.i => Holds(k, k - 1)
                BY <1>2, <1>3, <2>2 DEF InsertOrder
            <4>6. (k - 1) + 1 = k
                BY <1>2
            <4> QED
                BY <1>2, <3>2, <4>3, <4>4, <4>5, <4>6 DEF Holds
        <3> QED
            BY <3>1, <3>2
    <2>3. \A k \in 0 .. size : (k = 0 /\ full) \/
               mem'[Add(first, k, cap)] = IF k < call.i THEN old[k + 1]
                                          ELSE IF k = call.i THEN call.x ELSE old[k]
        BY <2>2
    <2> QED
        BY <1>1, <1>2, <1>3, <1>4, <2>3, InsertEnds
<1>5. CASE InsertCatch
    BY <1>1, <1>5, InsertCatchRefines
<1> QED
    BY <1>4, <1>5 DEF InsertItem

LEMMA InsertShiftRefines == RInv /\ InsertShift => Refines
<1> SUFFICES ASSUME RInv, InsertShift PROVE Refines
    OBVIOUS
<1>1. pc = "insert" /\ pc # "idle" /\ src # pos
    BY DEF InsertShift
<1>2. CASE InsertCatch
    BY <1>1, <1>2, InsertCatchRefines
<1>3. CASE /\ src' = Decrement(src, cap) /\ MoveTo(construct, dest, src') /\ Goto("insert")
           /\ UNCHANGED <<cap, first, last, size, pos, count, nbuf>>
    <2>1. /\ call.op = "insert" /\ cap \in Nat \ {0} /\ first \in Slots(cap) /\ size \in 1 .. cap
          /\ dest = src /\ size = Len(old) /\ call.i \in 0 .. size - 1 /\ (full => call.i > 0)
          /\ mem \in [Slots(cap) -> Cell] /\ CallInv /\ HoldsOld
        BY <1>1, InsertPlaces, LoopFacts
    <2>2. PICK j \in call.i .. size : InsertOrder(j) /\ (src = pos <=> j = call.i)
        BY <1>1, InsertPlaces
    <2> DEFINE i == j - 1
    <2>3. /\ j \in 1 .. size /\ i \in call.i .. size /\ i \in 0 .. cap - 1 /\ i \in 0 .. cap /\ j \in 0 .. cap
          /\ j = i + 1 /\ i \in 0 .. size - 1
          /\ full => i > 0
        BY <1>1, <2>1, <2>2
    <2>4. dest = Add(first, j, cap) /\ src' = Add(first, i, cap)
        BY <1>3, <2>1, <2>2, <2>3, AddInRing DEF InsertOrder
    <2>5. dest \in Slots(cap) /\ src' \in Slots(cap)
        BY <2>1, <2>3, <2>4, AddInRing
    <2>6. \A q \in Slots(cap) : mem'[q] = IF q = src' THEN MovedFrom(mem[src'])
                                          ELSE IF q = dest THEN mem[src'] ELSE mem[q]
        <3>1. MoveTo(construct, dest, src') /\ mem \in [Slots(cap) -> Cell]
            BY <1>3, <2>1
        <3> QED
            BY <2>5, <3>1 DEF MoveTo
    <2>7. /\ cap' = cap /\ first' = first /\ size' = size /\ call' = call /\ old' = old
          /\ pc' = "insert" /\ full' = full /\ pos' = pos
        BY <1>3 DEF Goto, full
    <2> HIDE DEF i
    <2>8. mem[src'] = old[i + 1]
        <3>1. Holds(i, i)
            BY <2>1, <2>2, <2>3 DEF InsertOrder
        <3> QED
            BY <2>4, <3>1 DEF Holds
    <2>9. ASSUME NEW k \in 0 .. i - 1 PROVE (k = 0 /\ full /\ i < size) \/ Holds(k, k)'
        <3> SUFFICES ASSUME ~(k = 0 /\ full /\ i < size) PROVE Holds(k, k)'
            OBVIOUS
        <3>1. k \in 0 .. cap /\ k # i /\ k # j /\ k - i < cap /\ i - k < cap /\ k - j < cap /\ j - k < cap
            BY <2>1, <2>3 DEF full
        <3>2. Add(first, k, cap) # src' /\ Add(first, k, cap) # dest /\ Add(first, k, cap) \in Slots(cap)
            <4>1. Add(first, k, cap) # Add(first, i, cap)
                BY <2>1, <2>3, <3>1, PlacesDiffer
            <4>2. Add(first, k, cap) # Add(first, j, cap)
                BY <2>1, <2>3, <3>1, PlacesDiffer
            <4>3. Add(first, k, cap) \in Slots(cap)
                BY <2>1, <3>1, AddInRing
            <4> QED
                BY <2>4, <4>1, <4>2, <4>3
        <3>3. Holds(k, k)
            BY <2>1, <2>2, <2>3 DEF InsertOrder
        <3> QED
            BY <2>6, <2>7, <3>2, <3>3 DEF Holds
    <2>10. ASSUME NEW k \in i + 1 .. size PROVE Holds(k, k - 1)'
        <3>1. CASE k = j
            <4>1. j - i < cap /\ i - j < cap /\ i # j
                BY <2>1, <2>3 DEF full
            <4>2. dest # src'
                BY <2>1, <2>3, <2>4, <4>1, PlacesDiffer
            <4>3. mem'[Add(first, k, cap)] = old[i + 1] /\ (k - 1) + 1 = i + 1
                BY <2>3, <2>4, <2>5, <2>6, <2>8, <3>1, <4>2
            <4> QED
                BY <2>7, <4>3 DEF Holds
        <3>2. CASE k # j
            <4>1. k \in 0 .. cap /\ k # i /\ k # j /\ k - i < cap /\ i - k < cap /\ k - j < cap /\ j - k < cap
                  /\ k \in j + 1 .. size
                BY <2>1, <2>3, <3>2 DEF full
            <4>2. Add(first, k, cap) # src' /\ Add(first, k, cap) # dest /\ Add(first, k, cap) \in Slots(cap)
                <5>1. Add(first, k, cap) # Add(first, i, cap)
                    BY <2>1, <2>3, <4>1, PlacesDiffer
                <5>2. Add(first, k, cap) # Add(first, j, cap)
                    BY <2>1, <2>3, <4>1, PlacesDiffer
                <5>3. Add(first, k, cap) \in Slots(cap)
                    BY <2>1, <4>1, AddInRing
                <5> QED
                    BY <2>4, <5>1, <5>2, <5>3
            <4>3. Holds(k, k - 1)
                BY <2>2, <4>1 DEF InsertOrder
            <4> QED
                BY <2>6, <2>7, <4>2, <4>3 DEF Holds
        <3> QED
            BY <3>1, <3>2
    <2>11. ~NothrowMove => Holds(i, i)'
        BY <2>4, <2>5, <2>6, <2>7, <2>8 DEF Holds, MovedFrom
    <2>12. InsertOrder(i)'
        BY <2>1, <2>2, <2>4, <2>7, <2>9, <2>10, <2>11 DEF InsertOrder
    <2>13. Order'
        BY <2>3, <2>7, <2>12 DEF Order
    <2>14. HoldsOld'
        BY <1>1, <1>3, <2>1, <2>5, <2>7, MoveKeepsOld
    <2>15. RightLoop'
        BY <2>1, <2>7 DEF RightLoop
    <2> QED
        BY <1>1, <1>3, <2>1, <2>7, <2>13, <2>14, <2>15, LoopStep
<1> QED
    BY <1>2, <1>3 DEF InsertShift

---------------------------------------------------------------------------
(* rinsert                                                                 *)

\* The item is in place, and everything in front of it one nearer the begin.
LEMMA RInsertEnds ==
    ASSUME RInv, pc # "idle", call.op = "rinsert", size = Len(old), call.i <= size, cap > 0,
           full => call.i < size,
           RInserted(Decrement(first, cap), Add(Decrement(first, cap), call.i, cap)),
           \A k \in 0 .. size : (k = size /\ full) \/
               mem'[Add(Decrement(first, cap), k, cap)] =
                  IF k < call.i THEN old[k + 1] ELSE IF k = call.i THEN call.x ELSE old[k]
    PROVE  Refines
<1> DEFINE n == Len(old)
           f == Decrement(first, cap)
           s == Deque!InsertAt(old, call.i + 1, call.x)
           t == Deque!FirstOf(s, cap)
           p == Add(f, call.i, cap)
<1>1. /\ CallInv /\ CallFits /\ cap \in Nat \ {0} /\ n \in 0 .. cap /\ size = n /\ old \in Seq(Element)
      /\ n \in Nat /\ call.i \in 0 .. n /\ first \in Slots(cap)
    BY LoopFacts
<1>2. call.x \in Element
    BY <1>1 DEF CallFits, Element
<1>3. /\ s \in Seq(Element) /\ Len(s) = n + 1
      /\ \A k \in 1 .. n + 1 : s[k] = IF k < call.i + 1 THEN old[k]
                                      ELSE IF k = call.i + 1 THEN call.x ELSE old[k - 1]
    BY <1>1, <1>2, InsertedItem
<1>4. /\ AbstractCall(call).op = "rinsert" /\ AbstractCall(call).i = call.i + 1
      /\ AbstractCall(call).x = call.x
    BY <1>1, AbstractParts DEF CallFits
<1>5. f \in Slots(cap) /\ call.i \in 0 .. cap - 1
    <2>1. f \in Slots(cap)
        BY <1>1, StepInRing
    <2>2. call.i \in 0 .. cap - 1
        BY <1>1 DEF full
    <2> QED
        BY <2>1, <2>2
<1> HIDE DEF s, n, f
<1>6. p \in Slots(cap) /\ p # NULL /\ p # NoIter /\ Index(p, f, cap) = call.i
    <2>1. call.i \in 0 .. cap /\ call.i < cap
        BY <1>1, <1>5
    <2>2. p \in Slots(cap) /\ Index(p, f, cap) = call.i
        BY <1>1, <1>5, <2>1, AddInRing
    <2> HIDE DEF p
    <2> QED
        BY <1>1, <2>2 DEF Slots, NULL, NoIter
<1>7. /\ t \in Seq(Element) /\ Len(t) = Lesser(cap, n + 1)
      /\ \A k \in 1 .. Lesser(cap, n + 1) : t[k] = s[k]
    <2>1. /\ t \in Seq(Element) /\ Len(t) = Lesser(cap, Len(s))
          /\ \A k \in 1 .. Lesser(cap, Len(s)) : t[k] = s[k]
        BY <1>1, <1>3, FirstOfFacts
    <2> QED
        BY <1>3, <2>1
<1> HIDE DEF t, p
<1>8. Return(p) /\ cap' = cap /\ ret' = p /\ first' = f /\ size' = Lesser(cap, n + 1)
    BY <1>1 DEF RInserted, Return, p, f, full, Lesser
<1>9. ASSUME NEW k \in 0 .. size' - 1 PROVE mem'[Add(first', k, cap')] = t[k + 1]
    <2>1. /\ k \in 0 .. size /\ k + 1 \in 1 .. Lesser(cap, n + 1) /\ k + 1 \in 1 .. n + 1
          /\ (k + 1 < call.i + 1 <=> k < call.i) /\ (k + 1 = call.i + 1 <=> k = call.i)
          /\ (k + 1) - 1 = k /\ ~(k = size /\ full)
        BY <1>1, <1>8 DEF Lesser, full
    <2>2. mem'[Add(f, k, cap)] = IF k < call.i THEN old[k + 1] ELSE IF k = call.i THEN call.x ELSE old[k]
        BY <2>1 DEF f
    <2>3. s[k + 1] = IF k + 1 < call.i + 1 THEN old[k + 1]
                     ELSE IF k + 1 = call.i + 1 THEN call.x ELSE old[(k + 1) - 1]
        BY <1>3, <2>1
    <2>4. t[k + 1] = s[k + 1]
        BY <1>7, <2>1
    <2> QED
        BY <1>8, <2>1, <2>2, <2>3, <2>4
<1>10. Contents' = t
    BY <1>7, <1>8, <1>9, ContentsAre
<1>11. Position(ret)' = call.i + 1
    BY <1>6, <1>8 DEF Position
<1>12. Deque!After(AbstractCall(call), old, cap) = <<t, cap, call.i + 1>>
    BY <1>4 DEF Deque!After, Deque!RInsertOutcome, t, s
<1> QED
    BY <1>1, <1>8, <1>10, <1>11, <1>12, Returns DEF Refines

LEMMA RInsertRefines == RInv /\ RInsert => Refines
<1> SUFFICES ASSUME RInv, RInsert PROVE Refines
    OBVIOUS
<1> DEFINE p == It(call.i)
           f == Decrement(first, cap)
           n == Len(old)
<1>1. pc = "enter" /\ pc # "idle" /\ call.op = "rinsert"
    BY DEF RInsert, Enter
<1>2. /\ Shape /\ CallFits /\ CallInv /\ HoldsOld
      /\ cap \in Nat /\ size \in 0 .. cap /\ n = size /\ n \in Nat /\ old \in Seq(Element)
      /\ old = Contents
      /\ \A k \in 0 .. size - 1 : mem[Add(first, k, cap)] = old[k + 1]
      /\ cap > 0 => cap \in Nat \ {0} /\ first \in Slots(cap) /\ last \in Slots(cap)
      /\ last = Add(first, size, cap) /\ mem \in [Slots(cap) -> Cell]
    BY <1>1, EnterFacts, LoopFacts
<1>3. IInv'
    BY RInsertIInv DEF RInv
<1>4. call.i \in 0 .. size /\ call.x \in Value
    BY <1>1, <1>2 DEF CallFits
<1>5. /\ (p = NULL <=> call.i = size) /\ (p = begin <=> call.i = 0)
    BY <1>2, <1>4, Iterator
<1>6. CASE full /\ p = NULL /\ Return(NULL) /\ UNCHANGED <<object, fault>>
    <2> DEFINE s == Deque!InsertAt(old, call.i + 1, call.x)
               t == Deque!FirstOf(s, cap)
    <2>1. Contents' = old /\ cap' = cap /\ size' = size /\ ret' = NULL
        BY <1>2, <1>6 DEF object, Contents, Return
    <2>2. call.i = n /\ n = cap
        BY <1>2, <1>5, <1>6 DEF full
    <2>3. call.x \in Element /\ call.i \in 0 .. Len(old)
        BY <1>4, <2>2 DEF Element
    <2>4. /\ s \in Seq(Element) /\ Len(s) = n + 1
          /\ \A k \in 1 .. n + 1 : s[k] = IF k < call.i + 1 THEN old[k]
                                          ELSE IF k = call.i + 1 THEN call.x ELSE old[k - 1]
        BY <1>2, <2>3, InsertedItem
    <2>5. \A k \in 1 .. n : s[k] = old[k]
        BY <1>2, <2>2, <2>4
    <2> HIDE DEF s
    <2>6. /\ t \in Seq(Element) /\ Len(t) = Lesser(cap, Len(s))
          /\ \A k \in 1 .. Lesser(cap, Len(s)) : t[k] = s[k]
        BY <1>2, <2>4, FirstOfFacts
    <2>7. Lesser(cap, Len(s)) = n
        BY <1>2, <2>2, <2>4 DEF Lesser
    <2> HIDE DEF t
    <2>8. t = old
        BY <1>2, <2>5, <2>6, <2>7, SeqEqual
    <2>9. Deque!After(AbstractCall(call), old, cap) = <<old, cap, call.i + 1>>
        <3>1. /\ AbstractCall(call).op = "rinsert" /\ AbstractCall(call).i = call.i + 1
              /\ AbstractCall(call).x = call.x
            BY <1>1, <1>2, AbstractParts DEF CallFits
        <3>2. Deque!After(AbstractCall(call), old, cap) = <<t, cap, call.i + 1>>
            BY <3>1 DEF Deque!After, Deque!RInsertOutcome, t, s
        <3> QED
            BY <2>8, <3>2
    <2>10. Position(ret)' = call.i + 1
        BY <1>2, <2>1, <2>2 DEF Position, NULL, NoIter
    <2> QED
        BY <1>1, <1>2, <1>6, <2>1, <2>9, <2>10, Returns DEF Refines
<1>7. CASE ~(full /\ p = NULL) /\ p = begin /\ Put(~full, f) /\ RInserted(f, f)
    <2>1. call.i = 0 /\ cap > 0 /\ (full => call.i < size)
        BY <1>2, <1>4, <1>5, <1>7 DEF full
    <2>2. cap \in Nat \ {0} /\ first \in Slots(cap)
        BY <1>2, <2>1
    <2>3. f \in Slots(cap)
        BY <2>2, StepInRing
    <2>4. \A q \in Slots(cap) : mem'[q] = IF q = f THEN call.x ELSE mem[q]
        BY <1>2, <1>7, <2>3 DEF Put
    <2> HIDE DEF f
    <2>5. Add(f, call.i, cap) = f /\ Add(f, 0, cap) = f
        BY <2>1, <2>2, <2>3, AddInRing
    <2>6. ASSUME NEW k \in 0 .. size, ~(k = size /\ full)
          PROVE mem'[Add(f, k, cap)] = IF k < call.i THEN old[k + 1]
                                       ELSE IF k = call.i THEN call.x ELSE old[k]
        <3>1. CASE k = 0
            BY <2>1, <2>3, <2>4, <2>5, <3>1
        <3>2. CASE k # 0
            <4>1. k \in 0 .. cap /\ 0 \in 0 .. cap /\ k - 0 < cap /\ 0 - k < cap /\ k - 1 \in 0 .. size - 1
                  /\ (k - 1) + 1 = k /\ k - 1 \in 0 .. cap - 1
                BY <1>2, <2>2, <2>6, <3>2 DEF full
            <4>2. Add(f, k, cap) # Add(f, 0, cap)
                BY <2>2, <2>3, <3>2, <4>1, PlacesDiffer
            <4>3. Add(f, k, cap) \in Slots(cap)
                BY <2>2, <2>3, <4>1, AddInRing
            <4>4. Add(f, k, cap) = Add(first, k - 1, cap)
                BY <2>2, <4>1, PlacesMove DEF f
            <4>5. mem[Add(first, k - 1, cap)] = old[k]
                BY <1>2, <4>1
            <4>6. ~(k < call.i) /\ k # call.i
                BY <1>2, <2>1, <3>2
            <4> QED
                BY <2>4, <2>5, <4>2, <4>3, <4>4, <4>5, <4>6
        <3> QED
            BY <3>1, <3>2
    <2>7. \A k \in 0 .. size : (k = size /\ full) \/
               mem'[Add(f, k, cap)] = IF k < call.i THEN old[k + 1]
                                      ELSE IF k = call.i THEN call.x ELSE old[k]
        BY <2>6
    <2>8. RInserted(f, Add(f, call.i, cap))
        BY <1>7, <2>5
    <2> QED
        BY <1>1, <1>2, <2>1, <2>7, <2>8, <1>4, RInsertEnds DEF f
<1>8. CASE /\ ~(full /\ p = NULL) /\ p = begin /\ first' = Increment(f, cap)
           /\ Throw /\ UNCHANGED <<cap, last, size, mem, fault>>
    <2>1. mem' = mem /\ cap' = cap /\ size' \in n .. Lesser(cap, n + 1)
        BY <1>2, <1>8 DEF object, Lesser
    <2> QED
        BY <1>1, <1>2, <1>3, <1>8, <2>1, ThrowsBasic DEF Refines
<1>9. CASE /\ ~(full /\ p = NULL) /\ p # begin
           /\ pos' = map_pointer(p) /\ src' = first /\ dest' = f /\ construct' = ~full
           /\ Goto("rinsert") /\ UNCHANGED <<object, count, nbuf, fault>>
    <2>1. call.i > 0 /\ (full => call.i < size) /\ cap > 0
        BY <1>2, <1>4, <1>5, <1>9
    <2>2. map_pointer(p) = Add(first, call.i, cap)
        BY <1>2, <1>5, Iterator DEF map_pointer, It
    <2>3. first = Add(first, 0, cap)
        BY <1>2, <2>1, AddInRing
    <2>4. /\ cap' = cap /\ first' = first /\ size' = size /\ mem' = mem /\ call' = call /\ old' = old
          /\ pc' = "rinsert" /\ full' = full
        BY <1>9 DEF object, Goto, full
    <2>5. ASSUME NEW k \in 1 .. size, ~(k = size /\ full /\ 0 > 0) PROVE HoldsInFront(k, k - 1)'
        <3>1. k - 1 \in 0 .. cap - 1 /\ k - 1 \in 0 .. size - 1 /\ (k - 1) + 1 = k
            BY <1>2
        <3>2. Add(f, (k - 1) + 1, cap) = Add(first, k - 1, cap)
            BY <1>2, <2>1, <3>1, PlacesMove
        <3>3. mem[Add(f, k, cap)] = old[(k - 1) + 1]
            BY <1>2, <3>1, <3>2
        <3> QED
            BY <2>4, <3>3 DEF HoldsInFront
    <2>6. RInsertOrder(0)'
        <3>1. /\ size' = Len(old') /\ call'.i > 0 /\ (full' => call'.i < size')
              /\ pos' = Add(first', call'.i, cap') /\ src' = Add(first', 0, cap')
            BY <1>2, <1>9, <2>1, <2>2, <2>3, <2>4
        <3>2. \A k \in 0 .. 0 - 1 : HoldsInFront(k, k)'
            OBVIOUS
        <3>3. \A k \in 0 + 1 .. size' : (k = size' /\ full' /\ 0 > 0) \/ HoldsInFront(k, k - 1)'
            BY <2>4, <2>5
        <3> QED
            BY <3>1, <3>2, <3>3 DEF RInsertOrder
    <2>7. Order'
        BY <1>2, <1>4, <2>4, <2>6 DEF Order
    <2>8. HoldsOld' /\ RightLoop'
        BY <1>1, <1>2, <2>4, SameKeepsOld DEF RightLoop
    <2> QED
        BY <1>1, <1>2, <1>9, <2>4, <2>7, <2>8, LoopStep
<1> QED
    BY <1>6, <1>7, <1>8, <1>9 DEF RInsert

\* What the invariants say in the loop of rinsert_impl.
LEMMA RInsertPlaces ==
    ASSUME RInv, pc = "rinsert"
    PROVE  /\ call.op = "rinsert" /\ cap \in Nat \ {0} /\ first \in Slots(cap) /\ size \in 1 .. cap
           /\ dest = Decrement(src, cap) /\ size = Len(old) /\ call.i \in 1 .. size /\ (full => call.i < size)
           /\ \E j \in 0 .. call.i : RInsertOrder(j) /\ (src = pos <=> j = call.i)
<1>1. /\ cap \in Nat \ {0} /\ first \in Slots(cap) /\ size \in 1 .. cap /\ dest = Decrement(src, cap)
    BY RInsertFacts DEF RInv, RInsertLoop
<1>2. /\ call.op = "rinsert" /\ call.i \in Nat /\ CallFits /\ \E j \in 0 .. call.i : RInsertOrder(j)
    BY LoopFacts DEF RightLoop, Order
<1>3. PICK j \in 0 .. call.i : RInsertOrder(j)
    BY <1>2
<1>4. call.i \in 1 .. size /\ (full => call.i < size) /\ size = Len(old)
    BY <1>1, <1>2, <1>3 DEF RInsertOrder, CallFits
<1>5. src = pos <=> j = call.i
    <2>1. CASE j = call.i
        BY <1>3, <2>1 DEF RInsertOrder
    <2>2. CASE j # call.i
        <3>1. j \in 0 .. cap /\ call.i \in 0 .. cap /\ j - call.i < cap /\ call.i - j < cap
            BY <1>1, <1>4, <1>3 DEF full
        <3>2. Add(first, j, cap) # Add(first, call.i, cap)
            BY <1>1, <2>2, <3>1, PlacesDiffer
        <3> QED
            BY <1>3, <2>2, <3>2 DEF RInsertOrder
    <2> QED
        BY <2>1, <2>2
<1> QED
    BY <1>1, <1>2, <1>3, <1>4, <1>5

LEMMA RInsertCatchRefines == RInv /\ pc = "rinsert" /\ RInsertCatch => Refines
<1> SUFFICES ASSUME RInv, pc = "rinsert", RInsertCatch PROVE Refines
    OBVIOUS
<1>1. IInv'
    BY RInsertCatchIInv DEF RInv
<1>2. /\ call.op = "rinsert" /\ size \in 0 .. cap /\ size = Len(old) /\ cap \in Nat /\ size \in Nat
      /\ CallInv /\ HoldsOld
    BY RInsertPlaces, LoopFacts
<1>3. Throw /\ mem' = mem /\ cap' = cap /\ size' \in size .. Lesser(cap, size + 1)
    BY <1>2 DEF RInsertCatch, Lesser, full
<1> QED
    BY <1>1, <1>2, <1>3, ThrowsBasic DEF Refines

LEMMA RInsertItemRefines == RInv /\ RInsertItem => Refines
<1> SUFFICES ASSUME RInv, RInsertItem PROVE Refines
    OBVIOUS
<1> DEFINE f == Decrement(first, cap)
<1>1. pc = "rinsert" /\ src = pos
    BY DEF RInsertItem
<1>2. /\ call.op = "rinsert" /\ cap \in Nat \ {0} /\ cap > 0 /\ first \in Slots(cap) /\ size \in 1 .. cap
      /\ size = Len(old) /\ call.i \in 1 .. size /\ (full => call.i < size)
      /\ mem \in [Slots(cap) -> Cell]
    BY <1>1, RInsertPlaces, LoopFacts
<1>3. RInsertOrder(call.i) /\ pos = Add(first, call.i, cap)
    BY <1>1, RInsertPlaces DEF RInsertOrder
<1>4. f \in Slots(cap)
    BY <1>2, StepInRing
<1>5. Decrement(pos, cap) = Add(f, call.i, cap)
    <2>1. call.i \in 0 .. cap /\ call.i > 0 /\ call.i - 1 \in 0 .. cap - 1 /\ (call.i - 1) + 1 = call.i
        BY <1>2
    <2>2. Decrement(pos, cap) = Add(first, call.i - 1, cap)
        BY <1>2, <1>3, <2>1, AddInRing
    <2>3. Add(f, (call.i - 1) + 1, cap) = Add(first, call.i - 1, cap)
        BY <1>2, <2>1, PlacesMove
    <2> QED
        BY <2>1, <2>2, <2>3
<1> HIDE DEF f
<1>6. CASE Put(FALSE, Decrement(pos, cap)) /\ RInserted(Decrement(first, cap), Decrement(pos, cap))
    <2> DEFINE p == Add(f, call.i, cap)
    <2>1. p \in Slots(cap) /\ \A q \in Slots(cap) : mem'[q] = IF q = p THEN call.x ELSE mem[q]
        <3>1. call.i \in 0 .. cap
            BY <1>2
        <3>2. p \in Slots(cap)
            BY <1>2, <1>4, <3>1, AddInRing
        <3> QED
            BY <1>2, <1>5, <1>6, <3>2 DEF Put
    <2>2. ASSUME NEW k \in 0 .. size, ~(k = size /\ full)
          PROVE mem'[Add(f, k, cap)] = IF k < call.i THEN old[k + 1]
                                       ELSE IF k = call.i THEN call.x ELSE old[k]
        <3>1. CASE k = call.i
            BY <2>1, <3>1
        <3>2. CASE k # call.i
            <4>1. k \in 0 .. cap /\ call.i \in 0 .. cap /\ k - call.i < cap /\ call.i - k < cap
                BY <1>2, <2>2 DEF full
            <4>2. Add(f, k, cap) # p /\ Add(f, k, cap) \in Slots(cap)
                BY <1>2, <1>4, <3>2, <4>1, PlacesDiffer, AddInRing
            <4>3. mem'[Add(f, k, cap)] = mem[Add(f, k, cap)]
                BY <2>1, <4>2
            <4>4. k < call.i => HoldsInFront(k, k)
                BY <1>2, <1>3, <2>2 DEF RInsertOrder
            <4>5. k > call.i => HoldsInFront(k, k - 1)
                BY <1>2, <1>3, <2>2 DEF RInsertOrder
            <4>6. (k - 1) + 1 = k
                BY <1>2
            <4> QED
                BY <1>2, <3>2, <4>3, <4>4, <4>5, <4>6 DEF HoldsInFront, f
        <3> QED
            BY <3>1, <3>2
    <2>3. \A k \in 0 .. size : (k = size /\ full) \/
               mem'[Add(f, k, cap)] = IF k < call.i THEN old[k + 1]
                                      ELSE IF k = call.i THEN call.x ELSE old[k]
        BY <2>2
    <2>4. call.i <= size
        BY <1>2
    <2>5. RInserted(f, Add(f, call.i, cap))
        BY <1>5, <1>6 DEF f
    <2> QED
        BY <1>1, <1>2, <2>3, <2>4, <2>5, RInsertEnds DEF f
<1>7. CASE RInsertCatch
    BY <1>1, <1>7, RInsertCatchRefines
<1> QED
    BY <1>6, <1>7 DEF RInsertItem

LEMMA RInsertShiftRefines == RInv /\ RInsertShift => Refines
<1> SUFFICES ASSUME RInv, RInsertShift PROVE Refines
    OBVIOUS
<1> DEFINE f == Decrement(first, cap)
<1>1. pc = "rinsert" /\ pc # "idle" /\ src # pos
    BY DEF RInsertShift
<1>2. CASE RInsertCatch
    BY <1>1, <1>2, RInsertCatchRefines
<1>3. CASE /\ MoveTo(construct, dest, src) /\ src' = Increment(src, cap) /\ Goto("rinsert")
           /\ UNCHANGED <<cap, first, last, size, pos, count, nbuf>>
    <2>1. /\ call.op = "rinsert" /\ cap \in Nat \ {0} /\ first \in Slots(cap) /\ size \in 1 .. cap
          /\ dest = Decrement(src, cap) /\ size = Len(old) /\ call.i \in 1 .. size
          /\ (full => call.i < size)
          /\ mem \in [Slots(cap) -> Cell] /\ CallInv /\ HoldsOld
        BY <1>1, RInsertPlaces, LoopFacts
    <2>2. PICK j \in 0 .. call.i : RInsertOrder(j) /\ (src = pos <=> j = call.i)
        BY <1>1, RInsertPlaces
    <2> DEFINE i == j + 1
    <2>3. /\ j \in 0 .. cap - 1 /\ j \in 0 .. cap /\ j < cap /\ i \in 1 .. call.i /\ i \in 0 .. cap
          /\ i > 0 /\ j = i - 1 /\ i \in 1 .. size
          /\ full => i < size
        BY <1>1, <2>1, <2>2
    <2>4. f \in Slots(cap)
        BY <2>1, StepInRing
    <2>5. src = Add(f, i, cap) /\ dest = Add(f, j, cap) /\ src' = Add(first, i, cap)
        <3>1. src = Add(first, j, cap)
            BY <2>2 DEF RInsertOrder
        <3>2. Add(first, j, cap) = Add(f, i, cap)
            BY <2>1, <2>3, PlacesMove
        <3>3. Add(f, j, cap) = Decrement(Add(f, i, cap), cap)
            <4> HIDE DEF f, i
            <4>1. Add(f, i - 1, cap) = Decrement(Add(f, i, cap), cap)
                BY <2>1, <2>3, <2>4, AddInRing
            <4> QED
                BY <2>3, <4>1
        <3>4. Add(first, i, cap) = Increment(Add(first, j, cap), cap)
            BY <2>1, <2>3, AddInRing
        <3> QED
            BY <1>3, <2>1, <3>1, <3>2, <3>3, <3>4
    <2> HIDE DEF i, f
    <2>6. dest \in Slots(cap) /\ src \in Slots(cap)
        BY <2>1, <2>3, <2>4, <2>5, AddInRing
    <2>7. \A q \in Slots(cap) : mem'[q] = IF q = src THEN MovedFrom(mem[src])
                                          ELSE IF q = dest THEN mem[src] ELSE mem[q]
        <3>1. MoveTo(construct, dest, src) /\ mem \in [Slots(cap) -> Cell]
            BY <1>3, <2>1
        <3> QED
            BY <2>6, <3>1 DEF MoveTo
    <2>8. /\ cap' = cap /\ first' = first /\ size' = size /\ call' = call /\ old' = old
          /\ pc' = "rinsert" /\ full' = full /\ pos' = pos
        BY <1>3 DEF Goto, full
    <2>9. mem[src] = old[j + 1]
        <3>1. HoldsInFront(i, i - 1)
            BY <2>1, <2>2, <2>3 DEF RInsertOrder
        <3> QED
            BY <2>3, <2>5, <3>1 DEF HoldsInFront, f
    <2>10. j - i < cap /\ i - j < cap /\ i # j
        BY <2>1, <2>3 DEF full
    <2>11. dest # src
        BY <2>1, <2>3, <2>4, <2>5, <2>10, PlacesDiffer
    <2>12. ASSUME NEW k \in 0 .. i - 1 PROVE HoldsInFront(k, k)'
        <3>1. CASE k = j
            <4>1. mem'[Add(f, k, cap)] = old[k + 1]
                BY <2>5, <2>6, <2>7, <2>9, <2>11, <3>1
            <4> QED
                BY <2>8, <4>1 DEF HoldsInFront, f
        <3>2. CASE k # j
            <4>1. k \in 0 .. cap /\ k # i /\ k # j /\ k - i < cap /\ i - k < cap /\ k - j < cap /\ j - k < cap
                  /\ k \in 0 .. j - 1
                BY <2>1, <2>3, <3>2 DEF full
            <4>2. Add(f, k, cap) # src /\ Add(f, k, cap) # dest /\ Add(f, k, cap) \in Slots(cap)
                <5>1. Add(f, k, cap) # Add(f, i, cap)
                    BY <2>1, <2>3, <2>4, <4>1, PlacesDiffer
                <5>2. Add(f, k, cap) # Add(f, j, cap)
                    BY <2>1, <2>3, <2>4, <4>1, PlacesDiffer
                <5>3. Add(f, k, cap) \in Slots(cap)
                    BY <2>1, <2>4, <4>1, AddInRing
                <5> QED
                    BY <2>5, <5>1, <5>2, <5>3
            <4>3. HoldsInFront(k, k)
                BY <2>2, <4>1 DEF RInsertOrder
            <4> QED
                BY <2>7, <2>8, <4>2, <4>3 DEF HoldsInFront, f
        <3> QED
            BY <3>1, <3>2
    <2>13. ASSUME NEW k \in i + 1 .. size PROVE (k = size /\ full /\ i > 0) \/ HoldsInFront(k, k - 1)'
        <3> SUFFICES ASSUME ~(k = size /\ full /\ i > 0) PROVE HoldsInFront(k, k - 1)'
            OBVIOUS
        <3>1. k \in 0 .. cap /\ k # i /\ k # j /\ k - i < cap /\ i - k < cap /\ k - j < cap /\ j - k < cap
              /\ k \in j + 1 .. size
            BY <2>1, <2>3 DEF full
        <3>2. Add(f, k, cap) # src /\ Add(f, k, cap) # dest /\ Add(f, k, cap) \in Slots(cap)
            <4>1. Add(f, k, cap) # Add(f, i, cap)
                BY <2>1, <2>3, <2>4, <3>1, PlacesDiffer
            <4>2. Add(f, k, cap) # Add(f, j, cap)
                BY <2>1, <2>3, <2>4, <3>1, PlacesDiffer
            <4>3. Add(f, k, cap) \in Slots(cap)
                BY <2>1, <2>4, <3>1, AddInRing
            <4> QED
                BY <2>5, <4>1, <4>2, <4>3
        <3>3. HoldsInFront(k, k - 1)
            BY <2>2, <2>3, <3>1 DEF RInsertOrder
        <3> QED
            BY <2>7, <2>8, <3>2, <3>3 DEF HoldsInFront, f
    <2>14. ~NothrowMove => HoldsInFront(i, i - 1)'
        BY <2>3, <2>5, <2>6, <2>7, <2>8, <2>9 DEF HoldsInFront, MovedFrom, f
    <2>15. RInsertOrder(i)'
        BY <2>1, <2>2, <2>5, <2>8, <2>12, <2>13, <2>14 DEF RInsertOrder
    <2>16. Order'
        BY <2>3, <2>8, <2>15 DEF Order
    <2>17. HoldsOld'
        BY <1>1, <1>3, <2>1, <2>6, <2>8, MoveKeepsOld
    <2>18. RightLoop'
        BY <2>1, <2>8 DEF RightLoop
    <2> QED
        BY <1>1, <1>3, <2>1, <2>8, <2>16, <2>17, <2>18, LoopStep
<1> QED
    BY <1>2, <1>3 DEF RInsertShift

---------------------------------------------------------------------------
(* erase and rerase                                                        *)

\* The members show the contents without the elements from a up to b.
LEMMA ErasedAre ==
    ASSUME old \in Seq(Element), NEW a \in 0 .. Len(old), NEW b \in a .. Len(old),
           size' = Len(old) - (b - a),
           \A k \in 0 .. size' - 1 :
               mem'[Add(first', k, cap')] = IF k < a THEN old[k + 1] ELSE old[(k + (b - a)) + 1]
    PROVE  Contents' = Deque!Without(old, a + 1, b + 1)
<1> DEFINE n == Len(old)
           i == a + 1
           j == b + 1
           t == Deque!Without(old, i, j)
<1>1. n \in Nat
    BY LenProperties
<1>2. i \in 1 .. Len(old) + 1 /\ j \in i .. Len(old) + 1 /\ j - i = b - a
    BY <1>1
<1> HIDE DEF i, j
<1>3. /\ t \in Seq(Element) /\ Len(t) = Len(old) - (j - i)
      /\ \A k \in 1 .. Len(old) - (j - i) : t[k] = IF k < i THEN old[k] ELSE old[k + (j - i)]
    BY <1>2, WithoutFacts
<1> HIDE DEF t, n
<1>4. ASSUME NEW k \in 0 .. size' - 1 PROVE mem'[Add(first', k, cap')] = t[k + 1]
    <2>1. /\ k + 1 \in 1 .. Len(old) - (j - i) /\ (k + 1 < i <=> k < a)
          /\ (k + 1) + (j - i) = (k + (b - a)) + 1
        BY <1>1, <1>2 DEF i, j, n
    <2>2. t[k + 1] = IF k + 1 < i THEN old[k + 1] ELSE old[(k + 1) + (j - i)]
        BY <1>3, <2>1
    <2>3. mem'[Add(first', k, cap')] = IF k < a THEN old[k + 1] ELSE old[(k + (b - a)) + 1]
        OBVIOUS
    <2> QED
        BY <2>1, <2>2, <2>3
<1>5. Contents' = t
    BY <1>2, <1>3, <1>4, ContentsAre
<1> QED
    BY <1>5 DEF t, i, j

\* A throw in the loops of erase and rerase.
LEMMA EraseThrows ==
    ASSUME RInv, pc # "idle", IInv', size = Len(old),
           call.op \in {"erase", "rerase", "erase_range", "rerase_range"},
           MoveMayThrow /\ Throw /\ UNCHANGED <<object, fault>>
    PROVE  Refines
<1>1. CallInv /\ HoldsOld
    BY LoopFacts
<1>2. mem' = mem /\ cap' = cap /\ size' = Len(old) /\ ~NothrowMove /\ Throw
    BY DEF object, MoveMayThrow
<1> QED
    BY <1>1, <1>2, ThrowsBasic DEF Refines

\* A place that no step of a move touches.
LEMMA Untouched ==
    ASSUME cap \in Nat \ {0}, first \in Slots(cap),
           NEW a \in 0 .. cap - 1, NEW b \in 0 .. cap - 1, NEW k \in 0 .. cap - 1, k # a, k # b,
           \A q \in Slots(cap) : q = Add(first, a, cap) \/ q = Add(first, b, cap) \/ mem'[q] = mem[q]
    PROVE  mem'[Add(first, k, cap)] = mem[Add(first, k, cap)]
<1>1. /\ a \in 0 .. cap /\ b \in 0 .. cap /\ k \in 0 .. cap
      /\ k - a < cap /\ a - k < cap /\ k - b < cap /\ b - k < cap
    OBVIOUS
<1>2. Add(first, k, cap) # Add(first, a, cap)
    BY <1>1, PlacesDiffer
<1>3. Add(first, k, cap) # Add(first, b, cap)
    BY <1>1, PlacesDiffer
<1>4. Add(first, k, cap) \in Slots(cap)
    BY <1>1, AddInRing
<1> QED
    BY <1>2, <1>3, <1>4

LEMMA EraseRefines == RInv /\ Erase => Refines
<1> SUFFICES ASSUME RInv, Erase PROVE Refines
    OBVIOUS
<1>1. pc = "enter" /\ pc # "idle" /\ call.op = "erase"
    BY DEF Erase, Enter
<1>2. /\ Shape /\ CallFits /\ CallInv /\ HoldsOld
      /\ cap \in Nat /\ size \in 0 .. cap /\ Len(old) = size
      /\ \A k \in 0 .. size - 1 : mem[Add(first, k, cap)] = old[k + 1]
      /\ cap > 0 => cap \in Nat \ {0} /\ first \in Slots(cap) /\ last \in Slots(cap)
    BY <1>1, EnterFacts, LoopFacts
<1>3. call.i \in 0 .. size - 1
    BY <1>1, <1>2 DEF CallFits
<1>4. It(call.i) = Add(first, call.i, cap) /\ Increment(It(call.i), cap) = Add(first, call.i + 1, cap)
    <2>1. call.i \in 0 .. cap /\ call.i < cap /\ call.i # size /\ cap > 0
        BY <1>2, <1>3
    <2> QED
        BY <1>2, <2>1, AddInRing DEF It
<1>5. /\ cap' = cap /\ first' = first /\ size' = size /\ mem' = mem /\ call' = call /\ old' = old
      /\ pc' = "erase" /\ pos' = It(call.i) /\ dest' = It(call.i) /\ src' = Increment(It(call.i), cap)
      /\ Goto("erase")
    BY DEF Erase, object, Goto
<1>6. EraseOrder(call.i)'
    BY <1>2, <1>3, <1>4, <1>5 DEF EraseOrder, Holds
<1>7. Order'
    BY <1>2, <1>3, <1>5, <1>6 DEF Order
<1>8. HoldsOld' /\ RightLoop'
    BY <1>1, <1>2, <1>5, SameKeepsOld DEF RightLoop
<1> QED
    BY <1>1, <1>2, <1>5, <1>7, <1>8, LoopStep

\* What the invariants say in the loop of erase.
LEMMA ErasePlaces ==
    ASSUME RInv, pc = "erase"
    PROVE  /\ call.op = "erase" /\ CallInv /\ HoldsOld /\ cap \in Nat \ {0} /\ first \in Slots(cap)
           /\ size \in 1 .. cap /\ last = Add(first, size, cap) /\ mem \in [Slots(cap) -> Cell]
           /\ size = Len(old) /\ call.i \in 0 .. size - 1 /\ old \in Seq(Element)
           /\ \E j \in call.i .. size - 1 : EraseOrder(j) /\ (src = last <=> j = size - 1)
<1>1. /\ call.op = "erase" /\ CallInv /\ HoldsOld /\ CallFits /\ call.i \in Nat /\ old \in Seq(Element)
      /\ cap \in Nat /\ size \in 0 .. cap /\ last = Add(first, size, cap) /\ mem \in [Slots(cap) -> Cell]
      /\ \E j \in call.i .. size - 1 : EraseOrder(j)
      /\ cap > 0 => cap \in Nat \ {0} /\ first \in Slots(cap) /\ last \in Slots(cap)
    BY LoopFacts DEF RightLoop, Order
<1>2. PICK j \in call.i .. size - 1 : EraseOrder(j)
    BY <1>1
<1>3. size = Len(old) /\ size \in 1 .. cap /\ call.i \in 0 .. size - 1 /\ cap > 0
    BY <1>1, <1>2 DEF EraseOrder
<1>4. src = last <=> j = size - 1
    <2>1. CASE j = size - 1
        <3>1. j + 1 = size
            BY <1>3, <2>1
        <3> QED
            BY <1>1, <1>2, <2>1, <3>1 DEF EraseOrder
    <2>2. CASE j # size - 1
        <3>1. /\ j + 1 \in 0 .. cap /\ size \in 0 .. cap /\ j + 1 # size
              /\ (j + 1) - size < cap /\ size - (j + 1) < cap
            BY <1>1, <1>2, <1>3, <2>2
        <3>2. Add(first, j + 1, cap) # Add(first, size, cap)
            BY <1>1, <1>3, <3>1, PlacesDiffer
        <3> QED
            BY <1>1, <1>2, <2>2, <3>2 DEF EraseOrder
    <2> QED
        BY <2>1, <2>2
<1> QED
    BY <1>1, <1>2, <1>3, <1>4

LEMMA EraseShiftRefines == RInv /\ EraseShift => Refines
<1> SUFFICES ASSUME RInv, EraseShift PROVE Refines
    OBVIOUS
<1>1. pc = "erase" /\ pc # "idle" /\ src # last
    BY DEF EraseShift
<1>2. /\ call.op = "erase" /\ CallInv /\ HoldsOld /\ cap \in Nat \ {0} /\ first \in Slots(cap)
      /\ size \in 1 .. cap /\ mem \in [Slots(cap) -> Cell]
      /\ size = Len(old) /\ call.i \in 0 .. size - 1
    BY <1>1, ErasePlaces
<1>3. CASE MoveMayThrow /\ Throw /\ UNCHANGED <<object, fault>>
    <2>1. IInv'
        BY EraseShiftIInv DEF RInv
    <2> QED
        BY <1>1, <1>2, <1>3, <2>1, EraseThrows
<1>4. CASE /\ MoveTo(FALSE, dest, src) /\ dest' = src /\ src' = Increment(src, cap) /\ Goto("erase")
           /\ UNCHANGED <<cap, first, last, size, pos, construct, count, nbuf>>
    <2>1. PICK j \in call.i .. size - 1 : EraseOrder(j) /\ (src = last <=> j = size - 1)
        BY <1>1, ErasePlaces
    <2> DEFINE i == j + 1
    <2>2. /\ j \in 0 .. cap - 1 /\ j \in 0 .. cap /\ i \in 0 .. cap - 1 /\ i \in 0 .. cap /\ i < cap
          /\ i \in call.i .. size - 1 /\ i # j /\ i - j < cap /\ j - i < cap /\ i = j + 1
        BY <1>1, <1>2, <2>1
    <2> HIDE DEF i
    <2>3. dest = Add(first, j, cap) /\ src = Add(first, i, cap)
        BY <2>1, <2>2 DEF EraseOrder
    <2>4. src' = Add(first, i + 1, cap)
        BY <1>2, <1>4, <2>2, <2>3, AddInRing
    <2>5. dest \in Slots(cap) /\ src \in Slots(cap) /\ dest # src
        BY <1>2, <2>2, <2>3, AddInRing, PlacesDiffer
    <2>6. \A q \in Slots(cap) : mem'[q] = IF q = src THEN MovedFrom(mem[src])
                                          ELSE IF q = dest THEN mem[src] ELSE mem[q]
        <3>1. MoveTo(FALSE, dest, src) /\ mem \in [Slots(cap) -> Cell]
            BY <1>2, <1>4
        <3> QED
            BY <2>5, <3>1 DEF MoveTo
    <2>7. /\ cap' = cap /\ first' = first /\ size' = size /\ call' = call /\ old' = old
          /\ pc' = "erase" /\ pos' = pos /\ dest' = src
        BY <1>4 DEF Goto
    <2>8. \A q \in Slots(cap) : q = Add(first, i, cap) \/ q = Add(first, j, cap) \/ mem'[q] = mem[q]
        BY <2>3, <2>6
    <2>9. ASSUME NEW k \in 0 .. cap - 1, k # i, k # j, NEW l, Holds(k, l) PROVE Holds(k, l)'
        <3>1. mem'[Add(first, k, cap)] = mem[Add(first, k, cap)]
            BY <1>2, <2>2, <2>8, <2>9, Untouched
        <3> QED
            BY <2>7, <2>9, <3>1 DEF Holds
    <2>10. Holds(j, j + 1)'
        <3>1. Holds(i, i)
            BY <2>1, <2>2 DEF EraseOrder
        <3> QED
            BY <2>2, <2>3, <2>5, <2>6, <2>7, <3>1 DEF Holds
    <2>11. ASSUME NEW k \in 0 .. call.i - 1 PROVE Holds(k, k)'
        <3>1. k \in 0 .. cap - 1 /\ k # i /\ k # j
            BY <1>2, <2>1, <2>2
        <3> QED
            BY <2>1, <2>9, <3>1 DEF EraseOrder
    <2>12. ASSUME NEW k \in call.i .. i - 1 PROVE Holds(k, k + 1)'
        <3>1. k \in 0 .. cap - 1 /\ k # i /\ k \in call.i .. j
            BY <1>2, <2>1, <2>2
        <3>2. CASE k = j
            BY <2>10, <3>2
        <3>3. CASE k # j
            <4>1. k \in call.i .. j - 1
                BY <1>2, <2>2, <3>1, <3>3
            <4> QED
                BY <2>1, <2>9, <3>1, <3>3, <4>1 DEF EraseOrder
        <3> QED
            BY <3>2, <3>3
    <2>13. ASSUME NEW k \in i + 1 .. size - 1 PROVE Holds(k, k)'
        <3>1. k \in 0 .. cap - 1 /\ k # i /\ k # j /\ k \in j + 1 .. size - 1
            BY <1>2, <2>1, <2>2
        <3> QED
            BY <2>1, <2>9, <3>1 DEF EraseOrder
    <2>14. EraseOrder(i)'
        BY <1>2, <2>1, <2>3, <2>4, <2>7, <2>11, <2>12, <2>13 DEF EraseOrder
    <2>15. Order'
        BY <2>2, <2>7, <2>14 DEF Order
    <2>16. HoldsOld'
        BY <1>1, <1>2, <1>4, <2>5, <2>7, MoveKeepsOld
    <2>17. RightLoop'
        BY <1>2, <2>7 DEF RightLoop
    <2> QED
        BY <1>1, <1>2, <1>4, <2>7, <2>15, <2>16, <2>17, LoopStep
<1> QED
    BY <1>3, <1>4 DEF EraseShift

LEMMA EraseLastRefines == RInv /\ EraseLast => Refines
<1> SUFFICES ASSUME RInv, EraseLast PROVE Refines
    OBVIOUS
<1>1. pc = "erase" /\ pc # "idle" /\ src = last
    BY DEF EraseLast
<1>2. /\ call.op = "erase" /\ CallInv /\ HoldsOld /\ cap \in Nat \ {0} /\ first \in Slots(cap)
      /\ size \in 1 .. cap /\ mem \in [Slots(cap) -> Cell] /\ last = Add(first, size, cap)
      /\ size = Len(old) /\ call.i \in 0 .. size - 1 /\ old \in Seq(Element)
    BY <1>1, ErasePlaces
<1> DEFINE j == size - 1
           b == call.i + 1
<1>3. EraseOrder(j)
    BY <1>1, ErasePlaces
<1>4. j \in 0 .. cap - 1 /\ j \in 0 .. cap /\ size \in 0 .. cap /\ size > 0 /\ call.i \in 0 .. j
      /\ call.i \in 0 .. cap - 1 /\ call.i \in 0 .. cap /\ call.i < cap
      /\ call.i \in 0 .. Len(old) /\ b \in call.i .. Len(old) /\ b - call.i = 1
      /\ j = Len(old) - (b - call.i) /\ j < cap
    BY <1>2
<1>5. last' = Add(first, j, cap) /\ cap' = cap /\ first' = first /\ size' = j
    BY <1>2, <1>4, AddInRing DEF EraseLast
<1>6. pos = Add(first, call.i, cap) /\ pos \in Slots(cap) /\ Index(pos, first, cap) = call.i
    BY <1>2, <1>3, <1>4, AddInRing DEF EraseOrder
<1> HIDE DEF j, b
<1>7. \A q \in Slots(cap) : q = Add(first, j, cap) \/ mem'[q] = mem[q]
    BY <1>2, <1>5 DEF EraseLast, Destroy
<1>8. ASSUME NEW k \in 0 .. size' - 1
      PROVE mem'[Add(first', k, cap')] = IF k < call.i THEN old[k + 1] ELSE old[(k + (b - call.i)) + 1]
    <2>1. k \in 0 .. cap - 1 /\ k # j /\ k \in 0 .. j - 1 /\ k + (b - call.i) = k + 1
        BY <1>2, <1>4, <1>5
    <2>2. mem'[Add(first, k, cap)] = mem[Add(first, k, cap)]
        BY <1>2, <1>4, <1>7, <2>1, Untouched
    <2>3. /\ k < call.i => k \in 0 .. call.i - 1
          /\ ~(k < call.i) => k \in call.i .. j - 1
        BY <1>2, <1>4, <2>1
    <2>4. /\ k < call.i => Holds(k, k)
          /\ ~(k < call.i) => Holds(k, k + 1)
        BY <1>3, <2>3 DEF EraseOrder
    <2> QED
        BY <1>5, <2>1, <2>2, <2>4 DEF Holds
<1>9. Contents' = Deque!Without(old, call.i + 1, b + 1)
    BY <1>2, <1>4, <1>5, <1>8, ErasedAre
<1>10. Return(IF last' = pos THEN NULL ELSE pos)
    BY DEF EraseLast
<1>11. Position(ret)' = call.i + 1
    <2>1. CASE last' = pos
        <3>1. call.i = j
            <4>1. call.i # j => Add(first, call.i, cap) # Add(first, j, cap)
                <5>1. call.i - j < cap /\ j - call.i < cap
                    BY <1>2, <1>4
                <5> QED
                    BY <1>2, <1>4, <5>1, PlacesDiffer
            <4> QED
                BY <1>5, <1>6, <2>1, <4>1
        <3> QED
            BY <1>5, <1>10, <2>1, <3>1 DEF Return, Position, NULL, NoIter
    <2>2. CASE last' # pos
        <3>1. pos # NULL /\ pos # NoIter /\ ret' = pos
            BY <1>6, <1>10, <2>2 DEF Slots, NULL, NoIter, Return
        <3> QED
            BY <1>5, <1>6, <3>1 DEF Position
    <2> QED
        BY <2>1, <2>2
<1>12. Deque!After(AbstractCall(call), old, cap)
          = <<Deque!Without(old, call.i + 1, b + 1), cap, call.i + 1>>
    <2>1. AbstractCall(call).op = "erase" /\ AbstractCall(call).i = call.i + 1
        BY <1>1, <1>2, AbstractParts DEF CallInv, CallFits
    <2> QED
        BY <2>1 DEF Deque!After, Deque!EraseOutcome, b
<1> QED
    BY <1>1, <1>2, <1>5, <1>9, <1>10, <1>11, <1>12, Returns DEF Refines

\* The position of an iterator that was returned.
LEMMA PlaceShown ==
    ASSUME cap \in Nat \ {0}, cap' = cap, first' \in Slots(cap), NEW k \in 0 .. cap - 1,
           ret' = Add(first', k, cap)
    PROVE  Position(ret)' = k + 1
<1> DEFINE p == Add(first', k, cap)
<1>1. k \in 0 .. cap /\ k < cap
    OBVIOUS
<1>2. p \in Slots(cap) /\ Index(p, first', cap) = k
    BY <1>1, AddInRing
<1> HIDE DEF p
<1>3. p # NULL /\ p # NoIter
    BY <1>2 DEF Slots, NULL, NoIter
<1>4. ret' = p
    BY DEF p
<1> QED
    BY <1>2, <1>3, <1>4 DEF Position

LEMMA EndShown == ret' = NULL => Position(ret)' = size' + 1
BY DEF Position, NULL, NoIter

LEMMA REraseRefines == RInv /\ RErase => Refines
<1> SUFFICES ASSUME RInv, RErase PROVE Refines
    OBVIOUS
<1>1. pc = "enter" /\ pc # "idle" /\ call.op = "rerase"
    BY DEF RErase, Enter
<1>2. /\ Shape /\ CallFits /\ CallInv /\ HoldsOld
      /\ cap \in Nat /\ size \in 0 .. cap /\ Len(old) = size
      /\ \A k \in 0 .. size - 1 : mem[Add(first, k, cap)] = old[k + 1]
      /\ cap > 0 => cap \in Nat \ {0} /\ first \in Slots(cap) /\ last \in Slots(cap)
    BY <1>1, EnterFacts, LoopFacts
<1>3. call.i \in 0 .. size - 1
    BY <1>1, <1>2 DEF CallFits
<1>4. It(call.i) = Add(first, call.i, cap)
    BY <1>2, <1>3 DEF It
<1>5. /\ cap' = cap /\ first' = first /\ size' = size /\ mem' = mem /\ call' = call /\ old' = old
      /\ pc' = "rerase" /\ pos' = It(call.i) /\ dest' = It(call.i) /\ src' = Decrement(It(call.i), cap)
      /\ Goto("rerase")
    BY DEF RErase, object, Goto
<1>6. REraseOrder(call.i)'
    BY <1>2, <1>3, <1>4, <1>5 DEF REraseOrder, Holds
<1>7. Order'
    BY <1>2, <1>3, <1>5, <1>6 DEF Order
<1>8. HoldsOld' /\ RightLoop'
    BY <1>1, <1>2, <1>5, SameKeepsOld DEF RightLoop
<1> QED
    BY <1>1, <1>2, <1>5, <1>7, <1>8, LoopStep

\* What the invariants say in the loop of rerase.
LEMMA RErasePlaces ==
    ASSUME RInv, pc = "rerase"
    PROVE  /\ call.op = "rerase" /\ CallInv /\ HoldsOld /\ cap \in Nat \ {0} /\ first \in Slots(cap)
           /\ size \in 1 .. cap /\ last = Add(first, size, cap) /\ mem \in [Slots(cap) -> Cell]
           /\ size = Len(old) /\ call.i \in 0 .. size - 1 /\ old \in Seq(Element)
           /\ \E j \in 0 .. call.i : REraseOrder(j) /\ (dest = first <=> j = 0)
<1>1. /\ call.op = "rerase" /\ CallInv /\ HoldsOld /\ CallFits /\ call.i \in Nat /\ old \in Seq(Element)
      /\ cap \in Nat /\ size \in 0 .. cap /\ last = Add(first, size, cap) /\ mem \in [Slots(cap) -> Cell]
      /\ \E j \in 0 .. call.i : REraseOrder(j)
      /\ cap > 0 => cap \in Nat \ {0} /\ first \in Slots(cap) /\ last \in Slots(cap)
    BY LoopFacts DEF RightLoop, Order
<1>2. PICK j \in 0 .. call.i : REraseOrder(j)
    BY <1>1
<1>3. size = Len(old) /\ call.i \in 0 .. size - 1
    BY <1>1, <1>2 DEF REraseOrder, CallFits
<1>4. size \in 1 .. cap /\ cap \in Nat \ {0} /\ first \in Slots(cap)
    BY <1>1, <1>3
<1>5. dest = first <=> j = 0
    <2>1. Add(first, 0, cap) = first /\ dest = Add(first, j, cap)
        BY <1>2, <1>4, AddInRing DEF REraseOrder
    <2>2. j # 0 => Add(first, j, cap) # Add(first, 0, cap)
        <3>1. j \in 0 .. cap /\ 0 \in 0 .. cap /\ j - 0 < cap /\ 0 - j < cap
            BY <1>2, <1>3, <1>4
        <3> QED
            BY <1>4, <3>1, PlacesDiffer
    <2> QED
        BY <2>1, <2>2
<1> QED
    BY <1>1, <1>2, <1>3, <1>4, <1>5

LEMMA REraseShiftRefines == RInv /\ REraseShift => Refines
<1> SUFFICES ASSUME RInv, REraseShift PROVE Refines
    OBVIOUS
<1>1. pc = "rerase" /\ pc # "idle" /\ dest # first
    BY DEF REraseShift
<1>2. /\ call.op = "rerase" /\ CallInv /\ HoldsOld /\ cap \in Nat \ {0} /\ first \in Slots(cap)
      /\ size \in 1 .. cap /\ mem \in [Slots(cap) -> Cell]
      /\ size = Len(old) /\ call.i \in 0 .. size - 1
    BY <1>1, RErasePlaces
<1>3. CASE MoveMayThrow /\ Throw /\ UNCHANGED <<object, fault>>
    <2>1. IInv'
        BY REraseShiftIInv DEF RInv
    <2> QED
        BY <1>1, <1>2, <1>3, <2>1, EraseThrows
<1>4. CASE /\ MoveTo(FALSE, dest, src) /\ dest' = src /\ src' = Decrement(src, cap) /\ Goto("rerase")
           /\ UNCHANGED <<cap, first, last, size, pos, construct, count, nbuf>>
    <2>1. PICK j \in 0 .. call.i : REraseOrder(j) /\ (dest = first <=> j = 0)
        BY <1>1, RErasePlaces
    <2> DEFINE i == j - 1
    <2>2. /\ j \in 0 .. cap - 1 /\ j \in 0 .. cap /\ j > 0 /\ i \in 0 .. cap - 1 /\ i \in 0 .. cap /\ i < cap
          /\ i \in 0 .. call.i /\ i # j /\ i - j < cap /\ j - i < cap /\ j = i + 1 /\ i = j - 1
        BY <1>1, <1>2, <2>1
    <2> HIDE DEF i
    <2>3. dest = Add(first, j, cap) /\ src = Add(first, i, cap)
        <3>1. dest = Add(first, j, cap) /\ src = Decrement(Add(first, j, cap), cap)
            BY <2>1 DEF REraseOrder
        <3>2. Add(first, j - 1, cap) = Decrement(Add(first, j, cap), cap)
            BY <1>2, <2>2, AddInRing
        <3> QED
            BY <2>2, <3>1, <3>2
    <2>4. src' = Decrement(Add(first, i, cap), cap)
        BY <1>4, <2>3
    <2>5. dest \in Slots(cap) /\ src \in Slots(cap) /\ dest # src
        BY <1>2, <2>2, <2>3, AddInRing, PlacesDiffer
    <2>6. \A q \in Slots(cap) : mem'[q] = IF q = src THEN MovedFrom(mem[src])
                                          ELSE IF q = dest THEN mem[src] ELSE mem[q]
        <3>1. MoveTo(FALSE, dest, src) /\ mem \in [Slots(cap) -> Cell]
            BY <1>2, <1>4
        <3> QED
            BY <2>5, <3>1 DEF MoveTo
    <2>7. /\ cap' = cap /\ first' = first /\ size' = size /\ call' = call /\ old' = old
          /\ pc' = "rerase" /\ pos' = pos /\ dest' = src
        BY <1>4 DEF Goto
    <2>8. \A q \in Slots(cap) : q = Add(first, i, cap) \/ q = Add(first, j, cap) \/ mem'[q] = mem[q]
        BY <2>3, <2>6
    <2>9. ASSUME NEW k \in 0 .. cap - 1, k # i, k # j, NEW l, Holds(k, l) PROVE Holds(k, l)'
        <3>1. mem'[Add(first, k, cap)] = mem[Add(first, k, cap)]
            BY <1>2, <2>2, <2>8, <2>9, Untouched
        <3> QED
            BY <2>7, <2>9, <3>1 DEF Holds
    <2>10. Holds(j, j - 1)'
        <3>1. i \in 0 .. j - 1 /\ j = i + 1
            BY <2>2
        <3>2. Holds(i, i)
            BY <2>1, <3>1 DEF REraseOrder
        <3>3. mem'[Add(first, j, cap)] = mem[Add(first, i, cap)]
            BY <2>3, <2>5, <2>6
        <3> QED
            BY <2>2, <2>7, <3>2, <3>3 DEF Holds
    <2>11. ASSUME NEW k \in 0 .. i - 1 PROVE Holds(k, k)'
        <3>1. k \in 0 .. cap - 1 /\ k # i /\ k # j /\ k \in 0 .. j - 1
            BY <1>2, <2>1, <2>2
        <3> QED
            BY <2>1, <2>9, <3>1 DEF REraseOrder
    <2>12. ASSUME NEW k \in i + 1 .. call.i PROVE Holds(k, k - 1)'
        <3>1. k \in 0 .. cap - 1 /\ k # i
            BY <1>2, <2>1, <2>2
        <3>2. CASE k = j
            BY <2>10, <3>2
        <3>3. CASE k # j
            <4>1. k \in j + 1 .. call.i
                BY <1>2, <2>2, <3>1, <3>3
            <4> QED
                BY <2>1, <2>9, <3>1, <3>3, <4>1 DEF REraseOrder
        <3> QED
            BY <3>2, <3>3
    <2>13. ASSUME NEW k \in call.i + 1 .. size - 1 PROVE Holds(k, k)'
        <3>1. k \in 0 .. cap - 1 /\ k # i /\ k # j
            BY <1>2, <2>1, <2>2
        <3> QED
            BY <2>1, <2>9, <3>1 DEF REraseOrder
    <2>14. REraseOrder(i)'
        BY <1>2, <2>1, <2>3, <2>4, <2>7, <2>11, <2>12, <2>13 DEF REraseOrder
    <2>15. Order'
        BY <2>2, <2>7, <2>14 DEF Order
    <2>16. HoldsOld'
        BY <1>1, <1>2, <1>4, <2>5, <2>7, MoveKeepsOld
    <2>17. RightLoop'
        BY <1>2, <2>7 DEF RightLoop
    <2> QED
        BY <1>1, <1>2, <1>4, <2>7, <2>15, <2>16, <2>17, LoopStep
<1> QED
    BY <1>3, <1>4 DEF REraseShift

LEMMA REraseFirstRefines == RInv /\ REraseFirst => Refines
<1> SUFFICES ASSUME RInv, REraseFirst PROVE Refines
    OBVIOUS
<1>1. pc = "rerase" /\ pc # "idle" /\ dest = first
    BY DEF REraseFirst
<1>2. /\ call.op = "rerase" /\ CallInv /\ HoldsOld /\ cap \in Nat \ {0} /\ first \in Slots(cap)
      /\ size \in 1 .. cap /\ mem \in [Slots(cap) -> Cell] /\ last = Add(first, size, cap)
      /\ size = Len(old) /\ call.i \in 0 .. size - 1 /\ old \in Seq(Element)
    BY <1>1, RErasePlaces
<1> DEFINE b == call.i + 1
<1>3. REraseOrder(0)
    BY <1>1, RErasePlaces
<1>4. /\ call.i \in 0 .. cap - 1 /\ call.i \in 0 .. cap /\ call.i < cap /\ 0 \in 0 .. cap - 1
      /\ call.i \in 0 .. Len(old) /\ b \in call.i .. Len(old) /\ b - call.i = 1
      /\ size - 1 = Len(old) - (b - call.i)
    BY <1>2
<1>5. /\ cap' = cap /\ first' = Increment(first, cap) /\ size' = size - 1 /\ first' \in Slots(cap)
      /\ Add(first, 0, cap) = first /\ first' = Add(first, 1, cap)
    <2>1. Add(first, 0, cap) = first /\ 0 < cap /\ 0 \in 0 .. cap
        BY <1>2, AddInRing
    <2>2. Add(first, 0 + 1, cap) = Increment(Add(first, 0, cap), cap)
        BY <1>2, <2>1, AddInRing
    <2>3. cap' = cap /\ first' = Increment(first, cap) /\ size' = size - 1
        BY DEF REraseFirst
    <2>4. Increment(first, cap) \in Slots(cap)
        BY <1>2, StepInRing
    <2>5. 0 + 1 = 1
        OBVIOUS
    <2> QED
        BY <2>1, <2>2, <2>3, <2>4, <2>5
<1>6. pos = Add(first, call.i, cap)
    BY <1>3 DEF REraseOrder
<1> HIDE DEF b
<1>7. \A q \in Slots(cap) : q = Add(first, 0, cap) \/ mem'[q] = mem[q]
    BY <1>2, <1>5 DEF REraseFirst, Destroy
<1>8. ASSUME NEW k \in 0 .. size' - 1
      PROVE mem'[Add(first', k, cap')] = IF k < call.i THEN old[k + 1] ELSE old[(k + (b - call.i)) + 1]
    <2> DEFINE l == k + 1
    <2>1. /\ k \in 0 .. cap - 1 /\ l \in 0 .. cap - 1 /\ l # 0 /\ k + (b - call.i) = l /\ l = k + 1
          /\ k < call.i => l \in 0 + 1 .. call.i
          /\ ~(k < call.i) => l \in call.i + 1 .. size - 1
          /\ l - 1 = k
        BY <1>2, <1>4, <1>5
    <2>2. Add(first', k, cap') = Add(first, l, cap)
        BY <1>2, <1>5, <2>1, PlacesMove
    <2> HIDE DEF l
    <2>3. mem'[Add(first, l, cap)] = mem[Add(first, l, cap)]
        BY <1>2, <1>4, <1>7, <2>1, Untouched
    <2>4. /\ k < call.i => Holds(l, l - 1)
          /\ ~(k < call.i) => Holds(l, l)
        BY <1>3, <2>1 DEF REraseOrder
    <2> QED
        BY <2>1, <2>2, <2>3, <2>4 DEF Holds
<1>9. Contents' = Deque!Without(old, call.i + 1, b + 1)
    BY <1>2, <1>4, <1>5, <1>8, ErasedAre
<1>10. Return(IF dest # pos THEN pos ELSE IF size' = 0 THEN NULL ELSE first')
    BY DEF REraseFirst
<1> DEFINE r == IF call.i = 0 THEN 1 ELSE call.i
<1>11. Position(ret)' = r
    <2>1. CASE call.i = 0
        <3>1. dest = pos
            BY <1>1, <1>5, <1>6, <2>1
        <3>2. CASE size' = 0
            <4>1. ret' = NULL
                BY <1>10, <3>1, <3>2 DEF Return
            <4> QED
                BY <2>1, <3>2, <4>1, EndShown
        <3>3. CASE size' # 0
            <4>1. ret' = first'
                BY <1>10, <3>1, <3>3 DEF Return
            <4>2. ret' = Add(first', 0, cap)
                BY <1>2, <1>5, <4>1, AddInRing
            <4>3. Position(ret)' = 0 + 1
                BY <1>2, <1>4, <1>5, <4>2, PlaceShown
            <4> QED
                BY <2>1, <4>3
        <3> QED
            BY <3>2, <3>3
    <2>2. CASE call.i # 0
        <3> DEFINE k == call.i - 1
        <3>1. k \in 0 .. cap - 1 /\ k + 1 = call.i /\ call.i - 0 < cap /\ 0 - call.i < cap /\ 0 \in 0 .. cap
            BY <1>2, <1>4, <2>2
        <3>2. pos # dest
            <4>1. Add(first, call.i, cap) # Add(first, 0, cap)
                BY <1>2, <1>4, <2>2, <3>1, PlacesDiffer
            <4> QED
                BY <1>1, <1>5, <1>6, <4>1
        <3> HIDE DEF k
        <3>3. Add(first', k, cap) = Add(first, call.i, cap)
            BY <1>2, <1>5, <3>1, PlacesMove
        <3>4. ret' = Add(first', k, cap)
            BY <1>6, <1>10, <3>2, <3>3 DEF Return
        <3>5. Position(ret)' = k + 1
            BY <1>2, <1>5, <3>1, <3>4, PlaceShown
        <3> QED
            BY <2>2, <3>1, <3>5
    <2> QED
        BY <2>1, <2>2
<1>12. Deque!After(AbstractCall(call), old, cap)
          = <<Deque!Without(old, call.i + 1, b + 1), cap, r>>
    <2>1. AbstractCall(call).op = "rerase" /\ AbstractCall(call).i = call.i + 1
        BY <1>1, <1>2, AbstractParts DEF CallInv, CallFits
    <2>2. (call.i + 1 = 1 <=> call.i = 0) /\ (call.i + 1) - 1 = call.i
        BY <1>4
    <2> QED
        BY <2>1, <2>2 DEF Deque!After, Deque!REraseOutcome, b
<1> QED
    BY <1>1, <1>2, <1>5, <1>9, <1>10, <1>11, <1>12, Returns DEF Refines

---------------------------------------------------------------------------
(* erase and rerase of a range                                             *)

\* The range of the call.
LEMMA RangeFacts ==
    ASSUME RInv, pc # "idle", call.op \in {"erase_range", "rerase_range"}
    PROVE  /\ call.i \in 0 .. Len(old) /\ call.j \in call.i .. Len(old)
           /\ call.i \in Nat /\ call.j \in Nat /\ Len(old) \in Nat /\ Len(old) <= cap
           /\ AbstractCall(call).op = call.op /\ AbstractCall(call).i = call.i + 1
           /\ AbstractCall(call).j = call.j + 1
<1>1. CallInv /\ CallFits /\ old \in Seq(Element) /\ Len(old) <= cap
    BY LoopFacts DEF CallInv
<1>2. call.i \in 0 .. Len(old) /\ call.j \in call.i .. Len(old) /\ Len(old) \in Nat
    BY <1>1, LenProperties DEF CallFits
<1>3. /\ AbstractCall(call).op = call.op /\ AbstractCall(call).i = call.i + 1
      /\ AbstractCall(call).j = call.j + 1
    BY <1>1, AbstractParts DEF CallFits
<1> QED
    BY <1>1, <1>2, <1>3

\* An empty range: nothing happens, and its first is returned.
LEMMA EmptyRange ==
    ASSUME RInv, pc = "enter", call.op \in {"erase_range", "rerase_range"},
           It(call.i) = It(call.j), Return(It(call.i)), UNCHANGED object
    PROVE  Refines
<1>1. /\ Shape /\ CallFits /\ CallInv /\ cap \in Nat /\ size \in 0 .. cap /\ Len(old) = size
      /\ old = Contents /\ old \in Seq(Element)
      /\ cap > 0 => cap \in Nat \ {0} /\ first \in Slots(cap)
      /\ pc # "idle"
    BY EnterFacts
<1>2. /\ call.i \in 0 .. size /\ call.j \in call.i .. size
      /\ AbstractCall(call).op = call.op /\ AbstractCall(call).i = call.i + 1
      /\ AbstractCall(call).j = call.j + 1
    BY <1>1, RangeFacts
<1>3. call.i = call.j
    <2>1. CASE call.j = size
        <3>1. It(call.j) = NULL
            BY <2>1 DEF It
        <3>2. It(call.i) = NULL => call.i = size
            BY <1>1, <1>2, Iterator
        <3> QED
            BY <2>1, <3>1, <3>2
    <2>2. CASE call.j < size
        <3>1. call.i < size /\ call.i \in 0 .. size /\ call.j \in 0 .. size
            BY <1>1, <1>2, <2>2
        <3>2. Index(It(call.i), first, cap) = call.i
            BY <1>1, <3>1, Iterator
        <3>3. Index(It(call.j), first, cap) = call.j
            BY <1>1, <2>2, <3>1, Iterator
        <3> QED
            BY <3>2, <3>3
    <2> QED
        BY <1>1, <1>2, <2>1, <2>2
<1>4. cap' = cap /\ size' = size /\ first' = first /\ Contents' = old /\ ret' = It(call.i)
    BY <1>1 DEF object, Contents, Return
<1>5. Position(ret)' = call.i + 1
    <2>1. CASE call.i = size
        BY <1>4, <2>1, EndShown DEF It
    <2>2. CASE call.i # size
        <3>1. cap \in Nat \ {0} /\ first \in Slots(cap) /\ call.i \in 0 .. cap - 1
            BY <1>1, <1>2, <2>2
        <3>2. ret' = Add(first', call.i, cap) /\ first' \in Slots(cap)
            BY <1>4, <2>2, <3>1 DEF It
        <3> QED
            BY <1>4, <3>1, <3>2, PlaceShown
    <2> QED
        BY <2>1, <2>2
<1> DEFINE a == call.i + 1
<1>6. Deque!Without(old, a, a) = old
    <2>1. a \in 1 .. Len(old) + 1 /\ a \in a .. Len(old) + 1 /\ Len(old) - (a - a) = Len(old) /\ Len(old) \in Nat
        BY <1>1, <1>2
    <2> HIDE DEF a
    <2>2. /\ Deque!Without(old, a, a) \in Seq(Element) /\ Len(Deque!Without(old, a, a)) = Len(old) - (a - a)
          /\ \A k \in 1 .. Len(old) - (a - a) : Deque!Without(old, a, a)[k] =
                 IF k < a THEN old[k] ELSE old[k + (a - a)]
        BY <1>1, <2>1, WithoutFacts
    <2>3. \A k \in 1 .. Len(old) : k + (a - a) = k
        BY <2>1
    <2> DEFINE w == Deque!Without(old, a, a)
    <2>4. w \in Seq(Element) /\ Len(w) = Len(old) /\ \A k \in 1 .. Len(w) : w[k] = old[k]
        BY <2>1, <2>2, <2>3
    <2> HIDE DEF w
    <2>5. w = old
        BY <1>1, <2>4, SeqEqual
    <2> QED
        BY <2>5 DEF w
<1>7. Deque!After(AbstractCall(call), old, cap) = <<old, cap, call.i + 1>>
    <2>1. AbstractCall(call).i = a /\ AbstractCall(call).j = a
        BY <1>2, <1>3
    <2> HIDE DEF a
    <2>2. Deque!After(AbstractCall(call), old, cap) = <<Deque!Without(old, a, a), cap, a>>
        BY <1>2, <2>1 DEF Deque!After, Deque!EraseRangeOutcome, Deque!REraseRangeOutcome
    <2> QED
        BY <1>6, <2>2 DEF a
<1> QED
    BY <1>1, <1>4, <1>5, <1>7, Returns DEF Refines

\* A range that is not empty.
LEMMA FilledRange ==
    ASSUME RInv, pc = "enter", call.op \in {"erase_range", "rerase_range"}, It(call.i) # It(call.j)
    PROVE  /\ call.i \in 0 .. size - 1 /\ call.j \in call.i + 1 .. size /\ call.j - call.i > 0
           /\ cap \in Nat \ {0} /\ first \in Slots(cap) /\ size \in 1 .. cap /\ size = Len(old)
           /\ CallInv /\ HoldsOld /\ last = Add(first, size, cap)
           /\ \A k \in 0 .. size - 1 : Holds(k, k)
<1>1. /\ Shape /\ CallFits /\ CallInv /\ HoldsOld /\ cap \in Nat /\ size \in 0 .. cap /\ Len(old) = size
      /\ \A k \in 0 .. size - 1 : Holds(k, k)
      /\ cap > 0 => cap \in Nat \ {0} /\ first \in Slots(cap)
      /\ pc # "idle" /\ last = Add(first, size, cap)
    BY EnterFacts, LoopFacts DEF Holds
<1>2. call.i \in 0 .. size /\ call.j \in call.i .. size
    BY <1>1, RangeFacts
<1>3. call.i # call.j
    OBVIOUS
<1> QED
    BY <1>1, <1>2, <1>3

LEMMA EraseRangeRefines == RInv /\ EraseRange => Refines
<1> SUFFICES ASSUME RInv, EraseRange PROVE Refines
    OBVIOUS
<1>1. pc = "enter" /\ pc # "idle" /\ call.op = "erase_range"
    BY DEF EraseRange, Enter
<1>2. CASE It(call.i) = It(call.j) /\ Return(It(call.i)) /\ UNCHANGED <<object, fault>>
    <2>1. UNCHANGED object
        BY <1>2
    <2> QED
        BY <1>1, <1>2, <2>1, EmptyRange
<1>3. CASE /\ It(call.i) # It(call.j) /\ pos' = It(call.i) /\ dest' = It(call.i) /\ src' = It(call.j)
           /\ Goto("erase_range") /\ UNCHANGED <<object, construct, count, nbuf, fault>>
    <2>1. /\ call.i \in 0 .. size - 1 /\ call.j \in call.i + 1 .. size /\ call.j - call.i > 0
          /\ cap \in Nat \ {0} /\ first \in Slots(cap) /\ size \in 1 .. cap /\ size = Len(old)
          /\ CallInv /\ HoldsOld
          /\ \A k \in 0 .. size - 1 : Holds(k, k)
        BY <1>1, <1>3, FilledRange
    <2>2. /\ cap' = cap /\ first' = first /\ size' = size /\ mem' = mem /\ call' = call /\ old' = old
          /\ pc' = "erase_range" /\ Goto("erase_range")
        BY <1>3 DEF object, Goto
    <2>3. /\ It(call.i) = Add(first, call.i, cap)
          /\ It(call.j) = IF call.j = size THEN NULL ELSE Add(first, call.j, cap)
          /\ call.i + 0 = call.i /\ call.j + 0 = call.j
        BY <2>1 DEF It
    <2>4. (0 = Len(old) - call.j <=> call.j = size) /\ size \in Len(old) - (call.j - call.i) + 1 .. Len(old)
        BY <2>1
    <2>5. EraseRangeOrder(0)'
        <3>1. \A k \in 0 .. call.i - 1 : Holds(k, k)'
            BY <2>1, <2>2 DEF Holds
        <3>2. \A k \in call.i .. call.i + 0 - 1 : Holds(k, k + (call.j - call.i))'
            BY <2>1
        <3>3. \A k \in call.j + 0 .. Len(old) - 1 : Holds(k, k)'
            BY <2>1, <2>2 DEF Holds
        <3>4. /\ pos' = Add(first', call.i, cap')
              /\ dest' = Add(first', call.i + 0, cap')
              /\ IF 0 = Len(old) - call.j
                 THEN src' = NULL /\ size' \in Len(old) - (call.j - call.i) + 1 .. Len(old)
                 ELSE src' = Add(first', call.j + 0, cap') /\ size' = Len(old)
            BY <1>3, <2>1, <2>2, <2>3, <2>4
        <3> QED
            BY <2>1, <2>2, <3>1, <3>2, <3>3, <3>4 DEF EraseRangeOrder
    <2>6. 0 \in 0 .. Len(old) - call.j
        BY <2>1
    <2>7. Order'
        BY <2>2, <2>5, <2>6 DEF Order
    <2>8. HoldsOld' /\ RightLoop'
        BY <1>1, <2>1, <2>2, SameKeepsOld DEF RightLoop
    <2> QED
        BY <1>1, <2>1, <2>2, <2>7, <2>8, LoopStep
<1> QED
    BY <1>2, <1>3 DEF EraseRange

\* What the invariants say in the loop of erase of a range.
LEMMA EraseRangePlaces ==
    ASSUME RInv, pc = "erase_range"
    PROVE  /\ call.op = "erase_range" /\ CallInv /\ HoldsOld /\ cap \in Nat \ {0} /\ first \in Slots(cap)
           /\ size \in 1 .. cap /\ last = Add(first, size, cap) /\ mem \in [Slots(cap) -> Cell]
           /\ old \in Seq(Element) /\ Len(old) \in 1 .. cap
           /\ call.i \in 0 .. Len(old) - 1 /\ call.j \in call.i + 1 .. Len(old)
           /\ \E t \in 0 .. Len(old) - call.j : EraseRangeOrder(t) /\ (src = NULL <=> t = Len(old) - call.j)
<1>1. /\ call.op = "erase_range" /\ CallInv /\ HoldsOld /\ old \in Seq(Element)
      /\ cap \in Nat /\ size \in 0 .. cap /\ last = Add(first, size, cap) /\ mem \in [Slots(cap) -> Cell]
      /\ \E t \in 0 .. Len(old) - call.j : EraseRangeOrder(t)
      /\ cap > 0 => cap \in Nat \ {0} /\ first \in Slots(cap)
      /\ pc # "idle"
    BY LoopFacts DEF RightLoop, Order
<1>2. /\ call.i \in 0 .. Len(old) /\ call.j \in call.i .. Len(old) /\ Len(old) \in Nat /\ Len(old) <= cap
    BY <1>1, RangeFacts
<1>3. PICK t \in 0 .. Len(old) - call.j : EraseRangeOrder(t)
    BY <1>1
<1>4. call.j - call.i > 0 /\ (size = Len(old) \/ size \in Len(old) - (call.j - call.i) + 1 .. Len(old))
    BY <1>3 DEF EraseRangeOrder
<1>5. /\ call.i \in 0 .. Len(old) - 1 /\ call.j \in call.i + 1 .. Len(old) /\ size \in 1 .. cap
      /\ cap \in Nat \ {0} /\ first \in Slots(cap) /\ Len(old) \in 1 .. cap
    BY <1>1, <1>2, <1>4
<1>6. src = NULL <=> t = Len(old) - call.j
    <2>1. CASE t = Len(old) - call.j
        BY <1>3, <2>1 DEF EraseRangeOrder
    <2>2. CASE t # Len(old) - call.j
        <3> DEFINE k == call.j + t
        <3>1. src = Add(first, k, cap)
            BY <1>3, <2>2 DEF EraseRangeOrder
        <3>2. k \in 0 .. cap
            BY <1>3, <1>5
        <3> HIDE DEF k
        <3>3. src \in Slots(cap)
            BY <1>5, <3>1, <3>2, AddInRing
        <3> QED
            BY <1>5, <2>2, <3>3 DEF Slots, NULL
    <2> QED
        BY <2>1, <2>2
<1> QED
    BY <1>1, <1>3, <1>5, <1>6

LEMMA EraseRangeShiftRefines == RInv /\ EraseRangeShift => Refines
<1> SUFFICES ASSUME RInv, EraseRangeShift PROVE Refines
    OBVIOUS
<1>1. pc = "erase_range" /\ pc # "idle" /\ src # NULL
    BY DEF EraseRangeShift
<1>2. /\ call.op = "erase_range" /\ CallInv /\ HoldsOld /\ cap \in Nat \ {0} /\ first \in Slots(cap)
      /\ size \in 1 .. cap /\ mem \in [Slots(cap) -> Cell]
      /\ Len(old) \in 1 .. cap /\ call.i \in 0 .. Len(old) - 1 /\ call.j \in call.i + 1 .. Len(old)
    BY <1>1, EraseRangePlaces
<1>3. PICK t \in 0 .. Len(old) - call.j : EraseRangeOrder(t) /\ t # Len(old) - call.j
    BY <1>1, EraseRangePlaces
<1>a. /\ call.i \in Nat /\ call.j \in Nat /\ Len(old) \in Nat /\ t \in Nat /\ cap \in Nat
      /\ call.i < call.j /\ call.j + t < Len(old) /\ Len(old) <= cap
    BY <1>2, <1>3
<1>b. PICK a \in Nat, b \in Nat, n \in Nat, d \in Nat, i \in Nat, j \in Nat, s \in Nat :
         /\ a = call.i /\ b = call.j /\ n = Len(old) /\ d = call.j - call.i
         /\ i = call.i + t /\ j = call.j + t /\ s = t + 1
    <2>1. call.j - call.i \in Nat /\ call.i + t \in Nat /\ call.j + t \in Nat /\ t + 1 \in Nat
        BY <1>a
    <2> QED
        BY <1>a, <2>1
<1>c. s = t + 1 /\ d = b - a /\ i = a + t /\ j = b + t /\ a < b /\ b + t < n /\ n <= cap /\ t \in Nat /\ cap \in Nat
    BY <1>a, <1>b
<1>d. i < j /\ j < n /\ i + d = j /\ a <= i /\ b <= j
    BY <1>c
<1>4. /\ i \in 0 .. cap - 1 /\ j \in 0 .. cap - 1 /\ i \in 0 .. cap /\ j \in 0 .. cap /\ i # j
      /\ i - j < cap /\ j - i < cap /\ i + 1 < n
      /\ i \in 0 .. n /\ j \in 0 .. n /\ i + 1 \in 0 .. n /\ j + 1 \in 0 .. n
    BY <1>c, <1>d
<1>e. /\ s \in 0 .. n - b /\ a + s = i + 1 /\ b + s = j + 1 /\ (s = n - b <=> j + 1 = n)
      /\ a + s - 1 = i
    BY <1>c
<1>f. /\ s \in 0 .. n - call.j /\ call.i + s = i + 1 /\ call.j + s = j + 1
      /\ (s = n - call.j <=> j + 1 = n) /\ call.i + s - 1 = i
    BY <1>b, <1>e
<1>5. dest = Add(first, i, cap) /\ src = Add(first, j, cap) /\ size = n /\ d > 0 /\ pos = Add(first, call.i, cap)
    BY <1>3, <1>a, <1>b DEF EraseRangeOrder
<1>6. CASE MoveMayThrow /\ Throw /\ UNCHANGED <<object, fault>>
    <2>1. IInv'
        BY EraseRangeShiftIInv DEF RInv
    <2> QED
        BY <1>1, <1>2, <1>5, <1>6, <1>b, <2>1, EraseThrows
<1>7. CASE /\ MoveTo(FALSE, dest, src) /\ dest' = IterNext(dest) /\ src' = IterNext(src) /\ Goto("erase_range")
           /\ UNCHANGED <<cap, first, last, size, pos, construct, count, nbuf>>
    <2>1. Shape
        BY IInvFacts DEF RInv
    <2>2. dest = It(i) /\ src = It(j)
        BY <1>4, <1>5 DEF It
    <2>3. dest' = It(i + 1) /\ src' = It(j + 1)
        <3>1. i \in 0 .. size /\ j \in 0 .. size /\ i < size /\ j < size
            BY <1>4, <1>5
        <3>2. IterNext(It(i)) = It(i + 1)
            BY <2>1, <3>1, IteratorSteps
        <3>3. IterNext(It(j)) = It(j + 1)
            BY <2>1, <3>1, IteratorSteps
        <3> QED
            BY <1>7, <2>2, <3>2, <3>3
    <2>4. dest' = Add(first, i + 1, cap) /\ src' = IF j + 1 = n THEN NULL ELSE Add(first, j + 1, cap)
        BY <1>4, <1>5, <2>3 DEF It
    <2>5. dest \in Slots(cap) /\ src \in Slots(cap) /\ dest # src
        BY <1>2, <1>4, <1>5, AddInRing, PlacesDiffer
    <2>6. \A q \in Slots(cap) : mem'[q] = IF q = src THEN MovedFrom(mem[src])
                                          ELSE IF q = dest THEN mem[src] ELSE mem[q]
        <3>1. MoveTo(FALSE, dest, src) /\ mem \in [Slots(cap) -> Cell]
            BY <1>2, <1>7
        <3> QED
            BY <2>5, <3>1 DEF MoveTo
    <2>7. /\ cap' = cap /\ first' = first /\ size' = size /\ call' = call /\ old' = old
          /\ pc' = "erase_range" /\ pos' = pos
        BY <1>7 DEF Goto
    <2>8. \A q \in Slots(cap) : q = Add(first, i, cap) \/ q = Add(first, j, cap) \/ mem'[q] = mem[q]
        BY <1>5, <2>6
    <2>9. ASSUME NEW k \in 0 .. cap - 1, k # i, k # j, NEW l, Holds(k, l) PROVE Holds(k, l)'
        <3>1. mem'[Add(first, k, cap)] = mem[Add(first, k, cap)]
            BY <1>2, <1>4, <2>8, <2>9, Untouched
        <3> QED
            BY <2>7, <2>9, <3>1 DEF Holds
    <2>10. Holds(i, i + d)'
        <3>1. j \in call.j + t .. Len(old) - 1
            BY <1>a, <1>b
        <3>2. Holds(j, j)
            BY <1>3, <3>1 DEF EraseRangeOrder
        <3>3. mem'[Add(first, i, cap)] = mem[Add(first, j, cap)]
            BY <1>5, <2>5, <2>6
        <3> QED
            BY <1>d, <2>7, <3>2, <3>3 DEF Holds
    <2>11. ASSUME NEW k \in 0 .. call.i - 1 PROVE Holds(k, k)'
        <3>a. k \in 0 .. a - 1
            BY <1>b
        <3>1. k \in 0 .. cap - 1 /\ k # i /\ k # j
            BY <1>c, <1>d, <3>a
        <3>2. Holds(k, k)
            BY <1>3 DEF EraseRangeOrder
        <3> QED
            BY <2>9, <3>1, <3>2
    <2>12. ASSUME NEW k \in call.i .. call.i + s - 1 PROVE Holds(k, k + d)'
        <3>a. k \in a .. i
            BY <1>b, <1>f
        <3>1. k \in 0 .. cap - 1 /\ k \in a .. i /\ k # j
            BY <1>c, <1>d, <3>a
        <3>2. CASE k = i
            BY <2>10, <3>2
        <3>3. CASE k # i
            <4>a. k \in a .. a + t - 1
                BY <1>c, <3>1, <3>3
            <4>1. k \in call.i .. call.i + t - 1
                BY <1>b, <4>a
            <4>2. Holds(k, k + d)
                BY <1>3, <1>b, <4>1 DEF EraseRangeOrder
            <4> QED
                BY <2>9, <3>1, <3>3, <4>2
        <3> QED
            BY <3>2, <3>3
    <2>13. ASSUME NEW k \in call.j + s .. n - 1 PROVE Holds(k, k)'
        <3>a. k \in j + 1 .. n - 1
            BY <1>f
        <3>b. k \in 0 .. cap - 1 /\ k # i /\ k # j /\ k \in b + t .. n - 1
            BY <1>c, <1>d, <3>a
        <3>1. k \in 0 .. cap - 1 /\ k # i /\ k # j /\ k \in call.j + t .. Len(old) - 1
            BY <1>b, <3>b
        <3>2. Holds(k, k)
            BY <1>3, <3>1 DEF EraseRangeOrder
        <3> QED
            BY <2>9, <3>1, <3>2
    <2>14. EraseRangeOrder(s)'
        <3>1. IF s = n - call.j
              THEN src' = NULL /\ size' \in n - d + 1 .. n
              ELSE src' = Add(first', call.j + s, cap') /\ size' = n
            <4>1. CASE s = n - call.j
                <5>1. j + 1 = n /\ src' = NULL /\ size' = n
                    BY <1>f, <1>5, <2>4, <2>7, <4>1
                <5>2. n \in n - d + 1 .. n
                    BY <1>c
                <5> QED
                    BY <4>1, <5>1, <5>2
            <4>2. CASE s # n - call.j
                <5>1. j + 1 # n /\ size' = n /\ call.j + s = j + 1
                    BY <1>f, <1>5, <2>7, <4>2
                <5>2. src' = Add(first', call.j + s, cap')
                    BY <2>4, <2>7, <5>1
                <5> QED
                    BY <4>2, <5>1, <5>2
            <4> QED
                BY <4>1, <4>2
        <3>2. pos' = Add(first', call.i, cap') /\ dest' = Add(first', call.i + s, cap')
            BY <1>f, <1>5, <2>4, <2>7
        <3> QED
            BY <1>5, <1>b, <2>7, <2>11, <2>12, <2>13, <3>1, <3>2 DEF EraseRangeOrder
    <2>15. Order'
        BY <1>f, <1>b, <2>7, <2>14 DEF Order
    <2>16. HoldsOld'
        BY <1>1, <1>2, <1>7, <2>5, <2>7, MoveKeepsOld
    <2>17. RightLoop'
        BY <1>2, <2>7 DEF RightLoop
    <2> QED
        BY <1>1, <1>2, <1>7, <2>7, <2>15, <2>16, <2>17, LoopStep
<1> QED
    BY <1>6, <1>7 DEF EraseRangeShift

LEMMA EraseRangeTailRefines == RInv /\ EraseRangeTail => Refines
<1> SUFFICES ASSUME RInv, EraseRangeTail PROVE Refines
    OBVIOUS
<1>1. pc = "erase_range" /\ pc # "idle" /\ src = NULL
    BY DEF EraseRangeTail
<1>2. /\ call.op = "erase_range" /\ CallInv /\ HoldsOld /\ cap \in Nat \ {0} /\ first \in Slots(cap)
      /\ size \in 1 .. cap /\ mem \in [Slots(cap) -> Cell] /\ last = Add(first, size, cap)
      /\ old \in Seq(Element)
      /\ Len(old) \in 1 .. cap /\ call.i \in 0 .. Len(old) - 1 /\ call.j \in call.i + 1 .. Len(old)
    BY <1>1, EraseRangePlaces
<1>3. EraseRangeOrder(Len(old) - call.j)
    BY <1>1, EraseRangePlaces
<1>a. /\ call.i \in Nat /\ call.j \in Nat /\ Len(old) \in Nat /\ cap \in Nat /\ size \in Nat
      /\ call.i < call.j /\ call.j <= Len(old) /\ Len(old) <= cap /\ size > 0
      /\ size > Len(old) - (call.j - call.i) /\ size <= Len(old)
    <2>1. size \in Len(old) - (call.j - call.i) + 1 .. Len(old)
        BY <1>3 DEF EraseRangeOrder
    <2> QED
        BY <1>2, <2>1
<1>4. PICK a \in Nat, b \in Nat, n \in Nat, d \in Nat, t \in Nat, e \in Nat, z \in Nat :
         /\ a = call.i /\ b = call.j /\ n = Len(old) /\ d = call.j - call.i /\ t = Len(old) - call.j
         /\ e = call.i + (Len(old) - call.j) /\ z = size - 1
    <2>1. call.j - call.i \in Nat /\ Len(old) - call.j \in Nat /\ call.i + (Len(old) - call.j) \in Nat /\ size - 1 \in Nat
        BY <1>a
    <2> QED
        BY <1>a, <2>1
<1>c. /\ d = b - a /\ t = n - b /\ e = a + t /\ a < b /\ b <= n /\ n <= cap /\ cap \in Nat
      /\ z + 1 > n - d /\ z + 1 <= n /\ size = z + 1
    BY <1>a, <1>4
<1>b. e = n - d /\ e <= z /\ z < n /\ a <= e /\ d > 0 /\ a < n /\ b + t = n
    BY <1>c
<1>d. /\ z \in 0 .. cap - 1 /\ z \in 0 .. cap
      /\ e \in 0 .. cap - 1 /\ e \in 0 .. cap /\ e - z < cap /\ z - e < cap
      /\ e - a < cap /\ a - e < cap
      /\ a \in 0 .. cap /\ a \in 0 .. cap - 1
      /\ a \in 0 .. n /\ b \in a .. n /\ t \in 0 .. n - b
    BY <1>c, <1>b
<1>5. /\ z \in 0 .. cap - 1 /\ z \in 0 .. cap
      /\ e \in 0 .. cap - 1 /\ e \in 0 .. cap /\ e - z < cap /\ z - e < cap
      /\ e - call.i < cap /\ call.i - e < cap
      /\ call.i \in 0 .. cap /\ call.i \in 0 .. cap - 1
      /\ call.i \in 0 .. n /\ call.j \in call.i .. n /\ t \in 0 .. n - call.j
    BY <1>4, <1>d
<1>6. pos = Add(first, call.i, cap) /\ dest = Add(first, e, cap)
    BY <1>3, <1>4 DEF EraseRangeOrder
<1>7. last' = Add(first, z, cap) /\ cap' = cap /\ first' = first /\ size' = z
    <2>1. Decrement(last, cap) = Add(first, size - 1, cap)
        BY <1>2, <1>a, AddInRing
    <2> QED
        BY <1>4, <2>1 DEF EraseRangeTail
<1>8. \A q \in Slots(cap) : q = Add(first, z, cap) \/ mem'[q] = mem[q]
    BY <1>2, <1>7 DEF EraseRangeTail, Destroy
<1>9. ASSUME NEW k \in 0 .. z - 1, NEW l, Holds(k, l) PROVE mem'[Add(first, k, cap)] = old[l + 1]
    <2>1. k \in 0 .. cap - 1 /\ k # z
        BY <1>c, <1>b
    <2>2. mem'[Add(first, k, cap)] = mem[Add(first, k, cap)]
        BY <1>2, <1>5, <1>8, <2>1, Untouched
    <2> QED
        BY <1>9, <2>2 DEF Holds
<1>10. ASSUME NEW k \in 0 .. e - 1
       PROVE  mem'[Add(first, k, cap)] = IF k < call.i THEN old[k + 1] ELSE old[(k + d) + 1]
    <2>a. /\ k \in 0 .. z - 1
          /\ k < a => k \in 0 .. a - 1
          /\ ~(k < a) => k \in a .. a + t - 1
        BY <1>b, <1>c
    <2>1. /\ k \in 0 .. z - 1
          /\ k < call.i => k \in 0 .. call.i - 1
          /\ ~(k < call.i) => k \in call.i .. call.i + (Len(old) - call.j) - 1
        BY <1>4, <2>a
    <2>2. /\ k < call.i => Holds(k, k)
          /\ ~(k < call.i) => Holds(k, k + d)
        BY <1>3, <1>4, <2>1 DEF EraseRangeOrder
    <2> QED
        BY <1>9, <2>1, <2>2
<1>11. CASE last' = dest
    <2>1. z = e
        BY <1>2, <1>5, <1>6, <1>7, <1>11, PlacesDiffer
    <2>2. Return(IF last' = pos THEN NULL ELSE pos)
        BY <1>11 DEF EraseRangeTail
    <2>3. Contents' = Deque!Without(old, call.i + 1, call.j + 1)
        <3>1. a \in 0 .. Len(old) /\ b \in a .. Len(old)
            BY <1>4, <1>d
        <3>2. size' = Len(old) - (b - a)
            BY <1>4, <1>b, <1>c, <1>7, <2>1
        <3>3. ASSUME NEW k \in 0 .. size' - 1
              PROVE  mem'[Add(first', k, cap')] = IF k < a THEN old[k + 1] ELSE old[(k + (b - a)) + 1]
            <4>1. k \in 0 .. e - 1
                BY <1>7, <2>1
            <4> QED
                BY <1>4, <1>7, <1>10, <1>c, <4>1
        <3>4. Contents' = Deque!Without(old, a + 1, b + 1)
            BY <1>2, <3>1, <3>2, <3>3, ErasedAre
        <3> QED
            BY <1>4, <3>4
    <2>4. Position(ret)' = call.i + 1
        <3>1. CASE call.i = e
            <4>1. ret' = NULL
                BY <1>6, <1>11, <2>2, <3>1 DEF Return
            <4> QED
                BY <1>7, <2>1, <3>1, <4>1, EndShown
        <3>2. CASE call.i # e
            <4>1. Add(first, call.i, cap) # Add(first, e, cap)
                BY <1>2, <1>5, <3>2, PlacesDiffer
            <4>2. ret' = Add(first', call.i, cap)
                BY <1>6, <1>7, <1>11, <2>2, <4>1 DEF Return
            <4> QED
                BY <1>2, <1>5, <1>7, <4>2, PlaceShown
        <3> QED
            BY <3>1, <3>2
    <2>5. Deque!After(AbstractCall(call), old, cap)
             = <<Deque!Without(old, call.i + 1, call.j + 1), cap, call.i + 1>>
        <3>1. /\ AbstractCall(call).op = "erase_range" /\ AbstractCall(call).i = call.i + 1
              /\ AbstractCall(call).j = call.j + 1
            BY <1>1, <1>2, RangeFacts
        <3> QED
            BY <3>1 DEF Deque!After, Deque!EraseRangeOutcome
    <2> QED
        BY <1>1, <1>2, <1>7, <2>2, <2>3, <2>4, <2>5, Returns DEF Refines
<1>12. CASE last' # dest
    <2>1. z # e
        BY <1>6, <1>7, <1>12
    <2>2. Goto("erase_range") /\ UNCHANGED locals
        BY <1>12 DEF EraseRangeTail
    <2>3. /\ pc' = "erase_range" /\ call' = call /\ old' = old /\ pos' = pos /\ dest' = dest /\ src' = src
        BY <2>2 DEF Goto, locals
    <2>4. size' \in n - d + 1 .. n
        BY <1>b, <1>c, <1>7, <2>1
    <2>5. ASSUME NEW k \in 0 .. call.i - 1 PROVE Holds(k, k)'
        <3>a. k \in 0 .. a - 1
            BY <1>4
        <3>b. k \in 0 .. e - 1 /\ k < a
            BY <1>b, <3>a
        <3>1. k \in 0 .. e - 1 /\ k < call.i
            BY <1>4, <3>b
        <3> QED
            BY <1>7, <1>10, <2>3, <3>1 DEF Holds
    <2>6. ASSUME NEW k \in call.i .. call.i + t - 1 PROVE Holds(k, k + d)'
        <3>a. k \in a .. a + t - 1
            BY <1>4
        <3>b. k \in 0 .. e - 1 /\ ~(k < a)
            BY <1>c, <3>a
        <3>1. k \in 0 .. e - 1 /\ ~(k < call.i)
            BY <1>4, <3>b
        <3> QED
            BY <1>7, <1>10, <2>3, <3>1 DEF Holds
    <2>7. ASSUME NEW k \in call.j + t .. n - 1 PROVE Holds(k, k)'
        <3>1. k \in b + t .. n - 1
            BY <1>4
        <3> QED
            BY <1>c, <3>1
    <2>8. EraseRangeOrder(t)'
        BY <1>1, <1>4, <1>b, <1>6, <1>7, <2>3, <2>4, <2>5, <2>6, <2>7 DEF EraseRangeOrder
    <2>9. Order'
        BY <1>4, <1>5, <2>3, <2>8 DEF Order
    <2>10. HoldsOld' /\ RightLoop'
        <3>1. Destroy(last')
            BY DEF EraseRangeTail
        <3>2. HoldsOld'
            BY <1>1, <1>2, <2>3, <3>1, DestroyKeepsOld
        <3> QED
            BY <1>2, <2>3, <3>2 DEF RightLoop
    <2> QED
        BY <1>1, <1>2, <1>7, <2>2, <2>9, <2>10, LoopStep
<1> QED
    BY <1>11, <1>12

LEMMA REraseRangeRefines == RInv /\ REraseRange => Refines
<1> SUFFICES ASSUME RInv, REraseRange PROVE Refines
    OBVIOUS
<1>1. pc = "enter" /\ pc # "idle" /\ call.op = "rerase_range"
    BY DEF REraseRange, Enter
<1>2. CASE It(call.i) = It(call.j) /\ Return(It(call.i)) /\ UNCHANGED <<object, fault>>
    <2>1. UNCHANGED object
        BY <1>2
    <2> QED
        BY <1>1, <1>2, <2>1, EmptyRange
<1>3. CASE /\ It(call.i) # It(call.j)
           /\ pos' = map_pointer(It(call.j)) /\ dest' = map_pointer(It(call.j)) /\ src' = It(call.i)
           /\ Goto("rerase_range") /\ UNCHANGED <<object, construct, count, nbuf, fault>>
    <2>1. /\ call.i \in 0 .. size - 1 /\ call.j \in call.i + 1 .. size /\ call.j - call.i > 0
          /\ cap \in Nat \ {0} /\ first \in Slots(cap) /\ size \in 1 .. cap /\ size = Len(old)
          /\ CallInv /\ HoldsOld /\ last = Add(first, size, cap)
          /\ \A k \in 0 .. size - 1 : Holds(k, k)
        BY <1>1, <1>3, FilledRange
    <2>2. /\ cap' = cap /\ first' = first /\ size' = size /\ mem' = mem /\ call' = call /\ old' = old
          /\ pc' = "rerase_range" /\ Goto("rerase_range")
        BY <1>3 DEF object, Goto
    <2>3. It(call.i) = Add(first, call.i, cap)
        BY <2>1 DEF It
    <2>4. map_pointer(It(call.j)) = Add(first, call.j, cap)
        <3>1. CASE call.j = size
            BY <2>1, <3>1 DEF It, map_pointer
        <3>2. CASE call.j # size
            <4>1. It(call.j) = Add(first, call.j, cap) /\ call.j \in 0 .. cap
                BY <2>1, <3>2 DEF It
            <4>2. Add(first, call.j, cap) \in Slots(cap)
                BY <2>1, <4>1, AddInRing
            <4>3. It(call.j) # NULL
                BY <2>1, <4>1, <4>2 DEF Slots, NULL
            <4> QED
                BY <4>1, <4>3 DEF map_pointer
        <3> QED
            BY <3>1, <3>2
    <2>5. REraseRangeOrder(0)'
        <3>1. \A k \in 0 .. call.i - 0 - 1 : Holds(k, k)'
            BY <2>1, <2>2 DEF Holds
        <3>2. \A k \in call.j - 0 .. call.j - 1 : Holds(k, k - (call.j - call.i))'
            BY <2>1
        <3>3. \A k \in call.j .. Len(old) - 1 : Holds(k, k)'
            BY <2>1, <2>2 DEF Holds
        <3>4. call.i - 0 = call.i /\ call.j - 0 = call.j
            BY <2>1
        <3>5. /\ pos' = Add(first', call.j, cap') /\ dest' = Add(first', call.j - 0, cap')
              /\ src' = Add(first', call.i - 0, cap')
            BY <1>3, <2>2, <2>3, <2>4, <3>4
        <3> QED
            BY <2>1, <2>2, <3>1, <3>2, <3>3, <3>5 DEF REraseRangeOrder
    <2>6. 0 \in 0 .. call.i
        BY <2>1
    <2>7. Order'
        BY <2>2, <2>5, <2>6 DEF Order
    <2>8. HoldsOld' /\ RightLoop'
        BY <1>1, <2>1, <2>2, SameKeepsOld DEF RightLoop
    <2> QED
        BY <1>1, <2>1, <2>2, <2>7, <2>8, LoopStep
<1> QED
    BY <1>2, <1>3 DEF REraseRange

\* What the invariants say in the loop of rerase of a range; a and b are its
\* ends, d its length.
LEMMA REraseRangePlaces ==
    ASSUME RInv, pc = "rerase_range"
    PROVE  /\ call.op = "rerase_range" /\ CallInv /\ HoldsOld /\ cap \in Nat \ {0} /\ first \in Slots(cap)
           /\ mem \in [Slots(cap) -> Cell] /\ old \in Seq(Element)
           /\ \E a \in Nat, b \in Nat, n \in Nat, d \in Nat, t \in Nat :
                 /\ a = call.i /\ b = call.j /\ n = Len(old) /\ d = call.j - call.i
                 /\ d = b - a /\ d > 0 /\ b <= n /\ n <= cap /\ t <= a
                 /\ REraseRangeOrder(t) /\ (src = first <=> t = a)
<1>1. /\ call.op = "rerase_range" /\ CallInv /\ HoldsOld /\ old \in Seq(Element)
      /\ cap \in Nat /\ size \in 0 .. cap /\ mem \in [Slots(cap) -> Cell]
      /\ \E t \in 0 .. call.i : REraseRangeOrder(t)
      /\ cap > 0 => cap \in Nat \ {0} /\ first \in Slots(cap)
      /\ pc # "idle"
    BY LoopFacts DEF RightLoop, Order
<1>2. /\ call.i \in 0 .. Len(old) /\ call.j \in call.i .. Len(old) /\ Len(old) \in Nat /\ Len(old) <= cap
      /\ call.i \in Nat /\ call.j \in Nat
    BY <1>1, RangeFacts
<1>3. PICK t \in 0 .. call.i : REraseRangeOrder(t)
    BY <1>1
<1>4. call.j - call.i > 0
    BY <1>3 DEF REraseRangeOrder
<1>5. PICK a \in Nat, b \in Nat, n \in Nat, d \in Nat :
         a = call.i /\ b = call.j /\ n = Len(old) /\ d = call.j - call.i
    <2>1. call.j - call.i \in Nat
        BY <1>2, <1>4
    <2> QED
        BY <1>2, <2>1
<1>6. d = b - a /\ d > 0 /\ b <= n /\ n <= cap /\ t \in Nat /\ t <= a
    BY <1>2, <1>3, <1>4, <1>5
<1>7. cap \in Nat \ {0} /\ first \in Slots(cap)
    BY <1>1, <1>6
<1>8. src = first <=> t = a
    <2>1. src = Add(first, a - t, cap)
        BY <1>3, <1>5 DEF REraseRangeOrder
    <2>2. Add(first, 0, cap) = first
        BY <1>7, AddInRing
    <2>3. a - t \in 0 .. cap /\ 0 \in 0 .. cap /\ (a - t) - 0 < cap /\ 0 - (a - t) < cap /\ (a - t = 0 <=> t = a)
        BY <1>1, <1>6
    <2>4. a - t # 0 => Add(first, a - t, cap) # Add(first, 0, cap)
        BY <1>7, <2>3, PlacesDiffer
    <2> QED
        BY <2>1, <2>2, <2>3, <2>4
<1> QED
    BY <1>1, <1>3, <1>5, <1>6, <1>7, <1>8

LEMMA REraseRangeShiftRefines == RInv /\ REraseRangeShift => Refines
<1> SUFFICES ASSUME RInv, REraseRangeShift PROVE Refines
    OBVIOUS
<1>1. pc = "rerase_range" /\ pc # "idle" /\ src # first
    BY DEF REraseRangeShift
<1>2. /\ call.op = "rerase_range" /\ CallInv /\ HoldsOld /\ cap \in Nat \ {0} /\ first \in Slots(cap)
      /\ mem \in [Slots(cap) -> Cell]
    BY <1>1, REraseRangePlaces
<1>3. PICK a \in Nat, b \in Nat, n \in Nat, d \in Nat, t \in Nat :
         /\ a = call.i /\ b = call.j /\ n = Len(old) /\ d = call.j - call.i
         /\ d = b - a /\ d > 0 /\ b <= n /\ n <= cap /\ t <= a
         /\ REraseRangeOrder(t) /\ (src = first <=> t = a)
    BY <1>1, REraseRangePlaces
<1>4. PICK i \in Nat, j \in Nat, s \in Nat : i = a - s /\ j = b - s /\ s = t + 1
    <2>1. t # a /\ t + 1 \in Nat /\ a - (t + 1) \in Nat /\ b - (t + 1) \in Nat
        BY <1>1, <1>3
    <2> QED
        BY <2>1
<1>5. /\ d = b - a /\ d > 0 /\ b <= n /\ n <= cap /\ s = t + 1 /\ i = a - s /\ j = b - s /\ cap \in Nat
      /\ s <= a /\ s > 0
    BY <1>2, <1>3, <1>4
<1>6. i < j /\ j < b /\ j < n /\ i < a /\ j - d = i
    BY <1>5
<1>7. /\ i \in 0 .. cap - 1 /\ j \in 0 .. cap - 1 /\ i \in 0 .. cap /\ j \in 0 .. cap /\ i # j
      /\ i - j < cap /\ j - i < cap /\ s \in 0 .. a
      /\ i + 1 = a - t /\ j + 1 = b - t /\ i + 1 > 0 /\ j + 1 > 0 /\ i + 1 \in 0 .. cap /\ j + 1 \in 0 .. cap
      /\ (i + 1) - 1 = i /\ (j + 1) - 1 = j
    BY <1>5, <1>6
<1>8. dest = Add(first, j + 1, cap) /\ src = Add(first, i + 1, cap) /\ size = n /\ pos = Add(first, b, cap)
    BY <1>3, <1>7 DEF REraseRangeOrder
<1>9. CASE MoveMayThrow /\ Throw /\ UNCHANGED <<object, fault>>
    <2>1. IInv'
        BY REraseRangeShiftIInv DEF RInv
    <2> QED
        BY <1>1, <1>2, <1>3, <1>8, <1>9, <2>1, EraseThrows
<1>10. CASE /\ src' = Decrement(src, cap) /\ dest' = Decrement(dest, cap) /\ MoveTo(FALSE, dest', src')
            /\ Goto("rerase_range") /\ UNCHANGED <<cap, first, last, size, pos, construct, count, nbuf>>
    <2>1. dest' = Add(first, j, cap) /\ src' = Add(first, i, cap)
        <3>1. Add(first, (j + 1) - 1, cap) = Decrement(Add(first, j + 1, cap), cap)
            BY <1>2, <1>7, AddInRing
        <3>2. Add(first, (i + 1) - 1, cap) = Decrement(Add(first, i + 1, cap), cap)
            BY <1>2, <1>7, AddInRing
        <3> QED
            BY <1>7, <1>8, <1>10, <3>1, <3>2
    <2>2. PICK p \in Slots(cap), q \in Slots(cap) : p = Add(first, j, cap) /\ q = Add(first, i, cap) /\ p # q
        BY <1>2, <1>7, AddInRing, PlacesDiffer
    <2>3. MoveTo(FALSE, p, q)
        BY <1>10, <2>1, <2>2 DEF MoveTo
    <2>4. \A r \in Slots(cap) : mem'[r] = IF r = q THEN MovedFrom(mem[q]) ELSE IF r = p THEN mem[q] ELSE mem[r]
        BY <1>2, <2>2, <2>3 DEF MoveTo
    <2>5. /\ cap' = cap /\ first' = first /\ size' = size /\ call' = call /\ old' = old
          /\ pc' = "rerase_range" /\ pos' = pos
        BY <1>10 DEF Goto
    <2>6. \A r \in Slots(cap) : r = Add(first, i, cap) \/ r = Add(first, j, cap) \/ mem'[r] = mem[r]
        BY <2>2, <2>4
    <2>7. ASSUME NEW k \in 0 .. cap - 1, k # i, k # j, NEW l, Holds(k, l) PROVE Holds(k, l)'
        <3>1. mem'[Add(first, k, cap)] = mem[Add(first, k, cap)]
            BY <1>2, <1>7, <2>6, <2>7, Untouched
        <3> QED
            BY <2>5, <2>7, <3>1 DEF Holds
    <2>8. Holds(j, j - d)'
        <3>1. i \in 0 .. a - t - 1
            BY <1>7
        <3>2. Holds(i, i)
            BY <1>3, <3>1 DEF REraseRangeOrder
        <3>3. mem'[Add(first, j, cap)] = mem[Add(first, i, cap)]
            BY <2>2, <2>4
        <3> QED
            BY <1>6, <2>5, <3>2, <3>3 DEF Holds
    <2>9. ASSUME NEW k \in 0 .. a - s - 1 PROVE Holds(k, k)'
        <3>1. k \in 0 .. cap - 1 /\ k # i /\ k # j /\ k \in 0 .. a - t - 1
            BY <1>5, <1>6
        <3>2. Holds(k, k)
            BY <1>3, <3>1 DEF REraseRangeOrder
        <3> QED
            BY <2>7, <3>1, <3>2
    <2>10. ASSUME NEW k \in b - s .. b - 1 PROVE Holds(k, k - d)'
        <3>1. CASE k = j
            BY <2>8, <3>1
        <3>2. CASE k # j
            <4>1. k \in 0 .. cap - 1 /\ k # i /\ k \in b - t .. b - 1
                BY <1>5, <1>6, <3>2
            <4>2. Holds(k, k - d)
                BY <1>3, <4>1 DEF REraseRangeOrder
            <4> QED
                BY <2>7, <3>2, <4>1, <4>2
        <3> QED
            BY <3>1, <3>2
    <2>11. ASSUME NEW k \in b .. n - 1 PROVE Holds(k, k)'
        <3>1. k \in 0 .. cap - 1 /\ k # i /\ k # j
            BY <1>5, <1>6
        <3>2. Holds(k, k)
            BY <1>3 DEF REraseRangeOrder
        <3> QED
            BY <2>7, <3>1, <3>2
    <2>12. REraseRangeOrder(s)'
        BY <1>3, <1>4, <1>8, <2>1, <2>5, <2>9, <2>10, <2>11 DEF REraseRangeOrder
    <2>13. Order'
        BY <1>3, <1>7, <2>5, <2>12 DEF Order
    <2>14. HoldsOld'
        BY <1>1, <1>2, <2>2, <2>3, <2>5, MoveKeepsOld
    <2>15. RightLoop'
        BY <1>2, <2>5 DEF RightLoop
    <2> QED
        BY <1>1, <1>2, <1>10, <2>5, <2>13, <2>14, <2>15, LoopStep
<1> QED
    BY <1>9, <1>10 DEF REraseRangeShift

\* The same where the elements in front of the range are all moved.
LEMMA REraseHeadPlaces ==
    ASSUME RInv, pc = "rerase_head" \/ (pc = "rerase_range" /\ src = first)
    PROVE  /\ call.op = "rerase_range" /\ CallInv /\ HoldsOld /\ cap \in Nat \ {0} /\ first \in Slots(cap)
           /\ mem \in [Slots(cap) -> Cell] /\ old \in Seq(Element)
           /\ \E a \in Nat, b \in Nat, n \in Nat, d \in Nat, w \in Nat :
                 /\ a = call.i /\ b = call.j /\ n = Len(old) /\ d = call.j - call.i
                 /\ d = b - a /\ b <= n /\ n <= cap /\ w > 0 /\ w <= d
                 /\ REraseHeadOrder(w)
<1>1. CASE pc = "rerase_head"
    <2>1. /\ call.op = "rerase_range" /\ CallInv /\ HoldsOld /\ old \in Seq(Element)
          /\ cap \in Nat /\ size \in 0 .. cap /\ mem \in [Slots(cap) -> Cell]
          /\ \E w \in 1 .. call.j - call.i : REraseHeadOrder(w)
          /\ cap > 0 => cap \in Nat \ {0} /\ first \in Slots(cap)
          /\ pc # "idle"
        BY <1>1, LoopFacts DEF RightLoop, Order
    <2>2. /\ call.i \in 0 .. Len(old) /\ call.j \in call.i .. Len(old) /\ Len(old) \in Nat /\ Len(old) <= cap
          /\ call.i \in Nat /\ call.j \in Nat
        BY <2>1, RangeFacts
    <2>3. PICK w \in 1 .. call.j - call.i : REraseHeadOrder(w)
        BY <2>1
    <2>4. PICK a \in Nat, b \in Nat, n \in Nat, d \in Nat :
             a = call.i /\ b = call.j /\ n = Len(old) /\ d = call.j - call.i
        <3>1. call.j - call.i \in Nat
            BY <2>2
        <3> QED
            BY <2>2, <3>1
    <2>5. d = b - a /\ b <= n /\ n <= cap /\ w \in Nat /\ w > 0 /\ w <= d
        BY <2>2, <2>3, <2>4
    <2>6. cap \in Nat \ {0} /\ first \in Slots(cap)
        BY <2>1, <2>5
    <2> QED
        BY <2>1, <2>3, <2>4, <2>5, <2>6
<1>2. CASE pc = "rerase_range" /\ src = first
    <2>1. /\ call.op = "rerase_range" /\ CallInv /\ HoldsOld /\ cap \in Nat \ {0} /\ first \in Slots(cap)
          /\ mem \in [Slots(cap) -> Cell] /\ old \in Seq(Element)
        BY <1>2, REraseRangePlaces
    <2>2. PICK a \in Nat, b \in Nat, n \in Nat, d \in Nat, t \in Nat :
             /\ a = call.i /\ b = call.j /\ n = Len(old) /\ d = call.j - call.i
             /\ d = b - a /\ d > 0 /\ b <= n /\ n <= cap /\ t <= a
             /\ REraseRangeOrder(t) /\ (src = first <=> t = a)
        BY <1>2, REraseRangePlaces
    <2>a. t = a /\ d = b - a /\ d > 0 /\ b <= n /\ n <= cap
        BY <1>2, <2>2
    <2>3. b - a = d /\ d + a = b /\ d <= d /\ b - t = d /\ a - t = 0
        BY <2>a
    <2>4. ASSUME NEW k \in 0 .. a - 1 PROVE Holds(d + k, k)
        <3>1. d + k \in b - t .. b - 1 /\ (d + k) - d = k
            BY <2>a
        <3>2. Holds(d + k, (d + k) - d)
            BY <2>2, <3>1 DEF REraseRangeOrder
        <3> QED
            BY <3>1, <3>2
    <2>5. ASSUME NEW k \in a .. n - d - 1 PROVE Holds(d + k, k + d)
        <3>1. d + k \in b .. n - 1 /\ d + k = k + d
            BY <2>a
        <3>2. Holds(d + k, d + k)
            BY <2>2, <3>1 DEF REraseRangeOrder
        <3> QED
            BY <3>1, <3>2
    <2>6. size = n /\ pos = Add(first, b, cap) /\ dest = Add(first, d, cap)
        BY <2>2, <2>3 DEF REraseRangeOrder
    <2>7. REraseHeadOrder(d)
        BY <2>2, <2>3, <2>4, <2>5, <2>6 DEF REraseHeadOrder
    <2>8. /\ a = call.i /\ b = call.j /\ n = Len(old) /\ d = call.j - call.i
          /\ d = b - a /\ b <= n /\ n <= cap /\ d > 0 /\ d <= d
        BY <2>2, <2>3
    <2> QED
        BY <2>1, <2>7, <2>8
<1> QED
    BY <1>1, <1>2

LEMMA REraseRangeHeadRefines == RInv /\ REraseRangeHead => Refines
<1> SUFFICES ASSUME RInv, REraseRangeHead PROVE Refines
    OBVIOUS
<1>1. (pc = "rerase_head" \/ (pc = "rerase_range" /\ src = first)) /\ pc # "idle"
    BY DEF REraseRangeHead
<1>2. /\ call.op = "rerase_range" /\ CallInv /\ HoldsOld /\ cap \in Nat \ {0} /\ first \in Slots(cap)
      /\ mem \in [Slots(cap) -> Cell] /\ old \in Seq(Element)
    BY <1>1, REraseHeadPlaces
<1>3. PICK a \in Nat, b \in Nat, n \in Nat, d \in Nat, w \in Nat :
         /\ a = call.i /\ b = call.j /\ n = Len(old) /\ d = call.j - call.i
         /\ d = b - a /\ b <= n /\ n <= cap /\ w > 0 /\ w <= d
         /\ REraseHeadOrder(w)
    BY <1>1, REraseHeadPlaces
<1>4. d = b - a /\ b <= n /\ n <= cap /\ w > 0 /\ w <= d /\ cap \in Nat \ {0}
    BY <1>2, <1>3
<1>5. /\ w \in 0 .. cap /\ w + a \in 0 .. cap /\ w - 1 \in 0 .. cap - 1 /\ (w - 1) + a \in 0 .. cap - 1
      /\ (w - 1) + 1 = w /\ ((w - 1) + a) + 1 = w + a /\ 1 \in 0 .. cap /\ w - 1 < cap /\ 1 - w < cap
      /\ 0 \in 0 .. cap - 1 /\ a \in 0 .. n /\ b \in a .. n /\ n - (b - a) = n - d
      /\ 1 + a \in 0 .. cap /\ (1 + a) - 1 = a /\ a \in 0 .. cap - 1
    BY <1>4
<1>6. size = n - d + w /\ pos = Add(first, w + a, cap) /\ dest = Add(first, w, cap)
    BY <1>3 DEF REraseHeadOrder
<1>7. /\ cap' = cap /\ first' = Increment(first, cap) /\ size' = size - 1 /\ first' \in Slots(cap)
      /\ Add(first, 0, cap) = first /\ first' = Add(first, 1, cap)
    <2>1. Add(first, 0, cap) = first /\ 0 < cap /\ 0 \in 0 .. cap
        BY <1>2, AddInRing
    <2>2. Add(first, 0 + 1, cap) = Increment(Add(first, 0, cap), cap)
        BY <1>2, <2>1, AddInRing
    <2>3. cap' = cap /\ first' = Increment(first, cap) /\ size' = size - 1
        BY DEF REraseRangeHead
    <2>4. Increment(first, cap) \in Slots(cap)
        BY <1>2, StepInRing
    <2>5. 0 + 1 = 1
        OBVIOUS
    <2> QED
        BY <2>1, <2>2, <2>3, <2>4, <2>5
<1>8. size' = n - d + (w - 1)
    BY <1>4, <1>6, <1>7
<1>9. \A q \in Slots(cap) : q = Add(first, 0, cap) \/ mem'[q] = mem[q]
    BY <1>2, <1>7 DEF REraseRangeHead, Destroy
\* Seen from the new first element.
<1>10. ASSUME NEW k \in Nat, k < n - d, NEW l, Holds(w + k, l)
       PROVE  mem'[Add(first', (w - 1) + k, cap)] = old[l + 1]
    <2>1. (w - 1) + k \in 0 .. cap - 1 /\ ((w - 1) + k) + 1 = w + k /\ w + k \in 0 .. cap - 1 /\ w + k # 0
        BY <1>4, <1>10
    <2>2. Add(first', (w - 1) + k, cap) = Add(first, ((w - 1) + k) + 1, cap)
        BY <1>2, <1>7, <2>1, PlacesMove
    <2>3. mem'[Add(first, w + k, cap)] = mem[Add(first, w + k, cap)]
        BY <1>2, <1>5, <1>9, <2>1, Untouched
    <2> QED
        BY <1>10, <2>1, <2>2, <2>3 DEF Holds
<1>11. ASSUME NEW k \in 0 .. a - 1
       PROVE  mem'[Add(first', (w - 1) + k, cap)] = old[k + 1]
    <2>1. k \in Nat /\ k < n - d
        BY <1>4
    <2>2. Holds(w + k, k)
        BY <1>3 DEF REraseHeadOrder
    <2> QED
        BY <1>10, <2>1, <2>2
<1>12. ASSUME NEW k \in a .. n - d - 1
       PROVE  mem'[Add(first', (w - 1) + k, cap)] = old[(k + d) + 1]
    <2>1. k \in Nat /\ k < n - d
        BY <1>4
    <2>2. Holds(w + k, k + d)
        BY <1>3 DEF REraseHeadOrder
    <2> QED
        BY <1>10, <2>1, <2>2
<1>13. CASE first' # dest
    <2>1. w # 1
        BY <1>6, <1>7, <1>13
    <2>2. PICK v \in Nat : v = w - 1 /\ v > 0 /\ v \in 1 .. b - a
        <3>1. w - 1 \in Nat /\ w - 1 > 0 /\ w - 1 \in 1 .. b - a
            BY <1>4, <2>1
        <3> QED
            BY <3>1
    <2>3. Goto("rerase_head") /\ UNCHANGED locals
        BY <1>13 DEF REraseRangeHead
    <2>4. pc' = "rerase_head" /\ call' = call /\ old' = old /\ pos' = pos /\ dest' = dest
        BY <2>3 DEF Goto, locals
    <2>5. pos' = Add(first', v + a, cap) /\ dest' = Add(first', v, cap)
        <3>1. Add(Increment(first, cap), (w - 1) + a, cap) = Add(first, ((w - 1) + a) + 1, cap)
            BY <1>2, <1>5, PlacesMove
        <3>2. Add(Increment(first, cap), w - 1, cap) = Add(first, (w - 1) + 1, cap)
            BY <1>2, <1>5, PlacesMove
        <3> QED
            BY <1>5, <1>6, <1>7, <2>2, <2>4, <3>1, <3>2
    <2>6. ASSUME NEW k \in 0 .. a - 1 PROVE Holds(v + k, k)'
        BY <1>7, <1>11, <2>2, <2>4 DEF Holds
    <2>7. ASSUME NEW k \in a .. n - d - 1 PROVE Holds(v + k, k + d)'
        BY <1>7, <1>12, <2>2, <2>4 DEF Holds
    <2>8. REraseHeadOrder(v)'
        BY <1>3, <1>7, <1>8, <2>2, <2>4, <2>5, <2>6, <2>7 DEF REraseHeadOrder
    <2>9. Order'
        BY <1>3, <2>2, <2>4, <2>8 DEF Order
    <2>10. HoldsOld' /\ RightLoop'
        <3>1. Destroy(first)
            BY DEF REraseRangeHead
        <3>2. HoldsOld'
            BY <1>1, <1>2, <2>4, <3>1, DestroyKeepsOld
        <3> QED
            BY <1>2, <2>4, <3>2 DEF RightLoop
    <2> QED
        BY <1>1, <1>2, <1>7, <2>3, <2>9, <2>10, LoopStep
<1>14. CASE first' = dest
    <2>1. w = 1
        BY <1>2, <1>5, <1>6, <1>7, <1>14, PlacesDiffer
    <2>2. Return(IF first' # pos THEN Decrement(pos, cap) ELSE IF size' = 0 THEN NULL ELSE first')
        BY <1>14 DEF REraseRangeHead
    <2>3. Contents' = Deque!Without(old, call.i + 1, call.j + 1)
        <3>1. a \in 0 .. Len(old) /\ b \in a .. Len(old)
            BY <1>3, <1>5
        <3>2. size' = n - d /\ size' = Len(old) - (b - a)
            BY <1>3, <1>4, <1>8, <2>1
        <3>3. ASSUME NEW k \in 0 .. size' - 1
              PROVE  mem'[Add(first', k, cap')] = IF k < a THEN old[k + 1] ELSE old[(k + (b - a)) + 1]
            <4>1. (w - 1) + k = k /\ (k < a => k \in 0 .. a - 1) /\ (~(k < a) => k \in a .. n - d - 1)
                BY <1>4, <2>1, <3>2
            <4> QED
                BY <1>4, <1>7, <1>11, <1>12, <4>1
        <3>4. Contents' = Deque!Without(old, a + 1, b + 1)
            BY <1>2, <3>1, <3>2, <3>3, ErasedAre
        <3> QED
            BY <1>3, <3>4
    <2> DEFINE r == IF a = 0 THEN 1 ELSE a
    <2>4. Position(ret)' = r
        <3>1. CASE a = 0
            <4>1. first' = pos
                BY <1>6, <1>7, <2>1, <3>1
            <4>2. CASE size' = 0
                <5>1. ret' = NULL
                    BY <2>2, <4>1, <4>2 DEF Return
                <5> QED
                    BY <3>1, <4>2, <5>1, EndShown
            <4>3. CASE size' # 0
                <5>1. ret' = first'
                    BY <2>2, <4>1, <4>3 DEF Return
                <5>2. ret' = Add(first', 0, cap)
                    BY <1>2, <1>7, <5>1, AddInRing
                <5>3. Position(ret)' = 0 + 1
                    BY <1>2, <1>5, <1>7, <5>2, PlaceShown
                <5> QED
                    BY <3>1, <5>3
            <4> QED
                BY <4>2, <4>3
        <3>2. CASE a # 0
            <4>1. PICK k \in Nat : k = a - 1 /\ k \in 0 .. cap - 1 /\ k + 1 = a
                <5>1. a - 1 \in Nat /\ a - 1 \in 0 .. cap - 1 /\ (a - 1) + 1 = a
                    BY <1>4, <3>2
                <5> QED
                    BY <5>1
            <4>2. first' # pos
                <5>1. 1 # 1 + a /\ 1 - (1 + a) < cap /\ (1 + a) - 1 < cap
                    BY <1>4, <3>2
                <5>2. Add(first, 1, cap) # Add(first, 1 + a, cap)
                    BY <1>2, <1>5, <5>1, PlacesDiffer
                <5> QED
                    BY <1>6, <1>7, <2>1, <5>2
            <4>3. Decrement(pos, cap) = Add(first, a, cap)
                <5>1. 1 + a > 0
                    BY <1>4
                <5>2. Add(first, (1 + a) - 1, cap) = Decrement(Add(first, 1 + a, cap), cap)
                    BY <1>2, <1>5, <5>1, AddInRing
                <5> QED
                    BY <1>5, <1>6, <2>1, <5>2
            <4>4. Add(Increment(first, cap), k, cap) = Add(first, k + 1, cap)
                BY <1>2, <4>1, PlacesMove
            <4>5. ret' = Add(first', k, cap)
                BY <1>7, <2>2, <4>1, <4>2, <4>3, <4>4 DEF Return
            <4>6. Position(ret)' = k + 1
                BY <1>2, <1>7, <4>1, <4>5, PlaceShown
            <4> QED
                BY <3>2, <4>1, <4>6
        <3> QED
            BY <3>1, <3>2
    <2>5. Deque!After(AbstractCall(call), old, cap)
             = <<Deque!Without(old, call.i + 1, call.j + 1), cap, r>>
        <3>1. /\ AbstractCall(call).op = "rerase_range" /\ AbstractCall(call).i = call.i + 1
              /\ AbstractCall(call).j = call.j + 1
            BY <1>1, <1>2, RangeFacts
        <3>2. a + 1 # b + 1 /\ (a + 1 = 1 <=> a = 0) /\ (a + 1) - 1 = a
            BY <1>4
        <3>3. call.i + 1 # call.j + 1 /\ (call.i + 1 = 1 <=> a = 0) /\ (call.i + 1) - 1 = a
            BY <1>3, <3>2
        <3> QED
            BY <3>1, <3>3 DEF Deque!After, Deque!REraseRangeOutcome
    <2> QED
        BY <1>1, <1>2, <1>7, <2>2, <2>3, <2>4, <2>5, Returns DEF Refines
<1> QED
    BY <1>13, <1>14

---------------------------------------------------------------------------
(* set_capacity and rset_capacity                                          *)

\* A capacity that holds all the elements drops none.
LEMMA AllFit ==
    ASSUME NEW t \in Seq(Element), NEW m \in Nat, Len(t) <= m
    PROVE  Deque!FirstOf(t, m) = t /\ Deque!LastOf(t, m) = t
<1>1. Len(t) \in Nat /\ Lesser(m, Len(t)) = Len(t)
    BY LenProperties DEF Lesser
<1> DEFINE f == Deque!FirstOf(t, m)
           l == Deque!LastOf(t, m)
<1>2. f \in Seq(Element) /\ Len(f) = Len(t) /\ \A k \in 1 .. Len(t) : f[k] = t[k]
    BY <1>1, FirstOfFacts
<1>3. l \in Seq(Element) /\ Len(l) = Len(t) /\ \A k \in 1 .. Len(t) : l[k] = t[k + (Len(t) - Len(t))]
    BY <1>1, LastOfFacts
<1>4. \A k \in 1 .. Len(t) : k + (Len(t) - Len(t)) = k
    BY <1>1
<1> HIDE DEF f, l
<1>5. f = t
    BY <1>2, SeqEqual
<1>6. l = t
    BY <1>3, <1>4, SeqEqual
<1> QED
    BY <1>5, <1>6 DEF f, l

LEMMA RelocateRefines ==
    ASSUME RInv, pc = "enter", call.op \in {"set_capacity", "rset_capacity"},
           NEW f, NEW l, Relocate(call.i, f, l)
    PROVE  Refines
<1>1. /\ CallFits /\ CallInv /\ HoldsOld /\ cap \in Nat /\ size \in 0 .. cap /\ Len(old) = size
      /\ old = Contents /\ old \in Seq(Element) /\ pc # "idle"
      /\ \A k \in 0 .. size - 1 : mem[Add(first, k, cap)] = old[k + 1]
    BY EnterFacts, LoopFacts
<1>2. CASE call.i = cap /\ Return(NoIter) /\ UNCHANGED <<object, fault>>
    <2>1. Contents' = old /\ cap' = cap
        BY <1>1, <1>2 DEF object, Contents
    <2>2. Position(ret)' = 0
        BY <1>2 DEF Return, Position, NoIter, NULL
    <2>3. Deque!After(AbstractCall(call), old, cap) = <<old, cap, 0>>
        <3>1. AbstractCall(call).op = call.op /\ AbstractCall(call).i = cap
            BY <1>1, <1>2, AbstractParts DEF CallFits
        <3>2. Deque!FirstOf(old, cap) = old /\ Deque!LastOf(old, cap) = old
            BY <1>1, AllFit
        <3> QED
            BY <3>1, <3>2 DEF Deque!After, Deque!SetCapacityOutcome, Deque!RSetCapacityOutcome
    <2> QED
        BY <1>1, <1>2, <2>1, <2>2, <2>3, Returns DEF Refines
<1>3. CASE Throw /\ UNCHANGED <<object, fault>>
    <2>1. Contents' = old /\ cap' = cap
        BY <1>1, <1>3 DEF object, Contents
    <2> QED
        BY <1>1, <1>3, <2>1, ThrowsStrong DEF Refines
<1>4. CASE /\ nbuf' = [p \in Slots(call.i) |-> Raw] /\ dest' = 0
           /\ Goto("relocate") /\ UNCHANGED <<object, construct, count, fault>>
    <2>1. /\ cap' = cap /\ first' = first /\ size' = size /\ mem' = mem /\ call' = call /\ old' = old
          /\ pc' = "relocate"
        BY <1>4 DEF object, Goto
    <2>2. ASSUME NEW skip, NEW m PROVE RelocateOrder(skip, m)'
        BY <1>1, <1>4, <2>1 DEF RelocateOrder, Holds
    <2>3. Order'
        BY <2>1, <2>2 DEF Order
    <2>4. HoldsOld' /\ RightLoop'
        BY <1>1, <2>1, SameKeepsOld DEF RightLoop
    <2> QED
        BY <1>1, <1>4, <2>1, <2>3, <2>4, LoopStep
<1> QED
    BY <1>2, <1>3, <1>4 DEF Relocate

LEMMA SetCapacityRefines == RInv /\ (SetCapacity \/ RSetCapacity) => Refines
BY RelocateRefines DEF SetCapacity, RSetCapacity, Enter

\* What the invariants say while elements are relocated: m of them go, those
\* behind the first s.
LEMMA RelocatePlaces ==
    ASSUME RInv, pc = "relocate"
    PROVE  /\ call.op \in {"set_capacity", "rset_capacity"} /\ CallInv /\ HoldsOld
           /\ cap \in Nat /\ size \in 0 .. cap /\ mem \in [Slots(cap) -> Cell]
           /\ size > 0 => cap \in Nat \ {0} /\ first \in Slots(cap)
           /\ size = Len(old) /\ old \in Seq(Element)
           /\ \E m \in Nat, s \in Nat, c \in Nat, e \in Nat :
                 /\ m = Lesser(call.i, size) /\ c = call.i /\ e = dest
                 /\ s = IF call.op = "set_capacity" THEN 0 ELSE size - m
                 /\ m <= c /\ s + m <= size /\ e <= m
                 /\ src = It(s + e) /\ pos = It(s + m) /\ (src = pos <=> e = m)
                 /\ nbuf \in [Slots(c) -> Cell] /\ RelocateOrder(s, m)
<1>1. /\ call.op \in {"set_capacity", "rset_capacity"} /\ CallInv /\ HoldsOld /\ old \in Seq(Element)
      /\ cap \in Nat /\ size \in 0 .. cap /\ mem \in [Slots(cap) -> Cell]
      /\ cap > 0 => cap \in Nat \ {0} /\ first \in Slots(cap)
    BY LoopFacts DEF RightLoop
<1>2. RelocateLoop /\ Shape
    BY IInvFacts DEF RInv, IInv, LoopInvariants
<1>3. call.i \in Nat /\ size \in Nat
    BY <1>1, <1>2, CapacityAssumption DEF RelocateLoop
<1>4. PICK m \in Nat : m = Lesser(call.i, size) /\ m <= call.i /\ m <= size
    BY <1>3 DEF Lesser
<1>5. PICK s \in Nat : s = (IF call.op = "set_capacity" THEN 0 ELSE size - m) /\ s + m <= size
    <2>1. size - m \in Nat /\ (size - m) + m <= size /\ 0 \in Nat /\ 0 + m <= size
        BY <1>3, <1>4
    <2> QED
        BY <2>1
<1>6. dest \in 0 .. m /\ src = It(s + dest) /\ pos = It(s + m) /\ nbuf \in [Slots(call.i) -> Cell]
    BY <1>2, <1>4, <1>5 DEF RelocateLoop
<1>7. PICK e \in Nat : e = dest /\ e <= m
    BY <1>6
<1>8. src = pos <=> e = m
    <2>1. s + e \in 0 .. size /\ s + m \in 0 .. size
        BY <1>3, <1>5, <1>7
    <2>2. It(s + e) = It(s + m) => s + e = s + m
        BY <1>2, <2>1, IteratorSteps
    <2> QED
        BY <1>6, <1>7, <2>2
<1>9. RelocateOrder(s, m)
    BY <1>4, <1>5 DEF RInv, Order
<1>10. size = Len(old) /\ (size > 0 => cap > 0)
    BY <1>1, <1>9 DEF RelocateOrder
<1>11. PICK c \in Nat : c = call.i
    BY <1>3
<1>12. /\ m = Lesser(call.i, size) /\ c = call.i /\ e = dest
       /\ s = (IF call.op = "set_capacity" THEN 0 ELSE size - m)
       /\ m <= c /\ s + m <= size /\ e <= m
       /\ src = It(s + e) /\ pos = It(s + m) /\ (src = pos <=> e = m)
       /\ nbuf \in [Slots(c) -> Cell] /\ RelocateOrder(s, m)
    BY <1>4, <1>5, <1>6, <1>7, <1>8, <1>9, <1>11
<1> QED
    BY <1>1, <1>10, <1>12

LEMMA RelocateOneRefines == RInv /\ RelocateOne => Refines
<1> SUFFICES ASSUME RInv, RelocateOne PROVE Refines
    OBVIOUS
<1>1. pc = "relocate" /\ pc # "idle" /\ src # pos
    BY DEF RelocateOne
<1>2. /\ call.op \in {"set_capacity", "rset_capacity"} /\ CallInv /\ HoldsOld
      /\ cap \in Nat /\ size \in 0 .. cap /\ mem \in [Slots(cap) -> Cell]
      /\ size > 0 => cap \in Nat \ {0} /\ first \in Slots(cap)
      /\ size = Len(old) /\ old \in Seq(Element)
    BY <1>1, RelocatePlaces
<1>3. PICK m \in Nat, s \in Nat, c \in Nat, e \in Nat :
         /\ m = Lesser(call.i, size) /\ c = call.i /\ e = dest
         /\ s = IF call.op = "set_capacity" THEN 0 ELSE size - m
         /\ m <= c /\ s + m <= size /\ e <= m
         /\ src = It(s + e) /\ pos = It(s + m) /\ (src = pos <=> e = m)
         /\ nbuf \in [Slots(c) -> Cell] /\ RelocateOrder(s, m)
    BY <1>1, RelocatePlaces
<1>4. s + m <= size /\ m <= c /\ e < m /\ size \in Nat /\ size <= cap /\ cap \in Nat \ {0} /\ first \in Slots(cap)
    <2>1. e <= m /\ e # m /\ s + m <= size /\ m <= c /\ size \in Nat /\ size <= cap
        BY <1>1, <1>2, <1>3
    <2>2. e < m /\ size > 0
        BY <2>1
    <2> QED
        BY <1>2, <2>1, <2>2
<1>5. PICK x \in Nat : x = s + e /\ x < size /\ x \in 0 .. cap - 1 /\ x \in 0 .. cap
    <2>1. s + e \in Nat /\ s + e < size /\ s + e \in 0 .. cap - 1 /\ s + e \in 0 .. cap
        BY <1>4
    <2> QED
        BY <2>1
<1>6. src = Add(first, x, cap) /\ src \in Slots(cap)
    <2>1. src = Add(first, x, cap)
        BY <1>3, <1>4, <1>5 DEF It
    <2> QED
        BY <1>4, <1>5, <2>1, AddInRing
<1>7. CASE MoveMayThrow /\ Throw /\ UNCHANGED object
    <2>1. size' = Len(old) /\ cap' = cap /\ first' = first /\ mem' = mem /\ ~NothrowMove
        BY <1>2, <1>7 DEF object, MoveMayThrow
    <2>2. ASSUME NEW k \in 0 .. size' - 1 PROVE mem'[Add(first', k, cap')] = old[k + 1]
        BY <1>2, <1>3, <2>1 DEF RelocateOrder, Holds
    <2>3. Contents' = old
        BY <1>2, <2>1, <2>2, ContentsAre
    <2> QED
        BY <1>1, <1>2, <1>7, <2>1, <2>3, ThrowsStrong DEF Refines
<1>8. CASE /\ nbuf' = [nbuf EXCEPT ![dest] = mem[src]] /\ mem' = [mem EXCEPT ![src] = MovedFrom(@)]
           /\ dest' = dest + 1 /\ Goto("relocate") /\ UNCHANGED <<cap, first, last, size, pos, construct, count>>
    <2>1. /\ cap' = cap /\ first' = first /\ size' = size /\ call' = call /\ old' = old
          /\ pc' = "relocate" /\ dest' = e + 1
        BY <1>3, <1>8 DEF Goto
    <2>2. \A q \in Slots(cap) : mem'[q] = IF q = src THEN MovedFrom(mem[src]) ELSE mem[q]
        BY <1>2, <1>6, <1>8
    <2>3. \A k \in Slots(c) : nbuf'[k] = IF k = e THEN mem[src] ELSE nbuf[k]
        BY <1>3, <1>8
    <2>4. Holds(x, x) /\ mem[src] = old[x + 1]
        <3>1. x \in 0 .. size - 1 /\ ~(x \in s .. s + e - 1)
            BY <1>4, <1>5
        <3>2. Holds(x, x)
            BY <1>3, <3>1 DEF RelocateOrder
        <3> QED
            BY <1>6, <3>2 DEF Holds
    <2>5. ASSUME NEW k \in 0 .. (e + 1) - 1 PROVE nbuf'[k] = old[s + k + 1]
        <3>1. k \in Slots(c) /\ (k # e => k \in 0 .. e - 1)
            BY <1>4 DEF Slots
        <3>2. k # e => nbuf[k] = old[s + k + 1]
            BY <1>3, <3>1 DEF RelocateOrder
        <3>3. k = e => s + k + 1 = x + 1
            BY <1>5
        <3> QED
            BY <2>3, <2>4, <3>1, <3>2, <3>3
    <2>6. ASSUME NEW k \in 0 .. size - 1 PROVE (NothrowMove /\ k \in s .. s + (e + 1) - 1) \/ Holds(k, k)'
        <3>1. CASE k = x
            <4>1. k \in s .. s + (e + 1) - 1
                BY <1>5, <3>1
            <4>2. ~NothrowMove => mem'[src] = mem[src]
                BY <1>6, <2>2 DEF MovedFrom
            <4>3. ~NothrowMove => Holds(k, k)'
                BY <1>6, <2>1, <2>4, <3>1, <4>2 DEF Holds
            <4> QED
                BY <4>1, <4>3
        <3>2. CASE k # x
            <4>1. k \in 0 .. cap - 1
                BY <1>4
            <4>2. \A q \in Slots(cap) : q = Add(first, x, cap) \/ mem'[q] = mem[q]
                BY <1>6, <2>2
            <4>3. mem'[Add(first, k, cap)] = mem[Add(first, k, cap)]
                BY <1>4, <1>5, <3>2, <4>1, <4>2, Untouched
            <4>4. (NothrowMove /\ k \in s .. s + e - 1) \/ Holds(k, k)
                BY <1>3 DEF RelocateOrder
            <4>5. k \in s .. s + e - 1 => k \in s .. s + (e + 1) - 1
                BY <1>4
            <4> QED
                BY <2>1, <4>3, <4>4, <4>5 DEF Holds
        <3> QED
            BY <3>1, <3>2
    <2>7. RelocateOrder(s, m)'
        BY <1>2, <2>1, <2>5, <2>6 DEF RelocateOrder
    <2>8. Lesser(call.i, size)' = m /\ (IF call.op = "set_capacity" THEN 0 ELSE size - m)' = s
        BY <1>3, <2>1 DEF Lesser
    <2>9. Order'
        BY <2>1, <2>7, <2>8 DEF Order
    <2>10. HoldsOld'
        <3>1. Olds' = Olds /\ Moved \in Olds
            BY <2>1 DEF Olds
        <3>2. ASSUME NEW p \in Live(mem') PROVE mem'[p] \in Olds
            <4>1. p \in Slots(cap) /\ mem'[p] # Raw
                BY <1>2, <1>8 DEF Live
            <4>2. mem'[p] = Moved \/ mem'[p] = mem[p]
                BY <2>2, <4>1 DEF MovedFrom
            <4>3. mem'[p] = mem[p] => p \in Live(mem)
                BY <1>2, <4>1 DEF Live
            <4> QED
                BY <1>1, <1>2, <3>1, <4>2, <4>3 DEF HoldsOld
        <3> QED
            BY <3>1, <3>2 DEF HoldsOld
    <2>11. RightLoop'
        BY <1>2, <2>1 DEF RightLoop
    <2> QED
        BY <1>1, <1>2, <1>8, <2>1, <2>9, <2>10, <2>11, LoopStep
<1> QED
    BY <1>7, <1>8 DEF RelocateOne

LEMMA ResetRefines == RInv /\ Reset => Refines
<1> SUFFICES ASSUME RInv, Reset PROVE Refines
    OBVIOUS
<1>1. pc = "relocate" /\ pc # "idle" /\ src = pos
    BY DEF Reset
<1>2. /\ call.op \in {"set_capacity", "rset_capacity"} /\ CallInv
      /\ size = Len(old) /\ old \in Seq(Element)
    BY <1>1, RelocatePlaces
<1>3. PICK m \in Nat, s \in Nat, c \in Nat, e \in Nat :
         /\ m = Lesser(call.i, size) /\ c = call.i /\ e = dest
         /\ s = IF call.op = "set_capacity" THEN 0 ELSE size - m
         /\ m <= c /\ s + m <= size /\ e <= m
         /\ src = It(s + e) /\ pos = It(s + m) /\ (src = pos <=> e = m)
         /\ nbuf \in [Slots(c) -> Cell] /\ RelocateOrder(s, m)
    BY <1>1, RelocatePlaces
<1>4. e = m /\ m <= c
    BY <1>1, <1>3
<1>5. mem' = nbuf /\ cap' = c /\ size' = m /\ first' = 0 /\ Return(NoIter)
    BY <1>3, <1>4 DEF Reset
<1>6. ASSUME NEW k \in 0 .. m - 1 PROVE mem'[Add(first', k, cap')] = old[s + k + 1]
    <2>1. Add(0, k, c) = k
        BY <1>4 DEF Add
    <2>2. nbuf[k] = old[s + k + 1]
        BY <1>3, <1>4 DEF RelocateOrder
    <2> QED
        BY <1>5, <2>1, <2>2
<1>7. Lesser(c, Len(old)) = m
    BY <1>2, <1>3
<1>8. Position(ret)' = 0
    BY <1>5 DEF Return, Position, NoIter, NULL
<1>9. AbstractCall(call).op = call.op /\ AbstractCall(call).i = c
    BY <1>1, <1>2, <1>3, AbstractParts DEF CallInv, CallFits
<1>10. CASE call.op = "set_capacity"
    <2> DEFINE t == Deque!FirstOf(old, c)
    <2>1. t \in Seq(Element) /\ Len(t) = m /\ \A k \in 1 .. m : t[k] = old[k]
        BY <1>2, <1>7, FirstOfFacts
    <2> HIDE DEF t
    <2>2. ASSUME NEW k \in 0 .. size' - 1 PROVE mem'[Add(first', k, cap')] = t[k + 1]
        <3>1. k \in 0 .. m - 1 /\ k + 1 \in 1 .. m /\ s + k + 1 = k + 1
            BY <1>3, <1>5, <1>10
        <3> QED
            BY <1>6, <2>1, <3>1
    <2>3. Contents' = t
        BY <1>5, <2>1, <2>2, ContentsAre
    <2>4. Deque!After(AbstractCall(call), old, cap) = <<t, cap', 0>>
        BY <1>5, <1>9, <1>10 DEF Deque!After, Deque!SetCapacityOutcome, Deque!RSetCapacityOutcome, t
    <2> QED
        BY <1>1, <1>2, <1>5, <1>8, <2>3, <2>4, Returns DEF Refines
<1>11. CASE call.op = "rset_capacity"
    <2> DEFINE t == Deque!LastOf(old, c)
    <2>1. /\ t \in Seq(Element) /\ Len(t) = m
          /\ \A k \in 1 .. m : t[k] = old[k + (Len(old) - m)]
        BY <1>2, <1>7, LastOfFacts
    <2> HIDE DEF t
    <2>2. ASSUME NEW k \in 0 .. size' - 1 PROVE mem'[Add(first', k, cap')] = t[k + 1]
        <3>1. s = Len(old) - m
            BY <1>2, <1>3, <1>11
        <3>2. k \in 0 .. m - 1 /\ k + 1 \in 1 .. m /\ s + k + 1 = (k + 1) + s
            BY <1>5
        <3> QED
            BY <1>6, <2>1, <3>1, <3>2
    <2>3. Contents' = t
        BY <1>5, <2>1, <2>2, ContentsAre
    <2>4. Deque!After(AbstractCall(call), old, cap) = <<t, cap', 0>>
        BY <1>5, <1>9, <1>11 DEF Deque!After, Deque!SetCapacityOutcome, Deque!RSetCapacityOutcome, t
    <2> QED
        BY <1>1, <1>2, <1>5, <1>8, <2>3, <2>4, Returns DEF Refines
<1> QED
    BY <1>2, <1>10, <1>11

---------------------------------------------------------------------------
(* rotate                                                                  *)

\* Places seen from another place of a full buffer.
LEMMA PlacesTurn ==
    ASSUME NEW c \in Nat \ {0}, NEW f \in Slots(c), NEW a \in 0 .. c - 1, NEW k \in 0 .. c - 1
    PROVE  Add(Add(f, a, c), k, c) = Add(f, IF k + a < c THEN k + a ELSE k + a - c, c)
BY DEF Add, Slots

\* The members show the contents with the first h elements at the end.
LEMMA TurnedAre ==
    ASSUME old \in Seq(Element), NEW h \in 0 .. Len(old) - 1, size' = Len(old),
           \A k \in 0 .. size' - 1 : mem'[Add(first', k, cap')]
               = old[(IF k + h < Len(old) THEN k + h ELSE k + h - Len(old)) + 1]
    PROVE  Contents' = SubSeq(old, h + 1, Len(old)) \o SubSeq(old, 1, h)
<1> DEFINE i == h + 1
           r == SubSeq(old, i, Len(old)) \o SubSeq(old, 1, i - 1)
<1>1. Len(old) \in Nat
    BY LenProperties
<1>2. i \in 1 .. Len(old) + 1 /\ i - 1 = h
    BY <1>1
<1> HIDE DEF i
<1>3. /\ r \in Seq(Element) /\ Len(r) = Len(old)
      /\ \A k \in 1 .. Len(old) : r[k] =
            IF k + (i - 1) <= Len(old) THEN old[k + (i - 1)] ELSE old[k + (i - 1) - Len(old)]
    BY <1>2, TurnedFacts
<1> HIDE DEF r
<1>4. ASSUME NEW k \in 0 .. size' - 1 PROVE mem'[Add(first', k, cap')] = r[k + 1]
    <2>1. /\ k + 1 \in 1 .. Len(old) /\ (k + h < Len(old) <=> (k + 1) + h <= Len(old))
          /\ (k + h) + 1 = (k + 1) + h /\ (k + h - Len(old)) + 1 = (k + 1) + h - Len(old)
        BY <1>1
    <2>2. r[k + 1] = IF (k + 1) + h <= Len(old) THEN old[(k + 1) + h] ELSE old[(k + 1) + h - Len(old)]
        BY <1>2, <1>3, <2>1
    <2> QED
        BY <2>1, <2>2
<1>5. Contents' = r
    BY <1>3, <1>4, ContentsAre
<1> QED
    BY <1>2, <1>5 DEF r, i

\* What a completed rotate returns.
LEMMA RotateReturns ==
    ASSUME CallInv, pc # "idle", call.op = "rotate", Return(NoIter), cap' = cap, size' = Len(old),
           \A k \in 0 .. size' - 1 : mem'[Add(first', k, cap')]
               = old[(IF k + call.i < Len(old) THEN k + call.i ELSE k + call.i - Len(old)) + 1]
    PROVE  Refines
<1>1. old \in Seq(Element) /\ call.i \in 0 .. Len(old) - 1 /\ call.i \in Nat /\ CallFits
    BY DEF CallInv, CallFits
<1>2. PICK a \in 0 .. Len(old) - 1 : a = call.i
    BY <1>1
<1>3. Contents' = SubSeq(old, a + 1, Len(old)) \o SubSeq(old, 1, a)
    BY <1>1, <1>2, TurnedAre
<1>4. Position(ret)' = 0
    BY DEF Return, Position, NoIter, NULL
<1>5. AbstractCall(call).op = "rotate" /\ AbstractCall(call).i = a + 1 /\ (a + 1) - 1 = a
    BY <1>1, <1>2, AbstractParts DEF CallFits
<1>6. Deque!After(AbstractCall(call), old, cap)
         = <<SubSeq(old, a + 1, Len(old)) \o SubSeq(old, 1, a), cap, 0>>
    BY <1>5 DEF Deque!After, Deque!RotateOutcome
<1> QED
    BY <1>3, <1>4, <1>6, Returns DEF Refines

LEMMA RotateRefines == RInv /\ Rotate => Refines
<1> SUFFICES ASSUME RInv, Rotate PROVE Refines
    OBVIOUS
<1>1. pc = "enter" /\ pc # "idle" /\ call.op = "rotate"
    BY DEF Rotate, Enter
<1>2. /\ CallFits /\ CallInv /\ HoldsOld
      /\ cap \in Nat /\ size \in 0 .. cap /\ Len(old) = size /\ old \in Seq(Element)
      /\ \A k \in 0 .. size - 1 : mem[Add(first, k, cap)] = old[k + 1]
      /\ cap > 0 => cap \in Nat \ {0} /\ first \in Slots(cap)
    BY <1>1, EnterFacts, LoopFacts
<1>3. PICK a \in Nat, n \in Nat : a = call.i /\ n = Len(old) /\ n = size /\ a < n /\ n <= cap
    <2>1. call.i \in 0 .. Len(old) - 1 /\ Len(old) \in Nat
        BY <1>1, <1>2 DEF CallFits
    <2>2. call.i \in Nat /\ call.i < Len(old)
        BY <2>1
    <2> QED
        BY <1>2, <2>1, <2>2
<1>4. cap \in Nat \ {0} /\ first \in Slots(cap)
    BY <1>2, <1>3
<1>5. CASE full
    <2>1. n = cap
        BY <1>3, <1>5 DEF full
    <2>2. first' = Add(first, a, cap) /\ cap' = cap /\ size' = size /\ mem' = mem /\ Return(NoIter)
        BY <1>3, <1>5 DEF Rotate, It
    <2>3. ASSUME NEW k \in 0 .. size' - 1
          PROVE  mem'[Add(first', k, cap')] = old[(IF k + a < n THEN k + a ELSE k + a - n) + 1]
        <3>1. /\ a \in 0 .. cap - 1 /\ k \in 0 .. cap - 1
              /\ (IF k + a < cap THEN k + a ELSE k + a - cap) \in 0 .. size - 1
            <4>1. a < cap /\ size = cap /\ size' = cap
                BY <1>3, <2>1, <2>2
            <4>2. k \in 0 .. cap - 1
                BY <4>1
            <4> QED
                BY <1>4, <4>1, <4>2
        <3>2. Add(Add(first, a, cap), k, cap) = Add(first, IF k + a < cap THEN k + a ELSE k + a - cap, cap)
            BY <1>4, <3>1, PlacesTurn
        <3> QED
            BY <1>2, <2>1, <2>2, <3>1, <3>2
    <2> QED
        BY <1>1, <1>2, <1>3, <2>2, <2>3, RotateReturns
<1>6. CASE ~full
    <2>1. /\ count' = Lesser(size - call.i, call.i) /\ construct' = (size - call.i < call.i)
          /\ Goto("rotate") /\ UNCHANGED <<object, pos, src, dest, nbuf, fault>>
        BY <1>6 DEF Rotate
    <2>2. /\ cap' = cap /\ first' = first /\ size' = size /\ mem' = mem /\ call' = call /\ old' = old
          /\ pc' = "rotate"
        BY <2>1 DEF object, Goto
    <2>3. PICK h \in 0 .. n : /\ h = IF construct' THEN call.i + count' ELSE call.i - count'
                              /\ h = n \/ h = 0
        <3>1. CASE n - a < a
            <4>1. construct' = TRUE /\ count' = n - a
                BY <1>3, <2>1, <3>1 DEF Lesser
            <4>2. a + (n - a) = n /\ n \in 0 .. n
                BY <1>3
            <4>3. n = IF construct' THEN call.i + count' ELSE call.i - count'
                BY <1>3, <4>1, <4>2
            <4> QED
                BY <4>2, <4>3
        <3>2. CASE ~(n - a < a)
            <4>a. construct' = (n - a < a) /\ count' = Lesser(n - a, a)
                BY <1>3, <2>1
            <4>b. (n - a < a) = FALSE /\ Lesser(n - a, a) = a
                BY <3>2 DEF Lesser
            <4>1. construct' = FALSE /\ count' = a
                BY <4>a, <4>b
            <4>2. a - a = 0 /\ 0 \in 0 .. n
                BY <1>3
            <4>3. 0 = IF construct' THEN call.i + count' ELSE call.i - count'
                BY <1>3, <4>1, <4>2
            <4> QED
                BY <4>2, <4>3
        <3> QED
            BY <3>1, <3>2
    <2>4. ASSUME NEW k \in 0 .. n - 1 PROVE Holds(k, IF k + h < n THEN k + h ELSE k + h - n)'
        <3>1. (IF k + h < n THEN k + h ELSE k + h - n) = k
            BY <2>3
        <3>2. Holds(k, k)'
            BY <1>2, <1>3, <2>2 DEF Holds
        <3> QED
            BY <3>1, <3>2
    <2>5. RotateOrder(h)'
        BY <1>3, <2>2, <2>3, <2>4 DEF RotateOrder
    <2>6. Order'
        BY <1>3, <2>2, <2>5 DEF Order
    <2>7. HoldsOld' /\ RightLoop'
        BY <1>1, <1>2, <2>2, SameKeepsOld DEF RightLoop
    <2> QED
        BY <1>1, <1>2, <2>1, <2>2, <2>6, <2>7, LoopStep
<1> QED
    BY <1>5, <1>6

\* What the invariants say in the loops of rotate: q rounds are left.
LEMMA RotatePlaces ==
    ASSUME RInv, pc = "rotate"
    PROVE  /\ call.op = "rotate" /\ CallInv /\ HoldsOld /\ cap \in Nat \ {0} /\ first \in Slots(cap)
           /\ mem \in [Slots(cap) -> Cell] /\ old \in Seq(Element)
           /\ \E a \in Nat, n \in Nat, h \in Nat, q \in Nat :
                 /\ a = call.i /\ n = Len(old) /\ q = count /\ size = n
                 /\ a < n /\ n < cap /\ h <= n
                 /\ construct => h = a + q
                 /\ ~construct => h = a - q
                 /\ \A k \in 0 .. n - 1 : Holds(k, IF k + h < n THEN k + h ELSE k + h - n)
                 /\ Add(first, n, cap) = last
<1>1. /\ call.op = "rotate" /\ CallInv /\ CallFits /\ HoldsOld /\ old \in Seq(Element)
      /\ cap \in Nat /\ size \in 0 .. cap /\ mem \in [Slots(cap) -> Cell]
      /\ \E h \in 0 .. size : RotateOrder(h)
      /\ cap > 0 => cap \in Nat \ {0} /\ first \in Slots(cap)
      /\ last = Add(first, size, cap)
    BY LoopFacts DEF RightLoop, Order
<1>2. ~full /\ count \in Nat
    BY DEF RInv, IInv, LoopInvariants, RotateLoop, TypeOK
<1>3. PICK h \in 0 .. size : RotateOrder(h)
    BY <1>1
<1>4. PICK a \in Nat, n \in Nat, q \in Nat :
         a = call.i /\ n = Len(old) /\ q = count /\ size = n /\ a < n /\ n < cap
    <2>1. call.i \in 0 .. Len(old) - 1 /\ size = Len(old) /\ size # cap
        BY <1>1, <1>2, <1>3 DEF CallFits, RotateOrder, full
    <2>2. call.i \in Nat /\ Len(old) \in Nat /\ call.i < Len(old) /\ Len(old) < cap
        BY <1>1, <2>1
    <2> QED
        BY <1>2, <2>1, <2>2
<1>5. /\ construct => h = a + q
      /\ ~construct => h = a - q
    BY <1>3, <1>4 DEF RotateOrder
<1>6. \A k \in 0 .. n - 1 : Holds(k, IF k + h < n THEN k + h ELSE k + h - n)
    BY <1>3, <1>4 DEF RotateOrder
<1>7. h \in Nat /\ h <= n /\ cap \in Nat \ {0} /\ first \in Slots(cap)
    BY <1>1, <1>4
<1> QED
    BY <1>1, <1>4, <1>5, <1>6, <1>7

\* A throw leaves the elements turned part of the way.
LEMMA RotateThrows ==
    ASSUME RInv, pc = "rotate", MoveMayThrow /\ Throw /\ UNCHANGED <<object, fault>>
    PROVE  Refines
<1>1. /\ call.op = "rotate" /\ CallInv /\ CallFits /\ old \in Seq(Element) /\ pc # "idle" /\ Len(old) \in Nat
    BY RotatePlaces, LenProperties DEF CallInv
<1>2. PICK a \in Nat, n \in Nat, h \in Nat, q \in Nat :
         /\ a = call.i /\ n = Len(old) /\ q = count /\ size = n
         /\ a < n /\ n < cap /\ h <= n
         /\ construct => h = a + q
         /\ ~construct => h = a - q
         /\ \A k \in 0 .. n - 1 : Holds(k, IF k + h < n THEN k + h ELSE k + h - n)
         /\ Add(first, n, cap) = last
    BY RotatePlaces
<1>3. PICK g \in 0 .. n - 1 :
         \A k \in 0 .. n - 1 : (IF k + h < n THEN k + h ELSE k + h - n) = IF k + g < n THEN k + g ELSE k + g - n
    <2>1. a < n /\ h <= n
        BY <1>2
    <2>2. CASE h < n
        <3>1. h \in 0 .. n - 1
            BY <2>2
        <3> QED
            BY <3>1
    <2>3. CASE h = n
        <3>1. 0 \in 0 .. n - 1
            BY <2>1
        <3>2. \A k \in 0 .. n - 1 : (IF k + n < n THEN k + n ELSE k + n - n) = IF k + 0 < n THEN k + 0 ELSE k + 0 - n
            OBVIOUS
        <3> QED
            BY <2>3, <3>1, <3>2
    <2> QED
        BY <2>1, <2>2, <2>3
<1>4. mem' = mem /\ cap' = cap /\ first' = first /\ size' = n /\ ~NothrowMove
    BY <1>2 DEF object, MoveMayThrow
<1>5. g \in 0 .. Len(old) - 1 /\ size' = Len(old)
    BY <1>2, <1>4
<1>6. ASSUME NEW k \in 0 .. size' - 1
      PROVE  mem'[Add(first', k, cap')] = old[(IF k + g < Len(old) THEN k + g ELSE k + g - Len(old)) + 1]
    <2>1. k \in 0 .. n - 1
        BY <1>4
    <2>2. Holds(k, IF k + h < n THEN k + h ELSE k + h - n)
        BY <1>2, <2>1
    <2>3. Holds(k, IF k + g < n THEN k + g ELSE k + g - n)
        BY <1>3, <2>1, <2>2
    <2> QED
        BY <1>2, <1>4, <2>3 DEF Holds
<1>7. Contents' = SubSeq(old, g + 1, Len(old)) \o SubSeq(old, 1, g)
    BY <1>1, <1>5, <1>6, TurnedAre
<1>8. pc' = "idle" /\ call' = NoCall /\ threw' = TRUE /\ ret' = NoIter
    BY DEF Throw, Leave
<1>9. CallInv' /\ HoldsOld' /\ Order'
    BY <1>8, CallEnds
<1> DEFINE c == AbstractCall(call)
<1>10. c.op = "rotate" /\ c # NoCall /\ AbstractCall(call)' = NoCall
    BY <1>1, <1>8, CallIsOne, AbstractParts, AbstractNoCall DEF CallFits, AbstractCall
<1>11. Contents' \in {SubSeq(old, k, Len(old)) \o SubSeq(old, 1, k - 1) : k \in 1 .. Len(old)}
    <2>1. g + 1 \in 1 .. Len(old) /\ (g + 1) - 1 = g
        BY <1>1, <1>5
    <2> QED
        BY <1>7, <2>1
<1> HIDE DEF c
<1>12. Contents' \in Deque!Interrupted(c, old, cap, Moved)
    BY <1>10, <1>11 DEF Deque!Interrupted, Deque!Strong
<1>13. c.op \notin Deque!NoThrow
    BY <1>4, <1>10 DEF Deque!NoThrow
<1>14. Position(ret)' = 0
    BY <1>8 DEF Position, NoIter, NULL
<1>15. Deque!Fail
    BY <1>1, <1>4, <1>8, <1>10, <1>12, <1>13, <1>14 DEF Deque!Fail, c
<1> QED
    BY <1>9, <1>15 DEF Refines

\* One element went from the slot b to the free slot f.
LEMMA CarriedKeepsOld ==
    ASSUME HoldsOld, pc # "idle", mem \in [Slots(cap) -> Cell],
           NEW f \in Slots(cap), NEW b \in Slots(cap), f # b,
           mem' = [mem EXCEPT ![f] = mem[b], ![b] = Raw], UNCHANGED <<call, old>>
    PROVE  HoldsOld' /\ mem'[f] = mem[b] /\ \A q \in Slots(cap) : q = f \/ q = b \/ mem'[q] = mem[q]
<1>1. \A q \in Slots(cap) : mem'[q] = IF q = b THEN Raw ELSE IF q = f THEN mem[b] ELSE mem[q]
    OBVIOUS
<1>2. Olds' = Olds
    BY DEF Olds
<1>3. ASSUME NEW p \in Live(mem') PROVE mem'[p] \in Olds
    <2>1. p \in Slots(cap) /\ mem'[p] # Raw
        BY DEF Live
    <2>2. (mem'[p] = mem[b] /\ b \in Live(mem)) \/ (mem'[p] = mem[p] /\ p \in Live(mem))
        BY <1>1, <2>1 DEF Live
    <2> QED
        BY <2>2 DEF HoldsOld
<1>4. HoldsOld'
    BY <1>2, <1>3 DEF HoldsOld
<1> QED
    BY <1>1, <1>4

LEMMA RotateBackRefines == RInv /\ RotateBack => Refines
<1> SUFFICES ASSUME RInv, RotateBack PROVE Refines
    OBVIOUS
<1>1. pc = "rotate" /\ pc # "idle" /\ count > 0 /\ construct
    BY DEF RotateBack
<1>2. /\ call.op = "rotate" /\ CallInv /\ HoldsOld /\ cap \in Nat \ {0} /\ first \in Slots(cap)
      /\ mem \in [Slots(cap) -> Cell]
    BY <1>1, RotatePlaces
<1>3. PICK a \in Nat, n \in Nat, h \in Nat, q \in Nat :
         /\ a = call.i /\ n = Len(old) /\ q = count /\ size = n
         /\ a < n /\ n < cap /\ h <= n
         /\ construct => h = a + q
         /\ ~construct => h = a - q
         /\ \A k \in 0 .. n - 1 : Holds(k, IF k + h < n THEN k + h ELSE k + h - n)
         /\ Add(first, n, cap) = last
    BY <1>1, RotatePlaces
<1>4. CASE MoveMayThrow /\ Throw /\ UNCHANGED <<object, fault>>
    BY <1>1, <1>4, RotateThrows
<1>5. CASE LET b == Decrement(last, cap)
               f == Decrement(first, cap) IN
           /\ mem' = [mem EXCEPT ![f] = mem[b], ![b] = Raw]
           /\ first' = f
           /\ count' = count - 1
           /\ Goto("rotate")
           /\ UNCHANGED <<cap, size, construct>>
    <2>1. a < n /\ n < cap /\ h <= n /\ h = a + q /\ q > 0 /\ cap \in Nat
        BY <1>1, <1>2, <1>3
    <2>2. PICK x \in Nat, g \in Nat, m \in Nat : x = n - 1 /\ g = h - 1 /\ m = cap - 1
        <3>1. n - 1 \in Nat /\ h - 1 \in Nat /\ cap - 1 \in Nat
            BY <2>1
        <3> QED
            BY <3>1
    <2>3. /\ x \in 0 .. cap - 1 /\ m \in 0 .. cap - 1 /\ x # m /\ n \in 0 .. cap /\ n > 0
          /\ x \in 0 .. cap /\ m \in 0 .. cap /\ x - m < cap /\ m - x < cap /\ g \in 0 .. n
          /\ g = a + (q - 1) /\ 0 \in 0 .. cap - 1
        BY <2>1, <2>2
    <2>4. /\ Decrement(last, cap) = Add(first, x, cap)
          /\ Decrement(first, cap) = Add(first, m, cap)
        <3>1. Add(first, n - 1, cap) = Decrement(Add(first, n, cap), cap)
            BY <1>2, <2>3, AddInRing
        <3>2. Decrement(first, cap) = Add(first, cap - 1, cap)
            BY <1>2 DEF Decrement, Add, Slots
        <3> QED
            BY <1>3, <2>2, <3>1, <3>2
    <2>5. PICK f \in Slots(cap), b \in Slots(cap) : f = Add(first, m, cap) /\ b = Add(first, x, cap) /\ f # b
        BY <1>2, <2>3, AddInRing, PlacesDiffer
    <2>6. /\ mem' = [mem EXCEPT ![f] = mem[b], ![b] = Raw] /\ first' = f /\ cap' = cap /\ size' = size
          /\ call' = call /\ old' = old /\ pc' = "rotate" /\ construct' = construct /\ count' = count - 1
        BY <1>5, <2>4, <2>5 DEF Goto
    <2>7. HoldsOld' /\ mem'[f] = mem[b] /\ \A p \in Slots(cap) : p = f \/ p = b \/ mem'[p] = mem[p]
        BY <1>1, <1>2, <2>5, <2>6, CarriedKeepsOld
    <2>8. first' = Decrement(first, cap)
        BY <1>5
    <2>9. ASSUME NEW k \in 0 .. n - 1 PROVE Holds(k, IF k + g < n THEN k + g ELSE k + g - n)'
        <3>1. CASE k = 0
            <4>1. x \in 0 .. n - 1 /\ (IF x + h < n THEN x + h ELSE x + h - n) = g /\ 0 + g < n /\ 0 + g = g
                BY <2>1, <2>2
            <4>2. Holds(x, g)
                BY <1>3, <4>1
            <4>3. Add(first', 0, cap) = f
                <5>1. Add(f, 0, cap) = f
                    BY <1>2, AddInRing
                <5> QED
                    BY <2>6, <5>1
            <4>4. Holds(0, g)'
                BY <2>5, <2>6, <2>7, <4>2, <4>3 DEF Holds
            <4> QED
                BY <3>1, <4>1, <4>4
        <3>2. CASE k # 0
            <4>1. PICK l \in Nat : l = k - 1
                <5>1. k - 1 \in Nat
                    BY <3>2
                <5> QED
                    BY <5>1
            <4>2. /\ l \in 0 .. n - 1 /\ l \in 0 .. cap - 1 /\ l # x /\ l # m /\ l + 1 = k
                  /\ (IF l + h < n THEN l + h ELSE l + h - n) = IF k + g < n THEN k + g ELSE k + g - n
                BY <2>1, <2>2, <4>1
            <4>3. Holds(l, IF l + h < n THEN l + h ELSE l + h - n)
                BY <1>3, <4>2
            <4>4. Holds(l, IF k + g < n THEN k + g ELSE k + g - n)
                BY <4>2, <4>3
            <4>5. Add(first', k, cap) = Add(first, l, cap)
                <5>1. Add(Decrement(first, cap), l + 1, cap) = Add(first, l, cap)
                    BY <1>2, <4>2, PlacesMove
                <5> QED
                    BY <2>8, <4>2, <5>1
            <4>6. \A p \in Slots(cap) : p = Add(first, m, cap) \/ p = Add(first, x, cap) \/ mem'[p] = mem[p]
                BY <2>5, <2>7
            <4>7. mem'[Add(first, l, cap)] = mem[Add(first, l, cap)]
                BY <1>2, <2>3, <4>2, <4>6, Untouched
            <4> QED
                BY <2>6, <4>4, <4>5, <4>7 DEF Holds
        <3> QED
            BY <3>1, <3>2
    <2>10. g = IF construct' THEN call'.i + count' ELSE call'.i - count'
        <3>1. call'.i = a /\ count' = q - 1 /\ construct'
            BY <1>1, <1>3, <2>6
        <3> QED
            BY <2>3, <3>1
    <2>11. RotateOrder(g)'
        BY <1>3, <2>6, <2>9, <2>10 DEF RotateOrder
    <2>12. Order'
        BY <1>3, <2>3, <2>6, <2>11 DEF Order
    <2>13. RightLoop'
        BY <1>2, <2>6 DEF RightLoop
    <2>14. Goto("rotate")
        BY <1>5
    <2> QED
        BY <1>1, <1>2, <2>6, <2>7, <2>12, <2>13, <2>14, LoopStep
<1> QED
    BY <1>4, <1>5 DEF RotateBack

LEMMA RotateFrontRefines == RInv /\ RotateFront => Refines
<1> SUFFICES ASSUME RInv, RotateFront PROVE Refines
    OBVIOUS
<1>1. pc = "rotate" /\ pc # "idle" /\ count > 0 /\ ~construct
    BY DEF RotateFront
<1>2. /\ call.op = "rotate" /\ CallInv /\ HoldsOld /\ cap \in Nat \ {0} /\ first \in Slots(cap)
      /\ mem \in [Slots(cap) -> Cell]
    BY <1>1, RotatePlaces
<1>3. PICK a \in Nat, n \in Nat, h \in Nat, q \in Nat :
         /\ a = call.i /\ n = Len(old) /\ q = count /\ size = n
         /\ a < n /\ n < cap /\ h <= n
         /\ construct => h = a + q
         /\ ~construct => h = a - q
         /\ \A k \in 0 .. n - 1 : Holds(k, IF k + h < n THEN k + h ELSE k + h - n)
         /\ Add(first, n, cap) = last
    BY <1>1, RotatePlaces
<1>4. CASE MoveMayThrow /\ Throw /\ UNCHANGED <<object, fault>>
    BY <1>1, <1>4, RotateThrows
<1>5. CASE /\ mem' = [mem EXCEPT ![last] = mem[first], ![first] = Raw]
           /\ first' = Increment(first, cap)
           /\ count' = count - 1
           /\ Goto("rotate")
           /\ UNCHANGED <<cap, size, construct>>
    <2>1. a < n /\ n < cap /\ h = a - q /\ q > 0 /\ cap \in Nat
        BY <1>1, <1>2, <1>3
    <2>2. PICK g \in Nat, y \in Nat : g = h + 1 /\ y = 0
        OBVIOUS
    <2>3. /\ n \in 0 .. cap - 1 /\ y \in 0 .. cap - 1 /\ y # n /\ n \in 0 .. cap /\ y \in 0 .. cap
          /\ n - y < cap /\ y - n < cap /\ g \in 0 .. n /\ g = a - (q - 1) /\ h < n
        BY <2>1, <2>2
    <2>4. first = Add(first, y, cap)
        BY <1>2, <2>2, AddInRing
    <2>5. PICK f \in Slots(cap), b \in Slots(cap) :
             f = Add(first, n, cap) /\ b = Add(first, y, cap) /\ f # b /\ f = last /\ b = first
        <3>1. Add(first, n, cap) \in Slots(cap)
            BY <1>2, <2>3, AddInRing
        <3>2. Add(first, n, cap) # Add(first, y, cap)
            BY <1>2, <2>3, PlacesDiffer
        <3> QED
            BY <1>2, <1>3, <2>4, <3>1, <3>2
    <2>6. /\ mem' = [mem EXCEPT ![f] = mem[b], ![b] = Raw] /\ cap' = cap /\ size' = size
          /\ call' = call /\ old' = old /\ pc' = "rotate" /\ construct' = construct /\ count' = count - 1
          /\ first' = Increment(first, cap)
        BY <1>5, <2>5 DEF Goto
    <2>7. HoldsOld' /\ mem'[f] = mem[b] /\ \A p \in Slots(cap) : p = f \/ p = b \/ mem'[p] = mem[p]
        BY <1>1, <1>2, <2>5, <2>6, CarriedKeepsOld
    <2>8. ASSUME NEW k \in 0 .. n - 1 PROVE Holds(k, IF k + g < n THEN k + g ELSE k + g - n)'
        <3>1. PICK l \in Nat : l = k + 1
            OBVIOUS
        <3>2. k \in 0 .. cap - 1 /\ l \in 0 .. cap - 1 /\ l # y /\ l <= n /\ k = l - 1
            BY <2>1, <2>2, <3>1
        <3>3. Add(first', k, cap) = Add(first, l, cap)
            <4>1. Add(Increment(first, cap), k, cap) = Add(first, k + 1, cap)
                BY <1>2, <3>2, PlacesMove
            <4> QED
                BY <2>6, <3>1, <4>1
        <3>4. CASE l = n
            <4>1. /\ (IF k + g < n THEN k + g ELSE k + g - n) = h
                  /\ y \in 0 .. n - 1 /\ (IF y + h < n THEN y + h ELSE y + h - n) = h
                BY <2>1, <2>2, <2>3, <3>1, <3>4
            <4>2. Holds(y, IF y + h < n THEN y + h ELSE y + h - n)
                BY <1>3, <4>1
            <4>3. Holds(y, h)
                BY <4>1, <4>2
            <4>4. Holds(k, h)'
                BY <2>5, <2>6, <2>7, <3>3, <3>4, <4>3 DEF Holds
            <4> QED
                BY <4>1, <4>4
        <3>5. CASE l # n
            <4>1. /\ l \in 0 .. n - 1
                  /\ (IF l + h < n THEN l + h ELSE l + h - n) = IF k + g < n THEN k + g ELSE k + g - n
                BY <2>1, <2>2, <2>3, <3>1, <3>5
            <4>2. Holds(l, IF l + h < n THEN l + h ELSE l + h - n)
                BY <1>3, <4>1
            <4>3. Holds(l, IF k + g < n THEN k + g ELSE k + g - n)
                BY <4>1, <4>2
            <4>4. \A p \in Slots(cap) : p = Add(first, n, cap) \/ p = Add(first, y, cap) \/ mem'[p] = mem[p]
                BY <2>5, <2>7
            <4>5. mem'[Add(first, l, cap)] = mem[Add(first, l, cap)]
                BY <1>2, <2>3, <3>2, <3>5, <4>4, Untouched
            <4> QED
                BY <2>6, <3>3, <4>3, <4>5 DEF Holds
        <3> QED
            BY <3>4, <3>5
    <2>9. g = IF construct' THEN call'.i + count' ELSE call'.i - count'
        <3>1. call'.i = a /\ count' = q - 1 /\ ~construct'
            BY <1>1, <1>3, <2>6
        <3> QED
            BY <2>3, <3>1
    <2>10. RotateOrder(g)'
        BY <1>3, <2>6, <2>8, <2>9 DEF RotateOrder
    <2>11. Order'
        BY <1>3, <2>3, <2>6, <2>10 DEF Order
    <2>12. RightLoop'
        BY <1>2, <2>6 DEF RightLoop
    <2>13. Goto("rotate")
        BY <1>5
    <2> QED
        BY <1>1, <1>2, <2>6, <2>7, <2>11, <2>12, <2>13, LoopStep
<1> QED
    BY <1>4, <1>5 DEF RotateFront

LEMMA RotateDoneRefines == RInv /\ RotateDone => Refines
<1> SUFFICES ASSUME RInv, RotateDone PROVE Refines
    OBVIOUS
<1>1. pc = "rotate" /\ pc # "idle" /\ count = 0
    BY DEF RotateDone
<1>2. /\ call.op = "rotate" /\ CallInv
    BY <1>1, RotatePlaces
<1>3. PICK a \in Nat, n \in Nat, h \in Nat, q \in Nat :
         /\ a = call.i /\ n = Len(old) /\ q = count /\ size = n
         /\ a < n /\ n < cap /\ h <= n
         /\ construct => h = a + q
         /\ ~construct => h = a - q
         /\ \A k \in 0 .. n - 1 : Holds(k, IF k + h < n THEN k + h ELSE k + h - n)
         /\ Add(first, n, cap) = last
    BY <1>1, RotatePlaces
<1>4. h = a
    BY <1>1, <1>3
<1>5. mem' = mem /\ cap' = cap /\ first' = first /\ size' = n /\ Return(NoIter)
    BY <1>3 DEF RotateDone, object
<1>6. ASSUME NEW k \in 0 .. size' - 1
      PROVE  mem'[Add(first', k, cap')]
                = old[(IF k + call.i < Len(old) THEN k + call.i ELSE k + call.i - Len(old)) + 1]
    BY <1>3, <1>4, <1>5 DEF Holds
<1> QED
    BY <1>1, <1>2, <1>3, <1>5, <1>6, RotateReturns

---------------------------------------------------------------------------
(* The theorems.                                                           *)

LEMMA StutterRefines == RInv /\ UNCHANGED vars => Refines
<1> SUFFICES ASSUME RInv, UNCHANGED vars PROVE Refines
    OBVIOUS
<1>1. UNCHANGED <<cap, first, last, size, mem, pc, pos, src, dest, construct, count, nbuf,
                  call, ret, threw, old, fault>>
    BY DEF vars, object, locals
<1>2. CallInv' /\ HoldsOld'
    BY <1>1 DEF RInv, CallInv, CallFits, RightLoop, HoldsOld, Olds, Live
<1>3. Contents' = Contents /\ Position(ret)' = Position(ret) /\ AbstractCall(call)' = AbstractCall(call)
    BY <1>1 DEF Contents, Position, AbstractCall
<1>4. Order'
    BY <1>1, <1>3
       DEF RInv, Order, InsertOrder, RInsertOrder, EraseOrder, REraseOrder, EraseRangeOrder, REraseRangeOrder,
           REraseHeadOrder, RelocateOrder, RotateOrder, Holds, HoldsInFront, full, Lesser
<1>5. UNCHANGED Deque!dvars
    BY <1>1, <1>3 DEF Deque!dvars
<1> QED
    BY <1>2, <1>4, <1>5 DEF Refines

\* A step of an operation is the return of the abstract call, its failure, or
\* invisible, whichever of the operations it belongs to.
LEMMA BodyRefines == RInv /\ Body => Refines
BY PushBackRefines, PushFrontRefines, PopBackRefines, PopFrontRefines, ClearRefines,
   InsertRefines, InsertShiftRefines, InsertItemRefines,
   RInsertRefines, RInsertShiftRefines, RInsertItemRefines,
   EraseRefines, EraseShiftRefines, EraseLastRefines,
   EraseRangeRefines, EraseRangeShiftRefines, EraseRangeTailRefines,
   REraseRefines, REraseShiftRefines, REraseFirstRefines,
   REraseRangeRefines, REraseRangeShiftRefines, REraseRangeHeadRefines,
   SetCapacityRefines, RelocateOneRefines, ResetRefines,
   RotateRefines, RotateBackRefines, RotateFrontRefines, RotateDoneRefines
   DEF Body

\* The strengthened invariant is inductive, and every step is one of the
\* abstract deque or a stutter of it.
THEOREM StepRefines == RInv /\ [Next]_vars => RInv' /\ [Deque!Next]_(Deque!dvars)
<1>1. RInv /\ [Next]_vars => IInv'
    BY Inductive DEF RInv
<1>2. RInv /\ Invoke => CallInv' /\ HoldsOld' /\ Order' /\ Deque!Invoke
    BY InvokeRefines
<1>3. RInv /\ (Body \/ UNCHANGED vars) => Refines
    BY BodyRefines, StutterRefines
<1>4. RInv /\ [Next]_vars => /\ CallInv' /\ HoldsOld' /\ Order'
                             /\ Deque!Next \/ UNCHANGED Deque!dvars
    BY <1>2, <1>3 DEF Next, Refines, Deque!Next
<1> QED
    BY <1>1, <1>4 DEF RInv

\* Wherever a call is interrupted, each slot holds the element that its loop
\* says, for every operation of the core.
THEOREM RefinementInvariant == Spec => []RInv
<1>1. Init => RInv
    BY InitIInv, RefInit DEF RInv
<1>2. RInv /\ [Next]_vars => RInv'
    BY StepRefines
<1> QED
    BY <1>1, <1>2, PTL DEF Spec

\* Whatever a call does slot by slot, its caller sees the one step that the
\* documentation of the operation promises: contents, order, capacity and the
\* iterator returned, or what it allows an exception to leave behind.
THEOREM Implements == Spec => ImplementsDeque
<1>1. Init => Deque!Init
    BY RefInit
<1>2. RInv /\ [Next]_vars => [Deque!Next]_(Deque!dvars)
    BY StepRefines
<1> QED
    BY <1>1, <1>2, RefinementInvariant, PTL DEF Spec, ImplementsDeque, Deque!Spec

---------------------------------------------------------------------------
(* What an exception leaves behind.                                        *)

\* Every element the completed call would have kept is still somewhere.
Keeps == \A k \in Kept(call) : \E p \in 1 .. size' : Contents'[p] = old[k + 1]

LEMMA KeptIsOld == \A k \in Kept(call) : k \in 0 .. Len(old) - 1
<1>1. Len(old) = Len(old) /\ Kept(call) \subseteq 0 .. Len(old) - 1
    BY DEF Kept
<1> QED
    BY <1>1

\* An element at place p is among the contents.
LEMMA FoundAtPlace ==
    ASSUME NEW v, NEW p \in Nat, size' \in Nat, p < size', mem'[Add(first', p, cap')] = v
    PROVE  \E q \in 1 .. size' : Contents'[q] = v
<1>1. p + 1 \in 1 .. size' /\ (p + 1) - 1 = p
    OBVIOUS
<1>2. Contents' = [k \in 1 .. size' |-> mem'[Add(first', k - 1, cap')]]
    BY DEF Contents
<1>3. Contents'[p + 1] = v
    BY <1>1, <1>2
<1> QED
    BY <1>1, <1>3

\* Nothing was touched since the element was seen at place p.
LEMMA FoundUntouched ==
    ASSUME UNCHANGED object, size \in Nat, NEW e, NEW p \in Nat, p < size, Holds(p, e)
    PROVE  \E q \in 1 .. size' : Contents'[q] = old[e + 1]
<1>1. size' = size /\ mem' = mem /\ first' = first /\ cap' = cap
    BY DEF object
<1>2. size' \in Nat /\ p < size' /\ mem'[Add(first', p, cap')] = old[e + 1]
    BY <1>1 DEF Holds
<1> QED
    BY <1>2, FoundAtPlace

\* A step that does not throw.
LEMMA NotThrown ==
    ASSUME CallInv, pc # "idle"
    PROVE  /\ \A p : Return(p) => threw' = FALSE
           /\ \A l : Goto(l) => threw' = FALSE
BY DEF CallInv, Return, Goto

\* A throw before anything was done.
LEMMA EnterThrowKeeps ==
    ASSUME RInv, pc = "enter", mem' = mem, cap' = cap, size' = size, first' = first
    PROVE  Keeps
<1>1. /\ size \in Nat /\ Len(old) = size
      /\ \A k \in 0 .. size - 1 : mem[Add(first, k, cap)] = old[k + 1]
    BY EnterFacts
<1>2. ASSUME NEW k \in Kept(call) PROVE \E p \in 1 .. size' : Contents'[p] = old[k + 1]
    <2>1. k \in 0 .. size - 1
        BY <1>1, KeptIsOld
    <2>2. k \in Nat /\ k < size' /\ size' \in Nat /\ mem'[Add(first', k, cap')] = old[k + 1]
        BY <1>1, <2>1
    <2> QED
        BY <2>2, FoundAtPlace
<1> QED
    BY <1>2 DEF Keeps

LEMMA PushBackKeeps == RInv /\ PushBack /\ threw' => Keeps
<1> SUFFICES ASSUME RInv, PushBack, threw' PROVE Keeps
    OBVIOUS
<1>1. pc = "enter" /\ pc # "idle" /\ CallInv
    BY DEF PushBack, Enter, RInv
<1>2. UNCHANGED object
    BY <1>1, NotThrown DEF PushBack
<1> QED
    BY <1>1, <1>2, EnterThrowKeeps DEF object

LEMMA PushFrontKeeps == RInv /\ PushFront /\ threw' => Keeps
<1> SUFFICES ASSUME RInv, PushFront, threw' PROVE Keeps
    OBVIOUS
<1>1. pc = "enter" /\ pc # "idle" /\ CallInv
    BY DEF PushFront, Enter, RInv
<1>2. /\ ~(full /\ empty) /\ first' = Increment(Decrement(first, cap), cap)
      /\ UNCHANGED <<cap, last, size, mem, fault>>
    BY <1>1, NotThrown DEF PushFront
<1>3. cap > 0 /\ cap \in Nat \ {0} /\ first \in Slots(cap)
    BY <1>1, <1>2, EnterFacts DEF full, empty
<1>4. first' = first
    BY <1>2, <1>3, StepInRing
<1> QED
    BY <1>1, <1>2, <1>4, EnterThrowKeeps

LEMMA InsertKeeps == RInv /\ Insert /\ threw' => Keeps
<1> SUFFICES ASSUME RInv, Insert, threw' PROVE Keeps
    OBVIOUS
<1>1. pc = "enter" /\ pc # "idle" /\ CallInv
    BY DEF Insert, Enter, RInv
<1>2. UNCHANGED object
    BY <1>1, NotThrown DEF Insert, Inserted
<1> QED
    BY <1>1, <1>2, EnterThrowKeeps DEF object

LEMMA RInsertKeeps == RInv /\ RInsert /\ threw' => Keeps
<1> SUFFICES ASSUME RInv, RInsert, threw' PROVE Keeps
    OBVIOUS
<1>1. pc = "enter" /\ pc # "idle" /\ CallInv /\ call.op = "rinsert"
    BY DEF RInsert, Enter, RInv
<1>2. /\ ~(full /\ It(call.i) = NULL) /\ It(call.i) = begin
      /\ first' = Increment(Decrement(first, cap), cap)
      /\ UNCHANGED <<cap, last, size, mem, fault>>
    BY <1>1, NotThrown DEF RInsert, RInserted
<1>3. cap \in Nat \ {0} /\ first \in Slots(cap)
    <2>1. /\ cap \in Nat /\ size \in 0 .. cap /\ Len(old) = size /\ call.i \in 0 .. size
          /\ cap > 0 => cap \in Nat \ {0} /\ first \in Slots(cap)
        BY <1>1, EnterFacts DEF CallFits
    <2>2. cap = 0 => full /\ It(call.i) = NULL
        BY <2>1 DEF full, It
    <2> QED
        BY <1>2, <2>1, <2>2
<1>4. first' = first
    BY <1>2, <1>3, StepInRing
<1> QED
    BY <1>1, <1>2, <1>4, EnterThrowKeeps

LEMMA SetCapacityKeeps == RInv /\ (SetCapacity \/ RSetCapacity) /\ threw' => Keeps
<1> SUFFICES ASSUME RInv, SetCapacity \/ RSetCapacity, threw' PROVE Keeps
    OBVIOUS
<1>1. pc = "enter" /\ pc # "idle" /\ CallInv
    BY DEF SetCapacity, RSetCapacity, Enter, RInv
<1>2. UNCHANGED object
    BY <1>1, NotThrown DEF SetCapacity, RSetCapacity, Relocate
<1> QED
    BY <1>1, <1>2, EnterThrowKeeps DEF object

\* insert: what is behind the gap was shifted by one, the element next to it
\* is there twice.
LEMMA InsertCatchKeeps == RInv /\ pc = "insert" /\ InsertCatch => Keeps
<1> SUFFICES ASSUME RInv, pc = "insert", InsertCatch PROVE Keeps
    OBVIOUS
<1>1. /\ call.op = "insert" /\ cap \in Nat \ {0} /\ first \in Slots(cap) /\ size \in 1 .. cap
      /\ size = Len(old) /\ last = Add(first, size, cap)
    BY InsertPlaces, LoopFacts
<1>2. PICK j \in Nat : j <= size /\ InsertOrder(j)
    BY <1>1, InsertPlaces DEF InsertOrder
<1>3. PICK n \in Nat, c \in Nat : n = size /\ c = cap /\ 0 < n /\ n <= c /\ (full <=> n = c)
    BY <1>1 DEF full
<1>4. /\ \A k \in 0 .. j - 1 : (k = 0 /\ n = c /\ j < n) \/ Holds(k, k)
      /\ \A k \in j + 1 .. n : Holds(k, k - 1)
    BY <1>2, <1>3 DEF InsertOrder
<1>5. mem' = mem /\ first' = first /\ cap' = cap
    BY DEF InsertCatch
<1>6. n # c /\ j < n => size' = n + 1
    <2> SUFFICES ASSUME n # c, j < n PROVE size' = n + 1
        OBVIOUS
    <2>1. j \in 0 .. cap /\ size \in 0 .. cap /\ j # size /\ j - size < cap /\ size - j < cap
        BY <1>2, <1>3
    <2>2. src # last
        BY <1>1, <1>2, <2>1, PlacesDiffer DEF InsertOrder
    <2>3. ~construct
        BY <2>2, InsertFacts DEF RInv, InsertLoop
    <2> QED
        BY <1>3, <2>3 DEF InsertCatch
<1>7. size' = n \/ size' = n + 1
    BY <1>3 DEF InsertCatch
<1>8. ASSUME NEW e \in Nat, NEW p \in Nat, p <= n, p < n \/ size' = n + 1, Holds(p, e)
      PROVE  \E q \in 1 .. size' : Contents'[q] = old[e + 1]
    <2>1. size' \in Nat /\ p < size'
        BY <1>7, <1>8
    <2>2. mem'[Add(first', p, cap')] = old[e + 1]
        BY <1>5, <1>8 DEF Holds
    <2> QED
        BY <2>1, <2>2, FoundAtPlace
<1>9. ASSUME NEW e \in Kept(call) PROVE \E q \in 1 .. size' : Contents'[q] = old[e + 1]
    <2>1. e \in Nat /\ e < n /\ (n = c => e > 0)
        <3>1. e \in 0 .. n - 1
            BY <1>1, <1>3, KeptIsOld
        <3>2. n = c => e \in 1 .. n - 1
            BY <1>1, <1>3 DEF Kept
        <3> QED
            BY <3>1, <3>2
    <2>2. CASE e < j
        <3>1. e \in 0 .. j - 1 /\ ~(e = 0 /\ n = c)
            BY <2>1, <2>2
        <3>2. Holds(e, e) /\ e <= n /\ e < n
            BY <1>4, <2>1, <3>1
        <3> QED
            BY <1>8, <2>1, <3>2
    <2>3. CASE e >= j
        <3>1. e + 1 \in j + 1 .. n /\ (e + 1) - 1 = e /\ e + 1 \in Nat /\ j < n
            BY <2>1, <2>3
        <3>2. Holds(e + 1, e)
            <4>1. Holds(e + 1, (e + 1) - 1)
                BY <1>4, <3>1
            <4> QED
                BY <3>1, <4>1
        <3>3. CASE n # c \/ e + 1 < n
            <4>1. e + 1 <= n /\ (e + 1 < n \/ size' = n + 1)
                BY <1>6, <3>1, <3>3
            <4> QED
                BY <1>8, <2>1, <3>1, <3>2, <4>1
        <3>4. CASE n = c /\ e + 1 = n
            <4>1. Add(first, cap, cap) = Add(first, 0, cap)
                BY <1>1, AddInRing
            <4>2. Holds(0, e)
                BY <1>3, <3>2, <3>4, <4>1 DEF Holds
            <4> QED
                BY <1>3, <1>8, <2>1, <4>2
        <3> QED
            BY <2>1, <3>1, <3>3, <3>4
    <2> QED
        BY <2>1, <2>2, <2>3
<1> QED
    BY <1>9 DEF Keeps

LEMMA InsertLoopKeeps == RInv /\ (InsertShift \/ InsertItem) /\ threw' => Keeps
<1> SUFFICES ASSUME RInv, InsertShift \/ InsertItem, threw' PROVE Keeps
    OBVIOUS
<1>1. pc = "insert" /\ pc # "idle" /\ CallInv
    <2>1. InsertShift => pc = "insert"
        BY DEF InsertShift
    <2>2. InsertItem => pc = "insert"
        BY DEF InsertItem
    <2> QED
        BY <2>1, <2>2 DEF RInv
<1>2. InsertCatch
    BY <1>1, NotThrown DEF InsertShift, InsertItem, Inserted
<1> QED
    BY <1>1, <1>2, InsertCatchKeeps

\* rinsert: the same, counted from the slot in front of the first element.
LEMMA RInsertCatchKeeps == RInv /\ pc = "rinsert" /\ RInsertCatch => Keeps
<1> SUFFICES ASSUME RInv, pc = "rinsert", RInsertCatch PROVE Keeps
    OBVIOUS
<1>1. /\ call.op = "rinsert" /\ cap \in Nat \ {0} /\ first \in Slots(cap) /\ size \in 1 .. cap
      /\ size = Len(old) /\ call.i \in 1 .. size
    BY RInsertPlaces
<1>2. PICK j \in Nat : j <= size /\ j <= call.i /\ RInsertOrder(j)
    BY <1>1, RInsertPlaces
<1>3. PICK n \in Nat, c \in Nat : n = size /\ c = cap /\ 0 < n /\ n <= c /\ (full <=> n = c)
    BY <1>1 DEF full
<1>4. /\ \A k \in 0 .. j - 1 : HoldsInFront(k, k)
      /\ \A k \in j + 1 .. n : (k = n /\ n = c /\ j > 0) \/ HoldsInFront(k, k - 1)
    BY <1>2, <1>3 DEF RInsertOrder
<1>5. mem' = mem /\ cap' = cap
    BY DEF RInsertCatch
<1>6. j > 0 => src # first
    <2> SUFFICES ASSUME j > 0 PROVE src # first
        OBVIOUS
    <2>1. Add(first, 0, cap) = first /\ src = Add(first, j, cap)
        BY <1>1, <1>2, AddInRing DEF RInsertOrder
    <2>a. j < c
        <3>1. call.i \in Nat /\ j <= call.i /\ (n = c => call.i < n) /\ call.i <= n
            BY <1>1, <1>2, <1>3 DEF RInsertOrder
        <3> QED
            BY <1>2, <1>3, <3>1
    <2>2. j \in 0 .. cap /\ 0 \in 0 .. cap /\ j - 0 < cap /\ 0 - j < cap
        BY <1>2, <1>3, <2>a
    <2> QED
        BY <1>1, <2>1, <2>2, PlacesDiffer
<1>7. CASE full \/ j = 0
    <2>1. first' = first /\ size' = n
        <3>1. CASE full
            BY <1>3, <3>1 DEF RInsertCatch
        <3>2. CASE ~full /\ j = 0
            <4>1. src = first
                BY <1>1, <1>2, <3>2, AddInRing DEF RInsertOrder
            <4>2. construct
                BY <3>2, <4>1, RInsertFacts DEF RInv, RInsertLoop
            <4> QED
                BY <1>3, <4>2 DEF RInsertCatch
        <3> QED
            BY <1>7, <3>1, <3>2
    <2>2. ASSUME NEW e \in Nat, NEW p \in Nat, p < n, Holds(p, e)
          PROVE  \E q \in 1 .. size' : Contents'[q] = old[e + 1]
        <3>1. size' \in Nat /\ p < size' /\ mem'[Add(first', p, cap')] = old[e + 1]
            BY <1>5, <2>1, <2>2 DEF Holds
        <3> QED
            BY <3>1, <2>2, FoundAtPlace
    <2>3. ASSUME NEW e \in Kept(call) PROVE \E q \in 1 .. size' : Contents'[q] = old[e + 1]
        <3>1. e \in Nat /\ e < n /\ (n = c => e + 1 < n)
            <4>1. e \in 0 .. n - 1
                BY <1>1, <1>3, KeptIsOld
            <4>2. n = c => e \in 0 .. n - 2
                BY <1>1, <1>3 DEF Kept
            <4> QED
                BY <4>1, <4>2
        <3>2. CASE e >= j
            <4>1. e + 1 \in j + 1 .. n /\ (e + 1) - 1 = e /\ ~(e + 1 = n /\ n = c) /\ e \in 0 .. cap - 1
                BY <1>3, <3>1, <3>2
            <4>2. HoldsInFront(e + 1, (e + 1) - 1)
                BY <1>4, <4>1
            <4>3. HoldsInFront(e + 1, e)
                BY <4>1, <4>2
            <4>4. Add(Decrement(first, cap), e + 1, cap) = Add(first, e, cap)
                BY <1>1, <4>1, PlacesMove
            <4>5. Holds(e, e)
                BY <4>3, <4>4 DEF Holds, HoldsInFront
            <4> QED
                BY <2>2, <3>1, <4>5
        <3>3. CASE e < j
            <4>1. e \in 0 .. j - 1 /\ n = c
                BY <1>3, <1>7, <3>1, <3>3
            <4>2. HoldsInFront(e, e)
                BY <1>4, <4>1
            <4>3. CASE e = 0
                <5>1. Add(Decrement(first, cap), 0, cap) = Decrement(first, cap)
                    BY <1>1, StepInRing, AddInRing
                <5>2. Add(first, cap - 1, cap) = Decrement(first, cap)
                    BY <1>1 DEF Add, Decrement, Slots
                <5>3. n - 1 = cap - 1 /\ n - 1 \in Nat /\ n - 1 < n
                    BY <1>3, <4>1
                <5>4. Holds(n - 1, e)
                    BY <4>2, <4>3, <5>1, <5>2, <5>3 DEF Holds, HoldsInFront
                <5> QED
                    BY <2>2, <3>1, <5>3, <5>4
            <4>4. CASE e > 0
                <5>1. e - 1 \in 0 .. cap - 1 /\ (e - 1) + 1 = e /\ e - 1 \in Nat /\ e - 1 < n
                    BY <1>3, <3>1, <4>4
                <5>2. Add(Decrement(first, cap), (e - 1) + 1, cap) = Add(first, e - 1, cap)
                    BY <1>1, <5>1, PlacesMove
                <5>3. Holds(e - 1, e)
                    BY <4>2, <5>1, <5>2 DEF Holds, HoldsInFront
                <5> QED
                    BY <2>2, <3>1, <5>1, <5>3
            <4> QED
                BY <3>1, <4>3, <4>4
        <3> QED
            BY <1>2, <3>1, <3>2, <3>3
    <2> QED
        BY <2>3 DEF Keeps
<1>8. CASE ~full /\ j > 0
    <2>1. first' = Decrement(first, cap) /\ size' = n + 1
        <3>1. ~construct
            BY <1>6, <1>8, RInsertFacts DEF RInv, RInsertLoop
        <3> QED
            BY <1>3, <1>8, <3>1 DEF RInsertCatch
    <2>2. ASSUME NEW e \in Nat, NEW p \in Nat, p < n + 1, HoldsInFront(p, e)
          PROVE  \E q \in 1 .. size' : Contents'[q] = old[e + 1]
        <3>1. size' \in Nat /\ p < size' /\ mem'[Add(first', p, cap')] = old[e + 1]
            BY <1>5, <2>1, <2>2 DEF HoldsInFront
        <3> QED
            BY <3>1, <2>2, FoundAtPlace
    <2>3. ASSUME NEW e \in Kept(call) PROVE \E q \in 1 .. size' : Contents'[q] = old[e + 1]
        <3>1. e \in Nat /\ e < n /\ n # c
            <4>1. e \in 0 .. n - 1
                BY <1>1, <1>3, KeptIsOld
            <4> QED
                BY <1>3, <1>8, <4>1
        <3>2. CASE e < j
            <4>1. e \in 0 .. j - 1 /\ e < n + 1
                BY <3>1, <3>2
            <4> QED
                BY <1>4, <2>2, <3>1, <4>1
        <3>3. CASE e >= j
            <4>1. e + 1 \in j + 1 .. n /\ (e + 1) - 1 = e /\ e + 1 \in Nat /\ e + 1 < n + 1
                BY <3>1, <3>3
            <4>2. HoldsInFront(e + 1, (e + 1) - 1)
                BY <1>4, <3>1, <4>1
            <4>3. HoldsInFront(e + 1, e)
                BY <4>1, <4>2
            <4> QED
                BY <2>2, <3>1, <4>1, <4>3
        <3> QED
            BY <1>2, <3>1, <3>2, <3>3
    <2> QED
        BY <2>3 DEF Keeps
<1> QED
    BY <1>2, <1>7, <1>8

LEMMA RInsertLoopKeeps == RInv /\ (RInsertShift \/ RInsertItem) /\ threw' => Keeps
<1> SUFFICES ASSUME RInv, RInsertShift \/ RInsertItem, threw' PROVE Keeps
    OBVIOUS
<1>1. pc = "rinsert" /\ pc # "idle" /\ CallInv
    <2>1. RInsertShift => pc = "rinsert"
        BY DEF RInsertShift
    <2>2. RInsertItem => pc = "rinsert"
        BY DEF RInsertItem
    <2> QED
        BY <2>1, <2>2 DEF RInv
<1>2. RInsertCatch
    BY <1>1, NotThrown DEF RInsertShift, RInsertItem, RInserted
<1> QED
    BY <1>1, <1>2, RInsertCatchKeeps

\* Without a handler: the elements in front of the gap and those behind it.
LEMMA EraseShiftKeeps == RInv /\ EraseShift /\ threw' => Keeps
<1> SUFFICES ASSUME RInv, EraseShift, threw' PROVE Keeps
    OBVIOUS
<1>1. pc = "erase" /\ pc # "idle" /\ CallInv
    BY DEF EraseShift, RInv
<1>2. UNCHANGED object
    <2>1. ~Goto("erase")
        BY <1>1, NotThrown
    <2>2. MoveMayThrow /\ Throw /\ UNCHANGED <<object, fault>>
        BY <2>1 DEF EraseShift
    <2> QED
        BY <2>2
<1>3. PICK a \in Nat, n \in Nat, j \in Nat :
         a = call.i /\ n = size /\ n = Len(old) /\ a <= j /\ j < n /\ EraseOrder(j)
    <2>1. call.i \in 0 .. size - 1 /\ size \in Nat /\ size = Len(old)
        BY <1>1, ErasePlaces
    <2>2. PICK j \in call.i .. size - 1 : EraseOrder(j)
        BY <1>1, ErasePlaces
    <2>3. call.i \in Nat /\ j \in Nat /\ call.i <= j /\ j < size
        BY <2>1, <2>2
    <2> QED
        BY <2>1, <2>2, <2>3
<1>4. /\ \A k \in 0 .. a - 1 : Holds(k, k)
      /\ \A k \in a .. j - 1 : Holds(k, k + 1)
      /\ \A k \in j + 1 .. n - 1 : Holds(k, k)
    BY <1>3 DEF EraseOrder
<1>5. ASSUME NEW e \in Kept(call) PROVE \E q \in 1 .. size' : Contents'[q] = old[e + 1]
    <2>1. e \in Nat /\ e < n /\ e # a
        <3>1. e \in 0 .. n - 1
            BY <1>3, KeptIsOld
        <3>2. call.op = "erase"
            BY <1>1, ErasePlaces
        <3>3. e # a
            BY <1>3, <3>2 DEF Kept
        <3> QED
            BY <3>1, <3>3
    <2>2. CASE e < a \/ j < e
        <3>1. Holds(e, e)
            BY <1>3, <1>4, <2>1, <2>2
        <3> QED
            BY <1>2, <1>3, <2>1, <3>1, FoundUntouched
    <2>3. CASE a < e /\ e <= j
        <3>1. e - 1 \in a .. j - 1 /\ (e - 1) + 1 = e /\ e - 1 \in Nat /\ e - 1 < n
            BY <1>3, <2>1, <2>3
        <3>2. Holds(e - 1, (e - 1) + 1)
            BY <1>4, <3>1
        <3>3. Holds(e - 1, e)
            BY <3>1, <3>2
        <3> QED
            BY <1>2, <1>3, <3>1, <3>3, FoundUntouched
    <2> QED
        BY <1>3, <2>1, <2>2, <2>3
<1> QED
    BY <1>5 DEF Keeps

LEMMA REraseShiftKeeps == RInv /\ REraseShift /\ threw' => Keeps
<1> SUFFICES ASSUME RInv, REraseShift, threw' PROVE Keeps
    OBVIOUS
<1>1. pc = "rerase" /\ pc # "idle" /\ CallInv
    BY DEF REraseShift, RInv
<1>2. UNCHANGED object
    <2>1. ~Goto("rerase")
        BY <1>1, NotThrown
    <2>2. MoveMayThrow /\ Throw /\ UNCHANGED <<object, fault>>
        BY <2>1 DEF REraseShift
    <2> QED
        BY <2>2
<1>3. PICK a \in Nat, n \in Nat, j \in Nat :
         a = call.i /\ n = size /\ n = Len(old) /\ j <= a /\ a < n /\ REraseOrder(j)
    <2>1. call.i \in 0 .. size - 1 /\ size \in Nat /\ size = Len(old)
        BY <1>1, RErasePlaces
    <2>2. PICK j \in 0 .. call.i : REraseOrder(j)
        BY <1>1, RErasePlaces
    <2>3. call.i \in Nat /\ j \in Nat /\ j <= call.i /\ call.i < size
        BY <2>1, <2>2
    <2> QED
        BY <2>1, <2>2, <2>3
<1>4. /\ \A k \in 0 .. j - 1 : Holds(k, k)
      /\ \A k \in j + 1 .. a : Holds(k, k - 1)
      /\ \A k \in a + 1 .. n - 1 : Holds(k, k)
    BY <1>3 DEF REraseOrder
<1>5. ASSUME NEW e \in Kept(call) PROVE \E q \in 1 .. size' : Contents'[q] = old[e + 1]
    <2>1. e \in Nat /\ e < n /\ e # a
        <3>1. e \in 0 .. n - 1
            BY <1>3, KeptIsOld
        <3>2. call.op = "rerase"
            BY <1>1, RErasePlaces
        <3>3. e # a
            BY <1>3, <3>2 DEF Kept
        <3> QED
            BY <3>1, <3>3
    <2>2. CASE e < j \/ a < e
        <3>1. Holds(e, e)
            BY <1>3, <1>4, <2>1, <2>2
        <3> QED
            BY <1>2, <1>3, <2>1, <3>1, FoundUntouched
    <2>3. CASE j <= e /\ e < a
        <3>1. e + 1 \in j + 1 .. a /\ (e + 1) - 1 = e /\ e + 1 \in Nat /\ e + 1 < n
            BY <1>3, <2>1, <2>3
        <3>2. Holds(e + 1, (e + 1) - 1)
            BY <1>4, <3>1
        <3>3. Holds(e + 1, e)
            BY <3>1, <3>2
        <3> QED
            BY <1>2, <1>3, <3>1, <3>3, FoundUntouched
    <2> QED
        BY <1>3, <2>1, <2>2, <2>3
<1> QED
    BY <1>5 DEF Keeps

\* a and b are the ends of the range, d is its length.
LEMMA EraseRangeShiftKeeps == RInv /\ EraseRangeShift /\ threw' => Keeps
<1> SUFFICES ASSUME RInv, EraseRangeShift, threw' PROVE Keeps
    OBVIOUS
<1>1. pc = "erase_range" /\ pc # "idle" /\ CallInv /\ src # NULL
    BY DEF EraseRangeShift, RInv
<1>2. UNCHANGED object
    <2>1. ~Goto("erase_range")
        BY <1>1, NotThrown
    <2>2. MoveMayThrow /\ Throw /\ UNCHANGED <<object, fault>>
        BY <2>1 DEF EraseRangeShift
    <2> QED
        BY <2>2
<1>3. PICK a \in Nat, b \in Nat, n \in Nat, d \in Nat, t \in Nat :
         /\ a = call.i /\ b = call.j /\ n = Len(old) /\ n = size /\ d = call.j - call.i
         /\ d = b - a /\ a < b /\ b + t < n /\ EraseRangeOrder(t)
    <2>1. /\ Len(old) \in Nat /\ call.i \in 0 .. Len(old) - 1 /\ call.j \in call.i + 1 .. Len(old)
          /\ call.i \in Nat /\ call.j \in Nat
        BY <1>1, EraseRangePlaces, LoopFacts
    <2>2. PICK t \in 0 .. Len(old) - call.j : EraseRangeOrder(t) /\ t # Len(old) - call.j
        BY <1>1, EraseRangePlaces
    <2>3. PICK a \in Nat, b \in Nat, n \in Nat : a = call.i /\ b = call.j /\ n = Len(old)
        BY <2>1
    <2>4. a < b /\ t \in 0 .. n - b /\ t # n - b
        BY <2>1, <2>2, <2>3
    <2>5. t \in Nat /\ b + t < n /\ b - a \in Nat
        BY <2>4
    <2>6. PICK d \in Nat : d = b - a
        BY <2>5
    <2>7. Len(old) = size
        BY <2>2, <2>3, <2>5 DEF EraseRangeOrder
    <2> QED
        BY <2>2, <2>3, <2>4, <2>5, <2>6, <2>7
<1>4. /\ \A k \in 0 .. a - 1 : Holds(k, k)
      /\ \A k \in a .. a + t - 1 : Holds(k, k + d)
      /\ \A k \in b + t .. n - 1 : Holds(k, k)
    BY <1>3 DEF EraseRangeOrder
<1>5. ASSUME NEW e \in Kept(call) PROVE \E q \in 1 .. size' : Contents'[q] = old[e + 1]
    <2>1. e \in Nat /\ e < n /\ (e < a \/ b <= e)
        <3>1. e \in 0 .. n - 1
            BY <1>3, KeptIsOld
        <3>2. call.op = "erase_range"
            BY <1>1, EraseRangePlaces
        <3>3. e \notin a .. b - 1
            BY <1>3, <3>2 DEF Kept
        <3> QED
            BY <3>1, <3>3
    <2>2. CASE e < a \/ b + t <= e
        <3>1. Holds(e, e)
            BY <1>3, <1>4, <2>1, <2>2
        <3> QED
            BY <1>2, <1>3, <2>1, <3>1, FoundUntouched
    <2>3. CASE b <= e /\ e < b + t
        <3>1. e - d \in a .. a + t - 1 /\ (e - d) + d = e /\ e - d \in Nat /\ e - d < n
            BY <1>3, <2>1, <2>3
        <3>2. Holds(e - d, (e - d) + d)
            BY <1>4, <3>1
        <3>3. Holds(e - d, e)
            BY <3>1, <3>2
        <3> QED
            BY <1>2, <1>3, <3>1, <3>3, FoundUntouched
    <2> QED
        BY <1>3, <2>1, <2>2, <2>3
<1> QED
    BY <1>5 DEF Keeps

LEMMA REraseRangeShiftKeeps == RInv /\ REraseRangeShift /\ threw' => Keeps
<1> SUFFICES ASSUME RInv, REraseRangeShift, threw' PROVE Keeps
    OBVIOUS
<1>1. pc = "rerase_range" /\ pc # "idle" /\ CallInv
    BY DEF REraseRangeShift, RInv
<1>2. UNCHANGED object
    <2>1. ~Goto("rerase_range")
        BY <1>1, NotThrown
    <2>2. MoveMayThrow /\ Throw /\ UNCHANGED <<object, fault>>
        BY <2>1 DEF REraseRangeShift
    <2> QED
        BY <2>2
<1>3. PICK a \in Nat, b \in Nat, n \in Nat, d \in Nat, t \in Nat :
         /\ a = call.i /\ b = call.j /\ n = Len(old) /\ d = call.j - call.i
         /\ d = b - a /\ d > 0 /\ b <= n /\ t <= a /\ REraseRangeOrder(t)
    BY <1>1, REraseRangePlaces
<1>4. /\ n = size
      /\ \A k \in 0 .. a - t - 1 : Holds(k, k)
      /\ \A k \in b - t .. b - 1 : Holds(k, k - d)
      /\ \A k \in b .. n - 1 : Holds(k, k)
    BY <1>3 DEF REraseRangeOrder
<1>5. ASSUME NEW e \in Kept(call) PROVE \E q \in 1 .. size' : Contents'[q] = old[e + 1]
    <2>1. e \in Nat /\ e < n /\ (e < a \/ b <= e)
        <3>1. e \in 0 .. n - 1
            BY <1>3, KeptIsOld
        <3>2. call.op = "rerase_range"
            BY <1>1, REraseRangePlaces
        <3>3. e \notin a .. b - 1
            BY <1>3, <3>2 DEF Kept
        <3> QED
            BY <3>1, <3>3
    <2>2. CASE e < a - t \/ b <= e
        <3>1. Holds(e, e)
            BY <1>3, <1>4, <2>1, <2>2
        <3> QED
            BY <1>2, <1>4, <2>1, <3>1, FoundUntouched
    <2>3. CASE a - t <= e /\ e < a
        <3>1. e + d \in b - t .. b - 1 /\ (e + d) - d = e /\ e + d \in Nat /\ e + d < n
            <4>1. d = b - a /\ b <= n /\ t <= a
                BY <1>3
            <4> QED
                BY <2>1, <2>3, <4>1
        <3>2. Holds(e + d, (e + d) - d)
            BY <1>4, <3>1
        <3>3. Holds(e + d, e)
            BY <3>1, <3>2
        <3> QED
            BY <1>2, <1>4, <3>1, <3>3, FoundUntouched
    <2>4. e < a - t \/ b <= e \/ (a - t <= e /\ e < a)
        <3>1. a \in Nat /\ t \in Nat
            BY <1>3
        <3> QED
            BY <2>1, <3>1
    <2> QED
        BY <2>2, <2>3, <2>4
<1> QED
    BY <1>5 DEF Keeps

\* The old memory still holds what was copied.
LEMMA RelocateOneKeeps == RInv /\ RelocateOne /\ threw' => Keeps
<1> SUFFICES ASSUME RInv, RelocateOne, threw' PROVE Keeps
    OBVIOUS
<1>1. pc = "relocate" /\ pc # "idle" /\ CallInv
    BY DEF RelocateOne, RInv
<1>2. UNCHANGED object /\ ~NothrowMove
    BY <1>1, NotThrown DEF RelocateOne, MoveMayThrow
<1>3. size = Len(old) /\ size \in Nat /\ \A k \in 0 .. size - 1 : Holds(k, k)
    BY <1>1, <1>2, RelocatePlaces DEF RelocateOrder
<1>4. ASSUME NEW e \in Kept(call) PROVE \E q \in 1 .. size' : Contents'[q] = old[e + 1]
    <2>1. e \in 0 .. size - 1
        BY <1>3, KeptIsOld
    <2>2. e \in Nat /\ e < size /\ Holds(e, e)
        BY <1>3, <2>1
    <2> QED
        BY <1>2, <1>3, <2>2, FoundUntouched
<1> QED
    BY <1>4 DEF Keeps

\* The elements have come round by h positions.
LEMMA RotateLoopKeeps == RInv /\ (RotateBack \/ RotateFront) /\ threw' => Keeps
<1> SUFFICES ASSUME RInv, RotateBack \/ RotateFront, threw' PROVE Keeps
    OBVIOUS
<1>1. pc = "rotate" /\ pc # "idle" /\ CallInv
    BY DEF RotateBack, RotateFront, RInv
<1>2. UNCHANGED object
    BY <1>1, NotThrown DEF RotateBack, RotateFront
<1>3. PICK n \in Nat, h \in Nat :
         /\ n = Len(old) /\ size = n /\ h <= n
         /\ \A k \in 0 .. n - 1 : Holds(k, IF k + h < n THEN k + h ELSE k + h - n)
    BY <1>1, RotatePlaces
<1>4. ASSUME NEW e \in Kept(call) PROVE \E q \in 1 .. size' : Contents'[q] = old[e + 1]
    <2>1. e \in Nat /\ e < n
        <3>1. e \in 0 .. n - 1
            BY <1>3, KeptIsOld
        <3> QED
            BY <3>1
    <2>2. CASE h <= e
        <3>1. e - h \in 0 .. n - 1 /\ (e - h) + h = e /\ e - h \in Nat /\ e - h < n
            BY <1>3, <2>1, <2>2
        <3>2. Holds(e - h, IF (e - h) + h < n THEN (e - h) + h ELSE (e - h) + h - n)
            BY <1>3, <3>1
        <3>3. Holds(e - h, e)
            BY <2>1, <3>1, <3>2
        <3> QED
            BY <1>2, <1>3, <3>1, <3>3, FoundUntouched
    <2>3. CASE e < h
        <3> DEFINE p == e + n - h
        <3>1. p \in 0 .. n - 1 /\ p + h = e + n /\ ~(p + h < n) /\ p + h - n = e /\ p \in Nat /\ p < n
            BY <1>3, <2>1, <2>3
        <3> HIDE DEF p
        <3>2. Holds(p, IF p + h < n THEN p + h ELSE p + h - n)
            BY <1>3, <3>1
        <3>3. Holds(p, e)
            BY <3>1, <3>2
        <3> QED
            BY <1>2, <1>3, <3>1, <3>3, FoundUntouched
    <2> QED
        BY <1>3, <2>1, <2>2, <2>3
<1> QED
    BY <1>4 DEF Keeps

\* The other steps do not throw.
LEMMA BodyKeeps == RInv /\ Body /\ threw' => Keeps
<1> SUFFICES ASSUME RInv, Body, threw' PROVE Keeps
    OBVIOUS
<1>1. CallInv
    BY DEF RInv
<1>2. ~PopBack /\ ~PopFront /\ ~Clear
    BY <1>1, NotThrown DEF PopBack, PopFront, Clear, Enter
<1>3. ~Erase /\ ~RErase /\ ~EraseRange /\ ~REraseRange
    BY <1>1, NotThrown DEF Erase, RErase, EraseRange, REraseRange, Enter
<1>4. ~EraseLast /\ ~REraseFirst /\ ~EraseRangeTail /\ ~REraseRangeHead
    BY <1>1, NotThrown DEF EraseLast, REraseFirst, EraseRangeTail, REraseRangeHead
<1>5. ~Reset /\ ~Rotate /\ ~RotateDone
    BY <1>1, NotThrown DEF Reset, Rotate, RotateDone, Enter
<1>6. /\ PushBack => Keeps
      /\ PushFront => Keeps
      /\ Insert \/ InsertShift \/ InsertItem => Keeps
      /\ RInsert \/ RInsertShift \/ RInsertItem => Keeps
      /\ EraseShift \/ EraseRangeShift \/ REraseShift \/ REraseRangeShift => Keeps
      /\ SetCapacity \/ RSetCapacity \/ RelocateOne => Keeps
      /\ RotateBack \/ RotateFront => Keeps
    BY PushBackKeeps, PushFrontKeeps, InsertKeeps, InsertLoopKeeps, RInsertKeeps, RInsertLoopKeeps,
       EraseShiftKeeps, EraseRangeShiftKeeps, REraseShiftKeeps, REraseRangeShiftKeeps,
       SetCapacityKeeps, RelocateOneKeeps, RotateLoopKeeps
<1> QED
    BY <1>2, <1>3, <1>4, <1>5, <1>6 DEF Body

\* An exception loses no element that the completed call would have kept, from
\* whichever step of whichever operation it comes: a shift that can throw
\* duplicates each element before it goes over its slot, and the handlers take
\* in the slot that was filled outside the buffer.
THEOREM ThrowsKeepElements == Spec => ThrowKeepsElements
<1>1. RInv /\ [Next]_vars => KeptWhenThrown
    <2> SUFFICES ASSUME RInv, [Next]_vars, threw', ~threw PROVE Keeps
        BY DEF KeptWhenThrown, Keeps
    <2>1. ~Invoke
        BY DEF Invoke
    <2>2. ~UNCHANGED vars
        <3> SUFFICES ASSUME UNCHANGED vars PROVE FALSE
            OBVIOUS
        <3>1. threw' = threw
            BY DEF vars
        <3> QED
            BY <3>1, Zenon
    <2> QED
        BY <2>1, <2>2, BodyKeeps DEF Next
<1>2. RInv /\ [Next]_vars => [KeptWhenThrown]_vars
    BY <1>1
<1> QED
    BY <1>2, RefinementInvariant, PTL DEF Spec, ThrowKeepsElements

=============================================================================
