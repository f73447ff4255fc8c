--------------------------- MODULE RingPointers_proofs ---------------------------
(***************************************************************************)
(* Facts about the pointer arithmetic of RingPointers, for every capacity: *)
(* what the proofs about the components that use it have in common.        *)
(***************************************************************************)
EXTENDS RingPointers, WellFoundedInduction, TLAPS

---------------------------------------------------------------------------
(* Facts about the ring.                                                   *)

\* Increment and Decrement stay in the buffer and undo each other.
LEMMA StepInRing ==
    ASSUME NEW c \in Nat \ {0}, NEW p \in Slots(c)
    PROVE  /\ Increment(p, c) \in Slots(c)
           /\ Decrement(p, c) \in Slots(c)
           /\ Increment(Decrement(p, c), c) = p
           /\ Decrement(Increment(p, c), c) = p
BY DEF Increment, Decrement, Slots

\* add stays in the buffer, and linearize_pointer is its inverse.
LEMMA AddInRing ==
    ASSUME NEW c \in Nat \ {0}, NEW f \in Slots(c), NEW n \in 0 .. c
    PROVE  /\ Add(f, n, c) \in Slots(c)
           /\ n < c => Index(Add(f, n, c), f, c) = n
           /\ Add(f, c, c) = f
           /\ Add(f, 0, c) = f
           /\ n < c => Add(f, n + 1, c) = Increment(Add(f, n, c), c)
           /\ n > 0 => Add(f, n - 1, c) = Decrement(Add(f, n, c), c)
BY DEF Add, Index, Increment, Decrement, Slots

\* Every slot of the buffer is add(f, Index).
LEMMA IndexInRing ==
    ASSUME NEW c \in Nat \ {0}, NEW f \in Slots(c), NEW p \in Slots(c)
    PROVE  /\ Index(p, f, c) \in 0 .. c - 1
           /\ Add(f, Index(p, f, c), c) = p
           /\ Index(p, f, c) = 0 <=> p = f
BY DEF Add, Index, Slots

\* Moving the first pointer while the last one stays.
LEMMA FirstMoves ==
    ASSUME NEW c \in Nat \ {0}, NEW f \in Slots(c), NEW n \in 0 .. c
    PROVE  /\ n < c => Add(Decrement(f, c), n + 1, c) = Add(f, n, c)
           /\ n > 0 => Add(Increment(f, c), n - 1, c) = Add(f, n, c)
BY DEF Add, Increment, Decrement, Slots

\* sub from the end counts from the begin.
LEMMA SubIsAdd ==
    ASSUME NEW c \in Nat \ {0}, NEW f \in Slots(c), NEW n \in 0 .. c, NEW m \in 1 .. n
    PROVE  Sub(Add(f, n, c), m, c) = Add(f, n - m, c)
BY DEF Add, Sub, Slots

\* A buffer's window grows and shrinks by the slot at either end.
LEMMA WindowGrows ==
    ASSUME NEW c \in Nat \ {0}, NEW f \in Slots(c), NEW n \in 0 .. c - 1
    PROVE  /\ Window(f, n + 1, c) = Window(f, n, c) \cup {Add(f, n, c)}
           /\ Add(f, n, c) \notin Window(f, n, c)
           /\ Window(Decrement(f, c), n + 1, c) = Window(f, n, c) \cup {Decrement(f, c)}
           /\ Decrement(f, c) \notin Window(f, n, c)
BY DEF Window, Add, Index, Decrement, Slots

LEMMA WindowShrinks ==
    ASSUME NEW c \in Nat \ {0}, NEW f \in Slots(c), NEW n \in 1 .. c
    PROVE  /\ Window(f, n - 1, c) = Window(f, n, c) \ {Decrement(Add(f, n, c), c)}
           /\ Decrement(Add(f, n, c), c) \in Window(f, n, c)
           /\ Window(Increment(f, c), n - 1, c) = Window(f, n, c) \ {f}
           /\ f \in Window(f, n, c)
BY DEF Window, Add, Index, Increment, Decrement, Slots

LEMMA WindowBounds ==
    ASSUME NEW c \in Nat, NEW f \in Pointers(c), NEW n \in 0 .. c
    PROVE  /\ Window(f, 0, c) = {}
           /\ Window(f, c, c) = Slots(c)
           /\ Window(f, n, c) \subseteq Slots(c)
           /\ Window(0, n, c) = 0 .. n - 1
BY DEF Window, Index, Slots, Pointers

\* A window is cut in two: its first m slots, and the rest of them.
LEMMA WindowSplits ==
    ASSUME NEW c \in Nat \ {0}, NEW f \in Slots(c), NEW n \in 0 .. c, NEW m \in 0 .. n
    PROVE  /\ Window(f, m, c) \subseteq Window(f, n, c)
           /\ Window(Add(f, m, c), n - m, c) = Window(f, n, c) \ Window(f, m, c)
           /\ Add(Add(f, m, c), n - m, c) = Add(f, n, c)
BY DEF Window, Add, Index, Slots

\* Distances add up as long as they do not wrap.
LEMMA IndexSum ==
    ASSUME NEW c \in Nat \ {0}, NEW f \in Slots(c), NEW p \in Slots(c), NEW s \in Slots(c)
    PROVE  /\ Index(s, p, c) + Index(p, f, c) < c => Index(s, f, c) = Index(s, p, c) + Index(p, f, c)
           /\ s # p => Index(Decrement(s, c), p, c) = Index(s, p, c) - 1
           /\ p # f => Index(f, p, c) = c - Index(p, f, c)
           /\ Index(s, f, c) < c - 1 => Index(Increment(s, c), f, c) = Index(s, f, c) + 1
BY DEF Index, Decrement, Increment, Slots

\* The distance from a slot of the window to its end.
LEMMA IndexOfEnd ==
    ASSUME NEW c \in Nat \ {0}, NEW f \in Slots(c), NEW n \in 0 .. c, NEW p \in Window(f, n, c)
    PROVE  Index(Add(f, n, c), p, c) <= n - Index(p, f, c)
BY DEF Index, Add, Window, Slots

\* The neighbours of a slot of the window.
LEMMA WindowNeighbours ==
    ASSUME NEW c \in Nat \ {0}, NEW f \in Slots(c), NEW n \in 0 .. c, NEW p \in Window(f, n, c)
    PROVE  /\ n > 0 /\ p \in Slots(c) /\ Index(p, f, c) \in 0 .. n - 1
           /\ Index(p, f, c) < n - 1 => /\ Increment(p, c) \in Window(f, n, c)
                                        /\ Index(Increment(p, c), f, c) = Index(p, f, c) + 1
                                        /\ Increment(p, c) # Add(f, n, c)
           /\ Index(p, f, c) = n - 1 => Increment(p, c) = Add(f, n, c)
           /\ p # f => /\ Decrement(p, c) \in Window(f, n, c)
                       /\ Index(Decrement(p, c), f, c) = Index(p, f, c) - 1
BY DEF Window, Index, Add, Increment, Decrement, Slots

\* Dropping the first slot brings every later one a step closer.
LEMMA CloserToFirst ==
    ASSUME NEW c \in Nat \ {0}, NEW f \in Slots(c), NEW n \in 1 .. c
    PROVE  /\ Add(f, n, c) \in Slots(c)
           /\ Increment(f, c) \in Slots(c)
           /\ Index(Add(f, n, c), Increment(f, c), c) = n - 1
           /\ n = 1 => Add(f, n, c) = Increment(f, c)
BY DEF Add, Index, Increment, Slots

---------------------------------------------------------------------------
(* Positions that may go round twice: what is opened in a full buffer lies *)
(* behind its end, on the slots of other elements.                         *)

\* The slot j positions behind b, for j <= 2 * c.
At(b, j, c) == IF b + j < c THEN b + j ELSE IF b + j < 2 * c THEN b + j - c ELSE b + j - 2 * c

\* It is what add and sub, ++ and -- arrive at.
LEMMA AtIsAdd ==
    ASSUME NEW c \in Nat \ {0}, NEW b \in Slots(c), NEW j \in 0 .. 2 * c - 1
    PROVE  /\ At(b, j, c) \in Slots(c)
           /\ At(b, 0, c) = b
           /\ j <= c => Add(b, j, c) = At(b, j, c)
           /\ Increment(At(b, j, c), c) = At(b, j + 1, c)
           /\ j > 0 => Decrement(At(b, j, c), c) = At(b, j - 1, c)
BY DEF At, Add, Increment, Decrement, Slots

LEMMA AddToAt ==
    ASSUME NEW c \in Nat \ {0}, NEW b \in Slots(c), NEW j \in 0 .. 2 * c, NEW i \in 0 .. c
    PROVE  /\ j + i <= 2 * c => Add(At(b, j, c), i, c) = At(b, j + i, c)
           /\ i <= j => Sub(At(b, j, c), i, c) = At(b, j - i, c)
BY DEF At, Add, Sub, Slots

LEMMA AtFromSub ==
    ASSUME NEW c \in Nat \ {0}, NEW f \in Slots(c), NEW i \in 0 .. c, NEW j \in 0 .. c - 1
    PROVE  /\ Sub(f, i, c) \in Slots(c)
           /\ At(Sub(f, i, c), i, c) = f
           /\ At(Sub(f, i, c), i + j, c) = At(f, j, c)
BY DEF At, Sub, Slots

\* Less than a round apart, positions have different slots.
LEMMA AtDiffers ==
    ASSUME NEW c \in Nat \ {0}, NEW b \in Slots(c),
           NEW i \in 0 .. 2 * c - 1, NEW j \in 0 .. 2 * c - 1,
           i # j, i - j < c, j - i < c
    PROVE  At(b, i, c) # At(b, j, c)
BY DEF At, Slots

\* The distance between them, and which of them are in a window.
LEMMA AtIndex ==
    ASSUME NEW c \in Nat \ {0}, NEW b \in Slots(c), NEW i \in 0 .. c, NEW j \in 0 .. 2 * c - 1
    PROVE  Index(At(b, j, c), At(b, i, c), c) =
              IF j < i THEN (j - i) + c ELSE IF j - i < c THEN j - i ELSE (j - i) - c
BY DEF At, Index, Slots

LEMMA AtDistance ==
    ASSUME NEW c \in Nat \ {0}, NEW b \in Slots(c),
           NEW i \in 0 .. 2 * c - 1, NEW j \in 0 .. 2 * c - 1, i <= j, j - i < c
    PROVE  Index(At(b, j, c), At(b, i, c), c) = j - i
BY DEF At, Index, Slots

\* Every slot is at some position of a round.
LEMMA AtReaches ==
    ASSUME NEW c \in Nat \ {0}, NEW b \in Slots(c), NEW i \in 0 .. c, NEW q \in Slots(c)
    PROVE  \E j \in i .. i + (c - 1) : q = At(b, j, c)
<1> DEFINE j == IF Index(q, b, c) < i THEN Index(q, b, c) + c ELSE Index(q, b, c)
<1>1. j \in i .. i + (c - 1)
    BY DEF Index, Slots
<1>2. q = At(b, j, c)
    BY DEF Index, Slots, At
<1> QED
    BY <1>1, <1>2

---------------------------------------------------------------------------
(* Induction.                                                              *)

\* A set of naturals that has an element has a least one: what stands in for
\* induction below, by way of the least counterexample.
LEMMA LeastElement ==
    ASSUME NEW T, T \subseteq Nat, T # {}
    PROVE  \E x \in T : \A y \in T : x <= y
<1> DEFINE R == OpToRel(<, Nat)
<1>1. IsWellFoundedOn(R, Nat)
    BY NatLessThanWellFounded
<1>2. \E x \in T : \A y \in T : <<y, x>> \notin R
    <2> HIDE DEF R
    <2> QED
        BY <1>1, WFMin
<1>3. ASSUME NEW x \in Nat, NEW y \in Nat, <<y, x>> \notin R PROVE x <= y
    BY <1>3 DEF OpToRel
<1> QED
    BY <1>2, <1>3

\* Induction up to a bound, for a property given as the set of numbers that
\* have it.
LEMMA BoundedInduction ==
    ASSUME NEW n \in Nat, NEW P, 0 \in P, \A i \in 1 .. n : i - 1 \in P => i \in P
    PROVE  0 .. n \subseteq P
<1> DEFINE T == (0 .. n) \ P
<1>1. ASSUME NEW i \in T, \A j \in T : i <= j PROVE FALSE
    BY <1>1
<1>2. T \subseteq Nat
    OBVIOUS
<1>3. T = {}
    <2> HIDE DEF T
    <2> QED
        BY <1>1, <1>2, LeastElement
<1> QED
    BY <1>3

=============================================================================
