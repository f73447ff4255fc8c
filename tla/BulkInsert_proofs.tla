-------------------------- MODULE BulkInsert_proofs --------------------------
(***************************************************************************)
(* insert(pos, first, last) and rinsert(pos, first, last) of forward       *)
(* iterators are right for every capacity, layout, position and length of  *)
(* the range, outside the two defects of insert_n and rinsert_n.           *)
(*                                                                         *)
(* All four loops write into one sequence of size + n positions, counted   *)
(* from m_first (insert) or from n slots in front of it (rinsert): the     *)
(* elements in front of the gap, the n items, the elements behind it.      *)
(* These are more positions than the buffer has slots when elements are    *)
(* overwritten, but each loop stays within one round.                      *)
(***************************************************************************)
EXTENDS BulkInsert, RingPointers_proofs, SequenceTheorems

NoDefects == "is_uninitialized" \in Excluded /\ "rinsert handler" \in Excluded

-----------------------------------------------------------------------------
(* The inductive invariant.                                                *)

TypeInv ==
    /\ cap \in Nat /\ count \in Nat /\ items \in Nat /\ at \in 0 .. count
    /\ op \in {"insert", "rinsert"}
    /\ mem \in [Slots(cap) -> Nat]
    /\ pc \in {"call", "end", "shift", "begin", "rshift", "done", "threw"}

\* The members and the call, which stay as they are until the end.
Asked ==
    /\ count = size /\ size \in 0 .. cap
    /\ first \in Pointers(cap) /\ last = Add(first, size, cap)
    /\ pos = IF at = size THEN NULL ELSE Add(first, at, cap)

\* is_uninitialized is right about the slots that will be filled.
GapIsKnown == Shifts => \A q \in Gap : is_uninitialized(q)

Untouched ==
    /\ ii = 0 /\ drawn = 0
    /\ \A q \in Slots(cap) :
          mem[q] = IF Index(q, first, cap) < size THEN Index(q, first, cap) + 1 ELSE Raw

\* What the prologues found: there is something to insert.
Prepared == cap > 0 /\ n = Fitting /\ n > 0 /\ construct = Lesser(cap - size, n)

\* The sequence: where it begins, and what it holds at position j.
Base == IF op = "insert" THEN first ELSE Sub(first, n, cap)

Want(j) ==
    IF j < at THEN j + 1
    ELSE IF j < at + n THEN MaxCapacity + (IF op = "insert" THEN items - n ELSE 0) + (j - at) + 1
    ELSE j - n + 1

\* Positions W are written already.
Held(M, W) == \A j \in W : M[At(Base, j, cap)] = Want(j)

\* They and the window are live.
LiveWith(M, W) ==
    \A q \in Slots(cap) :
        M[q] # Raw <=> q \in Window(first, size, cap) \/ \E j \in W : q = At(Base, j, cap)

\* The elements number k of K are where they were.
Original(M, K) == \A k \in K : M[Add(first, k, cap)] = k + 1

\* insert_n after m elements were shifted back and i items inserted.
BackW(m, i) == (size + n - m .. size + n - 1) \cup (at .. at + i - 1)

Back(M, m, i) ==
    /\ m \in 0 .. size - at /\ i \in 0 .. n /\ (i > 0 => m = size - at)
    /\ Held(M, BackW(m, i)) /\ LiveWith(M, BackW(m, i))
    /\ Original(M, n - construct .. size - m - 1)

\* rinsert_n after m elements were shifted forward and i items inserted.
FrontW(m, i) == 0 .. m + i - 1

Front(M, m, i) ==
    /\ m \in 0 .. at /\ i \in 0 .. n /\ (i > 0 => m = at)
    /\ Held(M, FrontW(m, i)) /\ LiveWith(M, FrontW(m, i))
    /\ Original(M, {k \in m .. size - 1 : k + n < cap})

\* The pointers of the four loops.
Appending ==
    /\ op = "insert" /\ at = size
    /\ Back(mem, 0, ii)
    /\ p = At(Base, size + ii, cap) /\ drawn = (items - n) + ii

ShiftingBack(m) ==
    /\ Back(mem, m, ii)
    /\ src = At(Base, size - m, cap) /\ dest = At(Base, (size + n - 1) - m, cap)
    /\ p = At(Base, at + ii, cap) /\ drawn = (items - n) + ii

Prepending ==
    /\ op = "rinsert" /\ at = 0
    /\ Front(mem, 0, drawn) /\ ii = n - drawn
    /\ p = At(Base, drawn, cap)

ShiftingForward(m) ==
    /\ Front(mem, m, ii)
    /\ src = At(Base, n + m, cap) /\ dest = At(Base, m + ii, cap)
    /\ p = At(Base, n + at, cap) /\ drawn = ii

Shifting  == op = "insert" /\ at < size /\ \E m \in 0 .. size - at : ShiftingBack(m)
RShifting == op = "rinsert" /\ at > 0 /\ \E m \in 0 .. at : ShiftingForward(m)

Running == pc \in {"end", "shift", "begin", "rshift"}

IInv ==
    /\ TypeInv /\ ~fault
    /\ pc = "call" \/ Running => Asked /\ GapIsKnown
    /\ pc = "call" => Untouched
    /\ Running => Prepared
    /\ pc = "end" => Appending
    /\ pc = "shift" => Shifting
    /\ pc = "begin" => Prepending
    /\ pc = "rshift" => RShifting
    /\ KeepsCapacityElements /\ LiveIsWindow

-----------------------------------------------------------------------------
(* Numbers.                                                                *)

\* What the prologues leave room for.
LEMMA Numbers ==
    ASSUME TypeInv, Asked, Prepared
    PROVE  /\ cap \in Nat \ {0} /\ first \in Slots(cap) /\ size \in 0 .. cap /\ at \in 0 .. size
           /\ last = At(first, size, cap)
           /\ n \in 1 .. cap /\ items \in Nat /\ n <= items /\ construct \in 0 .. n
           /\ construct = n \/ construct = cap - size
           /\ construct <= cap - size
           /\ op = "insert" => /\ n + (size - at) <= cap /\ n - construct <= at
                               /\ n < items => n - construct = at
           /\ op = "rinsert" => n + at <= cap
<1>1. /\ cap \in Nat \ {0} /\ first \in Slots(cap) /\ size \in 0 .. cap /\ at \in 0 .. size
      /\ items \in Nat /\ last = Add(first, size, cap) /\ op \in {"insert", "rinsert"}
    BY DEF TypeInv, Asked, Prepared, Pointers
<1>2. last = At(first, size, cap)
    BY <1>1, AtIsAdd
<1>3. n = Fitting /\ n > 0 /\ construct = Lesser(cap - size, n)
    BY DEF Prepared
<1> QED
    BY <1>1, <1>2, <1>3 DEF Fitting, Lesser

LEMMA LastOfRange ==
    ASSUME NEW c \in Nat, NEW z \in 0 .. c, NEW k \in 1 .. c
    PROVE  /\ z \in 0 .. 2 * c /\ k - 1 \in 0 .. c /\ z + (k - 1) <= 2 * c
           /\ k # 0 /\ k - 0 = k /\ k + 0 = k
           /\ k + z <= c => z \in 0 .. c - 1 /\ z \in 0 .. 2 * c - 1
OBVIOUS

\* Where the sequence begins, and where in it the elements are.
LEMMA BaseFacts ==
    ASSUME TypeInv, Asked, Prepared
    PROVE  /\ Base \in Slots(cap)
           /\ op = "insert" => \A k \in 0 .. cap : Add(first, k, cap) = At(Base, k, cap)
           /\ op = "rinsert" => /\ first = At(Base, n, cap) /\ Base = Sub(first, n, cap)
                                /\ \A k \in 0 .. cap - 1 : Add(first, k, cap) = At(Base, n + k, cap)
<1>1. cap \in Nat \ {0} /\ first \in Slots(cap) /\ n \in 0 .. cap
    BY Numbers
<1>2. CASE op = "insert"
    BY <1>1, <1>2, AtIsAdd DEF Base
<1>3. CASE op = "rinsert"
    <2>1. Base = Sub(first, n, cap)
        BY <1>3 DEF Base
    <2>2. /\ Base \in Slots(cap) /\ first = At(Base, n, cap)
          /\ \A k \in 0 .. cap - 1 : At(Base, n + k, cap) = At(first, k, cap)
        BY <1>1, <2>1, AtFromSub
    <2>3. \A k \in 0 .. cap - 1 : Add(first, k, cap) = At(first, k, cap)
        BY <1>1, AtIsAdd
    <2> QED
        BY <1>3, <2>1, <2>2, <2>3
<1> QED
    BY <1>2, <1>3 DEF TypeInv

\* What position j holds is never taken for a free slot.
LEMMA WantIsItem ==
    ASSUME TypeInv, Asked, Prepared, NEW j \in Nat
    PROVE  Want(j) \in Nat /\ Want(j) # Raw
<1>1. MaxCapacity \in Nat /\ n \in 1 .. cap /\ items \in Nat /\ n <= items /\ at \in 0 .. size
      /\ cap \in Nat /\ size \in 0 .. cap
    <2>1. cap \in Nat \ {0}
        BY Numbers
    <2> QED
        BY <2>1, Numbers, BulkAssumption
<1> QED
    BY <1>1 DEF Want, Raw

-----------------------------------------------------------------------------
(* One position is written.                                                *)

\* All positions written lie in one round, from lo to hi: so the slot of another
\* one is live before exactly if it is in the window.
LEMMA PositionWritten ==
    ASSUME TypeInv, Asked, Prepared, mem \in [Slots(cap) -> Nat],
           NEW lo \in Nat, NEW hi \in Nat, hi - lo < cap, hi < 2 * cap,
           NEW W, W \subseteq lo .. hi, NEW w \in lo .. hi, w \notin W,
           Held(mem, W), LiveWith(mem, W),
           NEW M, M = [mem EXCEPT ![At(Base, w, cap)] = Want(w)]
    PROVE  /\ At(Base, w, cap) \in Slots(cap)
           /\ mem[At(Base, w, cap)] = Raw <=> At(Base, w, cap) \notin Window(first, size, cap)
           /\ M \in [Slots(cap) -> Nat]
           /\ \A q \in Slots(cap) : q # At(Base, w, cap) => M[q] = mem[q]
           /\ Held(M, W \cup {w}) /\ LiveWith(M, W \cup {w})
<1> DEFINE x == At(Base, w, cap)
<1>1. cap \in Nat \ {0} /\ Base \in Slots(cap) /\ w \in 0 .. 2 * cap - 1
    BY Numbers, BaseFacts
<1>2. x \in Slots(cap)
    BY <1>1, AtIsAdd
<1>3. \A j \in W : At(Base, j, cap) # x /\ At(Base, j, cap) \in Slots(cap)
    <2> SUFFICES ASSUME NEW j \in W PROVE At(Base, j, cap) # x /\ At(Base, j, cap) \in Slots(cap)
        OBVIOUS
    <2>1. j \in lo .. hi /\ j # w
        OBVIOUS
    <2>2. j \in 0 .. 2 * cap - 1 /\ j - w < cap /\ w - j < cap
        BY <1>1, <2>1
    <2> QED
        BY <1>1, <2>1, <2>2, AtDiffers, AtIsAdd
<1>4. Want(w) \in Nat /\ Want(w) # Raw
    BY <1>1, WantIsItem
<1> HIDE DEF x
<1>5. M = [mem EXCEPT ![x] = Want(w)]
    BY DEF x
<1>6. M \in [Slots(cap) -> Nat] /\ M[x] = Want(w) /\ \A q \in Slots(cap) : q # x => M[q] = mem[q]
    BY <1>2, <1>4, <1>5
<1>7. mem[x] = Raw <=> x \notin Window(first, size, cap)
    BY <1>2, <1>3 DEF LiveWith
<1>8. Held(M, W \cup {w})
    <2>1. M[At(Base, w, cap)] = Want(w)
        BY <1>6 DEF x
    <2>2. \A j \in W : M[At(Base, j, cap)] = Want(j)
        BY <1>3, <1>6 DEF Held
    <2> QED
        BY <2>1, <2>2 DEF Held
<1>9. LiveWith(M, W \cup {w})
    <2> SUFFICES ASSUME NEW q \in Slots(cap)
                 PROVE  M[q] # Raw <=> \/ q \in Window(first, size, cap)
                                       \/ \E j \in W \cup {w} : q = At(Base, j, cap)
        BY DEF LiveWith
    <2>1. CASE q = x
        BY <1>4, <1>6, <2>1 DEF x
    <2>2. CASE q # x
        <3>1. mem[q] # Raw <=> q \in Window(first, size, cap) \/ \E j \in W : q = At(Base, j, cap)
            BY DEF LiveWith
        <3> QED
            BY <1>6, <2>2, <3>1 DEF x
    <2> QED
        BY <2>1, <2>2
<1> QED
    BY <1>2, <1>6, <1>7, <1>8, <1>9 DEF x

\* What a loop finds out about the slot of position w, and that M is the
\* memory after it was written.
Writes(M, w) ==
    /\ mem[At(Base, w, cap)] = Raw <=> At(Base, w, cap) \notin Window(first, size, cap)
    /\ At(Base, w, cap) \in Slots(cap)
    /\ M \in [Slots(cap) -> Nat]

\* insert_n shifts one more element back.
LEMMA BackShifts ==
    ASSUME TypeInv, Asked, Prepared, op = "insert",
           NEW m \in 0 .. size - at - 1, Back(mem, m, 0),
           NEW M, M = [mem EXCEPT ![At(Base, (size + n - 1) - m, cap)] = mem[At(Base, (size - 1) - m, cap)]]
    PROVE  /\ Writes(M, (size + n - 1) - m) /\ Back(M, m + 1, 0)
           /\ mem[At(Base, (size - 1) - m, cap)] # Raw
<1> DEFINE w == (size + n - 1) - m
           e == (size - 1) - m
           W == BackW(m, 0)
           hi == size + n - 1
<1>1. /\ cap \in Nat \ {0} /\ size \in 0 .. cap /\ at \in 0 .. size /\ n \in 1 .. cap
      /\ construct \in 0 .. n /\ construct <= cap - size /\ n + (size - at) <= cap /\ n - construct <= at
    BY Numbers
<1>2. Base \in Slots(cap) /\ \A j \in 0 .. cap : Add(first, j, cap) = At(Base, j, cap)
    BY BaseFacts
<1>3. /\ e \in n - construct .. size - m - 1 /\ e \in 0 .. cap /\ w \in at .. hi
      /\ at \in Nat /\ hi \in Nat /\ hi - at < cap /\ hi < 2 * cap
    BY <1>1
<1>4. mem[At(Base, e, cap)] = e + 1 /\ e \in Nat
    <2>1. mem[Add(first, e, cap)] = e + 1
        BY <1>3 DEF Back, Original
    <2>2. Add(first, e, cap) = At(Base, e, cap)
        BY <1>2, <1>3
    <2> QED
        BY <1>3, <2>1, <2>2
<1>5. Want(w) = e + 1
    BY <1>1 DEF Want
<1>6. W \subseteq at .. hi /\ w \notin W /\ BackW(m + 1, 0) = W \cup {w}
    BY <1>1 DEF BackW
<1>7. Held(mem, W) /\ LiveWith(mem, W) /\ mem \in [Slots(cap) -> Nat]
    BY DEF Back, TypeInv
<1>8. M = [mem EXCEPT ![At(Base, w, cap)] = Want(w)]
    BY <1>4, <1>5
<1> HIDE DEF W, hi, w
<1>9. /\ At(Base, w, cap) \in Slots(cap)
      /\ mem[At(Base, w, cap)] = Raw <=> At(Base, w, cap) \notin Window(first, size, cap)
      /\ M \in [Slots(cap) -> Nat]
      /\ \A q \in Slots(cap) : q # At(Base, w, cap) => M[q] = mem[q]
      /\ Held(M, W \cup {w}) /\ LiveWith(M, W \cup {w})
    BY <1>3, <1>6, <1>7, <1>8, PositionWritten
<1>10. Original(M, n - construct .. size - (m + 1) - 1)
    <2> SUFFICES ASSUME NEW j \in n - construct .. size - (m + 1) - 1
                 PROVE  M[Add(first, j, cap)] = j + 1
        BY DEF Original
    <2>1. /\ j \in n - construct .. size - m - 1 /\ j \in 0 .. cap /\ j \in 0 .. 2 * cap - 1
          /\ w \in 0 .. 2 * cap - 1 /\ j # w /\ w - j < cap /\ j - w < cap
        BY <1>1 DEF w
    <2>2. At(Base, j, cap) # At(Base, w, cap) /\ At(Base, j, cap) \in Slots(cap)
        BY <1>1, <1>2, <2>1, AtDiffers, AtIsAdd
    <2>3. mem[Add(first, j, cap)] = j + 1 /\ Add(first, j, cap) = At(Base, j, cap)
        BY <1>2, <2>1 DEF Back, Original
    <2> QED
        BY <1>9, <2>2, <2>3
<1>11. m + 1 \in 0 .. size - at /\ 0 \in 0 .. n
    BY <1>1
<1>12. Back(M, m + 1, 0)
    <2>1. Held(M, BackW(m + 1, 0)) /\ LiveWith(M, BackW(m + 1, 0))
        BY <1>6, <1>9
    <2> QED
        BY <1>10, <1>11, <2>1 DEF Back
<1> QED
    BY <1>4, <1>9, <1>12 DEF w, Writes, Raw

\* insert_n puts one more item into the gap, or behind the end.
LEMMA BackFills ==
    ASSUME TypeInv, Asked, Prepared, op = "insert",
           NEW i \in 0 .. n - 1, Back(mem, size - at, i),
           NEW M, M = [mem EXCEPT ![At(Base, at + i, cap)] = Want(at + i)]
    PROVE  Writes(M, at + i) /\ Back(M, size - at, i + 1)
<1> DEFINE w == at + i
           W == BackW(size - at, i)
           hi == size + n - 1
<1>1. /\ cap \in Nat \ {0} /\ size \in 0 .. cap /\ at \in 0 .. size /\ n \in 1 .. cap
      /\ construct \in 0 .. n /\ construct <= cap - size /\ n + (size - at) <= cap /\ n - construct <= at
    BY Numbers
<1>2. Base \in Slots(cap) /\ \A j \in 0 .. cap : Add(first, j, cap) = At(Base, j, cap)
    BY BaseFacts
<1>3. w \in at .. hi /\ at \in Nat /\ hi \in Nat /\ hi - at < cap /\ hi < 2 * cap
    BY <1>1
<1>6. W \subseteq at .. hi /\ w \notin W /\ BackW(size - at, i + 1) = W \cup {w}
    BY <1>1 DEF BackW
<1>7. Held(mem, W) /\ LiveWith(mem, W) /\ mem \in [Slots(cap) -> Nat]
    BY DEF Back, TypeInv
<1> HIDE DEF W, hi, w
<1>9. /\ At(Base, w, cap) \in Slots(cap)
      /\ mem[At(Base, w, cap)] = Raw <=> At(Base, w, cap) \notin Window(first, size, cap)
      /\ M \in [Slots(cap) -> Nat]
      /\ \A q \in Slots(cap) : q # At(Base, w, cap) => M[q] = mem[q]
      /\ Held(M, W \cup {w}) /\ LiveWith(M, W \cup {w})
    BY <1>3, <1>6, <1>7, PositionWritten DEF w
<1>10. Original(M, n - construct .. size - (size - at) - 1)
    <2> SUFFICES ASSUME NEW j \in n - construct .. size - (size - at) - 1
                 PROVE  M[Add(first, j, cap)] = j + 1
        BY DEF Original
    <2>1. /\ j \in 0 .. cap /\ j \in 0 .. 2 * cap - 1
          /\ w \in 0 .. 2 * cap - 1 /\ j # w /\ w - j < cap /\ j - w < cap
        BY <1>1 DEF w
    <2>2. At(Base, j, cap) # At(Base, w, cap) /\ At(Base, j, cap) \in Slots(cap)
        BY <1>1, <1>2, <2>1, AtDiffers, AtIsAdd
    <2>3. mem[Add(first, j, cap)] = j + 1 /\ Add(first, j, cap) = At(Base, j, cap)
        BY <1>2, <2>1 DEF Back, Original
    <2> QED
        BY <1>9, <2>2, <2>3
<1>11. size - at \in 0 .. size - at /\ i + 1 \in 0 .. n
    BY <1>1
<1>12. Back(M, size - at, i + 1)
    BY <1>6, <1>9, <1>10, <1>11 DEF Back
<1> QED
    BY <1>9, <1>12 DEF w, Writes

\* rinsert_n shifts one more element forward.
LEMMA FrontShifts ==
    ASSUME TypeInv, Asked, Prepared, op = "rinsert",
           NEW m \in 0 .. at - 1, Front(mem, m, 0),
           NEW M, M = [mem EXCEPT ![At(Base, m, cap)] = mem[At(Base, n + m, cap)]]
    PROVE  /\ Writes(M, m) /\ Front(M, m + 1, 0)
           /\ mem[At(Base, n + m, cap)] # Raw
<1> DEFINE W == FrontW(m, 0)
           hi == at + n - 1
<1>1. /\ cap \in Nat \ {0} /\ size \in 0 .. cap /\ at \in 0 .. size /\ n \in 1 .. cap /\ n + at <= cap
    BY Numbers
<1>2. Base \in Slots(cap) /\ \A j \in 0 .. cap - 1 : Add(first, j, cap) = At(Base, n + j, cap)
    BY BaseFacts
<1>3. /\ m \in {k \in m .. size - 1 : k + n < cap} /\ m \in 0 .. cap - 1
      /\ m \in 0 .. hi /\ 0 \in Nat /\ hi \in Nat /\ hi - 0 < cap /\ hi < 2 * cap
    BY <1>1
<1>4. mem[At(Base, n + m, cap)] = m + 1 /\ m \in Nat
    <2>1. mem[Add(first, m, cap)] = m + 1
        BY <1>3 DEF Front, Original
    <2>2. Add(first, m, cap) = At(Base, n + m, cap)
        BY <1>2, <1>3
    <2> QED
        BY <1>3, <2>1, <2>2
<1>5. Want(m) = m + 1
    BY <1>1 DEF Want
<1>6. W \subseteq 0 .. hi /\ m \notin W /\ FrontW(m + 1, 0) = W \cup {m}
    BY <1>1 DEF FrontW
<1>7. Held(mem, W) /\ LiveWith(mem, W) /\ mem \in [Slots(cap) -> Nat]
    BY DEF Front, TypeInv
<1>8. M = [mem EXCEPT ![At(Base, m, cap)] = Want(m)]
    BY <1>4, <1>5
<1> HIDE DEF W, hi
<1>9. /\ At(Base, m, cap) \in Slots(cap)
      /\ mem[At(Base, m, cap)] = Raw <=> At(Base, m, cap) \notin Window(first, size, cap)
      /\ M \in [Slots(cap) -> Nat]
      /\ \A q \in Slots(cap) : q # At(Base, m, cap) => M[q] = mem[q]
      /\ Held(M, W \cup {m}) /\ LiveWith(M, W \cup {m})
    BY <1>3, <1>6, <1>7, <1>8, PositionWritten
<1>10. Original(M, {k \in m + 1 .. size - 1 : k + n < cap})
    <2> SUFFICES ASSUME NEW j \in {k \in m + 1 .. size - 1 : k + n < cap}
                 PROVE  M[Add(first, j, cap)] = j + 1
        BY DEF Original
    <2>1. /\ j \in {k \in m .. size - 1 : k + n < cap} /\ j \in 0 .. cap - 1 /\ n + j \in 0 .. 2 * cap - 1
          /\ m \in 0 .. 2 * cap - 1 /\ n + j # m /\ m - (n + j) < cap /\ (n + j) - m < cap
        BY <1>1
    <2>2. At(Base, n + j, cap) # At(Base, m, cap) /\ At(Base, n + j, cap) \in Slots(cap)
        BY <1>1, <1>2, <2>1, AtDiffers, AtIsAdd
    <2>3. mem[Add(first, j, cap)] = j + 1 /\ Add(first, j, cap) = At(Base, n + j, cap)
        BY <1>2, <2>1 DEF Front, Original
    <2> QED
        BY <1>9, <2>2, <2>3
<1>11. m + 1 \in 0 .. at /\ 0 \in 0 .. n
    BY <1>1
<1>12. Front(M, m + 1, 0)
    BY <1>6, <1>9, <1>10, <1>11 DEF Front
<1> QED
    BY <1>4, <1>9, <1>12 DEF Writes, Raw

\* rinsert_n puts one more item into the gap, or in front of the begin.
LEMMA FrontFills ==
    ASSUME TypeInv, Asked, Prepared, op = "rinsert",
           NEW i \in 0 .. n - 1, Front(mem, at, i),
           NEW M, M = [mem EXCEPT ![At(Base, at + i, cap)] = Want(at + i)]
    PROVE  Writes(M, at + i) /\ Front(M, at, i + 1)
<1> DEFINE w == at + i
           W == FrontW(at, i)
           hi == at + n - 1
<1>1. /\ cap \in Nat \ {0} /\ size \in 0 .. cap /\ at \in 0 .. size /\ n \in 1 .. cap /\ n + at <= cap
    BY Numbers
<1>2. Base \in Slots(cap) /\ \A j \in 0 .. cap - 1 : Add(first, j, cap) = At(Base, n + j, cap)
    BY BaseFacts
<1>3. w \in 0 .. hi /\ 0 \in Nat /\ hi \in Nat /\ hi - 0 < cap /\ hi < 2 * cap
    BY <1>1
<1>6. W \subseteq 0 .. hi /\ w \notin W /\ FrontW(at, i + 1) = W \cup {w}
    BY <1>1 DEF FrontW
<1>7. Held(mem, W) /\ LiveWith(mem, W) /\ mem \in [Slots(cap) -> Nat]
    BY DEF Front, TypeInv
<1> HIDE DEF W, hi, w
<1>9. /\ At(Base, w, cap) \in Slots(cap)
      /\ mem[At(Base, w, cap)] = Raw <=> At(Base, w, cap) \notin Window(first, size, cap)
      /\ M \in [Slots(cap) -> Nat]
      /\ \A q \in Slots(cap) : q # At(Base, w, cap) => M[q] = mem[q]
      /\ Held(M, W \cup {w}) /\ LiveWith(M, W \cup {w})
    BY <1>3, <1>6, <1>7, PositionWritten DEF w
<1>10. Original(M, {k \in at .. size - 1 : k + n < cap})
    <2> SUFFICES ASSUME NEW j \in {k \in at .. size - 1 : k + n < cap}
                 PROVE  M[Add(first, j, cap)] = j + 1
        BY DEF Original
    <2>1. /\ j \in 0 .. cap - 1 /\ n + j \in 0 .. 2 * cap - 1
          /\ w \in 0 .. 2 * cap - 1 /\ n + j # w /\ w - (n + j) < cap /\ (n + j) - w < cap
        BY <1>1 DEF w
    <2>2. At(Base, n + j, cap) # At(Base, w, cap) /\ At(Base, n + j, cap) \in Slots(cap)
        BY <1>1, <1>2, <2>1, AtDiffers, AtIsAdd
    <2>3. mem[Add(first, j, cap)] = j + 1 /\ Add(first, j, cap) = At(Base, n + j, cap)
        BY <1>2, <2>1 DEF Front, Original
    <2> QED
        BY <1>9, <2>2, <2>3
<1>11. at \in 0 .. at /\ i + 1 \in 0 .. n
    BY <1>1
<1>12. Front(M, at, i + 1)
    BY <1>6, <1>9, <1>10, <1>11 DEF Front
<1> QED
    BY <1>9, <1>12 DEF w, Writes

-----------------------------------------------------------------------------
(* Which slots the loops take for free.                                    *)

\* The positions that lie in the window.
LEMMA InWindow ==
    ASSUME TypeInv, Asked, Prepared, NEW j \in 0 .. 2 * cap - 1
    PROVE  /\ At(Base, j, cap) \in Slots(cap)
           /\ op = "insert" => (At(Base, j, cap) \in Window(first, size, cap)
                                  <=> IF j < cap THEN j < size ELSE j - cap < size)
           /\ op = "rinsert" => (At(Base, j, cap) \in Window(first, size, cap)
                                  <=> IF j < n THEN (j - n) + cap < size
                                      ELSE IF j - n < cap THEN j - n < size ELSE (j - n) - cap < size)
<1>1. cap \in Nat \ {0} /\ Base \in Slots(cap) /\ n \in 0 .. cap
    BY Numbers, BaseFacts
<1>2. At(Base, j, cap) \in Slots(cap)
    BY <1>1, AtIsAdd
<1>3. At(Base, j, cap) \in Window(first, size, cap) <=> Index(At(Base, j, cap), first, cap) < size
    BY <1>2 DEF Window
<1>4. ASSUME op = "insert"
      PROVE  Index(At(Base, j, cap), first, cap) = IF j < cap THEN j ELSE j - cap
    <2>1. first = At(Base, 0, cap) /\ 0 \in 0 .. cap
        BY <1>1, <1>4, AtIsAdd DEF Base
    <2>2. Index(At(Base, j, cap), At(Base, 0, cap), cap) = IF j < 0 THEN (j - 0) + cap
                                                           ELSE IF j - 0 < cap THEN j - 0 ELSE (j - 0) - cap
        BY <1>1, <2>1, AtIndex
    <2> QED
        BY <1>1, <2>1, <2>2
<1>5. ASSUME op = "rinsert"
      PROVE  Index(At(Base, j, cap), first, cap) =
                IF j < n THEN (j - n) + cap ELSE IF j - n < cap THEN j - n ELSE (j - n) - cap
    <2>1. first = At(Base, n, cap)
        BY <1>5, BaseFacts
    <2> QED
        BY <1>1, <2>1, AtIndex
<1> QED
    BY <1>2, <1>3, <1>4, <1>5

\* An element is never taken for a free slot.
LEMMA WindowIsInitialized ==
    ASSUME TypeInv, Asked, Prepared, size > 0, NEW q \in Window(first, size, cap)
    PROVE  ~is_uninitialized(q)
<1>1. /\ cap \in Nat \ {0} /\ first \in Slots(cap) /\ size \in 1 .. cap /\ last = Add(first, size, cap)
      /\ q \in Slots(cap) /\ Index(q, first, cap) < size
    BY Numbers DEF Asked, Window
<1> QED
    BY <1>1 DEF Slots, Index, Add, is_uninitialized

\* Within the round that insert_n or rinsert_n shifts and fills,
\* is_uninitialized finds the free slots.
LEMMA AsksRight ==
    ASSUME TypeInv, Asked, Prepared, GapIsKnown, Shifts,
           NEW j \in IF op = "insert" THEN at .. size + n - 1 ELSE 0 .. at + n - 1
    PROVE  is_uninitialized(At(Base, j, cap)) <=> At(Base, j, cap) \notin Window(first, size, cap)
<1>1. /\ cap \in Nat \ {0} /\ first \in Slots(cap) /\ size \in 0 .. cap /\ at \in 0 .. size
      /\ last = At(first, size, cap) /\ n \in 1 .. cap /\ construct \in 0 .. n
      /\ construct = n \/ construct = cap - size
      /\ op = "insert" => n + (size - at) <= cap
      /\ op = "rinsert" => n + at <= cap
    BY Numbers
<1>2. op \in {"insert", "rinsert"}
    BY DEF TypeInv
<1>3. size > 0 /\ j \in 0 .. 2 * cap - 1
    BY <1>1, <1>2 DEF Shifts
<1>4. construct = Lesser(cap - size, Fitting)
    BY DEF Prepared
<1>5. ASSUME At(Base, j, cap) \notin Window(first, size, cap)
      PROVE  At(Base, j, cap) \in Gap
    <2>1. CASE op = "insert"
        <3>1. j - size \in 0 .. construct - 1
            BY <1>1, <1>3, <1>5, <2>1, InWindow
        <3>2. Base = first /\ j - size \in 0 .. cap /\ size + (j - size) = j /\ size \in 0 .. 2 * cap - 1
            BY <1>1, <1>3, <2>1, <3>1 DEF Base
        <3>3. Add(At(first, size, cap), j - size, cap) = At(first, size + (j - size), cap)
            BY <1>1, <1>3, <3>2, AddToAt
        <3>4. Add(last, j - size, cap) = At(Base, j, cap)
            BY <1>1, <3>2, <3>3
        <3> QED
            BY <1>4, <2>1, <3>1, <3>4 DEF Gap
    <2>2. CASE op = "rinsert"
        <3>1. n - j \in 1 .. construct
            BY <1>1, <1>3, <1>5, <2>2, InWindow
        <3>2. /\ Base \in Slots(cap) /\ first = At(Base, n, cap) /\ n - j \in 0 .. cap
              /\ n - (n - j) = j /\ n \in 0 .. 2 * cap - 1
            BY <1>1, <1>3, <2>2, <3>1, BaseFacts
        <3>3. Sub(At(Base, n, cap), n - j, cap) = At(Base, n - (n - j), cap)
            BY <1>1, <3>1, <3>2, AddToAt
        <3>4. Sub(first, n - j, cap) = At(Base, j, cap)
            BY <3>2, <3>3
        <3> QED
            BY <1>4, <2>2, <3>1, <3>4 DEF Gap
    <2> QED
        BY <1>2, <2>1, <2>2
<1>6. At(Base, j, cap) \notin Window(first, size, cap) => is_uninitialized(At(Base, j, cap))
    BY <1>5 DEF GapIsKnown
<1> QED
    BY <1>3, <1>6, WindowIsInitialized

\* At the end and at the begin of the buffer, "construct" does without asking.
LEMMA AppendsRight ==
    ASSUME TypeInv, Asked, Prepared, op = "insert", at = size, NEW i \in 0 .. n - 1
    PROVE  i < construct <=> At(Base, size + i, cap) \notin Window(first, size, cap)
<1>1. /\ cap \in Nat \ {0} /\ size \in 0 .. cap /\ n \in 1 .. cap /\ construct \in 0 .. n
      /\ construct = n \/ construct = cap - size
      /\ construct <= cap - size
    BY Numbers
<1> DEFINE j == size + i
<1>2. j \in 0 .. 2 * cap - 1
    BY <1>1
<1> HIDE DEF j
<1>3. At(Base, j, cap) \in Window(first, size, cap) <=> IF j < cap THEN j < size ELSE j - cap < size
    BY <1>2, InWindow
<1> QED
    BY <1>1, <1>3 DEF j

LEMMA PrependsRight ==
    ASSUME TypeInv, Asked, Prepared, op = "rinsert", at = 0, NEW i \in 0 .. n - 1
    PROVE  n - i <= construct <=> At(Base, i, cap) \notin Window(first, size, cap)
<1>1. /\ cap \in Nat \ {0} /\ size \in 0 .. cap /\ n \in 1 .. cap /\ construct \in 0 .. n
      /\ construct = n \/ construct = cap - size
      /\ construct <= cap - size
    BY Numbers
<1>2. i \in 0 .. 2 * cap - 1 /\ i < n
    BY <1>1
<1>3. At(Base, i, cap) \in Window(first, size, cap) <=> (i - n) + cap < size
    BY <1>2, InWindow
<1> QED
    BY <1>1, <1>3

-----------------------------------------------------------------------------
(* The ends of the loops.                                                  *)

\* Slots that are equally far from m_first are the same.
LEMMA SameSlot ==
    ASSUME NEW c \in Nat \ {0}, NEW f \in Slots(c), NEW q \in Slots(c), NEW r \in Slots(c),
           Index(q, f, c) = Index(r, f, c)
    PROVE  q = r
BY IndexInRing

\* What the new members say of the memory: which slots are live, and what they
\* hold, counted from position s of the sequence.
Adopted(f, l, z, s) ==
    /\ l = Add(f, z, cap) /\ f \in Slots(cap) /\ z \in 0 .. cap
    /\ \A q \in Slots(cap) : mem[q] # Raw <=> q \in Window(f, z, cap)
    /\ \A i \in 1 .. z : mem[Add(f, i - 1, cap)] = Want(s + i - 1)

LEMMA BackCompletes ==
    ASSUME TypeInv, Asked, Prepared, op = "insert", Back(mem, size - at, n)
    PROVE  Adopted(Add(first, n - construct, cap), Add(last, n, cap), size + construct, n - construct)
<1> DEFINE s == n - construct
           z == size + construct
           f == Add(first, s, cap)
           W == BackW(size - at, n)
<1>1. /\ cap \in Nat \ {0} /\ size \in 0 .. cap /\ at \in 0 .. size /\ n \in 1 .. cap
      /\ construct \in 0 .. n /\ construct <= cap - size /\ n + (size - at) <= cap /\ n - construct <= at
      /\ construct = n \/ construct = cap - size
      /\ last = At(first, size, cap) /\ Base \in Slots(cap) /\ Base = first
    BY Numbers, BaseFacts DEF Base
<1>2. f = At(Base, s, cap) /\ f \in Slots(cap)
    BY <1>1, AtIsAdd
<1>3. s \in 0 .. at /\ z \in 0 .. cap /\ s + z = size + n /\ s + z <= 2 * cap
    BY <1>1
<1>4. W = at .. size + n - 1
    BY <1>1 DEF BackW
<1> HIDE DEF f, W
<1>5. Add(last, n, cap) = Add(f, z, cap)
    <2>1. Add(At(Base, size, cap), n, cap) = At(Base, size + n, cap)
        BY <1>1, AddToAt
    <2>2. Add(At(Base, s, cap), z, cap) = At(Base, s + z, cap)
        <3>1. s \in 0 .. 2 * cap
            BY <1>1
        <3> HIDE DEF s, z
        <3> QED
            BY <1>1, <1>3, <3>1, AddToAt
    <2> QED
        BY <1>1, <1>2, <1>3, <2>1, <2>2
<1>6. ASSUME NEW i \in 1 .. z
      PROVE  mem[Add(f, i - 1, cap)] = Want(s + i - 1)
    <2> DEFINE j == s + i - 1
    <2>1. j \in s .. size + n - 1 /\ s + (i - 1) = j /\ i - 1 \in 0 .. cap /\ s \in 0 .. 2 * cap /\ j <= 2 * cap
        BY <1>1, <1>3
    <2>2. Add(At(Base, s, cap), i - 1, cap) = At(Base, s + (i - 1), cap)
        BY <1>1, <2>1, AddToAt
    <2>3. Add(f, i - 1, cap) = At(Base, j, cap)
        BY <1>2, <2>1, <2>2
    <2>4. CASE j < at
        <3>1. j \in n - construct .. size - (size - at) - 1 /\ j \in 0 .. cap
            BY <1>1, <1>3, <2>1, <2>4
        <3>2. mem[Add(first, j, cap)] = j + 1
            BY <3>1 DEF Back, Original
        <3>3. Add(first, j, cap) = At(Base, j, cap)
            BY <1>1, <3>1, AtIsAdd
        <3> QED
            BY <2>3, <2>4, <3>2, <3>3 DEF Want
    <2>5. CASE j >= at
        <3>1. j \in W
            BY <1>1, <1>4, <2>1, <2>5
        <3> HIDE DEF j
        <3>2. mem[At(Base, j, cap)] = Want(j)
            BY <3>1 DEF Back, Held, W
        <3> QED
            BY <2>3, <3>2 DEF j
    <2> QED
        BY <1>1, <1>3, <2>1, <2>4, <2>5
<1>7. ASSUME NEW q \in Slots(cap)
      PROVE  mem[q] # Raw <=> q \in Window(f, z, cap)
    <2>1. PICK j \in s .. s + (cap - 1) : q = At(Base, j, cap)
        <3>1. s \in 0 .. cap
            BY <1>1
        <3> HIDE DEF s
        <3> QED
            BY <1>1, <3>1, AtReaches
    <2>2. j \in 0 .. 2 * cap - 1 /\ s \in 0 .. cap
        BY <1>1, <1>3
    <2>3. Index(At(Base, j, cap), At(Base, s, cap), cap) = j - s
        BY <1>1, <1>3, <2>1, <2>2, AtIndex
    <2>4. q \in Window(f, z, cap) <=> j < size + n
        BY <1>1, <1>2, <1>3, <2>1, <2>3 DEF Window
    <2>5. mem[q] # Raw <=> q \in Window(first, size, cap) \/ \E w \in W : q = At(Base, w, cap)
        BY DEF Back, LiveWith, W
    <2>6. q \in Window(first, size, cap) <=> IF j < cap THEN j < size ELSE j - cap < size
        BY <2>1, <2>2, InWindow
    <2>7. ASSUME j < size + n
          PROVE  mem[q] # Raw
        <3>1. CASE j < at
            BY <1>1, <2>5, <2>6, <3>1
        <3>2. CASE j >= at
            BY <1>1, <1>4, <2>1, <2>2, <2>5, <2>7, <3>2
        <3> QED
            BY <1>1, <2>2, <3>1, <3>2
    <2>8. ASSUME j >= size + n
          PROVE  mem[q] = Raw
        <3>1. j < cap /\ j >= size
            BY <1>1, <1>3, <2>1, <2>8
        <3>2. \A w \in W : q # At(Base, w, cap)
            <4> SUFFICES ASSUME NEW w \in W PROVE q # At(Base, w, cap)
                OBVIOUS
            <4>1. w \in 0 .. 2 * cap - 1 /\ j # w /\ j - w < cap /\ w - j < cap
                BY <1>1, <1>4, <2>2, <2>8, <3>1
            <4> QED
                BY <1>1, <2>1, <2>2, <4>1, AtDiffers
        <3> QED
            BY <1>1, <2>2, <2>5, <2>6, <3>1, <3>2
    <2> QED
        BY <1>1, <2>2, <2>4, <2>7, <2>8
<1>8. Adopted(f, Add(last, n, cap), z, s)
    BY <1>2, <1>3, <1>5, <1>6, <1>7 DEF Adopted
<1> QED
    BY <1>8 DEF f

LEMMA FrontCompletes ==
    ASSUME TypeInv, Asked, Prepared, op = "rinsert", Front(mem, at, n)
    PROVE  Adopted(Sub(first, n, cap), Sub(last, n - construct, cap), size + construct, 0)
<1> DEFINE z == size + construct
           W == FrontW(at, n)
<1>1. /\ cap \in Nat \ {0} /\ size \in 0 .. cap /\ at \in 0 .. size /\ n \in 1 .. cap
      /\ construct \in 0 .. n /\ construct <= cap - size /\ n + at <= cap
      /\ construct = n \/ construct = cap - size
      /\ last = Add(first, size, cap)
      /\ Base \in Slots(cap) /\ Base = Sub(first, n, cap) /\ first = At(Base, n, cap)
      /\ \A k \in 0 .. cap - 1 : Add(first, k, cap) = At(Base, n + k, cap)
    BY Numbers, BaseFacts DEF Asked
<1>2. z \in 0 .. cap /\ W = 0 .. at + n - 1
    BY <1>1 DEF FrontW
<1> HIDE DEF W
<1>5. Sub(last, n - construct, cap) = Add(Base, z, cap)
    <2>1. Add(At(Base, n, cap), size, cap) = At(Base, n + size, cap)
        BY <1>1, AddToAt
    <2>2. n + size \in 0 .. 2 * cap /\ n - construct \in 0 .. cap /\ n - construct <= n + size
          /\ (n + size) - (n - construct) = z
        BY <1>1
    <2>3. Sub(At(Base, n + size, cap), n - construct, cap) = At(Base, (n + size) - (n - construct), cap)
        BY <1>1, <2>2, AddToAt
    <2>4. Add(Base, z, cap) = At(Base, z, cap)
        BY <1>1, <1>2, AtIsAdd
    <2> QED
        BY <1>1, <2>1, <2>2, <2>3, <2>4
<1>6. ASSUME NEW i \in 1 .. z
      PROVE  mem[Add(Base, i - 1, cap)] = Want(0 + i - 1)
    <2> DEFINE j == i - 1
    <2>1. j \in 0 .. z - 1 /\ j \in 0 .. cap - 1 /\ 0 + i - 1 = j
        BY <1>1, <1>2
    <2>2. Add(Base, j, cap) = At(Base, j, cap)
        BY <1>1, <2>1, AtIsAdd
    <2>3. CASE j < at + n
        <3>1. j \in W
            BY <1>1, <1>2, <2>1, <2>3
        <3> HIDE DEF j
        <3>2. mem[At(Base, j, cap)] = Want(j)
            BY <3>1 DEF Front, Held, W
        <3> QED
            BY <2>1, <2>2, <3>2 DEF j
    <2>4. CASE j >= at + n
        <3>1. /\ j - n \in {k \in at .. size - 1 : k + n < cap} /\ j - n \in 0 .. cap - 1
              /\ n + (j - n) = j
            BY <1>1, <2>1, <2>4
        <3>2. mem[Add(first, j - n, cap)] = (j - n) + 1
            BY <3>1 DEF Front, Original
        <3>3. Add(first, j - n, cap) = At(Base, n + (j - n), cap)
            BY <1>1, <3>1
        <3>4. Want(j) = (j - n) + 1
            BY <1>1, <2>1, <2>4 DEF Want
        <3> QED
            BY <2>1, <2>2, <3>1, <3>2, <3>3, <3>4
    <2> QED
        BY <1>1, <2>1, <2>3, <2>4
<1>7. ASSUME NEW q \in Slots(cap)
      PROVE  mem[q] # Raw <=> q \in Window(Base, z, cap)
    <2>1. PICK j \in 0 .. 0 + (cap - 1) : q = At(Base, j, cap)
        BY <1>1, AtReaches
    <2>2. j \in 0 .. 2 * cap - 1 /\ j < cap /\ j - 0 = j
        BY <1>1
    <2>3. Index(At(Base, j, cap), At(Base, 0, cap), cap) = j /\ At(Base, 0, cap) = Base
        BY <1>1, <2>1, <2>2, AtIndex, AtIsAdd
    <2>4. q \in Window(Base, z, cap) <=> j < z
        BY <1>1, <1>2, <2>1, <2>3 DEF Window
    <2>5. mem[q] # Raw <=> q \in Window(first, size, cap) \/ \E w \in W : q = At(Base, w, cap)
        BY DEF Front, LiveWith, W
    <2>6. q \in Window(first, size, cap)
            <=> IF j < n THEN (j - n) + cap < size ELSE IF j - n < cap THEN j - n < size ELSE (j - n) - cap < size
        BY <2>1, <2>2, InWindow
    <2>7. ASSUME j < z
          PROVE  mem[q] # Raw
        <3>1. CASE j < at + n
            <4>1. j \in W
                BY <1>1, <1>2, <2>2, <3>1
            <4> QED
                BY <2>1, <2>5, <4>1
        <3>2. CASE j >= at + n
            BY <1>1, <2>2, <2>5, <2>6, <2>7, <3>2
        <3> QED
            BY <1>1, <2>2, <3>1, <3>2
    <2>8. ASSUME j >= z
          PROVE  mem[q] = Raw
        <3>1. construct = n /\ j >= size + n
            BY <1>1, <2>2, <2>8
        <3>2. \A w \in W : q # At(Base, w, cap)
            <4> SUFFICES ASSUME NEW w \in W PROVE q # At(Base, w, cap)
                OBVIOUS
            <4>1. w \in 0 .. 2 * cap - 1 /\ j # w /\ j - w < cap /\ w - j < cap
                BY <1>1, <1>2, <2>2, <3>1
            <4> QED
                BY <1>1, <2>1, <2>2, <4>1, AtDiffers
        <3> QED
            BY <1>1, <2>2, <2>5, <2>6, <3>1, <3>2
    <2> QED
        BY <1>1, <2>2, <2>4, <2>7, <2>8
<1>8. Adopted(Base, Sub(last, n - construct, cap), z, 0)
    BY <1>1, <1>2, <1>5, <1>6, <1>7 DEF Adopted
<1> QED
    BY <1>1, <1>8

-----------------------------------------------------------------------------
(* The handlers.                                                           *)

\* The handler behind the end takes in what was constructed.
LEMMA AppendUndone ==
    ASSUME TypeInv, Asked, Prepared, op = "insert", at = size, NEW i \in 0 .. n - 1, Back(mem, 0, i),
           NEW h, h = Lesser(i, construct)
    PROVE  /\ Add(last, h, cap) = Add(first, size + h, cap)
           /\ \A q \in Slots(cap) : mem[q] # Raw <=> q \in Window(first, size + h, cap)
<1> DEFINE W == BackW(0, i)
<1>1. /\ cap \in Nat \ {0} /\ first \in Slots(cap) /\ size \in 0 .. cap /\ at \in 0 .. size /\ n \in 1 .. cap
      /\ construct \in 0 .. n /\ construct <= cap - size
      /\ construct = n \/ construct = cap - size
      /\ last = At(first, size, cap) /\ Base \in Slots(cap) /\ Base = first
    BY Numbers, BaseFacts DEF Base
<1>2. h \in 0 .. cap - size /\ W = size .. size + i - 1 /\ (i > h => h = cap - size) /\ h <= i
    BY <1>1 DEF BackW, Lesser
<1> HIDE DEF W
<1>3. Add(last, h, cap) = Add(first, size + h, cap)
    <2>1. size \in 0 .. 2 * cap /\ h \in 0 .. cap /\ size + h <= 2 * cap /\ size + h \in 0 .. cap
        BY <1>1, <1>2
    <2>2. Add(At(first, size, cap), h, cap) = At(first, size + h, cap)
        BY <1>1, <2>1, AddToAt
    <2>3. Add(first, size + h, cap) = At(first, size + h, cap)
        <3> DEFINE z == size + h
        <3>1. z \in 0 .. 2 * cap - 1 /\ z <= cap
            BY <1>1, <2>1
        <3> HIDE DEF z
        <3>2. Add(first, z, cap) = At(first, z, cap)
            BY <1>1, <3>1, AtIsAdd
        <3> QED
            BY <3>2 DEF z
    <2> QED
        BY <1>1, <2>2, <2>3
<1>4. ASSUME NEW q \in Slots(cap)
      PROVE  mem[q] # Raw <=> q \in Window(first, size + h, cap)
    <2>1. mem[q] # Raw <=> q \in Window(first, size, cap) \/ \E w \in W : q = At(Base, w, cap)
        BY DEF Back, LiveWith, W
    <2> DEFINE x == Index(q, first, cap)
    <2>2. x \in 0 .. cap - 1
        BY <1>1, IndexInRing
    <2>3. /\ q \in Window(first, size, cap) <=> x < size
          /\ q \in Window(first, size + h, cap) <=> x < size + h
        BY DEF Window
    <2>4. ASSUME NEW w \in W, q = At(Base, w, cap)
          PROVE  x < size + h
        <3>1. w \in 0 .. 2 * cap - 1 /\ w >= size /\ w < size + i /\ 0 \in 0 .. cap
            BY <1>1, <1>2
        <3>2. Index(At(Base, w, cap), At(Base, 0, cap), cap) =
                 IF w < 0 THEN (w - 0) + cap ELSE IF w - 0 < cap THEN w - 0 ELSE (w - 0) - cap
            BY <1>1, <3>1, AtIndex
        <3>3. At(Base, 0, cap) = first
            BY <1>1, AtIsAdd
        <3>4. x = IF w < cap THEN w ELSE w - cap
            BY <1>1, <2>4, <3>1, <3>2, <3>3
        <3> QED
            BY <1>1, <1>2, <3>1, <3>4
    <2>5. ASSUME x >= size, x < size + h
          PROVE  \E w \in W : q = At(Base, w, cap)
        <3>1. x \in W /\ x \in 0 .. 2 * cap - 1 /\ x <= cap
            BY <1>1, <1>2, <2>2, <2>5
        <3>2. Add(first, x, cap) = q
            BY <1>1, IndexInRing
        <3> HIDE DEF x
        <3>3. Add(first, x, cap) = At(first, x, cap)
            BY <1>1, <3>1, AtIsAdd
        <3> QED
            BY <1>1, <3>1, <3>2, <3>3
    <2> HIDE DEF x
    <2> QED
        BY <1>1, <1>2, <2>1, <2>2, <2>3, <2>4, <2>5
<1> QED
    BY <1>3, <1>4

\* The handler in front of the begin does so, too, if the buffer gets full.
LEMMA PrependUndone ==
    ASSUME TypeInv, Asked, Prepared, op = "rinsert", at = 0, NEW i \in 0 .. n - 1, Front(mem, 0, i),
           NEW h, h = IF n - i < construct THEN construct - (n - i) ELSE 0,
           n >= cap - size \/ h = 0
    PROVE  /\ Add(last, h, cap) = Add(first, size + h, cap)
           /\ size + h \in 0 .. cap
           /\ \A q \in Slots(cap) : mem[q] # Raw <=> q \in Window(first, size + h, cap)
<1> DEFINE W == FrontW(0, i)
<1>1. /\ cap \in Nat \ {0} /\ first \in Slots(cap) /\ size \in 0 .. cap /\ n \in 1 .. cap
      /\ construct \in 0 .. n /\ construct <= cap - size
      /\ construct = n \/ construct = cap - size
      /\ last = At(first, size, cap) /\ Base \in Slots(cap) /\ first = At(Base, n, cap)
    BY Numbers, BaseFacts
<1>2. h \in 0 .. cap - size /\ W = 0 .. i - 1 /\ (h > 0 => construct = cap - size /\ h = construct - (n - i))
    BY <1>1 DEF FrontW
<1> HIDE DEF W
<1>3. Add(last, h, cap) = Add(first, size + h, cap)
    <2>1. size \in 0 .. 2 * cap /\ h \in 0 .. cap /\ size + h <= 2 * cap /\ size + h \in 0 .. cap
        BY <1>1, <1>2
    <2>2. Add(At(first, size, cap), h, cap) = At(first, size + h, cap)
        BY <1>1, <2>1, AddToAt
    <2>3. Add(first, size + h, cap) = At(first, size + h, cap)
        <3> DEFINE z == size + h
        <3>1. z \in 0 .. 2 * cap - 1 /\ z <= cap
            BY <1>1, <2>1
        <3> HIDE DEF z
        <3>2. Add(first, z, cap) = At(first, z, cap)
            BY <1>1, <3>1, AtIsAdd
        <3> QED
            BY <3>2 DEF z
    <2> QED
        BY <1>1, <2>2, <2>3
<1>4. ASSUME NEW q \in Slots(cap)
      PROVE  mem[q] # Raw <=> q \in Window(first, size + h, cap)
    <2>1. mem[q] # Raw <=> q \in Window(first, size, cap) \/ \E w \in W : q = At(Base, w, cap)
        BY DEF Front, LiveWith, W
    <2> DEFINE x == Index(q, first, cap)
    <2>2. x \in 0 .. cap - 1
        BY <1>1, IndexInRing
    <2>3. /\ q \in Window(first, size, cap) <=> x < size
          /\ q \in Window(first, size + h, cap) <=> x < size + h
        BY DEF Window
    <2>a. ASSUME NEW w \in 0 .. n - 1
          PROVE  Index(At(Base, w, cap), first, cap) = (w - n) + cap /\ At(Base, w, cap) \in Slots(cap)
        <3>1. w \in 0 .. 2 * cap - 1 /\ n \in 0 .. cap /\ w < n
            BY <1>1
        <3>2. Index(At(Base, w, cap), At(Base, n, cap), cap) = (w - n) + cap
            BY <1>1, <3>1, AtIndex
        <3> QED
            BY <1>1, <3>1, <3>2, AtIsAdd
    <2>4. ASSUME NEW w \in W, q = At(Base, w, cap)
          PROVE  x < size + h
        <3>1. w \in 0 .. n - 1 /\ w < i
            BY <1>1, <1>2
        <3>2. x = (w - n) + cap
            BY <2>4, <2>a, <3>1
        <3> QED
            BY <1>1, <1>2, <3>1, <3>2
    <2>5. ASSUME x >= size, x < size + h
          PROVE  \E w \in W : q = At(Base, w, cap)
        <3> DEFINE w == (x + n) - cap
        <3>1. w \in W /\ w \in 0 .. n - 1 /\ (w - n) + cap = x
            BY <1>1, <1>2, <2>2, <2>5
        <3> HIDE DEF w
        <3>2. Index(At(Base, w, cap), first, cap) = x /\ At(Base, w, cap) \in Slots(cap)
            BY <2>a, <3>1
        <3>3. q = At(Base, w, cap)
            BY <1>1, <3>2, SameSlot
        <3> QED
            BY <3>1, <3>3
    <2> HIDE DEF x
    <2> QED
        BY <1>1, <1>2, <2>1, <2>2, <2>3, <2>4, <2>5
<1>5. size + h \in 0 .. cap
    BY <1>1, <1>2
<1> QED
    BY <1>3, <1>4, <1>5

\* The other two handlers destroy what they walk over and find constructed,
\* which leaves the window.
LEMMA Undone ==
    ASSUME TypeInv, Asked, Prepared, GapIsKnown, Shifts, ~fault,
           NEW W, W \subseteq IF op = "insert" THEN at .. size + n - 1 ELSE 0 .. at + n - 1,
           LiveWith(mem, W),
           NEW walked, walked = {At(Base, j, cap) : j \in W},
           DestroyConstructed(walked)
    PROVE  /\ ~fault'
           /\ mem' \in [Slots(cap) -> Nat]
           /\ \A q \in Slots(cap) : mem'[q] # Raw <=> q \in Window(first, size, cap)
<1> DEFINE gone == {q \in walked : is_uninitialized(q)}
<1>1. ASSUME NEW q \in walked
      PROVE  /\ q \in Slots(cap) /\ mem[q] # Raw
             /\ is_uninitialized(q) <=> q \notin Window(first, size, cap)
    <2>1. PICK j \in W : q = At(Base, j, cap)
        OBVIOUS
    <2>2. is_uninitialized(q) <=> q \notin Window(first, size, cap)
        BY <2>1, AsksRight
    <2>3. cap \in Nat \ {0} /\ j \in 0 .. 2 * cap - 1 /\ Base \in Slots(cap)
        <3>1. /\ cap \in Nat \ {0} /\ size \in 0 .. cap /\ at \in 0 .. size /\ n \in 1 .. cap
              /\ op = "insert" => n + (size - at) <= cap
              /\ op = "rinsert" => n + at <= cap
            BY Numbers
        <3>2. op \in {"insert", "rinsert"}
            BY DEF TypeInv
        <3> QED
            BY <2>1, <3>1, <3>2, BaseFacts
    <2>4. q \in Slots(cap)
        BY <2>1, <2>3, AtIsAdd
    <2> QED
        BY <2>1, <2>2, <2>4 DEF LiveWith
<1>2. gone \subseteq Slots(cap) /\ \A q \in gone : mem[q] # Raw /\ q \notin Window(first, size, cap)
    BY <1>1
<1>3. /\ mem' = [q \in Slots(cap) |-> IF q \in gone THEN Raw ELSE mem[q]]
      /\ fault' = (fault \/ \E q \in gone : mem[q] = Raw)
    BY DEF DestroyConstructed
<1>4. ASSUME NEW q \in Slots(cap)
      PROVE  mem[q] # Raw <=> q \in Window(first, size, cap) \/ q \in walked
    BY DEF LiveWith
<1>5. \A q \in walked : q \in gone <=> q \notin Window(first, size, cap)
    BY <1>1
<1>6. gone \subseteq walked
    OBVIOUS
<1> HIDE DEF gone
<1>7. ~fault'
    BY <1>2, <1>3, Zenon
<1>8. mem' \in [Slots(cap) -> Nat]
    BY <1>3 DEF TypeInv, Raw
<1>9. \A q \in Slots(cap) : mem'[q] # Raw <=> q \in Window(first, size, cap)
    BY <1>2, <1>3, <1>4, <1>5, <1>6
<1> QED
    BY <1>7, <1>8, <1>9

-----------------------------------------------------------------------------
(* What the call promises.                                                 *)

Expected ==
    LET all == Unbounded
        len == Lesser(Len(all), cap)
    IN  IF op = "insert" THEN SubSeq(all, Len(all) - len + 1, Len(all)) ELSE SubSeq(all, 1, len)

LEMMA UnboundedFacts ==
    ASSUME TypeInv
    PROVE  /\ Len(Unbounded) = count + items
           /\ \A k \in 1 .. count + items :
                 Unbounded[k] = IF k <= at THEN k
                                ELSE IF k <= at + items THEN MaxCapacity + (k - at) ELSE k - items
<1> DEFINE a == [k \in 1 .. at |-> k]
           b == [k \in 1 .. items |-> MaxCapacity + k]
           c == [k \in 1 .. count - at |-> at + k]
<1>1. at \in Nat /\ items \in Nat /\ count \in Nat /\ count - at \in Nat /\ MaxCapacity \in Nat
    <2>1. MaxCapacity \in Nat
        BY BulkAssumption
    <2>2. at \in 0 .. count /\ items \in Nat /\ count \in Nat
        BY DEF TypeInv
    <2> QED
        BY <2>1, <2>2
<1>2. a \in [1 .. at -> Nat] /\ b \in [1 .. items -> Nat] /\ c \in [1 .. count - at -> Nat]
    BY <1>1
<1>3. /\ a \in Seq(Nat) /\ Len(a) = at /\ b \in Seq(Nat) /\ Len(b) = items
      /\ c \in Seq(Nat) /\ Len(c) = count - at
    BY <1>1, <1>2, SeqDef
<1>4. /\ \A k \in 1 .. at : a[k] = k
      /\ \A k \in 1 .. items : b[k] = MaxCapacity + k
      /\ \A k \in 1 .. count - at : c[k] = at + k
    OBVIOUS
<1>5. Unbounded = (a \o b) \o c
    BY DEF Unbounded
<1> HIDE DEF a, b, c
<1>6. /\ a \o b \in Seq(Nat) /\ Len(a \o b) = at + items
      /\ \A k \in 1 .. at + items : (a \o b)[k] = IF k <= at THEN a[k] ELSE b[k - at]
    BY <1>3, ConcatProperties
<1> DEFINE ab == a \o b
<1> HIDE DEF ab
<1>7. ab \in Seq(Nat) /\ Len(ab) = at + items
    BY <1>6 DEF ab
<1>8. /\ Len(ab \o c) = (at + items) + (count - at)
      /\ \A k \in 1 .. (at + items) + (count - at) :
            (ab \o c)[k] = IF k <= at + items THEN ab[k] ELSE c[k - (at + items)]
    <2>1. /\ Len(ab \o c) = Len(ab) + Len(c)
          /\ \A k \in 1 .. Len(ab) + Len(c) :
                (ab \o c)[k] = IF k <= Len(ab) THEN ab[k] ELSE c[k - Len(ab)]
        <3>1. ab \in Seq(Nat) /\ c \in Seq(Nat)
            BY <1>3, <1>7
        <3> QED
            BY <3>1, ConcatProperties, Zenon
    <2> QED
        BY <1>3, <1>7, <2>1
<1>9. (at + items) + (count - at) = count + items
    BY <1>1
<1>10. ASSUME NEW k \in 1 .. count + items
       PROVE  Unbounded[k] = IF k <= at THEN k
                             ELSE IF k <= at + items THEN MaxCapacity + (k - at) ELSE k - items
    <2>1. Unbounded[k] = IF k <= at + items THEN ab[k] ELSE c[k - (at + items)]
        BY <1>5, <1>8, <1>9 DEF ab
    <2>2. CASE k <= at
        BY <1>1, <1>4, <1>6, <2>1, <2>2 DEF ab
    <2>3. CASE k > at /\ k <= at + items
        <3>1. k - at \in 1 .. items /\ k \in 1 .. at + items
            BY <1>1, <2>3
        <3> QED
            BY <1>1, <1>4, <1>6, <2>1, <2>3, <3>1 DEF ab
    <2>4. CASE k > at + items
        <3>1. k - (at + items) \in 1 .. count - at /\ at + (k - (at + items)) = k - items
            BY <1>1, <2>4
        <3> QED
            BY <1>1, <1>4, <2>1, <2>4, <3>1
    <2> QED
        BY <1>1, <2>2, <2>3, <2>4
<1> QED
    BY <1>5, <1>8, <1>9, <1>10 DEF ab

\* A sequence is part of another one if it has its elements.
LEMMA PartOf ==
    ASSUME NEW s, NEW z \in Nat, NEW m \in Int, NEW l \in Int, l - m + 1 = z,
           NEW t \in [1 .. z -> Nat], \A i \in 1 .. z : t[i] = s[m + i - 1]
    PROVE  t = SubSeq(s, m, l)
<1>1. ASSUME NEW i \in m .. l PROVE s[i] \in Nat
    <2>1. i - m + 1 \in 1 .. z /\ m + (i - m + 1) - 1 = i
        OBVIOUS
    <2> QED
        BY <2>1
<1>2. /\ SubSeq(s, m, l) \in Seq(Nat) /\ Len(SubSeq(s, m, l)) = IF m <= l THEN l - m + 1 ELSE 0
      /\ \A i \in 1 .. l - m + 1 : SubSeq(s, m, l)[i] = s[m + i - 1]
    BY <1>1, SubSeqProperties
<1>3. t \in Seq(Nat) /\ Len(t) = z
    BY SeqDef
<1>4. Len(SubSeq(s, m, l)) = z
    BY <1>2
<1>5. \A i \in 1 .. z : t[i] = SubSeq(s, m, l)[i]
    BY <1>2
<1> QED
    BY <1>2, <1>3, <1>4, <1>5, SeqEqual

\* Nothing is inserted: the range is empty, or the buffer is full and all its
\* elements are kept.
LEMMA KeptAsItWas ==
    ASSUME TypeInv, Asked, Fitting = 0,
           NEW C \in [1 .. size -> Nat], \A i \in 1 .. size : C[i] = i
    PROVE  C = Expected
<1> DEFINE m == IF op = "insert" THEN (count + items) - size + 1 ELSE 1
           l == IF op = "insert" THEN count + items ELSE size
<1>1. /\ cap \in Nat /\ size \in 0 .. cap /\ count = size /\ items \in Nat /\ at \in 0 .. size
      /\ op \in {"insert", "rinsert"}
    BY DEF TypeInv, Asked
<1>2. items = 0 \/ (size = cap /\ at = IF op = "insert" THEN 0 ELSE size)
    BY <1>1 DEF Fitting, Lesser
<1>3. Lesser(count + items, cap) = size
    BY <1>1, <1>2 DEF Lesser
<1>4. Expected = SubSeq(Unbounded, m, l)
    BY <1>1, <1>3, UnboundedFacts DEF Expected
<1>5. ASSUME NEW i \in 1 .. size
      PROVE  C[i] = Unbounded[m + i - 1]
    <2>1. m + i - 1 \in 1 .. count + items
        BY <1>1, <1>2
    <2>2. Unbounded[m + i - 1] = i
        <3> DEFINE k == m + i - 1
        <3>1. k = IF op = "insert" THEN items + i ELSE i
            BY <1>1
        <3> HIDE DEF k
        <3>2. Unbounded[k] = IF k <= at THEN k
                             ELSE IF k <= at + items THEN MaxCapacity + (k - at) ELSE k - items
            BY <2>1, UnboundedFacts DEF k
        <3>3. Unbounded[k] = i
            BY <1>1, <1>2, <3>1, <3>2
        <3> QED
            BY <3>3 DEF k
    <2> QED
        BY <2>2
<1>6. m \in Int /\ l \in Int /\ l - m + 1 = size /\ size \in Nat
    BY <1>1
<1> HIDE DEF m, l
<1> QED
    BY <1>4, <1>5, <1>6, PartOf

\* The sequence without the elements and the items that there is no room for.
LEMMA KeptOfTheSequence ==
    ASSUME TypeInv, Asked, Prepared,
           NEW s, s = IF op = "insert" THEN n - construct ELSE 0,
           NEW C \in [1 .. size + construct -> Nat],
           \A i \in 1 .. size + construct : C[i] = Want(s + i - 1)
    PROVE  C = Expected
<1> DEFINE z == size + construct
           d == IF op = "insert" THEN items - construct ELSE 0
           m == d + 1
           l == d + z
<1>1. /\ cap \in Nat /\ size \in 0 .. cap /\ count = size /\ items \in Nat /\ at \in 0 .. size
      /\ n \in 1 .. cap /\ n <= items /\ construct \in 0 .. n /\ construct <= cap - size
      /\ op \in {"insert", "rinsert"}
      /\ op = "insert" => n - construct <= at /\ (n < items => n - construct = at)
      /\ op = "rinsert" => n + at <= cap
    BY Numbers DEF TypeInv, Asked
<1>2. Lesser(count + items, cap) = z /\ (op = "rinsert" => n = items \/ z <= at + n)
    BY <1>1 DEF Lesser, Prepared, Fitting
<1>3. Expected = SubSeq(Unbounded, m, l)
    <2>1. (count + items) - z + 1 = items - construct + 1 /\ items - construct + z = count + items
        BY <1>1
    <2>2. Len(Unbounded) = count + items
        BY UnboundedFacts
    <2>3. CASE op = "insert"
        BY <1>2, <2>1, <2>2, <2>3 DEF Expected
    <2>4. CASE op = "rinsert"
        <3>1. m = 1 /\ l = z /\ op # "insert"
            BY <1>1, <2>4
        <3> QED
            BY <1>2, <2>2, <3>1 DEF Expected
    <2> QED
        BY <1>1, <2>3, <2>4
<1>4. ASSUME NEW i \in 1 .. z
      PROVE  C[i] = Unbounded[m + i - 1]
    <2> DEFINE k == d + i
    <2>1. m + i - 1 = k /\ k \in 1 .. count + items
        BY <1>1
    <2>2. k = IF op = "insert" THEN (items - construct) + i ELSE i
        BY <1>1
    <2> HIDE DEF k
    <2>3. Unbounded[k] = IF k <= at THEN k
                         ELSE IF k <= at + items THEN MaxCapacity + (k - at) ELSE k - items
        BY <2>1, UnboundedFacts
    <2>4. C[i] = Want(s + i - 1)
        OBVIOUS
    <2>5. MaxCapacity \in Nat
        BY BulkAssumption
    <2>6. CASE op = "insert"
        BY <1>1, <2>2, <2>3, <2>4, <2>5, <2>6 DEF Want
    <2>7. CASE op = "rinsert"
        <3>1. s = 0 /\ k = i /\ op # "insert" /\ n \in Nat /\ at \in Nat /\ items \in Nat /\ n <= items
            BY <1>1, <2>2, <2>7
        <3>2. C[i] = IF k <= at THEN k ELSE IF k <= at + n THEN MaxCapacity + (k - at) ELSE k - n
            BY <2>4, <2>5, <3>1 DEF Want
        <3>3. k \in 1 .. z /\ (n = items \/ k <= at + n)
            BY <1>1, <1>2, <2>7, <3>1
        <3> HIDE DEF z
        <3> QED
            BY <2>1, <2>3, <3>1, <3>2, <3>3
    <2> QED
        BY <1>1, <2>1, <2>6, <2>7
<1>5. m \in Int /\ l \in Int /\ l - m + 1 = z /\ z \in Nat
    BY <1>1
<1> HIDE DEF m, l
<1> QED
    BY <1>3, <1>4, <1>5, PartOf

-----------------------------------------------------------------------------
(* The invariant is kept: first what many actions have in common.          *)

\* A loop goes on.
LEMMA GoesOn ==
    ASSUME IInv, Running, pc' = pc, UNCHANGED <<buffer, params>>,
           mem' \in [Slots(cap) -> Nat], ~fault',
           pc = "end" => Appending', pc = "shift" => Shifting',
           pc = "begin" => Prepending', pc = "rshift" => RShifting'
    PROVE  IInv'
<1>1. /\ UNCHANGED <<cap, first, last, size, op, at, items, pos, count, n, construct>>
      /\ TypeInv /\ Asked /\ GapIsKnown /\ Prepared
    BY DEF IInv, buffer, params, args
<1>2. TypeInv'
    BY <1>1 DEF TypeInv
<1>3. Asked' /\ Prepared'
    BY <1>1 DEF Asked, Prepared, Fitting
<1>4. GapIsKnown'
    BY <1>1 DEF GapIsKnown, Shifts, Gap, Fitting, is_uninitialized
<1>5. KeepsCapacityElements' /\ LiveIsWindow'
    BY DEF KeepsCapacityElements, LiveIsWindow, Ended, Running
<1> QED
    BY <1>2, <1>3, <1>4, <1>5 DEF IInv, Running

\* The call ends, and what the members say of the memory is so.
LEMMA Ends ==
    ASSUME IInv, pc' \in {"done", "threw"}, UNCHANGED <<cap, op, at, items, count>>,
           mem' \in [Slots(cap) -> Nat], ~fault',
           last' = Add(first', size', cap),
           \A q \in Slots(cap) : mem'[q] # Raw <=> q \in Window(first', size', cap),
           pc' = "done" => [k \in 1 .. size' |-> mem'[Add(first', k - 1, cap)]] = Expected
    PROVE  IInv'
<1>1. TypeInv'
    BY DEF IInv, TypeInv
<1>2. Live' = Window(first', size', cap)
    BY DEF Live, Window
<1>3. LiveIsWindow'
    BY <1>2 DEF LiveIsWindow, Window, Index, Slots
<1>4. KeepsCapacityElements'
    BY DEF KeepsCapacityElements, Contents, Expected, Unbounded
<1> QED
    BY <1>1, <1>3, <1>4 DEF IInv, Running

\* A loop has ended and the members are adopted.
LEMMA Done ==
    ASSUME IInv, Running, pc' = "done", UNCHANGED <<cap, mem, params, fault>>,
           NEW s, s = IF op = "insert" THEN n - construct ELSE 0,
           size' = size + construct, Adopted(first', last', size', s)
    PROVE  IInv'
<1> DEFINE C == [k \in 1 .. size' |-> mem[Add(first', k - 1, cap)]]
<1>1. /\ UNCHANGED <<op, at, items, count>> /\ TypeInv /\ Asked /\ Prepared /\ ~fault'
    BY DEF IInv, params, args
<1>2. /\ mem \in [Slots(cap) -> Nat] /\ first' \in Slots(cap) /\ size' \in 0 .. cap
      /\ last' = Add(first', size', cap)
      /\ \A q \in Slots(cap) : mem[q] # Raw <=> q \in Window(first', size', cap)
      /\ \A i \in 1 .. size' : mem[Add(first', i - 1, cap)] = Want(s + i - 1)
    BY <1>1 DEF Adopted, TypeInv
<1>3. ASSUME NEW k \in 1 .. size' PROVE Add(first', k - 1, cap) \in Slots(cap)
    <2>1. cap \in Nat
        BY <1>1 DEF TypeInv
    <2>2. cap \in Nat \ {0} /\ k - 1 \in 0 .. cap /\ first' \in Slots(cap)
        BY <1>2, <2>1
    <2> QED
        BY <2>2, AddInRing
<1>4. C \in [1 .. size + construct -> Nat] /\ \A i \in 1 .. size + construct : C[i] = Want(s + i - 1)
    BY <1>2, <1>3
<1> HIDE DEF C
<1>5. C = Expected
    BY <1>1, <1>4, KeptOfTheSequence
<1>6. [k \in 1 .. size' |-> mem'[Add(first', k - 1, cap)]] = Expected
    BY <1>5 DEF C
<1> QED
    BY <1>1, <1>2, <1>6, Ends

\* The elements of an untouched buffer, in order.
LEMMA UntouchedFacts ==
    ASSUME TypeInv, Asked, Untouched
    PROVE  /\ \A q \in Slots(cap) : mem[q] # Raw <=> q \in Window(first, size, cap)
           /\ \A k \in 0 .. size - 1 : /\ Add(first, k, cap) \in Slots(cap)
                                       /\ mem[Add(first, k, cap)] = k + 1
<1>1. cap \in Nat /\ first \in Pointers(cap) /\ size \in 0 .. cap
    BY DEF TypeInv, Asked
<1>2. ASSUME NEW q \in Slots(cap) PROVE mem[q] # Raw <=> q \in Window(first, size, cap)
    <2>1. Index(q, first, cap) \in Nat
        BY <1>1 DEF Index, Slots, Pointers
    <2>2. mem[q] = IF Index(q, first, cap) < size THEN Index(q, first, cap) + 1 ELSE Raw
        BY DEF Untouched
    <2> QED
        BY <2>1, <2>2 DEF Window, Raw
<1>3. ASSUME NEW k \in 0 .. size - 1
      PROVE  Add(first, k, cap) \in Slots(cap) /\ mem[Add(first, k, cap)] = k + 1
    <2>1. Add(first, k, cap) \in Slots(cap) /\ Index(Add(first, k, cap), first, cap) = k
        BY <1>1 DEF Add, Index, Slots, Pointers
    <2>2. mem[Add(first, k, cap)] =
             IF Index(Add(first, k, cap), first, cap) < size THEN Index(Add(first, k, cap), first, cap) + 1 ELSE Raw
        BY <2>1 DEF Untouched
    <2>3. k < size
        BY <1>1
    <2> QED
        BY <2>1, <2>2, <2>3
<1> QED
    BY <1>2, <1>3

\* There is nothing to insert.
LEMMA NothingToDo ==
    ASSUME IInv, pc = "call", Fitting = 0, pc' = "done", UNCHANGED <<buffer, mem, args, fault>>
    PROVE  IInv'
<1> DEFINE C == [k \in 1 .. size |-> mem[Add(first, k - 1, cap)]]
<1>1. /\ UNCHANGED <<cap, first, last, size, mem, op, at, items, count>>
      /\ TypeInv /\ Asked /\ Untouched /\ ~fault'
    BY DEF IInv, buffer, args
<1>2. /\ \A q \in Slots(cap) : mem[q] # Raw <=> q \in Window(first, size, cap)
      /\ \A k \in 0 .. size - 1 : mem[Add(first, k, cap)] = k + 1
      /\ mem \in [Slots(cap) -> Nat] /\ size \in Nat /\ last = Add(first, size, cap)
    BY <1>1, UntouchedFacts DEF TypeInv, Asked
<1>3. C \in [1 .. size -> Nat] /\ \A i \in 1 .. size : C[i] = i
    <2>1. ASSUME NEW i \in 1 .. size PROVE C[i] = i
        <3>1. i - 1 \in 0 .. size - 1 /\ (i - 1) + 1 = i
            BY <1>2
        <3>2. mem[Add(first, i - 1, cap)] = (i - 1) + 1
            BY <1>2, <3>1
        <3> QED
            BY <3>1, <3>2
    <2> QED
        BY <2>1
<1> HIDE DEF C
<1>4. C = Expected
    BY <1>1, <1>3, KeptAsItWas
<1>5. [k \in 1 .. size' |-> mem'[Add(first', k - 1, cap)]] = Expected
    BY <1>1, <1>4 DEF C
<1> QED
    BY <1>1, <1>2, <1>5, Ends

-----------------------------------------------------------------------------
(* One lemma per action.                                                   *)

LEMMA InitIInv ==
    ASSUME NoDefects, Init
    PROVE  IInv
<1>1. /\ cap \in Nat /\ size \in 0 .. cap /\ first \in Pointers(cap) /\ last = Add(first, size, cap)
      /\ at \in 0 .. size /\ items \in Nat /\ count = size /\ op \in {"insert", "rinsert"} /\ pc = "call"
    <2>1. MaxCapacity \in Nat /\ MaxItems \in Nat
        BY BulkAssumption
    <2>2. /\ cap \in 0 .. MaxCapacity /\ items \in 0 .. MaxItems /\ first \in Pointers(cap)
          /\ size \in 0 .. cap /\ last = Add(first, size, cap) /\ at \in 0 .. size /\ count = size
        BY DEF Init, Pointers
    <2>3. op \in {"insert", "rinsert"} /\ pc = "call"
        BY DEF Init
    <2> QED
        BY <2>1, <2>2, <2>3
<1>2. mem \in [Slots(cap) -> Nat]
    <2>1. mem = [q \in Slots(cap) |->
                   IF Index(q, first, cap) < size THEN Index(q, first, cap) + 1 ELSE Raw]
        BY DEF Init
    <2>2. ASSUME NEW q \in Slots(cap) PROVE Index(q, first, cap) + 1 \in Nat
        BY <1>1 DEF Index, Slots, Pointers
    <2> QED
        BY <2>1, <2>2 DEF Raw
<1>3. TypeInv
    BY <1>1, <1>2 DEF TypeInv
<1>4. Asked
    BY <1>1 DEF Init, Asked
<1>5. GapIsKnown
    BY DEF Init, GapIsKnown, NoDefects
<1>6. Untouched
    BY DEF Init, Untouched
<1> QED
    BY <1>1, <1>3, <1>4, <1>5, <1>6 DEF Init, IInv, Running, KeepsCapacityElements, LiveIsWindow, Ended

\* The prologues find room for n items, and no loop has run.
LEMMA Begins ==
    ASSUME IInv, pc = "call", Prologue, n' > 0, UNCHANGED <<buffer, mem, args, fault>>
    PROVE  /\ TypeInv /\ Asked /\ cap > 0 /\ ~fault' /\ ii = 0 /\ drawn = 0
           /\ UNCHANGED <<cap, first, last, size, mem, op, at, items, pos, count, fault>>
           /\ Asked' /\ GapIsKnown' /\ Prepared'
           /\ pc' \in {"end", "shift", "begin", "rshift"} => TypeInv'
           /\ LiveWith(mem, {})'
           /\ op = "insert" => Back(mem, 0, 0)'
           /\ op = "rinsert" => Front(mem, 0, 0)'
<1>1. /\ UNCHANGED <<cap, first, last, size, mem, op, at, items, pos, count, fault>>
      /\ TypeInv /\ Asked /\ GapIsKnown /\ Untouched /\ ~fault
    BY DEF IInv, buffer, args
<1>2. n' = Fitting /\ construct' = Lesser(cap - size, Fitting)
    BY DEF Prologue
<1>3. /\ cap \in Nat /\ size \in 0 .. cap /\ first \in Pointers(cap) /\ items \in Nat /\ at \in 0 .. size
      /\ op \in {"insert", "rinsert"}
    BY <1>1 DEF TypeInv, Asked
<1>4. cap > 0
    BY <1>2, <1>3 DEF Fitting, Lesser
<1>5. Asked' /\ GapIsKnown' /\ Prepared'
    BY <1>1, <1>2, <1>4 DEF Asked, GapIsKnown, Shifts, Gap, Fitting, is_uninitialized, Prepared, Lesser
<1>6. pc' \in {"end", "shift", "begin", "rshift"} => TypeInv'
    BY <1>1 DEF TypeInv
<1>7. /\ \A q \in Slots(cap) : mem[q] # Raw <=> q \in Window(first, size, cap)
      /\ \A k \in 0 .. size - 1 : mem[Add(first, k, cap)] = k + 1
    BY <1>1, UntouchedFacts
<1>8. LiveWith(mem, {})'
    BY <1>1, <1>7 DEF LiveWith
<1>9. ASSUME op = "insert" PROVE Back(mem, 0, 0)'
    <2>1. BackW(0, 0)' = {}
        BY <1>1, <1>2, <1>3 DEF BackW, Fitting, Lesser
    <2>2. Held(mem, BackW(0, 0))' /\ LiveWith(mem, BackW(0, 0))'
        BY <1>8, <2>1 DEF Held, LiveWith
    <2>3. n' - construct' \in Nat
        BY <1>2, <1>3 DEF Fitting, Lesser
    <2>4. Original(mem, n - construct .. size - 0 - 1)'
        BY <1>1, <1>3, <1>7, <2>3 DEF Original
    <2>5. (0 \in 0 .. size - at /\ 0 \in 0 .. n)'
        BY <1>1, <1>2, <1>3 DEF Fitting, Lesser
    <2> QED
        BY <2>2, <2>4, <2>5 DEF Back
<1>10. ASSUME op = "rinsert" PROVE Front(mem, 0, 0)'
    <2>1. FrontW(0, 0)' = {}
        BY DEF FrontW
    <2>2. Held(mem, FrontW(0, 0))' /\ LiveWith(mem, FrontW(0, 0))'
        BY <1>8, <2>1 DEF Held, LiveWith
    <2>4. Original(mem, {k \in 0 .. size - 1 : k + n < cap})'
        BY <1>1, <1>3, <1>7 DEF Original
    <2>5. (0 \in 0 .. at /\ 0 \in 0 .. n)'
        BY <1>1, <1>2, <1>3 DEF Fitting, Lesser
    <2> QED
        BY <2>2, <2>4, <2>5 DEF Front
<1> QED
    BY <1>1, <1>4, <1>5, <1>6, <1>8, <1>9, <1>10 DEF Untouched

LEMMA InsertIInv ==
    ASSUME IInv, Insert
    PROVE  IInv'
<1>1. pc = "call" /\ op = "insert" /\ Prologue /\ UNCHANGED <<buffer, mem, args, ii, fault>>
    BY DEF Insert
<1>2. CASE n' = 0
    <2>1. pc' = "done"
        BY <1>2 DEF Insert
    <2>2. Fitting = 0
        BY <1>1, <1>2 DEF Prologue
    <2> QED
        BY <1>1, <2>1, <2>2, NothingToDo
<1>3. CASE n' > 0
    <2>1. /\ TypeInv /\ Asked /\ cap > 0 /\ ~fault' /\ ii = 0
          /\ UNCHANGED <<cap, first, last, size, mem, op, at, items, pos, count, fault>>
          /\ Asked' /\ GapIsKnown' /\ Prepared' /\ Back(mem, 0, 0)' /\ ii' = 0
          /\ pc' \in {"end", "shift", "begin", "rshift"} => TypeInv'
        BY <1>1, <1>3, Begins
    <2>2. drawn' = items - n'
        BY <1>3 DEF Insert
    <2>3. /\ cap \in Nat \ {0} /\ first \in Slots(cap) /\ size \in 0 .. cap /\ at \in 0 .. size
          /\ last = Add(first, size, cap) /\ pos = IF at = size THEN NULL ELSE Add(first, at, cap)
          /\ items \in Nat
        BY <2>1 DEF TypeInv, Asked, Pointers
    <2>4. Base' = first
        BY <1>1, <2>1 DEF Base
    <2>5. n' \in 1 .. cap /\ n' + (size - at) <= cap
        BY <1>1, <1>3, <2>3 DEF Prologue, Fitting, Lesser
    <2>6. Add(first, size, cap) = At(first, size, cap) /\ Add(first, at, cap) = At(first, at, cap)
        BY <2>3, AtIsAdd
    <2>7. pos = NULL <=> at = size
        <3>1. Add(first, at, cap) # NULL
            <4>1. At(first, at, cap) \in Slots(cap)
                BY <2>3, AtIsAdd
            <4> QED
                BY <2>3, <2>6, <4>1 DEF Slots, NULL
        <3> QED
            BY <2>3, <3>1
    <2>8. CASE pos = NULL
        <3>1. pc' = "end" /\ p' = last
            BY <1>3, <2>8 DEF Insert
        <3>2. at = size /\ p' = At(first, size, cap)
            BY <2>3, <2>6, <2>7, <2>8, <3>1
        <3>3. p' = At(Base', size' + ii', cap') /\ drawn' = (items' - n') + ii'
            BY <2>1, <2>2, <2>3, <2>4, <2>5, <3>2
        <3>4. Back(mem, 0, ii)'
            BY <2>1 DEF Back
        <3>5. Appending'
            BY <1>1, <2>1, <3>2, <3>3, <3>4 DEF Appending
        <3> QED
            BY <2>1, <3>1, <3>5 DEF IInv, KeepsCapacityElements, LiveIsWindow, Ended
    <2>9. CASE pos # NULL
        <3>1. pc' = "shift" /\ src' = last /\ dest' = Add(last, n' - 1, cap) /\ p' = pos
            BY <1>3, <2>9 DEF Insert
        <3>2. at < size /\ p' = At(first, at, cap) /\ src' = At(first, size, cap)
            BY <2>3, <2>6, <2>7, <2>9, <3>1
        <3>3. dest' = At(first, size + (n' - 1), cap)
            <4>0. cap \in Nat /\ n' \in 1 .. cap /\ size \in 0 .. cap
                BY <2>3, <2>5
            <4>1. size \in 0 .. 2 * cap /\ n' - 1 \in 0 .. cap /\ size + (n' - 1) <= 2 * cap
                BY <4>0, LastOfRange
            <4>2. Add(At(first, size, cap), n' - 1, cap) = At(first, size + (n' - 1), cap)
                BY <2>3, <4>1, AddToAt
            <4> QED
                BY <2>3, <2>6, <3>1, <4>2
        <3>4. /\ size' - 0 = size /\ at' + ii' = at /\ (size' + n' - 1) - 0 = size + (n' - 1)
              /\ drawn' = (items' - n') + ii'
            BY <2>1, <2>2, <2>3, <2>5
        <3>5. ShiftingBack(0)'
            BY <2>1, <2>4, <3>2, <3>3, <3>4 DEF ShiftingBack, Back
        <3>6. (0 \in 0 .. size - at)'
            BY <2>1, <2>3
        <3>7. Shifting'
            BY <1>1, <2>1, <3>2, <3>5, <3>6 DEF Shifting
        <3> QED
            BY <2>1, <3>1, <3>7 DEF IInv, KeepsCapacityElements, LiveIsWindow, Ended
    <2> QED
        BY <2>8, <2>9
<1>4. n' \in Nat
    <2>1. TypeInv /\ Asked
        BY <1>1 DEF IInv
    <2> QED
        BY <1>1, <2>1 DEF TypeInv, Asked, Prologue, Fitting, Lesser
<1> QED
    BY <1>2, <1>3, <1>4

LEMMA AppendItemIInv ==
    ASSUME IInv, AppendItem
    PROVE  IInv'
<1>1. /\ pc = "end" /\ ii < n /\ Write(ii < construct, p, Item) /\ p' = Increment(p, cap)
      /\ ii' = ii + 1 /\ drawn' = drawn + 1 /\ UNCHANGED <<buffer, pc, params, src, dest>>
    BY DEF AppendItem
<1>2. TypeInv /\ Asked /\ Prepared /\ Appending /\ Running /\ ~fault
    BY <1>1 DEF IInv, Running
<1>3. /\ cap \in Nat \ {0} /\ size \in 0 .. cap /\ at = size /\ op = "insert" /\ n \in 1 .. cap /\ n <= items
      /\ items \in Nat /\ ii \in 0 .. n - 1 /\ Base \in Slots(cap) /\ size - at = 0
      /\ p = At(Base, at + ii, cap) /\ drawn = (items - n) + ii /\ Back(mem, size - at, ii)
    <2>1. /\ cap \in Nat \ {0} /\ size \in 0 .. cap /\ n \in 1 .. cap /\ n <= items
          /\ items \in Nat /\ Base \in Slots(cap)
        BY <1>2, Numbers, BaseFacts
    <2>2. /\ at = size /\ op = "insert" /\ Back(mem, 0, ii) /\ p = At(Base, size + ii, cap)
          /\ drawn = (items - n) + ii
        BY <1>2 DEF Appending
    <2>3. ii \in 0 .. n
        BY <2>2 DEF Back
    <2> QED
        BY <1>1, <2>1, <2>2, <2>3
<1>4. Item = Want(at + ii) /\ Want(at + ii) # Raw
    <2>0. MaxCapacity \in Nat
        BY BulkAssumption
    <2>1. at + ii \in Nat /\ MaxCapacity \in Nat
        BY <1>3, <2>0
    <2>2. Item = Want(at + ii)
        BY <1>3, <2>1 DEF Item, Want
    <2> QED
        BY <1>2, <2>1, <2>2, WantIsItem
<1>5. mem' = [mem EXCEPT ![At(Base, at + ii, cap)] = Want(at + ii)]
    BY <1>1, <1>3, <1>4 DEF Write
<1>6. Writes(mem', at + ii) /\ Back(mem', size - at, ii + 1)
    BY <1>2, <1>3, <1>5, BackFills
<1>7. ~fault'
    <2>1. ii < construct <=> mem[p] = Raw
        BY <1>2, <1>3, <1>6, AppendsRight DEF Writes
    <2>2. fault' = (fault \/ (ii < construct) # (mem[p] = Raw) \/ Item = Raw)
        BY <1>1 DEF Write
    <2>3. (ii < construct) = (mem[p] = Raw)
        BY <2>1
    <2> QED
        BY <1>2, <1>4, <2>2, <2>3, Zenon
<1>8. p' = At(Base, at + (ii + 1), cap)
    <2> DEFINE j == at + ii
    <2>1. j \in 0 .. 2 * cap - 1 /\ at + (ii + 1) = j + 1
        BY <1>3
    <2> HIDE DEF j
    <2>2. Increment(At(Base, j, cap), cap) = At(Base, j + 1, cap)
        BY <1>3, <2>1, AtIsAdd
    <2> QED
        BY <1>1, <1>3, <2>1, <2>2 DEF j
<1>9. drawn' = (items - n) + (ii + 1)
    BY <1>1, <1>3
<1>10. Back(mem', 0, ii + 1)
    BY <1>3, <1>6
<1>11. UNCHANGED <<cap, first, last, size, op, at, items, n, construct>>
    BY <1>1 DEF buffer, params, args
<1>12. Back(mem, 0, ii)'
    BY <1>1, <1>10, <1>11 DEF Back, Held, LiveWith, Original, BackW, Base, Want
<1>13. Appending'
    BY <1>1, <1>3, <1>8, <1>9, <1>11, <1>12 DEF Appending, Base
<1>14. mem' \in [Slots(cap) -> Nat]
    BY <1>6 DEF Writes
<1> QED
    BY <1>1, <1>2, <1>7, <1>13, <1>14, GoesOn

LEMMA AppendCatchIInv ==
    ASSUME IInv, AppendCatch
    PROVE  IInv'
<1>1. /\ pc = "end" /\ ii < n /\ last' = Add(last, Lesser(ii, construct), cap)
      /\ size' = size + Lesser(ii, construct) /\ pc' = "threw"
      /\ UNCHANGED <<cap, first, mem, params, src, dest, p, ii, drawn, fault>>
    BY DEF AppendCatch
<1>2. TypeInv /\ Asked /\ Prepared /\ Appending /\ ~fault
    BY <1>1 DEF IInv, Running
<1>3. op = "insert" /\ at = size /\ ii \in 0 .. n - 1 /\ Back(mem, 0, ii)
    <2>1. ii \in 0 .. n /\ n \in 1 .. cap
        BY <1>2, Numbers DEF Appending, Back
    <2> QED
        BY <1>1, <1>2, <2>1, Numbers DEF Appending
<1>4. /\ last' = Add(first', size', cap)
      /\ \A q \in Slots(cap) : mem'[q] # Raw <=> q \in Window(first', size', cap)
    BY <1>1, <1>2, <1>3, AppendUndone
<1> QED
    BY <1>1, <1>2, <1>4, Ends DEF params, args, TypeInv

LEMMA AppendDoneIInv ==
    ASSUME IInv, AppendDone
    PROVE  IInv'
<1>1. /\ pc = "end" /\ ii = n /\ last' = Add(last, n, cap) /\ first' = Add(first, n - construct, cap)
      /\ size' = size + construct /\ pc' = "done" /\ UNCHANGED <<cap, mem, params, fault>>
    BY DEF AppendDone, Completed
<1>2. TypeInv /\ Asked /\ Prepared /\ Appending /\ Running
    BY <1>1 DEF IInv, Running
<1>3. op = "insert" /\ Back(mem, size - at, n)
    <2>1. size - at = 0
        BY <1>2, Numbers DEF Appending
    <2> QED
        BY <1>1, <1>2, <2>1 DEF Appending
<1>4. Adopted(first', last', size', n - construct)
    BY <1>1, <1>2, <1>3, BackCompletes
<1> QED
    BY <1>1, <1>2, <1>3, <1>4, Done

\* What the loops of insert_n share: src has come to pos when every element
\* behind the gap was shifted, and not before.
LEMMA ShiftBackFacts ==
    ASSUME IInv, pc = "shift", NEW m \in 0 .. size - at, ShiftingBack(m)
    PROVE  /\ TypeInv /\ Asked /\ Prepared /\ GapIsKnown /\ Shifts /\ Running /\ ~fault
           /\ cap \in Nat \ {0} /\ size \in 0 .. cap /\ at \in 0 .. size /\ at < size /\ op = "insert"
           /\ n \in 1 .. cap /\ n + (size - at) <= cap /\ n <= items /\ items \in Nat
           /\ Base \in Slots(cap) /\ pos = At(Base, at, cap) /\ last = At(Base, size, cap)
           /\ ii \in 0 .. n /\ Back(mem, m, ii) /\ (ii > 0 => m = size - at)
           /\ src = At(Base, size - m, cap) /\ dest = At(Base, (size + n - 1) - m, cap)
           /\ p = At(Base, at + ii, cap) /\ drawn = (items - n) + ii
           /\ src = pos <=> m = size - at
<1>1. TypeInv /\ Asked /\ Prepared /\ GapIsKnown /\ Running /\ ~fault /\ op = "insert" /\ at < size /\ Shifts
    BY DEF IInv, Running, Shifting, Shifts
<1>2. /\ cap \in Nat \ {0} /\ size \in 0 .. cap /\ at \in 0 .. size
      /\ n \in 1 .. cap /\ n + (size - at) <= cap /\ n <= items /\ items \in Nat
      /\ Base \in Slots(cap) /\ last = At(first, size, cap) /\ Base = first
    BY <1>1, Numbers, BaseFacts DEF Base
<1>3. pos = At(Base, at, cap)
    <2>1. pos = Add(first, at, cap) /\ at \in 0 .. 2 * cap - 1 /\ at <= cap
        BY <1>1, <1>2 DEF Asked
    <2> QED
        BY <1>2, <2>1, AtIsAdd
<1>4. /\ ii \in 0 .. n /\ Back(mem, m, ii) /\ (ii > 0 => m = size - at)
      /\ src = At(Base, size - m, cap) /\ dest = At(Base, (size + n - 1) - m, cap)
      /\ p = At(Base, at + ii, cap) /\ drawn = (items - n) + ii
    BY DEF ShiftingBack, Back
<1>5. src = pos <=> m = size - at
    <2>1. ASSUME m # size - at PROVE src # pos
        <3> DEFINE j == size - m
        <3>1. /\ j \in 0 .. 2 * cap - 1 /\ at \in 0 .. 2 * cap - 1 /\ j # at /\ j - at < cap /\ at - j < cap
            BY <1>2, <2>1
        <3> HIDE DEF j
        <3>2. At(Base, j, cap) # At(Base, at, cap)
            BY <1>2, <3>1, AtDiffers
        <3> QED
            BY <1>3, <1>4, <3>2 DEF j
    <2>2. m = size - at => size - m = at
        BY <1>2
    <2> QED
        BY <1>3, <1>4, <2>1, <2>2
<1> QED
    BY <1>1, <1>2, <1>3, <1>4, <1>5

LEMMA ShiftBackIInv ==
    ASSUME IInv, ShiftBack
    PROVE  IInv'
<1>1. /\ pc = "shift" /\ src # pos /\ src' = Decrement(src, cap)
      /\ Write(is_uninitialized(dest), dest, mem[src']) /\ dest' = Decrement(dest, cap)
      /\ UNCHANGED <<buffer, pc, params, p, ii, drawn>>
    BY DEF ShiftBack
<1>2. PICK m \in 0 .. size - at : ShiftingBack(m)
    BY <1>1 DEF IInv, Shifting
<1>3. /\ TypeInv /\ Asked /\ Prepared /\ GapIsKnown /\ Shifts /\ Running /\ ~fault
      /\ cap \in Nat \ {0} /\ size \in 0 .. cap /\ at \in 0 .. size /\ at < size /\ op = "insert"
      /\ n \in 1 .. cap /\ n + (size - at) <= cap /\ Base \in Slots(cap)
      /\ ii \in 0 .. n /\ Back(mem, m, ii) /\ (ii > 0 => m = size - at)
      /\ src = At(Base, size - m, cap) /\ dest = At(Base, (size + n - 1) - m, cap)
      /\ p = At(Base, at + ii, cap) /\ drawn = (items - n) + ii
      /\ m # size - at
    BY <1>1, <1>2, ShiftBackFacts
<1>4. ii = 0 /\ m \in 0 .. size - at - 1
    BY <1>3
<1>5. src' = At(Base, (size - 1) - m, cap)
    <2> DEFINE j == size - m
    <2>1. j \in 0 .. 2 * cap - 1 /\ j > 0 /\ j - 1 = (size - 1) - m
        BY <1>3, <1>4
    <2> HIDE DEF j
    <2>2. Decrement(At(Base, j, cap), cap) = At(Base, j - 1, cap)
        BY <1>3, <2>1, AtIsAdd
    <2> QED
        BY <1>1, <1>3, <2>1, <2>2 DEF j
<1> DEFINE w == (size + n - 1) - m
<1>6. w \in at .. size + n - 1 /\ w \in 0 .. 2 * cap - 1 /\ w > 0 /\ w - 1 = (size + n - 1) - (m + 1)
    BY <1>3, <1>4
<1>7. mem' = [mem EXCEPT ![At(Base, (size + n - 1) - m, cap)] = mem[At(Base, (size - 1) - m, cap)]]
    BY <1>1, <1>3, <1>5 DEF Write
<1>8. Writes(mem', w) /\ Back(mem', m + 1, 0) /\ mem[src'] # Raw
    BY <1>3, <1>4, <1>5, <1>7, BackShifts
<1> HIDE DEF w
<1>9. dest = At(Base, w, cap) /\ dest' = At(Base, w - 1, cap)
    <2>1. Decrement(At(Base, w, cap), cap) = At(Base, w - 1, cap)
        BY <1>3, <1>6, AtIsAdd
    <2> QED
        BY <1>1, <1>3, <2>1 DEF w
<1>10. ~fault'
    <2>1. is_uninitialized(dest) <=> At(Base, w, cap) \notin Window(first, size, cap)
        BY <1>3, <1>6, <1>9, AsksRight
    <2>2. is_uninitialized(dest) = (mem[dest] = Raw)
        BY <1>8, <1>9, <2>1 DEF Writes, is_uninitialized
    <2>3. fault' = (fault \/ is_uninitialized(dest) # (mem[dest] = Raw) \/ mem[src'] = Raw)
        BY <1>1 DEF Write
    <2> QED
        BY <1>3, <1>8, <2>2, <2>3, Zenon
<1>11. UNCHANGED <<cap, first, last, size, op, at, items, n, construct, p, ii, drawn>>
    BY <1>1 DEF buffer, params, args
<1>12. (m + 1 \in 0 .. size - at)'
    BY <1>3, <1>4, <1>11
<1>13. Back(mem, m + 1, ii)'
    BY <1>4, <1>8, <1>11 DEF Back, Held, LiveWith, Original, BackW, Base, Want
<1>14. ShiftingBack(m + 1)'
    <2>1. size - (m + 1) = (size - 1) - m
        BY <1>3, <1>4
    <2> QED
        BY <1>3, <1>5, <1>6, <1>9, <1>11, <1>13, <2>1 DEF ShiftingBack, Base
<1>15. Shifting'
    BY <1>3, <1>11, <1>12, <1>14 DEF Shifting
<1>16. mem' \in [Slots(cap) -> Nat]
    BY <1>8 DEF Writes
<1> QED
    BY <1>1, <1>3, <1>10, <1>15, <1>16, GoesOn

LEMMA FillGapIInv ==
    ASSUME IInv, FillGap
    PROVE  IInv'
<1>1. /\ pc = "shift" /\ src = pos /\ ii < n /\ Write(is_uninitialized(p), p, Item)
      /\ p' = Increment(p, cap) /\ ii' = ii + 1 /\ drawn' = drawn + 1
      /\ UNCHANGED <<buffer, pc, params, src, dest>>
    BY DEF FillGap
<1>2. PICK m \in 0 .. size - at : ShiftingBack(m)
    BY <1>1 DEF IInv, Shifting
<1>3. /\ TypeInv /\ Asked /\ Prepared /\ GapIsKnown /\ Shifts /\ Running /\ ~fault
      /\ cap \in Nat \ {0} /\ size \in 0 .. cap /\ at \in 0 .. size /\ at < size /\ op = "insert"
      /\ n \in 1 .. cap /\ n + (size - at) <= cap /\ n <= items /\ items \in Nat /\ Base \in Slots(cap)
      /\ ii \in 0 .. n /\ Back(mem, m, ii)
      /\ src = At(Base, size - m, cap) /\ dest = At(Base, (size + n - 1) - m, cap)
      /\ p = At(Base, at + ii, cap) /\ drawn = (items - n) + ii
      /\ m = size - at
    BY <1>1, <1>2, ShiftBackFacts
<1> DEFINE w == at + ii
<1>4. /\ ii \in 0 .. n - 1 /\ w \in at .. size + n - 1 /\ w \in 0 .. 2 * cap - 1
      /\ w + 1 = at + (ii + 1) /\ w \in Nat
    BY <1>1, <1>3
<1>5. Item = Want(w) /\ Want(w) # Raw
    <2>0. MaxCapacity \in Nat
        BY BulkAssumption
    <2>1. Item = Want(w)
        BY <1>3, <1>4, <2>0 DEF Item, Want
    <2> QED
        BY <1>3, <1>4, <2>1, WantIsItem
<1>6. mem' = [mem EXCEPT ![At(Base, at + ii, cap)] = Want(at + ii)]
    BY <1>1, <1>3, <1>5 DEF Write
<1>7. Writes(mem', w) /\ Back(mem', m, ii + 1)
    BY <1>3, <1>4, <1>6, BackFills
<1> HIDE DEF w
<1>8. p = At(Base, w, cap) /\ p' = At(Base, w + 1, cap)
    <2>1. Increment(At(Base, w, cap), cap) = At(Base, w + 1, cap)
        BY <1>3, <1>4, AtIsAdd
    <2> QED
        BY <1>1, <1>3, <2>1 DEF w
<1>9. ~fault'
    <2>1. is_uninitialized(p) <=> At(Base, w, cap) \notin Window(first, size, cap)
        BY <1>3, <1>4, <1>8, AsksRight
    <2>2. is_uninitialized(p) = (mem[p] = Raw)
        BY <1>7, <1>8, <2>1 DEF Writes, is_uninitialized
    <2>3. fault' = (fault \/ is_uninitialized(p) # (mem[p] = Raw) \/ Item = Raw)
        BY <1>1 DEF Write
    <2> QED
        BY <1>3, <1>5, <2>2, <2>3, Zenon
<1>10. UNCHANGED <<cap, first, last, size, op, at, items, n, construct, src, dest>>
    BY <1>1 DEF buffer, params, args
<1>11. Back(mem, m, ii)'
    BY <1>1, <1>7, <1>10 DEF Back, Held, LiveWith, Original, BackW, Base, Want
<1>12. drawn' = (items - n) + (ii + 1)
    BY <1>1, <1>3
<1>13. ShiftingBack(m)'
    BY <1>1, <1>3, <1>4, <1>8, <1>10, <1>11, <1>12 DEF ShiftingBack, Base
<1>14. Shifting'
    BY <1>2, <1>3, <1>10, <1>13 DEF Shifting
<1>15. mem' \in [Slots(cap) -> Nat]
    BY <1>7 DEF Writes
<1> QED
    BY <1>1, <1>3, <1>9, <1>14, <1>15, GoesOn

\* The handler of insert_n walks over what was shifted and filled.
LEMMA InsertCatchIInv ==
    ASSUME IInv, InsertCatch
    PROVE  IInv'
<1> DEFINE top == Add(last, n - 1, cap)
           walked == {Sub(top, k, cap) : k \in 0 .. Index(top, dest, cap) - 1}
                     \cup {Add(pos, k, cap) : k \in 0 .. ii - 1}
<1>1. /\ pc = "shift" /\ DestroyConstructed(walked) /\ pc' = "threw"
      /\ UNCHANGED <<buffer, params, src, dest, p, ii, drawn>>
    BY DEF InsertCatch
<1>2. PICK m \in 0 .. size - at : ShiftingBack(m)
    BY <1>1 DEF IInv, Shifting
<1>3. /\ TypeInv /\ Asked /\ Prepared /\ GapIsKnown /\ Shifts /\ ~fault
      /\ cap \in Nat \ {0} /\ size \in 0 .. cap /\ at \in 0 .. size /\ at < size /\ op = "insert"
      /\ n \in 1 .. cap /\ n + (size - at) <= cap /\ Base \in Slots(cap)
      /\ pos = At(Base, at, cap) /\ last = At(Base, size, cap)
      /\ ii \in 0 .. n /\ Back(mem, m, ii)
      /\ dest = At(Base, (size + n - 1) - m, cap)
    BY <1>1, <1>2, ShiftBackFacts
<1> DEFINE j == size + n - 1
<1>4. j \in 0 .. 2 * cap - 1 /\ j - m \in 0 .. 2 * cap - 1 /\ j - m <= j /\ j - (j - m) = m /\ m < cap /\ m \in 0 .. j
    BY <1>3
<1>5. top = At(Base, j, cap)
    <2>1. size \in 0 .. 2 * cap /\ n - 1 \in 0 .. cap /\ size + (n - 1) <= 2 * cap /\ size + (n - 1) = j
        BY <1>3
    <2> HIDE DEF j
    <2>2. Add(At(Base, size, cap), n - 1, cap) = At(Base, size + (n - 1), cap)
        BY <1>3, <2>1, AddToAt
    <2> QED
        BY <1>3, <2>1, <2>2
<1>6. Index(top, dest, cap) = m
    <2>1. dest = At(Base, j - m, cap)
        BY <1>3
    <2> DEFINE i == j - m
    <2> HIDE DEF j, top
    <2>2. i \in 0 .. 2 * cap - 1 /\ i <= j /\ j - i < cap /\ j - i = m
        BY <1>4
    <2>3. dest = At(Base, i, cap)
        BY <2>1
    <2> HIDE DEF i
    <2>4. Index(At(Base, j, cap), At(Base, i, cap), cap) = j - i
        BY <1>3, <1>4, <2>2, AtDistance
    <2> QED
        BY <1>5, <2>2, <2>3, <2>4
<1>7. ASSUME NEW k \in 0 .. m - 1
      PROVE  Sub(top, k, cap) = At(Base, j - k, cap)
    <2>1. j \in 0 .. 2 * cap /\ k \in 0 .. cap /\ k <= j
        BY <1>3, <1>4
    <2> HIDE DEF j, top
    <2> QED
        BY <1>3, <1>5, <2>1, AddToAt
<1>8. ASSUME NEW k \in 0 .. ii - 1
      PROVE  Add(pos, k, cap) = At(Base, at + k, cap)
    <2>1. at \in 0 .. 2 * cap /\ k \in 0 .. cap /\ at + k <= 2 * cap
        BY <1>3
    <2> QED
        BY <1>3, <2>1, AddToAt
<1>9. walked = {At(Base, i, cap) : i \in BackW(m, ii)}
    <2>1. ASSUME NEW q \in walked PROVE \E i \in BackW(m, ii) : q = At(Base, i, cap)
        <3>1. CASE \E k \in 0 .. m - 1 : q = Sub(top, k, cap)
            <4>1. PICK k \in 0 .. m - 1 : q = Sub(top, k, cap)
                BY <3>1
            <4>2. j - k \in BackW(m, ii)
                BY <1>3, <1>4 DEF BackW
            <4> QED
                BY <1>7, <4>1, <4>2
        <3>2. CASE \E k \in 0 .. ii - 1 : q = Add(pos, k, cap)
            <4>1. PICK k \in 0 .. ii - 1 : q = Add(pos, k, cap)
                BY <3>2
            <4>2. at + k \in BackW(m, ii)
                BY <1>3 DEF BackW
            <4> QED
                BY <1>8, <4>1, <4>2
        <3> QED
            BY <1>6, <3>1, <3>2
    <2>2. ASSUME NEW i \in BackW(m, ii) PROVE At(Base, i, cap) \in walked
        <3>1. CASE i \in size + n - m .. size + n - 1
            <4> DEFINE k == j - i
            <4>1. k \in 0 .. m - 1 /\ j - k = i
                BY <1>3, <1>4, <3>1
            <4> HIDE DEF k, j, top
            <4>2. Sub(top, k, cap) = At(Base, i, cap)
                BY <1>7, <4>1
            <4> QED
                BY <1>6, <4>1, <4>2
        <3>2. CASE i \in at .. at + ii - 1
            <4> DEFINE k == i - at
            <4>1. k \in 0 .. ii - 1 /\ at + k = i
                BY <1>3, <3>2
            <4> HIDE DEF k
            <4>2. Add(pos, k, cap) = At(Base, i, cap)
                BY <1>8, <4>1
            <4> QED
                BY <4>1, <4>2
        <3> QED
            BY <3>1, <3>2 DEF BackW
    <2> HIDE DEF walked
    <2> QED
        BY <2>1, <2>2
<1>10. BackW(m, ii) \subseteq at .. size + n - 1 /\ LiveWith(mem, BackW(m, ii))
    BY <1>3 DEF BackW, Back
<1> HIDE DEF walked
<1>11. /\ ~fault' /\ mem' \in [Slots(cap) -> Nat]
       /\ \A q \in Slots(cap) : mem'[q] # Raw <=> q \in Window(first, size, cap)
    <2> DEFINE W == BackW(m, ii)
    <2>1. W \subseteq IF op = "insert" THEN at .. size + n - 1 ELSE 0 .. at + n - 1
        BY <1>3, <1>10
    <2>2. LiveWith(mem, W) /\ walked = {At(Base, i, cap) : i \in W}
        BY <1>9, <1>10
    <2> HIDE DEF W
    <2> QED
        BY <1>1, <1>3, <2>1, <2>2, Undone
<1>12. UNCHANGED <<cap, first, last, size, op, at, items, count>> /\ last = Add(first, size, cap)
    BY <1>1, <1>3 DEF buffer, params, args, Asked
<1> QED
    BY <1>1, <1>11, <1>12, Ends

LEMMA InsertDoneIInv ==
    ASSUME IInv, InsertDone
    PROVE  IInv'
<1>1. /\ pc = "shift" /\ src = pos /\ ii = n /\ last' = Add(last, n, cap) /\ first' = Add(first, n - construct, cap)
      /\ size' = size + construct /\ pc' = "done" /\ UNCHANGED <<cap, mem, params, fault>>
    BY DEF InsertDone, Completed
<1>2. PICK m \in 0 .. size - at : ShiftingBack(m)
    BY <1>1 DEF IInv, Shifting
<1>3. /\ TypeInv /\ Asked /\ Prepared /\ Running /\ op = "insert" /\ Back(mem, m, ii) /\ m = size - at
    BY <1>1, <1>2, ShiftBackFacts
<1>4. Adopted(first', last', size', n - construct)
    BY <1>1, <1>3, BackCompletes
<1> QED
    BY <1>1, <1>3, <1>4, Done

LEMMA RInsertIInv ==
    ASSUME IInv, RInsert
    PROVE  IInv'
<1>1. pc = "call" /\ op = "rinsert" /\ Prologue /\ UNCHANGED <<buffer, mem, args, drawn, fault>>
    BY DEF RInsert
<1>2. CASE n' = 0
    <2>1. pc' = "done"
        BY <1>2 DEF RInsert
    <2>2. Fitting = 0
        BY <1>1, <1>2 DEF Prologue
    <2> QED
        BY <1>1, <2>1, <2>2, NothingToDo
<1>3. CASE n' > 0
    <2>1. /\ TypeInv /\ Asked /\ cap > 0 /\ ~fault' /\ ii = 0 /\ drawn = 0
          /\ UNCHANGED <<cap, first, last, size, mem, op, at, items, pos, count, fault>>
          /\ Asked' /\ GapIsKnown' /\ Prepared' /\ Front(mem, 0, 0)' /\ drawn' = 0
          /\ pc' \in {"end", "shift", "begin", "rshift"} => TypeInv'
        BY <1>1, <1>3, Begins
    <2>2. /\ cap \in Nat \ {0} /\ first \in Slots(cap) /\ size \in 0 .. cap /\ at \in 0 .. size
          /\ last = Add(first, size, cap) /\ pos = IF at = size THEN NULL ELSE Add(first, at, cap)
          /\ items \in Nat
        BY <2>1 DEF TypeInv, Asked, Pointers
    <2>3. Base' = Sub(first, n', cap)
        BY <1>1, <2>1 DEF Base
    <2>4. n' \in 1 .. cap /\ n' + at <= cap
        BY <1>1, <1>3, <2>2 DEF Prologue, Fitting, Lesser
    <2>5. /\ Base' \in Slots(cap) /\ first = At(Base', n', cap)
          /\ \A j \in 0 .. cap - 1 : At(Base', n' + j, cap) = At(first, j, cap)
        <3>1. n' \in 0 .. cap
            BY <2>2, <2>4
        <3> QED
            BY <2>2, <2>3, <3>1, AtFromSub
    <2>6. At(Base', 0, cap) = Base'
        BY <2>2, <2>5, AtIsAdd
    <2>7. n' # 0 /\ n' - 0 = n' /\ n' + 0 = n' /\ 0 + 0 = 0 /\ at \in 0 .. cap - 1 /\ at \in 0 .. 2 * cap - 1
        <3>1. cap \in Nat /\ at \in 0 .. cap
            BY <2>2
        <3>2. n' # 0 /\ n' - 0 = n' /\ n' + 0 = n'
            BY <2>4, <3>1, LastOfRange
        <3>3. at \in 0 .. cap - 1 /\ at \in 0 .. 2 * cap - 1
            BY <2>4, <3>1, LastOfRange
        <3> QED
            BY <3>2, <3>3
    <2>8. CASE at = 0
        <3>1. pc' = "begin" /\ p' = Sub(first, n', cap) /\ ii' = n'
            BY <1>3, <2>8 DEF RInsert
        <3>2. Prepending'
            BY <1>1, <2>1, <2>3, <2>6, <2>7, <2>8, <3>1 DEF Prepending
        <3> QED
            BY <2>1, <3>1, <3>2 DEF IInv, KeepsCapacityElements, LiveIsWindow, Ended
    <2>9. CASE at > 0
        <3>1. /\ pc' = "rshift" /\ src' = first /\ dest' = Sub(first, n', cap)
              /\ p' = (IF pos = NULL THEN last ELSE pos)
              /\ ii' = ii
            <4>1. at # 0 /\ n' # 0
                BY <2>7, <2>9
            <4> QED
                BY <4>1 DEF RInsert
        <3>2. at \in 0 .. cap - 1 /\ at \in 0 .. 2 * cap - 1 /\ at <= cap
            BY <2>2, <2>7
        <3>3. /\ Add(first, at, cap) = At(first, at, cap) /\ At(Base', n' + at, cap) = At(first, at, cap)
              /\ At(first, at, cap) \in Slots(cap)
            BY <2>2, <2>5, <3>2, AtIsAdd
        <3>4. p' = At(Base', n' + at, cap)
            <4>1. Add(first, at, cap) # NULL
                BY <2>2, <3>3 DEF Slots, NULL
            <4> QED
                BY <2>2, <3>1, <3>3, <4>1
        <3>5. ShiftingForward(0)'
            <4>1. Front(mem, 0, ii)' /\ ii' = 0
                BY <2>1, <3>1 DEF Front
            <4>2. src' = At(Base', n' + 0, cap') /\ dest' = At(Base', 0 + ii', cap') /\ p' = At(Base', n' + at', cap')
                BY <2>1, <2>3, <2>5, <2>6, <2>7, <3>1, <3>4
            <4>3. drawn' = ii'
                BY <2>1, <3>1
            <4> QED
                BY <4>1, <4>2, <4>3 DEF ShiftingForward
        <3>6. (0 \in 0 .. at)'
            BY <2>1, <2>2
        <3>7. RShifting'
            BY <1>1, <2>1, <2>9, <3>5, <3>6 DEF RShifting
        <3> QED
            BY <2>1, <3>1, <3>7 DEF IInv, KeepsCapacityElements, LiveIsWindow, Ended
    <2> QED
        BY <2>2, <2>8, <2>9
<1>4. n' \in Nat
    <2>1. TypeInv /\ Asked
        BY <1>1 DEF IInv
    <2> QED
        BY <1>1, <2>1 DEF TypeInv, Asked, Prologue, Fitting, Lesser
<1> QED
    BY <1>2, <1>3, <1>4

\* What the loop in front of the begin works on.
LEMMA PrependFacts ==
    ASSUME IInv, pc = "begin", ii > 0
    PROVE  /\ TypeInv /\ Asked /\ Prepared /\ Running /\ ~fault
           /\ cap \in Nat \ {0} /\ size \in 0 .. cap /\ at = 0 /\ op = "rinsert" /\ n \in 1 .. cap
           /\ Base \in Slots(cap) /\ drawn \in 0 .. n - 1 /\ ii = n - drawn
           /\ p = At(Base, drawn, cap) /\ Front(mem, 0, drawn)
<1>1. TypeInv /\ Asked /\ Prepared /\ Prepending /\ Running /\ ~fault
    BY DEF IInv, Running
<1>2. cap \in Nat \ {0} /\ size \in 0 .. cap /\ n \in 1 .. cap /\ Base \in Slots(cap)
    BY <1>1, Numbers, BaseFacts
<1>3. /\ at = 0 /\ op = "rinsert" /\ ii = n - drawn /\ p = At(Base, drawn, cap) /\ Front(mem, 0, drawn)
      /\ drawn \in 0 .. n
    BY <1>1 DEF Prepending, Front
<1> QED
    BY <1>1, <1>2, <1>3

LEMMA PrependItemIInv ==
    ASSUME IInv, PrependItem
    PROVE  IInv'
<1>1. /\ pc = "begin" /\ ii > 0 /\ Write(ii <= construct, p, Item) /\ p' = Increment(p, cap)
      /\ ii' = ii - 1 /\ drawn' = drawn + 1 /\ UNCHANGED <<buffer, pc, params, src, dest>>
    BY DEF PrependItem
<1>2. /\ TypeInv /\ Asked /\ Prepared /\ Running /\ ~fault
      /\ cap \in Nat \ {0} /\ size \in 0 .. cap /\ at = 0 /\ op = "rinsert" /\ n \in 1 .. cap
      /\ Base \in Slots(cap) /\ drawn \in 0 .. n - 1 /\ ii = n - drawn
      /\ p = At(Base, drawn, cap) /\ Front(mem, 0, drawn)
    BY <1>1, PrependFacts
<1>3. at + drawn = drawn /\ drawn \in Nat /\ drawn \in 0 .. 2 * cap - 1
    BY <1>2
<1>4. Item = Want(drawn) /\ Want(drawn) # Raw
    <2>0. MaxCapacity \in Nat
        BY BulkAssumption
    <2>1. Item = Want(drawn)
        BY <1>2, <1>3, <2>0 DEF Item, Want
    <2> QED
        BY <1>2, <1>3, <2>1, WantIsItem
<1>5. mem' = [mem EXCEPT ![At(Base, at + drawn, cap)] = Want(at + drawn)]
    BY <1>1, <1>2, <1>3, <1>4 DEF Write
<1>6. Writes(mem', drawn) /\ Front(mem', 0, drawn + 1)
    <2>1. Front(mem, at, drawn)
        BY <1>2
    <2>2. Writes(mem', at + drawn) /\ Front(mem', at, drawn + 1)
        BY <1>2, <1>5, <2>1, FrontFills
    <2> QED
        BY <1>2, <1>3, <2>2
<1>7. ~fault'
    <2>1. ii <= construct <=> mem[p] = Raw
        BY <1>2, <1>6, PrependsRight DEF Writes
    <2>2. fault' = (fault \/ (ii <= construct) # (mem[p] = Raw) \/ Item = Raw)
        BY <1>1 DEF Write
    <2>3. (ii <= construct) = (mem[p] = Raw)
        BY <2>1
    <2> QED
        BY <1>2, <1>4, <2>2, <2>3, Zenon
<1>8. p' = At(Base, drawn + 1, cap)
    BY <1>1, <1>2, <1>3, AtIsAdd
<1>9. UNCHANGED <<cap, first, last, size, op, at, items, n, construct>>
    BY <1>1 DEF buffer, params, args
<1>10. Front(mem, 0, drawn)'
    BY <1>1, <1>6, <1>9 DEF Front, Held, LiveWith, Original, FrontW, Base, Want
<1>11. ii' = n - drawn'
    BY <1>1, <1>2
<1>12. Prepending'
    BY <1>1, <1>2, <1>8, <1>9, <1>10, <1>11 DEF Prepending, Base
<1>13. mem' \in [Slots(cap) -> Nat]
    BY <1>6 DEF Writes
<1> QED
    BY <1>1, <1>2, <1>7, <1>12, <1>13, GoesOn

\* Its handler is right when it does not run into its defect.
LEMMA PrependCatchIInv ==
    ASSUME NoDefects, IInv, PrependCatch
    PROVE  IInv'
<1> DEFINE h == IF ii < construct THEN construct - ii ELSE 0
<1>1. /\ pc = "begin" /\ ii > 0 /\ last' = Add(last, h, cap) /\ size' = size + h /\ pc' = "threw"
      /\ (n >= cap - size \/ h = 0)
      /\ UNCHANGED <<cap, first, mem, params, src, dest, p, ii, drawn, fault>>
    BY DEF PrependCatch, NoDefects
<1>2. /\ TypeInv /\ Asked /\ Prepared /\ ~fault /\ at = 0 /\ op = "rinsert"
      /\ drawn \in 0 .. n - 1 /\ ii = n - drawn /\ Front(mem, 0, drawn)
    BY <1>1, PrependFacts
<1>3. h = IF n - drawn < construct THEN construct - (n - drawn) ELSE 0
    BY <1>2
<1> HIDE DEF h
<1>4. /\ Add(last, h, cap) = Add(first, size + h, cap)
      /\ \A q \in Slots(cap) : mem[q] # Raw <=> q \in Window(first, size + h, cap)
    BY <1>1, <1>2, <1>3, PrependUndone
<1> QED
    BY <1>1, <1>2, <1>4, Ends DEF params, args, TypeInv

LEMMA PrependDoneIInv ==
    ASSUME IInv, PrependDone
    PROVE  IInv'
<1>1. /\ pc = "begin" /\ ii = 0 /\ first' = Sub(first, n, cap) /\ last' = Sub(last, n - construct, cap)
      /\ size' = size + construct /\ pc' = "done" /\ UNCHANGED <<cap, mem, params, fault>>
    BY DEF PrependDone, RCompleted
<1>2. TypeInv /\ Asked /\ Prepared /\ Prepending /\ Running
    BY <1>1 DEF IInv, Running
<1>3. op = "rinsert" /\ Front(mem, at, n)
    <2>1. op = "rinsert" /\ at = 0 /\ Front(mem, 0, drawn) /\ ii = n - drawn /\ drawn \in 0 .. n
        BY <1>2 DEF Prepending, Front
    <2>2. n \in 1 .. cap
        BY <1>2, Numbers
    <2>3. drawn = n
        BY <1>1, <2>1, <2>2
    <2> QED
        BY <2>1, <2>3
<1>4. Adopted(first', last', size', 0)
    BY <1>1, <1>2, <1>3, FrontCompletes
<1> QED
    BY <1>1, <1>2, <1>3, <1>4, Done

\* What the loops of rinsert_n share.
LEMMA ShiftForwardFacts ==
    ASSUME IInv, pc = "rshift", NEW m \in 0 .. at, ShiftingForward(m)
    PROVE  /\ TypeInv /\ Asked /\ Prepared /\ GapIsKnown /\ Shifts /\ Running /\ ~fault
           /\ cap \in Nat \ {0} /\ size \in 0 .. cap /\ at \in 0 .. size /\ at > 0 /\ op = "rinsert"
           /\ n \in 1 .. cap /\ n + at <= cap
           /\ Base \in Slots(cap) /\ Base = Sub(first, n, cap)
           /\ ii \in 0 .. n /\ Front(mem, m, ii) /\ (ii > 0 => m = at)
           /\ src = At(Base, n + m, cap) /\ dest = At(Base, m + ii, cap)
           /\ p = At(Base, n + at, cap) /\ drawn = ii
           /\ src = p <=> m = at
<1>1. TypeInv /\ Asked /\ Prepared /\ GapIsKnown /\ Running /\ ~fault /\ op = "rinsert" /\ at > 0
    BY DEF IInv, Running, RShifting
<1>2. Shifts
    BY <1>1 DEF Shifts
<1>3. /\ cap \in Nat \ {0} /\ size \in 0 .. cap /\ at \in 0 .. size
      /\ n \in 1 .. cap /\ n + at <= cap /\ Base \in Slots(cap) /\ Base = Sub(first, n, cap)
    BY <1>1, Numbers, BaseFacts
<1>4. /\ ii \in 0 .. n /\ Front(mem, m, ii) /\ (ii > 0 => m = at)
      /\ src = At(Base, n + m, cap) /\ dest = At(Base, m + ii, cap)
      /\ p = At(Base, n + at, cap) /\ drawn = ii
    BY DEF ShiftingForward, Front
<1>5. src = p <=> m = at
    <2>1. ASSUME m # at PROVE src # p
        <3> DEFINE j == n + m
                   i == n + at
        <3>1. /\ j \in 0 .. 2 * cap - 1 /\ i \in 0 .. 2 * cap - 1 /\ j # i /\ j - i < cap /\ i - j < cap
            BY <1>3, <2>1
        <3> HIDE DEF j, i
        <3>2. At(Base, j, cap) # At(Base, i, cap)
            BY <1>3, <3>1, AtDiffers
        <3> QED
            BY <1>4, <3>2 DEF j, i
    <2> QED
        BY <1>4, <2>1
<1> QED
    BY <1>1, <1>2, <1>3, <1>4, <1>5

LEMMA ShiftForwardIInv ==
    ASSUME IInv, ShiftForward
    PROVE  IInv'
<1>1. /\ pc = "rshift" /\ src # p /\ Write(is_uninitialized(dest), dest, mem[src])
      /\ src' = Increment(src, cap) /\ dest' = Increment(dest, cap)
      /\ UNCHANGED <<buffer, pc, params, p, ii, drawn>>
    BY DEF ShiftForward
<1>2. PICK m \in 0 .. at : ShiftingForward(m)
    BY <1>1 DEF IInv, RShifting
<1>3. /\ TypeInv /\ Asked /\ Prepared /\ GapIsKnown /\ Shifts /\ Running /\ ~fault
      /\ cap \in Nat \ {0} /\ size \in 0 .. cap /\ at \in 0 .. size /\ at > 0 /\ op = "rinsert"
      /\ n \in 1 .. cap /\ n + at <= cap /\ Base \in Slots(cap)
      /\ ii \in 0 .. n /\ Front(mem, m, ii) /\ (ii > 0 => m = at)
      /\ src = At(Base, n + m, cap) /\ dest = At(Base, m + ii, cap)
      /\ p = At(Base, n + at, cap) /\ drawn = ii
      /\ m # at
    BY <1>1, <1>2, ShiftForwardFacts
<1>4. ii = 0 /\ m \in 0 .. at - 1 /\ m + ii = m
    BY <1>3
<1>5. src' = At(Base, n + (m + 1), cap)
    <2> DEFINE j == n + m
    <2>1. j \in 0 .. 2 * cap - 1 /\ n + (m + 1) = j + 1
        BY <1>3, <1>4
    <2> HIDE DEF j
    <2>2. Increment(At(Base, j, cap), cap) = At(Base, j + 1, cap)
        BY <1>3, <2>1, AtIsAdd
    <2> QED
        BY <1>1, <1>3, <2>1, <2>2 DEF j
<1>6. m \in 0 .. at + n - 1 /\ m \in 0 .. 2 * cap - 1
    BY <1>3, <1>4
<1>7. mem' = [mem EXCEPT ![At(Base, m, cap)] = mem[At(Base, n + m, cap)]]
    BY <1>1, <1>3, <1>4 DEF Write
<1>8. Writes(mem', m) /\ Front(mem', m + 1, 0) /\ mem[src] # Raw
    BY <1>3, <1>4, <1>7, FrontShifts
<1>9. dest = At(Base, m, cap) /\ dest' = At(Base, m + 1, cap)
    BY <1>1, <1>3, <1>4, <1>6, AtIsAdd
<1>10. ~fault'
    <2>1. is_uninitialized(dest) <=> At(Base, m, cap) \notin Window(first, size, cap)
        BY <1>3, <1>6, <1>9, AsksRight
    <2>2. is_uninitialized(dest) = (mem[dest] = Raw)
        BY <1>8, <1>9, <2>1 DEF Writes, is_uninitialized
    <2>3. fault' = (fault \/ is_uninitialized(dest) # (mem[dest] = Raw) \/ mem[src] = Raw)
        BY <1>1 DEF Write
    <2> QED
        BY <1>3, <1>8, <2>2, <2>3, Zenon
<1>11. UNCHANGED <<cap, first, last, size, op, at, items, n, construct, p, ii, drawn>>
    BY <1>1 DEF buffer, params, args
<1>12. (m + 1 \in 0 .. at)'
    BY <1>3, <1>4, <1>11
<1>13. Front(mem, m + 1, ii)'
    BY <1>4, <1>8, <1>11 DEF Front, Held, LiveWith, Original, FrontW, Base, Want
<1>14. ShiftingForward(m + 1)'
    <2>1. (m + 1) + ii = m + 1
        BY <1>4
    <2> QED
        BY <1>3, <1>5, <1>9, <1>11, <1>13, <2>1 DEF ShiftingForward, Base
<1>15. RShifting'
    BY <1>3, <1>11, <1>12, <1>14 DEF RShifting
<1>16. mem' \in [Slots(cap) -> Nat]
    BY <1>8 DEF Writes
<1> QED
    BY <1>1, <1>3, <1>10, <1>15, <1>16, GoesOn

LEMMA RFillGapIInv ==
    ASSUME IInv, RFillGap
    PROVE  IInv'
<1>1. /\ pc = "rshift" /\ src = p /\ ii < n /\ Write(is_uninitialized(dest), dest, Item)
      /\ dest' = Increment(dest, cap) /\ ii' = ii + 1 /\ drawn' = drawn + 1
      /\ UNCHANGED <<buffer, pc, params, src, p>>
    BY DEF RFillGap
<1>2. PICK m \in 0 .. at : ShiftingForward(m)
    BY <1>1 DEF IInv, RShifting
<1>3. /\ TypeInv /\ Asked /\ Prepared /\ GapIsKnown /\ Shifts /\ Running /\ ~fault
      /\ cap \in Nat \ {0} /\ size \in 0 .. cap /\ at \in 0 .. size /\ at > 0 /\ op = "rinsert"
      /\ n \in 1 .. cap /\ n + at <= cap /\ Base \in Slots(cap)
      /\ ii \in 0 .. n /\ Front(mem, m, ii)
      /\ src = At(Base, n + m, cap) /\ dest = At(Base, m + ii, cap)
      /\ p = At(Base, n + at, cap) /\ drawn = ii
      /\ m = at
    BY <1>1, <1>2, ShiftForwardFacts
<1> DEFINE w == at + ii
<1>4. /\ ii \in 0 .. n - 1 /\ w \in 0 .. at + n - 1 /\ w \in 0 .. 2 * cap - 1
      /\ w + 1 = at + (ii + 1) /\ w \in Nat
    BY <1>1, <1>3
<1>5. Item = Want(w) /\ Want(w) # Raw
    <2>0. MaxCapacity \in Nat
        BY BulkAssumption
    <2>1. Item = Want(w)
        BY <1>3, <1>4, <2>0 DEF Item, Want
    <2> QED
        BY <1>3, <1>4, <2>1, WantIsItem
<1>6. mem' = [mem EXCEPT ![At(Base, at + ii, cap)] = Want(at + ii)]
    BY <1>1, <1>3, <1>5 DEF Write
<1>7. Writes(mem', w) /\ Front(mem', m, ii + 1)
    BY <1>3, <1>4, <1>6, FrontFills
<1> HIDE DEF w
<1>8. dest = At(Base, w, cap) /\ dest' = At(Base, w + 1, cap)
    <2>1. Increment(At(Base, w, cap), cap) = At(Base, w + 1, cap)
        BY <1>3, <1>4, AtIsAdd
    <2> QED
        BY <1>1, <1>3, <2>1 DEF w
<1>9. ~fault'
    <2>1. is_uninitialized(dest) <=> At(Base, w, cap) \notin Window(first, size, cap)
        BY <1>3, <1>4, <1>8, AsksRight
    <2>2. is_uninitialized(dest) = (mem[dest] = Raw)
        BY <1>7, <1>8, <2>1 DEF Writes, is_uninitialized
    <2>3. fault' = (fault \/ is_uninitialized(dest) # (mem[dest] = Raw) \/ Item = Raw)
        BY <1>1 DEF Write
    <2> QED
        BY <1>3, <1>5, <2>2, <2>3, Zenon
<1>10. UNCHANGED <<cap, first, last, size, op, at, items, n, construct, src, p>>
    BY <1>1 DEF buffer, params, args
<1>11. Front(mem, m, ii)'
    BY <1>1, <1>7, <1>10 DEF Front, Held, LiveWith, Original, FrontW, Base, Want
<1>12. drawn' = ii + 1
    BY <1>1, <1>3
<1>13. ShiftingForward(m)'
    BY <1>1, <1>3, <1>4, <1>8, <1>10, <1>11, <1>12 DEF ShiftingForward, Base
<1>14. RShifting'
    BY <1>2, <1>3, <1>10, <1>13 DEF RShifting
<1>15. mem' \in [Slots(cap) -> Nat]
    BY <1>7 DEF Writes
<1> QED
    BY <1>1, <1>3, <1>9, <1>14, <1>15, GoesOn

\* The handler of rinsert_n walks over what was shifted and filled.
LEMMA RInsertCatchIInv ==
    ASSUME IInv, RInsertCatch
    PROVE  IInv'
<1> DEFINE low == Sub(first, n, cap)
           walked == {Add(low, k, cap) : k \in 0 .. Index(dest, low, cap) - 1}
<1>1. /\ pc = "rshift" /\ (src # p \/ ii < n) /\ DestroyConstructed(walked) /\ pc' = "threw"
      /\ UNCHANGED <<buffer, params, src, dest, p, ii, drawn>>
    BY DEF RInsertCatch
<1>2. PICK m \in 0 .. at : ShiftingForward(m)
    BY <1>1 DEF IInv, RShifting
<1>3. /\ TypeInv /\ Asked /\ Prepared /\ GapIsKnown /\ Shifts /\ ~fault
      /\ cap \in Nat \ {0} /\ size \in 0 .. cap /\ at \in 0 .. size /\ op = "rinsert"
      /\ n \in 1 .. cap /\ n + at <= cap /\ Base \in Slots(cap) /\ Base = low
      /\ ii \in 0 .. n /\ Front(mem, m, ii) /\ (ii > 0 => m = at)
      /\ dest = At(Base, m + ii, cap)
      /\ src = p <=> m = at
    BY <1>1, <1>2, ShiftForwardFacts
<1> DEFINE j == m + ii
<1>4. j \in 0 .. cap - 1 /\ j \in 0 .. 2 * cap - 1 /\ 0 \in 0 .. 2 * cap - 1 /\ 0 <= j /\ j - 0 < cap /\ j - 0 = j
    BY <1>1, <1>3
<1>5. Index(dest, low, cap) = j
    <2> HIDE DEF j
    <2>1. Index(At(Base, j, cap), At(Base, 0, cap), cap) = j - 0
        BY <1>3, <1>4, AtDistance
    <2>2. At(Base, 0, cap) = Base
        BY <1>3, <1>4, AtIsAdd
    <2> QED
        BY <1>3, <1>4, <2>1, <2>2 DEF j
<1>6. ASSUME NEW k \in 0 .. j - 1
      PROVE  Add(low, k, cap) = At(Base, k, cap)
    <2>1. k \in 0 .. 2 * cap - 1 /\ k <= cap
        BY <1>3, <1>4
    <2> QED
        BY <1>3, <2>1, AtIsAdd
<1>7. walked = {At(Base, i, cap) : i \in FrontW(m, ii)}
    <2>1. FrontW(m, ii) = 0 .. j - 1
        BY <1>3 DEF FrontW
    <2> HIDE DEF j, low
    <2> QED
        BY <1>5, <1>6, <2>1
<1> HIDE DEF walked
<1>8. /\ ~fault' /\ mem' \in [Slots(cap) -> Nat]
      /\ \A q \in Slots(cap) : mem'[q] # Raw <=> q \in Window(first, size, cap)
    <2> DEFINE W == FrontW(m, ii)
    <2>1. W \subseteq IF op = "insert" THEN at .. size + n - 1 ELSE 0 .. at + n - 1
        BY <1>3 DEF FrontW
    <2>2. LiveWith(mem, W) /\ walked = {At(Base, i, cap) : i \in W}
        BY <1>3, <1>7 DEF Front
    <2> HIDE DEF W
    <2> QED
        BY <1>1, <1>3, <2>1, <2>2, Undone
<1>9. UNCHANGED <<cap, first, last, size, op, at, items, count>> /\ last = Add(first, size, cap)
    BY <1>1, <1>3 DEF buffer, params, args, Asked
<1> QED
    BY <1>1, <1>8, <1>9, Ends

LEMMA RInsertDoneIInv ==
    ASSUME IInv, RInsertDone
    PROVE  IInv'
<1>1. /\ pc = "rshift" /\ src = p /\ ii = n /\ first' = Sub(first, n, cap) /\ last' = Sub(last, n - construct, cap)
      /\ size' = size + construct /\ pc' = "done" /\ UNCHANGED <<cap, mem, params, fault>>
    BY DEF RInsertDone, RCompleted
<1>2. PICK m \in 0 .. at : ShiftingForward(m)
    BY <1>1 DEF IInv, RShifting
<1>3. /\ TypeInv /\ Asked /\ Prepared /\ Running /\ op = "rinsert" /\ Front(mem, m, ii) /\ m = at
    BY <1>1, <1>2, ShiftForwardFacts
<1>4. Adopted(first', last', size', 0)
    BY <1>1, <1>3, FrontCompletes
<1> QED
    BY <1>1, <1>3, <1>4, Done

-----------------------------------------------------------------------------
(* The theorems.                                                           *)

LEMMA Inductive ==
    ASSUME NoDefects, IInv, [Next]_bvars
    PROVE  IInv'
<1>1. CASE Next
    BY <1>1, InsertIInv, AppendItemIInv, AppendCatchIInv, AppendDoneIInv, ShiftBackIInv, FillGapIInv,
       InsertCatchIInv, InsertDoneIInv, RInsertIInv, PrependItemIInv, PrependCatchIInv, PrependDoneIInv,
       ShiftForwardIInv, RFillGapIInv, RInsertCatchIInv, RInsertDoneIInv DEF Next
<1>2. CASE UNCHANGED bvars
    <2>1. UNCHANGED <<cap, first, last, size, mem, pc, op, at, items, count, pos, n, construct, src, dest, p,
                      ii, drawn, fault>>
        BY <1>2 DEF bvars, buffer, params, args
    <2>2. CASE Running
        <3>1. Appending => Appending'
            BY <2>1 DEF Appending, Back, Held, LiveWith, Original, BackW, Base, Want
        <3>2. Prepending => Prepending'
            BY <2>1 DEF Prepending, Front, Held, LiveWith, Original, FrontW, Base, Want
        <3>3. Shifting => Shifting'
            BY <2>1 DEF Shifting, ShiftingBack, Back, Held, LiveWith, Original, BackW, Base, Want
        <3>4. RShifting => RShifting'
            BY <2>1 DEF RShifting, ShiftingForward, Front, Held, LiveWith, Original, FrontW, Base, Want
        <3>5. UNCHANGED <<buffer, params>> /\ mem' \in [Slots(cap) -> Nat] /\ ~fault'
            BY <2>1 DEF buffer, params, args, IInv, TypeInv
        <3> QED
            BY <2>1, <2>2, <3>1, <3>2, <3>3, <3>4, <3>5, GoesOn DEF IInv
    <2>3. CASE ~Running
        <3>1. TypeInv' /\ ~fault' /\ ~Running'
            BY <2>1, <2>3 DEF IInv, TypeInv, Running
        <3>2. pc = "call" => Asked' /\ GapIsKnown' /\ Untouched'
            BY <2>1 DEF IInv, Asked, GapIsKnown, Shifts, Gap, Fitting, is_uninitialized, Untouched
        <3>3. KeepsCapacityElements'
            BY <2>1 DEF IInv, KeepsCapacityElements, Contents, Unbounded
        <3>4. LiveIsWindow'
            BY <2>1 DEF IInv, LiveIsWindow, Live, Window, Ended
        <3> QED
            BY <2>1, <2>3, <3>1, <3>2, <3>3, <3>4 DEF IInv, Running
    <2> QED
        BY <2>2, <2>3
<1> QED
    BY <1>1, <1>2

\* Outside the two defects, insert_n and rinsert_n keep the account of which
\* slots are free, which are written and what they hold, in every loop and in
\* every handler.
THEOREM Invariance == NoDefects /\ Spec => []IInv
<1>1. NoDefects /\ Init => IInv
    BY InitIInv
<1>2. NoDefects /\ IInv /\ [Next]_bvars => IInv'
    BY Inductive
<1>3. NoDefects => NoDefects'
    BY DEF NoDefects
<1> QED
    BY <1>1, <1>2, <1>3, PTL DEF Spec

\* With the items put in at the position, insert leaves the last capacity()
\* elements of the sequence, rinsert the first: whatever the position, however
\* the contents wrap and however many items there are.
THEOREM KeepsTheRightElements == NoDefects /\ Spec => []KeepsCapacityElements
<1>1. IInv => KeepsCapacityElements
    BY DEF IInv
<1> QED
    BY <1>1, Invariance, PTL

\* No element is constructed over another one, assigned to a free slot, read
\* when there is none or destroyed twice, by the loops or by a handler.
THEOREM SlotsAreUsedRight == NoDefects /\ Spec => []NoLifecycleFault
<1>1. IInv => NoLifecycleFault
    BY DEF IInv, NoLifecycleFault
<1> QED
    BY <1>1, Invariance, PTL

\* After the call, thrown or not, the members say which slots hold an element:
\* none is leaked and none is destroyed later that is not there.
THEOREM WindowIsLive == NoDefects /\ Spec => []LiveIsWindow
<1>1. IInv => LiveIsWindow
    BY DEF IInv
<1> QED
    BY <1>1, Invariance, PTL

=============================================================================
