----------------------------- MODULE BulkInsert -----------------------------
(***************************************************************************)
(* insert(pos, first, last) and rinsert(pos, first, last) for forward      *)
(* iterators, with insert_n and rinsert_n (base.hpp): the operations that  *)
(* open a gap of several slots, where one exception leaves many elements   *)
(* half way.  insert(pos, n, item) and rinsert(pos, n, item) run the same  *)
(* code on n equal items.                                                  *)
(*                                                                         *)
(* One call is made on every state CircularBuffer can be in between two    *)
(* calls.  The code never looks at a value: the k-th element of the buffer *)
(* holds k, and the k-th item of the range holds MaxCapacity + k.          *)
(***************************************************************************)
EXTENDS RingPointers, Sequences

CONSTANTS MaxCapacity,  \* bound on the capacities a run explores
          MaxItems,     \* bound on the length of the inserted range
          Excluded      \* the defects below a run keeps away from

ASSUME BulkAssumption == /\ MaxCapacity \in Nat /\ MaxItems \in Nat
                         /\ Excluded \subseteq {"is_uninitialized", "rinsert handler"}

Raw == 0        \* an uninitialized slot

VARIABLES
    cap, first, last, size, mem,    \* the buffer
    pc,                             \* where the call is
    op,                             \* the call: "insert" or "rinsert"
    at,                             \* the position asked for: begin() + at
    items,                          \* the length of the range
    pos,                            \* m_it of the position
    n, construct,                   \* items to insert, how many into free slots
    src, dest, p, ii,               \* local pointers and counter
    drawn,                          \* items read from the range, skipped ones included
    count,                          \* history: the size when the call was made
    fault                           \* history: an element life-cycle rule was broken

buffer == <<cap, first, last, size>>
args   == <<op, at, items, pos, count>>
params == <<args, n, construct>>
bvars  == <<buffer, mem, pc, params, src, dest, p, ii, drawn, fault>>

Lesser(a, b) == IF a < b THEN a ELSE b

\* "Does the pointer point to the uninitialized memory?"
is_uninitialized(q) == q >= last /\ (first < last \/ q < first)

Live == {q \in Slots(cap) : mem[q] # Raw}

Contents == [k \in 1 .. size |-> mem[Add(first, k - 1, cap)]]

\* construct_or_replace(raw, d, v)
Write(raw, d, v) ==
    /\ mem' = [mem EXCEPT ![d] = v]
    /\ fault' = (fault \/ raw # (mem[d] = Raw) \/ v = Raw)

\* The next item of the range, *wrapper().
Item == MaxCapacity + drawn + 1

\* Of items, as many are inserted as fit without overwriting what lies behind
\* the position (insert) or in front of it (rinsert).
Fitting == Lesser(items, IF op = "insert" THEN cap - (size - at) ELSE cap - at)

\* The free slots the call will fill.
Gap == IF op = "insert" THEN {Add(last, k, cap) : k \in 0 .. Lesser(cap - size, Fitting) - 1}
       ELSE {Sub(first, k, cap) : k \in 1 .. Lesser(cap - size, Fitting)}

\* Only shifting asks is_uninitialized about slots.
Shifts == IF op = "insert" THEN at < size ELSE at > 0

---------------------------------------------------------------------------
Init ==
    /\ cap \in 0 .. MaxCapacity
    /\ first \in (IF cap = 0 THEN {0} ELSE Slots(cap))
    /\ size \in 0 .. cap
    /\ last = Add(first, size, cap)
    /\ mem = [q \in Slots(cap) |->
                IF Index(q, first, cap) < size THEN Index(q, first, cap) + 1 ELSE Raw]
    /\ pc = "call"
    /\ op \in {"insert", "rinsert"}
    /\ at \in 0 .. size
    /\ items \in 0 .. MaxItems
    /\ pos = IF at = size THEN NULL ELSE Add(first, at, cap)
    /\ n = 0 /\ construct = 0
    /\ src = 0 /\ dest = 0 /\ p = 0 /\ ii = 0 /\ drawn = 0
    /\ count = size /\ fault = FALSE
    /\ "is_uninitialized" \in Excluded /\ Shifts => \A q \in Gap : is_uninitialized(q)

Prologue == n' = Fitting /\ construct' = Lesser(cap - size, Fitting)

\* Mutant: the items that would be overwritten are inserted.
InsertSkipsNothing ==
    /\ pc = "call" /\ op = "insert"
    /\ Prologue
    /\ n' > 0
    /\ drawn' = 0
    /\ \/ pos = NULL /\ pc' = "end" /\ p' = last /\ UNCHANGED <<src, dest>>
       \/ /\ pos # NULL
          /\ pc' = "shift" /\ src' = last /\ dest' = Add(last, n' - 1, cap) /\ p' = pos
    /\ UNCHANGED <<buffer, mem, args, ii, fault>>

\* insert() skips the items at the beginning that would be overwritten again.
Insert ==
    /\ pc = "call" /\ op = "insert"
    /\ Prologue
    /\ \/ /\ n' = 0
          /\ pc' = "done"
          /\ UNCHANGED <<src, dest, p, drawn>>
       \/ /\ n' > 0 /\ pos = NULL
          /\ drawn' = items - n'
          /\ pc' = "end" /\ p' = last
          /\ UNCHANGED <<src, dest>>
       \/ /\ n' > 0 /\ pos # NULL
          /\ drawn' = items - n'
          /\ pc' = "shift" /\ src' = last /\ dest' = Add(last, n' - 1, cap) /\ p' = pos
    /\ UNCHANGED <<buffer, mem, args, ii, fault>>

Completed ==
    /\ last' = Add(last, n, cap)
    /\ first' = Add(first, n - construct, cap)
    /\ size' = size + construct
    /\ pc' = "done"
    /\ UNCHANGED <<cap, mem, params, src, dest, p, ii, drawn, fault>>

\* Mutant: constructs one item too many.
AppendItemOffByOne ==
    /\ pc = "end" /\ ii < n
    /\ Write(ii <= construct, p, Item)
    /\ p' = Increment(p, cap)
    /\ ii' = ii + 1
    /\ drawn' = drawn + 1
    /\ UNCHANGED <<buffer, pc, params, src, dest>>

\* One item behind the end: the first "construct" of them into free slots.
AppendItem ==
    /\ pc = "end" /\ ii < n
    /\ Write(ii < construct, p, Item)
    /\ p' = Increment(p, cap)
    /\ ii' = ii + 1
    /\ drawn' = drawn + 1
    /\ UNCHANGED <<buffer, pc, params, src, dest>>

\* Its handler takes in what was constructed.
AppendCatch ==
    /\ pc = "end" /\ ii < n
    /\ last' = Add(last, Lesser(ii, construct), cap)
    /\ size' = size + Lesser(ii, construct)
    /\ pc' = "threw"
    /\ UNCHANGED <<cap, first, mem, params, src, dest, p, ii, drawn, fault>>

AppendDone == pc = "end" /\ ii = n /\ Completed

\* Mutant: src is not decremented.
ShiftBackStuck ==
    /\ pc = "shift" /\ src # pos
    /\ Write(is_uninitialized(dest), dest, mem[src])
    /\ dest' = Decrement(dest, cap)
    /\ UNCHANGED <<buffer, pc, params, src, p, ii, drawn>>

\* Shift the tail back by n, last element first.
ShiftBack ==
    /\ pc = "shift" /\ src # pos
    /\ src' = Decrement(src, cap)
    /\ Write(is_uninitialized(dest), dest, mem[src'])
    /\ dest' = Decrement(dest, cap)
    /\ UNCHANGED <<buffer, pc, params, p, ii, drawn>>

FillGap ==
    /\ pc = "shift" /\ src = pos /\ ii < n
    /\ Write(is_uninitialized(p), p, Item)
    /\ p' = Increment(p, cap)
    /\ ii' = ii + 1
    /\ drawn' = drawn + 1
    /\ UNCHANGED <<buffer, pc, params, src, dest>>

\* Mutant: the handler destroys nothing.
DestroyNothing(walked) == UNCHANGED <<mem, fault>>

\* destroy_if_constructed on every slot of walked.
DestroyConstructed(walked) ==
    LET gone == {q \in walked : is_uninitialized(q)} IN
    /\ mem' = [q \in Slots(cap) |-> IF q \in gone THEN Raw ELSE mem[q]]
    /\ fault' = (fault \/ \E q \in gone : mem[q] = Raw)

\* The handler walks back from add(m_last, n - 1) to dest, and over the
\* first ii slots of the gap.
InsertCatch ==
    /\ pc = "shift" /\ (src # pos \/ ii < n)
    /\ LET top     == Add(last, n - 1, cap)
           shifted == Index(top, dest, cap) IN
       DestroyConstructed({Sub(top, k, cap) : k \in 0 .. shifted - 1} \cup
                          {Add(pos, k, cap) : k \in 0 .. ii - 1})
    /\ pc' = "threw"
    /\ UNCHANGED <<buffer, params, src, dest, p, ii, drawn>>

InsertDone == pc = "shift" /\ src = pos /\ ii = n /\ Completed

---------------------------------------------------------------------------
RInsert ==
    /\ pc = "call" /\ op = "rinsert"
    /\ Prologue
    /\ \/ /\ n' = 0
          /\ pc' = "done"
          /\ UNCHANGED <<src, dest, p, ii>>
       \/ /\ n' > 0 /\ at = 0
          /\ pc' = "begin" /\ p' = Sub(first, n', cap) /\ ii' = n'
          /\ UNCHANGED <<src, dest>>
       \/ /\ n' > 0 /\ at > 0
          /\ pc' = "rshift"
          /\ src' = first /\ dest' = Sub(first, n', cap)
          /\ p' = IF pos = NULL THEN last ELSE pos
          /\ UNCHANGED ii
    /\ UNCHANGED <<buffer, mem, args, drawn, fault>>

RCompleted ==
    /\ first' = Sub(first, n, cap)
    /\ last' = Sub(last, n - construct, cap)
    /\ size' = size + construct
    /\ pc' = "done"
    /\ UNCHANGED <<cap, mem, params, src, dest, p, ii, drawn, fault>>

\* One item in front of the begin, ii counting down: those that overwrite
\* the end of the buffer come first.
PrependItem ==
    /\ pc = "begin" /\ ii > 0
    /\ Write(ii <= construct, p, Item)
    /\ p' = Increment(p, cap)
    /\ ii' = ii - 1
    /\ drawn' = drawn + 1
    /\ UNCHANGED <<buffer, pc, params, src, dest>>

\* Its handler advances m_last by what was constructed, although with
\* n < reserve() those slots lie before m_first, with a gap.
PrependCatch ==
    /\ pc = "begin" /\ ii > 0
    /\ LET constructed == IF ii < construct THEN construct - ii ELSE 0 IN
       /\ "rinsert handler" \in Excluded => (n >= cap - size \/ constructed = 0)
       /\ last' = Add(last, constructed, cap)
       /\ size' = size + constructed
    /\ pc' = "threw"
    /\ UNCHANGED <<cap, first, mem, params, src, dest, p, ii, drawn, fault>>

PrependDone == pc = "begin" /\ ii = 0 /\ RCompleted

\* Shift the head forward by n, first element first.
ShiftForward ==
    /\ pc = "rshift" /\ src # p
    /\ Write(is_uninitialized(dest), dest, mem[src])
    /\ src' = Increment(src, cap)
    /\ dest' = Increment(dest, cap)
    /\ UNCHANGED <<buffer, pc, params, p, ii, drawn>>

RFillGap ==
    /\ pc = "rshift" /\ src = p /\ ii < n
    /\ Write(is_uninitialized(dest), dest, Item)
    /\ dest' = Increment(dest, cap)
    /\ ii' = ii + 1
    /\ drawn' = drawn + 1
    /\ UNCHANGED <<buffer, pc, params, src, p>>

RInsertCatch ==
    /\ pc = "rshift" /\ (src # p \/ ii < n)
    /\ LET low == Sub(first, n, cap) IN
       DestroyConstructed({Add(low, k, cap) : k \in 0 .. Index(dest, low, cap) - 1})
    /\ pc' = "threw"
    /\ UNCHANGED <<buffer, params, src, dest, p, ii, drawn>>

RInsertDone == pc = "rshift" /\ src = p /\ ii = n /\ RCompleted

---------------------------------------------------------------------------
Next ==
    \/ Insert \/ AppendItem \/ AppendCatch \/ AppendDone
    \/ ShiftBack \/ FillGap \/ InsertCatch \/ InsertDone
    \/ RInsert \/ PrependItem \/ PrependCatch \/ PrependDone
    \/ ShiftForward \/ RFillGap \/ RInsertCatch \/ RInsertDone

Spec == Init /\ [][Next]_bvars /\ WF_bvars(Next)

---------------------------------------------------------------------------
Ended == pc \in {"done", "threw"}

\* What the documentation promises: with the items put in at the position,
\* insert keeps the last capacity() elements of the sequence, rinsert the first.
Unbounded == [k \in 1 .. at |-> k]
             \o [k \in 1 .. items |-> MaxCapacity + k]
             \o [k \in 1 .. count - at |-> at + k]

KeepsCapacityElements ==
    LET all == Unbounded
        len == Lesser(Len(all), cap)
    IN  pc = "done" => Contents = IF op = "insert"
                                  THEN SubSeq(all, Len(all) - len + 1, Len(all))
                                  ELSE SubSeq(all, 1, len)

NoLifecycleFault == ~fault

LiveIsWindow ==
    Ended => /\ Live = Window(first, size, cap)
             /\ last = Add(first, size, cap)

Terminates == <>Ended
=============================================================================
