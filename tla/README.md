# A TLA+ verification of Boost.CircularBuffer

The repository is a header-only C++ library: `boost::circular_buffer`, its
space-optimized adaptor, the iterators and the debug support behind them, and
two examples (`bounded_buffer` and its comparison with buffers over other
containers) that document how the container is used between threads. This directory holds TLA+ modules that model it, TLC configurations
that check them on small instances, and proofs that TLAPS checks for every
instance. `base.hpp`, `details.hpp` ... stand for files under
`src/include/boost/circular_buffer/`.

## 1. Inventory

| Part | State | Operations | What makes it correct |
|---|---|---|---|
| `circular_buffer` (`base.hpp`) | `m_buff`, `m_end`, `m_first`, `m_last`, `m_size` and the raw memory behind them | `push_*`, `pop_*`, `insert`, `rinsert`, `erase`, `rerase`, `clear`, `set_capacity`, `rset_capacity`, `rotate`, `resize`, `rresize` | pointers and size agree; a slot holds a live element exactly when it lies in the window `[m_first, m_first + m_size)`; behaves as a bounded deque; exceptions lose nothing that is not overwritten |
| `linearize` (`base.hpp:648`) | the same, plus five locals of two nested loops | one in-place algorithm | terminates, sorts the elements into place, keeps them all |
| range `insert` / `rinsert` (`base.hpp:2817-2967`) | the same, plus counts of items to skip, construct and overwrite | `insert_n`, `rinsert_n` and their handlers | the documented elements are kept; the handlers undo what was done |
| construction, assignment, swap (`base.hpp:1035-1413`, `2491-2751`) | the memory block, the allocator | constructors, `initialize*`, `assign*`, `operator=`, `swap`, destructor | nothing leaks, the strong guarantee where promised |
| iterators (`details.hpp`) | `m_buff`, `m_it` (0 for `end()`) | arithmetic, comparison | addition and subtraction follow the ring; `end()` is never confused with a slot |
| `uninitialized_*` helpers (`details.hpp:423-477`) | none | copy, move, fill into raw memory | on a throw they destroy what they constructed |
| `circular_buffer_space_optimized` (`space_optimized.hpp`) | a `circular_buffer` and a `capacity_control` (capacity, min_capacity) | every mutating operation, with `check_low_capacity`, `check_high_capacity` and `ensure_reserve` around it | `size() <= internal capacity <= capacity()`, `min_capacity` kept |
| debug registry (`debug.hpp`) | a linked list of live iterators per container | register, unregister, invalidate | an iterator that is valid points to the element it was made for |
| allocator traits (`allocators.hpp`) | none | forwarding | - |
| `bounded_buffer` (`example/circular_buffer_bound_example.cpp`) | a `circular_buffer`, `m_unread`, a mutex, two condition variables | `push_front`, `pop_back` | each item consumed once, in order; nobody waits forever |
| the buffers compared with it (`example/bounded_buffer_comparison.cpp`) | a space optimized buffer, a deque or a list in its place, `size()` for `m_unread` | the same | the same |

**How the parts interact.** Every operation of the container is a sequence of
steps on single elements: constructions, assignments and destructions of `T`,
of which the first two call user code that may throw. Between two such steps
the object is visible to nobody but its own handler (`BOOST_CATCH`), so the
interleaving that matters is that of *exceptions* with the loop, and what the
next operation, or the destructor, finds afterwards. The iterators read
`m_first`, `m_last`, `m_buff` and `m_end` of their container; in debug mode
each container also keeps a chain of the iterators that are valid, which every
assignment to and destruction of an element thins out. The adaptor
derives from `circular_buffer` and changes its capacity around each call. Only
`bounded_buffer` is used by several threads.

**What is hard.** (1) *Partial failure*: a handler must know, from a flag or a
counter, which slots were constructed when the copy threw. (2) *Stale answers*:
`is_uninitialized(p)` compares `p` with `m_first` and `m_last`, and is asked
about slots that the same loop is filling while these pointers stay put.
(3) *Boundaries*: `m_first == m_last` means full or empty; loops end on the
equality of wrapping pointers. (4) *Sequences of calls*: which layout an
operation finds depends on the history. (5) *Threads* in `bounded_buffer`:
`notify_one` after the unlock, a predicate instead of the container's own
bounds, and an exception between the two halves of a pop. (6) *Iterators* outlive the
calls: which of them an operation invalidates, and what the others then point
to, depends on slots, while the documentation speaks of positions. The list of hazards,
each at its line, is in `PROJECT.json`.

## 2. The modules

| Module | Models | Proved about |
|---|---|---|
| `RingPointers` | `increment`, `decrement`, `add`, `sub`, `linearize_pointer`, and the window they describe. Pointers are offsets from `m_buff`. | yes |
| `RingPointers_proofs` | lemmas about them, about positions that go round twice, and least elements | |
| `DequeOperations` | what each operation promises, as operators on sequences: when it may be called, what it leaves (one `...Outcome` operator per operation, which `After` selects by name), what an exception may leave | |
| `BoundedDeque` | the abstract specification over them: a sequence of at most `capacity` elements; a call is one step and its return, normal or by exception, another | |
| `CircularBuffer` | the core: every operation on single elements, erase of one and of a range, `clear`, `set_capacity`, `rset_capacity`, `rotate`, one TLA+ step per step on an element; refines `BoundedDeque` | yes |
| `MCCircularBuffer` | the TLC instance of `CircularBuffer` | |
| `CircularBuffer_proofs` | lemmas and theorems about pointers and slots; the proofs that `CircularBuffer` implements `BoundedDeque` and that exceptions lose no element | |
| `Linearize` | the algorithm of `linearize()` on every layout | yes |
| `Linearize_proofs` | its lemmas and theorems | |
| `BulkInsert` | `insert` and `rinsert` of a range with `insert_n` and `rinsert_n` on every layout | yes |
| `BulkInsert_proofs` | its lemmas and theorems | |
| `RangeCalls` | the operations made of other operations: `resize`, `rresize`, and `insert`, `rinsert` and `assign(capacity, ...)` of input iterators, item by item | yes |
| `RangeCalls_proofs` | its lemmas and theorems | |
| `DebugIterators` | iterators, their arithmetic, the chains of debug mode and what every operation of the container invalidates | yes |
| `MCDebugIterators` | its TLC instance, with the symmetry of addresses | |
| `DebugIterators_proofs` | lemmas about linked chains and the walks that unlink from them, about what each operation touches, and the theorems | |
| `Construction` | constructors, copy and move, `assign`, `operator =`, `swap`, destruction, `erase_begin`, `erase_end`, `clear` of several buffers, with the memory blocks they allocate | yes |
| `Construction_proofs` | lemmas and theorems about members and memory, and about contents | |
| `SpaceOptimized` | `circular_buffer_space_optimized`: the capacity policy around the operations of the base class | yes |
| `MCSpaceOptimized` | the TLC instance of `SpaceOptimized`: which calls with which arguments | |
| `BoundedBuffer` | `bounded_buffer`, and the buffers compared with it, with producer and consumer threads | yes |
| `Clients_proofs` | the proofs about the two classes written in terms of `circular_buffer`: lemmas about powers of 2 and the capacity policy and the theorems of `SpaceOptimized`; lemmas and theorems of `BoundedBuffer` | |

`CircularBuffer` instantiates `BoundedDeque` with its state as a refinement
mapping. `SpaceOptimized` uses the same operators of `DequeOperations` twice:
for what the base class does to its elements inside a call, and, with the
capacity the user set in place of the internal one, for what the whole call
must do. `RangeCalls` does likewise for the calls made inside a call, and
`DebugIterators` for where each element is after a call.

### CircularBuffer

`cap`, `first`, `last`, `size` are `m_end - m_buff`, `m_first`, `m_last`,
`m_size`. `mem` maps each slot to `Raw` (no object lives there), a value, or
`Moved` (a live object that was moved from). `pc` says where the call in
progress is; `pos`, `src`, `dest`, `construct`, `count` are its local variables
under their own names, and the start of each operation says what they stand
for. `Invoke` makes a call: any operation, with any arguments that meet its
`BOOST_CB_ASSERT`s. The operation then runs by its own actions (`InsertShift`
is one iteration of the `while` in `insert_item`, `InsertCatch` its handler
...) until `Return` or `Throw` goes back to `"idle"`. Runs of steps that cannot
throw (`destroy_content`, the destruction and the adoption of a new block in
`reset`, a `push` followed by a `pop` in `rotate`) are one action.

`fault` is a history variable: it is set by a construction over a live element
and by an assignment to, a move from, or a destruction of a raw slot. `old` is
the contents when the call was made, which the refinement shows until the call
returns.

`NothrowMove` selects what `move_if_noexcept` does: FALSE, elements are copied
and every copy may throw; TRUE, they are moved, leaving `Moved` behind, and
moving does not throw. The item of the call is copied in both cases (the
`const value_type&` overloads) and that copy may throw.

Two conventions about `T`: an assignment that throws leaves its target as it
was, and `NothrowMove` covers the move assignment as well as the constructor
(the code asks only about the constructor: the documentation requires both).

### Linearize and BulkInsert

Both start from every state that `CircularBuffer` can be in between two calls:
any capacity, `m_first` and size, with the window live and nothing else, which
is what the theorems `WindowIsLive` and `PointersAlwaysAgree` establish. They
run one call. Since the algorithms never look at a value, the k-th element
holds k, so that order and loss can be stated.

`BulkInsert` has a constant `Excluded` naming findings 1 and 2 of section 4 that
a run keeps away from, as conditions on the call (`Gap`) or on the moment of an
exception (`PrependCatch`). With both excluded all properties hold; each of the
two violation runs lets one of them in.

### RangeCalls

One call from every contents. A call made inside is `Does` (what it promises) or
`Fails` (what its exception may leave). `pos` is the iterator as a position,
`Len(s) + 1` for the end, `rest` the items still to be read. `incremented` is a
history variable: it records that `++pos` was applied to the end, which
`operator ++` asserts not to happen.

### DebugIterators

`ring` holds capacity, first slot and size of each container, `head` its
`m_iterators`, `it` the registry, next, container and slot of each iterator.
The chain is linked as in the code, and the three invalidations walk it with
the temporary iterator of the call in it (`Temp`), as `replace` and
`destroy_item` make it. An operation of a container is one step: it touches the
slots it assigns to and destroys, and leaves the ring its C++ function leaves.
The history `denotes` follows, from the documentation alone, the position each
iterator is at: every "Iterator Invalidation" paragraph is a case of
`Invalidated`, and an element that stays is where `DequeOperations` says. So
slots and chains on one side meet positions on the other. Containers are
destroyed and made again at the same address, iterators outlive them and are
assigned between containers. A step whose assertion fails stops the program and
is no step. The `assert` of a default constructed iterator is observation l.

### Construction

`obj` maps each variable of type `circular_buffer` to `Dead` or its members,
and `heap` each memory block to its size and slots. A call is `Invoke`, a step
for `allocate` and a step for each item that is copied, since each of these may
throw; what cannot throw is one step (`Built`: the destruction of the old
buffer and the assignment of the members). `self` holds the members of the
buffer under construction, `k` the number of items read. The i-th item of a
call is the number i, so that skipped, lost and misplaced items show. `fault`
is the history variable of `CircularBuffer`, extended to blocks that are
returned with another size than they were allocated with or with elements left
in them. `scalar`, chosen once, says whether the element type is scalar: its
copies do not throw, and `destroy_content`, `erase_begin` and `erase_end` jump
instead of destroying one by one. `Defects` names the calls whose known defects
a run lets in ("input" is finding 3, "fill" observation a of section 4):
without it the copy of an item does not throw in those two calls. `assign` of
input iterators reads its items into a `std::deque` first: a throw before that
is done changes nothing (`ReadThrows`), afterwards it is the other `assign`.

### SpaceOptimized

`contents` and `inner` are the elements and the capacity of the base class,
`ctrl` is `m_capacity_ctrl`. A call is `Invoke` and one completing step, which
composes what the C++ function composes: for a growing call the internal
capacity of `check_low_capacity`, then the operation under that capacity; for
a shrinking one the operation, then the internal capacity of
`check_high_capacity`; each with the exceptions of the reallocation and of the
operation as alternatives. The base class is its contract, `DequeOperations`,
which `CircularBuffer` implements. `size_type` has `Bits` bits and wraps; the
doubling loop is the set `Doublings` of rounds after which it may stop, and a
call whose set is empty never completes. No call completes with an internal
capacity above `max_size`, which `allocate` refuses (`base.hpp:2381`); it throws
if `MayFail` lets it. The bounds of the run stay below.

`MayFail` names the operations that may meet an exception. The run leaves out
`set_capacity`, `rset_capacity` and `assign(capacity_ctrl, first, last)`, whose
exceptions leave controller and internal capacity apart (observations e, k).
`Huge` holds numbers of items near the largest value of `size_type`; it is empty
in the run (observations i, j).

### BoundedBuffer

Each thread runs `Step(t)`: take the mutex, wait on the predicate, transfer one
item, unlock, notify. `wait` releases the mutex and blocks in one step and must
take the mutex again after it was notified (`"relock"`) or woken spuriously.
`container` is the `circular_buffer`, first element first, with the overwriting
`push_front`; `unread` is `m_unread`. The threads make a fixed number of calls,
chosen, as in `fifo_test`, so that there is an item for every pop and room for
every push. `removes`, chosen once, says which of the compared buffers it is:
FALSE, `bounded_buffer`, whose pop only counts `m_unread` down; TRUE, the
buffers over a space optimized buffer, a deque or a list, whose pop removes the
item and whose predicates ask for `size()`, the value of `unread` then. A thread
whose call throws repeats it. `PopMayThrow` lets the copy in `bounded_buffer`'s
`pop_back` throw as well as the others; it is FALSE in the run (observation d).
That the space optimized buffer may fail to reallocate while it removes, after
the item was read, is not modelled.

## 3. The runs

| Run | Instance | Shows |
|---|---|---|
| `core_copy` | capacity up to 4, three values, copying | all safety of the core under exceptions, the refinement of `BoundedDeque`, the inductive invariant |
| `core_move` | capacity up to 3, three values, moving | the same for element types that are moved, and every call returns; the invariants, proved for both settings, are not repeated |
| `linearize` | every layout up to capacity 7 | the result, the handler, termination |
| `bulk_insert` | every layout up to capacity 5, ranges up to 6 items | documented result, handlers, termination, outside findings 1 and 2 |
| `bulk_misclassified`, `bulk_handler` | the same | findings 1 and 2 |
| `construction` | two variables, capacity up to 3, up to 4 items, scalar and other element types | the memory of every constructor, assignment, move and destruction under exceptions, and the documented contents |
| `construction_input` | the same, the input iterator constructor may throw | finding 3 |
| `space_optimized` | capacity up to 6, lists up to 5 items, 6 bits, two values, every operation at every position | the policy keeps its limits, its minimum and its reserve and its loop ends, for every history of sizes and controllers; with it the adaptor behaves like a `circular_buffer` of the user's capacity |
| `debug_iterators` | two containers, capacity up to 4 and 4 slots together, two iterators | chains, validity and positions, for every sequence of calls |
| `range_calls` | every contents up to capacity 4, ranges up to 5 items, every size | input ranges item by item, and `resize`, do what is documented of the whole; the position stays inside |
| `fifo` | two producers, two consumers, capacity 2, one item preloaded, a spurious wakeup, a throwing copy, each of the buffers compared | exactly once, in order, nothing overwritten unread, no lost wakeup, all threads finish |

**Bounds.** A bound on the capacity (`MaxCapacity`) is the only one the core
needs: there is no bound on the number of calls, so `core_*` explore every
sequence of calls. Capacity 4 gives free slots on either or both sides of the
elements, wrapped and unwrapped windows, and shifts of three elements, so that
a loop has a first, a middle and a last iteration. `linearize` needs 7 for
several rounds of its outer loop with both branches of the inner one.
`bulk_insert` takes ranges longer than the capacity, so that items are skipped,
overwrite and are constructed in one call. `construction` needs capacity 3 for
a wrapped window with a free slot, more items than that so that some are
skipped, and two variables so that copy, move and swap have a partner or
themselves. In `space_optimized` capacity 6 allows two halvings and doublings
that are clipped and a fifth that is not 0, and lists of 5 items overflow the
smaller capacities; no number in the run reaches the wrap at 2^`Bits`.
`debug_iterators` has a container of four slots, or two that share them: rings
that wrap with a free slot and elements on both sides of a position, two
iterators in one chain, which with the temporary of a call is one of three, or
one in each of two. `range_calls` has ranges longer than the capacity, so that
items fall out on the way, and every free space before them. In
`BoundedBuffer`, capacity 2 and
two threads a side make both sides block and compete; `MaxSpurious` and
`MaxThrows` bound what the environment adds.

Values are symmetric in `core_copy` and addresses in `debug_iterators`, whose
properties are safety properties. `CHECK_DEADLOCK FALSE` is set where the
system may stop: after the one call of `Linearize`, `BulkInsert` and
`RangeCalls`, and when the threads of `BoundedBuffer` are done. The other runs
never deadlock, since a call can always be made and always goes on.

**Fairness.** `core_move`: weak fairness of the steps of the operation in
progress, that is, the calling thread keeps running. `linearize` and
`bulk_insert` likewise. `fifo`: weak fairness of each thread's own steps, that
is, the scheduler runs whoever can run; no fairness of the mutex or of
`notify_one`'s choice is assumed, and none of spurious wakeups.

## 4. Findings

Each with a run that shows it:

1. `bulk_misclassified`: `is_uninitialized` answers false for free slots in
   front of `m_first`, and the range insertions then assign to raw memory.
2. `bulk_handler`: the handler of `rinsert` of a range at `begin()` extends the
   buffer at the wrong end.
3. `construction_input`: the constructor from a capacity and input iterators
   has no handler: it leaks block and elements when a copy throws.

Observations without a run of their own, each a consequence of the model under
the named constants:

- a. The handler of `initialize_buffer(capacity, item)` (`base.hpp:2502`) returns
  the block with `size()` instead of its capacity (`Defects = {"fill"}`,
  `NoMemoryFault` of `Construction`).
- b. After a throwing assignment of the item, `insert` and `rinsert` of a type
  that is moved leave a moved-from element in the buffer, which the
  documentation says is avoided (`NothrowMove = TRUE`).
- c. `is_linearized()` is false for an empty buffer that has been rotated away
  from `m_buff`.
- d. `bounded_buffer::pop_back` counts `m_unread` down before a copy that may
  throw: the item is lost (`PopMayThrow = TRUE`, `ExactlyOnceInOrder`).
- e. `assign(capacity_ctrl, first, last)` of the adaptor sets the controller
  first; after an exception there may be more elements than the capacity
  (`MayFail = {"assign_range"}`, `CapacityIsTheLimit`).
- f. `check_high_capacity` can double the internal buffer on a removal, since it
  ends in `ensure_reserve`.
- g. With `min_capacity` 0 an empty buffer frees its memory and allocates on the
  next push, an oscillation the comment at `space_optimized.hpp:1567` means to
  avoid.
- h. `assign(capacity_ctrl, first, last)` allocates the whole capacity, not what
  its comment says (`space_optimized.hpp:701`).
- i, j. For numbers of items in the upper half of `size_type` the doubling in
  `check_low_capacity` wraps to 0: it loops forever (`Huge = {12}` with 4 bits,
  `DoublingStops`), or sets the internal capacity to 0 and drops all elements
  (`Huge = {7}`, `ActsLikeDeque`).
- k. `set_capacity` of the adaptor is documented with the strong guarantee
  (`space_optimized.hpp:209`) but changes the controller, and may erase elements,
  before the reallocation that can throw; `rset_capacity` alike, and `operator =`,
  documented alike, destroys the contents first when the internal capacity is
  the size of the source (`MayFail = {"set_capacity"}`, `CapacityIsTheLimit`).
- l. The assertions of the iterator that "check for uninitialized or invalidated
  iterator" (`details.hpp:295`) ask `is_valid(m_buff)`, which holds for a default
  constructed iterator, whose registry and container are both null: `Usable` of
  `DebugIterators` asks for a container besides.
- m. `operator --` on the end of an empty buffer passes its assertion, since
  `m_it` is null there and `m_first` is not (`details.hpp:313`).

## 5. The proofs

`CircularBuffer_proofs` proves, for every `MaxCapacity`, every set of values
and both settings of `NothrowMove`, without further assumptions than the three
`ASSUME`s of `CircularBuffer`:

- `TypeCorrect`: `Spec => []TypeOK`
- `PointersAlwaysAgree`: `Spec => []PointersAgree`
- `LifecycleSafe`: `Spec => []NoLifecycleFault`
- `WindowIsLive`: `Spec => []LiveIsWindow`
- `InvariantHolds`: `Spec => []IInv`

None of the four properties is inductive. `NoLifecycleFault` needs to know
which slots are live, in the middle of a loop; `LiveIsWindow` speaks only of
the moments between calls. `IInv` adds one loop invariant per label
(`LoopInvariants`): where the local pointers stand relative to `m_first` and
`m_last`, and which slots are live after each iteration. In the shift of
`insert_item`, for instance, the live slots are the window plus, once
`construct` is FALSE, the slot at `m_last`, which is exactly what the handler
then takes in. TLC checks `IInv` as an invariant of `core_copy`.

The argument is laid out in three layers: the ring lemmas of
`RingPointers_proofs` (`increment`, `decrement`, `add`, `sub` stay in the buffer,
agree with `Index`, and move the window by one slot at either end), one lemma
per action (`InsertShiftIInv` ...) stating that it preserves `IInv`, and
`Inductive`, which combines them; the temporal theorems follow by `PTL`. The
other proofs are laid out in the same way.

The second half of `CircularBuffer_proofs` proves `Implements`, `Spec =>
ImplementsDeque`, under the same assumptions: contents, order, capacity and returned iterator of every
operation of the core are those of the operators of `DequeOperations`, and an
exception leaves what `BoundedDeque` allows. `RInv` strengthens `IInv` by what
each loop has done to the elements so far: `Holds(k, j)` says that position `k`
holds the element that was at `j` when the operation was called, and `Order`
says for each label which `k` holds which `j` (`InsertOrder`, `EraseOrder`,
`RelocateOrder`, `RotateOrder` ...), the exceptions of a full buffer included,
whose first shift goes over the element that is lost anyway. `HoldsOld` adds
that a slot holds nothing but an old element, the item or `Moved`, which is what
an exception may leave. There is one lemma per action (`InsertShiftRefines` ...):
the step preserves the invariant, and it is the abstract call's return, its
failure, or invisible. `StepRefines` combines them. The returns need what the
operators of `DequeOperations` give position by position.

From the same invariant follows `ThrowsKeepElements`, `Spec =>
ThrowKeepsElements`: the step that throws finds each element that the completed
call would have kept at the position `Order` names, and the handlers of `insert`
and `rinsert` keep that position inside the buffer. The theorem needs no
assumption on `NothrowMove`: where elements are moved, the item's copy throws
after the shift, when each element has arrived at its new position. The
moved-from element that stays behind in the gap comes on top.

`Linearize_proofs` proves, for every `MaxCapacity` and `NothrowMove`, that
`linearize()` returns the elements in order from the pointer it returns
(`ResultIsAnArray`), uses no slot wrongly (`SlotsAreUsedRight`), leaves exactly
the window live, thrown or not (`WindowIsLive`), and loses no more than the
element held in the temporary of a swap (`OneLostAtMost`). Its loops are hard
to follow because free slots and elements move about in them. The proof gives
the free slots the numbers behind those of the elements: then every round of
the outer loop rotates a part of *all* slots, and the place of each number is a
function of the five locals (`Spot`, `Place`), whichever branch the inner loop
takes. `Free` and `Constructed` say which numbers are free slots, so what
`is_uninitialized` answers.

`BulkInsert_proofs` proves, for every capacity, layout, position and length of
the range, that `insert` and `rinsert` of a range keep the documented elements
(`KeepsTheRightElements`), use no slot wrongly (`SlotsAreUsedRight`) and leave
exactly the window live after a return and after each of the four handlers
(`WindowIsLive`), provided `NoDefects`: `Excluded` names findings 1 and 2, as
in the run. Each loop writes into one sequence of `size + n` positions that
begins at `m_first` or `n` slots before it. When elements are overwritten the
sequence is longer than the buffer, and one slot stands for two positions;
`At` of `RingPointers_proofs` counts such positions. `IInv` says what a written
position holds (`Held`, `Want`), that the slots written and the window are the
live ones (`LiveWith`), and that the elements still to be shifted are where
they were (`Original`). That no element is overwritten before it was shifted
follows since a loop stays within one round; that the handlers destroy the
right slots follows from `AsksRight`, for which finding 1 must be excluded.

`Construction_proofs` proves all seven properties of the run `construction`, for any number of variables, any bounds
on capacities and items, and scalar and other element types: `BlocksHaveOneOwner`
(`OneOwner`), `ElementsAreInTheWindow` (`LiveIsWindow`), `MemoryIsUsedRight`
(`NoMemoryFault`), and of the calls `ContentsAreHandedOver`, `ThrowsAreContained`,
`EndsAreErased` and `LastItemsAreBuilt`. They assume `NoDefects`: `Defects` lets
neither finding 3 nor observation a in, as in the run. `IInv` says that
the members, those of the buffer under construction included, fit the block
they point to (`Consistent`), that each block has one owner (`Owners`, `Owned`),
and how far the loop has come (`BuildInv`). That a free block is left whenever
one is allocated is counted (`FreeBlock`): the model has one block more than
variables. The contents need two further invariants: that `old`
is what the buffer held when it was called (`Remembered`), and that the items
copied are those of the range, one after the other (`Copied`).

`RangeCalls_proofs` proves, for every capacity, contents, position, size and
length of the range, that `resize`, `rresize` and the insertions of input ranges
leave what is documented of the whole call (`ItemByItem`), and that the loops
never leave the buffer with their position (`PositionIsInside`). `Want(d, k)` is
the `k`-th element of the sequence that `d` items were put into without a bound;
`IInv` says that after `d` items the buffer holds the last (`insert`) or first
(`rinsert`) `capacity()` of them. The proof rests on what the operators of
`DequeOperations` return, element by element (`InsertAtFacts`, `WithoutFacts`,
`BackFacts` ...). It takes from the calls made inside only what they promise.

`Clients_proofs` proves all five properties of the run `space_optimized`,
for every width of `size_type`, every bound on the capacities, and all sets of
values, sequences and calls that the named assumptions admit (they state the
preconditions which the arguments of a call alone decide). The inductive
invariant is `Sound`: `size() <= internal capacity <= capacity()` (which is
`CapacityIsTheLimit`), the internal capacity is at most `max_size`, the
controller is in order and the call in progress meets its precondition; TLC
checks it, and the first hypothesis below, on the states of the run. The
theorems speak of the behaviours in which

- `Moderate` holds: the size that a growing call asks for is less than two fifths
  of the range of `size_type`, which is four fifths of `max_size`. Observations
  i, j show that this is needed: beyond it, `2 * new_capacity` may wrap in
  `ensure_reserve`;
- no step is `FailsHalfway`: no exception meets `set_capacity`, `rset_capacity` or
  `assign(capacity_ctrl, first, last)`, which have set the controller by then
  (observations e, k). Exceptions in all other calls are allowed.

Then `CapacityIsKept`, `DoublingEnds`, `MinimumIsKept` and `ReserveIsLeft` follow
from two lemmas about the policy. `LowCapacityHolds` and `HighCapacityHolds` say
that the new internal capacity holds the elements or is `capacity()`, is not
below the minimum, and has its reserve. The loops are sets of rounds, of which
the least element is taken: the halving ends since `2 ^ Bits` is more than any
number, the doubling since the round before its last was still below the size
asked for. That powers of 2 double, which the provers do not know, is counted:
`2 ^ k` is the number of subsets of `1 .. k`. `ActsLikeCircularBuffer` shows that
each operation of `DequeOperations` gives the same under the internal capacity
as under the user's, since either nothing overflows or both are equal, and that
the insertions and erasures that `resize`, `rresize` and `clear` are made of give
what those promise.

The second part of `Clients_proofs` proves, for any finite number of producers and consumers,
any capacity and any quotas that meet `QuotaAssumption`, and for all the buffers
compared:

- `TypeCorrect`: `BufferSpec => []TypeOK`, mutual exclusion included
- `InOrder`: `PopMayThrow = FALSE => (BufferSpec => []ExactlyOnceInOrder)`
- `NothingOverwritten`: `PopMayThrow = FALSE => (BufferSpec => LosesNothing)`
- `WakeupsArrive`: `PopMayThrow = FALSE => (BufferSpec => []NoLostWakeup)`

The assumption is observation d: a copy that throws in `bounded_buffer`'s pop
skips an item, and frees a slot without notifying anybody.
`ExactlyOnceInOrder` speaks of the unread items only, but the container of
`bounded_buffer` keeps read ones behind them, and what a push overwrites is one
of those: `History` adds that the whole container is the newest items pushed
(`HoldsTheNewest`) and that the items read are the oldest (`HandedOut`).
`NothingOverwritten` is the corresponding action: the item that disappears is
older than all unread ones, since `unread < Capacity` when a push goes ahead.
`NoLostWakeup` counts the threads that will still look at the predicate
(`ForItems`, `ForRoom`); with `TypeOK` it is inductive (`Served`): each step takes as
many threads out of those sets as it takes items or room away, hands the part
of one thread over to the one it wakes, or finds nobody blocked.
It counts threads with the library's facts about finite cardinalities.

Induction over numbers is not available to the prover as a rule, but the
library's well-foundedness of `<` is. `LeastElement` takes the least
counterexample out of a set, and `BoundedInduction` derives from it what a
property of all numbers up to a bound needs; with them the fold of a recursive
function can be followed step by step.

`DebugIterators_proofs` proves the three properties of the run `debug_iterators`,
for any finite number of iterators, any number of containers and every capacity:
`ExactRegistry` (`RegistryIsExact`), `DocumentedInvalidation`
(`InvalidatesAsDocumented`) and `PositionKept` (`ValidKeepsItsPosition`).
`DebugAssumption` says no more than that variables which are distinct have
distinct addresses, none of them null, and that finitely many iterators exist.
The properties need one another: an operation invalidates by comparing pointers,
so it meets the documentation, which speaks of positions, only if each valid
iterator stands at the slot of its position, and it reaches only iterators that
are in the chain. `Inv` says all three: every ring is in order, the chains are exact
(`Exact`), and an iterator with a registry, and no other, denotes a position and
holds its pointer (`Stands`). The proof has three layers.

- Chains. `Linked(h, b, C)` says that the walk from `m_iterators` meets the
  sequence `C` and then null; `ChainIs` shows that the function of the model
  computes it. Linking at the front, unlinking in the middle and the walk of the
  invalidations with its trailing pointer are followed on such sequences
  (`Walked` is the invariant of the walk: what it has kept so far, then what it
  has not visited), other containers' chains being disjoint and so untouched.
- Calls. `TouchEffect` sums up: touching slots clears the registry of exactly the
  iterators of that container that point to one of them, whatever happens to the
  temporary on the way. `CallStep` reduces each operation to arithmetic: the
  documented positions are those whose slots are touched, and a position that
  survives is at the same slot of the ring that is left.
- Operations. One lemma for each (`InsertStep`, `RInsertNStep`, `RotateStep` ...)
  computes the documented positions, the slots, and where the operators of
  `DequeOperations` put the k-th element; the ring lemmas do the rest.

Only model-checked, and why: the liveness properties (`EveryCallReturns`,
`Terminates`, `AllFinish`), since fairness is out of reach of the prover.

## 6. Plan

Done: all the modules of section 2, with proofs of their safety properties. What
would come next:

1. `DebugIterators` composed with `CircularBuffer`, so that an exception leaves an
   operation half-way and iterators with it.
2. An item that is a reference to an element of the same buffer: `insert_item`
   shifts the elements before it reads the item.
3. The adaptor's insertion of input ranges, and its `swap`.

## 7. Not modelled

- Element access, `array_one`, `array_two` and the comparison operators read the
  contents and change nothing. The allocator traits forward to the allocator.
- The other examples are straight-line usage. Tests, documentation and build
  files have no behaviour of their own.
- Allocators with state of their own (`swap_allocator`, propagation).
- In debug mode: operations that throw half-way, and the pattern that fills the
  memory of destroyed elements.
- The insertion of input iterator ranges by the adaptor
  (`space_optimized.hpp:1641`, where `std::distance` reads the range first), and
  its `swap`.
- The item of a call as a reference into the buffer (section 6).
- A reallocation that fails inside a pop of the space optimized bounded buffer.
