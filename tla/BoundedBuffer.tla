---------------------------- MODULE BoundedBuffer ----------------------------
(***************************************************************************)
(* bounded_buffer (example/circular_buffer_bound_example.cpp): producers   *)
(* and consumers sharing a circular_buffer under one mutex and two         *)
(* condition variables, run as fifo_test does.                             *)
(*                                                                         *)
(* pop_back does not remove the item: m_unread says how many items at the  *)
(* front of the container are unread, and a full container overwrites its  *)
(* last, long read, item on the next push_front.  The bounded buffers that *)
(* example/bounded_buffer_comparison.cpp sets against it (over a space     *)
(* optimized buffer, a deque and a list) have the same protocol, but their *)
(* pop_back removes the item and their predicates look at size().          *)
(*                                                                         *)
(* The mutex and the condition variables are Boost.Thread's: wait releases *)
(* the mutex and blocks in one step, wakes by a notify_one or spuriously,  *)
(* and takes the mutex again before it returns.                            *)
(***************************************************************************)
EXTENDS Integers, Sequences, FiniteSets

CONSTANTS Producer, Consumer,   \* threads
          Nobody,               \* no thread holds the mutex
          Capacity,             \* m_container.capacity()
          Preload,              \* items pushed before the threads start
          Produced, Consumed,   \* push_front calls per producer, pop_back calls per consumer
          MaxSpurious,          \* bound on spurious wakeups
          MaxThrows,            \* bound on copies of T that throw
          PopMayThrow           \* they include the copy that pop_back makes

Thread == Producer \cup Consumer

ASSUME ThreadAssumption ==
    /\ Producer \cap Consumer = {} /\ Nobody \notin Thread
    /\ IsFiniteSet(Producer) /\ IsFiniteSet(Consumer)

\* As in fifo_test, there are items for every pop and room for every push.
ASSUME QuotaAssumption ==
    /\ Capacity \in Nat \ {0} /\ Preload \in 0 .. Capacity
    /\ Produced \in Nat \ {0} /\ Consumed \in Nat \ {0} /\ MaxSpurious \in Nat
    /\ MaxThrows \in Nat /\ PopMayThrow \in BOOLEAN
    /\ LET in  == Preload + Cardinality(Producer) * Produced
           out == Cardinality(Consumer) * Consumed
       IN out <= in /\ in <= out + Capacity

VARIABLES
    removes,                \* pop_back removes the item: one of the compared buffers
    container, unread,      \* m_container, first element first, and m_unread or size()
    owner,                  \* the thread holding m_mutex
    notFull, notEmpty,      \* threads blocked on the condition variables
    pc, left,               \* where each thread is, and the calls it has left
    spurious, throws,       \* spurious wakeups and throwing copies so far
    pushed, popped          \* history: items in the order they went in and out

shared == <<removes, container, unread, pushed, popped>>
bbvars == <<shared, owner, notFull, notEmpty, pc, left, spurious, throws>>

\* Mutant: off by one.
is_not_overfull == unread <= Capacity

is_not_full  == unread < Capacity
is_not_empty == unread > 0

Blocked == notFull \cup notEmpty

\* circular_buffer::push_front
PushFrontOf(s, x) ==
    IF Len(s) = Capacity THEN <<x>> \o SubSeq(s, 1, Capacity - 1) ELSE <<x>> \o s

Backwards(s) == [k \in 1 .. Len(s) |-> s[Len(s) - k + 1]]

\* The state after the initialization loop of fifo_test.
BufferInit ==
    /\ removes \in BOOLEAN
    /\ pushed = [k \in 1 .. Preload |-> k]
    /\ container = Backwards(pushed)
    /\ unread = Preload
    /\ owner = Nobody
    /\ notFull = {} /\ notEmpty = {}
    /\ pc = [t \in Thread |-> "lock"]
    /\ left = [t \in Thread |-> IF t \in Producer THEN Produced ELSE Consumed]
    /\ spurious = 0 /\ throws = 0
    /\ popped = <<>>

\* scoped_lock, or the end of wait(): take the mutex.
Acquire(t) ==
    /\ pc[t] \in {"lock", "relock"} /\ owner = Nobody
    /\ owner' = t
    /\ pc' = [pc EXCEPT ![t] = "locked"]
    /\ UNCHANGED <<shared, notFull, notEmpty, left, spurious, throws>>

\* wait(lock, predicate) while the predicate is false: unlock and block.
WaitNotFull(t) ==
    /\ t \in Producer /\ pc[t] = "locked" /\ ~is_not_full
    /\ notFull' = notFull \cup {t}
    /\ owner' = Nobody
    /\ pc' = [pc EXCEPT ![t] = "blocked"]
    /\ UNCHANGED <<shared, notEmpty, left, spurious, throws>>

WaitNotEmpty(t) ==
    /\ t \in Consumer /\ pc[t] = "locked" /\ ~is_not_empty
    /\ notEmpty' = notEmpty \cup {t}
    /\ owner' = Nobody
    /\ pc' = [pc EXCEPT ![t] = "blocked"]
    /\ UNCHANGED <<shared, notFull, left, spurious, throws>>

\* Mutant: m_unread is not counted up.
PushFrontUncounted(t) ==
    /\ t \in Producer /\ pc[t] = "locked" /\ is_not_full
    /\ pushed' = Append(pushed, Len(pushed) + 1)
    /\ container' = PushFrontOf(container, Len(pushed) + 1)
    /\ owner' = Nobody
    /\ pc' = [pc EXCEPT ![t] = "notify"]
    /\ UNCHANGED <<removes, unread, popped, notFull, notEmpty, left, spurious, throws>>

\* m_container.push_front(item); ++m_unread; lock.unlock()
PushFront(t) ==
    /\ t \in Producer /\ pc[t] = "locked" /\ is_not_full
    /\ pushed' = Append(pushed, Len(pushed) + 1)
    /\ container' = PushFrontOf(container, Len(pushed) + 1)
    /\ unread' = unread + 1
    /\ owner' = Nobody
    /\ pc' = [pc EXCEPT ![t] = "notify"]
    /\ UNCHANGED <<removes, popped, notFull, notEmpty, left, spurious, throws>>

\* Mutant: the newest item is read.
PopNewest(t) ==
    /\ t \in Consumer /\ pc[t] = "locked" /\ is_not_empty
    /\ unread' = unread - 1
    /\ popped' = Append(popped, container[1])
    /\ owner' = Nobody
    /\ pc' = [pc EXCEPT ![t] = "notify"]
    /\ UNCHANGED <<removes, container, pushed, notFull, notEmpty, left, spurious, throws>>

\* The compared buffers call m_container.pop_back() after they read back().
Unpopped == IF removes THEN SubSeq(container, 1, Len(container) - 1) ELSE container

\* *pItem = m_container[--m_unread], of the last unread item; lock.unlock()
PopBack(t) ==
    /\ t \in Consumer /\ pc[t] = "locked" /\ is_not_empty
    /\ unread' = unread - 1
    /\ popped' = Append(popped, container[unread])
    /\ container' = Unpopped
    /\ owner' = Nobody
    /\ pc' = [pc EXCEPT ![t] = "notify"]
    /\ UNCHANGED <<removes, pushed, notFull, notEmpty, left, spurious, throws>>

\* The copy throws: scoped_lock's destructor unlocks, nobody is notified and
\* the caller repeats its call.  push_front leaves the container alone and
\* m_unread with it; pop_back has decremented m_unread before the assignment,
\* but has removed nothing yet.
CopyThrows(t) ==
    /\ throws < MaxThrows
    /\ throws' = throws + 1
    /\ pc[t] = "locked"
    /\ \/ t \in Producer /\ is_not_full /\ UNCHANGED unread
       \/ t \in Consumer /\ is_not_empty /\ removes /\ UNCHANGED unread
       \/ t \in Consumer /\ is_not_empty /\ ~removes /\ PopMayThrow /\ unread' = unread - 1
    /\ owner' = Nobody
    /\ pc' = [pc EXCEPT ![t] = "lock"]
    /\ UNCHANGED <<removes, container, pushed, popped, notFull, notEmpty, left, spurious>>

\* What a thread does after its notify_one, w being the thread it woke if any.
Woken(t, awake) ==
    /\ pc' = [u \in Thread |-> IF u = t THEN (IF left[t] = 1 THEN "done" ELSE "lock")
                               ELSE IF u \in awake THEN "relock" ELSE pc[u]]
    /\ left' = [left EXCEPT ![t] = @ - 1]

\* Mutants: nobody is notified.
NotifyNobody(t) ==
    /\ t \in Producer /\ pc[t] = "notify"
    /\ Woken(t, {})
    /\ UNCHANGED <<shared, owner, notFull, notEmpty, spurious, throws>>

NotifyNoProducer(t) ==
    /\ t \in Consumer /\ pc[t] = "notify"
    /\ Woken(t, {})
    /\ UNCHANGED <<shared, owner, notFull, notEmpty, spurious, throws>>

\* m_not_empty.notify_one(), after the mutex was released.
NotifyNotEmpty(t) ==
    /\ t \in Producer /\ pc[t] = "notify"
    /\ \/ notEmpty = {} /\ Woken(t, {}) /\ UNCHANGED notEmpty
       \/ \E w \in notEmpty : notEmpty' = notEmpty \ {w} /\ Woken(t, {w})
    /\ UNCHANGED <<shared, owner, notFull, spurious, throws>>

\* m_not_full.notify_one()
NotifyNotFull(t) ==
    /\ t \in Consumer /\ pc[t] = "notify"
    /\ \/ notFull = {} /\ Woken(t, {}) /\ UNCHANGED notFull
       \/ \E w \in notFull : notFull' = notFull \ {w} /\ Woken(t, {w})
    /\ UNCHANGED <<shared, owner, notEmpty, spurious, throws>>

\* A condition variable may wake a thread that nobody notified.
SpuriousWakeup(t) ==
    /\ t \in Blocked /\ spurious < MaxSpurious
    /\ spurious' = spurious + 1
    /\ notFull' = notFull \ {t} /\ notEmpty' = notEmpty \ {t}
    /\ pc' = [pc EXCEPT ![t] = "relock"]
    /\ UNCHANGED <<shared, owner, left, throws>>

Step(t) ==
    \/ Acquire(t)
    \/ WaitNotFull(t) \/ WaitNotEmpty(t)
    \/ PushFront(t) \/ PopBack(t) \/ CopyThrows(t)
    \/ NotifyNotEmpty(t) \/ NotifyNotFull(t)

BufferNext == \E t \in Thread : Step(t) \/ SpuriousWakeup(t)

BufferSpec == BufferInit /\ [][BufferNext]_bbvars

\* The scheduler runs every thread that can run.  No fairness of the mutex
\* is assumed, and none of spurious wakeups.
FairSpec == BufferSpec /\ \A t \in Thread : WF_bbvars(Step(t))

---------------------------------------------------------------------------
\* The threads block where the code says, m_unread counts elements, and one
\* thread at a time is between taking the mutex and giving it up.
TypeOK ==
    /\ removes \in BOOLEAN
    /\ container \in Seq(Nat) /\ pushed \in Seq(Nat) /\ popped \in Seq(Nat)
    /\ Len(container) <= Capacity
    /\ unread \in 0 .. Len(container)
    /\ removes => unread = Len(container)
    /\ owner \in Thread \cup {Nobody}
    /\ notFull \subseteq Producer /\ notEmpty \subseteq Consumer
    /\ pc \in [Thread -> {"lock", "locked", "blocked", "relock", "notify", "done"}]
    /\ left \in [Thread -> Nat]
    /\ \A t \in Thread : /\ pc[t] = "blocked" <=> t \in Blocked
                         /\ pc[t] = "locked" <=> owner = t
                         /\ pc[t] = "done" <=> left[t] = 0
    /\ spurious \in Nat /\ throws \in Nat

\* "each produced item is consumed by exactly one consumer", and in the order
\* of production: the consumers together have received a prefix of what was
\* pushed, and the rest is what m_unread counts, still in the container.
ExactlyOnceInOrder ==
    /\ Len(pushed) = Len(popped) + unread
    /\ \A k \in 1 .. Len(popped) : popped[k] = pushed[k]
    /\ \A k \in 1 .. unread : container[k] = pushed[Len(pushed) - k + 1]

\* A push overwrites nothing that was not read: circular_buffer overwrites
\* silently, only m_unread keeps it from doing so.
LosesNothing ==
    [][ \A k \in 1 .. Len(container) :
          (\A j \in 1 .. Len(container') : container'[j] # container[k])
          => \E j \in 1 .. Len(popped') : popped'[j] = container[k] ]_bbvars

\* No wakeup is lost, although notify_one comes after the unlock and finds
\* whoever waits by then: while consumers block, every unread item has a
\* notification on its way or a consumer awake to take it; likewise every
\* free slot while producers block.
NoLostWakeup ==
    /\ notEmpty # {} =>
          unread <= Cardinality({t \in Producer : pc[t] = "notify"}
                                \cup {t \in Consumer : pc[t] \in {"relock", "locked", "lock"}})
    /\ notFull # {} =>
          Capacity - unread <= Cardinality({t \in Consumer : pc[t] = "notify"}
                                \cup {t \in Producer : pc[t] \in {"relock", "locked", "lock"}})

\* Every thread finishes its calls: fifo_test joins both threads.
AllFinish == <>(\A t \in Thread : pc[t] = "done")
=============================================================================
