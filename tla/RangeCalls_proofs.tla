-------------------------- MODULE RangeCalls_proofs --------------------------
(***************************************************************************)
(* The operations that are loops over other operations keep what is        *)
(* documented of the whole, for every capacity, contents, position, range  *)
(* and size.                                                               *)
(***************************************************************************)
EXTENDS RangeCalls, SequenceTheorems, TLAPS

-----------------------------------------------------------------------------
(* The inductive invariant.                                                *)

\* How many elements the items are put between, and how many items were read.
base == IF call.op = "assign" THEN 0 ELSE Len(before.s)
done == Len(range) - Len(rest)

\* The sequence that d items were put into, at k.
Want(d, k) ==
    IF k < call.at THEN k ELSE IF k < call.at + d THEN MaxCapacity + (k - call.at) + 1 ELSE k - d

\* t is the last elements of that sequence, or the first.
Ends(t, d)   == /\ t \in Seq(Int) /\ Len(t) = Lesser(cap, base + d)
                /\ \A k \in 1 .. Len(t) : t[k] = Want(d, k + (base + d) - Len(t))
Begins(t, d) == /\ t \in Seq(Int) /\ Len(t) = Lesser(cap, base + d)
                /\ \A k \in 1 .. Len(t) : t[k] = Want(d, k)

\* Where the next item goes in: in front of what was behind the position at
\* first, ...
AtPlace(t, i) == i = Len(t) - (base - call.at + 1) + 1 /\ i > 0 /\ (Len(t) = cap => i > 1)
\* ... behind the items that went in.
AtNext(t, i, d) == i = call.at + d /\ i <= Len(t) + 1

Asked ==
    /\ cap \in Nat /\ before.cap \in Nat
    /\ before.s \in Seq(Int) /\ Len(before.s) <= before.cap
    /\ \A k \in 1 .. Len(before.s) : before.s[k] = k
    /\ call.op \in Ranged \cup {"resize", "rresize"}
    /\ call.at \in 1 .. Len(before.s) + 1 /\ call.size \in Nat
    /\ call.op \in {"resize", "rresize", "assign"} => call.at = 1
    /\ range \in Seq(Int)
    /\ \A k \in 1 .. Len(range) : range[k] = MaxCapacity + k

Untouched == s = before.s /\ cap = before.cap

ToBeRead ==
    /\ rest \in Seq(Int) /\ Len(rest) <= Len(range)
    /\ \A k \in 1 .. Len(rest) : rest[k] = MaxCapacity + done + k

Inserting ==
    /\ call.op \in {"insert", "assign"} /\ cap = before.cap
    /\ call.op = "assign" => call.size = cap
    /\ Ends(s, done) /\ AtPlace(s, pos)

RInserting ==
    /\ call.op = "rinsert" /\ cap = before.cap
    /\ Begins(s, done) /\ AtNext(s, pos, done)

Filling ==
    /\ call.op \in {"resize", "rresize"} /\ s = before.s
    /\ call.size > Len(s) /\ cap = IF call.size > before.cap THEN call.size ELSE before.cap

IInv ==
    /\ Asked /\ ~incremented
    /\ pc \in {"call", "fill", "insert", "rinsert", "done", "threw"}
    /\ pc = "call" => Untouched
    /\ pc \in {"insert", "rinsert"} => ToBeRead
    /\ pc = "insert" => Inserting
    /\ pc = "rinsert" => RInserting
    /\ pc = "fill" => Filling
    /\ OneByOneIsAtOnce

-----------------------------------------------------------------------------
(* Sequences: what the operators of DequeOperations return, element by     *)
(* element.                                                                *)

LEMMA PartFacts ==
    ASSUME NEW t \in Seq(Int), NEW m \in 1 .. Len(t) + 1, NEW l \in m - 1 .. Len(t)
    PROVE  /\ SubSeq(t, m, l) \in Seq(Int) /\ Len(SubSeq(t, m, l)) = l - m + 1
           /\ \A k \in 1 .. l - m + 1 : SubSeq(t, m, l)[k] = t[m + k - 1]
<1>1. Len(t) \in Nat
    BY LenProperties
<1>2. m \in Int /\ l \in Int /\ \A k \in m .. l : t[k] \in Int
    BY <1>1, ElementOfSeq
<1>3. /\ SubSeq(t, m, l) \in Seq(Int) /\ Len(SubSeq(t, m, l)) = IF m <= l THEN l - m + 1 ELSE 0
      /\ \A k \in 1 .. l - m + 1 : SubSeq(t, m, l)[k] = t[m + k - 1]
    BY <1>2, SubSeqProperties
<1> QED
    BY <1>1, <1>2, <1>3

LEMMA FirstOfFacts ==
    ASSUME NEW t \in Seq(Int), NEW m \in Nat
    PROVE  /\ FirstOf(t, m) \in Seq(Int) /\ Len(FirstOf(t, m)) = Lesser(m, Len(t))
           /\ \A k \in 1 .. Lesser(m, Len(t)) : FirstOf(t, m)[k] = t[k]
<1> DEFINE l == Lesser(m, Len(t))
<1>1. Len(t) \in Nat
    BY LenProperties
<1>2. l \in 1 - 1 .. Len(t) /\ 1 \in 1 .. Len(t) + 1 /\ l - 1 + 1 = l /\ l \in Nat
    BY <1>1 DEF Lesser
<1> HIDE DEF l
<1>3. /\ SubSeq(t, 1, l) \in Seq(Int) /\ Len(SubSeq(t, 1, l)) = l - 1 + 1
      /\ \A k \in 1 .. l - 1 + 1 : SubSeq(t, 1, l)[k] = t[1 + k - 1]
    BY <1>2, PartFacts
<1>4. \A k \in 1 .. l : 1 + k - 1 = k
    BY <1>2
<1> QED
    BY <1>2, <1>3, <1>4 DEF FirstOf, l

LEMMA LastOfFacts ==
    ASSUME NEW t \in Seq(Int), NEW m \in Nat
    PROVE  /\ LastOf(t, m) \in Seq(Int) /\ Len(LastOf(t, m)) = Lesser(m, Len(t))
           /\ \A k \in 1 .. Lesser(m, Len(t)) : LastOf(t, m)[k] = t[k + Len(t) - Lesser(m, Len(t))]
<1> DEFINE l == Lesser(m, Len(t))
           n == Len(t)
           f == n - l + 1
<1>1. n \in Nat
    BY LenProperties
<1>2. l \in 0 .. n
    BY <1>1 DEF Lesser
<1> HIDE DEF l
<1>3. /\ f \in 1 .. n + 1 /\ n \in f - 1 .. n /\ n - f + 1 = l
      /\ \A k \in 1 .. l : f + k - 1 = k + n - l
    BY <1>1, <1>2
<1> HIDE DEF f
<1>4. /\ SubSeq(t, f, n) \in Seq(Int) /\ Len(SubSeq(t, f, n)) = n - f + 1
      /\ \A k \in 1 .. n - f + 1 : SubSeq(t, f, n)[k] = t[f + k - 1]
    BY <1>3, PartFacts
<1> QED
    BY <1>3, <1>4 DEF LastOf, f, l

\* t with u put in at i
Put(t, i, u) == SubSeq(t, 1, i - 1) \o u \o SubSeq(t, i, Len(t))

LEMMA PutFacts ==
    ASSUME NEW t \in Seq(Int), NEW u \in Seq(Int), NEW i \in 1 .. Len(t) + 1
    PROVE  /\ Put(t, i, u) \in Seq(Int) /\ Len(Put(t, i, u)) = Len(t) + Len(u)
           /\ \A k \in 1 .. Len(t) + Len(u) :
                 Put(t, i, u)[k] = IF k < i THEN t[k] ELSE IF k < i + Len(u) THEN u[k - i + 1] ELSE t[k - Len(u)]
<1> DEFINE a == SubSeq(t, 1, i - 1)
           c == SubSeq(t, i, Len(t))
           n == Len(t)
           h == Len(u)
<1>1. n \in Nat /\ h \in Nat
    BY LenProperties
<1>2. a \in Seq(Int) /\ Len(a) = i - 1 /\ \A k \in 1 .. i - 1 : a[k] = t[k]
    <2> DEFINE l == i - 1
    <2>1. 1 \in 1 .. Len(t) + 1 /\ l \in 1 - 1 .. Len(t) /\ l - 1 + 1 = l
        BY <1>1
    <2>2. \A k \in 1 .. l : 1 + k - 1 = k
        OBVIOUS
    <2> HIDE DEF l
    <2>3. /\ SubSeq(t, 1, l) \in Seq(Int) /\ Len(SubSeq(t, 1, l)) = l - 1 + 1
          /\ \A k \in 1 .. l - 1 + 1 : SubSeq(t, 1, l)[k] = t[1 + k - 1]
        BY <2>1, PartFacts
    <2> QED
        BY <2>1, <2>2, <2>3 DEF l
<1>3. c \in Seq(Int) /\ Len(c) = n - i + 1 /\ \A k \in 1 .. n - i + 1 : c[k] = t[i + k - 1]
    <2>1. i \in 1 .. Len(t) + 1 /\ Len(t) \in i - 1 .. Len(t)
        BY <1>1
    <2> QED
        BY <2>1, PartFacts
<1>4. Put(t, i, u) = (a \o u) \o c
    BY DEF Put
<1> HIDE DEF a, c
<1> DEFINE au == a \o u
<1>5. /\ au \in Seq(Int) /\ Len(au) = Len(a) + Len(u)
      /\ \A k \in 1 .. Len(a) + Len(u) : au[k] = IF k <= Len(a) THEN a[k] ELSE u[k - Len(a)]
    <2>1. a \in Seq(Int) /\ u \in Seq(Int)
        BY <1>2
    <2> QED
        BY <2>1, ConcatProperties, Zenon
<1> HIDE DEF au
<1>6. /\ au \o c \in Seq(Int) /\ Len(au \o c) = Len(au) + Len(c)
      /\ \A k \in 1 .. Len(au) + Len(c) : (au \o c)[k] = IF k <= Len(au) THEN au[k] ELSE c[k - Len(au)]
    <2>1. au \in Seq(Int) /\ c \in Seq(Int)
        BY <1>3, <1>5
    <2> QED
        BY <2>1, ConcatProperties, Zenon
<1>7. Len(au) = i - 1 + h /\ Len(au) + Len(c) = n + h
    BY <1>1, <1>2, <1>3, <1>5
<1>8. ASSUME NEW k \in 1 .. n + h
      PROVE  Put(t, i, u)[k] = IF k < i THEN t[k] ELSE IF k < i + h THEN u[k - i + 1] ELSE t[k - h]
    <2>1. Put(t, i, u)[k] = IF k <= i - 1 + h THEN au[k] ELSE c[k - (i - 1 + h)]
        BY <1>4, <1>6, <1>7 DEF au
    <2>2. CASE k < i
        <3>1. k \in 1 .. i - 1 /\ k <= i - 1 + h /\ k \in 1 .. (i - 1) + h /\ k <= i - 1
            BY <1>1, <2>2
        <3>2. au[k] = a[k]
            BY <1>2, <1>5, <3>1
        <3> QED
            BY <1>2, <2>1, <2>2, <3>1, <3>2
    <2>3. CASE k >= i /\ k < i + h
        <3>1. ~(k < i) /\ k <= i - 1 + h /\ k \in 1 .. (i - 1) + h /\ ~(k <= i - 1) /\ k - (i - 1) = k - i + 1
            BY <1>1, <2>3
        <3>2. au[k] = u[k - i + 1]
            BY <1>2, <1>5, <3>1
        <3> QED
            BY <2>1, <2>3, <3>1, <3>2
    <2>4. CASE k >= i + h
        <3>1. /\ ~(k < i) /\ ~(k < i + h) /\ ~(k <= i - 1 + h) /\ k - (i - 1 + h) \in 1 .. n - i + 1
              /\ i + (k - (i - 1 + h)) - 1 = k - h
            BY <1>1, <2>4
        <3> QED
            BY <1>3, <2>1, <3>1
    <2> QED
        BY <1>1, <2>2, <2>3, <2>4
<1> QED
    BY <1>4, <1>6, <1>7, <1>8 DEF au

\* One item put in.
LEMMA InsertAtFacts ==
    ASSUME NEW t \in Seq(Int), NEW i \in 1 .. Len(t) + 1, NEW x \in Int
    PROVE  /\ InsertAt(t, i, x) \in Seq(Int) /\ Len(InsertAt(t, i, x)) = Len(t) + 1
           /\ \A k \in 1 .. Len(t) + 1 :
                 InsertAt(t, i, x)[k] = IF k < i THEN t[k] ELSE IF k = i THEN x ELSE t[k - 1]
<1> DEFINE u == <<x>>
<1>1. u \in Seq(Int) /\ Len(u) = 1 /\ u[1] = x
    OBVIOUS
<1>2. InsertAt(t, i, x) = Put(t, i, u)
    BY DEF InsertAt, Put
<1>3. Len(t) \in Nat
    BY LenProperties
<1> HIDE DEF u
<1>4. /\ Put(t, i, u) \in Seq(Int) /\ Len(Put(t, i, u)) = Len(t) + Len(u)
      /\ \A k \in 1 .. Len(t) + Len(u) :
            Put(t, i, u)[k] = IF k < i THEN t[k] ELSE IF k < i + Len(u) THEN u[k - i + 1] ELSE t[k - Len(u)]
    BY <1>1, PutFacts
<1>5. ASSUME NEW k \in 1 .. Len(t) + 1
      PROVE  Put(t, i, u)[k] = IF k < i THEN t[k] ELSE IF k = i THEN x ELSE t[k - 1]
    <2>1. Put(t, i, u)[k] = IF k < i THEN t[k] ELSE IF k < i + 1 THEN u[k - i + 1] ELSE t[k - 1]
        BY <1>1, <1>4
    <2>2. (k < i + 1 /\ ~(k < i)) <=> k = i
        BY <1>3
    <2>3. k = i => k - i + 1 = 1
        BY <1>3
    <2> QED
        BY <1>1, <2>1, <2>2, <2>3
<1> QED
    BY <1>1, <1>2, <1>4, <1>5

LEMMA CopiesFacts ==
    ASSUME NEW m \in Nat, NEW x \in Int
    PROVE  /\ Copies(m, x) \in Seq(Int) /\ Len(Copies(m, x)) = m
           /\ \A k \in 1 .. m : Copies(m, x)[k] = x
<1>1. Copies(m, x) \in [1 .. m -> Int] /\ \A k \in 1 .. m : Copies(m, x)[k] = x
    BY DEF Copies
<1> QED
    BY <1>1, SeqDef

LEMMA TailFacts ==
    ASSUME NEW t \in Seq(Int), Len(t) > 0
    PROVE  /\ Tail(t) \in Seq(Int) /\ Len(Tail(t)) = Len(t) - 1 /\ Head(t) = t[1] /\ Head(t) \in Int
           /\ \A k \in 1 .. Len(t) - 1 : Tail(t)[k] = t[k + 1]
<1>1. t # <<>>
    BY EmptySeq
<1>2. /\ Head(t) \in Int /\ Tail(t) \in Seq(Int) /\ Len(Tail(t)) = Len(t) - 1
      /\ \A k \in 1 .. Len(Tail(t)) : Tail(t)[k] = t[k + 1]
    BY <1>1, HeadTailProperties
<1>3. Head(t) = t[1]
    BY <1>1
<1> QED
    BY <1>2, <1>3

\* Equal lengths and equal elements.
LEMMA SameSequence ==
    ASSUME NEW t \in Seq(Int), NEW u \in Seq(Int), Len(t) = Len(u), \A k \in 1 .. Len(t) : t[k] = u[k]
    PROVE  t = u
BY SeqEqual

-----------------------------------------------------------------------------
(* What the operations return.                                             *)

LEMMA AfterInsert ==
    ASSUME NEW t, NEW c, NEW i, NEW x
    PROVE  After(Op("insert", i, 0, x), t, c) =
               IF ~(Len(t) = c) THEN <<InsertAt(t, i, x), c, i>>
               ELSE IF i = 1 THEN <<t, c, 1>>
               ELSE <<Tail(InsertAt(t, i, x)), c, i - 1>>
BY DEF After, InsertOutcome, Op

LEMMA AfterRInsert ==
    ASSUME NEW t, NEW c, NEW i, NEW x
    PROVE  After(Op("rinsert", i, 0, x), t, c) = <<FirstOf(InsertAt(t, i, x), c), c, i>>
BY DEF After, RInsertOutcome, Op

LEMMA AfterBulk ==
    ASSUME NEW t, NEW c, NEW i, NEW j, NEW x
    PROVE  /\ After(Op("insert_n", i, j, x), t, c) = <<LastOf(Put(t, i, Copies(j, x)), c), c, 0>>
           /\ After(Op("rinsert_n", i, j, x), t, c) = <<FirstOf(Put(t, i, Copies(j, x)), c), c, 0>>
BY DEF After, InsertNOutcome, RInsertNOutcome, WithCopies, Op, Put

LEMMA AfterErasing ==
    ASSUME NEW t, NEW c, NEW i, NEW j, NEW x
    PROVE  /\ After(Op("erase_range", i, j, x), t, c) = <<Without(t, i, j), c, i>>
           /\ After(Op("rerase_range", i, j, x), t, c)[1] = Without(t, i, j)
           /\ After(Op("rerase_range", i, j, x), t, c)[2] = c
           /\ After(Op("clear", i, j, x), t, c) = <<<<>>, c, 0>>
BY DEF After, EraseRangeOutcome, REraseRangeOutcome, ClearOutcome, Op

LEMMA AfterCapacity ==
    ASSUME NEW t, NEW c, NEW i, NEW x
    PROVE  After(Op("set_capacity", i, 0, x), t, c) = <<FirstOf(t, i), i, 0>>
BY DEF After, SetCapacityOutcome, Op

\* What resize and rresize are to leave.
Back(t, m, x)  == FirstOf(t, m) \o Copies(m - Lesser(Len(t), m), x)
Front(t, m, x) == Copies(m - Lesser(Len(t), m), x) \o LastOf(t, m)

LEMMA AfterResize ==
    ASSUME NEW t, NEW c, NEW m, NEW x
    PROVE  /\ After(Op("resize", m, 0, x), t, c) = <<Back(t, m, x), IF m > c THEN m ELSE c, 0>>
           /\ After(Op("rresize", m, 0, x), t, c) = <<Front(t, m, x), IF m > c THEN m ELSE c, 0>>
BY DEF After, ResizeOutcome, RResizeOutcome, Op, Back, Front

LEMMA FirstTwo ==
    ASSUME NEW a, NEW b, NEW c
    PROVE  SubSeq(<<a, b, c>>, 1, 2) = <<a, b>>
<1> DEFINE S == {a, b, c}
           t == <<a, b, c>>
<1>1. t \in Seq(S) /\ Len(t) = 3 /\ t[1] = a /\ t[2] = b
    OBVIOUS
<1>2. \A k \in 1 .. 2 : t[k] \in S
    BY <1>1
<1>3. <<a, b>> \in Seq(S) /\ Len(<<a, b>>) = 2 /\ <<a, b>>[1] = a /\ <<a, b>>[2] = b
    OBVIOUS
<1> HIDE DEF t, S
<1>4. /\ SubSeq(t, 1, 2) \in Seq(S) /\ Len(SubSeq(t, 1, 2)) = 2
      /\ \A k \in 1 .. 2 - 1 + 1 : SubSeq(t, 1, 2)[k] = t[1 + k - 1]
    BY <1>2, SubSeqProperties
<1>5. SubSeq(t, 1, 2)[1] = a /\ SubSeq(t, 1, 2)[2] = b
    BY <1>1, <1>4
<1> DEFINE u == SubSeq(t, 1, 2)
           v == <<a, b>>
<1>6. u \in Seq(S) /\ v \in Seq(S) /\ Len(u) = Len(v) /\ Len(u) = 2 /\ u[1] = v[1] /\ u[2] = v[2]
    BY <1>3, <1>4, <1>5
<1> HIDE DEF u, v
<1>7. \A k \in 1 .. Len(u) : u[k] = v[k]
    BY <1>6
<1>8. u = v
    BY <1>6, <1>7, SeqEqual
<1> QED
    BY <1>8 DEF t, u, v

-----------------------------------------------------------------------------
(* One item more.                                                          *)

LEMMA WantStep ==
    ASSUME call.at \in Nat, NEW d \in Nat, NEW k \in Int
    PROVE  Want(d + 1, k) = IF k < call.at + d THEN Want(d, k)
                            ELSE IF k = call.at + d THEN MaxCapacity + d + 1
                            ELSE Want(d, k - 1)
<1>1. MaxCapacity \in Nat
    BY RangeAssumption
<1> QED
    BY <1>1 DEF Want

\* insert into a sequence of at most c elements
LEMMA InsertOne ==
    ASSUME NEW t \in Seq(Int), NEW c \in Nat, Len(t) <= c, NEW i \in 1 .. Len(t) + 1, NEW x \in Int,
           Len(t) = c => i > 1
    PROVE  LET r == After(Op("insert", i, 0, x), t, c)
               m == Lesser(c, Len(t) + 1)
           IN  /\ r[1] \in Seq(Int) /\ Len(r[1]) = m /\ r[2] = c /\ r[3] = i - (Len(t) + 1 - m)
               /\ \A k \in 1 .. m : r[1][k] = InsertAt(t, i, x)[k + (Len(t) + 1) - m]
<1> DEFINE r == After(Op("insert", i, 0, x), t, c)
           m == Lesser(c, Len(t) + 1)
           u == InsertAt(t, i, x)
<1>1. Len(t) \in Nat
    BY LenProperties
<1>2. u \in Seq(Int) /\ Len(u) = Len(t) + 1
    BY InsertAtFacts
<1>3. r = IF ~(Len(t) = c) THEN <<u, c, i>> ELSE IF i = 1 THEN <<t, c, 1>> ELSE <<Tail(u), c, i - 1>>
    BY AfterInsert
<1>4. /\ Len(t) # c => m = Len(t) + 1
      /\ Len(t) = c => m = Len(t)
    BY <1>1 DEF Lesser
<1> HIDE DEF r, m, u
<1>5. CASE Len(t) # c
    <2>1. r[1] = u /\ r[2] = c /\ r[3] = i
        BY <1>3, <1>5
    <2>2. \A k \in 1 .. m : k + (Len(t) + 1) - m = k
        BY <1>1, <1>4, <1>5
    <2>3. i - (Len(t) + 1 - m) = i
        BY <1>1, <1>4, <1>5
    <2> QED
        BY <1>2, <1>4, <1>5, <2>1, <2>2, <2>3 DEF r, m, u
<1>6. CASE Len(t) = c
    <2>1. r[1] = Tail(u) /\ r[2] = c /\ r[3] = i - 1
        BY <1>3, <1>6
    <2>2. Len(u) > 0
        BY <1>1, <1>2
    <2>3. Tail(u) \in Seq(Int) /\ Len(Tail(u)) = Len(u) - 1 /\ \A k \in 1 .. Len(u) - 1 : Tail(u)[k] = u[k + 1]
        BY <1>2, <2>2, TailFacts
    <2>4. /\ \A k \in 1 .. m : k + (Len(t) + 1) - m = k + 1
          /\ Len(u) - 1 = m /\ i - (Len(t) + 1 - m) = i - 1
        BY <1>1, <1>2, <1>4, <1>6
    <2>5. \A k \in 1 .. m : Tail(u)[k] = u[k + (Len(t) + 1) - m]
        BY <2>3, <2>4
    <2> QED
        BY <2>1, <2>3, <2>4, <2>5 DEF r, m, u
<1> QED
    BY <1>5, <1>6

LEMMA Numbers ==
    ASSUME Asked
    PROVE  /\ cap \in Nat /\ Len(before.s) \in Nat /\ Len(range) \in Nat /\ MaxCapacity \in Nat
           /\ base \in Nat /\ call.at \in 1 .. base + 1 /\ call.size \in Nat /\ before.cap \in Nat
           /\ Len(before.s) <= before.cap
<1>1. before.s \in Seq(Int) /\ range \in Seq(Int)
    BY DEF Asked
<1>2. Len(before.s) \in Nat /\ Len(range) \in Nat
    BY <1>1, LenProperties
<1>3. MaxCapacity \in Nat
    BY RangeAssumption
<1>4. CASE call.op = "assign"
    BY <1>2, <1>3, <1>4 DEF Asked, base
<1>5. CASE call.op # "assign"
    BY <1>2, <1>3, <1>5 DEF Asked, base
<1> QED
    BY <1>4, <1>5

\* Where an item goes in, in numbers: n elements are left of b + d, the item
\* goes in at i, m elements are left with it; k is an index of one of them, j
\* its index before the first one may have fallen out, kk that in the whole.
LEMMA Indices ==
    ASSUME NEW n \in Nat, NEW b \in Nat, NEW d \in Nat, NEW a \in 1 .. b + 1, NEW m \in Nat, NEW i \in Int,
           m = n + 1 \/ m = n, i = n - (b - a + 1) + 1, i > 0, m = n => i > 1
    PROVE  /\ i \in 1 .. n + 1
           /\ LET p == i - (n + 1 - m) IN p + 1 = m - (b - a + 1) + 1 /\ p + 1 > 1 /\ p \in 1 .. m
           /\ \A k \in 1 .. m :
                 LET j  == k + (n + 1) - m
                     kk == j + (b + d) - n
                 IN  /\ j \in 1 .. n + 1 /\ kk = k + (b + (d + 1)) - m /\ kk \in Int
                     /\ j < i => j \in 1 .. n /\ kk < a + d
                     /\ j = i => kk = a + d /\ ~(kk < a + d) /\ ~(j < i)
                     /\ j > i => /\ j - 1 \in 1 .. n /\ (j - 1) + (b + d) - n = kk - 1
                                 /\ ~(kk < a + d) /\ kk # a + d /\ ~(j < i) /\ j # i
OBVIOUS

\* What an item more makes of the last elements ...
LEMMA EndsStep ==
    ASSUME Asked, NEW d \in Nat, NEW t, Ends(t, d),
           NEW i, AtPlace(t, i)
    PROVE  LET r == After(Op("insert", i, 0, MaxCapacity + d + 1), t, cap)
           IN  /\ Ends(r[1], d + 1) /\ r[2] = cap
               /\ AtPlace(r[1], r[3] + 1) /\ r[3] \in 1 .. Len(r[1])
<1> DEFINE x == MaxCapacity + d + 1
           r == After(Op("insert", i, 0, x), t, cap)
           m == Lesser(cap, Len(t) + 1)
           u == r[1]
           p == r[3]
<1>1. /\ cap \in Nat /\ MaxCapacity \in Nat /\ base \in Nat /\ call.at \in 1 .. base + 1
    BY Numbers
<1>2. t \in Seq(Int) /\ Len(t) = Lesser(cap, base + d) /\ \A k \in 1 .. Len(t) : t[k] = Want(d, k + (base + d) - Len(t))
    BY DEF Ends
<1>3. Len(t) \in Nat
    BY <1>2, LenProperties
<1>4. Len(t) <= cap /\ x \in Int /\ i \in Int
    BY <1>1, <1>2, <1>3 DEF Lesser, AtPlace
<1>5. m = Lesser(cap, base + (d + 1)) /\ m \in Nat /\ (m = Len(t) + 1 \/ (m = Len(t) /\ m = cap))
    BY <1>1, <1>2, <1>3 DEF Lesser
<1> HIDE DEF r, m, x
<1> DEFINE n == Len(t)
           b == base
           a == call.at
<1>a. /\ n \in Nat /\ b \in Nat /\ a \in 1 .. b + 1 /\ m \in Nat /\ i \in Int
      /\ m = n + 1 \/ m = n
      /\ i = n - (b - a + 1) + 1 /\ i > 0 /\ (m = n => i > 1)
    <2>1. m = n => n = cap
        BY <1>3, <1>5
    <2> QED
        BY <1>1, <1>3, <1>4, <1>5, <2>1 DEF AtPlace
<1> HIDE DEF n, b, a
<1>b. i \in 1 .. n + 1
    BY <1>a, Indices
<1>c. i \in 1 .. Len(t) + 1
    BY <1>b DEF n
<1>d. Len(t) = cap => i > 1
    BY DEF AtPlace
<1>6. /\ u \in Seq(Int) /\ Len(u) = m /\ r[2] = cap /\ p = i - (Len(t) + 1 - m)
      /\ \A k \in 1 .. m : u[k] = InsertAt(t, i, x)[k + (Len(t) + 1) - m]
    <2>1. t \in Seq(Int) /\ cap \in Nat /\ Len(t) <= cap /\ i \in 1 .. Len(t) + 1 /\ x \in Int
        BY <1>1, <1>2, <1>4, <1>c
    <2> QED
        BY <1>d, <2>1, InsertOne DEF r, m
<1>7. \A k \in 1 .. Len(t) + 1 : InsertAt(t, i, x)[k] = IF k < i THEN t[k] ELSE IF k = i THEN x ELSE t[k - 1]
    <2>1. t \in Seq(Int) /\ i \in 1 .. Len(t) + 1 /\ x \in Int
        BY <1>2, <1>4, <1>c
    <2> QED
        BY <2>1, InsertAtFacts
<1> HIDE DEF u, p
<1>8. ASSUME NEW k \in 1 .. m
      PROVE  u[k] = Want(d + 1, k + (base + (d + 1)) - m)
    <2> DEFINE j  == k + (n + 1) - m
               kk == j + (b + d) - n
    <2>1. /\ j \in 1 .. n + 1 /\ kk = k + (b + (d + 1)) - m /\ kk \in Int
          /\ j < i => j \in 1 .. n /\ kk < a + d
          /\ j = i => kk = a + d /\ ~(kk < a + d) /\ ~(j < i)
          /\ j > i => /\ j - 1 \in 1 .. n /\ (j - 1) + (b + d) - n = kk - 1
                      /\ ~(kk < a + d) /\ kk # a + d /\ ~(j < i) /\ j # i
        BY <1>a, Indices
    <2>2. Want(d + 1, kk) = IF kk < a + d THEN Want(d, kk) ELSE IF kk = a + d THEN x ELSE Want(d, kk - 1)
        <3>1. call.at \in Nat /\ kk \in Int
            BY <1>1, <2>1
        <3> HIDE DEF kk
        <3> QED
            BY <3>1, WantStep DEF x, a
    <2>3. u[k] = IF j < i THEN t[j] ELSE IF j = i THEN x ELSE t[j - 1]
        BY <1>6, <1>7, <2>1 DEF n
    <2>4. \A l \in 1 .. n : t[l] = Want(d, l + (b + d) - n)
        BY <1>2 DEF n, b
    <2>5. j < i \/ j = i \/ j > i
        BY <1>a, <2>1
    <2>6. j < i => t[j] = Want(d, kk)
        BY <2>1, <2>4
    <2>7. j > i => t[j - 1] = Want(d, kk - 1)
        BY <2>1, <2>4
    <2> HIDE DEF j, kk
    <2>8. u[k] = Want(d + 1, kk)
        BY <2>1, <2>2, <2>3, <2>5, <2>6, <2>7
    <2> QED
        BY <2>1, <2>8 DEF b
<1>9. Ends(u, d + 1)
    BY <1>5, <1>6, <1>8 DEF Ends
<1>10. p + 1 = m - (b - a + 1) + 1 /\ p + 1 > 1 /\ p \in 1 .. m
    <2>1. LET q == i - (n + 1 - m) IN q + 1 = m - (b - a + 1) + 1 /\ q + 1 > 1 /\ q \in 1 .. m
        BY <1>a, Indices
    <2> QED
        BY <1>6, <2>1 DEF n
<1> QED
    <2>1. p \in Nat /\ Len(u) = m
        BY <1>5, <1>6, <1>10
    <2>2. AtPlace(u, p + 1)
        BY <1>10, <2>1 DEF AtPlace, a, b
    <2> QED
        BY <1>6, <1>9, <1>10, <2>1, <2>2 DEF u, p, r, x

\* ... and of the first ones.
LEMMA BeginsStep ==
    ASSUME Asked, NEW d \in Nat, NEW t, Begins(t, d), NEW i, AtNext(t, i, d)
    PROVE  LET r == After(Op("rinsert", i, 0, MaxCapacity + d + 1), t, cap)
           IN  /\ Begins(r[1], d + 1) /\ r[2] = cap /\ r[3] = i /\ i <= Len(r[1]) + 1
               /\ i = Len(r[1]) + 1 => Len(r[1]) = cap
<1> DEFINE x == MaxCapacity + d + 1
           r == After(Op("rinsert", i, 0, x), t, cap)
           m == Lesser(cap, Len(t) + 1)
           u == r[1]
<1>1. /\ cap \in Nat /\ MaxCapacity \in Nat /\ base \in Nat /\ call.at \in 1 .. base + 1
    BY Numbers
<1>2. t \in Seq(Int) /\ Len(t) = Lesser(cap, base + d) /\ \A k \in 1 .. Len(t) : t[k] = Want(d, k)
    BY DEF Begins
<1>3. Len(t) \in Nat
    BY <1>2, LenProperties
<1>4. Len(t) <= cap /\ i \in 1 .. Len(t) + 1 /\ x \in Int
    BY <1>1, <1>2, <1>3 DEF Lesser, AtNext
<1>5. m = Lesser(cap, base + (d + 1)) /\ m \in Nat /\ (m = Len(t) + 1 \/ (m = Len(t) /\ m = cap))
    BY <1>1, <1>2, <1>3 DEF Lesser
<1> HIDE DEF r, m, x
<1>6. /\ u \in Seq(Int) /\ Len(u) = m /\ r[2] = cap /\ r[3] = i
      /\ \A k \in 1 .. m : u[k] = InsertAt(t, i, x)[k]
    <2> DEFINE v == InsertAt(t, i, x)
    <2>1. r = <<FirstOf(v, cap), cap, i>>
        BY AfterRInsert DEF r
    <2>2. v \in Seq(Int) /\ Len(v) = Len(t) + 1
        <3>1. t \in Seq(Int) /\ i \in 1 .. Len(t) + 1 /\ x \in Int
            BY <1>2, <1>4
        <3> QED
            BY <3>1, InsertAtFacts
    <2> HIDE DEF v
    <2>3. /\ FirstOf(v, cap) \in Seq(Int) /\ Len(FirstOf(v, cap)) = Lesser(cap, Len(v))
          /\ \A k \in 1 .. Lesser(cap, Len(v)) : FirstOf(v, cap)[k] = v[k]
        BY <1>1, <2>2, FirstOfFacts
    <2> QED
        BY <2>1, <2>2, <2>3 DEF m, v
<1>7. \A k \in 1 .. Len(t) + 1 : InsertAt(t, i, x)[k] = IF k < i THEN t[k] ELSE IF k = i THEN x ELSE t[k - 1]
    <2>1. t \in Seq(Int) /\ i \in 1 .. Len(t) + 1 /\ x \in Int
        BY <1>2, <1>4
    <2> QED
        BY <2>1, InsertAtFacts
<1> HIDE DEF u
<1>8. ASSUME NEW k \in 1 .. m
      PROVE  u[k] = Want(d + 1, k)
    <2>1. k \in 1 .. Len(t) + 1 /\ k \in Int
        BY <1>1, <1>3, <1>5
    <2>2. /\ k < i => k \in 1 .. Len(t)
          /\ k > i => k - 1 \in 1 .. Len(t)
        BY <1>1, <1>3, <1>4, <2>1
    <2>3. Want(d + 1, k) = IF k < i THEN Want(d, k) ELSE IF k = i THEN x ELSE Want(d, k - 1)
        <3>1. i = call.at + d /\ call.at \in Nat
            BY <1>1 DEF AtNext
        <3> QED
            BY <2>1, <3>1, WantStep DEF x
    <2>4. u[k] = IF k < i THEN t[k] ELSE IF k = i THEN x ELSE t[k - 1]
        BY <1>6, <1>7, <2>1
    <2>5. k < i \/ k = i \/ (k > i /\ ~(k < i) /\ k # i)
        BY <1>4, <2>1
    <2> QED
        BY <1>2, <2>2, <2>3, <2>4, <2>5
<1>9. Begins(u, d + 1)
    BY <1>5, <1>6, <1>8 DEF Begins
<1>10. i <= Len(u) + 1 /\ (i = Len(u) + 1 => Len(u) = cap)
    BY <1>1, <1>3, <1>4, <1>5, <1>6
<1> QED
    BY <1>6, <1>9, <1>10 DEF u, r, x

-----------------------------------------------------------------------------
(* All items.                                                              *)

LEMMA UnboundedIs ==
    ASSUME Asked, call.op # "assign"
    PROVE  /\ Unbounded \in Seq(Int) /\ Len(Unbounded) = base + Len(range)
           /\ \A k \in 1 .. base + Len(range) : Unbounded[k] = Want(Len(range), k)
<1> DEFINE t == before.s
           u == range
           i == call.at
           h == Len(range)
           n == Len(before.s)
<1>1. /\ t \in Seq(Int) /\ u \in Seq(Int) /\ i \in 1 .. Len(t) + 1
      /\ \A k \in 1 .. n : t[k] = k
      /\ \A k \in 1 .. h : u[k] = MaxCapacity + k
    BY DEF Asked
<1>2. base = n /\ n \in Nat /\ h \in Nat /\ MaxCapacity \in Nat
    BY Numbers DEF base
<1>3. Unbounded = Put(t, i, u)
    BY DEF Unbounded, Put
<1> HIDE DEF t, u, i
<1>4. /\ Put(t, i, u) \in Seq(Int) /\ Len(Put(t, i, u)) = Len(t) + Len(u)
      /\ \A k \in 1 .. Len(t) + Len(u) :
            Put(t, i, u)[k] = IF k < i THEN t[k] ELSE IF k < i + Len(u) THEN u[k - i + 1] ELSE t[k - Len(u)]
    BY <1>1, PutFacts
<1>5. Len(t) = n /\ Len(u) = h
    BY DEF t, u
<1> HIDE DEF n, h
<1>6. ASSUME NEW k \in 1 .. n + h
      PROVE  Unbounded[k] = Want(h, k)
    <2>1. Unbounded[k] = IF k < i THEN t[k] ELSE IF k < i + h THEN u[k - i + 1] ELSE t[k - h]
        BY <1>3, <1>4, <1>5
    <2>2. /\ k < i => k \in 1 .. n
          /\ ~(k < i) /\ k < i + h => k - i + 1 \in 1 .. h /\ MaxCapacity + (k - i + 1) = MaxCapacity + (k - i) + 1
          /\ ~(k < i) /\ ~(k < i + h) => k - h \in 1 .. n
        BY <1>1, <1>2, <1>5
    <2>3. Want(h, k) = IF k < i THEN k ELSE IF k < i + h THEN MaxCapacity + (k - i) + 1 ELSE k - h
        BY DEF Want, i
    <2> QED
        BY <1>1, <2>1, <2>2, <2>3
<1> QED
    BY <1>2, <1>3, <1>4, <1>5, <1>6 DEF h

LEMMA EndsOfAll ==
    ASSUME Asked, NEW t, Ends(t, Len(range)), NEW u \in Seq(Int), Len(u) = base + Len(range),
           \A k \in 1 .. base + Len(range) : u[k] = Want(Len(range), k)
    PROVE  t = LastOf(u, cap)
<1> DEFINE h == Len(range)
           l == Lesser(cap, base + h)
           v == LastOf(u, cap)
<1>1. cap \in Nat /\ base \in Nat /\ h \in Nat
    BY Numbers
<1>2. t \in Seq(Int) /\ Len(t) = l /\ \A k \in 1 .. l : t[k] = Want(h, k + (base + h) - l)
    BY DEF Ends
<1>3. Len(u) = base + h /\ Lesser(cap, Len(u)) = l
    OBVIOUS
<1>4. /\ v \in Seq(Int) /\ Len(v) = Lesser(cap, Len(u))
      /\ \A k \in 1 .. Lesser(cap, Len(u)) : v[k] = u[k + Len(u) - Lesser(cap, Len(u))]
    BY <1>1, LastOfFacts
<1>5. \A k \in 1 .. l : k + (base + h) - l \in 1 .. base + h
    BY <1>1 DEF Lesser
<1>6. \A k \in 1 .. base + h : u[k] = Want(h, k)
    OBVIOUS
<1> HIDE DEF h, l, v
<1>7. \A k \in 1 .. l : v[k] = u[k + (base + h) - l]
    BY <1>3, <1>4
<1>8. \A k \in 1 .. Len(t) : t[k] = v[k]
    BY <1>2, <1>5, <1>6, <1>7
<1>9. t \in Seq(Int) /\ v \in Seq(Int) /\ Len(t) = Len(v)
    BY <1>2, <1>3, <1>4
<1> QED
    BY <1>8, <1>9, SameSequence DEF v

LEMMA BeginsOfAll ==
    ASSUME Asked, NEW t, Begins(t, Len(range)), NEW u \in Seq(Int), Len(u) = base + Len(range),
           \A k \in 1 .. base + Len(range) : u[k] = Want(Len(range), k)
    PROVE  t = FirstOf(u, cap)
<1> DEFINE h == Len(range)
           l == Lesser(cap, base + h)
           v == FirstOf(u, cap)
<1>1. cap \in Nat /\ base \in Nat /\ h \in Nat
    BY Numbers
<1>2. t \in Seq(Int) /\ Len(t) = l /\ \A k \in 1 .. l : t[k] = Want(h, k)
    BY DEF Begins
<1>3. Lesser(cap, Len(u)) = l
    OBVIOUS
<1>4. /\ v \in Seq(Int) /\ Len(v) = Lesser(cap, Len(u))
      /\ \A k \in 1 .. Lesser(cap, Len(u)) : v[k] = u[k]
    BY <1>1, FirstOfFacts
<1>5. \A k \in 1 .. l : k \in 1 .. base + h
    BY <1>1 DEF Lesser
<1>6. \A k \in 1 .. base + h : u[k] = Want(h, k)
    OBVIOUS
<1> HIDE DEF h, l, v
<1>7. \A k \in 1 .. Len(t) : t[k] = v[k]
    BY <1>2, <1>3, <1>4, <1>5, <1>6
<1>8. t \in Seq(Int) /\ v \in Seq(Int) /\ Len(t) = Len(v)
    BY <1>2, <1>3, <1>4
<1> QED
    BY <1>7, <1>8, SameSequence DEF v

\* What has to be shown of the three operations on ranges.
LEMMA InsertIsDone ==
    ASSUME Asked, NEW t, Ends(t, Len(range)), call.op = "insert"
    PROVE  t = LastOf(Unbounded, cap)
BY UnboundedIs, EndsOfAll

LEMMA RInsertIsDone ==
    ASSUME Asked, NEW t, Begins(t, Len(range)), call.op = "rinsert"
    PROVE  t = FirstOf(Unbounded, cap)
BY UnboundedIs, BeginsOfAll

LEMMA AssignIsDone ==
    ASSUME Asked, NEW t, Ends(t, Len(range)), call.op = "assign"
    PROVE  t = LastOf(range, cap)
<1>1. base = 0 /\ call.at = 1 /\ range \in Seq(Int) /\ Len(range) \in Nat /\ MaxCapacity \in Nat
    BY Numbers DEF base, Asked
<1>2. Len(range) = base + Len(range)
    BY <1>1
<1>3. ASSUME NEW k \in 1 .. base + Len(range)
      PROVE  range[k] = Want(Len(range), k)
    <2>1. k \in 1 .. Len(range) /\ ~(k < 1) /\ k < 1 + Len(range) /\ MaxCapacity + (k - 1) + 1 = MaxCapacity + k
        BY <1>1
    <2>2. range[k] = MaxCapacity + k
        BY <2>1 DEF Asked
    <2> QED
        BY <1>1, <2>1, <2>2 DEF Want
<1> QED
    BY <1>1, <1>2, <1>3, EndsOfAll

-----------------------------------------------------------------------------
(* resize and rresize.                                                     *)

LEMMA JoinFacts ==
    ASSUME NEW t \in Seq(Int), NEW u \in Seq(Int)
    PROVE  /\ t \o u \in Seq(Int) /\ Len(t \o u) = Len(t) + Len(u)
           /\ \A k \in 1 .. Len(t) + Len(u) : (t \o u)[k] = IF k <= Len(t) THEN t[k] ELSE u[k - Len(t)]
BY ConcatProperties, Zenon

LEMMA WholeOf ==
    ASSUME NEW t \in Seq(Int), NEW c \in Nat, Len(t) <= c
    PROVE  LastOf(t, c) = t /\ FirstOf(t, c) = t
<1> DEFINE n == Len(t)
           v == LastOf(t, c)
           w == FirstOf(t, c)
<1>1. n \in Nat /\ Lesser(c, n) = n
    <2>1. n \in Nat
        BY LenProperties
    <2> QED
        BY <2>1 DEF Lesser
<1>2. v \in Seq(Int) /\ Len(v) = n /\ \A k \in 1 .. n : v[k] = t[k + n - n]
    BY <1>1, LastOfFacts
<1>3. w \in Seq(Int) /\ Len(w) = n /\ \A k \in 1 .. n : w[k] = t[k]
    BY <1>1, FirstOfFacts
<1>4. \A k \in 1 .. n : k + n - n = k
    BY <1>1
<1> HIDE DEF v, w
<1>5. v = t
    <2>1. v \in Seq(Int) /\ t \in Seq(Int) /\ Len(v) = Len(t) /\ \A k \in 1 .. Len(v) : v[k] = t[k]
        BY <1>2, <1>4
    <2> QED
        BY <2>1, SameSequence
<1>6. w = t
    <2>1. w \in Seq(Int) /\ t \in Seq(Int) /\ Len(w) = Len(t) /\ \A k \in 1 .. Len(w) : w[k] = t[k]
        BY <1>3
    <2> QED
        BY <2>1, SameSequence
<1> QED
    BY <1>5, <1>6 DEF v, w

LEMMA WithoutFacts ==
    ASSUME NEW t \in Seq(Int), NEW i \in 1 .. Len(t) + 1, NEW j \in i .. Len(t) + 1
    PROVE  /\ Without(t, i, j) \in Seq(Int) /\ Len(Without(t, i, j)) = Len(t) - (j - i)
           /\ \A k \in 1 .. Len(t) - (j - i) : Without(t, i, j)[k] = IF k < i THEN t[k] ELSE t[k + (j - i)]
<1> DEFINE n == Len(t)
           e == i - 1
           a == SubSeq(t, 1, e)
           c == SubSeq(t, j, n)
<1>1. n \in Nat
    BY LenProperties
<1>2. 1 \in 1 .. Len(t) + 1 /\ e \in 1 - 1 .. Len(t) /\ e - 1 + 1 = e /\ \A k \in 1 .. e : 1 + k - 1 = k
    BY <1>1
<1>3. j \in 1 .. Len(t) + 1 /\ n \in j - 1 .. Len(t)
    BY <1>1
<1>4. Without(t, i, j) = a \o c
    BY DEF Without
<1> HIDE DEF e
<1>5. /\ a \in Seq(Int) /\ Len(a) = e - 1 + 1
      /\ \A k \in 1 .. e - 1 + 1 : a[k] = t[1 + k - 1]
    BY <1>2, PartFacts
<1>6. /\ c \in Seq(Int) /\ Len(c) = n - j + 1
      /\ \A k \in 1 .. n - j + 1 : c[k] = t[j + k - 1]
    BY <1>3, PartFacts
<1> HIDE DEF a, c
<1>7. /\ a \o c \in Seq(Int) /\ Len(a \o c) = Len(a) + Len(c)
      /\ \A k \in 1 .. Len(a) + Len(c) : (a \o c)[k] = IF k <= Len(a) THEN a[k] ELSE c[k - Len(a)]
    BY <1>5, <1>6, JoinFacts
<1>8. Len(a) = e /\ Len(a) + Len(c) = n - (j - i)
    BY <1>1, <1>2, <1>5, <1>6 DEF e
<1>9. ASSUME NEW k \in 1 .. n - (j - i)
      PROVE  (a \o c)[k] = IF k < i THEN t[k] ELSE t[k + (j - i)]
    <2>1. (a \o c)[k] = IF k <= e THEN a[k] ELSE c[k - e]
        BY <1>7, <1>8
    <2>2. k <= e <=> k < i
        BY <1>1 DEF e
    <2>3. k < i => k \in 1 .. e
        BY <1>1 DEF e
    <2>4. ~(k < i) => k - e \in 1 .. n - j + 1 /\ j + (k - e) - 1 = k + (j - i)
        BY <1>1 DEF e
    <2> QED
        BY <1>2, <1>5, <1>6, <2>1, <2>2, <2>3, <2>4
<1> QED
    BY <1>4, <1>7, <1>8, <1>9

LEMMA BackFacts ==
    ASSUME NEW t \in Seq(Int), NEW m \in Nat, NEW x \in Int
    PROVE  /\ Back(t, m, x) \in Seq(Int) /\ Len(Back(t, m, x)) = m
           /\ \A k \in 1 .. m : Back(t, m, x)[k] = IF k <= Len(t) THEN t[k] ELSE x
<1> DEFINE n == Len(t)
           l == Lesser(m, n)
           q == m - Lesser(n, m)
           a == FirstOf(t, m)
           c == Copies(q, x)
<1>1. n \in Nat
    BY LenProperties
<1>2. q \in Nat /\ l + q = m /\ l \in Nat /\ l <= n /\ \A k \in 1 .. m : k <= l <=> k <= n
    BY <1>1 DEF Lesser
<1>3. Back(t, m, x) = a \o c
    BY DEF Back
<1>4. a \in Seq(Int) /\ Len(a) = l /\ \A k \in 1 .. l : a[k] = t[k]
    BY FirstOfFacts
<1> HIDE DEF l, q, a
<1>5. c \in Seq(Int) /\ Len(c) = q /\ \A k \in 1 .. q : c[k] = x
    BY <1>2, CopiesFacts
<1> HIDE DEF c
<1>6. /\ a \o c \in Seq(Int) /\ Len(a \o c) = Len(a) + Len(c)
      /\ \A k \in 1 .. Len(a) + Len(c) : (a \o c)[k] = IF k <= Len(a) THEN a[k] ELSE c[k - Len(a)]
    BY <1>4, <1>5, JoinFacts
<1>7. ASSUME NEW k \in 1 .. m
      PROVE  (a \o c)[k] = IF k <= n THEN t[k] ELSE x
    <2>1. (a \o c)[k] = IF k <= l THEN a[k] ELSE c[k - l]
        <3>1. k \in 1 .. Len(a) + Len(c) /\ Len(a) = l
            BY <1>2, <1>4, <1>5
        <3> QED
            BY <1>6, <3>1
    <2>2. k <= l => k \in 1 .. l
        BY <1>2
    <2>3. ~(k <= l) => k - l \in 1 .. q
        BY <1>2
    <2> QED
        BY <1>2, <1>4, <1>5, <2>1, <2>2, <2>3
<1>8. Len(a \o c) = m
    BY <1>2, <1>4, <1>5, <1>6
<1> QED
    BY <1>3, <1>6, <1>7, <1>8

LEMMA FrontFacts ==
    ASSUME NEW t \in Seq(Int), NEW m \in Nat, NEW x \in Int
    PROVE  /\ Front(t, m, x) \in Seq(Int) /\ Len(Front(t, m, x)) = m
           /\ \A k \in 1 .. m : Front(t, m, x)[k] = IF k <= m - Len(t) THEN x ELSE t[k - (m - Len(t))]
<1> DEFINE n == Len(t)
           l == Lesser(m, n)
           q == m - Lesser(n, m)
           a == Copies(q, x)
           c == LastOf(t, m)
<1>1. n \in Nat
    BY LenProperties
<1>2. q \in Nat /\ l + q = m /\ l \in Nat /\ l <= n /\ \A k \in 1 .. m : k <= q <=> k <= m - n
    BY <1>1 DEF Lesser
<1>3. Front(t, m, x) = a \o c
    BY DEF Front
<1>4. c \in Seq(Int) /\ Len(c) = l /\ \A k \in 1 .. l : c[k] = t[k + n - l]
    BY LastOfFacts
<1> HIDE DEF l, q, c
<1>5. a \in Seq(Int) /\ Len(a) = q /\ \A k \in 1 .. q : a[k] = x
    BY <1>2, CopiesFacts
<1> HIDE DEF a
<1>6. /\ a \o c \in Seq(Int) /\ Len(a \o c) = Len(a) + Len(c)
      /\ \A k \in 1 .. Len(a) + Len(c) : (a \o c)[k] = IF k <= Len(a) THEN a[k] ELSE c[k - Len(a)]
    BY <1>4, <1>5, JoinFacts
<1>7. ASSUME NEW k \in 1 .. m
      PROVE  (a \o c)[k] = IF k <= m - n THEN x ELSE t[k - (m - n)]
    <2>1. (a \o c)[k] = IF k <= q THEN a[k] ELSE c[k - q]
        <3>1. k \in 1 .. Len(a) + Len(c) /\ Len(a) = q
            BY <1>2, <1>4, <1>5
        <3> QED
            BY <1>6, <3>1
    <2>2. k <= q => k \in 1 .. q
        BY <1>2
    <2>3. ~(k <= q) => k - q \in 1 .. l /\ (k - q) + n - l = k - (m - n)
        BY <1>1, <1>2
    <2> QED
        BY <1>2, <1>4, <1>5, <2>1, <2>2, <2>3
<1>8. Len(a \o c) = m
    BY <1>2, <1>4, <1>5, <1>6
<1> QED
    BY <1>3, <1>6, <1>7, <1>8

LEMMA Growing ==
    ASSUME NEW t \in Seq(Int), NEW m \in Nat, m > Len(t), NEW c \in Nat, m <= c, NEW x \in Int
    PROVE  /\ LastOf(Put(t, Len(t) + 1, Copies(m - Len(t), x)), c) = Back(t, m, x)
           /\ FirstOf(Put(t, 1, Copies(m - Len(t), x)), c) = Front(t, m, x)
<1> DEFINE n == Len(t)
           q == m - n
           u == Copies(q, x)
           i == n + 1
           p == Put(t, i, u)
           f == Put(t, 1, u)
           b == Back(t, m, x)
           g == Front(t, m, x)
<1>1. n \in Nat
    BY LenProperties
<1>2. q \in Nat /\ n + q = m /\ i \in 1 .. n + 1 /\ 1 \in 1 .. n + 1
    BY <1>1
<1> HIDE DEF q, i
<1>3. u \in Seq(Int) /\ Len(u) = q /\ \A k \in 1 .. q : u[k] = x
    BY <1>2, CopiesFacts
<1> HIDE DEF u
<1>4. /\ p \in Seq(Int) /\ Len(p) = n + Len(u)
      /\ \A k \in 1 .. n + Len(u) :
            p[k] = IF k < i THEN t[k] ELSE IF k < i + Len(u) THEN u[k - i + 1] ELSE t[k - Len(u)]
    BY <1>2, <1>3, PutFacts
<1>5. /\ f \in Seq(Int) /\ Len(f) = n + Len(u)
      /\ \A k \in 1 .. n + Len(u) :
            f[k] = IF k < 1 THEN t[k] ELSE IF k < 1 + Len(u) THEN u[k - 1 + 1] ELSE t[k - Len(u)]
    BY <1>2, <1>3, PutFacts
<1>6. /\ b \in Seq(Int) /\ Len(b) = m
      /\ \A k \in 1 .. m : b[k] = IF k <= n THEN t[k] ELSE x
    BY BackFacts
<1>7. /\ g \in Seq(Int) /\ Len(g) = m
      /\ \A k \in 1 .. m : g[k] = IF k <= m - n THEN x ELSE t[k - (m - n)]
    BY FrontFacts
<1> HIDE DEF p, f, b, g
<1>8. p = b
    <2>1. ASSUME NEW k \in 1 .. m
          PROVE  p[k] = b[k]
        <3>1. p[k] = IF k < i THEN t[k] ELSE IF k < i + q THEN u[k - i + 1] ELSE t[k - q]
            BY <1>2, <1>3, <1>4
        <3>2. (k < i <=> k <= n) /\ k < i + q /\ (~(k < i) => k - i + 1 \in 1 .. q)
            BY <1>1, <1>2 DEF i
        <3> QED
            BY <1>3, <1>6, <3>1, <3>2
    <2>2. p \in Seq(Int) /\ b \in Seq(Int) /\ Len(p) = Len(b) /\ \A k \in 1 .. Len(p) : p[k] = b[k]
        BY <1>2, <1>3, <1>4, <1>6, <2>1
    <2> QED
        BY <2>2, SameSequence
<1>9. f = g
    <2>1. ASSUME NEW k \in 1 .. m
          PROVE  f[k] = g[k]
        <3>1. f[k] = IF k < 1 THEN t[k] ELSE IF k < 1 + q THEN u[k - 1 + 1] ELSE t[k - q]
            BY <1>2, <1>3, <1>5
        <3>2. ~(k < 1) /\ (k < 1 + q <=> k <= m - n) /\ (k < 1 + q => k - 1 + 1 \in 1 .. q) /\ k - q = k - (m - n)
            BY <1>1, <1>2
        <3> QED
            BY <1>3, <1>7, <3>1, <3>2
    <2>2. f \in Seq(Int) /\ g \in Seq(Int) /\ Len(f) = Len(g) /\ \A k \in 1 .. Len(f) : f[k] = g[k]
        BY <1>2, <1>3, <1>5, <1>7, <2>1
    <2> QED
        BY <2>2, SameSequence
<1>10. LastOf(p, c) = p /\ FirstOf(f, c) = f
    <2>1. Len(p) <= c /\ Len(f) <= c
        BY <1>2, <1>3, <1>4, <1>5
    <2> QED
        BY <1>4, <1>5, <2>1, WholeOf
<1> QED
    BY <1>8, <1>9, <1>10 DEF p, f, b, g, u, q, i

LEMMA Shrinking ==
    ASSUME NEW t \in Seq(Int), NEW m \in Nat, m <= Len(t), NEW x \in Int
    PROVE  /\ Without(t, m + 1, Len(t) + 1) = Back(t, m, x)
           /\ Without(t, 1, Len(t) - m + 1) = Front(t, m, x)
<1> DEFINE n == Len(t)
           i == m + 1
           e == n + 1
           j == n - m + 1
           p == Without(t, i, e)
           f == Without(t, 1, j)
           b == Back(t, m, x)
           g == Front(t, m, x)
<1>1. n \in Nat
    BY LenProperties
<1>2. i \in 1 .. n + 1 /\ e \in i .. n + 1 /\ 1 \in 1 .. n + 1 /\ j \in 1 .. n + 1
    BY <1>1
<1>3. n - (e - i) = m /\ n - (j - 1) = m
    BY <1>1
<1>4. \A k \in 1 .. m : k < i /\ k <= n /\ ~(k < 1) /\ ~(k <= m - n) /\ k + (j - 1) = k - (m - n)
    BY <1>1
<1> HIDE DEF i, e, j
<1>5. /\ p \in Seq(Int) /\ Len(p) = n - (e - i)
      /\ \A k \in 1 .. n - (e - i) : p[k] = IF k < i THEN t[k] ELSE t[k + (e - i)]
    BY <1>2, WithoutFacts
<1>6. /\ f \in Seq(Int) /\ Len(f) = n - (j - 1)
      /\ \A k \in 1 .. n - (j - 1) : f[k] = IF k < 1 THEN t[k] ELSE t[k + (j - 1)]
    BY <1>2, WithoutFacts
<1>7. /\ b \in Seq(Int) /\ Len(b) = m
      /\ \A k \in 1 .. m : b[k] = IF k <= n THEN t[k] ELSE x
    BY BackFacts
<1>8. /\ g \in Seq(Int) /\ Len(g) = m
      /\ \A k \in 1 .. m : g[k] = IF k <= m - n THEN x ELSE t[k - (m - n)]
    BY FrontFacts
<1> HIDE DEF p, f, b, g
<1>9. p \in Seq(Int) /\ b \in Seq(Int) /\ Len(p) = Len(b) /\ \A k \in 1 .. Len(p) : p[k] = b[k]
    BY <1>3, <1>4, <1>5, <1>7
<1>10. f \in Seq(Int) /\ g \in Seq(Int) /\ Len(f) = Len(g) /\ \A k \in 1 .. Len(f) : f[k] = g[k]
    BY <1>3, <1>4, <1>6, <1>8
<1>11. p = b /\ f = g
    BY <1>9, <1>10, SameSequence
<1> QED
    BY <1>11 DEF p, f, b, g, i, e, j

-----------------------------------------------------------------------------
(* The initial states.                                                     *)

LEMMA InitLemma ==
    ASSUME Init
    PROVE  IInv
<1>1. PICK n \in 0 .. cap : s = [k \in 1 .. n |-> k]
    BY DEF Init
<1>2. PICK h \in 0 .. MaxItems : range = [k \in 1 .. h |-> MaxCapacity + k]
    BY DEF Init
<1>3. MaxCapacity \in Nat /\ MaxItems \in Nat
    BY RangeAssumption
<1>4. cap \in Nat /\ n \in Nat /\ n <= cap /\ h \in Nat
    BY <1>3 DEF Init
<1>5. s \in Seq(Int) /\ Len(s) = n /\ \A k \in 1 .. n : s[k] = k
    <2>1. s \in [1 .. n -> Int] /\ \A k \in 1 .. n : s[k] = k
        BY <1>1, <1>4
    <2> QED
        BY <1>4, <2>1, SeqDef
<1>6. range \in Seq(Int) /\ Len(range) = h /\ \A k \in 1 .. h : range[k] = MaxCapacity + k
    <2>1. range \in [1 .. h -> Int] /\ \A k \in 1 .. h : range[k] = MaxCapacity + k
        BY <1>2, <1>3, <1>4
    <2> QED
        BY <1>4, <2>1, SeqDef
<1>7. /\ call.op \in Ranged \cup {"resize", "rresize"} /\ call.at \in 1 .. Len(s) + 1 /\ call.size \in 0 .. MaxCapacity
      /\ call.op \in {"resize", "rresize", "assign"} => call.at = 1
    BY DEF Init
<1>8. before.s = s /\ before.cap = cap /\ pc = "call" /\ ~incremented
    BY DEF Init
<1>9. Asked
    BY <1>3, <1>4, <1>5, <1>6, <1>7, <1>8 DEF Asked
<1> QED
    BY <1>8, <1>9 DEF IInv, Untouched, OneByOneIsAtOnce

-----------------------------------------------------------------------------
(* The steps.  None changes what was asked.                                *)

LEMMA SameCall ==
    ASSUME Asked, UNCHANGED asked, cap' \in Nat
    PROVE  Asked' /\ base' = base
BY DEF Asked, asked, base, Ranged

\* A step that ends the call with an exception has nothing to show.
LEMMA Throws ==
    ASSUME IInv, UNCHANGED <<asked, cap, incremented>>, pc' = "threw"
    PROVE  IInv'
<1>1. Asked /\ cap' \in Nat
    BY DEF IInv, Asked
<1>2. Asked'
    BY <1>1, SameCall
<1> QED
    BY <1>2 DEF IInv, OneByOneIsAtOnce

\* What the whole call is to leave, of the state it began in.
Right(t, c) ==
    <<t, c>> =
        CASE call.op = "insert"  -> <<LastOf(Unbounded, before.cap), before.cap>>
          [] call.op = "rinsert" -> <<FirstOf(Unbounded, before.cap), before.cap>>
          [] call.op = "assign"  -> <<LastOf(range, call.size), call.size>>
          [] OTHER -> SubSeq(After(Op(call.op, call.size, 0, Item), before.s, before.cap), 1, 2)

LEMMA Ended ==
    ASSUME IInv, UNCHANGED <<asked, incremented>>, pc' = "done", cap' \in Nat, Right(s', cap')
    PROVE  IInv'
<1>1. Asked /\ ~incremented
    BY DEF IInv
<1>2. Asked'
    BY <1>1, SameCall
<1>3. call' = call /\ before' = before /\ range' = range
    BY DEF asked
<1>4. OneByOneIsAtOnce'
    BY <1>3 DEF OneByOneIsAtOnce, Right, Unbounded
<1> QED
    BY <1>1, <1>2, <1>4 DEF IInv

\* What is to be shown of resize and rresize.
Resized(t) == \/ call.op = "resize"  /\ t = Back(before.s, call.size, Item)
              \/ call.op = "rresize" /\ t = Front(before.s, call.size, Item)

LEMMA ResizeEnds ==
    ASSUME NEW t, Resized(t)
    PROVE  Right(t, IF call.size > before.cap THEN call.size ELSE before.cap)
<1> DEFINE r == After(Op(call.op, call.size, 0, Item), before.s, before.cap)
           c == IF call.size > before.cap THEN call.size ELSE before.cap
<1>1. r = <<t, c, 0>>
    BY AfterResize DEF Resized
<1>2. call.op # "insert" /\ call.op # "rinsert" /\ call.op # "assign"
    BY DEF Resized
<1> HIDE DEF c, r
<1>3. SubSeq(r, 1, 2) = <<t, c>>
    BY <1>1, FirstTwo
<1>4. Right(t, c)
    BY <1>2, <1>3 DEF Right, r
<1> QED
    BY <1>4 DEF c

LEMMA EnsureCapacityStep ==
    ASSUME IInv, EnsureCapacity
    PROVE  IInv'
<1> DEFINE c == Op("set_capacity", call.size, 0, Item)
<1>1. Asked /\ Untouched /\ ~incremented /\ call.op \in {"resize", "rresize"} /\ Grows
    BY DEF IInv, EnsureCapacity
<1>2. UNCHANGED asked /\ UNCHANGED incremented
    BY DEF EnsureCapacity
<1>n. cap \in Nat /\ call.size \in Nat /\ before.cap \in Nat /\ Len(before.s) \in Nat /\ Len(before.s) <= before.cap
    BY <1>1, Numbers
<1>3. CASE call.size > cap /\ Does(c) /\ pc' = "fill"
    <2>1. s' = FirstOf(s, call.size) /\ cap' = call.size
        BY <1>3, AfterCapacity DEF Does
    <2>2. FirstOf(s, call.size) = s
        <3>1. s \in Seq(Int) /\ Len(s) <= call.size
            BY <1>1, <1>3, <1>n DEF Asked, Untouched
        <3> QED
            BY <1>n, <3>1, WholeOf
    <2>3. Asked'
        BY <1>1, <1>2, <1>n, <2>1, SameCall
    <2>4. Filling'
        BY <1>1, <1>2, <1>3, <2>1, <2>2 DEF Filling, Untouched, asked, Grows
    <2> QED
        BY <1>1, <1>2, <1>3, <2>3, <2>4 DEF IInv, OneByOneIsAtOnce
<1>4. CASE Fails(c)
    BY <1>1, <1>2, <1>4, Throws DEF Fails
<1>5. CASE call.size <= cap /\ pc' = "fill" /\ UNCHANGED <<s, cap>>
    <2>1. Asked'
        BY <1>1, <1>2, <1>n, <1>5, SameCall
    <2>2. ~(call.size > before.cap)
        BY <1>1, <1>5, <1>n DEF Untouched
    <2>3. Filling'
        BY <1>1, <1>2, <1>5, <2>2 DEF Filling, Untouched, asked, Grows
    <2> QED
        BY <1>1, <1>2, <1>5, <2>1, <2>3 DEF IInv, OneByOneIsAtOnce
<1> QED
    BY <1>3, <1>4, <1>5 DEF EnsureCapacity

LEMMA FillStep ==
    ASSUME IInv, Fill
    PROVE  IInv'
<1> DEFINE c == IF call.op = "resize" THEN Op("insert_n", Len(s) + 1, call.size - Len(s), Item)
                ELSE Op("rinsert_n", 1, call.size - Len(s), Item)
<1>1. Asked /\ Filling /\ ~incremented
    BY DEF IInv, Fill
<1>2. UNCHANGED asked /\ UNCHANGED incremented
    BY DEF Fill
<1>n. cap \in Nat /\ call.size \in Nat /\ before.cap \in Nat /\ Len(before.s) \in Nat /\ Len(before.s) <= before.cap
    BY <1>1, Numbers
<1>3. CASE Does(c) /\ pc' = "done"
    <2>1. s = before.s /\ s \in Seq(Int) /\ call.size > Len(s) /\ call.size <= cap /\ Item \in Int
        BY <1>1, <1>n DEF Filling, Asked, Item
    <2>2. /\ LastOf(Put(s, Len(s) + 1, Copies(call.size - Len(s), Item)), cap) = Back(s, call.size, Item)
          /\ FirstOf(Put(s, 1, Copies(call.size - Len(s), Item)), cap) = Front(s, call.size, Item)
        BY <1>n, <2>1, Growing
    <2>3. call.op = "resize" => Resized(s') /\ cap' = cap
        <3> SUFFICES ASSUME call.op = "resize" PROVE Resized(s') /\ cap' = cap
            OBVIOUS
        <3>1. s' = Back(s, call.size, Item) /\ cap' = cap
            BY <1>3, <2>2, AfterBulk DEF Does
        <3> QED
            BY <2>1, <3>1 DEF Resized
    <2>4. call.op = "rresize" => Resized(s') /\ cap' = cap
        <3> SUFFICES ASSUME call.op = "rresize" PROVE Resized(s') /\ cap' = cap
            OBVIOUS
        <3>1. s' = Front(s, call.size, Item) /\ cap' = cap
            BY <1>3, <2>2, AfterBulk DEF Does
        <3> QED
            BY <2>1, <3>1 DEF Resized
    <2>5. Resized(s') /\ cap' = cap
        BY <1>1, <2>3, <2>4 DEF Filling
    <2>6. Right(s', IF call.size > before.cap THEN call.size ELSE before.cap)
        BY <2>5, ResizeEnds
    <2>7. Right(s', cap') /\ cap' \in Nat
        BY <1>1, <1>n, <2>5, <2>6 DEF Filling
    <2> QED
        BY <1>2, <1>3, <2>7, Ended
<1>4. CASE Fails(c)
    BY <1>1, <1>2, <1>4, Throws DEF Fails
<1> QED
    BY <1>3, <1>4 DEF Fill

LEMMA ShrinkStep ==
    ASSUME IInv, Shrink
    PROVE  IInv'
<1> DEFINE c == IF call.op = "resize" THEN Op("erase_range", call.size + 1, Len(s) + 1, Item)
                ELSE Op("rerase_range", 1, Len(s) - call.size + 1, Item)
<1>1. Asked /\ Untouched /\ ~incremented /\ call.op \in {"resize", "rresize"} /\ ~Grows
    BY DEF IInv, Shrink
<1>2. UNCHANGED asked /\ UNCHANGED incremented
    BY DEF Shrink
<1>n. cap \in Nat /\ call.size \in Nat /\ before.cap \in Nat /\ Len(before.s) \in Nat /\ Len(before.s) <= before.cap
    BY <1>1, Numbers
<1>3. CASE Does(c) /\ pc' = "done"
    <2>1. s = before.s /\ cap = before.cap /\ s \in Seq(Int) /\ call.size <= Len(s) /\ Item \in Int
        BY <1>1, <1>n DEF Untouched, Grows, Asked, Item
    <2>2. /\ Without(s, call.size + 1, Len(s) + 1) = Back(s, call.size, Item)
          /\ Without(s, 1, Len(s) - call.size + 1) = Front(s, call.size, Item)
        BY <1>n, <2>1, Shrinking
    <2>3. call.op = "resize" => Resized(s') /\ cap' = cap
        <3> SUFFICES ASSUME call.op = "resize" PROVE Resized(s') /\ cap' = cap
            OBVIOUS
        <3>1. s' = Back(s, call.size, Item) /\ cap' = cap
            BY <1>3, <2>2, AfterErasing DEF Does
        <3> QED
            BY <2>1, <3>1 DEF Resized
    <2>4. call.op = "rresize" => Resized(s') /\ cap' = cap
        <3> SUFFICES ASSUME call.op = "rresize" PROVE Resized(s') /\ cap' = cap
            OBVIOUS
        <3>1. s' = Front(s, call.size, Item) /\ cap' = cap
            BY <1>3, <2>2, AfterErasing DEF Does
        <3> QED
            BY <2>1, <3>1 DEF Resized
    <2>5. Resized(s') /\ cap' = cap
        BY <1>1, <2>3, <2>4
    <2>6. Right(s', IF call.size > before.cap THEN call.size ELSE before.cap)
        BY <2>5, ResizeEnds
    <2>7. (IF call.size > before.cap THEN call.size ELSE before.cap) = cap
        BY <1>n, <2>1
    <2>8. Right(s', cap') /\ cap' \in Nat
        BY <1>n, <2>5, <2>6, <2>7
    <2> QED
        BY <1>2, <1>3, <2>8, Ended
<1>4. CASE Fails(c)
    BY <1>1, <1>2, <1>4, Throws DEF Fails
<1> QED
    BY <1>3, <1>4 DEF Shrink

-----------------------------------------------------------------------------
(* Ranges.  What the loop leaves is right when it ends.                    *)

LEMMA InsertingEnds ==
    ASSUME Asked, NEW t, Ends(t, Len(range)), call.op \in {"insert", "assign"}, cap = before.cap,
           call.op = "assign" => call.size = cap
    PROVE  Right(t, cap)
<1>1. CASE call.op = "insert"
    <2>1. t = LastOf(Unbounded, cap)
        BY <1>1, InsertIsDone
    <2> QED
        BY <1>1, <2>1 DEF Right
<1>2. CASE call.op = "assign"
    <2>1. t = LastOf(range, cap)
        BY <1>2, AssignIsDone
    <2> QED
        BY <1>2, <2>1 DEF Right
<1> QED
    BY <1>1, <1>2

LEMMA RInsertingEnds ==
    ASSUME Asked, NEW t, Begins(t, Len(range)), call.op = "rinsert", cap = before.cap
    PROVE  Right(t, cap)
<1>1. t = FirstOf(Unbounded, cap)
    BY RInsertIsDone
<1> QED
    BY <1>1 DEF Right

\* Before anything went in.
LEMMA NothingIn ==
    ASSUME Asked, Untouched, call.op \in {"insert", "rinsert"}
    PROVE  /\ Ends(s, 0) /\ Begins(s, 0) /\ base = Len(s)
           /\ Len(s) \in Nat /\ Len(s) <= cap /\ call.at \in 1 .. Len(s) + 1
           \* At an end that is full nothing goes in.
           /\ Len(s) = cap /\ call.at = 1 => Ends(s, Len(range))
           /\ Len(s) = cap /\ call.at = Len(s) + 1 => Begins(s, Len(range))
<1> DEFINE h == Len(range)
           n == Len(s)
<1>1. /\ cap \in Nat /\ base = n /\ n \in Nat /\ n <= cap /\ call.at \in 1 .. n + 1 /\ h \in Nat
    BY Numbers DEF base, Untouched
<1>2. s \in Seq(Int) /\ \A k \in 1 .. n : s[k] = k
    BY DEF Asked, Untouched
<1> HIDE DEF h, n
<1>3. n = Lesser(cap, base + 0) /\ (n = cap => n = Lesser(cap, base + h))
    BY <1>1 DEF Lesser
<1>4. ASSUME NEW k \in 1 .. n
      PROVE  /\ Want(0, k) = k
             /\ call.at = 1 => Want(h, k + h) = k
             /\ call.at = n + 1 => Want(h, k) = k
    BY <1>1 DEF Want
<1>5. \A k \in 1 .. n : k + (base + 0) - n = k /\ k + (base + h) - n = k + h
    BY <1>1
<1> QED
    BY <1>1, <1>2, <1>3, <1>4, <1>5 DEF Ends, Begins, n, h

\* The items that are left to be read.
LEMMA ReadingBegins ==
    ASSUME Asked, UNCHANGED asked, rest' = range
    PROVE  ToBeRead' /\ done' = 0
<1>1. range' = range /\ Len(range) \in Nat /\ MaxCapacity \in Nat
    BY Numbers DEF asked
<1>2. range \in Seq(Int) /\ \A k \in 1 .. Len(range) : range[k] = MaxCapacity + k
    BY DEF Asked
<1>3. done' = 0
    BY <1>1 DEF done
<1>4. \A k \in 1 .. Len(range) : MaxCapacity + 0 + k = MaxCapacity + k
    BY <1>1
<1> QED
    BY <1>1, <1>2, <1>3, <1>4 DEF ToBeRead

LEMMA ReadingGoesOn ==
    ASSUME Asked, ToBeRead, rest # <<>>, UNCHANGED asked, rest' = Tail(rest)
    PROVE  ToBeRead' /\ done' = done + 1 /\ done \in Nat /\ Head(rest) = MaxCapacity + done + 1
<1>1. range' = range /\ Len(range) \in Nat /\ MaxCapacity \in Nat
    BY Numbers DEF asked
<1>2. /\ rest \in Seq(Int) /\ Len(rest) <= Len(range)
      /\ \A k \in 1 .. Len(rest) : rest[k] = MaxCapacity + done + k
    BY DEF ToBeRead
<1>3. Len(rest) \in Nat /\ Len(rest) > 0
    BY <1>2, EmptySeq, LenProperties
<1>4. /\ Tail(rest) \in Seq(Int) /\ Len(Tail(rest)) = Len(rest) - 1 /\ Head(rest) = rest[1]
      /\ \A k \in 1 .. Len(rest) - 1 : Tail(rest)[k] = rest[k + 1]
    BY <1>2, <1>3, TailFacts
<1>5. done' = Len(range) - (Len(rest) - 1) /\ done = Len(range) - Len(rest)
    BY <1>1, <1>4 DEF done
<1>6. done' = done + 1 /\ done \in Nat
    BY <1>1, <1>2, <1>3, <1>5
<1>7. \A k \in 1 .. Len(rest) - 1 : k + 1 \in 1 .. Len(rest) /\ MaxCapacity + done + (k + 1) = MaxCapacity + (done + 1) + k
    BY <1>1, <1>3, <1>6
<1>8. \A k \in 1 .. Len(rest) - 1 : Tail(rest)[k] = MaxCapacity + (done + 1) + k
    BY <1>2, <1>4, <1>7
<1>9. Len(rest) - 1 <= Len(range)
    BY <1>1, <1>2, <1>3
<1>10. ToBeRead'
    BY <1>1, <1>4, <1>6, <1>8, <1>9 DEF ToBeRead
<1>11. 1 \in 1 .. Len(rest)
    BY <1>3
<1> QED
    BY <1>2, <1>4, <1>6, <1>10, <1>11

LEMMA InsertRangeStep ==
    ASSUME IInv, InsertRange
    PROVE  IInv'
<1>1. Asked /\ Untouched /\ ~incremented /\ call.op = "insert"
    BY DEF IInv, InsertRange
<1>2. /\ UNCHANGED asked /\ UNCHANGED incremented /\ s' = s /\ cap' = cap
      /\ pos' = call.at /\ rest' = range
      /\ pc' = IF ~full \/ call.at # 1 THEN "insert" ELSE "done"
    BY DEF InsertRange
<1>3. /\ Ends(s, 0) /\ base = Len(s) /\ Len(s) \in Nat /\ Len(s) <= cap /\ call.at \in 1 .. Len(s) + 1
      /\ Len(s) = cap /\ call.at = 1 => Ends(s, Len(range))
    BY <1>1, NothingIn
<1>n. cap \in Nat /\ Len(range) \in Nat /\ cap = before.cap
    BY <1>1, Numbers DEF Untouched
<1>4. CASE pc' = "insert"
    <2>1. Asked' /\ base' = base
        BY <1>1, <1>2, <1>n, SameCall
    <2>2. call' = call /\ before' = before /\ range' = range
        BY <1>2 DEF asked
    <2>3. ToBeRead' /\ done' = 0
        BY <1>1, <1>2, ReadingBegins
    <2>5. Ends(s, 0)'
        BY <1>2, <1>3, <2>1, <2>2 DEF Ends, Want
    <2>6. AtPlace(s, call.at)
        BY <1>2, <1>3, <1>4, <1>n DEF AtPlace, full
    <2>7. AtPlace(s, pos)'
        BY <1>2, <2>1, <2>2, <2>6 DEF AtPlace
    <2>8. Inserting'
        BY <1>1, <1>2, <1>n, <2>2, <2>3, <2>5, <2>7 DEF Inserting
    <2> QED
        BY <1>1, <1>2, <1>4, <2>1, <2>3, <2>8 DEF IInv, OneByOneIsAtOnce
<1>5. CASE pc' = "done"
    <2>1. Len(s) = cap /\ call.at = 1
        BY <1>2, <1>5 DEF full
    <2>2. Ends(s, Len(range))
        BY <1>3, <2>1
    <2>3. Right(s, cap)
        BY <1>1, <1>n, <2>2, InsertingEnds
    <2> QED
        BY <1>2, <1>5, <1>n, <2>3, Ended
<1> QED
    BY <1>2, <1>4, <1>5

LEMMA RInsertRangeStep ==
    ASSUME IInv, RInsertRange
    PROVE  IInv'
<1>1. Asked /\ Untouched /\ ~incremented /\ call.op = "rinsert"
    BY DEF IInv, RInsertRange
<1>2. /\ UNCHANGED asked /\ UNCHANGED incremented /\ s' = s /\ cap' = cap
      /\ pos' = call.at /\ rest' = range
      /\ pc' = IF ~full \/ call.at # Len(s) + 1 THEN "rinsert" ELSE "done"
    BY DEF RInsertRange
<1>3. /\ Begins(s, 0) /\ Len(s) \in Nat /\ Len(s) <= cap /\ call.at \in 1 .. Len(s) + 1
      /\ Len(s) = cap /\ call.at = Len(s) + 1 => Begins(s, Len(range))
    BY <1>1, NothingIn
<1>n. cap \in Nat /\ Len(range) \in Nat /\ cap = before.cap
    BY <1>1, Numbers DEF Untouched
<1>4. CASE pc' = "rinsert"
    <2>1. Asked' /\ base' = base
        BY <1>1, <1>2, <1>n, SameCall
    <2>2. call' = call /\ before' = before /\ range' = range
        BY <1>2 DEF asked
    <2>3. ToBeRead' /\ done' = 0
        BY <1>1, <1>2, ReadingBegins
    <2>5. Begins(s, 0)'
        BY <1>2, <1>3, <2>1, <2>2 DEF Begins, Want
    <2>6. AtNext(s, call.at, 0)
        BY <1>3 DEF AtNext
    <2>7. AtNext(s, pos, 0)'
        BY <1>2, <2>2, <2>6 DEF AtNext
    <2>8. RInserting'
        BY <1>1, <1>2, <1>n, <2>2, <2>3, <2>5, <2>7 DEF RInserting
    <2> QED
        BY <1>1, <1>2, <1>4, <2>1, <2>3, <2>8 DEF IInv, OneByOneIsAtOnce
<1>5. CASE pc' = "done"
    <2>1. Len(s) = cap /\ call.at = Len(s) + 1
        BY <1>2, <1>5 DEF full
    <2>2. Begins(s, Len(range))
        BY <1>3, <2>1
    <2>3. Right(s, cap)
        BY <1>1, <1>n, <2>2, RInsertingEnds
    <2> QED
        BY <1>2, <1>5, <1>n, <2>3, Ended
<1> QED
    BY <1>2, <1>4, <1>5

LEMMA InsertItemStep ==
    ASSUME IInv, InsertItem
    PROVE  IInv'
<1> DEFINE x == MaxCapacity + done + 1
           c == Op("insert", pos, 0, Head(rest))
           r == After(c, s, cap)
<1>1. Asked /\ ToBeRead /\ Inserting /\ ~incremented /\ pc = "insert" /\ rest # <<>>
    BY DEF IInv, InsertItem
<1>2. UNCHANGED asked /\ rest' = Tail(rest)
    BY DEF InsertItem
<1>n. cap \in Nat /\ cap = before.cap
    BY <1>1, Numbers DEF Inserting
<1>3. CASE Does(c) /\ Step(r[3]) /\ UNCHANGED pc
    <2>1. ToBeRead' /\ done' = done + 1 /\ done \in Nat /\ Head(rest) = x
        BY <1>1, <1>2, ReadingGoesOn
    <2>2. c = Op("insert", pos, 0, x)
        BY <2>1
    <2>3. Ends(s, done) /\ AtPlace(s, pos)
        BY <1>1 DEF Inserting
    <2>4. /\ Ends(r[1], done + 1) /\ r[2] = cap
          /\ AtPlace(r[1], r[3] + 1) /\ r[3] \in 1 .. Len(r[1])
        <3> DEFINE d == done
        <3>1. d \in Nat /\ Ends(s, d)
            BY <2>1, <2>3
        <3>2. r = After(Op("insert", pos, 0, MaxCapacity + d + 1), s, cap)
            BY <2>2
        <3> HIDE DEF d, r
        <3>3. LET q == After(Op("insert", pos, 0, MaxCapacity + d + 1), s, cap)
              IN  /\ Ends(q[1], d + 1) /\ q[2] = cap
                  /\ AtPlace(q[1], q[3] + 1) /\ q[3] \in 1 .. Len(q[1])
            BY <1>1, <2>3, <3>1, EndsStep
        <3> QED
            BY <3>2, <3>3 DEF d
    <2>5. s' = r[1] /\ cap' = r[2] /\ pos' = r[3] + 1 /\ incremented' = (incremented \/ r[3] = Len(s') + 1)
        BY <1>3 DEF Does, Step
    <2> HIDE DEF r, x, c
    <2>6. cap' = cap /\ Len(r[1]) \in Nat /\ Ends(s', done + 1) /\ AtPlace(s', pos')
        BY <2>4, <2>5, LenProperties DEF Ends
    <2>7. r[3] # Len(r[1]) + 1
        BY <2>4, <2>6
    <2>8. ~incremented'
        BY <1>1, <2>5, <2>7
    <2>9. Asked' /\ base' = base
        BY <1>1, <1>2, <1>n, <2>6, SameCall
    <2>10. call' = call /\ before' = before /\ range' = range
        BY <1>2 DEF asked
    <2>11. Ends(s, done)'
        BY <2>1, <2>6, <2>9, <2>10 DEF Ends, Want
    <2>12. AtPlace(s, pos)'
        BY <2>6, <2>9, <2>10 DEF AtPlace
    <2>13. Inserting'
        BY <1>1, <2>6, <2>10, <2>11, <2>12 DEF Inserting
    <2> QED
        BY <1>1, <1>3, <2>1, <2>8, <2>9, <2>13 DEF IInv, OneByOneIsAtOnce
<1>4. CASE Fails(c) /\ UNCHANGED <<pos, incremented>>
    BY <1>1, <1>2, <1>4, Throws DEF Fails
<1> QED
    BY <1>3, <1>4 DEF InsertItem

\* No place is left: the rest of the items would fall out at the end.
LEMMA NoPlaceLeft ==
    ASSUME Asked, NEW d \in Nat, d <= Len(range), NEW u, Begins(u, d), Len(u) = cap,
           Len(u) < call.at + d
    PROVE  Begins(u, Len(range))
<1> DEFINE h == Len(range)
           l == Len(u)
<1>1. /\ cap \in Nat /\ base \in Nat /\ call.at \in Nat /\ h \in Nat /\ MaxCapacity \in Nat
    BY Numbers
<1>2. u \in Seq(Int) /\ l = Lesser(cap, base + d) /\ \A k \in 1 .. l : u[k] = Want(d, k)
    BY DEF Begins
<1>3. l = cap /\ l < call.at + d /\ d <= h
    OBVIOUS
<1> HIDE DEF h, l
<1>4. l = Lesser(cap, base + h)
    BY <1>1, <1>2, <1>3 DEF Lesser
<1>5. \A k \in 1 .. l : Want(d, k) = Want(h, k)
    BY <1>1, <1>3 DEF Want
<1> QED
    BY <1>2, <1>4, <1>5 DEF Begins, h, l

LEMMA RInsertItemStep ==
    ASSUME IInv, RInsertItem
    PROVE  IInv'
<1> DEFINE x == MaxCapacity + done + 1
           c == Op("rinsert", pos, 0, Head(rest))
           r == After(c, s, cap)
           u == r[1]
<1>1. Asked /\ ToBeRead /\ RInserting /\ ~incremented /\ pc = "rinsert" /\ rest # <<>>
    BY DEF IInv, RInsertItem
<1>2. UNCHANGED asked /\ rest' = Tail(rest)
    BY DEF RInsertItem
<1>n. /\ cap \in Nat /\ cap = before.cap /\ call.op = "rinsert"
      /\ call.at \in Nat /\ Len(range) \in Nat
    BY <1>1, Numbers DEF RInserting
<1>3. ToBeRead' /\ done' = done + 1 /\ done \in Nat /\ Head(rest) = x
    BY <1>1, <1>2, ReadingGoesOn
<1>4. Begins(s, done) /\ AtNext(s, pos, done)
    BY <1>1 DEF RInserting
<1>5. /\ Begins(u, done + 1) /\ r[2] = cap /\ r[3] = pos /\ pos <= Len(u) + 1
      /\ pos = Len(u) + 1 => Len(u) = cap
    <2> DEFINE d == done
    <2>1. d \in Nat /\ Begins(s, d) /\ AtNext(s, pos, d)
        BY <1>3, <1>4
    <2>2. r = After(Op("rinsert", pos, 0, MaxCapacity + d + 1), s, cap)
        BY <1>3
    <2> HIDE DEF d, r
    <2>3. LET q == After(Op("rinsert", pos, 0, MaxCapacity + d + 1), s, cap)
          IN  /\ Begins(q[1], d + 1) /\ q[2] = cap /\ q[3] = pos /\ pos <= Len(q[1]) + 1
              /\ pos = Len(q[1]) + 1 => Len(q[1]) = cap
        BY <1>1, <2>1, BeginsStep
    <2> QED
        BY <2>2, <2>3 DEF d
<1>6. call' = call /\ before' = before /\ range' = range
    BY <1>2 DEF asked
<1>7. pos = call.at + done /\ Len(u) \in Nat /\ done + 1 <= Len(range)
    <2>1. done' <= Len(range)
        <3>1. Len(rest') \in Nat /\ Len(range') = Len(range) /\ done' = Len(range) - Len(rest')
            BY <1>3, <1>6, LenProperties DEF ToBeRead, done
        <3> QED
            BY <1>n, <3>1
    <2> QED
        BY <1>3, <1>4, <1>5, <2>1, LenProperties DEF AtNext, Begins
<1>8. CASE /\ Does(c)
           /\ IF r[3] = Len(s') + 1 THEN pc' = "done" /\ pos' = r[3] /\ UNCHANGED incremented
              ELSE Step(r[3]) /\ UNCHANGED pc
    <2>1. s' = u /\ cap' = cap
        BY <1>5, <1>8 DEF Does
    <2> HIDE DEF u, x, c
    <2>2. CASE pos = Len(u) + 1
        <3>1. pc' = "done" /\ UNCHANGED incremented
            BY <1>5, <1>8, <2>1, <2>2
        <3>2. Len(u) = cap /\ Len(u) < call.at + (done + 1) /\ done + 1 \in Nat
            BY <1>3, <1>5, <1>7, <1>n, <2>2
        <3>3. Begins(u, Len(range))
            <4> DEFINE d == done + 1
            <4>1. d \in Nat /\ d <= Len(range) /\ Begins(u, d) /\ Len(u) = cap /\ Len(u) < call.at + d
                BY <1>5, <1>7, <3>2
            <4> HIDE DEF d
            <4> QED
                BY <1>1, <4>1, NoPlaceLeft
        <3>4. Right(u, cap)
            BY <1>1, <1>n, <3>3, RInsertingEnds
        <3> QED
            BY <1>2, <1>n, <2>1, <3>1, <3>4, Ended
    <2>3. CASE pos # Len(u) + 1
        <3>1. pos' = pos + 1 /\ pc' = pc /\ incremented' = (incremented \/ pos = Len(u) + 1)
            BY <1>5, <1>8, <2>1, <2>3 DEF Step
        <3>2. ~incremented'
            BY <1>1, <2>3, <3>1
        <3>3. Asked' /\ base' = base
            BY <1>1, <1>2, <1>n, <2>1, SameCall
        <3>4. Begins(s, done)'
            BY <1>3, <1>5, <1>6, <2>1, <3>3 DEF Begins, Want
        <3>5. AtNext(u, pos + 1, done + 1)
            <4> DEFINE d == done
                       n == Len(u)
                       a == call.at
            <4>1. d \in Nat /\ n \in Nat /\ a \in Nat /\ pos = a + d /\ pos <= n + 1 /\ pos # n + 1
                BY <1>3, <1>5, <1>7, <1>n, <2>3
            <4> HIDE DEF d, n, a
            <4>2. pos + 1 <= n + 1 /\ pos + 1 = a + (d + 1)
                BY <4>1
            <4> QED
                BY <4>2 DEF AtNext, d, n, a
        <3>6. AtNext(s, pos, done)'
            BY <1>3, <1>6, <2>1, <3>1, <3>5 DEF AtNext
        <3>7. RInserting'
            BY <1>6, <1>n, <2>1, <3>4, <3>6 DEF RInserting
        <3> QED
            BY <1>1, <1>3, <3>1, <3>2, <3>3, <3>7 DEF IInv, OneByOneIsAtOnce
    <2> QED
        BY <2>2, <2>3
<1>9. CASE Fails(c) /\ UNCHANGED <<pos, incremented>>
    BY <1>1, <1>2, <1>9, Throws DEF Fails
<1> QED
    BY <1>8, <1>9 DEF RInsertItem

LEMMA RangeDoneStep ==
    ASSUME IInv, RangeDone
    PROVE  IInv'
<1>1. /\ Asked /\ ToBeRead /\ ~incremented /\ rest = <<>> /\ pc \in {"insert", "rinsert"}
      /\ pc = "insert" => Inserting
      /\ pc = "rinsert" => RInserting
    BY DEF IInv, RangeDone
<1>2. UNCHANGED asked /\ UNCHANGED incremented /\ s' = s /\ cap' = cap /\ pc' = "done"
    BY DEF RangeDone
<1>n. cap \in Nat /\ Len(range) \in Nat
    BY <1>1, Numbers
<1>3. done = Len(range)
    <2>1. Len(rest) = 0
        BY <1>1
    <2> QED
        BY <1>n, <2>1 DEF done
<1>4. CASE pc = "insert"
    <2>1. /\ Ends(s, Len(range)) /\ call.op \in {"insert", "assign"} /\ cap = before.cap
          /\ call.op = "assign" => call.size = cap
        BY <1>1, <1>3, <1>4 DEF Inserting
    <2>2. Right(s, cap)
        BY <1>1, <2>1, InsertingEnds
    <2> QED
        BY <1>2, <1>n, <2>2, Ended
<1>5. CASE pc = "rinsert"
    <2>1. Begins(s, Len(range)) /\ call.op = "rinsert" /\ cap = before.cap
        BY <1>1, <1>3, <1>5 DEF RInserting
    <2>2. Right(s, cap)
        BY <1>1, <2>1, RInsertingEnds
    <2> QED
        BY <1>2, <1>n, <2>2, Ended
<1> QED
    BY <1>1, <1>4, <1>5

LEMMA AssignInPlaceStep ==
    ASSUME IInv, AssignInPlace
    PROVE  IInv'
<1>1. Asked /\ Untouched /\ ~incremented /\ call.op = "assign" /\ call.size = cap
    BY DEF IInv, AssignInPlace
<1>2. /\ UNCHANGED asked /\ UNCHANGED incremented /\ s' = <<>> /\ cap' = cap
      /\ pos' = 1 /\ rest' = range
      /\ pc' = IF cap > 0 THEN "insert" ELSE "done"
    BY AfterErasing DEF AssignInPlace, Does
<1>3. cap \in Nat /\ Len(range) \in Nat /\ cap = before.cap /\ base = 0 /\ call.at = 1
    BY <1>1, Numbers DEF Untouched, base, Asked
<1>4. /\ <<>> \in Seq(Int) /\ Len(<<>>) = 0
      /\ \A d \in Nat : Lesser(cap, base + 0) = 0 /\ (cap = 0 => Lesser(cap, base + d) = 0)
    BY <1>3 DEF Lesser
<1>5. CASE pc' = "insert"
    <2>1. Asked' /\ base' = base
        BY <1>1, <1>2, <1>3, SameCall
    <2>2. call' = call /\ before' = before /\ range' = range
        BY <1>2 DEF asked
    <2>3. ToBeRead' /\ done' = 0
        BY <1>1, <1>2, ReadingBegins
    <2>4. Ends(s, 0)'
        BY <1>2, <1>4, <2>1 DEF Ends
    <2>5. AtPlace(<<>>, 1)
        BY <1>2, <1>3, <1>4, <1>5 DEF AtPlace
    <2>6. AtPlace(s, pos)'
        BY <1>2, <2>1, <2>2, <2>5 DEF AtPlace
    <2>7. Inserting'
        BY <1>1, <1>2, <1>3, <2>2, <2>3, <2>4, <2>6 DEF Inserting
    <2> QED
        BY <1>2, <1>1, <1>5, <2>1, <2>3, <2>7 DEF IInv, OneByOneIsAtOnce
<1>6. CASE pc' = "done"
    <2>1. cap = 0
        BY <1>2, <1>3, <1>6
    <2>2. Ends(<<>>, Len(range))
        BY <1>3, <1>4, <2>1 DEF Ends
    <2>3. Right(<<>>, cap)
        BY <1>1, <1>3, <2>2, InsertingEnds
    <2> QED
        BY <1>2, <1>3, <1>6, <2>3, Ended
<1> QED
    BY <1>2, <1>5, <1>6

LEMMA AssignNewStep ==
    ASSUME IInv, AssignNew
    PROVE  IInv'
<1>1. Asked /\ ~incremented /\ call.op = "assign" /\ call.size \in Nat
    BY DEF IInv, AssignNew, Asked
<1>2. UNCHANGED <<asked, incremented>>
    BY DEF AssignNew
<1>3. CASE s' = LastOf(range, call.size) /\ cap' = call.size /\ pc' = "done"
    <2>1. Right(s', cap')
        BY <1>1, <1>3 DEF Right
    <2> QED
        BY <1>1, <1>2, <1>3, <2>1, Ended
<1>4. CASE pc' = "threw" /\ UNCHANGED <<s, cap>>
    BY <1>2, <1>4, Throws
<1> QED
    BY <1>3, <1>4 DEF AssignNew

LEMMA Stutter ==
    ASSUME IInv, UNCHANGED rvars
    PROVE  IInv'
BY DEF IInv, rvars, Asked, Untouched, ToBeRead, Inserting, RInserting, Filling, OneByOneIsAtOnce,
       Ends, Begins, AtPlace, AtNext, Want, base, done, full, Unbounded

-----------------------------------------------------------------------------
(* The results.                                                            *)

\* The loops over one-item insertions stay on their way: whatever was read so
\* far, the buffer holds what inserting it at once would have left.
THEOREM Invariance == Spec => []IInv
<1>1. Init => IInv
    BY InitLemma
<1>2. IInv /\ [Next]_rvars => IInv'
    <2> SUFFICES ASSUME IInv, [Next]_rvars PROVE IInv'
        OBVIOUS
    <2>1. CASE EnsureCapacity
        BY <2>1, EnsureCapacityStep
    <2>2. CASE Fill
        BY <2>2, FillStep
    <2>3. CASE Shrink
        BY <2>3, ShrinkStep
    <2>4. CASE InsertRange
        BY <2>4, InsertRangeStep
    <2>5. CASE RInsertRange
        BY <2>5, RInsertRangeStep
    <2>6. CASE InsertItem
        BY <2>6, InsertItemStep
    <2>7. CASE RInsertItem
        BY <2>7, RInsertItemStep
    <2>8. CASE RangeDone
        BY <2>8, RangeDoneStep
    <2>9. CASE AssignInPlace
        BY <2>9, AssignInPlaceStep
    <2>10. CASE AssignNew
        BY <2>10, AssignNewStep
    <2>11. CASE UNCHANGED rvars
        BY <2>11, Stutter
    <2> QED
        BY <2>1, <2>2, <2>3, <2>4, <2>5, <2>6, <2>7, <2>8, <2>9, <2>10, <2>11 DEF Next
<1> QED
    BY <1>1, <1>2, PTL DEF Spec

\* A range put in item by item, each pushing another out of a full buffer,
\* leaves what putting it in at once is documented to leave; so do resize and
\* rresize, for every capacity, position, size and length of the range.
THEOREM ItemByItem == Spec => []OneByOneIsAtOnce
<1>1. IInv => OneByOneIsAtOnce
    BY DEF IInv
<1> QED
    BY <1>1, Invariance, PTL

\* The position of the next item is one of the buffer's, and ++ is never
\* applied to the end, although items fall out in front of it.
THEOREM PositionIsInside == Spec => []PositionStaysInside
<1>1. ASSUME IInv
      PROVE  PositionStaysInside
    <2>1. Asked /\ ~incremented
        BY <1>1 DEF IInv
    <2>2. base \in Nat /\ call.at \in 1 .. base + 1 /\ Len(range) \in Nat
        BY <2>1, Numbers
    <2>3. CASE pc = "insert"
        <3>1. Len(s) \in Nat /\ AtPlace(s, pos)
            BY <1>1, <2>3, LenProperties DEF IInv, Inserting, Ends
        <3>2. pos \in 1 .. Len(s) + 1
            BY <2>2, <3>1 DEF AtPlace
        <3> QED
            BY <2>1, <3>2 DEF PositionStaysInside
    <2>4. CASE pc = "rinsert"
        <3>1. Len(s) \in Nat /\ AtNext(s, pos, done) /\ ToBeRead
            BY <1>1, <2>4, LenProperties DEF IInv, RInserting, Begins
        <3>2. Len(rest) \in Nat /\ Len(rest) <= Len(range)
            BY <3>1, LenProperties DEF ToBeRead
        <3>3. done \in Nat
            BY <2>2, <3>2 DEF done
        <3>4. pos \in 1 .. Len(s) + 1
            BY <2>2, <3>1, <3>3 DEF AtNext
        <3> QED
            BY <2>1, <3>4 DEF PositionStaysInside
    <2> QED
        BY <2>1, <2>3, <2>4 DEF PositionStaysInside
<1> QED
    BY <1>1, Invariance, PTL

=============================================================================
