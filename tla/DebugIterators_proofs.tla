------------------------ MODULE DebugIterators_proofs ------------------------
(***************************************************************************)
(* Proofs about DebugIterators, for any number of containers and iterators *)
(* and every capacity.                                                     *)
(***************************************************************************)
EXTENDS DebugIterators, RingPointers_proofs, FiniteSetTheorems, SequenceTheorems

---------------------------------------------------------------------------
(* Heaps and chains.                                                       *)

Node == Iterator \cup {Temp}

Members == [registry : Buffer \cup {Null}, next : Node \cup {Null},
            buff : Buffer \cup {Null}, m_it : Int]

Heaps == [head : [Buffer -> Node \cup {Null}], it : [Node -> Members]]

\* The node at k, or the end of the chain.
NodeAt(C, k) == IF k <= Len(C) THEN C[k] ELSE Null

Rng(C) == {C[k] : k \in 1 .. Len(C)}

\* C is what a walk from m_iterators along m_next meets.
Linked(h, b, C) ==
    /\ C \in Seq(Node)
    /\ \A m, n \in 1 .. Len(C) : C[m] = C[n] => m = n
    /\ h.head[b] = NodeAt(C, 1)
    /\ \A k \in 1 .. Len(C) : h.it[C[k]].next = NodeAt(C, k + 1)

\* The chain of each container consists of the nodes in X registered with it.
Chained(h, X) ==
    \A b \in Buffer :
        \E C : Linked(h, b, C) /\ Rng(C) = {i \in X : h.it[i].registry = b}

LEMMA NullIsNoNode == Null \notin Node /\ Null \notin Buffer /\ Temp \in Node /\ Temp \notin Iterator
BY DebugAssumption DEF Node

LEMMA LinkedFacts ==
    ASSUME NEW h, NEW b, NEW C, Linked(h, b, C)
    PROVE  /\ C \in Seq(Node) /\ Len(C) \in Nat
           /\ \A k \in 1 .. Len(C) : C[k] \in Node /\ C[k] \in Rng(C)
           /\ Rng(C) \subseteq Node
           /\ \A m, n \in 1 .. Len(C) : C[m] = C[n] => m = n
<1>1. C \in Seq(Node) /\ Len(C) \in Nat
    BY LenProperties DEF Linked
<1>2. \A k \in 1 .. Len(C) : C[k] \in Node
    BY <1>1, ElementOfSeq
<1> QED
    BY <1>1, <1>2 DEF Rng, Linked

\* No chain is longer than the number of nodes.
LEMMA ChainIsShort ==
    ASSUME NEW h, NEW b, NEW C, Linked(h, b, C)
    PROVE  Len(C) <= Cardinality(Iterator) + 1 /\ Cardinality(Iterator) \in Nat
<1>1. IsFiniteSet(Iterator) /\ Cardinality(Iterator) \in Nat
    BY DebugAssumption, FS_CardinalityType
<1>2. IsFiniteSet(Node) /\ Cardinality(Node) = Cardinality(Iterator) + 1
    BY <1>1, NullIsNoNode, FS_AddElement DEF Node
<1>3. C \in Seq(Node) /\ Len(C) \in Nat
    BY LinkedFacts
<1>4. C \in [1 .. Len(C) -> Node]
    BY <1>3, LenProperties
<1>5. C \in Injection(1 .. Len(C), Node)
    BY <1>4 DEF Linked, Injection, IsInjective
<1>6. Cardinality(1 .. Len(C)) <= Cardinality(Node)
    BY <1>2, <1>5, FS_Injection
<1>7. Cardinality(1 .. Len(C)) = Len(C)
    BY <1>3, FS_Interval
<1> QED
    BY <1>1, <1>2, <1>3, <1>6, <1>7


\* The walk meets the chain, and then nothing.
LEMMA ChainIs ==
    ASSUME NEW h, NEW b, NEW C, Linked(h, b, C)
    PROVE  Chain(h, b) = C
<1> DEFINE limit   == Cardinality(Iterator) + 2
           Step(w) == [n \in 1 .. limit |->
                         IF n = 1 THEN h.head[b]
                         ELSE IF w[n - 1] = Null THEN Null ELSE h.it[w[n - 1]].next]
           hops    == [n \in 1 .. limit |-> NodeAt(C, n)]
<1>1. /\ C \in Seq(Node) /\ Len(C) \in Nat /\ limit \in Nat /\ Len(C) < limit
      /\ \A k \in 1 .. Len(C) : C[k] \in Node
    BY ChainIsShort, LinkedFacts
<1>2. ASSUME NEW n \in 1 .. limit, n # 1
      PROVE  NodeAt(C, n) = IF NodeAt(C, n - 1) = Null THEN Null ELSE h.it[NodeAt(C, n - 1)].next
    <2>1. CASE n - 1 <= Len(C)
        <3>1. n - 1 \in 1 .. Len(C) /\ n - 1 + 1 = n
            BY <1>1, <1>2, <2>1
        <3>2. h.it[C[n - 1]].next = NodeAt(C, n - 1 + 1)
            BY <3>1 DEF Linked
        <3>3. NodeAt(C, n - 1) = C[n - 1] /\ C[n - 1] # Null
            BY <1>1, <2>1, <3>1, NullIsNoNode DEF NodeAt
        <3> QED
            BY <3>1, <3>2, <3>3
    <2>2. CASE ~(n - 1 <= Len(C))
        <3>1. ~(n <= Len(C))
            BY <1>1, <2>2
        <3> QED
            BY <2>2, <3>1 DEF NodeAt
    <2> QED
        BY <2>1, <2>2
<1>3. NodeAt(C, 1) = h.head[b]
    BY DEF Linked
<1>4. \A n \in 1 .. limit : n # 1 => n - 1 \in 1 .. limit
    BY <1>1
<1>5. hops = Step(hops)
    BY <1>2, <1>3, <1>4
<1>6. PICK w : w = Step(w) /\ Chain(h, b) = SubSeq(w, 1, Cardinality({n \in 1 .. limit : w[n] # Null}))
    BY <1>5 DEF Chain
<1>7. /\ w[1] = h.head[b]
      /\ \A n \in 1 .. limit : n # 1 => w[n] = IF w[n - 1] = Null THEN Null ELSE h.it[w[n - 1]].next
    BY <1>1, <1>6
<1> DEFINE P == {i \in 0 .. limit - 1 : w[i + 1] = NodeAt(C, i + 1)}
<1>8. 0 \in P
    BY <1>1, <1>3, <1>7
<1>9. ASSUME NEW i \in 1 .. limit - 1, i - 1 \in P PROVE i \in P
    <2>1. i + 1 \in 1 .. limit /\ i + 1 # 1 /\ i + 1 - 1 = i /\ i - 1 + 1 = i
        BY <1>1
    <2>2. w[i] = NodeAt(C, i)
        BY <1>9, <2>1
    <2>3. w[i + 1] = IF w[i] = Null THEN Null ELSE h.it[w[i]].next
        BY <1>7, <2>1
    <2>4. NodeAt(C, i + 1) = IF NodeAt(C, i) = Null THEN Null ELSE h.it[NodeAt(C, i)].next
        BY <1>2, <2>1
    <2> QED
        BY <2>2, <2>3, <2>4
<1>10. 0 .. limit - 1 \subseteq P
    <2>1. limit - 1 \in Nat
        BY <1>1
    <2> HIDE DEF P, limit
    <2> QED
        BY <1>8, <1>9, <2>1, BoundedInduction
<1>11. \A n \in 1 .. limit : w[n] = NodeAt(C, n)
    <2> TAKE n \in 1 .. limit
    <2>1. n - 1 \in 0 .. limit - 1 /\ n - 1 + 1 = n
        BY <1>1
    <2>2. n - 1 \in P
        BY <1>10, <2>1
    <2> QED
        BY <2>1, <2>2
<1> HIDE DEF limit
<1>12. {n \in 1 .. limit : w[n] # Null} = 1 .. Len(C)
    BY <1>1, <1>11, NullIsNoNode DEF NodeAt
<1>13. Cardinality(1 .. Len(C)) = Len(C)
    <2>1. PICK n \in Nat : n = Len(C)
        BY <1>1
    <2>2. Cardinality(1 .. n) = IF 1 > n THEN 0 ELSE n - 1 + 1
        BY FS_Interval
    <2> QED
        BY <2>1, <2>2
<1>14. Chain(h, b) = SubSeq(w, 1, Len(C))
    BY <1>6, <1>12, <1>13 DEF limit
<1>15. w = [n \in 1 .. limit |-> NodeAt(C, n)]
    BY <1>6, <1>11 DEF limit
<1>16. \A n \in 1 .. limit : NodeAt(C, n) \in Node \cup {Null}
    BY <1>1 DEF NodeAt
<1>17. w \in Seq(Node \cup {Null}) /\ Len(w) = limit
    <2>1. w \in [1 .. limit -> Node \cup {Null}]
        BY <1>11, <1>15, <1>16
    <2> QED
        BY <1>1, <2>1, SeqDef, LenProperties
<1>18. /\ SubSeq(w, 1, Len(C)) \in Seq(Node \cup {Null})
       /\ Len(SubSeq(w, 1, Len(C))) = Len(C)
       /\ \A k \in 1 .. Len(C) : SubSeq(w, 1, Len(C))[k] = w[k]
    <2>1. 1 \in 1 .. Len(w) + 1 /\ Len(C) \in 0 .. Len(w)
        BY <1>1, <1>17
    <2>2. /\ SubSeq(w, 1, Len(C)) \in Seq(Node \cup {Null})
          /\ Len(SubSeq(w, 1, Len(C))) = IF 1 <= Len(C) THEN Len(C) - 1 + 1 ELSE 0
          /\ \A k \in 1 .. Len(C) - 1 + 1 : SubSeq(w, 1, Len(C))[k] = w[1 + k - 1]
        BY <1>17, <2>1, SubSeqProperties
    <2> QED
        BY <1>1, <2>2
<1>19. \A k \in 1 .. Len(C) : w[k] = C[k]
    BY <1>1, <1>11 DEF NodeAt
<1>20. C \in Seq(Node \cup {Null})
    BY <1>1
<1> DEFINE c == Chain(h, b)
<1>21. c \in Seq(Node \cup {Null}) /\ Len(c) = Len(C) /\ \A k \in 1 .. Len(C) : c[k] = C[k]
    BY <1>14, <1>18, <1>19
<1> HIDE DEF c
<1>22. c = C
    BY <1>20, <1>21, SeqEqual
<1> QED
    BY <1>22 DEF c


---------------------------------------------------------------------------
(* What the operations on the chains change.                               *)

\* They may relink nodes, but leave the other members.
SameMembers(h, g) ==
    \A i \in Node : /\ g.it[i].registry = h.it[i].registry
                    /\ g.it[i].buff = h.it[i].buff
                    /\ g.it[i].m_it = h.it[i].m_it

LEMMA HeapFacts ==
    ASSUME NEW h \in Heaps
    PROVE  /\ \A b \in Buffer : h.head[b] \in Node \cup {Null}
           /\ \A i \in Node : /\ h.it[i] \in Members
                              /\ h.it[i].registry \in Buffer \cup {Null}
                              /\ h.it[i].next \in Node \cup {Null}
                              /\ h.it[i].buff \in Buffer \cup {Null}
                              /\ h.it[i].m_it \in Int
           /\ h.head \in [Buffer -> Node \cup {Null}] /\ h.it \in [Node -> Members]
           /\ DOMAIN h.it = Node
BY DEF Heaps, Members

LEMMA RegisterEffect ==
    ASSUME NEW h \in Heaps, NEW b \in Buffer, NEW i \in Node
    PROVE  LET g == register_iterator(h, b, i) IN
           /\ g \in Heaps /\ SameMembers(h, g)
           /\ g.head[b] = i /\ g.it[i].next = h.head[b]
           /\ \A c \in Buffer : c # b => g.head[c] = h.head[c]
           /\ \A j \in Node : j # i => g.it[j] = h.it[j]
<1> DEFINE g == register_iterator(h, b, i)
           m == [h.it EXCEPT ![i].next = h.head[b]]
<1>1. g.head = [h.head EXCEPT ![b] = i] /\ g.it = m /\ g = [head |-> g.head, it |-> g.it]
    <2> DEFINE f == [h EXCEPT !.it[i].next = h.head[b]]
    <2>1. f.head = h.head /\ f.it = m /\ f \in [head : {h.head}, it : {m}]
        BY DEF Heaps
    <2>2. g = [f EXCEPT !.head[b] = i]
        BY DEF register_iterator
    <2> HIDE DEF f, m, g
    <2> QED
        BY <2>1, <2>2
<1>2. m \in [Node -> Members]
    BY HeapFacts DEF Members
<1>3. g.head \in [Buffer -> Node \cup {Null}]
    BY <1>1, HeapFacts
<1>4. /\ m[i].next = h.head[b]
      /\ \A j \in Node : j # i => m[j] = h.it[j]
      /\ \A j \in Node : m[j].registry = h.it[j].registry /\ m[j].buff = h.it[j].buff /\ m[j].m_it = h.it[j].m_it
    BY HeapFacts DEF Members
<1>5. g.head[b] = i /\ \A c \in Buffer : c # b => g.head[c] = h.head[c]
    BY <1>1, HeapFacts
<1>6. g \in Heaps
    BY <1>1, <1>2, <1>3 DEF Heaps
<1> HIDE DEF m, g
<1>7. SameMembers(h, g) /\ g.it[i].next = h.head[b] /\ \A j \in Node : j # i => g.it[j] = h.it[j]
    BY <1>1, <1>4 DEF SameMembers
<1> QED
    BY <1>5, <1>6, <1>7 DEF g

LEMMA RemoveEffect ==
    ASSUME NEW h \in Heaps, NEW b \in Buffer, NEW i \in Node, NEW p \in Node \cup {Null},
           p = Null => h.head[b] = i
    PROVE  LET g == remove(h, b, i, p) IN
           /\ g \in Heaps /\ SameMembers(h, g)
           /\ g.head[b] = IF p = Null THEN h.it[i].next ELSE h.head[b]
           /\ p # Null => g.it[p].next = h.it[i].next
           /\ \A c \in Buffer : c # b => g.head[c] = h.head[c]
           /\ \A j \in Node : j # p => g.it[j] = h.it[j]
<1>1. CASE p = Null
    BY <1>1, HeapFacts, NullIsNoNode DEF remove, Heaps, Members, SameMembers
<1>2. CASE p # Null
    <2> DEFINE g == remove(h, b, i, p)
               m == [h.it EXCEPT ![p].next = h.it[i].next]
    <2>1. g.head = h.head /\ g.it = m /\ g = [head |-> g.head, it |-> g.it]
        BY <1>2 DEF remove, Heaps
    <2>2. m \in [Node -> Members]
        BY <1>2, HeapFacts DEF Members
    <2>3. /\ m[p].next = h.it[i].next
          /\ \A j \in Node : j # p => m[j] = h.it[j]
          /\ \A j \in Node : m[j].registry = h.it[j].registry /\ m[j].buff = h.it[j].buff /\ m[j].m_it = h.it[j].m_it
        BY <1>2, HeapFacts DEF Members
    <2>4. g \in Heaps
        BY <2>1, <2>2, HeapFacts DEF Heaps
    <2> HIDE DEF m, g
    <2>5. SameMembers(h, g) /\ g.it[p].next = h.it[i].next /\ \A j \in Node : j # p => g.it[j] = h.it[j]
        BY <2>1, <2>3 DEF SameMembers
    <2> QED
        BY <1>2, <2>1, <2>4, <2>5 DEF g
<1> QED
    BY <1>1, <1>2

LEMMA UnregisteredEffect ==
    ASSUME NEW h \in Heaps, NEW i \in Node
    PROVE  LET g == [h EXCEPT !.it[i].registry = Null] IN
           /\ g \in Heaps /\ g.head = h.head
           /\ g.it[i].registry = Null /\ g.it[i].next = h.it[i].next
           /\ g.it[i].buff = h.it[i].buff /\ g.it[i].m_it = h.it[i].m_it
           /\ \A j \in Node : j # i => g.it[j] = h.it[j]
BY HeapFacts DEF Heaps, Members

LEMMA ReplacedEffect ==
    ASSUME NEW h \in Heaps, NEW i \in Node, NEW m \in Members
    PROVE  LET g == [h EXCEPT !.it[i] = m] IN
           /\ g \in Heaps /\ g.head = h.head /\ g.it[i] = m
           /\ \A j \in Node : j # i => g.it[j] = h.it[j]
BY HeapFacts DEF Heaps, Members

---------------------------------------------------------------------------
(* Chains that grow and shrink.                                            *)

Pushed(C, i)  == [k \in 1 .. Len(C) + 1 |-> IF k = 1 THEN i ELSE C[k - 1]]
Dropped(C, k) == [m \in 1 .. Len(C) - 1 |-> IF m < k THEN C[m] ELSE C[m + 1]]

LEMMA FunctionIsSeq ==
    ASSUME NEW S, NEW n \in Nat, NEW f \in [1 .. n -> S]
    PROVE  f \in Seq(S) /\ Len(f) = n
<1>1. f \in Seq(S)
    BY SeqDef
<1>2. Len(f) \in Nat /\ DOMAIN f = 1 .. Len(f) /\ DOMAIN f = 1 .. n
    BY <1>1, LenProperties
<1> QED
    BY <1>1, <1>2

\* The chain of another container, and the nodes in it, are not concerned.
LEMMA LinkedStays ==
    ASSUME NEW h, NEW g, NEW b, NEW C, Linked(h, b, C),
           g.head[b] = h.head[b], \A i \in Rng(C) : g.it[i].next = h.it[i].next
    PROVE  Linked(g, b, C)
<1>1. \A k \in 1 .. Len(C) : C[k] \in Rng(C)
    BY LinkedFacts
<1>2. \A k \in 1 .. Len(C) : g.it[C[k]].next = NodeAt(C, k + 1)
    BY <1>1 DEF Linked
<1> QED
    BY <1>2 DEF Linked

LEMMA LinkedPush ==
    ASSUME NEW h, NEW g, NEW b, NEW C, Linked(h, b, C), NEW i \in Node, i \notin Rng(C),
           g.head[b] = i, g.it[i].next = h.head[b],
           \A j \in Node : j # i => g.it[j].next = h.it[j].next
    PROVE  Linked(g, b, Pushed(C, i)) /\ Rng(Pushed(C, i)) = Rng(C) \cup {i}
<1> DEFINE D == Pushed(C, i)
           n == Len(C)
<1>1. C \in Seq(Node) /\ n \in Nat /\ \A k \in 1 .. n : C[k] \in Node /\ C[k] \in Rng(C)
    BY LinkedFacts
<1>2. \A k \in 1 .. n + 1 : k # 1 => k - 1 \in 1 .. n
    BY <1>1
<1>3. D \in [1 .. n + 1 -> Node]
    BY <1>1, <1>2 DEF Pushed
<1>4. n + 1 \in Nat
    BY <1>1
<1>5. D \in Seq(Node) /\ Len(D) = n + 1
    <2> HIDE DEF D, n
    <2> QED
        BY <1>3, <1>4, FunctionIsSeq
<1>6. D[1] = i /\ \A k \in 1 .. n : D[k + 1] = C[k]
    BY <1>1 DEF Pushed
<1> HIDE DEF D
<1>7. ASSUME NEW k \in 1 .. Len(D), k # 1
      PROVE  k - 1 \in 1 .. n /\ k - 1 + 1 = k /\ D[k] = C[k - 1]
    <2>1. k - 1 \in 1 .. n /\ k - 1 + 1 = k
        BY <1>1, <1>5, <1>7
    <2> QED
        BY <1>6, <2>1
<1>8. ASSUME NEW k \in 1 .. Len(D), NEW m \in 1 .. Len(D), D[k] = D[m]
      PROVE  k = m
    <2>1. CASE k = 1 /\ m = 1
        BY <2>1
    <2>2. CASE k = 1 /\ m # 1
        BY <1>1, <1>6, <1>7, <1>8, <2>2
    <2>3. CASE k # 1 /\ m = 1
        BY <1>1, <1>6, <1>7, <1>8, <2>3
    <2>4. CASE k # 1 /\ m # 1
        <3>1. k - 1 \in 1 .. n /\ m - 1 \in 1 .. n /\ C[k - 1] = C[m - 1]
            BY <1>7, <1>8, <2>4
        <3>2. k - 1 = m - 1
            BY <3>1 DEF Linked
        <3> QED
            BY <1>5, <3>2
    <2> QED
        BY <2>1, <2>2, <2>3, <2>4
<1>9. g.head[b] = NodeAt(D, 1)
    BY <1>1, <1>5, <1>6 DEF NodeAt
<1>10. ASSUME NEW k \in 1 .. Len(D)
       PROVE  g.it[D[k]].next = NodeAt(D, k + 1)
    <2>1. CASE k = 1
        <3>1. g.it[D[k]].next = NodeAt(C, 1)
            BY <1>6, <2>1 DEF Linked
        <3>2. NodeAt(C, 1) = NodeAt(D, 2)
            BY <1>1, <1>5, <1>6 DEF NodeAt
        <3> QED
            BY <2>1, <3>1, <3>2
    <2>2. CASE k # 1
        <3>1. k - 1 \in 1 .. n /\ k - 1 + 1 = k /\ D[k] = C[k - 1]
            BY <1>7, <2>2
        <3>2. D[k] # i /\ D[k] \in Node
            BY <1>1, <3>1
        <3>3. g.it[D[k]].next = NodeAt(C, k)
            BY <3>1, <3>2 DEF Linked
        <3>4. NodeAt(C, k) = NodeAt(D, k + 1)
            <4>1. CASE k <= n
                <5>1. k \in 1 .. n /\ k + 1 <= Len(D)
                    BY <1>1, <1>5, <4>1
                <5> QED
                    BY <1>6, <4>1, <5>1 DEF NodeAt
            <4>2. CASE ~(k <= n)
                <5>1. ~(k + 1 <= Len(D))
                    BY <1>1, <1>5, <4>2
                <5> QED
                    BY <4>2, <5>1 DEF NodeAt
            <4> QED
                BY <4>1, <4>2
        <3> QED
            BY <3>3, <3>4
    <2> QED
        BY <2>1, <2>2
<1>11. Rng(D) = Rng(C) \cup {i}
    <2>1. ASSUME NEW j \in Rng(D) PROVE j \in Rng(C) \cup {i}
        <3>1. PICK k \in 1 .. Len(D) : j = D[k]
            BY DEF Rng
        <3> QED
            BY <1>1, <1>6, <1>7, <3>1
    <2>2. ASSUME NEW j \in Rng(C) PROVE j \in Rng(D)
        <3>1. PICK k \in 1 .. n : j = C[k]
            BY DEF Rng
        <3>2. k + 1 \in 1 .. Len(D) /\ D[k + 1] = j
            BY <1>1, <1>5, <1>6, <3>1
        <3> QED
            BY <3>2 DEF Rng
    <2>3. 1 \in 1 .. Len(D)
        BY <1>1, <1>5
    <2>4. i \in Rng(D)
        BY <1>6, <2>3 DEF Rng
    <2> QED
        BY <2>1, <2>2, <2>4
<1>12. Linked(g, b, D)
    BY <1>5, <1>8, <1>9, <1>10 DEF Linked
<1> QED
    BY <1>11, <1>12 DEF D


LEMMA LinkedDrop ==
    ASSUME NEW h, NEW g, NEW b, NEW C, Linked(h, b, C), NEW k \in 1 .. Len(C),
           g.head[b] = IF k = 1 THEN h.it[C[k]].next ELSE h.head[b],
           k # 1 => g.it[C[k - 1]].next = h.it[C[k]].next,
           \A j \in Node : k = 1 \/ j # C[k - 1] => g.it[j].next = h.it[j].next
    PROVE  Linked(g, b, Dropped(C, k)) /\ Rng(Dropped(C, k)) = Rng(C) \ {C[k]}
<1> DEFINE D == Dropped(C, k)
           n == Len(C)
           from(m) == IF m < k THEN m ELSE m + 1
<1>1. C \in Seq(Node) /\ n \in Nat /\ \A m \in 1 .. n : C[m] \in Node /\ C[m] \in Rng(C)
    BY LinkedFacts
<1>2. n - 1 \in Nat /\ k \in Nat /\ 1 <= k /\ k <= n
    BY <1>1
<1>3. \A m \in 1 .. n - 1 : from(m) \in 1 .. n /\ from(m) # k
    BY <1>1, <1>2
<1>4. D = [m \in 1 .. n - 1 |-> C[from(m)]]
    BY DEF Dropped
<1>5. D \in [1 .. n - 1 -> Node] /\ \A m \in 1 .. n - 1 : D[m] = C[from(m)]
    BY <1>1, <1>3, <1>4
<1>6. D \in Seq(Node) /\ Len(D) = n - 1
    <2> HIDE DEF D, n
    <2> QED
        BY <1>2, <1>5, FunctionIsSeq
<1>7. \A m \in 1 .. n : m # k => \E q \in 1 .. n - 1 : m = from(q)
    <2> TAKE m \in 1 .. n
    <2> HAVE m # k
    <2> DEFINE q == IF m < k THEN m ELSE m - 1
    <2>1. q \in 1 .. n - 1 /\ m = from(q)
        BY <1>1, <1>2
    <2> QED
        BY <2>1
<1>8. \A m, q \in 1 .. n - 1 : from(m) = from(q) => m = q
    BY <1>2
<1> HIDE DEF D
<1>9. ASSUME NEW m \in 1 .. Len(D), NEW q \in 1 .. Len(D), D[m] = D[q]
      PROVE  m = q
    <2>1. m \in 1 .. n - 1 /\ q \in 1 .. n - 1 /\ from(m) \in 1 .. n /\ from(q) \in 1 .. n
        BY <1>3, <1>6
    <2>2. C[from(m)] = C[from(q)]
        BY <1>5, <1>9, <2>1
    <2>3. from(m) = from(q)
        <3> HIDE DEF from
        <3> QED
            BY <2>1, <2>2 DEF Linked
    <2> QED
        BY <1>8, <2>1, <2>3
<1>10. g.head[b] = NodeAt(D, 1)
    <2>1. CASE k = 1
        <3>1. g.head[b] = NodeAt(C, 2)
            BY <2>1 DEF Linked
        <3>2. CASE 1 <= n - 1
            <4>1. D[1] = C[2] /\ 2 <= n
                BY <1>2, <1>5, <2>1, <3>2
            <4> QED
                BY <1>6, <3>1, <3>2, <4>1 DEF NodeAt
        <3>3. CASE ~(1 <= n - 1)
            <4>1. ~(2 <= n)
                BY <1>2, <3>3
            <4> QED
                BY <1>6, <3>1, <3>3, <4>1 DEF NodeAt
        <3> QED
            BY <3>2, <3>3
    <2>2. CASE k # 1
        <3>1. 1 <= n - 1 /\ 1 <= n /\ 1 < k
            BY <1>2, <2>2
        <3>2. D[1] = C[1]
            BY <1>2, <1>5, <3>1
        <3>3. g.head[b] = NodeAt(C, 1)
            BY <2>2 DEF Linked
        <3> QED
            BY <1>6, <3>1, <3>2, <3>3 DEF NodeAt
    <2> QED
        BY <2>1, <2>2
<1>11. ASSUME NEW m \in 1 .. Len(D)
       PROVE  g.it[D[m]].next = NodeAt(D, m + 1)
    <2>1. m \in 1 .. n - 1 /\ D[m] = C[from(m)] /\ from(m) \in 1 .. n
        BY <1>3, <1>5, <1>6
    <2>2. C[from(m)] \in Node /\ h.it[C[from(m)]].next = NodeAt(C, from(m) + 1)
        <3> HIDE DEF from
        <3> QED
            BY <1>1, <2>1 DEF Linked
    <2>3. CASE k # 1 /\ m = k - 1
        <3>1. from(m) = k - 1
            BY <1>2, <2>3
        <3>2. g.it[D[m]].next = NodeAt(C, k + 1)
            BY <2>1, <2>3, <3>1 DEF Linked
        <3>3. NodeAt(C, k + 1) = NodeAt(D, k)
            <4>1. CASE k <= n - 1
                <5>1. k \in 1 .. n - 1 /\ from(k) = k + 1 /\ k + 1 <= n
                    BY <1>2, <4>1
                <5>2. D[k] = C[k + 1]
                    BY <1>5, <5>1
                <5> QED
                    BY <1>6, <4>1, <5>1, <5>2 DEF NodeAt
            <4>2. CASE ~(k <= n - 1)
                <5>1. ~(k + 1 <= n)
                    BY <1>2, <4>2
                <5> QED
                    BY <1>6, <4>2, <5>1 DEF NodeAt
            <4> QED
                BY <4>1, <4>2
        <3>4. m + 1 = k
            BY <1>2, <2>3
        <3> QED
            BY <3>2, <3>3, <3>4
    <2>4. CASE ~(k # 1 /\ m = k - 1)
        <3>1. k = 1 \/ from(m) # k - 1
            BY <1>2, <2>1, <2>4
        <3>2. k = 1 \/ C[from(m)] # C[k - 1]
            <4>1. k # 1 => k - 1 \in 1 .. n
                BY <1>2
            <4> HIDE DEF from
            <4> QED
                BY <2>1, <3>1, <4>1 DEF Linked
        <3>3. g.it[D[m]].next = NodeAt(C, from(m) + 1)
            BY <2>1, <2>2, <3>2
        <3>4. NodeAt(C, from(m) + 1) = NodeAt(D, m + 1)
            <4>1. CASE m + 1 <= n - 1
                <5>1. m + 1 \in 1 .. n - 1 /\ from(m + 1) = from(m) + 1 /\ from(m) + 1 <= n
                    BY <1>2, <2>1, <2>4, <4>1
                <5>2. D[m + 1] = C[from(m + 1)]
                    BY <1>5, <5>1
                <5> QED
                    BY <1>6, <4>1, <5>1, <5>2 DEF NodeAt
            <4>2. CASE ~(m + 1 <= n - 1)
                <5>1. ~(from(m) + 1 <= n)
                    BY <1>2, <2>1, <2>4, <4>2
                <5> QED
                    BY <1>6, <4>2, <5>1 DEF NodeAt
            <4> QED
                BY <4>1, <4>2
        <3> QED
            BY <3>3, <3>4
    <2> QED
        BY <2>3, <2>4
<1>12. Rng(D) = Rng(C) \ {C[k]}
    <2>1. ASSUME NEW j \in Rng(D) PROVE j \in Rng(C) /\ j # C[k]
        <3>1. PICK m \in 1 .. n - 1 : j = D[m]
            BY <1>6 DEF Rng
        <3>2. j = C[from(m)] /\ from(m) \in 1 .. n /\ from(m) # k
            BY <1>3, <1>5, <3>1
        <3> HIDE DEF from
        <3> QED
            BY <1>1, <3>2 DEF Linked
    <2>2. ASSUME NEW j \in Rng(C), j # C[k] PROVE j \in Rng(D)
        <3>1. PICK m \in 1 .. n : j = C[m]
            BY DEF Rng
        <3>2. m # k
            BY <2>2, <3>1
        <3>3. PICK q \in 1 .. n - 1 : m = from(q)
            BY <1>7, <3>2
        <3>4. D[q] = j
            BY <1>5, <3>1, <3>3
        <3> QED
            BY <1>6, <3>4 DEF Rng
    <2> QED
        BY <2>1, <2>2
<1>13. Linked(g, b, D)
    BY <1>6, <1>9, <1>10, <1>11 DEF Linked
<1> QED
    BY <1>12, <1>13 DEF D


\* remove() takes the k-th node out of its chain, and concerns no other chain.
LEMMA RemoveFromChain ==
    ASSUME NEW h \in Heaps, NEW b \in Buffer, NEW C, Linked(h, b, C), NEW k \in 1 .. Len(C),
           NEW p, p = IF k = 1 THEN Null ELSE C[k - 1]
    PROVE  LET g == remove(h, b, C[k], p) IN
           /\ g \in Heaps /\ SameMembers(h, g)
           /\ Linked(g, b, Dropped(C, k)) /\ Rng(Dropped(C, k)) = Rng(C) \ {C[k]}
           /\ \A c \in Buffer : \A D : c # b /\ Linked(h, c, D) /\ Rng(C) \cap Rng(D) = {} => Linked(g, c, D)
<1> DEFINE g == remove(h, b, C[k], p)
           i == C[k]
<1>1. /\ C \in Seq(Node) /\ Len(C) \in Nat /\ \A m \in 1 .. Len(C) : C[m] \in Node /\ C[m] \in Rng(C)
      /\ i \in Node /\ k \in Nat
    BY LinkedFacts
<1>2. k # 1 => k - 1 \in 1 .. Len(C)
    BY <1>1
<1>3. p \in Node \cup {Null} /\ (p = Null <=> k = 1) /\ (k # 1 => p = C[k - 1] /\ p \in Rng(C))
    BY <1>1, <1>2, NullIsNoNode
<1>4. k = 1 => h.head[b] = i
    BY <1>1 DEF Linked, NodeAt
<1>5. /\ g \in Heaps /\ SameMembers(h, g)
      /\ g.head[b] = IF p = Null THEN h.it[i].next ELSE h.head[b]
      /\ p # Null => g.it[p].next = h.it[i].next
      /\ \A c \in Buffer : c # b => g.head[c] = h.head[c]
      /\ \A j \in Node : j # p => g.it[j] = h.it[j]
    BY <1>1, <1>3, <1>4, RemoveEffect
<1> HIDE DEF g
<1>6. /\ g.head[b] = IF k = 1 THEN h.it[C[k]].next ELSE h.head[b]
      /\ k # 1 => g.it[C[k - 1]].next = h.it[C[k]].next
      /\ \A j \in Node : k = 1 \/ j # C[k - 1] => g.it[j].next = h.it[j].next
    BY <1>3, <1>5, NullIsNoNode
<1>7. Linked(g, b, Dropped(C, k)) /\ Rng(Dropped(C, k)) = Rng(C) \ {C[k]}
    BY <1>6, LinkedDrop
<1>8. ASSUME NEW c \in Buffer, NEW D, c # b, Linked(h, c, D), Rng(C) \cap Rng(D) = {}
      PROVE  Linked(g, c, D)
    <2>1. Rng(D) \subseteq Node
        BY <1>8, LinkedFacts
    <2>2. \A j \in Rng(D) : j # p
        BY <1>3, <1>8, <2>1, NullIsNoNode
    <2>3. g.head[c] = h.head[c] /\ \A j \in Rng(D) : g.it[j].next = h.it[j].next
        BY <1>5, <1>8, <2>1, <2>2
    <2> QED
        BY <1>8, <2>3, LinkedStays
<1> QED
    BY <1>5, <1>7, <1>8 DEF g

\* The chains of two containers have no node in common.
LEMMA ChainsAreApart ==
    ASSUME NEW h, NEW X, NEW b, NEW c, b # c, NEW C, NEW D,
           Rng(C) = {i \in X : h.it[i].registry = b}, Rng(D) = {i \in X : h.it[i].registry = c}
    PROVE  Rng(C) \cap Rng(D) = {}
OBVIOUS

\* register_self puts the node at the front of the chain of its registry.
LEMMA RegisterSelf ==
    ASSUME NEW h \in Heaps, NEW X \in SUBSET Node, Chained(h, X), NEW i \in Node, i \notin X
    PROVE  LET g == register_self(h, i) IN
           g \in Heaps /\ SameMembers(h, g) /\ Chained(g, X \cup {i})
<1> DEFINE g == register_self(h, i)
           r == h.it[i].registry
<1>1. r \in Buffer \cup {Null}
    BY HeapFacts
<1>2. CASE r = Null
    <2>1. g = h
        BY <1>2 DEF register_self
    <2>2. \A b \in Buffer : {j \in X \cup {i} : h.it[j].registry = b} = {j \in X : h.it[j].registry = b}
        BY <1>2, NullIsNoNode
    <2>3. Chained(h, X \cup {i})
        BY <2>2 DEF Chained
    <2> QED
        BY <2>1, <2>3 DEF SameMembers
<1>3. CASE r \in Buffer
    <2>1. g = register_iterator(h, r, i)
        BY <1>3, NullIsNoNode DEF register_self
    <2>2. /\ g \in Heaps /\ SameMembers(h, g)
          /\ g.head[r] = i /\ g.it[i].next = h.head[r]
          /\ \A c \in Buffer : c # r => g.head[c] = h.head[c]
          /\ \A j \in Node : j # i => g.it[j] = h.it[j]
        BY <1>3, <2>1, RegisterEffect
    <2>3. g.it[i].registry = r /\ \A j \in X : g.it[j].registry = h.it[j].registry
        BY <2>2 DEF SameMembers
    <2> HIDE DEF g
    <2>4. ASSUME NEW b \in Buffer
          PROVE  \E D : Linked(g, b, D) /\ Rng(D) = {j \in X \cup {i} : g.it[j].registry = b}
        <3>1. PICK C : Linked(h, b, C) /\ Rng(C) = {j \in X : h.it[j].registry = b}
            BY DEF Chained
        <3>2. i \notin Rng(C) /\ Rng(C) \subseteq Node
            BY <3>1, LinkedFacts
        <3>3. CASE b = r
            <4>1. \A j \in Node : j # i => g.it[j].next = h.it[j].next
                BY <2>2
            <4>2. g.head[b] = i /\ g.it[i].next = h.head[b]
                BY <2>2, <3>3
            <4> HIDE DEF r
            <4>3. Linked(g, b, Pushed(C, i)) /\ Rng(Pushed(C, i)) = Rng(C) \cup {i}
                BY <3>1, <3>2, <4>1, <4>2, LinkedPush
            <4>4. Rng(C) \cup {i} = {j \in X \cup {i} : g.it[j].registry = b}
                BY <2>3, <3>1, <3>3
            <4> QED
                BY <4>3, <4>4
        <3>4. CASE b # r
            <4>1. g.head[b] = h.head[b] /\ \A j \in Rng(C) : g.it[j].next = h.it[j].next
                BY <2>2, <3>2, <3>4
            <4>2. Linked(g, b, C)
                BY <3>1, <4>1, LinkedStays
            <4>3. Rng(C) = {j \in X \cup {i} : g.it[j].registry = b}
                BY <2>3, <3>1, <3>4
            <4> QED
                BY <4>2, <4>3
        <3> QED
            BY <3>3, <3>4
    <2>5. Chained(g, X \cup {i})
        BY <2>4 DEF Chained
    <2> QED
        BY <2>2, <2>5 DEF g
<1> QED
    BY <1>1, <1>2, <1>3

\* unregister_self finds the node in the chain of its registry and takes it out.
LEMMA UnregisterSelf ==
    ASSUME NEW h \in Heaps, NEW X \in SUBSET Node, Chained(h, X), NEW i \in X
    PROVE  LET g == unregister_self(h, i) IN
           g \in Heaps /\ SameMembers(h, g) /\ Chained(g, X \ {i})
<1> DEFINE g == unregister_self(h, i)
           r == h.it[i].registry
<1>1. r \in Buffer \cup {Null} /\ i \in Node
    BY HeapFacts
<1>2. CASE r = Null
    <2>1. g = h
        BY <1>2 DEF unregister_self
    <2>2. \A b \in Buffer : {j \in X \ {i} : h.it[j].registry = b} = {j \in X : h.it[j].registry = b}
        BY <1>2, NullIsNoNode
    <2>3. Chained(h, X \ {i})
        BY <2>2 DEF Chained
    <2> QED
        BY <2>1, <2>3 DEF SameMembers
<1>3. CASE r \in Buffer
    <2>1. PICK C : Linked(h, r, C) /\ Rng(C) = {j \in X : h.it[j].registry = r}
        BY <1>3 DEF Chained
    <2> DEFINE k == CHOOSE k \in 1 .. Len(C) : C[k] = i
               p == IF k = 1 THEN Null ELSE C[k - 1]
    <2>2. k \in 1 .. Len(C) /\ C[k] = i
        <3>1. \E n \in 1 .. Len(C) : C[n] = i
            BY <2>1 DEF Rng
        <3> QED
            BY <3>1
    <2>3. Chain(h, r) = C
        BY <2>1, ChainIs
    <2>4. g = remove(h, r, i, p)
        BY <1>3, <2>3, NullIsNoNode DEF unregister_self, unregister_iterator
    <2> HIDE DEF k
    <2>5. /\ g \in Heaps /\ SameMembers(h, g)
          /\ Linked(g, r, Dropped(C, k)) /\ Rng(Dropped(C, k)) = Rng(C) \ {i}
          /\ \A c \in Buffer : \A D : c # r /\ Linked(h, c, D) /\ Rng(C) \cap Rng(D) = {} => Linked(g, c, D)
        <3> HIDE DEF g, p
        <3>1. p = IF k = 1 THEN Null ELSE C[k - 1]
            BY DEF p
        <3> QED
            BY <1>3, <2>1, <2>2, <2>4, <3>1, RemoveFromChain
    <2> HIDE DEF g
    <2>6. \A j \in X : g.it[j].registry = h.it[j].registry
        BY <2>5 DEF SameMembers
    <2>7. ASSUME NEW b \in Buffer
          PROVE  \E D : Linked(g, b, D) /\ Rng(D) = {j \in X \ {i} : g.it[j].registry = b}
        <3>1. CASE b = r
            <4>1. Rng(C) \ {i} = {j \in X \ {i} : g.it[j].registry = b}
                BY <2>1, <2>6, <3>1
            <4> QED
                BY <2>5, <3>1, <4>1
        <3>2. CASE b # r
            <4>1. PICK D : Linked(h, b, D) /\ Rng(D) = {j \in X : h.it[j].registry = b}
                BY DEF Chained
            <4>2. Rng(C) \cap Rng(D) = {}
                BY <2>1, <3>2, <4>1
            <4>3. Linked(g, b, D)
                BY <2>5, <3>2, <4>1, <4>2
            <4>4. Rng(D) = {j \in X \ {i} : g.it[j].registry = b}
                BY <2>6, <3>2, <4>1
            <4> QED
                BY <4>3, <4>4
        <3> QED
            BY <3>1, <3>2
    <2>8. Chained(g, X \ {i})
        BY <2>7 DEF Chained
    <2> QED
        BY <2>5, <2>8 DEF g
<1> QED
    BY <1>1, <1>2, <1>3


---------------------------------------------------------------------------
(* The walk that invalidates.                                              *)

Seen(C, n) == {C[k] : k \in 1 .. n}

SameAim(h, g) == \A i \in Node : g.it[i].buff = h.it[i].buff /\ g.it[i].m_it = h.it[i].m_it

\* The walk has visited n nodes of the chain C of h, and kept the first m of E,
\* the chain it leaves.
Walked(h, b, C, doomed, s, n) ==
    /\ s \in [h : Heaps, previous : Node \cup {Null}]
    /\ SameAim(h, s.h)
    /\ \A i \in Node : s.h.it[i].registry =
            IF i \in Seen(C, n) \cap doomed THEN Null ELSE h.it[i].registry
    /\ \E E, m : /\ Linked(s.h, b, E) /\ m \in Nat /\ Len(E) = m + (Len(C) - n)
                 /\ \A j \in 1 .. Len(C) - n : E[m + j] = C[n + j]
                 /\ s.previous = IF m = 0 THEN Null ELSE E[m]
                 /\ Rng(E) = Rng(C) \ (Seen(C, n) \cap doomed)
    /\ \A c \in Buffer : \A D :
            c # b /\ Linked(h, c, D) /\ Rng(C) \cap Rng(D) = {} => Linked(s.h, c, D)

LEMMA DroppedIs ==
    ASSUME NEW h, NEW b, NEW C, Linked(h, b, C), NEW k \in 1 .. Len(C)
    PROVE  /\ Len(Dropped(C, k)) = Len(C) - 1
           /\ \A m \in 1 .. Len(C) - 1 : Dropped(C, k)[m] = IF m < k THEN C[m] ELSE C[m + 1]
<1> DEFINE n == Len(C)
<1>1. n \in Nat /\ \A m \in 1 .. n : C[m] \in Node
    BY LinkedFacts
<1>2. n - 1 \in Nat
    BY <1>1
<1>3. /\ Dropped(C, k) \in [1 .. n - 1 -> Node]
      /\ \A m \in 1 .. n - 1 : Dropped(C, k)[m] = IF m < k THEN C[m] ELSE C[m + 1]
    BY <1>1 DEF Dropped
<1> HIDE DEF n
<1>4. Len(Dropped(C, k)) = n - 1
    BY <1>2, <1>3, FunctionIsSeq
<1> QED
    BY <1>3, <1>4 DEF n

LEMMA KeepStep ==
    ASSUME NEW h \in Heaps, NEW b \in Buffer, NEW C, Linked(h, b, C), NEW doomed,
           NEW n \in Nat, n < Len(C), NEW s, Walked(h, b, C, doomed, s, n), C[n + 1] \notin doomed
    PROVE  Walked(h, b, C, doomed, Visit(s, b, C[n + 1], doomed), n + 1)
<1> DEFINE p == C[n + 1]
           t == Visit(s, b, p, doomed)
           l == Len(C)
<1>1. l \in Nat /\ n + 1 \in 1 .. l /\ \A k \in 1 .. l : C[k] \in Node
    BY LinkedFacts
<1>2. p \in Node
    BY <1>1
<1>3. t.h = s.h /\ t.previous = p /\ t \in [h : Heaps, previous : Node \cup {Null}]
    BY <1>2 DEF Visit, Walked
<1>4. Seen(C, n + 1) = Seen(C, n) \cup {p}
    BY <1>1 DEF Seen
<1>5. Seen(C, n + 1) \cap doomed = Seen(C, n) \cap doomed
    BY <1>4
<1>6. PICK E, m : /\ Linked(s.h, b, E) /\ m \in Nat /\ Len(E) = m + (l - n)
                  /\ \A j \in 1 .. l - n : E[m + j] = C[n + j]
                  /\ s.previous = IF m = 0 THEN Null ELSE E[m]
                  /\ Rng(E) = Rng(C) \ (Seen(C, n) \cap doomed)
    BY DEF Walked
<1>7. m + 1 \in Nat /\ m + 1 # 0 /\ Len(E) = m + 1 + (l - (n + 1))
    BY <1>1, <1>6
<1>8. \A j \in 1 .. l - (n + 1) : E[m + 1 + j] = C[n + 1 + j]
    <2> TAKE j \in 1 .. l - (n + 1)
    <2>1. j + 1 \in 1 .. l - n /\ m + (j + 1) = m + 1 + j /\ n + (j + 1) = n + 1 + j
        BY <1>1, <1>6
    <2>2. E[m + (j + 1)] = C[n + (j + 1)]
        BY <1>6, <2>1
    <2> QED
        BY <2>1, <2>2
<1>9. E[m + 1] = p
    <2>1. 1 \in 1 .. l - n
        BY <1>1
    <2> QED
        BY <1>6, <2>1
<1> HIDE DEF t, p, l
<1>10. \E F, q : /\ Linked(t.h, b, F) /\ q \in Nat /\ Len(F) = q + (l - (n + 1))
                 /\ \A j \in 1 .. l - (n + 1) : F[q + j] = C[n + 1 + j]
                 /\ t.previous = IF q = 0 THEN Null ELSE F[q]
                 /\ Rng(F) = Rng(C) \ (Seen(C, n + 1) \cap doomed)
    <2>1. /\ Linked(t.h, b, E) /\ t.previous = IF m + 1 = 0 THEN Null ELSE E[m + 1]
          /\ Rng(E) = Rng(C) \ (Seen(C, n + 1) \cap doomed)
        BY <1>3, <1>5, <1>6, <1>7, <1>9
    <2> QED
        BY <1>7, <1>8, <2>1
<1>11. Walked(h, b, C, doomed, t, n + 1)
    BY <1>3, <1>5, <1>10 DEF Walked, l
<1> QED
    BY <1>11 DEF t, p

LEMMA DropStep ==
    ASSUME NEW h \in Heaps, NEW b \in Buffer, NEW C, Linked(h, b, C), NEW doomed,
           NEW n \in Nat, n < Len(C), NEW s, Walked(h, b, C, doomed, s, n), C[n + 1] \in doomed
    PROVE  Walked(h, b, C, doomed, Visit(s, b, C[n + 1], doomed), n + 1)
<1> DEFINE p == C[n + 1]
           t == Visit(s, b, p, doomed)
           l == Len(C)
           u == [s.h EXCEPT !.it[p].registry = Null]
           g == remove(u, b, p, s.previous)
<1>1. l \in Nat /\ n + 1 \in 1 .. l /\ \A k \in 1 .. l : C[k] \in Node
    BY LinkedFacts
<1>2. p \in Node /\ s.h \in Heaps /\ s.previous \in Node \cup {Null}
    BY <1>1 DEF Walked
<1>3. t = [s EXCEPT !.h = g]
    BY DEF Visit
<1>4. Seen(C, n + 1) = Seen(C, n) \cup {p}
    BY <1>1 DEF Seen
<1>5. Seen(C, n + 1) \cap doomed = (Seen(C, n) \cap doomed) \cup {p}
    BY <1>4
<1>6. PICK E, m : /\ Linked(s.h, b, E) /\ m \in Nat /\ Len(E) = m + (l - n)
                  /\ \A j \in 1 .. l - n : E[m + j] = C[n + j]
                  /\ s.previous = IF m = 0 THEN Null ELSE E[m]
                  /\ Rng(E) = Rng(C) \ (Seen(C, n) \cap doomed)
    BY DEF Walked
<1>7. m + 1 \in 1 .. Len(E) /\ E[m + 1] = p
    <2>1. 1 \in 1 .. l - n /\ m + 1 \in 1 .. m + (l - n)
        BY <1>1, <1>6
    <2> QED
        BY <1>6, <2>1
<1>8. /\ u \in Heaps /\ u.head = s.h.head
      /\ u.it[p].registry = Null /\ u.it[p].next = s.h.it[p].next
      /\ u.it[p].buff = s.h.it[p].buff /\ u.it[p].m_it = s.h.it[p].m_it
      /\ \A j \in Node : j # p => u.it[j] = s.h.it[j]
    <2> HIDE DEF p
    <2> QED
        BY <1>2, UnregisteredEffect
<1> HIDE DEF u
<1>9. /\ SameAim(s.h, u) /\ \A j \in Node : u.it[j].next = s.h.it[j].next
      /\ \A j \in Node : u.it[j].registry = IF j = p THEN Null ELSE s.h.it[j].registry
    BY <1>8 DEF SameAim
<1>10. \A c, D : Linked(s.h, c, D) => Linked(u, c, D)
    <2> SUFFICES ASSUME NEW c, NEW D, Linked(s.h, c, D) PROVE Linked(u, c, D)
        OBVIOUS
    <2>1. Rng(D) \subseteq Node
        BY LinkedFacts
    <2>2. u.head[c] = s.h.head[c] /\ \A j \in Rng(D) : u.it[j].next = s.h.it[j].next
        BY <1>8, <1>9, <2>1
    <2> QED
        BY <2>2, LinkedStays
<1> DEFINE k == m + 1
           F == Dropped(E, k)
<1>11. s.previous = IF k = 1 THEN Null ELSE E[k - 1]
    BY <1>6
<1>12. Linked(u, b, E) /\ k \in 1 .. Len(E) /\ E[k] = p
    BY <1>6, <1>7, <1>10
<1> HIDE DEF k
<1>13. /\ g \in Heaps /\ SameMembers(u, g)
       /\ Linked(g, b, F) /\ Rng(F) = Rng(E) \ {p}
       /\ \A c \in Buffer : \A D : c # b /\ Linked(u, c, D) /\ Rng(E) \cap Rng(D) = {} => Linked(g, c, D)
    <2> HIDE DEF p
    <2> QED
        BY <1>8, <1>11, <1>12, RemoveFromChain
<1>14. /\ Len(F) = Len(E) - 1
       /\ \A j \in 1 .. Len(E) - 1 : F[j] = IF j < k THEN E[j] ELSE E[j + 1]
    BY <1>12, DroppedIs
<1> HIDE DEF F, g, p, l
<1>15. Len(F) = m + (l - (n + 1))
    BY <1>1, <1>6, <1>14 DEF l
<1>16. \A j \in 1 .. l - (n + 1) : F[m + j] = C[n + 1 + j]
    <2> TAKE j \in 1 .. l - (n + 1)
    <2>1. /\ j + 1 \in 1 .. l - n /\ m + (j + 1) = m + j + 1 /\ n + (j + 1) = n + 1 + j
          /\ m + j \in 1 .. Len(E) - 1 /\ ~(m + j < m + 1)
        BY <1>1, <1>6
    <2>2. E[m + (j + 1)] = C[n + (j + 1)]
        BY <1>6, <2>1
    <2>3. F[m + j] = E[m + j + 1]
        BY <1>14, <2>1 DEF k
    <2> QED
        BY <2>1, <2>2, <2>3
<1>17. s.previous = IF m = 0 THEN Null ELSE F[m]
    <2>1. CASE m = 0
        BY <1>6, <2>1
    <2>2. CASE m # 0
        <3>1. m \in 1 .. Len(E) - 1 /\ m < m + 1
            BY <1>1, <1>6, <2>2
        <3>2. F[m] = E[m]
            BY <1>14, <3>1 DEF k
        <3> QED
            BY <1>6, <2>2, <3>2
    <2> QED
        BY <2>1, <2>2
<1>18. t.h = g /\ t.previous = s.previous /\ t \in [h : Heaps, previous : Node \cup {Null}]
    BY <1>3, <1>13 DEF Walked
<1> HIDE DEF t
<1>19. SameAim(h, t.h)
    BY <1>9, <1>13, <1>18 DEF SameAim, SameMembers, Walked
<1>20. ASSUME NEW i \in Node
       PROVE  t.h.it[i].registry = IF i \in Seen(C, n + 1) \cap doomed THEN Null ELSE h.it[i].registry
    <2>1. t.h.it[i].registry = IF i = p THEN Null ELSE s.h.it[i].registry
        BY <1>9, <1>13, <1>18 DEF SameMembers
    <2>2. s.h.it[i].registry = IF i \in Seen(C, n) \cap doomed THEN Null ELSE h.it[i].registry
        BY DEF Walked
    <2> QED
        BY <1>5, <2>1, <2>2
<1>21. Rng(F) = Rng(C) \ (Seen(C, n + 1) \cap doomed)
    BY <1>5, <1>6, <1>13
<1>22. \E G, q : /\ Linked(t.h, b, G) /\ q \in Nat /\ Len(G) = q + (l - (n + 1))
                 /\ \A j \in 1 .. l - (n + 1) : G[q + j] = C[n + 1 + j]
                 /\ t.previous = IF q = 0 THEN Null ELSE G[q]
                 /\ Rng(G) = Rng(C) \ (Seen(C, n + 1) \cap doomed)
    <2>1. m \in Nat /\ Linked(t.h, b, F) /\ t.previous = IF m = 0 THEN Null ELSE F[m]
        BY <1>6, <1>13, <1>17, <1>18
    <2> QED
        BY <1>15, <1>16, <1>21, <2>1
<1>23. ASSUME NEW c \in Buffer, NEW D, c # b, Linked(h, c, D), Rng(C) \cap Rng(D) = {}
       PROVE  Linked(t.h, c, D)
    <2>1. Linked(s.h, c, D)
        BY <1>23 DEF Walked
    <2>2. Linked(u, c, D) /\ Rng(E) \cap Rng(D) = {}
        BY <1>6, <1>10, <1>23, <2>1
    <2> QED
        BY <1>13, <1>18, <1>23, <2>2
<1>24. Walked(h, b, C, doomed, t, n + 1)
    BY <1>18, <1>19, <1>20, <1>22, <1>23 DEF Walked, l
<1> QED
    BY <1>24 DEF t, p


\* Of the nodes in X, those registered with b and doomed have no registry any
\* more, and the chains are those of the registries again.
LEMMA InvalidateEffect ==
    ASSUME NEW h \in Heaps, NEW X \in SUBSET Node, Chained(h, X), NEW b \in Buffer, NEW doomed
    PROVE  LET g == Invalidate(h, b, doomed) IN
           /\ g \in Heaps /\ SameAim(h, g) /\ Chained(g, X)
           /\ \A i \in Node : g.it[i].registry =
                 IF i \in X /\ h.it[i].registry = b /\ i \in doomed THEN Null ELSE h.it[i].registry
<1> DEFINE g == Invalidate(h, b, doomed)
<1>1. PICK C : Linked(h, b, C) /\ Rng(C) = {j \in X : h.it[j].registry = b}
    BY DEF Chained
<1>2. Chain(h, b) = C
    BY <1>1, ChainIs
<1> DEFINE l == Len(C)
           start == [h |-> h, previous |-> Null]
           Next1(v, n) == IF n = 0 THEN start ELSE Visit(v[n - 1], b, C[n], doomed)
           Step(v, m) == [n \in 0 .. m |-> Next1(v, n)]
           P == {m \in 0 .. l : \E v : v = Step(v, m)}
<1>3. l \in Nat
    BY <1>1, LinkedFacts
\* The walk is defined: its recursion has a solution.
<1>4. 0 \in P
    <2> DEFINE z == [n \in 0 .. 0 |-> start]
    <2>1. z = Step(z, 0) /\ 0 \in 0 .. l
        BY <1>3
    <2> HIDE DEF z, Step, l
    <2> QED
        BY <2>1
<1>5. ASSUME NEW m \in 1 .. l, m - 1 \in P PROVE m \in P
    <2>1. PICK v : v = Step(v, m - 1)
        BY <1>5
    <2> DEFINE w == [n \in 0 .. m |-> IF n = m THEN Visit(v[m - 1], b, C[m], doomed) ELSE v[n]]
    <2>2. \A n \in 0 .. m - 1 : v[n] = Next1(v, n)
        BY <2>1
    <2>3. ASSUME NEW n \in 0 .. m PROVE w[n] = Next1(w, n)
        <3>1. CASE n = m
            <4>1. m # 0 /\ m - 1 \in 0 .. m /\ m - 1 # m
                BY <1>3
            <4>2. w[m - 1] = v[m - 1]
                BY <4>1
            <4> QED
                BY <3>1, <4>1, <4>2
        <3>2. CASE n # m
            <4>1. n \in 0 .. m - 1
                BY <1>3, <3>2
            <4>2. n # 0 => n - 1 \in 0 .. m /\ n - 1 # m
                BY <1>3, <3>2
            <4>3. n # 0 => w[n - 1] = v[n - 1]
                BY <4>2
            <4>4. w[n] = v[n]
                BY <3>2
            <4> HIDE DEF w
            <4> QED
                BY <2>2, <4>1, <4>3, <4>4
        <3> QED
            BY <3>1, <3>2
    <2>4. w = [n \in 0 .. m |-> w[n]]
        OBVIOUS
    <2> HIDE DEF w, Next1
    <2>5. w = Step(w, m)
        BY <2>3, <2>4 DEF Step
    <2> QED
        BY <2>5
<1>6. l \in P
    <2> HIDE DEF P, l
    <2>1. 0 .. l \subseteq P
        BY <1>3, <1>4, <1>5, BoundedInduction
    <2> QED
        BY <1>3, <2>1
<1>7. PICK w : w = Step(w, l) /\ g = w[l].h
    <2>1. \E v : v = Step(v, l)
        BY <1>6
    <2> QED
        BY <1>2, <2>1 DEF Invalidate
<1> HIDE DEF g
\* What it does, node by node.
<1>8. w[0] = start /\ \A n \in 0 .. l - 1 : w[n + 1] = Visit(w[n], b, C[n + 1], doomed)
    <2>1. \A n \in 0 .. l : w[n] = Next1(w, n)
        BY <1>7
    <2>2. 0 \in 0 .. l
        BY <1>3
    <2>3. \A n \in 0 .. l - 1 : n + 1 \in 0 .. l /\ n + 1 # 0 /\ n + 1 - 1 = n
        BY <1>3
    <2> QED
        BY <2>1, <2>2, <2>3
<1> DEFINE Q == {n \in 0 .. l : Walked(h, b, C, doomed, w[n], n)}
<1> HIDE DEF Step, P
<1>9. 0 \in Q
    <2>1. Seen(C, 0) = {}
        BY DEF Seen
    <2>2. /\ start \in [h : Heaps, previous : Node \cup {Null}] /\ start.h = h
          /\ start.previous = Null
        OBVIOUS
    <2> HIDE DEF start
    <2>3. \E E, m : /\ Linked(start.h, b, E) /\ m \in Nat /\ Len(E) = m + (Len(C) - 0)
                    /\ \A j \in 1 .. Len(C) - 0 : E[m + j] = C[0 + j]
                    /\ start.previous = IF m = 0 THEN Null ELSE E[m]
                    /\ Rng(E) = Rng(C) \ (Seen(C, 0) \cap doomed)
        <3>1. /\ Len(C) = 0 + (Len(C) - 0)
              /\ \A j \in 1 .. Len(C) - 0 : C[0 + j] = C[0 + j]
            BY <1>3
        <3>2. 0 \in Nat /\ Linked(start.h, b, C) /\ start.previous = IF 0 = 0 THEN Null ELSE C[0]
            BY <1>1, <2>2
        <3>3. Rng(C) = Rng(C) \ (Seen(C, 0) \cap doomed)
            BY <2>1
        <3> QED
            BY <3>1, <3>2, <3>3
    <2>4. Walked(h, b, C, doomed, start, 0)
        BY <2>1, <2>2, <2>3 DEF Walked, SameAim
    <2> QED
        BY <1>3, <1>8, <2>4
<1>10. ASSUME NEW n \in 1 .. l, n - 1 \in Q PROVE n \in Q
    <2>1. PICK m \in Nat : m = n - 1 /\ n = m + 1 /\ m < Len(C) /\ m \in 0 .. l - 1
        BY <1>3
    <2>2. Walked(h, b, C, doomed, w[m], m)
        BY <1>10, <2>1
    <2>3. Walked(h, b, C, doomed, Visit(w[m], b, C[m + 1], doomed), m + 1)
        BY <1>1, <2>1, <2>2, KeepStep, DropStep
    <2>4. Walked(h, b, C, doomed, w[n], n)
        BY <1>8, <2>1, <2>3
    <2> QED
        BY <1>3, <2>4
<1>11. Walked(h, b, C, doomed, w[l], l)
    <2> HIDE DEF Q, l
    <2>1. 0 .. l \subseteq Q
        BY <1>3, <1>9, <1>10, BoundedInduction
    <2> QED
        BY <1>3, <2>1 DEF Q
<1>12. Seen(C, l) = Rng(C)
    BY DEF Seen, Rng
<1>13. /\ g \in Heaps /\ SameAim(h, g)
       /\ \A i \in Node : g.it[i].registry = IF i \in Rng(C) \cap doomed THEN Null ELSE h.it[i].registry
       /\ \E E : Linked(g, b, E) /\ Rng(E) = Rng(C) \ doomed
       /\ \A c \in Buffer : \A D :
            c # b /\ Linked(h, c, D) /\ Rng(C) \cap Rng(D) = {} => Linked(g, c, D)
    BY <1>7, <1>11, <1>12 DEF Walked
<1>14. \A i \in Node : g.it[i].registry =
            IF i \in X /\ h.it[i].registry = b /\ i \in doomed THEN Null ELSE h.it[i].registry
    BY <1>1, <1>13
<1>15. ASSUME NEW c \in Buffer
       PROVE  \E D : Linked(g, c, D) /\ Rng(D) = {i \in X : g.it[i].registry = c}
    <2>1. CASE c = b
        <3>1. Rng(C) \ doomed = {i \in X : g.it[i].registry = b}
            BY <1>1, <1>14, NullIsNoNode
        <3> QED
            BY <1>13, <2>1, <3>1
    <2>2. CASE c # b
        <3>1. PICK D : Linked(h, c, D) /\ Rng(D) = {i \in X : h.it[i].registry = c}
            BY DEF Chained
        <3>2. Rng(C) \cap Rng(D) = {}
            BY <1>1, <2>2, <3>1
        <3>3. Linked(g, c, D)
            BY <1>13, <2>2, <3>1, <3>2
        <3>4. {i \in X : h.it[i].registry = c} = {i \in X : g.it[i].registry = c}
            BY <1>14, <2>2, NullIsNoNode
        <3> QED
            BY <3>1, <3>3, <3>4
    <2> QED
        BY <2>1, <2>2
<1>16. Chained(g, X)
    BY <1>15 DEF Chained
<1> QED
    BY <1>13, <1>14, <1>16 DEF g


---------------------------------------------------------------------------
(* The operations that invalidate.                                         *)

\* Between calls Temp is in no chain.
Exact(h) == h \in Heaps /\ Chained(h, Iterator)

\* From h to g the iterators in S that were registered with b, and no others,
\* have lost their registry.
Cleared(h, g, b, S) ==
    /\ Exact(g)
    /\ \A i \in Iterator :
          /\ g.it[i].buff = h.it[i].buff /\ g.it[i].m_it = h.it[i].m_it
          /\ g.it[i].registry =
                IF h.it[i].registry = b /\ i \in S THEN Null ELSE h.it[i].registry

LEMMA NoIteratorIsMembers == NoIterator \in Members
BY DEF NoIterator, Members, NULL

LEMMA ChainedStays ==
    ASSUME NEW h, NEW g, NEW X, Chained(h, X), \A b \in Buffer : g.head[b] = h.head[b],
           \A i \in X : g.it[i].next = h.it[i].next /\ g.it[i].registry = h.it[i].registry
    PROVE  Chained(g, X)
<1> SUFFICES ASSUME NEW b \in Buffer
             PROVE  \E D : Linked(g, b, D) /\ Rng(D) = {i \in X : g.it[i].registry = b}
    BY DEF Chained
<1>1. PICK D : Linked(h, b, D) /\ Rng(D) = {i \in X : h.it[i].registry = b}
    BY DEF Chained
<1>2. \A i \in Rng(D) : g.it[i].next = h.it[i].next
    BY <1>1
<1>3. Linked(g, b, D)
    BY <1>1, <1>2, LinkedStays
<1>4. {i \in X : h.it[i].registry = b} = {i \in X : g.it[i].registry = b}
    OBVIOUS
<1> QED
    BY <1>1, <1>3, <1>4

\* A node that is in no chain may be given any members.
LEMMA ReplaceStays ==
    ASSUME NEW h \in Heaps, NEW X \in SUBSET Node, Chained(h, X), NEW i \in Node, i \notin X,
           NEW m \in Members
    PROVE  LET g == [h EXCEPT !.it[i] = m] IN
           /\ g \in Heaps /\ Chained(g, X) /\ g.it[i] = m
           /\ \A j \in Node : j # i => g.it[j] = h.it[j]
<1> DEFINE g == [h EXCEPT !.it[i] = m]
<1>1. /\ g \in Heaps /\ g.head = h.head /\ g.it[i] = m
      /\ \A j \in Node : j # i => g.it[j] = h.it[j]
    BY ReplacedEffect
<1> HIDE DEF g
<1>2. \A j \in X : g.it[j] = h.it[j]
    BY <1>1
<1>3. Chained(g, X)
    BY <1>1, <1>2, ChainedStays
<1> QED
    BY <1>1, <1>3 DEF g

LEMMA WithTempEffect ==
    ASSUME NEW h, Exact(h), NEW b \in Buffer, NEW p \in Int
    PROVE  LET g == WithTemp(h, b, p) IN
           /\ g \in Heaps /\ Chained(g, Node)
           /\ \A i \in Iterator : /\ g.it[i].registry = h.it[i].registry
                                  /\ g.it[i].buff = h.it[i].buff /\ g.it[i].m_it = h.it[i].m_it
<1> DEFINE m == [NoIterator EXCEPT !.registry = b, !.buff = b, !.m_it = p]
           f == [h EXCEPT !.it[Temp] = m]
           g == WithTemp(h, b, p)
<1>1. m \in Members
    BY DEF NoIterator, Members
<1>2. Iterator \in SUBSET Node /\ Temp \in Node /\ Temp \notin Iterator /\ Iterator \cup {Temp} = Node
    BY NullIsNoNode DEF Node
<1>3. g = register_self(f, Temp)
    BY DEF WithTemp
<1> HIDE DEF m, g
<1>4. /\ f \in Heaps /\ Chained(f, Iterator)
      /\ \A j \in Node : j # Temp => f.it[j] = h.it[j]
    BY <1>1, <1>2, ReplaceStays DEF Exact
<1> HIDE DEF f
<1>5. g \in Heaps /\ SameMembers(f, g) /\ Chained(g, Iterator \cup {Temp})
    BY <1>2, <1>3, <1>4, RegisterSelf
<1>6. \A i \in Iterator : i \in Node /\ i # Temp
    BY <1>2
<1> QED
    BY <1>2, <1>4, <1>5, <1>6 DEF SameMembers, g

LEMMA WithoutTempEffect ==
    ASSUME NEW h \in Heaps, Chained(h, Node)
    PROVE  LET g == WithoutTemp(h) IN
           /\ Exact(g)
           /\ \A i \in Iterator : /\ g.it[i].registry = h.it[i].registry
                                  /\ g.it[i].buff = h.it[i].buff /\ g.it[i].m_it = h.it[i].m_it
<1> DEFINE f == unregister_self(h, Temp)
           g == [f EXCEPT !.it[Temp] = NoIterator]
<1>1. Iterator \in SUBSET Node /\ Temp \in Node /\ Temp \notin Iterator /\ Node \ {Temp} = Iterator
    BY NullIsNoNode DEF Node
<1>2. f \in Heaps /\ SameMembers(h, f) /\ Chained(f, Node \ {Temp})
    BY <1>1, UnregisterSelf
<1> HIDE DEF f
<1>3. /\ g \in Heaps /\ Chained(g, Iterator) /\ g.it[Temp] = NoIterator
      /\ \A j \in Node : j # Temp => g.it[j] = f.it[j]
    BY <1>1, <1>2, NoIteratorIsMembers, ReplaceStays
<1>4. g = WithoutTemp(h)
    BY DEF WithoutTemp, f
<1> HIDE DEF g
<1>5. \A i \in Iterator : i \in Node /\ i # Temp
    BY <1>1
<1> QED
    BY <1>2, <1>3, <1>4, <1>5 DEF SameMembers, Exact

\* What the two functions that walk the chain have in common.
LEMMA InvalidateWithTemp ==
    ASSUME NEW h, Exact(h), NEW b \in Buffer, NEW p \in Int, NEW doomed
    PROVE  Cleared(h, WithoutTemp(Invalidate(WithTemp(h, b, p), b, doomed)), b, doomed)
<1> DEFINE f == WithTemp(h, b, p)
           d == Invalidate(f, b, doomed)
           g == WithoutTemp(d)
<1>1. /\ f \in Heaps /\ Chained(f, Node)
      /\ \A i \in Iterator : /\ f.it[i].registry = h.it[i].registry
                             /\ f.it[i].buff = h.it[i].buff /\ f.it[i].m_it = h.it[i].m_it
    BY WithTempEffect
<1> HIDE DEF f
<1>2. Iterator \subseteq Node /\ Node \in SUBSET Node
    BY DEF Node
<1>3. /\ d \in Heaps /\ SameAim(f, d) /\ Chained(d, Node)
      /\ \A i \in Node : d.it[i].registry =
            IF i \in Node /\ f.it[i].registry = b /\ i \in doomed THEN Null ELSE f.it[i].registry
    BY <1>1, <1>2, InvalidateEffect
<1> HIDE DEF d
<1>4. /\ Exact(g)
      /\ \A i \in Iterator : /\ g.it[i].registry = d.it[i].registry
                             /\ g.it[i].buff = d.it[i].buff /\ g.it[i].m_it = d.it[i].m_it
    BY <1>3, WithoutTempEffect
<1> HIDE DEF g
<1>5. ASSUME NEW i \in Iterator
      PROVE  /\ g.it[i].buff = h.it[i].buff /\ g.it[i].m_it = h.it[i].m_it
             /\ g.it[i].registry =
                    IF h.it[i].registry = b /\ i \in doomed THEN Null ELSE h.it[i].registry
    <2>1. i \in Node
        BY <1>2
    <2>2. d.it[i].registry = IF h.it[i].registry = b /\ i \in doomed THEN Null ELSE h.it[i].registry
        BY <1>1, <1>3, <2>1
    <2> QED
        BY <1>1, <1>3, <1>4, <2>1, <2>2 DEF SameAim
<1>6. Cleared(h, g, b, doomed)
    BY <1>4, <1>5 DEF Cleared
<1> QED
    BY <1>6 DEF g, d, f

LEMMA ClearedBy ==
    ASSUME NEW h, NEW g, NEW b, NEW S, NEW T, Cleared(h, g, b, S),
           \A i \in Iterator : i \in S <=> i \in T
    PROVE  Cleared(h, g, b, T)
BY DEF Cleared

LEMMA InvalidateIteratorsEffect ==
    ASSUME NEW h, Exact(h), NEW b \in Buffer, NEW p \in Int
    PROVE  /\ Cleared(h, invalidate_iterators(h, b, p), b, {i \in Iterator : h.it[i].m_it = p})
           /\ Cleared(h, invalidate_iterators_except(h, b, p), b, {i \in Iterator : h.it[i].m_it # p})
<1> DEFINE f == WithTemp(h, b, p)
<1>1. f \in Heaps /\ \A i \in Iterator : f.it[i].m_it = h.it[i].m_it
    BY WithTempEffect
<1>2. DOMAIN f.it = Node /\ Iterator \subseteq Node
    BY <1>1, HeapFacts DEF Node
<1>3. /\ Cleared(h, WithoutTemp(Invalidate(f, b, PointingTo(f, p))), b, PointingTo(f, p))
      /\ Cleared(h, WithoutTemp(Invalidate(f, b, DOMAIN f.it \ PointingTo(f, p))), b,
                 DOMAIN f.it \ PointingTo(f, p))
    BY InvalidateWithTemp
<1>4. /\ invalidate_iterators(h, b, p) = WithoutTemp(Invalidate(f, b, PointingTo(f, p)))
      /\ invalidate_iterators_except(h, b, p) =
            WithoutTemp(Invalidate(f, b, DOMAIN f.it \ PointingTo(f, p)))
    BY DEF invalidate_iterators, invalidate_iterators_except
<1> HIDE DEF f
<1>5. \A i \in Iterator : i \in PointingTo(f, p) <=> i \in {j \in Iterator : h.it[j].m_it = p}
    BY <1>1, <1>2 DEF PointingTo
<1>6. \A i \in Iterator : i \in DOMAIN f.it \ PointingTo(f, p)
                            <=> i \in {j \in Iterator : h.it[j].m_it # p}
    BY <1>1, <1>2 DEF PointingTo
<1>7. Cleared(h, invalidate_iterators(h, b, p), b, {i \in Iterator : h.it[i].m_it = p})
    BY <1>3, <1>4, <1>5, ClearedBy
<1>8. Cleared(h, invalidate_iterators_except(h, b, p), b, {i \in Iterator : h.it[i].m_it # p})
    BY <1>3, <1>4, <1>6, ClearedBy
<1> QED
    BY <1>7, <1>8


LEMMA EmptyChain ==
    ASSUME NEW h, NEW b, h.head[b] = Null
    PROVE  Linked(h, b, <<>>) /\ Rng(<<>>) = {}
<1>1. <<>> \in Seq(Node) /\ Len(<<>>) = 0
    OBVIOUS
<1>2. NodeAt(<<>>, 1) = Null
    BY <1>1 DEF NodeAt
<1> QED
    BY <1>1, <1>2 DEF Linked, Rng

LEMMA InvalidateAllEffect ==
    ASSUME NEW h, Exact(h), NEW b \in Buffer
    PROVE  Cleared(h, invalidate_all_iterators(h, b), b, Iterator)
<1> DEFINE g == invalidate_all_iterators(h, b)
<1>1. PICK C : Linked(h, b, C) /\ Rng(C) = {i \in Iterator : h.it[i].registry = b}
    BY DEF Exact, Chained
<1>2. Chain(h, b) = C
    BY <1>1, ChainIs
<1>3. \A i : (\E k \in 1 .. Len(C) : C[k] = i) <=> i \in Rng(C)
    BY DEF Rng
<1>4. h \in Heaps /\ DOMAIN h.it = Node /\ h.head \in [Buffer -> Node \cup {Null}]
    BY HeapFacts DEF Exact
<1> DEFINE m == [i \in Node |-> IF i \in Rng(C) THEN [h.it[i] EXCEPT !.registry = Null] ELSE h.it[i]]
<1>5. g = [head |-> [h.head EXCEPT ![b] = Null], it |-> m]
    BY <1>2, <1>3, <1>4 DEF invalidate_all_iterators
<1>6. m \in [Node -> Members]
    BY <1>4, HeapFacts DEF Members
<1>7. /\ g.it = m /\ g.head = [h.head EXCEPT ![b] = Null] /\ g \in Heaps
    BY <1>4, <1>5, <1>6 DEF Heaps
<1>8. \A i \in Node : /\ m[i].next = h.it[i].next /\ m[i].buff = h.it[i].buff /\ m[i].m_it = h.it[i].m_it
                      /\ m[i].registry = IF i \in Rng(C) THEN Null ELSE h.it[i].registry
    BY <1>4, HeapFacts DEF Members
<1>10. g.head[b] = Null /\ \A c \in Buffer : c # b => g.head[c] = h.head[c]
    BY <1>4, <1>7
<1> HIDE DEF g, m
<1>11. \A i \in Iterator : i \in Node
    BY DEF Node
<1>12. \A i \in Iterator : /\ g.it[i].next = h.it[i].next
                           /\ g.it[i].registry = IF h.it[i].registry = b THEN Null ELSE h.it[i].registry
    BY <1>1, <1>7, <1>8, <1>11
<1>13. ASSUME NEW c \in Buffer
       PROVE  \E D : Linked(g, c, D) /\ Rng(D) = {i \in Iterator : g.it[i].registry = c}
    <2>1. CASE c = b
        <3>1. {i \in Iterator : g.it[i].registry = b} = {}
            BY <1>12, NullIsNoNode
        <3>2. Linked(g, b, <<>>) /\ Rng(<<>>) = {}
            BY <1>10, EmptyChain
        <3> QED
            BY <2>1, <3>1, <3>2
    <2>2. CASE c # b
        <3>1. PICK D : Linked(h, c, D) /\ Rng(D) = {i \in Iterator : h.it[i].registry = c}
            BY DEF Exact, Chained
        <3>2. g.head[c] = h.head[c] /\ \A i \in Rng(D) : g.it[i].next = h.it[i].next
            BY <1>10, <1>12, <2>2, <3>1
        <3>3. Linked(g, c, D)
            BY <3>1, <3>2, LinkedStays
        <3>4. {i \in Iterator : h.it[i].registry = c} = {i \in Iterator : g.it[i].registry = c}
            BY <1>12, <2>2, NullIsNoNode
        <3> QED
            BY <3>1, <3>3, <3>4
    <2> QED
        BY <2>1, <2>2
<1>14. Exact(g)
    BY <1>7, <1>13 DEF Exact, Chained
<1>15. Cleared(h, g, b, Iterator)
    BY <1>7, <1>8, <1>11, <1>12, <1>14 DEF Cleared
<1> QED
    BY <1>15 DEF g

LEMMA ClearedNot ==
    ASSUME NEW h, Exact(h), NEW b
    PROVE  Cleared(h, h, b, {})
BY DEF Cleared

LEMMA ClearedTwice ==
    ASSUME NEW h, NEW f, NEW g, NEW b, NEW S, NEW T, Cleared(h, f, b, S), Cleared(f, g, b, T)
    PROVE  Cleared(h, g, b, S \cup T)
BY DEF Cleared

LEMMA TouchEffect ==
    ASSUME NEW h, Exact(h), NEW b \in Buffer, NEW slots, ring[b].cap \in Nat,
           slots \subseteq 0 .. ring[b].cap - 1
    PROVE  Cleared(h, Touch(h, b, slots), b, {i \in Iterator : h.it[i].m_it \in slots})
<1> DEFINE l == ring[b].cap
           g == Touch(h, b, slots)
           Next1(v, n) == IF n = 0 THEN h
                          ELSE IF n - 1 \in slots THEN invalidate_iterators(v[n - 1], b, n - 1)
                          ELSE v[n - 1]
           Step(v, m) == [n \in 0 .. m |-> Next1(v, n)]
           P == {m \in 0 .. l : \E v : v = Step(v, m)}
<1>1. l \in Nat
    OBVIOUS
\* The recursion has a solution.
<1>2. 0 \in P
    <2> DEFINE z == [n \in 0 .. 0 |-> h]
    <2>1. z = Step(z, 0) /\ 0 \in 0 .. l
        BY <1>1
    <2> HIDE DEF z, Step, l
    <2> QED
        BY <2>1
<1>3. ASSUME NEW m \in 1 .. l, m - 1 \in P PROVE m \in P
    <2>1. PICK v : v = Step(v, m - 1)
        BY <1>3
    <2> DEFINE w == [n \in 0 .. m |-> IF n = m THEN Next1(v, m) ELSE v[n]]
    <2>2. \A n \in 0 .. m - 1 : v[n] = Next1(v, n)
        BY <2>1
    <2>3. ASSUME NEW n \in 0 .. m PROVE w[n] = Next1(w, n)
        <3>1. CASE n = m
            <4>1. m # 0 /\ m - 1 \in 0 .. m /\ m - 1 # m
                BY <1>1
            <4>2. w[m - 1] = v[m - 1] /\ w[n] = Next1(v, m)
                BY <3>1, <4>1
            <4> HIDE DEF w
            <4> QED
                BY <3>1, <4>1, <4>2
        <3>2. CASE n # m
            <4>1. n \in 0 .. m - 1
                BY <1>1, <3>2
            <4>2. n # 0 => n - 1 \in 0 .. m /\ n - 1 # m
                BY <1>1, <3>2
            <4>3. n # 0 => w[n - 1] = v[n - 1]
                BY <4>2
            <4>4. w[n] = v[n]
                BY <3>2
            <4> HIDE DEF w
            <4> QED
                BY <2>2, <4>1, <4>3, <4>4
        <3> QED
            BY <3>1, <3>2
    <2>4. w = [n \in 0 .. m |-> w[n]]
        OBVIOUS
    <2> HIDE DEF w, Next1
    <2>5. w = Step(w, m)
        BY <2>3, <2>4 DEF Step
    <2> QED
        BY <2>5
<1>4. l \in P
    <2> HIDE DEF P, l
    <2>1. 0 .. l \subseteq P
        BY <1>1, <1>2, <1>3, BoundedInduction
    <2> QED
        BY <1>1, <2>1
<1>5. PICK w : w = Step(w, l) /\ g = w[l]
    <2>1. \E v : v = Step(v, l)
        BY <1>4
    <2> QED
        BY <2>1 DEF Touch
<1> HIDE DEF g
<1>6. \A n \in 0 .. l : w[n] = Next1(w, n)
    BY <1>5
<1> DEFINE Early(n) == {i \in Iterator : h.it[i].m_it \in slots /\ h.it[i].m_it < n}
           Q == {n \in 0 .. l : Cleared(h, w[n], b, Early(n))}
<1> HIDE DEF Step, P
<1>7. \A i \in Iterator : h.it[i].m_it \in Int
    BY HeapFacts DEF Exact, Node
<1>8. 0 \in Q
    <2>1. w[0] = h /\ 0 \in 0 .. l
        BY <1>1, <1>6
    <2>2. \A i \in Iterator : i \in {} <=> i \in Early(0)
        BY <1>1, <1>7
    <2>3. Cleared(h, h, b, Early(0))
        BY <2>2, ClearedNot, ClearedBy
    <2> HIDE DEF Early
    <2> QED
        BY <2>1, <2>3
<1>9. ASSUME NEW n \in 1 .. l, n - 1 \in Q PROVE n \in Q
    <2>1. n \in 0 .. l /\ n # 0 /\ n - 1 \in Int
        BY <1>1
    <2> DEFINE f == w[n - 1]
    <2>2. Cleared(h, f, b, Early(n - 1))
        BY <1>9
    <2>3. w[n] = IF n - 1 \in slots THEN invalidate_iterators(f, b, n - 1) ELSE f
        BY <1>6, <2>1
    <2> HIDE DEF f
    <2>4. \A i \in Iterator : f.it[i].m_it = h.it[i].m_it
        BY <2>2 DEF Cleared
    <2>5. CASE n - 1 \in slots
        <3> DEFINE T == {i \in Iterator : f.it[i].m_it = n - 1}
        <3>1. Cleared(f, w[n], b, T)
            <4>1. Exact(f)
                BY <2>2 DEF Cleared
            <4> QED
                BY <2>1, <2>3, <2>5, <4>1, InvalidateIteratorsEffect
        <3>2. \A i \in Iterator : i \in Early(n - 1) \cup T <=> i \in Early(n)
            BY <1>7, <2>1, <2>4, <2>5
        <3> HIDE DEF Early, T
        <3>3. Cleared(h, w[n], b, Early(n - 1) \cup T)
            BY <2>2, <3>1, ClearedTwice
        <3>4. Cleared(h, w[n], b, Early(n))
            BY <3>2, <3>3, ClearedBy
        <3> QED
            BY <2>1, <3>4
    <2>6. CASE n - 1 \notin slots
        <3>1. \A i \in Iterator : i \in Early(n - 1) <=> i \in Early(n)
            BY <1>7, <2>1, <2>6
        <3> HIDE DEF Early
        <3>2. Cleared(h, w[n], b, Early(n))
            BY <2>2, <2>3, <2>6, <3>1, ClearedBy
        <3> QED
            BY <2>1, <3>2
    <2> QED
        BY <2>5, <2>6
<1>10. Cleared(h, w[l], b, Early(l))
    <2> HIDE DEF Q, l, Early
    <2>1. 0 .. l \subseteq Q
        BY <1>1, <1>8, <1>9, BoundedInduction
    <2> QED
        BY <1>1, <2>1 DEF Q
<1>11. \A i \in Iterator : i \in Early(l) <=> i \in {j \in Iterator : h.it[j].m_it \in slots}
    <2>1. \A x \in slots : x < l
        BY <1>1
    <2> QED
        BY <2>1
<1> HIDE DEF Early
<1>12. Cleared(h, g, b, {i \in Iterator : h.it[i].m_it \in slots})
    BY <1>5, <1>10, <1>11, ClearedBy
<1> QED
    BY <1>12 DEF g


---------------------------------------------------------------------------
(* The inductive invariant.                                                *)

Rings == {r \in [cap : Nat, first : Nat, size : Nat] :
             r.first \in Pointers(r.cap) /\ r.size <= r.cap}

\* p is the pointer of an iterator that denotes k, which is not Gone.
Denotes(r, p, k) == IF k = End THEN p = NULL ELSE k \in 1 .. r.size /\ p = Slot(r, k)

\* Where the iterator i stands.
Stands(i) ==
    /\ it[i].registry \in {Null, it[i].buff}
    /\ it[i].registry = Null <=> denotes[i] = Gone
    /\ it[i].registry # Null => it[i].registry \in live /\ i \in live
    /\ denotes[i] # Gone => Denotes(ring[it[i].buff], it[i].m_it, denotes[i])

Inv == /\ ring \in [Buffer -> Rings]
       /\ Exact(Heap)
       /\ live \subseteq Buffer \cup Iterator
       /\ denotes \in [Iterator -> Int]
       /\ \A i \in Iterator : Stands(i)

LEMMA AdoptIs ==
    ASSUME NEW g \in Heaps, Adopt(g)
    PROVE  Heap' = g /\ it' = g.it
BY DEF Adopt, Heap, Heaps

LEMMA HeapIs == Heap.it = it /\ Heap.head = head
BY DEF Heap

\* An iterator without a registry is in no chain.
LEMMA Aside ==
    ASSUME NEW h, NEW X, Chained(h, X), NEW i, h.it[i].registry = Null
    PROVE  Chained(h, X \ {i}) /\ Chained(h, X \cup {i})
<1>1. \A b \in Buffer : /\ {j \in X \ {i} : h.it[j].registry = b} = {j \in X : h.it[j].registry = b}
                        /\ {j \in X \cup {i} : h.it[j].registry = b} = {j \in X : h.it[j].registry = b}
    BY NullIsNoNode
<1> QED
    BY <1>1 DEF Chained

\* From h to g only the iterator i has changed, and these are its members.
Becomes(h, g, i, registry, buff, m_it) ==
    /\ Exact(g)
    /\ g.it[i].registry = registry /\ g.it[i].buff = buff /\ g.it[i].m_it = m_it
    /\ \A j \in Iterator : j # i =>
          /\ g.it[j].registry = h.it[j].registry
          /\ g.it[j].buff = h.it[j].buff /\ g.it[j].m_it = h.it[j].m_it

\* A step of one iterator.
LEMMA OneIterator ==
    ASSUME Inv, NEW i \in Iterator, NEW g, NEW registry, NEW buff, NEW m_it, NEW d \in Int,
           Becomes(Heap, g, i, registry, buff, m_it), Adopt(g), UNCHANGED ring,
           denotes' = [denotes EXCEPT ![i] = d],
           live' \in {live, live \cup {i}, live \ {i}},
           registry \in {Null, buff}, registry = Null <=> d = Gone,
           registry # Null => registry \in live /\ registry \in Buffer /\ i \in live',
           d # Gone => Denotes(ring[buff], m_it, d)
    PROVE  Inv'
<1>1. g \in Heaps /\ Exact(g)
    BY DEF Becomes, Exact
<1>2. Heap' = g /\ it' = g.it
    BY <1>1, AdoptIs
<1>3. Heap.it = it
    BY HeapIs
<1>4. denotes' \in [Iterator -> Int] /\ denotes'[i] = d /\ \A j \in Iterator : j # i => denotes'[j] = denotes[j]
    BY DEF Inv
<1>5. live' \subseteq Buffer \cup Iterator
    BY DEF Inv
<1>6. ASSUME NEW j \in Iterator PROVE Stands(j)'
    <2>1. CASE j = i
        <3>1. it'[j].registry = registry /\ it'[j].buff = buff /\ it'[j].m_it = m_it
            BY <1>2, <2>1 DEF Becomes
        <3>2. registry # Null => registry \in live'
            BY DebugAssumption
        <3>3. d # Gone => Denotes(ring'[buff], m_it, d)
            OBVIOUS
        <3> QED
            BY <1>4, <2>1, <3>1, <3>2, <3>3 DEF Stands
    <2>2. CASE j # i
        <3>1. /\ it'[j].registry = it[j].registry /\ it'[j].buff = it[j].buff /\ it'[j].m_it = it[j].m_it
              /\ denotes'[j] = denotes[j] /\ ring' = ring
            BY <1>2, <1>3, <1>4, <2>2 DEF Becomes
        <3>2. Stands(j)
            BY DEF Inv
        <3>3. it[j].registry \in Buffer \cup {Null}
            <4>1. Heap \in Heaps /\ j \in Node
                BY DEF Inv, Exact, Node
            <4> QED
                BY <1>3, <4>1, HeapFacts
        <3>4. it[j].registry # Null => it[j].registry \in live' /\ j \in live'
            BY <2>2, <3>2, <3>3, DebugAssumption DEF Stands
        <3> QED
            BY <3>1, <3>2, <3>4 DEF Stands
    <2> QED
        BY <2>1, <2>2
<1> QED
    BY <1>1, <1>2, <1>4, <1>5, <1>6 DEF Inv


---------------------------------------------------------------------------
(* The iterators' own steps.                                               *)

LEMMA MemberTypes ==
    ASSUME Inv, NEW i \in Iterator
    PROVE  /\ i \in Node /\ it[i] \in Members
           /\ it[i].registry \in Buffer \cup {Null} /\ it[i].buff \in Buffer \cup {Null}
           /\ it[i].m_it \in Int /\ Stands(i) /\ denotes[i] \in Int
           /\ it[i].registry # Null => it[i].registry = it[i].buff /\ it[i].buff \in Buffer
<1>1. Heap \in Heaps /\ i \in Node /\ Stands(i) /\ denotes[i] \in Int
    BY DEF Inv, Exact, Node
<1> QED
    BY <1>1, HeapFacts, HeapIs DEF Stands

\* An iterator that is in no chain is overwritten and registered.
LEMMA Place ==
    ASSUME NEW h \in Heaps, NEW i \in Iterator, Chained(h, Iterator \ {i}), NEW m \in Members
    PROVE  Becomes(h, register_self([h EXCEPT !.it[i] = m], i), i, m.registry, m.buff, m.m_it)
<1> DEFINE f == [h EXCEPT !.it[i] = m]
           g == register_self(f, i)
<1>1. i \in Node /\ Iterator \ {i} \in SUBSET Node /\ (Iterator \ {i}) \cup {i} = Iterator
    BY DEF Node
<1>2. /\ f \in Heaps /\ Chained(f, Iterator \ {i}) /\ f.it[i] = m
      /\ \A j \in Node : j # i => f.it[j] = h.it[j]
    BY <1>1, ReplaceStays
<1> HIDE DEF f
<1>3. g \in Heaps /\ SameMembers(f, g) /\ Chained(g, (Iterator \ {i}) \cup {i})
    BY <1>1, <1>2, RegisterSelf
<1> HIDE DEF g
<1>4. \A j \in Iterator : j \in Node
    BY DEF Node
<1>5. Becomes(h, g, i, m.registry, m.buff, m.m_it)
    BY <1>1, <1>2, <1>3, <1>4 DEF Becomes, Exact, SameMembers
<1> QED
    BY <1>5 DEF g, f

\* The same for an iterator with no registry: it is in no chain already.
LEMMA PlaceNew ==
    ASSUME NEW h, Exact(h), NEW i \in Iterator, h.it[i].registry = Null, NEW m \in Members
    PROVE  Becomes(h, register_self([h EXCEPT !.it[i] = m], i), i, m.registry, m.buff, m.m_it)
<1>1. h \in Heaps /\ Chained(h, Iterator \ {i})
    BY Aside DEF Exact
<1> QED
    BY <1>1, Place

\* An iterator that is in no chain is left without a registry.
LEMMA Displace ==
    ASSUME NEW h \in Heaps, NEW i \in Iterator, Chained(h, Iterator \ {i})
    PROVE  Becomes(h, [h EXCEPT !.it[i] = NoIterator], i, Null, Null, NULL)
<1> DEFINE g == [h EXCEPT !.it[i] = NoIterator]
<1>1. i \in Node /\ Iterator \ {i} \in SUBSET Node /\ (Iterator \ {i}) \cup {i} = Iterator
    BY DEF Node
<1>2. /\ g \in Heaps /\ Chained(g, Iterator \ {i}) /\ g.it[i] = NoIterator
      /\ \A j \in Node : j # i => g.it[j] = h.it[j]
    BY <1>1, NoIteratorIsMembers, ReplaceStays
<1> HIDE DEF g
<1>3. g.it[i].registry = Null /\ g.it[i].buff = Null /\ g.it[i].m_it = NULL
    BY <1>2 DEF NoIterator
<1>4. Chained(g, (Iterator \ {i}) \cup {i})
    BY <1>2, <1>3, Aside
<1>5. \A j \in Iterator : j \in Node
    BY DEF Node
<1>6. Becomes(h, g, i, Null, Null, NULL)
    BY <1>1, <1>2, <1>3, <1>4, <1>5 DEF Becomes, Exact
<1> QED
    BY <1>6 DEF g

LEMMA DefaultConstructStep ==
    ASSUME Inv, NEW i \in Iterator, DefaultConstruct(i)
    PROVE  Inv'
<1> DEFINE g == [Heap EXCEPT !.it[i] = NoIterator]
<1>1. Heap.it = it /\ Heap.head = head /\ Exact(Heap) /\ Heap \in Heaps
    BY HeapIs DEF Inv, Exact
<1>2. it[i].registry = Null
    BY MemberTypes DEF DefaultConstruct, Exists, Stands
<1>3. Chained(Heap, Iterator \ {i})
    BY <1>1, <1>2, Aside DEF Exact
<1>4. Becomes(Heap, g, i, Null, Null, NULL)
    BY <1>1, <1>3, Displace
<1>5. Adopt(g)
    BY <1>1 DEF DefaultConstruct, Adopt, Heap
<1>6. /\ denotes' = [denotes EXCEPT ![i] = Gone] /\ UNCHANGED ring /\ live' = live \cup {i} /\ Gone \in Int
    BY DEF DefaultConstruct, Gone
<1> HIDE DEF g
<1> QED
    BY <1>4, <1>5, <1>6, OneIterator

LEMMA ConstructStep ==
    ASSUME Inv, NEW i \in Iterator, NEW b \in Buffer, NEW k \in Int, Construct(i, b, k)
    PROVE  Inv'
<1> DEFINE p == Pointer(ring[b], k)
           m == [NoIterator EXCEPT !.registry = b, !.buff = b, !.m_it = p]
           g == register_self([Heap EXCEPT !.it[i] = m], i)
           d == IF k = ring[b].size + 1 THEN End ELSE k
<1>1. Heap.it = it /\ Exact(Heap) /\ ring[b] \in Rings /\ b \in live
    BY HeapIs DEF Inv, Construct, Made
<1>2. it[i].registry = Null
    BY MemberTypes DEF Construct, Exists, Stands
<1>3. /\ ring[b].first \in Int /\ ring[b].cap \in Int /\ ring[b].size \in Nat
      /\ k \in 1 .. ring[b].size + 1
    BY <1>1 DEF Rings, Construct
<1>4. p \in Int
    BY <1>3 DEF Pointer, Slot, Add, NULL
<1> HIDE DEF p
<1>5. m \in Members /\ m.registry = b /\ m.buff = b /\ m.m_it = p
    BY <1>4 DEF NoIterator, Members
<1>6. Adopt(g) /\ UNCHANGED ring /\ live' = live \cup {i} /\ denotes' = [denotes EXCEPT ![i] = d]
    BY DEF Construct, p
<1> HIDE DEF m
<1>7. Becomes(Heap, g, i, b, b, p)
    BY <1>1, <1>2, <1>5, PlaceNew
<1> HIDE DEF g
<1>8. d \in Int /\ d # Gone /\ (d = End => k = ring[b].size + 1) /\ (d # End => d = k /\ k # ring[b].size + 1)
    BY <1>3 DEF Gone, End
<1>9. Denotes(ring[b], p, d)
    BY <1>3, <1>8 DEF Denotes, p, Pointer
<1> HIDE DEF d
<1>10. b # Null
    BY NullIsNoNode
<1> QED
    BY <1>1, <1>6, <1>7, <1>8, <1>9, <1>10, OneIterator

LEMMA CopyConstructStep ==
    ASSUME Inv, NEW i \in Iterator, NEW j \in Iterator, CopyConstruct(i, j)
    PROVE  Inv'
<1> DEFINE m == [it[j] EXCEPT !.next = Null]
           g == register_self([Heap EXCEPT !.it[i] = m], i)
<1>1. Heap.it = it /\ Exact(Heap)
    BY HeapIs DEF Inv
<1>2. it[i].registry = Null
    BY MemberTypes DEF CopyConstruct, Exists, Stands
<1>3. /\ it[j] \in Members /\ Stands(j) /\ denotes[j] \in Int
      /\ it[j].registry # Null => it[j].registry \in Buffer
    BY MemberTypes
<1>4. m \in Members /\ m.registry = it[j].registry /\ m.buff = it[j].buff /\ m.m_it = it[j].m_it
    BY <1>3 DEF Members
<1>5. Adopt(g) /\ UNCHANGED ring /\ live' = live \cup {i} /\ denotes' = [denotes EXCEPT ![i] = denotes[j]]
    BY DEF CopyConstruct
<1> HIDE DEF m
<1>6. Becomes(Heap, g, i, it[j].registry, it[j].buff, it[j].m_it)
    BY <1>1, <1>2, <1>4, PlaceNew
<1> HIDE DEF g
<1>7. /\ it[j].registry \in {Null, it[j].buff} /\ (it[j].registry = Null <=> denotes[j] = Gone)
      /\ it[j].registry # Null => it[j].registry \in live
      /\ denotes[j] # Gone => Denotes(ring[it[j].buff], it[j].m_it, denotes[j])
    BY <1>3 DEF Stands
<1> QED
    BY <1>3, <1>5, <1>6, <1>7, OneIterator

LEMMA DestroyStep ==
    ASSUME Inv, NEW i \in Iterator, Destroy(i)
    PROVE  Inv'
<1> DEFINE f == unregister_self(Heap, i)
           g == [f EXCEPT !.it[i] = NoIterator]
<1>1. Heap \in Heaps /\ Chained(Heap, Iterator) /\ Iterator \in SUBSET Node
    BY DEF Inv, Exact, Node
<1>2. Adopt(g) /\ UNCHANGED ring /\ live' = live \ {i} /\ denotes' = [denotes EXCEPT ![i] = Gone] /\ Gone \in Int
    BY DEF Destroy, Gone
<1>3. f \in Heaps /\ SameMembers(Heap, f) /\ Chained(f, Iterator \ {i})
    BY <1>1, UnregisterSelf
<1> HIDE DEF f
<1>4. Becomes(f, g, i, Null, Null, NULL)
    BY <1>3, Displace
<1> HIDE DEF g
<1>5. \A j \in Iterator : j \in Node
    BY DEF Node
<1>6. Becomes(Heap, g, i, Null, Null, NULL)
    BY <1>3, <1>4, <1>5 DEF Becomes, SameMembers
<1> QED
    BY <1>2, <1>6, OneIterator


\* A change of the members that chains do not use.
LEMMA Redirect ==
    ASSUME NEW h, Exact(h), NEW g \in Heaps, NEW i \in Iterator, g.head = h.head,
           g.it[i].registry = h.it[i].registry, g.it[i].next = h.it[i].next,
           \A j \in Node : j # i => g.it[j] = h.it[j]
    PROVE  Becomes(h, g, i, h.it[i].registry, g.it[i].buff, g.it[i].m_it)
<1>1. \A j \in Iterator : j \in Node
    BY DEF Node
<1>2. \A j \in Iterator : g.it[j].next = h.it[j].next /\ g.it[j].registry = h.it[j].registry
    BY <1>1
<1>3. Chained(g, Iterator)
    BY <1>2, ChainedStays DEF Exact
<1> QED
    BY <1>1, <1>3 DEF Becomes, Exact

LEMMA BecomesTwice ==
    ASSUME NEW h, NEW f, NEW g, NEW i, NEW r, NEW b, NEW p, NEW q, NEW c, NEW m,
           Becomes(h, f, i, r, b, p), Becomes(f, g, i, q, c, m)
    PROVE  Becomes(h, g, i, q, c, m)
BY DEF Becomes

LEMMA AimEffect ==
    ASSUME NEW h, Exact(h), NEW i \in Iterator, NEW b \in Buffer \cup {Null}, NEW p \in Int
    PROVE  Becomes(h, [h EXCEPT !.it[i].buff = b, !.it[i].m_it = p], i, h.it[i].registry, b, p)
<1> DEFINE m == [h.it[i] EXCEPT !.buff = b, !.m_it = p]
           g == [h EXCEPT !.it[i].buff = b, !.it[i].m_it = p]
           f == [h EXCEPT !.it[i] = m]
<1>1. h \in Heaps /\ i \in Node /\ h.it[i] \in Members /\ h.it \in [Node -> Members]
    BY HeapFacts DEF Exact, Node
<1>2. m \in Members /\ m.registry = h.it[i].registry /\ m.next = h.it[i].next /\ m.buff = b /\ m.m_it = p
    BY <1>1 DEF Members
<1>3. g = f
    BY <1>1 DEF Heaps
<1> HIDE DEF m
<1>4. f \in Heaps /\ f.head = h.head /\ f.it[i] = m /\ \A j \in Node : j # i => f.it[j] = h.it[j]
    BY <1>1, <1>2, ReplacedEffect
<1> HIDE DEF f, g
<1>5. Becomes(h, f, i, h.it[i].registry, f.it[i].buff, f.it[i].m_it)
    BY <1>2, <1>4, Redirect
<1>6. Becomes(h, g, i, h.it[i].registry, b, p)
    BY <1>2, <1>3, <1>4, <1>5
<1> QED
    BY <1>6 DEF g

LEMMA AssignStep ==
    ASSUME Inv, NEW i \in Iterator, NEW j \in Iterator, i # j, Assign(i, j)
    PROVE  Inv'
<1> DEFINE r == it[j].registry
           b == it[j].buff
           p == it[j].m_it
           left == unregister_self(Heap, i)
           f == register_self([left EXCEPT !.it[i].registry = r], i)
           base == IF it[i].registry = r THEN Heap ELSE f
           g == [base EXCEPT !.it[i].buff = b, !.it[i].m_it = p]
<1>1. Heap.it = it /\ Exact(Heap) /\ Heap \in Heaps
    BY HeapIs DEF Inv, Exact
<1>2. /\ r \in Buffer \cup {Null} /\ b \in Buffer \cup {Null} /\ p \in Int
      /\ Stands(j) /\ denotes[j] \in Int /\ (r # Null => r \in Buffer)
    BY MemberTypes
<1>3. Adopt(g) /\ UNCHANGED <<ring, live>> /\ denotes' = [denotes EXCEPT ![i] = denotes[j]] /\ i \in live
    BY DEF Assign, Exists
<1>4. Becomes(Heap, base, i, base.it[i].registry, base.it[i].buff, base.it[i].m_it) /\ base.it[i].registry = r
    <2>1. CASE it[i].registry = r
        <3>1. base = Heap
            BY <2>1
        <3> HIDE DEF base
        <3> QED
            BY <1>1, <2>1, <3>1 DEF Becomes
    <2>2. CASE it[i].registry # r
        <3>1. base = f
            BY <2>2
        <3>2. Iterator \in SUBSET Node /\ i \in Node /\ Chained(Heap, Iterator)
            BY <1>1 DEF Node, Exact
        <3>3. left \in Heaps /\ SameMembers(Heap, left) /\ Chained(left, Iterator \ {i})
            BY <1>1, <3>2, UnregisterSelf
        <3> DEFINE m == [left.it[i] EXCEPT !.registry = r]
        <3> HIDE DEF left
        <3>4. left.it[i] \in Members
            BY <3>2, <3>3, HeapFacts
        <3>5. m \in Members /\ m.registry = r
            BY <1>2, <3>4 DEF Members
        <3>6. [left EXCEPT !.it[i].registry = r] = [left EXCEPT !.it[i] = m]
            BY <3>2, <3>3, HeapFacts DEF Heaps
        <3> HIDE DEF m
        <3>7. Becomes(left, f, i, m.registry, m.buff, m.m_it)
            BY <3>3, <3>5, <3>6, Place
        <3> HIDE DEF f
        <3>8. \A k \in Iterator : k \in Node
            BY <3>2
        <3>9. Becomes(Heap, f, i, m.registry, m.buff, m.m_it)
            BY <3>3, <3>7, <3>8 DEF Becomes, SameMembers
        <3> HIDE DEF base
        <3> QED
            BY <3>1, <3>5, <3>9 DEF Becomes
    <2> QED
        BY <2>1, <2>2
<1> HIDE DEF base
<1>5. Becomes(base, g, i, base.it[i].registry, b, p)
    <2>1. Exact(base)
        BY <1>4 DEF Becomes
    <2> HIDE DEF b, p
    <2> QED
        BY <1>2, <2>1, AimEffect
<1>6. Becomes(Heap, g, i, r, b, p)
    BY <1>4, <1>5, BecomesTwice
<1> HIDE DEF g
<1>7. /\ r \in {Null, b} /\ (r = Null <=> denotes[j] = Gone)
      /\ r # Null => r \in live
      /\ denotes[j] # Gone => Denotes(ring[b], p, denotes[j])
    BY <1>2 DEF Stands
<1> QED
    BY <1>2, <1>3, <1>6, <1>7, OneIterator

---------------------------------------------------------------------------
(* Iterators that move.                                                    *)

LEMMA AddAdd ==
    ASSUME NEW c \in Nat \ {0}, NEW f \in Slots(c), NEW a \in Nat, NEW n \in Nat, a + n <= c
    PROVE  Add(Add(f, a, c), n, c) = Add(f, a + n, c)
BY DEF Add, Slots

\* The pointer of an iterator at position k is the one the arithmetic makes.
LEMMA EndAtLastIs ==
    ASSUME NEW r \in Rings, NEW k \in 2 .. r.size + 1
    PROVE  Denotes(r, EndAtLast(Add(r.first, k - 1, r.cap), r), IF k = r.size + 1 THEN End ELSE k)
<1>1. PICK c \in Nat, f \in Int, n \in Nat : c = r.cap /\ f = r.first /\ n = r.size /\ n <= c /\ f \in Pointers(c)
    BY DEF Rings, Pointers, Slots
<1>2. c \in Nat \ {0} /\ f \in Slots(c) /\ k \in 2 .. n + 1
    BY <1>1 DEF Pointers
<1>3. k # n + 1 => Add(f, k - 1, c) # Add(f, n, c)
    BY <1>1, <1>2 DEF Add, Slots
<1>4. k = n + 1 => k - 1 = n
    BY <1>2
<1>5. k # n + 1 => k \in 1 .. n /\ k # End
    BY <1>2 DEF End
<1> QED
    BY <1>1, <1>3, <1>4, <1>5 DEF Denotes, EndAtLast, m_last, Slot

LEMMA SlotIsNotNull ==
    ASSUME NEW r \in Rings, NEW k \in 1 .. r.size
    PROVE  /\ Slot(r, k) \in Slots(r.cap) /\ Slot(r, k) # NULL
           /\ Index(Slot(r, k), r.first, r.cap) = k - 1
           /\ r.cap \in Nat \ {0} /\ r.first \in Slots(r.cap)
<1>1. PICK c \in Nat, f \in Int, n \in Nat : c = r.cap /\ f = r.first /\ n = r.size /\ n <= c /\ f \in Pointers(c)
    BY DEF Rings, Pointers, Slots
<1>2. c \in Nat \ {0} /\ f \in Slots(c) /\ k - 1 \in 0 .. c /\ k - 1 < c
    BY <1>1 DEF Pointers
<1>3. Add(f, k - 1, c) \in Slots(c) /\ Index(Add(f, k - 1, c), f, c) = k - 1
    BY <1>2, AddInRing
<1> QED
    BY <1>1, <1>2, <1>3 DEF Slot, Slots, NULL

\* What linearize_pointer finds.
Placed(i) == IF denotes[i] = End THEN ring[it[i].buff].size ELSE denotes[i] - 1

LEMMA LinearizePointerIs ==
    ASSUME Inv, NEW i \in Iterator, denotes[i] # Gone
    PROVE  /\ linearize_pointer(i) = Placed(i) /\ it[i].buff \in Buffer /\ ring[it[i].buff] \in Rings
           /\ Denotes(ring[it[i].buff], it[i].m_it, denotes[i])
           /\ it[i].m_it = NULL <=> denotes[i] = End
           /\ denotes[i] # End => denotes[i] \in 1 .. ring[it[i].buff].size
<1>1. it[i].buff \in Buffer /\ Denotes(ring[it[i].buff], it[i].m_it, denotes[i])
    BY MemberTypes DEF Stands
<1>2. ring[it[i].buff] \in Rings
    BY <1>1 DEF Inv
<1>3. CASE denotes[i] = End
    BY <1>1, <1>2, <1>3 DEF Denotes, linearize_pointer, Placed
<1>4. CASE denotes[i] # End
    <2>1. denotes[i] \in 1 .. ring[it[i].buff].size /\ it[i].m_it = Slot(ring[it[i].buff], denotes[i])
        BY <1>1, <1>4 DEF Denotes
    <2> QED
        BY <1>1, <1>2, <1>4, <2>1, SlotIsNotNull DEF linearize_pointer, Placed
<1> QED
    BY <1>3, <1>4

LEMMA PointToStep ==
    ASSUME Inv, NEW i \in Iterator, Usable(i), NEW p \in Int, NEW n \in Int, PointTo(i, p, n),
           Denotes(ring[it[i].buff], p, Onward(i, n)), Onward(i, n) \in Int, Onward(i, n) # Gone
    PROVE  Inv'
<1> DEFINE b == it[i].buff
           m == [it[i] EXCEPT !.m_it = p]
           g == [Heap EXCEPT !.it[i] = m]
<1>1. Heap.it = it /\ Heap.head = head /\ Exact(Heap) /\ Heap \in Heaps
    BY HeapIs DEF Inv, Exact
<1>2. /\ i \in Node /\ it[i] \in Members /\ b # Null /\ it[i].registry = b /\ Stands(i)
      /\ b \in Buffer
    BY MemberTypes DEF Usable, is_valid
<1>3. m \in Members /\ m.registry = b /\ m.next = it[i].next /\ m.buff = b /\ m.m_it = p
    BY <1>2 DEF Members
<1>4. Adopt(g)
    <2>1. it' = [it EXCEPT ![i] = m] /\ head' = head
        BY DEF PointTo
    <2>2. g.it = [it EXCEPT ![i] = m] /\ g.head = head
        BY DEF Heap
    <2> QED
        BY <2>1, <2>2 DEF Adopt
<1> HIDE DEF m
<1>5. g \in Heaps /\ g.head = Heap.head /\ g.it[i] = m /\ \A j \in Node : j # i => g.it[j] = Heap.it[j]
    BY <1>1, <1>2, <1>3, ReplacedEffect
<1> HIDE DEF g
<1>6. Becomes(Heap, g, i, it[i].registry, g.it[i].buff, g.it[i].m_it)
    BY <1>1, <1>2, <1>3, <1>5, Redirect
<1>7. Becomes(Heap, g, i, b, b, p)
    BY <1>2, <1>3, <1>5, <1>6
<1>8. b \in live /\ i \in live
    BY <1>2 DEF Stands
<1>9. UNCHANGED <<ring, live>> /\ denotes' = [denotes EXCEPT ![i] = Onward(i, n)]
    BY DEF PointTo
<1> DEFINE d == Onward(i, n)
<1>10. d \in Int /\ d # Gone /\ Denotes(ring[b], p, d) /\ denotes' = [denotes EXCEPT ![i] = d]
    BY <1>9
<1> HIDE DEF d, b
<1> QED
    BY <1>2, <1>4, <1>7, <1>8, <1>9, <1>10, OneIterator


\* A usable iterator is at a position q; the end of n elements is at n + 1.
\* The valid iterator i is at position q of a ring of capacity c with n elements
\* from slot f on.
IsAt(i, c, f, n, q) ==
    LET r == ring[it[i].buff] IN
    /\ r \in Rings /\ r.cap = c /\ r.first = f /\ r.size = n /\ n <= c /\ f \in Pointers(c)
    /\ q \in 1 .. n + 1 /\ linearize_pointer(i) = q - 1
    /\ it[i].m_it = IF q = n + 1 THEN NULL ELSE Add(f, q - 1, c)
    /\ \A m \in Int : Onward(i, m) = IF q + m = n + 1 THEN End ELSE q + m
    /\ q # n + 1 => it[i].m_it # NULL

LEMMA UsablePosition ==
    ASSUME Inv, NEW i \in Iterator, Usable(i)
    PROVE  \E c \in Nat, f \in Int, n \in Nat, q \in Nat : IsAt(i, c, f, n, q)
<1> DEFINE r == ring[it[i].buff]
           q == IF denotes[i] = End THEN r.size + 1 ELSE denotes[i]
<1>1. denotes[i] # Gone
    BY MemberTypes DEF Usable, is_valid, Stands
<1>2. /\ linearize_pointer(i) = Placed(i) /\ r \in Rings
      /\ Denotes(r, it[i].m_it, denotes[i])
      /\ it[i].m_it = NULL <=> denotes[i] = End
      /\ denotes[i] # End => denotes[i] \in 1 .. r.size
    BY <1>1, LinearizePointerIs
<1>3. r.cap \in Nat /\ r.first \in Int /\ r.size \in Nat /\ r.size <= r.cap /\ r.first \in Pointers(r.cap)
    BY <1>2 DEF Rings
<1>4. q \in 1 .. r.size + 1 /\ q \in Nat /\ (q = r.size + 1 <=> denotes[i] = End)
    BY <1>2, <1>3
<1>5. linearize_pointer(i) = q - 1
    BY <1>2, <1>3 DEF Placed
<1>6. it[i].m_it = IF q = r.size + 1 THEN NULL ELSE Add(r.first, q - 1, r.cap)
    BY <1>2, <1>4 DEF Denotes, Slot
<1>7. \A m \in Int : Onward(i, m) = IF q + m = r.size + 1 THEN End ELSE q + m
    BY DEF Onward
<1>8. q # r.size + 1 => it[i].m_it # NULL
    BY <1>2, <1>4
<1> HIDE DEF q, r
<1> QED
    <2>1. IsAt(i, r.cap, r.first, r.size, q)
        BY <1>2, <1>3, <1>4, <1>5, <1>6, <1>7, <1>8 DEF r, IsAt
    <2> QED
        BY <2>1, <1>3, <1>4

LEMMA IncrementStep ==
    ASSUME Inv, NEW i \in Iterator, IncrementIterator(i)
    PROVE  Inv'
<1> DEFINE r == ring[it[i].buff]
<1>1. Usable(i) /\ it[i].m_it # NULL /\ PointTo(i, EndAtLast(Increment(it[i].m_it, r.cap), r), 1)
    BY DEF IncrementIterator
<1>2a. PICK c \in Nat, f \in Int, n \in Nat, q \in Nat : IsAt(i, c, f, n, q)
    BY <1>1, UsablePosition, Zenon
<1>2. /\ r \in Rings /\ r.cap = c /\ r.first = f /\ r.size = n /\ n <= c /\ f \in Pointers(c)
      /\ q \in 1 .. n + 1
      /\ it[i].m_it = IF q = n + 1 THEN NULL ELSE Add(f, q - 1, c)
      /\ \A m \in Int : Onward(i, m) = IF q + m = n + 1 THEN End ELSE q + m
    BY <1>2a DEF IsAt
<1> HIDE DEF r
<1>3. q # n + 1 /\ it[i].m_it = Add(f, q - 1, c)
    BY <1>1, <1>2
<1>4. c \in Nat \ {0} /\ f \in Slots(c) /\ q - 1 \in 0 .. c /\ q - 1 < c /\ q + 1 \in 2 .. n + 1
    BY <1>2, <1>3 DEF Pointers
<1>5. Add(f, q, c) = Increment(it[i].m_it, c)
    <2>1. Add(f, q - 1 + 1, c) = Increment(Add(f, q - 1, c), c)
        BY <1>4, AddInRing
    <2>2. q - 1 + 1 = q
        BY <1>2
    <2> QED
        BY <1>3, <2>1, <2>2
<1> DEFINE p == EndAtLast(Increment(it[i].m_it, r.cap), r)
<1>6. Denotes(r, p, Onward(i, 1))
    <2>1. Denotes(r, EndAtLast(Add(r.first, q + 1 - 1, r.cap), r), IF q + 1 = r.size + 1 THEN End ELSE q + 1)
        BY <1>2, <1>4, EndAtLastIs
    <2>2. q + 1 - 1 = q
        BY <1>2
    <2> QED
        BY <1>2, <1>5, <2>1, <2>2
<1>7. Onward(i, 1) \in Int /\ Onward(i, 1) # Gone
    BY <1>2, <1>4 DEF Gone, End
<1>8. p \in Int
    BY <1>2, <1>3, <1>4, <1>5 DEF EndAtLast, Add, Slots, NULL
<1> HIDE DEF p
<1>9. PointTo(i, p, 1)
    BY <1>1 DEF p
<1> QED
    BY <1>1, <1>6, <1>7, <1>8, <1>9, PointToStep DEF r

LEMMA DecrementStep ==
    ASSUME Inv, NEW i \in Iterator, DecrementIterator(i)
    PROVE  Inv'
<1> DEFINE r == ring[it[i].buff]
           p == Decrement(IF it[i].m_it = NULL THEN m_last(r) ELSE it[i].m_it, r.cap)
<1>1. Usable(i) /\ it[i].m_it # r.first /\ r.size > 0 /\ PointTo(i, p, -1)
    BY DEF DecrementIterator
<1>2a. PICK c \in Nat, f \in Int, n \in Nat, q \in Nat : IsAt(i, c, f, n, q)
    BY <1>1, UsablePosition, Zenon
<1>2. /\ r \in Rings /\ r.cap = c /\ r.first = f /\ r.size = n /\ n <= c /\ f \in Pointers(c)
      /\ q \in 1 .. n + 1
      /\ it[i].m_it = IF q = n + 1 THEN NULL ELSE Add(f, q - 1, c)
      /\ \A m \in Int : Onward(i, m) = IF q + m = n + 1 THEN End ELSE q + m
      /\ q # n + 1 => it[i].m_it # NULL
    BY <1>2a DEF IsAt
<1> HIDE DEF r
<1>3. c \in Nat \ {0} /\ f \in Slots(c) /\ n > 0
    BY <1>1, <1>2 DEF Pointers
<1>4. Add(f, 0, c) = f
    BY <1>3, AddInRing
<1>5. q # 1
    BY <1>1, <1>2, <1>3, <1>4
<1>6. q - 1 \in 0 .. c /\ q - 1 > 0 /\ q - 1 - 1 \in 0 .. c
    BY <1>2, <1>5
<1>7. p = Add(f, q - 1 - 1, c)
    <2>1. p = Decrement(Add(f, q - 1, c), c)
        BY <1>2 DEF m_last
    <2>2. Add(f, q - 1 - 1, c) = Decrement(Add(f, q - 1, c), c)
        BY <1>3, <1>6, AddInRing
    <2> QED
        BY <2>1, <2>2
<1> HIDE DEF p
<1>8. Onward(i, -1) = q - 1 /\ q - 1 \in 1 .. n /\ q - 1 # End
    <2>1. q + (-1) = q - 1 /\ q - 1 # n + 1
        BY <1>2
    <2>2. Onward(i, -1) = q - 1
        BY <1>2, <2>1
    <2> QED
        BY <1>2, <1>5, <2>2 DEF End
<1>9. Denotes(r, p, Onward(i, -1)) /\ Onward(i, -1) \in Int /\ Onward(i, -1) # Gone
    BY <1>2, <1>7, <1>8 DEF Denotes, Slot, Gone
<1>10. p \in Int
    BY <1>2, <1>6, <1>7 DEF Add
<1> QED
    BY <1>1, <1>9, <1>10, PointToStep DEF r

LEMMA AddStep ==
    ASSUME Inv, NEW i \in Iterator, NEW k \in Nat \ {0}, AddToIterator(i, k)
    PROVE  Inv'
<1> DEFINE r == ring[it[i].buff]
           p == EndAtLast(Add(it[i].m_it, k, r.cap), r)
<1>1. Usable(i) /\ r.size - linearize_pointer(i) >= k /\ PointTo(i, p, k)
    BY DEF AddToIterator
<1>2a. PICK c \in Nat, f \in Int, n \in Nat, q \in Nat : IsAt(i, c, f, n, q)
    BY <1>1, UsablePosition, Zenon
<1>2. /\ r \in Rings /\ r.cap = c /\ r.first = f /\ r.size = n /\ n <= c /\ f \in Pointers(c)
      /\ q \in 1 .. n + 1 /\ linearize_pointer(i) = q - 1
      /\ it[i].m_it = IF q = n + 1 THEN NULL ELSE Add(f, q - 1, c)
      /\ \A m \in Int : Onward(i, m) = IF q + m = n + 1 THEN End ELSE q + m
    BY <1>2a DEF IsAt
<1> HIDE DEF r
<1>3. n - (q - 1) >= k
    BY <1>1, <1>2
<1>4. q # n + 1 /\ q + k \in 2 .. n + 1 /\ q - 1 \in Nat /\ (q - 1) + k <= c /\ (q - 1) + k = q + k - 1
    BY <1>2, <1>3
<1>5. c \in Nat \ {0} /\ f \in Slots(c)
    BY <1>2, <1>4 DEF Pointers
<1>6. Add(it[i].m_it, k, c) = Add(f, q + k - 1, c)
    <2>1. Add(Add(f, q - 1, c), k, c) = Add(f, (q - 1) + k, c)
        BY <1>4, <1>5, AddAdd
    <2> QED
        BY <1>2, <1>4, <2>1
<1>7. Denotes(r, EndAtLast(Add(r.first, q + k - 1, r.cap), r), IF q + k = r.size + 1 THEN End ELSE q + k)
    BY <1>2, <1>4, EndAtLastIs
<1>8. Denotes(r, p, Onward(i, k))
    BY <1>2, <1>6, <1>7
<1>9. Onward(i, k) \in Int /\ Onward(i, k) # Gone
    BY <1>2, <1>4 DEF Gone, End
<1>10. p \in Int
    BY <1>2, <1>4, <1>6 DEF EndAtLast, Add, NULL
<1> HIDE DEF p
<1> QED
    BY <1>1, <1>8, <1>9, <1>10, PointToStep DEF r

LEMMA SubStep ==
    ASSUME Inv, NEW i \in Iterator, NEW k \in Nat \ {0}, SubFromIterator(i, k)
    PROVE  Inv'
<1> DEFINE r == ring[it[i].buff]
           p == Sub(IF it[i].m_it = NULL THEN m_last(r) ELSE it[i].m_it, k, r.cap)
<1>1. Usable(i) /\ linearize_pointer(i) >= k /\ PointTo(i, p, -k)
    BY DEF SubFromIterator
<1>2a. PICK c \in Nat, f \in Int, n \in Nat, q \in Nat : IsAt(i, c, f, n, q)
    BY <1>1, UsablePosition, Zenon
<1>2. /\ r \in Rings /\ r.cap = c /\ r.first = f /\ r.size = n /\ n <= c /\ f \in Pointers(c)
      /\ q \in 1 .. n + 1 /\ linearize_pointer(i) = q - 1
      /\ it[i].m_it = IF q = n + 1 THEN NULL ELSE Add(f, q - 1, c)
      /\ \A m \in Int : Onward(i, m) = IF q + m = n + 1 THEN End ELSE q + m
      /\ q # n + 1 => it[i].m_it # NULL
    BY <1>2a DEF IsAt
<1> HIDE DEF r
<1>3. q - 1 >= k /\ q - 1 \in 0 .. c /\ k \in 1 .. q - 1 /\ q - k \in 1 .. n /\ (q - 1) - k = q - k - 1
    BY <1>1, <1>2
<1>4. c \in Nat \ {0} /\ f \in Slots(c)
    BY <1>2, <1>3 DEF Pointers
<1>5. p = Add(f, q - k - 1, c)
    <2>1. p = Sub(Add(f, q - 1, c), k, c)
        BY <1>2 DEF m_last
    <2>2. Sub(Add(f, q - 1, c), k, c) = Add(f, (q - 1) - k, c)
        BY <1>3, <1>4, SubIsAdd
    <2> QED
        BY <1>3, <2>1, <2>2
<1> HIDE DEF p
<1>6. Onward(i, -k) = q - k /\ q - k # End /\ q - k # Gone
    <2>1. q + (-k) = q - k /\ q - k # n + 1 /\ -k \in Int
        BY <1>2, <1>3
    <2> QED
        BY <1>2, <1>3, <2>1 DEF End, Gone
<1>7. Denotes(r, p, Onward(i, -k)) /\ Onward(i, -k) \in Int /\ Onward(i, -k) # Gone /\ -k \in Int
    BY <1>2, <1>3, <1>5, <1>6 DEF Denotes, Slot
<1>8. p \in Int
    BY <1>2, <1>3, <1>5 DEF Add
<1> QED
    BY <1>1, <1>7, <1>8, PointToStep DEF r

LEMMA IteratorSteps ==
    ASSUME Inv, NEW i \in Iterator, IteratorStep(i)
    PROVE  Inv'
<1>1. \A n \in 1 .. MaxCapacity : n \in Nat \ {0}
    BY DebugAssumption
<1>2. \A k \in Places : k \in Int
    BY DebugAssumption DEF Places
<1> QED
    BY <1>1, <1>2, DefaultConstructStep, DestroyStep, ConstructStep, CopyConstructStep, AssignStep,
       IncrementStep, DecrementStep, AddStep, SubStep DEF IteratorStep


---------------------------------------------------------------------------
(* The containers' steps.                                                  *)

\* An iterator without a registry stays as it is; one with a registry loses it
\* and is gone, or keeps it, and its pointer is the one of its new position.
Followed(g, i) ==
    /\ g.it[i].buff = it[i].buff /\ g.it[i].m_it = it[i].m_it
    /\ denotes'[i] \in Int
    /\ it[i].registry = Null => g.it[i].registry = Null /\ denotes'[i] = Gone
    /\ it[i].registry # Null =>
          \/ g.it[i].registry = Null /\ denotes'[i] = Gone
          \/ /\ g.it[i].registry = it[i].registry /\ it[i].registry \in live'
             /\ denotes'[i] # Gone /\ Denotes(ring'[it[i].buff], it[i].m_it, denotes'[i])

LEMMA Following ==
    ASSUME Inv, NEW g, Exact(g), Adopt(g), ring' \in [Buffer -> Rings],
           live' \subseteq Buffer \cup Iterator, \A i \in Iterator : i \in live => i \in live',
           denotes' = [i \in Iterator |-> denotes'[i]], \A i \in Iterator : Followed(g, i)
    PROVE  Inv'
<1>1. Heap' = g /\ it' = g.it
    BY AdoptIs DEF Exact
<1>2. denotes' \in [Iterator -> Int]
    BY DEF Followed
<1>3. ASSUME NEW i \in Iterator PROVE Stands(i)'
    <2>1. Stands(i) /\ Followed(g, i)
        BY DEF Inv
    <2>2. CASE it[i].registry = Null
        BY <1>1, <2>1, <2>2 DEF Stands, Followed
    <2>3. CASE it[i].registry # Null
        <3>1. CASE g.it[i].registry = Null /\ denotes'[i] = Gone
            BY <1>1, <2>1, <3>1 DEF Stands, Followed
        <3>2. CASE /\ g.it[i].registry = it[i].registry /\ it[i].registry \in live'
                   /\ denotes'[i] # Gone /\ Denotes(ring'[it[i].buff], it[i].m_it, denotes'[i])
            <4>1. /\ it'[i].registry = it[i].registry /\ it'[i].buff = it[i].buff
                  /\ it'[i].m_it = it[i].m_it
                BY <1>1, <2>1, <3>2 DEF Followed
            <4>2. it[i].registry \in {Null, it[i].buff} /\ i \in live'
                BY <2>1, <2>3 DEF Stands
            <4> QED
                BY <2>3, <3>2, <4>1, <4>2 DEF Stands
        <3> QED
            BY <2>1, <2>3, <3>1, <3>2 DEF Followed
    <2> QED
        BY <2>2, <2>3
<1> QED
    BY <1>1, <1>2, <1>3 DEF Inv

\* What an operation c does to the buffer r, which becomes q: the slots it
\* touches are those of the positions it is documented to invalidate, and every
\* other element is still in its slot.
Moves(r, c, slots, q) ==
    LET after == After(c, [k \in 1 .. r.size |-> k], r.cap)[1]
        gone  == Invalidated(c, r.size, r.cap)
    IN  /\ q \in Rings /\ slots \subseteq Slots(r.cap)
        /\ \A k \in 1 .. r.size :
              /\ Slot(r, k) \in slots <=> k \in gone
              /\ k \notin gone =>
                    /\ \E m \in 1 .. Len(after) : after[m] = k
                    /\ \A m \in 1 .. Len(after) : after[m] = k =>
                          m \in 1 .. q.size /\ Slot(q, m) = Slot(r, k)

LEMMA CallStep ==
    ASSUME Inv, NEW b \in Buffer, NEW c, NEW slots, NEW q, Call(b, c, slots, q),
           Moves(ring[b], c, slots, q)
    PROVE  Inv'
<1> DEFINE r == ring[b]
           g == Touch(Heap, b, slots)
           after == After(c, [k \in 1 .. r.size |-> k], r.cap)[1]
           gone == Invalidated(c, r.size, r.cap)
           place(k) == CHOOSE m \in 1 .. Len(after) : after[m] = k
<1>1. /\ Adopt(g) /\ UNCHANGED live /\ ring' = [ring EXCEPT ![b] = q] /\ FollowCall(b, c) /\ b \in live
    BY DEF Call, Made
<1>2. /\ \A i \in Iterator : denotes'[i] =
            IF it[i].buff = b /\ denotes[i] \notin {Gone, End}
            THEN IF denotes[i] \in gone THEN Gone ELSE place(denotes[i])
            ELSE denotes[i]
      /\ denotes' = [i \in Iterator |-> denotes'[i]]
    BY <1>1 DEF FollowCall, Follow
<1>3. /\ r \in Rings /\ q \in Rings /\ slots \subseteq Slots(r.cap)
      /\ \A k \in 1 .. r.size :
            /\ Slot(r, k) \in slots <=> k \in gone
            /\ k \notin gone =>
                  /\ \E m \in 1 .. Len(after) : after[m] = k
                  /\ \A m \in 1 .. Len(after) : after[m] = k => m \in 1 .. q.size /\ Slot(q, m) = Slot(r, k)
    BY DEF Moves, Inv
<1> HIDE DEF gone, after
<1>4. \A k \in 1 .. r.size : k \notin gone => place(k) \in 1 .. q.size /\ Slot(q, place(k)) = Slot(r, k)
    BY <1>3
<1> HIDE DEF place
<1>5. Exact(Heap) /\ Heap.it = it /\ ring \in [Buffer -> Rings] /\ live \subseteq Buffer \cup Iterator
    BY HeapIs DEF Inv
<1>6. Cleared(Heap, g, b, {i \in Iterator : Heap.it[i].m_it \in slots})
    <2>1. r.cap \in Nat
        BY <1>3 DEF Rings
    <2>2. slots \subseteq 0 .. r.cap - 1
        BY <1>3 DEF Slots
    <2> HIDE DEF g
    <2> QED
        BY <1>5, <2>1, <2>2, TouchEffect DEF g
<1> HIDE DEF g
<1>7. Exact(g) /\ \A i \in Iterator :
          /\ g.it[i].buff = it[i].buff /\ g.it[i].m_it = it[i].m_it
          /\ g.it[i].registry = IF it[i].registry = b /\ it[i].m_it \in slots THEN Null ELSE it[i].registry
    BY <1>5, <1>6 DEF Cleared
<1>8. ring' \in [Buffer -> Rings] /\ ring'[b] = q /\ \A d \in Buffer : d # b => ring'[d] = ring[d]
    BY <1>1, <1>3, <1>5
<1>9. NULL \notin slots
    BY <1>3 DEF Slots, NULL, Rings
<1>10. r.size \in Nat /\ q.size \in Nat
    BY <1>3 DEF Rings
<1>11. ASSUME NEW i \in Iterator PROVE Followed(g, i)
    <2>1. /\ Stands(i) /\ denotes[i] \in Int /\ it[i].registry \in Buffer \cup {Null}
          /\ it[i].registry # Null => it[i].registry = it[i].buff
        BY MemberTypes
    <2>2. CASE it[i].registry = Null
        <3>1. denotes[i] = Gone /\ denotes'[i] = Gone
            BY <1>2, <2>1, <2>2 DEF Stands
        <3> QED
            BY <1>7, <2>1, <2>2, <3>1, NullIsNoNode DEF Followed
    <2>3. CASE it[i].registry # Null /\ it[i].registry # b
        <3>1. denotes'[i] = denotes[i] /\ ring'[it[i].buff] = ring[it[i].buff]
            BY <1>2, <1>8, <2>1, <2>3
        <3>2. denotes[i] # Gone /\ Denotes(ring[it[i].buff], it[i].m_it, denotes[i]) /\ it[i].registry \in live
            BY <2>1, <2>3 DEF Stands
        <3> QED
            BY <1>1, <1>7, <2>1, <2>3, <3>1, <3>2 DEF Followed
    <2>4. CASE it[i].registry = b
        <3>1. it[i].buff = b /\ it[i].registry # Null
            BY <2>1, <2>4, NullIsNoNode
        <3>2. denotes[i] # Gone /\ Denotes(r, it[i].m_it, denotes[i])
            BY <2>1, <3>1 DEF Stands
        <3>3. CASE denotes[i] = End
            <4>1. it[i].m_it = NULL
                BY <3>2, <3>3 DEF Denotes
            <4>2. denotes'[i] = End /\ g.it[i].registry = it[i].registry
                BY <1>2, <1>7, <1>9, <3>3, <4>1
            <4>3. End # Gone /\ End \in Int /\ Denotes(ring'[it[i].buff], it[i].m_it, End)
                BY <4>1 DEF Denotes, End, Gone
            <4> QED
                BY <1>1, <1>7, <2>4, <3>1, <4>2, <4>3 DEF Followed
        <3>4. CASE denotes[i] # End
            <4>1. denotes[i] \in 1 .. r.size /\ it[i].m_it = Slot(r, denotes[i])
                BY <3>2, <3>4 DEF Denotes
            <4>2. CASE denotes[i] \in gone
                <5>1. g.it[i].registry = Null
                    BY <1>3, <1>7, <2>4, <4>1, <4>2
                <5>2. denotes'[i] = Gone /\ Gone \in Int
                    BY <1>2, <3>1, <3>2, <3>4, <4>2 DEF Gone
                <5> QED
                    BY <1>7, <3>1, <5>1, <5>2 DEF Followed
            <4>3. CASE denotes[i] \notin gone
                <5>1. g.it[i].registry = it[i].registry
                    BY <1>3, <1>7, <4>1, <4>3
                <5>2. denotes'[i] = place(denotes[i])
                    BY <1>2, <3>1, <3>2, <3>4, <4>3
                <5>3. place(denotes[i]) \in 1 .. q.size /\ Slot(q, place(denotes[i])) = it[i].m_it
                    BY <1>4, <4>1, <4>3
                <5>4. place(denotes[i]) # Gone /\ place(denotes[i]) # End /\ place(denotes[i]) \in Int
                    BY <1>10, <5>3 DEF Gone, End
                <5>5. Denotes(ring'[it[i].buff], it[i].m_it, denotes'[i])
                    BY <1>8, <3>1, <5>2, <5>3, <5>4 DEF Denotes
                <5> QED
                    BY <1>1, <1>7, <2>4, <3>1, <5>1, <5>2, <5>4, <5>5 DEF Followed
            <4> QED
                BY <4>2, <4>3
        <3> QED
            BY <3>3, <3>4
    <2> QED
        BY <2>2, <2>3, <2>4
<1> QED
    BY <1>1, <1>2, <1>5, <1>7, <1>8, <1>11, Following


\* The elements' slots are slots of the buffer, and different ones.
LEMMA ElementsAre ==
    ASSUME NEW r \in Rings, NEW i \in Int, NEW j \in Int, i >= 1, j <= r.size
    PROVE  /\ Elements(r, i, j) \subseteq Slots(r.cap)
           /\ \A k \in 1 .. r.size : Slot(r, k) \in Elements(r, i, j) <=> k \in i .. j
<1>1. r.size \in Nat /\ \A k \in i .. j : k \in 1 .. r.size
    BY DEF Rings
<1>2. \A k \in 1 .. r.size : Slot(r, k) \in Slots(r.cap) /\ Index(Slot(r, k), r.first, r.cap) = k - 1
    BY SlotIsNotNull
<1>3. \A k, m \in 1 .. r.size : Slot(r, k) = Slot(r, m) => k = m
    <2> TAKE k \in 1 .. r.size, m \in 1 .. r.size
    <2> HAVE Slot(r, k) = Slot(r, m)
    <2>1. k - 1 = m - 1
        BY <1>2
    <2> QED
        BY <1>1, <2>1
<1> QED
    BY <1>1, <1>2, <1>3 DEF Elements

\* What a step that only makes iterators of b invalid does to each of them.
LEMMA FollowedWhenCleared ==
    ASSUME Inv, NEW b \in Buffer, NEW S, NEW g, Cleared(Heap, g, b, S), NEW i \in Iterator,
           it[i].registry # Null /\ it[i].registry # b => it[i].registry \in live',
           \A d \in Buffer : d # b => ring'[d] = ring[d],
           it[i].registry # b => denotes'[i] = denotes[i],
           it[i].registry = b =>
              \/ i \in S /\ denotes'[i] = Gone
              \/ /\ i \notin S /\ b \in live'
                 /\ denotes'[i] # Gone /\ denotes'[i] \in Int /\ Denotes(ring'[b], it[i].m_it, denotes'[i])
    PROVE  Followed(g, i)
<1>1. Heap.it = it /\ Gone \in Int
    BY HeapIs DEF Gone
<1>2. /\ g.it[i].buff = it[i].buff /\ g.it[i].m_it = it[i].m_it
      /\ g.it[i].registry = IF it[i].registry = b /\ i \in S THEN Null ELSE it[i].registry
    BY <1>1 DEF Cleared
<1>3. /\ Stands(i) /\ denotes[i] \in Int /\ it[i].registry \in Buffer \cup {Null}
      /\ it[i].registry # Null => it[i].registry = it[i].buff
    BY MemberTypes
<1>4. CASE it[i].registry = Null
    <2>1. denotes[i] = Gone /\ denotes'[i] = Gone
        BY <1>3, <1>4, NullIsNoNode DEF Stands
    <2> QED
        BY <1>1, <1>2, <1>4, <2>1 DEF Followed
<1>5. CASE it[i].registry # Null /\ it[i].registry # b
    <2>1. denotes[i] # Gone /\ Denotes(ring[it[i].buff], it[i].m_it, denotes[i])
        BY <1>3, <1>5 DEF Stands
    <2>2. ring'[it[i].buff] = ring[it[i].buff]
        BY <1>3, <1>5
    <2> QED
        BY <1>2, <1>3, <1>5, <2>1, <2>2 DEF Followed
<1>6. CASE it[i].registry = b
    <2>1. it[i].buff = b /\ it[i].registry # Null
        BY <1>3, <1>6, NullIsNoNode
    <2> QED
        BY <1>1, <1>2, <1>6, <2>1 DEF Followed
<1> QED
    BY <1>4, <1>5, <1>6

\* Which iterators of b denote what, for those that have b as their registry.
LEMMA Registered ==
    ASSUME Inv, NEW b \in Buffer, NEW i \in Iterator
    PROVE  /\ it[i].registry = b => /\ it[i].buff = b /\ denotes[i] # Gone
                                    /\ Denotes(ring[b], it[i].m_it, denotes[i])
                                    /\ denotes[i] = End <=> it[i].m_it = NULL
                                    /\ denotes[i] # End => /\ denotes[i] \in 1 .. ring[b].size
                                                           /\ it[i].m_it = Slot(ring[b], denotes[i])
                                    /\ b \in live
           /\ it[i].registry # b /\ it[i].buff = b => denotes[i] = Gone
           /\ it[i].registry # Null => it[i].registry \in live
<1>1. /\ Stands(i) /\ denotes[i] \in Int /\ it[i].registry \in Buffer \cup {Null}
      /\ it[i].registry # Null => it[i].registry = it[i].buff
    BY MemberTypes
<1>2. ASSUME it[i].registry = b
      PROVE  /\ it[i].buff = b /\ denotes[i] # Gone /\ Denotes(ring[b], it[i].m_it, denotes[i]) /\ b \in live
             /\ denotes[i] = End <=> it[i].m_it = NULL
    <2>1. it[i].buff = b /\ denotes[i] # Gone /\ Denotes(ring[b], it[i].m_it, denotes[i]) /\ b \in live
        BY <1>1, <1>2, NullIsNoNode DEF Stands
    <2>2. denotes[i] = End <=> it[i].m_it = NULL
        BY <2>1, LinearizePointerIs
    <2> QED
        BY <2>1, <2>2
<1> QED
    BY <1>1, <1>2 DEF Stands, Denotes

LEMMA LinearizeStep ==
    ASSUME Inv, NEW b \in Buffer, Linearize(b)
    PROVE  Inv'
<1> DEFINE r == ring[b]
           already == r.size = 0 \/ r.first < m_last(r) \/ m_last(r) = 0
           g == IF already THEN Heap ELSE invalidate_iterators_except(Heap, b, NULL)
           S == IF already THEN {} ELSE {i \in Iterator : Heap.it[i].m_it # NULL}
<1>1. /\ Adopt(g) /\ ring' = [ring EXCEPT ![b].first = IF already THEN @ ELSE 0] /\ UNCHANGED live
      /\ \A i \in Iterator : denotes'[i] =
            IF it[i].buff = b /\ denotes[i] \notin {Gone, End}
            THEN IF already THEN denotes[i] ELSE Gone
            ELSE denotes[i]
      /\ denotes' = [i \in Iterator |-> denotes'[i]]
    BY DEF Linearize, Follow
<1>2. Exact(Heap) /\ Heap.it = it /\ ring \in [Buffer -> Rings] /\ live \subseteq Buffer \cup Iterator
    BY HeapIs DEF Inv
<1>3. Cleared(Heap, g, b, S)
    <2>1. NULL \in Int
        BY DEF NULL
    <2> QED
        BY <1>2, <2>1, InvalidateIteratorsEffect, ClearedNot
<1> HIDE DEF already, g
<1>4. /\ ring'[b] \in Rings /\ ring' \in [Buffer -> Rings] /\ \A d \in Buffer : d # b => ring'[d] = ring[d]
      /\ already => ring'[b] = r
    <2>1. r \in Rings
        BY <1>2
    <2> DEFINE q == [r EXCEPT !.first = IF already THEN @ ELSE 0]
    <2>2. q \in Rings /\ (already => q = r)
        BY <2>1 DEF Rings, Pointers, Slots
    <2>3. ring' = [ring EXCEPT ![b] = q]
        BY <1>1
    <2> HIDE DEF q
    <2> QED
        BY <1>2, <2>2, <2>3
<1>5. ASSUME NEW i \in Iterator PROVE Followed(g, i)
    <2>1. /\ it[i].registry = b => /\ it[i].buff = b /\ denotes[i] # Gone
                                   /\ Denotes(ring[b], it[i].m_it, denotes[i])
                                   /\ denotes[i] = End <=> it[i].m_it = NULL
                                   /\ b \in live
          /\ it[i].registry # b /\ it[i].buff = b => denotes[i] = Gone
          /\ it[i].registry # Null => it[i].registry \in live
        BY Registered
    <2>2. denotes[i] \in Int
        BY MemberTypes
    <2>3. it[i].registry # b => denotes'[i] = denotes[i]
        BY <1>1, <2>1
    <2>4. i \in S <=> ~already /\ it[i].m_it # NULL
        BY <1>2
    <2> HIDE DEF S
    <2>5. ASSUME it[i].registry = b
          PROVE  \/ i \in S /\ denotes'[i] = Gone
                 \/ /\ i \notin S /\ b \in live'
                    /\ denotes'[i] # Gone /\ denotes'[i] \in Int /\ Denotes(ring'[b], it[i].m_it, denotes'[i])
        <3>1. CASE already
            BY <1>1, <1>4, <2>1, <2>2, <2>4, <2>5, <3>1
        <3>2. CASE ~already /\ it[i].m_it # NULL
            BY <1>1, <2>1, <2>4, <2>5, <3>2
        <3>3. CASE ~already /\ it[i].m_it = NULL
            <4>1. denotes'[i] = End /\ End # Gone /\ End \in Int
                BY <1>1, <2>1, <2>5, <3>3 DEF End, Gone
            <4> QED
                BY <1>1, <2>1, <2>4, <2>5, <3>3, <4>1 DEF Denotes
        <3> QED
            BY <3>1, <3>2, <3>3
    <2> QED
        BY <1>1, <1>3, <1>4, <2>1, <2>3, <2>5, FollowedWhenCleared
<1>6. Exact(g)
    BY <1>3 DEF Cleared
<1> QED
    BY <1>1, <1>2, <1>4, <1>5, <1>6, Following


LEMMA AssignItemsStep ==
    ASSUME Inv, NEW b \in Buffer, NEW cap \in Nat, NEW size \in Nat, AssignItems(b, cap, size)
    PROVE  Inv'
<1> DEFINE r == ring[b]
           slots == Elements(r, 1, r.size)
           g == Touch(Heap, b, slots)
           S == {i \in Iterator : Heap.it[i].m_it \in slots}
           q == [cap |-> cap, first |-> 0, size |-> size]
<1>1. /\ Adopt(g) /\ ring' = [ring EXCEPT ![b] = q] /\ UNCHANGED live /\ size <= cap
      /\ \A i \in Iterator : denotes'[i] =
            IF it[i].buff = b /\ denotes[i] \notin {Gone, End} THEN Gone ELSE denotes[i]
      /\ denotes' = [i \in Iterator |-> denotes'[i]]
    BY DEF AssignItems, Follow
<1>2. Exact(Heap) /\ Heap.it = it /\ ring \in [Buffer -> Rings] /\ live \subseteq Buffer \cup Iterator
    BY HeapIs DEF Inv
<1>3. q \in Rings
    BY <1>1 DEF Rings, Pointers, Slots
<1>4. /\ ring' \in [Buffer -> Rings] /\ \A d \in Buffer : d # b => ring'[d] = ring[d]
    BY <1>1, <1>2, <1>3
<1>5. r \in Rings /\ r.cap \in Nat /\ r.size \in Nat /\ r.size <= r.size
    BY <1>2 DEF Rings
<1>6. /\ slots \subseteq Slots(r.cap)
      /\ \A k \in 1 .. r.size : Slot(r, k) \in slots
    BY <1>5, ElementsAre
<1> HIDE DEF slots
<1>7. slots \subseteq 0 .. r.cap - 1 /\ NULL \notin slots
    BY <1>5, <1>6 DEF Slots, NULL
<1>8. Cleared(Heap, g, b, S)
    BY <1>2, <1>5, <1>7, TouchEffect
<1> HIDE DEF g
<1>9. ASSUME NEW i \in Iterator PROVE Followed(g, i)
    <2>1. /\ it[i].registry = b => /\ it[i].buff = b /\ denotes[i] # Gone
                                   /\ denotes[i] = End <=> it[i].m_it = NULL
                                   /\ denotes[i] # End => /\ denotes[i] \in 1 .. r.size
                                                          /\ it[i].m_it = Slot(r, denotes[i])
                                   /\ b \in live
          /\ it[i].registry # b /\ it[i].buff = b => denotes[i] = Gone
          /\ it[i].registry # Null => it[i].registry \in live
        BY Registered
    <2>2. it[i].registry # b => denotes'[i] = denotes[i]
        BY <1>1, <2>1
    <2>3. i \in S <=> it[i].m_it \in slots
        BY <1>2
    <2> HIDE DEF S
    <2>4. ASSUME it[i].registry = b
          PROVE  \/ i \in S /\ denotes'[i] = Gone
                 \/ /\ i \notin S /\ b \in live'
                    /\ denotes'[i] # Gone /\ denotes'[i] \in Int /\ Denotes(ring'[b], it[i].m_it, denotes'[i])
        <3>1. CASE denotes[i] = End
            <4>1. denotes'[i] = End /\ End # Gone /\ End \in Int
                BY <1>1, <3>1 DEF End, Gone
            <4> QED
                BY <1>1, <1>7, <2>1, <2>3, <2>4, <3>1, <4>1 DEF Denotes
        <3>2. CASE denotes[i] # End
            BY <1>1, <1>6, <2>1, <2>3, <2>4, <3>2
        <3> QED
            BY <3>1, <3>2
    <2> QED
        BY <1>1, <1>4, <1>8, <2>1, <2>2, <2>4, FollowedWhenCleared
<1>10. Exact(g)
    BY <1>8 DEF Cleared
<1> QED
    BY <1>1, <1>2, <1>4, <1>9, <1>10, Following

LEMMA SwapStep ==
    ASSUME Inv, NEW b \in Buffer, NEW c \in Buffer, Swap(b, c)
    PROVE  Inv'
<1> DEFINE f == invalidate_all_iterators(Heap, b)
           g == invalidate_all_iterators(f, c)
<1>1. /\ Adopt(g) /\ ring' = [ring EXCEPT ![b] = ring[c], ![c] = ring[b]] /\ UNCHANGED live /\ b # c
      /\ \A i \in Iterator : denotes'[i] = IF it[i].buff \in {b, c} THEN Gone ELSE denotes[i]
      /\ denotes' = [i \in Iterator |-> denotes'[i]]
    BY DEF Swap, ForgetAll
<1>2. Exact(Heap) /\ Heap.it = it /\ ring \in [Buffer -> Rings] /\ live \subseteq Buffer \cup Iterator
    BY HeapIs DEF Inv
<1>3. ring' \in [Buffer -> Rings] /\ \A d \in Buffer : d \notin {b, c} => ring'[d] = ring[d]
    BY <1>1, <1>2
<1>4. Cleared(Heap, f, b, Iterator)
    BY <1>2, InvalidateAllEffect
<1> HIDE DEF f
<1>5. Cleared(f, g, c, Iterator)
    BY <1>4, InvalidateAllEffect DEF Cleared
<1> HIDE DEF g
<1>6. \A i \in Iterator :
          /\ g.it[i].buff = it[i].buff /\ g.it[i].m_it = it[i].m_it
          /\ g.it[i].registry = IF it[i].registry \in {b, c} THEN Null ELSE it[i].registry
    BY <1>2, <1>4, <1>5, NullIsNoNode DEF Cleared
<1>7. ASSUME NEW i \in Iterator PROVE Followed(g, i)
    <2>1. /\ Stands(i) /\ denotes[i] \in Int /\ it[i].registry \in Buffer \cup {Null}
          /\ it[i].registry # Null => it[i].registry = it[i].buff
        BY MemberTypes
    <2>2. Gone \in Int
        BY DEF Gone
    <2>3. CASE it[i].registry = Null
        BY <1>1, <1>6, <2>1, <2>2, <2>3 DEF Followed, Stands
    <2>4. CASE it[i].registry \in {b, c}
        BY <1>1, <1>6, <2>1, <2>2, <2>4, NullIsNoNode DEF Followed
    <2>5. CASE it[i].registry \notin {b, c, Null}
        <3>1. denotes[i] # Gone /\ Denotes(ring[it[i].buff], it[i].m_it, denotes[i]) /\ it[i].registry \in live
            BY <2>1, <2>5 DEF Stands
        <3>2. denotes'[i] = denotes[i] /\ ring'[it[i].buff] = ring[it[i].buff]
            BY <1>1, <1>3, <2>1, <2>5
        <3> QED
            BY <1>1, <1>6, <2>1, <2>5, <3>1, <3>2 DEF Followed
    <2> QED
        BY <2>3, <2>4, <2>5
<1>8. Exact(g)
    BY <1>5 DEF Cleared
<1> QED
    BY <1>1, <1>2, <1>3, <1>7, <1>8, Following

LEMMA NewStep ==
    ASSUME Inv, NEW b \in Buffer, NEW cap \in Nat, NEW size \in Nat, New(b, cap, size)
    PROVE  Inv'
<1> DEFINE g == [head |-> [head EXCEPT ![b] = Null], it |-> it]
           q == [cap |-> cap, first |-> 0, size |-> size]
<1>1. /\ Adopt(g) /\ ring' = [ring EXCEPT ![b] = q] /\ live' = live \cup {b} /\ UNCHANGED denotes
      /\ size <= cap /\ b \notin live
    BY DEF New, Made, Adopt
<1>2. /\ Exact(Heap) /\ Heap.it = it /\ Heap.head = head /\ ring \in [Buffer -> Rings]
      /\ live \subseteq Buffer \cup Iterator /\ denotes \in [Iterator -> Int]
    BY HeapIs DEF Inv
<1>3. q \in Rings
    BY <1>1 DEF Rings, Pointers, Slots
<1>4. ring' \in [Buffer -> Rings] /\ \A d \in Buffer : d # b => ring'[d] = ring[d]
    BY <1>1, <1>2, <1>3
<1>5. g \in Heaps /\ g.it = it /\ g.head[b] = Null /\ \A c \in Buffer : c # b => g.head[c] = head[c]
    BY <1>2 DEF Exact, Heaps
<1> HIDE DEF g, q
<1>6. \A i \in Iterator : it[i].registry # b
    BY <1>1, NullIsNoNode, MemberTypes DEF Stands
<1>7. ASSUME NEW c \in Buffer
      PROVE  \E D : Linked(g, c, D) /\ Rng(D) = {i \in Iterator : g.it[i].registry = c}
    <2>1. CASE c = b
        <3>1. {i \in Iterator : g.it[i].registry = b} = {}
            BY <1>5, <1>6
        <3>2. Linked(g, b, <<>>) /\ Rng(<<>>) = {}
            BY <1>5, EmptyChain
        <3> QED
            BY <2>1, <3>1, <3>2
    <2>2. CASE c # b
        <3>1. PICK D : Linked(Heap, c, D) /\ Rng(D) = {i \in Iterator : Heap.it[i].registry = c}
            BY <1>2 DEF Exact, Chained
        <3>2. Linked(g, c, D)
            BY <1>2, <1>5, <2>2, <3>1, LinkedStays
        <3> QED
            BY <1>2, <1>5, <3>1, <3>2
    <2> QED
        BY <2>1, <2>2
<1>8. Exact(g)
    BY <1>5, <1>7 DEF Exact, Chained
<1>9. ASSUME NEW i \in Iterator PROVE Followed(g, i)
    <2>1. /\ Stands(i) /\ denotes[i] \in Int /\ it[i].registry \in Buffer \cup {Null}
          /\ it[i].registry # Null => it[i].registry = it[i].buff
        BY MemberTypes
    <2>2. CASE it[i].registry = Null
        BY <1>1, <1>5, <2>1, <2>2 DEF Followed, Stands
    <2>3. CASE it[i].registry # Null
        <3>1. ring'[it[i].buff] = ring[it[i].buff]
            BY <1>4, <1>6, <2>1, <2>3
        <3> QED
            BY <1>1, <1>5, <2>1, <2>3, <3>1 DEF Followed, Stands
    <2> QED
        BY <2>2, <2>3
<1>10. /\ denotes' = [i \in Iterator |-> denotes'[i]] /\ live' \subseteq Buffer \cup Iterator
       /\ \A i \in Iterator : i \in live => i \in live'
    BY <1>1, <1>2
<1> QED
    BY <1>1, <1>4, <1>8, <1>9, <1>10, Following

LEMMA DeleteStep ==
    ASSUME Inv, NEW b \in Buffer, Delete(b)
    PROVE  Inv'
<1> DEFINE r == ring[b]
           slots == Elements(r, 1, r.size)
           f == Touch(Heap, b, slots)
           g == invalidate_all_iterators(f, b)
           S == {i \in Iterator : Heap.it[i].m_it \in slots}
<1>1. /\ Adopt(g) /\ ring' = [ring EXCEPT ![b] = NoRing] /\ live' = live \ {b}
      /\ \A i \in Iterator : denotes'[i] = IF it[i].buff \in {b} THEN Gone ELSE denotes[i]
      /\ denotes' = [i \in Iterator |-> denotes'[i]]
    BY DEF Delete, ForgetAll
<1>2. Exact(Heap) /\ Heap.it = it /\ ring \in [Buffer -> Rings] /\ live \subseteq Buffer \cup Iterator
    BY HeapIs DEF Inv
<1>3. ring' \in [Buffer -> Rings] /\ \A d \in Buffer : d # b => ring'[d] = ring[d]
    <2>1. NoRing \in Rings
        BY DEF NoRing, Rings, Pointers
    <2> QED
        BY <1>1, <1>2, <2>1
<1>4. r \in Rings /\ r.cap \in Nat /\ r.size \in Nat /\ r.size <= r.size
    BY <1>2 DEF Rings
<1>5. slots \subseteq Slots(r.cap)
    BY <1>4, ElementsAre
<1> HIDE DEF slots
<1>6. slots \subseteq 0 .. r.cap - 1
    BY <1>5 DEF Slots
<1>7. Cleared(Heap, f, b, S)
    BY <1>2, <1>4, <1>6, TouchEffect
<1> HIDE DEF f, S
<1>8. Cleared(f, g, b, Iterator)
    BY <1>7, InvalidateAllEffect DEF Cleared
<1> HIDE DEF g
<1>9. Cleared(Heap, g, b, S \cup Iterator)
    BY <1>7, <1>8, ClearedTwice
<1>10. ASSUME NEW i \in Iterator PROVE Followed(g, i)
    <2>1. /\ it[i].registry = b => it[i].buff = b
          /\ it[i].registry # b /\ it[i].buff = b => denotes[i] = Gone
          /\ it[i].registry # Null => it[i].registry \in live
        BY Registered
    <2>2. it[i].registry # b => denotes'[i] = denotes[i]
        BY <1>1, <2>1
    <2>3. it[i].registry = b => i \in S \cup Iterator /\ denotes'[i] = Gone
        BY <1>1, <2>1
    <2> QED
        BY <1>1, <1>3, <1>9, <2>1, <2>2, <2>3, FollowedWhenCleared
<1>11. Exact(g)
    BY <1>9 DEF Cleared
<1>12. live' \subseteq Buffer \cup Iterator /\ \A i \in Iterator : i \in live => i \in live'
    BY <1>1, <1>2, DebugAssumption
<1> QED
    BY <1>1, <1>3, <1>10, <1>11, <1>12, Following

LEMMA InitInv == Init => Inv
<1> SUFFICES ASSUME Init PROVE Inv
    OBVIOUS
<1>1. Heap.it = it /\ Heap.head = head /\ NoIterator \in Members
    BY HeapIs, NoIteratorIsMembers
<1>2. Heap \in Heaps
    BY <1>1 DEF Init, Heap, Heaps, Node
<1>3. ASSUME NEW c \in Buffer
      PROVE  \E D : Linked(Heap, c, D) /\ Rng(D) = {i \in Iterator : Heap.it[i].registry = c}
    <2>1. {i \in Iterator : Heap.it[i].registry = c} = {}
        BY <1>1, NullIsNoNode DEF Init, NoIterator
    <2>2. Heap.head[c] = Null
        BY <1>1 DEF Init
    <2> QED
        BY <2>1, <2>2, EmptyChain
<1>4. NoRing \in Rings /\ Gone \in Int
    BY DEF NoRing, Rings, Pointers, Gone
<1>5. \A i \in Iterator : Stands(i)
    BY DEF Init, Stands, NoIterator
<1> QED
    BY <1>2, <1>3, <1>4, <1>5 DEF Init, Inv, Exact, Chained


---------------------------------------------------------------------------
(* What the documented operations make of the sequence of the positions.   *)

Positions(n) == [k \in 1 .. n |-> k]

LEMMA PositionsAre ==
    ASSUME NEW n \in Nat
    PROVE  /\ Positions(n) \in Seq(Nat) /\ Len(Positions(n)) = n
           /\ \A k \in 1 .. n : Positions(n)[k] = k
<1>1. Positions(n) \in [1 .. n -> Nat] /\ \A k \in 1 .. n : Positions(n)[k] = k
    BY DEF Positions
<1> QED
    BY <1>1, FunctionIsSeq

LEMMA CopiesAre ==
    ASSUME NEW m \in Nat
    PROVE  /\ Copies(m, 0) \in Seq(Nat) /\ Len(Copies(m, 0)) = m
           /\ \A k \in 1 .. m : Copies(m, 0)[k] = 0
<1>1. Copies(m, 0) \in [1 .. m -> Nat] /\ \A k \in 1 .. m : Copies(m, 0)[k] = 0
    BY DEF Copies
<1> QED
    BY <1>1, FunctionIsSeq

\* The positions in front of i, and those from i on.
LEMMA PartsAre ==
    ASSUME NEW n \in Nat, NEW i \in 1 .. n + 1
    PROVE  /\ SubSeq(Positions(n), 1, i - 1) \in Seq(Nat)
           /\ Len(SubSeq(Positions(n), 1, i - 1)) = i - 1
           /\ \A k \in 1 .. i - 1 : SubSeq(Positions(n), 1, i - 1)[k] = k
           /\ SubSeq(Positions(n), i, n) \in Seq(Nat)
           /\ Len(SubSeq(Positions(n), i, n)) = n - i + 1
           /\ \A k \in 1 .. n - i + 1 : SubSeq(Positions(n), i, n)[k] = i + k - 1
<1> DEFINE s == Positions(n)
           p == SubSeq(s, 1, i - 1)
           q == SubSeq(s, i, n)
<1>1. \A k \in 1 .. n : s[k] = k
    BY PositionsAre
<1>2. PICK j \in Nat : j = i - 1 /\ j <= n
    OBVIOUS
<1> HIDE DEF s
<1>3. /\ SubSeq(s, 1, j) \in Seq(Nat) /\ Len(SubSeq(s, 1, j)) = IF 1 <= j THEN j - 1 + 1 ELSE 0
      /\ \A k \in 1 .. j - 1 + 1 : SubSeq(s, 1, j)[k] = s[1 + k - 1]
    <2>1. 1 \in Int /\ j \in Int /\ \A k \in 1 .. j : s[k] \in Nat
        BY <1>1, <1>2
    <2> QED
        BY <2>1, SubSeqProperties
<1>4. p \in Seq(Nat) /\ Len(p) = i - 1 /\ \A k \in 1 .. i - 1 : p[k] = k
    <2>1. \A k \in 1 .. j : k \in 1 .. j - 1 + 1 /\ 1 + k - 1 = k /\ k \in 1 .. n
        BY <1>2
    <2>2. Len(SubSeq(s, 1, j)) = j
        BY <1>3
    <2>3. \A k \in 1 .. j : SubSeq(s, 1, j)[k] = k
        BY <1>1, <1>3, <2>1
    <2> QED
        BY <1>2, <1>3, <2>2, <2>3
<1>5. /\ q \in Seq(Nat) /\ Len(q) = IF i <= n THEN n - i + 1 ELSE 0
      /\ \A k \in 1 .. n - i + 1 : q[k] = s[i + k - 1]
    <2>1. i \in Int /\ n \in Int /\ \A k \in i .. n : s[k] \in Nat
        BY <1>1
    <2> QED
        BY <2>1, SubSeqProperties
<1>6. Len(q) = n - i + 1
    BY <1>5
<1>7. \A k \in 1 .. n - i + 1 : i + k - 1 \in 1 .. n
    OBVIOUS
<1>8. \A k \in 1 .. n - i + 1 : q[k] = i + k - 1
    BY <1>1, <1>5, <1>7
<1> QED
    BY <1>4, <1>5, <1>6, <1>8 DEF s

\* Items, all of them 0, in front of position i.
LEMMA InsertionIs ==
    ASSUME NEW n \in Nat, NEW i \in 1 .. n + 1, NEW z \in Seq(Nat), \A k \in 1 .. Len(z) : z[k] = 0
    PROVE  LET u == SubSeq(Positions(n), 1, i - 1) \o z \o SubSeq(Positions(n), i, n) IN
           /\ u \in Seq(Nat) /\ Len(u) = n + Len(z)
           /\ \A k \in 1 .. n + Len(z) :
                 u[k] = IF k < i THEN k ELSE IF k < i + Len(z) THEN 0 ELSE k - Len(z)
<1> DEFINE a == SubSeq(Positions(n), 1, i - 1)
           b == SubSeq(Positions(n), i, n)
           u == a \o z \o b
<1>1. i \in Nat /\ i - 1 \in Nat /\ 1 <= i /\ i - 1 <= n /\ i <= n + 1
    OBVIOUS
<1>2. a \in Seq(Nat) /\ Len(a) = i - 1 /\ \A k \in 1 .. i - 1 : a[k] = k
    BY PartsAre
<1>3. b \in Seq(Nat) /\ Len(b) = n - i + 1 /\ \A k \in 1 .. n - i + 1 : b[k] = i + k - 1
    BY PartsAre
<1> HIDE DEF a, b
<1>4. Len(a) = i - 1 /\ \A k \in 1 .. i - 1 : a[k] = k
    BY <1>2
<1>5. PICK m \in Nat : m = Len(z)
    OBVIOUS
<1> DEFINE x == a \o z
<1>6. /\ x \in Seq(Nat) /\ Len(x) = i - 1 + m
      /\ \A k \in 1 .. i - 1 + m : x[k] = IF k <= i - 1 THEN a[k] ELSE z[k - (i - 1)]
    BY <1>2, <1>4, <1>5, ConcatProperties
<1>7. u = x \o b
    OBVIOUS
<1> HIDE DEF x, u
<1>8. /\ u \in Seq(Nat) /\ Len(u) = (i - 1 + m) + (n - i + 1)
      /\ \A k \in 1 .. (i - 1 + m) + (n - i + 1) :
            u[k] = IF k <= i - 1 + m THEN x[k] ELSE b[k - (i - 1 + m)]
    <2>1. /\ u \in Seq(Nat) /\ Len(u) = Len(x) + Len(b)
          /\ \A k \in 1 .. Len(x) + Len(b) : u[k] = IF k <= Len(x) THEN x[k] ELSE b[k - Len(x)]
        <3>1. x \in Seq(Nat) /\ b \in Seq(Nat)
            BY <1>3, <1>6
        <3> QED
            BY <1>7, <3>1, ConcatProperties
    <2>2. Len(x) = i - 1 + m /\ Len(b) = n - i + 1
        BY <1>3, <1>6
    <2> QED
        BY <2>1, <2>2
<1>9. (i - 1 + m) + (n - i + 1) = n + m
    OBVIOUS
<1>10. ASSUME NEW k \in 1 .. n + m
      PROVE  u[k] = IF k < i THEN k ELSE IF k < i + m THEN 0 ELSE k - m
    <2>1. u[k] = IF k <= i - 1 + m THEN x[k] ELSE b[k - (i - 1 + m)]
        BY <1>8, <1>9
    <2>2. CASE k < i
        <3>1. k \in 1 .. i - 1 /\ k <= i - 1 + m /\ k \in 1 .. i - 1 + m /\ k <= i - 1
            BY <2>2
        <3> QED
            BY <1>4, <1>6, <2>1, <2>2, <3>1
    <2>3. CASE ~(k < i) /\ k < i + m
        <3>1. k <= i - 1 + m /\ k \in 1 .. i - 1 + m /\ ~(k <= i - 1) /\ k - (i - 1) \in 1 .. m
            BY <2>3
        <3> QED
            BY <1>5, <1>6, <2>1, <2>3, <3>1
    <2>4. CASE ~(k < i) /\ ~(k < i + m)
        <3>1. ~(k <= i - 1 + m) /\ k - (i - 1 + m) \in 1 .. n - i + 1
            BY <2>4
        <3>2. i + (k - (i - 1 + m)) - 1 = k - m
            OBVIOUS
        <3> QED
            BY <1>3, <2>1, <2>4, <3>1, <3>2
    <2> QED
        BY <2>2, <2>3, <2>4
<1>11. u \in Seq(Nat) /\ Len(u) = n + m
    BY <1>8, <1>9
<1> QED
    BY <1>5, <1>10, <1>11 DEF u, x, a, b

\* The positions from i on, up to j, removed.
LEMMA RemovalIs ==
    ASSUME NEW n \in Nat, NEW i \in Nat, NEW j \in Nat, 1 <= i, i <= j, j <= n + 1
    PROVE  LET w == Without(Positions(n), i, j) IN
           /\ w \in Seq(Nat) /\ Len(w) = n - (j - i)
           /\ \A k \in 1 .. n - (j - i) : w[k] = IF k < i THEN k ELSE k + (j - i)
<1> DEFINE a == SubSeq(Positions(n), 1, i - 1)
           b == SubSeq(Positions(n), j, n)
           w == a \o b
<1>1. i - 1 \in Nat /\ i \in 1 .. n + 1 /\ j \in 1 .. n + 1
    OBVIOUS
<1>2. a \in Seq(Nat) /\ Len(a) = i - 1 /\ \A k \in 1 .. i - 1 : a[k] = k
    BY <1>1, PartsAre
<1>3. b \in Seq(Nat) /\ Len(b) = n - j + 1 /\ \A k \in 1 .. n - j + 1 : b[k] = j + k - 1
    BY <1>1, PartsAre
<1>4. Without(Positions(n), i, j) = w
    BY PositionsAre DEF Without
<1> HIDE DEF a, b
<1>5. Len(a) = i - 1 /\ \A k \in 1 .. i - 1 : a[k] = k
    BY <1>2
<1>6. /\ w \in Seq(Nat) /\ Len(w) = (i - 1) + (n - j + 1)
      /\ \A k \in 1 .. (i - 1) + (n - j + 1) : w[k] = IF k <= i - 1 THEN a[k] ELSE b[k - (i - 1)]
    <2>1. /\ w \in Seq(Nat) /\ Len(w) = Len(a) + Len(b)
          /\ \A k \in 1 .. Len(a) + Len(b) : w[k] = IF k <= Len(a) THEN a[k] ELSE b[k - Len(a)]
        <3>1. a \in Seq(Nat) /\ b \in Seq(Nat)
            BY <1>2, <1>3
        <3> QED
            BY <3>1, ConcatProperties
    <2>2. Len(a) = i - 1 /\ Len(b) = n - j + 1
        BY <1>3, <1>5
    <2> QED
        BY <2>1, <2>2
<1>7. (i - 1) + (n - j + 1) = n - (j - i)
    OBVIOUS
<1> HIDE DEF w
<1>8. ASSUME NEW k \in 1 .. n - (j - i)
      PROVE  w[k] = IF k < i THEN k ELSE k + (j - i)
    <2>1. w[k] = IF k <= i - 1 THEN a[k] ELSE b[k - (i - 1)]
        BY <1>6, <1>7
    <2>2. CASE k < i
        <3>1. k \in 1 .. i - 1 /\ k <= i - 1
            BY <2>2
        <3> QED
            BY <1>5, <2>1, <2>2, <3>1
    <2>3. CASE ~(k < i)
        <3>1. ~(k <= i - 1) /\ k - (i - 1) \in 1 .. n - j + 1 /\ j + (k - (i - 1)) - 1 = k + (j - i)
            BY <2>3
        <3> QED
            BY <1>3, <2>1, <2>3, <3>1
    <2> QED
        BY <2>2, <2>3
<1> QED
    BY <1>4, <1>6, <1>7, <1>8

\* As many as there is capacity for, from the front or from the back.
LEMMA CutIs ==
    ASSUME NEW u \in Seq(Nat), NEW c \in Nat
    PROVE  LET m == Lesser(c, Len(u)) IN
           /\ m \in Nat /\ Len(u) \in Nat
           /\ Len(FirstOf(u, c)) = m /\ \A k \in 1 .. m : FirstOf(u, c)[k] = u[k]
           /\ Len(LastOf(u, c)) = m /\ \A k \in 1 .. m : LastOf(u, c)[k] = u[k + (Len(u) - m)]
<1> DEFINE l == Len(u)
           m == Lesser(c, l)
<1>1. l \in Nat /\ \A k \in 1 .. l : u[k] \in Nat
    OBVIOUS
<1>2. m \in Nat /\ m <= l
    BY <1>1 DEF Lesser
<1>3. FirstOf(u, c) = SubSeq(u, 1, m) /\ LastOf(u, c) = SubSeq(u, l - m + 1, l)
    BY DEF FirstOf, LastOf
<1> HIDE DEF l, m
<1>4. /\ Len(SubSeq(u, 1, m)) = IF 1 <= m THEN m - 1 + 1 ELSE 0
      /\ \A k \in 1 .. m - 1 + 1 : SubSeq(u, 1, m)[k] = u[1 + k - 1]
    <2>1. 1 \in Int /\ m \in Int /\ \A k \in 1 .. m : u[k] \in Nat
        BY <1>1, <1>2
    <2> QED
        BY <2>1, SubSeqProperties
<1> DEFINE o == l - m + 1
<1>5. /\ Len(SubSeq(u, o, l)) = IF o <= l THEN l - o + 1 ELSE 0
      /\ \A k \in 1 .. l - o + 1 : SubSeq(u, o, l)[k] = u[o + k - 1]
    <2>1. o \in Int /\ l \in Int /\ \A k \in o .. l : u[k] \in Nat
        BY <1>1, <1>2
    <2> HIDE DEF o
    <2> QED
        BY <2>1, SubSeqProperties
<1>6. l - o + 1 = m /\ (o <= l <=> 1 <= m) /\ m - 1 + 1 = m
    BY <1>1, <1>2
<1>7. Len(SubSeq(u, 1, m)) = m /\ \A k \in 1 .. m : SubSeq(u, 1, m)[k] = u[k]
    BY <1>2, <1>4
<1>8. \A k \in 1 .. m : o + k - 1 = k + (l - m)
    BY <1>1, <1>2
<1> HIDE DEF o
<1> DEFINE v == SubSeq(u, o, l)
<1> HIDE DEF v
<1>9. Len(v) = m /\ \A k \in 1 .. m : v[k] = u[k + (l - m)]
    <2>1. Len(v) = m
        BY <1>2, <1>5, <1>6 DEF v
    <2>2. \A k \in 1 .. m : v[k] = u[o + k - 1]
        BY <1>5, <1>6 DEF v
    <2> QED
        BY <1>8, <2>1, <2>2
<1> QED
    BY <1>1, <1>2, <1>3, <1>7, <1>9 DEF l, m, o, v


---------------------------------------------------------------------------
(* An operation keeps the elements it does not touch where they are, and   *)
(* their positions all shift by the same distance.                         *)

\* m_first after d elements were added in front of the first one (d < 0: removed).
Turned(r, d) == IF d < 0 THEN Add(r.first, -d, r.cap) ELSE Sub(r.first, d, r.cap)

\* q is the buffer r with its first element d slots further back, and z elements.
Turns(r, q, d, z) ==
    /\ q \in [cap : Int, first : Int, size : Int]
    /\ q.cap = r.cap /\ q.first = Turned(r, d) /\ q.size = z
    /\ d \in -r.cap .. r.cap /\ z \in 0 .. r.cap

LEMMA RingIs ==
    ASSUME NEW r \in Rings
    PROVE  \E c \in Nat, f \in Nat, n \in Nat :
              r.cap = c /\ r.first = f /\ r.size = n /\ n <= c /\ f \in Pointers(c) /\ (c > 0 => f \in Slots(c))
BY DEF Rings, Pointers

LEMMA TurnsInRings ==
    ASSUME NEW r \in Rings, NEW q, NEW d, NEW z, Turns(r, q, d, z)
    PROVE  q \in Rings
<1>1. PICK c \in Nat, f \in Nat, n \in Nat : r.cap = c /\ r.first = f /\ f \in Pointers(c) /\ (c > 0 => f \in Slots(c))
    BY RingIs
<1>2. d \in -c .. c /\ z \in 0 .. c /\ q.cap = c /\ q.size = z /\ q.first = IF d < 0 THEN Add(f, -d, c) ELSE Sub(f, d, c)
    BY <1>1 DEF Turns, Turned
<1>3. CASE c = 0
    <2>1. f = 0 /\ d = 0 /\ q.first = 0
        BY <1>1, <1>2, <1>3 DEF Pointers, Sub
    <2> QED
        BY <1>2, <1>3, <2>1 DEF Turns, Rings, Pointers
<1>4. CASE c # 0
    <2>1. q.first \in Slots(c)
        BY <1>1, <1>2, <1>4 DEF Add, Sub, Slots
    <2> QED
        BY <1>2, <1>4, <2>1 DEF Turns, Rings, Pointers, Slots
<1> QED
    BY <1>3, <1>4

LEMMA MovesShifted ==
    ASSUME NEW r \in Rings, NEW c, NEW slots, slots \subseteq Slots(r.cap), NEW q, NEW d \in Int, NEW z \in Int,
           Turns(r, q, d, z), NEW after, after = After(c, Positions(r.size), r.cap)[1],
           NEW gone, gone = Invalidated(c, r.size, r.cap),
           \A k \in 1 .. r.size : Slot(r, k) \in slots <=> k \in gone,
           \A k \in 1 .. r.size : k \notin gone =>
              /\ k + d \in 1 .. Len(after) /\ after[k + d] = k /\ k + d \in 1 .. z
              /\ \A m \in 1 .. Len(after) : after[m] = k => m = k + d
    PROVE  Moves(r, c, slots, q)
<1>1. q \in Rings
    BY TurnsInRings
<1>2. PICK p \in Nat, f \in Nat, n \in Nat : r.cap = p /\ r.first = f /\ r.size = n /\ n <= p /\ (p > 0 => f \in Slots(p))
    BY RingIs
<1>3. /\ d \in -p .. p /\ z \in 0 .. p /\ q.cap = p /\ q.size = z
      /\ q.first = IF d < 0 THEN Add(f, -d, p) ELSE Sub(f, d, p)
    BY <1>2 DEF Turns, Turned
<1>4. ASSUME NEW k \in 1 .. n, k + d \in 1 .. z PROVE Slot(q, k + d) = Slot(r, k)
    <2>1. p > 0 /\ f \in Slots(p)
        BY <1>2
    <2>2. Add(q.first, k + d - 1, p) = Add(f, k - 1, p)
        BY <1>2, <1>3, <1>4, <2>1 DEF Add, Sub, Slots
    <2> QED
        BY <1>2, <1>3, <2>2 DEF Slot
<1>5. after = After(c, [k \in 1 .. r.size |-> k], r.cap)[1]
    BY DEF Positions
<1>6. ASSUME NEW k \in 1 .. r.size, k \notin gone
      PROVE  /\ \E m \in 1 .. Len(after) : after[m] = k
             /\ \A m \in 1 .. Len(after) : after[m] = k => m \in 1 .. q.size /\ Slot(q, m) = Slot(r, k)
    <2>1. /\ k + d \in 1 .. Len(after) /\ after[k + d] = k /\ k + d \in 1 .. z
          /\ \A m \in 1 .. Len(after) : after[m] = k => m = k + d
        BY <1>6
    <2>2. Slot(q, k + d) = Slot(r, k)
        BY <1>2, <1>4, <2>1
    <2> QED
        BY <1>3, <2>1, <2>2
<1> QED
    BY <1>1, <1>5, <1>6 DEF Moves

\* One slot of the buffer.
LEMMA OneSlot ==
    ASSUME NEW r \in Rings, NEW j \in 1 .. r.size
    PROVE  {Slot(r, j)} \subseteq Slots(r.cap) /\ \A k \in 1 .. r.size : Slot(r, k) \in {Slot(r, j)} <=> k = j
<1>1. j \in Int /\ j >= 1 /\ j <= r.size /\ Elements(r, j, j) = {Slot(r, j)}
    BY DEF Elements, Rings
<1>2. /\ Elements(r, j, j) \subseteq Slots(r.cap)
      /\ \A k \in 1 .. r.size : Slot(r, k) \in Elements(r, j, j) <=> k \in j .. j
    BY <1>1, ElementsAre
<1>3. \A k \in 1 .. r.size : k \in j .. j <=> k = j
    BY DEF Rings
<1> QED
    BY <1>1, <1>2, <1>3

\* The slots at the ends of a full buffer, which its pointers meet.
LEMMA EndSlots ==
    ASSUME NEW r \in Rings
    PROVE  /\ Full(r) /\ r.cap > 0 => m_last(r) = Slot(r, 1) /\ Decrement(r.first, r.cap) = Slot(r, r.size)
           /\ r.size > 0 => Decrement(m_last(r), r.cap) = Slot(r, r.size) /\ r.first = Slot(r, 1)
           /\ r.cap > 0 => Increment(r.first, r.cap) = Turned(r, -1) /\ Decrement(r.first, r.cap) = Turned(r, 1)
           /\ r.first = Turned(r, 0)
<1>1. PICK p \in Nat, f \in Nat, n \in Nat : r.cap = p /\ r.first = f /\ r.size = n /\ n <= p /\ (p > 0 => f \in Slots(p))
    BY RingIs
<1>2. /\ n = p /\ p > 0 => Add(f, n, p) = Add(f, 1 - 1, p) /\ Decrement(f, p) = Add(f, n - 1, p)
      /\ n > 0 => Decrement(Add(f, n, p), p) = Add(f, n - 1, p) /\ f = Add(f, 1 - 1, p)
      /\ p > 0 => Increment(f, p) = Add(f, 1, p) /\ Decrement(f, p) = Sub(f, 1, p)
      /\ f = Sub(f, 0, p)
    BY <1>1 DEF Add, Sub, Increment, Decrement, Slots
<1> QED
    BY <1>1, <1>2 DEF Full, m_last, Slot, Turned


\* An item appended to n positions, of which the last p stay.
LEMMA AppendedIs ==
    ASSUME NEW n \in Nat, NEW p \in Nat, n <= p
    PROVE  LET after == LastOf(Append(Positions(n), 0), p) IN
           /\ n = p => Len(after) = n /\ \A m \in 1 .. n : after[m] = IF m = n THEN 0 ELSE m + 1
           /\ n # p => Len(after) = n + 1 /\ \A m \in 1 .. n + 1 : after[m] = IF m = n + 1 THEN 0 ELSE m
<1> DEFINE s == Positions(n)
           u == Append(s, 0)
           after == LastOf(u, p)
<1>1. s \in Seq(Nat) /\ Len(s) = n /\ \A k \in 1 .. n : s[k] = k
    BY PositionsAre
<1> HIDE DEF s
<1>2. u \in Seq(Nat) /\ Len(u) = n + 1 /\ (\A k \in 1 .. n : u[k] = k) /\ u[n + 1] = 0
    BY <1>1, AppendProperties
<1>3. \A k \in 1 .. n + 1 : u[k] = IF k = n + 1 THEN 0 ELSE k
    BY <1>2
<1> DEFINE l == Len(u)
<1> HIDE DEF u
<1>4. /\ Len(after) = Lesser(p, l)
      /\ \A k \in 1 .. Lesser(p, l) : after[k] = u[k + (l - Lesser(p, l))]
    BY <1>2, CutIs
<1> HIDE DEF l, after
<1>5. l = n + 1
    BY <1>2 DEF l
<1>6. CASE n = p
    <2>1. Lesser(p, l) = n /\ l - n = 1
        BY <1>5, <1>6 DEF Lesser
    <2>2. \A m \in 1 .. n : after[m] = u[m + 1] /\ m + 1 \in 1 .. n + 1 /\ (m + 1 = n + 1 <=> m = n)
        BY <1>4, <2>1
    <2>3. \A m \in 1 .. n : after[m] = IF m = n THEN 0 ELSE m + 1
        BY <1>3, <2>2
    <2> QED
        BY <1>4, <1>6, <2>1, <2>3 DEF after, u, s
<1>7. CASE n # p
    <2>1. Lesser(p, l) = n + 1 /\ l - (n + 1) = 0
        BY <1>5, <1>7 DEF Lesser
    <2>2. \A m \in 1 .. n + 1 : after[m] = u[m]
        BY <1>4, <2>1
    <2>3. \A m \in 1 .. n + 1 : after[m] = IF m = n + 1 THEN 0 ELSE m
        BY <1>3, <2>2
    <2> QED
        BY <1>4, <1>7, <2>1, <2>3 DEF after, u, s
<1> QED
    BY <1>6, <1>7

LEMMA PushBackStep ==
    ASSUME Inv, NEW b \in Buffer, PushBack(b)
    PROVE  Inv'
<1> DEFINE r == ring[b]
           c == Op("push_back", 0, 0)
           slots == Overwritten(r)
           q == Appended(r)
           after == LastOf(Append(Positions(r.size), 0), r.cap)
           gone == IF r.size = r.cap THEN {1} \cap 1 .. r.size ELSE {}
           d == IF Full(r) THEN IF r.cap = 0 THEN 0 ELSE -1 ELSE 0
           z == IF Full(r) THEN r.size ELSE r.size + 1
<1>1. Call(b, c, slots, q) /\ r \in Rings
    BY DEF PushBack, Inv
<1>2. PICK p \in Nat, f \in Nat, n \in Nat : r.cap = p /\ r.first = f /\ r.size = n /\ n <= p /\ (p > 0 => f \in Slots(p))
    BY <1>1, RingIs
<1>3. after = After(c, Positions(r.size), r.cap)[1]
    BY DEF After, PushBackOutcome, Op
<1>4. gone = Invalidated(c, r.size, r.cap)
    BY DEF Invalidated, Op
<1>5. /\ n = p => Len(after) = n /\ \A m \in 1 .. n : after[m] = IF m = n THEN 0 ELSE m + 1
      /\ n # p => Len(after) = n + 1 /\ \A m \in 1 .. n + 1 : after[m] = IF m = n + 1 THEN 0 ELSE m
    BY <1>2, AppendedIs
<1> HIDE DEF after, r
<1>6. q \in [cap : Int, first : Int, size : Int] /\ q.cap = r.cap /\ q.first = Turned(r, d) /\ q.size = z
    <2>1. CASE p = 0
        BY <1>1, <1>2, <2>1, EndSlots DEF Appended, Full, Rings
    <2>2. CASE p # 0 /\ n = p
        <3>1. q = [r EXCEPT !.first = Increment(@, r.cap)] /\ d = -1 /\ z = n
            BY <1>2, <2>2 DEF Appended, Full
        <3>2. Increment(r.first, r.cap) = Turned(r, -1) /\ Increment(r.first, r.cap) \in Int
            BY <1>1, <1>2, <2>2, EndSlots DEF Increment
        <3> HIDE DEF q, d, z
        <3> QED
            BY <1>1, <1>2, <3>1, <3>2 DEF Rings
    <2>3. CASE n # p
        <3>1. q = [r EXCEPT !.size = @ + 1] /\ d = 0 /\ z = n + 1
            BY <1>2, <2>3 DEF Appended, Full
        <3>2. r.first = Turned(r, 0)
            BY <1>1, EndSlots
        <3> HIDE DEF q, d, z
        <3> QED
            BY <1>1, <1>2, <3>1, <3>2 DEF Rings
    <2> QED
        BY <2>1, <2>2, <2>3
<1>7. Turns(r, q, d, z)
    BY <1>2, <1>6 DEF Turns, Full
<1>8. slots \subseteq Slots(r.cap) /\ \A k \in 1 .. r.size : Slot(r, k) \in slots <=> k \in gone
    <2>1. CASE Full(r) /\ p > 0
        <3>1. slots = {Slot(r, 1)} /\ 1 \in 1 .. r.size
            BY <1>1, <1>2, <2>1, EndSlots DEF Overwritten, Full
        <3>2. gone = {1}
            BY <1>2, <2>1 DEF Full
        <3> QED
            BY <1>1, <3>1, <3>2, OneSlot
    <2>2. CASE ~(Full(r) /\ p > 0)
        <3>1. slots = {} /\ gone = {}
            BY <1>2, <2>2 DEF Overwritten, Full
        <3> QED
            BY <3>1
    <2> QED
        BY <2>1, <2>2
<1>9. ASSUME NEW k \in 1 .. r.size, k \notin gone
      PROVE  /\ k + d \in 1 .. Len(after) /\ after[k + d] = k /\ k + d \in 1 .. z
             /\ \A m \in 1 .. Len(after) : after[m] = k => m = k + d
    <2>1. CASE n = p
        <3>1. d = -1 /\ z = n /\ k \in 2 .. n
            BY <1>2, <1>9, <2>1 DEF Full
        <3>2. Len(after) = n
            BY <1>5, <2>1
        <3>3. \A m \in 1 .. n : after[m] = IF m = n THEN 0 ELSE m + 1
            BY <1>5, <2>1
        <3>4. k - 1 \in 1 .. n /\ k - 1 # n /\ k - 1 + 1 = k /\ k + (-1) = k - 1
            BY <3>1
        <3>5. after[k - 1] = k
            BY <3>3, <3>4
        <3>6. \A m \in 1 .. n : after[m] = k => m = k - 1
            BY <3>1, <3>3
        <3> HIDE DEF d, z, gone
        <3> QED
            BY <3>1, <3>2, <3>4, <3>5, <3>6
    <2>2. CASE n # p
        <3>1. d = 0 /\ z = n + 1 /\ k \in 1 .. n
            BY <1>2, <1>9, <2>2 DEF Full
        <3>2. Len(after) = n + 1
            BY <1>5, <2>2
        <3>3. \A m \in 1 .. n + 1 : after[m] = IF m = n + 1 THEN 0 ELSE m
            BY <1>5, <2>2
        <3>4. k \in 1 .. n + 1 /\ k # n + 1 /\ k # 0 /\ k + 0 = k
            BY <3>1
        <3>5. after[k] = k /\ \A m \in 1 .. n + 1 : after[m] = k => m = k
            BY <3>3, <3>4
        <3> HIDE DEF d, z, gone
        <3> QED
            BY <3>1, <3>2, <3>4, <3>5
    <2> QED
        BY <2>1, <2>2
<1>10. d \in Int /\ z \in Int
    BY <1>2
<1> HIDE DEF d, z, gone, slots, q, c
<1>11. Moves(r, c, slots, q)
    BY <1>1, <1>3, <1>4, <1>7, <1>8, <1>9, <1>10, MovesShifted
<1> QED
    BY <1>1, <1>11, CallStep DEF r

\* The elements at the positions from lo to hi are in after, each once, d further on.
Keeps(after, lo, hi, d) ==
    /\ Len(after) \in Nat
    /\ \A k \in lo .. hi : /\ k + d \in 1 .. Len(after)
                           /\ \A m \in 1 .. Len(after) : after[m] = k <=> m = k + d

LEMMA KeepsMoves ==
    ASSUME NEW r \in Rings, NEW c, NEW slots, slots \subseteq Slots(r.cap), NEW q,
           NEW after, after = After(c, Positions(r.size), r.cap)[1],
           NEW gone, gone = Invalidated(c, r.size, r.cap),
           NEW lo \in Int, NEW hi \in Int, NEW d \in Int,
           Keeps(after, lo, hi, d), Turns(r, q, d, Len(after)),
           \A k \in 1 .. r.size : k \in gone <=> k \notin lo .. hi,
           \A k \in 1 .. r.size : Slot(r, k) \in slots <=> k \notin lo .. hi
    PROVE  Moves(r, c, slots, q)
<1>1. PICK z \in Nat : z = Len(after)
    BY DEF Keeps
<1>2. ASSUME NEW k \in 1 .. r.size, k \notin gone
      PROVE  /\ k + d \in 1 .. Len(after) /\ after[k + d] = k /\ k + d \in 1 .. z
             /\ \A m \in 1 .. Len(after) : after[m] = k => m = k + d
    <2>1. k \in lo .. hi
        BY <1>2
    <2>2. k + d \in 1 .. Len(after) /\ \A m \in 1 .. Len(after) : after[m] = k <=> m = k + d
        BY <2>1 DEF Keeps
    <2> QED
        BY <1>1, <2>2
<1>3. \A k \in 1 .. r.size : Slot(r, k) \in slots <=> k \in gone
    OBVIOUS
<1>4. Turns(r, q, d, z)
    BY <1>1
<1> QED
    BY <1>2, <1>3, <1>4, MovesShifted

\* What an operation has to do for Inv to hold after it: what it assigns to and
\* destroys are the slots of all positions but lo to hi, which are the ones it is
\* documented to leave valid and which stay where they are.
LEMMA OpStep ==
    ASSUME Inv, NEW b \in Buffer, NEW c, NEW slots, NEW q, Call(b, c, slots, q),
           NEW r, r = ring[b], NEW after, after = After(c, Positions(r.size), r.cap)[1],
           NEW gone, gone = Invalidated(c, r.size, r.cap),
           NEW lo \in Int, NEW hi \in Int, NEW d \in Int,
           Keeps(after, lo, hi, d), Turns(r, q, d, Len(after)), slots \subseteq Slots(r.cap),
           \A k \in 1 .. r.size : k \in gone <=> k \notin lo .. hi,
           \A k \in 1 .. r.size : Slot(r, k) \in slots <=> k \notin lo .. hi
    PROVE  Inv'
<1>1. r \in Rings
    BY DEF Inv
<1>2. Moves(r, c, slots, q)
    BY <1>1, KeepsMoves
<1> QED
    BY <1>2, CallStep

\* How the elements kept shift when the back is cut off, and when the front is.
LEMMA FirstKeeps ==
    ASSUME NEW u \in Seq(Nat), NEW c \in Nat, NEW lo \in Int, NEW hi \in Int, NEW d \in Int,
           NEW m, m = Lesser(c, Len(u)), Keeps(u, lo, hi, d), hi + d <= m
    PROVE  Len(FirstOf(u, c)) = m /\ Keeps(FirstOf(u, c), lo, hi, d)
<1> DEFINE x == FirstOf(u, c)
           l == Len(u)
<1>1. m \in Nat /\ l \in Nat /\ m <= l /\ Len(x) = m /\ \A k \in 1 .. m : x[k] = u[k]
    <2>1. m \in Nat /\ l \in Nat /\ Len(x) = m /\ \A k \in 1 .. m : x[k] = u[k]
        BY CutIs
    <2> HIDE DEF x
    <2> QED
        BY <2>1 DEF Lesser
<1>2. \A k \in lo .. hi : k + d \in 1 .. l /\ \A j \in 1 .. l : u[j] = k <=> j = k + d
    BY DEF Keeps
<1>3. hi + d <= m
    OBVIOUS
<1> HIDE DEF x, l
<1>4. ASSUME NEW k \in lo .. hi
      PROVE  k + d \in 1 .. m /\ \A j \in 1 .. m : x[j] = k <=> j = k + d
    <2>1. k + d \in 1 .. l /\ \A j \in 1 .. l : u[j] = k <=> j = k + d
        BY <1>2
    <2>2. k + d \in 1 .. m
        BY <1>1, <1>3, <2>1
    <2>3. \A j \in 1 .. m : j \in 1 .. l
        BY <1>1
    <2> QED
        BY <1>1, <2>1, <2>2, <2>3
<1>5. Keeps(x, lo, hi, d)
    BY <1>1, <1>4 DEF Keeps
<1> QED
    BY <1>1, <1>5 DEF x

LEMMA SuffixKeeps ==
    ASSUME NEW u, NEW y, NEW l \in Nat, NEW m \in Nat, m <= l, l = Len(u), Len(y) = m,
           \A k \in 1 .. m : y[k] = u[k + (l - m)],
           NEW lo \in Int, NEW hi \in Int, NEW d \in Int, Keeps(u, lo, hi, d), lo + d > l - m
    PROVE  Keeps(y, lo, hi, d - (l - m))
<1>1. \A k \in lo .. hi : k + d \in 1 .. l /\ \A j \in 1 .. l : u[j] = k <=> j = k + d
    BY DEF Keeps
<1>2. ASSUME NEW k \in lo .. hi
      PROVE  k + (d - (l - m)) \in 1 .. m /\ \A j \in 1 .. m : y[j] = k <=> j = k + (d - (l - m))
    <2>1. k + d \in 1 .. l /\ k \in Int /\ k >= lo
        BY <1>1
    <2>2. k + (d - (l - m)) \in 1 .. m
        BY <2>1
    <2>3. \A j \in 1 .. m : j + (l - m) \in 1 .. l /\ (j + (l - m) = k + d <=> j = k + (d - (l - m)))
        BY <2>1
    <2>4. \A j \in 1 .. m : u[j + (l - m)] = k <=> j + (l - m) = k + d
        BY <1>1, <2>3
    <2> QED
        BY <2>2, <2>3, <2>4
<1> QED
    BY <1>2 DEF Keeps

LEMMA LastKeeps ==
    ASSUME NEW u \in Seq(Nat), NEW c \in Nat, NEW lo \in Int, NEW hi \in Int, NEW d \in Int,
           Keeps(u, lo, hi, d), lo + d > Len(u) - Lesser(c, Len(u))
    PROVE  /\ Len(LastOf(u, c)) = Lesser(c, Len(u))
           /\ Keeps(LastOf(u, c), lo, hi, d - (Len(u) - Lesser(c, Len(u))))
<1> DEFINE y == LastOf(u, c)
           l == Len(u)
           m == Lesser(c, l)
<1>1. m \in Nat /\ l \in Nat /\ Len(y) = m /\ \A k \in 1 .. m : y[k] = u[k + (l - m)]
    BY CutIs
<1>2. m <= l
    BY <1>1 DEF Lesser
<1>3. lo + d > l - m /\ l = Len(u)
    OBVIOUS
<1> HIDE DEF y, l, m
<1>4. Keeps(y, lo, hi, d - (l - m))
    BY <1>1, <1>2, <1>3, SuffixKeeps
<1> QED
    BY <1>1, <1>4 DEF y, l, m

LEMMA InsertionKeeps ==
    ASSUME NEW n \in Nat, NEW i \in 1 .. n + 1, NEW z \in Seq(Nat), \A k \in 1 .. Len(z) : z[k] = 0
    PROVE  LET u == SubSeq(Positions(n), 1, i - 1) \o z \o SubSeq(Positions(n), i, n) IN
           /\ u \in Seq(Nat) /\ Len(u) = n + Len(z)
           /\ Keeps(u, 1, i - 1, 0) /\ Keeps(u, i, n, Len(z))
<1> DEFINE u == SubSeq(Positions(n), 1, i - 1) \o z \o SubSeq(Positions(n), i, n)
<1>1. PICK l \in Nat : l = Len(z)
    OBVIOUS
<1>2. /\ u \in Seq(Nat) /\ Len(u) = n + l
      /\ \A k \in 1 .. n + l : u[k] = IF k < i THEN k ELSE IF k < i + l THEN 0 ELSE k - l
    BY <1>1, InsertionIs
<1> HIDE DEF u
<1>3. ASSUME NEW k \in 1 .. i - 1
      PROVE  k + 0 \in 1 .. n + l /\ \A m \in 1 .. n + l : u[m] = k <=> m = k + 0
    BY <1>2
<1>4. ASSUME NEW k \in i .. n
      PROVE  k + l \in 1 .. n + l /\ \A m \in 1 .. n + l : u[m] = k <=> m = k + l
    BY <1>2
<1>5. Keeps(u, 1, i - 1, 0)
    BY <1>2, <1>3 DEF Keeps
<1>6. Keeps(u, i, n, l)
    BY <1>2, <1>4 DEF Keeps
<1> QED
    BY <1>1, <1>2, <1>5, <1>6 DEF u

LEMMA RemovalKeeps ==
    ASSUME NEW n \in Nat, NEW i \in Nat, NEW j \in Nat, 1 <= i, i <= j, j <= n + 1
    PROVE  LET w == Without(Positions(n), i, j) IN
           /\ w \in Seq(Nat) /\ Len(w) = n - (j - i)
           /\ Keeps(w, 1, i - 1, 0) /\ Keeps(w, j, n, -(j - i))
           /\ i = j => Keeps(w, 1, n, 0)
<1> DEFINE w == Without(Positions(n), i, j)
<1>1. PICK l \in Nat : l = n - (j - i)
    OBVIOUS
<1>2. /\ w \in Seq(Nat) /\ Len(w) = l
      /\ \A k \in 1 .. l : w[k] = IF k < i THEN k ELSE k + (j - i)
    BY <1>1, RemovalIs
<1> HIDE DEF w
<1>3. ASSUME NEW k \in 1 .. i - 1
      PROVE  k + 0 \in 1 .. l /\ \A m \in 1 .. l : w[m] = k <=> m = k + 0
    BY <1>1, <1>2
<1>4. ASSUME NEW k \in j .. n
      PROVE  k + (-(j - i)) \in 1 .. l /\ \A m \in 1 .. l : w[m] = k <=> m = k + (-(j - i))
    BY <1>1, <1>2
<1>5. ASSUME i = j, NEW k \in 1 .. n
      PROVE  k + 0 \in 1 .. l /\ \A m \in 1 .. l : w[m] = k <=> m = k + 0
    BY <1>1, <1>2, <1>5
<1>6. Keeps(w, 1, i - 1, 0)
    BY <1>2, <1>3 DEF Keeps
<1>7. Keeps(w, j, n, -(j - i))
    BY <1>2, <1>4 DEF Keeps
<1>8. i = j => Keeps(w, 1, n, 0)
    BY <1>2, <1>5 DEF Keeps
<1> QED
    BY <1>1, <1>2, <1>6, <1>7, <1>8 DEF w

\* All positions, unchanged.
LEMMA PositionsKeep ==
    ASSUME NEW n \in Nat
    PROVE  Positions(n) \in Seq(Nat) /\ Len(Positions(n)) = n /\ Keeps(Positions(n), 1, n, 0)
<1> DEFINE s == Positions(n)
<1>1. s \in Seq(Nat) /\ Len(s) = n /\ \A k \in 1 .. n : s[k] = k
    BY PositionsAre
<1> HIDE DEF s
<1>2. \A k \in 1 .. n : k + 0 \in 1 .. n /\ \A m \in 1 .. n : s[m] = k <=> m = k + 0
    BY <1>1
<1>3. Keeps(s, 1, n, 0)
    BY <1>1, <1>2 DEF Keeps
<1> QED
    BY <1>1, <1>3 DEF s

\* The positions from i on, then the others.
LEMMA RotationKeeps ==
    ASSUME NEW n \in Nat, NEW i \in 1 .. n
    PROVE  LET u == SubSeq(Positions(n), i, n) \o SubSeq(Positions(n), 1, i - 1) IN
           Len(u) = n /\ Keeps(u, i, n, -(i - 1)) /\ Keeps(u, 1, i - 1, n - i + 1)
<1> DEFINE a == SubSeq(Positions(n), 1, i - 1)
           b == SubSeq(Positions(n), i, n)
           u == b \o a
<1>1. i \in 1 .. n + 1
    OBVIOUS
<1>2. a \in Seq(Nat) /\ Len(a) = i - 1 /\ \A k \in 1 .. i - 1 : a[k] = k
    BY <1>1, PartsAre
<1>3. b \in Seq(Nat) /\ Len(b) = n - i + 1 /\ \A k \in 1 .. n - i + 1 : b[k] = i + k - 1
    BY <1>1, PartsAre
<1> HIDE DEF a, b
<1>4. u \in Seq(Nat) /\ Len(u) = n /\ \A k \in 1 .. n : u[k] = IF k <= n - i + 1 THEN b[k] ELSE a[k - (n - i + 1)]
    <2>1. /\ u \in Seq(Nat) /\ Len(u) = Len(b) + Len(a)
          /\ \A k \in 1 .. Len(b) + Len(a) : u[k] = IF k <= Len(b) THEN b[k] ELSE a[k - Len(b)]
        <3>1. a \in Seq(Nat) /\ b \in Seq(Nat)
            BY <1>2, <1>3
        <3> QED
            BY <3>1, ConcatProperties
    <2>2. Len(a) = i - 1 /\ Len(b) = n - i + 1 /\ (n - i + 1) + (i - 1) = n
        BY <1>2, <1>3
    <2> QED
        BY <2>1, <2>2
<1> HIDE DEF u
<1>5. \A k \in 1 .. n : u[k] = IF k <= n - i + 1 THEN i + k - 1 ELSE k - (n - i + 1)
    <2> TAKE k \in 1 .. n
    <2>1. CASE k <= n - i + 1
        <3>1. k \in 1 .. n - i + 1
            BY <2>1
        <3> QED
            BY <1>3, <1>4, <2>1, <3>1
    <2>2. CASE ~(k <= n - i + 1)
        <3>1. k - (n - i + 1) \in 1 .. i - 1
            BY <2>2
        <3> QED
            BY <1>2, <1>4, <2>2, <3>1
    <2> QED
        BY <2>1, <2>2
<1>6. ASSUME NEW k \in i .. n
      PROVE  k + (-(i - 1)) \in 1 .. n /\ \A m \in 1 .. n : u[m] = k <=> m = k + (-(i - 1))
    BY <1>5
<1>7. ASSUME NEW k \in 1 .. i - 1
      PROVE  k + (n - i + 1) \in 1 .. n /\ \A m \in 1 .. n : u[m] = k <=> m = k + (n - i + 1)
    BY <1>5
<1>8. Keeps(u, i, n, -(i - 1))
    BY <1>4, <1>6 DEF Keeps
<1>9. Keeps(u, 1, i - 1, n - i + 1)
    BY <1>4, <1>7 DEF Keeps
<1> QED
    BY <1>4, <1>8, <1>9 DEF u, a, b

\* The buffers the operations leave, as turns.
LEMMA ShapesTurn ==
    ASSUME NEW r \in Rings
    PROVE  /\ Turns(r, r, 0, r.size)
           /\ Full(r) /\ r.cap > 0 => /\ Turns(r, Appended(r), -1, r.size)
                                      /\ Turns(r, Prepended(r), 1, r.size)
           /\ ~Full(r) => /\ Turns(r, Appended(r), 0, r.size + 1)
                          /\ Turns(r, Prepended(r), 1, r.size + 1)
           /\ \A m \in 0 .. r.size : /\ Turns(r, Shortened(r, m), 0, r.size - m)
                                     /\ Turns(r, Advanced(r, m), -m, r.size - m)
<1>1. PICK p \in Nat, f \in Nat, n \in Nat : r.cap = p /\ r.first = f /\ r.size = n /\ n <= p /\ (p > 0 => f \in Slots(p))
    BY RingIs
<1>2. r \in [cap : Int, first : Int, size : Int] /\ r = [cap |-> p, first |-> f, size |-> n]
    BY <1>1 DEF Rings
<1>3. f = Turned(r, 0) /\ (p > 0 => Increment(f, p) = Turned(r, -1) /\ Decrement(f, p) = Turned(r, 1))
    BY <1>1, EndSlots
<1>4. p > 0 => Increment(f, p) \in Int /\ Decrement(f, p) \in Int
    BY <1>1 DEF Increment, Decrement, Slots
<1>5. n \in -p .. p /\ n \in 0 .. p /\ 0 \in -p .. p
    BY <1>1
<1>6. Turns(r, r, 0, n)
    BY <1>1, <1>2, <1>3, <1>5 DEF Turns
<1>7. ASSUME n = p, p > 0 PROVE Turns(r, Appended(r), -1, n) /\ Turns(r, Prepended(r), 1, n)
    <2> DEFINE x == Increment(f, p)
               y == Decrement(f, p)
    <2>1. x \in Int /\ y \in Int /\ x = Turned(r, -1) /\ y = Turned(r, 1)
        BY <1>3, <1>4, <1>7
    <2>2. Appended(r) = [r EXCEPT !.first = x] /\ Prepended(r) = [r EXCEPT !.first = y, !.size = n]
        BY <1>1, <1>2, <1>7 DEF Appended, Prepended, Full
    <2> HIDE DEF x, y
    <2>3. Appended(r) = [cap |-> p, first |-> x, size |-> n] /\ Prepended(r) = [cap |-> p, first |-> y, size |-> n]
        BY <1>1, <1>2, <2>2
    <2>4. -1 \in -p .. p /\ 1 \in -p .. p
        BY <1>7
    <2> QED
        BY <1>1, <1>5, <2>1, <2>3, <2>4 DEF Turns
<1>8. ASSUME n # p PROVE Turns(r, Appended(r), 0, n + 1) /\ Turns(r, Prepended(r), 1, n + 1)
    <2> DEFINE y == Decrement(f, p)
    <2>5. p > 0
        BY <1>1, <1>8
    <2>1. y \in Int /\ y = Turned(r, 1)
        BY <1>3, <1>4, <2>5
    <2>2. Appended(r) = [r EXCEPT !.size = n + 1] /\ Prepended(r) = [r EXCEPT !.first = y, !.size = n + 1]
        BY <1>1, <1>2, <1>8, <2>5 DEF Appended, Prepended, Full
    <2> HIDE DEF y
    <2>3. Appended(r) = [cap |-> p, first |-> f, size |-> n + 1] /\ Prepended(r) = [cap |-> p, first |-> y, size |-> n + 1]
        BY <1>1, <1>2, <2>2
    <2>4. 1 \in -p .. p /\ n + 1 \in 0 .. p
        BY <1>1, <1>8
    <2> QED
        BY <1>1, <1>3, <1>5, <2>1, <2>3, <2>4 DEF Turns
<1>9. ASSUME NEW m \in 0 .. n PROVE Turns(r, Shortened(r, m), 0, n - m) /\ Turns(r, Advanced(r, m), -m, n - m)
    <2> DEFINE x == Add(f, m, p)
    <2>1. x \in Int /\ x = Turned(r, -m)
        <3>1. m > 0 => -m < 0 /\ -(-m) = m
            BY <1>9
        <3>7. PICK e \in Int : e = -m /\ e + m = 0
            OBVIOUS
        <3>2. m = 0 => -m = 0
            <4>2. e + m = 0
                BY <3>7
            <4>1. m = 0 => e = 0
                BY <4>2
            <4> QED
                BY <3>7, <4>1, Zenon
        <3>3. m > 0 => Turned(r, -m) = Add(f, m, p)
            BY <1>1, <3>1 DEF Turned
        <3>4. m = 0 => Turned(r, -m) = f
            BY <1>3, <3>2
        <3>5. m = 0 => Add(f, m, p) = f
            BY <1>1 DEF Add, Slots
        <3>6. Add(f, m, p) \in Int /\ (m > 0 \/ m = 0)
            BY <1>1 DEF Add
        <3> QED
            BY <3>3, <3>4, <3>5, <3>6
    <2>2. Shortened(r, m) = [r EXCEPT !.size = n - m] /\ Advanced(r, m) = [r EXCEPT !.first = x, !.size = n - m]
        BY <1>1, <1>2 DEF Shortened, Advanced
    <2> HIDE DEF x
    <2>4. Shortened(r, m) = [cap |-> p, first |-> f, size |-> n - m] /\ Advanced(r, m) = [cap |-> p, first |-> x, size |-> n - m]
        BY <1>1, <1>2, <2>2
    <2>3. -m \in -p .. p /\ n - m \in 0 .. p
        BY <1>1, <1>9
    <2> QED
        BY <1>1, <1>3, <1>5, <2>1, <2>4, <2>3 DEF Turns
<1> QED
    BY <1>1, <1>6, <1>7, <1>8, <1>9 DEF Full

LEMMA TailKeeps ==
    ASSUME NEW u \in Seq(Nat), NEW l \in Nat, Len(u) = l + 1, NEW lo \in Int, NEW hi \in Int, NEW d \in Int,
           Keeps(u, lo, hi, d), lo + d > 1
    PROVE  Len(Tail(u)) = l /\ Keeps(Tail(u), lo, hi, d - 1)
<1>1. u # << >>
    OBVIOUS
<1>2. Len(Tail(u)) = Len(u) - 1 /\ \A m \in 1 .. Len(Tail(u)) : Tail(u)[m] = u[m + 1]
    BY <1>1, HeadTailProperties
<1> DEFINE x == Tail(u)
<1>3. Len(x) = l /\ \A m \in 1 .. l : x[m] = u[m + 1]
    BY <1>2
<1>4. \A k \in lo .. hi : k + d \in 1 .. l + 1 /\ \A m \in 1 .. l + 1 : u[m] = k <=> m = k + d
    BY DEF Keeps
<1> HIDE DEF x
<1>5. ASSUME NEW k \in lo .. hi
      PROVE  k + (d - 1) \in 1 .. l /\ \A m \in 1 .. l : x[m] = k <=> m = k + (d - 1)
    <2>1. k + d \in 1 .. l + 1
        BY <1>4
    <2>2. k + (d - 1) \in 1 .. l /\ \A m \in 1 .. l : m + 1 \in 1 .. l + 1 /\ (m + 1 = k + d <=> m = k + (d - 1))
        BY <2>1
    <2>3. \A m \in 1 .. l : u[m + 1] = k <=> m + 1 = k + d
        BY <1>4, <2>2
    <2> QED
        BY <1>3, <2>2, <2>3
<1>6. Keeps(x, lo, hi, d - 1)
    BY <1>3, <1>5 DEF Keeps
<1> QED
    BY <1>3, <1>6 DEF x

\* One item in front of n positions.
LEMMA PrependKeeps ==
    ASSUME NEW n \in Nat
    PROVE  LET u == <<0>> \o Positions(n) IN u \in Seq(Nat) /\ Len(u) = n + 1 /\ Keeps(u, 1, n, 1)
<1> DEFINE a == <<0>>
           s == Positions(n)
           u == a \o s
<1>1. s \in Seq(Nat) /\ Len(s) = n /\ \A k \in 1 .. n : s[k] = k
    BY PositionsAre
<1>2. a \in Seq(Nat) /\ Len(a) = 1 /\ a[1] = 0
    OBVIOUS
<1> HIDE DEF a, s
<1>3. /\ u \in Seq(Nat) /\ Len(u) = n + 1
      /\ \A m \in 1 .. n + 1 : u[m] = IF m <= 1 THEN a[m] ELSE s[m - 1]
    <2>1. /\ u \in Seq(Nat) /\ Len(u) = Len(a) + Len(s)
          /\ \A m \in 1 .. Len(a) + Len(s) : u[m] = IF m <= Len(a) THEN a[m] ELSE s[m - Len(a)]
        BY <1>1, <1>2, ConcatProperties
    <2>2. 1 + n = n + 1
        OBVIOUS
    <2> QED
        BY <1>1, <1>2, <2>1, <2>2
<1> HIDE DEF u
<1>4. \A m \in 1 .. n + 1 : u[m] = m - 1
    <2> TAKE m \in 1 .. n + 1
    <2>1. CASE m = 1
        BY <1>2, <1>3, <2>1
    <2>2. CASE m # 1
        <3>1. ~(m <= 1) /\ m - 1 \in 1 .. n
            BY <2>2
        <3> QED
            BY <1>1, <1>3, <3>1
    <2> QED
        BY <2>1, <2>2
<1>5. ASSUME NEW k \in 1 .. n
      PROVE  k + 1 \in 1 .. n + 1 /\ \A m \in 1 .. n + 1 : u[m] = k <=> m = k + 1
    BY <1>4
<1>6. Keeps(u, 1, n, 1)
    BY <1>3, <1>5 DEF Keeps
<1> QED
    BY <1>3, <1>6 DEF u, a, s

\* All positions but the last.
LEMMA FrontKeeps ==
    ASSUME NEW n \in Nat, n > 0
    PROVE  LET u == SubSeq(Positions(n), 1, n - 1) IN Len(u) = n - 1 /\ Keeps(u, 1, n - 1, 0)
<1> DEFINE u == SubSeq(Positions(n), 1, n - 1)
<1>1. PICK l \in Nat : l = n - 1
    OBVIOUS
<1>2. Len(u) = l /\ \A k \in 1 .. l : u[k] = k
    <2>1. n \in 1 .. n + 1
        OBVIOUS
    <2>2. Len(u) = n - 1 /\ \A k \in 1 .. n - 1 : u[k] = k
        BY <2>1, PartsAre
    <2> HIDE DEF u
    <2> QED
        BY <1>1, <2>2
<1> HIDE DEF u
<1>3. \A k \in 1 .. l : k + 0 \in 1 .. l /\ \A m \in 1 .. l : u[m] = k <=> m = k + 0
    BY <1>2
<1>4. Keeps(u, 1, l, 0)
    BY <1>2, <1>3 DEF Keeps
<1> QED
    BY <1>1, <1>2, <1>4 DEF u

LEMMA AllowedIs ==
    ASSUME Inv, NEW b \in Buffer, NEW c, NEW slots, NEW q, Call(b, c, slots, q)
    PROVE  ring[b] \in Rings /\ Allowed(c, Positions(ring[b].size)) /\ Len(Positions(ring[b].size)) = ring[b].size
<1>1. ring[b] \in Rings /\ Allowed(c, Positions(ring[b].size))
    BY DEF Inv, Call, Positions
<1>2. ring[b].size \in Nat
    BY <1>1 DEF Rings
<1> QED
    BY <1>1, <1>2, PositionsAre

LEMMA PushFrontStep ==
    ASSUME Inv, NEW b \in Buffer, PushFront(b)
    PROVE  Inv'
<1> DEFINE r == ring[b]
           c == Op("push_front", 0, 0)
           slots == ROverwritten(r)
           q == Prepended(r)
           s == <<0>> \o Positions(r.size)
           after == FirstOf(s, r.cap)
           gone == IF r.size = r.cap THEN {r.size} \cap 1 .. r.size ELSE {}
<1>1. Call(b, c, slots, q) /\ r \in Rings
    BY DEF PushFront, Inv
<1>2. PICK p \in Nat, f \in Nat, n \in Nat : r.cap = p /\ r.first = f /\ r.size = n /\ n <= p /\ (p > 0 => f \in Slots(p))
    BY <1>1, RingIs
<1>3. after = After(c, Positions(r.size), r.cap)[1]
    BY DEF After, PushFrontOutcome, Op
<1>4. gone = Invalidated(c, r.size, r.cap)
    BY DEF Invalidated, Op
<1>5. s \in Seq(Nat) /\ n + 1 = Len(s) /\ Keeps(s, 1, n, 1)
    BY <1>2, PrependKeeps
<1> HIDE DEF s, r, c
<1>6. CASE n = p
    <2>1. Keeps(s, 1, n - 1, 1)
        BY <1>5 DEF Keeps
    <2>2. Lesser(p, n + 1) = n /\ n - 1 + 1 <= n /\ n - 1 \in Int /\ n + 1 \in Nat
        BY <1>6 DEF Lesser
    <2>3. Len(after) = n /\ Keeps(after, 1, n - 1, 1)
        <3>1. PICK h \in Int : h = n - 1
            OBVIOUS
        <3>2. n = Lesser(p, Len(s)) /\ h + 1 <= n /\ Keeps(s, 1, h, 1)
            BY <1>5, <2>1, <2>2, <3>1
        <3>3. 1 \in Int /\ s \in Seq(Nat)
            BY <1>5
        <3>4. Len(FirstOf(s, p)) = n /\ Keeps(FirstOf(s, p), 1, h, 1)
            BY <3>2, <3>3, FirstKeeps
        <3> QED
            BY <1>2, <3>1, <3>4
    <2>4. \A k \in 1 .. r.size : k \in gone <=> k \notin 1 .. n - 1
        BY <1>2, <1>6
    <2>5. CASE p > 0
        <3>1. Turns(r, q, 1, Len(after))
            BY <1>1, <1>2, <1>6, <2>3, <2>5, ShapesTurn DEF Full
        <3>2. slots = {Slot(r, n)} /\ n \in 1 .. r.size
            BY <1>1, <1>2, <1>6, <2>5, EndSlots DEF ROverwritten, Full
        <3>3. slots \subseteq Slots(r.cap) /\ \A k \in 1 .. r.size : Slot(r, k) \in slots <=> k = n
            BY <1>1, <3>2, OneSlot
        <3>4. \A k \in 1 .. r.size : k = n <=> k \notin 1 .. n - 1
            BY <1>2
        <3> HIDE DEF q, slots, after, gone
        <3>5. \A k \in 1 .. r.size : Slot(r, k) \in slots <=> k \notin 1 .. n - 1
            BY <3>3, <3>4
        <3>6. 1 \in Int /\ n - 1 \in Int /\ 1 >= 1 /\ n - 1 <= r.size
            BY <1>2
        <3> QED
            BY <1>1, <1>3, <1>4, <2>3, <2>4, <3>1, <3>3, <3>5, <3>6, OpStep DEF r
    <2>6. CASE ~(p > 0)
        <3>1. q = r /\ slots = {} /\ n = 0
            BY <1>2, <1>6, <2>6 DEF Prepended, ROverwritten
        <3>2. Turns(r, q, 0, Len(after))
            BY <1>1, <1>2, <2>3, <3>1, ShapesTurn
        <3> HIDE DEF q, slots, after, gone
        <3>3. Keeps(after, 1, n - 1, 0)
            BY <2>3, <3>1 DEF Keeps
        <3>4. slots \subseteq Slots(r.cap) /\ \A k \in 1 .. r.size : Slot(r, k) \in slots <=> k \notin 1 .. n - 1
            BY <1>2, <3>1
        <3>5. 0 \in Int /\ 1 \in Int /\ n - 1 \in Int /\ 1 >= 1 /\ n - 1 <= r.size
            BY <1>2
        <3> QED
            BY <1>1, <1>3, <1>4, <2>4, <3>2, <3>3, <3>4, <3>5, OpStep DEF r
    <2> QED
        BY <2>5, <2>6
<1>7. CASE n # p
    <2>1. Lesser(p, n + 1) = n + 1 /\ n + 1 <= n + 1 /\ n + 1 \in Nat
        BY <1>2, <1>7 DEF Lesser
    <2>2. Len(after) = n + 1 /\ Keeps(after, 1, n, 1)
        <3>1. PICK m \in Nat : m = n + 1
            OBVIOUS
        <3>2. m = Lesser(p, Len(s)) /\ n + 1 <= m /\ Keeps(s, 1, n, 1)
            BY <1>5, <2>1, <3>1
        <3>3. 1 \in Int /\ n \in Int /\ s \in Seq(Nat)
            BY <1>5
        <3>4. Len(FirstOf(s, p)) = m /\ Keeps(FirstOf(s, p), 1, n, 1)
            BY <3>2, <3>3, FirstKeeps
        <3> QED
            BY <1>2, <3>1, <3>4
    <2>3. slots = {} /\ gone = {}
        BY <1>2, <1>7 DEF ROverwritten, Full
    <2>4. Turns(r, q, 1, Len(after))
        BY <1>1, <1>2, <1>7, <2>2, ShapesTurn DEF Full
    <2> HIDE DEF q, slots, after, gone
    <2>5. /\ slots \subseteq Slots(r.cap)
          /\ \A k \in 1 .. r.size : k \in gone <=> k \notin 1 .. n
          /\ \A k \in 1 .. r.size : Slot(r, k) \in slots <=> k \notin 1 .. n
        BY <1>2, <2>3
    <2>6. 1 \in Int /\ n \in Int /\ 1 >= 1 /\ n <= r.size
        BY <1>2
    <2> QED
        BY <1>1, <1>3, <1>4, <2>2, <2>4, <2>5, <2>6, OpStep DEF r
<1> QED
    BY <1>6, <1>7

LEMMA PopBackStep ==
    ASSUME Inv, NEW b \in Buffer, PopBack(b)
    PROVE  Inv'
<1> DEFINE r == ring[b]
           c == Op("pop_back", 0, 0)
           slots == {Decrement(m_last(r), r.cap)}
           q == Shortened(r, 1)
           after == SubSeq(Positions(r.size), 1, r.size - 1)
           gone == {r.size}
<1>1. Call(b, c, slots, q) /\ r \in Rings
    BY DEF PopBack, Inv
<1>2. PICK p \in Nat, f \in Nat, n \in Nat : r.cap = p /\ r.first = f /\ r.size = n /\ n <= p /\ (p > 0 => f \in Slots(p))
    BY <1>1, RingIs
<1>3. n > 0
    <2>1. Allowed(c, Positions(r.size)) /\ Len(Positions(r.size)) = n
        BY <1>1, <1>2, AllowedIs
    <2> QED
        BY <2>1 DEF Allowed, Op
<1>4. after = After(c, Positions(r.size), r.cap)[1] /\ gone = Invalidated(c, r.size, r.cap)
    <2>1. after = After(c, Positions(r.size), r.cap)[1]
        BY <1>2, PositionsAre DEF After, PopBackOutcome, Op
    <2>2. gone = Invalidated(c, r.size, r.cap)
        BY DEF Invalidated, Op
    <2> QED
        BY <2>1, <2>2
<1>5. Len(after) = n - 1 /\ Keeps(after, 1, n - 1, 0)
    BY <1>2, <1>3, FrontKeeps
<1> HIDE DEF r, c
<1>6. Turns(r, q, 0, Len(after))
    <2>1. 1 \in 0 .. r.size
        BY <1>2, <1>3
    <2> QED
        BY <1>1, <1>2, <1>5, <2>1, ShapesTurn
<1>7. slots = {Slot(r, n)} /\ n \in 1 .. r.size
    BY <1>1, <1>2, <1>3, EndSlots
<1>8. slots \subseteq Slots(r.cap) /\ \A k \in 1 .. r.size : Slot(r, k) \in slots <=> k = n
    BY <1>1, <1>7, OneSlot
<1>9. \A k \in 1 .. r.size : (k = n <=> k \notin 1 .. n - 1) /\ (k \in gone <=> k \notin 1 .. n - 1)
    BY <1>2
<1> HIDE DEF q, slots, after, gone
<1>10. \A k \in 1 .. r.size : Slot(r, k) \in slots <=> k \notin 1 .. n - 1
    BY <1>8, <1>9
<1>11. 0 \in Int /\ 1 \in Int /\ n - 1 \in Int /\ 1 >= 1 /\ n - 1 <= r.size
    BY <1>2
<1> QED
    BY <1>1, <1>4, <1>5, <1>6, <1>8, <1>9, <1>10, <1>11, OpStep DEF r

LEMMA PopFrontStep ==
    ASSUME Inv, NEW b \in Buffer, PopFront(b)
    PROVE  Inv'
<1> DEFINE r == ring[b]
           c == Op("pop_front", 0, 0)
           slots == {r.first}
           q == Advanced(r, 1)
           s == Positions(r.size)
           after == Tail(s)
           gone == {1}
<1>1. Call(b, c, slots, q) /\ r \in Rings
    BY DEF PopFront, Inv
<1>2. PICK p \in Nat, f \in Nat, n \in Nat : r.cap = p /\ r.first = f /\ r.size = n /\ n <= p /\ (p > 0 => f \in Slots(p))
    BY <1>1, RingIs
<1>3. n > 0
    <2>1. Allowed(c, Positions(r.size)) /\ Len(Positions(r.size)) = n
        BY <1>1, <1>2, AllowedIs
    <2> QED
        BY <2>1 DEF Allowed, Op
<1>4. after = After(c, Positions(r.size), r.cap)[1]
    BY DEF After, PopFrontOutcome, Op
<1>5. gone = Invalidated(c, r.size, r.cap)
    BY DEF Invalidated, Op
<1>6. Len(after) = n - 1 /\ Keeps(after, 2, n, -1)
    <2>1. s \in Seq(Nat) /\ Len(s) = n /\ Keeps(s, 1, n, 0)
        BY <1>2, PositionsKeep
    <2> HIDE DEF s
    <2>2. Keeps(s, 2, n, 0)
        BY <2>1 DEF Keeps
    <2>3. n - 1 \in Nat /\ Len(s) = (n - 1) + 1 /\ 2 \in Int /\ n \in Int /\ 0 \in Int /\ 2 + 0 > 1 /\ 0 - 1 = -1
        BY <1>3, <2>1
    <2>4. Len(Tail(s)) = n - 1 /\ Keeps(Tail(s), 2, n, 0 - 1)
        BY <2>1, <2>2, <2>3, TailKeeps
    <2> QED
        BY <2>3, <2>4
<1> HIDE DEF r, c, s
<1>7. Turns(r, q, -1, Len(after))
    <2>1. 1 \in 0 .. r.size
        BY <1>2, <1>3
    <2> QED
        BY <1>1, <1>2, <1>6, <2>1, ShapesTurn
<1>8. slots = {Slot(r, 1)} /\ 1 \in 1 .. r.size
    BY <1>1, <1>2, <1>3, EndSlots
<1>9. slots \subseteq Slots(r.cap) /\ \A k \in 1 .. r.size : Slot(r, k) \in slots <=> k = 1
    BY <1>1, <1>8, OneSlot
<1>10. \A k \in 1 .. r.size : (k = 1 <=> k \notin 2 .. n) /\ (k \in gone <=> k \notin 2 .. n)
    BY <1>2
<1> HIDE DEF q, slots, after, gone
<1>11. \A k \in 1 .. r.size : Slot(r, k) \in slots <=> k \notin 2 .. n
    BY <1>9, <1>10
<1>12. -1 \in Int /\ 2 \in Int /\ n \in Int /\ 2 >= 1 /\ n <= r.size
    BY <1>2
<1> QED
    BY <1>1, <1>4, <1>5, <1>6, <1>7, <1>9, <1>10, <1>11, <1>12, OpStep DEF r

\* erase and erase(first, last): the elements from i on move towards the front.
LEMMA EraseStep ==
    ASSUME Inv, NEW b \in Buffer, NEW k \in Nat, Erase(b, k)
    PROVE  Inv'
<1> DEFINE r == ring[b]
           c == Op("erase", k, 0)
           slots == Elements(r, k, r.size)
           q == Shortened(r, 1)
           after == Without(Positions(r.size), k, k + 1)
           gone == k .. r.size
<1>1. Call(b, c, slots, q) /\ r \in Rings
    BY DEF Erase, Inv
<1>2. PICK p \in Nat, f \in Nat, n \in Nat : r.cap = p /\ r.first = f /\ r.size = n /\ n <= p /\ (p > 0 => f \in Slots(p))
    BY <1>1, RingIs
<1>3. k \in 1 .. n
    <2>1. Allowed(c, Positions(r.size)) /\ Len(Positions(r.size)) = n
        BY <1>1, <1>2, AllowedIs
    <2> QED
        BY <2>1 DEF Allowed, Op
<1>4. after = After(c, Positions(r.size), r.cap)[1]
    BY DEF After, EraseOutcome, Op
<1>5. gone = Invalidated(c, r.size, r.cap)
    BY DEF Invalidated, Op
<1>6. Len(after) = n - 1 /\ Keeps(after, 1, k - 1, 0)
    <2>1. PICK j \in Nat : j = k + 1 /\ j <= n + 1 /\ k <= j /\ 1 <= k /\ j - k = 1
        BY <1>3
    <2>2. Len(Without(Positions(n), k, j)) = n - (j - k) /\ Keeps(Without(Positions(n), k, j), 1, k - 1, 0)
        BY <2>1, RemovalKeeps
    <2> QED
        BY <1>2, <2>1, <2>2
<1> HIDE DEF r, c
<1>7. Turns(r, q, 0, Len(after))
    <2>1. 1 \in 0 .. r.size
        BY <1>2, <1>3
    <2> QED
        BY <1>1, <1>2, <1>6, <2>1, ShapesTurn
<1>8. slots \subseteq Slots(r.cap) /\ \A m \in 1 .. r.size : Slot(r, m) \in slots <=> m \in k .. r.size
    <2>1. k \in Int /\ r.size \in Int /\ k >= 1 /\ r.size <= r.size
        BY <1>2, <1>3
    <2> QED
        BY <1>1, <2>1, ElementsAre
<1>9. \A m \in 1 .. r.size : m \in k .. r.size <=> m \notin 1 .. k - 1
    BY <1>2, <1>3
<1>10. \A m \in 1 .. r.size : m \in gone <=> m \notin 1 .. k - 1
    BY <1>9
<1> HIDE DEF q, slots, after, gone
<1>11. \A m \in 1 .. r.size : Slot(r, m) \in slots <=> m \notin 1 .. k - 1
    BY <1>8, <1>9
<1>12. 0 \in Int /\ 1 \in Int /\ k - 1 \in Int /\ 1 >= 1 /\ k - 1 <= r.size
    BY <1>2, <1>3
<1> QED
    BY <1>1, <1>4, <1>5, <1>6, <1>7, <1>8, <1>10, <1>11, <1>12, OpStep DEF r

LEMMA EraseRangeStep ==
    ASSUME Inv, NEW b \in Buffer, NEW k \in Nat, NEW l \in Nat, EraseRange(b, k, l)
    PROVE  Inv'
<1> DEFINE r == ring[b]
           c == Op("erase_range", k, l)
           slots == IF k = l THEN {} ELSE Elements(r, k, r.size)
           q == Shortened(r, l - k)
           after == Without(Positions(r.size), k, l)
           gone == IF k = l THEN {} ELSE k .. r.size
           hi == IF k = l THEN r.size ELSE k - 1
<1>1. Call(b, c, slots, q) /\ r \in Rings
    BY DEF EraseRange, Inv
<1>2. PICK p \in Nat, f \in Nat, n \in Nat : r.cap = p /\ r.first = f /\ r.size = n /\ n <= p /\ (p > 0 => f \in Slots(p))
    BY <1>1, RingIs
<1>3. k >= 1 /\ k <= l /\ l <= n + 1
    <2>1. Allowed(c, Positions(r.size)) /\ Len(Positions(r.size)) = n
        BY <1>1, <1>2, AllowedIs
    <2>2. k \in 1 .. l /\ l \in 1 .. n + 1
        BY <2>1 DEF Allowed, Op
    <2> QED
        BY <2>2
<1>4. after = After(c, Positions(r.size), r.cap)[1]
    BY DEF After, EraseRangeOutcome, Op
<1>5. gone = Invalidated(c, r.size, r.cap)
    BY DEF Invalidated, Op
<1>6. Len(after) = n - (l - k) /\ Keeps(after, 1, hi, 0)
    <2>1. /\ Len(Without(Positions(n), k, l)) = n - (l - k) /\ Keeps(Without(Positions(n), k, l), 1, k - 1, 0)
          /\ k = l => Keeps(Without(Positions(n), k, l), 1, n, 0)
        BY <1>3, RemovalKeeps
    <2> QED
        BY <1>2, <2>1
<1> HIDE DEF r, c
<1>7. Turns(r, q, 0, Len(after))
    <2>1. l - k \in 0 .. r.size
        BY <1>2, <1>3
    <2> QED
        BY <1>1, <1>2, <1>6, <2>1, ShapesTurn
<1>8. slots \subseteq Slots(r.cap) /\ \A m \in 1 .. r.size : Slot(r, m) \in slots <=> k # l /\ m \in k .. r.size
    <2>1. k \in Int /\ r.size \in Int /\ k >= 1 /\ r.size <= r.size
        BY <1>2, <1>3
    <2> QED
        BY <1>1, <2>1, ElementsAre
<1>9. hi \in Int /\ hi <= r.size /\ \A m \in 1 .. r.size : k # l /\ m \in k .. r.size <=> m \notin 1 .. hi
    BY <1>2, <1>3
<1>10. \A m \in 1 .. r.size : m \in gone <=> m \notin 1 .. hi
    BY <1>9
<1> HIDE DEF q, slots, after, gone, hi
<1>11. \A m \in 1 .. r.size : Slot(r, m) \in slots <=> m \notin 1 .. hi
    BY <1>8, <1>9
<1>12. 0 \in Int /\ 1 \in Int /\ 1 >= 1
    OBVIOUS
<1> QED
    BY <1>1, <1>4, <1>5, <1>6, <1>7, <1>8, <1>9, <1>10, <1>11, <1>12, OpStep DEF r

\* rerase and rerase(first, last): the elements up to i move towards the back.
LEMMA REraseStep ==
    ASSUME Inv, NEW b \in Buffer, NEW k \in Nat, RErase(b, k)
    PROVE  Inv'
<1> DEFINE r == ring[b]
           c == Op("rerase", k, 0)
           slots == Elements(r, 1, k)
           q == Advanced(r, 1)
           after == Without(Positions(r.size), k, k + 1)
           gone == 1 .. k
<1>1. Call(b, c, slots, q) /\ r \in Rings
    BY DEF RErase, Inv
<1>2. PICK p \in Nat, f \in Nat, n \in Nat : r.cap = p /\ r.first = f /\ r.size = n /\ n <= p /\ (p > 0 => f \in Slots(p))
    BY <1>1, RingIs
<1>3. k \in 1 .. n
    <2>1. Allowed(c, Positions(r.size)) /\ Len(Positions(r.size)) = n
        BY <1>1, <1>2, AllowedIs
    <2> QED
        BY <2>1 DEF Allowed, Op
<1>4. after = After(c, Positions(r.size), r.cap)[1]
    BY DEF After, REraseOutcome, Op
<1>5. gone = Invalidated(c, r.size, r.cap)
    BY DEF Invalidated, Op
<1>6. Len(after) = n - 1 /\ Keeps(after, k + 1, n, -1)
    <2>1. PICK j \in Nat : j = k + 1 /\ j <= n + 1 /\ k <= j /\ 1 <= k /\ j - k = 1 /\ -(j - k) = -1
        BY <1>3
    <2>2. Len(Without(Positions(n), k, j)) = n - (j - k) /\ Keeps(Without(Positions(n), k, j), j, n, -(j - k))
        BY <2>1, RemovalKeeps
    <2> QED
        BY <1>2, <2>1, <2>2
<1> HIDE DEF r, c
<1>7. Turns(r, q, -1, Len(after))
    <2>1. 1 \in 0 .. r.size
        BY <1>2, <1>3
    <2> QED
        BY <1>1, <1>2, <1>6, <2>1, ShapesTurn
<1>8. slots \subseteq Slots(r.cap) /\ \A m \in 1 .. r.size : Slot(r, m) \in slots <=> m \in 1 .. k
    <2>1. 1 \in Int /\ k \in Int /\ 1 >= 1 /\ k <= r.size
        BY <1>2, <1>3
    <2> QED
        BY <1>1, <2>1, ElementsAre
<1>9. \A m \in 1 .. r.size : m \in 1 .. k <=> m \notin k + 1 .. n
    BY <1>2, <1>3
<1>10. \A m \in 1 .. r.size : m \in gone <=> m \notin k + 1 .. n
    BY <1>9
<1> HIDE DEF q, slots, after, gone
<1>11. \A m \in 1 .. r.size : Slot(r, m) \in slots <=> m \notin k + 1 .. n
    BY <1>8, <1>9
<1>12. -1 \in Int /\ k + 1 \in Int /\ n \in Int /\ k + 1 >= 1 /\ n <= r.size
    BY <1>2, <1>3
<1> QED
    BY <1>1, <1>4, <1>5, <1>6, <1>7, <1>8, <1>10, <1>11, <1>12, OpStep DEF r

LEMMA REraseRangeStep ==
    ASSUME Inv, NEW b \in Buffer, NEW k \in Nat, NEW l \in Nat, REraseRange(b, k, l)
    PROVE  Inv'
<1> DEFINE r == ring[b]
           c == Op("rerase_range", k, l)
           slots == IF k = l THEN {} ELSE Elements(r, 1, l - 1)
           q == IF k = l THEN r ELSE Advanced(r, l - k)
           after == Without(Positions(r.size), k, l)
           gone == IF k = l THEN {} ELSE 1 .. l - 1
<1>1. Call(b, c, slots, q) /\ r \in Rings
    BY DEF REraseRange, Inv
<1>2. PICK p \in Nat, f \in Nat, n \in Nat : r.cap = p /\ r.first = f /\ r.size = n /\ n <= p /\ (p > 0 => f \in Slots(p))
    BY <1>1, RingIs
<1>3. k >= 1 /\ k <= l /\ l <= n + 1
    <2>1. Allowed(c, Positions(r.size)) /\ Len(Positions(r.size)) = n
        BY <1>1, <1>2, AllowedIs
    <2>2. k \in 1 .. l /\ l \in 1 .. n + 1
        BY <2>1 DEF Allowed, Op
    <2> QED
        BY <2>2
<1>4. after = After(c, Positions(r.size), r.cap)[1]
    BY DEF After, REraseRangeOutcome, Op
<1>5. gone = Invalidated(c, r.size, r.cap)
    BY DEF Invalidated, Op
<1>6. /\ Len(after) = n - (l - k) /\ Keeps(after, l, n, -(l - k))
      /\ k = l => Keeps(after, 1, n, 0)
    <2>1. /\ Len(Without(Positions(n), k, l)) = n - (l - k) /\ Keeps(Without(Positions(n), k, l), l, n, -(l - k))
          /\ k = l => Keeps(Without(Positions(n), k, l), 1, n, 0)
        BY <1>3, RemovalKeeps
    <2> QED
        BY <1>2, <2>1
<1> HIDE DEF r, c, after
<1>7. CASE k = l
    <2>1. slots = {} /\ gone = {} /\ q = r /\ Len(after) = r.size
        BY <1>2, <1>6, <1>7
    <2>2. Turns(r, q, 0, Len(after))
        BY <1>1, <2>1, ShapesTurn
    <2> HIDE DEF q, slots, gone
    <2>3. /\ slots \subseteq Slots(r.cap)
          /\ \A m \in 1 .. r.size : m \in gone <=> m \notin 1 .. n
          /\ \A m \in 1 .. r.size : Slot(r, m) \in slots <=> m \notin 1 .. n
        BY <1>2, <2>1
    <2>4. 0 \in Int /\ 1 \in Int /\ n \in Int /\ 1 >= 1 /\ n <= r.size /\ Keeps(after, 1, n, 0)
        BY <1>2, <1>6, <1>7
    <2> QED
        BY <1>1, <1>4, <1>5, <2>2, <2>3, <2>4, OpStep DEF r
<1>8. CASE k # l
    <2>1. slots = Elements(r, 1, l - 1) /\ gone = 1 .. l - 1 /\ q = Advanced(r, l - k)
        BY <1>8
    <2> HIDE DEF q, slots, gone
    <2>2. Turns(r, q, -(l - k), Len(after))
        <3>1. l - k \in 0 .. r.size
            BY <1>2, <1>3
        <3> QED
            BY <1>1, <1>2, <1>6, <2>1, <3>1, ShapesTurn
    <2>3. slots \subseteq Slots(r.cap) /\ \A m \in 1 .. r.size : Slot(r, m) \in slots <=> m \in 1 .. l - 1
        <3>1. 1 \in Int /\ l - 1 \in Int /\ 1 >= 1 /\ l - 1 <= r.size
            BY <1>2, <1>3
        <3> QED
            BY <1>1, <2>1, <3>1, ElementsAre
    <2>4. \A m \in 1 .. r.size : m \in 1 .. l - 1 <=> m \notin l .. n
        BY <1>2, <1>3
    <2>5. \A m \in 1 .. r.size : m \in gone <=> m \notin l .. n
        BY <2>1, <2>4
    <2>6. \A m \in 1 .. r.size : Slot(r, m) \in slots <=> m \notin l .. n
        BY <2>3, <2>4
    <2>7. -(l - k) \in Int /\ l \in Int /\ n \in Int /\ l >= 1 /\ n <= r.size
        BY <1>2, <1>3
    <2> QED
        BY <1>1, <1>4, <1>5, <1>6, <2>2, <2>3, <2>5, <2>6, <2>7, OpStep DEF r
<1> QED
    BY <1>7, <1>8

LEMMA ClearStep ==
    ASSUME Inv, NEW b \in Buffer, Clear(b)
    PROVE  Inv'
<1> DEFINE r == ring[b]
           c == Op("clear", 0, 0)
           slots == Elements(r, 1, r.size)
           q == [r EXCEPT !.first = m_last(r), !.size = 0]
           after == << >>
           gone == 1 .. r.size
<1>1. Call(b, c, slots, q) /\ r \in Rings
    BY DEF Clear, Inv
<1>2. PICK p \in Nat, f \in Nat, n \in Nat : r.cap = p /\ r.first = f /\ r.size = n /\ n <= p /\ (p > 0 => f \in Slots(p))
    BY <1>1, RingIs
<1>3. after = After(c, Positions(r.size), r.cap)[1]
    BY DEF After, ClearOutcome, Op
<1>4. gone = Invalidated(c, r.size, r.cap)
    BY DEF Invalidated, Op
<1>5. Len(after) = 0 /\ Keeps(after, 1, 0, -n)
    BY DEF Keeps
<1> HIDE DEF r, c, after
<1>6. Turns(r, q, -n, Len(after))
    <2>1. Turns(r, Advanced(r, n), -n, 0)
        <3>1. n \in 0 .. r.size /\ r.size - n = 0
            BY <1>2
        <3> QED
            BY <1>1, <3>1, ShapesTurn
    <2>2. Advanced(r, n) = [r EXCEPT !.first = m_last(r), !.size = 0]
        <3>1. n - n = 0
            OBVIOUS
        <3> QED
            BY <1>1, <1>2, <3>1 DEF Advanced, m_last, Rings
    <2> QED
        BY <1>5, <2>1, <2>2
<1>7. slots \subseteq Slots(r.cap) /\ \A m \in 1 .. r.size : Slot(r, m) \in slots <=> m \in 1 .. r.size
    <2>1. 1 \in Int /\ r.size \in Int /\ 1 >= 1 /\ r.size <= r.size
        BY <1>2
    <2> QED
        BY <1>1, <2>1, ElementsAre
<1> HIDE DEF q, slots
<1>8. /\ \A m \in 1 .. r.size : m \in gone <=> m \notin 1 .. 0
      /\ \A m \in 1 .. r.size : Slot(r, m) \in slots <=> m \notin 1 .. 0
    BY <1>2, <1>7
<1> HIDE DEF gone
<1>9. -n \in Int /\ 1 \in Int /\ 0 \in Int /\ 1 >= 1 /\ 0 <= r.size
    BY <1>2
<1> QED
    BY <1>1, <1>3, <1>4, <1>5, <1>6, <1>7, <1>8, <1>9, OpStep DEF r

\* One item in front of position k.
LEMMA InsertAtKeeps ==
    ASSUME NEW n \in Nat, NEW k \in 1 .. n + 1
    PROVE  LET u == InsertAt(Positions(n), k, 0) IN
           u \in Seq(Nat) /\ Len(u) = n + 1 /\ Keeps(u, 1, k - 1, 0) /\ Keeps(u, k, n, 1)
<1> DEFINE z == <<0>>
           u == SubSeq(Positions(n), 1, k - 1) \o z \o SubSeq(Positions(n), k, n)
<1>1. z \in Seq(Nat) /\ Len(z) = 1 /\ \A m \in 1 .. Len(z) : z[m] = 0
    OBVIOUS
<1>2. InsertAt(Positions(n), k, 0) = u
    BY PositionsAre DEF InsertAt
<1> HIDE DEF z
<1>3. u \in Seq(Nat) /\ Len(u) = n + Len(z) /\ Keeps(u, 1, k - 1, 0) /\ Keeps(u, k, n, Len(z))
    BY <1>1, InsertionKeeps
<1> HIDE DEF u
<1> QED
    BY <1>1, <1>2, <1>3

LEMMA InsertStep ==
    ASSUME Inv, NEW b \in Buffer, NEW k \in Nat, Insert(b, k)
    PROVE  Inv'
<1> DEFINE r == ring[b]
           c == Op("insert", k, 0)
           front == Full(r) /\ k = 1
           slots == IF front THEN {} ELSE Elements(r, k, r.size) \cup Overwritten(r)
           q == IF front THEN r ELSE Appended(r)
           s == Positions(r.size)
           u == InsertAt(s, k, 0)
           after == IF r.size # r.cap THEN u ELSE IF k = 1 THEN s ELSE Tail(u)
           room == r.cap - r.size
           gone == IF Lesser(1, k - 1 + room) = 0 THEN {}
                   ELSE k .. r.size \cup 1 .. Lesser(IF 1 > room THEN 1 - room ELSE 0, k - 1)
<1>1. Call(b, c, slots, q) /\ r \in Rings
    BY DEF Insert, Inv
<1>2. PICK p \in Nat, f \in Nat, n \in Nat : r.cap = p /\ r.first = f /\ r.size = n /\ n <= p /\ (p > 0 => f \in Slots(p))
    BY <1>1, RingIs
<1>3. k \in 1 .. n + 1
    <2>1. Allowed(c, Positions(r.size)) /\ Len(Positions(r.size)) = n
        BY <1>1, <1>2, AllowedIs
    <2> QED
        BY <2>1 DEF Allowed, Op
<1>4. after = After(c, Positions(r.size), r.cap)[1]
    BY <1>2, PositionsAre DEF After, InsertOutcome, Op
<1>5. gone = Invalidated(c, r.size, r.cap)
    BY DEF Invalidated, Op
<1>6. u \in Seq(Nat) /\ Len(u) = n + 1 /\ Keeps(u, 1, k - 1, 0)
    BY <1>2, <1>3, InsertAtKeeps
<1>7. Len(s) = n /\ Keeps(s, 1, n, 0)
    BY <1>2, PositionsKeep
<1>8. /\ Elements(r, k, r.size) \subseteq Slots(r.cap)
      /\ \A m \in 1 .. r.size : Slot(r, m) \in Elements(r, k, r.size) <=> m \in k .. r.size
    <2>1. k \in Int /\ r.size \in Int /\ k >= 1 /\ r.size <= r.size
        BY <1>2, <1>3
    <2> QED
        BY <1>1, <2>1, ElementsAre
<1> HIDE DEF r, c, s, u
<1>9. CASE front
    <2>1. slots = {} /\ q = r /\ n = p /\ k = 1
        BY <1>2, <1>9 DEF Full
    <2>2. after = s
        BY <1>2, <2>1
    <2>3. gone = {}
        BY <1>2, <2>1 DEF Lesser
    <2>4. Turns(r, q, 0, Len(after))
        BY <1>1, <1>2, <1>7, <2>1, <2>2, ShapesTurn
    <2> HIDE DEF q, slots, gone, after
    <2>5. /\ slots \subseteq Slots(r.cap)
          /\ \A m \in 1 .. r.size : m \in gone <=> m \notin 1 .. n
          /\ \A m \in 1 .. r.size : Slot(r, m) \in slots <=> m \notin 1 .. n
        BY <1>2, <2>1, <2>3
    <2>6. 0 \in Int /\ 1 \in Int /\ n \in Int /\ 1 >= 1 /\ n <= r.size /\ Keeps(after, 1, n, 0)
        BY <1>2, <1>7, <2>2
    <2> QED
        BY <1>1, <1>4, <1>5, <2>4, <2>5, <2>6, OpStep DEF r
<1>10. CASE ~Full(r)
    <2>1. slots = Elements(r, k, r.size) /\ q = Appended(r) /\ after = u
        BY <1>10 DEF Full, Overwritten
    <2>2. \A m \in 1 .. r.size : m \in gone <=> m \notin 1 .. k - 1
        BY <1>2, <1>3, <1>10 DEF Lesser, Full
    <2> HIDE DEF q, slots, gone, after
    <2>3. Turns(r, q, 0, Len(after))
        BY <1>1, <1>2, <1>6, <1>10, <2>1, ShapesTurn
    <2>4. \A m \in 1 .. r.size : m \in k .. r.size <=> m \notin 1 .. k - 1
        BY <1>2, <1>3
    <2>5. slots \subseteq Slots(r.cap) /\ \A m \in 1 .. r.size : Slot(r, m) \in slots <=> m \notin 1 .. k - 1
        BY <1>8, <2>1, <2>4
    <2>6. 0 \in Int /\ 1 \in Int /\ k - 1 \in Int /\ 1 >= 1 /\ k - 1 <= r.size /\ Keeps(after, 1, k - 1, 0)
        BY <1>2, <1>3, <1>6, <2>1
    <2> QED
        BY <1>1, <1>4, <1>5, <2>2, <2>3, <2>5, <2>6, OpStep DEF r
<1>11. CASE Full(r) /\ k # 1
    <2>1. slots = Elements(r, k, r.size) \cup Overwritten(r) /\ q = Appended(r) /\ after = Tail(u) /\ n = p
        BY <1>2, <1>11 DEF Full
    <2>2. p > 0 /\ n > 0
        BY <1>2, <1>3, <1>11, <2>1
    <2>3. \A m \in 1 .. r.size : m \in gone <=> m \notin 2 .. k - 1
        BY <1>2, <1>3, <1>11, <2>1 DEF Lesser
    <2> HIDE DEF q, slots, gone, after
    <2>4. Len(after) = n /\ Keeps(after, 2, k - 1, -1)
        <3>1. PICK h \in Int : h = k - 1
            BY <1>3
        <3>2. Keeps(u, 2, h, 0)
            BY <1>6, <3>1 DEF Keeps
        <3>3. 2 \in Int /\ 0 \in Int /\ 2 + 0 > 1 /\ 0 - 1 = -1
            OBVIOUS
        <3>4. Len(Tail(u)) = n /\ Keeps(Tail(u), 2, h, 0 - 1)
            BY <1>6, <3>2, <3>3, TailKeeps
        <3> QED
            BY <2>1, <3>1, <3>3, <3>4
    <2>5. Turns(r, q, -1, Len(after))
        BY <1>1, <1>2, <1>11, <2>1, <2>2, <2>4, ShapesTurn
    <2>6. Overwritten(r) = {Slot(r, 1)} /\ 1 \in 1 .. r.size
        BY <1>1, <1>2, <1>11, <2>2, EndSlots DEF Overwritten
    <2>7. Overwritten(r) \subseteq Slots(r.cap) /\ \A m \in 1 .. r.size : Slot(r, m) \in Overwritten(r) <=> m = 1
        BY <1>1, <2>6, OneSlot
    <2>8. \A m \in 1 .. r.size : m \in k .. r.size \/ m = 1 <=> m \notin 2 .. k - 1
        BY <1>2, <1>3, <1>11
    <2>9. slots \subseteq Slots(r.cap) /\ \A m \in 1 .. r.size : Slot(r, m) \in slots <=> m \notin 2 .. k - 1
        BY <1>8, <2>1, <2>7, <2>8
    <2>10. -1 \in Int /\ 2 \in Int /\ k - 1 \in Int /\ 2 >= 1 /\ k - 1 <= r.size
        BY <1>2, <1>3
    <2> QED
        BY <1>1, <1>4, <1>5, <2>3, <2>4, <2>5, <2>9, <2>10, OpStep DEF r
<1> QED
    BY <1>9, <1>10, <1>11

LEMMA RInsertStep ==
    ASSUME Inv, NEW b \in Buffer, NEW k \in Nat, RInsert(b, k)
    PROVE  Inv'
<1> DEFINE r == ring[b]
           c == Op("rinsert", k, 0)
           back == Full(r) /\ k = r.size + 1
           slots == IF back THEN {} ELSE Elements(r, 1, k - 1) \cup ROverwritten(r)
           q == IF back THEN r ELSE Prepended(r)
           u == InsertAt(Positions(r.size), k, 0)
           after == FirstOf(u, r.cap)
           room == r.cap - r.size
           behind == r.size - k + 1
           gone == IF Lesser(1, behind + room) = 0 THEN {}
                   ELSE 1 .. k - 1 \cup r.size - Lesser(IF 1 > room THEN 1 - room ELSE 0, behind) + 1 .. r.size
<1>1. Call(b, c, slots, q) /\ r \in Rings
    BY DEF RInsert, Inv
<1>2. PICK p \in Nat, f \in Nat, n \in Nat : r.cap = p /\ r.first = f /\ r.size = n /\ n <= p /\ (p > 0 => f \in Slots(p))
    BY <1>1, RingIs
<1>3. k \in 1 .. n + 1
    <2>1. Allowed(c, Positions(r.size)) /\ Len(Positions(r.size)) = n
        BY <1>1, <1>2, AllowedIs
    <2> QED
        BY <2>1 DEF Allowed, Op
<1>4. after = After(c, Positions(r.size), r.cap)[1]
    BY DEF After, RInsertOutcome, Op
<1>5. gone = Invalidated(c, r.size, r.cap)
    BY DEF Invalidated, Op
<1>6. u \in Seq(Nat) /\ Len(u) = n + 1 /\ Keeps(u, 1, k - 1, 0) /\ Keeps(u, k, n, 1)
    BY <1>2, <1>3, InsertAtKeeps
<1>7. /\ Elements(r, 1, k - 1) \subseteq Slots(r.cap)
      /\ \A m \in 1 .. r.size : Slot(r, m) \in Elements(r, 1, k - 1) <=> m \in 1 .. k - 1
    <2>1. 1 \in Int /\ k - 1 \in Int /\ 1 >= 1 /\ k - 1 <= r.size
        BY <1>2, <1>3
    <2> QED
        BY <1>1, <2>1, ElementsAre
<1> HIDE DEF r, c, u
<1>8. PICK l \in Nat : l = n + 1 /\ l = Len(u)
    BY <1>6
<1>9. PICK h \in Int : h = k - 1
    BY <1>3
<1>10. PICK g \in Int : g = n - 1
    OBVIOUS
<1>11. Keeps(u, 1, h, 0) /\ Keeps(u, k, n, 1) /\ Keeps(u, k, g, 1)
    BY <1>6, <1>9, <1>10 DEF Keeps
<1>12. CASE back
    <2>1. slots = {} /\ q = r /\ n = p /\ k = n + 1
        BY <1>2, <1>12 DEF Full
    <2>2. gone = {}
        BY <1>2, <2>1 DEF Lesser
    <2>3. Len(after) = n /\ Keeps(after, 1, n, 0)
        <3>1. n = Lesser(p, Len(u)) /\ h = n
            BY <1>8, <1>9, <2>1 DEF Lesser
        <3>2. n + 0 <= n /\ 0 \in Int /\ 1 \in Int /\ n \in Int /\ Keeps(u, 1, n, 0)
            BY <1>11, <3>1
        <3>3. Len(FirstOf(u, p)) = n /\ Keeps(FirstOf(u, p), 1, n, 0)
            BY <1>6, <3>1, <3>2, FirstKeeps
        <3> QED
            BY <1>2, <3>3
    <2>4. Turns(r, q, 0, Len(after))
        BY <1>1, <1>2, <2>1, <2>3, ShapesTurn
    <2> HIDE DEF q, slots, gone, after
    <2>5. /\ slots \subseteq Slots(r.cap)
          /\ \A m \in 1 .. r.size : m \in gone <=> m \notin 1 .. n
          /\ \A m \in 1 .. r.size : Slot(r, m) \in slots <=> m \notin 1 .. n
        BY <1>2, <2>1, <2>2
    <2>6. 0 \in Int /\ 1 \in Int /\ n \in Int /\ 1 >= 1 /\ n <= r.size
        BY <1>2
    <2> QED
        BY <1>1, <1>4, <1>5, <2>3, <2>4, <2>5, <2>6, OpStep DEF r
<1>13. CASE ~Full(r)
    <2>1. slots = Elements(r, 1, k - 1) /\ q = Prepended(r) /\ n # p
        BY <1>2, <1>13 DEF Full, ROverwritten
    <2>2. \A m \in 1 .. r.size : m \in gone <=> m \notin k .. n
        BY <1>2, <1>3, <2>1 DEF Lesser
    <2>3. Len(after) = n + 1 /\ Keeps(after, k, n, 1)
        <3>1. l = Lesser(p, Len(u))
            BY <1>2, <1>8, <2>1 DEF Lesser
        <3>2. n + 1 <= l /\ 1 \in Int /\ k \in Int /\ n \in Int
            BY <1>3, <1>8
        <3>3. Len(FirstOf(u, p)) = l /\ Keeps(FirstOf(u, p), k, n, 1)
            BY <1>6, <1>11, <3>1, <3>2, FirstKeeps
        <3> QED
            BY <1>2, <1>8, <3>3
    <2> HIDE DEF q, slots, gone, after
    <2>4. Turns(r, q, 1, Len(after))
        BY <1>1, <1>2, <1>13, <2>1, <2>3, ShapesTurn
    <2>5. \A m \in 1 .. r.size : m \in 1 .. k - 1 <=> m \notin k .. n
        BY <1>2, <1>3
    <2>6. slots \subseteq Slots(r.cap) /\ \A m \in 1 .. r.size : Slot(r, m) \in slots <=> m \notin k .. n
        BY <1>7, <2>1, <2>5
    <2>7. 1 \in Int /\ k \in Int /\ n \in Int /\ k >= 1 /\ n <= r.size
        BY <1>2, <1>3
    <2> QED
        BY <1>1, <1>4, <1>5, <2>2, <2>3, <2>4, <2>6, <2>7, OpStep DEF r
<1>14. CASE Full(r) /\ k # r.size + 1
    <2>1. slots = Elements(r, 1, k - 1) \cup ROverwritten(r) /\ q = Prepended(r) /\ n = p /\ k # n + 1
        BY <1>2, <1>14 DEF Full
    <2>2. p > 0 /\ n > 0
        BY <1>2, <1>3, <2>1
    <2>3. \A m \in 1 .. r.size : m \in gone <=> m \notin k .. n - 1
        BY <1>2, <1>3, <2>1 DEF Lesser
    <2>4. Len(after) = n /\ Keeps(after, k, n - 1, 1)
        <3>1. Lesser(p, l) = n
            BY <1>8, <2>1 DEF Lesser
        <3>2. g + 1 <= Lesser(p, l) /\ 1 \in Int /\ k \in Int /\ g \in Int
            BY <1>3, <1>10, <3>1
        <3>4. n = Lesser(p, Len(u)) /\ g + 1 <= n
            BY <1>8, <1>10, <3>1
        <3>3. Len(FirstOf(u, p)) = n /\ Keeps(FirstOf(u, p), k, g, 1)
            BY <1>6, <1>11, <3>2, <3>4, FirstKeeps
        <3> QED
            BY <1>2, <1>10, <3>1, <3>3
    <2> HIDE DEF q, slots, gone, after
    <2>5. Turns(r, q, 1, Len(after))
        BY <1>1, <1>2, <1>14, <2>1, <2>2, <2>4, ShapesTurn
    <2>6. ROverwritten(r) = {Slot(r, n)} /\ n \in 1 .. r.size
        BY <1>1, <1>2, <1>14, <2>2, EndSlots DEF ROverwritten
    <2>7. ROverwritten(r) \subseteq Slots(r.cap) /\ \A m \in 1 .. r.size : Slot(r, m) \in ROverwritten(r) <=> m = n
        BY <1>1, <2>6, OneSlot
    <2>8. \A m \in 1 .. r.size : m \in 1 .. k - 1 \/ m = n <=> m \notin k .. n - 1
        BY <1>2, <1>3, <2>1
    <2>9. slots \subseteq Slots(r.cap) /\ \A m \in 1 .. r.size : Slot(r, m) \in slots <=> m \notin k .. n - 1
        BY <1>7, <2>1, <2>7, <2>8
    <2>10. 1 \in Int /\ k \in Int /\ n - 1 \in Int /\ k >= 1 /\ n - 1 <= r.size
        BY <1>2, <1>3
    <2> QED
        BY <1>1, <1>4, <1>5, <2>3, <2>4, <2>5, <2>9, <2>10, OpStep DEF r
<1> QED
    BY <1>12, <1>13, <1>14

LEMMA SetCapacityStep ==
    ASSUME Inv, NEW b \in Buffer, NEW op \in {"set_capacity", "rset_capacity"}, NEW cap \in Nat,
           SetCapacity(b, op, cap)
    PROVE  Inv'
<1> DEFINE r == ring[b]
           c == Op(op, cap, 0)
           all == Elements(r, 1, r.size)
           slots == IF cap = r.cap THEN {} ELSE all
           new == [cap |-> cap, first |-> 0, size |-> Lesser(cap, r.size)]
           q == IF cap = r.cap THEN r ELSE new
           s == Positions(r.size)
           after == IF op = "set_capacity" THEN FirstOf(s, cap) ELSE LastOf(s, cap)
           gone == IF cap = r.cap THEN {} ELSE 1 .. r.size
<1>1. Call(b, c, slots, q) /\ r \in Rings
    BY DEF SetCapacity, Inv
<1>2. PICK p \in Nat, f \in Nat, n \in Nat : r.cap = p /\ r.first = f /\ r.size = n /\ n <= p /\ (p > 0 => f \in Slots(p))
    BY <1>1, RingIs
<1>3. after = After(c, Positions(r.size), r.cap)[1]
    BY DEF After, SetCapacityOutcome, RSetCapacityOutcome, Op
<1>4. gone = Invalidated(c, r.size, r.cap)
    BY DEF Invalidated, Op
<1>5. s \in Seq(Nat) /\ Len(s) = n /\ Keeps(s, 1, n, 0)
    BY <1>2, PositionsKeep
<1> HIDE DEF r, c, s
<1>6. CASE cap = r.cap
    <2>1. slots = {} /\ q = r /\ gone = {}
        BY <1>6
    <2>2. n = Lesser(cap, Len(s)) /\ 1 + 0 > Len(s) - n /\ 0 - (Len(s) - n) = 0 /\ n + 0 <= n
        BY <1>2, <1>5, <1>6 DEF Lesser
    <2>3. 0 \in Int /\ 1 \in Int /\ n \in Int
        OBVIOUS
    <2>4. Len(FirstOf(s, cap)) = n /\ Keeps(FirstOf(s, cap), 1, n, 0)
        BY <1>5, <2>2, <2>3, FirstKeeps
    <2>5. Len(LastOf(s, cap)) = n /\ Keeps(LastOf(s, cap), 1, n, 0)
        BY <1>5, <2>2, <2>3, LastKeeps
    <2>6. Len(after) = n /\ Keeps(after, 1, n, 0)
        BY <2>4, <2>5
    <2>7. Turns(r, q, 0, Len(after))
        BY <1>1, <1>2, <2>1, <2>6, ShapesTurn
    <2> HIDE DEF q, slots, gone, after
    <2>8. /\ slots \subseteq Slots(r.cap) /\ 1 >= 1 /\ n <= r.size
          /\ \A m \in 1 .. r.size : m \in gone <=> m \notin 1 .. n
          /\ \A m \in 1 .. r.size : Slot(r, m) \in slots <=> m \notin 1 .. n
        BY <1>2, <2>1
    <2> QED
        BY <1>1, <1>3, <1>4, <2>3, <2>6, <2>7, <2>8, OpStep DEF r
<1>7. CASE cap # r.cap
    <2>1. slots = all /\ q = new /\ gone = 1 .. r.size
        BY <1>7
    <2>2. q \in Rings
        <3>1. Lesser(cap, n) \in 0 .. cap /\ 0 \in Pointers(cap)
            BY DEF Lesser, Pointers, Slots
        <3> QED
            BY <1>2, <2>1, <3>1 DEF Rings
    <2>3. all \subseteq Slots(r.cap) /\ \A m \in 1 .. r.size : Slot(r, m) \in all <=> m \in 1 .. r.size
        <3>1. 1 \in Int /\ r.size \in Int /\ 1 >= 1 /\ r.size <= r.size
            BY <1>2
        <3> QED
            BY <1>1, <3>1, ElementsAre
    <2> HIDE DEF q, slots, gone, all
    <2>4. Moves(r, c, slots, q)
        BY <1>4, <2>1, <2>2, <2>3 DEF Moves
    <2> QED
        BY <1>1, <2>4, CallStep DEF r
<1> QED
    BY <1>6, <1>7

\* A full buffer that turns leaves its elements where they are.
LEMMA RotateFull ==
    ASSUME NEW r \in Rings, NEW k \in 1 .. r.size, r.size = r.cap
    PROVE  Moves(r, Op("rotate", k, 0), {}, [r EXCEPT !.first = Slot(r, k)])
<1> DEFINE q == [r EXCEPT !.first = Slot(r, k)]
           c == Op("rotate", k, 0)
           after == SubSeq(Positions(r.size), k, r.size) \o SubSeq(Positions(r.size), 1, k - 1)
<1>1. PICK p \in Nat, f \in Nat, n \in Nat : r.cap = p /\ r.first = f /\ r.size = n /\ n <= p /\ (p > 0 => f \in Slots(p))
    BY RingIs
<1>2. after = After(c, Positions(r.size), r.cap)[1]
    BY <1>1, PositionsAre DEF After, RotateOutcome, Op
<1>3. Invalidated(c, r.size, r.cap) = {}
    BY DEF Invalidated, Op
<1>4. n = p /\ p > 0 /\ f \in Slots(p) /\ k \in 1 .. n
    BY <1>1
<1>5. Len(after) = n /\ Keeps(after, k, n, -(k - 1)) /\ Keeps(after, 1, k - 1, n - k + 1)
    BY <1>1, <1>4, RotationKeeps
<1>6. Slot(r, k) = Add(f, k - 1, p)
    BY <1>1 DEF Slot
<1>7. q.cap = p /\ q.size = n /\ q.first = Add(f, k - 1, p) /\ q \in Rings
    <2>1. Add(f, k - 1, p) \in Slots(p)
        BY <1>4 DEF Add, Slots
    <2> QED
        BY <1>1, <1>4, <1>6, <2>1 DEF Rings, Pointers, Slots
<1> HIDE DEF q, after, c
<1>8. ASSUME NEW j \in 1 .. n
      PROVE  \E m \in 1 .. n : /\ Slot(q, m) = Slot(r, j)
                               /\ \A i \in 1 .. n : after[i] = j <=> i = m
    <2>1. CASE j >= k
        <3>1. PICK m \in Int : m = j - (k - 1)
            OBVIOUS
        <3>2. j \in k .. n /\ j + (-(k - 1)) = m
            BY <2>1, <3>1
        <3>3. m \in 1 .. n /\ \A i \in 1 .. n : after[i] = j <=> i = m
            BY <1>5, <3>2 DEF Keeps
        <3>4. Add(Add(f, k - 1, p), m - 1, p) = Add(f, j - 1, p)
            BY <1>4, <3>1, <3>2, <3>3 DEF Add, Slots
        <3> QED
            BY <1>1, <1>7, <3>3, <3>4 DEF Slot
    <2>2. CASE j < k
        <3>1. PICK m \in Int : m = j + (n - k + 1)
            OBVIOUS
        <3>2. j \in 1 .. k - 1
            BY <2>2
        <3>3. m \in 1 .. n /\ \A i \in 1 .. n : after[i] = j <=> i = m
            BY <1>5, <3>1, <3>2 DEF Keeps
        <3>4. Add(Add(f, k - 1, p), m - 1, p) = Add(f, j - 1, p)
            BY <1>4, <3>1, <3>2, <3>3 DEF Add, Slots
        <3> QED
            BY <1>1, <1>7, <3>3, <3>4 DEF Slot
    <2> QED
        BY <2>1, <2>2
<1>9. after = After(c, [i \in 1 .. r.size |-> i], r.cap)[1]
    BY <1>2 DEF Positions
<1>10. ASSUME NEW j \in 1 .. r.size
      PROVE  /\ \E m \in 1 .. Len(after) : after[m] = j
             /\ \A m \in 1 .. Len(after) : after[m] = j => m \in 1 .. q.size /\ Slot(q, m) = Slot(r, j)
    <2>1. PICK m \in 1 .. n : Slot(q, m) = Slot(r, j) /\ \A i \in 1 .. n : after[i] = j <=> i = m
        BY <1>1, <1>8
    <2> QED
        BY <1>5, <1>7, <2>1
<1>11. Moves(r, c, {}, q)
    BY <1>3, <1>7, <1>9, <1>10 DEF Moves
<1> QED
    BY <1>11 DEF q, c

LEMMA RotateStep ==
    ASSUME Inv, NEW b \in Buffer, NEW k \in Nat, Rotate(b, k)
    PROVE  Inv'
<1> DEFINE r == ring[b]
           c == Op("rotate", k, 0)
           m == r.size - k + 1
           low == m < k - 1
           slots == IF Full(r) THEN {} ELSE IF low THEN Elements(r, k, r.size) ELSE Elements(r, 1, k - 1)
           q == IF Full(r) THEN [r EXCEPT !.first = Slot(r, k)]
                ELSE IF low THEN [r EXCEPT !.first = Sub(@, m, r.cap)]
                ELSE [r EXCEPT !.first = Add(@, k - 1, r.cap)]
           after == SubSeq(Positions(r.size), k, r.size) \o SubSeq(Positions(r.size), 1, k - 1)
           gone == IF r.size = r.cap THEN {} ELSE IF low THEN k .. r.size ELSE 1 .. k - 1
<1>1. Call(b, c, slots, q) /\ r \in Rings
    BY DEF Rotate, Inv
<1>2. PICK p \in Nat, f \in Nat, n \in Nat : r.cap = p /\ r.first = f /\ r.size = n /\ n <= p /\ (p > 0 => f \in Slots(p))
    BY <1>1, RingIs
<1>3. k \in 1 .. n
    <2>1. Allowed(c, Positions(r.size)) /\ Len(Positions(r.size)) = n
        BY <1>1, <1>2, AllowedIs
    <2> QED
        BY <2>1 DEF Allowed, Op
<1>4. after = After(c, Positions(r.size), r.cap)[1]
    BY <1>2, PositionsAre DEF After, RotateOutcome, Op
<1>5. gone = Invalidated(c, r.size, r.cap)
    BY DEF Invalidated, Op
<1>6. CASE Full(r)
    <2>1. slots = {} /\ q = [r EXCEPT !.first = Slot(r, k)]
        BY <1>6
    <2>2. Moves(r, c, slots, q)
        BY <1>1, <1>2, <1>3, <1>6, <2>1, RotateFull DEF Full
    <2> HIDE DEF r, c, slots, q
    <2> QED
        BY <1>1, <2>2, CallStep DEF r
<1>7. Len(after) = n /\ Keeps(after, k, n, -(k - 1)) /\ Keeps(after, 1, k - 1, n - k + 1)
    BY <1>2, <1>3, RotationKeeps
<1> HIDE DEF r, c, after
<1>8. r \in [cap : Int, first : Int, size : Int] /\ p > 0 /\ f \in Slots(p)
    BY <1>1, <1>2, <1>3 DEF Rings
<1>9. CASE ~Full(r) /\ low
    <2>1. slots = Elements(r, k, r.size) /\ gone = k .. r.size /\ q = [r EXCEPT !.first = Sub(f, m, p)]
        BY <1>2, <1>9 DEF Full
    <2>2. PICK d \in Int : d = n - k + 1 /\ d = m
        BY <1>2
    <2>3. d > 0 /\ d <= p /\ Sub(f, d, p) \in Int /\ Turned(r, d) = Sub(f, d, p)
        BY <1>2, <1>3, <1>8, <2>2 DEF Turned, Sub, Slots
    <2> HIDE DEF m, low
    <2>4. q = [r EXCEPT !.first = Sub(f, d, p)]
        BY <2>1, <2>2
    <2> HIDE DEF q, slots, gone
    <2>5. q \in [cap : Int, first : Int, size : Int] /\ q.cap = r.cap /\ q.first = Sub(f, d, p) /\ q.size = n
        BY <1>2, <1>8, <2>3, <2>4
    <2>6. Turns(r, q, d, Len(after))
        BY <1>2, <1>7, <2>3, <2>5 DEF Turns
    <2>7. Keeps(after, 1, k - 1, d) /\ 1 \in Int /\ k - 1 \in Int /\ 1 >= 1 /\ k - 1 <= r.size
        BY <1>2, <1>3, <1>7, <2>2
    <2>8. slots \subseteq Slots(r.cap) /\ \A j \in 1 .. r.size : Slot(r, j) \in slots <=> j \in k .. r.size
        <3>1. k \in Int /\ r.size \in Int /\ k >= 1 /\ r.size <= r.size
            BY <1>2, <1>3
        <3> QED
            BY <1>1, <2>1, <3>1, ElementsAre
    <2>9. \A j \in 1 .. r.size : j \in k .. r.size <=> j \notin 1 .. k - 1
        BY <1>2, <1>3
    <2>10. /\ \A j \in 1 .. r.size : j \in gone <=> j \notin 1 .. k - 1
           /\ \A j \in 1 .. r.size : Slot(r, j) \in slots <=> j \notin 1 .. k - 1
        BY <2>1, <2>8, <2>9
    <2> QED
        BY <1>1, <1>4, <1>5, <2>6, <2>7, <2>8, <2>10, OpStep DEF r
<1>10. CASE ~Full(r) /\ ~low
    <2>1. slots = Elements(r, 1, k - 1) /\ gone = 1 .. k - 1 /\ q = [r EXCEPT !.first = Add(f, k - 1, p)]
        BY <1>2, <1>10 DEF Full
    <2>2. PICK e \in Nat : e = k - 1
        BY <1>3
    <2>3. -e \in -p .. p /\ Add(f, e, p) \in Int
        BY <1>2, <1>3, <1>8, <2>2 DEF Add, Slots
    <2>4. Turned(r, -e) = Add(f, e, p)
        <3>1. CASE e > 0
            <4>1. -e < 0 /\ -(-e) = e
                BY <3>1
            <4> QED
                BY <1>2, <4>1 DEF Turned
        <3>2. CASE e = 0
            <4>1. n \in 0 .. r.size /\ 0 \in 0 .. r.size
                BY <1>2
            <4>2. Turns(r, Advanced(r, e), -e, r.size - e)
                BY <1>1, <3>2, <4>1, ShapesTurn
            <4>3. Advanced(r, e) = [r EXCEPT !.first = Add(f, e, p), !.size = @ - e]
                BY <1>2 DEF Advanced
            <4>4. Advanced(r, e).first = Add(f, e, p)
                BY <1>8, <4>3
            <4> QED
                BY <4>2, <4>4 DEF Turns
        <3> QED
            BY <3>1, <3>2
    <2>5. q = [r EXCEPT !.first = Add(f, e, p)]
        BY <2>1, <2>2
    <2> HIDE DEF q, slots, gone, m, low
    <2>6. q \in [cap : Int, first : Int, size : Int] /\ q.cap = r.cap /\ q.first = Add(f, e, p) /\ q.size = n
        BY <1>2, <1>8, <2>3, <2>5
    <2>7. Turns(r, q, -e, Len(after))
        BY <1>2, <1>7, <2>3, <2>4, <2>6 DEF Turns
    <2>8. Keeps(after, k, n, -e) /\ -e \in Int /\ k \in Int /\ n \in Int /\ k >= 1 /\ n <= r.size
        BY <1>2, <1>3, <1>7, <2>2
    <2>9. slots \subseteq Slots(r.cap) /\ \A j \in 1 .. r.size : Slot(r, j) \in slots <=> j \in 1 .. k - 1
        <3>1. 1 \in Int /\ k - 1 \in Int /\ 1 >= 1 /\ k - 1 <= r.size
            BY <1>2, <1>3
        <3> QED
            BY <1>1, <2>1, <3>1, ElementsAre
    <2>10. \A j \in 1 .. r.size : j \in 1 .. k - 1 <=> j \notin k .. n
        BY <1>2, <1>3
    <2>11. /\ \A j \in 1 .. r.size : j \in gone <=> j \notin k .. n
           /\ \A j \in 1 .. r.size : Slot(r, j) \in slots <=> j \notin k .. n
        BY <2>1, <2>9, <2>10
    <2> QED
        BY <1>1, <1>4, <1>5, <2>7, <2>8, <2>9, <2>11, OpStep DEF r
<1> QED
    BY <1>6, <1>9, <1>10

LEMMA TurnedBack ==
    ASSUME NEW r \in Rings, NEW p \in Nat, p = r.cap, NEW f \in Nat, f = r.first, NEW e \in Nat, e <= p
    PROVE  Turned(r, -e) = Add(f, e, p)
<1>1. CASE e > 0
    <2>1. -e < 0 /\ -(-e) = e
        BY <1>1
    <2> QED
        BY <2>1 DEF Turned
<1>2. CASE e = 0
    <2>1. PICK n \in Nat : n = r.size
        BY DEF Rings
    <2>2. 0 \in 0 .. r.size
        BY <2>1
    <2>3. Turns(r, Advanced(r, e), -e, r.size - e)
        BY <1>2, <2>2, ShapesTurn
    <2>4. Advanced(r, e) = [r EXCEPT !.first = Add(f, e, p), !.size = @ - e]
        BY DEF Advanced
    <2>5. Advanced(r, e).first = Add(f, e, p)
        BY <2>4 DEF Rings
    <2> QED
        BY <2>3, <2>5 DEF Turns
<1> QED
    BY <1>1, <1>2

\* Walking on from offset o, the t-th slot is the one of element j.
LEMMA Walking ==
    ASSUME NEW p \in Nat \ {0}, NEW f \in Slots(p), NEW o \in 0 .. p, NEW t \in 0 .. p - 1, NEW j \in 1 .. p
    PROVE  Add(Add(f, o, p), t, p) = Add(f, j - 1, p) <=> o + t = j - 1 \/ o + t = j - 1 + p
BY DEF Add, Slots

\* slots are those of the elements in the w slots from offset o on.
Walk(r, o, w, slots) ==
    /\ slots \subseteq Slots(r.cap)
    /\ \A j \in 1 .. r.size :
          Slot(r, j) \in slots <=> j - 1 \in o .. o + w - 1 \/ j - 1 + r.cap \in o .. o + w - 1

LEMMA WalkIs ==
    ASSUME NEW r \in Rings, NEW p \in Nat \ {0}, p = r.cap, NEW o \in 0 .. p, NEW w \in 0 .. p, NEW first,
           first = Add(r.first, o, p),
           NEW slots, slots = Window(r.first, r.size, r.cap) \cap {Add(first, t, r.cap) : t \in 0 .. w - 1}
    PROVE  Walk(r, o, w, slots)
<1>1. PICK f \in Nat, n \in Nat : r.first = f /\ r.size = n /\ n <= p /\ f \in Slots(p)
    BY RingIs
<1>2. slots \subseteq Slots(r.cap)
    BY DEF Window
<1>3. ASSUME NEW j \in 1 .. n
      PROVE  Slot(r, j) \in slots <=> j - 1 \in o .. o + w - 1 \/ j - 1 + p \in o .. o + w - 1
    <2>1. Slot(r, j) \in Slots(r.cap) /\ Index(Slot(r, j), r.first, r.cap) = j - 1
        BY <1>1, SlotIsNotNull
    <2>2. Slot(r, j) \in Window(r.first, r.size, r.cap)
        <3>1. j - 1 < n
            OBVIOUS
        <3> QED
            BY <1>1, <2>1, <3>1 DEF Window
    <2>3. Slot(r, j) = Add(f, j - 1, p)
        BY <1>1 DEF Slot
    <2>4. j \in 1 .. p /\ \A t \in 0 .. w - 1 : t \in 0 .. p - 1
        BY <1>1
    <2>5. \A t \in 0 .. w - 1 : Add(first, t, p) = Slot(r, j) <=> o + t = j - 1 \/ o + t = j - 1 + p
        BY <1>1, <2>3, <2>4, Walking
    <2>6. Slot(r, j) \in slots <=> \E t \in 0 .. w - 1 : Add(first, t, p) = Slot(r, j)
        BY <2>2
    <2>7. (\E t \in 0 .. w - 1 : o + t = j - 1 \/ o + t = j - 1 + p)
             <=> j - 1 \in o .. o + w - 1 \/ j - 1 + p \in o .. o + w - 1
        <3>1. ASSUME j - 1 \in o .. o + w - 1 PROVE \E t \in 0 .. w - 1 : o + t = j - 1 \/ o + t = j - 1 + p
            <4>1. j - 1 - o \in 0 .. w - 1 /\ o + (j - 1 - o) = j - 1
                BY <3>1
            <4> QED
                BY <4>1
        <3>2. ASSUME j - 1 + p \in o .. o + w - 1 PROVE \E t \in 0 .. w - 1 : o + t = j - 1 \/ o + t = j - 1 + p
            <4>1. j - 1 + p - o \in 0 .. w - 1 /\ o + (j - 1 + p - o) = j - 1 + p
                BY <3>2
            <4> QED
                BY <4>1
        <3>3. \A t \in 0 .. w - 1 : o + t = j - 1 \/ o + t = j - 1 + p
                 => j - 1 \in o .. o + w - 1 \/ j - 1 + p \in o .. o + w - 1
            OBVIOUS
        <3> QED
            BY <3>1, <3>2, <3>3
    <2> QED
        BY <2>5, <2>6, <2>7
<1> QED
    BY <1>1, <1>2, <1>3 DEF Walk

\* The numbers of an insertion of cnt items at position k of n elements: how
\* many are kept, how many of them are built in free slots, how many exceed the
\* free slots, and the elements the walk over the slots from k on comes by.
InsertNumbers(p, n, k, cnt, copy, built, excess) ==
    /\ copy \in 0 .. p /\ built \in 0 .. copy /\ excess \in Nat
    /\ Lesser(cnt, k - 1 + (p - n)) = copy
    /\ n + built = Lesser(p, n + cnt) /\ (n + cnt) - Lesser(p, n + cnt) = excess
    /\ Lesser(excess, k - 1) = copy - built
    /\ copy > 0 => copy - built = excess \/ copy - built = k - 1
    /\ copy = 0 => built = 0 /\ (cnt = 0 \/ (n = p /\ k = 1 /\ excess = cnt))
    /\ \A j \in 1 .. n : j - 1 \in k - 1 .. k - 1 + (n - k + 1 + copy) - 1
                         \/ j - 1 + p \in k - 1 .. k - 1 + (n - k + 1 + copy) - 1
          <=> copy + (n - k + 1) > 0 /\ j \notin copy - built + 1 .. k - 1

LEMMA InsertNumbersAre ==
    ASSUME NEW p \in Nat, NEW n \in 0 .. p, NEW k \in 1 .. n + 1, NEW cnt \in Nat,
           NEW copy, copy = Lesser(cnt, p - (n - k + 1)), NEW built, built = Lesser(copy, p - n),
           NEW excess, excess = IF cnt > p - n THEN cnt - (p - n) ELSE 0
    PROVE  InsertNumbers(p, n, k, cnt, copy, built, excess)
<1>1. CASE cnt <= p - n
    <2>1. copy = cnt /\ built = cnt /\ excess = 0
        BY <1>1 DEF Lesser
    <2>2. /\ Lesser(cnt, k - 1 + (p - n)) = cnt /\ Lesser(p, n + cnt) = n + cnt /\ Lesser(0, k - 1) = 0
        BY <1>1 DEF Lesser
    <2>3. cnt <= p
        BY <1>1
    <2>4. \A j \in 1 .. n : j - 1 \in k - 1 .. k - 1 + (n - k + 1 + cnt) - 1
                            \/ j - 1 + p \in k - 1 .. k - 1 + (n - k + 1 + cnt) - 1
             <=> cnt + (n - k + 1) > 0 /\ j \notin cnt - cnt + 1 .. k - 1
        BY <1>1
    <2>5. copy \in 0 .. p /\ built \in 0 .. copy /\ excess \in Nat
        BY <2>1, <2>3
    <2>6. Lesser(cnt, k - 1 + (p - n)) = copy /\ n + built = Lesser(p, n + cnt)
        BY <2>1, <2>2
    <2>7. (n + cnt) - Lesser(p, n + cnt) = excess /\ Lesser(excess, k - 1) = copy - built
        <3>1. (n + cnt) - (n + cnt) = 0 /\ cnt - cnt = 0
            OBVIOUS
        <3> QED
            BY <2>1, <2>2, <3>1
    <2>8. copy > 0 => copy - built = excess \/ copy - built = k - 1
        BY <2>1
    <2>9. copy = 0 => built = 0 /\ (cnt = 0 \/ (n = p /\ k = 1 /\ excess = cnt))
        <3>1. copy = 0 => built = 0 /\ cnt = 0
            BY <2>1
        <3> QED
            BY <3>1
    <2>10. \A j \in 1 .. n : j - 1 \in k - 1 .. k - 1 + (n - k + 1 + copy) - 1
                             \/ j - 1 + p \in k - 1 .. k - 1 + (n - k + 1 + copy) - 1
             <=> copy + (n - k + 1) > 0 /\ j \notin copy - built + 1 .. k - 1
        BY <2>1, <2>4
    <2> QED
        BY <2>5, <2>6, <2>7, <2>8, <2>9, <2>10, Zenon DEF InsertNumbers
<1>2. CASE cnt > p - n
    <2>1. PICK e \in Nat : e = Lesser(cnt - (p - n), k - 1)
        BY <1>2 DEF Lesser
    <2>2. e <= k - 1 /\ (e = cnt - (p - n) \/ e = k - 1)
        BY <1>2, <2>1 DEF Lesser
    <2>3. copy = e + (p - n) /\ built = p - n /\ excess = cnt - (p - n)
        BY <1>2, <2>1 DEF Lesser
    <2>4. Lesser(cnt, k - 1 + (p - n)) = e + (p - n) /\ Lesser(p, n + cnt) = p
        BY <1>2, <2>1 DEF Lesser
    <2>5. e = 0 /\ p = n => k = 1
        BY <1>2, <2>2
    <2>6. \A j \in 1 .. n : j - 1 \in k - 1 .. k - 1 + (n - k + 1 + (e + (p - n))) - 1
                            \/ j - 1 + p \in k - 1 .. k - 1 + (n - k + 1 + (e + (p - n))) - 1
             <=> (e + (p - n)) + (n - k + 1) > 0 /\ j \notin (e + (p - n)) - (p - n) + 1 .. k - 1
        BY <2>2
    <2> QED
        BY <1>2, <2>1, <2>2, <2>3, <2>4, <2>5, <2>6 DEF InsertNumbers
<1> QED
    BY <1>1, <1>2

LEMMA InsertNStep ==
    ASSUME Inv, NEW b \in Buffer, NEW k \in Nat, NEW cnt \in Nat, InsertN(b, k, cnt)
    PROVE  Inv'
<1> DEFINE r == ring[b]
           c == Op("insert_n", k, cnt)
           tail == r.size - k + 1
           copy == Lesser(cnt, r.cap - tail)
           built == Lesser(copy, r.cap - r.size)
           moved == [r EXCEPT !.first = Add(@, copy - built, r.cap), !.size = @ + built]
           touched == Window(r.first, r.size, r.cap) \cap {Add(Slot(r, k), t, r.cap) : t \in 0 .. tail + copy - 1}
           slots == IF copy = 0 THEN {} ELSE touched
           q == IF copy = 0 THEN r ELSE moved
           s == Positions(r.size)
           u == SubSeq(s, 1, k - 1) \o Copies(cnt, 0) \o SubSeq(s, k, r.size)
           after == LastOf(u, r.cap)
           room == r.cap - r.size
           excess == IF cnt > room THEN cnt - room ELSE 0
           gone == IF Lesser(cnt, k - 1 + room) = 0 THEN {} ELSE k .. r.size \cup 1 .. Lesser(excess, k - 1)
<1>1. Call(b, c, slots, q) /\ r \in Rings
    BY DEF InsertN, Inv
<1>2. PICK p \in Nat, f \in Nat, n \in Nat : r.cap = p /\ r.first = f /\ r.size = n /\ n <= p /\ (p > 0 => f \in Slots(p))
    BY <1>1, RingIs
<1>3. k \in 1 .. n + 1
    <2>1. Allowed(c, Positions(r.size)) /\ Len(Positions(r.size)) = n
        BY <1>1, <1>2, AllowedIs
    <2> QED
        BY <2>1 DEF Allowed, Op
<1>4. after = After(c, Positions(r.size), r.cap)[1]
    BY <1>2, PositionsAre DEF After, InsertNOutcome, WithCopies, Op
<1>5. gone = Invalidated(c, r.size, r.cap)
    BY DEF Invalidated, Op
<1>6. u \in Seq(Nat) /\ Len(u) = n + cnt /\ Keeps(u, 1, k - 1, 0) /\ Keeps(u, k, n, cnt)
    <2>1. Copies(cnt, 0) \in Seq(Nat) /\ Len(Copies(cnt, 0)) = cnt /\ \A m \in 1 .. Len(Copies(cnt, 0)) : Copies(cnt, 0)[m] = 0
        BY CopiesAre
    <2> DEFINE z == Copies(cnt, 0)
    <2> HIDE DEF r, z
    <2>2. LET x == SubSeq(Positions(n), 1, k - 1) \o z \o SubSeq(Positions(n), k, n) IN
          x \in Seq(Nat) /\ Len(x) = n + Len(z) /\ Keeps(x, 1, k - 1, 0) /\ Keeps(x, k, n, Len(z))
        BY <1>3, <2>1, InsertionKeeps DEF z
    <2>3. u = SubSeq(Positions(n), 1, k - 1) \o z \o SubSeq(Positions(n), k, n) /\ Len(z) = cnt
        BY <1>2, <2>1 DEF z
    <2> HIDE DEF u
    <2> QED
        BY <2>2, <2>3
<1> DEFINE C == Lesser(cnt, p - (n - k + 1))
           B == Lesser(C, p - n)
           X == IF cnt > p - n THEN cnt - (p - n) ELSE 0
<1>7. copy = C /\ built = B /\ excess = X /\ room = p - n /\ tail = n - k + 1
    BY <1>2
<1>8. /\ C \in 0 .. p /\ B \in 0 .. C /\ X \in Nat
      /\ Lesser(cnt, k - 1 + (p - n)) = C
      /\ n + B = Lesser(p, n + cnt) /\ (n + cnt) - Lesser(p, n + cnt) = X
      /\ Lesser(X, k - 1) = C - B
      /\ C > 0 => C - B = X \/ C - B = k - 1
      /\ C = 0 => B = 0 /\ (cnt = 0 \/ (n = p /\ k = 1 /\ X = cnt))
      /\ \A j \in 1 .. n : j - 1 \in k - 1 .. k - 1 + (n - k + 1 + C) - 1
                           \/ j - 1 + p \in k - 1 .. k - 1 + (n - k + 1 + C) - 1
            <=> C + (n - k + 1) > 0 /\ j \notin C - B + 1 .. k - 1
    <2>1. C = Lesser(cnt, p - (n - k + 1)) /\ B = Lesser(C, p - n) /\ X = IF cnt > p - n THEN cnt - (p - n) ELSE 0
        OBVIOUS
    <2>2. n \in 0 .. p
        BY <1>2
    <2> HIDE DEF C, B, X
    <2>3. InsertNumbers(p, n, k, cnt, C, B, X)
        BY <1>3, <2>1, <2>2, InsertNumbersAre, Zenon
    <2> QED
        BY <2>3 DEF InsertNumbers
<1> HIDE DEF r, c, u, C, B, X
<1>9. CASE C = 0
    <2>1. slots = {} /\ q = r
        BY <1>7, <1>9
    <2>2. gone = {}
        BY <1>2, <1>7, <1>8, <1>9
    <2>3. Len(after) = n /\ Keeps(after, 1, n, 0)
        <3>1. Lesser(p, Len(u)) = n /\ Len(u) - n = X
            BY <1>6, <1>8, <1>9
        <3>2. CASE cnt = 0
            <4>1. Keeps(u, 1, n, 0)
                <5>1. \A j \in 1 .. n : j + 0 \in 1 .. n /\ \A m \in 1 .. n : u[m] = j <=> m = j + 0
                    <6> TAKE j \in 1 .. n
                    <6>1. Len(u) = n /\ (j \in 1 .. k - 1 \/ j \in k .. n) /\ cnt = 0
                        BY <1>3, <1>6, <3>2
                    <6>2. j + 0 \in 1 .. Len(u) /\ \A m \in 1 .. Len(u) : u[m] = j <=> m = j + 0
                        BY <1>6, <6>1 DEF Keeps
                    <6> QED
                        BY <6>1, <6>2
                <5>2. Len(u) = n
                    BY <1>6, <3>2
                <5> QED
                    BY <5>1, <5>2 DEF Keeps
            <4>2. 1 + 0 > Len(u) - Lesser(p, Len(u)) /\ 0 - (Len(u) - Lesser(p, Len(u))) = 0
                BY <1>6, <3>1, <3>2
            <4>3. 0 \in Int /\ 1 \in Int /\ n \in Int
                OBVIOUS
            <4>4. Len(LastOf(u, p)) = Lesser(p, Len(u)) /\ Keeps(LastOf(u, p), 1, n, 0)
                BY <1>6, <4>1, <4>2, <4>3, LastKeeps
            <4> QED
                BY <1>2, <3>1, <4>4
        <3>3. CASE k = 1 /\ X = cnt
            <4>1. Keeps(u, 1, n, cnt)
                BY <1>6, <3>3
            <4>2. 1 + cnt > Len(u) - Lesser(p, Len(u)) /\ cnt - (Len(u) - Lesser(p, Len(u))) = 0
                BY <1>6, <3>1, <3>3
            <4>3. cnt \in Int /\ 1 \in Int /\ n \in Int
                OBVIOUS
            <4>4. Len(LastOf(u, p)) = Lesser(p, Len(u)) /\ Keeps(LastOf(u, p), 1, n, 0)
                BY <1>6, <4>1, <4>2, <4>3, LastKeeps
            <4> QED
                BY <1>2, <3>1, <4>4
        <3> QED
            BY <1>8, <1>9, <3>2, <3>3
    <2>4. Turns(r, q, 0, Len(after))
        BY <1>1, <1>2, <2>1, <2>3, ShapesTurn
    <2> HIDE DEF q, slots, gone, after
    <2>5. /\ slots \subseteq Slots(r.cap) /\ 0 \in Int /\ 1 \in Int /\ n \in Int /\ 1 >= 1 /\ n <= r.size
          /\ \A m \in 1 .. r.size : m \in gone <=> m \notin 1 .. n
          /\ \A m \in 1 .. r.size : Slot(r, m) \in slots <=> m \notin 1 .. n
        BY <1>2, <2>1, <2>2
    <2> QED
        BY <1>1, <1>4, <1>5, <2>3, <2>4, <2>5, OpStep DEF r
<1>10. CASE C # 0
    <2>1. slots = touched /\ q = moved
        BY <1>7, <1>10
    <2>2. PICK e \in Nat : e = C - B /\ e <= p /\ e <= k - 1
        BY <1>3, <1>8 DEF Lesser
    <2>3. gone = k .. n \cup 1 .. e
        BY <1>2, <1>7, <1>8, <1>10, <2>2
    <2>4. p > 0 /\ f \in Slots(p)
        BY <1>2, <1>8, <1>10
    <2>5. touched \subseteq Slots(r.cap) /\ \A j \in 1 .. r.size : Slot(r, j) \in touched <=> j \notin e + 1 .. k - 1
        <3>1. PICK w \in Nat : w = n - k + 1 + C
            BY <1>3, <1>8
        <3>2. k - 1 \in 0 .. p /\ w \in 0 .. p /\ p \in Nat \ {0}
            BY <1>2, <1>3, <1>8, <2>4, <3>1 DEF C, Lesser
        <3>3. Slot(r, k) = Add(r.first, k - 1, p)
            BY <1>2 DEF Slot
        <3>4. touched = Window(r.first, r.size, r.cap) \cap {Add(Slot(r, k), t, r.cap) : t \in 0 .. w - 1}
            <4>2. C \in Int
                BY <1>8
            <4>1. tail + copy - 1 = w - 1
                BY <1>7, <3>1, <4>2
            <4> HIDE DEF tail, copy
            <4> QED
                BY <4>1
        <3>7. PICK o \in 0 .. p : o = k - 1
            BY <3>2
        <3> HIDE DEF touched
        <3>5. /\ touched \subseteq Slots(r.cap)
              /\ \A j \in 1 .. r.size :
                    Slot(r, j) \in touched <=> j - 1 \in k - 1 .. k - 1 + w - 1 \/ j - 1 + p \in k - 1 .. k - 1 + w - 1
            <4>1. /\ touched \subseteq Slots(r.cap)
                  /\ \A j \in 1 .. r.size :
                        Slot(r, j) \in touched <=> j - 1 \in o .. o + w - 1 \/ j - 1 + p \in o .. o + w - 1
                <5>1. p = r.cap /\ Slot(r, k) = Add(r.first, o, p)
                    BY <1>2, <3>3, <3>7
                <5>2. r \in Rings
                    BY <1>1
                <5>3. Walk(r, o, w, touched)
                    BY <3>2, <3>4, <5>1, <5>2, WalkIs, Zenon
                <5> QED
                    BY <5>1, <5>3 DEF Walk
            <4> QED
                BY <3>7, <4>1
        <3>6. \A j \in 1 .. n : j - 1 \in k - 1 .. k - 1 + w - 1 \/ j - 1 + p \in k - 1 .. k - 1 + w - 1 <=> j \notin e + 1 .. k - 1
            <4>1. C + (n - k + 1) > 0
                BY <1>3, <1>8, <1>10
            <4> QED
                BY <1>8, <2>2, <3>1, <4>1
        <3> QED
            BY <1>2, <3>5, <3>6
    <2>6. Len(after) = n + B
        <3>1. Len(LastOf(u, p)) = Lesser(p, Len(u))
            BY <1>6, CutIs
        <3> QED
            BY <1>2, <1>6, <1>8, <3>1
    <2>7. Keeps(after, e + 1, k - 1, -e)
        <3>1. CASE e = X
            <4>1. PICK lo \in Int : lo = e + 1 /\ lo >= 1
                OBVIOUS
            <4>2. Keeps(u, lo, k - 1, 0)
                BY <1>6, <4>1 DEF Keeps
            <4>3. lo + 0 > Len(u) - Lesser(p, Len(u)) /\ 0 - (Len(u) - Lesser(p, Len(u))) = -e
                BY <1>6, <1>8, <3>1, <4>1
            <4>4. 0 \in Int /\ k - 1 \in Int
                OBVIOUS
            <4>5. Keeps(LastOf(u, p), lo, k - 1, 0 - (Len(u) - Lesser(p, Len(u))))
                BY <1>6, <4>2, <4>3, <4>4, LastKeeps
            <4> QED
                BY <1>2, <4>1, <4>3, <4>5
        <3>2. CASE e = k - 1
            <4>1. e + 1 .. k - 1 = {}
                BY <3>2
            <4>2. n + B \in Nat
                BY <1>8
            <4> HIDE DEF after
            <4> QED
                BY <2>6, <4>1, <4>2 DEF Keeps
        <3> QED
            BY <1>8, <1>10, <2>2, <3>1, <3>2
    <2>8. Turns(r, q, -e, Len(after))
        <3>1. /\ Add(f, e, p) \in Int /\ n + B \in Int /\ -e \in -p .. p /\ n + B \in 0 .. p
            BY <1>2, <1>8, <2>2, <2>4 DEF Add, Slots, Lesser
        <3>2. Turned(r, -e) = Add(f, e, p)
            BY <1>1, <1>2, <2>2, <2>4, TurnedBack
        <3>3. q = [r EXCEPT !.first = Add(f, e, p), !.size = n + B]
            BY <1>2, <1>7, <2>1, <2>2
        <3> HIDE DEF q
        <3>5. q = [cap |-> p, first |-> Add(f, e, p), size |-> n + B]
            BY <1>1, <1>2, <3>3 DEF Rings
        <3>4. q \in [cap : Int, first : Int, size : Int] /\ q.cap = r.cap /\ q.first = Add(f, e, p) /\ q.size = n + B
            BY <1>2, <3>1, <3>5
        <3> QED
            BY <1>2, <2>6, <3>1, <3>2, <3>4 DEF Turns
    <2> HIDE DEF q, slots, gone, after, touched
    <2>9. \A j \in 1 .. r.size : j \in gone <=> j \notin e + 1 .. k - 1
        BY <1>2, <1>3, <2>2, <2>3
    <2>10. -e \in Int /\ e + 1 \in Int /\ k - 1 \in Int /\ e + 1 >= 1 /\ k - 1 <= r.size
        BY <1>2, <1>3
    <2> QED
        BY <1>1, <1>4, <1>5, <2>1, <2>5, <2>7, <2>8, <2>9, <2>10, OpStep DEF r
<1> QED
    BY <1>9, <1>10

\* The same of an insertion whose items move the elements in front of position k.
RInsertNumbers(p, n, k, cnt, copy, built, excess) ==
    /\ copy \in 0 .. p /\ built \in 0 .. copy /\ excess \in Nat
    /\ Lesser(cnt, n - k + 1 + (p - n)) = copy
    /\ n + built = Lesser(p, n + cnt)
    /\ Lesser(excess, n - k + 1) = copy - built
    /\ copy > 0 => (copy = cnt \/ copy - built = n - k + 1)
    /\ copy = 0 => built = 0 /\ (cnt = 0 \/ (n = p /\ k = n + 1))
    /\ \A j \in 1 .. n : j - 1 \in p - copy .. p - copy + (k - 1 + copy) - 1
                         \/ j - 1 + p \in p - copy .. p - copy + (k - 1 + copy) - 1
          <=> k - 1 + copy > 0 /\ j \notin k .. n - (copy - built)

LEMMA RInsertNumbersAre ==
    ASSUME NEW p \in Nat, NEW n \in 0 .. p, NEW k \in 1 .. n + 1, NEW cnt \in Nat,
           NEW copy, copy = Lesser(cnt, p - (k - 1)), NEW built, built = Lesser(copy, p - n),
           NEW excess, excess = IF cnt > p - n THEN cnt - (p - n) ELSE 0
    PROVE  RInsertNumbers(p, n, k, cnt, copy, built, excess)
<1>1. CASE cnt <= p - n
    <2>1. copy = cnt /\ built = cnt /\ excess = 0
        BY <1>1 DEF Lesser
    <2>2. /\ Lesser(cnt, n - k + 1 + (p - n)) = cnt /\ Lesser(p, n + cnt) = n + cnt /\ Lesser(0, n - k + 1) = 0
        BY <1>1 DEF Lesser
    <2>3. cnt <= p
        BY <1>1
    <2>4. \A j \in 1 .. n : j - 1 \in p - cnt .. p - cnt + (k - 1 + cnt) - 1
                            \/ j - 1 + p \in p - cnt .. p - cnt + (k - 1 + cnt) - 1
             <=> k - 1 + cnt > 0 /\ j \notin k .. n - (cnt - cnt)
        BY <1>1
    <2>5. copy \in 0 .. p /\ built \in 0 .. copy /\ excess \in Nat
        BY <2>1, <2>3
    <2>6. Lesser(cnt, n - k + 1 + (p - n)) = copy /\ n + built = Lesser(p, n + cnt)
        BY <2>1, <2>2
    <2>7. Lesser(excess, n - k + 1) = copy - built
        <3>1. cnt - cnt = 0
            OBVIOUS
        <3> QED
            BY <2>1, <2>2, <3>1
    <2>8. copy > 0 => (copy = cnt \/ copy - built = n - k + 1)
        BY <2>1
    <2>9. copy = 0 => built = 0 /\ (cnt = 0 \/ (n = p /\ k = n + 1))
        BY <2>1
    <2>10. \A j \in 1 .. n : j - 1 \in p - copy .. p - copy + (k - 1 + copy) - 1
                             \/ j - 1 + p \in p - copy .. p - copy + (k - 1 + copy) - 1
             <=> k - 1 + copy > 0 /\ j \notin k .. n - (copy - built)
        BY <2>1, <2>4
    <2> QED
        BY <2>5, <2>6, <2>7, <2>8, <2>9, <2>10, Zenon DEF RInsertNumbers
<1>2. CASE cnt > p - n
    <2>1. PICK e \in Nat : e = Lesser(cnt - (p - n), n - k + 1)
        BY <1>2 DEF Lesser
    <2>2. e <= n - k + 1 /\ (e = cnt - (p - n) \/ e = n - k + 1)
        BY <1>2, <2>1 DEF Lesser
    <2>3. copy = e + (p - n) /\ built = p - n /\ excess = cnt - (p - n)
        BY <1>2, <2>1 DEF Lesser
    <2>4. Lesser(cnt, n - k + 1 + (p - n)) = e + (p - n) /\ Lesser(p, n + cnt) = p
        BY <1>2, <2>1 DEF Lesser
    <2>5. e = 0 /\ p = n => k = n + 1
        BY <1>2, <2>2
    <2>6. \A j \in 1 .. n : j - 1 \in p - (e + (p - n)) .. p - (e + (p - n)) + (k - 1 + (e + (p - n))) - 1
                            \/ j - 1 + p \in p - (e + (p - n)) .. p - (e + (p - n)) + (k - 1 + (e + (p - n))) - 1
             <=> k - 1 + (e + (p - n)) > 0 /\ j \notin k .. n - ((e + (p - n)) - (p - n))
        BY <1>2, <2>2
    <2>7. copy \in 0 .. p /\ built \in 0 .. copy /\ excess \in Nat
        BY <1>2, <2>2, <2>3
    <2>8. Lesser(cnt, n - k + 1 + (p - n)) = copy /\ n + built = Lesser(p, n + cnt)
        BY <2>3, <2>4
    <2>9. Lesser(excess, n - k + 1) = copy - built
        <3>1. e = (e + (p - n)) - (p - n)
            OBVIOUS
        <3> QED
            BY <2>1, <2>3, <3>1
    <2>10. copy > 0 => (copy = cnt \/ copy - built = n - k + 1)
        BY <1>2, <2>2, <2>3
    <2>11. copy = 0 => built = 0 /\ (cnt = 0 \/ (n = p /\ k = n + 1))
        <3>1. e + (p - n) = 0 => e = 0 /\ p = n
            OBVIOUS
        <3> QED
            BY <2>3, <2>5, <3>1
    <2>12. \A j \in 1 .. n : j - 1 \in p - copy .. p - copy + (k - 1 + copy) - 1
                             \/ j - 1 + p \in p - copy .. p - copy + (k - 1 + copy) - 1
             <=> k - 1 + copy > 0 /\ j \notin k .. n - (copy - built)
        BY <2>3, <2>6
    <2> QED
        BY <2>7, <2>8, <2>9, <2>10, <2>11, <2>12, Zenon DEF RInsertNumbers
<1> QED
    BY <1>1, <1>2

LEMMA RInsertNStep ==
    ASSUME Inv, NEW b \in Buffer, NEW k \in Nat, NEW cnt \in Nat, RInsertN(b, k, cnt)
    PROVE  Inv'
<1> DEFINE r == ring[b]
           c == Op("rinsert_n", k, cnt)
           front == k - 1
           copy == Lesser(cnt, r.cap - front)
           built == Lesser(copy, r.cap - r.size)
           moved == [r EXCEPT !.first = Sub(@, copy, r.cap), !.size = @ + built]
           touched == Window(r.first, r.size, r.cap) \cap {Add(moved.first, t, r.cap) : t \in 0 .. front + copy - 1}
           slots == IF copy = 0 THEN {} ELSE touched
           q == IF copy = 0 THEN r ELSE moved
           s == Positions(r.size)
           u == SubSeq(s, 1, k - 1) \o Copies(cnt, 0) \o SubSeq(s, k, r.size)
           after == FirstOf(u, r.cap)
           room == r.cap - r.size
           behind == r.size - k + 1
           excess == IF cnt > room THEN cnt - room ELSE 0
           gone == IF Lesser(cnt, behind + room) = 0 THEN {}
                   ELSE 1 .. k - 1 \cup r.size - Lesser(excess, behind) + 1 .. r.size
<1>1. Call(b, c, slots, q) /\ r \in Rings
    BY DEF RInsertN, Inv
<1>2. PICK p \in Nat, f \in Nat, n \in Nat : r.cap = p /\ r.first = f /\ r.size = n /\ n <= p /\ (p > 0 => f \in Slots(p))
    BY <1>1, RingIs
<1>3. k \in 1 .. n + 1
    <2>1. Allowed(c, Positions(r.size)) /\ Len(Positions(r.size)) = n
        BY <1>1, <1>2, AllowedIs
    <2> QED
        BY <2>1 DEF Allowed, Op
<1>4. after = After(c, Positions(r.size), r.cap)[1]
    BY <1>2, PositionsAre DEF After, RInsertNOutcome, WithCopies, Op
<1>5. gone = Invalidated(c, r.size, r.cap)
    BY DEF Invalidated, Op
<1>6. u \in Seq(Nat) /\ Len(u) = n + cnt /\ Keeps(u, 1, k - 1, 0) /\ Keeps(u, k, n, cnt)
    <2>1. Copies(cnt, 0) \in Seq(Nat) /\ Len(Copies(cnt, 0)) = cnt /\ \A m \in 1 .. Len(Copies(cnt, 0)) : Copies(cnt, 0)[m] = 0
        BY CopiesAre
    <2> DEFINE z == Copies(cnt, 0)
    <2> HIDE DEF r, z
    <2>2. LET x == SubSeq(Positions(n), 1, k - 1) \o z \o SubSeq(Positions(n), k, n) IN
          x \in Seq(Nat) /\ Len(x) = n + Len(z) /\ Keeps(x, 1, k - 1, 0) /\ Keeps(x, k, n, Len(z))
        BY <1>3, <2>1, InsertionKeeps DEF z
    <2>3. u = SubSeq(Positions(n), 1, k - 1) \o z \o SubSeq(Positions(n), k, n) /\ Len(z) = cnt
        BY <1>2, <2>1 DEF z
    <2> HIDE DEF u
    <2> QED
        BY <2>2, <2>3
<1> DEFINE C == Lesser(cnt, p - (k - 1))
           B == Lesser(C, p - n)
           X == IF cnt > p - n THEN cnt - (p - n) ELSE 0
<1>7. copy = C /\ built = B /\ excess = X /\ room = p - n /\ behind = n - k + 1
    BY <1>2
<1>8. RInsertNumbers(p, n, k, cnt, C, B, X)
    <2>1. C = Lesser(cnt, p - (k - 1)) /\ B = Lesser(C, p - n) /\ X = IF cnt > p - n THEN cnt - (p - n) ELSE 0
        OBVIOUS
    <2>2. n \in 0 .. p
        BY <1>2
    <2> HIDE DEF C, B, X
    <2> QED
        BY <1>3, <2>1, <2>2, RInsertNumbersAre, Zenon
<1> HIDE DEF r, c, u, C, B, X
<1>9. /\ C \in 0 .. p /\ B \in 0 .. C /\ X \in Nat
      /\ Lesser(cnt, n - k + 1 + (p - n)) = C
      /\ n + B = Lesser(p, n + cnt)
      /\ Lesser(X, n - k + 1) = C - B
      /\ C > 0 => (C = cnt \/ C - B = n - k + 1)
      /\ C = 0 => B = 0 /\ (cnt = 0 \/ (n = p /\ k = n + 1))
      /\ \A j \in 1 .. n : j - 1 \in p - C .. p - C + (k - 1 + C) - 1
                           \/ j - 1 + p \in p - C .. p - C + (k - 1 + C) - 1
            <=> k - 1 + C > 0 /\ j \notin k .. n - (C - B)
    BY <1>8 DEF RInsertNumbers
<1>10. CASE C = 0
    <2>1. slots = {} /\ q = r
        BY <1>7, <1>10
    <2>2. gone = {}
        BY <1>7, <1>9, <1>10
    <2>3. Len(after) = n /\ Keeps(after, 1, n, 0)
        <3>1. n = Lesser(p, Len(u)) /\ n + 0 <= n /\ 0 \in Int /\ 1 \in Int /\ n \in Int
            BY <1>6, <1>9, <1>10
        <3>2. Keeps(u, 1, n, 0)
            <4>1. CASE cnt = 0
                <5>1. \A j \in 1 .. n : j + 0 \in 1 .. n /\ \A m \in 1 .. n : u[m] = j <=> m = j + 0
                    <6> TAKE j \in 1 .. n
                    <6>1. Len(u) = n /\ (j \in 1 .. k - 1 \/ j \in k .. n) /\ cnt = 0
                        BY <1>3, <1>6, <4>1
                    <6>2. j + 0 \in 1 .. Len(u) /\ \A m \in 1 .. Len(u) : u[m] = j <=> m = j + 0
                        BY <1>6, <6>1 DEF Keeps
                    <6> QED
                        BY <6>1, <6>2
                <5>2. Len(u) = n
                    BY <1>6, <4>1
                <5> QED
                    BY <5>1, <5>2 DEF Keeps
            <4>2. CASE k = n + 1
                <5>1. k - 1 = n
                    BY <4>2
                <5> QED
                    BY <1>6, <5>1
            <4> QED
                BY <1>9, <1>10, <4>1, <4>2
        <3>3. Len(FirstOf(u, p)) = n /\ Keeps(FirstOf(u, p), 1, n, 0)
            BY <1>6, <3>1, <3>2, FirstKeeps
        <3> QED
            BY <1>2, <3>3
    <2>4. Turns(r, q, 0, Len(after))
        BY <1>1, <1>2, <2>1, <2>3, ShapesTurn
    <2> HIDE DEF q, slots, gone, after
    <2>5. /\ slots \subseteq Slots(r.cap) /\ 0 \in Int /\ 1 \in Int /\ n \in Int /\ 1 >= 1 /\ n <= r.size
          /\ \A m \in 1 .. r.size : m \in gone <=> m \notin 1 .. n
          /\ \A m \in 1 .. r.size : Slot(r, m) \in slots <=> m \notin 1 .. n
        BY <1>2, <2>1, <2>2
    <2> QED
        BY <1>1, <1>4, <1>5, <2>3, <2>4, <2>5, OpStep DEF r
<1>11. CASE C # 0
    <2>1. slots = touched /\ q = moved
        BY <1>7, <1>11
    <2>2. PICK e \in Nat : e = C - B /\ e <= p /\ e <= n - k + 1
        BY <1>3, <1>9 DEF Lesser
    <2>3. gone = 1 .. k - 1 \cup n - e + 1 .. n
        BY <1>2, <1>7, <1>9, <1>11, <2>2
    <2>4. p > 0 /\ f \in Slots(p)
        BY <1>2, <1>9, <1>11
    <2>5. moved = [cap |-> p, first |-> Sub(f, C, p), size |-> n + B]
        <3>1. moved = [r EXCEPT !.first = Sub(f, C, p), !.size = n + B]
            BY <1>2, <1>7
        <3> HIDE DEF moved
        <3> QED
            BY <1>1, <1>2, <3>1 DEF Rings
    <2>6. touched \subseteq Slots(r.cap) /\ \A j \in 1 .. r.size : Slot(r, j) \in touched <=> j \notin k .. n - e
        <3>1. PICK w \in Nat : w = k - 1 + C
            BY <1>3, <1>9
        <3>2. PICK o \in 0 .. p : o = p - C
            BY <1>9
        <3>3. w \in 0 .. p /\ p \in Nat \ {0}
            BY <1>2, <1>3, <1>9, <2>4, <3>1 DEF C, Lesser
        <3>4. moved.first = Add(r.first, o, p)
            <4>1. Sub(f, C, p) = Add(f, o, p)
                BY <1>9, <2>4, <3>2 DEF Add, Sub, Slots
            <4> QED
                BY <1>2, <2>5, <4>1
        <3>5. touched = Window(r.first, r.size, r.cap) \cap {Add(moved.first, t, r.cap) : t \in 0 .. w - 1}
            <4>1. C \in Int
                BY <1>9
            <4>2. front + copy - 1 = w - 1
                BY <1>7, <3>1, <4>1
            <4> HIDE DEF front, copy, moved
            <4> QED
                BY <4>2
        <3> HIDE DEF touched, moved
        <3>6. Walk(r, o, w, touched)
            <4>1. p = r.cap /\ r \in Rings
                BY <1>1, <1>2
            <4> QED
                BY <3>3, <3>4, <3>5, <4>1, WalkIs, Zenon
        <3>7. \A j \in 1 .. n : j - 1 \in o .. o + w - 1 \/ j - 1 + p \in o .. o + w - 1 <=> j \notin k .. n - e
            <4>1. k - 1 + C > 0
                BY <1>3, <1>9, <1>11
            <4> QED
                BY <1>9, <2>2, <3>1, <3>2, <4>1
        <3> QED
            BY <1>2, <3>6, <3>7 DEF Walk
    <2>7. Len(after) = n + B
        <3>1. Len(FirstOf(u, p)) = Lesser(p, Len(u))
            BY <1>6, CutIs
        <3> QED
            BY <1>2, <1>6, <1>9, <3>1
    <2>8. Keeps(after, k, n - e, C)
        <3>1. CASE C = cnt
            <4>1. PICK hi \in Int : hi = n - e /\ hi <= n
                OBVIOUS
            <4>2. PICK m \in Int : m = n + B
                BY <1>9
            <4>3. Keeps(u, k, hi, cnt)
                BY <1>6, <4>1 DEF Keeps
            <4>4. m = Lesser(p, Len(u)) /\ hi + cnt <= m
                BY <1>6, <1>9, <2>2, <3>1, <4>1, <4>2
            <4>5. cnt \in Int /\ k \in Int
                OBVIOUS
            <4>6. Keeps(FirstOf(u, p), k, hi, cnt)
                BY <1>6, <4>3, <4>4, <4>5, FirstKeeps
            <4> QED
                BY <1>2, <3>1, <4>1, <4>6
        <3>2. CASE e = n - k + 1
            <4>1. k .. n - e = {}
                BY <1>3, <3>2
            <4>2. n + B \in Nat
                BY <1>9
            <4> HIDE DEF after
            <4> QED
                BY <2>7, <4>1, <4>2 DEF Keeps
        <3> QED
            BY <1>9, <1>11, <2>2, <3>1, <3>2
    <2>9. Turns(r, q, C, Len(after))
        <3>1. Sub(f, C, p) \in Int /\ n + B \in Int /\ C \in -p .. p /\ n + B \in 0 .. p /\ C \in Int /\ ~(C < 0)
            BY <1>2, <1>9, <2>4 DEF Sub, Slots, Lesser
        <3>2. Turned(r, C) = Sub(f, C, p)
            BY <1>2, <3>1 DEF Turned
        <3> HIDE DEF moved, q
        <3>3. q \in [cap : Int, first : Int, size : Int] /\ q.cap = r.cap /\ q.first = Sub(f, C, p) /\ q.size = n + B
            BY <1>2, <2>1, <2>5, <3>1
        <3> QED
            BY <1>2, <2>7, <3>1, <3>2, <3>3 DEF Turns
    <2> HIDE DEF q, slots, gone, after, touched, moved
    <2>10. \A j \in 1 .. r.size : j \in gone <=> j \notin k .. n - e
        BY <1>2, <1>3, <2>2, <2>3
    <2>11. C \in Int /\ k \in Int /\ n - e \in Int /\ k >= 1 /\ n - e <= r.size
        BY <1>2, <1>3, <1>9
    <2> QED
        BY <1>1, <1>4, <1>5, <2>1, <2>6, <2>8, <2>9, <2>10, <2>11, OpStep DEF r
<1> QED
    BY <1>10, <1>11

---------------------------------------------------------------------------
(* The theorems.                                                           *)

LEMMA ContainerSteps ==
    ASSUME Inv, NEW b \in Buffer, ContainerStep(b)
    PROVE  Inv'
<1>1. (\A k \in Places : k \in Nat) /\ (\A n \in Capacities : n \in Nat)
    BY DebugAssumption DEF Places, Capacities
<1>2. CASE PushBack(b) \/ PushFront(b) \/ PopBack(b) \/ PopFront(b)
    BY <1>2, PushBackStep, PushFrontStep, PopBackStep, PopFrontStep
<1>3. CASE \E k \in Places : Insert(b, k) \/ RInsert(b, k) \/ Erase(b, k) \/ RErase(b, k) \/ Rotate(b, k)
    BY <1>1, <1>3, InsertStep, RInsertStep, EraseStep, REraseStep, RotateStep
<1>4. CASE \E k, l \in Places : EraseRange(b, k, l) \/ REraseRange(b, k, l)
    BY <1>1, <1>4, EraseRangeStep, REraseRangeStep
<1>5. CASE \E k \in Places, n \in Capacities : InsertN(b, k, n) \/ RInsertN(b, k, n)
    BY <1>1, <1>5, InsertNStep, RInsertNStep
<1>6. CASE Clear(b) \/ Linearize(b)
    BY <1>6, ClearStep, LinearizeStep
<1>7. CASE \E op \in {"set_capacity", "rset_capacity"}, cap \in Capacities : SetCapacity(b, op, cap) /\ Fits
    BY <1>1, <1>7, SetCapacityStep
<1>8. CASE \E cap, size \in Capacities : (AssignItems(b, cap, size) \/ New(b, cap, size)) /\ Fits
    BY <1>1, <1>8, AssignItemsStep, NewStep
<1>9. CASE \E c \in Buffer : Swap(b, c)
    BY <1>9, SwapStep
<1>10. CASE Delete(b)
    BY <1>10, DeleteStep
<1> QED
    BY <1>2, <1>3, <1>4, <1>5, <1>6, <1>7, <1>8, <1>9, <1>10 DEF ContainerStep

LEMMA StutterInv ==
    ASSUME Inv, UNCHANGED dvars
    PROVE  Inv'
<1>1. ring' = ring /\ head' = head /\ it' = it /\ live' = live /\ denotes' = denotes
    BY DEF dvars
<1>2. Heap' = Heap
    BY <1>1 DEF Heap
<1>3. \A i \in Iterator : Stands(i)'
    BY <1>1 DEF Inv, Stands
<1> QED
    BY <1>1, <1>2, <1>3 DEF Inv

\* Iterators and chains are, in every reachable state, as Inv describes them:
\* registered iterators stand at the slot of the position they denote, and the
\* chain of each container holds them, each once.
THEOREM InductiveInvariant == Spec => []Inv
<1>1. Init => Inv
    BY InitInv
<1>2. Inv /\ [Next]_dvars => Inv'
    <2> SUFFICES ASSUME Inv, [Next]_dvars PROVE Inv'
        OBVIOUS
    <2>1. CASE \E i \in Iterator : IteratorStep(i)
        BY <2>1, IteratorSteps
    <2>2. CASE \E b \in Buffer : ContainerStep(b)
        BY <2>2, ContainerSteps
    <2>3. CASE UNCHANGED dvars
        BY <2>3, StutterInv
    <2> QED
        BY <2>1, <2>2, <2>3 DEF Next
<1> QED
    BY <1>1, <1>2, PTL DEF Spec

\* The chain of a container holds exactly the existing iterators registered with
\* it (register_iterator, unregister_iterator and the three invalidations).
THEOREM ExactRegistry == Spec => []RegistryIsExact
<1>1. Inv => RegistryIsExact
    <2> SUFFICES ASSUME Inv, NEW b \in Buffer
                 PROVE  LET chain == Chain(Heap, b) IN
                        /\ \A m, n \in 1 .. Len(chain) : chain[m] = chain[n] => m = n
                        /\ {chain[n] : n \in 1 .. Len(chain)} = {i \in Iterator \cap live : it[i].registry = b}
        BY DEF RegistryIsExact
    <2>1. PICK C : Linked(Heap, b, C) /\ Rng(C) = {i \in Iterator : Heap.it[i].registry = b}
        BY DEF Inv, Exact, Chained
    <2>2. Chain(Heap, b) = C
        BY <2>1, ChainIs
    <2>3. {i \in Iterator : Heap.it[i].registry = b} = {i \in Iterator \cap live : it[i].registry = b}
        BY HeapIs, NullIsNoNode DEF Inv, Stands
    <2> QED
        BY <2>1, <2>2, <2>3 DEF Linked, Rng
<1> QED
    BY <1>1, InductiveInvariant, PTL

\* An iterator is valid exactly as long as the "Iterator Invalidation" paragraphs
\* of the operations called since say so.
THEOREM DocumentedInvalidation == Spec => []InvalidatesAsDocumented
<1>1. Inv => InvalidatesAsDocumented
    BY DEF Inv, Stands, InvalidatesAsDocumented, is_valid
<1> QED
    BY <1>1, InductiveInvariant, PTL

\* A valid iterator stays at its element, whatever happens around it, and
\* linearize_pointer gives that element's position.
THEOREM PositionKept == Spec => []ValidKeepsItsPosition
<1>1. Inv => ValidKeepsItsPosition
    <2> SUFFICES ASSUME Inv, NEW i \in Iterator, denotes[i] # Gone
                 PROVE  linearize_pointer(i) = IF denotes[i] = End THEN ring[it[i].buff].size ELSE denotes[i] - 1
        BY DEF ValidKeepsItsPosition
    <2> QED
        BY LinearizePointerIs DEF Placed
<1> QED
    BY <1>1, InductiveInvariant, PTL

=============================================================================
