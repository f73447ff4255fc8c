--------------------------- MODULE Clients_proofs ---------------------------
(***************************************************************************)
(* Proofs about the two classes that are written in terms of               *)
(* circular_buffer.                                                        *)
(*                                                                         *)
(* SpaceOptimized, for every width of size_type, all the calls, values and *)
(* sequences that the assumptions on the constants admit, and types that   *)
(* are moved as well as types that are copied.                             *)
(*                                                                         *)
(* BoundedBuffer, for any finite number of producers and consumers, any    *)
(* capacity and any quota, and for all four bounded buffers of the         *)
(* examples.                                                               *)
(***************************************************************************)
EXTENDS SpaceOptimized, BoundedBuffer, RingPointers_proofs, FiniteSetTheorems, SequenceTheorems

(***************************************************************************)
(* SpaceOptimized                                                          *)
(***************************************************************************)

---------------------------------------------------------------------------
(* Powers of 2.                                                            *)

\* 2 ^ k is the number of subsets of a set of k numbers, which is all that the
\* provers get to know of powers.
LEMMA PowerCounts ==
    ASSUME NEW k \in Nat
    PROVE  IsFiniteSet(SUBSET (1 .. k)) /\ Cardinality(SUBSET (1 .. k)) = 2 ^ k
<1>1. IsFiniteSet(1 .. k) /\ Cardinality(1 .. k) = k
    BY FS_Interval
<1> QED
    BY <1>1, FS_SUBSET

LEMMA PowerIsPositive ==
    ASSUME NEW k \in Nat
    PROVE  2 ^ k \in Nat \ {0}
<1>1. Cardinality(SUBSET (1 .. k)) \in Nat
    BY PowerCounts, FS_CardinalityType
<1>2. SUBSET (1 .. k) # {}
    BY Zenon
<1>3. Cardinality(SUBSET (1 .. k)) # 0
    BY PowerCounts, <1>2, FS_EmptySet
<1> QED
    BY PowerCounts, <1>1, <1>3

\* Half of the subsets of 1 .. k + 1 have the number k + 1 in them.
LEMMA PowerDoubles ==
    ASSUME NEW k \in Nat
    PROVE  2 ^ (k + 1) = 2 * 2 ^ k
<1> DEFINE S == SUBSET (1 .. k)
           T == {X \cup {k + 1} : X \in S}
           f == [X \in S |-> X \cup {k + 1}]
<1>1. \A X \in S : X \subseteq 1 .. k /\ k + 1 \notin X
    OBVIOUS
<1>2. f \in Bijection(S, T)
    <2>1. f \in [S -> T] /\ \A Y \in T : \E X \in S : f[X] = Y
        OBVIOUS
    <2>2. ASSUME NEW X \in S, NEW Y \in S, f[X] = f[Y] PROVE X = Y
        <3>1. X \cup {k + 1} = Y \cup {k + 1}
            BY <2>2
        <3>2. k + 1 \notin X /\ k + 1 \notin Y
            BY <1>1
        <3> QED
            BY <3>1, <3>2
    <2> HIDE DEF S, T, f
    <2> QED
        BY <2>1, <2>2 DEF Bijection, Injection, IsInjective, Surjection
<1>3. SUBSET (1 .. k + 1) = S \cup T
    <2>1. ASSUME NEW X \in SUBSET (1 .. k + 1) PROVE X \in S \cup T
        <3>1. CASE k + 1 \in X
            <4>1. X \ {k + 1} \in S
                <5>1. \A e \in X \ {k + 1} : e \in 1 .. k
                    OBVIOUS
                <5> QED
                    BY <5>1
            <4>2. X = (X \ {k + 1}) \cup {k + 1}
                BY <3>1
            <4> DEFINE Y == X \ {k + 1}
            <4>3. Y \cup {k + 1} \in T
                BY <4>1
            <4> QED
                BY <4>2, <4>3
        <3>2. CASE k + 1 \notin X
            <4>1. \A e \in X : e \in 1 .. k
                BY <3>2
            <4> QED
                BY <4>1
        <3> QED
            BY <3>1, <3>2
    <2>2. \A X \in S \cup T : X \subseteq 1 .. k + 1
        OBVIOUS
    <2> QED
        BY <2>1, <2>2
<1>4. S \cap T = {}
    BY <1>1
<1>5. IsFiniteSet(S) /\ Cardinality(S) = 2 ^ k
    BY PowerCounts
<1>6. IsFiniteSet(T) /\ Cardinality(T) = 2 ^ k
    <2>1. ExistsBijection(S, T)
        <3> HIDE DEF S, T, f
        <3> QED
            BY <1>2 DEF ExistsBijection
    <2> HIDE DEF S, T, f
    <2> QED
        BY <2>1, <1>5, FS_Bijection
<1>7. Cardinality(S \cup T) = 2 ^ k + 2 ^ k - 0
    <2> HIDE DEF S, T
    <2>1. Cardinality(S \cap T) = 0
        BY <1>4, FS_EmptySet
    <2> QED
        BY <2>1, <1>5, <1>6, FS_Union
<1>8. Cardinality(SUBSET (1 .. k + 1)) = 2 ^ (k + 1)
    BY PowerCounts, k + 1 \in Nat
<1> HIDE DEF S, T, f
<1>9. 2 ^ (k + 1) = 2 ^ k + 2 ^ k - 0
    BY <1>3, <1>7, <1>8
<1> QED
    BY <1>9, PowerIsPositive

LEMMA Sizes ==
    /\ SizeMax \in Nat /\ max_size \in Nat
    /\ 2 * max_size < SizeMax
    /\ SizeMax = 2 * (max_size + 1)
    /\ \A n \in Nat : n < SizeMax => n \div 2 ^ Bits = 0
<1>1. Bits - 1 \in Nat /\ Bits \in Nat
    BY BitsAssumption
<1>2. 2 ^ (Bits - 1) \in Nat \ {0} /\ 2 ^ Bits \in Nat \ {0}
    BY <1>1, PowerIsPositive
<1>3. 2 ^ (Bits - 1 + 1) = 2 * 2 ^ (Bits - 1)
    BY <1>1, PowerDoubles
<1>4. Bits - 1 + 1 = Bits
    BY <1>1
<1>5. PICK p \in Nat \ {0} : 2 ^ Bits = 2 * p
    BY <1>2, <1>3, <1>4
<1>6. \A n \in Nat : n < 2 * p => n \div (2 * p) = 0
    BY <1>5
<1>7. (2 * p) \div 2 = p
    BY <1>5
<1> QED
    BY <1>5, <1>6, <1>7 DEF SizeMax, max_size

\* A quotient that is halved stays at least as large as a third of it was.
LEMMA Halving ==
    ASSUME NEW n \in Nat, NEW k \in Nat, NEW size \in Nat
    PROVE  /\ n \div 2 ^ k \in Nat /\ n \div 2 ^ k <= n
           /\ (n \div 2 ^ k) \div 3 >= size => n \div 2 ^ (k + 1) >= size
<1>1. PICK p \in Nat \ {0} : p = 2 ^ k
    BY PowerIsPositive
<1>2. 2 ^ (k + 1) = 2 * p
    BY <1>1, PowerDoubles
<1>3. n \div p \in Nat /\ p * (n \div p) <= n
    BY <1>1
<1>4. n \div p <= n
    BY <1>3
<1>5. ASSUME (n \div p) \div 3 >= size PROVE n \div (2 * p) >= size
    <2>1. PICK q \in Nat : q = n \div p
        BY <1>3
    <2>2. 2 * size <= q
        BY <2>1, <1>5
    <2>3. p * (2 * size) <= p * q
        BY <2>2
    <2>4. (2 * p) * size <= n
        BY <2>1, <2>3, <1>3
    <2> QED
        BY <2>4
<1> QED
    BY <1>1, <1>2, <1>3, <1>4, <1>5

---------------------------------------------------------------------------
(* The policy.                                                             *)

\* The reserve is added within the capacity, and it takes nothing away where
\* the doubling cannot wrap or is not called for.
LEMMA ReserveWithinCapacity ==
    ASSUME NEW n \in Nat, NEW size \in 0 .. n, NEW ctl \in CapacityControl,
           n <= max_size \/ size + n \div 5 < n
    PROVE  LET r == ensure_reserve(n, size, ctl) IN
           /\ r \in Nat /\ r <= ctl.cap
           /\ r = ctl.cap \/ (r >= n /\ (r = 0 \/ size + r \div 5 < r))
<1>1. PICK cap \in Nat : cap = ctl.cap
    BY DEF CapacityControl
<1>2. PICK m \in Nat \ {0} : m = SizeMax
    BY PowerIsPositive, BitsAssumption DEF SizeMax
<1> DEFINE roomy == (size + n \div 5) % m >= n
<1>3. (n * 2) % m \in Nat /\ (2 * n < m => (n * 2) % m = 2 * n)
    BY <1>2
<1>4. (size + n \div 5) % m <= size + n \div 5 /\ (size + n \div 5) % m \in Nat
    BY <1>2
<1>5. CASE roomy
    <2>1. n <= max_size
        BY <1>4, <1>5
    <2>2. 2 * n < m
        BY <1>2, <2>1, Sizes
    <2>3. ensure_reserve(n, size, ctl) = IF 2 * n < cap THEN 2 * n ELSE cap
        BY <1>1, <1>2, <1>3, <1>5, <2>2 DEF ensure_reserve, Lesser
    <2>4. n = 0 \/ size + (2 * n) \div 5 < 2 * n
        OBVIOUS
    <2> QED
        BY <1>1, <2>3, <2>4
<1>6. CASE ~roomy
    <2>1. size + n \div 5 < n
        <3>1. CASE n <= max_size
            <4>1. size + n \div 5 < m
                BY <1>2, <3>1, Sizes
            <4>2. (size + n \div 5) % m = size + n \div 5
                BY <1>2, <4>1
            <4> QED
                BY <1>6, <4>2
        <3> QED
            BY <3>1
    <2>2. ensure_reserve(n, size, ctl) = IF n < cap THEN n ELSE cap
        BY <1>1, <1>2, <1>6 DEF ensure_reserve, Lesser
    <2> QED
        BY <1>1, <2>1, <2>2
<1> QED
    BY <1>5, <1>6

\* The halving of check_high_capacity, and where it stops.
Low(k, ctl)         == k > 0 /\ inner \div 2 ^ k <= ctl.min
Stops(k, size, ctl) == Low(k, ctl) \/ (inner \div 2 ^ k) \div 3 < size

LEMMA HalvingStops ==
    ASSUME inner \in Nat, inner < SizeMax, NEW size \in Nat, NEW ctl \in CapacityControl
    PROVE  \E k \in 0 .. Bits : Stops(k, size, ctl) /\ \A l \in 0 .. k - 1 : ~Stops(l, size, ctl)
<1> DEFINE T == {k \in 0 .. Bits : Stops(k, size, ctl)}
<1>1. Bits \in T
    <2>1. inner \div 2 ^ Bits = 0
        BY Sizes
    <2>2. ctl.min >= 0
        BY DEF CapacityControl
    <2> QED
        BY <2>1, <2>2, BitsAssumption DEF Stops, Low
<1>2. T \subseteq Nat /\ T \subseteq 0 .. Bits /\ T # {}
    BY <1>1, BitsAssumption
<1>3. PICK k \in T : \A l \in T : k <= l
    <2> HIDE DEF T
    <2> QED
        BY <1>2, LeastElement
<1>4. ASSUME NEW l \in 0 .. k - 1 PROVE ~Stops(l, size, ctl)
    <2>1. k \in 0 .. Bits /\ l < k /\ l \in 0 .. Bits
        BY <1>2, BitsAssumption
    <2> QED
        BY <2>1, <1>3
<1> QED
    BY <1>3, <1>4

\* check_high_capacity leaves room for the elements and a reserve, within the
\* capacity, and stops at the minimum.
LEMMA HighCapacityHolds ==
    ASSUME inner \in Nat, inner <= max_size,
           NEW ctl \in CapacityControl, NEW size \in 0 .. inner, size <= ctl.cap
    PROVE  LET k == HighCapacity(size, ctl) IN
           /\ k \in Nat /\ size <= k /\ k <= ctl.cap
           /\ inner >= ctl.min => k >= ctl.min
           /\ k = ctl.cap \/ k = 0 \/ size + k \div 5 < k
<1> DEFINE last == CHOOSE k \in 0 .. Bits :
                       Stops(k, size, ctl) /\ \A l \in 0 .. k - 1 : ~Stops(l, size, ctl)
           n == IF Low(last, ctl) THEN ctl.min ELSE inner \div 2 ^ last
<1>1. HighCapacity(size, ctl) = ensure_reserve(n, size, ctl)
    BY DEF HighCapacity, Stops, Low
<1>2. inner < SizeMax /\ size \in Nat
    BY Sizes
<1>3. /\ last \in 0 .. Bits /\ Stops(last, size, ctl)
      /\ \A l \in 0 .. last - 1 : ~Stops(l, size, ctl)
    BY <1>2, HalvingStops
<1> HIDE DEF last
<1>4. last \in Nat /\ ctl.min \in Nat /\ ctl.cap \in Nat
    BY <1>3, BitsAssumption DEF CapacityControl
<1>5. inner \div 2 ^ last \in Nat /\ inner \div 2 ^ last <= inner
    BY <1>4, Halving
<1>6. inner \div 2 ^ last >= size
    <2>1. CASE last = 0
        BY <2>1
    <2>2. CASE last # 0
        <3>1. last - 1 \in 0 .. last - 1 /\ last - 1 \in Nat /\ last - 1 + 1 = last
            BY <2>2, <1>4
        <3>2. ~Stops(last - 1, size, ctl)
            BY <3>1, <1>3
        <3>3. inner \div 2 ^ (last - 1) \in Nat
            BY <3>1, Halving
        <3>4. (inner \div 2 ^ (last - 1)) \div 3 >= size
            BY <3>2, <3>3, <1>2 DEF Stops
        <3>5. inner \div 2 ^ (last - 1 + 1) >= size
            BY <3>1, <3>4, <1>2, Halving
        <3> QED
            BY <3>1, <3>5
    <2> QED
        BY <2>1, <2>2
<1>7. n \in Nat /\ n >= size
    BY <1>2, <1>4, <1>5, <1>6 DEF Low
<1>8. n <= max_size \/ size + n \div 5 < n
    <2>1. CASE ~Low(last, ctl)
        BY <2>1, <1>5, Sizes
    <2>2. CASE Low(last, ctl)
        <3>1. last - 1 \in 0 .. last - 1 /\ last - 1 \in Nat
            BY <2>2, <1>4 DEF Low
        <3>2. ~Stops(last - 1, size, ctl)
            BY <3>1, <1>3
        <3>3. inner \div 2 ^ (last - 1) \in Nat /\ inner \div 2 ^ (last - 1) <= inner
            BY <3>1, Halving
        <3>4. 3 * size <= inner
            BY <3>2, <3>3, <1>2 DEF Stops
        <3>5. CASE n > max_size
            <4> HIDE DEF n
            <4>1. 3 * size < n /\ n \in Nat
                BY <3>4, <3>5, <1>2, <1>7, Sizes
            <4> QED
                BY <4>1, <1>2
        <3> QED
            BY <3>5, <1>7, Sizes
    <2> QED
        BY <2>1, <2>2
<1>9. inner >= ctl.min => n >= ctl.min
    <2>1. CASE ~Low(last, ctl) /\ last = 0
        <3>1. inner \div 2 ^ 0 = inner
            OBVIOUS
        <3> QED
            BY <2>1, <3>1
    <2>2. CASE ~Low(last, ctl) /\ last # 0
        BY <2>2, <1>4, <1>5 DEF Low
    <2>3. CASE Low(last, ctl)
        BY <2>3, <1>4
    <2> QED
        BY <2>1, <2>2, <2>3
<1> HIDE DEF n
<1> DEFINE k == ensure_reserve(n, size, ctl)
<1>10. size \in 0 .. n
    BY <1>2, <1>7
<1>11. /\ k \in Nat /\ k <= ctl.cap
       /\ k = ctl.cap \/ (k >= n /\ (k = 0 \/ size + k \div 5 < k))
    BY <1>7, <1>8, <1>10, ReserveWithinCapacity
<1> HIDE DEF k
<1>12. size <= k /\ (inner >= ctl.min => k >= ctl.min)
    <2>1. ctl.min <= ctl.cap
        BY DEF CapacityControl
    <2> QED
        BY <1>2, <1>4, <1>7, <1>9, <1>11, <2>1
<1> QED
    BY <1>1, <1>11, <1>12 DEF k

\* The doubling of check_low_capacity reaches size n, and not twice as much.
LEMMA DoublingReaches ==
    ASSUME inner \in Nat, NEW n \in Nat, inner < n, 2 * n <= SizeMax
    PROVE  /\ Doublings(n) # {}
           /\ LET k == CHOOSE k \in Doublings(n) : \A l \in Doublings(n) : k <= l
                  x == (Greater(inner, 1) * 2 ^ k) % SizeMax
              IN  x \in Nat /\ n <= x /\ x < 2 * n
<1> DEFINE m == Greater(inner, 1)
           T == {k \in 0 .. Bits : m * 2 ^ k >= n}
           least == CHOOSE k \in Doublings(n) : \A l \in Doublings(n) : k <= l
<1>1. m \in Nat \ {0} /\ (inner # 0 => m = inner) /\ (inner = 0 => m = 1)
    BY DEF Greater
<1>2. SizeMax \in Nat \ {0} /\ n < SizeMax /\ Bits \in Nat \ {0}
    BY Sizes, BitsAssumption
<1>3. \A k \in 0 .. Bits : k \in Nat /\ 2 ^ k \in Nat \ {0} /\ m * 2 ^ k \in Nat
    <2>1. ASSUME NEW k \in 0 .. Bits PROVE k \in Nat /\ 2 ^ k \in Nat \ {0}
        BY <1>2, PowerIsPositive
    <2> HIDE DEF m
    <2> QED
        BY <1>1, <2>1
<1> HIDE DEF m
<1>4. Bits \in T
    <2>1. m * SizeMax >= SizeMax
        BY <1>1, <1>2
    <2>2. m * SizeMax >= n
        BY <1>1, <1>2, <2>1
    <2>3. m * 2 ^ Bits >= n
        BY <2>2 DEF SizeMax
    <2> QED
        BY <1>2, <2>3
<1>5. T \subseteq Nat /\ T # {}
    BY <1>2, <1>4
<1>6. PICK k \in T : \A l \in T : k <= l
    <2> HIDE DEF T
    <2> QED
        BY <1>5, LeastElement
<1>7. k \in 0 .. Bits /\ k \in Nat /\ m * 2 ^ k >= n
    BY <1>2
<1>8. \A l \in 0 .. Bits : l < k => m * 2 ^ l < n
    <2>1. ASSUME NEW l \in 0 .. Bits, l < k PROVE m * 2 ^ l < n
        <3>1. l \notin T
            BY <1>2, <1>6, <1>7, <2>1
        <3> QED
            BY <1>3, <3>1
    <2> QED
        BY <2>1
<1> HIDE DEF T
<1>9. m * 2 ^ k < 2 * n
    <2>1. CASE k = 0
        <3>1. m * 2 ^ 0 = m
            BY <1>1
        <3> QED
            BY <1>1, <2>1, <3>1
    <2>2. CASE k # 0
        <3>1. k - 1 \in 0 .. Bits /\ k - 1 \in Nat /\ k - 1 < k /\ k - 1 + 1 = k
            BY <1>2, <1>7, <2>2
        <3>2. m * 2 ^ (k - 1) < n
            BY <1>8, <3>1
        <3>3. 2 ^ (k - 1 + 1) = 2 * 2 ^ (k - 1)
            BY <3>1, PowerDoubles
        <3>4. PICK p \in Nat : p = 2 ^ (k - 1)
            BY <3>1, PowerIsPositive
        <3>5. 2 ^ k = 2 * p
            BY <3>1, <3>3, <3>4
        <3>6. m * (2 * p) = 2 * (m * p) /\ m * p \in Nat
            BY <1>1
        <3> QED
            BY <3>2, <3>4, <3>5, <3>6
    <2> QED
        BY <2>1, <2>2
<1>10. k \in Doublings(n) /\ (m * 2 ^ k) % SizeMax = m * 2 ^ k
    <2>1. (m * 2 ^ k) % SizeMax = m * 2 ^ k
        BY <1>2, <1>3, <1>7, <1>9
    <2> QED
        BY <1>7, <2>1 DEF Doublings, m
<1>11. \A l \in Doublings(n) : l \in 0 .. Bits /\ k <= l
    <2>1. ASSUME NEW l \in Doublings(n) PROVE l \in 0 .. Bits /\ k <= l
        <3>1. l \in 0 .. Bits /\ (m * 2 ^ l) % SizeMax >= n
            BY DEF Doublings, m
        <3>2. CASE l < k
            <4>1. m * 2 ^ l < n /\ m * 2 ^ l \in Nat
                BY <1>3, <1>8, <3>1, <3>2
            <4>2. (m * 2 ^ l) % SizeMax = m * 2 ^ l
                BY <1>2, <4>1
            <4> QED
                BY <3>1, <4>1, <4>2
        <3> QED
            BY <1>2, <1>7, <3>1, <3>2
    <2> QED
        BY <2>1
<1>12. least = k
    <2>1. least \in Doublings(n) /\ \A l \in Doublings(n) : least <= l
        BY <1>10, <1>11
    <2> HIDE DEF least
    <2>2. least <= k /\ k <= least /\ least \in 0 .. Bits
        BY <2>1, <1>10, <1>11
    <2> QED
        BY <2>2, <1>2, <1>7
<1> HIDE DEF least
<1> QED
    BY <1>3, <1>7, <1>9, <1>10, <1>12 DEF least, m

\* check_low_capacity for n more elements leaves room for them and a reserve,
\* within the capacity.
LEMMA LowCapacityHolds ==
    ASSUME inner \in Nat, inner <= max_size, Len(contents) \in 0 .. inner,
           NEW ctl \in CapacityControl, inner <= ctl.cap,
           NEW n \in Nat, 5 * (Len(contents) + n) < 2 * SizeMax
    PROVE  LET k == LowCapacity(n, ctl) IN
           /\ k \in Nat /\ inner <= k /\ k <= ctl.cap
           /\ k = ctl.cap \/ Len(contents) + n <= k
           /\ k = inner \/ k = ctl.cap \/ Len(contents) + n + k \div 5 < k
           /\ NewSize(n) > inner => Doublings(NewSize(n)) # {}
<1>1. PICK size \in Nat : size = Len(contents) + n
    OBVIOUS
<1>2. SizeMax \in Nat \ {0} /\ 5 * size < 2 * SizeMax
    BY <1>1, Sizes
<1>3. NewSize(n) = size
    BY <1>1, <1>2 DEF NewSize
<1>4. PICK cap \in Nat : cap = ctl.cap
    BY DEF CapacityControl
<1>5. CASE size <= inner
    <2>1. LowCapacity(n, ctl) = inner
        BY <1>3, <1>5 DEF LowCapacity
    <2> QED
        BY <1>1, <1>3, <1>5, <2>1
<1>6. CASE inner < size
    <2> DEFINE least == CHOOSE k \in Doublings(size) : \A l \in Doublings(size) : k <= l
               x == (Greater(inner, 1) * 2 ^ least) % SizeMax
               r == ensure_reserve(x, size, ctl)
    <2>1. 2 * size <= SizeMax
        BY <1>2
    <2>2. Doublings(size) # {} /\ x \in Nat /\ size <= x /\ x < 2 * size
        BY <1>6, <2>1, DoublingReaches
    <2>3. LowCapacity(n, ctl) = r
        BY <1>3, <1>6 DEF LowCapacity
    <2> HIDE DEF least, x
    <2>4. x <= max_size \/ size + x \div 5 < x
        BY <1>2, <2>2, Sizes
    <2>5. size \in 0 .. x
        BY <2>2
    <2>6. /\ r \in Nat /\ r <= ctl.cap
          /\ r = ctl.cap \/ (r >= x /\ (r = 0 \/ size + r \div 5 < r))
        BY <2>2, <2>4, <2>5, ReserveWithinCapacity
    <2> HIDE DEF r
    <2>7. inner <= r /\ (r = cap \/ size <= r) /\ (r = cap \/ size + r \div 5 < r)
        BY <1>4, <1>6, <2>2, <2>6
    <2> QED
        BY <1>1, <1>3, <1>4, <2>2, <2>3, <2>6, <2>7
<1> QED
    BY <1>5, <1>6

---------------------------------------------------------------------------
(* What the base class leaves: elements it had or was given, and no more   *)
(* than it has room for.                                                   *)

LEMMA PartIsShorter ==
    ASSUME NEW S, NEW s \in Seq(S), NEW m \in 1 .. Len(s) + 1, NEW l \in m - 1 .. Len(s)
    PROVE  SubSeq(s, m, l) \in Seq(S) /\ Len(SubSeq(s, m, l)) = l - m + 1
<1>1. Len(s) \in Nat
    BY LenProperties
<1>2. m \in Int /\ l \in Int /\ \A k \in m .. l : s[k] \in S
    BY <1>1, ElementOfSeq
<1>3. SubSeq(s, m, l) \in Seq(S) /\ Len(SubSeq(s, m, l)) = IF m <= l THEN l - m + 1 ELSE 0
    BY <1>2, SubSeqProperties
<1> QED
    BY <1>1, <1>2, <1>3

LEMMA EndsAreShorter ==
    ASSUME NEW S, NEW s \in Seq(S), NEW m \in Nat
    PROVE  /\ FirstOf(s, m) \in Seq(S) /\ Len(FirstOf(s, m)) = Lesser(m, Len(s))
           /\ LastOf(s, m) \in Seq(S) /\ Len(LastOf(s, m)) = Lesser(m, Len(s))
<1> DEFINE l == Lesser(m, Len(s))
           f == Len(s) - l + 1
<1>1. Len(s) \in Nat
    BY LenProperties
<1>2. l \in 0 .. Len(s)
    BY <1>1 DEF Lesser
<1> HIDE DEF l
<1>3. /\ 1 \in 1 .. Len(s) + 1 /\ l \in 1 - 1 .. Len(s) /\ l - 1 + 1 = l
      /\ f \in 1 .. Len(s) + 1 /\ Len(s) \in f - 1 .. Len(s) /\ Len(s) - f + 1 = l
    BY <1>1, <1>2
<1> HIDE DEF f
<1>4. SubSeq(s, 1, l) \in Seq(S) /\ Len(SubSeq(s, 1, l)) = l - 1 + 1
    BY <1>3, PartIsShorter
<1>5. SubSeq(s, f, Len(s)) \in Seq(S) /\ Len(SubSeq(s, f, Len(s))) = Len(s) - f + 1
    BY <1>3, PartIsShorter
<1> QED
    BY <1>3, <1>4, <1>5 DEF FirstOf, LastOf, l, f

\* Two parts of a sequence, and with another one put between them.
LEMMA CutLength ==
    ASSUME NEW S, NEW s \in Seq(S), NEW i \in 1 .. Len(s) + 1, NEW j \in 1 .. Len(s) + 1
    PROVE  /\ SubSeq(s, 1, i - 1) \in Seq(S) /\ Len(SubSeq(s, 1, i - 1)) = i - 1
           /\ SubSeq(s, j, Len(s)) \in Seq(S) /\ Len(SubSeq(s, j, Len(s))) = Len(s) - j + 1
           /\ SubSeq(s, 1, i - 1) \o SubSeq(s, j, Len(s)) \in Seq(S)
           /\ Len(SubSeq(s, 1, i - 1) \o SubSeq(s, j, Len(s))) = i - 1 + (Len(s) - j + 1)
<1> DEFINE l == i - 1
           a == SubSeq(s, 1, l)
           c == SubSeq(s, j, Len(s))
<1>1. Len(s) \in Nat
    BY LenProperties
<1>2. /\ 1 \in 1 .. Len(s) + 1 /\ l \in 1 - 1 .. Len(s) /\ l - 1 + 1 = l
      /\ j \in 1 .. Len(s) + 1 /\ Len(s) \in j - 1 .. Len(s)
    BY <1>1
<1> HIDE DEF l
<1>3. a \in Seq(S) /\ Len(a) = l - 1 + 1
    BY <1>2, PartIsShorter
<1>4. c \in Seq(S) /\ Len(c) = Len(s) - j + 1
    BY <1>2, PartIsShorter
<1> HIDE DEF a, c
<1>5. a \o c \in Seq(S) /\ Len(a \o c) = Len(a) + Len(c)
    BY <1>3, <1>4, ConcatProperties
<1> QED
    BY <1>2, <1>3, <1>4, <1>5 DEF a, c, l

LEMMA PutLength ==
    ASSUME NEW S, NEW s \in Seq(S), NEW u \in Seq(S), NEW i \in 1 .. Len(s) + 1
    PROVE  /\ SubSeq(s, 1, i - 1) \o u \o SubSeq(s, i, Len(s)) \in Seq(S)
           /\ Len(SubSeq(s, 1, i - 1) \o u \o SubSeq(s, i, Len(s))) = Len(s) + Len(u)
<1> DEFINE a == SubSeq(s, 1, i - 1)
           c == SubSeq(s, i, Len(s))
<1>1. Len(s) \in Nat /\ Len(u) \in Nat
    BY LenProperties
<1>2. a \in Seq(S) /\ Len(a) = i - 1 /\ c \in Seq(S) /\ Len(c) = Len(s) - i + 1
    BY CutLength
<1> HIDE DEF a, c
<1>3. a \o u \in Seq(S) /\ Len(a \o u) = Len(a) + Len(u)
    BY <1>2, ConcatProperties
<1>4. (a \o u) \o c \in Seq(S) /\ Len((a \o u) \o c) = Len(a \o u) + Len(c)
    BY <1>2, <1>3, ConcatProperties
<1>5. Len((a \o u) \o c) = Len(s) + Len(u)
    BY <1>1, <1>2, <1>3, <1>4
<1> QED
    BY <1>4, <1>5 DEF a, c

LEMMA CopiesLength ==
    ASSUME NEW S, NEW m \in Nat, NEW x \in S
    PROVE  Copies(m, x) \in Seq(S) /\ Len(Copies(m, x)) = m
<1>1. Copies(m, x) \in [1 .. m -> S]
    BY DEF Copies
<1> QED
    BY <1>1, SeqDef

LEMMA OneItem ==
    ASSUME NEW S, NEW x \in S
    PROVE  <<x>> \in Seq(S) /\ Len(<<x>>) = 1
OBVIOUS

LEMMA RotatedLength ==
    ASSUME NEW S, NEW s \in Seq(S), NEW k \in 1 .. Len(s)
    PROVE  /\ SubSeq(s, k, Len(s)) \o SubSeq(s, 1, k - 1) \in Seq(S)
           /\ Len(SubSeq(s, k, Len(s)) \o SubSeq(s, 1, k - 1)) = Len(s)
<1> DEFINE l == k - 1
           a == SubSeq(s, 1, l)
           b == SubSeq(s, k, Len(s))
<1>1. Len(s) \in Nat
    BY LenProperties
<1>2. /\ 1 \in 1 .. Len(s) + 1 /\ l \in 1 - 1 .. Len(s)
      /\ k \in 1 .. Len(s) + 1 /\ Len(s) \in k - 1 .. Len(s)
      /\ (Len(s) - k + 1) + (l - 1 + 1) = Len(s)
    BY <1>1
<1> HIDE DEF l
<1>3. a \in Seq(S) /\ Len(a) = l - 1 + 1
    BY <1>2, PartIsShorter
<1>4. b \in Seq(S) /\ Len(b) = Len(s) - k + 1
    BY <1>2, PartIsShorter
<1> HIDE DEF a, b
<1>5. b \o a \in Seq(S) /\ Len(b \o a) = Len(b) + Len(a)
    BY <1>3, <1>4, ConcatProperties
<1> QED
    BY <1>2, <1>3, <1>4, <1>5 DEF a, b, l

\* One lemma per operation: what DequeOperations defines, without the CASE.
LEMMA AfterPush ==
    ASSUME NEW c, NEW s, NEW cap
    PROVE  /\ c.op = "push_back" => After(c, s, cap)[1] = LastOf(Append(s, c.x), cap)
           /\ c.op = "push_front" => After(c, s, cap)[1] = FirstOf(<<c.x>> \o s, cap)
BY DEF After, PushBackOutcome, PushFrontOutcome

LEMMA AfterInsert ==
    ASSUME NEW c, NEW s, NEW cap
    PROVE  /\ c.op = "insert" =>
                 After(c, s, cap)[1] = IF ~(Len(s) = cap) THEN InsertAt(s, c.i, c.x)
                                       ELSE IF c.i = 1 THEN s ELSE Tail(InsertAt(s, c.i, c.x))
           /\ c.op = "rinsert" => After(c, s, cap)[1] = FirstOf(InsertAt(s, c.i, c.x), cap)
BY DEF After, InsertOutcome, RInsertOutcome

Bulk(c, s) == SubSeq(s, 1, c.i - 1) \o Copies(c.j, c.x) \o SubSeq(s, c.i, Len(s))

LEMMA AfterInsertN ==
    ASSUME NEW c, NEW s, NEW cap
    PROVE  /\ c.op = "insert_n" => After(c, s, cap)[1] = LastOf(Bulk(c, s), cap)
           /\ c.op = "rinsert_n" => After(c, s, cap)[1] = FirstOf(Bulk(c, s), cap)
BY DEF After, InsertNOutcome, RInsertNOutcome, WithCopies, Bulk

LEMMA AfterRemoval ==
    ASSUME NEW c, NEW s, NEW cap
    PROVE  /\ c.op = "pop_back" => After(c, s, cap)[1] = SubSeq(s, 1, Len(s) - 1)
           /\ c.op = "pop_front" => After(c, s, cap)[1] = Tail(s)
           /\ c.op \in {"erase", "rerase"} => After(c, s, cap)[1] = Without(s, c.i, c.i + 1)
           /\ c.op \in {"erase_range", "rerase_range"} => After(c, s, cap)[1] = Without(s, c.i, c.j)
           /\ c.op = "rotate" => After(c, s, cap)[1] = SubSeq(s, c.i, Len(s)) \o SubSeq(s, 1, c.i - 1)
BY
   DEF After, PopBackOutcome, PopFrontOutcome, EraseOutcome, EraseRangeOutcome, REraseOutcome,
       REraseRangeOutcome, RotateOutcome

LEMMA Preconditions ==
    ASSUME NEW c, NEW s, Allowed(c, s)
    PROVE  /\ c.op \in {"pop_back", "pop_front"} => Len(s) > 0
           /\ c.op \in {"insert", "rinsert", "insert_n", "rinsert_n"} => c.i \in 1 .. Len(s) + 1
           /\ c.op \in {"erase", "rerase", "rotate"} => c.i \in 1 .. Len(s)
           /\ c.op \in {"erase_range", "rerase_range"} => c.i \in 1 .. c.j /\ c.j \in 1 .. Len(s) + 1
BY DEF Allowed

Items(c) == IF c.op \in {"insert_n", "rinsert_n"} THEN c.j ELSE 1

LEMMA InsertAtLength ==
    ASSUME NEW S, NEW s \in Seq(S), NEW i \in 1 .. Len(s) + 1, NEW x \in S
    PROVE  InsertAt(s, i, x) \in Seq(S) /\ Len(InsertAt(s, i, x)) = Len(s) + 1
<1> DEFINE u == <<x>>
<1>1. u \in Seq(S) /\ Len(u) = 1
    BY OneItem
<1> HIDE DEF u
<1> DEFINE t == SubSeq(s, 1, i - 1) \o u \o SubSeq(s, i, Len(s))
<1>3. t \in Seq(S) /\ Len(t) = Len(s) + Len(u)
    BY <1>1, PutLength
<1>4. InsertAt(s, i, x) = t
    BY DEF InsertAt, u
<1> HIDE DEF t
<1> QED
    BY <1>1, <1>3, <1>4

\* An insertion fills the buffer at most, and adds no more than it was given.
LEMMA InsertionFits ==
    ASSUME NEW S, NEW s \in Seq(S), NEW cap \in Nat, Len(s) <= cap,
           NEW c \in [op : Pushing, i : Nat, j : Nat, x : S], Allowed(c, s)
    PROVE  LET t == After(c, s, cap)[1] IN
           t \in Seq(S) /\ Len(t) <= cap /\ Len(t) <= Len(s) + Items(c)
<1> DEFINE t == After(c, s, cap)[1]
           Goal == t \in Seq(S) /\ Len(t) <= cap /\ Len(t) <= Len(s) + Items(c)
<1>1. Len(s) \in Nat /\ c.x \in S /\ c.j \in Nat
    BY LenProperties
<1>2. CASE c.op = "push_back"
    <2>1. Append(s, c.x) \in Seq(S) /\ Len(Append(s, c.x)) = Len(s) + 1
        BY <1>1
    <2>2. LastOf(Append(s, c.x), cap) \in Seq(S)
          /\ Len(LastOf(Append(s, c.x), cap)) = Lesser(cap, Len(Append(s, c.x)))
        BY <2>1, EndsAreShorter
    <2>3. t = LastOf(Append(s, c.x), cap) /\ Items(c) = 1
        BY <1>2, AfterPush DEF Items
    <2> QED
        BY <1>1, <2>1, <2>2, <2>3 DEF Lesser
<1>3. CASE c.op = "push_front"
    <2> DEFINE u == <<c.x>>
    <2>1. u \in Seq(S) /\ Len(u) = 1
        BY <1>1, OneItem
    <2> HIDE DEF u
    <2>2. u \o s \in Seq(S) /\ Len(u \o s) = Len(u) + Len(s)
        BY <1>1, <2>1, ConcatProperties
    <2>3. FirstOf(u \o s, cap) \in Seq(S) /\ Len(FirstOf(u \o s, cap)) = Lesser(cap, Len(u \o s))
        BY <2>2, EndsAreShorter
    <2>4. t = FirstOf(u \o s, cap) /\ Items(c) = 1
        BY <1>3, AfterPush DEF Items, u
    <2> QED
        BY <1>1, <2>1, <2>2, <2>3, <2>4 DEF Lesser
<1>4. CASE c.op \in {"insert", "rinsert"}
    <2>1. c.i \in 1 .. Len(s) + 1 /\ Items(c) = 1
        BY <1>4, Preconditions DEF Items
    <2> DEFINE u == InsertAt(s, c.i, c.x)
    <2>2. u \in Seq(S) /\ Len(u) = Len(s) + 1
        BY <1>1, <2>1, InsertAtLength
    <2>3. \/ ~(Len(s) = cap) /\ t = u
          \/ t = s
          \/ Len(s) = cap /\ t = Tail(u)
          \/ t = FirstOf(u, cap)
        BY <1>4, AfterInsert
    <2> HIDE DEF u
    <2>4. FirstOf(u, cap) \in Seq(S) /\ Len(FirstOf(u, cap)) = Lesser(cap, Len(u))
        BY <2>2, EndsAreShorter
    <2>5. u # <<>>
        BY <1>1, <2>2, EmptySeq
    <2>6. Tail(u) \in Seq(S) /\ Len(Tail(u)) = Len(u) - 1
        BY <2>2, <2>5, HeadTailProperties
    <2> HIDE DEF t
    <2>7. Lesser(cap, Len(s) + 1) <= cap /\ Lesser(cap, Len(s) + 1) <= Len(s) + 1
        BY <1>1 DEF Lesser
    <2>8. CASE ~(Len(s) = cap) /\ t = u
        BY <1>1, <2>1, <2>2, <2>8 DEF t
    <2>9. CASE t = s
        BY <1>1, <2>1, <2>9 DEF t
    <2>10. CASE Len(s) = cap /\ t = Tail(u)
        BY <1>1, <2>1, <2>2, <2>6, <2>10 DEF t
    <2>11. CASE t = FirstOf(u, cap)
        BY <1>1, <2>1, <2>2, <2>4, <2>7, <2>11 DEF t
    <2> QED
        BY <2>3, <2>8, <2>9, <2>10, <2>11
<1>5. CASE c.op \in {"insert_n", "rinsert_n"}
    <2>1. c.i \in 1 .. Len(s) + 1 /\ Items(c) = c.j
        BY <1>5, Preconditions DEF Items
    <2> DEFINE v == Copies(c.j, c.x)
               u == Bulk(c, s)
    <2>2. v \in Seq(S) /\ Len(v) = c.j
        BY <1>1, CopiesLength
    <2>3. u = SubSeq(s, 1, c.i - 1) \o v \o SubSeq(s, c.i, Len(s))
        BY DEF Bulk
    <2> HIDE DEF v, u
    <2> DEFINE w == SubSeq(s, 1, c.i - 1) \o v \o SubSeq(s, c.i, Len(s))
    <2>4. w \in Seq(S) /\ Len(w) = Len(s) + Len(v)
        BY <2>1, <2>2, PutLength
    <2>5. u \in Seq(S) /\ Len(u) = Len(s) + c.j
        BY <2>2, <2>3, <2>4
    <2>6. /\ FirstOf(u, cap) \in Seq(S) /\ Len(FirstOf(u, cap)) = Lesser(cap, Len(u))
          /\ LastOf(u, cap) \in Seq(S) /\ Len(LastOf(u, cap)) = Lesser(cap, Len(u))
        BY <2>5, EndsAreShorter
    <2>7. t = FirstOf(u, cap) \/ t = LastOf(u, cap)
        BY <1>5, AfterInsertN DEF u
    <2> QED
        BY <1>1, <2>1, <2>5, <2>6, <2>7 DEF Lesser
<1> QED
    BY <1>2, <1>3, <1>4, <1>5 DEF Pushing

\* A removal leaves no more than there was, a rotation as much.
LEMMA RemovalFits ==
    ASSUME NEW S, NEW s \in Seq(S), NEW cap,
           NEW c \in [op : (Removing \ {"clear"}) \cup {"rotate"}, i : Nat, j : Nat, x : S], Allowed(c, s)
    PROVE  LET t == After(c, s, cap)[1] IN t \in Seq(S) /\ Len(t) <= Len(s)
<1> DEFINE t == After(c, s, cap)[1]
<1>1. Len(s) \in Nat
    BY LenProperties
<1>2. CASE c.op = "pop_back"
    <2> DEFINE l == Len(s) - 1
    <2>1. 1 \in 1 .. Len(s) + 1 /\ l \in 1 - 1 .. Len(s) /\ l - 1 + 1 <= Len(s)
        BY <1>1, <1>2, Preconditions
    <2>2. t = SubSeq(s, 1, l)
        BY <1>2, AfterRemoval
    <2> HIDE DEF l
    <2>3. SubSeq(s, 1, l) \in Seq(S) /\ Len(SubSeq(s, 1, l)) = l - 1 + 1
        BY <2>1, PartIsShorter
    <2> QED
        BY <2>1, <2>2, <2>3
<1>3. CASE c.op = "pop_front"
    <2>1. s # <<>>
        BY <1>1, <1>3, Preconditions, EmptySeq
    <2>2. Tail(s) \in Seq(S) /\ Len(Tail(s)) = Len(s) - 1
        BY <2>1, HeadTailProperties
    <2>3. t = Tail(s)
        BY <1>3, AfterRemoval
    <2> QED
        BY <1>1, <2>2, <2>3
<1>4. CASE c.op \in {"erase", "rerase", "erase_range", "rerase_range"}
    <2>1. PICK m \in Nat, l \in Nat : /\ m \in 1 .. Len(s) + 1 /\ l \in 1 .. Len(s) + 1 /\ m <= l
                                      /\ t = Without(s, m, l)
        <3>1. CASE c.op \in {"erase", "rerase"}
            <4>1. c.i \in 1 .. Len(s)
                BY <3>1, Preconditions
            <4>2. c.i \in Nat /\ c.i + 1 \in Nat /\ c.i \in 1 .. Len(s) + 1 /\ c.i + 1 \in 1 .. Len(s) + 1
                  /\ c.i <= c.i + 1
                BY <1>1, <4>1
            <4>3. t = Without(s, c.i, c.i + 1)
                BY <3>1, AfterRemoval
            <4> QED
                BY <4>2, <4>3
        <3>2. CASE c.op \in {"erase_range", "rerase_range"}
            <4>1. c.i \in 1 .. c.j /\ c.j \in 1 .. Len(s) + 1
                BY <3>2, Preconditions
            <4>2. c.i \in Nat /\ c.j \in Nat /\ c.i \in 1 .. Len(s) + 1 /\ c.i <= c.j
                BY <1>1, <4>1
            <4>3. t = Without(s, c.i, c.j)
                BY <3>2, AfterRemoval
            <4> QED
                BY <4>1, <4>2, <4>3
        <3> QED
            BY <1>4, <3>1, <3>2
    <2> DEFINE w == SubSeq(s, 1, m - 1) \o SubSeq(s, l, Len(s))
    <2>3. w \in Seq(S) /\ Len(w) = m - 1 + (Len(s) - l + 1)
        BY <2>1, CutLength
    <2>4. t = w
        BY <2>1 DEF Without
    <2> HIDE DEF w, t
    <2> QED
        BY <1>1, <2>1, <2>3, <2>4 DEF t
<1>5. CASE c.op = "rotate"
    <2>1. c.i \in 1 .. Len(s)
        BY <1>5, Preconditions
    <2>2. t = SubSeq(s, c.i, Len(s)) \o SubSeq(s, 1, c.i - 1)
        BY <1>5, AfterRemoval
    <2> DEFINE w == SubSeq(s, c.i, Len(s)) \o SubSeq(s, 1, c.i - 1)
    <2>3. w \in Seq(S) /\ Len(w) = Len(s)
        BY <2>1, RotatedLength
    <2> HIDE DEF w, t
    <2>4. t = w
        BY <2>2 DEF w
    <2> QED
        BY <1>1, <2>3, <2>4 DEF t
<1> QED
    BY <1>2, <1>3, <1>4, <1>5 DEF Removing

\* What an exception leaves is no longer than what the call could have made.
LEMMA InterruptedFits ==
    ASSUME NEW S, NEW s \in Seq(S), NEW cap \in Nat, Len(s) <= cap, NEW c, c.x \in S, Moved \in S,
           c.op \in {"insert_n", "rinsert_n"} => c.j \in Nat,
           NEW t \in Interrupted(c, s, cap, Moved)
    PROVE  t \in Seq(S) /\ Len(t) <= cap
<1>1. Len(s) \in Nat /\ \A k \in 1 .. Len(s) : s[k] \in S
    BY LenProperties, ElementOfSeq
<1>2. CASE c.op \in Strong
    <2>1. Interrupted(c, s, cap, Moved) = {s}
        BY <1>2 DEF Interrupted, Strong
    <2> QED
        BY <2>1
<1>3. CASE c.op = "rotate"
    <2>1. PICK k \in 1 .. Len(s) : t = SubSeq(s, k, Len(s)) \o SubSeq(s, 1, k - 1)
        BY <1>3 DEF Interrupted, Strong
    <2> DEFINE w == SubSeq(s, k, Len(s)) \o SubSeq(s, 1, k - 1)
    <2>2. w \in Seq(S) /\ Len(w) = Len(s)
        BY RotatedLength
    <2> HIDE DEF w
    <2> QED
        BY <1>1, <2>1, <2>2 DEF w
<1>4. CASE c.op \notin Strong /\ c.op # "rotate"
    <2> DEFINE Old == {s[k] : k \in 1 .. Len(s)} \cup {c.x, Moved}
               n == IF c.op \in {"insert_n", "rinsert_n"} THEN c.j
                    ELSE IF c.op \in {"insert", "rinsert"} THEN 1 ELSE 0
    <2>1. t \in UNION {[1 .. m -> Old] : m \in Len(s) .. Lesser(cap, Len(s) + n)}
        BY <1>4 DEF Interrupted
    <2>2. n \in Nat /\ Old \subseteq S
        BY <1>1
    <2> HIDE DEF n, Old
    <2>3. PICK m \in Len(s) .. Lesser(cap, Len(s) + n) : t \in [1 .. m -> Old]
        BY <2>1
    <2>4. m \in Nat /\ m <= cap
        BY <1>1, <2>2 DEF Lesser
    <2>5. t \in [1 .. m -> S]
        BY <2>2, <2>3
    <2>6. t \in Seq(S) /\ Len(t) = m
        BY <2>4, <2>5, SeqDef
    <2> QED
        BY <2>4, <2>6
<1> QED
    BY <1>2, <1>3, <1>4

---------------------------------------------------------------------------
(* The invariant.                                                          *)

Element == Value \cup {Moved}

Sound ==
    /\ contents \in Seq(Element)
    /\ inner \in Nat /\ inner <= max_size
    /\ ctrl \in CapacityControl
    /\ Len(contents) <= inner /\ inner <= ctrl.cap
    /\ request # NoCall => request \in Call /\ Allowed(request, contents)

\* The numbers asked for are small enough for the arithmetic of the policy:
\* the size to be, less than two fifths of the range of size_type.
Moderate == Grows => 5 * (Len(contents) + Added) < 2 * SizeMax

\* A failure of an operation that has set the controller by then.
FailsHalfway == Completes /\ threw' /\ request.op \in Setting \cup {"assign_range"}

LEMMA Numbers ==
    ASSUME Sound
    PROVE  /\ Len(contents) \in Nat /\ Len(contents) \in 0 .. inner
           /\ ctrl.cap \in Nat /\ ctrl.min \in Nat /\ ctrl.min <= ctrl.cap
           /\ Moved \in Element /\ Value \subseteq Element
<1>1. Len(contents) \in Nat
    BY LenProperties DEF Sound
<1> QED
    BY <1>1 DEF Sound, CapacityControl, Element

LEMMA StandardRequest ==
    ASSUME Sound, request # NoCall, request.op \in Standard
    PROVE  /\ request \in [op : Standard, i : Nat, j : Nat, x : Element]
           /\ request.i \in Nat /\ request.j \in Nat /\ request.x \in Element
           /\ request.op \in Setting => request.j <= request.i
<1>1. request \in [op : Standard, i : Nat, j : Nat, x : Value] /\ (request.op \in Setting => request.j <= request.i)
    BY CallAssumption DEF Sound
<1> QED
    BY <1>1 DEF Element

\* A growing call inserts under a controller whose capacity the new size fits.
LEMMA InsertionIsAllowed ==
    ASSUME Sound, Grows
    PROVE  /\ Insertion \in [op : Pushing, i : Nat, j : Nat, x : Element]
           /\ Allowed(Insertion, contents)
           /\ Added = Items(Insertion) /\ Added \in Nat
           /\ RaisedControl \in CapacityControl
           /\ ctrl.cap <= RaisedControl.cap /\ RaisedControl.min = ctrl.min
<1> DEFINE n == Len(contents)
<1>1. request.op \in Standard /\ request # NoCall
    BY DEF Grows, Standard
<1>2. /\ request \in [op : Standard, i : Nat, j : Nat, x : Element]
      /\ request.i \in Nat /\ request.j \in Nat /\ request.x \in Element
    BY <1>1, StandardRequest
<1>3. n \in Nat
    BY Numbers
<1>4. CASE request.op \in Pushing
    <2>1. Insertion = request
        BY <1>4 DEF Insertion, Pushing
    <2>2. request \in [op : Pushing, i : Nat, j : Nat, x : Element]
        BY <1>2, <1>4
    <2>3. Allowed(request, contents)
        BY <1>1 DEF Sound
    <2>4. RaisedControl = ctrl
        BY <1>4 DEF RaisedControl, Pushing, Sizing
    <2>5. Added = Items(request)
        BY <2>1 DEF Added, Items
    <2>6. Items(request) \in Nat
        BY <1>2 DEF Items
    <2> QED
        BY <2>1, <2>2, <2>3, <2>4, <2>5, <2>6, Numbers DEF Sound
<1>5. CASE request.op \in Sizing
    <2>1. request.i > n
        BY <1>5 DEF Grows, Pushing, Sizing
    <2>2. PICK o \in {"insert_n", "rinsert_n"}, p \in {1, n + 1} :
              Insertion = [op |-> o, i |-> p, j |-> request.i - n, x |-> request.x]
        BY <1>5 DEF Insertion, Sizing
    <2>3. Insertion \in [op : Pushing, i : Nat, j : Nat, x : Element]
        BY <1>2, <1>3, <2>1, <2>2 DEF Pushing
    <2>4. Insertion.op = o /\ Insertion.i = p /\ Insertion.j = request.i - n
        BY <2>2
    <2>5. Allowed(Insertion, contents)
        <3>1. p \in 1 .. n + 1
            BY <1>3
        <3> QED
            BY <2>4, <3>1 DEF Allowed
    <2>6. Added = Items(Insertion) /\ Added \in Nat
        BY <1>2, <1>3, <2>1, <2>4 DEF Added, Items
    <2>7. RaisedControl \in CapacityControl /\ ctrl.cap <= RaisedControl.cap /\ RaisedControl.min = ctrl.min
        <3>1. PICK a \in Nat, b \in Nat : ctrl = [cap |-> a, min |-> b] /\ b <= a
            BY DEF Sound, CapacityControl
        <3>2. RaisedControl = [cap |-> Greater(a, request.i), min |-> b]
            BY <1>5, <3>1 DEF RaisedControl
        <3>3. Greater(a, request.i) \in Nat /\ a <= Greater(a, request.i) /\ b <= Greater(a, request.i)
            BY <1>2, <3>1 DEF Greater
        <3> QED
            BY <3>1, <3>2, <3>3 DEF CapacityControl
    <2> QED
        BY <2>3, <2>5, <2>6, <2>7
<1> QED
    BY <1>4, <1>5 DEF Grows

\* The capacity that a growing call sets, and with it the place for the items.
LEMMA GrowingCapacity ==
    ASSUME Sound, Grows, Moderate
    PROVE  LET k == LowCapacity(Added, RaisedControl) IN
           /\ k \in Nat /\ inner <= k /\ k <= RaisedControl.cap
           /\ k = RaisedControl.cap \/ Len(contents) + Added <= k
           /\ k = inner \/ k = RaisedControl.cap \/ Len(contents) + Added + k \div 5 < k
           /\ NewSize(Added) > inner => Doublings(NewSize(Added)) # {}
           /\ FirstOf(contents, k) = contents
<1> DEFINE k == LowCapacity(Added, RaisedControl)
<1>1. /\ Added \in Nat /\ RaisedControl \in CapacityControl /\ ctrl.cap <= RaisedControl.cap
    BY InsertionIsAllowed
<1>2. inner <= RaisedControl.cap /\ RaisedControl.cap \in Nat
    BY <1>1, Numbers DEF Sound, CapacityControl
<1>3. 5 * (Len(contents) + Added) < 2 * SizeMax
    BY DEF Moderate
<1>4. inner \in Nat /\ inner <= max_size /\ Len(contents) \in 0 .. inner
    BY Numbers DEF Sound
<1>5. /\ k \in Nat /\ inner <= k /\ k <= RaisedControl.cap
      /\ k = RaisedControl.cap \/ Len(contents) + Added <= k
      /\ k = inner \/ k = RaisedControl.cap \/ Len(contents) + Added + k \div 5 < k
      /\ NewSize(Added) > inner => Doublings(NewSize(Added)) # {}
    BY <1>1, <1>2, <1>3, <1>4, LowCapacityHolds
<1> HIDE DEF k
<1>6. Lesser(k, Len(contents)) = Len(contents)
    BY <1>4, <1>5 DEF Lesser
<1>7. FirstOf(contents, k) = contents
    BY <1>6, SubSeqFull DEF FirstOf, Sound
<1> QED
    BY <1>5, <1>7 DEF k

---------------------------------------------------------------------------
(* Each action preserves the invariant.                                    *)

\* Where a call has ended.
LEMMA EndedSound ==
    ASSUME contents' \in Seq(Element), inner' \in Nat, inner' <= max_size, ctrl' \in CapacityControl,
           Len(contents') <= inner', inner' <= ctrl'.cap, request' = NoCall
    PROVE  Sound'
BY DEF Sound

LEMMA InvokeSound ==
    ASSUME Sound, Invoke PROVE Sound'
BY DEF Sound, Invoke

LEMMA InitSound ==
    ASSUME Init PROVE Sound
<1>1. PICK ctl \in Control, s \in Source : New(ctl, s)
    BY DEF Init
<1>2. s \in Seq(Value) /\ s \in Seq(Element) /\ Len(s) \in Nat
    <2>1. s \in Seq(Value)
        BY SourceAssumption
    <2>2. s \in [1 .. Len(s) -> Value] /\ Len(s) \in Nat
        BY <2>1, LenProperties
    <2>3. s \in [1 .. Len(s) -> Element]
        BY <2>2 DEF Element
    <2> QED
        BY <2>1, <2>2, <2>3, SeqDef
<1>3. PICK a \in Nat, b \in Nat : ctl = [cap |-> a, min |-> b] /\ b <= a
    BY CapacityAssumption DEF Control
<1>4. ctl \in CapacityControl /\ ctl.cap = a /\ ctl.min = b
    BY <1>3 DEF CapacityControl
<1>5. inner <= max_size /\ request = NoCall
    BY DEF Init
<1> DEFINE Goal == /\ contents \in Seq(Element) /\ inner \in Nat /\ ctrl \in CapacityControl
                   /\ Len(contents) <= inner /\ inner <= ctrl.cap
<1> SUFFICES Goal
    BY <1>5 DEF Sound
<1>6. CASE contents = <<>> /\ inner = ctl.min /\ ctrl = ctl
    <2>1. contents \in Seq(Element) /\ Len(contents) = 0
        BY <1>6, EmptySeq
    <2> QED
        BY <1>3, <1>4, <1>6, <2>1
<1>7. CASE contents = LastOf(s, ctl.cap) /\ inner = init_capacity(ctl, Len(s)) /\ ctrl = ctl
    <2>1. contents \in Seq(Element) /\ Len(contents) = Lesser(a, Len(s))
        BY <1>2, <1>3, <1>4, <1>7, EndsAreShorter
    <2>2. inner = Greater(b, Lesser(a, Len(s)))
        BY <1>4, <1>7 DEF init_capacity
    <2>3. Lesser(a, Len(s)) \in Nat /\ Lesser(a, Len(s)) <= a
        BY <1>2, <1>3 DEF Lesser
    <2>4. inner \in Nat /\ Lesser(a, Len(s)) <= inner /\ inner <= a
        BY <1>3, <2>2, <2>3 DEF Greater
    <2> QED
        BY <1>4, <1>7, <2>1, <2>4
<1>8. CASE (\E x \in Value : contents = Copies(ctl.cap, x)) /\ inner = ctl.cap /\ ctrl = ctl
    <2>1. PICK x \in Value : contents = Copies(a, x)
        BY <1>4, <1>8
    <2>2. contents \in Seq(Element) /\ Len(contents) = a
        BY <1>3, <2>1, CopiesLength DEF Element
    <2> QED
        BY <1>3, <1>4, <1>8, <2>2
<1>9. CASE Len(s) <= ctl.cap /\ contents = s /\ inner = Len(s) /\ ctrl = ctl
    BY <1>2, <1>4, <1>9
<1>10. CASE contents = s /\ inner = Len(s) /\ ctrl = [cap |-> Len(s), min |-> 0]
    BY <1>2, <1>10 DEF CapacityControl
<1> HIDE DEF Goal
<1> QED
    BY <1>1, <1>6, <1>7, <1>8, <1>9, <1>10
       DEF New, NewEmpty, NewFull, NewFrom, NewCopy, NewOfRange

LEMMA GrowSound ==
    ASSUME Sound, Moderate, Grow PROVE Sound'
<1> DEFINE k == LowCapacity(Added, RaisedControl)
           kept == FirstOf(contents, k)
           after == After(Insertion, kept, k)
<1>1. /\ Insertion \in [op : Pushing, i : Nat, j : Nat, x : Element]
      /\ Allowed(Insertion, contents) /\ RaisedControl \in CapacityControl
    BY InsertionIsAllowed DEF Grow
<1>2. k \in Nat /\ inner <= k /\ k <= RaisedControl.cap /\ kept = contents
    BY GrowingCapacity DEF Grow
<1>3. contents \in Seq(Element) /\ inner \in Nat /\ Len(contents) \in Nat /\ Len(contents) <= inner
      /\ inner <= max_size /\ Moved \in Element /\ RaisedControl.cap \in Nat
    BY <1>1, Numbers DEF Sound, CapacityControl
<1>4. \/ Return(after[1], k, RaisedControl, after[3])
      \/ Throw(contents, inner, RaisedControl)
      \/ \E s \in Interrupted(Insertion, kept, k, Moved) : Throw(s, k, RaisedControl)
    BY DEF Grow
<1> HIDE DEF k, kept
<1>5. CASE Return(after[1], k, RaisedControl, after[3])
    <2>1. after[1] \in Seq(Element) /\ Len(after[1]) <= k
        <3>1. Len(contents) <= k
            BY <1>2, <1>3
        <3> QED
            BY <1>1, <1>2, <1>3, <3>1, InsertionFits
    <2> HIDE DEF after
    <2> QED
        BY <1>1, <1>2, <1>5, <2>1, EndedSound DEF Return
<1>6. CASE Throw(contents, inner, RaisedControl)
    <2>1. inner <= RaisedControl.cap
        BY <1>2, <1>3
    <2> QED
        BY <1>1, <1>3, <1>6, <2>1, EndedSound DEF Throw
<1>7. ASSUME NEW s \in Interrupted(Insertion, kept, k, Moved), Throw(s, k, RaisedControl)
      PROVE  Sound'
    <2>1. Insertion.x \in Element /\ Insertion.j \in Nat /\ Len(contents) <= k
        BY <1>1, <1>2, <1>3
    <2>2. s \in Seq(Element) /\ Len(s) <= k
        BY <1>2, <1>3, <1>7, <2>1, InterruptedFits
    <2> QED
        BY <1>1, <1>2, <1>7, <2>2, EndedSound DEF Throw
<1> QED
    BY <1>4, <1>5, <1>6, <1>7

\* A shrinking call makes its base class erase.
LEMMA RemovalIsAllowed ==
    ASSUME Sound, Shrinks
    PROVE  /\ Removal \in [op : Removing \ {"clear"}, i : Nat, j : Nat, x : Element]
           /\ Allowed(Removal, contents)
<1> DEFINE n == Len(contents)
<1>1. request.op \in Standard /\ request # NoCall
    BY DEF Shrinks, Standard
<1>2. /\ request \in [op : Standard, i : Nat, j : Nat, x : Element]
      /\ request.i \in Nat /\ request.j \in Nat /\ request.x \in Element
    BY <1>1, StandardRequest
<1>3. n \in Nat
    BY Numbers
<1>4. CASE request.op \in Removing \ {"clear"}
    <2>1. Removal = request
        BY <1>4 DEF Removal, Removing
    <2>2. request \in [op : Removing \ {"clear"}, i : Nat, j : Nat, x : Element]
        BY <1>2, <1>4
    <2> QED
        BY <1>1, <2>1, <2>2 DEF Sound
<1>5. CASE request.op \in {"clear", "resize", "rresize"}
    <2>1. request.op # "clear" => request.i <= n
        BY <1>5 DEF Shrinks, Removing, Sizing
    <2>2. PICK o \in {"erase_range", "rerase_range"}, p \in Nat, q \in Nat :
              /\ Removal = [op |-> o, i |-> p, j |-> q, x |-> request.x]
              /\ 1 <= p /\ p <= q /\ q <= n + 1
        <3>1. CASE request.op = "clear"
            <4>1. Removal = [op |-> "erase_range", i |-> 1, j |-> n + 1, x |-> request.x]
                BY <1>2, <3>1 DEF Removal
            <4>2. 1 \in Nat /\ n + 1 \in Nat /\ 1 <= n + 1
                BY <1>3
            <4> QED
                BY <4>1, <4>2
        <3>2. CASE request.op = "resize"
            <4>1. Removal = [op |-> "erase_range", i |-> request.i + 1, j |-> n + 1, x |-> request.x]
                BY <1>2, <3>2 DEF Removal
            <4>2. request.i + 1 \in Nat /\ n + 1 \in Nat /\ 1 <= request.i + 1 /\ request.i + 1 <= n + 1
                BY <1>2, <1>3, <2>1, <3>2
            <4> QED
                BY <4>1, <4>2
        <3>3. CASE request.op = "rresize"
            <4>1. Removal = [op |-> "rerase_range", i |-> 1, j |-> n - request.i + 1, x |-> request.x]
                BY <1>2, <3>3 DEF Removal
            <4>2. n - request.i + 1 \in Nat /\ 1 <= n - request.i + 1 /\ n - request.i + 1 <= n + 1
                BY <1>2, <1>3, <2>1, <3>3
            <4> QED
                BY <4>1, <4>2
        <3> QED
            BY <1>5, <3>1, <3>2, <3>3
    <2>3. Removal.op = o /\ Removal.i = p /\ Removal.j = q
        BY <2>2
    <2>4. p \in 1 .. q /\ q \in 1 .. n + 1
        BY <1>3, <2>2
    <2>5. Allowed(Removal, contents)
        BY <2>3, <2>4 DEF Allowed
    <2>6. Removal \in [op : Removing \ {"clear"}, i : Nat, j : Nat, x : Element]
        BY <1>2, <2>2 DEF Removing
    <2> QED
        BY <2>5, <2>6
<1> QED
    BY <1>4, <1>5 DEF Shrinks, Removing, Sizing

\* What is left, and the room for it.
LEMMA ShrinkingCapacity ==
    ASSUME Sound, NEW s \in Seq(Element), Len(s) <= Len(contents)
    PROVE  LET k == HighCapacity(Len(s), ctrl) IN
           /\ Len(s) \in Nat /\ k \in Nat /\ Len(s) <= k /\ k <= ctrl.cap
           /\ inner >= ctrl.min => k >= ctrl.min
           /\ k = ctrl.cap \/ k = 0 \/ Len(s) + k \div 5 < k
<1>1. Len(s) \in Nat
    BY LenProperties
<1>2. Len(s) \in 0 .. inner /\ Len(s) <= ctrl.cap
    BY <1>1, Numbers DEF Sound
<1> QED
    BY <1>1, <1>2, HighCapacityHolds DEF Sound

LEMMA ShrinkSound ==
    ASSUME Sound, Shrink PROVE Sound'
<1> DEFINE after == After(Removal, contents, inner)
           k == HighCapacity(Len(after[1]), ctrl)
           pos == IF request.op \in Sizing \cup {"clear"} THEN 0 ELSE after[3]
<1>1. /\ Removal \in [op : Removing \ {"clear"}, i : Nat, j : Nat, x : Element]
      /\ Allowed(Removal, contents)
    BY RemovalIsAllowed DEF Shrink
<1>2. Removal \in [op : (Removing \ {"clear"}) \cup {"rotate"}, i : Nat, j : Nat, x : Element]
    BY <1>1
<1>3. /\ contents \in Seq(Element) /\ inner \in Nat /\ Len(contents) \in Nat /\ Len(contents) <= inner
      /\ inner <= max_size /\ Moved \in Element /\ ctrl \in CapacityControl /\ inner <= ctrl.cap
      /\ ctrl.cap \in Nat
    BY Numbers DEF Sound
<1>4. after[1] \in Seq(Element) /\ Len(after[1]) <= Len(contents)
    BY <1>1, <1>2, <1>3, RemovalFits
<1>5. \/ Return(after[1], k, ctrl, pos)
      \/ Throw(after[1], inner, ctrl)
      \/ \E s \in Interrupted(Removal, contents, inner, Moved) : Throw(s, inner, ctrl)
    BY DEF Shrink
<1> HIDE DEF after
<1>6. Len(after[1]) \in Nat /\ k \in Nat /\ Len(after[1]) <= k /\ k <= ctrl.cap
    BY <1>4, ShrinkingCapacity
<1> HIDE DEF k, pos
<1>7. CASE Return(after[1], k, ctrl, pos)
    BY <1>3, <1>4, <1>6, <1>7, EndedSound DEF Return
<1>8. CASE Throw(after[1], inner, ctrl)
    <2>1. Len(after[1]) <= inner
        BY <1>3, <1>4, <1>6
    <2> QED
        BY <1>3, <1>4, <1>8, <2>1, EndedSound DEF Throw
<1>9. ASSUME NEW s \in Interrupted(Removal, contents, inner, Moved), Throw(s, inner, ctrl)
      PROVE  Sound'
    <2>1. Removal.x \in Element /\ Removal.j \in Nat
        BY <1>1
    <2>2. s \in Seq(Element) /\ Len(s) <= inner
        BY <1>3, <2>1, InterruptedFits
    <2> QED
        BY <1>3, <1>9, <2>2, EndedSound DEF Throw
<1> QED
    BY <1>5, <1>7, <1>8, <1>9

LEMMA RotateSound ==
    ASSUME Sound, Rotate PROVE Sound'
<1> DEFINE after == After(request, contents, inner)
<1>1. request # NoCall /\ request.op = "rotate" /\ request.op \in Standard
    BY DEF Rotate, Standard
<1>2. request \in [op : Standard, i : Nat, j : Nat, x : Element] /\ request.x \in Element /\ request.j \in Nat
    BY <1>1, StandardRequest
<1>3. request \in [op : (Removing \ {"clear"}) \cup {"rotate"}, i : Nat, j : Nat, x : Element]
    BY <1>1, <1>2
<1>4. Allowed(request, contents)
    BY <1>1 DEF Sound
<1>5. /\ contents \in Seq(Element) /\ inner \in Nat /\ Len(contents) \in Nat /\ Len(contents) <= inner
      /\ inner <= max_size /\ Moved \in Element /\ ctrl \in CapacityControl /\ inner <= ctrl.cap
    BY Numbers DEF Sound
<1>6. after[1] \in Seq(Element) /\ Len(after[1]) <= Len(contents)
    BY <1>3, <1>4, <1>5, RemovalFits
<1>7. Len(after[1]) <= inner
    <2>1. Len(after[1]) \in Nat
        BY <1>6, LenProperties
    <2> QED
        BY <1>5, <1>6, <2>1
<1>8. \/ Return(after[1], inner, ctrl, 0)
      \/ \E s \in Interrupted(request, contents, inner, Moved) : Throw(s, inner, ctrl)
    BY DEF Rotate
<1> HIDE DEF after
<1>9. CASE Return(after[1], inner, ctrl, 0)
    BY <1>5, <1>6, <1>7, <1>9, EndedSound DEF Return
<1>10. ASSUME NEW s \in Interrupted(request, contents, inner, Moved), Throw(s, inner, ctrl)
       PROVE  Sound'
    <2>1. s \in Seq(Element) /\ Len(s) <= inner
        BY <1>2, <1>5, InterruptedFits
    <2> QED
        BY <1>5, <1>10, <2>1, EndedSound DEF Throw
<1> QED
    BY <1>8, <1>9, <1>10

\* What set_capacity and rset_capacity leave, and the capacity they set.
LEMMA SettingCapacity ==
    ASSUME Sound, request # NoCall, request.op \in Setting
    PROVE  LET ctl  == [cap |-> request.i, min |-> request.j]
               kept == IF request.op = "set_capacity" THEN FirstOf(contents, ctl.cap)
                                                      ELSE LastOf(contents, ctl.cap)
               k    == IF ctl.min > inner THEN ctl.min ELSE HighCapacity(Len(kept), ctl)
           IN  /\ ctl \in CapacityControl /\ kept \in Seq(Element)
               /\ k \in Nat /\ Len(kept) <= k /\ k <= ctl.cap /\ ctl.min <= k
<1> DEFINE ctl  == [cap |-> request.i, min |-> request.j]
           kept == IF request.op = "set_capacity" THEN FirstOf(contents, ctl.cap)
                                                  ELSE LastOf(contents, ctl.cap)
           k    == IF ctl.min > inner THEN ctl.min ELSE HighCapacity(Len(kept), ctl)
<1>1. request.i \in Nat /\ request.j \in Nat /\ request.j <= request.i
    BY StandardRequest DEF Standard
<1>2. ctl \in CapacityControl /\ ctl.cap = request.i /\ ctl.min = request.j
    BY <1>1 DEF CapacityControl
<1>3. /\ contents \in Seq(Element) /\ inner \in Nat /\ Len(contents) \in Nat /\ Len(contents) <= inner
      /\ inner <= max_size
    BY Numbers DEF Sound
<1>4. kept \in Seq(Element) /\ Len(kept) = Lesser(request.i, Len(contents))
    BY <1>1, <1>2, <1>3, EndsAreShorter
<1> HIDE DEF ctl, kept
<1>5. Len(kept) \in 0 .. inner /\ Len(kept) <= request.i /\ Len(kept) \in Nat
    BY <1>1, <1>3, <1>4 DEF Lesser
<1>6. CASE ctl.min > inner
    BY <1>1, <1>2, <1>3, <1>4, <1>5, <1>6 DEF ctl, kept
<1>7. CASE ~(ctl.min > inner)
    <2> DEFINE h == HighCapacity(Len(kept), ctl)
    <2>1. Len(kept) <= ctl.cap
        BY <1>2, <1>5
    <2>2. /\ h \in Nat /\ Len(kept) <= h /\ h <= ctl.cap
          /\ inner >= ctl.min => h >= ctl.min
        BY <1>2, <1>3, <1>5, <2>1, HighCapacityHolds
    <2>3. k = h
        BY <1>7
    <2> HIDE DEF h
    <2>4. ctl.min <= h
        BY <1>1, <1>2, <1>3, <1>7, <2>2
    <2> QED
        BY <1>2, <1>4, <2>2, <2>3, <2>4 DEF ctl, kept
<1> QED
    BY <1>6, <1>7

LEMMA SetCapacitySound ==
    ASSUME Sound, SetCapacity, ~FailsHalfway PROVE Sound'
<1> DEFINE ctl  == [cap |-> request.i, min |-> request.j]
           kept == IF request.op = "set_capacity" THEN FirstOf(contents, ctl.cap)
                                                  ELSE LastOf(contents, ctl.cap)
           k    == IF ctl.min > inner THEN ctl.min ELSE HighCapacity(Len(kept), ctl)
<1>1. request # NoCall /\ request.op \in Setting
    BY DEF SetCapacity, KeptUnder
<1>2. /\ ctl \in CapacityControl /\ kept \in Seq(Element)
      /\ k \in Nat /\ Len(kept) <= k /\ k <= ctl.cap
    BY <1>1, SettingCapacity
<1>3. Return(kept, k, ctl, 0) \/ Throw(kept, inner, ctl)
    BY DEF SetCapacity, KeptUnder
<1> HIDE DEF ctl, kept, k
<1>4. ~Throw(kept, inner, ctl)
    BY <1>1 DEF Throw, FailsHalfway, Completes
<1> QED
    BY <1>2, <1>3, <1>4, EndedSound DEF Return

\* The arguments of the assignments.
LEMMA AssigningRequest ==
    ASSUME Sound, request # NoCall
    PROVE  /\ request.op \in Assigning => request.seq \in Seq(Element) /\ Len(request.seq) \in Nat
           /\ request.op \in (Assigning \ {"assign"}) \cup {"move"} =>
                  /\ request.ctl \in CapacityControl
                  /\ request.ctl.cap \in Nat /\ request.ctl.min \in Nat /\ request.ctl.min <= request.ctl.cap
           /\ request.op \in {"assign_items", "copy_assign"} => Len(request.seq) <= request.ctl.cap
<1>1. /\ request.op \in Assigning => request.seq \in Seq(Value)
      /\ request.op \in (Assigning \ {"assign"}) \cup {"move"} => request.ctl \in CapacityControl
      /\ request.op \in {"assign_items", "copy_assign"} => Len(request.seq) <= request.ctl.cap
    BY CallAssumption DEF Sound
<1>2. ASSUME NEW s \in Seq(Value) PROVE s \in Seq(Element) /\ Len(s) \in Nat
    <2>1. s \in [1 .. Len(s) -> Value] /\ Len(s) \in Nat
        BY LenProperties
    <2>2. s \in [1 .. Len(s) -> Element]
        BY <2>1 DEF Element
    <2> QED
        BY <2>1, <2>2, SeqDef
<1>3. \A c \in CapacityControl : c.cap \in Nat /\ c.min \in Nat /\ c.min <= c.cap
    BY DEF CapacityControl
<1> QED
    BY <1>1, <1>2, <1>3

LEMMA BaseAssignSound ==
    ASSUME Sound, NEW k \in Nat, NEW s \in Seq(Element), Len(s) <= k,
           NEW ctl \in CapacityControl, k <= ctl.cap, NEW early,
           BaseAssign(k, s, ctl, early), threw' => early = ctrl
    PROVE  Sound'
<1>1. /\ contents \in Seq(Element) /\ inner \in Nat /\ Len(contents) <= inner
      /\ inner <= max_size /\ ctrl \in CapacityControl /\ inner <= ctrl.cap
    BY DEF Sound
<1>2. CASE Return(s, k, ctl, 0)
    BY <1>2, EndedSound DEF Return
<1>3. CASE Throw(<<>>, inner, early)
    <2>1. <<>> \in Seq(Element) /\ Len(<<>>) = 0 /\ 0 <= inner
        BY <1>1, EmptySeq
    <2> QED
        BY <1>1, <1>3, <2>1, EndedSound DEF Throw
<1>4. CASE Throw(contents, inner, early)
    BY <1>1, <1>4, EndedSound DEF Throw
<1> QED
    BY <1>2, <1>3, <1>4 DEF BaseAssign

LEMMA AssignsSound ==
    ASSUME Sound, ~FailsHalfway, Assign \/ AssignItems \/ AssignRange \/ AssignOperator \/ MoveFrom
    PROVE  Sound'
<1>1. CASE Assign
    <2> DEFINE n == Len(request.seq)
               ctl == [cap |-> n, min |-> 0]
    <2>1. request # NoCall /\ request.op = "assign" /\ BaseAssign(n, request.seq, ctl, ctrl)
        BY <1>1 DEF Assign
    <2>2. request.seq \in Seq(Element) /\ n \in Nat
        BY <2>1, AssigningRequest DEF Assigning
    <2>3. ctl \in CapacityControl /\ ctl.cap = n /\ n <= n
        BY <2>2 DEF CapacityControl
    <2> HIDE DEF ctl
    <2> QED
        BY <2>1, <2>2, <2>3, BaseAssignSound
<1>2. CASE AssignItems
    <2> DEFINE n == Len(request.seq)
               k == Greater(request.ctl.min, n)
    <2>1. request # NoCall /\ request.op = "assign_items" /\ BaseAssign(k, request.seq, request.ctl, ctrl)
        BY <1>2 DEF AssignItems
    <2>2. /\ request.seq \in Seq(Element) /\ n \in Nat /\ n <= request.ctl.cap
          /\ request.ctl \in CapacityControl /\ request.ctl.cap \in Nat /\ request.ctl.min \in Nat
          /\ request.ctl.min <= request.ctl.cap
        BY <2>1, AssigningRequest DEF Assigning
    <2>3. k \in Nat /\ n <= k /\ k <= request.ctl.cap
        BY <2>2 DEF Greater
    <2> HIDE DEF k
    <2> QED
        BY <2>1, <2>2, <2>3, BaseAssignSound
<1>3. CASE AssignRange
    <2> DEFINE s == LastOf(request.seq, request.ctl.cap)
    <2>1. request # NoCall /\ request.op = "assign_range" /\ BaseAssign(request.ctl.cap, s, request.ctl, request.ctl)
        BY <1>3 DEF AssignRange
    <2>2. /\ request.seq \in Seq(Element) /\ Len(request.seq) \in Nat
          /\ request.ctl \in CapacityControl /\ request.ctl.cap \in Nat
        BY <2>1, AssigningRequest DEF Assigning
    <2>3. s \in Seq(Element) /\ Len(s) = Lesser(request.ctl.cap, Len(request.seq))
        BY <2>2, EndsAreShorter
    <2>4. Len(s) <= request.ctl.cap /\ request.ctl.cap <= request.ctl.cap
        BY <2>2, <2>3 DEF Lesser
    <2> HIDE DEF s
    <2>5. ~threw'
        BY <2>1 DEF FailsHalfway, Completes, BaseAssign, Return, Throw
    <2> QED
        BY <2>1, <2>2, <2>3, <2>4, <2>5, BaseAssignSound
<1>4. CASE AssignOperator
    <2> DEFINE n == Len(request.seq)
    <2>1. request # NoCall /\ request.op = "copy_assign" /\ BaseAssign(n, request.seq, request.ctl, ctrl)
        BY <1>4 DEF AssignOperator
    <2>2. /\ request.seq \in Seq(Element) /\ n \in Nat /\ n <= request.ctl.cap /\ n <= n
          /\ request.ctl \in CapacityControl
        BY <2>1, AssigningRequest DEF Assigning
    <2> QED
        BY <2>1, <2>2, BaseAssignSound
<1>5. CASE MoveFrom
    <2>1. request # NoCall /\ request.op = "move" /\ Return(<<>>, 0, request.ctl, 0)
        BY <1>5 DEF MoveFrom
    <2>2. request.ctl \in CapacityControl /\ request.ctl.cap \in Nat
        BY <2>1, AssigningRequest
    <2>3. <<>> \in Seq(Element) /\ Len(<<>>) = 0 /\ 0 <= request.ctl.cap /\ 0 <= max_size
        BY <2>2, EmptySeq, Sizes
    <2> QED
        BY <2>1, <2>2, <2>3, EndedSound DEF Return
<1> QED
    BY <1>1, <1>2, <1>3, <1>4, <1>5

LEMMA NextSound ==
    ASSUME Sound, Moderate, [Next]_vars, ~FailsHalfway \/ UNCHANGED vars
    PROVE  Sound'
<1>1. CASE UNCHANGED vars
    BY <1>1 DEF Sound, vars
<1>2. CASE Next /\ ~FailsHalfway
    BY <1>2, InvokeSound, GrowSound, ShrinkSound, RotateSound, SetCapacitySound, AssignsSound
    DEF Next, Complete
<1> QED
    BY <1>1, <1>2

---------------------------------------------------------------------------
(* The theorems.                                                           *)

\* In every behaviour whose calls ask for moderate numbers, and in which no
\* exception meets a call that has set the controller, the types are right and
\* the contents, the internal capacity and the capacity of the controller stand
\* in order.
THEOREM SoundAlways ==
    Spec /\ []Moderate /\ [][~FailsHalfway]_vars => []Sound
<1>1. Sound /\ Moderate /\ [Next]_vars /\ [~FailsHalfway]_vars => Sound'
    BY NextSound
<1> QED
    BY <1>1, InitSound, PTL DEF Spec

\* Neither the elements nor the internal buffer ever exceed the capacity that
\* the user set.
THEOREM CapacityIsKept ==
    Spec /\ []Moderate /\ [][~FailsHalfway]_vars => []CapacityIsTheLimit
<1>1. Sound => CapacityIsTheLimit
    BY DEF Sound, CapacityIsTheLimit
<1> QED
    BY <1>1, SoundAlways, PTL

\* The doubling loop of check_low_capacity ends.
THEOREM DoublingEnds ==
    Spec /\ []Moderate /\ [][~FailsHalfway]_vars => []DoublingStops
<1>1. Sound /\ Moderate => DoublingStops
    BY GrowingCapacity DEF DoublingStops
<1> QED
    BY <1>1, SoundAlways, PTL

---------------------------------------------------------------------------
(* The minimum and the reserve.                                            *)

LEMMA StepKeepsMinimum ==
    ASSUME Sound, Moderate, Next, ~FailsHalfway, Completes, inner >= ctrl.min,
           request.op \notin {"copy_assign", "move"}
    PROVE  inner' >= ctrl'.min
<1>1. request # NoCall
    BY DEF Completes
<1>2. /\ inner \in Nat /\ ctrl.min \in Nat
    BY Numbers DEF Sound
<1>3. CASE Grow
    <2> DEFINE k == LowCapacity(Added, RaisedControl)
    <2>1. k \in Nat /\ inner <= k
        BY <1>3, GrowingCapacity DEF Grow
    <2>2. RaisedControl.min = ctrl.min
        BY <1>3, InsertionIsAllowed DEF Grow
    <2>3. (inner' = k \/ inner' = inner) /\ ctrl' = RaisedControl
        BY <1>3 DEF Grow, Return, Throw
    <2> HIDE DEF k
    <2> QED
        BY <1>2, <2>1, <2>2, <2>3
<1>4. CASE Shrink
    <2> DEFINE after == After(Removal, contents, inner)
               k == HighCapacity(Len(after[1]), ctrl)
    <2>1. /\ Removal \in [op : Removing \ {"clear"}, i : Nat, j : Nat, x : Element]
          /\ Allowed(Removal, contents)
        BY <1>4, RemovalIsAllowed DEF Shrink
    <2>2. Removal \in [op : (Removing \ {"clear"}) \cup {"rotate"}, i : Nat, j : Nat, x : Element]
        BY <2>1
    <2>3. after[1] \in Seq(Element) /\ Len(after[1]) <= Len(contents)
        BY <2>1, <2>2, RemovalFits DEF Sound
    <2>4. (inner' = k \/ inner' = inner) /\ ctrl' = ctrl
        BY <1>4 DEF Shrink, Return, Throw
    <2> HIDE DEF after
    <2>5. k >= ctrl.min
        BY <2>3, ShrinkingCapacity
    <2> QED
        BY <2>4, <2>5
<1>5. CASE Rotate
    BY <1>5 DEF Rotate, Return, Throw
<1>6. CASE SetCapacity
    <2> DEFINE ctl  == [cap |-> request.i, min |-> request.j]
               kept == IF request.op = "set_capacity" THEN FirstOf(contents, ctl.cap)
                                                      ELSE LastOf(contents, ctl.cap)
               k    == IF ctl.min > inner THEN ctl.min ELSE HighCapacity(Len(kept), ctl)
    <2>1. request.op \in Setting /\ (Return(kept, k, ctl, 0) \/ Throw(kept, inner, ctl))
        BY <1>6 DEF SetCapacity, KeptUnder
    <2>2. k \in Nat /\ ctl.min <= k /\ ctl \in CapacityControl
        BY <1>1, <2>1, SettingCapacity
    <2> HIDE DEF ctl, kept, k
    <2>3. ~Throw(kept, inner, ctl)
        BY <1>1, <2>1 DEF Throw, FailsHalfway, Completes
    <2>4. inner' = k /\ ctrl' = ctl
        BY <2>1, <2>3 DEF Return
    <2>5. ctl.min \in Nat
        BY <2>2 DEF CapacityControl
    <2> QED
        BY <2>2, <2>4, <2>5
<1>7. CASE Assign
    <2> DEFINE n == Len(request.seq)
               ctl == [cap |-> n, min |-> 0]
    <2>1. request.op = "assign" /\ BaseAssign(n, request.seq, ctl, ctrl)
        BY <1>7 DEF Assign
    <2>2. n \in Nat
        BY <1>1, <2>1, AssigningRequest DEF Assigning
    <2>3. (inner' = n /\ ctrl' = ctl) \/ (inner' = inner /\ ctrl' = ctrl)
        BY <2>1 DEF BaseAssign, Return, Throw
    <2>4. ctl.min = 0
        OBVIOUS
    <2> HIDE DEF n, ctl
    <2> QED
        BY <1>2, <2>2, <2>3, <2>4
<1>8. CASE AssignItems
    <2> DEFINE n == Len(request.seq)
               k == Greater(request.ctl.min, n)
    <2>1. request.op = "assign_items" /\ BaseAssign(k, request.seq, request.ctl, ctrl)
        BY <1>8 DEF AssignItems
    <2>2. n \in Nat /\ request.ctl.min \in Nat
        BY <1>1, <2>1, AssigningRequest DEF Assigning
    <2>3. k >= request.ctl.min
        BY <2>2 DEF Greater
    <2> HIDE DEF k
    <2>4. (inner' = k /\ ctrl' = request.ctl) \/ (inner' = inner /\ ctrl' = ctrl)
        BY <2>1 DEF BaseAssign, Return, Throw
    <2> QED
        BY <2>3, <2>4
<1>9. CASE AssignRange
    <2> DEFINE s == LastOf(request.seq, request.ctl.cap)
    <2>1. request.op = "assign_range" /\ BaseAssign(request.ctl.cap, s, request.ctl, request.ctl)
        BY <1>9 DEF AssignRange
    <2>2. request.ctl.cap \in Nat /\ request.ctl.min \in Nat /\ request.ctl.min <= request.ctl.cap
        BY <1>1, <2>1, AssigningRequest DEF Assigning
    <2> HIDE DEF s
    <2>3. inner' = request.ctl.cap /\ ctrl' = request.ctl
        BY <1>1, <2>1 DEF BaseAssign, Return, Throw, FailsHalfway, Completes
    <2> QED
        BY <2>2, <2>3
<1> QED
    BY <1>1, <1>3, <1>4, <1>5, <1>6, <1>7, <1>8, <1>9
    DEF Next, Invoke, Complete, AssignOperator, MoveFrom

\* Once the internal buffer is as large as min_capacity asks, no call makes it
\* smaller, except copying another buffer's contents and moving them away.
THEOREM MinimumIsKept ==
    Spec /\ []Moderate /\ [][~FailsHalfway]_vars => KeepsMinimum
<1>1. /\ Sound /\ Moderate /\ [Next]_vars /\ [~FailsHalfway]_vars
      => [Completes /\ inner >= ctrl.min /\ request.op \notin {"copy_assign", "move"} =>
              inner' >= ctrl'.min]_vars
    BY StepKeepsMinimum
<1> QED
    BY <1>1, SoundAlways, PTL DEF Spec, KeepsMinimum

LEMMA StepLeavesReserve ==
    ASSUME Sound, Moderate, Next, Succeeds,
           request.op \in Pushing \cup Removing \cup Sizing, inner' # inner
    PROVE  inner' \in {0, ctrl'.cap} \/ Len(contents') + inner' \div 5 < inner'
<1>1. request # NoCall /\ ~threw'
    BY DEF Succeeds, Completes
<1>2. inner \in Nat /\ Len(contents) \in Nat /\ Len(contents) <= inner /\ contents \in Seq(Element)
    BY Numbers DEF Sound
<1>3. CASE Grow
    <2> DEFINE k == LowCapacity(Added, RaisedControl)
               after == After(Insertion, contents, k)
    <2>1. /\ k \in Nat /\ inner <= k /\ FirstOf(contents, k) = contents
          /\ k = inner \/ k = RaisedControl.cap \/ Len(contents) + Added + k \div 5 < k
        BY <1>3, GrowingCapacity DEF Grow
    <2>2. /\ Insertion \in [op : Pushing, i : Nat, j : Nat, x : Element]
          /\ Allowed(Insertion, contents) /\ Added = Items(Insertion) /\ Added \in Nat
        BY <1>3, InsertionIsAllowed DEF Grow
    <2>3. contents' = after[1] /\ inner' = k /\ ctrl' = RaisedControl
        BY <1>1, <1>3, <2>1 DEF Grow, Return, Throw
    <2> HIDE DEF k
    <2>4. Len(contents) <= k
        BY <1>2, <2>1
    <2>5. after[1] \in Seq(Element) /\ Len(after[1]) <= Len(contents) + Items(Insertion)
        BY <1>2, <2>1, <2>2, <2>4, InsertionFits
    <2> HIDE DEF after
    <2>6. Len(after[1]) \in Nat
        BY <2>5, LenProperties
    <2>7. k = RaisedControl.cap \/ Len(after[1]) + k \div 5 < k
        <3>1. PICK a \in Nat, n \in Nat, m \in Nat : a = Len(after[1]) /\ n = Len(contents) /\ m = Added
            BY <1>2, <2>2, <2>6
        <3>2. a <= n + m /\ (k = RaisedControl.cap \/ n + m + k \div 5 < k)
            BY <2>1, <2>2, <2>3, <2>5, <3>1
        <3>3. PICK q \in Nat, l \in Nat : q = k \div 5 /\ l = k
            BY <2>1
        <3>4. n + m + q < l => a + q < l
            BY <3>2
        <3> QED
            BY <3>1, <3>2, <3>3, <3>4
    <2> QED
        BY <2>3, <2>7
<1>4. CASE Shrink
    <2> DEFINE after == After(Removal, contents, inner)
               k == HighCapacity(Len(after[1]), ctrl)
    <2>1. /\ Removal \in [op : Removing \ {"clear"}, i : Nat, j : Nat, x : Element]
          /\ Allowed(Removal, contents)
        BY <1>4, RemovalIsAllowed DEF Shrink
    <2>2. Removal \in [op : (Removing \ {"clear"}) \cup {"rotate"}, i : Nat, j : Nat, x : Element]
        BY <2>1
    <2>3. after[1] \in Seq(Element) /\ Len(after[1]) <= Len(contents)
        BY <1>2, <2>1, <2>2, RemovalFits
    <2>4. contents' = after[1] /\ inner' = k /\ ctrl' = ctrl
        BY <1>1, <1>4 DEF Shrink, Return, Throw
    <2> HIDE DEF after
    <2>5. k = ctrl.cap \/ k = 0 \/ Len(after[1]) + k \div 5 < k
        BY <2>3, ShrinkingCapacity
    <2> HIDE DEF k
    <2> QED
        BY <2>4, <2>5
<1>5. CASE Rotate \/ SetCapacity \/ Assign \/ AssignItems \/ AssignRange \/ AssignOperator \/ MoveFrom
    BY <1>5 DEF Rotate, SetCapacity, KeptUnder, Assign, AssignItems, AssignRange, AssignOperator, MoveFrom,
                Pushing, Removing, Sizing, Setting
<1> QED
    BY <1>1, <1>3, <1>4, <1>5 DEF Next, Invoke, Complete

\* A call that resizes the internal buffer leaves a fifth of it free, unless
\* that would exceed the capacity.
THEOREM ReserveIsLeft ==
    Spec /\ []Moderate /\ [][~FailsHalfway]_vars => LeavesReserve
<1>1. /\ Sound /\ Moderate /\ [Next]_vars
      => [Succeeds /\ request.op \in Pushing \cup Removing \cup Sizing /\ inner' # inner =>
              \/ inner' \in {0, ctrl'.cap}
              \/ Len(contents') + inner' \div 5 < inner']_vars
    BY StepLeavesReserve
<1> QED
    BY <1>1, SoundAlways, PTL DEF Spec, LeavesReserve

---------------------------------------------------------------------------
(* The adaptor is a circular_buffer of the capacity that the user set.     *)

\* Capacity and iterator of an operation that leaves the capacity alone.
LEMMA AfterRest ==
    ASSUME NEW c, NEW s, NEW cap, c.op \in Pushing \cup Removing \cup {"rotate"}
    PROVE  /\ After(c, s, cap)[2] = cap
           /\ c.op = "insert" => After(c, s, cap)[3] = IF ~(Len(s) = cap) THEN c.i
                                                       ELSE IF c.i = 1 THEN 1 ELSE c.i - 1
           /\ c.op = "rinsert" => After(c, s, cap)[3] = c.i
           /\ c.op \in {"push_back", "push_front", "insert_n", "rinsert_n", "pop_back", "pop_front",
                        "clear", "rotate"} => After(c, s, cap)[3] = 0
           /\ c.op \in {"erase", "erase_range"} => After(c, s, cap)[3] = c.i
           /\ c.op = "rerase" => After(c, s, cap)[3] = IF c.i = 1 THEN 1 ELSE c.i - 1
           /\ c.op = "rerase_range" =>
                  After(c, s, cap)[3] = IF c.i = c.j \/ c.i = 1 THEN c.i ELSE c.i - 1
BY
   DEF After, PushBackOutcome, PushFrontOutcome, PopBackOutcome, PopFrontOutcome, InsertOutcome,
       RInsertOutcome, InsertNOutcome, RInsertNOutcome, EraseOutcome, EraseRangeOutcome,
       REraseOutcome, REraseRangeOutcome, ClearOutcome, RotateOutcome, WithCopies, Pushing,
       Removing

LEMMA AfterSizing ==
    ASSUME NEW c, NEW s, NEW cap
    PROVE  /\ c.op = "clear" => After(c, s, cap)[1] = <<>>
           /\ c.op = "set_capacity" => After(c, s, cap) = <<FirstOf(s, c.i), c.i, 0>>
           /\ c.op = "rset_capacity" => After(c, s, cap) = <<LastOf(s, c.i), c.i, 0>>
           /\ c.op = "resize" =>
                  After(c, s, cap) = <<FirstOf(s, c.i) \o Copies(c.i - Lesser(Len(s), c.i), c.x),
                                       IF c.i > cap THEN c.i ELSE cap, 0>>
           /\ c.op = "rresize" =>
                  After(c, s, cap) = <<Copies(c.i - Lesser(Len(s), c.i), c.x) \o LastOf(s, c.i),
                                       IF c.i > cap THEN c.i ELSE cap, 0>>
BY DEF After, ClearOutcome, SetCapacityOutcome, RSetCapacityOutcome, ResizeOutcome, RResizeOutcome

\* Where nothing needs to go, the ends of a sequence are all of it.
LEMMA EndsAreAll ==
    ASSUME NEW S, NEW s \in Seq(S), NEW m \in Nat, Len(s) <= m
    PROVE  FirstOf(s, m) = s /\ LastOf(s, m) = s
<1>1. Len(s) \in Nat
    BY LenProperties
<1>2. Lesser(m, Len(s)) = Len(s) /\ Len(s) - Len(s) + 1 = 1
    BY <1>1 DEF Lesser
<1>3. SubSeq(s, 1, Len(s)) = s
    BY SubSeqFull
<1> QED
    BY <1>2, <1>3 DEF FirstOf, LastOf

\* A base class with room for the items, or as much as the user allows, does
\* what a buffer of the user's capacity does.
LEMMA SameInsertion ==
    ASSUME NEW S, NEW s \in Seq(S), NEW k \in Nat, NEW cap \in Nat, Len(s) <= k, k <= cap,
           NEW c \in [op : Pushing, i : Nat, j : Nat, x : S], Allowed(c, s),
           k = cap \/ Len(s) + Items(c) <= k
    PROVE  /\ After(c, s, k)[1] = After(c, s, cap)[1]
           /\ After(c, s, k)[3] = After(c, s, cap)[3]
<1>1. CASE k = cap
    BY <1>1
<1>2. CASE k # cap
    <2>1. Len(s) \in Nat /\ c.x \in S /\ c.j \in Nat
        BY LenProperties
    <2>2. Len(s) + Items(c) <= k
        BY <1>2
    <2>3. CASE c.op = "push_back"
        <3> DEFINE t == Append(s, c.x)
        <3>1. t \in Seq(S) /\ Len(t) = Len(s) + 1
            BY <2>1
        <3>2. Items(c) = 1
            BY <2>3 DEF Items
        <3> HIDE DEF t
        <3>3. Len(t) <= k /\ Len(t) <= cap
            BY <2>1, <2>2, <3>1, <3>2
        <3>4. LastOf(t, k) = t /\ LastOf(t, cap) = t
            BY <3>1, <3>3, EndsAreAll
        <3>5. /\ After(c, s, k)[1] = LastOf(Append(s, c.x), k)
              /\ After(c, s, cap)[1] = LastOf(Append(s, c.x), cap)
            BY <2>3, AfterPush
        <3>6. After(c, s, k)[3] = 0 /\ After(c, s, cap)[3] = 0
            BY <2>3, AfterRest DEF Pushing
        <3> QED
            BY <3>4, <3>5, <3>6 DEF t
    <2>4. CASE c.op = "push_front"
        <3> DEFINE u == <<c.x>>
                   t == u \o s
        <3>1. u \in Seq(S) /\ Len(u) = 1
            BY <2>1, OneItem
        <3> HIDE DEF u
        <3>2. t \in Seq(S) /\ Len(t) = Len(u) + Len(s)
            BY <3>1, ConcatProperties
        <3>3. Items(c) = 1
            BY <2>4 DEF Items
        <3> HIDE DEF t
        <3>4. Len(t) <= k /\ Len(t) <= cap
            BY <2>1, <2>2, <3>1, <3>2, <3>3
        <3>5. FirstOf(t, k) = t /\ FirstOf(t, cap) = t
            BY <3>2, <3>4, EndsAreAll
        <3>6. /\ After(c, s, k)[1] = FirstOf(<<c.x>> \o s, k)
              /\ After(c, s, cap)[1] = FirstOf(<<c.x>> \o s, cap)
            BY <2>4, AfterPush
        <3>7. After(c, s, k)[3] = 0 /\ After(c, s, cap)[3] = 0
            BY <2>4, AfterRest DEF Pushing
        <3> QED
            BY <3>5, <3>6, <3>7 DEF t, u
    <2>5. CASE c.op \in {"insert", "rinsert"}
        <3> DEFINE t == InsertAt(s, c.i, c.x)
        <3>1. c.i \in 1 .. Len(s) + 1 /\ Items(c) = 1
            BY <2>5, Preconditions DEF Items
        <3>2. t \in Seq(S) /\ Len(t) = Len(s) + 1
            BY <2>1, <3>1, InsertAtLength
        <3> HIDE DEF t
        <3>3. Len(t) <= k /\ Len(t) <= cap /\ ~(Len(s) = k) /\ ~(Len(s) = cap)
            BY <2>1, <2>2, <3>1, <3>2
        <3>4. FirstOf(t, k) = t /\ FirstOf(t, cap) = t
            BY <3>2, <3>3, EndsAreAll
        <3>5. After(c, s, k)[1] = t /\ After(c, s, cap)[1] = t
            BY <2>5, <3>3, <3>4, AfterInsert DEF t
        <3>6. After(c, s, k)[3] = c.i /\ After(c, s, cap)[3] = c.i
            BY <2>5, <3>3, AfterRest DEF Pushing
        <3> QED
            BY <3>5, <3>6
    <2>6. CASE c.op \in {"insert_n", "rinsert_n"}
        <3> DEFINE v == Copies(c.j, c.x)
                   t == SubSeq(s, 1, c.i - 1) \o v \o SubSeq(s, c.i, Len(s))
        <3>1. c.i \in 1 .. Len(s) + 1 /\ Items(c) = c.j
            BY <2>6, Preconditions DEF Items
        <3>2. v \in Seq(S) /\ Len(v) = c.j
            BY <2>1, CopiesLength
        <3> HIDE DEF v
        <3>3. t \in Seq(S) /\ Len(t) = Len(s) + Len(v)
            BY <3>1, <3>2, PutLength
        <3>4. t = Bulk(c, s)
            BY DEF Bulk, v
        <3> HIDE DEF t
        <3>5. Len(t) <= k /\ Len(t) <= cap
            BY <2>1, <2>2, <3>1, <3>2, <3>3
        <3>6. FirstOf(t, k) = t /\ FirstOf(t, cap) = t /\ LastOf(t, k) = t /\ LastOf(t, cap) = t
            BY <3>3, <3>5, EndsAreAll
        <3>7. After(c, s, k)[1] = After(c, s, cap)[1]
            BY <2>6, <3>4, <3>6, AfterInsertN
        <3>8. After(c, s, k)[3] = 0 /\ After(c, s, cap)[3] = 0
            BY <2>6, AfterRest DEF Pushing
        <3> QED
            BY <3>7, <3>8
    <2> QED
        BY <2>3, <2>4, <2>5, <2>6 DEF Pushing
<1> QED
    BY <1>1, <1>2

\* Nothing at the front, nothing at the back.
LEMMA NothingThere ==
    ASSUME NEW S, NEW s \in Seq(S), NEW x
    PROVE  /\ SubSeq(s, 1, 0) = <<>> /\ SubSeq(s, Len(s) + 1, Len(s)) = <<>> /\ SubSeq(s, 1, Len(s)) = s
           /\ Copies(0, x) = <<>>
<1>1. Len(s) \in Nat
    BY LenProperties
<1>2. SubSeq(s, 1, 0) = <<>> /\ SubSeq(s, Len(s) + 1, Len(s)) = <<>>
    BY <1>1, SubSeqEmpty
<1>3. Copies(0, x) = <<>>
    <2>1. Copies(0, x) \in Seq({x}) /\ Len(Copies(0, x)) = 0
        BY CopiesLength
    <2> QED
        BY <2>1, EmptySeq
<1> QED
    BY <1>2, <1>3, SubSeqFull

\* resize and rresize to more elements insert, ...
LEMMA SameResize ==
    ASSUME Sound, Grows, request.op \in Sizing, NEW k \in Nat, Len(contents) + Added <= k
    PROVE  /\ After(Insertion, contents, k)[1] = After(request, contents, ctrl.cap)[1]
           /\ After(Insertion, contents, k)[3] = 0 /\ After(request, contents, ctrl.cap)[3] = 0
           /\ RaisedControl.cap = After(request, contents, ctrl.cap)[2]
<1> DEFINE n == Len(contents)
           m == request.i - n
           v == Copies(m, request.x)
<1>1. request # NoCall /\ request.op \in Standard
    BY DEF Grows, Standard
<1>2. request.i \in Nat /\ request.x \in Element
    BY <1>1, StandardRequest
<1>3. n \in Nat /\ contents \in Seq(Element) /\ ctrl.cap \in Nat
    BY Numbers DEF Sound
<1>4. request.i > n
    BY DEF Grows, Pushing, Sizing
<1>5. m \in Nat /\ n <= request.i /\ Lesser(n, request.i) = n /\ n + m = request.i
    BY <1>2, <1>3, <1>4 DEF Lesser
<1>6. v \in Seq(Element) /\ Len(v) = m
    BY <1>2, <1>5, CopiesLength
<1>7. FirstOf(contents, request.i) = contents /\ LastOf(contents, request.i) = contents
    BY <1>2, <1>3, <1>5, EndsAreAll
<1>8. /\ contents \o v \in Seq(Element) /\ v \o contents \in Seq(Element)
      /\ Len(contents \o v) = n + Len(v) /\ Len(v \o contents) = Len(v) + n
    <2> HIDE DEF v
    <2> QED
        BY <1>3, <1>6, ConcatProperties
<1>9. /\ SubSeq(contents, 1, 0) = <<>> /\ SubSeq(contents, n + 1, n) = <<>>
      /\ SubSeq(contents, 1, n) = contents
    BY <1>3, NothingThere
<1>10. RaisedControl.cap = IF request.i > ctrl.cap THEN request.i ELSE ctrl.cap
    <2>1. RaisedControl = [ctrl EXCEPT !.cap = Greater(@, request.i)]
        BY DEF RaisedControl
    <2>2. ctrl \in [cap : Nat, min : Nat]
        BY DEF Sound, CapacityControl
    <2>3. RaisedControl.cap = Greater(ctrl.cap, request.i)
        BY <2>1, <2>2
    <2> QED
        BY <1>2, <1>3, <2>3 DEF Greater
<1>11. Insertion.op \in {"insert_n", "rinsert_n"} /\ Insertion.j = m /\ Insertion.x = request.x
    BY DEF Insertion, Sizing
<1>12. Added = m
    BY <1>11 DEF Added
<1>13. n + m <= k
    BY <1>12
<1> HIDE DEF v
<1>14. CASE request.op = "resize"
    <2>1. Insertion.op = "insert_n" /\ Insertion.i = n + 1
        BY <1>14 DEF Insertion
    <2>2. Bulk(Insertion, contents) = SubSeq(contents, 1, Insertion.i - 1) \o v \o SubSeq(contents, Insertion.i, n)
        BY <1>11 DEF Bulk, v
    <2>3. Insertion.i - 1 = n
        BY <1>3, <2>1
    <2>4. (contents \o v) \o <<>> = contents \o v
        BY <1>8, ConcatEmptySeq
    <2>5. Bulk(Insertion, contents) = contents \o v
        BY <1>9, <2>1, <2>2, <2>3, <2>4
    <2>6. LastOf(contents \o v, k) = contents \o v
        BY <1>5, <1>6, <1>8, <1>13, EndsAreAll
    <2>7. After(Insertion, contents, k)[1] = contents \o v
        BY <2>1, <2>5, <2>6, AfterInsertN
    <2>8. After(Insertion, contents, k)[3] = 0
        BY <2>1, AfterRest DEF Pushing
    <2>9. After(request, contents, ctrl.cap)
              = <<contents \o v, IF request.i > ctrl.cap THEN request.i ELSE ctrl.cap, 0>>
        BY <1>5, <1>7, <1>14, AfterSizing DEF v
    <2> QED
        BY <1>10, <2>7, <2>8, <2>9
<1>15. CASE request.op = "rresize"
    <2>1. Insertion.op = "rinsert_n" /\ Insertion.i = 1
        BY <1>15 DEF Insertion
    <2>2. Bulk(Insertion, contents) = SubSeq(contents, 1, Insertion.i - 1) \o v \o SubSeq(contents, Insertion.i, n)
        BY <1>11 DEF Bulk, v
    <2>3. <<>> \o v = v
        BY <1>6, ConcatEmptySeq
    <2>4. Bulk(Insertion, contents) = v \o contents
        BY <1>9, <2>1, <2>2, <2>3
    <2>5. FirstOf(v \o contents, k) = v \o contents
        <3>1. Len(v \o contents) <= k
            BY <1>3, <1>5, <1>6, <1>8, <1>13
        <3> QED
            BY <1>8, <3>1, EndsAreAll
    <2>6. After(Insertion, contents, k)[1] = v \o contents
        BY <2>1, <2>4, <2>5, AfterInsertN
    <2>7. After(Insertion, contents, k)[3] = 0
        BY <2>1, AfterRest DEF Pushing
    <2>8. After(request, contents, ctrl.cap)
              = <<v \o contents, IF request.i > ctrl.cap THEN request.i ELSE ctrl.cap, 0>>
        BY <1>5, <1>7, <1>15, AfterSizing DEF v
    <2> QED
        BY <1>10, <2>6, <2>7, <2>8
<1> QED
    BY <1>14, <1>15 DEF Sizing

\* What is left does not depend on the capacity.
LEMMA SameElementsLeft ==
    ASSUME NEW c, NEW s, NEW cap, NEW k, c.op \in (Removing \ {"clear"}) \cup {"rotate"}
    PROVE  After(c, s, k)[1] = After(c, s, cap)[1]
<1>1. CASE c.op = "pop_back"
    BY <1>1, AfterRemoval
<1>2. CASE c.op = "pop_front"
    <2> DEFINE t == Tail(s)
    <2>1. After(c, s, k)[1] = t /\ After(c, s, cap)[1] = t
        BY <1>2, AfterRemoval
    <2> HIDE DEF t
    <2> QED
        BY <2>1
<1>3. CASE c.op \in {"erase", "rerase"}
    BY <1>3, AfterRemoval
<1>4. CASE c.op \in {"erase_range", "rerase_range"}
    BY <1>4, AfterRemoval
<1>5. CASE c.op = "rotate"
    <2> DEFINE t == SubSeq(s, c.i, Len(s)) \o SubSeq(s, 1, c.i - 1)
    <2>1. After(c, s, k)[1] = t /\ After(c, s, cap)[1] = t
        BY <1>5, AfterRemoval
    <2> HIDE DEF t
    <2> QED
        BY <2>1
<1> QED
    BY <1>1, <1>2, <1>3, <1>4, <1>5 DEF Removing

\* ... and to fewer erase, as clear does.
LEMMA SameRemoval ==
    ASSUME Sound, Shrinks
    PROVE  LET after == After(Removal, contents, inner) IN
           /\ after[1] = After(request, contents, ctrl.cap)[1]
           /\ ctrl.cap = After(request, contents, ctrl.cap)[2]
           /\ request.op \in Sizing => After(request, contents, ctrl.cap)[3] = 0
           /\ request.op \notin Sizing \cup {"clear"} => after[3] = After(request, contents, ctrl.cap)[3]
<1> DEFINE n == Len(contents)
<1>1. request.op \in Standard /\ request # NoCall
    BY DEF Shrinks, Standard
<1>2. /\ request \in [op : Standard, i : Nat, j : Nat, x : Element]
      /\ request.i \in Nat /\ request.j \in Nat /\ request.x \in Element
    BY <1>1, StandardRequest
<1>3. n \in Nat /\ contents \in Seq(Element) /\ ctrl.cap \in Nat /\ n <= ctrl.cap
    BY Numbers DEF Sound
<1>4. /\ SubSeq(contents, 1, 0) = <<>> /\ SubSeq(contents, n + 1, n) = <<>>
      /\ Copies(0, request.x) = <<>>
    BY <1>3, NothingThere
<1>5. CASE request.op \in Removing \ {"clear"}
    <2>1. Removal = request
        BY <1>5 DEF Removal, Removing
    <2>2. After(request, contents, inner)[1] = After(request, contents, ctrl.cap)[1]
        BY <1>5, <2>1, SameElementsLeft
    <2>3. After(request, contents, inner)[3] = After(request, contents, ctrl.cap)[3]
        <3>1. CASE request.op \in {"pop_back", "pop_front"}
            BY <2>1, <3>1, AfterRest DEF Removing
        <3>2. CASE request.op \in {"erase", "erase_range"}
            BY <2>1, <3>2, AfterRest DEF Removing
        <3>3. CASE request.op = "rerase"
            BY <2>1, <3>3, AfterRest DEF Removing
        <3>4. CASE request.op = "rerase_range"
            BY <2>1, <3>4, AfterRest DEF Removing
        <3> QED
            BY <1>5, <3>1, <3>2, <3>3, <3>4 DEF Removing
    <2>4. After(request, contents, ctrl.cap)[2] = ctrl.cap
        BY <1>5, AfterRest
    <2>5. request.op \notin Sizing
        BY <1>5 DEF Removing, Sizing
    <2> QED
        BY <2>1, <2>2, <2>3, <2>4, <2>5
<1>6. CASE request.op = "clear"
    <2>1. Removal.op = "erase_range" /\ Removal.i = 1 /\ Removal.j = n + 1
        BY <1>2, <1>6 DEF Removal
    <2>2. After(Removal, contents, inner)[1] = SubSeq(contents, 1, 0) \o SubSeq(contents, n + 1, n)
        BY <2>1, AfterRemoval DEF Without
    <2>3. <<>> \o <<>> = <<>>
        BY EmptySeq, ConcatEmptySeq
    <2>4. After(Removal, contents, inner)[1] = <<>>
        BY <1>4, <2>2, <2>3
    <2>5. After(request, contents, ctrl.cap)[1] = <<>>
        BY <1>6, AfterSizing
    <2>6. After(request, contents, ctrl.cap)[2] = ctrl.cap
        BY <1>6, AfterRest DEF Removing
    <2> QED
        BY <1>6, <2>4, <2>5, <2>6 DEF Sizing
<1>7. CASE request.op \in Sizing
    <2>1. request.i <= n
        BY <1>7 DEF Shrinks, Removing, Sizing
    <2>2. Lesser(n, request.i) = request.i /\ Lesser(request.i, n) = request.i /\ request.i - request.i = 0
          /\ ~(request.i > ctrl.cap)
        BY <1>2, <1>3, <2>1 DEF Lesser
    <2> DEFINE a == FirstOf(contents, request.i)
               b == LastOf(contents, request.i)
    <2>3. a \in Seq(Element) /\ b \in Seq(Element)
        BY <1>2, <1>3, EndsAreShorter
    <2>4. a = SubSeq(contents, 1, request.i) /\ b = SubSeq(contents, n - request.i + 1, n)
        BY <2>2 DEF FirstOf, LastOf
    <2>5. a \o <<>> = a /\ <<>> \o b = b
        <3> HIDE DEF a, b
        <3> QED
            BY <2>3, ConcatEmptySeq
    <2>6. CASE request.op = "resize"
        <3>1. Removal.op = "erase_range" /\ Removal.i = request.i + 1 /\ Removal.j = n + 1
            BY <1>2, <2>6 DEF Removal
        <3>3. After(Removal, contents, inner)[1]
                  = SubSeq(contents, 1, Removal.i - 1) \o SubSeq(contents, Removal.j, n)
            BY <3>1, AfterRemoval DEF Without
        <3>4. After(request, contents, ctrl.cap) = <<a \o <<>>, ctrl.cap, 0>>
            BY <1>4, <2>2, <2>6, AfterSizing
        <3>5. After(Removal, contents, inner)[1] = a \o <<>>
            <4>1. Removal.i - 1 = request.i
                <5>1. PICK p \in Nat : p = request.i
                    BY <1>2
                <5>2. Removal.i = p + 1
                    BY <3>1, <5>1
                <5>3. p + 1 - 1 = p
                    OBVIOUS
                <5> QED
                    BY <5>1, <5>2, <5>3
            <4>2. SubSeq(contents, Removal.j, n) = <<>>
                BY <1>4, <3>1
            <4> HIDE DEF a
            <4>3. SubSeq(contents, 1, Removal.i - 1) = a
                BY <2>4, <4>1
            <4> QED
                BY <3>3, <4>2, <4>3
        <3> QED
            BY <2>6, <3>4, <3>5 DEF Sizing
    <2>7. CASE request.op = "rresize"
        <3>1. Removal.op = "rerase_range" /\ Removal.i = 1 /\ Removal.j = n - request.i + 1
            BY <1>2, <2>7 DEF Removal
        <3>2. After(Removal, contents, inner)[1]
                  = SubSeq(contents, 1, Removal.i - 1) \o SubSeq(contents, Removal.j, n)
            BY <3>1, AfterRemoval DEF Without
        <3>3. After(request, contents, ctrl.cap) = <<<<>> \o b, ctrl.cap, 0>>
            BY <1>4, <2>2, <2>7, AfterSizing
        <3>4. After(Removal, contents, inner)[1] = <<>> \o b
            <4>1. Removal.i - 1 = 0
                BY <3>1
            <4>2. SubSeq(contents, 1, Removal.i - 1) = <<>>
                BY <1>4, <4>1
            <4> HIDE DEF b
            <4>3. SubSeq(contents, Removal.j, n) = b
                BY <2>4, <3>1
            <4> QED
                BY <3>2, <4>2, <4>3
        <3> QED
            BY <2>7, <3>3, <3>4 DEF Sizing
    <2> QED
        BY <1>7, <2>6, <2>7 DEF Sizing
<1> QED
    BY <1>5, <1>6, <1>7 DEF Shrinks, Removing

LEMMA StepActsLikeDeque ==
    ASSUME Sound, Moderate, Next, Succeeds, request.op \in Standard
    PROVE  LET after == After(request, contents, ctrl.cap) IN
           /\ contents' = after[1]
           /\ ctrl'.cap = after[2]
           /\ result' = IF request.op \in {"clear", "rotate"} THEN 0 ELSE after[3]
<1>1. request # NoCall /\ ~threw'
    BY DEF Succeeds, Completes
<1>2. inner \in Nat /\ Len(contents) \in Nat /\ Len(contents) <= inner /\ contents \in Seq(Element)
      /\ ctrl.cap \in Nat /\ inner <= ctrl.cap
    BY Numbers DEF Sound
<1>3. CASE Grow
    <2> DEFINE k == LowCapacity(Added, RaisedControl)
               after == After(Insertion, contents, k)
    <2>1. Grows
        BY <1>3 DEF Grow
    <2>2. /\ k \in Nat /\ inner <= k /\ k <= RaisedControl.cap /\ FirstOf(contents, k) = contents
          /\ k = RaisedControl.cap \/ Len(contents) + Added <= k
        BY <2>1, GrowingCapacity
    <2>3. /\ Insertion \in [op : Pushing, i : Nat, j : Nat, x : Element]
          /\ Allowed(Insertion, contents) /\ Added = Items(Insertion) /\ Added \in Nat
        BY <2>1, InsertionIsAllowed
    <2>4. contents' = after[1] /\ result' = after[3] /\ ctrl' = RaisedControl
        BY <1>1, <1>3, <2>2 DEF Grow, Return, Throw
    <2> HIDE DEF k
    <2>5. CASE request.op \in Pushing
        <3>1. Insertion = request /\ RaisedControl = ctrl
            BY <2>5 DEF Insertion, RaisedControl, Pushing, Sizing
        <3>2. Len(contents) <= k /\ k <= ctrl.cap
            BY <1>2, <2>2, <3>1
        <3>3. /\ After(Insertion, contents, k)[1] = After(Insertion, contents, ctrl.cap)[1]
              /\ After(Insertion, contents, k)[3] = After(Insertion, contents, ctrl.cap)[3]
            BY <1>2, <2>2, <2>3, <3>1, <3>2, SameInsertion
        <3>4. After(request, contents, ctrl.cap)[2] = ctrl.cap
            BY <2>5, AfterRest
        <3>5. request.op \notin {"clear", "rotate"}
            BY <2>5 DEF Pushing
        <3> QED
            BY <2>4, <3>1, <3>3, <3>4, <3>5
    <2>6. CASE request.op \in Sizing
        <3>1. Len(contents) + Added <= k
            <4>1. RaisedControl.cap = Greater(ctrl.cap, request.i)
                <5>1. ctrl \in [cap : Nat, min : Nat]
                    BY DEF Sound, CapacityControl
                <5> QED
                    BY <2>6, <5>1 DEF RaisedControl
            <4>2. request.i \in Nat
                BY <1>1, StandardRequest
            <4>3. request.i > Len(contents)
                BY <2>1, <2>6 DEF Grows, Pushing, Sizing
            <4>4. Added = request.i - Len(contents)
                BY <2>6 DEF Added, Insertion, Sizing
            <4>5. Len(contents) + Added = request.i /\ request.i <= RaisedControl.cap
                BY <1>2, <4>1, <4>2, <4>3, <4>4 DEF Greater
            <4> QED
                BY <2>2, <4>5
        <3>2. /\ after[1] = After(request, contents, ctrl.cap)[1]
              /\ after[3] = 0 /\ After(request, contents, ctrl.cap)[3] = 0
              /\ RaisedControl.cap = After(request, contents, ctrl.cap)[2]
            BY <2>1, <2>2, <2>6, <3>1, SameResize
        <3>3. request.op \notin {"clear", "rotate"}
            BY <2>6 DEF Sizing
        <3> QED
            BY <2>4, <3>2, <3>3
    <2> QED
        BY <2>1, <2>5, <2>6 DEF Grows
<1>4. CASE Shrink
    <2> DEFINE after == After(Removal, contents, inner)
               pos   == IF request.op \in Sizing \cup {"clear"} THEN 0 ELSE after[3]
    <2>1. Shrinks
        BY <1>4 DEF Shrink
    <2>2. contents' = after[1] /\ ctrl' = ctrl /\ result' = pos
        BY <1>1, <1>4 DEF Shrink, Return, Throw
    <2>3. /\ after[1] = After(request, contents, ctrl.cap)[1]
          /\ ctrl.cap = After(request, contents, ctrl.cap)[2]
          /\ request.op \in Sizing => After(request, contents, ctrl.cap)[3] = 0
          /\ request.op \notin Sizing \cup {"clear"} => after[3] = After(request, contents, ctrl.cap)[3]
        BY <2>1, SameRemoval
    <2>4. request.op # "rotate" /\ (request.op \in Sizing => request.op # "clear")
        BY <2>1 DEF Shrinks, Removing, Sizing
    <2> HIDE DEF after
    <2> QED
        BY <2>2, <2>3, <2>4
<1>5. CASE Rotate
    <2>1. request.op = "rotate" /\ contents' = After(request, contents, inner)[1] /\ ctrl' = ctrl /\ result' = 0
        BY <1>1, <1>5 DEF Rotate, Return, Throw
    <2>2. After(request, contents, inner)[1] = After(request, contents, ctrl.cap)[1]
        BY <2>1, SameElementsLeft
    <2>3. After(request, contents, ctrl.cap)[2] = ctrl.cap
        BY <2>1, AfterRest
    <2> QED
        BY <2>1, <2>2, <2>3
<1>6. CASE SetCapacity
    <2> DEFINE ctl  == [cap |-> request.i, min |-> request.j]
               kept == IF request.op = "set_capacity" THEN FirstOf(contents, ctl.cap)
                                                      ELSE LastOf(contents, ctl.cap)
    <2>1. request.op \in Setting /\ contents' = kept /\ ctrl' = ctl /\ result' = 0
        BY <1>1, <1>6 DEF SetCapacity, KeptUnder, Return, Throw
    <2>2. ctl.cap = request.i
        OBVIOUS
    <2>3. After(request, contents, ctrl.cap) = <<kept, request.i, 0>>
        BY <2>1, AfterSizing DEF Setting
    <2> HIDE DEF ctl, kept
    <2>4. request.op \notin {"clear", "rotate"}
        BY <2>1 DEF Setting
    <2> QED
        BY <2>1, <2>2, <2>3, <2>4
<1>7. CASE Assign \/ AssignItems \/ AssignRange \/ AssignOperator \/ MoveFrom
    BY <1>7 DEF Assign, AssignItems, AssignRange, AssignOperator, MoveFrom,
                Standard, Pushing, Removing, Sizing, Setting
<1> QED
    BY <1>1, <1>3, <1>4, <1>5, <1>6, <1>7 DEF Next, Invoke, Complete

\* Whatever the internal capacity was, a call does what it does to a
\* circular_buffer of the capacity the user set: same elements, capacity and
\* iterator.
THEOREM ActsLikeCircularBuffer ==
    Spec /\ []Moderate /\ [][~FailsHalfway]_vars => ActsLikeDeque
<1>1. /\ Sound /\ Moderate /\ [Next]_vars
      => [Succeeds /\ request.op \in Standard =>
              LET after == After(request, contents, ctrl.cap) IN
              /\ contents' = after[1]
              /\ ctrl'.cap = after[2]
              /\ result' = IF request.op \in {"clear", "rotate"} THEN 0 ELSE after[3]]_vars
    BY StepActsLikeDeque
<1> QED
    BY <1>1, SoundAlways, PTL DEF Spec, ActsLikeDeque

(***************************************************************************)
(* BoundedBuffer                                                           *)
(***************************************************************************)

LEMMA CapacityIsPositive == Capacity \in Nat /\ Capacity > 0
BY QuotaAssumption

USE ThreadAssumption, CapacityIsPositive

-----------------------------------------------------------------------------
(* Facts about the container and about counting threads.                   *)

\* circular_buffer::push_front puts the item first and pushes the others back.
LEMMA PushFrontShifts ==
    ASSUME NEW s \in Seq(Nat), Len(s) <= Capacity, NEW x \in Nat
    PROVE  /\ PushFrontOf(s, x) \in Seq(Nat)
           /\ Len(PushFrontOf(s, x)) = IF Len(s) = Capacity THEN Capacity ELSE Len(s) + 1
           /\ PushFrontOf(s, x)[1] = x
           /\ \A k \in 2 .. Len(PushFrontOf(s, x)) : PushFrontOf(s, x)[k] = s[k - 1]
BY DEF PushFrontOf

\* Turning a sequence around.
LEMMA BackwardsReverses ==
    ASSUME NEW s \in Seq(Nat)
    PROVE  /\ Backwards(s) \in Seq(Nat)
           /\ Len(Backwards(s)) = Len(s)
           /\ \A k \in 1 .. Len(s) : Backwards(s)[k] = s[Len(s) - k + 1]
BY DEF Backwards

\* All but the last item.
LEMMA ButLast ==
    ASSUME NEW s \in Seq(Nat), Len(s) > 0
    PROVE  /\ SubSeq(s, 1, Len(s) - 1) \in Seq(Nat)
           /\ Len(SubSeq(s, 1, Len(s) - 1)) = Len(s) - 1
           /\ \A k \in 1 .. Len(s) - 1 : SubSeq(s, 1, Len(s) - 1)[k] = s[k]
<1>. DEFINE n == Len(s) - 1
            r == SubSeq(s, 1, n)
<1>1. n \in Int /\ \A k \in 1 .. n : s[k] \in Nat
  OBVIOUS
<1>2. r \in Seq(Nat) /\ Len(r) = (IF 1 <= n THEN n - 1 + 1 ELSE 0) /\ \A k \in 1 .. n - 1 + 1 : r[k] = s[1 + k - 1]
  <2>. HIDE DEF n
  <2>. QED BY <1>1, SubSeqProperties
<1>3. n \in Nat
  OBVIOUS
<1>4. Len(r) = n /\ \A k \in 1 .. n : r[k] = s[k]
  <2>. HIDE DEF n, r
  <2>. QED BY <1>2, <1>3
<1>. QED BY <1>2, <1>4

LEMMA ThreadsAreFinite ==
    ASSUME NEW S \in SUBSET Thread
    PROVE  IsFiniteSet(S) /\ Cardinality(S) \in Nat
<1>1. IsFiniteSet(Thread)
  BY FS_Union DEF Thread
<1>. QED BY <1>1, FS_Subset, FS_CardinalityType

LEMMA MoreThreads ==
    ASSUME NEW S \in SUBSET Thread, NEW T \in SUBSET S
    PROVE  Cardinality(T) <= Cardinality(S)
BY ThreadsAreFinite, FS_Subset

\* One thread joins a set of threads, or leaves it.
LEMMA OneThreadMore ==
    ASSUME NEW S \in SUBSET Thread, NEW t \in Thread \ S
    PROVE  Cardinality(S \cup {t}) = Cardinality(S) + 1
BY ThreadsAreFinite, FS_AddElement

LEMMA OneThreadLess ==
    ASSUME NEW S \in SUBSET Thread, NEW t \in S
    PROVE  Cardinality(S \ {t}) = Cardinality(S) - 1
BY ThreadsAreFinite, FS_RemoveElement

-----------------------------------------------------------------------------
(* Type correctness and mutual exclusion                                   *)

\* The threads' part of TypeOK, which no container matters to.
Threads ==
    /\ owner \in Thread \cup {Nobody}
    /\ notFull \subseteq Producer /\ notEmpty \subseteq Consumer
    /\ pc \in [Thread -> {"lock", "locked", "blocked", "relock", "notify", "done"}]
    /\ left \in [Thread -> Nat]
    /\ \A t \in Thread : /\ pc[t] = "blocked" <=> t \in Blocked
                         /\ pc[t] = "locked" <=> owner = t
                         /\ pc[t] = "done" <=> left[t] = 0

Buffers ==
    /\ removes \in BOOLEAN
    /\ container \in Seq(Nat) /\ pushed \in Seq(Nat) /\ popped \in Seq(Nat)
    /\ Len(container) <= Capacity
    /\ unread \in 0 .. Len(container)
    /\ removes => unread = Len(container)

LEMMA TypeParts == TypeOK <=> Threads /\ Buffers /\ spurious \in Nat /\ throws \in Nat
BY DEF TypeOK, Threads, Buffers

LEMMA TypeInit == BufferInit => TypeOK
<1>. SUFFICES ASSUME BufferInit PROVE TypeOK
  OBVIOUS
<1>1. pushed \in Seq(Nat) /\ Len(pushed) = Preload
  BY QuotaAssumption DEF BufferInit
<1>2. container \in Seq(Nat) /\ Len(container) = Preload
  BY <1>1, BackwardsReverses DEF BufferInit
<1>3. Buffers
  BY QuotaAssumption, <1>1, <1>2 DEF BufferInit, Buffers
<1>4. Threads
  BY QuotaAssumption DEF BufferInit, Threads, Thread, Blocked
<1>. QED BY <1>3, <1>4, TypeParts DEF BufferInit

\* Every step keeps who blocks, who holds the mutex and who is done in line
\* with where the threads are.
LEMMA ThreadsStep == Threads /\ [BufferNext]_bbvars => Threads'
<1>. SUFFICES ASSUME Threads, [BufferNext]_bbvars PROVE Threads'
  OBVIOUS
<1>. USE DEF Threads, Thread, Blocked, shared
<1>1. CASE UNCHANGED bbvars
  BY <1>1 DEF bbvars
<1>2. ASSUME NEW t \in Thread, Acquire(t) PROVE Threads'
  BY <1>2 DEF Acquire
<1>3. ASSUME NEW t \in Thread, WaitNotFull(t) PROVE Threads'
  BY <1>3 DEF WaitNotFull
<1>4. ASSUME NEW t \in Thread, WaitNotEmpty(t) PROVE Threads'
  BY <1>4 DEF WaitNotEmpty
<1>5. ASSUME NEW t \in Thread, PushFront(t) PROVE Threads'
  BY <1>5 DEF PushFront
<1>6. ASSUME NEW t \in Thread, PopBack(t) PROVE Threads'
  BY <1>6 DEF PopBack, Unpopped
<1>7. ASSUME NEW t \in Thread, CopyThrows(t) PROVE Threads'
  BY <1>7 DEF CopyThrows
<1>8. ASSUME NEW t \in Thread, NotifyNotEmpty(t) PROVE Threads'
  BY <1>8 DEF NotifyNotEmpty, Woken
<1>9. ASSUME NEW t \in Thread, NotifyNotFull(t) PROVE Threads'
  BY <1>9 DEF NotifyNotFull, Woken
<1>10. ASSUME NEW t \in Thread, SpuriousWakeup(t) PROVE Threads'
  BY <1>10 DEF SpuriousWakeup
<1>. QED BY <1>1, <1>2, <1>3, <1>4, <1>5, <1>6, <1>7, <1>8, <1>9, <1>10 DEF BufferNext, Step

LEMMA BuffersStep == Buffers /\ [BufferNext]_bbvars => Buffers'
<1>. SUFFICES ASSUME Buffers, [BufferNext]_bbvars PROVE Buffers'
  OBVIOUS
<1>. USE DEF Buffers
<1>1. CASE UNCHANGED shared
  BY <1>1 DEF shared
<1>2. ASSUME NEW t \in Thread, PushFront(t) PROVE Buffers'
  <2>1. Len(pushed) + 1 \in Nat /\ pushed' \in Seq(Nat)
    BY <1>2 DEF PushFront
  <2>2. /\ container' \in Seq(Nat)
        /\ Len(container') = IF Len(container) = Capacity THEN Capacity ELSE Len(container) + 1
    BY <1>2, <2>1, PushFrontShifts DEF PushFront
  <2>3. unread < Capacity /\ unread' = unread + 1 /\ removes' = removes /\ popped' = popped
    BY <1>2 DEF PushFront, is_not_full
  <2>. QED BY <2>1, <2>2, <2>3
<1>3. ASSUME NEW t \in Thread, PopBack(t) PROVE Buffers'
  <2>1. unread \in 1 .. Len(container) /\ unread' = unread - 1 /\ removes' = removes /\ pushed' = pushed
    BY <1>3 DEF PopBack, Unpopped, is_not_empty
  <2>2. popped' \in Seq(Nat)
    BY <1>3, <2>1 DEF PopBack, Unpopped
  <2>3. CASE removes
    <3>1. container' = SubSeq(container, 1, Len(container) - 1)
      BY <1>3, <2>3 DEF PopBack, Unpopped
    <3>2. container' \in Seq(Nat) /\ Len(container') = Len(container) - 1
      BY <3>1, <2>1, ButLast
    <3>. QED BY <2>1, <2>2, <2>3, <3>2
  <2>4. CASE ~removes
    BY <1>3, <2>1, <2>2, <2>4 DEF PopBack, Unpopped
  <2>. QED BY <2>3, <2>4
<1>4. ASSUME NEW t \in Thread, CopyThrows(t) PROVE Buffers'
  BY <1>4 DEF CopyThrows, is_not_empty
<1>. QED BY <1>1, <1>2, <1>3, <1>4 DEF BufferNext, Step, bbvars, Acquire, WaitNotFull, WaitNotEmpty,
       NotifyNotEmpty, NotifyNotFull, SpuriousWakeup

LEMMA TypeStep == TypeOK /\ [BufferNext]_bbvars => TypeOK'
<1>. SUFFICES ASSUME TypeOK, [BufferNext]_bbvars PROVE TypeOK'
  OBVIOUS
<1>1. Threads' /\ Buffers'
  BY TypeParts, ThreadsStep, BuffersStep
<1>2. spurious' \in Nat /\ throws' \in Nat
  BY DEF TypeOK, BufferNext, Step, bbvars, Acquire, WaitNotFull, WaitNotEmpty, PushFront, PopBack, Unpopped,
         CopyThrows, NotifyNotEmpty, NotifyNotFull, SpuriousWakeup
<1>. QED BY <1>1, <1>2 DEF TypeOK, Threads, Buffers, Blocked

\* Pointers, counters and threads keep their types, m_unread never exceeds the
\* container, and one thread at a time is inside the mutex.
THEOREM TypeCorrect == BufferSpec => []TypeOK
BY TypeInit, TypeStep, PTL DEF BufferSpec

-----------------------------------------------------------------------------
(* The container against the history                                       *)

\* Read or not, the container holds the newest items, newest first.
HoldsTheNewest ==
    /\ Len(container) <= Len(pushed)
    /\ \A k \in 1 .. Len(container) : container[k] = pushed[Len(pushed) - k + 1]

\* What is not counted as unread has been handed out, in order.
HandedOut ==
    /\ Len(pushed) = Len(popped) + unread
    /\ \A k \in 1 .. Len(popped) : popped[k] = pushed[k]

LEMMA HistoryInit == BufferInit => HoldsTheNewest /\ HandedOut
<1>. SUFFICES ASSUME BufferInit PROVE HoldsTheNewest /\ HandedOut
  OBVIOUS
<1>1. pushed \in Seq(Nat) /\ Len(pushed) = Preload /\ unread = Preload /\ popped = <<>>
  BY QuotaAssumption DEF BufferInit
<1>2. container = Backwards(pushed)
  BY DEF BufferInit
<1>3. Len(container) = Preload /\ \A k \in 1 .. Preload : container[k] = pushed[Preload - k + 1]
  BY <1>1, <1>2, BackwardsReverses
<1>4. HoldsTheNewest
  BY <1>1, <1>3 DEF HoldsTheNewest
<1>5. HandedOut
  BY <1>1 DEF HandedOut
<1>. QED BY <1>4, <1>5

\* The facts about one push_front that both histories rest on.
LEMMA Pushed ==
    ASSUME Buffers, NEW t \in Thread, PushFront(t)
    PROVE  /\ Len(pushed') = Len(pushed) + 1 /\ pushed'[Len(pushed')] = Len(pushed')
           /\ \A k \in 1 .. Len(pushed) : pushed'[k] = pushed[k]
           /\ Len(container') = IF Len(container) = Capacity THEN Capacity ELSE Len(container) + 1
           /\ container'[1] = Len(pushed')
           /\ \A k \in 2 .. Len(container') : container'[k] = container[k - 1]
<1>1. Len(pushed) + 1 \in Nat
  BY DEF Buffers
<1>2. container' = PushFrontOf(container, Len(pushed) + 1) /\ pushed' = Append(pushed, Len(pushed) + 1)
  BY DEF PushFront
<1>3. /\ Len(container') = IF Len(container) = Capacity THEN Capacity ELSE Len(container) + 1
      /\ container'[1] = Len(pushed) + 1
      /\ \A k \in 2 .. Len(container') : container'[k] = container[k - 1]
  BY <1>1, <1>2, PushFrontShifts DEF Buffers
<1>4. /\ Len(pushed') = Len(pushed) + 1 /\ pushed'[Len(pushed')] = Len(pushed')
      /\ \A k \in 1 .. Len(pushed) : pushed'[k] = pushed[k]
  BY <1>1, <1>2 DEF Buffers
<1>. QED BY <1>3, <1>4

\* ... and one pop_back.
LEMMA Popped ==
    ASSUME Buffers, NEW t \in Thread, PopBack(t)
    PROVE  /\ unread \in 1 .. Len(container) /\ unread' = unread - 1
           /\ Len(popped') = Len(popped) + 1 /\ popped'[Len(popped')] = container[unread]
           /\ \A k \in 1 .. Len(popped) : popped'[k] = popped[k]
           /\ Len(container') = IF removes THEN Len(container) - 1 ELSE Len(container)
           /\ \A k \in 1 .. Len(container') : container'[k] = container[k]
<1>1. unread \in 1 .. Len(container) /\ unread' = unread - 1
  BY DEF PopBack, Unpopped, is_not_empty, Buffers
<1>2. popped' = Append(popped, container[unread])
  BY DEF PopBack, Unpopped
<1>3. container' = IF removes THEN SubSeq(container, 1, Len(container) - 1) ELSE container
  BY DEF PopBack, Unpopped
<1>. QED BY <1>1, <1>2, <1>3, ButLast DEF Buffers

LEMMA NewestStep == Buffers /\ HoldsTheNewest /\ [BufferNext]_bbvars => HoldsTheNewest'
<1>. SUFFICES ASSUME Buffers, HoldsTheNewest, [BufferNext]_bbvars PROVE HoldsTheNewest'
  OBVIOUS
<1>. USE DEF HoldsTheNewest
<1>1. CASE UNCHANGED <<container, pushed>>
  BY <1>1
<1>2. ASSUME NEW t \in Thread, PushFront(t) PROVE HoldsTheNewest'
  <2>1. Len(container') <= Len(pushed')
    BY <1>2, Pushed DEF Buffers
  <2>2. ASSUME NEW k \in 1 .. Len(container') PROVE container'[k] = pushed'[Len(pushed') - k + 1]
    <3>1. CASE k = 1
      BY <1>2, <3>1, Pushed DEF Buffers
    <3>2. CASE k # 1
      <4>1. k \in 2 .. Len(container') /\ k - 1 \in 1 .. Len(container)
        BY <1>2, <3>2, Pushed DEF Buffers
      <4>2. container'[k] = pushed[Len(pushed) - (k - 1) + 1]
        BY <1>2, <4>1, Pushed
      <4>3. Len(pushed') = Len(pushed) + 1
        BY <1>2, Pushed
      <4>4. Len(pushed') - k + 1 = Len(pushed) - (k - 1) + 1 /\ Len(pushed') - k + 1 \in 1 .. Len(pushed)
        BY <4>1, <4>3 DEF Buffers
      <4>. QED BY <1>2, <4>2, <4>4, Pushed
    <3>. QED BY <3>1, <3>2
  <2>. QED BY <2>1, <2>2
<1>3. ASSUME NEW t \in Thread, PopBack(t) PROVE HoldsTheNewest'
  <2>1. pushed' = pushed
    BY <1>3 DEF PopBack, Unpopped
  <2>2. Len(container') <= Len(container) /\ \A k \in 1 .. Len(container') : container'[k] = container[k]
    <3>1. /\ Len(container') = IF removes THEN Len(container) - 1 ELSE Len(container)
          /\ \A k \in 1 .. Len(container') : container'[k] = container[k]
      BY <1>3, Popped
    <3>2. Len(container) \in Nat
      BY DEF Buffers
    <3>. QED BY <3>1, <3>2
  <2>3. Len(container') \in Nat /\ Len(container) \in Nat /\ Len(pushed) \in Nat
    BY BuffersStep DEF Buffers
  <2>4. \A k \in 1 .. Len(container') : k \in 1 .. Len(container)
    BY <2>2, <2>3
  <2>. QED BY <2>1, <2>2, <2>3, <2>4
<1>. QED BY <1>1, <1>2, <1>3 DEF BufferNext, Step, bbvars, shared, Acquire, WaitNotFull, WaitNotEmpty,
       CopyThrows, NotifyNotEmpty, NotifyNotFull, SpuriousWakeup

\* A pop_back that threw after --m_unread would skip an item, so the histories
\* agree only if it does not.
LEMMA HandedOutStep ==
    ASSUME PopMayThrow = FALSE, Buffers, HoldsTheNewest, HandedOut, [BufferNext]_bbvars
    PROVE  HandedOut'
<1>. USE DEF HandedOut
<1>1. CASE UNCHANGED <<unread, pushed, popped>>
  BY <1>1
<1>2. ASSUME NEW t \in Thread, PushFront(t) PROVE HandedOut'
  <2>1. unread' = unread + 1 /\ popped' = popped
    BY <1>2 DEF PushFront
  <2>2. Len(pushed') = Len(pushed) + 1 /\ \A k \in 1 .. Len(pushed) : pushed'[k] = pushed[k]
    BY <1>2, Pushed
  <2>3. unread \in Nat /\ Len(pushed) \in Nat /\ Len(popped) \in Nat
    BY DEF Buffers
  <2>4. \A k \in 1 .. Len(popped) : k \in 1 .. Len(pushed)
    BY <2>3
  <2>. QED BY <2>1, <2>2, <2>3, <2>4
<1>3. ASSUME NEW t \in Thread, PopBack(t) PROVE HandedOut'
  <2>1. pushed' = pushed
    BY <1>3 DEF PopBack, Unpopped
  <2>2. /\ unread \in 1 .. Len(container) /\ unread' = unread - 1
        /\ Len(popped') = Len(popped) + 1 /\ popped'[Len(popped')] = container[unread]
        /\ \A k \in 1 .. Len(popped) : popped'[k] = popped[k]
    BY <1>3, Popped
  <2>3. container[unread] = pushed[Len(pushed) - unread + 1]
    BY <2>2 DEF HoldsTheNewest
  <2>4. Len(popped') = Len(pushed) - unread + 1 /\ Len(popped) \in Nat /\ Len(pushed) \in Nat
    BY <2>2 DEF Buffers
  <2>5. popped'[Len(popped')] = pushed[Len(popped')]
    BY <2>2, <2>3, <2>4
  <2>6. ASSUME NEW k \in 1 .. Len(popped') PROVE popped'[k] = pushed[k]
    <3>1. k = Len(popped') \/ k \in 1 .. Len(popped)
      BY <2>2, <2>4
    <3>. QED BY <3>1, <2>2, <2>5
  <2>. QED BY <2>1, <2>2, <2>4, <2>6
<1>4. ASSUME NEW t \in Thread, CopyThrows(t) PROVE HandedOut'
  BY <1>4 DEF CopyThrows
<1>. QED BY <1>1, <1>2, <1>3, <1>4 DEF BufferNext, Step, bbvars, shared, Acquire, WaitNotFull, WaitNotEmpty,
       NotifyNotEmpty, NotifyNotFull, SpuriousWakeup

\* The two histories are the invariant that ExactlyOnceInOrder follows from:
\* it says of the unread items what HoldsTheNewest says of all.
History == TypeOK /\ HoldsTheNewest /\ HandedOut

LEMMA HistoryInvariant == PopMayThrow = FALSE => (BufferSpec => []History)
<1>. SUFFICES ASSUME PopMayThrow = FALSE PROVE BufferSpec => []History
  OBVIOUS
<1>1. BufferInit => History
  BY TypeInit, HistoryInit DEF History
<1>2. History /\ [BufferNext]_bbvars => History'
  BY TypeStep, TypeParts, NewestStep, HandedOutStep DEF History
<1>. QED BY <1>1, <1>2, PTL DEF BufferSpec

LEMMA HistoryExact == History => ExactlyOnceInOrder
<1>. SUFFICES ASSUME History PROVE ExactlyOnceInOrder
  OBVIOUS
<1>1. unread \in 0 .. Len(container) /\ Len(container) \in Nat
  BY TypeParts DEF History, Buffers
<1>2. \A k \in 1 .. unread : container[k] = pushed[Len(pushed) - k + 1]
  BY <1>1 DEF History, HoldsTheNewest
<1>. QED BY <1>2 DEF History, HandedOut, ExactlyOnceInOrder

\* "each produced item is consumed by exactly one consumer", and in the order of
\* production, for every number of threads and every capacity, as long as
\* pop_back's copy does not throw.
THEOREM InOrder == PopMayThrow = FALSE => (BufferSpec => []ExactlyOnceInOrder)
<1>. SUFFICES ASSUME PopMayThrow = FALSE PROVE BufferSpec => []ExactlyOnceInOrder
  OBVIOUS
<1>. QED BY HistoryInvariant, HistoryExact, PTL

\* What happens to one item of the container in one step.
Kept(k) == (\A j \in 1 .. Len(container') : container'[j] # container[k])
           => \E j \in 1 .. Len(popped') : popped'[j] = container[k]

LEMMA KeptStep ==
    ASSUME History, [BufferNext]_bbvars, NEW k \in 1 .. Len(container)
    PROVE  Kept(k)
<1>. Buffers /\ HoldsTheNewest /\ HandedOut
  BY TypeParts DEF History
<1>. USE DEF Kept
<1>1. CASE UNCHANGED container
  BY <1>1
<1>2. ASSUME NEW t \in Thread, PushFront(t) PROVE Kept(k)
  <2>1. /\ Len(container') = IF Len(container) = Capacity THEN Capacity ELSE Len(container) + 1
        /\ \A j \in 2 .. Len(container') : container'[j] = container[j - 1]
    BY <1>2, Pushed
  <2>2. CASE k < Len(container')
    <3>1. k + 1 \in 2 .. Len(container')
      BY <2>1, <2>2 DEF Buffers
    <3>2. container'[k + 1] = container[k]
      BY <2>1, <3>1
    <3>. QED BY <3>1, <3>2 DEF Buffers
  <2>3. CASE ~(k < Len(container'))
    <3>1. k = Capacity /\ unread < Capacity /\ popped' = popped
      BY <1>2, <2>1, <2>3 DEF PushFront, is_not_full, Buffers
    <3>2. Len(pushed) - k + 1 \in 1 .. Len(popped)
      BY <3>1 DEF HoldsTheNewest, HandedOut, Buffers
    <3>3. popped'[Len(pushed) - k + 1] = container[k]
      BY <3>1, <3>2 DEF HoldsTheNewest, HandedOut
    <3>. QED BY <3>1, <3>2, <3>3
  <2>. QED BY <2>2, <2>3
<1>3. ASSUME NEW t \in Thread, PopBack(t) PROVE Kept(k)
  <2>1. /\ unread \in 1 .. Len(container)
        /\ Len(popped') = Len(popped) + 1 /\ popped'[Len(popped')] = container[unread]
        /\ Len(container') = IF removes THEN Len(container) - 1 ELSE Len(container)
        /\ \A j \in 1 .. Len(container') : container'[j] = container[j]
    BY <1>3, Popped
  <2>2. CASE k <= Len(container')
    <3>1. k \in 1 .. Len(container')
      BY <2>1, <2>2 DEF Buffers
    <3>. QED BY <2>1, <3>1
  <2>3. CASE ~(k <= Len(container'))
    <3>1. k = unread
      BY <2>1, <2>3 DEF Buffers
    <3>2. Len(popped') \in 1 .. Len(popped')
      BY <2>1 DEF Buffers
    <3>. QED BY <2>1, <3>1, <3>2
  <2>. QED BY <2>2, <2>3
<1>. QED BY <1>1, <1>2, <1>3 DEF BufferNext, Step, bbvars, shared, Acquire, WaitNotFull, WaitNotEmpty,
       CopyThrows, NotifyNotEmpty, NotifyNotFull, SpuriousWakeup

\* The silent overwriting of a full circular_buffer only ever hits an item that
\* was read, and what pop_back removes it has handed out.
THEOREM NothingOverwritten == PopMayThrow = FALSE => (BufferSpec => LosesNothing)
<1>. SUFFICES ASSUME PopMayThrow = FALSE PROVE BufferSpec => LosesNothing
  OBVIOUS
<1>1. History /\ [BufferNext]_bbvars => [\A k \in 1 .. Len(container) : Kept(k)]_bbvars
  BY KeptStep
<1>2. LosesNothing <=> [][\A k \in 1 .. Len(container) : Kept(k)]_bbvars
  BY DEF LosesNothing, Kept
<1>. QED BY <1>1, <1>2, HistoryInvariant, PTL DEF BufferSpec

-----------------------------------------------------------------------------
(* Lost wakeups                                                            *)

\* The threads that will see to an unread item, or to a free slot.
ForItems == {t \in Producer : pc[t] = "notify"} \cup {t \in Consumer : pc[t] \in {"relock", "locked", "lock"}}
ForRoom  == {t \in Consumer : pc[t] = "notify"} \cup {t \in Producer : pc[t] \in {"relock", "locked", "lock"}}

ItemsServed == notEmpty # {} => unread <= Cardinality(ForItems)
RoomServed  == notFull # {} => Capacity - unread <= Cardinality(ForRoom)

Served == TypeOK /\ ItemsServed /\ RoomServed

LEMMA ServersAreThreads == ForItems \in SUBSET Thread /\ ForRoom \in SUBSET Thread
BY DEF ForItems, ForRoom, Thread

LEMMA ServersAreThreadsNext == ForItems' \in SUBSET Thread /\ ForRoom' \in SUBSET Thread
BY DEF ForItems, ForRoom, Thread

LEMMA ServersCount ==
    /\ Cardinality(ForItems) \in Nat /\ Cardinality(ForItems') \in Nat
    /\ Cardinality(ForRoom) \in Nat /\ Cardinality(ForRoom') \in Nat
BY ThreadsAreFinite, ServersAreThreads, ServersAreThreadsNext

\* A thread that starts to serve, or serves on in another way, leaves no fewer.
LEMMA NoFewerServe ==
    ASSUME Buffers, ItemsServed, RoomServed, unread' = unread,
           ForItems \subseteq ForItems', ForRoom \subseteq ForRoom',
           notEmpty' # {} => notEmpty # {}, notFull' # {} => notFull # {}
    PROVE  ItemsServed' /\ RoomServed'
<1>1. Cardinality(ForItems) <= Cardinality(ForItems') /\ Cardinality(ForRoom) <= Cardinality(ForRoom')
  BY MoreThreads, ServersAreThreadsNext
<1>. QED BY <1>1, ServersCount DEF ItemsServed, RoomServed, Buffers

\* A notified thread takes over from the one that notified it.
LEMMA TakesOver ==
    ASSUME NEW S \in SUBSET Thread, NEW t \in S, NEW w \in Thread \ S
    PROVE  Cardinality((S \ {t}) \cup {w}) = Cardinality(S)
<1>1. S \ {t} \in SUBSET Thread /\ w \in Thread \ (S \ {t})
  OBVIOUS
<1>2. Cardinality((S \ {t}) \cup {w}) = Cardinality(S \ {t}) + 1 /\ Cardinality(S \ {t}) = Cardinality(S) - 1
  BY <1>1, OneThreadMore, OneThreadLess
<1>. QED BY <1>2, ThreadsAreFinite

LEMMA ServedStep ==
    ASSUME PopMayThrow = FALSE, TypeOK, ItemsServed, RoomServed, [BufferNext]_bbvars
    PROVE  ItemsServed' /\ RoomServed'
<1>. Buffers /\ Threads /\ Buffers'
  BY TypeParts, BuffersStep
<1>. USE DEF Thread
<1>. Capacity \in Nat /\ unread \in Nat /\ unread' \in Nat
  BY DEF Buffers
<1>1. CASE UNCHANGED bbvars
  BY <1>1 DEF bbvars, shared, ItemsServed, RoomServed, ForItems, ForRoom
<1>2. ASSUME NEW t \in Thread, Acquire(t) PROVE ItemsServed' /\ RoomServed'
  <2>1. ForItems \subseteq ForItems' /\ ForRoom \subseteq ForRoom'
    BY <1>2 DEF Acquire, Threads, ForItems, ForRoom
  <2>. QED BY <1>2, <2>1, NoFewerServe DEF Acquire, shared
<1>3. ASSUME NEW t \in Thread, WaitNotFull(t) PROVE ItemsServed' /\ RoomServed'
  <2>1. ForItems' = ForItems
    BY <1>3 DEF WaitNotFull, Threads, ForItems
  <2>2. ItemsServed'
    BY <1>3, <2>1 DEF WaitNotFull, shared, ItemsServed
  <2>3. Capacity <= unread' /\ unread' \in Nat
    BY <1>3 DEF WaitNotFull, is_not_full, shared, Buffers
  <2>4. RoomServed'
    <3>1. Cardinality(ForRoom') \in Nat
      BY ServersCount
    <3>2. \A u, c \in Nat : Capacity <= u => Capacity - u <= c
      OBVIOUS
    <3>. QED BY <2>3, <3>1, <3>2 DEF RoomServed
  <2>. QED BY <2>2, <2>4
<1>4. ASSUME NEW t \in Thread, WaitNotEmpty(t) PROVE ItemsServed' /\ RoomServed'
  <2>1. ForRoom' = ForRoom
    BY <1>4 DEF WaitNotEmpty, Threads, ForRoom
  <2>2. RoomServed'
    BY <1>4, <2>1 DEF WaitNotEmpty, shared, RoomServed
  <2>3. unread' <= 0
    BY <1>4 DEF WaitNotEmpty, is_not_empty, shared, Buffers
  <2>4. ItemsServed'
    BY <2>3, ServersCount DEF ItemsServed, Buffers
  <2>. QED BY <2>2, <2>4
<1>5. ASSUME NEW t \in Thread, PushFront(t) PROVE ItemsServed' /\ RoomServed'
  <2>1. unread' = unread + 1 /\ notEmpty' = notEmpty /\ notFull' = notFull
    BY <1>5 DEF PushFront
  <2>2. t \notin ForItems /\ ForItems' = ForItems \cup {t}
    BY <1>5 DEF PushFront, Threads, ForItems
  <2>3. t \in ForRoom /\ ForRoom' = ForRoom \ {t}
    BY <1>5 DEF PushFront, Threads, ForRoom
  <2>4. Cardinality(ForItems') = Cardinality(ForItems) + 1 /\ Cardinality(ForRoom') = Cardinality(ForRoom) - 1
    BY <2>2, <2>3, ServersAreThreads, OneThreadMore, OneThreadLess
  <2>5. ItemsServed'
    BY <2>1, <2>4, ServersCount DEF ItemsServed
  <2>6. RoomServed'
    BY <2>1, <2>4, ServersCount DEF RoomServed
  <2>. QED BY <2>5, <2>6
<1>6. ASSUME NEW t \in Thread, PopBack(t) PROVE ItemsServed' /\ RoomServed'
  <2>1. unread' = unread - 1 /\ notEmpty' = notEmpty /\ notFull' = notFull
    BY <1>6 DEF PopBack, Unpopped
  <2>2. t \notin ForRoom /\ ForRoom' = ForRoom \cup {t}
    BY <1>6 DEF PopBack, Unpopped, Threads, ForRoom
  <2>3. t \in ForItems /\ ForItems' = ForItems \ {t}
    BY <1>6 DEF PopBack, Unpopped, Threads, ForItems
  <2>4. Cardinality(ForRoom') = Cardinality(ForRoom) + 1 /\ Cardinality(ForItems') = Cardinality(ForItems) - 1
    BY <2>2, <2>3, ServersAreThreads, OneThreadMore, OneThreadLess
  <2>5. ItemsServed'
    BY <2>1, <2>4, ServersCount DEF ItemsServed
  <2>6. RoomServed'
    BY <2>1, <2>4, ServersCount DEF RoomServed
  <2>. QED BY <2>5, <2>6
<1>7. ASSUME NEW t \in Thread, CopyThrows(t) PROVE ItemsServed' /\ RoomServed'
  <2>1. unread' = unread /\ notEmpty' = notEmpty /\ notFull' = notFull
    BY <1>7 DEF CopyThrows
  <2>2. ForItems \subseteq ForItems' /\ ForRoom \subseteq ForRoom'
    BY <1>7 DEF CopyThrows, Threads, ForItems, ForRoom
  <2>. QED BY <2>1, <2>2, NoFewerServe
<1>8. ASSUME NEW t \in Thread, NotifyNotEmpty(t) PROVE ItemsServed' /\ RoomServed'
  <2>1. unread' = unread /\ notFull' = notFull
    BY <1>8 DEF NotifyNotEmpty, shared
  <2>2. ASSUME NEW u \in ForRoom PROVE u \in ForRoom'
    <3>1. t \in Producer /\ pc[t] = "notify" /\ u # t /\ u \in Thread \ notEmpty
      BY <1>8 DEF NotifyNotEmpty, Threads, Blocked, ForRoom
    <3>2. pc'[u] = pc[u]
      BY <1>8, <3>1 DEF NotifyNotEmpty, Woken
    <3>. QED BY <3>2 DEF ForRoom
  <2>3. CASE notEmpty = {}
    <3>1. notEmpty' = {}
      BY <1>8, <2>3 DEF NotifyNotEmpty
    <3>2. Cardinality(ForRoom) <= Cardinality(ForRoom')
      BY <2>2, MoreThreads, ServersAreThreadsNext
    <3>. QED BY <2>1, <3>1, <3>2, ServersCount DEF ItemsServed, RoomServed
  <2>4. CASE notEmpty # {}
    <3>1. PICK w \in notEmpty : notEmpty' = notEmpty \ {w} /\ Woken(t, {w})
      BY <1>8, <2>4 DEF NotifyNotEmpty
    <3>2. w \in Consumer /\ pc[w] = "blocked" /\ t \in Producer /\ pc[t] = "notify"
      BY <1>8 DEF NotifyNotEmpty, Threads, Blocked
    <3>3. t \in ForItems /\ w \in Thread \ ForItems /\ ForItems' = (ForItems \ {t}) \cup {w}
      BY <3>1, <3>2 DEF Woken, Threads, ForItems
    <3>4. Cardinality(ForItems') = Cardinality(ForItems)
      BY <3>3, TakesOver, ServersAreThreads
    <3>5. Cardinality(ForRoom) <= Cardinality(ForRoom')
      BY <2>2, MoreThreads, ServersAreThreadsNext
    <3>. QED BY <2>1, <2>4, <3>4, <3>5, ServersCount DEF ItemsServed, RoomServed
  <2>. QED BY <2>3, <2>4
<1>9. ASSUME NEW t \in Thread, NotifyNotFull(t) PROVE ItemsServed' /\ RoomServed'
  <2>1. unread' = unread /\ notEmpty' = notEmpty
    BY <1>9 DEF NotifyNotFull, shared
  <2>2. ASSUME NEW u \in ForItems PROVE u \in ForItems'
    <3>1. t \in Consumer /\ pc[t] = "notify" /\ u # t /\ u \in Thread \ notFull
      BY <1>9 DEF NotifyNotFull, Threads, Blocked, ForItems
    <3>2. pc'[u] = pc[u]
      BY <1>9, <3>1 DEF NotifyNotFull, Woken
    <3>. QED BY <3>2 DEF ForItems
  <2>3. CASE notFull = {}
    <3>1. notFull' = {}
      BY <1>9, <2>3 DEF NotifyNotFull
    <3>2. Cardinality(ForItems) <= Cardinality(ForItems')
      BY <2>2, MoreThreads, ServersAreThreadsNext
    <3>. QED BY <2>1, <3>1, <3>2, ServersCount DEF ItemsServed, RoomServed
  <2>4. CASE notFull # {}
    <3>1. PICK w \in notFull : notFull' = notFull \ {w} /\ Woken(t, {w})
      BY <1>9, <2>4 DEF NotifyNotFull
    <3>2. w \in Producer /\ pc[w] = "blocked" /\ t \in Consumer /\ pc[t] = "notify"
      BY <1>9 DEF NotifyNotFull, Threads, Blocked
    <3>3. t \in ForRoom /\ w \in Thread \ ForRoom /\ ForRoom' = (ForRoom \ {t}) \cup {w}
      BY <3>1, <3>2 DEF Woken, Threads, ForRoom
    <3>4. Cardinality(ForRoom') = Cardinality(ForRoom)
      BY <3>3, TakesOver, ServersAreThreads
    <3>5. Cardinality(ForItems) <= Cardinality(ForItems')
      BY <2>2, MoreThreads, ServersAreThreadsNext
    <3>. QED BY <2>1, <2>4, <3>4, <3>5, ServersCount DEF ItemsServed, RoomServed
  <2>. QED BY <2>3, <2>4
<1>10. ASSUME NEW t \in Thread, SpuriousWakeup(t) PROVE ItemsServed' /\ RoomServed'
  <2>1. ForItems \subseteq ForItems' /\ ForRoom \subseteq ForRoom'
    BY <1>10 DEF SpuriousWakeup, Threads, Blocked, ForItems, ForRoom
  <2>. QED BY <1>10, <2>1, NoFewerServe DEF SpuriousWakeup, shared
<1>. QED BY <1>1, <1>2, <1>3, <1>4, <1>5, <1>6, <1>7, <1>8, <1>9, <1>10 DEF BufferNext, Step

\* No wakeup is lost, for every number of threads: a notification reaches a
\* waiting thread, or none waits and whoever comes later looks before it waits.
THEOREM WakeupsArrive == PopMayThrow = FALSE => (BufferSpec => []NoLostWakeup)
<1>. SUFFICES ASSUME PopMayThrow = FALSE PROVE BufferSpec => []NoLostWakeup
  OBVIOUS
<1>1. BufferInit => Served
  BY TypeInit DEF BufferInit, Served, ItemsServed, RoomServed
<1>2. Served /\ [BufferNext]_bbvars => Served'
  BY TypeStep, ServedStep DEF Served
<1>3. Served => NoLostWakeup
  BY DEF Served, ItemsServed, RoomServed, ForItems, ForRoom, NoLostWakeup
<1>. QED BY <1>1, <1>2, <1>3, PTL DEF BufferSpec
=============================================================================
