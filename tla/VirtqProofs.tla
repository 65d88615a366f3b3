---------------------------- MODULE VirtqProofs ----------------------------
(* Lemmas about the operators of Virtq: the ring indices and what a ring   *)
(* holds between two of them, and the free list.                           *)
EXTENDS Virtq, FiniteSetTheorems, TLAPS

-----------------------------------------------------------------------------
(* Ring arithmetic.                                                        *)

\* The 16-bit increment stays in 16 bits.
LEMMA IncIdx == ASSUME NEW i \in Idx PROVE Inc(i) \in Idx
BY NumAssumption DEF Inc, Idx

\* Whatever the index, the slot computed from it is in the ring.
LEMMA SlotDesc == ASSUME NEW i \in Idx PROVE Slot(i) \in Desc
<1>1. i \in Int /\ Num \in Nat /\ Num > 0
  BY NumAssumption DEF Idx
<1> QED BY <1>1 DEF Slot, Desc

LEMMA ZeroIn == 0 \in Desc /\ 0 \in Idx
BY NumAssumption DEF Desc, Idx

LEMMA DescIsFinite == IsFiniteSet(Desc) /\ Cardinality(Desc) = Num
BY FS_Interval, NumAssumption DEF Desc

\* The distance between two indices, and what an increment of either does to it.
LEMMA DistFacts ==
  ASSUME NEW i \in Idx, NEW j \in Idx
  PROVE  /\ Dist(i, j) \in Idx
         /\ Dist(i, j) = 0 <=> i = j
         /\ Dist(i, j) + 1 < IdxMod => Dist(i, Inc(j)) = Dist(i, j) + 1
         /\ i # j => Dist(Inc(i), j) = Dist(i, j) - 1
BY NumAssumption DEF Dist, Idx, Inc

\* Positions less than a ring apart have slots of their own.
LEMMA SlotsDiffer ==
  ASSUME NEW i \in Idx, NEW j \in Idx, i # j, Dist(i, j) < Num
  PROVE  Slot(i) # Slot(j)
<1>1. PICK k \in 1 .. IdxMod : IdxMod = k * Num
  BY NumAssumption
<1>2. /\ Num \in Nat /\ Num > 0 /\ i \in Nat /\ j \in Nat /\ k \in Nat /\ IdxMod \in Nat
  BY <1>1, NumAssumption DEF Idx
<1> DEFINE qi == i \div Num
           qj == j \div Num
<1>3. /\ qi \in Int /\ qj \in Int
      /\ i = Num * qi + (i % Num) /\ j = Num * qj + (j % Num)
  BY <1>2
<1> SUFFICES ASSUME i % Num = j % Num PROVE FALSE
  BY DEF Slot
<1> HIDE DEF qi, qj
<1>4. j - i = Num * (qj - qi)
  BY <1>2, <1>3
<1>5. Dist(i, j) = j - i \/ Dist(i, j) = j - i + k * Num
  BY <1>1 DEF Dist
<1>6. PICK m \in Int : Dist(i, j) = Num * m
  <2>1. qj - qi \in Int /\ qj - qi + k \in Int
    BY <1>2, <1>3
  <2>2. Num * (qj - qi) + k * Num = Num * (qj - qi + k)
    BY <1>2, <1>3
  <2> QED BY <1>4, <1>5, <2>1, <2>2
<1>7. 0 < Num * m /\ Num * m < Num
  BY <1>6, DistFacts DEF Idx
<1>8. m > 0
  BY <1>2, <1>7
<1>9. Num * m >= Num
  BY <1>2, <1>8
<1> QED BY <1>2, <1>6, <1>7, <1>9

\* Distances along one way round the ring add up.
LEMMA DistAdds ==
  ASSUME NEW i \in Idx, NEW j \in Idx, NEW m \in Idx, Dist(i, j) <= Dist(i, m)
  PROVE  Dist(j, m) = Dist(i, m) - Dist(i, j)
BY NumAssumption DEF Dist, Idx

-----------------------------------------------------------------------------
(* The window between two indices grows at its end and shrinks at its      *)
(* beginning, by one slot that was not in it.                              *)
Positions(from, to) == {j \in Idx : Dist(from, j) < Dist(from, to)}

LEMMA WindowAdded ==
  ASSUME NEW from \in Idx, NEW to \in Idx,
         Dist(from, to) < Num, Dist(from, to) + 1 < IdxMod
  PROVE  /\ Window(from, Inc(to)) = Window(from, to) \cup {Slot(to)}
         /\ Slot(to) \notin Window(from, to)
<1>1. Dist(from, Inc(to)) = Dist(from, to) + 1
  BY DistFacts
<1>2. \A j \in Idx : Dist(from, j) = Dist(from, to) => j = to
  BY NumAssumption DEF Dist, Idx
<1>3. \A j \in Idx : Dist(from, j) \in Int
  BY DistFacts DEF Idx
<1>4. Positions(from, Inc(to)) = Positions(from, to) \cup {to}
  BY <1>1, <1>2, <1>3 DEF Positions
<1>5. Window(from, Inc(to)) = Window(from, to) \cup {Slot(to)}
  BY <1>4 DEF Window, Positions
<1>6. ASSUME NEW j \in Positions(from, to) PROVE Slot(j) # Slot(to)
  <2>1. j \in Idx /\ Dist(from, j) < Dist(from, to) /\ j # to
    BY <1>3 DEF Positions
  <2>2. Dist(j, to) < Num
    <3>1. Dist(j, to) = Dist(from, to) - Dist(from, j)
      BY <1>3, <2>1, DistAdds
    <3> QED BY <1>3, <2>1, <3>1, DistFacts, NumAssumption DEF Idx
  <2> QED BY <2>1, <2>2, SlotsDiffer
<1> QED BY <1>5, <1>6 DEF Window, Positions

LEMMA WindowTaken ==
  ASSUME NEW from \in Idx, NEW to \in Idx, from # to, Dist(from, to) <= Num
  PROVE  /\ Window(from, to) = Window(Inc(from), to) \cup {Slot(from)}
         /\ Slot(from) \notin Window(Inc(from), to)
<1>1. Inc(from) \in Idx
  BY IncIdx
<1>2. Dist(Inc(from), to) = Dist(from, to) - 1
  BY DistFacts
<1>3. \A j \in Idx : j # from => Dist(Inc(from), j) = Dist(from, j) - 1
  BY DistFacts
<1>4. Dist(Inc(from), from) = IdxMod - 1 /\ Dist(from, from) = 0
  BY NumAssumption DEF Dist, Idx, Inc
<1>5. \A j \in Idx : Dist(from, j) \in Idx
  BY DistFacts
<1>6. Dist(from, to) > 0
  BY <1>5, DistFacts DEF Idx
<1>7. Positions(from, to) = Positions(Inc(from), to) \cup {from}
      /\ from \notin Positions(Inc(from), to)
  BY <1>2, <1>3, <1>4, <1>5, <1>6, NumAssumption DEF Positions, Idx
<1>8. Window(from, to) = Window(Inc(from), to) \cup {Slot(from)}
  BY <1>7 DEF Window, Positions
<1>9. ASSUME NEW j \in Positions(Inc(from), to) PROVE Slot(from) # Slot(j)
  <2>1. j \in Idx /\ j # from /\ Dist(Inc(from), j) < Dist(Inc(from), to)
    BY <1>7 DEF Positions
  <2>2. Dist(from, j) < Num
    <3>1. Dist(from, j) - 1 < Dist(from, to) - 1
      BY <1>2, <1>3, <2>1
    <3> QED BY <1>5, <2>1, <3>1, NumAssumption DEF Idx
  <2> QED BY <2>1, <2>2, SlotsDiffer
<1> QED BY <1>8, <1>9 DEF Window, Positions

\* Slots of a window are slots.
LEMMA WindowInRing ==
  ASSUME NEW from \in Idx, NEW to \in Idx
  PROVE  /\ Window(from, to) \subseteq Desc
         /\ from = to => Window(from, to) = {}
         /\ from # to => Slot(from) \in Window(from, to)
<1>1. Dist(from, from) = 0 /\ \A j \in Idx : Dist(from, j) \in Nat
  BY DistFacts DEF Idx
<1>2. Window(from, to) \subseteq Desc
  BY SlotDesc DEF Window
<1>3. from = to => Window(from, to) = {}
  BY <1>1 DEF Window
<1>4. from # to => Dist(from, to) > 0
  BY <1>1, DistFacts
<1> QED BY <1>1, <1>2, <1>3, <1>4 DEF Window

LEMMA RingFits == Num <= IdxMod
<1>1. PICK k \in 1 .. IdxMod : IdxMod = k * Num
  BY NumAssumption
<1>2. k * Num >= Num
  BY NumAssumption
<1> QED BY <1>1, <1>2

-----------------------------------------------------------------------------
(* What a ring holds between a consumer's index and a producer's: each     *)
(* entry once, as many as the indices are apart.                           *)
Between(ring, from, to) == {ring[s] : s \in Window(from, to)}

RingKept(ring, from, to) ==
  /\ \A s, t \in Window(from, to) : ring[s] = ring[t] => s = t
  /\ Cardinality(Between(ring, from, to)) = Dist(from, to)

LEMMA BetweenDesc ==
  ASSUME NEW ring \in [Desc -> Desc], NEW from \in Idx, NEW to \in Idx
  PROVE  /\ Between(ring, from, to) \subseteq Desc
         /\ IsFiniteSet(Between(ring, from, to))
         /\ Cardinality(Between(ring, from, to)) \in Nat
         /\ Cardinality(Between(ring, from, to)) <= Num
<1>1. Between(ring, from, to) \subseteq Desc
  BY WindowInRing DEF Between
<1> QED BY <1>1, DescIsFinite, FS_Subset, FS_CardinalityType

LEMMA EmptyRingKept ==
  ASSUME NEW ring, NEW i \in Idx
  PROVE  Between(ring, i, i) = {} /\ RingKept(ring, i, i)
<1>1. Window(i, i) = {} /\ Dist(i, i) = 0
  BY WindowInRing, DistFacts
<1>2. Between(ring, i, i) = {}
  BY <1>1 DEF Between
<1> QED BY <1>1, <1>2, FS_EmptySet DEF RingKept

\* Two descriptors that are not in the ring leave room for one entry.
LEMMA RoomInRing ==
  ASSUME NEW ring \in [Desc -> Desc], NEW from \in Idx, NEW to \in Idx,
         RingKept(ring, from, to), NEW h \in Desc, NEW n \in Desc, h # n,
         h \notin Between(ring, from, to), n \notin Between(ring, from, to)
  PROVE  Dist(from, to) < Num /\ Dist(from, to) + 1 < IdxMod
<1> DEFINE others == (Desc \ {h}) \ {n}
<1>1. IsFiniteSet(Desc \ {h}) /\ Cardinality(Desc \ {h}) = Num - 1
  BY DescIsFinite, FS_RemoveElement
<1>2. IsFiniteSet(others) /\ Cardinality(others) = Num - 2
  BY <1>1, FS_RemoveElement, NumAssumption
<1>3. Between(ring, from, to) \subseteq others
  BY BetweenDesc
<1>4. Dist(from, to) <= Num - 2
  BY <1>2, <1>3, FS_Subset DEF RingKept
<1>5. Dist(from, to) \in Nat
  BY DistFacts DEF Idx
<1> QED BY <1>4, <1>5, RingFits, NumAssumption

\* virtq_put_desc_chain: an entry the index does not cover yet changes nothing ...
LEMMA EntryWritten ==
  ASSUME NEW ring \in [Desc -> Desc], NEW from \in Idx, NEW to \in Idx,
         Dist(from, to) < Num, Dist(from, to) + 1 < IdxMod, NEW h \in Desc
  PROVE  LET new == [ring EXCEPT ![Slot(to)] = h]
         IN  /\ new[Slot(to)] = h
             /\ Between(new, from, to) = Between(ring, from, to)
             /\ RingKept(ring, from, to) => RingKept(new, from, to)
<1> DEFINE new == [ring EXCEPT ![Slot(to)] = h]
<1>1. new[Slot(to)] = h
  BY SlotDesc
<1>2. \A s \in Window(from, to) : new[s] = ring[s]
  BY WindowAdded, WindowInRing
<1> HIDE DEF new
<1>3. Between(new, from, to) = Between(ring, from, to)
  BY <1>2 DEF Between
<1>4. RingKept(ring, from, to) => RingKept(new, from, to)
  BY <1>2, <1>3 DEF RingKept
<1> QED BY <1>1, <1>3, <1>4 DEF new

\* ... and is in the ring when it does.
LEMMA EntryPublished ==
  ASSUME NEW ring \in [Desc -> Desc], NEW from \in Idx, NEW to \in Idx,
         Dist(from, to) < Num, Dist(from, to) + 1 < IdxMod,
         RingKept(ring, from, to), ring[Slot(to)] \notin Between(ring, from, to)
  PROVE  /\ Between(ring, from, Inc(to)) = Between(ring, from, to) \cup {ring[Slot(to)]}
         /\ RingKept(ring, from, Inc(to))
<1>1. /\ Window(from, Inc(to)) = Window(from, to) \cup {Slot(to)}
      /\ Slot(to) \notin Window(from, to)
  BY WindowAdded
<1>2. Between(ring, from, Inc(to)) = Between(ring, from, to) \cup {ring[Slot(to)]}
  BY <1>1 DEF Between
<1>3. Cardinality(Between(ring, from, Inc(to))) = Cardinality(Between(ring, from, to)) + 1
  BY <1>2, BetweenDesc, FS_AddElement
<1>4. Dist(from, Inc(to)) = Dist(from, to) + 1
  BY DistFacts
<1>5. \A s, t \in Window(from, Inc(to)) : ring[s] = ring[t] => s = t
  BY <1>1 DEF RingKept, Between
<1> QED BY <1>2, <1>3, <1>4, <1>5 DEF RingKept

\* virtq_get_desc_chain, and the device: the entry taken is gone from the ring.
LEMMA EntryTaken ==
  ASSUME NEW ring \in [Desc -> Desc], NEW from \in Idx, NEW to \in Idx,
         from # to, RingKept(ring, from, to)
  PROVE  /\ ring[Slot(from)] \in Between(ring, from, to)
         /\ Between(ring, Inc(from), to) = Between(ring, from, to) \ {ring[Slot(from)]}
         /\ RingKept(ring, Inc(from), to)
<1>1. Dist(from, to) <= Num
  BY BetweenDesc DEF RingKept
<1>2. /\ Window(from, to) = Window(Inc(from), to) \cup {Slot(from)}
      /\ Slot(from) \notin Window(Inc(from), to)
  BY <1>1, WindowTaken
<1>3. Between(ring, from, to) = Between(ring, Inc(from), to) \cup {ring[Slot(from)]}
  BY <1>2 DEF Between
<1>4. ring[Slot(from)] \notin Between(ring, Inc(from), to)
  BY <1>2 DEF Between, RingKept
<1>5. Cardinality(Between(ring, from, to)) = Cardinality(Between(ring, Inc(from), to)) + 1
  BY <1>3, <1>4, IncIdx, BetweenDesc, FS_AddElement
<1>6. Dist(Inc(from), to) = Dist(from, to) - 1
  BY DistFacts
<1>7. Cardinality(Between(ring, Inc(from), to)) = Dist(Inc(from), to)
  <2>1. Cardinality(Between(ring, from, to)) = Dist(from, to)
    BY DEF RingKept
  <2>2. Cardinality(Between(ring, Inc(from), to)) \in Nat
    BY IncIdx, BetweenDesc
  <2> QED BY <1>5, <1>6, <2>1, <2>2
<1>8. \A s, t \in Window(Inc(from), to) : ring[s] = ring[t] => s = t
  BY <1>2 DEF RingKept
<1> QED BY <1>3, <1>4, <1>7, <1>8 DEF RingKept

-----------------------------------------------------------------------------
(* The free list: its elements, each of them once.                         *)
Listed(s) == {s[i] : i \in DOMAIN s}
ListedOnce(s) == \A i, j \in DOMAIN s : s[i] = s[j] => i = j

\* A list without repetition is as long as it has elements, so it has room for
\* every descriptor that is not in it (fifo_put never finds it full).
LEMMA ListLength ==
  ASSUME NEW s \in Seq(Desc), ListedOnce(s)
  PROVE  /\ Listed(s) \subseteq Desc
         /\ Cardinality(Listed(s)) = Len(s)
         /\ \A d \in Desc : d \notin Listed(s) => Len(s) < Num
<1>1. Listed(s) \subseteq Desc
  BY DEF Listed
<1>2. Cardinality(Listed(s)) = Len(s) /\ IsFiniteSet(Listed(s))
  <2> DEFINE f == [i \in 1 .. Len(s) |-> s[i]]
  <2>1. f \in Bijection(1 .. Len(s), Listed(s))
    BY DEF ListedOnce, Listed, Bijection, Injection, Surjection, IsInjective
  <2>2. ExistsBijection(1 .. Len(s), Listed(s))
    BY <2>1 DEF ExistsBijection
  <2> QED BY <2>2, FS_Bijection, FS_Interval, FS_CountingElements
<1>3. ASSUME NEW d \in Desc, d \notin Listed(s) PROVE Len(s) < Num
  <2>1. IsFiniteSet(Desc \ {d}) /\ Cardinality(Desc \ {d}) = Num - 1
    BY DescIsFinite, FS_RemoveElement
  <2>2. Listed(s) \subseteq Desc \ {d}
    BY <1>1, <1>3
  <2>3. Len(s) <= Num - 1
    BY <1>2, <2>1, <2>2, FS_Subset
  <2> QED BY <2>3, NumAssumption
<1> QED BY <1>1, <1>2, <1>3

\* fifo_get: the head leaves the list.
LEMMA HeadTaken ==
  ASSUME NEW s \in Seq(Desc), ListedOnce(s), s # <<>>
  PROVE  /\ Head(s) \in Listed(s)
         /\ Listed(Tail(s)) = Listed(s) \ {Head(s)}
         /\ ListedOnce(Tail(s))
<1>1. Len(s) \in Nat /\ Len(s) > 0 /\ DOMAIN s = 1 .. Len(s) /\ Head(s) = s[1]
  OBVIOUS
<1>2. /\ DOMAIN Tail(s) = 1 .. Len(s) - 1
      /\ \A i \in 1 .. Len(s) - 1 : Tail(s)[i] = s[i + 1]
  BY <1>1
<1>3. Listed(Tail(s)) \subseteq Listed(s) \ {Head(s)}
  BY <1>1, <1>2 DEF Listed, ListedOnce
<1>4. ASSUME NEW i \in DOMAIN s, s[i] # Head(s) PROVE s[i] \in Listed(Tail(s))
  <2>1. i - 1 \in 1 .. Len(s) - 1 /\ Tail(s)[i - 1] = s[i]
    BY <1>1, <1>2, <1>4
  <2> QED BY <1>2, <2>1 DEF Listed
<1>5. ListedOnce(Tail(s))
  BY <1>1, <1>2 DEF ListedOnce
<1> QED BY SMTT(30), <1>1, <1>3, <1>4, <1>5 DEF Listed

\* fifo_put: the element is added.
LEMMA LastAdded ==
  ASSUME NEW s \in Seq(Desc), ListedOnce(s), NEW d \in Desc, d \notin Listed(s)
  PROVE  /\ Listed(Append(s, d)) = Listed(s) \cup {d}
         /\ ListedOnce(Append(s, d))
<1>1. /\ Len(s) \in Nat /\ DOMAIN s = 1 .. Len(s)
      /\ DOMAIN Append(s, d) = 1 .. Len(s) + 1
      /\ \A i \in 1 .. Len(s) : Append(s, d)[i] = s[i]
      /\ Append(s, d)[Len(s) + 1] = d
  OBVIOUS
<1>2. 1 .. Len(s) + 1 = (1 .. Len(s)) \cup {Len(s) + 1}
  BY <1>1
<1>3. Listed(Append(s, d)) = Listed(s) \cup {d}
  BY <1>1, <1>2 DEF Listed
<1>4. ListedOnce(Append(s, d))
  BY <1>1, <1>2 DEF ListedOnce, Listed
<1> QED BY <1>3, <1>4
=============================================================================
