----------------------- MODULE MatcherRefinementProofs -----------------------
(***************************************************************************)
(* The matcher with pooled orders and tombstoned levels does what the      *)
(* reference matcher does, for any ids, prices and quantities and however  *)
(* long a level lives.                                                     *)
(***************************************************************************)
EXTENDS MatcherRefinement, OptimizedMatcherProofs

\* Erasing the i-th order of a FIFO closes the gap and keeps the others in order.
LEMMA EraseAtFacts ==
    ASSUME NEW S, NEW s \in Seq(S), NEW i \in 1..Len(s)
    PROVE  /\ EraseAt(s, i) \in Seq(S)
           /\ Len(EraseAt(s, i)) = Len(s) - 1
           /\ \A j \in 1..Len(s) - 1 : EraseAt(s, i)[j] = IF j < i THEN s[j] ELSE s[j + 1]
  <1> DEFINE a == SubSeq(s, 1, i - 1)
             b == SubSeq(s, i + 1, Len(s))
  <1>1. a \in Seq(S) /\ Len(a) = i - 1 /\ \A j \in 1..i - 1 : a[j] = s[j]
    OBVIOUS
  <1>2. b \in Seq(S) /\ Len(b) = Len(s) - i /\ \A j \in 1..Len(s) - i : b[j] = s[i + j]
    OBVIOUS
  <1>3. EraseAt(s, i) = a \o b
    BY DEF EraseAt
  <1> HIDE DEF a, b
  <1>4. a \o b \in Seq(S) /\ Len(a \o b) = Len(s) - 1
    BY <1>1, <1>2
  <1>5. \A j \in 1..Len(s) - 1 : (a \o b)[j] = IF j <= Len(a) THEN a[j] ELSE b[j - Len(a)]
    BY <1>1, <1>2
  <1> QED
    BY <1>1, <1>2, <1>3, <1>4, <1>5

-----------------------------------------------------------------------------
(***************************************************************************)
(* The ids of a level, front to back.                                      *)
(***************************************************************************)

\* The live places up to a place.
UpTo(level, i) == {j \in LivePlaces(level) : j <= i}

\* The rank of a live place is the number of live places up to it, so ranks grow
\* with the places.
LEMMA RankGrows ==
    ASSUME NEW level \in Level
    PROVE  /\ \A i \in LivePlaces(level) : Rank(level, i) \in 1..Cardinality(LivePlaces(level))
           /\ \A i, j \in LivePlaces(level) : i < j => Rank(level, i) < Rank(level, j)
  <1>1. IsFiniteSet(LivePlaces(level)) /\ Cardinality(LivePlaces(level)) \in Nat
        /\ LivePlaces(level) \subseteq 1..Len(level.orders) /\ Len(level.orders) \in Nat
    BY LiveFacts
  <1>2. \A i \in LivePlaces(level) : UpTo(level, i) \in SUBSET LivePlaces(level)
    BY DEF UpTo
  <1>3. \A i : Rank(level, i) = Cardinality(UpTo(level, i))
    BY DEF Rank, UpTo
  <1>4. ASSUME NEW i \in LivePlaces(level)
        PROVE  /\ IsFiniteSet(UpTo(level, i)) /\ i \in UpTo(level, i)
               /\ Rank(level, i) \in 1..Cardinality(LivePlaces(level))
    <2>1. IsFiniteSet(UpTo(level, i)) /\ Cardinality(UpTo(level, i)) <= Cardinality(LivePlaces(level))
      BY <1>1, <1>2, FS_Subset
    <2>2. i \in UpTo(level, i)
      BY <1>1 DEF UpTo
    <2>3. Cardinality(UpTo(level, i)) \in Nat /\ Cardinality(UpTo(level, i)) # 0
      BY <2>1, <2>2, FS_CardinalityType, FS_EmptySet
    <2> QED
      BY <1>1, <1>3, <2>1, <2>2, <2>3
  <1>5. ASSUME NEW i \in LivePlaces(level), NEW j \in LivePlaces(level), i < j
        PROVE  Rank(level, i) < Rank(level, j)
    <2>1. UpTo(level, i) \in SUBSET (UpTo(level, j) \ {j})
      BY <1>1, <1>5 DEF UpTo
    <2>2. IsFiniteSet(UpTo(level, j)) /\ j \in UpTo(level, j)
      BY <1>4
    <2>3. /\ IsFiniteSet(UpTo(level, j) \ {j})
          /\ Cardinality(UpTo(level, j) \ {j}) = Cardinality(UpTo(level, j)) - 1
      BY <2>2, FS_RemoveElement
    <2>4. Cardinality(UpTo(level, i)) <= Cardinality(UpTo(level, j) \ {j})
      BY <2>1, <2>3, FS_Subset
    <2>5. Rank(level, i) \in Nat /\ Rank(level, j) \in Nat
      BY <1>1, <1>4
    <2> QED
      BY <1>3, <2>3, <2>4, <2>5
  <1> QED
    BY <1>4, <1>5

\* Every rank is taken, so the k-th live place is there.
LEMMA NthFacts ==
    ASSUME NEW level \in Level
    PROVE  /\ \A k \in 1..Cardinality(LivePlaces(level)) :
                 NthLive(level, k) \in LivePlaces(level) /\ Rank(level, NthLive(level, k)) = k
           /\ \A i \in LivePlaces(level) : NthLive(level, Rank(level, i)) = i
  <1>1. PICK S, n : S = LivePlaces(level) /\ n = Cardinality(LivePlaces(level))
    OBVIOUS
  <1>2. IsFiniteSet(S) /\ n \in Nat /\ S \subseteq Nat /\ n = Cardinality(S)
    BY <1>1, LiveFacts
  <1>3. /\ \A i \in S : Rank(level, i) \in 1..n
        /\ \A i, j \in S : i < j => Rank(level, i) < Rank(level, j)
    BY <1>1, RankGrows
  <1>4. \A i, j \in S : Rank(level, i) = Rank(level, j) => i = j
    <2> SUFFICES ASSUME NEW i \in S, NEW j \in S, Rank(level, i) = Rank(level, j) PROVE i = j
      OBVIOUS
    <2>1. Rank(level, i) \in Nat /\ i \in Nat /\ j \in Nat
      BY <1>2, <1>3
    <2> QED
      BY <1>3, <2>1
  <1>5. \A k \in 1..n : \E i \in S : Rank(level, i) = k
    <2> DEFINE f == [i \in S |-> Rank(level, i)]
    <2>1. f \in [S -> 1..n]
      BY <1>3
    <2>2. IsInjective(f)
      BY <1>4 DEF IsInjective
    <2>3. f \in Injection(S, 1..n)
      BY <2>1, <2>2 DEF Injection
    <2>4. IsFiniteSet(1..n) /\ Cardinality(1..n) = n
      BY <1>2, FS_Interval
    <2> HIDE DEF f
    <2>5. f \in Surjection(S, 1..n)
      BY <1>2, <2>3, <2>4, FS_Injection
    <2>6. \A k \in 1..n : \E i \in S : f[i] = k
      BY <2>5 DEF Surjection
    <2> QED
      BY <2>6 DEF f
  <1>6. \A k \in 1..n : NthLive(level, k) \in S /\ Rank(level, NthLive(level, k)) = k
    BY <1>1, <1>5 DEF NthLive
  <1>7. \A i \in S : NthLive(level, Rank(level, i)) = i
    BY <1>3, <1>4, <1>6
  <1> QED
    BY <1>1, <1>6, <1>7, Zenon

\* So the k-th live place is told by its rank.
LEMMA NthIs ==
    ASSUME NEW level \in Level, NEW i \in LivePlaces(level), NEW k, Rank(level, i) = k
    PROVE  NthLive(level, k) = i
  BY NthFacts

\* The ids of a level, read at the ranks.
LEMMA IdsFacts ==
    ASSUME NEW mem, NEW level \in Level
    PROVE  /\ Len(IdsOf(mem, level)) = Cardinality(LivePlaces(level))
           /\ DOMAIN IdsOf(mem, level) = 1..Cardinality(LivePlaces(level))
           /\ \A k \in 1..Cardinality(LivePlaces(level)) :
                 IdsOf(mem, level)[k] = mem[level.orders[NthLive(level, k)]].id
           /\ \A i \in LivePlaces(level) :
                 IdsOf(mem, level)[Rank(level, i)] = mem[level.orders[i]].id
  <1>1. Cardinality(LivePlaces(level)) \in Nat
    BY LiveFacts
  <1>2. /\ DOMAIN IdsOf(mem, level) = 1..Cardinality(LivePlaces(level))
        /\ \A k \in 1..Cardinality(LivePlaces(level)) :
              IdsOf(mem, level)[k] = mem[level.orders[NthLive(level, k)]].id
    BY DEF IdsOf
  <1>3. Len(IdsOf(mem, level)) = Cardinality(LivePlaces(level))
    BY <1>1 DEF IdsOf
  <1>4. ASSUME NEW i \in LivePlaces(level)
        PROVE  IdsOf(mem, level)[Rank(level, i)] = mem[level.orders[i]].id
    <2>1. Rank(level, i) \in 1..Cardinality(LivePlaces(level)) /\ NthLive(level, Rank(level, i)) = i
      BY RankGrows, NthFacts
    <2> QED
      BY <1>2, <2>1
  <1> QED
    BY <1>2, <1>3, <1>4

\* Two memories with the same ids behind the pointers of a level.
IdsAgree(mem2, mem, level) ==
    \A i \in LivePlaces(level) : mem2[level.orders[i]].id = mem[level.orders[i]].id

\* A level whose live places and pointers are the same, with the same ids behind the
\* pointers, is the same list of ids.
LEMMA SameIds ==
    ASSUME NEW mem, NEW mem2, NEW level \in Level, NEW after \in Level,
           after.orders = level.orders, IdsAgree(mem2, mem, level)
    PROVE  IdsOf(mem2, after) = IdsOf(mem, level)
  <1>1. LivePlaces(after) = LivePlaces(level)
    BY DEF LivePlaces
  <1>2. \A k : NthLive(after, k) = NthLive(level, k)
    BY <1>1 DEF NthLive, Rank
  <1>3. \A k \in 1..Cardinality(LivePlaces(level)) :
            mem2[after.orders[NthLive(after, k)]].id = mem[level.orders[NthLive(level, k)]].id
    BY <1>2, NthFacts DEF IdsAgree
  <1> QED
    BY <1>1, <1>3 DEF IdsOf

\* The front order is the first id.
LEMMA FrontIsHead ==
    ASSUME NEW mem, NEW level \in Level, NEW i \in LivePlaces(level),
           \A j \in LivePlaces(level) : i <= j
    PROVE  /\ IdsOf(mem, level) # <<>>
           /\ Head(IdsOf(mem, level)) = mem[level.orders[i]].id
  <1>1. LivePlaces(level) \subseteq Nat
    BY LiveFacts
  <1>2. {j \in LivePlaces(level) : j <= i} = {i}
    BY <1>1
  <1>3. Rank(level, i) = 1
    BY <1>2, FS_Singleton DEF Rank
  <1>4. 1 \in 1..Cardinality(LivePlaces(level))
    BY <1>3, RankGrows
  <1>5. IdsOf(mem, level)[1] = mem[level.orders[i]].id
    BY <1>3, IdsFacts
  <1>6. Len(IdsOf(mem, level)) # 0
    BY <1>4, LiveFacts, IdsFacts
  <1> QED
    BY <1>5, <1>6

\* Sequences of the same length and elements are the same.
LEMMA SeqEqual ==
    ASSUME NEW S, NEW T, NEW s \in Seq(S), NEW t \in Seq(T), Len(s) = Len(t),
           \A k \in 1..Len(s) : s[k] = t[k]
    PROVE  s = t
  <1>1. s = [k \in 1..Len(s) |-> s[k]] /\ t = [k \in 1..Len(t) |-> t[k]]
    OBVIOUS
  <1> QED
    BY <1>1, Zenon

\* The ids of a level.
IdsIn(mem, level) == {mem[level.orders[i]].id : i \in LivePlaces(level)}

\* They are a sequence.
LEMMA IdsType ==
    ASSUME NEW mem, NEW level \in Level
    PROVE  IdsOf(mem, level) \in Seq(IdsIn(mem, level))
  <1>1. Cardinality(LivePlaces(level)) \in Nat
    BY LiveFacts
  <1>2. \A k \in 1..Cardinality(LivePlaces(level)) :
            mem[level.orders[NthLive(level, k)]].id \in IdsIn(mem, level)
    BY NthFacts DEF IdsIn
  <1> QED
    BY <1>1, <1>2 DEF IdsOf

\* Pushing a pointer appends an id.
LEMMA IdsPushed ==
    ASSUME NEW mem, NEW mem2, NEW level \in Level, NEW slot, NEW after, OneMore(level, slot, after),
           IdsAgree(mem2, mem, level)
    PROVE  IdsOf(mem2, after) = Append(IdsOf(mem, level), mem2[slot].id)
  <1>1. PICK n, new : n = Cardinality(LivePlaces(level)) /\ new = Len(level.orders) + 1
    OBVIOUS
  <1>2. /\ after \in Level /\ after.orders[new] = slot
        /\ \A i \in 1..Len(level.orders) : after.orders[i] = level.orders[i]
        /\ LivePlaces(after) = LivePlaces(level) \cup {new}
        /\ Cardinality(LivePlaces(after)) = n + 1
    BY <1>1 DEF OneMore
  <1>3. /\ n \in Nat /\ new \in Nat /\ LivePlaces(level) \subseteq 1..Len(level.orders)
        /\ \A i \in LivePlaces(level) : i \in Nat /\ i < new
    BY <1>1, LiveFacts
  <1>4. ASSUME NEW i \in LivePlaces(level) PROVE Rank(after, i) = Rank(level, i)
    <2>1. {j \in LivePlaces(after) : j <= i} = {j \in LivePlaces(level) : j <= i}
      BY <1>2, <1>3
    <2> QED
      BY <2>1 DEF Rank
  <1>5. Rank(after, new) = n + 1
    <2>1. {j \in LivePlaces(after) : j <= new} = LivePlaces(after)
      BY <1>2, <1>3
    <2> QED
      BY <1>2, <2>1, Zenon DEF Rank
  <1>6. NthLive(after, n + 1) = new
    BY <1>2, <1>5, NthIs
  <1>7. ASSUME NEW k \in 1..n
        PROVE  NthLive(after, k) = NthLive(level, k) /\ NthLive(level, k) \in LivePlaces(level)
    <2>1. NthLive(level, k) \in LivePlaces(level) /\ Rank(level, NthLive(level, k)) = k
      BY <1>1, NthFacts
    <2>2. NthLive(level, k) \in LivePlaces(after) /\ Rank(after, NthLive(level, k)) = k
      BY <1>2, <1>4, <2>1
    <2> QED
      BY <1>2, <2>1, <2>2, NthIs
  <1>8. PICK old, ids : old = IdsOf(mem, level) /\ ids = IdsOf(mem2, after)
    OBVIOUS
  <1>9. /\ old \in Seq(IdsIn(mem, level)) /\ ids \in Seq(IdsIn(mem2, after))
        /\ Len(old) = n /\ Len(ids) = n + 1
    BY <1>1, <1>2, <1>8, IdsType, IdsFacts, Zenon
  <1>a. \A k \in 1..n + 1 : ids[k] = mem2[after.orders[NthLive(after, k)]].id
    <2>1. Cardinality(LivePlaces(after)) = n + 1
      BY <1>2
    <2> QED
      BY <1>8, <2>1, Zenon DEF IdsOf
  <1>10. ids[n + 1] = mem2[slot].id
    <2>1. n + 1 \in 1..n + 1
      BY <1>3
    <2>2. ids[n + 1] = mem2[after.orders[NthLive(after, n + 1)]].id
      BY <1>a, <2>1
    <2> QED
      BY <1>2, <1>6, <2>2
  <1>11. ASSUME NEW k \in 1..n PROVE ids[k] = old[k]
    <2>1. k \in 1..n + 1
      BY <1>3
    <2>2. ids[k] = mem2[after.orders[NthLive(after, k)]].id
      BY <1>a, <2>1
    <2>3. old[k] = mem[level.orders[NthLive(level, k)]].id
      BY <1>1, <1>8, IdsFacts
    <2>4. after.orders[NthLive(after, k)] = level.orders[NthLive(level, k)]
      BY <1>2, <1>3, <1>7
    <2>5. mem2[level.orders[NthLive(level, k)]].id = mem[level.orders[NthLive(level, k)]].id
      BY <1>7 DEF IdsAgree
    <2> QED
      BY <2>2, <2>3, <2>4, <2>5
  <1>12. PICK x : x = mem2[slot].id
    OBVIOUS
  <1>13. /\ Append(old, x) \in Seq(IdsIn(mem, level) \cup {x}) /\ Len(Append(old, x)) = n + 1
         /\ \A k \in 1..n : Append(old, x)[k] = old[k]
         /\ Append(old, x)[n + 1] = x
    <2>1. old \in Seq(IdsIn(mem, level) \cup {x})
      BY <1>9
    <2> QED
      BY <1>3, <1>9, <2>1
  <1>14. \A k \in 1..n + 1 : ids[k] = Append(old, x)[k]
    <2>1. \A k \in 1..n + 1 : k \in 1..n \/ k = n + 1
      BY <1>3
    <2> QED
      BY <1>10, <1>11, <1>12, <1>13, <2>1
  <1>15. ids = Append(old, x)
    BY <1>9, <1>13, <1>14, SeqEqual
  <1> QED
    BY <1>8, <1>12, <1>15, Zenon

\* Two memories with the same ids behind the pointers of a level, but for one.
IdsAgreeBut(mem2, mem, level, i) ==
    \A j \in LivePlaces(level) \ {i} : mem2[level.orders[j]].id = mem[level.orders[j]].id

\* A tombstone erases the id at its rank.
LEMMA IdsErased ==
    ASSUME NEW mem, NEW mem2, NEW level \in Level, NEW i \in LivePlaces(level), NEW after,
           OneLess(level, i, after), IdsAgreeBut(mem2, mem, level, i)
    PROVE  IdsOf(mem2, after) = EraseAt(IdsOf(mem, level), Rank(level, i))
  <1>1. PICK n, r : n = Cardinality(LivePlaces(level)) /\ r = Rank(level, i)
    OBVIOUS
  <1>2. /\ after \in Level
        /\ \A j \in 1..Len(level.orders) : j # i => after.orders[j] = level.orders[j]
        /\ LivePlaces(after) = LivePlaces(level) \ {i}
        /\ Cardinality(LivePlaces(after)) = n - 1
    BY <1>1 DEF OneLess
  <1>3. /\ n \in Nat /\ LivePlaces(level) \subseteq 1..Len(level.orders)
        /\ LivePlaces(level) \subseteq Nat /\ IsFiniteSet(LivePlaces(level))
    BY <1>1, LiveFacts
  <1>4. r \in 1..n
    BY <1>1, RankGrows
  <1>5. ASSUME NEW j \in LivePlaces(level), j < i PROVE Rank(after, j) = Rank(level, j)
    <2>1. {x \in LivePlaces(after) : x <= j} = {x \in LivePlaces(level) : x <= j}
      BY <1>2, <1>3, <1>5
    <2> QED
      BY <2>1 DEF Rank
  <1>6. ASSUME NEW j \in LivePlaces(level), i < j PROVE Rank(after, j) = Rank(level, j) - 1
    <2>1. {x \in LivePlaces(after) : x <= j} = UpTo(level, j) \ {i} /\ i \in UpTo(level, j)
      BY <1>2, <1>3, <1>6 DEF UpTo
    <2>2. IsFiniteSet(UpTo(level, j))
      BY <1>3, FS_Subset DEF UpTo
    <2>3. Cardinality(UpTo(level, j) \ {i}) = Cardinality(UpTo(level, j)) - 1
      BY <2>1, <2>2, FS_RemoveElement, Zenon
    <2> QED
      BY <2>1, <2>3 DEF Rank, UpTo
  <1>7. ASSUME NEW k \in 1..n
        PROVE  /\ NthLive(level, k) \in LivePlaces(level) /\ Rank(level, NthLive(level, k)) = k
               /\ k < r => NthLive(level, k) < i
               /\ k > r => i < NthLive(level, k)
    <2>1. NthLive(level, k) \in LivePlaces(level) /\ Rank(level, NthLive(level, k)) = k
      BY <1>1, NthFacts
    <2>2. PICK j \in LivePlaces(level) : j = NthLive(level, k) /\ Rank(level, j) = k
      BY <2>1
    <2>3. (i < j => r < k) /\ (j < i => k < r) /\ (i = j => r = k)
      BY <1>1, <2>2, RankGrows
    <2>4. i \in Nat /\ j \in Nat /\ r \in Nat /\ k \in Nat
      BY <1>3, <1>4
    <2> QED
      BY <2>1, <2>2, <2>3, <2>4
  <1>8. ASSUME NEW k \in 1..n - 1, NEW m, m = IF k < r THEN k ELSE k + 1
        PROVE  NthLive(after, k) = NthLive(level, m) /\ NthLive(level, m) \in LivePlaces(level) \ {i}
    <2>1. m \in 1..n /\ (m < r \/ m > r) /\ (m < r => m = k) /\ (m > r => m = k + 1)
      BY <1>3, <1>4, <1>8
    <2>2. PICK j \in LivePlaces(level) : j = NthLive(level, m) /\ Rank(level, j) = m
      BY <1>7, <2>1
    <2>3. (m < r => j < i) /\ (m > r => i < j)
      BY <1>7, <2>1, <2>2
    <2>4. i \in Nat /\ j \in Nat
      BY <1>3
    <2>5. j # i /\ j \in LivePlaces(after)
      BY <1>2, <2>1, <2>3, <2>4
    <2>6. Rank(after, j) = k
      <3>1. CASE m < r
        BY <1>5, <2>1, <2>2, <2>3, <3>1
      <3>2. CASE m > r
        BY <1>6, <2>1, <2>2, <2>3, <3>2
      <3> QED
        BY <2>1, <3>1, <3>2
    <2>7. NthLive(after, k) = j
      BY <1>2, <2>5, <2>6, NthIs
    <2> QED
      BY <2>2, <2>5, <2>7
  <1>9. PICK old, ids : old = IdsOf(mem, level) /\ ids = IdsOf(mem2, after)
    OBVIOUS
  <1>10. /\ old \in Seq(IdsIn(mem, level)) /\ ids \in Seq(IdsIn(mem2, after))
         /\ Len(old) = n /\ Len(ids) = n - 1
    BY <1>1, <1>2, <1>9, IdsType, IdsFacts, Zenon
  <1>11. /\ EraseAt(old, r) \in Seq(IdsIn(mem, level)) /\ Len(EraseAt(old, r)) = n - 1
         /\ \A k \in 1..n - 1 : EraseAt(old, r)[k] = IF k < r THEN old[k] ELSE old[k + 1]
    BY <1>4, <1>10, EraseAtFacts, Zenon
  <1>12. ASSUME NEW k \in 1..n - 1 PROVE ids[k] = EraseAt(old, r)[k]
    <2>1. PICK m : m = IF k < r THEN k ELSE k + 1
      OBVIOUS
    <2>2. m \in 1..n
      BY <1>3, <1>4, <2>1
    <2>3. EraseAt(old, r)[k] = old[m]
      BY <1>11, <2>1
    <2>4. old[m] = mem[level.orders[NthLive(level, m)]].id
      BY <1>1, <1>9, <2>2, IdsFacts
    <2>5. ids[k] = mem2[after.orders[NthLive(after, k)]].id
      <3>1. Cardinality(LivePlaces(after)) = n - 1
        BY <1>2
      <3> QED
        BY <1>9, <3>1, Zenon DEF IdsOf
    <2>6. NthLive(after, k) = NthLive(level, m) /\ NthLive(level, m) \in LivePlaces(level) \ {i}
      BY <1>8, <2>1
    <2>7. after.orders[NthLive(level, m)] = level.orders[NthLive(level, m)]
      BY <1>2, <1>3, <2>6
    <2>8. mem2[level.orders[NthLive(level, m)]].id = mem[level.orders[NthLive(level, m)]].id
      BY <2>6 DEF IdsAgreeBut
    <2> QED
      BY <2>3, <2>4, <2>5, <2>6, <2>7, <2>8
  <1>13. ids = EraseAt(old, r)
    BY <1>10, <1>11, <1>12, SeqEqual
  <1> QED
    BY <1>1, <1>9, <1>13, Zenon

-----------------------------------------------------------------------------
(***************************************************************************)
(* The refinement.  The operators of the reference matcher's module that   *)
(* know nothing of its state are the ones of this one.                     *)
(***************************************************************************)

\* The same sides and orders.
LEMMA SameSets == Reference!Side = Side /\ Reference!Incoming = Incoming
  BY DEF Reference!Side, Side, Reference!Incoming, Incoming, Reference!Price, Reference!Quantity

\* The same arithmetic of sides and prices.
LEMMA SameOrder ==
    ASSUME NEW x, NEW y, NEW z
    PROVE  /\ Reference!Opposite(x) = Opposite(x)
           /\ Reference!Reaches(x, y, z) <=> Reaches(x, y, z)
           /\ Reference!MinOf(x, y) = MinOf(x, y)
           /\ Reference!Best(x, y) = Best(x, y)
  <1>1. Reference!Opposite(x) = Opposite(x) /\ Reference!MinOf(x, y) = MinOf(x, y)
    BY DEF Reference!Opposite, Opposite, Reference!MinOf, MinOf
  <1>2. Reference!Reaches(x, y, z) <=> Reaches(x, y, z)
    BY DEF Reference!Reaches, Reaches
  <1>3. Reference!Best(x, y) = Best(x, y)
    BY Zenon DEF Reference!Best, Best, Reference!Max, Max, Reference!Min, Min
  <1> QED
    BY <1>1, <1>2, <1>3

\* The same containers.
LEMMA SameContainers ==
    ASSUME NEW f, NEW x, NEW y
    PROVE  /\ Reference!Restrict(f, x) = Restrict(f, x)
           /\ Reference!PushBack(f, x, y) = PushBack(f, x, y)
           /\ Reference!EraseOrder(f, x, y) = EraseOrder(f, x, y)
           /\ Reference!NoLevels = NoLevels
  <1>1. Reference!Restrict(f, x) = Restrict(f, x) /\ Reference!NoLevels = NoLevels
    BY Zenon DEF Reference!Restrict, Restrict, Reference!NoLevels, NoLevels
  <1>2. Reference!PushBack(f, x, y) = PushBack(f, x, y)
    BY Zenon DEF Reference!PushBack, PushBack
  <1>3. Reference!EraseOrder(f, x, y) = EraseOrder(f, x, y)
    BY Zenon DEF Reference!EraseOrder, EraseOrder, Reference!EraseLevel, EraseLevel,
                 Reference!EraseAt, EraseAt, Reference!PositionOf, PositionOf,
                 Reference!Restrict, Restrict
  <1> QED
    BY <1>1, <1>2, <1>3

\* The mapping, as an operator of the levels and the stored orders.
IdsBook(ls, mem) == [side \in Side |-> [p \in DOMAIN ls[side] |-> IdsOf(mem, ls[side][p])]]

\* What the mapping makes of the state, before and after a step.
LEMMA MappedBook ==
    ReferenceBook = IdsBook(levels, memory) /\ ReferenceBook' = IdsBook(levels', memory')
  BY DEF ReferenceBook, IdsBook

\* The sides, prices and levels of the mapped book.
LEMMA IdsBookFacts ==
    ASSUME NEW ls, NEW mem
    PROVE  /\ DOMAIN IdsBook(ls, mem) = Side
           /\ \A side \in Side : DOMAIN IdsBook(ls, mem)[side] = DOMAIN ls[side]
           /\ \A side \in Side : \A p \in DOMAIN ls[side] :
                 IdsBook(ls, mem)[side][p] = IdsOf(mem, ls[side][p])
  BY DEF IdsBook

\* A book that differs on one side.
OneSideNew(ls, mem, ls2, mem2, s, X) ==
    /\ IdsBook(ls2, mem2)[s] = X
    /\ \A t \in Side \ {s} : IdsBook(ls2, mem2)[t] = IdsBook(ls, mem)[t]

SideReplaced(ls, mem, ls2, mem2, s, X) ==
    IdsBook(ls2, mem2) = [IdsBook(ls, mem) EXCEPT ![s] = X]

\* It is the other one with that side replaced.
LEMMA IdsBookExcept ==
    ASSUME NEW ls, NEW mem, NEW ls2, NEW mem2, NEW s \in Side, NEW X,
           OneSideNew(ls, mem, ls2, mem2, s, X)
    PROVE  SideReplaced(ls, mem, ls2, mem2, s, X)
  <1>1. PICK b, c : b = IdsBook(ls, mem) /\ c = IdsBook(ls2, mem2)
    OBVIOUS
  <1>2. b = [t \in Side |-> b[t]] /\ c = [t \in Side |-> c[t]]
    BY <1>1 DEF IdsBook
  <1>3. c[s] = X /\ \A t \in Side \ {s} : c[t] = b[t]
    BY <1>1 DEF OneSideNew
  <1>4. c = [b EXCEPT ![s] = X]
    BY <1>2, <1>3
  <1> QED
    BY <1>1, <1>4, Zenon DEF SideReplaced

\* A side of a book whose levels and ids are the same.
LEMMA IdsSideSame ==
    ASSUME NEW ls, NEW mem, NEW ls2, NEW mem2, NEW s \in Side, DOMAIN ls2[s] = DOMAIN ls[s],
           \A p \in DOMAIN ls[s] : IdsOf(mem2, ls2[s][p]) = IdsOf(mem, ls[s][p])
    PROVE  IdsBook(ls2, mem2)[s] = IdsBook(ls, mem)[s]
  BY DEF IdsBook

\* A level without a live place has no ids.
LEMMA NoIds ==
    ASSUME NEW mem, NEW level \in Level, LivePlaces(level) = {}
    PROVE  IdsOf(mem, level) = <<>>
  <1>1. Cardinality(LivePlaces(level)) = 0
    BY FS_EmptySet
  <1> QED
    BY <1>1 DEF IdsOf

\* A side that gained an order at the end of a level.
SidePushed(ls, mem, ls2, mem2, s, p, id) ==
    /\ DOMAIN ls2[s] = DOMAIN ls[s] \cup {p}
    /\ \A q \in DOMAIN ls[s] \ {p} : IdsOf(mem2, ls2[s][q]) = IdsOf(mem, ls[s][q])
    /\ p \in DOMAIN ls[s] => IdsOf(mem2, ls2[s][p]) = Append(IdsOf(mem, ls[s][p]), id)
    /\ p \notin DOMAIN ls[s] => IdsOf(mem2, ls2[s][p]) = <<id>>

PushedBack(ls, mem, ls2, mem2, s, p, id) ==
    IdsBook(ls2, mem2)[s] = PushBack(IdsBook(ls, mem)[s], p, id)

\* Such a side is the one PushBack makes.
LEMMA IdsSidePushed ==
    ASSUME NEW ls, NEW mem, NEW ls2, NEW mem2, NEW s \in Side, NEW p, NEW id,
           SidePushed(ls, mem, ls2, mem2, s, p, id)
    PROVE  PushedBack(ls, mem, ls2, mem2, s, p, id)
  <1>1. PICK b, c : b = IdsBook(ls, mem)[s] /\ c = IdsBook(ls2, mem2)[s]
    OBVIOUS
  <1>2. /\ DOMAIN b = DOMAIN ls[s] /\ DOMAIN c = DOMAIN ls2[s]
        /\ \A q \in DOMAIN ls[s] : b[q] = IdsOf(mem, ls[s][q])
        /\ \A q \in DOMAIN ls2[s] : c[q] = IdsOf(mem2, ls2[s][q])
        /\ c = [q \in DOMAIN c |-> c[q]]
    BY <1>1 DEF IdsBook
  <1>3. DOMAIN c = DOMAIN b \cup {p}
    BY <1>2 DEF SidePushed
  <1>4. \A q \in DOMAIN b \ {p} : c[q] = b[q]
    BY <1>2 DEF SidePushed
  <1>5. c[p] = IF p \in DOMAIN b THEN Append(b[p], id) ELSE <<id>>
    BY <1>2 DEF SidePushed
  <1>6. c = PushBack(b, p, id)
    BY <1>2, <1>3, <1>4, <1>5 DEF PushBack
  <1> QED
    BY <1>1, <1>6, Zenon DEF PushedBack

\* The table leads to the slot an order is stored in, after a step as before it.
LEMMA SlotFound ==
    ASSUME BookHolds', NEW slot \in DOMAIN memory', NEW id, memory'[slot].id = id
    PROVE  levels'[refs'[id].side][refs'[id].price].orders[refs'[id].index] = slot
  <1>1. MemoryReached'
    BY DEF BookHolds
  <1>2. \A at \in DOMAIN memory' :
            levels'[refs'[memory'[at].id].side][refs'[memory'[at].id].price]
                .orders[refs'[memory'[at].id].index] = at
    BY <1>1, Zenon DEF MemoryReached, SlotOf
  <1> QED
    BY <1>2

\* What the mapping makes of an entry of the table and the quantity of its order.
Located(ref, quantity) == [side |-> ref.side, price |-> ref.price, quantity |-> quantity]

\* The table of the mapping, before a step.
LEMMA MappedTable ==
    ReferenceTable = [id \in DOMAIN refs |-> Located(refs[id], memory[SlotOf(id)].quantity)]
  BY DEF ReferenceTable, Located

\* And after it, told by the slots the orders are stored in by then.
LEMMA MappedTableAfter ==
    ASSUME BookHolds', NEW at,
           \A id \in DOMAIN refs' : at[id] \in DOMAIN memory' /\ memory'[at[id]].id = id
    PROVE  ReferenceTable' = [id \in DOMAIN refs' |-> Located(refs'[id], memory'[at[id]].quantity)]
  <1>1. ReferenceTable' = [id \in DOMAIN refs' |-> Located(refs'[id],
            memory'[levels'[refs'[id].side][refs'[id].price].orders[refs'[id].index]].quantity)]
    BY DEF ReferenceTable, Located, SlotOf
  <1>2. \A id \in DOMAIN refs' :
            levels'[refs'[id].side][refs'[id].price].orders[refs'[id].index] = at[id]
    BY SlotFound
  <1> QED
    BY <1>1, <1>2, Zenon

\* restOrder() of the reference matcher is what the mapping makes of restOrder().
LEMMA RestRefines ==
    ASSUME BookHolds, NEW o \in Incoming, o.quantity > 0, o.id \notin DOMAIN refs, RestOrder(o)
    PROVE  Reference!RestOrder(o)
  <1>a. PICK slot, level, after : /\ slot = Acquire(pool).slot /\ level = LevelAt(o.side, o.price)
                                  /\ after = Pushed(level, slot)
    OBVIOUS
  <1>r. RestedAs(o, slot, level)
    <2>1. RestedAs(o, Acquire(pool).slot, LevelAt(o.side, o.price))
      BY RestFacts
    <2> QED
      BY <1>a, <2>1, Zenon
  <1>1. BookHolds'
    BY RestKeeps
  <1>2. o.side \in Side
    BY DEF Incoming
  <1>3. slot \in Nat \ {0} /\ slot \notin DOMAIN memory
    <2>1. pool \in Pool /\ PoolHolds(pool, DOMAIN memory)
      BY DEF BookHolds, BookTypeOK
    <2> QED
      BY <1>a, <2>1, AcquireKeeps, Zenon
  <1>4. /\ DOMAIN memory' = DOMAIN memory \cup {slot}
        /\ memory'[slot].id = o.id /\ memory'[slot].quantity = o.quantity
        /\ \A s \in DOMAIN memory : memory'[s] = memory[s]
    <2>1. /\ DOMAIN memory' = DOMAIN memory \cup {slot}
          /\ memory'[slot] = Entry(o)
          /\ \A s \in DOMAIN memory \ {slot} : memory'[s] = memory[s]
      BY <1>r DEF RestedAs
    <2>2. Entry(o).id = o.id /\ Entry(o).quantity = o.quantity
      BY DEF Entry
    <2> QED
      BY <1>3, <2>1, <2>2, Zenon
  <1>5. /\ DOMAIN levels'[o.side] = DOMAIN levels[o.side] \cup {o.price}
        /\ levels'[o.side][o.price] = after
        /\ \A q \in DOMAIN levels[o.side] \ {o.price} : levels'[o.side][q] = levels[o.side][q]
        /\ \A s \in Side \ {o.side} : levels'[s] = levels[s]
    BY <1>a, <1>r, Zenon DEF RestedAs, LevelPut
  <1>6. /\ level \in Level
        /\ o.price \notin DOMAIN levels[o.side] => LivePlaces(level) = {}
        /\ o.price \in DOMAIN levels[o.side] => level = levels[o.side][o.price]
    BY <1>2, <1>a, LevelAtFacts
  <1>7. OneMore(level, slot, after)
    BY <1>3, <1>6, <1>a, PushedLevel
  <1>8. ASSUME NEW s \in Side, NEW p \in DOMAIN levels[s] PROVE IdsAgree(memory', memory, levels[s][p])
    BY <1>4, PlaceFacts DEF IdsAgree
  <1>9. IdsAgree(memory', memory, level)
    BY <1>2, <1>6, <1>8 DEF IdsAgree
  <1>10. IdsOf(memory', after) = Append(IdsOf(memory, level), o.id)
    <2>1. IdsOf(memory', after) = Append(IdsOf(memory, level), memory'[slot].id)
      BY <1>6, <1>7, <1>9, IdsPushed
    <2> QED
      BY <1>4, <2>1
  <1>11. ASSUME NEW s \in Side, NEW p \in DOMAIN levels[s], levels'[s][p] = levels[s][p]
         PROVE  IdsOf(memory', levels'[s][p]) = IdsOf(memory, levels[s][p])
    <2>1. levels[s][p] \in Level
      BY DEF BookHolds, BookTypeOK
    <2>2. IdsAgree(memory', memory, levels[s][p])
      BY <1>8
    <2> QED
      BY <1>11, <2>1, <2>2, SameIds
  <1>12. IdsBook(levels', memory')[o.side]
           = PushBack(IdsBook(levels, memory)[o.side], o.price, o.id)
    <2>1. \A q \in DOMAIN levels[o.side] \ {o.price} :
              IdsOf(memory', levels'[o.side][q]) = IdsOf(memory, levels[o.side][q])
      BY <1>2, <1>5, <1>11
    <2>2. o.price \in DOMAIN levels[o.side] =>
              IdsOf(memory', levels'[o.side][o.price])
                = Append(IdsOf(memory, levels[o.side][o.price]), o.id)
      BY <1>5, <1>6, <1>10, Zenon
    <2>3. o.price \notin DOMAIN levels[o.side] =>
              IdsOf(memory', levels'[o.side][o.price]) = <<o.id>>
      <3>1. o.price \notin DOMAIN levels[o.side] => IdsOf(memory, level) = <<>>
        BY <1>6, NoIds
      <3>2. Append(<<>>, o.id) = <<o.id>>
        OBVIOUS
      <3> QED
        BY <1>5, <1>10, <3>1, <3>2, Zenon
    <2>4. SidePushed(levels, memory, levels', memory', o.side, o.price, o.id)
      BY <1>5, <2>1, <2>2, <2>3, Zenon DEF SidePushed
    <2>5. PushedBack(levels, memory, levels', memory', o.side, o.price, o.id)
      BY <1>2, <2>4, IdsSidePushed, Zenon
    <2> QED
      BY <2>5, Zenon DEF PushedBack
  <1>13. \A t \in Side \ {o.side} : IdsBook(levels', memory')[t] = IdsBook(levels, memory)[t]
    <2> SUFFICES ASSUME NEW t \in Side \ {o.side}
                 PROVE  IdsBook(levels', memory')[t] = IdsBook(levels, memory)[t]
      OBVIOUS
    <2>1. levels'[t] = levels[t]
      BY <1>5
    <2>2. \A p \in DOMAIN levels[t] : IdsOf(memory', levels'[t][p]) = IdsOf(memory, levels[t][p])
      BY <1>11, <2>1
    <2> QED
      BY <2>1, <2>2, IdsSideSame
  <1>14. ReferenceBook'
           = [ReferenceBook EXCEPT ![o.side] = PushBack(ReferenceBook[o.side], o.price, o.id)]
    <2>1. PICK X : X = PushBack(IdsBook(levels, memory)[o.side], o.price, o.id)
      OBVIOUS
    <2>2. PICK side : side = o.side /\ side \in Side
      BY <1>2
    <2>3. OneSideNew(levels, memory, levels', memory', side, X)
      BY <1>12, <1>13, <2>1, <2>2 DEF OneSideNew
    <2>4. SideReplaced(levels, memory, levels', memory', side, X)
      BY <2>2, <2>3, IdsBookExcept, Zenon
    <2> QED
      BY <2>1, <2>2, <2>4, MappedBook, Zenon DEF SideReplaced
  <1>15. /\ DOMAIN refs' = DOMAIN refs \cup {o.id}
         /\ refs'[o.id] = RefTo(o.side, o.price, Len(level.orders) + 1)
         /\ \A id \in DOMAIN refs \ {o.id} : refs'[id] = refs[id]
    BY <1>r DEF RestedAs
  <1>16. ReferenceTable' =
            [id \in DOMAIN ReferenceTable \cup {o.id} |->
                IF id = o.id
                THEN [side |-> o.side, price |-> o.price, quantity |-> o.quantity]
                ELSE ReferenceTable[id]]
    <2>1. PICK at : at = [id \in DOMAIN refs' |-> IF id = o.id THEN slot ELSE SlotOf(id)]
      BY Zenon
    <2>2. \A id \in DOMAIN refs : SlotOf(id) \in DOMAIN memory /\ memory[SlotOf(id)].id = id
      BY DEF BookHolds, RefsLead
    <2>3. \A id \in DOMAIN refs' : at[id] \in DOMAIN memory' /\ memory'[at[id]].id = id
      BY <1>4, <1>15, <2>1, <2>2
    <2>4. ReferenceTable' = [id \in DOMAIN refs' |-> Located(refs'[id], memory'[at[id]].quantity)]
      BY <1>1, <2>3, MappedTableAfter
    <2>5. Located(refs'[o.id], memory'[at[o.id]].quantity)
            = [side |-> o.side, price |-> o.price, quantity |-> o.quantity]
      <3>1. refs'[o.id].side = o.side /\ refs'[o.id].price = o.price
        BY <1>15 DEF RefTo
      <3>2. memory'[at[o.id]].quantity = o.quantity
        BY <1>4, <1>15, <2>1
      <3> QED
        BY <3>1, <3>2, Zenon DEF Located
    <2>6. \A id \in DOMAIN refs : Located(refs'[id], memory'[at[id]].quantity)
                                    = Located(refs[id], memory[SlotOf(id)].quantity)
      BY <1>4, <1>15, <2>1, <2>2
    <2>7. /\ DOMAIN ReferenceTable = DOMAIN refs
          /\ \A id \in DOMAIN refs : ReferenceTable[id] = Located(refs[id], memory[SlotOf(id)].quantity)
      BY MappedTable
    <2>8. \A id \in DOMAIN refs' : Located(refs'[id], memory'[at[id]].quantity) =
                IF id = o.id
                THEN [side |-> o.side, price |-> o.price, quantity |-> o.quantity]
                ELSE ReferenceTable[id]
      BY <1>15, <2>5, <2>6, <2>7, Zenon
    <2>9. DOMAIN refs' = DOMAIN ReferenceTable \cup {o.id}
      BY <1>15, <2>7
    <2> QED
      BY <2>4, <2>8, <2>9, Zenon
  <1>17. \A x, y, z : Reference!PushBack(x, y, z) = PushBack(x, y, z)
    BY SameContainers
  <1> QED
    BY <1>14, <1>16, <1>17, Zenon DEF Reference!RestOrder

\* The ids of a level, each read at its rank.
ReadAt(mem, level, ids) ==
    /\ Len(ids) = Cardinality(LivePlaces(level))
    /\ \A k \in 1..Cardinality(LivePlaces(level)) :
          ids[k] = mem[level.orders[NthLive(level, k)]].id
    /\ \A i \in LivePlaces(level) : ids[Rank(level, i)] = mem[level.orders[i]].id

\* An id stands in its level where its place does.
LEMMA IdPosition ==
    ASSUME BookHolds, NEW side \in Side, NEW p \in DOMAIN levels[side],
           NEW i \in LivePlaces(levels[side][p]), NEW id, id = memory[levels[side][p].orders[i]].id
    PROVE  PositionOf(IdsOf(memory, levels[side][p]), id) = Rank(levels[side][p], i)
  <1>1. PICK level, ids : level = levels[side][p] /\ ids = IdsOf(memory, level)
    OBVIOUS
  <1>2. level \in Level /\ i \in LivePlaces(level)
    BY <1>1 DEF BookHolds, BookTypeOK
  <1>3. \A j \in LivePlaces(level) : memory[level.orders[j]].id = id => j = i
    <2>1. \A j \in LivePlaces(level) : refs[memory[level.orders[j]].id] = RefTo(side, p, j)
      BY <1>1, PlaceFacts, Zenon
    <2>2. \A j : RefTo(side, p, j).index = j
      BY DEF RefTo
    <2>3. refs[id].index = i
      BY <1>1, <1>2, <2>1, <2>2, Zenon
    <2> QED
      BY <2>1, <2>2, <2>3, Zenon
  <1>4. /\ Len(ids) = Cardinality(LivePlaces(level))
        /\ \A k \in 1..Len(ids) : ids[k] = memory[level.orders[NthLive(level, k)]].id
        /\ ids[Rank(level, i)] = memory[level.orders[i]].id
    <2>1. level \in Level
      BY <1>2
    <2>2. ReadAt(memory, level, IdsOf(memory, level))
      BY <2>1, IdsFacts, Zenon DEF ReadAt
    <2>3. ReadAt(memory, level, ids)
      BY <1>1, <2>2, Zenon
    <2> QED
      BY <1>2, <2>3, Zenon DEF ReadAt
  <1>5. \A k \in 1..Len(ids) : NthLive(level, k) \in LivePlaces(level) /\ Rank(level, NthLive(level, k)) = k
    BY <1>2, <1>4, NthFacts
  <1>6. Rank(level, i) \in 1..Len(ids) /\ ids[Rank(level, i)] = id
    BY <1>1, <1>2, <1>4, RankGrows
  <1>7. \A k \in 1..Len(ids) : ids[k] = id => k = Rank(level, i)
    BY <1>3, <1>4, <1>5, Zenon
  <1>8. PositionOf(ids, id) = Rank(level, i)
    BY <1>6, <1>7 DEF PositionOf
  <1> QED
    BY <1>1, <1>8, Zenon

\* A side that lost the order id of the level p.
SideErased(ls, mem, ls2, mem2, s, p, rest) ==
    /\ \A q \in DOMAIN ls[s] \ {p} : IdsOf(mem2, ls2[s][q]) = IdsOf(mem, ls[s][q])
    /\ rest = <<>> => DOMAIN ls2[s] = DOMAIN ls[s] \ {p}
    /\ rest # <<>> => DOMAIN ls2[s] = DOMAIN ls[s] /\ IdsOf(mem2, ls2[s][p]) = rest

ErasedFrom(ls, mem, ls2, mem2, s, p, id) ==
    IdsBook(ls2, mem2)[s] = EraseOrder(IdsBook(ls, mem)[s], p, id)

\* Such a side is the one EraseOrder makes.
LEMMA IdsSideErased ==
    ASSUME NEW ls, NEW mem, NEW ls2, NEW mem2, NEW s \in Side, NEW p \in DOMAIN ls[s], NEW id, NEW rest,
           rest = EraseAt(IdsOf(mem, ls[s][p]), PositionOf(IdsOf(mem, ls[s][p]), id)),
           SideErased(ls, mem, ls2, mem2, s, p, rest)
    PROVE  ErasedFrom(ls, mem, ls2, mem2, s, p, id)
  <1>1. PICK b, c : b = IdsBook(ls, mem)[s] /\ c = IdsBook(ls2, mem2)[s]
    OBVIOUS
  <1>2. /\ DOMAIN b = DOMAIN ls[s] /\ DOMAIN c = DOMAIN ls2[s]
        /\ \A q \in DOMAIN ls[s] : b[q] = IdsOf(mem, ls[s][q])
        /\ \A q \in DOMAIN ls2[s] : c[q] = IdsOf(mem2, ls2[s][q])
        /\ c = [q \in DOMAIN c |-> c[q]] /\ b = [q \in DOMAIN b |-> b[q]]
    BY <1>1 DEF IdsBook
  <1>3. rest = EraseAt(b[p], PositionOf(b[p], id))
    BY <1>2
  <1>4. EraseOrder(b, p, id) = IF rest = <<>> THEN EraseLevel(b, p) ELSE [b EXCEPT ![p] = rest]
    BY <1>3, Zenon DEF EraseOrder
  <1>5. CASE rest = <<>>
    <2>1. DOMAIN c = DOMAIN b \ {p} /\ \A q \in DOMAIN b \ {p} : c[q] = b[q]
      BY <1>2, <1>5 DEF SideErased
    <2>2. c = EraseLevel(b, p)
      BY <1>2, <2>1, Zenon DEF EraseLevel, Restrict
    <2> QED
      BY <1>1, <1>4, <1>5, <2>2, Zenon DEF ErasedFrom
  <1>6. CASE rest # <<>>
    <2>1. DOMAIN c = DOMAIN b /\ c[p] = rest /\ \A q \in DOMAIN b \ {p} : c[q] = b[q]
      BY <1>2, <1>6 DEF SideErased
    <2>2. c = [b EXCEPT ![p] = rest]
      BY <1>2, <2>1
    <2> QED
      BY <1>1, <1>4, <1>6, <2>2, Zenon DEF ErasedFrom
  <1> QED
    BY <1>5, <1>6

\* removeOrder() of the reference matcher is what the mapping makes of removeOrder().
LEMMA RemoveRefines ==
    ASSUME BookHolds, NEW id \in DOMAIN refs, NEW level \in Level, RemoveFrom(level, id),
           level.orders = levels[refs[id].side][refs[id].price].orders,
           level.liveCount = Cardinality(LivePlaces(level)),
           \A i \in 1..level.frontIndex - 1 : level.orders[i] = Null
    PROVE  Reference!RemoveOrder(id)
  <1>a. PICK side, price, index, slot, after :
            /\ side = refs[id].side /\ price = refs[id].price /\ index = refs[id].index
            /\ slot = level.orders[refs[id].index]
            /\ after = Tombstoned(level, refs[id].index)
    OBVIOUS
  <1>r. RemovedFrom(level, id, side, price, index, slot, after)
    <2>1. RemovedFrom(level, id, refs[id].side, refs[id].price, refs[id].index,
                      level.orders[refs[id].index], Tombstoned(level, refs[id].index))
      BY RemoveFacts
    <2> QED
      BY <1>a, <2>1, Zenon
  <1>1. BookHolds'
    BY RemoveKeeps
  <1>2. /\ side \in Side /\ price \in DOMAIN levels[side]
        /\ index \in LivePlaces(level)
        /\ slot \in DOMAIN memory /\ memory[slot].id = id
        /\ level.orders = levels[side][price].orders
    BY <1>a, <1>r DEF RemovedFrom
  <1>3. /\ DOMAIN memory' = DOMAIN memory \ {slot}
        /\ \A s \in DOMAIN memory \ {slot} : memory'[s] = memory[s]
        /\ DOMAIN refs' = DOMAIN refs \ {id}
        /\ \A i \in DOMAIN refs \ {id} : refs'[i] = refs[i]
    BY <1>r DEF RemovedFrom
  <1>4. /\ \A s \in Side \ {side} : levels'[s] = levels[s]
        /\ \A q \in DOMAIN levels[side] \ {price} : levels'[side][q] = levels[side][q]
        /\ after.liveCount = 0 => DOMAIN levels'[side] = DOMAIN levels[side] \ {price}
        /\ after.liveCount # 0 => DOMAIN levels'[side] = DOMAIN levels[side]
                                  /\ levels'[side][price] = after
    BY <1>r DEF RemovedFrom
  <1>5. OneLess(level, index, after)
    <2>1. OneLess(level, index, Tombstoned(level, index))
      BY <1>2, TombstonedLevel
    <2> QED
      BY <1>a, <2>1, Zenon
  <1>6. PICK old : old = levels[side][price]
    OBVIOUS
  <1>7. old \in Level /\ old.orders = level.orders
    BY <1>2, <1>6 DEF BookHolds, BookTypeOK
  <1>8. LivePlaces(old) = LivePlaces(level)
    BY <1>7, Zenon DEF LivePlaces
  <1>9. ASSUME NEW s \in Side, NEW q \in DOMAIN levels[s], NEW j \in LivePlaces(levels[s][q]),
               ~(s = side /\ q = price /\ j = index)
        PROVE  memory'[levels[s][q].orders[j]] = memory[levels[s][q].orders[j]]
    <2>1. PICK at : at = levels[s][q].orders[j]
      OBVIOUS
    <2>2. at \in DOMAIN memory /\ refs[memory[at].id] = RefTo(s, q, j)
      BY <2>1, PlaceFacts, Zenon
    <2>3. RefTo(s, q, j).side = s /\ RefTo(s, q, j).price = q /\ RefTo(s, q, j).index = j
      BY DEF RefTo
    <2>4. at # slot
      BY <1>2, <1>9, <1>a, <2>2, <2>3, Zenon
    <2>5. memory'[at] = memory[at]
      BY <1>3, <2>2, <2>4
    <2> QED
      BY <2>1, <2>5, Zenon
  <1>10. PICK ids, rest : ids = IdsOf(memory, old) /\ rest = IdsOf(memory', after)
    OBVIOUS
  <1>11. rest = EraseAt(ids, PositionOf(ids, id))
    <2>1. IdsAgreeBut(memory', memory, level, index)
      BY <1>2, <1>6, <1>7, <1>8, <1>9 DEF IdsAgreeBut
    <2>2. rest = EraseAt(IdsOf(memory, level), Rank(level, index))
      BY <1>2, <1>5, <1>10, <2>1, IdsErased
    <2>3. IdsOf(memory, level) = ids
      BY <1>7, <1>10, SameIds DEF IdsAgree
    <2>4. Rank(level, index) = Rank(old, index)
      BY <1>8 DEF Rank
    <2>5. PositionOf(ids, id) = Rank(old, index)
      <3>1. index \in LivePlaces(levels[side][price]) /\ id = memory[levels[side][price].orders[index]].id
        BY <1>2, <1>6, <1>8, <1>a, Zenon
      <3>2. PositionOf(IdsOf(memory, levels[side][price]), id) = Rank(levels[side][price], index)
        BY <1>2, <3>1, IdPosition, Zenon
      <3> QED
        BY <1>6, <1>10, <3>2, Zenon
    <2> QED
      BY <2>2, <2>3, <2>4, <2>5, Zenon
  <1>12. rest = <<>> <=> after.liveCount = 0
    <2>1. after \in Level /\ after.liveCount = Cardinality(LivePlaces(after))
      BY <1>5, Zenon DEF OneLess
    <2>2. Len(rest) = after.liveCount /\ rest \in Seq(IdsIn(memory', after))
      BY <1>10, <2>1, IdsFacts, IdsType
    <2> QED
      BY <2>2
  <1>13. ASSUME NEW s \in Side, NEW q \in DOMAIN levels[s], ~(s = side /\ q = price),
                levels'[s][q] = levels[s][q]
         PROVE  IdsOf(memory', levels'[s][q]) = IdsOf(memory, levels[s][q])
    <2>1. levels[s][q] \in Level
      BY DEF BookHolds, BookTypeOK
    <2>2. IdsAgree(memory', memory, levels[s][q])
      BY <1>9, <1>13, Zenon DEF IdsAgree
    <2> QED
      BY <1>13, <2>1, <2>2, SameIds
  <1>14. ErasedFrom(levels, memory, levels', memory', side, price, id)
    <2>1. \A q \in DOMAIN levels[side] \ {price} :
              IdsOf(memory', levels'[side][q]) = IdsOf(memory, levels[side][q])
      BY <1>2, <1>4, <1>13
    <2>2. SideErased(levels, memory, levels', memory', side, price, rest)
      BY <1>4, <1>10, <1>12, <2>1, Zenon DEF SideErased
    <2>3. rest = EraseAt(IdsOf(memory, levels[side][price]),
                         PositionOf(IdsOf(memory, levels[side][price]), id))
      BY <1>6, <1>10, <1>11, Zenon
    <2> QED
      BY <1>2, <2>2, <2>3, IdsSideErased, Zenon
  <1>15. \A t \in Side \ {side} : IdsBook(levels', memory')[t] = IdsBook(levels, memory)[t]
    <2> SUFFICES ASSUME NEW t \in Side \ {side}
                 PROVE  IdsBook(levels', memory')[t] = IdsBook(levels, memory)[t]
      OBVIOUS
    <2>1. levels'[t] = levels[t]
      BY <1>4
    <2>2. \A p \in DOMAIN levels[t] : IdsOf(memory', levels'[t][p]) = IdsOf(memory, levels[t][p])
      BY <1>13, <2>1
    <2> QED
      BY <2>1, <2>2, IdsSideSame
  <1>16. ReferenceBook' = [ReferenceBook EXCEPT ![side] = EraseOrder(ReferenceBook[side], price, id)]
    <2>1. PICK X : X = EraseOrder(IdsBook(levels, memory)[side], price, id)
      OBVIOUS
    <2>2. OneSideNew(levels, memory, levels', memory', side, X)
      BY <1>14, <1>15, <2>1, Zenon DEF OneSideNew, ErasedFrom
    <2>3. SideReplaced(levels, memory, levels', memory', side, X)
      BY <1>2, <2>2, IdsBookExcept, Zenon
    <2> QED
      BY <2>1, <2>3, MappedBook, Zenon DEF SideReplaced
  <1>17. /\ DOMAIN ReferenceTable = DOMAIN refs
         /\ \A i \in DOMAIN refs : ReferenceTable[i] = Located(refs[i], memory[SlotOf(i)].quantity)
    BY MappedTable
  <1>18. ReferenceTable' = Restrict(ReferenceTable, DOMAIN ReferenceTable \ {id})
    <2>1. PICK at : at = [i \in DOMAIN refs' |-> SlotOf(i)]
      BY Zenon
    <2>2. \A i \in DOMAIN refs : SlotOf(i) \in DOMAIN memory /\ memory[SlotOf(i)].id = i
      BY DEF BookHolds, RefsLead
    <2>3. \A i \in DOMAIN refs' : /\ at[i] \in DOMAIN memory' /\ memory'[at[i]].id = i
                                  /\ memory'[at[i]] = memory[SlotOf(i)]
      BY <1>2, <1>3, <2>1, <2>2
    <2>4. ReferenceTable' = [i \in DOMAIN refs' |-> Located(refs'[i], memory'[at[i]].quantity)]
      BY <1>1, <2>3, MappedTableAfter
    <2>5. \A i \in DOMAIN refs' : Located(refs'[i], memory'[at[i]].quantity) = ReferenceTable[i]
      BY <1>3, <1>17, <2>3
    <2> QED
      BY <1>3, <1>17, <2>4, <2>5, Zenon DEF Restrict
  <1>19. ReferenceTable[id].side = side /\ ReferenceTable[id].price = price
    <2>1. PICK n : ReferenceTable[id] = Located(refs[id], n)
      BY <1>17, Zenon
    <2>2. \A ref, q : Located(ref, q).side = ref.side /\ Located(ref, q).price = ref.price
      BY DEF Located
    <2> QED
      BY <1>a, <2>1, <2>2, Zenon
  <1>20. \A x, y, z : /\ Reference!EraseOrder(x, y, z) = EraseOrder(x, y, z)
                      /\ Reference!Restrict(x, y) = Restrict(x, y)
    BY SameContainers
  <1> QED
    BY <1>16, <1>18, <1>19, <1>20, Zenon DEF Reference!RemoveOrder

\* A partial fill, and what the mapping makes of it.
PartlyFilled(side, price, level, slot, traded) ==
    /\ memory' = [memory EXCEPT ![slot].quantity = @ - traded]
    /\ levels' = PutLevel(side, price, level)
    /\ refs' = refs /\ pool' = pool

QuantityTaken(id, traded) ==
    /\ ReferenceBook' = ReferenceBook
    /\ ReferenceTable' = [ReferenceTable EXCEPT ![id].quantity = @ - traded]

\* A partly filled order stays in its level, and only its quantity changes in the table.
LEMMA PartialRefines ==
    ASSUME BookHolds, NEW side, NEW price, NEW level, NEW slot, NEW resting, NEW traded \in Nat,
           FrontAt(side, price, level, slot, resting), traded < resting.quantity,
           PartlyFilled(side, price, level, slot, traded)
    PROVE  QuantityTaken(resting.id, traded)
  <1>p. /\ memory' = [memory EXCEPT ![slot].quantity = @ - traded]
        /\ levels' = PutLevel(side, price, level)
        /\ refs' = refs /\ pool' = pool
    BY Zenon DEF PartlyFilled
  <1>1. BookHolds'
    BY <1>p, PartialFillKeeps, Zenon
  <1>2. /\ side \in Side /\ price \in DOMAIN levels[side]
        /\ FrontSkipped(levels[side][price], level)
        /\ slot \in DOMAIN memory /\ resting = memory[slot] /\ resting \in Stored
        /\ resting.id \in DOMAIN refs /\ SlotOf(resting.id) = slot
    BY DEF FrontAt
  <1>3. level \in Level /\ level.orders = levels[side][price].orders
    BY <1>2 DEF FrontSkipped
  <1>4. /\ DOMAIN memory' = DOMAIN memory
        /\ \A s \in DOMAIN memory : memory'[s].id = memory[s].id
        /\ \A s \in DOMAIN memory \ {slot} : memory'[s] = memory[s]
        /\ memory'[slot].quantity = resting.quantity - traded
    <2>1. memory[slot] \in Stored
      BY <1>2
    <2> QED
      BY <1>2, <1>p, <2>1 DEF Stored
  <1>5. LevelPut(levels', side, price, level)
    BY <1>2, <1>p, PutLevelFacts DEF BookHolds, BookTypeOK
  <1>6. /\ DOMAIN levels'[side] = DOMAIN levels[side]
        /\ levels'[side][price] = level
        /\ \A q \in DOMAIN levels[side] \ {price} : levels'[side][q] = levels[side][q]
        /\ \A s \in Side \ {side} : levels'[s] = levels[s]
    BY <1>2, <1>5 DEF LevelPut
  <1>7. ASSUME NEW s \in Side, NEW q \in DOMAIN levels[s]
        PROVE  IdsOf(memory', levels'[s][q]) = IdsOf(memory, levels[s][q])
    <2>1. levels[s][q] \in Level
      BY DEF BookHolds, BookTypeOK
    <2>2. IdsAgree(memory', memory, levels[s][q])
      BY <1>4, PlaceFacts, Zenon DEF IdsAgree
    <2>3. levels'[s][q] \in Level /\ levels'[s][q].orders = levels[s][q].orders
      BY <1>3, <1>6, <2>1
    <2> QED
      BY <2>1, <2>2, <2>3, SameIds
  <1>8. \A s \in Side : DOMAIN levels'[s] = DOMAIN levels[s]
    BY <1>6
  <1>9. ReferenceBook' = ReferenceBook
    BY <1>7, <1>8, MappedBook DEF IdsBook
  <1>10. /\ DOMAIN ReferenceTable = DOMAIN refs
         /\ \A i \in DOMAIN refs : ReferenceTable[i] = Located(refs[i], memory[SlotOf(i)].quantity)
    BY MappedTable
  <1>11. \A i \in DOMAIN refs : SlotOf(i) \in DOMAIN memory /\ memory[SlotOf(i)].id = i
    BY DEF BookHolds, RefsLead
  <1>12. ReferenceTable' = [i \in DOMAIN refs |-> Located(refs[i], memory'[SlotOf(i)].quantity)]
    <2>1. PICK at : at = [i \in DOMAIN refs |-> SlotOf(i)]
      BY Zenon
    <2>2. \A i \in DOMAIN refs' : at[i] \in DOMAIN memory' /\ memory'[at[i]].id = i
      BY <1>4, <1>11, <1>p, <2>1
    <2>3. ReferenceTable' = [i \in DOMAIN refs' |-> Located(refs'[i], memory'[at[i]].quantity)]
      BY <1>1, <2>2, MappedTableAfter
    <2> QED
      BY <1>p, <2>1, <2>3
  <1>13. \A i \in DOMAIN refs : i # resting.id =>
            Located(refs[i], memory'[SlotOf(i)].quantity) = ReferenceTable[i]
    <2>1. \A i \in DOMAIN refs : i # resting.id => SlotOf(i) \in DOMAIN memory \ {slot}
      BY <1>2, <1>11
    <2> QED
      BY <1>4, <1>10, <2>1, Zenon
  <1>14. Located(refs[resting.id], memory'[SlotOf(resting.id)].quantity)
           = [ReferenceTable[resting.id] EXCEPT !.quantity = @ - traded]
    BY <1>2, <1>4, <1>10 DEF Located
  <1>15. ReferenceTable' = [ReferenceTable EXCEPT ![resting.id] =
                                [ReferenceTable[resting.id] EXCEPT !.quantity = @ - traded]]
    <2>1. PICK D, t, u, x, y : /\ D = DOMAIN refs /\ t = ReferenceTable /\ u = ReferenceTable'
                               /\ x = resting.id
                               /\ y = [ReferenceTable[resting.id] EXCEPT !.quantity = @ - traded]
      BY Zenon
    <2>2. t = [i \in D |-> t[i]]
      BY <2>1, MappedTable
    <2>3. DOMAIN u = D /\ u = [i \in D |-> u[i]]
      BY <1>12, <2>1
    <2>4. u[x] = y
      BY <1>2, <1>12, <1>14, <2>1, Zenon
    <2>5. \A i \in D : i # x => u[i] = t[i]
      BY <1>12, <1>13, <2>1, Zenon
    <2>6. u = [t EXCEPT ![x] = y]
      BY <2>2, <2>3, <2>4, <2>5
    <2> QED
      BY <2>1, <2>6, Zenon
  <1> QED
    BY <1>9, <1>15, Zenon DEF QuantityTaken

\* Both matchers see the same best price, and leave their loop for the same reason.
LEMMA SameCrossing ==
    ASSUME BookHolds, incoming \in Incoming
    PROVE  /\ Crossing <=> Reference!Crossing
           /\ Crossing => Reference!BestPrice(Opposite(incoming.side))
                            = Best(Opposite(incoming.side), levels[Opposite(incoming.side)])
  <1>1. PICK side : side = Opposite(incoming.side)
    OBVIOUS
  <1>2. side \in Side
    BY <1>1 DEF Incoming, Opposite, Side
  <1>3. DOMAIN ReferenceBook[side] = DOMAIN levels[side]
    BY <1>2, MappedBook, IdsBookFacts
  <1>4. Best(side, ReferenceBook[side]) = Best(side, levels[side])
    BY <1>3, Zenon DEF Best
  <1>5. DOMAIN levels[side] # {} => Reference!BestPrice(side) = Best(side, levels[side])
    <2>1. Reference!Best(side, ReferenceBook[side]) = Best(side, ReferenceBook[side])
      BY SameOrder, Zenon
    <2> QED
      BY <1>3, <1>4, <2>1, Zenon DEF Reference!BestPrice
  <1>6. Crossing <=> /\ incoming.quantity > 0
                     /\ DOMAIN levels[side] # {}
                     /\ Reaches(incoming.side, incoming.price, Best(side, levels[side]))
    BY <1>1, Zenon DEF Crossing
  <1>7. Reference!Opposite(incoming.side) = side
    BY <1>1, SameOrder, Zenon
  <1>8. Reference!Crossing <=> /\ incoming.quantity > 0
                               /\ Reaches(incoming.side, incoming.price, Reference!BestPrice(side))
                               /\ DOMAIN levels[side] # {}
    <2>1. Reference!Reaches(incoming.side, incoming.price, Reference!BestPrice(side))
            <=> Reaches(incoming.side, incoming.price, Reference!BestPrice(side))
      BY SameOrder, Zenon
    <2> QED
      BY <1>3, <1>7, <2>1, Zenon DEF Reference!Crossing
  <1> QED
    BY <1>1, <1>5, <1>6, <1>8, Zenon

\* One iteration of cross() trades with the order the reference matcher trades with.
LEMMA CrossRefines ==
    ASSUME BookHolds, incoming \in Incoming, CrossStep
    PROVE  Reference!CrossStep
  <1>1. PICK side, price, level, slot, resting, traded :
              /\ FrontAt(side, price, level, slot, resting)
              /\ traded = MinOf(incoming.quantity, resting.quantity)
              /\ TradedWith(side, price, level, slot, resting, traded)
    BY CrossFacts
  <1>f. FrontAt(side, price, level, slot, resting)
    BY <1>1, Zenon
  <1>t. TradedWith(side, price, level, slot, resting, traded)
    BY <1>1, Zenon
  <1>m. traded = MinOf(incoming.quantity, resting.quantity)
    BY <1>1, Zenon
  <1>2. mpc = "cross" /\ mpc' = mpc /\ Crossing
    BY Zenon DEF CrossStep
  <1>3. /\ side = Opposite(incoming.side) /\ side \in Side
        /\ price = Best(side, levels[side]) /\ price \in DOMAIN levels[side]
    BY <1>f, Zenon DEF FrontAt
  <1>4. levels[side][price] \in Level /\ FrontSkipped(levels[side][price], level)
    BY <1>f, Zenon DEF FrontAt
  <1>5. slot = level.orders[level.frontIndex] /\ resting = memory[slot] /\ SlotOf(resting.id) = slot
    BY <1>f, Zenon DEF FrontAt
  <1>6. resting \in Stored /\ resting.id \in DOMAIN refs /\ resting.price = price
        /\ refs[resting.id] = RefTo(side, price, level.frontIndex)
    BY <1>f, Zenon DEF FrontAt
  <1>7. PICK id : id = resting.id
    BY Zenon
  <1>8. ReferenceTable[id].quantity = resting.quantity
    <2>1. ReferenceTable[id] = Located(refs[id], memory[SlotOf(id)].quantity)
      BY <1>6, <1>7, MappedTable
    <2>2. memory[SlotOf(id)].quantity = resting.quantity
      BY <1>5, <1>7, Zenon
    <2> QED
      BY <2>1, <2>2 DEF Located
  <1>9. Head(ReferenceBook[side][price]) = id
    <2>1. /\ level.frontIndex \in LivePlaces(levels[side][price])
          /\ \A j \in LivePlaces(levels[side][price]) : level.frontIndex <= j
      BY <1>4, Zenon DEF FrontSkipped
    <2>2. level.orders = levels[side][price].orders
      BY <1>4, Zenon DEF FrontSkipped
    <2>3. Head(IdsOf(memory, levels[side][price]))
            = memory[levels[side][price].orders[level.frontIndex]].id
      BY <1>4, <2>1, FrontIsHead
    <2>4. ReferenceBook[side][price] = IdsOf(memory, levels[side][price])
      <3>1. IdsBook(levels, memory)[side][price] = IdsOf(memory, levels[side][price])
        BY <1>3 DEF IdsBook
      <3> QED
        BY <3>1, MappedBook, Zenon
    <2>5. memory[levels[side][price].orders[level.frontIndex]].id = id
      BY <1>5, <1>7, <2>2, Zenon
    <2> QED
      BY <2>3, <2>4, <2>5, Zenon
  <1>10. incoming.quantity \in Nat /\ incoming.quantity > 0 /\ resting.quantity \in Nat
         /\ resting.quantity > 0
    <2>1. incoming.quantity \in 0..MaxQuantity /\ incoming.quantity > 0
      BY <1>2 DEF Incoming, Crossing
    <2>2. resting.quantity \in 1..MaxQuantity
      BY <1>6 DEF Stored
    <2> QED
      BY <2>1, <2>2, LimitsAssumption
  <1>11. traded \in Nat /\ (traded # resting.quantity => traded < resting.quantity)
    BY <1>10, <1>m, TradedFacts
  <1>12. trades' = Append(trades, [incoming |-> incoming.id, resting |-> id,
                                   price |-> price, quantity |-> traded])
    BY <1>6, <1>7, <1>t, Zenon DEF TradedWith
  <1>13. incoming' = [incoming EXCEPT !.quantity = @ - traded]
    BY <1>t, Zenon DEF TradedWith
  <1>14. resting.quantity = traded => Reference!RemoveOrder(id)
    <2> SUFFICES ASSUME resting.quantity = traded PROVE Reference!RemoveOrder(resting.id)
      BY <1>7, Zenon
    <2>1. RemoveFrom(level, resting.id)
      BY <1>t, Zenon DEF TradedWith
    <2>2. level \in Level /\ level.orders = levels[side][price].orders /\ CountsTheLiving(level)
      BY <1>4, Zenon DEF FrontSkipped
    <2>3. refs[resting.id].side = side /\ refs[resting.id].price = price
      BY <1>6 DEF RefTo
    <2>4. /\ level.liveCount = Cardinality(LivePlaces(level))
          /\ \A i \in 1..level.frontIndex - 1 : level.orders[i] = Null
      BY <2>2, Zenon DEF CountsTheLiving
    <2>5. level.orders = levels[refs[resting.id].side][refs[resting.id].price].orders
      BY <2>2, <2>3, Zenon
    <2> QED
      BY <1>6, <2>1, <2>2, <2>4, <2>5, RemoveRefines, Zenon
  <1>15. resting.quantity # traded => QuantityTaken(id, traded)
    <2> SUFFICES ASSUME resting.quantity # traded PROVE QuantityTaken(resting.id, traded)
      BY <1>7, Zenon
    <2>1. PartlyFilled(side, price, level, slot, traded)
      BY <1>t, Zenon DEF TradedWith, PartlyFilled
    <2> QED
      BY <1>11, <1>f, <2>1, PartialRefines, Zenon
  <1>16. Reference!TradeWith(id, price)
    <2>1. Reference!MinOf(incoming.quantity, resting.quantity) = traded
      BY <1>m, SameOrder, Zenon
    <2>2. Reference!MinOf(incoming.quantity, ReferenceTable[id].quantity) = traded
      BY <1>8, <2>1, Zenon
    <2> QED
      BY <1>8, <1>12, <1>13, <1>14, <1>15, <2>2, Zenon DEF Reference!TradeWith, QuantityTaken
  <1>17. Reference!Crossing /\ Reference!BestPrice(side) = price /\ Reference!Opposite(incoming.side) = side
    <2>1. Reference!Opposite(incoming.side) = Opposite(incoming.side)
      BY SameOrder, Zenon
    <2> QED
      BY <1>2, <1>3, <2>1, SameCrossing, Zenon
  <1> QED
    BY <1>2, <1>9, <1>16, <1>17, Zenon DEF Reference!CrossStep

\* The mapping depends on nothing but the book.
LEMMA SameMapping ==
    ASSUME UNCHANGED <<levels, refs, pool, memory>>
    PROVE  ReferenceBook' = ReferenceBook /\ ReferenceTable' = ReferenceTable
  BY Zenon DEF ReferenceBook, ReferenceTable, SlotOf

\* The end of addOrder() and matchOrder().
LEMMA FinishRefines ==
    ASSUME BookHolds, incoming \in Incoming, incoming.id \notin DOMAIN refs, FinishMatch
    PROVE  Reference!FinishMatch
  <1>1. /\ mpc = "cross" /\ ~Crossing /\ mpc' = "idle" /\ incoming' = NoOrder /\ trades' = trades
    BY Zenon DEF FinishMatch
  <1>2. ~Reference!Crossing
    BY <1>1, SameCrossing, Zenon
  <1>3. incoming.quantity > 0 => Reference!RestOrder(incoming)
    <2> SUFFICES ASSUME incoming.quantity > 0 PROVE Reference!RestOrder(incoming)
      OBVIOUS
    <2>1. RestOrder(incoming)
      BY Zenon DEF FinishMatch
    <2>2. PICK o : o = incoming
      BY Zenon
    <2>3. o \in Incoming /\ o.quantity > 0 /\ o.id \notin DOMAIN refs /\ RestOrder(o)
      BY <2>1, <2>2, Zenon
    <2>4. Reference!RestOrder(o)
      BY <2>3, RestRefines, Zenon
    <2> QED
      BY <2>2, <2>4, Zenon
  <1>4. ~(incoming.quantity > 0) => ReferenceBook' = ReferenceBook /\ ReferenceTable' = ReferenceTable
    <2>1. ~(incoming.quantity > 0) => UNCHANGED <<levels, refs, pool, memory>>
      BY Zenon DEF FinishMatch
    <2> QED
      BY <2>1, SameMapping, Zenon
  <1> QED
    BY <1>1, <1>2, <1>3, <1>4, Zenon DEF Reference!FinishMatch

\* cancelOrder().
LEMMA CancelRefines ==
    ASSUME BookHolds, NEW id, CancelOrder(id)
    PROVE  Reference!CancelOrder(id)
  <1>1. mpc = "idle" /\ UNCHANGED <<mpc, incoming, trades>>
    BY Zenon DEF CancelOrder
  <1>2. DOMAIN ReferenceTable = DOMAIN refs
    BY MappedTable
  <1>3. id \in DOMAIN refs => Reference!RemoveOrder(id)
    <2> SUFFICES ASSUME id \in DOMAIN refs PROVE Reference!RemoveOrder(id)
      OBVIOUS
    <2>1. PICK level : level = levels[refs[id].side][refs[id].price]
      BY Zenon
    <2>2. RemoveFrom(level, id)
      BY <2>1, Zenon DEF CancelOrder
    <2>3. refs[id].side \in Side /\ refs[id].price \in DOMAIN levels[refs[id].side]
      BY DEF BookHolds, BookTypeOK, RefsLead, OrderRef
    <2>4. level \in Level
      BY <2>1, <2>3 DEF BookHolds, BookTypeOK
    <2>5. CountsTheLiving(level)
      BY <2>1, <2>3, CountsEverywhere DEF BookHolds
    <2>6. /\ level.liveCount = Cardinality(LivePlaces(level))
          /\ \A i \in 1..level.frontIndex - 1 : level.orders[i] = Null
      BY <2>5, Zenon DEF CountsTheLiving
    <2>7. level.orders = levels[refs[id].side][refs[id].price].orders
      BY <2>1, Zenon
    <2> QED
      BY <2>2, <2>4, <2>6, <2>7, RemoveRefines
  <1>4. id \notin DOMAIN refs => ReferenceBook' = ReferenceBook /\ ReferenceTable' = ReferenceTable
    <2>1. id \notin DOMAIN refs => UNCHANGED <<levels, refs, pool, memory>>
      BY Zenon DEF CancelOrder
    <2> QED
      BY <2>1, SameMapping, Zenon
  <1> QED
    BY <1>1, <1>2, <1>3, <1>4, Zenon DEF Reference!CancelOrder, Reference!CancelResting

\* The empty book is mapped to the empty book.
LEMMA InitRefines == Init => Reference!MatcherInit
  <1> SUFFICES ASSUME Init PROVE Reference!MatcherInit
    OBVIOUS
  <1>1. levels = [side \in Side |-> NoLevels] /\ refs = [id \in {} |-> NoOrder]
    BY DEF Init
  <1>2. \A side \in Side : [p \in DOMAIN levels[side] |-> IdsOf(memory, levels[side][p])] = NoLevels
    BY <1>1 DEF NoLevels
  <1>3. ReferenceBook = [side \in Side |-> NoLevels]
    BY <1>2, Zenon DEF ReferenceBook
  <1>4. ReferenceTable = [id \in {} |-> NoOrder]
    BY <1>1 DEF ReferenceTable
  <1>5. Reference!NoLevels = NoLevels /\ Reference!Side = Side
    BY SameSets, SameContainers, Zenon
  <1> QED
    BY <1>3, <1>4, <1>5, Zenon DEF Init, Reference!MatcherInit

\* Every step is a step of the reference matcher, or changes nothing it has.
LEMMA NextRefines ==
    OptimizedInv /\ [Next]_optimizedVars => [Reference!MatcherNext]_(Reference!matcherVars)
  <1> SUFFICES ASSUME OptimizedInv, [Next]_optimizedVars
               PROVE  Reference!MatcherNext \/ UNCHANGED Reference!matcherVars
    BY Zenon
  <1>1. /\ BookHolds
        /\ mpc = "cross" => incoming \in Incoming /\ incoming.id \notin DOMAIN refs
    BY Zenon DEF OptimizedInv
  <1>2. ASSUME NEW order \in Incoming, MatchOrder(order) PROVE Reference!MatcherNext
    <2>1. /\ UNCHANGED <<levels, refs, pool, memory>> /\ order.id \notin DOMAIN refs
          /\ mpc = "idle" /\ mpc' = "cross" /\ incoming' = order /\ trades' = <<>>
      BY <1>2, Zenon DEF MatchOrder
    <2>2. ReferenceBook' = ReferenceBook /\ ReferenceTable' = ReferenceTable
      BY <2>1, SameMapping, Zenon
    <2>3. DOMAIN ReferenceTable = DOMAIN refs
      BY MappedTable
    <2>4. Reference!MatchOrder(order)
      BY <2>1, <2>2, <2>3, Zenon DEF Reference!MatchOrder, Reference!BeginMatch
    <2>5. order \in Reference!Incoming
      BY SameSets, Zenon
    <2> QED
      BY <2>4, <2>5, Zenon DEF Reference!MatcherNext
  <1>3. CASE CrossStep
    <2>1. mpc = "cross"
      BY <1>3, Zenon DEF CrossStep
    <2>2. Reference!CrossStep
      BY <1>1, <1>3, <2>1, CrossRefines, Zenon
    <2> QED
      BY <2>2, Zenon DEF Reference!MatcherNext
  <1>4. CASE FinishMatch
    <2>1. mpc = "cross"
      BY <1>4, Zenon DEF FinishMatch
    <2>2. Reference!FinishMatch
      BY <1>1, <1>4, <2>1, FinishRefines, Zenon
    <2> QED
      BY <2>2, Zenon DEF Reference!MatcherNext
  <1>5. ASSUME NEW id \in OrderId, CancelOrder(id) PROVE Reference!MatcherNext
    <2>1. Reference!CancelOrder(id)
      BY <1>1, <1>5, CancelRefines, Zenon
    <2> QED
      BY <2>1, Zenon DEF Reference!MatcherNext
  <1>6. CASE UNCHANGED optimizedVars
    <2>1. UNCHANGED <<levels, refs, pool, memory>> /\ UNCHANGED <<mpc, incoming, trades>>
      BY <1>6, Zenon DEF optimizedVars
    <2>2. ReferenceBook' = ReferenceBook /\ ReferenceTable' = ReferenceTable
      BY <2>1, SameMapping, Zenon
    <2> QED
      BY <2>1, <2>2, Zenon DEF Reference!matcherVars
  <1> QED
    BY <1>2, <1>3, <1>4, <1>5, <1>6, Zenon DEF Next

\* OptimizedMatcher is the drop-in its header promises: whatever is added, matched and
\* cancelled, its trades are the reference matcher's, with the same orders, at the same
\* prices and in the same sequence, and it leaves the same book behind.
THEOREM OptimizedRefinesReference == Spec => ImplementsReferenceMatcher
  BY OptimizedInvariance, InitRefines, NextRefines, PTL
     DEF Spec, ImplementsReferenceMatcher, Reference!MatcherSpec
=============================================================================
