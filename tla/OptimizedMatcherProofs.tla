------------------------ MODULE OptimizedMatcherProofs ------------------------
(***************************************************************************)
(* The matcher with pooled orders and tombstoned levels keeps its table,   *)
(* its levels, its stored orders and its pool in step, for any ids, prices *)
(* and quantities and however long a level lives.                          *)
(***************************************************************************)
EXTENDS OptimizedMatcher, FiniteSetTheorems, WellFoundedInduction, TLAPS

\* A set of natural numbers that is not empty has a least element.
LEMMA LeastExists ==
    ASSUME NEW S \in SUBSET Nat, S # {}
    PROVE  \E x \in S : \A y \in S : x <= y
  <1> DEFINE LT == {pair \in Nat \X Nat : pair[1] < pair[2]}
  <1>1. LT = OpToRel(<, Nat)
    BY Zenon DEF OpToRel
  <1>2. IsWellFoundedOn(LT, Nat)
    BY NatLessThanWellFounded, <1>1, Zenon
  <1>3. PICK x \in S : \A y \in S : ~(<<y, x>> \in LT)
    <2> HIDE DEF LT
    <2> QED
      BY <1>2, WFMin, Zenon
  <1>4. \A y \in S : ~(y < x)
    BY <1>3, Zenon
  <1> QED
    BY <1>4

\* A bounded one that is not empty has a greatest element.
LEMMA GreatestExists ==
    ASSUME NEW n \in Nat, NEW S \in SUBSET (0..n), S # {}
    PROVE  \E x \in S : \A y \in S : x >= y
  <1> DEFINE T == {n - x : x \in S}
  <1>1. T \in SUBSET Nat
    OBVIOUS
  <1>2. T # {}
    BY Zenon
  <1>3. PICK t \in T : \A y \in T : t <= y
    <2> HIDE DEF T
    <2> QED
      BY <1>1, <1>2, LeastExists
  <1>4. PICK m \in S : t = n - m
    OBVIOUS
  <1>5. \A y \in S : n - m <= n - y
    BY <1>3, <1>4
  <1> QED
    BY <1>4, <1>5

\* The best price of a side is the price of a level, and no level is better.
LEMMA BestFacts ==
    ASSUME NEW n \in Nat, NEW map, DOMAIN map \in SUBSET (0..n), DOMAIN map # {},
           NEW side \in Side
    PROVE  /\ Best(side, map) \in DOMAIN map
           /\ \A p \in DOMAIN map : Reaches(side, Best(side, map), p)
  <1> DEFINE D == DOMAIN map
  <1>1. D \in SUBSET (0..n) /\ D # {}
    OBVIOUS
  <1>2. D \in SUBSET Nat
    OBVIOUS
  <1> HIDE DEF D
  <1>3. Max(D) \in D /\ \A p \in D : Max(D) >= p
    BY <1>1, GreatestExists, Zenon DEF Max
  <1>4. Min(D) \in D /\ \A p \in D : Min(D) <= p
    BY <1>1, <1>2, LeastExists, Zenon DEF Min
  <1>5. Best(side, map) = IF side = "Buy" THEN Max(D) ELSE Min(D)
    BY DEF Best, D
  <1>6. D = DOMAIN map
    BY DEF D
  <1> QED
    BY <1>3, <1>4, <1>5, <1>6 DEF Reaches

\* What restOrder() writes, and the level it and removeOrder() leave.
RefTo(side, p, i) == [side |-> side, price |-> p, index |-> i]
Entry(order) == [id |-> order.id, price |-> order.price, quantity |-> order.quantity]
Pushed(level, slot) == [level EXCEPT !.orders = Append(@, slot), !.liveCount = @ + 1]
Tombstoned(level, i) == [level EXCEPT !.orders[i] = Null, !.liveCount = @ - 1]

(***************************************************************************)
(* One level: what pushing, tombstoning and skipping do to its live places.*)
(***************************************************************************)

\* A level has finitely many live places, all of them indices of its vector.
LEMMA LiveFacts ==
    ASSUME NEW level \in Level
    PROVE  /\ IsFiniteSet(LivePlaces(level))
           /\ Cardinality(LivePlaces(level)) \in Nat
           /\ LivePlaces(level) \subseteq 1..Len(level.orders)
           /\ Len(level.orders) \in Nat
           /\ \A i \in LivePlaces(level) : level.orders[i] \in Nat \ {0}
  <1>1. level.orders \in Seq(Nat) /\ Len(level.orders) \in Nat
    BY DEF Level
  <1>2. LivePlaces(level) \subseteq 1..Len(level.orders)
    BY DEF LivePlaces
  <1>3. IsFiniteSet(1..Len(level.orders))
    BY <1>1, FS_Interval
  <1>4. IsFiniteSet(LivePlaces(level))
    BY <1>2, <1>3, FS_Subset
  <1>5. \A i \in LivePlaces(level) : level.orders[i] \in Nat \ {0}
    BY <1>1 DEF LivePlaces, Null
  <1> QED
    BY <1>1, <1>2, <1>4, <1>5, FS_CardinalityType

\* A level with one more live place, at the end.
OneMore(level, slot, after) ==
    /\ after \in Level
    /\ Len(after.orders) = Len(level.orders) + 1
    /\ after.orders[Len(level.orders) + 1] = slot
    /\ \A i \in 1..Len(level.orders) : after.orders[i] = level.orders[i]
    /\ LivePlaces(after) = LivePlaces(level) \cup {Len(level.orders) + 1}
    /\ Cardinality(LivePlaces(after)) = Cardinality(LivePlaces(level)) + 1
    /\ after.liveCount = level.liveCount + 1
    /\ after.frontIndex = level.frontIndex

\* push_back() makes one.
LEMMA PushedLevel ==
    ASSUME NEW level \in Level, NEW slot \in Nat \ {0}
    PROVE  OneMore(level, slot, Pushed(level, slot))
  <1>a. PICK after : after = Pushed(level, slot)
    OBVIOUS
  <1>1. level.orders \in Seq(Nat) /\ level.liveCount \in Nat /\ level.frontIndex \in Nat \ {0}
    BY DEF Level
  <1>2. /\ after.orders = Append(level.orders, slot) /\ after.liveCount = level.liveCount + 1
        /\ after.frontIndex = level.frontIndex
        /\ after = [orders |-> Append(level.orders, slot), frontIndex |-> level.frontIndex,
                    liveCount |-> level.liveCount + 1]
    BY <1>a, Zenon DEF Level, Pushed
  <1>3. after \in Level
    <2>1. Append(level.orders, slot) \in Seq(Nat) /\ level.liveCount + 1 \in Nat
      BY <1>1
    <2> QED
      BY <1>1, <1>2, <2>1 DEF Level
  <1>4. /\ Len(after.orders) = Len(level.orders) + 1
        /\ after.orders[Len(level.orders) + 1] = slot
        /\ \A i \in 1..Len(level.orders) : after.orders[i] = level.orders[i]
    BY <1>1, <1>2
  <1>5. LivePlaces(after) = LivePlaces(level) \cup {Len(level.orders) + 1}
    <2>1. PICK n \in Nat : n = Len(level.orders)
      BY <1>1
    <2>2. 1..Len(after.orders) = (1..n) \cup {n + 1} /\ after.orders[n + 1] # Null
      BY <1>4, <2>1 DEF Null
    <2>3. /\ LivePlaces(after) = {i \in 1..Len(after.orders) : after.orders[i] # Null}
          /\ LivePlaces(level) = {i \in 1..n : level.orders[i] # Null}
      BY <2>1 DEF LivePlaces
    <2>4. \A i \in 1..n : after.orders[i] = level.orders[i]
      BY <1>4, <2>1
    <2>5. LivePlaces(after) = LivePlaces(level) \cup {n + 1}
      BY <2>2, <2>3, <2>4, Zenon
    <2> QED
      BY <2>1, <2>5, Zenon
  <1>6. Len(level.orders) + 1 \notin LivePlaces(level)
    BY <1>1 DEF LivePlaces
  <1>7. Cardinality(LivePlaces(after)) = Cardinality(LivePlaces(level)) + 1
    BY <1>5, <1>6, LiveFacts, FS_AddElement, Zenon
  <1>b. OneMore(level, slot, after)
    BY <1>2, <1>3, <1>4, <1>5, <1>7, Zenon DEF OneMore
  <1> QED
    BY <1>a, <1>b, Zenon

\* A level with one live place less, the others where they were.
OneLess(level, i, after) ==
    /\ after \in Level
    /\ Len(after.orders) = Len(level.orders)
    /\ after.orders[i] = Null
    /\ \A j \in 1..Len(level.orders) : j # i => after.orders[j] = level.orders[j]
    /\ LivePlaces(after) = LivePlaces(level) \ {i}
    /\ after.liveCount = Cardinality(LivePlaces(after))
    /\ Cardinality(LivePlaces(after)) = Cardinality(LivePlaces(level)) - 1
    /\ after.frontIndex = level.frontIndex

\* A tombstone makes one.
LEMMA TombstonedLevel ==
    ASSUME NEW level \in Level, NEW i \in LivePlaces(level),
           level.liveCount = Cardinality(LivePlaces(level))
    PROVE  OneLess(level, i, Tombstoned(level, i))
  <1>a. PICK after : after = Tombstoned(level, i)
    OBVIOUS
  <1>1. level.orders \in Seq(Nat) /\ level.frontIndex \in Nat \ {0} /\ i \in 1..Len(level.orders)
    BY LiveFacts DEF Level
  <1>2. /\ after.orders = [level.orders EXCEPT ![i] = Null]
        /\ after.liveCount = level.liveCount - 1
        /\ after.frontIndex = level.frontIndex
        /\ after = [orders |-> [level.orders EXCEPT ![i] = Null],
                    frontIndex |-> level.frontIndex, liveCount |-> level.liveCount - 1]
    BY <1>a, Zenon DEF Level, Tombstoned
  <1>3. /\ after.orders \in Seq(Nat) /\ Len(after.orders) = Len(level.orders)
        /\ after.orders[i] = Null
        /\ \A j \in 1..Len(level.orders) : j # i => after.orders[j] = level.orders[j]
    BY <1>1, <1>2 DEF Null
  <1>4. LivePlaces(after) = LivePlaces(level) \ {i}
    BY <1>1, <1>3, Zenon DEF LivePlaces
  <1>5. Cardinality(LivePlaces(after)) = Cardinality(LivePlaces(level)) - 1
    BY <1>4, LiveFacts, FS_RemoveElement, Zenon
  <1>6. IsFiniteSet(LivePlaces(after))
    BY <1>4, LiveFacts, FS_RemoveElement
  <1>7. Cardinality(LivePlaces(after)) \in Nat
    BY <1>6, FS_CardinalityType
  <1>8. after.liveCount = Cardinality(LivePlaces(after))
    BY <1>2, <1>5
  <1>9. after \in Level
    BY <1>1, <1>2, <1>3, <1>7, <1>8 DEF Level
  <1>b. OneLess(level, i, after)
    BY <1>2, <1>3, <1>4, <1>5, <1>8, <1>9, Zenon DEF OneLess
  <1> QED
    BY <1>a, <1>b, Zenon

\* frontLive() finds the first live place of a level that has one, and skips
\* nothing but tombstones.
LEMMA FrontFacts ==
    ASSUME NEW level \in Level, LivePlaces(level) # {},
           \A i \in 1..level.frontIndex - 1 : level.orders[i] = Null
    PROVE  /\ FrontLive(level) \in LivePlaces(level)
           /\ \A i \in LivePlaces(level) : FrontLive(level) <= i
  <1> DEFINE open == {i \in level.frontIndex..Len(level.orders) : level.orders[i] # Null}
             n    == Len(level.orders)
  <1>1. n \in Nat /\ level.frontIndex \in Nat \ {0}
    BY DEF Level
  <1>2. open = LivePlaces(level)
    BY <1>1 DEF LivePlaces
  <1>3. FrontLive(level) = Min(open \cup {n + 1})
    BY DEF FrontLive
  <1>4. open \in SUBSET Nat /\ open # {} /\ \A i \in open : i <= n
    BY <1>1, <1>2, LiveFacts
  <1> HIDE DEF open, n
  <1>5. PICK x \in open : \A y \in open : x <= y
    BY <1>4, LeastExists
  <1>6. Min(open \cup {n + 1}) \in open \cup {n + 1}
        /\ \A y \in open \cup {n + 1} : Min(open \cup {n + 1}) <= y
    <2>1. x \in open \cup {n + 1} /\ \A y \in open \cup {n + 1} : x <= y
      BY <1>1, <1>4, <1>5
    <2> QED
      BY <2>1 DEF Min
  <1>7. Min(open \cup {n + 1}) # n + 1
    BY <1>1, <1>4, <1>5, <1>6
  <1> QED
    BY <1>2, <1>3, <1>6, <1>7, Zenon

(***************************************************************************)
(* The pool.                                                               *)
(***************************************************************************)

\* growBySlab(): the new slots are free and nobody's, the others as they were.
LEMMA GrowKeeps ==
    ASSUME NEW pl \in Pool, NEW used, PoolHolds(pl, used), pl.freeList = <<>>
    PROVE  /\ GrowBySlab(pl) \in Pool /\ PoolHolds(GrowBySlab(pl), used)
           /\ GrowBySlab(pl).freeList # <<>>
  <1> DEFINE n    == Len(pl.live)
             grew == GrowBySlab(pl)
             new  == [i \in 1..SlabSize |-> n + i]
             dead == [i \in 1..SlabSize |-> FALSE]
  <1>1. pl.live \in Seq(BOOLEAN) /\ n \in Nat /\ SlabSize \in Nat \ {0} /\ DOMAIN pl.live = 1..n
    BY SlabAssumption DEF Pool
  <1>2. /\ new \in Seq(Nat \ {0}) /\ Len(new) = SlabSize
        /\ \A i \in 1..SlabSize : new[i] = n + i
    BY <1>1
  <1>3. /\ dead \in Seq(BOOLEAN) /\ Len(dead) = SlabSize
        /\ \A i \in 1..SlabSize : dead[i] = FALSE
    BY <1>1
  <1>4. grew = [freeList |-> <<>> \o new, live |-> pl.live \o dead]
    BY DEF GrowBySlab
  <1> HIDE DEF n, new, dead, grew
  <1>5. <<>> \o new = new
    BY <1>2
  <1>6. grew.freeList = new /\ grew.live = pl.live \o dead
    BY <1>4, <1>5
  <1>7. /\ grew.live \in Seq(BOOLEAN) /\ Len(grew.live) = n + SlabSize
        /\ \A i \in 1..n : grew.live[i] = pl.live[i]
        /\ \A i \in n + 1..n + SlabSize : grew.live[i] = FALSE
    <2>1. Len(pl.live) = n
      BY DEF n
    <2>2. pl.live \o dead \in Seq(BOOLEAN) /\ Len(pl.live \o dead) = n + SlabSize
      BY <1>1, <1>3, <2>1
    <2>3. \A i \in 1..n : (pl.live \o dead)[i] = pl.live[i]
      BY <1>1, <1>3, <2>1
    <2>4. \A i \in n + 1..n + SlabSize : (pl.live \o dead)[i] = dead[i - n]
      BY <1>1, <1>3, <2>1
    <2>5. \A i \in n + 1..n + SlabSize : i - n \in 1..SlabSize
      BY <1>1
    <2> QED
      BY <1>3, <1>6, <2>2, <2>3, <2>4, <2>5, Zenon
  <1>8. DOMAIN grew.live = 1..n + SlabSize /\ DOMAIN grew.freeList = 1..SlabSize
    BY <1>1, <1>2, <1>6, <1>7
  <1>9. used = {slot \in DOMAIN grew.live : grew.live[slot]} /\ used \subseteq 1..n
    <2>1. used = {slot \in 1..n : pl.live[slot]}
      BY <1>1 DEF PoolHolds
    <2> QED
      BY <1>1, <1>7, <1>8, <2>1
  <1>10. IsInjective(grew.freeList)
    BY <1>1, <1>2, <1>6, <1>8 DEF IsInjective
  <1>11. used = 1..n
    <2>1. Range(pl.freeList) = {}
      BY DEF Range
    <2> QED
      BY <1>1, <1>9, <2>1 DEF PoolHolds
  <1>12. Range(grew.freeList) = DOMAIN grew.live \ used
    <2>1. Range(grew.freeList) = {n + i : i \in 1..SlabSize}
      BY <1>2, <1>6, <1>8, Zenon DEF Range
    <2>2. {n + i : i \in 1..SlabSize} = n + 1..n + SlabSize
      <3>1. \A x \in n + 1..n + SlabSize : x - n \in 1..SlabSize /\ x = n + (x - n)
        BY <1>1
      <3>2. \A i \in 1..SlabSize : n + i \in n + 1..n + SlabSize
        BY <1>1
      <3> QED
        BY <3>1, <3>2
    <2>3. n + 1..n + SlabSize = (1..n + SlabSize) \ (1..n)
      BY <1>1
    <2> QED
      BY <1>8, <1>11, <2>1, <2>2, <2>3, Zenon
  <1>13. grew \in Pool /\ grew.freeList # <<>>
    BY <1>1, <1>2, <1>4, <1>5, <1>6, <1>7 DEF Pool
  <1> QED
    BY <1>9, <1>10, <1>12, <1>13 DEF PoolHolds, grew

\* acquire() hands out a slot nobody uses.
LEMMA AcquireKeeps ==
    ASSUME NEW pl \in Pool, NEW used, PoolHolds(pl, used)
    PROVE  /\ Acquire(pl).slot \in Nat \ {0} /\ Acquire(pl).slot \notin used
           /\ Acquire(pl).pool \in Pool
           /\ PoolHolds(Acquire(pl).pool, used \cup {Acquire(pl).slot})
  <1> DEFINE ready == IF pl.freeList = <<>> THEN GrowBySlab(pl) ELSE pl
             last  == Len(ready.freeList)
             slot  == ready.freeList[last]
             rest  == SubSeq(ready.freeList, 1, last - 1)
             got   == [freeList |-> rest, live |-> [ready.live EXCEPT ![slot] = TRUE]]
  <1>1. Acquire(pl).slot = slot /\ Acquire(pl).pool = got
    BY DEF Acquire
  <1>2. ready \in Pool /\ PoolHolds(ready, used) /\ ready.freeList # <<>>
    BY GrowKeeps
  <1> HIDE DEF ready
  <1>3. /\ ready.freeList \in Seq(Nat \ {0}) /\ ready.live \in Seq(BOOLEAN)
        /\ last \in Nat \ {0} /\ DOMAIN ready.freeList = 1..last
    BY <1>2 DEF Pool
  <1> HIDE DEF last
  <1>4. slot \in Nat \ {0} /\ slot \in Range(ready.freeList)
    BY <1>3 DEF Range
  <1>5. slot \in DOMAIN ready.live /\ slot \notin used
    BY <1>2, <1>4 DEF PoolHolds
  <1>6. /\ rest \in Seq(Nat \ {0}) /\ Len(rest) = last - 1
        /\ \A i \in 1..last - 1 : rest[i] = ready.freeList[i]
    <2>1. last = Len(ready.freeList)
      BY DEF last
    <2> QED
      BY <1>3, <2>1
  <1>7. DOMAIN rest = 1..last - 1
    BY <1>6
  <1> HIDE DEF slot, rest
  <1>8. \A i \in 1..last - 1 : ready.freeList[i] # slot
    <2>1. IsInjective(ready.freeList)
      BY <1>2 DEF PoolHolds
    <2> QED
      <3>1. \A i \in 1..last - 1 : i \in 1..last /\ last \in 1..last /\ i # last
        BY <1>3
      <3>2. \A a, b \in 1..last : ready.freeList[a] = ready.freeList[b] => a = b
        BY <1>3, <2>1, Zenon DEF IsInjective
      <3> QED
        BY <3>1, <3>2, Zenon DEF slot
  <1>9. IsInjective(rest)
    <2>1. IsInjective(ready.freeList)
      BY <1>2 DEF PoolHolds
    <2>2. \A a, b \in 1..last : ready.freeList[a] = ready.freeList[b] => a = b
      BY <1>3, <2>1, Zenon DEF IsInjective
    <2>3. \A a \in 1..last - 1 : a \in 1..last
      BY <1>3
    <2> QED
      BY <1>6, <1>7, <2>2, <2>3, Zenon DEF IsInjective
  <1>10. Range(rest) = Range(ready.freeList) \ {slot}
    <2>1. Range(rest) = {ready.freeList[i] : i \in 1..last - 1}
      BY <1>6, <1>7 DEF Range
    <2>2. Range(ready.freeList) = {ready.freeList[i] : i \in 1..last}
      BY <1>3 DEF Range
    <2>3. ready.freeList[last] = slot
      BY DEF slot
    <2>4. \A i \in 1..last : i = last \/ i \in 1..last - 1
      BY <1>3
    <2>5. \A i \in 1..last - 1 : i \in 1..last
      BY <1>3
    <2> QED
      BY <1>8, <2>1, <2>2, <2>3, <2>4, <2>5
  <1>11. /\ got.freeList = rest /\ got.live = [ready.live EXCEPT ![slot] = TRUE]
         /\ DOMAIN got.live = DOMAIN ready.live /\ got.live[slot] = TRUE
         /\ \A i \in DOMAIN ready.live \ {slot} : got.live[i] = ready.live[i]
    BY <1>5
  <1>12. used \cup {slot} = {i \in DOMAIN got.live : got.live[i]}
    <2>1. used = {i \in DOMAIN ready.live : ready.live[i]}
      BY <1>2 DEF PoolHolds
    <2> QED
      BY <1>5, <1>11, <2>1
  <1>13. Range(got.freeList) = DOMAIN got.live \ (used \cup {slot})
    <2>1. Range(ready.freeList) = DOMAIN ready.live \ used
      BY <1>2 DEF PoolHolds
    <2> QED
      BY <1>10, <1>11, <2>1
  <1>14. got \in Pool
    <2>1. [ready.live EXCEPT ![slot] = TRUE] \in Seq(BOOLEAN)
      BY <1>3, <1>5
    <2> QED
      BY <1>6, <2>1 DEF Pool
  <1> QED
    BY <1>1, <1>4, <1>5, <1>9, <1>11, <1>12, <1>13, <1>14 DEF PoolHolds

\* release() gives back a slot that was in use.
LEMMA ReleaseKeeps ==
    ASSUME NEW pl \in Pool, NEW used, PoolHolds(pl, used), NEW slot \in used,
           used \subseteq Nat \ {0}
    PROVE  Release(pl, slot) \in Pool /\ PoolHolds(Release(pl, slot), used \ {slot})
  <1> DEFINE n    == Len(pl.freeList)
             free == Append(pl.freeList, slot)
             back == [freeList |-> free, live |-> [pl.live EXCEPT ![slot] = FALSE]]
  <1>1. /\ pl.freeList \in Seq(Nat \ {0}) /\ pl.live \in Seq(BOOLEAN) /\ n \in Nat
        /\ DOMAIN pl.freeList = 1..n
    BY DEF Pool
  <1>2. slot \in DOMAIN pl.live /\ pl.live[slot] /\ slot \in Nat \ {0}
    BY DEF PoolHolds
  <1>3. Release(pl, slot) = back
    BY <1>2 DEF Release
  <1>4. /\ free \in Seq(Nat \ {0}) /\ Len(free) = n + 1 /\ free[n + 1] = slot
        /\ \A i \in 1..n : free[i] = pl.freeList[i]
    BY <1>1, <1>2
  <1>5. DOMAIN free = 1..n + 1
    BY <1>4
  <1> HIDE DEF free, n
  <1>6. slot \notin Range(pl.freeList)
    BY DEF PoolHolds
  <1>7. \A i \in 1..n : free[i] # slot
    BY <1>1, <1>4, <1>6, Zenon DEF Range
  <1>8. IsInjective(free)
    <2>1. \A i, j \in 1..n : pl.freeList[i] = pl.freeList[j] => i = j
      BY <1>1, Zenon DEF PoolHolds, IsInjective
    <2>2. \A i \in 1..n + 1 : i = n + 1 \/ i \in 1..n
      BY <1>1
    <2> QED
      BY <1>4, <1>5, <1>7, <2>1, <2>2 DEF IsInjective
  <1>9. Range(free) = Range(pl.freeList) \cup {slot}
    <2>1. Range(free) = {free[i] : i \in 1..n + 1} /\ Range(pl.freeList) = {pl.freeList[i] : i \in 1..n}
      BY <1>1, <1>5 DEF Range
    <2>2. \A i \in 1..n + 1 : i = n + 1 \/ i \in 1..n
      BY <1>1
    <2>3. n + 1 \in 1..n + 1 /\ \A i \in 1..n : i \in 1..n + 1
      BY <1>1
    <2> QED
      BY <1>4, <2>1, <2>2, <2>3
  <1>10. /\ back.freeList = free /\ DOMAIN back.live = DOMAIN pl.live /\ back.live[slot] = FALSE
         /\ \A i \in DOMAIN pl.live \ {slot} : back.live[i] = pl.live[i]
    BY <1>2
  <1>11. used \ {slot} = {i \in DOMAIN back.live : back.live[i]}
    <2>1. used = {i \in DOMAIN pl.live : pl.live[i]}
      BY DEF PoolHolds
    <2> QED
      BY <1>2, <1>10, <2>1
  <1>12. Range(back.freeList) = DOMAIN back.live \ (used \ {slot})
    <2>1. Range(pl.freeList) = DOMAIN pl.live \ used
      BY DEF PoolHolds
    <2> QED
      BY <1>2, <1>9, <1>10, <2>1
  <1>13. back \in Pool
    <2>1. [pl.live EXCEPT ![slot] = FALSE] \in Seq(BOOLEAN)
      BY <1>1, <1>2
    <2> QED
      BY <1>4, <2>1 DEF Pool
  <1> QED
    BY <1>3, <1>8, <1>10, <1>11, <1>12, <1>13 DEF PoolHolds

(***************************************************************************)
(* The book: what resting and removing an order do to it.                  *)
(***************************************************************************)

\* Counting the living, level by level, before and after a step.
LEMMA CountsEverywhere ==
    /\ LevelsCountTheLiving <=>
          \A side \in Side : \A p \in DOMAIN levels[side] : CountsTheLiving(levels[side][p])
    /\ LevelsCountTheLiving' <=>
          \A side \in Side : \A p \in DOMAIN levels'[side] : CountsTheLiving(levels'[side][p])
  <1>1. \A level : level \in AllLevels <=>
            \E side \in Side : \E p \in DOMAIN levels[side] : level = levels[side][p]
    BY DEF AllLevels
  <1>2. \A level : level \in AllLevels' <=>
            \E side \in Side : \E p \in DOMAIN levels'[side] : level = levels'[side][p]
    BY DEF AllLevels
  <1>3. LevelsCountTheLiving <=> \A level \in AllLevels : CountsTheLiving(level)
    BY DEF LevelsCountTheLiving
  <1>4. LevelsCountTheLiving' <=> \A level \in AllLevels' : CountsTheLiving(level)
    BY DEF LevelsCountTheLiving, CountsTheLiving, LivePlaces
  <1>5. LevelsCountTheLiving <=>
          \A side \in Side : \A p \in DOMAIN levels[side] : CountsTheLiving(levels[side][p])
    BY <1>1, <1>3
  <1>6. LevelsCountTheLiving' <=>
          \A side \in Side : \A p \in DOMAIN levels'[side] : CountsTheLiving(levels'[side][p])
    BY <1>2, <1>4
  <1> QED
    BY <1>5, <1>6

\* The maps with a level stored, and with one erased.
LevelPut(new, side, p, level) ==
    /\ DOMAIN new = Side
    /\ DOMAIN new[side] = DOMAIN levels[side] \cup {p}
    /\ new[side][p] = level
    /\ \A q \in DOMAIN levels[side] \ {p} : new[side][q] = levels[side][q]
    /\ \A s \in Side \ {side} : new[s] = levels[s]

LevelDropped(new, side, p) ==
    /\ DOMAIN new = Side
    /\ DOMAIN new[side] = DOMAIN levels[side] \ {p}
    /\ \A q \in DOMAIN levels[side] \ {p} : new[side][q] = levels[side][q]
    /\ \A s \in Side \ {side} : new[s] = levels[s]

\* Storing a level changes no other.
LEMMA PutLevelFacts ==
    ASSUME DOMAIN levels = Side, NEW side \in Side, NEW p, NEW level
    PROVE  LevelPut(PutLevel(side, p, level), side, p, level)
  BY DEF PutLevel, LevelPut

\* Nor does erasing one.
LEMMA DropLevelFacts ==
    ASSUME DOMAIN levels = Side, NEW side \in Side, NEW p
    PROVE  LevelDropped(DropLevel(side, p), side, p)
  BY DEF DropLevel, EraseLevel, Restrict, LevelDropped

\* The level an order will rest in, new or not.
LEMMA LevelAtFacts ==
    ASSUME BookHolds, NEW side \in Side, NEW p, NEW level, level = LevelAt(side, p)
    PROVE  /\ level \in Level
           /\ level.liveCount = Cardinality(LivePlaces(level))
           /\ \A i \in 1..level.frontIndex - 1 : level.orders[i] = Null
           /\ p \notin DOMAIN levels[side] => LivePlaces(level) = {}
           /\ p \in DOMAIN levels[side] => level = levels[side][p]
           /\ level.frontIndex <= Len(level.orders) + 1
  <1>1. CASE p \in DOMAIN levels[side]
    <2>1. LevelAt(side, p) = levels[side][p]
      BY <1>1 DEF LevelAt
    <2>2. levels[side][p] \in Level
      BY <1>1 DEF BookHolds, BookTypeOK
    <2>3. CountsTheLiving(levels[side][p])
      BY <1>1, CountsEverywhere DEF BookHolds
    <2>4. level.frontIndex <= Len(level.orders) + 1
      <3>1. level \in Level /\ CountsTheLiving(level)
        BY <2>1, <2>2, <2>3
      <3>2. level.frontIndex \in Nat /\ Len(level.orders) \in Nat
        BY <3>1 DEF Level
      <3>3. Cardinality(LivePlaces(level)) # 0
        BY <3>1 DEF CountsTheLiving
      <3>4. PICK i \in LivePlaces(level) : TRUE
        BY <3>1, <3>3, FS_EmptySet, LiveFacts
      <3>5. i \in 1..Len(level.orders) /\ level.orders[i] # Null
        BY <3>4 DEF LivePlaces
      <3>6. i \notin 1..level.frontIndex - 1
        BY <3>1, <3>5 DEF CountsTheLiving
      <3> QED
        BY <3>2, <3>5, <3>6
    <2> QED
      BY <1>1, <2>1, <2>2, <2>3, <2>4 DEF CountsTheLiving
  <1>2. CASE p \notin DOMAIN levels[side]
    <2>1. LevelAt(side, p) = NewLevel
      BY <1>2 DEF LevelAt
    <2>2. NewLevel \in Level /\ NewLevel.frontIndex = 1 /\ NewLevel.liveCount = 0
          /\ Len(NewLevel.orders) = 0
      BY DEF NewLevel, Level
    <2>3. LivePlaces(NewLevel) = {}
      BY DEF NewLevel, LivePlaces
    <2>4. 1..NewLevel.frontIndex - 1 = {} /\ NewLevel.frontIndex <= Len(NewLevel.orders) + 1
      BY <2>2
    <2>5. NewLevel.liveCount = Cardinality(LivePlaces(NewLevel))
      BY <2>2, <2>3, FS_EmptySet
    <2> QED
      BY <1>2, <2>1, <2>2, <2>3, <2>4, <2>5, Zenon
  <1> QED
    BY <1>1, <1>2

\* What restOrder() changes: one more stored order, entry of the table and place.
RestedAs(o, slot, level) ==
    /\ DOMAIN memory' = DOMAIN memory \cup {slot}
    /\ memory'[slot] = Entry(o)
    /\ \A s \in DOMAIN memory \ {slot} : memory'[s] = memory[s]
    /\ DOMAIN refs' = DOMAIN refs \cup {o.id}
    /\ refs'[o.id] = RefTo(o.side, o.price, Len(level.orders) + 1)
    /\ \A id \in DOMAIN refs \ {o.id} : refs'[id] = refs[id]
    /\ LevelPut(levels', o.side, o.price, Pushed(level, slot))
    /\ pool' = Acquire(pool).pool

\* restOrder() changes that.
LEMMA RestFacts ==
    ASSUME BookHolds, NEW o \in Incoming, RestOrder(o)
    PROVE  RestedAs(o, Acquire(pool).slot, LevelAt(o.side, o.price))
  <1>a. PICK slot, level : slot = Acquire(pool).slot /\ level = LevelAt(o.side, o.price)
    OBVIOUS
  <1>1. o.side \in Side /\ DOMAIN levels = Side
    BY DEF Incoming, BookHolds, BookTypeOK
  <1>2. /\ pool' = Acquire(pool).pool
        /\ memory' = [s \in DOMAIN memory \cup {slot} |->
                         IF s = slot
                         THEN Entry(o)
                         ELSE memory[s]]
        /\ levels' = PutLevel(o.side, o.price, Pushed(level, slot))
        /\ refs' = [id \in DOMAIN refs \cup {o.id} |->
                       IF id # o.id THEN refs[id]
                       ELSE RefTo(o.side, o.price, Len(level.orders) + 1)]
    BY <1>a DEF RestOrder, Pushed, Entry, RefTo
  <1>3. LevelPut(levels', o.side, o.price, Pushed(level, slot))
    BY <1>1, <1>2, PutLevelFacts
  <1>4. /\ DOMAIN memory' = DOMAIN memory \cup {slot}
        /\ memory'[slot] = Entry(o)
        /\ \A s \in DOMAIN memory \ {slot} : memory'[s] = memory[s]
    BY <1>2
  <1>5. /\ DOMAIN refs' = DOMAIN refs \cup {o.id}
        /\ refs'[o.id] = RefTo(o.side, o.price, Len(level.orders) + 1)
        /\ \A id \in DOMAIN refs \ {o.id} : refs'[id] = refs[id]
    BY <1>2
  <1>6. RestedAs(o, slot, level)
    BY <1>2, <1>3, <1>4, <1>5, Zenon DEF RestedAs
  <1> QED
    BY <1>6, <1>a, Zenon

\* A place of a level holds a stored order, and the table leads back to the place.
LEMMA PlaceFacts ==
    ASSUME BookHolds, NEW side \in Side, NEW p \in DOMAIN levels[side],
           NEW i \in LivePlaces(levels[side][p])
    PROVE  /\ levels[side][p].orders[i] \in DOMAIN memory
           /\ memory[levels[side][p].orders[i]].id \in DOMAIN refs
           /\ refs[memory[levels[side][p].orders[i]].id] = RefTo(side, p, i)
  BY Zenon DEF BookHolds, PlacesHold, RefTo

\* restOrder() keeps table, levels, stored orders and pool in step.
LEMMA RestKeeps ==
    ASSUME BookHolds, NEW o \in Incoming, o.quantity > 0, o.id \notin DOMAIN refs, RestOrder(o)
    PROVE  BookHolds'
  <1>a. PICK slot, level : slot = Acquire(pool).slot /\ level = LevelAt(o.side, o.price)
    OBVIOUS
  <1>r. RestedAs(o, slot, level)
    <2>1. RestedAs(o, Acquire(pool).slot, LevelAt(o.side, o.price))
      BY RestFacts
    <2> QED
      BY <1>a, <2>1, Zenon
  <1>b. PICK new, after : new = Len(level.orders) + 1 /\ levels'[o.side][o.price] = after
    OBVIOUS
  <1>f. PICK entry, ref : /\ entry = Entry(o)
                          /\ ref = RefTo(o.side, o.price, new)
    OBVIOUS
  <1>c. entry.id = o.id /\ entry.price = o.price /\ entry.quantity = o.quantity
    BY <1>f DEF Entry
  <1>d. ref.side = o.side /\ ref.price = o.price /\ ref.index = new
    BY <1>f DEF RefTo
  <1> DEFINE Found(id) == levels'[refs'[id].side][refs'[id].price].orders[refs'[id].index]
  <1>e. \A id : Found(id) = levels'[refs'[id].side][refs'[id].price].orders[refs'[id].index]
    OBVIOUS
  <1> HIDE DEF Found
  <1>1. /\ o.side \in Side /\ o.price \in 0..MaxPrice /\ o.id \in OrderId
        /\ o.quantity \in 1..MaxQuantity
    BY LimitsAssumption DEF Incoming
  <1>2. BookTypeOK /\ RefsLead /\ PlacesHold /\ MemoryReached /\ PoolHolds(pool, DOMAIN memory)
    BY DEF BookHolds
  <1>3. /\ DOMAIN levels = Side
        /\ \A side \in Side : DOMAIN levels[side] \subseteq 0..MaxPrice
        /\ \A side \in Side : \A p \in DOMAIN levels[side] : levels[side][p] \in Level
        /\ DOMAIN refs \subseteq OrderId /\ IsFiniteSet(DOMAIN refs) /\ pool \in Pool
        /\ \A id \in DOMAIN refs : refs[id] \in OrderRef
        /\ DOMAIN memory \subseteq Nat \ {0}
        /\ \A s \in DOMAIN memory : memory[s] \in Stored
    BY <1>2 DEF BookTypeOK
  <1>4. /\ slot \in Nat \ {0} /\ slot \notin DOMAIN memory
        /\ pool' \in Pool /\ PoolHolds(pool', DOMAIN memory \cup {slot})
    <2>1. pool' = Acquire(pool).pool
      BY <1>r DEF RestedAs
    <2> QED
      BY <1>2, <1>3, <1>a, <2>1, AcquireKeeps
  <1>5. /\ DOMAIN memory' = DOMAIN memory \cup {slot}
        /\ memory'[slot] = entry
        /\ \A s \in DOMAIN memory : memory'[s] = memory[s]
    <2>1. /\ DOMAIN memory' = DOMAIN memory \cup {slot}
          /\ memory'[slot] = entry
          /\ \A s \in DOMAIN memory \ {slot} : memory'[s] = memory[s]
      BY <1>f, <1>r DEF RestedAs
    <2> QED
      BY <1>4, <2>1, Zenon
  <1>6. /\ DOMAIN refs' = DOMAIN refs \cup {o.id}
        /\ refs'[o.id] = ref
        /\ \A id \in DOMAIN refs : refs'[id] = refs[id]
    <2>1. /\ DOMAIN refs' = DOMAIN refs \cup {o.id}
          /\ refs'[o.id] = RefTo(o.side, o.price, Len(level.orders) + 1)
          /\ \A id \in DOMAIN refs \ {o.id} : refs'[id] = refs[id]
      BY <1>r DEF RestedAs
    <2> QED
      BY <1>b, <1>f, <2>1
  <1>7. /\ DOMAIN levels' = Side
        /\ DOMAIN levels'[o.side] = DOMAIN levels[o.side] \cup {o.price}
        /\ \A q \in DOMAIN levels[o.side] \ {o.price} : levels'[o.side][q] = levels[o.side][q]
        /\ \A s \in Side \ {o.side} : levels'[s] = levels[s]
        /\ after = Pushed(level, slot)
    <2>1. LevelPut(levels', o.side, o.price, Pushed(level, slot))
      BY <1>r DEF RestedAs
    <2> QED
      BY <1>b, <2>1 DEF LevelPut
  <1>8. /\ level \in Level /\ level.liveCount = Cardinality(LivePlaces(level))
        /\ \A i \in 1..level.frontIndex - 1 : level.orders[i] = Null
        /\ o.price \notin DOMAIN levels[o.side] => LivePlaces(level) = {}
        /\ o.price \in DOMAIN levels[o.side] => level = levels[o.side][o.price]
        /\ level.frontIndex <= Len(level.orders) + 1
    BY <1>1, <1>a, LevelAtFacts
  <1>9. Len(level.orders) \in Nat /\ level.liveCount \in Nat /\ level.frontIndex \in Nat \ {0}
    BY <1>8 DEF Level
  <1>10. /\ after \in Level /\ Len(after.orders) = new /\ new \in Nat \ {0}
         /\ after.orders[new] = slot
         /\ \A i \in 1..Len(level.orders) : after.orders[i] = level.orders[i]
         /\ LivePlaces(after) = LivePlaces(level) \cup {new}
         /\ Cardinality(LivePlaces(after)) = Cardinality(LivePlaces(level)) + 1
         /\ after.liveCount = level.liveCount + 1
         /\ after.frontIndex = level.frontIndex
    <2>1. /\ after \in Level
          /\ Len(after.orders) = Len(level.orders) + 1
          /\ after.orders[Len(level.orders) + 1] = slot
          /\ \A i \in 1..Len(level.orders) : after.orders[i] = level.orders[i]
          /\ LivePlaces(after) = LivePlaces(level) \cup {Len(level.orders) + 1}
          /\ Cardinality(LivePlaces(after)) = Cardinality(LivePlaces(level)) + 1
          /\ after.liveCount = level.liveCount + 1
          /\ after.frontIndex = level.frontIndex
      <3>1. slot \in Nat \ {0} /\ level \in Level
        BY <1>4, <1>8
      <3>2. after = Pushed(level, slot)
        BY <1>7
      <3> QED
        <4>1. OneMore(level, slot, Pushed(level, slot))
          BY <3>1, PushedLevel
        <4>2. OneMore(level, slot, after)
          BY <3>2, <4>1, Zenon
        <4> QED
          BY <4>2 DEF OneMore
    <2>2. new \in Nat \ {0}
      BY <1>9, <1>b
    <2> QED
      BY <1>b, <2>1, <2>2, Zenon
  <1>11. \A side \in Side : \A q \in DOMAIN levels'[side] :
            \/ side = o.side /\ q = o.price
            \/ ~(side = o.side /\ q = o.price) /\ q \in DOMAIN levels[side]
               /\ levels'[side][q] = levels[side][q]
    BY <1>1, <1>7
  <1>12. levels'[o.side][o.price] = after
    BY <1>b
  <1>13. ASSUME NEW side \in Side, NEW q \in DOMAIN levels[side],
                NEW i \in 1..Len(levels[side][q].orders)
         PROVE  /\ q \in DOMAIN levels'[side] /\ i \in 1..Len(levels'[side][q].orders)
                /\ levels'[side][q].orders[i] = levels[side][q].orders[i]
    <2>1. CASE side = o.side /\ q = o.price
      <3>1. levels[side][q] = level /\ levels'[side][q] = after
        BY <1>8, <1>12, <2>1
      <3>2. i \in 1..Len(level.orders) /\ i \in 1..new
        BY <1>9, <1>b, <3>1
      <3>3. q \in DOMAIN levels'[side]
        BY <1>7, <2>1
      <3>4. Len(after.orders) = new /\ after.orders[i] = level.orders[i]
        BY <1>10, <3>2
      <3> QED
        BY <3>1, <3>2, <3>3, <3>4
    <2>2. CASE ~(side = o.side /\ q = o.price)
      BY <1>1, <1>7, <2>2
    <2> QED
      BY <2>1, <2>2
  <1>14. BookTypeOK'
    <2>1. \A side \in Side : DOMAIN levels'[side] \subseteq 0..MaxPrice
      BY <1>1, <1>3, <1>11
    <2>2. \A side \in Side : \A p \in DOMAIN levels'[side] : levels'[side][p] \in Level
      BY <1>3, <1>10, <1>11, <1>12
    <2>3. DOMAIN refs' \subseteq OrderId /\ IsFiniteSet(DOMAIN refs')
      BY <1>1, <1>3, <1>6, FS_AddElement
    <2>4. ref \in OrderRef /\ entry \in Stored
      BY <1>1, <1>10, <1>f DEF OrderRef, Stored, Entry, RefTo
    <2>5. \A id \in DOMAIN refs' : refs'[id] \in OrderRef
      BY <1>3, <1>6, <2>4
    <2>6. DOMAIN memory' \subseteq Nat \ {0} /\ \A s \in DOMAIN memory' : memory'[s] \in Stored
      BY <1>3, <1>4, <1>5, <2>4
    <2> QED
      BY <1>4, <1>7, <2>1, <2>2, <2>3, <2>5, <2>6
         DEF BookTypeOK, Level, OrderRef, Stored, Pool
  <1>15. \A id \in DOMAIN refs : Found(id) = SlotOf(id) /\ SlotOf(id) \in DOMAIN memory
    <2> SUFFICES ASSUME NEW id \in DOMAIN refs PROVE Found(id) = SlotOf(id) /\ SlotOf(id) \in DOMAIN memory
      OBVIOUS
    <2>1. refs'[id] = refs[id] /\ refs[id].side \in Side
      BY <1>3, <1>6 DEF OrderRef
    <2>2. /\ refs[id].price \in DOMAIN levels[refs[id].side]
          /\ refs[id].index \in 1..Len(levels[refs[id].side][refs[id].price].orders)
          /\ SlotOf(id) \in DOMAIN memory
      BY <1>2 DEF RefsLead
    <2> QED
      <3>1. levels'[refs[id].side][refs[id].price].orders[refs[id].index]
              = levels[refs[id].side][refs[id].price].orders[refs[id].index]
        BY <1>13, <2>1, <2>2
      <3>2. Found(id) = SlotOf(id)
        BY <1>e, <2>1, <3>1, Zenon DEF SlotOf
      <3> QED
        BY <2>2, <3>2
  <1>16. Found(o.id) = slot
    BY <1>6, <1>10, <1>12, <1>d, <1>e
  <1>17. RefsLead'
    <2> SUFFICES ASSUME NEW id \in DOMAIN refs'
                 PROVE  /\ refs'[id].price \in DOMAIN levels'[refs'[id].side]
                        /\ refs'[id].index
                             \in 1..Len(levels'[refs'[id].side][refs'[id].price].orders)
                        /\ Found(id) \in DOMAIN memory'
                        /\ memory'[Found(id)].id = id
                        /\ memory'[Found(id)].price = refs'[id].price
      BY <1>e, Zenon DEF RefsLead, SlotOf
    <2>1. CASE id = o.id
      <3>1. o.price \in DOMAIN levels'[o.side] /\ new \in 1..Len(after.orders)
        BY <1>7, <1>10
      <3>2. refs'[id].side = o.side /\ refs'[id].price = o.price /\ refs'[id].index = new
        BY <1>6, <1>d, <2>1
      <3>3. memory'[slot].id = o.id /\ memory'[slot].price = o.price /\ slot \in DOMAIN memory'
        BY <1>5, <1>c
      <3> QED
        BY <1>12, <1>16, <2>1, <3>1, <3>2, <3>3
    <2>2. CASE id # o.id
      <3>1. id \in DOMAIN refs /\ refs'[id] = refs[id] /\ refs[id].side \in Side
        BY <1>3, <1>6, <2>2 DEF OrderRef
      <3>2. /\ refs[id].price \in DOMAIN levels[refs[id].side]
            /\ refs[id].index \in 1..Len(levels[refs[id].side][refs[id].price].orders)
            /\ memory[SlotOf(id)].id = id
            /\ memory[SlotOf(id)].price = refs[id].price
        BY <1>2, <3>1 DEF RefsLead
      <3> QED
        BY <1>5, <1>13, <1>15, <3>1, <3>2
    <2> QED
      BY <2>1, <2>2
  <1>18. PlacesHold'
    <2> SUFFICES ASSUME NEW side \in Side, NEW p \in DOMAIN levels'[side],
                        NEW i \in LivePlaces(levels'[side][p])
                 PROVE  /\ levels'[side][p].orders[i] \in DOMAIN memory'
                        /\ memory'[levels'[side][p].orders[i]].id \in DOMAIN refs'
                        /\ refs'[memory'[levels'[side][p].orders[i]].id]
                             = RefTo(side, p, i)
      BY Zenon DEF PlacesHold, LivePlaces, RefTo
    <2>1. CASE side = o.side /\ p = o.price /\ i = new
      <3>1. levels'[side][p].orders[i] = slot
        BY <1>10, <1>12, <2>1
      <3>2. slot \in DOMAIN memory' /\ memory'[slot].id = o.id /\ o.id \in DOMAIN refs'
        BY <1>5, <1>6, <1>c
      <3>3. refs'[o.id] = RefTo(side, p, i)
        BY <1>6, <1>f, <2>1
      <3> QED
        BY <3>1, <3>2, <3>3
    <2>2. CASE ~(side = o.side /\ p = o.price /\ i = new)
      <3>1. p \in DOMAIN levels[side] /\ i \in LivePlaces(levels[side][p])
        BY <1>8, <1>9, <1>10, <1>11, <1>12, <2>2
      <3>2. i \in 1..Len(levels[side][p].orders)
        BY <3>1 DEF LivePlaces
      <3>3. levels'[side][p].orders[i] = levels[side][p].orders[i]
        BY <1>13, <3>1, <3>2
      <3>4. /\ levels[side][p].orders[i] \in DOMAIN memory
            /\ memory[levels[side][p].orders[i]].id \in DOMAIN refs
            /\ refs[memory[levels[side][p].orders[i]].id] = RefTo(side, p, i)
        BY <3>1, PlaceFacts, Zenon
      <3> QED
        BY <1>5, <1>6, <3>3, <3>4, Zenon
    <2> QED
      BY <2>1, <2>2, Zenon
  <1>19. MemoryReached'
    <2> SUFFICES ASSUME NEW s \in DOMAIN memory'
                 PROVE  memory'[s].id \in DOMAIN refs' /\ Found(memory'[s].id) = s
      BY <1>e, Zenon DEF MemoryReached, SlotOf
    <2>1. CASE s = slot
      BY <1>5, <1>6, <1>16, <1>c, <2>1
    <2>2. CASE s # slot
      <3>1. s \in DOMAIN memory /\ memory'[s] = memory[s]
        BY <1>5, <2>2
      <3>2. memory[s].id \in DOMAIN refs /\ SlotOf(memory[s].id) = s
        BY <1>2, <3>1 DEF MemoryReached
      <3> QED
        BY <1>6, <1>15, <3>1, <3>2
    <2> QED
      BY <2>1, <2>2
  <1>20. LevelsCountTheLiving'
    <2>1. CountsTheLiving(after)
      <3>1. after.liveCount = Cardinality(LivePlaces(after)) /\ after.liveCount > 0
        BY <1>8, <1>10, LiveFacts
      <3>2. \A i \in 1..after.frontIndex - 1 : after.orders[i] = Null
        <4>1. ASSUME NEW i \in 1..level.frontIndex - 1 PROVE after.orders[i] = Null
          <5>1. i \in 1..Len(level.orders)
            BY <1>8, <1>9
          <5> QED
            BY <1>8, <1>10, <5>1
        <4> QED
          BY <1>10, <4>1
      <3> QED
        BY <3>1, <3>2 DEF CountsTheLiving
    <2>2. \A side \in Side : \A p \in DOMAIN levels[side] : CountsTheLiving(levels[side][p])
      BY CountsEverywhere DEF BookHolds
    <2>3. \A side \in Side : \A p \in DOMAIN levels'[side] : CountsTheLiving(levels'[side][p])
      BY <1>11, <1>12, <2>1, <2>2
    <2> QED
      BY <2>3, CountsEverywhere
  <1>21. PoolHolds(pool, DOMAIN memory)'
    BY <1>4, <1>5 DEF PoolHolds, IsInjective, Range
  <1> QED
    BY <1>14, <1>17, <1>18, <1>19, <1>20, <1>21 DEF BookHolds

\* What removeOrder() changes: one stored order, one entry of the table, one place of
\* one level, and the level with its last order.
RemovedFrom(level, id, side, price, index, slot, after) ==
    /\ side \in Side /\ price \in DOMAIN levels[side]
    /\ index \in LivePlaces(level)
    /\ slot = SlotOf(id) /\ slot \in DOMAIN memory /\ memory[slot].id = id
    /\ DOMAIN memory' = DOMAIN memory \ {slot}
    /\ \A s \in DOMAIN memory \ {slot} : memory'[s] = memory[s]
    /\ DOMAIN refs' = DOMAIN refs \ {id}
    /\ \A i \in DOMAIN refs \ {id} : refs'[i] = refs[i]
    /\ pool' = Release(pool, slot)
    /\ DOMAIN levels' = Side
    /\ \A s \in Side \ {side} : levels'[s] = levels[s]
    /\ \A q \in DOMAIN levels[side] \ {price} : levels'[side][q] = levels[side][q]
    /\ after.liveCount = 0 => DOMAIN levels'[side] = DOMAIN levels[side] \ {price}
    /\ after.liveCount # 0 => DOMAIN levels'[side] = DOMAIN levels[side]
                              /\ levels'[side][price] = after

\* removeOrder() changes that, given the level as it is by then.
LEMMA RemoveFacts ==
    ASSUME BookHolds, NEW id \in DOMAIN refs, NEW level \in Level, RemoveFrom(level, id),
           level.orders = levels[refs[id].side][refs[id].price].orders
    PROVE  RemovedFrom(level, id, refs[id].side, refs[id].price, refs[id].index,
                       level.orders[refs[id].index], Tombstoned(level, refs[id].index))
  <1>a. PICK side, price, index, slot, after :
            /\ side = refs[id].side /\ price = refs[id].price /\ index = refs[id].index
            /\ slot = level.orders[refs[id].index]
            /\ after = Tombstoned(level, refs[id].index)
    OBVIOUS
  <1>1. DOMAIN levels = Side /\ refs[id] \in OrderRef /\ DOMAIN memory \subseteq Nat \ {0}
    BY DEF BookHolds, BookTypeOK
  <1>2. side \in Side
    BY <1>1, <1>a DEF OrderRef
  <1>3. /\ price \in DOMAIN levels[side]
        /\ index \in 1..Len(level.orders)
        /\ SlotOf(id) \in DOMAIN memory
        /\ memory[SlotOf(id)].id = id
    BY <1>a DEF BookHolds, RefsLead
  <1>4. slot = SlotOf(id)
    BY <1>a DEF SlotOf
  <1>5. index \in LivePlaces(level)
    BY <1>1, <1>3, <1>4, <1>a, Zenon DEF LivePlaces, Null
  <1>6. /\ pool' = Release(pool, slot)
        /\ memory' = Restrict(memory, DOMAIN memory \ {slot})
        /\ refs' = Restrict(refs, DOMAIN refs \ {id})
        /\ levels' = IF after.liveCount = 0 THEN DropLevel(side, price)
                     ELSE PutLevel(side, price, after)
    BY <1>a, Zenon DEF RemoveFrom, Tombstoned
  <1>7. /\ DOMAIN memory' = DOMAIN memory \ {slot}
        /\ \A s \in DOMAIN memory \ {slot} : memory'[s] = memory[s]
    BY <1>6 DEF Restrict
  <1>8. /\ DOMAIN refs' = DOMAIN refs \ {id}
        /\ \A i \in DOMAIN refs \ {id} : refs'[i] = refs[i]
    BY <1>6 DEF Restrict
  <1>9. /\ DOMAIN levels' = Side
        /\ \A s \in Side \ {side} : levels'[s] = levels[s]
        /\ \A q \in DOMAIN levels[side] \ {price} : levels'[side][q] = levels[side][q]
        /\ after.liveCount = 0 => DOMAIN levels'[side] = DOMAIN levels[side] \ {price}
        /\ after.liveCount # 0 => DOMAIN levels'[side] = DOMAIN levels[side]
                                  /\ levels'[side][price] = after
    <2>1. CASE after.liveCount = 0
      <3>1. levels' = DropLevel(side, price)
        BY <1>6, <2>1
      <3> QED
        <4>1. LevelDropped(levels', side, price)
          BY <1>1, <1>2, <3>1, DropLevelFacts
        <4> QED
          BY <2>1, <4>1 DEF LevelDropped
    <2>2. CASE after.liveCount # 0
      <3>1. levels' = PutLevel(side, price, after)
        BY <1>6, <2>2
      <3>2. DOMAIN levels[side] \cup {price} = DOMAIN levels[side]
        BY <1>3
      <3> QED
        <4>1. LevelPut(levels', side, price, after)
          BY <1>1, <1>2, <3>1, PutLevelFacts
        <4> QED
          BY <2>2, <3>2, <4>1 DEF LevelPut
    <2> QED
      BY <2>1, <2>2
  <1>10. RemovedFrom(level, id, side, price, index, slot, after)
    BY <1>2, <1>3, <1>4, <1>5, <1>6, <1>7, <1>8, <1>9, Zenon DEF RemovedFrom
  <1> QED
    BY <1>10, <1>a, Zenon

\* removeOrder() keeps table, levels, stored orders and pool in step: the indices of
\* the other orders of the level stay right, and the level goes with its last order.
LEMMA RemoveKeeps ==
    ASSUME BookHolds, NEW id \in DOMAIN refs, NEW level \in Level, RemoveFrom(level, id),
           level.orders = levels[refs[id].side][refs[id].price].orders,
           level.liveCount = Cardinality(LivePlaces(level)),
           \A i \in 1..level.frontIndex - 1 : level.orders[i] = Null
    PROVE  BookHolds'
  <1>a. PICK side, price, index, slot, after :
            /\ side = refs[id].side /\ price = refs[id].price /\ index = refs[id].index
            /\ slot = level.orders[refs[id].index]
            /\ after = Tombstoned(level, refs[id].index)
    OBVIOUS
  <1> DEFINE Found(i) == levels'[refs'[i].side][refs'[i].price].orders[refs'[i].index]
  <1>e. \A i : Found(i) = levels'[refs'[i].side][refs'[i].price].orders[refs'[i].index]
    OBVIOUS
  <1> HIDE DEF Found
  <1>1. BookTypeOK /\ RefsLead /\ PlacesHold /\ MemoryReached /\ PoolHolds(pool, DOMAIN memory)
    BY DEF BookHolds
  <1>2. /\ DOMAIN levels = Side
        /\ \A s \in Side : DOMAIN levels[s] \subseteq 0..MaxPrice
        /\ \A s \in Side : \A p \in DOMAIN levels[s] : levels[s][p] \in Level
        /\ DOMAIN refs \subseteq OrderId /\ IsFiniteSet(DOMAIN refs) /\ pool \in Pool
        /\ \A i \in DOMAIN refs : refs[i] \in OrderRef
        /\ DOMAIN memory \subseteq Nat \ {0}
        /\ \A s \in DOMAIN memory : memory[s] \in Stored
    BY <1>1 DEF BookTypeOK
  <1>r. RemovedFrom(level, id, refs[id].side, refs[id].price, refs[id].index,
                    level.orders[refs[id].index], Tombstoned(level, refs[id].index))
    BY RemoveFacts
  <1>s. RemovedFrom(level, id, side, price, index, slot, after)
    BY <1>a, <1>r, Zenon
  <1>3. /\ side \in Side /\ price \in DOMAIN levels[side]
        /\ index \in LivePlaces(level)
        /\ slot = SlotOf(id) /\ slot \in DOMAIN memory /\ memory[slot].id = id
        /\ level.orders = levels[side][price].orders
    BY <1>a, <1>s, Zenon DEF RemovedFrom
  <1>4. /\ DOMAIN memory' = DOMAIN memory \ {slot}
        /\ \A s \in DOMAIN memory \ {slot} : memory'[s] = memory[s]
        /\ DOMAIN refs' = DOMAIN refs \ {id}
        /\ \A i \in DOMAIN refs \ {id} : refs'[i] = refs[i]
        /\ pool' = Release(pool, slot)
    BY <1>s DEF RemovedFrom
  <1>5. /\ DOMAIN levels' = Side
        /\ \A s \in Side \ {side} : levels'[s] = levels[s]
        /\ \A q \in DOMAIN levels[side] \ {price} : levels'[side][q] = levels[side][q]
        /\ after.liveCount = 0 => DOMAIN levels'[side] = DOMAIN levels[side] \ {price}
        /\ after.liveCount # 0 => DOMAIN levels'[side] = DOMAIN levels[side]
                                  /\ levels'[side][price] = after
    BY <1>s DEF RemovedFrom
  <1>t. OneLess(level, index, after)
    <2>1. index \in LivePlaces(level) /\ after = Tombstoned(level, index)
      BY <1>3, <1>a, Zenon
    <2>2. OneLess(level, index, Tombstoned(level, index))
      BY <2>1, TombstonedLevel
    <2> QED
      BY <2>1, <2>2, Zenon
  <1>6. /\ after \in Level
        /\ Len(after.orders) = Len(level.orders)
        /\ \A j \in 1..Len(level.orders) : j # index => after.orders[j] = level.orders[j]
        /\ LivePlaces(after) = LivePlaces(level) \ {index}
        /\ after.liveCount = Cardinality(LivePlaces(after))
        /\ after.frontIndex = level.frontIndex
    BY <1>t, Zenon DEF OneLess
  <1>7. after.orders[index] = Null
    BY <1>t DEF OneLess
  <1>8. /\ LivePlaces(level) \subseteq 1..Len(level.orders) /\ Len(level.orders) \in Nat
        /\ level.frontIndex \in Nat \ {0}
    BY LiveFacts DEF Level
  <1>9. after.liveCount = 0 <=> LivePlaces(after) = {}
    BY <1>6, LiveFacts, FS_EmptySet, Zenon
  <1>10. LivePlaces(level) = LivePlaces(levels[side][price])
    BY <1>3 DEF LivePlaces
  <1>11. \A s \in Side : \A q \in DOMAIN levels'[s] :
            /\ q \in DOMAIN levels[s]
            /\ \/ s = side /\ q = price /\ levels'[s][q] = after /\ after.liveCount # 0
               \/ ~(s = side /\ q = price) /\ levels'[s][q] = levels[s][q]
    BY <1>3, <1>5
  <1>12. ASSUME NEW s \in Side, NEW q \in DOMAIN levels[s], NEW i \in LivePlaces(levels[s][q]),
                ~(s = side /\ q = price /\ i = index)
         PROVE  /\ q \in DOMAIN levels'[s] /\ i \in 1..Len(levels'[s][q].orders)
                /\ levels'[s][q].orders[i] = levels[s][q].orders[i]
    <2>1. CASE s = side /\ q = price
      <3>1. i \in LivePlaces(after) /\ i \in 1..Len(level.orders) /\ i # index
        BY <1>6, <1>8, <1>10, <1>12, <2>1, Zenon
      <3>2. after.liveCount # 0
        BY <1>9, <3>1
      <3>3. q \in DOMAIN levels'[s] /\ levels'[s][q] = after
        BY <1>5, <2>1, <3>2
      <3> QED
        BY <1>3, <1>6, <2>1, <3>1, <3>3
    <2>2. CASE ~(s = side /\ q = price)
      <3>1. q \in DOMAIN levels'[s] /\ levels'[s][q] = levels[s][q]
        BY <1>3, <1>5, <2>2
      <3> QED
        BY <3>1, Zenon DEF LivePlaces
    <2> QED
      BY <2>1, <2>2
  <1>13. \A i \in DOMAIN refs' : i \in DOMAIN refs /\ i # id /\ refs'[i] = refs[i]
    BY <1>4, Zenon
  <1>14. ASSUME NEW i \in DOMAIN refs'
         PROVE  /\ refs[i].side \in Side /\ refs[i].price \in DOMAIN levels'[refs[i].side]
                /\ refs[i].index \in 1..Len(levels'[refs[i].side][refs[i].price].orders)
                /\ Found(i) = SlotOf(i)
                /\ SlotOf(i) \in DOMAIN memory \ {slot}
                /\ memory[SlotOf(i)].id = i /\ memory[SlotOf(i)].price = refs[i].price
    <2>1. i \in DOMAIN refs /\ i # id /\ refs'[i] = refs[i]
      BY <1>13
    <2>2. refs[i].side \in Side
      BY <1>2, <2>1 DEF OrderRef
    <2>3. /\ refs[i].price \in DOMAIN levels[refs[i].side]
          /\ refs[i].index \in 1..Len(levels[refs[i].side][refs[i].price].orders)
          /\ SlotOf(i) \in DOMAIN memory
          /\ memory[SlotOf(i)].id = i /\ memory[SlotOf(i)].price = refs[i].price
      BY <1>1, <2>1 DEF RefsLead
    <2>4. SlotOf(i) # slot
      BY <1>3, <2>1, <2>3
    <2>5. levels[refs[i].side][refs[i].price].orders[refs[i].index] = SlotOf(i)
      BY DEF SlotOf
    <2>6. refs[i].index \in LivePlaces(levels[refs[i].side][refs[i].price])
      BY <1>2, <2>3, <2>5, Zenon DEF LivePlaces, Null
    <2>7. ~(refs[i].side = side /\ refs[i].price = price /\ refs[i].index = index)
      <3>1. slot = levels[side][price].orders[index]
        BY <1>3, <1>a, Zenon
      <3> QED
        BY <2>4, <2>5, <3>1, Zenon
    <2>8. /\ refs[i].price \in DOMAIN levels'[refs[i].side]
          /\ refs[i].index \in 1..Len(levels'[refs[i].side][refs[i].price].orders)
          /\ levels'[refs[i].side][refs[i].price].orders[refs[i].index] = SlotOf(i)
      BY <1>12, <2>2, <2>3, <2>5, <2>6, <2>7, Zenon
    <2> QED
      BY <1>e, <2>1, <2>2, <2>3, <2>4, <2>8, Zenon
  <1>15. PoolHolds(pool', DOMAIN memory') /\ pool' \in Pool
    BY <1>1, <1>2, <1>3, <1>4, ReleaseKeeps
  <1>16. BookTypeOK'
    <2>1. \A s \in Side : DOMAIN levels'[s] \subseteq 0..MaxPrice
      BY <1>2, <1>11
    <2>2. \A s \in Side : \A p \in DOMAIN levels'[s] : levels'[s][p] \in Level
      BY <1>2, <1>6, <1>11, Zenon
    <2>3. DOMAIN refs' \subseteq OrderId /\ IsFiniteSet(DOMAIN refs')
      <3>1. DOMAIN refs' = DOMAIN refs \ {id} /\ DOMAIN refs \subseteq OrderId
            /\ IsFiniteSet(DOMAIN refs)
        BY <1>2, <1>4, Zenon
      <3>2. IsFiniteSet(DOMAIN refs \ {id})
        BY <3>1, FS_RemoveElement, Zenon
      <3> QED
        BY <3>1, <3>2, Zenon
    <2>4. \A i \in DOMAIN refs' : refs'[i] \in OrderRef
      BY <1>2, <1>13, Zenon
    <2>5. DOMAIN memory' \subseteq Nat \ {0} /\ \A s \in DOMAIN memory' : memory'[s] \in Stored
      BY <1>2, <1>4, Zenon
    <2> QED
      BY <1>5, <1>15, <2>1, <2>2, <2>3, <2>4, <2>5
         DEF BookTypeOK, Level, OrderRef, Stored, Pool
  <1>17. RefsLead'
    <2> SUFFICES ASSUME NEW i \in DOMAIN refs'
                 PROVE  /\ refs'[i].price \in DOMAIN levels'[refs'[i].side]
                        /\ refs'[i].index
                             \in 1..Len(levels'[refs'[i].side][refs'[i].price].orders)
                        /\ Found(i) \in DOMAIN memory'
                        /\ memory'[Found(i)].id = i
                        /\ memory'[Found(i)].price = refs'[i].price
      BY <1>e, Zenon DEF RefsLead, SlotOf
    <2>1. refs'[i] = refs[i]
      BY <1>13
    <2>2. Found(i) \in DOMAIN memory' /\ memory'[Found(i)] = memory[SlotOf(i)]
      BY <1>4, <1>14
    <2> QED
      BY <1>14, <2>1, <2>2
  <1>18. PlacesHold'
    <2> SUFFICES ASSUME NEW s \in Side, NEW p \in DOMAIN levels'[s],
                        NEW i \in LivePlaces(levels'[s][p])
                 PROVE  /\ levels'[s][p].orders[i] \in DOMAIN memory'
                        /\ memory'[levels'[s][p].orders[i]].id \in DOMAIN refs'
                        /\ refs'[memory'[levels'[s][p].orders[i]].id]
                             = RefTo(s, p, i)
      BY Zenon DEF PlacesHold, LivePlaces, RefTo
    <2>1. /\ p \in DOMAIN levels[s] /\ i \in LivePlaces(levels[s][p])
          /\ ~(s = side /\ p = price /\ i = index)
      BY <1>6, <1>10, <1>11, Zenon
    <2>2. levels'[s][p].orders[i] = levels[s][p].orders[i]
      BY <1>12, <2>1
    <2>3. /\ levels[s][p].orders[i] \in DOMAIN memory
          /\ memory[levels[s][p].orders[i]].id \in DOMAIN refs
          /\ refs[memory[levels[s][p].orders[i]].id] = RefTo(s, p, i)
      BY <2>1, PlaceFacts, Zenon
    <2>4. memory[levels[s][p].orders[i]].id # id
      <3>1. RefTo(s, p, i).side = s /\ RefTo(s, p, i).price = p /\ RefTo(s, p, i).index = i
        BY Zenon DEF RefTo
      <3> QED
        BY <1>a, <2>1, <2>3, <3>1, Zenon
    <2>5. levels[s][p].orders[i] # slot
      BY <1>3, <2>4
    <2> QED
      BY <1>4, <2>2, <2>3, <2>4, <2>5, Zenon
  <1>19. MemoryReached'
    <2> SUFFICES ASSUME NEW s \in DOMAIN memory'
                 PROVE  memory'[s].id \in DOMAIN refs' /\ Found(memory'[s].id) = s
      BY <1>e, Zenon DEF MemoryReached, SlotOf
    <2>1. s \in DOMAIN memory /\ s # slot /\ memory'[s] = memory[s]
      BY <1>4
    <2>2. memory[s].id \in DOMAIN refs /\ SlotOf(memory[s].id) = s
      BY <1>1, <2>1 DEF MemoryReached
    <2>3. memory[s].id # id
      BY <1>3, <2>1, <2>2
    <2>4. memory[s].id \in DOMAIN refs'
      BY <1>4, <2>2, <2>3
    <2> QED
      BY <1>14, <2>1, <2>2, <2>4
  <1>20. LevelsCountTheLiving'
    <2>1. after.liveCount # 0 => CountsTheLiving(after)
      <3>1. after.liveCount # 0 => after.liveCount > 0
        BY <1>6 DEF Level
      <3>2. level.frontIndex <= index /\ index <= Len(level.orders) /\ index \in Nat
        <4>1. index \in 1..Len(level.orders) /\ level.orders[index] # Null
          BY <1>3 DEF LivePlaces
        <4>2. index \notin 1..level.frontIndex - 1
          BY <4>1
        <4> QED
          BY <1>8, <4>1, <4>2
      <3>3. ASSUME NEW i \in 1..after.frontIndex - 1 PROVE after.orders[i] = Null
        <4>0. after.frontIndex = level.frontIndex
          BY <1>6, Zenon
        <4>1. i \in 1..level.frontIndex - 1 /\ i \in 1..Len(level.orders) /\ i # index
          BY <1>8, <3>2, <4>0
        <4> QED
          BY <1>6, <4>1, Zenon
      <3> QED
        BY <1>6, <3>1, <3>3 DEF CountsTheLiving
    <2>2. \A s \in Side : \A p \in DOMAIN levels[s] : CountsTheLiving(levels[s][p])
      BY CountsEverywhere DEF BookHolds
    <2>3. \A s \in Side : \A p \in DOMAIN levels'[s] : CountsTheLiving(levels'[s][p])
      BY <1>11, <2>1, <2>2
    <2> QED
      BY <2>3, CountsEverywhere
  <1>21. PoolHolds(pool, DOMAIN memory)'
    BY <1>15 DEF PoolHolds, IsInjective, Range
  <1> QED
    BY <1>16, <1>17, <1>18, <1>19, <1>20, <1>21 DEF BookHolds

\* frontLive() applied: the level with frontIndex at its first live place.
Skipped(level) == [level EXCEPT !.frontIndex = FrontLive(level)]

FrontSkipped(level, after) ==
    /\ after \in Level
    /\ after.orders = level.orders
    /\ LivePlaces(after) = LivePlaces(level)
    /\ CountsTheLiving(after)
    /\ after.frontIndex \in LivePlaces(level)
    /\ \A i \in LivePlaces(level) : after.frontIndex <= i

\* It skips nothing but tombstones, and a level of the book has a live place.
LEMMA SkippedLevel ==
    ASSUME NEW level \in Level, CountsTheLiving(level)
    PROVE  FrontSkipped(level, Skipped(level))
  <1>a. PICK after, front : after = Skipped(level) /\ front = FrontLive(level)
    OBVIOUS
  <1>1. /\ after.orders = level.orders /\ after.liveCount = level.liveCount
        /\ after.frontIndex = front
        /\ after = [orders |-> level.orders, frontIndex |-> front, liveCount |-> level.liveCount]
    BY <1>a DEF Level, Skipped
  <1>2. LivePlaces(level) # {}
    <2>1. Cardinality(LivePlaces(level)) # 0
      BY DEF CountsTheLiving
    <2> QED
      BY <2>1, FS_EmptySet, Zenon
  <1>3. \A i \in 1..level.frontIndex - 1 : level.orders[i] = Null
    BY DEF CountsTheLiving
  <1>4. front \in LivePlaces(level) /\ \A i \in LivePlaces(level) : front <= i
    BY <1>2, <1>3, <1>a, FrontFacts
  <1>5. front \in 1..Len(level.orders) /\ Len(level.orders) \in Nat
    BY <1>4, LiveFacts
  <1>6. level.orders \in Seq(Nat) /\ level.liveCount \in Nat
    BY DEF Level
  <1>7. after \in Level
    BY <1>1, <1>5, <1>6 DEF Level
  <1>8. LivePlaces(after) = LivePlaces(level)
    BY <1>1 DEF LivePlaces
  <1>9. \A i \in 1..after.frontIndex - 1 : after.orders[i] = Null
    <2> SUFFICES ASSUME NEW i \in 1..front - 1 PROVE level.orders[i] = Null
      BY <1>1
    <2>1. i \in 1..Len(level.orders) /\ ~(front <= i)
      BY <1>5
    <2>2. i \notin LivePlaces(level)
      BY <1>4, <2>1
    <2> QED
      BY <2>1, <2>2 DEF LivePlaces
  <1>10. CountsTheLiving(after)
    BY <1>1, <1>8, <1>9 DEF CountsTheLiving
  <1>11. FrontSkipped(level, after)
    BY <1>1, <1>4, <1>7, <1>8, <1>10 DEF FrontSkipped
  <1> QED
    BY <1>a, <1>11, Zenon

\* The order cross() looks at: the first one of the best opposite level.
FrontAt(side, price, level, slot, resting) ==
    /\ side = Opposite(incoming.side) /\ side \in Side
    /\ price = Best(side, levels[side]) /\ price \in DOMAIN levels[side]
    /\ levels[side][price] \in Level
    /\ FrontSkipped(levels[side][price], level)
    /\ slot = level.orders[level.frontIndex] /\ slot \in DOMAIN memory
    /\ resting = memory[slot] /\ resting \in Stored
    /\ resting.id \in DOMAIN refs /\ resting.price = price
    /\ refs[resting.id] = RefTo(side, price, level.frontIndex)
    /\ SlotOf(resting.id) = slot

\* What one iteration of cross() does with it.
TradedWith(side, price, level, slot, resting, traded) ==
    /\ trades' = Append(trades, [incoming |-> incoming.id, resting |-> resting.id,
                                 price |-> resting.price, quantity |-> traded])
    /\ incoming' = [incoming EXCEPT !.quantity = @ - traded]
    /\ \/ resting.quantity = traded /\ RemoveFrom(level, resting.id)
       \/ /\ resting.quantity # traded
          /\ memory' = [memory EXCEPT ![slot].quantity = @ - traded]
          /\ levels' = PutLevel(side, price, level)
          /\ UNCHANGED <<refs, pool>>

\* While it crosses there is such an order.
LEMMA FrontExists ==
    ASSUME BookHolds, incoming \in Incoming, Crossing
    PROVE  \E side, price, level, slot, resting :
              /\ FrontAt(side, price, level, slot, resting)
              /\ level = Skipped(levels[side][price])
  <1>1. PICK side, price : side = Opposite(incoming.side) /\ price = Best(side, levels[side])
    OBVIOUS
  <1>2. PICK old, level : old = levels[side][price] /\ level = Skipped(levels[side][price])
    OBVIOUS
  <1>3. PICK slot, resting : slot = level.orders[level.frontIndex] /\ resting = memory[slot]
    OBVIOUS
  <1>4. side \in Side
    BY <1>1 DEF Incoming, Opposite, Side
  <1>5. price \in DOMAIN levels[side]
    <2>1. DOMAIN levels[side] # {} /\ DOMAIN levels[side] \in SUBSET (0..MaxPrice)
      BY <1>1, <1>4 DEF Crossing, BookHolds, BookTypeOK
    <2> QED
      BY <1>1, <1>4, <2>1, LimitsAssumption, BestFacts
  <1>6. old \in Level
    BY <1>2, <1>4, <1>5 DEF BookHolds, BookTypeOK
  <1>7. CountsTheLiving(old)
    BY <1>2, <1>4, <1>5, CountsEverywhere DEF BookHolds
  <1>8. FrontSkipped(old, level)
    <2>1. FrontSkipped(old, Skipped(old))
      BY <1>6, <1>7, SkippedLevel
    <2> QED
      BY <1>2, <2>1, Zenon
  <1>9. level.orders = old.orders /\ level.frontIndex \in LivePlaces(old)
    BY <1>8 DEF FrontSkipped
  <1>10. /\ levels[side][price].orders[level.frontIndex] \in DOMAIN memory
         /\ memory[levels[side][price].orders[level.frontIndex]].id \in DOMAIN refs
         /\ refs[memory[levels[side][price].orders[level.frontIndex]].id]
              = RefTo(side, price, level.frontIndex)
    <2>1. level.frontIndex \in LivePlaces(levels[side][price])
      BY <1>2, <1>9
    <2> QED
      BY <1>4, <1>5, <2>1, PlaceFacts, Zenon
  <1>11. slot = levels[side][price].orders[level.frontIndex]
    BY <1>2, <1>3, <1>9
  <1>12. slot \in DOMAIN memory /\ resting.id \in DOMAIN refs
         /\ refs[resting.id] = RefTo(side, price, level.frontIndex)
    BY <1>3, <1>10, <1>11, Zenon
  <1>13. resting \in Stored
    BY <1>3, <1>12 DEF BookHolds, BookTypeOK
  <1>14. SlotOf(resting.id) = slot
    BY <1>3, <1>12 DEF BookHolds, MemoryReached
  <1>15. resting.price = price
    <2>1. memory[SlotOf(resting.id)].price = refs[resting.id].price
      BY <1>12 DEF BookHolds, RefsLead
    <2>2. RefTo(side, price, level.frontIndex).price = price
      BY DEF RefTo
    <2> QED
      BY <1>3, <1>12, <1>14, <2>1, <2>2
  <1>16. FrontAt(side, price, level, slot, resting)
    BY <1>1, <1>2, <1>3, <1>4, <1>5, <1>6, <1>8, <1>12, <1>13, <1>14, <1>15, Zenon DEF FrontAt
  <1> QED
    BY <1>2, <1>16, Zenon

\* So one iteration trades with it: the branch that erases a level without a live
\* order is not taken.
LEMMA CrossFacts ==
    ASSUME BookHolds, incoming \in Incoming, CrossStep
    PROVE  \E side, price, level, slot, resting, traded :
              /\ FrontAt(side, price, level, slot, resting)
              /\ traded = MinOf(incoming.quantity, resting.quantity)
              /\ TradedWith(side, price, level, slot, resting, traded)
  <1>1. PICK side, price, level, slot, resting :
              /\ FrontAt(side, price, level, slot, resting)
              /\ level = Skipped(levels[side][price])
    <2>1. Crossing
      BY Zenon DEF CrossStep
    <2> QED
      BY <2>1, FrontExists
  <1>2. PICK traded : traded = MinOf(incoming.quantity, resting.quantity)
    OBVIOUS
  <1>3. /\ side = Opposite(incoming.side) /\ price = Best(side, levels[side])
        /\ slot = level.orders[level.frontIndex] /\ resting = memory[slot]
        /\ FrontSkipped(levels[side][price], level) /\ levels[side][price] \in Level
    BY <1>1, Zenon DEF FrontAt
  <1>4. ~(level.frontIndex > Len(level.orders))
    <2>1. /\ level.frontIndex \in LivePlaces(levels[side][price])
          /\ level.orders = levels[side][price].orders
      BY <1>3 DEF FrontSkipped
    <2>2. level.frontIndex \in 1..Len(level.orders) /\ Len(level.orders) \in Nat
      BY <1>3, <2>1, LiveFacts, Zenon
    <2> QED
      BY <2>2
  <1>5. TradedWith(side, price, level, slot, resting, traded)
    BY <1>1, <1>2, <1>3, <1>4, Zenon DEF CrossStep, Skipped, TradedWith
  <1> QED
    BY <1>1, <1>2, <1>5, Zenon

\* A resting order that is only partly filled stays where it is.
LEMMA PartialFillKeeps ==
    ASSUME BookHolds, NEW side, NEW price, NEW level, NEW slot, NEW resting, NEW traded \in Nat,
           FrontAt(side, price, level, slot, resting), traded < resting.quantity,
           memory' = [memory EXCEPT ![slot].quantity = @ - traded],
           levels' = PutLevel(side, price, level), refs' = refs, pool' = pool
    PROVE  BookHolds'
  <1>1. BookTypeOK /\ RefsLead /\ PlacesHold /\ MemoryReached /\ PoolHolds(pool, DOMAIN memory)
    BY DEF BookHolds
  <1>2. /\ DOMAIN levels = Side
        /\ \A s \in Side : DOMAIN levels[s] \subseteq 0..MaxPrice
        /\ \A s \in Side : \A p \in DOMAIN levels[s] : levels[s][p] \in Level
        /\ DOMAIN refs \subseteq OrderId /\ IsFiniteSet(DOMAIN refs) /\ pool \in Pool
        /\ \A i \in DOMAIN refs : refs[i] \in OrderRef
        /\ DOMAIN memory \subseteq Nat \ {0}
        /\ \A s \in DOMAIN memory : memory[s] \in Stored
    BY <1>1 DEF BookTypeOK
  <1>3. /\ side \in Side /\ price \in DOMAIN levels[side]
        /\ FrontSkipped(levels[side][price], level)
        /\ slot \in DOMAIN memory /\ resting = memory[slot] /\ resting \in Stored
    BY DEF FrontAt
  <1>4. /\ level \in Level /\ level.orders = levels[side][price].orders
        /\ LivePlaces(level) = LivePlaces(levels[side][price]) /\ CountsTheLiving(level)
    BY <1>3 DEF FrontSkipped
  <1>5. /\ DOMAIN memory' = DOMAIN memory
        /\ \A s \in DOMAIN memory : memory'[s] \in Stored /\ memory'[s].id = memory[s].id
                                    /\ memory'[s].price = memory[s].price
    <2>1. PICK left : left = [memory[slot] EXCEPT !.quantity = @ - traded]
      BY Zenon
    <2>2. memory' = [memory EXCEPT ![slot] = left]
      BY <2>1
    <2>3. left \in Stored /\ left.id = memory[slot].id /\ left.price = memory[slot].price
      <3>1. memory[slot].quantity \in 1..MaxQuantity /\ memory[slot].quantity - traded \in 1..MaxQuantity
        BY <1>3, LimitsAssumption DEF Stored
      <3> QED
        BY <1>3, <2>1, <3>1 DEF Stored
    <2> QED
      BY <1>2, <1>3, <2>2, <2>3
  <1>6. LevelPut(levels', side, price, level)
    BY <1>2, <1>3, PutLevelFacts
  <1>7. /\ DOMAIN levels' = Side
        /\ \A s \in Side : DOMAIN levels'[s] = DOMAIN levels[s]
        /\ \A s \in Side : \A q \in DOMAIN levels[s] :
              \/ s = side /\ q = price /\ levels'[s][q] = level
              \/ levels'[s][q] = levels[s][q]
    BY <1>3, <1>6, Zenon DEF LevelPut
  <1>8. \A s \in Side : \A q \in DOMAIN levels[s] :
            /\ levels'[s][q] \in Level /\ levels'[s][q].orders = levels[s][q].orders
            /\ LivePlaces(levels'[s][q]) = LivePlaces(levels[s][q])
            /\ CountsTheLiving(levels'[s][q])
    <2>1. \A s \in Side : \A p \in DOMAIN levels[s] : CountsTheLiving(levels[s][p])
      BY CountsEverywhere DEF BookHolds
    <2> QED
      BY <1>2, <1>4, <1>7, <2>1
  <1> DEFINE Found(i) == levels'[refs'[i].side][refs'[i].price].orders[refs'[i].index]
  <1>9. \A i \in DOMAIN refs : Found(i) = SlotOf(i)
    <2> SUFFICES ASSUME NEW i \in DOMAIN refs PROVE Found(i) = SlotOf(i)
      OBVIOUS
    <2>1. refs[i].side \in Side /\ refs[i].price \in DOMAIN levels[refs[i].side]
      BY <1>1, <1>2 DEF RefsLead, OrderRef
    <2> QED
      BY <1>8, <2>1 DEF SlotOf
  <1>e. \A i : Found(i) = levels'[refs'[i].side][refs'[i].price].orders[refs'[i].index]
    OBVIOUS
  <1> HIDE DEF Found
  <1>10. BookTypeOK'
    <2>1. \A s \in Side : DOMAIN levels'[s] \subseteq 0..MaxPrice
      BY <1>2, <1>7
    <2>2. \A s \in Side : \A p \in DOMAIN levels'[s] : levels'[s][p] \in Level
      BY <1>7, <1>8
    <2> QED
      BY <1>2, <1>5, <1>7, <2>1, <2>2, Zenon DEF BookTypeOK, Level, OrderRef, Stored, Pool
  <1>11. RefsLead'
    <2> SUFFICES ASSUME NEW i \in DOMAIN refs'
                 PROVE  /\ refs'[i].price \in DOMAIN levels'[refs'[i].side]
                        /\ refs'[i].index
                             \in 1..Len(levels'[refs'[i].side][refs'[i].price].orders)
                        /\ Found(i) \in DOMAIN memory'
                        /\ memory'[Found(i)].id = i
                        /\ memory'[Found(i)].price = refs'[i].price
      BY <1>e, Zenon DEF RefsLead, SlotOf
    <2>1. /\ refs[i].side \in Side /\ refs[i].price \in DOMAIN levels[refs[i].side]
          /\ refs[i].index \in 1..Len(levels[refs[i].side][refs[i].price].orders)
          /\ SlotOf(i) \in DOMAIN memory
          /\ memory[SlotOf(i)].id = i
          /\ memory[SlotOf(i)].price = refs[i].price
      BY <1>1, <1>2 DEF RefsLead, OrderRef
    <2>2. levels'[refs[i].side][refs[i].price].orders = levels[refs[i].side][refs[i].price].orders
      BY <1>8, <2>1
    <2> QED
      BY <1>5, <1>7, <1>9, <2>1, <2>2
  <1>12. PlacesHold'
    <2> SUFFICES ASSUME NEW s \in Side, NEW p \in DOMAIN levels'[s],
                        NEW i \in LivePlaces(levels'[s][p])
                 PROVE  /\ levels'[s][p].orders[i] \in DOMAIN memory'
                        /\ memory'[levels'[s][p].orders[i]].id \in DOMAIN refs'
                        /\ refs'[memory'[levels'[s][p].orders[i]].id] = RefTo(s, p, i)
      BY Zenon DEF PlacesHold, LivePlaces, RefTo
    <2>1. /\ p \in DOMAIN levels[s] /\ i \in LivePlaces(levels[s][p])
          /\ levels'[s][p].orders = levels[s][p].orders
      BY <1>7, <1>8
    <2>2. /\ levels[s][p].orders[i] \in DOMAIN memory
          /\ memory[levels[s][p].orders[i]].id \in DOMAIN refs
          /\ refs[memory[levels[s][p].orders[i]].id] = RefTo(s, p, i)
      BY <2>1, PlaceFacts, Zenon
    <2> QED
      BY <1>5, <2>1, <2>2
  <1>13. MemoryReached'
    <2> SUFFICES ASSUME NEW s \in DOMAIN memory'
                 PROVE  memory'[s].id \in DOMAIN refs' /\ Found(memory'[s].id) = s
      BY <1>e, Zenon DEF MemoryReached, SlotOf
    <2>1. s \in DOMAIN memory /\ memory[s].id \in DOMAIN refs /\ SlotOf(memory[s].id) = s
      BY <1>1, <1>5 DEF MemoryReached
    <2> QED
      BY <1>5, <1>9, <2>1
  <1>14. LevelsCountTheLiving'
    <2>1. \A s \in Side : \A p \in DOMAIN levels'[s] : CountsTheLiving(levels'[s][p])
      BY <1>7, <1>8
    <2> QED
      BY <2>1, CountsEverywhere
  <1>15. PoolHolds(pool, DOMAIN memory)'
    BY <1>1, <1>5 DEF PoolHolds, IsInjective, Range
  <1> QED
    BY <1>10, <1>11, <1>12, <1>13, <1>14, <1>15 DEF BookHolds

(***************************************************************************)
(* The invariant.                                                          *)
(***************************************************************************)

\* A step that leaves the book alone.
LEMMA SameBook ==
    ASSUME BookHolds, UNCHANGED <<levels, refs, pool, memory>>
    PROVE  BookHolds'
  <1>1. LevelsCountTheLiving'
    <2>1. \A s \in Side : \A p \in DOMAIN levels'[s] : CountsTheLiving(levels'[s][p])
      BY CountsEverywhere DEF BookHolds
    <2> QED
      BY <2>1, CountsEverywhere
  <1>2. BookTypeOK'
    BY DEF BookHolds, BookTypeOK, Level, OrderRef, Stored, Pool
  <1>3. RefsLead' /\ MemoryReached'
    BY Zenon DEF BookHolds, RefsLead, SlotOf, MemoryReached
  <1>4. PlacesHold'
    <2> SUFFICES ASSUME NEW s \in Side, NEW p \in DOMAIN levels'[s],
                        NEW i \in LivePlaces(levels'[s][p])
                 PROVE  /\ levels'[s][p].orders[i] \in DOMAIN memory'
                        /\ memory'[levels'[s][p].orders[i]].id \in DOMAIN refs'
                        /\ refs'[memory'[levels'[s][p].orders[i]].id] = RefTo(s, p, i)
      BY Zenon DEF PlacesHold, LivePlaces, RefTo
    <2> QED
      BY PlaceFacts, Zenon
  <1>5. PoolHolds(pool, DOMAIN memory)'
    BY DEF BookHolds, PoolHolds, IsInjective, Range
  <1> QED
    BY <1>1, <1>2, <1>3, <1>4, <1>5 DEF BookHolds

\* The empty book.
LEMMA OptimizedInvInit ==
    Init => OptimizedInv
  <1> SUFFICES ASSUME Init PROVE OptimizedInv
    OBVIOUS
  <1>1. DOMAIN levels = Side /\ \A side \in Side : DOMAIN levels[side] = {}
    BY DEF Init, NoLevels
  <1>2. DOMAIN refs = {} /\ DOMAIN memory = {}
    BY DEF Init
  <1>3. pool = [freeList |-> <<>>, live |-> <<>>] /\ mpc = "idle"
    BY DEF Init, EmptyPool
  <1>4. BookTypeOK
    BY <1>1, <1>2, <1>3, FS_EmptySet DEF BookTypeOK, Pool
  <1>5. RefsLead /\ PlacesHold /\ MemoryReached
    BY <1>1, <1>2 DEF RefsLead, PlacesHold, MemoryReached
  <1>6. LevelsCountTheLiving
    BY <1>1, CountsEverywhere
  <1>7. PoolHolds(pool, DOMAIN memory)
    BY <1>2, <1>3 DEF PoolHolds, IsInjective, Range
  <1> QED
    BY <1>3, <1>4, <1>5, <1>6, <1>7 DEF OptimizedInv, BookHolds

\* A trade takes something from both orders, and no more than they have.
LEMMA TradedFacts ==
    ASSUME NEW m \in Nat, NEW n \in Nat, m > 0, n > 0
    PROVE  /\ MinOf(m, n) \in Nat \ {0} /\ MinOf(m, n) <= m /\ MinOf(m, n) <= n
           /\ MinOf(m, n) # n => MinOf(m, n) < n /\ MinOf(m, n) = m
  BY DEF MinOf

\* One iteration of cross().
LEMMA CrossKeeps ==
    ASSUME BookHolds, incoming \in Incoming, incoming.id \notin DOMAIN refs, CrossStep
    PROVE  BookHolds' /\ incoming' \in Incoming /\ incoming'.id \notin DOMAIN refs'
  <1>1. PICK side, price, level, slot, resting, traded :
              /\ FrontAt(side, price, level, slot, resting)
              /\ traded = MinOf(incoming.quantity, resting.quantity)
              /\ TradedWith(side, price, level, slot, resting, traded)
    BY CrossFacts
  <1>2. incoming.quantity \in 0..MaxQuantity /\ incoming.quantity > 0
    BY Zenon DEF Incoming, CrossStep, Crossing
  <1>3. /\ side \in Side /\ price \in DOMAIN levels[side]
        /\ FrontSkipped(levels[side][price], level)
        /\ resting \in Stored /\ resting.id \in DOMAIN refs
        /\ refs[resting.id] = RefTo(side, price, level.frontIndex)
    BY <1>1, Zenon DEF FrontAt
  <1>4. resting.quantity \in 1..MaxQuantity
    BY <1>3 DEF Stored
  <1>5. /\ traded \in Nat \ {0} /\ traded <= incoming.quantity
        /\ traded # resting.quantity => traded < resting.quantity
    BY <1>1, <1>2, <1>4, LimitsAssumption, TradedFacts
  <1>6. incoming' \in Incoming /\ incoming'.id = incoming.id
    <2>1. incoming' = [incoming EXCEPT !.quantity = @ - traded]
      BY <1>1 DEF TradedWith
    <2>2. incoming.quantity - traded \in 0..MaxQuantity
      BY <1>2, <1>5, LimitsAssumption
    <2> QED
      BY <2>1, <2>2 DEF Incoming
  <1>7. CASE resting.quantity = traded
    <2>1. RemoveFrom(level, resting.id)
      BY <1>1, <1>7 DEF TradedWith
    <2>2. level \in Level /\ level.orders = levels[side][price].orders /\ CountsTheLiving(level)
      BY <1>3 DEF FrontSkipped
    <2>3. refs[resting.id].side = side /\ refs[resting.id].price = price
      BY <1>3 DEF RefTo
    <2>4. /\ level.liveCount = Cardinality(LivePlaces(level))
          /\ \A i \in 1..level.frontIndex - 1 : level.orders[i] = Null
      BY <2>2 DEF CountsTheLiving
    <2>5. level.orders = levels[refs[resting.id].side][refs[resting.id].price].orders
      BY <2>2, <2>3
    <2>6. BookHolds'
      BY <1>3, <2>1, <2>2, <2>4, <2>5, RemoveKeeps, Zenon
    <2>7. DOMAIN refs' = DOMAIN refs \ {resting.id}
      BY <2>1 DEF RemoveFrom, Restrict
    <2> QED
      BY <1>6, <2>6, <2>7
  <1>8. CASE resting.quantity # traded
    <2>1. /\ memory' = [memory EXCEPT ![slot].quantity = @ - traded]
          /\ levels' = PutLevel(side, price, level)
          /\ refs' = refs /\ pool' = pool
      BY <1>1, <1>8, Zenon DEF TradedWith
    <2>2. traded \in Nat /\ traded < resting.quantity /\ FrontAt(side, price, level, slot, resting)
      BY <1>1, <1>5, <1>8
    <2>3. BookHolds'
      BY <2>1, <2>2, PartialFillKeeps, Zenon
    <2> QED
      BY <1>6, <2>1, <2>3
  <1> QED
    BY <1>7, <1>8

\* Every step.
LEMMA OptimizedInvNext ==
    OptimizedInv /\ [Next]_optimizedVars => OptimizedInv'
  <1> SUFFICES ASSUME OptimizedInv, [Next]_optimizedVars PROVE OptimizedInv'
    OBVIOUS
  <1>1. /\ BookHolds /\ mpc \in {"idle", "cross"}
        /\ mpc = "cross" => incoming \in Incoming /\ incoming.id \notin DOMAIN refs
    BY DEF OptimizedInv
  <1>2. ASSUME NEW order \in Incoming, MatchOrder(order) PROVE OptimizedInv'
    <2>1. UNCHANGED <<levels, refs, pool, memory>> /\ mpc' = "cross" /\ incoming' = order
          /\ order.id \notin DOMAIN refs
      BY <1>2 DEF MatchOrder
    <2>2. BookHolds'
      BY <1>1, <2>1, SameBook
    <2>3. incoming' \in Incoming' /\ incoming'.id \notin DOMAIN refs'
      BY <2>1 DEF Incoming
    <2> QED
      BY <2>1, <2>2, <2>3 DEF OptimizedInv
  <1>3. CASE CrossStep
    <2>1. mpc = "cross" /\ mpc' = mpc
      BY <1>3, Zenon DEF CrossStep
    <2>2. BookHolds' /\ incoming' \in Incoming /\ incoming'.id \notin DOMAIN refs'
      BY <1>1, <1>3, <2>1, CrossKeeps
    <2> QED
      BY <2>1, <2>2 DEF OptimizedInv, Incoming
  <1>4. CASE FinishMatch
    <2>1. mpc = "cross" /\ mpc' = "idle"
      BY <1>4 DEF FinishMatch
    <2>2. BookHolds'
      <3>1. CASE incoming.quantity > 0
        <4>1. RestOrder(incoming)
          BY <1>4, <3>1 DEF FinishMatch
        <4> QED
          BY <1>1, <2>1, <3>1, <4>1, RestKeeps
      <3>2. CASE ~(incoming.quantity > 0)
        <4>1. UNCHANGED <<levels, refs, pool, memory>>
          BY <1>4, <3>2 DEF FinishMatch
        <4> QED
          BY <1>1, <4>1, SameBook
      <3> QED
        BY <3>1, <3>2
    <2> QED
      BY <2>1, <2>2 DEF OptimizedInv
  <1>5. ASSUME NEW id \in OrderId, CancelOrder(id) PROVE OptimizedInv'
    <2>1. mpc = "idle" /\ mpc' = mpc
      BY <1>5 DEF CancelOrder
    <2>2. CASE id \in DOMAIN refs
      <3>1. PICK level : level = levels[refs[id].side][refs[id].price]
        OBVIOUS
      <3>2. RemoveFrom(level, id)
        BY <1>5, <2>2, <3>1, Zenon DEF CancelOrder
      <3>3. refs[id].side \in Side /\ refs[id].price \in DOMAIN levels[refs[id].side]
        BY <1>1, <2>2 DEF BookHolds, BookTypeOK, RefsLead, OrderRef
      <3>4. level \in Level
        BY <1>1, <3>1, <3>3 DEF BookHolds, BookTypeOK
      <3>5. CountsTheLiving(level)
        BY <1>1, <3>1, <3>3, CountsEverywhere DEF BookHolds
      <3>6. /\ level.liveCount = Cardinality(LivePlaces(level))
            /\ \A i \in 1..level.frontIndex - 1 : level.orders[i] = Null
        BY <3>5 DEF CountsTheLiving
      <3>7. level.orders = levels[refs[id].side][refs[id].price].orders
        BY <3>1
      <3>8. BookHolds'
        BY <1>1, <2>2, <3>2, <3>4, <3>6, <3>7, RemoveKeeps
      <3> QED
        BY <2>1, <3>8 DEF OptimizedInv
    <2>3. CASE id \notin DOMAIN refs
      <3>1. UNCHANGED <<levels, refs, pool, memory>>
        BY <1>5, <2>3 DEF CancelOrder
      <3>2. BookHolds'
        BY <1>1, <3>1, SameBook
      <3> QED
        BY <2>1, <3>2 DEF OptimizedInv
    <2> QED
      BY <2>2, <2>3
  <1>6. CASE UNCHANGED optimizedVars
    <2>1. UNCHANGED <<levels, refs, pool, memory>> /\ UNCHANGED <<mpc, incoming>>
      BY <1>6 DEF optimizedVars
    <2>2. BookHolds'
      BY <1>1, <2>1, SameBook
    <2> QED
      BY <1>1, <2>1, <2>2 DEF OptimizedInv, Incoming
  <1> QED
    BY <1>2, <1>3, <1>4, <1>5, <1>6 DEF Next

\* Table, levels, stored orders and pool stay in step, whatever is added, matched
\* and cancelled, and in whatever order.
THEOREM OptimizedInvariance == Spec => []OptimizedInv
  BY OptimizedInvInit, OptimizedInvNext, PTL DEF Spec

\* liveCount is right, no empty level stays, and frontIndex passes no live order.
THEOREM LiveCountsAreRight == Spec => []LevelsCountTheLiving
  <1>1. OptimizedInv => LevelsCountTheLiving
    BY DEF OptimizedInv, BookHolds
  <1> QED
    BY <1>1, OptimizedInvariance, PTL

\* The index in the table leads to the order, however many orders of its level have
\* come and gone since it was added.
THEOREM IndicesNeverMove == Spec => []RefsStayRight
  <1>1. OptimizedInv => RefsStayRight
    <2> SUFFICES ASSUME OptimizedInv, NEW id \in DOMAIN refs
                 PROVE  /\ refs[id].price \in DOMAIN levels[refs[id].side]
                        /\ SlotOf(id) # Null /\ memory[SlotOf(id)].id = id
                        /\ memory[SlotOf(id)].price = refs[id].price
      BY Zenon DEF RefsStayRight, SlotOf
    <2>1. RefsLead /\ DOMAIN memory \subseteq Nat \ {0}
      BY DEF OptimizedInv, BookHolds, BookTypeOK
    <2> QED
      BY <2>1 DEF RefsLead, Null
  <1> QED
    BY <1>1, OptimizedInvariance, PTL

\* No slot is shared, lost, or handed out while an order is in it.
THEOREM PoolStaysSound == Spec => []PoolIsSound
  <1>1. ASSUME OptimizedInv PROVE PoolIsSound
    <2>1. BookHolds /\ BookTypeOK /\ RefsLead /\ MemoryReached /\ PoolHolds(pool, DOMAIN memory)
      BY <1>1 DEF OptimizedInv, BookHolds
    <2>2. /\ \A id \in DOMAIN refs : refs[id].side \in Side
          /\ DOMAIN memory \subseteq Nat \ {0} /\ IsFiniteSet(DOMAIN refs)
      BY <2>1 DEF BookTypeOK, OrderRef
    <2>3. \A slot : slot \in UsedSlots <=>
              \E side \in Side : \E p \in DOMAIN levels[side] :
                 \E i \in LivePlaces(levels[side][p]) : slot = levels[side][p].orders[i]
      BY DEF UsedSlots, AllLevels
    <2>4. UsedSlots \subseteq DOMAIN memory
      BY <2>1, <2>3, PlaceFacts
    <2>5. ASSUME NEW slot \in DOMAIN memory PROVE slot \in UsedSlots
      <3>1. PICK id : id = memory[slot].id
        OBVIOUS
      <3>2. id \in DOMAIN refs /\ SlotOf(id) = slot
        BY <2>1, <3>1 DEF MemoryReached
      <3>3. /\ refs[id].side \in Side /\ refs[id].price \in DOMAIN levels[refs[id].side]
            /\ refs[id].index \in 1..Len(levels[refs[id].side][refs[id].price].orders)
        BY <2>1, <2>2, <3>2 DEF RefsLead
      <3>4. slot = levels[refs[id].side][refs[id].price].orders[refs[id].index] /\ slot # 0
        BY <2>2, <3>2 DEF SlotOf
      <3>5. refs[id].index \in LivePlaces(levels[refs[id].side][refs[id].price])
        BY <3>3, <3>4, Zenon DEF LivePlaces, Null
      <3> QED
        BY <2>3, <3>3, <3>4, <3>5, Zenon
    <2>6. UsedSlots = DOMAIN memory
      BY <2>4, <2>5
    <2>7. Cardinality(DOMAIN memory) = Cardinality(DOMAIN refs)
      <3> DEFINE f == [id \in DOMAIN refs |-> SlotOf(id)]
      <3>1. \A id \in DOMAIN refs : SlotOf(id) \in DOMAIN memory /\ memory[SlotOf(id)].id = id
        BY <2>1 DEF RefsLead
      <3>2. \A slot \in DOMAIN memory : memory[slot].id \in DOMAIN refs /\ SlotOf(memory[slot].id) = slot
        BY <2>1 DEF MemoryReached
      <3>3. f \in Bijection(DOMAIN refs, DOMAIN memory)
        <4>1. f \in [DOMAIN refs -> DOMAIN memory]
          BY <3>1
        <4>2. IsInjective(f)
          BY <3>1 DEF IsInjective
        <4>3. \A slot \in DOMAIN memory : \E id \in DOMAIN refs : f[id] = slot
          BY <3>2
        <4> QED
          BY <4>1, <4>2, <4>3 DEF Bijection, Injection, Surjection
      <3>4. ExistsBijection(DOMAIN refs, DOMAIN memory)
        BY <3>3 DEF ExistsBijection
      <3> QED
        BY <2>2, <3>4, FS_Bijection
    <2> QED
      BY <2>1, <2>6, <2>7 DEF PoolIsSound, PoolHolds
  <1>2. OptimizedInv => PoolIsSound
    BY <1>1
  <1> QED
    BY <1>2, OptimizedInvariance, PTL
=============================================================================
