-------------------------- MODULE MatchOrderProofs --------------------------
(***************************************************************************)
(* Facts about books, that of the matcher and that of the shadow queues:   *)
(* what it means for levels and a table to agree, and what the operations  *)
(* of the order manager make of them; the inductive invariant of the order *)
(* manager; and the proof that the steps of matchOrder keep it.            *)
(***************************************************************************)
EXTENDS OrderManager, ReferenceMatcherProofs

\* A FIFO holds orders of its own side and price, each of them once.
GoodLevel(fifo, t, side, p) ==
    /\ fifo # <<>>
    /\ \A i \in 1..Len(fifo) :
          /\ fifo[i] \in DOMAIN t
          /\ t[fifo[i]].side = side
          /\ t[fifo[i]].price = p
    /\ \A i, j \in 1..Len(fifo) : fifo[i] = fifo[j] => i = j

Holds(fifo, id) == \E i \in 1..Len(fifo) : fifo[i] = id

\* An order of the table is in the FIFO its location names.
GoodEntry(b, place, id) ==
    /\ place.quantity > 0
    /\ place.price \in DOMAIN b[place.side]
    /\ Holds(b[place.side][place.price], id)

\* Levels and table form a book that is in order.
InOrder(b, t) ==
    /\ TypedBook(b, t)
    /\ \A side \in Side : \A p \in DOMAIN b[side] : GoodLevel(b[side][p], t, side, p)
    /\ \A id \in DOMAIN t : GoodEntry(b, t[id], id)
    /\ Uncrossed(b)

\* Two tables that place the same orders in the same levels.
SamePlaces(t, u) ==
    /\ DOMAIN u = DOMAIN t
    /\ \A id \in DOMAIN t : /\ u[id] \in Location
                             /\ u[id].side = t[id].side
                             /\ u[id].price = t[id].price
                             /\ u[id].quantity > 0

\* No level of the other side is within the limit of an order.
ReachesNone(b, side, price) ==
    \A p \in DOMAIN b[Opposite(side)] : ~Reaches(side, price, p)

\* The best level of a side, and the order at its front.
BestOf(b, side) == Best(side, b[side])
FrontOf(b, side) == Head(b[side][BestOf(b, side)])

\* Other levels for one side.
SetSide(b, side, levels) == [b EXCEPT ![side] = levels]

\* Another FIFO for one level.
WithLevel(b, side, p, fifo) ==
    [b EXCEPT ![side] = IF fifo = <<>> THEN EraseLevel(@, p) ELSE [@ EXCEPT ![p] = fifo]]

\* The ids at some places of a FIFO.
IdsAt(fifo, places) == {fifo[n] : n \in places}

Without(t, ids) == Restrict(t, DOMAIN t \ ids)

\* What a copy of an order says of its place in the book, and the table the matcher
\* would have if it held these orders.
Entry(snapshot) ==
    [side |-> snapshot.side, price |-> snapshot.price, quantity |-> snapshot.quantity]
MirrorOf(ids, snapshots) == [id \in ids |-> Entry(snapshots[id])]

IsMap(f) == f = [x \in DOMAIN f |-> f[x]]

\* Levels on both sides, and nothing else.
IsBook(b) ==
    /\ IsMap(b)
    /\ DOMAIN b = Side
    /\ \A side \in Side : IsMap(b[side])

-----------------------------------------------------------------------------
\* Table and lists agree when every list and every entry does.
LEMMA Agreement ==
    ASSUME NEW b, NEW t
    PROVE  /\ ListsInTable(b, t)
              <=> \A side \in Side : \A p \in DOMAIN b[side] : GoodLevel(b[side][p], t, side, p)
           /\ TableInLists(b, t) <=> \A id \in DOMAIN t : GoodEntry(b, t[id], id)
  <1>1. ListsInTable(b, t)
        <=> \A side \in Side : \A p \in DOMAIN b[side] : GoodLevel(b[side][p], t, side, p)
    BY Zenon DEF ListsInTable, GoodLevel
  <1>2. TableInLists(b, t) <=> \A id \in DOMAIN t : GoodEntry(b, t[id], id)
    BY Zenon DEF TableInLists, GoodEntry, Holds
  <1> QED
    BY <1>1, <1>2

\* The matcher's own book is in order.
LEMMA MatcherInOrder ==
    ASSUME MatcherInv
    PROVE  InOrder(book, orderTable)
  <1>1. BookTyped /\ BookConsistent /\ NoCrossedBook
    BY SplitType DEF MatcherInv
  <1>2. TypedBook(book, orderTable)
    BY <1>1, Zenon DEF BookTyped, TypedBook
  <1>3. Uncrossed(book)
    BY <1>1, Zenon DEF NoCrossedBook, Uncrossed
  <1>4. /\ \A side \in Side : \A p \in DOMAIN book[side] :
               GoodLevel(book[side][p], orderTable, side, p)
        /\ \A id \in DOMAIN orderTable : GoodEntry(book, orderTable[id], id)
    BY <1>1, Halves, Agreement
  <1> QED
    BY <1>2, <1>3, <1>4, Zenon DEF InOrder

\* The side across is a side, and the other one.
LEMMA OppositeFacts ==
    ASSUME NEW side \in Side
    PROVE  Opposite(side) \in Side /\ Opposite(side) # side /\ Opposite(Opposite(side)) = side
  BY DEF Opposite, Side

\* What a book in order says of one level.
LEMMA LevelInOrder ==
    ASSUME NEW b, NEW t, InOrder(b, t), NEW s \in Side, NEW p \in DOMAIN b[s]
    PROVE  /\ p \in Price
           /\ b[s][p] \in Seq(OrderId)
           /\ GoodLevel(b[s][p], t, s, p)
  BY DEF InOrder, TypedBook

\* What a book in order says of one order of the table.
LEMMA EntryInOrder ==
    ASSUME NEW b, NEW t, InOrder(b, t), NEW id \in DOMAIN t
    PROVE  /\ id \in OrderId
           /\ t[id] \in Location
           /\ t[id].side \in Side
           /\ t[id].price \in Price
           /\ t[id].quantity \in Quantity
           /\ t[id].quantity > 0
           /\ t[id].price \in DOMAIN b[t[id].side]
           /\ Holds(b[t[id].side][t[id].price], id)
  <1>1. id \in OrderId /\ t[id] \in Location
    BY DEF InOrder, TypedBook
  <1>2. GoodEntry(b, t[id], id)
    BY DEF InOrder
  <1>3. t[id].side \in Side /\ t[id].price \in Price /\ t[id].quantity \in Quantity
    BY <1>1 DEF Location
  <1> QED
    BY <1>1, <1>2, <1>3 DEF GoodEntry

\* The best level of a side and the order at its front.
LEMMA FrontInOrder ==
    ASSUME NEW b, NEW t, InOrder(b, t), NEW s \in Side, DOMAIN b[s] # {}
    PROVE  /\ BestOf(b, s) \in DOMAIN b[s]
           /\ \A p \in DOMAIN b[s] : Reaches(s, BestOf(b, s), p)
           /\ FrontOf(b, s) \in DOMAIN t
           /\ t[FrontOf(b, s)].side = s
           /\ t[FrontOf(b, s)].price = BestOf(b, s)
  <1> DEFINE p    == Best(s, b[s])
             fifo == b[s][p]
  <1>1. DOMAIN b[s] \in SUBSET (0..MaxPrice) /\ MaxPrice \in Nat
    BY MatcherAssumption DEF InOrder, TypedBook, Price
  <1>2. p \in DOMAIN b[s] /\ \A q \in DOMAIN b[s] : Reaches(s, p, q)
    BY <1>1, BestFacts
  <1> HIDE DEF p
  <1>3. fifo \in Seq(OrderId) /\ GoodLevel(fifo, t, s, p)
    BY <1>2, LevelInOrder
  <1> HIDE DEF fifo
  <1>4. 1 \in 1..Len(fifo) /\ Head(fifo) = fifo[1]
    BY <1>3 DEF GoodLevel
  <1>5. Head(fifo) \in DOMAIN t /\ t[Head(fifo)].side = s /\ t[Head(fifo)].price = p
    BY <1>3, <1>4 DEF GoodLevel
  <1> QED
    BY <1>2, <1>5 DEF fifo, p, BestOf, FrontOf

\* A side that has no level within the limit does not cross, and the other way round.
LEMMA BestDecides ==
    ASSUME NEW b, NEW t, InOrder(b, t), NEW s \in Side, NEW price \in Price
    PROVE  ReachesNone(b, s, price)
           <=> ~(/\ DOMAIN b[Opposite(s)] # {}
                 /\ Reaches(s, price, Best(Opposite(s), b[Opposite(s)])))
  <1> DEFINE o == Opposite(s)
             D == DOMAIN b[o]
             x == Best(o, b[o])
  <1>1. o \in Side
    BY OppositeFacts
  <1>2. CASE D = {}
    BY <1>2 DEF ReachesNone
  <1>3. CASE D # {}
    <2>1. x \in D /\ \A p \in D : Reaches(o, x, p)
      BY <1>1, <1>3, FrontInOrder DEF BestOf
    <2>2. D \subseteq 0..MaxPrice /\ price \in 0..MaxPrice /\ MaxPrice \in Nat
      BY <1>1, MatcherAssumption DEF InOrder, TypedBook, Price
    <2>3. ReachesNone(b, s, price) <=> \A p \in D : ~Reaches(s, price, p)
      BY DEF ReachesNone
    <2> HIDE DEF D, x
    <2>4. \A p \in D : Reaches(s, price, p) => Reaches(s, price, x)
      BY <2>1, <2>2 DEF Reaches, Opposite, Side
    <2> QED
      BY <1>3, <2>1, <2>3, <2>4 DEF D, x
  <1> QED
    BY <1>2, <1>3

\* untrackResting() erases the order where the table says it is.
LEMMA UntrackFinds ==
    ASSUME NEW b, NEW t, InOrder(b, t), NEW id \in DOMAIN t
    PROVE  UntrackResting(b, id)
           = [b EXCEPT ![t[id].side] = EraseOrder(@, t[id].price, id)]
  <1> DEFINE s == t[id].side
             p == t[id].price
             Holding(side) == {q \in DOMAIN b[side] : id \in Range(b[side][q])}
             EraseFrom(side) == [b EXCEPT ![side] = EraseOrder(@, Min(Holding(side)), id)]
  <1>1. s \in Side /\ p \in Price /\ p \in DOMAIN b[s] /\ Holds(b[s][p], id)
    BY EntryInOrder
  <1>2. ASSUME NEW side \in Side, NEW q \in DOMAIN b[side]
        PROVE  id \in Range(b[side][q]) <=> side = s /\ q = p
    <2> DEFINE fifo == b[side][q]
    <2>1. fifo \in Seq(OrderId) /\ GoodLevel(fifo, t, side, q)
      BY LevelInOrder
    <2>2. side = s /\ q = p => Holds(fifo, id)
      BY <1>1
    <2> HIDE DEF fifo
    <2>3. Holds(fifo, id) => s = side /\ p = q
      BY <2>1 DEF GoodLevel, Holds
    <2>4. DOMAIN fifo = 1..Len(fifo)
      BY <2>1
    <2>5. id \in Range(fifo) <=> Holds(fifo, id)
      BY <2>4 DEF Range, Holds
    <2> QED
      BY <2>2, <2>3, <2>5 DEF fifo
  <1>3. Holding(s) = {p}
    BY <1>1, <1>2
  <1>4. \A side \in Side : side # s => Holding(side) = {}
    BY <1>2
  <1>5. Min({p}) = p
    <2>1. p \in Nat
      BY <1>1, MatcherAssumption DEF Price
    <2> HIDE DEF p
    <2> QED
      BY <2>1 DEF Min
  <1>6. EraseFrom(s) = [b EXCEPT ![s] = EraseOrder(@, p, id)]
    BY <1>3, <1>5, Zenon
  <1>7. UntrackResting(b, id)
        = IF Holding("Buy") # {} THEN EraseFrom("Buy")
          ELSE IF Holding("Sell") # {} THEN EraseFrom("Sell") ELSE b
    BY DEF UntrackResting
  <1> HIDE DEF Holding, EraseFrom, s, p
  <1>8. s = "Buy" \/ s = "Sell"
    BY <1>1 DEF Side
  <1>9. UntrackResting(b, id) = EraseFrom(s)
    <2>1. CASE s = "Buy"
      BY <1>3, <1>7, <2>1
    <2>2. CASE s = "Sell"
      BY <1>3, <1>4, <1>7, <2>2 DEF Side
    <2> QED
      BY <1>8, <2>1, <2>2
  <1> QED
    BY <1>6, <1>9 DEF s, p

\* A table that differs from another one in quantities fits the same levels.
LEMMA Requantified ==
    ASSUME NEW b, NEW t, InOrder(b, t), NEW u, SamePlaces(t, u)
    PROVE  InOrder(b, u)
  <1>1. TypedBook(b, u)
    BY DEF InOrder, TypedBook, SamePlaces
  <1>2. ASSUME NEW side \in Side, NEW p \in DOMAIN b[side]
        PROVE  GoodLevel(b[side][p], u, side, p)
    <2> DEFINE fifo == b[side][p]
    <2>1. GoodLevel(fifo, t, side, p)
      BY LevelInOrder
    <2> HIDE DEF fifo
    <2>2. GoodLevel(fifo, u, side, p)
      BY <2>1 DEF GoodLevel, SamePlaces
    <2> QED
      BY <2>2 DEF fifo
  <1>3. ASSUME NEW id \in DOMAIN u
        PROVE  GoodEntry(b, u[id], id)
    <2>1. id \in DOMAIN t
      BY DEF SamePlaces
    <2>2. u[id].side = t[id].side /\ u[id].price = t[id].price /\ u[id].quantity > 0
      BY <2>1 DEF SamePlaces
    <2>3. t[id].price \in DOMAIN b[t[id].side] /\ Holds(b[t[id].side][t[id].price], id)
      BY <2>1, EntryInOrder
    <2> QED
      BY <2>2, <2>3 DEF GoodEntry
  <1> QED
    BY <1>1, <1>2, <1>3 DEF InOrder

\* A book with other levels on one side is a book.
LEMMA ReplaceSide ==
    ASSUME NEW b, IsBook(b), NEW s \in Side, NEW levels, IsMap(levels)
    PROVE  IsBook(SetSide(b, s, levels))
  <1> DEFINE c == [b EXCEPT ![s] = levels]
  <1>1. DOMAIN c = Side /\ c[s] = levels /\ \A side \in Side : side # s => c[side] = b[side]
    BY DEF IsBook
  <1>2. IsMap(c)
    BY DEF IsMap
  <1>3. \A side \in Side : IsMap(b[side])
    BY DEF IsBook
  <1> HIDE DEF c
  <1>4. \A side \in Side : IsMap(c[side])
    BY <1>1, <1>3
  <1>5. IsBook(c)
    BY <1>1, <1>2, <1>4 DEF IsBook
  <1> QED
    BY <1>5 DEF c, SetSide

\* What push_back and erase leave is a map.
LEMMA LevelsAreMaps ==
    ASSUME NEW levels, NEW p, NEW id
    PROVE  IsMap(PushBack(levels, p, id)) /\ IsMap(EraseOrder(levels, p, id))
  <1>1. IsMap(PushBack(levels, p, id))
    BY DEF IsMap, PushBack
  <1>2. IsMap(EraseLevel(levels, p))
    BY DEF IsMap, EraseLevel, Restrict
  <1> DEFINE rest == EraseAt(levels[p], PositionOf(levels[p], id))
  <1>3. IsMap([levels EXCEPT ![p] = rest])
    BY DEF IsMap
  <1>4. EraseOrder(levels, p, id)
        = IF rest = <<>> THEN EraseLevel(levels, p) ELSE [levels EXCEPT ![p] = rest]
    BY DEF EraseOrder
  <1> HIDE DEF rest
  <1> QED
    BY <1>1, <1>2, <1>3, <1>4

\* What there is in a book with another FIFO for one level.
LEMMA WithLevelFacts ==
    ASSUME NEW b, DOMAIN b = Side, NEW s \in Side, NEW p \in DOMAIN b[s], NEW fifo
    PROVE  /\ DOMAIN WithLevel(b, s, p, fifo) = Side
           /\ WithLevel(b, s, p, fifo)[s]
              = IF fifo = <<>> THEN EraseLevel(b[s], p) ELSE [b[s] EXCEPT ![p] = fifo]
           /\ \A side \in Side : side # s => WithLevel(b, s, p, fifo)[side] = b[side]
  <1> DEFINE levels == IF fifo = <<>> THEN EraseLevel(b[s], p) ELSE [b[s] EXCEPT ![p] = fifo]
             c      == [b EXCEPT ![s] = levels]
  <1>1. WithLevel(b, s, p, fifo) = c
    BY DEF WithLevel
  <1> HIDE DEF levels
  <1>2. DOMAIN c = Side /\ c[s] = levels /\ \A side \in Side : side # s => c[side] = b[side]
    OBVIOUS
  <1> HIDE DEF c
  <1> QED
    BY <1>1, <1>2 DEF levels

\* The other side of the book stays as it is.
LEMMA WithLevelElsewhere ==
    ASSUME NEW b, DOMAIN b = Side, NEW s \in Side, NEW p \in DOMAIN b[s], NEW fifo,
           NEW side \in Side, side # s
    PROVE  WithLevel(b, s, p, fifo)[side] = b[side]
  <1> DEFINE levels == IF fifo = <<>> THEN EraseLevel(b[s], p) ELSE [b[s] EXCEPT ![p] = fifo]
  <1>1. WithLevel(b, s, p, fifo) = [b EXCEPT ![s] = levels]
    BY DEF WithLevel
  <1> HIDE DEF levels
  <1> QED
    BY <1>1

\* A level that is not empty is there, with its FIFO.
LEMMA WithLevelAt ==
    ASSUME NEW b, DOMAIN b = Side, NEW s \in Side, NEW p \in DOMAIN b[s], NEW fifo, fifo # <<>>
    PROVE  /\ p \in DOMAIN WithLevel(b, s, p, fifo)[s]
           /\ WithLevel(b, s, p, fifo)[s][p] = fifo
  <1>1. WithLevel(b, s, p, fifo)[s] = [b[s] EXCEPT ![p] = fifo]
    BY WithLevelFacts
  <1> QED
    BY <1>1

\* Replacing a side also replaces the level that was changed in it.
LEMMA WithLevelReplaced ==
    ASSUME NEW b, NEW s, NEW p, NEW fifo, NEW levels
    PROVE  SetSide(WithLevel(b, s, p, fifo), s, levels) = SetSide(b, s, levels)
  <1> DEFINE other == IF fifo = <<>> THEN EraseLevel(b[s], p) ELSE [b[s] EXCEPT ![p] = fifo]
  <1>1. WithLevel(b, s, p, fifo) = [b EXCEPT ![s] = other]
    BY DEF WithLevel
  <1> HIDE DEF other
  <1> QED
    BY <1>1, Zenon DEF SetSide

\* A level with its own FIFO is the level it was.
LEMMA WithLevelWhole ==
    ASSUME NEW b, IsBook(b), NEW s \in Side, NEW p \in DOMAIN b[s], b[s][p] # <<>>
    PROVE  WithLevel(b, s, p, b[s][p]) = b
  <1>1. WithLevel(b, s, p, b[s][p]) = [b EXCEPT ![s] = [b[s] EXCEPT ![p] = b[s][p]]]
    BY DEF WithLevel
  <1>2. b[s] = [q \in DOMAIN b[s] |-> b[s][q]] /\ b = [x \in DOMAIN b |-> b[x]]
    BY DEF IsBook, IsMap
  <1>3. [b[s] EXCEPT ![p] = b[s][p]] = [q \in DOMAIN b[s] |-> b[s][q]]
    OBVIOUS
  <1>4. [b EXCEPT ![s] = b[s]] = [x \in DOMAIN b |-> b[x]]
    OBVIOUS
  <1> QED
    BY <1>1, <1>2, <1>3, <1>4

\* Erasing the front order of a level leaves the rest of it.
LEMMA EraseFirst ==
    ASSUME NEW b, DOMAIN b = Side, NEW s \in Side, NEW p \in DOMAIN b[s],
           NEW S, NEW fifo \in Seq(S), fifo # <<>>,
           \A i, j \in 1..Len(fifo) : fifo[i] = fifo[j] => i = j
    PROVE  SetSide(WithLevel(b, s, p, fifo), s,
                   EraseOrder(WithLevel(b, s, p, fifo)[s], p, Head(fifo)))
           = WithLevel(b, s, p, Tail(fifo))
  <1> DEFINE levels == [b[s] EXCEPT ![p] = fifo]
  <1>1. PositionOf(fifo, Head(fifo)) = 1
    <2>1. 1 \in 1..Len(fifo) /\ Head(fifo) = fifo[1]
      OBVIOUS
    <2>2. /\ PositionOf(fifo, Head(fifo)) \in 1..Len(fifo)
          /\ fifo[PositionOf(fifo, Head(fifo))] = Head(fifo)
      BY <2>1, PositionFacts
    <2> QED
      BY <2>1, <2>2
  <1>2. EraseAt(fifo, 1) = Tail(fifo)
    <2>1. SubSeq(fifo, 1, 0) = <<>>
      OBVIOUS
    <2>2. Tail(fifo) = SubSeq(fifo, 2, Len(fifo)) /\ Tail(fifo) \in Seq(S)
      OBVIOUS
    <2>3. EraseAt(fifo, 1) = <<>> \o Tail(fifo)
      BY <2>1, <2>2 DEF EraseAt
    <2> QED
      BY <2>2, <2>3
  <1>3. levels[p] = fifo /\ DOMAIN levels = DOMAIN b[s]
    OBVIOUS
  <1>4. EraseOrder(levels, p, Head(fifo))
        = IF Tail(fifo) = <<>> THEN EraseLevel(levels, p) ELSE [levels EXCEPT ![p] = Tail(fifo)]
    BY <1>1, <1>2, <1>3 DEF EraseOrder
  <1>5. EraseLevel(levels, p) = EraseLevel(b[s], p)
    BY DEF EraseLevel, Restrict
  <1>6. [levels EXCEPT ![p] = Tail(fifo)] = [b[s] EXCEPT ![p] = Tail(fifo)]
    OBVIOUS
  <1>7. WithLevel(b, s, p, fifo)[s] = levels
    BY WithLevelFacts
  <1> HIDE DEF levels
  <1>8. SetSide(WithLevel(b, s, p, fifo), s, EraseOrder(levels, p, Head(fifo)))
        = SetSide(b, s, EraseOrder(levels, p, Head(fifo)))
    BY WithLevelReplaced
  <1>9. SetSide(b, s, EraseOrder(levels, p, Head(fifo))) = WithLevel(b, s, p, Tail(fifo))
    BY <1>4, <1>5, <1>6, Zenon DEF WithLevel, SetSide
  <1> QED
    BY <1>7, <1>8, <1>9

\* Pushing the next order of a level makes the prefix of the level one longer.
LEMMA PushNext ==
    ASSUME NEW b, DOMAIN b = Side, NEW s \in Side, NEW p \in DOMAIN b[s],
           NEW S, NEW fifo \in Seq(S), NEW k \in 1..Len(fifo)
    PROVE  SetSide(WithLevel(b, s, p, SubSeq(fifo, 1, k - 1)), s,
                   PushBack(WithLevel(b, s, p, SubSeq(fifo, 1, k - 1))[s], p, fifo[k]))
           = WithLevel(b, s, p, SubSeq(fifo, 1, k))
  <1> DEFINE short  == SubSeq(fifo, 1, k - 1)
             long   == SubSeq(fifo, 1, k)
             levels == WithLevel(b, s, p, short)[s]
  <1>1. long = short \o <<fifo[k]>> /\ short \in Seq(S) /\ fifo[k] \in S
    BY SubSeqUpToNext
  <1> HIDE DEF short, long
  <1>2. levels = IF short = <<>> THEN EraseLevel(b[s], p) ELSE [b[s] EXCEPT ![p] = short]
    BY WithLevelFacts
  <1>3. /\ long # <<>> /\ long = Append(short, fifo[k])
        /\ short = <<>> => long = <<fifo[k]>>
    <2> DEFINE x == fifo[k]
    <2>1. long = short \o <<x>> /\ short \in Seq(S) /\ x \in S
      BY <1>1
    <2> HIDE DEF x
    <2>2. long = Append(short, x) /\ long # <<>>
      BY <2>1
    <2>3. <<>> \o <<x>> = <<x>>
      BY <2>1
    <2>4. short = <<>> => long = <<x>>
      BY <2>1, <2>3, Zenon
    <2> QED
      BY <2>2, <2>4 DEF x
  <1>4. SetSide(WithLevel(b, s, p, short), s, PushBack(levels, p, fifo[k]))
        = SetSide(b, s, PushBack(levels, p, fifo[k]))
    BY WithLevelReplaced
  <1> HIDE DEF levels
  <1>5. PushBack(levels, p, fifo[k]) = [b[s] EXCEPT ![p] = long]
    <2>1. CASE short = <<>>
      <3>1. DOMAIN levels = DOMAIN b[s] \ {p} /\ \A q \in DOMAIN b[s] \ {p} : levels[q] = b[s][q]
        BY <1>2, <2>1 DEF EraseLevel, Restrict
      <3> QED
        BY <1>3, <2>1, <3>1 DEF PushBack
    <2>2. CASE short # <<>>
      <3>1. /\ DOMAIN levels = DOMAIN b[s] /\ levels[p] = short
            /\ \A q \in DOMAIN b[s] : q # p => levels[q] = b[s][q]
        BY <1>2, <2>2
      <3> QED
        BY <1>3, <3>1, Zenon DEF PushBack
    <2> QED
      BY <2>1, <2>2
  <1>6. WithLevel(b, s, p, long) = SetSide(b, s, [b[s] EXCEPT ![p] = long])
    BY <1>3, Zenon DEF WithLevel, SetSide
  <1> QED
    BY <1>4, <1>5, <1>6 DEF short, long, levels

\* One more place of a FIFO.
LEMMA OneMorePlace ==
    ASSUME NEW fifo, NEW n \in Nat, NEW len \in Nat
    PROVE  /\ IdsAt(fifo, 1..n + 1) = IdsAt(fifo, 1..n) \cup {fifo[n + 1]}
           /\ n <= len => IdsAt(fifo, n..len) = IdsAt(fifo, n + 1..len) \cup {fifo[n]}
           /\ IdsAt(fifo, 1..0) = {} /\ IdsAt(fifo, len + 1..len) = {}
  <1>1. 1..n + 1 = (1..n) \cup {n + 1} /\ (n <= len => n..len = (n + 1..len) \cup {n})
    OBVIOUS
  <1>2. 1..0 = {} /\ len + 1..len = {}
    OBVIOUS
  <1>3. \A places, k : IdsAt(fifo, places \cup {k}) = IdsAt(fifo, places) \cup {fifo[k]}
    BY DEF IdsAt
  <1>4. IdsAt(fifo, {}) = {}
    BY DEF IdsAt
  <1> QED
    BY <1>1, <1>2, <1>3, <1>4, Zenon

\* Without nothing, a table that is a map stays the same.
LEMMA WithoutNothing ==
    ASSUME NEW ids, NEW snapshots
    PROVE  Without(MirrorOf(ids, snapshots), {}) = MirrorOf(ids, snapshots)
  BY DEF Without, Restrict, MirrorOf

-----------------------------------------------------------------------------
(***************************************************************************)
(* The invariant of the order manager.                                     *)
(***************************************************************************)
\* The table the matcher would have if its book were the shadow: an order that is
\* being requeued is in neither.
Mirror == MirrorOf(IF pc = "requeue" THEN active \ {order.id} ELSE active, orders)

BookIs(levels, table) == book = levels /\ orderTable = table

\* The order a probe is meant for, and the size of the probe.
Front == Head(shadow[StpSide][StpLevel])
ProbeSize == MinOf(Remaining, orders[Front].quantity)

\* While a probe runs and until its trade is applied: the book is that of the
\* shadow, before or after the one trade.
ProbeInv ==
    /\ StpContinues
    /\ InOrder(shadow, Mirror)
    /\ trades = <<>> =>
          /\ mpc = "cross"
          /\ BookIs(shadow, Mirror)
          /\ incoming = ToMatcher(order.id, order.side, PriceToMatch(order), ProbeSize)
    /\ trades # <<>> =>
          /\ trades = <<[incoming |-> order.id, resting |-> Front,
                         price |-> StpLevel, quantity |-> ProbeSize]>>
          /\ mpc = "cross" => incoming.quantity = 0
          /\ orders[Front].quantity = ProbeSize =>
                BookIs([shadow EXCEPT ![StpSide] = EraseOrder(@, StpLevel, Front)],
                       Without(Mirror, {Front}))
          /\ orders[Front].quantity # ProbeSize =>
                BookIs(shadow, [Mirror EXCEPT ![Front].quantity = @ - ProbeSize])

RestingQuantity == IF pc = "rest" THEN Remaining ELSE order.quantity

\* While the matcher takes an order that must not trade, and after it has.
RestInv ==
    /\ RestingQuantity > 0
    /\ RestingQuantity \in Quantity
    /\ ReachesNone(shadow, order.side, order.price)
    /\ order.id \notin DOMAIN Mirror
    /\ mpc = "cross" =>
          /\ BookIs(shadow, Mirror)
          /\ incoming = ToMatcher(order.id, order.side, order.price, RestingQuantity)
    /\ mpc = "idle" =>
          BookIs(TrackResting(shadow, order.id, order.side, order.price),
                 [id \in DOMAIN Mirror \cup {order.id} |->
                     IF id = order.id
                     THEN [side |-> order.side, price |-> order.price, quantity |-> RestingQuantity]
                     ELSE Mirror[id]])

\* The level cancelReplace takes down and builds again, and how many of its orders
\* the loop that runs has gone through.
Rebuilt == shadow[order.side][order.price]
Visited == Len(Rebuilt) - Len(todo)

\* The first loop of cancelReplace has cancelled the orders it has visited.  The
\* order that is amended is one of the level, and its old quantity may still be in
\* the table.
UnbuildInv ==
    /\ Visited \in 0..Len(Rebuilt) - 1
    /\ todo = SubSeq(Rebuilt, Visited + 1, Len(Rebuilt))
    /\ book = WithLevel(shadow, order.side, order.price, todo)
    /\ \E n \in 1..Len(Rebuilt) : Rebuilt[n] = order.id
    /\ DOMAIN orderTable = DOMAIN Mirror \ IdsAt(Rebuilt, 1..Visited)
    /\ \A id \in DOMAIN orderTable : id # order.id => orderTable[id] = Mirror[id]

\* The second loop has added k orders of the level.
Rebuilding(k) ==
    BookIs(WithLevel(shadow, order.side, order.price, SubSeq(Rebuilt, 1, k)),
           Without(Mirror, IdsAt(Rebuilt, k + 1..Len(Rebuilt))))

\* It has added all it has visited, but for one the matcher is still taking.
RebuildInv ==
    /\ Visited \in 0..Len(Rebuilt)
    /\ todo = SubSeq(Rebuilt, Visited + 1, Len(Rebuilt))
    /\ mpc = "idle" => Rebuilding(Visited)
    /\ mpc = "cross" =>
          /\ Visited > 0
          /\ Rebuilding(Visited - 1)
          /\ incoming = ToMatcher(Rebuilt[Visited], order.side, order.price,
                                  orders[Rebuilt[Visited]].quantity)

\* The manager's own collections.
IdsInv ==
    /\ IsBook(shadow)
    /\ known \subseteq OrderId
    /\ active \subseteq DOMAIN orders
    /\ DOMAIN orders \subseteq known
    /\ \A id \in DOMAIN orders :
          /\ orders[id] \in Snapshot
          /\ id \in active <=> orders[id].status \in {"New", "PartiallyFilled"}

\* The call that runs.
CallInv ==
    /\ pc \in {"idle", "stp", "probe", "settle", "rest", "unbuild", "rebuild", "requeue"}
    /\ pc # "idle" => order \in Order
    /\ pc \in {"stp", "probe", "settle", "rest"} =>
          /\ order.id \in known /\ order.id \notin DOMAIN orders
          /\ filled \in Nat /\ filled <= order.quantity
    /\ pc \in {"unbuild", "rebuild", "requeue"} => order.id \in active
    /\ pc # "probe" => trades = <<>>
    /\ pc \notin {"probe", "rest", "rebuild", "requeue"} => mpc = "idle"

\* How the matcher's book relates to the shadow, at every place of a call.
PlaceInv ==
    /\ Settled => BookIs(shadow, Mirror)
    /\ pc = "probe" => ProbeInv
    /\ pc \in {"rest", "requeue"} => RestInv
    /\ pc \in {"unbuild", "rebuild"} =>
          InOrder(shadow, Mirror) /\ order.price \in DOMAIN shadow[order.side]
    /\ pc = "unbuild" => UnbuildInv
    /\ pc = "rebuild" => RebuildInv

\* The inductive invariant.
ManagerInv == MatcherInv /\ IdsInv /\ CallInv /\ PlaceInv

-----------------------------------------------------------------------------
(***************************************************************************)
(* What the parts of the invariant say in the states before and after a    *)
(* step.                                                                   *)
(***************************************************************************)
\* The mirror while no order is being requeued, before and after a step.
LEMMA MirrorNow ==
    /\ pc # "requeue" => Mirror = MirrorOf(active, orders)
    /\ pc' # "requeue" => Mirror' = MirrorOf(active', orders')
  BY DEF Mirror

\* What the loop of matchWithStp looks at does not change without its variables.
LEMMA FrozenStp ==
    ASSUME shadow' = shadow, orders' = orders, order' = order, filled' = filled
    PROVE  /\ StpSide' = StpSide /\ StpLevel' = StpLevel /\ Front' = Front
           /\ Remaining' = Remaining /\ ProbeSize' = ProbeSize
           /\ StpContinues' <=> StpContinues
  <1>1. StpSide' = StpSide /\ Remaining' = Remaining
    BY DEF StpSide, Remaining
  <1>2. StpLevel' = StpLevel
    BY <1>1 DEF StpLevel
  <1>3. Front' = Front
    BY <1>1, <1>2 DEF Front
  <1>4. ProbeSize' = ProbeSize
    BY <1>1, <1>3 DEF ProbeSize
  <1>5. StpContinues' <=> StpContinues
    BY <1>1, <1>2, Zenon DEF StpContinues
  <1> QED
    BY <1>1, <1>2, <1>3, <1>4, <1>5

\* The manager's collections do not change without their variables.
LEMMA FrozenIds ==
    ASSUME IdsInv, shadow' = shadow, known' = known, active' = active, orders' = orders
    PROVE  IdsInv'
  BY DEF IdsInv

\* Between two calls into the matcher its book is the shadow.
LEMMA SettledBook ==
    ASSUME ManagerInv, Settled
    PROVE  /\ book = shadow
           /\ orderTable = MirrorOf(active, orders)
           /\ DOMAIN orderTable = active
           /\ InOrder(shadow, MirrorOf(active, orders))
           /\ mpc = "idle" /\ trades = <<>>
  <1>1. pc # "requeue" /\ pc # "probe" /\ mpc = "idle" /\ trades = <<>>
    BY DEF ManagerInv, CallInv, Settled
  <1>2. book = shadow /\ orderTable = Mirror
    BY DEF ManagerInv, PlaceInv, BookIs
  <1>3. orderTable = MirrorOf(active, orders)
    BY <1>1, <1>2, MirrorNow
  <1>4. InOrder(book, orderTable)
    BY MatcherInOrder DEF ManagerInv
  <1>5. DOMAIN MirrorOf(active, orders) = active
    BY DEF MirrorOf
  <1> QED
    BY <1>1, <1>2, <1>3, <1>4, <1>5

\* A step that leaves the matcher's book equal to the shadow.
LEMMA SettledPlace ==
    ASSUME pc' \in {"idle", "stp", "settle"}, book' = shadow', orderTable' = MirrorOf(active', orders')
    PROVE  PlaceInv'
  <1>1. orderTable' = Mirror'
    BY MirrorNow
  <1>2. /\ pc' # "probe" /\ pc' # "rest" /\ pc' # "requeue" /\ pc' # "unbuild" /\ pc' # "rebuild"
    OBVIOUS
  <1> QED
    BY <1>1, <1>2 DEF PlaceInv, BookIs

\* The quantity that is left of a running order.
LEMMA RemainingFacts ==
    ASSUME CallInv, pc \in {"stp", "probe", "settle", "rest"}
    PROVE  /\ order \in Order
           /\ order.id \in OrderId /\ order.side \in Side /\ order.price \in Price
           /\ order.quantity \in Quantity /\ order.account \in AccountId
           /\ order.id \in known /\ order.id \notin DOMAIN orders
           /\ filled \in Nat /\ filled <= order.quantity
           /\ Remaining = order.quantity - filled
           /\ Remaining \in Quantity
           /\ PriceToMatch(order) \in Price
  <1>1. /\ order \in Order /\ filled \in Nat /\ filled <= order.quantity
        /\ order.id \in known /\ order.id \notin DOMAIN orders
    BY DEF CallInv
  <1>2. /\ order.id \in OrderId /\ order.side \in Side /\ order.price \in Price
        /\ order.quantity \in Quantity /\ order.account \in AccountId
    BY <1>1 DEF Order
  <1>3. Remaining = order.quantity - filled /\ Remaining \in Quantity
    BY <1>1, <1>2, MatcherAssumption DEF Remaining, Minus, Quantity
  <1>4. PriceToMatch(order) \in Price
    BY <1>2, MatcherAssumption DEF PriceToMatch, Price
  <1> QED
    BY <1>1, <1>2, <1>3, <1>4
-----------------------------------------------------------------------------
(***************************************************************************)
(* matchOrder(): its beginning and the loop of matchWithStp.               *)
(***************************************************************************)
\* An order that is accepted has a new id.
LEMMA MatchOrderCallKeeps ==
    ASSUME ManagerInv, NEW o \in Order, MatchOrderCall(o)
    PROVE  ManagerInv'
  <1>1. /\ pc = "idle" /\ pc' = "stp" /\ known' = known \cup {o.id} /\ order' = o /\ filled' = 0
        /\ UNCHANGED matcherVars /\ shadow' = shadow /\ active' = active /\ orders' = orders
    BY DEF MatchOrderCall
  <1>2. o.id \notin known /\ o.id \in OrderId /\ o.quantity \in Nat
    BY MatcherAssumption DEF MatchOrderCall, ValidateNewOrder, Order, Quantity
  <1>3. /\ book = shadow /\ orderTable = MirrorOf(active, orders)
        /\ mpc = "idle" /\ trades = <<>>
    BY <1>1, SettledBook DEF Settled
  <1>4. MatcherInv'
    BY <1>1, MatcherStutters DEF ManagerInv
  <1>5. IdsInv'
    BY <1>1, <1>2 DEF ManagerInv, IdsInv
  <1>6. mpc' = "idle" /\ trades' = <<>> /\ book' = shadow' /\ orderTable' = MirrorOf(active', orders')
    BY <1>1, <1>3 DEF matcherVars
  <1>7. CallInv'
    BY <1>1, <1>2, <1>6 DEF CallInv, ManagerInv, IdsInv
  <1>8. PlaceInv'
    BY <1>1, <1>6, SettledPlace
  <1> QED
    BY <1>4, <1>5, <1>7, <1>8 DEF ManagerInv

\* The end of the loop.
LEMMA StpStopKeeps ==
    ASSUME ManagerInv, StpStop
    PROVE  ManagerInv'
  <1>1. /\ pc = "stp" /\ pc' = "settle" /\ known' = known /\ order' = order /\ filled' = filled
        /\ UNCHANGED matcherVars /\ shadow' = shadow /\ active' = active /\ orders' = orders
    BY DEF StpStop
  <1>2. /\ book = shadow /\ orderTable = MirrorOf(active, orders)
        /\ mpc = "idle" /\ trades = <<>>
    BY <1>1, SettledBook DEF Settled
  <1>3. MatcherInv'
    BY <1>1, MatcherStutters DEF ManagerInv
  <1>4. IdsInv'
    BY <1>1, FrozenIds DEF ManagerInv
  <1>5. mpc' = "idle" /\ trades' = <<>> /\ book' = shadow' /\ orderTable' = MirrorOf(active', orders')
    BY <1>1, <1>2 DEF matcherVars
  <1>6. CallInv'
    BY <1>1, <1>5 DEF CallInv, ManagerInv
  <1>7. PlaceInv'
    BY <1>1, <1>5, SettledPlace
  <1> QED
    BY <1>3, <1>4, <1>6, <1>7 DEF ManagerInv

\* The order a probe is for rests at the front of the best level of the other side,
\* and the probe is not larger than it, nor than what is left of the running order.
LEMMA ProbeFacts ==
    ASSUME IdsInv, CallInv, pc \in {"stp", "probe"}, StpContinues,
           InOrder(shadow, MirrorOf(active, orders))
    PROVE  /\ StpSide \in Side
           /\ StpLevel \in DOMAIN shadow[StpSide] /\ StpLevel \in Price
           /\ shadow[StpSide][StpLevel] # <<>>
           /\ Front \in active /\ Front \in DOMAIN orders /\ Front \in OrderId
           /\ orders[Front] \in Snapshot
           /\ orders[Front].side = StpSide /\ orders[Front].price = StpLevel
           /\ orders[Front].quantity \in Quantity /\ orders[Front].quantity > 0
           /\ ProbeSize \in Quantity /\ ProbeSize > 0
           /\ ProbeSize <= Remaining /\ ProbeSize <= orders[Front].quantity
           /\ Reaches(order.side, PriceToMatch(order), StpLevel)
           /\ order.account # 0 => orders[Front].account # order.account
  <1> DEFINE t == MirrorOf(active, orders)
  <1>1. /\ DOMAIN t = active /\ \A id \in active : t[id] = Entry(orders[id])
        /\ InOrder(shadow, t)
    BY DEF MirrorOf
  <1> HIDE DEF t
  <1>2. StpSide \in Side
    BY RemainingFacts, OppositeFacts DEF StpSide
  <1>3. /\ Remaining > 0 /\ DOMAIN shadow[StpSide] # {}
        /\ Reaches(order.side, PriceToMatch(order), StpLevel)
    BY DEF StpContinues
  <1>4. /\ StpLevel \in DOMAIN shadow[StpSide]
        /\ Front \in active /\ t[Front].side = StpSide /\ t[Front].price = StpLevel
    <2>1. StpLevel = BestOf(shadow, StpSide) /\ Front = FrontOf(shadow, StpSide)
      BY DEF StpLevel, Front, BestOf, FrontOf
    <2>2. /\ BestOf(shadow, StpSide) \in DOMAIN shadow[StpSide]
          /\ FrontOf(shadow, StpSide) \in DOMAIN t
          /\ t[FrontOf(shadow, StpSide)].side = StpSide
          /\ t[FrontOf(shadow, StpSide)].price = BestOf(shadow, StpSide)
      BY <1>1, <1>2, <1>3, FrontInOrder
    <2> QED
      BY <1>1, <2>1, <2>2
  <1>5. StpLevel \in Price /\ shadow[StpSide][StpLevel] # <<>>
    <2>1. StpLevel \in Price /\ GoodLevel(shadow[StpSide][StpLevel], t, StpSide, StpLevel)
      BY <1>1, <1>2, <1>4, LevelInOrder
    <2> QED
      BY <2>1 DEF GoodLevel
  <1>6. t[Front].quantity \in Quantity /\ t[Front].quantity > 0
    BY <1>1, <1>4, EntryInOrder
  <1>7. Front \in DOMAIN orders /\ Front \in OrderId /\ orders[Front] \in Snapshot
    BY <1>4 DEF IdsInv
  <1>8. /\ orders[Front].side = StpSide /\ orders[Front].price = StpLevel
        /\ orders[Front].quantity \in Quantity /\ orders[Front].quantity > 0
    BY <1>1, <1>4, <1>6 DEF Entry
  <1>9. /\ ProbeSize \in Quantity /\ ProbeSize > 0
        /\ ProbeSize <= Remaining /\ ProbeSize <= orders[Front].quantity
    BY <1>3, <1>8, RemainingFacts, MatcherAssumption DEF ProbeSize, MinOf, Quantity
  <1>10. order.account # 0 => orders[Front].account # order.account
    BY <1>5 DEF StpContinues, Front
  <1> QED
    BY <1>2, <1>3, <1>4, <1>5, <1>7, <1>8, <1>9, <1>10

\* A probe goes out while the book is the shadow.
LEMMA StpProbeKeeps ==
    ASSUME ManagerInv, StpProbe
    PROVE  ManagerInv'
  <1> DEFINE probe == ToMatcher(order.id, order.side, PriceToMatch(order), ProbeSize)
  <1>1. /\ pc = "stp" /\ StpContinues /\ known' = known /\ order' = order /\ filled' = filled
        /\ active' = active /\ orders' = orders /\ IdsInv /\ CallInv /\ MatcherInv
    BY DEF StpProbe, ManagerInv
  <1>2. /\ book = shadow /\ orderTable = MirrorOf(active, orders) /\ DOMAIN orderTable = active
        /\ InOrder(shadow, MirrorOf(active, orders)) /\ mpc = "idle"
    BY <1>1, SettledBook DEF Settled
  <1>3. /\ shadow[StpSide][StpLevel] # <<>> /\ ProbeSize \in Quantity
    BY <1>1, <1>2, ProbeFacts
  <1>4. /\ BeginMatch(probe) /\ pc' = "probe"
        /\ book' = book /\ orderTable' = orderTable /\ shadow' = shadow
    BY <1>3 DEF StpProbe, ProbeSize, Front
  <1>5. probe \in Incoming /\ probe.id = order.id
    BY <1>1, <1>3, RemainingFacts DEF ToMatcher, Incoming
  <1>6. probe.id \notin DOMAIN orderTable
    BY <1>1, <1>2, <1>5, RemainingFacts DEF IdsInv
  <1>7. mpc' = "cross" /\ incoming' = probe /\ trades' = <<>>
    BY <1>4 DEF BeginMatch
  <1> HIDE DEF probe
  <1>8. MatcherInv'
    BY <1>1, <1>4, <1>5, <1>6, MatchOrderKeeps DEF MatchOrder
  <1>9. IdsInv'
    BY <1>1, <1>4, FrozenIds
  <1>10. CallInv'
    BY <1>1, <1>4, <1>7 DEF CallInv
  <1>11. ProbeInv'
    <2>1. StpContinues' /\ ProbeSize' = ProbeSize
      BY <1>1, <1>4, FrozenStp
    <2>2. Mirror' = MirrorOf(active, orders)
      BY <1>1, <1>4, MirrorNow
    <2>3. incoming' = ToMatcher(order'.id, order'.side, PriceToMatch(order'), ProbeSize')
      BY <1>1, <1>7, <2>1 DEF probe
    <2> QED
      BY <1>2, <1>4, <1>7, <2>1, <2>2, <2>3 DEF ProbeInv, BookIs
  <1>12. PlaceInv'
    BY <1>4, <1>11 DEF PlaceInv, Settled
  <1> QED
    BY <1>8, <1>9, <1>10, <1>12 DEF ManagerInv

\* What an iteration of cross() finds when the book is the shadow and the order that
\* is matched is a probe: the order the probe is for, and a trade as large as the probe.
LEMMA ProbeFinds ==
    ASSUME ManagerInv, pc = "probe", trades = <<>>
    PROVE  /\ mpc = "cross" /\ Crossing
           /\ book = shadow /\ orderTable = MirrorOf(active, orders)
           /\ incoming.id = order.id /\ incoming.quantity = ProbeSize
           /\ RestingSide = StpSide /\ RestingPrice = StpLevel /\ RestingId = Front
           /\ orderTable[Front] = Entry(orders[Front])
           /\ Traded = ProbeSize
  <1>1. /\ ProbeInv /\ IdsInv /\ CallInv
    BY DEF ManagerInv, PlaceInv
  <1>2. /\ mpc = "cross" /\ book = shadow /\ orderTable = MirrorOf(active, orders)
        /\ incoming = ToMatcher(order.id, order.side, PriceToMatch(order), ProbeSize)
        /\ StpContinues /\ InOrder(shadow, MirrorOf(active, orders))
    BY <1>1, MirrorNow DEF ProbeInv, BookIs
  <1>3. /\ incoming.id = order.id /\ incoming.side = order.side
        /\ incoming.price = PriceToMatch(order) /\ incoming.quantity = ProbeSize
    BY <1>2 DEF ToMatcher
  <1>4. /\ StpSide \in Side /\ StpLevel \in DOMAIN shadow[StpSide] /\ Front \in active
        /\ orders[Front].quantity \in Quantity
        /\ ProbeSize \in Quantity /\ ProbeSize > 0 /\ ProbeSize <= orders[Front].quantity
        /\ Reaches(order.side, PriceToMatch(order), StpLevel)
    BY <1>1, <1>2, ProbeFacts
  <1>5. RestingSide = StpSide
    BY <1>3 DEF RestingSide, StpSide
  <1>6. RestingPrice = StpLevel
    BY <1>2, <1>4, <1>5 DEF RestingPrice, BestPrice, StpLevel
  <1>7. RestingId = Front
    BY <1>2, <1>5, <1>6 DEF RestingId, Front
  <1>8. orderTable[Front] = Entry(orders[Front])
    BY <1>2, <1>4 DEF MirrorOf
  <1>9. Traded = ProbeSize
    BY <1>3, <1>4, <1>7, <1>8, MatcherAssumption DEF Traded, MinOf, Entry, Quantity
  <1>10. Crossing
    <2>1. DOMAIN book[RestingSide] # {}
      BY <1>2, <1>4, <1>5
    <2>2. Reaches(incoming.side, incoming.price, RestingPrice)
      BY <1>3, <1>4, <1>6
    <2> QED
      BY <1>3, <1>4, <2>1, <2>2 DEF Crossing, RestingSide, RestingPrice
  <1> QED
    BY <1>2, <1>3, <1>5, <1>6, <1>7, <1>8, <1>9, <1>10

\* A trade is not a probe's second one: after the first nothing is left of it.
LEMMA ProbeIsSpent ==
    ASSUME ManagerInv, pc = "probe", trades # <<>>, mpc = "cross"
    PROVE  ~Crossing /\ incoming.quantity = 0
  <1>1. ProbeInv
    BY DEF ManagerInv, PlaceInv
  <1>2. incoming.quantity = 0
    BY <1>1 DEF ProbeInv
  <1> QED
    BY <1>2 DEF Crossing

\* A step of the matcher while the manager waits for a probe.
LEMMA ProbeCrossKeeps ==
    ASSUME ManagerInv, pc = "probe", CrossStep, UNCHANGED managerVars
    PROVE  ManagerInv'
  <1>1. /\ shadow' = shadow /\ known' = known /\ active' = active /\ orders' = orders
        /\ pc' = pc /\ order' = order /\ filled' = filled
    BY DEF managerVars
  <1>2. mpc = "cross" /\ Crossing /\ mpc' = "cross" /\ TradeWith(RestingId, RestingPrice)
    BY Zenon DEF CrossStep, RestingId, RestingPrice, RestingSide
  <1>3. trades = <<>>
    BY <1>2, ProbeIsSpent
  <1>4. /\ book = shadow /\ orderTable = MirrorOf(active, orders)
        /\ incoming.id = order.id /\ incoming.quantity = ProbeSize
        /\ RestingPrice = StpLevel /\ RestingId = Front
        /\ orderTable[Front] = Entry(orders[Front])
        /\ Traded = ProbeSize
    BY <1>3, ProbeFinds
  <1>5. /\ IdsInv /\ CallInv /\ MatcherInv /\ ProbeInv
    BY DEF ManagerInv, PlaceInv
  <1>6. StpContinues /\ InOrder(shadow, MirrorOf(active, orders))
    BY <1>5, MirrorNow DEF ProbeInv
  <1>7. /\ Front \in active /\ orders[Front].side = StpSide /\ orders[Front].price = StpLevel
        /\ ProbeSize \in Quantity /\ incoming \in Incoming
    BY <1>2, <1>5, <1>6, ProbeFacts DEF MatcherInv, MatcherTypeOK
  <1>8. /\ trades' = Append(trades, [incoming |-> incoming.id, resting |-> Front,
                                     price |-> StpLevel, quantity |-> ProbeSize])
        /\ incoming' = [incoming EXCEPT !.quantity = @ - ProbeSize]
        /\ IF orderTable[Front].quantity = ProbeSize
           THEN RemoveOrder(Front)
           ELSE /\ orderTable' = [orderTable EXCEPT ![Front].quantity = @ - ProbeSize]
                /\ book' = book
    BY <1>2, <1>4 DEF TradeWith, Traded
  <1>9. trades' = <<[incoming |-> order.id, resting |-> Front,
                     price |-> StpLevel, quantity |-> ProbeSize]>>
    BY <1>3, <1>4, <1>8
  <1>10. incoming'.quantity = 0
    BY <1>4, <1>7, <1>8, MatcherAssumption DEF Incoming, Quantity
  <1>11. /\ orderTable[Front].side = StpSide /\ orderTable[Front].price = StpLevel
         /\ orderTable[Front].quantity = orders[Front].quantity
    BY <1>4, <1>7 DEF Entry
  <1>12. orders[Front].quantity = ProbeSize =>
            /\ book' = [shadow EXCEPT ![StpSide] = EraseOrder(@, StpLevel, Front)]
            /\ orderTable' = Without(MirrorOf(active, orders), {Front})
    BY <1>4, <1>8, <1>11 DEF RemoveOrder, Without
  <1>13. orders[Front].quantity # ProbeSize =>
            /\ book' = shadow
            /\ orderTable' = [MirrorOf(active, orders) EXCEPT ![Front].quantity = @ - ProbeSize]
    BY <1>4, <1>8, <1>11
  <1>14. ProbeInv'
    <2>1. /\ StpSide' = StpSide /\ StpLevel' = StpLevel /\ Front' = Front /\ ProbeSize' = ProbeSize
          /\ StpContinues'
      BY <1>1, <1>6, FrozenStp
    <2>2. Mirror' = MirrorOf(active, orders) /\ trades' # <<>>
      BY <1>1, <1>9, MirrorNow
    <2> QED
      BY <1>1, <1>6, <1>9, <1>10, <1>12, <1>13, <2>1, <2>2, Zenon DEF ProbeInv, BookIs
  <1>15. MatcherInv'
    BY <1>5, CrossStepKeeps
  <1>16. IdsInv'
    BY <1>1, <1>5, FrozenIds
  <1>17. CallInv'
    BY <1>1, <1>5 DEF CallInv
  <1>18. PlaceInv'
    BY <1>1, <1>14 DEF PlaceInv, Settled
  <1> QED
    BY <1>15, <1>16, <1>17, <1>18 DEF ManagerInv

\* A probe that ends has traded, and leaves nothing to rest.
LEMMA ProbeFinishKeeps ==
    ASSUME ManagerInv, pc = "probe", FinishMatch, UNCHANGED managerVars
    PROVE  ManagerInv'
  <1>1. /\ shadow' = shadow /\ known' = known /\ active' = active /\ orders' = orders
        /\ pc' = pc /\ order' = order /\ filled' = filled
    BY DEF managerVars
  <1>2. mpc = "cross" /\ ~Crossing /\ mpc' = "idle" /\ trades' = trades
    BY DEF FinishMatch
  <1>3. trades # <<>>
    BY <1>2, ProbeFinds
  <1>4. book' = book /\ orderTable' = orderTable
    BY <1>2, <1>3, ProbeIsSpent DEF FinishMatch
  <1>5. IdsInv /\ CallInv /\ MatcherInv /\ ProbeInv
    BY DEF ManagerInv, PlaceInv
  <1>6. ProbeInv'
    <2>1. /\ StpSide' = StpSide /\ StpLevel' = StpLevel /\ Front' = Front /\ ProbeSize' = ProbeSize
          /\ StpContinues' <=> StpContinues
      BY <1>1, FrozenStp
    <2>2. Mirror' = Mirror
      BY <1>1, MirrorNow
    <2> QED
      BY <1>1, <1>2, <1>3, <1>4, <1>5, <2>1, <2>2 DEF ProbeInv, BookIs
  <1>7. MatcherInv'
    BY <1>5, FinishMatchKeeps
  <1>8. IdsInv'
    BY <1>1, <1>5, FrozenIds
  <1>9. CallInv'
    BY <1>1, <1>2, <1>5 DEF CallInv
  <1>10. PlaceInv'
    BY <1>1, <1>6 DEF PlaceInv, Settled
  <1> QED
    BY <1>7, <1>8, <1>9, <1>10 DEF ManagerInv

\* The trade of a probe that has returned.
LEMMA ProbeTraded ==
    ASSUME ManagerInv, pc = "probe", mpc = "idle"
    PROVE  /\ trades = <<[incoming |-> order.id, resting |-> Front,
                          price |-> StpLevel, quantity |-> ProbeSize]>>
           /\ InOrder(shadow, MirrorOf(active, orders)) /\ StpContinues
           /\ orders[Front].quantity = ProbeSize =>
                 /\ book = [shadow EXCEPT ![StpSide] = EraseOrder(@, StpLevel, Front)]
                 /\ orderTable = Without(MirrorOf(active, orders), {Front})
           /\ orders[Front].quantity # ProbeSize =>
                 /\ book = shadow
                 /\ orderTable = [MirrorOf(active, orders) EXCEPT ![Front].quantity = @ - ProbeSize]
  <1>1. ProbeInv
    BY DEF ManagerInv, PlaceInv
  <1>2. trades # <<>>
    BY <1>1 DEF ProbeInv
  <1>3. Mirror = MirrorOf(active, orders)
    BY MirrorNow
  <1> QED
    BY <1>1, <1>2, <1>3 DEF ProbeInv, BookIs

\* Applying the trade to snapshots and shadow brings them to where the book is.
LEMMA ApplyTradeKeeps ==
    ASSUME ManagerInv, ApplyTrade
    PROVE  ManagerInv'
  <1> DEFINE left == Minus(orders[Front].quantity, ProbeSize)
             q    == orders[Front].quantity
  <1>1. /\ pc = "probe" /\ mpc = "idle" /\ mpc' = "idle" /\ book' = book /\ orderTable' = orderTable
        /\ known' = known /\ order' = order /\ IdsInv /\ CallInv /\ MatcherInv
    BY DEF ApplyTrade, ManagerInv
  <1>2. /\ trades = <<[incoming |-> order.id, resting |-> Front,
                       price |-> StpLevel, quantity |-> ProbeSize]>>
        /\ InOrder(shadow, MirrorOf(active, orders)) /\ StpContinues
        /\ q = ProbeSize =>
              /\ book = [shadow EXCEPT ![StpSide] = EraseOrder(@, StpLevel, Front)]
              /\ orderTable = Without(MirrorOf(active, orders), {Front})
        /\ q # ProbeSize =>
              /\ book = shadow
              /\ orderTable = [MirrorOf(active, orders) EXCEPT ![Front].quantity = @ - ProbeSize]
    BY <1>1, ProbeTraded
  <1>3. /\ StpSide \in Side /\ Front \in active /\ Front \in DOMAIN orders
        /\ orders[Front] \in Snapshot
        /\ orders[Front].side = StpSide /\ orders[Front].price = StpLevel
        /\ q \in Quantity /\ ProbeSize \in Quantity /\ ProbeSize > 0
        /\ ProbeSize <= Remaining /\ ProbeSize <= q
    BY <1>1, <1>2, ProbeFacts
  <1>4. /\ Head(trades).resting = Front /\ Head(trades).quantity = ProbeSize
        /\ trades # <<>> /\ Tail(trades) = <<>>
    BY <1>2
  <1>5. left = q - ProbeSize /\ left \in Quantity /\ (left = 0 <=> q = ProbeSize)
    BY <1>3, MatcherAssumption DEF Minus, Quantity
  <1>6. /\ trades' = <<>> /\ pc' = "stp" /\ filled' = filled + ProbeSize
        /\ left = 0 =>
              /\ orders' = [orders EXCEPT ![Front].quantity = 0, ![Front].status = "Filled"]
              /\ active' = active \ {Front}
              /\ shadow' = UntrackResting(shadow, Front)
        /\ left # 0 =>
              /\ orders' = [orders EXCEPT ![Front].quantity = left,
                                          ![Front].status = "PartiallyFilled"]
              /\ shadow' = shadow /\ active' = active
    BY <1>3, <1>4, Zenon DEF ApplyTrade
  <1> HIDE DEF left, q
  <1>7. MatcherInv'
    <2>1. BookTyped /\ BookConsistent /\ NoCrossedBook
      BY <1>1, SplitType DEF MatcherInv
    <2>2. BookTyped' /\ BookConsistent' /\ NoCrossedBook'
      BY <1>1, <2>1, FrozenBook
    <2> QED
      BY <1>1, <1>6, <2>2, InvAtIdle
  <1>8. CallInv'
    <2>1. /\ Remaining = order.quantity - filled /\ filled \in Nat /\ order.quantity \in Quantity
          /\ order.id \in known /\ order.id \notin DOMAIN orders /\ order \in Order
      BY <1>1, RemainingFacts
    <2>2. filled' \in Nat /\ filled' <= order.quantity
      BY <1>3, <1>6, <2>1, MatcherAssumption DEF Quantity
    <2>3. DOMAIN orders' = DOMAIN orders
      BY <1>6
    <2> QED
      BY <1>1, <1>6, <2>1, <2>2, <2>3 DEF CallInv
  <1>9. CASE left = 0
    <2>1. /\ orders' = [orders EXCEPT ![Front].quantity = 0, ![Front].status = "Filled"]
          /\ active' = active \ {Front} /\ q = ProbeSize
      BY <1>5, <1>6, <1>9
    <2>2. /\ MirrorOf(active, orders)[Front].side = StpSide
          /\ MirrorOf(active, orders)[Front].price = StpLevel
          /\ Front \in DOMAIN MirrorOf(active, orders)
      BY <1>3 DEF MirrorOf, Entry
    <2>3. shadow' = [shadow EXCEPT ![StpSide] = EraseOrder(@, StpLevel, Front)]
      BY <1>2, <1>6, <1>9, <2>2, UntrackFinds
    <2>4. book' = shadow'
      BY <1>1, <1>2, <2>1, <2>3
    <2>5. orderTable' = MirrorOf(active', orders')
      <3>1. \A id \in active \ {Front} : id \in DOMAIN orders
        BY <1>1 DEF IdsInv
      <3>2. \A id \in active \ {Front} : orders'[id] = orders[id]
        BY <2>1, <3>1
      <3> QED
        BY <1>1, <1>2, <2>1, <3>2, Zenon DEF MirrorOf, Without, Restrict
    <2>6. PlaceInv'
      BY <1>6, <2>4, <2>5, SettledPlace
    <2>7. IdsInv'
      <3>1. IsBook(shadow')
        <4>1. shadow' = SetSide(shadow, StpSide, EraseOrder(shadow[StpSide], StpLevel, Front))
          BY <2>3 DEF SetSide
        <4> QED
          BY <1>1, <1>3, <4>1, ReplaceSide, LevelsAreMaps DEF IdsInv
      <3>2. /\ DOMAIN orders' = DOMAIN orders
            /\ \A id \in DOMAIN orders : id # Front => orders'[id] = orders[id]
            /\ orders'[Front] \in Snapshot /\ orders'[Front].status = "Filled"
        <4>1. 0 \in Quantity
          BY MatcherAssumption DEF Quantity
        <4> QED
          BY <1>3, <2>1, <4>1, Zenon DEF Snapshot, Status
      <3> QED
        BY <1>1, <1>3, <2>1, <3>1, <3>2 DEF IdsInv
    <2> QED
      BY <1>7, <1>8, <2>6, <2>7 DEF ManagerInv
  <1>10. CASE left # 0
    <2>1. /\ orders' = [orders EXCEPT ![Front].quantity = left, ![Front].status = "PartiallyFilled"]
          /\ active' = active /\ shadow' = shadow /\ q # ProbeSize
      BY <1>5, <1>6, <1>10
    <2>2. /\ DOMAIN orders' = DOMAIN orders
          /\ \A id \in DOMAIN orders : id # Front => orders'[id] = orders[id]
          /\ orders'[Front] \in Snapshot /\ orders'[Front].status = "PartiallyFilled"
          /\ orders'[Front].side = orders[Front].side /\ orders'[Front].price = orders[Front].price
          /\ orders'[Front].quantity = left
      BY <1>3, <1>5, <2>1, Zenon DEF Snapshot, Status
    <2>3. orderTable' = MirrorOf(active', orders')
      <3> DEFINE t == MirrorOf(active, orders)
      <3>1. DOMAIN t = active /\ \A id \in active : t[id] = Entry(orders[id])
        BY DEF MirrorOf
      <3>2. orderTable' = [t EXCEPT ![Front].quantity = @ - ProbeSize]
        BY <1>1, <1>2, <2>1
      <3> HIDE DEF t
      <3>3. [t[Front] EXCEPT !.quantity = @ - ProbeSize] = Entry(orders'[Front])
        BY <1>3, <1>5, <2>2, <3>1 DEF Entry, q
      <3>4. \A id \in active : id # Front => Entry(orders'[id]) = t[id]
        BY <1>1, <2>2, <3>1 DEF IdsInv
      <3> QED
        BY <1>3, <2>1, <3>1, <3>2, <3>3, <3>4, Zenon DEF MirrorOf
    <2>4. PlaceInv'
      BY <1>1, <1>2, <1>6, <2>1, <2>3, SettledPlace
    <2>5. IdsInv'
      BY <1>1, <1>3, <2>1, <2>2 DEF IdsInv
    <2> QED
      BY <1>7, <1>8, <2>4, <2>5 DEF ManagerInv
  <1> QED
    BY <1>9, <1>10

-----------------------------------------------------------------------------
(***************************************************************************)
(* Orders that go to the matcher to rest: the remainder of matchOrder()    *)
(* and the order cancelReplace() queues again.                             *)
(***************************************************************************)
\* wouldCross() is false exactly when no level of the other side is in reach.
LEMMA WouldCrossDecides ==
    ASSUME NEW t, InOrder(shadow, t), NEW o, o.side \in Side, o.price \in Price
    PROVE  ~WouldCross(o) <=> ReachesNone(shadow, o.side, o.price)
  <1>1. WouldCross(o)
        <=> /\ DOMAIN shadow[Opposite(o.side)] # {}
            /\ Reaches(o.side, o.price, Best(Opposite(o.side), shadow[Opposite(o.side)]))
    BY Zenon DEF WouldCross
  <1> QED
    BY <1>1, BestDecides

\* An order that reaches no level of the book finds nothing to cross.
LEMMA NothingToCross ==
    ASSUME MatcherInv, mpc = "cross", ReachesNone(book, incoming.side, incoming.price)
    PROVE  ~Crossing
  <1> SUFFICES ASSUME Crossing PROVE FALSE
    OBVIOUS
  <1>1. /\ RestingPrice \in DOMAIN book[RestingSide]
        /\ Reaches(incoming.side, incoming.price, RestingPrice)
    BY CrossFinds
  <1> QED
    BY <1>1 DEF ReachesNone, RestingSide

\* The remainder that goes to the matcher reaches no level.
LEMMA SettleRestKeeps ==
    ASSUME ManagerInv, SettleRest
    PROVE  ManagerInv'
  <1> DEFINE resting == ToMatcher(order.id, order.side, order.price, Remaining)
  <1>1. /\ pc = "settle" /\ Rests /\ pc' = "rest" /\ BeginMatch(resting)
        /\ book' = book /\ orderTable' = orderTable /\ shadow' = shadow /\ known' = known
        /\ active' = active /\ orders' = orders /\ order' = order /\ filled' = filled
        /\ IdsInv /\ CallInv /\ MatcherInv
    BY DEF SettleRest, ManagerInv
  <1>2. /\ book = shadow /\ orderTable = MirrorOf(active, orders) /\ DOMAIN orderTable = active
        /\ InOrder(shadow, MirrorOf(active, orders)) /\ mpc = "idle"
    BY <1>1, SettledBook DEF Settled
  <1>3. /\ order.id \in OrderId /\ order.side \in Side /\ order.price \in Price
        /\ order.id \notin DOMAIN orders /\ Remaining \in Quantity /\ Remaining > 0
        /\ ~WouldCross(order)
    BY <1>1, RemainingFacts DEF Rests
  <1>4. ReachesNone(shadow, order.side, order.price)
    BY <1>2, <1>3, WouldCrossDecides
  <1>5. resting \in Incoming /\ resting.id = order.id
    BY <1>3 DEF ToMatcher, Incoming
  <1>6. order.id \notin active
    BY <1>1, <1>3 DEF IdsInv
  <1>7. mpc' = "cross" /\ incoming' = resting /\ trades' = <<>>
    BY <1>1 DEF BeginMatch
  <1> HIDE DEF resting
  <1>8. MatcherInv'
    BY <1>1, <1>2, <1>5, <1>6, MatchOrderKeeps DEF MatchOrder
  <1>9. IdsInv'
    BY <1>1, FrozenIds
  <1>10. CallInv'
    BY <1>1, <1>7 DEF CallInv
  <1>11. RestInv'
    <2>1. RestingQuantity' = Remaining
      BY <1>1, FrozenStp DEF RestingQuantity
    <2>2. Mirror' = MirrorOf(active, orders)
      BY <1>1, MirrorNow
    <2>3. incoming' = ToMatcher(order'.id, order'.side, order'.price, RestingQuantity')
      BY <1>1, <1>7, <2>1 DEF resting
    <2>4. order'.id \notin DOMAIN Mirror'
      BY <1>1, <1>6, <2>2 DEF MirrorOf
    <2> QED
      BY <1>1, <1>2, <1>3, <1>4, <1>7, <2>1, <2>2, <2>3, <2>4 DEF RestInv, BookIs
  <1>12. PlaceInv'
    BY <1>1, <1>11 DEF PlaceInv, Settled
  <1> QED
    BY <1>8, <1>9, <1>10, <1>12 DEF ManagerInv

\* matchOrder() ends with nothing resting: the snapshot it leaves is of no active order.
LEMMA SettleDoneKeeps ==
    ASSUME ManagerInv, SettleDone
    PROVE  ManagerInv'
  <1> DEFINE status   == IF Remaining = 0 \/ filled > 0 THEN "Filled" ELSE "Cancelled"
             snapshot == SnapshotOf(order, Remaining, status)
  <1>1. /\ pc = "settle" /\ pc' = "idle" /\ orders' = Record(order.id, snapshot)
        /\ UNCHANGED matcherVars /\ shadow' = shadow /\ known' = known /\ active' = active
        /\ IdsInv /\ CallInv /\ MatcherInv
    BY DEF SettleDone, Return, ManagerInv
  <1>2. /\ book = shadow /\ orderTable = MirrorOf(active, orders)
        /\ mpc = "idle" /\ trades = <<>>
    BY <1>1, SettledBook DEF Settled
  <1>3. /\ order.side \in Side /\ order.price \in Price /\ order.account \in AccountId
        /\ order.id \in known /\ order.id \notin DOMAIN orders /\ Remaining \in Quantity
    BY <1>1, RemainingFacts
  <1>4. snapshot \in Snapshot /\ snapshot.status \in {"Filled", "Cancelled"}
    BY <1>3 DEF SnapshotOf, Snapshot, Status
  <1> HIDE DEF snapshot
  <1>5. /\ DOMAIN orders' = DOMAIN orders \cup {order.id} /\ orders'[order.id] = snapshot
        /\ \A id \in DOMAIN orders : orders'[id] = orders[id]
    BY <1>1, <1>3 DEF Record
  <1>6. order.id \notin active
    BY <1>1, <1>3 DEF IdsInv
  <1>7. IdsInv'
    BY <1>1, <1>3, <1>4, <1>5, <1>6 DEF IdsInv
  <1>8. mpc' = "idle" /\ trades' = <<>> /\ book' = shadow'
    BY <1>1, <1>2 DEF matcherVars
  <1>9. orderTable' = MirrorOf(active', orders')
    <2>1. \A id \in active : orders'[id] = orders[id]
      BY <1>1, <1>5 DEF IdsInv
    <2>2. orderTable' = MirrorOf(active, orders)
      BY <1>1, <1>2 DEF matcherVars
    <2> QED
      BY <1>1, <2>1, <2>2 DEF MirrorOf
  <1>10. MatcherInv'
    BY <1>1, MatcherStutters
  <1>11. CallInv'
    BY <1>1, <1>8 DEF CallInv
  <1>12. PlaceInv'
    BY <1>1, <1>8, <1>9, SettledPlace
  <1> QED
    BY <1>7, <1>10, <1>11, <1>12 DEF ManagerInv

\* The matcher never trades with an order that comes to rest.
LEMMA RestNeverCrosses ==
    ASSUME ManagerInv, pc \in {"rest", "requeue"}, mpc = "cross"
    PROVE  ~Crossing
  <1>1. RestInv /\ MatcherInv
    BY DEF ManagerInv, PlaceInv
  <1>2. /\ ReachesNone(shadow, order.side, order.price) /\ book = shadow
        /\ incoming = ToMatcher(order.id, order.side, order.price, RestingQuantity)
    BY <1>1 DEF RestInv, BookIs
  <1>3. incoming.side = order.side /\ incoming.price = order.price
    BY <1>2 DEF ToMatcher
  <1> QED
    BY <1>1, <1>2, <1>3, NothingToCross

\* It is put at the back of its level.
LEMMA RestFinishKeeps ==
    ASSUME ManagerInv, pc \in {"rest", "requeue"}, FinishMatch, UNCHANGED managerVars
    PROVE  ManagerInv'
  <1>1. /\ shadow' = shadow /\ known' = known /\ active' = active /\ orders' = orders
        /\ pc' = pc /\ order' = order /\ filled' = filled
    BY DEF managerVars
  <1>2. mpc = "cross" /\ mpc' = "idle" /\ trades' = trades
    BY DEF FinishMatch
  <1>3. IdsInv /\ CallInv /\ MatcherInv /\ RestInv
    BY DEF ManagerInv, PlaceInv
  <1>4. /\ RestingQuantity > 0 /\ RestingQuantity \in Quantity /\ order.id \notin DOMAIN Mirror
        /\ book = shadow /\ orderTable = Mirror
        /\ incoming = ToMatcher(order.id, order.side, order.price, RestingQuantity)
    BY <1>2, <1>3 DEF RestInv, BookIs
  <1>5. /\ incoming.id = order.id /\ incoming.side = order.side /\ incoming.price = order.price
        /\ incoming.quantity = RestingQuantity
    BY <1>4 DEF ToMatcher
  <1>6. RestOrder(incoming)
    BY <1>4, <1>5 DEF FinishMatch
  <1>7. /\ book' = TrackResting(shadow, order.id, order.side, order.price)
        /\ orderTable' = [id \in DOMAIN Mirror \cup {order.id} |->
                            IF id = order.id
                            THEN [side |-> order.side, price |-> order.price,
                                  quantity |-> RestingQuantity]
                            ELSE Mirror[id]]
    BY <1>4, <1>5, <1>6 DEF RestOrder, TrackResting
  <1>8. RestInv'
    <2>1. Mirror' = Mirror
      BY <1>1 DEF Mirror
    <2>2. RestingQuantity' = RestingQuantity
      BY <1>1, FrozenStp DEF RestingQuantity
    <2> QED
      BY <1>1, <1>2, <1>3, <1>7, <2>1, <2>2 DEF RestInv, BookIs
  <1>9. MatcherInv'
    BY <1>3, FinishMatchKeeps
  <1>10. IdsInv'
    BY <1>1, <1>3, FrozenIds
  <1>11. CallInv'
    BY <1>1, <1>2, <1>3 DEF CallInv
  <1>12. PlaceInv'
    BY <1>1, <1>8 DEF PlaceInv, Settled
  <1> QED
    BY <1>9, <1>10, <1>11, <1>12 DEF ManagerInv

\* Once it rests, shadow and snapshots follow.
LEMMA RestedKeeps ==
    ASSUME ManagerInv, pc \in {"rest", "requeue"}, mpc = "idle",
           NEW status \in {"New", "PartiallyFilled"},
           orders' = Record(order.id, SnapshotOf(order, RestingQuantity, status)),
           active' = active \cup {order.id},
           shadow' = TrackResting(shadow, order.id, order.side, order.price),
           pc' = "idle", known' = known, UNCHANGED matcherVars
    PROVE  ManagerInv'
  <1> DEFINE snapshot == SnapshotOf(order, RestingQuantity, status)
  <1>1. IdsInv /\ CallInv /\ MatcherInv /\ RestInv
    BY DEF ManagerInv, PlaceInv
  <1>2. /\ RestingQuantity \in Quantity /\ order \in Order
        /\ order.side \in Side /\ order.price \in Price /\ order.account \in AccountId
    BY <1>1 DEF RestInv, CallInv, Order
  <1>3. order.id \in known
    BY <1>1 DEF CallInv, IdsInv
  <1>4. Mirror = MirrorOf(active \ {order.id}, orders)
    <2>1. CASE pc = "requeue"
      BY <2>1 DEF Mirror
    <2>2. CASE pc # "requeue"
      <3>1. order.id \notin active
        BY <1>1, <2>2 DEF CallInv, IdsInv
      <3>2. active \ {order.id} = active
        BY <3>1
      <3> QED
        BY <2>2, <3>2, MirrorNow
    <2> QED
      BY <2>1, <2>2
  <1>5. /\ book = TrackResting(shadow, order.id, order.side, order.price)
        /\ orderTable = [id \in DOMAIN Mirror \cup {order.id} |->
                            IF id = order.id
                            THEN [side |-> order.side, price |-> order.price,
                                  quantity |-> RestingQuantity]
                            ELSE Mirror[id]]
    BY <1>1 DEF RestInv, BookIs
  <1>6. /\ snapshot \in Snapshot /\ snapshot.status = status
        /\ Entry(snapshot) = [side |-> order.side, price |-> order.price,
                              quantity |-> RestingQuantity]
    BY <1>2 DEF SnapshotOf, Snapshot, Status, Entry
  <1> HIDE DEF snapshot
  <1>7. /\ DOMAIN orders' = DOMAIN orders \cup {order.id} /\ orders'[order.id] = snapshot
        /\ \A id \in DOMAIN orders : id # order.id => orders'[id] = orders[id]
    BY DEF Record, snapshot
  <1>8. IsBook(shadow')
    <2>1. shadow' = SetSide(shadow, order.side,
                            PushBack(shadow[order.side], order.price, order.id))
      BY DEF TrackResting, SetSide
    <2> QED
      BY <1>1, <1>2, <2>1, ReplaceSide, LevelsAreMaps DEF IdsInv
  <1>9. IdsInv'
    BY <1>1, <1>3, <1>6, <1>7, <1>8 DEF IdsInv
  <1>10. /\ book' = book /\ orderTable' = orderTable /\ mpc' = "idle" /\ trades' = <<>>
    BY <1>1 DEF matcherVars, CallInv
  <1>11. orderTable' = MirrorOf(active', orders')
    <2> DEFINE t == MirrorOf(active \ {order.id}, orders)
               r == [side |-> order.side, price |-> order.price, quantity |-> RestingQuantity]
    <2>1. DOMAIN t = active \ {order.id} /\ \A id \in active \ {order.id} : t[id] = Entry(orders[id])
      BY DEF MirrorOf
    <2>2. orderTable' = [id \in DOMAIN t \cup {order.id} |-> IF id = order.id THEN r ELSE t[id]]
      BY <1>4, <1>5, <1>10
    <2>3. Entry(orders'[order.id]) = r
      BY <1>6, <1>7
    <2> HIDE DEF t, r
    <2>4. \A id \in active \ {order.id} : Entry(orders'[id]) = t[id]
      BY <1>1, <1>7, <2>1, Zenon DEF IdsInv
    <2> QED
      BY <2>1, <2>2, <2>3, <2>4 DEF MirrorOf
  <1>12. MatcherInv'
    BY <1>1, MatcherStutters
  <1>13. CallInv'
    BY <1>10 DEF CallInv
  <1>14. PlaceInv'
    BY <1>5, <1>10, <1>11, SettledPlace, Zenon
  <1> QED
    BY <1>9, <1>12, <1>13, <1>14 DEF ManagerInv

\* The ends of matchOrder() and cancelReplace() with the order resting.
LEMMA RestDoneKeeps ==
    ASSUME ManagerInv, RestDone
    PROVE  ManagerInv'
  <1>1. pc = "rest" /\ RestingQuantity = Remaining
    BY DEF RestDone, RestingQuantity
  <1> DEFINE status == IF filled > 0 THEN "PartiallyFilled" ELSE "New"
  <1>2. /\ mpc = "idle" /\ orders' = Record(order.id, SnapshotOf(order, RestingQuantity, status))
        /\ active' = active \cup {order.id}
        /\ shadow' = TrackResting(shadow, order.id, order.side, order.price)
        /\ pc' = "idle" /\ known' = known /\ UNCHANGED matcherVars
    BY <1>1 DEF RestDone, Return
  <1>3. status \in {"New", "PartiallyFilled"}
    OBVIOUS
  <1> HIDE DEF status
  <1> QED
    BY <1>1, <1>2, <1>3, RestedKeeps

\* The end of a replacement that has gone to the back of its level.
LEMMA RequeueDoneKeeps ==
    ASSUME ManagerInv, RequeueDone
    PROVE  ManagerInv'
  <1>1. pc = "requeue" /\ RestingQuantity = order.quantity
    BY DEF RequeueDone, RestingQuantity
  <1>2. /\ mpc = "idle" /\ orders' = Record(order.id, SnapshotOf(order, RestingQuantity, "New"))
        /\ active' = active \cup {order.id}
        /\ shadow' = TrackResting(shadow, order.id, order.side, order.price)
        /\ pc' = "idle" /\ known' = known /\ UNCHANGED matcherVars
    BY <1>1 DEF RequeueDone, Return
  <1> QED
    BY <1>1, <1>2, RestedKeeps
=============================================================================
