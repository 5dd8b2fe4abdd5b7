------------------------ MODULE ReferenceMatcherProofs ------------------------
(***************************************************************************)
(* Proofs about ReferenceMatcher for every set of ids and every limit on   *)
(* prices and quantities.                                                  *)
(***************************************************************************)
EXTENDS ReferenceMatcher, WellFoundedInduction, TLAPS

\* Erasing the i-th order of a FIFO closes the gap and keeps the others in order.
LEMMA EraseAtFacts ==
    ASSUME NEW S, NEW s \in Seq(S), NEW i \in 1..Len(s)
    PROVE  /\ EraseAt(s, i) \in Seq(S)
           /\ Len(EraseAt(s, i)) = Len(s) - 1
           /\ \A j \in 1..Len(s) - 1 : EraseAt(s, i)[j] = IF j < i THEN s[j] ELSE s[j + 1]
  <1> DEFINE a == SubSeq(s, 1, i - 1)
             b == SubSeq(s, i + 1, Len(s))
  <1>1. a \in Seq(S) /\ Len(a) = i - 1 /\ \A j \in 1..i - 1 : a[j] = s[j]
    OBVIOUS
  <1>2. b \in Seq(S) /\ Len(b) = Len(s) - i /\ \A j \in 1..Len(s) - i : b[j] = s[i + j]
    OBVIOUS
  <1>3. EraseAt(s, i) = a \o b
    BY DEF EraseAt
  <1> HIDE DEF a, b
  <1>4. a \o b \in Seq(S) /\ Len(a \o b) = Len(s) - 1
    BY <1>1, <1>2
  <1>5. \A j \in 1..Len(s) - 1 : (a \o b)[j] = IF j <= Len(a) THEN a[j] ELSE b[j - Len(a)]
    BY <1>1, <1>2
  <1> QED
    BY <1>1, <1>2, <1>3, <1>4, <1>5

\* Facts about parts of a sequence.
LEMMA SubSeqFacts ==
    ASSUME NEW S, NEW s \in Seq(S), NEW m \in Nat \ {0}, NEW n \in m - 1..Len(s)
    PROVE  /\ SubSeq(s, m, n) \in Seq(S)
           /\ Len(SubSeq(s, m, n)) = n - m + 1
           /\ \A i \in 1..n - m + 1 : SubSeq(s, m, n)[i] = s[m + i - 1]
  OBVIOUS

\* The part that is everything.
LEMMA WholeSubSeq ==
    ASSUME NEW S, NEW s \in Seq(S)
    PROVE  SubSeq(s, 1, Len(s)) = s
  OBVIOUS

\* A part without its first element.
LEMMA SubSeqFromNext ==
    ASSUME NEW S, NEW s \in Seq(S), NEW m \in 1..Len(s)
    PROVE  /\ Head(SubSeq(s, m, Len(s))) = s[m]
           /\ Tail(SubSeq(s, m, Len(s))) = SubSeq(s, m + 1, Len(s))
  OBVIOUS

\* A part and the element after it.
LEMMA SubSeqUpToNext ==
    ASSUME NEW S, NEW s \in Seq(S), NEW n \in 1..Len(s)
    PROVE  SubSeq(s, 1, n) = Append(SubSeq(s, 1, n - 1), s[n])
  OBVIOUS

\* A set of natural numbers that is not empty has a least element.
LEMMA LeastExists ==
    ASSUME NEW S \in SUBSET Nat, S # {}
    PROVE  \E x \in S : \A y \in S : x <= y
  <1> DEFINE LT == {pair \in Nat \X Nat : pair[1] < pair[2]}
  <1>1. LT = OpToRel(<, Nat)
    BY Zenon DEF OpToRel
  <1>2. IsWellFoundedOn(LT, Nat)
    BY NatLessThanWellFounded, <1>1, Zenon
  <1>3. PICK x \in S : \A y \in S : ~(<<y, x>> \in LT)
    <2> HIDE DEF LT
    <2> QED
      BY <1>2, WFMin, Zenon
  <1>4. \A y \in S : ~(y < x)
    BY <1>3, Zenon
  <1> QED
    BY <1>4

\* A bounded one that is not empty has a greatest element.
LEMMA GreatestExists ==
    ASSUME NEW n \in Nat, NEW S \in SUBSET (0..n), S # {}
    PROVE  \E x \in S : \A y \in S : x >= y
  <1> DEFINE T == {n - x : x \in S}
  <1>1. T \in SUBSET Nat
    OBVIOUS
  <1>2. T # {}
    BY Zenon
  <1>3. PICK t \in T : \A y \in T : t <= y
    <2> HIDE DEF T
    <2> QED
      BY <1>1, <1>2, LeastExists
  <1>4. PICK m \in S : t = n - m
    OBVIOUS
  <1>5. \A y \in S : n - m <= n - y
    BY <1>3, <1>4
  <1> QED
    BY <1>4, <1>5

\* The best price of a side is the price of a level, and no level is better.
LEMMA BestFacts ==
    ASSUME NEW n \in Nat, NEW levels, DOMAIN levels \in SUBSET (0..n), DOMAIN levels # {},
           NEW side \in Side
    PROVE  /\ Best(side, levels) \in DOMAIN levels
           /\ \A p \in DOMAIN levels : Reaches(side, Best(side, levels), p)
  <1> DEFINE D == DOMAIN levels
  <1>1. D \in SUBSET (0..n) /\ D # {}
    OBVIOUS
  <1>2. D \in SUBSET Nat
    OBVIOUS
  <1> HIDE DEF D
  <1>3. Max(D) \in D /\ \A p \in D : Max(D) >= p
    BY <1>1, GreatestExists, Zenon DEF Max
  <1>4. Min(D) \in D /\ \A p \in D : Min(D) <= p
    BY <1>1, <1>2, LeastExists, Zenon DEF Min
  <1>5. Best(side, levels) = IF side = "Buy" THEN Max(D) ELSE Min(D)
    BY DEF Best, D
  <1>6. D = DOMAIN levels
    BY DEF D
  <1> QED
    BY <1>3, <1>4, <1>5, <1>6 DEF Reaches

\* An order that is in a FIFO is found there.
LEMMA PositionFacts ==
    ASSUME NEW fifo, NEW id, \E i \in 1..Len(fifo) : fifo[i] = id
    PROVE  PositionOf(fifo, id) \in 1..Len(fifo) /\ fifo[PositionOf(fifo, id)] = id
  BY DEF PositionOf

\* The map after is levels without the k-th order of the level p: the other orders
\* of that level stay in order, and the level leaves the map if it was the last.
Erased(levels, after, p, k) ==
    /\ Len(levels[p]) \in Nat
    /\ k \in 1..Len(levels[p])
    /\ Len(levels[p]) = 1 => DOMAIN after = DOMAIN levels \ {p}
    /\ Len(levels[p]) # 1 => DOMAIN after = DOMAIN levels
    /\ \A q \in DOMAIN levels : q # p => after[q] = levels[q]
    /\ Len(levels[p]) # 1 => Len(after[p]) = Len(levels[p]) - 1
    /\ \A j \in 1..Len(levels[p]) - 1 : j < k => after[p][j] = levels[p][j]
    /\ \A j \in 1..Len(levels[p]) - 1 : j >= k => after[p][j] = levels[p][j + 1]

\* Erasing an order removes it from its level and changes no other level.
LEMMA EraseOrderFacts ==
    ASSUME NEW S, NEW levels, NEW p \in DOMAIN levels, NEW id,
           levels[p] \in Seq(S), \E i \in 1..Len(levels[p]) : levels[p][i] = id
    PROVE  /\ Erased(levels, EraseOrder(levels, p, id), p, PositionOf(levels[p], id))
           /\ levels[p][PositionOf(levels[p], id)] = id
           /\ Len(levels[p]) # 1 => EraseOrder(levels, p, id)[p] \in Seq(S)
  <1> DEFINE k    == PositionOf(levels[p], id)
             n    == Len(levels[p])
             rest == EraseAt(levels[p], k)
  <1>1. k \in 1..n /\ levels[p][k] = id /\ n \in Nat
    BY PositionFacts
  <1>2. /\ rest \in Seq(S)
        /\ Len(rest) = n - 1
        /\ \A j \in 1..n - 1 : rest[j] = IF j < k THEN levels[p][j] ELSE levels[p][j + 1]
    BY <1>1, EraseAtFacts, Zenon
  <1>3. EraseOrder(levels, p, id)
        = IF rest = <<>> THEN EraseLevel(levels, p) ELSE [levels EXCEPT ![p] = rest]
    BY DEF EraseOrder
  <1> HIDE DEF k, n, rest
  <1>4. rest = <<>> <=> n = 1
    BY <1>1, <1>2
  <1>5. CASE n = 1
    BY <1>1, <1>3, <1>4, <1>5 DEF EraseLevel, Restrict, Erased, k, n
  <1>6. CASE n # 1
    <2>1. EraseOrder(levels, p, id) = [levels EXCEPT ![p] = rest]
      BY <1>3, <1>4, <1>6
    <2> QED
      BY <1>1, <1>2, <1>6, <2>1 DEF Erased, k, n
  <1> QED
    BY <1>5, <1>6

\* The part of the type invariant that is about the book and the table.
BookTyped ==
    /\ DOMAIN book = Side
    /\ \A side \in Side :
          /\ DOMAIN book[side] \subseteq Price
          /\ \A p \in DOMAIN book[side] : book[side][p] \in Seq(OrderId)
    /\ DOMAIN orderTable \subseteq OrderId
    /\ \A id \in DOMAIN orderTable : orderTable[id] \in Location

\* The two halves of BookConsistent, of a book b and a table t: what the lists say
\* of the table, and what the table says of the lists.
ListsInTable(b, t) ==
    \A side \in Side : \A p \in DOMAIN b[side] :
        LET fifo == b[side][p]
        IN  /\ fifo # <<>>
            /\ \A i \in 1..Len(fifo) :
                  /\ fifo[i] \in DOMAIN t
                  /\ t[fifo[i]].side = side
                  /\ t[fifo[i]].price = p
            /\ \A i, j \in 1..Len(fifo) : fifo[i] = fifo[j] => i = j

TableInLists(b, t) ==
    \A id \in DOMAIN t :
        /\ t[id].quantity > 0
        /\ t[id].price \in DOMAIN b[t[id].side]
        /\ LET fifo == b[t[id].side][t[id].price]
           IN  \E i \in 1..Len(fifo) : fifo[i] = id

Uncrossed(b) == \A x \in DOMAIN b["Buy"], y \in DOMAIN b["Sell"] : x < y

TypedBook(b, t) ==
    /\ DOMAIN b = Side
    /\ \A side \in Side :
          /\ DOMAIN b[side] \subseteq Price
          /\ \A p \in DOMAIN b[side] : b[side][p] \in Seq(OrderId)
    /\ DOMAIN t \subseteq OrderId
    /\ \A id \in DOMAIN t : t[id] \in Location

\* BookConsistent is its two halves.
LEMMA Halves ==
    BookConsistent <=> ListsInTable(book, orderTable) /\ TableInLists(book, orderTable)
  BY Zenon DEF BookConsistent, ListsInTable, TableInLists

\* BookConsistent after a step is its two halves after the step.
LEMMA HalvesNext ==
    BookConsistent' <=> ListsInTable(book', orderTable') /\ TableInLists(book', orderTable')
  BY Zenon DEF BookConsistent, ListsInTable, TableInLists

\* A step that leaves book and table alone keeps all that is said of them.
LEMMA FrozenBook ==
    ASSUME book' = book, orderTable' = orderTable
    PROVE  /\ BookConsistent => BookConsistent'
           /\ NoCrossedBook => NoCrossedBook'
           /\ BookTyped => BookTyped'
  <1>1. BookConsistent => BookConsistent'
    BY Halves, HalvesNext
  <1>2. (NoCrossedBook <=> Uncrossed(book)) /\ (NoCrossedBook' <=> Uncrossed(book'))
    BY Zenon DEF NoCrossedBook, Uncrossed
  <1>3. BookTyped <=> TypedBook(book, orderTable)
    BY Zenon DEF BookTyped, TypedBook
  <1>4. BookTyped' <=> TypedBook(book', orderTable')
    BY Zenon DEF BookTyped, TypedBook
  <1> QED
    BY <1>1, <1>2, <1>3, <1>4

\* The type invariant is that of the book and that of a call.
CallTyped ==
    /\ mpc \in {"idle", "cross"}
    /\ mpc = "cross" => incoming \in Incoming
    /\ trades \in Seq(Trade)

\* The type invariant, split, before and after a step.
LEMMA SplitType ==
    /\ MatcherTypeOK <=> BookTyped /\ CallTyped
    /\ MatcherTypeOK' <=> BookTyped' /\ CallTyped'
  <1>1. MatcherTypeOK <=> BookTyped /\ CallTyped
    BY Zenon DEF MatcherTypeOK, BookTyped, CallTyped
  <1>2. MatcherTypeOK' <=> BookTyped' /\ CallTyped'
    BY Zenon DEF MatcherTypeOK, BookTyped, CallTyped
  <1> QED
    BY <1>1, <1>2

\* What the invariant says after a call has returned.
LEMMA InvAtIdle ==
    ASSUME BookTyped', BookConsistent', NoCrossedBook', mpc' = "idle", trades' \in Seq(Trade)
    PROVE  MatcherInv'
  <1>1. MatcherTypeOK'
    BY SplitType DEF CallTyped
  <1>2. TradesWalkTheBook'
    BY DEF TradesWalkTheBook
  <1> QED
    BY <1>1, <1>2 DEF MatcherInv

\* What BookConsistent says of one level.
LEMMA LevelFacts ==
    ASSUME BookConsistent, NEW side \in Side, NEW p \in DOMAIN book[side]
    PROVE  /\ book[side][p] # <<>>
           /\ \A i \in 1..Len(book[side][p]) :
                 /\ book[side][p][i] \in DOMAIN orderTable
                 /\ orderTable[book[side][p][i]].side = side
                 /\ orderTable[book[side][p][i]].price = p
           /\ \A i, j \in 1..Len(book[side][p]) : book[side][p][i] = book[side][p][j] => i = j
  BY Zenon, Halves DEF ListsInTable

\* restOrder() of an order whose id is free keeps table and lists in step.
LEMMA RestKeepsBook ==
    ASSUME BookTyped, BookConsistent,
           NEW order \in Incoming, order.quantity > 0, order.id \notin DOMAIN orderTable,
           RestOrder(order)
    PROVE  BookTyped' /\ BookConsistent'
  <1> DEFINE s     == order.side
             p     == order.price
             new   == PushBack(book[s], p, order.id)
             n     == IF p \in DOMAIN book[s] THEN Len(book[s][p]) ELSE 0
             entry == [side |-> s, price |-> p, quantity |-> order.quantity]
  <1>1. s \in Side /\ p \in Price /\ order.id \in OrderId /\ entry \in Location
        /\ order.quantity \in Quantity
    BY DEF Incoming, Location
  <1>2. /\ DOMAIN new = DOMAIN book[s] \cup {p}
        /\ \A q \in DOMAIN book[s] : q # p => new[q] = book[s][q]
        /\ n \in Nat
        /\ new[p] \in Seq(OrderId)
        /\ Len(new[p]) = n + 1
        /\ new[p][n + 1] = order.id
        /\ \A i \in 1..n : new[p][i] = book[s][p][i]
    <2>1. p \in DOMAIN book[s] => book[s][p] \in Seq(OrderId)
      BY <1>1 DEF BookTyped
    <2> HIDE DEF s, p
    <2> QED
      BY <1>1, <2>1 DEF PushBack
  <1>3. /\ DOMAIN book' = Side
        /\ book'[s] = new
        /\ \A side \in Side : side # s => book'[side] = book[side]
    BY <1>1 DEF RestOrder, BookTyped
  <1>4. /\ DOMAIN orderTable' = DOMAIN orderTable \cup {order.id}
        /\ orderTable'[order.id] = entry
        /\ \A id \in DOMAIN orderTable : orderTable'[id] = orderTable[id]
    BY DEF RestOrder
  <1>5. entry.side = s /\ entry.price = p /\ entry.quantity > 0
    OBVIOUS
  <1>6. n = 0 \/ (p \in DOMAIN book[s] /\ n = Len(book[s][p]))
    OBVIOUS
  <1> HIDE DEF new, n, entry, s, p
  <1>7. BookTyped'
    BY <1>1, <1>2, <1>3, <1>4 DEF BookTyped
  <1>8. ASSUME NEW side \in Side, NEW q \in DOMAIN book'[side]
        PROVE  /\ book'[side][q] # <<>>
               /\ \A i \in 1..Len(book'[side][q]) :
                    /\ book'[side][q][i] \in DOMAIN orderTable'
                    /\ orderTable'[book'[side][q][i]].side = side
                    /\ orderTable'[book'[side][q][i]].price = q
               /\ \A i, j \in 1..Len(book'[side][q]) :
                    book'[side][q][i] = book'[side][q][j] => i = j
    <2>1. CASE side = s /\ q = p
      <3>1. \A i \in 1..n : /\ book[s][p][i] \in DOMAIN orderTable
                            /\ orderTable[book[s][p][i]].side = s
                            /\ orderTable[book[s][p][i]].price = p
        <4>1. CASE n = 0
          BY <4>1
        <4>2. CASE p \in DOMAIN book[s] /\ n = Len(book[s][p])
          BY <1>1, <4>2, LevelFacts
        <4> QED
          BY <1>6, <4>1, <4>2
      <3>2. \A i, j \in 1..n : book[s][p][i] = book[s][p][j] => i = j
        <4>1. CASE n = 0
          BY <4>1
        <4>2. CASE p \in DOMAIN book[s] /\ n = Len(book[s][p])
          BY <1>1, <4>2, LevelFacts
        <4> QED
          BY <1>6, <4>1, <4>2
      <3>3. book'[side][q] = new[p]
        BY <1>3, <2>1
      <3>4. ASSUME NEW i \in 1..n + 1
            PROVE  /\ new[p][i] \in DOMAIN orderTable'
                   /\ orderTable'[new[p][i]].side = s
                   /\ orderTable'[new[p][i]].price = p
        <4>1. CASE i = n + 1
          BY <1>2, <1>4, <1>5, <4>1
        <4>2. CASE i \in 1..n
          BY <1>2, <1>4, <3>1, <4>2
        <4> QED
          BY <1>2, <4>1, <4>2
      <3>5. \A i \in 1..n : new[p][i] # order.id
        BY <1>2, <3>1
      <3>6. \A i, j \in 1..n + 1 : new[p][i] = new[p][j] => i = j
        BY <1>2, <3>2, <3>5
      <3>7. new[p] # <<>>
        BY <1>2
      <3> QED
        BY <1>2, <2>1, <3>3, <3>4, <3>6, <3>7
    <2>2. CASE ~(side = s /\ q = p)
      <3>1. q \in DOMAIN book[side] /\ book'[side][q] = book[side][q]
        BY <1>2, <1>3, <2>2
      <3> DEFINE l == book[side][q]
      <3>2. /\ l # <<>>
            /\ \A i \in 1..Len(l) : /\ l[i] \in DOMAIN orderTable
                                   /\ orderTable[l[i]].side = side
                                   /\ orderTable[l[i]].price = q
            /\ \A i, j \in 1..Len(l) : l[i] = l[j] => i = j
        BY <3>1, LevelFacts
      <3> SUFFICES /\ l # <<>>
                   /\ \A i \in 1..Len(l) : /\ l[i] \in DOMAIN orderTable'
                                          /\ orderTable'[l[i]].side = side
                                          /\ orderTable'[l[i]].price = q
                   /\ \A i, j \in 1..Len(l) : l[i] = l[j] => i = j
        BY Zenon, <3>1
      <3> HIDE DEF l
      <3> QED
        BY <1>4, <3>2
    <2> QED
      BY <2>1, <2>2
  <1>9. ASSUME NEW id \in DOMAIN orderTable'
        PROVE  /\ orderTable'[id].quantity > 0
               /\ orderTable'[id].price \in DOMAIN book'[orderTable'[id].side]
               /\ \E i \in 1..Len(book'[orderTable'[id].side][orderTable'[id].price]) :
                    book'[orderTable'[id].side][orderTable'[id].price][i] = id
    <2>1. CASE id = order.id
      <3>1. \E i \in 1..Len(new[p]) : new[p][i] = order.id
        BY <1>2
      <3>2. p \in DOMAIN book'[s] /\ book'[s][p] = new[p]
        BY <1>2, <1>3
      <3> QED
        BY <1>4, <1>5, <2>1, <3>1, <3>2
    <2>2. CASE id # order.id
      <3> DEFINE t == orderTable[id].side
                 q == orderTable[id].price
      <3>1. id \in DOMAIN orderTable /\ orderTable'[id] = orderTable[id]
        BY <1>4, <2>2
      <3>2. /\ orderTable[id].quantity > 0
            /\ q \in DOMAIN book[t]
            /\ \E i \in 1..Len(book[t][q]) : book[t][q][i] = id
        BY <3>1 DEF BookConsistent
      <3>3. t \in Side
        BY <3>1 DEF BookTyped, Location
      <3> HIDE DEF t, q
      <3>4. CASE t = s /\ q = p
        <4>1. n = Len(book[s][p])
          BY <3>2, <3>4 DEF n
        <4>2. \E i \in 1..Len(new[p]) : new[p][i] = id
          BY <1>2, <3>2, <3>4, <4>1
        <4>3. p \in DOMAIN book'[s] /\ book'[s][p] = new[p]
          BY <1>2, <1>3
        <4> QED
          BY <3>1, <3>2, <3>4, <4>2, <4>3 DEF t, q
      <3>5. CASE ~(t = s /\ q = p)
        <4>1. q \in DOMAIN book'[t] /\ book'[t][q] = book[t][q]
          BY <1>2, <1>3, <3>2, <3>3, <3>5
        <4> QED
          BY <3>1, <3>2, <4>1 DEF t, q
      <3> QED
        BY <3>4, <3>5
    <2> QED
      BY <2>1, <2>2
  <1>10. BookConsistent'
    BY <1>8, <1>9 DEF BookConsistent
  <1> QED
    BY <1>7, <1>10

\* removeOrder() of a resting order keeps table and lists in step, and opens no level.
LEMMA RemoveKeepsBook ==
    ASSUME BookTyped, BookConsistent, NEW id \in DOMAIN orderTable, RemoveOrder(id)
    PROVE  /\ BookTyped'
           /\ BookConsistent'
           /\ \A side \in Side : DOMAIN book'[side] \subseteq DOMAIN book[side]
           /\ DOMAIN orderTable' \subseteq DOMAIN orderTable
  <1> DEFINE s    == orderTable[id].side
             p    == orderTable[id].price
             old  == book[s]
             new  == EraseOrder(old, p, id)
             k    == PositionOf(old[p], id)
             n    == Len(old[p])
  <1>1. s \in Side
    BY DEF BookTyped, Location
  <1>2. p \in DOMAIN old /\ \E i \in 1..Len(old[p]) : old[p][i] = id
    BY DEF BookConsistent
  <1>3. old[p] \in Seq(OrderId)
    BY <1>1, <1>2 DEF BookTyped
  <1>4. /\ n \in Nat /\ k \in 1..n /\ old[p][k] = id
        /\ n = 1 => DOMAIN new = DOMAIN old \ {p}
        /\ n # 1 => DOMAIN new = DOMAIN old
        /\ \A q \in DOMAIN old : q # p => new[q] = old[q]
        /\ n # 1 => new[p] \in Seq(OrderId) /\ Len(new[p]) = n - 1
        /\ \A j \in 1..n - 1 : j < k => new[p][j] = old[p][j]
        /\ \A j \in 1..n - 1 : j >= k => new[p][j] = old[p][j + 1]
    <2> HIDE DEF s, p, old
    <2>1. /\ Erased(old, new, p, k)
          /\ old[p][k] = id
          /\ Len(old[p]) # 1 => new[p] \in Seq(OrderId)
      BY <1>2, <1>3, EraseOrderFacts
    <2> QED
      BY <2>1 DEF Erased
  <1>5. /\ DOMAIN book' = Side
        /\ book'[s] = new
        /\ \A side \in Side : side # s => book'[side] = book[side]
    BY <1>1 DEF RemoveOrder, BookTyped
  <1>6. /\ DOMAIN orderTable' = DOMAIN orderTable \ {id}
        /\ \A x \in DOMAIN orderTable : x # id => orderTable'[x] = orderTable[x]
    BY DEF RemoveOrder, Restrict
  <1>7. \A i, j \in 1..n : old[p][i] = old[p][j] => i = j
    BY <1>1, <1>2, LevelFacts
  <1>8. \A q \in DOMAIN new : q \in DOMAIN old
    BY <1>4
  <1>9. old = book[s]
    OBVIOUS
  <1> HIDE DEF s, p, old, new, k, n
  <1>10. BookTyped'
    <2>1. ASSUME NEW side \in Side, NEW q \in DOMAIN book'[side]
          PROVE  q \in Price /\ book'[side][q] \in Seq(OrderId)
      <3>1. CASE side = s /\ q = p
        <4>1. n > 1
          BY <1>4, <1>5, <3>1
        <4> QED
          BY <1>1, <1>2, <1>4, <1>5, <1>9, <3>1, <4>1 DEF BookTyped
      <3>2. CASE ~(side = s /\ q = p)
        <4>1. q \in DOMAIN book[side] /\ book'[side][q] = book[side][q]
          BY <1>4, <1>5, <1>8, <1>9, <3>2
        <4> QED
          BY <4>1 DEF BookTyped
      <3> QED
        BY <3>1, <3>2
    <2> QED
      BY <1>5, <1>6, <2>1 DEF BookTyped
  <1>11. ASSUME NEW side \in Side, NEW q \in DOMAIN book'[side]
         PROVE  /\ book'[side][q] # <<>>
                /\ \A i \in 1..Len(book'[side][q]) :
                     /\ book'[side][q][i] \in DOMAIN orderTable'
                     /\ orderTable'[book'[side][q][i]].side = side
                     /\ orderTable'[book'[side][q][i]].price = q
                /\ \A i, j \in 1..Len(book'[side][q]) :
                     book'[side][q][i] = book'[side][q][j] => i = j
    <2>1. CASE side = s /\ q = p
      <3>1. n > 1
        BY <1>4, <1>5, <2>1
      <3>2. book'[side][q] = new[p]
        BY <1>5, <2>1
      <3>3. \A i \in 1..n : /\ old[p][i] \in DOMAIN orderTable
                            /\ orderTable[old[p][i]].side = s
                            /\ orderTable[old[p][i]].price = p
        <4>1. \A i \in 1..Len(book[s][p]) : /\ book[s][p][i] \in DOMAIN orderTable
                                           /\ orderTable[book[s][p][i]].side = s
                                           /\ orderTable[book[s][p][i]].price = p
          BY <1>1, <1>2, <1>9, LevelFacts
        <4> QED
          BY <1>9, <4>1 DEF n
      <3>4. \A j \in 1..n - 1 : new[p][j] # id
        BY <1>4, <1>7, <3>1
      <3>5. \A j \in 1..n - 1 : \E i \in 1..n : new[p][j] = old[p][i]
        BY <1>4, <3>1
      <3>6. \A i, j \in 1..n - 1 : new[p][i] = new[p][j] => i = j
        BY <1>4, <1>7, <3>1
      <3>7. Len(new[p]) = n - 1 /\ new[p] # <<>>
        BY <1>4, <3>1
      <3>8. \A j \in 1..n - 1 : /\ new[p][j] \in DOMAIN orderTable'
                                /\ orderTable'[new[p][j]].side = s
                                /\ orderTable'[new[p][j]].price = p
        BY <1>6, <3>3, <3>4, <3>5
      <3> QED
        BY <2>1, <3>2, <3>6, <3>7, <3>8
    <2>2. CASE ~(side = s /\ q = p)
      <3>1. q \in DOMAIN book[side] /\ book'[side][q] = book[side][q]
        BY <1>4, <1>5, <1>8, <1>9, <2>2
      <3> DEFINE l == book[side][q]
      <3>2. /\ l # <<>>
            /\ \A i \in 1..Len(l) : /\ l[i] \in DOMAIN orderTable
                                   /\ orderTable[l[i]].side = side
                                   /\ orderTable[l[i]].price = q
            /\ \A i, j \in 1..Len(l) : l[i] = l[j] => i = j
        BY <3>1, LevelFacts
      <3>3. \A i \in 1..Len(l) : l[i] # id
        BY <2>2, <3>2 DEF s, p
      <3> SUFFICES /\ l # <<>>
                   /\ \A i \in 1..Len(l) : /\ l[i] \in DOMAIN orderTable'
                                          /\ orderTable'[l[i]].side = side
                                          /\ orderTable'[l[i]].price = q
                   /\ \A i, j \in 1..Len(l) : l[i] = l[j] => i = j
        BY Zenon, <3>1
      <3> HIDE DEF l
      <3> QED
        BY <1>6, <3>2, <3>3
    <2> QED
      BY <2>1, <2>2
  <1>12. ASSUME NEW x \in DOMAIN orderTable'
         PROVE  /\ orderTable'[x].quantity > 0
                /\ orderTable'[x].price \in DOMAIN book'[orderTable'[x].side]
                /\ \E i \in 1..Len(book'[orderTable'[x].side][orderTable'[x].price]) :
                     book'[orderTable'[x].side][orderTable'[x].price][i] = x
    <2> DEFINE t == orderTable[x].side
               q == orderTable[x].price
    <2>1. x \in DOMAIN orderTable /\ x # id /\ orderTable'[x] = orderTable[x]
      BY <1>6
    <2>2. /\ orderTable[x].quantity > 0
          /\ q \in DOMAIN book[t]
          /\ \E i \in 1..Len(book[t][q]) : book[t][q][i] = x
      BY <2>1 DEF BookConsistent
    <2>3. t \in Side
      BY <2>1 DEF BookTyped, Location
    <2> HIDE DEF t, q
    <2>4. CASE t = s /\ q = p
      <3>1. PICK i \in 1..n : old[p][i] = x
        BY <1>9, <2>2, <2>4 DEF n
      <3>2. i # k
        BY <1>4, <2>1, <3>1
      <3>3. n > 1
        BY <1>4, <3>1, <3>2
      <3>4. \E j \in 1..n - 1 : new[p][j] = x
        <4>1. CASE i < k
          <5>1. i \in 1..n - 1 /\ new[p][i] = old[p][i]
            BY <1>4, <3>3, <4>1
          <5> QED
            BY <3>1, <5>1
        <4>2. CASE i > k
          <5>1. i - 1 \in 1..n - 1 /\ new[p][i - 1] = old[p][i]
            BY <1>4, <3>3, <4>2
          <5> QED
            BY <3>1, <5>1
        <4>3. i < k \/ i > k
          BY <1>4, <3>1, <3>2
        <4> QED
          BY <4>1, <4>2, <4>3
      <3>5. p \in DOMAIN new /\ Len(new[p]) = n - 1
        BY <1>2, <1>4, <3>3
      <3> QED
        BY <1>5, <2>1, <2>2, <2>4, <3>4, <3>5 DEF t, q
    <2>5. CASE ~(t = s /\ q = p)
      <3>1. q \in DOMAIN book'[t] /\ book'[t][q] = book[t][q]
        BY <1>4, <1>5, <1>9, <2>2, <2>3, <2>5
      <3> QED
        BY <2>1, <2>2, <3>1 DEF t, q
    <2> QED
      BY <2>4, <2>5
  <1>13. BookConsistent'
    BY <1>11, <1>12 DEF BookConsistent
  <1>14. \A side \in Side : DOMAIN book'[side] \subseteq DOMAIN book[side]
    BY <1>5, <1>8, <1>9
  <1> QED
    BY <1>6, <1>10, <1>13, <1>14

\* A partial fill of a resting order keeps table and lists in step.
LEMMA ReduceKeepsBook ==
    ASSUME BookTyped, BookConsistent, NEW id \in DOMAIN orderTable,
           NEW traded \in Nat, traded < orderTable[id].quantity,
           orderTable' = [orderTable EXCEPT ![id].quantity = @ - traded], book' = book
    PROVE  BookTyped' /\ BookConsistent'
  <1>1. orderTable[id] \in Location /\ orderTable[id].quantity \in Quantity
    BY DEF BookTyped, Location
  <1>2. /\ DOMAIN orderTable' = DOMAIN orderTable
        /\ \A x \in DOMAIN orderTable :
              /\ orderTable'[x].side = orderTable[x].side
              /\ orderTable'[x].price = orderTable[x].price
              /\ orderTable'[x].quantity
                   = IF x = id THEN orderTable[x].quantity - traded ELSE orderTable[x].quantity
              /\ x # id => orderTable'[x] = orderTable[x]
        /\ orderTable'[id] = [orderTable[id] EXCEPT !.quantity = @ - traded]
    BY <1>1 DEF Location, BookTyped
  <1>3. orderTable[id].quantity - traded \in Quantity /\ orderTable[id].quantity - traded > 0
    BY <1>1, MatcherAssumption DEF Quantity
  <1>4. orderTable'[id] \in Location
    BY <1>1, <1>2, <1>3 DEF Location
  <1>5. BookTyped'
    BY <1>2, <1>4 DEF BookTyped
  <1>6. ListsInTable(book', orderTable')
    <2>1. ListsInTable(book, orderTable)
      BY Halves
    <2>2. ASSUME NEW side \in Side, NEW p \in DOMAIN book[side],
                 NEW i \in 1..Len(book[side][p])
          PROVE  /\ book[side][p][i] \in DOMAIN orderTable'
                 /\ orderTable'[book[side][p][i]].side = side
                 /\ orderTable'[book[side][p][i]].price = p
      <3>1. /\ book[side][p][i] \in DOMAIN orderTable
            /\ orderTable[book[side][p][i]].side = side
            /\ orderTable[book[side][p][i]].price = p
        BY <2>1 DEF ListsInTable
      <3> QED
        BY <1>2, <3>1
    <2>3. ASSUME NEW side \in Side, NEW p \in DOMAIN book[side]
          PROVE  /\ book[side][p] # <<>>
                 /\ \A i, j \in 1..Len(book[side][p]) : book[side][p][i] = book[side][p][j] => i = j
      BY Zenon, <2>1 DEF ListsInTable
    <2>4. ListsInTable(book, orderTable')
      BY <2>2, <2>3 DEF ListsInTable
    <2> QED
      BY <2>4
  <1>7. TableInLists(book', orderTable')
    <2> SUFFICES ASSUME NEW x \in DOMAIN orderTable
                 PROVE  /\ orderTable'[x].quantity > 0
                        /\ orderTable[x].price \in DOMAIN book[orderTable[x].side]
                        /\ \E i \in 1..Len(book[orderTable[x].side][orderTable[x].price]) :
                              book[orderTable[x].side][orderTable[x].price][i] = x
      BY <1>2 DEF TableInLists
    <2>1. TableInLists(book, orderTable)
      BY Halves
    <2> QED
      BY <1>2, <1>3, <2>1 DEF TableInLists
  <1> QED
    BY <1>5, <1>6, <1>7, HalvesNext

\* The trade an iteration of cross() makes: with the front order of the best level.
RestingSide == Opposite(incoming.side)
RestingPrice == BestPrice(RestingSide)
RestingId == Head(book[RestingSide][RestingPrice])
Traded == MinOf(incoming.quantity, orderTable[RestingId].quantity)

\* What an iteration of cross() finds: the best level of the other side and a
\* resting order at its front, which trades a positive quantity.
LEMMA CrossFinds ==
    ASSUME MatcherInv, mpc = "cross", Crossing
    PROVE  /\ RestingSide \in Side
           /\ RestingPrice \in DOMAIN book[RestingSide]
           /\ RestingPrice \in Price
           /\ \A p \in DOMAIN book[RestingSide] : Reaches(RestingSide, RestingPrice, p)
           /\ Reaches(incoming.side, incoming.price, RestingPrice)
           /\ RestingId \in DOMAIN orderTable
           /\ RestingId \in OrderId
           /\ orderTable[RestingId].side = RestingSide
           /\ orderTable[RestingId].price = RestingPrice
           /\ Traded \in Quantity /\ Traded > 0
           /\ Traded <= incoming.quantity
           /\ Traded <= orderTable[RestingId].quantity
  <1>1. incoming \in Incoming /\ MatcherTypeOK /\ BookConsistent
    BY DEF MatcherInv, MatcherTypeOK
  <1>2. RestingSide \in Side /\ incoming.quantity \in Quantity /\ incoming.quantity > 0
    BY <1>1 DEF Incoming, Opposite, Side, Crossing, RestingSide
  <1>3. /\ DOMAIN book[RestingSide] # {}
        /\ Reaches(incoming.side, incoming.price, RestingPrice)
    BY DEF Crossing, RestingSide, RestingPrice
  <1>4. DOMAIN book[RestingSide] \in SUBSET (0..MaxPrice) /\ MaxPrice \in Nat
    BY <1>1, <1>2, MatcherAssumption DEF MatcherTypeOK, Price
  <1>5. RestingPrice = Best(RestingSide, book[RestingSide])
    BY <1>3 DEF BestPrice, RestingPrice
  <1>6. /\ RestingPrice \in DOMAIN book[RestingSide]
        /\ \A p \in DOMAIN book[RestingSide] : Reaches(RestingSide, RestingPrice, p)
    BY <1>2, <1>3, <1>4, <1>5, BestFacts
  <1> DEFINE fifo == book[RestingSide][RestingPrice]
  <1>7. fifo \in Seq(OrderId) /\ fifo # <<>> /\ RestingPrice \in Price
    <2>1. fifo \in Seq(OrderId) /\ RestingPrice \in Price
      BY <1>1, <1>2, <1>6 DEF MatcherTypeOK
    <2>2. fifo # <<>>
      BY Zenon, <1>1, <1>2, <1>6, LevelFacts
    <2> QED
      BY <2>1, <2>2
  <1>8. 1 \in 1..Len(fifo) /\ RestingId = fifo[1] /\ RestingId \in OrderId
    BY <1>7 DEF RestingId
  <1>9. /\ RestingId \in DOMAIN orderTable
        /\ orderTable[RestingId].side = RestingSide
        /\ orderTable[RestingId].price = RestingPrice
    <2>1. \A i \in 1..Len(fifo) : /\ fifo[i] \in DOMAIN orderTable
                                 /\ orderTable[fifo[i]].side = RestingSide
                                 /\ orderTable[fifo[i]].price = RestingPrice
      BY Zenon, <1>1, <1>2, <1>6, LevelFacts
    <2> HIDE DEF fifo
    <2> QED
      BY <1>8, <2>1
  <1>10. orderTable[RestingId].quantity \in Quantity /\ orderTable[RestingId].quantity > 0
    BY <1>1, <1>9 DEF BookConsistent, MatcherTypeOK, Location
  <1>11. /\ Traded \in Quantity /\ Traded > 0
         /\ Traded <= incoming.quantity
         /\ Traded <= orderTable[RestingId].quantity
    BY <1>2, <1>10, MatcherAssumption DEF MinOf, Quantity, Traded
  <1> QED
    BY <1>2, <1>3, <1>6, <1>7, <1>8, <1>9, <1>11

\* An iteration of cross() keeps the invariant.
LEMMA CrossStepKeeps ==
    ASSUME MatcherInv, CrossStep
    PROVE  MatcherInv'
  <1>1. /\ MatcherTypeOK /\ BookConsistent /\ NoCrossedBook /\ TradesWalkTheBook
        /\ incoming \in Incoming /\ trades \in Seq(Trade)
        /\ mpc = "cross" /\ Crossing /\ mpc' = "cross"
        /\ incoming.id \notin DOMAIN orderTable
        /\ \A p \in DOMAIN book[RestingSide] : \A i \in 1..Len(trades) :
              Reaches(incoming.side, p, trades[i].price)
    BY DEF MatcherInv, CrossStep, MatcherTypeOK, RestingSide
  <1> DEFINE trade == [incoming |-> incoming.id, resting |-> RestingId,
                       price |-> RestingPrice, quantity |-> Traded]
  <1>2. /\ trades' = Append(trades, trade)
        /\ incoming' = [incoming EXCEPT !.quantity = @ - Traded]
        /\ IF orderTable[RestingId].quantity = Traded
           THEN RemoveOrder(RestingId)
           ELSE /\ orderTable' = [orderTable EXCEPT ![RestingId].quantity = @ - Traded]
                /\ UNCHANGED book
    BY Zenon DEF CrossStep, TradeWith, RestingSide, RestingPrice, RestingId, Traded
  <1>3. BookTyped
    BY <1>1 DEF BookTyped, MatcherTypeOK
  <1>4. /\ BookTyped' /\ BookConsistent'
        /\ \A side \in Side : DOMAIN book'[side] \subseteq DOMAIN book[side]
        /\ DOMAIN orderTable' \subseteq DOMAIN orderTable
    <2>1. CASE orderTable[RestingId].quantity = Traded
      BY <1>1, <1>2, <1>3, <2>1, CrossFinds, RemoveKeepsBook
    <2>2. CASE orderTable[RestingId].quantity # Traded
      <3>1. /\ orderTable[RestingId].quantity \in Nat
            /\ Traded \in Nat
            /\ Traded < orderTable[RestingId].quantity
        BY <1>1, <2>2, CrossFinds, MatcherAssumption DEF MatcherTypeOK, Location, Quantity
      <3>2. BookTyped' /\ BookConsistent'
        BY <1>1, <1>2, <1>3, <2>2, <3>1, CrossFinds, ReduceKeepsBook
      <3>3. book' = book /\ DOMAIN orderTable' = DOMAIN orderTable
        BY <1>2, <2>2
      <3> QED
        BY <3>2, <3>3
    <2> QED
      BY <2>1, <2>2
  <1>5. /\ incoming' \in Incoming
        /\ incoming'.id = incoming.id
        /\ incoming'.side = incoming.side
        /\ incoming'.price = incoming.price
    <2>1. /\ Traded \in Quantity /\ Traded <= incoming.quantity /\ incoming.quantity \in Quantity
          /\ MaxQuantity \in Nat
      BY <1>1, CrossFinds, MatcherAssumption DEF Incoming
    <2>2. incoming.quantity - Traded \in Quantity
      BY <2>1 DEF Quantity
    <2> QED
      BY <1>1, <1>2, <2>2 DEF Incoming
  <1>6. trade \in Trade
    BY <1>1, CrossFinds DEF Trade, Incoming
  <1>7. /\ trades' \in Seq(Trade)
        /\ Len(trades') = Len(trades) + 1
        /\ \A i \in 1..Len(trades) : trades'[i] = trades[i]
        /\ trades'[Len(trades) + 1].price = RestingPrice
    BY <1>1, <1>2, <1>6
  <1>8. MatcherTypeOK'
    BY <1>1, <1>4, <1>5, <1>7 DEF MatcherTypeOK, BookTyped
  <1>9. NoCrossedBook'
    BY <1>1, <1>4 DEF NoCrossedBook, Side
  <1>10. \A i \in 1..Len(trades) : Reaches(incoming.side, RestingPrice, trades[i].price)
    BY <1>1, CrossFinds
  <1>11. TradesWalkTheBook'
    <2>1. ASSUME NEW i \in 1..Len(trades')
          PROVE  /\ Reaches(incoming.side, incoming.price, trades'[i].price)
                 /\ i > 1 => Reaches(incoming.side, trades'[i].price, trades'[i - 1].price)
      <3>1. Len(trades) \in Nat
        BY <1>1
      <3>2. CASE i <= Len(trades)
        <4>1. i \in 1..Len(trades) /\ (i > 1 => i - 1 \in 1..Len(trades))
          BY <3>1, <3>2
        <4>2. trades'[i] = trades[i] /\ (i > 1 => trades'[i - 1] = trades[i - 1])
          BY <1>7, <4>1
        <4> QED
          BY <1>1, <4>1, <4>2 DEF TradesWalkTheBook
      <3>3. CASE i = Len(trades) + 1
        <4>1. i > 1 => i - 1 \in 1..Len(trades) /\ trades'[i - 1] = trades[i - 1]
          BY <1>7, <3>1, <3>3
        <4> QED
          BY <1>1, <1>7, <1>10, <3>3, <4>1, CrossFinds
      <3> QED
        BY <1>7, <3>1, <3>2, <3>3
    <2> QED
      BY <1>1, <1>5, <2>1 DEF TradesWalkTheBook
  <1>12. \A p \in DOMAIN book'[RestingSide] : \A i \in 1..Len(trades') :
            Reaches(incoming.side, p, trades'[i].price)
    <2>1. ASSUME NEW p \in DOMAIN book'[RestingSide], NEW i \in 1..Len(trades')
          PROVE  Reaches(incoming.side, p, trades'[i].price)
      <3>1. p \in DOMAIN book[RestingSide]
        BY <1>1, <1>4, CrossFinds
      <3>2. CASE i \in 1..Len(trades)
        BY <1>1, <1>7, <3>1, <3>2
      <3>3. CASE i = Len(trades) + 1
        <4>1. Reaches(RestingSide, RestingPrice, p)
          BY <1>1, <3>1, CrossFinds
        <4>2. Reaches(incoming.side, p, RestingPrice)
          BY <1>1, <4>1 DEF RestingSide, Opposite, Reaches, Incoming, Side
        <4> QED
          BY <1>7, <3>3, <4>2
      <3> QED
        BY <1>1, <1>7, <3>2, <3>3
    <2> QED
      BY <2>1
  <1>13. Opposite(incoming'.side) = RestingSide
    BY <1>5 DEF RestingSide
  <1> QED
    BY <1>1, <1>4, <1>5, <1>8, <1>9, <1>11, <1>12, <1>13 DEF MatcherInv

\* The end of addOrder and matchOrder keeps the invariant: what cross() leaves over
\* does not reach any level of the other side.
LEMMA FinishMatchKeeps ==
    ASSUME MatcherInv, FinishMatch
    PROVE  MatcherInv'
  <1>1. /\ MatcherTypeOK /\ BookConsistent /\ NoCrossedBook
        /\ incoming \in Incoming
        /\ mpc = "cross" /\ ~Crossing /\ mpc' = "idle" /\ trades' = trades
        /\ incoming.id \notin DOMAIN orderTable
    BY DEF MatcherInv, FinishMatch, MatcherTypeOK
  <1>2. BookTyped
    BY <1>1 DEF BookTyped, MatcherTypeOK
  <1>3. CASE incoming.quantity > 0
    <2>1. RestOrder(incoming)
      BY <1>3 DEF FinishMatch
    <2>2. BookTyped' /\ BookConsistent'
      BY <1>1, <1>2, <1>3, <2>1, RestKeepsBook
    <2>3. RestingSide \in Side /\ incoming.side \in Side /\ incoming.price \in Price
          /\ RestingSide # incoming.side
      BY <1>1 DEF RestingSide, Opposite, Side, Incoming
    <2>4. \A p \in DOMAIN book[RestingSide] : ~Reaches(incoming.side, incoming.price, p)
      <3>1. ASSUME NEW p \in DOMAIN book[RestingSide]
            PROVE  ~Reaches(incoming.side, incoming.price, p)
        <4>1. ~Reaches(incoming.side, incoming.price, BestPrice(RestingSide))
          BY <1>1, <1>3 DEF Crossing, RestingSide
        <4>2. DOMAIN book[RestingSide] \in SUBSET (0..MaxPrice) /\ MaxPrice \in Nat
          BY <1>1, <2>3, MatcherAssumption DEF MatcherTypeOK, Price
        <4>3. BestPrice(RestingSide) = Best(RestingSide, book[RestingSide])
          BY DEF BestPrice
        <4>4. /\ Best(RestingSide, book[RestingSide]) \in DOMAIN book[RestingSide]
              /\ Reaches(RestingSide, Best(RestingSide, book[RestingSide]), p)
          BY <2>3, <4>2, BestFacts
        <4>5. /\ p \in 0..MaxPrice
              /\ BestPrice(RestingSide) \in 0..MaxPrice
              /\ incoming.price \in 0..MaxPrice
          BY <2>3, <4>2, <4>3, <4>4 DEF Price
        <4>6. CASE incoming.side = "Buy"
          BY <4>1, <4>2, <4>3, <4>4, <4>5, <4>6 DEF Reaches, RestingSide, Opposite
        <4>7. CASE incoming.side = "Sell"
          BY <4>1, <4>2, <4>3, <4>4, <4>5, <4>7 DEF Reaches, RestingSide, Opposite
        <4> QED
          BY <2>3, <4>6, <4>7 DEF Side
      <3> QED
        BY <3>1
    <2>5. /\ DOMAIN book'[incoming.side] = DOMAIN book[incoming.side] \cup {incoming.price}
          /\ book'[RestingSide] = book[RestingSide]
      BY <1>2, <2>1, <2>3 DEF RestOrder, PushBack, BookTyped
    <2>6. NoCrossedBook'
      <3>1. \A side \in Side : DOMAIN book[side] \subseteq 0..MaxPrice
        BY <1>1 DEF MatcherTypeOK, Price
      <3>2. incoming.price \in 0..MaxPrice /\ MaxPrice \in Nat
        BY <2>3, MatcherAssumption DEF Price
      <3>3. CASE incoming.side = "Buy"
        BY <1>1, <2>4, <2>5, <3>1, <3>2, <3>3
        DEF NoCrossedBook, Reaches, RestingSide, Opposite, Side
      <3>4. CASE incoming.side = "Sell"
        BY <1>1, <2>4, <2>5, <3>1, <3>2, <3>4
        DEF NoCrossedBook, Reaches, RestingSide, Opposite, Side
      <3> QED
        BY <2>3, <3>3, <3>4 DEF Side
    <2> QED
      BY <1>1, <2>2, <2>6, SplitType, InvAtIdle DEF CallTyped
  <1>4. CASE ~(incoming.quantity > 0)
    <2>1. book' = book /\ orderTable' = orderTable
      BY <1>4 DEF FinishMatch
    <2>2. BookTyped' /\ BookConsistent' /\ NoCrossedBook'
      BY <1>1, <1>2, <2>1, FrozenBook
    <2> QED
      BY <1>1, <2>2, SplitType, InvAtIdle DEF CallTyped
  <1> QED
    BY <1>3, <1>4

\* A call begins with no trades and an order that does not rest.
LEMMA MatchOrderKeeps ==
    ASSUME MatcherInv, NEW order \in Incoming, MatchOrder(order)
    PROVE  MatcherInv'
  <1>1. /\ mpc' = "cross" /\ incoming' = order /\ trades' = <<>>
        /\ book' = book /\ orderTable' = orderTable /\ order.id \notin DOMAIN orderTable
    BY DEF MatchOrder, BeginMatch
  <1>2. 1..Len(trades') = {} /\ trades' \in Seq(Trade)
    BY <1>1
  <1>3. MatcherTypeOK'
    BY <1>1, <1>2, SplitType, FrozenBook DEF MatcherInv, CallTyped
  <1>4. BookConsistent' /\ NoCrossedBook'
    BY <1>1, FrozenBook DEF MatcherInv
  <1>5. TradesWalkTheBook'
    BY <1>2 DEF TradesWalkTheBook
  <1> QED
    BY <1>1, <1>2, <1>3, <1>4, <1>5 DEF MatcherInv

\* cancelOrder() keeps the invariant, whether or not the order rests.
LEMMA CancelOrderKeeps ==
    ASSUME MatcherInv, NEW id \in OrderId, CancelOrder(id)
    PROVE  MatcherInv'
  <1>1. /\ MatcherTypeOK /\ BookConsistent /\ NoCrossedBook /\ BookTyped
        /\ mpc = "idle" /\ mpc' = "idle" /\ trades' = trades
    BY DEF MatcherInv, CancelOrder, MatcherTypeOK, BookTyped
  <1>2. /\ BookTyped' /\ BookConsistent'
        /\ \A side \in Side : DOMAIN book'[side] \subseteq DOMAIN book[side]
    <2>1. CASE id \in DOMAIN orderTable
      BY <1>1, <2>1, RemoveKeepsBook DEF CancelOrder, CancelResting
    <2>2. CASE id \notin DOMAIN orderTable
      BY <1>1, <2>2, FrozenBook DEF CancelOrder, CancelResting
    <2> QED
      BY <2>1, <2>2
  <1>3. NoCrossedBook'
    BY <1>1, <1>2 DEF NoCrossedBook, Side
  <1> QED
    BY <1>1, <1>2, <1>3, SplitType, InvAtIdle DEF CallTyped

\* An empty book satisfies the invariant.
LEMMA MatcherInitially ==
    ASSUME MatcherInit
    PROVE  MatcherInv
  <1>1. /\ DOMAIN book = Side /\ \A side \in Side : DOMAIN book[side] = {}
        /\ DOMAIN orderTable = {} /\ mpc = "idle" /\ trades = <<>>
    BY DEF MatcherInit, NoLevels
  <1>2. BookTyped /\ NoCrossedBook /\ CallTyped
    BY <1>1 DEF BookTyped, NoCrossedBook, CallTyped, Side
  <1>3. ListsInTable(book, orderTable) /\ TableInLists(book, orderTable)
    BY <1>1 DEF ListsInTable, TableInLists
  <1>4. TradesWalkTheBook
    BY <1>1 DEF TradesWalkTheBook
  <1> QED
    BY <1>1, <1>2, <1>3, <1>4, Halves, SplitType DEF MatcherInv

\* A step that is not the matcher's keeps the invariant.
LEMMA MatcherStutters ==
    ASSUME MatcherInv, UNCHANGED matcherVars
    PROVE  MatcherInv'
  <1>1. /\ book' = book /\ orderTable' = orderTable /\ mpc' = mpc
        /\ incoming' = incoming /\ trades' = trades
    BY DEF matcherVars
  <1>2. CallTyped' <=> CallTyped
    BY <1>1 DEF CallTyped
  <1>3. TradesWalkTheBook' <=> TradesWalkTheBook
    BY <1>1 DEF TradesWalkTheBook
  <1>4. MatcherTypeOK' /\ BookConsistent' /\ NoCrossedBook'
    BY <1>1, <1>2, FrozenBook, SplitType DEF MatcherInv
  <1> QED
    BY <1>1, <1>3, <1>4 DEF MatcherInv

\* The matcher's invariant holds at the start and is kept by every step.
THEOREM MatcherInvariance == MatcherSpec => []MatcherInv
  <1>1. MatcherInit => MatcherInv
    BY MatcherInitially
  <1>2. MatcherInv /\ [MatcherNext]_matcherVars => MatcherInv'
    BY MatcherStutters, MatchOrderKeeps, CrossStepKeeps, FinishMatchKeeps, CancelOrderKeeps
    DEF MatcherNext
  <1> QED
    BY <1>1, <1>2, PTL DEF MatcherSpec

\* Types: the variables of the matcher keep their types.
THEOREM MatcherTypeCorrect == MatcherSpec => []MatcherTypeOK
  <1>1. MatcherInv => MatcherTypeOK
    BY DEF MatcherInv
  <1> QED
    BY <1>1, MatcherInvariance, PTL

\* The order table and the price levels describe the same book at all times.
THEOREM MatcherBookConsistent == MatcherSpec => []BookConsistent
  <1>1. MatcherInv => BookConsistent
    BY DEF MatcherInv
  <1> QED
    BY <1>1, MatcherInvariance, PTL

\* The book is never crossed, whatever orders and cancels arrive.
THEOREM MatcherNeverCrossed == MatcherSpec => []NoCrossedBook
  <1>1. MatcherInv => NoCrossedBook
    BY DEF MatcherInv
  <1> QED
    BY <1>1, MatcherInvariance, PTL

\* The trades of a call never get better and never break its limit.
THEOREM MatcherTradesWalkTheBook == MatcherSpec => []TradesWalkTheBook
  <1>1. MatcherInv => TradesWalkTheBook
    BY DEF MatcherInv
  <1> QED
    BY <1>1, MatcherInvariance, PTL

-----------------------------------------------------------------------------
(***************************************************************************)
(* Time priority.                                                          *)
(***************************************************************************)
\* The order of a level is strict.
StrictlyOrdered ==
    \A side \in Side : \A p \in DOMAIN book[side] : \A a, b \in OrderId :
        Before(book[side], p, a, b) => ~Before(book[side], p, b, a)

\* No two orders of a level are before each other.
LEMMA ConsistentIsStrict == BookTyped /\ BookConsistent => StrictlyOrdered
  <1> SUFFICES ASSUME BookTyped, BookConsistent, NEW side \in Side, NEW p \in DOMAIN book[side],
                      NEW a, NEW b, Before(book[side], p, a, b)
               PROVE  ~Before(book[side], p, b, a)
    BY DEF StrictlyOrdered
  <1> DEFINE fifo == book[side][p]
  <1>1. p \in DOMAIN book[side] /\ fifo \in Seq(OrderId)
    BY DEF Before, BookTyped
  <1>2. \A i, j \in 1..Len(fifo) : fifo[i] = fifo[j] => i = j
    BY <1>1 DEF BookConsistent
  <1>3. PICK i, j \in 1..Len(fifo) : i < j /\ fifo[i] = a /\ fifo[j] = b
    BY DEF Before
  <1>4. ASSUME NEW k \in 1..Len(fifo), NEW l \in 1..Len(fifo), k < l, fifo[k] = b, fifo[l] = a
        PROVE  FALSE
    <2>1. k = j /\ l = i
      BY <1>2, <1>3, <1>4
    <2> QED
      BY <1>1, <1>3, <1>4, <2>1
  <1> QED
    BY <1>4 DEF Before

\* restOrder() leaves the orders of every level where they are.
LEMMA RestKeepsPositions ==
    ASSUME BookTyped, NEW order \in Incoming, RestOrder(order),
           NEW side \in Side, NEW p \in DOMAIN book[side]
    PROVE  /\ p \in DOMAIN book'[side]
           /\ Len(book[side][p]) <= Len(book'[side][p])
           /\ Len(book[side][p]) \in Nat /\ Len(book'[side][p]) \in Nat
           /\ \A i \in 1..Len(book[side][p]) : book'[side][p][i] = book[side][p][i]
  <1>1. book[side][p] \in Seq(OrderId) /\ order.side \in Side /\ order.id \in OrderId
    BY DEF BookTyped, Incoming
  <1>2. book' = [book EXCEPT ![order.side] = PushBack(@, order.price, order.id)]
    BY DEF RestOrder
  <1>3. CASE side = order.side /\ p = order.price
    <2>1. book'[side][p] = Append(book[side][p], order.id) /\ p \in DOMAIN book'[side]
      BY <1>1, <1>2, <1>3 DEF PushBack, BookTyped
    <2> QED
      BY <1>1, <2>1
  <1>4. CASE ~(side = order.side /\ p = order.price)
    <2>1. book'[side][p] = book[side][p] /\ p \in DOMAIN book'[side]
      BY <1>1, <1>2, <1>4 DEF PushBack, BookTyped
    <2> QED
      BY <1>1, <2>1
  <1> QED
    BY <1>3, <1>4

\* removeOrder() leaves the other orders of every level in their order.
LEMMA RemoveKeepsOrder ==
    ASSUME BookTyped, BookConsistent, NEW id \in DOMAIN orderTable, RemoveOrder(id),
           NEW side \in Side, NEW p \in DOMAIN book'[side], NEW a, NEW b,
           Before(book'[side], p, a, b)
    PROVE  Before(book[side], p, a, b)
  <1> DEFINE s   == orderTable[id].side
             q   == orderTable[id].price
             old == book[s]
             new == EraseOrder(old, q, id)
             k   == PositionOf(old[q], id)
             n   == Len(old[q])
  <1>1. s \in Side
    BY DEF BookTyped, Location
  <1>2. q \in DOMAIN old /\ \E i \in 1..Len(old[q]) : old[q][i] = id
    BY DEF BookConsistent
  <1>3. old[q] \in Seq(OrderId)
    BY <1>1, <1>2 DEF BookTyped
  <1>4. Erased(old, new, q, k)
    <2> HIDE DEF s, q, old
    <2> QED
      BY <1>2, <1>3, EraseOrderFacts
  <1>5. book'[s] = new /\ (side # s => book'[side] = book[side])
    BY <1>1 DEF RemoveOrder, BookTyped
  <1>6. old = book[s]
    OBVIOUS
  <1> HIDE DEF s, q, old, new, k
  <1>7. PICK i, j \in 1..Len(book'[side][p]) :
           i < j /\ book'[side][p][i] = a /\ book'[side][p][j] = b
    BY DEF Before
  <1>8. CASE side = s /\ p = q
    <2>1. n \in Nat /\ n # 1 /\ Len(new[q]) = n - 1 /\ k \in 1..n
      BY <1>4, <1>5, <1>8 DEF Erased
    <2>2. i \in 1..n - 1 /\ j \in 1..n - 1 /\ i < j /\ new[q][i] = a /\ new[q][j] = b
      BY <1>5, <1>7, <1>8, <2>1
    <2>3. /\ \A m \in 1..n - 1 : m < k => new[q][m] = old[q][m]
          /\ \A m \in 1..n - 1 : m >= k => new[q][m] = old[q][m + 1]
      BY <1>4 DEF Erased
    <2>4. \E i1, j1 \in 1..n : i1 < j1 /\ old[q][i1] = a /\ old[q][j1] = b
      <3>1. CASE j < k
        <4>1. i \in 1..n /\ j \in 1..n /\ old[q][i] = a /\ old[q][j] = b
          BY <2>1, <2>2, <2>3, <3>1
        <4> QED
          BY <2>2, <4>1
      <3>2. CASE i < k /\ j >= k
        <4>1. i \in 1..n /\ j + 1 \in 1..n /\ i < j + 1 /\ old[q][i] = a /\ old[q][j + 1] = b
          BY <2>1, <2>2, <2>3, <3>2
        <4> QED
          BY <4>1
      <3>3. CASE i >= k
        <4>1. /\ i + 1 \in 1..n /\ j + 1 \in 1..n /\ i + 1 < j + 1
              /\ old[q][i + 1] = a /\ old[q][j + 1] = b
          <5>1. i + 1 \in 1..n /\ j + 1 \in 1..n /\ i + 1 < j + 1 /\ j >= k
            BY <2>1, <2>2, <3>3
          <5> QED
            BY <2>2, <2>3, <3>3, <5>1
        <4> QED
          BY Zenon, <4>1
      <3>4. j < k \/ (i < k /\ j >= k) \/ i >= k
        BY <2>1, <2>2
      <3> QED
        BY <3>1, <3>2, <3>3, <3>4
    <2> QED
      BY <1>2, <1>6, <1>8, <2>4 DEF Before
  <1>9. CASE side # s
    BY <1>5, <1>9
  <1>10. CASE side = s /\ p # q
    <2>1. p \in DOMAIN old /\ book'[side][p] = old[p]
      BY <1>4, <1>5, <1>10 DEF Erased
    <2> QED
      BY <1>6, <1>7, <1>10, <2>1 DEF Before
  <1> QED
    BY <1>8, <1>9, <1>10

\* No step of the matcher breaks time priority.
THEOREM MatcherTimePriority == MatcherSpec => TimePriority
  <1>1. MatcherInv /\ MatcherInv' /\ [MatcherNext]_matcherVars => [KeepsTimePriority]_matcherVars
    <2> SUFFICES ASSUME MatcherInv, MatcherInv', MatcherNext PROVE KeepsTimePriority
      OBVIOUS
    <2>1. BookTyped /\ BookConsistent /\ BookTyped' /\ BookConsistent'
      BY DEF MatcherInv, MatcherTypeOK, BookTyped
    <2> DEFINE NoOvertaking ==
                 \A side \in Side : \A p \in DOMAIN book[side] : \A a, b \in OrderId :
                     Before(book[side], p, a, b) => ~Before(book'[side], p, b, a)
               FrontLosesOnly ==
                 \A id \in DOMAIN orderTable \cap DOMAIN orderTable' :
                     orderTable'[id].quantity # orderTable[id].quantity =>
                         /\ orderTable[id].price = BestPrice(orderTable[id].side)
                         /\ Head(book[orderTable[id].side][orderTable[id].price]) = id
    <2>2. UNCHANGED book => NoOvertaking
      BY <2>1, ConsistentIsStrict DEF StrictlyOrdered
    <2>3. ASSUME NEW order \in Incoming, RestOrder(order)
          PROVE  NoOvertaking
      <3>1. ASSUME NEW side \in Side, NEW p \in DOMAIN book[side],
                   NEW a \in OrderId, NEW b \in OrderId, Before(book[side], p, a, b)
            PROVE  ~Before(book'[side], p, b, a)
        <4>1. Before(book'[side], p, a, b)
          <5>1. PICK i, j \in 1..Len(book[side][p]) :
                   i < j /\ book[side][p][i] = a /\ book[side][p][j] = b
            BY <3>1 DEF Before
          <5>2. /\ p \in DOMAIN book'[side]
                /\ Len(book[side][p]) <= Len(book'[side][p])
                /\ Len(book[side][p]) \in Nat /\ Len(book'[side][p]) \in Nat
                /\ \A m \in 1..Len(book[side][p]) : book'[side][p][m] = book[side][p][m]
            BY <2>1, <2>3, RestKeepsPositions
          <5>3. i \in 1..Len(book'[side][p]) /\ j \in 1..Len(book'[side][p])
            BY <5>1, <5>2
          <5> QED
            BY <5>1, <5>2, <5>3 DEF Before
        <4>2. StrictlyOrdered'
          BY <2>1, ConsistentIsStrict, PTL
        <4> QED
          BY <4>1, <4>2 DEF StrictlyOrdered, Before
      <3> QED
        BY <3>1
    <2>4. ASSUME NEW id \in DOMAIN orderTable, RemoveOrder(id)
          PROVE  NoOvertaking
      <3>1. ASSUME NEW side \in Side, NEW p \in DOMAIN book[side],
                   NEW a \in OrderId, NEW b \in OrderId, Before(book[side], p, a, b), Before(book'[side], p, b, a)
            PROVE  FALSE
        <4>1. p \in DOMAIN book'[side]
          BY <3>1 DEF Before
        <4>2. Before(book[side], p, b, a)
          BY <2>1, <2>4, <3>1, <4>1, RemoveKeepsOrder
        <4> QED
          BY <2>1, <3>1, <4>2, ConsistentIsStrict DEF StrictlyOrdered
      <3> QED
        BY <3>1
    <2>5. (\A id \in DOMAIN orderTable \cap DOMAIN orderTable' : orderTable'[id] = orderTable[id])
          => FrontLosesOnly
      OBVIOUS
    <2>6. ASSUME NEW order \in Incoming, RestOrder(order), order.id \notin DOMAIN orderTable
          PROVE  FrontLosesOnly
      BY <2>5, <2>6 DEF RestOrder
    <2>7. ASSUME NEW id \in DOMAIN orderTable, RemoveOrder(id)
          PROVE  FrontLosesOnly
      BY <2>5, <2>7 DEF RemoveOrder, Restrict
    <2>8. KeepsTimePriority <=> NoOvertaking /\ FrontLosesOnly
      BY DEF KeepsTimePriority
    <2> HIDE DEF NoOvertaking
    <2>9. CASE \E order \in Incoming : MatchOrder(order)
      <3>1. book' = book /\ orderTable' = orderTable
        BY <2>9 DEF MatchOrder
      <3> QED
        BY <2>2, <2>5, <2>8, <3>1
    <2>10. CASE CrossStep
      <3>1. mpc = "cross" /\ Crossing
        BY <2>10 DEF CrossStep
      <3>2. IF orderTable[RestingId].quantity = Traded
            THEN RemoveOrder(RestingId)
            ELSE /\ orderTable' = [orderTable EXCEPT ![RestingId].quantity = @ - Traded]
                 /\ UNCHANGED book
        BY Zenon, <2>10 DEF CrossStep, TradeWith, RestingSide, RestingPrice, RestingId, Traded
      <3>3. /\ RestingId \in DOMAIN orderTable
            /\ orderTable[RestingId].side = RestingSide
            /\ orderTable[RestingId].price = RestingPrice
        BY <3>1, CrossFinds
      <3>4. CASE RemoveOrder(RestingId)
        BY <2>4, <2>7, <2>8, <3>3, <3>4
      <3>5. CASE /\ orderTable' = [orderTable EXCEPT ![RestingId].quantity = @ - Traded]
                 /\ UNCHANGED book
        <4>1. \A id \in DOMAIN orderTable : id # RestingId => orderTable'[id] = orderTable[id]
          BY <3>5
        <4>2. FrontLosesOnly
          BY <3>3, <4>1 DEF RestingId, RestingPrice
        <4> QED
          BY <2>2, <2>8, <3>5, <4>2
      <3> QED
        BY <3>2, <3>4, <3>5
    <2>11. CASE FinishMatch
      <3>1. incoming \in Incoming /\ incoming.id \notin DOMAIN orderTable
        BY <2>11 DEF FinishMatch, MatcherInv, MatcherTypeOK
      <3>2. CASE RestOrder(incoming)
        BY <2>3, <2>6, <2>8, <3>1, <3>2
      <3>3. CASE UNCHANGED <<book, orderTable>>
        BY <2>2, <2>5, <2>8, <3>3
      <3> QED
        BY <2>11, <3>2, <3>3 DEF FinishMatch
    <2>12. CASE \E id \in OrderId : CancelOrder(id)
      <3>1. PICK id \in OrderId : CancelOrder(id)
        BY <2>12
      <3>2. CASE id \in DOMAIN orderTable
        <4>1. RemoveOrder(id)
          BY <3>1, <3>2 DEF CancelOrder, CancelResting
        <4> QED
          BY <2>4, <2>7, <2>8, <3>2, <4>1
      <3>3. CASE id \notin DOMAIN orderTable
        <4>1. book' = book /\ orderTable' = orderTable
          BY <3>1, <3>3 DEF CancelOrder, CancelResting
        <4> QED
          BY <2>2, <2>5, <2>8, <4>1
      <3> QED
        BY <3>2, <3>3
    <2> QED
      BY <2>9, <2>10, <2>11, <2>12 DEF MatcherNext
  <1> QED
    BY <1>1, MatcherInvariance, PTL DEF MatcherSpec, TimePriority
=============================================================================
