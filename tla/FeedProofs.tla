------------------------------ MODULE FeedProofs ------------------------------
(***************************************************************************)
(* Proofs about the feed, in three parts.                                  *)
(*                                                                         *)
(* ItchBookBuilder, for every set of stocks and references and every bound *)
(* on prices and shares: its levels sum its orders.                        *)
(*                                                                         *)
(* ItchParser, for every number of byte values, every limit on the size of *)
(* a message and streams of any length: the parser finds the records of    *)
(* the stream however the stream is cut into chunks.                       *)
(*                                                                         *)
(* SocketFeedReader, for every peer, every stream and every size of the    *)
(* receive buffer: what is handed over, what an orderly close leaves       *)
(* behind and what holds once the thread is joined.                        *)
(***************************************************************************)
EXTENDS SocketFeedReader, ItchBookBuilder, TLAPS

-----------------------------------------------------------------------------
(***************************************************************************)
(* Sums over finite sets.                                                  *)
(***************************************************************************)
\* T is in the family F and no proper subset of it is.
Smallest(T, F) == T \in F /\ \A U \in SUBSET T : U # T => U \notin F

\* A set is finite when every family of its subsets that is not empty has a smallest
\* member (Tarski): what proofs about finite sets use for induction.
Finite(S) == \A F \in SUBSET SUBSET S : F # {} => \E T \in F : Smallest(T, F)

\* In a family of subsets of a finite set there is one that has none of the others
\* in it.
LEMMA SmallestSubset ==
    ASSUME NEW S, Finite(S), NEW F \in SUBSET SUBSET S, F # {}
    PROVE  \E T \in F : \A U \in SUBSET T : U # T => U \notin F
  BY Zenon DEF Finite, Smallest

\* The subsets of a finite set are finite.
LEMMA FiniteSubset ==
    ASSUME NEW S, Finite(S), NEW T \in SUBSET S
    PROVE  Finite(T)
  <1> SUFFICES ASSUME NEW F \in SUBSET SUBSET T, F # {}
               PROVE  \E U \in F : Smallest(U, F)
    BY DEF Finite
  <1>1. F \in SUBSET SUBSET S
    OBVIOUS
  <1> QED
    BY <1>1, Zenon DEF Finite

\* The empty set is finite.
LEMMA FiniteEmpty == Finite({})
  <1> SUFFICES ASSUME NEW F \in SUBSET SUBSET {}, F # {}
               PROVE  \E T \in F : Smallest(T, F)
    BY DEF Finite
  <1>1. {} \in F
    OBVIOUS
  <1> QED
    BY <1>1 DEF Smallest

\* A finite set with one more element is finite.
LEMMA OneMore ==
    ASSUME NEW S, Finite(S), NEW x
    PROVE  Finite(S \cup {x})
  <1> SUFFICES ASSUME NEW F \in SUBSET SUBSET (S \cup {x}), F # {}
               PROVE  \E T \in F : Smallest(T, F)
    BY DEF Finite
  <1> DEFINE G == {T \in SUBSET S : \E V \in F : T = V \ {x}}
  <1>1. \A V \in F : V \ {x} \in G
    OBVIOUS
  <1>2. G \in SUBSET SUBSET S /\ G # {}
    BY <1>1, Zenon
  <1>3. PICK T \in G : \A U \in SUBSET T : U # T => U \notin G
    <2> HIDE DEF G
    <2> QED
      BY <1>2, SmallestSubset
  <1>4. PICK V \in F : T = V \ {x}
    OBVIOUS
  <1>5. ASSUME NEW U \in SUBSET V, U \in F
        PROVE  U \ {x} = T
    <2>1. U \ {x} \in SUBSET T /\ U \ {x} \in G
      BY <1>1, <1>4, <1>5
    <2> HIDE DEF G
    <2> QED
      BY <1>3, <2>1
  <1>6. CASE T \in F
    <2>1. \A U \in SUBSET T : U \in F => U = T
      BY <1>4, <1>5
    <2> QED
      BY <1>6, <2>1 DEF Smallest
  <1>7. CASE T \notin F
    <2>1. \A U \in SUBSET V : U \in F => U = V
      BY <1>4, <1>5, <1>7
    <2> QED
      BY <1>4, <2>1 DEF Smallest
  <1> QED
    BY <1>6, <1>7

\* The element MapThenSumSet takes out of a set first.
Chosen(T) == CHOOSE x \in T : TRUE

\* g adds up the shares of the orders in each subset of S.
Adds(g, o, S) ==
    g = [T \in SUBSET S |-> IF T = {} THEN 0 ELSE o[Chosen(T)].shares + g[T \ {Chosen(T)}]]

\* The share of the order x is one of the summands.
SplitsOff(g, o, T, x) == x \in T /\ g[T] = o[x].shares + g[T \ {x}]

SumOver(o, S) == (CHOOSE g : Adds(g, o, S))[S]

\* What is added up for a subset.
LEMMA AddedNothing ==
    ASSUME NEW g, NEW o, NEW S, Adds(g, o, S)
    PROVE  g[{}] = 0
  BY Zenon DEF Adds

LEMMA Added ==
    ASSUME NEW g, NEW o, NEW S, Adds(g, o, S), NEW T \in SUBSET S, T # {}
    PROVE  SplitsOff(g, o, T, Chosen(T))
  <1>1. Chosen(T) \in T
    BY Zenon DEF Chosen
  <1>2. g[T] = IF T = {} THEN 0 ELSE o[Chosen(T)].shares + g[T \ {Chosen(T)}]
    BY Zenon DEF Adds
  <1> QED
    BY <1>1, <1>2, Zenon DEF SplitsOff

\* A sum depends on the shares of the orders it is over, and on nothing else.
LEMMA SumsAgree ==
    ASSUME NEW g, NEW h, NEW o, NEW q, NEW S, NEW R \in SUBSET S, Finite(R),
           Adds(g, o, S), Adds(h, q, R), \A x \in R : o[x].shares = q[x].shares
    PROVE  \A T \in SUBSET R : g[T] = h[T]
  <1> DEFINE F == {T \in SUBSET R : g[T] # h[T]}
  <1> SUFFICES ASSUME F # {} PROVE FALSE
    OBVIOUS
  <1>1. PICK T \in F : \A U \in SUBSET T : U # T => U \notin F
    <2>1. F \in SUBSET SUBSET R
      OBVIOUS
    <2> HIDE DEF F
    <2> QED
      BY <2>1, SmallestSubset
  <1>2. T \in SUBSET R /\ T \in SUBSET S /\ g[T] # h[T]
    OBVIOUS
  <1>3. PICK c : c = Chosen(T)
    BY Zenon
  <1>4. T # {}
    BY <1>2, AddedNothing, Zenon
  <1> HIDE DEF F
  <1>5. c \in T /\ g[T] = o[c].shares + g[T \ {c}] /\ h[T] = q[c].shares + h[T \ {c}]
    <2>1. SplitsOff(g, o, T, Chosen(T)) /\ SplitsOff(h, q, T, Chosen(T))
      BY <1>2, <1>4, Added, Zenon
    <2> QED
      BY <1>3, <2>1, Zenon DEF SplitsOff
  <1>6. g[T \ {c}] = h[T \ {c}]
    BY <1>1, <1>2, <1>5 DEF F
  <1> QED
    BY <1>2, <1>5, <1>6

\* Every finite set of orders can be added up.
LEMMA SumExists ==
    ASSUME NEW o, NEW S, Finite(S)
    PROVE  \E g : Adds(g, o, S)
  <1> DEFINE F == {T \in SUBSET S : ~\E g : Adds(g, o, T)}
  <1> SUFFICES ASSUME F # {} PROVE FALSE
    BY Zenon
  <1>1. PICK T \in F : \A U \in SUBSET T : U # T => U \notin F
    <2>1. F \in SUBSET SUBSET S
      OBVIOUS
    <2> HIDE DEF F
    <2> QED
      BY <2>1, SmallestSubset
  <1>2. T \in SUBSET S /\ ~\E g : Adds(g, o, T)
    OBVIOUS
  <1> DEFINE G(U) == CHOOSE g : Adds(g, o, U)
             h == [U \in SUBSET T |-> IF U = {} THEN 0
                       ELSE o[Chosen(U)].shares + G(U \ {Chosen(U)})[U \ {Chosen(U)}]]
  <1>3. ASSUME NEW U \in SUBSET T, U # T
        PROVE  Adds(G(U), o, U) /\ Finite(U)
    <2>1. U \in SUBSET S
      BY <1>2
    <2>2. \E g : Adds(g, o, U)
      BY <1>1, <1>3, <2>1, Zenon
    <2>3. Adds(G(U), o, U)
      BY <2>2, Zenon
    <2>4. Finite(U)
      BY <2>1, FiniteSubset
    <2> QED
      BY <2>3, <2>4
  <1> HIDE DEF G, F
  <1>4. ASSUME NEW U \in SUBSET T, U # T
        PROVE  G(U)[U] = h[U]
    <2>1. CASE U = {}
      <3>1. G(U)[{}] = 0
        BY <1>3, <1>4, AddedNothing, Zenon
      <3> QED
        BY <2>1, <3>1, Zenon
    <2>2. CASE U # {}
      <3>1. PICK V : V = U \ {Chosen(U)}
        BY Zenon
      <3>2. /\ Chosen(U) \in U /\ V \in SUBSET U
            /\ G(U)[U] = o[Chosen(U)].shares + G(U)[V]
        <4>1. SplitsOff(G(U), o, U, Chosen(U))
          BY <1>3, <1>4, <2>2, Added, Zenon
        <4> QED
          BY <3>1, <4>1, Zenon DEF SplitsOff
      <3>3. V \in SUBSET T /\ V # T
        BY <3>1, <3>2
      <3>4. G(U)[V] = G(V)[V]
        <4>1. Adds(G(U), o, U) /\ Adds(G(V), o, V) /\ Finite(V)
          BY <1>3, <1>4, <3>3
        <4>2. V \in SUBSET V /\ \A x \in V : o[x].shares = o[x].shares
          OBVIOUS
        <4> QED
          BY <3>2, <4>1, <4>2, SumsAgree
      <3>5. h[U] = o[Chosen(U)].shares + G(V)[V]
        BY <2>2, <3>1, Zenon
      <3> QED
        BY <3>2, <3>4, <3>5, Zenon
    <2> QED
      BY <2>1, <2>2
  <1>5. ASSUME NEW U \in SUBSET T, U # {}
        PROVE  G(U \ {Chosen(U)})[U \ {Chosen(U)}] = h[U \ {Chosen(U)}]
    <2>1. Chosen(U) \in U
      BY <1>5, Zenon DEF Chosen
    <2>2. U \ {Chosen(U)} \in SUBSET T /\ U \ {Chosen(U)} # T
      BY <2>1
    <2> QED
      BY <1>4, <2>2, Zenon
  <1>6. h = [U \in SUBSET T |-> IF U = {} THEN 0
                                ELSE o[Chosen(U)].shares + h[U \ {Chosen(U)}]]
    BY <1>5, Zenon
  <1>7. Adds(h, o, T)
    <2> HIDE DEF h
    <2> QED
      BY <1>6, Zenon DEF Adds
  <1> QED
    BY <1>2, <1>7, Zenon

\* One function adds up all subsets of a finite set.
LEMMA SumFunctionOf ==
    ASSUME NEW o, NEW S, Finite(S)
    PROVE  \E g : Adds(g, o, S) /\ \A T \in SUBSET S : SumOver(o, T) = g[T]
  <1>1. PICK g : Adds(g, o, S)
    BY SumExists
  <1>2. ASSUME NEW T \in SUBSET S
        PROVE  SumOver(o, T) = g[T]
    <2>1. Finite(T)
      BY FiniteSubset
    <2>2. PICK h : h = CHOOSE k : Adds(k, o, T)
      BY Zenon
    <2>3. Adds(h, o, T)
      BY <2>1, <2>2, SumExists, Zenon
    <2>4. T \in SUBSET T /\ \A x \in T : o[x].shares = o[x].shares
      OBVIOUS
    <2>5. g[T] = h[T]
      BY <1>1, <2>1, <2>3, <2>4, SumsAgree
    <2> QED
      BY <2>2, <2>5, Zenon DEF SumOver
  <1> QED
    BY <1>1, <1>2, Zenon

\* A sum is a natural number.
LEMMA SumIsNat ==
    ASSUME NEW o, NEW S, Finite(S), \A x \in S : o[x].shares \in Nat
    PROVE  SumOver(o, S) \in Nat
  <1>1. PICK g : Adds(g, o, S) /\ \A T \in SUBSET S : SumOver(o, T) = g[T]
    BY SumFunctionOf
  <1> DEFINE F == {T \in SUBSET S : g[T] \notin Nat}
  <1>2. F = {}
    <2> SUFFICES ASSUME F # {} PROVE FALSE
      OBVIOUS
    <2>1. F \in SUBSET SUBSET S
      OBVIOUS
    <2>2. PICK T \in F : \A U \in SUBSET T : U # T => U \notin F
      <3> HIDE DEF F
      <3> QED
        BY <2>1, SmallestSubset
    <2>3. T \in SUBSET S /\ g[T] \notin Nat
      OBVIOUS
    <2> HIDE DEF F
    <2>4. T # {}
      <3>1. g[{}] = 0
        BY <1>1, AddedNothing, Zenon
      <3> QED
        BY <2>3, <3>1
    <2>5. PICK c : c = Chosen(T)
      BY Zenon
    <2>6. SplitsOff(g, o, T, c)
      BY <1>1, <2>3, <2>4, <2>5, Added, Zenon
    <2>7. c \in T /\ c \in S /\ g[T] = o[c].shares + g[T \ {c}]
      BY <2>3, <2>6 DEF SplitsOff
    <2>8. g[T \ {c}] \in Nat
      BY <2>2, <2>3, <2>7 DEF F
    <2> QED
      BY <2>3, <2>7, <2>8
  <1> QED
    BY <1>1, <1>2

\* The order of the summands does not matter: each may come first.
LEMMA AnyComesFirst ==
    ASSUME NEW o, NEW S, Finite(S), \A x \in S : o[x].shares \in Nat, NEW x \in S
    PROVE  SumOver(o, S) = o[x].shares + SumOver(o, S \ {x})
  <1>1. PICK g : Adds(g, o, S) /\ \A T \in SUBSET S : SumOver(o, T) = g[T]
    BY SumFunctionOf
  <1>2. \A T \in SUBSET S : g[T] \in Nat
    <2> SUFFICES ASSUME NEW T \in SUBSET S PROVE g[T] \in Nat
      OBVIOUS
    <2>1. Finite(T) /\ \A y \in T : o[y].shares \in Nat
      BY FiniteSubset
    <2> QED
      BY <1>1, <2>1, SumIsNat
  <1> DEFINE F == {T \in SUBSET S : \E y \in T : ~SplitsOff(g, o, T, y)}
  <1>3. F = {}
    <2> SUFFICES ASSUME F # {} PROVE FALSE
      OBVIOUS
    <2>1. F \in SUBSET SUBSET S
      OBVIOUS
    <2>2. PICK T \in F : \A U \in SUBSET T : U # T => U \notin F
      <3> HIDE DEF F
      <3> QED
        BY <2>1, SmallestSubset
    <2>3. T \in SUBSET S
      OBVIOUS
    <2>4. PICK y \in T : ~SplitsOff(g, o, T, y)
      BY Zenon
    <2>5. PICK c : c = Chosen(T)
      BY Zenon
    <2>6. T # {} /\ y \in S
      BY <2>3, <2>4
    <2>7. SplitsOff(g, o, T, c)
      BY <1>1, <2>3, <2>5, <2>6, Added, Zenon
    <2>8. c \in T /\ c # y
      BY <2>4, <2>7, Zenon DEF SplitsOff
    <2>9. SplitsOff(g, o, T \ {c}, y) /\ SplitsOff(g, o, T \ {y}, c)
      <3>1. T \ {c} \in SUBSET S /\ T \ {c} \in SUBSET T /\ T \ {c} # T /\ y \in T \ {c}
        BY <2>3, <2>4, <2>8
      <3>2. T \ {y} \in SUBSET S /\ T \ {y} \in SUBSET T /\ T \ {y} # T /\ c \in T \ {y}
        BY <2>3, <2>4, <2>8
      <3> QED
        BY <2>2, <3>1, <3>2, Zenon
    <2>10. PICK V : V = (T \ {c}) \ {y}
      BY Zenon
    <2>11. V = (T \ {y}) \ {c} /\ V \in SUBSET S
      BY <2>3, <2>10
    <2>12. /\ g[T] = o[c].shares + g[T \ {c}]
           /\ g[T \ {c}] = o[y].shares + g[V]
           /\ g[T \ {y}] = o[c].shares + g[V]
      BY <2>7, <2>9, <2>10, <2>11, Zenon DEF SplitsOff
    <2>13. o[y].shares \in Nat /\ o[c].shares \in Nat /\ g[V] \in Nat
      BY <1>2, <2>3, <2>6, <2>8, <2>11
    <2>14. g[T] = o[y].shares + g[T \ {y}]
      <3> HIDE DEF F
      <3> QED
        BY <2>12, <2>13
    <2> QED
      BY <2>4, <2>14, Zenon DEF SplitsOff
  <1>4. SplitsOff(g, o, S, x)
    BY <1>3, Zenon
  <1>5. g[S] = o[x].shares + g[S \ {x}] /\ S \in SUBSET S /\ S \ {x} \in SUBSET S
    BY <1>4 DEF SplitsOff
  <1> QED
    BY <1>1, <1>5

\* Sums over the same orders with the same shares are the same.
LEMMA SameSum ==
    ASSUME NEW o, NEW q, NEW S, Finite(S), \A x \in S : o[x].shares = q[x].shares
    PROVE  SumOver(o, S) = SumOver(q, S)
  <1>1. PICK g : Adds(g, o, S) /\ SumOver(o, S) = g[S]
    BY SumFunctionOf
  <1>2. PICK h : Adds(h, q, S) /\ SumOver(q, S) = h[S]
    BY SumFunctionOf
  <1>3. S \in SUBSET S
    OBVIOUS
  <1>4. g[S] = h[S]
    BY <1>1, <1>2, <1>3, SumsAgree
  <1> QED
    BY <1>1, <1>2, <1>4

\* The sum over no order is 0.
LEMMA EmptySum ==
    ASSUME NEW o
    PROVE  SumOver(o, {}) = 0
  <1>1. Finite({})
    BY FiniteEmpty
  <1>2. PICK g : Adds(g, o, {}) /\ \A T \in SUBSET {} : SumOver(o, T) = g[T]
    BY <1>1, SumFunctionOf
  <1> QED
    BY <1>2, AddedNothing

\* What a snapshot must show of a level is such a sum.
LEMMA TotalIsSum ==
    ASSUME NEW b, NEW side, NEW p
    PROVE  TotalAt(b, side, p) = SumOver(b.orders, RestingAt(b, side, p))
  BY Zenon DEF TotalAt, MapThenSumSet, MapThenFoldSet, SumOver, Adds, Chosen

-----------------------------------------------------------------------------
(***************************************************************************)
(* The book of one stock.                                                  *)
(***************************************************************************)
FeedOrder == [side : Side, price : FeedPrice, shares : Nat]

\* Orders and levels as the handlers keep them.
OrdersTyped(orders) ==
    /\ DOMAIN orders \subseteq Ref /\ Finite(DOMAIN orders)
    /\ orders = [ref \in DOMAIN orders |-> orders[ref]]
    /\ \A ref \in DOMAIN orders : orders[ref] \in FeedOrder

LevelsTyped(levels) ==
    /\ levels = [side \in Side |-> levels[side]]
    /\ \A side \in Side :
          /\ DOMAIN levels[side] \subseteq FeedPrice
          /\ levels[side] = [p \in DOMAIN levels[side] |-> levels[side][p]]
          /\ \A p \in DOMAIN levels[side] : levels[side][p] \in Nat

\* What a snapshot shows at a price.
Shown(levels, side, p) == IF p \in DOMAIN levels[side] THEN levels[side][p] ELSE 0

SumAt(b, side, p) == SumOver(b.orders, RestingAt(b, side, p))

LevelRight(b, side, p) ==
    /\ Shown(b.levels, side, p) = SumAt(b, side, p)
    /\ p \in DOMAIN b.levels[side] => RestingAt(b, side, p) # {}

BookRight(b) ==
    /\ OrdersTyped(b.orders) /\ LevelsTyped(b.levels)
    /\ \A side \in Side, p \in FeedPrice : LevelRight(b, side, p)

\* The orders at a price are finitely many, with a natural number of shares each.
LEMMA RestingFacts ==
    ASSUME NEW b, OrdersTyped(b.orders), NEW side, NEW p
    PROVE  /\ Finite(RestingAt(b, side, p))
           /\ \A ref \in RestingAt(b, side, p) : b.orders[ref].shares \in Nat
           /\ SumAt(b, side, p) \in Nat
  <1>1. Finite(RestingAt(b, side, p))
    <2>1. RestingAt(b, side, p) \in SUBSET DOMAIN b.orders
      BY DEF RestingAt
    <2>2. Finite(DOMAIN b.orders)
      BY DEF OrdersTyped
    <2> QED
      BY <2>1, <2>2, FiniteSubset
  <1>2. \A ref \in RestingAt(b, side, p) : b.orders[ref].shares \in Nat
    BY DEF RestingAt, OrdersTyped, FeedOrder
  <1> QED
    BY <1>1, <1>2, SumIsNat DEF SumAt

\* At a price where a handler changes no order the sum stays.
LEMMA SumStays ==
    ASSUME NEW b, NEW c, OrdersTyped(b.orders), NEW side, NEW p, NEW r,
           DOMAIN c.orders \cup {r} = DOMAIN b.orders \cup {r},
           \A ref \in DOMAIN b.orders : ref # r => c.orders[ref] = b.orders[ref],
           r \notin RestingAt(b, side, p), r \notin RestingAt(c, side, p)
    PROVE  RestingAt(c, side, p) = RestingAt(b, side, p) /\ SumAt(c, side, p) = SumAt(b, side, p)
  <1>1. RestingAt(c, side, p) = RestingAt(b, side, p)
    BY DEF RestingAt
  <1>2. \A ref \in RestingAt(b, side, p) : b.orders[ref].shares = c.orders[ref].shares
    BY DEF RestingAt
  <1>3. SumOver(b.orders, RestingAt(b, side, p)) = SumOver(c.orders, RestingAt(b, side, p))
    BY <1>2, RestingFacts, SameSum
  <1> QED
    BY <1>1, <1>3 DEF SumAt

\* The shares of the order r are one of the summands at its price.
SplitsAt(b, side, p, r) ==
    /\ SumAt(b, side, p) = b.orders[r].shares + SumOver(b.orders, RestingAt(b, side, p) \ {r})
    /\ SumOver(b.orders, RestingAt(b, side, p) \ {r}) \in Nat
    /\ b.orders[r].shares \in Nat

\* At the price of the order it changes, the sum is that of the other orders and what
\* the order has.
LEMMA SumSplits ==
    ASSUME NEW b, OrdersTyped(b.orders), NEW side, NEW p, NEW r \in RestingAt(b, side, p)
    PROVE  SplitsAt(b, side, p, r)
  <1>1. /\ Finite(RestingAt(b, side, p))
        /\ \A ref \in RestingAt(b, side, p) : b.orders[ref].shares \in Nat
    BY RestingFacts
  <1>2. SumAt(b, side, p) = b.orders[r].shares + SumOver(b.orders, RestingAt(b, side, p) \ {r})
    BY <1>1, AnyComesFirst DEF SumAt
  <1>3. Finite(RestingAt(b, side, p) \ {r})
    <2>1. RestingAt(b, side, p) \ {r} \in SUBSET RestingAt(b, side, p)
      OBVIOUS
    <2> QED
      BY <1>1, <2>1, FiniteSubset
  <1>4. SumOver(b.orders, RestingAt(b, side, p) \ {r}) \in Nat
    BY <1>1, <1>3, SumIsNat
  <1> QED
    BY <1>1, <1>2, <1>4 DEF SplitsAt

\* addLevel() raises what is shown at one price and nothing else.
LEMMA LevelAdded ==
    ASSUME NEW levels, LevelsTyped(levels), NEW side \in Side, NEW price \in FeedPrice,
           NEW qty \in Nat
    PROVE  LET after == AddLevel(levels, side, price, qty)
           IN  /\ LevelsTyped(after)
               /\ price \in DOMAIN after[side]
               /\ Shown(after, side, price) = Shown(levels, side, price) + qty
               /\ \A s \in Side, p \in FeedPrice : <<s, p>> # <<side, price>> =>
                     /\ Shown(after, s, p) = Shown(levels, s, p)
                     /\ p \in DOMAIN after[s] <=> p \in DOMAIN levels[s]
  <1> DEFINE after == AddLevel(levels, side, price, qty)
             row == [p \in DOMAIN levels[side] \cup {price} |->
                        (IF p \in DOMAIN levels[side] THEN levels[side][p] ELSE 0)
                            + (IF p = price THEN qty ELSE 0)]
  <1>1. after = [s \in Side |-> IF s = side THEN row ELSE levels[s]]
    BY DEF AddLevel, LevelsTyped
  <1>2. after[side] = row /\ \A s \in Side : s # side => after[s] = levels[s]
    BY <1>1
  <1>3. /\ DOMAIN row = DOMAIN levels[side] \cup {price}
        /\ row = [p \in DOMAIN row |-> row[p]]
        /\ \A p \in DOMAIN row : row[p] \in Nat
        /\ row[price] = Shown(levels, side, price) + qty
        /\ \A p \in DOMAIN levels[side] : p # price => row[p] = levels[side][p]
    BY DEF Shown, LevelsTyped
  <1> HIDE DEF after, row
  <1>4. LevelsTyped(after)
    BY <1>1, <1>2, <1>3 DEF LevelsTyped
  <1>5. price \in DOMAIN after[side] /\ Shown(after, side, price) = Shown(levels, side, price) + qty
    BY <1>2, <1>3 DEF Shown
  <1>6. ASSUME NEW s \in Side, NEW p \in FeedPrice, <<s, p>> # <<side, price>>
        PROVE  /\ Shown(after, s, p) = Shown(levels, s, p)
               /\ p \in DOMAIN after[s] <=> p \in DOMAIN levels[s]
    <2>1. CASE s # side
      BY <1>2, <2>1 DEF Shown
    <2>2. CASE s = side
      BY <1>2, <1>3, <1>6, <2>2 DEF Shown
    <2> QED
      BY <2>1, <2>2
  <1> QED
    BY <1>4, <1>5, <1>6 DEF after

\* removeLevel() takes at most so much from one price, erases the level when nothing is
\* left, and touches nothing else.
LEMMA LevelRemoved ==
    ASSUME NEW levels, LevelsTyped(levels), NEW side \in Side, NEW price \in FeedPrice,
           NEW qty \in Nat, qty <= Shown(levels, side, price)
    PROVE  LET after == RemoveLevel(levels, side, price, qty)
           IN  /\ LevelsTyped(after)
               /\ Shown(after, side, price) = Shown(levels, side, price) - qty
               /\ price \in DOMAIN after[side] => Shown(after, side, price) # 0
               /\ \A s \in Side, p \in FeedPrice : <<s, p>> # <<side, price>> =>
                     /\ Shown(after, s, p) = Shown(levels, s, p)
                     /\ p \in DOMAIN after[s] <=> p \in DOMAIN levels[s]
  <1> DEFINE after == RemoveLevel(levels, side, price, qty)
  <1>1. CASE price \notin DOMAIN levels[side]
    <2>1. after = levels /\ qty = 0
      BY <1>1 DEF RemoveLevel, Shown
    <2> QED
      BY <1>1, <2>1 DEF Shown
  <1>2. CASE price \in DOMAIN levels[side] /\ qty >= levels[side][price]
    <2> DEFINE row == [p \in DOMAIN levels[side] \ {price} |-> levels[side][p]]
    <2>1. after = [s \in Side |-> IF s = side THEN row ELSE levels[s]]
      BY <1>2 DEF RemoveLevel, EraseLevel, Restrict, LevelsTyped
    <2>2. after[side] = row /\ \A s \in Side : s # side => after[s] = levels[s]
      BY <2>1
    <2>3. /\ DOMAIN row = DOMAIN levels[side] \ {price}
          /\ row = [p \in DOMAIN row |-> row[p]]
          /\ \A p \in DOMAIN row : row[p] \in Nat /\ row[p] = levels[side][p]
      BY DEF LevelsTyped
    <2> HIDE DEF after, row
    <2>4. LevelsTyped(after)
      BY <2>1, <2>2, <2>3 DEF LevelsTyped
    <2>5. levels[side][price] \in Nat
      BY <1>2 DEF LevelsTyped
    <2>6. price \notin DOMAIN after[side] /\ Shown(after, side, price) = Shown(levels, side, price) - qty
      BY <1>2, <2>2, <2>3, <2>5 DEF Shown
    <2>7. ASSUME NEW s \in Side, NEW p \in FeedPrice, <<s, p>> # <<side, price>>
          PROVE  /\ Shown(after, s, p) = Shown(levels, s, p)
                 /\ p \in DOMAIN after[s] <=> p \in DOMAIN levels[s]
      <3>1. CASE s # side
        BY <2>2, <3>1 DEF Shown
      <3>2. CASE s = side
        BY <2>2, <2>3, <2>7, <3>2 DEF Shown
      <3> QED
        BY <3>1, <3>2
    <2> QED
      BY <2>4, <2>6, <2>7 DEF after
  <1>3. CASE price \in DOMAIN levels[side] /\ ~ (qty >= levels[side][price])
    <2> DEFINE row == [p \in DOMAIN levels[side] |->
                          IF p = price THEN levels[side][p] - qty ELSE levels[side][p]]
    <2>1. after = [s \in Side |-> IF s = side THEN row ELSE levels[s]]
      BY <1>3 DEF RemoveLevel, LevelsTyped
    <2>2. after[side] = row /\ \A s \in Side : s # side => after[s] = levels[s]
      BY <2>1
    <2>3. levels[side][price] \in Nat /\ levels[side][price] - qty \in Nat \ {0}
      BY <1>3 DEF LevelsTyped
    <2>4. /\ DOMAIN row = DOMAIN levels[side]
          /\ row = [p \in DOMAIN row |-> row[p]]
          /\ \A p \in DOMAIN row : row[p] \in Nat
          /\ row[price] = levels[side][price] - qty
          /\ \A p \in DOMAIN row : p # price => row[p] = levels[side][p]
      BY <1>3, <2>3 DEF LevelsTyped
    <2> HIDE DEF after, row
    <2>5. LevelsTyped(after)
      BY <2>1, <2>2, <2>4 DEF LevelsTyped
    <2>6. Shown(after, side, price) = Shown(levels, side, price) - qty /\ Shown(after, side, price) # 0
      BY <1>3, <2>2, <2>3, <2>4 DEF Shown
    <2>7. ASSUME NEW s \in Side, NEW p \in FeedPrice, <<s, p>> # <<side, price>>
          PROVE  /\ Shown(after, s, p) = Shown(levels, s, p)
                 /\ p \in DOMAIN after[s] <=> p \in DOMAIN levels[s]
      <3>1. CASE s # side
        BY <2>2, <3>1 DEF Shown
      <3>2. CASE s = side
        BY <2>2, <2>4, <2>7, <3>2 DEF Shown
      <3> QED
        BY <3>1, <3>2
    <2> QED
      BY <2>5, <2>6, <2>7 DEF after
  <1> QED
    BY <1>1, <1>2, <1>3

\* addOrder() of a reference that does not rest keeps the book right.
LEMMA AddKeeps ==
    ASSUME NEW b, BookRight(b), NEW ref \in Ref, ref \notin DOMAIN b.orders, NEW side \in Side,
           NEW shares \in Shares, NEW price \in FeedPrice
    PROVE  BookRight(AddOrder(b, ref, side, shares, price))
  <1> DEFINE new == [side |-> side, price |-> price, shares |-> shares]
             orders == [r \in DOMAIN b.orders \cup {ref} |-> IF r = ref THEN new ELSE b.orders[r]]
             levels == AddLevel(b.levels, side, price, shares)
             c == AddOrder(b, ref, side, shares, price)
  <1>1. c.orders = orders /\ c.levels = levels
    BY DEF AddOrder
  <1>2. /\ OrdersTyped(b.orders) /\ LevelsTyped(b.levels)
        /\ \A s \in Side, p \in FeedPrice : LevelRight(b, s, p)
    BY DEF BookRight
  <1>3. shares \in Nat
    BY DEF Shares
  <1>4. /\ DOMAIN orders = DOMAIN b.orders \cup {ref}
        /\ orders = [r \in DOMAIN orders |-> orders[r]]
        /\ orders[ref] = new
        /\ \A r \in DOMAIN b.orders : r # ref => orders[r] = b.orders[r]
        /\ new \in FeedOrder
        /\ new.side = side /\ new.price = price /\ new.shares = shares
    BY <1>3 DEF FeedOrder
  <1>5. /\ LevelsTyped(levels)
        /\ price \in DOMAIN levels[side]
        /\ Shown(levels, side, price) = Shown(b.levels, side, price) + shares
        /\ \A s \in Side, p \in FeedPrice : <<s, p>> # <<side, price>> =>
              /\ Shown(levels, s, p) = Shown(b.levels, s, p)
              /\ p \in DOMAIN levels[s] <=> p \in DOMAIN b.levels[s]
    BY <1>2, <1>3, LevelAdded
  <1> HIDE DEF new, orders, levels, c
  <1>6. OrdersTyped(orders)
    <2>1. Finite(DOMAIN b.orders \cup {ref})
      BY <1>2, OneMore, Zenon DEF OrdersTyped
    <2>2. DOMAIN orders \subseteq Ref /\ \A r \in DOMAIN orders : orders[r] \in FeedOrder
      BY <1>2, <1>4 DEF OrdersTyped
    <2> QED
      BY <1>4, <2>1, <2>2 DEF OrdersTyped
  <1>7. ASSUME NEW s \in Side, NEW p \in FeedPrice, <<s, p>> # <<side, price>>
        PROVE  LevelRight(c, s, p)
    <2>1. ref \notin RestingAt(b, s, p) /\ ref \notin RestingAt(c, s, p)
      BY <1>1, <1>4, <1>7 DEF RestingAt
    <2>2. RestingAt(c, s, p) = RestingAt(b, s, p) /\ SumAt(c, s, p) = SumAt(b, s, p)
      BY <1>1, <1>2, <1>4, <2>1, SumStays
    <2> QED
      BY <1>1, <1>2, <1>5, <1>7, <2>2 DEF LevelRight
  <1>8. LevelRight(c, side, price)
    <2>1. RestingAt(c, side, price) = RestingAt(b, side, price) \cup {ref}
      BY <1>1, <1>4 DEF RestingAt
    <2>2. RestingAt(c, side, price) \ {ref} = RestingAt(b, side, price)
      BY <2>1 DEF RestingAt
    <2>3. SumAt(c, side, price) = shares + SumOver(c.orders, RestingAt(b, side, price))
      <3>1. ref \in RestingAt(c, side, price)
        BY <2>1
      <3>2. OrdersTyped(c.orders)
        BY <1>1, <1>6
      <3>3. SplitsAt(c, side, price, ref)
        BY <3>1, <3>2, SumSplits
      <3>4. c.orders[ref].shares = shares
        BY <1>1, <1>4
      <3> QED
        BY <2>2, <3>3, <3>4, Zenon DEF SplitsAt
    <2>4. SumOver(b.orders, RestingAt(b, side, price)) = SumOver(c.orders, RestingAt(b, side, price))
      <3>1. \A r \in RestingAt(b, side, price) : b.orders[r].shares = c.orders[r].shares
        BY <1>1, <1>4 DEF RestingAt
      <3> QED
        BY <1>2, <3>1, RestingFacts, SameSum
    <2>5. SumAt(b, side, price) \in Nat /\ Shown(b.levels, side, price) = SumAt(b, side, price)
      BY <1>2, RestingFacts DEF LevelRight
    <2>6. Shown(c.levels, side, price) = SumAt(c, side, price)
      BY <1>1, <1>3, <1>5, <2>3, <2>4, <2>5 DEF SumAt
    <2> QED
      BY <2>1, <2>6 DEF LevelRight
  <1>9. \A s \in Side, p \in FeedPrice : LevelRight(c, s, p)
    BY <1>7, <1>8
  <1> QED
    BY <1>1, <1>5, <1>6, <1>9 DEF BookRight, c

\* reduceOrder() keeps the book right: the level loses what the order loses.
LEMMA ReduceKeeps ==
    ASSUME NEW b, BookRight(b), NEW ref, NEW shares \in Nat
    PROVE  BookRight(ReduceOrder(b, ref, shares))
  <1>1. CASE ref \notin DOMAIN b.orders
    BY <1>1 DEF ReduceOrder
  <1>2. CASE ref \in DOMAIN b.orders
    <2> DEFINE o == b.orders[ref]
               qty == MinOf(shares, o.shares)
               c == ReduceOrder(b, ref, shares)
               levels == RemoveLevel(b.levels, o.side, o.price, qty)
    <2>1. /\ OrdersTyped(b.orders) /\ LevelsTyped(b.levels)
          /\ \A s \in Side, p \in FeedPrice : LevelRight(b, s, p)
      BY DEF BookRight
    <2>17. o \in FeedOrder
      BY <1>2, <2>1, Zenon DEF OrdersTyped
    <2>2. o.side \in Side /\ o.price \in FeedPrice /\ o.shares \in Nat
      BY <2>17 DEF FeedOrder
    <2>3. qty \in Nat /\ qty <= o.shares
      BY <2>2 DEF MinOf
    <2>4. ref \in RestingAt(b, o.side, o.price)
      BY <1>2 DEF RestingAt
    <2> DEFINE rest == SumOver(b.orders, RestingAt(b, o.side, o.price) \ {ref})
    <2>5. SumAt(b, o.side, o.price) = o.shares + rest /\ rest \in Nat
      <3>1. SplitsAt(b, o.side, o.price, ref)
        BY <2>1, <2>4, SumSplits
      <3> QED
        BY <3>1 DEF SplitsAt
    <2>6. Shown(b.levels, o.side, o.price) = o.shares + rest
      BY <2>1, <2>2, <2>5 DEF LevelRight
    <2>7. c.levels = levels
      BY <1>2 DEF ReduceOrder
    <2>8. IF qty >= o.shares
          THEN c.orders = [r \in DOMAIN b.orders \ {ref} |-> b.orders[r]]
          ELSE c.orders = [b.orders EXCEPT ![ref].shares = o.shares - qty]
      BY <1>2 DEF ReduceOrder, Restrict
    <2>9. c.orders \in [DOMAIN c.orders -> FeedOrder] /\ DOMAIN c.orders \cup {ref} = DOMAIN b.orders
      <3>1. CASE qty >= o.shares
        BY <1>2, <2>1, <2>8, <3>1 DEF OrdersTyped
      <3>2. CASE ~ (qty >= o.shares)
        <4>1. [o EXCEPT !.shares = o.shares - qty] \in FeedOrder
          BY <2>2, <2>3, <2>17 DEF FeedOrder
        <4>2. c.orders = [r \in DOMAIN b.orders |->
                             IF r = ref THEN [o EXCEPT !.shares = o.shares - qty] ELSE b.orders[r]]
          BY <1>2, <2>1, <2>8, <3>2 DEF OrdersTyped
        <4> HIDE DEF o, qty, c
        <4> QED
          BY <1>2, <2>1, <4>1, <4>2 DEF OrdersTyped
      <3> QED
        BY <3>1, <3>2
    <2>10. /\ \A r \in DOMAIN b.orders : r # ref => c.orders[r] = b.orders[r]
           /\ ref \in DOMAIN c.orders <=> ~ (qty >= o.shares)
           /\ ref \in DOMAIN c.orders =>
                /\ c.orders[ref].side = o.side /\ c.orders[ref].price = o.price
                /\ c.orders[ref].shares = o.shares - qty
      <3>1. CASE qty >= o.shares
        BY <1>2, <2>8, <3>1
      <3>2. CASE ~ (qty >= o.shares)
        BY <1>2, <2>1, <2>17, <2>8, <3>2 DEF OrdersTyped, FeedOrder
      <3> QED
        BY <3>1, <3>2
    <2>11. /\ LevelsTyped(levels)
           /\ Shown(levels, o.side, o.price) = o.shares + rest - qty
           /\ o.price \in DOMAIN levels[o.side] => Shown(levels, o.side, o.price) # 0
           /\ \A s \in Side, p \in FeedPrice : <<s, p>> # <<o.side, o.price>> =>
                 /\ Shown(levels, s, p) = Shown(b.levels, s, p)
                 /\ p \in DOMAIN levels[s] <=> p \in DOMAIN b.levels[s]
      <3> HIDE DEF o, qty, rest
      <3>1. qty <= Shown(b.levels, o.side, o.price)
        BY <2>2, <2>3, <2>5, <2>6
      <3>2. /\ LevelsTyped(levels)
            /\ Shown(levels, o.side, o.price) = Shown(b.levels, o.side, o.price) - qty
            /\ o.price \in DOMAIN levels[o.side] => Shown(levels, o.side, o.price) # 0
            /\ \A s \in Side, p \in FeedPrice : <<s, p>> # <<o.side, o.price>> =>
                  /\ Shown(levels, s, p) = Shown(b.levels, s, p)
                  /\ p \in DOMAIN levels[s] <=> p \in DOMAIN b.levels[s]
        BY <2>1, <2>2, <2>3, <3>1, LevelRemoved
      <3> HIDE DEF levels
      <3>3. Shown(levels, o.side, o.price) = o.shares + rest - qty
        BY <2>2, <2>3, <2>5, <2>6, <3>2
      <3> QED
        BY <3>2, <3>3, Zenon
    <2> HIDE DEF o, qty, c, levels
    <2>12. OrdersTyped(c.orders)
      <3>1. DOMAIN c.orders \in SUBSET DOMAIN b.orders
        BY <2>9
      <3>2. Finite(DOMAIN c.orders)
        BY <2>1, <3>1, FiniteSubset DEF OrdersTyped
      <3> QED
        BY <2>1, <2>9, <3>1, <3>2 DEF OrdersTyped
    <2>13. ASSUME NEW s \in Side, NEW p \in FeedPrice, <<s, p>> # <<o.side, o.price>>
           PROVE  LevelRight(c, s, p)
      <3>1. ref \notin RestingAt(b, s, p) /\ ref \notin RestingAt(c, s, p)
        BY <2>10, <2>13 DEF RestingAt, o
      <3>2. DOMAIN c.orders \cup {ref} = DOMAIN b.orders \cup {ref}
        BY <2>9, Zenon
      <3>3. RestingAt(c, s, p) = RestingAt(b, s, p) /\ SumAt(c, s, p) = SumAt(b, s, p)
        BY <2>1, <2>10, <3>1, <3>2, SumStays
      <3> QED
        BY <2>1, <2>7, <2>11, <2>13, <3>3 DEF LevelRight
    <2>14. SumAt(c, o.side, o.price) = o.shares + rest - qty
      <3>1. RestingAt(c, o.side, o.price) \ {ref} = RestingAt(b, o.side, o.price) \ {ref}
        BY <2>9, <2>10 DEF RestingAt
      <3>2. SumOver(c.orders, RestingAt(c, o.side, o.price) \ {ref}) = rest
        <4>1. \A r \in RestingAt(b, o.side, o.price) \ {ref} : b.orders[r].shares = c.orders[r].shares
          BY <2>10 DEF RestingAt
        <4>2. Finite(RestingAt(b, o.side, o.price))
          BY <2>1, RestingFacts
        <4>3. RestingAt(b, o.side, o.price) \ {ref} \in SUBSET RestingAt(b, o.side, o.price)
          OBVIOUS
        <4>4. Finite(RestingAt(b, o.side, o.price) \ {ref})
          BY <4>2, <4>3, FiniteSubset
        <4> QED
          BY <3>1, <4>1, <4>4, SameSum
      <3> HIDE DEF rest
      <3>3. CASE qty >= o.shares
        <4>1. RestingAt(c, o.side, o.price) \ {ref} = RestingAt(c, o.side, o.price)
          BY <2>10, <3>3 DEF RestingAt
        <4> QED
          <5>1. SumAt(c, o.side, o.price) = rest
            BY <3>2, <4>1 DEF SumAt
          <5> QED
            BY <2>2, <2>3, <2>5, <3>3, <5>1
      <3>4. CASE ~ (qty >= o.shares)
        <4>1. ref \in RestingAt(c, o.side, o.price)
          BY <2>10, <3>4 DEF RestingAt
        <4>2. SumAt(c, o.side, o.price) = o.shares - qty + rest
          <5>1. SplitsAt(c, o.side, o.price, ref)
            BY <2>12, <4>1, SumSplits
          <5>2. c.orders[ref].shares = o.shares - qty
            BY <2>10, <3>4
          <5> QED
            BY <3>2, <5>1, <5>2 DEF SplitsAt
        <4> QED
          BY <2>2, <2>3, <2>5, <4>2
      <3> QED
        BY <3>3, <3>4
    <2>15. LevelRight(c, o.side, o.price)
      <3>1. RestingAt(c, o.side, o.price) = {} => SumAt(c, o.side, o.price) = 0
        BY EmptySum DEF SumAt
      <3> HIDE DEF rest
      <3> QED
        BY <2>7, <2>11, <2>14, <3>1 DEF LevelRight
    <2>16. \A s \in Side, p \in FeedPrice : LevelRight(c, s, p)
      BY <2>13, <2>15
    <2> QED
      BY <2>7, <2>11, <2>12, <2>16 DEF BookRight, c
  <1> QED
    BY <1>1, <1>2

\* deleteOrder() is a reduction by all the order has left.
LEMMA DeleteKeeps ==
    ASSUME NEW b, BookRight(b), NEW ref
    PROVE  BookRight(DeleteOrder(b, ref)) /\ ref \notin DOMAIN DeleteOrder(b, ref).orders
  <1>1. CASE ref \notin DOMAIN b.orders
    BY <1>1 DEF DeleteOrder
  <1>2. CASE ref \in DOMAIN b.orders
    <2> DEFINE o == b.orders[ref]
    <2>1. o.shares \in Nat
      BY <1>2 DEF BookRight, OrdersTyped, FeedOrder
    <2>2. MinOf(o.shares, o.shares) = o.shares /\ o.shares >= o.shares
      BY <2>1 DEF MinOf
    <2>3. DeleteOrder(b, ref) = ReduceOrder(b, ref, o.shares)
      BY <1>2, <2>2 DEF DeleteOrder, ReduceOrder
    <2>4. ref \notin DOMAIN DeleteOrder(b, ref).orders
      BY <1>2 DEF DeleteOrder, Restrict
    <2> QED
      BY <2>1, <2>3, <2>4, ReduceKeeps
  <1> QED
    BY <1>1, <1>2

-----------------------------------------------------------------------------
(***************************************************************************)
(* The books of all stocks.                                                *)
(***************************************************************************)
BooksRight ==
    /\ books = [locate \in DOMAIN books |-> books[locate]]
    /\ \A locate \in DOMAIN books : BookRight(books[locate])

\* The book of a stock that was just registered is right.
LEMMA EmptyRight == BookRight(EmptyBook)
  <1>1. OrdersTyped(EmptyBook.orders)
    BY FiniteEmpty DEF OrdersTyped, EmptyBook
  <1>2. LevelsTyped(EmptyBook.levels)
    <2>1. EmptyBook.levels = [side \in Side |-> NoLevels]
      BY DEF EmptyBook
    <2>2. DOMAIN NoLevels = {} /\ NoLevels = [p \in DOMAIN NoLevels |-> NoLevels[p]]
      BY DEF NoLevels
    <2> QED
      BY <2>1, <2>2 DEF LevelsTyped
  <1>3. ASSUME NEW side \in Side, NEW p \in FeedPrice
        PROVE  LevelRight(EmptyBook, side, p)
    <2>1. RestingAt(EmptyBook, side, p) = {}
      BY DEF RestingAt, EmptyBook
    <2>2. SumAt(EmptyBook, side, p) = 0
      BY <2>1, EmptySum DEF SumAt
    <2>3. p \notin DOMAIN EmptyBook.levels[side]
      BY DEF EmptyBook, NoLevels
    <2> QED
      BY <2>2, <2>3 DEF LevelRight, Shown
  <1> QED
    BY <1>1, <1>2, <1>3 DEF BookRight

\* A handler that leaves the book of its stock right leaves all of them right.
LEMMA ChangeKeeps ==
    ASSUME BooksRight, NEW locate, NEW b, locate \in DOMAIN books => BookRight(b), Change(locate, b)
    PROVE  BooksRight'
  BY DEF Change, BooksRight

\* Every message keeps the books right.
LEMMA MessageKeeps ==
    ASSUME BooksRight, FeedNext
    PROVE  BooksRight'
  <1>1. CASE EndOfMessages
    BY <1>1 DEF EndOfMessages, BooksRight
  <1>2. ASSUME NEW locate \in Locate, StockDirectory(locate)
        PROVE  BooksRight'
    BY <1>2, EmptyRight DEF StockDirectory, BooksRight
  <1>3. ASSUME NEW locate \in Locate, NEW ref \in Ref, DeleteMessage(locate, ref)
        PROVE  BooksRight'
    <2>1. locate \in DOMAIN books => BookRight(DeleteOrder(books[locate], ref))
      BY DeleteKeeps DEF BooksRight
    <2> QED
      BY <1>3, <2>1, ChangeKeeps DEF DeleteMessage
  <1>4. ASSUME NEW locate \in Locate, NEW ref \in Ref, NEW shares \in Shares,
               ReduceMessage(locate, ref, shares)
        PROVE  BooksRight'
    <2>1. shares \in Nat
      BY DEF Shares
    <2>2. locate \in DOMAIN books => BookRight(ReduceOrder(books[locate], ref, shares))
      BY <2>1, ReduceKeeps DEF BooksRight
    <2> QED
      BY <1>4, <2>2, ChangeKeeps DEF ReduceMessage
  <1>5. ASSUME NEW locate \in Locate, NEW ref \in Ref, NEW side \in Side, NEW shares \in Shares,
               NEW price \in FeedPrice, AddOrderMessage(locate, ref, side, shares, price)
        PROVE  BooksRight'
    <2>1. locate \in DOMAIN books => BookRight(AddOrder(books[locate], ref, side, shares, price))
      BY <1>5, AddKeeps DEF BooksRight, AddOrderMessage, Unused
    <2> QED
      BY <1>5, <2>1, ChangeKeeps DEF AddOrderMessage
  <1>6. ASSUME NEW locate \in Locate, NEW old \in Ref, NEW new \in Ref, NEW shares \in Shares,
               NEW price \in FeedPrice, ReplaceMessage(locate, old, new, shares, price)
        PROVE  BooksRight'
    <2> DEFINE b == books[locate]
               d == DeleteOrder(b, old)
               c == IF old \notin DOMAIN b.orders THEN b
                    ELSE AddOrder(d, new, b.orders[old].side, shares, price)
    <2>1. ASSUME locate \in DOMAIN books, old \in DOMAIN b.orders
          PROVE  BookRight(AddOrder(d, new, b.orders[old].side, shares, price))
      <3>1. BookRight(b)
        BY <2>1 DEF BooksRight
      <3>2. b.orders[old].side \in Side
        BY <2>1, <3>1 DEF BookRight, OrdersTyped, FeedOrder
      <3>3. BookRight(d) /\ old \notin DOMAIN d.orders
        BY <3>1, DeleteKeeps
      <3>4. new \notin DOMAIN d.orders
        <4>1. DOMAIN d.orders \subseteq DOMAIN b.orders
          BY DEF DeleteOrder, Restrict
        <4> QED
          BY <1>6, <2>1, <3>3, <4>1 DEF ReplaceMessage, Unused
      <3> HIDE DEF d
      <3> QED
        BY <3>2, <3>3, <3>4, AddKeeps
    <2>2. locate \in DOMAIN books => BookRight(c)
      BY <2>1 DEF BooksRight
    <2>3. Change(locate, c)
      BY <1>6 DEF ReplaceMessage
    <2> HIDE DEF c
    <2> QED
      BY <2>2, <2>3, ChangeKeeps
  <1> QED
    BY <1>1, <1>2, <1>3, <1>4, <1>5, <1>6 DEF FeedNext

\* What a snapshot shows is what the orders have: books that are right have levels that
\* sum their orders.
LEMMA RightIsSummed ==
    ASSUME BooksRight
    PROVE  LevelsSumOrders
  <1> SUFFICES ASSUME NEW locate \in DOMAIN books, NEW side \in Side, NEW p \in FeedPrice
               PROVE  LET b == books[locate]
                      IN  IF p \in DOMAIN b.levels[side]
                          THEN RestingAt(b, side, p) # {} /\ b.levels[side][p] = TotalAt(b, side, p)
                          ELSE TotalAt(b, side, p) = 0
    BY DEF LevelsSumOrders
  <1>1. LevelRight(books[locate], side, p)
    BY DEF BooksRight, BookRight
  <1>2. TotalAt(books[locate], side, p) = SumAt(books[locate], side, p)
    BY TotalIsSum DEF SumAt
  <1> QED
    BY <1>1, <1>2 DEF LevelRight, Shown

\* The feed's book never drifts from its orders: whatever messages come, for any stocks,
\* references, prices and numbers of shares, the quantity that ItchBookBuilder keeps for
\* a price by adding and removing differences is the sum of what its orders have left
\* (addLevel(), removeLevel()).
THEOREM FeedLevelsSumOrders == FeedSpec => []LevelsSumOrders
  <1>1. FeedInit => BooksRight
    BY DEF FeedInit, BooksRight
  <1>2. BooksRight /\ [FeedNext]_books => BooksRight'
    <2>1. BooksRight /\ UNCHANGED books => BooksRight'
      BY DEF BooksRight
    <2> QED
      BY <2>1, MessageKeeps
  <1>3. BooksRight => LevelsSumOrders
    BY RightIsSummed
  <1> QED
    BY <1>1, <1>2, <1>3, PTL DEF FeedSpec

-----------------------------------------------------------------------------
(***************************************************************************)
(* The parser.                                                             *)
(***************************************************************************)

\* Two sequences one after the other.
LEMMA Concatenated ==
    ASSUME NEW S, NEW s \in Seq(S), NEW t \in Seq(S)
    PROVE  /\ s \o t \in Seq(S) /\ Len(s \o t) = Len(s) + Len(t)
           /\ \A k \in 1..Len(s) : (s \o t)[k] = s[k]
  OBVIOUS

\* What lies behind the first of two sequences is the second.
LEMMA ConcatRight ==
    ASSUME NEW S, NEW s \in Seq(S), NEW t \in Seq(S), NEW n \in (Len(s) + 1)..(Len(s) + Len(t))
    PROVE  (s \o t)[n] = t[n - Len(s)]
  OBVIOUS

\* A part of a sequence.
LEMMA PartOf ==
    ASSUME NEW S, NEW s \in Seq(S), NEW f \in Nat, NEW n \in Nat, f + n <= Len(s)
    PROVE  /\ SubSeq(s, f + 1, f + n) \in Seq(S) /\ Len(SubSeq(s, f + 1, f + n)) = n
           /\ \A k \in 1..n : SubSeq(s, f + 1, f + n)[k] = s[f + k]
  <1>1. \A k \in (f + 1)..(f + n) : s[k] \in S
    OBVIOUS
  <1>2. Len(SubSeq(s, f + 1, f + n)) = n
    OBVIOUS
  <1>3. SubSeq(s, f + 1, f + n) \in Seq(S)
    BY <1>1
  <1>4. ASSUME NEW k \in 1..n
        PROVE  SubSeq(s, f + 1, f + n)[k] = s[f + k]
    OBVIOUS
  <1> QED
    BY <1>2, <1>3, <1>4, Zenon

\* Sequences with the same elements are the same.
LEMMA SameSeq ==
    ASSUME NEW S, NEW s \in Seq(S), NEW t \in Seq(S), Len(s) = Len(t),
           \A k \in 1..Len(s) : s[k] = t[k]
    PROVE  s = t
  OBVIOUS

\* A sequence with one element more.
LEMMA Appended ==
    ASSUME NEW S, NEW s \in Seq(S), NEW x \in S
    PROVE  /\ Append(s, x) \in Seq(S) /\ Len(Append(s, x)) = Len(s) + 1 /\ Len(s) \in Nat
           /\ Append(s, x)[Len(s) + 1] = x
           /\ \A k \in 1..Len(s) : Append(s, x)[k] = s[k]
  OBVIOUS

\* Two bytes make a length.
LEMMA LengthIsNat ==
    ASSUME NEW s \in Seq(Byte), NEW i \in Nat, i + 2 <= Len(s)
    PROVE  LengthAt(s, i) \in Nat
  <1>1. s[i + 1] \in Nat /\ s[i + 2] \in Nat
    BY ParserAssumption DEF Byte
  <1>2. \A x, y \in Nat : x * y \in Nat
    OBVIOUS
  <1> HIDE DEF Byte
  <1>3. s[i + 1] * Radix \in Nat
    BY <1>1, <1>2, ParserAssumption
  <1> QED
    BY <1>1, <1>3 DEF LengthAt

\* A frame that is complete takes its length and what the length announces.
LEMMA FrameFits ==
    ASSUME NEW s \in Seq(Byte), NEW i \in Nat, Complete(s, i)
    PROVE  /\ LengthAt(s, i) \in Nat
           /\ SizeAt(s, i) \in Nat
           /\ i + SizeAt(s, i) <= Len(s)
           /\ BodyAt(s, i) \in Seq(Byte)
  <1>1. i + 2 <= Len(s)
    BY DEF Complete
  <1>2. LengthAt(s, i) \in Nat
    BY <1>1, LengthIsNat
  <1> DEFINE n == LengthAt(s, i)
  <1>3. ~Corrupt(s, i) => i + 2 + n <= Len(s)
    BY <1>2 DEF Complete
  <1> HIDE DEF n
  <1>4. SizeAt(s, i) \in Nat /\ i + SizeAt(s, i) <= Len(s)
    BY <1>1, <1>2, <1>3 DEF SizeAt, n
  <1>5. BodyAt(s, i) \in Seq(Byte)
    <2>1. CASE Corrupt(s, i)
      BY <2>1 DEF BodyAt
    <2>2. CASE ~Corrupt(s, i)
      <3>1. \A k \in (i + 3)..(i + 2 + n) : s[k] \in Byte
        BY <2>2, <1>2, <1>3 DEF n
      <3>2. BodyAt(s, i) = SubSeq(s, i + 3, i + 2 + n)
        BY <2>2, Zenon DEF BodyAt, n
      <3> QED
        BY <3>1, <3>2, <1>2, <1>3, <2>2 DEF n
    <2> QED
      BY <2>1, <2>2
  <1> QED
    BY <1>2, <1>4, <1>5

\* The bytes of s after the first i are also in r, after the first j.
SameBytes(s, i, r, j) ==
    /\ Len(s) - i <= Len(r) - j
    /\ \A k \in 1..(Len(s) - i) : s[i + k] = r[j + k]

\* A frame depends on nothing but the bytes from its beginning on, and more bytes
\* behind it do not change it.
LEMMA SameFrame ==
    ASSUME NEW s \in Seq(Byte), NEW i \in Nat, Complete(s, i),
           NEW r \in Seq(Byte), NEW j \in Nat, SameBytes(s, i, r, j)
    PROVE  /\ Complete(r, j)
           /\ SizeAt(r, j) = SizeAt(s, i)
           /\ BodyAt(r, j) = BodyAt(s, i)
  <1>0. Len(s) \in Nat /\ Len(r) \in Nat /\ Len(s) - i <= Len(r) - j
    BY DEF SameBytes
  <1>1. i + 2 <= Len(s) /\ j + 2 <= Len(r)
    BY <1>0 DEF Complete
  <1>2. s[i + 1] = r[j + 1] /\ s[i + 2] = r[j + 2]
    BY <1>0, <1>1 DEF SameBytes
  <1>3. LengthAt(r, j) = LengthAt(s, i)
    BY <1>2 DEF LengthAt
  <1>4. LengthAt(s, i) \in Nat
    BY <1>1, LengthIsNat
  <1>5. Corrupt(r, j) <=> Corrupt(s, i)
    BY <1>3 DEF Corrupt
  <1>6. SizeAt(r, j) = SizeAt(s, i)
    BY <1>3, <1>5 DEF SizeAt
  <1> DEFINE n == LengthAt(s, i)
  <1>7. ~Corrupt(s, i) => i + 2 + n <= Len(s)
    BY <1>4 DEF Complete
  <1> HIDE DEF n
  <1>8. Complete(r, j)
    <2>1. CASE Corrupt(s, i)
      BY <2>1, <1>1, <1>5 DEF Complete
    <2>2. CASE ~Corrupt(s, i)
      <3>1. Len(r) - j >= 2 + LengthAt(r, j)
        BY <2>2, <1>0, <1>3, <1>4, <1>7 DEF n
      <3> QED
        BY <3>1, <1>1 DEF Complete
    <2> QED
      BY <2>1, <2>2
  <1>9. BodyAt(r, j) = BodyAt(s, i)
    <2>1. CASE Corrupt(s, i)
      BY <2>1, <1>5 DEF BodyAt
    <2>2. CASE ~Corrupt(s, i)
      <3> DEFINE a == SubSeq(s, i + 2 + 1, i + 2 + n)
                 b == SubSeq(r, j + 2 + 1, j + 2 + n)
      <3>1. n \in Nat /\ i + 2 + n <= Len(s) /\ j + 2 + n <= Len(r)
        BY <2>2, <1>0, <1>4, <1>7 DEF n
      <3>6. i + 3 = i + 2 + 1 /\ j + 3 = j + 2 + 1 /\ i + 2 \in Nat /\ j + 2 \in Nat
        OBVIOUS
      <3>2. a \in Seq(Byte) /\ Len(a) = n /\ \A k \in 1..n : a[k] = s[i + 2 + k]
        BY <3>1, <3>6, PartOf
      <3>3. b \in Seq(Byte) /\ Len(b) = n /\ \A k \in 1..n : b[k] = r[j + 2 + k]
        <4>1. r \in Seq(Byte) /\ j + 2 \in Nat /\ n \in Nat /\ j + 2 + n <= Len(r)
          BY <3>1, <3>6
        <4> QED
          BY ONLY <4>1, PartOf
      <3>4. \A k \in 1..n : s[i + 2 + k] = r[j + 2 + k]
        <4> TAKE k \in 1..n
        <4>1. 2 + k \in 1..(Len(s) - i)
          BY <3>1
        <4>2. s[i + (2 + k)] = r[j + (2 + k)]
          BY <4>1, Zenon DEF SameBytes
        <4>3. i + (2 + k) = i + 2 + k /\ j + (2 + k) = j + 2 + k
          BY <3>1
        <4> QED
          BY <4>2, <4>3
      <3> HIDE DEF a, b
      <3>5. a = b
        <4>1. Len(a) = Len(b) /\ \A k \in 1..Len(a) : a[k] = b[k]
          BY <3>2, <3>3, <3>4, Zenon
        <4> QED
          BY <4>1, <3>2, <3>3, SameSeq, Zenon
      <3> QED
        BY <3>5, <3>6, <2>2, <1>3, <1>5, Zenon DEF BodyAt, a, b, n
    <2> QED
      BY <2>1, <2>2
  <1> QED
    BY <1>6, <1>8, <1>9

-----------------------------------------------------------------------------
\* The frames found in a stream, when all that can be said of the parser is the
\* place it has reached.
FramesOf(s, reached) ==
    /\ \A k \in 1..Len(frames) :
          /\ frames[k].at = IF k = 1 THEN 0 ELSE frames[k - 1].at + frames[k - 1].size
          /\ Complete(s, frames[k].at)
          /\ frames[k].size = SizeAt(s, frames[k].at)
          /\ frames[k].body = BodyAt(s, frames[k].at)
    /\ reached = IF frames = <<>> THEN 0 ELSE frames[Len(frames)].at + frames[Len(frames)].size

FrameType == [at : Nat, size : Nat, body : Seq(Byte)]

\* The buffer shows the frame of the stream at the place the parser has reached.
LEMMA BufferShowsStream ==
    ASSUME BufferIsTail
    PROVE  /\ Reached \in Nat
           /\ Complete(buffer, offset) <=> Complete(stream, Reached)
           /\ Complete(buffer, offset) =>
                 /\ SizeAt(buffer, offset) = SizeAt(stream, Reached)
                 /\ BodyAt(buffer, offset) = BodyAt(stream, Reached)
  <1>1. /\ buffer \in Seq(Byte) /\ stream \in Seq(Byte) /\ offset \in Nat
        /\ Erased \in Nat /\ Reached \in Nat /\ Reached = Erased + offset
        /\ Len(buffer) - offset = Len(stream) - Reached
    BY DEF BufferIsTail, Erased, Reached
  <1>2. SameBytes(buffer, offset, stream, Reached) /\ SameBytes(stream, Reached, buffer, offset)
    <2>1. ASSUME NEW k \in 1..(Len(buffer) - offset)
          PROVE  buffer[offset + k] = stream[Reached + k]
      <3>1. offset + k \in 1..Len(buffer) /\ Erased + (offset + k) = Reached + k
        BY <1>1
      <3>2. buffer[offset + k] = stream[Erased + (offset + k)]
        BY <3>1 DEF BufferIsTail
      <3> QED
        BY <3>1, <3>2
    <2>2. /\ Len(buffer) - offset <= Len(stream) - Reached
          /\ Len(stream) - Reached <= Len(buffer) - offset
      BY <1>1
    <2>3. SameBytes(buffer, offset, stream, Reached)
      BY <2>1, <2>2 DEF SameBytes
    <2>4. ASSUME NEW k \in 1..(Len(stream) - Reached)
          PROVE  stream[Reached + k] = buffer[offset + k]
      <3>1. k \in 1..(Len(buffer) - offset)
        BY <1>1
      <3> QED
        BY <3>1, <2>1
    <2>5. SameBytes(stream, Reached, buffer, offset)
      BY <2>4, <2>2 DEF SameBytes
    <2> QED
      BY <2>3, <2>5
  <1>3. ASSUME Complete(buffer, offset)
        PROVE  /\ Complete(stream, Reached)
               /\ SizeAt(stream, Reached) = SizeAt(buffer, offset)
               /\ BodyAt(stream, Reached) = BodyAt(buffer, offset)
    BY <1>1, <1>2, <1>3, SameFrame
  <1>4. ASSUME Complete(stream, Reached)
        PROVE  Complete(buffer, offset)
    BY <1>1, <1>2, <1>4, SameFrame
  <1> QED
    BY <1>1, <1>3, <1>4

\* The conjunct of the invariant about frames, in these terms.
LEMMA FollowsIsFramesOf ==
    FramesFollowStream <=> /\ FramesOf(stream, Reached)
                           /\ fpc = "idle" => ~Complete(stream, Reached)
  BY DEF FramesFollowStream, FramesOf

\* Bytes that arrive later change none of the frames.
LEMMA FramesStay ==
    ASSUME stream \in Seq(Byte), frames \in Seq(FrameType), NEW reached, FramesOf(stream, reached),
           NEW chunk \in Seq(Byte)
    PROVE  FramesOf(stream \o chunk, reached)
  <1> DEFINE longer == stream \o chunk
  <1>1. /\ longer \in Seq(Byte) /\ Len(longer) = Len(stream) + Len(chunk)
        /\ \A k \in 1..Len(stream) : longer[k] = stream[k]
    OBVIOUS
  <1> HIDE DEF longer
  <1>2. ASSUME NEW k \in 1..Len(frames)
        PROVE  /\ Complete(longer, frames[k].at)
               /\ frames[k].size = SizeAt(longer, frames[k].at)
               /\ frames[k].body = BodyAt(longer, frames[k].at)
    <2> DEFINE i == frames[k].at
    <2>1. i \in Nat
      <3>1. frames[k] \in FrameType
        OBVIOUS
      <3> QED
        BY <3>1 DEF FrameType
    <2>2. /\ Complete(stream, i)
          /\ frames[k].size = SizeAt(stream, i)
          /\ frames[k].body = BodyAt(stream, i)
      BY DEF FramesOf
    <2> HIDE DEF i
    <2>3. SameBytes(stream, i, longer, i)
      <3>1. ASSUME NEW n \in 1..(Len(stream) - i)
            PROVE  stream[i + n] = longer[i + n]
        <4>1. i + n \in 1..Len(stream)
          BY <2>1
        <4> QED
          BY <4>1, <1>1
      <3>2. Len(stream) - i <= Len(longer) - i
        BY <1>1, <2>1
      <3> QED
        BY <3>1, <3>2, Zenon DEF SameBytes
    <2>4. /\ Complete(longer, i) /\ SizeAt(longer, i) = SizeAt(stream, i)
          /\ BodyAt(longer, i) = BodyAt(stream, i)
      BY <1>1, <2>1, <2>2, <2>3, SameFrame, Zenon
    <2> QED
      BY <2>2, <2>4, Zenon DEF i
  <1> QED
    BY <1>2 DEF FramesOf, longer

\* feed() of a chunk keeps the invariant up to its loop.
LEMMA FeedKeeps ==
    ASSUME ParserInv, NEW chunk \in Seq(Byte), Feed(chunk)
    PROVE  ParserInv'
  <1>1. /\ BufferIsTail /\ frames \in Seq(FrameType) /\ FramesCounted
        /\ buffer \in Seq(Byte) /\ stream \in Seq(Byte) /\ Len(buffer) <= Len(stream)
        /\ FramesOf(stream, Reached) /\ offset = 0
    BY FollowsIsFramesOf DEF ParserInv, BufferIsTail, FrameType, Feed
  <1>2. /\ buffer' = buffer \o chunk /\ stream' = stream \o chunk /\ offset' = 0
        /\ fpc' = "scan" /\ frames' = frames
        /\ messagesDecoded' = messagesDecoded /\ messagesSkipped' = messagesSkipped
    BY DEF Feed
  <1>3. /\ buffer' \in Seq(Byte) /\ Len(buffer') = Len(buffer) + Len(chunk)
        /\ stream' \in Seq(Byte) /\ Len(stream') = Len(stream) + Len(chunk)
    BY <1>1, <1>2
  <1>4. Erased' = Erased /\ Reached' = Reached /\ Erased \in Nat
    BY <1>1, <1>2, <1>3 DEF Erased, Reached
  <1>5. ASSUME NEW i \in 1..Len(buffer')
        PROVE  buffer'[i] = stream'[Erased' + i]
    <2>1. CASE i <= Len(buffer)
      <3>1. i \in 1..Len(buffer) /\ Erased + i \in 1..Len(stream)
        BY <2>1, <1>1, <1>3 DEF Erased
      <3>2. buffer[i] = stream[Erased + i]
        BY <3>1, <1>1 DEF BufferIsTail
      <3>3. buffer'[i] = buffer[i] /\ stream'[Erased + i] = stream[Erased + i]
        BY <3>1, <1>1, <1>2, Concatenated, Zenon
      <3> QED
        BY <3>2, <3>3, <1>4
    <2>2. CASE i > Len(buffer)
      <3>1. /\ i - Len(buffer) \in 1..Len(chunk)
            /\ (Erased + i) - Len(stream) = i - Len(buffer)
            /\ Erased + i \in (Len(stream) + 1)..(Len(stream) + Len(chunk))
        BY <2>2, <1>1, <1>3 DEF Erased
      <3>2. buffer'[i] = chunk[i - Len(buffer)]
        BY <3>1, <1>1, <1>2, <1>3, <2>2
      <3>3. stream'[Erased + i] = chunk[(Erased + i) - Len(stream)]
        <4> DEFINE n == Erased + i
                   both == stream \o chunk
        <4>1. n \in (Len(stream) + 1)..(Len(stream) + Len(chunk))
          BY <3>1
        <4> HIDE DEF n
        <4>2. both[n] = chunk[n - Len(stream)]
          BY <4>1, <1>1, ConcatRight, Zenon
        <4>3. stream' = both
          BY <1>2
        <4> HIDE DEF both
        <4> QED
          BY <4>2, <4>3 DEF n
      <3> QED
        BY <3>1, <3>2, <3>3, <1>4
    <2> QED
      BY <2>1, <2>2, <1>3
  <1>6. BufferIsTail'
    <2>1. Len(buffer') <= Len(stream') /\ offset' \in 0..Len(buffer')
      BY <1>1, <1>2, <1>3
    <2> QED
      BY <1>2, <1>3, <1>5, <2>1, Zenon DEF BufferIsTail
  <1>7. FramesOf(stream, Reached)'
    <2>1. FramesOf(stream \o chunk, Reached)
      BY <1>1, FramesStay
    <2> QED
      BY <2>1, <1>2, <1>4, Zenon DEF FramesOf
  <1>8. FramesFollowStream'
    BY <1>7, <1>2 DEF FramesFollowStream, FramesOf
  <1>9. FramesCounted' /\ frames' \in Seq(FrameType)
    BY <1>1, <1>2 DEF FramesCounted
  <1> QED
    BY <1>6, <1>8, <1>9 DEF ParserInv, FrameType

\* An iteration of the loop keeps the invariant: the frame it appends is the one the
\* stream has at the place reached.
LEMMA ScanKeeps ==
    ASSUME ParserInv, Scan
    PROVE  ParserInv'
  <1> DEFINE size == SizeAt(buffer, offset)
             body == BodyAt(buffer, offset)
             frame == [at |-> Reached, size |-> size, body |-> body]
  <1>1. /\ BufferIsTail /\ frames \in Seq(FrameType) /\ FramesCounted
        /\ buffer \in Seq(Byte) /\ stream \in Seq(Byte) /\ Len(buffer) <= Len(stream)
        /\ offset \in Nat /\ FramesOf(stream, Reached)
    BY FollowsIsFramesOf DEF ParserInv, BufferIsTail, FrameType
  <1>2. /\ Complete(buffer, offset) /\ frames' = Append(frames, frame)
        /\ messagesDecoded' = messagesDecoded + (IF Decodes(body) THEN 1 ELSE 0)
        /\ messagesSkipped' = messagesSkipped + (IF Decodes(body) THEN 0 ELSE 1)
        /\ offset' = offset + size
        /\ buffer' = buffer /\ stream' = stream /\ fpc' = fpc /\ fpc = "scan"
    BY DEF Scan, Reached, Erased
  <1>3. size \in Nat /\ body \in Seq(Byte) /\ offset + size <= Len(buffer)
    BY <1>1, <1>2, FrameFits
  <1>4. /\ Reached \in Nat /\ Complete(stream, Reached)
        /\ size = SizeAt(stream, Reached) /\ body = BodyAt(stream, Reached)
    BY <1>1, <1>2, BufferShowsStream
  <1>5. Reached' = Reached + size
    BY <1>1, <1>2, <1>3 DEF Reached, Erased
  <1> HIDE DEF size, body
  <1>6. BufferIsTail'
    <2>1. offset' \in 0..Len(buffer)
      BY <1>1, <1>2, <1>3
    <2> QED
      BY <1>1, <1>2, <2>1, Zenon DEF BufferIsTail, Erased
  <1>7. frame \in FrameType
    BY <1>3, <1>4, Zenon DEF FrameType
  <1> HIDE DEF frame
  <1>8. /\ frames' \in Seq(FrameType) /\ Len(frames') = Len(frames) + 1 /\ Len(frames) \in Nat
        /\ frames'[Len(frames) + 1] = frame
        /\ \A k \in 1..Len(frames) : frames'[k] = frames[k]
    BY <1>1, <1>2, <1>7, Appended
  <1>9. FramesCounted'
    BY <1>1, <1>2, <1>8 DEF FramesCounted
  <1>10. ASSUME NEW k \in 1..Len(frames')
         PROVE  /\ frames'[k].at = IF k = 1 THEN 0 ELSE frames'[k - 1].at + frames'[k - 1].size
                /\ Complete(stream, frames'[k].at)
                /\ frames'[k].size = SizeAt(stream, frames'[k].at)
                /\ frames'[k].body = BodyAt(stream, frames'[k].at)
    <2>1. CASE k \in 1..Len(frames)
      <3>1. frames'[k] = frames[k] /\ (k # 1 => frames'[k - 1] = frames[k - 1])
        BY <2>1, <1>8
      <3> QED
        BY <2>1, <3>1, <1>1, Zenon DEF FramesOf
    <2>2. CASE k = Len(frames) + 1
      <3>1. /\ frames'[k].at = Reached
            /\ frames'[k].size = SizeAt(stream, Reached)
            /\ frames'[k].body = BodyAt(stream, Reached)
        BY <2>2, <1>4, <1>8 DEF frame
      <3>2. Reached = IF k = 1 THEN 0 ELSE frames'[k - 1].at + frames'[k - 1].size
        <4>1. CASE k = 1
          <5>1. frames = <<>>
            BY <4>1, <2>2, <1>1
          <5> QED
            BY <4>1, <5>1, <1>1, Zenon DEF FramesOf
        <4>2. CASE k # 1
          <5>1. frames # <<>> /\ k - 1 = Len(frames) /\ k - 1 \in 1..Len(frames)
            BY <4>2, <2>2, <1>1
          <5>2. frames'[k - 1] = frames[Len(frames)]
            BY <5>1, <1>8
          <5> QED
            BY <4>2, <5>1, <5>2, <1>1 DEF FramesOf
        <4> QED
          BY <4>1, <4>2
      <3> QED
        BY <3>1, <3>2, <1>4, Zenon
    <2>3. k \in 1..Len(frames) \/ k = Len(frames) + 1
      BY <1>8
    <2> QED
      BY <2>1, <2>2, <2>3, Zenon
  <1>11. Reached' = IF frames' = <<>> THEN 0
                    ELSE frames'[Len(frames')].at + frames'[Len(frames')].size
    <2>1. frames' # <<>> /\ frames'[Len(frames')] = frame
      BY <1>8
    <2>2. frame.at = Reached /\ frame.size = size
      BY DEF frame
    <2> QED
      BY <1>5, <2>1, <2>2
  <1>12. FramesFollowStream'
    BY <1>2, <1>10, <1>11 DEF FramesFollowStream
  <1> QED
    BY <1>6, <1>8, <1>9, <1>12 DEF ParserInv, FrameType

\* The end of feed() keeps the invariant: it erases what the frames cover, and what
\* is left in the buffer begins no frame that is complete.
LEMMA FeedReturnKeeps ==
    ASSUME ParserInv, FeedReturn
    PROVE  ParserInv'
  <1>1. /\ BufferIsTail /\ frames \in Seq(FrameType) /\ FramesCounted
        /\ buffer \in Seq(Byte) /\ stream \in Seq(Byte) /\ Len(buffer) <= Len(stream)
        /\ offset \in 0..Len(buffer) /\ FramesOf(stream, Reached)
    BY FollowsIsFramesOf DEF ParserInv, BufferIsTail, FrameType
  <1>2. /\ buffer' = SubSeq(buffer, offset + 1, Len(buffer))
        /\ ~Complete(buffer, offset) /\ offset' = 0 /\ fpc' = "idle"
        /\ stream' = stream /\ frames' = frames
        /\ messagesDecoded' = messagesDecoded /\ messagesSkipped' = messagesSkipped
    BY DEF FeedReturn
  <1>3. /\ buffer' \in Seq(Byte) /\ Len(buffer') = Len(buffer) - offset
        /\ \A i \in 1..(Len(buffer) - offset) : buffer'[i] = buffer[offset + i]
    <2>1. \A k \in (offset + 1)..Len(buffer) : buffer[k] \in Byte
      BY <1>1
    <2>2. Len(buffer') = Len(buffer) - offset
      BY <1>1, <1>2
    <2>3. buffer' \in Seq(Byte)
      BY <1>1, <1>2, <2>1
    <2>4. ASSUME NEW i \in 1..(Len(buffer) - offset)
          PROVE  buffer'[i] = buffer[offset + i]
      BY <1>1, <1>2
    <2> QED
      BY <2>2, <2>3, <2>4
  <1>10. /\ Len(buffer) \in Nat /\ Len(stream) \in Nat /\ Len(buffer) <= Len(stream)
         /\ offset \in Nat /\ offset <= Len(buffer) /\ offset' = 0 /\ Len(stream') = Len(stream)
         /\ Len(buffer') = Len(buffer) - offset
    <2>1. Len(buffer) \in Nat /\ Len(stream) \in Nat /\ Len(buffer) <= Len(stream)
      BY <1>1
    <2>2. offset \in Nat /\ offset <= Len(buffer)
      BY <1>1
    <2> QED
      BY <1>2, <1>3, <2>1, <2>2, Zenon
  <1>4. Erased' = Reached /\ Reached' = Reached /\ Reached = Erased + offset /\ Erased \in Nat
    BY <1>10 DEF Erased, Reached
  <1>5. ASSUME NEW i \in 1..Len(buffer')
        PROVE  buffer'[i] = stream'[Erased' + i]
    <2>1. i \in 1..(Len(buffer) - offset) /\ offset + i \in 1..Len(buffer)
      BY <1>1, <1>3
    <2>2. buffer'[i] = buffer[offset + i]
      BY <2>1, <1>3
    <2>3. buffer[offset + i] = stream[Erased + (offset + i)]
      BY <2>1, <1>1 DEF BufferIsTail
    <2>4. Erased + (offset + i) = Erased' + i
      BY <1>4, <1>10
    <2> QED
      BY <1>2, <2>2, <2>3, <2>4, Zenon
  <1>6. BufferIsTail'
    <2>1. Len(buffer') <= Len(stream') /\ offset' \in 0..Len(buffer')
      BY <1>10
    <2> QED
      BY <1>1, <1>2, <1>3, <1>5, <2>1, Zenon DEF BufferIsTail
  <1>7. ~Complete(stream, Reached)
    BY <1>1, <1>2, BufferShowsStream
  <1>8. FramesFollowStream'
    BY <1>1, <1>2, <1>4, <1>7 DEF FramesFollowStream, FramesOf
  <1>9. FramesCounted' /\ frames' \in Seq(FrameType)
    BY <1>1, <1>2 DEF FramesCounted
  <1> QED
    BY <1>6, <1>8, <1>9 DEF ParserInv, FrameType

\* Without bytes there is no frame, and the invariant holds.
LEMMA EmptyParser ==
    ASSUME buffer = <<>>, stream = <<>>, frames = <<>>, offset = 0, fpc = "idle",
           messagesDecoded = 0, messagesSkipped = 0
    PROVE  ParserInv
  <1>1. Erased = 0 /\ Reached = 0
    BY DEF Erased, Reached
  <1>2. ~Complete(stream, Reached)
    BY <1>1 DEF Complete
  <1>3. BufferIsTail
    BY <1>1 DEF BufferIsTail
  <1>4. FramesFollowStream
    BY <1>1, <1>2 DEF FramesFollowStream
  <1>5. FramesCounted
    BY DEF FramesCounted
  <1> QED
    BY <1>3, <1>4, <1>5 DEF ParserInv

-----------------------------------------------------------------------------
\* Every call of feed() and reset() keeps the invariant of the parser.
THEOREM ParserInvariant == ParserSpec => []ParserInv
  <1>1. ParserInit => ParserInv
    BY EmptyParser DEF ParserInit
  <1>2. ParserInv /\ [ParserNext]_parserVars => ParserInv'
    <2> SUFFICES ASSUME ParserInv, [ParserNext]_parserVars
                 PROVE  ParserInv'
      OBVIOUS
    <2>1. ASSUME NEW chunk \in Chunks, Feed(chunk)
          PROVE  ParserInv'
      <3>1. chunk \in Seq(Byte)
        BY ParserAssumption DEF Chunks
      <3> QED
        BY <2>1, <3>1, FeedKeeps
    <2>2. CASE Scan
      BY <2>2, ScanKeeps
    <2>3. CASE FeedReturn
      BY <2>3, FeedReturnKeeps
    <2>4. CASE Reset
      <3>1. /\ buffer' = <<>> /\ stream' = <<>> /\ frames' = <<>> /\ fpc' = "idle"
            /\ messagesDecoded' = 0 /\ messagesSkipped' = 0 /\ offset' = 0
        BY <2>4 DEF Reset, ParserInv, BufferIsTail
      <3>2. Erased' = 0 /\ Reached' = 0
        BY <3>1 DEF Erased, Reached
      <3>3. ~Complete(stream', Reached')
        BY <3>1, <3>2 DEF Complete
      <3>4. BufferIsTail'
        BY <3>1, <3>2 DEF BufferIsTail
      <3>5. FramesFollowStream'
        BY <3>1, <3>2, <3>3 DEF FramesFollowStream
      <3>6. FramesCounted'
        BY <3>1 DEF FramesCounted
      <3> QED
        BY <3>1, <3>4, <3>5, <3>6 DEF ParserInv
    <2>5. CASE UNCHANGED parserVars
      BY <2>5, Zenon DEF parserVars, ParserInv, BufferIsTail, FramesFollowStream, FramesCounted,
         Erased, Reached
    <2> QED
      BY <2>1, <2>2, <2>3, <2>4, <2>5 DEF ParserNext
  <1> QED
    BY <1>1, <1>2, PTL DEF ParserSpec

\* "takes any chunk size, buffers a trailing partial record across calls, and returns
\* every complete record found": for streams of any length cut in any way, the frames
\* are those the bytes determine, and none is left out once feed() has returned.
THEOREM ParserFollowsStream == ParserSpec => []FramesFollowStream
  <1>1. ParserInv => FramesFollowStream
    BY DEF ParserInv
  <1> QED
    BY <1>1, ParserInvariant, PTL

-----------------------------------------------------------------------------
(***************************************************************************)
(* The reader: its thread and its owner.                                   *)
(***************************************************************************)
Ending == {"close", "clear", "finish", "exited"}

\* Where the two threads are.
PlacesInv ==
    /\ (opc = "new") <=> (rpc = "none")
    /\ opc = "joined" => rpc = "exited"
    /\ rpc \in {"finish", "exited"} => ~socketFd
    /\ rpc = "exited" => ~running
    /\ (rpc = "feed") <=> (fpc = "scan")

\* What has come through.
DeliveryInv ==
    /\ sent \in Nat /\ sent <= Len(PeerStream)
    /\ Len(stream) <= sent
    /\ stream = SubSeq(PeerStream, 1, Len(stream))
    /\ handled \in Nat /\ handled <= Len(frames)
    /\ rpc \notin {"feed", "deliver"} => handled = Len(frames)

\* Why the loop ends.
EndInv ==
    /\ shut => stop
    /\ opc \in {"load", "shutdown"} => stop
    /\ rpc \in Ending =>
          hungUp \/ stop \/ reset \/ interrupted \/ (fin /\ Len(stream) = sent)

SocketInv == ParserInv /\ PlacesInv /\ DeliveryInv /\ EndInv

-----------------------------------------------------------------------------
\* Nothing but feed() changes what the invariant of the parser is about.
LEMMA ParserInvStays ==
    ASSUME ParserInv, UNCHANGED parserVars
    PROVE  ParserInv'
  BY Zenon DEF parserVars, ParserInv, BufferIsTail, FramesFollowStream, FramesCounted, Erased,
         Reached

\* What the invariants of the parser say about lengths.
LEMMA ParserLengths ==
    ASSUME ParserInv
    PROVE  Len(stream) \in Nat /\ Len(frames) \in Nat /\ stream \in Seq(Byte)
  BY DEF ParserInv, BufferIsTail

\* A part of what the peer has to say, and the part behind it, make a longer part.
LEMMA NextPart ==
    ASSUME NEW m \in Nat, NEW n \in Nat, m + n <= Len(PeerStream)
    PROVE  /\ SubSeq(PeerStream, m + 1, m + n) \in Seq(Byte)
           /\ Len(SubSeq(PeerStream, m + 1, m + n)) = n
           /\ SubSeq(PeerStream, 1, m) \o SubSeq(PeerStream, m + 1, m + n)
                 = SubSeq(PeerStream, 1, m + n)
  <1> DEFINE a == SubSeq(PeerStream, 1, m)
             b == SubSeq(PeerStream, m + 1, m + n)
             c == SubSeq(PeerStream, 1, m + n)
  <1>1. PeerStream \in Seq(Byte)
    BY SocketAssumption
  <1>2. \A k \in 1..(m + n) : PeerStream[k] \in Byte
    BY <1>1
  <1>3. /\ a \in Seq(Byte) /\ Len(a) = m
        /\ \A k \in 1..m : a[k] = PeerStream[k]
    BY <1>1, <1>2
  <1>4. /\ b \in Seq(Byte) /\ Len(b) = n
        /\ \A k \in 1..n : b[k] = PeerStream[m + k]
    <2>1. \A k \in (m + 1)..(m + n) : PeerStream[k] \in Byte
      BY <1>2
    <2>2. b \in Seq(Byte)
      BY <1>1, <2>1
    <2>3. Len(b) = n
      BY <1>1
    <2>4. ASSUME NEW k \in 1..n
          PROVE  b[k] = PeerStream[m + k]
      BY <1>1
    <2> QED
      BY <2>2, <2>3, <2>4
  <1>5. /\ c \in Seq(Byte) /\ Len(c) = m + n
        /\ \A k \in 1..(m + n) : c[k] = PeerStream[k]
    BY <1>1, <1>2
  <1> HIDE DEF a, b, c
  <1>6. /\ a \o b \in Seq(Byte) /\ Len(a \o b) = m + n
        /\ \A k \in 1..m : (a \o b)[k] = a[k]
    BY <1>3, <1>4, Concatenated
  <1>7. ASSUME NEW k \in 1..(m + n)
        PROVE  (a \o b)[k] = c[k]
    <2>1. CASE k <= m
      <3>1. k \in 1..m
        BY <2>1
      <3> QED
        BY <3>1, <1>3, <1>5, <1>6, Zenon
    <2>2. CASE k > m
      <3>1. k \in (Len(a) + 1)..(Len(a) + Len(b)) /\ k - m \in 1..n /\ m + (k - m) = k
        BY <2>2, <1>3, <1>4
      <3>2. (a \o b)[k] = b[k - Len(a)]
        BY <3>1, <1>3, <1>4, ConcatRight, Zenon
      <3>3. b[k - m] = PeerStream[m + (k - m)]
        BY <3>1, <1>4
      <3> QED
        BY <3>1, <3>2, <3>3, <1>3, <1>5
    <2>3. k <= m \/ k > m
      OBVIOUS
    <2> QED
      BY <2>1, <2>2, <2>3, Zenon
  <1>8. a \o b = c
    <2> DEFINE ab == a \o b
    <2>1. ab \in Seq(Byte) /\ Len(ab) = m + n
      BY <1>6
    <2>2. ASSUME NEW k \in 1..(m + n)
          PROVE  ab[k] = c[k]
      BY <1>7, Zenon
    <2> HIDE DEF ab
    <2>3. \A k \in 1..Len(ab) : ab[k] = c[k]
      BY <2>1, <2>2
    <2>4. ab = c
      BY <1>5, <2>1, <2>3
    <2> QED
      BY <2>4 DEF ab
  <1> QED
    BY <1>4, <1>8, Zenon DEF a, b, c

-----------------------------------------------------------------------------
\* The steps of the reader outside recv() and feed().
LEMMA ReaderKeeps ==
    ASSUME SocketInv,
           \/ CheckStop \/ PollTimeout \/ PollFails \/ PollEvent \/ ReceiveEnd \/ Deliver
           \/ CloseFd \/ ClearFd \/ Finish
    PROVE  SocketInv'
  <1>1. ParserInv'
    BY ParserInvStays
       DEF SocketInv, CheckStop, PollTimeout, PollFails, PollEvent, ReceiveEnd, Deliver, CloseFd,
           ClearFd, Finish
  <1>2. Len(stream) \in Nat /\ Len(frames) \in Nat
    BY ParserLengths DEF SocketInv
  <1>6. UNCHANGED <<parserVars, opc, stop, sent, fin, reset, shut>>
    BY Zenon DEF CheckStop, PollTimeout, PollFails, PollEvent, ReceiveEnd, Deliver, CloseFd, ClearFd,
             Finish, ownerVars, kernelVars
  <1>7. stream' = stream /\ frames' = frames /\ fpc' = fpc
    BY <1>6 DEF parserVars
  <1>3. PlacesInv'
    <2>1. CASE CheckStop \/ PollTimeout
      BY <2>1, <1>6, <1>7 DEF SocketInv, PlacesInv, CheckStop, PollTimeout
    <2>2. CASE PollFails \/ PollEvent
      BY <2>2, <1>6, <1>7 DEF SocketInv, PlacesInv, PollFails, PollEvent
    <2>3. CASE ReceiveEnd \/ Deliver
      BY <2>3, <1>6, <1>7 DEF SocketInv, PlacesInv, ReceiveEnd, Deliver
    <2>4. CASE CloseFd
      BY <2>4, <1>6, <1>7 DEF SocketInv, PlacesInv, CloseFd
    <2>5. CASE ClearFd \/ Finish
      BY <2>5, <1>6, <1>7 DEF SocketInv, PlacesInv, ClearFd, Finish
    <2> QED
      BY <2>1, <2>2, <2>3, <2>4, <2>5
  <1>4. DeliveryInv'
    <2>1. handled' \in Nat /\ handled' <= Len(frames)
          /\ (rpc' \notin {"feed", "deliver"} => handled' = Len(frames))
      <3>1. CASE Deliver
        BY <3>1, <1>2 DEF SocketInv, DeliveryInv, Deliver
      <3>2. CASE ~Deliver
        <4>1. handled' = handled /\ rpc \notin {"feed", "deliver"}
          BY <3>2 DEF CheckStop, PollTimeout, PollFails, PollEvent, ReceiveEnd, CloseFd, ClearFd,
                 Finish
        <4> QED
          BY <4>1 DEF SocketInv, DeliveryInv
      <3> QED
        BY <3>1, <3>2
    <2> QED
      BY <2>1, <1>6, <1>7 DEF SocketInv, DeliveryInv
  <1>5. EndInv'
    <2>1. CASE PollEvent
      <3>1. rpc' \in Ending => hungUp'
        BY <2>1 DEF Ending, PollEvent
      <3> QED
        BY <3>1, <1>6, <1>7 DEF SocketInv, EndInv
    <2>2. CASE ReceiveEnd
      <3>1. Pending = 0 => Len(stream) = sent
        <4>1. sent \in Nat
          BY DEF SocketInv, DeliveryInv
        <4> QED
          BY <1>2, <4>1 DEF Pending
      <3>2. reset \/ stop \/ (fin /\ Len(stream) = sent)
        BY <2>2, <3>1 DEF SocketInv, EndInv, ReceiveEnd
      <3> QED
        BY <3>2, <1>6, <1>7 DEF SocketInv, EndInv, Ending
    <2>3. CASE CheckStop \/ PollTimeout
      BY <2>3, <1>6, <1>7 DEF SocketInv, EndInv, Ending, CheckStop, PollTimeout
    <2>5. CASE PollFails \/ Deliver
      BY <2>5, <1>6, <1>7 DEF SocketInv, EndInv, Ending, PollFails, Deliver, pollVars
    <2>4. CASE CloseFd \/ ClearFd \/ Finish
      <3>1. rpc \in Ending /\ interrupted' = interrupted /\ hungUp' = hungUp
        BY <2>4 DEF Ending, CloseFd, ClearFd, Finish, pollVars
      <3> QED
        BY <3>1, <1>6, <1>7 DEF SocketInv, EndInv
    <2> QED
      BY <2>1, <2>2, <2>3, <2>4, <2>5
  <1> QED
    BY <1>1, <1>3, <1>4, <1>5 DEF SocketInv

\* recv() hands the next part of the stream to feed().
LEMMA ReceiveKeeps ==
    ASSUME SocketInv, NEW n \in 1..RecvBuffer, Receive(n)
    PROVE  SocketInv'
  <1> DEFINE chunk == SubSeq(PeerStream, Len(stream) + 1, Len(stream) + n)
  <1>1. /\ ParserInv /\ Len(stream) \in Nat /\ stream \in Seq(Byte) /\ Len(frames) \in Nat
        /\ stream = SubSeq(PeerStream, 1, Len(stream))
        /\ n \in Nat /\ Len(stream) + n <= sent /\ Len(stream) + n <= Len(PeerStream)
    <2>1. n \in Nat
      BY SocketAssumption
    <2>2. Len(PeerStream) \in Nat
      BY SocketAssumption
    <2> QED
      BY <2>1, <2>2, ParserLengths DEF SocketInv, DeliveryInv, Receive, Pending
  <1>2. /\ chunk \in Seq(Byte) /\ Len(chunk) = n
        /\ SubSeq(PeerStream, 1, Len(stream)) \o chunk = SubSeq(PeerStream, 1, Len(stream) + n)
    BY <1>1, NextPart, Zenon
  <1>3. Feed(chunk)
    BY DEF Receive
  <1> HIDE DEF chunk
  <1>4. stream' = stream \o chunk /\ frames' = frames /\ fpc' = "scan"
    BY <1>3 DEF Feed
  <1>5. Len(stream') = Len(stream) + n /\ stream' = SubSeq(PeerStream, 1, Len(stream'))
    <2>1. Len(stream \o chunk) = Len(stream) + n
      BY <1>1, <1>2
    <2>2. stream \o chunk = SubSeq(PeerStream, 1, Len(stream) + n)
      BY <1>1, <1>2
    <2> DEFINE longer == stream \o chunk
    <2>3. Len(longer) = Len(stream) + n /\ longer = SubSeq(PeerStream, 1, Len(stream) + n)
          /\ stream' = longer
      BY <2>1, <2>2, <1>4
    <2> HIDE DEF longer
    <2> QED
      BY <2>3
  <1>6. ParserInv'
    BY <1>1, <1>2, <1>3, FeedKeeps
  <1>7. PlacesInv'
    BY <1>4 DEF SocketInv, PlacesInv, Receive, ownerVars
  <1>8. DeliveryInv'
    BY <1>1, <1>4, <1>5 DEF SocketInv, DeliveryInv, Receive, kernelVars
  <1>9. EndInv'
    BY DEF SocketInv, EndInv, Ending, Receive, ownerVars, kernelVars, pollVars
  <1> QED
    BY <1>6, <1>7, <1>8, <1>9 DEF SocketInv

\* feed() finds a record, or returns.
LEMMA FeedStepsKeep ==
    ASSUME SocketInv, FeedStep \/ FeedDone
    PROVE  SocketInv'
  <1>1. ParserInv'
    BY ScanKeeps, FeedReturnKeeps DEF SocketInv, FeedStep, FeedDone
  <1>2. Len(frames) \in Nat /\ Len(frames) <= Len(frames') /\ Len(frames') \in Nat
    <2>1. frames \in Seq(FrameType) /\ frames' \in Seq(FrameType)
      BY <1>1 DEF SocketInv, ParserInv, FrameType
    <2>2. frames' = frames \/ \E f : frames' = Append(frames, f)
      BY DEF FeedStep, FeedDone, Scan, FeedReturn
    <2> QED
      BY <2>1, <2>2
  <1>3. stream' = stream /\ (rpc = "feed") /\ rpc' \in {"feed", "deliver"}
        /\ ((rpc' = "feed") <=> (fpc' = "scan"))
    BY DEF FeedStep, FeedDone, Scan, FeedReturn
  <1>4. PlacesInv'
    BY <1>3 DEF SocketInv, PlacesInv, FeedStep, FeedDone, ownerVars
  <1>5. DeliveryInv'
    BY <1>2, <1>3 DEF SocketInv, DeliveryInv, FeedStep, FeedDone, kernelVars
  <1>6. EndInv'
    BY <1>3 DEF SocketInv, EndInv, Ending, FeedStep, FeedDone, ownerVars, kernelVars,
                    pollVars
  <1> QED
    BY <1>1, <1>4, <1>5, <1>6 DEF SocketInv

\* The steps of the owner, of the peer and of the rest of the process.
LEMMA OthersKeep ==
    ASSUME SocketInv,
           \/ Start \/ CallStop \/ CallJoin \/ LoadFd \/ Shutdown \/ JoinReturn
           \/ PeerSends \/ PeerCloses \/ PeerResets \/ OtherOpens
    PROVE  SocketInv'
  <1>1. ParserInv' /\ UNCHANGED parserVars
    BY ParserInvStays
       DEF SocketInv, Start, CallStop, CallJoin, LoadFd, Shutdown, JoinReturn,
           PeerSends, PeerCloses, PeerResets, OtherOpens
  <1>2. stream' = stream /\ frames' = frames /\ fpc' = fpc
    BY <1>1 DEF parserVars
  <1>3. PlacesInv'
    <2>1. CASE Start
      BY <2>1, <1>2 DEF SocketInv, PlacesInv, Start
    <2>2. CASE CallStop \/ CallJoin \/ LoadFd
      BY <2>2, <1>2 DEF SocketInv, PlacesInv, CallStop, CallJoin, LoadFd
    <2>3. CASE Shutdown \/ JoinReturn
      BY <2>3, <1>2 DEF SocketInv, PlacesInv, Shutdown, JoinReturn
    <2>4. CASE PeerSends \/ PeerCloses \/ PeerResets \/ OtherOpens
      <3>1. UNCHANGED <<rpc, opc, socketFd, running>>
        BY <2>4, Zenon DEF PeerSends, PeerCloses, PeerResets, OtherOpens, ownerVars
      <3> QED
        BY <3>1, <1>2 DEF SocketInv, PlacesInv
    <2> QED
      BY <2>1, <2>2, <2>3, <2>4
  <1>4. DeliveryInv'
    <2>1. CASE PeerSends
      <3>1. sent + 1 <= Len(PeerStream) /\ Len(stream) \in Nat /\ Len(PeerStream) \in Nat
        BY <2>1, ParserLengths, SocketAssumption DEF SocketInv, DeliveryInv, PeerSends
      <3> QED
        BY <2>1, <3>1, <1>2 DEF SocketInv, DeliveryInv, PeerSends
    <2>2. CASE Start
      <3>1. rpc = "none" /\ UNCHANGED <<sent, handled>>
        BY <2>2 DEF SocketInv, PlacesInv, Start
      <3> QED
        BY <3>1, <1>2 DEF SocketInv, DeliveryInv
    <2>3. CASE ~PeerSends /\ ~Start
      <3>1. UNCHANGED <<rpc, sent, handled>>
        BY <2>3, Zenon DEF CallStop, CallJoin, LoadFd, Shutdown, JoinReturn, PeerCloses,
               PeerResets, OtherOpens, kernelVars
      <3> QED
        BY <3>1, <1>2 DEF SocketInv, DeliveryInv
    <2> QED
      BY <2>1, <2>2, <2>3
  <1>5. EndInv'
    <2>0. EndInv
      BY Zenon DEF SocketInv
    <2>1. CASE Start
      BY <2>0, <2>1 DEF EndInv, Ending, Start, pollVars
    <2>2. CASE CallStop
      BY <2>0, <2>2 DEF EndInv, Ending, CallStop, kernelVars, pollVars
    <2>3. CASE CallJoin \/ LoadFd \/ JoinReturn
      BY <2>0, <2>3, <1>2 DEF EndInv, Ending, CallJoin, LoadFd, JoinReturn, kernelVars,
                               pollVars
    <2>4. CASE Shutdown
      BY <2>0, <2>4, <1>2 DEF EndInv, Ending, Shutdown, pollVars
    <2>5. CASE PeerSends
      BY <2>0, <2>5, <1>2 DEF EndInv, Ending, PeerSends, ownerVars, pollVars
    <2>6. CASE PeerCloses
      BY <2>0, <2>6, <1>2 DEF EndInv, Ending, PeerCloses, ownerVars, pollVars
    <2>7. CASE PeerResets \/ OtherOpens
      BY <2>0, <2>7, <1>2 DEF EndInv, Ending, PeerResets, OtherOpens, ownerVars, pollVars
    <2> QED
      BY <2>1, <2>2, <2>3, <2>4, <2>5, <2>6, <2>7, Zenon
  <1> QED
    BY <1>1, <1>3, <1>4, <1>5, Zenon DEF SocketInv

-----------------------------------------------------------------------------
\* The invariant of the reader and its owner holds whatever the peer does.
THEOREM SocketInvariant == SocketSpec => []SocketInv
  <1>1. SocketInit => SocketInv
    <2> SUFFICES ASSUME SocketInit
                 PROVE  SocketInv
      OBVIOUS
    <2>1. ParserInv
      BY EmptyParser DEF SocketInit, ParserInit
    <2>2. stream = <<>> /\ frames = <<>> /\ Len(PeerStream) \in Nat
      BY SocketAssumption DEF SocketInit, ParserInit
    <2>3. stream = SubSeq(PeerStream, 1, Len(stream))
      BY <2>2, SocketAssumption
    <2>4. PlacesInv
      BY DEF SocketInit, ParserInit, PlacesInv
    <2>5. DeliveryInv
      BY <2>2, <2>3 DEF SocketInit, DeliveryInv
    <2>6. EndInv
      BY DEF SocketInit, EndInv, Ending
    <2> QED
      BY <2>1, <2>4, <2>5, <2>6 DEF SocketInv
  <1>2. SocketInv /\ [SocketNext]_socketVars => SocketInv'
    <2> SUFFICES ASSUME SocketInv, [SocketNext]_socketVars
                 PROVE  SocketInv'
      OBVIOUS
    <2>1. CASE ReaderStep
      BY <2>1, ReaderKeeps, ReceiveKeeps, FeedStepsKeep DEF ReaderStep
    <2>2. CASE UNCHANGED socketVars
      <3>1. ParserInv'
        BY <2>2, ParserInvStays DEF SocketInv, socketVars
      <3>2. PlacesInv' /\ DeliveryInv' /\ EndInv'
        BY <2>2, Zenon DEF SocketInv, PlacesInv, DeliveryInv, EndInv, socketVars, parserVars,
               ownerVars, kernelVars, pollVars
      <3> QED
        BY <3>1, <3>2 DEF SocketInv
    <2> QED
      BY <2>1, <2>2, OthersKeep DEF SocketNext, OwnerReturns
  <1> QED
    BY <1>1, <1>2, PTL DEF SocketSpec

\* What the callback has been through is cut from a beginning of what the peer sent,
\* by recv() calls of any size, and feed() works on nothing else.
THEOREM SocketReceivesInOrder == SocketSpec => []ReceivedInOrder
  <1>1. SocketInv => ReceivedInOrder
    <2> SUFFICES ASSUME SocketInv
                 PROVE  ReceivedInOrder
      OBVIOUS
    <2>1. fpc \in {"idle", "scan"}
      BY DEF SocketInv, ParserInv, BufferIsTail
    <2> QED
      BY <2>1 DEF SocketInv, PlacesInv, DeliveryInv, ReceivedInOrder
  <1> QED
    BY <1>1, SocketInvariant, PTL

\* A recvLoop() that ends because the peer has closed its side has handed over every
\* record of what it received, and has received all the peer sent unless poll() called
\* the close a hang-up, whatever poll() reports of a peer that has closed its side.
THEOREM SocketOrderlyClose == SocketSpec => []OrderlyCloseLosesNothing
  <1>1. SocketInv => OrderlyCloseLosesNothing
    <2> SUFFICES ASSUME SocketInv, rpc = "exited", ~stop, ~reset, ~interrupted
                 PROVE  /\ handled = Len(frames) /\ ~Complete(stream, Reached)
                        /\ ~hungUp => Len(stream) = sent
      BY DEF OrderlyCloseLosesNothing
    <2>1. ~hungUp => Len(stream) = sent
      BY DEF SocketInv, EndInv, Ending
    <2>2. fpc = "idle"
      BY DEF SocketInv, PlacesInv, ParserInv, BufferIsTail
    <2>3. ~Complete(stream, Reached)
      BY <2>2 DEF SocketInv, ParserInv, FramesFollowStream
    <2> QED
      BY <2>1, <2>3, Zenon DEF SocketInv, DeliveryInv
  <1> QED
    BY <1>1, SocketInvariant, PTL

\* Once stop() or join() has returned, the reader thread is gone and its counts are
\* final and complete.
THEOREM SocketJoinedIsFinal == SocketSpec => []JoinedIsFinal
  <1>1. SocketInv => JoinedIsFinal
    <2> SUFFICES ASSUME SocketInv, opc = "joined"
                 PROVE  /\ rpc = "exited" /\ ~running /\ ~socketFd
                        /\ handled = messagesDecoded + messagesSkipped
      BY DEF JoinedIsFinal
    <2>1. rpc = "exited" /\ ~running /\ ~socketFd
      BY DEF SocketInv, PlacesInv
    <2>2. handled = Len(frames)
      BY <2>1 DEF SocketInv, DeliveryInv
    <2>3. messagesDecoded + messagesSkipped = Len(frames)
      BY DEF SocketInv, ParserInv, FramesCounted
    <2> QED
      BY <2>1, <2>2, <2>3
  <1> QED
    BY <1>1, SocketInvariant, PTL
===============================================================================
