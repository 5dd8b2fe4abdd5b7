-------------------------- MODULE OrderManagerProofs --------------------------
(***************************************************************************)
(* Proofs about OrderManager for every set of ids, accounts and requests   *)
(* and every limit on prices and quantities: the steps of cancelOrder and  *)
(* cancelReplace, and what follows from the invariant.                     *)
(***************************************************************************)
EXTENDS MatchOrderProofs

(***************************************************************************)
(* cancelOrder() and cancelReplace().                                      *)
(***************************************************************************)
\* Removing a resting order from the matcher and untracking it in the shadow queues
\* leave the same levels, and the mirror without the order.
LEMMA RemovedBoth ==
    ASSUME ManagerInv, pc = "idle", NEW id \in active, CancelResting(id),
           shadow' = UntrackResting(shadow, id)
    PROVE  /\ RemoveOrder(id)
           /\ book' = shadow'
           /\ IsBook(shadow')
           /\ orderTable' = MirrorOf(active \ {id}, orders)
  <1>1. /\ book = shadow /\ orderTable = MirrorOf(active, orders) /\ DOMAIN orderTable = active
        /\ InOrder(shadow, orderTable)
    BY SettledBook DEF Settled
  <1>2. RemoveOrder(id)
    BY <1>1 DEF CancelResting
  <1>3. shadow' = [shadow EXCEPT ![orderTable[id].side] = EraseOrder(@, orderTable[id].price, id)]
    BY <1>1, UntrackFinds
  <1>4. book' = shadow'
    BY <1>1, <1>2, <1>3 DEF RemoveOrder
  <1>5. IsBook(shadow')
    <2>1. IsBook(shadow)
      BY DEF ManagerInv, IdsInv
    <2>2. id \in DOMAIN orderTable
      BY <1>1
    <2>3. orderTable[id].side \in Side
      BY <1>1, <2>2, EntryInOrder
    <2> DEFINE side   == orderTable[id].side
               levels == EraseOrder(shadow[side], orderTable[id].price, id)
    <2>4. shadow' = SetSide(shadow, side, levels) /\ IsMap(levels)
      BY <1>3, LevelsAreMaps DEF SetSide
    <2> HIDE DEF side, levels
    <2>5. side \in Side
      BY <2>3 DEF side
    <2> QED
      BY <2>1, <2>4, <2>5, ReplaceSide
  <1>6. orderTable' = MirrorOf(active \ {id}, orders)
    BY <1>1, <1>2 DEF RemoveOrder, MirrorOf, Restrict
  <1> QED
    BY <1>2, <1>4, <1>5, <1>6

\* cancelOrder().
LEMMA CancelOrderCallKeeps ==
    ASSUME ManagerInv, NEW id \in OrderId, CancelOrderCall(id)
    PROVE  ManagerInv'
  <1>1. /\ pc = "idle" /\ pc' = "idle" /\ id \in active /\ CancelResting(id)
        /\ active' = active \ {id} /\ shadow' = UntrackResting(shadow, id)
        /\ orders' = [orders EXCEPT ![id].status = "Cancelled"]
        /\ known' = known /\ mpc' = mpc /\ incoming' = incoming /\ trades' = trades
        /\ IdsInv /\ MatcherInv
    BY DEF CancelOrderCall, ManagerInv
  <1>2. mpc = "idle" /\ trades = <<>>
    BY <1>1, SettledBook DEF Settled
  <1>3. /\ book' = shadow' /\ IsBook(shadow') /\ orderTable' = MirrorOf(active \ {id}, orders)
    BY <1>1, RemovedBoth
  <1>4. id \in DOMAIN orders /\ orders[id] \in Snapshot
    BY <1>1 DEF IdsInv
  <1>5. /\ DOMAIN orders' = DOMAIN orders
        /\ \A x \in DOMAIN orders : x # id => orders'[x] = orders[x]
        /\ orders'[id] \in Snapshot /\ orders'[id].status = "Cancelled"
    BY <1>1, <1>4 DEF Snapshot, Status
  <1>6. IdsInv'
    BY <1>1, <1>3, <1>5 DEF IdsInv
  <1>7. orderTable' = MirrorOf(active', orders')
    <2>1. \A x \in active \ {id} : orders'[x] = orders[x]
      BY <1>1, <1>5 DEF IdsInv
    <2> QED
      BY <1>1, <1>3, <2>1 DEF MirrorOf
  <1>8. MatcherInv'
    BY <1>1, <1>2, CancelOrderKeeps DEF CancelOrder
  <1>9. CallInv'
    BY <1>1, <1>2 DEF CallInv
  <1>10. PlaceInv'
    BY <1>1, <1>3, <1>7, SettledPlace
  <1> QED
    BY <1>6, <1>8, <1>9, <1>10 DEF ManagerInv

\* What cancelReplace() knows of a replacement it accepts.
LEMMA AcceptedFacts ==
    ASSUME ManagerInv, pc = "idle", NEW o \in Order, ReplaceAccepted(o)
    PROVE  /\ o.id \in active /\ o.id \in OrderId /\ o.side \in Side /\ o.price \in Price
           /\ o.quantity \in Quantity /\ o.quantity > 0 /\ o.account \in AccountId
           /\ ReachesNone(shadow, o.side, o.price)
  <1>1. /\ o.id \in OrderId /\ o.side \in Side /\ o.price \in Price
        /\ o.quantity \in Quantity /\ o.account \in AccountId
    BY DEF Order
  <1>2. o.id \in active /\ ~WouldCross(o) /\ o.quantity # 0
    BY DEF ReplaceAccepted, ValidateNewOrder
  <1>3. o.quantity > 0
    BY <1>1, <1>2, MatcherAssumption DEF Quantity
  <1>4. InOrder(shadow, MirrorOf(active, orders))
    BY SettledBook DEF Settled
  <1>5. ReachesNone(shadow, o.side, o.price)
    BY <1>1, <1>2, <1>4, WouldCrossDecides
  <1> QED
    BY <1>1, <1>2, <1>3, <1>5

\* A replacement that goes to the back of its new level.
LEMMA AmendRequeueKeeps ==
    ASSUME ManagerInv, NEW o \in Order, AmendRequeue(o)
    PROVE  ManagerInv'
  <1> DEFINE new == ToMatcher(o.id, o.side, o.price, o.quantity)
  <1>1. /\ pc = "idle" /\ pc' = "requeue" /\ ReplaceAccepted(o) /\ CancelResting(o.id)
        /\ shadow' = UntrackResting(shadow, o.id) /\ BeginMatch(new) /\ order' = o
        /\ known' = known /\ active' = active /\ orders' = orders
        /\ IdsInv /\ MatcherInv
    BY DEF AmendRequeue, ManagerInv
  <1>2. /\ o.id \in active /\ o.id \in OrderId /\ o.side \in Side /\ o.price \in Price
        /\ o.quantity \in Quantity /\ o.quantity > 0
        /\ ReachesNone(shadow, o.side, o.price)
    BY <1>1, AcceptedFacts
  <1>3. /\ RemoveOrder(o.id) /\ book' = shadow' /\ IsBook(shadow')
        /\ orderTable' = MirrorOf(active \ {o.id}, orders)
    BY <1>1, <1>2, RemovedBoth
  <1>4. book = shadow /\ DOMAIN orderTable = active
    BY <1>1, SettledBook DEF Settled
  <1>5. BookTyped /\ BookConsistent /\ NoCrossedBook
    BY <1>1, SplitType DEF MatcherInv
  <1>6. /\ BookTyped' /\ BookConsistent'
        /\ \A side \in Side : DOMAIN book'[side] \subseteq DOMAIN book[side]
    BY <1>2, <1>3, <1>4, <1>5, RemoveKeepsBook
  <1>7. NoCrossedBook'
    BY <1>5, <1>6 DEF NoCrossedBook, Side
  <1>8. mpc' = "cross" /\ incoming' = new /\ trades' = <<>>
    BY <1>1 DEF BeginMatch
  <1>9. new \in Incoming /\ new.id = o.id
    BY <1>2 DEF ToMatcher, Incoming
  <1> HIDE DEF new
  <1>10. o.id \notin DOMAIN orderTable'
    BY <1>3 DEF MirrorOf
  <1>11. MatcherInv'
    <2>1. 1..Len(trades') = {} /\ trades' \in Seq(Trade)
      BY <1>8
    <2>2. MatcherTypeOK'
      BY <1>6, <1>8, <1>9, <2>1, SplitType DEF CallTyped
    <2>3. TradesWalkTheBook'
      BY <2>1 DEF TradesWalkTheBook
    <2> QED
      BY <1>6, <1>7, <1>8, <1>9, <1>10, <2>1, <2>2, <2>3 DEF MatcherInv
  <1>12. IdsInv'
    BY <1>1, <1>3 DEF IdsInv
  <1>13. CallInv'
    BY <1>1, <1>2, <1>8 DEF CallInv
  <1>14. RestInv'
    <2>1. RestingQuantity' = o.quantity
      BY <1>1 DEF RestingQuantity
    <2>2. Mirror' = MirrorOf(active \ {o.id}, orders)
      BY <1>1 DEF Mirror
    <2>3. ReachesNone(shadow', o.side, o.price)
      <3>1. Opposite(o.side) \in Side
        BY <1>2, OppositeFacts
      <3>2. DOMAIN shadow'[Opposite(o.side)] \subseteq DOMAIN shadow[Opposite(o.side)]
        BY <1>3, <1>4, <1>6, <3>1
      <3> QED
        BY <1>2, <3>2 DEF ReachesNone
    <2>4. incoming' = ToMatcher(order'.id, order'.side, order'.price, RestingQuantity')
      BY <1>1, <1>8, <2>1 DEF new
    <2> QED
      BY <1>1, <1>2, <1>3, <1>8, <1>10, <2>1, <2>2, <2>3, <2>4 DEF RestInv, BookIs
  <1>15. PlaceInv'
    BY <1>1, <1>14 DEF PlaceInv, Settled
  <1> QED
    BY <1>11, <1>12, <1>13, <1>15 DEF ManagerInv

\* Where the amended order rests: a replacement that keeps its priority is of the
\* side and the level the order already is in, or it would cross.
LEMMA AmendedPlace ==
    ASSUME ManagerInv, pc = "idle", NEW o \in Order, ReplaceAccepted(o), PreservesPriority(o)
    PROVE  /\ orders[o.id].side = o.side /\ orders[o.id].price = o.price
           /\ o.price \in DOMAIN shadow[o.side]
           /\ Holds(shadow[o.side][o.price], o.id)
  <1> DEFINE t == MirrorOf(active, orders)
  <1>1. /\ o.id \in active /\ o.side \in Side /\ o.price \in Price
        /\ ReachesNone(shadow, o.side, o.price)
    BY AcceptedFacts
  <1>2. InOrder(shadow, t)
    BY SettledBook DEF Settled
  <1>3. o.id \in DOMAIN t /\ t[o.id].side = orders[o.id].side /\ t[o.id].price = orders[o.id].price
    BY <1>1 DEF MirrorOf, Entry
  <1> HIDE DEF t
  <1>4. orders[o.id].price = o.price
    BY DEF PreservesPriority
  <1>5. /\ orders[o.id].side \in Side
        /\ o.price \in DOMAIN shadow[orders[o.id].side]
        /\ Holds(shadow[orders[o.id].side][o.price], o.id)
    BY <1>2, <1>3, <1>4, EntryInOrder
  <1>6. orders[o.id].side = o.side
    <2> SUFFICES ASSUME orders[o.id].side # o.side PROVE FALSE
      OBVIOUS
    <2>1. orders[o.id].side = Opposite(o.side)
      BY <1>1, <1>5 DEF Opposite, Side
    <2>2. ~Reaches(o.side, o.price, o.price)
      BY <1>1, <1>5, <2>1 DEF ReachesNone
    <2> QED
      BY <1>1, <2>2, MatcherAssumption DEF Reaches, Price
  <1> QED
    BY <1>4, <1>5, <1>6

\* A replacement that keeps its place: the loops over its level begin.
LEMMA AmendInPlaceKeeps ==
    ASSUME ManagerInv, NEW o \in Order, AmendInPlace(o)
    PROVE  ManagerInv'
  <1> DEFINE s    == o.side
             p    == o.price
             fifo == shadow[s][p]
             t    == MirrorOf(active, orders)
             u    == MirrorOf(active, orders')
  <1>1. /\ pc = "idle" /\ ReplaceAccepted(o) /\ PreservesPriority(o) /\ order' = o
        /\ orders' = [orders EXCEPT ![o.id] = SnapshotOf(o, o.quantity, "New")]
        /\ UNCHANGED matcherVars /\ known' = known /\ active' = active
        /\ IdsInv /\ MatcherInv
    BY DEF AmendInPlace, ManagerInv
  <1>2. /\ o.id \in active /\ s \in Side /\ p \in Price /\ o.account \in AccountId
        /\ o.quantity \in Quantity /\ o.quantity > 0
    BY <1>1, AcceptedFacts
  <1>3. /\ orders[o.id].side = s /\ orders[o.id].price = p
        /\ p \in DOMAIN shadow[s] /\ Holds(fifo, o.id)
    BY <1>1, AmendedPlace
  <1>4. shadow' = shadow /\ todo' = fifo /\ pc' = "unbuild"
    BY <1>3 DEF AmendInPlace
  <1>5. /\ book = shadow /\ orderTable = t /\ DOMAIN orderTable = active /\ InOrder(shadow, t)
        /\ mpc = "idle" /\ trades = <<>>
    BY <1>1, SettledBook DEF Settled
  <1>6. /\ DOMAIN t = active /\ \A id \in active : t[id] = Entry(orders[id])
        /\ DOMAIN u = active /\ \A id \in active : u[id] = Entry(orders'[id])
    BY DEF MirrorOf
  <1>7. /\ DOMAIN orders' = DOMAIN orders /\ orders'[o.id] = SnapshotOf(o, o.quantity, "New")
        /\ \A id \in DOMAIN orders : id # o.id => orders'[id] = orders[id]
    BY <1>1, <1>2 DEF IdsInv
  <1>8. /\ orders'[o.id] \in Snapshot /\ orders'[o.id].status = "New"
        /\ orders'[o.id].side = s /\ orders'[o.id].price = p /\ orders'[o.id].quantity = o.quantity
    BY <1>2, <1>7 DEF SnapshotOf, Snapshot, Status
  <1> HIDE DEF s, p, fifo, t, u
  <1>9. IdsInv'
    BY <1>1, <1>2, <1>4, <1>7, <1>8 DEF IdsInv
  <1>10. InOrder(shadow, u)
    <2>1. ASSUME NEW id \in active
          PROVE  /\ u[id] \in Location /\ u[id].side = t[id].side /\ u[id].price = t[id].price
                 /\ u[id].quantity > 0
      <3>1. CASE id = o.id
        <4>1. u[id] = Entry(orders'[o.id]) /\ t[id] = Entry(orders[o.id])
          BY <1>6, <3>1
        <4> QED
          BY <1>2, <1>3, <1>8, <4>1 DEF Entry, Location
      <3>2. CASE id # o.id
        <4>1. u[id] = t[id]
          BY <1>1, <1>6, <1>7, <3>2 DEF IdsInv
        <4>2. t[id] \in Location /\ t[id].quantity > 0
          BY <1>5, <1>6, EntryInOrder
        <4> QED
          BY <4>1, <4>2
      <3> QED
        BY <3>1, <3>2
    <2>2. SamePlaces(t, u)
      BY <1>6, <2>1 DEF SamePlaces
    <2> QED
      BY <1>5, <2>2, Requantified
  <1>11. fifo \in Seq(OrderId) /\ fifo # <<>> /\ Len(fifo) \in Nat /\ Len(fifo) > 0
    <2>1. fifo \in Seq(OrderId) /\ GoodLevel(fifo, t, s, p)
      BY <1>2, <1>3, <1>5, LevelInOrder DEF fifo
    <2> QED
      BY <2>1 DEF GoodLevel
  <1>12. Rebuilt' = fifo /\ Mirror' = u
    BY <1>1, <1>4, MirrorNow DEF Rebuilt, fifo, s, p, u
  <1>13. Visited' = 0
    BY <1>4, <1>11, <1>12 DEF Visited
  <1>14. UnbuildInv'
    <2>1. todo' = SubSeq(Rebuilt', Visited' + 1, Len(Rebuilt'))
      BY <1>4, <1>11, <1>12, <1>13, WholeSubSeq
    <2>2. book' = WithLevel(shadow', order'.side, order'.price, todo')
      <3>1. WithLevel(shadow, s, p, fifo) = shadow
        BY <1>1, <1>2, <1>3, <1>11, WithLevelWhole DEF fifo, IdsInv
      <3> QED
        BY <1>1, <1>4, <1>5, <3>1 DEF matcherVars, s, p
    <2>3. \E n \in 1..Len(Rebuilt') : Rebuilt'[n] = order'.id
      BY <1>1, <1>3, <1>12 DEF Holds
    <2>4. IdsAt(Rebuilt', 1..Visited') = {}
      BY <1>13, OneMorePlace
    <2>5. DOMAIN orderTable' = DOMAIN Mirror' \ IdsAt(Rebuilt', 1..Visited')
      BY <1>1, <1>5, <1>6, <1>12, <2>4 DEF matcherVars
    <2>6. \A id \in DOMAIN orderTable' : id # order'.id => orderTable'[id] = Mirror'[id]
      BY <1>1, <1>5, <1>6, <1>7, <1>12 DEF matcherVars, IdsInv
    <2>7. Visited' \in 0..Len(Rebuilt') - 1
      BY <1>11, <1>12, <1>13
    <2> QED
      BY <2>1, <2>2, <2>3, <2>5, <2>6, <2>7 DEF UnbuildInv
  <1>15. MatcherInv'
    BY <1>1, MatcherStutters
  <1>16. CallInv'
    BY <1>1, <1>2, <1>4, <1>5 DEF CallInv, matcherVars
  <1>17. PlaceInv'
    BY <1>1, <1>3, <1>4, <1>10, <1>12, <1>14 DEF PlaceInv, Settled, s, p
  <1> QED
    BY <1>9, <1>15, <1>16, <1>17 DEF ManagerInv

\* The level that is taken down and built again.
LEMMA LevelNow ==
    ASSUME ManagerInv, pc \in {"unbuild", "rebuild"}
    PROVE  /\ order \in Order /\ order.side \in Side /\ order.price \in Price
           /\ order.price \in DOMAIN shadow[order.side] /\ DOMAIN shadow = Side /\ IsBook(shadow)
           /\ Mirror = MirrorOf(active, orders) /\ DOMAIN Mirror = active
           /\ InOrder(shadow, Mirror)
           /\ Rebuilt \in Seq(OrderId) /\ Rebuilt # <<>> /\ Len(Rebuilt) \in Nat \ {0}
           /\ GoodLevel(Rebuilt, Mirror, order.side, order.price)
           /\ ReachesNone(shadow, order.side, order.price)
  <1> DEFINE s == order.side
             p == order.price
  <1>1. /\ order \in Order /\ IdsInv /\ InOrder(shadow, Mirror) /\ p \in DOMAIN shadow[s]
    BY DEF ManagerInv, CallInv, PlaceInv
  <1>2. s \in Side /\ p \in Price /\ DOMAIN shadow = Side /\ IsBook(shadow)
    BY <1>1 DEF Order, IdsInv, IsBook
  <1>3. Mirror = MirrorOf(active, orders) /\ DOMAIN Mirror = active
    BY MirrorNow DEF MirrorOf
  <1>4. Rebuilt \in Seq(OrderId) /\ GoodLevel(Rebuilt, Mirror, s, p)
    BY <1>1, <1>2, LevelInOrder DEF Rebuilt
  <1>5. Rebuilt # <<>> /\ Len(Rebuilt) \in Nat \ {0}
    BY <1>4 DEF GoodLevel
  <1>6. ReachesNone(shadow, s, p)
    <2>1. Uncrossed(shadow) /\ \A side \in Side : DOMAIN shadow[side] \subseteq Price
      BY <1>1 DEF InOrder, TypedBook
    <2> HIDE DEF s, p
    <2> QED
      BY <1>1, <1>2, <2>1, MatcherAssumption DEF ReachesNone, Uncrossed, Opposite, Side, Reaches, Price
  <1> QED
    BY <1>1, <1>2, <1>3, <1>4, <1>5, <1>6

\* What is left to visit of the level begins with the order after the visited ones.
LEMMA TodoFacts ==
    ASSUME ManagerInv, pc \in {"unbuild", "rebuild"}, todo # <<>>
    PROVE  /\ Visited \in Nat /\ Visited + 1 \in 1..Len(Rebuilt)
           /\ todo \in Seq(OrderId)
           /\ Head(todo) = Rebuilt[Visited + 1]
           /\ Tail(todo) = SubSeq(Rebuilt, Visited + 2, Len(Rebuilt))
           /\ Len(Tail(todo)) = Len(Rebuilt) - (Visited + 1)
           /\ Tail(todo) # <<>> <=> Visited + 1 < Len(Rebuilt)
  <1> DEFINE n == Visited
             L == Len(Rebuilt)
  <1>1. Rebuilt \in Seq(OrderId) /\ L \in Nat
    BY LevelNow
  <1>2. n \in 0..L /\ todo = SubSeq(Rebuilt, n + 1, L)
    <2>1. CASE pc = "unbuild"
      BY <1>1, <2>1 DEF ManagerInv, PlaceInv, UnbuildInv
    <2>2. CASE pc = "rebuild"
      BY <2>2 DEF ManagerInv, PlaceInv, RebuildInv
    <2> QED
      BY <2>1, <2>2
  <1> HIDE DEF n, L
  <1>3. n + 1 \in 1..L
    BY <1>1, <1>2
  <1>4. Head(todo) = Rebuilt[n + 1] /\ Tail(todo) = SubSeq(Rebuilt, n + 1 + 1, L)
    BY <1>1, <1>2, <1>3, SubSeqFromNext DEF L
  <1>5. n \in Nat /\ Tail(todo) = SubSeq(Rebuilt, n + 2, L)
    <2>1. n \in Nat /\ n + 1 + 1 = n + 2
      BY <1>1, <1>2
    <2> QED
      BY <1>4, <2>1, Zenon
  <1>6. \A i \in n + 1..L : Rebuilt[i] \in OrderId
    BY <1>1, <1>2 DEF L
  <1>7. todo \in Seq(OrderId) /\ Len(todo) = L - n
    BY <1>1, <1>2, <1>3, <1>6, SubSeqFacts
  <1>8. Tail(todo) \in Seq(OrderId) /\ Len(Tail(todo)) = L - (n + 1)
    BY <1>1, <1>2, <1>7
  <1>9. Tail(todo) # <<>> <=> n + 1 < L
    BY <1>1, <1>2, <1>3, <1>8
  <1> QED
    BY <1>3, <1>4, <1>5, <1>7, <1>8, <1>9 DEF n, L

\* The level keeps its orders while the loops run.
LEMMA FrozenLevel ==
    ASSUME shadow' = shadow, active' = active, orders' = orders, order' = order,
           pc \in {"unbuild", "rebuild"}, pc' \in {"unbuild", "rebuild"}
    PROVE  Rebuilt' = Rebuilt /\ Mirror' = Mirror
  BY MirrorNow DEF Rebuilt

\* What the first loop cancels: the front order of what is left of the level.
LEMMA UnbuildFinds ==
    ASSUME ManagerInv, Unbuild
    PROVE  /\ todo # <<>>
           /\ book' = WithLevel(shadow, order.side, order.price, Tail(todo))
           /\ DOMAIN orderTable' = DOMAIN Mirror \ IdsAt(Rebuilt, 1..Visited + 1)
           /\ orderTable' = [id \in DOMAIN orderTable' |-> orderTable'[id]]
           /\ \A id \in DOMAIN orderTable' : id # order.id => orderTable'[id] = Mirror[id]
  <1> DEFINE s == order.side
             p == order.price
             x == Head(todo)
  <1>1. pc = "unbuild" /\ CancelResting(x) /\ MatcherInv /\ UnbuildInv
    BY DEF Unbuild, ManagerInv, PlaceInv
  <1>2. /\ s \in Side /\ p \in DOMAIN shadow[s] /\ DOMAIN shadow = Side
        /\ Rebuilt \in Seq(OrderId) /\ Len(Rebuilt) \in Nat
    BY <1>1, LevelNow
  <1>3. /\ Visited \in 0..Len(Rebuilt) - 1 /\ todo = SubSeq(Rebuilt, Visited + 1, Len(Rebuilt))
        /\ book = WithLevel(shadow, s, p, todo)
        /\ DOMAIN orderTable = DOMAIN Mirror \ IdsAt(Rebuilt, 1..Visited)
        /\ \A id \in DOMAIN orderTable : id # order.id => orderTable[id] = Mirror[id]
    BY <1>1 DEF UnbuildInv
  <1>4. todo # <<>>
    <2>1. \A i \in Visited + 1..Len(Rebuilt) : Rebuilt[i] \in OrderId
      BY <1>2, <1>3
    <2>2. Len(todo) = Len(Rebuilt) - Visited
      BY <1>2, <1>3, <2>1, SubSeqFacts
    <2>3. Visited \in 0..Len(Rebuilt) - 1 /\ Len(Rebuilt) \in Nat
      BY <1>2, <1>3
    <2>4. Len(Rebuilt) - Visited # 0
      BY <2>3
    <2>5. Len(todo) # 0
      BY <2>2, <2>4
    <2> QED
      BY <2>5
  <1>5. x = Rebuilt[Visited + 1] /\ todo \in Seq(OrderId) /\ Visited \in Nat
    BY <1>1, <1>4, TodoFacts
  <1> HIDE DEF s, p
  <1>6. p \in DOMAIN book[s] /\ book[s][p] = todo
    <2>1. /\ p \in DOMAIN WithLevel(shadow, s, p, todo)[s]
          /\ WithLevel(shadow, s, p, todo)[s][p] = todo
      BY <1>2, <1>4, WithLevelAt
    <2>2. book = WithLevel(shadow, s, p, todo)
      BY <1>3
    <2> QED
      BY <2>1, <2>2
  <1>7. GoodLevel(todo, orderTable, s, p)
    <2>1. InOrder(book, orderTable)
      BY <1>1, MatcherInOrder
    <2>2. GoodLevel(book[s][p], orderTable, s, p)
      BY <1>2, <1>6, <2>1, LevelInOrder
    <2> QED
      BY <1>6, <2>2
  <1>8. 1 \in 1..Len(todo) /\ x = todo[1]
    BY <1>4, <1>5
  <1>9. x \in DOMAIN orderTable /\ orderTable[x].side = s /\ orderTable[x].price = p
    BY <1>7, <1>8 DEF GoodLevel
  <1>10. RemoveOrder(x)
    BY <1>1, <1>9 DEF CancelResting
  <1>11. book' = WithLevel(shadow, s, p, Tail(todo))
    <2> DEFINE w == WithLevel(shadow, s, p, todo)
    <2>1. book' = SetSide(w, s, EraseOrder(w[s], p, Head(todo)))
      BY <1>3, <1>9, <1>10 DEF RemoveOrder, SetSide
    <2>2. \A i, j \in 1..Len(todo) : todo[i] = todo[j] => i = j
      BY <1>7 DEF GoodLevel
    <2>3. SetSide(w, s, EraseOrder(w[s], p, Head(todo))) = WithLevel(shadow, s, p, Tail(todo))
      BY <1>2, <1>4, <1>5, <2>2, EraseFirst
    <2> QED
      BY <2>1, <2>3
  <1>12. orderTable' = Restrict(orderTable, DOMAIN orderTable \ {x})
    BY <1>10 DEF RemoveOrder
  <1> HIDE DEF x
  <1>13. /\ DOMAIN orderTable' = DOMAIN orderTable \ {x}
         /\ \A id \in DOMAIN orderTable' : orderTable'[id] = orderTable[id]
         /\ orderTable' = [id \in DOMAIN orderTable' |-> orderTable'[id]]
    BY <1>12 DEF Restrict
  <1>14. IdsAt(Rebuilt, 1..Visited + 1) = IdsAt(Rebuilt, 1..Visited) \cup {x}
    BY <1>2, <1>5, OneMorePlace
  <1>15. DOMAIN orderTable' = DOMAIN Mirror \ IdsAt(Rebuilt, 1..Visited + 1)
    BY <1>3, <1>13, <1>14
  <1> QED
    BY <1>3, <1>4, <1>11, <1>13, <1>15, Zenon DEF s, p

\* One iteration of the first loop; after the last one the second loop begins.
LEMMA UnbuildKeeps ==
    ASSUME ManagerInv, Unbuild
    PROVE  ManagerInv'
  <1> DEFINE n == Visited
             L == Len(Rebuilt)
             x == Head(todo)
  <1>1. /\ pc = "unbuild" /\ CancelResting(x) /\ mpc' = mpc /\ incoming' = incoming
        /\ trades' = trades /\ shadow' = shadow /\ known' = known /\ active' = active
        /\ orders' = orders /\ order' = order
        /\ IdsInv /\ CallInv /\ MatcherInv /\ UnbuildInv /\ PlaceInv
    BY DEF Unbuild, ManagerInv, PlaceInv
  <1>2. /\ todo # <<>>
        /\ book' = WithLevel(shadow, order.side, order.price, Tail(todo))
        /\ DOMAIN orderTable' = DOMAIN Mirror \ IdsAt(Rebuilt, 1..n + 1)
        /\ orderTable' = [id \in DOMAIN orderTable' |-> orderTable'[id]]
        /\ \A id \in DOMAIN orderTable' : id # order.id => orderTable'[id] = Mirror[id]
    BY UnbuildFinds
  <1>3. /\ n \in Nat /\ n + 1 \in 1..L /\ x = Rebuilt[n + 1]
        /\ Tail(todo) = SubSeq(Rebuilt, n + 2, L) /\ Len(Tail(todo)) = L - (n + 1)
        /\ Tail(todo) # <<>> <=> n + 1 < L
    BY <1>1, <1>2, TodoFacts
  <1>4. Rebuilt \in Seq(OrderId) /\ L \in Nat \ {0} /\ DOMAIN Mirror = active
    BY <1>1, LevelNow
  <1>5. mpc = "idle" /\ trades = <<>>
    BY <1>1 DEF CallInv
  <1>6. MatcherInv'
    <2>1. x \in OrderId
      BY <1>3, <1>4
    <2> QED
      BY <1>1, <1>5, <2>1, CancelOrderKeeps DEF CancelOrder
  <1>7. IdsInv'
    BY <1>1, FrozenIds
  <1>8. pc' \in {"unbuild", "rebuild"}
    BY <1>1 DEF Unbuild
  <1>9. Rebuilt' = Rebuilt /\ Mirror' = Mirror
    BY <1>1, <1>8, FrozenLevel
  <1>10. CallInv'
    BY <1>1, <1>5, <1>8 DEF CallInv
  <1>11. InOrder(shadow', Mirror') /\ order'.price \in DOMAIN shadow'[order'.side]
    BY <1>1, <1>9 DEF PlaceInv
  <1> HIDE DEF x
  <1>12. CASE n + 1 < L
    <2>1. todo' = Tail(todo) /\ pc' = "unbuild"
      BY <1>1, <1>3, <1>12 DEF Unbuild
    <2>2. Visited' = L - Len(Tail(todo))
      BY <1>9, <2>1 DEF Visited
    <2> HIDE DEF n
    <2>3. Visited' = n + 1 /\ Visited' + 1 = n + 2 /\ Visited' \in 0..L - 1
      <3> DEFINE rest == Len(Tail(todo))
      <3>1. rest = L - (n + 1) /\ n \in Nat /\ L \in Nat /\ n + 1 < L /\ Visited' = L - rest
        BY <1>3, <1>4, <1>12, <2>2
      <3> HIDE DEF rest, L
      <3> QED
        BY <3>1
    <2> HIDE DEF L
    <2>4. todo' = SubSeq(Rebuilt', Visited' + 1, Len(Rebuilt'))
      BY <1>3, <1>9, <2>1, <2>3 DEF L
    <2>5. \E k \in 1..Len(Rebuilt') : Rebuilt'[k] = order'.id
      BY <1>1, <1>9 DEF UnbuildInv
    <2>6. UnbuildInv'
      BY <1>1, <1>2, <1>9, <2>1, <2>2, <2>3, <2>4, <2>5, Zenon DEF UnbuildInv, L
    <2>7. PlaceInv'
      BY <1>11, <2>1, <2>6 DEF PlaceInv, Settled
    <2> QED
      BY <1>6, <1>7, <1>10, <2>7 DEF ManagerInv
  <1>13. CASE ~(n + 1 < L)
    <2>1. todo' = Rebuilt /\ pc' = "rebuild" /\ Tail(todo) = <<>>
      BY <1>1, <1>3, <1>13 DEF Unbuild, Rebuilt
    <2>2. n + 1 = L
      BY <1>3, <1>4, <1>13
    <2> HIDE DEF n
    <2>3. Visited' = 0
      BY <1>4, <1>9, <2>1 DEF Visited
    <2>4. todo' = SubSeq(Rebuilt', Visited' + 1, Len(Rebuilt')) /\ Visited' \in 0..Len(Rebuilt')
      BY <1>4, <1>9, <2>1, <2>3, WholeSubSeq
    <2>5. book' = WithLevel(shadow, order.side, order.price, SubSeq(Rebuilt, 1, 0))
      <3>1. SubSeq(Rebuilt, 1, 0) = <<>>
        OBVIOUS
      <3> QED
        BY <1>2, <2>1, <3>1, Zenon
    <2>6. orderTable' = Without(Mirror, IdsAt(Rebuilt, 1..L))
      <3>1. DOMAIN orderTable' = DOMAIN Mirror \ IdsAt(Rebuilt, 1..L)
        BY <1>2, <2>2
      <3>2. order.id \in IdsAt(Rebuilt, 1..L)
        BY <1>1 DEF UnbuildInv, IdsAt
      <3>3. \A id \in DOMAIN orderTable' : orderTable'[id] = Mirror[id]
        BY <1>2, <3>1, <3>2
      <3> QED
        BY <1>2, <3>1, <3>3, Zenon DEF Without, Restrict
    <2>7. Rebuilding(Visited)'
      BY <1>1, <1>9, <2>3, <2>5, <2>6 DEF Rebuilding, BookIs
    <2>8. RebuildInv'
      BY <1>1, <1>5, <2>4, <2>7 DEF RebuildInv
    <2>9. PlaceInv'
      BY <1>11, <2>1, <2>8 DEF PlaceInv, Settled
    <2> QED
      BY <1>6, <1>7, <1>10, <2>9 DEF ManagerInv
  <1> QED
    BY <1>12, <1>13

\* What the second loop says of the order it adds next.
LEMMA NextFacts ==
    ASSUME ManagerInv, pc = "rebuild", NEW k \in 1..Len(Rebuilt)
    PROVE  /\ Rebuilt[k] \in active /\ Rebuilt[k] \in OrderId
           /\ orders[Rebuilt[k]].side = order.side /\ orders[Rebuilt[k]].price = order.price
           /\ orders[Rebuilt[k]].quantity \in Quantity /\ orders[Rebuilt[k]].quantity > 0
           /\ Mirror[Rebuilt[k]] = [side |-> order.side, price |-> order.price,
                                    quantity |-> orders[Rebuilt[k]].quantity]
  <1> DEFINE x == Rebuilt[k]
  <1>1. /\ Mirror = MirrorOf(active, orders) /\ DOMAIN Mirror = active /\ InOrder(shadow, Mirror)
        /\ GoodLevel(Rebuilt, Mirror, order.side, order.price)
    BY LevelNow
  <1>2. x \in active /\ Mirror[x].side = order.side /\ Mirror[x].price = order.price
    BY <1>1 DEF GoodLevel
  <1> HIDE DEF x
  <1>3. x \in OrderId /\ Mirror[x].quantity \in Quantity /\ Mirror[x].quantity > 0
    BY <1>1, <1>2, EntryInOrder
  <1>4. Mirror[x] = Entry(orders[x])
    BY <1>1, <1>2 DEF MirrorOf
  <1>5. /\ orders[x].side = order.side /\ orders[x].price = order.price
        /\ orders[x].quantity \in Quantity /\ orders[x].quantity > 0
    BY <1>2, <1>3, <1>4 DEF Entry
  <1>6. Mirror[x] = [side |-> order.side, price |-> order.price, quantity |-> orders[x].quantity]
    BY <1>4, <1>5 DEF Entry
  <1> QED
    BY <1>2, <1>3, <1>5, <1>6 DEF x

\* The next order of the level goes back to the matcher.
LEMMA RebuildKeeps ==
    ASSUME ManagerInv, Rebuild
    PROVE  ManagerInv'
  <1> DEFINE n   == Visited
             L   == Len(Rebuilt)
             x   == Rebuilt[n + 1]
             new == ToMatcher(x, order.side, order.price, orders[x].quantity)
  <1>1. /\ pc = "rebuild" /\ pc' = "rebuild" /\ todo # <<>> /\ todo' = Tail(todo)
        /\ book' = book /\ orderTable' = orderTable /\ shadow' = shadow /\ known' = known
        /\ active' = active /\ orders' = orders /\ order' = order
        /\ IdsInv /\ CallInv /\ MatcherInv /\ RebuildInv /\ PlaceInv
    BY DEF Rebuild, ManagerInv, PlaceInv
  <1>2. /\ n \in Nat /\ n + 1 \in 1..L /\ Head(todo) = x
        /\ Tail(todo) = SubSeq(Rebuilt, n + 2, L) /\ Len(Tail(todo)) = L - (n + 1)
    BY <1>1, TodoFacts, Zenon
  <1>3. L \in Nat \ {0} /\ DOMAIN Mirror = active /\ order.side \in Side /\ order.price \in Price
    BY <1>1, LevelNow
  <1>4. /\ x \in OrderId
        /\ orders[x].side = order.side /\ orders[x].price = order.price
        /\ orders[x].quantity \in Quantity
    BY <1>1, <1>2, NextFacts, Zenon
  <1>5. BeginMatch(new)
    BY <1>2, <1>4 DEF Rebuild
  <1>6. mpc = "idle" /\ mpc' = "cross" /\ incoming' = new /\ trades' = <<>>
    BY <1>5 DEF BeginMatch
  <1>7. new \in Incoming /\ new.id = x
    BY <1>3, <1>4 DEF ToMatcher, Incoming
  <1>8. Rebuilding(n)
    BY <1>1, <1>6 DEF RebuildInv
  <1>9. x \notin DOMAIN orderTable
    <2>1. orderTable = Without(Mirror, IdsAt(Rebuilt, n + 1..L))
      BY <1>8 DEF Rebuilding, BookIs
    <2>2. x \in IdsAt(Rebuilt, n + 1..L)
      <3> HIDE DEF n, L
      <3>1. n + 1 \in n + 1..L
        BY <1>2, <1>3
      <3> QED
        BY <3>1 DEF IdsAt
    <2> HIDE DEF x, n, L
    <2> QED
      BY <2>1, <2>2 DEF Without, Restrict
  <1> HIDE DEF new
  <1>10. MatcherInv'
    BY <1>1, <1>5, <1>7, <1>9, MatchOrderKeeps DEF MatchOrder
  <1>11. IdsInv'
    BY <1>1, FrozenIds
  <1>12. CallInv'
    BY <1>1, <1>6 DEF CallInv
  <1>13. Rebuilt' = Rebuilt /\ Mirror' = Mirror
    BY <1>1, FrozenLevel
  <1>14. Visited' = n + 1
    <2>1. Visited' = L - Len(Tail(todo))
      BY <1>1, <1>13 DEF Visited
    <2>2. n \in Nat /\ L \in Nat /\ Len(Tail(todo)) = L - (n + 1)
      BY <1>2, <1>3
    <2> HIDE DEF n, L
    <2>3. L - (L - (n + 1)) = n + 1
      BY <2>2
    <2> QED
      BY <2>1, <2>2, <2>3, Zenon
  <1>15. RebuildInv'
    <2>1. incoming' = ToMatcher(Rebuilt'[Visited'], order'.side, order'.price,
                                orders'[Rebuilt'[Visited']].quantity)
      BY <1>1, <1>6, <1>13, <1>14 DEF new
    <2> HIDE DEF n, L
    <2>2. Visited' - 1 = n /\ Visited' + 1 = n + 2 /\ Visited' \in 0..L /\ Visited' > 0
      BY <1>2, <1>3, <1>14
    <2>3. Rebuilding(Visited - 1)'
      BY <1>1, <1>8, <1>13, <2>2 DEF Rebuilding, BookIs
    <2>4. todo' = SubSeq(Rebuilt', Visited' + 1, Len(Rebuilt'))
      BY <1>1, <1>2, <1>13, <2>2, Zenon DEF L
    <2> QED
      BY <1>6, <1>13, <2>1, <2>2, <2>3, <2>4 DEF RebuildInv, L
  <1>16. PlaceInv'
    BY <1>1, <1>13, <1>15 DEF PlaceInv, Settled
  <1> QED
    BY <1>10, <1>11, <1>12, <1>16 DEF ManagerInv

\* The matcher does not trade with it: the level it comes from has never been in reach
\* of the other side.
LEMMA RebuildNeverCrosses ==
    ASSUME ManagerInv, pc = "rebuild", mpc = "cross"
    PROVE  ~Crossing
  <1> DEFINE s == order.side
             p == order.price
             f == SubSeq(Rebuilt, 1, Visited - 1)
  <1>1. MatcherInv /\ RebuildInv
    BY DEF ManagerInv, PlaceInv
  <1>2. /\ s \in Side /\ p \in DOMAIN shadow[s] /\ DOMAIN shadow = Side /\ ReachesNone(shadow, s, p)
    BY LevelNow
  <1>3. book = WithLevel(shadow, s, p, f) /\ incoming.side = s /\ incoming.price = p
    BY <1>1 DEF RebuildInv, Rebuilding, BookIs, ToMatcher
  <1> HIDE DEF s, p, f
  <1>4. Opposite(s) \in Side /\ Opposite(s) # s
    BY <1>2, OppositeFacts
  <1>5. WithLevel(shadow, s, p, f)[Opposite(s)] = shadow[Opposite(s)]
    <2>1. s \in Side /\ p \in DOMAIN shadow[s] /\ DOMAIN shadow = Side
      BY <1>2
    <2> QED
      BY <2>1, <1>4, WithLevelElsewhere
  <1>6. ReachesNone(book, s, p)
    BY <1>2, <1>3, <1>5 DEF ReachesNone
  <1> QED
    BY <1>1, <1>3, <1>6, NothingToCross

\* It is put at the back of its level, and so where it was.
LEMMA RebuildFinishKeeps ==
    ASSUME ManagerInv, pc = "rebuild", FinishMatch, UNCHANGED managerVars
    PROVE  ManagerInv'
  <1> DEFINE n == Visited
             L == Len(Rebuilt)
             x == Rebuilt[n]
             s == order.side
             p == order.price
             r == [side |-> s, price |-> p, quantity |-> orders[x].quantity]
  <1>1. /\ shadow' = shadow /\ known' = known /\ active' = active /\ orders' = orders
        /\ pc' = pc /\ order' = order /\ filled' = filled /\ todo' = todo
    BY DEF managerVars
  <1>2. mpc = "cross" /\ mpc' = "idle" /\ trades' = trades
    BY DEF FinishMatch
  <1>3. IdsInv /\ CallInv /\ MatcherInv /\ RebuildInv /\ PlaceInv
    BY DEF ManagerInv, PlaceInv
  <1>4. /\ n \in 0..L /\ n > 0 /\ Rebuilding(n - 1)
        /\ incoming = ToMatcher(x, s, p, orders[x].quantity)
    BY <1>2, <1>3 DEF RebuildInv
  <1>5. /\ s \in Side /\ p \in DOMAIN shadow[s] /\ DOMAIN shadow = Side
        /\ Rebuilt \in Seq(OrderId) /\ L \in Nat \ {0} /\ DOMAIN Mirror = active
        /\ GoodLevel(Rebuilt, Mirror, s, p)
    BY LevelNow
  <1>6. n \in 1..L
    <2> HIDE DEF n, L
    <2> QED
      BY <1>4, <1>5
  <1>7. x \in active /\ orders[x].quantity > 0 /\ Mirror[x] = r
    BY <1>6, NextFacts
  <1>8. /\ incoming.id = x /\ incoming.side = s /\ incoming.price = p
        /\ incoming.quantity = orders[x].quantity
    BY <1>4 DEF ToMatcher
  <1>9. RestOrder(incoming)
    BY <1>7, <1>8 DEF FinishMatch
  <1>10. /\ book = WithLevel(shadow, s, p, SubSeq(Rebuilt, 1, n - 1))
         /\ orderTable = Without(Mirror, IdsAt(Rebuilt, n - 1 + 1..L))
    BY <1>4 DEF Rebuilding, BookIs
  <1>11. book' = WithLevel(shadow, s, p, SubSeq(Rebuilt, 1, n))
    <2> DEFINE w == WithLevel(shadow, s, p, SubSeq(Rebuilt, 1, n - 1))
    <2>1. book' = SetSide(w, s, PushBack(w[s], p, x))
      BY <1>8, <1>9, <1>10 DEF RestOrder, SetSide
    <2>2. /\ s \in Side /\ p \in DOMAIN shadow[s] /\ DOMAIN shadow = Side
          /\ Rebuilt \in Seq(OrderId) /\ n \in 1..Len(Rebuilt)
      BY <1>5, <1>6
    <2> HIDE DEF s, p, n
    <2>3. SetSide(w, s, PushBack(w[s], p, x)) = WithLevel(shadow, s, p, SubSeq(Rebuilt, 1, n))
      BY <2>2, PushNext
    <2> QED
      BY <2>1, <2>3
  <1>12. orderTable' = Without(Mirror, IdsAt(Rebuilt, n + 1..L))
    <2>1. orderTable' = [id \in DOMAIN orderTable \cup {x} |-> IF id = x THEN r ELSE orderTable[id]]
      BY <1>8, <1>9 DEF RestOrder
    <2>2. x \notin IdsAt(Rebuilt, n + 1..L)
      <3> SUFFICES ASSUME NEW i \in n + 1..L, Rebuilt[i] = x PROVE FALSE
        BY DEF IdsAt
      <3> HIDE DEF n, L
      <3>1. i \in 1..L /\ i # n
        BY <1>5, <1>6
      <3>2. i = n
        BY <1>5, <1>6, <3>1 DEF GoodLevel, L
      <3> QED
        BY <3>1, <3>2
    <2> HIDE DEF r, x, n, L
    <2>3. orderTable = Without(Mirror, IdsAt(Rebuilt, n..L))
      <3>1. n - 1 + 1 = n
        BY <1>5, <1>6
      <3> QED
        BY <1>10, <3>1
    <2>4. IdsAt(Rebuilt, n..L) = IdsAt(Rebuilt, n + 1..L) \cup {x}
      <3>1. n \in Nat /\ L \in Nat /\ n <= L
        BY <1>5, <1>6
      <3> QED
        BY <3>1, OneMorePlace DEF x
    <2> DEFINE ids == IdsAt(Rebuilt, n + 1..L)
    <2> HIDE DEF ids
    <2>5. /\ orderTable = Without(Mirror, ids \cup {x}) /\ x \notin ids
          /\ x \in DOMAIN Mirror /\ Mirror[x] = r
      BY <1>5, <1>7, <2>2, <2>3, <2>4, Zenon DEF ids
    <2>6. DOMAIN orderTable \cup {x} = DOMAIN Mirror \ ids
      BY <2>5 DEF Without, Restrict
    <2>7. \A id \in DOMAIN orderTable : orderTable[id] = Mirror[id]
      BY <2>5 DEF Without, Restrict
    <2>8. orderTable' = Without(Mirror, ids)
      BY <2>1, <2>5, <2>6, <2>7 DEF Without, Restrict
    <2> QED
      BY <2>8 DEF ids
  <1>13. Rebuilt' = Rebuilt /\ Mirror' = Mirror
    BY <1>1, FrozenLevel
  <1>14. Visited' = n
    BY <1>1, <1>13 DEF Visited
  <1>15. RebuildInv'
    <2> HIDE DEF n
    <2>1. Rebuilding(Visited)'
      BY <1>1, <1>11, <1>12, <1>13, <1>14 DEF Rebuilding, BookIs
    <2>2. /\ Visited' \in 0..Len(Rebuilt')
          /\ todo' = SubSeq(Rebuilt', Visited' + 1, Len(Rebuilt'))
      BY <1>1, <1>3, <1>13, <1>14 DEF RebuildInv, n
    <2> QED
      BY <1>2, <2>1, <2>2 DEF RebuildInv
  <1>16. MatcherInv'
    BY <1>3, FinishMatchKeeps
  <1>17. IdsInv'
    BY <1>1, <1>3, FrozenIds
  <1>18. CallInv'
    BY <1>1, <1>2, <1>3 DEF CallInv
  <1>19. PlaceInv'
    BY <1>1, <1>3, <1>13, <1>15 DEF PlaceInv, Settled
  <1> QED
    BY <1>16, <1>17, <1>18, <1>19 DEF ManagerInv

\* When all orders of the level have been added the book is the shadow again.
LEMMA RebuildDoneKeeps ==
    ASSUME ManagerInv, RebuildDone
    PROVE  ManagerInv'
  <1>1. /\ pc = "rebuild" /\ todo = <<>> /\ mpc = "idle" /\ pc' = "idle"
        /\ UNCHANGED matcherVars /\ shadow' = shadow /\ known' = known
        /\ active' = active /\ orders' = orders
        /\ IdsInv /\ CallInv /\ MatcherInv /\ RebuildInv
    BY DEF RebuildDone, Return, ManagerInv, PlaceInv
  <1>2. /\ order.side \in Side /\ order.price \in DOMAIN shadow[order.side] /\ IsBook(shadow)
        /\ Mirror = MirrorOf(active, orders) /\ Rebuilt \in Seq(OrderId)
        /\ Rebuilt # <<>> /\ Len(Rebuilt) \in Nat
    BY <1>1, LevelNow
  <1>3. Visited = Len(Rebuilt)
    BY <1>1, <1>2 DEF Visited
  <1>4. Rebuilding(Len(Rebuilt))
    BY <1>1, <1>3 DEF RebuildInv
  <1>5. book = shadow
    <2>1. book = WithLevel(shadow, order.side, order.price, SubSeq(Rebuilt, 1, Len(Rebuilt)))
      BY <1>4 DEF Rebuilding, BookIs
    <2>2. SubSeq(Rebuilt, 1, Len(Rebuilt)) = Rebuilt
      BY <1>2, WholeSubSeq
    <2>3. WithLevel(shadow, order.side, order.price, Rebuilt) = shadow
      BY <1>2, WithLevelWhole DEF Rebuilt
    <2> QED
      BY <2>1, <2>2, <2>3, Zenon
  <1>6. orderTable = MirrorOf(active, orders)
    <2>1. orderTable = Without(Mirror, IdsAt(Rebuilt, Len(Rebuilt) + 1..Len(Rebuilt)))
      BY <1>4 DEF Rebuilding, BookIs
    <2>2. IdsAt(Rebuilt, Len(Rebuilt) + 1..Len(Rebuilt)) = {}
      BY <1>2, OneMorePlace
    <2> QED
      BY <1>2, <2>1, <2>2, WithoutNothing, Zenon
  <1>7. /\ book' = shadow' /\ orderTable' = MirrorOf(active', orders')
        /\ mpc' = "idle" /\ trades' = <<>>
    BY <1>1, <1>5, <1>6 DEF matcherVars, CallInv
  <1>8. MatcherInv'
    BY <1>1, MatcherStutters
  <1>9. IdsInv'
    BY <1>1, FrozenIds
  <1>10. CallInv'
    BY <1>1, <1>7 DEF CallInv
  <1>11. PlaceInv'
    BY <1>1, <1>7, SettledPlace
  <1> QED
    BY <1>8, <1>9, <1>10, <1>11 DEF ManagerInv

-----------------------------------------------------------------------------
(***************************************************************************)
(* The invariant and what follows from it.                                 *)
(***************************************************************************)
\* A call that is rejected changes nothing.
LEMMA ManagerStutters ==
    ASSUME ManagerInv, UNCHANGED vars
    PROVE  ManagerInv'
  <1>1. UNCHANGED matcherVars /\ UNCHANGED managerVars
    BY DEF vars
  <1>2. /\ book' = book /\ orderTable' = orderTable /\ mpc' = mpc /\ incoming' = incoming
        /\ trades' = trades /\ shadow' = shadow /\ known' = known /\ active' = active
        /\ orders' = orders /\ pc' = pc /\ order' = order /\ filled' = filled /\ todo' = todo
    BY <1>1 DEF matcherVars, managerVars
  <1>3. IdsInv /\ CallInv /\ MatcherInv /\ PlaceInv
    BY DEF ManagerInv
  <1>4. MatcherInv'
    BY <1>1, <1>3, MatcherStutters
  <1>5. IdsInv'
    BY <1>2, <1>3, FrozenIds
  <1>6. CallInv'
    BY <1>2, <1>3 DEF CallInv
  <1>7. Mirror' = Mirror
    BY <1>2 DEF Mirror
  <1>8. ProbeInv => ProbeInv'
    <2>1. /\ StpSide' = StpSide /\ StpLevel' = StpLevel /\ Front' = Front
          /\ ProbeSize' = ProbeSize /\ StpContinues' <=> StpContinues
      BY <1>2, FrozenStp
    <2> QED
      BY <1>2, <1>7, <2>1 DEF ProbeInv, BookIs
  <1>9. RestInv => RestInv'
    <2>1. RestingQuantity' = RestingQuantity
      BY <1>2 DEF RestingQuantity, Remaining
    <2> QED
      BY <1>2, <1>7, <2>1 DEF RestInv, BookIs
  <1>10. Rebuilt' = Rebuilt
    BY <1>2 DEF Rebuilt
  <1>11. Visited' = Visited
    BY <1>2, <1>10 DEF Visited
  <1>12. UnbuildInv => UnbuildInv'
    BY <1>2, <1>7, <1>10, <1>11 DEF UnbuildInv
  <1>13. RebuildInv => RebuildInv'
    BY <1>2, <1>7, <1>10, <1>11 DEF RebuildInv, Rebuilding, BookIs
  <1>14. PlaceInv'
    BY <1>2, <1>3, <1>7, <1>8, <1>9, <1>12, <1>13 DEF PlaceInv, Settled, BookIs
  <1> QED
    BY <1>4, <1>5, <1>6, <1>14 DEF ManagerInv

\* A step of the matcher, whichever call the manager waits for.
LEMMA MatcherStepKeeps ==
    ASSUME ManagerInv, MatcherStep
    PROVE  ManagerInv'
  <1>1. UNCHANGED managerVars /\ (CrossStep \/ FinishMatch)
    BY DEF MatcherStep
  <1>2. mpc = "cross" /\ (CrossStep => Crossing)
    BY <1>1 DEF CrossStep, FinishMatch
  <1>3. pc \in {"probe", "rest", "rebuild", "requeue"}
    BY <1>2 DEF ManagerInv, CallInv
  <1>4. CASE pc = "probe"
    BY <1>1, <1>4, ProbeCrossKeeps, ProbeFinishKeeps
  <1>5. CASE pc \in {"rest", "requeue"}
    BY <1>1, <1>2, <1>5, RestNeverCrosses, RestFinishKeeps
  <1>6. CASE pc = "rebuild"
    BY <1>1, <1>2, <1>6, RebuildNeverCrosses, RebuildFinishKeeps
  <1> QED
    BY <1>3, <1>4, <1>5, <1>6

\* A manager and its matcher begin empty.
LEMMA ManagerInitially ==
    ASSUME Init
    PROVE  ManagerInv
  <1>1. /\ MatcherInit /\ shadow = [side \in Side |-> NoLevels] /\ known = {} /\ active = {}
        /\ orders = [id \in {} |-> NoOrder] /\ pc = "idle"
    BY DEF Init
  <1>2. /\ book = [side \in Side |-> NoLevels] /\ orderTable = [id \in {} |-> NoOrder]
        /\ mpc = "idle" /\ trades = <<>>
    BY <1>1 DEF MatcherInit
  <1>3. MatcherInv
    BY <1>1, MatcherInitially
  <1>4. IsBook(shadow)
    <2>1. IsMap(shadow) /\ DOMAIN shadow = Side /\ \A side \in Side : shadow[side] = NoLevels
      BY <1>1 DEF IsMap
    <2>2. IsMap(NoLevels)
      BY DEF IsMap, NoLevels
    <2> QED
      BY <2>1, <2>2 DEF IsBook
  <1>5. IdsInv
    BY <1>1, <1>4 DEF IdsInv
  <1>6. CallInv
    BY <1>1, <1>2 DEF CallInv
  <1>7. orderTable = Mirror
    <2>1. Mirror = MirrorOf(active, orders)
      BY <1>1, MirrorNow
    <2> QED
      BY <1>1, <1>2, <2>1 DEF MirrorOf
  <1>8. PlaceInv
    BY <1>1, <1>2, <1>7 DEF PlaceInv, BookIs
  <1> QED
    BY <1>3, <1>5, <1>6, <1>8 DEF ManagerInv

\* Every step of a call keeps it.
LEMMA CallStepKeeps ==
    ASSUME ManagerInv, CallStep
    PROVE  ManagerInv'
  BY MatcherStepKeeps, StpStopKeeps, StpProbeKeeps, ApplyTradeKeeps, SettleRestKeeps,
     SettleDoneKeeps, RestDoneKeeps, UnbuildKeeps, RebuildKeeps, RebuildDoneKeeps,
     RequeueDoneKeeps
  DEF CallStep

\* So does every step of the manager.
LEMMA ManagerNextKeeps ==
    ASSUME ManagerInv, [Next]_vars
    PROVE  ManagerInv'
  <1>1. CASE \E o \in Requests : MatchOrderCall(o) \/ AddOrderCall(o) \/ AmendInPlace(o) \/ AmendRequeue(o)
    <2>1. PICK o \in Requests :
              MatchOrderCall(o) \/ AddOrderCall(o) \/ AmendInPlace(o) \/ AmendRequeue(o)
      BY <1>1
    <2>2. o \in Order
      BY ManagerAssumption
    <2>3. MatchOrderCall(o) \/ AmendInPlace(o) \/ AmendRequeue(o)
      BY <2>1 DEF AddOrderCall
    <2> QED
      BY <2>2, <2>3, MatchOrderCallKeeps, AmendInPlaceKeeps, AmendRequeueKeeps
  <1>2. CASE \E id \in OrderId : CancelOrderCall(id)
    BY <1>2, CancelOrderCallKeeps
  <1>3. CASE RejectedCall \/ UNCHANGED vars
    BY <1>3, ManagerStutters DEF RejectedCall
  <1>4. CASE CallStep
    BY <1>4, CallStepKeeps
  <1> QED
    BY <1>1, <1>2, <1>3, <1>4 DEF Next

\* The invariant holds in every state of the manager and its matcher.
THEOREM ManagerInvariance == Spec => []ManagerInv
  <1>1. Init => ManagerInv
    BY ManagerInitially
  <1>2. ManagerInv /\ [Next]_vars => ManagerInv'
    BY ManagerNextKeeps
  <1> QED
    BY <1>1, <1>2, PTL DEF Spec

\* The shadow queues are the matcher's book whenever the manager decides from them,
\* inside matchWithStp as well as between two calls.
THEOREM ManagerShadowMatchesBook == Spec => []ShadowMatchesBook
  <1>1. ManagerInv => ShadowMatchesBook
    BY SettledBook DEF ShadowMatchesBook
  <1> QED
    BY <1>1, ManagerInvariance, PTL

\* The active ids, their snapshots and statuses say what the matcher holds.
THEOREM ManagerSnapshotsMatchBook == Spec => []SnapshotsMatchBook
  <1>1. ManagerInv => SnapshotsMatchBook
    <2> SUFFICES ASSUME ManagerInv, Settled
                 PROVE  /\ active = DOMAIN orderTable
                        /\ \A id \in active : orderTable[id] = Entry(orders[id])
                        /\ \A id \in DOMAIN orders :
                              id \in active <=> orders[id].status \in {"New", "PartiallyFilled"}
      BY DEF SnapshotsMatchBook, Entry
    <2>1. orderTable = MirrorOf(active, orders) /\ DOMAIN orderTable = active
      BY SettledBook
    <2>2. \A id \in active : orderTable[id] = Entry(orders[id])
      BY <2>1 DEF MirrorOf
    <2>3. \A id \in DOMAIN orders : id \in active <=> orders[id].status \in {"New", "PartiallyFilled"}
      BY DEF ManagerInv, IdsInv
    <2> QED
      BY <2>1, <2>2, <2>3
  <1> QED
    BY <1>1, ManagerInvariance, PTL

\* The matcher is only given ids that are not resting: by a probe, a rest, a
\* replacement and each step of a rebuild.
THEOREM ManagerFreshIdsOnly == Spec => []FreshIdsOnly
  <1>1. ManagerInv => FreshIdsOnly
    BY DEF ManagerInv, MatcherInv, FreshIdsOnly
  <1> QED
    BY <1>1, ManagerInvariance, PTL

\* A probe makes one trade, with the order matchWithStp looked at, for the size of
\* the probe: what applyTrade subtracts never wraps around.
THEOREM ManagerProbeTradesOnce == Spec => []ProbeTradesOnce
  <1>1. ManagerInv => ProbeTradesOnce
    <2> SUFFICES ASSUME ManagerInv, pc = "probe", mpc = "idle"
                 PROVE  /\ Len(trades) = 1 /\ trades[1].resting = Front
                        /\ trades[1].price = StpLevel
                        /\ trades[1].quantity = MinOf(Remaining, orders[trades[1].resting].quantity)
      BY DEF ProbeTradesOnce, Front
    <2>1. trades = <<[incoming |-> order.id, resting |-> Front,
                      price |-> StpLevel, quantity |-> ProbeSize]>>
      BY ProbeTraded
    <2>2. /\ Len(trades) = 1 /\ trades[1].resting = Front /\ trades[1].price = StpLevel
          /\ trades[1].quantity = ProbeSize
      BY <2>1
    <2> QED
      BY <2>2 DEF ProbeSize
  <1> QED
    BY <1>1, ManagerInvariance, PTL

\* matchWithStp never lets an order trade with one of its own non-zero account.
THEOREM ManagerNoSelfTrade == Spec => []NoSelfTrade
  <1>1. ManagerInv => NoSelfTrade
    <2> SUFFICES ASSUME ManagerInv, pc = "probe", NEW i \in 1..Len(trades)
                 PROVE  order.account = 0 \/ orders[trades[i].resting].account # order.account
      BY DEF NoSelfTrade
    <2>1. IdsInv /\ CallInv /\ ProbeInv
      BY DEF ManagerInv, PlaceInv
    <2>2. StpContinues /\ InOrder(shadow, MirrorOf(active, orders))
      BY <2>1, MirrorNow DEF ProbeInv
    <2>3. order.account # 0 => orders[Front].account # order.account
      BY <2>1, <2>2, ProbeFacts
    <2>4. trades # <<>>
      OBVIOUS
    <2>5. trades = <<[incoming |-> order.id, resting |-> Front,
                      price |-> StpLevel, quantity |-> ProbeSize]>>
      BY <2>1, <2>4 DEF ProbeInv
    <2>6. trades[i].resting = Front
      BY <2>5
    <2> QED
      BY <2>3, <2>6
  <1> QED
    BY <1>1, ManagerInvariance, PTL

\* Neither the remainder of a matchOrder nor a cancelReplace ever trades, not even
\* while a level is being rebuilt.
THEOREM ManagerAddNeverTrades == Spec => []AddNeverTrades
  <1>1. ManagerInv => AddNeverTrades
    BY DEF ManagerInv, CallInv, AddNeverTrades
  <1> QED
    BY <1>1, ManagerInvariance, PTL

-----------------------------------------------------------------------------
\* What a step may do to the copies of orders that are not active.
FinalStays ==
    \A id \in DOMAIN orders : id \notin active => orders'[id] = orders[id] /\ id \notin active'

\* An entry of orders_ is assigned.
LEMMA RecordElsewhere ==
    ASSUME NEW i, NEW snapshot, NEW id \in DOMAIN orders, id # i
    PROVE  Record(i, snapshot)[id] = orders[id]
  BY DEF Record

\* Steps that write no snapshot and activate no order.
LEMMA NothingRecorded ==
    ASSUME orders' = orders, active' = active
    PROVE  FinalStays
  BY DEF FinalStays

\* A new order is recorded when its call ends; its id had no snapshot before.
LEMMA NewIsRecorded ==
    ASSUME ManagerInv, SettleDone \/ RestDone \/ RequeueDone
    PROVE  FinalStays
  <1> SUFFICES ASSUME NEW id \in DOMAIN orders, id \notin active
               PROVE  orders'[id] = orders[id] /\ id \notin active'
    BY DEF FinalStays
  <1>1. pc \in {"settle", "rest", "requeue"}
    BY DEF SettleDone, RestDone, RequeueDone
  <1>2. order.id \notin DOMAIN orders \/ order.id \in active
    BY <1>1 DEF ManagerInv, CallInv
  <1>3. id # order.id
    BY <1>2
  <1>4. active' = active \/ active' = active \cup {order.id}
    BY DEF SettleDone, RestDone, RequeueDone
  <1>5. PICK snapshot : orders' = Record(order.id, snapshot)
    BY DEF SettleDone, RestDone, RequeueDone
  <1>6. orders'[id] = orders[id]
    BY <1>3, <1>5, RecordElsewhere
  <1> QED
    BY <1>3, <1>4, <1>6

\* A trade changes the snapshot of the order it fills, which is active.
LEMMA TradeIsRecorded ==
    ASSUME ManagerInv, ApplyTrade
    PROVE  FinalStays
  <1> SUFFICES ASSUME NEW id \in DOMAIN orders, id \notin active
               PROVE  orders'[id] = orders[id] /\ id \notin active'
    BY DEF FinalStays
  <1>1. pc = "probe" /\ mpc = "idle"
    BY DEF ApplyTrade
  <1>2. /\ trades = <<[incoming |-> order.id, resting |-> Front,
                       price |-> StpLevel, quantity |-> ProbeSize]>>
        /\ InOrder(shadow, MirrorOf(active, orders)) /\ StpContinues
    BY <1>1, ProbeTraded
  <1>3. Front \in active
    BY <1>1, <1>2, ProbeFacts DEF ManagerInv
  <1>4. trades # <<>> /\ Head(trades).resting = Front
    BY <1>2
  <1>5. active' = active \/ active' = active \ {Front}
    BY <1>4 DEF ApplyTrade
  <1>6. \/ orders' = orders
        \/ orders' = [orders EXCEPT ![Front].quantity = 0, ![Front].status = "Filled"]
        \/ \E left : orders' = [orders EXCEPT ![Front].quantity = left,
                                              ![Front].status = "PartiallyFilled"]
    BY <1>4, Zenon DEF ApplyTrade
  <1>7. id # Front
    BY <1>3
  <1>8. orders'[id] = orders[id]
    BY <1>6, <1>7, Zenon
  <1> QED
    BY <1>5, <1>8

\* Only active orders are cancelled and replaced.
LEMMA ChangeIsRecorded ==
    ASSUME NEW i, CancelOrderCall(i) \/ (\E o : i = o.id /\ AmendInPlace(o))
    PROVE  FinalStays
  <1> SUFFICES ASSUME NEW id \in DOMAIN orders, id \notin active
               PROVE  orders'[id] = orders[id] /\ id \notin active'
    BY DEF FinalStays
  <1>1. i \in active
    BY Zenon DEF CancelOrderCall, AmendInPlace, ReplaceAccepted
  <1>2. active' = active \/ active' = active \ {i}
    BY Zenon DEF CancelOrderCall, AmendInPlace
  <1>3. \/ orders' = [orders EXCEPT ![i].status = "Cancelled"]
        \/ \E snapshot : orders' = [orders EXCEPT ![i] = snapshot]
    BY Zenon DEF CancelOrderCall, AmendInPlace
  <1>4. orders'[id] = orders[id]
    BY <1>1, <1>3
  <1> QED
    BY <1>2, <1>4

\* So no step changes an order that is not active.
LEMMA StepKeepsFinal ==
    ASSUME ManagerInv, Next
    PROVE  FinalStays
  <1>1. CASE \E o \in Requests : MatchOrderCall(o) \/ AddOrderCall(o) \/ AmendRequeue(o)
    BY <1>1, NothingRecorded DEF MatchOrderCall, AddOrderCall, AmendRequeue
  <1>2. CASE \E o \in Requests : AmendInPlace(o)
    BY <1>2, ChangeIsRecorded
  <1>3. CASE \E id \in OrderId : CancelOrderCall(id)
    BY <1>3, ChangeIsRecorded
  <1>4. CASE RejectedCall \/ MatcherStep
    BY <1>4, NothingRecorded DEF RejectedCall, MatcherStep, vars, managerVars
  <1>5. CASE StpStop \/ StpProbe \/ SettleRest \/ Unbuild \/ Rebuild \/ RebuildDone
    BY <1>5, NothingRecorded, Zenon DEF StpStop, StpProbe, SettleRest, Unbuild, Rebuild, RebuildDone
  <1>6. CASE ApplyTrade
    BY <1>6, TradeIsRecorded
  <1>7. CASE SettleDone \/ RestDone \/ RequeueDone
    BY <1>7, NewIsRecorded
  <1> QED
    BY <1>1, <1>2, <1>3, <1>4, <1>5, <1>6, <1>7 DEF Next, CallStep

\* A Filled or Cancelled order stays as it is and never rests again, whatever
\* calls follow.
THEOREM ManagerTerminalIsFinal == Spec => TerminalIsFinal
  <1>1. ManagerInv /\ [Next]_vars =>
            [\A id \in DOMAIN orders :
                orders[id].status \in {"Filled", "Cancelled"} =>
                    orders'[id] = orders[id] /\ id \notin active']_vars
    <2> SUFFICES ASSUME ManagerInv, Next, NEW id \in DOMAIN orders,
                        orders[id].status \in {"Filled", "Cancelled"}
                 PROVE  orders'[id] = orders[id] /\ id \notin active'
      OBVIOUS
    <2>1. id \notin active
      BY DEF ManagerInv, IdsInv
    <2> QED
      BY <2>1, StepKeepsFinal DEF FinalStays
  <1> QED
    BY <1>1, ManagerInvariance, PTL DEF Spec, TerminalIsFinal
=============================================================================
