---------------------- MODULE PriceTimeRefinementProofs ----------------------
(***************************************************************************)
(* Every step of the order manager and its matcher is a step of the        *)
(* price-time-priority book or leaves it as it is.                         *)
(***************************************************************************)
EXTENDS PriceTimeRefinement, OrderManagerProofs

Lots(ids, snapshots) == [id \in ids |-> LotOf(snapshots[id])]

\* What the refinement needs beyond the invariant of the manager: a call that is
\* not a matchOrder has no trades, once the loop of matchWithStp has ended it would
\* not go on, and what comes to rest may rest.
RunInv ==
    /\ ~Matching => allTrades = <<>>
    /\ pc = "settle" => ~StpContinues
    /\ pc = "rest" => MayRest(order)

\* The promised book while no order is being requeued, before and after a step.
LEMMA PromisedBook ==
    /\ pc # "requeue" => /\ PromisedQueue = Queues(shadow)
                         /\ PromisedOpen = Lots(active, orders)
    /\ pc' # "requeue" => /\ PromisedQueue' = Queues(shadow')
                          /\ PromisedOpen' = Lots(active', orders')
  BY DEF PromisedQueue, PromisedOpen, Lots

\* The promised taker, before and after a step.
LEMMA PromisedTakers ==
    /\ Matching => PromisedTaker = TakerOf(order, Remaining)
    /\ ~Matching => PromisedTaker = NoOrder
    /\ Matching' => PromisedTaker' = TakerOf(order', Remaining')
    /\ ~Matching' => PromisedTaker' = NoOrder
  BY DEF PromisedTaker

\* A taker is not the absence of one.
LEMMA TakerIsOne ==
    ASSUME ManagerInv, Matching
    PROVE  /\ PromisedTaker # NoOrder
           /\ PromisedTaker.id = order.id
           /\ PromisedTaker.side = order.side
           /\ PromisedTaker.limit = PriceToMatch(order)
           /\ PromisedTaker.quantity = Remaining
           /\ PromisedTaker.account = order.account
           /\ PromisedTaker.rests = MayRest(order)
  <1>1. PromisedTaker = TakerOf(order, Remaining)
    BY PromisedTakers
  <1>2. TakerOf(order, Remaining) \in Taker
    <2>1. /\ order.id \in OrderId /\ order.side \in Side /\ order.account \in AccountId
          /\ Remaining \in Quantity /\ PriceToMatch(order) \in Price
      BY RemainingFacts DEF ManagerInv, Matching
    <2>2. MayRest(order) \in BOOLEAN
      BY DEF MayRest
    <2> QED
      BY <2>1, <2>2 DEF TakerOf, Taker
  <1>3. PromisedTaker # NoOrder
    BY <1>1, <1>2, NoTakerAssumption
  <1> QED
    BY <1>1, <1>3 DEF TakerOf

-----------------------------------------------------------------------------
\* Both books are made of the same containers.
LEMMA SameSets == Promise!Side = Side /\ Promise!Prices = Price /\ Promise!Quantities = 1..MaxQuantity
  BY DEF Promise!Side, Side, Promise!Prices, Price, Promise!Quantities

\* Sides and prices compare in the same way.
LEMMA SameOrder ==
    ASSUME NEW x, NEW y, NEW z
    PROVE  /\ Promise!Opposite(x) = Opposite(x)
           /\ Promise!Reaches(x, y, z) <=> Reaches(x, y, z)
           /\ Promise!MinOf(x, y) = MinOf(x, y)
           /\ Promise!Max(x) = Max(x) /\ Promise!Min(x) = Min(x)
  <1>1. Promise!Opposite(x) = Opposite(x) /\ Promise!MinOf(x, y) = MinOf(x, y)
    BY DEF Promise!Opposite, Opposite, Promise!MinOf, MinOf
  <1>2. Promise!Reaches(x, y, z) <=> Reaches(x, y, z)
    BY DEF Promise!Reaches, Reaches
  <1>3. Promise!Max(x) = Max(x) /\ Promise!Min(x) = Min(x)
    BY Zenon DEF Promise!Max, Max, Promise!Min, Min
  <1> QED
    BY <1>1, <1>2, <1>3

\* Orders are found, erased and dropped in the same way.
LEMMA SameErasing ==
    ASSUME NEW f, NEW x
    PROVE  /\ Promise!Range(f) = Range(f)
           /\ Promise!Restrict(f, x) = Restrict(f, x)
           /\ Promise!EraseAt(f, x) = EraseAt(f, x)
           /\ Promise!PositionOf(f, x) = PositionOf(f, x)
  <1>1. Promise!Range(f) = Range(f) /\ Promise!Restrict(f, x) = Restrict(f, x)
    BY Zenon DEF Promise!Range, Range, Promise!Restrict, Restrict
  <1>2. Promise!EraseAt(f, x) = EraseAt(f, x) /\ Promise!PositionOf(f, x) = PositionOf(f, x)
    BY Zenon DEF Promise!EraseAt, EraseAt, Promise!PositionOf, PositionOf
  <1> QED
    BY <1>1, <1>2

-----------------------------------------------------------------------------
(***************************************************************************)
(* Levels and queues.                                                      *)
(***************************************************************************)
\* Putting an order at the back of its level puts it at the back of its queue.
LEMMA QueuesTracked ==
    ASSUME NEW b, DOMAIN b = Side, NEW s \in Side, NEW p \in Price, NEW id
    PROVE  Queues(TrackResting(b, id, s, p)) = Promise!Queued(Queues(b), id, s, p)
  <1> DEFINE new  == Queues(TrackResting(b, id, s, p))
             want == Promise!Queued(Queues(b), id, s, p)
  <1>1. /\ DOMAIN TrackResting(b, id, s, p) = Side
        /\ TrackResting(b, id, s, p)[s] = PushBack(b[s], p, id)
        /\ \A side \in Side \ {s} : TrackResting(b, id, s, p)[side] = b[side]
    BY DEF TrackResting
  <1>2. \A side \in Side, q \in Price : new[side][q] = want[side][q]
    <2> SUFFICES ASSUME NEW side \in Side, NEW q \in Price
                 PROVE  new[side][q] = want[side][q]
      OBVIOUS
    <2>1. new[side][q] = IF q \in DOMAIN TrackResting(b, id, s, p)[side]
                         THEN TrackResting(b, id, s, p)[side][q] ELSE <<>>
      BY DEF Queues
    <2>2. want[side][q] = IF side = s /\ q = p THEN Append(Queues(b)[side][q], id)
                          ELSE Queues(b)[side][q]
      BY DEF Promise!Queued, Queues
    <2>3. Queues(b)[side][q] = IF q \in DOMAIN b[side] THEN b[side][q] ELSE <<>>
      BY DEF Queues
    <2>4. CASE side # s
      BY <1>1, <2>1, <2>2, <2>3, <2>4
    <2>5. CASE side = s
      <3>1. q \in DOMAIN PushBack(b[s], p, id) <=> q \in DOMAIN b[s] \/ q = p
        BY DEF PushBack
      <3>2. q # p /\ q \in DOMAIN b[s] => PushBack(b[s], p, id)[q] = b[s][q]
        BY DEF PushBack
      <3>3. PushBack(b[s], p, id)[p] = IF p \in DOMAIN b[s] THEN Append(b[s][p], id) ELSE <<id>>
        BY DEF PushBack
      <3>4. Append(<<>>, id) = <<id>>
        OBVIOUS
      <3> QED
        BY <1>1, <2>1, <2>2, <2>3, <2>5, <3>1, <3>2, <3>3, <3>4, Zenon
    <2> QED
      BY <2>4, <2>5
  <1>3. /\ new = [side \in Side |-> [q \in Price |-> new[side][q]]]
        /\ want = [side \in Side |-> [q \in Price |-> want[side][q]]]
    BY Zenon DEF Queues, Promise!Queued
  <1> QED
    BY <1>2, <1>3

\* An order of a book in order is in the queue of its own level and in no other.
LEMMA InOneQueue ==
    ASSUME NEW b, NEW t, InOrder(b, t), NEW id \in DOMAIN t, NEW side \in Side, NEW q \in Price
    PROVE  id \in Range(Queues(b)[side][q]) <=> side = t[id].side /\ q = t[id].price
  <1>1. Queues(b)[side][q] = IF q \in DOMAIN b[side] THEN b[side][q] ELSE <<>>
    BY DEF Queues
  <1>2. CASE q \notin DOMAIN b[side]
    <2>1. id \notin Range(Queues(b)[side][q])
      <3>1. Range(<<>>) = {}
        BY DEF Range
      <3> QED
        BY <1>1, <1>2, <3>1
    <2>2. ~(side = t[id].side /\ q = t[id].price)
      BY <1>2, EntryInOrder
    <2> QED
      BY <2>1, <2>2
  <1>3. CASE q \in DOMAIN b[side]
    <2>1. b[side][q] \in Seq(OrderId) /\ GoodLevel(b[side][q], t, side, q)
      BY <1>3, LevelInOrder
    <2>2. id \in Range(b[side][q]) <=> Holds(b[side][q], id)
      BY <2>1 DEF Range, Holds
    <2>3. Holds(b[side][q], id) => side = t[id].side /\ q = t[id].price
      BY <2>1 DEF Holds, GoodLevel
    <2>4. Holds(b[t[id].side][t[id].price], id)
      BY EntryInOrder
    <2> QED
      BY <1>1, <1>3, <2>2, <2>3, <2>4
  <1> QED
    BY <1>2, <1>3

\* Untracking an order takes it out of its queue.
LEMMA QueuesUntracked ==
    ASSUME NEW b, NEW t, InOrder(b, t), NEW id \in DOMAIN t
    PROVE  /\ Queues(UntrackResting(b, id)) = Promise!Removed(Queues(b), id)
           /\ DOMAIN UntrackResting(b, id) = Side
  <1> DEFINE s      == t[id].side
             p      == t[id].price
             levels == EraseOrder(b[s], p, id)
             new    == Queues(UntrackResting(b, id))
             want   == Promise!Removed(Queues(b), id)
             rest   == EraseAt(b[s][p], PositionOf(b[s][p], id))
  <1>1. DOMAIN b = Side /\ s \in Side /\ p \in DOMAIN b[s] /\ p \in Price
    BY EntryInOrder DEF InOrder, TypedBook
  <1>2. UntrackResting(b, id) = [b EXCEPT ![s] = levels]
    BY UntrackFinds
  <1>3. /\ DOMAIN UntrackResting(b, id) = Side
        /\ UntrackResting(b, id)[s] = levels
        /\ \A side \in Side \ {s} : UntrackResting(b, id)[side] = b[side]
    BY <1>1, <1>2
  <1>4. \A side \in Side, q \in Price : new[side][q] = want[side][q]
    <2> SUFFICES ASSUME NEW side \in Side, NEW q \in Price
                 PROVE  new[side][q] = want[side][q]
      OBVIOUS
    <2>1. new[side][q] = IF q \in DOMAIN UntrackResting(b, id)[side]
                         THEN UntrackResting(b, id)[side][q] ELSE <<>>
      BY DEF Queues
    <2>2. want[side][q] = Promise!Without(Queues(b)[side][q], id)
      BY SameSets DEF Promise!Removed
    <2>3. Queues(b)[side][q] = IF q \in DOMAIN b[side] THEN b[side][q] ELSE <<>>
      BY DEF Queues
    <2>4. id \in Range(Queues(b)[side][q]) <=> side = s /\ q = p
      BY InOneQueue
    <2>5. want[side][q] = IF side = s /\ q = p THEN rest ELSE Queues(b)[side][q]
      BY <1>1, <2>2, <2>3, <2>4, SameErasing DEF Promise!Without
    <2>6. CASE side # s
      BY <1>3, <2>1, <2>3, <2>5, <2>6
    <2>7. CASE side = s
      <3>1. /\ DOMAIN levels = IF rest = <<>> THEN DOMAIN b[s] \ {p} ELSE DOMAIN b[s]
            /\ rest # <<>> => levels[p] = rest
            /\ \A r \in DOMAIN b[s] \ {p} : levels[r] = b[s][r]
        BY <1>1 DEF EraseOrder, EraseLevel, Restrict
      <3> HIDE DEF levels, rest
      <3>2. CASE q = p
        BY <1>1, <1>3, <2>1, <2>5, <2>7, <3>1, <3>2
      <3>3. CASE q # p
        BY <1>3, <2>1, <2>3, <2>5, <2>7, <3>1, <3>3
      <3> QED
        BY <3>2, <3>3
    <2> QED
      BY <2>6, <2>7
  <1>5. /\ new = [side \in Side |-> [q \in Price |-> new[side][q]]]
        /\ want = [side \in Side |-> [q \in Price |-> want[side][q]]]
    BY SameSets DEF Queues, Promise!Removed
  <1> QED
    BY <1>3, <1>4, <1>5

\* The shadow queues have no empty level: on either side, but for the side an order
\* is just coming to rest on.
LEMMA ShadowLevels ==
    ASSUME ManagerInv, pc # "requeue", NEW s \in Side, pc = "rest" => s = Opposite(order.side)
    PROVE  DOMAIN shadow[s] \subseteq Price /\ \A p \in DOMAIN shadow[s] : shadow[s][p] # <<>>
  <1>1. ASSUME NEW b, NEW t, InOrder(b, t), shadow[s] = b[s]
        PROVE  DOMAIN shadow[s] \subseteq Price /\ \A p \in DOMAIN shadow[s] : shadow[s][p] # <<>>
    BY <1>1 DEF InOrder, TypedBook, GoodLevel
  <1>2. CASE Settled
    BY <1>1, <1>2, SettledBook
  <1>3. CASE pc \in {"probe", "unbuild", "rebuild"}
    BY <1>1, <1>3 DEF ManagerInv, PlaceInv, ProbeInv
  <1>4. CASE pc = "rest"
    <2>1. InOrder(book, orderTable)
      BY MatcherInOrder DEF ManagerInv
    <2>2. mpc \in {"idle", "cross"}
      BY DEF ManagerInv, MatcherInv, MatcherTypeOK
    <2>3. RestInv /\ IsBook(shadow) /\ order \in Order
      BY <1>4 DEF ManagerInv, PlaceInv, IdsInv, CallInv
    <2>4. s # order.side
      BY <1>4, <2>3, OppositeFacts DEF Order
    <2>5. book = shadow \/ book = TrackResting(shadow, order.id, order.side, order.price)
      BY <2>2, <2>3 DEF RestInv, BookIs
    <2>6. book[s] = shadow[s]
      BY <2>3, <2>4, <2>5 DEF TrackResting, IsBook
    <2> QED
      BY <1>1, <2>1, <2>6
  <1> QED
    BY <1>2, <1>3, <1>4 DEF ManagerInv, CallInv, Settled

\* The promised best price is that of the shadow queues, and so is the answer to
\* whether an order of the other side crosses.
LEMMA PromisedBest ==
    ASSUME ManagerInv, pc # "requeue", NEW s \in Side, pc = "rest" => s = Opposite(order.side)
    PROVE  /\ Promise!Occupied(s) = DOMAIN shadow[s]
           /\ Promise!BestOf(s) = Best(s, shadow[s])
           /\ DOMAIN shadow[s] # {} => Best(s, shadow[s]) \in DOMAIN shadow[s]
           /\ DOMAIN shadow[s] # {} => Promise!Next1(s) = Head(shadow[s][Best(s, shadow[s])])
  <1>1. DOMAIN shadow[s] \subseteq Price /\ \A p \in DOMAIN shadow[s] : shadow[s][p] # <<>>
    BY ShadowLevels
  <1>2. \A p \in Price : PromisedQueue[s][p] = IF p \in DOMAIN shadow[s] THEN shadow[s][p] ELSE <<>>
    BY PromisedBook DEF Queues
  <1>3. Promise!Occupied(s) = DOMAIN shadow[s]
    BY <1>1, <1>2 DEF Promise!Occupied, Promise!Prices, Price
  <1>4. Promise!BestOf(s) = Best(s, shadow[s])
    BY <1>3, SameOrder DEF Promise!BestOf, Best
  <1>5. DOMAIN shadow[s] # {} => Best(s, shadow[s]) \in DOMAIN shadow[s]
    BY <1>1, BestFacts, MatcherAssumption DEF Price
  <1>6. DOMAIN shadow[s] # {} => Promise!Next1(s) = Head(shadow[s][Best(s, shadow[s])])
    BY <1>1, <1>2, <1>4, <1>5 DEF Promise!Next1
  <1> QED
    BY <1>3, <1>4, <1>5, <1>6

\* So an order crosses the promised book when wouldCross() says so.
LEMMA PromisedCrosses ==
    ASSUME ManagerInv, pc # "requeue", NEW s \in Side, pc = "rest" => s = order.side, NEW limit
    PROVE  Promise!Crosses(s, limit)
           <=> /\ DOMAIN shadow[Opposite(s)] # {}
               /\ Reaches(s, limit, Best(Opposite(s), shadow[Opposite(s)]))
  <1>1. Opposite(s) \in Side
    BY OppositeFacts
  <1>2. /\ Promise!Occupied(Opposite(s)) = DOMAIN shadow[Opposite(s)]
        /\ Promise!BestOf(Opposite(s)) = Best(Opposite(s), shadow[Opposite(s)])
    BY <1>1, PromisedBest
  <1> QED
    BY <1>2, SameOrder DEF Promise!Crosses
\* The front order of the side a running matchOrder looks at is a resting one.
LEMMA FrontIsOpen ==
    ASSUME ManagerInv, pc \in {"stp", "probe", "settle"}, DOMAIN shadow[StpSide] # {}
    PROVE  /\ Front \in active
           /\ Promise!Next1(Promise!Opposite(order.side)) = Front
           /\ Promise!BestOf(Promise!Opposite(order.side)) = StpLevel
           /\ PromisedOpen[Front] = LotOf(orders[Front])
  <1>1. order.side \in Side /\ StpSide \in Side /\ pc # "requeue" /\ pc # "rest"
    BY RemainingFacts, OppositeFacts DEF StpSide, ManagerInv
  <1>2. InOrder(shadow, MirrorOf(active, orders))
    <2>1. CASE pc = "probe"
      BY <2>1, MirrorNow DEF ManagerInv, PlaceInv, ProbeInv
    <2>2. CASE pc # "probe"
      BY <2>2, SettledBook DEF Settled
    <2> QED
      BY <2>1, <2>2
  <1>3. Front \in active
    BY <1>1, <1>2, FrontInOrder DEF Front, StpLevel, BestOf, FrontOf, MirrorOf
  <1>4. Promise!Opposite(order.side) = StpSide
    BY SameOrder DEF StpSide
  <1>5. Promise!Next1(StpSide) = Front /\ Promise!BestOf(StpSide) = StpLevel
    BY <1>1, PromisedBest DEF Front, StpLevel
  <1> QED
    BY <1>1, <1>3, <1>4, <1>5, PromisedBook DEF Lots

\* The promised taker can trade exactly when the loop of matchWithStp goes on.
LEMMA CanFillIsContinues ==
    ASSUME ManagerInv, pc \in {"stp", "probe", "settle"}
    PROVE  Promise!CanFill <=> StpContinues
  <1>1. /\ order.side \in Side /\ Remaining \in Quantity /\ StpSide \in Side
        /\ pc # "requeue" /\ pc # "rest" /\ Matching
    BY RemainingFacts, OppositeFacts DEF StpSide, ManagerInv, Matching
  <1>2. Promise!Crosses(order.side, PriceToMatch(order))
        <=> DOMAIN shadow[StpSide] # {} /\ Reaches(order.side, PriceToMatch(order), StpLevel)
    BY <1>1, PromisedCrosses DEF StpSide, StpLevel
  <1>3. DOMAIN shadow[StpSide] # {} =>
           /\ shadow[StpSide][StpLevel] # <<>>
           /\ PromisedOpen[Promise!Next1(Promise!Opposite(order.side))].account
              = orders[Head(shadow[StpSide][StpLevel])].account
    <2> SUFFICES ASSUME DOMAIN shadow[StpSide] # {}
                 PROVE  /\ shadow[StpSide][StpLevel] # <<>>
                        /\ PromisedOpen[Promise!Next1(Promise!Opposite(order.side))].account
                           = orders[Head(shadow[StpSide][StpLevel])].account
      OBVIOUS
    <2>1. shadow[StpSide][StpLevel] # <<>>
      BY <1>1, ShadowLevels, PromisedBest DEF StpLevel
    <2> QED
      BY <2>1, FrontIsOpen DEF LotOf, Front
  <1>4. /\ PromisedTaker.side = order.side /\ PromisedTaker.limit = PriceToMatch(order)
        /\ PromisedTaker.quantity = Remaining /\ PromisedTaker.account = order.account
    BY <1>1, TakerIsOne
  <1> QED
    BY <1>2, <1>3, <1>4 DEF Promise!CanFill, StpContinues

-----------------------------------------------------------------------------
(***************************************************************************)
(* The steps.                                                              *)
(***************************************************************************)
\* A step that changes neither the queues nor the lots nor the taker.
LEMMA BookStutters ==
    ASSUME pc # "requeue", pc' # "requeue", shadow' = shadow, active' = active,
           \A id \in active : LotOf(orders'[id]) = LotOf(orders[id]),
           PromisedTaker' = PromisedTaker, allTrades' = allTrades
    PROVE  UNCHANGED Promise!bookVars
  <1>1. Lots(active', orders') = Lots(active, orders)
    BY DEF Lots
  <1> QED
    BY <1>1, PromisedBook DEF Promise!bookVars

\* The steps of the matcher and those of the manager between two trades.
LEMMA InnerStutters ==
    ASSUME ManagerInv, MatcherStep \/ StpStop \/ StpProbe \/ SettleRest \/ Unbuild \/ Rebuild
    PROVE  UNCHANGED Promise!bookVars
  <1>1. CASE MatcherStep
    <2>1. UNCHANGED managerVars
      BY <1>1 DEF MatcherStep
    <2>2. /\ shadow' = shadow /\ active' = active /\ orders' = orders /\ pc' = pc
          /\ order' = order /\ filled' = filled /\ allTrades' = allTrades
      BY <2>1 DEF managerVars
    <2>3. PromisedQueue' = PromisedQueue /\ PromisedOpen' = PromisedOpen
      BY <2>2 DEF PromisedQueue, PromisedOpen
    <2>4. PromisedTaker' = PromisedTaker
      BY <2>2 DEF PromisedTaker, Matching, Remaining
    <2> QED
      BY <2>2, <2>3, <2>4 DEF Promise!bookVars
  <1>2. CASE StpStop \/ StpProbe \/ SettleRest
    <2>1. /\ pc \in {"stp", "settle"} /\ pc' \in {"stp", "probe", "settle", "rest"}
          /\ active' = active /\ orders' = orders
          /\ order' = order /\ filled' = filled /\ allTrades' = allTrades
      BY <1>2 DEF StpStop, StpProbe, SettleRest
    <2>2. shadow' = shadow
      <3>1. CASE StpProbe
        <4>1. pc = "stp" /\ StpContinues
          BY <3>1 DEF StpProbe
        <4>2. shadow[StpSide][StpLevel] # <<>>
          BY <4>1, SettledBook, ProbeFacts DEF ManagerInv, Settled
        <4> QED
          BY <3>1, <4>2 DEF StpProbe
      <3>2. CASE StpStop \/ SettleRest
        BY <3>2 DEF StpStop, SettleRest
      <3> QED
        BY <1>2, <3>1, <3>2
    <2>3. Matching /\ Matching'
      BY <2>1 DEF Matching
    <2>4. Remaining' = Remaining
      BY <2>1 DEF Remaining
    <2>5. PromisedTaker' = PromisedTaker
      BY <2>1, <2>3, <2>4, PromisedTakers
    <2> QED
      BY <2>1, <2>2, <2>5, BookStutters
  <1>3. CASE Unbuild \/ Rebuild
    <2>1. /\ pc \in {"unbuild", "rebuild"} /\ pc' \in {"unbuild", "rebuild"}
          /\ shadow' = shadow /\ active' = active /\ orders' = orders /\ allTrades' = allTrades
      BY <1>3 DEF Unbuild, Rebuild
    <2>2. PromisedTaker' = PromisedTaker
      BY <2>1, PromisedTakers DEF Matching
    <2> QED
      BY <2>1, <2>2, BookStutters
  <1> QED
    BY <1>1, <1>2, <1>3

\* The end of a replacement: the order is where the promised book has it already.
LEMMA ReplacedStutters ==
    ASSUME ManagerInv, RunInv, RebuildDone \/ RequeueDone
    PROVE  UNCHANGED Promise!bookVars
  <1>1. /\ pc \in {"rebuild", "requeue"} /\ pc' = "idle" /\ allTrades' = <<>>
    BY DEF RebuildDone, RequeueDone, Return
  <1>2. allTrades' = allTrades
    BY <1>1 DEF RunInv, Matching
  <1>3. PromisedTaker' = PromisedTaker
    BY <1>1, PromisedTakers DEF Matching
  <1>4. CASE RebuildDone
    BY <1>1, <1>2, <1>3, <1>4, BookStutters DEF RebuildDone
  <1>5. CASE RequeueDone
    <2>1. /\ pc = "requeue" /\ active' = active \cup {order.id}
          /\ shadow' = TrackResting(shadow, order.id, order.side, order.price)
          /\ orders' = Record(order.id, SnapshotOf(order, order.quantity, "New"))
      BY <1>5 DEF RequeueDone
    <2>2. order.id \in active /\ active \subseteq DOMAIN orders
      BY <2>1 DEF ManagerInv, CallInv, IdsInv
    <2>3. PromisedQueue' = PromisedQueue
      BY <1>1, <2>1, PromisedBook DEF PromisedQueue
    <2>4. active' = active
      BY <2>1, <2>2
    <2>5. LotOf(orders'[order.id]) = LotOf(order)
      BY <2>1 DEF Record, SnapshotOf, LotOf
    <2>6. \A id \in active : id # order.id => orders'[id] = orders[id]
      BY <2>1, <2>2, RecordElsewhere
    <2>7. PromisedOpen' = PromisedOpen
      BY <1>1, <2>1, <2>4, <2>5, <2>6, PromisedBook DEF PromisedOpen, Lots
    <2> QED
      BY <1>2, <1>3, <2>3, <2>7 DEF Promise!bookVars
  <1> QED
    BY <1>4, <1>5
\* matchOrder() takes an order: the promised book accepts it.
LEMMA CallAccepts ==
    ASSUME ManagerInv, RunInv, NEW o \in Order, MatchOrderCall(o)
    PROVE  Promise!Accept
  <1>1. /\ pc = "idle" /\ pc' = "stp" /\ order' = o /\ filled' = 0 /\ allTrades' = <<>>
        /\ o.id \notin known /\ o.quantity # 0
        /\ shadow' = shadow /\ active' = active /\ orders' = orders
    BY DEF MatchOrderCall, ValidateNewOrder
  <1>2. /\ o.id \in OrderId /\ o.side \in Side /\ o.account \in AccountId
        /\ o.quantity \in Quantity /\ o.price \in Price
    BY DEF Order
  <1>3. PromisedTaker = NoOrder
    BY <1>1, PromisedTakers DEF Matching
  <1>4. PromisedTaker' = TakerOf(o, o.quantity)
    <2>1. Minus(o.quantity, 0) = o.quantity
      BY <1>2, MatcherAssumption DEF Minus, Quantity
    <2>2. Remaining' = o.quantity
      BY <1>1, <2>1 DEF Remaining
    <2> QED
      BY <1>1, <2>2, PromisedTakers DEF Matching
  <1>5. /\ PromisedQueue' = PromisedQueue /\ PromisedOpen' = PromisedOpen
        /\ DOMAIN PromisedOpen = active
    BY <1>1, PromisedBook DEF Lots
  <1>6. allTrades' = allTrades
    BY <1>1 DEF RunInv, Matching
  <1>7. TakerOf(o, o.quantity) \in [id : OrderId \ active, side : Side, limit : Price,
                                    quantity : 1..MaxQuantity, account : AccountId, rests : BOOLEAN]
    <2>1. o.id \in OrderId \ active
      BY <1>1, <1>2 DEF ManagerInv, IdsInv
    <2>2. PriceToMatch(o) \in Price
      BY <1>2, MatcherAssumption DEF PriceToMatch, Price
    <2>3. o.quantity \in 1..MaxQuantity
      BY <1>1, <1>2, MatcherAssumption DEF Quantity
    <2>4. MayRest(o) \in BOOLEAN
      BY DEF MayRest
    <2> QED
      BY <1>2, <2>1, <2>2, <2>3, <2>4 DEF TakerOf
  <1> QED
    BY <1>3, <1>4, <1>5, <1>6, <1>7, SameSets DEF Promise!Accept

\* Applying the trade of a probe is the fill the promise asks for: with the order
\* that has priority, at its price and as large as the smaller of the two.
LEMMA TradeFills ==
    ASSUME ManagerInv, ApplyTrade
    PROVE  Promise!Fill
  <1> DEFINE lot   == PromisedOpen[Front]
             left  == Minus(orders[Front].quantity, ProbeSize)
             trade == [incoming |-> order.id, resting |-> Front,
                       price |-> StpLevel, quantity |-> ProbeSize]
  <1>1. /\ pc = "probe" /\ mpc = "idle" /\ order' = order /\ IdsInv /\ CallInv /\ Matching
    BY DEF ApplyTrade, ManagerInv, Matching
  <1>2. trades = <<trade>> /\ InOrder(shadow, MirrorOf(active, orders)) /\ StpContinues
    BY <1>1, ProbeTraded
  <1>3. /\ Front \in active /\ Front \in DOMAIN orders
        /\ orders[Front].quantity \in Quantity /\ ProbeSize \in Quantity
        /\ ProbeSize <= Remaining /\ ProbeSize <= orders[Front].quantity
    BY <1>1, <1>2, ProbeFacts
  <1>4. left = orders[Front].quantity - ProbeSize /\ (left = 0 <=> ProbeSize = orders[Front].quantity)
    BY <1>3, MatcherAssumption DEF Minus, Quantity
  <1>5. /\ Head(trades) = trade /\ trades # <<>> /\ Tail(trades) = <<>>
    BY <1>2
  <1>6. trade.resting = Front /\ trade.quantity = ProbeSize
    OBVIOUS
  <1> HIDE DEF trade
  <1>7. /\ pc' = "stp" /\ filled' = filled + ProbeSize /\ allTrades' = Append(allTrades, trade)
        /\ left = 0 =>
              /\ orders' = [orders EXCEPT ![Front].quantity = 0, ![Front].status = "Filled"]
              /\ active' = active \ {Front}
              /\ shadow' = UntrackResting(shadow, Front)
        /\ left # 0 =>
              /\ orders' = [orders EXCEPT ![Front].quantity = left,
                                          ![Front].status = "PartiallyFilled"]
              /\ shadow' = shadow /\ active' = active
    BY <1>3, <1>5, <1>6, Zenon DEF ApplyTrade
  <1>8. /\ Promise!Next1(Promise!Opposite(order.side)) = Front
        /\ Promise!BestOf(Promise!Opposite(order.side)) = StpLevel
        /\ lot = LotOf(orders[Front])
    BY <1>1, <1>2, FrontIsOpen DEF StpContinues
  <1>9. lot.quantity = orders[Front].quantity /\ Promise!MinOf(Remaining, lot.quantity) = ProbeSize
    <2>1. lot.quantity = orders[Front].quantity
      BY <1>8 DEF LotOf
    <2> QED
      BY <2>1, SameOrder, Zenon DEF ProbeSize
  <1>10. Promise!CanFill
    BY <1>1, <1>2, CanFillIsContinues
  <1>11. /\ PromisedTaker # NoOrder /\ PromisedTaker.id = order.id
         /\ PromisedTaker.side = order.side /\ PromisedTaker.quantity = Remaining
    BY <1>1, TakerIsOne
  <1>12. PromisedTaker' = [PromisedTaker EXCEPT !.quantity = @ - ProbeSize]
    <2>1. /\ Remaining = order.quantity - filled /\ filled \in Nat /\ order.quantity \in Quantity
      BY <1>1, RemainingFacts
    <2>2. Remaining' = Remaining - ProbeSize
      <3>1. Remaining' = Minus(order.quantity, filled + ProbeSize)
        BY <1>1, <1>7 DEF Remaining
      <3> QED
        BY <1>3, <2>1, <3>1, MatcherAssumption DEF Minus, Quantity
    <2>3. PromisedTaker' = TakerOf(order, Remaining - ProbeSize)
      BY <1>1, <1>7, <2>2, PromisedTakers DEF Matching
    <2>4. PromisedTaker = TakerOf(order, Remaining)
      BY <1>1, PromisedTakers
    <2> QED
      BY <2>3, <2>4 DEF TakerOf
  <1> HIDE DEF left
  <1>13. CASE left = 0
    <2>1. PromisedOpen' = Restrict(PromisedOpen, DOMAIN PromisedOpen \ {Front})
      <3>1. \A id \in active \ {Front} : orders'[id] = orders[id]
        BY <1>1, <1>7, <1>13 DEF IdsInv
      <3>2. PromisedOpen = Lots(active, orders) /\ PromisedOpen' = Lots(active \ {Front}, orders')
        BY <1>1, <1>7, <1>13, PromisedBook, Zenon
      <3> QED
        BY <3>1, <3>2 DEF Lots, Restrict
    <2>2. PromisedQueue' = Promise!Removed(PromisedQueue, Front)
      <3>1. Front \in DOMAIN MirrorOf(active, orders)
        BY <1>3 DEF MirrorOf
      <3> QED
        BY <1>1, <1>2, <1>7, <1>13, <3>1, QueuesUntracked, PromisedBook
    <2>3. ProbeSize = lot.quantity
      BY <1>4, <1>9, <1>13
    <2> QED
      BY <1>7, <1>8, <1>9, <1>10, <1>11, <1>12, <2>1, <2>2, <2>3, SameErasing, Zenon
      DEF Promise!Fill, trade
  <1>14. CASE left # 0
    <2>1. PromisedOpen' = [PromisedOpen EXCEPT ![Front].quantity = @ - ProbeSize]
      <3>1. \A id \in active \ {Front} : orders'[id] = orders[id]
        BY <1>1, <1>7, <1>14 DEF IdsInv
      <3>2. LotOf(orders'[Front]) = [lot EXCEPT !.quantity = @ - ProbeSize]
        <4>1. /\ orders'[Front].quantity = orders[Front].quantity - ProbeSize
              /\ orders'[Front].account = orders[Front].account
          <5>1. orders[Front] \in Snapshot
            BY <1>1, <1>3 DEF IdsInv
          <5> QED
            BY <1>3, <1>4, <1>7, <1>14, <5>1 DEF Snapshot
        <4> QED
          BY <1>8, <4>1 DEF LotOf
      <3>3. PromisedOpen = Lots(active, orders) /\ PromisedOpen' = Lots(active, orders')
        BY <1>1, <1>7, <1>14, PromisedBook
      <3> QED
        BY <1>3, <3>1, <3>2, <3>3 DEF Lots
    <2>2. PromisedQueue' = PromisedQueue
      BY <1>1, <1>7, <1>14, PromisedBook
    <2>3. ProbeSize # lot.quantity
      BY <1>4, <1>9, <1>14
    <2> QED
      BY <1>7, <1>8, <1>9, <1>10, <1>11, <1>12, <2>1, <2>2, <2>3, Zenon
      DEF Promise!Fill, trade
  <1> QED
    BY <1>13, <1>14
\* A matchOrder() that ends without resting drops what is left.
LEMMA SettleConcludes ==
    ASSUME ManagerInv, RunInv, SettleDone
    PROVE  Promise!Conclude
  <1>1. /\ pc = "settle" /\ pc' = "idle" /\ ~Rests /\ allTrades' = <<>>
        /\ shadow' = shadow /\ active' = active
        /\ orders' = Record(order.id, SnapshotOf(order, Remaining,
                               IF Remaining = 0 \/ filled > 0 THEN "Filled" ELSE "Cancelled"))
    BY DEF SettleDone, Return
  <1>2. Matching /\ ~Matching'
    BY <1>1 DEF Matching
  <1>3. PromisedTaker' = NoOrder
    BY <1>2, PromisedTakers
  <1>4. ~Promise!CanFill
    BY <1>1, CanFillIsContinues DEF RunInv
  <1>5. PromisedQueue' = PromisedQueue /\ PromisedOpen' = PromisedOpen
    <2>1. order.id \notin DOMAIN orders /\ active \subseteq DOMAIN orders
      BY <1>1 DEF ManagerInv, CallInv, IdsInv
    <2>2. \A id \in active : orders'[id] = orders[id]
      BY <1>1, <2>1, RecordElsewhere
    <2> QED
      BY <1>1, <2>2, PromisedBook DEF Lots
  <1>6. /\ PromisedTaker # NoOrder /\ PromisedTaker.side = order.side
        /\ PromisedTaker.limit = PriceToMatch(order) /\ PromisedTaker.quantity = Remaining
        /\ PromisedTaker.rests = MayRest(order)
    BY <1>2, TakerIsOne
  <1>7. ~(MayRest(order) /\ Remaining > 0 /\ ~Promise!Crosses(order.side, PriceToMatch(order)))
    <2>1. MayRest(order) => PriceToMatch(order) = order.price
      BY DEF MayRest, PriceToMatch
    <2>2. order.side \in Side
      BY <1>1, RemainingFacts DEF ManagerInv
    <2>3. Promise!Crosses(order.side, order.price) <=> WouldCross(order)
      BY <1>1, <2>2, PromisedCrosses DEF WouldCross
    <2> QED
      BY <1>1, <2>1, <2>3 DEF Rests
  <1> QED
    BY <1>1, <1>3, <1>4, <1>5, <1>6, <1>7 DEF Promise!Conclude

\* A matchOrder() that ends with its remainder resting puts it at the back of its queue.
LEMMA RestConcludes ==
    ASSUME ManagerInv, RunInv, RestDone
    PROVE  Promise!Conclude
  <1>1. /\ pc = "rest" /\ pc' = "idle" /\ allTrades' = <<>> /\ active' = active \cup {order.id}
        /\ shadow' = TrackResting(shadow, order.id, order.side, order.price)
        /\ orders' = Record(order.id, SnapshotOf(order, Remaining,
                               IF filled > 0 THEN "PartiallyFilled" ELSE "New"))
    BY DEF RestDone, Return
  <1>2. Matching /\ ~Matching'
    BY <1>1 DEF Matching
  <1>3. PromisedTaker' = NoOrder
    BY <1>2, PromisedTakers
  <1>4. /\ PromisedTaker # NoOrder /\ PromisedTaker.side = order.side
        /\ PromisedTaker.limit = PriceToMatch(order) /\ PromisedTaker.quantity = Remaining
        /\ PromisedTaker.rests = MayRest(order) /\ PromisedTaker.id = order.id
        /\ PromisedTaker.account = order.account
    BY <1>2, TakerIsOne
  <1>5. /\ order.side \in Side /\ order.price \in Price /\ Remaining > 0
        /\ MayRest(order) /\ PriceToMatch(order) = order.price
        /\ order.id \notin active /\ active \subseteq DOMAIN orders /\ DOMAIN shadow = Side
    <2>1. order.side \in Side /\ order.price \in Price
      BY <1>1, RemainingFacts DEF ManagerInv
    <2>2. Remaining > 0
      BY <1>1 DEF ManagerInv, PlaceInv, RestInv, RestingQuantity
    <2>3. MayRest(order)
      BY <1>1 DEF RunInv
    <2>4. PriceToMatch(order) = order.price
      BY <2>3 DEF MayRest, PriceToMatch
    <2> QED
      BY <1>1, <2>1, <2>2, <2>3, <2>4 DEF ManagerInv, CallInv, IdsInv, IsBook
  <1>6. ~Promise!Crosses(order.side, order.price)
    <2>1. ReachesNone(shadow, order.side, order.price)
      BY <1>1 DEF ManagerInv, PlaceInv, RestInv
    <2>2. Opposite(order.side) \in Side
      BY <1>5, OppositeFacts
    <2>3. DOMAIN shadow[Opposite(order.side)] # {} =>
             Best(Opposite(order.side), shadow[Opposite(order.side)])
                \in DOMAIN shadow[Opposite(order.side)]
      BY <1>1, <2>2, PromisedBest
    <2> QED
      BY <1>1, <1>5, <2>1, <2>3, PromisedCrosses DEF ReachesNone
  <1>7. ~Promise!CanFill
    BY <1>4, <1>5, <1>6 DEF Promise!CanFill
  <1>8. PromisedQueue' = Promise!Queued(PromisedQueue, order.id, order.side, order.price)
    <2>1. PromisedQueue = Queues(shadow)
          /\ PromisedQueue' = Queues(TrackResting(shadow, order.id, order.side, order.price))
      BY <1>1, PromisedBook
    <2> QED
      BY <1>5, <2>1, QueuesTracked
  <1>9. PromisedOpen' = [id \in DOMAIN PromisedOpen \cup {order.id} |->
                            IF id = order.id THEN Promise!Lot(Remaining, order.account)
                            ELSE PromisedOpen[id]]
    <2>1. LotOf(orders'[order.id]) = Promise!Lot(Remaining, order.account)
      BY <1>1 DEF Record, SnapshotOf, LotOf, Promise!Lot
    <2>2. \A id \in active : orders'[id] = orders[id]
      BY <1>1, <1>5, RecordElsewhere
    <2>3. PromisedOpen = Lots(active, orders) /\ PromisedOpen' = Lots(active \cup {order.id}, orders')
      BY <1>1, PromisedBook
    <2>4. DOMAIN PromisedOpen = active /\ \A id \in active : PromisedOpen[id] = LotOf(orders[id])
      BY <2>3 DEF Lots
    <2>5. \A id \in active \cup {order.id} :
             LotOf(orders'[id]) = IF id = order.id THEN Promise!Lot(Remaining, order.account)
                                  ELSE PromisedOpen[id]
      BY <2>1, <2>2, <2>4
    <2> QED
      BY <2>3, <2>4, <2>5 DEF Lots
  <1> QED
    BY <1>1, <1>3, <1>4, <1>5, <1>6, <1>7, <1>8, <1>9 DEF Promise!Conclude

\* cancelOrder() withdraws the order.
LEMMA CancelWithdraws ==
    ASSUME ManagerInv, NEW id, CancelOrderCall(id)
    PROVE  Promise!Withdraw
  <1>1. /\ pc = "idle" /\ pc' = "idle" /\ id \in active /\ active' = active \ {id}
        /\ shadow' = UntrackResting(shadow, id) /\ allTrades' = allTrades
        /\ orders' = [orders EXCEPT ![id].status = "Cancelled"]
    BY DEF CancelOrderCall
  <1>2. InOrder(shadow, MirrorOf(active, orders)) /\ active \subseteq DOMAIN orders
    BY <1>1, SettledBook DEF Settled, ManagerInv, IdsInv
  <1>3. PromisedTaker = NoOrder /\ PromisedTaker' = NoOrder
    BY <1>1, PromisedTakers DEF Matching
  <1>4. PromisedOpen' = Restrict(PromisedOpen, DOMAIN PromisedOpen \ {id})
    <2>1. \A i \in active \ {id} : orders'[i] = orders[i]
      BY <1>1, <1>2
    <2> QED
      BY <1>1, <2>1, PromisedBook DEF Lots, Restrict
  <1>5. PromisedQueue' = Promise!Removed(PromisedQueue, id)
    <2>1. id \in DOMAIN MirrorOf(active, orders)
      BY <1>1 DEF MirrorOf
    <2> QED
      BY <1>1, <1>2, <2>1, QueuesUntracked, PromisedBook
  <1>6. id \in DOMAIN PromisedOpen
    BY <1>1, PromisedBook DEF Lots
  <1> QED
    BY <1>1, <1>3, <1>4, <1>5, <1>6, SameErasing DEF Promise!Withdraw
\* An amendment that keeps its priority: the quantity shrinks where the order stands.
LEMMA AmendShrinks ==
    ASSUME ManagerInv, NEW o \in Order, AmendInPlace(o)
    PROVE  Promise!Shrink
  <1>1. /\ pc = "idle" /\ ReplaceAccepted(o) /\ PreservesPriority(o)
        /\ orders' = [orders EXCEPT ![o.id] = SnapshotOf(o, o.quantity, "New")]
        /\ active' = active /\ allTrades' = allTrades
    BY DEF AmendInPlace
  <1>2. /\ o.id \in active /\ o.quantity \in Quantity /\ o.quantity > 0 /\ o.account \in AccountId
        /\ o.price \in DOMAIN shadow[o.side] /\ active \subseteq DOMAIN orders
        /\ o.quantity <= orders[o.id].quantity /\ orders[o.id] \in Snapshot
    <2>1. /\ o.id \in active /\ o.quantity \in Quantity /\ o.quantity > 0 /\ o.account \in AccountId
      BY <1>1, AcceptedFacts
    <2>2. o.price \in DOMAIN shadow[o.side]
      BY <1>1, AmendedPlace
    <2> QED
      BY <1>1, <2>1, <2>2 DEF PreservesPriority, ManagerInv, IdsInv
  <1>3. pc' = "unbuild" /\ shadow' = shadow
    BY <1>2 DEF AmendInPlace
  <1>4. PromisedTaker = NoOrder /\ PromisedTaker' = NoOrder
    BY <1>1, <1>3, PromisedTakers DEF Matching
  <1>5. /\ PromisedQueue' = PromisedQueue /\ DOMAIN PromisedOpen = active
        /\ PromisedOpen[o.id] = LotOf(orders[o.id])
    BY <1>1, <1>2, <1>3, PromisedBook DEF Lots
  <1>6. PromisedOpen' = [PromisedOpen EXCEPT ![o.id] = LotOf(o)]
    <2>1. LotOf(orders'[o.id]) = LotOf(o)
      BY <1>1, <1>2 DEF LotOf, SnapshotOf
    <2>2. \A id \in active \ {o.id} : orders'[id] = orders[id]
      BY <1>1, <1>2
    <2>3. active' = active
      BY <1>1, <1>2
    <2>4. PromisedOpen = Lots(active, orders) /\ PromisedOpen' = Lots(active, orders')
      BY <1>1, <1>3, <2>3, PromisedBook
    <2> QED
      BY <2>1, <2>2, <2>4 DEF Lots
  <1>7. PromisedOpen'[o.id] = LotOf(o)
    BY <1>2, <1>5, <1>6
  <1>8. LotOf(o) \in [quantity : 1..PromisedOpen[o.id].quantity, account : AccountId]
    <2>1. PromisedOpen[o.id].quantity = orders[o.id].quantity
      BY <1>5 DEF LotOf
    <2>2. o.quantity \in 1..orders[o.id].quantity
      BY <1>2, MatcherAssumption DEF Quantity, Snapshot
    <2> QED
      BY <1>2, <2>1, <2>2 DEF LotOf
  <1>9. Promise!Relots(o.id, 1..PromisedOpen[o.id].quantity)
    BY <1>6, <1>7, <1>8, Zenon DEF Promise!Relots
  <1> QED
    BY <1>1, <1>2, <1>4, <1>5, <1>9 DEF Promise!Shrink

\* Any other amendment: the order goes to the back of the queue of its new price.
LEMMA AmendRequeues ==
    ASSUME ManagerInv, NEW o \in Order, AmendRequeue(o)
    PROVE  Promise!Requeue
  <1>1. /\ pc = "idle" /\ pc' = "requeue" /\ ReplaceAccepted(o) /\ order' = o
        /\ shadow' = UntrackResting(shadow, o.id)
        /\ orders' = orders /\ active' = active /\ allTrades' = allTrades
    BY DEF AmendRequeue
  <1>2. /\ o.id \in active /\ o.side \in Side /\ o.price \in Price
        /\ o.quantity \in Quantity /\ o.quantity > 0 /\ o.account \in AccountId
    BY <1>1, AcceptedFacts
  <1>3. InOrder(shadow, MirrorOf(active, orders)) /\ o.id \in DOMAIN MirrorOf(active, orders)
    BY <1>1, <1>2, SettledBook DEF Settled, MirrorOf
  <1>4. PromisedTaker = NoOrder /\ PromisedTaker' = NoOrder
    BY <1>1, PromisedTakers DEF Matching
  <1>5. ~Promise!Crosses(o.side, o.price)
    BY <1>1, <1>2, PromisedCrosses DEF ReplaceAccepted, WouldCross
  <1>6. PromisedQueue' = Promise!Queued(Promise!Removed(PromisedQueue, o.id), o.id, o.side, o.price)
    <2>1. Queues(shadow') = Promise!Removed(PromisedQueue, o.id) /\ DOMAIN shadow' = Side
      BY <1>1, <1>3, QueuesUntracked, PromisedBook
    <2>2. PromisedQueue' = Queues(TrackResting(shadow', o.id, o.side, o.price))
      BY <1>1 DEF PromisedQueue
    <2>3. Queues(TrackResting(shadow', o.id, o.side, o.price))
          = Promise!Queued(Queues(shadow'), o.id, o.side, o.price)
      BY <1>2, <2>1, QueuesTracked
    <2> QED
      BY <2>1, <2>2, <2>3, Zenon
  <1>7. PromisedOpen' = [PromisedOpen EXCEPT ![o.id] = LotOf(o)] /\ PromisedOpen'[o.id] = LotOf(o)
    <2>1. PromisedOpen' = [id \in active |-> LotOf(IF id = o.id THEN o ELSE orders[id])]
      BY <1>1 DEF PromisedOpen
    <2>2. PromisedOpen = [id \in active |-> LotOf(orders[id])]
      BY <1>1, PromisedBook DEF Lots
    <2> QED
      BY <1>2, <2>1, <2>2
  <1>8. LotOf(o) \in [quantity : 1..MaxQuantity, account : AccountId]
    <2>1. o.quantity \in 1..MaxQuantity
      BY <1>2, MatcherAssumption DEF Quantity
    <2> QED
      BY <1>2, <2>1 DEF LotOf
  <1>9. Promise!Relots(o.id, Promise!Quantities)
    BY <1>7, <1>8, SameSets, Zenon DEF Promise!Relots
  <1>10. o.id \in DOMAIN PromisedOpen
    BY <1>2 DEF PromisedOpen
  <1>11. ASSUME o.id \in Promise!Range(PromisedQueue[o.side][o.price])
         PROVE  PromisedOpen'[o.id].quantity > PromisedOpen[o.id].quantity
    <2>1. PromisedQueue = Queues(shadow) /\ PromisedOpen[o.id].quantity = orders[o.id].quantity
      BY <1>1, <1>2, PromisedBook DEF Lots, LotOf
    <2>2. o.id \in Range(Queues(shadow)[o.side][o.price])
      BY <1>11, <2>1, SameErasing
    <2>3. MirrorOf(active, orders)[o.id].price = o.price
      BY <1>2, <1>3, <2>2, InOneQueue
    <2>4. MirrorOf(active, orders)[o.id].price = orders[o.id].price
      BY <1>2 DEF MirrorOf, Entry
    <2>5. orders[o.id].price = o.price
      BY <2>3, <2>4
    <2>6. ~(o.quantity <= orders[o.id].quantity)
      BY <2>5 DEF AmendRequeue, PreservesPriority
    <2>7. orders[o.id].quantity \in Int /\ o.quantity \in Int
      BY <1>2, MatcherAssumption DEF ManagerInv, IdsInv, Snapshot, Quantity
    <2> QED
      BY <1>7, <2>1, <2>6, <2>7 DEF LotOf
  <1> QED
    BY <1>1, <1>2, <1>4, <1>5, <1>6, <1>9, <1>10, <1>11, SameSets DEF Promise!Requeue

-----------------------------------------------------------------------------
(***************************************************************************)
(* The refinement.                                                         *)
(***************************************************************************)
\* What the refinement needs beyond the manager's invariant is kept by every step.
LEMMA RunInvNext ==
    ASSUME ManagerInv, RunInv, [Next]_vars
    PROVE  RunInv'
  <1>1. CASE \E o \in Requests : \/ MatchOrderCall(o) \/ AddOrderCall(o)
                                 \/ AmendInPlace(o) \/ AmendRequeue(o)
    <2>1. pc = "idle" /\ (pc' = "stp" \/ (pc' \in {"unbuild", "rebuild", "requeue"} /\ allTrades' = allTrades))
      BY <1>1 DEF MatchOrderCall, AddOrderCall, AmendInPlace, AmendRequeue
    <2> QED
      BY <2>1 DEF RunInv, Matching
  <1>2. CASE \/ \E id \in OrderId : CancelOrderCall(id)
             \/ RejectedCall \/ UNCHANGED vars
    <2>1. CASE pc = "idle" /\ pc' = "idle" /\ allTrades' = allTrades
      BY <2>1 DEF RunInv, Matching
    <2>2. CASE UNCHANGED vars
      <3>1. /\ shadow' = shadow /\ orders' = orders /\ pc' = pc /\ order' = order
            /\ filled' = filled /\ allTrades' = allTrades
        BY <2>2 DEF vars, managerVars
      <3>2. StpContinues' <=> StpContinues
        BY <3>1, FrozenStp
      <3> QED
        BY <3>1, <3>2 DEF RunInv, Matching
    <2> QED
      BY <1>2, <2>1, <2>2 DEF CancelOrderCall, RejectedCall
  <1>3. CASE MatcherStep
    <2>1. /\ shadow' = shadow /\ orders' = orders /\ pc' = pc /\ order' = order
          /\ filled' = filled /\ allTrades' = allTrades
      BY <1>3 DEF MatcherStep, managerVars
    <2>2. StpContinues' <=> StpContinues
      BY <2>1, FrozenStp
    <2> QED
      BY <2>1, <2>2 DEF RunInv, Matching
  <1>4. CASE StpStop
    <2>1. /\ ~StpContinues /\ pc' = "settle" /\ shadow' = shadow /\ orders' = orders
          /\ order' = order /\ filled' = filled
      BY <1>4 DEF StpStop
    <2>2. ~StpContinues'
      BY <2>1, FrozenStp
    <2> QED
      BY <2>1, <2>2 DEF RunInv, Matching
  <1>5. CASE StpProbe
    <2>1. pc' \in {"stp", "probe"}
      BY <1>5 DEF StpProbe
    <2> QED
      BY <2>1 DEF RunInv, Matching
  <1>6. CASE ApplyTrade
    <2>1. pc = "probe" /\ mpc = "idle"
      BY <1>6 DEF ApplyTrade
    <2>2. trades # <<>> /\ Tail(trades) = <<>>
      <3>1. \E trade : trades = <<trade>>
        BY <2>1, ProbeTraded
      <3> QED
        BY <3>1
    <2>3. pc' = "stp"
      BY <1>6, <2>2 DEF ApplyTrade
    <2> QED
      BY <2>3 DEF RunInv, Matching
  <1>7. CASE SettleRest
    <2>1. pc' = "rest" /\ order' = order /\ MayRest(order)
      BY <1>7 DEF SettleRest, Rests
    <2> QED
      BY <2>1 DEF RunInv, Matching
  <1>8. CASE Unbuild \/ Rebuild
    <2>1. /\ pc \in {"unbuild", "rebuild"} /\ pc' \in {"unbuild", "rebuild"} /\ allTrades' = allTrades
      BY <1>8 DEF Unbuild, Rebuild
    <2> QED
      BY <2>1 DEF RunInv, Matching
  <1>9. CASE SettleDone \/ RestDone \/ RebuildDone \/ RequeueDone
    <2>1. pc' = "idle" /\ allTrades' = <<>>
      BY <1>9 DEF SettleDone, RestDone, RebuildDone, RequeueDone, Return
    <2> QED
      BY <2>1 DEF RunInv, Matching
  <1> QED
    BY <1>1, <1>2, <1>3, <1>4, <1>5, <1>6, <1>7, <1>8, <1>9 DEF Next, CallStep

\* An exchange that has just been created promises an empty book.
LEMMA PromisedInitially ==
    ASSUME Init
    PROVE  RunInv /\ Promise!BookInit
  <1>1. /\ shadow = [side \in Side |-> NoLevels] /\ active = {} /\ pc = "idle" /\ allTrades = <<>>
    BY DEF Init
  <1>2. PromisedQueue = [side \in Side |-> [p \in Price |-> <<>>]]
    BY <1>1, PromisedBook DEF Queues, NoLevels
  <1>3. PromisedOpen = [id \in {} |-> Promise!Lot(0, 0)]
    BY <1>1, PromisedBook DEF Lots
  <1>4. PromisedTaker = NoOrder
    BY <1>1, PromisedTakers DEF Matching
  <1>5. RunInv
    BY <1>1 DEF RunInv, Matching
  <1> QED
    BY <1>1, <1>2, <1>3, <1>4, <1>5, SameSets DEF Promise!BookInit

\* Every step is one of the promised book, or leaves it as it is.
LEMMA StepRefines ==
    ASSUME ManagerInv, RunInv, [Next]_vars
    PROVE  [Promise!BookNext]_Promise!bookVars
  <1>1. CASE UNCHANGED vars \/ RejectedCall
    <2>1. UNCHANGED vars
      BY <1>1 DEF RejectedCall
    <2>2. /\ shadow' = shadow /\ active' = active /\ orders' = orders /\ pc' = pc
          /\ order' = order /\ filled' = filled /\ allTrades' = allTrades
      BY <2>1 DEF vars, managerVars
    <2> QED
      BY <2>2 DEF Promise!bookVars, PromisedQueue, PromisedOpen, PromisedTaker, Matching, Remaining
  <1>2. CASE \E o \in Requests : \/ MatchOrderCall(o) \/ AddOrderCall(o)
                                 \/ AmendInPlace(o) \/ AmendRequeue(o)
    <2>1. PICK o \in Requests : \/ MatchOrderCall(o) \/ AddOrderCall(o)
                                \/ AmendInPlace(o) \/ AmendRequeue(o)
      BY <1>2
    <2>2. o \in Order
      BY ManagerAssumption
    <2>3. MatchOrderCall(o) \/ AmendInPlace(o) \/ AmendRequeue(o)
      BY <2>1 DEF AddOrderCall
    <2>4. Promise!Accept \/ Promise!Shrink \/ Promise!Requeue
      BY <2>2, <2>3, CallAccepts, AmendShrinks, AmendRequeues
    <2> QED
      BY <2>4 DEF Promise!BookNext
  <1>3. CASE \E id \in OrderId : CancelOrderCall(id)
    BY <1>3, CancelWithdraws DEF Promise!BookNext
  <1>4. CASE CallStep
    <2>1. \/ MatcherStep \/ StpStop \/ StpProbe \/ SettleRest \/ Unbuild \/ Rebuild
          \/ RebuildDone \/ RequeueDone \/ ApplyTrade \/ SettleDone \/ RestDone
      BY <1>4 DEF CallStep
    <2>2. UNCHANGED Promise!bookVars \/ Promise!Fill \/ Promise!Conclude
      BY <2>1, InnerStutters, ReplacedStutters, TradeFills, SettleConcludes, RestConcludes
    <2> QED
      BY <2>2 DEF Promise!BookNext
  <1> QED
    BY <1>1, <1>2, <1>3, <1>4 DEF Next

\* Every behaviour of the order manager over its matcher is a behaviour of the
\* price-time-priority book: probes, the mirror of the book and the rebuilding of a
\* level never show.
THEOREM ManagerImplementsPriceTimeBook == Spec => ImplementsPriceTimeBook
  <1>1. Spec => [](ManagerInv /\ RunInv)
    <2>1. Init => RunInv
      BY PromisedInitially
    <2>2. ManagerInv /\ RunInv /\ [Next]_vars => RunInv'
      BY RunInvNext
    <2> QED
      BY <2>1, <2>2, ManagerInvariance, PTL DEF Spec
  <1>2. Init => Promise!BookInit
    BY PromisedInitially
  <1>3. ManagerInv /\ RunInv /\ [Next]_vars => [Promise!BookNext]_Promise!bookVars
    BY StepRefines
  <1> QED
    BY <1>1, <1>2, <1>3, PTL DEF Spec, ImplementsPriceTimeBook, Promise!BookSpec
=============================================================================
