--------------------------- MODULE ItchBookBuilder ---------------------------
(***************************************************************************)
(* ItchBookBuilder: the feed's own book, built from ITCH messages.         *)
(*                                                                         *)
(* It keeps every resting order and, next to them, the total quantity of   *)
(* each price level, which is what a snapshot shows.  A level is changed   *)
(* by the difference each message makes and is erased once nothing should  *)
(* be left of it; it is never added up again.                              *)
(*                                                                         *)
(* The feed keeps the rule that a reference is unique in its stock while   *)
(* the order rests.  Everything else may happen: messages for stocks that  *)
(* are not registered, for orders that are gone, for more shares than are  *)
(* left, for no shares at all.                                             *)
(***************************************************************************)
EXTENDS PriceLevels

CONSTANTS Locate,    \* stock locate codes
          Ref,       \* order reference numbers
          MaxPrice,
          MaxShares  \* bound on the shares of a message

VARIABLE books  \* locate -> orders and levels of a registered stock

Shares == 0..MaxShares
FeedPrice == 0..MaxPrice

EmptyBook == [orders |-> [ref \in {} |-> {}], levels |-> [side \in Side |-> NoLevels]]

FeedInit == books = [locate \in {} |-> EmptyBook]

-----------------------------------------------------------------------------
\* addLevel(): levels[price] += qty.
AddLevel(levels, side, price, qty) ==
    [levels EXCEPT ![side] =
        [p \in DOMAIN @ \cup {price} |->
            (IF p \in DOMAIN @ THEN @[p] ELSE 0) + (IF p = price THEN qty ELSE 0)]]

\* removeLevel().
RemoveLevel(levels, side, price, qty) ==
    IF price \notin DOMAIN levels[side] THEN levels
    ELSE IF qty >= levels[side][price]
    THEN [levels EXCEPT ![side] = EraseLevel(@, price)]
    ELSE [levels EXCEPT ![side][price] = @ - qty]

\* addOrder(): inserts the order, or overwrites it.
AddOrder(b, ref, side, shares, price) ==
    [orders |-> [r \in DOMAIN b.orders \cup {ref} |->
                    IF r = ref THEN [side |-> side, price |-> price, shares |-> shares]
                    ELSE b.orders[r]],
     levels |-> AddLevel(b.levels, side, price, shares)]

\* deleteOrder().
DeleteOrder(b, ref) ==
    IF ref \notin DOMAIN b.orders THEN b
    ELSE LET o == b.orders[ref]
         IN  [orders |-> Restrict(b.orders, DOMAIN b.orders \ {ref}),
              levels |-> RemoveLevel(b.levels, o.side, o.price, o.shares)]

\* Mutant: the level loses what the message says, not what the order had.
ReduceOrder_Unclamped(b, ref, shares) ==
    IF ref \notin DOMAIN b.orders THEN b
    ELSE LET o == b.orders[ref]
             after == RemoveLevel(b.levels, o.side, o.price, shares)
         IN  IF shares >= o.shares
             THEN [orders |-> Restrict(b.orders, DOMAIN b.orders \ {ref}), levels |-> after]
             ELSE [orders |-> [b.orders EXCEPT ![ref].shares = @ - shares], levels |-> after]

\* reduceOrder(): never by more than is left of the order.
ReduceOrder(b, ref, shares) ==
    IF ref \notin DOMAIN b.orders THEN b
    ELSE LET o == b.orders[ref]
             reduceBy == MinOf(shares, o.shares)
             after == RemoveLevel(b.levels, o.side, o.price, reduceBy)
         IN  IF reduceBy >= o.shares
             THEN [orders |-> Restrict(b.orders, DOMAIN b.orders \ {ref}), levels |-> after]
             ELSE [orders |-> [b.orders EXCEPT ![ref].shares = @ - reduceBy], levels |-> after]

-----------------------------------------------------------------------------
\* 'S' with event code 'C', end of messages: reset().
EndOfMessages == books' = [locate \in {} |-> EmptyBook]

\* 'R': books_[locate] is made if it is missing and keeps its orders if it is not.
StockDirectory(locate) ==
    books' = [k \in DOMAIN books \cup {locate} |->
                 IF k \in DOMAIN books THEN books[k] ELSE EmptyBook]

\* A handler that changes the book of a registered stock; it ignores others.
Change(locate, b) ==
    books' = IF locate \in DOMAIN books THEN [books EXCEPT ![locate] = b] ELSE books

\* The reference of a new order is not that of a resting one.
Unused(locate, ref) == locate \in DOMAIN books => ref \notin DOMAIN books[locate].orders

\* 'A' and 'F'.
AddOrderMessage(locate, ref, side, shares, price) ==
    /\ Unused(locate, ref)
    /\ Change(locate, AddOrder(books[locate], ref, side, shares, price))

\* 'E', 'C' and 'X': so many shares of the order are executed or cancelled.
ReduceMessage(locate, ref, shares) ==
    Change(locate, ReduceOrder(books[locate], ref, shares))

\* 'D'.
DeleteMessage(locate, ref) == Change(locate, DeleteOrder(books[locate], ref))

\* 'U': the replacement inherits the side.
ReplaceMessage(locate, old, new, shares, price) ==
    /\ Unused(locate, new) \/ new = old
    /\ Change(locate,
          IF old \notin DOMAIN books[locate].orders THEN books[locate]
          ELSE AddOrder(DeleteOrder(books[locate], old), new,
                        books[locate].orders[old].side, shares, price))

FeedNext ==
    \/ EndOfMessages
    \/ \E locate \in Locate :
          \/ StockDirectory(locate)
          \/ \E ref \in Ref :
                \/ DeleteMessage(locate, ref)
                \/ \E shares \in Shares : ReduceMessage(locate, ref, shares)
                \/ \E side \in Side, shares \in Shares, price \in FeedPrice :
                      AddOrderMessage(locate, ref, side, shares, price)
                \/ \E new \in Ref, shares \in Shares, price \in FeedPrice :
                      ReplaceMessage(locate, ref, new, shares, price)

FeedSpec == FeedInit /\ [][FeedNext]_books

-----------------------------------------------------------------------------
\* The orders of a book that rest on a side at a price.
RestingAt(b, side, p) ==
    {ref \in DOMAIN b.orders : b.orders[ref].side = side /\ b.orders[ref].price = p}

TotalAt(b, side, p) == MapThenSumSet(LAMBDA ref : b.orders[ref].shares, RestingAt(b, side, p))

\* The quantity of a level is the sum of what is left of the orders at that price,
\* after any sequence of messages, although it is only ever changed by differences,
\* a level that is there has an order, and one that is not has no shares.
LevelsSumOrders ==
    \A locate \in DOMAIN books : \A side \in Side : \A p \in FeedPrice :
        LET b == books[locate]
        IN  IF p \in DOMAIN b.levels[side]
            THEN RestingAt(b, side, p) # {} /\ b.levels[side][p] = TotalAt(b, side, p)
            ELSE TotalAt(b, side, p) = 0
=============================================================================
