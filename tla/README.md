# A TLA+ model of Titan Engine

Titan Engine is an exchange matching engine in C++, with an ITCH feed that can be
replayed onto it. This directory models both in TLA+, checks the models with TLC
on small instances and proves the main results with TLAPS for every size.

## The system

| Part | Source | Modelled by |
|---|---|---|
| `ReferenceMatcher`: price-time-priority book of one symbol | `reference/order_book.*` | `ReferenceMatcher`, `PriceLevels` |
| `OptimizedMatcher`: the same with pooled orders and tombstoned levels | `src/book/optimized_matcher.cpp` | `OptimizedMatcher`, `MatcherRefinement` |
| `FixedObjectPool`: free list over slabs | `include/titan/core/memory_pool.hpp` | `FixedObjectPool` |
| `OrderManager`: validation, order life cycle, self-trade prevention, amendments | `src/exchange/order_manager.cpp`, `validator.cpp` | `OrderManager`, abstract `PriceTimeBook`, `PriceTimeRefinement` |
| Invariant checkers of the test suite | `src/book/invariants.cpp` | `BookInvariants` |
| `InstrumentRegistry`: one manager per symbol, event log | `src/exchange/instrument_registry.cpp` | `InstrumentRegistry` |
| `EventPublisher`: execution reports from the event log | `src/market_data/publisher.cpp` | `InstrumentRegistry` |
| `SpscQueue`: lock-free ring between two threads | `include/titan/pipeline/spsc_queue.hpp` | `SpscQueue`, abstract `BoundedFifo` |
| `StagedProcessor`: a consumer thread that applies queued operations | `src/pipeline/staged_processor.cpp` | `StagedProcessor` |
| ITCH parser: records out of a byte stream | `src/feed/itch/parser.cpp` | `ItchParser` |
| ITCH decoder: messages out of records | `src/feed/itch/decoder.cpp`, `messages.hpp` | `ItchDecoder` |
| `ItchBookBuilder`: the feed's own book | `src/feed/itch/book_builder.cpp` | `ItchBookBuilder` |
| `ItchEngineAdapter`: ITCH messages as calls of the exchange | `src/replay/itch_adapter.cpp` | `ItchEngineAdapter` |
| `ParityChecker`, `EventReplayer`: the feed's book against the exchange's | `src/replay/parity_checker.cpp`, `event_replayer.cpp` | `ParityChecker`, `ParityReport` |
| `SocketFeedReader`, `ItchSocketPipeline`: the feed from a TCP connection | `src/feed/tcp/*` | `SocketFeedReader` |
| Backtest, benchmarks, platform calls, command line tools | `src/backtest`, `src/bench`, `src/platform`, `tools` | left out: counting and measurement, operating-system calls, argument handling |

A client, or the consumer thread of `StagedProcessor`, calls
`InstrumentRegistry`, which routes to one `OrderManager` per symbol. The manager
owns the life cycle of orders and drives an `IMatcher`, of which there are two
implementations. It mirrors the matcher's book in *shadow queues* of order ids
and keeps a snapshot of every order, and takes its decisions from these copies.
On the feed's side, bytes from a file or a socket become records and messages;
`ParityChecker` gives every message to the feed's own book and, through
`ItchEngineAdapter`, to the exchange, and compares the two. Only the pipeline
and the socket reader have more than one thread.

## Modules

`PriceLevels` has the operators on a `std::map` from price to FIFO: a function
whose domain is the set of keys, so that an empty level that was left behind and
a level that is gone are different states.

`ReferenceMatcher` has the two sides of the book, the order table and the call
in progress. `addOrder` and `matchOrder` are `MatchOrder` (entry), `CrossStep`
(one iteration of `cross()`) and `FinishMatch` (the remainder rests);
`cancelOrder` is `CancelOrder`. A list node is named by its order's id, which is
sound because an id is in the table at most once; that the only caller
guarantees this is `FreshIdsOnly` of the manager.

`OptimizedMatcher` has levels as vectors of pool slots with null tombstones,
`frontIndex` and `liveCount`, the references from ids to indices, the pool
(`FixedObjectPool`) and the orders stored in its slots. `MatcherRefinement` reads
the reference matcher off it: the live slots of a level from front to back. Its
calls are any calls of an `IMatcher`, so one call can trade through several levels
(the manager's probes never do).

`OrderManager` extends `ReferenceMatcher`. A program counter says where a call
is: `stp` is the loop of `matchWithStp`, `settle` and `rest` the end of
`matchOrder`, `unbuild` and `rebuild` the two loops of an amendment in place,
`requeue` an amendment that loses its place. The matcher's loop runs between
the manager's steps, so its intermediate states are visible. Unsigned
subtraction wraps at `MaxQuantity + 1`. The guard of an accepted call is the
negation of the code's rejections; the reason returned is left out.

`PriceTimeBook` is what manager and matcher promise together: queues per side
and price, one taker at a time, fills from the front of the best queue, a
smaller or equal quantity at the same price keeps its place, any other amendment,
and only such a one, goes to the back. It has
no shadow, no probes and no rebuilding. `PriceTimeRefinement` reads it off the
manager's shadow queues and snapshots.

`BookInvariants` has the two checkers the tests call, as the set of the names
they report, over the state of `OrderManager`.

`InstrumentRegistry` extends `OrderManager` with the log of events and with the
`EventPublisher` that reads it. The variable `log` is the part of the log the
publisher has not processed yet; the publisher may lag behind, be cleared, and
is not told of `reset()`. `submitOrder` logs no trades (the header says so):
`silent` remembers which orders this concerned, so that the properties can be
exact about all others. Instruments share only the numbering of events, so one
symbol is modelled. Reports are output and are not kept.

`SpscQueue` makes every atomic access of `try_enqueue` and `try_dequeue` a step
of its own. An acquire load returns any value between the one this thread saw
last and the newest (`Visible`): the loads are monotone, which is what
release/acquire on one atomic gives, and no more. `BoundedFifo` is the queue it
implements.

`StagedProcessor` extends `SpscQueue` with the calling thread and the consumer
thread. The caller keeps the contract in the header: `start` once before the
first `enqueue*`, nothing after `stop`.

`ItchParser` has the buffer and the scan of `feed()`, one record per step. The
history variables `stream` and `frames` have all the bytes fed since the last
`reset()` and what was found in them. `ItchDecoder` has, for each of the ten
message types, the fields in the order the structs declare them and, separately,
the offsets and widths `decodeMessage` reads; a byte is sent at every position
of every type.

`ItchBookBuilder` has the resting orders and the level totals of each stock. The
messages that execute or cancel shares have one effect, `ReduceMessage`. The
feed keeps the rule of `docs/itch-notes.md` that a reference is unique in its
stock while the order rests; anything else may arrive, unknown stocks and
orders, too many shares and none included.

`ItchEngineAdapter` extends `OrderManager`: a handler begins at most one call of
the manager and `AdapterStep` runs it to its end. It follows one stock. Other
stocks have their own instruments, but `engineIdForRef_` is one map for the
references of all of them, so their adds and replacements are actions too, with
what they do to the map. `ParityChecker` extends the adapter with an instance of
`ItchBookBuilder` and with the venue that sends the feed. The venue keeps
price-time priority and, as `docs/itch-notes.md` has it, references that are
unique in their stock while the order rests: they come back after that and are in
use on other stocks at the same time. `origin` remembers, apart from the map,
under which reference each resting order was entered. The exchange cannot follow
every such feed; the module lists the rules it needs, and the constant `Liberties`
names those a run lets the feed break. `ParityReport` adds the two volumes of the
report.

`SocketFeedReader` extends `ItchParser` with the receive thread (`rpc`, a step
per system call or shared access), the owner (`opc`), and the kernel between
them and the peer. The owner calls `start`, any number of `stop` and `join`, and
the destructor. When the peer has closed its side, `poll()` may report `POLLHUP`
with the input that is left or may not: systems differ in it, and the model lets
every call choose.

The `MC*` modules instantiate these for TLC, the `*Proofs` modules hold the
theorems. Definitions named `X_Y` are variants of `X` with a plausible mistake
(`Y`), used to see that a property notices it; no specification uses them.
Definitions of the kernel, the peer, the venue and the memory model have no code
in the repository and stand for how its code uses them.

## Runs

| Run | States | Shows |
|---|---|---|
| `order_manager` | 397,258 | the matcher: table and levels agree, no crossed book, time priority. The manager: shadow, snapshots and statuses agree with the book; a probe makes exactly one trade; no self-trades; what rests never trades; terminal statuses are final; the checkers of the tests find nothing. Both together refine `PriceTimeBook` |
| `manager_liveness` | 175,574 | every call returns |
| `optimized_matcher` | 88,207 | the trades of a call, through several levels, walk from the best price to worse ones; counters, indices and pool slots stay right; same depths; refines `ReferenceMatcher`, whatever the calls |
| `instrument_registry` | 1,349,995 | what the publisher derives from the log agrees with the manager's orders; an order is introduced before its trades; leaves quantities never wrap |
| `staged_processor` | 23,716 | the ring: FIFO delivery, no slot race, refines `BoundedFifo`. The pipeline: events applied once and in order, `stop()` drains and returns, a full ring does not block for ever |
| `itch_decoder` | 563 | every byte of every message reaches its field; other sizes are refused |
| `parity` | 503,654 | on the feed of a price-time venue that keeps the rules below, while other stocks use the same references, the exchange shows the feed's book, every reference leads to the order it names, executions trade with that order and no other even if they say too many shares, and the feed's level totals are the sums of its orders |
| `socket_feed` | 80,191 | the parser: the records are those the bytes determine, however the stream is cut. The reader: after an orderly close every record received was handed on, and all was received unless `poll()` reported a hang-up; `stop()` and `join()` return and leave final counts; the thread ends with its peer |

Four runs end in a violation, each of something the repository says of itself;
PROJECT.json quotes the lines.

| Run | What the code does |
|---|---|
| `parity_stray` | an execution that names an order that is gone is not ignored, but trades with another order at its price |
| `parity_stocks` | a replacement on another stock, or an add there, redirects a reference that rests on this one: the map from references to order ids has no stock in its key |
| `parity_volume` | after an end of messages the engine's volume starts at zero and the feed's goes on |
| `socket_shutdown` | `stop()` can shut down a descriptor that was closed and given to somebody else after it read the number |

**What the parity run rests on.** `docs/itch-notes.md` promises less of the feed
than the exchange needs, so `NoMismatch`, `RefsResolve` and
`ExecutionHitsItsOrder` are statements about feeds that keep the rules listed in
`ParityChecker`, and each rule is needed: with `"stocks"` among the `Liberties`,
`RefsResolve` fails (run `parity_stocks`) and so does `NoMismatch`; with `"reuse"` an order
that is entered under a reference the stock used before, which the documentation
allows once the first order is gone, is rejected as a duplicate id
(`order_manager.cpp:228`) and the books differ; with `"shrink"` a
replacement at the same price for no more shares keeps its place in the exchange
and loses it at the venue, and the next execution there trades with another
order; with `"stray"` see run `parity_stray`. The rules cut no more than
that: references do come back as those of replacements, other stocks do use the
references of this one, a replacement may keep its place if no order is behind it, cancels and deletes
do name orders that are gone, and executions do say more shares than are left
(`"excess"` is a liberty of the run). References and synthetic ids are apart, by
assumption: where they meet, the second is rejected.

**What an orderly close loses.** `recvLoop()` ends on `POLLHUP` before it looks at
`POLLIN`. Where `poll()` reports both when the peer has closed, the rest of the
input is never read. `OrderlyCloseLosesNothing` says so: all bytes are received
unless a hang-up was reported, and what was received is decoded and handed on in
either case. Linux reports `POLLHUP` for a TCP socket only when both directions
are closed.

**Bounds.** Three order ids are the fewest with two orders in a level and a third
that trades with, cancels or amends between them. Quantity 2 gives a partial fill
on either side; prices up to 2 give levels that cross and levels that do not, and
include the values an empty side reports. Accounts are 0 (no prevention) and 1.
Requests include orders without quantity or price, which must be rejected; an
order that cannot rest has quantity 2, since with 1 it would do what 2 does
first. The liveness run uses fewer request shapes (`FewerRequests`): to the book,
an immediate-or-cancel order is a limit order whose remainder is dropped like
that of a market order. Ids are symmetric except in runs with liveness. The pool
has slabs of two, so it grows while slots are being reused, and `MaxLevelLength`
= 3 bounds the pushes into one level (the vector grows as long as the level lives):
tombstones then stand at the front, in the middle and at the end, and an id that was
removed is pushed again behind its own tombstone. The theorems hold for every bound.
`MaxLog` = 2 lets a call start while an event waits, so that the events of two
calls are in the log together. The ring has four slots and `MaxItems` = 6 items
to go round it.

The parity runs have three references, two orders of the stock in a session
(`MaxOrders`), so that one of two orders in a level can be replaced, and two
executions (`LastSyntheticId`) between two ends of messages, of which there are any
number. An order is entered or replaced with two shares (`Lots`) and loses one or
two at a time: a replacement then asks for more than is left, or for no more. There are any
number of other stocks: only the map remembers them. Two orders of two shares are a level of
four, below `MaxQuantity` = 6, so that no sum wraps. `parity_stray` needs less and
`ParityReport` bounds the volume (`MaxVolume`). Bytes have three
values. The session of the socket runs has good, skipped and corrupt records, with
lengths of zero and above the limit, and
is longer than `RecvBuffer`, so that records are cut by `recv()` in every way. A
decoder's message has one byte that is not zero, at every place.

**Deadlock** is checked except in `staged_processor`, where the system is meant
to stop after `join()`.

**Fairness.** `manager_liveness` assumes only that the thread that runs a call
keeps running it. `staged_processor` assumes that both threads are scheduled and
that a thread that loads an index again and again sees the newest value in the
end, which the C++ memory model asks of implementations for atomic stores. The
socket runs assume that the reader thread is scheduled, that `poll()` returns
after its 200 ms, and that a call of the owner goes on; the peer need not send,
close or reset, and the owner need not call. The client is never forced to make
a call.

## Theorems

All are for every value of the constants, under the named assumptions in the
modules: `MaxPrice` and `MaxQuantity` are positive (for `OptimizedMatcher`:
natural numbers), a slab of the pool has at least one slot, `Capacity` is at least 2,
the kind `Shutdown` is not one of the clients' kinds, a byte has at least one
value, the receive buffer has room for a byte, and the value that stands for no order is not one.

*Reference matcher* (`ReferenceMatcherProofs`, its first part on levels and
FIFOs). `BookConsistent` and `NoCrossedBook` are not inductive:
while `cross()` runs, the order in hand must not be in the table, or resting it
would duplicate its id, and the trades made so far bound the levels still to be
visited. `MatcherInv` adds both. There is one lemma for each of resting,
removing and reducing an order, and one for each action; `MatcherInvariance`
combines them and `MatcherTypeCorrect`, `MatcherBookConsistent`,
`MatcherNeverCrossed` and `MatcherTradesWalkTheBook` follow.
`MatcherTimePriority` is an action property proved from the invariant: erasing
from a sequence without repetition keeps the rest in order.

*Optimized matcher* (`OptimizedMatcherProofs`). None of the three properties is
inductive: that the table leads to the right order after a removal needs that no
other place of any level points to the slot that was released, and that `acquire()`
hands out an unused slot needs that the live flags are exactly the stored orders.
`OptimizedInv` closes the circle: the table leads from an id to its slot
(`RefsLead`), every pointer of a level is the one the table leads to (`PlacesHold`),
every stored order is reached (`MemoryReached`), and the pool's live slots are the
stored orders. There is a lemma for each of `push_back`, a tombstone, `frontLive`,
slab growth, `acquire` and `release`, one for each of resting, removing and partly
filling an order, and one for the iteration of `cross()`, which shows on the way that
its branch for a level without a live order is never taken (`FrontExists`,
`CrossFacts`). `OptimizedInvariance` combines them, and `LiveCountsAreRight`,
`IndicesNeverMove` and `PoolStaysSound` follow, for any value of `MaxLevelLength`, the
bound of the model.

*Two matchers, one behaviour* (`MatcherRefinementProofs`). The mapping reads the ids
of a level from front to back, by the rank of the live places. The work is in what
the vector operations do to that list: ranks are a bijection (`RankGrows`,
`NthFacts`), a pushed pointer appends an id (`IdsPushed`), a tombstone erases the id
at its rank and moves no other (`IdsErased`), the front place is the head
(`FrontIsHead`), and an id stands at the rank of its place (`IdPosition`). From these,
`RestRefines`, `RemoveRefines` and `PartialRefines` show that each operation is the
reference matcher's under the mapping, and `OptimizedRefinesReference` that every
step is a step of `ReferenceMatcher` or changes nothing it has.

*Order manager* (`MatchOrderProofs`: the invariant, facts about one book
seen through two tables, and the steps of `matchOrder`; `OrderManagerProofs`: the other
calls and the theorems). The properties of the manager hold between its
calls into the matcher, and none of them is inductive: a probe, a resting
remainder and the two loops of `cancelReplace` all go through states in which
shadow and book differ. `ManagerInv` says for each place of a call how they
differ. `Mirror` is the table the matcher would have if it held exactly the
manager's active orders. During a probe (`ProbeInv`) book and table are those of
the shadow, before or after the one trade; while an order comes to rest
(`RestInv`) they are those of the shadow, before or after it is put at the back
of its level, and no price of the other side is in its reach; in the first loop
of a rebuild (`UnbuildInv`) the level holds what is left to cancel, and in the
second (`RebuildInv`) the orders that were added again. `MatcherInv` is a
conjunct: a step of the manager's matcher is a step of `ReferenceMatcher`, so its
lemmas are reused. A few lemmas show that erasing the first order of a
level and pushing the next one to its back are what turns one of these books into
the next, that the front of the best level is the order a probe meets, and that
`untrackResting` finds the level of an order. `ManagerInvariance` combines one
lemma per action; `ManagerShadowMatchesBook`, `ManagerSnapshotsMatchBook`,
`ManagerFreshIdsOnly`, `ManagerProbeTradesOnce`, `ManagerNoSelfTrade` and
`ManagerAddNeverTrades` follow from it, and so does the action property
`ManagerTerminalIsFinal`, since only active orders are ever written. They hold
for any ids, accounts, prices, quantities and set of requests.

*Price-time priority* (`PriceTimeRefinementProofs`). `ManagerImplementsPriceTimeBook`
is the refinement of `PriceTimeBook`: the initial states map to initial states and
every step maps to a step or a stutter. The beginning of a `matchOrder` is
`Accept`, the trade of a probe is a `Fill`, the end of a call is `Conclude`
(whether the remainder rests or is dropped), `cancelOrder` is `Withdraw`, an
amendment is `Shrink` or `Requeue` when it is decided, and all that the matcher
does in between, the cancelling and adding again of a whole level included,
leaves the promise unchanged. Beyond `ManagerInv` the proof needs `RunInv`: once
the loop of `matchWithStp` has ended it would not go on, which is what allows the
promise to conclude. The queues of the promise are those of the shadow, so the
work is in three lemmas about them (`QueuesTracked`, `QueuesUntracked`, and the
best price and front order read from either, `PromisedBest` and `FrontIsOpen`).

*Ring buffer* (`StagedProcessorProofs`, first part). `QueueInv` says that, going round the ring
from the producer's stale head, the indices come in the order `headSeen`,
`head`, `tailSeen`, `tail` and span less than a lap, and that the occupied slots
hold what was published and not received. A stale view can only make a thread
more careful, which is why FIFO delivery and the absence of a slot race hold
however old it is. The arithmetic on the ring is in a few lemmas about
`Distance` and `Advance`. `QueueSizeIsExact` is about `size()`, `empty()` and
`full()` while both threads are idle. `QueueImplementsBoundedFifo` is the
refinement.

*Pipeline* (`StagedProcessorProofs`). A step of the pipeline is a step of its
ring or leaves it alone, so `QueueInv` carries over. `ProcessorInv` places both
threads in one script, the calls followed by Shutdown; from it come
`ProcessorAppliesInOrder` and `ProcessorLosesNothing`.

*Feed book* (`FeedProofs`, first part). `LevelsSumOrders` speaks of a sum over a set,
which the library computes by a recursive function. What it adds up to is shown by
taking a smallest set for which it would be wrong: `Finite` is the definition that
gives one (every family of subsets has a smallest member), and subsets and one more
element keep it. `AnyComesFirst` is the result: any order can be split off the sum.
`BookRight` then adds what makes the property inductive, the types and that the orders
of a book are finitely many. `AddKeeps`, `ReduceKeeps` and `DeleteKeeps` show it for the
three functions the handlers are made of; the case that matters is `removeLevel()`, which
may erase a level only when the last of its shares go, and `FeedLevelsSumOrders` follows.

*Parser* (`FeedProofs`, second part). `ParserInv` says that the buffer is the tail of
the stream, that the frames lie end to end up to the place the scan has reached,
each being what the bytes at its place determine, and that between two calls what
is left is no complete record. None of this mentions a chunk, so
`ParserFollowsStream` holds for every way to cut the stream, for any limit on
lengths and any decoder.

*Socket reader* (`FeedProofs`, third part). A step of the reader is a step of its
parser or leaves it alone, so `ParserInv` carries over. `SocketInv` adds where
thread and owner can be at the same time, that the bytes received are a prefix of
the peer's, that the callback got the decoded records of what was scanned, and
that a thread that ended by itself after an orderly close had nothing left to
read, unless `poll()` had reported a hang-up. `SocketOrderlyClose` assumes nothing of
`poll()`: what it reports is a variable of the model.

**Only model-checked:** that both matchers give the same depth
(`SameMarketData`: a sum over places modulo the width against a sum over ranks) and
that the checkers of `BookInvariants` find nothing (a sum over levels against the size
of the table): the proofs they rest on fill their modules, and neither sum is over the
set the other side is given by. The decoder is finite tables, and
its run visits every type, field and byte of them. `InstrumentRegistry`, the adapter and the parity checker have no
proofs: their invariants compose the log or the feed with the whole invariant of the
order manager. Liveness properties are beyond the prover.

## Not modelled

Time stamps, callbacks' contents, thread pinning and the reasons of rejections
have no influence on the state that is modelled. Event, report and snapshot
sequence numbers, average prices, `clearEventLog()` and the counters of the
parity report are left out. Calls outside the contract of
`StagedProcessor`, a second `start()` of the socket reader and a connection that
is refused are left out. Of the other stocks of a feed the adapter has the adds and
replacements, which write to the map all stocks share; their executions, which
count up the synthetic ids and the volume, and the names of stocks are left out.
Socket reader
and parity checker are not composed: the callback runs in the reader's thread
alone and touches nothing the owner reads before `join()` but a counter. That the
depth of a level is the true sum when it overflows is not claimed, only that both
matchers report the same.

`BacktestRunner` replays a file and counts the events in the registry's log by
kind; the log and what is in it are modelled in `InstrumentRegistry` (an end of
messages empties the log, and the result then has only what came after it). The
benchmarks and the latency histogram measure, the platform code pins
threads and marks regions for a profiler, and the command line tools handle
arguments and files: they hold no state a property could be about.
