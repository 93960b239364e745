# Nanomatch in TLA+

A verification project for the Nanomatch limit-order-book engine: TLA+ modules
of its matching core, its memory, its id table, the trade ring and logger and
the two feed replays, TLC runs over small instances, and theorems that TLAPS
checks for every value of the constants. Paths below are relative to the repository, as in `src/src/core`.

## 1. The system

| Component | State | Operations | Called by |
|---|---|---|---|
| `OrderBook` (`src/src/core/OrderBook.{hpp,cpp}`) | `base_`, `base_set_`, `live_order_count_`, per-side level arrays and bitmaps, cached top of book | `insert_limit_order`, `process_market_order`, `cancel_order`, `execute_order`, `reduce_order_qty`; internally `rebase_base`, `match_against_asks/bids`, `level_append/remove`, `update_best_bid/ask` | `Engine`, `ItchParser`, tests |
| `OrderPool` (`OrderBook.hpp`) | slots with intrusive links, LIFO free list | `allocate`, `deallocate` | `OrderBook` |
| `IdMap` (`OrderBook.hpp`) | open-addressed entries | `insert`, `find`, `erase` | `OrderBook`; `find` also by the ITCH replay |
| `SPSCQueue` (`src/src/logging/SPSCQueue.hpp`) | ring, two shared indices, two cached copies | `emplace`, `pop` | `AsyncLogger` |
| `AsyncLogger` (`src/src/logging/AsyncLogger.hpp`) | the ring, `running_`, `dropped_`, worker thread, output file | `start`, `stop`, `enqueue_trade`, worker `run`/`drain` | `OrderBook` reports trades; `Engine` and `itch_main` start and stop it |
| `find_prev_set_bit`, `find_next_set_bit`, `round_up_pow2` (`OrderBook.cpp`, `OrderBook.hpp`) | none | word scans of the bitmaps; table sizes | `OrderBook`, `IdMap` |
| `Engine` (`src/src/core/Engine.hpp`) | logger, book, parser | `run` over 18-byte records | `main.cpp` |
| `MmapParser` (`src/src/ingestion/MmapParser.*`) | descriptor, mapping | constructor, destructor | `Engine` |
| `ItchParser` (`src/src/ingestion/ItchParser.cpp`) | cursor, a book per locate, `ref_owner` | one pass over the file: A, F, E, C, X, D, U | `itch_main.cpp` |
| `main.cpp`, `itch_main.cpp` (`src/src/core`) | arguments; `allowed_locates` | one replay of a file | the shell |

Two threads exist: the matching thread (parser, books, producer side of the
ring, start and stop) and the logger's worker (consumer side of the ring, the
file). They share only the ring, `running_` and `dropped_`. Everything else is
sequential, so what is hard in the book is not interleaving but agreement:
seven structures (lists, pool, id map, bitmap, volumes, cached top, live count)
are updated piecemeal by some twenty code paths, and a slide of the window
rewrites all of them at once.

What makes each component correct:

* **OrderBook**: the structures agree after every step; the cached best is the
  best; bids and asks do not cross; orders of a price keep their time priority;
  every trade is at the level's price, within the taker's limit and paid for by
  both orders; an order leaves the book only when filled or cancelled; calls
  return.
* **IdMap**: `find` returns the slot of the order with that id if it rests, and
  nothing otherwise, however the ids collide.
* **SPSCQueue**: FIFO, whole items, no race on a slot, indices within capacity.
* **AsyncLogger**: what the ring accepts reaches the file once and in order,
  the rest is counted; one reader at a time; `stop` returns.
* **OrderPool and the level lists**: free list and level lists never share a
  slot and lose none, although one field links both; the loops that change a
  list while they walk it visit each order once and end.
* **ItchParser**: a later message finds the book that took the order, if it
  still has it, and otherwise does nothing; no book shows an order the exchange
  does not have; the cursor never leaves the mapping and never loses the record
  boundaries; every refusal and return releases what is held.
* **Engine, MmapParser**: every record of the file is dispatched, and nothing
  else; every failure releases what was acquired.

The hazards behind these (each with its line and the properties that guard
it) are listed in `PROJECT.json`.

## 2. Modules

| Module | Models | Form |
|---|---|---|
| `PriceTimeBook` | what a book with price-time priority promises | abstract specification |
| `OrderBook` | the matching core | specification and properties |
| `PriceTimeRefinement` | `OrderBook` in the terms of `PriceTimeBook` | refinement mapping |
| `OrderBook_proofs` | | the properties of `OrderBook`, the contract of its calls and the refinement, as theorems |
| `BookContract` | what a caller of the book may rely on: the outcomes of each call | operators |
| `BookCalls` | `OrderBook` call by call, compared with `BookContract` | composition |
| `ItchReplay` | order routing: `ref_owner` and a book (`BookContract`) per stock | specification and properties |
| `ItchReplay_proofs` | | all its properties, as theorems |
| `ItchFraming` | the message loop: cursor, bounds checks, mapping | specification and properties |
| `ItchFraming_proofs` | | its invariants, as theorems |
| `SlotLists` | FIFO lists of slots and a set of free ones | abstract specification |
| `OrderStore` | free list and level lists, link by link | specification, refines `SlotLists` |
| `OrderStore_proofs` | | its invariant and the refinement, as theorems |
| `IdMap` | the id table | specification and properties |
| `IdMap_proofs` | | its properties, as theorems |
| `TableStore` | `OrderStore` behind `Table == INSTANCE IdMap` | composition |
| `BitmapScan` | the two word scans and the bits they rest on | specification and properties |
| `BitmapScan_proofs` | | its property, as a theorem |
| `Sizing` | pool and table sizes in narrow integers | operators; `MC_IdMap` states what they must give as assumptions |
| `Engine` | `main.cpp`, `Engine`, `MmapParser`, on `BookContract` | specification and properties |
| `Engine_proofs` | | its properties, as theorems |
| `SPSCQueue` | the ring | specification and properties |
| `AsyncLogger` | the logger's two threads over the ring (EXTENDS `SPSCQueue`) | specification and properties |
| `AsyncLogger_proofs` | | the safety properties of the ring and of the logger, as theorems |
| `MC_*` | | for TLC: symmetry sets, refinement mappings, inputs, bounds |

An operator named `X_Word` just before `X` is a deliberate slip in `X`, used
only to confirm that a property notices it.

### OrderBook

The book is used by one thread, so a call that cannot match is one action. A
call that can match is several: its entry (`insert_limit_order` with its three
outcomes `AcceptInBand`, `AcceptAfterRebase`, `RejectOutOfBand`, or
`process_market_order`), one `match_against_asks` / `match_against_bids` per
iteration of the inner loop, and `RestRemainder` or `DiscardRemainder`. Between
them `taker` holds the locals of the call (id, side, price, relative limit,
quantity left), and no other call starts. The granularity lets the invariants
look into the middle of a sweep, where each trade becomes visible to the logger.

Correspondence: `queue[side][i]` is the list headed by `bids_[i]`/`asks_[i]`;
`level_price`, `total_volume` and `bitmap` are the fields of the level and the
words of `bid_bitmap_`/`ask_bitmap_` as a set of indices; `best` and `best_qty`
are `tob_`; `pool[s]` is an order or `NULL` when the slot is on the free list;
`id_map` is the partial function the table stands for. `UINT32_MAX` as a best
price is `NoLevel`, above every index as in the code. `trade` is the record
passed to the logger by the last step.

Abstractions: the free list is a set (any free slot may be allocated); lists
are sequences; the 64-bit words of the bitmap are a set; timestamps and the
`bool` results are left out (they are in `BookContract`, for `ItchReplay`, which
uses them). `total_volume` keeps its wrap-around (`VolumeMod`). The price of an empty
level is kept at 0; the code leaves the old price but never reads it. Calls on
an unknown id return at once and are not actions. Ids of resting orders are
not reused for a new order: that is the contract of both feeds
(`data/generate_mock_data.py` counts up; ITCH reference numbers are unique in a
session).

### IdMap

`home` assigns each id its home slot and is chosen in `Init` from `Hashes`, in
most configurations all functions, so one run covers all ways ids can collide.
`insert` and `find` are linear probing, and a step that probes is enabled only
if the probe ends (`ProbesEnd` states that it always does); `erase` is the
code's backward shift, whose test reduces to "is the entry away from its home
slot" because `nxt` is always `cur + 1`. The shift is stated as one function of
the table: the run of displaced entries after the erased slot moves back by
one. `held` is what a perfect map would contain.

### OrderStore and SlotLists

`OrderStore` has what `OrderBook` abstracts: `next_idx` and `prev_idx` as
functions on slots, `free_head`, and head, tail and count of each level.
`deallocate` overwrites the same `next_idx` that linked the order in its level,
so matching reads the successor first (`Following`) and the slide of the window
reads it before it relinks (`MoveOne`). These two loops take a step per order
with their locals in `job`, so that what they rely on is visible between two
orders; linking and unlinking one order is one step. `held` are the slots the
id map leads to. `SlotLists` knows only sequences, which an order joins at the end and leaves from
any place; the mapping reads the lists off the links (`Walk`, cut off after as
many steps as there are slots, so that it is defined on any links). The order in which calls come is
left open (any order may be cancelled, any occupied level matched), which only
adds behaviours.

### TableStore

The same memory behind the real table instead of an exact map: a call that
names an id believes what `find` returns, while matching and the slide reach
slots through the levels and only call `erase`. Hash functions map to two
neighbouring home slots. `misled` records that a call acted on a slot that is
not its order's; what happens to the book afterwards is not followed, because
no property would survive it.

### BookContract, BookCalls and ItchReplay

Modules above the book do not need its window. `BookContract` says what they
may rely on: an insertion may lose resting orders (a slide), fill orders the
new one crosses, in any set (the contract has no price priority, since neither
caller depends on it), cut one in part, and may or may not leave the remainder
behind. `BookCalls` runs `OrderBook` call by call and checks that every call,
slides and full pools included, ends in an outcome `BookContract` allows, with
the trades it allows. It remembers what a call was asked, and what rested then,
only while the call is under way, so the run `window` checks the contract
together with the invariants of `OrderBook`.

`ItchReplay` has a book per stock, `ref_owner` as a partial function from ids
to the book an entry leads to, and `feed`, the exchange's own view, as the
reference. One action per message type; 'A' and 'F' are handled alike, and 'E'
and 'C' (`Report` is what they and 'X' share). A 'U' for an order the book no
longer has inserts nothing and keeps the stale entry, as in the code. The feed
uses a reference number once and never executes or cancels more than an order
has; nothing else is assumed of it. `lost` marks the orders a book did not take
whole or lost on its own: the replay matches orders itself, so on a feed that
crosses (`TradesOnlyIfFeedCrosses`) and on a slide it can know less than the
exchange.

### ItchFraming

The cursor, the size of the mapping and the marks of what was read
(`touched`: one past the last byte read). A file is a sequence of
records whose prefix says how long they are; the mapping may end anywhere.
Sizes are the real ones: a header of 3 bytes, of which 2 are the length, and
structs of 18 to 39 bytes. Failure of `open` and `mmap` is a step of its own, and
so is a failing allocation: of the table of books and the routing map before the
first record (`TablesThrow`), and in any handler (`HandlerThrows`: a book, an entry
of `ref_owner`, a sample of the latency). Nothing in the function owns the
descriptor or the mapping, so such an exception leaves with both held, and ends
the process. `HeldJustForWalk` says what is held in every phase, this one
included.

### BitmapScan and Sizing

`BitmapScan` is the two scans word by word. A word of `WordBits` bits is the
set of its bits that are 1, and so is a mask: the shifted `~0` are intervals of
bits, `&` is intersection, the counts of leading and trailing zeros give the
greatest and the least bit. `occupied` is what the words stand for, and
`ScanExact` is the licence for `OrderBook` to take the extremum of a set.
`Sizing` is the constructor's doubling in `uint32_t` and the two
`round_up_pow2`, applied one after the other, in `Width` bits. Sizes are fixed
when a book is built, so there is nothing to explore: `MC_IdMap` states as
assumptions, which TLC evaluates, that the table is the least power of two that
is half empty (`SizesExact`), that the mask is a remainder (`MaskIsModulo`), and
that pools beyond a quarter of the range get a smaller table (`LargePoolsWrap`).

### Engine

`Engine` follows `main.cpp`: construction of `MmapParser` with each failure,
`run` record by record with each call's outcome from `BookContract`, `stop`,
destructors. Of the logger it has only whether the worker runs: that `stop`
returns, with every accepted trade in the file, is what `AsyncLogger` shows, and
the licence for `stop` to be one step here. The file is any sequence of limit,
market, cancel and unknown records, with any `side` byte. Three things are assumed
of it (`WellFormed`). Because `BookContract` speaks of no other calls and
`generate_mock_data.py` writes no others, an id is given to one limit order, and
every order has a quantity; and no limit order is priced above `TopPrice`, so that
a market order to buy, which sweeps up to `TopPrice`, reaches all of them.

### SPSCQueue and AsyncLogger

`emplace` and `pop` are split at their accesses to shared memory: load of the
other index, access to the slot, releasing store. Release/acquire is modelled
by letting a load return any value between the loader's cached copy and the
current one. A slot being written contains `TORN`, so copying it at the wrong
moment would show. `AsyncLogger` conjoins its own steps with those of the ring:
the controller thread produces and the worker consumes until `running_` is
cleared; after the join the controller consumes what is left. `received` is the
file, since each trade popped is written.

## 3. Runs

| Run | Configuration | Result |
|---|---|---|
| `window` | `MC_BookCalls`: 4 ids, 3 slots, prices 0,1,2,3,5, quantities 0..2, band 3, rebase limit 3, volumes modulo 3 | 109,601 states, passes |
| `wide` | `MC_OrderBook`: 3 ids, 2 slots, 2 prices, band 6, limit 2 | 47,263 states, passes |
| `store` | `MC_OrderStore`: 3 slots, 2 levels a side, 4 prices | 47,784 states, passes |
| `id_table` | `MC_IdMap`: 4 ids, 3 slots, table of 8, every hash function; sizes in 8 bits | 18,236 states, passes |
| `bitmap` | `MC_BitmapScan`: words of 3 bits, 8 levels | 9,364 states, passes |
| `logger` | `AsyncLogger`: 6 trades, ring of 2 | 1,404 states, passes |
| `itch_books` | `MC_ItchReplay`: 4 stocks, 2 of them tracked, 3 ids, 3 prices, quantities 1..3 | 489,248 states, passes |
| `framing` | `MC_ItchFraming`: up to 2 records of types A, D and an ignored one, lengths 0, 2, 19, 36, mappings of 0..80 bytes | 431,607 states, passes |
| `engine` | `MC_Engine`: files of up to 3 records, 2 ids, 2 prices, quantities 1..2 | 292,296 states, passes |
| `rebase_crossed`, `count_drift` (`MC_OrderBook`), `table_misled` (`MC_TableStore`) | as small as the disagreement allows | violated, see section 5 |

**What they show.** `window`: the seven structures of the book agree in every
state, also between two fills; steps keep time priority, resting orders and the
accounting of trades; only a slide can lose the best (`OnlyRebaseLosesTop`: all
other steps keep the cached best exact and the book uncrossed) and it drops no
order that fits the new window; and every call
ends in an outcome of `BookContract`. `wide`: a book whose window never moves
implements `PriceTimeBook`. `store`: the links, at every order of every loop,
implement plain FIFO lists and lose no slot. `id_table`: the table neither drops
nor duplicates nor mixes up entries, and `erase` is right on tables in
robin-hood order. `bitmap`: the scans return the nearest level. `logger`: nothing
accepted is lost, reordered or torn, a trade is accepted only into a free slot and
dropped only by a reading of `head_` that leaves none, threads stay apart, `stop`
returns.
`itch_books`: books that lose orders on their own never make the replay show,
keep or route an order wrongly. `framing`: no length leaves the mapping or loses
a whole message, and what is held is known by the phase. `engine`: every way out of `main` gives everything back, and
the book shows only what the file says.

**Bounds of `window`.** Three levels are the least with an inside and two
edges; prices 0 and 1 exercise the clamp at 0, 5 forces slides by more than a
window; three slots allow a list with a middle element and leave a fourth
order to find the pool full; the count bound exceeds the rebase limit, so
rejections happen; two orders of quantity 2 overflow the volume, here and in `wide`. `CountBound`
(guard of `Call`) is the only bound on an otherwise unbounded variable,
`live_order_count`, which drifts upward (section 5). Ids and slots are
symmetric; the properties of this run are invariants and action properties, for
which that is sound.

**`wide`** makes the window cover all prices, so it is anchored once and never
slides: exactly the condition under which the book is meant to be a plain
price-time book (`WideWindow`, the hypothesis of the theorem, which this instance
satisfies). The refinement `ImplementsPriceTime` is one of safety; that a call ends
is `CallReturns`, under the fairness of `OrderBook`. No symmetry, since there is a
liveness property.

**`store`.** Three slots give a list with a middle element; two levels with
four prices give slides that move every level, some and none.

**`id_table`.** Three resting orders and one more id are enough for chains that
are shifted, wrap around the end of the table and run through one another. The
model leaves the table at least half empty, as the constructor does. Deadlock
checking is off because every id is used once. The sizes are exhaustive in
their width; shifts 1, 2, 4 are to 8 bits what 1, 2, 4, 8, 16 are to 32.

**`bitmap`.** Three words, the last not full, of three bits, so that a word has
two edges and an inside: every set of levels and every start in either
direction.

**`logger`.** Six trades go round a ring of two three times, and overrun it,
with stale loads at every turn and with the worker exiting or being asked to
exit at every point. Its final state is a self-loop. The theorems of section 4
cover every capacity and number of trades.

**`itch_books`.** Two tracked stocks, one that is not allowed and one that is
allowed but beyond the table of books; three ids are two makers and a taker, or
an order, the one that half filled it and its replacement. The theorems cover
all sizes. Deadlock checking is off because a reference number is used once.

**`framing`.** The lengths are: nothing, too short for a header, just a delete,
just an add. Two records are enough for one to be cut off, misread or skipped
because of the one before; the mapping may also be longer than the records, so
that garbage follows.

**`engine`.** Three records are a maker, a taker and one more taker or cancel;
each file exists whole and with a byte too many, and each acquisition may fail.

**Fairness.** The message loop of `ItchFraming` and the walking loops of
`OrderStore` are loops of one thread that wait for nothing: weak fairness of the
loop, never of who calls it. A call of the book that has begun is a loop of one thread:
`WF_vars(Continue)`; nothing makes callers call. In the logger both threads are
scheduled: weak fairness of the steps of calls already begun, never of
`enqueue_trade` or `stop`. Strong fairness of `worker_exits` and
`worker_drains` expresses that a store to an atomic becomes visible in finite
time to a thread that keeps loading it (the C++ standard's forward-progress
recommendation): without it a worker could see an old `running_` or `tail_`
for ever.

## 4. Proofs

`OrderBook_proofs` proves, for every set of ids, prices and quantities, every
finite pool, window width, rebase limit and volume width:

| Theorem | Says |
|---|---|
| `TypeCorrect` | `Spec => []TypeOK` |
| `QueuesStayPartition` | `Spec => []QueuesPartitionPool` |
| `IdMapStaysExact` | `Spec => []IdMapExact` |
| `BitmapStaysExact` | `Spec => []BitmapExact` |
| `BestStaysLive` | `Spec => []BestIsLive` |
| `TakerStaysInWindow` | `Spec => []TakerInWindow` |
| `LevelPricesStayExact` | `Spec => []LevelPriceExact` |
| `CountStaysAbove` | `Spec => []CountCoversBook` |
| `OrdersAreKept` | `Spec => RestingOrdersKept` |
| `TimePriorityIsKept` | `Spec => TimePriorityKept` |
| `TradesAreConserved` | `Spec => TradesConserve` |
| `LevelsStayExact` | `Spec => []LevelsExact` |
| `TopQtyIsCovered` | `Spec => []TopQtyNeverOverstates` |
| `OnlyASlideLosesTop` | `Spec => OnlyRebaseLosesTop` |
| `CallsKeepContract` | `CallSpec => []KeepsContract` |
| `FlatBookIsPriceTime` | `WideWindow` implies `Spec => ImplementsPriceTime` |

*Assumptions.* `BookAssumption`: the pool is finite, prices and quantities are
naturals, the band is positive (a band of 0 has undefined behaviour in the
code), `NULL` is none of the values it is compared with. `NullAssumption`: it is
no order and no taker record either. For the contract, `CallsAssumption`: the
prices are finitely many, which makes sets of them have extrema, and `NULL` is no
trade and no face of an order; for the refinement, `WantedAssumption`: nor what a
taker asked for.

*Inductive invariant.* None of the invariants is inductive alone. To remove an
order, `level_remove` must find it in the list that its own fields name, so the
type of the lists depends on `QueuesPartitionPool`; that the id erased is the
right one needs `IdMapExact`; that a rescan returns an occupied level needs
`BitmapExact`; that a resting remainder does not overwrite a live id, and that
its level gets the right price, needs `TakerInWindow`. `IInv` is their
conjunction, with one addition: nothing rests before the first order anchors
the window (`AnchoredFirst`), without which anchoring would change the absolute
price of resting orders. It states the partition list by list (`Partition`):
the range of a list is exactly the set of slots whose order names it.

*Argument.* Lemmas about extrema of sets of naturals and about unlinking and
appending in a repetition-free list; then, for an arbitrary pool, map and set
of lists, what removing, adding and sliding do to the partition and to the map;
then one lemma per kind of step, all removals and reductions sharing
`ShrinkKeepsInvariant`; `StepKeepsInvariant` collects them.
The second part starts from `IInv` and shows that every step has one of
five effects on the orders that rest (`StepEffect`): none, one leaves, one
shrinks in place, one arrives, or the window slides. The count, the identity of
resting orders and time priority are then argued per effect; for the last, what
matters is that unlinking and appending keep the order of the other members of
a list and that a slide moves whole lists. Trades are argued at the two places
that report one, a fill of the matching loop and `execute_order`.

*Volumes.* `VolumeOf` and `QuantityOf` are folds, and what a fold computes is
usually shown by induction with an operator parameter. Here a lemma on sums over
finite sets is proved by a minimal counterexample instead (the smallest set, in
the well-founded order of strict inclusion, on which two ways of summing
differ), and from it what a sum becomes when an order joins, leaves, shrinks or
moves. `LevelsExact` then follows from the effects above. `TopQtyNeverOverstates`
needs `TopInv`, which also speaks of the middle of a call: the cached quantity
is covered by what rests, except on the side a taker still crosses, where the
loop refreshes it before the call returns.

*The cached best.* For `OnlyRebaseLosesTop` every step but the anchored slide is
shown to keep `BestExact` and `NotCrossed`, both sides together: a rescan starts
at a best that was exact, so all it skips is empty, and an order that rests
arrived with no opposite level within its limit.

*The contract.* `CallInv` says of a call under way that the view callers have
(`View`) is the one the call started from without the orders a slide dropped and
those filled since, that these are the makers reported, and that what the taker
has left is what those fills left. Each step is first restated on views, then each call is closed with
the outcome of `BookContract` it is.

*The refinement.* While `WideWindow` holds, the window is anchored by the first
order and every price of the feed has an index in it. `RInv` adds to `IInv` that
the best is exact, the book not crossed and that prices and indices correspond.
A lemma per kind of change restates a list of slots as the queue of ids and
quantities it stands for (append, cut in place, remove at a position); then each
step of `OrderBook` is a step of `PriceTimeBook` or does not show. `WideWindow`
is the condition under which this holds at all: `rebase_crossed` shows what a
slide does to it.

**OrderStore** (`OrderStore_proofs`). `LinksStayExact` and `ListsImplemented`
(`Spec => ImplementsLists`), for every pool, window and set of prices
(`StoreAssumption`). The invariant `SInv` says that there are sequences `q`, one
for the free list, one per level and, during a slide, one per level of the new
arrays, which share out the slots and which `next_idx`, `prev_idx` and the
records of the levels link (`Good`), and that the cursor of a walking loop and
what it has not reached fit them (`Behind`, `InRange`). It is stated with an
existential, so that a step can be argued on sequences: taking a slot out of
one, adding it before or behind another. `WalksAre` ties it to the model, whose walks along the links give just these
sequences. That a chain of links has only one reading is shown by least
counterexample, not induction.

**IdMap** (`IdMap_proofs`). `HeldOrdersStoredOnce`, `LookupsNeverMisdirect`
(where a probe ends, `find` gives a resting order its own slot or nothing)
and `EraseKeepsOrderedLookups`, for every size of the table and every hash
function (`TableAssumption`: half of the table is spare when it is built, the
code's sizing). The invariant is small, types, `HeldStoredOnce` and that an id no
order had yet is in no entry; the work is the backward shift, stated as a map of
slots that is one to one on the run it moves. `OrderedEraseKeepsLookups` asks
for an `EMPTY` slot as well as for robin-hood order: in a full table the run
that is shifted has no end.

**BitmapScan** (`BitmapScan_proofs`). `ScansAreExact`, for every width of a word
and every band. The invariant says that the words mirror the occupied levels,
that the bits of a scan under way are those of its word that count, and that
nothing that counts lies between its start and that word (`Downward`, `Upward`).
What division and remainder give is in a few lemmas about `At(n, b)`, the level
of bit `b` of word `n`.

`ItchReplay_proofs` proves all seven properties the module states, two of which
(`TypeOK`, `OneStockPerMessage`) no run checks in addition, for any sets of
stocks, ids, prices and positive quantities and any allowed stocks
(`ReplayAssumption`, and `NullOrderAssumption`: `NULL` is no order):
`TypeCorrect`, `NoGhostOrders`, `RestingOrdersAreRouted`,
`NoEntryLeadsAstray`, `ReplayIsExact`, `OneStockAtATime`, `TradesNeedACross`.
The invariant joins the four state properties with one fact, that every order
of the feed was announced for its own stock (`FeedGood`), without which a stale
entry could lead to another stock's book. It is written as `Good(...)` of
explicit values, because a replacement is a deletion and then an insertion: each half
is a lemma (`DeleteKeeps`, `InsertKeeps`) and the value between them is no state
of the module. What a call of a book can do is in two lemmas, `InsertEffect`
and `ReduceEffect`, the only ones that look into `BookContract`.

`ItchFraming_proofs` proves `TypeCorrect`, `NoReadOutside`,
`CursorStaysAligned`, `WholeMessagesAreHandled` and `HeldByPhase` for every file, set of types
and lengths and size of the mapping. The invariant says what the cursor has
passed: all records before `next` were whole, and handled if they had room for
their struct; and the loop stopped only at a record that is not whole.

`AsyncLogger_proofs` first proves `TypeOK`, `IndicesOrdered`, `Fifo` and `NoRace` of
the ring for every capacity and every item set. The invariant relates the four
indices to the two histories: the slots between `head` and `tail` hold the last
items of `sent`, and the slot being written is outside that range; that two
indices less than `Capacity` apart use different slots is a lemma about `%`.

It then proves `LoggerTypeOK`, `Fifo`, `ThreadsApart`,
`NothingLostAtClose` and `EnqueueAnswers` of the logger, for every capacity,
number of trades and stale load (`LoggerAssumption`: trades are numbered in the
order of the calls). Every step of the logger is a step of the ring or leaves it
alone (`LoggerStepIsRingStep`), so the ring's invariant carries over. What is
added says what the calls have come to (`Accounted`: accepted, dropped and one
perhaps under way make up those reported, and the accepted ones are in order) and
what each phase of the shutdown has established (`Phases`: no write is under way
once `stop` is called, the worker has exited before the final drain, which ends
with `head = tail`). `EnqueueAnswers` is about steps: the file has `head` rows and
`sent` has `tail` (`RowsAreHead`), and the copy of `head_` is never ahead of it nor
more than `Capacity` behind `tail`, so a copy that admits a trade has a free slot,
and one that refuses leaves exactly `Capacity` trades unread.

**Engine** (`Engine_proofs`). For every set of well-formed files, every size of
a record above 1 and every outcome `BookContract` allows a call: `Released`,
`WholeFile` and `RestingFromFile`. The invariant has three parts. `Holding` says
by phase what main holds, and carries `Released` alone. `Progress` says that past
the constructor the size is a multiple of the record and how `i` relates to
`count`; that an accepted size is that of whole records (`GoodSize`) is where the
division is reasoned about. `Placed` ties every entry of the book to the record
that placed it, through what an insertion may leave (`InsertEffect`); it needs
`Progress` for the record processed to be one of the file's.

*Model-checked only.* Liveness: `CallReturns`, `StopReturns`,
`AcceptedIsWritten`, `Returns` and `LoopsEnd`, which is beyond the prover. `Sizing`,
whose operators on bits the prover has no definitions for; and `TableStore`, whose
one property fails. Every other property of a passing run is the conclusion of a
theorem. *Proved only*: `TakerInWindow`, `OneStockPerMessage`, `IndicesOrdered`,
`NoRace` alone, `LookupsNeverMisdirect`, and the type invariants of the ring,
the logger and the replays.

## 5. Where the code and its documentation disagree

Three of these are runs with `expect: violation`; the trace TLC prints is the
shortest history. The others have a configuration of their own beside the runs,
with which TLC prints theirs.

* **The best is lost by a slide, and the book rests crossed** (run
  `rebase_crossed`, `OrderBook.cpp:449-451`). The rescan after a slide starts at
  the best price *as an index into the old window*. A bid that moved to a higher
  index, or an ask to a lower one, is not seen
  (`MC_OrderBook_rebase_best.cfg`), and an incoming order that crosses the
  forgotten level rests against it.
* **The live count drifts** (run `count_drift`, `OrderBook.cpp:454-478`).
  `cancel_order` does not decrement `live_order_count_`, so after enough
  cancels a book of few orders, even an empty one, no longer re-anchors. The run
  has a limit of 2 and a pool of 4 slots: three orders rest, one is cancelled, and
  with two at rest every price outside the window is rejected.
* **A trade is dropped by a ring with room** (`MC_AsyncLogger_stale.cfg`,
  `DropsOnlyWhenFull`, `SPSCQueue.hpp:26-28`). The comment there says "genuinely
  full", and so does `README.md:192`. An acquire load may return a `head_` that the
  worker has stored over since, so a trade can be dropped and counted while slots
  are free. What does hold is `EnqueueAnswers`.
* **A cancel takes another order off the book** (run `table_misled`,
  `OrderBook.hpp:128-141`, `OrderBook.cpp:455`). `erase` stops at an entry in
  its home slot, which presumes robin-hood order; `insert` does plain linear
  probing. A resting order can so become unreachable
  (`MC_IdMap_lost.cfg`, `FindsEveryHeld`); `erase` of its id does nothing, and
  the entry outlives the order. Later the id leads through that entry to a slot
  another order has taken. `OrderedEraseKeepsLookups` shows that `erase` is right
  on tables that are in robin-hood order.
* **The table fills up** (`MC_IdMap_full.cfg`, `ProbesEnd`,
  `OrderBook.hpp:113`). Entries left behind count against the capacity for ever.
  Eight slots fill while at most four orders rest; then `find`, `insert` and
  `erase` of an absent id do not end. `OrderBook.cpp:26` says the table is sized
  to the live orders.
* **A slide drops orders** (`MC_OrderBook_rebase_drops.cfg`,
  `RebaseKeepsOrders`, `OrderBook.cpp:365-376,408-418`), before it is known
  whether the order that caused it even rests; `OrderBook.hpp:224` says all
  levels are moved.
* **A malformed record is handled** (`MC_ItchFraming_malformed.cfg`,
  `MalformedNotHandled`, `ItchParser.cpp:98`). The struct is checked against the
  end of the mapping, not of the record.
* **A large pool gets a small table** (assumption `LargePoolsWrap` of
  `MC_IdMap`, `OrderBook.cpp:19`). Above 2^30 orders the size of the table wraps,
  just above it to one slot.

`OrderBook`, `BookContract` and what stands on it use an exact `id_map`. Their
results therefore hold of the code as long as the table behaves as a map;
`IdMap` and `TableStore` show when it does not.

## 6. Not modelled, and the plan

Not modelled: `Telemetry.hpp` (empty), benchmarks and the STL baseline (they
measure the code), tests and the data generator (read for the contract of the
feeds), the latency samples and reports, the wording of the log, byte order
(`be16toh` and its like: pure conversions of fields) and timestamps.

The command lines (`main.cpp`, `itch_main.cpp`) parse arguments, make one call
and print a report; they keep no state a step could get wrong. Of `main.cpp`,
`Engine` has the construction, the catch and the destructors; of
`itch_main.cpp`, `ItchReplay` has the set of allowed locates as a constant. Two
things a reader of it should know, visible in four lines: a list of nothing but
empty tokens leaves `allowed_locates` empty, which tracks every ticker, although
`README.md:241` speaks of values "you explicitly opt into", and a number beyond
16 bits is cut and tracks another ticker (`itch_main.cpp:71-78`). When the ITCH
parser throws, nothing catches it and the process ends with the worker running;
the code promises nothing of the report then, so there is nothing to state.

Every component that keeps state is modelled, and every safety property of a
passing run is proved. What is left to prove:

1. `ItchReplay` on `OrderBook` itself: that the outcomes `BookContract` allows
   and `BookCalls` shows are all the replay needs is argued module by module, not
   in one theorem.
2. A robin-hood insertion for `IdMap`, with which `Ordered` would be an invariant
   and `FindsEveryHeld` a theorem: what a repair of section 5 would give.

## 7. Running it

    tlc -config MC_BookCalls_window.cfg MC_BookCalls
    tlc -config MC_AsyncLogger_run.cfg AsyncLogger
    tlc -config MC_ItchReplay_books.cfg MC_ItchReplay
    tlapm OrderBook_proofs.tla
    tlapm OrderStore_proofs.tla
    tlapm IdMap_proofs.tla
    tlapm BitmapScan_proofs.tla
    tlapm ItchReplay_proofs.tla
    tlapm ItchFraming_proofs.tla
    tlapm AsyncLogger_proofs.tla
    tlapm Engine_proofs.tla
