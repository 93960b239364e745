----------------------------- MODULE OrderBook -----------------------------
(***************************************************************************)
(* The matching core, src/core/OrderBook.{hpp,cpp}: a price window that    *)
(* slides over the absolute prices, one FIFO level per window index and    *)
(* side, a bitmap of the occupied levels, a cached top of book, the order  *)
(* pool and the id -> pool slot map.                                       *)
(*                                                                         *)
(* A book is used by one thread.  A call that does not match is one        *)
(* action; a matching call is its entry action followed by one action per  *)
(* fill (an iteration of the inner loop of match_against_asks/bids, which  *)
(* is when a trade is handed to the logger thread) and one that rests,     *)
(* drops or discards what is left.  While such a call is on its way        *)
(* "taker" holds its local variables and no other call can start.          *)
(*                                                                         *)
(* A definition named X_Word, just before X, is a plausible slip in X; it  *)
(* is used only to check that the properties notice it.                    *)
(*                                                                         *)
(* The intrusive lists are sequences of pool slots, the free list is the   *)
(* set of free slots, and id_map is the partial function IdMap stands for. *)
(* The trailing underscore of the C++ member names is dropped.             *)
(***************************************************************************)
EXTENDS Integers, Sequences, FiniteSets, SequencesExt

CONSTANTS
  Ids,          \* OrderId values
  Slots,        \* pool indices, 0 .. max_orders - 1
  Prices,       \* absolute prices of incoming orders
  Quantities,   \* quantities of incoming orders, fills and cancels
  Band,         \* price_band, the number of levels per side
  RebaseLimit,  \* BOOTSTRAP_REBASE_LIMIT
  CountBound,   \* bound of the model on live_order_count
  VolumeMod,    \* 2^32, the width of PriceLevel::total_volume
  NULL          \* NULL_IDX, "no taker", "no trade", taker id 0

ASSUME BookAssumption ==
  /\ IsFiniteSet(Slots)
  /\ Prices \subseteq Nat
  /\ Quantities \subseteq Nat
  /\ Band \in Nat \ {0}
  /\ RebaseLimit \in Nat
  /\ CountBound \in Nat
  /\ VolumeMod \in Nat \ {0}
  /\ NULL \notin Ids /\ NULL \notin Slots /\ NULL \notin Prices

Side == {"BUY", "SELL"}
Opposite(side) == IF side = "BUY" THEN "SELL" ELSE "BUY"
Idx == 0 .. Band - 1
NoLevel == Band   \* UINT32_MAX as a best price: above every index

Order == [id : Ids, side : Side, price : Idx, qty : Nat \ {0}]

Takers == [id : Ids, side : Side, price : Prices,
           limit : Idx, left : Nat \ {0}]
            \union
          [id : {NULL}, side : Side, price : {NULL},
           limit : Idx, left : Nat \ {0}]

Trades == [maker : Ids, taker : Ids \union {NULL}, price : Nat, qty : Nat]

ASSUME NullAssumption == NULL \notin Order /\ NULL \notin Takers

VARIABLES
  base, base_set,     \* the window covers prices base .. base + Band - 1
  live_order_count,
  pool,               \* slot -> [id, side, price (window index), qty] or NULL
  id_map,             \* id -> slot or NULL
  queue,              \* side -> index -> FIFO sequence of slots
  level_price,        \* side -> index -> absolute price (0 when empty)
  total_volume,       \* side -> index -> volume
  bitmap,             \* side -> set of indices whose bit is set
  best, best_qty,     \* tob: side -> index or NoLevel, side -> quantity
  taker,              \* the matching call on its way, or NULL
  trade               \* Trade handed to the logger by the last step, or NULL

levels == <<queue, level_price, total_volume, bitmap>>
tob    == <<best, best_qty>>
window == <<base, base_set>>
vars   == <<window, live_order_count, pool, id_map, levels, tob, taker, trade>>

Live == {s \in Slots : pool[s] # NULL}

-----------------------------------------------------------------------------
(* Top of book: the rescan starts at the cached index and moves away from  *)
(* the spread, over the set bits of the bitmap.                            *)

find_prev_set_bit(bits, start) ==
  LET below == {i \in bits : i <= start}
  IN  IF below = {} THEN NoLevel ELSE Max(below)

find_next_set_bit(bits, start) ==
  LET above == {i \in bits : i >= start}
  IN  IF above = {} THEN NoLevel ELSE Min(above)

update_best_bid(bits, cached) ==
  find_prev_set_bit(bits, IF cached = NoLevel THEN Band - 1 ELSE cached)

update_best_ask(bits, cached) ==
  find_next_set_bit(bits, IF cached >= Band THEN 0 ELSE cached)

update_best(side, bits, cached) ==
  IF side = "BUY" THEN update_best_bid(bits, cached)
                  ELSE update_best_ask(bits, cached)

VolumeAt(volume, i) == IF i = NoLevel THEN 0 ELSE volume[i]

RefreshTop_NoRescan(side, i) ==
  /\ UNCHANGED best
  /\ best_qty' = IF i # best[side] THEN best_qty
                 ELSE [best_qty EXCEPT ![side] = VolumeAt(total_volume'[side], i)]
RefreshTop_StaleQty(side, i) ==
  IF i # best[side] \/ queue'[side][i] # <<>> THEN UNCHANGED tob
  ELSE /\ best' = [best EXCEPT ![side] = update_best(side, bitmap'[side], i)]
       /\ best_qty' = [best_qty EXCEPT ![side] =
                         VolumeAt(total_volume'[side], best'[side])]
(* After level i of a side changed: nothing to do unless it is the cached  *)
(* best; then rescan if it became empty, else refresh the quantity.        *)
RefreshTop(side, i) ==
  IF i # best[side] THEN UNCHANGED tob
  ELSE /\ best' = [best EXCEPT ![side] =
                     IF queue'[side][i] = <<>>
                     THEN update_best(side, bitmap'[side], i) ELSE i]
       /\ best_qty' = [best_qty EXCEPT ![side] =
                     VolumeAt(total_volume'[side], best'[side])]

-----------------------------------------------------------------------------
(* Level lists.                                                            *)

level_append(side, i, s, qty, price) ==
  /\ queue' = [queue EXCEPT ![side][i] = Append(@, s)]
  /\ level_price' = [level_price EXCEPT ![side][i] =
                       IF queue[side][i] = <<>> THEN price ELSE @]
  /\ total_volume' = [total_volume EXCEPT ![side][i] =
                        (@ + qty) % VolumeMod]
  /\ bitmap' = [bitmap EXCEPT ![side] =
                  IF queue[side][i] = <<>> THEN @ \union {i} ELSE @]

Unlink_Head(q, s) == Tail(q)
Unlink_SwapLast(q, s) ==
  LET k == CHOOSE j \in DOMAIN q : q[j] = s
  IN  SubSeq([q EXCEPT ![k] = q[Len(q)]], 1, Len(q) - 1)
(* Take slot s out of a list; the others keep their order.                 *)
Unlink(q, s) == RemoveAt(q, CHOOSE k \in DOMAIN q : q[k] = s)

ClearBit_Never(bits, i, q) == bits
(* The bit of index i when its list has become q.                          *)
ClearBit(bits, i, q) == IF q = <<>> THEN bits \ {i} ELSE bits

(* The price of an empty level is 0 here: the code leaves the old one, but *)
(* never reads it before insert_limit_order or rebase_base writes it anew. *)
level_remove(s) ==
  LET o    == pool[s]
      rest == Unlink(queue[o.side][o.price], s)
  IN  /\ queue' = [queue EXCEPT ![o.side][o.price] = rest]
      /\ level_price' = [level_price EXCEPT ![o.side][o.price] =
                           IF rest = <<>> THEN 0 ELSE @]
      /\ total_volume' = [total_volume EXCEPT ![o.side][o.price] =
                            (@ - o.qty) % VolumeMod]
      /\ bitmap' = [bitmap EXCEPT ![o.side] =
                      ClearBit(@, o.price, rest)]

RemoveOrder_NoErase(s) ==
  level_remove(s) /\ pool' = [pool EXCEPT ![s] = NULL] /\ UNCHANGED id_map
(* level_remove, IdMap::erase and OrderPool::deallocate: how an order      *)
(* leaves the book in cancel_order, execute_order and the matching loops.  *)
RemoveOrder(s) ==
  /\ level_remove(s)
  /\ id_map' = [id_map EXCEPT ![pool[s].id] = NULL]
  /\ pool' = [pool EXCEPT ![s] = NULL]

ReduceOrder_KeepVolume(s, qty) ==
  /\ pool' = [pool EXCEPT ![s].qty = @ - qty]
  /\ UNCHANGED <<id_map, queue, level_price, total_volume, bitmap>>
(* An order gives up part of its quantity and keeps its place.             *)
ReduceOrder(s, qty) ==
  LET o == pool[s]
  IN  /\ pool' = [pool EXCEPT ![s].qty = @ - qty]
      /\ total_volume' = [total_volume EXCEPT ![o.side][o.price] =
                            (@ - qty) % VolumeMod]
      /\ UNCHANGED <<id_map, queue, level_price, bitmap>>

CountDown_OffByOne(n) ==
  IF live_order_count > n THEN live_order_count - n - 1 ELSE 0
(* if (live_order_count_ > 0) --live_order_count_, n times.                *)
CountDown(n) == IF live_order_count > n THEN live_order_count - n ELSE 0

-----------------------------------------------------------------------------
(* The sliding window.                                                     *)

Centred_NoClamp(price) == price - Band \div 2
(* The base that centres a price in the window.                            *)
Centred(price) == IF price < Band \div 2 THEN 0 ELSE price - Band \div 2

(* The base the band check of insert_limit_order sees: the first order     *)
(* anchors the window.                                                     *)
AnchoredBase(price) == IF base_set THEN base ELSE Centred(price)

Relabelled_Stale(o, shift) == o
(* An order whose level moves by shift.                                    *)
Relabelled(o, shift) == [o EXCEPT !.price = @ + shift]

(* What the orders of a list add up to, and in the width of total_volume.  *)
QuantityOf(q) == MapThenSumSet(LAMBDA s : pool[s].qty, Range(q))
VolumeOf(q)   == QuantityOf(q) % VolumeMod

(* Slide the window: every level keeps its absolute price and moves by     *)
(* shift; the orders of a level that falls out of the window are dropped.  *)
(* The new best prices are searched from the cached, old indices.  (The    *)
(* early return for an unchanged base is never taken: a price outside the  *)
(* window centres another one.)                                            *)
rebase_base(new_base) ==
  LET shift   == base - new_base
      Moved(i) == i - shift
      dropped == UNION {Range(queue[side][i]) :
                          side \in Side, i \in {j \in Idx : j + shift \notin Idx}}
      gone    == {pool[s].id : s \in dropped}
  IN  /\ queue' = [side \in Side |-> [i \in Idx |->
                     IF Moved(i) \in Idx THEN queue[side][Moved(i)] ELSE <<>>]]
      /\ pool' = [s \in Slots |->
                    IF pool[s] = NULL \/ s \in dropped THEN NULL
                    ELSE Relabelled(pool[s], shift)]
      /\ id_map' = [id \in Ids |-> IF id \in gone THEN NULL ELSE id_map[id]]
      /\ live_order_count' = CountDown(Cardinality(dropped))
      /\ level_price' = [side \in Side |-> [i \in Idx |->
                           IF queue'[side][i] = <<>> THEN 0
                           ELSE base + Moved(i)]]
      /\ total_volume' = [side \in Side |-> [i \in Idx |->
                            VolumeOf(queue'[side][i])]]
      /\ bitmap' = [side \in Side |-> {i \in Idx : queue'[side][i] # <<>>}]
      /\ base' = new_base
      /\ best' = [side \in Side |->
                    update_best(side, bitmap'[side], best[side])]
      /\ best_qty' = [side \in Side |->
                        VolumeAt(total_volume'[side], best'[side])]

-----------------------------------------------------------------------------
(* Matching calls.                                                         *)

Taker(id, side, price, limit, qty) ==
  IF qty = 0 THEN NULL
  ELSE [id |-> id, side |-> side, price |-> price, limit |-> limit, left |-> qty]

(* insert_limit_order up to the matching loop: anchor the window, then     *)
(* accept the price, or slide the window to it, or reject the order.       *)
AcceptInBand(id, side, price, qty) ==
  LET b == AnchoredBase(price)
  IN  /\ price - b \in Idx
      /\ base' = b
      /\ taker' = Taker(id, side, price, price - b, qty)
      /\ UNCHANGED <<live_order_count, pool, id_map, levels, tob>>

AcceptAfterRebase(id, side, price, qty) ==
  /\ price - AnchoredBase(price) \notin Idx
  /\ live_order_count <= RebaseLimit
  /\ rebase_base(Centred(price))
  /\ taker' = Taker(id, side, price, price - Centred(price), qty)

Rejects(price) ==
  /\ price - AnchoredBase(price) \notin Idx
  /\ live_order_count > RebaseLimit

RejectOutOfBand(price) ==
  /\ Rejects(price)
  /\ UNCHANGED <<base, live_order_count, pool, id_map, levels, tob, taker>>

insert_limit_order(id, side, price, qty) ==
  /\ taker = NULL
  /\ base_set' = TRUE
  /\ \/ AcceptInBand(id, side, price, qty)
     \/ AcceptAfterRebase(id, side, price, qty)
     \/ RejectOutOfBand(price)
  /\ trade' = NULL

(* A market order sweeps to the last index of the opposite side.           *)
process_market_order(side, qty) ==
  /\ taker = NULL
  /\ taker' = Taker(NULL, side, NULL, IF side = "BUY" THEN Band - 1 ELSE 0, qty)
  /\ trade' = NULL
  /\ UNCHANGED <<window, live_order_count, pool, id_map, levels, tob>>

Crosses_Strict(t) ==
  IF t.side = "BUY" THEN best["SELL"] < t.limit
                    ELSE best["BUY"] # NoLevel /\ best["BUY"] > t.limit
Crosses_PastLimit(t) ==
  IF t.side = "BUY" THEN best["SELL"] # NoLevel /\ best["SELL"] <= t.limit + 1
                    ELSE best["BUY"] # NoLevel /\ best["BUY"] >= t.limit - 1
(* The best opposite level is within the limit of the taker.               *)
Crosses(t) ==
  IF t.side = "BUY" THEN best["SELL"] <= t.limit
  ELSE /\ best["BUY"] # NoLevel
       /\ best["BUY"] >= t.limit
       /\ queue["BUY"][best["BUY"]] # <<>>

(* One fill against the head of the best level.  The cached top is         *)
(* refreshed when the inner loop ends: the level is used up or the taker   *)
(* is done.                                                                *)
Match(maker) ==
  LET i    == best[maker]
      s    == Head(queue[maker][i])
      o    == pool[s]
      qty  == Min({taker.left, o.qty})
      left == taker.left - qty
  IN  /\ IF qty = o.qty
         THEN RemoveOrder(s) /\ live_order_count' = CountDown(1)
         ELSE ReduceOrder(s, qty) /\ UNCHANGED live_order_count
      /\ trade' = [maker |-> o.id, taker |-> taker.id,
                   price |-> level_price[maker][i], qty |-> qty]
      /\ taker' = IF left = 0 THEN NULL ELSE [taker EXCEPT !.left = left]
      /\ IF left = 0 \/ queue'[maker][i] = <<>>
         THEN RefreshTop(maker, i)
         ELSE UNCHANGED tob
      /\ UNCHANGED window

match_against_asks ==
  /\ taker # NULL
  /\ taker.side = "BUY"
  /\ Crosses(taker)
  /\ Match("SELL")

match_against_bids ==
  /\ taker # NULL
  /\ taker.side = "SELL"
  /\ Crosses(taker)
  /\ Match("BUY")

(* The rest of insert_limit_order: what is left takes a free slot and      *)
(* joins its level ...                                                     *)
RestRemainder ==
  /\ taker # NULL
  /\ taker.price # NULL
  /\ ~ Crosses(taker)
  /\ \E s \in Slots \ Live :
       pool' = [pool EXCEPT ![s] =
                  [id |-> taker.id, side |-> taker.side,
                   price |-> taker.limit, qty |-> taker.left]]
       /\ level_append(taker.side, taker.limit, s, taker.left, taker.price)
       /\ id_map' = [id_map EXCEPT ![taker.id] = s]
  /\ live_order_count' = live_order_count + 1
  /\ IF \/ best[taker.side] = NoLevel
        \/ IF taker.side = "BUY" THEN taker.limit > best["BUY"]
                                 ELSE taker.limit < best["SELL"]
     THEN /\ best' = [best EXCEPT ![taker.side] = taker.limit]
          /\ best_qty' = [best_qty EXCEPT ![taker.side] =
                            total_volume'[taker.side][taker.limit]]
     ELSE UNCHANGED tob
  /\ taker' = NULL
  /\ trade' = NULL
  /\ UNCHANGED window

DiscardRemainder_Spins ==
  /\ taker # NULL
  /\ taker.price = NULL \/ Live = Slots
  /\ ~ Crosses(taker)
  /\ taker' = IF taker.price = NULL THEN NULL ELSE taker
  /\ trade' = NULL
  /\ UNCHANGED <<window, live_order_count, pool, id_map, levels, tob>>
(* ... or is dropped when the pool has no free slot, and a market order    *)
(* ends when nothing is left to sweep.                                     *)
DiscardRemainder ==
  /\ taker # NULL
  /\ taker.price = NULL \/ Live = Slots
  /\ ~ Crosses(taker)
  /\ taker' = NULL
  /\ trade' = NULL
  /\ UNCHANGED <<window, live_order_count, pool, id_map, levels, tob>>

-----------------------------------------------------------------------------
(* Calls on one resting order.  An unknown id returns at once and changes  *)
(* nothing, so only known ids are actions.                                 *)

cancel_order(id) ==
  /\ taker = NULL
  /\ id_map[id] # NULL
  /\ RemoveOrder(id_map[id])
  /\ RefreshTop(pool[id_map[id]].side, pool[id_map[id]].price)
  /\ trade' = NULL
  /\ UNCHANGED <<window, live_order_count, taker>>

execute_order(id, fill_qty) ==
  /\ taker = NULL
  /\ id_map[id] # NULL
  /\ LET s == id_map[id]
         o == pool[s]
     IN  /\ IF fill_qty >= o.qty
            THEN RemoveOrder(s) /\ live_order_count' = CountDown(1)
            ELSE ReduceOrder(s, fill_qty) /\ UNCHANGED live_order_count
         /\ RefreshTop(o.side, o.price)
         /\ trade' = [maker |-> o.id, taker |-> NULL,
                      price |-> level_price[o.side][o.price],
                      qty |-> Min({fill_qty, o.qty})]
  /\ UNCHANGED <<window, taker>>

reduce_order_qty(id, cancel_qty) ==
  /\ taker = NULL
  /\ id_map[id] # NULL
  /\ LET s == id_map[id]
         o == pool[s]
     IN  /\ IF cancel_qty >= o.qty THEN RemoveOrder(s)
                                   ELSE ReduceOrder(s, cancel_qty)
         /\ RefreshTop(o.side, o.price)
  /\ trade' = NULL
  /\ UNCHANGED <<window, live_order_count, taker>>

-----------------------------------------------------------------------------
Init ==
  /\ base = 0
  /\ base_set = FALSE
  /\ live_order_count = 0
  /\ pool = [s \in Slots |-> NULL]
  /\ id_map = [id \in Ids |-> NULL]
  /\ queue = [side \in Side |-> [i \in Idx |-> <<>>]]
  /\ level_price = [side \in Side |-> [i \in Idx |-> 0]]
  /\ total_volume = [side \in Side |-> [i \in Idx |-> 0]]
  /\ bitmap = [side \in Side |-> {}]
  /\ best = [side \in Side |-> NoLevel]
  /\ best_qty = [side \in Side |-> 0]
  /\ taker = NULL
  /\ trade = NULL

(* What the call on its way does next.                                     *)
Continue ==
  \/ match_against_asks
  \/ match_against_bids
  \/ RestRemainder
  \/ DiscardRemainder

(* The feeds never add an order under the id of an order still resting     *)
(* (data/generate_mock_data.py counts ids up; ITCH reference numbers are   *)
(* unique in a session).  CountBound keeps the model finite.               *)
Call ==
  \/ \E id \in Ids, side \in Side, price \in Prices, qty \in Quantities :
       /\ id_map[id] = NULL
       /\ live_order_count < CountBound
       /\ insert_limit_order(id, side, price, qty)
  \/ \E side \in Side, qty \in Quantities : process_market_order(side, qty)
  \/ \E id \in Ids : cancel_order(id)
  \/ \E id \in Ids, qty \in Quantities : execute_order(id, qty)
  \/ \E id \in Ids, qty \in Quantities : reduce_order_qty(id, qty)

Next == Call \/ Continue

(* A call that has started is a loop of one thread: it runs on.            *)
Spec == Init /\ [][Next]_vars /\ WF_vars(Continue)

-----------------------------------------------------------------------------
(* Types of everything but the volumes, whose exact value VolumeExact      *)
(* gives.                                                                  *)

TypeOK ==
  /\ base \in Nat
  /\ base_set \in BOOLEAN
  /\ live_order_count \in Nat
  /\ pool \in [Slots -> Order \union {NULL}]
  /\ id_map \in [Ids -> Slots \union {NULL}]
  /\ queue \in [Side -> [Idx -> Seq(Slots)]]
  /\ level_price \in [Side -> [Idx -> Nat]]
  /\ bitmap \in [Side -> SUBSET Idx]
  /\ best \in [Side -> Idx \union {NoLevel}]
  /\ taker \in Takers \union {NULL}
  /\ trade \in Trades \union {NULL}

-----------------------------------------------------------------------------
(* Structural consistency.                                                 *)

(* Every queued slot holds an order of that side and index ...             *)
QueuesHoldLiveOrders ==
  \A side \in Side, i \in Idx : \A k \in DOMAIN queue[side][i] :
    LET s == queue[side][i][k]
    IN  s \in Live /\ pool[s].side = side /\ pool[s].price = i

(* ... every live order is queued ...                                      *)
LiveOrdersAreQueued ==
  \A s \in Live : s \in Range(queue[pool[s].side][pool[s].price])

(* ... once.                                                               *)
QueuedOnce ==
  \A side \in Side, i \in Idx : \A j, k \in DOMAIN queue[side][i] :
    queue[side][i][j] = queue[side][i][k] => j = k

(* The lists of the levels, the pool and the price stored in each order    *)
(* agree, across cancels, fills and a slide of the window that relabels    *)
(* every order (level_append, level_remove, rebase_base): no order is in a *)
(* list it does not name, none is lost, none is linked twice.              *)
QueuesPartitionPool ==
  QueuesHoldLiveOrders /\ LiveOrdersAreQueued /\ QueuedOnce

(* id_map finds exactly the orders that rest, each under its own slot:     *)
(* every path that frees a slot (matching, cancel, fill, rebase) also      *)
(* erases the id, so no call reaches a slot that was reused, as long as    *)
(* the hash table behaves as a map (it need not: see TableStore).          *)
IdMapExact ==
  /\ \A id \in Ids : id_map[id] # NULL =>
       id_map[id] \in Live /\ pool[id_map[id]].id = id
  /\ \A s \in Live : id_map[pool[s].id] = s

(* A bit is set exactly for the occupied levels.                           *)
BitmapExact ==
  \A side \in Side : bitmap[side] = {i \in Idx : queue[side][i] # <<>>}

(* The price logged for a level is the price its index stands for, also    *)
(* after the window has moved.                                             *)
LevelPriceExact ==
  \A side \in Side, i \in Idx :
    queue[side][i] # <<>> => level_price[side][i] = base + i

(* total_volume is the sum of the quantities queued, modulo 2^32: it is    *)
(* maintained by += and -= on five paths and recomputed by a rebase.       *)
VolumeExact ==
  \A side \in Side, i \in Idx :
    total_volume[side][i] = VolumeOf(queue[side][i])

LevelsExact == LevelPriceExact /\ VolumeExact

(* The cached best names an occupied level or none: match_against_asks     *)
(* reads the head of the level at the cached best without looking whether  *)
(* the level is empty, so this is what its loop rests on.                  *)
BestIsLive ==
  \A side \in Side : best[side] # NoLevel => queue[side][best[side]] # <<>>

(* live_order_count never runs below the number of resting orders, so its  *)
(* guarded decrement never has to saturate.                                *)
CountCoversBook == Cardinality(Live) <= live_order_count

(* A price accepted into the window is converted to an index that stays    *)
(* valid for the whole call, and its id is still free when it comes to     *)
(* rest (insert_limit_order reads base_ once, before the matching loop).   *)
TakerInWindow ==
  taker # NULL /\ taker.price # NULL =>
    base_set /\ taker.price = base + taker.limit /\ id_map[taker.id] = NULL

(* Between two calls the cached quantity of a best level never exceeds     *)
(* what rests there, counted without the wrap of total_volume.  (It may be *)
(* less: insert_limit_order refreshes it only for a strictly better price, *)
(* and 2^32 units or more at one level wrap.)                              *)
RestingAt(side, i) == IF i = NoLevel THEN 0 ELSE QuantityOf(queue[side][i])

TopQtyNeverOverstates ==
  taker = NULL => \A side \in Side :
    best_qty[side] <= RestingAt(side, best[side])

-----------------------------------------------------------------------------
(* The cached top of book against the levels.                              *)

(* best_bid is the highest and best_ask the lowest occupied level: what    *)
(* the scans of update_best_bid/ask, which start from the old best, and    *)
(* the comparison on insertion must together maintain.                     *)
Occupied(side) == {i \in Idx : queue[side][i] # <<>>}

BestExact ==
  /\ best["BUY"] = IF Occupied("BUY") = {} THEN NoLevel ELSE Max(Occupied("BUY"))
  /\ best["SELL"] = IF Occupied("SELL") = {} THEN NoLevel ELSE Min(Occupied("SELL"))

(* No resting bid is at or above a resting ask.                            *)
NotCrossed ==
  \A b, a \in Idx : queue["BUY"][b] # <<>> /\ queue["SELL"][a] # <<>> => b < a

(* As long as the window stays where it is, no step loses the exact best   *)
(* price and none lets the book cross: of all operations only a slide of   *)
(* the window can (see BestExact and NotCrossed above).                    *)
OnlyRebaseLosesTop ==
  [][BestExact /\ NotCrossed /\ base' = base => BestExact' /\ NotCrossed']_vars

-----------------------------------------------------------------------------
(* What a step may never do.                                               *)

Ahead(a, b, q) == \E j, k \in DOMAIN q : j < k /\ q[j] = a /\ q[k] = b

(* Time priority: two orders of one level keep their order as long as both *)
(* rest, through fills, cancels of their neighbours and slides of the      *)
(* window that move the whole level (rebase_base relinks every list).      *)
TimePriorityKept ==
  [][\A a, b \in Live :
       /\ pool[a].side = pool[b].side /\ pool[a].price = pool[b].price
       /\ Ahead(a, b, queue[pool[a].side][pool[a].price])
       /\ pool'[a] # NULL /\ pool'[b] # NULL
       => Ahead(a, b, queue'[pool'[a].side][pool'[a].price])]_vars

(* A resting order keeps its id, side and absolute price until it leaves   *)
(* the book, and its quantity never grows; and a slide of the window, on   *)
(* the way to whatever the incoming order then comes to, takes no order    *)
(* off the book whose price lies in the new window (rebase_base).          *)
RestingOrdersKept ==
  [][\A s \in Live :
       /\ pool'[s] # NULL =>
            /\ pool'[s].id = pool[s].id /\ pool'[s].side = pool[s].side
            /\ base' + pool'[s].price = base + pool[s].price
            /\ pool'[s].qty <= pool[s].qty
       /\ base' # base /\ base + pool[s].price - base' \in Idx =>
            pool'[s] # NULL]_vars

(* Every reported trade is paid for: the maker's order gives up exactly    *)
(* the traded quantity, so does the taker if there is one, no order can be *)
(* its own maker, and a limit order never trades through its limit.        *)
TradesConserve ==
  [][trade' # NULL =>
       LET s    == id_map[trade'.maker]
           rest == IF pool'[s] = NULL THEN 0 ELSE pool'[s].qty
           left == IF taker' = NULL THEN 0 ELSE taker'.left
       IN  /\ rest + trade'.qty = pool[s].qty
           /\ trade'.price = base + pool[s].price
           /\ taker # NULL =>
                /\ trade'.qty > 0 /\ trade'.qty + left = taker.left
                /\ trade'.taker = taker.id /\ trade'.maker # taker.id
                /\ pool[s].side = Opposite(taker.side)
                /\ taker.price # NULL =>
                     IF taker.side = "BUY" THEN trade'.price <= taker.price
                                           ELSE trade'.price >= taker.price
     ]_vars

(* A matching call returns.                                                *)
CallReturns == taker # NULL ~> taker = NULL

-----------------------------------------------------------------------------
(* What comments of the source say a slide of the window does.             *)

(* OrderBook.hpp:224, "Moves all existing levels and updates order.price   *)
(* indices": no order leaves the book because the window moves.            *)
RebaseKeepsOrders ==
  [][base' # base => \A id \in Ids : id_map[id] # NULL => id_map'[id] # NULL]_vars

(* OrderBook.hpp:219, "allow re-anchoring while a small number of orders   *)
(* are present": between two calls, while no more orders rest than the     *)
(* limit allows, there is no price that insert_limit_order would reject.   *)
SmallBookRebases ==
  taker = NULL /\ Cardinality(Live) <= RebaseLimit =>
    \A price \in Prices : ~ Rejects(price)
=============================================================================
