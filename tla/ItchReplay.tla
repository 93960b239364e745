----------------------------- MODULE ItchReplay -----------------------------
(***************************************************************************)
(* The order routing of src/ingestion/ItchParser.cpp: messages of all      *)
(* stocks arrive on one feed; add-order messages create one book per       *)
(* tracked stock_locate, and ref_owner leads every later message about an  *)
(* order to the book that took it.  A book may lose orders on its own      *)
(* (BookContract), so the replay can know less than the exchange.          *)
(*                                                                         *)
(* "feed" is the exchange's own view, the reference the replay is compared *)
(* with.  The feed gives each order reference number once, and executes    *)
(* or cancels no more than an order has.                                   *)
(*                                                                         *)
(* A definition named X_Word, just before X, is a plausible slip in X; it  *)
(* is used only to check that the properties notice it.                    *)
(***************************************************************************)
EXTENDS BookContract

CONSTANTS
  Locates,          \* values of stock_locate
  Allowed,          \* allowed_locates
  kMaxStockLocate,
  Prices, Quantities

ASSUME ReplayAssumption ==
  /\ Locates \subseteq Nat /\ Allowed \subseteq Locates
  /\ kMaxStockLocate \in Nat
  /\ Prices \subseteq Nat
  /\ Quantities \subseteq Nat \ {0}
  /\ NULL \notin Locates

Side == {"BUY", "SELL"}

Order     == [side : Side, price : Prices, qty : Nat \ {0}]
FeedOrder == [stock : Locates, side : Side, price : Prices, qty : Nat \ {0}]

ASSUME NullOrderAssumption == NULL \notin Order /\ NULL \notin FeedOrder

VARIABLES
  book,       \* stock -> the book of market_books, as a caller sees it
  opened,     \* stocks whose entry of market_books is not null
  ref_owner,  \* id -> the stock whose book the map leads to, or NULL
  matched,    \* makers of the trades the last message made a book report
  feed,       \* id -> the order at the exchange, or NULL
  stock_of,   \* id -> the stock the feed used it for, or NULL
  lost        \* ids a book did not take whole, matched or dropped on its own

vars == <<book, opened, ref_owner, matched, feed, stock_of, lost>>

is_tracked(locate) == Allowed = {} \/ locate \in Allowed

Tracked_OrInRange(locate) == locate < kMaxStockLocate \/ is_tracked(locate)
Tracked(locate) == locate < kMaxStockLocate /\ is_tracked(locate)

Init ==
  /\ book = [l \in Locates |-> [id \in Ids |-> NULL]]
  /\ opened = {}
  /\ ref_owner = [id \in Ids |-> NULL]
  /\ matched = {}
  /\ feed = [id \in Ids |-> NULL]
  /\ stock_of = [id \in Ids |-> NULL]
  /\ lost = {}

-----------------------------------------------------------------------------
(* The exchange's side of a message.                                       *)

Announce(id, order) ==
  /\ stock_of[id] = NULL
  /\ stock_of' = [stock_of EXCEPT ![id] = order.stock]

Shrunk(order, qty) ==
  IF qty = order.qty THEN NULL ELSE [order EXCEPT !.qty = @ - qty]

-----------------------------------------------------------------------------
(* The parser's side.                                                      *)

(* insert_limit_order on the book of stock l, now b; ref_owner, now owner, *)
(* gets an entry if the order came to rest.                                *)
Insert(l, b, owner, id, order) ==
  \E o \in Outcomes(b, order.side, order.price, order.qty) :
    /\ book' = [book EXCEPT ![l] =
                  AfterInsert(b, id, order.side, order.price, order.qty, o)]
    /\ ref_owner' = IF o.rests THEN [owner EXCEPT ![id] = l] ELSE owner
    /\ matched' = Matched(o)
    /\ lost' = lost \union o.dropped \union Matched(o)
                    \union (IF o.rests /\ Matched(o) = {} THEN {} ELSE {id})

Untouched ==
  /\ matched' = {}
  /\ UNCHANGED <<book, ref_owner>>

(* 'A' and 'F': the book of a stock is built when its first order arrives. *)
AddOrder(id, order) ==
  /\ Announce(id, order)
  /\ feed' = [feed EXCEPT ![id] = order]
  /\ LET l == order.stock
     IN  IF Tracked(l)
         THEN opened' = opened \union {l} /\ Insert(l, book[l], ref_owner, id, order)
         ELSE Untouched /\ UNCHANGED <<opened, lost>>

Reduce_EraseAlways(id, qty) ==
  /\ matched' = {}
  /\ book' = [book EXCEPT ![ref_owner[id]] = AfterReduce(@, id, qty)]
  /\ ref_owner' = [ref_owner EXCEPT ![id] = NULL]
(* Pass qty on to the book of the order; forget the order when the book    *)
(* says that this was all of it.                                           *)
Reduce(id, qty) ==
  LET l == ref_owner[id]
  IN  /\ matched' = {}
      /\ book' = [book EXCEPT ![l] = AfterReduce(@, id, qty)]
      /\ ref_owner' = IF Removes(book[l], id, qty)
                      THEN [ref_owner EXCEPT ![id] = NULL] ELSE ref_owner

(* 'E' and 'C', which call execute_order, and 'X', which calls             *)
(* reduce_order_qty.                                                       *)
Report(id, qty) ==
  /\ feed[id] # NULL
  /\ qty <= feed[id].qty
  /\ feed' = [feed EXCEPT ![id] = Shrunk(@, qty)]
  /\ IF ref_owner[id] = NULL THEN Untouched ELSE Reduce(id, qty)
  /\ UNCHANGED <<opened, stock_of, lost>>

OrderExecuted(id, qty) == Report(id, qty)
OrderCancel(id, qty)   == Report(id, qty)

OrderDelete_StaleKept(id) ==
  /\ feed[id] # NULL
  /\ feed' = [feed EXCEPT ![id] = NULL]
  /\ matched' = {}
  /\ UNCHANGED <<book, ref_owner, opened, stock_of, lost>>
(* 'D': the entry goes, whether or not the book still knew the order.      *)
OrderDelete(id) ==
  /\ feed[id] # NULL
  /\ feed' = [feed EXCEPT ![id] = NULL]
  /\ IF ref_owner[id] = NULL THEN Untouched
     ELSE /\ matched' = {}
          /\ book' = [book EXCEPT ![ref_owner[id]] = AfterCancel(@, id)]
          /\ ref_owner' = [ref_owner EXCEPT ![id] = NULL]
  /\ UNCHANGED <<opened, stock_of, lost>>

OrderReplace_WrongSide(old, id, price, qty) ==
  /\ feed[old] # NULL
  /\ LET order == [feed[old] EXCEPT !.price = price, !.qty = qty]
         l     == ref_owner[old]
     IN  /\ Announce(id, order)
         /\ feed' = [feed EXCEPT ![old] = NULL, ![id] = order]
         /\ IF l # NULL /\ book[l][old] # NULL
            THEN Insert(l, AfterCancel(book[l], old),
                        [ref_owner EXCEPT ![old] = NULL], id,
                        [order EXCEPT !.side = "BUY"])
            ELSE /\ Untouched
                 /\ lost' = IF l = NULL /\ ~ Tracked(order.stock) THEN lost
                            ELSE lost \union {id}
  /\ UNCHANGED opened
(* 'U': the side is the resting order's.  The old order is cancelled, and  *)
(* its entry goes, before it is known whether the new one will rest; an    *)
(* order the book no longer has is not replaced, and its entry stays.      *)
OrderReplace(old, id, price, qty) ==
  /\ feed[old] # NULL
  /\ LET order == [feed[old] EXCEPT !.price = price, !.qty = qty]
         l     == ref_owner[old]
     IN  /\ Announce(id, order)
         /\ feed' = [feed EXCEPT ![old] = NULL, ![id] = order]
         /\ IF l # NULL /\ book[l][old] # NULL
            THEN Insert(l, AfterCancel(book[l], old),
                        [ref_owner EXCEPT ![old] = NULL], id,
                        [order EXCEPT !.side = book[l][old].side])
            ELSE /\ Untouched
                 /\ lost' = IF l = NULL /\ ~ Tracked(order.stock) THEN lost
                            ELSE lost \union {id}
  /\ UNCHANGED opened

Next ==
  \/ \E id \in Ids, l \in Locates, s \in Side, p \in Prices, q \in Quantities :
       AddOrder(id, [stock |-> l, side |-> s, price |-> p, qty |-> q])
  \/ \E id \in Ids, qty \in Quantities : OrderExecuted(id, qty)
  \/ \E id \in Ids, qty \in Quantities : OrderCancel(id, qty)
  \/ \E id \in Ids : OrderDelete(id)
  \/ \E old, id \in Ids, p \in Prices, q \in Quantities :
       OrderReplace(old, id, p, q)

Spec == Init /\ [][Next]_vars

-----------------------------------------------------------------------------
TypeOK ==
  /\ book \in [Locates -> [Ids -> Order \union {NULL}]]
  /\ opened \subseteq Locates
  /\ ref_owner \in [Ids -> Locates \union {NULL}]
  /\ matched \subseteq Ids
  /\ feed \in [Ids -> FeedOrder \union {NULL}]
  /\ stock_of \in [Ids -> Locates \union {NULL}]
  /\ lost \subseteq Ids

(* No ghosts: whatever the books matched or dropped on their own, an order *)
(* the replay shows is an order of the exchange, of the same stock, side   *)
(* and price, and shows no more quantity than it has there.  An order that *)
(* was executed, deleted or replaced is never left behind in a book.       *)
NoGhosts ==
  \A l \in Locates, id \in Ids : book[l][id] # NULL =>
    /\ feed[id] # NULL
    /\ feed[id].stock = l
    /\ book[l][id].side = feed[id].side /\ book[l][id].price = feed[id].price
    /\ book[l][id].qty <= feed[id].qty

(* README.md:246, "a later E/X/D/U for a given order is routed back to the *)
(* same per-ticker book": a resting order always has its entry, through    *)
(* partial fills, failed insertions and replacements ...                   *)
RestingIsRouted ==
  \A l \in Locates, id \in Ids : book[l][id] # NULL => ref_owner[id] = l

(* ... and no entry, however stale, leads a message about an order to a    *)
(* book that does not exist, to an untracked one or to another stock's.    *)
EntriesLeadHome ==
  \A id \in Ids : ref_owner[id] # NULL =>
    /\ ref_owner[id] \in opened
    /\ ref_owner[id] < kMaxStockLocate
    /\ Allowed # {} => ref_owner[id] \in Allowed
    /\ stock_of[id] = ref_owner[id]

(* The replay is exact but for what a book lost on its own: every other    *)
(* order of a tracked stock rests with just the quantity it has at the     *)
(* exchange.                                                               *)
ExactUnlessLost ==
  \A id \in Ids :
    feed[id] # NULL /\ Tracked(feed[id].stock) /\ id \notin lost =>
      book[feed[id].stock][id] = [side  |-> feed[id].side,
                                  price |-> feed[id].price,
                                  qty   |-> feed[id].qty]

(* A message about one stock changes the book of no other.                 *)
OneStockPerMessage ==
  [][\A l \in Locates : book'[l] # book[l] =>
       \E id \in Ids : feed'[id] # feed[id] /\ stock_of'[id] = l]_vars

(* A book trades on its own only if the new order locks or crosses the     *)
(* exchange's book: on a feed where none does, every trade reported is one *)
(* the exchange executed.                                                  *)
FeedCrossed(bid, ask) == bid.side = "BUY" /\ ask.side = "SELL" /\ bid.price >= ask.price

TradesOnlyIfFeedCrosses ==
  [][\A maker \in matched' : \E id \in Ids :
       /\ stock_of[id] = NULL /\ feed'[id] # NULL /\ feed'[maker] # NULL
       /\ feed'[id].stock = feed'[maker].stock
       /\ \/ FeedCrossed(feed'[id], feed'[maker])
          \/ FeedCrossed(feed'[maker], feed'[id])]_vars
=============================================================================
