--------------------------- MODULE PriceTimeBook ---------------------------
(***************************************************************************)
(* What an order book with price-time priority promises its caller: the    *)
(* reference the flat, index-addressed book of src/core/OrderBook.cpp is   *)
(* compared with.  There is no window, no pool index, no bitmap and no     *)
(* top-of-book cache here: a side of the book is, for every price, the     *)
(* FIFO queue of the orders resting at that price.                         *)
(***************************************************************************)
EXTENDS Integers, Sequences, FiniteSets, SequencesExt

CONSTANTS
  Ids,         \* order ids
  Prices,      \* absolute prices (ticks)
  Quantities,  \* quantities a caller may pass
  MaxOrders,   \* number of orders that may rest at the same time
  NULL

Side == {"BUY", "SELL"}
Opposite(side) == IF side = "BUY" THEN "SELL" ELSE "BUY"

VARIABLES
  book,   \* book[side][price]: the FIFO queue of [id, qty] resting there
  taker,  \* the incoming order being matched, or NULL
  trade   \* the fill reported by the last step, or NULL

vars == <<book, taker, trade>>

(* Side, price and place in the queue of every resting order.              *)
Positions == {pos \in Side \X Prices \X (1 .. MaxOrders) :
                pos[3] \in DOMAIN book[pos[1]][pos[2]]}
PositionOf(id) == {pos \in Positions : book[pos[1]][pos[2]][pos[3]].id = id}

Occupied(side) == {p \in Prices : book[side][p] # <<>>}
BestPrice(side) == IF side = "BUY" THEN Max(Occupied(side))
                                   ELSE Min(Occupied(side))

(* A market order carries no limit: its price is NULL.                     *)
Crosses(t) ==
  LET maker == Opposite(t.side)
  IN  /\ Occupied(maker) # {}
      /\ \/ t.price = NULL
         \/ IF t.side = "BUY" THEN BestPrice(maker) <= t.price
                              ELSE BestPrice(maker) >= t.price

(* What is left of a queue when its k-th order gives up qty: the order     *)
(* leaves if that is all it has.                                           *)
Shortened(q, k, qty) ==
  IF qty = q[k].qty THEN RemoveAt(q, k) ELSE [q EXCEPT ![k].qty = @ - qty]

Take(side, p, k, qty) ==
  book' = [book EXCEPT ![side][p] = Shortened(@, k, qty)]

Init ==
  /\ book = [s \in Side |-> [p \in Prices |-> <<>>]]
  /\ taker = NULL
  /\ trade = NULL

(* A limit order (price # NULL) or a market order (price = NULL) arrives;  *)
(* one of zero quantity is done at once.                                   *)
Submit(id, side, price, qty) ==
  /\ taker = NULL
  /\ taker' = IF qty = 0 THEN NULL
              ELSE [id |-> id, side |-> side, price |-> price, left |-> qty]
  /\ trade' = NULL
  /\ UNCHANGED book

(* One fill: the maker is the oldest order at the best opposite price.     *)
Fill ==
  /\ taker # NULL
  /\ Crosses(taker)
  /\ LET maker == Opposite(taker.side)
         p     == BestPrice(maker)
         o     == Head(book[maker][p])
         qty   == Min({taker.left, o.qty})
     IN  /\ Take(maker, p, 1, qty)
         /\ trade' = [maker |-> o.id, taker |-> taker.id,
                      price |-> p, qty |-> qty]
         /\ taker' = IF qty = taker.left THEN NULL
                     ELSE [taker EXCEPT !.left = @ - qty]

(* What no resting order crosses joins the back of its queue, unless the   *)
(* book is full; a market order leaves nothing behind.                     *)
Finish ==
  /\ taker # NULL
  /\ ~ Crosses(taker)
  /\ book' = IF taker.price = NULL \/ Cardinality(Positions) = MaxOrders
             THEN book
             ELSE [book EXCEPT ![taker.side][taker.price] =
                     Append(@, [id |-> taker.id, qty |-> taker.left])]
  /\ taker' = NULL
  /\ trade' = NULL

(* A resting order gives up qty (all it has, if qty is as much or more),   *)
(* as a reported fill without a taker or as a cancellation.                *)
Shrink(id, asked, reported) ==
  /\ taker = NULL
  /\ \E pos \in PositionOf(id) :
       LET o   == book[pos[1]][pos[2]][pos[3]]
           qty == Min({asked, o.qty})
       IN  /\ Take(pos[1], pos[2], pos[3], qty)
           /\ trade' = IF ~ reported THEN NULL
                       ELSE [maker |-> id, taker |-> NULL,
                             price |-> pos[2], qty |-> qty]
  /\ UNCHANGED taker

Cancel(id) ==
  /\ taker = NULL
  /\ \E pos \in PositionOf(id) :
       book' = [book EXCEPT ![pos[1]][pos[2]] = RemoveAt(@, pos[3])]
  /\ trade' = NULL
  /\ UNCHANGED taker

Next ==
  \/ \E id \in Ids, side \in Side, price \in Prices, qty \in Quantities :
       PositionOf(id) = {} /\ Submit(id, side, price, qty)
  \/ \E side \in Side, qty \in Quantities : Submit(NULL, side, NULL, qty)
  \/ Fill
  \/ Finish
  \/ \E id \in Ids : Cancel(id)
  \/ \E id \in Ids, qty \in Quantities, reported \in BOOLEAN :
       Shrink(id, qty, reported)

(* What may happen.  That it does, that no taker waits forever with a Fill *)
(* or Finish left to take, is CallReturns of OrderBook.                    *)
Spec == Init /\ [][Next]_vars
=============================================================================
