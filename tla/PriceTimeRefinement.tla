------------------------ MODULE PriceTimeRefinement ------------------------
(***************************************************************************)
(* OrderBook as a price-time book: what its state says in the terms of     *)
(* PriceTimeBook, as long as the window is wide enough never to move.      *)
(***************************************************************************)
EXTENDS OrderBook

(* Price p is level p - base, an order is its id and its quantity.         *)
Book == [side \in Side |-> [p \in Prices |->
           IF ~ base_set THEN <<>>
           ELSE [k \in DOMAIN queue[side][p - base] |->
                   LET o == pool[queue[side][p - base][k]]
                   IN  [id |-> o.id, qty |-> o.qty]]]]

(* A taker is what it asked for and did not get yet.                       *)
Wanted == IF taker = NULL THEN NULL
          ELSE [id |-> taker.id, side |-> taker.side,
                price |-> taker.price, left |-> taker.left]

(* NULL is not what a taker asked for either.                              *)
ASSUME WantedAssumption ==
  NULL \notin [id : Ids \union {NULL}, side : Side,
              price : Prices \union {NULL}, left : Nat \ {0}]

PriceTime == INSTANCE PriceTimeBook
               WITH MaxOrders <- Cardinality(Slots), book <- Book, taker <- Wanted

(* Within one window the flat book, with its bitmap, cached top and pool,  *)
(* is a price-time-priority book: same makers, prices, quantities, order   *)
(* of fills and resting orders.                                            *)
ImplementsPriceTime == PriceTime!Spec

(* The window that centres one price of the feed holds them all.           *)
WideWindow == \A p, first \in Prices : p - Centred(first) \in Idx
=============================================================================
