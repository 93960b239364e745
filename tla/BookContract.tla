--------------------------- MODULE BookContract ----------------------------
(***************************************************************************)
(* What a caller of OrderBook may rely on.  Seen from outside, a book is   *)
(* the partial function from ids to the orders resting in it; a call has   *)
(* one of the outcomes defined here.  ItchReplay is built on this          *)
(* contract, and BookCalls checks that OrderBook keeps it.                 *)
(*                                                                         *)
(* The window, the pool and the level lists do not appear: an insertion    *)
(* may lose any resting orders (a slide of the window) and may leave       *)
(* nothing behind (out of band, or the pool is full).                      *)
(*                                                                         *)
(* A definition named X_Word, just before X, is a plausible slip in X; it  *)
(* is used only to check that the properties notice it.                    *)
(***************************************************************************)
EXTENDS Integers, FiniteSets, FiniteSetsExt

CONSTANTS Ids, NULL

Opposite(side) == IF side = "BUY" THEN "SELL" ELSE "BUY"

Resting(b) == {id \in Ids : b[id] # NULL}

(* The resting orders an order of this side and limit may trade with.      *)
Crossers(b, side, price) ==
  {id \in Resting(b) :
     /\ b[id].side = Opposite(side)
     /\ IF side = "BUY" THEN b[id].price <= price ELSE b[id].price >= price}

(* What is left of qty after the orders of a set are filled.               *)
Left(b, qty, filled) == qty - MapThenSumSet(LAMBDA id : b[id].qty, filled)

(* The ways an insertion can end: the orders it lost by sliding the        *)
(* window, those it filled, the one it filled in part (the last: what is   *)
(* left is less than that order has), and whether the remainder rests.     *)
Outcomes(b, side, price, qty) ==
  {o \in [dropped : SUBSET Resting(b),
          filled  : SUBSET Crossers(b, side, price),
          cut     : {{}} \union {{id} : id \in Crossers(b, side, price)},
          rests   : BOOLEAN] :
     /\ o.dropped \intersect (o.filled \union o.cut) = {}
     /\ o.filled \intersect o.cut = {}
     /\ Left(b, qty, o.filled) \in 0 .. qty
     /\ \A id \in o.cut : Left(b, qty, o.filled) \in 1 .. b[id].qty - 1
     /\ o.rests => o.cut = {} /\ Left(b, qty, o.filled) > 0}

Matched(o) == o.filled \union o.cut

AfterInsert(b, id, side, price, qty, o) ==
  LET left == Left(b, qty, o.filled)
  IN  [i \in Ids |->
         IF i \in o.dropped \union o.filled THEN NULL
         ELSE IF i \in o.cut THEN [b[i] EXCEPT !.qty = @ - left]
         ELSE IF i = id /\ o.rests THEN [side |-> side, price |-> price, qty |-> left]
         ELSE b[i]]

(* A call that takes at least the quantity of the order removes it.        *)
Removes_Always(b, id, qty) == b[id] # NULL
Removes(b, id, qty) == b[id] # NULL /\ qty >= b[id].qty

AfterCancel(b, id) == [b EXCEPT ![id] = NULL]

(* execute_order and reduce_order_qty, which return Removes: an unknown id *)
(* changes nothing.                                                        *)
AfterReduce(b, id, qty) ==
  IF b[id] = NULL \/ Removes(b, id, qty) THEN AfterCancel(b, id)
  ELSE [b EXCEPT ![id].qty = @ - qty]
=============================================================================
