----------------------------- MODULE BookCalls ------------------------------
(***************************************************************************)
(* OrderBook keeps the contract its callers rely on (BookContract).  The   *)
(* book is run call by call; while a call is under way "call" remembers    *)
(* what was asked, "before" what rested then, and "makers" the trades      *)
(* reported on the way.  When it returns, what the book holds is compared  *)
(* with the outcomes the contract allows, and the three are forgotten.     *)
(***************************************************************************)
EXTENDS OrderBook

(* Prices have 32 bits, so there is a highest one; NULL is neither a trade *)
(* nor an order as the view below shows it.                                *)
ASSUME CallsAssumption ==
  /\ IsFiniteSet(Prices)
  /\ NULL \notin Trades
  /\ NULL \notin [side : Side, price : Nat, qty : Nat \ {0}]

VARIABLES
  call,    \* the call under way, or NULL: [op, id, side, price, qty]
  before,  \* the book, as a caller saw it when that call was made, or NULL
  makers,  \* makers of the trades the call has reported
  kept     \* the calls that returned have kept the contract

allvars == <<vars, call, before, makers, kept>>

Contract == INSTANCE BookContract

(* The book as its callers see it: absolute prices, and no slots.          *)
View ==
  [id \in Ids |->
     IF id_map[id] = NULL \/ pool[id_map[id]] = NULL THEN NULL
     ELSE LET o == pool[id_map[id]]
          IN  [side |-> o.side, price |-> base + o.price, qty |-> o.qty]]

CallInit ==
  /\ Init
  /\ call = NULL /\ before = NULL /\ makers = {}
  /\ kept = TRUE

(* What the contract allows call c to make of the book b: an insertion     *)
(* fills only orders that cross it, reports exactly those as makers, fills *)
(* all but the last of them whole, drops others only whole, and rests with *)
(* just what the fills left; a call on one order changes no other.         *)
Keeps(c, b, reported, after) ==
  CASE c.op \in {"insert", "market"} ->
         \E o \in Contract!Outcomes(b, c.side, c.price, c.qty) :
           /\ c.op = "market" => ~ o.rests /\ o.dropped = {}
           /\ after = Contract!AfterInsert(b, c.id, c.side, c.price, c.qty, o)
           /\ reported = Contract!Matched(o)
    [] c.op = "cancel"  -> after = Contract!AfterCancel(b, c.id)
    [] c.op = "execute" -> after = Contract!AfterReduce(b, c.id, c.qty)
                           /\ reported = {c.id}
    [] c.op = "reduce"  -> after = Contract!AfterReduce(b, c.id, c.qty)

Reported == IF trade' = NULL THEN {} ELSE {trade'.maker}

(* A step of call c, made when the book was b, after some trades.          *)
Step(c, b, reported) ==
  IF taker' = NULL
  THEN /\ call' = NULL /\ before' = NULL /\ makers' = {}
       /\ kept' = (kept /\ Keeps(c, b, reported, View'))
  ELSE /\ call' = c /\ before' = b /\ makers' = reported
       /\ UNCHANGED kept

Asked(op, id, side, price, qty) ==
  Step([op |-> op, id |-> id, side |-> side, price |-> price, qty |-> qty],
       View, Reported)

CallNext ==
  \/ \E id \in Ids, side \in Side, price \in Prices, qty \in Quantities :
       /\ id_map[id] = NULL
       /\ live_order_count < CountBound
       /\ insert_limit_order(id, side, price, qty)
       /\ Asked("insert", id, side, price, qty)
  \/ \E side \in Side, qty \in Quantities :
       /\ process_market_order(side, qty)
       /\ Asked("market", NULL, side, IF side = "BUY" THEN Max(Prices) ELSE 0, qty)
  \/ \E id \in Ids :
       cancel_order(id) /\ Asked("cancel", id, NULL, NULL, NULL)
  \/ \E id \in Ids, qty \in Quantities :
       execute_order(id, qty) /\ Asked("execute", id, NULL, NULL, qty)
  \/ \E id \in Ids, qty \in Quantities :
       reduce_order_qty(id, qty) /\ Asked("reduce", id, NULL, NULL, qty)
  \/ Continue /\ Step(call, before, makers \union Reported)

CallSpec == CallInit /\ [][CallNext]_allvars

-----------------------------------------------------------------------------
(* Every call of OrderBook, slides and exhausted pool included, ends in an *)
(* outcome of the contract, at the absolute prices its callers see.  (This *)
(* is what ItchReplay and Engine assume of the book.)                      *)
KeepsContract == kept
=============================================================================
