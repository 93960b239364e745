----------------------------- MODULE TableStore -----------------------------
(***************************************************************************)
(* The order book's memory (OrderStore) behind the table that maps ids to  *)
(* its slots (IdMap), instead of the exact map OrderBook is modelled with. *)
(* Calls that name an id reach a slot through find and believe it; matching*)
(* and the slide of the window reach slots through the levels, and only    *)
(* erase through the table.                                                *)
(*                                                                         *)
(* "misled" records that a call has acted on a slot that is not its        *)
(* order's; calls after that are not followed.                             *)
(***************************************************************************)
EXTENDS OrderStore

CONSTANTS Ids, Cap, Hashes   \* as in IdMap

VARIABLES
  home, entries,   \* the hash function and the table, as in IdMap
  id_of,           \* slot -> the id in its record, also after the slot is freed
  used,            \* ids the feed has given to some order
  misled

memory == <<next_idx, prev_idx, side_of, price_of, free_head, level, base, held, job>>
allvars == <<memory, home, entries, id_of, used, misled>>

SlotOf(id) ==
  IF \E s \in held : id_of[s] = id THEN CHOOSE s \in held : id_of[s] = id ELSE NULL

Table == INSTANCE IdMap WITH
           Vals <- Slots, EMPTY <- NULL, held <- [id \in Ids |-> SlotOf(id)]

TableInit ==
  /\ Init
  /\ home \in Hashes
  /\ entries = [i \in Table!Slot |-> NULL]
  /\ id_of = [s \in Slots |-> NULL]
  /\ used = {}
  /\ misled = FALSE

Occupied(side) == {i \in Idx : level[side][i].head # NULL}

(* match_against_asks/bids begin at the best level ...                     *)
IsBest(side, i) ==
  \A j \in Occupied(side) : IF side = "BUY" THEN j <= i ELSE i <= j

(* ... and what comes to rest crosses nothing.                             *)
Uncrossed(side, i) ==
  IF side = "BUY" THEN \A j \in Occupied("SELL") : i < j
                  ELSE \A j \in Occupied("BUY") : j < i

insert_limit_order(id, side, price) ==
  /\ id \notin used /\ Table!Stops(id) # {}
  /\ Uncrossed(side, price - base)
  /\ Rest(side, price)
  /\ Table!insert(id, free_head)
  /\ id_of' = [id_of EXCEPT ![free_head] = id]
  /\ used' = used \union {id}
  /\ UNCHANGED <<home, misled>>

(* Also execute_order and reduce_order_qty, when they take the whole order.*)
cancel_order(id) ==
  LET s == Table!find(id)
  IN  /\ Table!Stops(id) # {}
      /\ s # NULL
      /\ job = Idle
      /\ Remove(s)
      /\ Table!erase(id)
      /\ misled' = (s # SlotOf(id))
      /\ UNCHANGED <<job, home, id_of, used>>

(* A slot that is given back through its level: the table is told its id.  *)
Release ==
  /\ MatchWhole \/ DropOne
  /\ Table!Stops(id_of[job.idx]) # {}
  /\ Table!erase(id_of[job.idx])

TableNext ==
  \/ /\ ~ misled
     /\ \/ \E id \in Ids, side \in Side, price \in Prices :
             insert_limit_order(id, side, price)
        \/ \E id \in Ids : cancel_order(id)
  \/ Release /\ UNCHANGED <<home, id_of, used, misled>>
  \/ /\ \/ \E side \in Side, i \in Idx : IsBest(side, i) /\ StartMatch(side, i)
        \/ \E price \in Prices : StartRebase(price)
        \/ MatchPart \/ SkipEmpty \/ MoveOne \/ Swap
     /\ ~ misled
     /\ UNCHANGED <<home, entries, id_of, used, misled>>

TableSpec == TableInit /\ [][TableNext]_allvars

-----------------------------------------------------------------------------
(* README.md:282, "O(1) lookup of the order's pool index via IdMap", then  *)
(* "Unlink from its price level": a call on an id unlinks that order.      *)
CancelsItsOwn == ~ misled
=============================================================================
