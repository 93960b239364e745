------------------------------- MODULE IdMap -------------------------------
(***************************************************************************)
(* The open-addressed table of src/core/OrderBook.hpp that maps an order   *)
(* id to its pool slot, used as the book uses it: an id is inserted when   *)
(* its order comes to rest and erased when the order leaves the book.      *)
(*                                                                         *)
(* The hash function is a variable chosen at the start and never changed,  *)
(* so a run covers every way of colliding that Hashes allows.  An entry    *)
(* whose val is EMPTY keeps a key nobody reads; here it is just EMPTY.     *)
(*                                                                         *)
(* A definition named X_Word, just before X, is a plausible slip in X; it  *)
(* is used only to check that the properties notice it.                    *)
(***************************************************************************)
EXTENDS Integers, FiniteSets, FiniteSetsExt

CONSTANTS
  Ids,        \* order ids
  Vals,       \* pool slots
  Cap,        \* cap_, a power of two, at least twice the number of slots
  Hashes,     \* the hash functions considered
  EMPTY       \* NULL_IDX

ASSUME TableAssumption ==
  /\ Cap \in Nat \ {0}
  /\ 2 * Cardinality(Vals) <= Cap
  /\ EMPTY \notin Vals \union [key : Ids, val : Vals]
  /\ Hashes \subseteq [Ids -> 0 .. Cap - 1]

Slot == 0 .. Cap - 1

VARIABLES
  home,     \* hash(key) & mask_ of every id
  entries,  \* slot -> [key, val], or EMPTY
  held,     \* id -> pool slot of the resting order of that id, or EMPTY
  used      \* ids the feed has given to some order

vars == <<home, entries, held, used>>

(* The slot reached from slot i in d steps of (slot + 1) & mask_.          *)
Step(i, d) == (i + d) % Cap

(* How far past its home slot the entry in slot i lies.                    *)
Displacement(i) == (i - home[entries[i].key]) % Cap

(* The three loops probe from the home slot to the first slot that is      *)
(* EMPTY or holds the key.                                                 *)
Stops(key) ==
  {d \in Slot : LET e == entries[Step(home[key], d)] IN e = EMPTY \/ e.key = key}
ProbeSlot_Home(key) == home[key]
ProbeSlot(key) == Step(home[key], Min(Stops(key)))

find(key) ==
  LET e == entries[ProbeSlot(key)] IN IF e = EMPTY THEN EMPTY ELSE e.val

insert(key, val) ==
  entries' = [entries EXCEPT ![ProbeSlot(key)] = [key |-> key, val |-> val]]

(* The backward shift after slot i was emptied: nxt is always cur + 1, so  *)
(* the test ((nxt - nat) & mask_) >= ((nxt - cur) & mask_) asks whether    *)
(* nxt is away from its home slot.  The run of such entries moves back by  *)
(* one slot; it ends at an EMPTY slot or an entry at home.  (In a full     *)
(* table with no entry at home the loop would go round further than the    *)
(* Cap - 1 slots counted here: a case no run reaches.)                     *)
RunLength_None(i) == 0
RunLength(i) ==
  Max({n \in Slot : \A d \in 1 .. n :
         entries[Step(i, d)] # EMPTY /\ Displacement(Step(i, d)) >= 1})

erase(key) ==
  LET i == ProbeSlot(key)
      n == RunLength(i)
  IN  entries' = IF entries[i] = EMPTY THEN entries
                 ELSE [j \in Slot |->
                        LET d == (j - i) % Cap
                        IN  IF d < n THEN entries[Step(j, 1)]
                            ELSE IF d = n THEN EMPTY ELSE entries[j]]

-----------------------------------------------------------------------------
Init ==
  /\ home \in Hashes
  /\ entries = [i \in Slot |-> EMPTY]
  /\ held = [id \in Ids |-> EMPTY]
  /\ used = {}

(* insert_limit_order: an order under a new id takes a free pool slot.     *)
Rest(id, val) ==
  /\ id \notin used
  /\ \A other \in Ids : held[other] # val
  /\ Stops(id) # {}
  /\ insert(id, val)
  /\ held' = [held EXCEPT ![id] = val]
  /\ used' = used \union {id}
  /\ UNCHANGED home

(* An order that is reached through its level, by matching or by a slide   *)
(* of the window, leaves the book whether or not the table knows its id.   *)
LeaveThroughLevel(id) ==
  /\ held[id] # EMPTY
  /\ Stops(id) # {}
  /\ erase(id)
  /\ held' = [held EXCEPT ![id] = EMPTY]
  /\ UNCHANGED <<home, used>>

(* cancel_order, execute_order, reduce_order_qty: an order that is reached *)
(* through the table leaves the book only if find returns its slot.  (What *)
(* such a call does when find returns a slot that was freed is followed in *)
(* TableStore.)                                                            *)
LeaveThroughTable(id) == find(id) # EMPTY /\ LeaveThroughLevel(id)

Next ==
  \/ \E id \in Ids, val \in Vals : Rest(id, val)
  \/ \E id \in Ids : LeaveThroughLevel(id)
  \/ \E id \in Ids : LeaveThroughTable(id)

Spec == Init /\ [][Next]_vars

-----------------------------------------------------------------------------
Stored(id) == {i \in Slot : entries[i] # EMPTY /\ entries[i].key = id}

(* insert overwrites no other id and the shift of erase neither drops nor  *)
(* duplicates an entry: a resting order is in one entry, with its slot, so *)
(* a lookup of it never reports another order's slot.                      *)
HeldStoredOnce ==
  \A id \in Ids : held[id] # EMPTY =>
    \E i \in Slot : Stored(id) = {i} /\ entries[i].val = held[id]

(* The order a robin-hood table keeps along a probe chain: an entry d >= 1 *)
(* slots from home follows one at least d - 1 from home.                   *)
Ordered ==
  \A i \in Slot : entries[i] # EMPTY /\ Displacement(i) >= 1 =>
    LET p == Step(i, Cap - 1)
    IN  entries[p] # EMPTY /\ Displacement(p) >= Displacement(i) - 1

(* On a robin-hood ordered table that is not full, the backward shift of   *)
(* erase is right: every other order is still found afterwards.  insert,   *)
(* which is plain linear probing, is what does not keep that order.        *)
OrderedEraseKeepsLookups ==
  [][Ordered /\ (\E i \in Slot : entries[i] = EMPTY)
       /\ (\E id \in Ids : LeaveThroughLevel(id)) =>
       \A id \in Ids : held'[id] # EMPTY => find(id)' = held'[id]]_vars

-----------------------------------------------------------------------------
(* What the documentation says of the table.                               *)

(* OrderBook.hpp:110, "Returns NULL_IDX if not found": and the slot of the *)
(* order if it is there.  A cancel of a resting order must reach it.       *)
FindsEveryHeld == \A id \in Ids : held[id] # EMPTY => find(id) = held[id]

(* OrderBook.cpp:26, "pool_ and id_map_ are sized to the expected maximum  *)
(* live order count": with at least as many slots to spare as orders that  *)
(* rest, every probe of find, insert and erase meets an EMPTY slot.        *)
ProbesEnd == \A id \in Ids : Stops(id) # {}
=============================================================================
