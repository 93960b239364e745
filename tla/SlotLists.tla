----------------------------- MODULE SlotLists ------------------------------
(***************************************************************************)
(* What OrderPool and the intrusive level lists of OrderBook are for: one  *)
(* FIFO list of pool slots for every side and absolute price.  An order    *)
(* joins the end of its list with a slot that is in no list, and leaves    *)
(* from any place; that the window slides does not show.                   *)
(***************************************************************************)
EXTENDS Naturals, Sequences, FiniteSets, Functions

CONSTANTS Slots, Levels

VARIABLE lists   \* level -> sequence of slots

InUse == UNION {Range(lists[l]) : l \in Levels}

Without(q, k) == SubSeq(q, 1, k - 1) \o SubSeq(q, k + 1, Len(q))

Init == lists = [l \in Levels |-> <<>>]

Join(l) ==
  \E s \in Slots \ InUse : lists' = [lists EXCEPT ![l] = Append(@, s)]

Leave(l) ==
  \E k \in DOMAIN lists[l] : lists' = [lists EXCEPT ![l] = Without(@, k)]

Next == \E l \in Levels : Join(l) \/ Leave(l)

Spec == Init /\ [][Next]_lists
=============================================================================
