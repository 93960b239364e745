----------------------------- MODULE OrderStore -----------------------------
(***************************************************************************)
(* The memory of the order book, pointer by pointer: the free list of      *)
(* OrderPool (src/core/OrderBook.hpp), threaded through next_idx, and the  *)
(* doubly linked lists of the price levels (level_append, level_remove     *)
(* and the loops that walk a level in OrderBook.cpp).                      *)
(*                                                                         *)
(* Linking and unlinking one order is one step; the two loops that change  *)
(* a list while they walk it, matching and the slide of the window, take   *)
(* one step per order and keep their local variables in "job".  Which of   *)
(* these a call makes, and when, is OrderBook's part; here they come in    *)
(* any order.                                                              *)
(*                                                                         *)
(* A definition named X_Word, just before X, is a plausible slip in X; it  *)
(* is used only to check that the properties notice it.                    *)
(***************************************************************************)
EXTENDS Integers, Sequences, FiniteSets, FiniteSetsExt, Functions

CONSTANTS
  MaxOrders,   \* max_orders, the slots of the pool
  Band,        \* price_band
  Prices,      \* absolute prices of incoming orders
  NULL         \* NULL_IDX

ASSUME StoreAssumption ==
  /\ MaxOrders \in Nat \ {0} /\ Band \in Nat \ {0}
  /\ Prices \subseteq Nat /\ Prices # {} /\ IsFiniteSet(Prices)
  /\ NULL \notin Nat

Slots == 0 .. MaxOrders - 1
Idx   == 0 .. Band - 1
Side  == {"BUY", "SELL"}

VARIABLES
  next_idx, prev_idx,   \* slot -> slot or NULL
  side_of, price_of,    \* slot -> the side and window index of its order
  free_head,
  level,                \* side -> index -> [head, tail, count]
  base,
  held,                 \* slots the id map leads to
  job                   \* the loop under way

vars == <<next_idx, prev_idx, side_of, price_of, free_head, level, base, held, job>>

EmptyLevel == [head |-> NULL, tail |-> NULL, count |-> 0]
NoLevels   == [side \in Side |-> [i \in Idx |-> EmptyLevel]]
Idle       == [op |-> "none"]

(* The pool is zeroed memory; slot i leads to slot i + 1.                  *)
Init ==
  /\ next_idx = [s \in Slots |-> IF s + 1 \in Slots THEN s + 1 ELSE NULL]
  /\ prev_idx = [s \in Slots |-> 0]
  /\ side_of = [s \in Slots |-> "BUY"] /\ price_of = [s \in Slots |-> 0]
  /\ free_head = 0
  /\ level = NoLevels
  /\ base = 0
  /\ held = {}
  /\ job = Idle

-----------------------------------------------------------------------------
(* One order.                                                              *)

Appended(l, s) ==
  [head |-> IF l.head = NULL THEN s ELSE l.head, tail |-> s, count |-> l.count + 1]

(* insert_limit_order: allocate takes the head of the free list, and       *)
(* level_append links the slot behind the tail.                            *)
Rest(side, price) ==
  LET s == free_head
      i == price - base
      l == level[side][i]
  IN  /\ job = Idle
      /\ i \in Idx /\ s # NULL
      /\ free_head' = next_idx[s]
      /\ prev_idx' = [prev_idx EXCEPT ![s] = l.tail]
      /\ next_idx' = [x \in Slots |-> IF x = s THEN NULL
                                      ELSE IF x = l.tail THEN s ELSE next_idx[x]]
      /\ level' = [level EXCEPT ![side][i] = Appended(l, s)]
      /\ side_of' = [side_of EXCEPT ![s] = side]
      /\ price_of' = [price_of EXCEPT ![s] = i]
      /\ held' = held \union {s}
      /\ UNCHANGED <<base, job>>

Remove_OneWay(s) ==
  LET p == prev_idx[s]
      n == next_idx[s]
  IN  /\ level' = [level EXCEPT ![side_of[s]][price_of[s]] =
                     [head |-> IF p = NULL THEN n ELSE @.head,
                      tail |-> IF n = NULL THEN p ELSE @.tail,
                      count |-> @.count - 1]]
      /\ next_idx' = [x \in Slots |-> IF x = s THEN free_head
                                      ELSE IF x = p THEN n ELSE next_idx[x]]
      /\ prev_idx' = [prev_idx EXCEPT ![s] = NULL]
      /\ free_head' = s
      /\ held' = held \ {s}
      /\ UNCHANGED <<side_of, price_of, base>>
(* level_remove closes the gap, erase forgets the id and deallocate pushes *)
(* the slot on the free list.                                              *)
Remove(s) ==
  LET p == prev_idx[s]
      n == next_idx[s]
  IN  /\ level' = [level EXCEPT ![side_of[s]][price_of[s]] =
                     [head |-> IF p = NULL THEN n ELSE @.head,
                      tail |-> IF n = NULL THEN p ELSE @.tail,
                      count |-> @.count - 1]]
      /\ next_idx' = [x \in Slots |-> IF x = s THEN free_head
                                      ELSE IF x = p THEN n ELSE next_idx[x]]
      /\ prev_idx' = [x \in Slots |-> IF x = s THEN NULL
                                      ELSE IF x = n THEN p ELSE prev_idx[x]]
      /\ free_head' = s
      /\ held' = held \ {s}
      /\ UNCHANGED <<side_of, price_of, base>>

(* cancel_order and a whole fill by execute_order.                         *)
Cancel(s) == job = Idle /\ s \in held /\ Remove(s) /\ UNCHANGED job

-----------------------------------------------------------------------------
(* The inner loop of match_against_asks/bids over one level.               *)

StartMatch(side, i) ==
  /\ job = Idle
  /\ level[side][i].head # NULL
  /\ job' = [op |-> "match", idx |-> level[side][i].head, side |-> side, at |-> i]
  /\ UNCHANGED <<next_idx, prev_idx, side_of, price_of, free_head, level, base, held>>

(* next is read before the slot goes to the free list.                     *)
Following(s) == next_idx[s]

(* The order at idx is used up, and the taker may want more ...            *)
MatchWhole ==
  LET s == job.idx
  IN  /\ job.op = "match"
      /\ Remove(s)
      /\ \/ job' = Idle
         \/ Following(s) # NULL /\ job' = [job EXCEPT !.idx = Following(s)]

(* ... or the taker is used up first.                                      *)
MatchPart ==
  /\ job.op = "match"
  /\ job' = Idle
  /\ UNCHANGED <<next_idx, prev_idx, side_of, price_of, free_head, level, base, held>>

-----------------------------------------------------------------------------
(* rebase_base.  Position k of the walk is level k of the bids, then level *)
(* k - Band of the asks.                                                   *)

Centred(price) == IF price < Band \div 2 THEN 0 ELSE price - Band \div 2

SideAt(k) == IF k < Band THEN "BUY" ELSE "SELL"
Moved(k)  == base + (k % Band) - job.base

StartRebase(price) ==
  /\ job = Idle
  /\ price - base \notin Idx
  /\ job' = [op |-> "rebase", at |-> 0, idx |-> level["BUY"][0].head,
             base |-> Centred(price), level |-> NoLevels]
  /\ UNCHANGED <<next_idx, prev_idx, side_of, price_of, free_head, level, base, held>>

Walking_FromHead(n) ==
  LET k == job.at + 1
  IN  IF n # NULL THEN [at |-> job.at, idx |-> level[SideAt(job.at)][job.at % Band].head]
      ELSE [at |-> k, idx |-> IF k < 2 * Band THEN level[SideAt(k)][k % Band].head
                              ELSE NULL]
(* The walk goes on with slot n, or with the next level if there is none.  *)
Walking(n) ==
  LET k == job.at + 1
  IN  IF n # NULL THEN [at |-> job.at, idx |-> n]
      ELSE [at |-> k, idx |-> IF k < 2 * Band THEN level[SideAt(k)][k % Band].head
                              ELSE NULL]

SkipEmpty ==
  /\ job.op = "rebase" /\ job.at < 2 * Band /\ job.idx = NULL
  /\ LET w == Walking(NULL)
     IN  job' = [job EXCEPT !.at = w.at, !.idx = w.idx]
  /\ UNCHANGED <<next_idx, prev_idx, side_of, price_of, free_head, level, base, held>>

(* A level outside the new window: its slots go to the free list.          *)
DropOne ==
  LET j == job.idx
      w == Walking(next_idx[j])
  IN  /\ job.op = "rebase" /\ j # NULL /\ Moved(job.at) \notin Idx
      /\ next_idx' = [next_idx EXCEPT ![j] = free_head]
      /\ free_head' = j
      /\ held' = held \ {j}
      /\ job' = [job EXCEPT !.at = w.at, !.idx = w.idx]
      /\ UNCHANGED <<prev_idx, side_of, price_of, level, base>>

MoveOne_LateNext ==
  LET j   == job.idx
      nr  == Moved(job.at)
      dst == job.level[SideAt(job.at)][nr]
      w   == Walking(NULL)
  IN  /\ job.op = "rebase" /\ j # NULL /\ nr \in Idx
      /\ price_of' = [price_of EXCEPT ![j] = nr]
      /\ next_idx' = [x \in Slots |-> IF x = j THEN NULL
                                      ELSE IF x = dst.tail THEN j ELSE next_idx[x]]
      /\ prev_idx' = [prev_idx EXCEPT ![j] = dst.tail]
      /\ job' = [job EXCEPT !.level[SideAt(job.at)][nr] = Appended(dst, j),
                            !.at = w.at, !.idx = w.idx]
      /\ UNCHANGED <<side_of, free_head, level, base, held>>
(* A level that stays: its slots are appended to the new level in turn.    *)
MoveOne ==
  LET j   == job.idx
      nr  == Moved(job.at)
      dst == job.level[SideAt(job.at)][nr]
      w   == Walking(next_idx[j])
  IN  /\ job.op = "rebase" /\ j # NULL /\ nr \in Idx
      /\ price_of' = [price_of EXCEPT ![j] = nr]
      /\ next_idx' = [x \in Slots |-> IF x = j THEN NULL
                                      ELSE IF x = dst.tail THEN j ELSE next_idx[x]]
      /\ prev_idx' = [prev_idx EXCEPT ![j] = dst.tail]
      /\ job' = [job EXCEPT !.level[SideAt(job.at)][nr] = Appended(dst, j),
                            !.at = w.at, !.idx = w.idx]
      /\ UNCHANGED <<side_of, free_head, level, base, held>>

Swap ==
  /\ job.op = "rebase" /\ job.at = 2 * Band
  /\ level' = job.level
  /\ base' = job.base
  /\ job' = Idle
  /\ UNCHANGED <<next_idx, prev_idx, side_of, price_of, free_head, held>>

Loop == MatchWhole \/ MatchPart \/ SkipEmpty \/ DropOne \/ MoveOne \/ Swap

Next ==
  \/ \E side \in Side, price \in Prices : Rest(side, price)
  \/ \E s \in Slots : Cancel(s)
  \/ \E side \in Side, i \in Idx : StartMatch(side, i)
  \/ \E price \in Prices : StartRebase(price)
  \/ Loop

(* The loops run to their end: the thread that called does nothing else.   *)
Spec == Init /\ [][Next]_vars /\ WF_vars(Loop)

-----------------------------------------------------------------------------
(* The list that starts at slot h, cut off where it can only be a cycle.   *)
Walk(h) ==
  LET at[k \in 0 .. MaxOrders] ==
        IF k = 0 THEN h ELSE IF at[k - 1] = NULL THEN NULL ELSE next_idx[at[k - 1]]
      ends == {k \in 0 .. MaxOrders : k = MaxOrders \/ at[k] = NULL}
  IN  [k \in 1 .. Min(ends) |-> at[k - 1]]

(* A list ends, at its tail, and reads the same in both directions.        *)
WellLinked(l) ==
  LET q == Walk(l.head)
  IN  /\ l.count = Len(q)
      /\ IF q = <<>> THEN l.tail = NULL
         ELSE /\ l.tail = q[Len(q)] /\ next_idx[l.tail] = NULL
              /\ \A k \in DOMAIN q :
                   prev_idx[q[k]] = IF k = 1 THEN NULL ELSE q[k - 1]

(* Outside a slide every level is a well-formed list of orders that name   *)
(* it.                                                                     *)
LevelsWellLinked ==
  job.op # "rebase" =>
    \A side \in Side, i \in Idx :
      /\ WellLinked(level[side][i])
      /\ \A s \in Range(Walk(level[side][i].head)) : side_of[s] = side /\ price_of[s] = i

(* The free list holds every slot whose order left, each once.             *)
FreeListExact ==
  LET f == Walk(free_head)
  IN  /\ Range(f) = Slots \ held
      /\ Len(f) = Cardinality(Slots \ held)

(* The links are exact in every step of every loop: level_remove unlinks   *)
(* an order from the middle of its level with nothing but its two links    *)
(* and its own record, allocate never hands out a slot an id still leads   *)
(* to, and no slot leaks, also halfway through a slide.                    *)
LinksExact == LevelsWellLinked /\ FreeListExact

-----------------------------------------------------------------------------
(* The lists by absolute price.  During a slide a list is what has been    *)
(* moved of it, then what the walk still has before it.                    *)

AllPrices == 0 .. Max(Prices) + Band

ListAt(l, i) == IF i \in Idx THEN Walk(l[i].head) ELSE <<>>

lists ==
  [sp \in Side \X AllPrices |->
     LET side == sp[1]
         i    == sp[2] - base
         k    == IF side = "BUY" THEN i ELSE i + Band
     IN  IF job.op # "rebase" THEN ListAt(level[side], i)
         ELSE IF i \notin Idx THEN <<>>
         ELSE IF k > job.at THEN Walk(level[side][i].head)
         ELSE ListAt(job.level[side], sp[2] - job.base)
                \o (IF k = job.at THEN Walk(job.idx) ELSE <<>>)]

Abstract == INSTANCE SlotLists WITH Levels <- Side \X AllPrices

(* The pool, the links and the walks implement one FIFO list per side and  *)
(* price: no step but an arrival or a departure of one order changes any   *)
(* of them, whichever level the window makes of the price.                 *)
ImplementsLists == Abstract!Spec

(* A loop over a list ends, although it rewrites the links it follows.     *)
LoopsEnd == job # Idle ~> job = Idle
=============================================================================
