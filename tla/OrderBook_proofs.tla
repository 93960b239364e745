-------------------------- MODULE OrderBook_proofs --------------------------
(***************************************************************************)
(* The structures of the order book agree with each other for every set of *)
(* ids, pool size, price set, window width and rebase limit; then what its *)
(* steps may do.                                                           *)
(*                                                                         *)
(* Every call ends in an outcome of the contract.  The steps of OrderBook  *)
(* are restated on the view its callers have; while a call is matching,    *)
(* the view is the one it started from without the orders it has dropped   *)
(* and filled, and what it has left is what those fills left.              *)
(*                                                                         *)
(* While the window has room for every price, the book is a price-time     *)
(* book.  Its lists are restated as queues of ids and quantities; the      *)
(* window does not move, so the cached best stays exact and is the best    *)
(* price, and a step on one list is a step on one queue.                   *)
(***************************************************************************)
EXTENDS BookCalls, PriceTimeRefinement, SequenceTheorems, FiniteSetTheorems,
        WellFoundedInduction, TLAPS

-----------------------------------------------------------------------------
(* Extrema of sets of indices: the bitmap scans return a set bit.          *)

LEMMA MinOfNaturals ==
  ASSUME NEW T \in SUBSET Nat, T # {}
  PROVE  Min(T) \in T /\ \A y \in T : Min(T) <= y
<1>1. PICK x \in T : \A y \in T : ~ (<<y, x>> \in OpToRel(<, Nat))
  BY NatLessThanWellFounded, WFMin
<1>2. ASSUME NEW y \in T PROVE x <= y
  <2>1. y \in Nat /\ x \in Nat
    OBVIOUS
  <2>2. SUFFICES ASSUME y < x PROVE FALSE
    BY <2>1
  <2>3. <<y, x>> \in {ss \in Nat \X Nat : ss[1] < ss[2]}
    BY <2>1, <2>2
  <2>4. {ss \in Nat \X Nat : ss[1] < ss[2]} = OpToRel(<, Nat)
    BY DEF OpToRel
  <2> QED
    BY <2>3, <2>4, <1>1
<1> QED
  BY <1>2 DEF Min

LEMMA MaxOfIndices ==
  ASSUME NEW n \in Nat, NEW T \in SUBSET (0 .. n), T # {}
  PROVE  Max(T) \in T /\ \A y \in T : y <= Max(T)
<1> DEFINE M == {n - y : y \in T}
<1>1. M \in SUBSET Nat /\ M # {}
  <2>1. \A y \in T : y \in 0 .. n
    OBVIOUS
  <2>2. \A y \in T : n - y \in Nat
    BY <2>1
  <2> QED
    BY <2>2
<1>2. PICK x \in T : Min(M) = n - x
  BY <1>1, MinOfNaturals
<1>3. \A y \in T : n - x <= n - y
  BY <1>1, <1>2, MinOfNaturals
<1>4. \A y \in T : x >= y
  BY <1>3
<1> QED
  BY <1>4 DEF Max

LEMMA ScanReturnsSetBit ==
  ASSUME NEW bits \in SUBSET Idx, NEW start \in Nat
  PROVE  /\ find_prev_set_bit(bits, start) \in bits \union {NoLevel}
         /\ find_next_set_bit(bits, start) \in bits \union {NoLevel}
<1>1. Band \in Nat
  BY BookAssumption
<1>2. \A i \in bits : i \in Nat /\ i \in 0 .. Band
  <2>1. \A i \in bits : i \in 0 .. Band - 1
    BY DEF Idx
  <2> QED
    BY <1>1, <2>1
<1>3. ASSUME {i \in bits : i <= start} # {}
      PROVE  Max({i \in bits : i <= start}) \in bits
  <2>1. {i \in bits : i <= start} \in SUBSET (0 .. Band)
    BY <1>2
  <2> QED
    BY <1>1, <1>3, <2>1, MaxOfIndices
<1>4. ASSUME {i \in bits : i >= start} # {}
      PROVE  Min({i \in bits : i >= start}) \in bits
  <2>1. {i \in bits : i >= start} \in SUBSET Nat
    BY <1>2
  <2> QED
    BY <1>4, <2>1, MinOfNaturals
<1> QED
  BY <1>3, <1>4 DEF find_prev_set_bit, find_next_set_bit

LEMMA UpdateBestType ==
  ASSUME NEW bits \in SUBSET Idx, NEW cached \in Idx \union {NoLevel}, NEW side \in Side
  PROVE  update_best(side, bits, cached) \in bits \union {NoLevel}
<1>1. Band \in Nat \ {0}
  BY BookAssumption
<1>2. cached \in Nat /\ Band - 1 \in Nat
  BY <1>1 DEF Idx, NoLevel
<1> QED
  BY <1>1, <1>2, ScanReturnsSetBit DEF update_best, update_best_bid, update_best_ask

-----------------------------------------------------------------------------
(* Lists.  A list without repetition stays one when a slot is unlinked or  *)
(* a new one appended, and the others keep their places in it.             *)

Injective(q) == \A j, k \in DOMAIN q : q[j] = q[k] => j = k

LEMMA RangeIsImage ==
  ASSUME NEW S, NEW q \in Seq(S)
  PROVE  Range(q) = {q[k] : k \in 1 .. Len(q)} /\ DOMAIN q = 1 .. Len(q)
BY DEF Range

LEMMA OccupiedRange ==
  ASSUME NEW s, NEW q, s \in Range(q)
  PROVE  q # <<>>
BY DEF Range

LEMMA RemoveAtProperties ==
  ASSUME NEW S, NEW q \in Seq(S), NEW k \in 1 .. Len(q)
  PROVE  /\ RemoveAt(q, k) \in Seq(S)
         /\ Len(RemoveAt(q, k)) = Len(q) - 1
         /\ \A i \in 1 .. Len(q) - 1 :
              RemoveAt(q, k)[i] = IF i < k THEN q[i] ELSE q[i + 1]
<1> DEFINE a == SubSeq(q, 1, k - 1)
           b == SubSeq(q, k + 1, Len(q))
<1>1. Len(q) \in Nat /\ \A i \in 1 .. Len(q) : q[i] \in S
  BY LenProperties, ElementOfSeq
<1>2. a \in Seq(S) /\ Len(a) = k - 1 /\ \A i \in 1 .. k - 1 : a[i] = q[i]
  BY <1>1, SubSeqProperties
<1>3. /\ b \in Seq(S) /\ Len(b) = Len(q) - k
      /\ \A i \in 1 .. Len(q) - k : b[i] = q[k + i]
  BY <1>1, SubSeqProperties
<1> HIDE DEF a, b
<1>4. /\ a \o b \in Seq(S) /\ Len(a \o b) = Len(a) + Len(b)
      /\ \A i \in 1 .. Len(a) + Len(b) :
           (a \o b)[i] = IF i <= Len(a) THEN a[i] ELSE b[i - Len(a)]
  BY <1>2, <1>3, ConcatProperties
<1>5. RemoveAt(q, k) = a \o b
  BY DEF RemoveAt, a, b
<1>6. Len(a) + Len(b) = Len(q) - 1
  BY <1>1, <1>2, <1>3
<1>7. ASSUME NEW i \in 1 .. Len(q) - 1
      PROVE  (a \o b)[i] = IF i < k THEN q[i] ELSE q[i + 1]
  <2>1. CASE i < k
    <3>1. i \in 1 .. k - 1 /\ i \in 1 .. Len(a) + Len(b) /\ i <= Len(a)
      BY <2>1, <1>1, <1>2, <1>6
    <3> QED
      BY <2>1, <3>1, <1>2, <1>4
  <2>2. CASE i >= k
    <3>1. i - (k - 1) \in 1 .. Len(q) - k /\ k + (i - (k - 1)) = i + 1
      BY <2>2, <1>1
    <3>2. (a \o b)[i] = b[i - (k - 1)]
      <4>1. i \in 1 .. Len(a) + Len(b) /\ ~ (i <= Len(a))
        BY <2>2, <1>1, <1>2, <1>6
      <4> QED
        BY <4>1, <1>2, <1>4
    <3>3. b[i - (k - 1)] = q[i + 1]
      <4>1. b[i - (k - 1)] = q[k + (i - (k - 1))]
        BY ONLY <3>1, <1>3
      <4> QED
        BY ONLY <4>1, <3>1
    <3>4. ~ (i < k)
      BY <2>2, <1>1
    <3> QED
      BY ONLY <3>2, <3>3, <3>4
  <2>3. i < k \/ i >= k
    OBVIOUS
  <2> QED
    BY <2>1, <2>2, <2>3
<1> QED
  BY <1>4, <1>5, <1>6, <1>7

LEMMA UnlinkProperties ==
  ASSUME NEW S, NEW q \in Seq(S), Injective(q), NEW s \in Range(q)
  PROVE  /\ Unlink(q, s) \in Seq(S)
         /\ Range(Unlink(q, s)) = Range(q) \ {s}
         /\ Injective(Unlink(q, s))
<1> DEFINE k == CHOOSE j \in DOMAIN q : q[j] = s
           r == Unlink(q, s)
<1>1. Len(q) \in Nat /\ DOMAIN q = 1 .. Len(q)
  BY LenProperties
<1>2. k \in 1 .. Len(q) /\ q[k] = s
  BY <1>1 DEF Range
<1> HIDE DEF k
<1>3. /\ r \in Seq(S) /\ Len(r) = Len(q) - 1
      /\ \A i \in 1 .. Len(q) - 1 : r[i] = IF i < k THEN q[i] ELSE q[i + 1]
  BY <1>2, RemoveAtProperties DEF Unlink, k
<1>4. DOMAIN r = 1 .. Len(q) - 1
  BY <1>3, LenProperties
<1> HIDE DEF r
<1>5. Range(r) \subseteq Range(q) \ {s}
  <2> SUFFICES ASSUME NEW i \in 1 .. Len(q) - 1 PROVE r[i] \in Range(q) \ {s}
    BY <1>4 DEF Range
  <2>1. CASE i < k
    BY <2>1, <1>1, <1>2, <1>3 DEF Range, Injective
  <2>2. CASE i >= k
    BY <2>2, <1>1, <1>2, <1>3 DEF Range, Injective
  <2> QED
    BY <2>1, <2>2, <1>2
<1>6. Range(q) \ {s} \subseteq Range(r)
  <2> SUFFICES ASSUME NEW i \in 1 .. Len(q), q[i] # s PROVE q[i] \in Range(r)
    BY <1>1 DEF Range
  <2>1. CASE i < k
    <3>1. i \in 1 .. Len(q) - 1 /\ r[i] = q[i]
      BY <2>1, <1>1, <1>2, <1>3
    <3> QED
      BY <3>1, <1>4 DEF Range
  <2>2. CASE i > k
    <3>1. i - 1 \in 1 .. Len(q) - 1 /\ r[i - 1] = q[i]
      BY <2>2, <1>1, <1>2, <1>3
    <3> QED
      BY <3>1, <1>4 DEF Range
  <2> QED
    BY <2>1, <2>2, <1>2
<1>7. Injective(r)
  <2> SUFFICES ASSUME NEW i \in 1 .. Len(q) - 1, NEW j \in 1 .. Len(q) - 1,
                      r[i] = r[j]
               PROVE  i = j
    BY <1>4 DEF Injective
  <2> DEFINE Old(n) == IF n < k THEN n ELSE n + 1
  <2>1. ASSUME NEW n \in 1 .. Len(q) - 1
        PROVE  Old(n) \in 1 .. Len(q) /\ r[n] = q[Old(n)]
    <3>1. Old(n) \in 1 .. Len(q)
      BY ONLY <1>1, <1>2
    <3>2. r[n] = IF n < k THEN q[n] ELSE q[n + 1]
      BY <1>3
    <3> QED
      BY ONLY <3>1, <3>2
  <2>2. Old(i) = Old(j) => i = j
    BY ONLY <1>1, <1>2
  <2> HIDE DEF Old
  <2>3. q[Old(i)] = q[Old(j)] => Old(i) = Old(j)
    BY <1>1, <2>1 DEF Injective
  <2> QED
    BY <2>1, <2>2, <2>3
<1> QED
  BY <1>3, <1>5, <1>6, <1>7 DEF r

LEMMA AppendFresh ==
  ASSUME NEW S, NEW q \in Seq(S), Injective(q), NEW s \in S, s \notin Range(q)
  PROVE  /\ Append(q, s) \in Seq(S)
         /\ Range(Append(q, s)) = Range(q) \union {s}
         /\ Injective(Append(q, s))
<1> DEFINE r == Append(q, s)
<1>1. Len(q) \in Nat /\ DOMAIN q = 1 .. Len(q)
  BY LenProperties
<1>2. /\ r \in Seq(S) /\ Len(r) = Len(q) + 1
      /\ \A i \in 1 .. Len(q) : r[i] = q[i]
      /\ r[Len(q) + 1] = s
  BY AppendProperties
<1>3. DOMAIN r = 1 .. Len(q) + 1
  BY <1>2, LenProperties
<1> HIDE DEF r
<1>4. Range(r) = Range(q) \union {s}
  BY <1>1, <1>2, <1>3 DEF Range
<1>5. Injective(r)
  BY <1>1, <1>2, <1>3 DEF Range, Injective
<1> QED
  BY <1>2, <1>4, <1>5 DEF r

-----------------------------------------------------------------------------
(* The inductive invariant.                                                *)

Pools  == [Slots -> Order \union {NULL}]
Maps   == [Ids -> Slots \union {NULL}]
Queues == [Side -> [Idx -> Seq(Slots)]]

(* QueuesPartitionPool, list by list: a list holds, once each, the slots   *)
(* of the orders that name it.                                             *)
Partition(P, Q) ==
  \A side \in Side, i \in Idx :
    /\ Injective(Q[side][i])
    /\ Range(Q[side][i]) = {s \in Slots : P[s] # NULL /\ P[s].side = side
                                                     /\ P[s].price = i}

(* IdMapExact for a pool and a map.                                        *)
Exact(P, M) ==
  /\ \A id \in Ids : M[id] # NULL => P[M[id]] # NULL /\ P[M[id]].id = id
  /\ \A s \in Slots : P[s] # NULL => M[P[s].id] = s

Shelves ==
  /\ Partition(pool, queue)
  /\ Exact(pool, id_map)
  /\ BitmapExact
  /\ LevelPriceExact

(* Until the first order anchors the window nothing rests.                 *)
AnchoredFirst ==
  base_set \/ \A side \in Side, i \in Idx : queue[side][i] = <<>>

IInv == TypeOK /\ Shelves /\ BestIsLive /\ TakerInWindow /\ AnchoredFirst

(* A resting order leaves.                                                 *)
LEMMA RemoveKeepsPartition ==
  ASSUME NEW P \in Pools, NEW Q \in Queues, Partition(P, Q),
         NEW s \in Slots, P[s] # NULL,
         NEW P2, P2 = [P EXCEPT ![s] = NULL],
         NEW Q2, Q2 = [Q EXCEPT ![P[s].side][P[s].price] =
                         Unlink(Q[P[s].side][P[s].price], s)]
  PROVE  P2 \in Pools /\ Q2 \in Queues /\ Partition(P2, Q2)
<1> DEFINE o == P[s]
           q == Q[o.side][o.price]
<1>1. o \in Order /\ o.side \in Side /\ o.price \in Idx
  BY DEF Pools, Order
<1>2. q \in Seq(Slots) /\ Injective(q) /\ s \in Range(q)
  BY <1>1 DEF Queues, Partition
<1> HIDE DEF q
<1>3. /\ Unlink(q, s) \in Seq(Slots)
      /\ Range(Unlink(q, s)) = Range(q) \ {s}
      /\ Injective(Unlink(q, s))
  BY <1>2, UnlinkProperties
<1>4. Q2 = [Q EXCEPT ![o.side][o.price] = Unlink(q, s)]
  BY DEF q
<1>5. Q2 \in Queues
  BY <1>1, <1>3, <1>4 DEF Queues
<1>6. P2 \in Pools
  BY DEF Pools
<1>7. ASSUME NEW side \in Side, NEW i \in Idx
      PROVE  /\ Injective(Q2[side][i])
             /\ Range(Q2[side][i]) = {t \in Slots : P2[t] # NULL
                                        /\ P2[t].side = side /\ P2[t].price = i}
  <2>1. CASE side = o.side /\ i = o.price
    <3>1. Q2[side][i] = Unlink(q, s) /\ q = Q[side][i]
      BY <1>1, <1>4, <2>1 DEF Queues, q
    <3>2. Range(q) = {t \in Slots : P[t] # NULL /\ P[t].side = side
                                                 /\ P[t].price = i}
      BY <3>1 DEF Partition
    <3> QED
      BY <1>3, <3>1, <3>2 DEF Pools
  <2>2. CASE ~ (side = o.side /\ i = o.price)
    <3>1. Q2[side][i] = Q[side][i]
      BY <1>1, <1>4, <2>2 DEF Queues
    <3> QED
      BY <3>1, <2>2 DEF Pools, Partition
  <2> QED
    BY <2>1, <2>2
<1> QED
  BY <1>5, <1>6, <1>7 DEF Partition

LEMMA RemoveKeepsMap ==
  ASSUME NEW P \in Pools, NEW M \in Maps, Exact(P, M),
         NEW s \in Slots, P[s] # NULL,
         NEW P2, P2 = [P EXCEPT ![s] = NULL],
         NEW M2, M2 = [M EXCEPT ![P[s].id] = NULL]
  PROVE  M2 \in Maps /\ Exact(P2, M2)
<1>1. P[s].id \in Ids /\ M[P[s].id] = s
  BY DEF Pools, Order, Exact
<1>2. M2 \in Maps
  BY DEF Maps
<1>3. \A id \in Ids : M2[id] # NULL => P2[M2[id]] # NULL /\ P2[M2[id]].id = id
  BY <1>1 DEF Pools, Maps, Exact
<1>4. \A t \in Slots : P2[t] # NULL => M2[P2[t].id] = t
  BY <1>1 DEF Pools, Order, Maps, Exact
<1> QED
  BY <1>2, <1>3, <1>4 DEF Exact

(* What RemoveOrder leaves of the structures, and that only the list the   *)
(* order was in becomes shorter.                                           *)
LEMMA RemoveOrderKeepsShelves ==
  ASSUME TypeOK, Shelves, NEW s \in Slots, pool[s] # NULL, RemoveOrder(s),
         base' = base
  PROVE  /\ pool' \in Pools /\ id_map' \in Maps /\ queue' \in Queues
         /\ level_price' \in [Side -> [Idx -> Nat]]
         /\ bitmap' \in [Side -> SUBSET Idx]
         /\ Shelves'
         /\ \A side \in Side, i \in Idx :
              side # pool[s].side \/ i # pool[s].price =>
                queue'[side][i] = queue[side][i]
<1> DEFINE o == pool[s]
           rest == Unlink(queue[o.side][o.price], s)
<1>1. pool \in Pools /\ id_map \in Maps /\ queue \in Queues
  BY DEF TypeOK, Pools, Maps, Queues
<1>2. o.side \in Side /\ o.price \in Idx
  BY <1>1 DEF Pools, Order
<1>3. /\ queue' = [queue EXCEPT ![o.side][o.price] = rest]
      /\ level_price' = [level_price EXCEPT ![o.side][o.price] =
                           IF rest = <<>> THEN 0
                           ELSE level_price[o.side][o.price]]
      /\ bitmap' = [bitmap EXCEPT ![o.side] =
                      ClearBit(bitmap[o.side], o.price, rest)]
      /\ pool' = [pool EXCEPT ![s] = NULL]
      /\ id_map' = [id_map EXCEPT ![o.id] = NULL]
  BY DEF RemoveOrder, level_remove
<1>4. pool' \in Pools /\ queue' \in Queues /\ Partition(pool', queue')
  BY <1>1, <1>3, RemoveKeepsPartition DEF Shelves
<1>5. id_map' \in Maps /\ Exact(pool', id_map')
  BY <1>1, <1>3, RemoveKeepsMap DEF Shelves
<1> HIDE DEF rest, o
<1>6. level_price' \in [Side -> [Idx -> Nat]] /\ bitmap' \in [Side -> SUBSET Idx]
  BY <1>2, <1>3 DEF TypeOK, ClearBit
<1>7. \A side \in Side, i \in Idx :
        queue'[side][i] = IF side = o.side /\ i = o.price THEN rest
                          ELSE queue[side][i]
  BY <1>1, <1>2, <1>3 DEF Queues
<1>8. queue[o.side][o.price] # <<>>
  <2>1. s \in Range(queue[o.side][o.price])
    BY <1>1, <1>2 DEF Shelves, Partition, Pools, o
  <2> QED
    BY <2>1, OccupiedRange
<1>9. BitmapExact'
  <2> SUFFICES ASSUME NEW side \in Side
               PROVE  bitmap'[side] = {i \in Idx : queue'[side][i] # <<>>}
    BY DEF BitmapExact
  <2>1. /\ bitmap[side] = {i \in Idx : queue[side][i] # <<>>}
        /\ bitmap'[side] = IF side # o.side THEN bitmap[side]
                           ELSE ClearBit(bitmap[side], o.price, rest)
    BY <1>2, <1>3 DEF BitmapExact, Shelves, TypeOK
  <2>2. CASE side # o.side
    BY <1>7, <2>1, <2>2
  <2>3. CASE side = o.side /\ rest = <<>>
    BY <1>7, <2>1, <2>3 DEF ClearBit
  <2>4. CASE side = o.side /\ rest # <<>>
    BY <1>7, <1>8, <2>1, <2>4 DEF ClearBit
  <2> QED
    BY <2>2, <2>3, <2>4
<1>10. LevelPriceExact'
  <2> SUFFICES ASSUME NEW side \in Side, NEW i \in Idx, queue'[side][i] # <<>>
               PROVE  level_price'[side][i] = base' + i
    BY DEF LevelPriceExact
  <2>2. queue[side][i] # <<>>
    BY <1>7, <1>8
  <2> QED
    BY <1>2, <1>3, <1>7, <2>2 DEF LevelPriceExact, Shelves, TypeOK
<1> QED
  BY <1>4, <1>5, <1>6, <1>7, <1>9, <1>10 DEF Shelves, o

(* An order shrinks in place: the lists do not change at all.              *)
LEMMA ReduceOrderKeepsShelves ==
  ASSUME TypeOK, Shelves, NEW s \in Slots, pool[s] # NULL,
         NEW qty \in Nat, qty < pool[s].qty, ReduceOrder(s, qty), base' = base
  PROVE  /\ pool' \in Pools /\ id_map' \in Maps /\ queue' \in Queues
         /\ level_price' \in [Side -> [Idx -> Nat]]
         /\ bitmap' \in [Side -> SUBSET Idx]
         /\ Shelves'
         /\ queue' = queue
<1>1. pool \in Pools /\ id_map \in Maps /\ queue \in Queues
  BY DEF TypeOK, Pools, Maps, Queues
<1>2. PICK o \in Order : o = pool[s]
  BY <1>1 DEF Pools
<1> DEFINE n == [o EXCEPT !.qty = o.qty - qty]
<1>3. n \in Order /\ n.id = o.id /\ n.side = o.side /\ n.price = o.price
  <2>1. o.qty \in Nat \ {0} /\ o.qty - qty \in Nat \ {0}
    BY <1>2 DEF Order
  <2> QED
    BY <2>1 DEF Order
<1>4. /\ pool' = [pool EXCEPT ![s] = n]
      /\ UNCHANGED <<id_map, queue, level_price, bitmap>>
  BY <1>2 DEF ReduceOrder
<1> HIDE DEF n
<1>5. pool' \in Pools
  BY <1>1, <1>3, <1>4 DEF Pools
<1>6. n # NULL
  BY <1>3, NullAssumption
<1>7. Partition(pool', queue')
  BY <1>1, <1>2, <1>3, <1>4, <1>6 DEF Shelves, Partition, Pools
<1>8. Exact(pool', id_map')
  BY <1>1, <1>2, <1>3, <1>4, <1>6 DEF Shelves, Exact, Pools, Maps
<1>9. BitmapExact' /\ LevelPriceExact'
  BY <1>4 DEF Shelves, BitmapExact, LevelPriceExact
<1> QED
  BY <1>1, <1>4, <1>5, <1>7, <1>8, <1>9 DEF Shelves, TypeOK

(* After one level changed, the refreshed best is an occupied level again. *)
LEMMA RefreshTopKeepsBest ==
  ASSUME TypeOK, BestIsLive, BitmapExact', NEW side \in Side, NEW i \in Idx,
         bitmap' \in [Side -> SUBSET Idx],
         \A sd \in Side, j \in Idx :
           sd # side \/ j # i => queue'[sd][j] = queue[sd][j],
         RefreshTop(side, i)
  PROVE  best' \in [Side -> Idx \union {NoLevel}] /\ BestIsLive'
<1>1. best \in [Side -> Idx \union {NoLevel}]
  BY DEF TypeOK
<1>2. CASE i # best[side]
  <2>1. best' = best
    BY <1>2 DEF RefreshTop, tob
  <2> QED
    BY <1>1, <1>2, <2>1 DEF BestIsLive
<1>3. CASE i = best[side]
  <2> DEFINE b == IF queue'[side][i] = <<>>
                  THEN update_best(side, bitmap'[side], i) ELSE i
  <2>1. best' = [best EXCEPT ![side] = b]
    BY <1>3 DEF RefreshTop
  <2>2. b \in Idx \union {NoLevel} /\ (b # NoLevel => queue'[side][b] # <<>>)
    <3>1. update_best(side, bitmap'[side], i) \in bitmap'[side] \union {NoLevel}
      BY UpdateBestType
    <3>2. bitmap'[side] = {j \in Idx : queue'[side][j] # <<>>}
      BY DEF BitmapExact
    <3> QED
      BY <3>1, <3>2
  <2> HIDE DEF b
  <2>3. best' \in [Side -> Idx \union {NoLevel}]
    BY <1>1, <2>1, <2>2
  <2>4. ASSUME NEW sd \in Side, best'[sd] # NoLevel
        PROVE  queue'[sd][best'[sd]] # <<>>
    <3>1. CASE sd = side
      BY <1>1, <2>1, <2>2, <2>4, <3>1
    <3>2. CASE sd # side
      <4>1. best'[sd] = best[sd] /\ best[sd] \in Idx
        BY <1>1, <2>1, <2>4, <3>2
      <4>2. queue'[sd][best[sd]] = queue[sd][best[sd]]
        BY <3>2, <4>1
      <4> QED
        BY <2>4, <4>1, <4>2 DEF BestIsLive
    <3> QED
      BY <3>1, <3>2
  <2> QED
    BY <2>3, <2>4 DEF BestIsLive
<1> QED
  BY <1>2, <1>3

(* A new order takes a free slot and joins its level.                      *)
LEMMA AddKeepsPartition ==
  ASSUME NEW P \in Pools, NEW Q \in Queues, Partition(P, Q),
         NEW s \in Slots, P[s] = NULL, NEW o \in Order,
         NEW P2, P2 = [P EXCEPT ![s] = o],
         NEW Q2, Q2 = [Q EXCEPT ![o.side][o.price] =
                         Append(Q[o.side][o.price], s)]
  PROVE  P2 \in Pools /\ Q2 \in Queues /\ Partition(P2, Q2)
<1> DEFINE q == Q[o.side][o.price]
<1>1. o # NULL /\ o.side \in Side /\ o.price \in Idx
  BY NullAssumption DEF Order
<1>2. q \in Seq(Slots) /\ Injective(q) /\ s \notin Range(q)
  BY <1>1 DEF Queues, Partition
<1> HIDE DEF q
<1>3. /\ Append(q, s) \in Seq(Slots)
      /\ Range(Append(q, s)) = Range(q) \union {s}
      /\ Injective(Append(q, s))
  BY <1>2, AppendFresh
<1>4. Q2 = [Q EXCEPT ![o.side][o.price] = Append(q, s)]
  BY DEF q
<1>5. Q2 \in Queues
  BY <1>1, <1>3, <1>4 DEF Queues
<1>6. P2 \in Pools
  BY DEF Pools
<1>7. ASSUME NEW side \in Side, NEW i \in Idx
      PROVE  /\ Injective(Q2[side][i])
             /\ Range(Q2[side][i]) = {t \in Slots : P2[t] # NULL
                                        /\ P2[t].side = side /\ P2[t].price = i}
  <2>1. CASE side = o.side /\ i = o.price
    <3>1. Q2[side][i] = Append(q, s) /\ q = Q[side][i]
      BY <1>1, <1>4, <2>1 DEF Queues, q
    <3>2. Range(q) = {t \in Slots : P[t] # NULL /\ P[t].side = side
                                                 /\ P[t].price = i}
      BY <3>1 DEF Partition
    <3>3. P2[s] = o /\ \A t \in Slots : t # s => P2[t] = P[t]
      BY DEF Pools
    <3>4. {t \in Slots : P2[t] # NULL /\ P2[t].side = side /\ P2[t].price = i}
            = Range(q) \union {s}
      BY <1>1, <2>1, <3>2, <3>3
    <3> QED
      BY <1>3, <3>1, <3>4
  <2>2. CASE ~ (side = o.side /\ i = o.price)
    <3>1. Q2[side][i] = Q[side][i]
      BY <1>1, <1>4, <2>2 DEF Queues
    <3> QED
      BY <3>1, <2>2 DEF Pools, Partition
  <2> QED
    BY <2>1, <2>2
<1> QED
  BY <1>5, <1>6, <1>7 DEF Partition

LEMMA AddKeepsMap ==
  ASSUME NEW P \in Pools, NEW M \in Maps, Exact(P, M),
         NEW s \in Slots, P[s] = NULL, NEW o \in Order, M[o.id] = NULL,
         NEW P2, P2 = [P EXCEPT ![s] = o],
         NEW M2, M2 = [M EXCEPT ![o.id] = s]
  PROVE  M2 \in Maps /\ Exact(P2, M2)
<1>1. o.id \in Ids /\ o # NULL /\ s # NULL
  BY NullAssumption, BookAssumption DEF Order
<1>2. M2 \in Maps
  BY <1>1 DEF Maps
<1>3. \A id \in Ids : M2[id] # NULL => P2[M2[id]] # NULL /\ P2[M2[id]].id = id
  BY <1>1 DEF Pools, Maps, Exact
<1>4. ASSUME NEW t \in Slots, P2[t] # NULL PROVE M2[P2[t].id] = t
  <2>1. CASE t = s
    BY <1>1, <2>1 DEF Pools, Maps
  <2>2. CASE t # s
    <3>1. P2[t] = P[t] /\ P[t] \in Order /\ P[t].id \in Ids
      BY <1>4, <2>2 DEF Pools, Order
    <3>2. M[P[t].id] = t /\ t # NULL
      BY <1>4, <3>1, BookAssumption DEF Exact
    <3> QED
      BY <1>1, <3>1, <3>2 DEF Maps
  <2> QED
    BY <2>1, <2>2
<1> QED
  BY <1>2, <1>3, <1>4 DEF Exact

LEMMA AppendIsNotEmpty ==
  ASSUME NEW S, NEW q \in Seq(S), NEW s \in S
  PROVE  Append(q, s) # <<>>
BY LenProperties, AppendProperties, EmptySeq

LEMMA RestRemainderKeepsInvariant ==
  ASSUME IInv, RestRemainder
  PROVE  IInv'
<1>1. /\ pool \in Pools /\ id_map \in Maps /\ queue \in Queues
      /\ best \in [Side -> Idx \union {NoLevel}] /\ base \in Nat
      /\ level_price \in [Side -> [Idx -> Nat]] /\ bitmap \in [Side -> SUBSET Idx]
  BY DEF IInv, TypeOK, Pools, Maps, Queues
<1>2. PICK t \in [id : Ids, side : Side, price : Prices, limit : Idx, left : Nat \ {0}] :
        t = taker
  <2>1. taker \in Takers /\ taker.price # NULL
    BY DEF IInv, TypeOK, RestRemainder
  <2> QED
    BY <2>1 DEF Takers
<1> DEFINE o == [id |-> t.id, side |-> t.side, price |-> t.limit, qty |-> t.left]
<1>3. o \in Order /\ o.id = t.id /\ o.side = t.side /\ o.price = t.limit
  BY DEF Order
<1>4. t.price = base + t.limit /\ id_map[t.id] = NULL
  BY <1>2 DEF IInv, TakerInWindow, RestRemainder
<1> DEFINE q == queue[t.side][t.limit]
<1>5. PICK s \in Slots :
        /\ pool[s] = NULL
        /\ pool' = [pool EXCEPT ![s] = o]
        /\ id_map' = [id_map EXCEPT ![t.id] = s]
        /\ queue' = [queue EXCEPT ![t.side][t.limit] = Append(q, s)]
        /\ level_price' = [level_price EXCEPT ![t.side][t.limit] =
                             IF q = <<>> THEN t.price
                             ELSE level_price[t.side][t.limit]]
        /\ bitmap' = [bitmap EXCEPT ![t.side] =
                        IF q = <<>> THEN bitmap[t.side] \union {t.limit}
                        ELSE bitmap[t.side]]
  BY <1>2 DEF RestRemainder, level_append, Live
<1> HIDE DEF o
<1>6. pool' \in Pools /\ queue' \in Queues /\ Partition(pool', queue')
  BY <1>1, <1>3, <1>5, AddKeepsPartition DEF IInv, Shelves
<1>7. id_map' \in Maps /\ Exact(pool', id_map')
  BY <1>1, <1>3, <1>4, <1>5, AddKeepsMap DEF IInv, Shelves
<1>8. q \in Seq(Slots)
  BY <1>1, <1>2 DEF Queues
<1> HIDE DEF q
<1>9. q \in Seq(Slots) /\ Append(q, s) # <<>>
  BY <1>8, AppendIsNotEmpty
<1>10. \A side \in Side, i \in Idx :
        queue'[side][i] = IF side = t.side /\ i = t.limit THEN Append(q, s)
                          ELSE queue[side][i]
  BY <1>1, <1>2, <1>5 DEF Queues
<1>11. q = queue[t.side][t.limit]
  BY DEF q
<1>12. level_price' \in [Side -> [Idx -> Nat]] /\ bitmap' \in [Side -> SUBSET Idx]
  BY <1>1, <1>2, <1>5, BookAssumption
<1>13. BitmapExact'
  <2> SUFFICES ASSUME NEW side \in Side
               PROVE  bitmap'[side] = {i \in Idx : queue'[side][i] # <<>>}
    BY DEF BitmapExact
  <2>1. /\ bitmap[side] = {i \in Idx : queue[side][i] # <<>>}
        /\ bitmap'[side] = IF side # t.side \/ q # <<>> THEN bitmap[side]
                           ELSE bitmap[side] \union {t.limit}
    BY <1>1, <1>5 DEF BitmapExact, IInv, Shelves
  <2>2. CASE side = t.side
    <3>1. bitmap'[side] = bitmap[side] \union {t.limit}
      BY <1>2, <1>11, <2>1, <2>2
    <3>2. \A i \in Idx : queue'[side][i] # <<>> <=>
                           i = t.limit \/ queue[side][i] # <<>>
      BY <1>9, <1>10, <2>2
    <3> QED
      BY <1>2, <2>1, <3>1, <3>2
  <2>3. CASE side # t.side
    BY <1>10, <2>1, <2>3
  <2> QED
    BY <2>2, <2>3
<1>14. LevelPriceExact'
  <2> SUFFICES ASSUME NEW side \in Side, NEW i \in Idx, queue'[side][i] # <<>>
               PROVE  level_price'[side][i] = base' + i
    BY DEF LevelPriceExact
  <2>1. base' = base
    BY DEF RestRemainder, window
  <2> QED
    BY <1>1, <1>2, <1>4, <1>5, <1>10, <1>11, <2>1 DEF LevelPriceExact, IInv, Shelves
<1>15. best' \in [Side -> Idx \union {NoLevel}] /\ BestIsLive'
  <2>1. best' = best \/ best' = [best EXCEPT ![t.side] = t.limit]
    BY <1>2 DEF RestRemainder, tob
  <2>2. best' \in [Side -> Idx \union {NoLevel}]
    BY <1>1, <1>2, <2>1
  <2>3. ASSUME NEW side \in Side, best'[side] # NoLevel
        PROVE  queue'[side][best'[side]] # <<>>
    <3>1. CASE best'[side] = best[side]
      <4>1. best[side] \in Idx /\ queue[side][best[side]] # <<>>
        BY <1>1, <2>3, <3>1 DEF IInv, BestIsLive
      <4>2. queue'[side][best[side]] # <<>>
        BY <1>9, <1>10, <4>1
      <4> QED
        BY <3>1, <4>2
    <3>2. CASE side = t.side /\ best'[side] = t.limit
      BY <1>2, <1>9, <1>10, <3>2
    <3> QED
      BY <1>1, <2>1, <3>1, <3>2
  <2> QED
    BY <2>2, <2>3 DEF BestIsLive
<1>16. live_order_count' \in Nat
  <2>1. PICK n \in Nat : n = live_order_count
    BY DEF IInv, TypeOK
  <2>2. live_order_count' = n + 1
    BY <2>1 DEF RestRemainder
  <2> QED
    BY <2>2
<1>17. base' = base /\ base_set' = base_set /\ taker' = NULL /\ trade' = NULL
  BY DEF RestRemainder, window
<1>18. TypeOK'
  BY <1>6, <1>7, <1>12, <1>15, <1>16, <1>17
     DEF IInv, TypeOK, Pools, Maps, Queues
<1>19. TakerInWindow'
  BY <1>17 DEF TakerInWindow
<1>20. AnchoredFirst'
  BY <1>2, <1>17 DEF AnchoredFirst, IInv, TakerInWindow, RestRemainder
<1> QED
  BY <1>6, <1>7, <1>13, <1>14, <1>15, <1>19, <1>18, <1>20 DEF IInv, Shelves

(* The window slides by d: an order is dropped when its new index is       *)
(* outside the window, and each list moves as a whole.                     *)
LEMMA SlideKeepsPartition ==
  ASSUME NEW P \in Pools, NEW Q \in Queues, Partition(P, Q), NEW d \in Int,
         NEW P2, P2 = [s \in Slots |->
                         IF P[s] = NULL \/ P[s].price + d \notin Idx THEN NULL
                         ELSE Relabelled(P[s], d)],
         NEW Q2, Q2 = [side \in Side |-> [i \in Idx |->
                         IF i - d \in Idx THEN Q[side][i - d] ELSE <<>>]]
  PROVE  P2 \in Pools /\ Q2 \in Queues /\ Partition(P2, Q2)
<1>1. ASSUME NEW s \in Slots, P[s] # NULL, P[s].price + d \in Idx
      PROVE  /\ P2[s] = Relabelled(P[s], d)
             /\ P2[s] \in Order /\ P2[s] # NULL
             /\ P2[s].side = P[s].side /\ P2[s].price = P[s].price + d
             /\ P2[s].id = P[s].id
  <2>1. P2[s] = [P[s] EXCEPT !.price = P[s].price + d]
    BY <1>1 DEF Relabelled
  <2>2. P[s] \in Order
    BY <1>1 DEF Pools
  <2>3. P2[s] \in Order
    BY <1>1, <2>1, <2>2 DEF Order
  <2> QED
    BY <1>1, <2>1, <2>2, <2>3, NullAssumption DEF Order, Relabelled
<1>2. \A s \in Slots : P[s] = NULL \/ P[s].price + d \notin Idx => P2[s] = NULL
  OBVIOUS
<1>3. P2 \in Pools
  <2>1. \A s \in Slots : P2[s] \in Order \union {NULL}
    BY <1>1, <1>2
  <2>2. P2 = [s \in Slots |-> P2[s]]
    OBVIOUS
  <2> QED
    BY <2>1, <2>2 DEF Pools
<1>4. \A side \in Side, i \in Idx :
        Q2[side][i] = IF i - d \in Idx THEN Q[side][i - d] ELSE <<>>
  OBVIOUS
<1>5. Q2 \in Queues
  <2>1. \A side \in Side, i \in Idx : Q2[side][i] \in Seq(Slots)
    BY <1>4, EmptySeq DEF Queues
  <2> QED
    BY <2>1 DEF Queues
<1>6. ASSUME NEW side \in Side, NEW i \in Idx
      PROVE  /\ Injective(Q2[side][i])
             /\ Range(Q2[side][i]) = {t \in Slots : P2[t] # NULL
                                        /\ P2[t].side = side /\ P2[t].price = i}
  <2>1. i \in Int /\ \A t \in Slots : P[t] # NULL => P[t].price \in Int
    BY BookAssumption DEF Pools, Order, Idx
  <2>2. CASE i - d \in Idx
    <3>1. Q2[side][i] = Q[side][i - d]
      BY <1>4, <2>2
    <3>2. \A t \in Slots :
            P2[t] # NULL /\ P2[t].side = side /\ P2[t].price = i
              <=> P[t] # NULL /\ P[t].side = side /\ P[t].price = i - d
      <4> SUFFICES ASSUME NEW t \in Slots
                   PROVE  P2[t] # NULL /\ P2[t].side = side /\ P2[t].price = i
                            <=> P[t] # NULL /\ P[t].side = side /\ P[t].price = i - d
        OBVIOUS
      <4>1. CASE P[t] = NULL \/ P[t].price + d \notin Idx
        <5>1. P[t] # NULL => P[t].price # i - d
          <6> SUFFICES ASSUME P[t] # NULL, P[t].price = i - d PROVE FALSE
            OBVIOUS
          <6>1. P[t].price + d = i
            BY <2>1
          <6> QED
            BY <4>1, <6>1
        <5> QED
          BY <1>2, <4>1, <5>1
      <4>2. CASE P[t] # NULL /\ P[t].price + d \in Idx
        <5>1. P[t].price + d = i <=> P[t].price = i - d
          BY <2>1, <4>2
        <5> QED
          BY <1>1, <4>2, <5>1
      <4> QED
        BY <4>1, <4>2
    <3> QED
      BY <2>2, <3>1, <3>2 DEF Partition
  <2>3. CASE i - d \notin Idx
    <3>1. Q2[side][i] = <<>>
      BY <1>4, <2>3
    <3>2. ASSUME NEW t \in Slots, P2[t] # NULL, P2[t].price = i PROVE FALSE
      <4>1. P[t] # NULL /\ P2[t].price = P[t].price + d
        BY <1>1, <1>2, <3>2
      <4>2. P[t].price = i - d /\ P[t].price \in Idx
        BY <2>1, <3>2, <4>1 DEF Pools, Order
      <4> QED
        BY <2>3, <4>2
    <3>3. Range(Q2[side][i]) = {} /\ Injective(Q2[side][i])
      BY <3>1 DEF Range, Injective
    <3> QED
      BY <3>2, <3>3
  <2> QED
    BY <2>2, <2>3
<1> QED
  BY <1>3, <1>5, <1>6 DEF Partition

LEMMA SlideKeepsMap ==
  ASSUME NEW P \in Pools, NEW M \in Maps, Exact(P, M), NEW D \in SUBSET Slots,
         \A s \in D : P[s] # NULL,
         NEW P2, \A s \in Slots : P[s] = NULL \/ s \in D => P2[s] = NULL,
         \A s \in Slots : P[s] # NULL /\ s \notin D =>
           P2[s] # NULL /\ P2[s].id = P[s].id,
         NEW M2, M2 = [id \in Ids |-> IF id \in {P[s].id : s \in D} THEN NULL
                                     ELSE M[id]]
  PROVE  M2 \in Maps /\ Exact(P2, M2)
<1>1. M2 \in Maps
  BY DEF Maps
<1>2. ASSUME NEW id \in Ids, M2[id] # NULL
      PROVE  P2[M2[id]] # NULL /\ P2[M2[id]].id = id
  <2>1. M2[id] = M[id] /\ M[id] \in Slots /\ id \notin {P[s].id : s \in D}
    BY <1>2 DEF Maps
  <2>2. P[M[id]] # NULL /\ P[M[id]].id = id
    BY <1>2, <2>1 DEF Exact
  <2> QED
    BY <2>1, <2>2
<1>3. ASSUME NEW s \in Slots, P2[s] # NULL PROVE M2[P2[s].id] = s
  <2>1. P[s] # NULL /\ s \notin D /\ P2[s].id = P[s].id
    BY <1>3
  <2>2. P[s].id \in Ids /\ M[P[s].id] = s
    BY <2>1 DEF Pools, Order, Exact
  <2>3. \A t \in D : P[t].id # P[s].id
    BY <2>1, <2>2 DEF Exact
  <2> QED
    BY <2>1, <2>2, <2>3
<1> QED
  BY <1>1, <1>2, <1>3 DEF Exact

LEMMA CountDownType ==
  ASSUME live_order_count \in Nat, NEW n \in Nat
  PROVE  CountDown(n) \in Nat
<1>1. PICK c \in Nat : c = live_order_count
  OBVIOUS
<1>2. c > n => c - n \in Nat
  OBVIOUS
<1> QED
  BY <1>1, <1>2 DEF CountDown

(* The orders a slide to new_base drops.                                   *)
Dropped(new_base) ==
  UNION {Range(queue[side][i]) : side \in Side,
           i \in {j \in Idx : j + (base - new_base) \notin Idx}}

LEMMA DroppedFallOutside ==
  ASSUME TypeOK, Shelves, NEW new_base \in Nat
  PROVE  Dropped(new_base) = {s \in Slots : /\ pool[s] # NULL
                                            /\ pool[s].price + (base - new_base) \notin Idx}
<1> DEFINE d == base - new_base
           D == Dropped(new_base)
<1>1. pool \in Pools
  BY DEF TypeOK, Pools
<1>2. D = UNION {Range(queue[side][i]) : side \in Side,
                   i \in {j \in Idx : j + d \notin Idx}}
  BY DEF Dropped
<1> HIDE DEF d, D
<1>3. ASSUME NEW s \in D
      PROVE  s \in Slots /\ pool[s] # NULL /\ pool[s].price + d \notin Idx
  <2>1. PICK side \in Side, i \in Idx : i + d \notin Idx /\ s \in Range(queue[side][i])
    BY <1>2
  <2> QED
    BY <2>1 DEF Shelves, Partition
<1>4. ASSUME NEW s \in Slots, pool[s] # NULL, pool[s].price + d \notin Idx
      PROVE  s \in D
  <2>1. pool[s].side \in Side /\ pool[s].price \in Idx
    BY <1>1, <1>4 DEF Pools, Order
  <2>2. s \in Range(queue[pool[s].side][pool[s].price])
    BY <1>4, <2>1 DEF Shelves, Partition
  <2> QED
    BY <1>2, <1>4, <2>1, <2>2
<1>5. D = {s \in Slots : pool[s] # NULL /\ pool[s].price + d \notin Idx}
  BY <1>3, <1>4
<1> QED
  BY <1>5 DEF D, d

LEMMA RebaseKeepsShelves ==
  ASSUME TypeOK, Shelves, NEW new_base \in Nat, rebase_base(new_base)
  PROVE  /\ pool' \in Pools /\ id_map' \in Maps /\ queue' \in Queues
         /\ level_price' \in [Side -> [Idx -> Nat]]
         /\ bitmap' \in [Side -> SUBSET Idx]
         /\ best' \in [Side -> Idx \union {NoLevel}]
         /\ live_order_count' \in Nat /\ base' = new_base
         /\ Shelves' /\ BestIsLive'
         /\ \A id \in Ids : id_map[id] = NULL => id_map'[id] = NULL
<1> DEFINE d == base - new_base
           dropped == UNION {Range(queue[side][i]) : side \in Side,
                               i \in {j \in Idx : j + d \notin Idx}}
           gone == {pool[s].id : s \in dropped}
           Q2 == [side \in Side |-> [i \in Idx |->
                    IF i - d \in Idx THEN queue[side][i - d] ELSE <<>>]]
           P2 == [s \in Slots |->
                    IF pool[s] = NULL \/ pool[s].price + d \notin Idx THEN NULL
                    ELSE Relabelled(pool[s], d)]
           M2 == [id \in Ids |-> IF id \in gone THEN NULL ELSE id_map[id]]
<1>1. /\ pool \in Pools /\ id_map \in Maps /\ queue \in Queues
      /\ best \in [Side -> Idx \union {NoLevel}]
  BY DEF TypeOK, Pools, Maps, Queues
<1>2. PICK b \in Nat : b = base
  BY DEF TypeOK
<1>3. d \in Int /\ d = b - new_base
  BY <1>2
<1>4. /\ queue' = Q2
      /\ pool' = [s \in Slots |-> IF pool[s] = NULL \/ s \in dropped THEN NULL
                                  ELSE Relabelled(pool[s], d)]
      /\ id_map' = M2
      /\ live_order_count' = CountDown(Cardinality(dropped))
      /\ level_price' = [side \in Side |-> [i \in Idx |->
                           IF queue'[side][i] = <<>> THEN 0 ELSE base + (i - d)]]
      /\ bitmap' = [side \in Side |-> {i \in Idx : queue'[side][i] # <<>>}]
      /\ base' = new_base
      /\ best' = [side \in Side |-> update_best(side, bitmap'[side], best[side])]
  BY DEF rebase_base
<1> HIDE DEF d
<1>5. dropped = {s \in Slots : pool[s] # NULL /\ pool[s].price + d \notin Idx}
  BY DroppedFallOutside DEF Dropped, d
<1> HIDE DEF dropped
<1>6. pool' = P2
  BY <1>5, <1>4
<1>7. pool' \in Pools /\ queue' \in Queues /\ Partition(pool', queue')
  <2>1. Partition(pool, queue)
    BY DEF Shelves
  <2>2. P2 \in Pools /\ Q2 \in Queues /\ Partition(P2, Q2)
    BY <1>1, <1>3, <2>1, SlideKeepsPartition
  <2> QED
    BY <1>4, <1>6, <2>2
<1>8. id_map' \in Maps /\ Exact(pool', id_map')
  <2>1. dropped \in SUBSET Slots /\ \A s \in dropped : pool[s] # NULL
    BY <1>5
  <2>2. \A s \in Slots : pool[s] = NULL \/ s \in dropped => pool'[s] = NULL
    BY <1>4
  <2>3. ASSUME NEW s \in Slots, pool[s] # NULL, s \notin dropped
        PROVE  pool'[s] # NULL /\ pool'[s].id = pool[s].id
    <3>1. pool'[s] = Relabelled(pool[s], d) /\ pool[s] \in Order
      BY <1>1, <1>4, <2>3 DEF Pools
    <3>2. pool[s].price + d \in Idx
      BY <1>5, <2>3
    <3>3. Relabelled(pool[s], d) \in Order /\ Relabelled(pool[s], d).id = pool[s].id
      BY <3>1, <3>2 DEF Relabelled, Order
    <3> QED
      BY <3>1, <3>3, NullAssumption
  <2>4. Exact(pool, id_map)
    BY DEF Shelves
  <2>5. M2 \in Maps /\ Exact(pool', M2)
    BY <1>1, <2>1, <2>2, <2>3, <2>4, SlideKeepsMap
  <2> QED
    BY <1>4, <2>5
<1>9. \A id \in Ids : id_map[id] = NULL => id_map'[id] = NULL
  BY <1>4
<1>10. live_order_count' \in Nat
  <2>1. IsFiniteSet(dropped)
    BY <1>5, BookAssumption, FS_Subset
  <2>2. Cardinality(dropped) \in Nat
    BY <2>1, FS_CardinalityType
  <2> QED
    BY <1>4, <2>2, CountDownType DEF TypeOK
<1>11. \A i \in Idx : b + (i - d) = new_base + i /\ new_base + i \in Nat
  BY <1>3, BookAssumption DEF Idx
<1>12. level_price' = [side \in Side |-> [i \in Idx |->
                        IF queue'[side][i] = <<>> THEN 0 ELSE new_base + i]]
  BY <1>2, <1>4, <1>11
<1>13. level_price' \in [Side -> [Idx -> Nat]] /\ LevelPriceExact'
  BY <1>4, <1>11, <1>12 DEF LevelPriceExact
<1>14. bitmap' \in [Side -> SUBSET Idx] /\ BitmapExact'
  BY <1>4 DEF BitmapExact
<1>15. \A side \in Side : best'[side] \in bitmap'[side] \union {NoLevel}
  BY <1>1, <1>4, <1>14, UpdateBestType
<1>16. best' \in [Side -> Idx \union {NoLevel}]
  BY <1>4, <1>14, <1>15
<1>17. BestIsLive'
  BY <1>4, <1>15 DEF BestIsLive
<1> QED
  BY <1>4, <1>7, <1>8, <1>9, <1>10, <1>13, <1>14, <1>16, <1>17 DEF Shelves

-----------------------------------------------------------------------------
(* Prices and indices.                                                     *)

LEMMA CentredInWindow ==
  ASSUME NEW price \in Nat
  PROVE  /\ Centred(price) \in Nat
         /\ price - Centred(price) \in Idx
<1>1. Band \in Nat \ {0} /\ Band \div 2 \in Nat /\ Band \div 2 <= Band - 1
  BY BookAssumption
<1>2. CASE price < Band \div 2
  BY <1>1, <1>2 DEF Centred, Idx
<1>3. CASE price >= Band \div 2
  <2>1. Centred(price) = price - Band \div 2
    BY <1>1, <1>3 DEF Centred
  <2>2. price - (price - Band \div 2) = Band \div 2 /\ price - Band \div 2 \in Nat
    BY <1>1, <1>3
  <2> QED
    BY <1>1, <2>1, <2>2 DEF Idx
<1> QED
  BY <1>1, <1>2, <1>3

LEMMA LimitTakerType ==
  ASSUME NEW id \in Ids, NEW side \in Side, NEW price \in Prices,
         NEW limit \in Idx, NEW qty \in Nat
  PROVE  Taker(id, side, price, limit, qty) \in Takers \union {NULL}
BY DEF Taker, Takers

LEMMA MarketTakerType ==
  ASSUME NEW side \in Side, NEW limit \in Idx, NEW qty \in Nat
  PROVE  Taker(NULL, side, NULL, limit, qty) \in Takers \union {NULL}
BY DEF Taker, Takers

-----------------------------------------------------------------------------
(* One lemma per kind of step.                                             *)

(* A resting order is removed or reduced: a fill, a cancel, a reduction.   *)
LEMMA ShrinkKeepsInvariant ==
  ASSUME IInv, NEW s \in Slots, pool[s] # NULL,
         \/ RemoveOrder(s)
         \/ \E qty \in Nat : qty < pool[s].qty /\ ReduceOrder(s, qty),
         \/ RefreshTop(pool[s].side, pool[s].price)
         \/ UNCHANGED tob /\ queue'[pool[s].side][pool[s].price] # <<>>,
         UNCHANGED window,
         live_order_count' \in Nat,
         trade' \in Trades \union {NULL},
         taker' \in Takers \union {NULL},
         taker' # NULL => /\ taker # NULL
                          /\ taker'.id = taker.id /\ taker'.price = taker.price
                          /\ taker'.limit = taker.limit
  PROVE  IInv'
<1> DEFINE side == pool[s].side
           i == pool[s].price
<1>1. TypeOK /\ Shelves /\ BestIsLive /\ TakerInWindow /\ AnchoredFirst
  BY DEF IInv
<1>2. base' = base /\ base_set' = base_set
  BY DEF window
<1>3. side \in Side /\ i \in Idx
  BY <1>1 DEF TypeOK, Order
<1>4. base_set
  <2>1. queue[side][i] # <<>>
    BY <1>1, <1>3, OccupiedRange DEF Shelves, Partition
  <2> QED
    BY <1>1, <1>3, <2>1 DEF AnchoredFirst
<1> DEFINE Kept ==
      /\ pool' \in Pools /\ id_map' \in Maps /\ queue' \in Queues
      /\ level_price' \in [Side -> [Idx -> Nat]]
      /\ bitmap' \in [Side -> SUBSET Idx]
      /\ Shelves'
      /\ \A sd \in Side, j \in Idx :
           sd # side \/ j # i => queue'[sd][j] = queue[sd][j]
<1>5. Kept
  <2>1. CASE RemoveOrder(s)
    BY <1>1, <1>2, <2>1, RemoveOrderKeepsShelves
  <2>2. ASSUME NEW qty \in Nat, qty < pool[s].qty, ReduceOrder(s, qty)
        PROVE  Kept
    BY <1>1, <1>2, <2>2, ReduceOrderKeepsShelves
  <2> QED
    BY <2>1, <2>2
<1>6. best' \in [Side -> Idx \union {NoLevel}] /\ BestIsLive'
  <2>1. CASE RefreshTop(side, i)
    BY <1>1, <1>3, <1>5, <2>1, RefreshTopKeepsBest DEF Shelves
  <2>2. CASE UNCHANGED tob /\ queue'[side][i] # <<>>
    <3>1. best' = best
      BY <2>2 DEF tob
    <3>2. best \in [Side -> Idx \union {NoLevel}]
      BY <1>1 DEF TypeOK
    <3> QED
      BY <1>1, <1>5, <2>2, <3>1, <3>2 DEF BestIsLive
  <2> QED
    BY <2>1, <2>2
<1>7. \A id \in Ids : id_map[id] = NULL => id_map'[id] = NULL
  <2>1. CASE RemoveOrder(s)
    BY <1>1, <2>1 DEF RemoveOrder, TypeOK
  <2>2. CASE id_map' = id_map
    BY <2>2
  <2> QED
    BY <2>1, <2>2 DEF ReduceOrder
<1>8. TakerInWindow'
  <2> SUFFICES ASSUME taker' # NULL, taker'.price # NULL
               PROVE  /\ base_set' /\ taker'.price = base' + taker'.limit
                      /\ id_map'[taker'.id] = NULL
    BY DEF TakerInWindow
  <2>1. taker'.id \in Ids
    BY DEF Takers
  <2>2. /\ base_set /\ taker.price = base + taker.limit
        /\ id_map[taker.id] = NULL
    BY <1>1 DEF TakerInWindow
  <2> QED
    BY <1>2, <1>7, <2>1, <2>2
<1>9. TypeOK'
  BY <1>1, <1>2, <1>5, <1>6 DEF TypeOK, Pools, Maps, Queues
<1>10. AnchoredFirst'
  BY <1>2, <1>4 DEF AnchoredFirst
<1> QED
  BY <1>5, <1>6, <1>8, <1>9, <1>10 DEF IInv

LEMMA KnownIdRests ==
  ASSUME IInv, NEW id \in Ids, id_map[id] # NULL
  PROVE  /\ id_map[id] \in Slots /\ pool[id_map[id]] # NULL
         /\ pool[id_map[id]] \in Order
BY DEF IInv, TypeOK, Shelves, Exact

LEMMA MinOfTwo ==
  ASSUME NEW a \in Nat, NEW b \in Nat
  PROVE  Min({a, b}) = IF a <= b THEN a ELSE b
<1>1. {a, b} \in SUBSET Nat /\ {a, b} # {}
  OBVIOUS
<1>2. Min({a, b}) \in {a, b} /\ Min({a, b}) <= a /\ Min({a, b}) <= b
  BY <1>1, MinOfNaturals
<1> QED
  BY <1>2

LEMMA CancelKeepsInvariant ==
  ASSUME IInv, NEW id \in Ids, cancel_order(id)
  PROVE  IInv'
<1>1. id_map[id] \in Slots /\ pool[id_map[id]] # NULL
  BY KnownIdRests DEF cancel_order
<1>2. /\ RemoveOrder(id_map[id])
      /\ RefreshTop(pool[id_map[id]].side, pool[id_map[id]].price)
      /\ UNCHANGED window /\ live_order_count' = live_order_count
      /\ trade' = NULL /\ taker' = NULL
  BY DEF cancel_order
<1>3. live_order_count' \in Nat
  BY <1>2 DEF IInv, TypeOK
<1> QED
  BY <1>1, <1>2, <1>3, ShrinkKeepsInvariant

LEMMA ReduceKeepsInvariant ==
  ASSUME IInv, NEW id \in Ids, NEW qty \in Nat, reduce_order_qty(id, qty)
  PROVE  IInv'
<1> DEFINE s == id_map[id]
<1>1. s \in Slots /\ pool[s] # NULL /\ pool[s] \in Order
  BY KnownIdRests DEF reduce_order_qty
<1>2. /\ IF qty >= pool[s].qty THEN RemoveOrder(s) ELSE ReduceOrder(s, qty)
      /\ RefreshTop(pool[s].side, pool[s].price)
      /\ UNCHANGED window /\ live_order_count' = live_order_count
      /\ trade' = NULL /\ taker' = NULL
  BY DEF reduce_order_qty
<1>3. live_order_count' \in Nat
  BY <1>2 DEF IInv, TypeOK
<1>4. qty >= pool[s].qty \/ qty < pool[s].qty
  BY <1>1 DEF Order
<1> HIDE DEF s
<1> QED
  BY <1>1, <1>2, <1>3, <1>4, ShrinkKeepsInvariant

LEMMA ExecuteKeepsInvariant ==
  ASSUME IInv, NEW id \in Ids, NEW qty \in Nat, execute_order(id, qty)
  PROVE  IInv'
<1> DEFINE s == id_map[id]
           o == pool[s]
<1>1. s \in Slots /\ o # NULL /\ o \in Order
  BY KnownIdRests DEF execute_order
<1>2. /\ IF qty >= o.qty THEN RemoveOrder(s) /\ live_order_count' = CountDown(1)
         ELSE ReduceOrder(s, qty) /\ UNCHANGED live_order_count
      /\ RefreshTop(o.side, o.price)
      /\ trade' = [maker |-> o.id, taker |-> NULL,
                   price |-> level_price[o.side][o.price],
                   qty |-> Min({qty, o.qty})]
      /\ UNCHANGED window /\ taker' = NULL
  BY DEF execute_order
<1> HIDE DEF s
<1>3. live_order_count' \in Nat
  BY <1>2, CountDownType DEF IInv, TypeOK
<1>4. qty >= o.qty \/ qty < o.qty
  BY <1>1 DEF Order
<1>5. trade' \in Trades
  <2>1. o.id \in Ids /\ o.side \in Side /\ o.price \in Idx /\ o.qty \in Nat
    BY <1>1 DEF Order
  <2>2. level_price[o.side][o.price] \in Nat
    BY <2>1 DEF IInv, TypeOK
  <2>3. Min({qty, o.qty}) \in Nat
    BY <2>1, MinOfTwo
  <2> QED
    BY <1>2, <2>1, <2>2, <2>3 DEF Trades
<1> QED
  BY <1>1, <1>2, <1>3, <1>4, <1>5, ShrinkKeepsInvariant

(* The matching loops read the head of the best level.                     *)
LEMMA HeadOfBestRests ==
  ASSUME IInv, NEW maker \in Side, best[maker] # NoLevel,
         NEW s, s = Head(queue[maker][best[maker]])
  PROVE  /\ best[maker] \in Idx /\ s \in Slots
         /\ pool[s] # NULL /\ pool[s] \in Order
         /\ pool[s].side = maker /\ pool[s].price = best[maker]
<1> DEFINE i == best[maker]
<1>1. i \in Idx /\ queue[maker][i] \in Seq(Slots) /\ queue[maker][i] # <<>>
  BY DEF IInv, TypeOK, BestIsLive
<1>2. s \in Range(queue[maker][i])
  <2>1. s = queue[maker][i][1] /\ Len(queue[maker][i]) \in Nat \ {0}
    BY <1>1, HeadTailProperties, LenProperties, EmptySeq
  <2>2. 1 \in DOMAIN queue[maker][i]
    BY <1>1, <2>1, LenProperties
  <2> QED
    BY <2>1, <2>2 DEF Range
<1> QED
  BY <1>1, <1>2 DEF IInv, TypeOK, Shelves, Partition

(* A fill: the head of the best opposite level is removed or reduced.      *)
LEMMA MatchKeepsInvariant ==
  ASSUME IInv, taker # NULL, NEW maker \in Side, best[maker] # NoLevel,
         Match(maker)
  PROVE  IInv'
<1> DEFINE i   == best[maker]
           s   == Head(queue[maker][i])
           o   == pool[s]
           qty == Min({taker.left, o.qty})
           left == taker.left - qty
<1>1. i \in Idx /\ s \in Slots
  BY HeadOfBestRests
<1>2. o # NULL /\ o \in Order /\ o.side = maker /\ o.price = i
  BY HeadOfBestRests
<1>3. /\ IF qty = o.qty THEN RemoveOrder(s) /\ live_order_count' = CountDown(1)
         ELSE ReduceOrder(s, qty) /\ UNCHANGED live_order_count
      /\ trade' = [maker |-> o.id, taker |-> taker.id,
                   price |-> level_price[maker][i], qty |-> qty]
      /\ taker' = IF left = 0 THEN NULL ELSE [taker EXCEPT !.left = left]
      /\ IF left = 0 \/ queue'[maker][i] = <<>>
         THEN RefreshTop(maker, i) ELSE UNCHANGED tob
      /\ UNCHANGED window
  BY DEF Match
<1>4. /\ taker \in Takers /\ taker.left \in Nat \ {0}
      /\ taker.id \in Ids \union {NULL}
  BY DEF IInv, TypeOK, Takers
<1>5. o.qty \in Nat \ {0} /\ o.id \in Ids
  BY <1>2 DEF Order
<1> HIDE DEF i, s, o
<1>6. qty \in Nat /\ qty <= o.qty /\ qty <= taker.left
  <2>1. taker.left \in Nat /\ o.qty \in Nat
    BY <1>4, <1>5
  <2> QED
    BY <2>1, MinOfTwo
<1> HIDE DEF qty
<1>7. left \in Nat
  BY <1>4, <1>6
<1>8. qty = o.qty \/ qty < o.qty
  BY <1>5, <1>6
<1> HIDE DEF left
<1>9. live_order_count' \in Nat
  BY <1>3, CountDownType DEF IInv, TypeOK
<1>10. trade' \in Trades
  <2>1. level_price[maker][i] \in Nat
    BY <1>1 DEF IInv, TypeOK
  <2> QED
    BY <1>3, <1>4, <1>5, <1>6, <2>1 DEF Trades
<1>11. /\ taker' \in Takers \union {NULL}
       /\ taker' # NULL => /\ taker'.id = taker.id /\ taker'.price = taker.price
                           /\ taker'.limit = taker.limit
  BY <1>3, <1>4, <1>7 DEF Takers
<1> QED
  BY <1>1, <1>2, <1>3, <1>6, <1>8, <1>9, <1>10, <1>11, ShrinkKeepsInvariant DEF o

(* The window is anchored if it was not, and nothing else changes.         *)
LEMMA AnchorKeepsShelves ==
  ASSUME IInv, NEW price \in Nat, base' = AnchoredBase(price), base_set' = TRUE,
         UNCHANGED <<live_order_count, pool, id_map, levels, tob>>
  PROVE  /\ base' \in Nat /\ Shelves' /\ BestIsLive' /\ AnchoredFirst'
         /\ UNCHANGED <<live_order_count, pool, id_map, queue, level_price,
                        bitmap, best>>
<1>1. UNCHANGED <<live_order_count, pool, id_map, queue, level_price, bitmap, best>>
  BY DEF levels, tob
<1>2. base' \in Nat
  BY CentredInWindow DEF AnchoredBase, IInv, TypeOK
<1>3. LevelPriceExact'
  <2>1. CASE base_set
    BY <1>1, <2>1 DEF AnchoredBase, LevelPriceExact, IInv, Shelves
  <2>2. CASE ~ base_set
    BY <1>1, <2>2 DEF AnchoredFirst, LevelPriceExact, IInv
  <2> QED
    BY <2>1, <2>2
<1>4. Shelves'
  BY <1>1, <1>3 DEF IInv, Shelves, BitmapExact
<1> QED
  BY <1>1, <1>2, <1>4 DEF IInv, BestIsLive, AnchoredFirst

(* The taker an accepted price sets off with.                              *)
LEMMA AcceptedTaker ==
  ASSUME NEW id \in Ids, NEW side \in Side, NEW price \in Prices,
         NEW qty \in Nat, NEW b \in Nat, price - b \in Idx,
         base' = b, base_set' = TRUE, id_map'[id] = NULL,
         taker' = Taker(id, side, price, price - b, qty)
  PROVE  taker' \in Takers \union {NULL} /\ TakerInWindow'
<1>1. price \in Nat
  BY BookAssumption
<1>2. \A x, y \in Nat : y + (x - y) = x
  OBVIOUS
<1> DEFINE limit == price - b
<1>3. limit \in Idx
  OBVIOUS
<1> HIDE DEF limit
<1>4. taker' \in Takers \union {NULL}
  <2>1. Taker(id, side, price, limit, qty) \in Takers \union {NULL}
    BY <1>3, LimitTakerType
  <2>2. taker' = Taker(id, side, price, limit, qty)
    BY DEF limit
  <2> QED
    BY <2>1, <2>2
<1>5. taker' # NULL => taker'.id = id /\ taker'.price = price /\ taker'.limit = price - b
  BY DEF Taker
<1>6. price = b + (price - b)
  BY <1>1, <1>2
<1> QED
  BY <1>4, <1>5, <1>6 DEF TakerInWindow

LEMMA InsertKeepsInvariant ==
  ASSUME IInv, NEW id \in Ids, NEW side \in Side, NEW price \in Prices,
         NEW qty \in Quantities, id_map[id] = NULL,
         insert_limit_order(id, side, price, qty)
  PROVE  IInv'
<1>1. price \in Nat /\ qty \in Nat
  BY BookAssumption
<1>2. base_set' = TRUE /\ trade' = NULL /\ taker = NULL
  BY DEF insert_limit_order
<1>3. CASE AcceptInBand(id, side, price, qty)
  <2>1. /\ base' = AnchoredBase(price) /\ price - AnchoredBase(price) \in Idx
        /\ taker' = Taker(id, side, price, price - AnchoredBase(price), qty)
        /\ UNCHANGED <<live_order_count, pool, id_map, levels, tob>>
    BY <1>3 DEF AcceptInBand
  <2>2. /\ base' \in Nat /\ Shelves' /\ BestIsLive' /\ AnchoredFirst'
        /\ UNCHANGED <<live_order_count, pool, id_map, queue, level_price,
                       bitmap, best>>
    BY <1>1, <1>2, <2>1, AnchorKeepsShelves
  <2>3. taker' \in Takers \union {NULL} /\ TakerInWindow'
    BY <1>1, <1>2, <2>1, <2>2, AcceptedTaker
  <2> QED
    BY <1>2, <2>2, <2>3 DEF IInv, TypeOK
<1>4. CASE AcceptAfterRebase(id, side, price, qty)
  <2>1. /\ rebase_base(Centred(price))
        /\ taker' = Taker(id, side, price, price - Centred(price), qty)
    BY <1>4 DEF AcceptAfterRebase
  <2>2. Centred(price) \in Nat /\ price - Centred(price) \in Idx
    BY <1>1, CentredInWindow
  <2>3. /\ pool' \in Pools /\ id_map' \in Maps /\ queue' \in Queues
        /\ level_price' \in [Side -> [Idx -> Nat]]
        /\ bitmap' \in [Side -> SUBSET Idx]
        /\ best' \in [Side -> Idx \union {NoLevel}]
        /\ live_order_count' \in Nat /\ base' = Centred(price)
        /\ Shelves' /\ BestIsLive'
        /\ id_map'[id] = NULL
    BY <2>1, <2>2, RebaseKeepsShelves DEF IInv
  <2>4. taker' \in Takers \union {NULL} /\ TakerInWindow'
    BY <1>1, <1>2, <2>1, <2>2, <2>3, AcceptedTaker
  <2>5. TypeOK'
    BY <1>2, <2>2, <2>3, <2>4 DEF TypeOK, Pools, Maps, Queues
  <2> QED
    BY <1>2, <2>3, <2>4, <2>5 DEF IInv, AnchoredFirst
<1>5. CASE RejectOutOfBand(price)
  <2>1. /\ UNCHANGED <<base, live_order_count, pool, id_map, levels, tob>>
        /\ price - AnchoredBase(price) \notin Idx /\ taker' = NULL
    BY <1>2, <1>5 DEF RejectOutOfBand, Rejects
  <2>2. base_set /\ AnchoredBase(price) = base
    BY <1>1, <2>1, CentredInWindow DEF AnchoredBase
  <2>3. /\ base' \in Nat /\ Shelves' /\ BestIsLive' /\ AnchoredFirst'
        /\ UNCHANGED <<live_order_count, pool, id_map, queue, level_price,
                       bitmap, best>>
    BY <1>1, <1>2, <2>1, <2>2, AnchorKeepsShelves
  <2> QED
    BY <1>2, <2>1, <2>3 DEF IInv, TypeOK, TakerInWindow
<1> QED
  BY <1>3, <1>4, <1>5 DEF insert_limit_order

LEMMA MarketKeepsInvariant ==
  ASSUME IInv, NEW side \in Side, NEW qty \in Nat, process_market_order(side, qty)
  PROVE  IInv'
<1> DEFINE limit == IF side = "BUY" THEN Band - 1 ELSE 0
<1>1. limit \in Idx
  BY BookAssumption DEF Idx
<1> HIDE DEF limit
<1>2. /\ taker' = Taker(NULL, side, NULL, limit, qty) /\ trade' = NULL
      /\ UNCHANGED <<window, live_order_count, pool, id_map, levels, tob>>
  BY DEF process_market_order, limit
<1>3. taker' \in Takers \union {NULL}
  BY <1>1, <1>2, MarketTakerType
<1>4. taker' # NULL => taker'.price = NULL
  BY <1>2 DEF Taker
<1>5. UNCHANGED <<base, base_set, live_order_count, pool, id_map, queue,
                  level_price, bitmap, best>>
  BY <1>2 DEF window, levels, tob
<1> QED
  BY <1>2, <1>3, <1>4, <1>5
     DEF IInv, TypeOK, Shelves, BitmapExact, LevelPriceExact, BestIsLive,
         TakerInWindow, AnchoredFirst

LEMMA DiscardKeepsInvariant ==
  ASSUME IInv, DiscardRemainder
  PROVE  IInv'
<1>1. /\ taker' = NULL /\ trade' = NULL
      /\ UNCHANGED <<base, base_set, live_order_count, pool, id_map, queue,
                     level_price, bitmap, best>>
  BY DEF DiscardRemainder, window, levels, tob
<1> QED
  BY <1>1 DEF IInv, TypeOK, Shelves, BitmapExact, LevelPriceExact, BestIsLive,
              TakerInWindow, AnchoredFirst

LEMMA CrossedBestExists ==
  ASSUME IInv, taker # NULL, Crosses(taker)
  PROVE  best[Opposite(taker.side)] # NoLevel
<1>1. PICK t \in Takers : t = taker
  BY DEF IInv, TypeOK
<1>2. t.side \in Side /\ t.limit \in Int /\ t.limit < Band
  BY <1>1, BookAssumption DEF Takers, Idx
<1>3. CASE t.side = "BUY"
  BY <1>1, <1>2, <1>3, BookAssumption DEF Crosses, Opposite, NoLevel
<1>4. CASE t.side = "SELL"
  BY <1>1, <1>4 DEF Crosses, Opposite
<1> QED
  BY <1>1, <1>2, <1>3, <1>4 DEF Side

-----------------------------------------------------------------------------
(* The invariant is inductive.                                             *)

LEMMA InitEstablishesInvariant == Init => IInv
<1> SUFFICES ASSUME Init PROVE IInv
  OBVIOUS
<1>1. TypeOK
  BY EmptySeq DEF Init, TypeOK
<1>2. Partition(pool, queue)
  BY DEF Init, Partition, Injective, Range
<1>3. Exact(pool, id_map) /\ BitmapExact /\ LevelPriceExact
  BY DEF Init, Exact, BitmapExact, LevelPriceExact
<1>4. BestIsLive /\ TakerInWindow /\ AnchoredFirst
  BY DEF Init, BestIsLive, TakerInWindow, AnchoredFirst
<1> QED
  BY <1>1, <1>2, <1>3, <1>4 DEF IInv, Shelves

LEMMA StepKeepsInvariant == IInv /\ [Next]_vars => IInv'
<1> SUFFICES ASSUME IInv, [Next]_vars PROVE IInv'
  OBVIOUS
<1>1. ASSUME NEW id \in Ids, NEW side \in Side, NEW price \in Prices,
             NEW qty \in Quantities, id_map[id] = NULL,
             insert_limit_order(id, side, price, qty)
      PROVE  IInv'
  BY <1>1, InsertKeepsInvariant
<1>2. ASSUME NEW side \in Side, NEW qty \in Quantities,
             process_market_order(side, qty)
      PROVE  IInv'
  BY <1>2, MarketKeepsInvariant, BookAssumption
<1>3. ASSUME NEW id \in Ids, cancel_order(id) PROVE IInv'
  BY <1>3, CancelKeepsInvariant
<1>4. ASSUME NEW id \in Ids, NEW qty \in Quantities, execute_order(id, qty)
      PROVE  IInv'
  BY <1>4, ExecuteKeepsInvariant, BookAssumption
<1>5. ASSUME NEW id \in Ids, NEW qty \in Quantities, reduce_order_qty(id, qty)
      PROVE  IInv'
  BY <1>5, ReduceKeepsInvariant, BookAssumption
<1>6. CASE match_against_asks
  BY <1>6, CrossedBestExists, MatchKeepsInvariant
     DEF match_against_asks, Opposite, Side
<1>7. CASE match_against_bids
  BY <1>7, CrossedBestExists, MatchKeepsInvariant
     DEF match_against_bids, Opposite, Side
<1>8. CASE RestRemainder
  BY <1>8, RestRemainderKeepsInvariant
<1>9. CASE DiscardRemainder
  BY <1>9, DiscardKeepsInvariant
<1>10. CASE UNCHANGED vars
  <2>1. UNCHANGED <<base, base_set, live_order_count, pool, id_map, queue,
                    level_price, bitmap, best, taker, trade>>
    BY <1>10 DEF vars, window, levels, tob
  <2> QED
    BY <2>1 DEF IInv, TypeOK, Shelves, BitmapExact, LevelPriceExact, BestIsLive,
                TakerInWindow, AnchoredFirst
<1> QED
  BY <1>1, <1>2, <1>3, <1>4, <1>5, <1>6, <1>7, <1>8, <1>9, <1>10
     DEF Next, Call, Continue

LEMMA InvariantHolds == Spec => []IInv
BY InitEstablishesInvariant, StepKeepsInvariant, PTL DEF Spec

-----------------------------------------------------------------------------
(* What follows from it.                                                   *)

(* Every variable keeps its type: indices inside the window, quantities of *)
(* resting orders above zero, slots and ids of the pool and the map.       *)
THEOREM TypeCorrect == Spec => []TypeOK
<1>1. IInv => TypeOK
  BY DEF IInv
<1> QED
  BY <1>1, InvariantHolds, PTL

(* level_append, level_remove and rebase_base keep lists, pool and stored  *)
(* prices in agreement: every resting order is linked exactly once, in the *)
(* list of its own side and index.                                         *)
THEOREM QueuesStayPartition == Spec => []QueuesPartitionPool
<1>1. IInv => QueuesPartitionPool
  <2> SUFFICES ASSUME IInv PROVE QueuesPartitionPool
    OBVIOUS
  <2>1. QueuesHoldLiveOrders
    <3>1. ASSUME NEW side \in Side, NEW i \in Idx, NEW k \in DOMAIN queue[side][i]
          PROVE  queue[side][i][k] \in Range(queue[side][i])
      BY DEF Range
    <3> QED
      BY <3>1 DEF QueuesHoldLiveOrders, Live, IInv, Shelves, Partition
  <2>2. LiveOrdersAreQueued
    <3> SUFFICES ASSUME NEW s \in Slots, pool[s] # NULL
                 PROVE  s \in Range(queue[pool[s].side][pool[s].price])
      BY DEF LiveOrdersAreQueued, Live
    <3>1. pool[s].side \in Side /\ pool[s].price \in Idx
      BY DEF IInv, TypeOK, Order
    <3> QED
      BY <3>1 DEF IInv, Shelves, Partition
  <2>3. QueuedOnce
    BY DEF IInv, Shelves, Partition, Injective, QueuedOnce
  <2> QED
    BY <2>1, <2>2, <2>3 DEF QueuesPartitionPool
<1> QED
  BY <1>1, InvariantHolds, PTL

(* Every path that frees a slot erases its id, so an id the map knows is   *)
(* the id of the order in the slot it leads to, and every resting order is *)
(* found.                                                                  *)
THEOREM IdMapStaysExact == Spec => []IdMapExact
<1>1. IInv => IdMapExact
  BY DEF IInv, TypeOK, Shelves, Exact, IdMapExact, Live
<1> QED
  BY <1>1, InvariantHolds, PTL

(* The bitmap has a bit for exactly the occupied levels, so the scans of   *)
(* update_best_bid and update_best_ask never stop at an empty level.       *)
THEOREM BitmapStaysExact == Spec => []BitmapExact
<1>1. IInv => BitmapExact
  BY DEF IInv, Shelves
<1> QED
  BY <1>1, InvariantHolds, PTL

(* The cached best price names an occupied level: the head the matching    *)
(* loops read exists.                                                      *)
THEOREM BestStaysLive == Spec => []BestIsLive
<1>1. IInv => BestIsLive
  BY DEF IInv
<1> QED
  BY <1>1, InvariantHolds, PTL

(* The index an accepted price was converted to stays its index for the    *)
(* whole call, whatever the window did when the call came in.              *)
THEOREM TakerStaysInWindow == Spec => []TakerInWindow
<1>1. IInv => TakerInWindow
  BY DEF IInv
<1> QED
  BY <1>1, InvariantHolds, PTL

(* A level reports the price its index stands for, after any slide.        *)
THEOREM LevelPricesStayExact == Spec => []LevelPriceExact
<1>1. IInv => LevelPriceExact
  BY DEF IInv, Shelves
<1> QED
  BY <1>1, InvariantHolds, PTL

-----------------------------------------------------------------------------
(* What a step does to the orders that rest: every step is one of five     *)
(* effects on pool, lists and live_order_count, and from these follow the  *)
(* action properties, the bound on the live count and, with sums over      *)
(* finite sets, the volumes; then what a step does to the cached top of    *)
(* book.                                                                   *)

Untouched ==
  /\ UNCHANGED <<pool, queue, total_volume, live_order_count>>
  /\ base' = base \/ \A s \in Slots : pool[s] = NULL

Removal ==
  \E s \in Slots :
    /\ pool[s] # NULL /\ RemoveOrder(s) /\ base' = base
    /\ live_order_count' = live_order_count \/ live_order_count' = CountDown(1)

Reduction ==
  \E s \in Slots : \E qty \in Nat :
    /\ pool[s] # NULL /\ qty < pool[s].qty /\ ReduceOrder(s, qty)
    /\ base' = base /\ live_order_count' = live_order_count

Arrival ==
  \E s \in Slots : \E o \in Order :
    /\ pool[s] = NULL
    /\ pool' = [pool EXCEPT ![s] = o]
    /\ queue' = [queue EXCEPT ![o.side][o.price] = Append(queue[o.side][o.price], s)]
    /\ total_volume' = [total_volume EXCEPT ![o.side][o.price] =
                          (@ + o.qty) % VolumeMod]
    /\ base' = base /\ live_order_count' = live_order_count + 1

Slide == \E new_base \in Nat : rebase_base(new_base)

Effect == Untouched \/ Removal \/ Reduction \/ Arrival \/ Slide

-----------------------------------------------------------------------------
LEMMA InsertEffect ==
  ASSUME IInv, NEW id \in Ids, NEW side \in Side, NEW price \in Prices,
         NEW qty \in Quantities, insert_limit_order(id, side, price, qty)
  PROVE  Untouched \/ Slide
<1>1. price \in Nat
  BY BookAssumption
<1>2. CASE AcceptInBand(id, side, price, qty)
  <2>1. base' = base \/ ~ base_set
    BY <1>2 DEF AcceptInBand, AnchoredBase
  <2>2. ASSUME ~ base_set, NEW s \in Slots PROVE pool[s] = NULL
    <3> SUFFICES ASSUME pool[s] # NULL PROVE FALSE
      OBVIOUS
    <3>1. pool[s].side \in Side /\ pool[s].price \in Idx
      BY DEF IInv, TypeOK, Order
    <3>2. queue[pool[s].side][pool[s].price] # <<>>
      BY <3>1, OccupiedRange DEF IInv, Shelves, Partition
    <3> QED
      BY <2>2, <3>1, <3>2 DEF IInv, AnchoredFirst
  <2> QED
    BY <1>2, <2>1, <2>2 DEF AcceptInBand, Untouched, levels
<1>3. CASE AcceptAfterRebase(id, side, price, qty)
  BY <1>1, <1>3, CentredInWindow DEF AcceptAfterRebase, Slide
<1>4. CASE RejectOutOfBand(price)
  BY <1>4 DEF RejectOutOfBand, Untouched, levels
<1> QED
  BY <1>2, <1>3, <1>4 DEF insert_limit_order

LEMMA MatchEffect ==
  ASSUME IInv, taker # NULL, NEW maker \in Side, best[maker] # NoLevel,
         Match(maker)
  PROVE  Removal \/ Reduction
<1> DEFINE i   == best[maker]
           s   == Head(queue[maker][i])
           qty == Min({taker.left, pool[s].qty})
<1>1. s \in Slots /\ pool[s] # NULL /\ pool[s] \in Order
  BY HeadOfBestRests
<1>2. taker.left \in Nat \ {0} /\ pool[s].qty \in Nat \ {0}
  BY <1>1 DEF IInv, TypeOK, Takers, Order
<1>3. /\ IF qty = pool[s].qty THEN RemoveOrder(s) /\ live_order_count' = CountDown(1)
         ELSE ReduceOrder(s, qty) /\ UNCHANGED live_order_count
      /\ base' = base
  BY DEF Match, window
<1> HIDE DEF s
<1>4. qty \in Nat /\ qty <= pool[s].qty
  BY <1>2, MinOfTwo
<1> HIDE DEF qty
<1>5. qty # pool[s].qty => qty < pool[s].qty
  BY <1>2, <1>4
<1> QED
  BY <1>1, <1>3, <1>4, <1>5 DEF Removal, Reduction

LEMMA CallEffect ==
  ASSUME IInv, NEW id \in Ids, NEW qty \in Nat,
         cancel_order(id) \/ execute_order(id, qty) \/ reduce_order_qty(id, qty)
  PROVE  Removal \/ Reduction
<1> DEFINE s == id_map[id]
<1>1. id_map[id] # NULL
  BY DEF cancel_order, execute_order, reduce_order_qty
<1>2. s \in Slots /\ pool[s] # NULL /\ pool[s] \in Order
  BY <1>1, KnownIdRests
<1>3. /\ base' = base
      /\ \/ /\ RemoveOrder(s)
            /\ \/ live_order_count' = live_order_count
               \/ live_order_count' = CountDown(1)
         \/ /\ ~ (qty >= pool[s].qty)
            /\ ReduceOrder(s, qty)
            /\ live_order_count' = live_order_count
  <2>1. CASE cancel_order(id)
    BY <2>1 DEF cancel_order, window
  <2>2. CASE execute_order(id, qty)
    BY <2>2 DEF execute_order, window
  <2>3. CASE reduce_order_qty(id, qty)
    BY <2>3 DEF reduce_order_qty, window
  <2> QED
    BY <2>1, <2>2, <2>3
<1>4. qty >= pool[s].qty \/ qty < pool[s].qty
  BY <1>2 DEF Order
<1> HIDE DEF s
<1> QED
  BY <1>2, <1>3, <1>4 DEF Removal, Reduction

LEMMA RestEffect ==
  ASSUME IInv, RestRemainder
  PROVE  Arrival
<1>1. PICK t \in [id : Ids, side : Side, price : Prices, limit : Idx, left : Nat \ {0}] :
        t = taker
  <2>1. taker \in Takers /\ taker.price # NULL
    BY DEF IInv, TypeOK, RestRemainder
  <2> QED
    BY <2>1 DEF Takers
<1> DEFINE o == [id |-> t.id, side |-> t.side, price |-> t.limit, qty |-> t.left]
<1>2. o \in Order /\ o.side = t.side /\ o.price = t.limit /\ o.qty = t.left
  BY DEF Order
<1>3. PICK s \in Slots :
        /\ pool[s] = NULL /\ pool' = [pool EXCEPT ![s] = o]
        /\ queue' = [queue EXCEPT ![t.side][t.limit] =
                       Append(queue[t.side][t.limit], s)]
        /\ total_volume' = [total_volume EXCEPT ![t.side][t.limit] =
                              (@ + t.left) % VolumeMod]
  BY <1>1 DEF RestRemainder, level_append, Live
<1>4. base' = base /\ live_order_count' = live_order_count + 1
  BY DEF RestRemainder, window
<1> HIDE DEF o
<1> QED
  BY <1>2, <1>3, <1>4 DEF Arrival

LEMMA StepEffect == IInv /\ [Next]_vars => Effect
<1> SUFFICES ASSUME IInv, [Next]_vars PROVE Effect
  OBVIOUS
<1>1. ASSUME NEW id \in Ids, NEW side \in Side, NEW price \in Prices,
             NEW qty \in Quantities, insert_limit_order(id, side, price, qty)
      PROVE  Effect
  BY <1>1, InsertEffect DEF Effect
<1>2. ASSUME NEW side \in Side, NEW qty \in Quantities,
             process_market_order(side, qty)
      PROVE  Effect
  BY <1>2 DEF process_market_order, window, levels, Untouched, Effect
<1>3. ASSUME NEW id \in Ids, cancel_order(id) PROVE Effect
  BY <1>3, CallEffect DEF Effect
<1>4. ASSUME NEW id \in Ids, NEW qty \in Quantities,
             execute_order(id, qty) \/ reduce_order_qty(id, qty)
      PROVE  Effect
  BY <1>4, CallEffect, BookAssumption DEF Effect
<1>5. CASE match_against_asks
  BY <1>5, CrossedBestExists, MatchEffect
     DEF match_against_asks, Opposite, Side, Effect
<1>6. CASE match_against_bids
  BY <1>6, CrossedBestExists, MatchEffect
     DEF match_against_bids, Opposite, Side, Effect
<1>7. CASE RestRemainder
  BY <1>7, RestEffect DEF Effect
<1>8. CASE DiscardRemainder
  BY <1>8 DEF DiscardRemainder, window, levels, Untouched, Effect
<1>9. CASE UNCHANGED vars
  BY <1>9 DEF vars, window, levels, Untouched, Effect
<1> QED
  BY <1>1, <1>2, <1>3, <1>4, <1>5, <1>6, <1>7, <1>8, <1>9
     DEF Next, Call, Continue

-----------------------------------------------------------------------------
(* Every effect against the orders that rest before and after it.          *)

(* A slide by d drops what falls out of the window and moves every other   *)
(* list, with its orders, by d.                                            *)
LEMMA SlideMovesLists ==
  ASSUME IInv, NEW new_base \in Nat, rebase_base(new_base)
  PROVE  \E d \in Int :
           /\ base' + d = base
           /\ Dropped(new_base) \subseteq Live
           /\ Live' = Live \ Dropped(new_base)
           /\ live_order_count' = CountDown(Cardinality(Dropped(new_base)))
           /\ \A s \in Live' :
                /\ pool'[s] = Relabelled(pool[s], d)
                /\ pool[s].price + d \in Idx
                /\ queue'[pool[s].side][pool[s].price + d] =
                     queue[pool[s].side][pool[s].price]
<1> DEFINE D == Dropped(new_base)
           d == base - new_base
<1>1. PICK b \in Nat : b = base
  BY DEF IInv, TypeOK
<1>2. d \in Int /\ d = b - new_base
  BY <1>1
<1>3. D = {s \in Slots : pool[s] # NULL /\ pool[s].price + d \notin Idx}
  BY DroppedFallOutside DEF IInv
<1>4. D = UNION {Range(queue[side][i]) : side \in Side,
                   i \in {j \in Idx : j + d \notin Idx}}
  BY DEF Dropped
<1>5. /\ base' = new_base
      /\ live_order_count' = CountDown(Cardinality(D))
      /\ pool' = [s \in Slots |-> IF pool[s] = NULL \/ s \in D THEN NULL
                                  ELSE Relabelled(pool[s], d)]
      /\ queue' = [side \in Side |-> [i \in Idx |->
                     IF i - d \in Idx THEN queue[side][i - d] ELSE <<>>]]
  BY <1>4 DEF rebase_base
<1> HIDE DEF D, d
<1>6. base' + d = base
  BY <1>1, <1>2, <1>5
<1>7. D \subseteq Live
  BY <1>3 DEF Live
<1>8. ASSUME NEW s \in Slots, pool[s] # NULL, s \notin D
      PROVE  /\ pool'[s] = Relabelled(pool[s], d) /\ pool'[s] # NULL
             /\ pool[s].price + d \in Idx
             /\ queue'[pool[s].side][pool[s].price + d] =
                  queue[pool[s].side][pool[s].price]
  <2>1. PICK o \in Order : o = pool[s]
    BY <1>8 DEF IInv, TypeOK
  <2>2. o.side \in Side /\ o.price \in Idx /\ o.price \in Int
    BY <2>1 DEF Order, Idx
  <2>3. o.price + d \in Idx
    BY <1>3, <1>8, <2>1
  <2>4. pool'[s] = Relabelled(pool[s], d) /\ Relabelled(o, d) \in Order
    <3>1. pool'[s] = Relabelled(pool[s], d)
      BY <1>5, <1>8
    <3>2. Relabelled(o, d) \in Order
      BY <2>3 DEF Relabelled, Order
    <3> QED
      BY <3>1, <3>2
  <2>5. (o.price + d) - d = o.price
    BY <1>2, <2>2
  <2>6. queue'[o.side][o.price + d] = queue[o.side][o.price]
    <3>1. \A side \in Side, i \in Idx : queue'[side][i] =
            IF i - d \in Idx THEN queue[side][i - d] ELSE <<>>
      BY <1>5
    <3> DEFINE p == o.price + d
    <3>2. p \in Idx /\ p - d = o.price
      BY <2>3, <2>5
    <3> HIDE DEF p
    <3>3. queue'[o.side][p] = queue[o.side][o.price]
      BY <2>2, <3>1, <3>2
    <3> QED
      BY <3>3 DEF p
  <2> QED
    BY <2>1, <2>3, <2>4, <2>6, NullAssumption
<1>9. Live' = Live \ D
  BY <1>5, <1>8 DEF Live
<1>10. \A s \in Live' :
         /\ pool'[s] = Relabelled(pool[s], d)
         /\ pool[s].price + d \in Idx
         /\ queue'[pool[s].side][pool[s].price + d] =
              queue[pool[s].side][pool[s].price]
  <2>1. \A s \in Live \ D : s \in Slots /\ pool[s] # NULL /\ s \notin D
    BY DEF Live
  <2> QED
    BY <1>8, <1>9, <2>1
<1> QED
  BY <1>2, <1>5, <1>6, <1>7, <1>9, <1>10 DEF D

-----------------------------------------------------------------------------
(* live_order_count counts at least the orders that rest.                  *)

LEMMA EffectKeepsCount ==
  ASSUME IInv, CountCoversBook, Effect
  PROVE  CountCoversBook'
<1>1. IsFiniteSet(Live)
  BY BookAssumption, FS_Subset DEF Live
<1>2. PICK n \in Nat : n = Cardinality(Live)
  BY <1>1, FS_CardinalityType
<1>3. PICK c \in Nat : c = live_order_count
  BY DEF IInv, TypeOK
<1>4. n <= c
  BY <1>2, <1>3 DEF CountCoversBook
<1>5. ASSUME Live' = Live, live_order_count' = live_order_count
      PROVE  CountCoversBook'
  BY <1>5, <1>2, <1>3, <1>4 DEF CountCoversBook
<1>6. CASE Untouched
  BY <1>5, <1>6 DEF Untouched, Live
<1>7. CASE Removal
  <2>1. PICK s \in Slots :
          /\ pool[s] # NULL /\ RemoveOrder(s)
          /\ live_order_count' = live_order_count \/ live_order_count' = CountDown(1)
    BY <1>7 DEF Removal
  <2>2. Live' = Live \ {s} /\ s \in Live
    BY <2>1 DEF RemoveOrder, Live, IInv, TypeOK
  <2>3. Cardinality(Live') = n - 1
    BY <1>1, <1>2, <2>2, FS_RemoveElement
  <2>4. live_order_count' = c \/ live_order_count' = IF c > 1 THEN c - 1 ELSE 0
    BY <1>3, <2>1 DEF CountDown
  <2>5. n - 1 <= c /\ n - 1 <= IF c > 1 THEN c - 1 ELSE 0
    BY <1>4
  <2> QED
    BY <2>3, <2>4, <2>5 DEF CountCoversBook
<1>8. CASE Reduction
  <2>1. PICK s \in Slots, qty \in Nat : 
          /\ pool[s] # NULL /\ ReduceOrder(s, qty)
          /\ live_order_count' = live_order_count /\ qty < pool[s].qty
    BY <1>8 DEF Reduction
  <2>2. PICK o \in Order : o = pool[s]
    BY <2>1 DEF IInv, TypeOK
  <2> DEFINE o2 == [o EXCEPT !.qty = o.qty - qty]
  <2>3. o2 \in Order
    BY <2>1, <2>2 DEF Order
  <2>4. pool' = [pool EXCEPT ![s] = o2]
    BY <2>1, <2>2 DEF ReduceOrder, IInv, TypeOK
  <2> HIDE DEF o2
  <2>5. Live' = Live
    BY <2>1, <2>3, <2>4, NullAssumption DEF Live, IInv, TypeOK
  <2> QED
    BY <1>5, <2>1, <2>5
<1>9. CASE Arrival
  <2>1. PICK s \in Slots, o \in Order :
          /\ pool[s] = NULL /\ pool' = [pool EXCEPT ![s] = o]
          /\ live_order_count' = live_order_count + 1
    BY <1>9 DEF Arrival
  <2>2. Live' = Live \union {s} /\ s \notin Live
    BY <2>1, NullAssumption DEF Live, IInv, TypeOK
  <2>3. Cardinality(Live') = n + 1
    BY <1>1, <1>2, <2>2, FS_AddElement
  <2>4. live_order_count' = c + 1
    BY <1>3, <2>1
  <2>5. n + 1 <= c + 1
    BY <1>4
  <2> QED
    BY <2>3, <2>4, <2>5 DEF CountCoversBook
<1>10. CASE Slide
  <2>1. PICK new_base \in Nat : rebase_base(new_base)
    BY <1>10 DEF Slide
  <2> DEFINE D == Dropped(new_base)
  <2>2. /\ D \subseteq Live /\ Live' = Live \ D
        /\ live_order_count' = CountDown(Cardinality(D))
    BY <2>1, SlideMovesLists
  <2> HIDE DEF D
  <2>3. PICK k \in Nat : k = Cardinality(D)
    BY <1>1, <2>2, FS_Subset, FS_CardinalityType
  <2>4. Cardinality(Live') = n - k
    <3>1. Live \cap D = D
      BY <2>2
    <3>2. Cardinality(Live \ D) = Cardinality(Live) - Cardinality(Live \cap D)
      BY <1>1, FS_Difference
    <3>3. Cardinality(Live \ D) = n - k
      BY <1>2, <2>3, <3>1, <3>2
    <3> QED
      BY <2>2, <3>3
  <2>5. live_order_count' = IF c > k THEN c - k ELSE 0
    BY <1>3, <2>2, <2>3 DEF CountDown
  <2>6. n - k <= IF c > k THEN c - k ELSE 0
    BY <1>4
  <2> QED
    BY <2>4, <2>5, <2>6 DEF CountCoversBook
<1> QED
  BY <1>6, <1>7, <1>8, <1>9, <1>10 DEF Effect

(* live_order_count is never below the number of resting orders: neither a *)
(* cancel, which leaves it alone, nor a fill or a slide, which count down, *)
(* lets its guarded decrement saturate.                                    *)
THEOREM CountStaysAbove == Spec => []CountCoversBook
<1>1. Init => CountCoversBook
  <2> SUFFICES ASSUME Init PROVE CountCoversBook
    OBVIOUS
  <2>1. Live = {} /\ live_order_count = 0
    BY DEF Init, Live
  <2> QED
    BY <2>1, FS_EmptySet DEF CountCoversBook
<1>2. IInv /\ CountCoversBook /\ [Next]_vars => CountCoversBook'
  BY StepEffect, EffectKeepsCount
<1> QED
  BY <1>1, <1>2, InvariantHolds, PTL DEF Spec

-----------------------------------------------------------------------------
(* An order that stays keeps its identity and its place in time.           *)

LEMMA EffectKeepsOrder ==
  ASSUME IInv, Effect, NEW s \in Slots, pool[s] # NULL, pool'[s] # NULL
  PROVE  /\ pool'[s].id = pool[s].id /\ pool'[s].side = pool[s].side
         /\ base' + pool'[s].price = base + pool[s].price
         /\ pool'[s].qty <= pool[s].qty
<1>1. PICK o \in Order : o = pool[s]
  BY DEF IInv, TypeOK
<1>2. o.price \in Int /\ o.qty \in Nat
  BY DEF Order, Idx
<1>3. PICK b \in Nat : b = base
  BY DEF IInv, TypeOK
<1>4. ASSUME pool'[s] = pool[s], base' = base
      PROVE  /\ pool'[s].id = pool[s].id /\ pool'[s].side = pool[s].side
             /\ base' + pool'[s].price = base + pool[s].price
             /\ pool'[s].qty <= pool[s].qty
  BY <1>1, <1>2, <1>4
<1>5. CASE Untouched
  BY <1>4, <1>5 DEF Untouched
<1>6. CASE Removal
  BY <1>4, <1>6 DEF Removal, RemoveOrder, IInv, TypeOK
<1>7. CASE Reduction
  <2>1. PICK t \in Slots, qty \in Nat :
          qty < pool[t].qty /\ ReduceOrder(t, qty) /\ base' = base
    BY <1>7 DEF Reduction
  <2>2. CASE t = s
    <3> DEFINE o2 == [o EXCEPT !.qty = o.qty - qty]
    <3>1. o2.id = o.id /\ o2.side = o.side /\ o2.price = o.price /\ o2.qty <= o.qty
      BY <1>2 DEF Order
    <3>2. pool'[s] = o2
      BY <1>1, <2>1, <2>2 DEF ReduceOrder, IInv, TypeOK
    <3> HIDE DEF o2
    <3> QED
      BY <1>1, <2>1, <3>1, <3>2
  <2>3. CASE t # s
    BY <1>4, <2>1, <2>3 DEF ReduceOrder, IInv, TypeOK
  <2> QED
    BY <2>2, <2>3
<1>8. CASE Arrival
  BY <1>4, <1>8 DEF Arrival, IInv, TypeOK
<1>9. CASE Slide
  <2>1. PICK d \in Int : base' + d = base /\ pool'[s] = Relabelled(pool[s], d)
    <3>1. PICK new_base \in Nat : rebase_base(new_base)
      BY <1>9 DEF Slide
    <3>2. s \in Live'
      BY DEF Live
    <3> QED
      BY <3>1, <3>2, SlideMovesLists
  <2>2. PICK b2 \in Nat : b2 = base'
    BY <1>9 DEF Slide, rebase_base
  <2> DEFINE o2 == Relabelled(o, d)
  <2>3. o2.id = o.id /\ o2.side = o.side /\ o2.price = o.price + d /\ o2.qty = o.qty
    BY DEF Relabelled, Order
  <2> HIDE DEF o2
  <2>4. pool'[s] = o2
    BY <1>1, <2>1 DEF o2
  <2>5. b2 + (o.price + d) = b + o.price
    <3>1. b2 + d = b
      BY <1>3, <2>1, <2>2
    <3> QED
      BY <1>2, <3>1
  <2> QED
    BY <1>1, <1>2, <1>3, <2>2, <2>3, <2>4, <2>5
<1> QED
  BY <1>5, <1>6, <1>7, <1>8, <1>9 DEF Effect

(* A slide drops only what falls outside the new window.                   *)
LEMMA EffectKeepsFitting ==
  ASSUME IInv, Effect, NEW s \in Slots, pool[s] # NULL, base' # base,
         base + pool[s].price - base' \in Idx
  PROVE  pool'[s] # NULL
<1>1. CASE Slide
  <2>1. PICK new_base \in Nat : rebase_base(new_base)
    BY <1>1 DEF Slide
  <2>2. PICK b \in Nat : b = base
    BY DEF IInv, TypeOK
  <2>3. PICK p \in Int : p = pool[s].price
    BY DEF IInv, TypeOK, Order, Idx
  <2>4. base' = new_base
    BY <2>1 DEF rebase_base
  <2>5. p + (b - new_base) = b + p - new_base
    BY <2>2, <2>3
  <2>6. s \notin Dropped(new_base)
    BY <2>2, <2>3, <2>4, <2>5, DroppedFallOutside DEF IInv
  <2>7. s \in Live'
    BY <2>1, <2>6, SlideMovesLists DEF Live
  <2> QED
    BY <2>7 DEF Live
<1>2. CASE ~ Slide
  BY <1>2 DEF Effect, Untouched, Removal, Reduction, Arrival
<1> QED
  BY <1>1, <1>2

(* A resting order is the same order, at the same absolute price and with  *)
(* no more quantity, until it leaves: a slide that relabels its index      *)
(* moves base by as much, and drops it only when its price lies outside    *)
(* the new window (rebase_base).                                           *)
THEOREM OrdersAreKept == Spec => RestingOrdersKept
<1>1. IInv /\ [Next]_vars =>
        [\A s \in Live :
           /\ pool'[s] # NULL =>
                /\ pool'[s].id = pool[s].id /\ pool'[s].side = pool[s].side
                /\ base' + pool'[s].price = base + pool[s].price
                /\ pool'[s].qty <= pool[s].qty
           /\ base' # base /\ base + pool[s].price - base' \in Idx =>
                pool'[s] # NULL]_vars
  BY StepEffect, EffectKeepsOrder, EffectKeepsFitting DEF Live
<1> QED
  BY <1>1, InvariantHolds, PTL DEF Spec, RestingOrdersKept

LEMMA UnlinkKeepsAhead ==
  ASSUME NEW S, NEW q \in Seq(S), NEW s \in Range(q), NEW a, NEW b,
         a # s, b # s, Ahead(a, b, q)
  PROVE  Ahead(a, b, Unlink(q, s))
<1> DEFINE k == CHOOSE j \in DOMAIN q : q[j] = s
           r == Unlink(q, s)
           At(m) == IF m < k THEN m ELSE m - 1
<1>1. Len(q) \in Nat /\ DOMAIN q = 1 .. Len(q)
  BY LenProperties
<1>2. k \in 1 .. Len(q) /\ q[k] = s
  BY <1>1 DEF Range
<1> HIDE DEF k
<1>3. /\ r \in Seq(S) /\ Len(r) = Len(q) - 1
      /\ \A i \in 1 .. Len(q) - 1 : r[i] = IF i < k THEN q[i] ELSE q[i + 1]
  BY <1>2, RemoveAtProperties DEF Unlink, k
<1>4. DOMAIN r = 1 .. Len(q) - 1
  BY <1>3, LenProperties
<1> HIDE DEF r
<1>5. ASSUME NEW m \in 1 .. Len(q), q[m] # s
      PROVE  At(m) \in DOMAIN r /\ r[At(m)] = q[m]
  <2>1. CASE m < k
    <3>1. m \in 1 .. Len(q) - 1 /\ At(m) = m
      BY <1>1, <1>2, <2>1
    <3> QED
      BY <1>3, <1>4, <2>1, <3>1
  <2>2. CASE m > k
    <3>1. PICK i \in 1 .. Len(q) - 1 : i = m - 1
      BY <1>1, <1>2, <2>2
    <3>2. ~ (i < k) /\ i + 1 = m /\ At(m) = i
      BY <1>1, <1>2, <2>2, <3>1
    <3> QED
      BY <1>3, <1>4, <3>1, <3>2
  <2> QED
    BY <1>2, <1>5, <2>1, <2>2
<1>6. PICK i, j \in 1 .. Len(q) : i < j /\ q[i] = a /\ q[j] = b
  BY <1>1 DEF Ahead
<1>7. At(i) < At(j)
  <2>1. i # k /\ j # k
    BY <1>2, <1>6
  <2> QED
    BY <1>1, <1>2, <1>6, <2>1
<1>8. /\ At(i) \in DOMAIN r /\ r[At(i)] = a
      /\ At(j) \in DOMAIN r /\ r[At(j)] = b
  BY <1>5, <1>6
<1> HIDE DEF At
<1>9. Ahead(a, b, r)
  BY <1>7, <1>8 DEF Ahead
<1> QED
  BY <1>9 DEF r

LEMMA AppendKeepsAhead ==
  ASSUME NEW S, NEW q \in Seq(S), NEW s \in S, NEW a, NEW b, Ahead(a, b, q)
  PROVE  Ahead(a, b, Append(q, s))
<1>1. /\ Len(q) \in Nat /\ DOMAIN q = 1 .. Len(q)
      /\ DOMAIN Append(q, s) = 1 .. Len(q) + 1
      /\ \A i \in 1 .. Len(q) : Append(q, s)[i] = q[i]
  BY LenProperties, AppendProperties
<1> QED
  BY <1>1 DEF Ahead

LEMMA EffectKeepsAhead ==
  ASSUME IInv, Effect,
         NEW a \in Slots, pool[a] # NULL, pool'[a] # NULL,
         NEW b \in Slots, pool[b] # NULL, pool'[b] # NULL,
         pool[a].side = pool[b].side, pool[a].price = pool[b].price,
         Ahead(a, b, queue[pool[a].side][pool[a].price])
  PROVE  Ahead(a, b, queue'[pool'[a].side][pool'[a].price])
<1>1. PICK o \in Order : o = pool[a]
  BY DEF IInv, TypeOK
<1>2. o.side \in Side /\ o.price \in Idx
  BY DEF Order
<1> DEFINE q == queue[o.side][o.price]
<1>3. q \in Seq(Slots) /\ Ahead(a, b, q)
  BY <1>1, <1>2 DEF IInv, TypeOK
<1> HIDE DEF q
<1>4. CASE Untouched
  BY <1>1, <1>3, <1>4 DEF Untouched, q
<1>5. CASE Removal
  <2>1. PICK s \in Slots : pool[s] # NULL /\ RemoveOrder(s)
    BY <1>5 DEF Removal
  <2>2. PICK p \in Order : p = pool[s]
    BY <2>1 DEF IInv, TypeOK
  <2>3. /\ pool' = [pool EXCEPT ![s] = NULL]
        /\ queue' = [queue EXCEPT ![p.side][p.price] =
                       Unlink(queue[p.side][p.price], s)]
    BY <2>1, <2>2 DEF RemoveOrder, level_remove
  <2>4. a # s /\ b # s /\ pool'[a] = o
    BY <1>1, <2>3 DEF IInv, TypeOK
  <2>5. CASE p.side = o.side /\ p.price = o.price
    <3>1. s \in Range(q)
      BY <1>2, <2>1, <2>2, <2>5 DEF IInv, Shelves, Partition, q
    <3>2. queue'[o.side][o.price] = Unlink(q, s)
      BY <1>2, <2>3, <2>5 DEF IInv, TypeOK, q
    <3> QED
      BY <1>3, <2>4, <3>1, <3>2, UnlinkKeepsAhead
  <2>6. CASE ~ (p.side = o.side /\ p.price = o.price)
    <3>1. p.side \in Side /\ p.price \in Idx
      BY DEF Order
    <3>2. queue'[o.side][o.price] = q
      BY <1>2, <2>3, <2>6, <3>1 DEF IInv, TypeOK, q
    <3> QED
      BY <1>3, <2>4, <3>2
  <2> QED
    BY <2>5, <2>6
<1>6. CASE Reduction
  <2>1. PICK s \in Slots, qty \in Nat : pool[s] # NULL /\ ReduceOrder(s, qty)
    BY <1>6 DEF Reduction
  <2>2. PICK p \in Order : p = pool[s]
    BY <2>1 DEF IInv, TypeOK
  <2> DEFINE p2 == [p EXCEPT !.qty = p.qty - qty]
  <2>3. pool' = [pool EXCEPT ![s] = p2] /\ queue' = queue
    BY <2>1, <2>2 DEF ReduceOrder, IInv, TypeOK
  <2>4. p2.side = p.side /\ p2.price = p.price
    BY DEF Order
  <2> HIDE DEF p2
  <2>5. pool'[a].side = o.side /\ pool'[a].price = o.price
    BY <1>1, <2>2, <2>3, <2>4 DEF IInv, TypeOK
  <2> QED
    BY <1>3, <2>3, <2>5 DEF q
<1>7. CASE Arrival
  <2>1. PICK s \in Slots, p \in Order :
          /\ pool[s] = NULL
          /\ pool' = [pool EXCEPT ![s] = p]
          /\ queue' = [queue EXCEPT ![p.side][p.price] =
                         Append(queue[p.side][p.price], s)]
    BY <1>7 DEF Arrival
  <2>2. pool'[a] = o
    BY <1>1, <2>1 DEF IInv, TypeOK
  <2>3. queue'[o.side][o.price] = q \/ queue'[o.side][o.price] = Append(q, s)
    BY <1>2, <2>1 DEF IInv, TypeOK, Order, q
  <2> QED
    BY <1>3, <2>2, <2>3, AppendKeepsAhead
<1>8. CASE Slide
  <2>1. PICK d \in Int :
          /\ pool'[a] = Relabelled(o, d)
          /\ queue'[o.side][o.price + d] = q
    <3>1. PICK new_base \in Nat : rebase_base(new_base)
      BY <1>8 DEF Slide
    <3>2. a \in Live'
      BY DEF Live
    <3> QED
      BY <1>1, <3>1, <3>2, SlideMovesLists DEF q
  <2>2. Relabelled(o, d).side = o.side /\ Relabelled(o, d).price = o.price + d
    BY DEF Relabelled, Order
  <2> QED
    BY <1>3, <2>1, <2>2
<1> QED
  BY <1>4, <1>5, <1>6, <1>7, <1>8 DEF Effect

(* Two orders of a level keep their order in time while both rest: taking  *)
(* a third out of the list, appending one and relinking whole levels in a  *)
(* slide never reorders.                                                   *)
THEOREM TimePriorityIsKept == Spec => TimePriorityKept
<1>1. IInv /\ [Next]_vars =>
        [\A a, b \in Live :
           /\ pool[a].side = pool[b].side /\ pool[a].price = pool[b].price
           /\ Ahead(a, b, queue[pool[a].side][pool[a].price])
           /\ pool'[a] # NULL /\ pool'[b] # NULL
           => Ahead(a, b, queue'[pool'[a].side][pool'[a].price])]_vars
  BY StepEffect, EffectKeepsAhead DEF Live
<1> QED
  BY <1>1, InvariantHolds, PTL DEF Spec, TimePriorityKept

-----------------------------------------------------------------------------
(* Trades.                                                                 *)

(* What an order in slot s gives up when it is removed or reduced.         *)
LEMMA FillIsTaken ==
  ASSUME IInv, NEW s \in Slots, NEW o \in Order, o = pool[s],
         NEW qty \in Nat, qty <= o.qty,
         \/ qty = o.qty /\ RemoveOrder(s)
         \/ qty # o.qty /\ ReduceOrder(s, qty)
  PROVE  (IF pool'[s] = NULL THEN 0 ELSE pool'[s].qty) + qty = o.qty
<1>1. o.qty \in Nat
  BY DEF Order
<1>2. CASE qty = o.qty /\ RemoveOrder(s)
  <2>1. pool'[s] = NULL
    BY <1>2 DEF RemoveOrder, IInv, TypeOK
  <2> QED
    BY <1>1, <1>2, <2>1
<1>3. CASE qty # o.qty /\ ReduceOrder(s, qty)
  <2> DEFINE o2 == [o EXCEPT !.qty = o.qty - qty]
  <2>1. o2 \in Order /\ o2.qty = o.qty - qty
    BY <1>1, <1>3 DEF Order
  <2>2. pool'[s] = o2
    BY <1>3 DEF ReduceOrder, IInv, TypeOK
  <2> HIDE DEF o2
  <2>3. pool'[s] # NULL /\ pool'[s].qty = o.qty - qty
    BY <2>1, <2>2, NullAssumption
  <2> QED
    BY <1>1, <2>3
<1> QED
  BY <1>2, <1>3

(* A resting order is found under its id, and its level reports its price. *)
LEMMA RestingOrderIsFound ==
  ASSUME IInv, NEW s \in Slots, NEW o \in Order, o = pool[s]
  PROVE  /\ o.id \in Ids /\ id_map[o.id] = s
         /\ level_price[o.side][o.price] = base + o.price
<1>1. o.id \in Ids /\ o.side \in Side /\ o.price \in Idx
  BY DEF Order
<1>2. o # NULL
  BY NullAssumption
<1>3. id_map[o.id] = s
  BY <1>2 DEF IInv, Shelves, Exact
<1>4. queue[o.side][o.price] # <<>>
  <2>1. s \in Range(queue[o.side][o.price])
    BY <1>1, <1>2 DEF IInv, Shelves, Partition
  <2> QED
    BY <2>1, OccupiedRange
<1> QED
  BY <1>1, <1>3, <1>4 DEF IInv, Shelves, LevelPriceExact

(* The body of TradesConserve.                                             *)
TradeConserves ==
  LET s    == id_map[trade'.maker]
      rest == IF pool'[s] = NULL THEN 0 ELSE pool'[s].qty
      left == IF taker' = NULL THEN 0 ELSE taker'.left
  IN  /\ rest + trade'.qty = pool[s].qty
      /\ trade'.price = base + pool[s].price
      /\ taker # NULL =>
           /\ trade'.qty > 0 /\ trade'.qty + left = taker.left
           /\ trade'.taker = taker.id /\ trade'.maker # taker.id
           /\ pool[s].side = Opposite(taker.side)
           /\ taker.price # NULL =>
                IF taker.side = "BUY" THEN trade'.price <= taker.price
                                      ELSE trade'.price >= taker.price

LEMMA ExecutionConserves ==
  ASSUME IInv, NEW id \in Ids, NEW fill \in Nat, execute_order(id, fill)
  PROVE  TradeConserves
<1>1. id_map[id] # NULL /\ taker = NULL
  BY DEF execute_order
<1>2. PICK s \in Slots : s = id_map[id] /\ pool[s] # NULL
  BY <1>1, KnownIdRests
<1>3. PICK o \in Order : o = pool[s]
  BY <1>2 DEF IInv, TypeOK
<1> DEFINE qty == Min({fill, o.qty})
<1>4. /\ IF fill >= o.qty THEN RemoveOrder(s) ELSE ReduceOrder(s, fill)
      /\ trade' = [maker |-> o.id, taker |-> NULL,
                   price |-> level_price[o.side][o.price], qty |-> qty]
  BY <1>2, <1>3 DEF execute_order
<1>5. o.qty \in Nat
  BY DEF Order
<1>6. qty = IF fill <= o.qty THEN fill ELSE o.qty
  BY <1>5, MinOfTwo
<1> HIDE DEF qty
<1>7. /\ qty \in Nat /\ qty <= o.qty
      /\ \/ qty = o.qty /\ RemoveOrder(s)
         \/ qty # o.qty /\ ReduceOrder(s, qty)
  BY <1>4, <1>5, <1>6
<1>8. (IF pool'[s] = NULL THEN 0 ELSE pool'[s].qty) + qty = o.qty
  BY <1>3, <1>7, FillIsTaken
<1>9. id_map[o.id] = s /\ level_price[o.side][o.price] = base + o.price
  BY <1>3, RestingOrderIsFound
<1>10. trade'.maker = o.id /\ trade'.qty = qty /\ trade'.price = base + o.price
  BY <1>4, <1>9
<1> QED
  BY <1>1, <1>3, <1>8, <1>9, <1>10 DEF TradeConserves

LEMMA MatchConserves ==
  ASSUME IInv, taker # NULL, NEW maker \in Side, maker = Opposite(taker.side),
         best[maker] # NoLevel, Crosses(taker), Match(maker)
  PROVE  TradeConserves
<1>1. PICK t \in Takers : t = taker
  BY DEF IInv, TypeOK
<1>2. /\ t.left \in Nat \ {0} /\ t.side \in Side /\ t.limit \in Int
      /\ \/ t.id \in Ids /\ t.price \in Nat /\ t.price # NULL
         \/ t.id = NULL /\ t.price = NULL
  <2>1. t.left \in Nat \ {0} /\ t.side \in Side /\ t.limit \in Idx
    BY DEF Takers
  <2>2. \/ t.id \in Ids /\ t.price \in Prices
        \/ t.id = NULL /\ t.price = NULL
    BY DEF Takers
  <2>3. \A p \in Prices : p \in Nat /\ p # NULL
    BY BookAssumption
  <2>4. t.limit \in Int
    BY <2>1, BookAssumption DEF Idx
  <2> QED
    BY <2>1, <2>2, <2>3, <2>4
<1>3. PICK i \in Idx : i = best[maker]
  BY HeadOfBestRests
<1>4. PICK s \in Slots : s = Head(queue[maker][i])
  BY <1>3, HeadOfBestRests
<1>5. PICK o \in Order : o = pool[s] /\ o.side = maker /\ o.price = i
  BY <1>3, <1>4, HeadOfBestRests
<1>6. o.qty \in Nat \ {0} /\ i \in Int
  BY DEF Order, Idx
<1> DEFINE qty  == Min({t.left, o.qty})
           left == t.left - qty
<1>7. /\ IF qty = o.qty THEN RemoveOrder(s) ELSE ReduceOrder(s, qty)
      /\ trade' = [maker |-> o.id, taker |-> t.id,
                   price |-> level_price[maker][i], qty |-> qty]
      /\ taker' = IF left = 0 THEN NULL ELSE [t EXCEPT !.left = left]
  BY <1>1, <1>3, <1>4, <1>5 DEF Match
<1>8. qty \in Nat \ {0} /\ qty <= o.qty /\ qty <= t.left
  BY <1>2, <1>6, MinOfTwo
<1> HIDE DEF qty
<1>9. (IF pool'[s] = NULL THEN 0 ELSE pool'[s].qty) + qty = o.qty
  BY <1>5, <1>7, <1>8, FillIsTaken
<1>10. o.id \in Ids /\ id_map[o.id] = s /\ level_price[maker][i] = base + i
  BY <1>5, RestingOrderIsFound
<1>11. qty + (IF taker' = NULL THEN 0 ELSE taker'.left) = t.left
  <2>1. left \in Nat /\ qty + left = t.left
    BY <1>2, <1>8
  <2> HIDE DEF left
  <2>2. CASE left = 0
    BY <1>7, <1>8, <2>1, <2>2
  <2>3. CASE left # 0
    <3> DEFINE t2 == [t EXCEPT !.left = left]
    <3>1. t2 \in Takers /\ t2.left = left
      BY <2>1, <2>3 DEF Takers
    <3> HIDE DEF t2
    <3>2. taker' = t2
      BY <1>7, <2>3 DEF t2
    <3> QED
      BY <2>1, <3>1, <3>2, NullAssumption
  <2> QED
    BY <2>2, <2>3
<1>12. o.id # t.id
  BY <1>1, <1>2, <1>10, BookAssumption DEF IInv, TakerInWindow
<1>13. ASSUME t.price # NULL
       PROVE  IF t.side = "BUY" THEN base + i <= t.price ELSE base + i >= t.price
  <2>1. PICK b \in Nat : b = base
    BY DEF IInv, TypeOK
  <2>2. t.price = b + t.limit
    BY <1>1, <1>13, <2>1 DEF IInv, TakerInWindow
  <2>3. IF t.side = "BUY" THEN i <= t.limit ELSE i >= t.limit
    BY <1>1, <1>2, <1>3 DEF Crosses, Opposite, Side
  <2> QED
    BY <1>2, <1>6, <2>1, <2>2, <2>3
<1>14. /\ trade'.maker = o.id /\ trade'.taker = t.id /\ trade'.qty = qty
       /\ trade'.price = base + i
  BY <1>7, <1>10
<1>15. qty > 0
  BY <1>8
<1> QED
  BY <1>1, <1>5, <1>9, <1>10, <1>11, <1>12, <1>13, <1>14, <1>15 DEF TradeConserves

(* Every reported trade takes its quantity from the maker and, in a        *)
(* matching call, from the taker, at the maker's price and within the      *)
(* taker's limit; an order never trades with itself.                       *)
THEOREM TradesAreConserved == Spec => TradesConserve
<1>1. IInv /\ [Next]_vars => [trade' # NULL => TradeConserves]_vars
  <2> SUFFICES ASSUME IInv, Next, trade' # NULL PROVE TradeConserves
    OBVIOUS
  <2>1. ASSUME NEW id \in Ids, NEW qty \in Quantities, execute_order(id, qty)
        PROVE  TradeConserves
    BY <2>1, ExecutionConserves, BookAssumption
  <2>2. CASE match_against_asks
    BY <2>2, CrossedBestExists, MatchConserves
       DEF match_against_asks, Opposite, Side
  <2>3. CASE match_against_bids
    BY <2>3, CrossedBestExists, MatchConserves
       DEF match_against_bids, Opposite, Side
  <2> QED
    BY <2>1, <2>2, <2>3
       DEF Next, Call, Continue, insert_limit_order, process_market_order,
           cancel_order, reduce_order_qty, RestRemainder, DiscardRemainder
<1> QED
  BY <1>1, InvariantHolds, PTL DEF Spec, TradesConserve, TradeConserves

-----------------------------------------------------------------------------
(* Sums over finite sets.  MapThenSumSet adds the elements in the order    *)
(* CHOOSE takes them; a sum function gives the sum of every subset,        *)
(* whichever element is added last.                                        *)

SumFunctions(v, S) ==
  {f \in [SUBSET S -> Int] :
     /\ f[{}] = 0
     /\ \A T \in SUBSET S : \A x \in T : f[T] = v[x] + f[T \ {x}]}

LEMMA MinimalSubset ==
  ASSUME NEW S, IsFiniteSet(S), NEW Bad \in SUBSET SUBSET S, Bad # {}
  PROVE  \E T \in Bad : \A U \in SUBSET T : U \in Bad => U = T
<1>1. Bad \subseteq FiniteSubsetsOf(S)
  BY FS_Subset DEF FiniteSubsetsOf
<1>2. PICK T \in Bad : \A U \in Bad : ~ (<<U, T>> \in StrictSubsetOrdering(S))
  BY <1>1, WFMin, FS_StrictSubsetOrderingWellFounded
<1>3. ASSUME NEW U \in SUBSET T, U \in Bad PROVE U = T
  BY <1>2, <1>3 DEF StrictSubsetOrdering
<1> QED
  BY <1>3

LEMMA SumFunctionExtends ==
  ASSUME NEW T, NEW x \in T, NEW v, v[x] \in Int,
         NEW g \in SumFunctions(v, T \ {x}), \A y \in T : v[y] \in Int
  PROVE  SumFunctions(v, T) # {}
<1> DEFINE U == T \ {x}
           f == [W \in SUBSET T |-> IF x \in W THEN v[x] + g[W \ {x}] ELSE g[W]]
<1>1. /\ g \in [SUBSET U -> Int] /\ g[{}] = 0
      /\ \A W \in SUBSET U : \A y \in W : g[W] = v[y] + g[W \ {y}]
  BY DEF SumFunctions
<1>2. \A W \in SUBSET T : W \ {x} \in SUBSET U /\ (x \notin W => W \in SUBSET U)
  OBVIOUS
<1>3. \A W \in SUBSET T : f[W] = IF x \in W THEN v[x] + g[W \ {x}] ELSE g[W]
  OBVIOUS
<1>4. f \in [SUBSET T -> Int]
  <2>1. \A W \in SUBSET T : (IF x \in W THEN v[x] + g[W \ {x}] ELSE g[W]) \in Int
    BY <1>1, <1>2
  <2> QED
    BY <2>1
<1> HIDE DEF f, U
<1>5. f[{}] = 0
  BY <1>1, <1>3
<1>6. ASSUME NEW W \in SUBSET T, NEW y \in W PROVE f[W] = v[y] + f[W \ {y}]
  <2>1. W \ {y} \in SUBSET T
    OBVIOUS
  <2>2. CASE x \notin W
    <3>1. f[W] = g[W] /\ f[W \ {y}] = g[W \ {y}] /\ W \in SUBSET U
      BY <1>2, <1>3, <2>1, <2>2
    <3> QED
      BY <1>1, <3>1
  <2>3. CASE x \in W /\ y = x
    <3>1. f[W] = v[x] + g[W \ {x}] /\ f[W \ {x}] = g[W \ {x}]
      BY <1>3, <2>1, <2>3
    <3> QED
      BY <2>3, <3>1
  <2>4. CASE x \in W /\ y # x
    <3> DEFINE V == W \ {x}
    <3>1. V \in SUBSET U /\ y \in V /\ V \ {y} \in SUBSET U
      BY <1>2, <2>4 DEF U
    <3>2. g[V] = v[y] + g[V \ {y}]
      BY <1>1, <3>1
    <3>3. f[W] = v[x] + g[V]
      BY <1>3, <2>4
    <3>4. f[W \ {y}] = v[x] + g[V \ {y}]
      <4>1. (W \ {y}) \ {x} = V \ {y} /\ x \in W \ {y}
        BY <2>4
      <4> QED
        BY <1>3, <2>1, <4>1
    <3>5. g[V \ {y}] \in Int /\ v[y] \in Int /\ v[x] \in Int
      BY <1>1, <3>1
    <3> HIDE DEF V
    <3> QED
      BY <3>2, <3>3, <3>4, <3>5
  <2> QED
    BY <2>2, <2>3, <2>4
<1> QED
  BY <1>4, <1>5, <1>6 DEF SumFunctions

LEMMA SumFunctionExists ==
  ASSUME NEW S, IsFiniteSet(S), NEW v, \A x \in S : v[x] \in Int
  PROVE  SumFunctions(v, S) # {}
<1> SUFFICES ASSUME SumFunctions(v, S) = {} PROVE FALSE
  OBVIOUS
<1> DEFINE Bad == {T \in SUBSET S : SumFunctions(v, T) = {}}
<1>1. Bad \in SUBSET SUBSET S /\ Bad # {}
  OBVIOUS
<1> HIDE DEF Bad
<1>2. PICK T \in Bad : \A U \in SUBSET T : U \in Bad => U = T
  BY <1>1, MinimalSubset
<1>3. CASE T = {}
  <2> DEFINE f == [W \in SUBSET T |-> 0]
  <2>1. f \in SumFunctions(v, T)
    BY <1>3 DEF SumFunctions
  <2> QED
    BY <2>1 DEF Bad
<1>4. CASE T # {}
  <2>1. PICK x \in T : TRUE
    BY <1>4
  <2>2. T \ {x} \notin Bad /\ T \ {x} \in SUBSET S /\ T \in SUBSET S
    BY <1>2, <2>1 DEF Bad
  <2>3. PICK g : g \in SumFunctions(v, T \ {x})
    BY <2>2 DEF Bad
  <2>4. SumFunctions(v, T) # {}
    BY <2>1, <2>2, <2>3, SumFunctionExtends
  <2> QED
    BY <2>4 DEF Bad
<1> QED
  BY <1>3, <1>4

(* What the orders of a set of slots add up to in a pool.                  *)
QtySum(p, S) == MapThenSumSet(LAMBDA s : p[s].qty, S)

LEMMA QtySumIsSum ==
  ASSUME NEW S, IsFiniteSet(S), NEW p, \A s \in S : p[s].qty \in Int,
         NEW f \in SumFunctions([s \in S |-> p[s].qty], S)
  PROVE  QtySum(p, S) = f[S]
<1> DEFINE Unfolds(h) ==
             h = [T \in SUBSET S |->
                    IF T = {} THEN 0
                    ELSE LET x == CHOOSE x \in T : TRUE
                         IN  p[x].qty + h[T \ {x}]]
           iter == CHOOSE h : Unfolds(h)
<1>1. QtySum(p, S) = iter[S]
  BY DEF QtySum, MapThenSumSet, MapThenFoldSet
<1>2. Unfolds(f)
  <2>1. /\ f \in [SUBSET S -> Int] /\ f[{}] = 0
        /\ \A T \in SUBSET S : \A x \in T :
             f[T] = [s \in S |-> p[s].qty][x] + f[T \ {x}]
    BY DEF SumFunctions
  <2>2. \A T \in SUBSET S : \A x \in T : f[T] = p[x].qty + f[T \ {x}]
    BY <2>1
  <2>3. \A T \in SUBSET S : T # {} => (CHOOSE x \in T : TRUE) \in T
    OBVIOUS
  <2>4. \A T \in SUBSET S :
          f[T] = IF T = {} THEN 0
                 ELSE LET x == CHOOSE x \in T : TRUE
                      IN  p[x].qty + f[T \ {x}]
    BY <2>1, <2>2, <2>3
  <2> QED
    BY <2>1, <2>4
<1>3. Unfolds(iter)
  BY <1>2
<1> HIDE DEF iter
<1>4. SUFFICES ASSUME iter[S] # f[S] PROVE FALSE
  BY <1>1
<1> DEFINE Bad == {T \in SUBSET S : iter[T] # f[T]}
<1>5. Bad \in SUBSET SUBSET S /\ Bad # {}
  BY <1>4
<1> HIDE DEF Bad
<1>6. PICK T \in Bad : \A U \in SUBSET T : U \in Bad => U = T
  BY <1>5, MinimalSubset
<1>7. \A U \in SUBSET S :
        /\ f[U] = IF U = {} THEN 0 ELSE LET x == CHOOSE x \in U : TRUE
                                        IN  p[x].qty + f[U \ {x}]
        /\ iter[U] = IF U = {} THEN 0 ELSE LET x == CHOOSE x \in U : TRUE
                                           IN  p[x].qty + iter[U \ {x}]
  BY <1>2, <1>3
<1>8. CASE T = {}
  BY <1>6, <1>7, <1>8 DEF Bad
<1>9. CASE T # {}
  <2> DEFINE x == CHOOSE x \in T : TRUE
  <2>1. x \in T
    BY <1>9
  <2>2. T \ {x} \notin Bad /\ T \ {x} \in SUBSET S
    BY <1>6, <2>1 DEF Bad
  <2>3. f[T \ {x}] = iter[T \ {x}]
    BY <2>2 DEF Bad
  <2>4. f[T] = p[x].qty + f[T \ {x}] /\ iter[T] = p[x].qty + iter[T \ {x}]
    BY <1>6, <1>7, <1>9 DEF Bad
  <2>5. f[T] = iter[T]
    BY <2>3, <2>4
  <2> QED
    BY <2>5 DEF Bad
<1> QED
  BY <1>8, <1>9

LEMMA QtySumType ==
  ASSUME NEW S, IsFiniteSet(S), NEW p, \A s \in S : p[s].qty \in Int
  PROVE  QtySum(p, S) \in Int
<1> DEFINE v == [s \in S |-> p[s].qty]
<1>1. \A s \in S : v[s] \in Int
  OBVIOUS
<1> HIDE DEF v
<1>2. PICK f : f \in SumFunctions(v, S)
  BY <1>1, SumFunctionExists
<1>3. QtySum(p, S) = f[S]
  BY <1>2, QtySumIsSum DEF v
<1> QED
  BY <1>2, <1>3 DEF SumFunctions

LEMMA QtySumOfNone ==
  ASSUME NEW p
  PROVE  QtySum(p, {}) = 0
<1> DEFINE v == [s \in {} |-> p[s].qty]
<1>1. PICK f : f \in SumFunctions(v, {})
  <2>1. \A s \in {} : v[s] \in Int
    OBVIOUS
  <2> HIDE DEF v
  <2> QED
    BY <2>1, SumFunctionExists, FS_EmptySet
<1>2. QtySum(p, {}) = f[{}]
  BY <1>1, QtySumIsSum, FS_EmptySet
<1> QED
  BY <1>1, <1>2 DEF SumFunctions

(* One element more adds its quantity.                                     *)
LEMMA QtySumSplit ==
  ASSUME NEW S, IsFiniteSet(S), NEW p, \A s \in S : p[s].qty \in Int, NEW x \in S
  PROVE  QtySum(p, S) = QtySum(p, S \ {x}) + p[x].qty
<1> DEFINE v == [s \in S |-> p[s].qty]
           R == S \ {x}
           w == [s \in R |-> p[s].qty]
<1>1. PICK f : f \in SumFunctions(v, S)
  <2>1. \A s \in S : v[s] \in Int
    OBVIOUS
  <2> HIDE DEF v
  <2> QED
    BY <2>1, SumFunctionExists
<1>2. /\ f \in [SUBSET S -> Int] /\ f[{}] = 0
      /\ \A T \in SUBSET S : \A y \in T : f[T] = p[y].qty + f[T \ {y}]
  BY <1>1 DEF SumFunctions
<1> DEFINE g == [T \in SUBSET R |-> f[T]]
<1>3. g \in SumFunctions(w, R)
  <2>1. g \in [SUBSET R -> Int] /\ g[{}] = 0
    BY <1>2
  <2>2. ASSUME NEW T \in SUBSET R, NEW y \in T PROVE g[T] = w[y] + g[T \ {y}]
    BY <1>2
  <2> HIDE DEF g, w, R
  <2> QED
    BY <2>1, <2>2 DEF SumFunctions
<1>4. QtySum(p, S) = f[S]
  BY <1>1, QtySumIsSum
<1>5. QtySum(p, R) = g[R]
  <2>1. IsFiniteSet(R) /\ \A s \in R : p[s].qty \in Int
    BY FS_Subset
  <2> HIDE DEF R, g
  <2> QED
    BY <1>3, <2>1, QtySumIsSum
<1>6. f[S] = p[x].qty + f[R] /\ f[R] \in Int /\ g[R] = f[R]
  BY <1>2
<1> QED
  BY <1>4, <1>5, <1>6

LEMMA QtySumAgrees ==
  ASSUME NEW S, IsFiniteSet(S), NEW p, \A s \in S : p[s].qty \in Int,
         NEW r, \A s \in S : r[s].qty = p[s].qty
  PROVE  QtySum(r, S) = QtySum(p, S)
<1>1. \A s \in S : r[s].qty \in Int
  OBVIOUS
<1>2. [s \in S |-> r[s].qty] = [s \in S |-> p[s].qty]
  OBVIOUS
<1> DEFINE v == [s \in S |-> p[s].qty]
<1>3. PICK f : f \in SumFunctions(v, S)
  <2>1. \A s \in S : v[s] \in Int
    OBVIOUS
  <2> HIDE DEF v
  <2> QED
    BY <2>1, SumFunctionExists
<1>4. QtySum(p, S) = f[S]
  BY <1>3, QtySumIsSum
<1>5. QtySum(r, S) = f[S]
  <2>1. f \in SumFunctions([s \in S |-> r[s].qty], S)
    BY <1>2, <1>3
  <2> QED
    BY <1>1, <2>1, QtySumIsSum
<1> QED
  BY <1>4, <1>5

(* Quantities are not negative, so a sum is at least that of any part.     *)
LEMMA QtySumNatural ==
  ASSUME NEW S, IsFiniteSet(S), NEW p, \A s \in S : p[s].qty \in Nat
  PROVE  QtySum(p, S) \in Nat
<1> SUFFICES ASSUME QtySum(p, S) \notin Nat PROVE FALSE
  OBVIOUS
<1> DEFINE Bad == {T \in SUBSET S : QtySum(p, T) \notin Nat}
<1>1. Bad \in SUBSET SUBSET S /\ Bad # {}
  OBVIOUS
<1> HIDE DEF Bad
<1>2. PICK T \in Bad : \A U \in SUBSET T : U \in Bad => U = T
  BY <1>1, MinimalSubset
<1>3. T \in SUBSET S /\ QtySum(p, T) \notin Nat /\ IsFiniteSet(T)
  BY <1>2, FS_Subset DEF Bad
<1>4. T # {}
  BY <1>3, QtySumOfNone
<1>5. PICK x \in T : TRUE
  BY <1>4
<1>6. QtySum(p, T \ {x}) \in Nat
  BY <1>2, <1>3, <1>5 DEF Bad
<1>7. \A s \in T : p[s].qty \in Int
  BY <1>3
<1>8. QtySum(p, T) = QtySum(p, T \ {x}) + p[x].qty
  BY <1>3, <1>7, QtySumSplit
<1>9. p[x].qty \in Nat
  BY <1>3
<1> QED
  BY <1>3, <1>6, <1>8, <1>9

-----------------------------------------------------------------------------
(* Arithmetic modulo the width of a volume.                                *)

LEMMA DivMod ==
  ASSUME NEW m \in Nat \ {0}, NEW a \in Int
  PROVE  a = m * (a \div m) + (a % m) /\ a \div m \in Int /\ a % m \in 0 .. m - 1
BY SMTT(20)

LEMMA OnlyMultiple ==
  ASSUME NEW m \in Nat \ {0}, NEW d \in Int, NEW e \in Int, m * d = e, -m < e, e < m
  PROVE  e = 0
<1>1. CASE d <= -1
  BY <1>1, SMTT(20)
<1>2. CASE d >= 1
  BY <1>2, SMTT(20)
<1> QED
  BY <1>1, <1>2

LEMMA ModAdd ==
  ASSUME NEW a \in Int, NEW b \in Int, NEW m \in Nat \ {0}
  PROVE  ((a % m) + b) % m = (a + b) % m
<1> DEFINE r == a % m
           x == (r + b) % m
           y == (a + b) % m
           i == a \div m
           j == (r + b) \div m
           k == (a + b) \div m
<1>1. a = m * i + r /\ i \in Int /\ r \in 0 .. m - 1
  BY DivMod
<1> HIDE DEF r, i
<1>2. r + b = m * j + x /\ j \in Int /\ x \in 0 .. m - 1
  BY <1>1, DivMod
<1>3. a + b = m * k + y /\ k \in Int /\ y \in 0 .. m - 1
  BY DivMod
<1> HIDE DEF x, y, j, k
<1>4. m * (k - i - j) = x - y
  <2>1. /\ m * (k - i - j) = m * k - m * i - m * j
        /\ m * k \in Int /\ m * i \in Int /\ m * j \in Int
    BY <1>1, <1>2, <1>3, SMTT(20)
  <2> QED
    BY <2>1, <1>1, <1>2, <1>3
<1>5. x - y = 0
  <2> DEFINE d == k - i - j
             e == x - y
  <2>1. d \in Int /\ e \in Int /\ -m < e /\ e < m /\ m * d = e
    BY <1>1, <1>2, <1>3, <1>4
  <2> HIDE DEF d, e
  <2>2. e = 0
    BY <2>1, OnlyMultiple
  <2> QED
    BY <2>2 DEF e
<1> QED
  BY <1>2, <1>3, <1>5 DEF x, y, r

-----------------------------------------------------------------------------
(* The volume of a level.                                                  *)

(* The slots whose order names a level, and what they add up to.           *)
NamedBy(P, side, i) ==
  {s \in Slots : P[s] # NULL /\ P[s].side = side /\ P[s].price = i}

LevelQty(P, side, i) == QtySum(P, NamedBy(P, side, i))

LEMMA NamedOrders ==
  ASSUME NEW P \in Pools, NEW side, NEW i
  PROVE  /\ IsFiniteSet(NamedBy(P, side, i))
         /\ NamedBy(P, side, i) \subseteq Slots
         /\ \A s \in NamedBy(P, side, i) : P[s].qty \in Nat /\ P[s].qty \in Int
<1>1. \A s \in NamedBy(P, side, i) : s \in Slots /\ P[s] \in Order
  BY DEF NamedBy, Pools
<1> QED
  BY <1>1, BookAssumption, FS_Subset DEF Order, NamedBy

LEMMA LevelQtyType ==
  ASSUME NEW P \in Pools, NEW side, NEW i
  PROVE  LevelQty(P, side, i) \in Nat
BY NamedOrders, QtySumNatural DEF LevelQty

LEMMA RemovalTakesQty ==
  ASSUME NEW P \in Pools, NEW s \in Slots, P[s] # NULL,
         NEW P2, P2[s] = NULL, \A t \in Slots \ {s} : P2[t] = P[t],
         NEW side, NEW i
  PROVE  LevelQty(P2, side, i) =
           IF side = P[s].side /\ i = P[s].price
           THEN LevelQty(P, side, i) - P[s].qty ELSE LevelQty(P, side, i)
<1> DEFINE R == NamedBy(P, side, i)
           R2 == NamedBy(P2, side, i)
<1>1. IsFiniteSet(R) /\ \A t \in R : P[t].qty \in Int
  BY NamedOrders
<1>2. R2 = R \ {s} /\ \A t \in R2 : P2[t].qty = P[t].qty
  BY DEF NamedBy, Pools
<1>3. s \in R <=> side = P[s].side /\ i = P[s].price
  BY DEF NamedBy
<1> HIDE DEF R, R2
<1>4. IsFiniteSet(R2) /\ \A t \in R2 : P[t].qty \in Int
  BY <1>1, <1>2, FS_Subset
<1>5. QtySum(P2, R2) = QtySum(P, R \ {s})
  BY <1>2, <1>4, QtySumAgrees
<1>6. CASE s \in R
  <2>1. QtySum(P, R) = QtySum(P, R \ {s}) + P[s].qty
    BY <1>1, <1>6, QtySumSplit
  <2>2. QtySum(P, R \ {s}) \in Int /\ P[s].qty \in Int
    BY <1>1, <1>2, <1>4, <1>6, QtySumType
  <2> QED
    BY <1>3, <1>5, <1>6, <2>1, <2>2 DEF LevelQty, R, R2
<1>7. CASE s \notin R
  <2>1. R \ {s} = R
    BY <1>7
  <2> QED
    BY <1>3, <1>5, <1>7, <2>1 DEF LevelQty, R, R2
<1> QED
  BY <1>6, <1>7

LEMMA ArrivalAddsQty ==
  ASSUME NEW P \in Pools, NEW s \in Slots, P[s] = NULL, NEW o \in Order,
         NEW P2 \in Pools, P2[s] = o, \A t \in Slots \ {s} : P2[t] = P[t],
         NEW side, NEW i
  PROVE  LevelQty(P2, side, i) =
           IF side = o.side /\ i = o.price
           THEN LevelQty(P, side, i) + o.qty ELSE LevelQty(P, side, i)
<1>1. P2[s] # NULL /\ \A t \in Slots \ {s} : P[t] = P2[t]
  BY NullAssumption
<1>2. LevelQty(P, side, i) =
        IF side = o.side /\ i = o.price
        THEN LevelQty(P2, side, i) - o.qty ELSE LevelQty(P2, side, i)
  <2>1. LevelQty(P, side, i) =
          IF side = P2[s].side /\ i = P2[s].price
          THEN LevelQty(P2, side, i) - P2[s].qty ELSE LevelQty(P2, side, i)
    BY <1>1, RemovalTakesQty
  <2> QED
    BY <2>1
<1>3. LevelQty(P2, side, i) \in Nat /\ LevelQty(P, side, i) \in Nat /\ o.qty \in Nat
  BY LevelQtyType DEF Order
<1> QED
  BY <1>2, <1>3

Shrinks(P, s, qty, P2) == P2 = [P EXCEPT ![s].qty = P[s].qty - qty]

LEMMA ReductionTakesQty ==
  ASSUME NEW P \in Pools, NEW s \in Slots, P[s] # NULL,
         NEW qty \in Nat, qty < P[s].qty,
         NEW P2, Shrinks(P, s, qty, P2), NEW side, NEW i
  PROVE  /\ P2 \in Pools
         /\ LevelQty(P2, side, i) =
              IF side = P[s].side /\ i = P[s].price
              THEN LevelQty(P, side, i) - qty ELSE LevelQty(P, side, i)
<1> DEFINE o  == P[s]
           o2 == [o EXCEPT !.qty = o.qty - qty]
           E  == [P EXCEPT ![s] = NULL]
<1>1. o \in Order /\ o.qty \in Nat
  BY DEF Pools, Order
<1>2. o2 \in Order /\ o2.side = o.side /\ o2.price = o.price /\ o2.qty = o.qty - qty
  BY <1>1 DEF Order
<1>3. P2 = [P EXCEPT ![s] = o2]
  BY DEF Pools, Shrinks
<1> HIDE DEF o2
<1>4. P2 \in Pools
  BY <1>2, <1>3 DEF Pools
<1>5. E \in Pools /\ E[s] = NULL
  BY DEF Pools
<1>6. /\ P2[s] = o2 /\ \A t \in Slots \ {s} : P2[t] = E[t]
      /\ \A t \in Slots \ {s} : E[t] = P[t]
  BY <1>3 DEF Pools
<1>7. LevelQty(E, side, i) =
        IF side = o.side /\ i = o.price
        THEN LevelQty(P, side, i) - o.qty ELSE LevelQty(P, side, i)
  <2> HIDE DEF E
  <2> QED
    BY <1>5, <1>6, RemovalTakesQty
<1> HIDE DEF E
<1>8. LevelQty(P2, side, i) =
        IF side = o2.side /\ i = o2.price
        THEN LevelQty(E, side, i) + o2.qty ELSE LevelQty(E, side, i)
  <2>1. /\ o2 \in Order /\ E \in Pools /\ E[s] = NULL /\ P2 \in Pools /\ P2[s] = o2
        /\ \A t \in Slots \ {s} : P2[t] = E[t]
    BY <1>2, <1>4, <1>5, <1>6
  <2> QED
    BY ONLY <2>1, s \in Slots, ArrivalAddsQty
<1>9. /\ LevelQty(P, side, i) \in Nat /\ LevelQty(E, side, i) \in Nat
      /\ LevelQty(P2, side, i) \in Nat
  BY <1>4, <1>5, LevelQtyType
<1> QED
  BY <1>1, <1>2, <1>4, <1>7, <1>8, <1>9

(* total_volume against the pool.                                          *)
VolumesMatch(P, V) ==
  /\ V \in [Side -> [Idx -> Nat]]
  /\ \A side \in Side, i \in Idx :
       V[side][i] = LevelQty(P, side, i) % VolumeMod

(* What += and -= make of one volume.                                      *)
Adds(V, sd, k, d, V2) == V2 = [V EXCEPT ![sd][k] = (V[sd][k] + d) % VolumeMod]

(* += and -= keep it when the orders of that level gain or lose as much.   *)
LEMMA VolumeFollows ==
  ASSUME NEW P, NEW V, VolumesMatch(P, V), NEW P2,
         NEW sd \in Side, NEW k \in Idx, NEW d \in Int,
         NEW V2, Adds(V, sd, k, d, V2),
         \A side \in Side, i \in Idx : LevelQty(P, side, i) \in Nat,
         \A side \in Side, i \in Idx :
           LevelQty(P2, side, i) = IF side = sd /\ i = k
                                   THEN LevelQty(P, side, i) + d
                                   ELSE LevelQty(P, side, i)
  PROVE  VolumesMatch(P2, V2)
<1>1. VolumeMod \in Nat \ {0}
  BY BookAssumption
<1>2. V[sd][k] = LevelQty(P, sd, k) % VolumeMod /\ LevelQty(P, sd, k) \in Int
  BY DEF VolumesMatch
<1> DEFINE n == (V[sd][k] + d) % VolumeMod
<1>3. n = (LevelQty(P, sd, k) + d) % VolumeMod
  BY <1>1, <1>2, ModAdd
<1>4. n \in Nat
  <2>1. LevelQty(P, sd, k) + d \in Int
    BY <1>2
  <2> QED
    BY <1>1, <1>3, <2>1, DivMod
<1> HIDE DEF n
<1>5. V2 = [V EXCEPT ![sd][k] = n]
  BY DEF n, Adds
<1>6. V2 \in [Side -> [Idx -> Nat]]
  BY <1>4, <1>5 DEF VolumesMatch
<1>7. ASSUME NEW side \in Side, NEW i \in Idx
      PROVE  V2[side][i] = LevelQty(P2, side, i) % VolumeMod
  <2>1. CASE side = sd /\ i = k
    BY <1>3, <1>5, <2>1 DEF VolumesMatch
  <2>2. CASE ~ (side = sd /\ i = k)
    BY <1>5, <2>2 DEF VolumesMatch
  <2> QED
    BY <2>1, <2>2
<1> QED
  BY <1>6, <1>7 DEF VolumesMatch

LEMMA QuantityOfLevel ==
  ASSUME IInv, NEW side \in Side, NEW i \in Idx
  PROVE  QuantityOf(queue[side][i]) = LevelQty(pool, side, i)
<1>1. QuantityOf(queue[side][i]) = QtySum(pool, Range(queue[side][i]))
  BY DEF QuantityOf, QtySum
<1>2. Range(queue[side][i]) = NamedBy(pool, side, i)
  BY DEF IInv, Shelves, Partition, NamedBy
<1> QED
  BY <1>1, <1>2 DEF LevelQty

LEMMA SlideMovesVolumes ==
  ASSUME IInv, IInv', NEW new_base \in Nat, rebase_base(new_base)
  PROVE  VolumesMatch(pool', total_volume')
<1>1. PICK d \in Int : \A s \in Live' : pool'[s] = Relabelled(pool[s], d)
  BY SlideMovesLists
<1>2. total_volume' = [side \in Side |-> [i \in Idx |->
                         QuantityOf(queue'[side][i]) % VolumeMod]]
  BY DEF rebase_base, VolumeOf
<1>3. pool \in Pools /\ pool' \in Pools
  BY DEF IInv, TypeOK, Pools
<1>4. ASSUME NEW side \in Side, NEW i \in Idx
      PROVE  QuantityOf(queue'[side][i]) = LevelQty(pool', side, i)
  <2> DEFINE R == NamedBy(pool', side, i)
  <2>1. QuantityOf(queue'[side][i]) = QtySum(pool, Range(queue'[side][i]))
    BY DEF QuantityOf, QtySum
  <2>2. Range(queue'[side][i]) = R
    BY DEF IInv, Shelves, Partition, NamedBy
  <2>3. IsFiniteSet(R) /\ \A s \in R : pool'[s].qty \in Int
    BY <1>3, NamedOrders
  <2>4. ASSUME NEW s \in R PROVE pool[s].qty = pool'[s].qty
    <3>1. s \in Slots /\ s \in Live' /\ pool'[s] # NULL
      BY DEF NamedBy, Live
    <3>2. pool'[s] = Relabelled(pool[s], d)
      BY <1>1, <3>1
    <3>3. pool[s] # NULL
      BY <3>1 DEF rebase_base
    <3>4. pool[s] \in Order
      BY <1>3, <3>1, <3>3 DEF Pools
    <3> QED
      BY <3>2, <3>4 DEF Relabelled, Order
  <2> HIDE DEF R
  <2>5. QtySum(pool, R) = QtySum(pool', R)
    BY <2>3, <2>4, QtySumAgrees
  <2> QED
    BY <2>1, <2>2, <2>5 DEF LevelQty, R
<1>5. \A side \in Side, i \in Idx :
        LevelQty(pool', side, i) % VolumeMod \in Nat
  <2> SUFFICES ASSUME NEW side \in Side, NEW i \in Idx
               PROVE  LevelQty(pool', side, i) % VolumeMod \in Nat
    OBVIOUS
  <2>1. LevelQty(pool', side, i) \in Int /\ VolumeMod \in Nat \ {0}
    BY <1>3, LevelQtyType, BookAssumption
  <2> QED
    BY <2>1, DivMod
<1>6. total_volume' = [side \in Side |-> [i \in Idx |->
                         LevelQty(pool', side, i) % VolumeMod]]
  BY <1>2, <1>4
<1> QED
  BY <1>5, <1>6 DEF VolumesMatch

LEMMA EffectKeepsVolumes ==
  ASSUME IInv, IInv', VolumesMatch(pool, total_volume), Effect
  PROVE  VolumesMatch(pool', total_volume')
<1>1. pool \in Pools /\ pool' \in Pools
  BY DEF IInv, TypeOK, Pools
<1>2. \A side \in Side, i \in Idx : LevelQty(pool, side, i) \in Nat
  BY <1>1, LevelQtyType
<1>3. total_volume \in [Side -> [Idx -> Nat]]
  BY DEF VolumesMatch
<1>4. CASE Untouched
  BY <1>4 DEF Untouched
<1>5. CASE Removal
  <2>1. PICK s \in Slots : pool[s] # NULL /\ RemoveOrder(s)
    BY <1>5 DEF Removal
  <2>2. PICK o \in Order : o = pool[s]
    BY <1>1, <2>1 DEF Pools
  <2>3. o.side \in Side /\ o.price \in Idx /\ o.qty \in Nat /\ -o.qty \in Int
    BY DEF Order
  <2>4. /\ pool'[s] = NULL /\ \A t \in Slots \ {s} : pool'[t] = pool[t]
        /\ total_volume' = [total_volume EXCEPT ![o.side][o.price] =
                              (total_volume[o.side][o.price] - o.qty) % VolumeMod]
    BY <1>1, <2>1, <2>2 DEF RemoveOrder, level_remove, Pools
  <2>5. Adds(total_volume, o.side, o.price, -o.qty, total_volume')
    <3>1. total_volume[o.side][o.price] - o.qty =
            total_volume[o.side][o.price] + (-o.qty)
      BY <1>3, <2>3
    <3> QED
      BY <2>4, <3>1 DEF Adds
  <2>6. ASSUME NEW side \in Side, NEW i \in Idx
        PROVE  LevelQty(pool', side, i) =
                 IF side = o.side /\ i = o.price
                 THEN LevelQty(pool, side, i) + (-o.qty)
                 ELSE LevelQty(pool, side, i)
    <3>1. LevelQty(pool', side, i) =
            IF side = pool[s].side /\ i = pool[s].price
            THEN LevelQty(pool, side, i) - pool[s].qty
            ELSE LevelQty(pool, side, i)
      BY <1>1, <2>1, <2>4, RemovalTakesQty
    <3> QED
      BY <1>2, <2>2, <2>3, <3>1
  <2> QED
    BY <1>2, <2>3, <2>5, <2>6, VolumeFollows
<1>6. CASE Reduction
  <2>1. PICK s \in Slots, qty \in Nat :
          pool[s] # NULL /\ qty < pool[s].qty /\ ReduceOrder(s, qty)
    BY <1>6 DEF Reduction
  <2>2. PICK o \in Order : o = pool[s]
    BY <1>1, <2>1 DEF Pools
  <2>3. o.side \in Side /\ o.price \in Idx /\ -qty \in Int
    BY DEF Order
  <2>4. /\ Shrinks(pool, s, qty, pool')
        /\ total_volume' = [total_volume EXCEPT ![o.side][o.price] =
                              (total_volume[o.side][o.price] - qty) % VolumeMod]
    BY <2>1, <2>2 DEF ReduceOrder, Shrinks
  <2>5. Adds(total_volume, o.side, o.price, -qty, total_volume')
    <3>1. total_volume[o.side][o.price] - qty =
            total_volume[o.side][o.price] + (-qty)
      BY <1>3, <2>3
    <3> QED
      BY <2>4, <3>1 DEF Adds
  <2>6. ASSUME NEW side \in Side, NEW i \in Idx
        PROVE  LevelQty(pool', side, i) =
                 IF side = o.side /\ i = o.price
                 THEN LevelQty(pool, side, i) + (-qty)
                 ELSE LevelQty(pool, side, i)
    <3>1. LevelQty(pool', side, i) =
            IF side = pool[s].side /\ i = pool[s].price
            THEN LevelQty(pool, side, i) - qty
            ELSE LevelQty(pool, side, i)
      BY <1>1, <2>1, <2>4, ReductionTakesQty
    <3> QED
      BY <1>2, <2>2, <3>1
  <2> QED
    BY <1>2, <2>3, <2>5, <2>6, VolumeFollows
<1>7. CASE Arrival
  <2>1. PICK s \in Slots, o \in Order :
          /\ pool[s] = NULL /\ pool' = [pool EXCEPT ![s] = o]
          /\ total_volume' = [total_volume EXCEPT ![o.side][o.price] =
                                (total_volume[o.side][o.price] + o.qty) % VolumeMod]
    BY <1>7 DEF Arrival
  <2>2. o.side \in Side /\ o.price \in Idx /\ o.qty \in Int
    BY DEF Order
  <2>3. /\ pool'[s] = o /\ \A t \in Slots \ {s} : pool'[t] = pool[t]
        /\ Adds(total_volume, o.side, o.price, o.qty, total_volume')
    BY <1>1, <2>1 DEF Pools, Adds
  <2>4. ASSUME NEW side \in Side, NEW i \in Idx
        PROVE  LevelQty(pool', side, i) =
                 IF side = o.side /\ i = o.price
                 THEN LevelQty(pool, side, i) + o.qty
                 ELSE LevelQty(pool, side, i)
    <3>1. pool[s] = NULL /\ s \in Slots
      BY <2>1
    <3> QED
      BY <1>1, <2>3, <3>1, ArrivalAddsQty
  <2> QED
    BY <1>2, <2>2, <2>3, <2>4, VolumeFollows
<1>8. CASE Slide
  BY <1>8, SlideMovesVolumes DEF Slide
<1> QED
  BY <1>4, <1>5, <1>6, <1>7, <1>8 DEF Effect

LEMMA VolumesAlwaysMatch == Spec => []VolumesMatch(pool, total_volume)
<1>1. Init => VolumesMatch(pool, total_volume)
  <2> SUFFICES ASSUME Init PROVE VolumesMatch(pool, total_volume)
    OBVIOUS
  <2>1. \A side \in Side, i \in Idx :
          LevelQty(pool, side, i) % VolumeMod = 0
    <3> SUFFICES ASSUME NEW side \in Side, NEW i \in Idx
                 PROVE  LevelQty(pool, side, i) % VolumeMod = 0
      OBVIOUS
    <3>1. NamedBy(pool, side, i) = {}
      BY DEF Init, NamedBy
    <3>2. LevelQty(pool, side, i) = 0
      BY <3>1, QtySumOfNone DEF LevelQty
    <3> QED
      BY <3>2, BookAssumption
  <2> QED
    BY <2>1 DEF Init, VolumesMatch
<1>2. IInv /\ IInv' /\ VolumesMatch(pool, total_volume) /\ [Next]_vars =>
        VolumesMatch(pool, total_volume)'
  BY StepEffect, EffectKeepsVolumes
<1> QED
  BY <1>1, <1>2, InvariantHolds, PTL DEF Spec

LEMMA MatchingVolumesAreExact ==
  ASSUME IInv, VolumesMatch(pool, total_volume)
  PROVE  VolumeExact
BY QuantityOfLevel DEF VolumesMatch, VolumeExact, VolumeOf

(* Every occupied level carries the price its index stands for, and every  *)
(* total_volume is the sum of the quantities queued, modulo its width:     *)
(* through +=, -= and the recomputation of a slide.                        *)
THEOREM LevelsStayExact == Spec => []LevelsExact
<1>1. IInv /\ VolumesMatch(pool, total_volume) => LevelsExact
  BY MatchingVolumesAreExact DEF LevelsExact, IInv, Shelves
<1> QED
  BY <1>1, InvariantHolds, VolumesAlwaysMatch, PTL

-----------------------------------------------------------------------------
(* What a step does to the cached top of book.                             *)

Shrink(s) ==
  \/ RemoveOrder(s)
  \/ \E qty \in Nat : qty < pool[s].qty /\ ReduceOrder(s, qty)

(* Nothing changes but the base of an empty book and the call on its way.  *)
QuietStep ==
  /\ UNCHANGED <<pool, queue, tob>>
  /\ base' = base \/ \A s \in Slots : pool[s] = NULL
  /\ taker = NULL \/ taker' = taker \/ ~ Crosses(taker)

(* An order leaves or gives up quantity, and the top of its level is       *)
(* refreshed: a call on one order, or the last fill of a level or a taker. *)
RefreshedStep ==
  \E s \in Slots :
    /\ pool[s] # NULL /\ Shrink(s) /\ base' = base
    /\ RefreshTop(pool[s].side, pool[s].price)
    /\ taker # NULL => /\ pool[s].side = Opposite(taker.side)
                       /\ pool[s].price = best[pool[s].side]

(* A fill after which the inner loop goes on.                              *)
FillStep ==
  \E s \in Slots :
    /\ pool[s] # NULL /\ Shrink(s) /\ base' = base
    /\ UNCHANGED tob /\ queue'[pool[s].side][pool[s].price] # <<>>
    /\ taker # NULL /\ Crosses(taker) /\ taker' # NULL
    /\ taker'.side = taker.side /\ taker'.limit = taker.limit
    /\ pool[s].side = Opposite(taker.side)
    /\ pool[s].price = best[pool[s].side]

SlideStep == \E new_base \in Nat : new_base # base /\ rebase_base(new_base)

TopStep == QuietStep \/ RefreshedStep \/ FillStep \/ RestRemainder \/ SlideStep

LEMMA InsertTopStep ==
  ASSUME IInv, NEW id \in Ids, NEW side \in Side, NEW price \in Prices,
         NEW qty \in Quantities, insert_limit_order(id, side, price, qty)
  PROVE  QuietStep \/ SlideStep
<1>1. price \in Nat /\ taker = NULL
  BY BookAssumption DEF insert_limit_order
<1>2. CASE AcceptInBand(id, side, price, qty) \/ RejectOutOfBand(price)
  <2>1. Untouched \/ Slide
    BY InsertEffect
  <2>2. UNCHANGED <<pool, queue, tob>>
    BY <1>2 DEF AcceptInBand, RejectOutOfBand, levels
  <2>3. base' = base \/ ~ base_set
    BY <1>2 DEF AcceptInBand, AnchoredBase, RejectOutOfBand
  <2>4. ASSUME ~ base_set, NEW s \in Slots PROVE pool[s] = NULL
    <3> SUFFICES ASSUME pool[s] # NULL PROVE FALSE
      OBVIOUS
    <3>1. pool[s].side \in Side /\ pool[s].price \in Idx
      BY DEF IInv, TypeOK, Order
    <3>2. queue[pool[s].side][pool[s].price] # <<>>
      BY <3>1, OccupiedRange DEF IInv, Shelves, Partition
    <3> QED
      BY <2>4, <3>1, <3>2 DEF IInv, AnchoredFirst
  <2> QED
    BY <1>1, <2>2, <2>3, <2>4 DEF QuietStep
<1>3. CASE AcceptAfterRebase(id, side, price, qty)
  <2>1. /\ rebase_base(Centred(price)) /\ price - AnchoredBase(price) \notin Idx
    BY <1>3 DEF AcceptAfterRebase
  <2>2. Centred(price) \in Nat /\ price - Centred(price) \in Idx
    BY <1>1, CentredInWindow
  <2>3. Centred(price) # base
    BY <2>1, <2>2 DEF AnchoredBase
  <2> QED
    BY <2>1, <2>2, <2>3 DEF SlideStep
<1> QED
  BY <1>2, <1>3 DEF insert_limit_order

LEMMA MatchTopStep ==
  ASSUME IInv, taker # NULL, Crosses(taker), NEW maker \in Side,
         maker = Opposite(taker.side), best[maker] # NoLevel, Match(maker)
  PROVE  RefreshedStep \/ FillStep
<1> DEFINE i    == best[maker]
           s    == Head(queue[maker][i])
           qty  == Min({taker.left, pool[s].qty})
           left == taker.left - qty
<1>1. /\ s \in Slots /\ pool[s] # NULL /\ pool[s] \in Order
      /\ pool[s].side = maker /\ pool[s].price = i
  BY HeadOfBestRests
<1>2. taker.left \in Nat \ {0} /\ pool[s].qty \in Nat \ {0} /\ taker \in Takers
  BY <1>1 DEF IInv, TypeOK, Takers, Order
<1>3. /\ IF qty = pool[s].qty THEN RemoveOrder(s) ELSE ReduceOrder(s, qty)
      /\ IF left = 0 \/ queue'[maker][i] = <<>>
         THEN RefreshTop(maker, i) ELSE UNCHANGED tob
      /\ taker' = IF left = 0 THEN NULL ELSE [taker EXCEPT !.left = left]
      /\ base' = base
  BY DEF Match, window
<1> HIDE DEF s
<1>4. qty \in Nat /\ qty <= pool[s].qty /\ qty <= taker.left
  BY <1>2, MinOfTwo
<1> HIDE DEF qty
<1>5. (qty # pool[s].qty => qty < pool[s].qty) /\ left \in Nat
  BY <1>2, <1>4
<1>6. Shrink(s)
  BY <1>3, <1>4, <1>5 DEF Shrink
<1> HIDE DEF left
<1>7. CASE left = 0 \/ queue'[maker][i] = <<>>
  <2>1. RefreshTop(pool[s].side, pool[s].price)
    BY <1>1, <1>3, <1>7
  <2> QED
    BY <1>1, <1>3, <1>6, <2>1 DEF RefreshedStep
<1>8. CASE ~ (left = 0 \/ queue'[maker][i] = <<>>)
  <2>1. UNCHANGED tob /\ queue'[pool[s].side][pool[s].price] # <<>>
    BY <1>1, <1>3, <1>8
  <2>2. taker' = [taker EXCEPT !.left = left]
    BY <1>3, <1>8
  <2>3. taker' # NULL /\ taker'.side = taker.side /\ taker'.limit = taker.limit
    <3>1. left \in Nat \ {0}
      BY <1>5, <1>8
    <3>2. taker' \in Takers
      BY <1>2, <2>2, <3>1 DEF Takers
    <3> QED
      BY <1>2, <2>2, <3>2, NullAssumption DEF Takers
  <2> QED
    BY <1>1, <1>3, <1>6, <2>1, <2>3 DEF FillStep
<1> QED
  BY <1>7, <1>8

LEMMA CallTopStep ==
  ASSUME IInv, NEW id \in Ids, NEW qty \in Nat,
         cancel_order(id) \/ execute_order(id, qty) \/ reduce_order_qty(id, qty)
  PROVE  RefreshedStep
<1> DEFINE s == id_map[id]
<1>1. id_map[id] # NULL /\ taker = NULL
  BY DEF cancel_order, execute_order, reduce_order_qty
<1>2. s \in Slots /\ pool[s] # NULL /\ pool[s] \in Order
  BY <1>1, KnownIdRests
<1>3. /\ base' = base
      /\ \/ RemoveOrder(s)
         \/ ~ (qty >= pool[s].qty) /\ ReduceOrder(s, qty)
      /\ RefreshTop(pool[s].side, pool[s].price)
  <2>1. CASE cancel_order(id)
    BY <2>1 DEF cancel_order, window
  <2>2. CASE execute_order(id, qty)
    BY <2>2 DEF execute_order, window
  <2>3. CASE reduce_order_qty(id, qty)
    BY <2>3 DEF reduce_order_qty, window
  <2> QED
    BY <2>1, <2>2, <2>3
<1>4. qty >= pool[s].qty \/ qty < pool[s].qty
  BY <1>2 DEF Order
<1> HIDE DEF s
<1> QED
  BY <1>1, <1>2, <1>3, <1>4 DEF RefreshedStep, Shrink

LEMMA EveryTopStep == IInv /\ [Next]_vars => TopStep
<1> SUFFICES ASSUME IInv, [Next]_vars PROVE TopStep
  OBVIOUS
<1>1. ASSUME NEW id \in Ids, NEW side \in Side, NEW price \in Prices,
             NEW qty \in Quantities, insert_limit_order(id, side, price, qty)
      PROVE  TopStep
  BY <1>1, InsertTopStep DEF TopStep
<1>2. ASSUME NEW side \in Side, NEW qty \in Quantities,
             process_market_order(side, qty)
      PROVE  TopStep
  BY <1>2 DEF process_market_order, window, levels, QuietStep, TopStep
<1>3. ASSUME NEW id \in Ids, cancel_order(id) PROVE TopStep
  BY <1>3, CallTopStep DEF TopStep
<1>4. ASSUME NEW id \in Ids, NEW qty \in Quantities,
             execute_order(id, qty) \/ reduce_order_qty(id, qty)
      PROVE  TopStep
  BY <1>4, CallTopStep, BookAssumption DEF TopStep
<1>5. CASE match_against_asks
  BY <1>5, CrossedBestExists, MatchTopStep
     DEF match_against_asks, Opposite, Side, TopStep
<1>6. CASE match_against_bids
  BY <1>6, CrossedBestExists, MatchTopStep
     DEF match_against_bids, Opposite, Side, TopStep
<1>7. CASE RestRemainder
  BY <1>7 DEF TopStep
<1>8. CASE DiscardRemainder
  BY <1>8 DEF DiscardRemainder, window, levels, QuietStep, TopStep
<1>9. CASE UNCHANGED vars
  BY <1>9 DEF vars, window, levels, QuietStep, TopStep
<1> QED
  BY <1>1, <1>2, <1>3, <1>4, <1>5, <1>6, <1>7, <1>8, <1>9
     DEF Next, Call, Continue

(* Only the level of the order changes.                                    *)
LEMMA ShrinkStaysLocal ==
  ASSUME IInv, NEW s \in Slots, pool[s] # NULL, Shrink(s), base' = base
  PROVE  /\ pool[s].side \in Side /\ pool[s].price \in Idx
         /\ \A sd \in Side, j \in Idx :
              sd # pool[s].side \/ j # pool[s].price =>
                /\ queue'[sd][j] = queue[sd][j]
                /\ LevelQty(pool', sd, j) = LevelQty(pool, sd, j)
<1>1. TypeOK /\ Shelves /\ pool \in Pools
  BY DEF IInv, TypeOK, Pools
<1>2. pool[s].side \in Side /\ pool[s].price \in Idx
  BY <1>1 DEF Pools, Order
<1>3. CASE RemoveOrder(s)
  <2>1. \A sd \in Side, j \in Idx :
          sd # pool[s].side \/ j # pool[s].price => queue'[sd][j] = queue[sd][j]
    BY <1>1, <1>3, RemoveOrderKeepsShelves
  <2>2. pool'[s] = NULL /\ \A t \in Slots \ {s} : pool'[t] = pool[t]
    BY <1>1, <1>3 DEF RemoveOrder, Pools
  <2>3. \A sd \in Side, j \in Idx :
          sd # pool[s].side \/ j # pool[s].price =>
            LevelQty(pool', sd, j) = LevelQty(pool, sd, j)
    BY <1>1, <2>2, RemovalTakesQty
  <2> QED
    BY <1>2, <2>1, <2>3
<1>4. ASSUME NEW qty \in Nat, qty < pool[s].qty, ReduceOrder(s, qty)
      PROVE  \A sd \in Side, j \in Idx :
               sd # pool[s].side \/ j # pool[s].price =>
                 /\ queue'[sd][j] = queue[sd][j]
                 /\ LevelQty(pool', sd, j) = LevelQty(pool, sd, j)
  <2>1. queue' = queue /\ Shrinks(pool, s, qty, pool')
    BY <1>4 DEF ReduceOrder, Shrinks
  <2>2. \A sd \in Side, j \in Idx :
          sd # pool[s].side \/ j # pool[s].price =>
            LevelQty(pool', sd, j) = LevelQty(pool, sd, j)
    BY <1>1, <1>4, <2>1, ReductionTakesQty
  <2> QED
    BY <2>1, <2>2
<1> QED
  BY <1>2, <1>3, <1>4 DEF Shrink

(* The cached quantity of a side against the orders at its cached best.    *)
RestsAt(P, b, side) == IF b[side] = NoLevel THEN 0 ELSE LevelQty(P, side, b[side])
Covered(P, b, n, side) == n[side] <= RestsAt(P, b, side)

(* It may overstate only on the side a matching call is working on.        *)
TopInv ==
  /\ best_qty \in [Side -> Nat]
  /\ \A side \in Side :
       \/ Covered(pool, best, best_qty, side)
       \/ taker # NULL /\ side = Opposite(taker.side) /\ Crosses(taker)

LEMMA NoLevelIsNoIndex == NoLevel \notin Idx
BY BookAssumption DEF NoLevel, Idx

LEMMA ModIsLess ==
  ASSUME NEW a \in Nat
  PROVE  a % VolumeMod \in Nat /\ a % VolumeMod <= a
<1>1. VolumeMod \in Nat \ {0}
  BY BookAssumption
<1> DEFINE q == a \div VolumeMod
           r == a % VolumeMod
<1>2. a = VolumeMod * q + r /\ q \in Int /\ r \in 0 .. VolumeMod - 1
  BY <1>1, DivMod
<1> HIDE DEF q, r
<1>3. r <= a
  <2>1. q >= 0
    <3> SUFFICES ASSUME q <= -1 PROVE FALSE
      BY <1>2
    <3>1. VolumeMod * q <= -VolumeMod /\ VolumeMod * q \in Int
      BY <1>1, <1>2, SMTT(20)
    <3> QED
      BY <1>1, <1>2, <3>1
  <2>2. VolumeMod * q >= 0 /\ VolumeMod * q \in Int
    BY <1>1, <1>2, <2>1, SMTT(20)
  <2> QED
    BY <1>1, <1>2, <2>2
<1> QED
  BY <1>1, <1>2, <1>3 DEF r

(* A refreshed quantity is covered.                                        *)
LEMMA FreshIsCovered ==
  ASSUME NEW P \in Pools, NEW V, VolumesMatch(P, V),
         NEW b \in [Side -> Idx \union {NoLevel}], NEW n, NEW side \in Side,
         n[side] = VolumeAt(V[side], b[side])
  PROVE  n[side] \in Nat /\ Covered(P, b, n, side)
<1>1. CASE b[side] = NoLevel
  BY <1>1 DEF VolumeAt, Covered, RestsAt
<1>2. CASE b[side] # NoLevel
  <2>1. b[side] \in Idx
    BY <1>2
  <2>2. n[side] = LevelQty(P, side, b[side]) % VolumeMod
    BY <1>2, <2>1 DEF VolumeAt, VolumesMatch
  <2>3. LevelQty(P, side, b[side]) \in Nat
    BY LevelQtyType
  <2> QED
    BY <1>2, <2>2, <2>3, ModIsLess DEF Covered, RestsAt
<1> QED
  BY <1>1, <1>2

LEMMA TopStepKeepsTopInv ==
  ASSUME IInv, IInv', VolumesMatch(pool, total_volume),
         VolumesMatch(pool', total_volume'), TopInv, TopStep
  PROVE  TopInv'
<1>1. /\ pool \in Pools /\ pool' \in Pools
      /\ best \in [Side -> Idx \union {NoLevel}]
      /\ best' \in [Side -> Idx \union {NoLevel}]
      /\ best_qty \in [Side -> Nat]
      /\ taker \in Takers \union {NULL}
  BY DEF IInv, TypeOK, Pools, TopInv
<1>2. CASE QuietStep
  <2>1. UNCHANGED <<pool, best, best_qty>>
    BY <1>2 DEF QuietStep, tob
  <2>2. queue' = queue
    BY <1>2 DEF QuietStep
  <2>3. ASSUME NEW side \in Side,
               taker # NULL /\ side = Opposite(taker.side) /\ Crosses(taker)
        PROVE  taker' # NULL /\ side = Opposite(taker'.side) /\ Crosses(taker)'
    <3>1. taker' = taker
      BY <1>2, <2>3 DEF QuietStep
    <3> QED
      BY <2>1, <2>2, <2>3, <3>1 DEF Crosses
  <2> QED
    BY <1>1, <2>1, <2>3 DEF TopInv
<1>3. CASE RefreshedStep
  <2>1. PICK s \in Slots :
          /\ pool[s] # NULL /\ Shrink(s) /\ base' = base
          /\ RefreshTop(pool[s].side, pool[s].price)
          /\ taker # NULL => /\ pool[s].side = Opposite(taker.side)
                             /\ pool[s].price = best[pool[s].side]
    BY <1>3 DEF RefreshedStep
  <2>2. /\ pool[s].side \in Side /\ pool[s].price \in Idx
        /\ \A sd \in Side, j \in Idx :
             sd # pool[s].side \/ j # pool[s].price =>
               LevelQty(pool', sd, j) = LevelQty(pool, sd, j)
    BY <2>1, ShrinkStaysLocal
  <2>3. CASE pool[s].price = best[pool[s].side]
    <3>1. /\ \A sd \in Side : sd # pool[s].side =>
               best'[sd] = best[sd] /\ best_qty'[sd] = best_qty[sd]
          /\ best_qty' = [best_qty EXCEPT ![pool[s].side] =
               VolumeAt(total_volume'[pool[s].side], best'[pool[s].side])]
      BY <1>1, <2>1, <2>3 DEF RefreshTop
    <3>2. best_qty'[pool[s].side] =
            VolumeAt(total_volume'[pool[s].side], best'[pool[s].side])
      BY <1>1, <2>2, <3>1
    <3>3. /\ best_qty'[pool[s].side] \in Nat
          /\ Covered(pool', best', best_qty', pool[s].side)
      BY <1>1, <2>2, <3>2, FreshIsCovered
    <3>4. ASSUME NEW sd \in Side, sd # pool[s].side
          PROVE  Covered(pool', best', best_qty', sd)
      <4>1. Covered(pool, best, best_qty, sd)
        BY <2>1, <3>4 DEF TopInv
      <4>2. best[sd] # NoLevel => best[sd] \in Idx
        BY <1>1
      <4> QED
        BY <2>2, <3>1, <3>4, <4>1, <4>2 DEF Covered, RestsAt
    <3>5. best_qty' \in [Side -> Nat]
      BY <1>1, <2>2, <3>1, <3>2, <3>3
    <3> QED
      BY <3>3, <3>4, <3>5 DEF TopInv
  <2>4. CASE pool[s].price # best[pool[s].side]
    <3>1. UNCHANGED <<best, best_qty>> /\ taker = NULL
      BY <2>1, <2>4 DEF RefreshTop, tob
    <3>2. ASSUME NEW sd \in Side PROVE Covered(pool', best', best_qty', sd)
      <4>1. Covered(pool, best, best_qty, sd)
        BY <3>1 DEF TopInv
      <4>2. best[sd] # NoLevel => best[sd] \in Idx
        BY <1>1
      <4> QED
        BY <2>2, <2>4, <3>1, <4>1, <4>2 DEF Covered, RestsAt
    <3> QED
      BY <1>1, <3>1, <3>2 DEF TopInv
  <2> QED
    BY <2>3, <2>4
<1>4. CASE FillStep
  <2>1. PICK s \in Slots :
          /\ pool[s] # NULL /\ Shrink(s) /\ base' = base
          /\ UNCHANGED tob /\ queue'[pool[s].side][pool[s].price] # <<>>
          /\ taker # NULL /\ Crosses(taker) /\ taker' # NULL
          /\ taker'.side = taker.side /\ taker'.limit = taker.limit
          /\ pool[s].side = Opposite(taker.side)
          /\ pool[s].price = best[pool[s].side]
    BY <1>4 DEF FillStep
  <2>2. /\ pool[s].side \in Side /\ pool[s].price \in Idx
        /\ \A sd \in Side, j \in Idx :
             sd # pool[s].side \/ j # pool[s].price =>
               LevelQty(pool', sd, j) = LevelQty(pool, sd, j)
    BY <2>1, ShrinkStaysLocal
  <2>3. UNCHANGED <<best, best_qty>>
    BY <2>1 DEF tob
  <2>4. Crosses(taker)'
    <3>1. taker.side = "BUY" => Opposite(taker.side) = "SELL"
      BY DEF Opposite
    <3>2. taker.side # "BUY" => Opposite(taker.side) = "BUY"
      BY DEF Opposite
    <3> QED
      BY <2>1, <2>3, <3>1, <3>2 DEF Crosses
  <2>5. ASSUME NEW sd \in Side, sd # pool[s].side
        PROVE  Covered(pool', best', best_qty', sd)
    <3>1. Covered(pool, best, best_qty, sd)
      BY <2>1, <2>5 DEF TopInv
    <3>2. best[sd] # NoLevel => best[sd] \in Idx
      BY <1>1
    <3> QED
      BY <2>2, <2>3, <2>5, <3>1, <3>2 DEF Covered, RestsAt
  <2> QED
    BY <1>1, <2>1, <2>3, <2>4, <2>5 DEF TopInv
<1>5. CASE RestRemainder
  <2>1. PICK t \in [id : Ids, side : Side, price : Prices, limit : Idx, left : Nat \ {0}] :
          t = taker
    <3>1. taker # NULL /\ taker.price # NULL
      BY <1>5 DEF RestRemainder
    <3> QED
      BY <1>1, <3>1 DEF Takers
  <2>2. \A side \in Side : Covered(pool, best, best_qty, side)
    BY <1>5 DEF TopInv, RestRemainder
  <2>3. \A sd \in Side, j \in Idx :
          LevelQty(pool, sd, j) <= LevelQty(pool', sd, j)
    <3>1. Arrival
      BY <1>5, RestEffect
    <3>2. PICK s \in Slots, o \in Order :
            pool[s] = NULL /\ pool' = [pool EXCEPT ![s] = o]
      BY <3>1 DEF Arrival
    <3>3. pool'[s] = o /\ \A r \in Slots \ {s} : pool'[r] = pool[r]
      BY <1>1, <3>2 DEF Pools
    <3> SUFFICES ASSUME NEW sd \in Side, NEW j \in Idx
                 PROVE  LevelQty(pool, sd, j) <= LevelQty(pool', sd, j)
      OBVIOUS
    <3>4. pool[s] = NULL
      BY <3>2
    <3>5. LevelQty(pool', sd, j) = IF sd = o.side /\ j = o.price
                                   THEN LevelQty(pool, sd, j) + o.qty
                                   ELSE LevelQty(pool, sd, j)
      BY <1>1, <3>3, <3>4, ArrivalAddsQty
    <3>6. LevelQty(pool, sd, j) \in Nat /\ o.qty \in Nat
      BY <1>1, LevelQtyType DEF Order
    <3> QED
      BY <3>5, <3>6
  <2>4. CASE UNCHANGED tob
    <3>1. UNCHANGED <<best, best_qty>>
      BY <2>4 DEF tob
    <3>2. ASSUME NEW sd \in Side PROVE Covered(pool', best', best_qty', sd)
      <4>1. CASE best[sd] = NoLevel
        BY <2>2, <3>1, <4>1 DEF Covered, RestsAt
      <4>2. CASE best[sd] # NoLevel
        <5>1. best[sd] \in Idx
          BY <1>1, <4>2
        <5>2. /\ best_qty[sd] <= LevelQty(pool, sd, best[sd])
              /\ LevelQty(pool, sd, best[sd]) <= LevelQty(pool', sd, best[sd])
          BY <2>2, <2>3, <4>2, <5>1 DEF Covered, RestsAt
        <5>3. /\ best_qty[sd] \in Nat /\ LevelQty(pool, sd, best[sd]) \in Nat
              /\ LevelQty(pool', sd, best[sd]) \in Nat
          BY <1>1, LevelQtyType
        <5> QED
          BY <3>1, <4>2, <5>2, <5>3 DEF Covered, RestsAt
      <4> QED
        BY <4>1, <4>2
    <3> QED
      BY <1>1, <3>1, <3>2 DEF TopInv
  <2>5. CASE /\ best' = [best EXCEPT ![t.side] = t.limit]
             /\ best_qty' = [best_qty EXCEPT ![t.side] =
                               total_volume'[t.side][t.limit]]
    <3>1. /\ best'[t.side] = t.limit /\ t.limit # NoLevel /\ t.side \in Side
          /\ best_qty'[t.side] = total_volume'[t.side][t.limit]
          /\ \A sd \in Side : sd # t.side =>
               best'[sd] = best[sd] /\ best_qty'[sd] = best_qty[sd]
      BY <1>1, <2>5, NoLevelIsNoIndex
    <3>2. best_qty'[t.side] = VolumeAt(total_volume'[t.side], best'[t.side])
      BY <3>1 DEF VolumeAt
    <3>3. /\ best_qty'[t.side] \in Nat
          /\ Covered(pool', best', best_qty', t.side)
      BY <1>1, <3>1, <3>2, FreshIsCovered
    <3>4. ASSUME NEW sd \in Side, sd # t.side
          PROVE  Covered(pool', best', best_qty', sd)
      <4>1. CASE best[sd] = NoLevel
        BY <2>2, <3>1, <3>4, <4>1 DEF Covered, RestsAt
      <4>2. CASE best[sd] # NoLevel
        <5>1. best[sd] \in Idx
          BY <1>1, <4>2
        <5>2. /\ best_qty[sd] <= LevelQty(pool, sd, best[sd])
              /\ LevelQty(pool, sd, best[sd]) <= LevelQty(pool', sd, best[sd])
          BY <2>2, <2>3, <4>2, <5>1 DEF Covered, RestsAt
        <5>3. /\ best_qty[sd] \in Nat /\ LevelQty(pool, sd, best[sd]) \in Nat
              /\ LevelQty(pool', sd, best[sd]) \in Nat
          BY <1>1, LevelQtyType
        <5> QED
          BY <3>1, <3>4, <4>2, <5>2, <5>3 DEF Covered, RestsAt
      <4> QED
        BY <4>1, <4>2
    <3>5. best_qty' \in [Side -> Nat]
      BY <1>1, <2>5, <3>1, <3>3
    <3> QED
      BY <3>3, <3>4, <3>5 DEF TopInv
  <2> QED
    BY <1>5, <2>1, <2>4, <2>5 DEF RestRemainder
<1>6. CASE SlideStep
  <2>1. best_qty' = [side \in Side |->
                       VolumeAt(total_volume'[side], best'[side])]
    BY <1>6 DEF SlideStep, rebase_base
  <2>2. \A side \in Side :
          /\ best_qty'[side] \in Nat
          /\ Covered(pool', best', best_qty', side)
    BY <1>1, <2>1, FreshIsCovered
  <2> QED
    BY <2>1, <2>2 DEF TopInv
<1> QED
  BY <1>2, <1>3, <1>4, <1>5, <1>6 DEF TopStep

(* Between two calls the cached quantity of a best level is covered by the *)
(* orders that rest there: every path that shrinks that level refreshes    *)
(* the cache before the call returns, however often total_volume wrapped.  *)
THEOREM TopQtyIsCovered == Spec => []TopQtyNeverOverstates
<1>1. Init => TopInv
  BY NoLevelIsNoIndex DEF Init, TopInv, Covered, RestsAt
<1>2. IInv /\ IInv' /\ VolumesMatch(pool, total_volume)
        /\ VolumesMatch(pool, total_volume)' /\ TopInv /\ [Next]_vars => TopInv'
  BY EveryTopStep, TopStepKeepsTopInv
<1>3. IInv /\ TopInv => TopQtyNeverOverstates
  <2> SUFFICES ASSUME IInv, TopInv, taker = NULL, NEW side \in Side
               PROVE  best_qty[side] <= RestingAt(side, best[side])
    BY DEF TopQtyNeverOverstates
  <2>1. best[side] # NoLevel => best[side] \in Idx
    BY DEF IInv, TypeOK
  <2> QED
    BY <2>1, QuantityOfLevel DEF TopInv, Covered, RestsAt, RestingAt
<1> QED
  BY <1>1, <1>2, <1>3, InvariantHolds, VolumesAlwaysMatch, PTL DEF Spec

-----------------------------------------------------------------------------
(* The cached best against the occupied levels.                            *)

OccupiedIn(Q, side) == {i \in Idx : Q[side][i] # <<>>}

IsTop(side, b, occupied) ==
  IF occupied = {} THEN b = NoLevel
  ELSE /\ b \in occupied
       /\ \A y \in occupied : IF side = "BUY" THEN y <= b ELSE b <= y

LEMMA ExtremumIsTop ==
  ASSUME NEW T \in SUBSET Idx, T # {}
  PROVE  IsTop("BUY", Max(T), T) /\ IsTop("SELL", Min(T), T)
<1>1. Band - 1 \in Nat /\ T \in SUBSET (0 .. Band - 1) /\ T \in SUBSET Nat
  BY BookAssumption DEF Idx
<1> QED
  BY <1>1, MaxOfIndices, MinOfNaturals DEF IsTop

LEMMA TopIsUnique ==
  ASSUME NEW T \in SUBSET Idx, NEW side \in Side, NEW a, NEW b,
         IsTop(side, a, T), IsTop(side, b, T)
  PROVE  a = b
<1>1. CASE T = {}
  BY <1>1 DEF IsTop
<1>2. CASE T # {}
  <2>1. a \in T /\ b \in T
    BY <1>2 DEF IsTop
  <2>2. a \in Int /\ b \in Int
    BY <2>1 DEF Idx
  <2> QED
    BY <1>2, <2>1, <2>2 DEF IsTop, Side
<1> QED
  BY <1>1, <1>2

(* TopExact for given best prices and lists.                              *)
TopExact(B, Q) ==
  /\ B["BUY"] = IF OccupiedIn(Q, "BUY") = {} THEN NoLevel
                ELSE Max(OccupiedIn(Q, "BUY"))
  /\ B["SELL"] = IF OccupiedIn(Q, "SELL") = {} THEN NoLevel
                 ELSE Min(OccupiedIn(Q, "SELL"))

LEMMA TopExactIsTop ==
  ASSUME NEW B, NEW Q
  PROVE  TopExact(B, Q) <=>
           \A side \in Side : IsTop(side, B[side], OccupiedIn(Q, side))
<1>1. OccupiedIn(Q, "BUY") \in SUBSET Idx /\ OccupiedIn(Q, "SELL") \in SUBSET Idx
  BY DEF OccupiedIn
<1>2. "BUY" \in Side /\ "SELL" \in Side
  BY DEF Side
<1>3. TopExact(B, Q) => \A side \in Side : IsTop(side, B[side], OccupiedIn(Q, side))
  <2> SUFFICES ASSUME TopExact(B, Q), NEW side \in Side
               PROVE  IsTop(side, B[side], OccupiedIn(Q, side))
    OBVIOUS
  <2>1. CASE OccupiedIn(Q, side) = {}
    BY <2>1 DEF TopExact, IsTop, Side
  <2>2. CASE OccupiedIn(Q, side) # {} /\ side = "BUY"
    BY <1>1, <2>2, ExtremumIsTop DEF TopExact
  <2>3. CASE OccupiedIn(Q, side) # {} /\ side = "SELL"
    BY <1>1, <2>3, ExtremumIsTop DEF TopExact
  <2> QED
    BY <2>1, <2>2, <2>3 DEF Side
<1>4. ASSUME \A side \in Side : IsTop(side, B[side], OccupiedIn(Q, side))
      PROVE  TopExact(B, Q)
  <2>1. B["BUY"] = IF OccupiedIn(Q, "BUY") = {} THEN NoLevel ELSE Max(OccupiedIn(Q, "BUY"))
    <3>1. CASE OccupiedIn(Q, "BUY") = {}
      BY <1>2, <1>4, <3>1 DEF IsTop
    <3>2. CASE OccupiedIn(Q, "BUY") # {}
      BY <1>1, <1>2, <1>4, <3>2, ExtremumIsTop, TopIsUnique
    <3> QED
      BY <3>1, <3>2
  <2>2. B["SELL"] = IF OccupiedIn(Q, "SELL") = {} THEN NoLevel ELSE Min(OccupiedIn(Q, "SELL"))
    <3>1. CASE OccupiedIn(Q, "SELL") = {}
      BY <1>2, <1>4, <3>1 DEF IsTop
    <3>2. CASE OccupiedIn(Q, "SELL") # {}
      BY <1>1, <1>2, <1>4, <3>2, ExtremumIsTop, TopIsUnique
    <3> QED
      BY <3>1, <3>2
  <2> QED
    BY <2>1, <2>2 DEF TopExact
<1> QED
  BY <1>3, <1>4

(* The scans, when they start at a level no better one is occupied.        *)
LEMMA RescanFindsTop ==
  ASSUME NEW side \in Side, NEW T \in SUBSET Idx, NEW i \in Idx,
         \A y \in T : IF side = "BUY" THEN y <= i ELSE i <= y
  PROVE  IsTop(side, update_best(side, T, i), T)
<1>1. i # NoLevel /\ ~ (i >= Band)
  BY BookAssumption DEF NoLevel, Idx
<1>2. CASE side = "BUY"
  <2>1. update_best(side, T, i) = find_prev_set_bit(T, i)
    BY <1>1, <1>2 DEF update_best, update_best_bid
  <2>2. {j \in T : j <= i} = T
    BY <1>2
  <2> QED
    BY <1>2, <2>1, <2>2, ExtremumIsTop DEF find_prev_set_bit, IsTop
<1>3. CASE side = "SELL"
  <2>1. update_best(side, T, i) = find_next_set_bit(T, i)
    BY <1>1, <1>3 DEF update_best, update_best_ask
  <2>2. {j \in T : j >= i} = T
    BY <1>3 DEF Idx
  <2> QED
    BY <1>3, <2>1, <2>2, ExtremumIsTop DEF find_next_set_bit, IsTop
<1> QED
  BY <1>2, <1>3 DEF Side

(* An order leaves or gives up quantity: at most its own level empties.    *)
LEMMA ShrinkOccupied ==
  ASSUME IInv, NEW s \in Slots, pool[s] # NULL, Shrink(s), base' = base
  PROVE  /\ \A sd \in Side : sd # pool[s].side => OccupiedIn(queue', sd) = OccupiedIn(queue, sd)
         /\ pool[s].price \in OccupiedIn(queue, pool[s].side)
         /\ OccupiedIn(queue', pool[s].side) =
              IF queue'[pool[s].side][pool[s].price] = <<>>
              THEN OccupiedIn(queue, pool[s].side) \ {pool[s].price}
              ELSE OccupiedIn(queue, pool[s].side)
<1>1. /\ pool[s].side \in Side /\ pool[s].price \in Idx
      /\ \A sd \in Side, j \in Idx :
           sd # pool[s].side \/ j # pool[s].price => queue'[sd][j] = queue[sd][j]
  BY ShrinkStaysLocal
<1>2. queue[pool[s].side][pool[s].price] # <<>>
  BY <1>1, OccupiedRange DEF IInv, Shelves, Partition
<1> QED
  BY <1>1, <1>2 DEF OccupiedIn

LEMMA TopStepKeepsTop ==
  ASSUME IInv, IInv', TopStep, base' = base,
         \A side \in Side : IsTop(side, best[side], OccupiedIn(queue, side)), NotCrossed
  PROVE  /\ \A side \in Side : IsTop(side, best'[side], OccupiedIn(queue', side))
         /\ NotCrossed'
<1>1. /\ best \in [Side -> Idx \union {NoLevel}]
      /\ best' \in [Side -> Idx \union {NoLevel}]
      /\ taker \in Takers \union {NULL}
      /\ "BUY" \in Side /\ "SELL" \in Side
  BY DEF IInv, TypeOK, Side
<1>2. ASSUME \A side \in Side : OccupiedIn(queue', side) \subseteq OccupiedIn(queue, side)
      PROVE  NotCrossed'
  <2>1. /\ {i \in Idx : queue'["BUY"][i] # <<>>} \subseteq
             {i \in Idx : queue["BUY"][i] # <<>>}
        /\ {i \in Idx : queue'["SELL"][i] # <<>>} \subseteq
             {i \in Idx : queue["SELL"][i] # <<>>}
    BY <1>1, <1>2 DEF OccupiedIn
  <2> QED
    BY <2>1 DEF NotCrossed
<1>3. CASE QuietStep
  BY <1>2, <1>3 DEF QuietStep, tob, OccupiedIn, NotCrossed
<1>4. CASE RefreshedStep
  <2>1. PICK s \in Slots :
          /\ pool[s] # NULL /\ Shrink(s)
          /\ RefreshTop(pool[s].side, pool[s].price)
    BY <1>4 DEF RefreshedStep
  <2> DEFINE side == pool[s].side
             i == pool[s].price
  <2>2. /\ side \in Side /\ i \in Idx
        /\ \A sd \in Side : sd # side => OccupiedIn(queue', sd) = OccupiedIn(queue, sd)
        /\ i \in OccupiedIn(queue, side)
        /\ OccupiedIn(queue', side) = IF queue'[side][i] = <<>> THEN OccupiedIn(queue, side) \ {i}
                             ELSE OccupiedIn(queue, side)
    BY <2>1, ShrinkOccupied, ShrinkStaysLocal
  <2>3. /\ i # best[side] => best' = best
        /\ i = best[side] => best' = [best EXCEPT ![side] =
             IF queue'[side][i] = <<>> THEN update_best(side, bitmap'[side], i) ELSE i]
    BY <2>1 DEF RefreshTop, tob
  <2>4. bitmap'[side] = OccupiedIn(queue', side) /\ OccupiedIn(queue', side) \in SUBSET Idx
    BY <2>2 DEF IInv, Shelves, BitmapExact, OccupiedIn
  <2> HIDE DEF side, i
  <2>5. \A sd \in Side : OccupiedIn(queue', sd) \subseteq OccupiedIn(queue, sd)
    BY <2>2
  <2>6. ASSUME NEW sd \in Side, sd # side
        PROVE  IsTop(sd, best'[sd], OccupiedIn(queue', sd))
    <3>1. best'[sd] = best[sd]
      BY <1>1, <2>3, <2>6
    <3> QED
      BY <2>2, <2>6, <3>1
  <2>7. IsTop(side, best'[side], OccupiedIn(queue', side))
    <3>1. IsTop(side, best[side], OccupiedIn(queue, side)) /\ OccupiedIn(queue, side) # {}
      BY <2>2
    <3>2. CASE i # best[side]
      <4>1. best'[side] = best[side] /\ best[side] \in OccupiedIn(queue', side)
        BY <2>2, <2>3, <3>1, <3>2 DEF IsTop
      <4> QED
        BY <2>5, <2>2, <3>1, <4>1 DEF IsTop
    <3>3. CASE i = best[side] /\ queue'[side][i] # <<>>
      BY <1>1, <2>2, <2>3, <3>1, <3>3
    <3>4. CASE i = best[side] /\ queue'[side][i] = <<>>
      <4>1. best'[side] = update_best(side, OccupiedIn(queue', side), i)
        BY <1>1, <2>2, <2>3, <2>4, <3>4
      <4>2. \A y \in OccupiedIn(queue', side) : IF side = "BUY" THEN y <= i ELSE i <= y
        BY <2>2, <2>5, <3>1, <3>4 DEF IsTop
      <4> QED
        BY <2>2, <2>4, <4>1, <4>2, RescanFindsTop
    <3> QED
      BY <3>2, <3>3, <3>4
  <2> QED
    BY <1>2, <2>5, <2>6, <2>7
<1>5. CASE FillStep
  <2>1. PICK s \in Slots :
          /\ pool[s] # NULL /\ Shrink(s) /\ UNCHANGED tob
          /\ queue'[pool[s].side][pool[s].price] # <<>>
    BY <1>5 DEF FillStep
  <2>2. \A sd \in Side : OccupiedIn(queue', sd) = OccupiedIn(queue, sd)
    BY <2>1, ShrinkOccupied
  <2>3. best' = best
    BY <2>1 DEF tob
  <2> QED
    BY <1>2, <2>2, <2>3
<1>6. CASE RestRemainder
  <2>1. PICK t \in [id : Ids, side : Side, price : Prices, limit : Idx, left : Nat \ {0}] :
          t = taker
    <3>1. taker # NULL /\ taker.price # NULL
      BY <1>6 DEF RestRemainder
    <3> QED
      BY <1>1, <3>1 DEF Takers
  <2>2. PICK s \in Slots :
          queue' = [queue EXCEPT ![t.side][t.limit] = Append(queue[t.side][t.limit], s)]
    BY <1>6, <2>1 DEF RestRemainder, level_append
  <2>3. /\ ~ Crosses(t)
        /\ IF \/ best[t.side] = NoLevel
              \/ IF t.side = "BUY" THEN t.limit > best["BUY"]
                                   ELSE t.limit < best["SELL"]
           THEN best' = [best EXCEPT ![t.side] = t.limit]
           ELSE best' = best
    BY <1>6, <2>1 DEF RestRemainder, tob
  <2>4. t.side \in Side /\ t.limit \in Idx /\ t.limit \in Int /\ t.limit # NoLevel
    BY NoLevelIsNoIndex DEF Idx
  <2>5. /\ OccupiedIn(queue', t.side) = OccupiedIn(queue, t.side) \union {t.limit}
        /\ \A sd \in Side : sd # t.side => OccupiedIn(queue', sd) = OccupiedIn(queue, sd)
    <3>1. queue[t.side][t.limit] \in Seq(Slots) /\ queue \in Queues
      BY <2>4 DEF IInv, TypeOK, Queues
    <3>2. Append(queue[t.side][t.limit], s) # <<>>
      BY <3>1, AppendIsNotEmpty
    <3> QED
      BY <2>2, <2>4, <3>1, <3>2 DEF OccupiedIn, Queues
  <2>6. \A sd \in Side : OccupiedIn(queue, sd) \subseteq Idx /\ OccupiedIn(queue, sd) \subseteq Int
    BY DEF OccupiedIn, Idx
  <2>7. ASSUME NEW sd \in Side, sd # t.side
        PROVE  IsTop(sd, best'[sd], OccupiedIn(queue', sd))
    BY <1>1, <2>3, <2>5, <2>7
  <2>8. IsTop(t.side, best'[t.side], OccupiedIn(queue', t.side))
    <3>1. IsTop(t.side, best[t.side], OccupiedIn(queue, t.side))
      BY <2>4
    <3>2. CASE OccupiedIn(queue, t.side) = {}
      <4>1. best'[t.side] = t.limit
        BY <1>1, <2>3, <2>4, <3>1, <3>2 DEF IsTop
      <4> QED
        BY <2>4, <2>5, <3>2, <4>1 DEF IsTop
    <3>3. CASE OccupiedIn(queue, t.side) # {}
      <4>1. best[t.side] \in OccupiedIn(queue, t.side) /\ best[t.side] \in Idx
        BY <2>4, <2>6, <3>1, <3>3 DEF IsTop
      <4>2. best[t.side] # NoLevel
        BY <4>1, NoLevelIsNoIndex
      <4>3. CASE t.side = "BUY"
        <5>1. best'["BUY"] = IF t.limit > best["BUY"] THEN t.limit ELSE best["BUY"]
          BY <1>1, <2>3, <4>2, <4>3
        <5> QED
          BY <2>4, <2>5, <2>6, <3>1, <3>3, <4>1, <4>3, <5>1 DEF IsTop
      <4>4. CASE t.side = "SELL"
        <5>1. best'["SELL"] = IF t.limit < best["SELL"] THEN t.limit ELSE best["SELL"]
          BY <1>1, <2>3, <4>2, <4>4
        <5> QED
          BY <2>4, <2>5, <2>6, <3>1, <3>3, <4>1, <4>4, <5>1 DEF IsTop
      <4> QED
        BY <2>4, <4>3, <4>4 DEF Side
    <3> QED
      BY <3>2, <3>3
  <2>9. NotCrossed'
    <3>1. ASSUME NEW b \in Idx, NEW a \in Idx,
                 b \in OccupiedIn(queue', "BUY"), a \in OccupiedIn(queue', "SELL")
          PROVE  b < a
      <4>1. b \in OccupiedIn(queue, "BUY") /\ a \in OccupiedIn(queue, "SELL") => b < a
        BY DEF NotCrossed, OccupiedIn
      <4>2. CASE t.side = "BUY"
        <5>1. a \in OccupiedIn(queue, "SELL") /\ (b \in OccupiedIn(queue, "BUY") \/ b = t.limit)
          BY <1>1, <2>5, <3>1, <4>2
        <5>2. best["SELL"] \in OccupiedIn(queue, "SELL") /\ best["SELL"] <= a
          BY <1>1, <5>1 DEF IsTop
        <5>3. ~ (best["SELL"] <= t.limit) /\ best["SELL"] \in Int /\ a \in Int
          BY <1>1, <2>3, <2>6, <4>2, <5>1, <5>2 DEF Crosses
        <5> QED
          BY <2>4, <4>1, <5>1, <5>2, <5>3
      <4>3. CASE t.side = "SELL"
        <5>1. b \in OccupiedIn(queue, "BUY") /\ (a \in OccupiedIn(queue, "SELL") \/ a = t.limit)
          BY <1>1, <2>5, <3>1, <4>3
        <5>2. best["BUY"] \in OccupiedIn(queue, "BUY") /\ b <= best["BUY"]
          BY <1>1, <5>1 DEF IsTop
        <5>3. /\ best["BUY"] # NoLevel /\ queue["BUY"][best["BUY"]] # <<>>
              /\ best["BUY"] \in Int /\ b \in Int
          BY <1>1, <2>6, <5>1, <5>2, NoLevelIsNoIndex DEF OccupiedIn
        <5>4. ~ (best["BUY"] >= t.limit)
          BY <2>3, <4>3, <5>3 DEF Crosses
        <5> QED
          BY <2>4, <4>1, <5>1, <5>2, <5>3, <5>4
      <4> QED
        BY <2>4, <4>2, <4>3 DEF Side
    <3> QED
      BY <3>1 DEF NotCrossed, OccupiedIn
  <2> QED
    BY <2>7, <2>8, <2>9
<1>7. CASE SlideStep
  <2>1. base' # base
    BY <1>7 DEF SlideStep, rebase_base
  <2> QED
    BY <2>1
<1> QED
  BY <1>3, <1>4, <1>5, <1>6, <1>7 DEF TopStep

(* With the window where it is, no step loses the exact best price or lets *)
(* the book cross: the scans, started at the old best, and the comparison  *)
(* on insertion do maintain it; only a slide of the window can lose it.    *)
THEOREM OnlyASlideLosesTop == Spec => OnlyRebaseLosesTop
<1>1. IInv /\ IInv' /\ [Next]_vars =>
        (BestExact /\ NotCrossed /\ base' = base => BestExact' /\ NotCrossed')
  <2> SUFFICES ASSUME IInv, IInv', [Next]_vars, BestExact, NotCrossed, base' = base
               PROVE  BestExact' /\ NotCrossed'
    OBVIOUS
  <2>1. TopStep
    BY EveryTopStep
  <2>2. TopExact(best, queue)
    BY DEF BestExact, TopExact, OccupiedIn, Occupied
  <2>3. /\ \A side \in Side : IsTop(side, best'[side], OccupiedIn(queue', side))
        /\ NotCrossed'
    BY <2>1, <2>2, TopExactIsTop, TopStepKeepsTop
  <2>4. BestExact'
    <3>1. TopExact(best', queue')
      BY <2>3, TopExactIsTop
    <3> QED
      BY <3>1 DEF BestExact, TopExact, OccupiedIn, Occupied
  <2> QED
    BY <2>3, <2>4
<1> QED
  BY <1>1, InvariantHolds, PTL DEF Spec, OnlyRebaseLosesTop
-----------------------------------------------------------------------------
(***************************************************************************)
(* What the book promises its callers.                                     *)
(***************************************************************************)
Shown == [side : Side, price : Nat, qty : Nat \ {0}]
Books == [Ids -> Shown \union {NULL}]

(* An order as its callers see it.                                         *)
Face(o, b) == [side |-> o.side, price |-> b + o.price, qty |-> o.qty]

-----------------------------------------------------------------------------
(* The view.                                                               *)

LEMMA ViewType ==
  ASSUME IInv
  PROVE  /\ View \in Books
         /\ \A id \in Ids : id_map[id] = NULL => View[id] = NULL
         /\ \A id \in Ids : id_map[id] # NULL =>
              View[id] = Face(pool[id_map[id]], base) /\ View[id] # NULL
<1>1. ASSUME NEW id \in Ids
      PROVE  /\ View[id] \in Shown \union {NULL}
             /\ id_map[id] = NULL => View[id] = NULL
             /\ id_map[id] # NULL =>
                  View[id] = Face(pool[id_map[id]], base) /\ View[id] # NULL
  <2>1. CASE id_map[id] = NULL
    BY <2>1 DEF View
  <2>2. CASE id_map[id] # NULL
    <3>1. PICK o \in Order : o = pool[id_map[id]] /\ pool[id_map[id]] # NULL
      BY <2>2, KnownIdRests
    <3>2. View[id] = Face(o, base)
      BY <2>2, <3>1 DEF View, Face
    <3>3. o.side \in Side /\ o.price \in Nat /\ o.qty \in Nat \ {0} /\ base \in Nat
      BY DEF Order, Idx, IInv, TypeOK
    <3>4. Face(o, base) \in Shown
      BY <3>3 DEF Face, Shown
    <3> QED
      BY <2>2, <3>1, <3>2, <3>4, CallsAssumption DEF Shown
  <2> QED
    BY <2>1, <2>2
<1>2. View = [id \in Ids |-> View[id]]
  BY DEF View
<1> HIDE DEF View
<1> QED
  BY <1>1, <1>2 DEF Books

LEMMA ViewOfOrder ==
  ASSUME IInv, NEW s \in Slots, NEW o \in Order, o = pool[s]
  PROVE  o.id \in Ids /\ View[o.id] = Face(o, base) /\ View[o.id] # NULL
BY RestingOrderIsFound, ViewType, BookAssumption

LEMMA ViewRemoved ==
  ASSUME IInv, NEW s \in Slots, NEW o \in Order, o = pool[s], RemoveOrder(s),
         base' = base
  PROVE  View' = [View EXCEPT ![o.id] = NULL]
<1>1. o.id \in Ids /\ id_map[o.id] = s
  BY RestingOrderIsFound
<1>2. pool' = [pool EXCEPT ![s] = NULL] /\ id_map' = [id_map EXCEPT ![o.id] = NULL]
  BY DEF RemoveOrder
<1>3. \A id \in Ids : id # o.id => id_map[id] # s
  <2>1. \A id \in Ids : id_map[id] # NULL => pool[id_map[id]].id = id
    BY DEF IInv, Shelves, Exact
  <2> QED
    BY <1>1, <2>1, BookAssumption
<1>4. ASSUME NEW id \in Ids
      PROVE  View'[id] = IF id = o.id THEN NULL ELSE View[id]
  <2>1. CASE id = o.id
    BY <1>1, <1>2, <2>1 DEF View, IInv, TypeOK
  <2>2. CASE id # o.id
    <3>1. id_map'[id] = id_map[id] /\ id_map[id] # s
      BY <1>2, <1>3, <2>2 DEF IInv, TypeOK
    <3>2. id_map[id] # NULL => pool'[id_map[id]] = pool[id_map[id]]
      BY <1>2, <3>1 DEF IInv, TypeOK
    <3> QED
      BY <2>2, <3>1, <3>2 DEF View
  <2> QED
    BY <2>1, <2>2
<1>5. View' = [id \in Ids |-> View'[id]] /\ View = [id \in Ids |-> View[id]]
  BY DEF View
<1> HIDE DEF View
<1> QED
  BY <1>4, <1>5

LEMMA ViewReduced ==
  ASSUME IInv, NEW s \in Slots, NEW o \in Order, o = pool[s],
         NEW qty \in Nat, qty < o.qty, ReduceOrder(s, qty), base' = base
  PROVE  View' = [View EXCEPT ![o.id] = [View[o.id] EXCEPT !.qty = o.qty - qty]]
<1>1. o.id \in Ids /\ id_map[o.id] = s /\ o # NULL /\ s # NULL
  BY RestingOrderIsFound, NullAssumption, BookAssumption
<1> DEFINE o2 == [o EXCEPT !.qty = o.qty - qty]
<1>2. /\ pool'[s] = o2 /\ id_map' = id_map
      /\ \A t \in Slots : t # s => pool'[t] = pool[t]
  BY DEF ReduceOrder, IInv, TypeOK
<1>3. o2.side = o.side /\ o2.price = o.price /\ o2.qty = o.qty - qty /\ o2 # NULL
  <2>1. o2.side = o.side /\ o2.price = o.price /\ o2.qty = o.qty - qty
    BY DEF Order
  <2>2. o2 \in Order
    BY DEF Order
  <2> QED
    BY <2>1, <2>2, NullAssumption
<1> HIDE DEF o2
<1>4. View[o.id] = Face(o, base)
  BY ViewOfOrder
<1>5. View'[o.id] = [View[o.id] EXCEPT !.qty = o.qty - qty]
  BY <1>1, <1>2, <1>3, <1>4 DEF View, Face
<1>6. ASSUME NEW id \in Ids, id # o.id PROVE View'[id] = View[id]
  <2>1. id_map[id] # NULL => id_map[id] \in Slots /\ id_map[id] # s
    BY <1>1, <1>6 DEF IInv, TypeOK, Shelves, Exact
  <2> QED
    BY <1>2, <2>1 DEF View
<1>7. View' = [id \in Ids |-> View'[id]] /\ View = [id \in Ids |-> View[id]]
  BY DEF View
<1> HIDE DEF View
<1> QED
  BY <1>5, <1>6, <1>7

LEMMA ViewStays ==
  ASSUME IInv, UNCHANGED <<pool, id_map>>,
         base' = base \/ \A s \in Slots : pool[s] = NULL
  PROVE  View' = View
<1>1. ASSUME NEW id \in Ids PROVE View'[id] = View[id]
  <2>1. id_map[id] # NULL => base' = base
    BY KnownIdRests
  <2> QED
    BY <2>1 DEF View
<1>2. View' = [id \in Ids |-> View'[id]] /\ View = [id \in Ids |-> View[id]]
  BY DEF View
<1> HIDE DEF View
<1> QED
  BY <1>1, <1>2

LEMMA ViewGrown ==
  ASSUME IInv, RestRemainder
  PROVE  /\ taker.id \in Ids /\ View[taker.id] = NULL
         /\ View' = [View EXCEPT ![taker.id] =
                       [side |-> taker.side, price |-> taker.price, qty |-> taker.left]]
<1>1. PICK t \in [id : Ids, side : Side, price : Prices, limit : Idx, left : Nat \ {0}] :
        t = taker
  <2>1. taker \in Takers /\ taker.price # NULL
    BY DEF IInv, TypeOK, RestRemainder
  <2> QED
    BY <2>1 DEF Takers
<1> DEFINE o == [id |-> t.id, side |-> t.side, price |-> t.limit, qty |-> t.left]
<1>2. o \in Order /\ o.id = t.id /\ o.id \in Ids
  BY DEF Order
<1>3. PICK s \in Slots :
        /\ pool[s] = NULL /\ pool' = [pool EXCEPT ![s] = o]
        /\ id_map' = [id_map EXCEPT ![t.id] = s]
  BY <1>1 DEF RestRemainder, Live
<1>4. base' = base
  BY DEF RestRemainder, window
<1>5. id_map[t.id] = NULL /\ t.price = base + t.limit
  BY <1>1, <1>3, BookAssumption DEF IInv, TakerInWindow, RestRemainder
<1>6. o # NULL /\ s # NULL
  BY <1>2, NullAssumption, BookAssumption
<1>7. Face(o, base) = [side |-> t.side, price |-> t.price, qty |-> t.left]
  BY <1>5 DEF Face
<1> HIDE DEF o
<1>8. View'[t.id] = Face(o, base)
  <2>1. id_map'[t.id] = s /\ pool'[s] = o
    BY <1>2, <1>3 DEF IInv, TypeOK
  <2> QED
    BY <1>2, <1>4, <1>6, <2>1 DEF View, Face
<1>9. ASSUME NEW id \in Ids, id # t.id PROVE View'[id] = View[id]
  <2>1. id_map'[id] = id_map[id]
    BY <1>3, <1>9 DEF IInv, TypeOK
  <2>2. id_map[id] # NULL => id_map[id] # s /\ id_map[id] \in Slots
    BY <1>3, KnownIdRests
  <2>3. id_map[id] # NULL => pool'[id_map[id]] = pool[id_map[id]]
    BY <1>3, <2>2 DEF IInv, TypeOK
  <2> QED
    BY <1>4, <2>1, <2>3 DEF View
<1>10. View[t.id] = NULL
  BY <1>2, <1>5, ViewType
<1>11. View' = [id \in Ids |-> View'[id]] /\ View = [id \in Ids |-> View[id]]
  BY DEF View
<1> HIDE DEF View
<1> QED
  BY <1>1, <1>2, <1>7, <1>8, <1>9, <1>10, <1>11

(* A slide loses orders or shows them unchanged.                           *)
LEMMA ViewSlid ==
  ASSUME IInv, NEW new_base \in Nat, rebase_base(new_base)
  PROVE  \A id \in Ids : View'[id] = NULL \/ View'[id] = View[id]
<1> SUFFICES ASSUME NEW id \in Ids, View'[id] # NULL PROVE View'[id] = View[id]
  OBVIOUS
<1>1. id_map'[id] # NULL /\ pool'[id_map'[id]] # NULL
  BY DEF View
<1>2. id_map'[id] = id_map[id]
  BY <1>1 DEF rebase_base
<1>3. PICK s \in Slots : s = id_map[id] /\ pool[s] # NULL
  BY <1>1, <1>2, KnownIdRests
<1>4. s \in Live'
  BY <1>1, <1>2, <1>3 DEF Live
<1>5. PICK d \in Int : base' + d = base /\ pool'[s] = Relabelled(pool[s], d)
  BY <1>4, SlideMovesLists
<1>6. PICK o \in Order : o = pool[s]
  BY <1>3 DEF IInv, TypeOK
<1>7. o.price \in Int
  BY DEF Order, Idx
<1> DEFINE o2 == Relabelled(o, d)
<1>8. o2.side = o.side /\ o2.price = o.price + d /\ o2.qty = o.qty
  BY DEF Relabelled, Order
<1> HIDE DEF o2
<1>9. pool'[s] = o2
  BY <1>5, <1>6 DEF o2
<1>10. PICK b \in Nat, b2 \in Nat : b = base /\ b2 = base'
  BY DEF IInv, TypeOK, rebase_base
<1>11. b2 + (o.price + d) = b + o.price
  <2>1. b2 + d = b
    BY <1>5, <1>10
  <2> QED
    BY <1>7, <2>1
<1>12. View[id] = [side |-> o.side, price |-> b + o.price, qty |-> o.qty]
  BY <1>1, <1>2, <1>3, <1>6, <1>10 DEF View
<1>13. View'[id] = [side |-> o2.side, price |-> b2 + o2.price, qty |-> o2.qty]
  BY <1>1, <1>2, <1>3, <1>9, <1>10 DEF View
<1> QED
  BY <1>8, <1>11, <1>12, <1>13

-----------------------------------------------------------------------------
(* The outcomes of an insertion.                                           *)

LEMMA LeftIsDifference ==
  ASSUME NEW b, NEW qty, NEW F
  PROVE  Contract!Left(b, qty, F) = qty - QtySum(b, F)
BY DEF Contract!Left, Contract!MapThenSumSet, Contract!MapThenFoldSet,
       QtySum, MapThenSumSet, MapThenFoldSet

(* A call c on the book b has dropped D and filled F: "left" of it is to   *)
(* do, and its callers would see "after".                                  *)
Progress(c, b, D, F, left, after) ==
  /\ b \in Books
  /\ D \in SUBSET Contract!Resting(b)
  /\ F \in SUBSET Contract!Crossers(b, c.side, c.price) /\ IsFiniteSet(F)
  /\ D \intersect F = {}
  /\ c.op \in {"insert", "market"} /\ (c.op = "market" => D = {})
  /\ c.qty \in Nat /\ left \in Nat /\ left = c.qty - QtySum(b, F)
  /\ after = [i \in Ids |-> IF i \in D \union F THEN NULL ELSE b[i]]

LEMMA CrosserRests ==
  ASSUME NEW b \in Books, NEW side, NEW price,
         NEW m \in Contract!Crossers(b, side, price)
  PROVE  m \in Ids /\ b[m] # NULL /\ b[m] \in Shown /\ b[m].qty \in Nat \ {0}
<1>1. m \in Ids /\ b[m] # NULL
  BY DEF Contract!Crossers, Contract!Resting
<1>2. b[m] \in Shown
  BY <1>1 DEF Books
<1> QED
  BY <1>1, <1>2 DEF Shown

LEMMA LeftIsInRange ==
  ASSUME NEW c, NEW b, NEW D, NEW F, NEW left, NEW after,
         Progress(c, b, D, F, left, after)
  PROVE  Contract!Left(b, c.qty, F) = left /\ left \in 0 .. c.qty
<1>1. \A i \in F : b[i].qty \in Nat
  BY CrosserRests DEF Progress
<1>2. QtySum(b, F) \in Nat
  BY <1>1, QtySumNatural DEF Progress
<1> QED
  BY <1>2, LeftIsDifference DEF Progress

(* What a call leaves that cut the orders of C and rests if R is {c.id}.   *)
Ended(c, b, D, F, left, C, R) ==
  [i \in Ids |->
     IF i \in D \union F THEN NULL
     ELSE IF i \in C THEN [b[i] EXCEPT !.qty = @ - left]
     ELSE IF i \in R THEN [side |-> c.side, price |-> c.price, qty |-> left]
     ELSE b[i]]

CanEnd(c, b, D, F, left, C, R) ==
  /\ \E after : Progress(c, b, D, F, left, after)
  /\ C \in SUBSET Contract!Crossers(b, c.side, c.price)
  /\ C = {} \/ \E m \in C : C = {m} /\ left \in 1 .. b[m].qty - 1
  /\ C \intersect (D \union F) = {}
  /\ R \in SUBSET {c.id}
  /\ R = {} \/ (c.op = "insert" /\ C = {} /\ left > 0)

LEMMA OutcomeKeeps ==
  ASSUME NEW c, NEW b, NEW D, NEW F, NEW left, NEW C, NEW R,
         CanEnd(c, b, D, F, left, C, R)
  PROVE  Keeps(c, b, F \union C, Ended(c, b, D, F, left, C, R))
<1> USE DEF CanEnd
<1>0. PICK after : Progress(c, b, D, F, left, after)
  OBVIOUS
<1> DEFINE r == R # {}
           o == [dropped |-> D, filled |-> F, cut |-> C, rests |-> r]
<1>1. o.dropped = D /\ o.filled = F /\ o.cut = C
  OBVIOUS
<1>2. o.rests <=> R # {}
  OBVIOUS
<1>3. Contract!Left(b, c.qty, F) = left /\ left \in 0 .. c.qty
  BY <1>0, LeftIsInRange
<1>4. C \in {{}} \union {{id} : id \in Contract!Crossers(b, c.side, c.price)}
  OBVIOUS
<1>5. \A i \in C : left \in 1 .. b[i].qty - 1
  OBVIOUS
<1>6. o \in [dropped : SUBSET Contract!Resting(b),
             filled  : SUBSET Contract!Crossers(b, c.side, c.price),
             cut     : {{}} \union {{id} : id \in Contract!Crossers(b, c.side, c.price)},
             rests   : BOOLEAN]
  BY <1>0, <1>4 DEF Progress
<1>7. D \intersect (F \union C) = {} /\ F \intersect C = {}
  BY <1>0 DEF Progress
<1>8. o.rests => C = {} /\ left > 0 /\ c.op = "insert"
  BY <1>2
<1>9. \A i \in Ids : i \in R <=> i = c.id /\ o.rests
  BY <1>2
<1> HIDE DEF o
<1>10. o \in Contract!Outcomes(b, c.side, c.price, c.qty)
  BY <1>1, <1>3, <1>5, <1>6, <1>7, <1>8 DEF Contract!Outcomes
<1>11. Ended(c, b, D, F, left, C, R)
         = Contract!AfterInsert(b, c.id, c.side, c.price, c.qty, o)
  BY <1>1, <1>3, <1>9 DEF Contract!AfterInsert, Ended
<1>12. F \union C = Contract!Matched(o)
  BY <1>1 DEF Contract!Matched
<1>13. c.op \in {"insert", "market"} /\ (c.op = "market" => ~ o.rests /\ o.dropped = {})
  BY <1>0, <1>1, <1>8 DEF Progress
<1> QED
  BY <1>10, <1>11, <1>12, <1>13 DEF Keeps

(* The three ways a matching call ends: nothing left or the rest dropped,  *)
(* the last order filled in part, the rest in the book.                    *)
LEMMA EndsDropped ==
  ASSUME NEW c, NEW b, NEW D, NEW F, NEW left, NEW after,
         Progress(c, b, D, F, left, after)
  PROVE  Keeps(c, b, F, after)
<1>1. after = Ended(c, b, D, F, left, {}, {})
  BY DEF Progress, Ended
<1>2. Keeps(c, b, F \union {}, Ended(c, b, D, F, left, {}, {}))
  <2>1. CanEnd(c, b, D, F, left, {}, {})
    BY DEF CanEnd
  <2> QED
    BY <2>1, OutcomeKeeps
<1>3. F \union {} = F
  OBVIOUS
<1> QED
  BY <1>1, <1>2, <1>3

LEMMA EndsCut ==
  ASSUME NEW c, NEW b, NEW D, NEW F, NEW left, NEW after,
         Progress(c, b, D, F, left, after),
         NEW m \in Contract!Crossers(b, c.side, c.price), m \notin D \union F,
         left \in 1 .. b[m].qty - 1,
         NEW after2,
         after2 = [after EXCEPT ![m] = [after[m] EXCEPT !.qty = b[m].qty - left]]
  PROVE  Keeps(c, b, F \union {m}, after2)
<1>1. m \in Ids /\ b[m] \in Shown
  BY CrosserRests DEF Progress
<1>2. after = [i \in Ids |-> IF i \in D \union F THEN NULL ELSE b[i]]
  BY DEF Progress
<1>3. after[m] = b[m]
  BY <1>1, <1>2
<1>4. [b[m] EXCEPT !.qty = @ - left] = [after[m] EXCEPT !.qty = b[m].qty - left]
  BY <1>1, <1>3 DEF Shown
<1>5. after2 = Ended(c, b, D, F, left, {m}, {})
  BY <1>1, <1>2, <1>4 DEF Ended
<1>6. CanEnd(c, b, D, F, left, {m}, {})
  BY DEF CanEnd
<1>7. Keeps(c, b, F \union {m}, Ended(c, b, D, F, left, {m}, {}))
  BY ONLY <1>6, OutcomeKeeps
<1> QED
  BY <1>5, <1>7

LEMMA EndsResting ==
  ASSUME NEW c, NEW b, NEW D, NEW F, NEW left, NEW after,
         Progress(c, b, D, F, left, after), left > 0, c.op = "insert",
         c.id \in Ids, b[c.id] = NULL,
         NEW after2,
         after2 = [after EXCEPT ![c.id] =
                     [side |-> c.side, price |-> c.price, qty |-> left]]
  PROVE  Keeps(c, b, F, after2)
<1>1. c.id \notin D \union F
  BY DEF Progress, Contract!Crossers, Contract!Resting
<1>2. after2 = Ended(c, b, D, F, left, {}, {c.id})
  BY <1>1 DEF Progress, Ended
<1>3. Keeps(c, b, F \union {}, Ended(c, b, D, F, left, {}, {c.id}))
  <2>1. CanEnd(c, b, D, F, left, {}, {c.id})
    BY DEF CanEnd
  <2> QED
    BY <2>1, OutcomeKeeps
<1>4. F \union {} = F
  OBVIOUS
<1> QED
  BY <1>2, <1>3, <1>4

LEMMA ProgressStarts ==
  ASSUME NEW c, NEW b \in Books, NEW after \in Books,
         \A i \in Ids : after[i] = NULL \/ after[i] = b[i],
         c.op = "insert" \/ (c.op = "market" /\ after = b), c.qty \in Nat
  PROVE  Progress(c, b, {i \in Ids : b[i] # NULL /\ after[i] = NULL}, {}, c.qty, after)
<1> DEFINE D == {i \in Ids : b[i] # NULL /\ after[i] = NULL}
<1>1. D \in SUBSET Contract!Resting(b)
  BY DEF Contract!Resting
<1>2. c.qty = c.qty - QtySum(b, {})
  BY QtySumOfNone
<1>3. after = [i \in Ids |-> IF i \in D \union {} THEN NULL ELSE b[i]]
  BY DEF Books
<1>4. c.op = "market" => D = {}
  OBVIOUS
<1> HIDE DEF D
<1>5. Progress(c, b, D, {}, c.qty, after)
  BY <1>1, <1>2, <1>3, <1>4, FS_EmptySet DEF Progress
<1> QED
  BY <1>5 DEF D

LEMMA ProgressFills ==
  ASSUME NEW c, NEW b, NEW D, NEW F, NEW left, NEW after,
         Progress(c, b, D, F, left, after),
         NEW m \in Contract!Crossers(b, c.side, c.price), m \notin D \union F,
         b[m].qty <= left,
         NEW after2, after2 = [after EXCEPT ![m] = NULL]
  PROVE  Progress(c, b, D, F \union {m}, left - b[m].qty, after2)
<1> DEFINE G == F \union {m}
<1>1. m \in Ids /\ b[m].qty \in Nat
  BY CrosserRests DEF Progress
<1>2. G \in SUBSET Contract!Crossers(b, c.side, c.price) /\ IsFiniteSet(G)
  BY FS_AddElement DEF Progress
<1>3. \A i \in G : b[i].qty \in Int
  BY <1>2, CrosserRests DEF Progress
<1>4. QtySum(b, G) = QtySum(b, F) + b[m].qty
  <2>1. G \ {m} = F /\ m \in G
    OBVIOUS
  <2> HIDE DEF G
  <2> QED
    BY <1>2, <1>3, <2>1, QtySumSplit
<1>5. QtySum(b, F) \in Int
  BY <1>3, QtySumType DEF Progress
<1>6. left - b[m].qty \in Nat /\ left - b[m].qty = c.qty - QtySum(b, G)
  BY <1>1, <1>4, <1>5 DEF Progress
<1>7. D \intersect G = {}
  BY DEF Progress
<1>8. after2 = [i \in Ids |-> IF i \in D \union G THEN NULL ELSE b[i]]
  BY <1>1 DEF Progress
<1> HIDE DEF G
<1>9. Progress(c, b, D, G, left - b[m].qty, after2)
  BY <1>2, <1>6, <1>7, <1>8 DEF Progress
<1> QED
  BY <1>9 DEF G

-----------------------------------------------------------------------------
(* Orders rest at the prices they were placed at.                          *)

PricesKnown == \A s \in Slots : pool[s] # NULL => base + pool[s].price \in Prices

LEMMA NewcomerRested ==
  ASSUME IInv, TopStep, NEW s \in Slots, pool[s] = NULL, pool'[s] # NULL
  PROVE  RestRemainder
<1>1. ASSUME NEW t \in Slots, pool[t] # NULL, Shrink(t) PROVE FALSE
  BY <1>1 DEF Shrink, RemoveOrder, ReduceOrder, IInv, TypeOK
<1>2. ASSUME NEW new_base \in Nat, rebase_base(new_base) PROVE FALSE
  BY <1>2, SlideMovesLists DEF Live
<1> QED
  BY <1>1, <1>2 DEF TopStep, QuietStep, RefreshedStep, FillStep, SlideStep

LEMMA PricesStayKnown ==
  ASSUME IInv, PricesKnown, [Next]_vars
  PROVE  PricesKnown'
<1> SUFFICES ASSUME NEW s \in Slots, pool'[s] # NULL
             PROVE  base' + pool'[s].price \in Prices
  BY DEF PricesKnown
<1>1. CASE pool[s] # NULL
  BY <1>1, StepEffect, EffectKeepsOrder DEF PricesKnown
<1>2. CASE pool[s] = NULL
  <2>1. RestRemainder
    BY <1>2, EveryTopStep, NewcomerRested
  <2>2. PICK t \in [id : Ids, side : Side, price : Prices, limit : Idx, left : Nat \ {0}] :
          t = taker
    <3>1. taker \in Takers /\ taker.price # NULL
      BY <2>1 DEF IInv, TypeOK, RestRemainder
    <3> QED
      BY <3>1 DEF Takers
  <2>3. pool'[s] = [id |-> t.id, side |-> t.side, price |-> t.limit, qty |-> t.left]
    BY <1>2, <2>1, <2>2 DEF RestRemainder, IInv, TypeOK
  <2>4. base' = base /\ t.price = base + t.limit
    BY <2>1, <2>2, BookAssumption DEF RestRemainder, window, IInv, TakerInWindow
  <2> QED
    BY <2>2, <2>3, <2>4
<1> QED
  BY <1>1, <1>2

LEMMA MaxOfFinite ==
  ASSUME NEW S, \A y \in S : y \in Nat, IsFiniteSet(S), NEW x \in S
  PROVE  Max(S) \in S /\ x <= Max(S)
<1>1. SUFFICES ASSUME ~ \E m \in S : \A y \in S : m >= y PROVE FALSE
  <2>1. Max(S) \in S /\ \A y \in S : Max(S) >= y
    BY <1>1 DEF Max
  <2> QED
    BY <2>1
<1> DEFINE Bad == {T \in SUBSET S : T # {} /\ ~ \E m \in T : \A y \in T : m >= y}
<1>2. Bad \in SUBSET SUBSET S /\ Bad # {}
  BY <1>1
<1> HIDE DEF Bad
<1>3. PICK T \in Bad : \A U \in SUBSET T : U \in Bad => U = T
  BY <1>2, MinimalSubset
<1>4. T \in SUBSET S /\ T # {} /\ ~ \E m \in T : \A y \in T : m >= y
  BY <1>3 DEF Bad
<1>5. PICK y \in T : TRUE
  BY <1>4
<1>6. T \ {y} \notin Bad /\ T \ {y} \in SUBSET S
  BY <1>3, <1>4, <1>5
<1>7. CASE T \ {y} = {}
  <2>1. y \in Nat /\ \A z \in T : z = y
    BY <1>4, <1>7
  <2> QED
    BY <1>4, <2>1
<1>8. CASE T \ {y} # {}
  <2>1. PICK m \in T \ {y} : \A z \in T \ {y} : m >= z
    BY <1>6, <1>8 DEF Bad
  <2>2. m \in Nat /\ y \in Nat /\ \A z \in T : z \in Nat
    BY <1>4, <2>1
  <2>3. CASE y <= m
    BY <1>4, <2>1, <2>2, <2>3
  <2>4. CASE m <= y
    <3>1. \A z \in T \ {y} : y >= z
      BY <2>1, <2>2, <2>4
    <3>2. \A z \in T : y >= z
      BY <2>2, <3>1
    <3> QED
      BY <1>4, <3>2
  <2> QED
    BY <2>2, <2>3, <2>4
<1> QED
  BY <1>7, <1>8

(* A market order may trade with every order of the other side.            *)
LEMMA MarketCrossesAll ==
  ASSUME IInv, PricesKnown, NEW side \in Side, NEW i \in Ids, View[i] # NULL,
         View[i].side = Opposite(side)
  PROVE  i \in Contract!Crossers(View, side,
                                IF side = "BUY" THEN Max(Prices) ELSE 0)
<1>1. id_map[i] # NULL
  BY ViewType
<1>2. PICK s \in Slots : s = id_map[i] /\ pool[s] # NULL
  BY <1>1, KnownIdRests
<1>3. View[i].price = base + pool[s].price
  <2>1. View[i] = Face(pool[s], base)
    BY <1>1, <1>2, ViewType
  <2> QED
    BY <2>1 DEF Face
<1>4. View[i].price \in Prices
  BY <1>2, <1>3 DEF PricesKnown
<1>5. View[i].price <= Max(Prices) /\ View[i].price >= 0
  <2>1. (\A p \in Prices : p \in Nat) /\ IsFiniteSet(Prices)
    BY BookAssumption, CallsAssumption
  <2>2. \A p \in Prices : p <= Max(Prices) /\ p >= 0
    BY <2>1, MaxOfFinite
  <2> QED
    BY <1>4, <2>2
<1>6. i \in Contract!Resting(View)
  BY DEF Contract!Resting
<1> QED
  BY <1>5, <1>6 DEF Contract!Crossers, Contract!Opposite, Opposite, Side

-----------------------------------------------------------------------------
(* One fill, as the callers see it.                                        *)

(* The order filled is on the other side and within a limit order's price, *)
(* and it is filled whole or uses up the taker.                            *)
Fills(t, m, v, v2, t2) ==
  /\ m \in Ids /\ v[m] # NULL /\ v[m].side = Opposite(t.side)
  /\ t.price # NULL => IF t.side = "BUY" THEN v[m].price <= t.price
                                         ELSE v[m].price >= t.price
  /\ \/ /\ v[m].qty <= t.left
        /\ v2 = [v EXCEPT ![m] = NULL]
        /\ t2 # NULL => /\ t2.left = t.left - v[m].qty
                        /\ t2.side = t.side /\ t2.price = t.price /\ t2.id = t.id
     \/ /\ t.left < v[m].qty
        /\ v2 = [v EXCEPT ![m] = [v[m] EXCEPT !.qty = v[m].qty - t.left]]
        /\ t2 = NULL

LEMMA FillInView ==
  ASSUME IInv, taker # NULL, NEW maker \in Side, maker = Opposite(taker.side),
         best[maker] # NoLevel, Crosses(taker), Match(maker)
  PROVE  \E m \in Ids : /\ Reported = {m}
                        /\ Fills(taker, m, View, View', taker')
<1>1. PICK t \in Takers : t = taker
  BY DEF IInv, TypeOK
<1>2. t.left \in Nat \ {0}
  BY DEF Takers
<1>3. PICK i \in Idx : i = best[maker]
  BY HeadOfBestRests
<1>4. PICK s \in Slots : s = Head(queue[maker][i])
  BY <1>3, HeadOfBestRests
<1>5. PICK o \in Order : o = pool[s] /\ o.side = maker /\ o.price = i
  BY <1>3, <1>4, HeadOfBestRests
<1>6. o.qty \in Nat \ {0}
  BY DEF Order
<1> DEFINE qty  == Min({t.left, o.qty})
           left == t.left - qty
           v == View[o.id]
<1>7. /\ IF qty = o.qty THEN RemoveOrder(s) ELSE ReduceOrder(s, qty)
      /\ trade' = [maker |-> o.id, taker |-> t.id,
                   price |-> level_price[maker][i], qty |-> qty]
      /\ taker' = IF left = 0 THEN NULL ELSE [t EXCEPT !.left = left]
      /\ base' = base
  BY <1>1, <1>3, <1>4, <1>5 DEF Match, window
<1>8. qty = IF t.left <= o.qty THEN t.left ELSE o.qty
  BY <1>2, <1>6, MinOfTwo
<1> HIDE DEF qty
<1>9. o.id \in Ids /\ v = Face(o, base) /\ v # NULL
  BY <1>5, ViewOfOrder
<1>10. v.side = maker /\ v.price = base + i /\ v.qty = o.qty
  BY <1>5, <1>9 DEF Face
<1>11. trade' # NULL /\ trade'.maker = o.id /\ trade'.price = base + i
  <2>1. trade' \in Trades \union {NULL}
    BY MatchKeepsInvariant DEF IInv, TypeOK
  <2>2. level_price[maker][i] = base + i
    BY <1>5, RestingOrderIsFound
  <2>3. t.id \in Ids \union {NULL} /\ base + i \in Nat /\ qty \in Nat
    <3>1. t.id \in Ids \union {NULL} /\ qty \in Nat
      BY <1>2, <1>6, <1>8 DEF Takers
    <3>2. base \in Nat /\ i \in Nat
      BY DEF IInv, TypeOK, Idx
    <3> QED
      BY <3>1, <3>2
  <2>4. trade' \in Trades
    BY <1>7, <1>9, <2>2, <2>3 DEF Trades
  <2> QED
    BY <1>7, <2>2, <2>4, CallsAssumption
<1>12. t.price # NULL => IF t.side = "BUY" THEN v.price <= t.price
                                          ELSE v.price >= t.price
  BY <1>1, <1>10, <1>11, MatchConserves DEF TradeConserves
<1>13. Reported = {o.id}
  BY <1>11 DEF Reported
<1> HIDE DEF v
<1>14. Fills(t, o.id, View, View', taker')
  <2>1. View[o.id] = v /\ t.side = taker.side
    BY <1>1 DEF v
  <2>2. CASE o.qty <= t.left
    <3>1. qty = o.qty /\ left = t.left - o.qty
      BY <1>2, <1>6, <1>8, <2>2
    <3>2. View' = [View EXCEPT ![o.id] = NULL]
      BY <1>5, <1>7, <3>1, ViewRemoved
    <3>3. taker' # NULL =>
            /\ taker'.left = t.left - o.qty /\ taker'.side = t.side
            /\ taker'.price = t.price /\ taker'.id = t.id
      BY <1>7, <3>1 DEF Takers
    <3> QED
      BY <1>9, <1>10, <1>12, <2>1, <2>2, <3>2, <3>3 DEF Fills
  <2>3. CASE t.left < o.qty
    <3>1. qty = t.left /\ qty < o.qty /\ qty \in Nat /\ left = 0
      BY <1>2, <1>6, <1>8, <2>3
    <3>2. View' = [View EXCEPT ![o.id] = [View[o.id] EXCEPT !.qty = o.qty - t.left]]
      BY <1>5, <1>7, <3>1, ViewReduced
    <3>3. taker' = NULL
      BY <1>7, <3>1
    <3> QED
      BY <1>9, <1>10, <1>12, <2>1, <2>3, <3>2, <3>3 DEF Fills
  <2> QED
    BY <1>2, <1>6, <2>2, <2>3
<1> QED
  BY <1>1, <1>9, <1>13, <1>14

-----------------------------------------------------------------------------
(* The invariant of a call under way.                                      *)

AllCross(c, b) ==
  \A i \in Ids : b[i] # NULL /\ b[i].side = Opposite(c.side) =>
                 i \in Contract!Crossers(b, c.side, c.price)

(* What the taker of a call still is.                                      *)
Carries(c, b, t) ==
  /\ c.side = t.side /\ t.side \in Side
  /\ \/ /\ c.op = "insert" /\ c.id \in Ids /\ b[c.id] = NULL
        /\ t.price # NULL /\ c.id = t.id /\ c.price = t.price
     \/ /\ c.op = "market" /\ t.price = NULL /\ AllCross(c, b)

UnderWay(c, b, m, v, t) ==
  Carries(c, b, t) /\ \E D : Progress(c, b, D, m, t.left, v)

CallInv ==
  /\ kept = TRUE
  /\ taker # NULL => UnderWay(call, before, makers, View, taker)

(* A call that is not over goes on as the step left it; one that is over   *)
(* must have kept the contract.                                            *)
Concludes(c, b, m, v, t) ==
  IF t = NULL THEN Keeps(c, b, m, v) ELSE UnderWay(c, b, m, v, t)

LEMMA StepKeepsCalls ==
  ASSUME CallInv, NEW c, NEW b, NEW m, Step(c, b, m),
         Concludes(c, b, m, View', taker')
  PROVE  CallInv'
BY DEF CallInv, Step, Concludes

LEMMA FillConcludes ==
  ASSUME NEW c, NEW b, NEW ms, NEW v, NEW t, t.left \in Nat \ {0},
         UnderWay(c, b, ms, v, t), NEW m, NEW v2, NEW t2, Fills(t, m, v, v2, t2)
  PROVE  Concludes(c, b, ms \union {m}, v2, t2)
<1>1. PICK D : Progress(c, b, D, ms, t.left, v)
  BY DEF UnderWay
<1>2. m \in Ids /\ v[m] # NULL /\ m \notin D \union ms /\ v[m] = b[m]
  BY <1>1 DEF Progress, Fills
<1>3. m \in Contract!Crossers(b, c.side, c.price)
  <2>1. b[m].side = Opposite(c.side) /\ m \in Contract!Resting(b)
    BY <1>2 DEF Fills, UnderWay, Carries, Contract!Resting
  <2>2. CASE c.op = "market"
    BY <1>2, <2>1, <2>2 DEF UnderWay, Carries, AllCross
  <2>3. CASE c.op # "market"
    BY <1>2, <2>1, <2>3 DEF UnderWay, Carries, Fills, Contract!Crossers,
                            Contract!Opposite, Opposite
  <2> QED
    BY <2>2, <2>3
<1>4. b[m].qty \in Nat \ {0}
  BY <1>1, <1>3, CrosserRests DEF Progress
<1>5. CASE b[m].qty <= t.left /\ v2 = [v EXCEPT ![m] = NULL]
  <2>1. Progress(c, b, D, ms \union {m}, t.left - b[m].qty, v2)
    BY <1>1, <1>2, <1>3, <1>5, ProgressFills
  <2>2. CASE t2 = NULL
    <3>1. Keeps(c, b, ms \union {m}, v2)
      BY <2>1, EndsDropped
    <3> QED
      BY <2>2, <3>1 DEF Concludes
  <2>3. CASE t2 # NULL
    <3>1. /\ t2.left = t.left - b[m].qty
          /\ t2.side = t.side /\ t2.price = t.price /\ t2.id = t.id
      BY <1>2, <2>3 DEF Fills
    <3>2. Carries(c, b, t2)
      BY <3>1 DEF UnderWay, Carries
    <3> QED
      BY <2>1, <2>3, <3>1, <3>2 DEF Concludes, UnderWay
  <2> QED
    BY <2>2, <2>3
<1>6. CASE /\ t.left < b[m].qty /\ t2 = NULL
           /\ v2 = [v EXCEPT ![m] = [v[m] EXCEPT !.qty = v[m].qty - t.left]]
  <2>1. t.left \in 1 .. b[m].qty - 1
    BY <1>4, <1>6
  <2>2. v2 = [v EXCEPT ![m] = [v[m] EXCEPT !.qty = b[m].qty - t.left]]
    BY <1>2, <1>6
  <2>3. Keeps(c, b, ms \union {m}, v2)
    BY <1>1, <1>2, <1>3, <2>1, <2>2, EndsCut
  <2> QED
    BY <1>6, <2>3 DEF Concludes
<1> QED
  BY <1>2, <1>5, <1>6 DEF Fills

LEMMA MatchKeepsCalls ==
  ASSUME IInv, CallInv, Step(call, before, makers \union Reported),
         match_against_asks \/ match_against_bids
  PROVE  CallInv'
<1>1. taker # NULL /\ Crosses(taker)
  BY DEF match_against_asks, match_against_bids
<1>2. PICK maker \in Side : maker = Opposite(taker.side) /\ Match(maker)
  BY DEF match_against_asks, match_against_bids, Opposite, Side
<1>3. best[maker] # NoLevel
  BY <1>1, <1>2, CrossedBestExists
<1>4. PICK m \in Ids : Reported = {m} /\ Fills(taker, m, View, View', taker')
  BY <1>1, <1>2, <1>3, FillInView
<1>5. taker.left \in Nat \ {0}
  BY <1>1 DEF IInv, TypeOK, Takers
<1>6. UnderWay(call, before, makers, View, taker)
  BY <1>1 DEF CallInv
<1>7. Concludes(call, before, makers \union {m}, View', taker')
  BY <1>4, <1>5, <1>6, FillConcludes
<1> QED
  BY <1>4, <1>7, StepKeepsCalls

LEMMA RestKeepsCalls ==
  ASSUME IInv, CallInv, Step(call, before, makers \union Reported), RestRemainder
  PROVE  CallInv'
<1>1. taker # NULL /\ taker' = NULL /\ Reported = {} /\ taker.price # NULL
  BY DEF RestRemainder, Reported
<1>2. taker.left \in Nat \ {0}
  BY <1>1 DEF IInv, TypeOK, Takers
<1>3. Carries(call, before, taker)
  BY <1>1 DEF CallInv, UnderWay
<1>4. PICK D : Progress(call, before, D, makers, taker.left, View)
  BY <1>1 DEF CallInv, UnderWay
<1>5. View' = [View EXCEPT ![call.id] =
                 [side |-> call.side, price |-> call.price, qty |-> taker.left]]
  BY <1>1, <1>3, ViewGrown DEF Carries
<1>6. Keeps(call, before, makers, View')
  <2>1. call.op = "insert" /\ call.id \in Ids /\ before[call.id] = NULL
    BY <1>1, <1>3 DEF Carries
  <2>2. taker.left > 0
    BY <1>2
  <2> QED
    BY <1>4, <1>5, <2>1, <2>2, EndsResting
<1>7. makers \union Reported = makers
  BY <1>1
<1>8. Concludes(call, before, makers \union Reported, View', taker')
  BY <1>1, <1>6, <1>7 DEF Concludes
<1> QED
  BY <1>8, StepKeepsCalls

LEMMA DiscardKeepsCalls ==
  ASSUME IInv, CallInv, Step(call, before, makers \union Reported), DiscardRemainder
  PROVE  CallInv'
<1>1. taker # NULL /\ taker' = NULL /\ Reported = {}
  BY DEF DiscardRemainder, Reported
<1>2. PICK D : Progress(call, before, D, makers, taker.left, View)
  BY <1>1 DEF CallInv, UnderWay
<1>3. View' = View
  BY ViewStays DEF DiscardRemainder, window
<1>4. Keeps(call, before, makers, View)
  BY <1>2, EndsDropped
<1>5. makers \union Reported = makers
  BY <1>1
<1>6. Concludes(call, before, makers \union Reported, View', taker')
  BY <1>1, <1>3, <1>4, <1>5 DEF Concludes
<1> QED
  BY <1>6, StepKeepsCalls

(* A call that matches begins: the view is as before, or has lost orders.  *)
LEMMA CallBegins ==
  ASSUME NEW c, NEW b \in Books, NEW v \in Books, NEW t,
         \A i \in Ids : v[i] = NULL \/ v[i] = b[i],
         c.op = "insert" \/ (c.op = "market" /\ v = b), c.qty \in Nat,
         t # NULL => t.left = c.qty /\ Carries(c, b, t)
  PROVE  Concludes(c, b, {}, v, t)
<1>1. PICK D : Progress(c, b, D, {}, c.qty, v)
  BY ProgressStarts
<1>2. CASE t = NULL
  BY <1>1, <1>2, EndsDropped DEF Concludes
<1>3. CASE t # NULL
  BY <1>1, <1>3 DEF Concludes, UnderWay
<1> QED
  BY <1>2, <1>3

LEMMA InsertKeepsCalls ==
  ASSUME IInv, CallInv, NEW id \in Ids, NEW side \in Side, NEW price \in Prices,
         NEW qty \in Quantities, id_map[id] = NULL,
         insert_limit_order(id, side, price, qty), Asked("insert", id, side, price, qty)
  PROVE  CallInv'
<1> DEFINE c == [op |-> "insert", id |-> id, side |-> side, price |-> price, qty |-> qty]
<1>1. /\ c.op = "insert" /\ c.id = id /\ c.side = side /\ c.price = price /\ c.qty = qty
      /\ Step(c, View, Reported)
  BY DEF Asked
<1> HIDE DEF c
<1>2. Reported = {} /\ qty \in Nat /\ price # NULL
  BY BookAssumption DEF insert_limit_order, Reported
<1>3. View \in Books /\ View[id] = NULL
  BY ViewType
<1>4. \A i \in Ids : View'[i] = NULL \/ View'[i] = View[i]
  <2>1. CASE AcceptInBand(id, side, price, qty) \/ RejectOutOfBand(price)
    <3>1. UNCHANGED <<pool, id_map>>
      BY <2>1 DEF AcceptInBand, RejectOutOfBand
    <3>2. QuietStep \/ SlideStep
      BY InsertTopStep
    <3>3. CASE QuietStep
      BY <3>1, <3>3, ViewStays DEF QuietStep
    <3>4. CASE SlideStep
      BY <3>4, ViewSlid DEF SlideStep
    <3> QED
      BY <3>2, <3>3, <3>4
  <2>2. CASE AcceptAfterRebase(id, side, price, qty)
    <3>1. price \in Nat
      BY BookAssumption
    <3>2. Centred(price) \in Nat /\ rebase_base(Centred(price))
      BY <2>2, <3>1, CentredInWindow DEF AcceptAfterRebase
    <3> QED
      BY <3>2, ViewSlid
  <2> QED
    BY <2>1, <2>2 DEF insert_limit_order
<1>5. View' \in Books
  <2>1. View' = [i \in Ids |-> View'[i]]
    BY DEF View
  <2> QED
    BY <1>3, <1>4, <2>1 DEF Books
<1>6. taker' # NULL => /\ taker'.left = qty /\ taker'.side = side
                       /\ taker'.price = price /\ taker'.id = id
  <2>1. taker = NULL
    BY DEF insert_limit_order
  <2> QED
    BY <2>1 DEF insert_limit_order, AcceptInBand, AcceptAfterRebase,
                RejectOutOfBand, Taker
<1>7. taker' # NULL => Carries(c, View, taker')
  BY <1>1, <1>2, <1>3, <1>6 DEF Carries
<1>8. Concludes(c, View, {}, View', taker')
  BY <1>1, <1>2, <1>3, <1>4, <1>5, <1>6, <1>7, CallBegins
<1> QED
  BY <1>1, <1>2, <1>8, StepKeepsCalls

LEMMA MarketKeepsCalls ==
  ASSUME IInv, CallInv, PricesKnown, NEW side \in Side, NEW qty \in Quantities,
         process_market_order(side, qty),
         Asked("market", NULL, side, IF side = "BUY" THEN Max(Prices) ELSE 0, qty)
  PROVE  CallInv'
<1> DEFINE limit == IF side = "BUY" THEN Max(Prices) ELSE 0
           c == [op |-> "market", id |-> NULL, side |-> side, price |-> limit, qty |-> qty]
<1>1. Step(c, View, Reported)
  BY DEF Asked
<1>2. c.op = "market" /\ c.side = side /\ c.price = limit /\ c.qty = qty
  OBVIOUS
<1>3. \A i \in Ids : View[i] # NULL /\ View[i].side = Opposite(side) =>
                     i \in Contract!Crossers(View, side, limit)
  BY MarketCrossesAll
<1> HIDE DEF c, limit
<1>4. Reported = {} /\ qty \in Nat
  BY BookAssumption DEF process_market_order, Reported
<1>5. View' = View
  BY ViewStays DEF process_market_order, window
<1>6. View \in Books
  BY ViewType
<1>7. taker' # NULL => taker'.left = qty /\ taker'.side = side /\ taker'.price = NULL
  BY DEF process_market_order, Taker
<1>8. AllCross(c, View)
  BY <1>2, <1>3 DEF AllCross
<1>9. taker' # NULL => Carries(c, View, taker')
  BY <1>2, <1>7, <1>8 DEF Carries
<1>10. Concludes(c, View, {}, View, taker')
  BY <1>2, <1>4, <1>6, <1>7, <1>9, CallBegins
<1> QED
  BY <1>1, <1>4, <1>5, <1>10, StepKeepsCalls

-----------------------------------------------------------------------------
(* Calls on one resting order.                                             *)

LEMMA OneOrder ==
  ASSUME IInv, NEW id \in Ids, id_map[id] # NULL
  PROVE  \E s \in Slots, o \in Order :
           /\ s = id_map[id] /\ o = pool[s] /\ o.id = id
           /\ View[id] # NULL /\ View[id].qty = o.qty
<1>1. PICK s \in Slots : s = id_map[id] /\ pool[s] # NULL
  BY KnownIdRests
<1>2. PICK o \in Order : o = pool[s]
  BY <1>1 DEF IInv, TypeOK
<1>3. o.id = id
  BY <1>1, <1>2 DEF IInv, Shelves, Exact
<1>4. View[id] = Face(o, base) /\ View[id] # NULL
  BY <1>2, <1>3, ViewOfOrder
<1> QED
  BY <1>1, <1>2, <1>3, <1>4 DEF Face

LEMMA CancelKeepsCalls ==
  ASSUME IInv, CallInv, NEW id \in Ids, cancel_order(id),
         Asked("cancel", id, NULL, NULL, NULL)
  PROVE  CallInv'
<1> DEFINE c == [op |-> "cancel", id |-> id, side |-> NULL, price |-> NULL, qty |-> NULL]
<1>1. Step(c, View, Reported) /\ c.op = "cancel" /\ c.id = id
  BY DEF Asked
<1> HIDE DEF c
<1>2. taker' = NULL /\ id_map[id] # NULL /\ RemoveOrder(id_map[id]) /\ base' = base
  BY DEF cancel_order, window
<1>3. View' = [View EXCEPT ![id] = NULL]
  BY <1>2, OneOrder, ViewRemoved
<1>4. Keeps(c, View, Reported, View')
  BY <1>1, <1>3 DEF Keeps, Contract!AfterCancel
<1> QED
  BY <1>1, <1>2, <1>4, StepKeepsCalls DEF Concludes

(* What is taken from an order, the view gives up.                         *)
LEMMA ReductionInView ==
  ASSUME IInv, NEW id \in Ids, NEW qty \in Nat, NEW s, s = id_map[id], s # NULL,
         IF qty >= pool[s].qty THEN RemoveOrder(s) ELSE ReduceOrder(s, qty),
         base' = base
  PROVE  View' = Contract!AfterReduce(View, id, qty)
<1>1. PICK o \in Order : /\ s \in Slots /\ o = pool[s] /\ o.id = id
                         /\ View[id] # NULL /\ View[id].qty = o.qty
  BY OneOrder
<1>2. o.qty \in Nat
  BY DEF Order
<1>3. CASE qty >= o.qty
  <2>1. View' = [View EXCEPT ![id] = NULL]
    BY <1>1, <1>3, ViewRemoved
  <2> QED
    BY <1>1, <1>3, <2>1 DEF Contract!AfterReduce, Contract!Removes, Contract!AfterCancel
<1>4. CASE qty < o.qty
  <2>1. View' = [View EXCEPT ![id] = [View[id] EXCEPT !.qty = o.qty - qty]]
    <3>1. ReduceOrder(s, qty) /\ s \in Slots
      BY <1>1, <1>2, <1>4
    <3>2. View' = [View EXCEPT ![o.id] = [View[o.id] EXCEPT !.qty = o.qty - qty]]
      <4>1. IInv /\ base' = base /\ o \in Order /\ qty \in Nat
        OBVIOUS
      <4>2. o = pool[s]
        BY <1>1
      <4> QED
        BY ONLY <1>4, <3>1, <4>1, <4>2, ViewReduced
    <3> QED
      BY <1>1, <3>2
  <2>2. ~ Contract!Removes(View, id, qty)
    BY <1>1, <1>2, <1>4 DEF Contract!Removes
  <2>3. View \in Books
    BY ViewType
  <2>4. [View[id] EXCEPT !.qty = @ - qty] = [View[id] EXCEPT !.qty = o.qty - qty]
    <3>1. View[id] \in Shown
      BY <1>1, <2>3 DEF Books
    <3> HIDE DEF View
    <3> QED
      BY <1>1, <3>1 DEF Shown
  <2> HIDE DEF View
  <2> QED
    BY <1>1, <2>1, <2>2, <2>3, <2>4 DEF Contract!AfterReduce, Books
<1> QED
  BY <1>2, <1>3, <1>4

LEMMA ReduceKeepsCalls ==
  ASSUME IInv, CallInv, NEW id \in Ids, NEW qty \in Nat, reduce_order_qty(id, qty),
         Asked("reduce", id, NULL, NULL, qty)
  PROVE  CallInv'
<1> DEFINE c == [op |-> "reduce", id |-> id, side |-> NULL, price |-> NULL, qty |-> qty]
<1>1. Step(c, View, Reported) /\ c.op = "reduce" /\ c.id = id /\ c.qty = qty
  BY DEF Asked
<1> HIDE DEF c
<1>2. /\ taker' = NULL /\ id_map[id] # NULL /\ base' = base
      /\ IF qty >= pool[id_map[id]].qty THEN RemoveOrder(id_map[id])
                                         ELSE ReduceOrder(id_map[id], qty)
  BY DEF reduce_order_qty, window
<1>3. View' = Contract!AfterReduce(View, id, qty)
  BY <1>2, ReductionInView
<1>4. Keeps(c, View, Reported, View')
  BY <1>1, <1>3 DEF Keeps
<1> QED
  BY <1>1, <1>2, <1>4, StepKeepsCalls DEF Concludes

LEMMA ExecuteKeepsCalls ==
  ASSUME IInv, CallInv, NEW id \in Ids, NEW qty \in Nat, execute_order(id, qty),
         Asked("execute", id, NULL, NULL, qty)
  PROVE  CallInv'
<1> DEFINE c == [op |-> "execute", id |-> id, side |-> NULL, price |-> NULL, qty |-> qty]
<1>1. Step(c, View, Reported) /\ c.op = "execute" /\ c.id = id /\ c.qty = qty
  BY DEF Asked
<1> HIDE DEF c
<1>2. /\ taker' = NULL /\ id_map[id] # NULL /\ base' = base
      /\ IF qty >= pool[id_map[id]].qty THEN RemoveOrder(id_map[id])
                                         ELSE ReduceOrder(id_map[id], qty)
  BY DEF execute_order, window
<1>3. View' = Contract!AfterReduce(View, id, qty)
  BY <1>2, ReductionInView
<1>4. Reported = {id}
  <2>1. trade'.maker = id
    BY <1>2, OneOrder DEF execute_order
  <2>2. trade' # NULL
    <3>1. trade' \in Trades
      <4>1. PICK s \in Slots, o \in Order : s = id_map[id] /\ o = pool[s]
        BY <1>2, OneOrder
      <4>2. trade' = [maker |-> o.id, taker |-> NULL,
                      price |-> level_price[o.side][o.price],
                      qty |-> Min({qty, o.qty})]
        BY <4>1 DEF execute_order
      <4>3. o.id \in Ids /\ o.side \in Side /\ o.price \in Idx /\ o.qty \in Nat
        BY DEF Order
      <4>4. level_price[o.side][o.price] \in Nat /\ Min({qty, o.qty}) \in Nat
        BY <4>3, MinOfTwo DEF IInv, TypeOK
      <4> QED
        BY <4>2, <4>3, <4>4 DEF Trades
    <3> QED
      BY <3>1, CallsAssumption
  <2> QED
    BY <2>1, <2>2 DEF Reported
<1>5. Keeps(c, View, Reported, View')
  BY <1>1, <1>3, <1>4 DEF Keeps
<1> QED
  BY <1>1, <1>2, <1>5, StepKeepsCalls DEF Concludes

-----------------------------------------------------------------------------
LEMMA CallsInit == CallInit => IInv /\ PricesKnown /\ CallInv
<1> SUFFICES ASSUME CallInit PROVE IInv /\ PricesKnown /\ CallInv
  OBVIOUS
<1>1. IInv
  BY InitEstablishesInvariant DEF CallInit
<1>2. PricesKnown
  BY DEF CallInit, Init, PricesKnown
<1>3. CallInv
  BY DEF CallInit, Init, CallInv
<1> QED
  BY <1>1, <1>2, <1>3

LEMMA CallsStep ==
  IInv /\ PricesKnown /\ CallInv /\ [CallNext]_allvars =>
    IInv' /\ PricesKnown' /\ CallInv'
<1> SUFFICES ASSUME IInv, PricesKnown, CallInv, [CallNext]_allvars
             PROVE  IInv' /\ PricesKnown' /\ CallInv'
  OBVIOUS
<1>1. [Next]_vars
  BY DEF CallNext, Next, Call, allvars
<1>2. IInv' /\ PricesKnown'
  BY <1>1, StepKeepsInvariant, PricesStayKnown
<1>3. ASSUME NEW id \in Ids, NEW side \in Side, NEW price \in Prices,
             NEW qty \in Quantities, id_map[id] = NULL,
             insert_limit_order(id, side, price, qty),
             Asked("insert", id, side, price, qty)
      PROVE  CallInv'
  BY <1>3, InsertKeepsCalls
<1>4. ASSUME NEW side \in Side, NEW qty \in Quantities,
             process_market_order(side, qty),
             Asked("market", NULL, side, IF side = "BUY" THEN Max(Prices) ELSE 0, qty)
      PROVE  CallInv'
  BY <1>4, MarketKeepsCalls
<1>5. ASSUME NEW id \in Ids, cancel_order(id), Asked("cancel", id, NULL, NULL, NULL)
      PROVE  CallInv'
  BY <1>5, CancelKeepsCalls
<1>6. ASSUME NEW id \in Ids, NEW qty \in Quantities, execute_order(id, qty),
             Asked("execute", id, NULL, NULL, qty)
      PROVE  CallInv'
  BY <1>6, ExecuteKeepsCalls, BookAssumption
<1>7. ASSUME NEW id \in Ids, NEW qty \in Quantities, reduce_order_qty(id, qty),
             Asked("reduce", id, NULL, NULL, qty)
      PROVE  CallInv'
  BY <1>7, ReduceKeepsCalls, BookAssumption
<1>8. ASSUME Continue, Step(call, before, makers \union Reported) PROVE CallInv'
  BY <1>8, MatchKeepsCalls, RestKeepsCalls, DiscardKeepsCalls DEF Continue
<1>9. ASSUME UNCHANGED allvars PROVE CallInv'
  <2>1. UNCHANGED <<pool, id_map, base, taker, call, before, makers, kept>>
    BY <1>9 DEF allvars, vars, window
  <2>2. View' = View
    BY <2>1, ViewStays
  <2> QED
    BY <2>1, <2>2 DEF CallInv
<1>10. ASSUME CallNext PROVE CallInv'
  BY <1>3, <1>4, <1>5, <1>6, <1>7, <1>8, <1>10 DEF CallNext
<1> QED
  BY <1>2, <1>9, <1>10

(* Every call of the book, for every window, pool size, set of prices and  *)
(* history of calls, slides and exhausted pool included, returns with the  *)
(* book in a state the contract allows and having reported just the makers *)
(* it names.                                                               *)
THEOREM CallsKeepContract == CallSpec => []KeepsContract
<1>1. CallInv => KeepsContract
  BY DEF CallInv, KeepsContract
<1> QED
  BY <1>1, CallsInit, CallsStep, PTL DEF CallSpec

-----------------------------------------------------------------------------
(* The book against the abstract price-time book.                          *)

(* A list of slots as the queue of orders it stands for.                   *)
Shelf(P, q) == [k \in DOMAIN q |-> [id |-> P[q[k]].id, qty |-> P[q[k]].qty]]

(* The list of a price, before and after the window is anchored.           *)
ListAt(Q, b, set, side, p) == IF set THEN Q[side][p - b] ELSE <<>>

Shelving ==
  [side \in Side |-> [p \in Prices |->
     Shelf(pool, ListAt(queue, base, base_set, side, p))]]

LEMMA BookIsShelves == Book = Shelving
<1>1. Shelf(pool, <<>>) = <<>>
  BY DEF Shelf
<1> QED
  BY <1>1 DEF Book, Shelving, Shelf, ListAt

LEMMA BookIsShelvesAfter == (Book = Shelving)'
BY BookIsShelves, PTL

(* What the refinement needs beside the invariant: while the window has    *)
(* every price, it does not move, and then the cached best is exact.       *)
MarketSweeps ==
  taker # NULL /\ taker.price = NULL =>
    taker.limit = IF taker.side = "BUY" THEN Band - 1 ELSE 0

RInv ==
  /\ IInv /\ PricesKnown
  /\ BestExact /\ NotCrossed
  /\ MarketSweeps
  /\ base_set => \A p \in Prices : p - base \in Idx

LEMMA PriceAndIndex ==
  ASSUME RInv, base_set
  PROVE  /\ base \in Nat
         /\ \A p \in Prices : p \in Nat /\ p - base \in Idx /\ base + (p - base) = p
         /\ \A i \in Idx : (base + i) - base = i
<1>1. base \in Nat
  BY DEF RInv, IInv, TypeOK
<1>2. ASSUME NEW p \in Prices PROVE p \in Nat /\ p - base \in Idx /\ base + (p - base) = p
  <2>1. p \in Nat /\ p - base \in Idx
    BY BookAssumption DEF RInv
  <2> QED
    BY <1>1, <2>1
<1>3. ASSUME NEW i \in Idx PROVE (base + i) - base = i
  BY <1>1 DEF Idx
<1> QED
  BY <1>1, <1>2, <1>3

(* Every order has its price, its level and its place in it.               *)
LEMMA OrderIsPlaced ==
  ASSUME RInv, NEW s \in Slots, NEW o \in Order, o = pool[s]
  PROVE  /\ base_set
         /\ o.side \in Side /\ o.price \in Idx /\ base + o.price \in Prices
         /\ (base + o.price) - base = o.price
         /\ \E k \in DOMAIN queue[o.side][o.price] : queue[o.side][o.price][k] = s
<1>1. o.side \in Side /\ o.price \in Idx /\ o # NULL
  BY NullAssumption DEF Order
<1>2. s \in Range(queue[o.side][o.price])
  BY <1>1 DEF RInv, IInv, Shelves, Partition
<1>3. queue[o.side][o.price] # <<>>
  BY <1>2, OccupiedRange
<1>4. base_set
  BY <1>1, <1>3 DEF RInv, IInv, AnchoredFirst
<1>5. base + o.price \in Prices
  BY <1>1 DEF RInv, PricesKnown
<1>6. (base + o.price) - base = o.price
  BY <1>1, <1>4, PriceAndIndex
<1> QED
  BY <1>1, <1>2, <1>4, <1>5, <1>6 DEF Range

(* What stands in a list.                                                  *)
LEMMA ListHolds ==
  ASSUME IInv, NEW side \in Side, NEW i \in Idx, NEW q, q = queue[side][i]
  PROVE  /\ q \in Seq(Slots) /\ Injective(q) /\ DOMAIN q = 1 .. Len(q) /\ Len(q) \in Nat
         /\ \A k \in 1 .. Len(q) :
              /\ q[k] \in Slots /\ pool[q[k]] # NULL /\ pool[q[k]] \in Order
              /\ pool[q[k]].side = side /\ pool[q[k]].price = i
<1>1. q \in Seq(Slots) /\ Injective(q)
  BY DEF IInv, TypeOK, Shelves, Partition
<1>2. DOMAIN q = 1 .. Len(q) /\ Len(q) \in Nat
  BY <1>1, LenProperties
<1>3. Range(q) = {s \in Slots : pool[s] # NULL /\ pool[s].side = side /\ pool[s].price = i}
  BY DEF IInv, Shelves, Partition
<1>4. \A k \in 1 .. Len(q) : q[k] \in Range(q)
  BY <1>2 DEF Range
<1>5. \A s \in Slots : pool[s] # NULL => pool[s] \in Order
  BY DEF IInv, TypeOK
<1> QED
  BY <1>1, <1>2, <1>3, <1>4, <1>5

LEMMA ShelfIs ==
  ASSUME NEW q \in Seq(Slots), NEW P
  PROVE  /\ DOMAIN Shelf(P, q) = 1 .. Len(q)
         /\ \A k \in 1 .. Len(q) : /\ Shelf(P, q)[k].id = P[q[k]].id
                                   /\ Shelf(P, q)[k].qty = P[q[k]].qty
                                   /\ Shelf(P, q)[k] = [id |-> P[q[k]].id, qty |-> P[q[k]].qty]
         /\ Shelf(P, q) = <<>> <=> q = <<>>
<1>1. DOMAIN q = 1 .. Len(q) /\ Len(q) \in Nat
  BY LenProperties
<1>2. DOMAIN Shelf(P, q) = 1 .. Len(q)
  BY <1>1 DEF Shelf
<1>3. q = <<>> => Shelf(P, q) = <<>>
  BY DEF Shelf
<1>4. q # <<>> => 1 \in DOMAIN Shelf(P, q)
  BY <1>1, <1>2, EmptySeq
<1>5. DOMAIN <<>> = {}
  OBVIOUS
<1> QED
  BY <1>1, <1>2, <1>3, <1>4, <1>5 DEF Shelf

(* An order of the abstract book is the one at that place of the list.     *)
LEMMA PlacesAre ==
  ASSUME RInv, NEW side \in Side, NEW p \in Prices, NEW k
  PROVE  k \in DOMAIN Book[side][p] <=> base_set /\ k \in 1 .. Len(queue[side][p - base])
<1>1. Book[side][p] = Shelf(pool, ListAt(queue, base, base_set, side, p))
  BY BookIsShelves DEF Shelving
<1>2. CASE base_set
  <2>1. p - base \in Idx
    BY <1>2, PriceAndIndex
  <2>2. queue[side][p - base] \in Seq(Slots)
    BY <2>1, ListHolds DEF RInv
  <2> QED
    BY <1>1, <1>2, <2>2, ShelfIs DEF ListAt
<1>3. CASE ~ base_set
  BY <1>1, <1>3 DEF ListAt, Shelf
<1> QED
  BY <1>2, <1>3

LEMMA ListIsShort ==
  ASSUME IInv, NEW side \in Side, NEW i \in Idx
  PROVE  Len(queue[side][i]) <= Cardinality(Slots)
<1> DEFINE r == queue[side][i]
           n == Len(r)
<1>1. r \in Seq(Slots) /\ Injective(r) /\ DOMAIN r = 1 .. n /\ n \in Nat
  BY ListHolds
<1>2. r \in Injection(1 .. n, Slots)
  BY <1>1 DEF Injection, IsInjective, Injective
<1>3. Cardinality(1 .. n) = n
  <2> HIDE DEF n
  <2>1. Cardinality(1 .. n) = IF 1 > n THEN 0 ELSE n - 1 + 1
    BY <1>1, FS_Interval
  <2> QED
    BY <1>1, <2>1
<1>4. Cardinality(1 .. n) <= Cardinality(Slots)
  BY <1>2, FS_Injection, BookAssumption
<1> QED
  BY <1>3, <1>4

LEMMA PositionsAre ==
  ASSUME RInv, NEW side \in Side, NEW p \in Prices, NEW k
  PROVE  <<side, p, k>> \in PriceTime!Positions <=>
           base_set /\ k \in 1 .. Len(queue[side][p - base])
<1>1. k \in DOMAIN Book[side][p] <=> base_set /\ k \in 1 .. Len(queue[side][p - base])
  BY PlacesAre
<1>2. base_set /\ k \in 1 .. Len(queue[side][p - base]) => k \in 1 .. Cardinality(Slots)
  <2> SUFFICES ASSUME base_set, k \in 1 .. Len(queue[side][p - base])
               PROVE  k \in 1 .. Cardinality(Slots)
    OBVIOUS
  <2>1. p - base \in Idx
    BY PriceAndIndex
  <2> DEFINE n == Len(queue[side][p - base])
  <2>2. n \in Nat /\ n <= Cardinality(Slots) /\ Cardinality(Slots) \in Nat
    BY <2>1, ListHolds, ListIsShort, FS_CardinalityType, BookAssumption DEF RInv
  <2>3. k \in 1 .. n
    OBVIOUS
  <2> HIDE DEF n
  <2> QED
    BY <2>2, <2>3
<1>3. <<side, p, k>> \in PriceTime!Positions <=>
        k \in 1 .. Cardinality(Slots) /\ k \in DOMAIN Book[side][p]
  BY DEF PriceTime!Positions, PriceTime!Side, Side
<1> QED
  BY <1>1, <1>2, <1>3

LEMMA PositionsAreTriples ==
  ASSUME NEW pos \in PriceTime!Positions
  PROVE  /\ pos = <<pos[1], pos[2], pos[3]>>
         /\ pos[1] \in Side /\ pos[2] \in Prices
BY DEF PriceTime!Positions, PriceTime!Side, Side

(* What the slot at a position holds.                                      *)
LEMMA PositionHolds ==
  ASSUME RInv, NEW pos \in PriceTime!Positions,
         NEW s, s = queue[pos[1]][pos[2] - base][pos[3]]
  PROVE  /\ base_set /\ pos[1] \in Side /\ pos[2] \in Prices /\ pos[2] - base \in Idx
         /\ pos[3] \in 1 .. Len(queue[pos[1]][pos[2] - base])
         /\ s \in Slots /\ pool[s] # NULL /\ pool[s] \in Order
         /\ pool[s].side = pos[1] /\ pool[s].price = pos[2] - base
         /\ Book[pos[1]][pos[2]][pos[3]] = [id |-> pool[s].id, qty |-> pool[s].qty]
<1> DEFINE side == pos[1]
           p == pos[2]
           k == pos[3]
           q == queue[side][p - base]
<1>1. side \in Side /\ p \in Prices /\ <<side, p, k>> \in PriceTime!Positions
  BY PositionsAreTriples
<1>2. s = q[k]
  OBVIOUS
<1> HIDE DEF side, p, k
<1>3. base_set /\ k \in 1 .. Len(queue[side][p - base])
  BY <1>1, PositionsAre
<1>4. p - base \in Idx
  BY <1>1, <1>3, PriceAndIndex
<1>5. /\ q \in Seq(Slots)
      /\ \A j \in 1 .. Len(q) : /\ q[j] \in Slots /\ pool[q[j]] # NULL /\ pool[q[j]] \in Order
                                /\ pool[q[j]].side = side /\ pool[q[j]].price = p - base
  BY <1>1, <1>4, ListHolds DEF RInv
<1>6. Book[side][p] = Shelf(pool, q)
  BY <1>1, <1>3, BookIsShelves DEF Shelving, ListAt
<1>7. k \in 1 .. Len(q)
  BY <1>3
<1> HIDE DEF q
<1>8. Shelf(pool, q)[k] = [id |-> pool[s].id, qty |-> pool[s].qty]
  BY <1>2, <1>5, <1>7, ShelfIs
<1>9. /\ base_set /\ side \in Side /\ p \in Prices /\ p - base \in Idx
      /\ k \in 1 .. Len(q)
      /\ s \in Slots /\ pool[s] # NULL /\ pool[s] \in Order
      /\ pool[s].side = side /\ pool[s].price = p - base
      /\ Book[side][p][k] = [id |-> pool[s].id, qty |-> pool[s].qty]
  BY <1>1, <1>2, <1>3, <1>4, <1>5, <1>6, <1>7, <1>8
<1> QED
  BY ONLY <1>9 DEF side, p, k, q

(* The abstract book is full when the pool is.                             *)
LEMMA FullAsPool ==
  ASSUME RInv
  PROVE  PriceTime!Cardinality(PriceTime!Positions) = Cardinality(Slots) <=> Live = Slots
<1> DEFINE T == PriceTime!Positions
           f == [pos \in T |-> queue[pos[1]][pos[2] - base][pos[3]]]
<1>1. ASSUME NEW pos \in T
      PROVE  /\ pos = <<pos[1], pos[2], pos[3]>> /\ pos[1] \in Side /\ pos[2] \in Prices
             /\ base_set /\ pos[3] \in 1 .. Len(queue[pos[1]][pos[2] - base])
             /\ f[pos] = queue[pos[1]][pos[2] - base][pos[3]]
             /\ f[pos] \in Slots /\ pool[f[pos]] # NULL
             /\ pool[f[pos]].side = pos[1] /\ pool[f[pos]].price = pos[2] - base
  <2>1. pos = <<pos[1], pos[2], pos[3]>> /\ pos[1] \in Side /\ pos[2] \in Prices
    BY PositionsAreTriples
  <2>2. f[pos] = queue[pos[1]][pos[2] - base][pos[3]]
    OBVIOUS
  <2> HIDE DEF f
  <2>3. /\ base_set /\ pos[3] \in 1 .. Len(queue[pos[1]][pos[2] - base])
        /\ f[pos] \in Slots /\ pool[f[pos]] # NULL
        /\ pool[f[pos]].side = pos[1] /\ pool[f[pos]].price = pos[2] - base
    BY <2>2, PositionHolds
  <2> QED
    BY <2>1, <2>2, <2>3
<1>2. ASSUME NEW a \in T, NEW b \in T, f[a] = f[b] PROVE a = b
  <2> HIDE DEF T, f
  <2>1. a[1] = b[1] /\ a[2] - base = b[2] - base
    BY <1>1, <1>2
  <2>2. a[2] = b[2]
    <3>1. base_set /\ a[2] \in Prices /\ b[2] \in Prices
      BY <1>1
    <3>2. base + (a[2] - base) = a[2] /\ base + (b[2] - base) = b[2]
      BY <3>1, PriceAndIndex
    <3> QED
      BY <2>1, <3>2
  <2> DEFINE q == queue[a[1]][a[2] - base]
  <2>3. a[3] \in 1 .. Len(q) /\ b[3] \in 1 .. Len(q) /\ q[a[3]] = q[b[3]]
    BY <1>1, <1>2, <2>1, <2>2
  <2>4. Injective(q) /\ DOMAIN q = 1 .. Len(q)
    <3>1. a[1] \in Side /\ a[2] - base \in Idx
      BY <1>1, PriceAndIndex
    <3> QED
      BY <3>1, ListHolds DEF RInv
  <2> HIDE DEF q
  <2>5. a[3] = b[3]
    BY <2>3, <2>4 DEF Injective
  <2> QED
    BY <1>1, <2>1, <2>2, <2>5
<1>3. f \in Injection(T, Slots)
  BY <1>1, <1>2 DEF Injection, IsInjective
<1>4. Cardinality(T) = Cardinality(Slots) <=> f \in Surjection(T, Slots)
  BY <1>3, FS_Injection, BookAssumption
<1>5. ASSUME Live = Slots, NEW s \in Slots PROVE \E pos \in T : f[pos] = s
  <2>1. PICK o \in Order : o = pool[s]
    BY <1>5 DEF Live, RInv, IInv, TypeOK
  <2> DEFINE p == base + o.price
  <2>2. /\ base_set /\ o.side \in Side /\ p \in Prices /\ p - base = o.price
    BY <2>1, OrderIsPlaced
  <2>3. PICK k \in DOMAIN queue[o.side][o.price] : queue[o.side][o.price][k] = s
    BY <2>1, OrderIsPlaced
  <2>4. k \in 1 .. Len(queue[o.side][o.price])
    BY <2>1, <2>3, OrderIsPlaced, ListHolds DEF RInv
  <2> HIDE DEF p
  <2> DEFINE pos == <<o.side, p, k>>
  <2>5. pos \in T
    BY <2>2, <2>4, PositionsAre
  <2>6. f[pos] = queue[o.side][p - base][k]
    <3> HIDE DEF T
    <3>1. pos[1] = o.side /\ pos[2] = p /\ pos[3] = k
      OBVIOUS
    <3> QED
      BY <2>5, <3>1
  <2> QED
    BY <2>2, <2>3, <2>5, <2>6
<1>6. ASSUME f \in Surjection(T, Slots) PROVE Live = Slots
  <2> SUFFICES ASSUME NEW s \in Slots PROVE pool[s] # NULL
    BY DEF Live
  <2>1. PICK pos \in T : f[pos] = s
    BY <1>6 DEF Surjection
  <2> QED
    BY <1>1, <2>1
<1>7. f \in [T -> Slots]
  BY <1>1
<1> HIDE DEF f, T
<1>8. Cardinality(T) = Cardinality(Slots) <=> Live = Slots
  <2>1. Live = Slots => f \in Surjection(T, Slots)
    BY <1>5, <1>7 DEF Surjection
  <2> QED
    BY <1>4, <1>6, <2>1
<1>9. PriceTime!Cardinality(T) = Cardinality(T)
  BY DEF PriceTime!Cardinality, Cardinality
<1> QED
  BY <1>8, <1>9 DEF T

LEMMA PositionOfOrder ==
  ASSUME RInv, NEW s \in Slots, NEW o \in Order, o = pool[s],
         NEW p, p = base + o.price,
         NEW k \in DOMAIN queue[o.side][o.price], queue[o.side][o.price][k] = s
  PROVE  /\ <<o.side, p, k>> \in PriceTime!PositionOf(o.id)
         /\ Book[o.side][p][k] = [id |-> o.id, qty |-> o.qty]
<1>1. base_set /\ o.side \in Side /\ p \in Prices /\ p - base = o.price /\ o.price \in Idx
  BY OrderIsPlaced
<1>2. k \in 1 .. Len(queue[o.side][p - base]) /\ queue[o.side][p - base][k] = s
  BY <1>1, ListHolds DEF RInv
<1> DEFINE pos == <<o.side, p, k>>
<1>3. pos \in PriceTime!Positions /\ pos[1] = o.side /\ pos[2] = p /\ pos[3] = k
  BY <1>1, <1>2, PositionsAre
<1> HIDE DEF pos
<1>4. Book[o.side][p][k] = [id |-> o.id, qty |-> o.qty]
  <2>1. s = queue[pos[1]][pos[2] - base][pos[3]]
    BY <1>2, <1>3
  <2>2. Book[pos[1]][pos[2]][pos[3]] = [id |-> pool[s].id, qty |-> pool[s].qty]
    BY ONLY RInv, <1>3, <2>1, PositionHolds
  <2> QED
    BY <1>3, <2>2
<1>5. pos \in PriceTime!PositionOf(o.id)
  BY <1>3, <1>4 DEF PriceTime!PositionOf
<1> QED
  BY <1>4, <1>5 DEF pos

LEMMA FreeIdIsNowhere ==
  ASSUME RInv, NEW id \in Ids, id_map[id] = NULL
  PROVE  PriceTime!PositionOf(id) = {}
<1> SUFFICES ASSUME NEW pos \in PriceTime!PositionOf(id) PROVE FALSE
  OBVIOUS
<1>1. pos \in PriceTime!Positions /\ Book[pos[1]][pos[2]][pos[3]].id = id
  BY DEF PriceTime!PositionOf
<1> DEFINE s == queue[pos[1]][pos[2] - base][pos[3]]
<1>2. s \in Slots /\ pool[s] # NULL /\ pool[s].id = id
  <2>1. s = queue[pos[1]][pos[2] - base][pos[3]]
    OBVIOUS
  <2> HIDE DEF s
  <2>2. /\ s \in Slots /\ pool[s] # NULL
        /\ Book[pos[1]][pos[2]][pos[3]] = [id |-> pool[s].id, qty |-> pool[s].qty]
    BY ONLY RInv, <1>1, <2>1, PositionHolds
  <2> QED
    BY ONLY <1>1, <2>2
<1>3. id_map[id] = s
  BY <1>2 DEF RInv, IInv, Shelves, Exact
<1> QED
  BY <1>2, <1>3, BookAssumption

-----------------------------------------------------------------------------
(* What a change of a list is in the abstract book.                        *)

Entries == [id : Ids, qty : Nat]

LEMMA ShelfAgrees ==
  ASSUME NEW q \in Seq(Slots), NEW P, NEW P2,
         \A k \in 1 .. Len(q) : P2[q[k]].id = P[q[k]].id /\ P2[q[k]].qty = P[q[k]].qty
  PROVE  Shelf(P2, q) = Shelf(P, q)
<1>1. DOMAIN q = 1 .. Len(q)
  BY LenProperties
<1> QED
  BY <1>1 DEF Shelf

LEMMA ShelfIsSeq ==
  ASSUME NEW q \in Seq(Slots), NEW P,
         \A k \in 1 .. Len(q) : P[q[k]] \in Order
  PROVE  Shelf(P, q) \in Seq(Entries) /\ Len(Shelf(P, q)) = Len(q)
<1>1. Len(q) \in Nat /\ DOMAIN q = 1 .. Len(q)
  BY LenProperties
<1>2. \A k \in 1 .. Len(q) : [id |-> P[q[k]].id, qty |-> P[q[k]].qty] \in Entries
  BY DEF Entries, Order
<1>3. Shelf(P, q) \in [1 .. Len(q) -> Entries]
  BY <1>1, <1>2 DEF Shelf
<1> QED
  BY <1>1, <1>3, IsASeq, LenProperties

LEMMA ShelfCut ==
  ASSUME NEW q \in Seq(Slots), NEW P, NEW k \in 1 .. Len(q),
         \A j \in 1 .. Len(q) : P[q[j]] \in Order
  PROVE  Shelf(P, RemoveAt(q, k)) = PriceTime!RemoveAt(Shelf(P, q), k)
<1> DEFINE n == Len(q)
           r == RemoveAt(q, k)
           a == Shelf(P, q)
           b == RemoveAt(a, k)
           c == Shelf(P, r)
<1>0. n \in Nat
  BY LenProperties
<1>1. r \in Seq(Slots) /\ Len(r) = n - 1
      /\ \A i \in 1 .. n - 1 : r[i] = IF i < k THEN q[i] ELSE q[i + 1]
  BY RemoveAtProperties
<1>2. a \in Seq(Entries) /\ Len(a) = n
  BY ShelfIsSeq
<1>3. \A j \in 1 .. n : a[j] = [id |-> P[q[j]].id, qty |-> P[q[j]].qty]
  BY ShelfIs
<1> HIDE DEF a
<1>4. b \in Seq(Entries) /\ Len(b) = n - 1
      /\ \A i \in 1 .. n - 1 : b[i] = IF i < k THEN a[i] ELSE a[i + 1]
  BY <1>2, RemoveAtProperties
<1> HIDE DEF r, b
<1>5. DOMAIN c = 1 .. n - 1 /\ \A i \in 1 .. n - 1 : c[i] = [id |-> P[r[i]].id, qty |-> P[r[i]].qty]
  BY <1>1, ShelfIs
<1>6. DOMAIN b = 1 .. n - 1
  BY <1>4, LenProperties
<1>7. c = [i \in 1 .. n - 1 |-> c[i]] /\ b = [i \in 1 .. n - 1 |-> b[i]]
  <2>1. c = [i \in DOMAIN c |-> c[i]]
    BY DEF Shelf
  <2>2. b = [i \in DOMAIN b |-> b[i]]
    BY <1>4
  <2> QED
    BY <1>5, <1>6, <2>1, <2>2
<1> HIDE DEF c, n
<1>8. ASSUME NEW i \in 1 .. n - 1 PROVE c[i] = b[i]
  <2>1. CASE i < k
    <3>1. i \in 1 .. n
      BY <1>0
    <3>2. r[i] = q[i] /\ b[i] = a[i] /\ a[i] = [id |-> P[q[i]].id, qty |-> P[q[i]].qty]
      BY <1>1, <1>3, <1>4, <2>1, <3>1
    <3> QED
      BY ONLY <1>5, <3>2, i \in 1 .. n - 1
  <2>2. CASE ~ (i < k)
    <3>1. i + 1 \in 1 .. n
      BY <1>0
    <3>2. r[i] = q[i + 1] /\ b[i] = a[i + 1]
          /\ a[i + 1] = [id |-> P[q[i + 1]].id, qty |-> P[q[i + 1]].qty]
      BY <1>1, <1>3, <1>4, <2>2, <3>1
    <3> QED
      BY ONLY <1>5, <3>2, i \in 1 .. n - 1
  <2> QED
    BY <2>1, <2>2
<1>9. c = b
  BY <1>7, <1>8
<1>10. PriceTime!RemoveAt(a, k) = RemoveAt(a, k)
  BY DEF PriceTime!RemoveAt, RemoveAt
<1> QED
  BY <1>9, <1>10 DEF a, b, c, r

LEMMA ShelfGrows ==
  ASSUME NEW q \in Seq(Slots), NEW P, NEW s \in Slots,
         \A j \in 1 .. Len(q) : P[q[j]] \in Order, P[s] \in Order
  PROVE  Shelf(P, Append(q, s)) = Append(Shelf(P, q), [id |-> P[s].id, qty |-> P[s].qty])
<1> DEFINE n == Len(q)
           r == Append(q, s)
           e == [id |-> P[s].id, qty |-> P[s].qty]
           a == Shelf(P, q)
           b == Append(a, e)
           c == Shelf(P, r)
<1>0. n \in Nat /\ e \in Entries
  BY LenProperties DEF Entries, Order
<1>1. /\ r \in Seq(Slots) /\ Len(r) = n + 1
      /\ \A i \in 1 .. n : r[i] = q[i]
      /\ r[n + 1] = s
  BY AppendProperties
<1>2. a \in Seq(Entries) /\ Len(a) = n
  BY ShelfIsSeq
<1>3. \A j \in 1 .. n : a[j] = [id |-> P[q[j]].id, qty |-> P[q[j]].qty]
  BY ShelfIs
<1> HIDE DEF a
<1>4. /\ b \in Seq(Entries) /\ Len(b) = n + 1
      /\ \A i \in 1 .. n : b[i] = a[i]
      /\ b[n + 1] = e
  BY <1>0, <1>2, AppendProperties
<1> HIDE DEF r, b
<1>5. DOMAIN c = 1 .. n + 1 /\ \A i \in 1 .. n + 1 : c[i] = [id |-> P[r[i]].id, qty |-> P[r[i]].qty]
  BY <1>1, ShelfIs
<1>6. DOMAIN b = 1 .. n + 1
  BY <1>4, LenProperties
<1>7. c = [i \in 1 .. n + 1 |-> c[i]] /\ b = [i \in 1 .. n + 1 |-> b[i]]
  <2>1. c = [i \in DOMAIN c |-> c[i]]
    BY DEF Shelf
  <2>2. b = [i \in DOMAIN b |-> b[i]]
    BY <1>4
  <2> QED
    BY <1>5, <1>6, <2>1, <2>2
<1> HIDE DEF c, n
<1>8. ASSUME NEW i \in 1 .. n + 1 PROVE c[i] = b[i]
  <2>1. CASE i = n + 1
    BY <1>1, <1>4, <1>5, <2>1 DEF e
  <2>2. CASE i # n + 1
    <3>1. i \in 1 .. n
      BY <1>0, <2>2
    <3> QED
      BY <1>1, <1>3, <1>4, <1>5, <3>1
  <2> QED
    BY <2>1, <2>2
<1> QED
  BY <1>7, <1>8 DEF a, b, c, r, e

(* Of the orders of q only the k-th gives up something.                    *)
GivesUp(P, P2, q, k, d) ==
  /\ P2[q[k]].id = P[q[k]].id /\ P2[q[k]].qty = P[q[k]].qty - d
  /\ \A j \in 1 .. Len(q) :
       q[j] # q[k] => P2[q[j]].id = P[q[j]].id /\ P2[q[j]].qty = P[q[j]].qty

(* A queue whose k-th order gives up d.                                    *)
Reduced(e, k, d) == [e EXCEPT ![k].qty = @ - d]

LEMMA ShelfReduced ==
  ASSUME NEW q \in Seq(Slots), Injective(q), NEW P, NEW P2, NEW k \in 1 .. Len(q), NEW d,
         GivesUp(P, P2, q, k, d)
  PROVE  Shelf(P2, q) = Reduced(Shelf(P, q), k, d)
<1>0. /\ P2[q[k]].id = P[q[k]].id /\ P2[q[k]].qty = P[q[k]].qty - d
      /\ \A j \in 1 .. Len(q) :
           q[j] # q[k] => P2[q[j]].id = P[q[j]].id /\ P2[q[j]].qty = P[q[j]].qty
  BY DEF GivesUp
<1>1. DOMAIN q = 1 .. Len(q)
  BY LenProperties
<1> DEFINE a == Shelf(P, q)
           b == Shelf(P2, q)
           c == [a EXCEPT ![k].qty = a[k].qty - d]
           n == Len(q)
<1>2. a = [j \in 1 .. n |-> [id |-> P[q[j]].id, qty |-> P[q[j]].qty]]
  BY <1>1 DEF Shelf
<1>3. b = [j \in 1 .. n |-> [id |-> P2[q[j]].id, qty |-> P2[q[j]].qty]]
  BY <1>1 DEF Shelf
<1>4. c = [j \in 1 .. n |-> IF j = k THEN [a[k] EXCEPT !.qty = a[k].qty - d] ELSE a[j]]
  BY <1>2
<1>5. [a[k] EXCEPT !.qty = a[k].qty - d] = [id |-> P2[q[k]].id, qty |-> P2[q[k]].qty]
  <2>1. a[k] = [id |-> P[q[k]].id, qty |-> P[q[k]].qty]
    BY <1>2
  <2> HIDE DEF a
  <2> QED
    BY <1>0, <2>1
<1> HIDE DEF a, b, c
<1>6. ASSUME NEW j \in 1 .. n, j # k
      PROVE  [id |-> P2[q[j]].id, qty |-> P2[q[j]].qty] = [id |-> P[q[j]].id, qty |-> P[q[j]].qty]
  BY <1>0, <1>1, <1>6 DEF Injective
<1>7. ASSUME NEW j \in 1 .. n PROVE b[j] = c[j]
  BY <1>2, <1>3, <1>4, <1>5, <1>6
<1> QED
  <2>1. b = [j \in 1 .. n |-> b[j]] /\ c = [j \in 1 .. n |-> c[j]]
    BY ONLY <1>3, <1>4
  <2>2. b = c
    BY <1>7, <2>1
  <2> QED
    BY <2>2 DEF a, b, c, Reduced

LEMMA BookChanges ==
  ASSUME base_set, base' = base, base_set' = base_set,
         NEW side \in Side, NEW p \in Prices,
         \A sd \in Side, x \in Prices :
           sd # side \/ x # p =>
             Shelf(pool', queue'[sd][x - base]) = Shelf(pool, queue[sd][x - base])
  PROVE  Book' = [Book EXCEPT ![side][p] = Shelf(pool', queue'[side][p - base])]
<1> DEFINE F(sd, x) == Shelf(pool, queue[sd][x - base])
           G(sd, x) == Shelf(pool', queue'[sd][x - base])
<1>1. Book = [sd \in Side |-> [x \in Prices |-> F(sd, x)]]
  BY BookIsShelves DEF Shelving, ListAt
<1>2. Book' = [sd \in Side |-> [x \in Prices |-> G(sd, x)]]
  BY BookIsShelvesAfter DEF Shelving, ListAt
<1>3. \A sd \in Side, x \in Prices : sd # side \/ x # p => G(sd, x) = F(sd, x)
  OBVIOUS
<1> HIDE DEF F, G
<1>4. Book' = [Book EXCEPT ![side][p] = G(side, p)]
  <2>1. [Book EXCEPT ![side][p] = G(side, p)] =
          [sd \in Side |-> IF sd = side THEN [Book[side] EXCEPT ![p] = G(side, p)]
                           ELSE Book[sd]]
    BY <1>1
  <2>2. [Book[side] EXCEPT ![p] = G(side, p)] =
          [x \in Prices |-> IF x = p THEN G(side, p) ELSE F(side, x)]
    BY <1>1
  <2>3. [Book[side] EXCEPT ![p] = G(side, p)] = [x \in Prices |-> G(side, x)]
    BY <1>3, <2>2
  <2>4. ASSUME NEW sd \in Side, sd # side PROVE Book[sd] = [x \in Prices |-> G(sd, x)]
    BY <1>1, <1>3, <2>4
  <2>5. [Book EXCEPT ![side][p] = G(side, p)] = [sd \in Side |-> [x \in Prices |-> G(sd, x)]]
    BY <2>1, <2>3, <2>4
  <2> QED
    BY <1>2, <2>5
<1> QED
  BY <1>4 DEF G

(* The lists an order is not in.                                           *)
LEMMA OtherLists ==
  ASSUME RInv, NEW s \in Slots, NEW o \in Order, o = pool[s],
         NEW side \in Side, NEW i \in Idx, side # o.side \/ i # o.price,
         \A t \in Slots : t # s => pool'[t] = pool[t]
  PROVE  Shelf(pool', queue[side][i]) = Shelf(pool, queue[side][i])
<1> DEFINE q == queue[side][i]
<1>1. /\ q \in Seq(Slots)
      /\ \A k \in 1 .. Len(q) : /\ q[k] \in Slots /\ pool[q[k]].side = side
                                /\ pool[q[k]].price = i
  BY ListHolds DEF RInv
<1> HIDE DEF q
<1>2. \A k \in 1 .. Len(q) : q[k] # s
  BY <1>1
<1>3. \A k \in 1 .. Len(q) : pool'[q[k]] = pool[q[k]]
  BY <1>1, <1>2
<1>4. Shelf(pool', q) = Shelf(pool, q)
  BY <1>1, <1>3, ShelfAgrees
<1> QED
  BY <1>4 DEF q

LEMMA UnlinkIsCut ==
  ASSUME NEW q \in Seq(Slots), Injective(q), NEW k \in DOMAIN q
  PROVE  Unlink(q, q[k]) = RemoveAt(q, k)
<1>1. (CHOOSE j \in DOMAIN q : q[j] = q[k]) = k
  BY DEF Injective
<1> QED
  BY <1>1 DEF Unlink

(* An order leaves its list, or gives up quantity in place.                *)
LEMMA TakeStep ==
  ASSUME RInv, NEW s \in Slots, NEW o \in Order, o = pool[s],
         NEW qty \in Nat, qty <= o.qty,
         \/ qty = o.qty /\ RemoveOrder(s)
         \/ qty # o.qty /\ ReduceOrder(s, qty),
         base' = base, base_set' = base_set, NEW p, p = base + o.price,
         NEW k \in DOMAIN queue[o.side][o.price], queue[o.side][o.price][k] = s
  PROVE  PriceTime!Take(o.side, p, k, qty)
<1> DEFINE i == o.price
           q == queue[o.side][i]
           e == Shelf(pool, q)
<1>1. base_set /\ o.side \in Side /\ p \in Prices /\ p - base = i /\ i \in Idx
  BY OrderIsPlaced
<1>2. /\ q \in Seq(Slots) /\ Injective(q) /\ DOMAIN q = 1 .. Len(q)
      /\ k \in 1 .. Len(q) /\ q[k] = s
      /\ \A j \in 1 .. Len(q) : q[j] \in Slots /\ pool[q[j]] \in Order
  BY <1>1, ListHolds DEF RInv
<1>3. Book[o.side][p] = e /\ e[k].qty = o.qty
  <2>1. Book[o.side][p] = e
    BY <1>1, BookIsShelves DEF Shelving, ListAt
  <2> HIDE DEF q
  <2>2. e[k].qty = pool[q[k]].qty
    BY <1>2, ShelfIs
  <2> QED
    BY <1>2, <2>1, <2>2
<1>4. /\ queue \in [Side -> [Idx -> Seq(Slots)]]
      /\ pool \in [Slots -> Order \union {NULL}]
  BY DEF RInv, IInv, TypeOK
<1>5. \A x \in Prices : x # p => x - base \in Idx /\ x - base # i
  <2> SUFFICES ASSUME NEW x \in Prices, x # p PROVE x - base \in Idx /\ x - base # i
    OBVIOUS
  <2>1. x - base \in Idx /\ base + (x - base) = x /\ base + (p - base) = p
    BY <1>1, PriceAndIndex
  <2> QED
    BY <1>1, <2>1
<1>6. CASE qty = o.qty /\ RemoveOrder(s)
  <2>1. /\ queue' = [queue EXCEPT ![o.side][i] = Unlink(q, s)]
        /\ pool' = [pool EXCEPT ![s] = NULL]
    BY <1>6 DEF RemoveOrder, level_remove
  <2>2. Unlink(q, s) = RemoveAt(q, k)
    <3> HIDE DEF q
    <3> QED
      BY <1>2, UnlinkIsCut
  <2>3. \A t \in Slots : t # s => pool'[t] = pool[t]
    BY <1>4, <2>1
  <2>4. queue'[o.side][i] = RemoveAt(q, k)
        /\ \A sd \in Side, j \in Idx : sd # o.side \/ j # i => queue'[sd][j] = queue[sd][j]
    BY <1>1, <1>4, <2>1, <2>2
  <2>5. Shelf(pool', RemoveAt(q, k)) = PriceTime!RemoveAt(e, k)
    <3> HIDE DEF q
    <3> DEFINE r == RemoveAt(q, k)
    <3>1. r \in Seq(Slots) /\ Len(r) = Len(q) - 1
          /\ \A j \in 1 .. Len(q) - 1 : r[j] = IF j < k THEN q[j] ELSE q[j + 1]
      BY <1>2, RemoveAtProperties
    <3> HIDE DEF r
    <3>2. Len(q) \in Nat
      BY <1>2, LenProperties
    <3>3. ASSUME NEW j \in 1 .. Len(r) PROVE pool'[r[j]] = pool[r[j]]
      <4>1. CASE j < k
        <5>1. j \in 1 .. Len(q) /\ j # k /\ r[j] = q[j]
          BY <3>1, <3>2, <4>1
        <5> QED
          BY <1>2, <2>3, <5>1 DEF Injective
      <4>2. CASE ~ (j < k)
        <5>1. j + 1 \in 1 .. Len(q) /\ j + 1 # k /\ r[j] = q[j + 1]
          BY <1>2, <3>1, <3>2, <4>2
        <5> QED
          BY <1>2, <2>3, <5>1 DEF Injective
      <4> QED
        BY <4>1, <4>2
    <3>4. Shelf(pool', r) = Shelf(pool, r)
      BY <3>1, <3>3, ShelfAgrees
    <3>5. Shelf(pool, r) = PriceTime!RemoveAt(Shelf(pool, q), k)
      BY <1>2, ShelfCut DEF r
    <3> QED
      BY <3>4, <3>5 DEF r
  <2>6. Book' = [Book EXCEPT ![o.side][p] = PriceTime!RemoveAt(e, k)]
    <3>1. ASSUME NEW sd \in Side, NEW x \in Prices, sd # o.side \/ x # p
          PROVE  Shelf(pool', queue'[sd][x - base]) = Shelf(pool, queue[sd][x - base])
      <4>1. x - base \in Idx /\ (sd # o.side \/ x - base # i)
        BY <1>1, <1>5, <3>1
      <4> HIDE DEF q, e
      <4> QED
        BY <2>3, <2>4, <4>1, OtherLists
    <3>2. Book' = [Book EXCEPT ![o.side][p] = Shelf(pool', queue'[o.side][p - base])]
      BY <1>1, <3>1, BookChanges
    <3> QED
      BY <1>1, <2>4, <2>5, <3>2
  <2> HIDE DEF q, e
  <2>7. PriceTime!Shortened(e, k, qty) = PriceTime!RemoveAt(e, k)
    BY <1>3, <1>6 DEF PriceTime!Shortened
  <2> QED
    BY <1>3, <2>6, <2>7 DEF PriceTime!Take
<1>7. CASE qty # o.qty /\ ReduceOrder(s, qty)
  <2>1. queue' = queue /\ pool' = [pool EXCEPT ![s].qty = o.qty - qty]
    BY <1>7 DEF ReduceOrder
  <2>2. pool'[s].id = o.id /\ pool'[s].qty = o.qty - qty
    BY <1>4, <2>1 DEF Order
  <2>3. \A t \in Slots : t # s => pool'[t] = pool[t]
    BY <1>4, <2>1
  <2>4. Shelf(pool', q) = Reduced(e, k, qty)
    <3> HIDE DEF q
    <3>1. GivesUp(pool, pool', q, k, qty)
      BY <1>2, <2>2, <2>3 DEF GivesUp
    <3>2. q \in Seq(Slots) /\ Injective(q) /\ k \in 1 .. Len(q)
      BY <1>2
    <3>3. Shelf(pool', q) = Reduced(Shelf(pool, q), k, qty)
      <4> DEFINE after == pool'
                 now == pool
      <4>1. GivesUp(now, after, q, k, qty)
        BY <3>1
      <4> HIDE DEF after, now
      <4>2. q \in Seq(Slots) /\ Injective(q) /\ k \in 1 .. Len(q)
        BY <3>2
      <4>3. Shelf(after, q) = Reduced(Shelf(now, q), k, qty)
        BY ONLY <4>1, <4>2, ShelfReduced
      <4> QED
        BY ONLY <4>3 DEF after, now
    <3> QED
      BY ONLY <3>3
  <2>5. Book' = [Book EXCEPT ![o.side][p] = Reduced(e, k, qty)]
    <3>1. ASSUME NEW sd \in Side, NEW x \in Prices, sd # o.side \/ x # p
          PROVE  Shelf(pool', queue'[sd][x - base]) = Shelf(pool, queue[sd][x - base])
      <4>1. x - base \in Idx /\ (sd # o.side \/ x - base # i)
        BY <1>1, <1>5, <3>1
      <4> HIDE DEF q, e
      <4> QED
        BY <2>1, <2>3, <4>1, OtherLists
    <3>2. Book' = [Book EXCEPT ![o.side][p] = Shelf(pool', queue'[o.side][p - base])]
      BY <1>1, <3>1, BookChanges
    <3> QED
      BY <1>1, <2>1, <2>4, <3>2
  <2> HIDE DEF q, e
  <2>6. PriceTime!Shortened(e, k, qty) = Reduced(e, k, qty)
    BY <1>3, <1>7 DEF PriceTime!Shortened, Reduced
  <2> QED
    BY <1>3, <2>5, <2>6 DEF PriceTime!Take
<1> QED
  BY <1>6, <1>7

(* The best price of the abstract book is the cached one.                  *)
LEMMA OccupiedPrices ==
  ASSUME RInv, NEW side \in Side
  PROVE  /\ ~ base_set => PriceTime!Occupied(side) = {} /\ OccupiedIn(queue, side) = {}
         /\ \A p \in PriceTime!Occupied(side) :
              base_set /\ p \in Prices /\ p - base \in OccupiedIn(queue, side)
         /\ \A i \in OccupiedIn(queue, side) : base + i \in PriceTime!Occupied(side)
<1>1. \A p \in Prices : Book[side][p] = Shelf(pool, ListAt(queue, base, base_set, side, p))
  BY BookIsShelves DEF Shelving
<1>0. Shelf(pool, <<>>) = <<>>
  BY DEF Shelf
<1>2. ~ base_set => OccupiedIn(queue, side) = {}
  BY DEF RInv, IInv, AnchoredFirst, OccupiedIn
<1>3. ASSUME NEW p \in PriceTime!Occupied(side)
      PROVE  base_set /\ p \in Prices /\ p - base \in OccupiedIn(queue, side)
  <2>1. p \in Prices /\ Book[side][p] # <<>>
    BY DEF PriceTime!Occupied
  <2>2. base_set
    BY <1>0, <1>1, <2>1 DEF ListAt
  <2>3. p - base \in Idx
    BY <2>1, <2>2, PriceAndIndex
  <2>4. queue[side][p - base] # <<>>
    BY <1>0, <1>1, <2>1, <2>2 DEF ListAt
  <2> QED
    BY <2>1, <2>2, <2>3, <2>4 DEF OccupiedIn
<1>4. ASSUME NEW i \in OccupiedIn(queue, side)
      PROVE  base + i \in PriceTime!Occupied(side)
  <2> DEFINE q == queue[side][i]
  <2>1. i \in Idx /\ q # <<>> /\ base_set
    BY <1>2 DEF OccupiedIn
  <2>2. /\ q \in Seq(Slots) /\ DOMAIN q = 1 .. Len(q) /\ Len(q) \in Nat
        /\ \A k \in 1 .. Len(q) : q[k] \in Slots /\ pool[q[k]] # NULL /\ pool[q[k]].price = i
    BY <2>1, ListHolds DEF RInv
  <2> HIDE DEF q
  <2>3. 1 \in 1 .. Len(q)
    BY <2>1, <2>2, EmptySeq
  <2>4. base + i \in Prices
    BY <2>2, <2>3 DEF RInv, PricesKnown
  <2>5. (base + i) - base = i
    BY <2>1, PriceAndIndex
  <2>6. Book[side][base + i] = Shelf(pool, q)
    BY <1>1, <2>1, <2>4, <2>5 DEF ListAt, q
  <2>7. Shelf(pool, q) # <<>>
    BY <2>1, <2>2, ShelfIs
  <2> QED
    BY <2>4, <2>6, <2>7 DEF PriceTime!Occupied
<1>5. ~ base_set => PriceTime!Occupied(side) = {}
  BY <1>3
<1> QED
  BY <1>2, <1>3, <1>4, <1>5

LEMMA BestIsTop ==
  ASSUME RInv, NEW side \in Side
  PROVE  IsTop(side, best[side], OccupiedIn(queue, side))
<1>1. TopExact(best, queue)
  BY DEF RInv, BestExact, TopExact, OccupiedIn, Occupied
<1> QED
  BY <1>1, TopExactIsTop

LEMMA BestIsBestPrice ==
  ASSUME RInv, NEW side \in Side
  PROVE  /\ best[side] = NoLevel <=> PriceTime!Occupied(side) = {}
         /\ best[side] # NoLevel =>
              /\ base_set /\ best[side] \in Idx /\ queue[side][best[side]] # <<>>
              /\ base + best[side] \in Prices
              /\ PriceTime!BestPrice(side) = base + best[side]
<1> DEFINE T == OccupiedIn(queue, side)
           U == PriceTime!Occupied(side)
<1>1. IsTop(side, best[side], T)
  BY BestIsTop
<1>2. T \subseteq Idx
  BY DEF OccupiedIn
<1>3. /\ ~ base_set => U = {} /\ T = {}
      /\ \A p \in U : base_set /\ p \in Prices /\ p - base \in T
      /\ \A i \in T : base + i \in U
  BY OccupiedPrices
<1>4. T = {} <=> U = {}
  BY <1>3
<1>5. \A i \in T : queue[side][i] # <<>>
  BY DEF OccupiedIn
<1>6. U = PriceTime!Occupied(side)
  OBVIOUS
<1> HIDE DEF T, U
<1>7. best[side] = NoLevel <=> U = {}
  BY <1>1, <1>2, <1>4, NoLevelIsNoIndex DEF IsTop
<1>8. ASSUME best[side] # NoLevel
      PROVE  /\ base_set /\ best[side] \in Idx /\ queue[side][best[side]] # <<>>
             /\ base + best[side] \in Prices
             /\ PriceTime!BestPrice(side) = base + best[side]
  <2> DEFINE b == best[side]
  <2>1. b \in T /\ b \in Idx /\ \A y \in T : IF side = "BUY" THEN y <= b ELSE b <= y
    BY <1>1, <1>2, <1>4, <1>7, <1>8 DEF IsTop
  <2>2. base_set /\ base + b \in U /\ base + b \in Prices
    <3>1. base + b \in U /\ (base + b) - base \in T
      BY <1>3, <2>1
    <3> QED
      BY <1>3, <3>1
  <2>3. base \in Nat /\ b \in Nat
    BY <2>1, <2>2, PriceAndIndex DEF Idx
  <2>4. \A y \in U : y \in Nat /\ (IF side = "BUY" THEN y <= base + b ELSE base + b <= y)
    <3> SUFFICES ASSUME NEW y \in U
                 PROVE  y \in Nat /\ (IF side = "BUY" THEN y <= base + b ELSE base + b <= y)
      OBVIOUS
    <3>1. y \in Prices /\ y - base \in T
      BY <1>3
    <3>2. y \in Nat
      BY <3>1, BookAssumption
    <3>3. IF side = "BUY" THEN y - base <= b ELSE b <= y - base
      BY <2>1, <3>1
    <3> QED
      BY <2>3, <3>2, <3>3
  <2> HIDE DEF b
  <2>5. CASE side = "BUY"
    <3>1. PriceTime!BestPrice(side) = PriceTime!Max(U)
      BY <1>6, <2>5 DEF PriceTime!BestPrice
    <3>2. PriceTime!Max(U) = CHOOSE x \in U : \A y \in U : x >= y
      BY DEF PriceTime!Max
    <3>3. base + b \in U /\ \A y \in U : base + b >= y
      BY <2>2, <2>3, <2>4, <2>5
    <3>4. \A x \in U : (\A y \in U : x >= y) => x = base + b
      BY <2>2, <2>3, <2>4, <2>5
    <3> QED
      BY <2>1, <1>5, <2>2, <3>1, <3>2, <3>3, <3>4 DEF b
  <2>6. CASE side = "SELL"
    <3>1. PriceTime!BestPrice(side) = PriceTime!Min(U)
      BY <1>6, <2>6 DEF PriceTime!BestPrice
    <3>2. PriceTime!Min(U) = CHOOSE x \in U : \A y \in U : x <= y
      BY DEF PriceTime!Min
    <3>3. base + b \in U /\ \A y \in U : base + b <= y
      BY <2>2, <2>3, <2>4, <2>6
    <3>4. \A x \in U : (\A y \in U : x <= y) => x = base + b
      BY <2>2, <2>3, <2>4, <2>6
    <3> QED
      BY <2>1, <1>5, <2>2, <3>1, <3>2, <3>3, <3>4 DEF b
  <2> QED
    BY <2>5, <2>6 DEF Side
<1> QED
  BY <1>6, <1>7, <1>8

(* The two loops agree on when a taker crosses.                            *)
LEMMA TakerIs ==
  ASSUME RInv, taker # NULL
  PROVE  /\ taker.id \in Ids \union {NULL} /\ taker.side \in Side
         /\ taker.limit \in Idx /\ taker.left \in Nat \ {0}
         /\ taker.price \in Prices \union {NULL}
         /\ taker.price # NULL => /\ taker.id \in Ids /\ taker.id # NULL
                                  /\ base_set /\ taker.price = base + taker.limit
                                  /\ id_map[taker.id] = NULL
         /\ taker.price = NULL =>
              /\ taker.id = NULL
              /\ taker.limit = IF taker.side = "BUY" THEN Band - 1 ELSE 0
         /\ Wanted = [id |-> taker.id, side |-> taker.side,
                      price |-> taker.price, left |-> taker.left]
         /\ Wanted # NULL
<1>1. taker \in Takers
  BY DEF RInv, IInv, TypeOK
<1>2. /\ taker.id \in Ids \union {NULL} /\ taker.side \in Side
      /\ taker.limit \in Idx /\ taker.left \in Nat \ {0}
      /\ taker.price \in Prices \union {NULL}
      /\ taker.price # NULL => taker.id \in Ids
      /\ taker.price = NULL => taker.id = NULL
  BY <1>1, BookAssumption DEF Takers
<1>3. Wanted = [id |-> taker.id, side |-> taker.side,
                price |-> taker.price, left |-> taker.left]
  BY DEF Wanted
<1>4. Wanted # NULL
  BY <1>2, <1>3, WantedAssumption
<1>5. (taker.price # NULL => base_set /\ taker.price = base + taker.limit
                            /\ id_map[taker.id] = NULL)
      /\ (taker.price = NULL => taker.limit = IF taker.side = "BUY" THEN Band - 1 ELSE 0)
  BY DEF RInv, IInv, TakerInWindow, MarketSweeps
<1>6. NULL \notin Ids
  BY BookAssumption
<1> QED
  BY <1>2, <1>3, <1>4, <1>5, <1>6

LEMMA CrossesAlike ==
  ASSUME RInv, taker # NULL
  PROVE  Crosses(taker) <=> PriceTime!Crosses(Wanted)
<1> DEFINE maker == Opposite(taker.side)
           b == best[maker]
<1>1. /\ taker.side \in Side /\ taker.limit \in Idx /\ maker \in Side
      /\ taker.price # NULL => base_set /\ taker.price = base + taker.limit
      /\ taker.price = NULL => taker.limit = IF taker.side = "BUY" THEN Band - 1 ELSE 0
      /\ Wanted.side = taker.side /\ Wanted.price = taker.price
  BY TakerIs DEF Opposite, Side
<1>2. /\ b = NoLevel <=> PriceTime!Occupied(maker) = {}
      /\ b # NoLevel => /\ base_set /\ b \in Idx /\ queue[maker][b] # <<>>
                        /\ PriceTime!BestPrice(maker) = base + b
  BY <1>1, BestIsBestPrice
<1>3. b # NoLevel => base \in Nat
  BY <1>2, PriceAndIndex
<1>4. b \in Idx => b \in Nat /\ b <= Band - 1 /\ 0 <= b
  BY BookAssumption DEF Idx
<1>5. taker.limit \in Nat /\ taker.limit < Band /\ Band \in Nat
  BY <1>1, BookAssumption DEF Idx
<1>6. PriceTime!Crosses(Wanted) <=>
        /\ b # NoLevel
        /\ \/ taker.price = NULL
           \/ IF taker.side = "BUY" THEN base + b <= taker.price ELSE base + b >= taker.price
  <2>1. PriceTime!Opposite(Wanted.side) = maker
    BY <1>1 DEF PriceTime!Opposite, Opposite
  <2> HIDE DEF b, maker
  <2> QED
    BY <1>1, <1>2, <2>1 DEF PriceTime!Crosses
<1>7. CASE taker.side = "BUY"
  <2>1. Crosses(taker) <=> b <= taker.limit
    BY <1>7 DEF Crosses, Opposite
  <2>2. b = NoLevel => ~ (b <= taker.limit)
    BY <1>5 DEF NoLevel
  <2> HIDE DEF b
  <2>3. CASE b = NoLevel
    BY <1>6, <2>1, <2>2, <2>3
  <2>4. CASE b # NoLevel /\ taker.price = NULL
    BY <1>1, <1>2, <1>4, <1>6, <1>7, <2>1, <2>4
  <2>5. CASE b # NoLevel /\ taker.price # NULL
    <3>1. base \in Nat /\ b \in Nat /\ taker.limit \in Nat /\ taker.price = base + taker.limit
      BY <1>1, <1>2, <1>3, <1>4, <1>5, <2>5
    <3>2. base + b <= taker.price <=> b <= taker.limit
      BY <3>1
    <3> QED
      BY <1>6, <1>7, <2>1, <2>5, <3>2
  <2> QED
    BY <2>3, <2>4, <2>5
<1>8. CASE taker.side = "SELL"
  <2>1. Crosses(taker) <=> b # NoLevel /\ b >= taker.limit /\ queue[maker][b] # <<>>
    BY <1>8 DEF Crosses, Opposite
  <2> HIDE DEF b, maker
  <2>3. CASE b = NoLevel
    BY <1>6, <2>1, <2>3
  <2>4. CASE b # NoLevel /\ taker.price = NULL
    BY <1>1, <1>2, <1>4, <1>6, <1>8, <2>1, <2>4
  <2>5. CASE b # NoLevel /\ taker.price # NULL
    <3>1. base \in Nat /\ b \in Nat /\ taker.limit \in Nat /\ taker.price = base + taker.limit
      BY <1>1, <1>2, <1>3, <1>4, <1>5, <2>5
    <3>2. base + b >= taker.price <=> b >= taker.limit
      BY <3>1
    <3> QED
      BY <1>2, <1>6, <1>8, <2>1, <2>5, <3>2
  <2> QED
    BY <2>3, <2>4, <2>5
<1> QED
  BY <1>1, <1>7, <1>8 DEF Side

-----------------------------------------------------------------------------
(* The steps.                                                              *)

LEMMA MatchIsFill ==
  ASSUME RInv, taker # NULL, Crosses(taker), NEW maker \in Side,
         maker = Opposite(taker.side), Match(maker)
  PROVE  PriceTime!Fill
<1> DEFINE b   == best[maker]
           q   == queue[maker][b]
           s   == Head(q)
           qty == Min({taker.left, pool[s].qty})
           left == taker.left - qty
           p   == base + b
<1>1. /\ b # NoLevel /\ base_set /\ b \in Idx /\ q # <<>> /\ p \in Prices
      /\ PriceTime!BestPrice(maker) = p /\ PriceTime!Crosses(Wanted)
  <2>1. PriceTime!Crosses(Wanted)
    BY CrossesAlike
  <2>2. Wanted.side = taker.side
    BY TakerIs
  <2>3. PriceTime!Occupied(maker) # {}
    BY <2>1, <2>2 DEF PriceTime!Crosses, PriceTime!Opposite, Opposite
  <2> QED
    BY <2>1, <2>3, BestIsBestPrice
<1>2. /\ s \in Slots /\ pool[s] # NULL /\ pool[s] \in Order
      /\ pool[s].side = maker /\ pool[s].price = b
  BY <1>1, HeadOfBestRests DEF RInv
<1>3. 1 \in DOMAIN q /\ q[1] = s
  <2>1. q \in Seq(Slots) /\ DOMAIN q = 1 .. Len(q) /\ Len(q) \in Nat
    BY <1>1, ListHolds DEF RInv
  <2> HIDE DEF q
  <2> QED
    BY <1>1, <2>1, EmptySeq
<1>4. /\ taker.id \in Ids \union {NULL} /\ taker.left \in Nat \ {0}
      /\ Wanted = [id |-> taker.id, side |-> taker.side,
                   price |-> taker.price, left |-> taker.left]
      /\ Wanted # NULL /\ pool[s].qty \in Nat \ {0} /\ taker \in Takers
  BY <1>2, TakerIs DEF Order, RInv, IInv, TypeOK
<1>5. /\ IF qty = pool[s].qty THEN RemoveOrder(s) ELSE ReduceOrder(s, qty)
      /\ trade' = [maker |-> pool[s].id, taker |-> taker.id,
                   price |-> level_price[maker][b], qty |-> qty]
      /\ taker' = IF left = 0 THEN NULL ELSE [taker EXCEPT !.left = left]
      /\ base' = base /\ base_set' = base_set
  BY DEF Match, window
<1>6. level_price[maker][b] = p
  BY <1>1 DEF RInv, IInv, Shelves, LevelPriceExact
<1>7. PriceTime!Min({taker.left, pool[s].qty}) = qty
  BY DEF PriceTime!Min, Min
<1>8. qty \in Nat /\ qty <= pool[s].qty /\ qty <= taker.left
  BY <1>4, MinOfTwo
<1> HIDE DEF s, qty
<1>9. PICK o \in Order : o = pool[s]
  BY <1>2
<1>10. p = base + o.price /\ o.side = maker /\ o.price = b
  BY <1>2, <1>9
<1>11. PriceTime!Take(maker, p, 1, qty)
  <2>1. \/ qty = o.qty /\ RemoveOrder(s)
        \/ qty # o.qty /\ ReduceOrder(s, qty)
    BY <1>5, <1>9
  <2>2. qty <= o.qty /\ base' = base /\ base_set' = base_set
    BY <1>5, <1>8, <1>9
  <2>3. 1 \in DOMAIN queue[o.side][o.price] /\ queue[o.side][o.price][1] = s
    BY <1>3, <1>10
  <2> HIDE DEF p, b, q
  <2>4. PriceTime!Take(o.side, p, 1, qty)
    BY ONLY RInv, <1>2, <1>8, <1>9, <1>10, <2>1, <2>2, <2>3, TakeStep
  <2> QED
    BY <1>10, <2>4
<1>12. Book[maker][p] # <<>> /\ Head(Book[maker][p]) = [id |-> o.id, qty |-> o.qty]
  <2>2. Book[maker][p] = Shelf(pool, q)
    <3>1. p - base = b
      BY <1>1, PriceAndIndex
    <3> QED
      BY <1>1, <3>1, BookIsShelves DEF Shelving, ListAt
  <2>3. /\ q \in Seq(Slots) /\ Len(q) \in Nat
        /\ \A k \in 1 .. Len(q) : pool[q[k]] \in Order
    BY <1>1, ListHolds DEF RInv
  <2>4. q # <<>>
    BY <1>1
  <2> HIDE DEF q
  <2>5. Shelf(pool, q) \in Seq(Entries) /\ Shelf(pool, q) # <<>>
    BY <2>3, <2>4, ShelfIs, ShelfIsSeq
  <2>6. Head(Shelf(pool, q)) = Shelf(pool, q)[1]
    <3> DEFINE e == Shelf(pool, q)
    <3>1. e \in Seq(Entries) /\ e # <<>>
      BY <2>5
    <3> HIDE DEF e
    <3>2. Head(e) = e[1]
      BY <3>1, HeadTailProperties
    <3> QED
      BY <3>2 DEF e
  <2>7. Shelf(pool, q)[1] = [id |-> pool[s].id, qty |-> pool[s].qty]
    <3>1. 1 \in 1 .. Len(q) /\ q[1] = s
      BY <1>3, <2>3, LenProperties DEF q
    <3> QED
      BY <2>3, <3>1, ShelfIs
  <2> QED
    BY <1>9, <2>2, <2>5, <2>6, <2>7
<1>13. /\ PriceTime!Opposite(Wanted.side) = maker
       /\ Wanted.left = taker.left /\ Wanted.id = taker.id
  BY <1>4 DEF PriceTime!Opposite, Opposite
<1>14. Wanted' = IF qty = Wanted.left THEN NULL
                 ELSE [Wanted EXCEPT !.left = Wanted.left - qty]
  <2>1. CASE qty = taker.left
    <3>1. left = 0
      BY <1>4, <2>1
    <3>2. taker' = NULL
      BY <1>5, <3>1
    <3> QED
      BY <1>13, <2>1, <3>2 DEF Wanted
  <2>2. CASE qty # taker.left
    <3>1. left # 0 /\ left \in Nat \ {0}
      BY <1>4, <1>8, <2>2
    <3> HIDE DEF left
    <3>2. taker' = [taker EXCEPT !.left = left]
      BY <1>5, <3>1
    <3>3. /\ taker' \in Takers /\ taker'.id = taker.id /\ taker'.side = taker.side
          /\ taker'.price = taker.price /\ taker'.left = left
      BY <1>4, <3>1, <3>2 DEF Takers
    <3>4. Wanted' = [id |-> taker.id, side |-> taker.side, price |-> taker.price, left |-> left]
      BY <3>3, NullAssumption DEF Wanted
    <3> QED
      BY <1>4, <1>13, <2>2, <3>4 DEF left
  <2> QED
    BY <2>1, <2>2
<1>15. trade' = [maker |-> o.id, taker |-> taker.id, price |-> p, qty |-> qty]
  BY <1>5, <1>6, <1>9
<1> HIDE DEF p, b, q, left
<1> DEFINE e == Head(Book[maker][p])
<1>16. e.id = o.id /\ e.qty = o.qty /\ PriceTime!Min({Wanted.left, e.qty}) = qty
  <2>1. e.id = o.id /\ e.qty = o.qty
    BY <1>12
  <2> HIDE DEF e
  <2>2. {Wanted.left, e.qty} = {taker.left, pool[s].qty}
    BY <1>9, <1>13, <2>1
  <2> QED
    BY <1>7, <2>1, <2>2
<1> QED
  BY <1>1, <1>4, <1>11, <1>13, <1>14, <1>15, <1>16 DEF PriceTime!Fill

(* An order gives up what is asked of it, or all it has.                   *)
(* The order at slot s gives up what is asked of it in the abstract book.  *)
TakesFrom(s, id, asked) ==
  \E pos \in PriceTime!PositionOf(id) :
    /\ pos[1] = pool[s].side /\ pos[2] = base + pool[s].price
    /\ Book[pos[1]][pos[2]][pos[3]] = [id |-> id, qty |-> pool[s].qty]
    /\ PriceTime!Take(pos[1], pos[2], pos[3], Min({asked, pool[s].qty}))

LEMMA PlacedTake ==
  ASSUME RInv, NEW id \in Ids, NEW asked \in Nat, NEW s, s = id_map[id], s # NULL,
         \/ asked >= pool[s].qty /\ RemoveOrder(s)
         \/ ~ (asked >= pool[s].qty) /\ ReduceOrder(s, asked),
         base' = base, base_set' = base_set
  PROVE  /\ s \in Slots /\ pool[s] \in Order /\ pool[s].id = id
         /\ level_price[pool[s].side][pool[s].price] = base + pool[s].price
         /\ PriceTime!Min({asked, pool[s].qty}) = Min({asked, pool[s].qty})
         /\ TakesFrom(s, id, asked)
<1>1. s \in Slots /\ pool[s] # NULL /\ pool[s] \in Order /\ pool[s].id = id
  BY KnownIdRests DEF RInv, IInv, Shelves, Exact
<1>2. PICK o \in Order : o = pool[s]
  BY <1>1
<1>3. /\ base_set /\ o.side \in Side /\ o.price \in Idx
      /\ \E k \in DOMAIN queue[o.side][o.price] : queue[o.side][o.price][k] = s
  BY <1>1, <1>2, OrderIsPlaced
<1>4. PICK k \in DOMAIN queue[o.side][o.price] : queue[o.side][o.price][k] = s
  BY <1>3
<1>5. level_price[o.side][o.price] = base + o.price
  <2>1. queue[o.side][o.price] # <<>>
    BY <1>4
  <2> QED
    BY <1>3, <2>1 DEF RInv, IInv, Shelves, LevelPriceExact
<1> DEFINE p == base + o.price
           qty == Min({asked, pool[s].qty})
<1>6. PriceTime!Min({asked, pool[s].qty}) = qty
  BY DEF PriceTime!Min, Min
<1>7. o.qty \in Nat \ {0} /\ p = base + o.price
  BY DEF Order
<1>8. qty = IF asked >= o.qty THEN o.qty ELSE asked
  <2>1. qty \in {asked, pool[s].qty} /\ qty <= asked /\ qty <= pool[s].qty
    BY <1>2, <1>7, MinOfTwo
  <2> HIDE DEF qty
  <2> QED
    BY <1>2, <1>7, <2>1
<1> HIDE DEF p, qty
<1>9. /\ <<o.side, p, k>> \in PriceTime!PositionOf(o.id)
      /\ Book[o.side][p][k] = [id |-> o.id, qty |-> o.qty]
  BY ONLY RInv, <1>1, <1>2, <1>4, <1>7, PositionOfOrder
<1>10. PriceTime!Take(o.side, p, k, qty)
  <2>1. qty \in Nat /\ qty <= o.qty
    BY <1>7, <1>8
  <2>2. \/ qty = o.qty /\ RemoveOrder(s)
        \/ qty # o.qty /\ ReduceOrder(s, qty)
    BY <1>2, <1>7, <1>8
  <2>3. base' = base /\ base_set' = base_set
    OBVIOUS
  <2> QED
    BY ONLY RInv, <1>1, <1>2, <1>4, <1>7, <2>1, <2>2, <2>3, TakeStep
<1> DEFINE pos == <<o.side, p, k>>
<1>11. pos \in PriceTime!PositionOf(id) /\ pos[1] = o.side /\ pos[2] = p /\ pos[3] = k
  BY <1>1, <1>2, <1>9
<1> HIDE DEF pos
<1>12. \E x \in PriceTime!PositionOf(id) :
         /\ x[1] = pool[s].side /\ x[2] = base + pool[s].price
         /\ Book[x[1]][x[2]][x[3]] = [id |-> id, qty |-> pool[s].qty]
         /\ PriceTime!Take(x[1], x[2], x[3], qty)
  <2>1. /\ pos[1] = pool[s].side /\ pos[2] = base + pool[s].price
        /\ Book[pos[1]][pos[2]][pos[3]] = [id |-> id, qty |-> pool[s].qty]
        /\ PriceTime!Take(pos[1], pos[2], pos[3], qty)
    BY <1>1, <1>2, <1>7, <1>9, <1>10, <1>11
  <2> QED
    BY <1>11, <2>1
<1> QED
  BY <1>1, <1>2, <1>5, <1>6, <1>12 DEF qty, TakesFrom

LEMMA NothingWanted ==
  ASSUME taker = NULL, taker' = taker PROVE Wanted = NULL /\ Wanted' = Wanted
BY DEF Wanted

LEMMA ExecuteIsShrink ==
  ASSUME RInv, NEW id \in Ids, NEW fill_qty \in Nat, execute_order(id, fill_qty)
  PROVE  PriceTime!Shrink(id, fill_qty, TRUE)
<1> DEFINE s == id_map[id]
           qty == Min({fill_qty, pool[s].qty})
<1>1. /\ taker = NULL /\ taker' = taker /\ s # NULL
      /\ \/ fill_qty >= pool[s].qty /\ RemoveOrder(s)
         \/ ~ (fill_qty >= pool[s].qty) /\ ReduceOrder(s, fill_qty)
      /\ trade' = [maker |-> pool[s].id, taker |-> NULL,
                   price |-> level_price[pool[s].side][pool[s].price], qty |-> qty]
      /\ base' = base /\ base_set' = base_set
  BY DEF execute_order, window
<1>2. s = id_map[id]
  OBVIOUS
<1> HIDE DEF s
<1>3. /\ pool[s].id = id
      /\ level_price[pool[s].side][pool[s].price] = base + pool[s].price
      /\ PriceTime!Min({fill_qty, pool[s].qty}) = qty
      /\ TakesFrom(s, id, fill_qty)
  BY <1>1, <1>2, PlacedTake
<1>4. Wanted = NULL /\ Wanted' = Wanted
  BY <1>1, NothingWanted
<1>5. trade' = [maker |-> id, taker |-> NULL, price |-> base + pool[s].price, qty |-> qty]
  BY <1>1, <1>3
<1>6. PICK pos \in PriceTime!PositionOf(id) :
        /\ pos[1] = pool[s].side /\ pos[2] = base + pool[s].price
        /\ Book[pos[1]][pos[2]][pos[3]] = [id |-> id, qty |-> pool[s].qty]
        /\ PriceTime!Take(pos[1], pos[2], pos[3], qty)
  BY <1>3 DEF TakesFrom
<1> HIDE DEF qty
<1>7. Book[pos[1]][pos[2]][pos[3]].qty = pool[s].qty
  BY <1>6
<1>8. PriceTime!Min({fill_qty, Book[pos[1]][pos[2]][pos[3]].qty}) = qty
  BY <1>3, <1>7
<1> QED
  BY <1>4, <1>5, <1>6, <1>8 DEF PriceTime!Shrink

LEMMA ReduceIsShrink ==
  ASSUME RInv, NEW id \in Ids, NEW cancel_qty \in Nat, reduce_order_qty(id, cancel_qty)
  PROVE  PriceTime!Shrink(id, cancel_qty, FALSE)
<1> DEFINE s == id_map[id]
           qty == Min({cancel_qty, pool[s].qty})
<1>1. /\ taker = NULL /\ taker' = taker /\ s # NULL
      /\ \/ cancel_qty >= pool[s].qty /\ RemoveOrder(s)
         \/ ~ (cancel_qty >= pool[s].qty) /\ ReduceOrder(s, cancel_qty)
      /\ trade' = NULL
      /\ base' = base /\ base_set' = base_set
  BY DEF reduce_order_qty, window
<1>2. s = id_map[id]
  OBVIOUS
<1> HIDE DEF s
<1>3. /\ pool[s].id = id
      /\ PriceTime!Min({cancel_qty, pool[s].qty}) = qty
      /\ TakesFrom(s, id, cancel_qty)
  BY <1>1, <1>2, PlacedTake
<1>4. Wanted = NULL /\ Wanted' = Wanted
  BY <1>1, NothingWanted
<1>5. PICK pos \in PriceTime!PositionOf(id) :
        /\ Book[pos[1]][pos[2]][pos[3]] = [id |-> id, qty |-> pool[s].qty]
        /\ PriceTime!Take(pos[1], pos[2], pos[3], qty)
  BY <1>3 DEF TakesFrom
<1> HIDE DEF qty
<1>6. Book[pos[1]][pos[2]][pos[3]].qty = pool[s].qty
  BY <1>5
<1>7. PriceTime!Min({cancel_qty, Book[pos[1]][pos[2]][pos[3]].qty}) = qty
  BY <1>3, <1>6
<1> QED
  BY <1>1, <1>4, <1>5, <1>7 DEF PriceTime!Shrink

LEMMA CancelIsCancel ==
  ASSUME RInv, NEW id \in Ids, cancel_order(id)
  PROVE  PriceTime!Cancel(id)
<1> DEFINE s == id_map[id]
<1>1. /\ taker = NULL /\ taker' = taker /\ s # NULL
      /\ RemoveOrder(s) /\ trade' = NULL
      /\ base' = base /\ base_set' = base_set
  BY DEF cancel_order, window
<1>2. s = id_map[id]
  OBVIOUS
<1> HIDE DEF s
<1>3. pool[s] \in Order
  BY <1>1, <1>2, KnownIdRests DEF RInv
<1> DEFINE asked == pool[s].qty
           qty == Min({asked, pool[s].qty})
<1>4. asked \in Nat /\ asked >= pool[s].qty
  BY <1>3 DEF Order
<1> HIDE DEF asked
<1>5. TakesFrom(s, id, asked)
  BY <1>1, <1>2, <1>4, PlacedTake
<1>6. qty = pool[s].qty
  <2>1. asked = pool[s].qty /\ pool[s].qty \in Nat
    BY <1>3 DEF asked, Order
  <2>2. qty \in {asked, pool[s].qty}
    BY <2>1, MinOfTwo
  <2> QED
    BY <2>1, <2>2
<1>7. PICK pos \in PriceTime!PositionOf(id) :
        /\ Book[pos[1]][pos[2]][pos[3]] = [id |-> id, qty |-> pool[s].qty]
        /\ PriceTime!Take(pos[1], pos[2], pos[3], qty)
  BY <1>5 DEF TakesFrom
<1> HIDE DEF qty
<1>8. Book[pos[1]][pos[2]][pos[3]].qty = qty
  BY <1>6, <1>7
<1>9. PriceTime!Shortened(Book[pos[1]][pos[2]], pos[3], qty)
        = PriceTime!RemoveAt(Book[pos[1]][pos[2]], pos[3])
  BY <1>8 DEF PriceTime!Shortened
<1>10. Book' = [Book EXCEPT ![pos[1]][pos[2]] =
                  PriceTime!RemoveAt(Book[pos[1]][pos[2]], pos[3])]
  BY <1>7, <1>9 DEF PriceTime!Take
<1>11. Wanted = NULL /\ Wanted' = Wanted
  BY <1>1, NothingWanted
<1> QED
  BY <1>1, <1>10, <1>11 DEF PriceTime!Cancel

(* A book whose lists stay as they are; or which has none yet, anchored.   *)
LEMMA SameBook ==
  ASSUME queue' = queue, pool' = pool, base' = base, base_set' = base_set
  PROVE  Book' = Book
BY BookIsShelves, BookIsShelvesAfter DEF Shelving

LEMMA AnchoringKeepsBook ==
  ASSUME RInv, queue' = queue, pool' = pool, ~ base_set,
         \A p \in Prices : p - base' \in Idx
  PROVE  Book' = Book
<1>1. Shelf(pool, <<>>) = <<>>
  BY DEF Shelf
<1>2. \A side \in Side, p \in Prices :
        Shelf(pool, ListAt(queue, base, base_set, side, p)) = <<>>
  BY <1>1 DEF ListAt
<1>3. \A side \in Side, p \in Prices :
        Shelf(pool', ListAt(queue', base', base_set', side, p)) = <<>>
  <2> SUFFICES ASSUME NEW side \in Side, NEW p \in Prices
               PROVE  Shelf(pool', ListAt(queue', base', base_set', side, p)) = <<>>
    OBVIOUS
  <2>1. queue[side][p - base'] = <<>>
    BY DEF RInv, IInv, AnchoredFirst
  <2>2. ListAt(queue', base', base_set', side, p) = <<>>
    BY <2>1 DEF ListAt
  <2> QED
    BY <1>1, <2>2
<1>4. Book = [side \in Side |-> [p \in Prices |-> <<>>]]
  BY <1>2, BookIsShelves DEF Shelving
<1>5. Book' = [side \in Side |-> [p \in Prices |-> <<>>]]
  BY <1>3, BookIsShelvesAfter DEF Shelving
<1> QED
  BY <1>4, <1>5

(* With a wide window every price is accepted where it is.                 *)
LEMMA NothingSlides ==
  ASSUME WideWindow, RInv, NEW id \in Ids, NEW side \in Side, NEW price \in Prices,
         NEW qty \in Quantities, insert_limit_order(id, side, price, qty)
  PROVE  /\ taker = NULL /\ trade' = NULL /\ base_set' = TRUE
         /\ base' = AnchoredBase(price)
         /\ taker' = Taker(id, side, price, price - AnchoredBase(price), qty)
         /\ pool' = pool /\ queue' = queue /\ best' = best
         /\ base_set => base' = base
         /\ \A p \in Prices : p - base' \in Idx
<1>1. price \in Nat
  BY BookAssumption
<1>2. \A p \in Prices : p - AnchoredBase(price) \in Idx
  BY DEF AnchoredBase, RInv, WideWindow
<1>3. AcceptInBand(id, side, price, qty)
  BY <1>2 DEF insert_limit_order, AcceptAfterRebase, RejectOutOfBand, Rejects
<1>4. /\ taker = NULL /\ trade' = NULL /\ base_set' = TRUE
      /\ base' = AnchoredBase(price)
      /\ taker' = Taker(id, side, price, price - AnchoredBase(price), qty)
      /\ pool' = pool /\ queue' = queue /\ best' = best
  BY <1>3 DEF insert_limit_order, AcceptInBand, levels, tob
<1> QED
  BY <1>2, <1>4 DEF AnchoredBase

LEMMA InsertIsSubmit ==
  ASSUME WideWindow, RInv, NEW id \in Ids, NEW side \in Side, NEW price \in Prices,
         NEW qty \in Quantities, insert_limit_order(id, side, price, qty)
  PROVE  PriceTime!Submit(id, side, price, qty)
<1> DEFINE limit == price - AnchoredBase(price)
<1>1. /\ taker = NULL /\ trade' = NULL /\ base_set' = TRUE
      /\ taker' = Taker(id, side, price, limit, qty)
      /\ pool' = pool /\ queue' = queue
      /\ base_set => base' = base
      /\ \A p \in Prices : p - base' \in Idx
  BY NothingSlides
<1>2. Book' = Book
  <2>1. CASE base_set
    BY <1>1, <2>1, SameBook
  <2>2. CASE ~ base_set
    BY <1>1, <2>2, AnchoringKeepsBook
  <2> QED
    BY <2>1, <2>2 DEF RInv, IInv, TypeOK
<1>3. limit \in Idx
  <2>1. price - base' \in Idx /\ base' = AnchoredBase(price)
    BY <1>1, NothingSlides
  <2> QED
    BY <2>1
<1>4. qty \in Nat
  BY BookAssumption
<1> HIDE DEF limit
<1>5. Wanted = NULL
  BY <1>1 DEF Wanted
<1>6. Wanted' = IF qty = 0 THEN NULL
                ELSE [id |-> id, side |-> side, price |-> price, left |-> qty]
  <2>1. CASE qty = 0
    BY <1>1, <2>1 DEF Wanted, Taker
  <2>2. CASE qty # 0
    <3>1. /\ taker' = [id |-> id, side |-> side, price |-> price, limit |-> limit, left |-> qty]
          /\ taker' \in Takers
      BY <1>1, <1>3, <1>4, <2>2 DEF Taker, Takers
    <3>2. taker' # NULL /\ taker'.id = id /\ taker'.side = side /\ taker'.price = price
          /\ taker'.left = qty
      BY <3>1, NullAssumption
    <3> QED
      BY <2>2, <3>2 DEF Wanted
  <2> QED
    BY <2>1, <2>2
<1> QED
  BY <1>1, <1>2, <1>5, <1>6 DEF PriceTime!Submit

LEMMA MarketIsSubmit ==
  ASSUME RInv, NEW side \in Side, NEW qty \in Quantities, process_market_order(side, qty)
  PROVE  PriceTime!Submit(NULL, side, NULL, qty)
<1> DEFINE limit == IF side = "BUY" THEN Band - 1 ELSE 0
<1>1. /\ taker = NULL /\ trade' = NULL /\ base_set' = base_set /\ base' = base
      /\ taker' = Taker(NULL, side, NULL, limit, qty)
      /\ pool' = pool /\ queue' = queue
  BY DEF process_market_order, window, levels
<1>2. Book' = Book
  BY <1>1, SameBook
<1>3. limit \in Idx
  BY BookAssumption DEF Idx
<1>4. qty \in Nat
  BY BookAssumption
<1> HIDE DEF limit
<1>5. Wanted = NULL
  BY <1>1 DEF Wanted
<1>6. Wanted' = IF qty = 0 THEN NULL
                ELSE [id |-> NULL, side |-> side, price |-> NULL, left |-> qty]
  <2>1. CASE qty = 0
    BY <1>1, <2>1 DEF Wanted, Taker
  <2>2. CASE qty # 0
    <3>1. /\ taker' = [id |-> NULL, side |-> side, price |-> NULL, limit |-> limit, left |-> qty]
          /\ taker' \in Takers
      BY <1>1, <1>3, <1>4, <2>2 DEF Taker, Takers
    <3>2. taker' # NULL /\ taker'.id = NULL /\ taker'.side = side /\ taker'.price = NULL
          /\ taker'.left = qty
      BY <3>1, NullAssumption
    <3> QED
      BY <2>2, <3>2 DEF Wanted
  <2> QED
    BY <2>1, <2>2
<1> QED
  BY <1>1, <1>2, <1>5, <1>6 DEF PriceTime!Submit

LEMMA DiscardIsFinish ==
  ASSUME RInv, DiscardRemainder
  PROVE  PriceTime!Finish
<1>1. /\ taker # NULL /\ ~ Crosses(taker) /\ taker' = NULL /\ trade' = NULL
      /\ taker.price = NULL \/ Live = Slots
      /\ pool' = pool /\ queue' = queue /\ base' = base /\ base_set' = base_set
  BY DEF DiscardRemainder, window, levels
<1>2. Book' = Book
  BY <1>1, SameBook
<1>3. Wanted # NULL /\ Wanted.price = taker.price /\ ~ PriceTime!Crosses(Wanted)
  BY <1>1, TakerIs, CrossesAlike
<1>4. Wanted' = NULL
  BY <1>1 DEF Wanted
<1>5. Wanted.price = NULL \/ PriceTime!Cardinality(PriceTime!Positions) = Cardinality(Slots)
  BY <1>1, <1>3, FullAsPool
<1> QED
  BY <1>1, <1>2, <1>3, <1>4, <1>5 DEF PriceTime!Finish

LEMMA RestIsFinish ==
  ASSUME RInv, RestRemainder
  PROVE  PriceTime!Finish
<1>1. /\ taker # NULL /\ taker.price # NULL /\ ~ Crosses(taker)
      /\ taker' = NULL /\ trade' = NULL /\ base' = base /\ base_set' = base_set
  BY DEF RestRemainder, window
<1>2. PICK t \in [id : Ids, side : Side, price : Prices, limit : Idx, left : Nat \ {0}] :
        t = taker
  <2>1. taker \in Takers
    BY <1>1 DEF RInv, IInv, TypeOK
  <2> QED
    BY <1>1, <2>1 DEF Takers
<1> DEFINE o == [id |-> t.id, side |-> t.side, price |-> t.limit, qty |-> t.left]
           q == queue[t.side][t.limit]
<1>3. o \in Order /\ o.id = t.id /\ o.qty = t.left
  BY DEF Order
<1>4. PICK s \in Slots :
        /\ pool[s] = NULL
        /\ pool' = [pool EXCEPT ![s] = o]
        /\ queue' = [queue EXCEPT ![t.side][t.limit] = Append(q, s)]
  BY <1>2 DEF RestRemainder, level_append, Live
<1>5. /\ t.side \in Side /\ t.limit \in Idx /\ t.price \in Prices /\ base_set
      /\ t.price = base + t.limit
  BY <1>1, <1>2, TakerIs
<1>6. t.price - base = t.limit
  BY <1>5, PriceAndIndex
<1>7. /\ q \in Seq(Slots)
      /\ \A k \in 1 .. Len(q) : /\ q[k] \in Slots /\ pool[q[k]] # NULL
                                /\ pool[q[k]] \in Order
  <2> DEFINE sd == t.side
             i  == t.limit
  <2>1. sd \in Side /\ i \in Idx /\ q = queue[sd][i]
    BY <1>5
  <2>2. IInv
    BY DEF RInv
  <2> HIDE DEF q, sd, i
  <2>3. q \in Seq(Slots)
    BY ONLY <2>1, <2>2, ListHolds
  <2>4. \A k \in 1 .. Len(q) : q[k] \in Slots /\ pool[q[k]] # NULL /\ pool[q[k]] \in Order
    BY ONLY <2>1, <2>2, ListHolds
  <2> QED
    BY <2>3, <2>4
<1>8. /\ pool \in [Slots -> Order \union {NULL}]
      /\ queue \in [Side -> [Idx -> Seq(Slots)]]
  BY DEF RInv, IInv, TypeOK
<1> HIDE DEF o
<1>9. pool'[s] = o /\ \A r \in Slots : r # s => pool'[r] = pool[r]
  BY <1>4, <1>8
<1>10. queue'[t.side][t.limit] = Append(q, s)
       /\ \A sd \in Side, j \in Idx : sd # t.side \/ j # t.limit => queue'[sd][j] = queue[sd][j]
  BY <1>4, <1>5, <1>8
<1>11. ASSUME NEW sd \in Side, NEW i \in Idx, NEW r, r = queue[sd][i]
       PROVE  /\ Shelf(pool', r) = Shelf(pool, r) /\ r \in Seq(Slots)
              /\ \A k \in 1 .. Len(r) : pool'[r[k]] \in Order
  <2>1. /\ r \in Seq(Slots)
        /\ \A k \in 1 .. Len(r) : r[k] \in Slots /\ pool[r[k]] # NULL /\ pool[r[k]] \in Order
    BY <1>11, ListHolds DEF RInv
  <2>2. \A k \in 1 .. Len(r) : pool'[r[k]] = pool[r[k]]
    BY <1>4, <1>9, <2>1
  <2>3. Shelf(pool', r) = Shelf(pool, r)
    BY <2>1, <2>2, ShelfAgrees
  <2> QED
    BY <2>1, <2>2, <2>3
<1>12. Shelf(pool', Append(q, s)) = Append(Shelf(pool, q), [id |-> t.id, qty |-> t.left])
  <2>1. Shelf(pool', q) = Shelf(pool, q) /\ \A k \in 1 .. Len(q) : pool'[q[k]] \in Order
    BY <1>5, <1>11
  <2> HIDE DEF q
  <2>2. Shelf(pool', Append(q, s)) =
          Append(Shelf(pool', q), [id |-> pool'[s].id, qty |-> pool'[s].qty])
    <3> DEFINE after == pool'
    <3>1. \A k \in 1 .. Len(q) : after[q[k]] \in Order
      BY <2>1
    <3>2. after[s] \in Order
      BY <1>3, <1>9
    <3> HIDE DEF after
    <3>3. Shelf(after, Append(q, s)) = Append(Shelf(after, q), [id |-> after[s].id, qty |-> after[s].qty])
      BY <1>7, <3>1, <3>2, ShelfGrows
    <3> QED
      BY <3>3 DEF after
  <2>3. pool'[s].id = t.id /\ pool'[s].qty = t.left
    BY <1>3, <1>9
  <2> QED
    BY <2>1, <2>2, <2>3
<1>13. Book[t.side][t.price] = Shelf(pool, q)
  BY <1>5, <1>6, BookIsShelves DEF Shelving, ListAt
<1>14. Book' = [Book EXCEPT ![t.side][t.price] = Shelf(pool', queue'[t.side][t.price - base])]
  <2>1. ASSUME NEW sd \in Side, NEW x \in Prices, sd # t.side \/ x # t.price
        PROVE  Shelf(pool', queue'[sd][x - base]) = Shelf(pool, queue[sd][x - base])
    <3>1. x - base \in Idx /\ (sd # t.side \/ x - base # t.limit)
      <4>1. x - base \in Idx /\ base + (x - base) = x
        BY <1>5, PriceAndIndex
      <4> QED
        BY <1>5, <2>1, <4>1
    <3>2. queue'[sd][x - base] = queue[sd][x - base]
      BY <1>10, <3>1
    <3> QED
      BY <1>11, <3>1, <3>2
  <2>2. base_set /\ base' = base /\ base_set' = base_set /\ t.side \in Side /\ t.price \in Prices
    BY <1>1, <1>5
  <2> QED
    BY ONLY <2>1, <2>2, BookChanges
<1>15. Book' = [Book EXCEPT ![t.side][t.price] =
                  Append(Book[t.side][t.price], [id |-> t.id, qty |-> t.left])]
  BY <1>6, <1>10, <1>12, <1>13, <1>14
<1>16. /\ Wanted # NULL /\ Wanted.price = t.price /\ Wanted.side = t.side
       /\ Wanted.id = t.id /\ Wanted.left = t.left
       /\ ~ PriceTime!Crosses(Wanted)
  BY <1>1, <1>2, TakerIs, CrossesAlike
<1>17. Wanted' = NULL
  BY <1>1 DEF Wanted
<1>18. Wanted.price # NULL /\ PriceTime!Cardinality(PriceTime!Positions) # Cardinality(Slots)
  <2>1. Live # Slots
    BY <1>4 DEF Live
  <2> QED
    BY <1>1, <1>2, <1>16, <2>1, FullAsPool
<1> QED
  BY <1>1, <1>15, <1>16, <1>17, <1>18 DEF PriceTime!Finish

-----------------------------------------------------------------------------
LEMMA WindowStands ==
  ASSUME RInv, [Next]_vars, base' = base
  PROVE  BestExact' /\ NotCrossed'
<1>1. IInv /\ IInv' /\ TopStep /\ NotCrossed
  BY StepKeepsInvariant, EveryTopStep DEF RInv
<1>2. \A side \in Side : IsTop(side, best[side], OccupiedIn(queue, side))
  BY BestIsTop
<1>3. /\ \A side \in Side : IsTop(side, best'[side], OccupiedIn(queue', side))
      /\ NotCrossed'
  BY <1>1, <1>2, TopStepKeepsTop
<1>4. TopExact(best', queue')
  BY <1>3, TopExactIsTop
<1> QED
  BY <1>3, <1>4 DEF BestExact, TopExact, OccupiedIn, Occupied

LEMMA MatchSweeps ==
  ASSUME RInv, taker # NULL, NEW maker \in Side, Match(maker)
  PROVE  MarketSweeps' /\ base' = base /\ base_set' = base_set
<1> DEFINE left == taker.left - Min({taker.left, pool[Head(queue[maker][best[maker]])].qty})
<1>1. /\ taker' = IF left = 0 THEN NULL ELSE [taker EXCEPT !.left = left]
      /\ base' = base /\ base_set' = base_set
  BY DEF Match, window
<1> HIDE DEF left
<1>2. taker \in Takers
  BY DEF RInv, IInv, TypeOK
<1>3. taker' # NULL =>
        taker'.price = taker.price /\ taker'.limit = taker.limit /\ taker'.side = taker.side
  BY <1>1, <1>2 DEF Takers
<1> QED
  BY <1>1, <1>3 DEF RInv, MarketSweeps

(* With a wide window only an insertion may move it, and only to anchor it.*)
LEMMA OtherStepsSweep ==
  ASSUME RInv, [Next]_vars,
         ~ \E id \in Ids, side \in Side, price \in Prices, qty \in Quantities :
             insert_limit_order(id, side, price, qty)
  PROVE  MarketSweeps' /\ base' = base /\ base_set' = base_set
<1>1. ASSUME NEW side \in Side, NEW qty \in Quantities, process_market_order(side, qty)
      PROVE  MarketSweeps' /\ base' = base /\ base_set' = base_set
  BY <1>1 DEF process_market_order, Taker, MarketSweeps, window
<1>2. ASSUME taker' = taker \/ taker' = NULL, UNCHANGED window
      PROVE  MarketSweeps' /\ base' = base /\ base_set' = base_set
  BY <1>2 DEF RInv, MarketSweeps, window
<1>3. ASSUME NEW id \in Ids, NEW qty \in Quantities,
             cancel_order(id) \/ execute_order(id, qty) \/ reduce_order_qty(id, qty)
      PROVE  MarketSweeps' /\ base' = base /\ base_set' = base_set
  <2>1. taker' = taker /\ UNCHANGED window
    BY <1>3 DEF cancel_order, execute_order, reduce_order_qty, window
  <2> QED
    BY <1>2, <2>1
<1>4. ASSUME NEW id \in Ids, cancel_order(id)
      PROVE  MarketSweeps' /\ base' = base /\ base_set' = base_set
  <2>1. taker' = taker /\ UNCHANGED window
    BY <1>4 DEF cancel_order, window
  <2> QED
    BY <1>2, <2>1
<1>5. CASE match_against_asks \/ match_against_bids
  <2>1. taker # NULL /\ \E maker \in Side : Match(maker)
    BY <1>5 DEF match_against_asks, match_against_bids, Side
  <2> QED
    BY <2>1, MatchSweeps
<1>6. CASE RestRemainder \/ DiscardRemainder
  <2>1. taker' = NULL /\ UNCHANGED window
    BY <1>6 DEF RestRemainder, DiscardRemainder
  <2> QED
    BY <1>2, <2>1
<1>7. CASE UNCHANGED vars
  BY <1>2, <1>7 DEF vars
<1> QED
  BY <1>1, <1>3, <1>4, <1>5, <1>6, <1>7 DEF Next, Call, Continue

LEMMA RefinementInvariantInit == Init => RInv
<1> SUFFICES ASSUME Init PROVE RInv
  OBVIOUS
<1>1. IInv
  BY InitEstablishesInvariant
<1>2. \A side \in Side, i \in Idx : queue[side][i] = <<>>
  BY DEF Init
<1>3. best["BUY"] = NoLevel /\ best["SELL"] = NoLevel
      /\ Occupied("BUY") = {} /\ Occupied("SELL") = {}
  BY <1>2 DEF Init, Occupied, Side
<1> QED
  BY <1>1, <1>2, <1>3
     DEF Init, RInv, PricesKnown, BestExact, NotCrossed, MarketSweeps, Side

LEMMA RefinementInvariantStep ==
  ASSUME WideWindow, RInv, [Next]_vars
  PROVE  RInv'
<1>1. IInv' /\ PricesKnown'
  BY StepKeepsInvariant, PricesStayKnown DEF RInv
<1>2. ASSUME NEW id \in Ids, NEW side \in Side, NEW price \in Prices,
             NEW qty \in Quantities, insert_limit_order(id, side, price, qty)
      PROVE  RInv'
  <2>1. /\ taker' = Taker(id, side, price, price - AnchoredBase(price), qty)
        /\ queue' = queue /\ best' = best
        /\ \A p \in Prices : p - base' \in Idx
    BY <1>2, NothingSlides
  <2>2. MarketSweeps'
    BY <2>1, BookAssumption DEF Taker, MarketSweeps
  <2>3. BestExact' /\ NotCrossed'
    BY <2>1 DEF RInv, BestExact, NotCrossed, Occupied
  <2> QED
    BY <1>1, <2>1, <2>2, <2>3 DEF RInv
<1>3. CASE ~ \E id \in Ids, side \in Side, price \in Prices, qty \in Quantities :
               insert_limit_order(id, side, price, qty)
  <2>1. MarketSweeps' /\ base' = base /\ base_set' = base_set
    BY <1>3, OtherStepsSweep
  <2>2. BestExact' /\ NotCrossed'
    BY <2>1, WindowStands
  <2> QED
    BY <1>1, <2>1, <2>2 DEF RInv
<1> QED
  BY <1>2, <1>3

(* Every step of the flat book is one of the price-time book.              *)
LEMMA StepIsPriceTime ==
  ASSUME WideWindow, RInv, [Next]_vars
  PROVE  [PriceTime!Next]_(PriceTime!vars)
<1>1. Quantities \subseteq Nat
  BY BookAssumption
<1>2. ASSUME NEW id \in Ids, NEW side \in Side, NEW price \in Prices,
             NEW qty \in Quantities, id_map[id] = NULL,
             insert_limit_order(id, side, price, qty)
      PROVE  PriceTime!Next
  <2>1. PriceTime!PositionOf(id) = {} /\ PriceTime!Submit(id, side, price, qty)
    BY <1>2, FreeIdIsNowhere, InsertIsSubmit
  <2>2. side \in PriceTime!Side
    BY DEF PriceTime!Side, Side
  <2> QED
    BY <2>1, <2>2 DEF PriceTime!Next
<1>3. ASSUME NEW side \in Side, NEW qty \in Quantities, process_market_order(side, qty)
      PROVE  PriceTime!Next
  <2>1. PriceTime!Submit(NULL, side, NULL, qty)
    BY <1>3, MarketIsSubmit
  <2>2. side \in PriceTime!Side
    BY DEF PriceTime!Side, Side
  <2> QED
    BY <2>1, <2>2 DEF PriceTime!Next
<1>4. ASSUME NEW id \in Ids, cancel_order(id) PROVE PriceTime!Next
  <2>1. PriceTime!Cancel(id)
    BY <1>4, CancelIsCancel
  <2> QED
    BY <2>1 DEF PriceTime!Next
<1>5. ASSUME NEW id \in Ids, NEW qty \in Quantities, execute_order(id, qty)
      PROVE  PriceTime!Next
  <2>1. PriceTime!Shrink(id, qty, TRUE)
    BY <1>1, <1>5, ExecuteIsShrink
  <2> QED
    BY <2>1 DEF PriceTime!Next
<1>6. ASSUME NEW id \in Ids, NEW qty \in Quantities, reduce_order_qty(id, qty)
      PROVE  PriceTime!Next
  <2>1. PriceTime!Shrink(id, qty, FALSE)
    BY <1>1, <1>6, ReduceIsShrink
  <2> QED
    BY <2>1 DEF PriceTime!Next
<1>7. CASE match_against_asks \/ match_against_bids
  <2>1. PICK maker \in Side : maker = Opposite(taker.side) /\ Match(maker)
    BY <1>7 DEF match_against_asks, match_against_bids, Opposite, Side
  <2>2. taker # NULL /\ Crosses(taker)
    BY <1>7 DEF match_against_asks, match_against_bids
  <2>3. PriceTime!Fill
    BY <2>1, <2>2, MatchIsFill
  <2> QED
    BY <2>3 DEF PriceTime!Next
<1>8. CASE RestRemainder
  BY <1>8, RestIsFinish DEF PriceTime!Next
<1>9. CASE DiscardRemainder
  BY <1>9, DiscardIsFinish DEF PriceTime!Next
<1>10. CASE UNCHANGED vars
  <2>1. Book' = Book /\ Wanted' = Wanted /\ trade' = trade
    BY <1>10, SameBook DEF vars, window, levels, Wanted
  <2> QED
    BY <2>1 DEF PriceTime!vars
<1>11. CASE Next
  BY <1>2, <1>3, <1>4, <1>5, <1>6, <1>7, <1>8, <1>9, <1>11 DEF Next, Call, Continue
<1> QED
  BY <1>10, <1>11

LEMMA InitIsPriceTime == Init => PriceTime!Init
<1> SUFFICES ASSUME Init PROVE PriceTime!Init
  OBVIOUS
<1>1. taker = NULL /\ trade = NULL /\ ~ base_set
  BY DEF Init
<1>2. Book = [side \in Side |-> [p \in Prices |-> <<>>]]
  BY <1>1 DEF Book
<1>3. Wanted = NULL
  BY <1>1 DEF Wanted
<1> QED
  BY <1>1, <1>2, <1>3 DEF PriceTime!Init, PriceTime!Side, Side

(* While the window holds every price it never moves, and then the flat    *)
(* book (AcceptInBand, match_against_asks/bids, RestRemainder, the calls   *)
(* on one order), with its levels, bitmap, cached best and pool, is a      *)
(* price-time-priority book: each fill takes the oldest order of the best  *)
(* opposite price, and what rests, for how much and in which order agrees. *)
THEOREM FlatBookIsPriceTime ==
  ASSUME WideWindow PROVE Spec => ImplementsPriceTime
<1>1. Init => RInv /\ PriceTime!Init
  BY RefinementInvariantInit, InitIsPriceTime
<1>2. RInv /\ [Next]_vars => RInv' /\ [PriceTime!Next]_(PriceTime!vars)
  BY RefinementInvariantStep, StepIsPriceTime
<1> QED
  BY <1>1, <1>2, PTL DEF Spec, ImplementsPriceTime, PriceTime!Spec
=============================================================================
