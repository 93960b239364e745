------------------------- MODULE ItchReplay_proofs --------------------------
(***************************************************************************)
(* Proofs about the order routing, for any set of stocks, ids, prices and  *)
(* quantities and any set of allowed stocks.                               *)
(*                                                                         *)
(* The invariant is stated of explicit values, Good(bk, op, own, fd, st,   *)
(* ls), because a replacement is a deletion followed by an insertion: the  *)
(* state between the two is no state of the module, and the invariant has  *)
(* to be carried across it.                                                *)
(***************************************************************************)
EXTENDS ItchReplay, TLAPS

Book == [Ids -> Order \union {NULL}]

(* The order as a book shows it.                                           *)
Shown(order) == [side |-> order.side, price |-> order.price, qty |-> order.qty]

(* An order in a book is on the feed, with at least that quantity.         *)
Backs(fd, i, l, entry) ==
  /\ fd[i] # NULL /\ fd[i].stock = l
  /\ entry.side = fd[i].side /\ entry.price = fd[i].price
  /\ entry.qty <= fd[i].qty

Types(bk, op, own, fd, st, ls) ==
  /\ bk \in [Locates -> Book]
  /\ op \subseteq Locates
  /\ own \in [Ids -> Locates \union {NULL}]
  /\ fd \in [Ids -> FeedOrder \union {NULL}]
  /\ st \in [Ids -> Locates \union {NULL}]
  /\ ls \subseteq Ids

RestingGood(bk, own, fd) ==
  \A l \in Locates, i \in Ids :
    bk[l][i] # NULL => Backs(fd, i, l, bk[l][i]) /\ own[i] = l
EntriesGood(op, own, st) ==
  \A i \in Ids :
    own[i] # NULL => own[i] \in op /\ Tracked(own[i]) /\ st[i] = own[i]
FeedGood(fd, st) == \A i \in Ids : fd[i] # NULL => st[i] = fd[i].stock
ExactGood(bk, fd, ls) ==
  \A i \in Ids :
    fd[i] # NULL /\ Tracked(fd[i].stock) /\ i \notin ls =>
      bk[fd[i].stock][i] = Shown(fd[i])

Good(bk, op, own, fd, st, ls) ==
  /\ Types(bk, op, own, fd, st, ls)
  /\ RestingGood(bk, own, fd)
  /\ EntriesGood(op, own, st)
  /\ FeedGood(fd, st)
  /\ ExactGood(bk, fd, ls)

IInv == Good(book, opened, ref_owner, feed, stock_of, lost) /\ matched \subseteq Ids

-----------------------------------------------------------------------------
(* The outcomes of a call.                                                 *)

LEMMA NullIsNoOrder ==
  /\ \A entry \in Order : entry # NULL
  /\ \A order \in FeedOrder : order # NULL
  /\ \A l \in Locates : l # NULL
BY ReplayAssumption, NullOrderAssumption

LEMMA NothingFilled ==
  ASSUME NEW b, NEW qty \in Nat
  PROVE  Left(b, qty, {}) = qty
<1> DEFINE F(f) == [s \in SUBSET {} |->
                      IF s = {} THEN 0
                      ELSE LET x == CHOOSE x \in s : TRUE
                           IN  b[x].qty + f[s \ {x}]]
<1>1. [s \in SUBSET {} |-> 0] = F([s \in SUBSET {} |-> 0])
  <2>1. \A s \in SUBSET {} : s = {}
    OBVIOUS
  <2> QED
    BY <2>1
<1>2. (CHOOSE f : f = F(f)) = F(CHOOSE f : f = F(f))
  <2>1. \E f : f = F(f)
    BY <1>1
  <2> HIDE DEF F
  <2> QED
    BY <2>1
<1>3. (CHOOSE f : f = F(f))[{}] = 0
  BY <1>2
<1>4. MapThenSumSet(LAMBDA i : b[i].qty, {}) = 0
  BY <1>3 DEF MapThenSumSet, MapThenFoldSet
<1> QED
  BY <1>4 DEF Left

LEMMA InsertEffect ==
  ASSUME NEW b \in Book, NEW id \in Ids, b[id] = NULL,
         NEW side \in Side, NEW price \in Prices, NEW qty \in Nat \ {0},
         NEW o \in Outcomes(b, side, price, qty),
         NEW a, a = AfterInsert(b, id, side, price, qty, o)
  PROVE  /\ a \in Book
         /\ Matched(o) \subseteq Crossers(b, side, price)
         /\ o.dropped \subseteq Ids
         /\ \A i \in Ids \ {id} : a[i] # NULL =>
              /\ b[i] # NULL /\ a[i].side = b[i].side /\ a[i].price = b[i].price
              /\ a[i].qty <= b[i].qty
         /\ \A i \in Ids \ {id} : i \notin o.dropped \union Matched(o) => a[i] = b[i]
         /\ a[id] # NULL =>
              /\ o.rests
              /\ a[id].side = side /\ a[id].price = price /\ a[id].qty <= qty
         /\ o.rests /\ Matched(o) = {} =>
              a[id] = [side |-> side, price |-> price, qty |-> qty]
<1> DEFINE left == Left(b, qty, o.filled)
<1>1. /\ o.dropped \subseteq Resting(b)
      /\ o.filled \subseteq Crossers(b, side, price)
      /\ o.cut \subseteq Crossers(b, side, price)
      /\ o.rests \in BOOLEAN
      /\ left \in 0 .. qty
      /\ \A i \in o.cut : left \in 1 .. b[i].qty - 1
      /\ o.rests => left > 0
  BY DEF Outcomes
<1>2. \A i \in Ids : b[i] # NULL =>
        /\ b[i] \in Order /\ b[i].side \in Side /\ b[i].price \in Prices
        /\ b[i].qty \in Nat \ {0}
  BY DEF Book, Order
<1>3. id \notin o.dropped \union o.filled \union o.cut
  BY <1>1 DEF Resting, Crossers
<1>4. Resting(b) \subseteq Ids /\ Crossers(b, side, price) \subseteq Resting(b)
  BY DEF Resting, Crossers
<1>5. \A i \in o.cut : /\ i \in Ids /\ b[i] # NULL
                       /\ b[i].qty - left \in Nat \ {0} /\ b[i].qty - left <= b[i].qty
  <2> SUFFICES ASSUME NEW i \in o.cut
               PROVE  /\ i \in Ids /\ b[i] # NULL
                      /\ b[i].qty - left \in Nat \ {0} /\ b[i].qty - left <= b[i].qty
    OBVIOUS
  <2>1. i \in Ids /\ b[i] # NULL
    BY <1>1, <1>4 DEF Resting
  <2>2. b[i].qty \in Nat
    BY <1>2, <2>1
  <2>3. left \in 1 .. b[i].qty - 1
    BY <1>1
  <2> HIDE DEF left
  <2> QED
    BY <2>1, <2>2, <2>3
<1>6. \A i \in Ids : a[i] =
        IF i \in o.dropped \union o.filled THEN NULL
        ELSE IF i \in o.cut THEN [b[i] EXCEPT !.qty = @ - left]
        ELSE IF i = id /\ o.rests THEN [side |-> side, price |-> price, qty |-> left]
        ELSE b[i]
  BY DEF AfterInsert
<1>7. left \in Nat
  BY <1>1
<1> HIDE DEF left
<1>8. \A i \in o.cut :
        /\ [b[i] EXCEPT !.qty = @ - left] \in Order
        /\ [b[i] EXCEPT !.qty = @ - left].side = b[i].side
        /\ [b[i] EXCEPT !.qty = @ - left].price = b[i].price
        /\ [b[i] EXCEPT !.qty = @ - left].qty = b[i].qty - left
  BY <1>2, <1>5 DEF Order
<1>9. o.rests => [side |-> side, price |-> price, qty |-> left] \in Order
  BY <1>1, <1>7 DEF Order
<1>10. \A i \in Ids : a[i] \in Order \union {NULL}
  BY <1>2, <1>6, <1>8, <1>9
<1>11. a \in Book
  <2>1. a = [i \in Ids |-> a[i]]
    BY DEF AfterInsert
  <2> QED
    BY <1>10, <2>1 DEF Book
<1>12. \A i \in Ids \ {id} : a[i] # NULL =>
              /\ b[i] # NULL /\ a[i].side = b[i].side /\ a[i].price = b[i].price
              /\ a[i].qty <= b[i].qty
  <2> SUFFICES ASSUME NEW i \in Ids \ {id}, a[i] # NULL
               PROVE  /\ b[i] # NULL /\ a[i].side = b[i].side /\ a[i].price = b[i].price
                      /\ a[i].qty <= b[i].qty
    OBVIOUS
  <2>1. CASE i \in o.cut
    <3>1. a[i] = [b[i] EXCEPT !.qty = @ - left]
      BY <1>6, <2>1
    <3> QED
      BY <1>5, <1>8, <2>1, <3>1
  <2>2. CASE i \notin o.cut
    <3>1. a[i] = b[i]
      BY <1>6, <2>2
    <3>2. b[i].qty \in Nat
      BY <1>2, <3>1
    <3> QED
      BY <3>1, <3>2
  <2> QED
    BY <2>1, <2>2
<1>13. a[id] # NULL =>
              /\ o.rests
              /\ a[id].side = side /\ a[id].price = price /\ a[id].qty <= qty
  <2> SUFFICES ASSUME a[id] # NULL
               PROVE  /\ o.rests
                      /\ a[id].side = side /\ a[id].price = price /\ a[id].qty <= qty
    OBVIOUS
  <2>1. o.rests /\ a[id] = [side |-> side, price |-> price, qty |-> left]
    BY <1>3, <1>6
  <2>2. left <= qty
    BY <1>1, <1>7
  <2> QED
    BY <2>1, <2>2
<1>14. ASSUME o.rests, Matched(o) = {}
       PROVE  a[id] = [side |-> side, price |-> price, qty |-> qty]
  <2>1. o.filled = {}
    BY <1>14 DEF Matched
  <2>2. left = qty
    BY <2>1, NothingFilled DEF left
  <2> QED
    BY <1>3, <1>6, <1>14, <2>2
<1> QED
  BY <1>1, <1>4, <1>6, <1>11, <1>12, <1>13, <1>14 DEF Matched
LEMMA ReduceEffect ==
  ASSUME NEW b \in Book, NEW id \in Ids, NEW qty \in Nat \ {0},
         NEW a, a = AfterReduce(b, id, qty)
  PROVE  /\ a \in Book
         /\ \A i \in Ids \ {id} : a[i] = b[i]
         /\ (b[id] = NULL \/ Removes(b, id, qty)) => a[id] = NULL
         /\ a[id] # NULL =>
              /\ b[id] # NULL /\ qty < b[id].qty
              /\ a[id].side = b[id].side /\ a[id].price = b[id].price
              /\ a[id].qty = b[id].qty - qty
              /\ a[id] = [side |-> b[id].side, price |-> b[id].price, qty |-> b[id].qty - qty]
<1>1. CASE b[id] = NULL \/ Removes(b, id, qty)
  BY <1>1 DEF AfterReduce, AfterCancel, Book
<1>2. CASE ~ (b[id] = NULL \/ Removes(b, id, qty))
  <2>1. b[id] \in Order /\ b[id].qty \in Nat
    BY <1>2 DEF Book, Order
  <2>2. qty < b[id].qty
    BY <1>2, <2>1 DEF Removes
  <2>3. b[id].qty - qty \in Nat \ {0}
    BY <2>1, <2>2
  <2>4. a = [b EXCEPT ![id].qty = @ - qty]
    BY <1>2 DEF AfterReduce
  <2> DEFINE e == [b[id] EXCEPT !.qty = @ - qty]
  <2>5. /\ e \in Order /\ e.side = b[id].side /\ e.price = b[id].price
        /\ e.qty = b[id].qty - qty
        /\ e = [side |-> b[id].side, price |-> b[id].price, qty |-> b[id].qty - qty]
    BY <2>1, <2>3 DEF Order
  <2>6. a = [b EXCEPT ![id] = e]
    BY <2>4
  <2> HIDE DEF e
  <2>7. a \in Book /\ a[id] = e /\ \A i \in Ids \ {id} : a[i] = b[i]
    BY <2>5, <2>6 DEF Book
  <2> QED
    BY <1>2, <2>2, <2>5, <2>7
<1> QED
  BY <1>1, <1>2

-----------------------------------------------------------------------------
(* The invariant across an insertion, a deletion and a report.             *)

LEMMA Unused ==
  ASSUME NEW bk, NEW op, NEW own, NEW fd, NEW st, NEW ls,
         Good(bk, op, own, fd, st, ls), NEW id \in Ids, st[id] = NULL
  PROVE  fd[id] = NULL /\ own[id] = NULL /\ \A l \in Locates : bk[l][id] = NULL
<1>1. fd[id] = NULL
  BY NullIsNoOrder DEF Good, FeedGood, Types, FeedOrder
<1>2. own[id] = NULL
  BY DEF Good, EntriesGood
<1> QED
  BY <1>1, <1>2 DEF Good, RestingGood, Backs

LEMMA NotResting ==
  ASSUME NEW bk, NEW op, NEW own, NEW fd, NEW st, NEW ls,
         Good(bk, op, own, fd, st, ls), NEW id \in Ids,
         own[id] = NULL \/ bk[own[id]][id] = NULL
  PROVE  \A l \in Locates : bk[l][id] = NULL
BY NullIsNoOrder DEF Good, RestingGood

LEMMA DeleteKeeps ==
  ASSUME NEW bk, NEW op, NEW own, NEW fd, NEW st, NEW ls,
         Good(bk, op, own, fd, st, ls), NEW id \in Ids, own[id] # NULL
  PROVE  Good([bk EXCEPT ![own[id]] = AfterCancel(@, id)], op,
              [own EXCEPT ![id] = NULL], [fd EXCEPT ![id] = NULL], st, ls)
<1> DEFINE l == own[id]
           bk2  == [bk EXCEPT ![l] = AfterCancel(@, id)]
           own2 == [own EXCEPT ![id] = NULL]
           fd2  == [fd EXCEPT ![id] = NULL]
<1>1. Types(bk, op, own, fd, st, ls) /\ l \in Locates
  BY DEF Good, Types
<1>2. /\ bk2 \in [Locates -> Book]
      /\ bk2[l][id] = NULL
      /\ \A m \in Locates, i \in Ids : m # l \/ i # id => bk2[m][i] = bk[m][i]
  <2>1. bk[l] \in Book
    BY <1>1 DEF Types
  <2>2. AfterCancel(bk[l], id) \in Book
    BY <2>1 DEF AfterCancel, Book
  <2>3. bk2 \in [Locates -> Book] /\ bk2[l] = AfterCancel(bk[l], id)
        /\ \A m \in Locates \ {l} : bk2[m] = bk[m]
    BY <1>1, <2>2 DEF Types
  <2>4. /\ AfterCancel(bk[l], id)[id] = NULL
        /\ \A i \in Ids \ {id} : AfterCancel(bk[l], id)[i] = bk[l][i]
    BY <2>1 DEF AfterCancel, Book
  <2> HIDE DEF bk2
  <2> QED
    BY <2>3, <2>4
<1>3. /\ own2 \in [Ids -> Locates \union {NULL}] /\ own2[id] = NULL
      /\ \A i \in Ids \ {id} : own2[i] = own[i]
  BY <1>1 DEF Types
<1>4. /\ fd2 \in [Ids -> FeedOrder \union {NULL}] /\ fd2[id] = NULL
      /\ \A i \in Ids \ {id} : fd2[i] = fd[i]
  BY <1>1 DEF Types
<1>5. \A m \in Locates : bk2[m][id] = NULL
  <2>1. \A m \in Locates : m # l => bk[m][id] = NULL
    BY DEF Good, RestingGood
  <2> QED
    BY <1>2, <2>1
<1> HIDE DEF bk2, own2, fd2, l
<1>6. \A m \in Locates, i \in Ids \ {id} : bk2[m][i] = bk[m][i]
  BY <1>2
<1>7. Types(bk2, op, own2, fd2, st, ls)
  BY <1>1, <1>2, <1>3, <1>4 DEF Types
<1>8. RestingGood(bk2, own2, fd2)
  BY <1>3, <1>4, <1>5, <1>6 DEF Good, RestingGood, Backs
<1>9. EntriesGood(op, own2, st) /\ FeedGood(fd2, st)
  BY <1>3, <1>4 DEF Good, EntriesGood, FeedGood
<1>10. ExactGood(bk2, fd2, ls)
  <2> SUFFICES ASSUME NEW i \in Ids, fd2[i] # NULL, Tracked(fd2[i].stock), i \notin ls
               PROVE  bk2[fd2[i].stock][i] = Shown(fd2[i])
    BY DEF ExactGood
  <2>1. i # id /\ fd2[i] = fd[i]
    BY <1>4
  <2>2. bk[fd[i].stock][i] = Shown(fd[i])
    BY <2>1 DEF Good, ExactGood
  <2>3. fd[i].stock \in Locates
    BY <1>1, <2>1 DEF Types, FeedOrder
  <2> QED
    BY <1>6, <2>1, <2>2, <2>3
<1>11. Good(bk2, op, own2, fd2, st, ls)
  BY <1>7, <1>8, <1>9, <1>10 DEF Good
<1> QED
  BY <1>11 DEF bk2, own2, fd2, l
(* An order the feed announces and no book takes: of a stock that is not   *)
(* tracked, or counted as lost.                                            *)
LEMMA AnnounceKeeps ==
  ASSUME NEW bk, NEW op, NEW own, NEW fd, NEW st, NEW ls,
         Good(bk, op, own, fd, st, ls), NEW id \in Ids, st[id] = NULL,
         NEW order \in FeedOrder, NEW ls2 \in SUBSET Ids, ls \subseteq ls2,
         Tracked(order.stock) => id \in ls2
  PROVE  Good(bk, op, own, [fd EXCEPT ![id] = order],
              [st EXCEPT ![id] = order.stock], ls2)
<1> DEFINE fd2 == [fd EXCEPT ![id] = order]
           st2 == [st EXCEPT ![id] = order.stock]
<1>1. Types(bk, op, own, fd, st, ls) /\ order.stock \in Locates /\ order # NULL
  BY NullIsNoOrder DEF Good, Types, FeedOrder
<1>2. /\ fd2 \in [Ids -> FeedOrder \union {NULL}] /\ fd2[id] = order
      /\ \A i \in Ids \ {id} : fd2[i] = fd[i]
  BY <1>1 DEF Types
<1>3. /\ st2 \in [Ids -> Locates \union {NULL}] /\ st2[id] = order.stock
      /\ \A i \in Ids \ {id} : st2[i] = st[i]
  BY <1>1 DEF Types
<1>4. own[id] = NULL /\ \A l \in Locates : bk[l][id] = NULL
  BY Unused
<1> HIDE DEF fd2, st2
<1>5. Types(bk, op, own, fd2, st2, ls2)
  BY <1>1, <1>2, <1>3 DEF Types
<1>6. RestingGood(bk, own, fd2)
  BY <1>2, <1>4 DEF Good, RestingGood, Backs
<1>7. EntriesGood(op, own, st2) /\ FeedGood(fd2, st2)
  BY <1>2, <1>3, <1>4 DEF Good, EntriesGood, FeedGood
<1>8. ExactGood(bk, fd2, ls2)
  BY <1>2 DEF Good, ExactGood
<1>9. Good(bk, op, own, fd2, st2, ls2)
  BY <1>5, <1>6, <1>7, <1>8 DEF Good
<1> QED
  BY <1>9 DEF fd2, st2

(* The entry that remains of an order the feed is done with.               *)
LEMMA ForgetKeeps ==
  ASSUME NEW bk, NEW op, NEW own, NEW fd, NEW st, NEW ls,
         Good(bk, op, own, fd, st, ls), NEW id \in Ids,
         \A l \in Locates : bk[l][id] = NULL
  PROVE  Good(bk, op, own, [fd EXCEPT ![id] = NULL], st, ls)
<1> DEFINE fd2 == [fd EXCEPT ![id] = NULL]
<1>1. Types(bk, op, own, fd, st, ls)
  BY DEF Good
<1>2. /\ fd2 \in [Ids -> FeedOrder \union {NULL}] /\ fd2[id] = NULL
      /\ \A i \in Ids \ {id} : fd2[i] = fd[i]
  BY <1>1 DEF Types
<1> HIDE DEF fd2
<1>3. Types(bk, op, own, fd2, st, ls)
  BY <1>1, <1>2 DEF Types
<1>4. RestingGood(bk, own, fd2) /\ FeedGood(fd2, st) /\ ExactGood(bk, fd2, ls)
  BY <1>2 DEF Good, RestingGood, Backs, FeedGood, ExactGood
<1>5. Good(bk, op, own, fd2, st, ls)
  BY <1>3, <1>4 DEF Good
<1> QED
  BY <1>5 DEF fd2

LEMMA InsertKeeps ==
  ASSUME NEW bk, NEW op, NEW own, NEW fd, NEW st, NEW ls,
         Good(bk, op, own, fd, st, ls), NEW id \in Ids, st[id] = NULL,
         NEW order \in FeedOrder, order.stock \in op, Tracked(order.stock),
         NEW o \in Outcomes(bk[order.stock], order.side, order.price, order.qty)
  PROVE  /\ Good([bk EXCEPT ![order.stock] =
                     AfterInsert(bk[order.stock], id, order.side, order.price,
                                 order.qty, o)],
                 op,
                 IF o.rests THEN [own EXCEPT ![id] = order.stock] ELSE own,
                 [fd EXCEPT ![id] = order],
                 [st EXCEPT ![id] = order.stock],
                 ls \union o.dropped \union Matched(o)
                    \union (IF o.rests /\ Matched(o) = {} THEN {} ELSE {id}))
         /\ Matched(o) \subseteq Crossers(bk[order.stock], order.side, order.price)
<1> DEFINE fd2 == [fd EXCEPT ![id] = order]
           st2 == [st EXCEPT ![id] = order.stock]
           l   == order.stock
           b   == bk[l]
           a   == AfterInsert(b, id, order.side, order.price, order.qty, o)
           bk2 == [bk EXCEPT ![l] = a]
           own2 == IF o.rests THEN [own EXCEPT ![id] = l] ELSE own
           ls2 == ls \union o.dropped \union Matched(o)
                     \union (IF o.rests /\ Matched(o) = {} THEN {} ELSE {id})
<1>1. /\ Types(bk, op, own, fd, st, ls)
      /\ l \in Locates /\ l # NULL /\ order # NULL /\ b \in Book
      /\ order.side \in Side /\ order.price \in Prices /\ order.qty \in Nat \ {0}
  BY NullIsNoOrder DEF Good, Types, FeedOrder
<1>2. /\ fd2 \in [Ids -> FeedOrder \union {NULL}] /\ fd2[id] = order
      /\ \A i \in Ids \ {id} : fd2[i] = fd[i]
  BY <1>1 DEF Types
<1>3. /\ st2 \in [Ids -> Locates \union {NULL}] /\ st2[id] = l
      /\ \A i \in Ids \ {id} : st2[i] = st[i]
  BY <1>1 DEF Types
<1>4. own[id] = NULL /\ \A m \in Locates : bk[m][id] = NULL
  BY Unused
<1>5. /\ a \in Book
      /\ Matched(o) \subseteq Crossers(b, order.side, order.price)
      /\ o.dropped \subseteq Ids
      /\ \A i \in Ids \ {id} : a[i] # NULL =>
           /\ b[i] # NULL /\ a[i].side = b[i].side /\ a[i].price = b[i].price
           /\ a[i].qty <= b[i].qty
      /\ \A i \in Ids \ {id} : i \notin o.dropped \union Matched(o) => a[i] = b[i]
      /\ a[id] # NULL =>
           /\ o.rests
           /\ a[id].side = order.side /\ a[id].price = order.price
           /\ a[id].qty <= order.qty
      /\ o.rests /\ Matched(o) = {} =>
           a[id] = [side |-> order.side, price |-> order.price, qty |-> order.qty]
  <2>1. b[id] = NULL
    BY <1>1, <1>4
  <2>2. o \in Outcomes(b, order.side, order.price, order.qty)
    OBVIOUS
  <2> HIDE DEF b, a
  <2>3. a = AfterInsert(b, id, order.side, order.price, order.qty, o)
    BY DEF a
  <2> QED
    BY <1>1, <2>1, <2>2, <2>3, InsertEffect
<1>6. bk2 \in [Locates -> Book] /\ bk2[l] = a /\ \A m \in Locates \ {l} : bk2[m] = bk[m]
  BY <1>1, <1>5 DEF Types
<1>7. /\ own2 \in [Ids -> Locates \union {NULL}]
      /\ \A i \in Ids \ {id} : own2[i] = own[i]
      /\ own2[id] = IF o.rests THEN l ELSE NULL
  BY <1>1, <1>4 DEF Types
<1>8. Matched(o) \subseteq Ids
  BY <1>5 DEF Crossers, Resting
<1>9. /\ ls2 \subseteq Ids /\ ls \subseteq ls2 /\ o.dropped \union Matched(o) \subseteq ls2
      /\ id \notin ls2 => o.rests /\ Matched(o) = {}
  <2>1. ls \subseteq Ids
    BY <1>1 DEF Types
  <2> QED
    BY <1>5, <1>8, <2>1
<1> HIDE DEF fd2, st2, l, b, a, bk2, own2, ls2
<1>10. Types(bk2, op, own2, fd2, st2, ls2)
  <2>1. op \subseteq Locates
    BY <1>1 DEF Types
  <2>2. ls2 \subseteq Ids
    BY <1>9
  <2> QED
    BY ONLY <1>2, <1>3, <1>6, <1>7, <2>1, <2>2 DEF Types
<1>11. RestingGood(bk2, own2, fd2)
  <2> SUFFICES ASSUME NEW m \in Locates, NEW i \in Ids, bk2[m][i] # NULL
               PROVE  Backs(fd2, i, m, bk2[m][i]) /\ own2[i] = m
    BY DEF RestingGood
  <2>1. CASE i = id
    <3>1. m = l
      BY <1>4, <1>6, <2>1
    <3>2. o.rests /\ a[id].side = order.side /\ a[id].price = order.price
          /\ a[id].qty <= order.qty
      BY <1>5, <1>6, <2>1, <3>1
    <3> QED
      BY <1>1, <1>2, <1>6, <1>7, <2>1, <3>1, <3>2 DEF Backs, l
  <2>2. CASE i # id /\ m # l
    BY <1>2, <1>6, <1>7, <2>2 DEF Good, RestingGood, Backs
  <2>3. CASE i # id /\ m = l
    <3>1. /\ b[i] # NULL /\ a[i].side = b[i].side /\ a[i].price = b[i].price
          /\ a[i].qty <= b[i].qty /\ bk2[m][i] = a[i]
      BY <1>5, <1>6, <2>3
    <3>2. Backs(fd, i, l, b[i]) /\ own[i] = l
      BY <1>1, <2>3, <3>1 DEF Good, RestingGood, b
    <3>3. a[i].qty \in Nat /\ b[i].qty \in Nat /\ fd[i].qty \in Nat
      <4>1. a[i] \in Order /\ b[i] \in Order
        BY <1>1, <1>5, <1>6, <2>3, <3>1 DEF Book
      <4>2. fd[i] \in FeedOrder
        BY <1>1, <3>2 DEF Backs, Types
      <4> QED
        BY <4>1, <4>2 DEF Order, FeedOrder
    <3>4. a[i].qty <= fd[i].qty
      BY <3>1, <3>2, <3>3 DEF Backs
    <3> QED
      BY <1>2, <1>7, <2>3, <3>1, <3>2, <3>4 DEF Backs
  <2> QED
    BY <2>1, <2>2, <2>3
<1>12. EntriesGood(op, own2, st2)
  <2>1. own2[id] # NULL => own2[id] \in op /\ Tracked(own2[id]) /\ st2[id] = own2[id]
    BY <1>3, <1>7 DEF l
  <2> QED
    BY <1>3, <1>7, <2>1 DEF Good, EntriesGood
<1>13. FeedGood(fd2, st2)
  BY <1>2, <1>3 DEF Good, FeedGood, l
<1>14. ExactGood(bk2, fd2, ls2)
  <2> SUFFICES ASSUME NEW i \in Ids, fd2[i] # NULL, Tracked(fd2[i].stock), i \notin ls2
               PROVE  bk2[fd2[i].stock][i] = Shown(fd2[i])
    BY DEF ExactGood
  <2>1. CASE i = id
    BY <1>2, <1>5, <1>6, <1>9, <2>1 DEF Shown, l
  <2>2. CASE i # id
    <3>1. fd2[i] = fd[i] /\ fd[i] \in FeedOrder /\ fd[i].stock \in Locates
      BY <1>1, <1>2, <2>2 DEF Types, FeedOrder
    <3>2. bk[fd[i].stock][i] = Shown(fd[i])
      BY <1>9, <3>1 DEF Good, ExactGood
    <3>3. bk2[fd[i].stock][i] = bk[fd[i].stock][i]
      BY <1>5, <1>6, <1>9, <2>2, <3>1 DEF b
    <3> QED
      BY <3>1, <3>2, <3>3
  <2> QED
    BY <2>1, <2>2
<1>15. Good(bk2, op, own2, fd2, st2, ls2)
  BY <1>10, <1>11, <1>12, <1>13, <1>14 DEF Good
<1> QED
  BY <1>5, <1>15 DEF fd2, st2, l, b, a, bk2, own2, ls2
(* An execution or a partial cancellation of qty.                          *)
LEMMA ReportKeeps ==
  ASSUME NEW bk, NEW op, NEW own, NEW fd, NEW st, NEW ls,
         Good(bk, op, own, fd, st, ls), NEW id \in Ids, fd[id] # NULL,
         NEW qty \in Nat \ {0}, qty <= fd[id].qty,
         NEW bk2, NEW own2,
         \/ own[id] = NULL /\ bk2 = bk /\ own2 = own
         \/ /\ own[id] # NULL
            /\ bk2 = [bk EXCEPT ![own[id]] = AfterReduce(bk[own[id]], id, qty)]
            /\ own2 = IF Removes(bk[own[id]], id, qty)
                      THEN [own EXCEPT ![id] = NULL] ELSE own
  PROVE  Good(bk2, op, own2, [fd EXCEPT ![id] = Shrunk(fd[id], qty)], st, ls)
<1> DEFINE s == Shrunk(fd[id], qty)
           fd2 == [fd EXCEPT ![id] = s]
           l == own[id]
           b == bk[l]
           a == AfterReduce(b, id, qty)
<1>1. /\ Types(bk, op, own, fd, st, ls) /\ fd[id] \in FeedOrder
      /\ fd[id].qty \in Nat \ {0} /\ fd[id].stock \in Locates
  BY DEF Good, Types, FeedOrder
<1>2. /\ s = NULL <=> qty = fd[id].qty
      /\ s # NULL => /\ s \in FeedOrder
                     /\ s.stock = fd[id].stock /\ s.side = fd[id].side
                     /\ s.price = fd[id].price /\ s.qty = fd[id].qty - qty
  <2>1. CASE qty = fd[id].qty
    BY <2>1 DEF Shrunk
  <2>2. CASE qty # fd[id].qty
    <3>1. fd[id].qty - qty \in Nat \ {0}
      BY <1>1, <2>2
    <3>2. s = [fd[id] EXCEPT !.qty = @ - qty]
      BY <2>2 DEF Shrunk
    <3>3. [fd[id] EXCEPT !.qty = @ - qty] \in FeedOrder
      BY <1>1, <3>1 DEF FeedOrder
    <3>4. s # NULL
      BY <3>2, <3>3, NullIsNoOrder
    <3> QED
      BY <1>1, <2>2, <3>2, <3>3, <3>4 DEF FeedOrder
  <2> QED
    BY <2>1, <2>2
<1> HIDE DEF s
<1>3. /\ fd2 \in [Ids -> FeedOrder \union {NULL}] /\ fd2[id] = s
      /\ \A i \in Ids \ {id} : fd2[i] = fd[i]
  BY <1>1, <1>2 DEF Types
<1>4. /\ bk2 \in [Locates -> Book]
      /\ own2 \in [Ids -> Locates \union {NULL}]
      /\ own2[id] \in {own[id], NULL}
      /\ \A i \in Ids \ {id} : own2[i] = own[i] /\ \A m \in Locates : bk2[m][i] = bk[m][i]
      /\ \A m \in Locates : bk2[m][id] # NULL =>
           /\ m = l /\ bk[m][id] # NULL /\ own2[id] = own[id]
           /\ qty < bk[m][id].qty
           /\ bk2[m][id] = [side |-> bk[m][id].side, price |-> bk[m][id].price,
                            qty |-> bk[m][id].qty - qty]
      /\ \A m \in Locates : bk[m][id] # NULL /\ qty < bk[m][id].qty => bk2[m][id] # NULL
  <2>1. CASE own[id] = NULL
    <3>1. \A m \in Locates : bk[m][id] = NULL
      BY <2>1, NotResting
    <3> QED
      BY <1>1, <2>1, <3>1 DEF Types
  <2>2. CASE own[id] # NULL
    <3>1. l \in Locates /\ b \in Book /\ \A m \in Locates \ {l} : bk[m][id] = NULL
      BY <1>1, <2>2 DEF Types, Good, RestingGood
    <3>2. /\ a \in Book
          /\ \A i \in Ids \ {id} : a[i] = b[i]
          /\ (b[id] = NULL \/ Removes(b, id, qty)) => a[id] = NULL
          /\ a[id] # NULL =>
               /\ b[id] # NULL /\ qty < b[id].qty
               /\ a[id] = [side |-> b[id].side, price |-> b[id].price,
                           qty |-> b[id].qty - qty]
      <4> HIDE DEF b, a
      <4>1. a = AfterReduce(b, id, qty)
        BY DEF a
      <4> QED
        BY <3>1, <4>1, ReduceEffect
    <3>3. bk2 \in [Locates -> Book] /\ bk2[l] = a /\ \A m \in Locates \ {l} : bk2[m] = bk[m]
      BY <1>1, <2>2, <3>1, <3>2 DEF Types
    <3>4. own2 = IF Removes(b, id, qty) THEN [own EXCEPT ![id] = NULL] ELSE own
      BY <2>2
    <3>5. b[id] # NULL /\ qty < b[id].qty => a[id] # NULL
      <4> SUFFICES ASSUME b[id] # NULL, qty < b[id].qty PROVE a[id] # NULL
        OBVIOUS
      <4>1. b[id] \in Order /\ b[id].qty \in Nat
        BY <3>1 DEF Book, Order
      <4>2. ~ Removes(b, id, qty)
        BY <4>1 DEF Removes
      <4>3. a[id] = [b[id] EXCEPT !.qty = @ - qty]
        BY <3>1, <4>2 DEF AfterReduce, Book
      <4>4. b[id].qty - qty \in Nat \ {0}
        BY <4>1
      <4>5. a[id] \in Order
        BY <4>1, <4>3, <4>4 DEF Order
      <4> QED
        BY <4>5, NullIsNoOrder
    <3> HIDE DEF l, b, a
    <3>6. /\ own2 \in [Ids -> Locates \union {NULL}]
          /\ own2[id] \in {own[id], NULL} /\ \A i \in Ids \ {id} : own2[i] = own[i]
          /\ ~ Removes(b, id, qty) => own2[id] = own[id]
      BY <1>1, <3>4 DEF Types
    <3>7. \A m \in Locates : m # l => bk2[m][id] = NULL
      BY <3>1, <3>3
    <3> QED
      BY <3>1, <3>2, <3>3, <3>5, <3>6, <3>7 DEF b
  <2> QED
    BY <2>1, <2>2
<1> HIDE DEF fd2, l, b, a
<1>5. Types(bk2, op, own2, fd2, st, ls)
  BY <1>1, <1>3, <1>4 DEF Types
<1>6. RestingGood(bk2, own2, fd2)
  <2> SUFFICES ASSUME NEW m \in Locates, NEW i \in Ids, bk2[m][i] # NULL
               PROVE  Backs(fd2, i, m, bk2[m][i]) /\ own2[i] = m
    BY DEF RestingGood
  <2>1. CASE i # id
    BY <1>3, <1>4, <2>1 DEF Good, RestingGood, Backs
  <2>2. CASE i = id
    <3>1. /\ bk[m][id] # NULL /\ own2[id] = own[id] /\ qty < bk[m][id].qty
          /\ bk2[m][id] = [side |-> bk[m][id].side, price |-> bk[m][id].price,
                           qty |-> bk[m][id].qty - qty]
      BY <1>4, <2>2
    <3>2. Backs(fd, id, m, bk[m][id]) /\ own[id] = m
      BY <3>1 DEF Good, RestingGood
    <3>3. bk[m][id].qty \in Nat
      BY <1>1, <3>1 DEF Types, Book, Order
    <3>4. s # NULL /\ bk[m][id].qty - qty <= fd[id].qty - qty
      BY <1>1, <1>2, <3>1, <3>2, <3>3 DEF Backs
    <3> QED
      BY <1>2, <1>3, <2>2, <3>1, <3>2, <3>4 DEF Backs
  <2> QED
    BY <2>1, <2>2
<1>7. EntriesGood(op, own2, st) /\ FeedGood(fd2, st)
  BY <1>2, <1>3, <1>4 DEF Good, EntriesGood, FeedGood
<1>8. ExactGood(bk2, fd2, ls)
  <2> SUFFICES ASSUME NEW i \in Ids, fd2[i] # NULL, Tracked(fd2[i].stock), i \notin ls
               PROVE  bk2[fd2[i].stock][i] = Shown(fd2[i])
    BY DEF ExactGood
  <2>1. CASE i # id
    <3>1. fd2[i] = fd[i] /\ fd[i].stock \in Locates
      BY <1>1, <1>3, <2>1 DEF Types, FeedOrder
    <3> QED
      BY <1>4, <2>1, <3>1 DEF Good, ExactGood
  <2>2. CASE i = id
    <3> DEFINE m == fd[id].stock
    <3>1. fd2[id] = s /\ s # NULL /\ s.stock = m /\ qty # fd[id].qty
      BY <1>2, <1>3, <2>2
    <3>2. bk[m][id] = Shown(fd[id])
      BY <2>2, <3>1 DEF Good, ExactGood
    <3>3. bk[m][id].qty = fd[id].qty /\ qty < bk[m][id].qty
      BY <1>1, <3>1, <3>2 DEF Shown
    <3>4. bk[m][id] # NULL
      <4>1. Shown(fd[id]) \in Order
        BY <1>1 DEF Shown, FeedOrder, Order
      <4> QED
        BY <3>2, <4>1, NullIsNoOrder
    <3>5. bk2[m][id] = [side |-> bk[m][id].side, price |-> bk[m][id].price,
                        qty |-> bk[m][id].qty - qty]
      BY <1>1, <1>4, <3>3, <3>4
    <3> QED
      BY <1>2, <2>2, <3>1, <3>2, <3>5 DEF Shown
  <2> QED
    BY <2>1, <2>2
<1>9. Good(bk2, op, own2, fd2, st, ls)
  BY <1>5, <1>6, <1>7, <1>8 DEF Good
<1> QED
  BY <1>9 DEF fd2, s
-----------------------------------------------------------------------------
LEMMA MoreBooks ==
  ASSUME NEW bk, NEW op, NEW own, NEW fd, NEW st, NEW ls,
         Good(bk, op, own, fd, st, ls), NEW op2 \in SUBSET Locates, op \subseteq op2
  PROVE  Good(bk, op2, own, fd, st, ls)
BY DEF Good, Types, EntriesGood

LEMMA InitHolds == Init => IInv
<1> SUFFICES ASSUME Init PROVE IInv
  OBVIOUS
<1>1. /\ book \in [Locates -> Book]
      /\ \A l \in Locates, i \in Ids : book[l][i] = NULL
      /\ ref_owner \in [Ids -> Locates \union {NULL}] /\ \A i \in Ids : ref_owner[i] = NULL
      /\ feed \in [Ids -> FeedOrder \union {NULL}] /\ \A i \in Ids : feed[i] = NULL
      /\ stock_of \in [Ids -> Locates \union {NULL}]
  BY DEF Init, Book
<1>2. opened \subseteq Locates /\ lost \subseteq Ids /\ matched \subseteq Ids
  BY DEF Init
<1>3. Types(book, opened, ref_owner, feed, stock_of, lost)
  BY <1>1, <1>2 DEF Types
<1>4. /\ RestingGood(book, ref_owner, feed) /\ EntriesGood(opened, ref_owner, stock_of)
      /\ FeedGood(feed, stock_of) /\ ExactGood(book, feed, lost)
  BY <1>1 DEF RestingGood, EntriesGood, FeedGood, ExactGood
<1> QED
  BY <1>2, <1>3, <1>4 DEF IInv, Good

(* Insert on a state of the invariant, given as its explicit values.       *)
LEMMA InsertAction ==
  ASSUME NEW bk, NEW op, NEW own, NEW fd,
         Good(bk, op, own, fd, stock_of, lost), NEW id \in Ids,
         NEW order \in FeedOrder, order.stock \in op, Tracked(order.stock),
         Announce(id, order),
         NEW o \in Outcomes(bk[order.stock], order.side, order.price, order.qty),
         book' = [bk EXCEPT ![order.stock] =
                    AfterInsert(bk[order.stock], id, order.side, order.price, order.qty, o)],
         ref_owner' = IF o.rests THEN [own EXCEPT ![id] = order.stock] ELSE own,
         matched' = Matched(o),
         lost' = lost \union o.dropped \union Matched(o)
                      \union (IF o.rests /\ Matched(o) = {} THEN {} ELSE {id}),
         feed' = [fd EXCEPT ![id] = order],
         opened' = op
  PROVE  IInv'
<1>1. stock_of[id] = NULL /\ stock_of' = [stock_of EXCEPT ![id] = order.stock]
  BY DEF Announce
<1>2. /\ Good([bk EXCEPT ![order.stock] =
                  AfterInsert(bk[order.stock], id, order.side, order.price, order.qty, o)],
              op,
              IF o.rests THEN [own EXCEPT ![id] = order.stock] ELSE own,
              [fd EXCEPT ![id] = order],
              [stock_of EXCEPT ![id] = order.stock],
              lost \union o.dropped \union Matched(o)
                   \union (IF o.rests /\ Matched(o) = {} THEN {} ELSE {id}))
      /\ Matched(o) \subseteq Crossers(bk[order.stock], order.side, order.price)
  BY <1>1, InsertKeeps
<1>3. Good(book', opened', ref_owner', feed', stock_of', lost')
  BY <1>1, <1>2
<1>4. matched' \subseteq Ids
  BY <1>2 DEF Crossers, Resting
<1> QED
  BY <1>3, <1>4 DEF IInv

LEMMA AddOrderHolds ==
  ASSUME IInv, NEW id \in Ids, NEW order \in FeedOrder, AddOrder(id, order)
  PROVE  IInv'
<1>1. Good(book, opened, ref_owner, feed, stock_of, lost)
  BY DEF IInv
<1>2. CASE Tracked(order.stock)
  <2> DEFINE op == opened \union {order.stock}
  <2>1. opened' = op /\ Insert(order.stock, book[order.stock], ref_owner, id, order)
    BY <1>2 DEF AddOrder
  <2>2. op \subseteq Locates /\ order.stock \in op
    BY <1>1 DEF Good, Types, FeedOrder
  <2>3. Good(book, op, ref_owner, feed, stock_of, lost)
    BY <1>1, <2>2, MoreBooks
  <2>4. Announce(id, order) /\ feed' = [feed EXCEPT ![id] = order]
    BY DEF AddOrder
  <2> HIDE DEF op
  <2> QED
    BY <1>2, <2>1, <2>2, <2>3, <2>4, InsertAction DEF Insert
<1>3. CASE ~ Tracked(order.stock)
  <2>1. /\ matched' = {} /\ UNCHANGED <<book, ref_owner, opened, lost>>
        /\ feed' = [feed EXCEPT ![id] = order]
        /\ stock_of[id] = NULL /\ stock_of' = [stock_of EXCEPT ![id] = order.stock]
    BY <1>3 DEF AddOrder, Untouched, Announce
  <2>2. lost \in SUBSET Ids
    BY <1>1 DEF Good, Types
  <2>3. Good(book, opened, ref_owner, [feed EXCEPT ![id] = order],
             [stock_of EXCEPT ![id] = order.stock], lost)
    BY <1>1, <1>3, <2>1, <2>2, AnnounceKeeps
  <2> QED
    BY <2>1, <2>3 DEF IInv
<1> QED
  BY <1>2, <1>3

LEMMA ReportHolds ==
  ASSUME IInv, NEW id \in Ids, NEW qty \in Quantities, Report(id, qty)
  PROVE  IInv'
<1>1. Good(book, opened, ref_owner, feed, stock_of, lost) /\ qty \in Nat \ {0}
  BY ReplayAssumption DEF IInv
<1>2. /\ feed[id] # NULL /\ qty <= feed[id].qty
      /\ feed' = [feed EXCEPT ![id] = Shrunk(feed[id], qty)]
      /\ UNCHANGED <<opened, stock_of, lost>> /\ matched' = {}
      /\ \/ ref_owner[id] = NULL /\ book' = book /\ ref_owner' = ref_owner
         \/ /\ ref_owner[id] # NULL
            /\ book' = [book EXCEPT ![ref_owner[id]] =
                          AfterReduce(book[ref_owner[id]], id, qty)]
            /\ ref_owner' = IF Removes(book[ref_owner[id]], id, qty)
                            THEN [ref_owner EXCEPT ![id] = NULL] ELSE ref_owner
  BY DEF Report, Untouched, Reduce
<1>3. Good(book', opened, ref_owner', [feed EXCEPT ![id] = Shrunk(feed[id], qty)],
           stock_of, lost)
  BY <1>1, <1>2, ReportKeeps
<1> QED
  BY <1>2, <1>3 DEF IInv

LEMMA OrderDeleteHolds ==
  ASSUME IInv, NEW id \in Ids, OrderDelete(id)
  PROVE  IInv'
<1>1. Good(book, opened, ref_owner, feed, stock_of, lost)
  BY DEF IInv
<1>2. matched' = {} /\ UNCHANGED <<opened, stock_of, lost>>
      /\ feed' = [feed EXCEPT ![id] = NULL]
  BY DEF OrderDelete, Untouched
<1>3. CASE ref_owner[id] = NULL
  <2>1. UNCHANGED <<book, ref_owner>>
    BY <1>3 DEF OrderDelete, Untouched
  <2>2. \A l \in Locates : book[l][id] = NULL
    BY <1>1, <1>3, NotResting
  <2>3. Good(book, opened, ref_owner, [feed EXCEPT ![id] = NULL], stock_of, lost)
    BY <1>1, <2>2, ForgetKeeps
  <2> QED
    BY <1>2, <2>1, <2>3 DEF IInv
<1>4. CASE ref_owner[id] # NULL
  <2>1. /\ book' = [book EXCEPT ![ref_owner[id]] = AfterCancel(@, id)]
        /\ ref_owner' = [ref_owner EXCEPT ![id] = NULL]
    BY <1>4 DEF OrderDelete
  <2>2. Good([book EXCEPT ![ref_owner[id]] = AfterCancel(@, id)], opened,
             [ref_owner EXCEPT ![id] = NULL], [feed EXCEPT ![id] = NULL], stock_of, lost)
    BY <1>1, <1>4, DeleteKeeps
  <2> QED
    BY <1>2, <2>1, <2>2 DEF IInv
<1> QED
  BY <1>3, <1>4
LEMMA OrderReplaceHolds ==
  ASSUME IInv, NEW old \in Ids, NEW id \in Ids, NEW price \in Prices,
         NEW qty \in Quantities, OrderReplace(old, id, price, qty)
  PROVE  IInv'
<1> DEFINE order == [feed[old] EXCEPT !.price = price, !.qty = qty]
           l == ref_owner[old]
<1>1. /\ Good(book, opened, ref_owner, feed, stock_of, lost) /\ feed[old] # NULL
      /\ feed[old] \in FeedOrder /\ lost \in SUBSET Ids
  BY DEF OrderReplace, IInv, Good, Types
<1>2. order \in FeedOrder /\ order.stock = feed[old].stock
  <2>1. qty \in Nat \ {0}
    BY ReplayAssumption
  <2> QED
    BY <1>1, <2>1 DEF FeedOrder
<1>3. /\ Announce(id, order) /\ opened' = opened
      /\ feed' = [feed EXCEPT ![old] = NULL, ![id] = order]
  BY DEF OrderReplace
<1>4. stock_of[id] = NULL /\ stock_of' = [stock_of EXCEPT ![id] = order.stock]
  BY <1>3 DEF Announce
<1>5. CASE l # NULL /\ book[l][old] # NULL
  <2> DEFINE resting == book[l][old]
             taken   == [order EXCEPT !.side = resting.side]
             bk      == [book EXCEPT ![l] = AfterCancel(@, old)]
             own     == [ref_owner EXCEPT ![old] = NULL]
             fd      == [feed EXCEPT ![old] = NULL]
  <2>1. Insert(l, AfterCancel(book[l], old), own, id, taken)
    BY <1>5 DEF OrderReplace
  <2>2. /\ l \in Locates /\ l \in opened /\ Tracked(l)
        /\ order.stock = l /\ resting.side = feed[old].side
    BY <1>1, <1>2, <1>5 DEF Good, Types, RestingGood, EntriesGood, Backs
  <2>3. taken = order
    BY <1>1, <2>2 DEF FeedOrder
  <2>4. Good(bk, opened, own, fd, stock_of, lost)
    BY <1>1, <1>5, DeleteKeeps
  <2>5. bk[l] = AfterCancel(book[l], old)
    BY <1>1, <2>2 DEF Good, Types
  <2>6. \A x : [bk EXCEPT ![l] = x] = [book EXCEPT ![l] = x]
    BY <1>1, <2>2 DEF Good, Types
  <2>7. feed' = [fd EXCEPT ![id] = order]
    BY <1>3
  <2> HIDE DEF taken, resting, bk, own, fd, order, l
  <2> DEFINE k == order.stock
  <2>8. l = k
    BY <2>2
  <2> HIDE DEF k
  <2>9. PICK o \in Outcomes(AfterCancel(book[l], old), taken.side, taken.price, taken.qty) :
          /\ book' = [book EXCEPT ![l] = AfterInsert(AfterCancel(book[l], old), id,
                                     taken.side, taken.price, taken.qty, o)]
          /\ ref_owner' = IF o.rests THEN [own EXCEPT ![id] = l] ELSE own
          /\ matched' = Matched(o)
          /\ lost' = lost \union o.dropped \union Matched(o)
                          \union (IF o.rests /\ Matched(o) = {} THEN {} ELSE {id})
    BY <2>1 DEF Insert
  <2>10. book' = [bk EXCEPT ![k] =
                    AfterInsert(bk[k], id, order.side, order.price, order.qty, o)]
    BY <2>3, <2>5, <2>6, <2>8, <2>9
  <2>11. /\ o \in Outcomes(bk[k], order.side, order.price, order.qty)
         /\ ref_owner' = IF o.rests THEN [own EXCEPT ![id] = k] ELSE own
    BY <2>3, <2>5, <2>8, <2>9
  <2>12. k \in opened /\ Tracked(k)
    BY <2>2, <2>8
  <2>13. /\ Good([bk EXCEPT ![k] =
                     AfterInsert(bk[k], id, order.side, order.price, order.qty, o)],
                 opened,
                 IF o.rests THEN [own EXCEPT ![id] = k] ELSE own,
                 [fd EXCEPT ![id] = order],
                 [stock_of EXCEPT ![id] = k],
                 lost \union o.dropped \union Matched(o)
                      \union (IF o.rests /\ Matched(o) = {} THEN {} ELSE {id}))
         /\ Matched(o) \subseteq Crossers(bk[k], order.side, order.price)
    BY <1>2, <1>4, <2>4, <2>11, <2>12, InsertKeeps DEF k
  <2>14. stock_of' = [stock_of EXCEPT ![id] = k]
    BY <1>4 DEF k
  <2>15. Good(book', opened', ref_owner', feed', stock_of', lost')
    BY <1>3, <2>7, <2>9, <2>10, <2>11, <2>13, <2>14
  <2>16. matched' \subseteq Ids
    BY <2>9, <2>13 DEF Crossers, Resting
  <2> QED
    BY <2>15, <2>16 DEF IInv
<1>6. CASE ~ (l # NULL /\ book[l][old] # NULL)
  <2> DEFINE fd == [feed EXCEPT ![old] = NULL]
  <2>1. /\ matched' = {} /\ UNCHANGED <<book, ref_owner>>
        /\ lost' = IF l = NULL /\ ~ Tracked(order.stock) THEN lost ELSE lost \union {id}
    BY <1>6 DEF OrderReplace, Untouched
  <2>2. Good(book, opened, ref_owner, fd, stock_of, lost)
    BY <1>1, <1>6, NotResting, ForgetKeeps
  <2>3. feed' = [fd EXCEPT ![id] = order]
    BY <1>3
  <2> HIDE DEF fd, order, l
  <2>4. lost' \in SUBSET Ids /\ lost \subseteq lost' /\ (Tracked(order.stock) => id \in lost')
    BY <1>1, <2>1
  <2> DEFINE ls == IF l = NULL /\ ~ Tracked(order.stock) THEN lost ELSE lost \union {id}
  <2>5. /\ lost' = ls /\ ls \in SUBSET Ids /\ lost \subseteq ls
        /\ (Tracked(order.stock) => id \in ls)
    BY <1>1, <2>1
  <2> HIDE DEF ls
  <2>6. Good(book, opened, ref_owner, [fd EXCEPT ![id] = order],
             [stock_of EXCEPT ![id] = order.stock], ls)
    BY <1>2, <1>4, <2>2, <2>5, AnnounceKeeps
  <2> QED
    BY <1>3, <1>4, <2>1, <2>3, <2>5, <2>6 DEF IInv
<1> QED
  BY <1>5, <1>6

LEMMA StepHolds == IInv /\ [Next]_vars => IInv'
<1> SUFFICES ASSUME IInv, [Next]_vars PROVE IInv'
  OBVIOUS
<1>1. ASSUME NEW id \in Ids, NEW l \in Locates, NEW s \in Side, NEW p \in Prices,
             NEW q \in Quantities,
             AddOrder(id, [stock |-> l, side |-> s, price |-> p, qty |-> q])
      PROVE  IInv'
  <2>1. [stock |-> l, side |-> s, price |-> p, qty |-> q] \in FeedOrder
    BY ReplayAssumption DEF FeedOrder
  <2> QED
    BY <1>1, <2>1, AddOrderHolds
<1>2. ASSUME NEW id \in Ids, NEW qty \in Quantities,
             OrderExecuted(id, qty) \/ OrderCancel(id, qty)
      PROVE  IInv'
  BY <1>2, ReportHolds DEF OrderExecuted, OrderCancel
<1>3. CASE UNCHANGED vars
  BY <1>3 DEF vars, IInv
<1> QED
  BY <1>1, <1>2, <1>3, OrderDeleteHolds, OrderReplaceHolds DEF Next

LEMMA Inductive == Spec => []IInv
BY InitHolds, StepHolds, PTL DEF Spec

-----------------------------------------------------------------------------
(* The replay keeps its state well-formed.                                 *)
THEOREM TypeCorrect == Spec => []TypeOK
<1>1. IInv => TypeOK
  BY DEF IInv, Good, Types, Book, TypeOK
<1> QED
  BY <1>1, Inductive, PTL

(* Whatever a book matches or drops on its own, what it still shows is an  *)
(* order of the exchange with at least that quantity.                      *)
THEOREM NoGhostOrders == Spec => []NoGhosts
<1>1. IInv => NoGhosts
  BY DEF IInv, Good, RestingGood, Backs, NoGhosts
<1> QED
  BY <1>1, Inductive, PTL

(* An order that rests is reached by every later message about it, in the  *)
(* book it rests in.                                                       *)
THEOREM RestingOrdersAreRouted == Spec => []RestingIsRouted
<1>1. IInv => RestingIsRouted
  BY DEF IInv, Good, RestingGood, RestingIsRouted
<1> QED
  BY <1>1, Inductive, PTL

(* No entry of ref_owner, current or stale, leads to another stock.        *)
THEOREM NoEntryLeadsAstray == Spec => []EntriesLeadHome
<1>1. IInv => EntriesLeadHome
  BY DEF IInv, Good, EntriesGood, EntriesLeadHome, Tracked, is_tracked
<1> QED
  BY <1>1, Inductive, PTL

(* An order no book lost shows exactly what the exchange has of it.        *)
THEOREM ReplayIsExact == Spec => []ExactUnlessLost
<1>1. IInv => ExactUnlessLost
  BY DEF IInv, Good, ExactGood, Shown, ExactUnlessLost
<1> QED
  BY <1>1, Inductive, PTL

-----------------------------------------------------------------------------
(* What a step may not do.                                                 *)

(* The two ids of a replacement differ.                                    *)
LEMMA ReplacedIsAnother ==
  ASSUME IInv, NEW old \in Ids, NEW id \in Ids, feed[old] # NULL, stock_of[id] = NULL
  PROVE  old # id
<1>1. feed[id] = NULL
  BY Unused DEF IInv
<1> QED
  BY <1>1

LEMMA OtherStocksUntouched ==
  ASSUME IInv, Next, NEW l \in Locates, book'[l] # book[l]
  PROVE  \E id \in Ids : feed'[id] # feed[id] /\ stock_of'[id] = l
<1>1. /\ Good(book, opened, ref_owner, feed, stock_of, lost)
      /\ Types(book, opened, ref_owner, feed, stock_of, lost)
  BY DEF IInv, Good
<1>2. \A id \in Ids : ref_owner[id] # NULL => stock_of[id] = ref_owner[id]
  BY <1>1 DEF Good, EntriesGood
<1>3. ASSUME NEW id \in Ids, NEW order \in FeedOrder, AddOrder(id, order)
      PROVE  feed'[id] # feed[id] /\ stock_of'[id] = l
  <2>1. /\ stock_of[id] = NULL /\ stock_of' = [stock_of EXCEPT ![id] = order.stock]
        /\ feed' = [feed EXCEPT ![id] = order]
    BY <1>3 DEF AddOrder, Announce
  <2>2. feed[id] = NULL /\ order # NULL
    BY <1>1, <2>1, Unused, NullIsNoOrder
  <2>3. \E b : book' = [book EXCEPT ![order.stock] = b] \/ book' = book
    BY <1>3 DEF AddOrder, Insert, Untouched
  <2>4. l = order.stock
    BY <1>1, <2>3 DEF Types
  <2> QED
    BY <1>1, <2>1, <2>2, <2>4 DEF Types
<1>4. ASSUME NEW id \in Ids, NEW qty \in Quantities, Report(id, qty)
      PROVE  feed'[id] # feed[id] /\ stock_of'[id] = l
  <2>1. feed[id] \in FeedOrder /\ feed[id].qty \in Nat /\ qty \in Nat \ {0}
    BY <1>1, <1>4, ReplayAssumption DEF Report, Types, FeedOrder
  <2>2. feed'[id] = Shrunk(feed[id], qty) /\ stock_of' = stock_of
    BY <1>1, <1>4 DEF Report, Types
  <2>3. Shrunk(feed[id], qty) # feed[id]
    <3>1. CASE qty = feed[id].qty
      BY <2>1, <3>1, NullIsNoOrder DEF Shrunk
    <3>2. CASE qty # feed[id].qty
      <4>1. Shrunk(feed[id], qty).qty = feed[id].qty - qty
        BY <2>1, <3>2 DEF Shrunk, FeedOrder
      <4>2. feed[id].qty - qty # feed[id].qty
        BY <2>1
      <4> QED
        BY <4>1, <4>2
    <3> QED
      BY <3>1, <3>2
  <2>4. ref_owner[id] = l
    BY <1>1, <1>4 DEF Report, Untouched, Reduce, Types
  <2>5. l # NULL
    BY NullIsNoOrder
  <2> QED
    BY <1>2, <2>2, <2>3, <2>4, <2>5
<1>5. ASSUME NEW id \in Ids, OrderDelete(id)
      PROVE  feed'[id] # feed[id] /\ stock_of'[id] = l
  <2>1. feed'[id] # feed[id] /\ stock_of' = stock_of
    BY <1>1, <1>5 DEF OrderDelete, Types
  <2>2. ref_owner[id] = l
    BY <1>1, <1>5 DEF OrderDelete, Untouched, Types
  <2> QED
    BY <1>2, <2>1, <2>2, NullIsNoOrder
<1>6. ASSUME NEW old \in Ids, NEW id \in Ids, NEW price \in Prices, NEW qty \in Quantities,
             OrderReplace(old, id, price, qty)
      PROVE  feed'[old] # feed[old] /\ stock_of'[old] = l
  <2> DEFINE order == [feed[old] EXCEPT !.price = price, !.qty = qty]
  <2>1. /\ feed[old] # NULL /\ stock_of[id] = NULL
        /\ stock_of' = [stock_of EXCEPT ![id] = order.stock]
        /\ feed' = [feed EXCEPT ![old] = NULL, ![id] = order]
    BY <1>6 DEF OrderReplace, Announce
  <2>2. old # id
    BY <2>1, ReplacedIsAnother
  <2>3. \E b : book' = [book EXCEPT ![ref_owner[old]] = b] \/ book' = book
    BY <1>6 DEF OrderReplace, Insert, Untouched
  <2>4. l = ref_owner[old]
    BY <1>1, <2>3 DEF Types
  <2> HIDE DEF order
  <2>5. feed'[old] = NULL /\ stock_of'[old] = stock_of[old]
    BY <1>1, <2>1, <2>2 DEF Types
  <2> QED
    BY <1>2, <2>1, <2>4, <2>5, NullIsNoOrder
<1>7. CASE \E id \in Ids, m \in Locates, s \in Side, p \in Prices, q \in Quantities :
             AddOrder(id, [stock |-> m, side |-> s, price |-> p, qty |-> q])
  <2>1. PICK id \in Ids, m \in Locates, s \in Side, p \in Prices, q \in Quantities :
             AddOrder(id, [stock |-> m, side |-> s, price |-> p, qty |-> q])
    BY <1>7
  <2>2. [stock |-> m, side |-> s, price |-> p, qty |-> q] \in FeedOrder
    BY ReplayAssumption DEF FeedOrder
  <2> QED
    BY <1>3, <2>1, <2>2
<1> QED
  BY <1>4, <1>5, <1>6, <1>7 DEF Next, OrderExecuted, OrderCancel

(* A message about one stock leaves the books of the others alone.         *)
THEOREM OneStockAtATime == Spec => OneStockPerMessage
<1>1. IInv /\ [Next]_vars =>
        [\A l \in Locates : book'[l] # book[l] =>
           \E id \in Ids : feed'[id] # feed[id] /\ stock_of'[id] = l]_vars
  BY OtherStocksUntouched
<1> QED
  BY <1>1, Inductive, PTL DEF Spec, OneStockPerMessage

(* The order id of the feed meets a maker of its stock at the exchange.    *)
Meets(fd, id, maker) ==
  /\ fd[id] # NULL /\ fd[maker] # NULL /\ fd[id].stock = fd[maker].stock
  /\ FeedCrossed(fd[id], fd[maker]) \/ FeedCrossed(fd[maker], fd[id])

LEMMA CrossersMeet ==
  ASSUME NEW bk, NEW op, NEW own, NEW fd, NEW st, NEW ls,
         Good(bk, op, own, fd, st, ls), NEW id \in Ids, st[id] = NULL,
         NEW order \in FeedOrder,
         NEW maker \in Crossers(bk[order.stock], order.side, order.price)
  PROVE  Meets([fd EXCEPT ![id] = order], id, maker)
<1> DEFINE l == order.stock
           entry == bk[l][maker]
           fd2 == [fd EXCEPT ![id] = order]
<1>1. /\ Types(bk, op, own, fd, st, ls) /\ l \in Locates /\ order # NULL
      /\ order.side \in Side /\ order.price \in Nat
  BY NullIsNoOrder, ReplayAssumption DEF Good, Types, FeedOrder
<1>2. /\ maker \in Ids /\ entry # NULL /\ entry.side = Opposite(order.side)
      /\ IF order.side = "BUY" THEN entry.price <= order.price ELSE entry.price >= order.price
  BY DEF Crossers, Resting
<1>3. entry.price \in Nat
  <2>1. bk[l] \in Book
    BY <1>1 DEF Types
  <2>2. entry \in Order
    BY <1>2, <2>1 DEF Book
  <2> HIDE DEF entry
  <2>3. entry.price \in Prices
    BY <2>2 DEF Order
  <2> QED
    BY <2>3, ReplayAssumption
<1>4. Backs(fd, maker, l, entry)
  BY <1>1, <1>2 DEF Good, RestingGood
<1>5. maker # id
  BY <1>1, <1>2, Unused
<1>6. fd2[id] = order /\ fd2[maker] = fd[maker]
  BY <1>1, <1>2, <1>5 DEF Types
<1> HIDE DEF fd2, entry
<1>7. FeedCrossed(order, fd[maker]) \/ FeedCrossed(fd[maker], order)
  BY <1>1, <1>2, <1>3, <1>4 DEF Backs, FeedCrossed, Opposite, Side
<1>8. Meets(fd2, id, maker)
  BY <1>1, <1>4, <1>6, <1>7 DEF Meets, Backs
<1> QED
  BY <1>8 DEF fd2

LEMMA MakersMeet ==
  ASSUME IInv, Next, NEW maker \in matched'
  PROVE  \E id \in Ids : stock_of[id] = NULL /\ Meets(feed', id, maker)
<1>1. Good(book, opened, ref_owner, feed, stock_of, lost)
  BY DEF IInv
<1>2. ASSUME NEW id \in Ids, NEW order \in FeedOrder, AddOrder(id, order)
      PROVE  stock_of[id] = NULL /\ Meets(feed', id, maker)
  <2>1. stock_of[id] = NULL /\ feed' = [feed EXCEPT ![id] = order]
    BY <1>2 DEF AddOrder, Announce
  <2>2. Insert(order.stock, book[order.stock], ref_owner, id, order)
    BY <1>2 DEF AddOrder, Untouched
  <2>3. maker \in Crossers(book[order.stock], order.side, order.price)
    BY <2>2 DEF Insert, Outcomes, Matched
  <2> QED
    BY <1>1, <2>1, <2>3, CrossersMeet
<1>3. ASSUME NEW old \in Ids, NEW id \in Ids, NEW price \in Prices, NEW qty \in Quantities,
             OrderReplace(old, id, price, qty)
      PROVE  stock_of[id] = NULL /\ Meets(feed', id, maker)
  <2> DEFINE order == [feed[old] EXCEPT !.price = price, !.qty = qty]
             l   == ref_owner[old]
             bk  == [book EXCEPT ![l] = AfterCancel(@, old)]
             own == [ref_owner EXCEPT ![old] = NULL]
             fd  == [feed EXCEPT ![old] = NULL]
  <2>1. /\ stock_of[id] = NULL /\ feed[old] # NULL /\ feed' = [fd EXCEPT ![id] = order]
    BY <1>3 DEF OrderReplace, Announce
  <2>2. l # NULL /\ book[l][old] # NULL
    BY <1>3 DEF OrderReplace, Untouched
  <2>3. maker \in Crossers(AfterCancel(book[l], old), book[l][old].side, price)
    <3>1. Insert(l, AfterCancel(book[l], old), own, id, [order EXCEPT !.side = book[l][old].side])
      BY <1>3, <2>2 DEF OrderReplace
    <3>2. feed[old] \in FeedOrder
      BY <1>1, <2>1 DEF Good, Types
    <3>3. /\ [order EXCEPT !.side = book[l][old].side].side = book[l][old].side
          /\ [order EXCEPT !.side = book[l][old].side].price = price
      BY <3>2 DEF FeedOrder
    <3> QED
      BY <3>1, <3>3 DEF Insert, Outcomes, Matched
  <2>4. /\ l \in Locates /\ order.stock = l /\ book[l][old].side = order.side
        /\ order.price = price /\ order \in FeedOrder
    <3>1. feed[old] \in FeedOrder /\ l \in Locates /\ feed[old].stock = l
          /\ book[l][old].side = feed[old].side
      BY <1>1, <2>1, <2>2 DEF Good, Types, RestingGood, Backs
    <3>2. qty \in Nat \ {0}
      BY ReplayAssumption
    <3> QED
      BY <3>1, <3>2 DEF FeedOrder
  <2>5. bk[l] = AfterCancel(book[l], old)
    BY <1>1, <2>4 DEF Good, Types
  <2>6. Good(bk, opened, own, fd, stock_of, lost)
    BY <1>1, <2>2, DeleteKeeps
  <2> HIDE DEF order, l, bk, own, fd
  <2>7. maker \in Crossers(bk[order.stock], order.side, order.price)
    BY <2>3, <2>4, <2>5
  <2> QED
    BY <2>1, <2>4, <2>6, <2>7, CrossersMeet
<1>4. ASSUME NEW id \in Ids, NEW qty \in Quantities, Report(id, qty)
      PROVE  FALSE
  BY <1>4 DEF Report, Untouched, Reduce
<1>5. ASSUME NEW id \in Ids, OrderDelete(id)
      PROVE  FALSE
  BY <1>5 DEF OrderDelete, Untouched
<1>6. CASE \E id \in Ids, m \in Locates, s \in Side, p \in Prices, q \in Quantities :
             AddOrder(id, [stock |-> m, side |-> s, price |-> p, qty |-> q])
  <2>1. PICK id \in Ids, m \in Locates, s \in Side, p \in Prices, q \in Quantities :
             AddOrder(id, [stock |-> m, side |-> s, price |-> p, qty |-> q])
    BY <1>6
  <2>2. [stock |-> m, side |-> s, price |-> p, qty |-> q] \in FeedOrder
    BY ReplayAssumption DEF FeedOrder
  <2> QED
    BY <1>2, <2>1, <2>2
<1> QED
  BY <1>3, <1>4, <1>5, <1>6 DEF Next, OrderExecuted, OrderCancel

(* A book reports a trade of its own only if the new order meets that      *)
(* maker at the exchange too.                                              *)
THEOREM TradesNeedACross == Spec => TradesOnlyIfFeedCrosses
<1>1. IInv /\ [Next]_vars =>
        [\A maker \in matched' : \E id \in Ids :
           /\ stock_of[id] = NULL /\ feed'[id] # NULL /\ feed'[maker] # NULL
           /\ feed'[id].stock = feed'[maker].stock
           /\ \/ FeedCrossed(feed'[id], feed'[maker])
              \/ FeedCrossed(feed'[maker], feed'[id])]_vars
  BY MakersMeet DEF Meets
<1> QED
  BY <1>1, Inductive, PTL DEF Spec, TradesOnlyIfFeedCrosses
=============================================================================
