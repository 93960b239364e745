---------------------------- MODULE Engine_proofs ---------------------------
(***************************************************************************)
(* The properties of the nanomatch binary, for every set of files, size of *)
(* a record and outcome of the calls of the book.                          *)
(*                                                                         *)
(* The invariant has three parts with a proof each: what main holds in     *)
(* each phase, how far the loop has come, and what the book has to do with *)
(* the records read.  The last needs the second, for the record processed  *)
(* to be one of the file's.                                                *)
(***************************************************************************)
EXTENDS Engine, TLAPS

-----------------------------------------------------------------------------
(* Sizes.                                                                  *)

LEMMA Remainder ==
  ASSUME NEW R \in Nat \ {0}, NEW s \in Nat
  PROVE  s = R * (s \div R) + (s % R) /\ s \div R \in Nat /\ s % R \in 0 .. R - 1
BY SMTT(20)

LEMMA NothingBetween ==
  ASSUME NEW R \in Nat \ {0}, NEW d \in Int, NEW e \in 0 .. R - 1, R * d = e
  PROVE  d = 0
<1>1. CASE d <= -1
  BY <1>1, SMTT(20)
<1>2. CASE d >= 1
  BY <1>2, SMTT(20)
<1> QED
  BY <1>1, <1>2

(* A size the check accepts is that of the records, each one whole.        *)
LEMMA GoodSize ==
  ASSUME NEW R \in Nat \ {0, 1}, NEW n \in Nat, NEW s \in {R * n, R * n + 1},
         s % R = 0
  PROVE  s = R * n /\ s \div R = n
<1> DEFINE q == s \div R
<1>1. R * n \in Nat /\ s \in Nat
  BY SMTT(20)
<1>2. s = R * q /\ q \in Nat
  BY <1>1, Remainder
<1> HIDE DEF q
<1>3. R * (q - n) = R * q - R * n /\ R * q \in Int
  BY <1>2, SMTT(20)
<1>4. R * (q - n) \in {0, 1}
  BY <1>1, <1>2, <1>3
<1>5. q - n = 0
  BY <1>2, <1>4, NothingBetween
<1>6. q = n
  BY <1>2, <1>5
<1> QED
  BY <1>2, <1>6 DEF q

-----------------------------------------------------------------------------
(* What is held: the booleans of the state by phase.                       *)

Holding ==
  /\ phase = "constructing" => fd \in {"none", "open"} /\ ~ mapped /\ ~ running
  /\ phase = "constructed" => mapped /\ ~ running
  /\ phase = "running" => mapped
  /\ phase = "stopped" => ~ running
  /\ phase \in {"exited", "halted"} => fd # "open" /\ ~ mapped /\ ~ running

LEMMA HoldingStep ==
  ASSUME Holding, [Next]_vars
  PROVE  Holding'
<1>1. CASE open
  BY <1>1 DEF Holding, open, Halt, replay, input
<1>2. CASE mmap
  BY <1>2 DEF Holding, mmap, Halt, replay, input
<1>3. CASE start
  <2>1. phase = "constructed" /\ mapped /\ ~ running
    BY <1>3 DEF Holding, start
  <2>2. \/ phase' = "running" /\ mapped' = mapped
        \/ phase' = "halted" /\ fd' = "closed" /\ mapped' = FALSE /\ running' = running
    BY <1>3 DEF start
  <2>3. CASE phase' = "running" /\ mapped' = mapped
    BY <2>1, <2>3 DEF Holding
  <2>4. CASE phase' = "halted" /\ fd' = "closed" /\ mapped' = FALSE /\ running' = running
    BY <2>1, <2>4 DEF Holding
  <2> QED
    BY <2>2, <2>3, <2>4
<1>4. CASE process
  BY <1>4 DEF Holding, process
<1>5. CASE stop
  BY <1>5 DEF Holding, stop
<1>6. CASE destroy
  BY <1>6 DEF Holding, destroy
<1>7. CASE UNCHANGED vars
  BY <1>7 DEF Holding, vars
<1> QED
  BY <1>1, <1>2, <1>3, <1>4, <1>5, <1>6, <1>7 DEF Next, Ended

(* Every way out of main, the failures on the way in among them, leaves    *)
(* the descriptor, the mapping and the worker given back.                  *)
THEOREM ReleasedTheorem == Spec => []Released
<1>1. Init => Holding
  BY DEF Init, Holding
<1>2. Holding /\ [Next]_vars => Holding'
  BY HoldingStep
<1>3. Holding => Released
  BY DEF Holding, Released
<1> QED
  BY <1>1, <1>2, <1>3, PTL DEF Spec

-----------------------------------------------------------------------------
(* How far the loop has come.                                              *)

Input ==
  /\ file \in Seq(Record)
  /\ size \in {RecordSize * Len(file), RecordSize * Len(file) + 1}

Progress ==
  /\ i \in Nat
  /\ phase \in {"constructing", "constructed"} => i = 0
  /\ phase \in {"constructed", "running", "stopped", "exited"} =>
       size % RecordSize = 0
  /\ phase = "running" => i <= count
  /\ phase \in {"stopped", "exited"} => i = count

LEMMA InputInit ==
  ASSUME Init
  PROVE  Input
BY EngineAssumption DEF Init, Input

LEMMA InputStep ==
  ASSUME Input, [Next]_vars
  PROVE  Input' /\ file' = file /\ size' = size
<1>1. file' = file /\ size' = size
  BY DEF Next, open, mmap, start, process, stop, destroy, Ended, vars, input
<1> QED
  BY <1>1 DEF Input

LEMMA CountIsNat ==
  ASSUME Input
  PROVE  count \in Nat /\ size \in Nat
<1>1. RecordSize \in Nat \ {0}
  BY EngineAssumption
<1>2. Len(file) \in Nat
  BY DEF Input
<1>3. RecordSize * Len(file) \in Nat
  BY <1>1, <1>2, SMTT(20)
<1>4. size \in Nat
  BY <1>3 DEF Input
<1> QED
  BY <1>1, <1>4, Remainder DEF count

LEMMA WholeRecords ==
  ASSUME Input, size % RecordSize = 0
  PROVE  size = RecordSize * Len(file) /\ count = Len(file) /\ Len(file) \in Nat
<1>1. Len(file) \in Nat
  BY DEF Input
<1> QED
  BY <1>1, GoodSize, EngineAssumption DEF Input, count

LEMMA ProgressStep ==
  ASSUME Input, Progress, [Next]_vars
  PROVE  Progress'
<1>1. file' = file /\ size' = size /\ count' = count
  BY InputStep DEF count
<1>2. count \in Nat
  BY CountIsNat
<1> HIDE DEF count
<1>3. CASE open
  BY <1>1, <1>3 DEF Progress, open, Halt, replay, input
<1>4. CASE mmap
  BY <1>1, <1>4 DEF Progress, mmap, Halt, SizeIsGood, replay, input
<1>5. CASE start
  <2>1. phase \in {"constructed"} /\ i = 0 /\ i' = i
    BY <1>5 DEF Progress, start, replay
  <2> QED
    BY <1>1, <1>2, <1>5, <2>1 DEF Progress, start, replay, input
<1>6. CASE process
  BY <1>1, <1>2, <1>6 DEF Progress, process, input
<1>7. CASE stop
  BY <1>1, <1>7 DEF Progress, stop, replay, input
<1>8. CASE destroy
  BY <1>1, <1>8 DEF Progress, destroy, replay, input
<1>9. CASE UNCHANGED vars
  BY <1>1, <1>9 DEF Progress, vars
<1> QED
  BY <1>3, <1>4, <1>5, <1>6, <1>7, <1>8, <1>9 DEF Next, Ended

LEMMA Multiples ==
  ASSUME NEW R \in Nat, NEW m \in Nat, NEW n \in Nat, m <= n
  PROVE  m * R <= n * R /\ n * R = R * n
<1>1. n - m \in Nat /\ R * (n - m) \in Nat
  BY SMTT(20)
<1>2. R * (n - m) = R * n - R * m
  BY SMTT(20)
<1> QED
  BY <1>1, <1>2, SMTT(20)

(* The loop reads no record that is not whole in the mapping, and a run    *)
(* that ends well has read the file to its last byte.                      *)
THEOREM WholeFileTheorem == Spec => []WholeFile
<1>1. Init => Input /\ Progress /\ Holding
  <2>1. Init => Input
    BY InputInit
  <2>2. Init => Progress
    BY DEF Init, Progress
  <2>3. Init => Holding
    BY DEF Init, Holding
  <2> QED
    BY <2>1, <2>2, <2>3
<1>2. Input /\ Progress /\ Holding /\ [Next]_vars => (Input /\ Progress /\ Holding)'
  BY InputStep, ProgressStep, HoldingStep
<1>3. Input /\ Progress /\ Holding => WholeFile
  <2> SUFFICES ASSUME Input, Progress, Holding
               PROVE  WholeFile
    OBVIOUS
  <2>1. phase = "running" => mapped
    BY DEF Holding
  <2>2. RecordSize \in Nat
    BY EngineAssumption
  <2>3. ASSUME phase = "running"
        PROVE  i * RecordSize <= size
    <3>1. /\ size = RecordSize * Len(file) /\ count = Len(file)
          /\ Len(file) \in Nat
      BY <2>3, WholeRecords DEF Progress
    <3>2. i \in Nat /\ i <= Len(file)
      BY <2>3, <3>1 DEF Progress
    <3> QED
      BY <2>2, <3>1, <3>2, Multiples
  <2>4. ASSUME phase = "exited"
        PROVE  i * RecordSize = size
    <3>1. /\ size = RecordSize * Len(file) /\ count = Len(file)
          /\ Len(file) \in Nat
      BY <2>4, WholeRecords DEF Progress
    <3>2. i = Len(file)
      BY <2>4, <3>1 DEF Progress
    <3> QED
      BY <2>2, <3>1, <3>2, Multiples
  <2> QED
    BY <2>1, <2>3, <2>4 DEF WholeFile
<1> QED
  BY <1>1, <1>2, <1>3, PTL DEF Spec

-----------------------------------------------------------------------------
(* The book and the records read.                                          *)

Side  == {"BUY", "SELL"}
Order == [side : Side, price : Nat, qty : Nat]
Book  == [Ids -> Order \union {NULL}]

(* An insertion leaves old entries, of no more than they had, and one of   *)
(* the new order if its remainder rests.                                   *)
InsertLeaves(a, b, id, side, price, qty, rests) ==
  \A x \in Ids : a[x] # NULL =>
    \/ /\ b[x] # NULL /\ a[x].side = b[x].side /\ a[x].price = b[x].price
       /\ a[x].qty <= b[x].qty
    \/ /\ x = id /\ rests /\ a[x].side = side /\ a[x].price = price
       /\ a[x].qty <= qty

LEMMA InsertEffect ==
  ASSUME NEW b \in Book, NEW id, NEW side \in Side, NEW price \in Nat,
         NEW qty \in Nat, NEW o \in Outcomes(b, side, price, qty),
         NEW a, a = AfterInsert(b, id, side, price, qty, o)
  PROVE  a \in Book /\ InsertLeaves(a, b, id, side, price, qty, o.rests)
<1> DEFINE left == Left(b, qty, o.filled)
<1>1. /\ o.cut \subseteq Crossers(b, side, price)
      /\ left \in 0 .. qty
      /\ \A x \in o.cut : left \in 1 .. b[x].qty - 1
      /\ o.rests \in BOOLEAN
  BY DEF Outcomes
<1>2. \A x \in o.cut : x \in Ids /\ b[x] # NULL
  BY <1>1 DEF Crossers, Resting
<1>3. \A x \in Ids : a[x] =
        IF x \in o.dropped \union o.filled THEN NULL
        ELSE IF x \in o.cut THEN [b[x] EXCEPT !.qty = @ - left]
        ELSE IF x = id /\ o.rests THEN [side |-> side, price |-> price, qty |-> left]
        ELSE b[x]
  BY DEF AfterInsert
<1>4. a = [x \in Ids |-> a[x]]
  BY DEF AfterInsert
<1>5. \A x \in Ids : b[x] # NULL => b[x] \in Order
  BY DEF Book
<1> HIDE DEF left
<1>6. left \in Nat /\ left <= qty
  BY <1>1
<1> DEFINE OldOrNew(x) ==
             \/ /\ b[x] # NULL /\ a[x].side = b[x].side /\ a[x].price = b[x].price
                /\ a[x].qty <= b[x].qty
             \/ /\ x = id /\ o.rests /\ a[x].side = side /\ a[x].price = price
                /\ a[x].qty <= qty
<1>7. ASSUME NEW x \in Ids
      PROVE  a[x] \in Order \union {NULL} /\ (a[x] # NULL => OldOrNew(x))
  <2>1. CASE a[x] = NULL
    BY <2>1
  <2>2. CASE x \in o.cut /\ a[x] = [b[x] EXCEPT !.qty = @ - left]
    <3>1. b[x] \in Order /\ b[x].qty \in Nat /\ left \in 1 .. b[x].qty - 1 /\ b[x] # NULL
      BY <1>1, <1>2, <1>5, <2>2 DEF Order
    <3>2. b[x].qty - left \in Nat /\ b[x].qty - left <= b[x].qty
      BY <1>6, <3>1
    <3>3. /\ a[x].side = b[x].side /\ a[x].price = b[x].price
          /\ a[x].qty = b[x].qty - left /\ a[x] \in Order
      BY <2>2, <3>1, <3>2 DEF Order
    <3> QED
      BY <3>1, <3>2, <3>3
  <2>3. CASE x = id /\ o.rests /\ a[x] = [side |-> side, price |-> price, qty |-> left]
    <3>1. /\ a[x].side = side /\ a[x].price = price /\ a[x].qty = left
          /\ a[x] \in Order
      BY <1>6, <2>3 DEF Order
    <3> QED
      BY <1>6, <2>3, <3>1
  <2>4. CASE a[x] # NULL /\ a[x] = b[x]
    <3>1. b[x] \in Order /\ b[x].qty \in Nat
      BY <1>5, <2>4 DEF Order
    <3> QED
      BY <2>4, <3>1
  <2> HIDE DEF OldOrNew
  <2> QED
    BY <1>3, <2>1, <2>2, <2>3, <2>4
<1> QED
  BY <1>4, <1>7 DEF Book, InsertLeaves

(* Record k of f placed the entry, and none of the records up to n has     *)
(* cancelled it since.                                                     *)
PlacedBy(entry, id, f, n, k) ==
  /\ f[k].type = "L" /\ f[k].id = id
  /\ (entry.side = "BUY") = (f[k].side = 0)
  /\ entry.price = f[k].price /\ entry.qty <= f[k].qty
  /\ \A j \in k + 1 .. n : ~ (f[j].type = "C" /\ f[j].id = id)

Placed(b, f, n) ==
  \A id \in Ids : b[id] # NULL => \E k \in 1 .. n : PlacedBy(b[id], id, f, n, k)

LEMMA RecordAt ==
  ASSUME NEW f \in Seq(Record), NEW k \in 1 .. Len(f)
  PROVE  /\ f[k] \in Record /\ f[k].qty \in Nat /\ f[k].side \in Nat
         /\ f[k].price \in Nat
<1>1. f[k] \in Record
  OBVIOUS
<1> QED
  BY <1>1 DEF Record

(* An entry keeps its record while it only shrinks and is not cancelled.   *)
LEMMA StaysPlaced ==
  ASSUME NEW f \in Seq(Record), NEW n \in Nat, n < Len(f), NEW id,
         NEW old, NEW new, old.qty \in Nat, new.qty \in Nat,
         \E k \in 1 .. n : PlacedBy(old, id, f, n, k),
         new.side = old.side, new.price = old.price, new.qty <= old.qty,
         ~ (f[n + 1].type = "C" /\ f[n + 1].id = id)
  PROVE  \E k \in 1 .. n + 1 : PlacedBy(new, id, f, n + 1, k)
<1>1. PICK k \in 1 .. n : PlacedBy(old, id, f, n, k)
  OBVIOUS
<1>2. k \in 1 .. Len(f) /\ k \in 1 .. n + 1
  OBVIOUS
<1>3. f[k].qty \in Nat
  BY <1>2, RecordAt
<1>4. new.qty <= f[k].qty
  BY <1>1, <1>3 DEF PlacedBy
<1>5. ASSUME NEW j \in k + 1 .. n + 1
      PROVE  ~ (f[j].type = "C" /\ f[j].id = id)
  <2>1. j \in k + 1 .. n \/ j = n + 1
    OBVIOUS
  <2> QED
    BY <1>1, <2>1 DEF PlacedBy
<1>6. PlacedBy(new, id, f, n + 1, k)
  BY <1>1, <1>4, <1>5 DEF PlacedBy
<1> QED
  BY <1>2, <1>6

(* An insertion on behalf of record n + 1.  What it leaves to rest is the  *)
(* record's, if the record is a limit order.                               *)
LEMMA PlacedByInsert ==
  ASSUME NEW f \in Seq(Record), NEW n \in Nat, n < Len(f),
         NEW b \in Book, Placed(b, f, n),
         NEW r, r = f[n + 1], r.type # "C",
         NEW price \in Nat,
         NEW o \in Outcomes(b, SideOf(r), price, r.qty),
         o.rests => r.type = "L" /\ price = r.price,
         NEW a, a = AfterInsert(b, r.id, SideOf(r), price, r.qty, o)
  PROVE  a \in Book /\ Placed(a, f, n + 1)
<1>1. r \in Record /\ r.qty \in Nat /\ r.side \in Nat
  BY RecordAt
<1>2. SideOf(r) \in Side /\ (SideOf(r) = "BUY") = (r.side = 0)
  BY DEF SideOf, Side
<1>3. a \in Book /\ InsertLeaves(a, b, r.id, SideOf(r), price, r.qty, o.rests)
  BY <1>1, <1>2, InsertEffect
<1>4. ASSUME NEW x \in Ids, a[x] # NULL
      PROVE  \E k \in 1 .. n + 1 : PlacedBy(a[x], x, f, n + 1, k)
  <2>1. a[x].qty \in Nat
    BY <1>3, <1>4 DEF Book, Order
  <2>2. CASE /\ b[x] # NULL /\ a[x].side = b[x].side /\ a[x].price = b[x].price
             /\ a[x].qty <= b[x].qty
    <3>1. b[x].qty \in Nat
      BY <2>2 DEF Book, Order
    <3>2. \E k \in 1 .. n : PlacedBy(b[x], x, f, n, k)
      BY <2>2 DEF Placed
    <3> QED
      BY <2>1, <2>2, <3>1, <3>2, StaysPlaced
  <2>3. CASE /\ x = r.id /\ o.rests /\ a[x].side = SideOf(r) /\ a[x].price = price
             /\ a[x].qty <= r.qty
    <3>1. (a[x].side = "BUY") = (r.side = 0)
      BY <1>2, <2>3
    <3>2. r.type = "L" /\ price = r.price
      BY <2>3
    <3>3. \A j \in n + 1 + 1 .. n + 1 : FALSE
      OBVIOUS
    <3>4. PlacedBy(a[x], x, f, n + 1, n + 1)
      BY <2>3, <3>1, <3>2, <3>3 DEF PlacedBy
    <3> QED
      BY <3>4
  <2> QED
    BY <1>3, <1>4, <2>2, <2>3 DEF InsertLeaves
<1> QED
  BY <1>3, <1>4 DEF Placed

(* A cancel leaves the other entries.                                      *)
LEMMA PlacedByCancel ==
  ASSUME NEW f \in Seq(Record), NEW n \in Nat, n < Len(f),
         NEW b \in Book, Placed(b, f, n),
         NEW a, a = AfterCancel(b, f[n + 1].id)
  PROVE  a \in Book /\ Placed(a, f, n + 1)
<1>1. a = [b EXCEPT ![f[n + 1].id] = NULL]
  BY DEF AfterCancel
<1>2. a \in Book
  BY <1>1 DEF Book
<1>3. ASSUME NEW x \in Ids, a[x] # NULL
      PROVE  \E k \in 1 .. n + 1 : PlacedBy(a[x], x, f, n + 1, k)
  <2>1. x # f[n + 1].id /\ a[x] = b[x]
    BY <1>1, <1>3 DEF Book
  <2>2. b[x].qty \in Nat
    BY <1>3, <2>1 DEF Book, Order
  <2>3. \E k \in 1 .. n : PlacedBy(b[x], x, f, n, k)
    BY <1>3, <2>1 DEF Placed
  <2> QED
    BY <2>1, <2>2, <2>3, StaysPlaced
<1> QED
  BY <1>2, <1>3 DEF Placed

LEMMA PlacedByOther ==
  ASSUME NEW f \in Seq(Record), NEW n \in Nat, n < Len(f),
         NEW b \in Book, Placed(b, f, n), f[n + 1].type # "C"
  PROVE  Placed(b, f, n + 1)
<1>1. ASSUME NEW x \in Ids, b[x] # NULL
      PROVE  \E k \in 1 .. n + 1 : PlacedBy(b[x], x, f, n + 1, k)
  <2>1. b[x].qty \in Nat
    BY <1>1 DEF Book, Order
  <2>2. \E k \in 1 .. n : PlacedBy(b[x], x, f, n, k)
    BY <1>1 DEF Placed
  <2> QED
    BY <2>1, <2>2, StaysPlaced
<1> QED
  BY <1>1 DEF Placed

LEMMA PlacedByDispatch ==
  ASSUME Input, Progress, book \in Book, Placed(book, file, i), process
  PROVE  book' \in Book /\ Placed(book', file, i + 1)
<1>1. size % RecordSize = 0 /\ i \in Nat /\ i < count
  BY DEF process, Progress
<1>2. /\ file \in Seq(Record) /\ i < Len(file)
      /\ i + 1 \in 1 .. Len(file)
  BY <1>1, WholeRecords DEF Input
<1> DEFINE r == file[i + 1]
<1>3. r \in Record /\ r.qty \in Nat /\ r.price \in Nat
  BY <1>2, RecordAt
<1>4. Dispatch(r)
  BY DEF process
<1>5. CASE r.type = "L" /\ insert_limit_order(r)
  <2>1. PICK o \in Outcomes(book, SideOf(r), r.price, r.qty) :
          book' = AfterInsert(book, r.id, SideOf(r), r.price, r.qty, o)
    BY <1>5 DEF insert_limit_order
  <2> QED
    BY <1>1, <1>2, <1>3, <1>5, <2>1, PlacedByInsert
<1>6. CASE r.type = "M" /\ process_market_order(r)
  <2> DEFINE limit == IF SideOf(r) = "BUY" THEN TopPrice ELSE 0
  <2>1. PICK o \in Outcomes(book, SideOf(r), limit, r.qty) :
          /\ ~ o.rests
          /\ book' = AfterInsert(book, r.id, SideOf(r), limit, r.qty, o)
    BY <1>6 DEF process_market_order
  <2>2. limit \in Nat
    BY EngineAssumption
  <2> HIDE DEF limit
  <2> QED
    BY <1>1, <1>2, <1>6, <2>1, <2>2, PlacedByInsert
<1>7. CASE r.type = "C" /\ book' = AfterCancel(book, r.id)
  BY <1>1, <1>2, <1>7, PlacedByCancel
<1>8. CASE r.type \notin {"L", "M", "C"} /\ UNCHANGED book
  BY <1>1, <1>2, <1>8, PlacedByOther
<1> QED
  BY <1>4, <1>5, <1>6, <1>7, <1>8 DEF Dispatch

(* What rests was placed by a limit order of the file, on its side, at its *)
(* price, for no more than its quantity, and not cancelled since, whatever *)
(* the book matches, drops or rejects on its own.                          *)
THEOREM RestingFromFileTheorem == Spec => []RestingFromFile
<1> DEFINE IInv == /\ Input /\ Progress
                   /\ book \in Book /\ Placed(book, file, i)
<1>1. Init => IInv
  <2> SUFFICES ASSUME Init
               PROVE  IInv
    OBVIOUS
  <2>1. Input
    BY InputInit
  <2>2. Progress
    BY DEF Init, Progress
  <2>3. book = [id \in Ids |-> NULL]
    BY DEF Init
  <2> QED
    BY <2>1, <2>2, <2>3 DEF Book, Placed
<1>2. IInv /\ [Next]_vars => IInv'
  <2> SUFFICES ASSUME IInv, [Next]_vars
               PROVE  IInv'
    OBVIOUS
  <2>1. Input' /\ Progress' /\ file' = file
    BY InputStep, ProgressStep
  <2>2. CASE process
    <3>1. book' \in Book /\ Placed(book', file, i + 1)
      BY <2>2, PlacedByDispatch
    <3>2. i' = i + 1
      BY <2>2 DEF process
    <3> QED
      BY <2>1, <3>1, <3>2
  <2>3. CASE book' = book /\ i' = i
    BY <2>1, <2>3
  <2>4. process \/ (book' = book /\ i' = i)
    BY DEF Next, open, mmap, start, stop, destroy, Ended, vars, replay
  <2> QED
    BY <2>2, <2>3, <2>4
<1>3. IInv => RestingFromFile
  BY DEF Placed, PlacedBy, RestingFromFile
<1> QED
  BY <1>1, <1>2, <1>3, PTL DEF Spec
=============================================================================
