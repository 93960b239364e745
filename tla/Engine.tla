------------------------------- MODULE Engine -------------------------------
(***************************************************************************)
(* The nanomatch binary: main.cpp, Engine and MmapParser.  A file of fixed *)
(* size records is mapped and each record becomes one call of the book,    *)
(* between the start and the stop of the logger.                           *)
(*                                                                         *)
(* The book is what its callers may rely on (BookContract).  What becomes  *)
(* of the trades it reports, and that stop returns with all of them        *)
(* written, is AsyncLogger's part; here the logger is its worker.          *)
(*                                                                         *)
(* A definition named X_Word, just before X, is a plausible slip in X; it  *)
(* is used only to check that the properties notice it.                    *)
(***************************************************************************)
EXTENDS BookContract, Sequences

CONSTANTS
  Files,       \* possible contents: sequences of records
  RecordSize,  \* sizeof(OrderRecord)
  TopPrice     \* no order of a file is priced above it

(* Any type and side byte; the id of a market order is not read.           *)
Record == [type : STRING, id : Ids \union {NULL}, side : Nat, price : Nat, qty : Nat]

(* BookContract speaks of insertions of an id that does not rest and of    *)
(* orders for something; as in data/generate_mock_data.py, a file gives an *)
(* id to one limit order, each order has a quantity, and prices have a     *)
(* bound, which a market order to buy sweeps up to.                        *)
WellFormed(f) ==
  /\ \A j, k \in DOMAIN f :
       f[j].type = "L" /\ f[k].type = "L" /\ f[j].id = f[k].id => j = k
  /\ \A k \in DOMAIN f :
       /\ f[k].type \in {"L", "M"} => f[k].qty > 0
       /\ f[k].type = "L" => f[k].price <= TopPrice

ASSUME EngineAssumption ==
  /\ RecordSize \in Nat \ {0, 1} /\ TopPrice \in Nat
  /\ \A f \in Files : f \in Seq(Record) /\ WellFormed(f)

VARIABLES
  file, size,    \* the records of the file; its size, which may be odd
  phase,         \* how far main has come; "halted" is a caught exception
  fd, mapped,    \* "none", "open", "closed"; the mapping is held
  i,             \* records processed
  book,
  running        \* the logger's worker runs

vars   == <<file, size, phase, fd, mapped, i, book, running>>
input  == <<file, size>>
replay == <<i, book>>

count == size \div RecordSize

Init ==
  /\ file \in Files
  /\ size \in {RecordSize * Len(file), RecordSize * Len(file) + 1}
  /\ phase = "constructing"
  /\ fd = "none" /\ mapped = FALSE
  /\ i = 0 /\ book = [id \in Ids |-> NULL]
  /\ running = FALSE

-----------------------------------------------------------------------------
(* MmapParser's constructor, the last of Engine's members.  An exception   *)
(* leaves no parser behind, so its destructor does not run.                *)

Halt(d) == phase' = "halted" /\ fd' = d /\ UNCHANGED mapped

open ==
  /\ phase = "constructing" /\ fd = "none"
  /\ \/ fd' = "open" /\ UNCHANGED <<phase, mapped>>
     \/ Halt("none")
  /\ UNCHANGED <<input, replay, running>>

SizeIsGood_Any == TRUE
SizeIsGood == size # 0 /\ size % RecordSize = 0

mmap_Leaks ==
  /\ phase = "constructing" /\ fd = "open"
  /\ \/ SizeIsGood /\ mapped' = TRUE /\ phase' = "constructed" /\ UNCHANGED fd
     \/ Halt("open")
  /\ UNCHANGED <<input, replay, running>>
(* fstat, the check of the size, and mmap; each failure closes and throws. *)
mmap ==
  /\ phase = "constructing" /\ fd = "open"
  /\ \/ SizeIsGood /\ mapped' = TRUE /\ phase' = "constructed" /\ UNCHANGED fd
     \/ Halt("closed")
  /\ UNCHANGED <<input, replay, running>>

-----------------------------------------------------------------------------
(* Engine::run.                                                            *)

(* The worker may fail to start; then run throws, and the destructors of   *)
(* the parser, the book and the logger run.                                *)
start ==
  /\ phase = "constructed"
  /\ \/ phase' = "running" /\ running' = TRUE /\ UNCHANGED <<fd, mapped>>
     \/ phase' = "halted" /\ fd' = "closed" /\ mapped' = FALSE /\ UNCHANGED running
  /\ UNCHANGED <<input, replay>>

SideOf_Raw(r) == IF r.side = 1 THEN "SELL" ELSE "BUY"
SideOf(r) == IF r.side = 0 THEN "BUY" ELSE "SELL"

insert_limit_order(r) ==
  \E o \in Outcomes(book, SideOf(r), r.price, r.qty) :
    book' = AfterInsert(book, r.id, SideOf(r), r.price, r.qty, o)

process_market_order(r) ==
  LET limit == IF SideOf(r) = "BUY" THEN TopPrice ELSE 0
  IN  \E o \in Outcomes(book, SideOf(r), limit, r.qty) :
        /\ ~ o.rests /\ o.dropped = {}
        /\ book' = AfterInsert(book, r.id, SideOf(r), limit, r.qty, o)

Dispatch(r) ==
  \/ r.type = "L" /\ insert_limit_order(r)
  \/ r.type = "M" /\ process_market_order(r)
  \/ r.type = "C" /\ book' = AfterCancel(book, r.id)
  \/ r.type \notin {"L", "M", "C"} /\ UNCHANGED book

process ==
  /\ phase = "running" /\ i < count
  /\ Dispatch(file[i + 1])
  /\ i' = i + 1
  /\ UNCHANGED <<input, phase, fd, mapped, running>>

(* The loop is over: logger_.stop.                                         *)
stop ==
  /\ phase = "running" /\ i = count
  /\ phase' = "stopped"
  /\ running' = FALSE
  /\ UNCHANGED <<input, fd, mapped, replay>>

destroy ==
  /\ phase = "stopped"
  /\ phase' = "exited" /\ fd' = "closed" /\ mapped' = FALSE
  /\ UNCHANGED <<input, replay, running>>

Ended == phase \in {"exited", "halted"} /\ UNCHANGED vars

Next == open \/ mmap \/ start \/ process \/ stop \/ destroy \/ Ended

Spec == Init /\ [][Next]_vars

-----------------------------------------------------------------------------
(* Every way out of main has given back what was taken on the way in: the  *)
(* failures of the construction, a logger that does not start, and the     *)
(* normal end.                                                             *)
Released ==
  phase \in {"exited", "halted"} => fd # "open" /\ ~ mapped /\ ~ running

(* No record is processed that is not whole in the mapping, and when the   *)
(* program ends well it has processed its file to the last byte.           *)
WholeFile ==
  /\ phase = "running" => mapped /\ i * RecordSize <= size
  /\ phase = "exited" => i * RecordSize = size

(* What rests was placed by a limit order of the file, on its side, at its *)
(* price and for no more than its quantity, and not cancelled since: no    *)
(* market order or unknown record leaves anything on the book.             *)
RestingFromFile ==
  \A id \in Ids : book[id] # NULL =>
    \E k \in 1 .. i :
      /\ file[k].type = "L" /\ file[k].id = id
      /\ (book[id].side = "BUY") = (file[k].side = 0)
      /\ book[id].price = file[k].price /\ book[id].qty <= file[k].qty
      /\ \A j \in k + 1 .. i : ~ (file[j].type = "C" /\ file[j].id = id)
=============================================================================
