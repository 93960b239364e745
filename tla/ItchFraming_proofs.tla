------------------------- MODULE ItchFraming_proofs -------------------------
(***************************************************************************)
(* Proofs about the framing loop, for every file, every set of types and   *)
(* lengths and every size of the mapping.  The invariant that carries them *)
(* says what the cursor has passed: every record before "next" lies whole  *)
(* in the mapping, and was handled if it had room for its struct.          *)
(***************************************************************************)
EXTENDS ItchFraming, TLAPS

(* Where the cursor stands, and what the records before it were.           *)
Passed ==
  /\ next <= Len(file) => cursor = file[next].at
  /\ \A k \in 1 .. next - 1 :
       /\ Whole(k)
       /\ file[k].type \in Handled /\ Prefix + file[k].len >= Header + Body[file[k].type]
            => k \in handled

(* The loop stops for a reason: the next record is not whole.              *)
StoppedShort ==
  phase = "done" /\ next <= Len(file) => ~ Whole(next)

IInv == TypeOK /\ Passed /\ touched <= size /\ StoppedShort

-----------------------------------------------------------------------------
LEMMA BodySizes ==
  /\ DOMAIN Body = {"A", "F", "E", "C", "X", "D", "U"}
  /\ \A type \in DOMAIN Body : Body[type] \in 18 .. 39
BY DEF Body

(* A record of the file: its fields, and where the next one starts.        *)
LEMMA RecordFields ==
  ASSUME NEW f, LaidOut(f)
  PROVE  /\ Len(f) \in Nat
         /\ \A k \in 1 .. Len(f) : /\ f[k].at \in Nat /\ f[k].len \in Nat
                                   /\ f[k].type \in Types /\ f[k].len \in Lengths
         /\ \A k \in 1 .. Len(f) - 1 : f[k + 1].at = f[k].at + 2 + f[k].len
         /\ 1 <= Len(f) => f[1].at = 0
<1>1. f \in Seq([at : Nat, type : Types, len : Lengths])
  BY DEF LaidOut
<1> DEFINE Rec == [at : Nat, type : Types, len : Lengths]
<1>2. Len(f) \in Nat /\ \A k \in 1 .. Len(f) : f[k] \in Rec
  <2>1. f \in Seq(Rec)
    BY <1>1
  <2> HIDE DEF Rec
  <2> QED
    BY <2>1
<1>3. \A k \in 1 .. Len(f) : /\ f[k].at \in Nat /\ f[k].len \in Lengths
                             /\ f[k].type \in Types
  BY <1>2
<1>4. \A n \in Lengths : n \in Nat
  BY FramingAssumption
<1>5. 1 <= Len(f) => f # <<>>
  OBVIOUS
<1>6. \A k \in 1 .. Len(f) - 1 : f[k + 1].at = f[k].at + 2 + f[k].len
  BY DEF LaidOut, Prefix
<1>7. 1 <= Len(f) => f[1].at = 0
  BY <1>5 DEF LaidOut
<1> HIDE DEF Rec
<1> QED
  BY <1>2, <1>3, <1>4, <1>6, <1>7

LEMMA ReadFields ==
  ASSUME LaidOut(file), next \in 1 .. Len(file) + 1, NEW r \in Read
  PROVE  /\ r.len \in Nat /\ r.type \in Types
         /\ AtRecord => r.len = file[next].len /\ r.type = file[next].type
<1>1. \A n \in Lengths : n \in Nat
  BY FramingAssumption
<1>2. CASE AtRecord
  <2>1. next \in 1 .. Len(file)
    <3>1. Len(file) \in Nat /\ next <= Len(file)
      BY <1>2, RecordFields DEF AtRecord
    <3> QED
      BY <3>1
  <2>2. r = [type |-> file[next].type, len |-> file[next].len]
    BY <1>2 DEF Read
  <2> QED
    BY <2>1, <2>2, RecordFields
<1>3. CASE ~ AtRecord
  BY <1>1, <1>3 DEF Read
<1> QED
  BY <1>2, <1>3

-----------------------------------------------------------------------------
LEMMA InitHolds == Init => IInv
<1> SUFFICES ASSUME Init PROVE IInv
  OBVIOUS
<1>1. LaidOut(file)
  BY FilesAssumption DEF Init
<1>2. size \in Nat
  BY FramingAssumption DEF Init
<1>3. next \in 1 .. Len(file) + 1
  BY <1>1, RecordFields DEF Init
<1>4. TypeOK
  BY <1>1, <1>2, <1>3 DEF Init, TypeOK
<1>5. Passed
  BY <1>1, RecordFields DEF Init, Passed
<1> QED
  BY <1>2, <1>4, <1>5 DEF Init, IInv, StoppedShort

(* The cursor goes to the next record: it stands at its start, and the one *)
(* it passed was whole.                                                    *)
LEMMA AdvanceKeepsPassed ==
  ASSUME IInv, UNCHANGED <<file, size>>, NEW r \in Read,
         RecordFits(r), Advance(r),
         \/ handled' = handled
         \/ AtRecord /\ handled' = handled \union {next},
         AtRecord /\ r.type \in Handled
           /\ Prefix + r.len >= Header + Body[r.type] => next \in handled'
  PROVE  /\ cursor' \in Nat /\ next' \in 1 .. Len(file) + 1
         /\ handled' \subseteq 1 .. Len(file)
         /\ Passed'
<1>1. /\ LaidOut(file) /\ cursor \in Nat /\ next \in 1 .. Len(file) + 1
      /\ handled \subseteq 1 .. Len(file) /\ size \in Nat
  BY DEF IInv, TypeOK
<1>2. /\ Len(file) \in Nat
      /\ \A k \in 1 .. Len(file) : file[k].at \in Nat /\ file[k].len \in Nat
      /\ \A k \in 1 .. Len(file) - 1 : file[k + 1].at = file[k].at + 2 + file[k].len
  BY <1>1, RecordFields
<1>3. r.len \in Nat
  BY <1>1, ReadFields
<1>4. cursor' = cursor + 2 + r.len /\ file' = file /\ size' = size
  BY DEF Advance, Prefix
<1>5. CASE AtRecord
  <2>1. next \in 1 .. Len(file) /\ cursor = file[next].at
    BY <1>1, <1>2, <1>5 DEF AtRecord
  <2>2. next' = next + 1
    BY <1>5 DEF Advance
  <2>3. r.len = file[next].len /\ r.type = file[next].type
    BY <1>1, <1>5, ReadFields
  <2>4. Whole(next)
    BY <2>1, <2>3 DEF RecordFits, Whole
  <2>5. next' <= Len(file) => cursor' = file[next'].at
    <3> SUFFICES ASSUME next + 1 <= Len(file) PROVE cursor' = file[next + 1].at
      BY <2>2
    <3>1. next \in 1 .. Len(file) - 1
      BY <1>2, <2>1
    <3> QED
      BY <1>2, <1>4, <2>1, <2>3, <3>1
  <2>6. handled \subseteq handled' /\ handled' \subseteq 1 .. Len(file)
    BY <1>1, <2>1
  <2>7. ASSUME NEW k \in 1 .. next
        PROVE  /\ Whole(k)
               /\ file[k].type \in Handled
                    /\ Prefix + file[k].len >= Header + Body[file[k].type]
                    => k \in handled'
    <3>1. CASE k = next
      BY <1>5, <2>3, <2>4, <3>1
    <3>2. CASE k # next
      <4>1. k \in 1 .. next - 1
        BY <1>1, <3>2
      <4> QED
        BY <2>6, <4>1 DEF IInv, Passed
    <3> QED
      BY <3>1, <3>2
  <2>8. next' - 1 = next /\ next' \in 1 .. Len(file) + 1
    BY <1>2, <2>1, <2>2
  <2>9. cursor' \in Nat
    BY <1>1, <1>3, <1>4
  <2>10. Passed'
    BY <1>4, <2>5, <2>7, <2>8 DEF Passed, Whole
  <2> QED
    BY <2>6, <2>8, <2>9, <2>10
<1>6. CASE ~ AtRecord
  <2>1. next' = next /\ handled' = handled
    BY <1>6 DEF Advance
  <2>2. ~ (next <= Len(file))
    BY <1>6 DEF AtRecord, IInv, Passed
  <2>3. \A k : Whole(k)' <=> Whole(k)
    BY <1>4 DEF Whole
  <2>4. cursor' \in Nat
    BY <1>1, <1>3, <1>4
  <2> QED
    BY <1>1, <1>4, <2>1, <2>2, <2>3, <2>4 DEF IInv, Passed
<1> QED
  BY <1>5, <1>6

LEMMA StepHolds == IInv /\ [Next]_vars => IInv'
<1> SUFFICES ASSUME IInv, [Next]_vars PROVE IInv'
  OBVIOUS
<1>1. /\ LaidOut(file) /\ cursor \in Nat /\ next \in 1 .. Len(file) + 1
      /\ handled \subseteq 1 .. Len(file) /\ size \in Nat
      /\ touched \in Nat /\ touched <= size
  BY DEF IInv, TypeOK
<1>2. ASSUME UNCHANGED <<file, size, walk>>,
             phase' \in {"closed", "open", "walking", "refused", "aborted"},
             fd' \in BOOLEAN, mapped' \in BOOLEAN
      PROVE  IInv'
  BY <1>1, <1>2 DEF IInv, TypeOK, Passed, Whole, StoppedShort, walk, LaidOut
<1>3. CASE open
  BY <1>2, <1>3 DEF open, IInv, TypeOK
<1>4. CASE mmap
  BY <1>2, <1>4 DEF mmap, MapFails, IInv, TypeOK
<1>5. CASE OutOfData
  <2>1. UNCHANGED <<file, size, walk>> /\ phase' = "done" /\ fd' = FALSE /\ mapped' = FALSE
    BY <1>5 DEF OutOfData, Finish
  <2>2. TypeOK' /\ Passed' /\ touched' <= size'
    BY <1>1, <2>1 DEF IInv, TypeOK, Passed, Whole, walk, LaidOut
  <2>3. next <= Len(file) => ~ Whole(next)
    <3> SUFFICES ASSUME next <= Len(file), Whole(next) PROVE FALSE
      OBVIOUS
    <3>1. cursor = file[next].at
      BY DEF IInv, Passed
    <3>2. next \in 1 .. Len(file)
      BY <1>1, RecordFields
    <3>3. file[next].len \in Nat
      BY <1>1, <3>2, RecordFields
    <3> QED
      BY <1>1, <1>5, <3>1, <3>3 DEF OutOfData, HeaderFits, Whole, Prefix, Header
  <2>4. StoppedShort'
    BY <2>1, <2>3 DEF StoppedShort, Whole, walk
  <2> QED
    BY <2>2, <2>4 DEF IInv
<1>6. CASE BadFraming
  <2>1. PICK r \in Read : ~ RecordFits(r)
    BY <1>6 DEF BadFraming
  <2>2. /\ UNCHANGED <<file, size, cursor, next, handled>> /\ phase' = "done"
        /\ fd' = FALSE /\ mapped' = FALSE
        /\ touched' = Higher(touched, cursor + 3) /\ cursor + 3 <= size
    BY <1>6 DEF BadFraming, Finish, HeaderFits, Header
  <2>3. touched' \in Nat /\ touched' <= size
    BY <1>1, <2>2 DEF Higher
  <2>4. TypeOK' /\ Passed'
    BY <1>1, <2>2, <2>3 DEF IInv, TypeOK, Passed, Whole, LaidOut
  <2>5. next <= Len(file) => ~ Whole(next)
    <3> SUFFICES ASSUME next <= Len(file) PROVE ~ Whole(next)
      OBVIOUS
    <3>1. AtRecord /\ cursor = file[next].at
      BY DEF IInv, Passed, AtRecord
    <3>2. r.len = file[next].len
      BY <1>1, <3>1, ReadFields
    <3> QED
      BY <2>1, <3>1, <3>2 DEF RecordFits, Whole
  <2>6. StoppedShort'
    BY <2>2, <2>5 DEF StoppedShort, Whole
  <2> QED
    BY <2>2, <2>3, <2>4, <2>6 DEF IInv
<1>7. CASE Handle
  <2>1. PICK r \in Read :
          /\ RecordFits(r) /\ r.type \in Handled /\ BodyFits(r.type)
          /\ touched' = Higher(touched, cursor + Header + Body[r.type])
          /\ handled' = IF AtRecord THEN handled \union {next} ELSE handled
          /\ Advance(r)
    BY <1>7 DEF Handle
  <2>2. UNCHANGED <<file, size, phase, fd, mapped>> /\ phase = "walking"
    BY <1>7 DEF Handle
  <2>3. Body[r.type] \in Nat
    BY <2>1, BodySizes DEF Handled
  <2>4. touched' \in Nat /\ touched' <= size
    BY <1>1, <2>1, <2>3 DEF Higher, BodyFits, Header
  <2>5. /\ cursor' \in Nat /\ next' \in 1 .. Len(file) + 1
        /\ handled' \subseteq 1 .. Len(file) /\ Passed'
    BY <2>1, <2>2, AdvanceKeepsPassed
  <2> QED
    BY <1>1, <2>2, <2>4, <2>5 DEF IInv, TypeOK, StoppedShort, LaidOut
<1>8. CASE Pass
  <2>1. PICK r \in Read :
          /\ RecordFits(r) /\ ~ (r.type \in Handled /\ BodyFits(r.type))
          /\ touched' = Higher(touched, cursor + Header)
          /\ Advance(r)
    BY <1>8 DEF Pass
  <2>2. /\ UNCHANGED <<file, size, phase, fd, mapped, handled>> /\ phase = "walking"
        /\ cursor + 3 <= size
    BY <1>8 DEF Pass, HeaderFits, Header
  <2>3. touched' \in Nat /\ touched' <= size
    BY <1>1, <2>1, <2>2 DEF Higher, Header
  <2>4. ~ (r.type \in Handled /\ Prefix + r.len >= Header + Body[r.type])
    <3> SUFFICES ASSUME r.type \in Handled, 2 + r.len >= 3 + Body[r.type]
                 PROVE  FALSE
      BY DEF Prefix, Header
    <3>1. Body[r.type] \in Nat
      BY BodySizes DEF Handled
    <3>0. r.len \in Nat
      BY <1>1, ReadFields
    <3>2. ~ BodyFits(r.type)
      BY <2>1
    <3>3. cursor + 2 + r.len <= size
      BY <2>1 DEF RecordFits, Prefix
    <3> QED
      BY <1>1, <3>0, <3>1, <3>2, <3>3 DEF BodyFits, Header
  <2>5. /\ cursor' \in Nat /\ next' \in 1 .. Len(file) + 1
        /\ handled' \subseteq 1 .. Len(file) /\ Passed'
    BY <2>1, <2>2, <2>4, AdvanceKeepsPassed
  <2> QED
    BY <1>1, <2>2, <2>3, <2>5 DEF IInv, TypeOK, StoppedShort, LaidOut
<1>9. CASE HandlerThrows
  <2>1. PICK r \in Read :
          /\ r.type \in Handled /\ BodyFits(r.type)
          /\ touched' = Higher(touched, cursor + Header + Body[r.type])
    BY <1>9 DEF HandlerThrows
  <2>2. UNCHANGED <<file, size, fd, mapped, cursor, next, handled>> /\ phase' = "aborted"
    BY <1>9 DEF HandlerThrows
  <2>3. Body[r.type] \in Nat
    BY <2>1, BodySizes DEF Handled
  <2>4. touched' \in Nat /\ touched' <= size
    BY <1>1, <2>1, <2>3 DEF Higher, BodyFits, Header
  <2> QED
    BY <1>1, <2>2, <2>4 DEF IInv, TypeOK, Passed, Whole, StoppedShort, LaidOut
<1>10. CASE TablesThrow
  <2>1. UNCHANGED <<file, size, fd, mapped, walk>> /\ phase' = "aborted"
    BY <1>10 DEF TablesThrow
  <2> QED
    BY <1>1, <2>1 DEF walk, IInv, TypeOK, Passed, Whole, StoppedShort, LaidOut
<1>11. CASE Stopped \/ UNCHANGED vars
  BY <1>11 DEF Stopped, vars, walk, IInv, TypeOK, Passed, Whole, StoppedShort, LaidOut
<1> QED
  BY <1>3, <1>4, <1>5, <1>6, <1>7, <1>8, <1>9, <1>10, <1>11 DEF Next, Loop

LEMMA Inductive == Spec => []IInv
BY InitHolds, StepHolds, PTL DEF Spec

-----------------------------------------------------------------------------
(* The variables of the loop keep their types, on any file.                *)
THEOREM TypeCorrect == Spec => []TypeOK
<1>1. IInv => TypeOK
  BY DEF IInv
<1> QED
  BY <1>1, Inductive, PTL

(* No length, type or truncation makes parse_itch_file read a header or a  *)
(* message struct past the end of the mapping.                             *)
THEOREM NoReadOutside == Spec => []ReadsStayInside
<1>1. IInv => ReadsStayInside
  BY DEF IInv, ReadsStayInside
<1> QED
  BY <1>1, Inductive, PTL

(* The cursor stands at the start of a record as long as there is one.     *)
THEOREM CursorStaysAligned == Spec => []StaysAligned
<1>1. IInv => StaysAligned
  BY DEF IInv, Passed, StaysAligned
<1> QED
  BY <1>1, Inductive, PTL

(* Every message that arrived whole, before the first one that did not, is *)
(* handled.                                                                *)
THEOREM WholeMessagesAreHandled == Spec => []WholeMessagesHandled
<1>1. IInv => WholeMessagesHandled
  <2> SUFFICES ASSUME IInv, phase = "done", NEW k \in DOMAIN file,
                      \A j \in 1 .. k : Whole(j), file[k].type \in Handled,
                      Prefix + file[k].len >= Header + Body[file[k].type]
               PROVE  k \in handled
    BY DEF WholeMessagesHandled
  <2>1. LaidOut(file) /\ next \in 1 .. Len(file) + 1
    BY DEF IInv, TypeOK
  <2>2. k \in 1 .. Len(file) /\ Len(file) \in Nat
    BY <2>1, RecordFields DEF LaidOut
  <2>3. k \in 1 .. next - 1
    <3> SUFFICES ASSUME next <= k PROVE FALSE
      BY <2>1, <2>2
    <3>1. next <= Len(file) /\ next \in 1 .. k
      BY <2>1, <2>2
    <3> QED
      BY <3>1 DEF IInv, StoppedShort
  <2> QED
    BY <2>3 DEF IInv, Passed
<1> QED
  BY <1>1, Inductive, PTL

-----------------------------------------------------------------------------
(* What is held, by phase.                                                 *)

LEMMA HoldingStep ==
  ASSUME HeldJustForWalk, [Next]_vars
  PROVE  HeldJustForWalk'
<1>1. CASE open
  BY <1>1 DEF HeldJustForWalk, open
<1>2. CASE mmap
  <2>1. phase = "open" /\ fd /\ ~ mapped
    BY <1>2 DEF mmap, HeldJustForWalk
  <2>2. CASE phase' = "walking" /\ mapped' = TRUE /\ fd' = fd
    BY <2>1, <2>2 DEF HeldJustForWalk
  <2>3. CASE phase' = "refused" /\ fd' = FALSE /\ mapped' = mapped
    BY <2>1, <2>3 DEF HeldJustForWalk
  <2> QED
    BY <1>2, <2>2, <2>3 DEF mmap, MapFails
<1>3. CASE OutOfData \/ BadFraming
  BY <1>3 DEF HeldJustForWalk, OutOfData, BadFraming, Finish
<1>4. CASE Handle \/ Pass
  BY <1>4 DEF HeldJustForWalk, Handle, Pass
<1>5. CASE TablesThrow \/ HandlerThrows
  BY <1>5 DEF HeldJustForWalk, TablesThrow, HandlerThrows
<1>6. CASE Stopped \/ UNCHANGED vars
  BY <1>6 DEF HeldJustForWalk, Stopped, vars
<1> QED
  BY <1>1, <1>2, <1>3, <1>4, <1>5, <1>6 DEF Next, Loop

(* A refusal before the walk and a return from it have released descriptor *)
(* and mapping, on each path by hand, and while the walk goes on both are  *)
(* held; an exception that leaves the walk, and only that, releases        *)
(* nothing (parse_itch_file).                                              *)
THEOREM HeldByPhase == Spec => []HeldJustForWalk
<1>1. Init => HeldJustForWalk
  BY DEF Init, HeldJustForWalk
<1>2. HeldJustForWalk /\ [Next]_vars => HeldJustForWalk'
  BY HoldingStep
<1> QED
  BY <1>1, <1>2, PTL DEF Spec
=============================================================================
