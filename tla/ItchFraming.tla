---------------------------- MODULE ItchFraming ----------------------------
(***************************************************************************)
(* The frame of parse_itch_file (src/ingestion/ItchParser.cpp): map the    *)
(* feed file, walk a cursor over its length-prefixed records, hand each    *)
(* message to its handler, unmap.  What the handlers do is ItchReplay.     *)
(*                                                                         *)
(* The file is a sequence of records as their writer laid them out; the    *)
(* mapping may end anywhere, inside a record or past the last one.  Where  *)
(* the cursor is at the start of a record it reads that record's length    *)
(* and type, and anywhere else it may read anything.                       *)
(*                                                                         *)
(* A definition named X_Word, just before X, is a plausible slip in X; it  *)
(* is used only to check that the properties notice it.                    *)
(***************************************************************************)
EXTENDS Integers, Sequences

CONSTANTS
  Files,     \* possible files: sequences of [at, type, len]
  Types,     \* message types
  Lengths,   \* values of packet_length
  MaxSize    \* bound of the model on the size of the mapping

Prefix == 2   \* sizeof(uint16_t), the length field
Header == 3   \* sizeof(ItchCommonHeader), the length and the type

(* sizeof of the struct of each handled type.                              *)
Body == [A |-> 35, F |-> 39, E |-> 30, C |-> 35, X |-> 22, D |-> 18, U |-> 34]
Handled == DOMAIN Body

(* Records follow one another without a gap.                               *)
LaidOut(f) ==
  /\ f \in Seq([at : Nat, type : Types, len : Lengths])
  /\ f # <<>> => f[1].at = 0
  /\ \A k \in 1 .. Len(f) - 1 : f[k + 1].at = f[k].at + Prefix + f[k].len

ASSUME FramingAssumption == Lengths \subseteq Nat /\ MaxSize \in Nat
ASSUME FilesAssumption == \A f \in Files : LaidOut(f)

VARIABLES
  file, size,   \* the feed, and how many bytes of it there are
  phase,        \* "closed", "open", "walking", "done", "refused", "aborted"
  fd, mapped,   \* the descriptor and the mapping are held
  cursor,
  touched,      \* the mapping has been read below this offset
  next,         \* number of the first record the cursor has not passed
  handled       \* numbers of the records whose handler ran

vars == <<file, size, phase, fd, mapped, cursor, touched, next, handled>>
walk == <<cursor, touched, next, handled>>

AtRecord == next <= Len(file) /\ cursor = file[next].at

(* What the header at the cursor may say.                                  *)
Read == IF AtRecord THEN {[type |-> file[next].type, len |-> file[next].len]}
        ELSE [type : Types, len : Lengths]

Higher(a, b) == IF a > b THEN a ELSE b

Init ==
  /\ file \in Files
  /\ size \in 0 .. MaxSize
  /\ phase = "closed"
  /\ fd = FALSE /\ mapped = FALSE
  /\ cursor = 0 /\ touched = 0 /\ next = 1 /\ handled = {}

-----------------------------------------------------------------------------
(* Opening and mapping the file.                                           *)

open ==
  /\ phase = "closed"
  /\ \/ phase' = "open" /\ fd' = TRUE
     \/ phase' = "refused" /\ UNCHANGED fd
  /\ UNCHANGED <<file, size, mapped, walk>>

MapFails_KeepsFd == phase' = "refused" /\ UNCHANGED <<fd, mapped>>
(* lseek or mmap fails: close and throw.                                   *)
MapFails == phase' = "refused" /\ fd' = FALSE /\ UNCHANGED mapped

(* A mapping of no bytes is an error (EINVAL), so an empty file is refused *)
(* here.                                                                   *)
mmap ==
  /\ phase = "open"
  /\ \/ size > 0 /\ phase' = "walking" /\ mapped' = TRUE /\ UNCHANGED fd
     \/ MapFails
  /\ UNCHANGED <<file, size, walk>>

(* The loop ends: munmap and close.                                        *)
Finish ==
  /\ phase' = "done" /\ fd' = FALSE /\ mapped' = FALSE
  /\ UNCHANGED <<file, size>>

-----------------------------------------------------------------------------
(* The loop.                                                               *)

HeaderFits_LengthOnly == cursor + Prefix <= size
HeaderFits == cursor + Header <= size

RecordFits(r) == r.len >= 1 /\ cursor + Prefix + r.len <= size

BodyFits_Strict(type) == size - (cursor + Header) > Body[type]
(* body_avail reaches to the end of the mapping, not of the record.        *)
BodyFits(type) == size - (cursor + Header) >= Body[type]

(* The loop condition fails, or the rest is too short for a header.        *)
OutOfData ==
  /\ phase = "walking"
  /\ cursor >= size \/ ~ HeaderFits
  /\ Finish
  /\ UNCHANGED walk

BadFraming ==
  /\ phase = "walking"
  /\ cursor < size /\ HeaderFits
  /\ \E r \in Read : ~ RecordFits(r)
  /\ touched' = Higher(touched, cursor + Header)
  /\ Finish
  /\ UNCHANGED <<cursor, next, handled>>

Advance_PayloadOnly(r) ==
  /\ cursor' = cursor + r.len
  /\ next' = IF AtRecord THEN next + 1 ELSE next
Advance_HandledOnly(r) ==
  IF r.type \in Handled
  THEN cursor' = cursor + Prefix + r.len /\ next' = IF AtRecord THEN next + 1 ELSE next
  ELSE UNCHANGED <<cursor, next>>
(* To the next record, whatever the type of this one.                      *)
Advance(r) ==
  /\ cursor' = cursor + Prefix + r.len
  /\ next' = IF AtRecord THEN next + 1 ELSE next

(* The struct of the message lies in the mapping: its handler reads it.    *)
Handle ==
  /\ phase = "walking"
  /\ cursor < size /\ HeaderFits
  /\ \E r \in Read :
       /\ RecordFits(r)
       /\ r.type \in Handled /\ BodyFits(r.type)
       /\ touched' = Higher(touched, cursor + Header + Body[r.type])
       /\ handled' = IF AtRecord THEN handled \union {next} ELSE handled
       /\ Advance(r)
  /\ UNCHANGED <<file, size, phase, fd, mapped>>

(* A type without a handler, or a struct that ends past the mapping.       *)
Pass ==
  /\ phase = "walking"
  /\ cursor < size /\ HeaderFits
  /\ \E r \in Read :
       /\ RecordFits(r)
       /\ ~ (r.type \in Handled /\ BodyFits(r.type))
       /\ touched' = Higher(touched, cursor + Header)
       /\ Advance(r)
  /\ UNCHANGED <<file, size, phase, fd, mapped, handled>>

(* An allocation fails.  The exception leaves the function, main does not  *)
(* catch it, and nothing is released: the table of books and the routing   *)
(* map before the first record ...                                         *)
TablesThrow ==
  /\ phase = "walking"
  /\ touched = 0
  /\ phase' = "aborted"
  /\ UNCHANGED <<file, size, fd, mapped, walk>>

(* ... and in a handler, which builds a book ('A' and 'F'), enters an      *)
(* order in the routing map or keeps the sample of its latency.            *)
HandlerThrows ==
  /\ phase = "walking"
  /\ cursor < size /\ HeaderFits
  /\ \E r \in Read :
       /\ RecordFits(r)
       /\ r.type \in Handled /\ BodyFits(r.type)
       /\ touched' = Higher(touched, cursor + Header + Body[r.type])
  /\ phase' = "aborted"
  /\ UNCHANGED <<file, size, fd, mapped, cursor, next, handled>>

Loop ==
  OutOfData \/ BadFraming \/ Handle \/ Pass \/ TablesThrow \/ HandlerThrows

Stopped == phase \in {"done", "refused", "aborted"} /\ UNCHANGED vars

Next == open \/ mmap \/ Loop \/ Stopped

(* One thread runs the function; no step of it waits for anything.         *)
Spec == Init /\ [][Next]_vars /\ WF_vars(open \/ mmap \/ Loop)

-----------------------------------------------------------------------------
TypeOK ==
  /\ LaidOut(file) /\ size \in Nat
  /\ phase \in {"closed", "open", "walking", "done", "refused", "aborted"}
  /\ fd \in BOOLEAN /\ mapped \in BOOLEAN
  /\ cursor \in Nat /\ touched \in Nat
  /\ next \in 1 .. Len(file) + 1 /\ handled \subseteq 1 .. Len(file)

(* README.md:235, "bounds-checked against the mapped region on every       *)
(* message": no length a file can hold makes a header or a message struct  *)
(* be read past the end of the mapping.                                    *)
ReadsStayInside == touched <= size

(* The cursor never loses the writer's records: until it has passed the    *)
(* last one it is always at the start of one, whatever was skipped.        *)
StaysAligned == next <= Len(file) => cursor = file[next].at

Whole(k) == file[k].len >= 1 /\ file[k].at + Prefix + file[k].len <= size

(* Every message that arrived whole is handled: a truncated or malformed   *)
(* record costs nothing of what precedes it, and the checks on the body    *)
(* never turn away a record that has room for its struct.                  *)
WholeMessagesHandled ==
  phase = "done" => \A k \in DOMAIN file :
    /\ \A j \in 1 .. k : Whole(j)
    /\ file[k].type \in Handled
    /\ Prefix + file[k].len >= Header + Body[file[k].type]
    => k \in handled

(* What is held is known by the phase alone.  A refusal and a return have  *)
(* released all that was acquired by then, by hand on each path; the walk  *)
(* holds both all along; an exception that leaves the walk releases        *)
(* neither (no owner in parse_itch_file would), which is no leak only      *)
(* because nothing catches it and the process ends.                        *)
HeldJustForWalk ==
  /\ fd <=> phase \in {"open", "walking", "aborted"}
  /\ mapped <=> phase \in {"walking", "aborted"}

(* The call ends, on any file.                                             *)
Returns == <>(phase \in {"done", "refused", "aborted"})

-----------------------------------------------------------------------------
(* README.md:237, "a truncated or malformed feed causes the parser to stop *)
(* cleanly": a record too short for its message is not handled as one.     *)
MalformedNotHandled ==
  \A k \in handled : Prefix + file[k].len >= Header + Body[file[k].type]
=============================================================================
