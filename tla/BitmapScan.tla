----------------------------- MODULE BitmapScan -----------------------------
(***************************************************************************)
(* The occupancy bitmap of one side of the book, word by word: the two     *)
(* scans find_prev_set_bit and find_next_set_bit of OrderBook.cpp, and the *)
(* bits that level_append and level_remove set and clear.                  *)
(*                                                                         *)
(* A word is the set of its bits that are 1, and a mask is one too: ~0     *)
(* shifted right by WordBits - 1 - b has the bits 0 .. b, shifted left by  *)
(* b the bits from b on; & is intersection, | is union, & ~ is difference. *)
(*                                                                         *)
(* A definition named X_Word, just before X, is a plausible slip in X; it  *)
(* is used only to check that the properties notice it.                    *)
(***************************************************************************)
EXTENDS Integers, FiniteSetsExt

CONSTANTS
  WordBits,   \* 64
  Band,       \* price_band
  NONE        \* UINT32_MAX

ASSUME BitmapAssumption ==
  WordBits \in Nat \ {0} /\ Band \in Nat \ {0} /\ NONE \notin Nat

Idx       == 0 .. Band - 1
last_word == (Band + WordBits - 1) \div WordBits - 1
Words     == 0 .. last_word
Bits      == 0 .. WordBits - 1
Word      == SUBSET Bits

VARIABLES
  bitmap,     \* word number -> word
  occupied,   \* what the bitmap stands for: indices of the occupied levels
  scan        \* the scan under way: [dir, start, word, bits], or its result

vars == <<bitmap, occupied, scan>>

(* w & (~0 >> (63 - bit)), w & (~0 << bit).                                *)
UpTo_Short(w, b) == w \intersect (0 .. b - 1)
UpTo(w, b) == w \intersect (0 .. b)
From(w, b) == w \intersect (b .. WordBits - 1)

(* 63 - clz(w) and ctz(w), of a word that is not 0.                        *)
Highest(w) == Max(w)
Lowest(w)  == Min(w)

Idle == [dir |-> "none"]

Init == bitmap = [n \in Words |-> {}] /\ occupied = {} /\ scan = Idle

-----------------------------------------------------------------------------
(* level_append into an empty level.                                       *)
SetBit(i) ==
  /\ scan = Idle /\ i \notin occupied
  /\ bitmap' = [bitmap EXCEPT ![i \div WordBits] = @ \union {i % WordBits}]
  /\ occupied' = occupied \union {i}
  /\ UNCHANGED scan

(* level_remove of the last order of a level.                              *)
ClearBit(i) ==
  /\ scan = Idle /\ i \in occupied
  /\ bitmap' = [bitmap EXCEPT ![i \div WordBits] = @ \ {i % WordBits}]
  /\ occupied' = occupied \ {i}
  /\ UNCHANGED scan

StartPrev(start) ==
  /\ scan = Idle
  /\ LET n == start \div WordBits
     IN  scan' = [dir |-> "prev", start |-> start, word |-> n,
                  bits |-> UpTo(bitmap[n], start % WordBits)]
  /\ UNCHANGED <<bitmap, occupied>>

StartNext(start) ==
  /\ scan = Idle
  /\ LET n == start \div WordBits
     IN  scan' = [dir |-> "next", start |-> start, word |-> n,
                  bits |-> From(bitmap[n], start % WordBits)]
  /\ UNCHANGED <<bitmap, occupied>>

Found(result) ==
  scan' = [dir |-> "done", of |-> scan.dir, start |-> scan.start, result |-> result]

GoOn(n) == scan' = [scan EXCEPT !.word = n, !.bits = bitmap[n]]

StepPrev ==
  /\ scan.dir = "prev"
  /\ \/ scan.bits # {} /\ Found(scan.word * WordBits + Highest(scan.bits))
     \/ scan.bits = {} /\ scan.word = 0 /\ Found(NONE)
     \/ scan.bits = {} /\ scan.word > 0 /\ GoOn(scan.word - 1)
  /\ UNCHANGED <<bitmap, occupied>>

StepNext ==
  /\ scan.dir = "next"
  /\ \/ scan.bits # {} /\ Found(scan.word * WordBits + Lowest(scan.bits))
     \/ scan.bits = {} /\ scan.word = last_word /\ Found(NONE)
     \/ scan.bits = {} /\ scan.word # last_word /\ GoOn(scan.word + 1)
  /\ UNCHANGED <<bitmap, occupied>>

Return == scan.dir = "done" /\ scan' = Idle /\ UNCHANGED <<bitmap, occupied>>

Next ==
  \/ \E i \in Idx : SetBit(i) \/ ClearBit(i) \/ StartPrev(i) \/ StartNext(i)
  \/ StepPrev \/ StepNext \/ Return

Spec == Init /\ [][Next]_vars

-----------------------------------------------------------------------------
(* A scan returns the nearest occupied level at or below (at or above) its *)
(* start, also across words and at either edge of one, and NONE just when  *)
(* there is none, through any history of levels filling and emptying: this *)
(* is how OrderBook may take extrema of a set.  It reads no word that is   *)
(* not there: StepNext stops at last_word, StepPrev at word 0.             *)
ScanExact ==
  /\ scan.dir = "done" =>
       LET side == {i \in occupied : IF scan.of = "prev" THEN i <= scan.start
                                                         ELSE i >= scan.start}
       IN  scan.result = IF side = {} THEN NONE
                         ELSE IF scan.of = "prev" THEN Max(side) ELSE Min(side)
  /\ scan.dir \in {"prev", "next"} => scan.word \in Words
=============================================================================
