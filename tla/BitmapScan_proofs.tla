------------------------- MODULE BitmapScan_proofs --------------------------
(***************************************************************************)
(* The two word scans return the nearest occupied level for every width of *)
(* a word and every band.                                                  *)
(*                                                                         *)
(* A level is bit b of word n.  The words mirror the occupied levels, and  *)
(* a scan under way has in its bits what counts of its word, with nothing  *)
(* that counts between its start and that word.                            *)
(***************************************************************************)
EXTENDS BitmapScan, WellFoundedInduction, TLAPS

At(n, b) == n * WordBits + b

-----------------------------------------------------------------------------
(* Levels as bits of words.                                                *)

LEMMA AtType ==
  ASSUME NEW n \in Nat, NEW b \in Bits
  PROVE  At(n, b) \in Nat
<1>1. WordBits \in Nat /\ b \in Nat
  BY BitmapAssumption DEF Bits
<1>2. n * WordBits \in Nat
  BY <1>1
<1> QED
  BY <1>1, <1>2 DEF At

LEMMA LaterWordIsAbove ==
  ASSUME NEW n \in Nat, NEW m \in Nat, n < m, NEW b \in Bits, NEW c \in Bits
  PROVE  At(n, b) < At(m, c)
<1>1. WordBits \in Nat /\ b \in Nat /\ c \in Nat /\ b < WordBits
  BY BitmapAssumption DEF Bits
<1>2. PICK d \in Nat : m = n + 1 + d
  <2>1. m - n - 1 \in Nat /\ m = n + 1 + (m - n - 1)
    OBVIOUS
  <2> QED
    BY <2>1
<1>3. m * WordBits = n * WordBits + WordBits + d * WordBits
  BY <1>1, <1>2
<1>4. d * WordBits \in Nat /\ n * WordBits \in Nat /\ m * WordBits \in Nat
  BY <1>1
<1> QED
  BY <1>1, <1>3, <1>4 DEF At

LEMMA BitOfLevel ==
  ASSUME NEW i \in Nat
  PROVE  i \div WordBits \in Nat /\ i % WordBits \in Bits
         /\ i = At(i \div WordBits, i % WordBits)
<1>1. WordBits \in Nat /\ WordBits > 0
  BY BitmapAssumption
<1>2. i % WordBits \in 0 .. WordBits - 1 /\ i \div WordBits \in Nat
  BY <1>1
<1>3. i = WordBits * (i \div WordBits) + (i % WordBits)
  BY <1>1
<1>4. WordBits * (i \div WordBits) = (i \div WordBits) * WordBits
  BY <1>1, <1>2
<1> QED
  BY <1>2, <1>3, <1>4 DEF At, Bits

LEMMA BitIsUnique ==
  ASSUME NEW n \in Nat, NEW m \in Nat, NEW b \in Bits, NEW c \in Bits,
         At(n, b) = At(m, c)
  PROVE  n = m /\ b = c
<1>1. ~ (n < m) /\ ~ (m < n)
  BY LaterWordIsAbove, AtType
<1>2. n = m
  BY <1>1
<1>3. WordBits \in Nat /\ b \in Nat /\ c \in Nat /\ n * WordBits \in Nat
  BY BitmapAssumption DEF Bits
<1> QED
  BY <1>2, <1>3 DEF At

LEMMA WordsCoverTheBand ==
  /\ last_word \in Nat
  /\ \A i \in Idx : i \div WordBits \in Words
<1>1. WordBits \in Nat /\ WordBits > 0 /\ Band \in Nat /\ Band > 0
  BY BitmapAssumption
<1> DEFINE k == (Band + WordBits - 1) \div WordBits
           r == (Band + WordBits - 1) % WordBits
<1>2. Band + WordBits - 1 \in Nat
  BY <1>1
<1>3. k \in Nat /\ r \in 0 .. WordBits - 1 /\ Band + WordBits - 1 = At(k, r)
  <2> DEFINE j == Band + WordBits - 1
  <2>1. j \in Nat
    BY <1>2
  <2>2. j \div WordBits \in Nat /\ j % WordBits \in Bits
        /\ j = At(j \div WordBits, j % WordBits)
    <3> HIDE DEF j
    <3> QED
      BY <2>1, BitOfLevel
  <2> QED
    BY <2>2 DEF Bits
<1>4. last_word = k - 1
  BY DEF last_word
<1> HIDE DEF k, r
<1>5. r \in Bits
  BY <1>3 DEF Bits
<1>6. ASSUME NEW i \in Idx
      PROVE  i \div WordBits < k
  <2>1. i \in Nat /\ i < Band
    BY <1>1 DEF Idx
  <2> DEFINE n == i \div WordBits
             b == i % WordBits
  <2>2. n \in Nat /\ b \in Bits /\ i = At(n, b)
    BY <2>1, BitOfLevel
  <2> HIDE DEF n, b
  <2>3. ASSUME k <= n PROVE FALSE
    <3>1. At(k, 0) <= At(n, 0)
      <4>1. 0 \in Bits
        BY <1>1 DEF Bits
      <4>2. CASE k = n
        BY <4>2, <4>1, <1>3, AtType
      <4>3. CASE k # n
        <5>1. k < n
          BY <4>3, <2>3, <2>2, <1>3
        <5>2. At(k, 0) < At(n, 0)
          BY <5>1, <4>1, <2>2, <1>3, LaterWordIsAbove
        <5> QED
          BY <5>2, <4>1, <2>2, <1>3, AtType
      <4> QED
        BY <4>2, <4>3
    <3>2. k * WordBits \in Nat /\ n * WordBits \in Nat /\ b \in Nat
      BY <1>1, <1>3, <2>2 DEF Bits
    <3> QED
      BY <3>1, <3>2, <2>1, <2>2, <1>1, <1>3 DEF At
  <2>4. n < k
    BY <2>3, <2>2, <1>3
  <2> QED
    BY <2>4 DEF n
<1>7. 0 \in Idx
  BY <1>1 DEF Idx
<1>8. k > 0
  BY <1>6, <1>7, <1>3, BitOfLevel
<1>9. last_word \in Nat
  BY <1>8, <1>3, <1>4
<1>10. ASSUME NEW i \in Idx PROVE i \div WordBits \in Words
  <2>1. i \in Nat
    BY <1>1 DEF Idx
  <2>2. i \div WordBits \in Nat
    BY <2>1, BitOfLevel
  <2> QED
    BY <2>2, <1>6, <1>3, <1>4 DEF Words
<1> QED
  BY <1>9, <1>10

LEMMA BitOfIndex ==
  ASSUME NEW i \in Idx
  PROVE  /\ i \in Nat
         /\ i \div WordBits \in Words /\ i % WordBits \in Bits
         /\ i = At(i \div WordBits, i % WordBits)
<1>1. i \in Nat
  BY BitmapAssumption DEF Idx
<1> QED
  BY <1>1, BitOfLevel, WordsCoverTheBand

-----------------------------------------------------------------------------
(* Extrema.                                                                *)

LEMMA MinOfNaturals ==
  ASSUME NEW T \in SUBSET Nat, T # {}
  PROVE  Min(T) \in T /\ \A y \in T : Min(T) <= y
<1>1. PICK x \in T : \A y \in T : ~ (<<y, x>> \in OpToRel(<, Nat))
  BY NatLessThanWellFounded, WFMin
<1>2. ASSUME NEW y \in T PROVE x <= y
  <2>1. y \in Nat /\ x \in Nat
    OBVIOUS
  <2>2. SUFFICES ASSUME y < x PROVE FALSE
    BY <2>1
  <2>3. <<y, x>> \in {ss \in Nat \X Nat : ss[1] < ss[2]}
    BY <2>1, <2>2
  <2>4. {ss \in Nat \X Nat : ss[1] < ss[2]} = OpToRel(<, Nat)
    BY DEF OpToRel
  <2> QED
    BY <2>3, <2>4, <1>1
<1> QED
  BY <1>2 DEF Min

LEMMA MaxOfIndices ==
  ASSUME NEW n \in Nat, NEW T \in SUBSET (0 .. n), T # {}
  PROVE  Max(T) \in T /\ \A y \in T : y <= Max(T)
<1> DEFINE M == {n - y : y \in T}
<1>1. M \in SUBSET Nat /\ M # {}
  <2>1. \A y \in T : y \in 0 .. n
    OBVIOUS
  <2>2. \A y \in T : n - y \in Nat
    BY <2>1
  <2> QED
    BY <2>2
<1>2. PICK x \in T : Min(M) = n - x
  BY <1>1, MinOfNaturals
<1>3. \A y \in T : n - x <= n - y
  BY <1>1, <1>2, MinOfNaturals
<1>4. \A y \in T : x >= y
  BY <1>3
<1> QED
  BY <1>4 DEF Max

LEMMA ExtremumIs ==
  ASSUME NEW S \in SUBSET Nat, NEW r \in S
  PROVE  /\ (\A y \in S : y <= r) => Max(S) = r
         /\ (\A y \in S : r <= y) => Min(S) = r
<1>1. ASSUME \A y \in S : y <= r PROVE Max(S) = r
  <2>1. \A y \in S : r >= y
    BY <1>1
  <2>2. Max(S) \in S /\ \A y \in S : Max(S) >= y
    BY <2>1 DEF Max
  <2>3. Max(S) <= r /\ Max(S) >= r /\ Max(S) \in Nat /\ r \in Nat
    BY <2>2, <1>1
  <2> QED
    BY <2>3
<1>2. ASSUME \A y \in S : r <= y PROVE Min(S) = r
  <2>2. Min(S) \in S /\ \A y \in S : Min(S) <= y
    BY <1>2 DEF Min
  <2>3. Min(S) <= r /\ Min(S) >= r /\ Min(S) \in Nat /\ r \in Nat
    BY <2>2, <1>2
  <2> QED
    BY <2>3
<1> QED
  BY <1>1, <1>2
-----------------------------------------------------------------------------
(* The inductive invariant.                                                *)

Counts(i) == i \in occupied /\ IF scan.dir = "prev" THEN i <= scan.start
                                                    ELSE i >= scan.start

(* The words are a mirror of the occupied levels.                          *)
Mirror ==
  /\ occupied \in SUBSET Idx
  /\ bitmap \in [Words -> Word]
  /\ \A n \in Words, b \in Bits : b \in bitmap[n] <=> At(n, b) \in occupied

(* The bits of a scan under way are those that count of its word.          *)
Scanning ==
  /\ scan = [dir |-> scan.dir, start |-> scan.start, word |-> scan.word, bits |-> scan.bits]
  /\ scan.start \in Idx /\ scan.word \in Words /\ scan.bits \in Word
  /\ \A b \in Bits : b \in scan.bits <=> Counts(At(scan.word, b))

(* What was passed had nothing that counts.                                *)
Downward ==
  /\ scan.word <= scan.start \div WordBits
  /\ \A i \in occupied : i <= scan.start => i \div WordBits <= scan.word

Upward ==
  /\ scan.word >= scan.start \div WordBits
  /\ \A i \in occupied : i >= scan.start => i \div WordBits >= scan.word

Side(of, start) ==
  {i \in occupied : IF of = "prev" THEN i <= start ELSE i >= start}

Answered ==
  scan.result = IF Side(scan.of, scan.start) = {} THEN NONE
                ELSE IF scan.of = "prev" THEN Max(Side(scan.of, scan.start))
                                         ELSE Min(Side(scan.of, scan.start))

BInv ==
  /\ Mirror
  /\ scan.dir \in {"none", "prev", "next", "done"}
  /\ scan.dir = "prev" => Scanning /\ Downward
  /\ scan.dir = "next" => Scanning /\ Upward
  /\ scan.dir = "done" => Answered

LEMMA InitEstablishes == Init => BInv
<1> SUFFICES ASSUME Init PROVE BInv
  OBVIOUS
<1>1. Mirror
  BY DEF Init, Mirror, Word
<1>2. scan.dir = "none"
  BY DEF Init, Idle
<1> QED
  BY <1>1, <1>2 DEF BInv

(* A bit of a word and the level it stands for change together.            *)
LEMMA SetBitKeeps ==
  ASSUME BInv, NEW i \in Idx, SetBit(i) \/ ClearBit(i)
  PROVE  BInv'
<1> DEFINE n == i \div WordBits
           b == i % WordBits
<1>1. i \in Nat /\ n \in Words /\ b \in Bits /\ i = At(n, b)
  BY BitOfIndex
<1> HIDE DEF n, b
<1>2. scan' = Idle /\ scan'.dir = "none"
  BY DEF SetBit, ClearBit, Idle
<1>3. Words \in SUBSET Nat
  BY DEF Words
<1>4. occupied' \in SUBSET Idx
  BY DEF BInv, Mirror, SetBit, ClearBit
<1>5. \A m \in Words, c \in Bits : At(m, c) = i <=> m = n /\ c = b
  BY <1>1, <1>3, BitIsUnique
<1>6. CASE SetBit(i)
  <2>1. bitmap' = [bitmap EXCEPT ![n] = bitmap[n] \union {b}]
    BY <1>6 DEF SetBit, n, b
  <2>2. bitmap' \in [Words -> Word]
    BY <2>1, <1>1 DEF BInv, Mirror, Word
  <2>3. occupied' = occupied \union {i}
    BY <1>6 DEF SetBit
  <2>4. ASSUME NEW m \in Words, NEW c \in Bits
        PROVE  c \in bitmap'[m] <=> At(m, c) \in occupied'
    <3>1. c \in bitmap[m] <=> At(m, c) \in occupied
      BY DEF BInv, Mirror
    <3>2. c \in bitmap'[m] <=> c \in bitmap[m] \/ (m = n /\ c = b)
      BY <2>1, <1>1 DEF BInv, Mirror
    <3> QED
      BY <3>1, <3>2, <2>3, <1>5
  <2> QED
    BY <2>2, <2>4, <1>2, <1>4 DEF BInv, Mirror
<1>7. CASE ClearBit(i)
  <2>1. bitmap' = [bitmap EXCEPT ![n] = bitmap[n] \ {b}]
    BY <1>7 DEF ClearBit, n, b
  <2>2. bitmap' \in [Words -> Word]
    BY <2>1, <1>1 DEF BInv, Mirror, Word
  <2>3. occupied' = occupied \ {i}
    BY <1>7 DEF ClearBit
  <2>4. ASSUME NEW m \in Words, NEW c \in Bits
        PROVE  c \in bitmap'[m] <=> At(m, c) \in occupied'
    <3>1. c \in bitmap[m] <=> At(m, c) \in occupied
      BY DEF BInv, Mirror
    <3>2. c \in bitmap'[m] <=> c \in bitmap[m] /\ ~ (m = n /\ c = b)
      BY <2>1, <1>1 DEF BInv, Mirror
    <3> QED
      BY <3>1, <3>2, <2>3, <1>5
  <2> QED
    BY <2>2, <2>4, <1>2, <1>4 DEF BInv, Mirror
<1> QED
  BY <1>6, <1>7

(* In one word, levels are ordered as their bits are.                      *)
LEMMA BitsOrderLevels ==
  ASSUME NEW n \in Nat, NEW b \in Bits, NEW c \in Bits
  PROVE  /\ At(n, b) <= At(n, c) <=> b <= c
         /\ At(n, b) >= At(n, c) <=> b >= c
<1>1. b \in Nat /\ c \in Nat /\ WordBits \in Nat
  BY BitmapAssumption DEF Bits
<1>2. n * WordBits \in Nat
  BY <1>1
<1> QED
  BY <1>1, <1>2 DEF At

(* The masks keep what is at or below, at or above, the start.             *)
LEMMA StartKeeps ==
  ASSUME BInv, NEW start \in Idx, StartPrev(start) \/ StartNext(start)
  PROVE  BInv'
<1> DEFINE n == start \div WordBits
           b == start % WordBits
<1>1. start \in Nat /\ n \in Words /\ b \in Bits /\ start = At(n, b)
  BY BitOfIndex
<1>2. n \in Nat
  BY <1>1 DEF Words
<1>3. Mirror' /\ Mirror /\ occupied' = occupied
  BY DEF BInv, Mirror, StartPrev, StartNext
<1>4. \A i \in occupied : i \in Nat /\ i \div WordBits \in Nat
                          /\ i % WordBits \in Bits
                          /\ i = At(i \div WordBits, i % WordBits)
  BY <1>3, BitOfIndex DEF Mirror, Words
<1>5. bitmap[n] \in SUBSET Bits /\ \A c \in Bits : c \in bitmap[n] <=> At(n, c) \in occupied
  BY <1>1, <1>3 DEF Mirror, Word
<1>6. \A c \in Bits : c \in Nat /\ c <= WordBits - 1 /\ WordBits \in Nat
  BY BitmapAssumption DEF Bits
<1>7. CASE StartPrev(start)
  <2>1. scan' = [dir |-> "prev", start |-> start, word |-> n, bits |-> UpTo(bitmap[n], b)]
    BY <1>7 DEF StartPrev
  <2>2. \A c \in Bits : c \in UpTo(bitmap[n], b) <=> At(n, c) \in occupied /\ c <= b
    BY <1>1, <1>5, <1>6 DEF UpTo
  <2>3. \A c \in Bits : c \in UpTo(bitmap[n], b) <=> At(n, c) \in occupied /\ At(n, c) <= start
    BY <2>2, <1>1, <1>2, BitsOrderLevels
  <2>4. UpTo(bitmap[n], b) \in Word
    BY <1>5 DEF UpTo, Word
  <2>5. Scanning'
    <3> HIDE DEF n, b
    <3> QED
      BY <2>1, <2>3, <2>4, <1>1, <1>3 DEF Scanning, Counts
  <2>6. Downward'
    <3>1. ASSUME NEW i \in occupied, i <= start PROVE i \div WordBits <= n
      <4>1. ~ (n < i \div WordBits)
        BY <3>1, <1>1, <1>2, <1>4, LaterWordIsAbove, AtType
      <4> QED
        BY <4>1, <1>2, <1>4
    <3>2. scan'.start = start /\ scan'.word = n /\ n <= n
      BY <2>1, <1>2
    <3> QED
      BY <3>1, <3>2, <1>3 DEF Downward
  <2> QED
    BY <2>1, <2>5, <2>6, <1>3 DEF BInv
<1>8. CASE StartNext(start)
  <2>1. scan' = [dir |-> "next", start |-> start, word |-> n, bits |-> From(bitmap[n], b)]
    BY <1>8 DEF StartNext
  <2>2. \A c \in Bits : c \in From(bitmap[n], b) <=> At(n, c) \in occupied /\ c >= b
    BY <1>1, <1>5, <1>6 DEF From
  <2>3. \A c \in Bits : c \in From(bitmap[n], b) <=> At(n, c) \in occupied /\ At(n, c) >= start
    BY <2>2, <1>1, <1>2, BitsOrderLevels
  <2>4. From(bitmap[n], b) \in Word
    BY <1>5 DEF From, Word
  <2>5. Scanning'
    <3> HIDE DEF n, b
    <3> QED
      BY <2>1, <2>3, <2>4, <1>1, <1>3 DEF Scanning, Counts
  <2>6. Upward'
    <3>1. ASSUME NEW i \in occupied, i >= start PROVE i \div WordBits >= n
      <4>1. ~ (i \div WordBits < n)
        BY <3>1, <1>1, <1>2, <1>4, LaterWordIsAbove, AtType
      <4> QED
        BY <4>1, <1>2, <1>4
    <3>2. scan'.start = start /\ scan'.word = n /\ n >= n
      BY <2>1, <1>2
    <3> QED
      BY <3>1, <3>2, <1>3 DEF Upward
  <2> QED
    BY <2>1, <2>5, <2>6, <1>3 DEF BInv
<1> QED
  BY <1>7, <1>8

LEMMA LevelsAreBits ==
  ASSUME Mirror, NEW i \in occupied
  PROVE  /\ i \in Nat
         /\ i \div WordBits \in Words /\ i \div WordBits \in Nat
         /\ i % WordBits \in Bits
         /\ i = At(i \div WordBits, i % WordBits)
<1>1. i \in Idx
  BY DEF Mirror
<1> QED
  BY <1>1, BitOfIndex DEF Words

LEMMA BitExtremum ==
  ASSUME NEW w \in Word, w # {}
  PROVE  /\ Highest(w) \in w /\ \A c \in w : c <= Highest(w)
         /\ Lowest(w) \in w /\ \A c \in w : Lowest(w) <= c
<1>1. WordBits - 1 \in Nat /\ w \in SUBSET (0 .. WordBits - 1)
  BY BitmapAssumption DEF Word, Bits
<1>2. w \in SUBSET Nat
  BY <1>1
<1> QED
  BY <1>1, <1>2, MaxOfIndices, MinOfNaturals DEF Highest, Lowest

LEMMA PrevStepKeeps ==
  ASSUME BInv, StepPrev
  PROVE  BInv'
<1>1. Mirror /\ Scanning /\ Downward /\ scan.dir = "prev"
  BY DEF BInv, StepPrev
<1>2. Mirror' /\ occupied' = occupied /\ bitmap' = bitmap
  BY <1>1 DEF StepPrev, Mirror
<1> DEFINE n == scan.word
           s == scan.start
<1>3. n \in Words /\ n \in Nat /\ s \in Nat /\ scan.bits \in Word /\ scan.bits \in SUBSET Bits
  BY <1>1, BitOfIndex DEF Scanning, Words, Word
<1>4. \A b \in Bits : b \in scan.bits <=> At(n, b) \in occupied /\ At(n, b) <= s
  BY <1>1 DEF Scanning, Counts
<1>5. \A i \in occupied : i <= s => i \div WordBits <= n
  BY <1>1 DEF Downward
<1> DEFINE side == Side("prev", s)
<1>6. side = {i \in occupied : i <= s}
  BY DEF Side
<1>7. side \in SUBSET Nat
  BY <1>1, <1>6, LevelsAreBits
<1>8. ASSUME NEW i \in side, i \div WordBits = n
      PROVE  i % WordBits \in scan.bits /\ i = At(n, i % WordBits)
  BY <1>1, <1>4, <1>6, <1>8, LevelsAreBits
<1>9. CASE scan.bits # {} /\ Found(scan.word * WordBits + Highest(scan.bits))
  <2> DEFINE h == Highest(scan.bits)
             r == At(n, h)
  <2>1. h \in scan.bits /\ h \in Bits /\ \A c \in scan.bits : c <= h
    BY <1>3, <1>9, BitExtremum
  <2>2. scan' = [dir |-> "done", of |-> "prev", start |-> s, result |-> r]
    BY <1>1, <1>9 DEF Found, At
  <2> HIDE DEF h
  <2>3. r \in side
    BY <2>1, <1>4, <1>6
  <2>4. ASSUME NEW i \in side PROVE i <= r
    <3> DEFINE m == i \div WordBits
               c == i % WordBits
    <3>1. i \in occupied /\ i <= s
      BY <1>6
    <3>2. m \in Nat /\ c \in Bits /\ i = At(m, c) /\ m <= n
      BY <1>1, <1>5, <3>1, LevelsAreBits
    <3>3. CASE m = n
      BY <3>3, <3>2, <1>8, <1>3, <2>1, BitsOrderLevels
    <3>4. CASE m # n
      <4> HIDE DEF m, c
      <4>1. m < n
        BY <3>4, <3>2, <1>3
      <4>2. At(m, c) < At(n, h)
        BY <4>1, <3>2, <2>1, <1>3, LaterWordIsAbove
      <4> QED
        BY <4>2, <3>2, <2>1, <1>3, AtType
    <3> QED
      BY <3>3, <3>4
  <2>5. Max(side) = r
    BY <2>3, <2>4, <1>7, ExtremumIs
  <2>6. scan'.result = IF side = {} THEN NONE ELSE Max(side)
    BY <2>2, <2>3, <2>5
  <2>7. Answered'
    <3> HIDE DEF n, s
    <3>1. Side("prev", s)' = Side("prev", s)'
      OBVIOUS
    <3> QED
      BY <2>6, <2>2, <1>2 DEF Answered, Side
  <2> QED
    BY <2>2, <2>7, <1>2 DEF BInv
<1>10. CASE scan.bits = {} /\ scan.word = 0 /\ Found(NONE)
  <2>1. scan' = [dir |-> "done", of |-> "prev", start |-> s, result |-> NONE]
    BY <1>1, <1>10 DEF Found
  <2>2. ASSUME NEW i \in side PROVE FALSE
    <3>1. i \in occupied /\ i <= s
      BY <1>6
    <3>2. i \div WordBits \in Nat /\ i \div WordBits <= n
      BY <1>1, <1>5, <3>1, LevelsAreBits
    <3>3. i \div WordBits = n
      BY <3>2, <1>10
    <3> QED
      BY <3>3, <1>8, <1>10
  <2>3. side = {}
    BY <2>2
  <2>4. Answered'
    <3> HIDE DEF n, s
    <3> QED
      BY <2>1, <2>3, <1>2 DEF Answered, Side
  <2> QED
    BY <2>1, <2>4, <1>2 DEF BInv
<1>11. CASE scan.bits = {} /\ scan.word > 0 /\ GoOn(scan.word - 1)
  <2> DEFINE p == n - 1
  <2>1. p \in Words /\ p \in Nat /\ p < n /\ s \in Idx
    BY <1>1, <1>3, <1>11, WordsCoverTheBand DEF Words, Scanning
  <2>2. scan' = [dir |-> "prev", start |-> s, word |-> p, bits |-> bitmap[p]]
    BY <1>1, <1>11 DEF GoOn, Scanning
  <2>3. bitmap[p] \in Word /\ \A b \in Bits : b \in bitmap[p] <=> At(p, b) \in occupied
    BY <1>1, <2>1 DEF Mirror
  <2>4. n <= s \div WordBits
    BY <1>1 DEF Downward
  <2>5. s \div WordBits \in Nat /\ s % WordBits \in Bits
        /\ s = At(s \div WordBits, s % WordBits)
    BY <1>3, BitOfLevel
  <2>6. ASSUME NEW b \in Bits PROVE At(p, b) <= s
    <3> DEFINE m == s \div WordBits
               c == s % WordBits
    <3>1. m \in Nat /\ c \in Bits /\ s = At(m, c) /\ p < m
      BY <2>1, <2>4, <2>5, <1>3
    <3> HIDE DEF m, c, p, s
    <3>2. At(p, b) < At(m, c)
      BY <3>1, <2>1, LaterWordIsAbove
    <3> QED
      BY <3>1, <3>2, <2>1, AtType
  <2>7. Scanning'
    <3>1. \A b \in Bits : b \in bitmap[p] <=> At(p, b) \in occupied /\ At(p, b) <= s
      BY <2>3, <2>6
    <3> HIDE DEF n, s, p
    <3> QED
      BY <2>1, <2>2, <2>3, <3>1, <1>2 DEF Scanning, Counts
  <2>8. Downward'
    <3>1. ASSUME NEW i \in occupied, i <= s PROVE i \div WordBits <= p
      <4>1. i \div WordBits \in Nat /\ i \div WordBits <= n
        BY <1>1, <1>5, <3>1, LevelsAreBits
      <4>2. i \in side
        BY <1>6, <3>1
      <4>3. i \div WordBits # n
        BY <4>2, <1>8, <1>11
      <4> QED
        BY <4>1, <4>3, <1>3
    <3>2. p <= s \div WordBits
      BY <2>4, <2>5, <1>3
    <3> HIDE DEF n, s, p
    <3> QED
      BY <3>1, <3>2, <2>2, <1>2 DEF Downward
  <2> QED
    BY <2>2, <2>7, <2>8, <1>2 DEF BInv
<1> QED
  BY <1>9, <1>10, <1>11 DEF StepPrev

LEMMA NextStepKeeps ==
  ASSUME BInv, StepNext
  PROVE  BInv'
<1>1. Mirror /\ Scanning /\ Upward /\ scan.dir = "next"
  BY DEF BInv, StepNext
<1>2. Mirror' /\ occupied' = occupied /\ bitmap' = bitmap
  BY <1>1 DEF StepNext, Mirror
<1> DEFINE n == scan.word
           s == scan.start
<1>3. n \in Words /\ n \in Nat /\ s \in Nat /\ scan.bits \in Word /\ scan.bits \in SUBSET Bits
  BY <1>1, BitOfIndex DEF Scanning, Words, Word
<1>4. \A b \in Bits : b \in scan.bits <=> At(n, b) \in occupied /\ At(n, b) >= s
  BY <1>1 DEF Scanning, Counts
<1>5. \A i \in occupied : i >= s => i \div WordBits >= n
  BY <1>1 DEF Upward
<1> DEFINE side == Side("next", s)
<1>6. side = {i \in occupied : i >= s}
  BY DEF Side
<1>7. side \in SUBSET Nat
  BY <1>1, <1>6, LevelsAreBits
<1>8. ASSUME NEW i \in side, i \div WordBits = n
      PROVE  i % WordBits \in scan.bits /\ i = At(n, i % WordBits)
  BY <1>1, <1>4, <1>6, <1>8, LevelsAreBits
<1>9. CASE scan.bits # {} /\ Found(scan.word * WordBits + Lowest(scan.bits))
  <2> DEFINE h == Lowest(scan.bits)
             r == At(n, h)
  <2>1. h \in scan.bits /\ h \in Bits /\ \A c \in scan.bits : h <= c
    BY <1>3, <1>9, BitExtremum
  <2>2. scan' = [dir |-> "done", of |-> "next", start |-> s, result |-> r]
    BY <1>1, <1>9 DEF Found, At
  <2> HIDE DEF h
  <2>3. r \in side
    BY <2>1, <1>4, <1>6
  <2>4. ASSUME NEW i \in side PROVE r <= i
    <3> DEFINE m == i \div WordBits
               c == i % WordBits
    <3>1. i \in occupied /\ i >= s
      BY <1>6
    <3>2. m \in Nat /\ c \in Bits /\ i = At(m, c) /\ n <= m
      BY <1>1, <1>5, <3>1, LevelsAreBits
    <3>3. CASE m = n
      BY <3>3, <3>2, <1>8, <1>3, <2>1, BitsOrderLevels
    <3>4. CASE m # n
      <4> HIDE DEF m, c
      <4>1. n < m
        BY <3>4, <3>2, <1>3
      <4>2. At(n, h) < At(m, c)
        BY <4>1, <3>2, <2>1, <1>3, LaterWordIsAbove
      <4> QED
        BY <4>2, <3>2, <2>1, <1>3, AtType
    <3> QED
      BY <3>3, <3>4
  <2>5. Min(side) = r
    BY <2>3, <2>4, <1>7, ExtremumIs
  <2>6. scan'.result = IF side = {} THEN NONE ELSE Min(side)
    BY <2>2, <2>3, <2>5
  <2>7. Answered'
    <3> HIDE DEF n, s
    <3>1. Side("next", s)' = Side("next", s)'
      OBVIOUS
    <3> QED
      BY <2>6, <2>2, <1>2 DEF Answered, Side
  <2> QED
    BY <2>2, <2>7, <1>2 DEF BInv
<1>10. CASE scan.bits = {} /\ scan.word = last_word /\ Found(NONE)
  <2>1. scan' = [dir |-> "done", of |-> "next", start |-> s, result |-> NONE]
    BY <1>1, <1>10 DEF Found
  <2>2. ASSUME NEW i \in side PROVE FALSE
    <3>1. i \in occupied /\ i >= s
      BY <1>6
    <3>2. i \div WordBits \in Words /\ i \div WordBits >= n
      BY <1>1, <1>5, <3>1, LevelsAreBits
    <3>3. i \div WordBits = n
      BY <3>2, <1>10, WordsCoverTheBand DEF Words
    <3> QED
      BY <3>3, <1>8, <1>10
  <2>3. side = {}
    BY <2>2
  <2>4. Answered'
    <3> HIDE DEF n, s
    <3> QED
      BY <2>1, <2>3, <1>2 DEF Answered, Side
  <2> QED
    BY <2>1, <2>4, <1>2 DEF BInv
<1>11. CASE scan.bits = {} /\ scan.word # last_word /\ GoOn(scan.word + 1)
  <2> DEFINE p == n + 1
  <2>1. p \in Words /\ p \in Nat /\ n < p /\ s \in Idx
    BY <1>1, <1>3, <1>11, WordsCoverTheBand DEF Words, Scanning
  <2>2. scan' = [dir |-> "next", start |-> s, word |-> p, bits |-> bitmap[p]]
    BY <1>1, <1>11 DEF GoOn, Scanning
  <2>3. bitmap[p] \in Word /\ \A b \in Bits : b \in bitmap[p] <=> At(p, b) \in occupied
    BY <1>1, <2>1 DEF Mirror
  <2>4. n >= s \div WordBits
    BY <1>1 DEF Upward
  <2>5. s \div WordBits \in Nat /\ s % WordBits \in Bits
        /\ s = At(s \div WordBits, s % WordBits)
    BY <1>3, BitOfLevel
  <2>6. ASSUME NEW b \in Bits PROVE At(p, b) >= s
    <3> DEFINE m == s \div WordBits
               c == s % WordBits
    <3>1. m \in Nat /\ c \in Bits /\ s = At(m, c) /\ m < p
      BY <2>1, <2>4, <2>5, <1>3
    <3> HIDE DEF m, c, p, s
    <3>2. At(m, c) < At(p, b)
      BY <3>1, <2>1, LaterWordIsAbove
    <3> QED
      BY <3>1, <3>2, <2>1, AtType
  <2>7. Scanning'
    <3>1. \A b \in Bits : b \in bitmap[p] <=> At(p, b) \in occupied /\ At(p, b) >= s
      BY <2>3, <2>6
    <3> HIDE DEF n, s, p
    <3> QED
      BY <2>1, <2>2, <2>3, <3>1, <1>2 DEF Scanning, Counts
  <2>8. Upward'
    <3>1. ASSUME NEW i \in occupied, i >= s PROVE i \div WordBits >= p
      <4>1. i \div WordBits \in Nat /\ i \div WordBits >= n
        BY <1>1, <1>5, <3>1, LevelsAreBits
      <4>2. i \in side
        BY <1>6, <3>1
      <4>3. i \div WordBits # n
        BY <4>2, <1>8, <1>11
      <4> QED
        BY <4>1, <4>3, <1>3
    <3>2. p >= s \div WordBits
      BY <2>4, <2>5, <1>3
    <3> HIDE DEF n, s, p
    <3> QED
      BY <3>1, <3>2, <2>2, <1>2 DEF Upward
  <2> QED
    BY <2>2, <2>7, <2>8, <1>2 DEF BInv
<1> QED
  BY <1>9, <1>10, <1>11 DEF StepNext

LEMMA StepKeepsInvariant == BInv /\ [Next]_vars => BInv'
<1> SUFFICES ASSUME BInv, [Next]_vars PROVE BInv'
  OBVIOUS
<1>1. ASSUME NEW i \in Idx, SetBit(i) \/ ClearBit(i) PROVE BInv'
  BY <1>1, SetBitKeeps
<1>2. ASSUME NEW i \in Idx, StartPrev(i) \/ StartNext(i) PROVE BInv'
  BY <1>2, StartKeeps
<1>3. CASE Return
  <2>1. Mirror' /\ scan'.dir = "none"
    BY <1>3 DEF Return, Idle, BInv, Mirror
  <2> QED
    BY <2>1 DEF BInv
<1>4. CASE UNCHANGED vars
  BY <1>4 DEF vars, BInv, Mirror, Scanning, Counts, Downward, Upward, Answered, Side
<1> QED
  BY <1>1, <1>2, <1>3, <1>4, PrevStepKeeps, NextStepKeeps DEF Next

LEMMA InvariantHolds == Spec => []BInv
BY InitEstablishes, StepKeepsInvariant, PTL DEF Spec

(* find_prev_set_bit and find_next_set_bit return the nearest occupied     *)
(* level on their side of the start, UINT32_MAX when there is none, and    *)
(* read only words of the bitmap, for every width of a word, every band    *)
(* and every history of levels filling and emptying.                       *)
THEOREM ScansAreExact == Spec => []ScanExact
<1>1. BInv => ScanExact
  <2> SUFFICES ASSUME BInv PROVE ScanExact
    OBVIOUS
  <2>1. ASSUME scan.dir \in {"prev", "next"} PROVE scan.word \in Words
    BY <2>1 DEF BInv, Scanning
  <2>2. scan.dir = "done" => Answered
    BY DEF BInv
  <2> QED
    BY <2>1, <2>2 DEF ScanExact, Answered, Side
<1> QED
  BY <1>1, InvariantHolds, PTL

=============================================================================
