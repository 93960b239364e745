---------------------------- MODULE IdMap_proofs ----------------------------
(***************************************************************************)
(* The id table keeps every resting order in one entry of its own, for     *)
(* every size of the table and every hash function, whether or not probing *)
(* still finds the entry.                                                  *)
(***************************************************************************)
EXTENDS IdMap, NaturalsInduction, WellFoundedInduction, TLAPS

-----------------------------------------------------------------------------
(* Arithmetic of the slots.                                                *)

LEMMA CapIsPositive == Cap \in Nat \ {0} /\ 0 \in Slot
<1>1. Cap \in Nat \ {0}
  BY TableAssumption
<1> QED
  BY <1>1 DEF Slot

(* One lap up or down is all the remainder ever takes off or puts on.      *)
LEMMA ModCases ==
  ASSUME NEW C \in Nat \ {0}, NEW x \in Int, -C < x, x < 2 * C
  PROVE  x % C = IF x < 0 THEN x + C ELSE IF x < C THEN x ELSE x - C
<1>1. x % C \in 0 .. C - 1 /\ x \div C \in Int /\ x = C * (x \div C) + (x % C)
  BY SMTT(20)
<1> DEFINE q == x \div C
           r == x % C
<1>2. r \in 0 .. C - 1 /\ q \in Int /\ x = C * q + r
  BY <1>1
<1> HIDE DEF q, r
<1>3. q <= 1
  <2>1. SUFFICES ASSUME q >= 2 PROVE FALSE
    BY <1>2
  <2>2. C * q >= C * 2
    BY <1>2, <2>1, SMTT(20)
  <2> QED
    BY <1>2, <2>2
<1>4. q >= -1
  <2>1. SUFFICES ASSUME q <= -2 PROVE FALSE
    BY <1>2
  <2>2. C * q <= C * (-2)
    BY <1>2, <2>1, SMTT(20)
  <2> QED
    BY <1>2, <2>2
<1>5. r = IF x < 0 THEN x + C ELSE IF x < C THEN x ELSE x - C
  <2>1. CASE q = -1
    BY <1>2, <2>1
  <2>2. CASE q = 0
    BY <1>2, <2>2
  <2>3. CASE q = 1
    BY <1>2, <2>3
  <2> QED
    BY <1>2, <1>3, <1>4, <2>1, <2>2, <2>3
<1> QED
  BY <1>5 DEF r

(* How far slot j lies past slot i.                                        *)
Past(i, j) == (j - i) % Cap

LEMMA StepCases ==
  ASSUME NEW i \in Slot, NEW d \in Slot
  PROVE  /\ Step(i, d) \in Slot
         /\ Step(i, d) = IF i + d < Cap THEN i + d ELSE i + d - Cap
<1> DEFINE x == i + d
<1>1. x \in Int /\ -Cap < x /\ x < 2 * Cap /\ 0 <= x
  BY CapIsPositive DEF Slot
<1> HIDE DEF x
<1>2. x % Cap = IF x < 0 THEN x + Cap ELSE IF x < Cap THEN x ELSE x - Cap
  BY <1>1, CapIsPositive, ModCases
<1>3. x % Cap = IF x < Cap THEN x ELSE x - Cap
  BY <1>1, <1>2
<1>4. Step(i, d) = IF i + d < Cap THEN i + d ELSE i + d - Cap
  BY <1>3, CapIsPositive DEF Step, x, Slot
<1>5. Step(i, d) \in 0 .. Cap - 1
  BY <1>4, CapIsPositive DEF Slot
<1> QED
  BY <1>4, <1>5 DEF Slot

LEMMA PastCases ==
  ASSUME NEW i \in Slot, NEW j \in Slot
  PROVE  /\ Past(i, j) \in Slot
         /\ Past(i, j) = IF j < i THEN j - i + Cap ELSE j - i
<1> DEFINE x == j - i
<1>1. x \in Int /\ -Cap < x /\ x < 2 * Cap /\ x < Cap
  BY CapIsPositive DEF Slot
<1> HIDE DEF x
<1>2. x % Cap = IF x < 0 THEN x + Cap ELSE IF x < Cap THEN x ELSE x - Cap
  BY <1>1, CapIsPositive, ModCases
<1>3. Past(i, j) = IF j < i THEN j - i + Cap ELSE j - i
  BY <1>1, <1>2, CapIsPositive DEF Past, x, Slot
<1> QED
  BY <1>3, CapIsPositive DEF Slot

LEMMA PastOfSelf ==
  ASSUME NEW i \in Slot
  PROVE  Past(i, i) = 0
<1>1. Past(i, i) = IF i < i THEN i - i + Cap ELSE i - i
  BY PastCases
<1> QED
  BY <1>1 DEF Slot

LEMMA StepOfPast ==
  ASSUME NEW i \in Slot, NEW j \in Slot
  PROVE  Step(i, Past(i, j)) = j
<1>1. Past(i, j) \in Slot /\ Past(i, j) = IF j < i THEN j - i + Cap ELSE j - i
  BY PastCases
<1>2. Step(i, Past(i, j)) = IF i + Past(i, j) < Cap THEN i + Past(i, j)
                                                    ELSE i + Past(i, j) - Cap
  BY <1>1, StepCases
<1> QED
  BY <1>1, <1>2, CapIsPositive DEF Slot

LEMMA PastOfStep ==
  ASSUME NEW i \in Slot, NEW d \in Slot
  PROVE  Past(i, Step(i, d)) = d
<1>1. Step(i, d) \in Slot /\ Step(i, d) = IF i + d < Cap THEN i + d ELSE i + d - Cap
  BY StepCases
<1>2. Past(i, Step(i, d)) = IF Step(i, d) < i THEN Step(i, d) - i + Cap
                                              ELSE Step(i, d) - i
  BY <1>1, PastCases
<1> QED
  BY <1>1, <1>2, CapIsPositive DEF Slot

(* One step further, up to the lap's end.                                  *)
LEMMA NextPast ==
  ASSUME NEW i \in Slot, NEW j \in Slot, Past(i, j) < Cap - 1
  PROVE  Step(j, 1) \in Slot /\ Past(i, Step(j, 1)) = Past(i, j) + 1
<1>1. 1 \in Slot /\ Cap \in Nat \ {0}
  BY PastCases, CapIsPositive DEF Slot
<1>2. Past(i, j) = IF j < i THEN j - i + Cap ELSE j - i
  BY PastCases
<1>3. Step(j, 1) \in Slot /\ Step(j, 1) = IF j + 1 < Cap THEN j + 1 ELSE j + 1 - Cap
  BY <1>1, StepCases
<1>4. Past(i, Step(j, 1)) = IF Step(j, 1) < i THEN Step(j, 1) - i + Cap
                                              ELSE Step(j, 1) - i
  BY <1>3, PastCases
<1> QED
  BY <1>1, <1>2, <1>3, <1>4 DEF Slot

-----------------------------------------------------------------------------
(* The first stop and the longest run.                                     *)

LEMMA MinIsLeast ==
  ASSUME NEW S \in SUBSET Nat, S # {}
  PROVE  Min(S) \in S /\ \A y \in S : Min(S) <= y
<1>1. PICK x \in S : \A y \in S : ~ <<y, x>> \in OpToRel(<, Nat)
  BY NatLessThanWellFounded, WFMin
<1>2. ASSUME NEW y \in S PROVE x <= y
  <2>1. y \in Nat /\ x \in Nat
    OBVIOUS
  <2>2. SUFFICES ASSUME y < x PROVE FALSE
    BY <2>1
  <2>3. <<y, x>> \in OpToRel(<, Nat)
    BY <2>1, <2>2 DEF OpToRel
  <2> QED
    BY <1>1, <2>3
<1> QED
  BY <1>2 DEF Min

LEMMA MaxIsMost ==
  ASSUME NEW S \in SUBSET Nat, S # {}, NEW b \in Nat, \A y \in S : y <= b
  PROVE  Max(S) \in S /\ \A y \in S : y <= Max(S)
<1> DEFINE D == {b - y : y \in S}
<1>1. D \in SUBSET Nat /\ D # {}
  <2>1. \A y \in S : b - y \in Nat
    OBVIOUS
  <2> QED
    BY <2>1
<1>2. Min(D) \in D /\ \A e \in D : Min(D) <= e
  BY <1>1, MinIsLeast
<1>3. PICK x \in S : Min(D) = b - x
  BY <1>2
<1>4. \A y \in S : x >= y
  <2> SUFFICES ASSUME NEW y \in S PROVE x >= y
    OBVIOUS
  <2>1. b - x <= b - y
    BY <1>2, <1>3
  <2> QED
    BY <2>1
<1> QED
  BY <1>4 DEF Max

-----------------------------------------------------------------------------
(* The backward shift, for an emptied slot i and a run of n entries: each  *)
(* other entry has one slot it goes to, and every entry left came from one.*)

Shifted(E, i, n) ==
  [j \in Slot |-> IF Past(i, j) < n THEN E[Step(j, 1)]
                  ELSE IF Past(i, j) = n THEN EMPTY ELSE E[j]]

GoesTo(i, n, p) == IF Past(i, p) <= n THEN Step(i, Past(i, p) - 1) ELSE p

LEMMA ErasesByShift ==
  ASSUME NEW key, erase(key), entries[ProbeSlot(key)] # EMPTY
  PROVE  entries' = Shifted(entries, ProbeSlot(key), RunLength(ProbeSlot(key)))
BY DEF erase, Shifted, Past

LEMMA PastOfOther ==
  ASSUME NEW i \in Slot, NEW p \in Slot, p # i
  PROVE  Past(i, p) \in 1 .. Cap - 1 /\ Past(i, p) - 1 \in Slot
<1>1. Past(i, p) \in Slot /\ Past(i, p) = IF p < i THEN p - i + Cap ELSE p - i
  BY PastCases
<1>2. Past(i, p) # 0
  BY <1>1, CapIsPositive DEF Slot
<1> QED
  BY <1>1, <1>2, CapIsPositive DEF Slot

LEMMA EntryMoves ==
  ASSUME NEW E, NEW i \in Slot, NEW n \in Slot, NEW p \in Slot, p # i
  PROVE  /\ GoesTo(i, n, p) \in Slot
         /\ Shifted(E, i, n)[GoesTo(i, n, p)] = E[p]
<1> DEFINE d == Past(i, p)
           q == Step(i, d - 1)
<1>1. d \in 1 .. Cap - 1 /\ d - 1 \in Slot
  BY PastOfOther
<1>2. CASE d <= n
  <2>1. q \in Slot /\ Past(i, q) = d - 1
    BY <1>1, StepCases, PastOfStep
  <2>2. Step(q, 1) \in Slot /\ Past(i, Step(q, 1)) = d
    <3>1. Past(i, q) < Cap - 1
      BY <1>1, <2>1, CapIsPositive
    <3>2. Step(q, 1) \in Slot /\ Past(i, Step(q, 1)) = Past(i, q) + 1
      BY <2>1, <3>1, NextPast
    <3> QED
      BY <1>1, <2>1, <3>2
  <2>3. Step(q, 1) = p
    BY <2>2, StepOfPast
  <2>4. GoesTo(i, n, p) = q
    BY <1>2 DEF GoesTo
  <2>5. Past(i, q) < n
    BY <1>1, <1>2, <2>1 DEF Slot
  <2>6. Shifted(E, i, n)[q] = E[Step(q, 1)]
    BY <2>1, <2>5 DEF Shifted
  <2> QED
    BY <2>1, <2>3, <2>4, <2>6
<1>3. CASE ~ (d <= n)
  <2>1. GoesTo(i, n, p) = p
    BY <1>3 DEF GoesTo
  <2>2. ~ (d < n) /\ d # n
    BY <1>1, <1>3 DEF Slot
  <2> QED
    BY <2>1, <2>2 DEF Shifted
<1> QED
  BY <1>2, <1>3

LEMMA EntryCameFrom ==
  ASSUME NEW E, NEW i \in Slot, NEW n \in Slot, NEW q \in Slot,
         Shifted(E, i, n)[q] # EMPTY
  PROVE  \E p \in Slot : /\ p # i
                         /\ q = GoesTo(i, n, p)
                         /\ Shifted(E, i, n)[q] = E[p]
<1> DEFINE d == Past(i, q)
           p == Step(q, 1)
<1>1. d \in Slot /\ d # n
  <2>1. d \in Slot
    BY PastCases
  <2>2. ASSUME d = n PROVE FALSE
    <3>1. ~ (d < n)
      BY <2>1, <2>2 DEF Slot
    <3> QED
      BY <2>2, <3>1 DEF Shifted
  <2> QED
    BY <2>1, <2>2
<1>2. CASE d < n
  <2>1. p \in Slot /\ Past(i, p) = d + 1
    <3>1. Past(i, q) < Cap - 1
      BY <1>1, <1>2, CapIsPositive DEF Slot
    <3> QED
      BY <3>1, NextPast
  <2>2. p # i
    BY <1>1, <2>1, PastOfSelf DEF Slot
  <2>3. Past(i, p) <= n /\ Past(i, p) - 1 = d
    BY <1>1, <1>2, <2>1 DEF Slot
  <2>4. GoesTo(i, n, p) = q
    BY <2>3, StepOfPast DEF GoesTo
  <2>5. Shifted(E, i, n)[q] = E[p]
    BY <1>2 DEF Shifted
  <2> QED
    BY <2>1, <2>2, <2>4, <2>5
<1>3. CASE ~ (d < n)
  <2>1. Shifted(E, i, n)[q] = E[q]
    BY <1>1, <1>3 DEF Shifted
  <2>2. ~ (d <= n)
    BY <1>1, <1>3 DEF Slot
  <2>3. GoesTo(i, n, q) = q
    BY <2>2 DEF GoesTo
  <2>4. q # i
    BY <1>1, <2>2, PastOfSelf DEF Slot
  <2> QED
    BY <2>1, <2>3, <2>4
<1> QED
  BY <1>2, <1>3

-----------------------------------------------------------------------------
(* The inductive invariant: the entries keep their types, and an id no     *)
(* order had yet is in no entry, so that insert stops at an EMPTY slot.    *)

Entries == [key : Ids, val : Vals]

Shape ==
  /\ home \in [Ids -> Slot]
  /\ entries \in [Slot -> Entries \union {EMPTY}]
  /\ held \in [Ids -> Vals \union {EMPTY}]

KeysAreUsed == \A i \in Slot : entries[i] # EMPTY => entries[i].key \in used

TInv == Shape /\ KeysAreUsed /\ HeldStoredOnce

(* The loops stop at an EMPTY slot or at the key.                          *)
LEMMA ProbeStops ==
  ASSUME Shape, NEW key \in Ids, Stops(key) # {}
  PROVE  /\ ProbeSlot(key) \in Slot
         /\ \/ entries[ProbeSlot(key)] = EMPTY
            \/ entries[ProbeSlot(key)].key = key
<1>1. Stops(key) \in SUBSET Nat
  BY CapIsPositive DEF Stops, Slot
<1>2. Min(Stops(key)) \in Stops(key)
  BY <1>1, MinIsLeast
<1>3. PICK d \in Slot : d = Min(Stops(key)) /\ d \in Stops(key)
  BY <1>2 DEF Stops
<1>4. home[key] \in Slot
  BY DEF Shape
<1>5. ProbeSlot(key) = Step(home[key], d) /\ ProbeSlot(key) \in Slot
  BY <1>3, <1>4, StepCases DEF ProbeSlot
<1> QED
  BY <1>3, <1>5 DEF Stops

LEMMA RunIsShort ==
  ASSUME NEW i \in Slot
  PROVE  RunLength(i) \in Slot
<1> DEFINE R == {n \in Slot : \A d \in 1 .. n :
                   entries[Step(i, d)] # EMPTY /\ Displacement(Step(i, d)) >= 1}
<1>1. 0 \in R
  BY CapIsPositive
<1>2. R \in SUBSET Nat /\ Cap \in Nat /\ \A n \in R : n <= Cap
  BY CapIsPositive DEF Slot
<1>3. Max(R) \in R
  BY <1>1, <1>2, MaxIsMost
<1>4. RunLength(i) = Max(R)
  BY DEF RunLength
<1> QED
  BY <1>3, <1>4

-----------------------------------------------------------------------------
LEMMA InitTInv == Init => TInv
<1> SUFFICES ASSUME Init PROVE TInv
  OBVIOUS
<1>1. Shape
  BY TableAssumption DEF Init, Shape, Slot
<1>2. KeysAreUsed
  BY DEF Init, KeysAreUsed
<1>3. HeldStoredOnce
  BY DEF Init, HeldStoredOnce
<1> QED
  BY <1>1, <1>2, <1>3 DEF TInv

LEMMA RestTInv ==
  ASSUME TInv, NEW id \in Ids, NEW val \in Vals, Rest(id, val)
  PROVE  TInv'
<1> DEFINE p == ProbeSlot(id)
           e == [key |-> id, val |-> val]
<1>1. p \in Slot /\ entries[p] = EMPTY
  <2>1. p \in Slot /\ (entries[p] = EMPTY \/ entries[p].key = id)
    BY ProbeStops DEF TInv, Rest
  <2>2. entries[p] # EMPTY => entries[p].key # id
    BY <2>1 DEF TInv, KeysAreUsed, Rest
  <2> QED
    BY <2>1, <2>2
<1> HIDE DEF p
<1>2. entries' = [entries EXCEPT ![p] = e] /\ entries \in [Slot -> Entries \union {EMPTY}]
  BY DEF Rest, insert, p, TInv, Shape
<1>3. e \in Entries /\ e # EMPTY /\ e.key = id /\ e.val = val /\ val # EMPTY
  BY TableAssumption DEF Entries
<1> HIDE DEF e
<1>4. entries'[p] = e /\ \A i \in Slot \ {p} : entries'[i] = entries[i]
  BY <1>1, <1>2
<1>5. /\ held \in [Ids -> Vals \union {EMPTY}] /\ home \in [Ids -> Slot]
      /\ held' = [held EXCEPT ![id] = val] /\ home' = home
      /\ used' = used \union {id} /\ id \notin used
  BY DEF Rest, TInv, Shape
<1>6. Shape'
  BY <1>1, <1>2, <1>3, <1>5 DEF Shape
<1>7. KeysAreUsed'
  <2> SUFFICES ASSUME NEW i \in Slot, entries'[i] # EMPTY
               PROVE  entries'[i].key \in used'
    BY DEF KeysAreUsed
  <2>1. CASE i = p
    BY <1>3, <1>4, <1>5, <2>1
  <2>2. CASE i # p
    BY <1>4, <1>5, <2>2 DEF TInv, KeysAreUsed
  <2> QED
    BY <2>1, <2>2
<1>8. HeldStoredOnce'
  <2> SUFFICES ASSUME NEW other \in Ids, held'[other] # EMPTY
               PROVE  \E i \in Slot : Stored(other)' = {i} /\ entries'[i].val = held'[other]
    BY DEF HeldStoredOnce
  <2>1. CASE other = id
    <3>1. \A i \in Slot : i \in Stored(id)' <=> i = p
      BY <1>1, <1>3, <1>4, <1>5 DEF Stored, TInv, KeysAreUsed
    <3>2. Stored(id)' = {p}
      BY <1>1, <3>1 DEF Stored
    <3> QED
      BY <1>1, <1>3, <1>4, <1>5, <2>1, <3>2
  <2>2. CASE other # id
    <3>1. held'[other] = held[other]
      BY <1>5, <2>2
    <3>2. PICK j \in Slot : Stored(other) = {j} /\ entries[j].val = held[other]
      BY <3>1 DEF TInv, HeldStoredOnce
    <3>3. j # p
      BY <1>1, <3>2 DEF Stored
    <3>4. \A i \in Slot : i \in Stored(other)' <=> i \in Stored(other)
      BY <1>1, <1>3, <1>4, <2>2 DEF Stored
    <3>5. Stored(other)' = {j}
      BY <3>2, <3>4 DEF Stored
    <3> QED
      BY <1>4, <3>1, <3>2, <3>3, <3>5
  <2> QED
    BY <2>1, <2>2
<1> QED
  BY <1>6, <1>7, <1>8 DEF TInv

(* What a shift leaves in the table.                                       *)
ShiftedFrom(i, n) ==
  /\ i \in Slot /\ n \in Slot
  /\ entries' = Shifted(entries, i, n)

LEMMA ShiftTInv ==
  ASSUME TInv, NEW id \in Ids, NEW i \in Slot, NEW n \in Slot, ShiftedFrom(i, n),
         entries[i].key = id, held' = [held EXCEPT ![id] = EMPTY],
         home' = home, used' = used
  PROVE  TInv'
<1>1. \A q \in Slot : entries'[q] # EMPTY =>
        \E p \in Slot : p # i /\ q = GoesTo(i, n, p) /\ entries'[q] = entries[p]
  BY EntryCameFrom DEF ShiftedFrom
<1>2. \A p \in Slot : p # i => /\ GoesTo(i, n, p) \in Slot
                               /\ entries'[GoesTo(i, n, p)] = entries[p]
  BY EntryMoves DEF ShiftedFrom
<1>3. Shape'
  <2>1. \A q \in Slot : entries'[q] \in Entries \union {EMPTY}
    BY <1>1 DEF TInv, Shape
  <2>2. entries' \in [Slot -> Entries \union {EMPTY}]
    BY <2>1 DEF ShiftedFrom, Shifted
  <2> QED
    BY <2>2 DEF TInv, Shape
<1>4. KeysAreUsed'
  BY <1>1 DEF TInv, KeysAreUsed
<1>5. HeldStoredOnce'
  <2> SUFFICES ASSUME NEW other \in Ids, held'[other] # EMPTY
               PROVE  \E q \in Slot : Stored(other)' = {q} /\ entries'[q].val = held'[other]
    BY DEF HeldStoredOnce
  <2>1. other # id /\ held'[other] = held[other]
    BY DEF TInv, Shape
  <2>2. PICK p \in Slot : Stored(other) = {p} /\ entries[p].val = held[other]
    BY <2>1 DEF TInv, HeldStoredOnce
  <2>3. p # i /\ entries[p] # EMPTY /\ entries[p].key = other
    BY <2>1, <2>2 DEF Stored
  <2> DEFINE q == GoesTo(i, n, p)
  <2>4. q \in Slot /\ entries'[q] = entries[p]
    BY <1>2, <2>3
  <2>5. \A r \in Slot : entries'[r] # EMPTY /\ entries'[r].key = other => r = q
    <3> SUFFICES ASSUME NEW r \in Slot, entries'[r] # EMPTY, entries'[r].key = other
                 PROVE  r = q
      OBVIOUS
    <3>1. PICK o \in Slot : o # i /\ r = GoesTo(i, n, o) /\ entries'[r] = entries[o]
      BY <1>1
    <3>2. o \in Stored(other)
      BY <3>1 DEF Stored
    <3> QED
      BY <2>2, <3>1, <3>2
  <2> HIDE DEF q
  <2>6. \A r \in Slot : r \in Stored(other)' <=> r = q
    BY <2>3, <2>4, <2>5 DEF Stored
  <2>7. Stored(other)' = {q}
    BY <2>4, <2>6 DEF Stored
  <2> QED
    BY <2>1, <2>2, <2>4, <2>7
<1> QED
  BY <1>3, <1>4, <1>5 DEF TInv

(* Either erase does nothing, or it empties the order's slot and shifts.   *)
LEMMA LeaveCases ==
  ASSUME TInv, NEW id \in Ids, LeaveThroughLevel(id)
  PROVE  LET i == ProbeSlot(id)
         IN  /\ i \in Slot
             /\ \/ entries[i] = EMPTY /\ entries' = entries
                \/ /\ entries[i] # EMPTY /\ entries[i].key = id
                   /\ ShiftedFrom(i, RunLength(i))
<1> DEFINE i == ProbeSlot(id)
<1>1. i \in Slot /\ (entries[i] = EMPTY \/ entries[i].key = id)
  BY ProbeStops DEF TInv, LeaveThroughLevel
<1>2. erase(id)
  BY DEF LeaveThroughLevel
<1>3. CASE entries[i] = EMPTY
  BY <1>1, <1>2, <1>3 DEF erase
<1>4. CASE entries[i] # EMPTY
  <2>1. entries' = Shifted(entries, i, RunLength(i))
    BY <1>2, <1>4, ErasesByShift
  <2>2. RunLength(i) \in Slot
    BY <1>1, RunIsShort
  <2> QED
    BY <1>1, <1>4, <2>1, <2>2 DEF ShiftedFrom
<1> QED
  BY <1>3, <1>4

LEMMA LeaveTInv ==
  ASSUME TInv, NEW id \in Ids, LeaveThroughLevel(id)
  PROVE  TInv'
<1> DEFINE i == ProbeSlot(id)
<1>1. held' = [held EXCEPT ![id] = EMPTY] /\ home' = home /\ used' = used
  BY DEF LeaveThroughLevel
<1>2. i \in Slot /\ \/ entries[i] = EMPTY /\ entries' = entries
                    \/ /\ entries[i] # EMPTY /\ entries[i].key = id
                       /\ ShiftedFrom(i, RunLength(i))
  BY LeaveCases
<1> HIDE DEF i
<1>3. CASE entries' = entries
  <2>1. Shape'
    BY <1>1, <1>3 DEF TInv, Shape
  <2>2. KeysAreUsed'
    BY <1>1, <1>3 DEF TInv, KeysAreUsed
  <2>3. HeldStoredOnce'
    <3> SUFFICES ASSUME NEW other \in Ids, held'[other] # EMPTY
                 PROVE  \E q \in Slot : Stored(other)' = {q} /\ entries'[q].val = held'[other]
      BY DEF HeldStoredOnce
    <3>1. held'[other] = held[other]
      BY <1>1 DEF TInv, Shape
    <3>2. Stored(other)' = Stored(other)
      BY <1>3 DEF Stored
    <3> QED
      BY <1>3, <3>1, <3>2 DEF TInv, HeldStoredOnce
  <2> QED
    BY <2>1, <2>2, <2>3 DEF TInv
<1>4. CASE entries[i].key = id /\ ShiftedFrom(i, RunLength(i))
  BY <1>1, <1>4, ShiftTInv DEF ShiftedFrom
<1> QED
  BY <1>2, <1>3, <1>4

LEMMA TableInductive == Spec => []TInv
<1>1. Init => TInv
  BY InitTInv
<1>2. TInv /\ [Next]_vars => TInv'
  <2> SUFFICES ASSUME TInv, [Next]_vars PROVE TInv'
    OBVIOUS
  <2>1. ASSUME NEW id \in Ids, NEW val \in Vals, Rest(id, val) PROVE TInv'
    BY <2>1, RestTInv
  <2>2. ASSUME NEW id \in Ids, LeaveThroughLevel(id) PROVE TInv'
    BY <2>2, LeaveTInv
  <2>3. ASSUME NEW id \in Ids, LeaveThroughTable(id) PROVE TInv'
    BY <2>3, LeaveTInv DEF LeaveThroughTable
  <2>4. CASE UNCHANGED vars
    BY <2>4 DEF vars, TInv, Shape, KeysAreUsed, HeldStoredOnce, Stored
  <2> QED
    BY <2>1, <2>2, <2>3, <2>4 DEF Next
<1> QED
  BY <1>1, <1>2, PTL DEF Spec

-----------------------------------------------------------------------------
(* A resting order is in exactly one entry, which holds its own pool slot, *)
(* for every hash function and any sequence of insert and erase, those     *)
(* that no longer find an order included.                                  *)
THEOREM HeldOrdersStoredOnce == Spec => []HeldStoredOnce
<1>1. TInv => HeldStoredOnce
  BY DEF TInv
<1> QED
  BY <1>1, TableInductive, PTL

(* What find reports of a resting order is its own slot or nothing, never  *)
(* the slot of another order.                                              *)
NeverMisdirects ==
  \A id \in Ids : held[id] # EMPTY /\ Stops(id) # {} => find(id) \in {EMPTY, held[id]}

THEOREM LookupsNeverMisdirect == Spec => []NeverMisdirects
<1>1. TInv => NeverMisdirects
  <2> SUFFICES ASSUME TInv, NEW id \in Ids, held[id] # EMPTY, Stops(id) # {}
               PROVE  find(id) \in {EMPTY, held[id]}
    BY DEF NeverMisdirects
  <2>1. /\ ProbeSlot(id) \in Slot
        /\ entries[ProbeSlot(id)] = EMPTY \/ entries[ProbeSlot(id)].key = id
    BY ProbeStops DEF TInv
  <2>2. CASE entries[ProbeSlot(id)] = EMPTY
    BY <2>2 DEF find
  <2>3. CASE entries[ProbeSlot(id)] # EMPTY
    <3>1. ProbeSlot(id) \in Stored(id)
      BY <2>1, <2>3 DEF Stored
    <3>2. entries[ProbeSlot(id)].val = held[id]
      BY <3>1 DEF TInv, HeldStoredOnce
    <3> QED
      BY <2>3, <3>2 DEF find
  <2> QED
    BY <2>2, <2>3
<1> QED
  BY <1>1, TableInductive, PTL

-----------------------------------------------------------------------------
(* Erasing from a table in robin-hood order.                               *)

LEMMA StepBack ==
  ASSUME NEW h \in Slot, NEW d \in Slot, d # 0
  PROVE  d - 1 \in Slot /\ Step(Step(h, d), Cap - 1) = Step(h, d - 1)
<1>1. Cap \in Nat \ {0} /\ d - 1 \in Slot /\ Cap - 1 \in Slot
  BY CapIsPositive DEF Slot
<1>2. Step(h, d) \in Slot /\ Step(h, d) = IF h + d < Cap THEN h + d ELSE h + d - Cap
  BY StepCases
<1>3. Step(h, d - 1) = IF h + (d - 1) < Cap THEN h + (d - 1) ELSE h + (d - 1) - Cap
  BY <1>1, StepCases
<1>4. Step(Step(h, d), Cap - 1) = IF Step(h, d) + (Cap - 1) < Cap
        THEN Step(h, d) + (Cap - 1) ELSE Step(h, d) + (Cap - 1) - Cap
  BY <1>1, <1>2, StepCases
<1>5. Step(Step(h, d), Cap - 1) = Step(h, d - 1)
  BY <1>1, <1>2, <1>3, <1>4 DEF Slot
<1> QED
  BY <1>1, <1>5

LEMMA StepStep ==
  ASSUME NEW h \in Slot, NEW d \in Slot, NEW e \in Slot, d + e \in Slot
  PROVE  Step(Step(h, d), e) = Step(h, d + e)
<1>1. Cap \in Nat \ {0}
  BY CapIsPositive
<1>2. Step(h, d) \in Slot /\ Step(h, d) = IF h + d < Cap THEN h + d ELSE h + d - Cap
  BY StepCases
<1> DEFINE f == d + e
<1>3. f \in Slot
  OBVIOUS
<1> HIDE DEF f
<1>4. Step(h, f) = IF h + f < Cap THEN h + f ELSE h + f - Cap
  BY <1>3, StepCases
<1>5. Step(Step(h, d), e) = IF Step(h, d) + e < Cap THEN Step(h, d) + e
                                                    ELSE Step(h, d) + e - Cap
  BY <1>2, StepCases
<1>6. Step(Step(h, d), e) = Step(h, f)
  BY <1>1, <1>2, <1>4, <1>5 DEF Slot, f
<1> QED
  BY <1>6 DEF f

LEMMA DisplacementIsPast ==
  ASSUME Shape, NEW i \in Slot, entries[i] # EMPTY
  PROVE  /\ home[entries[i].key] \in Slot
         /\ Displacement(i) = Past(home[entries[i].key], i)
         /\ Displacement(i) \in Slot /\ Displacement(i) \in Nat
<1>1. entries[i] \in Entries
  BY DEF Shape
<1>2. home[entries[i].key] \in Slot
  BY <1>1 DEF Shape, Entries
<1>3. Displacement(i) = Past(home[entries[i].key], i)
  BY DEF Displacement, Past
<1>4. Past(home[entries[i].key], i) \in Slot
  BY <1>2, PastCases
<1> QED
  BY <1>2, <1>3, <1>4, CapIsPositive DEF Slot

(* From an entry's home to the entry there is no gap.                      *)
LEMMA NoGap ==
  ASSUME Shape, Ordered, NEW p \in Slot, entries[p] # EMPTY,
         NEW h \in Slot, h = home[entries[p].key]
  PROVE  \A d \in 0 .. Past(h, p) : /\ d \in Slot
                                    /\ entries[Step(h, d)] # EMPTY
                                    /\ Displacement(Step(h, d)) >= d
<1> DEFINE D == Past(h, p)
           Fine(k) == /\ entries[Step(h, D - k)] # EMPTY
                      /\ Displacement(Step(h, D - k)) >= D - k
           Bad == {k \in 0 .. D : ~ Fine(k)}
<1>1. D \in Slot /\ Step(h, D) = p /\ Displacement(p) = D
  BY PastCases, StepOfPast DEF Displacement, Past
<1>2. D \in Nat /\ \A k \in 0 .. D : D - k \in Slot /\ Step(h, D - k) \in Slot
  <2>1. D \in Nat /\ \A k \in 0 .. D : D - k \in Slot
    BY <1>1, CapIsPositive DEF Slot
  <2> QED
    BY <2>1, StepCases
<1>3. SUFFICES ASSUME Bad # {} PROVE FALSE
  <2> SUFFICES ASSUME Bad = {}, NEW d \in 0 .. D
               PROVE  d \in Slot /\ entries[Step(h, d)] # EMPTY
                      /\ Displacement(Step(h, d)) >= d
    BY <1>3
  <2>1. D - d \in 0 .. D /\ D - (D - d) = d
    BY <1>2
  <2>2. Fine(D - d)
    BY <2>1
  <2> QED
    BY <1>2, <2>1, <2>2
<1>4. Bad \in SUBSET Nat
  OBVIOUS
<1>5. Min(Bad) \in Bad /\ \A k \in Bad : Min(Bad) <= k
  BY <1>3, <1>4, MinIsLeast
<1>6. PICK m \in 0 .. D : ~ Fine(m) /\ \A k \in Bad : m <= k
  BY <1>5
<1>7. m # 0
  <2>1. Fine(0)
    BY <1>1, <1>2 DEF Slot
  <2> QED
    BY <1>6, <2>1
<1>8. m - 1 \in 0 .. D /\ Fine(m - 1)
  BY <1>2, <1>6, <1>7
<1> DEFINE c == D - (m - 1)
           x == Step(h, c)
<1>9. c \in Slot /\ c # 0 /\ c - 1 = D - m /\ c \in Nat \ {0}
  BY <1>2, <1>6, <1>7, <1>8 DEF Slot
<1>10. x \in Slot /\ entries[x] # EMPTY /\ Displacement(x) >= c
  BY <1>2, <1>8
<1>11. Step(x, Cap - 1) = Step(h, D - m)
  BY <1>9, StepBack
<1> HIDE DEF c, x
<1>12. Displacement(x) \in Nat
  BY <1>10, DisplacementIsPast
<1>13. Displacement(x) >= 1
  BY <1>9, <1>10, <1>12
<1>14. entries[Step(x, Cap - 1)] # EMPTY
       /\ Displacement(Step(x, Cap - 1)) >= Displacement(x) - 1
  BY <1>10, <1>13 DEF Ordered
<1>15. Displacement(Step(h, D - m)) \in Nat /\ entries[Step(h, D - m)] # EMPTY
  BY <1>2, <1>6, <1>11, <1>14, DisplacementIsPast
<1>16. Displacement(Step(h, D - m)) >= D - m
  BY <1>9, <1>10, <1>11, <1>12, <1>14, <1>15
<1> QED
  BY <1>6, <1>15, <1>16

(* A probe that meets other keys only, until it meets its own, ends there. *)
LEMMA ProbeFinds ==
  ASSUME NEW E, NEW h \in Slot, NEW key, NEW D \in Slot,
         E[Step(h, D)] # EMPTY, E[Step(h, D)].key = key,
         \A d \in Slot : d < D => E[Step(h, d)] # EMPTY /\ E[Step(h, d)].key # key
  PROVE  Min({d \in Slot : LET e == E[Step(h, d)] IN e = EMPTY \/ e.key = key}) = D
<1> DEFINE S == {d \in Slot : LET e == E[Step(h, d)] IN e = EMPTY \/ e.key = key}
<1>1. D \in S /\ S \in SUBSET Nat
  BY CapIsPositive DEF Slot
<1>2. Min(S) \in S /\ Min(S) <= D
  BY <1>1, MinIsLeast
<1>3. ~ (Min(S) < D)
  BY <1>2
<1>4. Min(S) \in Nat /\ D \in Nat
  BY <1>1, <1>2
<1>5. Min(S) = D
  BY <1>2, <1>3, <1>4
<1> QED
  BY <1>5

(* Of an order in one entry, find reports the slot when there is no gap.   *)
LEMMA NoGapIsFound ==
  ASSUME NEW E, NEW h \in Slot, NEW key, NEW q \in Slot,
         {x \in Slot : E[x] # EMPTY /\ E[x].key = key} = {q},
         \A d \in Slot : d < Past(h, q) => E[Step(h, d)] # EMPTY
  PROVE  Step(h, Min({d \in Slot : LET e == E[Step(h, d)] IN e = EMPTY \/ e.key = key})) = q
<1> DEFINE D == Past(h, q)
<1>1. D \in Slot /\ Step(h, D) = q
  BY PastCases, StepOfPast
<1>2. E[q] # EMPTY /\ E[q].key = key
  OBVIOUS
<1>3. ASSUME NEW d \in Slot, d < D PROVE E[Step(h, d)].key # key
  <2>1. Step(h, d) \in Slot /\ Past(h, Step(h, d)) = d
    BY StepCases, PastOfStep
  <2>2. Step(h, d) # q
    BY <1>1, <1>3, <2>1 DEF Slot
  <2>3. E[Step(h, d)] # EMPTY
    BY <1>3
  <2> QED
    BY <2>1, <2>2, <2>3
<1>4. \A d \in Slot : d < D => E[Step(h, d)] # EMPTY /\ E[Step(h, d)].key # key
  BY <1>3
<1> HIDE DEF D
<1>5. Min({d \in Slot : LET e == E[Step(h, d)] IN e = EMPTY \/ e.key = key}) = D
  BY ONLY <1>1, <1>2, <1>4, ProbeFinds, h \in Slot
<1> QED
  BY <1>1, <1>5

(* The run behind slot i: full and away from home, and no longer than it   *)
(* can be.                                                                 *)
InRun(i, d) == entries[Step(i, d)] # EMPTY /\ Displacement(Step(i, d)) >= 1

LEMMA RunIsLongest ==
  ASSUME NEW i \in Slot
  PROVE  /\ \A d \in 1 .. RunLength(i) : InRun(i, d)
         /\ RunLength(i) + 1 \in Slot => ~ InRun(i, RunLength(i) + 1)
<1> DEFINE R == {n \in Slot : \A d \in 1 .. n : InRun(i, d)}
           n == RunLength(i)
<1>1. R \in SUBSET Nat /\ Cap \in Nat /\ \A m \in R : m <= Cap
  BY CapIsPositive DEF Slot
<1>2. 0 \in R
  BY CapIsPositive
<1>3. Max(R) \in R /\ \A m \in R : m <= Max(R)
  BY <1>1, <1>2, MaxIsMost
<1>4. n = Max(R)
  BY DEF RunLength, InRun
<1> HIDE DEF n
<1>5. n \in Slot /\ n \in Nat /\ \A d \in 1 .. n : InRun(i, d)
  BY <1>1, <1>3, <1>4
<1>6. ASSUME n + 1 \in Slot, InRun(i, n + 1) PROVE FALSE
  <2>1. \A d \in 1 .. n + 1 : d \in 1 .. n \/ d = n + 1
    BY <1>5
  <2>2. n + 1 \in R
    BY <1>5, <1>6, <2>1
  <2>3. n + 1 <= n
    BY <1>3, <1>4, <2>2
  <2> QED
    BY <1>5, <2>3
<1> QED
  BY <1>5, <1>6 DEF n

LEMMA LeftFull ==
  ASSUME NEW i \in Slot, NEW n \in Slot, n = RunLength(i), ShiftedFrom(i, n),
         NEW x \in Slot, entries[x] # EMPTY, Past(i, x) # n
  PROVE  entries'[x] # EMPTY
<1> DEFINE c == Past(i, x)
<1>1. c \in Slot /\ c \in Nat /\ n \in Nat
  BY PastCases, CapIsPositive DEF Slot
<1>2. CASE c < n
  <2>1. c < Cap - 1
    BY <1>1, <1>2, CapIsPositive DEF Slot
  <2>2. Step(x, 1) \in Slot /\ Past(i, Step(x, 1)) = c + 1
    BY <2>1, NextPast
  <2>3. Step(i, c + 1) = Step(x, 1)
    BY <2>2, StepOfPast
  <2>4. c + 1 \in 1 .. n
    BY <1>1, <1>2
  <2>5. InRun(i, c + 1)
    BY <2>4, RunIsLongest
  <2>6. entries'[x] = entries[Step(x, 1)]
    BY <1>2 DEF ShiftedFrom, Shifted
  <2> QED
    BY <2>3, <2>5, <2>6 DEF InRun
<1>3. CASE ~ (c < n)
  BY <1>3 DEF ShiftedFrom, Shifted
<1> QED
  BY <1>2, <1>3

(* The slot a shift leaves EMPTY is on no path from home to an entry that  *)
(* the shift did not move: the run would have been longer.                 *)
LEMMA HoleBeforeHome ==
  ASSUME TInv, Ordered, NEW i \in Slot, NEW n \in Slot, n = RunLength(i),
         NEW p \in Slot, entries[p] # EMPTY, Past(i, p) > n,
         NEW h \in Slot, h = home[entries[p].key],
         NEW d \in Slot, d < Past(h, p), Step(h, d) = Step(i, n)
  PROVE  FALSE
<1>1. Past(i, p) \in Slot /\ Past(h, p) \in Slot
  BY PastCases
<1>2. n + 1 \in Slot /\ 1 \in Slot /\ d + 1 \in 0 .. Past(h, p) /\ d + 1 \in Slot
      /\ d \in Nat
  BY <1>1, CapIsPositive DEF Slot
<1>3. Step(Step(h, d), 1) = Step(h, d + 1)
  BY <1>2, StepStep
<1>4. Step(Step(i, n), 1) = Step(i, n + 1)
  BY <1>2, StepStep
<1>5. /\ entries[Step(h, d + 1)] # EMPTY
      /\ Displacement(Step(h, d + 1)) >= d + 1
  BY <1>2, NoGap DEF TInv
<1>6. Displacement(Step(h, d + 1)) \in Nat
  BY <1>2, <1>5, StepCases, DisplacementIsPast DEF TInv
<1>7. Displacement(Step(h, d + 1)) >= 1
  BY <1>2, <1>5, <1>6
<1>8. InRun(i, n + 1)
  BY <1>3, <1>4, <1>5, <1>7 DEF InRun
<1> QED
  BY <1>2, <1>8, RunIsLongest

LEMMA LongWay ==
  ASSUME NEW C \in Nat, NEW i \in 0 .. C - 1, NEW h \in 0 .. C - 1,
         NEW k \in 0 .. C - 1, NEW n \in 0 .. C - 1, k <= n,
         NEW d \in 0 .. C - 1, NEW D \in 0 .. C - 1, d < D, NEW p, NEW r,
         p = IF h + D < C THEN h + D ELSE h + D - C,
         r = IF h + d < C THEN h + d ELSE h + d - C,
         p = IF i + k < C THEN i + k ELSE i + k - C,
         r = IF i + n < C THEN i + n ELSE i + n - C
  PROVE  D - d = k - n + C
OBVIOUS

(* Nor on the path to an entry it moved: that path would go all the way    *)
(* round, over the EMPTY slot of the table.                                *)
LEMMA HoleBehindEntry ==
  ASSUME TInv, Ordered, NEW w \in Slot, entries[w] = EMPTY,
         NEW i \in Slot, entries[i] # EMPTY, NEW n \in Slot, n = RunLength(i),
         NEW p \in Slot, entries[p] # EMPTY, Past(i, p) <= n,
         NEW h \in Slot, h = home[entries[p].key],
         NEW d \in Slot, d < Past(h, p), Step(h, d) = Step(i, n)
  PROVE  FALSE
<1> DEFINE k == Past(i, p)
           c == Past(i, w)
           D == Past(h, p)
           r == Step(i, n)
<1>1. k \in Slot /\ D \in Slot /\ c \in Slot
  BY PastCases
<1>2. r \in Slot /\ r = IF i + n < Cap THEN i + n ELSE i + n - Cap
  BY StepCases
<1>3. Step(h, D) = p /\ Step(i, k) = p /\ Step(i, c) = w
  BY StepOfPast
<1>4. c > n
  <2>1. c # 0
    <3>1. Step(i, 0) = i
      <4>1. Step(i, 0) = IF i + 0 < Cap THEN i + 0 ELSE i + 0 - Cap
        BY CapIsPositive, StepCases
      <4> QED
        BY <4>1, CapIsPositive DEF Slot
    <3> QED
      BY <1>3, <3>1
  <2>2. ASSUME c \in 1 .. n PROVE FALSE
    <3>1. InRun(i, c)
      BY <2>2, RunIsLongest
    <3> QED
      BY <1>3, <3>1 DEF InRun
  <2> QED
    BY <1>1, <2>1, <2>2 DEF Slot
<1>5. c - n \in Slot /\ n + (c - n) = c
  BY <1>1, <1>4, CapIsPositive DEF Slot
<1>6. Step(r, c - n) = w
  BY <1>1, <1>3, <1>5, StepStep
<1>7. d + (c - n) <= D
  <2>1. p = IF h + D < Cap THEN h + D ELSE h + D - Cap
    BY <1>1, <1>3, StepCases
  <2>2. r = IF h + d < Cap THEN h + d ELSE h + d - Cap
    BY StepCases
  <2>3. p = IF i + k < Cap THEN i + k ELSE i + k - Cap
    BY <1>1, <1>3, StepCases
  <2> HIDE DEF k, c, D, r
  <2>4. d < D /\ k <= n
    BY DEF D, k
  <2>5. Cap \in Nat /\ i \in 0 .. Cap - 1 /\ h \in 0 .. Cap - 1
        /\ k \in 0 .. Cap - 1 /\ n \in 0 .. Cap - 1
        /\ d \in 0 .. Cap - 1 /\ D \in 0 .. Cap - 1
    BY <1>1, CapIsPositive DEF Slot
  <2>6. D - d = k - n + Cap
    BY ONLY <1>2, <2>1, <2>2, <2>3, <2>4, <2>5, LongWay
  <2>7. c \in 0 .. Cap - 1
    BY <1>1 DEF Slot
  <2> QED
    BY <2>5, <2>6, <2>7
<1> DEFINE f == d + (c - n)
<1>8. f \in 0 .. D /\ f \in Slot
  BY <1>1, <1>5, <1>7, CapIsPositive DEF Slot
<1>9. Step(h, f) = w
  <2>1. Step(Step(h, d), c - n) = Step(h, f)
    BY <1>5, <1>8, StepStep
  <2> QED
    BY <1>6, <2>1
<1>10. entries[Step(h, f)] # EMPTY
  BY <1>8, NoGap DEF TInv
<1> QED
  BY <1>9, <1>10

(* The path to where an entry went is still without a gap.                 *)
LEMMA ShiftKeepsPath ==
  ASSUME TInv, Ordered, NEW w \in Slot, entries[w] = EMPTY,
         NEW i \in Slot, entries[i] # EMPTY, NEW n \in Slot, n = RunLength(i),
         ShiftedFrom(i, n), NEW p \in Slot, entries[p] # EMPTY, p # i,
         NEW h \in Slot, h = home[entries[p].key],
         NEW d \in Slot, d < Past(h, GoesTo(i, n, p))
  PROVE  entries'[Step(h, d)] # EMPTY
<1> DEFINE q == GoesTo(i, n, p)
           D == Past(h, p)
           x == Step(h, d)
<1>1. D \in Slot /\ Step(h, D) = p /\ q \in Slot
  BY PastCases, StepOfPast, EntryMoves
<1>2. Past(h, q) <= D
  <2>1. CASE Past(i, p) > n
    <3>1. ~ (Past(i, p) <= n)
      BY <2>1, PastCases, CapIsPositive DEF Slot
    <3>2. q = p
      BY <3>1 DEF GoesTo
    <3> QED
      BY <1>1, <3>2, CapIsPositive DEF Slot
  <2>2. CASE Past(i, p) <= n
    <3> DEFINE k == Past(i, p)
    <3>1. k \in 1 .. n /\ k \in Slot /\ k # 0 /\ k - 1 \in Slot
      BY <2>2, PastOfOther, CapIsPositive DEF Slot
    <3>2. Step(i, k) = p
      BY StepOfPast
    <3>3. InRun(i, k)
      BY <3>1, RunIsLongest
    <3>4. D # 0
      <4>1. Displacement(p) = D /\ Displacement(p) \in Nat
        BY DisplacementIsPast DEF TInv
      <4>2. Displacement(p) >= 1
        BY <3>2, <3>3 DEF InRun
      <4> QED
        BY <4>1, <4>2
    <3>5. D - 1 \in Slot /\ Step(p, Cap - 1) = Step(h, D - 1)
      BY <1>1, <3>4, StepBack
    <3>6. Step(p, Cap - 1) = Step(i, k - 1)
      BY <3>1, <3>2, StepBack
    <3>7. q = Step(h, D - 1)
      BY <2>2, <3>5, <3>6 DEF GoesTo
    <3>8. Past(h, q) = D - 1
      BY <3>5, <3>7, PastOfStep
    <3> QED
      BY <1>1, <3>8, CapIsPositive DEF Slot
  <2> QED
    BY <2>1, <2>2, PastCases, CapIsPositive DEF Slot
<1>3. d < D /\ d \in 0 .. D
  <2>1. Past(h, q) \in Slot
    BY <1>1, PastCases
  <2> QED
    BY <1>1, <1>2, <2>1, CapIsPositive DEF Slot
<1>4. x \in Slot /\ entries[x] # EMPTY
  BY <1>3, NoGap, StepCases DEF TInv
<1>5. Past(i, x) # n
  <2>1. SUFFICES ASSUME Past(i, x) = n PROVE FALSE
    OBVIOUS
  <2>2. Step(h, d) = Step(i, n)
    BY <1>4, <2>1, StepOfPast
  <2>3. CASE Past(i, p) > n
    BY <1>3, <2>2, <2>3, HoleBeforeHome
  <2>4. CASE Past(i, p) <= n
    BY <1>3, <2>2, <2>4, HoleBehindEntry
  <2>5. Past(i, p) \in Slot
    BY PastCases
  <2> QED
    BY <2>3, <2>4, <2>5, CapIsPositive DEF Slot
<1> QED
  BY <1>4, <1>5, LeftFull

LEMMA LeaveKeepsLookups ==
  ASSUME TInv, TInv', Ordered, NEW w \in Slot, entries[w] = EMPTY,
         NEW gone \in Ids, LeaveThroughLevel(gone),
         NEW id \in Ids, held'[id] # EMPTY
  PROVE  find(id)' = held'[id]
<1>1. held' = [held EXCEPT ![gone] = EMPTY] /\ home' = home
  BY DEF LeaveThroughLevel
<1>2. id # gone /\ held'[id] = held[id] /\ home[id] \in Slot
  BY <1>1 DEF TInv, Shape
<1>3. PICK p \in Slot : Stored(id) = {p} /\ entries[p].val = held[id]
  BY <1>2 DEF TInv, HeldStoredOnce
<1>4. PICK q \in Slot : Stored(id)' = {q} /\ entries'[q].val = held'[id]
  BY DEF TInv, HeldStoredOnce
<1> DEFINE h == home[id]
<1>5. p \in Stored(id)
  BY <1>3
<1>6. entries[p] # EMPTY /\ entries[p].key = id
  BY <1>5 DEF Stored
<1>7. q \in Stored(id)'
  BY <1>4
<1>8. entries'[q] # EMPTY /\ entries'[q].key = id
  BY <1>7 DEF Stored
<1>9. \A d \in Slot : d < Past(h, q) => entries'[Step(h, d)] # EMPTY
  <2> DEFINE i == ProbeSlot(gone)
  <2>1. i \in Slot /\ \/ entries[i] = EMPTY /\ entries' = entries
                      \/ /\ entries[i] # EMPTY /\ entries[i].key = gone
                         /\ ShiftedFrom(i, RunLength(i))
    BY LeaveCases
  <2> HIDE DEF i
  <2>2. CASE entries' = entries
    <3>1. q = p
      BY <1>3, <1>8, <2>2 DEF Stored
    <3>2. \A d \in 0 .. Past(h, p) : entries[Step(h, d)] # EMPTY
      BY <1>2, <1>6, NoGap DEF TInv
    <3>3. Past(h, p) \in Slot
      BY <1>2, PastCases
    <3> QED
      BY <2>2, <3>1, <3>2, <3>3, CapIsPositive DEF Slot
  <2>3. CASE entries[i] # EMPTY /\ entries[i].key = gone /\ ShiftedFrom(i, RunLength(i))
    <3> DEFINE n == RunLength(i)
    <3>1. n \in Slot
      BY <2>1, RunIsShort
    <3>2. p # i
      BY <1>2, <1>6, <2>3
    <3>3. GoesTo(i, n, p) \in Slot /\ entries'[GoesTo(i, n, p)] = entries[p]
      BY <2>1, <2>3, <3>1, <3>2, EntryMoves DEF ShiftedFrom
    <3>4. GoesTo(i, n, p) \in Stored(id)'
      BY <1>6, <3>3 DEF Stored
    <3>5. q = GoesTo(i, n, p)
      BY <1>4, <3>4
    <3> QED
      BY <1>2, <1>6, <2>1, <2>3, <3>1, <3>2, <3>5, ShiftKeepsPath
  <2> QED
    BY <2>1, <2>2, <2>3
<1>10. {x \in Slot : entries'[x] # EMPTY /\ entries'[x].key = id} = {q}
  BY <1>4 DEF Stored
<1>11. ProbeSlot(id)' = q
  <2> DEFINE E == entries'
             g == home[id]
  <2>1. g \in Slot /\ {x \in Slot : E[x] # EMPTY /\ E[x].key = id} = {q}
        /\ \A d \in Slot : d < Past(g, q) => E[Step(g, d)] # EMPTY
    BY <1>2, <1>9, <1>10
  <2> HIDE DEF E, g
  <2>2. Step(g, Min({d \in Slot : LET e == E[Step(g, d)]
                                  IN  e = EMPTY \/ e.key = id})) = q
    BY ONLY <2>1, q \in Slot, NoGapIsFound
  <2> QED
    BY <1>1, <2>2 DEF E, g, ProbeSlot, Stops, Step
<1> QED
  BY <1>4, <1>8, <1>11 DEF find

(* Where the table is in robin-hood order and not full, erasing an order   *)
(* leaves every other resting order where find reaches it, for every table *)
(* size and hash function: the shift of erase is right for such a table.   *)
THEOREM EraseKeepsOrderedLookups == Spec => OrderedEraseKeepsLookups
<1> DEFINE Keeps == Ordered /\ (\E i \in Slot : entries[i] = EMPTY)
                      /\ (\E id \in Ids : LeaveThroughLevel(id)) =>
                    \A id \in Ids : held'[id] # EMPTY => find(id)' = held'[id]
<1>1. TInv /\ TInv' /\ [Next]_vars => [Keeps]_vars
  BY LeaveKeepsLookups
<1>2. [][Keeps]_vars => OrderedEraseKeepsLookups
  BY DEF OrderedEraseKeepsLookups
<1> QED
  BY <1>1, <1>2, TableInductive, PTL DEF Spec
=============================================================================
