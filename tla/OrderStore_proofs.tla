------------------------- MODULE OrderStore_proofs -------------------------
(***************************************************************************)
(* The pool and the level lists keep their links exact, for every number   *)
(* of slots, every window and every history of arrivals, cancels, matches  *)
(* and slides, halfway through a loop included.                            *)
(***************************************************************************)
EXTENDS OrderStore, SequenceTheorems, FiniteSetTheorems, WellFoundedInduction,
        TLAPS

-----------------------------------------------------------------------------
(* Least elements.                                                         *)

LEMMA MinIsLeast ==
  ASSUME NEW S \in SUBSET Nat, S # {}
  PROVE  Min(S) \in S /\ \A y \in S : Min(S) <= y
<1>1. PICK x \in S : \A y \in S : ~ <<y, x>> \in OpToRel(<, Nat)
  BY NatLessThanWellFounded, WFMin
<1>2. ASSUME NEW y \in S PROVE x <= y
  <2>1. y \in Nat /\ x \in Nat
    OBVIOUS
  <2>2. SUFFICES ASSUME y < x PROVE FALSE
    BY <2>1
  <2>3. <<y, x>> \in OpToRel(<, Nat)
    BY <2>1, <2>2 DEF OpToRel
  <2> QED
    BY <1>1, <2>3
<1> QED
  BY <1>2 DEF Min

-----------------------------------------------------------------------------
(* A walk along the links gives the list, if the links are those of a list.*)

(* Where a walk from h along the links nx is after k steps.                *)
Trail(nx, h) ==
  CHOOSE at : at = [k \in 0 .. MaxOrders |->
    IF k = 0 THEN h ELSE IF at[k - 1] = NULL THEN NULL ELSE nx[at[k - 1]]]

Steps(nx, h) ==
  Min({k \in 0 .. MaxOrders : k = MaxOrders \/ Trail(nx, h)[k] = NULL})

LEMMA WalkIsTrail ==
  ASSUME NEW h
  PROVE  Walk(h) = [k \in 1 .. Steps(next_idx, h) |-> Trail(next_idx, h)[k - 1]]
BY DEF Walk, Trail, Steps

LEMMA WalkIsTrailAfter ==
  ASSUME NEW h
  PROVE  Walk(h)' = [k \in 1 .. Steps(next_idx', h') |-> Trail(next_idx', h')[k - 1]]
BY DEF Walk, Trail, Steps

LEMMA SlotsAreNumbers ==
  /\ MaxOrders \in Nat \ {0} /\ NULL \notin Slots
  /\ \A s \in Slots : s \in Nat /\ s # NULL
BY StoreAssumption DEF Slots

(* The slots of q, each linked to the next, and h the first of them.       *)
IsChain(nx, h, q) ==
  /\ h = IF q = <<>> THEN NULL ELSE q[1]
  /\ \A k \in 1 .. Len(q) : nx[q[k]] = IF k = Len(q) THEN NULL ELSE q[k + 1]

LEMMA TrailOfChain ==
  ASSUME NEW nx, NEW h, NEW q \in Seq(Slots), Len(q) <= MaxOrders, IsChain(nx, h, q)
  PROVE  [k \in 1 .. Steps(nx, h) |-> Trail(nx, h)[k - 1]] = q
<1> DEFINE D == 0 .. MaxOrders
           n == Len(q)
           f == [k \in D |-> IF k < n THEN q[k + 1] ELSE NULL]
           g == Trail(nx, h)
<1>1. /\ MaxOrders \in Nat \ {0} /\ n \in Nat /\ n <= MaxOrders
      /\ \A k \in 1 .. n : q[k] \in Slots /\ q[k] # NULL
  BY SlotsAreNumbers
<1>2. f = [k \in D |->
             IF k = 0 THEN h ELSE IF f[k - 1] = NULL THEN NULL ELSE nx[f[k - 1]]]
  <2> SUFFICES ASSUME NEW k \in D
               PROVE  (IF k < n THEN q[k + 1] ELSE NULL) =
                      IF k = 0 THEN h
                      ELSE IF f[k - 1] = NULL THEN NULL ELSE nx[f[k - 1]]
    OBVIOUS
  <2>1. CASE k = 0
    <3>1. n = 0 <=> q = <<>>
      OBVIOUS
    <3> QED
      BY <1>1, <2>1, <3>1 DEF IsChain
  <2>2. CASE k # 0
    <3>1. k - 1 \in D /\ k \in Nat
      BY <1>1, <2>2
    <3>2. f[k - 1] = IF k - 1 < n THEN q[k] ELSE NULL
      BY <3>1
    <3>3. CASE k - 1 < n
      <4>1. k \in 1 .. n
        BY <1>1, <2>2, <3>1, <3>3
      <4>2. f[k - 1] = q[k] /\ q[k] # NULL
        BY <1>1, <3>2, <3>3, <4>1
      <4>3. nx[q[k]] = IF k = n THEN NULL ELSE q[k + 1]
        BY <4>1 DEF IsChain
      <4> QED
        BY <1>1, <2>2, <4>1, <4>2, <4>3
    <3>4. CASE ~ (k - 1 < n)
      <4>1. ~ (k < n)
        BY <1>1, <3>1, <3>4
      <4> QED
        BY <2>2, <3>2, <3>4, <4>1
    <3> QED
      BY <3>3, <3>4
  <2> QED
    BY <2>1, <2>2
<1>3. g = [k \in D |->
             IF k = 0 THEN h ELSE IF g[k - 1] = NULL THEN NULL ELSE nx[g[k - 1]]]
  <2> HIDE DEF f
  <2>1. \E at : at = [k \in D |->
          IF k = 0 THEN h ELSE IF at[k - 1] = NULL THEN NULL ELSE nx[at[k - 1]]]
    BY <1>2
  <2> QED
    BY <2>1 DEF Trail
<1>4. \A k \in D : /\ g[k] = IF k = 0 THEN h
                             ELSE IF g[k - 1] = NULL THEN NULL ELSE nx[g[k - 1]]
                   /\ f[k] = IF k = 0 THEN h
                             ELSE IF f[k - 1] = NULL THEN NULL ELSE nx[f[k - 1]]
  <2> HIDE DEF f, g
  <2> QED
    BY <1>2, <1>3
<1>5. \A k \in D : g[k] = f[k]
  <2> HIDE DEF f, g
  <2> DEFINE Bad == {k \in D : g[k] # f[k]}
  <2>1. SUFFICES ASSUME Bad # {} PROVE FALSE
    OBVIOUS
  <2>2. Bad \in SUBSET Nat
    BY <1>1
  <2>3. PICK m \in D : g[m] # f[m] /\ \A k \in Bad : m <= k
    BY <2>1, <2>2, MinIsLeast
  <2>4. m # 0
    BY <1>4, <2>3
  <2>5. m - 1 \in D /\ m - 1 < m
    BY <1>1, <2>3, <2>4
  <2>6. g[m - 1] = f[m - 1]
    BY <2>3, <2>5
  <2> QED
    BY <1>4, <2>3, <2>4, <2>6
<1>6. Steps(nx, h) = n
  <2> DEFINE S == {k \in D : k = MaxOrders \/ g[k] = NULL}
  <2>1. S \in SUBSET Nat /\ S # {}
    BY <1>1
  <2>2. Min(S) \in S /\ \A k \in S : Min(S) <= k
    BY <2>1, MinIsLeast
  <2>3. n \in S
    <3>1. n \in D /\ f[n] = NULL
      BY <1>1
    <3> QED
      BY <1>5, <3>1
  <2>4. \A k \in S : n <= k
    <3> SUFFICES ASSUME NEW k \in D, k < n, k = MaxOrders \/ g[k] = NULL PROVE FALSE
      BY <1>1
    <3>1. f[k] = q[k + 1] /\ k + 1 \in 1 .. n
      BY <1>1
    <3> QED
      BY <1>1, <1>5, <3>1
  <2>5. Min(S) = n
    BY <1>1, <2>1, <2>2, <2>3, <2>4
  <2> QED
    BY <2>5 DEF Steps
<1>7. \A k \in 1 .. n : g[k - 1] = q[k]
  <2> SUFFICES ASSUME NEW k \in 1 .. n PROVE g[k - 1] = q[k]
    OBVIOUS
  <2>1. k - 1 \in D /\ k - 1 < n /\ (k - 1) + 1 = k
    BY <1>1
  <2> QED
    BY <1>5, <2>1
<1> HIDE DEF g
<1>8. [k \in 1 .. n |-> g[k - 1]] = [k \in 1 .. n |-> q[k]]
  BY <1>7
<1>9. q = [k \in 1 .. n |-> q[k]]
  OBVIOUS
<1> QED
  BY <1>6, <1>8, <1>9 DEF g

-----------------------------------------------------------------------------
(* One list: taking out the m-th slot, adding one behind, one in front.    *)

Cut(r, m)  == [k \in 1 .. Len(r) - 1 |-> IF k < m THEN r[k] ELSE r[k + 1]]
Push(s, r) == [k \in 1 .. Len(r) + 1 |-> IF k = 1 THEN s ELSE r[k - 1]]

LEMMA CutIsSeq ==
  ASSUME NEW r \in Seq(Slots), NEW m \in 1 .. Len(r)
  PROVE  /\ Cut(r, m) \in Seq(Slots) /\ Len(Cut(r, m)) = Len(r) - 1
         /\ Len(r) - 1 \in Nat
         /\ \A k \in 1 .. Len(r) - 1 :
              Cut(r, m)[k] = IF k < m THEN r[k] ELSE r[k + 1]
<1>1. Len(r) \in Nat /\ Len(r) - 1 \in Nat
  OBVIOUS
<1>2. \A k \in 1 .. Len(r) - 1 : k \in 1 .. Len(r) /\ k + 1 \in 1 .. Len(r)
  BY <1>1
<1>3. \A k \in 1 .. Len(r) - 1 : (IF k < m THEN r[k] ELSE r[k + 1]) \in Slots
  BY <1>2
<1>4. Cut(r, m) \in [1 .. Len(r) - 1 -> Slots]
  BY <1>3 DEF Cut
<1>5. Cut(r, m) \in Seq(Slots)
  BY <1>1, <1>4, IsASeq
<1>6. DOMAIN Cut(r, m) = 1 .. Len(r) - 1
  BY <1>4
<1>7. Len(Cut(r, m)) = Len(r) - 1
  BY <1>1, <1>5, <1>6
<1> QED
  BY <1>1, <1>5, <1>7 DEF Cut

LEMMA PushIsSeq ==
  ASSUME NEW r \in Seq(Slots), NEW s \in Slots
  PROVE  /\ Push(s, r) \in Seq(Slots) /\ Len(Push(s, r)) = Len(r) + 1
         /\ Len(r) \in Nat
         /\ \A k \in 1 .. Len(r) + 1 : Push(s, r)[k] = IF k = 1 THEN s ELSE r[k - 1]
<1>1. Len(r) \in Nat /\ Len(r) + 1 \in Nat
  OBVIOUS
<1>2. \A k \in 1 .. Len(r) + 1 : k # 1 => k - 1 \in 1 .. Len(r)
  BY <1>1
<1>3. \A k \in 1 .. Len(r) + 1 : (IF k = 1 THEN s ELSE r[k - 1]) \in Slots
  BY <1>2
<1>4. Push(s, r) \in [1 .. Len(r) + 1 -> Slots]
  BY <1>3 DEF Push
<1>5. Push(s, r) \in Seq(Slots)
  BY <1>1, <1>4, IsASeq
<1>6. DOMAIN Push(s, r) = 1 .. Len(r) + 1
  BY <1>4
<1>7. Len(Push(s, r)) = Len(r) + 1
  BY <1>1, <1>5, <1>6
<1> QED
  BY <1>1, <1>5, <1>7 DEF Push

LEMMA AppendIsSeq ==
  ASSUME NEW r \in Seq(Slots), NEW s \in Slots
  PROVE  /\ Append(r, s) \in Seq(Slots) /\ Len(Append(r, s)) = Len(r) + 1
         /\ Len(r) \in Nat
         /\ \A k \in 1 .. Len(r) + 1 :
              Append(r, s)[k] = IF k = Len(r) + 1 THEN s ELSE r[k]
OBVIOUS

Distinct(r) == \A j, k \in 1 .. Len(r) : r[j] = r[k] => j = k

LEMMA SameChain ==
  ASSUME NEW r, NEW nx, NEW nx2, NEW h, IsChain(nx, h, r),
         \A k \in 1 .. Len(r) : nx2[r[k]] = nx[r[k]]
  PROVE  IsChain(nx2, h, r)
BY DEF IsChain

LEMMA EmptyIsNothing ==
  ASSUME NEW r \in Seq(Slots)
  PROVE  Len(r) \in Nat /\ (r = <<>> <=> Len(r) = 0)
OBVIOUS

LEMMA CutChain ==
  ASSUME NEW r \in Seq(Slots), NEW m \in 1 .. Len(r), NEW nx, NEW nx2, NEW h,
         IsChain(nx, h, r),
         \A k \in 1 .. Len(r) : k # m /\ k # m - 1 => nx2[r[k]] = nx[r[k]],
         m > 1 => nx2[r[m - 1]] = nx[r[m]]
  PROVE  IsChain(nx2, IF m = 1 THEN nx[r[m]] ELSE h, Cut(r, m))
<1> DEFINE c == Cut(r, m)
           n == Len(r) - 1
<1>1. /\ c \in Seq(Slots) /\ Len(c) = n /\ n \in Nat
      /\ \A k \in 1 .. n : c[k] = IF k < m THEN r[k] ELSE r[k + 1]
  BY CutIsSeq
<1>2. c = <<>> <=> n = 0
  BY <1>1, EmptyIsNothing
<1>3. \A k \in 1 .. Len(r) : nx[r[k]] = IF k = Len(r) THEN NULL ELSE r[k + 1]
  BY DEF IsChain
<1> HIDE DEF c
<1>4. (IF m = 1 THEN nx[r[m]] ELSE h) = IF c = <<>> THEN NULL ELSE c[1]
  <2>1. CASE m = 1
    BY <1>1, <1>2, <1>3, <2>1
  <2>2. CASE m # 1
    <3>1. 1 \in 1 .. n /\ 1 < m /\ r # <<>>
      BY <1>1, <2>2
    <3> QED
      BY <1>1, <1>2, <2>2, <3>1 DEF IsChain
  <2> QED
    BY <2>1, <2>2
<1>5. ASSUME NEW k \in 1 .. n
      PROVE  nx2[c[k]] = IF k = n THEN NULL ELSE c[k + 1]
  <2>1. k \in 1 .. Len(r) /\ k + 1 \in 1 .. Len(r) /\ k \in Nat
    BY <1>1
  <2>2. CASE k < m - 1
    <3>1. k # m /\ k # m - 1 /\ k < m /\ k + 1 < m /\ k + 1 \in 1 .. n
      BY <1>1, <2>2
    <3>2. c[k] = r[k] /\ c[k + 1] = r[k + 1]
      BY <1>1, <3>1
    <3>3. k # n /\ k # Len(r)
      BY <1>1, <3>1
    <3> QED
      BY <1>3, <2>1, <3>1, <3>2, <3>3
  <2>3. CASE k = m - 1
    <3>1. m > 1 /\ k < m /\ c[k] = r[k]
      BY <1>1, <2>3
    <3>2. nx2[r[k]] = nx[r[m]]
      BY <2>3, <3>1
    <3>3. nx[r[m]] = IF m = Len(r) THEN NULL ELSE r[m + 1]
      BY <1>3
    <3>4. m = Len(r) <=> k = n
      BY <1>1, <2>3
    <3>5. k # n => c[k + 1] = r[m + 1]
      BY <1>1, <2>3
    <3> QED
      BY <3>1, <3>2, <3>3, <3>4, <3>5
  <2>4. CASE k > m - 1
    <3>1. ~ (k < m) /\ k + 1 # m /\ k + 1 # m - 1 /\ ~ (k + 1 < m)
      BY <2>4
    <3>2. c[k] = r[k + 1]
      BY <1>1, <3>1
    <3>3. nx2[r[k + 1]] = nx[r[k + 1]]
      BY <2>1, <3>1
    <3>4. nx[r[k + 1]] = IF k + 1 = Len(r) THEN NULL ELSE r[(k + 1) + 1]
      BY <1>3, <2>1
    <3>5. k + 1 = Len(r) <=> k = n
      BY <1>1, <2>1
    <3>6. k # n => c[k + 1] = r[(k + 1) + 1]
      <4>1. k # n => k + 1 \in 1 .. n
        BY <1>1
      <4> QED
        BY <1>1, <3>1, <4>1
    <3> QED
      BY <3>2, <3>3, <3>4, <3>5, <3>6
  <2> QED
    BY <2>1, <2>2, <2>3, <2>4
<1>6. \A k \in 1 .. Len(c) : nx2[c[k]] = IF k = Len(c) THEN NULL ELSE c[k + 1]
  BY <1>1, <1>5
<1> QED
  BY <1>4, <1>6 DEF IsChain, c

LEMMA AppendChain ==
  ASSUME NEW r \in Seq(Slots), NEW s \in Slots, NEW nx, NEW nx2, NEW h,
         IsChain(nx, h, r), nx2[s] = NULL,
         \A k \in 1 .. Len(r) : nx2[r[k]] = IF k = Len(r) THEN s ELSE nx[r[k]]
  PROVE  IsChain(nx2, IF r = <<>> THEN s ELSE h, Append(r, s))
<1> DEFINE c == Append(r, s)
           n == Len(r) + 1
<1>1. /\ c \in Seq(Slots) /\ Len(c) = n /\ Len(r) \in Nat
      /\ \A k \in 1 .. n : c[k] = IF k = n THEN s ELSE r[k]
  BY AppendIsSeq
<1>2. (r = <<>> <=> Len(r) = 0) /\ c # <<>>
  BY <1>1, EmptyIsNothing
<1>3. \A k \in 1 .. Len(r) : nx[r[k]] = IF k = Len(r) THEN NULL ELSE r[k + 1]
  BY DEF IsChain
<1> HIDE DEF c
<1>4. (IF r = <<>> THEN s ELSE h) = c[1]
  <2>1. c[1] = IF 1 = n THEN s ELSE r[1]
    BY <1>1
  <2> QED
    BY <1>1, <1>2, <2>1 DEF IsChain
<1>5. ASSUME NEW k \in 1 .. n
      PROVE  nx2[c[k]] = IF k = n THEN NULL ELSE c[k + 1]
  <2>1. CASE k = n
    BY <1>1, <2>1
  <2>2. CASE k # n
    <3>1. k \in 1 .. Len(r) /\ k + 1 \in 1 .. n
      BY <1>1, <2>2
    <3>2. c[k] = r[k] /\ c[k + 1] = IF k + 1 = n THEN s ELSE r[k + 1]
      BY <1>1, <2>2, <3>1
    <3>3. k = Len(r) <=> k + 1 = n
      BY <1>1
    <3> QED
      BY <1>3, <2>2, <3>1, <3>2, <3>3
  <2> QED
    BY <2>1, <2>2
<1>6. \A k \in 1 .. Len(c) : nx2[c[k]] = IF k = Len(c) THEN NULL ELSE c[k + 1]
  BY <1>1, <1>5
<1> QED
  BY <1>2, <1>4, <1>6 DEF IsChain, c

LEMMA PushChain ==
  ASSUME NEW r \in Seq(Slots), NEW s \in Slots, NEW nx, NEW nx2, NEW h,
         IsChain(nx, h, r), nx2[s] = h,
         \A k \in 1 .. Len(r) : nx2[r[k]] = nx[r[k]]
  PROVE  IsChain(nx2, s, Push(s, r))
<1> DEFINE c == Push(s, r)
           n == Len(r) + 1
<1>1. /\ c \in Seq(Slots) /\ Len(c) = n /\ Len(r) \in Nat
      /\ \A k \in 1 .. n : c[k] = IF k = 1 THEN s ELSE r[k - 1]
  BY PushIsSeq
<1>2. (r = <<>> <=> Len(r) = 0) /\ c # <<>> /\ c[1] = s
  BY <1>1, EmptyIsNothing
<1>3. /\ h = IF r = <<>> THEN NULL ELSE r[1]
      /\ \A k \in 1 .. Len(r) : nx[r[k]] = IF k = Len(r) THEN NULL ELSE r[k + 1]
  BY DEF IsChain
<1> HIDE DEF c
<1>5. ASSUME NEW k \in 1 .. n
      PROVE  nx2[c[k]] = IF k = n THEN NULL ELSE c[k + 1]
  <2>1. CASE k = 1
    <3>1. k # n => c[k + 1] = r[1]
      BY <1>1, <2>1
    <3>2. k = n <=> r = <<>>
      BY <1>1, <1>2, <2>1
    <3> QED
      BY <1>2, <1>3, <2>1, <3>1, <3>2
  <2>2. CASE k # 1
    <3> DEFINE j == k - 1
    <3>1. j \in 1 .. Len(r) /\ k = j + 1
      BY <1>1, <2>2
    <3>2. c[k] = r[j]
      BY <1>1, <2>2
    <3>3. k # n => c[k + 1] = r[j + 1]
      BY <1>1, <2>2
    <3>4. k = n <=> j = Len(r)
      BY <1>1, <3>1
    <3> HIDE DEF j
    <3> QED
      BY <1>3, <3>1, <3>2, <3>3, <3>4
  <2> QED
    BY <2>1, <2>2
<1>6. \A k \in 1 .. Len(c) : nx2[c[k]] = IF k = Len(c) THEN NULL ELSE c[k + 1]
  BY <1>1, <1>5
<1> QED
  BY <1>2, <1>6 DEF IsChain, c

(* The links the other way.                                                *)
Backed(pv, r) ==
  \A k \in 1 .. Len(r) : pv[r[k]] = IF k = 1 THEN NULL ELSE r[k - 1]

LEMMA SameBacked ==
  ASSUME NEW r, NEW pv, NEW pv2, Backed(pv, r),
         \A k \in 1 .. Len(r) : pv2[r[k]] = pv[r[k]]
  PROVE  Backed(pv2, r)
BY DEF Backed

LEMMA CutBacked ==
  ASSUME NEW r \in Seq(Slots), NEW m \in 1 .. Len(r), NEW pv, NEW pv2,
         Backed(pv, r),
         \A k \in 1 .. Len(r) : k # m /\ k # m + 1 => pv2[r[k]] = pv[r[k]],
         m < Len(r) => pv2[r[m + 1]] = pv[r[m]]
  PROVE  Backed(pv2, Cut(r, m))
<1> DEFINE c == Cut(r, m)
           n == Len(r) - 1
<1>1. /\ c \in Seq(Slots) /\ Len(c) = n /\ n \in Nat
      /\ \A k \in 1 .. n : c[k] = IF k < m THEN r[k] ELSE r[k + 1]
  BY CutIsSeq
<1>2. \A k \in 1 .. Len(r) : pv[r[k]] = IF k = 1 THEN NULL ELSE r[k - 1]
  BY DEF Backed
<1> HIDE DEF c
<1>3. ASSUME NEW k \in 1 .. n
      PROVE  pv2[c[k]] = IF k = 1 THEN NULL ELSE c[k - 1]
  <2>1. k \in 1 .. Len(r) /\ k + 1 \in 1 .. Len(r) /\ k \in Nat
    BY <1>1
  <2>2. k # 1 => k - 1 \in 1 .. n
    BY <1>1
  <2>3. CASE k < m
    <3>1. c[k] = r[k] /\ pv2[r[k]] = pv[r[k]]
      BY <1>1, <2>1, <2>3
    <3>2. k # 1 => c[k - 1] = r[k - 1]
      BY <1>1, <2>2, <2>3
    <3> QED
      BY <1>2, <2>1, <3>1, <3>2
  <2>4. CASE k = m
    <3>1. m < Len(r) /\ c[k] = r[m + 1]
      BY <1>1, <2>4
    <3>2. pv2[c[k]] = pv[r[m]]
      BY <3>1
    <3>3. k # 1 => c[k - 1] = r[k - 1]
      <4>1. k # 1 => k - 1 < m
        BY <2>1, <2>4
      <4> QED
        BY <1>1, <2>2, <4>1
    <3> QED
      BY <1>2, <2>4, <3>2, <3>3
  <2>5. CASE k > m
    <3>1. c[k] = r[k + 1] /\ k + 1 # m /\ k + 1 # m + 1 /\ k # 1 /\ ~ (k - 1 < m)
      BY <1>1, <2>1, <2>5
    <3>2. c[k - 1] = r[k]
      <4>1. c[k - 1] = r[(k - 1) + 1] /\ (k - 1) + 1 = k
        BY <1>1, <2>2, <3>1
      <4> QED
        BY <4>1
    <3>3. pv2[r[k + 1]] = pv[r[k + 1]]
      BY <2>1, <3>1
    <3>4. pv[r[k + 1]] = r[k]
      <4>1. pv[r[k + 1]] = r[(k + 1) - 1] /\ (k + 1) - 1 = k
        BY <1>2, <2>1
      <4> QED
        BY <4>1
    <3> QED
      BY <3>1, <3>2, <3>3, <3>4
  <2> QED
    BY <2>1, <2>3, <2>4, <2>5
<1>4. \A k \in 1 .. Len(c) : pv2[c[k]] = IF k = 1 THEN NULL ELSE c[k - 1]
  BY <1>1, <1>3
<1> QED
  BY <1>4 DEF Backed, c

LEMMA AppendBacked ==
  ASSUME NEW r \in Seq(Slots), NEW s \in Slots, NEW pv, NEW pv2, Backed(pv, r),
         pv2[s] = IF r = <<>> THEN NULL ELSE r[Len(r)],
         \A k \in 1 .. Len(r) : pv2[r[k]] = pv[r[k]]
  PROVE  Backed(pv2, Append(r, s))
<1> DEFINE c == Append(r, s)
           n == Len(r) + 1
<1>1. /\ c \in Seq(Slots) /\ Len(c) = n /\ Len(r) \in Nat
      /\ \A k \in 1 .. n : c[k] = IF k = n THEN s ELSE r[k]
  BY AppendIsSeq
<1>2. r = <<>> <=> Len(r) = 0
  BY EmptyIsNothing
<1>3. \A k \in 1 .. Len(r) : pv[r[k]] = IF k = 1 THEN NULL ELSE r[k - 1]
  BY DEF Backed
<1> HIDE DEF c
<1>4. ASSUME NEW k \in 1 .. n
      PROVE  pv2[c[k]] = IF k = 1 THEN NULL ELSE c[k - 1]
  <2>1. k # 1 => k - 1 \in 1 .. Len(r) /\ c[k - 1] = r[k - 1]
    BY <1>1
  <2>2. CASE k = n
    <3>1. c[k] = s /\ k - 1 = Len(r)
      BY <1>1, <2>2
    <3> QED
      BY <1>1, <1>2, <2>1, <2>2, <3>1
  <2>3. CASE k # n
    <3>1. k \in 1 .. Len(r) /\ c[k] = r[k]
      BY <1>1, <2>3
    <3> QED
      BY <1>3, <2>1, <3>1
  <2> QED
    BY <2>2, <2>3
<1>5. \A k \in 1 .. Len(c) : pv2[c[k]] = IF k = 1 THEN NULL ELSE c[k - 1]
  BY <1>1, <1>4
<1> QED
  BY <1>5 DEF Backed, c

-----------------------------------------------------------------------------
(* A family of lists that share out the slots: every slot is in one place. *)

Shared(K, q) ==
  /\ q \in [K -> Seq(Slots)]
  /\ \A a, b \in K : \A j \in 1 .. Len(q[a]), k \in 1 .. Len(q[b]) :
       q[a][j] = q[b][k] => a = b /\ j = k
  /\ \A s \in Slots : \E a \in K : \E k \in 1 .. Len(q[a]) : q[a][k] = s

Linked(K, nx, hd, q) == \A a \in K : IsChain(nx, hd[a], q[a])

LEMMA OnePlace ==
  ASSUME NEW K, NEW q, Shared(K, q), NEW a \in K, NEW b \in K,
         NEW j \in 1 .. Len(q[a]), NEW k \in 1 .. Len(q[b]), q[a][j] = q[b][k]
  PROVE  a = b /\ j = k
BY DEF Shared

(* Where each place of q is to be found in q2.                             *)
Rearranges(K, q, q2, to) ==
  /\ \A c \in K : \A k \in 1 .. Len(q[c]) :
       \E d \in K : \E j \in 1 .. Len(q2[d]) : q2[d][j] = q[c][k]
  /\ \A d \in K : \A j \in 1 .. Len(q2[d]) :
       \E c \in K : \E k \in 1 .. Len(q[c]) :
         to[<<c, k>>] = <<d, j>> /\ q2[d][j] = q[c][k]

LEMMA StillShared ==
  ASSUME NEW K, NEW q, NEW q2 \in [K -> Seq(Slots)], NEW to,
         Shared(K, q), Rearranges(K, q, q2, to)
  PROVE  Shared(K, q2)
<1>1. ASSUME NEW a \in K, NEW b \in K, NEW j \in 1 .. Len(q2[a]),
             NEW k \in 1 .. Len(q2[b]), q2[a][j] = q2[b][k]
      PROVE  a = b /\ j = k
  <2>1. PICK c \in K : \E m \in 1 .. Len(q[c]) :
          to[<<c, m>>] = <<a, j>> /\ q2[a][j] = q[c][m]
    BY DEF Rearranges
  <2>2. PICK m \in 1 .. Len(q[c]) : to[<<c, m>>] = <<a, j>> /\ q2[a][j] = q[c][m]
    BY <2>1
  <2>3. PICK d \in K : \E n \in 1 .. Len(q[d]) :
          to[<<d, n>>] = <<b, k>> /\ q2[b][k] = q[d][n]
    BY DEF Rearranges
  <2>4. PICK n \in 1 .. Len(q[d]) : to[<<d, n>>] = <<b, k>> /\ q2[b][k] = q[d][n]
    BY <2>3
  <2>5. c = d /\ m = n
    <3>1. q[c][m] = q[d][n]
      BY <1>1, <2>2, <2>4
    <3> QED
      BY <3>1, OnePlace
  <2>6. <<a, j>> = <<b, k>>
    BY <2>2, <2>4, <2>5
  <2> QED
    BY <2>6
<1>2. ASSUME NEW s \in Slots
      PROVE  \E a \in K : \E k \in 1 .. Len(q2[a]) : q2[a][k] = s
  <2>1. PICK c \in K : \E m \in 1 .. Len(q[c]) : q[c][m] = s
    BY DEF Shared
  <2>2. PICK m \in 1 .. Len(q[c]) : q[c][m] = s
    BY <2>1
  <2> QED
    BY <2>2 DEF Rearranges
<1> QED
  BY <1>1, <1>2 DEF Shared

LEMMA SharedDistinct ==
  ASSUME NEW K, NEW q, Shared(K, q), NEW a \in K
  PROVE  /\ q[a] \in Seq(Slots)
         /\ \A j, k \in 1 .. Len(q[a]) : q[a][j] = q[a][k] => j = k
BY DEF Shared

(* The two ways a slot changes lists: from the front of a to the back of   *)
(* b, and from any place of a to the front of the free list f.             *)
ToBack(K, q, a, b) ==
  [c \in K |-> IF c = a THEN Cut(q[a], 1)
               ELSE IF c = b THEN Append(q[b], q[a][1]) ELSE q[c]]

ToFront(K, q, a, m, f) ==
  [c \in K |-> IF c = a THEN Cut(q[a], m)
               ELSE IF c = f THEN Push(q[a][m], q[f]) ELSE q[c]]

LEMMA ToBackShared ==
  ASSUME NEW K, NEW q, Shared(K, q), NEW a \in K, NEW b \in K, a # b, q[a] # <<>>
  PROVE  Shared(K, ToBack(K, q, a, b))
<1> DEFINE q2 == ToBack(K, q, a, b)
           s  == q[a][1]
           n  == Len(q[b])
           P  == K \X Nat
           to == [p \in P |-> IF p[1] = a THEN IF p[2] = 1 THEN <<b, n + 1>>
                                               ELSE <<a, p[2] - 1>>
                              ELSE p]
<1>1. /\ \A c \in K : q[c] \in Seq(Slots) /\ Len(q[c]) \in Nat
      /\ 1 \in 1 .. Len(q[a]) /\ s \in Slots
  <2>1. \A c \in K : q[c] \in Seq(Slots) /\ Len(q[c]) \in Nat
    BY EmptyIsNothing DEF Shared
  <2>2. Len(q[a]) # 0
    BY <2>1, EmptyIsNothing
  <2>3. 1 \in 1 .. Len(q[a])
    BY <2>1, <2>2
  <2>4. s \in Slots
    BY <2>1, <2>3
  <2> QED
    BY <2>1, <2>3, <2>4
<1>2. /\ q2[a] \in Seq(Slots) /\ Len(q2[a]) = Len(q[a]) - 1
      /\ \A k \in 1 .. Len(q[a]) - 1 : q2[a][k] = q[a][k + 1]
  <2>1. q2[a] = Cut(q[a], 1)
    BY DEF ToBack
  <2>2. /\ Cut(q[a], 1) \in Seq(Slots) /\ Len(Cut(q[a], 1)) = Len(q[a]) - 1
        /\ \A k \in 1 .. Len(q[a]) - 1 :
             Cut(q[a], 1)[k] = IF k < 1 THEN q[a][k] ELSE q[a][k + 1]
    BY <1>1, CutIsSeq
  <2> QED
    BY <1>1, <2>1, <2>2
<1>3. /\ q2[b] \in Seq(Slots) /\ Len(q2[b]) = n + 1
      /\ \A k \in 1 .. n + 1 : q2[b][k] = IF k = n + 1 THEN s ELSE q[b][k]
  <2>1. q2[b] = Append(q[b], s)
    BY DEF ToBack
  <2> QED
    BY <1>1, <2>1, AppendIsSeq
<1>4. \A c \in K : c # a /\ c # b => q2[c] = q[c]
  BY DEF ToBack
<1>5. q2 \in [K -> Seq(Slots)]
  <2>1. \A c \in K : q2[c] \in Seq(Slots)
    BY <1>1, <1>2, <1>3, <1>4
  <2> QED
    BY <2>1 DEF ToBack
<1>6. /\ \A c \in K : \A k \in Nat : c # a => to[<<c, k>>] = <<c, k>>
      /\ to[<<a, 1>>] = <<b, n + 1>>
      /\ \A k \in Nat : k # 1 => to[<<a, k>>] = <<a, k - 1>>
  OBVIOUS
<1> HIDE DEF q2, to, n, s
<1>7. n \in Nat
  BY <1>1 DEF n
<1>8. ASSUME NEW c \in K, NEW k \in 1 .. Len(q[c])
      PROVE  \E d \in K : \E j \in 1 .. Len(q2[d]) : q2[d][j] = q[c][k]
  <2>1. CASE c = a /\ k = 1
    <3>1. n + 1 \in 1 .. Len(q2[b]) /\ q2[b][n + 1] = s
      BY <1>3, <1>7
    <3> QED
      BY <2>1, <3>1 DEF s
  <2>2. CASE c = a /\ k # 1
    <3>1. k - 1 \in 1 .. Len(q[a]) - 1 /\ (k - 1) + 1 = k
      BY <1>1, <2>2
    <3>2. k - 1 \in 1 .. Len(q2[a]) /\ q2[a][k - 1] = q[a][k]
      BY <1>2, <3>1
    <3> QED
      BY <2>2, <3>2
  <2>3. CASE c = b
    <3>1. k \in 1 .. Len(q2[b]) /\ k # n + 1 /\ k \in 1 .. n + 1
      BY <1>3, <1>7, <2>3 DEF n
    <3> QED
      BY <1>3, <2>3, <3>1
  <2>4. CASE c # a /\ c # b
    BY <1>4, <2>4
  <2> QED
    BY <2>1, <2>2, <2>3, <2>4
<1>9. ASSUME NEW d \in K, NEW j \in 1 .. Len(q2[d])
      PROVE  \E c \in K : \E k \in 1 .. Len(q[c]) :
               to[<<c, k>>] = <<d, j>> /\ q2[d][j] = q[c][k]
  <2>1. CASE d = a
    <3>1. /\ j \in 1 .. Len(q[a]) - 1 /\ j + 1 \in 1 .. Len(q[a])
          /\ j + 1 # 1 /\ (j + 1) - 1 = j /\ j + 1 \in Nat
      BY <1>1, <1>2, <2>1
    <3>2. to[<<a, j + 1>>] = <<a, j>>
      BY <1>6, <3>1
    <3> QED
      BY <1>2, <2>1, <3>1, <3>2
  <2>2. CASE d = b /\ j = n + 1
    BY <1>1, <1>3, <1>6, <2>2 DEF s
  <2>3. CASE d = b /\ j # n + 1
    <3>1. j \in 1 .. Len(q[b]) /\ j \in Nat
      BY <1>3, <1>7, <2>3 DEF n
    <3>2. q2[b][j] = q[b][j]
      BY <1>3, <2>3
    <3> QED
      BY <1>6, <2>3, <3>1, <3>2
  <2>4. CASE d # a /\ d # b
    <3>1. j \in 1 .. Len(q[d]) /\ j \in Nat /\ q2[d] = q[d]
      BY <1>1, <1>4, <2>4
    <3> QED
      BY <1>6, <2>4, <3>1
  <2> QED
    BY <2>1, <2>2, <2>3, <2>4
<1>10. Rearranges(K, q, q2, to)
  BY <1>8, <1>9 DEF Rearranges
<1>11. Shared(K, q2)
  BY <1>5, <1>10, StillShared
<1> QED
  BY <1>11 DEF q2

LEMMA ToFrontShared ==
  ASSUME NEW K, NEW q, Shared(K, q), NEW a \in K, NEW f \in K, a # f,
         NEW m \in 1 .. Len(q[a])
  PROVE  Shared(K, ToFront(K, q, a, m, f))
<1> DEFINE q2 == ToFront(K, q, a, m, f)
           s  == q[a][m]
           n  == Len(q[f])
           P  == K \X Nat
           to == [p \in P |-> IF p[1] = a
                              THEN IF p[2] = m THEN <<f, 1>>
                                   ELSE IF p[2] < m THEN p ELSE <<a, p[2] - 1>>
                              ELSE IF p[1] = f THEN <<f, p[2] + 1>> ELSE p]
<1>1. /\ \A c \in K : q[c] \in Seq(Slots) /\ Len(q[c]) \in Nat
      /\ s \in Slots
  BY EmptyIsNothing DEF Shared
<1>2. /\ q2[a] \in Seq(Slots) /\ Len(q2[a]) = Len(q[a]) - 1
      /\ \A k \in 1 .. Len(q[a]) - 1 : q2[a][k] = IF k < m THEN q[a][k] ELSE q[a][k + 1]
  <2>1. q2[a] = Cut(q[a], m)
    BY DEF ToFront
  <2> QED
    BY <1>1, <2>1, CutIsSeq
<1>3. /\ q2[f] \in Seq(Slots) /\ Len(q2[f]) = n + 1
      /\ \A k \in 1 .. n + 1 : q2[f][k] = IF k = 1 THEN s ELSE q[f][k - 1]
  <2>1. q2[f] = Push(s, q[f])
    BY DEF ToFront
  <2>2. /\ Push(s, q[f]) \in Seq(Slots) /\ Len(Push(s, q[f])) = n + 1
        /\ \A k \in 1 .. n + 1 : Push(s, q[f])[k] = IF k = 1 THEN s ELSE q[f][k - 1]
    <3> HIDE DEF s
    <3>1. q[f] \in Seq(Slots) /\ s \in Slots
      BY <1>1
    <3> QED
      BY <3>1, PushIsSeq
  <2> QED
    BY <2>1, <2>2
<1>4. \A c \in K : c # a /\ c # f => q2[c] = q[c]
  BY DEF ToFront
<1>5. q2 \in [K -> Seq(Slots)]
  <2>1. \A c \in K : q2[c] \in Seq(Slots)
    BY <1>1, <1>2, <1>3, <1>4
  <2> QED
    BY <2>1 DEF ToFront
<1>6. /\ \A c \in K : \A k \in Nat : c # a /\ c # f => to[<<c, k>>] = <<c, k>>
      /\ to[<<a, m>>] = <<f, 1>>
      /\ \A k \in Nat : k < m => to[<<a, k>>] = <<a, k>>
      /\ \A k \in Nat : k > m => to[<<a, k>>] = <<a, k - 1>>
      /\ \A k \in Nat : to[<<f, k>>] = <<f, k + 1>>
  OBVIOUS
<1> HIDE DEF q2, to, n, s
<1>7. n \in Nat /\ m \in Nat
  BY <1>1 DEF n
<1>8. ASSUME NEW c \in K, NEW k \in 1 .. Len(q[c])
      PROVE  \E d \in K : \E j \in 1 .. Len(q2[d]) : q2[d][j] = q[c][k]
  <2>1. CASE c = a /\ k = m
    <3>1. 1 \in 1 .. Len(q2[f]) /\ q2[f][1] = s
      BY <1>3, <1>7
    <3> QED
      BY <2>1, <3>1 DEF s
  <2>2. CASE c = a /\ k < m
    <3>1. k \in 1 .. Len(q2[a]) /\ q2[a][k] = q[a][k]
      BY <1>1, <1>2, <2>2
    <3> QED
      BY <2>2, <3>1
  <2>3. CASE c = a /\ k > m
    <3>1. k - 1 \in 1 .. Len(q[a]) - 1 /\ (k - 1) + 1 = k /\ ~ (k - 1 < m)
      BY <1>1, <1>7, <2>3
    <3>2. k - 1 \in 1 .. Len(q2[a]) /\ q2[a][k - 1] = q[a][k]
      BY <1>2, <3>1
    <3> QED
      BY <2>3, <3>2
  <2>4. CASE c = f
    <3>1. k + 1 \in 1 .. n + 1 /\ k + 1 # 1 /\ (k + 1) - 1 = k
      BY <1>7, <2>4 DEF n
    <3>2. q2[f][k + 1] = q[f][k]
      BY <1>3, <3>1
    <3> QED
      BY <1>3, <2>4, <3>1, <3>2
  <2>5. CASE c # a /\ c # f
    BY <1>4, <2>5
  <2>6. k \in Nat /\ (k = m \/ k < m \/ k > m)
    BY <1>1, <1>7
  <2> QED
    BY <2>1, <2>2, <2>3, <2>4, <2>5, <2>6
<1>9. ASSUME NEW d \in K, NEW j \in 1 .. Len(q2[d])
      PROVE  \E c \in K : \E k \in 1 .. Len(q[c]) :
               to[<<c, k>>] = <<d, j>> /\ q2[d][j] = q[c][k]
  <2>1. CASE d = a /\ j < m
    <3>1. j \in 1 .. Len(q[a]) - 1 /\ j \in 1 .. Len(q[a]) /\ j \in Nat
      BY <1>1, <1>2, <2>1
    <3>2. to[<<a, j>>] = <<a, j>> /\ q2[a][j] = q[a][j]
      BY <1>2, <1>6, <2>1, <3>1
    <3> QED
      BY <2>1, <3>1, <3>2
  <2>2. CASE d = a /\ ~ (j < m)
    <3>1. /\ j \in 1 .. Len(q[a]) - 1 /\ j + 1 \in 1 .. Len(q[a])
          /\ j + 1 > m /\ (j + 1) - 1 = j /\ j + 1 \in Nat
      BY <1>1, <1>2, <1>7, <2>2
    <3>2. to[<<a, j + 1>>] = <<a, j>> /\ q2[a][j] = q[a][j + 1]
      BY <1>2, <1>6, <2>2, <3>1
    <3> QED
      BY <2>2, <3>1, <3>2
  <2>3. CASE d = f /\ j = 1
    <3>1. q2[f][1] = s
      BY <1>3, <1>7
    <3> QED
      BY <1>6, <2>3, <3>1 DEF s
  <2>4. CASE d = f /\ j # 1
    <3>1. /\ j - 1 \in 1 .. Len(q[f]) /\ j - 1 \in Nat /\ (j - 1) + 1 = j
          /\ j \in 1 .. n + 1
      BY <1>3, <1>7, <2>4 DEF n
    <3>2. q2[f][j] = q[f][j - 1] /\ to[<<f, j - 1>>] = <<f, j>>
      BY <1>3, <1>6, <2>4, <3>1
    <3> QED
      BY <2>4, <3>1, <3>2
  <2>5. CASE d # a /\ d # f
    <3>1. j \in 1 .. Len(q[d]) /\ j \in Nat /\ q2[d] = q[d]
      BY <1>1, <1>4, <2>5
    <3> QED
      BY <1>6, <2>5, <3>1
  <2> QED
    BY <2>1, <2>2, <2>3, <2>4, <2>5
<1>10. Rearranges(K, q, q2, to)
  BY <1>8, <1>9 DEF Rearranges
<1>11. Shared(K, q2)
  BY <1>5, <1>10, StillShared
<1> QED
  BY <1>11 DEF q2

LEMMA ToBackLinked ==
  ASSUME NEW K, NEW q, NEW a \in K, NEW b \in K, NEW nx, NEW nx2, NEW hd, NEW hd2,
         Shared(K, q), Linked(K, nx, hd, q), a # b, q[a] # <<>>,
         \A x \in Slots : nx2[x] = IF x = q[a][1] THEN NULL
                                   ELSE IF q[b] # <<>> /\ x = q[b][Len(q[b])]
                                        THEN q[a][1] ELSE nx[x],
         \A c \in K : hd2[c] = IF c = a THEN nx[q[a][1]]
                               ELSE IF c = b /\ q[b] = <<>> THEN q[a][1] ELSE hd[c]
  PROVE  Linked(K, nx2, hd2, ToBack(K, q, a, b))
<1> DEFINE s == q[a][1]
           q2 == ToBack(K, q, a, b)
<1>1. /\ \A c \in K : q[c] \in Seq(Slots) /\ Len(q[c]) \in Nat
      /\ 1 \in 1 .. Len(q[a]) /\ s \in Slots
  <2>1. \A c \in K : q[c] \in Seq(Slots) /\ Len(q[c]) \in Nat
    BY EmptyIsNothing DEF Shared
  <2>2. Len(q[a]) # 0
    BY <2>1, EmptyIsNothing
  <2>3. 1 \in 1 .. Len(q[a])
    BY <2>1, <2>2
  <2>4. s \in Slots
    BY <2>1, <2>3
  <2> QED
    BY <2>1, <2>3, <2>4
<1>2. \A c \in K : \A k \in 1 .. Len(q[c]) :
        /\ q[c][k] \in Slots
        /\ q[c][k] = q[a][1] => c = a /\ k = 1
        /\ q[b] # <<>> /\ q[c][k] = q[b][Len(q[b])] => c = b /\ k = Len(q[b])
  <2> SUFFICES ASSUME NEW c \in K, NEW k \in 1 .. Len(q[c])
               PROVE  /\ q[c][k] \in Slots
                      /\ q[c][k] = q[a][1] => c = a /\ k = 1
                      /\ q[b] # <<>> /\ q[c][k] = q[b][Len(q[b])] =>
                           c = b /\ k = Len(q[b])
    OBVIOUS
  <2>1. q[c][k] \in Slots
    BY <1>1
  <2>2. q[c][k] = q[a][1] => c = a /\ k = 1
    BY <1>1, OnePlace
  <2>3. q[b] # <<>> => Len(q[b]) \in 1 .. Len(q[b])
    BY <1>1, EmptyIsNothing
  <2>4. q[b] # <<>> /\ q[c][k] = q[b][Len(q[b])] => c = b /\ k = Len(q[b])
    BY <2>3, OnePlace
  <2> QED
    BY <2>1, <2>2, <2>4
<1>3. \A c \in K : IsChain(nx, hd[c], q[c])
  BY DEF Linked
<1>4. \A c \in K : \A k \in 1 .. Len(q[c]) :
        /\ c # a /\ c # b => nx2[q[c][k]] = nx[q[c][k]]
        /\ c = a /\ k # 1 => nx2[q[c][k]] = nx[q[c][k]]
        /\ c = b => nx2[q[c][k]] = IF k = Len(q[b]) THEN s ELSE nx[q[c][k]]
  <2> SUFFICES ASSUME NEW c \in K, NEW k \in 1 .. Len(q[c])
               PROVE  /\ c # a /\ c # b => nx2[q[c][k]] = nx[q[c][k]]
                      /\ c = a /\ k # 1 => nx2[q[c][k]] = nx[q[c][k]]
                      /\ c = b => nx2[q[c][k]] = IF k = Len(q[b]) THEN s
                                                 ELSE nx[q[c][k]]
    OBVIOUS
  <2> DEFINE x == q[c][k]
  <2>1. /\ x \in Slots
        /\ x = q[a][1] => c = a /\ k = 1
        /\ q[b] # <<>> /\ x = q[b][Len(q[b])] => c = b /\ k = Len(q[b])
    BY <1>2
  <2>2. nx2[x] = IF x = q[a][1] THEN NULL
                 ELSE IF q[b] # <<>> /\ x = q[b][Len(q[b])] THEN q[a][1] ELSE nx[x]
    BY <2>1
  <2>3. c = b => q[b] # <<>> /\ (k = Len(q[b]) => x = q[b][Len(q[b])])
    BY <1>1
  <2> HIDE DEF x
  <2> QED
    BY <2>1, <2>2, <2>3 DEF x
<1>5. IsChain(nx2, hd2[a], q2[a])
  <2>1. q2[a] = Cut(q[a], 1)
    BY DEF ToBack
  <2>2. \A k \in 1 .. Len(q[a]) : k # 1 /\ k # 1 - 1 => nx2[q[a][k]] = nx[q[a][k]]
    BY <1>4
  <2>3. IsChain(nx2, IF 1 = 1 THEN nx[q[a][1]] ELSE hd[a], Cut(q[a], 1))
    BY <1>1, <1>3, <2>2, CutChain
  <2> QED
    BY <2>1, <2>3
<1>6. IsChain(nx2, hd2[b], q2[b])
  <2>1. q2[b] = Append(q[b], s)
    BY DEF ToBack
  <2>2. nx2[s] = NULL
    BY <1>1
  <2>3. \A k \in 1 .. Len(q[b]) : nx2[q[b][k]] = IF k = Len(q[b]) THEN s ELSE nx[q[b][k]]
    BY <1>4
  <2> HIDE DEF s
  <2>4. IsChain(nx2, IF q[b] = <<>> THEN s ELSE hd[b], Append(q[b], s))
    BY <1>1, <1>3, <2>2, <2>3, AppendChain
  <2>5. hd2[b] = IF q[b] = <<>> THEN s ELSE hd[b]
    BY DEF s
  <2> QED
    BY <2>1, <2>4, <2>5
<1>7. ASSUME NEW c \in K, c # a, c # b PROVE IsChain(nx2, hd2[c], q2[c])
  <2>1. q2[c] = q[c] /\ hd2[c] = hd[c]
    BY <1>7 DEF ToBack
  <2>2. \A k \in 1 .. Len(q[c]) : nx2[q[c][k]] = nx[q[c][k]]
    BY <1>4, <1>7
  <2> QED
    BY <1>3, <2>1, <2>2, SameChain
<1> QED
  BY <1>5, <1>6, <1>7 DEF Linked

LEMMA ToFrontLinked ==
  ASSUME NEW K, NEW q, NEW a \in K, NEW f \in K, NEW nx, NEW nx2, NEW hd, NEW hd2,
         Shared(K, q), Linked(K, nx, hd, q), a # f, NEW m \in 1 .. Len(q[a]),
         \A x \in Slots : nx2[x] = IF x = q[a][m] THEN hd[f]
                                   ELSE IF m > 1 /\ x = q[a][m - 1]
                                        THEN nx[q[a][m]] ELSE nx[x],
         \A c \in K : hd2[c] = IF c = f THEN q[a][m]
                               ELSE IF c = a /\ m = 1 THEN nx[q[a][m]] ELSE hd[c]
  PROVE  Linked(K, nx2, hd2, ToFront(K, q, a, m, f))
<1> DEFINE s == q[a][m]
           q2 == ToFront(K, q, a, m, f)
<1>1. /\ \A c \in K : q[c] \in Seq(Slots) /\ Len(q[c]) \in Nat
      /\ s \in Slots /\ m \in Nat
  BY EmptyIsNothing DEF Shared
<1>2. \A c \in K : \A k \in 1 .. Len(q[c]) :
        /\ q[c][k] \in Slots
        /\ q[c][k] = q[a][m] => c = a /\ k = m
        /\ m > 1 /\ q[c][k] = q[a][m - 1] => c = a /\ k = m - 1
  <2> SUFFICES ASSUME NEW c \in K, NEW k \in 1 .. Len(q[c])
               PROVE  /\ q[c][k] \in Slots
                      /\ q[c][k] = q[a][m] => c = a /\ k = m
                      /\ m > 1 /\ q[c][k] = q[a][m - 1] => c = a /\ k = m - 1
    OBVIOUS
  <2>1. q[c][k] \in Slots
    BY <1>1
  <2>2. q[c][k] = q[a][m] => c = a /\ k = m
    BY <1>1, OnePlace
  <2>3. m > 1 => m - 1 \in 1 .. Len(q[a])
    BY <1>1
  <2>4. m > 1 /\ q[c][k] = q[a][m - 1] => c = a /\ k = m - 1
    BY <2>3, OnePlace
  <2> QED
    BY <2>1, <2>2, <2>4
<1>3. \A c \in K : IsChain(nx, hd[c], q[c])
  BY DEF Linked
<1>4. \A c \in K : \A k \in 1 .. Len(q[c]) :
        /\ c # a => nx2[q[c][k]] = nx[q[c][k]]
        /\ c = a /\ k # m /\ k # m - 1 => nx2[q[c][k]] = nx[q[c][k]]
  <2> SUFFICES ASSUME NEW c \in K, NEW k \in 1 .. Len(q[c])
               PROVE  /\ c # a => nx2[q[c][k]] = nx[q[c][k]]
                      /\ c = a /\ k # m /\ k # m - 1 => nx2[q[c][k]] = nx[q[c][k]]
    OBVIOUS
  <2> DEFINE x == q[c][k]
  <2>1. /\ x \in Slots
        /\ x = q[a][m] => c = a /\ k = m
        /\ m > 1 /\ x = q[a][m - 1] => c = a /\ k = m - 1
    BY <1>2
  <2>2. nx2[x] = IF x = q[a][m] THEN hd[f]
                 ELSE IF m > 1 /\ x = q[a][m - 1] THEN nx[q[a][m]] ELSE nx[x]
    BY <2>1
  <2> HIDE DEF x
  <2> QED
    BY <2>1, <2>2 DEF x
<1>5. IsChain(nx2, hd2[a], q2[a])
  <2>1. q2[a] = Cut(q[a], m)
    BY DEF ToFront
  <2>2. \A k \in 1 .. Len(q[a]) : k # m /\ k # m - 1 => nx2[q[a][k]] = nx[q[a][k]]
    BY <1>4
  <2>3. m > 1 => nx2[q[a][m - 1]] = nx[q[a][m]]
    <3>1. SUFFICES ASSUME m > 1 PROVE nx2[q[a][m - 1]] = nx[q[a][m]]
      OBVIOUS
    <3> DEFINE x == q[a][m - 1]
    <3>2. m - 1 \in 1 .. Len(q[a]) /\ m - 1 # m
      BY <1>1, <3>1
    <3>3. x \in Slots /\ x # q[a][m]
      BY <1>2, <3>2
    <3>4. nx2[x] = IF x = q[a][m] THEN hd[f]
                   ELSE IF m > 1 /\ x = q[a][m - 1] THEN nx[q[a][m]] ELSE nx[x]
      BY <3>3
    <3> QED
      BY <3>1, <3>3, <3>4
  <2>4. IsChain(nx2, IF m = 1 THEN nx[q[a][m]] ELSE hd[a], Cut(q[a], m))
    BY <1>1, <1>3, <2>2, <2>3, CutChain
  <2>5. hd2[a] = IF m = 1 THEN nx[q[a][m]] ELSE hd[a]
    OBVIOUS
  <2> QED
    BY <2>1, <2>4, <2>5
<1>6. IsChain(nx2, hd2[f], q2[f])
  <2>1. q2[f] = Push(s, q[f]) /\ hd2[f] = s
    BY DEF ToFront
  <2>2. nx2[s] = hd[f]
    BY <1>1
  <2>3. \A k \in 1 .. Len(q[f]) : nx2[q[f][k]] = nx[q[f][k]]
    BY <1>4
  <2> HIDE DEF s
  <2>4. IsChain(nx2, s, Push(s, q[f]))
    BY <1>1, <1>3, <2>2, <2>3, PushChain
  <2> QED
    BY <2>1, <2>4
<1>7. ASSUME NEW c \in K, c # a, c # f PROVE IsChain(nx2, hd2[c], q2[c])
  <2>1. q2[c] = q[c] /\ hd2[c] = hd[c]
    BY <1>7 DEF ToFront
  <2>2. \A k \in 1 .. Len(q[c]) : nx2[q[c][k]] = nx[q[c][k]]
    BY <1>4, <1>7
  <2> QED
    BY <1>3, <2>1, <2>2, SameChain
<1> QED
  BY <1>5, <1>6, <1>7 DEF Linked

-----------------------------------------------------------------------------
(* Sizes.                                                                  *)

LEMMA ListSize ==
  ASSUME NEW T, IsFiniteSet(T), NEW r \in Seq(T),
         \A j, k \in 1 .. Len(r) : r[j] = r[k] => j = k
  PROVE  /\ Len(r) <= Cardinality(T)
         /\ (\A x \in T : \E k \in 1 .. Len(r) : r[k] = x) => Len(r) = Cardinality(T)
<1> DEFINE n == Len(r)
<1>1. n \in Nat /\ r \in [1 .. n -> T]
  OBVIOUS
<1>2. r \in Injection(1 .. n, T)
  BY <1>1 DEF Injection, IsInjective
<1>3. IsFiniteSet(1 .. n) /\ Cardinality(1 .. n) = n
  <2>1. Cardinality(1 .. n) = IF 1 > n THEN 0 ELSE n - 1 + 1
    BY <1>1, FS_Interval
  <2>2. IsFiniteSet(1 .. n)
    BY <1>1, FS_Interval
  <2> QED
    BY <1>1, <2>1, <2>2
<1>4. Cardinality(1 .. n) <= Cardinality(T)
      /\ (Cardinality(1 .. n) = Cardinality(T) <=> r \in Surjection(1 .. n, T))
  BY <1>2, FS_Injection
<1>5. (\A x \in T : \E k \in 1 .. n : r[k] = x) => r \in Surjection(1 .. n, T)
  BY <1>1 DEF Surjection
<1> QED
  BY <1>3, <1>4, <1>5

LEMMA SlotsFinite == IsFiniteSet(Slots) /\ Cardinality(Slots) = MaxOrders
<1>1. MaxOrders \in Nat \ {0}
  BY StoreAssumption
<1>2. IsFiniteSet(0 .. MaxOrders - 1)
      /\ Cardinality(0 .. MaxOrders - 1) =
           IF 0 > MaxOrders - 1 THEN 0 ELSE (MaxOrders - 1) - 0 + 1
  BY <1>1, FS_Interval
<1> QED
  BY <1>1, <1>2 DEF Slots

(* What a walk over a list of a family yields.                             *)
LEMMA WalkOfList ==
  ASSUME NEW K, NEW q, Shared(K, q), NEW a \in K, NEW nx, NEW h,
         IsChain(nx, h, q[a])
  PROVE  [k \in 1 .. Steps(nx, h) |-> Trail(nx, h)[k - 1]] = q[a]
<1>1. q[a] \in Seq(Slots) /\ \A j, k \in 1 .. Len(q[a]) : q[a][j] = q[a][k] => j = k
  BY SharedDistinct
<1> DEFINE r == q[a]
<1>2. r \in Seq(Slots) /\ \A j, k \in 1 .. Len(r) : r[j] = r[k] => j = k
  BY <1>1
<1>3. IsChain(nx, h, r)
  OBVIOUS
<1> HIDE DEF r
<1>4. Len(r) <= MaxOrders
  BY <1>2, SlotsFinite, ListSize
<1>5. [k \in 1 .. Steps(nx, h) |-> Trail(nx, h)[k - 1]] = r
  BY <1>2, <1>3, <1>4, TrailOfChain
<1> QED
  BY <1>5 DEF r

-----------------------------------------------------------------------------
(* The lists of the book: the free list, the lists of the levels, and      *)
(* during a slide those of the new levels.  Of the old ones a slide still  *)
(* has what its walk has not reached.                                      *)

Free         == <<"free", "BUY", 0>>
Old(side, i) == <<"old", side, i>>
New(side, i) == <<"new", side, i>>
Keys         == {Free} \union {"old", "new"} \X Side \X Idx

LEMMA KeyCases ==
  /\ Free \in Keys
  /\ \A side \in Side, i \in Idx : /\ Old(side, i) \in Keys /\ New(side, i) \in Keys
                                   /\ Old(side, i) # Free /\ New(side, i) # Free
  /\ \A side, side2 \in Side, i, i2 \in Idx :
       /\ Old(side, i) # New(side2, i2)
       /\ Old(side, i) = Old(side2, i2) => side = side2 /\ i = i2
       /\ New(side, i) = New(side2, i2) => side = side2 /\ i = i2
  /\ \A c \in Keys : c = Free \/ \E side \in Side, i \in Idx :
                                   c = Old(side, i) \/ c = New(side, i)
<1>1. ASSUME NEW c \in Keys, c # Free
      PROVE  \E side \in Side, i \in Idx : c = Old(side, i) \/ c = New(side, i)
  <2>1. c \in {"old", "new"} \X Side \X Idx
    BY <1>1 DEF Keys
  <2>2. c = <<c[1], c[2], c[3]>> /\ c[1] \in {"old", "new"} /\ c[2] \in Side /\ c[3] \in Idx
    BY <2>1
  <2> QED
    BY <2>2 DEF Old, New
<1> QED
  BY <1>1 DEF Keys, Free, Old, New

Pos(side, i) == IF side = "BUY" THEN i ELSE i + Band

OldHeads ==
  [side \in Side |-> [i \in Idx |->
     IF job.op # "rebase" \/ Pos(side, i) > job.at THEN level[side][i].head
     ELSE IF Pos(side, i) = job.at THEN job.idx ELSE NULL]]

NewHeads ==
  [side \in Side |-> [i \in Idx |->
     IF job.op = "rebase" THEN job.level[side][i].head ELSE NULL]]

HeadsOf(f, o, n) ==
  [c \in Keys |-> IF c = Free THEN f
                  ELSE IF c[1] = "old" THEN o[c[2]][c[3]] ELSE n[c[2]][c[3]]]

Heads == HeadsOf(free_head, OldHeads, NewHeads)

LEMMA HeadsAre ==
  ASSUME NEW f, NEW o, NEW n
  PROVE  /\ HeadsOf(f, o, n)[Free] = f
         /\ \A side \in Side, i \in Idx :
              /\ HeadsOf(f, o, n)[Old(side, i)] = o[side][i]
              /\ HeadsOf(f, o, n)[New(side, i)] = n[side][i]
<1>1. ASSUME NEW side \in Side, NEW i \in Idx
      PROVE  /\ HeadsOf(f, o, n)[Old(side, i)] = o[side][i]
             /\ HeadsOf(f, o, n)[New(side, i)] = n[side][i]
  <2>1. Old(side, i) \in Keys /\ New(side, i) \in Keys
        /\ Old(side, i) # Free /\ New(side, i) # Free
    BY KeyCases
  <2>2. /\ Old(side, i)[1] = "old" /\ Old(side, i)[2] = side /\ Old(side, i)[3] = i
        /\ New(side, i)[1] = "new" /\ New(side, i)[2] = side /\ New(side, i)[3] = i
    BY DEF Old, New
  <2> QED
    BY <2>1, <2>2 DEF HeadsOf
<1> QED
  BY <1>1, KeyCases DEF HeadsOf

-----------------------------------------------------------------------------
(* The inductive invariant.                                                *)

Ref    == Slots \union {NULL}
Record == [head : Ref, tail : Ref, count : Nat]
Levels == [Side -> [Idx -> Record]]

JobTypeOK ==
  \/ job = Idle
  \/ /\ job \in [op : {"match"}, idx : Slots, side : Side, at : Idx]
     /\ job.idx \in held
  \/ /\ job \in [op : {"rebase"}, at : 0 .. 2 * Band, idx : Ref, base : Nat,
                 level : Levels]
     /\ job.at = 2 * Band => job.idx = NULL

StoreTypeOK ==
  /\ next_idx \in [Slots -> Ref] /\ prev_idx \in [Slots -> Ref]
  /\ side_of \in [Slots -> Side] /\ price_of \in [Slots -> Idx]
  /\ free_head \in Ref
  /\ level \in Levels
  /\ base \in Nat
  /\ held \in SUBSET Slots
  /\ JobTypeOK

(* The record of a level and the slots of its list agree.                  *)
Whole(pv, so, po, l, side, i, r) ==
  /\ l.tail = IF r = <<>> THEN NULL ELSE r[Len(r)]
  /\ l.count = Len(r)
  /\ Backed(pv, r)
  /\ \A k \in 1 .. Len(r) : so[r[k]] = side /\ po[r[k]] = i

HeldInLevels(hl, q) == \A c \in Keys : \A k \in 1 .. Len(q[c]) : q[c][k] \in hl <=> c # Free

Settled(q) ==
  \A side \in Side, i \in Idx :
    /\ Whole(prev_idx, side_of, price_of, level[side][i], side, i, q[Old(side, i)])
    /\ q[New(side, i)] = <<>>

Sliding(q) ==
  \A side \in Side, i \in Idx :
    /\ Whole(prev_idx, side_of, price_of, job.level[side][i], side, i, q[New(side, i)])
    /\ \A k \in 1 .. Len(q[Old(side, i)]) : side_of[q[Old(side, i)][k]] = side

Good(q) ==
  /\ Shared(Keys, q)
  /\ Linked(Keys, next_idx, Heads, q)
  /\ HeldInLevels(held, q)
  /\ IF job.op = "rebase" THEN Sliding(q) ELSE Settled(q)

(* The window, before and during a slide, is at or below the highest price *)
(* seen, and nothing is in a new list but what the walk has already passed.*)
InRange(j, b) ==
  b \in 0 .. Max(Prices) /\ (j.op = "rebase" => j.base \in 0 .. Max(Prices))

Behind(q, j, b) ==
  j.op = "rebase" =>
    \A side \in Side, i \in Idx :
      q[New(side, i)] # <<>> =>
        i + j.base - b \in Idx /\ Pos(side, i + j.base - b) <= j.at

Fits(q) == Good(q) /\ Behind(q, job, base) /\ InRange(job, base)

SInv == StoreTypeOK /\ \E q \in [Keys -> Seq(Slots)] : Fits(q)

(* The lists of q are what the walks of the model find.                    *)
LEMMA WalksAre ==
  ASSUME NEW q, Good(q)
  PROVE  /\ Walk(free_head) = q[Free]
         /\ job.op # "rebase" =>
              \A side \in Side, i \in Idx : Walk(level[side][i].head) = q[Old(side, i)]
<1>1. Shared(Keys, q) /\ Linked(Keys, next_idx, Heads, q)
  BY DEF Good
<1>2. \A c \in Keys : IsChain(next_idx, Heads[c], q[c])
  BY <1>1 DEF Linked
<1>3. Walk(free_head) = q[Free]
  <2>1. Heads[Free] = free_head /\ Free \in Keys
    BY HeadsAre, KeyCases DEF Heads
  <2>2. IsChain(next_idx, free_head, q[Free])
    BY <1>2, <2>1
  <2> QED
    BY <1>1, <2>1, <2>2, WalkOfList, WalkIsTrail
<1>4. ASSUME job.op # "rebase", NEW side \in Side, NEW i \in Idx
      PROVE  Walk(level[side][i].head) = q[Old(side, i)]
  <2>1. Heads[Old(side, i)] = level[side][i].head /\ Old(side, i) \in Keys
    BY <1>4, HeadsAre, KeyCases DEF Heads, OldHeads
  <2>2. IsChain(next_idx, level[side][i].head, q[Old(side, i)])
    BY <1>2, <2>1
  <2> QED
    BY <1>1, <2>1, <2>2, WalkOfList, WalkIsTrail
<1> QED
  BY <1>3, <1>4

LEMMA GoodIsExact ==
  ASSUME StoreTypeOK, NEW q, Good(q)
  PROVE  LinksExact
<1>1. Shared(Keys, q) /\ Linked(Keys, next_idx, Heads, q) /\ HeldInLevels(held, q)
  BY DEF Good
<1>2. ASSUME job.op # "rebase", NEW side \in Side, NEW i \in Idx
      PROVE  /\ WellLinked(level[side][i])
             /\ \A s \in Range(Walk(level[side][i].head)) :
                  side_of[s] = side /\ price_of[s] = i
  <2> DEFINE r == q[Old(side, i)]
             l == level[side][i]
  <2>1. Old(side, i) \in Keys /\ r \in Seq(Slots)
    BY <1>1, KeyCases DEF Shared
  <2>2. Walk(l.head) = r
    BY <1>2, WalksAre
  <2>3. Whole(prev_idx, side_of, price_of, l, side, i, r)
    BY <1>2 DEF Good, Settled
  <2>4. IsChain(next_idx, l.head, r)
    <3>1. Heads[Old(side, i)] = l.head
      BY <1>2, HeadsAre DEF Heads, OldHeads
    <3> QED
      BY <1>1, <2>1, <3>1 DEF Linked
  <2> HIDE DEF r, l
  <2>5. r # <<>> => Len(r) \in 1 .. Len(r)
    BY <2>1
  <2>6. WellLinked(l)
    <3>1. l.count = Len(r) /\ l.tail = IF r = <<>> THEN NULL ELSE r[Len(r)]
      BY <2>3 DEF Whole
    <3>2. r # <<>> => next_idx[l.tail] = NULL
      BY <2>4, <2>5, <3>1 DEF IsChain
    <3>3. \A k \in DOMAIN r : prev_idx[r[k]] = IF k = 1 THEN NULL ELSE r[k - 1]
      BY <2>1, <2>3 DEF Whole, Backed
    <3> QED
      BY <2>2, <3>1, <3>2, <3>3 DEF WellLinked
  <2>7. \A s \in Range(r) : side_of[s] = side /\ price_of[s] = i
    BY <2>1, <2>3 DEF Whole, Range
  <2> QED
    BY <2>2, <2>6, <2>7 DEF l
<1>3. FreeListExact
  <2> DEFINE f == q[Free]
  <2>1. Free \in Keys /\ f \in Seq(Slots) /\ Walk(free_head) = f
    BY <1>1, WalksAre, KeyCases DEF Shared
  <2>2. Range(f) = Slots \ held
    <3>1. ASSUME NEW s \in Slots \ held PROVE \E k \in 1 .. Len(f) : f[k] = s
      <4>1. PICK c \in Keys : \E k \in 1 .. Len(q[c]) : q[c][k] = s
        BY <1>1 DEF Shared
      <4>2. c = Free
        BY <1>1, <4>1 DEF HeldInLevels
      <4> QED
        BY <4>1, <4>2
    <3>2. \A k \in 1 .. Len(f) : f[k] \in Slots \ held
      BY <1>1, <2>1 DEF HeldInLevels
    <3> HIDE DEF f
    <3> QED
      BY <2>1, <3>1, <3>2 DEF Range
  <2>3. Len(f) = Cardinality(Slots \ held)
    <3>1. IsFiniteSet(Slots \ held)
      BY SlotsFinite, FS_Subset
    <3>2. \A j, k \in 1 .. Len(f) : f[j] = f[k] => j = k
      BY <1>1, <2>1, SharedDistinct
    <3> HIDE DEF f
    <3>3. f \in Seq(Slots \ held)
      <4>1. \A k \in 1 .. Len(f) : f[k] \in Slots \ held
        BY <2>1, <2>2 DEF Range
      <4> QED
        BY <2>1, <4>1
    <3>4. \A x \in Slots \ held : \E k \in 1 .. Len(f) : f[k] = x
      BY <2>1, <2>2 DEF Range
    <3> QED
      BY <3>1, <3>2, <3>3, <3>4, ListSize
  <2> QED
    BY <2>1, <2>2, <2>3 DEF FreeListExact
<1> QED
  BY <1>2, <1>3 DEF LinksExact, LevelsWellLinked

-----------------------------------------------------------------------------
(* A level's record when an order leaves from any place, or joins.         *)

LEMMA WholeSame ==
  ASSUME NEW pv, NEW so, NEW po, NEW pv2, NEW so2, NEW po2, NEW l, NEW side, NEW i,
         NEW r \in Seq(Slots), Whole(pv, so, po, l, side, i, r),
         \A k \in 1 .. Len(r) : /\ pv2[r[k]] = pv[r[k]]
                                /\ so2[r[k]] = so[r[k]] /\ po2[r[k]] = po[r[k]]
  PROVE  Whole(pv2, so2, po2, l, side, i, r)
BY SameBacked DEF Whole

LEMMA WholeCut ==
  ASSUME NEW pv, NEW so, NEW po, NEW pv2, NEW l, NEW l2, NEW side, NEW i,
         NEW r \in Seq(Slots), Whole(pv, so, po, l, side, i, r), Distinct(r),
         NEW m \in 1 .. Len(r), NEW s, s = r[m],
         NEW p, p = IF m = 1 THEN NULL ELSE r[m - 1],
         NEW n, n = IF m = Len(r) THEN NULL ELSE r[m + 1],
         \A x \in Slots : pv2[x] = IF x = s THEN NULL ELSE IF x = n THEN p ELSE pv[x],
         l2.tail = IF n = NULL THEN p ELSE l.tail,
         l2.count = l.count - 1
  PROVE  Whole(pv2, so, po, l2, side, i, Cut(r, m))
<1> DEFINE c == Cut(r, m)
<1>1. /\ c \in Seq(Slots) /\ Len(c) = Len(r) - 1 /\ Len(r) - 1 \in Nat
      /\ \A k \in 1 .. Len(r) - 1 : c[k] = IF k < m THEN r[k] ELSE r[k + 1]
  BY CutIsSeq
<1> HIDE DEF c
<1>2. /\ Len(r) \in Nat /\ m \in Nat
      /\ \A k \in 1 .. Len(r) : r[k] \in Slots /\ r[k] # NULL
  BY SlotsAreNumbers
<1>3. /\ l.tail = IF r = <<>> THEN NULL ELSE r[Len(r)]
      /\ l.count = Len(r)
      /\ Backed(pv, r)
      /\ \A k \in 1 .. Len(r) : so[r[k]] = side /\ po[r[k]] = i
  BY DEF Whole
<1>4. Backed(pv2, c)
  <2>1. \A k \in 1 .. Len(r) : k # m /\ k # m + 1 => pv2[r[k]] = pv[r[k]]
    <3> SUFFICES ASSUME NEW k \in 1 .. Len(r), k # m, k # m + 1
                 PROVE  pv2[r[k]] = pv[r[k]]
      OBVIOUS
    <3>1. r[k] # s
      BY DEF Distinct
    <3>2. r[k] # n
      <4>1. m # Len(r) => m + 1 \in 1 .. Len(r)
        BY <1>2
      <4> QED
        BY <1>2, <4>1 DEF Distinct
    <3> QED
      BY <1>2, <3>1, <3>2
  <2>2. m < Len(r) => pv2[r[m + 1]] = pv[r[m]]
    <3>1. SUFFICES ASSUME m < Len(r) PROVE pv2[r[m + 1]] = pv[r[m]]
      OBVIOUS
    <3>2. m + 1 \in 1 .. Len(r) /\ m + 1 # m /\ n = r[m + 1]
      BY <1>2, <3>1
    <3>3. n \in Slots /\ n # s
      BY <1>2, <3>2 DEF Distinct
    <3>4. pv[r[m]] = p
      BY <1>3 DEF Backed
    <3>5. pv2[n] = p
      BY <3>3
    <3> QED
      BY <3>2, <3>4, <3>5
  <2> QED
    BY <1>3, <2>1, <2>2, CutBacked DEF c
<1>5. l2.tail = IF c = <<>> THEN NULL ELSE c[Len(c)]
  <2>1. c = <<>> <=> Len(r) = 1
    BY <1>1, <1>2, EmptyIsNothing
  <2>2. CASE Len(r) = 1
    BY <1>2, <2>1, <2>2
  <2>3. CASE Len(r) # 1 /\ m = Len(r)
    <3>1. n = NULL /\ p = r[m - 1] /\ l2.tail = p
      BY <1>2, <2>3
    <3>2. Len(c) = m - 1 /\ Len(c) \in 1 .. Len(r) - 1 /\ Len(c) < m
      BY <1>1, <1>2, <2>3
    <3>3. c[Len(c)] = r[m - 1]
      BY <1>1, <3>2
    <3> QED
      BY <2>1, <2>3, <3>1, <3>3
  <2>4. CASE Len(r) # 1 /\ m # Len(r)
    <3>1. n = r[m + 1] /\ m + 1 \in 1 .. Len(r)
      BY <1>2, <2>4
    <3>2. n # NULL /\ r # <<>>
      BY <1>2, <3>1
    <3>3. l2.tail = r[Len(r)]
      BY <1>3, <3>2
    <3>4. Len(c) \in 1 .. Len(r) - 1 /\ ~ (Len(c) < m) /\ Len(c) + 1 = Len(r)
      BY <1>1, <1>2, <2>4
    <3>5. c[Len(c)] = r[Len(r)]
      BY <1>1, <3>4
    <3> QED
      BY <2>1, <2>4, <3>3, <3>5
  <2> QED
    BY <2>2, <2>3, <2>4
<1>6. \A k \in 1 .. Len(c) : so[c[k]] = side /\ po[c[k]] = i
  <2> SUFFICES ASSUME NEW k \in 1 .. Len(r) - 1
               PROVE  so[c[k]] = side /\ po[c[k]] = i
    BY <1>1
  <2>1. k \in 1 .. Len(r) /\ k + 1 \in 1 .. Len(r)
    BY <1>2
  <2> QED
    BY <1>1, <1>3, <2>1
<1>7. l2.count = Len(c)
  BY <1>1, <1>3
<1>8. Whole(pv2, so, po, l2, side, i, c)
  BY <1>4, <1>5, <1>6, <1>7 DEF Whole
<1> QED
  BY <1>8 DEF c

LEMMA WholeAppend ==
  ASSUME NEW pv, NEW so, NEW po, NEW pv2, NEW so2, NEW po2, NEW l, NEW l2,
         NEW side, NEW i, NEW s \in Slots,
         NEW r \in Seq(Slots), Whole(pv, so, po, l, side, i, r),
         \A k \in 1 .. Len(r) : /\ pv2[r[k]] = pv[r[k]]
                                /\ so2[r[k]] = so[r[k]] /\ po2[r[k]] = po[r[k]],
         pv2[s] = l.tail, so2[s] = side, po2[s] = i,
         l2.tail = s, l2.count = l.count + 1
  PROVE  Whole(pv2, so2, po2, l2, side, i, Append(r, s))
<1> DEFINE c == Append(r, s)
<1>1. /\ c \in Seq(Slots) /\ Len(c) = Len(r) + 1 /\ Len(r) \in Nat
      /\ \A k \in 1 .. Len(r) + 1 : c[k] = IF k = Len(r) + 1 THEN s ELSE r[k]
  BY AppendIsSeq
<1>2. /\ l.tail = IF r = <<>> THEN NULL ELSE r[Len(r)]
      /\ l.count = Len(r)
      /\ Backed(pv, r)
      /\ \A k \in 1 .. Len(r) : so[r[k]] = side /\ po[r[k]] = i
  BY DEF Whole
<1>3. Backed(pv2, c)
  BY <1>2, AppendBacked
<1> HIDE DEF c
<1>4. l2.tail = IF c = <<>> THEN NULL ELSE c[Len(c)]
  <2>1. c # <<>> /\ Len(c) \in 1 .. Len(r) + 1
    BY <1>1, EmptyIsNothing
  <2> QED
    BY <1>1, <2>1
<1>5. \A k \in 1 .. Len(c) : so2[c[k]] = side /\ po2[c[k]] = i
  <2> SUFFICES ASSUME NEW k \in 1 .. Len(r) + 1
               PROVE  so2[c[k]] = side /\ po2[c[k]] = i
    BY <1>1
  <2>1. CASE k = Len(r) + 1
    BY <1>1, <2>1
  <2>2. CASE k # Len(r) + 1
    <3>1. k \in 1 .. Len(r)
      BY <1>1, <2>2
    <3> QED
      BY <1>1, <1>2, <2>2, <3>1
  <2> QED
    BY <2>1, <2>2
<1>6. l2.count = Len(c)
  BY <1>1, <1>2
<1>7. Whole(pv2, so2, po2, l2, side, i, c)
  BY <1>3, <1>4, <1>5, <1>6 DEF Whole
<1> QED
  BY <1>7 DEF c

-----------------------------------------------------------------------------
(* Which slots are held when one changes lists.                            *)

LEMMA HeldLeaves ==
  ASSUME NEW hl, NEW q, Shared(Keys, q), HeldInLevels(hl, q), NEW a \in Keys,
         a # Free, NEW m \in 1 .. Len(q[a]), NEW s, s = q[a][m]
  PROVE  HeldInLevels(hl \ {s}, ToFront(Keys, q, a, m, Free))
<1> DEFINE q2 == ToFront(Keys, q, a, m, Free)
<1>0. Free \in Keys
  BY KeyCases
<1>1. \A c \in Keys : q[c] \in Seq(Slots) /\ Len(q[c]) \in Nat
  BY EmptyIsNothing DEF Shared
<1>2. \A c \in Keys : \A k \in 1 .. Len(q[c]) :
        /\ q[c][k] \in hl <=> c # Free
        /\ q[c][k] = s => c = a /\ k = m
  BY OnePlace DEF HeldInLevels
<1>3. ASSUME NEW k \in 1 .. Len(q2[a]) PROVE q2[a][k] \in hl \ {s}
  <2>1. q2[a] = Cut(q[a], m)
    BY DEF ToFront
  <2>2. Len(q2[a]) = Len(q[a]) - 1 /\ q2[a][k] = IF k < m THEN q[a][k] ELSE q[a][k + 1]
    BY <1>1, <1>3, <2>1, CutIsSeq
  <2>3. k \in 1 .. Len(q[a]) /\ k + 1 \in 1 .. Len(q[a]) /\ k \in Nat /\ m \in Nat
    BY <1>1, <1>3, <2>2
  <2>4. CASE k < m
    BY <1>2, <2>2, <2>3, <2>4
  <2>5. CASE ~ (k < m)
    <3>1. k + 1 # m
      BY <2>3, <2>5
    <3> QED
      BY <1>2, <2>2, <2>3, <2>5, <3>1
  <2> QED
    BY <2>4, <2>5
<1>4. ASSUME NEW k \in 1 .. Len(q2[Free]) PROVE q2[Free][k] \notin hl \ {s}
  <2>1. s \in Slots
    BY <1>1
  <2>2. q2[Free] = Push(s, q[Free])
    BY <1>0 DEF ToFront
  <2> DEFINE r == q[Free]
  <2>3. r \in Seq(Slots) /\ Len(r) \in Nat
    BY <1>0, <1>1
  <2>4. \A j \in 1 .. Len(r) : r[j] \notin hl
    BY <1>0, <1>2
  <2>5. q2[Free] = Push(s, r)
    BY <2>2
  <2> HIDE DEF r
  <2>6. /\ Len(Push(s, r)) = Len(r) + 1
        /\ \A j \in 1 .. Len(r) + 1 : Push(s, r)[j] = IF j = 1 THEN s ELSE r[j - 1]
    BY <2>1, <2>3, PushIsSeq
  <2>7. k \in 1 .. Len(r) + 1
    BY <1>4, <2>5, <2>6
  <2>8. k # 1 => k - 1 \in 1 .. Len(r)
    BY <2>3, <2>7
  <2> QED
    BY <2>4, <2>5, <2>6, <2>7, <2>8
<1>5. ASSUME NEW c \in Keys, c # a, c # Free, NEW k \in 1 .. Len(q2[c])
      PROVE  q2[c][k] \in hl \ {s}
  <2>1. q2[c] = q[c]
    BY <1>5 DEF ToFront
  <2> QED
    BY <1>2, <1>5, <2>1
<1>6. HeldInLevels(hl \ {s}, q2)
  BY <1>3, <1>4, <1>5 DEF HeldInLevels
<1> QED
  BY <1>6 DEF q2

LEMMA HeldMoves ==
  ASSUME NEW hl, NEW q, Shared(Keys, q), HeldInLevels(hl, q),
         NEW a \in Keys, NEW b \in Keys, a # b, b # Free, q[a] # <<>>,
         NEW s, s = q[a][1], NEW hl2, hl2 = hl \union {s}
  PROVE  HeldInLevels(hl2, ToBack(Keys, q, a, b))
<1> DEFINE q2 == ToBack(Keys, q, a, b)
<1>1. \A c \in Keys : q[c] \in Seq(Slots) /\ Len(q[c]) \in Nat
  BY EmptyIsNothing DEF Shared
<1>2. 1 \in 1 .. Len(q[a])
  BY <1>1, EmptyIsNothing
<1>3. \A c \in Keys : \A k \in 1 .. Len(q[c]) :
        /\ q[c][k] \in hl <=> c # Free
        /\ q[c][k] = s => c = a /\ k = 1
  BY <1>2, OnePlace DEF HeldInLevels
<1>4. ASSUME NEW k \in 1 .. Len(q2[a]) PROVE q2[a][k] \in hl2 <=> a # Free
  <2>1. q2[a] = Cut(q[a], 1)
    BY DEF ToBack
  <2>2. Len(q2[a]) = Len(q[a]) - 1 /\ q2[a][k] = IF k < 1 THEN q[a][k] ELSE q[a][k + 1]
    BY <1>1, <1>2, <1>4, <2>1, CutIsSeq
  <2>3. k + 1 \in 1 .. Len(q[a]) /\ k \in Nat /\ ~ (k < 1) /\ k + 1 # 1
    BY <1>1, <1>4, <2>2
  <2>4. q2[a][k] = q[a][k + 1]
    BY <2>2, <2>3
  <2> QED
    BY <1>3, <2>3, <2>4
<1>5. ASSUME NEW k \in 1 .. Len(q2[b]) PROVE q2[b][k] \in hl2
  <2>1. s \in Slots
    BY <1>1, <1>2
  <2>2. q2[b] = Append(q[b], s)
    BY DEF ToBack
  <2>3. /\ Len(q2[b]) = Len(q[b]) + 1
        /\ q2[b][k] = IF k = Len(q[b]) + 1 THEN s ELSE q[b][k]
    BY <1>1, <1>5, <2>1, <2>2, AppendIsSeq
  <2>4. k # Len(q[b]) + 1 => k \in 1 .. Len(q[b])
    BY <1>1, <1>5, <2>3
  <2> QED
    BY <1>3, <2>3, <2>4
<1>6. ASSUME NEW c \in Keys, c # a, c # b, NEW k \in 1 .. Len(q2[c])
      PROVE  q2[c][k] \in hl2 <=> c # Free
  <2>1. q2[c] = q[c]
    BY <1>6 DEF ToBack
  <2> QED
    BY <1>3, <1>6, <2>1
<1>7. HeldInLevels(hl2, q2)
  BY <1>4, <1>5, <1>6 DEF HeldInLevels
<1> QED
  BY <1>7 DEF q2

(* A held slot is in the list of the level its own record names.           *)
LEMMA HeldIsLocated ==
  ASSUME StoreTypeOK, NEW q, Good(q), job.op # "rebase", NEW s \in held
  PROVE  \E m \in 1 .. Len(q[Old(side_of[s], price_of[s])]) :
           q[Old(side_of[s], price_of[s])][m] = s
<1>1. Shared(Keys, q) /\ HeldInLevels(held, q) /\ Settled(q) /\ s \in Slots
  BY DEF Good, StoreTypeOK
<1>2. PICK c \in Keys : \E k \in 1 .. Len(q[c]) : q[c][k] = s
  BY <1>1 DEF Shared
<1>3. PICK k \in 1 .. Len(q[c]) : q[c][k] = s
  BY <1>2
<1>4. c # Free
  BY <1>1, <1>3 DEF HeldInLevels
<1>5. PICK side \in Side, i \in Idx : c = Old(side, i) \/ c = New(side, i)
  BY <1>4, KeyCases
<1>6. q[New(side, i)] = <<>>
  BY <1>1 DEF Settled
<1>7. c = Old(side, i)
  <2>1. <<>> \in Seq(Slots) /\ Len(<<>>) = 0
    OBVIOUS
  <2> QED
    BY <1>3, <1>5, <1>6, <2>1
<1>8. Whole(prev_idx, side_of, price_of, level[side][i], side, i, q[c])
  BY <1>1, <1>7 DEF Settled
<1>9. side_of[s] = side /\ price_of[s] = i
  BY <1>3, <1>8 DEF Whole
<1> QED
  BY <1>3, <1>7, <1>9

(* The free list, when it is not empty, starts with free_head.             *)
LEMMA FrontOfList ==
  ASSUME NEW q, NEW K, NEW nx, NEW hd, Shared(K, q), Linked(K, nx, hd, q), NEW a \in K
  PROVE  /\ hd[a] = IF q[a] = <<>> THEN NULL ELSE q[a][1]
         /\ q[a] # <<>> => q[a][1] \in Slots /\ q[a][1] # NULL /\ 1 \in 1 .. Len(q[a])
         /\ q[a] # <<>> <=> hd[a] # NULL
<1>1. q[a] \in Seq(Slots) /\ IsChain(nx, hd[a], q[a])
  BY DEF Shared, Linked
<1> DEFINE r == q[a]
<1>2. r \in Seq(Slots) /\ IsChain(nx, hd[a], r)
  BY <1>1
<1> HIDE DEF r
<1>3. hd[a] = IF r = <<>> THEN NULL ELSE r[1]
  BY <1>2 DEF IsChain
<1>4. r # <<>> => 1 \in 1 .. Len(r)
  BY <1>2, EmptyIsNothing
<1>5. r # <<>> => r[1] \in Slots /\ r[1] # NULL
  BY <1>2, <1>4, SlotsAreNumbers
<1> QED
  BY <1>3, <1>4, <1>5 DEF r

-----------------------------------------------------------------------------
(* The heads of the lists, before and after a step, by the kind of job.    *)

LEMMA SettledHeads ==
  /\ job.op # "rebase" =>
       /\ Heads[Free] = free_head
       /\ \A side \in Side, i \in Idx : /\ Heads[Old(side, i)] = level[side][i].head
                                        /\ Heads[New(side, i)] = NULL
  /\ job'.op # "rebase" =>
       /\ Heads'[Free] = free_head'
       /\ \A side \in Side, i \in Idx : /\ Heads'[Old(side, i)] = level'[side][i].head
                                        /\ Heads'[New(side, i)] = NULL
<1>1. ASSUME job.op # "rebase"
      PROVE  /\ Heads[Free] = free_head
             /\ \A side \in Side, i \in Idx : /\ Heads[Old(side, i)] = level[side][i].head
                                              /\ Heads[New(side, i)] = NULL
  <2>1. /\ HeadsOf(free_head, OldHeads, NewHeads)[Free] = free_head
        /\ \A side \in Side, i \in Idx :
             /\ HeadsOf(free_head, OldHeads, NewHeads)[Old(side, i)] = OldHeads[side][i]
             /\ HeadsOf(free_head, OldHeads, NewHeads)[New(side, i)] = NewHeads[side][i]
    BY HeadsAre
  <2> QED
    BY <1>1, <2>1 DEF Heads, OldHeads, NewHeads
<1>2. ASSUME job'.op # "rebase"
      PROVE  /\ Heads'[Free] = free_head'
             /\ \A side \in Side, i \in Idx : /\ Heads'[Old(side, i)] = level'[side][i].head
                                              /\ Heads'[New(side, i)] = NULL
  <2>1. /\ HeadsOf(free_head', OldHeads', NewHeads')[Free] = free_head'
        /\ \A side \in Side, i \in Idx :
             /\ HeadsOf(free_head', OldHeads', NewHeads')[Old(side, i)] = OldHeads'[side][i]
             /\ HeadsOf(free_head', OldHeads', NewHeads')[New(side, i)] = NewHeads'[side][i]
    BY HeadsAre
  <2> QED
    BY <1>2, <2>1 DEF Heads, OldHeads, NewHeads
<1> QED
  BY <1>1, <1>2

LEMMA SlidingHeads ==
  /\ job.op = "rebase" =>
       /\ Heads[Free] = free_head
       /\ \A side \in Side, i \in Idx :
            /\ Heads[Old(side, i)] = IF Pos(side, i) > job.at THEN level[side][i].head
                                     ELSE IF Pos(side, i) = job.at THEN job.idx ELSE NULL
            /\ Heads[New(side, i)] = job.level[side][i].head
  /\ job'.op = "rebase" =>
       /\ Heads'[Free] = free_head'
       /\ \A side \in Side, i \in Idx :
            /\ Heads'[Old(side, i)] = IF Pos(side, i) > job'.at THEN level'[side][i].head
                                      ELSE IF Pos(side, i) = job'.at THEN job'.idx ELSE NULL
            /\ Heads'[New(side, i)] = job'.level[side][i].head
<1>1. ASSUME job.op = "rebase"
      PROVE  /\ Heads[Free] = free_head
             /\ \A side \in Side, i \in Idx :
                  /\ Heads[Old(side, i)] =
                       IF Pos(side, i) > job.at THEN level[side][i].head
                       ELSE IF Pos(side, i) = job.at THEN job.idx ELSE NULL
                  /\ Heads[New(side, i)] = job.level[side][i].head
  <2>1. /\ HeadsOf(free_head, OldHeads, NewHeads)[Free] = free_head
        /\ \A side \in Side, i \in Idx :
             /\ HeadsOf(free_head, OldHeads, NewHeads)[Old(side, i)] = OldHeads[side][i]
             /\ HeadsOf(free_head, OldHeads, NewHeads)[New(side, i)] = NewHeads[side][i]
    BY HeadsAre
  <2> QED
    BY <1>1, <2>1 DEF Heads, OldHeads, NewHeads
<1>2. ASSUME job'.op = "rebase"
      PROVE  /\ Heads'[Free] = free_head'
             /\ \A side \in Side, i \in Idx :
                  /\ Heads'[Old(side, i)] =
                       IF Pos(side, i) > job'.at THEN level'[side][i].head
                       ELSE IF Pos(side, i) = job'.at THEN job'.idx ELSE NULL
                  /\ Heads'[New(side, i)] = job'.level[side][i].head
  <2>1. /\ HeadsOf(free_head', OldHeads', NewHeads')[Free] = free_head'
        /\ \A side \in Side, i \in Idx :
             /\ HeadsOf(free_head', OldHeads', NewHeads')[Old(side, i)] = OldHeads'[side][i]
             /\ HeadsOf(free_head', OldHeads', NewHeads')[New(side, i)] = NewHeads'[side][i]
    BY HeadsAre
  <2> QED
    BY <1>2, <2>1 DEF Heads, OldHeads, NewHeads
<1> QED
  BY <1>1, <1>2

-----------------------------------------------------------------------------
(* Every step keeps the lists good.                                        *)

LEMMA InitGood ==
  ASSUME Init
  PROVE  StoreTypeOK /\ \E q \in [Keys -> Seq(Slots)] : Good(q)
<1> DEFINE f == [k \in 1 .. MaxOrders |-> k - 1]
           q == [c \in Keys |-> IF c = Free THEN f ELSE <<>>]
<1>1. MaxOrders \in Nat \ {0} /\ Band \in Nat \ {0} /\ NULL \notin Nat
  BY StoreAssumption
<1>2. /\ next_idx = [s \in Slots |-> IF s + 1 \in Slots THEN s + 1 ELSE NULL]
      /\ prev_idx = [s \in Slots |-> 0]
      /\ side_of = [s \in Slots |-> "BUY"] /\ price_of = [s \in Slots |-> 0]
      /\ free_head = 0 /\ level = NoLevels /\ base = 0 /\ held = {} /\ job = Idle
  BY DEF Init
<1>3. \A side \in Side, i \in Idx : level[side][i] = EmptyLevel
  BY <1>2 DEF NoLevels
<1>4. job.op # "rebase"
  BY <1>2 DEF Idle
<1>5. StoreTypeOK
  <2>1. 0 \in Slots /\ 0 \in Idx
    BY <1>1 DEF Slots, Idx
  <2>2. EmptyLevel \in Record
    BY DEF EmptyLevel, Record, Ref
  <2>3. level \in Levels
    BY <1>2, <2>2 DEF Levels, NoLevels
  <2> QED
    BY <1>2, <2>1, <2>3 DEF StoreTypeOK, JobTypeOK, Ref, Side
<1>6. f \in Seq(Slots) /\ Len(f) = MaxOrders /\ f # <<>>
      /\ \A k \in 1 .. MaxOrders : f[k] = k - 1
  <2>1. \A k \in 1 .. MaxOrders : k - 1 \in Slots
    BY <1>1 DEF Slots
  <2>2. f \in [1 .. MaxOrders -> Slots]
    BY <2>1
  <2>3. f \in Seq(Slots)
    BY <1>1, <2>2, IsASeq
  <2>4. DOMAIN f = 1 .. MaxOrders
    OBVIOUS
  <2> HIDE DEF f
  <2>5. Len(f) = MaxOrders
    BY <1>1, <2>3, <2>4
  <2>6. f # <<>>
    BY <1>1, <2>3, <2>5, EmptyIsNothing
  <2> QED
    BY <2>3, <2>5, <2>6 DEF f
<1> HIDE DEF f
<1>7. /\ q[Free] = f
      /\ \A side \in Side, i \in Idx : q[Old(side, i)] = <<>> /\ q[New(side, i)] = <<>>
  BY KeyCases
<1>8. q \in [Keys -> Seq(Slots)]
  BY <1>6
<1>9. \A c \in Keys : c # Free => q[c] = <<>> /\ Len(q[c]) = 0
  <2>1. Len(<<>>) = 0
    OBVIOUS
  <2> QED
    BY <2>1
<1> HIDE DEF q
<1>10. Shared(Keys, q)
  <2>1. \A a, b \in Keys : \A j \in 1 .. Len(q[a]), k \in 1 .. Len(q[b]) :
          q[a][j] = q[b][k] => a = b /\ j = k
    <3> SUFFICES ASSUME NEW a \in Keys, NEW b \in Keys, NEW j \in 1 .. Len(q[a]),
                        NEW k \in 1 .. Len(q[b]), q[a][j] = q[b][k]
                 PROVE  a = b /\ j = k
      OBVIOUS
    <3>1. a = Free /\ b = Free
      BY <1>9
    <3> QED
      BY <1>1, <1>6, <1>7, <3>1
  <2>2. \A s \in Slots : \E a \in Keys : \E k \in 1 .. Len(q[a]) : q[a][k] = s
    <3> SUFFICES ASSUME NEW s \in Slots
                 PROVE  \E a \in Keys : \E k \in 1 .. Len(q[a]) : q[a][k] = s
      OBVIOUS
    <3>1. s + 1 \in 1 .. MaxOrders /\ (s + 1) - 1 = s
      BY <1>1 DEF Slots
    <3>2. f[s + 1] = s
      BY <1>6, <3>1
    <3>3. q[Free] = f /\ Len(q[Free]) = MaxOrders
      BY <1>6, <1>7
    <3> QED
      BY <3>1, <3>2, <3>3, KeyCases
  <2> QED
    BY <1>8, <2>1, <2>2 DEF Shared
<1>11. Linked(Keys, next_idx, Heads, q)
  <2> SUFFICES ASSUME NEW c \in Keys PROVE IsChain(next_idx, Heads[c], q[c])
    BY DEF Linked
  <2>1. CASE c = Free
    <3>1. Heads[c] = 0 /\ q[c] = f
      BY <1>2, <1>4, <1>7, <2>1, SettledHeads
    <3>2. f[1] = 0
      BY <1>1, <1>6
    <3>3. \A k \in 1 .. MaxOrders :
            next_idx[f[k]] = IF k = MaxOrders THEN NULL ELSE f[k + 1]
      <4> SUFFICES ASSUME NEW k \in 1 .. MaxOrders
                   PROVE  next_idx[f[k]] = IF k = MaxOrders THEN NULL ELSE f[k + 1]
        OBVIOUS
      <4>1. f[k] = k - 1 /\ k - 1 \in Slots /\ (k - 1) + 1 = k
        BY <1>1, <1>6 DEF Slots
      <4>2. k \in Slots <=> k # MaxOrders
        BY <1>1 DEF Slots
      <4>3. k # MaxOrders => f[k + 1] = k
        BY <1>1, <1>6
      <4> QED
        BY <1>2, <4>1, <4>2, <4>3
    <3> QED
      BY <1>6, <3>1, <3>2, <3>3 DEF IsChain
  <2>2. CASE c # Free
    <3>1. PICK side \in Side, i \in Idx : c = Old(side, i) \/ c = New(side, i)
      BY <2>2, KeyCases
    <3>2. level[side][i].head = NULL
      BY <1>3 DEF EmptyLevel
    <3>3. Heads[c] = NULL
      BY <1>4, <3>1, <3>2, SettledHeads
    <3> QED
      BY <1>9, <2>2, <3>3 DEF IsChain
  <2> QED
    BY <2>1, <2>2
<1>12. HeldInLevels(held, q)
  BY <1>2, <1>9 DEF HeldInLevels
<1>13. Settled(q)
  <2> SUFFICES ASSUME NEW side \in Side, NEW i \in Idx
               PROVE  Whole(prev_idx, side_of, price_of, level[side][i], side, i,
                            q[Old(side, i)])
    BY <1>7 DEF Settled
  <2>1. q[Old(side, i)] = <<>> /\ Len(<<>>) = 0
    BY <1>7
  <2> QED
    BY <1>3, <2>1 DEF Whole, EmptyLevel, Backed
<1> QED
  BY <1>4, <1>5, <1>8, <1>10, <1>11, <1>12, <1>13 DEF Good

LEMMA OldKeys ==
  ASSUME NEW side, NEW i, NEW side2, NEW i2
  PROVE  /\ Old(side, i) = Old(side2, i2) <=> side = side2 /\ i = i2
         /\ New(side, i) = New(side2, i2) <=> side = side2 /\ i = i2
         /\ Old(side, i) # New(side2, i2) /\ New(side2, i2) # Old(side, i)
<1>1. Old(side, i)[1] # New(side2, i2)[1] /\ Old(side, i)[2] = side /\ Old(side, i)[3] = i
      /\ New(side, i)[2] = side /\ New(side, i)[3] = i
  BY DEF Old, New
<1>2. Old(side2, i2)[2] = side2 /\ Old(side2, i2)[3] = i2
      /\ New(side2, i2)[2] = side2 /\ New(side2, i2)[3] = i2
  BY DEF Old, New
<1> QED
  BY <1>1, <1>2

LEMMA RestGood ==
  ASSUME StoreTypeOK, NEW q, Good(q), NEW side \in Side, NEW price \in Prices,
         Rest(side, price)
  PROVE  /\ StoreTypeOK'
         /\ \E q2 \in [Keys -> Seq(Slots)] :
              q2 = ToBack(Keys, q, Free, Old(side, price - base)) /\ Good(q2)'
<1> DEFINE s == free_head
           i == price - base
           l == level[side][i]
           o == Old(side, i)
           r == q[o]
<1>1. /\ Shared(Keys, q) /\ Linked(Keys, next_idx, Heads, q) /\ HeldInLevels(held, q)
      /\ job.op # "rebase" /\ job'.op # "rebase" /\ Settled(q)
  BY DEF Good, Rest, Idle
<1>2. /\ i \in Idx /\ s # NULL /\ s \in Slots
      /\ free_head' = next_idx[s]
      /\ prev_idx' = [prev_idx EXCEPT ![s] = l.tail]
      /\ next_idx' = [x \in Slots |-> IF x = s THEN NULL
                                      ELSE IF x = l.tail THEN s ELSE next_idx[x]]
      /\ level' = [level EXCEPT ![side][i] = Appended(l, s)]
      /\ side_of' = [side_of EXCEPT ![s] = side]
      /\ price_of' = [price_of EXCEPT ![s] = i]
      /\ held' = held \union {s}
      /\ base' = base /\ job' = job /\ job = Idle
  BY DEF Rest, StoreTypeOK, Ref
<1>3. o \in Keys /\ o # Free /\ Free \in Keys
  BY <1>2, KeyCases
<1>4. /\ q[Free] # <<>> /\ q[Free][1] = s /\ 1 \in 1 .. Len(q[Free])
      /\ r \in Seq(Slots)
      /\ l.head = IF r = <<>> THEN NULL ELSE r[1]
      /\ l.head = NULL <=> r = <<>>
  <2>1. Heads[Free] = s /\ Heads[o] = l.head
    BY <1>1, <1>2, SettledHeads
  <2>2. r \in Seq(Slots)
    BY <1>1, <1>3 DEF Shared
  <2>3. /\ Heads[Free] = IF q[Free] = <<>> THEN NULL ELSE q[Free][1]
        /\ q[Free] # <<>> => 1 \in 1 .. Len(q[Free])
        /\ Heads[o] = IF q[o] = <<>> THEN NULL ELSE q[o][1]
        /\ q[o] # <<>> <=> Heads[o] # NULL
    BY <1>1, <1>3, FrontOfList
  <2> QED
    BY <1>2, <2>1, <2>2, <2>3
<1>5. /\ Whole(prev_idx, side_of, price_of, l, side, i, r)
      /\ l.tail = IF r = <<>> THEN NULL ELSE r[Len(r)]
      /\ l.head \in Ref /\ l.tail \in Ref /\ l.count \in Nat
  <2>1. Whole(prev_idx, side_of, price_of, l, side, i, r)
    BY <1>1, <1>2 DEF Settled
  <2>2. l \in Record
    BY <1>2 DEF StoreTypeOK, Levels
  <2> QED
    BY <2>1, <2>2 DEF Whole, Record
<1>6. \A side2 \in Side, i2 \in Idx :
        level'[side2][i2] = IF side2 = side /\ i2 = i THEN Appended(l, s)
                            ELSE level[side2][i2]
  BY <1>2 DEF StoreTypeOK, Levels
<1>7. StoreTypeOK'
  <2>1. Appended(l, s) \in Record
    BY <1>2, <1>5 DEF Appended, Record, Ref
  <2>2. level' \in Levels
    BY <1>2, <2>1 DEF StoreTypeOK, Levels
  <2>3. next_idx' \in [Slots -> Ref]
    BY <1>2 DEF StoreTypeOK, Ref
  <2>4. /\ prev_idx' \in [Slots -> Ref]
        /\ side_of' \in [Slots -> Side] /\ price_of' \in [Slots -> Idx]
        /\ free_head' \in Ref /\ base' \in Nat /\ held' \in SUBSET Slots
    BY <1>2, <1>5 DEF StoreTypeOK
  <2>5. JobTypeOK'
    BY <1>2 DEF JobTypeOK
  <2> QED
    BY <2>2, <2>3, <2>4, <2>5 DEF StoreTypeOK
<1> HIDE DEF s, l, o, r, i
<1>8. PICK q2 : q2 = ToBack(Keys, q, Free, o)
  OBVIOUS
<1>9. Shared(Keys, q2)
  BY <1>1, <1>3, <1>4, <1>8, ToBackShared
<1>10. Linked(Keys, next_idx', Heads', q2)
  <2>1. \A x \in Slots : next_idx'[x] = IF x = q[Free][1] THEN NULL
                                        ELSE IF q[o] # <<>> /\ x = q[o][Len(q[o])]
                                             THEN q[Free][1] ELSE next_idx[x]
    <3> SUFFICES ASSUME NEW x \in Slots
                 PROVE  next_idx'[x] = IF x = s THEN NULL
                                       ELSE IF r # <<>> /\ x = r[Len(r)] THEN s
                                       ELSE next_idx[x]
      BY <1>4 DEF r
    <3>1. x # NULL
      BY SlotsAreNumbers
    <3> QED
      BY <1>2, <1>5, <3>1
  <2>2. \A c \in Keys : Heads'[c] = IF c = Free THEN next_idx[q[Free][1]]
                                    ELSE IF c = o /\ q[o] = <<>> THEN q[Free][1]
                                    ELSE Heads[c]
    <3> SUFFICES ASSUME NEW c \in Keys
                 PROVE  Heads'[c] = IF c = Free THEN next_idx[s]
                                    ELSE IF c = o /\ r = <<>> THEN s ELSE Heads[c]
      BY <1>4 DEF r
    <3>1. CASE c = Free
      BY <1>1, <1>2, <3>1, SettledHeads
    <3>2. CASE c # Free
      <4>1. PICK side2 \in Side, i2 \in Idx : c = Old(side2, i2) \/ c = New(side2, i2)
        BY <3>2, KeyCases
      <4>2. CASE c = New(side2, i2)
        <5>1. Heads'[c] = NULL /\ Heads[c] = NULL
          BY <1>1, <4>2, SettledHeads
        <5>2. c # o
          BY <1>2, <4>2, KeyCases DEF o
        <5> QED
          BY <3>2, <5>1, <5>2
      <4>3. CASE c = Old(side2, i2)
        <5>1. Heads'[c] = level'[side2][i2].head /\ Heads[c] = level[side2][i2].head
          BY <1>1, <4>3, SettledHeads
        <5>2. c = o <=> side2 = side /\ i2 = i
          BY <1>2, <4>3, OldKeys DEF o
        <5>3. c = o => level[side2][i2] = l
          BY <5>2 DEF l
        <5> QED
          BY <1>4, <1>6, <3>2, <5>1, <5>2, <5>3 DEF Appended
      <4> QED
        BY <4>1, <4>2, <4>3
    <3> QED
      BY <3>1, <3>2
  <2> QED
    BY <1>1, <1>3, <1>4, <1>8, <2>1, <2>2, ToBackLinked
<1>11. HeldInLevels(held', q2)
  <2>1. s = q[Free][1] /\ held' = held \union {s}
    BY <1>2, <1>4
  <2> QED
    BY <1>1, <1>3, <1>4, <1>8, <2>1, HeldMoves
<1>12. Settled(q2)'
  <2> SUFFICES ASSUME NEW side2 \in Side, NEW i2 \in Idx
               PROVE  /\ Whole(prev_idx', side_of', price_of', level'[side2][i2],
                               side2, i2, q2[Old(side2, i2)])
                      /\ q2[New(side2, i2)] = <<>>
    BY DEF Settled
  <2> DEFINE c == Old(side2, i2)
  <2>1. /\ c \in Keys /\ c # Free /\ New(side2, i2) \in Keys /\ New(side2, i2) # Free
        /\ New(side2, i2) # o
        /\ c = o <=> side2 = side /\ i2 = i
    BY <1>2, KeyCases, OldKeys DEF o
  <2>2. q2[New(side2, i2)] = q[New(side2, i2)]
    BY <1>8, <2>1 DEF ToBack
  <2>3. q[New(side2, i2)] = <<>>
        /\ Whole(prev_idx, side_of, price_of, level[side2][i2], side2, i2, q[c])
    BY <1>1 DEF Settled
  <2>4. \A k \in 1 .. Len(q[c]) : q[c][k] \in Slots /\ q[c][k] # s
    <3> SUFFICES ASSUME NEW k \in 1 .. Len(q[c]) PROVE q[c][k] \in Slots /\ q[c][k] # s
      OBVIOUS
    <3>1. q[c] \in Seq(Slots)
      BY <1>1, <2>1 DEF Shared
    <3>2. q[c][k] = q[Free][1] => c = Free
      BY <1>1, <1>3, <1>4, <2>1, OnePlace
    <3> QED
      BY <1>4, <2>1, <3>1, <3>2
  <2>5. \A k \in 1 .. Len(q[c]) : /\ prev_idx'[q[c][k]] = prev_idx[q[c][k]]
                                  /\ side_of'[q[c][k]] = side_of[q[c][k]]
                                  /\ price_of'[q[c][k]] = price_of[q[c][k]]
    BY <1>2, <2>4 DEF StoreTypeOK
  <2>6. q[c] \in Seq(Slots)
    BY <1>1, <2>1 DEF Shared
  <2> HIDE DEF c
  <2>7. CASE c # o
    <3>1. q2[c] = q[c] /\ level'[side2][i2] = level[side2][i2]
      BY <1>6, <1>8, <2>1, <2>7 DEF ToBack
    <3>2. Whole(prev_idx', side_of', price_of', level[side2][i2], side2, i2, q[c])
      BY <2>3, <2>5, <2>6, WholeSame
    <3> QED
      BY <2>2, <2>3, <3>1, <3>2 DEF c
  <2>8. CASE c = o
    <3>1. q2[c] = Append(r, s)
      BY <1>3, <1>4, <1>8, <2>8 DEF ToBack, r
    <3>2. level'[side2][i2] = Appended(l, s) /\ side2 = side /\ i2 = i
      BY <1>6, <2>1, <2>8
    <3>3. /\ prev_idx'[s] = l.tail /\ side_of'[s] = side /\ price_of'[s] = i
      BY <1>2 DEF StoreTypeOK
    <3> DEFINE l2 == Appended(l, s)
    <3>4. l2.tail = s /\ l2.count = l.count + 1
      BY DEF Appended
    <3>5. \A k \in 1 .. Len(r) : /\ prev_idx'[r[k]] = prev_idx[r[k]]
                                 /\ side_of'[r[k]] = side_of[r[k]]
                                 /\ price_of'[r[k]] = price_of[r[k]]
      BY <2>5, <2>8 DEF r
    <3> HIDE DEF l2
    <3>6. s \in Slots /\ r \in Seq(Slots) /\ Whole(prev_idx, side_of, price_of, l, side, i, r)
      BY <1>2, <1>4, <1>5
    <3>7. Whole(prev_idx', side_of', price_of', l2, side, i, Append(r, s))
      BY ONLY <3>3, <3>4, <3>5, <3>6, WholeAppend
    <3> QED
      BY <2>2, <2>3, <3>1, <3>2, <3>7 DEF c, l2
  <2> QED
    BY <2>7, <2>8
<1>13. Good(q2)'
  BY <1>1, <1>9, <1>10, <1>11, <1>12 DEF Good
<1>14. q2 \in [Keys -> Seq(Slots)]
  BY <1>9 DEF Shared
<1> QED
  BY <1>7, <1>8, <1>13, <1>14 DEF o, i

(* An order that leaves, from whatever place of its level.                 *)
LEMMA RemoveGood ==
  ASSUME StoreTypeOK, NEW q, Good(q), job.op # "rebase", job'.op # "rebase",
         NEW s \in held, Remove(s)
  PROVE  /\ JobTypeOK' => StoreTypeOK'
         /\ \E m \in 1 .. Len(q[Old(side_of[s], price_of[s])]) :
              /\ q[Old(side_of[s], price_of[s])][m] = s
              /\ \E q2 \in [Keys -> Seq(Slots)] :
                   /\ q2 = ToFront(Keys, q, Old(side_of[s], price_of[s]), m, Free)
                   /\ Good(q2)'
         /\ next_idx[s] # NULL => next_idx[s] \in held' /\ next_idx[s] \in Slots
<1> DEFINE side == side_of[s]
           i == price_of[s]
           l == level[side][i]
           o == Old(side, i)
           r == q[o]
           p == prev_idx[s]
           n == next_idx[s]
           l2 == [head |-> IF p = NULL THEN n ELSE l.head,
                  tail |-> IF n = NULL THEN p ELSE l.tail,
                  count |-> l.count - 1]
<1>1. /\ Shared(Keys, q) /\ Linked(Keys, next_idx, Heads, q) /\ HeldInLevels(held, q)
      /\ Settled(q)
  BY DEF Good
<1>2. /\ s \in Slots /\ side \in Side /\ i \in Idx /\ p \in Ref /\ n \in Ref
      /\ level' = [level EXCEPT ![side][i] =
                     [head |-> IF p = NULL THEN n ELSE @.head,
                      tail |-> IF n = NULL THEN p ELSE @.tail,
                      count |-> @.count - 1]]
      /\ next_idx' = [x \in Slots |-> IF x = s THEN free_head
                                      ELSE IF x = p THEN n ELSE next_idx[x]]
      /\ prev_idx' = [x \in Slots |-> IF x = s THEN NULL
                                      ELSE IF x = n THEN p ELSE prev_idx[x]]
      /\ free_head' = s
      /\ held' = held \ {s}
      /\ side_of' = side_of /\ price_of' = price_of /\ base' = base
  BY DEF Remove, StoreTypeOK
<1>3. o \in Keys /\ o # Free /\ Free \in Keys
  BY <1>2, KeyCases
<1>4. \E m \in 1 .. Len(q[Old(side_of[s], price_of[s])]) :
        q[Old(side_of[s], price_of[s])][m] = s
  BY HeldIsLocated
<1>5. PICK m \in 1 .. Len(r) : r[m] = s
  BY <1>4
<1>6. /\ Whole(prev_idx, side_of, price_of, l, side, i, r)
      /\ l.head \in Ref /\ l.tail \in Ref /\ l.count \in Nat /\ l.count = Len(r)
  <2>1. Whole(prev_idx, side_of, price_of, l, side, i, r)
    BY <1>1, <1>2 DEF Settled
  <2>2. l \in Record
    BY <1>2 DEF StoreTypeOK, Levels
  <2> QED
    BY <2>1, <2>2 DEF Whole, Record
<1>7. \A side2 \in Side, i2 \in Idx :
        level'[side2][i2] = IF side2 = side /\ i2 = i THEN l2 ELSE level[side2][i2]
  BY <1>2 DEF StoreTypeOK, Levels
<1>8. IsChain(next_idx, l.head, r) /\ r \in Seq(Slots)
  <2>1. Heads[o] = l.head
    BY <1>1, <1>2, SettledHeads
  <2> QED
    BY <1>1, <1>3, <2>1 DEF Linked, Shared
<1>a. Len(r) \in Nat /\ m \in Nat /\ r # <<>>
  BY <1>5, <1>8, EmptyIsNothing
<1> HIDE DEF side, i, l, o, r, p, n, l2
<1>b. /\ n = IF m = Len(r) THEN NULL ELSE r[m + 1]
      /\ p = IF m = 1 THEN NULL ELSE r[m - 1]
      /\ l.head = r[1]
  <2>1. next_idx[r[m]] = IF m = Len(r) THEN NULL ELSE r[m + 1]
    BY <1>5, <1>8 DEF IsChain
  <2>2. prev_idx[r[m]] = IF m = 1 THEN NULL ELSE r[m - 1]
    BY <1>5, <1>6 DEF Whole, Backed
  <2> QED
    BY <1>5, <1>8, <1>a, <2>1, <2>2 DEF IsChain, n, p
<1>c. /\ \A k \in 1 .. Len(r) : r[k] \in Slots /\ r[k] # NULL
      /\ Distinct(r)
  BY <1>1, <1>3, <1>8, SharedDistinct, SlotsAreNumbers DEF Distinct, r
<1>d. n # NULL => n \in held' /\ n \in Slots
  <2> SUFFICES ASSUME n # NULL PROVE n \in held' /\ n \in Slots
    OBVIOUS
  <2>1. m + 1 \in 1 .. Len(r) /\ n = r[m + 1] /\ m + 1 # m
    BY <1>5, <1>a, <1>b
  <2>2. n \in Slots /\ n # s
    BY <1>5, <1>c, <2>1 DEF Distinct
  <2>3. n \in held
    BY <1>1, <1>3, <2>1 DEF HeldInLevels, r
  <2> QED
    BY <1>2, <2>2, <2>3
<1>e. p = NULL <=> m = 1
  <2>1. m # 1 => m - 1 \in 1 .. Len(r)
    BY <1>5, <1>a
  <2> QED
    BY <1>b, <1>c, <2>1
<1>f. ASSUME JobTypeOK' PROVE StoreTypeOK'
  <2>1. l2 \in Record
    <3>1. Len(r) - 1 \in Nat
      BY <1>5, <1>a
    <3> QED
      BY <1>2, <1>6, <3>1 DEF l2, Record, Ref
  <2>2. level' \in Levels
    <3>1. level' = [level EXCEPT ![side] = [level[side] EXCEPT ![i] = l2]]
      BY <1>2 DEF l2, l
    <3> QED
      BY <1>2, <2>1, <3>1 DEF StoreTypeOK, Levels
  <2>3. next_idx' \in [Slots -> Ref] /\ prev_idx' \in [Slots -> Ref]
    BY <1>2 DEF StoreTypeOK, Ref
  <2>4. /\ side_of' \in [Slots -> Side] /\ price_of' \in [Slots -> Idx]
        /\ free_head' \in Ref /\ base' \in Nat /\ held' \in SUBSET Slots
    BY <1>2 DEF StoreTypeOK, Ref
  <2> QED
    BY <1>f, <2>2, <2>3, <2>4 DEF StoreTypeOK
<1>g. PICK q2 : q2 = ToFront(Keys, q, o, m, Free)
  OBVIOUS
<1>h. m \in 1 .. Len(q[o]) /\ q[o][m] = s
  BY <1>5 DEF r
<1>i. Shared(Keys, q2)
  BY <1>1, <1>3, <1>g, <1>h, ToFrontShared
<1>j. Linked(Keys, next_idx', Heads', q2)
  <2>1. \A x \in Slots : next_idx'[x] = IF x = q[o][m] THEN Heads[Free]
                                        ELSE IF m > 1 /\ x = q[o][m - 1]
                                             THEN next_idx[q[o][m]] ELSE next_idx[x]
    <3> SUFFICES ASSUME NEW x \in Slots
                 PROVE  next_idx'[x] = IF x = s THEN free_head
                                       ELSE IF m > 1 /\ x = r[m - 1] THEN n
                                       ELSE next_idx[x]
      BY <1>1, <1>h, SettledHeads DEF r, n
    <3>1. x = p <=> m > 1 /\ x = r[m - 1]
      BY <1>5, <1>a, <1>b, SlotsAreNumbers
    <3> QED
      BY <1>2, <3>1
  <2>2. \A c \in Keys : Heads'[c] = IF c = Free THEN q[o][m]
                                    ELSE IF c = o /\ m = 1 THEN next_idx[q[o][m]]
                                    ELSE Heads[c]
    <3> SUFFICES ASSUME NEW c \in Keys
                 PROVE  Heads'[c] = IF c = Free THEN s
                                    ELSE IF c = o /\ m = 1 THEN n ELSE Heads[c]
      BY <1>h DEF n
    <3>1. CASE c = Free
      BY <1>2, <3>1, SettledHeads
    <3>2. CASE c # Free
      <4>1. PICK side2 \in Side, i2 \in Idx : c = Old(side2, i2) \/ c = New(side2, i2)
        BY <3>2, KeyCases
      <4>2. CASE c = New(side2, i2)
        <5>1. Heads'[c] = NULL /\ Heads[c] = NULL
          BY <4>2, SettledHeads
        <5>2. c # o
          BY <4>2, OldKeys DEF o
        <5> QED
          BY <3>2, <5>1, <5>2
      <4>3. CASE c = Old(side2, i2)
        <5>1. Heads'[c] = level'[side2][i2].head /\ Heads[c] = level[side2][i2].head
          BY <4>3, SettledHeads
        <5>2. c = o <=> side2 = side /\ i2 = i
          BY <4>3, OldKeys DEF o
        <5>3. c = o => level[side2][i2] = l
          BY <5>2 DEF l
        <5> QED
          BY <1>7, <1>e, <3>2, <5>1, <5>2, <5>3 DEF l2
      <4> QED
        BY <4>1, <4>2, <4>3
    <3> QED
      BY <3>1, <3>2
  <2>3. Shared(Keys, q) /\ Linked(Keys, next_idx, Heads, q)
    BY <1>1
  <2>4. o \in Keys /\ o # Free /\ Free \in Keys /\ m \in 1 .. Len(q[o])
    BY <1>3, <1>h
  <2>5. Linked(Keys, next_idx', Heads', ToFront(Keys, q, o, m, Free))
    BY ONLY <2>1, <2>2, <2>3, <2>4, ToFrontLinked
  <2> QED
    BY <1>g, <2>5
<1>k. HeldInLevels(held', q2)
  <2>1. s = q[o][m] /\ held' = held \ {s}
    BY <1>2, <1>h
  <2>2. HeldInLevels(held \ {s}, ToFront(Keys, q, o, m, Free))
    BY <1>1, <1>3, <1>h, <2>1, HeldLeaves
  <2> QED
    BY <1>g, <2>1, <2>2
<1>l. Settled(q2)'
  <2> SUFFICES ASSUME NEW side2 \in Side, NEW i2 \in Idx
               PROVE  /\ Whole(prev_idx', side_of', price_of', level'[side2][i2],
                               side2, i2, q2[Old(side2, i2)])
                      /\ q2[New(side2, i2)] = <<>>
    BY DEF Settled
  <2> DEFINE c == Old(side2, i2)
  <2>1. /\ c \in Keys /\ c # Free /\ New(side2, i2) \in Keys /\ New(side2, i2) # Free
        /\ New(side2, i2) # o
        /\ c = o <=> side2 = side /\ i2 = i
    BY <1>2, KeyCases, OldKeys DEF o
  <2>2. q2[New(side2, i2)] = q[New(side2, i2)]
    BY <1>g, <2>1 DEF ToFront
  <2>3. q[New(side2, i2)] = <<>>
        /\ Whole(prev_idx, side_of, price_of, level[side2][i2], side2, i2, q[c])
    BY <1>1 DEF Settled
  <2>4. q[c] \in Seq(Slots)
    BY <1>1, <2>1 DEF Shared
  <2> HIDE DEF c
  <2>5. CASE c # o
    <3>1. q2[c] = q[c] /\ level'[side2][i2] = level[side2][i2]
      BY <1>7, <1>g, <2>1, <2>5 DEF ToFront
    <3>2. \A k \in 1 .. Len(q[c]) : /\ prev_idx'[q[c][k]] = prev_idx[q[c][k]]
                                    /\ side_of'[q[c][k]] = side_of[q[c][k]]
                                    /\ price_of'[q[c][k]] = price_of[q[c][k]]
      <4> SUFFICES ASSUME NEW k \in 1 .. Len(q[c])
                   PROVE  prev_idx'[q[c][k]] = prev_idx[q[c][k]]
        BY <1>2
      <4>1. q[c][k] \in Slots
        BY <2>4
      <4>2. q[c][k] # s
        BY <1>1, <1>3, <1>h, <2>1, <2>5, OnePlace
      <4>3. q[c][k] # n
        <5>1. SUFFICES ASSUME n # NULL PROVE q[c][k] # n
          BY <4>1, SlotsAreNumbers
        <5>2. m + 1 \in 1 .. Len(r) /\ n = r[m + 1]
          BY <1>5, <1>a, <1>b, <5>1
        <5>3. m + 1 \in 1 .. Len(q[o]) /\ n = q[o][m + 1]
          BY <5>2 DEF r
        <5> QED
          BY <1>1, <1>3, <2>1, <2>5, <5>3, OnePlace
      <4> QED
        BY <1>2, <4>1, <4>2, <4>3
    <3>3. Whole(prev_idx', side_of', price_of', level[side2][i2], side2, i2, q[c])
      BY <2>3, <2>4, <3>2, WholeSame
    <3> QED
      BY <2>2, <2>3, <3>1, <3>3 DEF c
  <2>6. CASE c = o
    <3>1. q2[c] = Cut(r, m)
      BY <1>3, <1>g, <2>6 DEF ToFront, r
    <3>2. level'[side2][i2] = l2 /\ side2 = side /\ i2 = i
      BY <1>7, <2>1, <2>6
    <3>3. /\ \A x \in Slots : prev_idx'[x] = IF x = s THEN NULL
                                             ELSE IF x = n THEN p ELSE prev_idx[x]
          /\ side_of' = side_of /\ price_of' = price_of /\ s = r[m]
      BY <1>2, <1>5
    <3>4. l2.tail = (IF n = NULL THEN p ELSE l.tail) /\ l2.count = l.count - 1
      BY DEF l2
    <3>5. Whole(prev_idx', side_of, price_of, l2, side, i, Cut(r, m))
      BY ONLY <1>5, <1>6, <1>8, <1>b, <1>c, <3>3, <3>4, WholeCut
    <3> QED
      BY <2>2, <2>3, <3>1, <3>2, <3>3, <3>5 DEF c
  <2> QED
    BY <2>5, <2>6
<1>m. Good(q2)'
  BY <1>i, <1>j, <1>k, <1>l DEF Good
<1>n. q2 \in [Keys -> Seq(Slots)]
  BY <1>i DEF Shared
<1> QED
  BY <1>d, <1>f, <1>g, <1>h, <1>m, <1>n DEF n, o, side, i

LEMMA CancelRemoves ==
  ASSUME StoreTypeOK, NEW s \in Slots, Cancel(s)
  PROVE  /\ job.op # "rebase" /\ job'.op # "rebase" /\ JobTypeOK'
         /\ s \in held /\ Remove(s)
<1>1. job = Idle /\ s \in held /\ Remove(s) /\ job' = job
  BY DEF Cancel
<1>2. job.op # "rebase" /\ job'.op # "rebase" /\ JobTypeOK'
  BY <1>1 DEF Idle, JobTypeOK
<1> QED
  BY <1>1, <1>2

LEMMA MatchJob ==
  ASSUME StoreTypeOK, job.op = "match"
  PROVE  /\ job \in [op : {"match"}, idx : Slots, side : Side, at : Idx]
         /\ job.idx \in held
BY DEF StoreTypeOK, JobTypeOK, Idle

LEMMA MatchWholeRemoves ==
  ASSUME StoreTypeOK, NEW q, Good(q), MatchWhole
  PROVE  /\ job.op # "rebase" /\ job'.op # "rebase" /\ JobTypeOK'
         /\ job.idx \in held /\ Remove(job.idx)
<1> DEFINE s == job.idx
           n == next_idx[s]
<1>1. /\ job.op = "match" /\ Remove(s)
      /\ job' = Idle \/ (n # NULL /\ job' = [job EXCEPT !.idx = n])
  BY DEF MatchWhole, Following
<1>2. /\ job \in [op : {"match"}, idx : Slots, side : Side, at : Idx]
      /\ s \in held
  BY <1>1, MatchJob
<1>3. job.op # "rebase" /\ job'.op # "rebase"
  BY <1>1, <1>2 DEF Idle
<1>4. n # NULL => n \in held' /\ n \in Slots
  BY <1>1, <1>2, <1>3, RemoveGood
<1>5. JobTypeOK'
  <2>1. CASE job' = Idle
    BY <2>1 DEF JobTypeOK
  <2>2. CASE n # NULL /\ job' = [job EXCEPT !.idx = n]
    BY <1>2, <1>4, <2>2 DEF JobTypeOK
  <2> QED
    BY <1>1, <2>1, <2>2
<1> QED
  BY <1>1, <1>2, <1>3, <1>5

(* The steps that leave every list where it is.                            *)
LEMMA SameLists ==
  ASSUME NEW q, Good(q), next_idx' = next_idx, held' = held,
         \A c \in Keys : Heads'[c] = Heads[c],
         IF job'.op = "rebase" THEN Sliding(q)' ELSE Settled(q)'
  PROVE  Good(q)' /\ q \in [Keys -> Seq(Slots)]
<1>1. Shared(Keys, q) /\ Linked(Keys, next_idx, Heads, q) /\ HeldInLevels(held, q)
  BY DEF Good
<1>2. Linked(Keys, next_idx', Heads', q)
  BY <1>1 DEF Linked
<1> QED
  BY <1>1, <1>2 DEF Good, Shared

LEMMA StartMatchGood ==
  ASSUME StoreTypeOK, NEW q, Good(q), NEW side \in Side, NEW i \in Idx,
         StartMatch(side, i)
  PROVE  StoreTypeOK' /\ Good(q)'
<1> DEFINE o == Old(side, i)
           h == level[side][i].head
<1>1. /\ job = Idle /\ h # NULL
      /\ job' = [op |-> "match", idx |-> h, side |-> side, at |-> i]
      /\ next_idx' = next_idx /\ prev_idx' = prev_idx /\ side_of' = side_of
      /\ price_of' = price_of /\ free_head' = free_head /\ level' = level
      /\ base' = base /\ held' = held
  BY DEF StartMatch
<1>2. /\ job.op # "rebase" /\ job'.op # "rebase" /\ Settled(q)
      /\ Shared(Keys, q) /\ Linked(Keys, next_idx, Heads, q) /\ HeldInLevels(held, q)
  BY <1>1 DEF Good, Idle
<1>3. o \in Keys /\ o # Free
  BY KeyCases
<1>4. h \in Slots /\ h \in held
  <2>1. Heads[o] = h
    BY <1>2, SettledHeads
  <2>2. q[o] # <<>> /\ q[o][1] = h /\ q[o][1] \in Slots /\ 1 \in 1 .. Len(q[o])
    BY <1>1, <1>2, <1>3, <2>1, FrontOfList
  <2> QED
    BY <1>2, <1>3, <2>2 DEF HeldInLevels
<1>5. StoreTypeOK'
  BY <1>1, <1>4 DEF StoreTypeOK, JobTypeOK
<1>6. \A c \in Keys : Heads'[c] = Heads[c]
  <2> SUFFICES ASSUME NEW c \in Keys PROVE Heads'[c] = Heads[c]
    OBVIOUS
  <2>1. c = Free \/ \E side2 \in Side, i2 \in Idx : c = Old(side2, i2) \/ c = New(side2, i2)
    BY KeyCases
  <2> QED
    BY <1>1, <1>2, <2>1, SettledHeads
<1>7. Settled(q)'
  BY <1>1, <1>2 DEF Settled
<1> QED
  BY <1>1, <1>2, <1>5, <1>6, <1>7, SameLists

LEMMA MatchPartGood ==
  ASSUME StoreTypeOK, NEW q, Good(q), MatchPart
  PROVE  StoreTypeOK' /\ Good(q)'
<1>1. /\ job.op = "match" /\ job' = Idle
      /\ next_idx' = next_idx /\ prev_idx' = prev_idx /\ side_of' = side_of
      /\ price_of' = price_of /\ free_head' = free_head /\ level' = level
      /\ base' = base /\ held' = held
  BY DEF MatchPart
<1>2. job.op # "rebase" /\ job'.op # "rebase" /\ Settled(q)
  BY <1>1 DEF Good, Idle
<1>3. StoreTypeOK'
  BY <1>1 DEF StoreTypeOK, JobTypeOK
<1>4. \A c \in Keys : Heads'[c] = Heads[c]
  <2> SUFFICES ASSUME NEW c \in Keys PROVE Heads'[c] = Heads[c]
    OBVIOUS
  <2>1. c = Free \/ \E side2 \in Side, i2 \in Idx : c = Old(side2, i2) \/ c = New(side2, i2)
    BY KeyCases
  <2> QED
    BY <1>1, <1>2, <2>1, SettledHeads
<1>5. Settled(q)'
  BY <1>1, <1>2 DEF Settled
<1> QED
  BY <1>1, <1>2, <1>3, <1>4, <1>5, SameLists

-----------------------------------------------------------------------------
(* The walk of a slide over the levels.                                    *)

LEMMA BelowTwice ==
  ASSUME NEW C \in Nat \ {0}, NEW x \in Nat, x < 2 * C
  PROVE  x % C = IF x < C THEN x ELSE x - C
<1>1. x % C \in 0 .. C - 1 /\ x \div C \in Int /\ x = C * (x \div C) + (x % C)
  BY SMTT(20)
<1> DEFINE d == x \div C
           r == x % C
<1>2. r \in 0 .. C - 1 /\ d \in Int /\ x = C * d + r
  BY <1>1
<1> HIDE DEF d, r
<1>3. d <= 1
  <2>1. SUFFICES ASSUME d >= 2 PROVE FALSE
    BY <1>2
  <2>2. C * d >= C * 2
    BY <1>2, <2>1, SMTT(20)
  <2> QED
    BY <1>2, <2>2
<1>4. d >= 0
  <2>1. SUFFICES ASSUME d <= -1 PROVE FALSE
    BY <1>2
  <2>2. C * d <= C * (-1)
    BY <1>2, <2>1, SMTT(20)
  <2> QED
    BY <1>2, <2>2
<1>5. (d = 0 /\ r = x) \/ (d = 1 /\ r = x - C)
  <2>1. d = 0 \/ d = 1
    BY <1>2, <1>3, <1>4
  <2>2. CASE d = 0
    <3>1. C * 0 = 0
      OBVIOUS
    <3> QED
      BY <1>2, <2>2, <3>1
  <2>3. CASE d = 1
    <3>1. C * 1 = C
      OBVIOUS
    <3> QED
      BY <1>2, <2>3, <3>1
  <2> QED
    BY <2>1, <2>2, <2>3
<1>6. r = IF x < C THEN x ELSE x - C
  BY <1>2, <1>5
<1> QED
  BY <1>6 DEF r

(* Level k of the walk is one level of one side.                           *)
LEMMA PosIs ==
  ASSUME NEW k \in 0 .. 2 * Band - 1
  PROVE  /\ SideAt(k) \in Side /\ k % Band \in Idx
         /\ Pos(SideAt(k), k % Band) = k
         /\ \A side \in Side, i \in Idx :
              Pos(side, i) = k <=> side = SideAt(k) /\ i = k % Band
<1>1. Band \in Nat \ {0} /\ k \in Nat /\ k < 2 * Band
  BY StoreAssumption
<1>2. k % Band = IF k < Band THEN k ELSE k - Band
  BY <1>1, BelowTwice
<1> DEFINE m == k % Band
<1>3. m = IF k < Band THEN k ELSE k - Band
  BY <1>2
<1> HIDE DEF m
<1>4. SideAt(k) = (IF k < Band THEN "BUY" ELSE "SELL") /\ SideAt(k) \in Side
  BY DEF SideAt, Side
<1>5. m \in Idx
  BY <1>1, <1>3 DEF Idx
<1>6. Pos(SideAt(k), m) = k
  BY <1>1, <1>3, <1>4 DEF Pos
<1>7. ASSUME NEW side \in Side, NEW i \in Idx, Pos(side, i) = k
      PROVE  side = SideAt(k) /\ i = m
  <2>1. i \in Nat /\ i < Band
    BY <1>1 DEF Idx
  <2>2. CASE side = "BUY"
    BY <1>1, <1>3, <1>4, <1>7, <2>1, <2>2 DEF Pos
  <2>3. CASE side = "SELL"
    BY <1>1, <1>3, <1>4, <1>7, <2>1, <2>3 DEF Pos
  <2> QED
    BY <2>2, <2>3 DEF Side
<1> QED
  BY <1>4, <1>5, <1>6, <1>7 DEF m

LEMMA PosRange ==
  ASSUME NEW side \in Side, NEW i \in Idx
  PROVE  Pos(side, i) \in 0 .. 2 * Band - 1
BY StoreAssumption DEF Pos, Idx

LEMMA SlideJob ==
  ASSUME StoreTypeOK, job.op = "rebase"
  PROVE  /\ job \in [op : {"rebase"}, at : 0 .. 2 * Band, idx : Ref, base : Nat,
                     level : Levels]
         /\ job.at = 2 * Band => job.idx = NULL
BY DEF StoreTypeOK, JobTypeOK, Idle

(* When the walk goes on with n, n heads what is left of the list the walk *)
(* is in, and every other list keeps its head.                             *)
LEMMA WalkingOn ==
  ASSUME StoreTypeOK, job.op = "rebase", job.at < 2 * Band, NEW n \in Ref,
         job'.op = "rebase", job'.at = Walking(n).at, job'.idx = Walking(n).idx,
         level' = level
  PROVE  /\ job'.at \in 0 .. 2 * Band /\ job'.idx \in Ref
         /\ job'.at = 2 * Band => job'.idx = NULL
         /\ \A side \in Side, i \in Idx :
              Heads'[Old(side, i)] = IF Pos(side, i) = job.at THEN n
                                     ELSE Heads[Old(side, i)]
<1> DEFINE k == job.at + 1
           w == Walking(n)
<1>1. Band \in Nat \ {0} /\ job.at \in 0 .. 2 * Band - 1 /\ job.idx \in Ref /\ NULL \in Ref
  BY SlideJob, StoreAssumption DEF Ref
<1>2. level \in Levels
  BY DEF StoreTypeOK
<1>3. CASE n # NULL
  <2>1. w = [at |-> job.at, idx |-> n]
    BY <1>3 DEF Walking
  <2>2. job'.at = job.at /\ job'.idx = n
    BY <2>1
  <2>3. ASSUME NEW side \in Side, NEW i \in Idx
        PROVE  Heads'[Old(side, i)] = IF Pos(side, i) = job.at THEN n
                                      ELSE Heads[Old(side, i)]
    BY <1>1, <2>2, PosRange, SlidingHeads
  <2> QED
    BY <1>1, <2>2, <2>3
<1>4. CASE n = NULL
  <2>1. w = [at |-> k, idx |-> IF k < 2 * Band THEN level[SideAt(k)][k % Band].head
                               ELSE NULL]
    BY <1>4 DEF Walking
  <2>2. /\ job'.at = job.at + 1
        /\ job'.idx = IF k < 2 * Band THEN level[SideAt(k)][k % Band].head ELSE NULL
    BY <2>1
  <2>3. k \in 0 .. 2 * Band
    BY <1>1
  <2>4. k < 2 * Band => level[SideAt(k)][k % Band].head \in Ref
    <3> SUFFICES ASSUME k < 2 * Band PROVE level[SideAt(k)][k % Band].head \in Ref
      OBVIOUS
    <3>1. k \in 0 .. 2 * Band - 1
      BY <1>1
    <3>2. SideAt(k) \in Side /\ k % Band \in Idx
      BY <3>1, PosIs
    <3> QED
      BY <1>2, <3>2 DEF Levels, Record
  <2>5. ASSUME NEW side \in Side, NEW i \in Idx
        PROVE  Heads'[Old(side, i)] = IF Pos(side, i) = job.at THEN n
                                      ELSE Heads[Old(side, i)]
    <3> DEFINE p == Pos(side, i)
    <3>1. p \in 0 .. 2 * Band - 1
      BY PosRange
    <3>2. /\ Heads[Old(side, i)] = IF p > job.at THEN level[side][i].head
                                   ELSE IF p = job.at THEN job.idx ELSE NULL
          /\ Heads'[Old(side, i)] = IF p > job'.at THEN level'[side][i].head
                                    ELSE IF p = job'.at THEN job'.idx ELSE NULL
      BY SlidingHeads
    <3>3. p = k => job'.idx = level[side][i].head
      <4> SUFFICES ASSUME p = k PROVE job'.idx = level[side][i].head
        OBVIOUS
      <4>1. k < 2 * Band /\ k \in 0 .. 2 * Band - 1
        BY <1>1, <3>1
      <4>2. side = SideAt(k) /\ i = k % Band
        BY <4>1, PosIs
      <4> QED
        BY <2>2, <4>1, <4>2
    <3> HIDE DEF p
    <3>4. Heads'[Old(side, i)] = IF p = job.at THEN n ELSE Heads[Old(side, i)]
      BY <1>1, <1>4, <2>2, <3>1, <3>2, <3>3
    <3> QED
      BY <3>4 DEF p
  <2>6. job'.idx \in Ref /\ (job'.at = 2 * Band => job'.idx = NULL)
    BY <1>1, <2>2, <2>4
  <2> QED
    BY <2>2, <2>3, <2>5, <2>6
<1> QED
  BY <1>3, <1>4

LEMMA StartRebaseGood ==
  ASSUME StoreTypeOK, NEW q, Good(q), NEW price \in Prices, StartRebase(price)
  PROVE  StoreTypeOK' /\ Good(q)'
<1>1. /\ job = Idle
      /\ job' = [op |-> "rebase", at |-> 0, idx |-> level["BUY"][0].head,
                 base |-> Centred(price), level |-> NoLevels]
      /\ next_idx' = next_idx /\ prev_idx' = prev_idx /\ side_of' = side_of
      /\ price_of' = price_of /\ free_head' = free_head /\ level' = level
      /\ base' = base /\ held' = held
  BY DEF StartRebase
<1>2. job.op # "rebase" /\ job'.op = "rebase" /\ Settled(q)
      /\ job'.at = 0 /\ job'.idx = level["BUY"][0].head /\ job'.level = NoLevels
  BY <1>1 DEF Good, Idle
<1>3. Band \in Nat \ {0} /\ 0 \in Idx /\ "BUY" \in Side /\ price \in Nat
  BY StoreAssumption DEF Idx, Side
<1>4. Centred(price) \in Nat
  <2>1. Band \div 2 \in Nat
    BY <1>3
  <2> QED
    BY <1>3, <2>1 DEF Centred
<1>5. \A side \in Side, i \in Idx : NoLevels[side][i] = EmptyLevel
  BY DEF NoLevels
<1>6. EmptyLevel \in Record /\ NoLevels \in Levels
  BY DEF EmptyLevel, Record, Ref, NoLevels, Levels
<1>7. level["BUY"][0].head \in Ref
  BY <1>3 DEF StoreTypeOK, Levels, Record
<1>8. StoreTypeOK'
  <2>1. 0 \in 0 .. 2 * Band /\ 0 # 2 * Band
    BY <1>3
  <2>2. job' \in [op : {"rebase"}, at : 0 .. 2 * Band, idx : Ref, base : Nat,
                  level : Levels]
    BY <1>1, <1>4, <1>6, <1>7, <2>1
  <2>3. JobTypeOK'
    BY <1>2, <2>1, <2>2 DEF JobTypeOK
  <2> QED
    BY <1>1, <2>3 DEF StoreTypeOK
<1>9. \A c \in Keys : Heads'[c] = Heads[c]
  <2> SUFFICES ASSUME NEW c \in Keys PROVE Heads'[c] = Heads[c]
    OBVIOUS
  <2>1. CASE c = Free
    BY <1>1, <1>2, <2>1, SettledHeads, SlidingHeads
  <2>2. CASE c # Free
    <3>1. PICK side \in Side, i \in Idx : c = Old(side, i) \/ c = New(side, i)
      BY <2>2, KeyCases
    <3>2. CASE c = New(side, i)
      <4>1. Heads[c] = NULL /\ Heads'[c] = NoLevels[side][i].head
        BY <1>2, <3>2, SettledHeads, SlidingHeads
      <4> QED
        BY <1>5, <4>1 DEF EmptyLevel
    <3>3. CASE c = Old(side, i)
      <4>1. Heads[c] = level[side][i].head
        BY <1>2, <3>3, SettledHeads
      <4>2. Heads'[c] = IF Pos(side, i) > 0 THEN level[side][i].head
                        ELSE IF Pos(side, i) = 0 THEN level["BUY"][0].head ELSE NULL
        BY <1>1, <1>2, <3>3, SlidingHeads
      <4>3. Pos(side, i) \in Nat
        BY <1>3, PosRange
      <4>4. Pos(side, i) = 0 => side = "BUY" /\ i = 0
        BY <1>3 DEF Pos, Idx, Side
      <4> QED
        BY <4>1, <4>2, <4>3, <4>4
    <3> QED
      BY <3>1, <3>2, <3>3
  <2> QED
    BY <2>1, <2>2
<1>10. Sliding(q)'
  <2> SUFFICES ASSUME NEW side \in Side, NEW i \in Idx
               PROVE  /\ Whole(prev_idx', side_of', price_of', job'.level[side][i],
                               side, i, q[New(side, i)])
                      /\ \A k \in 1 .. Len(q[Old(side, i)]) :
                           side_of'[q[Old(side, i)][k]] = side
    BY DEF Sliding
  <2>1. /\ Whole(prev_idx, side_of, price_of, level[side][i], side, i, q[Old(side, i)])
        /\ q[New(side, i)] = <<>>
    BY <1>2 DEF Settled
  <2>2. job'.level[side][i] = EmptyLevel /\ Len(<<>>) = 0
    BY <1>2, <1>5
  <2>3. Whole(prev_idx', side_of', price_of', job'.level[side][i], side, i, <<>>)
    BY <2>2 DEF Whole, EmptyLevel, Backed
  <2> QED
    BY <1>1, <2>1, <2>3 DEF Whole
<1> QED
  BY <1>1, <1>2, <1>8, <1>9, <1>10, SameLists

LEMMA SkipEmptyGood ==
  ASSUME StoreTypeOK, NEW q, Good(q), SkipEmpty
  PROVE  StoreTypeOK' /\ Good(q)'
<1> DEFINE w == Walking(NULL)
<1>1. /\ job.op = "rebase" /\ job.at < 2 * Band /\ job.idx = NULL
      /\ job' = [job EXCEPT !.at = w.at, !.idx = w.idx]
      /\ next_idx' = next_idx /\ prev_idx' = prev_idx /\ side_of' = side_of
      /\ price_of' = price_of /\ free_head' = free_head /\ level' = level
      /\ base' = base /\ held' = held
  BY DEF SkipEmpty
<1>2. job \in [op : {"rebase"}, at : 0 .. 2 * Band, idx : Ref, base : Nat,
               level : Levels]
  BY <1>1, SlideJob
<1> HIDE DEF w
<1>3. /\ job'.op = "rebase" /\ job'.at = w.at /\ job'.idx = w.idx
      /\ job'.base = job.base /\ job'.level = job.level
      /\ job' = [op |-> "rebase", at |-> w.at, idx |-> w.idx, base |-> job.base,
                 level |-> job.level]
  BY <1>1, <1>2
<1>4. /\ job'.at \in 0 .. 2 * Band /\ job'.idx \in Ref
      /\ job'.at = 2 * Band => job'.idx = NULL
      /\ \A side \in Side, i \in Idx :
           Heads'[Old(side, i)] = IF Pos(side, i) = job.at THEN NULL
                                  ELSE Heads[Old(side, i)]
  <2>1. NULL \in Ref
    BY DEF Ref
  <2>2. job'.at = Walking(NULL).at /\ job'.idx = Walking(NULL).idx
    BY <1>3 DEF w
  <2> QED
    BY ONLY <1>1, <1>3, <2>1, <2>2, StoreTypeOK, WalkingOn
<1>5. StoreTypeOK'
  <2>1. JobTypeOK'
    BY <1>2, <1>3, <1>4 DEF JobTypeOK
  <2> QED
    BY <1>1, <2>1 DEF StoreTypeOK
<1>6. \A c \in Keys : Heads'[c] = Heads[c]
  <2> SUFFICES ASSUME NEW c \in Keys PROVE Heads'[c] = Heads[c]
    OBVIOUS
  <2>1. CASE c = Free
    BY <1>1, <1>3, <2>1, SlidingHeads
  <2>2. CASE c # Free
    <3>1. PICK side \in Side, i \in Idx : c = Old(side, i) \/ c = New(side, i)
      BY <2>2, KeyCases
    <3>2. CASE c = New(side, i)
      BY <1>1, <1>3, <3>2, SlidingHeads
    <3>3. CASE c = Old(side, i)
      <4>1. Heads'[c] = IF Pos(side, i) = job.at THEN NULL ELSE Heads[c]
        BY <1>4, <3>3
      <4>2. Pos(side, i) = job.at => Heads[c] = NULL
        <5>1. Heads[c] = IF Pos(side, i) > job.at THEN level[side][i].head
                         ELSE IF Pos(side, i) = job.at THEN job.idx ELSE NULL
          BY <1>1, <3>3, SlidingHeads
        <5>2. Pos(side, i) \in Int /\ job.at \in Int
          BY <1>2, PosRange
        <5> QED
          BY <1>1, <5>1, <5>2
      <4> QED
        BY <4>1, <4>2
    <3> QED
      BY <3>1, <3>2, <3>3
  <2> QED
    BY <2>1, <2>2
<1>7. Sliding(q)'
  BY <1>1, <1>3 DEF Good, Sliding
<1> QED
  BY <1>1, <1>3, <1>5, <1>6, <1>7, SameLists

(* What a step of the slide finds before it: the list it is in.            *)
LEMMA InHand ==
  ASSUME StoreTypeOK, NEW q, Good(q), job.op = "rebase", job.idx # NULL,
         NEW sd, sd = SideAt(job.at), NEW at, at = job.at % Band
  PROVE  /\ job.at \in 0 .. 2 * Band - 1 /\ job.at < 2 * Band
         /\ sd \in Side /\ at \in Idx /\ job.idx \in Slots /\ job.idx \in held
         /\ Old(sd, at) \in Keys /\ Old(sd, at) # Free
         /\ q[Old(sd, at)] # <<>> /\ q[Old(sd, at)][1] = job.idx
         /\ 1 \in 1 .. Len(q[Old(sd, at)])
         /\ side_of[job.idx] = sd
         /\ \A side \in Side, i \in Idx :
              Pos(side, i) = job.at <=> Old(side, i) = Old(sd, at)
<1> DEFINE o == Old(sd, at)
<1>1. /\ Shared(Keys, q) /\ Linked(Keys, next_idx, Heads, q) /\ HeldInLevels(held, q)
      /\ Sliding(q)
  BY DEF Good
<1>2. job.at \in 0 .. 2 * Band - 1 /\ job.at < 2 * Band
  <2>1. job.at \in 0 .. 2 * Band /\ job.at # 2 * Band
    BY SlideJob
  <2> QED
    BY <2>1, StoreAssumption
<1>3. /\ sd \in Side /\ at \in Idx /\ Pos(sd, at) = job.at
      /\ \A side \in Side, i \in Idx : Pos(side, i) = job.at <=> side = sd /\ i = at
  BY <1>2, PosIs
<1>4. o \in Keys /\ o # Free
  BY <1>3, KeyCases
<1>5. Heads[o] = job.idx
  <2>1. Heads[o] = IF Pos(sd, at) > job.at THEN level[sd][at].head
                   ELSE IF Pos(sd, at) = job.at THEN job.idx ELSE NULL
    BY <1>3, SlidingHeads
  <2> QED
    BY <1>2, <1>3, <2>1
<1>6. q[o] # <<>> /\ q[o][1] = job.idx /\ q[o][1] \in Slots /\ 1 \in 1 .. Len(q[o])
  BY <1>1, <1>4, <1>5, FrontOfList
<1>7. q[o][1] \in held
  BY <1>1, <1>4, <1>6 DEF HeldInLevels
<1>8. side_of[q[o][1]] = sd
  BY <1>1, <1>3, <1>6 DEF Sliding
<1>9. \A side \in Side, i \in Idx : Pos(side, i) = job.at <=> Old(side, i) = o
  <2> SUFFICES ASSUME NEW side \in Side, NEW i \in Idx
               PROVE  Pos(side, i) = job.at <=> Old(side, i) = o
    OBVIOUS
  <2>1. Old(side, i) = o <=> side = sd /\ i = at
    BY OldKeys
  <2> QED
    BY <1>3, <2>1
<1> QED
  BY <1>2, <1>3, <1>4, <1>6, <1>7, <1>8, <1>9

LEMMA CutFrom ==
  ASSUME NEW r \in Seq(Slots), NEW m \in 1 .. Len(r), NEW k \in 1 .. Len(Cut(r, m))
  PROVE  \E j \in 1 .. Len(r) : Cut(r, m)[k] = r[j]
<1>1. /\ Len(Cut(r, m)) = Len(r) - 1 /\ Len(r) - 1 \in Nat
      /\ \A i \in 1 .. Len(r) - 1 : Cut(r, m)[i] = IF i < m THEN r[i] ELSE r[i + 1]
  BY CutIsSeq
<1>2. k \in 1 .. Len(r) - 1 /\ Cut(r, m)[k] = IF k < m THEN r[k] ELSE r[k + 1]
  BY <1>1
<1>3. k \in 1 .. Len(r) /\ k + 1 \in 1 .. Len(r)
  BY <1>1, <1>2
<1> QED
  BY <1>2, <1>3

LEMMA DropOneGood ==
  ASSUME StoreTypeOK, NEW q, Good(q), DropOne
  PROVE  /\ StoreTypeOK'
         /\ \E q2 \in [Keys -> Seq(Slots)] :
              /\ q2 = ToFront(Keys, q, Old(SideAt(job.at), job.at % Band), 1, Free)
              /\ Good(q2)'
<1> DEFINE j == job.idx
           n == next_idx[j]
           w == Walking(n)
           sd == SideAt(job.at)
           at == job.at % Band
           a == Old(sd, at)
<1>1. /\ job.op = "rebase" /\ j # NULL
      /\ next_idx' = [next_idx EXCEPT ![j] = free_head]
      /\ free_head' = j
      /\ held' = held \ {j}
      /\ job' = [job EXCEPT !.at = w.at, !.idx = w.idx]
      /\ prev_idx' = prev_idx /\ side_of' = side_of /\ price_of' = price_of
      /\ level' = level /\ base' = base
  BY DEF DropOne
<1>2. job \in [op : {"rebase"}, at : 0 .. 2 * Band, idx : Ref, base : Nat,
               level : Levels]
  BY <1>1, SlideJob
<1>3. /\ Shared(Keys, q) /\ Linked(Keys, next_idx, Heads, q) /\ HeldInLevels(held, q)
      /\ Sliding(q)
  BY <1>1 DEF Good
<1>4. /\ job.at < 2 * Band /\ sd \in Side /\ at \in Idx /\ j \in Slots
      /\ a \in Keys /\ a # Free /\ q[a] # <<>> /\ q[a][1] = j /\ 1 \in 1 .. Len(q[a])
      /\ \A side \in Side, i \in Idx : Pos(side, i) = job.at <=> Old(side, i) = a
  BY <1>1, InHand
<1>5. n \in Ref /\ Free \in Keys
  BY <1>4, KeyCases DEF StoreTypeOK
<1> HIDE DEF w, n, j, a, sd, at
<1>6. /\ job'.op = "rebase" /\ job'.at = w.at /\ job'.idx = w.idx
      /\ job'.base = job.base /\ job'.level = job.level
      /\ job' = [op |-> "rebase", at |-> w.at, idx |-> w.idx, base |-> job.base,
                 level |-> job.level]
  BY <1>1, <1>2
<1>7. /\ job'.at \in 0 .. 2 * Band /\ job'.idx \in Ref
      /\ job'.at = 2 * Band => job'.idx = NULL
      /\ \A side \in Side, i \in Idx :
           Heads'[Old(side, i)] = IF Pos(side, i) = job.at THEN n
                                  ELSE Heads[Old(side, i)]
  <2>1. job'.at = Walking(n).at /\ job'.idx = Walking(n).idx
    BY <1>6 DEF w
  <2>2. job.op = "rebase" /\ level' = level
    BY <1>1
  <2>3. job'.op = "rebase" /\ job.at < 2 * Band
    BY <1>4, <1>6
  <2> QED
    BY ONLY <1>5, <2>1, <2>2, <2>3, StoreTypeOK, WalkingOn
<1>8. StoreTypeOK'
  <2>1. JobTypeOK'
    BY <1>2, <1>6, <1>7 DEF JobTypeOK
  <2>2. next_idx' \in [Slots -> Ref] /\ free_head' \in Ref /\ held' \in SUBSET Slots
    BY <1>1, <1>4 DEF StoreTypeOK, Ref
  <2> QED
    BY <1>1, <2>1, <2>2 DEF StoreTypeOK
<1>9. PICK q2 : q2 = ToFront(Keys, q, a, 1, Free)
  OBVIOUS
<1>10. Shared(Keys, q2)
  BY <1>3, <1>4, <1>5, <1>9, ToFrontShared
<1>11. Linked(Keys, next_idx', Heads', q2)
  <2>1. \A x \in Slots : next_idx'[x] = IF x = q[a][1] THEN Heads[Free]
                                        ELSE IF 1 > 1 /\ x = q[a][1 - 1]
                                             THEN next_idx[q[a][1]] ELSE next_idx[x]
    <3>1. Heads[Free] = free_head
      BY <1>1, SlidingHeads
    <3> QED
      BY <1>1, <1>4, <3>1 DEF StoreTypeOK
  <2>2. \A c \in Keys : Heads'[c] = IF c = Free THEN q[a][1]
                                    ELSE IF c = a /\ 1 = 1 THEN next_idx[q[a][1]]
                                    ELSE Heads[c]
    <3> SUFFICES ASSUME NEW c \in Keys
                 PROVE  Heads'[c] = IF c = Free THEN j ELSE IF c = a THEN n ELSE Heads[c]
      BY <1>4 DEF n
    <3>1. CASE c = Free
      BY <1>1, <1>6, <3>1, SlidingHeads
    <3>2. CASE c # Free
      <4>1. PICK side \in Side, i \in Idx : c = Old(side, i) \/ c = New(side, i)
        BY <3>2, KeyCases
      <4>2. CASE c = New(side, i)
        <5>1. c # a
          BY <4>2, OldKeys DEF a
        <5>2. Heads'[c] = Heads[c]
          BY <1>1, <1>6, <4>2, SlidingHeads
        <5> QED
          BY <3>2, <5>1, <5>2
      <4>3. CASE c = Old(side, i)
        BY <1>4, <1>7, <3>2, <4>3
      <4> QED
        BY <4>1, <4>2, <4>3
    <3> QED
      BY <3>1, <3>2
  <2>3. Linked(Keys, next_idx', Heads', ToFront(Keys, q, a, 1, Free))
    BY ONLY <1>3, <1>4, <1>5, <2>1, <2>2, ToFrontLinked
  <2> QED
    BY <1>9, <2>3
<1>12. HeldInLevels(held', q2)
  <2>1. j = q[a][1] /\ held' = held \ {j}
    BY <1>1, <1>4
  <2>2. HeldInLevels(held \ {j}, ToFront(Keys, q, a, 1, Free))
    BY <1>3, <1>4, <2>1, HeldLeaves
  <2> QED
    BY <1>9, <2>1, <2>2
<1>13. Sliding(q2)'
  <2> SUFFICES ASSUME NEW side \in Side, NEW i \in Idx
               PROVE  /\ Whole(prev_idx', side_of', price_of', job'.level[side][i],
                               side, i, q2[New(side, i)])
                      /\ \A k \in 1 .. Len(q2[Old(side, i)]) :
                           side_of'[q2[Old(side, i)][k]] = side
    BY DEF Sliding
  <2> DEFINE c == Old(side, i)
             d == New(side, i)
  <2>1. /\ c \in Keys /\ c # Free /\ d \in Keys /\ d # Free /\ d # a
    BY KeyCases, OldKeys DEF a
  <2>2. /\ Whole(prev_idx, side_of, price_of, job.level[side][i], side, i, q[d])
        /\ \A k \in 1 .. Len(q[c]) : side_of[q[c][k]] = side
    BY <1>3 DEF Sliding
  <2>3. q[c] \in Seq(Slots)
    BY <1>3, <2>1 DEF Shared
  <2> HIDE DEF c, d
  <2>4. q2[d] = q[d]
    BY <1>9, <2>1 DEF ToFront
  <2>5. Whole(prev_idx', side_of', price_of', job'.level[side][i], side, i, q2[d])
    BY <1>1, <1>6, <2>2, <2>4
  <2>6. \A k \in 1 .. Len(q2[c]) : side_of'[q2[c][k]] = side
    <3>1. CASE c = a
      <4>1. q2[c] = Cut(q[c], 1)
        BY <1>9, <2>1, <3>1 DEF ToFront
      <4>2. 1 \in 1 .. Len(q[c])
        BY <1>4, <3>1
      <4> SUFFICES ASSUME NEW k \in 1 .. Len(Cut(q[c], 1))
                   PROVE  side_of[Cut(q[c], 1)[k]] = side
        BY <1>1, <4>1
      <4>3. \E m \in 1 .. Len(q[c]) : Cut(q[c], 1)[k] = q[c][m]
        BY <2>3, <4>2, CutFrom
      <4> QED
        BY <2>2, <4>3
    <3>2. CASE c # a
      <4>1. q2[c] = q[c]
        BY <1>9, <2>1, <3>2 DEF ToFront
      <4> QED
        BY <1>1, <2>2, <4>1
    <3> QED
      BY <3>1, <3>2
  <2> QED
    BY <2>5, <2>6 DEF c, d
<1>14. Good(q2)'
  BY <1>6, <1>10, <1>11, <1>12, <1>13 DEF Good
<1>15. q2 \in [Keys -> Seq(Slots)]
  BY <1>10 DEF Shared
<1> QED
  BY <1>8, <1>9, <1>14, <1>15 DEF a, sd, at

LEMMA MoveOneGood ==
  ASSUME StoreTypeOK, NEW q, Good(q), MoveOne
  PROVE  /\ StoreTypeOK'
         /\ \E q2 \in [Keys -> Seq(Slots)] :
              /\ q2 = ToBack(Keys, q, Old(SideAt(job.at), job.at % Band),
                             New(SideAt(job.at), Moved(job.at)))
              /\ Good(q2)'
<1> DEFINE j == job.idx
           n == next_idx[j]
           w == Walking(n)
           sd == SideAt(job.at)
           at == job.at % Band
           a == Old(sd, at)
           nr == Moved(job.at)
           dst == job.level[sd][nr]
           b == New(sd, nr)
           r == q[b]
           l2 == Appended(dst, j)
<1>1. /\ job.op = "rebase" /\ j # NULL /\ nr \in Idx
      /\ price_of' = [price_of EXCEPT ![j] = nr]
      /\ next_idx' = [x \in Slots |-> IF x = j THEN NULL
                                      ELSE IF x = dst.tail THEN j ELSE next_idx[x]]
      /\ prev_idx' = [prev_idx EXCEPT ![j] = dst.tail]
      /\ job' = [job EXCEPT !.level[sd][nr] = l2, !.at = w.at, !.idx = w.idx]
      /\ free_head' = free_head /\ held' = held /\ side_of' = side_of
      /\ level' = level /\ base' = base
  BY DEF MoveOne
<1>2. job \in [op : {"rebase"}, at : 0 .. 2 * Band, idx : Ref, base : Nat,
               level : Levels]
  BY <1>1, SlideJob
<1>3. /\ Shared(Keys, q) /\ Linked(Keys, next_idx, Heads, q) /\ HeldInLevels(held, q)
      /\ Sliding(q)
  BY <1>1 DEF Good
<1>4. /\ job.at < 2 * Band /\ sd \in Side /\ at \in Idx /\ j \in Slots /\ j \in held
      /\ a \in Keys /\ a # Free /\ q[a] # <<>> /\ q[a][1] = j /\ 1 \in 1 .. Len(q[a])
      /\ side_of[j] = sd
      /\ \A side \in Side, i \in Idx : Pos(side, i) = job.at <=> Old(side, i) = a
  BY <1>1, InHand
<1>5. n \in Ref /\ Free \in Keys /\ b \in Keys /\ b # Free /\ a # b
  <2>1. n \in Ref
    BY <1>4 DEF StoreTypeOK
  <2>2. sd \in Side /\ nr \in Idx
    BY <1>1, <1>4
  <2> HIDE DEF sd, nr, at
  <2>3. b \in Keys /\ b # Free /\ Free \in Keys
    BY <2>2, KeyCases
  <2>4. a # b
    BY OldKeys
  <2> QED
    BY <2>1, <2>3, <2>4
<1>6. /\ Whole(prev_idx, side_of, price_of, dst, sd, nr, r) /\ r \in Seq(Slots)
      /\ dst.tail = IF r = <<>> THEN NULL ELSE r[Len(r)]
      /\ dst.head \in Ref /\ dst.tail \in Ref /\ dst.count \in Nat
      /\ dst.head = NULL <=> r = <<>>
  <2>1. Whole(prev_idx, side_of, price_of, dst, sd, nr, r)
    BY <1>1, <1>3, <1>4 DEF Sliding
  <2>2. dst \in Record
    BY <1>1, <1>2, <1>4 DEF Levels
  <2>3. Heads[b] = dst.head
    BY <1>1, <1>4, SlidingHeads
  <2>4. q[b] # <<>> <=> Heads[b] # NULL
    BY <1>3, <1>5, FrontOfList
  <2>5. r \in Seq(Slots)
    BY <1>3, <1>5 DEF Shared
  <2> QED
    BY <2>1, <2>2, <2>3, <2>4, <2>5 DEF Whole, Record
<1>7. /\ job'.op = "rebase" /\ job'.at = w.at /\ job'.idx = w.idx
      /\ job'.base = job.base
      /\ job'.level = [job.level EXCEPT ![sd][nr] = l2]
      /\ job' = [op |-> "rebase", at |-> w.at, idx |-> w.idx, base |-> job.base,
                 level |-> job'.level]
  <2> DEFINE lev == [job.level EXCEPT ![sd][nr] = l2]
  <2>1. job' = [op |-> "rebase", at |-> w.at, idx |-> w.idx, base |-> job.base,
                level |-> lev]
    <3> HIDE DEF w, n, j, a, sd, at, nr, dst, b, r, l2
    <3> QED
      BY <1>1, <1>2
  <2> HIDE DEF lev, w, n, j, a, sd, at, nr, dst, b, r, l2
  <2>2. /\ job'.op = "rebase" /\ job'.at = w.at /\ job'.idx = w.idx
        /\ job'.base = job.base /\ job'.level = lev
    BY <2>1
  <2> QED
    BY <2>1, <2>2 DEF lev
<1> HIDE DEF w, n, j, a, sd, at, nr, dst, b, r, l2
<1>8. \A side \in Side, i \in Idx :
        job'.level[side][i] = IF side = sd /\ i = nr THEN l2 ELSE job.level[side][i]
  <2> DEFINE lev == job.level
  <2>0. lev \in Levels /\ job'.level = [lev EXCEPT ![sd][nr] = l2]
    BY <1>2, <1>7
  <2> HIDE DEF lev
  <2>1. lev \in [Side -> [Idx -> Record]] /\ job'.level = [lev EXCEPT ![sd][nr] = l2]
    BY <2>0 DEF Levels
  <2>2. \A side \in Side, i \in Idx :
          job'.level[side][i] = IF side = sd /\ i = nr THEN l2 ELSE lev[side][i]
    <3>1. sd \in Side /\ nr \in Idx
      BY <1>1, <1>4
    <3> QED
      BY ONLY <2>1, <3>1
  <2> QED
    BY <2>2 DEF lev
<1>9. /\ job'.at \in 0 .. 2 * Band /\ job'.idx \in Ref
      /\ job'.at = 2 * Band => job'.idx = NULL
      /\ \A side \in Side, i \in Idx :
           Heads'[Old(side, i)] = IF Pos(side, i) = job.at THEN n
                                  ELSE Heads[Old(side, i)]
  <2>1. job'.at = Walking(n).at /\ job'.idx = Walking(n).idx
    BY <1>7 DEF w
  <2>2. job.op = "rebase" /\ level' = level
    BY <1>1
  <2>3. job'.op = "rebase" /\ job.at < 2 * Band
    BY <1>4, <1>7
  <2> QED
    BY ONLY <1>5, <2>1, <2>2, <2>3, StoreTypeOK, WalkingOn
<1>10. StoreTypeOK'
  <2>1. l2 \in Record
    BY <1>4, <1>6 DEF l2, Appended, Record, Ref
  <2>2. job'.level \in Levels
    BY <1>1, <1>2, <1>4, <1>7, <2>1 DEF Levels
  <2>3. JobTypeOK'
    <3>1. job' \in [op : {"rebase"}, at : 0 .. 2 * Band, idx : Ref, base : Nat,
                    level : Levels]
      <4> DEFINE lev == job'.level
                 ba == job.base
      <4>1. ba \in Nat /\ lev \in Levels
        BY <1>2, <2>2
      <4>2. w.at \in 0 .. 2 * Band /\ w.idx \in Ref
        BY <1>7, <1>9
      <4>3. job' = [op |-> "rebase", at |-> w.at, idx |-> w.idx, base |-> ba,
                    level |-> lev]
        BY <1>7
      <4> HIDE DEF lev, ba
      <4> QED
        BY <4>1, <4>2, <4>3
    <3> QED
      BY <1>9, <3>1 DEF JobTypeOK
  <2>4. next_idx' \in [Slots -> Ref] /\ prev_idx' \in [Slots -> Ref]
        /\ price_of' \in [Slots -> Idx]
    BY <1>1, <1>4, <1>6 DEF StoreTypeOK, Ref
  <2> QED
    BY <1>1, <2>3, <2>4 DEF StoreTypeOK
<1>11. PICK q2 : q2 = ToBack(Keys, q, a, b)
  OBVIOUS
<1>12. Shared(Keys, q2)
  BY <1>3, <1>4, <1>5, <1>11, ToBackShared
<1>13. Linked(Keys, next_idx', Heads', q2)
  <2>1. \A x \in Slots : next_idx'[x] = IF x = q[a][1] THEN NULL
                                        ELSE IF q[b] # <<>> /\ x = q[b][Len(q[b])]
                                             THEN q[a][1] ELSE next_idx[x]
    <3> SUFFICES ASSUME NEW x \in Slots
                 PROVE  next_idx'[x] = IF x = j THEN NULL
                                       ELSE IF r # <<>> /\ x = r[Len(r)] THEN j
                                       ELSE next_idx[x]
      BY <1>4 DEF r
    <3>1. x # NULL
      BY SlotsAreNumbers
    <3> QED
      BY <1>1, <1>6, <3>1
  <2>2. \A c \in Keys : Heads'[c] = IF c = a THEN next_idx[q[a][1]]
                                    ELSE IF c = b /\ q[b] = <<>> THEN q[a][1]
                                    ELSE Heads[c]
    <3> SUFFICES ASSUME NEW c \in Keys
                 PROVE  Heads'[c] = IF c = a THEN n
                                    ELSE IF c = b /\ r = <<>> THEN j ELSE Heads[c]
      BY <1>4 DEF r, n
    <3>1. CASE c = Free
      BY <1>1, <1>4, <1>5, <1>7, <3>1, SlidingHeads
    <3>2. CASE c # Free
      <4>1. PICK side \in Side, i \in Idx : c = Old(side, i) \/ c = New(side, i)
        BY <3>2, KeyCases
      <4>2. CASE c = New(side, i)
        <5>1. c # a /\ (c = b <=> side = sd /\ i = nr)
          BY <4>2, OldKeys DEF a, b
        <5>2. Heads'[c] = job'.level[side][i].head /\ Heads[c] = job.level[side][i].head
          BY <1>1, <1>7, <4>2, SlidingHeads
        <5>3. c = b => job.level[side][i] = dst
          BY <5>1 DEF dst
        <5> QED
          BY <1>6, <1>8, <5>1, <5>2, <5>3 DEF l2, Appended
      <4>3. CASE c = Old(side, i)
        <5>1. c # b
          BY <4>3, OldKeys DEF b
        <5> QED
          BY <1>4, <1>9, <4>3, <5>1
      <4> QED
        BY <4>1, <4>2, <4>3
    <3> QED
      BY <3>1, <3>2
  <2>3. Linked(Keys, next_idx', Heads', ToBack(Keys, q, a, b))
    BY ONLY <1>3, <1>4, <1>5, <2>1, <2>2, ToBackLinked
  <2> QED
    BY <1>11, <2>3
<1>14. HeldInLevels(held', q2)
  <2>1. j = q[a][1] /\ held' = held \union {j}
    BY <1>1, <1>4
  <2>2. HeldInLevels(held', ToBack(Keys, q, a, b))
    BY ONLY <1>3, <1>4, <1>5, <2>1, HeldMoves
  <2> QED
    BY <1>11, <2>2
<1>15. Sliding(q2)'
  <2> SUFFICES ASSUME NEW side \in Side, NEW i \in Idx
               PROVE  /\ Whole(prev_idx', side_of', price_of', job'.level[side][i],
                               side, i, q2[New(side, i)])
                      /\ \A k \in 1 .. Len(q2[Old(side, i)]) :
                           side_of'[q2[Old(side, i)][k]] = side
    BY DEF Sliding
  <2> DEFINE c == Old(side, i)
             d == New(side, i)
  <2>1. /\ c \in Keys /\ d \in Keys /\ d # a /\ c # b
        /\ d = b <=> side = sd /\ i = nr
    BY KeyCases, OldKeys DEF a, b
  <2>2. /\ Whole(prev_idx, side_of, price_of, job.level[side][i], side, i, q[d])
        /\ \A k \in 1 .. Len(q[c]) : side_of[q[c][k]] = side
    BY <1>3 DEF Sliding
  <2>3. q[c] \in Seq(Slots) /\ q[d] \in Seq(Slots)
    BY <1>3, <2>1 DEF Shared
  <2> HIDE DEF c, d
  <2>4. \A k \in 1 .. Len(q[d]) : /\ prev_idx'[q[d][k]] = prev_idx[q[d][k]]
                                  /\ side_of'[q[d][k]] = side_of[q[d][k]]
                                  /\ price_of'[q[d][k]] = price_of[q[d][k]]
    <3> SUFFICES ASSUME NEW k \in 1 .. Len(q[d])
                 PROVE  /\ prev_idx'[q[d][k]] = prev_idx[q[d][k]]
                        /\ price_of'[q[d][k]] = price_of[q[d][k]]
      BY <1>1
    <3>1. q[d][k] \in Slots
      BY <2>3
    <3>2. q[d][k] # j
      BY <1>3, <1>4, <2>1, OnePlace
    <3> QED
      BY <1>1, <3>1, <3>2 DEF StoreTypeOK
  <2>5. Whole(prev_idx', side_of', price_of', job'.level[side][i], side, i, q2[d])
    <3>1. CASE d # b
      <4>1. q2[d] = q[d] /\ job'.level[side][i] = job.level[side][i]
        BY <1>8, <1>11, <2>1, <3>1 DEF ToBack
      <4>2. Whole(prev_idx', side_of', price_of', job.level[side][i], side, i, q[d])
        BY <2>2, <2>3, <2>4, WholeSame
      <4> QED
        BY <4>1, <4>2
    <3>2. CASE d = b
      <4>1. q2[d] = Append(r, j)
        BY <1>4, <1>5, <1>11, <3>2 DEF ToBack, r
      <4>2. job'.level[side][i] = l2 /\ side = sd /\ i = nr
        BY <1>8, <2>1, <3>2
      <4>3. prev_idx'[j] = dst.tail /\ side_of'[j] = sd /\ price_of'[j] = nr
        BY <1>1, <1>4 DEF StoreTypeOK
      <4>4. l2.tail = j /\ l2.count = dst.count + 1
        BY DEF l2, Appended
      <4>5. \A k \in 1 .. Len(r) : /\ prev_idx'[r[k]] = prev_idx[r[k]]
                                   /\ side_of'[r[k]] = side_of[r[k]]
                                   /\ price_of'[r[k]] = price_of[r[k]]
        BY <2>4, <3>2 DEF r
      <4>6. j \in Slots /\ r \in Seq(Slots)
            /\ Whole(prev_idx, side_of, price_of, dst, sd, nr, r)
        BY <1>4, <1>6
      <4>7. Whole(prev_idx', side_of', price_of', l2, sd, nr, Append(r, j))
        BY ONLY <4>3, <4>4, <4>5, <4>6, WholeAppend
      <4> QED
        BY <4>1, <4>2, <4>7
    <3> QED
      BY <3>1, <3>2
  <2>6. \A k \in 1 .. Len(q2[c]) : side_of'[q2[c][k]] = side
    <3>1. CASE c = a
      <4>1. q2[c] = Cut(q[c], 1)
        BY <1>11, <2>1, <3>1 DEF ToBack
      <4>2. 1 \in 1 .. Len(q[c])
        BY <1>4, <3>1
      <4> SUFFICES ASSUME NEW k \in 1 .. Len(Cut(q[c], 1))
                   PROVE  side_of[Cut(q[c], 1)[k]] = side
        BY <1>1, <4>1
      <4>3. \E m \in 1 .. Len(q[c]) : Cut(q[c], 1)[k] = q[c][m]
        BY <2>3, <4>2, CutFrom
      <4> QED
        BY <2>2, <4>3
    <3>2. CASE c # a
      <4>1. q2[c] = q[c]
        BY <1>11, <2>1, <3>2 DEF ToBack
      <4> QED
        BY <1>1, <2>2, <4>1
    <3> QED
      BY <3>1, <3>2
  <2> QED
    BY <2>5, <2>6 DEF c, d
<1>16. Good(q2)'
  BY <1>7, <1>12, <1>13, <1>14, <1>15 DEF Good
<1>17. q2 \in [Keys -> Seq(Slots)]
  BY <1>12 DEF Shared
<1> QED
  BY <1>10, <1>11, <1>16, <1>17 DEF a, b, sd, at, nr

(* At the end of the walk the old lists are empty, and the new ones take   *)
(* their place.                                                            *)
LEMMA SwapGood ==
  ASSUME StoreTypeOK, NEW q, Good(q), Swap
  PROVE  /\ StoreTypeOK'
         /\ \A side \in Side, i \in Idx : q[Old(side, i)] = <<>>
         /\ \E q2 \in [Keys -> Seq(Slots)] :
              /\ \A side \in Side, i \in Idx : /\ q2[Old(side, i)] = q[New(side, i)]
                                               /\ q2[New(side, i)] = <<>>
              /\ Good(q2)'
<1> DEFINE q2 == [c \in Keys |-> IF c = Free THEN q[Free]
                                 ELSE IF c[1] = "old" THEN q[New(c[2], c[3])]
                                 ELSE <<>>]
<1>1. /\ job.op = "rebase" /\ job.at = 2 * Band
      /\ level' = job.level /\ base' = job.base /\ job' = Idle
      /\ next_idx' = next_idx /\ prev_idx' = prev_idx /\ side_of' = side_of
      /\ price_of' = price_of /\ free_head' = free_head /\ held' = held
  BY DEF Swap
<1>2. job \in [op : {"rebase"}, at : 0 .. 2 * Band, idx : Ref, base : Nat,
               level : Levels]
  BY <1>1, SlideJob
<1>3. /\ Shared(Keys, q) /\ Linked(Keys, next_idx, Heads, q) /\ HeldInLevels(held, q)
      /\ Sliding(q) /\ q \in [Keys -> Seq(Slots)]
  BY <1>1 DEF Good, Shared
<1>4. job'.op # "rebase"
  BY <1>1 DEF Idle
<1>5. \A side \in Side, i \in Idx : q[Old(side, i)] = <<>>
  <2> SUFFICES ASSUME NEW side \in Side, NEW i \in Idx PROVE q[Old(side, i)] = <<>>
    OBVIOUS
  <2> DEFINE c == Old(side, i)
             p == Pos(side, i)
  <2>1. c \in Keys
    BY KeyCases
  <2>2. p \in 0 .. 2 * Band - 1 /\ Band \in Nat
    BY PosRange, StoreAssumption
  <2>3. Heads[c] = IF p > job.at THEN level[side][i].head
                   ELSE IF p = job.at THEN job.idx ELSE NULL
    BY <1>1, SlidingHeads
  <2> HIDE DEF c, p
  <2>4. Heads[c] = NULL
    BY <1>1, <2>2, <2>3
  <2>5. q[c] = <<>>
    BY <1>3, <2>1, <2>4, FrontOfList
  <2> QED
    BY <2>5 DEF c
<1>6. /\ q2[Free] = q[Free]
      /\ \A side \in Side, i \in Idx : /\ q2[Old(side, i)] = q[New(side, i)]
                                       /\ q2[New(side, i)] = <<>>
  <2> SUFFICES ASSUME NEW side \in Side, NEW i \in Idx
               PROVE  /\ q2[Old(side, i)] = q[New(side, i)] /\ q2[New(side, i)] = <<>>
    BY KeyCases
  <2>1. /\ Old(side, i) \in Keys /\ Old(side, i) # Free
        /\ New(side, i) \in Keys /\ New(side, i) # Free
    BY KeyCases
  <2>2. /\ Old(side, i)[1] = "old" /\ Old(side, i)[2] = side /\ Old(side, i)[3] = i
        /\ New(side, i)[1] # "old"
    BY DEF Old, New
  <2> QED
    BY <2>1, <2>2
<1>7. \A c \in Keys : \/ c = Free /\ q2[c] = q[Free]
                      \/ \E side \in Side, i \in Idx :
                           /\ c = Old(side, i) /\ q2[c] = q[New(side, i)]
                      \/ q2[c] = <<>>
  <2> HIDE DEF q2
  <2> SUFFICES ASSUME NEW c \in Keys, c # Free
               PROVE  \/ \E side \in Side, i \in Idx :
                           /\ c = Old(side, i) /\ q2[c] = q[New(side, i)]
                      \/ q2[c] = <<>>
    BY <1>6
  <2>1. PICK side \in Side, i \in Idx : c = Old(side, i) \/ c = New(side, i)
    BY KeyCases
  <2> QED
    BY <1>6, <2>1
<1>8. q2 \in [Keys -> Seq(Slots)]
  <2>1. \A c \in Keys : q2[c] \in Seq(Slots)
    <3> SUFFICES ASSUME NEW c \in Keys PROVE q2[c] \in Seq(Slots)
      OBVIOUS
    <3>1. <<>> \in Seq(Slots)
      OBVIOUS
    <3> HIDE DEF q2
    <3> QED
      BY <1>3, <1>7, <3>1, KeyCases
  <2>2. q2 = [c \in Keys |-> q2[c]]
    OBVIOUS
  <2> HIDE DEF q2
  <2> QED
    BY <2>1, <2>2
<1> HIDE DEF q2
<1>9. Shared(Keys, q2)
  <2>0. Len(<<>>) = 0
    OBVIOUS
  <2>1. \A c \in Keys : \A k \in 1 .. Len(q2[c]) :
          \/ c = Free /\ q2[c] = q[Free]
          \/ \E side \in Side, i \in Idx : c = Old(side, i) /\ q2[c] = q[New(side, i)]
    BY <1>7, <2>0
  <2>2. ASSUME NEW a \in Keys, NEW b \in Keys, NEW j \in 1 .. Len(q2[a]),
               NEW k \in 1 .. Len(q2[b]), q2[a][j] = q2[b][k]
        PROVE  a = b /\ j = k
    <3>1. CASE a = Free /\ q2[a] = q[Free]
      <4>1. CASE b = Free /\ q2[b] = q[Free]
        BY <1>3, <2>2, <3>1, <4>1, OnePlace
      <4>2. ASSUME NEW side \in Side, NEW i \in Idx, b = Old(side, i),
                   q2[b] = q[New(side, i)]
            PROVE  FALSE
        <5>1. New(side, i) \in Keys /\ New(side, i) # Free /\ Free \in Keys
          BY KeyCases
        <5> QED
          BY <1>3, <2>2, <3>1, <4>2, <5>1, OnePlace
      <4> QED
        BY <2>1, <4>1, <4>2
    <3>2. ASSUME NEW side \in Side, NEW i \in Idx, a = Old(side, i),
                 q2[a] = q[New(side, i)]
          PROVE  a = b /\ j = k
      <4>0. New(side, i) \in Keys /\ New(side, i) # Free /\ Free \in Keys
        BY KeyCases
      <4>1. CASE b = Free /\ q2[b] = q[Free]
        BY <1>3, <2>2, <3>2, <4>0, <4>1, OnePlace
      <4>2. ASSUME NEW side2 \in Side, NEW i2 \in Idx, b = Old(side2, i2),
                   q2[b] = q[New(side2, i2)]
            PROVE  a = b /\ j = k
        <5>1. New(side2, i2) \in Keys
          BY KeyCases
        <5>2. New(side, i) = New(side2, i2) /\ j = k
          BY <1>3, <2>2, <3>2, <4>0, <4>2, <5>1, OnePlace
        <5>3. side = side2 /\ i = i2
          BY <5>2, OldKeys
        <5> QED
          BY <3>2, <4>2, <5>2, <5>3
      <4> QED
        BY <2>1, <4>1, <4>2
    <3> QED
      BY <2>1, <3>1, <3>2
  <2>3. ASSUME NEW s \in Slots
        PROVE  \E c \in Keys : \E k \in 1 .. Len(q2[c]) : q2[c][k] = s
    <3>1. PICK c \in Keys : \E k \in 1 .. Len(q[c]) : q[c][k] = s
      BY <1>3 DEF Shared
    <3>2. q[c] # <<>>
      BY <2>0, <3>1
    <3>3. CASE c = Free
      BY <1>6, <3>1, <3>3
    <3>4. CASE c # Free
      <4>1. PICK side \in Side, i \in Idx : c = Old(side, i) \/ c = New(side, i)
        BY <3>4, KeyCases
      <4>2. q[c] = q2[Old(side, i)]
        BY <1>5, <1>6, <3>2, <4>1
      <4>3. Old(side, i) \in Keys
        BY KeyCases
      <4>4. \E k \in 1 .. Len(q2[Old(side, i)]) : q2[Old(side, i)][k] = s
        BY <3>1, <4>2
      <4> QED
        BY <4>3, <4>4
    <3> QED
      BY <3>3, <3>4
  <2> QED
    BY <1>8, <2>2, <2>3 DEF Shared
<1>10. Linked(Keys, next_idx', Heads', q2)
  <2> SUFFICES ASSUME NEW c \in Keys PROVE IsChain(next_idx, Heads'[c], q2[c])
    BY <1>1 DEF Linked
  <2>1. CASE c = Free
    <3>1. Heads'[c] = Heads[Free] /\ q2[c] = q[Free] /\ Free \in Keys
      BY <1>1, <1>4, <1>6, <2>1, SettledHeads, SlidingHeads
    <3> QED
      BY <1>3, <3>1 DEF Linked
  <2>2. CASE c # Free
    <3>1. PICK side \in Side, i \in Idx : c = Old(side, i) \/ c = New(side, i)
      BY <2>2, KeyCases
    <3>2. CASE c = Old(side, i)
      <4>1. Heads'[c] = job.level[side][i].head /\ Heads[New(side, i)] = job.level[side][i].head
        BY <1>1, <1>4, <3>2, SettledHeads, SlidingHeads
      <4>2. q2[c] = q[New(side, i)] /\ New(side, i) \in Keys
        BY <1>6, <3>2, KeyCases
      <4>3. IsChain(next_idx, Heads[New(side, i)], q[New(side, i)])
        BY <1>3, <4>2 DEF Linked
      <4> QED
        BY <4>1, <4>2, <4>3
    <3>3. CASE c = New(side, i)
      <4>1. Heads'[c] = NULL /\ q2[c] = <<>>
        BY <1>4, <1>6, <3>3, SettledHeads
      <4>2. Len(<<>>) = 0
        OBVIOUS
      <4> QED
        BY <4>1, <4>2 DEF IsChain
    <3> QED
      BY <3>1, <3>2, <3>3
  <2> QED
    BY <2>1, <2>2
<1>11. HeldInLevels(held', q2)
  <2> SUFFICES ASSUME NEW c \in Keys, NEW k \in 1 .. Len(q2[c])
               PROVE  q2[c][k] \in held <=> c # Free
    BY <1>1 DEF HeldInLevels
  <2>0. Len(<<>>) = 0
    OBVIOUS
  <2>1. CASE c = Free /\ q2[c] = q[Free]
    BY <1>3, <2>1 DEF HeldInLevels
  <2>2. ASSUME NEW side \in Side, NEW i \in Idx, c = Old(side, i),
               q2[c] = q[New(side, i)]
        PROVE  q2[c][k] \in held <=> c # Free
    <3>1. New(side, i) \in Keys /\ New(side, i) # Free /\ c # Free
      BY <2>2, KeyCases
    <3>2. q[New(side, i)][k] \in held
      BY <1>3, <2>2, <3>1 DEF HeldInLevels
    <3> QED
      BY <2>2, <3>1, <3>2
  <2> QED
    BY <1>7, <2>0, <2>1, <2>2
<1>12. StoreTypeOK'
  <2>1. JobTypeOK'
    BY <1>1 DEF JobTypeOK
  <2> QED
    BY <1>1, <1>2, <2>1 DEF StoreTypeOK
<1>13. PICK q3 : q3 = q2
  OBVIOUS
<1>14. /\ Shared(Keys, q3) /\ Linked(Keys, next_idx', Heads', q3)
       /\ HeldInLevels(held', q3) /\ Settled(q3)' /\ q3 \in [Keys -> Seq(Slots)]
  <2>1. Settled(q3)'
    <3>1. \A side \in Side, i \in Idx :
             /\ Whole(prev_idx', side_of', price_of', level'[side][i], side, i,
                      q3[Old(side, i)])
             /\ q3[New(side, i)] = <<>>
      BY <1>1, <1>3, <1>6, <1>13 DEF Sliding
    <3> QED
      BY <3>1 DEF Settled
  <2> QED
    BY <1>8, <1>9, <1>10, <1>11, <1>13, <2>1
<1>15. Good(q3)'
  BY <1>4, <1>14 DEF Good
<1> QED
  BY <1>5, <1>6, <1>12, <1>13, <1>14, <1>15

-----------------------------------------------------------------------------
(* The lists the outside sees, by absolute price, are those of q.          *)

LEMMA GreatestPrice ==
  Max(Prices) \in Prices /\ \A p \in Prices : p <= Max(Prices)
<1> DEFINE HasMax(T) == \E x \in T : \A y \in T : y <= x
           Bad == {T \in SUBSET Prices : T # {} /\ ~ HasMax(T)}
<1>0. Prices \subseteq Nat /\ Prices # {} /\ IsFiniteSet(Prices)
  BY StoreAssumption
<1>1. Bad = {}
  <2>1. SUFFICES ASSUME Bad # {} PROVE FALSE
    OBVIOUS
  <2>2. Bad \subseteq FiniteSubsetsOf(Prices)
    BY <1>0, FS_Subset DEF FiniteSubsetsOf
  <2>3. PICK T \in Bad : \A U \in Bad : ~ (<<U, T>> \in StrictSubsetOrdering(Prices))
    BY <1>0, <2>1, <2>2, WFMin, FS_StrictSubsetOrderingWellFounded
  <2>4. T \in SUBSET Prices /\ T # {} /\ ~ HasMax(T)
    OBVIOUS
  <2>5. PICK x \in T : TRUE
    BY <2>4
  <2> DEFINE U == T \ {x}
  <2>6. U \notin Bad
    BY <2>3, <2>4, <2>5 DEF StrictSubsetOrdering
  <2>7. CASE U = {}
    <3>1. \A y \in T : y <= x
      BY <1>0, <2>4, <2>5, <2>7
    <3> QED
      BY <2>4, <2>5, <3>1
  <2>8. CASE U # {}
    <3>1. PICK m \in U : \A y \in U : y <= m
      BY <2>4, <2>6, <2>8
    <3>2. m \in T /\ m \in Nat /\ x \in Nat /\ \A y \in T : y \in Nat /\ (y = x \/ y <= m)
      BY <1>0, <2>4, <2>5, <3>1
    <3>3. CASE m <= x
      <4>1. \A y \in T : y <= x
        BY <3>2, <3>3
      <4> QED
        BY <2>4, <2>5, <4>1
    <3>4. CASE ~ (m <= x)
      <4>1. \A y \in T : y <= m
        BY <3>2, <3>4
      <4> QED
        BY <2>4, <3>2, <4>1
    <3> QED
      BY <3>3, <3>4
  <2> QED
    BY <2>7, <2>8
<1>2. HasMax(Prices)
  BY <1>0, <1>1
<1>3. PICK x \in Prices : \A y \in Prices : y <= x
  BY <1>2
<1>4. \A y \in Prices : x >= y
  BY <1>0, <1>3
<1>5. Max(Prices) \in Prices /\ \A y \in Prices : Max(Prices) >= y
  BY <1>4 DEF Max
<1> QED
  BY <1>0, <1>5

NewPart(q, j, side, p) ==
  IF j.op = "rebase" /\ p - j.base \in Idx THEN q[New(side, p - j.base)] ELSE <<>>

OldPart(q, b, side, p) == IF p - b \in Idx THEN q[Old(side, p - b)] ELSE <<>>

Places == Side \X AllPrices

ListsOf(q, j, b) ==
  [sp \in Places |-> NewPart(q, j, sp[1], sp[2]) \o OldPart(q, b, sp[1], sp[2])]

LEMMA HeadWalks == \A q : Good(q) => \A c \in Keys : Walk(Heads[c]) = q[c]
<1> SUFFICES ASSUME NEW q, Good(q), NEW c \in Keys PROVE Walk(Heads[c]) = q[c]
  OBVIOUS
<1>1. Shared(Keys, q) /\ IsChain(next_idx, Heads[c], q[c])
  BY DEF Good, Linked
<1>2. Walk(Heads[c]) = [k \in 1 .. Steps(next_idx, Heads[c]) |->
                          Trail(next_idx, Heads[c])[k - 1]]
  BY WalkIsTrail
<1>3. [k \in 1 .. Steps(next_idx, Heads[c]) |-> Trail(next_idx, Heads[c])[k - 1]] = q[c]
  BY <1>1, WalkOfList
<1> QED
  BY <1>2, <1>3

LEMMA PlaceNumbers ==
  /\ Band \in Nat \ {0} /\ Max(Prices) \in Nat
  /\ \A sp \in Places : sp[1] \in Side /\ sp[2] \in Nat /\ sp = <<sp[1], sp[2]>>
  /\ \A side \in Side, p \in Nat : p <= Max(Prices) + Band => <<side, p>> \in Places
<1>1. Band \in Nat \ {0} /\ Max(Prices) \in Nat
  BY StoreAssumption, GreatestPrice
<1>2. \A p : p \in AllPrices <=> p \in Nat /\ p <= Max(Prices) + Band
  BY <1>1 DEF AllPrices
<1> QED
  BY <1>1, <1>2 DEF Places

LEMMA PartsAreSeqs ==
  ASSUME NEW q, q \in [Keys -> Seq(Slots)], NEW j, NEW b, NEW side \in Side, NEW p
  PROVE  NewPart(q, j, side, p) \in Seq(Slots) /\ OldPart(q, b, side, p) \in Seq(Slots)
<1>1. <<>> \in Seq(Slots)
  OBVIOUS
<1>2. \A i \in Idx : q[New(side, i)] \in Seq(Slots) /\ q[Old(side, i)] \in Seq(Slots)
  BY KeyCases
<1> QED
  BY <1>1, <1>2 DEF NewPart, OldPart

LEMMA ListsAre == \A q : StoreTypeOK /\ Fits(q) => lists = ListsOf(q, job, base)
<1> SUFFICES ASSUME NEW q, StoreTypeOK, Fits(q) PROVE lists = ListsOf(q, job, base)
  OBVIOUS
<1>1. /\ Good(q) /\ Behind(q, job, base) /\ q \in [Keys -> Seq(Slots)]
      /\ base \in Nat
  BY DEF Fits, Good, Shared, StoreTypeOK
<1>2. \A c \in Keys : Walk(Heads[c]) = q[c]
  BY <1>1, HeadWalks
<1> DEFINE value(side, p) ==
             LET i == p - base
                 k == IF side = "BUY" THEN i ELSE i + Band
             IN  IF job.op # "rebase" THEN ListAt(level[side], i)
                 ELSE IF i \notin Idx THEN <<>>
                 ELSE IF k > job.at THEN Walk(level[side][i].head)
                 ELSE ListAt(job.level[side], p - job.base)
                        \o (IF k = job.at THEN Walk(job.idx) ELSE <<>>)
<1>3. lists = [sp \in Places |-> value(sp[1], sp[2])]
  BY DEF lists, Places
<1>4. ASSUME NEW side \in Side, NEW p \in Nat
      PROVE  value(side, p) = NewPart(q, job, side, p) \o OldPart(q, base, side, p)
  <2> DEFINE i == p - base
             n == NewPart(q, job, side, p)
             o == OldPart(q, base, side, p)
  <2>1. n \in Seq(Slots) /\ o \in Seq(Slots)
    BY <1>1, PartsAreSeqs
  <2>2. <<>> \o o = o /\ n \o <<>> = n
    BY <2>1
  <2>3. CASE job.op # "rebase"
    <3>1. value(side, p) = ListAt(level[side], i)
      BY <2>3
    <3>2. ListAt(level[side], i) = o
      <4>1. CASE i \in Idx
        <5>1. Heads[Old(side, i)] = level[side][i].head /\ Old(side, i) \in Keys
          BY <2>3, <4>1, SettledHeads, KeyCases
        <5>2. Walk(level[side][i].head) = q[Old(side, i)]
          BY <1>2, <5>1
        <5> QED
          BY <4>1, <5>2 DEF ListAt, OldPart
      <4>2. CASE i \notin Idx
        BY <4>2 DEF ListAt, OldPart
      <4> QED
        BY <4>1, <4>2
    <3>3. n = <<>>
      BY <2>3 DEF NewPart
    <3> QED
      BY <2>2, <3>1, <3>2, <3>3
  <2>4. CASE job.op = "rebase" /\ i \notin Idx
    <3>1. value(side, p) = <<>> /\ o = <<>>
      BY <2>4 DEF OldPart
    <3>2. n = <<>>
      <4> SUFFICES ASSUME p - job.base \in Idx, q[New(side, p - job.base)] # <<>>
                   PROVE  FALSE
        BY <2>4 DEF NewPart
      <4>1. (p - job.base) + job.base - base \in Idx
        BY <1>1, <2>4 DEF Behind
      <4>2. job.base \in Nat
        BY <2>4, SlideJob
      <4>3. (p - job.base) + job.base - base = i
        BY <1>1, <4>2
      <4> QED
        BY <2>4, <4>1, <4>3
    <3> QED
      BY <2>2, <3>1, <3>2
  <2>5. CASE job.op = "rebase" /\ i \in Idx
    <3> DEFINE k == Pos(side, i)
    <3>0. /\ k = (IF side = "BUY" THEN i ELSE i + Band)
          /\ k \in Int /\ job.at \in Int /\ job.base \in Nat /\ i \in Int
      BY <2>5, PosRange, SlideJob, <1>1 DEF Pos
    <3>1. /\ Old(side, i) \in Keys /\ o = q[Old(side, i)]
          /\ Heads[Old(side, i)] = IF k > job.at THEN level[side][i].head
                                   ELSE IF k = job.at THEN job.idx ELSE NULL
      BY <2>5, KeyCases, SlidingHeads DEF OldPart
    <3>2. Walk(Heads[Old(side, i)]) = o
      BY <1>2, <3>1
    <3>3. value(side, p) = IF k > job.at THEN Walk(level[side][i].head)
                           ELSE ListAt(job.level[side], p - job.base)
                                  \o (IF k = job.at THEN Walk(job.idx) ELSE <<>>)
      BY <2>5, <3>0
    <3> HIDE DEF value, k
    <3>4. ASSUME k > job.at PROVE n = <<>>
      <4> SUFFICES ASSUME p - job.base \in Idx, q[New(side, p - job.base)] # <<>>
                   PROVE  FALSE
        BY <2>5 DEF NewPart
      <4>1. Pos(side, (p - job.base) + job.base - base) <= job.at
        BY <1>1, <2>5 DEF Behind
      <4>2. (p - job.base) + job.base - base = i
        BY <1>1, <3>0
      <4>3. k <= job.at
        BY <4>1, <4>2 DEF k
      <4> QED
        BY <3>0, <3>4, <4>3
    <3>5. ListAt(job.level[side], p - job.base) = n
      <4>1. CASE p - job.base \in Idx
        <5> DEFINE ni == p - job.base
        <5>1. New(side, ni) \in Keys /\ Heads[New(side, ni)] = job.level[side][ni].head
          BY <2>5, <4>1, KeyCases, SlidingHeads
        <5>2. Walk(job.level[side][ni].head) = q[New(side, ni)]
          BY <1>2, <5>1
        <5> QED
          BY <2>5, <4>1, <5>2 DEF ListAt, NewPart
      <4>2. CASE p - job.base \notin Idx
        BY <4>2 DEF ListAt, NewPart
      <4> QED
        BY <4>1, <4>2
    <3>6. CASE k > job.at
      BY <2>2, <3>1, <3>2, <3>3, <3>4, <3>6
    <3>7. CASE k = job.at
      <4>1. ~ (k > job.at)
        BY <3>0, <3>7
      <4> QED
        BY <3>1, <3>2, <3>3, <3>5, <3>7, <4>1
    <3>8. CASE ~ (k > job.at) /\ k # job.at
      <4>1. Heads[Old(side, i)] = NULL
        BY <3>1, <3>8
      <4>2. o = <<>>
        BY <1>1, <3>1, <4>1, FrontOfList DEF Good
      <4> QED
        BY <2>2, <3>3, <3>5, <3>8, <4>2
    <3> QED
      BY <3>6, <3>7, <3>8
  <2> QED
    BY <2>3, <2>4, <2>5
<1> HIDE DEF value
<1>5. \A sp \in Places : value(sp[1], sp[2]) =
                           NewPart(q, job, sp[1], sp[2]) \o OldPart(q, base, sp[1], sp[2])
  BY <1>4, PlaceNumbers
<1> QED
  BY <1>3, <1>5 DEF ListsOf

LEMMA ListsAreAfter == (\A q : StoreTypeOK /\ Fits(q) => lists = ListsOf(q, job, base))'
BY ListsAre, PTL

-----------------------------------------------------------------------------
(* What each step does to these lists: it is a step of SlotLists, or it    *)
(* does not show.                                                          *)

LEMMA WithoutIsCut ==
  ASSUME NEW r \in Seq(Slots), NEW m \in 1 .. Len(r)
  PROVE  Abstract!Without(r, m) = Cut(r, m)
<1> DEFINE a == SubSeq(r, 1, m - 1)
           b == SubSeq(r, m + 1, Len(r))
<1>1. Len(r) \in Nat /\ m \in Nat
  OBVIOUS
<1>2. a \in Seq(Slots) /\ Len(a) = m - 1 /\ \A k \in 1 .. m - 1 : a[k] = r[k]
  BY <1>1
<1>3. /\ b \in Seq(Slots) /\ Len(b) = Len(r) - m
      /\ \A k \in 1 .. Len(r) - m : b[k] = r[k + m]
  BY <1>1
<1> HIDE DEF a, b
<1>4. /\ a \o b \in Seq(Slots) /\ Len(a \o b) = Len(a) + Len(b)
      /\ \A k \in 1 .. Len(a) + Len(b) : (a \o b)[k] = IF k <= Len(a) THEN a[k]
                                                       ELSE b[k - Len(a)]
  BY <1>2, <1>3, ConcatProperties
<1>5. Len(a) + Len(b) = Len(r) - 1
  BY <1>1, <1>2, <1>3
<1>6. ASSUME NEW k \in 1 .. Len(r) - 1
      PROVE  (a \o b)[k] = IF k < m THEN r[k] ELSE r[k + 1]
  <2>1. CASE k < m
    <3>1. k \in 1 .. m - 1 /\ k <= Len(a)
      BY <1>1, <1>2, <2>1
    <3> QED
      BY <1>2, <1>4, <1>5, <2>1, <3>1
  <2>2. CASE ~ (k < m)
    <3>1. k - Len(a) \in 1 .. Len(r) - m /\ ~ (k <= Len(a)) /\ (k - Len(a)) + m = k + 1
      BY <1>1, <1>2, <2>2
    <3> QED
      BY <1>3, <1>4, <1>5, <2>2, <3>1
  <2> QED
    BY <2>1, <2>2
<1>7. a \o b = [k \in 1 .. Len(r) - 1 |-> (a \o b)[k]]
  <2> DEFINE c == a \o b
  <2>1. c \in Seq(Slots) /\ Len(c) = Len(r) - 1
    BY <1>4, <1>5
  <2> HIDE DEF c
  <2>2. c = [k \in 1 .. Len(r) - 1 |-> c[k]]
    BY <2>1
  <2> QED
    BY <2>2 DEF c
<1>8. a \o b = Cut(r, m)
  BY <1>6, <1>7 DEF Cut
<1> QED
  BY <1>8 DEF Abstract!Without, a, b

(* While no slide is under way, or nothing has been moved yet.             *)
LEMMA SettledParts ==
  ASSUME NEW q \in [Keys -> Seq(Slots)], NEW j, NEW b, j.op # "rebase"
  PROVE  \A sp \in Places : ListsOf(q, j, b)[sp] = OldPart(q, b, sp[1], sp[2])
<1> SUFFICES ASSUME NEW sp \in Places
             PROVE  ListsOf(q, j, b)[sp] = OldPart(q, b, sp[1], sp[2])
  OBVIOUS
<1>0. sp[1] \in Side
  BY PlaceNumbers
<1>1. OldPart(q, b, sp[1], sp[2]) \in Seq(Slots)
  BY <1>0, PartsAreSeqs
<1>2. NewPart(q, j, sp[1], sp[2]) = <<>>
  BY DEF NewPart
<1>3. ListsOf(q, j, b)[sp] = NewPart(q, j, sp[1], sp[2]) \o OldPart(q, b, sp[1], sp[2])
  BY DEF ListsOf
<1> QED
  BY <1>1, <1>2, <1>3

LEMMA RestShows ==
  ASSUME StoreTypeOK, StoreTypeOK', NEW q, Fits(q), NEW side \in Side,
         NEW price \in Prices, Rest(side, price), NEW q2, Fits(q2)',
         q2 = ToBack(Keys, q, Free, Old(side, price - base))
  PROVE  Abstract!Next
<1> DEFINE i == price - base
           o == Old(side, i)
           s == q[Free][1]
           l == <<side, price>>
<1>1. /\ Shared(Keys, q) /\ HeldInLevels(held, q) /\ job.op # "rebase"
      /\ job'.op # "rebase" /\ base' = base /\ i \in Idx /\ free_head # NULL
      /\ Linked(Keys, next_idx, Heads, q) /\ base \in Nat
      /\ q \in [Keys -> Seq(Slots)] /\ q2 \in [Keys -> Seq(Slots)]
  BY DEF Fits, Good, Shared, Rest, Idle, StoreTypeOK
<1>2. price \in Nat /\ l \in Places
  BY StoreAssumption, GreatestPrice, PlaceNumbers
<1>3. /\ lists = ListsOf(q, job, base) /\ lists' = ListsOf(q2, job', base)
      /\ \A sp \in Places : lists[sp] = OldPart(q, base, sp[1], sp[2])
      /\ \A sp \in Places : lists'[sp] = OldPart(q2, base, sp[1], sp[2])
  <2>1. lists = ListsOf(q, job, base)
    BY ListsAre
  <2>2. lists' = ListsOf(q2, job', base')
    BY ListsAreAfter
  <2>3. \A sp \in Places : lists[sp] = OldPart(q, base, sp[1], sp[2])
    BY <1>1, <2>1, SettledParts
  <2>4. \A sp \in Places : lists'[sp] = OldPart(q2, base, sp[1], sp[2])
    BY <1>1, <2>2, SettledParts
  <2> QED
    BY <1>1, <2>1, <2>2, <2>3, <2>4
<1>4. Free \in Keys /\ o \in Keys /\ o # Free
  BY <1>1, KeyCases
<1>5. s \in Slots /\ 1 \in 1 .. Len(q[Free])
  <2>1. Heads[Free] = free_head
    BY <1>1, SettledHeads
  <2> QED
    BY <1>1, <1>4, <2>1, FrontOfList
<1> HIDE DEF i, o, s, l
<1>6. s \notin Abstract!InUse
  <2>1. SUFFICES ASSUME NEW sp \in Places, s \in Range(lists[sp]) PROVE FALSE
    BY DEF Abstract!InUse, Abstract!Range, Range, Places
  <2> DEFINE n == sp[2] - base
  <2>2. lists[sp] = OldPart(q, base, sp[1], sp[2])
    BY <1>3
  <2>3. n \in Idx
    <3>1. Range(<<>>) = {}
      BY DEF Range
    <3> QED
      BY <2>1, <2>2, <3>1 DEF OldPart
  <2>4. lists[sp] = q[Old(sp[1], n)] /\ Old(sp[1], n) \in Keys /\ Old(sp[1], n) # Free
    BY <2>2, <2>3, KeyCases, PlaceNumbers DEF OldPart
  <2> DEFINE c == Old(sp[1], n)
  <2>5. q[c] \in Seq(Slots)
    BY <1>1, <2>4
  <2>6. \E k \in 1 .. Len(q[c]) : q[c][k] = s
    BY <2>1, <2>4, <2>5 DEF Range
  <2>7. c \in Keys /\ c # Free
    BY <2>4
  <2> HIDE DEF c
  <2> QED
    BY <1>1, <1>4, <1>5, <2>6, <2>7, OnePlace DEF s
<1>7. lists' = [lists EXCEPT ![l] = Append(@, s)]
  <2>1. \A sp \in Places : lists'[sp] = IF sp = l THEN Append(lists[l], s) ELSE lists[sp]
    <3> SUFFICES ASSUME NEW sp \in Places
                 PROVE  lists'[sp] = IF sp = l THEN Append(lists[l], s) ELSE lists[sp]
      OBVIOUS
    <3> DEFINE n == sp[2] - base
               c == Old(sp[1], n)
    <3>1. /\ lists'[sp] = IF n \in Idx THEN q2[c] ELSE <<>>
          /\ lists[sp] = IF n \in Idx THEN q[c] ELSE <<>>
      BY <1>3 DEF OldPart
    <3>2. /\ sp[1] \in Side /\ sp[2] \in Nat /\ sp = <<sp[1], sp[2]>>
      BY PlaceNumbers
    <3>3. sp = l <=> sp[1] = side /\ sp[2] = price
      BY <3>2 DEF l
    <3>4. sp[2] = price <=> n = i
      BY <1>1, <1>2, <3>2 DEF i
    <3>5. c = o <=> sp = l
      BY <3>3, <3>4, OldKeys DEF o
    <3>6. n \in Idx => c \in Keys /\ c # Free
      BY <3>2, KeyCases
    <3>7. sp = l => n \in Idx
      BY <1>1, <3>3, <3>4
    <3> HIDE DEF n, c
    <3>8. n \in Idx => q2[c] = IF c = o THEN Append(q[o], s) ELSE q[c]
      BY <3>6 DEF ToBack, o, i, s
    <3> QED
      BY <3>1, <3>5, <3>7, <3>8
  <2>2. lists = [sp \in Places |-> lists[sp]] /\ lists' = [sp \in Places |-> lists'[sp]]
    BY <1>3 DEF ListsOf
  <2> QED
    BY <1>2, <2>1, <2>2
<1>8. Abstract!Join(l)
  BY <1>5, <1>6, <1>7 DEF Abstract!Join
<1> QED
  BY <1>2, <1>8 DEF Abstract!Next, Places

LEMMA RemoveShows ==
  ASSUME StoreTypeOK, StoreTypeOK', NEW q, Fits(q), job.op # "rebase",
         job'.op # "rebase", NEW s \in held, Remove(s),
         NEW m \in 1 .. Len(q[Old(side_of[s], price_of[s])]), NEW q2, Fits(q2)',
         q2 = ToFront(Keys, q, Old(side_of[s], price_of[s]), m, Free)
  PROVE  Abstract!Next
<1> DEFINE side == side_of[s]
           i == price_of[s]
           o == Old(side, i)
           l == <<side, base + i>>
<1>1. /\ Shared(Keys, q) /\ base' = base /\ side \in Side /\ i \in Idx
      /\ base \in Nat /\ base <= Max(Prices)
      /\ q \in [Keys -> Seq(Slots)] /\ q2 \in [Keys -> Seq(Slots)]
  <2>1. base \in 0 .. Max(Prices) /\ Max(Prices) \in Nat
    BY PlaceNumbers DEF Fits, InRange
  <2>2. /\ Shared(Keys, q) /\ q \in [Keys -> Seq(Slots)] /\ q2 \in [Keys -> Seq(Slots)]
    BY DEF Fits, Good, Shared
  <2>3. side \in Side /\ i \in Idx /\ base' = base
    BY DEF Remove, StoreTypeOK
  <2> QED
    BY <2>1, <2>2, <2>3
<1>2. l \in Places
  <2>1. base + i \in Nat /\ base + i <= Max(Prices) + Band
    BY <1>1, PlaceNumbers DEF Idx
  <2> QED
    BY <1>1, <2>1, PlaceNumbers
<1>3. /\ lists = ListsOf(q, job, base) /\ lists' = ListsOf(q2, job', base)
      /\ \A sp \in Places : lists[sp] = OldPart(q, base, sp[1], sp[2])
      /\ \A sp \in Places : lists'[sp] = OldPart(q2, base, sp[1], sp[2])
  <2>1. lists = ListsOf(q, job, base)
    BY ListsAre
  <2>2. lists' = ListsOf(q2, job', base')
    BY ListsAreAfter
  <2>3. \A sp \in Places : lists[sp] = OldPart(q, base, sp[1], sp[2])
    BY <1>1, <2>1, SettledParts
  <2>4. \A sp \in Places : lists'[sp] = OldPart(q2, base, sp[1], sp[2])
    BY <1>1, <2>2, SettledParts
  <2> QED
    BY <1>1, <2>1, <2>2, <2>3, <2>4
<1>4. o \in Keys /\ o # Free /\ m \in 1 .. Len(q[o]) /\ q[o] \in Seq(Slots)
  BY <1>1, KeyCases
<1>5. q2 = ToFront(Keys, q, o, m, Free)
  OBVIOUS
<1> HIDE DEF side, i, o, l
<1>6. \A sp \in Places : lists'[sp] = IF sp = l THEN Cut(q[o], m) ELSE lists[sp]
  <2> SUFFICES ASSUME NEW sp \in Places
               PROVE  lists'[sp] = IF sp = l THEN Cut(q[o], m) ELSE lists[sp]
    OBVIOUS
  <2> DEFINE n == sp[2] - base
             c == Old(sp[1], n)
  <2>1. /\ lists'[sp] = IF n \in Idx THEN q2[c] ELSE <<>>
        /\ lists[sp] = IF n \in Idx THEN q[c] ELSE <<>>
    BY <1>3 DEF OldPart
  <2>2. sp[1] \in Side /\ sp[2] \in Nat /\ sp = <<sp[1], sp[2]>>
    BY PlaceNumbers
  <2>3. sp = l <=> sp[1] = side /\ sp[2] = base + i
    BY <2>2 DEF l
  <2>4. sp[2] = base + i <=> n = i
    BY <1>1, <2>2, PlaceNumbers DEF Idx
  <2>5. c = o <=> sp = l
    BY <2>3, <2>4, OldKeys DEF o
  <2>6. n \in Idx => c \in Keys /\ c # Free
    BY <2>2, KeyCases
  <2>7. sp = l => n \in Idx
    BY <1>1, <2>3, <2>4
  <2> HIDE DEF n, c
  <2>8. n \in Idx => q2[c] = IF c = o THEN Cut(q[o], m) ELSE q[c]
    BY <1>5, <2>6 DEF ToFront
  <2> QED
    BY <2>1, <2>5, <2>7, <2>8
<1>7. lists[l] = q[o]
  <2>1. l[1] = side /\ l[2] = base + i /\ (base + i) - base = i
    BY <1>1, PlaceNumbers DEF l, Idx
  <2> QED
    BY <1>1, <1>2, <1>3, <2>1 DEF OldPart, o
<1>8. m \in DOMAIN lists[l] /\ Abstract!Without(lists[l], m) = Cut(q[o], m)
  BY <1>4, <1>7, WithoutIsCut
<1>9. lists' = [lists EXCEPT ![l] = Abstract!Without(@, m)]
  <2>1. lists = [sp \in Places |-> lists[sp]] /\ lists' = [sp \in Places |-> lists'[sp]]
    BY <1>3 DEF ListsOf
  <2>2. Abstract!Without(lists[l], m) = Cut(q[o], m)
    BY <1>8
  <2> QED
    BY <1>2, <1>6, <2>1, <2>2
<1>10. Abstract!Leave(l)
  BY <1>8, <1>9 DEF Abstract!Leave
<1> QED
  BY <1>2, <1>10 DEF Abstract!Next, Places

(* Steps that leave the lists of q where they are, and the swap.           *)
LEMMA SameListsShow ==
  ASSUME StoreTypeOK, StoreTypeOK', NEW q, Fits(q), Fits(q)', base' = base,
         \/ job.op # "rebase" /\ job'.op # "rebase"
         \/ job.op # "rebase" /\ job'.op = "rebase"
         \/ job.op = "rebase" /\ job'.op = "rebase" /\ job'.base = job.base
  PROVE  lists' = lists
<1>1. lists = ListsOf(q, job, base) /\ lists' = ListsOf(q, job', base)
  BY ListsAre, ListsAreAfter
<1>2. \A sp \in Places : NewPart(q, job', sp[1], sp[2]) = NewPart(q, job, sp[1], sp[2])
  <2>1. CASE job.op # "rebase"
    <3>1. \A side \in Side, i \in Idx : q[New(side, i)] = <<>>
      BY <2>1 DEF Fits, Good, Settled
    <3> QED
      BY <2>1, <3>1, PlaceNumbers DEF NewPart
  <2>2. CASE job.op = "rebase" /\ job'.op = "rebase" /\ job'.base = job.base
    BY <2>2 DEF NewPart
  <2> QED
    BY <2>1, <2>2
<1> QED
  BY <1>1, <1>2 DEF ListsOf

LEMMA SwapShows ==
  ASSUME StoreTypeOK, StoreTypeOK', NEW q, Fits(q), Swap, NEW q2, Fits(q2)',
         \A side \in Side, i \in Idx : q[Old(side, i)] = <<>>,
         \A side \in Side, i \in Idx : q2[Old(side, i)] = q[New(side, i)]
  PROVE  lists' = lists
<1>1. /\ job.op = "rebase" /\ job'.op # "rebase" /\ base' = job.base
      /\ q \in [Keys -> Seq(Slots)] /\ q2 \in [Keys -> Seq(Slots)]
  BY DEF Swap, Idle, Fits, Good, Shared
<1>2. lists = ListsOf(q, job, base) /\ lists' = ListsOf(q2, job', job.base)
  BY <1>1, ListsAre, ListsAreAfter
<1>3. \A sp \in Places : lists'[sp] = OldPart(q2, job.base, sp[1], sp[2])
  BY <1>1, <1>2, SettledParts
<1>4. ASSUME NEW sp \in Places PROVE lists'[sp] = lists[sp]
  <2>1. sp[1] \in Side
    BY PlaceNumbers
  <2>2. OldPart(q, base, sp[1], sp[2]) = <<>>
    BY <2>1 DEF OldPart
  <2>3. NewPart(q, job, sp[1], sp[2]) \in Seq(Slots)
    BY <1>1, <2>1, PartsAreSeqs
  <2>4. lists[sp] = NewPart(q, job, sp[1], sp[2]) \o OldPart(q, base, sp[1], sp[2])
    BY <1>2 DEF ListsOf
  <2>5. lists[sp] = NewPart(q, job, sp[1], sp[2])
    BY <2>2, <2>3, <2>4
  <2>6. OldPart(q2, job.base, sp[1], sp[2]) = NewPart(q, job, sp[1], sp[2])
    BY <1>1, <2>1 DEF OldPart, NewPart
  <2> QED
    BY <1>3, <2>5, <2>6
<1>5. lists = [sp \in Places |-> lists[sp]] /\ lists' = [sp \in Places |-> lists'[sp]]
  BY <1>2 DEF ListsOf
<1> QED
  BY <1>4, <1>5

(* The level a slide is in, as a place.                                    *)
LEMMA PlaceInHand ==
  ASSUME StoreTypeOK, NEW q, Fits(q), job.op = "rebase", job.idx # NULL,
         NEW sd, sd = SideAt(job.at), NEW at, at = job.at % Band,
         NEW nr, nr = Moved(job.at), NEW sp \in Places
  PROVE  /\ <<sd, base + at>> \in Places
         /\ base \in Nat /\ at \in Idx /\ at \in Nat /\ job.base \in Nat /\ nr = base + at - job.base
         /\ sp[1] \in Side /\ sp[2] \in Nat
         /\ Old(sp[1], sp[2] - base) = Old(sd, at) <=> sp = <<sd, base + at>>
         /\ New(sp[1], sp[2] - job.base) = New(sd, nr) <=> sp = <<sd, base + at>>
<1> DEFINE l == <<sd, base + at>>
<1>1. /\ sd \in Side /\ at \in Idx /\ Good(q)
      /\ base \in Nat /\ base <= Max(Prices)
  BY InHand, GreatestPrice, StoreAssumption DEF Fits, InRange, StoreTypeOK
<1>2. /\ at \in Nat /\ at < Band /\ job.base \in Nat /\ Max(Prices) \in Nat
      /\ nr = base + at - job.base
  BY <1>1, SlideJob, PlaceNumbers DEF Idx, Moved
<1>3. l \in Places
  <2>1. base + at \in Nat /\ base + at <= Max(Prices) + Band
    BY <1>1, <1>2, PlaceNumbers
  <2> QED
    BY <1>1, <2>1, PlaceNumbers
<1>4. sp[1] \in Side /\ sp[2] \in Nat /\ sp = <<sp[1], sp[2]>>
  BY PlaceNumbers
<1>5. sp = l <=> sp[1] = sd /\ sp[2] = base + at
  BY <1>4
<1> HIDE DEF l
<1>6. sp[2] - base = at <=> sp[2] = base + at
  BY <1>1, <1>2, <1>4
<1>7. sp[2] - job.base = nr <=> sp[2] = base + at
  BY <1>1, <1>2, <1>4
<1>8. Old(sp[1], sp[2] - base) = Old(sd, at) <=> sp = l
  BY <1>5, <1>6, OldKeys
<1>9. New(sp[1], sp[2] - job.base) = New(sd, nr) <=> sp = l
  BY <1>5, <1>7, OldKeys
<1> QED
  BY <1>1, <1>2, <1>3, <1>4, <1>8, <1>9 DEF l

LEMMA DropShows ==
  ASSUME StoreTypeOK, StoreTypeOK', NEW q, Fits(q), DropOne, NEW q2, Fits(q2)',
         q2 = ToFront(Keys, q, Old(SideAt(job.at), job.at % Band), 1, Free)
  PROVE  Abstract!Next
<1> DEFINE sd == SideAt(job.at)
           at == job.at % Band
           nr == Moved(job.at)
           a == Old(sd, at)
           l == <<sd, base + at>>
<1>1. /\ job.op = "rebase" /\ job.idx # NULL /\ nr \notin Idx /\ base' = base
      /\ job' = [job EXCEPT !.at = Walking(next_idx[job.idx]).at,
                            !.idx = Walking(next_idx[job.idx]).idx]
  BY DEF DropOne
<1>2. job'.op = "rebase" /\ job'.base = job.base
  BY <1>1, SlideJob
<1>3. /\ lists = ListsOf(q, job, base) /\ lists' = ListsOf(q2, job', base)
      /\ q \in [Keys -> Seq(Slots)] /\ q2 \in [Keys -> Seq(Slots)]
  <2>1. lists' = ListsOf(q2, job', base')
    BY ListsAreAfter
  <2> QED
    BY <1>1, <2>1, ListsAre DEF Fits, Good, Shared
<1>4. /\ a \in Keys /\ a # Free /\ q[a] \in Seq(Slots) /\ 1 \in 1 .. Len(q[a])
  BY <1>1, <1>3, InHand DEF Fits
<1>5. \A sp \in Places :
        /\ l \in Places /\ base \in Nat /\ at \in Idx /\ at \in Nat /\ job.base \in Nat
        /\ nr = base + at - job.base
        /\ sp[1] \in Side /\ sp[2] \in Nat
        /\ Old(sp[1], sp[2] - base) = a <=> sp = l
        /\ New(sp[1], sp[2] - job.base) = New(sd, nr) <=> sp = l
  BY <1>1, PlaceInHand
<1>6. l \in Places
  <2>1. <<"BUY", 0>> \in Places
    BY PlaceNumbers DEF Side
  <2> QED
    BY <1>5, <2>1
<1>7. q2 = ToFront(Keys, q, a, 1, Free)
  OBVIOUS
<1> HIDE DEF a, l, sd, at, nr
<1>8. \A sp \in Places : NewPart(q2, job', sp[1], sp[2]) = NewPart(q, job, sp[1], sp[2])
  <2> SUFFICES ASSUME NEW sp \in Places, sp[2] - job.base \in Idx
               PROVE  q2[New(sp[1], sp[2] - job.base)] = q[New(sp[1], sp[2] - job.base)]
    BY <1>1, <1>2 DEF NewPart
  <2> DEFINE d == New(sp[1], sp[2] - job.base)
  <2>1. d \in Keys /\ d # Free /\ d # a
    BY <1>5, KeyCases, OldKeys DEF a
  <2> HIDE DEF d
  <2>2. q2[d] = q[d]
    BY <1>7, <2>1 DEF ToFront
  <2> QED
    BY <2>2 DEF d
<1>9. \A sp \in Places : OldPart(q2, base, sp[1], sp[2]) =
                           IF sp = l THEN Cut(q[a], 1) ELSE OldPart(q, base, sp[1], sp[2])
  <2> SUFFICES ASSUME NEW sp \in Places
               PROVE  OldPart(q2, base, sp[1], sp[2]) =
                        IF sp = l THEN Cut(q[a], 1) ELSE OldPart(q, base, sp[1], sp[2])
    OBVIOUS
  <2> DEFINE n == sp[2] - base
             c == Old(sp[1], n)
  <2>1. n \in Idx => c \in Keys /\ c # Free
    BY <1>5, KeyCases
  <2>2. c = a <=> sp = l
    BY <1>5
  <2>3. sp = l => n \in Idx
    <3>1. sp = l => n = at
      BY <1>5 DEF l
    <3> QED
      BY <1>5, <3>1
  <2>4. /\ OldPart(q2, base, sp[1], sp[2]) = IF n \in Idx THEN q2[c] ELSE <<>>
        /\ OldPart(q, base, sp[1], sp[2]) = IF n \in Idx THEN q[c] ELSE <<>>
    BY DEF OldPart
  <2> HIDE DEF n, c
  <2>5. n \in Idx => q2[c] = IF c = a THEN Cut(q[a], 1) ELSE q[c]
    BY <1>7, <2>1 DEF ToFront
  <2> QED
    BY <2>2, <2>3, <2>4, <2>5
<1>10. NewPart(q, job, l[1], l[2]) = <<>> /\ OldPart(q, base, l[1], l[2]) = q[a]
  <2>1. l[1] = sd /\ l[2] = base + at
    BY DEF l
  <2>2. l[2] - job.base = nr /\ l[2] - base = at /\ at \in Idx
    BY <1>5, <1>6, <2>1
  <2> QED
    BY <1>1, <2>1, <2>2 DEF NewPart, OldPart, a
<1>11. /\ Cut(q[a], 1) \in Seq(Slots)
       /\ lists[l] = q[a] /\ lists'[l] = Cut(q[a], 1)
  <2>1. Cut(q[a], 1) \in Seq(Slots)
    BY <1>4, CutIsSeq
  <2>2. lists[l] = <<>> \o q[a]
    BY <1>3, <1>6, <1>10 DEF ListsOf
  <2>3. lists'[l] = <<>> \o Cut(q[a], 1)
    BY <1>3, <1>6, <1>8, <1>9, <1>10 DEF ListsOf
  <2> DEFINE x == Cut(q[a], 1)
             y == q[a]
  <2>4. <<>> \o y = y /\ <<>> \o x = x
    <3>1. x \in Seq(Slots) /\ y \in Seq(Slots)
      BY <1>4, <2>1
    <3> HIDE DEF x, y
    <3> QED
      BY <3>1
  <2> QED
    BY <2>1, <2>2, <2>3, <2>4
<1>12. \A sp \in Places : lists'[sp] = IF sp = l THEN Cut(q[a], 1) ELSE lists[sp]
  BY <1>3, <1>8, <1>9, <1>11 DEF ListsOf
<1>13. 1 \in DOMAIN lists[l] /\ Abstract!Without(lists[l], 1) = Cut(q[a], 1)
  BY <1>4, <1>11, WithoutIsCut
<1>14. lists' = [lists EXCEPT ![l] = Abstract!Without(@, 1)]
  <2>1. lists = [sp \in Places |-> lists[sp]] /\ lists' = [sp \in Places |-> lists'[sp]]
    BY <1>3 DEF ListsOf
  <2>2. Abstract!Without(lists[l], 1) = Cut(q[a], 1)
    BY <1>13
  <2> QED
    BY <1>6, <1>12, <2>1, <2>2
<1>15. Abstract!Leave(l)
  BY <1>13, <1>14 DEF Abstract!Leave
<1> QED
  BY <1>6, <1>15 DEF Abstract!Next, Places

(* Moving the first of what is left behind the last of what was moved does *)
(* not change the whole.                                                   *)
LEMMA HandOver ==
  ASSUME NEW x \in Seq(Slots), NEW y \in Seq(Slots), 1 \in 1 .. Len(y)
  PROVE  Append(x, y[1]) \o Cut(y, 1) = x \o y
<1> DEFINE u == Append(x, y[1])
           v == Cut(y, 1)
           s == y[1]
<1>1. Len(x) \in Nat /\ Len(y) \in Nat /\ s \in Slots
  OBVIOUS
<1>2. /\ v \in Seq(Slots) /\ Len(v) = Len(y) - 1
      /\ \A k \in 1 .. Len(y) - 1 : v[k] = y[k + 1]
  <2>1. /\ v \in Seq(Slots) /\ Len(v) = Len(y) - 1
        /\ \A k \in 1 .. Len(y) - 1 : v[k] = IF k < 1 THEN y[k] ELSE y[k + 1]
    BY CutIsSeq
  <2>2. \A k \in 1 .. Len(y) - 1 : ~ (k < 1)
    BY <1>1
  <2> QED
    BY <2>1, <2>2
<1>3. /\ u \in Seq(Slots) /\ Len(u) = Len(x) + 1
      /\ \A k \in 1 .. Len(x) + 1 : u[k] = IF k = Len(x) + 1 THEN s ELSE x[k]
  BY <1>1, AppendIsSeq
<1> HIDE DEF u, v
<1> DEFINE f == u \o v
           g == x \o y
<1>4. /\ f \in Seq(Slots) /\ Len(f) = Len(u) + Len(v)
      /\ \A k \in 1 .. Len(u) + Len(v) : f[k] = IF k <= Len(u) THEN u[k] ELSE v[k - Len(u)]
  BY <1>2, <1>3, ConcatProperties
<1>5. /\ g \in Seq(Slots) /\ Len(g) = Len(x) + Len(y)
      /\ \A k \in 1 .. Len(x) + Len(y) : g[k] = IF k <= Len(x) THEN x[k] ELSE y[k - Len(x)]
  BY ConcatProperties
<1>6. Len(u) + Len(v) = Len(x) + Len(y)
  BY <1>1, <1>2, <1>3
<1> HIDE DEF f, g
<1>7. ASSUME NEW k \in 1 .. Len(x) + Len(y) PROVE f[k] = g[k]
  <2>1. CASE k <= Len(x)
    <3>1. k \in 1 .. Len(x) + 1 /\ k # Len(x) + 1 /\ k <= Len(u)
      BY <1>1, <1>3, <2>1
    <3> QED
      BY <1>3, <1>4, <1>5, <1>6, <2>1, <3>1
  <2>2. CASE k = Len(x) + 1
    <3>1. k \in 1 .. Len(x) + 1 /\ k <= Len(u) /\ ~ (k <= Len(x)) /\ k - Len(x) = 1
      BY <1>1, <1>3, <2>2
    <3> QED
      BY <1>3, <1>4, <1>5, <1>6, <2>2, <3>1 DEF s
  <2>3. CASE ~ (k <= Len(x)) /\ k # Len(x) + 1
    <3>1. /\ ~ (k <= Len(u)) /\ k - Len(u) \in 1 .. Len(y) - 1
          /\ (k - Len(u)) + 1 = k - Len(x)
      BY <1>1, <1>3, <2>3
    <3> QED
      BY <1>2, <1>4, <1>5, <1>6, <2>3, <3>1
  <2> QED
    BY <2>1, <2>2, <2>3
<1>8. f = [k \in 1 .. Len(x) + Len(y) |-> f[k]] /\ g = [k \in 1 .. Len(x) + Len(y) |-> g[k]]
  BY <1>4, <1>5, <1>6
<1>9. f = g
  BY <1>7, <1>8
<1> QED
  BY <1>9 DEF f, g, u, v, s

LEMMA MoveShows ==
  ASSUME StoreTypeOK, StoreTypeOK', NEW q, Fits(q), MoveOne, NEW q2, Fits(q2)',
         q2 = ToBack(Keys, q, Old(SideAt(job.at), job.at % Band),
                     New(SideAt(job.at), Moved(job.at))),
         job'.op = "rebase", job'.base = job.base
  PROVE  lists' = lists
<1> DEFINE sd == SideAt(job.at)
           at == job.at % Band
           nr == Moved(job.at)
           a == Old(sd, at)
           b == New(sd, nr)
           l == <<sd, base + at>>
           s == q[a][1]
<1>1. job.op = "rebase" /\ job.idx # NULL /\ nr \in Idx /\ base' = base
  BY DEF MoveOne
<1>2. /\ lists = ListsOf(q, job, base) /\ lists' = ListsOf(q2, job', base)
      /\ q \in [Keys -> Seq(Slots)] /\ q2 \in [Keys -> Seq(Slots)]
  <2>1. lists' = ListsOf(q2, job', base')
    BY ListsAreAfter
  <2> QED
    BY <1>1, <2>1, ListsAre DEF Fits, Good, Shared
<1>3. /\ sd \in Side /\ a \in Keys /\ a # Free /\ q[a] \in Seq(Slots) /\ 1 \in 1 .. Len(q[a])
  BY <1>1, <1>2, InHand DEF Fits
<1>4. b \in Keys /\ b # Free /\ b # a /\ q[b] \in Seq(Slots)
  <2> HIDE DEF sd, nr, at
  <2> QED
    BY <1>1, <1>2, <1>3, KeyCases, OldKeys
<1>5. \A sp \in Places :
        /\ base \in Nat /\ at \in Idx /\ at \in Nat /\ job.base \in Nat
        /\ nr = base + at - job.base
        /\ sp[1] \in Side /\ sp[2] \in Nat
        /\ Old(sp[1], sp[2] - base) = a <=> sp = l
        /\ New(sp[1], sp[2] - job.base) = b <=> sp = l
  BY <1>1, PlaceInHand
<1>6. q2 = ToBack(Keys, q, a, b)
  OBVIOUS
<1> HIDE DEF a, b, l, sd, at, nr, s
<1>7. ASSUME NEW sp \in Places PROVE lists'[sp] = lists[sp]
  <2> DEFINE n == sp[2] - base
             c == Old(sp[1], n)
             m == sp[2] - job.base
             d == New(sp[1], m)
  <2>1. /\ lists[sp] = (IF m \in Idx THEN q[d] ELSE <<>>) \o (IF n \in Idx THEN q[c] ELSE <<>>)
        /\ lists'[sp] = (IF m \in Idx THEN q2[d] ELSE <<>>)
                          \o (IF n \in Idx THEN q2[c] ELSE <<>>)
    BY <1>1, <1>2 DEF ListsOf, NewPart, OldPart
  <2>2. /\ n \in Idx => c \in Keys
        /\ m \in Idx => d \in Keys
    BY <1>5, KeyCases
  <2>3. c # b /\ d # a
    BY OldKeys DEF a, b
  <2>4. (c = a <=> sp = l) /\ (d = b <=> sp = l)
    BY <1>5
  <2>5. sp = l => n \in Idx /\ m \in Idx
    <3>1. sp = l => n = at /\ m = nr
      BY <1>5 DEF l
    <3> QED
      BY <1>1, <1>5, <3>1
  <2> HIDE DEF n, c, m, d
  <2>6. n \in Idx => q2[c] = IF c = a THEN Cut(q[a], 1) ELSE q[c]
    BY <1>6, <2>2, <2>3 DEF ToBack
  <2>7. m \in Idx => q2[d] = IF d = b THEN Append(q[b], s) ELSE q[d]
    BY <1>6, <2>2, <2>3 DEF ToBack, s
  <2>8. CASE sp # l
    BY <2>1, <2>4, <2>6, <2>7, <2>8
  <2>9. CASE sp = l
    <3> DEFINE x == q[b]
               y == q[a]
    <3>1. lists[sp] = x \o y /\ lists'[sp] = Append(x, y[1]) \o Cut(y, 1)
      BY <2>1, <2>4, <2>5, <2>6, <2>7, <2>9 DEF s
    <3>2. x \in Seq(Slots) /\ y \in Seq(Slots) /\ 1 \in 1 .. Len(y)
      BY <1>3, <1>4
    <3> HIDE DEF x, y
    <3>3. Append(x, y[1]) \o Cut(y, 1) = x \o y
      BY <3>2, HandOver
    <3> QED
      BY <3>1, <3>3
  <2> QED
    BY <2>8, <2>9
<1>8. lists = [sp \in Places |-> lists[sp]] /\ lists' = [sp \in Places |-> lists'[sp]]
  BY <1>2 DEF ListsOf
<1> QED
  BY <1>7, <1>8

-----------------------------------------------------------------------------
(* Every step keeps the invariant, and is a step of SlotLists or does not  *)
(* show.                                                                   *)

LEMMA FitsAtRest ==
  ASSUME NEW q, Good(q)', job'.op # "rebase", base' \in 0 .. Max(Prices)
  PROVE  Fits(q)'
BY DEF Fits, Behind, InRange

LEMMA BaseInRange ==
  ASSUME NEW q, Fits(q)
  PROVE  base \in 0 .. Max(Prices) /\ (job.op = "rebase" => job.base \in 0 .. Max(Prices))
BY DEF Fits, InRange

(* A slide goes on: what it had filled it still has behind it.             *)
LEMMA FitsOnTheWay ==
  ASSUME StoreTypeOK, StoreTypeOK', NEW q, Fits(q), job.op = "rebase", job'.op = "rebase",
         job'.base = job.base, base' = base, NEW n, job'.at = Walking(n).at,
         NEW q2, Good(q2)',
         \A side \in Side, i \in Idx :
           q2[New(side, i)] # <<>> =>
             \/ q[New(side, i)] # <<>>
             \/ i + job.base - base \in Idx /\ Pos(side, i + job.base - base) <= job.at
  PROVE  Fits(q2)'
<1>1. job.at \in Nat /\ job'.at \in {job.at, job.at + 1}
  BY SlideJob, StoreAssumption DEF Walking
<1>2. InRange(job', base')
  BY BaseInRange DEF InRange
<1>3. Behind(q, job, base)
  BY DEF Fits
<1>4. ASSUME NEW side \in Side, NEW i \in Idx, q2[New(side, i)] # <<>>
      PROVE  i + job.base - base \in Idx /\ Pos(side, i + job.base - base) <= job'.at
  <2> DEFINE p == i + job.base - base
  <2>1. p \in Idx /\ Pos(side, p) <= job.at
    BY <1>3, <1>4 DEF Behind
  <2> HIDE DEF p
  <2>2. Pos(side, p) \in Nat
    BY <2>1, PosRange, StoreAssumption
  <2>3. Pos(side, p) <= job'.at
    BY <1>1, <2>1, <2>2
  <2> QED
    BY <2>1, <2>3 DEF p
<1>5. Behind(q2, job', base')
  BY <1>4 DEF Behind
<1> QED
  BY <1>2, <1>5 DEF Fits

LEMMA RestStep ==
  ASSUME StoreTypeOK, NEW q, Fits(q), NEW side \in Side, NEW price \in Prices,
         Rest(side, price)
  PROVE  SInv' /\ Abstract!Next
<1>1. job'.op # "rebase" /\ base' = base
  BY DEF Rest, Idle
<1>2. StoreTypeOK'
  BY RestGood DEF Fits
<1>3. PICK q2 \in [Keys -> Seq(Slots)] :
        q2 = ToBack(Keys, q, Free, Old(side, price - base)) /\ Good(q2)'
  BY RestGood DEF Fits
<1>4. Fits(q2)'
  BY <1>1, <1>3, BaseInRange, FitsAtRest
<1>5. Abstract!Next
  BY <1>2, <1>3, <1>4, RestShows
<1> QED
  BY <1>2, <1>4, <1>5 DEF SInv

LEMMA RemoveStep ==
  ASSUME StoreTypeOK, NEW q, Fits(q), job.op # "rebase", job'.op # "rebase",
         JobTypeOK', NEW s \in held, Remove(s)
  PROVE  SInv' /\ Abstract!Next
<1>1. base' = base
  BY DEF Remove
<1>2. StoreTypeOK'
  BY RemoveGood DEF Fits
<1>3. \E m \in 1 .. Len(q[Old(side_of[s], price_of[s])]) :
        \E q2 \in [Keys -> Seq(Slots)] :
          /\ q2 = ToFront(Keys, q, Old(side_of[s], price_of[s]), m, Free)
          /\ Good(q2)'
  BY RemoveGood DEF Fits
<1>4. PICK m \in 1 .. Len(q[Old(side_of[s], price_of[s])]) :
        \E q2 \in [Keys -> Seq(Slots)] :
          /\ q2 = ToFront(Keys, q, Old(side_of[s], price_of[s]), m, Free)
          /\ Good(q2)'
  BY <1>3
<1>5. PICK q2 \in [Keys -> Seq(Slots)] :
        /\ q2 = ToFront(Keys, q, Old(side_of[s], price_of[s]), m, Free)
        /\ Good(q2)'
  BY <1>4
<1>6. Fits(q2)'
  BY <1>1, <1>5, BaseInRange, FitsAtRest
<1>7. Abstract!Next
  BY <1>2, <1>5, <1>6, RemoveShows
<1> QED
  BY <1>2, <1>6, <1>7 DEF SInv

LEMMA CancelStep ==
  ASSUME StoreTypeOK, NEW q, Fits(q), NEW s \in Slots, Cancel(s)
  PROVE  SInv' /\ Abstract!Next
BY CancelRemoves, RemoveStep

LEMMA MatchWholeStep ==
  ASSUME StoreTypeOK, NEW q, Fits(q), MatchWhole
  PROVE  SInv' /\ Abstract!Next
<1>1. /\ job.op # "rebase" /\ job'.op # "rebase" /\ JobTypeOK'
      /\ job.idx \in held /\ Remove(job.idx)
  BY MatchWholeRemoves DEF Fits
<1> QED
  BY <1>1, RemoveStep

LEMMA StartMatchStep ==
  ASSUME StoreTypeOK, NEW q, Fits(q), NEW side \in Side, NEW i \in Idx,
         StartMatch(side, i)
  PROVE  SInv' /\ lists' = lists
<1>1. job.op # "rebase" /\ job'.op # "rebase" /\ base' = base
  BY DEF StartMatch, Idle
<1>2. StoreTypeOK' /\ Good(q)' /\ q \in [Keys -> Seq(Slots)]
  BY StartMatchGood DEF Fits, Good, Shared
<1>3. Fits(q)'
  BY <1>1, <1>2, BaseInRange, FitsAtRest
<1>4. lists' = lists
  BY <1>1, <1>2, <1>3, SameListsShow
<1> QED
  BY <1>2, <1>3, <1>4 DEF SInv

LEMMA MatchPartStep ==
  ASSUME StoreTypeOK, NEW q, Fits(q), MatchPart
  PROVE  SInv' /\ lists' = lists
<1>1. job.op # "rebase" /\ job'.op # "rebase" /\ base' = base
  BY DEF MatchPart, Idle
<1>2. StoreTypeOK' /\ Good(q)' /\ q \in [Keys -> Seq(Slots)]
  BY MatchPartGood DEF Fits, Good, Shared
<1>3. Fits(q)'
  BY <1>1, <1>2, BaseInRange, FitsAtRest
<1>4. lists' = lists
  BY <1>1, <1>2, <1>3, SameListsShow
<1> QED
  BY <1>2, <1>3, <1>4 DEF SInv

(* The new window starts at or below the price it was asked for.           *)
LEMMA CentredInRange ==
  ASSUME NEW price \in Prices
  PROVE  Centred(price) \in 0 .. Max(Prices)
<1>1. price \in Nat /\ price <= Max(Prices) /\ Max(Prices) \in Nat /\ Band \in Nat \ {0}
  BY GreatestPrice, StoreAssumption
<1> DEFINE h == Band \div 2
<1>2. h \in Nat
  BY <1>1, SMTT(20)
<1> HIDE DEF h
<1>3. Centred(price) = IF price < h THEN 0 ELSE price - h
  BY DEF Centred, h
<1> QED
  BY <1>1, <1>2, <1>3

LEMMA StartRebaseStep ==
  ASSUME StoreTypeOK, NEW q, Fits(q), NEW price \in Prices, StartRebase(price)
  PROVE  SInv' /\ lists' = lists
<1>1. /\ job.op # "rebase" /\ job'.op = "rebase" /\ base' = base
      /\ job'.base = Centred(price)
  BY DEF StartRebase, Idle
<1>2. StoreTypeOK' /\ Good(q)' /\ q \in [Keys -> Seq(Slots)]
  BY StartRebaseGood DEF Fits, Good, Shared
<1>3. InRange(job', base')
  BY <1>1, BaseInRange, CentredInRange DEF InRange
<1>4. Behind(q, job', base')
  BY <1>1 DEF Behind, Fits, Good, Settled
<1>5. Fits(q)'
  BY <1>2, <1>3, <1>4 DEF Fits
<1>6. lists' = lists
  BY <1>1, <1>2, <1>5, SameListsShow
<1> QED
  BY <1>2, <1>5, <1>6 DEF SInv

LEMMA SkipEmptyStep ==
  ASSUME StoreTypeOK, NEW q, Fits(q), SkipEmpty
  PROVE  SInv' /\ lists' = lists
<1>1. /\ job.op = "rebase" /\ base' = base
      /\ job' = [job EXCEPT !.at = Walking(NULL).at, !.idx = Walking(NULL).idx]
  BY DEF SkipEmpty
<1>2. job'.op = "rebase" /\ job'.base = job.base /\ job'.at = Walking(NULL).at
  BY <1>1, SlideJob
<1>3. StoreTypeOK' /\ Good(q)' /\ q \in [Keys -> Seq(Slots)]
  BY SkipEmptyGood DEF Fits, Good, Shared
<1>4. Fits(q)'
  BY <1>1, <1>2, <1>3, FitsOnTheWay
<1>5. lists' = lists
  BY <1>1, <1>2, <1>3, <1>4, SameListsShow
<1> QED
  BY <1>3, <1>4, <1>5 DEF SInv

LEMMA DropOneStep ==
  ASSUME StoreTypeOK, NEW q, Fits(q), DropOne
  PROVE  SInv' /\ Abstract!Next
<1> DEFINE n == next_idx[job.idx]
<1>1. /\ job.op = "rebase" /\ base' = base
      /\ job' = [job EXCEPT !.at = Walking(n).at, !.idx = Walking(n).idx]
  BY DEF DropOne
<1>2. job'.op = "rebase" /\ job'.base = job.base /\ job'.at = Walking(n).at
  BY <1>1, SlideJob
<1>3. StoreTypeOK'
  BY DropOneGood DEF Fits
<1>4. PICK q2 \in [Keys -> Seq(Slots)] :
        /\ q2 = ToFront(Keys, q, Old(SideAt(job.at), job.at % Band), 1, Free)
        /\ Good(q2)'
  BY DropOneGood DEF Fits
<1>5. ASSUME NEW side \in Side, NEW i \in Idx
      PROVE  q2[New(side, i)] = q[New(side, i)]
  <2> DEFINE c == New(side, i)
             a == Old(SideAt(job.at), job.at % Band)
  <2>1. c \in Keys /\ c # Free /\ c # a
    BY KeyCases DEF New, Old
  <2>2. q2 = ToFront(Keys, q, a, 1, Free)
    BY <1>4
  <2> HIDE DEF c, a
  <2>3. q2[c] = q[c]
    BY <2>1, <2>2 DEF ToFront
  <2> QED
    BY <2>3 DEF c
<1> HIDE DEF n
<1>6. Fits(q2)'
  BY <1>1, <1>2, <1>3, <1>4, <1>5, FitsOnTheWay
<1>7. Abstract!Next
  BY <1>3, <1>4, <1>6, DropShows
<1> QED
  BY <1>3, <1>6, <1>7 DEF SInv

LEMMA MoveOneStep ==
  ASSUME StoreTypeOK, NEW q, Fits(q), MoveOne
  PROVE  SInv' /\ lists' = lists
<1> DEFINE n == next_idx[job.idx]
           sd == SideAt(job.at)
           at == job.at % Band
           nr == Moved(job.at)
           l2 == Appended(job.level[sd][nr], job.idx)
<1>1. /\ job.op = "rebase" /\ base' = base /\ job.idx # NULL /\ nr \in Idx
      /\ job' = [job EXCEPT !.level[sd][nr] = l2,
                            !.at = Walking(n).at, !.idx = Walking(n).idx]
  BY DEF MoveOne
<1>2. job'.op = "rebase" /\ job'.base = job.base /\ job'.at = Walking(n).at
  BY <1>1, SlideJob
<1>3. StoreTypeOK'
  BY MoveOneGood DEF Fits
<1>4. PICK q2 \in [Keys -> Seq(Slots)] :
        /\ q2 = ToBack(Keys, q, Old(sd, at), New(sd, nr))
        /\ Good(q2)'
  BY MoveOneGood DEF Fits
<1>5. /\ at \in Idx /\ job.at \in 0 .. 2 * Band - 1 /\ sd \in Side
      /\ Good(q)
  BY <1>1, InHand DEF Fits
<1>6. Pos(sd, at) = job.at
  BY <1>5, PosIs
<1>7. nr + job.base - base = at
  <2>1. nr = base + at - job.base
    BY DEF Moved
  <2>2. base \in Nat /\ job.base \in Nat /\ at \in Int
    BY <1>1, <1>5, SlideJob DEF StoreTypeOK, Idx
  <2> HIDE DEF nr, at
  <2> QED
    BY <2>1, <2>2
<1> HIDE DEF n, sd, at, nr, l2
<1>8. ASSUME NEW side \in Side, NEW i \in Idx, q2[New(side, i)] # <<>>
      PROVE  \/ q[New(side, i)] # <<>>
             \/ i + job.base - base \in Idx /\ Pos(side, i + job.base - base) <= job.at
  <2> DEFINE c == New(side, i)
             a == Old(sd, at)
             b == New(sd, nr)
  <2>1. CASE side = sd /\ i = nr
    <3>1. Pos(side, i + job.base - base) = job.at /\ i + job.base - base \in Idx
      BY <1>5, <1>6, <1>7, <2>1
    <3>2. job.at <= job.at
      BY <1>5, StoreAssumption
    <3> QED
      BY <3>1, <3>2
  <2>2. CASE ~ (side = sd /\ i = nr)
    <3>1. c \in Keys /\ c # a /\ c # b
      BY <1>1, <1>5, <2>2, KeyCases DEF New, Old
    <3>2. q2 = ToBack(Keys, q, a, b)
      BY <1>4
    <3> HIDE DEF c, a, b
    <3>3. q2[c] = q[c]
      BY <3>1, <3>2 DEF ToBack
    <3> QED
      BY <1>8, <3>3 DEF c
  <2> QED
    BY <2>1, <2>2
<1>9. Fits(q2)'
  BY <1>1, <1>2, <1>3, <1>4, <1>8, FitsOnTheWay
<1>10. q2 = ToBack(Keys, q, Old(SideAt(job.at), job.at % Band),
                   New(SideAt(job.at), Moved(job.at)))
  BY <1>4 DEF sd, at, nr
<1>11. lists' = lists
  BY <1>2, <1>3, <1>9, <1>10, MoveShows
<1> QED
  BY <1>3, <1>9, <1>11 DEF SInv

LEMMA SwapStep ==
  ASSUME StoreTypeOK, NEW q, Fits(q), Swap
  PROVE  SInv' /\ lists' = lists
<1>1. job.op = "rebase" /\ job'.op # "rebase" /\ base' = job.base
  BY DEF Swap, Idle
<1>2. StoreTypeOK' /\ \A side \in Side, i \in Idx : q[Old(side, i)] = <<>>
  BY SwapGood DEF Fits
<1>3. PICK q2 \in [Keys -> Seq(Slots)] :
        /\ \A side \in Side, i \in Idx : /\ q2[Old(side, i)] = q[New(side, i)]
                                         /\ q2[New(side, i)] = <<>>
        /\ Good(q2)'
  BY SwapGood DEF Fits
<1>4. Fits(q2)'
  BY <1>1, <1>3, BaseInRange, FitsAtRest
<1>5. lists' = lists
  BY <1>2, <1>3, <1>4, SwapShows
<1> QED
  BY <1>2, <1>4, <1>5 DEF SInv

LEMMA StoreStep ==
  ASSUME SInv, [Next]_vars
  PROVE  SInv' /\ [Abstract!Next]_lists
<1>1. StoreTypeOK
  BY DEF SInv
<1>2. PICK q \in [Keys -> Seq(Slots)] : Fits(q)
  BY DEF SInv
<1>3. ASSUME NEW side \in Side, NEW price \in Prices, Rest(side, price)
      PROVE  SInv' /\ Abstract!Next
  BY <1>1, <1>2, <1>3, RestStep
<1>4. ASSUME NEW s \in Slots, Cancel(s) PROVE SInv' /\ Abstract!Next
  BY <1>1, <1>2, <1>4, CancelStep
<1>5. ASSUME NEW side \in Side, NEW i \in Idx, StartMatch(side, i)
      PROVE  SInv' /\ lists' = lists
  BY <1>1, <1>2, <1>5, StartMatchStep
<1>6. ASSUME NEW price \in Prices, StartRebase(price) PROVE SInv' /\ lists' = lists
  BY <1>1, <1>2, <1>6, StartRebaseStep
<1>7. MatchWhole => SInv' /\ Abstract!Next
  BY <1>1, <1>2, MatchWholeStep
<1>8. MatchPart => SInv' /\ lists' = lists
  BY <1>1, <1>2, MatchPartStep
<1>9. SkipEmpty => SInv' /\ lists' = lists
  BY <1>1, <1>2, SkipEmptyStep
<1>10. DropOne => SInv' /\ Abstract!Next
  BY <1>1, <1>2, DropOneStep
<1>11. MoveOne => SInv' /\ lists' = lists
  BY <1>1, <1>2, MoveOneStep
<1>12. Swap => SInv' /\ lists' = lists
  BY <1>1, <1>2, SwapStep
<1>13. UNCHANGED vars => SInv' /\ lists' = lists
  <2> SUFFICES ASSUME UNCHANGED vars PROVE SInv' /\ lists' = lists
    OBVIOUS
  <2>1. /\ next_idx' = next_idx /\ prev_idx' = prev_idx /\ side_of' = side_of
        /\ price_of' = price_of /\ free_head' = free_head /\ level' = level
        /\ base' = base /\ held' = held /\ job' = job
    BY DEF vars
  <2>2. StoreTypeOK'
    BY <1>1, <2>1 DEF StoreTypeOK, JobTypeOK
  <2>3. Heads' = Heads
    BY <2>1 DEF Heads, OldHeads, NewHeads
  <2>4. Good(q)'
    BY <1>2, <2>1, <2>3 DEF Fits, Good, Sliding, Settled
  <2>5. Fits(q)'
    BY <1>2, <2>1, <2>4 DEF Fits
  <2>6. lists' = lists
    <3>1. lists = ListsOf(q, job, base) /\ lists' = ListsOf(q, job', base')
      BY <1>1, <1>2, <2>2, <2>5, ListsAre, ListsAreAfter
    <3> QED
      BY <2>1, <3>1
  <2> QED
    BY <2>2, <2>5, <2>6 DEF SInv
<1>14. Next \/ UNCHANGED vars
  OBVIOUS
<1>15. CASE \E side \in Side, price \in Prices : Rest(side, price)
  BY <1>3, <1>15
<1>16. CASE \E s \in Slots : Cancel(s)
  BY <1>4, <1>16
<1>17. CASE \E side \in Side, i \in Idx : StartMatch(side, i)
  BY <1>5, <1>17
<1>18. CASE \E price \in Prices : StartRebase(price)
  BY <1>6, <1>18
<1> QED
  BY <1>7, <1>8, <1>9, <1>10, <1>11, <1>12, <1>13, <1>14, <1>15, <1>16, <1>17, <1>18
  DEF Next, Loop

LEMMA StoreStart ==
  ASSUME Init
  PROVE  SInv /\ Abstract!Init
<1>1. PICK q \in [Keys -> Seq(Slots)] : Good(q)
  BY InitGood
<1>2. StoreTypeOK
  BY InitGood
<1>3. job.op # "rebase" /\ base = 0 /\ level = NoLevels /\ Settled(q)
  BY <1>1 DEF Init, Idle, Good
<1>4. Fits(q)
  <2>1. Max(Prices) \in Nat /\ 0 \in 0 .. Max(Prices)
    BY PlaceNumbers
  <2> QED
    BY <1>1, <1>3, <2>1 DEF Fits, Behind, InRange
<1>5. ASSUME NEW side \in Side, NEW i \in Idx PROVE q[Old(side, i)] = <<>>
  <2>1. level[side][i].count = 0
    BY <1>3 DEF NoLevels, EmptyLevel
  <2>2. Len(q[Old(side, i)]) = 0
    BY <1>3, <2>1 DEF Settled, Whole
  <2>3. q[Old(side, i)] \in Seq(Slots)
    BY KeyCases
  <2> QED
    BY <2>2, <2>3
<1>6. lists = ListsOf(q, job, base)
  BY <1>2, <1>4, ListsAre
<1>7. ASSUME NEW sp \in Places PROVE lists[sp] = <<>>
  <2>1. lists[sp] = OldPart(q, base, sp[1], sp[2])
    BY <1>3, <1>6, SettledParts
  <2> QED
    BY <1>5, <2>1, PlaceNumbers DEF OldPart
<1>8. lists = [sp \in Places |-> <<>>]
  <2>1. lists = [sp \in Places |-> lists[sp]]
    BY <1>6 DEF ListsOf
  <2> QED
    BY <1>7, <2>1
<1> QED
  BY <1>2, <1>4, <1>8 DEF SInv, Abstract!Init, Places

LEMMA StoreInvariant == Spec => []SInv
<1>1. Init => SInv
  BY StoreStart
<1>2. SInv /\ [Next]_vars => SInv'
  BY StoreStep
<1> QED
  BY <1>1, <1>2, PTL DEF Spec

(* In every state of every loop the links are exact: outside a slide each  *)
(* level's record, its forward and its backward links agree on one list of *)
(* orders that name the level, and the free list is exactly the slots no   *)
(* order holds.  Nothing level_append, level_remove, allocate, deallocate, *)
(* a match or a slide does, in any order, breaks that (src/core/           *)
(* OrderBook.cpp and OrderPool in OrderBook.hpp).                          *)
THEOREM LinksStayExact == Spec => []LinksExact
<1>1. SInv => LinksExact
  BY GoodIsExact DEF SInv, Fits
<1> QED
  BY <1>1, StoreInvariant, PTL

(* Pool, links and walks implement one FIFO list per side and absolute     *)
(* price: an order joins at the end with a slot in no list, leaves from    *)
(* wherever it is with the others left in their order, and the match's     *)
(* and the slide's walks (match_against_asks/bids, rebase_base in          *)
(* src/core/OrderBook.cpp) change no list but by the orders they take out, *)
(* whichever level of the sliding window holds the list.                   *)
THEOREM ListsImplemented == Spec => ImplementsLists
<1>1. Init => Abstract!Init
  BY StoreStart
<1>2. SInv /\ [Next]_vars => [Abstract!Next]_lists
  BY StoreStep
<1> QED
  BY <1>1, <1>2, StoreInvariant, PTL DEF Spec, ImplementsLists, Abstract!Spec
=============================================================================
