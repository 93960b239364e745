------------------------- MODULE AsyncLogger_proofs -------------------------
(***************************************************************************)
(* The ring keeps its promises for every capacity and every set of items,  *)
(* whatever stale index each side works with; and the logger built on it   *)
(* loses, repeats and reorders no trade it accepted, for every number of   *)
(* trades.  The ring's part speaks of its own specification, SPSCQueue.    *)
(***************************************************************************)
EXTENDS AsyncLogger, SequenceTheorems, TLAPS

-----------------------------------------------------------------------------
(* Arithmetic of the slots.                                                *)

LEMMA DivMod ==
  ASSUME NEW C \in Nat \ {0}, NEW a \in Nat
  PROVE  a = C * (a \div C) + (a % C) /\ a \div C \in Int /\ a % C \in 0 .. C - 1
BY SMTT(20)

LEMMA NoMultipleBetween ==
  ASSUME NEW C \in Nat \ {0}, NEW d \in Int, 0 < C * d, C * d < C
  PROVE  FALSE
<1>1. CASE d <= 0
  BY <1>1, SMTT(20)
<1>2. CASE d >= 1
  BY <1>2, SMTT(20)
<1> QED
  BY <1>1, <1>2

(* Two indices less than Capacity apart fall on different slots.           *)
LEMMA SlotsDiffer ==
  ASSUME NEW a \in Nat, NEW b \in Nat, a < b, b < a + Capacity
  PROVE  Slot(a) # Slot(b)
<1> SUFFICES ASSUME Slot(a) = Slot(b) PROVE FALSE
  OBVIOUS
<1> DEFINE qa == a \div Capacity
           qb == b \div Capacity
<1>1. Capacity \in Nat \ {0}
  BY QueueAssumption
<1>2. a = Capacity * qa + Slot(a) /\ qa \in Int /\ Slot(a) \in Int
  BY <1>1, DivMod DEF Slot
<1>3. b = Capacity * qb + Slot(b) /\ qb \in Int /\ Slot(b) \in Int
  BY <1>1, DivMod DEF Slot
<1> HIDE DEF qa, qb
<1>4. b - a = Capacity * (qb - qa)
  BY <1>1, <1>2, <1>3, SMTT(20)
<1>5. qb - qa \in Int /\ 0 < Capacity * (qb - qa) /\ Capacity * (qb - qa) < Capacity
  BY <1>1, <1>2, <1>3, <1>4
<1> QED
  BY <1>1, <1>5, NoMultipleBetween

LEMMA SlotType ==
  ASSUME NEW a \in Nat
  PROVE  Slot(a) \in 0 .. Capacity - 1
BY QueueAssumption, DivMod DEF Slot

-----------------------------------------------------------------------------
(* The inductive invariant: besides the order of the indices, an unread    *)
(* slot holds the item its index stands for, and a side that is inside a   *)
(* slot has established that the slot is its own.                          *)

UnreadStored == \A k \in head .. tail - 1 : buffer[Slot(k)] = sent[k + 1]

IInv ==
  /\ TypeOK
  /\ IndicesOrdered
  /\ Fifo
  /\ Len(sent) = tail
  /\ UnreadStored
  /\ writing # NULL => tail < head_cached + Capacity
  /\ reading => head < tail_cached_consumer

LEMMA InitIInv == Init => IInv
<1> SUFFICES ASSUME Init PROVE IInv
  OBVIOUS
<1>1. TypeOK
  BY EmptySeq DEF Init, TypeOK
<1>2. IndicesOrdered
  BY QueueAssumption DEF Init, IndicesOrdered
<1> QED
  BY <1>1, <1>2 DEF Init, IInv, Fifo, UnreadStored

(* emplace has claimed slot tail: nothing unread is stored there.          *)
LEMMA BeginWriteIInv ==
  ASSUME IInv, NEW item \in Items, writing = NULL, BeginWrite(item),
         NEW h \in head_cached .. head, head_cached' = h, ~ Full(h)
  PROVE  IInv'
<1> USE QueueAssumption
<1>1. Slot(tail) \in 0 .. Capacity - 1
  BY SlotType DEF IInv, TypeOK
<1>2. TypeOK'
  BY <1>1 DEF IInv, TypeOK, BeginWrite
<1>3. tail < h + Capacity /\ head_cached <= h /\ h <= head /\ h \in Nat
  BY DEF IInv, TypeOK, Full
<1>4. IndicesOrdered'
  BY <1>3 DEF IInv, TypeOK, IndicesOrdered, BeginWrite
<1>5. UnreadStored'
  <2> SUFFICES ASSUME NEW k \in head .. tail - 1
               PROVE  buffer'[Slot(k)] = sent[k + 1]
    BY DEF UnreadStored, BeginWrite
  <2>1. k \in Nat /\ k < tail /\ tail < k + Capacity
    BY <1>3 DEF IInv, TypeOK
  <2>2. Slot(k) # Slot(tail)
    BY <2>1, SlotsDiffer DEF IInv, TypeOK
  <2>3. Slot(k) \in 0 .. Capacity - 1
    BY <2>1, SlotType
  <2> QED
    BY <2>2, <2>3 DEF IInv, TypeOK, UnreadStored, BeginWrite
<1> QED
  BY <1>2, <1>3, <1>4, <1>5 DEF IInv, Fifo, BeginWrite

LEMMA PublishIInv == IInv /\ EmplacePublish => IInv'
<1> SUFFICES ASSUME IInv, EmplacePublish PROVE IInv'
  OBVIOUS
<1> USE QueueAssumption
<1>1. Slot(tail) \in 0 .. Capacity - 1 /\ writing \in Items
  BY SlotType DEF IInv, TypeOK, EmplacePublish
<1>2. TypeOK'
  BY <1>1 DEF IInv, TypeOK, EmplacePublish
<1>3. IndicesOrdered'
  BY DEF IInv, TypeOK, IndicesOrdered, EmplacePublish
<1>4. Len(sent') = tail' /\ sent'[tail + 1] = writing
      /\ \A k \in 1 .. tail : sent'[k] = sent[k]
  BY <1>1, AppendProperties DEF IInv, TypeOK, EmplacePublish
<1>5. Fifo'
  BY <1>1, <1>4 DEF IInv, TypeOK, IndicesOrdered, Fifo, EmplacePublish
<1>6. UnreadStored'
  <2> SUFFICES ASSUME NEW k \in head .. tail
               PROVE  buffer'[Slot(k)] = sent'[k + 1]
    BY DEF UnreadStored, EmplacePublish, IInv, TypeOK
  <2>1. CASE k = tail
    BY <2>1, <1>1, <1>4 DEF IInv, TypeOK, EmplacePublish
  <2>2. CASE k < tail
    <3>1. k \in Nat /\ tail < k + Capacity
      BY <2>2 DEF IInv, TypeOK, IndicesOrdered, EmplacePublish
    <3>2. Slot(k) # Slot(tail) /\ Slot(k) \in 0 .. Capacity - 1
      BY <3>1, <2>2, SlotsDiffer, SlotType DEF IInv, TypeOK
    <3>3. buffer'[Slot(k)] = buffer[Slot(k)]
      BY <3>2 DEF IInv, TypeOK, EmplacePublish
    <3> QED
      BY <3>1, <3>3, <2>2, <1>4 DEF IInv, TypeOK, UnreadStored
  <2> QED
    BY <2>1, <2>2 DEF IInv, TypeOK
<1> QED
  BY <1>2, <1>3, <1>4, <1>5, <1>6 DEF IInv, TypeOK, EmplacePublish

(* pop has found slot head stored; it releases it after the copy.          *)
LEMMA ReleaseIInv == IInv /\ PopRelease => IInv'
<1> SUFFICES ASSUME IInv, PopRelease PROVE IInv'
  OBVIOUS
<1> USE QueueAssumption
<1>1. head < tail /\ head \in 0 .. tail - 1
  BY DEF IInv, TypeOK, IndicesOrdered, PopRelease
<1>2. buffer[Slot(head)] = sent[head + 1] /\ sent[head + 1] \in Items
  BY <1>1 DEF IInv, TypeOK, UnreadStored
<1>3. TypeOK'
  <2>1. received' \in Seq(Items)
    BY <1>2, AppendProperties DEF IInv, TypeOK, PopRelease
  <2>2. head' \in Nat
    BY DEF IInv, TypeOK, PopRelease
  <2>3. reading' \in BOOLEAN
    BY Zenon DEF PopRelease
  <2> QED
    BY <2>1, <2>2, <2>3 DEF IInv, TypeOK, PopRelease
<1>4. IndicesOrdered'
  BY DEF IInv, TypeOK, IndicesOrdered, PopRelease
<1>5. Fifo'
  BY <1>1, <1>2 DEF IInv, TypeOK, Fifo, PopRelease
<1>6. UnreadStored'
  BY DEF IInv, TypeOK, UnreadStored, PopRelease
<1> QED
  BY <1>3, <1>4, <1>5, <1>6 DEF IInv, PopRelease

LEMMA NextIInv == IInv /\ [Next]_vars => IInv'
<1> SUFFICES ASSUME IInv, [Next]_vars PROVE IInv'
  OBVIOUS
<1> USE QueueAssumption
<1>1. ASSUME NEW item \in Items, EmplaceCached(item) PROVE IInv'
  BY <1>1, BeginWriteIInv DEF EmplaceCached, IInv, TypeOK, IndicesOrdered
<1>2. ASSUME NEW item \in Items, EmplaceRefreshed(item) PROVE IInv'
  <2>1. PICK h \in head_cached .. head : head_cached' = h
    BY <1>2 DEF EmplaceRefreshed
  <2>2. ~ Full(h)
    BY <1>2, <2>1 DEF EmplaceRefreshed, Full
  <2> QED
    BY <1>2, <2>1, <2>2, BeginWriteIInv DEF EmplaceRefreshed
<1>3. CASE EmplaceRefused
  <2>1. PICK h \in head_cached .. head : head_cached' = h
    BY <1>3 DEF EmplaceRefused
  <2>2. TypeOK'
    BY <1>3, <2>1 DEF IInv, TypeOK, EmplaceRefused
  <2>3. IndicesOrdered'
    BY <1>3, <2>1 DEF IInv, TypeOK, IndicesOrdered, EmplaceRefused
  <2> QED
    BY <1>3, <2>2, <2>3 DEF IInv, Fifo, UnreadStored, EmplaceRefused
<1>4. CASE EmplacePublish
  BY <1>4, PublishIInv
<1>5. CASE PopCached
  <2>1. TypeOK'
    BY <1>5 DEF IInv, TypeOK, PopCached
  <2>2. IndicesOrdered' /\ head' < tail_cached_consumer'
    BY <1>5 DEF IInv, TypeOK, IndicesOrdered, PopCached
  <2> QED
    BY <1>5, <2>1, <2>2 DEF IInv, Fifo, UnreadStored, PopCached
<1>6. CASE PopRefreshed
  <2>1. PICK t \in tail_cached_consumer .. tail :
          tail_cached_consumer' = t /\ head # t
    BY <1>6 DEF PopRefreshed
  <2>2. TypeOK'
    BY <1>6, <2>1 DEF IInv, TypeOK, PopRefreshed
  <2>3. IndicesOrdered' /\ head' < tail_cached_consumer'
    BY <1>6, <2>1 DEF IInv, TypeOK, IndicesOrdered, PopRefreshed
  <2> QED
    BY <1>6, <2>2, <2>3 DEF IInv, Fifo, UnreadStored, PopRefreshed
<1>7. CASE PopEmpty \/ UNCHANGED vars
  <2>1. UNCHANGED vars
    BY <1>7 DEF PopEmpty
  <2>2. TypeOK'
    BY <2>1 DEF IInv, TypeOK, vars
  <2> QED
    BY <2>1, <2>2 DEF IInv, IndicesOrdered, Fifo, UnreadStored, vars
<1>8. CASE PopRelease
  BY <1>8, ReleaseIInv
<1> QED
  BY <1>1, <1>2, <1>3, <1>4, <1>5, <1>6, <1>7, <1>8 DEF Next, Emplace, Pop

LEMMA Inductive == Spec => []IInv
BY InitIInv, NextIInv, PTL DEF Spec

-----------------------------------------------------------------------------
(* Every variable keeps its type; in particular pop (SPSCQueue::pop) never *)
(* returns the contents of a slot that is not completely stored.           *)
THEOREM TypeCorrect == Spec => []TypeOK
<1>1. IInv => TypeOK
  BY DEF IInv
<1> QED
  BY Inductive, <1>1, PTL

(* The cached copies of head_ and tail_ err only on the safe side.         *)
THEOREM IndicesStayOrdered == Spec => []IndicesOrdered
<1>1. IInv => IndicesOrdered
  BY DEF IInv
<1> QED
  BY Inductive, <1>1, PTL

(* What pop returns is the sequence of items emplace accepted: nothing is  *)
(* lost, repeated, reordered or overwritten.                               *)
THEOREM FifoOrder == Spec => []Fifo
<1>1. IInv => Fifo
  BY DEF IInv
<1> QED
  BY Inductive, <1>1, PTL

(* The plain accesses of emplace and pop to the slots never race.          *)
THEOREM NoDataRace == Spec => []NoRace
<1>1. IInv => NoRace
  <2> SUFFICES ASSUME IInv, writing # NULL, reading
               PROVE  Slot(head) # Slot(tail)
    BY DEF NoRace
  <2>1. head \in Nat /\ tail \in Nat /\ head < tail /\ tail < head + Capacity
    BY QueueAssumption DEF IInv, TypeOK, IndicesOrdered
  <2> QED
    BY <2>1, SlotsDiffer
<1> QED
  BY Inductive, <1>1, PTL

-----------------------------------------------------------------------------
(* The inductive invariant: that of the ring; what the calls of            *)
(* enqueue_trade have come to so far, one of them perhaps under way; and   *)
(* what each phase of the shutdown has established.                        *)

Accounted ==
  /\ reported = Len(sent) + dropped + (IF writing = NULL THEN 0 ELSE 1)
  /\ writing # NULL => writing = reported
  /\ \A k \in 1 .. Len(sent) : sent[k] <= reported
  /\ writing # NULL => \A k \in 1 .. Len(sent) : sent[k] < reported
  /\ \A j, k \in 1 .. Len(sent) : j < k => sent[j] < sent[k]

Phases ==
  /\ controller # "trading" => writing = NULL
  /\ controller \in {"draining", "closed"} => worker = "exited"
  /\ controller = "closed" => head = tail

LInv == IInv /\ LoggerTypeOK /\ Accounted /\ Phases

(* A trade is a number.                                                    *)
LEMMA TradesAreNumbers ==
  ASSUME NEW q \in Seq(Items), NEW k \in 1 .. Len(q)
  PROVE  q[k] \in Nat
<1>1. q[k] \in Items
  OBVIOUS
<1> QED
  BY <1>1, LoggerAssumption

LEMMA InitLInv == LoggerInit => LInv
<1> SUFFICES ASSUME LoggerInit PROVE LInv
  OBVIOUS
<1>1. IInv
  BY InitIInv DEF LoggerInit
<1>2. LoggerTypeOK
  <2>1. running \in BOOLEAN
    BY Zenon DEF LoggerInit
  <2> QED
    BY <1>1, <2>1, LoggerAssumption DEF LoggerInit, LoggerTypeOK, IInv
<1>3. Len(sent) = 0 /\ writing = NULL
  BY EmptySeq DEF LoggerInit, Init
<1>4. Accounted
  BY <1>3 DEF LoggerInit, Accounted
<1>5. Phases
  BY <1>3 DEF LoggerInit, Phases
<1> QED
  BY <1>1, <1>2, <1>4, <1>5 DEF LInv

-----------------------------------------------------------------------------
(* The logger uses the ring as the ring is specified.                      *)

LEMMA LoggerStepIsRingStep ==
  ASSUME reported \in Nat, [LoggerNext]_allvars
  PROVE  [Next]_vars
<1> USE DEF Next, Emplace, Pop
<1>1. CASE start \/ stop \/ join \/ worker_continues \/ worker_exits
           \/ Terminated \/ UNCHANGED allvars
  BY <1>1 DEF start, stop, join, worker_continues, worker_exits, Terminated,
              allvars, ring
<1>2. CASE enqueue_trade
  <2>1. reported + 1 \in Items
    BY <1>2, LoggerAssumption DEF enqueue_trade
  <2> QED
    BY <1>2, <2>1 DEF enqueue_trade
<1>3. CASE enqueue_trade_publish
  BY <1>3 DEF enqueue_trade_publish
<1>4. CASE final_drain \/ worker_drains
  BY <1>4 DEF final_drain, worker_drains, PopRow
<1>5. CASE close \/ worker_idles
  BY <1>5 DEF close, worker_idles
<1> QED
  BY <1>1, <1>2, <1>3, <1>4, <1>5 DEF LoggerNext

(* A call of enqueue_trade that claims a slot is under way ...             *)
LEMMA ClaimedLInv ==
  ASSUME LInv, IInv', controller = "trading", reported < Trades,
         reported' = reported + 1, writing = NULL,
         BeginWrite(reported + 1), UNCHANGED <<threads, dropped>>
  PROVE  LInv'
<1>1. /\ reported \in Nat /\ Trades \in Nat /\ dropped \in Nat
      /\ reported + 1 \in Items /\ Len(sent) \in Nat
  BY LoggerAssumption DEF LInv, IInv, TypeOK, LoggerTypeOK
<1>2. /\ sent' = sent /\ dropped' = dropped /\ head' = head /\ tail' = tail
      /\ controller' = controller /\ worker' = worker /\ running' = running
      /\ writing' = reported + 1 /\ writing' # NULL
  BY <1>1, QueueAssumption DEF BeginWrite, threads
<1>3. \A k \in 1 .. Len(sent) : sent[k] \in Nat /\ sent[k] <= reported
  <2>1. sent \in Seq(Items)
    BY DEF LInv, IInv, TypeOK
  <2>2. \A k \in 1 .. Len(sent) : sent[k] <= reported
    BY DEF LInv, Accounted
  <2> QED
    BY <2>1, <2>2, TradesAreNumbers
<1>4. LoggerTypeOK'
  BY <1>1, <1>2 DEF LInv, LoggerTypeOK, IInv
<1>5. Accounted'
  BY <1>1, <1>2, <1>3, QueueAssumption DEF LInv, Accounted
<1>6. Phases'
  BY <1>2 DEF LInv, Phases
<1> QED
  BY <1>4, <1>5, <1>6 DEF LInv

(* ... and one that finds the ring full is counted.                        *)
LEMMA RefusedLInv ==
  ASSUME LInv, IInv', controller = "trading", reported < Trades,
         reported' = reported + 1, dropped' = dropped + 1,
         EmplaceRefused, UNCHANGED threads
  PROVE  LInv'
<1>1. /\ reported \in Nat /\ Trades \in Nat /\ dropped \in Nat
      /\ Capacity \in Nat /\ Len(sent) \in Nat /\ Len(sent) = tail
  BY LoggerAssumption, QueueAssumption DEF LInv, IInv, TypeOK, LoggerTypeOK
<1>2. /\ sent' = sent /\ head' = head /\ tail' = tail
      /\ controller' = controller /\ worker' = worker /\ running' = running
      /\ writing' = NULL /\ writing = NULL
  BY DEF EmplaceRefused, threads
<1>3. \A k \in 1 .. Len(sent) : sent[k] \in Nat /\ sent[k] <= reported
  <2>1. sent \in Seq(Items)
    BY DEF LInv, IInv, TypeOK
  <2>2. \A k \in 1 .. Len(sent) : sent[k] <= reported
    BY DEF LInv, Accounted
  <2> QED
    BY <2>1, <2>2, TradesAreNumbers
<1>4. reported = Len(sent) + dropped
  <2>1. reported = Len(sent) + dropped + (IF writing = NULL THEN 0 ELSE 1)
    BY DEF LInv, Accounted
  <2> QED
    BY <1>1, <1>2, <2>1
<1>5. LoggerTypeOK'
  BY <1>1, <1>2, <1>4 DEF LInv, LoggerTypeOK, IInv
<1>6. Accounted'
  BY <1>1, <1>2, <1>3, <1>4 DEF LInv, Accounted
<1>7. Phases'
  BY <1>2 DEF LInv, Phases
<1> QED
  BY <1>5, <1>6, <1>7 DEF LInv

LEMMA PublishedLInv ==
  ASSUME LInv, IInv', enqueue_trade_publish
  PROVE  LInv'
<1>1. /\ reported \in Nat /\ dropped \in Nat /\ Len(sent) \in Nat
      /\ writing \in Items /\ writing # NULL /\ writing = reported
  BY DEF LInv, IInv, TypeOK, LoggerTypeOK, Accounted, enqueue_trade_publish,
         EmplacePublish
<1>2. /\ sent' = Append(sent, writing) /\ writing' = NULL
      /\ reported' = reported /\ dropped' = dropped
      /\ controller = "trading" /\ controller' = controller
      /\ worker' = worker /\ running' = running
  BY DEF enqueue_trade_publish, EmplacePublish, threads
<1>3. /\ Len(sent') = Len(sent) + 1 /\ sent'[Len(sent) + 1] = reported
      /\ \A k \in 1 .. Len(sent) : sent'[k] = sent[k]
  <2>1. sent \in Seq(Items)
    BY DEF LInv, IInv, TypeOK
  <2> QED
    BY <1>1, <1>2, <2>1, AppendProperties
<1>4. \A k \in 1 .. Len(sent) : sent[k] \in Nat /\ sent[k] < reported
  <2>1. sent \in Seq(Items)
    BY DEF LInv, IInv, TypeOK
  <2>2. \A k \in 1 .. Len(sent) : sent[k] < reported
    BY <1>1 DEF LInv, Accounted
  <2> QED
    BY <2>1, <2>2, TradesAreNumbers
<1>5. LoggerTypeOK'
  BY <1>2 DEF LInv, LoggerTypeOK, IInv
<1>6. Accounted'
  <2>1. reported = Len(sent) + dropped + 1
    BY <1>1 DEF LInv, Accounted
  <2>2. \A k \in 1 .. Len(sent') : sent'[k] <= reported
    BY <1>1, <1>3, <1>4
  <2>3. \A j, k \in 1 .. Len(sent') : j < k => sent'[j] < sent'[k]
    <3> SUFFICES ASSUME NEW j \in 1 .. Len(sent'), NEW k \in 1 .. Len(sent'), j < k
                 PROVE  sent'[j] < sent'[k]
      OBVIOUS
    <3>1. CASE k = Len(sent) + 1
      BY <3>1, <1>1, <1>3, <1>4
    <3>2. CASE k \in 1 .. Len(sent)
      BY <3>2, <1>1, <1>3 DEF LInv, Accounted
    <3> QED
      BY <3>1, <3>2, <1>1, <1>3
  <2> QED
    BY <1>1, <1>2, <1>3, <2>1, <2>2, <2>3
    DEF LInv, Accounted
<1>7. Phases'
  BY <1>2 DEF LInv, Phases
<1> QED
  BY <1>5, <1>6, <1>7 DEF LInv

(* The steps of either reader change neither the calls nor their count.    *)
LEMMA PoppedLInv ==
  ASSUME LInv, IInv', PopRow, UNCHANGED <<threads, dropped, reported>>,
         controller # "closed"
  PROVE  LInv'
<1>1. sent' = sent /\ writing' = writing
  BY DEF PopRow, PopCached, PopRefreshed, PopRelease
<1>2. LoggerTypeOK' /\ Accounted' /\ Phases'
  BY <1>1 DEF threads, LInv, LoggerTypeOK, IInv, Accounted, Phases
<1> QED
  BY <1>2 DEF LInv

(* The remaining steps leave the ring alone.                               *)
LEMMA ControlLInv ==
  ASSUME LInv, IInv', UNCHANGED <<ring, dropped, reported>>,
         LoggerTypeOK', Phases'
  PROVE  LInv'
<1>1. sent' = sent /\ writing' = writing
  BY DEF ring, vars
<1>2. Accounted'
  BY <1>1 DEF LInv, Accounted
<1> QED
  BY <1>2 DEF LInv

LEMMA LoggerNextLInv == LInv /\ [LoggerNext]_allvars => LInv'
<1> SUFFICES ASSUME LInv, [LoggerNext]_allvars PROVE LInv'
  OBVIOUS
<1>1. IInv'
  <2>1. reported \in Nat
    BY DEF LInv, LoggerTypeOK
  <2> QED
    BY <2>1, LoggerStepIsRingStep, NextIInv DEF LInv
<1>2. CASE enqueue_trade
  <2>1. CASE /\ \/ EmplaceCached(reported + 1)
                \/ EmplaceRefreshed(reported + 1)
             /\ UNCHANGED dropped
    <3>1. writing = NULL /\ BeginWrite(reported + 1)
      BY <2>1 DEF EmplaceCached, EmplaceRefreshed
    <3>2. UNCHANGED <<threads, dropped>>
      BY <1>2, <2>1 DEF enqueue_trade
    <3> QED
      BY <1>1, <1>2, <3>1, <3>2, ClaimedLInv DEF enqueue_trade
  <2>2. CASE EmplaceRefused /\ dropped' = dropped + 1
    BY <1>1, <1>2, <2>2, RefusedLInv DEF enqueue_trade
  <2> QED
    BY <1>2, <2>1, <2>2 DEF enqueue_trade
<1>3. CASE enqueue_trade_publish
  BY <1>1, <1>3, PublishedLInv
<1>4. CASE final_drain
  BY <1>1, <1>4, PoppedLInv DEF final_drain
<1>5. CASE worker_drains
  <2>1. controller # "closed"
    BY <1>5 DEF worker_drains, LInv, Phases
  <2> QED
    BY <1>1, <1>5, <2>1, PoppedLInv DEF worker_drains
<1>6. ASSUME start \/ stop \/ join \/ close \/ worker_continues \/ worker_exits
             \/ worker_idles \/ UNCHANGED allvars
      PROVE  LInv'
  <2>1. UNCHANGED <<ring, dropped, reported>>
    BY <1>6 DEF start, stop, join, close, worker_continues, worker_exits,
                worker_idles, PopEmpty, allvars, ring
  <2>2. head' = head /\ tail' = tail /\ writing' = writing
    BY <2>1 DEF ring, vars
  <2>3. LoggerTypeOK'
    BY <1>1, <1>6, <2>1 DEF LInv, LoggerTypeOK, IInv, start, stop, join, close,
             worker_continues, worker_exits, worker_idles, allvars, threads
  <2>4. Phases'
    BY <1>6, <2>2 DEF LInv, Phases, start, stop, join, close,
             worker_continues, worker_exits, worker_idles, allvars, threads
  <2> QED
    BY <1>1, <2>1, <2>3, <2>4, ControlLInv
<1> QED
  BY <1>2, <1>3, <1>4, <1>5, <1>6 DEF LoggerNext, Terminated

LEMMA LoggerInductive == LoggerSpec => []LInv
BY InitLInv, LoggerNextLInv, PTL DEF LoggerSpec

-----------------------------------------------------------------------------
(* The states of logger and threads keep their types, and dropped_ never   *)
(* counts more than was reported (AsyncLogger::enqueue_trade).             *)
THEOREM LoggerTypeCorrect == LoggerSpec => []LoggerTypeOK
<1>1. LInv => LoggerTypeOK
  BY DEF LInv
<1> QED
  BY LoggerInductive, <1>1, PTL

(* The file is what enqueue_trade accepted, in the order of the calls and  *)
(* each trade once, at every moment of the run (AsyncLogger::drain).       *)
THEOREM FileInOrder == LoggerSpec => []Fifo
<1>1. LInv => Fifo
  BY DEF LInv, IInv
<1> QED
  BY LoggerInductive, <1>1, PTL

(* Worker and controller never drain at once, and a pop never copies the   *)
(* slot that enqueue_trade is storing (AsyncLogger::stop, drain).          *)
THEOREM ThreadsStayApart == LoggerSpec => []ThreadsApart
<1>1. LInv => OneReader
  BY DEF LInv, Phases, OneReader
<1>2. IInv => NoRace
  <2> SUFFICES ASSUME IInv, writing # NULL, reading
               PROVE  Slot(head) # Slot(tail)
    BY DEF NoRace
  <2>1. head \in Nat /\ tail \in Nat /\ head < tail /\ tail < head + Capacity
    BY QueueAssumption DEF IInv, TypeOK, IndicesOrdered
  <2> QED
    BY <2>1, SlotsDiffer
<1>3. LInv => ThreadsApart
  BY <1>1, <1>2 DEF ThreadsApart, LInv
<1> QED
  BY LoggerInductive, <1>3, PTL

(* When stop has returned, the file holds every accepted trade, once and   *)
(* in order, and dropped_ accounts for all others (AsyncLogger::stop).     *)
THEOREM NothingIsLost == LoggerSpec => []NothingLostAtClose
<1>1. LInv => NothingLostAtClose
  <2> SUFFICES ASSUME LInv, controller = "closed"
               PROVE  /\ received = sent
                      /\ \A i, j \in DOMAIN received : i < j => received[i] < received[j]
                      /\ reported = Len(received) + dropped
    BY DEF NothingLostAtClose
  <2>1. writing = NULL /\ head = tail /\ Len(sent) = tail /\ sent \in Seq(Items)
    BY DEF LInv, Phases, IInv, TypeOK
  <2>2. received = sent
    BY <2>1 DEF LInv, IInv, Fifo
  <2>3. DOMAIN received = 1 .. Len(sent)
    BY <2>1, <2>2
  <2> QED
    BY <2>1, <2>2, <2>3 DEF LInv, Accounted, LoggerTypeOK
<1> QED
  BY LoggerInductive, <1>1, PTL

(* The file holds one row for each step of head_.                          *)
LEMMA RowsAreHead == IInv => Len(received) = head /\ Len(sent) = tail
<1> SUFFICES ASSUME IInv PROVE Len(received) = head /\ Len(sent) = tail
  OBVIOUS
<1>1. /\ sent \in Seq(Items) /\ Len(sent) = tail /\ head \in Nat /\ tail \in Nat
      /\ head <= tail /\ received = SubSeq(sent, 1, head)
  BY DEF IInv, TypeOK, IndicesOrdered, Fifo
<1>2. Len(SubSeq(sent, 1, head)) = head
  BY <1>1, SubSeqProperties
<1> QED
  BY <1>1, <1>2

(* A trade is accepted only into a ring with a free slot, and dropped only *)
(* when the newest head_ that enqueue_trade has read leaves exactly        *)
(* Capacity accepted trades unread (AsyncLogger::enqueue_trade,            *)
(* SPSCQueue::emplace).                                                    *)
THEOREM EnqueueAnswersRight == LoggerSpec => EnqueueAnswers
<1> DEFINE Accepts == writing = NULL /\ writing' # NULL
           Room    == Len(sent) - Len(received) < Capacity
           Drops   == dropped' # dropped
           Spent   == /\ head_cached' <= Len(received)
                      /\ Len(sent) = head_cached' + Capacity
<1>1. ASSUME LInv, LoggerNext PROVE (Accepts => Room) /\ (Drops => Spent)
  <2>1. /\ Len(received) = head /\ Len(sent) = tail /\ Capacity \in Nat
        /\ head \in Nat /\ tail \in Nat /\ head_cached \in Nat
        /\ head_cached <= head /\ tail <= head_cached + Capacity
    BY <1>1, RowsAreHead, QueueAssumption
    DEF LInv, IInv, TypeOK, IndicesOrdered
  <2>2. CASE enqueue_trade
    <3>1. CASE EmplaceCached(reported + 1) /\ UNCHANGED dropped
      BY <2>1, <3>1 DEF EmplaceCached, Full
    <3>2. CASE EmplaceRefreshed(reported + 1) /\ UNCHANGED dropped
      <4>1. PICK h \in head_cached .. head : head_cached' = h
        BY <3>2 DEF EmplaceRefreshed
      <4>2. tail - h < Capacity
        BY <2>1, <3>2, <4>1 DEF EmplaceRefreshed, Full
      <4> QED
        BY <2>1, <3>2, <4>1, <4>2
    <3>3. CASE EmplaceRefused
      <4>1. PICK h \in head_cached .. head : head_cached' = h
        BY <3>3 DEF EmplaceRefused
      <4>2. tail - h >= Capacity /\ writing' = NULL
        BY <2>1, <3>3, <4>1 DEF EmplaceRefused, Full
      <4> QED
        BY <2>1, <4>1, <4>2
    <3> QED
      BY <2>2, <3>1, <3>2, <3>3 DEF enqueue_trade
  <2>3. CASE ~ enqueue_trade
    <3>1. dropped' = dropped
      BY <1>1, <2>3 DEF LoggerNext, start, enqueue_trade_publish, stop, join,
            final_drain, close, worker_continues, worker_exits, worker_drains,
            worker_idles, Terminated, allvars
    <3>2. writing' = writing \/ writing' = NULL
      BY <1>1, <2>3 DEF LoggerNext, start, enqueue_trade_publish, stop, join,
            final_drain, close, worker_continues, worker_exits, worker_drains,
            worker_idles, Terminated, allvars, ring, vars, EmplacePublish,
            PopRow, PopCached, PopRefreshed, PopRelease, PopEmpty
    <3> QED
      BY <3>1, <3>2
  <2> QED
    BY <2>2, <2>3
<1>2. LInv /\ [LoggerNext]_allvars =>
        [(Accepts => Room) /\ (Drops => Spent)]_allvars
  BY <1>1
<1> QED
  BY <1>2, LoggerInductive, PTL DEF LoggerSpec, EnqueueAnswers
=============================================================================
