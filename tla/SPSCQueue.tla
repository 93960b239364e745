----------------------------- MODULE SPSCQueue -----------------------------
(***************************************************************************)
(* The single-producer single-consumer ring of src/logging/SPSCQueue.hpp.  *)
(* An emplace or pop is broken into its accesses to shared memory: the     *)
(* load of the opposite index, the access to the slot (from its first to   *)
(* its last byte) and the releasing store of the own index.                *)
(*                                                                         *)
(* head and tail are the last values stored to head_ and tail_.  A load    *)
(* with acquire order by the other thread returns that value or an earlier *)
(* one that it has not seen superseded, never one older than its cached    *)
(* copy.  tail_cached_ and head_cached_consumer_ are the owning thread's   *)
(* copies of its own index and always equal tail and head.  The indices    *)
(* are 64 bits wide and do not wrap in the life of a process.              *)
(*                                                                         *)
(* A definition named X_Word, just before X, is a plausible slip in X; it  *)
(* is used only to check that the properties notice it.                    *)
(***************************************************************************)
EXTENDS Integers, Sequences

CONSTANTS
  Items,     \* what is passed through the queue
  Capacity,  \* number of slots
  NULL,      \* no emplace is storing a slot
  TORN       \* contents of a slot that is being written

ASSUME QueueAssumption ==
  /\ Capacity \in Nat \ {0}
  /\ NULL \notin Items /\ TORN \notin Items

VARIABLES
  head, tail,
  head_cached,           \* the producer's copy of head_
  tail_cached_consumer,  \* the consumer's copy of tail_
  buffer,                \* slot -> contents
  writing,               \* item the producer is storing in slot tail, or NULL
  reading,               \* the consumer is copying slot head
  sent, received         \* history: items accepted by emplace, returned by pop

vars == <<head, tail, head_cached, tail_cached_consumer, buffer, writing,
          reading, sent, received>>

Slot(index) == index % Capacity

Init ==
  /\ head = 0 /\ tail = 0
  /\ head_cached = 0 /\ tail_cached_consumer = 0
  /\ buffer = [i \in 0 .. Capacity - 1 |-> TORN]
  /\ writing = NULL /\ reading = FALSE
  /\ sent = <<>> /\ received = <<>>

-----------------------------------------------------------------------------
(* emplace, by the producer.                                               *)

Full_OneSlotLess(h) == tail - h >= Capacity - 1
Full_OffByOne(h) == tail - h > Capacity
Full(h) == tail - h >= Capacity

BeginWrite(item) ==
  /\ writing' = item
  /\ buffer' = [buffer EXCEPT ![Slot(tail)] = TORN]
  /\ UNCHANGED <<head, tail, tail_cached_consumer, reading, sent, received>>

EmplaceCached(item) ==
  /\ writing = NULL
  /\ ~ Full(head_cached)
  /\ BeginWrite(item)
  /\ UNCHANGED head_cached

EmplaceRefreshed(item) ==
  /\ writing = NULL
  /\ Full(head_cached)
  /\ head_cached' \in head_cached .. head
  /\ ~ Full(head_cached')
  /\ BeginWrite(item)

(* emplace returns false.                                                  *)
EmplaceRefused ==
  /\ writing = NULL
  /\ Full(head_cached)
  /\ head_cached' \in head_cached .. head
  /\ Full(head_cached')
  /\ UNCHANGED <<head, tail, tail_cached_consumer, buffer, writing, reading,
                 sent, received>>

(* The slot is stored and then tail_ is released; emplace returns true.    *)
EmplacePublish ==
  /\ writing # NULL
  /\ buffer' = [buffer EXCEPT ![Slot(tail)] = writing]
  /\ tail' = tail + 1
  /\ writing' = NULL
  /\ sent' = Append(sent, writing)
  /\ UNCHANGED <<head, head_cached, tail_cached_consumer, reading, received>>

-----------------------------------------------------------------------------
(* pop, by the consumer.                                                   *)

PopCached ==
  /\ ~ reading
  /\ head # tail_cached_consumer
  /\ reading' = TRUE
  /\ UNCHANGED <<head, tail, head_cached, tail_cached_consumer, buffer,
                 writing, sent, received>>

PopRefreshed ==
  /\ ~ reading
  /\ head = tail_cached_consumer
  /\ tail_cached_consumer' \in tail_cached_consumer .. tail
  /\ head # tail_cached_consumer'
  /\ reading' = TRUE
  /\ UNCHANGED <<head, tail, head_cached, buffer, writing, sent, received>>

(* pop returns false: the load of tail_ saw nothing new.                   *)
PopEmpty ==
  /\ ~ reading
  /\ head = tail_cached_consumer
  /\ UNCHANGED vars

(* The slot is copied and then head_ is released; pop returns true.        *)
PopRelease ==
  /\ reading
  /\ received' = Append(received, buffer[Slot(head)])
  /\ head' = head + 1
  /\ reading' = FALSE
  /\ UNCHANGED <<tail, head_cached, tail_cached_consumer, buffer, writing, sent>>

-----------------------------------------------------------------------------
Emplace ==
  \/ \E item \in Items : EmplaceCached(item) \/ EmplaceRefreshed(item)
  \/ EmplaceRefused
  \/ EmplacePublish

Pop == PopCached \/ PopRefreshed \/ PopEmpty \/ PopRelease

Next == Emplace \/ Pop

Spec == Init /\ [][Next]_vars

-----------------------------------------------------------------------------
(* In particular no pop returns a slot that was not stored completely.     *)
TypeOK ==
  /\ head \in Nat /\ tail \in Nat
  /\ head_cached \in Nat /\ tail_cached_consumer \in Nat
  /\ buffer \in [0 .. Capacity - 1 -> Items \union {TORN}]
  /\ writing \in Items \union {NULL}
  /\ reading \in BOOLEAN
  /\ sent \in Seq(Items)
  /\ received \in Seq(Items)

(* The stale copies are on the safe side of the true indices: the producer *)
(* believes the ring at least as full as it is, the consumer at most.      *)
IndicesOrdered ==
  /\ head_cached <= head
  /\ head <= tail_cached_consumer
  /\ tail_cached_consumer <= tail
  /\ tail <= head_cached + Capacity

(* The comment "touched only by the writer thread / reader thread" covers  *)
(* the indices; the slots are shared.  The producer never stores a slot    *)
(* the consumer is copying: the plain accesses do not race.                *)
NoRace == writing # NULL /\ reading => Slot(head) # Slot(tail)

(* What pop returns is what emplace accepted, in order, each item once and *)
(* whole.                                                                  *)
Fifo == received = SubSeq(sent, 1, head)
=============================================================================
