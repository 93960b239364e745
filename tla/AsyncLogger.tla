---------------------------- MODULE AsyncLogger ----------------------------
(***************************************************************************)
(* The trade logger of src/logging/AsyncLogger.hpp, in the use every       *)
(* program of the repository makes of it: one thread (the controller)      *)
(* calls start, enqueues trades while it matches, and calls stop; the      *)
(* worker thread drains the ring into the file until running_ is cleared.  *)
(* After the join the controller itself is the ring's consumer.            *)
(*                                                                         *)
(* The ring is SPSCQueue: its Emplace steps are taken by the controller,   *)
(* its Pop steps by whoever drains.  A trade is its number in the order of *)
(* the calls of enqueue_trade; "received" is the file, row by row, since   *)
(* drain writes each trade it pops.                                        *)
(*                                                                         *)
(* A definition named X_Word, just before X, is a plausible slip in X; it  *)
(* is used only to check that the properties notice it.                    *)
(***************************************************************************)
EXTENDS SPSCQueue

CONSTANT Trades   \* number of trades the matching thread may report

ASSUME LoggerAssumption == Trades \in Nat /\ Items = 1 .. Trades

VARIABLES
  running,     \* running_
  dropped,     \* dropped_
  reported,    \* number of calls of enqueue_trade
  controller,  \* "idle", "trading", "joining", "draining", "closed"
  worker       \* "none", "polling", "draining", "exited"

ring    == vars
threads == <<running, controller, worker>>
allvars == <<ring, threads, dropped, reported>>

LoggerInit ==
  /\ Init
  /\ running = FALSE
  /\ dropped = 0 /\ reported = 0
  /\ controller = "idle"
  /\ worker = "none"

-----------------------------------------------------------------------------
(* The controller.                                                         *)

start ==
  /\ controller = "idle"
  /\ running' = TRUE
  /\ controller' = "trading"
  /\ worker' = "polling"
  /\ UNCHANGED <<ring, dropped, reported>>

enqueue_trade ==
  /\ controller = "trading"
  /\ reported < Trades
  /\ reported' = reported + 1
  /\ \/ /\ \/ EmplaceCached(reported + 1)
           \/ EmplaceRefreshed(reported + 1)
        /\ UNCHANGED dropped
     \/ EmplaceRefused /\ dropped' = dropped + 1
  /\ UNCHANGED threads

enqueue_trade_publish ==
  /\ controller = "trading"
  /\ EmplacePublish
  /\ UNCHANGED <<threads, dropped, reported>>

(* The first access of stop.  A second call, by the destructor, finds      *)
(* running_ cleared and returns.                                           *)
stop_NoClear ==
  /\ controller = "trading" /\ writing = NULL
  /\ controller' = "joining"
  /\ UNCHANGED <<ring, dropped, reported, worker, running>>
stop ==
  /\ controller = "trading" /\ writing = NULL
  /\ running' = FALSE
  /\ controller' = "joining"
  /\ UNCHANGED <<ring, dropped, reported, worker>>

join_Detached ==
  /\ controller = "joining"
  /\ controller' = "draining"
  /\ UNCHANGED <<ring, dropped, reported, worker, running>>
join ==
  /\ controller = "joining"
  /\ worker = "exited"
  /\ controller' = "draining"
  /\ UNCHANGED <<ring, dropped, reported, worker, running>>

(* One row: pop a trade and write it.                                      *)
PopRow == PopCached \/ PopRefreshed \/ PopRelease

final_drain ==
  /\ controller = "draining"
  /\ PopRow
  /\ UNCHANGED <<threads, dropped, reported>>

(* The final drain ends when pop finds the ring empty.  After the join the *)
(* controller sees all the worker did, and tail_ is its own store.         *)
close_AtOnce ==
  /\ controller = "draining"
  /\ controller' = "closed"
  /\ UNCHANGED <<ring, dropped, reported, worker, running>>
close ==
  /\ controller = "draining"
  /\ PopEmpty
  /\ head = tail
  /\ controller' = "closed"
  /\ UNCHANGED <<dropped, reported, worker, running>>

-----------------------------------------------------------------------------
(* The worker.                                                             *)

(* run: a load of running_ may still see the value before stop.            *)
worker_continues ==
  /\ worker = "polling"
  /\ worker' = "draining"
  /\ UNCHANGED <<ring, dropped, reported, running, controller>>

worker_exits_Unasked ==
  /\ worker = "polling"
  /\ worker' = "exited"
  /\ UNCHANGED <<ring, dropped, reported, running, controller>>
worker_exits ==
  /\ worker = "polling"
  /\ ~ running
  /\ worker' = "exited"
  /\ UNCHANGED <<ring, dropped, reported, running, controller>>

worker_drains ==
  /\ worker = "draining"
  /\ PopRow
  /\ UNCHANGED <<threads, dropped, reported>>

(* pop returns false; the sleep, if nothing was drained, is only a delay.  *)
worker_idles ==
  /\ worker = "draining"
  /\ PopEmpty
  /\ worker' = "polling"
  /\ UNCHANGED <<dropped, reported, running, controller>>

-----------------------------------------------------------------------------
Terminated == controller = "closed" /\ UNCHANGED allvars

LoggerNext ==
  \/ start \/ enqueue_trade \/ enqueue_trade_publish
  \/ stop \/ join \/ final_drain \/ close
  \/ worker_continues \/ worker_exits \/ worker_drains \/ worker_idles
  \/ Terminated

(* Both threads are scheduled.  The matching thread may go on for ever     *)
(* without a trade, so neither enqueue_trade nor stop is fair, only the    *)
(* steps of a call that has begun.  A store to an atomic becomes visible   *)
(* in finite time, so a worker that polls running_ again and again         *)
(* eventually sees that it was cleared (SF), and a pop that keeps finding  *)
(* nothing eventually sees the new tail_ (SF on worker_drains).            *)
Fairness ==
  /\ WF_allvars(enqueue_trade_publish)
  /\ WF_allvars(join) /\ WF_allvars(final_drain) /\ WF_allvars(close)
  /\ WF_allvars(worker_continues \/ worker_exits)
  /\ WF_allvars(worker_drains \/ worker_idles)
  /\ SF_allvars(worker_exits) /\ SF_allvars(worker_drains)

LoggerSpec == LoggerInit /\ [][LoggerNext]_allvars /\ Fairness

-----------------------------------------------------------------------------
LoggerTypeOK ==
  /\ TypeOK
  /\ running \in BOOLEAN
  /\ reported \in 0 .. Trades /\ dropped \in 0 .. Trades
  /\ controller \in {"idle", "trading", "joining", "draining", "closed"}
  /\ worker \in {"none", "polling", "draining", "exited"}

(* When stop returns, the file holds every trade the ring accepted, once   *)
(* and in the order of the calls, and all others are counted as dropped:   *)
(* whatever the worker had left, and whatever stale index made it leave    *)
(* it, the final drain finds.                                              *)
NothingLostAtClose ==
  controller = "closed" =>
    /\ received = sent
    /\ \A i, j \in DOMAIN received : i < j => received[i] < received[j]
    /\ reported = Len(received) + dropped

(* What enqueue_trade answers.  It accepts a trade only when fewer than    *)
(* Capacity accepted trades are unread at that moment, however old its     *)
(* copy of head_; and it drops one only when, by the newest head_ it has   *)
(* read, exactly Capacity are unread: no slot is wasted.  That reading may *)
(* itself be late (see DropsOnlyWhenFull).                                 *)
EnqueueAnswers ==
  [][/\ writing = NULL /\ writing' # NULL =>
          Len(sent) - Len(received) < Capacity
     /\ dropped' # dropped =>
          /\ head_cached' <= Len(received)
          /\ Len(sent) = head_cached' + Capacity]_allvars

(* The words of the comment at SPSCQueue.hpp:28, "genuinely full", and of  *)
(* README.md:192 taken literally: a trade is dropped only while the ring   *)
(* holds Capacity trades.  An acquire load may return a head_ that has     *)
(* been stored over since, so this is not what the code guarantees:        *)
(* MC_AsyncLogger_stale.cfg shows the drop.                                *)
DropsOnlyWhenFull == [][dropped' # dropped => tail - head >= Capacity]_allvars

(* "Consumer side - single reader thread only" (SPSCQueue.hpp:38): drain   *)
(* is called by both threads, and the join keeps their calls apart; a pop  *)
(* that is under way is never in the slot an emplace is storing.           *)
OneReader == ~ (worker \in {"polling", "draining"} /\ controller = "draining")
ThreadsApart == OneReader /\ NoRace

(* stop returns, however the worker was scheduled.                         *)
StopReturns == controller = "joining" ~> controller = "closed"

(* An accepted trade is written, also while the matching thread is quiet.  *)
AcceptedIsWritten ==
  \A n \in 1 .. Trades : Len(sent) >= n ~> Len(received) >= n
=============================================================================
