------------------------------ MODULE TimerQueue ------------------------------
(***************************************************************************)
(* The timer queue of the POSIX backend (base/threading_timer_queue.cc):   *)
(* one dispatch thread runs the callbacks of all timers.  A thread hands   *)
(* a wait item over through a ring buffer; the dispatch thread moves it to *)
(* its own wait queue, sorted by due time.  Disarm() meets the dispatch    *)
(* thread only in the item's atomic state_.                                *)
(*                                                                         *)
(* The ring buffer is disruptorplus: a slot is claimed, written, then      *)
(* published, and the dispatch thread sees the slots up to the first one   *)
(* not published yet.  wait_queue_ is a set: what its sorting is for is    *)
(* that its front is one of the earliest items.                            *)
(***************************************************************************)
EXTENDS Integers, Sequences, FiniteSets

CONSTANTS Item,         \* wait items; each is queued once
          Kick,         \* the item that ~TimerQueue queues
          NoItem,
          Interval,     \* interval_ of each item, 0 when it does not recur
          Client,       \* threads that queue and disarm
          Dispatcher,   \* dispatch_thread_: a client while it runs a callback
          Capacity,     \* kWaitCount
          MaxTime,      \* bound on the clock and on the due times asked for
          DisarmTwice   \* a callback may disarm its own item more than once

ASSUME ItemAssumption == Kick \in Item /\ NoItem \notin Item /\ IsFiniteSet(Item)
ASSUME IntervalAssumption == Interval \in [Item -> Nat]
ASSUME ClientAssumption == Dispatcher \in Client
ASSUME BoundAssumption == Capacity \in Nat \ {0} /\ MaxTime \in Nat
ASSUME TwiceAssumption == DisarmTwice \in BOOLEAN

VARIABLES
  now,        \* the steady clock
  itemState,  \* state_ of each item
  due,        \* due_ of each item
  ring,       \* claimed slots of buffer_ that were not consumed
  published,  \* items in slots that are published
  queued,     \* wait_queue_
  again,      \* recurring items called in this pass (the second wait_items)
  cur,        \* the item the dispatch thread has popped
  dpc,        \* where the dispatch thread is
  pc, arg,    \* what each client is doing, and with which item
  stopped,    \* items for which a Disarm() has returned
  shutdown    \* ~TimerQueue: "no", "flag" (shutdown_ stored), "kicked"

clientVars == <<pc, arg>>
queueVars == <<ring, published, queued, again>>
vars == <<now, itemState, due, queueVars, cur, dpc, clientVars, stopped, shutdown>>

ItemStates == {"none", "idle", "inCallback", "selfDisarmed", "disarmed"}

DPCs == {"head",      \* about to test shutdown_
         "wait",      \* in wait_until_published
         "fire",      \* popping the items that are due
         "callback",  \* in the callback of cur
         "test",      \* about to read interval_ and state_
         "rearm", "retire",
         "exited"}

PCs == {"out", "claim", "publish", "disarm"}

Init == /\ now = 0
        /\ itemState = [i \in Item |-> "none"]
        /\ due = [i \in Item |-> 0]
        /\ ring = <<>> /\ published = {}
        /\ queued = {} /\ again = {}
        /\ cur = NoItem /\ dpc = "head"
        /\ pc = [c \in Client |-> "out"]
        /\ arg = [c \in Client |-> NoItem]
        /\ stopped = {}
        /\ shutdown = "no"

Tick == /\ now < MaxTime
        /\ now' = now + 1
        /\ UNCHANGED <<itemState, due, queueVars, cur, dpc, clientVars, stopped, shutdown>>
------------------------------------------------------------------------------
(* QueueTimer *)

\* The dispatch thread is a client from within a callback only.
Free(c) == pc[c] = "out" /\ (c = Dispatcher => dpc = "callback")

Goto(c, to) == pc' = [pc EXCEPT ![c] = to]

\* A new item.  Its due time is not left further behind than one interval.
Create(c, i, asked) ==
  /\ Free(c)
  /\ i # Kick /\ itemState[i] = "none"
  /\ itemState' = [itemState EXCEPT ![i] = "idle"]
  /\ due' = [due EXCEPT ![i] = IF asked > now - Interval[i] THEN asked
                               ELSE now - Interval[i]]
  /\ Goto(c, "claim")
  /\ arg' = [arg EXCEPT ![c] = i]
  /\ UNCHANGED <<now, queueVars, cur, dpc, stopped, shutdown>>

\* claim_one waits while the ring is full.
Claim(c) ==
  /\ pc[c] = "claim"
  /\ Len(ring) < Capacity
  /\ ring' = Append(ring, arg[c])
  /\ Goto(c, "publish")
  /\ UNCHANGED <<now, itemState, due, published, queued, again, cur, dpc, arg,
                 stopped, shutdown>>

Publish(c) ==
  /\ pc[c] = "publish"
  /\ published' = published \cup {arg[c]}
  /\ Goto(c, "out")
  /\ UNCHANGED <<now, itemState, due, ring, queued, again, cur, dpc, arg, stopped,
                 shutdown>>
------------------------------------------------------------------------------
(* TimerQueueWaitItem::Disarm *)

\* QueueTimer has returned the weak pointer to i.  Once that has expired the
\* item is disarmed, and a caller that finds it expired does the same nothing.
Returned(i) ==
  /\ i # Kick /\ itemState[i] # "none"
  /\ \A c \in Client : pc[c] \in {"claim", "publish"} => arg[c] # i

Disarm(c, i) ==
  /\ Free(c)
  /\ Returned(i)
  /\ c = Dispatcher /\ itemState[i] = "selfDisarmed" => DisarmTwice
  /\ Goto(c, "disarm")
  /\ arg' = [arg EXCEPT ![c] = i]
  /\ UNCHANGED <<now, itemState, due, queueVars, cur, dpc, stopped, shutdown>>

\* The special case of the dispatch thread.
DisarmSelf(c) ==
  /\ pc[c] = "disarm" /\ c = Dispatcher
  /\ itemState[arg[c]] = "inCallback"
  /\ itemState' = [itemState EXCEPT ![arg[c]] = "selfDisarmed"]
  /\ Goto(c, "out")
  /\ UNCHANGED <<now, due, queueVars, cur, dpc, arg, stopped, shutdown>>

\* Mutant: returns while the callback of a self-disarmed item is running.
DisarmCas_BreaksEarly(c) ==
  /\ pc[c] = "disarm"
  /\ itemState[arg[c]] \in {"idle", "disarmed", "selfDisarmed"}
  /\ itemState' = [itemState EXCEPT ![arg[c]] =
                     IF @ = "idle" THEN "disarmed" ELSE @]
  /\ stopped' = stopped \cup {arg[c]}
  /\ Goto(c, "out")
  /\ UNCHANGED <<now, due, queueVars, cur, dpc, arg, shutdown>>

\* The compare-exchange that ends the spin loop, or finds kDisarmed; in the
\* other states the loop goes round.
DisarmCas(c) ==
  /\ pc[c] = "disarm"
  /\ itemState[arg[c]] \in {"idle", "disarmed"}
  /\ itemState' = [itemState EXCEPT ![arg[c]] = "disarmed"]
  /\ stopped' = stopped \cup {arg[c]}
  /\ Goto(c, "out")
  /\ UNCHANGED <<now, due, queueVars, cur, dpc, arg, shutdown>>
------------------------------------------------------------------------------
(* TimerThreadMain *)

LoopTest ==
  /\ dpc = "head"
  /\ dpc' = IF shutdown = "no" THEN "wait" ELSE "exited"
  /\ UNCHANGED <<now, itemState, due, queueVars, cur, clientVars, stopped, shutdown>>

\* The first n slots are published, and the next one is not.
Available(n) == /\ \A k \in 1..n : ring[k] \in published
                /\ n < Len(ring) => ring[n + 1] \notin published

Slots(n) == {ring[k] : k \in 1..n}

Consume ==
  /\ dpc = "wait"
  /\ \E n \in 1..Len(ring) :
       /\ Available(n)
       /\ queued' = queued \cup Slots(n)
       /\ published' = published \ Slots(n)
       /\ ring' = SubSeq(ring, n + 1, Len(ring))
  /\ dpc' = "fire"
  /\ UNCHANGED <<now, itemState, due, again, cur, clientVars, stopped, shutdown>>

\* Items at the front of wait_queue_ that are due.
Front == {i \in queued : due[i] =< now /\ \A j \in queued : due[i] =< due[j]}

\* Mutant: waits for a new item only, without a deadline.
Timeout_Never ==
  /\ dpc = "wait" /\ ~Available(0) /\ Front # {}
  /\ dpc' = "fire"
  /\ UNCHANGED <<now, itemState, due, queueVars, cur, clientVars, stopped, shutdown>>

Timeout ==
  /\ dpc = "wait"
  /\ Available(0) /\ Front # {}
  /\ dpc' = "fire"
  /\ UNCHANGED <<now, itemState, due, queueVars, cur, clientVars, stopped, shutdown>>

\* Pops an item and calls it; the assertion is that one it does not call is
\* disarmed.
Fire ==
  /\ dpc = "fire"
  /\ \E i \in Front :
       /\ queued' = queued \ {i}
       /\ \/ /\ itemState[i] = "idle"
             /\ itemState' = [itemState EXCEPT ![i] = "inCallback"]
             /\ cur' = i
             /\ dpc' = "callback"
          \/ /\ itemState[i] # "idle"
             /\ UNCHANGED <<itemState, cur, dpc>>
  /\ UNCHANGED <<now, due, ring, published, again, clientVars, stopped, shutdown>>

\* Mutant: the items to be called again are left behind.
FireDone_Drops ==
  /\ dpc = "fire" /\ Front = {}
  /\ again' = {}
  /\ dpc' = "head"
  /\ UNCHANGED <<now, itemState, due, ring, published, queued, cur, clientVars,
                 stopped, shutdown>>

FireDone ==
  /\ dpc = "fire" /\ Front = {}
  /\ queued' = queued \cup again
  /\ again' = {}
  /\ dpc' = "head"
  /\ UNCHANGED <<now, itemState, due, ring, published, cur, clientVars, stopped, shutdown>>

CallbackReturns ==
  /\ dpc = "callback" /\ pc[Dispatcher] = "out"
  /\ dpc' = "test"
  /\ UNCHANGED <<now, itemState, due, queueVars, cur, clientVars, stopped, shutdown>>

\* Mutant: a recurring item is armed again although its callback disarmed it.
Test_IgnoresDisarm ==
  /\ dpc = "test"
  /\ dpc' = IF Interval[cur] # 0 THEN "rearm" ELSE "retire"
  /\ UNCHANGED <<now, itemState, due, queueVars, cur, clientVars, stopped, shutdown>>

Test ==
  /\ dpc = "test"
  /\ dpc' = IF Interval[cur] # 0 /\ itemState[cur] # "selfDisarmed"
            THEN "rearm" ELSE "retire"
  /\ UNCHANGED <<now, itemState, due, queueVars, cur, clientVars, stopped, shutdown>>

Rearm ==
  /\ dpc = "rearm"
  /\ due' = [due EXCEPT ![cur] = @ + Interval[cur]]
  /\ itemState' = [itemState EXCEPT ![cur] = "idle"]
  /\ again' = again \cup {cur}
  /\ cur' = NoItem
  /\ dpc' = "fire"
  /\ UNCHANGED <<now, ring, published, queued, clientVars, stopped, shutdown>>

\* Mutant: a one-shot item is left in the state of its callback.
Retire_KeepsState ==
  /\ dpc = "retire"
  /\ cur' = NoItem
  /\ dpc' = "fire"
  /\ UNCHANGED <<now, itemState, due, queueVars, clientVars, stopped, shutdown>>

Retire ==
  /\ dpc = "retire"
  /\ itemState' = [itemState EXCEPT ![cur] = "disarmed"]
  /\ cur' = NoItem
  /\ dpc' = "fire"
  /\ UNCHANGED <<now, due, queueVars, clientVars, stopped, shutdown>>
------------------------------------------------------------------------------
(* ~TimerQueue *)

Shutdown ==
  /\ shutdown = "no"
  /\ shutdown' = "flag"
  /\ UNCHANGED <<now, itemState, due, queueVars, cur, dpc, clientVars, stopped>>

\* Mutant: joins the dispatch thread without waking it.
ShutdownKick_NoItem ==
  /\ shutdown = "flag"
  /\ shutdown' = "kicked"
  /\ UNCHANGED <<now, itemState, due, queueVars, cur, dpc, clientVars, stopped>>

\* An item that is disarmed before it is queued, due at the beginning of time.
ShutdownKick ==
  /\ shutdown = "flag"
  /\ Len(ring) < Capacity
  /\ shutdown' = "kicked"
  /\ itemState' = [itemState EXCEPT ![Kick] = "disarmed"]
  /\ ring' = Append(ring, Kick)
  /\ published' = published \cup {Kick}
  /\ UNCHANGED <<now, due, queued, again, cur, dpc, clientVars, stopped>>
------------------------------------------------------------------------------
ClientStep(c) == Claim(c) \/ Publish(c) \/ DisarmSelf(c) \/ DisarmCas(c)

DispatchStep == \/ LoopTest \/ Consume \/ Timeout \/ Fire \/ FireDone
                \/ CallbackReturns \/ Test \/ Rearm \/ Retire

Next == \/ Tick \/ DispatchStep \/ Shutdown \/ ShutdownKick
        \/ \E c \in Client :
             \/ ClientStep(c)
             \/ \E i \in Item : \/ Disarm(c, i)
                                \/ \E asked \in 0..MaxTime : Create(c, i, asked)

Spec == Init /\ [][Next]_vars

(* The dispatch thread runs, callbacks return (the header asks for short   *)
(* ones), and so do calls.  The spin loop of Disarm() sees a recurring     *)
(* item between two callbacks in the end.                                  *)
Fairness == /\ WF_vars(DispatchStep) /\ SF_vars(CallbackReturns)
            /\ WF_vars(ShutdownKick)
            /\ \A c \in Client : SF_vars(ClientStep(c))

FairSpec == Spec /\ Fairness
------------------------------------------------------------------------------
TypeOK == /\ now \in Nat
          /\ itemState \in [Item -> ItemStates]
          /\ due \in [Item -> Int]
          /\ ring \in Seq(Item) /\ Len(ring) =< Capacity
          /\ published \subseteq Item
          /\ queued \subseteq Item /\ again \subseteq Item
          /\ cur \in Item \cup {NoItem}
          /\ dpc \in DPCs
          /\ pc \in [Client -> PCs]
          /\ arg \in [Client -> Item \cup {NoItem}]
          /\ stopped \subseteq Item
          /\ shutdown \in {"no", "flag", "kicked"}

(* threading_timer_queue.h:40 "No callbacks will be running after this     *)
(* call": once a Disarm() has returned, other than from the item's own     *)
(* callback, that callback is not running and never will be again.         *)
DisarmStops ==
  \A i \in stopped : itemState[i] = "disarmed" /\ (dpc = "callback" => cur # i)

(* threading_timer_queue.cc:138, the assertion of the dispatch thread: an  *)
(* item it pops and may not call is disarmed; no second callback of an     *)
(* item starts while one is running.                                       *)
PoppedIsIdleOrDisarmed ==
  dpc = "fire" => \A i \in Front : itemState[i] \in {"idle", "disarmed"}

One(P) == IF P THEN 1 ELSE 0

Places(i) == Cardinality({c \in Client : pc[c] = "claim" /\ arg[c] = i})
           + Cardinality({k \in DOMAIN ring : ring[k] = i})
           + One(i \in queued) + One(i \in again) + One(cur = i)

(* No timer is lost or doubled on its way from the caller through the ring *)
(* to the wait queue and through the callback back to it.                  *)
Placed ==
  \A i \in Item :
    /\ Places(i) =< 1
    /\ itemState[i] \in {"idle", "inCallback", "selfDisarmed"} => Places(i) = 1

(* An item disarmed from its own callback or by another thread is never    *)
(* armed again, not even by the dispatch thread that is about to requeue   *)
(* it (TimerThreadMain 124-135).                                           *)
DisarmIsFinal ==
  [][\A i \in Item :
       /\ itemState[i] = "selfDisarmed" => itemState'[i] \in {"selfDisarmed", "disarmed"}
       /\ itemState[i] = "disarmed" => itemState'[i] = "disarmed"]_vars

(* No timer is forgotten: the dispatch thread does not wait while an armed *)
(* timer is due, unless another thread is still handing an item over.      *)
NoTimerForgotten ==
  dpc = "wait" /\ (\E i \in Item : itemState[i] = "idle" /\ due[i] =< now)
    => \/ ~Available(0) \/ Front # {}
       \/ \E c \in Client : pc[c] \in {"claim", "publish"}

(* A timer that is due is called or disarmed, also while other threads     *)
(* have claimed slots and recurring timers keep the dispatch thread busy.  *)
DueFires ==
  \A i \in Item : (itemState[i] = "idle" /\ due[i] =< now)
                    ~> (itemState[i] # "idle" \/ shutdown # "no")

(* threading_timer_queue.h:41 "The function blocks if a callback is        *)
(* running and returns only after the callback has finished (except when   *)
(* called from the corresponding callback itself, where it will [...]      *)
(* return immediately)": Disarm() returns.                                 *)
DisarmReturns == \A c \in Client : pc[c] = "disarm" ~> pc[c] # "disarm"

(* The destructor's join returns.                                          *)
ShutdownEnds == shutdown = "kicked" ~> dpc = "exited"
==============================================================================
