----------------------------- MODULE GlobalMutex -----------------------------
(***************************************************************************)
(* xe::xe_global_mutex on Linux (base/mutex.cc): the recursive futex lock  *)
(* behind global_critical_region.  One action is one atomic access to      *)
(* state_ or one futex system call.  owner_ and recursion_count_ are       *)
(* written only by the holder and owner_ is only compared with the         *)
(* reader's own id, so both are written in the step that enters or leaves. *)
(*                                                                         *)
(* state_ = 2 means "locked, and somebody may be asleep": an unlock that   *)
(* swaps out a 2 must wake one sleeper.  Newcomers take a free lock with   *)
(* 0 -> 1 and overtake the thread being woken, so the 2 can be lost from   *)
(* state_ while threads sleep; the woken thread has to put it back.        *)
(*                                                                         *)
(* xe_fast_mutex is the same protocol with MaxDepth = 1.                   *)
(***************************************************************************)
EXTENDS Naturals, Sequences, SequencesExt

CONSTANTS Thread,     \* host threads
          NoThread,   \* owner_ = 0
          MaxDepth    \* bound on recursion_count_

ASSUME ThreadAssumption == NoThread \notin Thread
ASSUME DepthAssumption == MaxDepth \in Nat \ {0}

VARIABLES
  state,      \* state_: 0 unlocked, 1 locked, 2 contended
  owner,      \* owner_
  recursion,  \* recursion_count_
  pc,         \* where each thread is in lock(), lock_slow() or unlock()
  sleepers    \* the kernel's queue of threads in futex_wait, in FIFO order

vars == <<state, owner, recursion, pc, sleepers>>

PCs == {"out",    \* not in a call; holds the lock iff it is the owner
        "cas",    \* lock(): about to try 0 -> 1
        "spin",   \* lock_slow(): spinning on 0 -> 1
        "mark",   \* about to exchange(2)
        "wait",   \* about to call futex_wait(&state_, 2)
        "sleep",  \* blocked in futex_wait
        "retry",  \* back from futex_wait, about to try 0 -> 2
        "enter",  \* has the lock, about to write owner_
        "swap",   \* unlock(): owner_ cleared, about to exchange(0)
        "wake"}   \* swapped out a 2, about to call futex_wake(1)

Goto(t, from, to) == pc[t] = from /\ pc' = [pc EXCEPT ![t] = to]

Init == /\ state = 0
        /\ owner = NoThread
        /\ recursion = 0
        /\ pc = [t \in Thread |-> "out"]
        /\ sleepers = <<>>
------------------------------------------------------------------------------
(* lock() *)

LockRecursive(t) ==
  /\ pc[t] = "out" /\ owner = t
  /\ recursion < MaxDepth
  /\ recursion' = recursion + 1
  /\ UNCHANGED <<state, owner, pc, sleepers>>

LockBegin(t) ==
  /\ owner # t
  /\ Goto(t, "out", "cas")
  /\ UNCHANGED <<state, owner, recursion, sleepers>>

\* compare_exchange_strong(0, new) followed by the two branches of its result.
CasFromZero(t, from, new, failed) ==
  \/ /\ state = 0
     /\ state' = new
     /\ Goto(t, from, "enter")
     /\ UNCHANGED <<owner, recursion, sleepers>>
  \/ /\ state # 0
     /\ Goto(t, from, failed)
     /\ UNCHANGED <<state, owner, recursion, sleepers>>

FastCas(t) == CasFromZero(t, "cas", 1, "spin")

\* One pass of the spin loop; giving up stands for XE_LINUX_MUTEX_SPINCOUNT
\* failed passes, the passes in between change nothing.
Spin(t) == CasFromZero(t, "spin", 1, "mark")

\* Mutant: any old value but 2 is taken for a free lock.
MarkContended_WrongTest(t) ==
  /\ state' = 2
  /\ Goto(t, "mark", IF state # 2 THEN "enter" ELSE "wait")
  /\ UNCHANGED <<owner, recursion, sleepers>>

MarkContended(t) ==
  /\ state' = 2
  /\ Goto(t, "mark", IF state = 0 THEN "enter" ELSE "wait")
  /\ UNCHANGED <<owner, recursion, sleepers>>

\* Mutant: the wait does not compare the word with 2 first.
FutexWait_NoCompare(t) ==
  /\ sleepers' = Append(sleepers, t)
  /\ Goto(t, "wait", "sleep")
  /\ UNCHANGED <<state, owner, recursion>>

\* FUTEX_WAIT compares the word and blocks in one step of the kernel.
FutexWait(t) ==
  \/ /\ state = 2
     /\ sleepers' = Append(sleepers, t)
     /\ Goto(t, "wait", "sleep")
     /\ UNCHANGED <<state, owner, recursion>>
  \/ /\ state # 2
     /\ Goto(t, "wait", "retry")
     /\ UNCHANGED <<state, owner, recursion, sleepers>>

\* futex_wait returns without a wake: EINTR.  The code ignores its result,
\* and threads of this program do receive signals (suspend, user callbacks).
FutexInterrupted(t) ==
  /\ Goto(t, "sleep", "retry")
  /\ \E i \in DOMAIN sleepers :
        sleepers[i] = t /\ sleepers' = RemoveAt(sleepers, i)
  /\ UNCHANGED <<state, owner, recursion>>

\* Mutant: the woken thread takes the lock as uncontended.
Retry_Uncontended(t) == CasFromZero(t, "retry", 1, "mark")


Retry(t) == CasFromZero(t, "retry", 2, "mark")

Enter(t) ==
  /\ Goto(t, "enter", "out")
  /\ owner' = t
  /\ recursion' = 1
  /\ UNCHANGED <<state, sleepers>>
------------------------------------------------------------------------------
(* unlock(), called by the owner only (the callers hold a unique_lock) *)

UnlockInner(t) ==
  /\ pc[t] = "out" /\ owner = t /\ recursion > 1
  /\ recursion' = recursion - 1
  /\ UNCHANGED <<state, owner, pc, sleepers>>


UnlockOuter(t) ==
  /\ owner = t /\ recursion = 1
  /\ recursion' = 0
  /\ owner' = NoThread
  /\ Goto(t, "out", "swap")
  /\ UNCHANGED <<state, sleepers>>

\* Mutant: wakes after an uncontended hold instead of a contended one.
SwapOut_WrongTest(t) ==
  /\ state' = 0
  /\ Goto(t, "swap", IF state = 1 THEN "wake" ELSE "out")
  /\ UNCHANGED <<owner, recursion, sleepers>>

\* exchange(0): only a 2 obliges the unlocker to wake somebody.
SwapOut(t) ==
  /\ state' = 0
  /\ Goto(t, "swap", IF state = 2 THEN "wake" ELSE "out")
  /\ UNCHANGED <<owner, recursion, sleepers>>

FutexWake(t) ==
  /\ pc[t] = "wake"
  /\ IF sleepers = <<>>
     THEN pc' = [pc EXCEPT ![t] = "out"] /\ UNCHANGED sleepers
     ELSE /\ pc' = [pc EXCEPT ![t] = "out", ![Head(sleepers)] = "retry"]
          /\ sleepers' = Tail(sleepers)
  /\ UNCHANGED <<state, owner, recursion>>
------------------------------------------------------------------------------
(* try_lock(): its recursive branch is LockRecursive, a failure changes    *)
(* nothing.                                                                *)

TryLock(t) ==
  /\ owner # t /\ state = 0
  /\ state' = 1
  /\ Goto(t, "out", "enter")
  /\ UNCHANGED <<owner, recursion, sleepers>>
------------------------------------------------------------------------------
LockStep(t) == \/ FastCas(t) \/ Spin(t) \/ MarkContended(t) \/ FutexWait(t)
               \/ Retry(t) \/ Enter(t)

UnlockStep(t) == SwapOut(t) \/ FutexWake(t)

Step(t) == \/ LockRecursive(t) \/ LockBegin(t) \/ TryLock(t) \/ LockStep(t)
           \/ FutexInterrupted(t)
           \/ UnlockInner(t) \/ UnlockOuter(t) \/ UnlockStep(t)

Next == \E t \in Thread : Step(t)

Spec == Init /\ [][Next]_vars

(* A thread inside a call keeps running, and whoever is in the critical    *)
(* region leaves it (mutex.h: "all activity done while in the critical     *)
(* region must be extremely fast"): it unwinds its nested locks, and       *)
(* re-entering now and then does not keep it from the outermost unlock.    *)
(* Nothing makes a thread call lock().                                     *)
Fairness == \A t \in Thread : /\ WF_vars(LockStep(t))
                              /\ WF_vars(UnlockStep(t))
                              /\ WF_vars(UnlockInner(t))
                              /\ SF_vars(UnlockOuter(t))

FairSpec == Spec /\ Fairness
------------------------------------------------------------------------------
\* The kernel's queue holds exactly the threads blocked in futex_wait, once.
Queued == /\ \A i \in DOMAIN sleepers : pc[sleepers[i]] = "sleep"
          /\ \A i, j \in DOMAIN sleepers : sleepers[i] = sleepers[j] => i = j

TypeOK == /\ state \in 0..2
          /\ owner \in Thread \cup {NoThread}
          /\ recursion \in 0..MaxDepth
          /\ pc \in [Thread -> PCs]
          /\ sleepers \in Seq(Thread)
          /\ Queued

\* The threads between winning state_ and giving it back.
Inside(t) == pc[t] \in {"enter", "swap"} \/ owner = t

(* No two threads are inside the region, and state_ is non-zero exactly    *)
(* while one is: the newcomers' 0 -> 1, the woken thread's 0 -> 2 and the  *)
(* markers' exchange(2), which writes over a lock that others hold, never  *)
(* let a second thread in (mutex.cc lock_slow and unlock).                 *)
MutualExclusion ==
  /\ \A t, u \in Thread : Inside(t) /\ Inside(u) => t = u
  /\ state # 0 <=> \E t \in Thread : Inside(t)

(* owner_ and recursion_count_ agree: the count is positive exactly while  *)
(* somebody owns the lock, so a later lock() by the previous owner can     *)
(* never take the recursive branch without holding state_.                 *)
OwnerCounts ==
  /\ recursion > 0 <=> owner # NoThread
  /\ \A t \in Thread : owner = t => pc[t] = "out"

(* No lost wakeup: while threads sleep on the futex, either state_ still   *)
(* says "contended", so the holder's unlock will wake one, or some thread  *)
(* is already on its way to wake one or to write the 2 back.               *)
NoLostWakeup ==
  sleepers # <<>> => \/ state = 2
                     \/ \E t \in Thread : pc[t] \in {"wake", "retry", "mark"}

(* Nobody sleeps for ever: every thread blocked in futex_wait runs again,  *)
(* although newcomers may overtake it each time it does.                   *)
SleeperWakes == \A t \in Thread : pc[t] = "sleep" ~> pc[t] # "sleep"

(* The lock does not wedge: when a thread wants it, somebody gets it.      *)
SomebodyEnters ==
  (\E t \in Thread : pc[t] \in {"cas", "spin", "mark", "wait", "sleep", "retry"})
     ~> (\E t \in Thread : owner = t)
------------------------------------------------------------------------------
(* Refinement: the lock is taken by the successful exchange of state_ and  *)
(* given back by unlock()'s exchange(0), whatever owner_ says in between.  *)
holder == IF \E t \in Thread : Inside(t)
          THEN CHOOSE t \in Thread : Inside(t) ELSE NoThread

depth == IF holder = NoThread THEN 0
         ELSE IF pc[holder] = "out" THEN recursion ELSE 1

Lock == INSTANCE RecursiveLock WITH holder <- holder, depth <- depth

(* xe_global_mutex implements a recursive lock.                            *)
ImplementsLock == Lock!Spec
==============================================================================
