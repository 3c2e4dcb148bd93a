--------------------------- MODULE CriticalSection ----------------------------
(***************************************************************************)
(* RTL_CRITICAL_SECTION (xboxkrnl_rtl.cc): the guest's recursive lock, in  *)
(* guest memory.  lock_count and the event in the header are shared;       *)
(* owning_thread and recursion_count belong to the owner.  One action is   *)
(* one atomic operation on lock_count, one call of the event, or one write *)
(* of owning_thread.                                                       *)
(***************************************************************************)
EXTENDS Integers, FiniteSets

CONSTANTS Thread,    \* guest threads
          NoThread,  \* owning_thread = 0
          MaxDepth   \* bound on recursion_count

ASSUME ThreadAssumption == NoThread \notin Thread /\ IsFiniteSet(Thread)
ASSUME DepthAssumption == MaxDepth \in Nat \ {0}

VARIABLES
  lock_count,       \* -1 when free
  recursion_count,
  owning_thread,
  signaled,         \* the auto-reset event: header.signal_state
  pc

vars == <<lock_count, recursion_count, owning_thread, signaled, pc>>

PCs == {"out",      \* in no call; inside the section iff it is the owner
        "spin",     \* RtlEnterCriticalSection: trying -1 -> 0
        "wait",     \* waiting for the event
        "own",      \* has the lock, about to write owning_thread
        "recount",  \* left an inner level, about to decrement lock_count
        "leave",    \* cleared owning_thread, about to decrement lock_count
        "set"}      \* somebody waits: about to set the event

Goto(t, from, to) == pc[t] = from /\ pc' = [pc EXCEPT ![t] = to]

Init == /\ lock_count = -1 /\ recursion_count = 0
        /\ owning_thread = NoThread /\ signaled = FALSE
        /\ pc = [t \in Thread |-> "out"]
------------------------------------------------------------------------------
(* RtlEnterCriticalSection *)

\* The owner takes the lock once more (RtlTryEnterCriticalSection too).
EnterAgain(t) ==
  /\ pc[t] = "out" /\ owning_thread = t
  /\ recursion_count < MaxDepth
  /\ lock_count' = lock_count + 1
  /\ recursion_count' = recursion_count + 1
  /\ UNCHANGED <<owning_thread, signaled, pc>>

Enter(t) ==
  /\ owning_thread # t
  /\ Goto(t, "out", "spin")
  /\ UNCHANGED <<lock_count, recursion_count, owning_thread, signaled>>

\* A pass of the spin loop that finds the lock free; the others change nothing.
SpinAcquire(t) ==
  /\ lock_count = -1
  /\ lock_count' = 0
  /\ Goto(t, "spin", "own")
  /\ UNCHANGED <<recursion_count, owning_thread, signaled>>

\* The spin count, 0 for most sections, is used up.
Increment(t) ==
  /\ lock_count' = lock_count + 1
  /\ Goto(t, "spin", IF lock_count' # 0 THEN "wait" ELSE "own")
  /\ UNCHANGED <<recursion_count, owning_thread, signaled>>

\* Mutant: the event is manual-reset.
Wake_ManualReset(t) ==
  /\ signaled
  /\ Goto(t, "wait", "own")
  /\ UNCHANGED <<lock_count, recursion_count, owning_thread, signaled>>

\* xeKeWaitForSingleObject: the event is auto-reset, one waiter takes it.
Wake(t) ==
  /\ signaled
  /\ signaled' = FALSE
  /\ Goto(t, "wait", "own")
  /\ UNCHANGED <<lock_count, recursion_count, owning_thread>>

Own(t) ==
  /\ Goto(t, "own", "out")
  /\ owning_thread' = t
  /\ recursion_count' = 1
  /\ UNCHANGED <<lock_count, signaled>>

\* Mutant: increments and tests instead of the compare-and-swap.
TryEnter_Increments(t) ==
  /\ owning_thread # t
  /\ lock_count < 2
  /\ lock_count' = lock_count + 1
  /\ Goto(t, "out", IF lock_count' = 0 THEN "own" ELSE "out")
  /\ UNCHANGED <<recursion_count, owning_thread, signaled>>

\* RtlTryEnterCriticalSection by a thread that does not own the section.
TryEnter(t) ==
  /\ owning_thread # t /\ lock_count = -1
  /\ lock_count' = 0
  /\ Goto(t, "out", "own")
  /\ UNCHANGED <<recursion_count, owning_thread, signaled>>
------------------------------------------------------------------------------
(* RtlLeaveCriticalSection, by the owner *)

LeaveInner(t) ==
  /\ owning_thread = t /\ recursion_count > 1
  /\ recursion_count' = recursion_count - 1
  /\ Goto(t, "out", "recount")
  /\ UNCHANGED <<lock_count, owning_thread, signaled>>

Recount(t) ==
  /\ Goto(t, "recount", "out")
  /\ lock_count' = lock_count - 1
  /\ UNCHANGED <<recursion_count, owning_thread, signaled>>

LeaveOuter(t) ==
  /\ owning_thread = t /\ recursion_count = 1
  /\ recursion_count' = 0
  /\ owning_thread' = NoThread
  /\ Goto(t, "out", "leave")
  /\ UNCHANGED <<lock_count, signaled>>

\* Mutant: off by one, the last waiter is not counted.
Decrement_OffByOne(t) ==
  /\ lock_count' = lock_count - 1
  /\ Goto(t, "leave", IF lock_count' > 0 THEN "set" ELSE "out")
  /\ UNCHANGED <<recursion_count, owning_thread, signaled>>

Decrement(t) ==
  /\ lock_count' = lock_count - 1
  /\ Goto(t, "leave", IF lock_count' # -1 THEN "set" ELSE "out")
  /\ UNCHANGED <<recursion_count, owning_thread, signaled>>

SetEvent(t) ==
  /\ Goto(t, "set", "out")
  /\ signaled' = TRUE
  /\ UNCHANGED <<lock_count, recursion_count, owning_thread>>
------------------------------------------------------------------------------
EnterStep(t) == SpinAcquire(t) \/ Increment(t) \/ Own(t)

LeaveStep(t) == Recount(t) \/ Decrement(t) \/ SetEvent(t)

Step(t) == \/ EnterAgain(t) \/ Enter(t) \/ EnterStep(t) \/ Wake(t) \/ TryEnter(t)
           \/ LeaveInner(t) \/ LeaveOuter(t) \/ LeaveStep(t)

Next == \E t \in Thread : Step(t)

Spec == Init /\ [][Next]_vars

(* Threads inside a call go on, and the guest leaves what it enters.  The  *)
(* event wakes its waiters without starving one of them.                   *)
Fairness == \A t \in Thread : /\ WF_vars(EnterStep(t)) /\ WF_vars(LeaveStep(t))
                              /\ SF_vars(Wake(t))
                              /\ WF_vars(LeaveInner(t)) /\ SF_vars(LeaveOuter(t))

FairSpec == Spec /\ Fairness
------------------------------------------------------------------------------
TypeOK == /\ lock_count \in Int /\ lock_count >= -1
          /\ recursion_count \in 0..MaxDepth
          /\ owning_thread \in Thread \cup {NoThread}
          /\ signaled \in BOOLEAN
          /\ pc \in [Thread -> PCs]

\* From winning lock_count to giving it back or handing it on.
Inside(t) == pc[t] \in {"own", "leave", "recount", "set"} \/ owning_thread = t

(* One thread at a time is inside the section, counting the hand-over: the *)
(* thread that is about to set the event is still in, and while the event  *)
(* is set nobody is.  lock_count is -1 only when the section is free, so   *)
(* neither a spinner nor RtlTryEnterCriticalSection can slip in during a   *)
(* hand-over.                                                              *)
Exclusion ==
  /\ \A t, u \in Thread : Inside(t) /\ Inside(u) => t = u
  /\ signaled => \A t \in Thread : ~Inside(t)
  /\ lock_count = -1 => ~signaled /\ \A t \in Thread : ~Inside(t)

(* xboxkrnl_rtl.cc:628 assert_true(cs->owning_thread == 0): whoever is     *)
(* about to become the owner finds no owner.                               *)
NoOwnerOnEntry ==
  \A t \in Thread : pc[t] \in {"own", "leave", "set"} => owning_thread = NoThread

(* recursion_count is positive exactly while somebody owns the section,    *)
(* and the owner, who alone makes inner leaves, is in no other call        *)
(* (xboxkrnl_rtl.cc:667, 670, 672).                                        *)
OwnerCounts ==
  /\ recursion_count > 0 <=> owning_thread # NoThread
  /\ \A t \in Thread : /\ owning_thread = t => pc[t] \in {"out", "recount"}
                       /\ pc[t] = "recount" => owning_thread = t

\* Levels of lock_count above -1 that the thread inside accounts for.
Held == IF \E t \in Thread : pc[t] = "recount" THEN recursion_count + 1
        ELSE IF owning_thread # NoThread THEN recursion_count
        ELSE IF \E t \in Thread : pc[t] \in {"own", "leave"} THEN 1 ELSE 0

(* lock_count is the nesting depth of the owner plus the waiters, minus    *)
(* one, in every intermediate state: a waiter is never uncounted, so a     *)
(* leaver never forgets to set the event, and never sets it for nobody.    *)
LockCountExact ==
  lock_count + 1 = Held + Cardinality({t \in Thread : pc[t] = "wait"})

(* No waiter is forgotten: while one waits, a thread is inside that will   *)
(* come to the decrement of lock_count (xboxkrnl_rtl.cc:680), or the event *)
(* is set for one of the waiters.                                          *)
NoWaiterForgotten ==
  (\E t \in Thread : pc[t] = "wait") => signaled \/ \E t \in Thread : Inside(t)

(* Everybody who waits for the section enters it.                          *)
WaiterEnters == \A t \in Thread : pc[t] = "wait" ~> owning_thread = t
------------------------------------------------------------------------------
(* Refinement: the lock is released by the decrement, or stays with the    *)
(* leaver until the event is set; the woken waiter acquires it.            *)
Holds(t) == pc[t] \in {"own", "leave"} \/ owning_thread = t

holder == IF \E t \in Thread : Holds(t)
          THEN CHOOSE t \in Thread : Holds(t) ELSE NoThread

depth == IF holder = NoThread THEN 0
         ELSE IF owning_thread = holder THEN recursion_count ELSE 1

Lock == INSTANCE RecursiveLock WITH holder <- holder, depth <- depth

(* The critical section is a recursive lock, the hand-over included.       *)
ImplementsLock == Lock!Spec
==============================================================================
