---------------------------- MODULE RecursiveLock ----------------------------
(***************************************************************************)
(* What xe::xe_global_mutex promises its callers: a lock owned by at most  *)
(* one thread, which the owner may take again.  How threads wait for it,   *)
(* and in which order they get it, is left open.                           *)
(***************************************************************************)
EXTENDS Naturals

CONSTANTS Thread,    \* the host threads
          NoThread   \* the owner of a free lock

VARIABLES holder,    \* the thread inside the critical region
          depth      \* how many times it has entered

lockVars == <<holder, depth>>

Init == holder = NoThread /\ depth = 0

Acquire(t) == holder = NoThread /\ holder' = t /\ depth' = 1

Reacquire(t) == holder = t /\ depth' = depth + 1 /\ UNCHANGED holder

Leave(t) == holder = t /\ depth > 1 /\ depth' = depth - 1 /\ UNCHANGED holder

Release(t) == holder = t /\ depth = 1 /\ holder' = NoThread /\ depth' = 0

Next == \E t \in Thread : Acquire(t) \/ Reacquire(t) \/ Leave(t) \/ Release(t)

Spec == Init /\ [][Next]_lockVars
==============================================================================
