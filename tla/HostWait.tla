------------------------------- MODULE HostWait -------------------------------
(***************************************************************************)
(* Waiting on the POSIX backend (base/threading_posix.cc): events,         *)
(* semaphores and mutants, each a mutex_ and a cond_.  A wait for one      *)
(* object sleeps on its condition variable; a wait for several locks all   *)
(* of them with trylock, looks, and polls.                                 *)
(*                                                                         *)
(* A critical section of one object is one action, enabled while nobody    *)
(* holds the object's mutex_.  It is held across actions by WaitMultiple,  *)
(* which collects its locks one by one, and while a mutant is taken: the   *)
(* count_ and the owner_ are written one after the other, and Release      *)
(* reads both before it takes the lock.  SignalAndWait is a signal         *)
(* followed by a wait; the code does nothing to join the two.              *)
(***************************************************************************)
EXTENDS Integers, Sequences, SequencesExt

CONSTANTS Thread, NoThread, Object,
          Waiters,     \* the threads that wait; others only signal
          Kind,        \* "manual" or "auto" (events), "semaphore", "mutant"
          Initial,     \* initial_state, initial_count; 0 for a mutant
          Limit,       \* maximum_count of the semaphores; 0 for the others
          Requests,    \* the waits threads make: [objects, all, finite]
          NoRequest,
          Strangers,   \* threads release mutants they do not own, too (count_
                       \* is unsigned in the code and may then wrap)
          MaxHold      \* bound on the count of a mutant

ASSUME KindAssumption ==
  Kind \in [Object -> {"manual", "auto", "semaphore", "mutant"}]
ASSUME ThreadAssumption == NoThread \notin Thread /\ Waiters \subseteq Thread
ASSUME ValueAssumption ==
  /\ Limit \in [Object -> Nat] /\ Initial \in [Object -> Nat]
  /\ \A o \in Object : Initial[o] =< CASE Kind[o] = "semaphore" -> Limit[o]
                                       [] Kind[o] = "mutant" -> 0
                                       [] OTHER -> 1
ASSUME RequestAssumption ==
  /\ NoRequest \notin Requests
  /\ \A r \in Requests :
       /\ r.objects \in Seq(Object) /\ r.objects # <<>>
       /\ r.all \in BOOLEAN /\ r.finite \in BOOLEAN
       /\ \A i, j \in DOMAIN r.objects : r.objects[i] = r.objects[j] => i = j

VARIABLES
  value,   \* signal_ (0 or 1) or count_
  owner,   \* owner_, which nobody clears
  mutex,   \* who holds mutex_ across actions
  pc, req,
  arg,     \* the object of a Pulse or a Release in progress
  held     \* waits on each mutant that returned and were not yet released;
           \* read by properties, and by the guard of well-behaved threads

vars == <<value, owner, mutex, pc, req, arg, held>>

PCs == {"run",
        "lock",    \* Wait(): about to lock mutex_
        "sleep",   \* in cond_.wait or wait_for
        "woken",   \* notified, or woken for no reason: about to lock again
        "late",    \* timed out: about to lock again
        "poll",    \* WaitMultiple(): holds the first few locks
        "own",     \* has counted the wait, about to write owner_
        "pulse",   \* Pulse(): between Signal and Reset
        "tested"}  \* Mutant::Release(): passed the test, about to lock

IsEvent(o) == Kind[o] \in {"manual", "auto"}
Free(o) == mutex[o] = NoThread
Locked(t) == {o \in Object : mutex[o] = t}
Only(t) == req[t].objects[1]

Init == /\ value = Initial
        /\ owner = [o \in Object |-> NoThread]
        /\ mutex = [o \in Object |-> NoThread]
        /\ pc = [t \in Thread |-> "run"]
        /\ req = [t \in Thread |-> NoRequest]
        /\ arg = [t \in Thread |-> NoThread]
        /\ held = [t \in Thread |-> [o \in Object |-> 0]]

\* cond_.notify_all() of the objects S, by t, who goes on at place.
NotifyAll(S, t, place) ==
  pc' = [u \in Thread |-> IF u = t THEN place
                          ELSE IF pc[u] = "sleep" /\ Only(u) \in S THEN "woken"
                          ELSE pc[u]]

Goto(t, place) == pc' = [pc EXCEPT ![t] = place]
------------------------------------------------------------------------------
(* Event *)

\* Mutant: the condition variable is not notified.
Set_NoNotify(t, o) ==
  /\ pc[t] = "run" /\ IsEvent(o) /\ Free(o)
  /\ value' = [value EXCEPT ![o] = 1]
  /\ UNCHANGED <<owner, mutex, pc, req, arg, held>>

Set(t, o) ==
  /\ pc[t] = "run" /\ IsEvent(o) /\ Free(o)
  /\ value' = [value EXCEPT ![o] = 1]
  /\ NotifyAll({o}, t, "run")
  /\ UNCHANGED <<owner, mutex, req, arg, held>>

Reset(t, o) ==
  /\ pc[t] = "run" /\ IsEvent(o) /\ Free(o)
  /\ value' = [value EXCEPT ![o] = 0]
  /\ UNCHANGED <<owner, mutex, pc, req, arg, held>>

Pulse(t, o) ==
  /\ pc[t] = "run" /\ IsEvent(o) /\ Free(o)
  /\ value' = [value EXCEPT ![o] = 1]
  /\ NotifyAll({o}, t, "pulse")
  /\ arg' = [arg EXCEPT ![t] = o]
  /\ UNCHANGED <<owner, mutex, req, held>>

PulseReset(t) ==
  /\ pc[t] = "pulse" /\ Free(arg[t])
  /\ value' = [value EXCEPT ![arg[t]] = 0]
  /\ Goto(t, "run")
  /\ arg' = [arg EXCEPT ![t] = NoThread]
  /\ UNCHANGED <<owner, mutex, req, held>>
------------------------------------------------------------------------------
(* Semaphore and mutant *)

Release(t, o, n) ==
  /\ pc[t] = "run" /\ Kind[o] = "semaphore" /\ Free(o)
  /\ value[o] + n =< Limit[o]
  /\ value' = [value EXCEPT ![o] = @ + n]
  /\ NotifyAll({o}, t, "run")
  /\ UNCHANGED <<owner, mutex, req, arg, held>>

\* The test of owner_ and count_ without the lock.
TestMutant(t, o) ==
  /\ pc[t] = "run" /\ Kind[o] = "mutant"
  /\ Strangers \/ held[t][o] > 0
  /\ owner[o] = t /\ value[o] > 0
  /\ Goto(t, "tested")
  /\ arg' = [arg EXCEPT ![t] = o]
  /\ UNCHANGED <<value, owner, mutex, req, held>>

\* Mutant: notifies when the count was zero before, not when it is now.
ReleaseMutant_TestsOldCount(t) ==
  LET o == arg[t]
  IN /\ pc[t] = "tested" /\ Free(o)
     /\ value' = [value EXCEPT ![o] = @ - 1]
     /\ NotifyAll(IF value[o] = 0 THEN {o} ELSE {}, t, "run")
     /\ arg' = [arg EXCEPT ![t] = NoThread]
     /\ held' = [held EXCEPT ![t][o] = IF @ > 0 THEN @ - 1 ELSE 0]
     /\ UNCHANGED <<owner, mutex, req>>

ReleaseMutant(t) ==
  LET o == arg[t]
  IN /\ pc[t] = "tested" /\ Free(o)
     /\ value' = [value EXCEPT ![o] = @ - 1]
     /\ NotifyAll(IF value[o] = 1 THEN {o} ELSE {}, t, "run")
     /\ arg' = [arg EXCEPT ![t] = NoThread]
     /\ held' = [held EXCEPT ![t][o] = IF @ > 0 THEN @ - 1 ELSE 0]
     /\ UNCHANGED <<owner, mutex, req>>
------------------------------------------------------------------------------
(* What the waits have in common *)

\* Mutant: the comparison of owner_ is the wrong way round.
Signaled_Inverted(t, o) == IF Kind[o] = "mutant" THEN value[o] = 0 \/ owner[o] # t
                                                 ELSE value[o] > 0

Signaled(t, o) == IF Kind[o] = "mutant" THEN value[o] = 0 \/ owner[o] = t
                                        ELSE value[o] > 0

\* Mutant: an auto-reset event stays set.
PostExecution_KeepsEvent(t, S) ==
  LET mutants == {o \in S : Kind[o] = "mutant"}
  IN /\ value' = [o \in Object |->
                   IF o \notin S \/ IsEvent(o) THEN value[o]
                   ELSE IF Kind[o] = "mutant" THEN value[o] + 1 ELSE value[o] - 1]
     /\ NotifyAll({o \in S : Kind[o] = "semaphore"}, t, IF mutants = {} THEN "run" ELSE "own")
     /\ mutex' = [o \in Object |-> IF o \in mutants THEN t
                                   ELSE IF mutex[o] = t THEN NoThread ELSE mutex[o]]
     /\ req' = [req EXCEPT ![t] = NoRequest]
     /\ UNCHANGED <<owner, arg, held>>

\* post_execution of the objects S, all but the writing of owner_.  (With a
\* mutant among them the other locks are free a moment early.)
PostExecution(t, S) ==
  LET mutants == {o \in S : Kind[o] = "mutant"}
  IN /\ value' = [o \in Object |->
                   IF o \notin S \/ Kind[o] = "manual" THEN value[o]
                   ELSE CASE Kind[o] = "auto" -> 0
                          [] Kind[o] = "semaphore" -> value[o] - 1
                          [] Kind[o] = "mutant" -> value[o] + 1]
     /\ NotifyAll({o \in S : Kind[o] = "semaphore"}, t, IF mutants = {} THEN "run" ELSE "own")
     /\ mutex' = [o \in Object |-> IF o \in mutants THEN t
                                   ELSE IF mutex[o] = t THEN NoThread ELSE mutex[o]]
     /\ req' = [req EXCEPT ![t] = NoRequest]
     /\ UNCHANGED <<owner, arg, held>>

Own(t) ==
  /\ pc[t] = "own"
  /\ owner' = [o \in Object |-> IF mutex[o] = t THEN t ELSE owner[o]]
  /\ held' = [held EXCEPT ![t] = [o \in Object |-> @[o] + (IF mutex[o] = t THEN 1 ELSE 0)]]
  /\ mutex' = [o \in Object |-> IF mutex[o] = t THEN NoThread ELSE mutex[o]]
  /\ Goto(t, "run")
  /\ UNCHANGED <<value, req, arg>>

Return(t) == Goto(t, "run") /\ req' = [req EXCEPT ![t] = NoRequest]

Begin(t, r) ==
  /\ pc[t] = "run" /\ t \in Waiters
  /\ \A o \in ToSet(r.objects) : held[t][o] < MaxHold
  /\ req' = [req EXCEPT ![t] = r]
  /\ Goto(t, IF Len(r.objects) = 1 THEN "lock" ELSE "poll")
  /\ UNCHANGED <<value, owner, mutex, arg, held>>
------------------------------------------------------------------------------
(* Wait *)

Succeed(t) ==
  /\ pc[t] \in {"lock", "woken", "late"} /\ Free(Only(t))
  /\ Signaled(t, Only(t))
  /\ PostExecution(t, {Only(t)})

Sleep(t) ==
  /\ pc[t] \in {"lock", "woken"} /\ Free(Only(t))
  /\ ~Signaled(t, Only(t))
  /\ Goto(t, "sleep")
  /\ UNCHANGED <<value, owner, mutex, req, arg, held>>

\* The timeout is over, or there is none and the wake-up is a spurious one.
Expire(t) ==
  /\ pc[t] = "sleep"
  /\ Goto(t, IF req[t].finite THEN "late" ELSE "woken")
  /\ UNCHANGED <<value, owner, mutex, req, arg, held>>

GiveUp(t) ==
  /\ pc[t] = "late" /\ Free(Only(t))
  /\ ~Signaled(t, Only(t))
  /\ Return(t)
  /\ UNCHANGED <<value, owner, mutex, arg, held>>
------------------------------------------------------------------------------
(* WaitMultiple *)

Unlocked(t) == mutex' = [o \in Object |-> IF mutex[o] = t THEN NoThread ELSE mutex[o]]

\* The next handle to lock, none when all are locked.
NextHandle(t) == {i \in DOMAIN req[t].objects :
                    Locked(t) = {req[t].objects[j] : j \in 1..(i - 1)}}

TryLock(t) ==
  /\ pc[t] = "poll"
  /\ \E i \in NextHandle(t) :
       LET o == req[t].objects[i]
       IN mutex' = [p \in Object |->
            IF Free(o) THEN (IF p = o THEN t ELSE mutex[p])
            ELSE IF mutex[p] = t THEN NoThread ELSE mutex[p]]
  /\ UNCHANGED <<value, owner, pc, req, arg, held>>

Collected(t) == pc[t] = "poll" /\ NextHandle(t) = {}

SucceedAll(t) ==
  /\ Collected(t) /\ req[t].all
  /\ \A o \in Locked(t) : Signaled(t, o)
  /\ PostExecution(t, Locked(t))

SucceedAny(t) ==
  /\ Collected(t) /\ ~req[t].all
  /\ \E i \in DOMAIN req[t].objects :
       /\ Signaled(t, req[t].objects[i])
       /\ \A j \in 1..(i - 1) : ~Signaled(t, req[t].objects[j])
       /\ PostExecution(t, {req[t].objects[i]})

Unmet(t) == IF req[t].all THEN \E o \in Locked(t) : ~Signaled(t, o)
                          ELSE \A o \in Locked(t) : ~Signaled(t, o)

\* Not now: to sleep for a millisecond and around again, or out of time.
PollAgain(t) ==
  /\ Collected(t) /\ Unmet(t)
  /\ Unlocked(t)
  /\ UNCHANGED <<value, owner, pc, req, arg, held>>

PollGivesUp(t) ==
  /\ Collected(t) /\ Unmet(t) /\ req[t].finite
  /\ Unlocked(t)
  /\ Return(t)
  /\ UNCHANGED <<value, owner, arg, held>>
------------------------------------------------------------------------------
Signal(t) == \E o \in Object :
  \/ Set(t, o) \/ Reset(t, o) \/ Pulse(t, o) \/ TestMutant(t, o)
  \/ \E n \in 1..Limit[o] : Release(t, o, n)

WaitStep(t) == Succeed(t) \/ Sleep(t) \/ GiveUp(t)

PollStep(t) == TryLock(t) \/ SucceedAll(t) \/ SucceedAny(t) \/ PollAgain(t) \/ PollGivesUp(t)

Finish(t) == PulseReset(t) \/ ReleaseMutant(t) \/ Own(t)

Next == \E t \in Thread : \/ Signal(t) \/ Expire(t)
                          \/ \E r \in Requests : Begin(t, r)
                          \/ WaitStep(t) \/ PollStep(t) \/ Finish(t)

Spec == Init /\ [][Next]_vars

(* The operating system gives a mutex to a thread that asks for it again   *)
(* and again in the end; threads that poll go on polling.                  *)
Fairness == \A t \in Thread : /\ SF_vars(WaitStep(t)) /\ SF_vars(Finish(t))
                              /\ WF_vars(PollStep(t))

FairSpec == Spec /\ Fairness
------------------------------------------------------------------------------
TypeOK == /\ value \in [Object -> Nat]
          /\ owner \in [Object -> Thread \cup {NoThread}]
          /\ mutex \in [Object -> Thread \cup {NoThread}]
          /\ pc \in [Thread -> PCs]
          /\ req \in [Thread -> Requests \cup {NoRequest}]
          /\ arg \in [Thread -> Object \cup {NoThread}]
          /\ held \in [Thread -> [Object -> Nat]]

(* No lost wakeup: no thread sleeps on an object that would satisfy it,    *)
(* whichever of the notifications of Signal, Release and post_execution    *)
(* was meant for it.                                                       *)
NoSleeperMissed == \A t \in Thread : pc[t] = "sleep" => ~Signaled(t, Only(t))

Mutants == {o \in Object : Kind[o] = "mutant"}

(* Whoever waited for a mutant has it, alone and as often as it waited,    *)
(* until it releases it: Release refuses all others (threading.h "Returns  *)
(* false if the calling thread does not own the mutant object").           *)
MutantsKept ==
  \A o \in Mutants, t \in Thread : held[t][o] > 0 =>
    /\ value[o] = held[t][o] + (IF pc[t] = "own" /\ mutex[o] = t THEN 1 ELSE 0)
    /\ \A u \in Thread \ {t} : held[u][o] = 0

(* A wait for one object that would be satisfied returns, unless somebody  *)
(* else takes the object.                                                  *)
Satisfiable(t) == pc[t] \in {"lock", "sleep", "woken", "late"} /\ Signaled(t, Only(t))

WaitReturns == \A t \in Thread : Satisfiable(t) ~> ~Satisfiable(t)
------------------------------------------------------------------------------
(* Refinement: a wait is satisfied when post_execution counts it; the      *)
(* owner_ that nobody clears means nothing while the count is zero.        *)
Counting(o) == mutex[o] # NoThread /\ pc[mutex[o]] = "own"

holder == [o \in Object |->
            IF Kind[o] # "mutant" \/ value[o] = 0 THEN NoThread
            ELSE IF Counting(o) THEN mutex[o] ELSE owner[o]]

Abstract == INSTANCE Dispatcher WITH owner <- holder, waiting <- req

(* The waits are indivisible: in particular a WaitAll takes from all its   *)
(* objects or from none, an auto-reset event satisfies exactly one wait,   *)
(* no two waits take the same unit of a semaphore, and a mutant changes    *)
(* hands only when its owner has released it.                              *)
ImplementsDispatcher == Abstract!Spec
==============================================================================
