------------------------------ MODULE Dispatcher ------------------------------
(***************************************************************************)
(* What base/threading.h promises of events, semaphores and mutants: an    *)
(* object is a value, a wait is satisfied in one indivisible step that     *)
(* takes from one object, or from all objects of a WaitAll, and a mutant   *)
(* has at most one owner, who alone can release it.                        *)
(***************************************************************************)
EXTENDS Integers, Sequences, SequencesExt

CONSTANTS Thread, NoThread, Object,
          Kind,        \* "manual" or "auto" (events), "semaphore", "mutant"
          Initial,     \* the value each object is created with
          Limit,       \* maximum_count of the semaphores
          Requests,    \* waits: [objects, all, finite]
          NoRequest

VARIABLES value,    \* set or not (1, 0), the semaphore's or the mutant's count
          owner,    \* of the mutants
          waiting   \* what each thread waits for

vars == <<value, owner, waiting>>

Ready(t, o) == IF Kind[o] = "mutant" THEN owner[o] \in {t, NoThread} ELSE value[o] > 0

\* What a wait may take: from all its objects, or from one.
Ways(r) ==
  LET objects == ToSet(r.objects)
  IN IF r.all THEN {objects} ELSE {{o} : o \in objects}

\* The value an object has after it satisfied a wait.
Taken(o) == CASE Kind[o] = "manual" -> value[o]
              [] Kind[o] = "auto" -> 0
              [] Kind[o] = "semaphore" -> value[o] - 1
              [] Kind[o] = "mutant" -> value[o] + 1

Put(o, v) == /\ value' = [value EXCEPT ![o] = v]
             /\ UNCHANGED waiting

Init == /\ value = Initial
        /\ owner = [o \in Object |-> NoThread]
        /\ waiting = [t \in Thread |-> NoRequest]

Set(o) == Kind[o] \in {"manual", "auto"} /\ Put(o, 1) /\ UNCHANGED owner

Reset(o) == Kind[o] \in {"manual", "auto"} /\ Put(o, 0) /\ UNCHANGED owner

Release(o, n) == /\ Kind[o] = "semaphore"
                 /\ value[o] + n =< Limit[o]
                 /\ Put(o, value[o] + n) /\ UNCHANGED owner

ReleaseMutant(t, o) ==
  /\ Kind[o] = "mutant" /\ owner[o] = t
  /\ Put(o, value[o] - 1)
  /\ owner' = [owner EXCEPT ![o] = IF value[o] = 1 THEN NoThread ELSE t]

Wait(t, r) == /\ waiting[t] = NoRequest
              /\ waiting' = [waiting EXCEPT ![t] = r]
              /\ UNCHANGED <<value, owner>>

Satisfy(t, S) ==
  /\ \A o \in S : Ready(t, o)
  /\ value' = [o \in Object |-> IF o \in S THEN Taken(o) ELSE value[o]]
  /\ owner' = [o \in Object |-> IF o \in S /\ Kind[o] = "mutant" THEN t ELSE owner[o]]
  /\ waiting' = [waiting EXCEPT ![t] = NoRequest]

TimeOut(t) == /\ waiting[t] # NoRequest /\ waiting[t].finite
              /\ waiting' = [waiting EXCEPT ![t] = NoRequest]
              /\ UNCHANGED <<value, owner>>

Next == \/ \E o \in Object : \/ Set(o) \/ Reset(o)
                             \/ \E n \in 1..Limit[o] : Release(o, n)
                             \/ \E t \in Thread : ReleaseMutant(t, o)
        \/ \E t \in Thread : \/ \E r \in Requests : Wait(t, r)
                             \/ /\ waiting[t] # NoRequest
                                /\ \E S \in Ways(waiting[t]) : Satisfy(t, S)
                             \/ TimeOut(t)

Spec == Init /\ [][Next]_vars
==============================================================================
