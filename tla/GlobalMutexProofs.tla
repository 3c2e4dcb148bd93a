-------------------------- MODULE GlobalMutexProofs --------------------------
(***************************************************************************)
(* For any number of threads and any nesting depth: xe_global_mutex never  *)
(* lets two threads in, never loses a wakeup, and implements RecursiveLock.*)
(***************************************************************************)
EXTENDS GlobalMutex, SequenceTheorems, TLAPS

IInv == TypeOK /\ MutualExclusion /\ OwnerCounts /\ NoLostWakeup

LEMMA InitIInv == Init => IInv
<1> SUFFICES ASSUME Init PROVE IInv
  OBVIOUS
<1> USE ThreadAssumption, DepthAssumption DEF Init
<1>1. sleepers \in Seq(Thread) /\ DOMAIN sleepers = {} /\ Queued
  BY EmptySeq, LenProperties DEF Queued
<1>2. TypeOK
  BY <1>1 DEF TypeOK, PCs
<1>3. MutualExclusion /\ OwnerCounts /\ NoLostWakeup
  BY DEF MutualExclusion, OwnerCounts, NoLostWakeup, Inside
<1> QED BY <1>2, <1>3 DEF IInv

LEMMA RemoveAtType ==
  ASSUME NEW S, NEW s \in Seq(S), NEW i \in 1..Len(s)
  PROVE  RemoveAt(s, i) \in Seq(S)
<1>1. SubSeq(s, 1, i-1) \in Seq(S)
  <2>1. \A j \in 1..(i-1) : s[j] \in S
    BY ElementOfSeq, LenProperties
  <2> QED BY <2>1, SubSeqProperties, LenProperties
<1>2. SubSeq(s, i+1, Len(s)) \in Seq(S)
  <2>1. \A j \in (i+1)..Len(s) : s[j] \in S
    BY ElementOfSeq, LenProperties
  <2> QED BY <2>1, SubSeqProperties, LenProperties
<1> QED BY <1>1, <1>2, ConcatProperties DEF RemoveAt

LEMMA RemoveAtElements ==
  ASSUME NEW S, NEW s \in Seq(S), NEW i \in 1..Len(s)
  PROVE  /\ Len(RemoveAt(s, i)) = Len(s) - 1
         /\ \A k \in 1..(Len(s) - 1) :
              RemoveAt(s, i)[k] = IF k < i THEN s[k] ELSE s[k+1]
<1> DEFINE a == SubSeq(s, 1, i-1)
           b == SubSeq(s, i+1, Len(s))
<1>1. /\ a \in Seq(S) /\ Len(a) = i - 1
      /\ \A k \in 1..(i-1) : a[k] = s[k]
  <2>1. \A j \in 1..(i-1) : s[j] \in S
    BY ElementOfSeq, LenProperties
  <2> QED BY <2>1, SubSeqProperties, LenProperties
<1>2. /\ b \in Seq(S) /\ Len(b) = Len(s) - i
      /\ \A k \in 1..(Len(s) - i) : b[k] = s[i + k]
  <2>1. \A j \in (i+1)..Len(s) : s[j] \in S
    BY ElementOfSeq, LenProperties
  <2>2. /\ b \in Seq(S)
        /\ Len(b) = IF i+1 <= Len(s) THEN Len(s) - (i+1) + 1 ELSE 0
        /\ \A k \in 1..(Len(s) - (i+1) + 1) : b[k] = s[(i+1) + k - 1]
    BY <2>1, SubSeqProperties, LenProperties
  <2> HIDE DEF b
  <2> QED BY <2>2, LenProperties
<1>3. /\ Len(a \o b) = Len(a) + Len(b)
      /\ \A k \in 1..Len(a) : (a \o b)[k] = a[k]
      /\ \A k \in 1..Len(b) : (a \o b)[Len(a) + k] = b[k]
  <2>1. a \in Seq(S) /\ b \in Seq(S)
    BY <1>1, <1>2
  <2> HIDE DEF a, b
  <2> QED BY <2>1, ConcatProperties
<1>4. Len(s) \in Nat /\ i \in Nat /\ i >= 1 /\ i <= Len(s)
  BY LenProperties
<1>5. ASSUME NEW k \in 1..(Len(s) - 1)
      PROVE  (a \o b)[k] = IF k < i THEN s[k] ELSE s[k+1]
  <2>1. CASE k < i
    <3> HIDE DEF a, b
    <3> QED BY <2>1, <1>1, <1>3, <1>4
  <2>2. CASE k >= i
    <3>1. (k - (i - 1)) \in 1..(Len(s) - i)
      BY <2>2, <1>4
    <3>2. k = Len(a) + (k - (i - 1)) /\ i + (k - (i - 1)) = k + 1
      BY <1>1, <1>4
    <3> DEFINE m == k - (i - 1)
    <3>3. m \in 1..Len(b)
      BY <1>2, <3>1
    <3>4. (a \o b)[Len(a) + m] = b[m] /\ b[m] = s[i + m]
      <4> HIDE DEF a, b, m
      <4> QED BY <3>3, <1>2, <1>3
    <3>5. (a \o b)[k] = s[k+1]
      <4> HIDE DEF a, b
      <4> QED BY <3>2, <3>4
    <3>6. ~(k < i)
      BY <2>2, <1>4
    <3> HIDE DEF a, b, m
    <3> QED BY <3>5, <3>6
  <2>3. k < i \/ k >= i
    BY <1>4
  <2> HIDE DEF a, b
  <2> QED BY <2>1, <2>2, <2>3
<1> HIDE DEF a, b
<1>6. RemoveAt(s, i) = a \o b
  BY DEF RemoveAt, a, b
<1>7. Len(a \o b) = Len(s) - 1
  BY <1>1, <1>2, <1>3, <1>4
<1> QED BY <1>5, <1>6, <1>7

LEMMA TypeStep == TypeOK /\ [Next]_vars => TypeOK'
<1> SUFFICES ASSUME TypeOK, [Next]_vars PROVE TypeOK'
  OBVIOUS
<1> USE DepthAssumption DEF TypeOK, PCs
<1>0. ASSUME NEW t \in Thread, NEW from \in PCs, NEW to \in PCs, from # "sleep",
             Goto(t, from, to), UNCHANGED sleepers
      PROVE  pc' \in [Thread -> PCs] /\ Queued'
  BY <1>0, LenProperties, ElementOfSeq DEF Goto, Queued
<1>1. ASSUME NEW t \in Thread, LockRecursive(t) PROVE TypeOK'
  BY <1>1 DEF LockRecursive, Queued
<1>2. ASSUME NEW t \in Thread, LockBegin(t) PROVE TypeOK'
  BY <1>0, <1>2 DEF LockBegin
<1>3. ASSUME NEW t \in Thread, FastCas(t) \/ Spin(t) \/ Retry(t) PROVE TypeOK'
  BY <1>0, <1>3 DEF FastCas, Spin, Retry, CasFromZero
<1>4. ASSUME NEW t \in Thread, MarkContended(t) PROVE TypeOK'
  BY <1>0, <1>4 DEF MarkContended
<1>5. ASSUME NEW t \in Thread, FutexWait(t) PROVE TypeOK'
  <2>1. CASE state # 2
    BY <1>0, <1>5, <2>1 DEF FutexWait
  <2>2. CASE state = 2
    <3> HIDE DEF TypeOK
    <3>1. /\ pc[t] = "wait" /\ pc' = [pc EXCEPT ![t] = "sleep"]
          /\ sleepers' = Append(sleepers, t) /\ UNCHANGED <<state, owner, recursion>>
      BY <1>5, <2>2 DEF FutexWait, Goto
    <3>2. sleepers \in Seq(Thread) /\ pc \in [Thread -> PCs] /\ Queued
      BY DEF TypeOK
    <3>3. /\ sleepers' \in Seq(Thread) /\ Len(sleepers') = Len(sleepers) + 1
          /\ \A i \in 1..Len(sleepers) : sleepers'[i] = sleepers[i]
          /\ sleepers'[Len(sleepers) + 1] = t
      BY <3>1, <3>2, AppendProperties
    <3>4. \A i \in 1..Len(sleepers) : sleepers[i] # t /\ pc[sleepers[i]] = "sleep"
      BY <3>1, <3>2, LenProperties DEF Queued
    <3>5. Queued'
      BY <3>1, <3>2, <3>3, <3>4, ElementOfSeq, LenProperties DEF Queued
    <3>6. pc' \in [Thread -> PCs]
      BY <3>1, <3>2
    <3> QED BY <3>1, <3>3, <3>5, <3>6 DEF TypeOK
  <2> QED BY <2>1, <2>2
<1>6. ASSUME NEW t \in Thread, FutexInterrupted(t) PROVE TypeOK'
  <2>1. PICK i \in 1..Len(sleepers) :
             sleepers[i] = t /\ sleepers' = RemoveAt(sleepers, i)
    BY <1>6, LenProperties DEF FutexInterrupted
  <2>2. sleepers' \in Seq(Thread)
    BY <2>1, RemoveAtType
  <2>3. /\ Len(sleepers') = Len(sleepers) - 1
        /\ \A k \in 1..(Len(sleepers) - 1) :
             sleepers'[k] = IF k < i THEN sleepers[k] ELSE sleepers[k+1]
    BY <2>1, RemoveAtElements
  <2>4. pc' = [pc EXCEPT ![t] = "retry"] /\ UNCHANGED <<state, owner, recursion>>
    BY <1>6 DEF FutexInterrupted, Goto
  <2>5. \A k \in 1..(Len(sleepers) - 1) :
          \E m \in 1..Len(sleepers) : /\ sleepers'[k] = sleepers[m] /\ m # i
                                     /\ m = IF k < i THEN k ELSE k + 1
    BY <2>1, <2>3, LenProperties
  <2>6. Queued'
    <3>1. ASSUME NEW k \in DOMAIN sleepers' PROVE pc'[sleepers'[k]] = "sleep"
      <4>1. k \in 1..(Len(sleepers) - 1)
        BY <2>2, <2>3, LenProperties
      <4>2. PICK m \in 1..Len(sleepers) : sleepers'[k] = sleepers[m] /\ m # i
        BY <4>1, <2>5
      <4>3. sleepers[m] # t /\ pc[sleepers[m]] = "sleep" /\ sleepers[m] \in Thread
        BY <4>2, <2>1, LenProperties, ElementOfSeq DEF Queued
      <4> QED BY <4>2, <4>3, <2>4
    <3>2. ASSUME NEW k \in DOMAIN sleepers', NEW l \in DOMAIN sleepers',
                 sleepers'[k] = sleepers'[l]
          PROVE  k = l
      <4>1. k \in 1..(Len(sleepers) - 1) /\ l \in 1..(Len(sleepers) - 1)
        BY <2>2, <2>3, LenProperties
      <4>2. PICK m \in 1..Len(sleepers) :
              sleepers'[k] = sleepers[m] /\ m = IF k < i THEN k ELSE k + 1
        BY <4>1, <2>5
      <4>3. PICK n \in 1..Len(sleepers) :
              sleepers'[l] = sleepers[n] /\ n = IF l < i THEN l ELSE l + 1
        BY <4>1, <2>5
      <4>4. m = n
        <5>1. m \in DOMAIN sleepers /\ n \in DOMAIN sleepers
          BY LenProperties
        <5> HIDE DEF TypeOK, PCs
        <5>2. Queued
          BY DEF TypeOK
        <5> QED BY <3>2, <4>2, <4>3, <5>1, <5>2 DEF Queued
      <4> QED BY <4>1, <4>2, <4>3, <4>4
    <3> QED BY <3>1, <3>2 DEF Queued
  <2> QED BY <2>2, <2>4, <2>6
<1>7. ASSUME NEW t \in Thread, Enter(t) PROVE TypeOK'
  BY <1>0, <1>7 DEF Enter
<1>8. ASSUME NEW t \in Thread, UnlockInner(t) PROVE TypeOK'
  BY <1>8 DEF UnlockInner, Queued
<1>9. ASSUME NEW t \in Thread, UnlockOuter(t) PROVE TypeOK'
  BY <1>0, <1>9 DEF UnlockOuter
<1>10. ASSUME NEW t \in Thread, SwapOut(t) PROVE TypeOK'
  BY <1>0, <1>10 DEF SwapOut
<1>11. ASSUME NEW t \in Thread, FutexWake(t) PROVE TypeOK'
  <2>1. CASE sleepers = <<>>
    BY <1>11, <2>1 DEF FutexWake, Queued
  <2>2. CASE sleepers # <<>>
    <3>1. /\ pc[t] = "wake" /\ sleepers' = Tail(sleepers)
          /\ pc' = [pc EXCEPT ![t] = "out", ![Head(sleepers)] = "retry"]
          /\ UNCHANGED <<state, owner, recursion>>
      BY <1>11, <2>2 DEF FutexWake
    <3>2. /\ sleepers' \in Seq(Thread) /\ Len(sleepers') = Len(sleepers) - 1
          /\ Head(sleepers) = sleepers[1] /\ Head(sleepers) \in Thread
          /\ \A k \in 1..(Len(sleepers) - 1) : sleepers'[k] = sleepers[k+1]
      <4> HIDE DEF TypeOK, PCs
      <4>1. sleepers \in Seq(Thread)
        BY DEF TypeOK
      <4>2. Head(sleepers) = sleepers[1]
        BY <4>1, <2>2
      <4> QED BY <4>1, <4>2, <2>2, <3>1, HeadTailProperties
    <3>3. DOMAIN sleepers' = 1..(Len(sleepers) - 1) /\ DOMAIN sleepers = 1..Len(sleepers)
      BY <3>2, LenProperties
    <3>4. \A k \in 1..(Len(sleepers) - 1) :
             /\ k + 1 \in 1..Len(sleepers) /\ sleepers[k+1] \in Thread
             /\ sleepers[k+1] # sleepers[1] /\ sleepers[k+1] # t
             /\ pc[sleepers[k+1]] = "sleep"
      BY <3>1, <3>3, LenProperties, ElementOfSeq DEF Queued
    <3>5. Queued'
      BY <3>1, <3>2, <3>3, <3>4 DEF Queued
    <3>6. pc' \in [Thread -> PCs]
      BY <3>1, <3>2
    <3> QED BY <3>1, <3>2, <3>5, <3>6
  <2> QED BY <2>1, <2>2
<1>12. ASSUME NEW t \in Thread, TryLock(t) PROVE TypeOK'
  BY <1>0, <1>12 DEF TryLock
<1>13. CASE UNCHANGED vars
  BY <1>13 DEF vars, Queued
<1> QED
  BY <1>1, <1>2, <1>3, <1>4, <1>5, <1>6, <1>7, <1>8, <1>9, <1>10, <1>11, <1>12, <1>13
  DEF Next, Step, LockStep, UnlockStep

\* The thread that futex_wake(1) picks was asleep: it is not inside the region.
LEMMA HeadSleeps ==
  ASSUME TypeOK, sleepers # <<>>
  PROVE  Head(sleepers) \in Thread /\ pc[Head(sleepers)] = "sleep"
BY HeadTailProperties, LenProperties, EmptySeq DEF TypeOK, Queued

LEMMA ExclusionStep ==
  IInv /\ [Next]_vars => MutualExclusion' /\ OwnerCounts'
<1> DEFINE Goal == MutualExclusion /\ OwnerCounts
<1> SUFFICES ASSUME IInv, [Next]_vars PROVE Goal'
  OBVIOUS
<1> USE ThreadAssumption DEF IInv, TypeOK, MutualExclusion, OwnerCounts, Inside
<1>1. ASSUME NEW t \in Thread, LockRecursive(t) PROVE Goal'
  BY <1>1 DEF LockRecursive
<1>2. ASSUME NEW t \in Thread, LockBegin(t) PROVE Goal'
  BY <1>2 DEF LockBegin, Goto
<1>3. ASSUME NEW t \in Thread, FastCas(t) \/ Spin(t) \/ Retry(t) PROVE Goal'
  BY <1>3 DEF FastCas, Spin, Retry, CasFromZero, Goto
<1>4. ASSUME NEW t \in Thread, MarkContended(t) PROVE Goal'
  BY <1>4 DEF MarkContended, Goto
<1>5. ASSUME NEW t \in Thread, FutexWait(t) PROVE Goal'
  BY <1>5 DEF FutexWait, Goto
<1>6. ASSUME NEW t \in Thread, FutexInterrupted(t) PROVE Goal'
  BY <1>6 DEF FutexInterrupted, Goto
<1>7. ASSUME NEW t \in Thread, Enter(t) PROVE Goal'
  BY <1>7 DEF Enter, Goto
<1>8. ASSUME NEW t \in Thread, UnlockInner(t) \/ UnlockOuter(t) PROVE Goal'
  BY <1>8 DEF UnlockInner, UnlockOuter, Goto
<1>9. ASSUME NEW t \in Thread, SwapOut(t) PROVE Goal'
  BY <1>9 DEF SwapOut, Goto
<1>10. ASSUME NEW t \in Thread, FutexWake(t) PROVE Goal'
  BY <1>10, HeadSleeps DEF FutexWake
<1>11. ASSUME NEW t \in Thread, TryLock(t) PROVE Goal'
  BY <1>11 DEF TryLock, Goto
<1>12. CASE UNCHANGED vars
  BY <1>12 DEF vars
<1> QED
  BY <1>1, <1>2, <1>3, <1>4, <1>5, <1>6, <1>7, <1>8, <1>9, <1>10, <1>11, <1>12
  DEF Next, Step, LockStep, UnlockStep

LEMMA WakeupStep == IInv /\ [Next]_vars => NoLostWakeup'
<1> SUFFICES ASSUME IInv, [Next]_vars PROVE NoLostWakeup'
  OBVIOUS
<1> USE DEF IInv, NoLostWakeup
<1>0. state \in 0..2 /\ pc \in [Thread -> PCs] /\ sleepers \in Seq(Thread)
  BY DEF TypeOK
<1>1. ASSUME NEW t \in Thread,
             \/ LockRecursive(t) \/ LockBegin(t) \/ Enter(t)
             \/ UnlockInner(t) \/ UnlockOuter(t)
      PROVE  NoLostWakeup'
  BY <1>0, <1>1 DEF LockRecursive, LockBegin, Enter, UnlockInner, UnlockOuter, Goto
\* A newcomer takes the lock with a 1: the witness is another thread.
<1>2. ASSUME NEW t \in Thread, FastCas(t) \/ Spin(t) \/ TryLock(t)
      PROVE  NoLostWakeup'
  BY <1>0, <1>2 DEF FastCas, Spin, TryLock, CasFromZero, Goto, PCs
\* The woken thread takes it with a 2, or goes on to write one.
<1>3. ASSUME NEW t \in Thread, Retry(t) PROVE NoLostWakeup'
  BY <1>0, <1>3 DEF Retry, CasFromZero, Goto, PCs
<1>4. ASSUME NEW t \in Thread, MarkContended(t) PROVE NoLostWakeup'
  BY <1>4 DEF MarkContended
<1>5. ASSUME NEW t \in Thread, FutexWait(t) PROVE NoLostWakeup'
  BY <1>0, <1>5 DEF FutexWait, Goto
<1>6. ASSUME NEW t \in Thread, FutexInterrupted(t) PROVE NoLostWakeup'
  BY <1>0, <1>6 DEF FutexInterrupted, Goto
\* The unlocker either owes a wake or leaves the witness where it is.
<1>7. ASSUME NEW t \in Thread, SwapOut(t) PROVE NoLostWakeup'
  BY <1>0, <1>7 DEF SwapOut, Goto
<1>8. ASSUME NEW t \in Thread, FutexWake(t) PROVE NoLostWakeup'
  <2>1. CASE sleepers = <<>>
    BY <1>8, <2>1 DEF FutexWake
  <2>2. CASE sleepers # <<>>
    <3>1. Head(sleepers) \in Thread
      BY <2>2, HeadSleeps
    <3>2. pc'[Head(sleepers)] = "retry"
      BY <1>0, <1>8, <2>2, <3>1 DEF FutexWake
    <3> QED BY <3>1, <3>2
  <2> QED BY <2>1, <2>2
<1>9. CASE UNCHANGED vars
  BY <1>9 DEF vars
<1> QED
  BY <1>1, <1>2, <1>3, <1>4, <1>5, <1>6, <1>7, <1>8, <1>9
  DEF Next, Step, LockStep, UnlockStep

(* Every reachable state, with any number of threads and any nesting, has  *)
(* the four invariants the run checks on three threads.                    *)
THEOREM Safety == Spec => [](TypeOK /\ MutualExclusion /\ OwnerCounts /\ NoLostWakeup)
<1>1. Init => IInv
  BY InitIInv
<1>2. IInv /\ [Next]_vars => IInv'
  BY TypeStep, ExclusionStep, WakeupStep DEF IInv
<1> QED BY <1>1, <1>2, PTL DEF Spec, IInv

------------------------------------------------------------------------------
(* Refinement: which thread the abstract lock is held by. *)

LEMMA HolderIs ==
  ASSUME IInv, NEW t \in Thread, Inside(t)
  PROVE  holder = t
BY DEF holder, IInv, MutualExclusion

LEMMA HolderIsNone ==
  ASSUME IInv, \A t \in Thread : ~Inside(t)
  PROVE  holder = NoThread /\ depth = 0
BY DEF holder, depth

(* xe_global_mutex implements the recursive lock its callers rely on: the  *)
(* abstract lock is acquired by the compare-exchange or exchange that wins *)
(* state_, re-entered and left by the owner alone, and released by the     *)
(* exchange(0) of the outermost unlock.                                    *)
THEOREM Implements == Spec => ImplementsLock
<1>1. Init => Lock!Init
  BY ThreadAssumption DEF Init, Lock!Init, holder, depth, Inside
<1>2. IInv /\ IInv' /\ [Next]_vars => [Lock!Next]_<<holder, depth>>
  <2> SUFFICES ASSUME IInv, IInv', [Next]_vars
               PROVE  Lock!Next \/ UNCHANGED <<holder, depth>>
    OBVIOUS
  <2>0. /\ pc \in [Thread -> PCs] /\ owner \in Thread \cup {NoThread}
        /\ recursion \in Nat /\ state \in 0..2
    BY DepthAssumption DEF IInv, TypeOK
  \* Any step after which the same thread, or none, is inside at the same depth.
  <2>1. ASSUME \A t \in Thread : Inside(t)' <=> Inside(t),
               \A t \in Thread : Inside(t) =>
                  (IF pc[t] = "out" THEN recursion ELSE 1)
                     = (IF pc[t] = "out" THEN recursion ELSE 1)'
        PROVE  UNCHANGED <<holder, depth>>
    <3>1. CASE \E t \in Thread : Inside(t)
      <4>1. PICK t \in Thread : Inside(t)
        BY <3>1
      <4>2. Inside(t)'
        BY <4>1, <2>1
      <4>3. holder = t
        BY <4>1, HolderIs
      <4>4. holder' = t
        BY <4>2 DEF holder, IInv, MutualExclusion
      <4>5. t # NoThread
        BY ThreadAssumption
      <4> QED BY <2>1, <4>1, <4>3, <4>4, <4>5 DEF depth
    <3>2. CASE \A t \in Thread : ~Inside(t)
      <4>1. \A t \in Thread : ~Inside(t)'
        BY <3>2, <2>1
      <4>2. holder = NoThread /\ holder' = NoThread
        BY <3>2, <4>1 DEF holder
      <4> QED BY <4>2 DEF depth
    <3> QED BY <3>1, <3>2
  <2>2. ASSUME NEW t \in Thread, state = 0, pc' = [pc EXCEPT ![t] = "enter"],
               UNCHANGED owner
        PROVE  Lock!Acquire(t)
    <3>1. \A u \in Thread : ~Inside(u)
      BY <2>2 DEF IInv, MutualExclusion
    <3>2. holder = NoThread
      BY <3>1 DEF holder
    <3>3. pc'[t] = "enter" /\ Inside(t)'
      BY <2>0, <2>2 DEF Inside
    <3>4. holder' = t
      BY <3>3 DEF holder, IInv, MutualExclusion
    <3>5. depth' = 1
      BY <3>3, <3>4, ThreadAssumption DEF depth
    <3> QED BY <3>2, <3>4, <3>5 DEF Lock!Acquire
  <2>3. ASSUME NEW t \in Thread, owner = t, pc[t] = "out", UNCHANGED <<pc, owner>>
        PROVE  /\ holder = t /\ holder' = t
               /\ depth = recursion /\ depth' = recursion'
    <3>1. Inside(t) /\ Inside(t)'
      BY <2>3 DEF Inside
    <3>2. holder = t
      BY <3>1, HolderIs
    <3>3. holder' = t
      BY <3>1 DEF holder, IInv, MutualExclusion
    <3> QED BY <2>3, <3>2, <3>3, ThreadAssumption DEF depth
  <2>4. ASSUME NEW t \in Thread, LockRecursive(t) PROVE Lock!Reacquire(t)
    BY <2>3, <2>4 DEF LockRecursive, Lock!Reacquire
  <2>5. ASSUME NEW t \in Thread, UnlockInner(t) PROVE Lock!Leave(t)
    BY <2>3, <2>5 DEF UnlockInner, Lock!Leave
  <2>6. ASSUME NEW t \in Thread, LockBegin(t) PROVE UNCHANGED <<holder, depth>>
    <3>1. \A u \in Thread : Inside(u) => u # t
      BY <2>6, <2>0 DEF LockBegin, Goto, Inside
    <3> QED BY <2>0, <2>1, <2>6, <3>1 DEF LockBegin, Goto, Inside
  <2>7. ASSUME NEW t \in Thread, FastCas(t) \/ Spin(t) \/ Retry(t)
        PROVE  Lock!Acquire(t) \/ UNCHANGED <<holder, depth>>
    <3>1. CASE state = 0
      BY <2>2, <2>7, <3>1 DEF FastCas, Spin, Retry, CasFromZero, Goto
    <3>2. CASE state # 0
      <4>1. PICK from \in {"cas", "spin", "retry"}, to \in {"spin", "mark"} :
               /\ pc[t] = from /\ pc' = [pc EXCEPT ![t] = to]
               /\ UNCHANGED <<owner, recursion>>
        BY <2>7, <3>2 DEF FastCas, Spin, Retry, CasFromZero, Goto
      <4>2. owner # t
        BY <4>1 DEF IInv, OwnerCounts
      <4> QED BY <2>0, <2>1, <4>1, <4>2 DEF Inside
    <3> QED BY <3>1, <3>2
  <2>8. ASSUME NEW t \in Thread, MarkContended(t)
        PROVE  Lock!Acquire(t) \/ UNCHANGED <<holder, depth>>
    <3>1. CASE state = 0
      BY <2>2, <2>8, <3>1 DEF MarkContended, Goto
    <3>2. CASE state # 0
      <4>1. owner # t
        BY <2>8 DEF MarkContended, Goto, IInv, OwnerCounts
      <4> QED BY <2>0, <2>1, <2>8, <3>2, <4>1 DEF MarkContended, Goto, Inside
    <3> QED BY <3>1, <3>2
  <2>9. ASSUME NEW t \in Thread, FutexWait(t) \/ FutexInterrupted(t)
        PROVE  UNCHANGED <<holder, depth>>
    <3>1. owner # t
      BY <2>9 DEF FutexWait, FutexInterrupted, Goto, IInv, OwnerCounts
    <3> QED BY <2>0, <2>1, <2>9, <3>1 DEF FutexWait, FutexInterrupted, Goto, Inside
  <2>10. ASSUME NEW t \in Thread, Enter(t) PROVE UNCHANGED <<holder, depth>>
    <3>1. Inside(t)
      BY <2>10 DEF Enter, Goto, Inside
    <3>2. \A u \in Thread : Inside(u) => u = t
      BY <3>1 DEF IInv, MutualExclusion
    <3>3. pc'[t] = "out" /\ owner' = t /\ recursion' = 1 /\ pc[t] = "enter"
      BY <2>0, <2>10 DEF Enter, Goto
    <3>4. \A u \in Thread : u # t => pc'[u] = pc[u]
      BY <2>0, <2>10 DEF Enter, Goto
    <3> QED BY <2>1, <3>1, <3>2, <3>3, <3>4 DEF Inside
  <2>11. ASSUME NEW t \in Thread, UnlockOuter(t) PROVE UNCHANGED <<holder, depth>>
    <3>1. Inside(t) /\ pc[t] = "out" /\ owner = t /\ recursion = 1
      BY <2>11 DEF UnlockOuter, Goto, Inside
    <3>2. \A u \in Thread : Inside(u) => u = t
      BY <3>1 DEF IInv, MutualExclusion
    <3>3. pc'[t] = "swap" /\ owner' = NoThread
      BY <2>0, <2>11 DEF UnlockOuter, Goto
    <3>4. \A u \in Thread : u # t => pc'[u] = pc[u]
      BY <2>0, <2>11 DEF UnlockOuter, Goto
    <3> QED BY <2>1, <3>1, <3>2, <3>3, <3>4, ThreadAssumption DEF Inside
  <2>12. ASSUME NEW t \in Thread, SwapOut(t) PROVE Lock!Release(t)
    <3>1. Inside(t) /\ pc[t] = "swap"
      BY <2>12 DEF SwapOut, Goto, Inside
    <3>2. holder = t /\ depth = 1
      BY <3>1, HolderIs, ThreadAssumption DEF depth
    <3>3. state' = 0
      BY <2>12 DEF SwapOut
    <3>4. \A u \in Thread : ~Inside(u)'
      BY <3>3 DEF IInv, MutualExclusion
    <3>5. holder' = NoThread
      BY <3>4 DEF holder
    <3> QED BY <3>2, <3>5 DEF depth, Lock!Release
  <2>13. ASSUME NEW t \in Thread, FutexWake(t) PROVE UNCHANGED <<holder, depth>>
    <3>1. owner # t
      BY <2>13 DEF FutexWake, IInv, OwnerCounts
    <3>2. sleepers # <<>> => /\ Head(sleepers) \in Thread
                             /\ pc[Head(sleepers)] = "sleep"
                             /\ owner # Head(sleepers)
      BY HeadSleeps DEF IInv, OwnerCounts
    <3> QED BY <2>0, <2>1, <2>13, <3>1, <3>2 DEF FutexWake, Inside
  <2>14. ASSUME NEW t \in Thread, TryLock(t) PROVE Lock!Acquire(t)
    BY <2>2, <2>14 DEF TryLock, Goto
  <2>15. CASE UNCHANGED vars
    BY <2>15 DEF vars, holder, depth, Inside
  <2> QED
    BY <2>4, <2>5, <2>6, <2>7, <2>8, <2>9, <2>10, <2>11, <2>12, <2>13, <2>14, <2>15
    DEF Next, Step, LockStep, UnlockStep, Lock!Next
<1>3. Spec => []IInv
  BY Safety DEF IInv
<1> QED BY <1>1, <1>2, <1>3, PTL DEF Spec, ImplementsLock, Lock!Spec, Lock!lockVars
==============================================================================
