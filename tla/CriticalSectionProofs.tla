------------------------ MODULE CriticalSectionProofs -------------------------
(***************************************************************************)
(* For any number of guest threads and any nesting: a critical section     *)
(* excludes, its lock_count is exact in every intermediate state, and it   *)
(* implements RecursiveLock.  That the count is exact leaves no waiter     *)
(* without somebody to wake it.                                            *)
(***************************************************************************)
EXTENDS CriticalSection, FiniteSetTheorems, TLAPS

Waiters == {t \in Thread : pc[t] = "wait"}

IInv == /\ TypeOK /\ Exclusion /\ NoOwnerOnEntry /\ OwnerCounts
        /\ LockCountExact

LEMMA WaitersFinite == IsFiniteSet(Waiters) /\ Cardinality(Waiters) \in Nat
<1>1. IsFiniteSet(Waiters)
  BY ThreadAssumption, FS_Subset DEF Waiters
<1> QED BY <1>1, FS_CardinalityType

\* How a step of one thread changes the number of waiters.
LEMMA WaitersStep ==
  ASSUME NEW t \in Thread, NEW from \in PCs, NEW to \in PCs,
         pc \in [Thread -> PCs], Goto(t, from, to)
  PROVE  /\ from # "wait" /\ to # "wait" => Cardinality(Waiters') = Cardinality(Waiters)
         /\ from # "wait" /\ to = "wait" => Cardinality(Waiters') = Cardinality(Waiters) + 1
         /\ from = "wait" /\ to # "wait" => Cardinality(Waiters') = Cardinality(Waiters) - 1
<1>1. ASSUME from # "wait", to # "wait"
      PROVE  Cardinality(Waiters') = Cardinality(Waiters)
  <2>1. Waiters' = Waiters
    BY <1>1 DEF Waiters, Goto
  <2> QED BY <2>1
<1>2. ASSUME from # "wait", to = "wait"
      PROVE  Cardinality(Waiters') = Cardinality(Waiters) + 1
  <2>1. Waiters' = Waiters \cup {t} /\ t \notin Waiters
    BY <1>2 DEF Waiters, Goto
  <2> QED BY <2>1, WaitersFinite, FS_AddElement
<1>3. ASSUME from = "wait", to # "wait"
      PROVE  Cardinality(Waiters') = Cardinality(Waiters) - 1
  <2>1. Waiters' = Waiters \ {t} /\ t \in Waiters
    BY <1>3 DEF Waiters, Goto
  <2> QED BY <2>1, WaitersFinite, FS_RemoveElement
<1> QED BY <1>1, <1>2, <1>3

LEMMA InitIInv == Init => IInv
<1> SUFFICES ASSUME Init PROVE IInv
  OBVIOUS
<1>1. TypeOK
  <2>1. lock_count = -1 /\ recursion_count = 0 /\ 0 \in 0..MaxDepth
    BY DepthAssumption DEF Init
  <2>2. pc \in [Thread -> PCs]
    BY DEF Init, PCs
  <2>3. lock_count \in Int /\ lock_count >= -1 /\ recursion_count \in 0..MaxDepth
    BY <2>1
  <2>4. owning_thread \in Thread \cup {NoThread} /\ signaled \in BOOLEAN
    BY DEF Init
  <2> QED BY <2>2, <2>3, <2>4 DEF TypeOK
<1>2. Exclusion /\ NoOwnerOnEntry /\ OwnerCounts
  BY ThreadAssumption DEF Init, Exclusion, NoOwnerOnEntry, OwnerCounts, Inside
<1>3. LockCountExact
  <2>1. {t \in Thread : pc[t] = "wait"} = {} /\ Held = 0
    BY DEF Init, Held
  <2> QED BY <2>1, FS_EmptySet DEF Init, LockCountExact
<1> QED BY <1>1, <1>2, <1>3 DEF IInv

\* What the proof needs of a state to know how deep the thread inside is.
Shape == /\ pc \in [Thread -> PCs] /\ owning_thread \in Thread \cup {NoThread}
         /\ recursion_count \in Nat
         /\ Exclusion /\ NoOwnerOnEntry /\ OwnerCounts

HeldFacts ==
  /\ Held \in Nat
  /\ \A t \in Thread :
       /\ pc[t] = "recount" => Held = recursion_count + 1
       /\ owning_thread = t /\ pc[t] = "out" => Held = recursion_count
       /\ pc[t] \in {"own", "leave"} => Held = 1
       /\ pc[t] = "set" => Held = 0
  /\ (\A t \in Thread : ~Inside(t)) => Held = 0

\* The state of the thread inside determines Held.
LEMMA HeldValue == Shape => HeldFacts
<1> SUFFICES ASSUME Shape PROVE HeldFacts
  OBVIOUS
<1> USE DEF Shape
<1>1. ASSUME NEW t \in Thread, pc[t] \in {"own", "leave", "set"}
      PROVE  /\ owning_thread = NoThread
             /\ \A u \in Thread : u # t => pc[u] \notin {"own", "leave", "set", "recount"}
  BY <1>1 DEF Exclusion, NoOwnerOnEntry, Inside
<1>2. ASSUME NEW t \in Thread, pc[t] = "recount"
      PROVE  owning_thread = t
  BY <1>2 DEF OwnerCounts
<1>3. Held \in Nat
  BY DEF Held
<1>4. ASSUME NEW t \in Thread, owning_thread = t, pc[t] = "out"
      PROVE  Held = recursion_count
  BY <1>4, <1>2, ThreadAssumption DEF Held
<1>5. ASSUME NEW t \in Thread, pc[t] \in {"own", "leave"}
      PROVE  Held = 1
  BY <1>1, <1>5 DEF Held
<1>6. ASSUME NEW t \in Thread, pc[t] = "set"
      PROVE  Held = 0
  BY <1>1, <1>6 DEF Held
<1>7. ASSUME \A t \in Thread : ~Inside(t) PROVE Held = 0
  BY <1>7 DEF Held, Inside
<1>8. ASSUME NEW t \in Thread, pc[t] = "recount" PROVE Held = recursion_count + 1
  BY <1>8 DEF Held
<1> QED BY <1>3, <1>4, <1>5, <1>6, <1>7, <1>8 DEF HeldFacts

LEMMA HeldValueNext == Shape' => HeldFacts'
BY HeldValue, PTL

LEMMA ShapeOf == IInv => Shape
BY DepthAssumption DEF IInv, TypeOK, Shape

\* The parts of the invariant that exclude, and all of the types but the
\* lower bound of lock_count, which needs the count.
LEMMA ShapeStep ==
  ASSUME IInv, NEW t \in Thread, Step(t)
  PROVE  /\ Shape'
         /\ lock_count' \in Int /\ signaled' \in BOOLEAN
         /\ recursion_count' \in 0..MaxDepth
<1> USE DepthAssumption, ThreadAssumption
<1>0. /\ lock_count \in Int /\ lock_count >= -1
      /\ pc \in [Thread -> PCs] /\ owning_thread \in Thread \cup {NoThread}
      /\ recursion_count \in 0..MaxDepth /\ signaled \in BOOLEAN
      /\ Exclusion /\ NoOwnerOnEntry /\ OwnerCounts
  BY DEF IInv, TypeOK
<1>1. HeldFacts /\ lock_count + 1 = Held + Cardinality(Waiters)
  BY ShapeOf, HeldValue DEF IInv, LockCountExact, Waiters
<1> DEFINE Goal == /\ Shape'
                   /\ lock_count' \in Int /\ signaled' \in BOOLEAN
                   /\ recursion_count' \in 0..MaxDepth
<1> USE <1>0 DEF Goto, PCs, Shape, Exclusion, NoOwnerOnEntry, OwnerCounts, Inside
<1>2. CASE EnterAgain(t)
  BY <1>2 DEF EnterAgain
<1>3. CASE Enter(t)
  BY <1>3 DEF Enter
<1>4. CASE SpinAcquire(t)
  BY <1>4 DEF SpinAcquire
<1>5. CASE Increment(t)
  BY <1>5 DEF Increment
<1>6. CASE Own(t)
  BY <1>6 DEF Own
<1>7. CASE Wake(t)
  <2>1. /\ signaled /\ ~signaled' /\ pc[t] = "wait" /\ pc' = [pc EXCEPT ![t] = "own"]
        /\ UNCHANGED <<lock_count, recursion_count, owning_thread>>
    BY <1>7 DEF Wake
  <2>2. \A u \in Thread : ~Inside(u)
    BY <2>1
  <2>3. owning_thread = NoThread /\ lock_count # -1
    BY <2>1, <2>2
  <2>4. Exclusion'
    BY <2>1, <2>2, <2>3
  <2>5. NoOwnerOnEntry' /\ OwnerCounts'
    BY <2>1, <2>2, <2>3
  <2>6. signaled' \in BOOLEAN
    BY <1>7 DEF Wake
  <2> QED BY <2>1, <2>4, <2>5, <2>6
<1>8. CASE TryEnter(t)
  BY <1>8 DEF TryEnter
<1>9. CASE LeaveInner(t)
  BY <1>9 DEF LeaveInner
<1>10. CASE LeaveOuter(t)
  BY <1>10 DEF LeaveOuter
<1>11. CASE Recount(t)
  <2>1. lock_count' >= 0
    BY <1>1, <1>11, WaitersFinite DEF Recount, HeldFacts
  <2> QED BY <1>11, <2>1 DEF Recount
<1>12. CASE Decrement(t)
  BY <1>12 DEF Decrement
<1>13. CASE SetEvent(t)
  BY <1>13 DEF SetEvent
<1> QED BY <1>2, <1>3, <1>4, <1>5, <1>6, <1>7, <1>8, <1>9, <1>10, <1>11, <1>12, <1>13
        DEF Step, EnterStep, LeaveStep

\* lock_count moves with the nesting depth of the thread inside and the
\* number of waiters.
LEMMA CountStep ==
  ASSUME IInv, NEW t \in Thread, Step(t)
  PROVE  LockCountExact'
<1>0. /\ Shape' /\ HeldFacts /\ HeldFacts'
      /\ lock_count + 1 = Held + Cardinality(Waiters)
      /\ Held \in Nat /\ Held' \in Nat
      /\ lock_count \in Int /\ recursion_count \in Nat
  BY ShapeOf, ShapeStep, HeldValue, HeldValueNext, DepthAssumption
  DEF IInv, TypeOK, LockCountExact, Waiters, HeldFacts
<1>1. Cardinality(Waiters) \in Nat /\ pc \in [Thread -> PCs]
  BY WaitersFinite DEF IInv, TypeOK
<1> SUFFICES lock_count' + 1 = Held' + Cardinality(Waiters')
  BY DEF LockCountExact, Waiters
\* In most actions the waiters stay as they are.
<1>2. ASSUME NEW from \in PCs \ {"wait"}, NEW to \in PCs \ {"wait"}, Goto(t, from, to)
      PROVE  Cardinality(Waiters') = Cardinality(Waiters) /\ pc'[t] = to
  BY <1>1, <1>2, WaitersStep DEF Goto
<1>3. CASE EnterAgain(t)
  <2>1. Waiters' = Waiters /\ pc[t] = "out" /\ pc'[t] = "out"
    BY <1>3 DEF EnterAgain, Waiters
  <2>2. owning_thread = t /\ owning_thread' = t
    BY <1>3 DEF EnterAgain
  <2>3. Held = recursion_count /\ Held' = recursion_count'
    BY <1>0, <2>1, <2>2 DEF HeldFacts
  <2> QED BY <1>0, <1>1, <1>3, <2>1, <2>3 DEF EnterAgain
<1>4. CASE Enter(t)
  <2>1. Cardinality(Waiters') = Cardinality(Waiters)
    BY <1>2, <1>4 DEF Enter, PCs
  <2>2. Held' = Held
    BY <1>1, <1>4 DEF Enter, Goto, Held
  <2> QED BY <1>0, <2>1, <2>2, <1>4 DEF Enter
<1>5. CASE SpinAcquire(t) \/ TryEnter(t)
  <2>1. Cardinality(Waiters') = Cardinality(Waiters) /\ pc'[t] = "own"
    BY <1>2, <1>5 DEF SpinAcquire, TryEnter, PCs
  <2>2. lock_count = -1 /\ lock_count' = 0
    BY <1>5 DEF SpinAcquire, TryEnter
  <2>3. Held = 0
    BY <1>0, <2>2 DEF IInv, Exclusion, HeldFacts
  <2>4. Held' = 1
    BY <1>0, <2>1 DEF HeldFacts
  <2> QED BY <1>0, <1>1, <2>1, <2>2, <2>3, <2>4
<1>6. CASE Increment(t)
  <2>1. lock_count' = lock_count + 1 /\ pc[t] = "spin"
    BY <1>6 DEF Increment, Goto
  <2>2. CASE lock_count = -1
    <3>1. Cardinality(Waiters') = Cardinality(Waiters) /\ pc'[t] = "own"
      BY <1>2, <1>6, <2>2, <2>1 DEF Increment, PCs
    <3>2. Held = 0
      BY <1>0, <2>2 DEF IInv, Exclusion, HeldFacts
    <3>3. Held' = 1
      BY <1>0, <3>1 DEF HeldFacts
    <3> QED BY <1>0, <1>1, <2>1, <3>1, <3>2, <3>3
  <2>3. CASE lock_count # -1
    <3>1. Goto(t, "spin", "wait")
      BY <1>0, <1>6, <2>1, <2>3 DEF Increment
    <3>2. Cardinality(Waiters') = Cardinality(Waiters) + 1
      BY <1>1, <3>1, WaitersStep DEF PCs
    <3>3. Held' = Held
      BY <1>1, <1>6, <3>1 DEF Increment, Goto, Held
    <3> QED BY <1>0, <1>1, <2>1, <3>2, <3>3
  <2> QED BY <2>2, <2>3
<1>7. CASE Own(t)
  <2>1. /\ Cardinality(Waiters') = Cardinality(Waiters)
        /\ pc[t] = "own" /\ pc'[t] = "out"
    BY <1>2, <1>7 DEF Own, Goto, PCs
  <2>2. owning_thread' = t /\ recursion_count' = 1 /\ lock_count' = lock_count
    BY <1>7 DEF Own
  <2>3. Held = 1 /\ Held' = 1
    BY <1>0, <2>1, <2>2 DEF HeldFacts
  <2> QED BY <1>0, <2>1, <2>2, <2>3
<1>8. CASE Wake(t)
  <2>1. Cardinality(Waiters') = Cardinality(Waiters) - 1 /\ pc'[t] = "own"
    BY <1>1, <1>8, WaitersStep DEF Wake, PCs, Goto
  <2>2. Held = 0
    BY <1>0, <1>8 DEF Wake, IInv, Exclusion, HeldFacts
  <2>3. Held' = 1
    BY <1>0, <2>1 DEF HeldFacts
  <2> QED BY <1>0, <1>1, <1>8, <2>1, <2>2, <2>3 DEF Wake
<1>9. CASE LeaveInner(t)
  <2>1. /\ Cardinality(Waiters') = Cardinality(Waiters)
        /\ pc[t] = "out" /\ pc'[t] = "recount"
    BY <1>2, <1>9 DEF LeaveInner, Goto, PCs
  <2>2. Held = recursion_count /\ Held' = recursion_count' + 1
    BY <1>0, <1>9, <2>1 DEF LeaveInner, HeldFacts
  <2> QED BY <1>0, <1>9, <2>1, <2>2 DEF LeaveInner
<1>10. CASE LeaveOuter(t)
  <2>1. /\ Cardinality(Waiters') = Cardinality(Waiters)
        /\ pc[t] = "out" /\ pc'[t] = "leave"
    BY <1>2, <1>10 DEF LeaveOuter, Goto, PCs
  <2>2. Held = recursion_count /\ recursion_count = 1 /\ Held' = 1
    BY <1>0, <1>10, <2>1 DEF LeaveOuter, HeldFacts
  <2> QED BY <1>0, <1>10, <2>1, <2>2 DEF LeaveOuter
<1>11. CASE Recount(t)
  <2>1. /\ Cardinality(Waiters') = Cardinality(Waiters)
        /\ pc[t] = "recount" /\ pc'[t] = "out"
    BY <1>2, <1>11 DEF Recount, Goto, PCs
  <2>2. owning_thread = t /\ owning_thread' = t
    BY <1>11, <2>1 DEF Recount, IInv, OwnerCounts
  <2>3. Held = recursion_count + 1 /\ Held' = recursion_count'
    BY <1>0, <2>1, <2>2 DEF HeldFacts
  <2>4. lock_count' = lock_count - 1 /\ recursion_count' = recursion_count
    BY <1>11 DEF Recount
  <2> QED BY <1>0, <1>1, <2>1, <2>3, <2>4
<1>12. CASE Decrement(t)
  <2>1. lock_count' = lock_count - 1 /\ pc[t] = "leave" /\ Held = 1
    BY <1>0, <1>12 DEF Decrement, Goto, HeldFacts
  <2>2. Held' = 0
    <3>1. CASE pc'[t] = "set"
      BY <1>0, <3>1 DEF HeldFacts
    <3>2. CASE pc'[t] # "set"
      <4>1. lock_count' = -1
        BY <1>1, <1>12, <3>2 DEF Decrement, Goto
      <4> QED BY <1>0, <4>1 DEF Shape, Exclusion, HeldFacts
    <3> QED BY <3>1, <3>2
  <2>3. Cardinality(Waiters') = Cardinality(Waiters)
    BY <1>2, <1>12 DEF Decrement, PCs
  <2> QED BY <1>0, <1>1, <2>1, <2>2, <2>3
<1>13. CASE SetEvent(t)
  <2>1. /\ Cardinality(Waiters') = Cardinality(Waiters)
        /\ pc[t] = "set" /\ lock_count' = lock_count
    BY <1>2, <1>13 DEF SetEvent, Goto, PCs
  <2>2. Held = 0 /\ Held' = 0
    BY <1>0, <1>13, <2>1 DEF SetEvent, Shape, Exclusion, HeldFacts
  <2> QED BY <1>0, <2>1, <2>2
<1> QED BY <1>3, <1>4, <1>5, <1>6, <1>7, <1>8, <1>9, <1>10, <1>11, <1>12, <1>13
        DEF Step, EnterStep, LeaveStep

LEMMA InvStep == IInv /\ [Next]_vars => IInv'
<1> SUFFICES ASSUME IInv, [Next]_vars PROVE IInv'
  OBVIOUS
<1>1. ASSUME NEW t \in Thread, Step(t) PROVE IInv'
  <2>1. Shape' /\ LockCountExact' /\ lock_count' \in Int /\ signaled' \in BOOLEAN
        /\ recursion_count' \in 0..MaxDepth
    BY <1>1, ShapeStep, CountStep
  <2>2. Held' \in Nat /\ Cardinality(Waiters)' \in Nat
    <3>1. Cardinality(Waiters)' \in Nat
      <4>1. IsFiniteSet(Waiters')
        BY ThreadAssumption, FS_Subset DEF Waiters
      <4> QED BY <4>1, FS_CardinalityType
    <3> QED BY <2>1, <3>1, HeldValueNext DEF HeldFacts
  <2>3. lock_count' >= -1
    BY <2>1, <2>2 DEF LockCountExact, Waiters
  <2>4. TypeOK'
    BY <2>1, <2>3 DEF TypeOK, Shape
  <2> QED BY <2>1, <2>4 DEF IInv, Shape
<1>2. CASE UNCHANGED vars
  BY <1>2 DEF vars, IInv, TypeOK, Exclusion, NoOwnerOnEntry, OwnerCounts,
              LockCountExact, Held, Inside
<1> QED BY <1>1, <1>2 DEF Next

LEMMA Invariance == Spec => []IInv
BY InitIInv, InvStep, PTL DEF Spec

(* Nobody enters an RTL_CRITICAL_SECTION while another thread is inside or *)
(* is handing it over, the new owner always finds owning_thread zero, and  *)
(* lock_count counts exactly the owner's levels and the waiters.           *)
THEOREM Safety ==
  Spec => [](TypeOK /\ Exclusion /\ NoOwnerOnEntry /\ OwnerCounts /\ LockCountExact)
BY Invariance, PTL DEF IInv

\* The converse of the last part of Exclusion: a section that looks taken is.
Taken == lock_count # -1 => signaled \/ \E t \in Thread : Inside(t)

LEMMA TakenStep ==
  ASSUME IInv, Taken, NEW t \in Thread, Step(t)
  PROVE  Taken'
<1>0. /\ lock_count \in Int /\ lock_count >= -1 /\ pc \in [Thread -> PCs]
      /\ OwnerCounts /\ NoOwnerOnEntry
  BY DEF IInv, TypeOK
<1> USE <1>0 DEF Goto
\* Whoever else is inside stays there.
<1>1. ASSUME NEW u \in Thread \ {t}, Inside(u) PROVE Inside(u)' \/ owning_thread' # owning_thread
  BY <1>1 DEF Inside, Step, EnterStep, LeaveStep, EnterAgain, Enter, SpinAcquire, Increment, Wake,
              Own, TryEnter, LeaveInner, Recount, LeaveOuter, Decrement, SetEvent
<1>2. CASE Inside(t)'
  BY <1>2 DEF Taken
<1>3. CASE Enter(t)
  <2>1. ~Inside(t) /\ UNCHANGED <<lock_count, signaled, owning_thread>>
    BY <1>3 DEF Enter, Inside
  <2> QED BY <1>1, <2>1 DEF Taken
<1>4. CASE Increment(t) /\ ~Inside(t)'
  <2>1. lock_count # -1 /\ UNCHANGED <<signaled, owning_thread>> /\ pc[t] = "spin"
    <3>1. lock_count = -1 => lock_count' = 0
      BY <1>4 DEF Increment
    <3> QED BY <1>4, <3>1 DEF Increment, Inside
  <2>2. ~Inside(t)
    BY <1>0, <2>1 DEF Inside, OwnerCounts
  <2> QED BY <1>1, <2>1, <2>2 DEF Taken
<1>5. CASE Decrement(t) /\ ~Inside(t)'
  BY <1>5 DEF Decrement, Inside, Taken
<1>6. CASE SetEvent(t)
  BY <1>6 DEF SetEvent, Taken
<1>7. \/ Enter(t) \/ SetEvent(t) \/ Inside(t)'
      \/ (Increment(t) \/ Decrement(t)) /\ ~Inside(t)'
  <2>1. CASE EnterAgain(t)
    BY <2>1 DEF EnterAgain, Inside
  <2>2. CASE SpinAcquire(t) \/ Wake(t) \/ TryEnter(t)
    BY <2>2 DEF SpinAcquire, Wake, TryEnter, Inside
  <2>3. CASE Own(t)
    BY <2>3 DEF Own, Inside
  <2>4. CASE LeaveInner(t) \/ LeaveOuter(t)
    BY <2>4 DEF LeaveInner, LeaveOuter, Inside
  <2>5. CASE Recount(t)
    BY <2>5 DEF Recount, OwnerCounts, Inside
  <2> QED BY <2>1, <2>2, <2>3, <2>4, <2>5 DEF Step, EnterStep, LeaveStep
<1> QED BY <1>2, <1>3, <1>4, <1>5, <1>6, <1>7

(* Whoever waits for the section has somebody to wake it: a thread inside, *)
(* which will find lock_count above -1 when it leaves, or the event, which *)
(* is set already (RtlLeaveCriticalSection).                               *)
THEOREM Remembered == Spec => []NoWaiterForgotten
<1>1. Init => Taken
  BY DEF Init, Taken
<1>2. IInv /\ Taken /\ [Next]_vars => Taken'
  <2>1. CASE UNCHANGED vars
    BY <2>1 DEF vars, Taken, Inside
  <2> QED BY <2>1, TakenStep DEF Next
<1>3. IInv /\ Taken => NoWaiterForgotten
  <2> SUFFICES ASSUME IInv, Taken, NEW t \in Thread, pc[t] = "wait"
               PROVE  signaled \/ \E u \in Thread : Inside(u)
    BY DEF NoWaiterForgotten
  <2>1. Held \in Nat /\ lock_count \in Int
    BY ShapeOf, HeldValue DEF HeldFacts, IInv, TypeOK
  <2>2. Waiters # {} /\ IsFiniteSet(Waiters) /\ Cardinality(Waiters) \in Nat
    BY WaitersFinite DEF Waiters
  <2>3. Cardinality(Waiters) # 0
    BY <2>2, FS_EmptySet
  <2>4. lock_count + 1 = Held + Cardinality(Waiters)
    BY DEF IInv, LockCountExact, Waiters
  <2> QED BY <2>1, <2>2, <2>3, <2>4 DEF Taken
<1> QED BY <1>1, <1>2, <1>3, Invariance, PTL DEF Spec

\* While t holds the section it is the holder; while nobody does it is free.
Mapped ==
  /\ \A t \in Thread : Holds(t) =>
       holder = t /\ depth = (IF owning_thread = t THEN recursion_count ELSE 1)
  /\ (\A t \in Thread : ~Holds(t)) => holder = NoThread /\ depth = 0

LEMMA MappedValue == Exclusion => Mapped
<1> SUFFICES ASSUME Exclusion PROVE Mapped
  OBVIOUS
<1>1. ASSUME NEW t \in Thread, Holds(t)
      PROVE  holder = t /\ depth = (IF owning_thread = t THEN recursion_count ELSE 1)
  <2>1. \A u \in Thread : Holds(u) <=> u = t
    BY <1>1 DEF Exclusion, Inside, Holds
  <2>2. holder = t /\ t # NoThread
    BY <2>1, ThreadAssumption DEF holder
  <2> QED BY <2>2 DEF depth
<1>2. ASSUME \A t \in Thread : ~Holds(t) PROVE holder = NoThread /\ depth = 0
  BY <1>2 DEF holder, depth
<1> QED BY <1>1, <1>2 DEF Mapped

LEMMA MappedNext == Exclusion' => Mapped'
BY MappedValue, PTL

(* The critical section implements the recursive lock, the hand-over       *)
(* through the event included: the decrement of lock_count releases it and *)
(* the waiter the event wakes acquires it.                                 *)
THEOREM Implements == Spec => ImplementsLock
<1>1. Init => Lock!Init
  BY ThreadAssumption DEF Init, Lock!Init, holder, depth, Holds
<1>2. IInv /\ IInv' /\ [Next]_vars => [Lock!Next]_<<holder, depth>>
  <2> SUFFICES ASSUME IInv, IInv', [Next]_vars
               PROVE  Lock!Next \/ UNCHANGED <<holder, depth>>
    OBVIOUS
  <2>0. /\ Mapped /\ Mapped' /\ Exclusion /\ NoOwnerOnEntry /\ OwnerCounts
        /\ pc \in [Thread -> PCs] /\ owning_thread \in Thread \cup {NoThread}
        /\ recursion_count \in Nat
    BY MappedValue, MappedNext, DepthAssumption DEF IInv, TypeOK
  \* A step of a thread that does not hold the section before or after.
  <2>1. ASSUME NEW t \in Thread, UNCHANGED <<owning_thread, recursion_count>>,
               NEW to \in PCs, pc' = [pc EXCEPT ![t] = to],
               ~Holds(t), ~Holds(t)'
        PROVE  UNCHANGED <<holder, depth>>
    <3>1. \A u \in Thread : Holds(u)' <=> Holds(u)
      BY <2>0, <2>1 DEF Holds
    <3> QED BY <2>0, <2>1, <3>1 DEF Mapped
  \* A step of the thread that holds the section, and still does.
  <2>2. ASSUME NEW t \in Thread, Holds(t), Holds(t)'
        PROVE  /\ holder = t /\ holder' = t
               /\ depth = (IF owning_thread = t THEN recursion_count ELSE 1)
               /\ depth' = (IF owning_thread' = t THEN recursion_count' ELSE 1)
    BY <2>0, <2>2 DEF Mapped
  \* A step that wins the section.
  <2>3. ASSUME NEW t \in Thread, \A u \in Thread : ~Holds(u),
               owning_thread' # t, Holds(t)'
        PROVE  Lock!Acquire(t)
    BY <2>0, <2>3 DEF Mapped, Lock!Acquire
  <2>4. ASSUME NEW t \in Thread, EnterAgain(t) PROVE Lock!Reacquire(t)
    BY <2>2, <2>4 DEF EnterAgain, Holds, Lock!Reacquire
  <2>5. ASSUME NEW t \in Thread, Enter(t) PROVE UNCHANGED <<holder, depth>>
    BY <2>0, <2>1, <2>5 DEF Enter, Goto, Holds, PCs
  <2>6. ASSUME NEW t \in Thread, lock_count = -1, UNCHANGED owning_thread,
               pc' = [pc EXCEPT ![t] = "own"]
        PROVE  Lock!Acquire(t)
    <3>1. \A u \in Thread : ~Inside(u)
      BY <2>0, <2>6 DEF Exclusion
    <3>2. pc'[t] = "own" /\ owning_thread' # t
      BY <2>0, <2>6, <3>1 DEF Inside
    <3> QED BY <2>3, <3>1, <3>2 DEF Inside, Holds
  <2>7. ASSUME NEW t \in Thread, Increment(t)
        PROVE  Lock!Acquire(t) \/ UNCHANGED <<holder, depth>>
    <3>0. /\ lock_count \in Int /\ lock_count' = lock_count + 1
          /\ pc[t] = "spin" /\ UNCHANGED <<owning_thread, recursion_count>>
          /\ pc' = [pc EXCEPT ![t] = IF lock_count' # 0 THEN "wait" ELSE "own"]
      BY <2>7 DEF Increment, Goto, IInv, TypeOK
    <3>1. CASE lock_count = -1
      <4>1. lock_count' = 0
        BY <3>0, <3>1
      <4>2. pc' = [pc EXCEPT ![t] = "own"]
        BY <3>0, <4>1
      <4> QED BY <2>6, <3>0, <3>1, <4>2
    <3>2. CASE lock_count # -1
      <4>1. /\ pc[t] = "spin" /\ pc' = [pc EXCEPT ![t] = "wait"]
            /\ UNCHANGED <<owning_thread, recursion_count>>
        <5>1. lock_count' # 0
          BY <3>0, <3>2
        <5> QED BY <3>0, <5>1
      <4>2. ~Holds(t) /\ ~Holds(t)'
        BY <2>0, <4>1 DEF Holds, OwnerCounts
      <4> QED BY <2>1, <4>1, <4>2 DEF PCs
    <3> QED BY <3>1, <3>2
  <2>8. ASSUME NEW t \in Thread, Own(t) PROVE UNCHANGED <<holder, depth>>
    <3>1. /\ pc[t] = "own" /\ owning_thread # t
          /\ owning_thread' = t /\ recursion_count' = 1
      BY <2>0, <2>8, ThreadAssumption DEF Own, Goto, NoOwnerOnEntry
    <3> QED BY <2>2, <3>1 DEF Holds
  <2>9. ASSUME NEW t \in Thread, Wake(t) PROVE Lock!Acquire(t)
    <3>1. \A u \in Thread : ~Inside(u)
      BY <2>0, <2>9 DEF Wake, Exclusion
    <3>2. pc'[t] = "own" /\ owning_thread' # t
      BY <2>0, <2>9, <3>1 DEF Wake, Goto, Inside
    <3> QED BY <2>3, <3>1, <3>2 DEF Inside, Holds
  <2>10. ASSUME NEW t \in Thread, LeaveInner(t) PROVE Lock!Leave(t)
    BY <2>2, <2>10 DEF LeaveInner, Holds, Lock!Leave
  <2>11. ASSUME NEW t \in Thread, LeaveOuter(t) PROVE UNCHANGED <<holder, depth>>
    <3>1. /\ pc'[t] = "leave" /\ owning_thread' # t
          /\ owning_thread = t /\ recursion_count = 1
      BY <2>0, <2>11, ThreadAssumption DEF LeaveOuter, Goto
    <3> QED BY <2>2, <3>1 DEF Holds
  <2>12. ASSUME NEW t \in Thread, Recount(t) PROVE UNCHANGED <<holder, depth>>
    <3>1. owning_thread = t /\ UNCHANGED <<owning_thread, recursion_count>>
      BY <2>0, <2>12 DEF Recount, Goto, OwnerCounts
    <3> QED BY <2>2, <3>1 DEF Holds
  <2>13. ASSUME NEW t \in Thread, Decrement(t) PROVE Lock!Release(t)
    <3>1. Holds(t) /\ pc[t] = "leave" /\ owning_thread = NoThread
      BY <2>0, <2>13 DEF Decrement, Goto, Holds, NoOwnerOnEntry
    <3>2. holder = t /\ depth = 1
      BY <2>0, <3>1, ThreadAssumption DEF Mapped
    <3>3. \A u \in Thread : u # t => ~Holds(u)
      BY <2>0, <3>1 DEF Exclusion, Inside, Holds
    <3>4. pc'[t] \in {"set", "out"} /\ \A u \in Thread : u # t => pc'[u] = pc[u]
      BY <2>0, <2>13 DEF Decrement, Goto
    <3>5. owning_thread' = NoThread
      BY <2>13, <3>1 DEF Decrement
    <3>6. \A u \in Thread : ~Holds(u)'
      BY <3>1, <3>3, <3>4, <3>5, ThreadAssumption DEF Holds
    <3> QED BY <2>0, <3>2, <3>6 DEF Mapped, Lock!Release
  <2>14. ASSUME NEW t \in Thread, SetEvent(t) PROVE UNCHANGED <<holder, depth>>
    <3>1. /\ pc[t] = "set" /\ pc' = [pc EXCEPT ![t] = "out"]
          /\ owning_thread = NoThread /\ UNCHANGED <<owning_thread, recursion_count>>
      BY <2>0, <2>14 DEF SetEvent, Goto, NoOwnerOnEntry
    <3>2. ~Holds(t) /\ ~Holds(t)'
      BY <2>0, <3>1, ThreadAssumption DEF Holds
    <3> QED BY <2>1, <3>1, <3>2 DEF PCs
  <2>15. CASE UNCHANGED vars
    BY <2>15 DEF vars, holder, depth, Holds
  <2> QED
    BY <2>4, <2>5, <2>6, <2>7, <2>8, <2>9, <2>10, <2>11, <2>12, <2>13, <2>14, <2>15
    DEF Next, Step, EnterStep, LeaveStep, SpinAcquire, TryEnter, Goto, Lock!Next
<1> QED BY <1>1, <1>2, Invariance, PTL DEF Spec, ImplementsLock, Lock!Spec, Lock!lockVars
==============================================================================
