--------------------------- MODULE TimerQueueProofs ---------------------------
(***************************************************************************)
(* For any number of timers, threads and slots: once Disarm() has returned *)
(* the callback is not running and never runs again, no timer is lost or   *)
(* doubled between the lists it passes through, and the dispatch thread    *)
(* does not sleep past one that is due.                                    *)
(***************************************************************************)
EXTENDS TimerQueue, SequenceTheorems, FiniteSetTheorems, WellFoundedInduction, TLAPS

Running == {"inCallback", "selfDisarmed"}

\* The dispatch thread runs at most one callback, that of cur, and only it
\* moves an item into or out of the two states of a running callback.
OneCallback ==
  /\ cur # NoItem <=> dpc \in {"callback", "test", "rearm", "retire"}
  /\ \A i \in Item : itemState[i] \in Running <=> cur = i
  /\ dpc = "rearm" => itemState[cur] = "inCallback"

Calls == /\ \A c \in Client : pc[c] # "out" => arg[c] \in Item
         /\ pc[Dispatcher] # "out" => dpc = "callback"
         /\ itemState[Kick] \in {"none", "disarmed"}
         /\ \A i \in stopped : itemState[i] = "disarmed"

\* Only items that were created are in a call, in the ring or in the lists.
Known == /\ \A i \in queued \cup again : itemState[i] # "none"
         /\ \A k \in 1..Len(ring) : itemState[ring[k]] # "none"
         /\ \A c \in Client : pc[c] # "out" => itemState[arg[c]] # "none"

IInv == TypeOK /\ OneCallback /\ Calls /\ Known

LEMMA InitIInv == Init => IInv
<1> SUFFICES ASSUME Init PROVE IInv
  OBVIOUS
<1> USE ItemAssumption, IntervalAssumption, ClientAssumption, BoundAssumption DEF Init
<1>1. ring \in Seq(Item) /\ Len(ring) = 0
  BY EmptySeq
<1>2. TypeOK
  BY <1>1 DEF TypeOK, ItemStates, DPCs, PCs
<1>3. OneCallback /\ Calls /\ Known
  BY <1>1 DEF OneCallback, Calls, Known, Running
<1> QED BY <1>2, <1>3 DEF IInv

LEMMA TypeStep == IInv /\ [Next]_vars => TypeOK'
<1> SUFFICES ASSUME IInv, [Next]_vars PROVE TypeOK'
  OBVIOUS
<1> USE ItemAssumption, IntervalAssumption, ClientAssumption, BoundAssumption
        DEF IInv, TypeOK, ItemStates, DPCs, PCs
<1>1. CASE Tick
  BY <1>1 DEF Tick, queueVars, clientVars
<1>2. ASSUME NEW c \in Client, NEW i \in Item, NEW asked \in 0..MaxTime,
             Create(c, i, asked)
      PROVE  TypeOK'
  BY <1>2 DEF Create, Goto, queueVars, clientVars
<1>3. ASSUME NEW c \in Client, Claim(c) PROVE TypeOK'
  <2>1. arg[c] \in Item
    BY <1>3 DEF Claim, Calls
  <2>2. ring' \in Seq(Item) /\ Len(ring') = Len(ring) + 1
    BY <1>3, <2>1, AppendProperties DEF Claim
  <2>3. Len(ring) \in Nat
    BY LenProperties
  <2> QED BY <1>3, <2>2, <2>3 DEF Claim, Goto, clientVars
<1>4. ASSUME NEW c \in Client, Publish(c) PROVE TypeOK'
  BY <1>4 DEF Publish, Goto, clientVars, Calls
<1>5. ASSUME NEW c \in Client, NEW i \in Item, Disarm(c, i) PROVE TypeOK'
  BY <1>5 DEF Disarm, Goto, queueVars, clientVars
<1>6. ASSUME NEW c \in Client, DisarmSelf(c) \/ DisarmCas(c) PROVE TypeOK'
  <2>1. arg[c] \in Item
    BY <1>6 DEF DisarmSelf, DisarmCas, Calls
  <2>2. CASE DisarmSelf(c)
    BY <2>1, <2>2 DEF DisarmSelf, Goto, queueVars
  <2>3. CASE DisarmCas(c)
    BY <2>1, <2>3 DEF DisarmCas, Goto, queueVars
  <2> QED BY <1>6, <2>2, <2>3
<1>7. CASE Consume
  <2>1. PICK n \in 1..Len(ring) :
           /\ queued' = queued \cup Slots(n)
           /\ published' = published \ Slots(n)
           /\ ring' = SubSeq(ring, n + 1, Len(ring))
    BY <1>7 DEF Consume
  <2>2. Len(ring) \in Nat /\ \A k \in 1..Len(ring) : ring[k] \in Item
    BY LenProperties, ElementOfSeq
  <2>3. Slots(n) \subseteq Item
    BY <2>2 DEF Slots
  <2>4. /\ ring' \in Seq(Item)
        /\ Len(ring') = IF n + 1 =< Len(ring) THEN Len(ring) - (n + 1) + 1 ELSE 0
    BY <2>1, <2>2, SubSeqProperties
  <2>5. Len(ring') =< Capacity
    BY <2>2, <2>4
  <2> QED BY <1>7, <2>1, <2>3, <2>4, <2>5 DEF Consume, clientVars
<1>8. CASE Fire
  <2>1. PICK i \in queued :
           /\ queued' = queued \ {i}
           /\ \/ itemState' = [itemState EXCEPT ![i] = "inCallback"]
                /\ cur' = i /\ dpc' = "callback"
              \/ UNCHANGED <<itemState, cur, dpc>>
    BY <1>8 DEF Fire, Front
  <2>2. /\ itemState' \in [Item -> ItemStates] /\ cur' \in Item \cup {NoItem}
        /\ dpc' \in DPCs /\ queued' \subseteq Item
    BY <2>1
  <2> QED BY <1>8, <2>2 DEF Fire, clientVars
<1>9. CASE LoopTest \/ Timeout \/ FireDone \/ CallbackReturns \/ Test
  BY <1>9 DEF LoopTest, Timeout, FireDone, CallbackReturns, Test, queueVars, clientVars
<1>10. CASE Rearm
  <2>1. cur \in Item
    BY <1>10 DEF Rearm, OneCallback
  <2>2. due' \in [Item -> Int]
    BY <1>10, <2>1 DEF Rearm
  <2> QED BY <1>10, <2>1, <2>2 DEF Rearm, clientVars
<1>11. CASE Retire
  BY <1>11 DEF Retire, queueVars, clientVars
<1>12. CASE Shutdown
  BY <1>12 DEF Shutdown, queueVars, clientVars
<1>13. CASE ShutdownKick
  <2>1. ring' \in Seq(Item) /\ Len(ring') = Len(ring) + 1 /\ Len(ring) \in Nat
    BY <1>13, AppendProperties, LenProperties DEF ShutdownKick
  <2> QED BY <1>13, <2>1 DEF ShutdownKick, clientVars
<1>14. CASE UNCHANGED vars
  BY <1>14 DEF vars, queueVars, clientVars
<1> QED BY <1>1, <1>2, <1>3, <1>4, <1>5, <1>6, <1>7, <1>8, <1>9, <1>10, <1>11, <1>12,
           <1>13, <1>14 DEF Next, ClientStep, DispatchStep

LEMMA CallbackStep == IInv /\ [Next]_vars => OneCallback' /\ Calls'
<1> SUFFICES ASSUME IInv, [Next]_vars PROVE OneCallback' /\ Calls'
  OBVIOUS
<1> USE ItemAssumption, ClientAssumption DEF IInv, OneCallback, Calls, Running
<1>0. /\ itemState \in [Item -> ItemStates] /\ pc \in [Client -> PCs]
      /\ arg \in [Client -> Item \cup {NoItem}] /\ stopped \subseteq Item
      /\ cur \in Item \cup {NoItem}
  BY DEF TypeOK
<1>1. CASE Tick
  BY <1>1 DEF Tick, queueVars, clientVars
<1>2. ASSUME NEW c \in Client, NEW i \in Item, NEW asked \in 0..MaxTime,
             Create(c, i, asked)
      PROVE  OneCallback' /\ Calls'
  BY <1>0, <1>2 DEF Create, Goto, Free
<1>3. ASSUME NEW c \in Client, Claim(c) \/ Publish(c) PROVE OneCallback' /\ Calls'
  BY <1>0, <1>3 DEF Claim, Publish, Goto
<1>4. ASSUME NEW c \in Client, NEW i \in Item, Disarm(c, i) PROVE OneCallback' /\ Calls'
  BY <1>0, <1>4 DEF Disarm, Goto, Free
<1>5. ASSUME NEW c \in Client, DisarmSelf(c) PROVE OneCallback' /\ Calls'
  <2>1. /\ c = Dispatcher
        /\ pc[c] = "disarm" /\ arg[c] \in Item /\ itemState[arg[c]] = "inCallback"
        /\ itemState' = [itemState EXCEPT ![arg[c]] = "selfDisarmed"]
        /\ pc' = [pc EXCEPT ![c] = "out"]
        /\ UNCHANGED <<cur, dpc, arg, stopped>>
    BY <1>5 DEF DisarmSelf, Goto
  <2>2. dpc = "callback"
    BY <2>1
  <2> QED BY <1>0, <2>1, <2>2
<1>6. ASSUME NEW c \in Client, DisarmCas(c) PROVE OneCallback' /\ Calls'
  BY <1>0, <1>6 DEF DisarmCas, Goto
<1>7. CASE Fire
  BY <1>0, <1>7 DEF Fire, Front, clientVars, TypeOK
<1>8. CASE LoopTest \/ Consume \/ Timeout \/ FireDone \/ CallbackReturns \/ Test
  BY <1>0, <1>8 DEF LoopTest, Consume, Timeout, FireDone, CallbackReturns, Test, clientVars
<1>9. CASE Rearm \/ Retire
  BY <1>0, <1>9 DEF Rearm, Retire, clientVars
<1>10. CASE Shutdown \/ ShutdownKick
  BY <1>0, <1>10 DEF Shutdown, ShutdownKick, clientVars
<1>11. CASE UNCHANGED vars
  BY <1>11 DEF vars, clientVars
<1> QED BY <1>1, <1>2, <1>3, <1>4, <1>5, <1>6, <1>7, <1>8, <1>9, <1>10, <1>11
        DEF Next, ClientStep, DispatchStep

LEMMA KnownStep == IInv /\ [Next]_vars => Known'
<1> SUFFICES ASSUME IInv, [Next]_vars PROVE Known'
  OBVIOUS
<1> USE ItemAssumption DEF Known
<1>0. /\ itemState \in [Item -> ItemStates] /\ pc \in [Client -> PCs]
      /\ arg \in [Client -> Item \cup {NoItem}] /\ queued \subseteq Item
      /\ Len(ring) \in Nat /\ (\A k \in 1..Len(ring) : ring[k] \in Item)
      /\ cur \in Item \cup {NoItem} /\ again \subseteq Item /\ ring \in Seq(Item)
      /\ \A c \in Client : pc[c] # "out" => arg[c] \in Item
      /\ Known
  BY LenProperties, ElementOfSeq DEF TypeOK, IInv, Calls
\* Items do not go back to "none".
<1>1. \A i \in Item : itemState[i] # "none" => itemState'[i] # "none"
  BY <1>0 DEF Next, Tick, Create, ClientStep, Claim, Publish, Disarm, DisarmSelf,
     DisarmCas, DispatchStep, LoopTest, Consume, Timeout, Fire, FireDone,
     CallbackReturns, Test, Rearm, Retire, Shutdown, ShutdownKick, vars, ItemStates
<1>2. ASSUME NEW c \in Client, NEW i \in Item, NEW asked \in 0..MaxTime,
             Create(c, i, asked)
      PROVE  Known'
  BY <1>0, <1>1, <1>2 DEF Create, Goto, Free, queueVars
<1>3. ASSUME NEW c \in Client, Claim(c) PROVE Known'
  <2>1. /\ Len(ring') = Len(ring) + 1
        /\ \A k \in 1..Len(ring) : ring'[k] = ring[k]
        /\ ring'[Len(ring) + 1] = arg[c]
    BY <1>0, <1>3, AppendProperties DEF Claim
  <2>2. pc[c] # "out" /\ UNCHANGED <<itemState, queued, again, arg>>
        /\ pc' = [pc EXCEPT ![c] = "publish"]
    BY <1>3 DEF Claim, Goto
  <2> QED BY <1>0, <2>1, <2>2
<1>4. ASSUME NEW c \in Client, Publish(c) PROVE Known'
  BY <1>0, <1>1, <1>4 DEF Publish, Goto
<1>5. ASSUME NEW c \in Client, NEW i \in Item, Disarm(c, i) PROVE Known'
  BY <1>0, <1>1, <1>5 DEF Disarm, Goto, Returned, queueVars
<1>6. ASSUME NEW c \in Client, DisarmSelf(c) \/ DisarmCas(c) PROVE Known'
  BY <1>0, <1>1, <1>6 DEF DisarmSelf, DisarmCas, Goto, queueVars
<1>7. CASE Consume
  <2>1. PICK n \in 1..Len(ring) :
           queued' = queued \cup Slots(n) /\ ring' = SubSeq(ring, n + 1, Len(ring))
    BY <1>7 DEF Consume
  <2>2. /\ Len(ring') = IF n + 1 =< Len(ring) THEN Len(ring) - (n + 1) + 1 ELSE 0
        /\ \A k \in 1..(Len(ring) - (n + 1) + 1) : ring'[k] = ring[(n + 1) + k - 1]
    BY <1>0, <2>1, SubSeqProperties
  <2>3. \A k \in 1..Len(ring') : itemState[ring'[k]] # "none"
    BY <1>0, <2>2
  <2>4. \A i \in Slots(n) : itemState[i] # "none"
    BY <1>0 DEF Slots
  <2> QED BY <1>0, <1>7, <2>1, <2>3, <2>4 DEF Consume, clientVars
<1>8. CASE Fire
  BY <1>0, <1>1, <1>8 DEF Fire, Front, clientVars
<1>9. CASE Tick \/ Shutdown \/ LoopTest \/ Timeout \/ FireDone \/ CallbackReturns \/ Test
  BY <1>0, <1>9 DEF Tick, Shutdown, LoopTest, Timeout, FireDone, CallbackReturns, Test,
                    queueVars, clientVars
<1>10. CASE Rearm \/ Retire
  <2>1. cur \in Item
    BY <1>10 DEF Rearm, Retire, IInv, OneCallback, TypeOK
  <2> QED BY <1>0, <1>1, <1>10, <2>1 DEF Rearm, Retire, queueVars, clientVars
<1>11. CASE ShutdownKick
  <2>1. /\ Len(ring') = Len(ring) + 1
        /\ \A k \in 1..Len(ring) : ring'[k] = ring[k]
        /\ ring'[Len(ring) + 1] = Kick
    BY <1>0, <1>11, AppendProperties DEF ShutdownKick
  <2>2. itemState'[Kick] = "disarmed" /\ UNCHANGED <<queued, again, clientVars>>
    BY <1>0, <1>11 DEF ShutdownKick
  <2> QED BY <1>0, <1>1, <2>1, <2>2 DEF clientVars
<1>12. CASE UNCHANGED vars
  BY <1>0, <1>12 DEF vars, queueVars, clientVars
<1> QED BY <1>2, <1>3, <1>4, <1>5, <1>6, <1>7, <1>8, <1>9, <1>10, <1>11, <1>12
        DEF Next, ClientStep, DispatchStep

LEMMA Invariance == Spec => []IInv
<1>1. IInv /\ [Next]_vars => IInv'
  BY TypeStep, CallbackStep, KnownStep DEF IInv
<1> QED BY InitIInv, <1>1, PTL DEF Spec

(* "No callbacks will be running after this call": after a Disarm() has    *)
(* returned the item's callback is not running and the item stays          *)
(* disarmed, and what the dispatch thread pops is idle or disarmed.        *)
THEOREM Safety == Spec => [](TypeOK /\ DisarmStops /\ PoppedIsIdleOrDisarmed)
<1>1. IInv => DisarmStops
  BY DEF IInv, OneCallback, Calls, Running, TypeOK, DisarmStops
<1>2. IInv => PoppedIsIdleOrDisarmed
  BY ItemAssumption
  DEF IInv, OneCallback, Known, Running, TypeOK, ItemStates, PoppedIsIdleOrDisarmed, Front
<1> QED BY Invariance, <1>1, <1>2, PTL DEF IInv

(* No item is armed again once it was disarmed, from its own callback or   *)
(* by another thread.                                                      *)
THEOREM Final == Spec => DisarmIsFinal
<1> DEFINE Step ==
      \A i \in Item :
        /\ itemState[i] = "selfDisarmed" => itemState'[i] \in {"selfDisarmed", "disarmed"}
        /\ itemState[i] = "disarmed" => itemState'[i] = "disarmed"
<1>1. IInv /\ [Next]_vars => [Step]_vars
  <2> SUFFICES ASSUME IInv, Next, NEW i \in Item
               PROVE  /\ itemState[i] = "selfDisarmed" =>
                            itemState'[i] \in {"selfDisarmed", "disarmed"}
                      /\ itemState[i] = "disarmed" => itemState'[i] = "disarmed"
    OBVIOUS
  <2>0. itemState \in [Item -> ItemStates]
    BY DEF IInv, TypeOK
  <2>1. ASSUME NEW c \in Client, NEW j \in Item, NEW asked \in 0..MaxTime,
               Create(c, j, asked)
        PROVE  itemState[i] # "none" => itemState'[i] = itemState[i]
    BY <2>0, <2>1 DEF Create
  <2>2. ASSUME NEW c \in Client, DisarmSelf(c) \/ DisarmCas(c)
        PROVE  /\ itemState[i] = "selfDisarmed" => itemState'[i] = "selfDisarmed"
               /\ itemState[i] = "disarmed" => itemState'[i] = "disarmed"
    BY <2>0, <2>2 DEF DisarmSelf, DisarmCas
  <2>3. CASE Fire
    BY <2>0, <2>3 DEF Fire
  <2>4. CASE Rearm
    <3>1. cur \in Item /\ itemState[cur] = "inCallback"
      BY <2>4, ItemAssumption DEF Rearm, IInv, OneCallback, TypeOK
    <3>2. itemState' = [itemState EXCEPT ![cur] = "idle"]
      BY <2>4 DEF Rearm
    <3> QED BY <2>0, <3>1, <3>2
  <2>5. CASE Retire \/ ShutdownKick
    BY <2>0, <2>5 DEF Retire, ShutdownKick
  <2>6. CASE \/ Tick \/ LoopTest \/ Consume \/ Timeout \/ FireDone
             \/ CallbackReturns \/ Test \/ Shutdown
             \/ \E c \in Client : \/ Claim(c) \/ Publish(c)
                                  \/ \E j \in Item : Disarm(c, j)
    BY <2>6 DEF Tick, LoopTest, Consume, Timeout, FireDone, CallbackReturns, Test,
                Shutdown, Claim, Publish, Disarm
  <2> QED BY <2>1, <2>2, <2>3, <2>4, <2>5, <2>6 DEF Next, ClientStep, DispatchStep
<1> QED BY <1>1, Invariance, PTL DEF Spec, DisarmIsFinal
------------------------------------------------------------------------------
(* The five places an item may be in *)

Claiming == {arg[c] : c \in {d \in Client : pc[d] = "claim"}}
InRing == {ring[k] : k \in 1..Len(ring)}
Popped == {cur} \ {NoItem}
Anywhere == Claiming \cup InRing \cup queued \cup again \cup Popped

\* No item is in two places, or in one of them twice.
Apart ==
  /\ \A c, d \in Client :
       pc[c] = "claim" /\ pc[d] = "claim" /\ arg[c] = arg[d] => c = d
  /\ \A j, k \in 1..Len(ring) : ring[j] = ring[k] => j = k
  /\ \A i \in Item :
       /\ i \in Claiming => i \notin InRing \cup queued \cup again \cup Popped
       /\ i \in InRing => i \notin queued \cup again \cup Popped
       /\ i \in queued => i \notin again \cup Popped
       /\ i \in again => i \notin Popped

\* An item that may still be called is in one; the destructor's is not yet.
Alive ==
  /\ \A i \in Item : itemState[i] \in {"idle"} \cup Running => i \in Anywhere
  /\ shutdown # "kicked" => Kick \notin Anywhere

\* An item that has not been created is nowhere.
LEMMA NewIsNowhere ==
  ASSUME IInv, NEW i \in Item, itemState[i] = "none"
  PROVE  i \notin Anywhere
<1>1. i \notin Claiming
  BY DEF IInv, Known, Claiming
<1>2. i \notin InRing \cup queued \cup again
  BY DEF IInv, Known, InRing
<1>3. i \notin Popped
  BY DEF IInv, OneCallback, Running, Popped
<1> QED BY <1>1, <1>2, <1>3 DEF Anywhere

\* Steps that move nothing and call back nothing new.
LEMMA ApartFrame ==
  ASSUME Apart, Alive, UNCHANGED <<ring, queued, again, cur, arg, shutdown>>,
         \A c \in Client : pc'[c] = "claim" <=> pc[c] = "claim",
         \A i \in Item : itemState'[i] \in {"idle"} \cup Running
                          => itemState[i] \in {"idle"} \cup Running
  PROVE  Apart' /\ Alive'
<1>1. Claiming' = Claiming /\ InRing' = InRing /\ Popped' = Popped
  BY DEF Claiming, InRing, Popped
<1>2. Apart'
  BY <1>1 DEF Apart
<1>3. Alive'
  BY <1>1 DEF Alive, Anywhere
<1> QED BY <1>2, <1>3

LEMMA ClientsApart ==
  ASSUME IInv, Apart, Alive, NEW c \in Client,
         ClientStep(c) \/ \E i \in Item : \/ Disarm(c, i)
                                        \/ \E asked \in 0..MaxTime : Create(c, i, asked)
  PROVE  Apart' /\ Alive'
<1> USE DEF IInv
<1>0. /\ itemState \in [Item -> ItemStates] /\ pc \in [Client -> PCs]
      /\ arg \in [Client -> Item \cup {NoItem}] /\ ring \in Seq(Item)
      /\ Len(ring) \in Nat
      /\ pc[c] # "out" => arg[c] \in Item
  BY LenProperties DEF TypeOK, Calls
<1>1. ASSUME NEW i \in Item, NEW asked \in 0..MaxTime, Create(c, i, asked)
      PROVE  Apart' /\ Alive'
  <2>1. /\ i \notin Anywhere /\ i # Kick /\ pc[c] = "out"
        /\ UNCHANGED <<ring, queued, again, cur, shutdown>>
        /\ pc' = [pc EXCEPT ![c] = "claim"] /\ arg' = [arg EXCEPT ![c] = i]
        /\ itemState' = [itemState EXCEPT ![i] = "idle"]
    BY <1>1, NewIsNowhere DEF Create, Free, Goto, queueVars
  <2>2. /\ Claiming' = Claiming \cup {i} /\ InRing' = InRing /\ Popped' = Popped
    BY <1>0, <2>1 DEF Claiming, InRing, Popped
  <2>3. \A d \in Client \ {c} : pc'[d] = pc[d] /\ arg'[d] = arg[d]
    BY <1>0, <2>1
  <2>4. \A d \in Client \ {c} : pc[d] = "claim" => arg[d] # i
    BY <2>1 DEF Anywhere, Claiming
  <2>5. Apart'
    BY <1>0, <2>1, <2>2, <2>3, <2>4 DEF Apart, Anywhere
  <2>6. Alive'
    BY <1>0, <2>1, <2>2 DEF Alive, Anywhere
  <2> QED BY <2>5, <2>6
<1>2. CASE Claim(c)
  <2>1. /\ pc[c] = "claim" /\ arg[c] \in Item
        /\ UNCHANGED <<queued, again, cur, shutdown, arg, itemState>>
        /\ pc' = [pc EXCEPT ![c] = "publish"]
    BY <1>0, <1>2 DEF Claim, Goto
  <2>2. /\ Len(ring') = Len(ring) + 1 /\ ring'[Len(ring) + 1] = arg[c]
        /\ \A k \in 1..Len(ring) : ring'[k] = ring[k]
    BY <1>0, <1>2, <2>1, AppendProperties DEF Claim
  <2>3. Claiming' = Claiming \ {arg[c]}
    BY <1>0, <2>1 DEF Claiming, Apart
  <2>4. InRing' = InRing \cup {arg[c]} /\ Popped' = Popped
    <3>1. 1..Len(ring') = 1..Len(ring) \cup {Len(ring) + 1}
      BY <1>0, <2>2
    <3>2. InRing' = InRing \cup {arg[c]}
      BY <2>2, <3>1 DEF InRing
    <3> QED BY <2>1, <3>2 DEF Popped
  <2>5. arg[c] \in Claiming /\ arg[c] \notin InRing \cup queued \cup again \cup Popped
    BY <2>1 DEF Claiming, Apart
  <2>6. \A j, k \in 1..Len(ring') : ring'[j] = ring'[k] => j = k
    BY <1>0, <2>2, <2>5 DEF Apart, InRing
  <2>7. Apart'
    BY <1>0, <2>1, <2>3, <2>4, <2>5, <2>6 DEF Apart
  <2>8. Alive'
    BY <2>1, <2>3, <2>4, <2>5 DEF Alive, Anywhere
  <2> QED BY <2>7, <2>8
<1>3. CASE Publish(c)
  BY <1>0, <1>3, ApartFrame DEF Publish, Goto
<1>4. ASSUME NEW i \in Item, Disarm(c, i) PROVE Apart' /\ Alive'
  <2>1. /\ pc[c] = "out" /\ UNCHANGED <<itemState, ring, queued, again, cur, shutdown>>
        /\ pc' = [pc EXCEPT ![c] = "disarm"] /\ arg' = [arg EXCEPT ![c] = i]
    BY <1>4 DEF Disarm, Free, Goto, queueVars
  <2>2. \A d \in Client : /\ pc'[d] = "claim" <=> pc[d] = "claim"
                          /\ pc[d] = "claim" => arg'[d] = arg[d]
    BY <1>0, <2>1
  <2>3. Claiming' = Claiming /\ InRing' = InRing /\ Popped' = Popped
    BY <2>1, <2>2 DEF Claiming, InRing, Popped
  <2>4. Apart'
    BY <2>1, <2>2, <2>3 DEF Apart
  <2>5. Alive'
    BY <2>1, <2>3 DEF Alive, Anywhere
  <2> QED BY <2>4, <2>5
<1>5. CASE DisarmSelf(c) \/ DisarmCas(c)
  <2>1. /\ pc[c] = "disarm" /\ pc' = [pc EXCEPT ![c] = "out"]
        /\ UNCHANGED <<ring, queued, again, cur, arg, shutdown>>
    BY <1>5 DEF DisarmSelf, DisarmCas, Goto, queueVars
  <2>2. \A i \in Item : itemState'[i] \in {"idle"} \cup Running
                         => itemState[i] \in {"idle"} \cup Running
    BY <1>0, <1>5, <2>1 DEF DisarmSelf, DisarmCas, Running
  <2> QED BY <1>0, <2>1, <2>2, ApartFrame
<1> QED BY <1>1, <1>2, <1>3, <1>4, <1>5 DEF ClientStep

\* A sequence without its first n elements.
LEMMA WithoutFirst ==
  ASSUME NEW S, NEW s \in Seq(S), NEW n \in 1..Len(s), NEW r, r = SubSeq(s, n + 1, Len(s))
  PROVE  /\ Len(r) = Len(s) - n
         /\ \A k \in 1..(Len(s) - n) : r[k] = s[n + k]
<1>1. Len(s) \in Nat /\ n \in Nat /\ n =< Len(s)
  BY LenProperties
<1>2. /\ Len(r) = IF n + 1 =< Len(s) THEN Len(s) - (n + 1) + 1 ELSE 0
      /\ \A k \in 1..(Len(s) - (n + 1) + 1) : r[k] = s[(n + 1) + k - 1]
  <2>1. n + 1 \in 1..Len(s) + 1
    BY <1>1
  <2> QED BY <1>1, <2>1, SubSeqProperties
<1>3. Len(s) - (n + 1) + 1 = Len(s) - n
  BY <1>1
<1>4. Len(r) = Len(s) - n
  BY <1>1, <1>2
<1>5. ASSUME NEW k \in 1..(Len(s) - n) PROVE r[k] = s[n + k]
  <2>1. (n + 1) + k - 1 = n + k
    BY <1>1
  <2> QED BY <1>2, <1>3, <2>1
<1> QED BY <1>4, <1>5

LEMMA DispatchApart ==
  ASSUME IInv, Apart, Alive, DispatchStep
  PROVE  Apart' /\ Alive'
<1> USE DEF IInv
<1>0. /\ itemState \in [Item -> ItemStates] /\ cur \in Item \cup {NoItem}
      /\ ring \in Seq(Item) /\ Len(ring) \in Nat
      /\ \A k \in 1..Len(ring) : ring[k] \in Item
      /\ queued \subseteq Item /\ again \subseteq Item
  BY LenProperties, ElementOfSeq DEF TypeOK
<1>1. CASE LoopTest \/ Timeout \/ CallbackReturns \/ Test
  BY <1>1, ApartFrame
  DEF LoopTest, Timeout, CallbackReturns, Test, queueVars, clientVars
<1>2. CASE Consume
  <2>1. PICK n \in 1..Len(ring) :
           queued' = queued \cup Slots(n) /\ ring' = SubSeq(ring, n + 1, Len(ring))
    BY <1>2 DEF Consume
  <2>2. UNCHANGED <<itemState, again, cur, pc, arg, shutdown>>
    BY <1>2 DEF Consume, clientVars
  <2>3. /\ Len(ring') = Len(ring) - n
        /\ \A k \in 1..(Len(ring) - n) : ring'[k] = ring[n + k]
    BY <1>0, <2>1, WithoutFirst
  <2>4. \A k \in 1..(Len(ring) - n) : n + k \in 1..Len(ring) /\ n + k > n
    BY <1>0
  <2>5. InRing' = InRing \ Slots(n)
    <3>1. InRing' \subseteq InRing
      BY <2>3, <2>4 DEF InRing
    <3>2. ASSUME NEW k \in 1..Len(ring'), NEW j \in 1..n, ring'[k] = ring[j] PROVE FALSE
      <4>1. /\ n + k \in 1..Len(ring) /\ n + k # j /\ j \in 1..Len(ring)
            /\ ring[n + k] = ring[j]
        BY <1>0, <2>3, <2>4, <3>2
      <4> QED BY <4>1 DEF Apart
    <3>3. ASSUME NEW k \in 1..Len(ring), ring[k] \notin Slots(n) PROVE ring[k] \in InRing'
      <4>1. k > n /\ k - n \in 1..(Len(ring) - n) /\ n + (k - n) = k
        BY <1>0, <3>3 DEF Slots
      <4> QED BY <2>3, <4>1 DEF InRing
    <3> QED BY <3>1, <3>2, <3>3 DEF InRing, Slots
  <2>6. Slots(n) \subseteq InRing
    BY <1>0 DEF Slots, InRing
  <2>7. Claiming' = Claiming /\ Popped' = Popped
    BY <2>2 DEF Claiming, Popped
  <2>8. \A j, k \in 1..Len(ring') : ring'[j] = ring'[k] => j = k
    <3> SUFFICES ASSUME NEW j \in 1..Len(ring'), NEW k \in 1..Len(ring'),
                        ring'[j] = ring'[k]
                 PROVE  j = k
      OBVIOUS
    <3>1. ring[n + j] = ring[n + k]
      BY <2>3
    <3>2. n + j = n + k
      BY <2>3, <2>4, <3>1 DEF Apart
    <3> QED BY <1>0, <2>3, <3>2
  <2>9. Apart'
    BY <2>1, <2>2, <2>5, <2>6, <2>7, <2>8 DEF Apart
  <2>10. Alive'
    BY <2>1, <2>2, <2>5, <2>6, <2>7 DEF Alive, Anywhere
  <2> QED BY <2>9, <2>10
<1>3. CASE Fire
  <2>1. PICK i \in queued :
          /\ dpc = "fire" /\ i \in Item /\ queued' = queued \ {i}
          /\ UNCHANGED <<ring, again, pc, arg, shutdown>>
          /\ \/ /\ itemState' = [itemState EXCEPT ![i] = "inCallback"] /\ cur' = i
             \/ /\ itemState[i] # "idle" /\ UNCHANGED <<itemState, cur>>
    BY <1>0, <1>3 DEF Fire, Front, clientVars
  <2>2. cur = NoItem /\ Popped = {} /\ Claiming' = Claiming /\ InRing' = InRing
    BY <2>1 DEF OneCallback, Popped, Claiming, InRing
  <2>3. CASE itemState' = [itemState EXCEPT ![i] = "inCallback"] /\ cur' = i
    <3>1. Popped' = {i}
      BY <2>1, <2>3, ItemAssumption DEF Popped
    <3>2. Apart'
      BY <2>1, <2>2, <3>1 DEF Apart
    <3>3. Alive'
      BY <1>0, <2>1, <2>2, <2>3, <3>1 DEF Alive, Anywhere
    <3> QED BY <3>2, <3>3
  <2>4. CASE itemState[i] # "idle" /\ UNCHANGED <<itemState, cur>>
    <3>1. itemState[i] \notin {"idle"} \cup Running
      BY <2>1, <2>2, <2>4, ItemAssumption DEF OneCallback
    <3>2. Popped' = {}
      BY <2>2, <2>4 DEF Popped
    <3>3. Apart'
      BY <2>1, <2>2, <3>2 DEF Apart
    <3>4. Alive'
      BY <2>1, <2>2, <2>4, <3>1, <3>2 DEF Alive, Anywhere
    <3> QED BY <3>3, <3>4
  <2> QED BY <2>1, <2>3, <2>4
<1>4. CASE FireDone
  <2>1. /\ queued' = queued \cup again /\ again' = {}
        /\ UNCHANGED <<itemState, ring, cur, pc, arg, shutdown>>
    BY <1>4 DEF FireDone, clientVars
  <2>2. Claiming' = Claiming /\ InRing' = InRing /\ Popped' = Popped
    BY <2>1 DEF Claiming, InRing, Popped
  <2> QED BY <2>1, <2>2 DEF Apart, Alive, Anywhere
<1>5. CASE Rearm \/ Retire
  <2>0. /\ cur \in Item /\ cur' = NoItem
        /\ UNCHANGED <<ring, queued, pc, arg, shutdown>>
        /\ \/ itemState' = [itemState EXCEPT ![cur] = "idle"] /\ again' = again \cup {cur}
           \/ itemState' = [itemState EXCEPT ![cur] = "disarmed"] /\ again' = again
    BY <1>0, <1>5 DEF Rearm, Retire, OneCallback, clientVars, queueVars
  <2>1. /\ cur \in Item /\ cur' = NoItem
        /\ UNCHANGED <<ring, queued, pc, arg, shutdown>>
        /\ \A i \in Item \ {cur} : itemState'[i] = itemState[i]
        /\ \/ again' = again \cup {cur}
           \/ again' = again /\ itemState'[cur] = "disarmed"
    BY <1>0, <2>0
  <2>2. Claiming' = Claiming /\ InRing' = InRing /\ Popped = {cur} /\ Popped' = {}
    BY <2>1, ItemAssumption DEF Claiming, InRing, Popped
  <2>3. Apart'
    BY <2>1, <2>2 DEF Apart
  <2>4. Alive'
    BY <2>1, <2>2 DEF Alive, Anywhere, Running
  <2> QED BY <2>3, <2>4
<1> QED BY <1>1, <1>2, <1>3, <1>4, <1>5 DEF DispatchStep

LEMMA ApartInit == Init => Apart /\ Alive
<1> SUFFICES ASSUME Init PROVE Apart /\ Alive
  OBVIOUS
<1>1. Anywhere = {} /\ Len(ring) = 0 /\ \A c \in Client : pc[c] # "claim"
  BY EmptySeq, ItemAssumption DEF Init, Anywhere, Claiming, InRing, Popped
<1> QED BY <1>1, ItemAssumption DEF Init, Apart, Alive, Anywhere, Running

LEMMA ApartStep == IInv /\ Apart /\ Alive /\ [Next]_vars => Apart' /\ Alive'
<1> SUFFICES ASSUME IInv, Apart, Alive, [Next]_vars PROVE Apart' /\ Alive'
  OBVIOUS
<1>1. CASE Tick \/ UNCHANGED vars
  BY <1>1, ApartFrame DEF Tick, vars, queueVars, clientVars
<1>2. CASE Shutdown
  <2>1. /\ UNCHANGED <<itemState, ring, queued, again, cur, pc, arg>>
        /\ shutdown = "no" /\ shutdown' = "flag"
    BY <1>2 DEF Shutdown, queueVars, clientVars
  <2>2. Claiming' = Claiming /\ InRing' = InRing /\ Popped' = Popped
    BY <2>1 DEF Claiming, InRing, Popped
  <2> QED BY <2>1, <2>2 DEF Apart, Alive, Anywhere
<1>3. CASE ShutdownKick
  <2>0. /\ ring \in Seq(Item) /\ Len(ring) \in Nat /\ Kick \in Item
        /\ itemState \in [Item -> ItemStates]
    BY LenProperties, ItemAssumption DEF IInv, TypeOK
  <2>1. /\ UNCHANGED <<queued, again, cur, pc, arg>>
        /\ shutdown = "flag" /\ shutdown' = "kicked"
        /\ itemState' = [itemState EXCEPT ![Kick] = "disarmed"]
    BY <1>3 DEF ShutdownKick, clientVars
  <2>2. /\ Len(ring') = Len(ring) + 1 /\ ring'[Len(ring) + 1] = Kick
        /\ \A k \in 1..Len(ring) : ring'[k] = ring[k]
    BY <1>3, <2>0, AppendProperties DEF ShutdownKick
  <2>3. Claiming' = Claiming /\ InRing' = InRing \cup {Kick} /\ Popped' = Popped
    BY <2>0, <2>1, <2>2 DEF Claiming, InRing, Popped
  <2>4. Kick \notin Anywhere
    BY <2>1 DEF Alive
  <2>5. \A j, k \in 1..Len(ring') : ring'[j] = ring'[k] => j = k
    BY <2>0, <2>2, <2>4 DEF Apart, Anywhere, InRing
  <2>6. Apart'
    BY <2>1, <2>3, <2>4, <2>5 DEF Apart, Anywhere
  <2>7. Alive'
    BY <2>0, <2>1, <2>3 DEF Alive, Anywhere, Running
  <2> QED BY <2>6, <2>7
<1> QED BY <1>1, <1>2, <1>3, ClientsApart, DispatchApart DEF Next

LEMMA OneAtMost ==
  ASSUME NEW S, \A x, y \in S : x = y
  PROVE  Cardinality(S) = IF S = {} THEN 0 ELSE 1
<1>1. CASE S = {}
  BY <1>1, FS_EmptySet
<1>2. ASSUME NEW x \in S PROVE Cardinality(S) = 1
  <2>1. S = {x}
    BY <1>2
  <2> QED BY <2>1, FS_Singleton
<1> QED BY <1>1, <1>2

\* So each item is in one place at most, and in one if it may be called.
LEMMA ApartIsPlaced == TypeOK /\ Apart /\ Alive => Placed
<1> SUFFICES ASSUME TypeOK, Apart, Alive, NEW i \in Item
             PROVE  /\ Places(i) =< 1
                    /\ itemState[i] \in {"idle", "inCallback", "selfDisarmed"} => Places(i) = 1
  BY DEF Placed
<1> DEFINE C == {c \in Client : pc[c] = "claim" /\ arg[c] = i}
           R == {k \in DOMAIN ring : ring[k] = i}
<1>1. Cardinality(C) = One(i \in Claiming)
  <2>1. \A x, y \in C : x = y
    BY DEF Apart
  <2>2. C = {} <=> i \notin Claiming
    BY DEF Claiming
  <2> QED BY <2>1, <2>2, OneAtMost DEF One
<1>2. Cardinality(R) = One(i \in InRing)
  <2>1. DOMAIN ring = 1..Len(ring)
    BY DEF TypeOK
  <2>2. \A x, y \in R : x = y
    BY <2>1 DEF Apart
  <2>3. R = {} <=> i \notin InRing
    BY <2>1 DEF InRing
  <2> QED BY <2>2, <2>3, OneAtMost DEF One
<1>3. One(cur = i) = One(i \in Popped)
  BY ItemAssumption DEF One, Popped
<1>4. Places(i) = One(i \in Claiming) + One(i \in InRing) + One(i \in queued)
                    + One(i \in again) + One(i \in Popped)
  BY <1>1, <1>2, <1>3 DEF Places
<1>5. Places(i) = One(i \in Anywhere)
  BY <1>4 DEF Apart, Anywhere, One
<1> QED BY <1>5 DEF Alive, Running, One

(* However many timers and threads there are: no timer is lost or doubled  *)
(* on its way through the ring, the wait queue and the callback.           *)
THEOREM Whereabouts == Spec => []Placed
<1>1. IInv /\ [Next]_vars => IInv'
  BY TypeStep, CallbackStep, KnownStep DEF IInv
<1>2. IInv => TypeOK
  BY DEF IInv
<1> QED BY <1>1, <1>2, InitIInv, ApartInit, ApartStep, ApartIsPlaced, PTL DEF Spec
------------------------------------------------------------------------------
(* What the dispatch thread waits for *)

\* A slot that is not published yet has a thread that is about to, and the items
\* of a pass are back in the wait queue when the dispatch thread waits.
Handed ==
  /\ \A k \in 1..Len(ring) :
       ring[k] \in published \/ \E c \in Client : pc[c] = "publish" /\ arg[c] = ring[k]
  /\ dpc \in {"head", "wait"} => again = {}

LEMMA HandedFrame ==
  ASSUME Handed, UNCHANGED <<ring, published, again>>,
         \A c \in Client : pc[c] = "publish" => pc'[c] = "publish" /\ arg'[c] = arg[c],
         dpc' \in {"head", "wait"} => dpc \in {"head", "wait"}
  PROVE  Handed'
<1>1. ASSUME NEW k \in 1..Len(ring)
      PROVE  \/ ring'[k] \in published'
             \/ \E c \in Client : pc'[c] = "publish" /\ arg'[c] = ring'[k]
  BY DEF Handed
<1> QED BY <1>1 DEF Handed

LEMMA HandedStep ==
  ASSUME IInv, Apart, Handed, [Next]_vars
  PROVE  Handed'
<1> USE DEF IInv
<1>0. /\ ring \in Seq(Item) /\ Len(ring) \in Nat
      /\ pc \in [Client -> PCs] /\ arg \in [Client -> Item \cup {NoItem}]
      /\ Kick \in Item
  BY LenProperties, ItemAssumption DEF TypeOK
<1>1. CASE Tick \/ Shutdown \/ UNCHANGED vars
  BY <1>1, HandedFrame DEF Tick, Shutdown, vars, queueVars, clientVars
<1>2. ASSUME NEW c \in Client, NEW i \in Item,
             Disarm(c, i) \/ \E asked \in 0..MaxTime : Create(c, i, asked)
      PROVE  Handed'
  <2>1. /\ pc[c] = "out" /\ UNCHANGED <<ring, published, again, dpc>>
        /\ \A d \in Client \ {c} : pc'[d] = pc[d] /\ arg'[d] = arg[d]
    BY <1>0, <1>2 DEF Disarm, Create, Free, Goto, queueVars
  <2> QED BY <2>1, HandedFrame
<1>3. ASSUME NEW c \in Client, Claim(c)
      PROVE  Handed'
  <2>1. /\ arg[c] \in Item /\ pc[c] = "claim" /\ pc'[c] = "publish"
        /\ \A d \in Client \ {c} : pc'[d] = pc[d]
        /\ UNCHANGED <<arg, published, again, dpc>>
    BY <1>0, <1>3 DEF Claim, Goto, Calls
  <2>2. /\ Len(ring') = Len(ring) + 1 /\ ring'[Len(ring) + 1] = arg[c]
        /\ \A k \in 1..Len(ring) : ring'[k] = ring[k]
    BY <1>0, <1>3, <2>1, AppendProperties DEF Claim
  <2>3. ASSUME NEW k \in 1..Len(ring')
        PROVE  ring'[k] \in published' \/ \E d \in Client : pc'[d] = "publish" /\ arg'[d] = ring'[k]
    <3>1. k \in 1..Len(ring) \/ k = Len(ring) + 1
      BY <1>0, <2>2
    <3>2. CASE k = Len(ring) + 1
      BY <2>1, <2>2, <3>2
    <3>3. CASE k \in 1..Len(ring)
      BY <2>1, <2>2, <3>3 DEF Handed
    <3> QED BY <3>1, <3>2, <3>3
  <2> QED BY <2>1, <2>3 DEF Handed
<1>4. ASSUME NEW c \in Client, Publish(c)
      PROVE  Handed'
  <2>1. /\ published' = published \cup {arg[c]} /\ UNCHANGED <<ring, arg, again, dpc>>
        /\ \A d \in Client \ {c} : pc'[d] = pc[d]
    BY <1>0, <1>4 DEF Publish, Goto
  <2> QED BY <2>1 DEF Handed
<1>5. ASSUME NEW c \in Client, DisarmSelf(c) \/ DisarmCas(c)
      PROVE  Handed'
  <2>1. /\ pc[c] = "disarm" /\ UNCHANGED <<ring, published, again, dpc, arg>>
        /\ \A d \in Client \ {c} : pc'[d] = pc[d]
    BY <1>0, <1>5 DEF DisarmSelf, DisarmCas, Goto, queueVars
  <2> QED BY <2>1, HandedFrame
<1>6. CASE LoopTest \/ Timeout \/ CallbackReturns \/ Test
  BY <1>6, HandedFrame DEF LoopTest, Timeout, CallbackReturns, Test, queueVars, clientVars
<1>7. CASE Consume
  <2>1. PICK n \in 1..Len(ring) :
           published' = published \ Slots(n) /\ ring' = SubSeq(ring, n + 1, Len(ring))
    BY <1>7 DEF Consume
  <2>2. UNCHANGED <<pc, arg>> /\ dpc' = "fire"
    BY <1>7 DEF Consume, clientVars
  <2>3. /\ Len(ring') = Len(ring) - n
        /\ \A k \in 1..(Len(ring) - n) : ring'[k] = ring[n + k]
    BY <1>0, <2>1, WithoutFirst
  <2>4. ASSUME NEW k \in 1..Len(ring')
        PROVE  ring'[k] \in published' \/ \E d \in Client : pc'[d] = "publish" /\ arg'[d] = ring'[k]
    <3>1. n + k \in 1..Len(ring) /\ ring'[k] = ring[n + k]
      BY <1>0, <2>3
    <3>2. ring[n + k] \notin Slots(n)
      <4>1. \A j \in 1..n : j \in 1..Len(ring) /\ j # n + k
        BY <1>0
      <4> QED BY <3>1, <4>1 DEF Slots, Apart
    <3>3. ring[n + k] \in published \/ \E d \in Client : pc[d] = "publish" /\ arg[d] = ring[n + k]
      BY <3>1 DEF Handed
    <3> QED BY <2>1, <2>2, <3>1, <3>2, <3>3
  <2> QED BY <2>2, <2>4 DEF Handed
<1>8. CASE Fire
  <2>1. UNCHANGED <<ring, published, again, pc, arg>> /\ dpc' \in {"fire", "callback"}
    BY <1>8 DEF Fire, clientVars
  <2> QED BY <2>1, HandedFrame
<1>9. CASE FireDone
  <2>1. UNCHANGED <<ring, published, pc, arg>> /\ again' = {}
    BY <1>9 DEF FireDone, clientVars
  <2> QED BY <2>1 DEF Handed
<1>10. CASE Rearm \/ Retire
  <2>1. UNCHANGED <<ring, published, pc, arg>> /\ dpc' = "fire"
    BY <1>10 DEF Rearm, Retire, queueVars, clientVars
  <2> QED BY <2>1 DEF Handed
<1>11. CASE ShutdownKick
  <2>1. UNCHANGED <<again, dpc, pc, arg>> /\ published' = published \cup {Kick}
    BY <1>11 DEF ShutdownKick, clientVars
  <2>2. /\ Len(ring') = Len(ring) + 1 /\ ring'[Len(ring) + 1] = Kick
        /\ \A k \in 1..Len(ring) : ring'[k] = ring[k]
    BY <1>0, <1>11, AppendProperties DEF ShutdownKick
  <2>3. \A k \in 1..Len(ring') : k \in 1..Len(ring) \/ k = Len(ring) + 1
    BY <1>0, <2>2
  <2> QED BY <2>1, <2>2, <2>3 DEF Handed
<1> QED BY <1>1, <1>2, <1>3, <1>4, <1>5, <1>6, <1>7, <1>8, <1>9, <1>10, <1>11
        DEF Next, ClientStep, DispatchStep

\* Among the items of the wait queue one is the earliest, so that the front is
\* due as soon as any item is.
LEMMA FrontIsDue ==
  ASSUME TypeOK, NEW i \in queued, due[i] =< now
  PROVE  Front # {}
<1> DEFINE Earlier(j) == {k \in queued : due[k] < due[j]}
           Sizes == {Cardinality(Earlier(j)) : j \in queued}
<1>1. IsFiniteSet(queued) /\ now \in Int /\ \A j \in queued : due[j] \in Int
  BY ItemAssumption, FS_Subset DEF TypeOK
<1>2. \A j \in queued : IsFiniteSet(Earlier(j)) /\ Cardinality(Earlier(j)) \in Nat
  BY <1>1, FS_Subset, FS_CardinalityType
<1>3. PICK j \in queued : \A k \in queued : ~(Cardinality(Earlier(k)) < Cardinality(Earlier(j)))
  <2>1. Sizes \subseteq Nat /\ Sizes # {}
    BY <1>2
  <2>2. PICK n \in Sizes : \A m \in Sizes : ~(<<m, n>> \in OpToRel(<, Nat))
    <3> HIDE DEF Sizes
    <3> QED BY <2>1, NatLessThanWellFounded, WFMin
  <2>3. \A m, k \in Nat : m < k => <<m, k>> \in OpToRel(<, Nat)
    BY DEF OpToRel
  <2>4. \A m \in Sizes : ~(m < n)
    <3> HIDE DEF Sizes
    <3> QED BY <2>1, <2>2, <2>3
  <2> QED BY <2>4
<1>4. ASSUME NEW k \in queued, due[k] < due[j]
      PROVE  FALSE
  <2>1. Earlier(k) \subseteq Earlier(j) /\ k \in Earlier(j) /\ k \notin Earlier(k)
    BY <1>1, <1>4
  <2>2. Cardinality(Earlier(k)) < Cardinality(Earlier(j))
    <3> HIDE DEF Earlier
    <3>1. /\ Cardinality(Earlier(k)) =< Cardinality(Earlier(j))
          /\ Cardinality(Earlier(k)) # Cardinality(Earlier(j))
      BY <1>2, <2>1, FS_Subset
    <3> QED BY <1>2, <3>1
  <2> QED BY <1>3, <2>2
<1>5. due[j] =< now /\ \A k \in queued : due[j] =< due[k]
  BY <1>1, <1>4
<1> QED BY <1>5 DEF Front

(* However many timers and threads there are: the dispatch thread does not *)
(* sleep past a timer that is due, in the ring or in the wait queue, once  *)
(* the threads that hand items over are through (TimerThreadMain).         *)
THEOREM NotForgotten == Spec => []NoTimerForgotten
<1>1. Init => Handed
  BY EmptySeq DEF Init, Handed
<1>2. IInv /\ [Next]_vars => IInv'
  BY TypeStep, CallbackStep, KnownStep DEF IInv
<1>3. IInv /\ Apart /\ Alive /\ Handed => NoTimerForgotten
  <2> SUFFICES ASSUME IInv, Alive, Handed, dpc = "wait",
                      NEW i \in Item, itemState[i] = "idle", due[i] =< now,
                      \A c \in Client : pc[c] \notin {"claim", "publish"}
               PROVE  ~Available(0) \/ Front # {}
    BY DEF NoTimerForgotten
  <2>1. Claiming = {} /\ again = {} /\ Popped = {}
    BY DEF Claiming, Handed, Popped, IInv, OneCallback
  <2>2. CASE i \in InRing
    <3>1. Len(ring) \in Nat /\ 0 < Len(ring)
      BY <2>2, LenProperties DEF InRing, IInv, TypeOK
    <3>2. ring[1] \in published
      BY <3>1 DEF Handed
    <3> QED BY <3>1, <3>2 DEF Available
  <2>3. CASE i \in queued
    BY <2>3, FrontIsDue DEF IInv
  <2> QED BY <2>1, <2>2, <2>3 DEF Alive, Anywhere
<1> QED BY <1>1, <1>2, <1>3, InitIInv, ApartInit, ApartStep, HandedStep, PTL DEF Spec
==============================================================================
