----------------------------- MODULE ThreadProofs -----------------------------
(***************************************************************************)
(* Waits and suspensions of threads.                                       *)
(*                                                                         *)
(* HostWait, for any number of threads, objects and requests, as long as   *)
(* threads release only the mutants they own: no thread sleeps on an       *)
(* object that would satisfy it, whoever waited for a mutant keeps it, and *)
(* the locks, sleeps and wake-ups of the backend implement the Dispatcher. *)
(*                                                                         *)
(* HostThread, for any number of controllers: a suspension holds, the      *)
(* count is exact, an ended thread is signaled.  Every token of the        *)
(* semaphore is owed to a wait to come (Tokens), and every wait that has   *)
(* been answered has its token (Paid).                                     *)
(*                                                                         *)
(* GuestThread: the guest's count is exact where no suspension can come    *)
(* between the read and the write of a resume (Exclusive), and zero        *)
(* together with the host's if another thread does not nest (OneDeep).  No *)
(* notification of a resume is missed.                                     *)
(***************************************************************************)
EXTENDS HostWait, GuestThread, FiniteSetTheorems, TLAPS

Waiting == {"lock", "sleep", "woken", "late", "poll"}

Taking(t, o) == pc[t] = "own" /\ mutex[o] = t

\* The first k objects of a thread's request.
First(t, k) == {req[t].objects[j] : j \in 1..k}

\* What each place of a thread implies.
PlacesFit ==
  \A t \in Thread :
    /\ pc[t] \in Waiting => req[t] \in Requests
    /\ pc[t] = "pulse" => arg[t] \in Object /\ IsEvent(arg[t])
    /\ pc[t] = "tested" => /\ arg[t] \in Object /\ Kind[arg[t]] = "mutant"
                           /\ held[t][arg[t]] > 0
    /\ pc[t] \notin {"poll", "own"} => Locked(t) = {}

\* A poll holds the locks of the first few of its objects.
Prefix == \A t \in Thread : pc[t] = "poll" =>
            \E k \in 0..Len(req[t].objects) : Locked(t) = First(t, k)

\* The count of a mutant is its holder's waits, the one in progress included.
Counted ==
  \A o \in Mutants :
    /\ \A t \in Thread : held[t][o] > 0 =>
         owner[o] = t /\ value[o] = held[t][o] + (IF Taking(t, o) THEN 1 ELSE 0)
    /\ (\A t \in Thread : held[t][o] = 0)
         => value[o] = IF \E t \in Thread : Taking(t, o) THEN 1 ELSE 0
    /\ \A t, u \in Thread : Taking(t, o) /\ u # t => held[u][o] = 0

IInv == TypeOK /\ PlacesFit /\ Prefix /\ Counted /\ NoSleeperMissed

LEMMA InitIInv == Init => IInv
<1> SUFFICES ASSUME Init PROVE IInv
  OBVIOUS
<1> USE ThreadAssumption, KindAssumption, ValueAssumption, RequestAssumption DEF Init
<1>1. TypeOK
  BY DEF TypeOK, PCs
<1>2. PlacesFit
  BY DEF PlacesFit, Waiting, Locked
<1>3. Prefix /\ NoSleeperMissed
  BY DEF Prefix, NoSleeperMissed
<1>4. ASSUME NEW o \in Mutants PROVE value[o] = 0 /\ \A t \in Thread : ~Taking(t, o)
  <2>1. o \in Object /\ Kind[o] = "mutant"
    BY DEF Mutants
  <2>2. Initial[o] = 0
    BY <2>1
  <2> QED BY <2>2 DEF Taking
<1>5. Counted
  BY <1>4 DEF Counted, Mutants
<1> QED BY <1>1, <1>2, <1>3, <1>5 DEF IInv

\* The object of a wait is an object.
LEMMA OnlyIsObject ==
  ASSUME PlacesFit, NEW t \in Thread, pc[t] \in Waiting
  PROVE  /\ req[t] \in Requests /\ Only(t) \in Object
         /\ Len(req[t].objects) \in Nat \ {0}
         /\ \A i \in 1..Len(req[t].objects) : req[t].objects[i] \in Object
<1>1. req[t] \in Requests
  BY DEF PlacesFit
<1>2. req[t].objects \in Seq(Object) /\ req[t].objects # <<>>
  BY <1>1, RequestAssumption
<1>3. Len(req[t].objects) \in Nat /\ Len(req[t].objects) # 0
  BY <1>2
<1> QED BY <1>1, <1>2, <1>3 DEF Only

\* A poll that has no handle left to lock holds them all.
LEMMA CollectedAll ==
  ASSUME PlacesFit, Prefix, NEW t \in Thread, Collected(t)
  PROVE  \A i \in 1..Len(req[t].objects) : mutex[req[t].objects[i]] = t
<1>1. pc[t] = "poll" /\ NextHandle(t) = {}
  BY DEF Collected
<1>2. /\ Len(req[t].objects) \in Nat
      /\ req[t].objects \in Seq(Object)
  BY <1>1, OnlyIsObject, RequestAssumption DEF Waiting
<1>3. PICK k \in 0..Len(req[t].objects) : Locked(t) = First(t, k)
  BY <1>1 DEF Prefix
<1>4. k = Len(req[t].objects)
  <2>1. SUFFICES ASSUME k < Len(req[t].objects) PROVE FALSE
    BY <1>2, <1>3
  <2>2. k + 1 \in DOMAIN req[t].objects /\ (k + 1) - 1 = k
    BY <1>2, <2>1
  <2>3. k + 1 \in NextHandle(t)
    BY <1>3, <2>2 DEF NextHandle, First
  <2> QED BY <1>1, <2>3
<1> QED BY <1>3, <1>4 DEF First, Locked
------------------------------------------------------------------------------
(* A wait that is satisfied *)

LEMMA TakeStep ==
  ASSUME IInv, NEW t \in Thread, NEW S \in SUBSET Object,
         pc[t] \in {"lock", "woken", "late", "poll"},
         \A o \in S : Signaled(t, o) /\ mutex[o] \in {NoThread, t},
         PostExecution(t, S)
  PROVE  IInv'
<1> USE DEF IInv
<1> DEFINE mutants == {o \in S : Kind[o] = "mutant"}
<1>1. /\ pc' \in [Thread -> PCs] /\ pc'[t] \in {"run", "own"}
      /\ pc'[t] = "own" <=> mutants # {}
      /\ \A u \in Thread \ {t} :
           \/ pc'[u] = pc[u]
           \/ pc[u] = "sleep" /\ pc'[u] = "woken"
  BY DEF TypeOK, PCs, PostExecution, NotifyAll
<1>2. \A o \in S : Kind[o] = "semaphore" => value[o] > 0
  BY DEF Signaled
<1>3. value' \in [Object -> Nat]
  BY <1>2, KindAssumption DEF TypeOK, IsEvent, PostExecution
<1>4. TypeOK'
  BY <1>1, <1>3, ThreadAssumption DEF TypeOK, PostExecution
<1>5. \A o \in Object : /\ o \in mutants => mutex'[o] = t
                        /\ o \notin mutants => mutex'[o] # t
                        /\ \A u \in Thread \ {t} : mutex'[o] = u <=> mutex[o] = u
  BY ThreadAssumption DEF TypeOK, PostExecution
<1>6. PlacesFit'
  BY <1>1, <1>5 DEF PlacesFit, Waiting, Locked, TypeOK, IsEvent, PostExecution
<1>7. Prefix'
  <2>1. ASSUME NEW u \in Thread, pc'[u] = "poll"
        PROVE  \E k \in 0..Len(req'[u].objects) : Locked(u)' = First(u, k)'
    <3>1. u # t /\ pc[u] = "poll" /\ req'[u] = req[u]
      BY <1>1, <2>1 DEF TypeOK, PostExecution
    <3>2. Locked(u)' = Locked(u)
      BY <1>5, <3>1 DEF Locked
    <3> QED BY <3>1, <3>2 DEF Prefix, First
  <2> QED BY <2>1 DEF Prefix
<1>8. Counted'
  <2>1. ASSUME NEW o \in Mutants, o \notin S
        PROVE  /\ value'[o] = value[o] /\ owner'[o] = owner[o]
               /\ \A u \in Thread : Taking(u, o)' <=> Taking(u, o)
    BY <1>1, <1>5, <2>1 DEF Taking, Mutants, TypeOK, PostExecution, NotifyAll
  <2>2. ASSUME NEW o \in Mutants, o \in S
        PROVE  /\ value'[o] = value[o] + 1 /\ owner'[o] = owner[o]
               /\ value[o] \in Nat
               /\ Taking(t, o)' /\ \A u \in Thread \ {t} : ~Taking(u, o)'
               /\ \A u \in Thread : ~Taking(u, o)
               /\ \A u \in Thread \ {t} : held[u][o] = 0
               /\ held[t][o] = 0 => value[o] = 0
    <3>1. o \in mutants /\ o \in Object /\ Kind[o] = "mutant"
      BY <2>2 DEF Mutants
    <3>2. \A u \in Thread : ~Taking(u, o)
      BY <2>2, ThreadAssumption DEF Taking
    <3>3. Taking(t, o)' /\ \A u \in Thread \ {t} : ~Taking(u, o)'
      BY <1>1, <1>5, <3>1 DEF Taking
    <3>4. value[o] = 0 \/ owner[o] = t
      BY <2>2, <3>1 DEF Signaled
    <3>5. ASSUME NEW u \in Thread, held[u][o] > 0
          PROVE  owner[o] = u /\ value[o] > 0
      <4>1. owner[o] = u /\ value[o] = held[u][o] + (IF Taking(u, o) THEN 1 ELSE 0)
        BY <3>5 DEF Counted
      <4>2. held[u][o] \in Nat
        BY <3>1 DEF TypeOK
      <4> QED BY <3>2, <3>5, <4>1, <4>2
    <3>6. \A u \in Thread : held[u][o] \in Nat
      BY <3>1 DEF TypeOK
    <3>7. \A u \in Thread \ {t} : held[u][o] = 0
      BY <3>4, <3>5, <3>6
    <3>8. held[t][o] = 0 => value[o] = 0
      <4>1. (\A u \in Thread : held[u][o] = 0)
              => value[o] = IF \E u \in Thread : Taking(u, o) THEN 1 ELSE 0
        BY DEF Counted
      <4> QED BY <3>2, <3>7, <4>1
    <3>9. value'[o] = value[o] + 1 /\ owner'[o] = owner[o] /\ value[o] \in Nat
      BY <3>1, <2>2 DEF TypeOK, PostExecution, IsEvent
    <3> QED BY <3>2, <3>3, <3>7, <3>8, <3>9
  <2>3. ASSUME NEW o \in Mutants, NEW u \in Thread
        PROVE  held'[u][o] = held[u][o] /\ held[u][o] \in Nat
    BY DEF TypeOK, Mutants, PostExecution
  <2>4. ASSUME NEW o \in Mutants
        PROVE  /\ \A u \in Thread : held[u][o] > 0 =>
                    owner[o] = u /\ value[o] = held[u][o] + (IF Taking(u, o) THEN 1 ELSE 0)
               /\ (\A u \in Thread : held[u][o] = 0)
                    => value[o] = IF \E u \in Thread : Taking(u, o) THEN 1 ELSE 0
               /\ \A u, v \in Thread : Taking(u, o) /\ v # u => held[v][o] = 0
    BY DEF Counted
  <2>5. ASSUME NEW o \in Mutants, NEW u \in Thread, held'[u][o] > 0
        PROVE  owner'[o] = u /\ value'[o] = held'[u][o] + (IF Taking(u, o)' THEN 1 ELSE 0)
    <3>1. CASE o \in S
      <4>1. held[u][o] > 0 /\ held'[u][o] = held[u][o] /\ held[u][o] \in Nat
        BY <2>3, <2>5
      <4>2. u = t
        BY <2>2, <3>1, <4>1
      <4>3. owner[o] = t /\ value[o] = held[t][o]
        BY <2>2, <2>4, <3>1, <4>1, <4>2
      <4> QED BY <2>2, <3>1, <4>1, <4>2, <4>3
    <3>2. CASE o \notin S
      BY <2>1, <2>3, <2>4, <2>5, <3>2
    <3> QED BY <3>1, <3>2
  <2>6. ASSUME NEW o \in Mutants, \A u \in Thread : held'[u][o] = 0
        PROVE  value'[o] = IF \E u \in Thread : Taking(u, o)' THEN 1 ELSE 0
    <3>1. CASE o \in S
      BY <2>2, <2>3, <2>6, <3>1
    <3>2. CASE o \notin S
      BY <2>1, <2>3, <2>4, <2>6, <3>2
    <3> QED BY <3>1, <3>2
  <2>7. ASSUME NEW o \in Mutants, NEW v \in Thread, NEW u \in Thread,
               Taking(v, o)', u # v
        PROVE  held'[u][o] = 0
    <3>1. CASE o \in S
      BY <2>2, <2>3, <2>7, <3>1
    <3>2. CASE o \notin S
      BY <2>1, <2>3, <2>4, <2>7, <3>2
    <3> QED BY <3>1, <3>2
  <2> QED BY <2>5, <2>6, <2>7 DEF Counted, Mutants
<1>9. NoSleeperMissed'
  <2>1. SUFFICES ASSUME NEW u \in Thread, pc'[u] = "sleep" PROVE ~Signaled(u, Only(u))'
    BY DEF NoSleeperMissed
  <2>2. u # t /\ pc[u] = "sleep" /\ req'[u] = req[u]
    BY <1>1, <2>1 DEF TypeOK, PostExecution
  <2> DEFINE o == Only(u)
  <2>3. o \in Object /\ Only(u)' = o /\ ~Signaled(u, o) /\ owner' = owner
    BY <2>2, OnlyIsObject DEF NoSleeperMissed, Only, Waiting, PostExecution
  <2>4. ~(o \in S /\ Kind[o] = "semaphore")
    BY <2>1, <2>2, <2>3 DEF PostExecution, NotifyAll
  <2>5. value[o] \in Nat
    BY <2>3 DEF TypeOK
  <2> QED BY <2>3, <2>4, <2>5, KindAssumption DEF Signaled, PostExecution, IsEvent
<1> QED BY <1>4, <1>6, <1>7, <1>8, <1>9
------------------------------------------------------------------------------
(* What the other steps leave alone *)

LEMMA CountedFrame ==
  ASSUME Counted, UNCHANGED held,
         \A o \in Mutants : value'[o] = value[o] /\ owner'[o] = owner[o],
         \A o \in Mutants, u \in Thread : Taking(u, o)' <=> Taking(u, o)
  PROVE  Counted'
BY DEF Counted, Mutants

LEMMA PrefixFrame ==
  ASSUME Prefix,
         \A u \in Thread : pc'[u] = "poll" =>
           /\ pc[u] = "poll" /\ req'[u] = req[u]
           /\ \A o \in Object : mutex'[o] = u <=> mutex[o] = u
  PROVE  Prefix'
<1>1. ASSUME NEW u \in Thread, pc'[u] = "poll"
      PROVE  \E k \in 0..Len(req'[u].objects) : Locked(u)' = First(u, k)'
  <2>1. pc[u] = "poll" /\ req'[u] = req[u] /\ Locked(u)' = Locked(u)
    BY <1>1 DEF Locked
  <2> QED BY <2>1 DEF Prefix, First
<1> QED BY <1>1 DEF Prefix

\* Threads that sleep after the step slept before it, on an object that the
\* step has not made ready for them.
LEMMA SleepersFrame ==
  ASSUME IInv,
         \A u \in Thread : pc'[u] = "sleep" =>
           /\ pc[u] = "sleep" /\ req'[u] = req[u]
           /\ Only(u) \in Object /\ ~Signaled(u, Only(u))
                => ~(IF Kind[Only(u)] = "mutant"
                     THEN value'[Only(u)] = 0 \/ owner'[Only(u)] = u
                     ELSE value'[Only(u)] > 0)
  PROVE  NoSleeperMissed'
<1>1. ASSUME NEW u \in Thread, pc'[u] = "sleep" PROVE ~Signaled(u, Only(u))'
  <2>1. pc[u] = "sleep" /\ req'[u] = req[u] /\ Only(u)' = Only(u)
    BY <1>1 DEF Only
  <2>2. Only(u) \in Object /\ ~Signaled(u, Only(u))
    BY <2>1, OnlyIsObject DEF IInv, NoSleeperMissed, Waiting
  <2> QED BY <1>1, <2>1, <2>2 DEF Signaled
<1> QED BY <1>1 DEF NoSleeperMissed

\* A change of an event or a semaphore: whoever slept on it is woken, unless
\* the object is not signaled afterwards.
LEMMA PutStep ==
  ASSUME IInv, NEW t \in Thread, NEW o \in Object, NEW v \in Nat,
         Kind[o] # "mutant", pc[t] \in {"run", "pulse"},
         value' = [value EXCEPT ![o] = v],
         UNCHANGED <<owner, mutex, req, held>>,
         \/ v = 0 /\ pc' = [pc EXCEPT ![t] = "run"] /\ arg' \in {arg, [arg EXCEPT ![t] = NoThread]}
         \/ NotifyAll({o}, t, "run") /\ UNCHANGED arg
         \/ /\ NotifyAll({o}, t, "pulse") /\ IsEvent(o)
            /\ arg' = [arg EXCEPT ![t] = o]
  PROVE  IInv'
<1> USE DEF IInv
<1>1. /\ pc' \in [Thread -> PCs] /\ pc'[t] \in {"run", "pulse"}
      /\ pc'[t] = "pulse" => arg'[t] = o /\ IsEvent(o)
      /\ \A u \in Thread \ {t} :
           /\ arg'[u] = arg[u]
           /\ pc'[u] = pc[u] \/ (pc[u] = "sleep" /\ pc'[u] = "woken")
      /\ \A u \in Thread : pc'[u] = "sleep" =>
           pc[u] = "sleep" /\ (Only(u) # o \/ v = 0)
  <2>0. pc \in [Thread -> PCs] /\ arg \in [Thread -> Object \cup {NoThread}]
        /\ {"run", "pulse", "woken"} \subseteq PCs
    BY DEF TypeOK, PCs
  <2>1. CASE /\ v = 0 /\ pc' = [pc EXCEPT ![t] = "run"]
             /\ arg' \in {arg, [arg EXCEPT ![t] = NoThread]}
    BY <2>0, <2>1
  <2>2. CASE NotifyAll({o}, t, "run") /\ UNCHANGED arg
    BY <2>0, <2>2 DEF NotifyAll
  <2>3. CASE /\ NotifyAll({o}, t, "pulse") /\ IsEvent(o)
             /\ arg' = [arg EXCEPT ![t] = o]
    BY <2>0, <2>3 DEF NotifyAll
  <2> QED BY <2>1, <2>2, <2>3
<1>2. TypeOK'
  <2>1. arg' \in [Thread -> Object \cup {NoThread}]
    BY DEF TypeOK
  <2>2. value' \in [Object -> Nat]
    BY DEF TypeOK
  <2> QED BY <1>1, <2>1, <2>2 DEF TypeOK
<1>3. PlacesFit'
  BY <1>1 DEF PlacesFit, Waiting, Locked, TypeOK
<1>4. Prefix'
  BY <1>1, PrefixFrame
<1>5. Counted'
  <2>1. \A p \in Mutants : value'[p] = value[p] /\ owner'[p] = owner[p]
    BY DEF TypeOK, Mutants
  <2>2. \A p \in Mutants, u \in Thread : Taking(u, p)' <=> Taking(u, p)
    BY <1>1 DEF Taking
  <2> QED BY <2>1, <2>2, CountedFrame
<1>6. NoSleeperMissed'
  <2>1. ASSUME NEW u \in Thread, pc'[u] = "sleep", Only(u) \in Object, ~Signaled(u, Only(u))
        PROVE  ~(IF Kind[Only(u)] = "mutant"
                 THEN value'[Only(u)] = 0 \/ owner'[Only(u)] = u
                 ELSE value'[Only(u)] > 0)
    <3>1. CASE Only(u) = o
      <4>1. value'[o] = 0
        BY <1>1, <2>1, <3>1 DEF TypeOK
      <4> QED BY <3>1, <4>1
    <3>2. CASE Only(u) # o
      <4>1. value'[Only(u)] = value[Only(u)] /\ owner' = owner
        BY <2>1, <3>2 DEF TypeOK
      <4> QED BY <2>1, <4>1 DEF Signaled
    <3> QED BY <3>1, <3>2
  <2> QED BY <1>1, <2>1, SleepersFrame
<1> QED BY <1>2, <1>3, <1>4, <1>5, <1>6

\* A step of one thread from place to place that changes no object and keeps
\* its locks, or drops all of them.
LEMMA GoStep ==
  ASSUME IInv, NEW t \in Thread, NEW to \in PCs,
         pc[t] # "own", to \notin {"own", "poll"},
         UNCHANGED <<value, owner, held>>,
         pc' = [pc EXCEPT ![t] = to],
         mutex' \in {mutex, [o \in Object |-> IF mutex[o] = t THEN NoThread ELSE mutex[o]]},
         pc[t] = "poll" => mutex' # mutex \/ Locked(t) = {},
         req' \in [Thread -> Requests \cup {NoRequest}],
         arg' \in [Thread -> Object \cup {NoThread}],
         \A u \in Thread \ {t} : req'[u] = req[u] /\ arg'[u] = arg[u],
         to \in Waiting => req'[t] \in Requests,
         to = "pulse" => arg'[t] \in Object /\ IsEvent(arg'[t]),
         to = "tested" => /\ arg'[t] \in Object /\ Kind[arg'[t]] = "mutant"
                          /\ held[t][arg'[t]] > 0,
         to = "sleep" => req'[t] = req[t] /\ ~Signaled(t, Only(t))
  PROVE  IInv'
<1> USE DEF IInv
<1>1. /\ pc' \in [Thread -> PCs] /\ pc'[t] = to
      /\ \A u \in Thread \ {t} : pc'[u] = pc[u]
  BY DEF TypeOK
<1>2. TypeOK'
  BY <1>1, ThreadAssumption DEF TypeOK
<1>3. \A o \in Object, u \in Thread \ {t} : mutex'[o] = u <=> mutex[o] = u
  BY ThreadAssumption
<1>4. Locked(t)' = {}
  BY ThreadAssumption DEF Locked, PlacesFit
<1>5. PlacesFit'
  BY <1>1, <1>3, <1>4 DEF PlacesFit, Waiting, Locked
<1>6. Prefix'
  BY <1>1, <1>3, PrefixFrame
<1>7. Counted'
  <2>1. \A o \in Mutants, u \in Thread : Taking(u, o)' <=> Taking(u, o)
    BY <1>1, <1>3 DEF Taking, Mutants
  <2> QED BY <2>1, CountedFrame
<1>8. NoSleeperMissed'
  <2>1. ASSUME NEW u \in Thread, pc'[u] = "sleep" PROVE ~Signaled(u, Only(u))'
    <3>1. req'[u] = req[u] /\ Only(u)' = Only(u)
      BY <1>1, <2>1 DEF Only
    <3>2. ~Signaled(u, Only(u))
      BY <1>1, <2>1 DEF NoSleeperMissed
    <3> QED BY <3>1, <3>2 DEF Signaled
  <2> QED BY <2>1 DEF NoSleeperMissed
<1> QED BY <1>2, <1>5, <1>6, <1>7, <1>8
------------------------------------------------------------------------------
(* Steps into and inside a poll *)

LEMMA PollStepPlaces ==
  ASSUME IInv, NEW t \in Thread, pc[t] \notin {"sleep", "own"},
         UNCHANGED <<value, owner, held, arg>>,
         pc' = [pc EXCEPT ![t] = "poll"],
         req' \in [Thread -> Requests \cup {NoRequest}], req'[t] \in Requests,
         \A u \in Thread \ {t} : req'[u] = req[u],
         mutex' \in [Object -> Thread \cup {NoThread}],
         \A o \in Object, u \in Thread \ {t} : mutex'[o] = u <=> mutex[o] = u,
         \E k \in 0..Len(req'[t].objects) : Locked(t)' = First(t, k)'
  PROVE  IInv'
<1> USE DEF IInv
<1>1. /\ pc' \in [Thread -> PCs] /\ pc'[t] = "poll"
      /\ \A u \in Thread \ {t} : pc'[u] = pc[u]
  BY DEF TypeOK, PCs
<1>2. TypeOK'
  BY <1>1 DEF TypeOK
<1>3. PlacesFit'
  BY <1>1 DEF PlacesFit, Waiting, Locked
<1>4. Prefix'
  <2>1. ASSUME NEW u \in Thread \ {t}, pc'[u] = "poll"
        PROVE  \E k \in 0..Len(req'[u].objects) : Locked(u)' = First(u, k)'
    <3>1. pc[u] = "poll" /\ req'[u] = req[u] /\ Locked(u)' = Locked(u)
      BY <1>1, <2>1 DEF Locked
    <3>2. PICK k \in 0..Len(req[u].objects) : Locked(u) = First(u, k)
      BY <3>1 DEF Prefix
    <3>3. First(u, k)' = First(u, k)
      BY <3>1 DEF First
    <3> QED BY <3>1, <3>2, <3>3
  <2> QED BY <1>1, <2>1 DEF Prefix
<1>5. Counted'
  <2>1. \A o \in Mutants, u \in Thread : Taking(u, o)' <=> Taking(u, o)
    BY <1>1 DEF Taking, Mutants
  <2> QED BY <2>1, CountedFrame
<1>6. NoSleeperMissed'
  <2>1. ASSUME NEW u \in Thread, pc'[u] = "sleep" PROVE ~Signaled(u, Only(u))'
    <3>1. u # t /\ pc[u] = "sleep" /\ req'[u] = req[u] /\ Only(u)' = Only(u)
      BY <1>1, <2>1 DEF Only
    <3> QED BY <3>1 DEF NoSleeperMissed, Signaled
  <2> QED BY <2>1 DEF NoSleeperMissed
<1> QED BY <1>2, <1>3, <1>4, <1>5, <1>6

LEMMA BeginStep ==
  ASSUME IInv, NEW t \in Thread, NEW r \in Requests, Begin(t, r)
  PROVE  IInv'
<1> USE DEF IInv
<1>1. /\ req' \in [Thread -> Requests \cup {NoRequest}] /\ req'[t] = r
      /\ \A u \in Thread \ {t} : req'[u] = req[u]
      /\ pc[t] = "run"
  BY DEF Begin, TypeOK
<1>2. CASE Len(r.objects) = 1
  <2>1. pc' = [pc EXCEPT ![t] = "lock"] /\ UNCHANGED <<value, owner, held, arg, mutex>>
    BY <1>2 DEF Begin, Goto
  <2>2. arg \in [Thread -> Object \cup {NoThread}]
    BY DEF TypeOK
  <2> QED BY <1>1, <2>1, <2>2, GoStep DEF PCs
<1>3. CASE Len(r.objects) # 1
  <2>1. pc' = [pc EXCEPT ![t] = "poll"] /\ UNCHANGED <<value, owner, held, arg, mutex>>
    BY <1>3 DEF Begin, Goto
  <2>2. 0 \in 0..Len(r.objects)
    BY RequestAssumption
  <2>3. Locked(t)' = {} /\ First(t, 0)' = {}
    BY <1>1, <2>1 DEF PlacesFit, Locked, First
  <2>4. \E k \in 0..Len(req'[t].objects) : Locked(t)' = First(t, k)'
    BY <1>1, <2>2, <2>3
  <2> QED BY <1>1, <2>1, <2>4, PollStepPlaces DEF TypeOK
<1> QED BY <1>2, <1>3

LEMMA TryLockStep ==
  ASSUME IInv, NEW t \in Thread, TryLock(t)
  PROVE  IInv'
<1> USE DEF IInv
<1>1. /\ pc[t] = "poll" /\ req[t] \in Requests
      /\ Len(req[t].objects) \in Nat
      /\ UNCHANGED <<value, owner, pc, req, arg, held>>
  BY OnlyIsObject DEF TryLock, Waiting
<1>2. PICK i \in NextHandle(t) :
        mutex' = [p \in Object |->
          IF Free(req[t].objects[i]) THEN (IF p = req[t].objects[i] THEN t ELSE mutex[p])
          ELSE IF mutex[p] = t THEN NoThread ELSE mutex[p]]
  BY DEF TryLock
<1> DEFINE o == req[t].objects[i]
<1>3. /\ i \in 1..Len(req[t].objects) /\ o \in Object
      /\ Locked(t) = {req[t].objects[j] : j \in 1..(i - 1)}
  BY <1>1, <1>2, OnlyIsObject, RequestAssumption DEF NextHandle, Waiting
<1>4. /\ mutex' \in [Object -> Thread \cup {NoThread}]
      /\ \A p \in Object, u \in Thread \ {t} : mutex'[p] = u <=> mutex[p] = u
  BY <1>2, <1>3, ThreadAssumption DEF TypeOK, Free
<1>5. \E k \in 0..Len(req'[t].objects) : Locked(t)' = First(t, k)'
  <2>1. CASE Free(o)
    <3>1. Locked(t)' = Locked(t) \cup {o}
      BY <1>2, <1>3, <2>1 DEF Locked
    <3>2. Locked(t)' = First(t, i)'
      <4>1. First(t, i)' = {req[t].objects[j] : j \in 1..(i - 1)} \cup {o}
        <5>1. 1..i = 1..(i - 1) \cup {i}
          BY <1>3
        <5> QED BY <1>1, <5>1 DEF First
      <4> QED BY <1>3, <3>1, <4>1
    <3> QED BY <1>1, <1>3, <3>2
  <2>2. CASE ~Free(o)
    <3>1. Locked(t)' = {}
      BY <1>2, <2>2, ThreadAssumption DEF Locked
    <3>2. First(t, 0)' = {} /\ 0 \in 0..Len(req'[t].objects)
      BY <1>1 DEF First
    <3> QED BY <3>1, <3>2
  <2> QED BY <2>1, <2>2
<1>6. pc' = [pc EXCEPT ![t] = "poll"]
  BY <1>1 DEF TypeOK
<1> QED BY <1>1, <1>4, <1>5, <1>6, PollStepPlaces DEF TypeOK

LEMMA PollAgainStep ==
  ASSUME IInv, NEW t \in Thread, PollAgain(t)
  PROVE  IInv'
<1> USE DEF IInv
<1>1. /\ pc[t] = "poll" /\ req[t] \in Requests
      /\ Len(req[t].objects) \in Nat
      /\ UNCHANGED <<value, owner, pc, req, arg, held>>
      /\ mutex' = [o \in Object |-> IF mutex[o] = t THEN NoThread ELSE mutex[o]]
  BY OnlyIsObject DEF PollAgain, Collected, Unlocked, Waiting
<1>2. /\ mutex' \in [Object -> Thread \cup {NoThread}]
      /\ \A p \in Object, u \in Thread \ {t} : mutex'[p] = u <=> mutex[p] = u
  BY <1>1, ThreadAssumption DEF TypeOK
<1>3. Locked(t)' = {} /\ First(t, 0)' = {} /\ 0 \in 0..Len(req'[t].objects)
  BY <1>1, ThreadAssumption DEF Locked, First
<1>4. pc' = [pc EXCEPT ![t] = "poll"]
  BY <1>1 DEF TypeOK
<1> QED BY <1>1, <1>2, <1>3, <1>4, PollStepPlaces DEF TypeOK
------------------------------------------------------------------------------
(* Mutants *)

LEMMA ReleaseMutantStep ==
  ASSUME IInv, NEW t \in Thread, ReleaseMutant(t)
  PROVE  IInv'
<1> USE DEF IInv
<1> DEFINE o == arg[t]
<1>1. /\ pc[t] = "tested" /\ o \in Object /\ Kind[o] = "mutant" /\ o \in Mutants
      /\ held[t][o] > 0 /\ Free(o)
      /\ UNCHANGED <<owner, mutex, req>>
  BY DEF ReleaseMutant, PlacesFit, Mutants
<1>2. /\ \A u \in Thread : held[u] \in [Object -> Nat]
      /\ \A u \in Thread : ~Taking(u, o)
  BY <1>1, ThreadAssumption DEF TypeOK, Taking, Free
<1>3. owner[o] = t /\ value[o] = held[t][o] /\ value[o] > 0 /\ value[o] \in Nat
  <2>1. owner[o] = t /\ value[o] = held[t][o] + (IF Taking(t, o) THEN 1 ELSE 0)
    BY <1>1 DEF Counted
  <2> QED BY <1>1, <1>2, <2>1
<1>4. \A u \in Thread \ {t} : held[u][o] = 0
  BY <1>1, <1>2, <1>3 DEF Counted
<1>5. /\ value' \in [Object -> Nat] /\ value'[o] = value[o] - 1
      /\ \A p \in Object \ {o} : value'[p] = value[p]
  BY <1>1, <1>3 DEF ReleaseMutant, TypeOK
<1>6. /\ held' \in [Thread -> [Object -> Nat]] /\ held'[t][o] = held[t][o] - 1
      /\ \A p \in Object, u \in Thread : u # t \/ p # o => held'[u][p] = held[u][p]
  BY <1>1, <1>2 DEF ReleaseMutant, TypeOK
<1>7. /\ pc' \in [Thread -> PCs] /\ pc'[t] = "run"
      /\ \A u \in Thread \ {t} : pc'[u] = pc[u] \/ (pc[u] = "sleep" /\ pc'[u] = "woken")
      /\ \A u \in Thread : pc'[u] = "sleep" =>
           pc[u] = "sleep" /\ (Only(u) # o \/ value[o] # 1)
  BY DEF ReleaseMutant, NotifyAll, TypeOK, PCs
<1>8. /\ arg' \in [Thread -> Object \cup {NoThread}]
      /\ \A u \in Thread \ {t} : arg'[u] = arg[u]
  BY DEF ReleaseMutant, TypeOK
<1>9. TypeOK'
  BY <1>1, <1>5, <1>6, <1>7, <1>8 DEF TypeOK
<1>10. PlacesFit'
  BY <1>1, <1>6, <1>7, <1>8 DEF PlacesFit, Waiting, Locked
<1>11. Prefix'
  BY <1>1, <1>7, PrefixFrame
<1>12. \A p \in Mutants, u \in Thread : Taking(u, p)' <=> Taking(u, p)
  BY <1>1, <1>7 DEF Taking
<1>13. Counted'
  <2>1. ASSUME NEW p \in Mutants, p # o
        PROVE  /\ value'[p] = value[p] /\ owner'[p] = owner[p]
               /\ \A u \in Thread : held'[u][p] = held[u][p]
    BY <1>1, <1>5, <1>6, <2>1 DEF Mutants
  <2>2. ASSUME NEW p \in Mutants, NEW u \in Thread, held'[u][p] > 0
        PROVE  owner'[p] = u /\ value'[p] = held'[u][p] + (IF Taking(u, p)' THEN 1 ELSE 0)
    <3>1. CASE p = o
      BY <1>1, <1>2, <1>3, <1>4, <1>5, <1>6, <1>12, <2>2, <3>1
    <3>2. CASE p # o
      BY <1>12, <2>1, <2>2, <3>2 DEF Counted
    <3> QED BY <3>1, <3>2
  <2>3. ASSUME NEW p \in Mutants, \A u \in Thread : held'[u][p] = 0
        PROVE  value'[p] = IF \E u \in Thread : Taking(u, p)' THEN 1 ELSE 0
    <3>1. CASE p = o
      BY <1>1, <1>2, <1>3, <1>5, <1>6, <1>12, <2>3, <3>1
    <3>2. CASE p # o
      BY <1>12, <2>1, <2>3, <3>2 DEF Counted
    <3> QED BY <3>1, <3>2
  <2>4. ASSUME NEW p \in Mutants, NEW v \in Thread, NEW u \in Thread,
               Taking(v, p)', u # v
        PROVE  held'[u][p] = 0
    <3>1. p # o
      BY <1>1, <1>2, <1>12, <2>4
    <3> QED BY <1>12, <2>1, <2>4, <3>1 DEF Counted
  <2> QED BY <2>2, <2>3, <2>4 DEF Counted, Mutants
<1>14. NoSleeperMissed'
  <2>1. ASSUME NEW u \in Thread, pc'[u] = "sleep", Only(u) \in Object, ~Signaled(u, Only(u))
        PROVE  ~(IF Kind[Only(u)] = "mutant"
                 THEN value'[Only(u)] = 0 \/ owner'[Only(u)] = u
                 ELSE value'[Only(u)] > 0)
    <3>1. CASE Only(u) = o
      <4>1. u # t /\ value[o] # 1
        BY <1>7, <2>1, <3>1
      <4> QED BY <1>1, <1>3, <1>5, <3>1, <4>1
    <3>2. CASE Only(u) # o
      BY <1>1, <1>5, <2>1, <3>2 DEF Signaled
    <3> QED BY <3>1, <3>2
  <2> QED BY <1>1, <1>7, <2>1, SleepersFrame
<1> QED BY <1>9, <1>10, <1>11, <1>13, <1>14

LEMMA OwnStep ==
  ASSUME IInv, NEW t \in Thread, Own(t)
  PROVE  IInv'
<1> USE DEF IInv
<1>1. /\ pc[t] = "own" /\ UNCHANGED <<value, req, arg>>
      /\ pc' \in [Thread -> PCs] /\ pc'[t] = "run"
      /\ \A u \in Thread \ {t} : pc'[u] = pc[u]
  BY DEF Own, Goto, TypeOK, PCs
<1>2. /\ owner' \in [Object -> Thread \cup {NoThread}]
      /\ mutex' \in [Object -> Thread \cup {NoThread}]
      /\ \A o \in Object :
           /\ owner'[o] = IF mutex[o] = t THEN t ELSE owner[o]
           /\ mutex'[o] # t
           /\ \A u \in Thread \ {t} : mutex'[o] = u <=> mutex[o] = u
  BY ThreadAssumption DEF Own, TypeOK
<1>3. /\ held' \in [Thread -> [Object -> Nat]]
      /\ \A o \in Object :
           /\ held'[t][o] = held[t][o] + (IF mutex[o] = t THEN 1 ELSE 0)
           /\ \A u \in Thread \ {t} : held'[u][o] = held[u][o]
  <2>1. held[t] \in [Object -> Nat]
    BY DEF TypeOK
  <2>2. [o \in Object |-> held[t][o] + (IF mutex[o] = t THEN 1 ELSE 0)] \in [Object -> Nat]
    BY <2>1
  <2> QED BY <2>1, <2>2 DEF Own, TypeOK
<1>4. TypeOK'
  BY <1>1, <1>2, <1>3 DEF TypeOK
<1>5. PlacesFit'
  <2>1. ASSUME NEW u \in Thread \ {t}, pc[u] = "tested"
        PROVE  held'[u][arg[u]] = held[u][arg[u]]
    BY <1>3, <2>1 DEF PlacesFit
  <2> QED BY <1>1, <1>2, <2>1 DEF PlacesFit, Waiting, Locked
<1>6. Prefix'
  BY <1>1, <1>2, PrefixFrame
<1>7. \A o \in Object : /\ ~Taking(t, o)'
                        /\ \A u \in Thread \ {t} : Taking(u, o)' <=> Taking(u, o)
                        /\ Taking(t, o) <=> mutex[o] = t
  BY <1>1, <1>2 DEF Taking
<1>8. Counted'
  <2>1. ASSUME NEW o \in Mutants, NEW u \in Thread
        PROVE  o \in Object /\ value'[o] = value[o] /\ held[u][o] \in Nat /\ value[o] \in Nat
    BY <1>1 DEF TypeOK, Mutants
  <2>2. ASSUME NEW o \in Mutants
        PROVE  /\ \A u \in Thread : held[u][o] > 0 =>
                    owner[o] = u /\ value[o] = held[u][o] + (IF Taking(u, o) THEN 1 ELSE 0)
               /\ (\A u \in Thread : held[u][o] = 0)
                    => value[o] = IF \E u \in Thread : Taking(u, o) THEN 1 ELSE 0
               /\ \A u, v \in Thread : Taking(u, o) /\ v # u => held[v][o] = 0
    BY DEF Counted
  <2>3. ASSUME NEW o \in Mutants, Taking(t, o)
        PROVE  /\ owner'[o] = t /\ held'[t][o] = held[t][o] + 1
               /\ value[o] = held[t][o] + 1
               /\ \A u \in Thread \ {t} : held'[u][o] = 0
               /\ \A u \in Thread : ~Taking(u, o)'
    <3>1. \A u \in Thread \ {t} : held[u][o] = 0
      BY <2>2, <2>3
    <3>2. value[o] = held[t][o] + 1
      <4>1. CASE held[t][o] > 0
        BY <2>2, <2>3, <4>1
      <4>2. CASE held[t][o] = 0
        BY <2>2, <2>3, <3>1, <4>2
      <4> QED BY <2>1, <4>1, <4>2
    <3>3. \A u \in Thread : ~Taking(u, o)'
      BY <1>7, <2>1, <2>3 DEF Taking
    <3> QED BY <1>2, <1>3, <1>7, <2>1, <2>3, <3>1, <3>2, <3>3
  <2>4. ASSUME NEW o \in Mutants, ~Taking(t, o)
        PROVE  /\ owner'[o] = owner[o]
               /\ \A u \in Thread : held'[u][o] = held[u][o]
               /\ \A u \in Thread : Taking(u, o)' <=> Taking(u, o)
    BY <1>2, <1>3, <1>7, <2>1, <2>4
  <2>5. ASSUME NEW o \in Mutants, NEW u \in Thread, held'[u][o] > 0
        PROVE  owner'[o] = u /\ value'[o] = held'[u][o] + (IF Taking(u, o)' THEN 1 ELSE 0)
    <3>1. CASE Taking(t, o)
      BY <2>1, <2>3, <2>5, <3>1
    <3>2. CASE ~Taking(t, o)
      BY <2>1, <2>2, <2>4, <2>5, <3>2
    <3> QED BY <3>1, <3>2
  <2>6. ASSUME NEW o \in Mutants, \A u \in Thread : held'[u][o] = 0
        PROVE  value'[o] = IF \E u \in Thread : Taking(u, o)' THEN 1 ELSE 0
    <3>1. ~Taking(t, o)
      BY <2>1, <2>3, <2>6
    <3> QED BY <2>1, <2>2, <2>4, <2>6, <3>1
  <2>7. ASSUME NEW o \in Mutants, NEW v \in Thread, NEW u \in Thread,
               Taking(v, o)', u # v
        PROVE  held'[u][o] = 0
    <3>1. ~Taking(t, o)
      BY <2>3, <2>7
    <3> QED BY <2>2, <2>4, <2>7, <3>1
  <2> QED BY <2>5, <2>6, <2>7 DEF Counted, Mutants
<1>9. NoSleeperMissed'
  <2>1. ASSUME NEW u \in Thread, pc'[u] = "sleep", Only(u) \in Object, ~Signaled(u, Only(u))
        PROVE  ~(IF Kind[Only(u)] = "mutant"
                 THEN value'[Only(u)] = 0 \/ owner'[Only(u)] = u
                 ELSE value'[Only(u)] > 0)
    <3>1. u # t
      BY <1>1, <2>1
    <3> QED BY <1>1, <1>2, <2>1, <3>1 DEF Signaled
  <2> QED BY <1>1, <2>1, SleepersFrame
<1> QED BY <1>4, <1>5, <1>6, <1>8, <1>9
------------------------------------------------------------------------------
LEMMA SignalStep ==
  ASSUME IInv, Strangers = FALSE, NEW t \in Thread, Signal(t)
  PROVE  IInv'
<1> USE DEF IInv
<1>1. PICK o \in Object : \/ Set(t, o) \/ Reset(t, o) \/ Pulse(t, o) \/ TestMutant(t, o)
                          \/ \E n \in 1..Limit[o] : Release(t, o, n)
  BY DEF Signal
<1>2. CASE Set(t, o)
  BY <1>2, PutStep DEF Set, IsEvent
<1>3. CASE Reset(t, o)
  <2>1. pc' = [pc EXCEPT ![t] = "run"]
    BY <1>3 DEF Reset, TypeOK
  <2> QED BY <1>3, <2>1, PutStep DEF Reset, IsEvent
<1>4. CASE Pulse(t, o)
  BY <1>4, PutStep DEF Pulse, IsEvent
<1>5. CASE TestMutant(t, o)
  <2>1. /\ arg' = [arg EXCEPT ![t] = o] /\ arg' \in [Thread -> Object \cup {NoThread}]
        /\ pc' = [pc EXCEPT ![t] = "tested"] /\ pc[t] = "run"
        /\ Kind[o] = "mutant" /\ held[t][o] > 0
        /\ UNCHANGED <<value, owner, mutex, req, held>>
    BY <1>5 DEF TestMutant, Goto, TypeOK
  <2>2. req' \in [Thread -> Requests \cup {NoRequest}]
    BY <2>1 DEF TypeOK
  <2>3. arg'[t] = o /\ \A u \in Thread \ {t} : arg'[u] = arg[u]
    BY <2>1 DEF TypeOK
  <2> QED BY <2>1, <2>2, <2>3, GoStep DEF PCs, Waiting
<1>6. ASSUME NEW n \in 1..Limit[o], Release(t, o, n) PROVE IInv'
  <2>1. value[o] \in Nat /\ value[o] + n \in Nat
    BY <1>6, ValueAssumption DEF TypeOK
  <2>2. value' = [value EXCEPT ![o] = value[o] + n]
    BY <1>6 DEF Release
  <2> QED BY <1>6, <2>1, <2>2, PutStep DEF Release
<1> QED BY <1>1, <1>2, <1>3, <1>4, <1>5, <1>6

LEMMA WaitStepStep ==
  ASSUME IInv, NEW t \in Thread, WaitStep(t)
  PROVE  IInv'
<1> USE DEF IInv
<1>1. CASE Succeed(t)
  <2>1. pc[t] \in Waiting /\ Only(t) \in Object
    BY <1>1, OnlyIsObject DEF Succeed, Waiting
  <2> QED BY <1>1, <2>1, TakeStep DEF Succeed, Free
<1>2. CASE Sleep(t)
  <2>1. /\ pc[t] \in Waiting \ {"poll", "sleep"} /\ req[t] \in Requests
        /\ pc' = [pc EXCEPT ![t] = "sleep"] /\ ~Signaled(t, Only(t))
        /\ UNCHANGED <<value, owner, mutex, req, arg, held>>
    BY <1>2, OnlyIsObject DEF Sleep, Goto, Waiting
  <2>2. req' \in [Thread -> Requests \cup {NoRequest}] /\ arg' \in [Thread -> Object \cup {NoThread}]
    BY <2>1 DEF TypeOK
  <2> QED BY <2>1, <2>2, GoStep DEF PCs, Waiting
<1>3. CASE GiveUp(t)
  <2>1. /\ pc[t] = "late" /\ pc' = [pc EXCEPT ![t] = "run"]
        /\ req' = [req EXCEPT ![t] = NoRequest]
        /\ UNCHANGED <<value, owner, mutex, arg, held>>
    BY <1>3 DEF GiveUp, Return, Goto
  <2>2. /\ req' \in [Thread -> Requests \cup {NoRequest}]
        /\ arg' \in [Thread -> Object \cup {NoThread}]
        /\ \A u \in Thread \ {t} : req'[u] = req[u]
    BY <2>1 DEF TypeOK
  <2> QED BY <2>1, <2>2, GoStep DEF PCs, Waiting
<1> QED BY <1>1, <1>2, <1>3 DEF WaitStep

LEMMA ExpireStep ==
  ASSUME IInv, NEW t \in Thread, Expire(t)
  PROVE  IInv'
<1> USE DEF IInv
<1>1. PICK to \in {"late", "woken"} : pc' = [pc EXCEPT ![t] = to]
  BY DEF Expire, Goto
<1>2. /\ pc[t] = "sleep" /\ req[t] \in Requests
      /\ UNCHANGED <<value, owner, mutex, req, arg, held>>
  BY OnlyIsObject DEF Expire, Waiting
<1>3. req' \in [Thread -> Requests \cup {NoRequest}] /\ arg' \in [Thread -> Object \cup {NoThread}]
  BY <1>2 DEF TypeOK
<1> QED BY <1>1, <1>2, <1>3, GoStep DEF PCs, Waiting

LEMMA PollStepStep ==
  ASSUME IInv, NEW t \in Thread, PollStep(t)
  PROVE  IInv'
<1> USE DEF IInv
<1>1. CASE TryLock(t)
  BY <1>1, TryLockStep
<1>2. CASE SucceedAll(t)
  <2>1. pc[t] = "poll" /\ Locked(t) \in SUBSET Object /\ \A o \in Locked(t) : mutex[o] = t
    BY <1>2 DEF SucceedAll, Collected, Locked
  <2> QED BY <1>2, <2>1, TakeStep DEF SucceedAll
<1>3. CASE SucceedAny(t)
  <2>1. PICK i \in DOMAIN req[t].objects :
          Signaled(t, req[t].objects[i]) /\ PostExecution(t, {req[t].objects[i]})
    BY <1>3 DEF SucceedAny
  <2>2. Collected(t) /\ pc[t] = "poll"
    BY <1>3 DEF SucceedAny, Collected
  <2>3. i \in 1..Len(req[t].objects) /\ req[t].objects[i] \in Object
    BY <2>1, <2>2, OnlyIsObject, RequestAssumption DEF Waiting
  <2>4. mutex[req[t].objects[i]] = t
    BY <2>2, <2>3, CollectedAll
  <2> QED BY <2>1, <2>2, <2>3, <2>4, TakeStep
<1>4. CASE PollAgain(t)
  BY <1>4, PollAgainStep
<1>5. CASE PollGivesUp(t)
  <2>1. /\ pc[t] = "poll" /\ pc' = [pc EXCEPT ![t] = "run"]
        /\ req' = [req EXCEPT ![t] = NoRequest]
        /\ mutex' = [o \in Object |-> IF mutex[o] = t THEN NoThread ELSE mutex[o]]
        /\ UNCHANGED <<value, owner, arg, held>>
    BY <1>5 DEF PollGivesUp, Collected, Return, Goto, Unlocked
  <2>2. /\ req' \in [Thread -> Requests \cup {NoRequest}]
        /\ arg' \in [Thread -> Object \cup {NoThread}]
        /\ \A u \in Thread \ {t} : req'[u] = req[u]
    BY <2>1 DEF TypeOK
  <2>3. mutex' # mutex \/ Locked(t) = {}
    BY <2>1, ThreadAssumption DEF Locked
  <2> QED BY <2>1, <2>2, <2>3, GoStep DEF PCs, Waiting
<1> QED BY <1>1, <1>2, <1>3, <1>4, <1>5 DEF PollStep

LEMMA FinishStep ==
  ASSUME IInv, NEW t \in Thread, Finish(t)
  PROVE  IInv'
<1> USE DEF IInv
<1>1. CASE PulseReset(t)
  <2>1. /\ pc[t] = "pulse" /\ arg[t] \in Object /\ Kind[arg[t]] # "mutant"
        /\ value' = [value EXCEPT ![arg[t]] = 0] /\ pc' = [pc EXCEPT ![t] = "run"]
        /\ arg' = [arg EXCEPT ![t] = NoThread]
        /\ UNCHANGED <<owner, mutex, req, held>>
    BY <1>1 DEF PulseReset, Goto, PlacesFit, IsEvent
  <2> QED BY <2>1, PutStep
<1> QED BY <1>1, ReleaseMutantStep, OwnStep DEF Finish

LEMMA NextStep == Strangers = FALSE => (IInv /\ [Next]_vars => IInv')
<1> SUFFICES ASSUME Strangers = FALSE, IInv, [Next]_vars PROVE IInv'
  OBVIOUS
<1>1. CASE UNCHANGED vars
  <2>1. UNCHANGED <<value, owner, mutex, pc, req, arg, held>>
    BY <1>1 DEF vars
  <2>2. TypeOK'
    BY <2>1 DEF IInv, TypeOK
  <2>3. PlacesFit' /\ Prefix'
    BY <2>1, PrefixFrame DEF IInv, PlacesFit, Locked
  <2>4. Counted'
    BY <2>1, CountedFrame DEF IInv, Taking
  <2>5. NoSleeperMissed'
    BY <2>1 DEF IInv, NoSleeperMissed, Signaled, Only
  <2> QED BY <2>2, <2>3, <2>4, <2>5 DEF IInv
<1>2. ASSUME NEW t \in Thread, \/ Signal(t) \/ Expire(t)
                               \/ \E r \in Requests : Begin(t, r)
                               \/ WaitStep(t) \/ PollStep(t) \/ Finish(t)
      PROVE  IInv'
  BY <1>2, SignalStep, ExpireStep, BeginStep, WaitStepStep, PollStepStep, FinishStep
<1> QED BY <1>1, <1>2 DEF Next

LEMMA IInvImplies == IInv => MutantsKept
<1> SUFFICES ASSUME IInv, NEW o \in Mutants, NEW t \in Thread, held[t][o] > 0
             PROVE  /\ value[o] = held[t][o] + (IF pc[t] = "own" /\ mutex[o] = t THEN 1 ELSE 0)
                    /\ \A u \in Thread \ {t} : held[u][o] = 0
  BY DEF MutantsKept
<1>1. \A u \in Thread : held[u][o] \in Nat
  BY DEF IInv, TypeOK, Mutants
<1>2. owner[o] = t /\ value[o] = held[t][o] + (IF Taking(t, o) THEN 1 ELSE 0)
  BY DEF IInv, Counted
<1>3. ASSUME NEW u \in Thread \ {t} PROVE held[u][o] = 0
  <2>1. held[u][o] > 0 => owner[o] = u
    BY DEF IInv, Counted
  <2> QED BY <1>1, <1>2, <2>1
<1> QED BY <1>2, <1>3 DEF Taking

(* If threads release only the mutants they own, no thread ever sleeps on  *)
(* an object that would satisfy it: every change that can make an object   *)
(* ready notifies (Signal, Release and post_execution).                    *)
THEOREM Sleepers == Strangers = FALSE => (Spec => [](TypeOK /\ NoSleeperMissed))
<1> SUFFICES ASSUME Strangers = FALSE PROVE Spec => [](TypeOK /\ NoSleeperMissed)
  OBVIOUS
<1>1. IInv /\ [Next]_vars => IInv'
  BY NextStep
<1>2. IInv => TypeOK /\ NoSleeperMissed
  BY DEF IInv
<1> QED BY InitIInv, <1>1, <1>2, PTL DEF Spec

(* If threads release only the mutants they own, whoever waited for a      *)
(* mutant has it alone, exactly as often as it waited, until it releases   *)
(* it, whatever single waits, WaitAny and WaitAll compete for it.          *)
THEOREM Mutual == Strangers = FALSE => (Spec => []MutantsKept)
<1> SUFFICES ASSUME Strangers = FALSE PROVE Spec => []MutantsKept
  OBVIOUS
<1>1. IInv /\ [Next]_vars => IInv'
  BY NextStep
<1> QED BY InitIInv, <1>1, IInvImplies, PTL DEF Spec
------------------------------------------------------------------------------
(* Refinement *)

\* What a thread waits for, place by place.
Requested ==
  \A t \in Thread :
    /\ pc[t] \notin Waiting => req[t] = NoRequest
    /\ pc[t] \in Waiting \ {"poll"} => Len(req[t].objects) = 1
    /\ pc[t] = "late" => req[t].finite

\* One thread goes to a place; the others are at most woken.
Moves(t, place) ==
  /\ pc'[t] = place
  /\ \A u \in Thread \ {t} : pc'[u] = pc[u] \/ (pc[u] = "sleep" /\ pc'[u] = "woken")

LEMMA MovesBy ==
  ASSUME TypeOK, NEW t \in Thread, NEW place,
         Goto(t, place) \/ \E S \in SUBSET Object : NotifyAll(S, t, place)
  PROVE  Moves(t, place)
BY DEF Moves, Goto, NotifyAll, TypeOK

\* Begin apart, a thread that does not wait neither starts to nor asks.
LEMMA RequestedAtRest ==
  ASSUME Requested, NEW t \in Thread, NEW place \in PCs \ Waiting,
         Moves(t, place), req'[t] = NoRequest,
         \A u \in Thread \ {t} : req'[u] = req[u]
  PROVE  Requested'
BY DEF Requested, Moves, Waiting

LEMMA RequestedStep == IInv /\ Requested /\ [Next]_vars => Requested'
<1> SUFFICES ASSUME IInv, Requested, [Next]_vars PROVE Requested'
  OBVIOUS
<1> USE DEF IInv
<1>1. CASE UNCHANGED vars
  BY <1>1 DEF vars, Requested
<1>2. ASSUME NEW t \in Thread, Signal(t) \/ Finish(t) PROVE Requested'
  <2>1. pc[t] \notin Waiting /\ UNCHANGED req
    BY <1>2 DEF Signal, Finish, Set, Reset, Pulse, TestMutant, Release, PulseReset,
                ReleaseMutant, Own, Waiting
  <2>2. \E place \in PCs \ Waiting : Moves(t, place)
    <3>1. ASSUME NEW o \in Object, Reset(t, o) PROVE Moves(t, "run")
      BY <3>1 DEF Reset, Moves
    <3>2. ASSUME NEW o \in Object, Set(t, o) \/ \E n \in 1..Limit[o] : Release(t, o, n)
          PROVE  Moves(t, "run")
      <4>1. NotifyAll({o}, t, "run")
        BY <3>2 DEF Set, Release
      <4> QED BY <4>1, MovesBy
    <3>3. ASSUME NEW o \in Object, Pulse(t, o) PROVE Moves(t, "pulse")
      <4>1. NotifyAll({o}, t, "pulse")
        BY <3>3 DEF Pulse
      <4> QED BY <4>1, MovesBy
    <3>4. ASSUME NEW o \in Object, TestMutant(t, o) PROVE Moves(t, "tested")
      BY <3>4, MovesBy DEF TestMutant
    <3>5. ASSUME ReleaseMutant(t) PROVE Moves(t, "run")
      <4>1. arg[t] \in Object
        BY <3>5 DEF ReleaseMutant, PlacesFit
      <4>2. \E S \in SUBSET Object : NotifyAll(S, t, "run")
        BY <3>5, <4>1 DEF ReleaseMutant
      <4> QED BY <4>2, MovesBy
    <3>6. ASSUME PulseReset(t) \/ Own(t) PROVE Moves(t, "run")
      BY <3>6, MovesBy DEF PulseReset, Own
    <3> QED
      BY <1>2, <3>1, <3>2, <3>3, <3>4, <3>5, <3>6 DEF Signal, Finish, PCs, Waiting
  <2>3. req'[t] = NoRequest
    BY <2>1 DEF Requested
  <2> QED BY <2>1, <2>2, <2>3, RequestedAtRest
<1>3. ASSUME NEW t \in Thread, NEW S \in SUBSET Object, PostExecution(t, S)
      PROVE  Requested'
  <2>1. /\ Moves(t, "run") \/ Moves(t, "own")
        /\ req'[t] = NoRequest /\ \A u \in Thread \ {t} : req'[u] = req[u]
    BY <1>3, MovesBy DEF PostExecution, TypeOK
  <2> QED BY <2>1, RequestedAtRest DEF PCs, Waiting
<1>4. ASSUME NEW t \in Thread, Succeed(t) \/ SucceedAll(t) \/ SucceedAny(t)
      PROVE  Requested'
  <2>1. CASE Succeed(t)
    <3>1. Only(t) \in Object
      BY <2>1, OnlyIsObject DEF Succeed, Waiting
    <3> QED BY <1>3, <2>1, <3>1 DEF Succeed
  <2>2. CASE SucceedAll(t)
    BY <1>3, <2>2 DEF SucceedAll, Locked
  <2>3. CASE SucceedAny(t)
    <3>1. pc[t] = "poll"
      BY <2>3 DEF SucceedAny, Collected
    <3>2. PICK i \in DOMAIN req[t].objects : PostExecution(t, {req[t].objects[i]})
      BY <2>3 DEF SucceedAny
    <3>3. req[t].objects[i] \in Object
      BY <3>1, <3>2, OnlyIsObject, RequestAssumption DEF Waiting
    <3> QED BY <1>3, <3>2, <3>3
  <2> QED BY <1>4, <2>1, <2>2, <2>3
<1>5. ASSUME NEW t \in Thread, NEW r \in Requests, Begin(t, r) PROVE Requested'
  BY <1>5 DEF Begin, Goto, Requested, Waiting, TypeOK
<1>6. ASSUME NEW t \in Thread, Sleep(t) \/ Expire(t) PROVE Requested'
  BY <1>6 DEF Sleep, Expire, Goto, Requested, Waiting, TypeOK
<1>7. ASSUME NEW t \in Thread, GiveUp(t) \/ PollGivesUp(t) PROVE Requested'
  <2>1. /\ Moves(t, "run")
        /\ req'[t] = NoRequest /\ \A u \in Thread \ {t} : req'[u] = req[u]
    BY <1>7, MovesBy DEF GiveUp, PollGivesUp, Return, TypeOK
  <2> QED BY <2>1, RequestedAtRest DEF PCs, Waiting
<1>8. ASSUME NEW t \in Thread, TryLock(t) \/ PollAgain(t) PROVE Requested'
  BY <1>8 DEF TryLock, PollAgain, Requested
<1> QED
  BY <1>1, <1>2, <1>4, <1>5, <1>6, <1>7, <1>8 DEF Next, WaitStep, PollStep
------------------------------------------------------------------------------
\* Steps that change no mutant and nobody's taking of one keep the holders.
LEMMA HolderFrame ==
  ASSUME \A o \in Mutants : value'[o] = value[o] /\ owner'[o] = owner[o],
         \A o \in Mutants : /\ Counting(o)' <=> Counting(o)
                            /\ Counting(o) => mutex'[o] = mutex[o]
  PROVE  holder' = holder
<1>1. ASSUME NEW o \in Object
      PROVE  (IF Kind[o] # "mutant" \/ value'[o] = 0 THEN NoThread
              ELSE IF Counting(o)' THEN mutex'[o] ELSE owner'[o])
             = (IF Kind[o] # "mutant" \/ value[o] = 0 THEN NoThread
                ELSE IF Counting(o) THEN mutex[o] ELSE owner[o])
  BY DEF Mutants
<1> QED BY <1>1 DEF holder

\* The same, of a thread that moves and keeps away from the locks of others.
LEMMA HolderMoves ==
  ASSUME TypeOK, NEW t \in Thread, NEW place, Moves(t, place),
         pc[t] # "own", place # "own",
         \A o \in Mutants : value'[o] = value[o] /\ owner'[o] = owner[o],
         \A o \in Object : \/ mutex'[o] = mutex[o]
                           \/ /\ mutex[o] \in {NoThread, t}
                              /\ mutex'[o] \in {NoThread, t}
  PROVE  holder' = holder
<1>1. ASSUME NEW o \in Mutants
      PROVE  /\ Counting(o)' <=> Counting(o)
             /\ Counting(o) => mutex'[o] = mutex[o]
  <2>1. o \in Object /\ mutex[o] \in Thread \cup {NoThread}
    BY DEF Mutants, TypeOK
  <2>2. \A u \in Thread : pc'[u] = "own" <=> pc[u] = "own"
    BY DEF Moves
  <2>3. CASE mutex'[o] = mutex[o]
    BY <2>1, <2>2, <2>3 DEF Counting
  <2>4. CASE mutex[o] \in {NoThread, t} /\ mutex'[o] \in {NoThread, t}
    BY <2>2, <2>4 DEF Counting
  <2> QED BY <2>1, <2>3, <2>4
<1> QED BY <1>1, HolderFrame

\* Whom a mutant belongs to when its lock is free or held by a poll.
LEMMA HolderAt ==
  ASSUME NEW t \in Thread, NEW o \in Mutants, mutex[o] \in {NoThread, t}, pc[t] # "own"
  PROVE  holder[o] = IF value[o] = 0 THEN NoThread ELSE owner[o]
BY DEF holder, Counting, Mutants

\* A wait that is satisfied is satisfied at once, with all it takes.
LEMMA TakeSatisfies ==
  ASSUME IInv, NEW t \in Thread, NEW S \in SUBSET Object,
         pc[t] \in {"lock", "woken", "late", "poll"},
         \A o \in S : Signaled(t, o) /\ mutex[o] \in {NoThread, t},
         PostExecution(t, S)
  PROVE  Abstract!Satisfy(t, S)
<1> USE DEF IInv
<1>1. ASSUME NEW o \in S PROVE Abstract!Ready(t, o)
  <2>1. CASE Kind[o] = "mutant"
    <3>1. holder[o] = IF value[o] = 0 THEN NoThread ELSE owner[o]
      BY <2>1, HolderAt DEF Mutants
    <3> QED BY <2>1, <3>1 DEF Abstract!Ready, Signaled
  <2>2. CASE Kind[o] # "mutant"
    BY <2>2 DEF Abstract!Ready, Signaled
  <2> QED BY <2>1, <2>2
<1>2. value' = [o \in Object |-> IF o \in S THEN Abstract!Taken(o) ELSE value[o]]
  <2>1. ASSUME NEW o \in Object
        PROVE  (IF o \notin S \/ Kind[o] = "manual" THEN value[o]
                ELSE CASE Kind[o] = "auto" -> 0
                       [] Kind[o] = "semaphore" -> value[o] - 1
                       [] Kind[o] = "mutant" -> value[o] + 1)
               = IF o \in S THEN Abstract!Taken(o) ELSE value[o]
    BY KindAssumption DEF Abstract!Taken
  <2> QED BY <2>1 DEF PostExecution
<1>3. holder' = [o \in Object |-> IF o \in S /\ Kind[o] = "mutant" THEN t ELSE holder[o]]
  <2>1. /\ owner' = owner
        /\ Moves(t, IF {o \in S : Kind[o] = "mutant"} = {} THEN "run" ELSE "own")
    BY MovesBy DEF PostExecution
  <2>2. ASSUME NEW o \in Object, o \in S, Kind[o] = "mutant"
        PROVE  holder'[o] = t
    <3>1. mutex'[o] = t /\ value'[o] = value[o] + 1 /\ value[o] \in Nat
      BY <2>2 DEF PostExecution, TypeOK
    <3>2. pc'[t] = "own"
      BY <2>1, <2>2 DEF Moves
    <3> QED BY <2>2, <3>1, <3>2, ThreadAssumption DEF holder, Counting
  <2>3. ASSUME NEW o \in Object, Kind[o] = "mutant", o \notin S
        PROVE  holder'[o] = holder[o]
    <3>1. /\ value'[o] = value[o]
          /\ mutex'[o] = IF mutex[o] = t THEN NoThread ELSE mutex[o]
      BY <2>3 DEF PostExecution
    <3>2. mutex[o] # NoThread /\ mutex[o] # t =>
            (pc'[mutex[o]] = "own" <=> pc[mutex[o]] = "own")
      BY <2>1 DEF Moves, TypeOK
    <3>3. Counting(o)' <=> Counting(o)
      BY <3>1, <3>2 DEF Counting
    <3>4. Counting(o) => mutex'[o] = mutex[o]
      BY <3>1 DEF Counting
    <3> QED BY <2>1, <2>3, <3>1, <3>3, <3>4 DEF holder
  <2>4. ASSUME NEW o \in Object, Kind[o] # "mutant"
        PROVE  holder'[o] = holder[o]
    BY <2>4 DEF holder
  <2>5. ASSUME NEW o \in Object
        PROVE  holder'[o] = IF o \in S /\ Kind[o] = "mutant" THEN t ELSE holder[o]
    BY <2>2, <2>3, <2>4
  <2>6. holder' = [o \in Object |-> holder'[o]]
    BY DEF holder
  <2> QED BY <2>5, <2>6
<1>4. req' = [req EXCEPT ![t] = NoRequest]
  BY DEF PostExecution
<1> QED BY <1>1, <1>2, <1>3, <1>4 DEF Abstract!Satisfy

LEMMA SignalSimulates ==
  ASSUME IInv, NEW t \in Thread, Signal(t)
  PROVE  [Abstract!Next]_(Abstract!vars)
<1> USE DEF IInv
<1>1. PICK o \in Object : \/ Set(t, o) \/ Reset(t, o) \/ Pulse(t, o) \/ TestMutant(t, o)
                          \/ \E n \in 1..Limit[o] : Release(t, o, n)
  BY DEF Signal
<1>2. CASE TestMutant(t, o)
  <2>1. Moves(t, "tested") /\ pc[t] = "run" /\ UNCHANGED <<value, owner, mutex, req>>
    BY <1>2, MovesBy DEF TestMutant
  <2>2. holder' = holder
    BY <2>1, HolderMoves
  <2> QED BY <2>1, <2>2 DEF Abstract!vars
<1>3. ASSUME Set(t, o) \/ Reset(t, o) \/ Pulse(t, o) \/ \E n \in 1..Limit[o] : Release(t, o, n)
      PROVE  Abstract!Next
  <2>1. /\ Kind[o] # "mutant" /\ pc[t] = "run" /\ UNCHANGED <<owner, mutex, req>>
        /\ \A p \in Mutants : value'[p] = value[p]
    BY <1>3, KindAssumption DEF Set, Reset, Pulse, Release, IsEvent, Mutants, TypeOK
  <2>2. Moves(t, "run") \/ Moves(t, "pulse")
    <3>1. CASE Reset(t, o)
      BY <2>1, <3>1 DEF Reset, Moves
    <3>2. CASE ~Reset(t, o)
      <4>1. NotifyAll({o}, t, "run") \/ NotifyAll({o}, t, "pulse")
        BY <1>3, <3>2 DEF Set, Pulse, Release
      <4> QED BY <4>1, MovesBy
    <3> QED BY <3>1, <3>2
  <2>3. holder' = holder
    BY <2>1, <2>2, HolderMoves
  <2>4. CASE Set(t, o) \/ Pulse(t, o)
    <3>1. Abstract!Set(o)
      BY <2>1, <2>3, <2>4 DEF Set, Pulse, IsEvent, Abstract!Set, Abstract!Put
    <3> QED BY <3>1 DEF Abstract!Next
  <2>5. CASE Reset(t, o)
    <3>1. Abstract!Reset(o)
      BY <2>1, <2>3, <2>5 DEF Reset, IsEvent, Abstract!Reset, Abstract!Put
    <3> QED BY <3>1 DEF Abstract!Next
  <2>6. ASSUME NEW n \in 1..Limit[o], Release(t, o, n) PROVE Abstract!Next
    <3>1. Abstract!Release(o, n)
      BY <2>1, <2>3, <2>6 DEF Release, Abstract!Release, Abstract!Put
    <3> QED BY <3>1 DEF Abstract!Next
  <2> QED BY <1>3, <2>4, <2>5, <2>6
<1> QED BY <1>1, <1>2, <1>3

LEMMA FinishSimulates ==
  ASSUME IInv, NEW t \in Thread, Finish(t)
  PROVE  [Abstract!Next]_(Abstract!vars)
<1> USE DEF IInv
<1>1. CASE PulseReset(t)
  <2>1. /\ pc[t] = "pulse" /\ arg[t] \in Object /\ IsEvent(arg[t])
        /\ value' = [value EXCEPT ![arg[t]] = 0] /\ Moves(t, "run")
        /\ UNCHANGED <<owner, mutex, req>>
    BY <1>1, MovesBy DEF PulseReset, PlacesFit
  <2>2. \A p \in Mutants : value'[p] = value[p]
    BY <2>1 DEF IsEvent, Mutants, TypeOK
  <2>3. holder' = holder
    BY <2>1, <2>2, HolderMoves
  <2>4. Abstract!Reset(arg[t])
    BY <2>1, <2>3 DEF IsEvent, Abstract!Reset, Abstract!Put
  <2> QED BY <2>1, <2>4 DEF Abstract!Next
<1>2. CASE ReleaseMutant(t)
  <2>1. PICK o \in Mutants :
        /\ o = arg[t] /\ pc[t] = "tested" /\ o \in Object /\ Kind[o] = "mutant"
        /\ held[t][o] > 0 /\ Free(o)
        /\ UNCHANGED <<owner, mutex, req>>
        /\ value' = [value EXCEPT ![o] = value[o] - 1]
    BY <1>2 DEF ReleaseMutant, PlacesFit, Mutants
  <2>2. owner[o] = t /\ value[o] = held[t][o] /\ value[o] \in Nat /\ value[o] > 0
    <3>1. owner[o] = t /\ value[o] = held[t][o] + (IF Taking(t, o) THEN 1 ELSE 0)
      BY <2>1 DEF Counted
    <3>2. ~Taking(t, o) /\ held[t][o] \in Nat
      BY <2>1, ThreadAssumption DEF Taking, Free, TypeOK
    <3> QED BY <2>1, <3>1, <3>2
  <2>3. holder[o] = t
    BY <2>1, <2>2, HolderAt DEF Free
  <2>4. Moves(t, "run")
    <3>1. \E S \in SUBSET Object : NotifyAll(S, t, "run")
      BY <1>2, <2>1 DEF ReleaseMutant, PlacesFit
    <3> QED BY <3>1, MovesBy
  <2>5. ASSUME NEW p \in Object, p # o PROVE holder'[p] = holder[p]
    <3>1. value'[p] = value[p] /\ owner'[p] = owner[p] /\ mutex'[p] = mutex[p]
      BY <2>1, <2>5 DEF TypeOK
    <3>2. Counting(p)' <=> Counting(p)
      BY <2>1, <2>4, <3>1 DEF Counting, Moves, TypeOK
    <3> QED BY <3>1, <3>2 DEF holder
  <2>6. holder'[o] = IF value[o] = 1 THEN NoThread ELSE t
    <3>1. ~Counting(o)' /\ value'[o] = value[o] - 1 /\ owner'[o] = t
      BY <2>1, <2>2 DEF Counting, Free, TypeOK
    <3> QED BY <2>1, <2>2, <3>1 DEF holder
  <2>7. holder' = [holder EXCEPT ![o] = IF value[o] = 1 THEN NoThread ELSE t]
    <3>1. holder' = [p \in Object |-> holder'[p]] /\ holder = [p \in Object |-> holder[p]]
      BY DEF holder
    <3> QED BY <2>5, <2>6, <3>1
  <2>8. Abstract!ReleaseMutant(t, o)
    BY <2>1, <2>3, <2>7 DEF Abstract!ReleaseMutant, Abstract!Put
  <2> QED BY <2>1, <2>8 DEF Abstract!Next
<1>3. CASE Own(t)
  <2>1. /\ pc[t] = "own" /\ UNCHANGED <<value, req>> /\ Moves(t, "run")
        /\ owner' = [o \in Object |-> IF mutex[o] = t THEN t ELSE owner[o]]
        /\ mutex' = [o \in Object |-> IF mutex[o] = t THEN NoThread ELSE mutex[o]]
    BY <1>3, MovesBy DEF Own
  <2>2. ASSUME NEW o \in Object PROVE holder'[o] = holder[o]
    <3>1. CASE mutex[o] = t
      <4>1. Counting(o) /\ ~Counting(o)' /\ owner'[o] = t
        BY <2>1, <3>1, ThreadAssumption DEF Counting
      <4> QED BY <2>1, <3>1, <4>1 DEF holder
    <3>2. CASE mutex[o] # t
      <4>1. mutex'[o] = mutex[o] /\ owner'[o] = owner[o]
        BY <2>1, <3>2
      <4>2. Counting(o)' <=> Counting(o)
        BY <2>1, <3>2, <4>1 DEF Counting, Moves, TypeOK
      <4> QED BY <2>1, <4>1, <4>2 DEF holder
    <3> QED BY <3>1, <3>2
  <2>3. holder' = holder
    <3>1. holder' = [p \in Object |-> holder'[p]] /\ holder = [p \in Object |-> holder[p]]
      BY DEF holder
    <3> QED BY <2>2, <3>1
  <2> QED BY <2>1, <2>3 DEF Abstract!vars
<1> QED BY <1>1, <1>2, <1>3 DEF Finish

LEMMA WaitSimulates ==
  ASSUME IInv, Requested, NEW t \in Thread,
         WaitStep(t) \/ Expire(t) \/ \E r \in Requests : Begin(t, r)
  PROVE  [Abstract!Next]_(Abstract!vars)
<1> USE DEF IInv
<1>1. CASE Succeed(t)
  <2>1. pc[t] \in {"lock", "woken", "late"} /\ Only(t) \in Object /\ req[t] \in Requests
    BY <1>1, OnlyIsObject DEF Succeed, Waiting
  <2>2. Abstract!Satisfy(t, {Only(t)})
    BY <1>1, <2>1, TakeSatisfies DEF Succeed, Free
  <2>3. {Only(t)} \in Abstract!Ways(req[t])
    <3>1. Len(req[t].objects) = 1 /\ req[t].objects \in Seq(Object)
      BY <2>1, RequestAssumption DEF Requested, Waiting
    <3>2. ToSet(req[t].objects) = {Only(t)}
      BY <3>1 DEF ToSet, Only
    <3> QED BY <3>2 DEF Abstract!Ways, Abstract!ToSet, ToSet
  <2>4. req[t] # NoRequest
    BY <2>1, RequestAssumption
  <2> QED BY <2>2, <2>3, <2>4 DEF Abstract!Next
<1>2. CASE Sleep(t) \/ Expire(t)
  <2>1. /\ pc[t] # "own" /\ UNCHANGED <<value, owner, mutex, req>>
        /\ Moves(t, "sleep") \/ Moves(t, "late") \/ Moves(t, "woken")
    BY <1>2, MovesBy DEF Sleep, Expire
  <2>2. holder' = holder
    BY <2>1, HolderMoves
  <2> QED BY <2>1, <2>2 DEF Abstract!vars
<1>3. CASE GiveUp(t)
  <2>1. /\ pc[t] = "late" /\ UNCHANGED <<value, owner, mutex>> /\ Moves(t, "run")
        /\ req' = [req EXCEPT ![t] = NoRequest]
    BY <1>3, MovesBy DEF GiveUp, Return
  <2>2. holder' = holder
    BY <2>1, HolderMoves
  <2>3. req[t] # NoRequest /\ req[t].finite
    BY <2>1, RequestAssumption DEF PlacesFit, Requested, Waiting
  <2> QED BY <2>1, <2>2, <2>3 DEF Abstract!Next, Abstract!TimeOut
<1>4. ASSUME NEW r \in Requests, Begin(t, r) PROVE Abstract!Next
  <2>1. /\ pc[t] = "run" /\ UNCHANGED <<value, owner, mutex>>
        /\ Moves(t, "lock") \/ Moves(t, "poll")
        /\ req' = [req EXCEPT ![t] = r]
    BY <1>4, MovesBy DEF Begin
  <2>2. holder' = holder
    BY <2>1, HolderMoves
  <2>3. req[t] = NoRequest
    BY <2>1 DEF Requested, Waiting
  <2> QED BY <2>1, <2>2, <2>3 DEF Abstract!Next, Abstract!Wait
<1> QED BY <1>1, <1>2, <1>3, <1>4 DEF WaitStep

LEMMA PollSimulates ==
  ASSUME IInv, Requested, NEW t \in Thread, PollStep(t)
  PROVE  [Abstract!Next]_(Abstract!vars)
<1> USE DEF IInv
<1>1. pc[t] = "poll"
  BY DEF PollStep, TryLock, SucceedAll, SucceedAny, PollAgain, PollGivesUp, Collected
<1>2. /\ req[t] \in Requests /\ req[t] # NoRequest /\ req[t].objects \in Seq(Object)
      /\ Len(req[t].objects) \in Nat /\ req[t].all \in BOOLEAN
  BY <1>1, RequestAssumption DEF PlacesFit, Waiting
<1>3. ASSUME NEW S \in SUBSET Object, S \in Abstract!Ways(req[t]),
             \A o \in S : Signaled(t, o) /\ mutex[o] = t, PostExecution(t, S)
      PROVE  Abstract!Next
  <2>1. Abstract!Satisfy(t, S)
    BY <1>1, <1>3, TakeSatisfies
  <2> QED BY <1>2, <1>3, <2>1 DEF Abstract!Next
<1>4. CASE SucceedAll(t)
  <2>1. Locked(t) = ToSet(req[t].objects)
    <3>1. \A i \in 1..Len(req[t].objects) : req[t].objects[i] \in Object /\ mutex[req[t].objects[i]] = t
      BY <1>1, <1>4, CollectedAll, OnlyIsObject DEF SucceedAll, Waiting
    <3>2. PICK k \in 0..Len(req[t].objects) : Locked(t) = First(t, k)
      BY <1>1 DEF Prefix
    <3> QED BY <1>2, <3>1, <3>2 DEF Locked, First, ToSet
  <2>2. Locked(t) \in Abstract!Ways(req[t])
    BY <1>4, <2>1 DEF SucceedAll, Abstract!Ways, Abstract!ToSet, ToSet
  <2> QED BY <1>3, <1>4, <2>2 DEF SucceedAll, Locked
<1>5. CASE SucceedAny(t)
  <2>1. PICK i \in DOMAIN req[t].objects :
          Signaled(t, req[t].objects[i]) /\ PostExecution(t, {req[t].objects[i]})
    BY <1>5 DEF SucceedAny
  <2>2. i \in 1..Len(req[t].objects) /\ req[t].objects[i] \in Object /\ mutex[req[t].objects[i]] = t
    BY <1>1, <1>2, <1>5, <2>1, CollectedAll, OnlyIsObject DEF SucceedAny, Waiting
  <2>3. {req[t].objects[i]} \in Abstract!Ways(req[t])
    BY <1>2, <1>5, <2>2 DEF SucceedAny, Abstract!Ways, Abstract!ToSet
  <2> QED BY <1>3, <2>1, <2>2, <2>3
<1>6. CASE TryLock(t)
  <2>1. PICK o \in Object : mutex' = [p \in Object |->
          IF Free(o) THEN (IF p = o THEN t ELSE mutex[p])
          ELSE IF mutex[p] = t THEN NoThread ELSE mutex[p]]
    <3>1. PICK i \in NextHandle(t) : mutex' = [p \in Object |->
            IF Free(req[t].objects[i]) THEN (IF p = req[t].objects[i] THEN t ELSE mutex[p])
            ELSE IF mutex[p] = t THEN NoThread ELSE mutex[p]]
      BY <1>6 DEF TryLock
    <3>2. req[t].objects[i] \in Object
      BY <1>1, <1>2, <3>1, OnlyIsObject DEF NextHandle, Waiting
    <3> QED BY <3>1, <3>2
  <2>2. \A p \in Object : \/ mutex'[p] = mutex[p]
                          \/ mutex[p] \in {NoThread, t} /\ mutex'[p] \in {NoThread, t}
    BY <2>1 DEF Free
  <2>3. UNCHANGED <<value, owner, req>> /\ Moves(t, "poll")
    BY <1>1, <1>6 DEF TryLock, Moves
  <2>4. holder' = holder
    BY <1>1, <2>2, <2>3, HolderMoves
  <2> QED BY <2>3, <2>4 DEF Abstract!vars
<1>7. CASE PollAgain(t) \/ PollGivesUp(t)
  <2>1. \A p \in Object : \/ mutex'[p] = mutex[p]
                          \/ mutex[p] \in {NoThread, t} /\ mutex'[p] \in {NoThread, t}
    BY <1>7 DEF PollAgain, PollGivesUp, Unlocked
  <2>2. UNCHANGED <<value, owner>> /\ (Moves(t, "poll") \/ Moves(t, "run"))
    BY <1>1, <1>7, MovesBy DEF PollAgain, PollGivesUp, Return, Moves
  <2>3. holder' = holder
    BY <1>1, <2>1, <2>2, HolderMoves
  <2>4. req' = req \/ (req[t].finite /\ req' = [req EXCEPT ![t] = NoRequest])
    BY <1>7 DEF PollAgain, PollGivesUp, Return
  <2> QED
    BY <1>2, <2>2, <2>3, <2>4 DEF Abstract!vars, Abstract!Next, Abstract!TimeOut
<1> QED BY <1>4, <1>5, <1>6, <1>7 DEF PollStep

(* If threads release only the mutants they own, the waits of the POSIX    *)
(* back-end, which lock, count and notify object by object, implement the  *)
(* indivisible ones of base/threading.h, whatever they wait for.           *)
THEOREM Implements == Strangers = FALSE => (Spec => ImplementsDispatcher)
<1> SUFFICES ASSUME Strangers = FALSE PROVE Spec => ImplementsDispatcher
  OBVIOUS
<1>1. Init => IInv /\ Requested /\ Abstract!Init
  <2> SUFFICES ASSUME Init PROVE Requested /\ Abstract!Init
    BY InitIInv
  <2>1. Requested
    BY DEF Init, Requested, Waiting
  <2>2. \A o \in Mutants : value[o] = 0
    BY ValueAssumption DEF Init, Mutants
  <2>3. holder = [o \in Object |-> NoThread]
    BY <2>2 DEF holder, Mutants
  <2> QED BY <2>1, <2>3 DEF Init, Abstract!Init
<1>2. IInv /\ Requested /\ [Next]_vars => IInv' /\ Requested'
  BY NextStep, RequestedStep
<1>3. IInv /\ Requested /\ [Next]_vars => [Abstract!Next]_(Abstract!vars)
  <2> SUFFICES ASSUME IInv, Requested, [Next]_vars PROVE [Abstract!Next]_(Abstract!vars)
    OBVIOUS
  <2>1. CASE UNCHANGED vars
    BY <2>1 DEF vars, Abstract!vars, holder, Counting
  <2>2. CASE Next
    BY <2>2, SignalSimulates, FinishSimulates, WaitSimulates, PollSimulates DEF Next
  <2> QED BY <2>1, <2>2
<1> QED BY <1>1, <1>2, <1>3, PTL DEF Spec, Abstract!Spec, ImplementsDispatcher
------------------------------------------------------------------------------
(* A host thread and the controllers that suspend, resume and terminate it.*)
(* The argument: whoever suspends a running thread owes it one wait on the *)
(* semaphore (a call about to send the signal, a signal queued, a handler, *)
(* or the thread's own wait), and whoever resumes it pays one token; so    *)
(* there are never more tokens than waits to come, and one fewer while the *)
(* thread is suspended (Tokens).  A thread created suspended waits         *)
(* elsewhere, and its one token may be left over.                          *)

One(b) == IF b THEN 1 ELSE 0

Killers == {c \in Controller : call[c] = "kill"}

\* Who will take a token of suspend_sem_.
Owed == signals + Cardinality(Killers) + One(handler) + One(at = "self")
          + One(create_suspended)

Tokens == at # "gone" /\ ~Terminating => sem + One(state = "suspended") =< Owed

\* Only a Terminate does not wait until the thread has started.
Started ==
  /\ state = "uninitialized" <=> at = "boot" /\ ~Terminating
  /\ state = "uninitialized" =>
       /\ sem = 0 /\ count = 0 /\ signals = 0
       /\ \A c \in Controller : call[c] = "none"
  /\ at \in {"arm", "parked"} => create_suspended

Ending ==
  /\ at \in {"exit", "gone"} => signaled
  /\ \A c \in Controller : call[c] = "cancel" => signaled

HostInv == /\ HostTypeOK /\ create_suspended \in BOOLEAN
           /\ Started /\ count =< debt + 1 /\ CountIsDebt /\ Tokens /\ Ending

LEMMA KillersFinite == IsFiniteSet(Killers) /\ Cardinality(Killers) \in Nat
  BY ControllerAssumption, FS_Subset, FS_CardinalityType DEF Killers

(* A call that is about to send the signal, and one that has sent it.      *)
LEMMA KillersGrow ==
  ASSUME HostTypeOK, NEW c \in Controller, Call(c, "none", "kill")
  PROVE  Cardinality(Killers') = Cardinality(Killers) + 1
<1>1. Killers' = Killers \cup {c} /\ c \notin Killers
  BY DEF HostTypeOK, Call, Killers
<1> QED BY <1>1, KillersFinite, FS_AddElement

LEMMA KillersShrink ==
  ASSUME HostTypeOK, NEW c \in Controller, Call(c, "kill", "none")
  PROVE  Cardinality(Killers') = Cardinality(Killers) - 1
<1>1. Killers' = Killers \ {c} /\ c \in Killers
  BY DEF HostTypeOK, Call, Killers
<1> QED BY <1>1, KillersFinite, FS_RemoveElement

LEMMA KillersStay ==
  ASSUME HostTypeOK,
         \/ call' = call
         \/ \E c \in Controller, from, to \in {"none", "signal", "cancel"} : Call(c, from, to)
  PROVE  Killers' = Killers
  BY DEF HostTypeOK, Call, Killers

(* Who terminates the thread goes on to cancel it.                         *)
LEMMA TerminatingStays ==
  ASSUME HostTypeOK, NEW c \in Controller,
         \/ Call(c, "none", "kill") \/ Call(c, "kill", "none") \/ call' = call
         \/ Call(c, "none", "none")
  PROVE  Terminating' <=> Terminating
  BY DEF HostTypeOK, Call, Terminating

LEMMA TerminatingHolds ==
  ASSUME HostTypeOK, NEW c \in Controller,
         Call(c, "none", "signal") \/ Call(c, "signal", "cancel")
  PROVE  Terminating'
  BY DEF HostTypeOK, Call, Terminating

LEMMA HostInvInit == HostInit => HostInv
<1> SUFFICES ASSUME HostInit PROVE HostInv
  OBVIOUS
<1>1. HostTypeOK /\ create_suspended \in BOOLEAN
  <2>1. create_suspended \in BOOLEAN
    BY CreateAssumption DEF HostInit
  <2>2. debt \in 0..MaxCount /\ count \in 0..(MaxCount + 1)
        /\ sem \in 0..MaxPending /\ signals \in 0..MaxPending
    BY CountAssumption DEF HostInit
  <2> QED BY <2>1, <2>2 DEF HostInit, HostTypeOK, States, Places
<1>2. Started /\ count =< debt + 1 /\ CountIsDebt /\ Ending
  BY DEF HostInit, Started, CountIsDebt, Ending, Terminating
<1>3. Tokens
  BY <1>1, KillersFinite DEF HostInit, Tokens, Owed, One
<1> QED BY <1>1, <1>2, <1>3 DEF HostInv

(* The steps of the thread itself.                                         *)
LEMMA ThreadStepKeeps ==
  ASSUME HostInv, UNCHANGED create_suspended,
         \/ Boot \/ Arm \/ Unpark \/ SetSignaled \/ ReturnFromRoutine
         \/ TakeSignal \/ LeaveHandler \/ LeaveSelf
         \/ FinishRoutine \/ ExitTwice \/ SuspendSelf
  PROVE  HostInv'
<1> USE KillersFinite, CountAssumption DEF HostInv, HostTypeOK, Started, CountIsDebt, Ending
<1>1. Killers' = Killers /\ call' = call /\ Terminating' = Terminating
  <2>1. call' = call
    BY DEF Boot, Arm, Unpark, SetSignaled, ReturnFromRoutine, TakeSignal, LeaveHandler,
           LeaveSelf, FinishRoutine, ExitTwice, SuspendSelf
  <2> QED BY <2>1 DEF Killers, Terminating
<1>2. CASE Boot
  BY <1>1, <1>2 DEF Boot, Move, States, Places, Tokens, Owed, One
<1>3. CASE Arm \/ Unpark
  BY <1>1, <1>3 DEF Arm, Unpark, Move, States, Places, Tokens, Owed, One
<1>4. CASE SetSignaled
  BY <1>1, <1>4 DEF SetSignaled, Move, States, Places, Tokens, Owed, One
<1>5. CASE TakeSignal
  <2>1. signals' = signals - 1 /\ handler' \in BOOLEAN /\ (at # "boot" => handler')
        /\ UNCHANGED <<state, count, sem, signaled, at, call, debt>> /\ ~handler /\ signals > 0
    BY <1>5 DEF TakeSignal
  <2>2. HostTypeOK' /\ Started' /\ Ending'
    BY <1>1, <2>1
  <2>3. Tokens'
    BY <1>1, <2>1 DEF Tokens, Owed, One
  <2> QED BY <2>1, <2>2, <2>3
<1>6. CASE LeaveHandler
  <2>1. sem' = sem - 1 /\ sem' \in 0..MaxPending /\ One(handler) = 1 /\ One(handler)' = 0
    BY <1>6 DEF LeaveHandler, One
  <2>2. Tokens'
    BY <1>1, <1>6, <2>1 DEF LeaveHandler, Tokens, Owed, One
  <2>3. UNCHANGED <<state, count, debt, signaled, signals, at, call>> /\ handler' = FALSE
    BY <1>6 DEF LeaveHandler
  <2>4. HostTypeOK'
    BY <2>1, <2>3
  <2>5. Started' /\ Ending'
    BY <1>1, <1>6, <2>3 DEF LeaveHandler
  <2> QED BY <2>2, <2>3, <2>4, <2>5
<1>7. CASE LeaveSelf
  BY <1>1, <1>7 DEF LeaveSelf, Move, States, Places, Tokens, Owed, One
<1>8. CASE FinishRoutine \/ ExitTwice
  BY <1>1, <1>8 DEF FinishRoutine, ExitTwice, Move, States, Places, Tokens, Owed, One
<1>9. CASE SuspendSelf
  BY <1>1, <1>9 DEF SuspendSelf, Move, States, Places, Tokens, Owed, One
<1>10. CASE ReturnFromRoutine
  BY <1>10 DEF ReturnFromRoutine, Move, States, Places, Tokens
<1> QED BY <1>2, <1>3, <1>4, <1>5, <1>6, <1>7, <1>8, <1>9, <1>10

(* The calls of the controllers.                                           *)
LEMMA CallsKeep ==
  ASSUME HostInv, UNCHANGED create_suspended, NEW c \in Controller,
         \/ Suspend(c) \/ Kill(c) \/ Resume(c)
         \/ Terminate(c) \/ TerminateSignal(c) \/ TerminateCancel(c)
  PROVE  HostInv'
<1> USE KillersFinite, CountAssumption DEF HostInv, HostTypeOK, Started, CountIsDebt, Ending
<1>1. CASE Suspend(c)
  <2>0. Terminating' <=> Terminating
    BY <1>1, TerminatingStays DEF Suspend
  <2>1. CASE state = "suspended"
    <3>1. Killers' = Killers
      BY <1>1, <2>1, KillersStay DEF Suspend
    <3> QED BY <1>1, <2>0, <2>1, <3>1 DEF Suspend, Call, States, Places, Tokens, Owed, One
  <2>2. CASE state # "suspended"
    <3>1. Cardinality(Killers') = Cardinality(Killers) + 1
      BY <1>1, <2>2, KillersGrow DEF Suspend
    <3> QED BY <1>1, <2>0, <2>2, <3>1 DEF Suspend, Call, States, Places, Tokens, Owed, One
  <2> QED BY <2>1, <2>2
<1>2. CASE Kill(c)
  <2>1. Cardinality(Killers') = Cardinality(Killers) - 1
    BY <1>2, KillersShrink DEF Kill
  <2>2. Terminating' <=> Terminating
    BY <1>2, TerminatingStays DEF Kill
  <2> QED BY <1>2, <2>1, <2>2 DEF Kill, Call, States, Places, Tokens, Owed, One
<1>3. CASE Resume(c)
  <2>1. Killers' = Killers /\ (Terminating' <=> Terminating)
    BY <1>3 DEF Resume, Killers, Terminating
  <2> QED BY <1>3, <2>1 DEF Resume, Settle, States, Places, Tokens, Owed, One
<1>4. CASE Terminate(c)
  <2>1. Terminating'
    BY <1>4, TerminatingHolds DEF Terminate
  <2> QED BY <1>4, <2>1 DEF Terminate, Call, States, Places, Tokens
<1>5. CASE TerminateSignal(c)
  <2>1. Terminating'
    BY <1>5, TerminatingHolds DEF TerminateSignal
  <2> QED BY <1>5, <2>1 DEF TerminateSignal, Call, States, Places, Tokens
<1>6. CASE TerminateCancel(c)
  <2>1. Terminating
    BY <1>6 DEF TerminateCancel, Call, Terminating
  <2> QED BY <1>6, <2>1 DEF TerminateCancel, Call, States, Places, Tokens
<1> QED BY <1>1, <1>2, <1>3, <1>4, <1>5, <1>6

LEMMA HostInvStep == HostInv /\ [HostNext]_hostVars => HostInv'
<1> SUFFICES ASSUME HostInv, [HostNext]_hostVars PROVE HostInv'
  OBVIOUS
<1>1. CASE UNCHANGED hostVars
  BY <1>1 DEF hostVars, HostInv, HostTypeOK, Started, CountIsDebt, Tokens, Owed, Killers, Ending,
              Terminating
<1>2. CASE HostNext
  BY <1>2, ThreadStepKeeps, CallsKeep DEF HostNext, ThreadStep, Request, CallStep
<1> QED BY <1>1, <1>2

(* A thread that was not created suspended does not execute its routine    *)
(* once the signal of a suspension has been delivered (threading_posix.cc, *)
(* Suspend, Resume and WaitSuspended).                                     *)
THEOREM Suspended == HostSpec => []SuspendHolds
<1>1. HostInv => SuspendHolds
  <2> SUFFICES ASSUME HostInv, ~create_suspended, state = "suspended", Settled, ~Terminating,
                      ~handler, at = "run"
               PROVE  FALSE
    BY DEF SuspendHolds, AnySuspendHolds, Executing
  <2>1. Killers = {}
    BY DEF Settled, Killers
  <2> QED BY <2>1, FS_EmptySet DEF HostInv, HostTypeOK, Tokens, Owed, One, Settled
<1> QED BY <1>1, HostInvInit, HostInvStep, PTL DEF HostSpec

(* The count of such a thread is the number of suspensions not answered,   *)
(* and its semaphore holds no token that nobody will take.                 *)
THEOREM Counts == HostSpec => []CountsMatch
<1>1. HostInv => CountsMatch
  BY KillersFinite DEF HostInv, HostTypeOK, CountsMatch, TokensMatch, Tokens, Owed, One, Killers
<1> QED BY <1>1, HostInvInit, HostInvStep, PTL DEF HostSpec

(* Whoever waits for a thread to end is released, whether it returned or   *)
(* was cancelled (ThreadStartRoutine, Terminate).                          *)
THEOREM Gone == HostSpec => []GoneIsSignaled
<1>1. HostInv => GoneIsSignaled
  BY DEF HostInv, Ending, GoneIsSignaled
<1> QED BY <1>1, HostInvInit, HostInvStep, PTL DEF HostSpec

\* Every wait on the semaphore that is owed has its token, or the thread is
\* still to be resumed; and it is marked suspended exactly when it is.
Paid ==
  ~create_suspended /\ InRoutine =>
    /\ state = IF count > 0 THEN "suspended" ELSE "running"
    /\ Owed =< sem + One(state = "suspended")

(* The steps of the thread itself take a token with each wait.             *)
LEMMA ThreadStepPays ==
  ASSUME HostInv, Paid, UNCHANGED create_suspended,
         \/ Boot \/ Arm \/ Unpark \/ SetSignaled \/ ReturnFromRoutine
         \/ TakeSignal \/ LeaveHandler \/ LeaveSelf
         \/ FinishRoutine \/ ExitTwice \/ SuspendSelf
  PROVE  Paid'
<1> USE KillersFinite DEF HostInv, HostTypeOK
<1>1. Killers' = Killers /\ (Terminating' <=> Terminating)
  <2>1. call' = call
    BY DEF Boot, Arm, Unpark, SetSignaled, ReturnFromRoutine, TakeSignal, LeaveHandler,
           LeaveSelf, FinishRoutine, ExitTwice, SuspendSelf
  <2> QED BY <2>1 DEF Killers, Terminating
<1>2. CASE Boot
  <2>1. ~Terminating => sem = 0 /\ count = 0 /\ signals = 0 /\ Killers = {} /\ ~handler
    BY <1>2 DEF Boot, Move, Started, Killers
  <2>2. UNCHANGED <<sem, count, signals, handler>>
        /\ (~create_suspended => at' = "run" /\ state' = "running")
    BY <1>2 DEF Boot, Move
  <2>3. ~Terminating => Cardinality(Killers') = 0
    BY <1>1, <2>1, FS_EmptySet
  <2> QED BY <1>1, <2>1, <2>2, <2>3 DEF Paid, InRoutine, Owed, One
<1>3. CASE Arm \/ Unpark
  BY <1>3 DEF Arm, Unpark, Move, Started, Paid
<1>4. CASE SetSignaled \/ ReturnFromRoutine \/ FinishRoutine \/ ExitTwice
  BY <1>1, <1>4 DEF SetSignaled, ReturnFromRoutine, FinishRoutine, ExitTwice, Move, Paid, InRoutine
<1>5. CASE TakeSignal
  <2>0. CASE at = "boot"
    BY <1>5, <2>0 DEF TakeSignal, Paid, InRoutine
  <2> SUFFICES ASSUME at # "boot" PROVE Paid'
    BY <2>0
  <2>1. /\ signals' = signals - 1 /\ ~handler /\ handler'
        /\ UNCHANGED <<state, count, sem, at>>
    BY <1>5 DEF TakeSignal
  <2>2. Owed' = Owed
    BY <1>1, <2>1 DEF Owed, One
  <2> QED BY <1>1, <2>1, <2>2 DEF Paid, InRoutine
<1>6. CASE LeaveHandler
  <2>1. /\ sem' = sem - 1 /\ handler /\ ~handler'
        /\ UNCHANGED <<state, count, signals, at>>
    BY <1>6 DEF LeaveHandler
  <2>2. Owed' = Owed - 1
    BY <1>1, <2>1 DEF Owed, One
  <2>3. Owed \in Int
    BY DEF Owed, One
  <2> QED BY <1>1, <2>1, <2>2, <2>3 DEF Paid, InRoutine, One
<1>7. CASE LeaveSelf
  <2>1. /\ sem' = sem - 1 /\ at = "self" /\ at' = "run"
        /\ UNCHANGED <<state, count, signals, handler>>
    BY <1>7 DEF LeaveSelf, Move
  <2>2. Owed' = Owed - 1
    BY <1>1, <2>1 DEF Owed, One
  <2>3. Owed \in Int
    BY DEF Owed, One
  <2> QED BY <1>1, <2>1, <2>2, <2>3 DEF Paid, InRoutine, One
<1>8. CASE SuspendSelf
  <2>1. /\ at = "run" /\ at' = (IF state = "suspended" THEN "run" ELSE "self")
        /\ state' = "suspended" /\ count' = count + 1
        /\ UNCHANGED <<sem, signals, handler>>
    BY <1>8 DEF SuspendSelf, Move
  <2>2. Owed' = Owed + One(state # "suspended")
    BY <1>1, <2>1 DEF Owed, One
  <2>3. Owed \in Int
    BY DEF Owed, One
  <2> QED BY <1>1, <2>1, <2>2, <2>3 DEF Paid, InRoutine, One
<1> QED BY <1>2, <1>3, <1>4, <1>5, <1>6, <1>7, <1>8

(* The calls of the controllers owe a wait with the first suspension and   *)
(* pay for it with the last resume.                                        *)
LEMMA CallsPay ==
  ASSUME HostInv, Paid, UNCHANGED create_suspended, NEW c \in Controller,
         \/ Suspend(c) \/ Kill(c) \/ Resume(c)
         \/ Terminate(c) \/ TerminateSignal(c) \/ TerminateCancel(c)
  PROVE  Paid'
<1> USE KillersFinite DEF HostInv, HostTypeOK
<1>0. Owed \in Int
  BY DEF Owed, One
<1>1. CASE Suspend(c)
  <2>1. /\ state' = "suspended" /\ count' = count + 1
        /\ UNCHANGED <<sem, signals, handler, at>>
    BY <1>1 DEF Suspend
  <2>2. InRoutine' => InRoutine
    BY <1>1, <2>1, TerminatingStays DEF Suspend, InRoutine
  <2>3. Cardinality(Killers') = Cardinality(Killers) + One(state # "suspended")
    <3>1. CASE state = "suspended"
      BY <1>1, <3>1, KillersStay DEF Suspend, One
    <3>2. CASE state # "suspended"
      BY <1>1, <3>2, KillersGrow DEF Suspend, One
    <3> QED BY <3>1, <3>2
  <2>4. Owed' = Owed + One(state # "suspended")
    BY <2>1, <2>3 DEF Owed, One
  <2> QED BY <1>0, <2>1, <2>2, <2>4 DEF Paid, One
<1>2. CASE Kill(c)
  <2>1. /\ UNCHANGED <<state, count, sem, handler, at>>
        /\ signals' = IF at = "gone" THEN signals ELSE signals + 1
    BY <1>2 DEF Kill
  <2>2. Cardinality(Killers') = Cardinality(Killers) - 1
    BY <1>2, KillersShrink DEF Kill
  <2>4. InRoutine' => InRoutine
    BY <1>2, <2>1, TerminatingStays DEF Kill, InRoutine
  <2>5. Owed' =< Owed
    BY <2>1, <2>2 DEF Owed, One
  <2>6. Owed' \in Int
    BY <2>1, <2>2 DEF Owed, One
  <2> QED BY <1>0, <2>1, <2>4, <2>5, <2>6 DEF Paid, One
<1>3. CASE Resume(c)
  <2>1. Killers' = Killers /\ (InRoutine' <=> InRoutine)
        /\ UNCHANGED <<signals, handler, at>>
    BY <1>3 DEF Resume, Killers, InRoutine, Terminating
  <2>2. Owed' = Owed
    BY <2>1 DEF Owed, One
  <2>3. \/ UNCHANGED <<state, count, sem>>
        \/ count' = count - 1 /\ count > 1 /\ UNCHANGED <<state, sem>>
        \/ count = 1 /\ count' = 0 /\ state # "suspended"
        \/ /\ count = 1 /\ count' = 0 /\ state = "suspended"
           /\ state' = "running" /\ sem' = sem + 1
    BY <1>3 DEF Resume
  <2> QED BY <1>0, <2>1, <2>2, <2>3 DEF Paid, One
<1>4. CASE Terminate(c) \/ TerminateSignal(c)
  BY <1>4, TerminatingHolds DEF Terminate, TerminateSignal, Paid, InRoutine
<1>5. CASE TerminateCancel(c)
  BY <1>5 DEF TerminateCancel, Paid, InRoutine
<1> QED BY <1>1, <1>2, <1>3, <1>4, <1>5

(* However many suspend and resume it, and whatever signals are still on   *)
(* their way: once every suspension of a thread has been answered, no wait *)
(* of it is without its token (threading_posix.cc, Suspend, Resume and     *)
(* WaitSuspended).                                                         *)
THEOREM Resumed == HostSpec => []NoResumeLost
<1>1. HostInit => Paid
  BY DEF HostInit, Paid, InRoutine
<1>2. HostInv /\ Paid /\ [HostNext]_hostVars => Paid'
  <2> SUFFICES ASSUME HostInv, Paid, [HostNext]_hostVars PROVE Paid'
    OBVIOUS
  <2>1. CASE UNCHANGED hostVars
    BY <2>1 DEF hostVars, Paid, InRoutine, Terminating, Owed, Killers
  <2>2. CASE HostNext
    BY <2>2, ThreadStepPays, CallsPay DEF HostNext, ThreadStep, Request, CallStep
  <2> QED BY <2>1, <2>2
<1>3. HostInv /\ Paid => NoResumeLost
  <2> SUFFICES ASSUME HostInv, Paid, ~create_suspended, InRoutine, debt = 0,
                      handler \/ at = "self"
               PROVE  sem > 0
    BY DEF NoResumeLost
  <2>1. count = 0 /\ state = "running"
    BY DEF HostInv, CountIsDebt, Paid
  <2>2. Owed =< sem
    BY <2>1 DEF Paid, One, HostInv, HostTypeOK
  <2> QED BY <2>2, KillersFinite DEF Owed, One, HostInv, HostTypeOK
<1> QED BY <1>1, <1>2, <1>3, HostInvInit, HostInvStep, PTL DEF HostSpec
------------------------------------------------------------------------------
(* The guest's count over the host's.  The argument: Suspend adds to the   *)
(* count without the mutex, so the count is exact only where no suspension *)
(* can come between the read and the write of a Resume or SelfSuspend: in  *)
(* a title in which nobody but the thread suspends itself, by SelfSuspend, *)
(* or in which one other thread makes all the calls (Exclusive).  The      *)
(* host's count then follows it if the suspensions of another thread do    *)
(* not nest (OneDeep).                                                     *)

Exclusive(ti) ==
  \/ ti.suspend \cap Controller = {} /\ ~ti.ke
  \/ \E c \in Controller : ti.suspend \cup ti.resume \subseteq {c}

\* The thread has parked before the guest can name it, and never leaves its routine.
HostFollows == at \in {"parked", "run"} /\ count = debt

OtherCalls == {"none", "suspendTest", "hostSuspend", "resumeLock", "resumeStore", "hostResume"}
SelfCalls == {"none", "store", "waiting", "notified", "leaving", "again"}

Called ==
  /\ gcall \in [Caller -> OtherCalls \cup SelfCalls]
  /\ \A c \in Controller :
       /\ gcall[c] \in OtherCalls
       /\ gcall[c] \in {"suspendTest", "hostSuspend"} => c \in title.suspend
       /\ gcall[c] \in {"resumeLock", "resumeStore", "hostResume"} => c \in title.resume
  /\ gcall[Self] \in SelfCalls
  /\ gcall[Self] # "none" => Self \in title.suspend

\* Whoever is between its read and its write has the mutex and the count.
Held ==
  /\ \A c \in Controller :
       gcall[c] = "resumeStore" => suspend_mutex = c /\ seen[c] = guest
  /\ gcall[Self] \in {"store", "leaving", "again"} => suspend_mutex = Self
  /\ gcall[Self] = "store" => seen[Self] = guest /\ guest < title.depth

GuestInv == /\ GuestTypeOK /\ title \in Titles /\ Exclusive(title)
            /\ HostFollows /\ Called /\ Held /\ guest = gdebt

LEMMA TitleTypes ==
  ASSUME title \in Titles
  PROVE  /\ title.suspend \subseteq Caller /\ title.resume \subseteq Controller
         /\ title.depth \in 1..255
  BY TitleAssumption DEF Title

LEMMA GuestInvInit ==
  ASSUME GuestInit, Exclusive(title)
  PROVE  GuestInv
<1>1. /\ at = "parked" /\ count = 1 /\ debt = 1 /\ sem = 0 /\ signals = 0
      /\ suspend_mutex = Nobody /\ title \in Titles /\ seen = [c \in Caller |-> 0]
      /\ guest = gdebt /\ guest \in {0, 1} /\ title.depth \in 1..255
  BY TitleTypes DEF GuestInit
<1>2. HostTypeOK
  <2>1. debt \in 0..MaxCount /\ count \in 0..(MaxCount + 1)
        /\ sem \in 0..MaxPending /\ signals \in 0..MaxPending
    BY <1>1, CountAssumption
  <2> QED BY <2>1 DEF GuestInit, HostTypeOK, States, Places
<1>3. GuestTypeOK
  BY <1>1, <1>2 DEF GuestTypeOK
<1>4. \A c \in Caller : gcall[c] = "none" \/ (gcall[c] = "hostResume" /\ c \in title.resume)
  BY TitleTypes DEF GuestInit, Caller
<1>5. gcall \in [Caller -> {"none", "hostResume"}]
  BY DEF GuestInit
<1>6. gcall[Self] = "none"
  BY <1>1, <1>4, CallerAssumption, TitleTypes DEF Caller
<1>7. Called /\ Held
  BY <1>4, <1>5, <1>6 DEF Called, Held, OtherCalls, SelfCalls, Caller
<1> QED BY <1>1, <1>3, <1>7 DEF GuestInv, HostFollows

(* The steps of the host thread, and signals sent to it.                   *)
LEMMA HostStepKeeps ==
  ASSUME GuestInv, HostStep
  PROVE  /\ GuestInv' /\ UNCHANGED <<count, guest, gcall, title>>
         /\ at' # at => at = "parked" /\ count = 0
<1> USE DEF GuestInv, HostFollows
<1>1. UNCHANGED <<create_suspended, title, guest, suspend_mutex, seen, gcall, gdebt>>
  BY DEF HostStep, guestVars
<1> DEFINE Follows == /\ HostTypeOK' /\ UNCHANGED <<count, debt>>
                      /\ at' = at \/ (at = "parked" /\ at' = "run" /\ count = 0)
<1>2. Follows
  <2> USE DEF GuestTypeOK, HostTypeOK
  <2>1. CASE Unpark
    BY <2>1 DEF Unpark, Move, Places
  <2>2. CASE TakeSignal
    <3>1. signals' = signals - 1 /\ signals > 0 /\ handler' \in BOOLEAN
          /\ UNCHANGED <<state, count, sem, signaled, at, call, debt>>
      BY <2>2 DEF TakeSignal
    <3> QED BY <3>1, CountAssumption
  <2>3. CASE LeaveHandler
    <3>1. sem' = sem - 1 /\ sem' \in 0..MaxPending
      BY <2>3, CountAssumption DEF LeaveHandler
    <3>2. UNCHANGED <<state, count, debt, signaled, signals, at, call>> /\ handler' = FALSE
      BY <2>3 DEF LeaveHandler
    <3> QED BY <3>1, <3>2
  <2>4. ASSUME NEW c \in Controller, Kill(c) PROVE Follows
    BY <2>4, CountAssumption DEF Kill, Call
  <2>5. CASE Boot \/ Arm \/ SetSignaled \/ ReturnFromRoutine \/ LeaveSelf
    BY <2>5 DEF Boot, Arm, SetSignaled, ReturnFromRoutine, LeaveSelf, Move
  <2> QED BY <2>1, <2>2, <2>3, <2>4, <2>5 DEF HostStep, ThreadStep
<1> QED BY <1>1, <1>2 DEF GuestTypeOK, Called, Held

(* A thread suspended by another is named by no one else in its title.     *)
LEMMA Alone ==
  ASSUME GuestInv, NEW c \in Controller, c \in title.suspend
  PROVE  \A u \in Caller \ {c} : gcall[u] = "none"
<1>1. title.suspend \cup title.resume \subseteq {c}
  BY DEF GuestInv, Exclusive
<1> QED BY <1>1, CallerAssumption DEF GuestInv, Called, OtherCalls, Caller

(* SelfSuspend is the only way in which the thread suspends itself.        *)
LEMMA NoKe ==
  ASSUME GuestInv
  PROVE  ~SuspendCount(Self) /\ ~SuspendTest(Self) /\ ~SuspendHost(Self)
<1>1. gcall[Self] \notin {"suspendTest", "hostSuspend"}
  BY DEF GuestInv, Called, SelfCalls
<1>2. ~(Self \in title.suspend /\ title.ke)
  BY CallerAssumption DEF GuestInv, Exclusive
<1> QED BY <1>1, <1>2 DEF SuspendCount, SuspendTest, SuspendHost, GCall

(* XThread::Suspend.                                                       *)
LEMMA SuspendKeeps ==
  ASSUME GuestInv, NEW c \in Controller, SuspendCount(c) \/ SuspendTest(c) \/ SuspendHost(c)
  PROVE  GuestInv'
<1> USE TitleTypes DEF GuestInv, GuestTypeOK
<1>1. c \in Caller /\ c # Self /\ gcall \in [Caller -> OtherCalls \cup SelfCalls]
  BY CallerAssumption DEF Caller, Called
<1>2. CASE SuspendCount(c)
  <2>1. /\ UNCHANGED <<title, hostVars, suspend_mutex, seen>> /\ c \in title.suspend
        /\ gcall' = [gcall EXCEPT ![c] = "suspendTest"]
        /\ guest' = (guest + 1) % 256 /\ gdebt' = gdebt + 1 /\ gdebt < title.depth
    BY <1>2 DEF SuspendCount, GCall
  <2>2. guest' = guest + 1 /\ guest' \in 0..255 /\ gdebt' \in 0..title.depth
    <3> DEFINE d == title.depth
               g == gdebt
    <3>1. d \in 1..255 /\ g \in 0..d /\ g < d /\ guest = g /\ gdebt' = g + 1
      BY <2>1
    <3> HIDE DEF d, g
    <3>2. (g + 1) % 256 = g + 1 /\ g + 1 \in 0..255 /\ g + 1 \in 0..d
      BY ONLY <3>1
    <3>3. guest' = (g + 1) % 256
      BY <2>1, <3>1
    <3> QED BY <3>1, <3>2, <3>3 DEF d
  <2>3. \A u \in Caller : gcall'[u] = IF u = c THEN "suspendTest" ELSE "none"
    BY <1>1, <2>1, Alone
  <2>4. Called' /\ Held'
    BY <1>1, <2>1, <2>3 DEF Called, Held, OtherCalls, SelfCalls, Caller
  <2>5. HostTypeOK' /\ HostFollows'
    BY <2>1 DEF hostVars, HostTypeOK, HostFollows
  <2> QED BY <2>1, <2>2, <2>4, <2>5
<1>3. CASE SuspendTest(c)
  <2>1. /\ UNCHANGED <<title, hostVars, guest, suspend_mutex, seen, gdebt>>
        /\ gcall[c] = "suspendTest"
        /\ gcall' = [gcall EXCEPT ![c] = IF guest = 0 THEN "none" ELSE "hostSuspend"]
    BY <1>3 DEF SuspendTest, GCall
  <2>2. Called' /\ Held'
    BY <1>1, <2>1 DEF Called, Held, OtherCalls, SelfCalls, Caller
  <2>3. HostTypeOK' /\ HostFollows'
    BY <2>1 DEF hostVars, HostTypeOK, HostFollows
  <2> QED BY <2>1, <2>2, <2>3
<1>4. CASE SuspendHost(c)
  <2>1. /\ UNCHANGED <<create_suspended, title, guest, suspend_mutex, seen, gdebt>>
        /\ gcall[c] = "hostSuspend" /\ gcall' = [gcall EXCEPT ![c] = "none"] /\ Suspend(c)
    BY <1>1, <1>4 DEF SuspendHost, GCall
  <2>2. Called' /\ Held'
    BY <1>1, <2>1 DEF Called, Held, OtherCalls, SelfCalls, Caller
  <2>3. HostTypeOK' /\ HostFollows'
    BY <2>1, CountAssumption DEF Suspend, Call, HostTypeOK, HostFollows, States
  <2> QED BY <2>1, <2>2, <2>3
<1> QED BY <1>2, <1>3, <1>4

(* XThread::Resume.                                                        *)
LEMMA ResumeKeeps ==
  ASSUME GuestInv, NEW c \in Controller,
         ResumeCall(c) \/ ResumeRead(c) \/ ResumeStore(c) \/ ResumeHost(c)
  PROVE  GuestInv'
<1> USE TitleTypes DEF GuestInv, GuestTypeOK
<1>1. c \in Caller /\ c # Self /\ Self \in Caller /\ Nobody # Self /\ Nobody \notin Controller
      /\ gcall \in [Caller -> OtherCalls \cup SelfCalls]
  BY CallerAssumption DEF Caller, Called, Self, Nobody
<1>2. CASE ResumeCall(c)
  <2>1. /\ UNCHANGED <<title, hostVars, guest, suspend_mutex, seen, gdebt>> /\ c \in title.resume
        /\ gcall' = [gcall EXCEPT ![c] = "resumeLock"]
    BY <1>2 DEF ResumeCall, GCall
  <2>2. Called' /\ Held'
    BY <1>1, <2>1 DEF Called, Held, OtherCalls, SelfCalls, Caller
  <2>3. HostTypeOK' /\ HostFollows'
    BY <2>1 DEF hostVars, HostTypeOK, HostFollows
  <2> QED BY <2>1, <2>2, <2>3
<1>3. CASE ResumeRead(c)
  <2>1. /\ UNCHANGED <<title, hostVars, guest, gdebt>> /\ suspend_mutex = Nobody
        /\ suspend_mutex' = c /\ seen' = [seen EXCEPT ![c] = guest]
        /\ gcall[c] = "resumeLock" /\ gcall' = [gcall EXCEPT ![c] = "resumeStore"]
    BY <1>3 DEF ResumeRead, GCall
  <2>2. Called'
    BY <1>1, <2>1 DEF Called, OtherCalls, SelfCalls, Caller
  <2>3. Held'
    BY <1>1, <2>1 DEF Held, Caller
  <2>4. HostTypeOK' /\ HostFollows'
    BY <2>1 DEF hostVars, HostTypeOK, HostFollows
  <2> QED BY <1>1, <2>1, <2>2, <2>3, <2>4
<1>4. CASE ResumeStore(c)
  <2>1. /\ UNCHANGED <<title, hostVars, seen>> /\ suspend_mutex' = Nobody
        /\ suspend_mutex = c /\ seen[c] = guest 
        /\ gdebt' = IF guest > 0 THEN Settle(gdebt) ELSE gdebt
        /\ gcall[c] = "resumeStore"
        /\ guest' = IF guest > 0 THEN guest - 1 ELSE guest
        /\ gcall' = [gcall EXCEPT ![c] = IF guest' = 0 THEN "hostResume" ELSE "none",
                                  ![Self] = IF @ = "waiting" THEN "notified" ELSE @]
    BY <1>4 DEF ResumeStore, Held
  <2>2. guest' \in 0..255 /\ gdebt' = guest' /\ gdebt' \in 0..title.depth
    BY <2>1 DEF Settle
  <2>3. PICK to \in {"none", "hostResume"}, back \in {gcall[Self], "notified"} :
          /\ gcall' = [gcall EXCEPT ![c] = to, ![Self] = back]
          /\ back = "notified" \/ back = gcall[Self]
          /\ back = "notified" => gcall[Self] \in {"waiting", "notified"}
    BY <2>1, Zenon
  <2>4. /\ gcall'[c] = to /\ gcall'[Self] = back
        /\ \A u \in Controller \ {c} : gcall'[u] = gcall[u]
    BY <1>1, <2>3, CallerAssumption DEF Caller
  <2>5. gcall' \in [Caller -> OtherCalls \cup SelfCalls]
    <3>1. back \in OtherCalls \cup SelfCalls /\ to \in OtherCalls \cup SelfCalls
      BY <1>1, <2>3 DEF OtherCalls, SelfCalls
    <3> QED BY <1>1, <2>3, <3>1
  <2>6. Called'
    BY <1>1, <2>1, <2>3, <2>4, <2>5 DEF Called, OtherCalls, SelfCalls
  <2>7. Held'
    BY <1>1, <2>1, <2>3, <2>4 DEF Held
  <2>8. HostTypeOK' /\ HostFollows'
    BY <2>1 DEF hostVars, HostTypeOK, HostFollows
  <2> QED BY <2>1, <2>2, <2>6, <2>7, <2>8
<1>5. CASE ResumeHost(c)
  <2>1. /\ UNCHANGED <<create_suspended, title, guest, suspend_mutex, seen, gdebt>>
        /\ gcall[c] = "hostResume" /\ gcall' = [gcall EXCEPT ![c] = "none"] /\ Resume(c)
    BY <1>5 DEF ResumeHost, GCall
  <2>2. Called' /\ Held'
    BY <1>1, <2>1 DEF Called, Held, OtherCalls, SelfCalls, Caller
  <2>3. HostTypeOK' /\ HostFollows'
    BY <2>1, CountAssumption DEF Resume, Settle, HostTypeOK, HostFollows, States
  <2> QED BY <2>1, <2>2, <2>3
<1> QED BY <1>2, <1>3, <1>4, <1>5

(* XThread::SelfSuspend.                                                   *)
LEMMA SelfKeeps ==
  ASSUME GuestInv, SelfRead \/ SelfStep
  PROVE  GuestInv'
<1> USE TitleTypes DEF GuestInv, GuestTypeOK
<1>1. Self \in Caller /\ Nobody # Self /\ Self \notin Controller
      /\ gcall \in [Caller -> OtherCalls \cup SelfCalls]
  BY CallerAssumption DEF Caller, Called, Self, Nobody
<1>2. CASE SelfRead
  <2>1. /\ UNCHANGED <<title, hostVars, guest, gdebt>> /\ suspend_mutex = Nobody
        /\ suspend_mutex' = Self /\ seen' = [seen EXCEPT ![Self] = guest]
        /\ gdebt < title.depth /\ Self \in title.suspend
        /\ gcall' = [gcall EXCEPT ![Self] = "store"]
    BY <1>2 DEF SelfRead, GCall
  <2>2. Called'
    BY <1>1, <2>1 DEF Called, OtherCalls, SelfCalls, Caller
  <2>3. Held'
    BY <1>1, <2>1, CallerAssumption DEF Held, Caller
  <2>4. HostTypeOK' /\ HostFollows'
    BY <2>1 DEF hostVars, HostTypeOK, HostFollows
  <2> QED BY <1>1, <2>1, <2>2, <2>3, <2>4
<1>3. CASE SelfStore
  <2>1. /\ UNCHANGED <<title, hostVars, seen>> /\ suspend_mutex' = Nobody
        /\ guest' = guest + 1 /\ gdebt' = gdebt + 1 /\ guest < title.depth
        /\ suspend_mutex = Self /\ Self \in title.suspend
        /\ gcall' = [gcall EXCEPT ![Self] = "waiting"]
    BY <1>3 DEF SelfStore, GCall, Held, Called
  <2>2. guest' \in 0..255 /\ gdebt' \in 0..title.depth
    BY <2>1
  <2>3. Called'
    BY <1>1, <2>1 DEF Called, OtherCalls, SelfCalls, Caller
  <2>4. Held'
    BY <1>1, <2>1 DEF Held, Caller
  <2>5. HostTypeOK' /\ HostFollows'
    BY <2>1 DEF hostVars, HostTypeOK, HostFollows
  <2> QED BY <2>1, <2>2, <2>3, <2>4, <2>5
<1>4. CASE SelfWake
  <2>1. /\ UNCHANGED <<title, hostVars, guest, seen, gdebt>> /\ suspend_mutex = Nobody
        /\ suspend_mutex' = Self /\ Self \in title.suspend
        /\ gcall' = [gcall EXCEPT ![Self] = IF guest = 0 THEN "leaving" ELSE "again"]
    BY <1>4 DEF SelfWake, GCall, Called
  <2>2. Called'
    BY <1>1, <2>1 DEF Called, OtherCalls, SelfCalls, Caller
  <2>3. Held'
    BY <1>1, <2>1, CallerAssumption DEF Held, Caller
  <2>4. HostTypeOK' /\ HostFollows'
    BY <2>1 DEF hostVars, HostTypeOK, HostFollows
  <2> QED BY <1>1, <2>1, <2>2, <2>3, <2>4
<1>5. CASE SelfUnlock
  <2>1. PICK to \in {"none", "waiting"} :
          /\ UNCHANGED <<title, hostVars, guest, seen, gdebt>> /\ suspend_mutex' = Nobody
          /\ suspend_mutex = Self /\ Self \in title.suspend
          /\ gcall' = [gcall EXCEPT ![Self] = to]
    BY <1>5 DEF SelfUnlock, GCall, Held, Called
  <2>2. Called'
    BY <1>1, <2>1 DEF Called, OtherCalls, SelfCalls, Caller
  <2>3. Held'
    BY <1>1, <2>1 DEF Held, Caller
  <2>4. HostTypeOK' /\ HostFollows'
    BY <2>1 DEF hostVars, HostTypeOK, HostFollows
  <2> QED BY <2>1, <2>2, <2>3, <2>4
<1> QED BY <1>2, <1>3, <1>4, <1>5, NoKe DEF SelfStep

LEMMA GuestInvStep == GuestInv /\ [GuestNext]_allVars => GuestInv'
<1> SUFFICES ASSUME GuestInv, [GuestNext]_allVars PROVE GuestInv'
  OBVIOUS
<1>1. CASE UNCHANGED allVars
  BY <1>1 DEF allVars, hostVars, guestVars, GuestInv, GuestTypeOK, HostTypeOK, HostFollows,
              Called, Held
<1>2. CASE GuestNext
  BY <1>2, HostStepKeeps, SuspendKeeps, ResumeKeeps, SelfKeeps, NoKe DEF GuestNext, GuestStep
<1> QED BY <1>1, <1>2

(* No suspension and no resume of a guest thread is lost, if the thread    *)
(* suspends only itself, whoever resumes it and however deep, or if one    *)
(* other thread makes all the calls (XThread::Suspend, Resume and          *)
(* SelfSuspend).                                                           *)
THEOREM GuestExact ==
  (\A ti \in Titles : Exclusive(ti)) => (GuestSpec => []GuestCountExact)
<1> SUFFICES ASSUME \A ti \in Titles : Exclusive(ti) PROVE GuestSpec => []GuestCountExact
  OBVIOUS
<1>1. GuestInit => GuestInv
  BY GuestInvInit DEF GuestInit
<1>2. GuestInv => GuestCountExact
  BY DEF GuestInv, GuestCountExact
<1> QED BY <1>1, <1>2, GuestInvStep, PTL DEF GuestSpec

LEMMA NotifyStep ==
  ASSUME GuestInv, GuestInv', NoNotifyMissed, GuestNext
  PROVE  NoNotifyMissed'
<1> USE DEF NoNotifyMissed
<1>1. Self \in Caller /\ Self \notin Controller /\ Nobody # Self /\ Controller \subseteq Caller
      /\ gcall \in [Caller -> OtherCalls \cup SelfCalls]
      /\ guest \in Nat /\ guest' \in Nat /\ guest = gdebt /\ guest' = gdebt'
  BY CallerAssumption DEF Caller, GuestInv, GuestTypeOK, Called, Self, Nobody
<1>2. CASE HostStep
  BY <1>2, HostStepKeeps
<1>3. CASE SelfRead \/ SelfStep
  <2>1. CASE SelfRead
    BY <1>1, <2>1 DEF SelfRead, GCall
  <2>2. CASE SelfStore
    <3>1. guest' = seen[Self] + 1 /\ seen[Self] = guest
      BY <2>2 DEF SelfStore, GCall, GuestInv, Held
    <3> QED BY <1>1, <3>1
  <2>3. CASE SelfWake
    BY <1>1, <2>3 DEF SelfWake, GCall
  <2>4. CASE SelfUnlock
    BY <1>1, <2>4 DEF SelfUnlock, GCall
  <2> QED BY <1>3, <2>1, <2>2, <2>3, <2>4, NoKe DEF SelfStep
<1>4. ASSUME NEW c \in Controller, SuspendCount(c)
      PROVE  NoNotifyMissed'
  <2>1. gdebt' = gdebt + 1
    BY <1>4 DEF SuspendCount
  <2> QED BY <1>1, <2>1
<1>5. ASSUME NEW c \in Controller, ResumeStore(c)
      PROVE  NoNotifyMissed'
  <2>1. suspend_mutex = c /\ c # Self
    BY <1>1, <1>5 DEF ResumeStore, GuestInv, Held
  <2>2. gcall[Self] # "again"
    BY <2>1 DEF GuestInv, Held
  <2>3. gcall'[Self] = IF gcall[Self] = "waiting" THEN "notified" ELSE gcall[Self]
    BY <1>1, <1>5, <2>1 DEF ResumeStore
  <2> QED BY <2>2, <2>3
<1>6. ASSUME NEW c \in Controller,
             SuspendTest(c) \/ SuspendHost(c) \/ ResumeCall(c) \/ ResumeRead(c) \/ ResumeHost(c)
      PROVE  NoNotifyMissed'
  <2>1. guest' = guest /\ \E to \in OtherCalls : gcall' = [gcall EXCEPT ![c] = to]
    BY <1>6 DEF SuspendTest, SuspendHost, ResumeCall, ResumeRead, ResumeHost, GCall, OtherCalls
  <2>2. gcall'[Self] = gcall[Self]
    BY <1>1, <2>1
  <2> QED BY <2>1, <2>2
<1> QED BY <1>2, <1>3, <1>4, <1>5, <1>6, NoKe DEF GuestNext, GuestStep

(* In the same titles no notification of a resume is missed: a thread that *)
(* is in suspend_cv_.wait, or goes back into it, has suspensions left to   *)
(* answer (XThread::Resume and SelfSuspend).                               *)
THEOREM Notified ==
  (\A ti \in Titles : Exclusive(ti)) => (GuestSpec => []NoNotifyMissed)
<1> SUFFICES ASSUME \A ti \in Titles : Exclusive(ti) PROVE GuestSpec => []NoNotifyMissed
  OBVIOUS
<1>1. GuestInit => GuestInv
  BY GuestInvInit DEF GuestInit
<1>2. GuestInit => NoNotifyMissed
  BY CallerAssumption, TitleTypes DEF GuestInit, NoNotifyMissed, Caller
<1>3. GuestInv /\ GuestInv' /\ NoNotifyMissed /\ [GuestNext]_allVars => NoNotifyMissed'
  BY NotifyStep DEF allVars, guestVars, NoNotifyMissed
<1> QED BY <1>1, <1>2, <1>3, GuestInvStep, PTL DEF GuestSpec

\* The title lets c alone suspend and resume the thread, without nesting.
ByOther(c) == title.suspend \cup title.resume \subseteq {c} /\ title.depth = 1

OtherFollows(c) ==
  /\ gcall[c] \in {"none", "resumeLock", "resumeStore"} => count = guest
  /\ gcall[c] \in {"suspendTest", "hostSuspend"} => guest = 1 /\ count = 0
  /\ gcall[c] = "hostResume" => guest = 0 /\ count =< 1

Resumers == {c \in Controller : gcall[c] = "hostResume"}

\* The host is resumed once; after that the count is the thread's own affair.
SelfFollows ==
  /\ count =< 1
  /\ count = 1 => /\ at = "parked" /\ gcall[Self] = "none"
                  /\ guest =< 1 /\ (guest = 0 <=> Resumers # {})
  /\ count = 0 /\ gcall[Self] \in {"none", "store", "leaving"} => guest = 0

CountsInv ==
  /\ OneDeep(title)
  /\ \A c \in Controller : ByOther(c) => OtherFollows(c)
  /\ title.suspend \cap Controller = {} => SelfFollows

LEMMA CountsInvInit ==
  ASSUME GuestInit, GuestInv, OneDeep(title)
  PROVE  CountsInv
<1>1. at = "parked" /\ count = 1 /\ gcall[Self] = "none"
  BY CallerAssumption, TitleTypes DEF GuestInit, Caller
<1>2. \/ guest = 1 /\ \A c \in Controller : gcall[c] = "none"
      \/ guest = 0 /\ \E d \in title.resume : \A c \in Controller :
                        gcall[c] = IF c = d THEN "hostResume" ELSE "none"
  BY DEF GuestInit, Caller
<1>3. SelfFollows
  <2>1. guest = 0 <=> Resumers # {}
    BY <1>2, TitleTypes DEF Resumers, GuestInv
  <2> QED BY <1>1, <1>2, <2>1 DEF SelfFollows
<1>4. \A c \in Controller : ByOther(c) => OtherFollows(c)
  BY <1>1, <1>2 DEF ByOther, OtherFollows
<1> QED BY <1>1, <1>3, <1>4 DEF CountsInv

(* The counts when one thread makes all the calls.                         *)
LEMMA OtherStep ==
  ASSUME GuestInv, NEW c \in Controller, ByOther(c), OtherFollows(c), GuestNext
  PROVE  OtherFollows(c)'
<1> USE DEF OtherFollows
<1>1. c # Self /\ c \in Caller /\ gcall \in [Caller -> OtherCalls \cup SelfCalls]
      /\ guest = gdebt /\ guest \in Nat /\ count \in Nat /\ guest =< 1
  BY CallerAssumption DEF Caller, GuestInv, GuestTypeOK, HostTypeOK, Called, ByOther
<1>2. CASE HostStep
  BY <1>2, HostStepKeeps
<1>3. CASE SelfRead \/ SelfStep
  <2>1. Self \in title.suspend
    BY <1>3, NoKe DEF SelfRead, SelfStep, SelfStore, SelfWake, SelfUnlock, GCall, GuestInv, Called
  <2> QED BY <1>1, <2>1 DEF ByOther
<1>4. ASSUME NEW d \in Controller, SuspendCount(d) \/ SuspendTest(d) \/ SuspendHost(d)
      PROVE  OtherFollows(c)'
  <2>1. d = c
    BY <1>4 DEF SuspendCount, SuspendTest, SuspendHost, GCall, GuestInv, Called, ByOther
  <2>2. CASE SuspendCount(c)
    <3>1. guest = 0 /\ guest' = 1 /\ count' = count /\ gcall[c] = "none"
          /\ gcall'[c] = "suspendTest"
      BY <1>1, <2>2 DEF SuspendCount, GCall, ByOther, hostVars
    <3> QED BY <3>1
  <2>3. CASE SuspendTest(c)
    BY <1>1, <2>3 DEF SuspendTest, GCall, hostVars
  <2>4. CASE SuspendHost(c)
    BY <1>1, <2>4 DEF SuspendHost, Suspend, GCall
  <2> QED BY <1>4, <2>1, <2>2, <2>3, <2>4
<1>5. ASSUME NEW d \in Controller,
             ResumeCall(d) \/ ResumeRead(d) \/ ResumeStore(d) \/ ResumeHost(d)
      PROVE  OtherFollows(c)'
  <2>1. d = c
    BY <1>5 DEF ResumeCall, ResumeRead, ResumeStore, ResumeHost, GCall, GuestInv, Called, ByOther
  <2>2. CASE ResumeCall(c) \/ ResumeRead(c)
    BY <1>1, <2>2 DEF ResumeCall, ResumeRead, GCall, hostVars
  <2>3. CASE ResumeStore(c)
    <3>1. seen[c] = guest /\ gcall[c] = "resumeStore" /\ count' = count
          /\ guest' = IF seen[c] > 0 THEN seen[c] - 1 ELSE guest
      BY <2>3 DEF ResumeStore, GuestInv, Held, hostVars
    <3>2. guest' = 0
      BY <1>1, <3>1
    <3>3. gcall'[c] = "hostResume"
      BY <1>1, <2>3, <3>2 DEF ResumeStore
    <3> QED BY <1>1, <3>1, <3>2, <3>3
  <2>4. CASE ResumeHost(c)
    BY <1>1, <2>4 DEF ResumeHost, Resume, GCall
  <2> QED BY <1>5, <2>1, <2>2, <2>3, <2>4
<1> QED BY <1>2, <1>3, <1>4, <1>5, NoKe DEF GuestNext, GuestStep

(* The counts when the thread suspends only itself.                        *)
LEMMA ItselfStep ==
  ASSUME GuestInv, title.suspend \cap Controller = {}, SelfFollows, GuestNext
  PROVE  SelfFollows'
<1> USE DEF SelfFollows
<1>1. Self \in Caller /\ Self \notin Controller /\ Nobody # Self
      /\ gcall \in [Caller -> OtherCalls \cup SelfCalls]
      /\ guest \in Nat /\ count \in Nat
  BY CallerAssumption DEF Caller, GuestInv, GuestTypeOK, HostTypeOK, Called, Self, Nobody
<1>2. CASE HostStep
  BY <1>2, HostStepKeeps DEF Resumers
<1>3. CASE SelfRead \/ SelfStep
  <2>1. at = "run" /\ count = 0 /\ UNCHANGED <<at, count>>
    <3>1. Executing /\ UNCHANGED hostVars
      BY <1>3, NoKe DEF SelfRead, SelfStep, SelfStore, SelfWake, SelfUnlock
    <3> QED BY <1>1, <3>1 DEF Executing, hostVars
  <2>2. gcall'[Self] \in {"none", "store", "leaving"} => guest' = 0
    <3>1. CASE SelfRead
      BY <1>1, <2>1, <3>1 DEF SelfRead, GCall
    <3>2. CASE SelfStore
      BY <1>1, <3>2 DEF SelfStore, GCall
    <3>3. CASE SelfWake
      BY <1>1, <3>3 DEF SelfWake, GCall
    <3>4. CASE SelfUnlock
      BY <1>1, <2>1, <3>4 DEF SelfUnlock, GCall
    <3> QED BY <1>3, <3>1, <3>2, <3>3, <3>4, NoKe DEF SelfStep
  <2> QED BY <2>1, <2>2
<1>4. ASSUME NEW d \in Controller, SuspendCount(d) \/ SuspendTest(d) \/ SuspendHost(d)
      PROVE  FALSE
  BY <1>4 DEF SuspendCount, SuspendTest, SuspendHost, GCall, GuestInv, Called
<1>5. ASSUME NEW d \in Controller, ResumeCall(d) \/ ResumeRead(d)
      PROVE  SelfFollows'
  <2>1. PICK from, to \in {"none", "resumeLock", "resumeStore"} :
          gcall[d] = from /\ gcall' = [gcall EXCEPT ![d] = to]
    BY <1>5 DEF ResumeCall, ResumeRead, GCall
  <2>2. gcall'[Self] = gcall[Self] /\ Resumers' = Resumers
    BY <1>1, <2>1 DEF Resumers, Caller
  <2> QED BY <1>5, <2>2 DEF ResumeCall, ResumeRead, hostVars
<1>6. ASSUME NEW d \in Controller, ResumeStore(d)
      PROVE  SelfFollows'
  <2>1. /\ seen[d] = guest /\ suspend_mutex = d /\ gcall[d] = "resumeStore"
        /\ guest' = IF guest > 0 THEN guest - 1 ELSE guest
        /\ UNCHANGED <<at, count>>
        /\ gcall' = [gcall EXCEPT ![d] = IF guest' = 0 THEN "hostResume" ELSE "none",
                                  ![Self] = IF @ = "waiting" THEN "notified" ELSE @]
    BY <1>6 DEF ResumeStore, GuestInv, Held, hostVars
  <2>2. gcall'[Self] = IF gcall[Self] = "waiting" THEN "notified" ELSE gcall[Self]
    BY <1>1, <2>1 DEF Caller
  <2>3. \A u \in Controller \ {d} : gcall'[u] = gcall[u]
    BY <1>1, <2>1 DEF Caller
  <2>4. gcall'[d] = IF guest' = 0 THEN "hostResume" ELSE "none"
    BY <1>1, <2>1 DEF Caller
  <2>5. CASE count = 1
    <3>1. guest =< 1 /\ guest' = 0
      BY <1>1, <2>1, <2>5
    <3>2. d \in Resumers'
      BY <2>4, <3>1 DEF Resumers
    <3> QED BY <2>1, <2>2, <2>5, <3>1, <3>2
  <2>6. CASE count = 0
    BY <1>1, <2>1, <2>2, <2>6
  <2> QED BY <1>1, <2>5, <2>6
<1>7. ASSUME NEW d \in Controller, ResumeHost(d)
      PROVE  SelfFollows'
  <2>1. /\ gcall[d] = "hostResume" /\ gcall' = [gcall EXCEPT ![d] = "none"]
        /\ guest' = guest /\ Resume(d)
    BY <1>7 DEF ResumeHost, GCall
  <2>2. count' = 0 /\ gcall'[Self] = gcall[Self]
    BY <1>1, <2>1 DEF Resume, Caller
  <2>3. count = 1 => guest = 0
    BY <2>1 DEF Resumers
  <2> QED BY <1>1, <2>1, <2>2, <2>3
<1> QED BY <1>2, <1>3, <1>4, <1>5, <1>6, <1>7, NoKe DEF GuestNext, GuestStep

LEMMA TitleStays == [GuestNext]_allVars => title' = title
  BY DEF allVars, guestVars, GuestNext, HostStep, SelfRead, SelfStep, SelfStore, SelfWake,
         SelfUnlock, SuspendCount, ResumeCall, GuestStep, SuspendTest, SuspendHost,
         ResumeRead, ResumeStore, ResumeHost

LEMMA CountsInvStep == GuestInv /\ CountsInv /\ [GuestNext]_allVars => CountsInv'
<1> SUFFICES ASSUME GuestInv, CountsInv, [GuestNext]_allVars PROVE CountsInv'
  OBVIOUS
<1>1. title' = title
  BY TitleStays
<1>2. CASE UNCHANGED allVars
  BY <1>1, <1>2 DEF allVars, hostVars, guestVars, CountsInv, ByOther, OtherFollows,
                    SelfFollows, Resumers
<1>3. CASE GuestNext
  BY <1>1, <1>3, OtherStep, ItselfStep DEF CountsInv, ByOther
<1> QED BY <1>2, <1>3

(* Between calls the guest's count of a thread and the host's are zero     *)
(* together, if only the thread suspends itself, by SelfSuspend, or if one *)
(* other thread suspends and resumes it and does not nest (OneDeep, in     *)
(* CountsAgree; XThread::Suspend, Resume and SelfSuspend).                 *)
THEOREM Agree == GuestSpec => []CountsAgree
<1> DEFINE Inv == OneDeep(title) => GuestInv /\ CountsInv
<1>1. OneDeep(title) => Exclusive(title)
  BY DEF OneDeep, Exclusive
<1>2. GuestInit => Inv
  BY <1>1, GuestInvInit, CountsInvInit
<1>3. Inv /\ [GuestNext]_allVars => Inv'
  BY TitleStays, GuestInvStep, CountsInvStep DEF OneDeep
<1>4. Inv => CountsAgree
  <2> SUFFICES ASSUME OneDeep(title), GuestInv, CountsInv, Quiescent, gcall[Self] = "none"
               PROVE  guest = 0 <=> count = 0
    BY DEF CountsAgree
  <2>1. \A c \in Controller : gcall[c] = "none"
    BY DEF Quiescent, Caller, GuestInv, Called, OtherCalls
  <2>2. CASE title.suspend \cap Controller = {}
    <3>1. SelfFollows /\ Resumers = {} /\ count \in Nat
      BY <2>1, <2>2 DEF CountsInv, Resumers, GuestInv, GuestTypeOK, HostTypeOK
    <3> QED BY <3>1 DEF SelfFollows
  <2>3. CASE \E c \in Controller : ByOther(c)
    BY <2>1, <2>3 DEF CountsInv, OtherFollows
  <2> QED BY <2>2, <2>3 DEF OneDeep, ByOther
<1> QED BY <1>2, <1>3, <1>4, PTL DEF GuestSpec
==============================================================================
