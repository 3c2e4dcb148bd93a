-------------------------- MODULE ReadWriteLockProofs --------------------------
(***************************************************************************)
(* The guest's reader/writer lock excludes, and its four counters account  *)
(* for every client, for any number of readers and writers below Uint32.   *)
(* All of it follows from one balance of numbers: how many clients of each *)
(* role are inside and waiting, how many of the waiting have been granted  *)
(* the lock, and what the counters say.  While writers do not compete the  *)
(* balance leaves nobody stranded.                                         *)
(***************************************************************************)
EXTENDS ReadWriteLock, FiniteSetTheorems, TLAPS

InsideR == Cardinality(Readers("in"))
InsideW == Cardinality(Writers("in"))
WaitingR == Cardinality(Readers("wait"))
WaitingW == Cardinality(Writers("wait"))

\* What a release is still to post, and all that is on its way.
Posting == IF At("post") = {} THEN 0 ELSE grant[CHOOSE c \in At("post") : TRUE]
Posts == reader_semaphore + Posting
Handed == Cardinality(At("setEvent")) + (IF writer_event THEN 1 ELSE 0)

Passed == InsideW + Handed

\* The counters and the clients they count.
Sums ==
  /\ lock_count + 1 = InsideR + InsideW + WaitingR + WaitingW
  /\ writers_waiting = WaitingW - Handed /\ Handed <= WaitingW
  /\ readers_waiting = WaitingR - Posts /\ Posts <= WaitingR

\* A writer has the lock or is about to.
Exclusive == Passed = 1 /\ InsideR = 0 /\ Posts = 0 /\ readers_entry = 0

\* Readers have it, or nobody does and nobody wants it; readers wait only
\* behind writers.
Sharing ==
  /\ Passed = 0 /\ readers_entry = InsideR + Posts
  /\ readers_entry = 0 => lock_count = -1
  /\ readers_waiting > 0 => writers_waiting > 0

\* Nobody has it and nobody will: a writer left it to a writer, and
\* readers_entry has wrapped.
Stuck ==
  /\ Passed = 0 /\ InsideR = 0 /\ Posts = 0 /\ writers_waiting > 0
  /\ readers_entry = Uint32 - 1

Balance == Sums /\ (Exclusive \/ Sharing \/ Stuck)

\* A lock gets stuck when a writer leaves while another waits.
StaysFree == Stuck' => Stuck \/ (InsideW > 0 /\ writers_waiting > 0)

\* One release at a time posts the semaphore, and posts something.
OnePost ==
  \A c \in At("post") : grant[c] > 0 /\ \A d \in At("post") : c = d

IInv == TypeOK /\ OnePost /\ Balance

------------------------------------------------------------------------------
(* Counting clients.                                                       *)

(* All the sets of clients that are counted are finite.                    *)
LEMMA CountsNat ==
  ASSUME NEW S \in SUBSET Client
  PROVE  IsFiniteSet(S) /\ Cardinality(S) \in Nat /\ Cardinality(S) <= Cardinality(Client)
BY ClientAssumption, FS_Subset, FS_CardinalityType

(* A client that comes to a set or leaves it changes its size by one.      *)
LEMMA ComeAndGo ==
  ASSUME NEW S \in SUBSET Client, NEW U \in SUBSET Client, NEW c \in Client
  PROVE  /\ c \notin S /\ U = S \cup {c} => Cardinality(U) = Cardinality(S) + 1
         /\ c \in S /\ U = S \ {c} => Cardinality(U) = Cardinality(S) - 1
BY CountsNat, FS_AddElement, FS_RemoveElement

(* A step of a client from one place to another changes the two places.    *)
LEMMA Moved ==
  ASSUME pc \in [Client -> PCs], NEW c \in Client, NEW from \in PCs, NEW to \in PCs,
         from # to, Goto(c, from, to), NEW place \in PCs
  PROVE  /\ Cardinality(At(place)') = Cardinality(At(place))
              + (IF place = to THEN 1 ELSE IF place = from THEN -1 ELSE 0)
         /\ Cardinality(Readers(place)') = Cardinality(Readers(place))
              + (IF ~IsReader(c) THEN 0
                 ELSE IF place = to THEN 1 ELSE IF place = from THEN -1 ELSE 0)
         /\ Cardinality(Writers(place)') = Cardinality(Writers(place))
              + (IF IsReader(c) THEN 0
                 ELSE IF place = to THEN 1 ELSE IF place = from THEN -1 ELSE 0)
<1>. USE DEF At, Readers, Writers
<1>1. /\ pc[c] = from /\ pc'[c] = to
      /\ \A d \in Client \ {c} : pc'[d] = pc[d]
  BY DEF Goto
<1>2. \A S \in SUBSET Client : Cardinality(S) \in Nat
  BY CountsNat
<1>3. Cardinality(At(place)') = Cardinality(At(place))
        + (IF place = to THEN 1 ELSE IF place = from THEN -1 ELSE 0)
  <2>1. CASE place = to
    <3>1. c \notin At(place) /\ At(place)' = At(place) \cup {c}
      BY <1>1, <2>1
    <3>. QED  BY <2>1, <3>1, ComeAndGo
  <2>2. CASE place = from
    <3>1. c \in At(place) /\ At(place)' = At(place) \ {c}
      BY <1>1, <2>2
    <3>. QED  BY <2>2, <3>1, ComeAndGo
  <2>3. CASE place # to /\ place # from
    <3>1. At(place)' = At(place)
      BY <1>1, <2>3
    <3>. QED  BY <1>2, <2>3, <3>1
  <2>. QED  BY <2>1, <2>2, <2>3
<1>4. Cardinality(Readers(place)') = Cardinality(Readers(place))
        + (IF ~IsReader(c) THEN 0
           ELSE IF place = to THEN 1 ELSE IF place = from THEN -1 ELSE 0)
  <2>1. CASE IsReader(c) /\ place = to
    <3>1. c \notin Readers(place) /\ Readers(place)' = Readers(place) \cup {c}
      BY <1>1, <2>1
    <3>. QED  BY <2>1, <3>1, ComeAndGo
  <2>2. CASE IsReader(c) /\ place = from
    <3>1. c \in Readers(place) /\ Readers(place)' = Readers(place) \ {c}
      BY <1>1, <2>2
    <3>. QED  BY <2>2, <3>1, ComeAndGo
  <2>3. CASE ~IsReader(c) \/ (place # to /\ place # from)
    <3>1. Readers(place)' = Readers(place)
      BY <1>1, <2>3
    <3>. QED  BY <1>2, <2>3, <3>1
  <2>. QED  BY <2>1, <2>2, <2>3
<1>5. Cardinality(Writers(place)') = Cardinality(Writers(place))
        + (IF IsReader(c) THEN 0
           ELSE IF place = to THEN 1 ELSE IF place = from THEN -1 ELSE 0)
  <2>1. CASE ~IsReader(c) /\ place = to
    <3>1. c \notin Writers(place) /\ Writers(place)' = Writers(place) \cup {c}
      BY <1>1, <2>1
    <3>. QED  BY <2>1, <3>1, ComeAndGo
  <2>2. CASE ~IsReader(c) /\ place = from
    <3>1. c \in Writers(place) /\ Writers(place)' = Writers(place) \ {c}
      BY <1>1, <2>2
    <3>. QED  BY <2>2, <3>1, ComeAndGo
  <2>3. CASE IsReader(c) \/ (place # to /\ place # from)
    <3>1. Writers(place)' = Writers(place)
      BY <1>1, <2>3
    <3>. QED  BY <1>2, <2>3, <3>1
  <2>. QED  BY <2>1, <2>2, <2>3
<1>. QED  BY <1>3, <1>4, <1>5

(* The unsigned counters, away from the wrap and at it.                    *)
LEMMA Modular ==
  ASSUME NEW n \in 0 .. Uint32 - 1
  PROVE  /\ n + 1 < Uint32 => (n + 1) % Uint32 = n + 1
         /\ n > 0 => (n - 1) % Uint32 = n - 1
         /\ n = 0 => (n - 1) % Uint32 = Uint32 - 1
BY UintAssumption

(* Sets without a common client add up.                                    *)
LEMMA Disjoint ==
  ASSUME NEW S \in SUBSET Client, NEW U \in SUBSET Client, S \cap U = {}
  PROVE  Cardinality(S \cup U) = Cardinality(S) + Cardinality(U)
<1>1. IsFiniteSet(S) /\ IsFiniteSet(U) /\ Cardinality(S) \in Nat /\ Cardinality(U) \in Nat
  BY CountsNat
<1>2. Cardinality(S \cup U) = Cardinality(S) + Cardinality(U) - Cardinality(S \cap U)
  BY <1>1, FS_Union
<1>3. Cardinality(S \cap U) = 0
  BY FS_EmptySet
<1>. QED  BY <1>1, <1>2, <1>3

(* Those inside and those that wait are as many as the four counts say,    *)
(* and a client outside leaves room for itself.                            *)
LEMMA Total ==
  ASSUME pc \in [Client -> PCs]
  PROVE  /\ Cardinality(At("in") \cup At("wait")) = InsideR + InsideW + WaitingR + WaitingW
         /\ InsideR \in Nat /\ InsideW \in Nat /\ WaitingR \in Nat /\ WaitingW \in Nat
         /\ \A c \in Client :
              pc[c] = "out" => InsideR + InsideW + WaitingR + WaitingW + 1 < Uint32
<1>. USE DEF At, Readers, Writers
<1>1. \A S \in SUBSET Client :
        IsFiniteSet(S) /\ Cardinality(S) \in Nat /\ Cardinality(S) < Uint32
  BY CountsNat, ClientAssumption, FS_CardinalityType, UintAssumption
<1>2. Cardinality(At("in")) = InsideR + InsideW
  <2>1. At("in") = Readers("in") \cup Writers("in") /\ Readers("in") \cap Writers("in") = {}
    OBVIOUS
  <2>2. Readers("in") \in SUBSET Client /\ Writers("in") \in SUBSET Client
    OBVIOUS
  <2>3. Cardinality(Readers("in") \cup Writers("in")) = InsideR + InsideW
    BY ONLY <2>1, <2>2, Disjoint DEF InsideR, InsideW
  <2>. QED  BY ONLY <2>1, <2>3
<1>3. Cardinality(At("wait")) = WaitingR + WaitingW
  <2>1. /\ At("wait") = Readers("wait") \cup Writers("wait")
        /\ Readers("wait") \cap Writers("wait") = {}
    OBVIOUS
  <2>2. Readers("wait") \in SUBSET Client /\ Writers("wait") \in SUBSET Client
    OBVIOUS
  <2>3. Cardinality(Readers("wait") \cup Writers("wait")) = WaitingR + WaitingW
    BY ONLY <2>1, <2>2, Disjoint DEF WaitingR, WaitingW
  <2>. QED  BY ONLY <2>1, <2>3
<1>4. Cardinality(At("in") \cup At("wait")) = Cardinality(At("in")) + Cardinality(At("wait"))
  <2>1. At("in") \cap At("wait") = {} /\ At("in") \in SUBSET Client /\ At("wait") \in SUBSET Client
    OBVIOUS
  <2>. QED  BY ONLY <2>1, Disjoint
<1>5. InsideR \in Nat /\ InsideW \in Nat /\ WaitingR \in Nat /\ WaitingW \in Nat
  BY <1>1 DEF InsideR, InsideW, WaitingR, WaitingW
<1>6. ASSUME NEW c \in Client, pc[c] = "out"
      PROVE  Cardinality(At("in") \cup At("wait")) + 1 < Uint32
  <2>1. At("in") \cup At("wait") \cup {c} \in SUBSET Client /\ c \notin At("in") \cup At("wait")
    BY <1>6
  <2>2. Cardinality(At("in") \cup At("wait") \cup {c}) = Cardinality(At("in") \cup At("wait")) + 1
    BY <2>1, ComeAndGo
  <2>. QED  BY <1>1, <2>1, <2>2
<1>. QED  BY <1>2, <1>3, <1>4, <1>5, <1>6

(* What is about to be posted.                                             *)
LEMMA PostingValue ==
  ASSUME TypeOK, OnePost
  PROVE  /\ At("post") = {} => Posting = 0
         /\ \A c \in At("post") : At("post") = {c} /\ Posting = grant[c]
         /\ Posting \in Nat /\ (Posting = 0 => At("post") = {})
<1>1. CASE At("post") = {}
  BY <1>1 DEF Posting
<1>2. ASSUME NEW c \in At("post")
      PROVE  At("post") = {c} /\ Posting = grant[c] /\ grant[c] \in Nat /\ grant[c] > 0
  <2>1. At("post") = {c}
    BY <1>2 DEF OnePost
  <2>2. (CHOOSE d \in At("post") : TRUE) = c
    BY <2>1
  <2>. QED  BY <1>2, <2>1, <2>2 DEF Posting, OnePost, TypeOK, At
<1>. QED  BY <1>1, <1>2

------------------------------------------------------------------------------
(* The steps.                                                              *)

(* The lock starts free and balanced.                                      *)
LEMMA Start == Init => IInv
<1>. SUFFICES ASSUME Init
              PROVE  IInv
  OBVIOUS
<1>1. TypeOK
  <2>1. 0 \in 0 .. Uint32 - 1
    BY UintAssumption
  <2>2. {writers_waiting, readers_waiting, readers_entry} \subseteq 0 .. Uint32 - 1
    BY <2>1 DEF Init
  <2>3. pc \in [Client -> PCs] /\ grant \in [Client -> Nat]
    BY DEF Init, PCs
  <2>4. lock_count = -1 /\ reader_semaphore = 0 /\ writer_event = FALSE
    BY DEF Init
  <2>5. lock_count \in Int /\ reader_semaphore \in Nat
    BY <2>4
  <2>6. writer_event \in BOOLEAN
    BY <2>4
  <2>. QED  BY <2>2, <2>3, <2>5, <2>6 DEF TypeOK
<1>2. \A place \in PCs \ {"out"} : At(place) = {} /\ Readers(place) = {} /\ Writers(place) = {}
  <2>1. \A c \in Client : pc[c] = "out"
    BY DEF Init
  <2>2. ASSUME NEW place \in PCs \ {"out"}
        PROVE  At(place) = {}
    BY <2>1 DEF At
  <2>. QED  BY <2>2 DEF Readers, Writers
<1>3. /\ InsideR = 0 /\ InsideW = 0 /\ WaitingR = 0 /\ WaitingW = 0
      /\ Cardinality(At("setEvent")) = 0 /\ Posting = 0
  BY <1>2, FS_EmptySet DEF InsideR, InsideW, WaitingR, WaitingW, Posting, PCs
<1>4. OnePost
  BY <1>2 DEF OnePost, PCs
<1>5. Handed = 0 /\ Posts = 0 /\ Passed = 0
  BY <1>3 DEF Init, Passed, Handed, Posts
<1>6. Sums /\ Sharing
  BY <1>3, <1>5 DEF Init, Sums, Sharing
<1>. QED  BY <1>1, <1>4, <1>6 DEF IInv, Balance

(* What a step from one place to another does to the counts.               *)
Delta(place, from, to) == IF place = to THEN 1 ELSE IF place = from THEN -1 ELSE 0

Signals == Cardinality(At("setEvent"))

LEMMA Shift ==
  ASSUME TypeOK, NEW c \in Client, NEW from \in PCs, NEW to \in PCs, from # to,
         Goto(c, from, to)
  PROVE  /\ IsReader(c) => /\ InsideR' = InsideR + Delta("in", from, to)
                           /\ WaitingR' = WaitingR + Delta("wait", from, to)
                           /\ InsideW' = InsideW /\ WaitingW' = WaitingW
         /\ ~IsReader(c) => /\ InsideW' = InsideW + Delta("in", from, to)
                            /\ WaitingW' = WaitingW + Delta("wait", from, to)
                            /\ InsideR' = InsideR /\ WaitingR' = WaitingR
         /\ Signals' = Signals + Delta("setEvent", from, to)
         /\ At("post")' = (At("post") \ {c}) \cup (IF to = "post" THEN {c} ELSE {})
         /\ pc[c] = from /\ pc' \in [Client -> PCs]
<1>1. \A place \in PCs : \A S \in {At(place), Readers(place), Writers(place)} :
        Cardinality(S) \in Nat
  BY CountsNat DEF At, Readers, Writers
<1>2. "in" \in PCs /\ "wait" \in PCs /\ "setEvent" \in PCs
  BY DEF PCs
<1>3. \A place \in PCs :
        /\ Cardinality(At(place)') = Cardinality(At(place)) + Delta(place, from, to)
        /\ Cardinality(Readers(place)') = Cardinality(Readers(place))
             + (IF IsReader(c) THEN Delta(place, from, to) ELSE 0)
        /\ Cardinality(Writers(place)') = Cardinality(Writers(place))
             + (IF IsReader(c) THEN 0 ELSE Delta(place, from, to))
  <2>. TAKE place \in PCs
  <2>1. pc \in [Client -> PCs]
    BY DEF TypeOK
  <2>2. /\ Cardinality(At(place)') = Cardinality(At(place))
             + (IF place = to THEN 1 ELSE IF place = from THEN -1 ELSE 0)
        /\ Cardinality(Readers(place)') = Cardinality(Readers(place))
             + (IF ~IsReader(c) THEN 0
                ELSE IF place = to THEN 1 ELSE IF place = from THEN -1 ELSE 0)
        /\ Cardinality(Writers(place)') = Cardinality(Writers(place))
             + (IF IsReader(c) THEN 0
                ELSE IF place = to THEN 1 ELSE IF place = from THEN -1 ELSE 0)
    BY <2>1, Moved
  <2>. QED  BY <2>2 DEF Delta
<1>4. /\ pc[c] = from /\ pc' \in [Client -> PCs]
      /\ At("post")' = (At("post") \ {c}) \cup (IF to = "post" THEN {c} ELSE {})
  BY DEF Goto, TypeOK, At
<1>5. /\ IsReader(c) => /\ InsideR' = InsideR + Delta("in", from, to)
                        /\ WaitingR' = WaitingR + Delta("wait", from, to)
                        /\ InsideW' = InsideW /\ WaitingW' = WaitingW
      /\ ~IsReader(c) => /\ InsideW' = InsideW + Delta("in", from, to)
                         /\ WaitingW' = WaitingW + Delta("wait", from, to)
                         /\ InsideR' = InsideR /\ WaitingR' = WaitingR
      /\ Signals' = Signals + Delta("setEvent", from, to)
  <2>1. /\ InsideR \in Nat /\ InsideW \in Nat /\ WaitingR \in Nat /\ WaitingW \in Nat
    BY <1>1, <1>2 DEF InsideR, InsideW, WaitingR, WaitingW
  <2>. QED  BY <1>2, <1>3, <2>1 DEF InsideR, InsideW, WaitingR, WaitingW, Signals
<1>. QED  BY <1>4, <1>5

(* The numbers of a state in which the invariant holds.                    *)
LEMMA Numbers ==
  ASSUME IInv
  PROVE  /\ InsideR \in Nat /\ InsideW \in Nat /\ WaitingR \in Nat /\ WaitingW \in Nat
         /\ Signals \in Nat /\ Posting \in Nat /\ Posts \in Nat /\ Handed \in Nat
         /\ Handed = Signals + (IF writer_event THEN 1 ELSE 0)
         /\ lock_count \in Int /\ reader_semaphore \in Nat
         /\ writers_waiting \in 0 .. Uint32 - 1 /\ readers_waiting \in 0 .. Uint32 - 1
         /\ readers_entry \in 0 .. Uint32 - 1 /\ Uint32 \in Nat /\ Uint32 > 1
         /\ TypeOK /\ OnePost /\ Balance
<1>. USE UintAssumption DEF IInv
<1>1. /\ InsideR \in Nat /\ InsideW \in Nat /\ WaitingR \in Nat /\ WaitingW \in Nat
  BY Total DEF TypeOK
<1>2. Signals \in Nat /\ Posting \in Nat
  BY CountsNat, PostingValue DEF Signals, At
<1>. QED  BY <1>1, <1>2 DEF TypeOK, Handed, Posts, Signals

(* A client inside is counted there, and one outside leaves room.          *)
LEMMA Counted ==
  ASSUME IInv, NEW c \in Client
  PROVE  /\ pc[c] = "in" => IF IsReader(c) THEN InsideR > 0 ELSE InsideW > 0
         /\ pc[c] = "out" => InsideR + InsideW + WaitingR + WaitingW + 1 < Uint32
<1>1. ASSUME pc[c] = "in"
      PROVE  IF IsReader(c) THEN InsideR > 0 ELSE InsideW > 0
  <2>1. Readers("in") \in SUBSET Client /\ Writers("in") \in SUBSET Client
    BY DEF Readers, Writers, At
  <2>2. IF IsReader(c) THEN c \in Readers("in") ELSE c \in Writers("in")
    BY <1>1 DEF Readers, Writers, At
  <2>3. IF IsReader(c) THEN InsideR # 0 ELSE InsideW # 0
    BY <2>1, <2>2, CountsNat, FS_EmptySet DEF InsideR, InsideW
  <2>. QED  BY <2>3, Numbers
<1>. QED  BY <1>1, Total DEF IInv, TypeOK

(* A lock that somebody has, or nobody wants, is not stuck.                *)
LEMMA Unstuck == IInv /\ (Exclusive \/ Sharing) => ~Stuck
BY UintAssumption, Numbers DEF Exclusive, Sharing, Stuck

LEMMA NotStuck == IInv' /\ (Exclusive' \/ Sharing') => ~Stuck' /\ StaysFree
<1>1. IInv' /\ (Exclusive' \/ Sharing') => ~Stuck'
  BY Unstuck, PTL
<1>. QED  BY <1>1 DEF StaysFree

(* A client that comes in through a free lock or among admitted readers,   *)
(* or begins to wait.                                                      *)
LEMMA AcquireStep ==
  ASSUME IInv, NEW c \in Client, Acquire(c)
  PROVE  IInv' /\ StaysFree
<1>. USE DEF signals
<1>0. TypeOK /\ OnePost /\ Balance
  BY DEF IInv
<1>1. PICK to \in {"in", "wait"} : Goto(c, "out", to)
  BY DEF Acquire, AcquireExclusive, TryAcquireExclusive, AcquireShared, TryAcquireShared
<1>2. /\ At("post")' = At("post") /\ Signals' = Signals
      /\ pc[c] = "out" /\ pc' \in [Client -> PCs]
      /\ IsReader(c) => /\ InsideR' = InsideR + (IF to = "in" THEN 1 ELSE 0)
                        /\ WaitingR' = WaitingR + (IF to = "wait" THEN 1 ELSE 0)
                        /\ InsideW' = InsideW /\ WaitingW' = WaitingW
      /\ ~IsReader(c) => /\ InsideW' = InsideW + (IF to = "in" THEN 1 ELSE 0)
                         /\ WaitingW' = WaitingW + (IF to = "wait" THEN 1 ELSE 0)
                         /\ InsideR' = InsideR /\ WaitingR' = WaitingR
  BY <1>0, <1>1, Shift, Numbers DEF PCs, Delta, At
<1>3. UNCHANGED <<grant, signals>>
  BY DEF Acquire, AcquireExclusive, TryAcquireExclusive, AcquireShared, TryAcquireShared
<1>4. OnePost' /\ Posts' = Posts /\ Handed' = Handed
  BY <1>0, <1>2, <1>3 DEF OnePost, Posting, Posts, Handed, Signals
<1>5. pc'[c] = to
  BY <1>0, <1>1 DEF Goto, TypeOK
<1>6. InsideR + InsideW + WaitingR + WaitingW + 1 < Uint32
  BY <1>2, Counted
<1>7. lock_count >= -1
  BY <1>0, Numbers DEF Balance, Sums
<1>8. CASE AcquireExclusive(c) \/ TryAcquireExclusive(c)
  <2>1. /\ ~IsReader(c) /\ lock_count' = lock_count + 1 /\ readers_entry' = readers_entry
        /\ readers_waiting' = readers_waiting
    <3>1. lock_count \in Int
      BY Numbers
    <3>. QED  BY <1>7, <1>8, <3>1 DEF AcquireExclusive, TryAcquireExclusive
  <2>2. InsideR' = InsideR /\ WaitingR' = WaitingR
    BY <1>2, <2>1
  <2>3. CASE to = "in"
    <3>1. lock_count' = 0 /\ writers_waiting' = writers_waiting
      BY <1>0, <1>5, <1>7, <1>8, <2>1, <2>3
      DEF AcquireExclusive, TryAcquireExclusive, Goto, TypeOK
    <3>2. InsideW' = InsideW + 1 /\ WaitingW' = WaitingW
      BY <1>2, <2>1, <2>3, Numbers
    <3>3. InsideR = 0 /\ InsideW = 0 /\ WaitingR = 0 /\ WaitingW = 0 /\ Handed = 0 /\ Posts = 0
      <4>1. lock_count + 1 = 0
        BY <2>1, <3>1
      <4>2. InsideR + InsideW + WaitingR + WaitingW = 0
        BY <1>0, <4>1 DEF Balance, Sums
      <4>3. InsideR = 0 /\ InsideW = 0 /\ WaitingR = 0 /\ WaitingW = 0
        BY <4>2, Numbers
      <4>. QED  BY <1>0, <4>3, Numbers DEF Balance, Sums
    <3>4. readers_entry = 0
      BY <1>0, <3>3, Numbers DEF Balance, Sums, Exclusive, Sharing, Stuck
    <3>5. Sums' /\ Exclusive'
      BY <1>0, <1>4, <2>1, <2>2, <3>1, <3>2, <3>3, <3>4 DEF Balance, Sums, Exclusive, Passed
    <3>6. TypeOK'
      BY <1>2, <1>3, <2>1, <3>1, Numbers DEF TypeOK
    <3>7. IInv'
      BY <1>4, <3>5, <3>6 DEF IInv, Balance
    <3>. QED  BY <3>5, <3>7, NotStuck
  <2>4. CASE to = "wait"
    <3>1. lock_count' # 0 /\ writers_waiting' = (writers_waiting + 1) % Uint32
      BY <1>0, <1>5, <1>8, <2>4 DEF AcquireExclusive, TryAcquireExclusive, Goto, TypeOK
    <3>2. writers_waiting + 1 < Uint32
      BY <1>0, <1>6, Numbers DEF Balance, Sums
    <3>3. writers_waiting' = writers_waiting + 1
      BY <3>1, <3>2, Modular, Numbers
    <3>4. WaitingW' = WaitingW + 1 /\ InsideW' = InsideW
      BY <1>2, <2>1, <2>4, Numbers
    <3>5. Sums'
      BY <1>0, <1>4, <2>1, <2>2, <3>3, <3>4, Numbers DEF Balance, Sums
    <3>6. /\ Exclusive => Exclusive'
          /\ Sharing => Sharing'
          /\ Stuck => Stuck'
      <4>1. Exclusive => Exclusive'
        BY <1>4, <2>1, <2>2, <3>4 DEF Exclusive, Passed
      <4>2. Sharing => readers_entry # 0
        BY <1>7, <2>1, <3>1, Numbers DEF Sharing
      <4>3. Sharing => Sharing'
        BY <1>4, <2>1, <2>2, <3>3, <3>4, <4>2, Numbers DEF Sharing, Passed
      <4>4. Stuck => Stuck'
        BY <1>4, <2>1, <2>2, <3>3, <3>4, Numbers DEF Stuck, Passed
      <4>. QED  BY <4>1, <4>3, <4>4
    <3>7. TypeOK'
      BY <1>2, <1>3, <2>1, <3>2, <3>3, Numbers DEF TypeOK
    <3>8. IInv'
      BY <1>0, <1>4, <3>5, <3>6, <3>7 DEF IInv, Balance
    <3>. QED  BY <1>0, <3>6, <3>8, NotStuck DEF Balance, StaysFree
  <2>. QED  BY <2>3, <2>4
<1>9. CASE AcquireShared(c) \/ TryAcquireShared(c)
  <2>1. IsReader(c) /\ lock_count' = lock_count + 1 /\ writers_waiting' = writers_waiting
    BY <1>9 DEF AcquireShared, TryAcquireShared
  <2>2. InsideW' = InsideW /\ WaitingW' = WaitingW
    BY <1>2, <2>1
  <2>3. CASE to = "in"
    <3>1. /\ lock_count = -1 \/ ReadersAdmitted
          /\ readers_entry' = (readers_entry + 1) % Uint32
          /\ readers_waiting' = readers_waiting
      <4>1. lock_count \in Int
        BY Numbers
      <4>. QED  BY <1>0, <1>5, <1>7, <1>9, <2>1, <2>3, <4>1
                DEF AcquireShared, TryAcquireShared, Goto, TypeOK
    <3>2. Sharing
      <4>1. CASE lock_count = -1
        <5>1. InsideW = 0 /\ Handed = 0 /\ WaitingW = 0
          BY <1>0, <4>1, Numbers DEF Balance, Sums
        <5>2. ~Exclusive /\ ~Stuck
          BY <1>0, <5>1, Numbers DEF Exclusive, Stuck, Passed, Balance, Sums
        <5>. QED  BY <1>0, <5>2 DEF Balance
      <4>2. CASE ReadersAdmitted
        BY <1>0, <4>2, Numbers DEF Balance, ReadersAdmitted, Exclusive, Stuck
      <4>. QED  BY <3>1, <4>1, <4>2
    <3>3. readers_entry + 1 < Uint32
      BY <1>0, <1>6, <3>2, Numbers DEF Balance, Sums, Sharing
    <3>4. readers_entry' = readers_entry + 1
      BY <3>1, <3>3, Modular, Numbers
    <3>5. InsideR' = InsideR + 1 /\ WaitingR' = WaitingR
      BY <1>2, <2>1, <2>3, Numbers
    <3>6. Sums' /\ Sharing'
      <4>1. Sums'
        BY <1>0, <1>4, <2>1, <2>2, <3>1, <3>5, Numbers DEF Balance, Sums
      <4>2. readers_entry' # 0
        BY <3>4, Numbers
      <4>3. Sharing'
        BY <1>4, <2>1, <2>2, <3>1, <3>2, <3>4, <3>5, <4>2, Numbers DEF Sharing, Passed
      <4>. QED  BY <4>1, <4>3
    <3>7. TypeOK'
      BY <1>2, <1>3, <2>1, <3>1, <3>3, <3>4, Numbers DEF TypeOK
    <3>8. IInv'
      BY <1>4, <3>6, <3>7 DEF IInv, Balance
    <3>. QED  BY <3>6, <3>8, NotStuck
  <2>4. CASE to = "wait"
    <3>1. /\ lock_count' # 0 /\ ~ReadersAdmitted /\ readers_entry' = readers_entry
          /\ readers_waiting' = (readers_waiting + 1) % Uint32
      BY <1>0, <1>5, <1>9, <2>4 DEF AcquireShared, TryAcquireShared, Goto, TypeOK
    <3>2. readers_waiting + 1 < Uint32
      BY <1>0, <1>6, Numbers DEF Balance, Sums
    <3>3. readers_waiting' = readers_waiting + 1
      BY <3>1, <3>2, Modular, Numbers
    <3>4. InsideR' = InsideR /\ WaitingR' = WaitingR + 1
      BY <1>2, <2>1, <2>4, Numbers
    <3>5. Sums'
      BY <1>0, <1>4, <2>1, <2>2, <3>3, <3>4, Numbers DEF Balance, Sums
    <3>6. ASSUME Sharing
          PROVE  writers_waiting > 0
      <4>1. CASE readers_entry = 0
        <5>1. lock_count # -1 /\ InsideR = 0 /\ Posts = 0 /\ InsideW = 0 /\ Handed = 0
          BY <2>1, <3>1, <3>6, <4>1, Numbers DEF Sharing, Passed
        <5>2. writers_waiting + readers_waiting > 0
          BY <1>0, <5>1, Numbers DEF Balance, Sums
        <5>. QED  BY <3>6, <5>2, Numbers DEF Sharing
      <4>2. CASE readers_entry # 0
        BY <3>1, <4>2, Numbers DEF ReadersAdmitted
      <4>. QED  BY <4>1, <4>2
    <3>7. /\ Exclusive => Exclusive'
          /\ Sharing => Sharing'
          /\ Stuck => Stuck'
      <4>1. Exclusive => Exclusive'
        BY <1>4, <2>1, <2>2, <3>1, <3>4, Numbers DEF Exclusive, Passed
      <4>2. Sharing => readers_entry # 0
        BY <1>7, <2>1, <3>1, Numbers DEF Sharing
      <4>3. Sharing => Sharing'
        BY <1>4, <2>1, <2>2, <3>1, <3>4, <3>6, <4>2, Numbers DEF Sharing, Passed
      <4>4. Stuck => Stuck'
        BY <1>4, <2>1, <2>2, <3>1, <3>4, Numbers DEF Stuck, Passed
      <4>. QED  BY <4>1, <4>3, <4>4
    <3>8. TypeOK'
      BY <1>2, <1>3, <2>1, <3>1, <3>2, <3>3, Numbers DEF TypeOK
    <3>9. IInv'
      BY <1>0, <1>4, <3>5, <3>7, <3>8 DEF IInv, Balance
    <3>. QED  BY <1>0, <3>7, <3>9, NotStuck DEF Balance, StaysFree
  <2>. QED  BY <2>3, <2>4
<1>. QED  BY <1>8, <1>9 DEF Acquire

(* A waiter that takes the event or a unit of the semaphore.               *)
LEMMA WakeStep ==
  ASSUME IInv, NEW c \in Client, Wake(c)
  PROVE  IInv' /\ StaysFree
<1>. USE DEF counters
<1>1. Goto(c, "wait", "in")
  BY DEF Wake, WakeWriter, WakeReader
<1>2. /\ At("post")' = At("post") /\ Signals' = Signals
      /\ pc' \in [Client -> PCs]
      /\ IsReader(c) => /\ InsideR' = InsideR + 1 /\ WaitingR' = WaitingR - 1
                        /\ InsideW' = InsideW /\ WaitingW' = WaitingW
      /\ ~IsReader(c) => /\ InsideW' = InsideW + 1 /\ WaitingW' = WaitingW - 1
                         /\ InsideR' = InsideR /\ WaitingR' = WaitingR
  BY <1>1, Shift, Numbers DEF IInv, PCs, Delta, At
<1>3. UNCHANGED <<counters, grant>>
  BY DEF Wake, WakeWriter, WakeReader
<1>4. OnePost' /\ Posting' = Posting
  BY <1>2, <1>3 DEF OnePost, Posting, IInv
<1>5. CASE WakeWriter(c)
  <2>1. ~IsReader(c) /\ Handed' = Handed - 1 /\ Posts' = Posts
    BY <1>2, <1>4, <1>5, Numbers DEF WakeWriter, Handed, Posts, Signals
  <2>2. Passed' = Passed
    BY <1>2, <2>1, Numbers DEF Passed
  <2>3. Sums'
    BY <1>2, <1>3, <2>1, Numbers DEF Balance, Sums
  <2>4. Exclusive'
    <3>1. Handed > 0
      BY <1>5, Numbers DEF WakeWriter, Handed
    <3>2. Exclusive
      BY <3>1, Numbers DEF Balance, Sharing, Stuck, Passed
    <3>. QED  BY <1>2, <1>3, <2>1, <2>2, <3>2, Numbers DEF Exclusive
  <2>5. TypeOK'
    BY <1>2, <1>3, <1>5 DEF WakeWriter, IInv, TypeOK
  <2>6. IInv'
    BY <1>4, <2>3, <2>4, <2>5 DEF IInv, Balance
  <2>. QED  BY <2>4, <2>6, NotStuck
<1>6. CASE WakeReader(c)
  <2>1. IsReader(c) /\ Handed' = Handed /\ Posts' = Posts - 1
    BY <1>2, <1>4, <1>6, Numbers DEF WakeReader, Handed, Posts, Signals
  <2>2. Passed' = Passed /\ InsideR' + Posts' = InsideR + Posts /\ Posts > 0
    BY <1>2, <1>6, <2>1, Numbers DEF WakeReader, Passed, Posts
  <2>3. Sums'
    BY <1>2, <1>3, <2>1, <2>2, Numbers DEF Balance, Sums
  <2>4. Sharing
    BY <2>2, Numbers DEF Balance, Exclusive, Stuck
  <2>5. Sharing'
    BY <1>3, <2>2, <2>4 DEF Sharing
  <2>6. TypeOK'
    BY <1>2, <1>3, <1>6 DEF WakeReader, IInv, TypeOK
  <2>7. IInv'
    BY <1>4, <2>3, <2>5, <2>6 DEF IInv, Balance
  <2>. QED  BY <2>5, <2>7, NotStuck
<1>. QED  BY <1>5, <1>6 DEF Wake

(* A client that leaves, in each of the four ways.                         *)
LEMMA ReleaseStep ==
  ASSUME IInv, NEW c \in Client, Release(c)
  PROVE  IInv' /\ StaysFree
<1>. USE DEF signals
<1>1. PICK to \in {"out", "post", "setEvent"} : Goto(c, "in", to)
  BY DEF Release, ReleaseLast, ReleaseToReaders, ReleaseShared, ReleaseToWriter
<1>2. /\ At("post")' = (At("post") \ {c}) \cup (IF to = "post" THEN {c} ELSE {})
      /\ Signals' = Signals + (IF to = "setEvent" THEN 1 ELSE 0)
      /\ pc[c] = "in" /\ pc' \in [Client -> PCs] /\ pc'[c] = to
      /\ IsReader(c) => /\ InsideR' = InsideR - 1 /\ InsideW' = InsideW /\ InsideR > 0
      /\ ~IsReader(c) => /\ InsideW' = InsideW - 1 /\ InsideR' = InsideR /\ InsideW > 0
      /\ WaitingR' = WaitingR /\ WaitingW' = WaitingW
  <2>1. TypeOK /\ "in" \in PCs /\ to \in PCs /\ to # "in"
    BY DEF IInv, PCs
  <2>2. pc[c] = "in" /\ pc'[c] = to
    BY <1>1, <2>1 DEF TypeOK, Goto
  <2>3. IF IsReader(c) THEN InsideR > 0 ELSE InsideW > 0
    BY <2>2, Counted
  <2>4. Delta("in", "in", to) = -1 /\ Delta("wait", "in", to) = 0
        /\ Delta("setEvent", "in", to) = (IF to = "setEvent" THEN 1 ELSE 0)
    BY <2>1 DEF Delta
  <2>. QED  BY <1>1, <2>1, <2>2, <2>3, <2>4, Shift, Numbers
<1>3. lock_count' = lock_count - 1 /\ UNCHANGED signals
  BY DEF Release, ReleaseLast, ReleaseToReaders, ReleaseShared, ReleaseToWriter
<1>4. c \notin At("post")
  BY <1>2 DEF At
<1>5. Handed' = Handed + (IF to = "setEvent" THEN 1 ELSE 0)
  BY <1>2, <1>3, Numbers DEF Handed, Signals
<1>6. ASSUME to # "post", grant' = grant
      PROVE  OnePost' /\ Posts' = Posts
  BY <1>2, <1>3, <1>4, <1>6 DEF OnePost, Posting, Posts, IInv
<1>7. CASE ReleaseLast(c)
  <2>1. /\ to = "out" /\ grant' = grant /\ readers_entry' = 0
        /\ writers_waiting' = writers_waiting /\ readers_waiting' = readers_waiting
        /\ lock_count - 1 < 0
    BY <1>2, <1>7 DEF ReleaseLast, Goto, IInv, TypeOK
  <2>2. InsideR + InsideW + WaitingR + WaitingW <= 1
    BY <2>1, Numbers DEF Balance, Sums
  <2>3. WaitingR = 0 /\ WaitingW = 0 /\ InsideR' = 0 /\ InsideW' = 0
    <3>1. CASE IsReader(c)
      BY <1>2, <2>2, <3>1, Numbers
    <3>2. CASE ~IsReader(c)
      BY <1>2, <2>2, <3>2, Numbers
    <3>. QED  BY <3>1, <3>2
  <2>4. Handed = 0 /\ Posts = 0 /\ Handed' = 0 /\ Posts' = 0
    BY <1>5, <1>6, <2>1, <2>3, Numbers DEF Balance, Sums
  <2>5. Sums'
    BY <1>2, <1>3, <2>1, <2>3, <2>4, Numbers DEF Balance, Sums
  <2>6. Sharing'
    <3>1. lock_count >= 0
      BY <1>2, Numbers DEF Balance, Sums
    <3>2. lock_count' = -1
      BY <1>3, <2>1, <3>1, Numbers
    <3>. QED  BY <2>1, <2>3, <2>4, <3>2, Numbers DEF Balance, Sums, Sharing, Passed
  <2>7. TypeOK'
    BY <1>2, <1>3, <2>1, Numbers DEF TypeOK
  <2>8. IInv'
    BY <1>6, <2>1, <2>5, <2>6, <2>7 DEF IInv, Balance
  <2>. QED  BY <2>6, <2>8, NotStuck
<1>8. CASE ReleaseToReaders(c)
  <2>1. /\ to = "post" /\ grant' = [grant EXCEPT ![c] = readers_waiting]
        /\ readers_entry' = readers_waiting /\ readers_waiting' = 0
        /\ writers_waiting' = writers_waiting /\ readers_entry = 0 /\ readers_waiting # 0
    BY <1>2, <1>8 DEF ReleaseToReaders, PassToReaders, Goto, IInv, TypeOK
  <2>2. Exclusive
    <3>1. ~Stuck
      BY <2>1, Numbers DEF Stuck
    <3>2. ~Sharing
      BY <1>2, <2>1, Numbers DEF Sharing, Passed
    <3>. QED  BY <3>1, <3>2, Numbers DEF Balance
  <2>3. ~IsReader(c) /\ InsideW = 1 /\ Handed = 0 /\ Posts = 0 /\ InsideR = 0
    BY <1>2, <2>2, Numbers DEF Exclusive, Passed
  <2>4. At("post") = {} /\ reader_semaphore = 0
    BY <2>3, Numbers, PostingValue DEF Posts
  <2>5. At("post")' = {c} /\ grant'[c] = readers_waiting
    BY <1>2, <2>1, <2>4 DEF IInv, TypeOK
  <2>6. OnePost' /\ Posting' = readers_waiting
    BY <2>1, <2>5, Numbers DEF OnePost, Posting
  <2>7. Posts' = readers_waiting
    BY <1>3, <2>4, <2>6, Numbers DEF Posts
  <2>8. Handed' = 0 /\ InsideW' = 0 /\ InsideR' = 0
    BY <1>2, <1>5, <2>1, <2>3, Numbers
  <2>9. Sums'
    BY <1>2, <1>3, <2>1, <2>3, <2>7, <2>8, Numbers DEF Balance, Sums
  <2>10. Sharing'
    BY <2>1, <2>7, <2>8, Numbers DEF Sharing, Passed
  <2>11. TypeOK'
    BY <1>2, <1>3, <2>1, Numbers DEF TypeOK
  <2>12. IInv'
    BY <2>6, <2>9, <2>10, <2>11 DEF IInv, Balance
  <2>. QED  BY <2>10, <2>12, NotStuck
<1>9. CASE ReleaseShared(c)
  <2>1. /\ to = "out" /\ grant' = grant /\ readers_entry' = (readers_entry - 1) % Uint32
        /\ writers_waiting' = writers_waiting /\ readers_waiting' = readers_waiting
        /\ lock_count - 1 >= 0 /\ ~PassToReaders /\ readers_entry' # 0
    BY <1>2, <1>9 DEF ReleaseShared, Goto, IInv, TypeOK
  <2>2. readers_entry' = IF readers_entry = 0 THEN Uint32 - 1 ELSE readers_entry - 1
    BY <2>1, Modular, Numbers
  <2>3. Handed' = Handed /\ Posts' = Posts
    BY <1>5, <1>6, <2>1, Numbers
  <2>4. Sums'
    BY <1>2, <1>3, <2>1, <2>3, Numbers DEF Balance, Sums
  <2>5. ASSUME Exclusive
        PROVE  Stuck' /\ InsideW > 0 /\ writers_waiting > 0
    <3>1. ~IsReader(c) /\ InsideW = 1 /\ Handed = 0 /\ Posts = 0 /\ InsideR = 0 /\ InsideW' = 0
          /\ InsideR' = 0
      BY <1>2, <2>5, Numbers DEF Exclusive, Passed
    <3>2. readers_waiting = 0 /\ readers_entry' = Uint32 - 1
      BY <2>1, <2>2, <2>5 DEF PassToReaders, Exclusive
    <3>3. writers_waiting > 0
      BY <2>1, <3>1, <3>2, Numbers DEF Balance, Sums
    <3>4. Stuck'
      BY <2>1, <2>3, <3>1, <3>2, <3>3 DEF Stuck, Passed
    <3>. QED  BY <3>1, <3>3, <3>4
  <2>6. ASSUME Sharing
        PROVE  Sharing'
    <3>1. IsReader(c) /\ InsideW = 0 /\ Handed = 0 /\ readers_entry = InsideR + Posts
          /\ readers_entry > 0
      BY <1>2, <2>6, Numbers DEF Sharing, Passed
    <3>2. InsideW' = 0 /\ InsideR' = InsideR - 1 /\ readers_entry' = readers_entry - 1
      BY <1>2, <2>2, <3>1
    <3>3. readers_waiting' > 0 => writers_waiting' > 0
      BY <2>1, <2>6 DEF Sharing
    <3>4. readers_entry' = InsideR' + Posts'
      BY <2>3, <3>1, <3>2, Numbers
    <3>5. Passed' = 0
      BY <2>3, <3>1, <3>2 DEF Passed
    <3>. QED  BY <2>1, <3>3, <3>4, <3>5 DEF Sharing
  <2>7. ~Stuck
    <3>1. Stuck => InsideR = 0 /\ InsideW = 0
      BY Numbers DEF Stuck, Passed
    <3>2. InsideR # 0 \/ InsideW # 0
      BY <1>2, Numbers
    <3>. QED  BY <3>1, <3>2
  <2>8. TypeOK'
    BY <1>2, <1>3, <2>1, <2>2, Numbers DEF TypeOK
  <2>9. IInv'
    BY <1>6, <2>1, <2>4, <2>5, <2>6, <2>7, <2>8, Numbers DEF IInv, Balance
  <2>10. Exclusive \/ Sharing
    BY <2>7, Numbers DEF Balance
  <2>11. StaysFree
    <3>1. CASE Exclusive
      BY <2>5, <3>1 DEF StaysFree
    <3>2. CASE Sharing
      <4>1. ~Stuck'
        BY <2>6, <2>9, <3>2, NotStuck
      <4>. QED  BY <4>1 DEF StaysFree
    <3>. QED  BY <2>10, <3>1, <3>2
  <2>. QED  BY <2>9, <2>11
<1>10. CASE ReleaseToWriter(c)
  <2>1. /\ to = "setEvent" /\ grant' = grant /\ readers_entry' = (readers_entry - 1) % Uint32
        /\ writers_waiting' = (writers_waiting - 1) % Uint32
        /\ readers_waiting' = readers_waiting
        /\ lock_count - 1 >= 0 /\ ~PassToReaders /\ readers_entry' = 0
    BY <1>2, <1>10 DEF ReleaseToWriter, Goto, IInv, TypeOK
  <2>2. readers_entry = 1
    BY <2>1, Modular, Numbers
  <2>3. Sharing
    <3>1. ~Exclusive /\ ~Stuck
      BY <1>2, <2>2, Numbers DEF Exclusive, Stuck, Passed
    <3>. QED  BY <3>1, Numbers DEF Balance
  <2>4. IsReader(c) /\ InsideW = 0 /\ Handed = 0 /\ InsideR = 1 /\ Posts = 0
    BY <1>2, <2>2, <2>3, Numbers DEF Sharing, Passed
  <2>5. writers_waiting > 0
    <3>1. writers_waiting + readers_waiting > 0
      BY <2>1, <2>4, Numbers DEF Balance, Sums
    <3>. QED  BY <2>3, <3>1, Numbers DEF Sharing
  <2>6. writers_waiting' = writers_waiting - 1
    BY <2>1, <2>5, Modular, Numbers
  <2>7. Handed' = 1 /\ Posts' = 0 /\ InsideR' = 0 /\ InsideW' = 0
    BY <1>2, <1>5, <1>6, <2>1, <2>4
  <2>8. Sums'
    <3>1. lock_count' = lock_count - 1 /\ WaitingR' = WaitingR /\ WaitingW' = WaitingW
      BY <1>2, <1>3
    <3>2. /\ lock_count = WaitingR + WaitingW
          /\ writers_waiting = WaitingW /\ readers_waiting = WaitingR
      BY <2>4, Numbers DEF Balance, Sums
    <3>. QED  BY <2>1, <2>5, <2>6, <2>7, <3>1, <3>2, Numbers DEF Sums
  <2>9. Exclusive'
    BY <2>1, <2>7 DEF Exclusive, Passed
  <2>10. TypeOK'
    BY <1>2, <1>3, <2>1, <2>5, <2>6, Numbers DEF TypeOK
  <2>11. IInv'
    BY <1>6, <2>1, <2>8, <2>9, <2>10 DEF IInv, Balance
  <2>. QED  BY <2>9, <2>11, NotStuck
<1>. QED  BY <1>7, <1>8, <1>9, <1>10 DEF Release

(* A release that gives the signal it owes.                                *)
LEMMA SignalStep ==
  ASSUME IInv, NEW c \in Client, Signal(c)
  PROVE  IInv' /\ StaysFree
<1>. USE DEF counters
<1>1. UNCHANGED counters
  BY DEF Signal, PostReaders, SetWriterEvent
<1>2. CASE PostReaders(c)
  <2>1. /\ At("post")' = At("post") \ {c} /\ Signals' = Signals /\ pc' \in [Client -> PCs]
        /\ pc[c] = "post" /\ InsideR' = InsideR /\ InsideW' = InsideW
        /\ WaitingR' = WaitingR /\ WaitingW' = WaitingW
    <3>1. Goto(c, "post", "out")
      BY <1>2 DEF PostReaders
    <3>. QED  BY <3>1, Shift, Numbers DEF IInv, PCs, Delta
  <2>2. At("post") = {c} /\ Posting = grant[c]
    BY <2>1, PostingValue DEF IInv, At
  <2>3. At("post")' = {}
    BY <2>1, <2>2
  <2>4. OnePost' /\ Posting' = 0
    BY <2>3 DEF OnePost, Posting
  <2>5. Posts' = Posts /\ Handed' = Handed
    BY <1>2, <2>1, <2>2, <2>4, Numbers DEF PostReaders, Posts, Handed, Signals
  <2>6. Balance' /\ StaysFree
    BY <1>1, <2>1, <2>5, Numbers
    DEF Balance, Sums, Exclusive, Sharing, Stuck, Passed, StaysFree
  <2>7. grant[c] \in Nat /\ grant' \in [Client -> Nat]
    BY <1>2, Numbers DEF PostReaders, TypeOK
  <2>8. reader_semaphore' \in Nat /\ writer_event' = writer_event
    BY <1>2, <2>7, Numbers DEF PostReaders
  <2>9. TypeOK'
    BY <1>1, <2>1, <2>7, <2>8, Numbers DEF TypeOK
  <2>. QED  BY <2>4, <2>6, <2>9 DEF IInv
<1>3. CASE SetWriterEvent(c)
  <2>1. /\ At("post")' = At("post") /\ Signals' = Signals - 1 /\ pc' \in [Client -> PCs]
        /\ InsideR' = InsideR /\ InsideW' = InsideW
        /\ WaitingR' = WaitingR /\ WaitingW' = WaitingW
    <3>1. Goto(c, "setEvent", "out")
      BY <1>3 DEF SetWriterEvent
    <3>. QED  BY <3>1, Shift, Numbers DEF IInv, PCs, Delta, At
  <2>2. OnePost' /\ Posts' = Posts
    BY <1>3, <2>1 DEF SetWriterEvent, OnePost, Posting, Posts, IInv
  <2>3. Signals > 0 /\ ~writer_event
    <3>1. Signals' \in Nat
      <4>1. At("setEvent")' \in SUBSET Client
        BY DEF At
      <4>. QED  BY <4>1, CountsNat DEF Signals
    <3>2. Signals > 0
      BY <2>1, <3>1, Numbers
    <3>3. Handed <= 1
      BY Numbers DEF Balance, Exclusive, Sharing, Stuck, Passed
    <3>. QED  BY <3>2, <3>3, Numbers
  <2>4. Handed' = Handed
    BY <1>3, <2>1, <2>3, Numbers DEF SetWriterEvent, Handed, Signals
  <2>5. Balance' /\ StaysFree
    BY <1>1, <2>1, <2>2, <2>4, Numbers
    DEF Balance, Sums, Exclusive, Sharing, Stuck, Passed, StaysFree
  <2>6. TypeOK'
    BY <1>1, <1>3, <2>1 DEF SetWriterEvent, IInv, TypeOK
  <2>. QED  BY <2>2, <2>5, <2>6 DEF IInv
<1>. QED  BY <1>2, <1>3 DEF Signal

(* The invariant is kept by every step.                                    *)
LEMMA Kept == IInv /\ [Next]_vars => IInv' /\ StaysFree
<1>. SUFFICES ASSUME IInv, [Next]_vars
              PROVE  IInv' /\ StaysFree
  OBVIOUS
<1>1. CASE UNCHANGED vars
  BY <1>1 DEF vars, IInv, TypeOK, OnePost, Balance, Sums, Exclusive, Sharing, Stuck, Passed,
              Handed, Posts, Posting, InsideR, InsideW, WaitingR, WaitingW, At, Readers, Writers,
              StaysFree
<1>2. CASE Next
  BY <1>2, AcquireStep, WakeStep, ReleaseStep, SignalStep DEF Next
<1>. QED  BY <1>1, <1>2

------------------------------------------------------------------------------
(* The lock excludes: a writer inside is alone, for any number of clients. *)
THEOREM Excludes == Spec => []Exclusion
<1>1. IInv => Exclusion
  <2>. SUFFICES ASSUME IInv, NEW w \in Writers("in")
                PROVE  At("in") = {w}
    BY DEF Exclusion
  <2>. USE DEF At, Readers, Writers
  <2>1. /\ Readers("in") \in SUBSET Client /\ Writers("in") \in SUBSET Client
        /\ w \in Client /\ ~IsReader(w) /\ pc[w] = "in"
    OBVIOUS
  <2>2. InsideW = 1 /\ InsideR = 0
    <3>1. InsideW > 0
      BY <2>1, Counted
    <3>. QED  BY <3>1, Numbers DEF Balance, Exclusive, Sharing, Stuck, Passed
  <2>3. Readers("in") = {}
    BY <2>1, <2>2, CountsNat, FS_EmptySet DEF InsideR
  <2>4. PICK x : Writers("in") = {x}
    BY <2>1, <2>2, CountsNat, FS_Singleton DEF InsideW
  <2>. QED  BY <2>1, <2>3, <2>4
<1>. QED  BY Start, Kept, <1>1, PTL DEF Spec

(* The counters tell the number of clients and of grants, also when a      *)
(* counter has wrapped.                                                    *)
THEOREM Counts == Spec => []CountsExact
<1>1. IInv => CountsExact
  <2>. SUFFICES ASSUME IInv
                PROVE  LockCountExact /\ GrantsMatchWaiters
    BY DEF IInv, CountsExact
  <2>1. LockCountExact
    BY Total, Numbers DEF TypeOK, Balance, Sums, LockCountExact
  <2>2. At("setEvent") \in SUBSET Client /\ At("post") \in SUBSET Client
    BY DEF At
  <2>3. Cardinality(At("post")) <= 1
    <3>1. CASE At("post") = {}
      BY <3>1, FS_EmptySet
    <3>2. ASSUME NEW c \in At("post")
          PROVE  Cardinality(At("post")) <= 1
      <4>1. At("post") = {c}
        BY PostingValue DEF IInv
      <4>. QED  BY <4>1, FS_Singleton
    <3>. QED  BY <3>1, <3>2
  <2>4. At("setEvent") # {} \/ writer_event => At("post") = {} /\ reader_semaphore = 0
    <3>1. At("setEvent") # {} => Signals # 0
      BY <2>2, CountsNat, FS_EmptySet DEF Signals
    <3>2. At("setEvent") # {} \/ writer_event => Posts = 0
      BY <3>1, Numbers DEF Balance, Exclusive, Sharing, Stuck, Passed
    <3>3. Posts = 0 => Posting = 0 /\ reader_semaphore = 0
      BY Numbers DEF Posts
    <3>. QED  BY <3>2, <3>3, Numbers, PostingValue
  <2>5. Handed <= WaitingW /\ Posts <= WaitingR
    BY DEF IInv, Balance, Sums
  <2>. QED  BY <2>1, <2>3, <2>4, <2>5
            DEF GrantsMatchWaiters, Handed, Posts, Posting, WaitingR, WaitingW, At
<1>. QED  BY Start, Kept, <1>1, PTL DEF Spec

(* While writers do not compete, nobody waits for a lock that nobody will  *)
(* hand over: the underflow of readers_entry needs a writer that leaves    *)
(* while another one waits (ExReleaseReadWriteLock).                       *)
THEOREM Unstranded == Spec /\ []OneWriter => []NoStrandedWaiter
<1>1. Init => ~Stuck
  BY UintAssumption DEF Init, Stuck
<1>2. IInv /\ OneWriter /\ ~Stuck /\ [Next]_vars => ~Stuck'
  <2>. SUFFICES ASSUME IInv, OneWriter, InsideW > 0, writers_waiting > 0
                PROVE  FALSE
    BY Kept DEF StaysFree
  <2>1. InsideW + WaitingW <= 1
    <3>1. Writers("in") \in SUBSET Client /\ Writers("wait") \in SUBSET Client
          /\ Writers("in") \cap Writers("wait") = {}
      BY DEF Writers, At
    <3>2. IsFiniteSet(Writers("in")) /\ IsFiniteSet(Writers("wait"))
      BY <3>1, CountsNat
    <3>3. Cardinality(Writers("in") \cup Writers("wait"))
            = InsideW + WaitingW - Cardinality(Writers("in") \cap Writers("wait"))
      BY <3>2, FS_Union DEF InsideW, WaitingW
    <3>4. Cardinality(Writers("in") \cap Writers("wait")) = 0
      BY <3>1, FS_EmptySet
    <3>5. Cardinality(Writers("in") \cup Writers("wait")) <= 1
      BY DEF OneWriter
    <3>. QED  BY <3>3, <3>4, <3>5, Numbers
  <2>2. WaitingW > 0
    BY Numbers DEF IInv, Balance, Sums
  <2>. QED  BY <2>1, <2>2, Numbers
<1>3. IInv /\ ~Stuck => NoStrandedWaiter
  <2>. SUFFICES ASSUME IInv, ~Stuck, At("in") = {}, At("post") = {}, At("setEvent") = {},
                       ~writer_event, reader_semaphore = 0
                PROVE  At("wait") = {}
    BY Numbers DEF NoStrandedWaiter
  <2>1. InsideR = 0 /\ InsideW = 0
    <3>1. Readers("in") = {} /\ Writers("in") = {}
      BY DEF Readers, Writers
    <3>. QED  BY <3>1, FS_EmptySet DEF InsideR, InsideW
  <2>2. Handed = 0 /\ Posts = 0
    BY FS_EmptySet DEF Handed, Posts, Posting
  <2>3. Sharing
    BY <2>1, <2>2 DEF IInv, Balance, Exclusive, Passed
  <2>4. lock_count = -1 /\ Sums
    BY <2>1, <2>2, <2>3 DEF Sharing, IInv, Balance
  <2>5. WaitingR = 0 /\ WaitingW = 0
    BY <2>1, <2>4, Numbers DEF Sums
  <2>6. Readers("wait") = {} /\ Writers("wait") = {}
    <3>1. Readers("wait") \in SUBSET Client /\ Writers("wait") \in SUBSET Client
      BY DEF Readers, Writers, At
    <3>. QED  BY <2>5, <3>1, CountsNat, FS_EmptySet DEF WaitingR, WaitingW
  <2>. QED  BY <2>6 DEF Writers
<1>. QED  BY <1>1, <1>2, <1>3, Start, Kept, PTL DEF Spec
==============================================================================
