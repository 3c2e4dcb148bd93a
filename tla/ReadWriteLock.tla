---------------------------- MODULE ReadWriteLock -----------------------------
(***************************************************************************)
(* The kernel's X_ERWLOCK (xboxkrnl_threading.cc): a lock for one writer   *)
(* or several readers, kept in guest memory.  The counters change under    *)
(* spin_lock, one action per critical section; a release that passes the   *)
(* lock on signals writer_event or reader_semaphore after it has left the  *)
(* spinlock, in a step of its own.                                         *)
(***************************************************************************)
EXTENDS Integers, FiniteSets

CONSTANTS Reader,     \* guest threads that take the lock shared
          Writer,     \* guest threads that take it exclusive
          Uint32      \* 2^32, the modulus of the unsigned counters

ASSUME UintAssumption == Uint32 \in Nat /\ Uint32 > 1

VARIABLES
  lock_count,
  writers_waiting,
  readers_waiting,
  readers_entry,
  writer_event,      \* auto-reset event
  reader_semaphore,  \* its count
  pc,                \* per thread and role
  grant              \* readers a release is about to let in

vars == <<lock_count, writers_waiting, readers_waiting, readers_entry,
          writer_event, reader_semaphore, pc, grant>>

counters == <<lock_count, writers_waiting, readers_waiting, readers_entry>>
signals == <<writer_event, reader_semaphore>>

\* A thread of both sets is two clients; it does not nest the two modes.
Client == {<<"reader", t>> : t \in Reader} \cup {<<"writer", t>> : t \in Writer}
IsReader(c) == c[1] = "reader"

ASSUME ClientAssumption == IsFiniteSet(Client) /\ Cardinality(Client) < Uint32

PCs == {"out", "wait", "in",
        "setEvent",  \* released, about to set writer_event
        "post"}      \* released, about to release reader_semaphore

Goto(c, from, to) == pc[c] = from /\ pc' = [pc EXCEPT ![c] = to]

\* ExInitializeReadWriteLock
Init == /\ lock_count = -1
        /\ writers_waiting = 0 /\ readers_waiting = 0 /\ readers_entry = 0
        /\ writer_event = FALSE /\ reader_semaphore = 0
        /\ pc = [c \in Client |-> "out"]
        /\ grant = [c \in Client |-> 0]
------------------------------------------------------------------------------
AcquireExclusive(w) ==
  /\ ~IsReader(w)
  /\ lock_count' = lock_count + 1
  /\ \/ /\ lock_count' = 0
        /\ Goto(w, "out", "in")
        /\ UNCHANGED writers_waiting
     \/ /\ lock_count' # 0
        /\ Goto(w, "out", "wait")
        /\ writers_waiting' = (writers_waiting + 1) % Uint32
  /\ UNCHANGED <<readers_waiting, readers_entry, signals, grant>>

\* xeKeWaitForSingleObject on the auto-reset event
WakeWriter(w) ==
  /\ ~IsReader(w)
  /\ writer_event
  /\ writer_event' = FALSE
  /\ Goto(w, "wait", "in")
  /\ UNCHANGED <<counters, reader_semaphore, grant>>

\* Mutant: takes 0 for a free lock.
TryAcquireExclusive_OffByOne(w) ==
  /\ ~IsReader(w)
  /\ lock_count =< 0
  /\ lock_count' = 0
  /\ Goto(w, "out", "in")
  /\ UNCHANGED <<writers_waiting, readers_waiting, readers_entry, signals, grant>>

\* A failed try changes nothing.
TryAcquireExclusive(w) ==
  /\ ~IsReader(w)
  /\ lock_count < 0
  /\ lock_count' = 0
  /\ Goto(w, "out", "in")
  /\ UNCHANGED <<writers_waiting, readers_waiting, readers_entry, signals, grant>>

ReadersAdmitted == readers_entry # 0 /\ writers_waiting = 0

AcquireShared(r) ==
  /\ IsReader(r)
  /\ lock_count' = lock_count + 1
  /\ \/ /\ lock_count' = 0 \/ ReadersAdmitted
        /\ Goto(r, "out", "in")
        /\ readers_entry' = (readers_entry + 1) % Uint32
        /\ UNCHANGED readers_waiting
     \/ /\ lock_count' # 0 /\ ~ReadersAdmitted
        /\ Goto(r, "out", "wait")
        /\ readers_waiting' = (readers_waiting + 1) % Uint32
        /\ UNCHANGED readers_entry
  /\ UNCHANGED <<writers_waiting, signals, grant>>

WakeReader(r) ==
  /\ IsReader(r)
  /\ reader_semaphore > 0
  /\ reader_semaphore' = reader_semaphore - 1
  /\ Goto(r, "wait", "in")
  /\ UNCHANGED <<counters, writer_event, grant>>

TryAcquireShared(r) ==
  /\ IsReader(r)
  /\ lock_count < 0 \/ ReadersAdmitted
  /\ lock_count' = lock_count + 1
  /\ readers_entry' = (readers_entry + 1) % Uint32
  /\ Goto(r, "out", "in")
  /\ UNCHANGED <<writers_waiting, readers_waiting, signals, grant>>
------------------------------------------------------------------------------
(* ExReleaseReadWriteLock, the same for readers and writers; the four ways *)
(* out of its critical section.                                            *)

ReleaseLast(c) ==
  /\ lock_count - 1 < 0
  /\ lock_count' = lock_count - 1
  /\ readers_entry' = 0
  /\ Goto(c, "in", "out")
  /\ UNCHANGED <<writers_waiting, readers_waiting, signals, grant>>

PassToReaders == readers_entry = 0 /\ readers_waiting # 0

\* Mutant: the waiting count is not reset.
ReleaseToReaders_KeepsCount(c) ==
  /\ lock_count - 1 >= 0 /\ PassToReaders
  /\ lock_count' = lock_count - 1
  /\ readers_entry' = readers_waiting
  /\ grant' = [grant EXCEPT ![c] = readers_waiting]
  /\ Goto(c, "in", "post")
  /\ UNCHANGED <<writers_waiting, readers_waiting, signals>>

\* Mutant: one waiting reader is let in, the whole batch is counted.
ReleaseToReaders_PostsOne(c) ==
  /\ lock_count - 1 >= 0 /\ PassToReaders
  /\ lock_count' = lock_count - 1
  /\ readers_entry' = readers_waiting
  /\ readers_waiting' = 0
  /\ grant' = [grant EXCEPT ![c] = 1]
  /\ Goto(c, "in", "post")
  /\ UNCHANGED <<writers_waiting, signals>>

ReleaseToReaders(c) ==
  /\ lock_count - 1 >= 0 /\ PassToReaders
  /\ lock_count' = lock_count - 1
  /\ readers_entry' = readers_waiting
  /\ readers_waiting' = 0
  /\ grant' = [grant EXCEPT ![c] = readers_waiting]
  /\ Goto(c, "in", "post")
  /\ UNCHANGED <<writers_waiting, signals>>

ReleaseShared(c) ==
  /\ lock_count - 1 >= 0 /\ ~PassToReaders
  /\ lock_count' = lock_count - 1
  /\ readers_entry' = (readers_entry - 1) % Uint32
  /\ readers_entry' # 0
  /\ Goto(c, "in", "out")
  /\ UNCHANGED <<writers_waiting, readers_waiting, signals, grant>>

ReleaseToWriter(c) ==
  /\ lock_count - 1 >= 0 /\ ~PassToReaders
  /\ lock_count' = lock_count - 1
  /\ readers_entry' = (readers_entry - 1) % Uint32
  /\ readers_entry' = 0
  /\ writers_waiting' = (writers_waiting - 1) % Uint32
  /\ Goto(c, "in", "setEvent")
  /\ UNCHANGED <<readers_waiting, signals, grant>>

\* xeKeReleaseSemaphore
PostReaders(c) ==
  /\ Goto(c, "post", "out")
  /\ reader_semaphore' = reader_semaphore + grant[c]
  /\ grant' = [grant EXCEPT ![c] = 0]
  /\ UNCHANGED <<counters, writer_event>>

\* xeKeSetEvent
SetWriterEvent(c) ==
  /\ Goto(c, "setEvent", "out")
  /\ writer_event' = TRUE
  /\ UNCHANGED <<counters, reader_semaphore, grant>>
------------------------------------------------------------------------------
Acquire(c) == \/ AcquireExclusive(c) \/ TryAcquireExclusive(c)
              \/ AcquireShared(c) \/ TryAcquireShared(c)

Wake(c) == WakeWriter(c) \/ WakeReader(c)

Release(c) == \/ ReleaseLast(c) \/ ReleaseToReaders(c)
              \/ ReleaseShared(c) \/ ReleaseToWriter(c)

Signal(c) == PostReaders(c) \/ SetWriterEvent(c)

Next == \E c \in Client : Acquire(c) \/ Wake(c) \/ Release(c) \/ Signal(c)

Spec == Init /\ [][Next]_vars

(* A client inside the lock leaves it, a release that owes a signal gives  *)
(* it, and a signalled waiter runs; the kernel chooses which one wakes, so *)
(* the choice must not fall on the same others for ever (strong fairness). *)
Fairness == \A c \in Client : /\ WF_vars(Release(c)) /\ WF_vars(Signal(c))
                              /\ SF_vars(Wake(c))

FairSpec == Spec /\ Fairness
------------------------------------------------------------------------------
At(place) == {c \in Client : pc[c] = place}
Readers(place) == {c \in At(place) : IsReader(c)}
Writers(place) == At(place) \ Readers(place)

TypeOK == /\ lock_count \in Int
          /\ {writers_waiting, readers_waiting, readers_entry} \subseteq 0..(Uint32 - 1)
          /\ writer_event \in BOOLEAN /\ reader_semaphore \in Nat
          /\ pc \in [Client -> PCs]
          /\ grant \in [Client -> Nat]

(* A writer inside the lock is alone, through all the ways in: free lock,  *)
(* try, hand-over by event and admission of a batch of readers.            *)
Exclusion == \A w \in Writers("in") : At("in") = {w}

(* lock_count tells the number of clients that hold or want the lock.      *)
LockCountExact ==
  lock_count + 1 = Cardinality(At("in") \cup At("wait"))

(* The wake-ups on their way never exceed the waiters they are meant for,  *)
(* and the lock is not handed to a writer and to readers at once.          *)
GrantsMatchWaiters ==
  LET handed == {c \in Client : pc[c] = "setEvent"}
      posts == reader_semaphore
               + (IF At("post") = {} THEN 0 ELSE grant[CHOOSE c \in At("post") : TRUE])
  IN /\ Cardinality(handed) + (IF writer_event THEN 1 ELSE 0) =< Cardinality(Writers("wait"))
     /\ Cardinality(At("post")) =< 1
     /\ posts =< Cardinality(Readers("wait"))
     /\ (handed # {} \/ writer_event) => At("post") = {} /\ reader_semaphore = 0

(* The counts of a well-typed state, taken together.                       *)
CountsExact == TypeOK /\ LockCountExact /\ GrantsMatchWaiters

(* Nobody is stranded: while a client waits, another is inside the lock or *)
(* a wake-up is on its way.  (True as long as no two writers compete.)     *)
NoStrandedWaiter ==
  At("wait") # {} => \/ At("in") \cup At("post") \cup At("setEvent") # {}
                     \/ writer_event \/ reader_semaphore > 0

(* As long as writers do not compete, a waiting writer and a waiting       *)
(* reader get the lock in the end: arriving readers queue behind a waiting *)
(* writer, and a leaving writer lets the waiting readers in first.         *)
OneWriter == Cardinality(Writers("in") \cup Writers("wait")) =< 1

WaitersEnter == []OneWriter => \A c \in Client : pc[c] = "wait" ~> pc[c] = "in"
==============================================================================
