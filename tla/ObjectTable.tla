----------------------------- MODULE ObjectTable -----------------------------
(***************************************************************************)
(* Handles, reference counts and names of kernel objects:                  *)
(*   kernel/util/object_table.cc     the table of handles and of names     *)
(*   kernel/xobject.cc               the two reference counts of an object *)
(*   kernel/xboxkrnl/xboxkrnl_ob.cc, xboxkrnl_threading.cc                 *)
(*                                   the exports guest threads call        *)
(*                                                                         *)
(* An object is deleted when its pointer count is zero.  The table holds   *)
(* one such count per handle, host code one per object_ref.  A handle is   *)
(* removed when its own count is zero; that count is the guest's: one per  *)
(* time it was given the handle, and one per pointer it was given.  A      *)
(* handle is its slot in the table.                                        *)
(***************************************************************************)
EXTENDS Integers, Sequences, FiniteSets, SequencesExt

CONSTANTS
  Callers,          \* guest threads
  Objects,          \* addresses of kernel objects, used again after deletion
  Names,            \* names of objects
  None,             \* no object, no name
  InitialCapacity,  \* slots of the first table: 16 * 1024 in the code
  MaxCapacity,      \* bound: the table does not grow beyond it
  MaxOwned,         \* bound: how often a thread is given a handle or a pointer
  Careful           \* whether the guest keeps off the cases in Hurry below

ASSUME CapacityAssumption ==
  InitialCapacity \in Nat \ {0, 1} /\ MaxCapacity \in Nat \ {0}
ASSUME CallersAssumption == IsFiniteSet(Callers)

Slots == 0 .. MaxCapacity - 1

ASSUME NoneAssumption == None \notin Objects \cup Names \cup Slots

VARIABLES
  capacity,   \* table_capacity_
  lastFree,   \* last_free_entry_
  object,     \* ObjectTableEntry::object of each slot
  count,      \* ObjectTableEntry::handle_ref_count
  names,      \* name_table_
  refs,       \* pointer_ref_count_; zero for an object that is deleted
  handles,    \* XObject::handles_
  name,       \* XObject::name_
  stash,      \* the handle in the dispatch header guest code points to
  call,       \* what each thread is in the middle of
  owns,       \* history: handles each thread has been given and not closed
  pins        \* history: pointers each thread has been given

table == <<capacity, lastFree, object, count, names>>
objects == <<refs, handles, name, stash>>
objectVars == <<table, objects, call, owns, pins>>

AtRest == [at |-> "idle", name |-> None, handle |-> 0, object |-> None]

ObjectTypeOK ==
  /\ capacity \in 0 .. MaxCapacity /\ lastFree \in 0 .. capacity
  /\ object \in [Slots -> Objects \cup {None}] /\ count \in [Slots -> Int]
  /\ names \in [Names -> Slots \cup {None}]
  /\ refs \in [Objects -> Nat] /\ handles \in [Objects -> Seq(Slots)]
  /\ name \in [Objects -> Names \cup {None}] /\ stash \in [Objects -> Slots]
  /\ call \in [Callers -> [at : {"idle", "find", "unretain", "retain", "new", "name",
                                 "fail", "add", "release", "close", "pin", "unpin",
                                 "drop"},
                           name : Names \cup {None}, handle : Slots,
                           object : Objects \cup {None}]]
  /\ owns \in [Callers -> [Slots -> [Objects -> Nat]]]
  /\ pins \in [Callers -> [Objects -> Nat]]

ObjectInit ==
  /\ capacity = 0 /\ lastFree = 0
  /\ object = [h \in Slots |-> None] /\ count = [h \in Slots |-> 0]
  /\ names = [n \in Names |-> None]
  /\ refs = [o \in Objects |-> 0] /\ handles = [o \in Objects |-> <<>>]
  /\ name = [o \in Objects |-> None] /\ stash = [o \in Objects |-> 0]
  /\ call = [t \in Callers |-> AtRest]
  /\ owns = [t \in Callers |-> [h \in Slots |-> [o \in Objects |-> 0]]]
  /\ pins = [t \in Callers |-> [o \in Objects |-> 0]]

------------------------------------------------------------------------------
(* The table, each operation in one critical section of the global lock.   *)

GoTo(t, at) == call' = [call EXCEPT ![t].at = at]
Hold(t, at, o) == call' = [call EXCEPT ![t].at = at, ![t].object = o]
Own(t, h, o, n) == owns' = [owns EXCEPT ![t][h][o] = @ + n]

\* handles_[0]; of an empty vector it is whatever its memory holds.
Primaries(o) ==
  IF handles[o] = <<>> THEN 0 .. capacity - 1 ELSE {Head(handles[o])}

\* FindFreeSlot: the first free one from last_free_entry_ on, round the table.
FreeSlot ==
  CHOOSE h \in {s \in 0 .. capacity - 1 : object[s] = None} :
    \A s \in 0 .. capacity - 1 :
      object[s] = None => (h - lastFree) % capacity <= (s - lastFree) % capacity

\* AddHandle: the table grows when it is full.  `extra' is the constructor's
\* own pointer, for an object that is being made.
AddHandle(o, extra, h) ==
  /\ IF \E s \in 0 .. capacity - 1 : object[s] = None
       THEN h = FreeSlot /\ UNCHANGED <<capacity, lastFree>>
       ELSE /\ h = capacity
            /\ capacity' = Max({InitialCapacity, 2 * capacity})
            /\ capacity' <= MaxCapacity
            /\ lastFree' = capacity + 1
  /\ object' = [object EXCEPT ![h] = o]
  /\ count' = [count EXCEPT ![h] = 1]
  /\ handles' = [handles EXCEPT ![o] = Append(@, h)]
  /\ refs' = [refs EXCEPT ![o] = @ + extra + 1]

\* XObject::Release: the last pointer deletes the object.
Release(o) ==
  /\ refs' = [refs EXCEPT ![o] = @ - 1]
  /\ name' = [name EXCEPT ![o] = IF refs[o] = 1 THEN None ELSE @]
  /\ stash' = [stash EXCEPT ![o] = IF refs[o] = 1 THEN 0 ELSE @]

\* RetainHandle, which does not ask whether the slot is in use.
RetainHandle(h) == count' = [count EXCEPT ![h] = @ + 1]

\* The name stays when its handle goes
RemoveHandle_KeepsName(h) ==
  LET o == object[h] IN
  /\ object' = [object EXCEPT ![h] = None]
  /\ count' = [count EXCEPT ![h] = 0]
  /\ handles' = [handles EXCEPT ![o] = RemoveFirst(@, h)]
  /\ UNCHANGED names /\ Release(o)

\* RemoveHandle: the name goes with the first handle that goes.
RemoveHandle(h) ==
  LET o == object[h] IN
  /\ object' = [object EXCEPT ![h] = None]
  /\ count' = [count EXCEPT ![h] = 0]
  /\ handles' = [handles EXCEPT ![o] = RemoveFirst(@, h)]
  /\ names' = [n \in Names |-> IF n = name[o] THEN None ELSE names[n]]
  /\ Release(o)

ReleaseHandle(h) ==
  IF count[h] = 1 /\ object[h] # None
    THEN RemoveHandle(h)
    ELSE /\ count' = [count EXCEPT ![h] = @ - 1]
         /\ UNCHANGED <<object, names, objects>>

\* The object found is not retained
LookupObject_Bare(t, h, found, missing) ==
  IF object[h] = None THEN GoTo(t, missing) /\ UNCHANGED refs
  ELSE Hold(t, found, object[h]) /\ UNCHANGED refs

\* LookupObject: the caller holds the object from here on.
LookupObject(t, h, found, missing) ==
  IF object[h] = None
    THEN GoTo(t, missing) /\ UNCHANGED refs
    ELSE Hold(t, found, object[h]) /\ refs' = [refs EXCEPT ![object[h]] = @ + 1]

\* XObject::Release at the end of every call that holds an object; of
\* DuplicateHandle, after which the source may be closed.
Drop(t) ==
  /\ call[t].at \in {"drop", "release"}
  /\ Release(call[t].object)
  /\ call' = [call EXCEPT ![t] =
                IF @.at = "drop" THEN AtRest
                ELSE [AtRest EXCEPT !.at = "close", !.handle = call[t].handle]]
  /\ UNCHANGED <<table, handles, owns, pins>>

------------------------------------------------------------------------------
(* NtCreateEvent, NtCreateSemaphore, NtCreateMutant, NtCreateTimer: open    *)
(* the object of that name, or make one.                                   *)

\* GetObjectByName, of LookupNamedObject and, when `keep', of
\* ObOpenObjectByName: the object's first handle is retained.
GetObjectByName(t, n, keep) ==
  /\ call[t] = AtRest
  /\ IF names[n] = None \/ object[names[n]] = None
       THEN UNCHANGED <<count, owns>>
       ELSE \E h \in Primaries(object[names[n]]) :
              /\ RetainHandle(h)
              /\ owns[t][h][object[names[n]]] < MaxOwned
              /\ Own(t, h, object[names[n]], 1)
  /\ IF keep
       THEN UNCHANGED call
       ELSE call' = [call EXCEPT ![t] =
                       [AtRest EXCEPT !.at = IF names[n] = None THEN "new" ELSE "find",
                                    !.name = n,
                                    !.handle = IF names[n] = None THEN 0 ELSE names[n]]]
  /\ UNCHANGED <<capacity, lastFree, object, names, objects, pins>>

\* LookupNamedObject goes on to look the handle up ...
FindNamed(t) ==
  /\ call[t].at = "find"
  /\ LookupObject(t, call[t].handle, "unretain", "new")
  /\ UNCHANGED <<table, handles, name, stash, owns, pins>>

\* ... and gives the handle back, keeping the object.
UnretainNamed(t) ==
  LET o == call[t].object IN
  /\ call[t].at = "unretain"
  /\ \E h \in Primaries(o) : ReleaseHandle(h) /\ Own(t, h, o, -1)
  /\ GoTo(t, "retain")
  /\ UNCHANGED <<capacity, lastFree, pins>>

\* The name exists: the caller gets the object's first handle, unless it has
\* no use for it or the object is of another type.
RetainNamed(t) ==
  LET o == call[t].object IN
  /\ call[t].at = "retain"
  /\ \/ \E h \in Primaries(o) : RetainHandle(h) /\ Own(t, h, o, 1)
     \/ UNCHANGED <<count, owns>>
  /\ GoTo(t, "drop")
  /\ UNCHANGED <<capacity, lastFree, object, names, objects, pins>>

\* The constructor, with its AddHandle.  A nameless object needs no lookup.
\* NtCreateSemaphore fails when Initialize refuses the counts.
Create(t) ==
  /\ call[t].at \in {"idle", "new"}
  /\ \E o \in Objects, h \in Slots, fails \in BOOLEAN :
       /\ refs[o] = 0
       /\ AddHandle(o, 1, h)
       /\ stash' = [stash EXCEPT ![o] = h]
       /\ Own(t, h, o, 1)
       /\ Hold(t, IF fails THEN "fail" ELSE IF call[t].name = None THEN "drop" ELSE "name", o)
  /\ UNCHANGED <<names, name, pins>>

\* The handle of the semaphore that was not initialized is given back.
CreateFails(t) ==
  LET o == call[t].object IN
  /\ call[t].at = "fail"
  /\ \E h \in Primaries(o) : ReleaseHandle(h) /\ Own(t, h, o, -1)
  /\ GoTo(t, "drop")
  /\ UNCHANGED <<capacity, lastFree, pins>>

\* SetAttributes: a name that is taken by now stays with its object.
SetAttributes(t) ==
  LET o == call[t].object  n == call[t].name IN
  /\ call[t].at = "name"
  /\ name' = [name EXCEPT ![o] = n]
  /\ \E h \in Primaries(o) :
       names' = [names EXCEPT ![n] = IF @ = None THEN h ELSE @]
  /\ GoTo(t, "drop")
  /\ UNCHANGED <<capacity, lastFree, object, count, refs, handles, stash, owns, pins>>

------------------------------------------------------------------------------
(* The calls on a handle the thread has.                                   *)

Has(t, h) == \E o \in Objects : owns[t][h][o] > 0

(***************************************************************************)
(* What a careful guest does not do: let the last reference to a handle    *)
(* go while another thread is opening the object by name; close a source   *)
(* it duplicates that others refer to; take the pointer of an object whose *)
(* first handle it has closed.                                             *)
(***************************************************************************)
Openers(h, at) == {u \in Callers : call[u].at \in at /\ call[u].handle = h}
Hurry(h) ==
  /\ Openers(h, {"find", "unretain", "retain"}) # {}
  /\ count[h] - Cardinality(Openers(h, {"find", "unretain"})) = 1
Shared(h) == count[h] > 1 \/ Hurry(h)
Orphan(o) == Primaries(o) # {stash[o]}

\* NtClose.
Close(t, h) ==
  /\ call[t] = AtRest /\ Has(t, h)
  /\ Careful => ~Hurry(h)
  /\ \E o \in Objects : owns[t][h][o] > 0 /\ Own(t, h, o, -1)
  /\ ReleaseHandle(h)
  /\ UNCHANGED <<capacity, lastFree, call, pins>>

\* NtSetEvent, NtWaitForSingleObjectEx and the like; and the first step of
\* NtDuplicateObject and ObReferenceObjectByHandle.
Use(t, h, then) ==
  /\ call[t] = AtRest /\ Has(t, h)
  /\ IF object[h] = None
       THEN UNCHANGED <<call, refs>>
       ELSE /\ refs' = [refs EXCEPT ![object[h]] = @ + 1]
            /\ call' = [call EXCEPT ![t] = [AtRest EXCEPT !.at = then, !.handle = h,
                                                        !.object = object[h]]]
  /\ UNCHANGED <<table, handles, name, stash, owns, pins>>

\* DuplicateHandle, its AddHandle.
Duplicate(t) ==
  LET o == call[t].object IN
  /\ call[t].at = "add"
  /\ \E h \in Slots, then \in {"drop", "release"} :
       AddHandle(o, 0, h) /\ Own(t, h, o, 1) /\ GoTo(t, then)
  /\ UNCHANGED <<names, name, stash, pins>>

\* With DUPLICATE_CLOSE_SOURCE the source is removed, whatever its count.
CloseSource(t) ==
  LET h == call[t].handle  o == object[h] IN
  /\ call[t].at = "close"
  /\ o # None /\ owns[t][h][o] > 0
  /\ Careful => ~Shared(h)
  /\ RemoveHandle(h) /\ Own(t, h, o, -1)
  /\ call' = [call EXCEPT ![t] = AtRest]
  /\ UNCHANGED <<capacity, lastFree, pins>>

\* ObReferenceObjectByHandle: a pointer counts as one of the first handle.
Reference(t) ==
  LET o == call[t].object IN
  /\ call[t].at = "pin"
  /\ pins[t][o] < MaxOwned
  /\ Careful => ~Orphan(o)
  /\ \E h \in Primaries(o) : RetainHandle(h)
  /\ pins' = [pins EXCEPT ![t][o] = @ + 1]
  /\ GoTo(t, "drop")
  /\ UNCHANGED <<capacity, lastFree, object, names, objects, owns>>

\* ObDereferenceObject: GetNativeObject goes by the handle in the header.
Dereference(t, o) ==
  /\ call[t] = AtRest /\ pins[t][o] > 0
  /\ pins' = [pins EXCEPT ![t][o] = @ - 1]
  /\ LookupObject(t, stash[o], "unpin", "idle")
  /\ UNCHANGED <<table, handles, name, stash, owns>>

Unpin(t) ==
  /\ call[t].at = "unpin"
  /\ \E h \in Primaries(call[t].object) : (Careful => ~Hurry(h)) /\ ReleaseHandle(h)
  /\ GoTo(t, "drop")
  /\ UNCHANGED <<capacity, lastFree, owns, pins>>

ObjectNext ==
  \/ \E t \in Callers, n \in Names : \E keep \in BOOLEAN : GetObjectByName(t, n, keep)
  \/ \E t \in Callers : \/ FindNamed(t) \/ UnretainNamed(t) \/ RetainNamed(t)
                        \/ Create(t) \/ CreateFails(t) \/ SetAttributes(t)
                        \/ Duplicate(t) \/ CloseSource(t) \/ Reference(t)
                        \/ Unpin(t) \/ Drop(t)
  \/ \E t \in Callers, h \in Slots : Close(t, h)
  \/ \E t \in Callers, h \in Slots, then \in {"drop", "add", "pin"} : Use(t, h, then)
  \/ \E t \in Callers, o \in Objects : Dereference(t, o)

ObjectSpec == ObjectInit /\ [][ObjectNext]_objectVars
------------------------------------------------------------------------------
(* Properties.                                                             *)

\* The pointer count of an object is the number of handles and of calls that
\* have it: nobody holds a deleted object, and one nobody holds is deleted
\* (object_table.cc:119-247, xobject.cc:83-89).
PointersExact ==
  \A o \in Objects :
    refs[o] = Cardinality({h \in Slots : object[h] = o})
                + Cardinality({t \in Callers : call[t].object = o})

\* The sum of the numbers that f gives the callers.
Total(f) == Cardinality(UNION {{t} \X (1 .. f[t]) : t \in Callers})
Owned(h, o) == Total([t \in Callers |-> owns[t][h][o]])
Pinned(o) ==
  Total([t \in Callers |->
           pins[t][o] + IF call[t].at = "unpin" /\ call[t].object = o THEN 1 ELSE 0])

\* A handle is open, and refers to the object the guest knows by it, as long
\* as a thread has it or a pointer through it; no longer, though other
\* handles of the object and its name come and go (object_table.cc:177-247).
HandlesExact ==
  \A h \in Slots, o \in Objects :
    IF object[h] = o
      THEN /\ count[h] = Owned(h, o) + (IF h = Head(handles[o]) THEN Pinned(o) ELSE 0)
           /\ count[h] > 0
      ELSE Owned(h, o) = 0

\* Both counts at once, in well-typed states: what is closed or dereferenced
\* last is deleted, and nothing before.
CountsExact == ObjectTypeOK /\ PointersExact /\ HandlesExact

\* A name leads to the first handle, still open, of an object with that name
\* (object_table.cc:239-241, 395-433).
NamesResolve ==
  \A n \in Names : names[n] # None =>
    LET o == object[names[n]] IN
    o # None /\ name[o] = n /\ names[n] = Head(handles[o])
==============================================================================
