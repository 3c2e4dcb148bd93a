---------------------------- MODULE SharedMemory ----------------------------
(***************************************************************************)
(* The GPU's copy of guest memory and how it is kept up to date:           *)
(*   gpu/shared_memory.cc    which pages of the copy are valid             *)
(*   memory.cc               PhysicalHeap, the guest's views of physical   *)
(*                           memory and their write watches                *)
(*   gpu/texture_cache.cc    textures made from the copy                   *)
(*                                                                         *)
(* The guest writes memory with plain stores from many threads.  The one   *)
(* command processor thread uploads the pages a draw needs, and before it  *)
(* reads a page it write-protects it in every view; a store then faults,   *)
(* and the handler invalidates the page, fires the watches of the textures *)
(* on it and lifts the protection.  Contents are abstracted to what the    *)
(* properties tell apart: whether a copy holds the newest data of a page.  *)
(***************************************************************************)
EXTENDS Naturals, FiniteSets

CONSTANTS
  NumPages,       \* pages of physical memory
  BlockSize,      \* pages per 64-bit word of flags: 64 in the code
  Views,          \* the guest's physical heaps, vA0000000, vC0000000, vE0000000
  Guests,         \* threads that store to memory
  Textures,
  PagesOf,        \* [Textures -> SUBSET Pages], an interval each
  Allocations,    \* page ranges the guest allocates, protects and frees
  Reads           \* page ranges file reads fill

Pages == 0 .. NumPages - 1

ASSUME SizesAssumption ==
  NumPages \in Nat \ {0} /\ BlockSize \in Nat \ {0}
ASSUME PagesOfAssumption == PagesOf \in [Textures -> SUBSET Pages]
ASSUME AllocationsAssumption == Allocations \cup Reads \subseteq SUBSET Pages

\* The page ranges a call may name.
Ranges == {a .. z : a, z \in Pages} \ {{}}

VARIABLES
  access,          \* current_protect of the page table of each view
  readOnly,        \* pages the host has write-protected, per view
  notify,          \* notify_on_invalidation, per view
  valid,           \* system_page_flags_valid_
  gpuWritten,      \* system_page_flags_valid_and_gpu_written_
  fresh,           \* pages whose newest data the GPU's copy holds
  gpuOnly,         \* of these, pages whose newest data guest memory lacks
  unseen,          \* history: pages made writable while they were valid and
                   \* had no watch, and not invalidated or uploaded since
  outdated,        \* textures with base_outdated_, which have no watch
  becameOutdated,  \* texture_became_outdated_
  inSync,          \* textures whose binding is in sync
  texFresh,        \* pages of a texture whose newest data the texture holds
  late,            \* history: pages written since the draw's textures were
                   \* requested
  lost,            \* history: pages of a texture it was not told of, because
                   \* it was being loaded, its load failed, or no watch was set
  guest,           \* what each guest thread is in the middle of
  cp               \* what the command processor is in the middle of

memVars == <<access, readOnly, notify>>
gpuVars == <<valid, gpuWritten, fresh, gpuOnly, unseen>>
texVars == <<outdated, becameOutdated, inSync, texFresh, late, lost>>
vars == <<memVars, gpuVars, texVars, guest, cp>>

Idle == [at |-> "idle"]
CpIdle == [at |-> "idle", load |-> {}, cur |-> {}, loaded |-> {}, bound |-> {},
           todo |-> {}, piece |-> {}, left |-> {}, gpu |-> FALSE]

MemOK ==
  /\ access \in [Views -> [Pages -> {"none", "ro", "rw"}]]
  /\ readOnly \in [Views -> SUBSET Pages] /\ notify \in [Views -> SUBSET Pages]

GpuOK ==
  /\ valid \subseteq Pages /\ gpuWritten \subseteq valid /\ unseen \subseteq valid
  /\ fresh \subseteq Pages /\ gpuOnly \subseteq Pages

TexOK ==
  /\ outdated \subseteq Textures /\ inSync \subseteq Textures
  /\ becameOutdated \in BOOLEAN
  /\ texFresh \in [Textures -> SUBSET Pages]
  /\ late \subseteq Pages /\ lost \in [Textures -> SUBSET Pages]

GuestOK ==
  guest \in [Guests -> {Idle} \cup [at : {"fault", "fill"}, view : Views,
                                    pages : SUBSET Pages]]

CpOK ==
  cp \in [at : {"idle", "check", "request", "upload", "mark", "enable", "draw",
                 "clear"},
          load : SUBSET Textures, cur : SUBSET Textures, loaded : SUBSET Textures,
          bound : SUBSET Textures, todo : SUBSET Pages, piece : SUBSET Pages,
          left : SUBSET Views, gpu : BOOLEAN]

TypeOK == MemOK /\ GpuOK /\ TexOK /\ GuestOK /\ CpOK

Init ==
  /\ access = [v \in Views |-> [p \in Pages |-> "none"]]
  /\ readOnly = [v \in Views |-> {}]
  /\ notify = [v \in Views |-> {}]
  /\ valid = {} /\ gpuWritten = {} /\ fresh = {} /\ gpuOnly = {}
  /\ unseen = {}
  /\ outdated = Textures /\ becameOutdated = FALSE /\ inSync = {}
  /\ texFresh = [t \in Textures |-> {}]
  /\ late = {} /\ lost = [t \in Textures |-> {}]
  /\ guest = [g \in Guests |-> Idle]
  /\ cp = CpIdle

-----------------------------------------------------------------------------
(* Pages the guest may write, and pages somebody is in the middle of.      *)

Writable(v) == {p \in Pages : access[v][p] = "rw"}
Allocated == {p \in Pages : \E v \in Views : access[v][p] # "none"}
Filling == UNION {guest[g].pages : g \in {h \in Guests : guest[h].at = "fill"}}
InUse(v) == UNION {guest[g].pages :
                    g \in {h \in Guests : guest[h].at # "idle" /\ guest[h].view = v}}
InFlight == IF cp.at = "enable" THEN cp.piece ELSE {}

\* All of the word goes, data of the GPU included
Widen_WholeWord(S) ==
  {p \in Pages : \E q \in S : p \div BlockSize = q \div BlockSize}

(***************************************************************************)
(* MemoryInvalidationCallback: an access violation takes the pages around  *)
(* the faulting one along, up to the next page in the same word of flags   *)
(* that only the GPU has written.                                          *)
(***************************************************************************)
Widen(S) ==
  {p \in Pages : \E q \in S :
     /\ p \div BlockSize = q \div BlockSize
     /\ \A r \in gpuWritten \ S : ~ (p <= r /\ r < q) /\ ~ (q < r /\ r <= p)}

\* The bindings are not told
FireWatches_Silent(S) ==
  /\ outdated' = outdated \cup {t \in Textures : PagesOf[t] \cap S # {}}
  /\ UNCHANGED becameOutdated

\* FireWatches: the textures on the pages are outdated, and so are bindings.
FireWatches(S) ==
  LET hit == {t \in Textures \ outdated : PagesOf[t] \cap S # {}} IN
  /\ outdated' = outdated \cup hit
  /\ becameOutdated' = (becameOutdated \/ hit # {})

\* Textures of the present request that have asked for their pages already.
Loading == cp.cur \cup cp.loaded

\* The callbacks of the invalidated pages, and the history of lost ones.
Invalidate(S) ==
  /\ valid' = valid \ S
  /\ gpuWritten' = gpuWritten \ S
  /\ unseen' = unseen \ S
  /\ FireWatches(S)
  /\ lost' = [t \in Textures |->
                IF t \in Loading THEN lost[t] \cup (PagesOf[t] \cap S) ELSE lost[t]]

\* The protection stays on pages that are watched no more
TriggerCallbacks_StaysProtected(v, S, exact) ==
  /\ gpuOnly' = gpuOnly \ S /\ UNCHANGED readOnly
  /\ IF notify[v] \cap S = {}
       THEN UNCHANGED <<valid, gpuWritten, unseen, notify, outdated,
                        becameOutdated, lost>>
       ELSE Invalidate(IF exact THEN S ELSE Widen(S)) /\ notify' = [notify EXCEPT ![v] = @ \ S]

(***************************************************************************)
(* PhysicalHeap::TriggerCallbacks, all of it under the global lock.  It    *)
(* does nothing unless a requested page is watched in this view.  Not      *)
(* exact: the pages unwatched are those all callbacks have invalidated,    *)
(* so between the requested ones (the index buffer cache, the other client,*)
(* may keep the rest) and all that were invalidated here.                  *)
(***************************************************************************)
TriggerCallbacks(v, S, exact) ==
  /\ gpuOnly' = gpuOnly \ S
  /\ IF notify[v] \cap S = {}
       THEN UNCHANGED <<valid, gpuWritten, unseen, notify, readOnly, outdated,
                        becameOutdated, lost>>
       ELSE \E unwatch \in IF exact THEN {S} ELSE {S, Widen(S)} :
              /\ Invalidate(IF exact THEN S ELSE Widen(S))
              /\ notify' = [notify EXCEPT ![v] = @ \ unwatch]
              /\ readOnly' = [readOnly EXCEPT ![v] =
                                @ \ (unwatch \cap notify[v] \cap Writable(v))]

\* New data lands in guest memory.
Written(S) ==
  /\ fresh' = fresh \ S
  /\ texFresh' = [t \in Textures |-> texFresh[t] \ S]
  /\ late' = IF cp.bound = {} THEN late ELSE late \cup S

-----------------------------------------------------------------------------
(* Guest threads.                                                          *)

\* A store to a page that is not protected.
Store(g, v, p) ==
  /\ guest[g] = Idle
  /\ p \in Writable(v) \ readOnly[v]
  /\ Written({p})
  /\ gpuOnly' = gpuOnly \ {p}
  /\ UNCHANGED <<memVars, valid, gpuWritten, unseen, outdated, becameOutdated,
                 inSync, lost, guest, cp>>

\* A store to a protected page: the host delivers a fault.
Fault(g, v, p) ==
  /\ guest[g] = Idle
  /\ p \in Writable(v) \cap readOnly[v]
  /\ guest' = [guest EXCEPT ![g] = [at |-> "fault", view |-> v, pages |-> {p}]]
  /\ UNCHANGED <<memVars, gpuVars, texVars, cp>>

\* The handler has got the global lock; the store is then tried again.
HandleFault(g) ==
  /\ guest[g].at = "fault"
  /\ TriggerCallbacks(guest[g].view, guest[g].pages, FALSE)
  /\ guest' = [guest EXCEPT ![g] = Idle]
  /\ UNCHANGED <<access, fresh, inSync, texFresh, late, cp>>

\* A file read writes memory around the protection, in as many steps as the
\* host likes, and reports it when it is done.  A read that fails is reported
\* to nobody, but neither has it written anything.
Fill(g, v, S) ==
  /\ \/ guest[g] = Idle /\ S \subseteq Writable(v)
     \/ guest[g] = [at |-> "fill", view |-> v, pages |-> S]
  /\ guest' = [guest EXCEPT ![g] = [at |-> "fill", view |-> v, pages |-> S]]
  /\ Written(S)
  /\ gpuOnly' = gpuOnly \ S
  /\ UNCHANGED <<memVars, valid, gpuWritten, unseen, outdated, becameOutdated,
                 inSync, lost, cp>>

EndFill(g) ==
  /\ guest[g].at = "fill"
  /\ TriggerCallbacks(guest[g].view, guest[g].pages, TRUE)
  /\ guest' = [guest EXCEPT ![g] = Idle]
  /\ UNCHANGED <<access, fresh, inSync, texFresh, late, cp>>

(***************************************************************************)
(* PhysicalHeap::Alloc, Protect and Release.  A physical page is mapped by *)
(* one view at a time (the parent heap sees to it).  The guest does not    *)
(* free or protect pages it is writing or has handed to the GPU.           *)
(***************************************************************************)
NotNeeded(v, S) ==
  S \cap (InUse(v) \cup cp.piece \cup cp.todo
           \cup UNION {PagesOf[t] : t \in cp.load}) = {}

\* The guest may now write S through v, and there is no watch on it.  A watch
\* is to come where an upload has marked the page but not been to v yet; a
\* texture being loaded has no need of one on pages still to be uploaded.
Expose(v, S) ==
  LET exposed == (S \cap valid) \ (IF v \in cp.left THEN InFlight ELSE {}) IN
  /\ unseen' = unseen \cup exposed
  /\ lost' = [t \in Textures |->
                lost[t] \cup (PagesOf[t] \cap IF t \in cp.cur THEN exposed ELSE S)]

Alloc(v, S, a) ==
  /\ S \cap Allocated = {}
  /\ access' = [access EXCEPT ![v] = [p \in Pages |-> IF p \in S THEN a ELSE @[p]]]
  /\ readOnly' = [readOnly EXCEPT ![v] = IF a = "ro" THEN @ \cup S ELSE @ \ S]
  /\ IF a = "ro" THEN UNCHANGED <<unseen, lost>> ELSE Expose(v, S)
  /\ UNCHANGED <<notify, valid, gpuWritten, fresh, gpuOnly, outdated,
                 becameOutdated, inSync, texFresh, late, guest, cp>>

MakeReadOnly(v, S) ==
  /\ \A p \in S : access[v][p] # "none"
  /\ NotNeeded(v, S)
  /\ access' = [access EXCEPT ![v] = [p \in Pages |-> IF p \in S THEN "ro" ELSE @[p]]]
  /\ readOnly' = [readOnly EXCEPT ![v] = @ \cup S]
  /\ UNCHANGED <<notify, gpuVars, texVars, guest, cp>>

\* Protect invalidates first, leaving the protection to BaseHeap::Protect.
\* Pages that were read-only when they were uploaded have no watch.
MakeWritable(v, S) ==
  /\ \A p \in S : access[v][p] # "none"
  /\ NotNeeded(v, S)
  /\ access' = [access EXCEPT ![v] = [p \in Pages |-> IF p \in S THEN "rw" ELSE @[p]]]
  /\ gpuOnly' = gpuOnly \ S
  /\ IF notify[v] \cap S = {}
       THEN Expose(v, S) /\ UNCHANGED <<valid, gpuWritten, notify, outdated,
                                        becameOutdated>>
       ELSE Invalidate(S) /\ notify' = [notify EXCEPT ![v] = @ \ S]
  /\ readOnly' = [readOnly EXCEPT ![v] = @ \ S]
  /\ UNCHANGED <<fresh, inSync, texFresh, late, guest, cp>>

Release(v, S) ==
  /\ \A p \in S : access[v][p] # "none"
  /\ NotNeeded(v, S)
  /\ TriggerCallbacks(v, S, TRUE)
  /\ access' = [access EXCEPT ![v] = [p \in Pages |-> IF p \in S THEN "none" ELSE @[p]]]
  /\ UNCHANGED <<fresh, inSync, texFresh, late, guest, cp>>

GuestNext ==
  \/ \E g \in Guests, v \in Views, p \in Pages : Store(g, v, p) \/ Fault(g, v, p)
  \/ \E g \in Guests : HandleFault(g) \/ EndFill(g)
  \/ \E g \in Guests, v \in Views, S \in Reads : Fill(g, v, S)
  \/ \E v \in Views, S \in Allocations, a \in {"ro", "rw"} : Alloc(v, S, a)
  \/ \E v \in Views, S \in Allocations :
       MakeReadOnly(v, S) \/ MakeWritable(v, S) \/ Release(v, S)

-----------------------------------------------------------------------------
(* The command processor: a draw requests its textures.                    *)

\* RequestTextures: if a texture has become outdated all bindings are done
\* anew; the textures of bindings not in sync are looked at.
RequestTextures(B) ==
  LET known == IF becameOutdated THEN {} ELSE inSync IN
  /\ cp.at = "idle"
  /\ becameOutdated' = FALSE
  /\ inSync' = known \cup B
  /\ late' = Filling
  /\ cp' = [cp EXCEPT !.at = "check", !.load = B \ known, !.bound = B]
  /\ UNCHANGED <<memVars, gpuVars, outdated, texFresh, lost, guest>>

\* LoadTexturesData reads under the lock which of them are outdated.
CheckOutdated ==
  /\ cp.at = "check"
  /\ cp' = [cp EXCEPT !.at = "request", !.load = @ \cap outdated]
  /\ UNCHANGED <<memVars, gpuVars, texVars, guest>>

\* RequestRange: the pages that are not valid are to be uploaded.  Nothing asks
\* whether the guest has allocated all of them.
RequestRange(t) ==
  /\ cp.at = "request" /\ t \in cp.load
  /\ cp' = [cp EXCEPT !.at = "upload", !.load = @ \ {t}, !.cur = {t},
                      !.todo = PagesOf[t] \ valid]
  /\ lost' = [lost EXCEPT ![t] = PagesOf[t] \cap unseen]
  /\ UNCHANGED <<memVars, gpuVars, outdated, becameOutdated, inSync, texFresh,
                 late, guest>>

\* The same for a vertex or index buffer, which no texture is made of.
RequestBuffer(S) ==
  /\ cp.at = "idle" /\ S \ valid # {}
  /\ cp' = [cp EXCEPT !.at = "upload", !.todo = S \ valid]
  /\ UNCHANGED <<memVars, gpuVars, texVars, guest>>

\* RangeWrittenByGpu, which announces what a resolve or memory export writes.
RangeWrittenByGpu(S) ==
  /\ cp.at = "idle"
  /\ FireWatches(S)
  /\ cp' = [cp EXCEPT !.at = "mark", !.piece = S, !.gpu = TRUE]
  /\ UNCHANGED <<memVars, gpuVars, inSync, texFresh, late, lost, guest>>

\* UploadRanges: the next piece, as long as the upload buffer has room for.
NextPiece ==
  /\ cp.at = "upload"
  /\ \E m, n \in cp.todo :
       /\ \A p \in cp.todo : m <= p
       /\ m .. n \subseteq cp.todo
       /\ cp' = [cp EXCEPT !.at = "mark", !.piece = m .. n]
  /\ UNCHANGED <<memVars, gpuVars, texVars, guest>>

\* MakeRangeValid, its critical section.
MakeRangeValid ==
  /\ cp.at = "mark"
  /\ valid' = valid \cup cp.piece
  /\ unseen' = unseen \ cp.piece
  /\ gpuWritten' = IF cp.gpu THEN gpuWritten \cup cp.piece ELSE gpuWritten \ cp.piece
  /\ cp' = [cp EXCEPT !.at = "enable", !.left = Views]
  /\ UNCHANGED <<memVars, fresh, gpuOnly, texVars, guest>>

\* The upload stops: a page it begins or ends with is not accessible, there is no
\* upload buffer, no host memory; or the texture cannot be made from the copy.
\* What was uploaded stays.  The draw is skipped for a buffer, but not for a
\* texture, which is left as it was and, its binding in sync, not tried again.
RequestFails ==
  /\ cp.at = "upload"
  /\ IF cp.cur = {}
       THEN cp.todo # {} /\ cp' = CpIdle
       ELSE cp' = [cp EXCEPT !.at = "request", !.cur = {}, !.todo = {}]
  /\ lost' = [t \in Textures |-> IF t \in cp.cur THEN PagesOf[t] ELSE lost[t]]
  /\ UNCHANGED <<memVars, gpuVars, outdated, becameOutdated, inSync, texFresh,
                 late, guest>>

\* The watch is noted, but the page not protected
EnableAccessCallbacks_NotProtected(v) ==
  /\ cp.at = "enable" /\ v \in cp.left
  /\ notify' = [notify EXCEPT ![v] = @ \cup (cp.piece \cap Writable(v))]
  /\ cp' = [cp EXCEPT !.left = @ \ {v}]
  /\ UNCHANGED <<access, readOnly, gpuVars, texVars, guest>>

\* EnableAccessCallbacks of one view; the order of the views makes no odds.
EnableAccessCallbacks(v) ==
  LET new == (cp.piece \cap Writable(v)) \ notify[v] IN
  /\ cp.at = "enable" /\ v \in cp.left
  /\ notify' = [notify EXCEPT ![v] = @ \cup new]
  /\ readOnly' = [readOnly EXCEPT ![v] = @ \cup new]
  /\ cp' = [cp EXCEPT !.left = @ \ {v}]
  /\ UNCHANGED <<access, gpuVars, texVars, guest>>

\* The copy into the upload buffer, from what memory holds now.
Copy ==
  /\ cp.at = "enable" /\ cp.left = {} /\ ~cp.gpu
  /\ fresh' = (fresh \cup cp.piece) \ (cp.piece \cap gpuOnly)
  /\ cp' = [cp EXCEPT !.at = "upload", !.todo = @ \ cp.piece, !.piece = {}]
  /\ UNCHANGED <<memVars, valid, gpuWritten, gpuOnly, unseen, texVars, guest>>

\* What the GPU writes; a page the guest took back meanwhile is the guest's.
GpuWrite ==
  LET out == cp.piece \cap gpuWritten IN
  /\ cp.at = "enable" /\ cp.left = {} /\ cp.gpu
  /\ fresh' = fresh \cup out
  /\ gpuOnly' = gpuOnly \cup out
  /\ texFresh' = [t \in Textures |-> texFresh[t] \ out]
  /\ cp' = CpIdle
  /\ UNCHANGED <<memVars, valid, gpuWritten, unseen, outdated, becameOutdated,
                 inSync, late, lost, guest>>

\* LoadTextureDataFromResidentMemoryImpl: the texture is made from the copy.
LoadTexture ==
  /\ cp.at = "upload" /\ cp.todo = {} /\ cp.cur # {}
  /\ texFresh' = [t \in Textures |->
                    IF t \in cp.cur THEN PagesOf[t] \cap fresh ELSE texFresh[t]]
  /\ cp' = [cp EXCEPT !.at = "request", !.cur = {}, !.loaded = @ \cup cp.cur]
  /\ UNCHANGED <<memVars, gpuVars, outdated, becameOutdated, inSync, late, lost,
                 guest>>

\* MakeUpToDateAndWatch for all textures loaded, in one critical section.
MakeUpToDateAndWatch ==
  /\ cp.at = "request" /\ cp.load = {}
  /\ outdated' = outdated \ cp.loaded
  /\ cp' = [cp EXCEPT !.at = "draw", !.loaded = {}]
  /\ UNCHANGED <<memVars, gpuVars, becameOutdated, inSync, texFresh, late, lost,
                 guest>>

\* The draw is issued; or a buffer's upload is complete.
Done ==
  /\ \/ cp.at = "draw"
     \/ cp.at = "upload" /\ cp.todo = {} /\ cp.cur = {}
  /\ cp' = CpIdle
  /\ late' = {}
  /\ UNCHANGED <<memVars, gpuVars, outdated, becameOutdated, inSync, texFresh,
                 lost, guest>>

\* ClearCache tells every texture, then keeps only the GPU's own data.
ClearCache ==
  /\ cp.at = "idle"
  /\ FireWatches(Pages)
  /\ cp' = [cp EXCEPT !.at = "clear"]
  /\ UNCHANGED <<memVars, gpuVars, inSync, texFresh, late, lost, guest>>

\* The same page state, set for ClearCache, or at the end of a frame with
\* clear_memory_page_state, when no texture is told.
SetSystemPageBlocksValidWithGpuDataWritten ==
  /\ cp.at \in {"idle", "clear"}
  /\ valid' = gpuWritten
  /\ unseen' = unseen \cap gpuWritten
  /\ cp' = CpIdle
  /\ UNCHANGED <<memVars, gpuWritten, fresh, gpuOnly, texVars, guest>>

\* At the head of a trace, all under one lock.
PrepareForTraceDownload ==
  /\ cp.at = "idle"
  /\ valid' = gpuWritten
  /\ unseen' = unseen \cap gpuWritten
  /\ FireWatches(valid \ gpuWritten)
  /\ UNCHANGED <<memVars, gpuWritten, fresh, gpuOnly, inSync, texFresh, late,
                 lost, guest, cp>>

CommandProcessor ==
  \/ \E B \in SUBSET Textures \ {{}} : RequestTextures(B)
  \/ \E t \in Textures : RequestRange(t)
  \/ \E S \in Ranges : RequestBuffer(S) \/ RangeWrittenByGpu(S)
  \/ \E v \in Views : EnableAccessCallbacks(v)
  \/ CheckOutdated \/ NextPiece \/ MakeRangeValid \/ Copy \/ GpuWrite
  \/ LoadTexture \/ RequestFails \/ MakeUpToDateAndWatch \/ Done
  \/ ClearCache \/ SetSystemPageBlocksValidWithGpuDataWritten
  \/ PrepareForTraceDownload

Next == GuestNext \/ CommandProcessor

Spec == Init /\ [][Next]_vars
-----------------------------------------------------------------------------
(* Properties.                                                             *)

\* A page marked valid holds the newest data, unless it is being uploaded, a
\* file read that will report it is under way, or it was made writable without
\* a watch: no other store in any view goes unnoticed, in well-typed states
\* (shared_memory.cc:309-352, memory.cc:1973-2315).
CopyIsFresh ==
  TypeOK /\ valid \ (InFlight \cup Filling \cup unseen) \subseteq fresh

\* The same without the last exception, which the code does not keep: a page
\* uploaded while read-only is not invalidated when it is made writable.
CopyIsAlwaysFresh == valid \ (InFlight \cup Filling) \subseteq fresh

\* Data only the GPU has is never taken for invalid because of a store to
\* another page nearby, and so never uploaded over (shared_memory.cc:536-560).
GpuDataKept == gpuOnly \subseteq fresh \cap valid

\* A protected page the guest may write is watched, or the handler would
\* return without lifting the protection and the store fault for ever
\* (memory.cc:2187-2205).
FaultsEnd == \A v \in Views : Writable(v) \cap readOnly[v] \subseteq notify[v]

\* A draw sees in its textures every store made before it requested them,
\* save on the pages a texture is not told of: those invalidated while it was
\* being loaded or made writable without a watch, or all if its load failed
\* (texture_cache.cc:318-345, 734-864).
DrawSeesStores ==
  cp.at = "draw" =>
    \A t \in cp.bound : PagesOf[t] \subseteq texFresh[t] \cup late \cup lost[t]

\* The same without the exceptions, which the code does not keep.
DrawSeesAllStores ==
  cp.at = "draw" => \A t \in cp.bound : PagesOf[t] \subseteq texFresh[t] \cup late
=============================================================================
