------------------------- MODULE SharedMemoryProofs ---------------------------
(***************************************************************************)
(* Shared memory of any number of pages, views, threads and textures:      *)
(* FaultsEnd, GpuDataKept, CopyIsFresh and DrawSeesStores.                 *)
(*                                                                         *)
(* The argument: a page that is marked valid and that the guest may write  *)
(* through some view is watched in that view, save the views an upload has *)
(* not come to yet and the pages made writable without a watch (Watched);  *)
(* a watched page is protected (Guarded), so a store to it faults first; a *)
(* file read, which does not, keeps the pages it fills to itself until it  *)
(* reports them (Working).                                                 *)
(*                                                                         *)
(* A texture that is not outdated has the newest data of each page, and    *)
(* the page is watched wherever the guest may write it, save the pages it  *)
(* is not told of (Seen); until it is loaded its pages are valid, yet to   *)
(* be uploaded, or lost (Fetched).                                         *)
(***************************************************************************)
EXTENDS SharedMemory, TLAPS

Guarded ==
  \A v \in Views :
    /\ Writable(v) \cap readOnly[v] \subseteq notify[v]
    /\ Writable(v) \cap notify[v] \subseteq readOnly[v]
    /\ \A p \in notify[v] : access[v][p] # "none"

Watched ==
  \A v \in Views : \A p \in Writable(v) \cap valid :
    p \in notify[v] \cup unseen \/ (p \in InFlight /\ v \in cp.left)

Working ==
  \A g \in Guests :
    guest[g] # Idle => guest[g].pages \subseteq Writable(guest[g].view)

Kept == gpuOnly \subseteq gpuWritten \cap fresh

Current == valid \ (InFlight \cup Filling \cup unseen) \subseteq fresh

Uploads ==
  /\ cp.todo \cap gpuOnly = {}
  /\ cp.at \in {"idle", "clear"} => cp = [CpIdle EXCEPT !.at = cp.at]
  /\ cp.gpu => cp.todo = {} /\ cp.at \in {"mark", "enable"}
  /\ ~cp.gpu => cp.piece \cap gpuOnly = {}
  /\ cp.gpu /\ cp.at = "enable" => cp.piece \cap valid \subseteq gpuWritten

Safe == TypeOK /\ Guarded /\ Watched /\ Working /\ Kept /\ Current /\ Uploads

\* Invalidation of W on account of S, which lifts the watches of U in view v.
Lifts(v, S, W, U) ==
  /\ W \in SUBSET Pages /\ U \in SUBSET W
  /\ (W = {} /\ notify[v] \cap S = {}) \/ S \subseteq U
  /\ (gpuOnly \ S) \cap W = {}
  /\ valid' = valid \ W /\ gpuWritten' = gpuWritten \ W /\ gpuOnly' = gpuOnly \ S
  /\ unseen' = unseen \ W
  /\ notify' = [notify EXCEPT ![v] = @ \ U]
  /\ readOnly' = [readOnly EXCEPT ![v] = @ \ (U \cap notify[v] \cap Writable(v))]

------------------------------------------------------------------------------
(* A command processor with nothing to do.                                 *)
LEMMA IdleCp ==
  ASSUME Uploads, cp.at \in {"idle", "clear"}
  PROVE  /\ cp.load = {} /\ cp.cur = {} /\ cp.loaded = {} /\ cp.bound = {}
         /\ cp.todo = {} /\ cp.piece = {} /\ cp.gpu = FALSE
         /\ cp.at = "idle" => cp = CpIdle
  BY DEF Uploads, CpIdle

(* The ranges of the calls are sets of pages.                              *)
LEMMA RangePages == Ranges \subseteq SUBSET Pages
  BY SizesAssumption DEF Ranges, Pages

(* Widening takes the pages asked for and none that only the GPU has.      *)
LEMMA WidenBounds ==
  ASSUME TypeOK, NEW S \in SUBSET Pages
  PROVE  /\ S \subseteq Widen(S) /\ Widen(S) \subseteq Pages
         /\ (gpuWritten \ S) \cap Widen(S) = {}
<1>. USE SizesAssumption
<1>1. Pages \subseteq Nat /\ gpuWritten \subseteq Pages
  BY DEF TypeOK, GpuOK, Pages
<1>2. S \subseteq Widen(S)
  BY <1>1 DEF Widen
<1>3. Widen(S) \subseteq Pages
  BY DEF Widen
<1>4. ASSUME NEW p \in gpuWritten \ S, p \in Widen(S)
      PROVE  FALSE
  <2>1. PICK q \in S : ~(p <= p /\ p < q) /\ ~(q < p /\ p <= p)
    BY <1>4 DEF Widen
  <2>2. p \in Nat /\ q \in Nat /\ p # q
    BY <1>1, <1>4
  <2>. QED  BY <2>1, <2>2
<1>. QED  BY <1>2, <1>3, <1>4

(* The handler of faults, of file reads and of releases.                   *)
LEMMA TriggerLifts ==
  ASSUME Safe, NEW v \in Views, NEW S \in SUBSET Pages, NEW exact \in BOOLEAN,
         TriggerCallbacks(v, S, exact)
  PROVE  \E W, U \in SUBSET Pages : Lifts(v, S, W, U)
<1>1. CASE notify[v] \cap S = {}
  <2>1. notify' = [notify EXCEPT ![v] = @ \ {}] /\ readOnly' = [readOnly EXCEPT
          ![v] = @ \ ({} \cap notify[v] \cap Writable(v))]
    BY <1>1 DEF TriggerCallbacks, Safe, TypeOK, MemOK
  <2>2. Lifts(v, S, {}, {})
    BY <1>1, <2>1 DEF TriggerCallbacks, Lifts
  <2>. QED  BY <2>2
<1>2. CASE notify[v] \cap S # {}
  <2>. DEFINE W == IF exact THEN S ELSE Widen(S)
  <2>1. PICK U \in IF exact THEN {S} ELSE {S, Widen(S)} :
          /\ Invalidate(W)
          /\ notify' = [notify EXCEPT ![v] = @ \ U]
          /\ readOnly' = [readOnly EXCEPT ![v] = @ \ (U \cap notify[v] \cap Writable(v))]
    BY <1>2 DEF TriggerCallbacks
  <2>2. /\ S \subseteq W /\ W \subseteq Pages /\ (gpuWritten \ S) \cap W = {}
        /\ U \subseteq W /\ S \subseteq U
    BY WidenBounds DEF Safe
  <2>3. (gpuOnly \ S) \cap W = {}
    BY <2>2 DEF Safe, Kept
  <2>4. /\ gpuOnly' = gpuOnly \ S /\ valid' = valid \ W /\ gpuWritten' = gpuWritten \ W
        /\ unseen' = unseen \ W
    BY <1>2, <2>1 DEF TriggerCallbacks, Invalidate
  <2>5. Lifts(v, S, W, U)
    BY <2>1, <2>2, <2>3, <2>4 DEF Lifts
  <2>. QED  BY <2>2, <2>5
<1>. QED  BY <1>1, <1>2

\* Access stays as it is, or an S that nobody needs is unmapped from v.
Unmaps(v, S) ==
  \/ access' = access
  \/ /\ NotNeeded(v, S)
     /\ access' = [access EXCEPT ![v] = [p \in Pages |-> IF p \in S THEN "none" ELSE @[p]]]

(* Lifting watches keeps all there is to keep but what concerns fills.     *)
LEMMA LiftKeeps ==
  ASSUME Safe, NEW v \in Views, NEW S \in SUBSET Pages, NEW W \in SUBSET Pages,
         NEW U \in SUBSET Pages, Lifts(v, S, W, U), Unmaps(v, S),
         \A g \in Guests : guest'[g] = guest[g] \/ guest'[g] = Idle,
         UNCHANGED <<cp, fresh>>
  PROVE  Guarded' /\ Watched' /\ Working' /\ Kept' /\ Uploads'
<1>. USE DEF Safe, TypeOK, MemOK, GpuOK, Lifts
<1>1. \A w \in Views, p \in Pages :
        \/ access'[w][p] = access[w][p]
        \/ w = v /\ p \in S /\ NotNeeded(v, S) /\ access'[w][p] = "none"
  BY DEF Unmaps
<1>2. \A w \in Views : Writable(w)' \subseteq Writable(w)
  BY <1>1 DEF Writable
<1>3. Guarded'
  <2>. SUFFICES ASSUME NEW w \in Views
                PROVE  /\ Writable(w)' \cap readOnly'[w] \subseteq notify'[w]
                       /\ Writable(w)' \cap notify'[w] \subseteq readOnly'[w]
                       /\ \A p \in notify'[w] : access'[w][p] # "none"
    BY DEF Guarded
  <2>1. CASE w # v
    BY <2>1, <1>1, <1>2 DEF Guarded
  <2>2. CASE w = v
    <3>1. notify'[v] = notify[v] \ U
          /\ readOnly'[v] = readOnly[v] \ (U \cap notify[v] \cap Writable(v))
      OBVIOUS
    <3>2. notify'[v] \cap S = {}
      BY <3>1
    <3>. QED  BY <2>2, <3>1, <3>2, <1>1, <1>2 DEF Guarded
  <2>. QED  BY <2>1, <2>2
<1>4. Watched'
  <2>1. InFlight' = InFlight
    BY DEF InFlight
  <2>2. ASSUME NEW w \in Views, NEW p \in Writable(w)' \cap valid'
        PROVE  p \in notify'[w] \cup unseen' \/ (p \in InFlight /\ w \in cp.left)
    BY <2>2, <1>2 DEF Watched
  <2>. QED  BY <2>1, <2>2 DEF Watched
<1>5. Working'
  <2>. SUFFICES ASSUME NEW g \in Guests, guest'[g] # Idle
                PROVE  \A p \in guest'[g].pages :
                         p \in Pages /\ access'[guest'[g].view][p] = "rw"
    BY DEF Working, Writable
  <2>1. guest'[g] = guest[g] /\ guest[g].view \in Views /\ guest[g].at # "idle"
        /\ guest[g].pages \subseteq Writable(guest[g].view)
    BY DEF GuestOK, Working, Idle
  <2>2. guest[g].view = v /\ NotNeeded(v, S) => guest[g].pages \cap S = {}
    <3>1. guest[g].view = v => guest[g].pages \subseteq InUse(v)
      BY <2>1 DEF InUse
    <3>2. NotNeeded(v, S) => S \cap InUse(v) = {}
      BY DEF NotNeeded
    <3>. QED  BY <3>1, <3>2
  <2>. QED  BY <2>1, <2>2, <1>1 DEF Writable
<1>6. Kept'
  BY DEF Kept
<1>7. Uploads'
  BY DEF Uploads
<1>. QED  BY <1>3, <1>4, <1>5, <1>6, <1>7

(* An invalidation on account of pages the guest may write leaves none of  *)
(* them valid, except pages an upload is at and those without a watch.     *)
LEMMA LiftInvalidates ==
  ASSUME Safe, NEW v \in Views, NEW S \in SUBSET Pages, NEW W \in SUBSET Pages,
         NEW U \in SUBSET Pages, Lifts(v, S, W, U), S \subseteq Writable(v)
  PROVE  S \cap valid' \subseteq InFlight \cup unseen'
<1>. SUFFICES ASSUME NEW p \in S, p \in valid'
              PROVE  p \in InFlight \cup unseen'
  OBVIOUS
<1>1. p \in valid /\ p \notin notify[v] /\ (p \in unseen => p \in unseen')
  BY DEF Lifts
<1>. QED  BY <1>1 DEF Safe, Watched

Ordered == Guarded /\ Watched /\ Working /\ Kept /\ Current /\ Uploads

(* The four operations that end the watch on pages.                        *)
LEMMA HandleFaultStep ==
  ASSUME Safe, NEW g \in Guests, HandleFault(g)
  PROVE  Ordered'
<1>. DEFINE v == guest[g].view
            S == guest[g].pages
<1>1. v \in Views /\ S \in SUBSET Pages /\ guest[g].at = "fault"
  BY DEF HandleFault, Safe, TypeOK, GuestOK, Idle
<1>2. PICK W, U \in SUBSET Pages : Lifts(v, S, W, U)
  BY <1>1, TriggerLifts DEF HandleFault
<1>3. Guarded' /\ Watched' /\ Working' /\ Kept' /\ Uploads'
  <2>1. /\ Unmaps(v, S) /\ UNCHANGED <<cp, fresh>>
        /\ \A h \in Guests : guest'[h] = guest[h] \/ guest'[h] = Idle
    BY DEF HandleFault, Unmaps, Safe, TypeOK, GuestOK
  <2>. QED  BY <1>1, <1>2, <2>1, LiftKeeps
<1>4. Filling' = Filling
  <2>1. {h \in Guests : guest'[h].at = "fill"} = {h \in Guests : guest[h].at = "fill"}
    BY <1>1 DEF HandleFault, Safe, TypeOK, GuestOK, Idle
  <2>2. \A h \in Guests : guest[h].at = "fill" => guest'[h] = guest[h]
    BY <1>1 DEF HandleFault, Safe, TypeOK, GuestOK
  <2>. QED  BY <2>1, <2>2 DEF Filling
<1>5. Current'
  BY <1>2, <1>4 DEF Current, Safe, HandleFault, InFlight, Lifts
<1>. QED  BY <1>3, <1>5 DEF Ordered

LEMMA EndFillStep ==
  ASSUME Safe, NEW g \in Guests, EndFill(g)
  PROVE  Ordered'
<1>. DEFINE v == guest[g].view
            S == guest[g].pages
<1>1. v \in Views /\ S \in SUBSET Pages /\ guest[g].at = "fill" /\ guest[g] # Idle
  BY DEF EndFill, Safe, TypeOK, GuestOK, Idle
<1>2. PICK W, U \in SUBSET Pages : Lifts(v, S, W, U)
  BY <1>1, TriggerLifts DEF EndFill
<1>3. Guarded' /\ Watched' /\ Working' /\ Kept' /\ Uploads'
  <2>1. /\ Unmaps(v, S) /\ UNCHANGED <<cp, fresh>>
        /\ \A h \in Guests : guest'[h] = guest[h] \/ guest'[h] = Idle
    BY DEF EndFill, Unmaps, Safe, TypeOK, GuestOK
  <2>. QED  BY <1>1, <1>2, <2>1, LiftKeeps
<1>4. S \cap valid' \subseteq InFlight \cup unseen'
  BY <1>1, <1>2, LiftInvalidates DEF Safe, Working
<1>5. Filling \subseteq Filling' \cup S
  <2>1. \A h \in Guests \ {g} : guest'[h] = guest[h]
    BY DEF EndFill, Safe, TypeOK, GuestOK
  <2>. QED  BY <2>1 DEF Filling
<1>6. Current'
  BY <1>2, <1>4, <1>5 DEF Current, Safe, EndFill, InFlight, Lifts
<1>. QED  BY <1>3, <1>6 DEF Ordered

LEMMA MakeWritableStep ==
  ASSUME Safe, NEW v \in Views, NEW S \in SUBSET Pages, MakeWritable(v, S)
  PROVE  Ordered'
<1>. USE DEF Safe, TypeOK, MemOK, GpuOK
<1>1. /\ access' = [access EXCEPT ![v] = [p \in Pages |-> IF p \in S THEN "rw" ELSE @[p]]]
      /\ readOnly' = [readOnly EXCEPT ![v] = @ \ S]
      /\ gpuOnly' = gpuOnly \ S /\ UNCHANGED <<fresh, guest, cp>>
  BY DEF MakeWritable
<1>2. \A w \in Views, p \in Pages :
        access'[w][p] = IF w = v /\ p \in S THEN "rw" ELSE access[w][p]
  BY <1>1
<1>3. UNCHANGED <<InFlight, Filling>>
  BY <1>1 DEF InFlight, Filling
<1>4. PICK W \in {{}, S} :
        /\ valid' = valid \ W /\ gpuWritten' = gpuWritten \ W
        /\ unseen \ W \subseteq unseen'
        /\ W = {} => S \cap valid \subseteq unseen' \cup (IF v \in cp.left THEN InFlight ELSE {})
        /\ notify' = [notify EXCEPT ![v] = @ \ S]
  <2>1. CASE notify[v] \cap S = {}
    <3>1. notify' = [notify EXCEPT ![v] = @ \ S]
      BY <2>1 DEF MakeWritable
    <3>. QED  BY <2>1, <3>1 DEF MakeWritable, Expose
  <2>2. CASE notify[v] \cap S # {}
    BY <2>2 DEF MakeWritable, Invalidate
  <2>. QED  BY <2>1, <2>2
<1>5. \A w \in Views : \A p \in Writable(w)' : p \in Writable(w) \/ (w = v /\ p \in S)
  BY <1>2 DEF Writable
<1>6. Guarded'
  BY <1>1, <1>2, <1>4, <1>5 DEF Guarded
<1>7. Watched'
  <2>. SUFFICES ASSUME NEW w \in Views, NEW p \in Writable(w)' \cap valid'
                PROVE  p \in notify'[w] \cup unseen' \/ (p \in InFlight /\ w \in cp.left)
    BY <1>1, <1>3 DEF Watched
  <2>1. CASE w = v /\ p \in S
    BY <1>4, <2>1
  <2>2. CASE ~(w = v /\ p \in S)
    BY <1>4, <1>5, <2>2 DEF Watched
  <2>. QED  BY <2>1, <2>2
<1>8. Working'
  <2>1. \A w \in Views : Writable(w) \subseteq Writable(w)'
    BY <1>2 DEF Writable
  <2>. QED  BY <1>1, <2>1 DEF Working, GuestOK, Idle
<1>9. Kept' /\ Current'
  BY <1>1, <1>3, <1>4 DEF Kept, Current
<1>10. Uploads'
  BY <1>1, <1>4 DEF Uploads
<1>. QED  BY <1>6, <1>7, <1>8, <1>9, <1>10 DEF Ordered

LEMMA ReleaseStep ==
  ASSUME Safe, NEW v \in Views, NEW S \in SUBSET Pages, Release(v, S)
  PROVE  Ordered'
<1>1. PICK W, U \in SUBSET Pages : Lifts(v, S, W, U)
  BY TriggerLifts DEF Release
<1>2. Guarded' /\ Watched' /\ Working' /\ Kept' /\ Uploads'
  <2>1. Unmaps(v, S)
    BY DEF Unmaps, Release
  <2>. QED  BY <1>1, <2>1, LiftKeeps DEF Release
<1>3. Current'
  BY <1>1 DEF Current, Safe, Release, InFlight, Filling, Lifts
<1>. QED  BY <1>2, <1>3 DEF Ordered

------------------------------------------------------------------------------
(* A store finds the page not valid, or an upload at it, or no watch.      *)
LEMMA StoreStep ==
  ASSUME Safe, NEW g \in Guests, NEW v \in Views, NEW p \in Pages, Store(g, v, p)
  PROVE  Ordered'
<1>. USE DEF Safe, memVars
<1>1. /\ UNCHANGED <<access, readOnly, notify, valid, gpuWritten, unseen, guest, cp>>
      /\ fresh' = fresh \ {p} /\ gpuOnly' = gpuOnly \ {p}
      /\ p \in Writable(v) /\ p \notin readOnly[v]
  BY DEF Store, Written
<1>2. p \in valid => p \in InFlight \cup unseen
  BY <1>1 DEF Watched, Guarded
<1>3. UNCHANGED <<InFlight, Filling>> /\ \A w \in Views : UNCHANGED Writable(w)
  BY <1>1 DEF InFlight, Filling, Writable
<1>4. Guarded' /\ Watched' /\ Working'
  BY <1>1 DEF Guarded, Watched, Working, InFlight, Writable
<1>5. Kept' /\ Current'
  BY <1>1, <1>2, <1>3 DEF Kept, Current
<1>6. Uploads'
  BY <1>1, <1>3 DEF Uploads
<1>. QED  BY <1>4, <1>5, <1>6 DEF Ordered

(* A store that faults, and a file read, only note what they are at.       *)
LEMMA BeginStep ==
  ASSUME Safe, NEW g \in Guests, NEW v \in Views, NEW S \in SUBSET Pages,
         Fill(g, v, S) \/ \E p \in Pages : S = {p} /\ Fault(g, v, p)
  PROVE  Ordered'
<1>. USE DEF Safe, TypeOK, GuestOK, memVars, gpuVars
<1>1. /\ UNCHANGED <<access, readOnly, notify, valid, gpuWritten, unseen, cp>>
      /\ gpuOnly' \subseteq gpuOnly
  BY DEF Fill, Fault
<1>2. PICK at \in {"fault", "fill"} :
        /\ guest' = [guest EXCEPT ![g] = [at |-> at, view |-> v, pages |-> S]]
        /\ at = "fill" => fresh' = fresh \ S /\ gpuOnly' = gpuOnly \ S
        /\ at = "fault" => fresh' = fresh /\ gpuOnly' = gpuOnly /\ guest[g] = Idle
  BY DEF Fill, Fault, Written
<1>3. S \subseteq Writable(v)
  <2>1. CASE guest[g] = Idle
    BY <2>1 DEF Fill, Fault, Idle
  <2>2. CASE guest[g] = [at |-> "fill", view |-> v, pages |-> S]
    BY <2>2 DEF Working, Idle
  <2>. QED  BY <2>1, <2>2 DEF Fill, Fault
<1>4. guest[g] = Idle \/ guest[g] = [at |-> "fill", view |-> v, pages |-> S]
  BY DEF Fill, Fault
<1>5. Filling \subseteq Filling' \cup S /\ (at = "fill" => S \subseteq Filling')
  <2>1. \A h \in Guests \ {g} : guest'[h] = guest[h]
    BY <1>2
  <2>2. guest'[g] = [at |-> at, view |-> v, pages |-> S]
    BY <1>2
  <2>3. guest[g].at = "fill" => guest[g].pages = S
    BY <1>4 DEF Idle
  <2>. QED  BY <2>1, <2>2, <2>3 DEF Filling
<1>6. at = "fault" => Filling \subseteq Filling'
  <2>1. at = "fault" => guest[g].at # "fill"
    BY <1>2 DEF Idle
  <2>2. \A h \in Guests \ {g} : guest'[h] = guest[h]
    BY <1>2
  <2>. QED  BY <2>1, <2>2 DEF Filling
<1>7. UNCHANGED InFlight
  BY <1>1 DEF InFlight
<1>8. Guarded' /\ Watched'
  BY <1>1 DEF Guarded, Watched, InFlight, Writable
<1>9. Working'
  <2>1. \A h \in Guests \ {g} : guest'[h] = guest[h]
    BY <1>2
  <2>2. guest'[g].pages = S /\ guest'[g].view = v
    BY <1>2
  <2>. QED  BY <1>1, <1>3, <2>1, <2>2 DEF Working, Writable
<1>10. Kept' /\ Current'
  BY <1>1, <1>2, <1>5, <1>6, <1>7 DEF Kept, Current
<1>11. Uploads'
  BY <1>1, <1>7 DEF Uploads
<1>. QED  BY <1>8, <1>9, <1>10, <1>11 DEF Ordered

(* Mapping pages, and making them read-only.                               *)
LEMMA AccessStep ==
  ASSUME Safe, NEW v \in Views, NEW S \in SUBSET Pages, NEW a \in {"ro", "rw"},
         Alloc(v, S, a) \/ (a = "ro" /\ MakeReadOnly(v, S))
  PROVE  Ordered'
<1>. USE DEF Safe, TypeOK, MemOK, gpuVars
<1>1. /\ UNCHANGED <<notify, valid, gpuWritten, fresh, gpuOnly, guest, cp>>
      /\ access' = [access EXCEPT ![v] = [p \in Pages |-> IF p \in S THEN a ELSE @[p]]]
      /\ readOnly' = [readOnly EXCEPT ![v] = IF a = "ro" THEN @ \cup S ELSE @ \ S]
      /\ unseen \subseteq unseen'
      /\ a = "rw" =>
           S \cap valid \subseteq unseen' \cup (IF v \in cp.left THEN InFlight ELSE {})
  BY DEF Alloc, MakeReadOnly, Expose
<1>2. \A w \in Views, p \in Pages :
        access'[w][p] = IF w = v /\ p \in S THEN a ELSE access[w][p]
  BY <1>1
<1>3. S \cap Allocated = {} \/ (a = "ro" /\ NotNeeded(v, S))
  BY DEF Alloc, MakeReadOnly
<1>5. \A w \in Views : Writable(w) \subseteq Allocated /\ notify[w] \subseteq Allocated
  BY DEF Writable, Allocated, Guarded
<1>6. \A w \in Views : \A p \in Writable(w)' :
        p \in Writable(w) \/ (w = v /\ p \in S /\ a = "rw" /\ p \notin Allocated)
  BY <1>2, <1>3 DEF Writable
<1>7. Guarded'
  <2>. SUFFICES ASSUME NEW w \in Views
                PROVE  /\ Writable(w)' \cap readOnly'[w] \subseteq notify[w]
                       /\ Writable(w)' \cap notify[w] \subseteq readOnly'[w]
                       /\ \A p \in notify[w] : access'[w][p] # "none"
    BY <1>1 DEF Guarded
  <2>1. \A p \in notify[w] : access'[w][p] # "none"
    BY <1>2 DEF Guarded
  <2>2. Writable(w)' \cap readOnly'[w] \subseteq notify[w]
    BY <1>1, <1>2, <1>6 DEF Guarded, Writable
  <2>3. Writable(w)' \cap notify[w] \subseteq readOnly'[w]
    BY <1>1, <1>5, <1>6, <1>3 DEF Guarded
  <2>. QED  BY <2>1, <2>2, <2>3
<1>8. Watched'
  <2>1. InFlight' = InFlight
    BY <1>1 DEF InFlight
  <2>. QED  BY <2>1, <1>1, <1>6 DEF Watched
<1>9. Working'
  <2>. SUFFICES ASSUME NEW g \in Guests, guest[g] # Idle
                PROVE  \A p \in guest[g].pages :
                         p \in Pages /\ access'[guest[g].view][p] = "rw"
    BY <1>1 DEF Working, Writable
  <2>1. guest[g].view \in Views /\ guest[g].at # "idle"
        /\ guest[g].pages \subseteq Writable(guest[g].view)
    BY DEF GuestOK, Working, Idle
  <2>2. guest[g].view = v => guest[g].pages \subseteq InUse(v)
    BY <2>1 DEF InUse
  <2>3. NotNeeded(v, S) => S \cap InUse(v) = {}
    BY DEF NotNeeded
  <2>. QED  BY <2>1, <2>2, <2>3, <1>2, <1>3, <1>5 DEF Writable
<1>10. Kept' /\ Current'
  BY <1>1 DEF Kept, Current, InFlight, Filling
<1>11. Uploads'
  BY <1>1 DEF Uploads
<1>. QED  BY <1>7, <1>8, <1>9, <1>10, <1>11 DEF Ordered

------------------------------------------------------------------------------
(* The command processor, between uploads.                                 *)

\* Nothing but cp changes, and textures.
LEMMA PlanStep ==
  ASSUME Safe, UNCHANGED <<memVars, gpuVars, guest>>,
         cp.at # "enable", cp'.at # "enable", Uploads'
  PROVE  Ordered'
<1>. USE DEF Safe, memVars, gpuVars
<1>1. InFlight = {} /\ InFlight' = {} /\ Filling' = Filling
  BY DEF InFlight, Filling
<1>2. Guarded' /\ Working'
  BY DEF Guarded, Working, Writable
<1>3. Watched'
  BY <1>1 DEF Watched, Writable
<1>4. Kept' /\ Current'
  BY <1>1 DEF Kept, Current
<1>. QED  BY <1>2, <1>3, <1>4 DEF Ordered

LEMMA RequestStep ==
  ASSUME Safe,
         \/ \E B \in SUBSET Textures \ {{}} : RequestTextures(B)
         \/ \E t \in Textures : RequestRange(t)
         \/ \E S \in Ranges : RequestBuffer(S) \/ RangeWrittenByGpu(S)
         \/ CheckOutdated \/ NextPiece \/ LoadTexture \/ RequestFails
         \/ MakeUpToDateAndWatch \/ Done \/ ClearCache
  PROVE  Ordered'
<1>. USE DEF Safe, TypeOK, CpOK, memVars, gpuVars
<1>1. UNCHANGED <<memVars, gpuVars, guest>>
  BY DEF RequestTextures, RequestRange, RequestBuffer, RangeWrittenByGpu, CheckOutdated,
         NextPiece, LoadTexture, RequestFails, MakeUpToDateAndWatch, Done, ClearCache
<1>2. gpuOnly \subseteq valid
  BY DEF Kept, GpuOK
<1>3. Uploads' /\ cp.at # "enable" /\ cp'.at # "enable"
  <2>. DEFINE Goal == Uploads' /\ cp.at # "enable" /\ cp'.at # "enable"
  <2>. USE IdleCp
  <2>. USE <1>1, <1>2 DEF Uploads
  <2>1. ASSUME NEW B \in SUBSET Textures, RequestTextures(B)
        PROVE  Goal
    <3>1. cp = CpIdle /\ cp' = [cp EXCEPT !.at = "check", !.load = cp'.load, !.bound = B]
          /\ cp'.load \subseteq B
      BY <2>1 DEF RequestTextures
    <3>. QED  BY <3>1 DEF CpIdle
  <2>2. ASSUME NEW t \in Textures, RequestRange(t)
        PROVE  Goal
    BY <2>2 DEF RequestRange, CpIdle
  <2>3. ASSUME NEW S \in Ranges, RequestBuffer(S)
        PROVE  Goal
    BY <2>3, RangePages DEF RequestBuffer, CpIdle
  <2>4. ASSUME NEW S \in Ranges, RangeWrittenByGpu(S)
        PROVE  Goal
    <3>1. cp = CpIdle
          /\ cp' = [cp EXCEPT !.at = "mark", !.piece = S, !.gpu = TRUE]
      BY <2>4 DEF RangeWrittenByGpu
    <3>2. cp'.at = "mark" /\ cp'.piece = S /\ cp'.gpu = TRUE /\ cp'.todo = {}
          /\ cp'.load = {} /\ cp.at = "idle"
      BY <3>1 DEF CpIdle
    <3>. QED  BY <3>1, <3>2
  <2>5. CASE NextPiece
    <3>1. cp.at = "upload" /\ ~cp.gpu
      BY <2>5 DEF NextPiece
    <3>2. PICK S \in SUBSET cp.todo : cp' = [cp EXCEPT !.at = "mark", !.piece = S]
      BY <2>5 DEF NextPiece
    <3>3. cp'.at = "mark" /\ cp'.piece \subseteq cp.todo /\ cp'.gpu = cp.gpu
          /\ cp'.todo = cp.todo /\ cp'.load = cp.load
      BY ONLY <3>2, CpOK DEF CpOK
    <3>. QED  BY <3>1, <3>3
  <2>6. CASE CheckOutdated
    BY <2>6 DEF CheckOutdated
  <2>7. CASE LoadTexture
    BY <2>7 DEF LoadTexture
  <2>8. CASE MakeUpToDateAndWatch
    BY <2>8 DEF MakeUpToDateAndWatch
  <2>9. CASE Done
    BY <2>9 DEF Done, CpIdle
  <2>10. CASE RequestFails
    <3>1. cp.at = "upload" /\ ~cp.gpu
      BY <2>10 DEF RequestFails
    <3>2. CASE cp' = CpIdle
      BY <3>1, <3>2 DEF CpIdle
    <3>3. CASE cp' = [cp EXCEPT !.at = "request", !.cur = {}, !.todo = {}]
      BY <3>1, <3>3
    <3>. QED  BY <2>10, <3>2, <3>3 DEF RequestFails
  <2>11. CASE ClearCache
    <3>1. cp = CpIdle /\ cp' = [cp EXCEPT !.at = "clear"]
      BY <2>11 DEF ClearCache
    <3>2. cp' = [CpIdle EXCEPT !.at = "clear"] /\ cp'.at = "clear"
      BY <3>1 DEF CpIdle
    <3>. QED  BY <3>1, <3>2 DEF CpIdle
  <2>. QED  BY <2>1, <2>2, <2>3, <2>4, <2>5, <2>6, <2>7, <2>8, <2>9, <2>10, <2>11
<1>. QED  BY <1>1, <1>3, PlanStep

(* A piece is marked valid, then watched in one view after the other.      *)
LEMMA MarkStep ==
  ASSUME Safe, MakeRangeValid
  PROVE  Ordered'
<1>. USE DEF Safe, TypeOK, CpOK, GpuOK, memVars
<1>1. /\ UNCHANGED <<access, readOnly, notify, fresh, gpuOnly, guest>>
      /\ cp.at = "mark" /\ valid' = valid \cup cp.piece /\ unseen' = unseen \ cp.piece
      /\ gpuWritten' = IF cp.gpu THEN gpuWritten \cup cp.piece ELSE gpuWritten \ cp.piece
      /\ cp' = [cp EXCEPT !.at = "enable", !.left = Views]
  BY DEF MakeRangeValid
<1>2. InFlight = {} /\ InFlight' = cp.piece /\ UNCHANGED Filling
  BY <1>1 DEF InFlight, Filling
<1>3. cp'.at = "enable" /\ cp'.left = Views
      /\ cp'.piece = cp.piece /\ cp'.todo = cp.todo /\ cp'.load = cp.load /\ cp'.gpu = cp.gpu
  BY <1>1
<1>4. Guarded' /\ Working'
  BY <1>1 DEF Guarded, Working, Writable
<1>5. Watched'
  BY <1>1, <1>2, <1>3 DEF Watched, Writable
<1>6. Kept' /\ Current'
  BY <1>1, <1>2 DEF Kept, Current, Uploads
<1>7. Uploads'
  BY <1>1, <1>2, <1>3 DEF Uploads
<1>. QED  BY <1>4, <1>5, <1>6, <1>7 DEF Ordered

LEMMA EnableStep ==
  ASSUME Safe, NEW v \in Views, EnableAccessCallbacks(v)
  PROVE  Ordered'
<1>. USE DEF Safe, TypeOK, CpOK, MemOK, gpuVars
<1>. DEFINE new == (cp.piece \cap Writable(v)) \ notify[v]
<1>1. /\ UNCHANGED <<access, valid, gpuWritten, fresh, gpuOnly, unseen, guest>>
      /\ cp.at = "enable"
      /\ notify' = [notify EXCEPT ![v] = @ \cup new]
      /\ readOnly' = [readOnly EXCEPT ![v] = @ \cup new]
      /\ cp' = [cp EXCEPT !.left = @ \ {v}]
  BY DEF EnableAccessCallbacks
<1>2. UNCHANGED <<InFlight, Filling>> /\ InFlight = cp.piece
  BY <1>1 DEF InFlight, Filling
<1>3. cp'.left = cp.left \ {v} /\ cp'.at = cp.at
      /\ cp'.piece = cp.piece /\ cp'.todo = cp.todo /\ cp'.load = cp.load /\ cp'.gpu = cp.gpu
  BY <1>1
<1>4. Guarded'
  BY <1>1 DEF Guarded, Writable
<1>5. Watched'
  BY <1>1, <1>2, <1>3 DEF Watched, Writable
<1>6. Working' /\ Kept' /\ Current'
  BY <1>1, <1>2 DEF Working, Writable, Kept, Current
<1>7. Uploads'
  BY <1>1, <1>2, <1>3 DEF Uploads
<1>. QED  BY <1>4, <1>5, <1>6, <1>7 DEF Ordered

(* The piece is copied, or written by the GPU.                             *)
LEMMA CopyStep ==
  ASSUME Safe, Copy
  PROVE  Ordered'
<1>. USE DEF Safe, TypeOK, CpOK, memVars
<1>1. /\ UNCHANGED <<access, readOnly, notify, valid, gpuWritten, gpuOnly, unseen, guest>>
      /\ cp.at = "enable" /\ cp.left = {} /\ ~cp.gpu
      /\ fresh' = (fresh \cup cp.piece) \ (cp.piece \cap gpuOnly)
      /\ cp' = [cp EXCEPT !.at = "upload", !.todo = @ \ cp.piece, !.piece = {}]
  BY DEF Copy
<1>2. InFlight = cp.piece /\ InFlight' = {} /\ UNCHANGED Filling
  BY <1>1 DEF InFlight, Filling
<1>3. cp.piece \cap gpuOnly = {}
  BY <1>1 DEF Uploads
<1>4. Guarded' /\ Working'
  BY <1>1 DEF Guarded, Working, Writable
<1>5. Watched'
  BY <1>1, <1>2 DEF Watched, Writable
<1>6. Kept' /\ Current'
  BY <1>1, <1>2, <1>3 DEF Kept, Current
<1>7. Uploads'
  BY <1>1, <1>2 DEF Uploads
<1>. QED  BY <1>4, <1>5, <1>6, <1>7 DEF Ordered

LEMMA GpuWriteStep ==
  ASSUME Safe, GpuWrite
  PROVE  Ordered'
<1>. USE DEF Safe, TypeOK, CpOK, memVars
<1>. DEFINE out == cp.piece \cap gpuWritten
<1>1. /\ UNCHANGED <<access, readOnly, notify, valid, gpuWritten, unseen, guest>>
      /\ cp.at = "enable" /\ cp.left = {} /\ cp.gpu
      /\ fresh' = fresh \cup out /\ gpuOnly' = gpuOnly \cup out
      /\ cp' = CpIdle
  BY DEF GpuWrite
<1>2. InFlight = cp.piece /\ InFlight' = {} /\ UNCHANGED Filling
  BY <1>1 DEF InFlight, Filling, CpIdle
<1>3. cp.piece \cap valid \subseteq gpuWritten
  BY <1>1 DEF Uploads
<1>4. Guarded' /\ Working'
  BY <1>1 DEF Guarded, Working, Writable
<1>5. Watched'
  BY <1>1, <1>2 DEF Watched, Writable
<1>6. Kept' /\ Current'
  BY <1>1, <1>2, <1>3 DEF Kept, Current
<1>7. Uploads'
  BY <1>1, <1>2 DEF Uploads, CpIdle
<1>. QED  BY <1>4, <1>5, <1>6, <1>7 DEF Ordered

(* Only the GPU's own data stays valid.                                    *)
LEMMA KeepGpuStep ==
  ASSUME Safe, SetSystemPageBlocksValidWithGpuDataWritten \/ PrepareForTraceDownload
  PROVE  Ordered'
<1>. USE DEF Safe, TypeOK, GpuOK, memVars
<1>1. /\ UNCHANGED <<access, readOnly, notify, gpuWritten, fresh, gpuOnly, guest>>
      /\ cp.at \in {"idle", "clear"} /\ valid' = gpuWritten
      /\ unseen' = unseen \cap gpuWritten /\ cp' \in {cp, CpIdle}
  BY DEF SetSystemPageBlocksValidWithGpuDataWritten, PrepareForTraceDownload
<1>2. InFlight = {} /\ UNCHANGED <<InFlight, Filling>>
  BY <1>1 DEF InFlight, Filling, CpIdle
<1>3. Guarded' /\ Working'
  BY <1>1 DEF Guarded, Working, Writable
<1>4. Watched' /\ Kept' /\ Current'
  BY <1>1, <1>2 DEF Watched, Kept, Current, Writable
<1>5. Uploads'
  BY <1>1, <1>2 DEF Uploads, CpIdle
<1>. QED  BY <1>3, <1>4, <1>5 DEF Ordered

------------------------------------------------------------------------------
(* Types.                                                                  *)

LEMMA LiftTypes ==
  ASSUME TypeOK, NEW v \in Views, NEW S \in SUBSET Pages, NEW exact \in BOOLEAN,
         TriggerCallbacks(v, S, exact)
  PROVE  /\ readOnly' \in [Views -> SUBSET Pages] /\ notify' \in [Views -> SUBSET Pages]
         /\ valid' \subseteq Pages /\ gpuWritten' \subseteq valid' /\ gpuOnly' \subseteq Pages
         /\ unseen' \subseteq valid'
         /\ outdated' \subseteq Textures /\ lost' \in [Textures -> SUBSET Pages]
<1>. USE PagesOfAssumption DEF TypeOK, MemOK, GpuOK, TexOK
<1>1. CASE notify[v] \cap S = {}
  BY <1>1 DEF TriggerCallbacks
<1>2. CASE notify[v] \cap S # {}
  <2>1. Widen(S) \subseteq Pages
    BY DEF Widen
  <2>2. PICK W \in SUBSET Pages, U \in SUBSET Pages :
          /\ Invalidate(W) /\ gpuOnly' = gpuOnly \ S
          /\ notify' = [notify EXCEPT ![v] = @ \ U]
          /\ readOnly' = [readOnly EXCEPT ![v] = @ \ (U \cap notify[v] \cap Writable(v))]
    BY <1>2, <2>1 DEF TriggerCallbacks
  <2>. QED  BY <2>2 DEF Invalidate, FireWatches
<1>. QED  BY <1>1, <1>2

(* The flag of the bindings stays Boolean.                                 *)
LEMMA BecameStep ==
  ASSUME becameOutdated \in BOOLEAN, [Next]_vars
  PROVE  becameOutdated' \in BOOLEAN
<1>1. ASSUME NEW S, FireWatches(S)
      PROVE  becameOutdated' \in BOOLEAN
  BY <1>1, Zenon DEF FireWatches
<1>2. CASE UNCHANGED vars
  BY <1>2 DEF vars, texVars
<1>3. ASSUME NEW v, NEW S, NEW exact, TriggerCallbacks(v, S, exact)
      PROVE  becameOutdated' \in BOOLEAN
  BY <1>1, <1>3, Zenon DEF TriggerCallbacks, Invalidate
<1>4. ASSUME NEW g \in Guests, NEW v \in Views, NEW p \in Pages, Store(g, v, p) \/ Fault(g, v, p)
      PROVE  becameOutdated' \in BOOLEAN
  BY <1>4 DEF Store, Fault, texVars
<1>5. ASSUME NEW g \in Guests, HandleFault(g) \/ EndFill(g)
      PROVE  becameOutdated' \in BOOLEAN
  BY <1>3, <1>5, Zenon DEF HandleFault, EndFill
<1>6. ASSUME NEW g \in Guests, NEW v \in Views, NEW S \in Reads, Fill(g, v, S)
      PROVE  becameOutdated' \in BOOLEAN
  BY <1>6 DEF Fill
<1>7. ASSUME NEW v \in Views, NEW S \in Allocations, NEW a \in {"ro", "rw"},
             Alloc(v, S, a) \/ MakeReadOnly(v, S)
      PROVE  becameOutdated' \in BOOLEAN
  BY <1>7 DEF Alloc, MakeReadOnly, texVars
<1>8. ASSUME NEW v \in Views, NEW S \in Allocations, MakeWritable(v, S) \/ Release(v, S)
      PROVE  becameOutdated' \in BOOLEAN
  BY <1>1, <1>3, <1>8, Zenon DEF MakeWritable, Release, Invalidate
<1>9. ASSUME GuestNext
      PROVE  becameOutdated' \in BOOLEAN
  BY <1>4, <1>5, <1>6, <1>7, <1>8, <1>9 DEF GuestNext
<1>10. CASE ClearCache \/ PrepareForTraceDownload \/ \E S \in Ranges : RangeWrittenByGpu(S)
  BY <1>1, <1>10, Zenon DEF ClearCache, PrepareForTraceDownload, RangeWrittenByGpu
<1>11. CASE \E B \in SUBSET Textures \ {{}} : RequestTextures(B)
  BY <1>11 DEF RequestTextures
<1>12. ASSUME \/ \E t \in Textures : RequestRange(t)
              \/ \E S \in Ranges : RequestBuffer(S)
              \/ \E v \in Views : EnableAccessCallbacks(v)
              \/ CheckOutdated \/ NextPiece \/ MakeRangeValid \/ Copy \/ GpuWrite
              \/ LoadTexture \/ RequestFails \/ MakeUpToDateAndWatch \/ Done
              \/ SetSystemPageBlocksValidWithGpuDataWritten
       PROVE  becameOutdated' = becameOutdated
  BY <1>12 DEF RequestRange, RequestBuffer, EnableAccessCallbacks, CheckOutdated, NextPiece,
               MakeRangeValid, Copy, GpuWrite, LoadTexture, RequestFails,
               MakeUpToDateAndWatch, Done, SetSystemPageBlocksValidWithGpuDataWritten, texVars
<1>. QED  BY <1>2, <1>9, <1>10, <1>11, <1>12 DEF Next, CommandProcessor

(* Every step keeps the types.                                             *)
LEMMA GuestTypes ==
  ASSUME TypeOK, GuestNext, becameOutdated' \in BOOLEAN
  PROVE  TypeOK'
<1>. USE AllocationsAssumption, PagesOfAssumption, RangePages
<1>. USE DEF TypeOK, MemOK, GpuOK, TexOK, GuestOK, CpOK, memVars, gpuVars, texVars
<1>1. ASSUME NEW g \in Guests, NEW v \in Views, NEW p \in Pages, Store(g, v, p)
      PROVE  TypeOK'
  BY <1>1 DEF Store, Written
<1>2. ASSUME NEW g \in Guests, NEW v \in Views, NEW p \in Pages, Fault(g, v, p)
      PROVE  TypeOK'
  BY <1>2 DEF Fault
<1>3. ASSUME NEW g \in Guests, HandleFault(g)
      PROVE  TypeOK'
  <2>1. guest[g].view \in Views /\ guest[g].pages \in SUBSET Pages
    BY <1>3 DEF HandleFault, Idle
  <2>2. TriggerCallbacks(guest[g].view, guest[g].pages, FALSE)
    BY <1>3 DEF HandleFault
  <2>3. /\ readOnly' \in [Views -> SUBSET Pages] /\ notify' \in [Views -> SUBSET Pages]
        /\ valid' \subseteq Pages /\ gpuWritten' \subseteq valid' /\ gpuOnly' \subseteq Pages
        /\ unseen' \subseteq valid'
        /\ outdated' \subseteq Textures /\ lost' \in [Textures -> SUBSET Pages]
    BY <2>1, <2>2, LiftTypes
  <2>4. /\ guest' = [guest EXCEPT ![g] = Idle]
        /\ UNCHANGED <<access, fresh, inSync, texFresh, late, cp>>
    BY <1>3 DEF HandleFault
  <2>5. GuestOK'
    BY <2>4
  <2>. QED  BY <2>3, <2>4, <2>5
<1>4. ASSUME NEW g \in Guests, EndFill(g)
      PROVE  TypeOK'
  <2>1. guest[g].view \in Views /\ guest[g].pages \in SUBSET Pages
    BY <1>4 DEF EndFill, Idle
  <2>2. TriggerCallbacks(guest[g].view, guest[g].pages, TRUE)
    BY <1>4 DEF EndFill
  <2>3. /\ readOnly' \in [Views -> SUBSET Pages] /\ notify' \in [Views -> SUBSET Pages]
        /\ valid' \subseteq Pages /\ gpuWritten' \subseteq valid' /\ gpuOnly' \subseteq Pages
        /\ unseen' \subseteq valid'
        /\ outdated' \subseteq Textures /\ lost' \in [Textures -> SUBSET Pages]
    BY <2>1, <2>2, LiftTypes
  <2>4. /\ guest' = [guest EXCEPT ![g] = Idle]
        /\ UNCHANGED <<access, fresh, inSync, texFresh, late, cp>>
    BY <1>4 DEF EndFill
  <2>5. GuestOK'
    BY <2>4
  <2>. QED  BY <2>3, <2>4, <2>5
<1>5. ASSUME NEW g \in Guests, NEW v \in Views, NEW S \in Reads, Fill(g, v, S)
      PROVE  TypeOK'
  BY <1>5 DEF Fill, Written
<1>6. ASSUME NEW v \in Views, NEW S \in Allocations, NEW a \in {"ro", "rw"}, Alloc(v, S, a)
      PROVE  TypeOK'
  BY <1>6 DEF Alloc, Expose
<1>7. ASSUME NEW v \in Views, NEW S \in Allocations, MakeReadOnly(v, S)
      PROVE  TypeOK'
  BY <1>7 DEF MakeReadOnly
<1>8. ASSUME NEW v \in Views, NEW S \in Allocations, MakeWritable(v, S)
      PROVE  TypeOK'
  <2>1. /\ access' \in [Views -> [Pages -> {"none", "ro", "rw"}]]
        /\ readOnly' \in [Views -> SUBSET Pages] /\ gpuOnly' \subseteq Pages
        /\ UNCHANGED <<fresh, inSync, texFresh, late, guest, cp>>
    BY <1>8 DEF MakeWritable
  <2>2. CASE notify[v] \cap S = {}
    BY <1>8, <2>1, <2>2 DEF MakeWritable, Expose
  <2>3. CASE notify[v] \cap S # {}
    <3>1. Invalidate(S) /\ notify' = [notify EXCEPT ![v] = @ \ S]
      BY <1>8, <2>3 DEF MakeWritable
    <3>. QED  BY <2>1, <3>1 DEF Invalidate, FireWatches
  <2>. QED  BY <2>2, <2>3
<1>9. ASSUME NEW v \in Views, NEW S \in Allocations, Release(v, S)
      PROVE  TypeOK'
  BY <1>9, LiftTypes DEF Release
<1>. QED  BY <1>1, <1>2, <1>3, <1>4, <1>5, <1>6, <1>7, <1>8, <1>9 DEF GuestNext

LEMMA CpTypes ==
  ASSUME TypeOK, CommandProcessor, becameOutdated' \in BOOLEAN
  PROVE  TypeOK'
<1>. USE PagesOfAssumption, RangePages
<1>. USE DEF TypeOK, MemOK, GpuOK, TexOK, GuestOK, CpOK, memVars, gpuVars, texVars
<1>1. ASSUME NEW B \in SUBSET Textures, RequestTextures(B)
      PROVE  TypeOK'
  <2>1. Filling \subseteq Pages
    <3>1. \A g \in Guests : guest[g].at = "fill" => guest[g].pages \subseteq Pages
      BY DEF Idle
    <3>. QED  BY <3>1 DEF Filling
  <2>. QED  BY <1>1, <2>1 DEF RequestTextures
<1>2. ASSUME NEW t \in Textures, RequestRange(t)
      PROVE  TypeOK'
  BY <1>2 DEF RequestRange
<1>3. ASSUME NEW S \in Ranges, RequestBuffer(S)
      PROVE  TypeOK'
  BY <1>3 DEF RequestBuffer
<1>4. ASSUME NEW S \in Ranges, RangeWrittenByGpu(S)
      PROVE  TypeOK'
  BY <1>4 DEF RangeWrittenByGpu, FireWatches
<1>5. ASSUME NEW v \in Views, EnableAccessCallbacks(v)
      PROVE  TypeOK'
  BY <1>5 DEF EnableAccessCallbacks
<1>6. CASE CheckOutdated
  BY <1>6 DEF CheckOutdated
<1>7. CASE NextPiece
  <2>1. PICK m, n \in cp.todo : m .. n \subseteq cp.todo
                                /\ cp' = [cp EXCEPT !.at = "mark", !.piece = m .. n]
    BY <1>7 DEF NextPiece
  <2>2. m .. n \in SUBSET Pages
    BY <2>1
  <2>. QED  BY <1>7, <2>1, <2>2 DEF NextPiece
<1>8. CASE MakeRangeValid
  BY <1>8 DEF MakeRangeValid
<1>9. CASE Copy
  BY <1>9 DEF Copy
<1>10. CASE GpuWrite
  BY <1>10 DEF GpuWrite, CpIdle
<1>11. CASE LoadTexture
  BY <1>11 DEF LoadTexture
<1>12. CASE MakeUpToDateAndWatch
  BY <1>12 DEF MakeUpToDateAndWatch
<1>13. CASE Done
  BY <1>13 DEF Done, CpIdle
<1>14. CASE ClearCache
  BY <1>14 DEF ClearCache, FireWatches
<1>15. CASE SetSystemPageBlocksValidWithGpuDataWritten
  BY <1>15 DEF SetSystemPageBlocksValidWithGpuDataWritten, CpIdle
<1>16. CASE PrepareForTraceDownload
  BY <1>16 DEF PrepareForTraceDownload, FireWatches
<1>17. CASE RequestFails
  <2>1. cp' = CpIdle \/ cp' = [cp EXCEPT !.at = "request", !.cur = {}, !.todo = {}]
    BY <1>17 DEF RequestFails
  <2>2. CpOK'
    <3>1. CASE cp' = CpIdle
      BY ONLY <3>1 DEF CpIdle, CpOK
    <3>2. CASE cp' = [cp EXCEPT !.at = "request", !.cur = {}, !.todo = {}]
      BY ONLY <3>2, CpOK DEF CpOK
    <3>. QED  BY <2>1, <3>1, <3>2
  <2>3. lost' \in [Textures -> SUBSET Pages]
    BY <1>17 DEF RequestFails
  <2>. QED  BY <1>17, <2>2, <2>3 DEF RequestFails
<1>. QED
  BY <1>1, <1>2, <1>3, <1>4, <1>5, <1>6, <1>7, <1>8, <1>9, <1>10, <1>11, <1>12, <1>13,
     <1>14, <1>15, <1>16, <1>17
  DEF CommandProcessor

------------------------------------------------------------------------------
LEMMA SafeInit == Init => Safe
<1>. SUFFICES ASSUME Init
              PROVE  Safe
  OBVIOUS
<1>. USE DEF Init
<1>1. TypeOK
  BY DEF TypeOK, MemOK, GpuOK, TexOK, GuestOK, CpOK, CpIdle
<1>2. Guarded /\ Watched /\ Working /\ Kept /\ Current
  BY DEF Guarded, Watched, Working, Kept, Current
<1>3. Uploads
  BY DEF Uploads, CpIdle
<1>. QED  BY <1>1, <1>2, <1>3 DEF Safe

LEMMA SafeStep ==
  ASSUME Safe, [Next]_vars
  PROVE  Safe'
<1>1. CASE UNCHANGED vars
  BY <1>1 DEF vars, memVars, gpuVars, texVars, Safe, TypeOK, MemOK, GpuOK, TexOK, GuestOK,
      CpOK, Guarded, Watched, Working, Kept, Current, Uploads, InFlight, Filling,
      Writable
<1>2. CASE Next
  <2>1. becameOutdated' \in BOOLEAN
    BY <1>2, BecameStep DEF Safe, TypeOK, TexOK
  <2>2. TypeOK'
    BY <1>2, <2>1, GuestTypes, CpTypes DEF Next, Safe
  <2>3. ASSUME GuestNext
        PROVE  Ordered'
    <3>1. ASSUME NEW g \in Guests, NEW v \in Views, NEW p \in Pages, Fault(g, v, p)
          PROVE  Ordered'
      BY <3>1, BeginStep
    <3>2. ASSUME NEW g \in Guests, NEW v \in Views, NEW S \in Reads, Fill(g, v, S)
          PROVE  Ordered'
      BY <3>2, BeginStep, AllocationsAssumption
    <3>3. ASSUME NEW v \in Views, NEW S \in Allocations,
                 \/ \E a \in {"ro", "rw"} : Alloc(v, S, a)
                 \/ MakeReadOnly(v, S) \/ MakeWritable(v, S) \/ Release(v, S)
          PROVE  Ordered'
      <4>1. S \in SUBSET Pages
        BY AllocationsAssumption
      <4>. QED  BY <3>3, <4>1, AccessStep, MakeWritableStep, ReleaseStep
    <3>. QED
      BY <2>3, <3>1, <3>2, <3>3, StoreStep, HandleFaultStep, EndFillStep DEF GuestNext
  <2>4. ASSUME CommandProcessor
        PROVE  Ordered'
    BY <2>4, RequestStep, MarkStep, EnableStep, CopyStep, GpuWriteStep, KeepGpuStep
    DEF CommandProcessor
  <2>. QED  BY <1>2, <2>2, <2>3, <2>4 DEF Next, Safe, Ordered
<1>. QED  BY <1>1, <1>2

(* A page that is marked valid holds the newest data, save one that is     *)
(* being uploaded or filled, or was made writable without a watch          *)
(* (shared_memory.cc, memory.cc).                                          *)
THEOREM Fresh == Spec => []CopyIsFresh
<1>1. Safe => CopyIsFresh
  BY DEF Safe, Current, CopyIsFresh
<1>2. Safe /\ [Next]_vars => Safe'
  BY SafeStep
<1>. QED  BY SafeInit, <1>1, <1>2, PTL DEF Spec

(* Data only the GPU has is never taken for invalid.                       *)
THEOREM GpuKept == Spec => []GpuDataKept
<1>1. Safe => GpuDataKept
  BY DEF Safe, TypeOK, GpuOK, Kept, GpuDataKept
<1>2. Safe /\ [Next]_vars => Safe'
  BY SafeStep
<1>. QED  BY SafeInit, <1>1, <1>2, PTL DEF Spec

(* A store that faults finds a watch, so that the handler lifts the        *)
(* protection and the store succeeds when it is tried again.               *)
THEOREM FaultsLifted == Spec => []FaultsEnd
<1>1. Safe => FaultsEnd
  BY DEF Safe, Guarded, FaultsEnd
<1>2. Safe /\ [Next]_vars => Safe'
  BY SafeStep
<1>. QED  BY SafeInit, <1>1, <1>2, PTL DEF Spec

------------------------------------------------------------------------------
(* What a draw sees.  A texture was made from valid pages, which were      *)
(* watched; a watch that fires makes it outdated, so while it is not every *)
(* one of its pages is still watched and as it was, save those it is not   *)
(* told of (Seen).  A binding in sync is not outdated, or the flag says    *)
(* so, or the request at work is loading it, or it failed to (Synced);     *)
(* while it is loaded its pages are valid, or yet to come, or lost         *)
(* (Fetched).                                                              *)

\* Where a request or an upload is.
Stages ==
  /\ cp.at = "check" => cp.cur = {} /\ cp.loaded = {}
  /\ cp.at = "request" => cp.cur = {}
  /\ cp.at = "draw" => cp.load \cup cp.cur \cup cp.loaded = {}
  /\ cp.at \in {"upload", "mark", "enable"} /\ cp.cur = {} =>
       cp.load \cup cp.loaded \cup cp.bound = {}
  /\ cp.gpu => cp.cur = {}
  /\ cp.load \cap Loading = {}
  /\ Loading \subseteq outdated /\ cp.cur \cap cp.loaded = {}
  /\ cp.at # "check" => cp.load \subseteq outdated

\* An upload goes through what is to be done; no texture that is up to date
\* is on what the GPU writes.
Pieces ==
  /\ ~cp.gpu /\ cp.at \in {"mark", "enable"} => cp.piece \subseteq cp.todo
  /\ cp.gpu => \A t \in Textures \ outdated : PagesOf[t] \cap cp.piece = {}

Failed == {t \in Textures : PagesOf[t] \subseteq lost[t]}

Synced ==
  \A t \in inSync \cap outdated :
    becameOutdated \/ t \in cp.load \cup Loading \cup Failed

\* Pages a store to which is not noticed.
Loose == {p \in Pages : \E v \in Views : p \in Writable(v) \ notify[v]}

Seen ==
  \A t \in (Textures \ outdated) \cup cp.loaded : \A p \in PagesOf[t] :
    p \in lost[t] \/ (p \notin Loose /\ p \in texFresh[t] \cup Filling)

Fetched ==
  \A t \in cp.cur :
    /\ PagesOf[t] \subseteq lost[t] \cup (cp.todo \ InFlight) \cup valid
    /\ PagesOf[t] \cap unseen \subseteq lost[t]

Drawn ==
  /\ cp.bound # {} => Filling \subseteq late
  /\ \A t \in cp.bound \ (cp.load \cup cp.cur) :
       PagesOf[t] \subseteq texFresh[t] \cup late \cup lost[t]

Watching == Stages /\ Pieces /\ Synced /\ Seen /\ Fetched /\ Drawn

\* Pages W are invalidated, and the watches on them fire.
Fires(W) ==
  /\ W \subseteq Pages /\ valid' = valid \ W
  /\ outdated' = outdated \cup {t \in Textures : PagesOf[t] \cap W # {}}
  /\ outdated' # outdated => becameOutdated'
  /\ becameOutdated => becameOutdated'
  /\ \A t \in Textures :
       lost[t] \subseteq lost'[t] /\ (t \in Loading => PagesOf[t] \cap W \subseteq lost'[t])
  /\ \A t \in cp.cur : PagesOf[t] \cap (unseen' \ unseen) \subseteq lost'[t]
  /\ \A t \in Textures \ cp.cur : PagesOf[t] \cap Loose' \subseteq Loose \cup W \cup lost'[t]

(* Watches that fire tell the bindings.                                    *)
LEMMA FireTells ==
  ASSUME NEW W, FireWatches(W)
  PROVE  /\ outdated' = outdated \cup {t \in Textures : PagesOf[t] \cap W # {}}
         /\ outdated' # outdated => becameOutdated'
         /\ becameOutdated => becameOutdated'
<1>. DEFINE hit == {t \in Textures \ outdated : PagesOf[t] \cap W # {}}
<1>1. outdated' = outdated \cup hit /\ (becameOutdated' = (becameOutdated \/ hit # {}))
  BY Zenon DEF FireWatches
<1>2. outdated' # outdated => hit # {}
  BY <1>1
<1>3. outdated' = outdated \cup {t \in Textures : PagesOf[t] \cap W # {}}
  BY <1>1
<1>. QED  BY <1>1, <1>2, <1>3, Zenon

LEMMA InvalidateFires ==
  ASSUME TexOK, NEW W \in SUBSET Pages, Invalidate(W), Loose' \subseteq Loose \cup W
  PROVE  Fires(W)
<1>1. \A t \in Textures :
        lost[t] \subseteq lost'[t] /\ (t \in Loading => PagesOf[t] \cap W \subseteq lost'[t])
  BY DEF Invalidate, TexOK
<1>. QED  BY <1>1, FireTells DEF Invalidate, Fires

\* Nothing is invalidated.
LEMMA NothingFires ==
  ASSUME UNCHANGED <<valid, outdated, becameOutdated>>,
         \A t \in Textures : lost[t] \subseteq lost'[t],
         \A t \in cp.cur : PagesOf[t] \cap (unseen' \ unseen) \subseteq lost'[t],
         \A t \in Textures \ cp.cur : PagesOf[t] \cap Loose' \subseteq Loose \cup lost'[t]
  PROVE  Fires({})
<1>1. becameOutdated => becameOutdated'
  BY Zenon
<1>2. valid' = valid \ {} /\ outdated' = outdated
      /\ outdated' = outdated \cup {t \in Textures : PagesOf[t] \cap {} # {}}
  OBVIOUS
<1>. QED  BY <1>1, <1>2 DEF Fires

LEMMA TriggerFires ==
  ASSUME TypeOK, NEW v \in Views, NEW S \in SUBSET Pages, NEW exact \in BOOLEAN,
         TriggerCallbacks(v, S, exact), \A w \in Views : Writable(w)' \subseteq Writable(w)
  PROVE  \E W \in SUBSET Pages : Fires(W) /\ (notify[v] \cap S # {} => S \subseteq W)
<1>. USE DEF TypeOK, MemOK
<1>1. CASE notify[v] \cap S = {}
  <2>1. Loose' \subseteq Loose
    BY <1>1 DEF TriggerCallbacks, Loose
  <2>. QED  BY <1>1, <2>1, NothingFires DEF TriggerCallbacks
<1>2. CASE notify[v] \cap S # {}
  <2>. DEFINE W == IF exact THEN S ELSE Widen(S)
  <2>1. W \subseteq Pages /\ S \subseteq W
    BY WidenBounds
  <2>2. PICK U \in SUBSET W : Invalidate(W) /\ notify' = [notify EXCEPT ![v] = @ \ U]
    BY <1>2, <2>1 DEF TriggerCallbacks
  <2>3. Loose' \subseteq Loose \cup W
    BY <2>2 DEF Loose
  <2>. QED  BY <2>1, <2>2, <2>3, InvalidateFires
<1>. QED  BY <1>1, <1>2

(* What fires keeps what a draw sees, as long as the only file reads that  *)
(* end are of pages that are invalidated or had no watch.                  *)
LEMMA FiresKeeps ==
  ASSUME Safe, Watching, NEW W \in SUBSET Pages, Fires(W),
         Filling' \subseteq Filling, Filling \ Filling' \subseteq W \cup Loose,
         UNCHANGED <<cp, inSync, texFresh, late>>
  PROVE  Watching'
<1>. USE DEF Watching, Fires
<1>1. InFlight' = InFlight /\ Loading' = Loading
  BY DEF InFlight, Loading
<1>2. \A t \in Textures : lost[t] \subseteq lost'[t]
                          /\ (t \in Loading => PagesOf[t] \cap W \subseteq lost'[t])
  OBVIOUS
<1>. Failed \subseteq Failed'
  BY <1>2 DEF Failed
<1>3. Stages'
  BY <1>1 DEF Stages
<1>4. Pieces'
  BY <1>1 DEF Pieces
<1>5. Synced'
  <2>. SUFFICES ASSUME NEW t \in inSync \cap outdated'
                PROVE  becameOutdated' \/ t \in cp.load \cup Loading \cup Failed'
    BY <1>1 DEF Synced
  <2>1. CASE t \in outdated
    <3>1. becameOutdated \/ t \in cp.load \cup Loading \cup Failed'
      BY <2>1 DEF Synced
    <3>2. becameOutdated => becameOutdated'
      BY Zenon
    <3>. QED  BY <3>1, <3>2, Zenon
  <2>2. CASE t \notin outdated
    <3>1. outdated' # outdated
      BY <2>2
    <3>2. outdated' # outdated => becameOutdated'
      BY Zenon
    <3>. QED  BY <3>1, <3>2, Zenon
  <2>. QED  BY <2>1, <2>2
<1>6. Seen'
  <2>. SUFFICES ASSUME NEW t \in Textures, t \notin outdated' \/ t \in cp.loaded,
                       NEW p \in PagesOf[t], p \notin lost'[t]
                PROVE  p \notin Loose' /\ p \in texFresh[t] \cup Filling'
    BY <1>1, PagesOfAssumption DEF Seen, Safe, TypeOK, CpOK
  <2>1. p \notin Loose /\ p \in texFresh[t] \cup Filling
    BY <1>2 DEF Seen
  <2>2. p \notin W
    BY <1>2, PagesOfAssumption DEF Loading
  <2>3. t \notin cp.cur
    BY DEF Stages, Loading
  <2>. QED  BY <2>1, <2>2, <2>3
<1>7. Fetched'
  BY <1>1, <1>2 DEF Fetched, Loading, Safe, TypeOK, CpOK
<1>8. Drawn'
  BY <1>2 DEF Drawn, Safe, TypeOK, CpOK
<1>. QED  BY <1>3, <1>4, <1>5, <1>6, <1>7, <1>8

(* The guest's operations that may invalidate.                             *)
LEMMA SeenGuestEnds ==
  ASSUME Safe, Watching, NEW g \in Guests, HandleFault(g) \/ EndFill(g)
  PROVE  Watching'
<1>. DEFINE v == guest[g].view
            S == guest[g].pages
<1>1. v \in Views /\ S \in SUBSET Pages /\ guest[g] # Idle
  <2>1. guest[g].at # Idle.at
    BY DEF HandleFault, EndFill, Idle
  <2>2. guest[g] \in [at : {"fault", "fill"}, view : Views, pages : SUBSET Pages]
    BY <2>1 DEF Safe, TypeOK, GuestOK
  <2>. QED  BY <2>1, <2>2
<1>2. PICK exact \in BOOLEAN : TriggerCallbacks(v, S, exact)
  BY DEF HandleFault, EndFill
<1>3. PICK W \in SUBSET Pages : Fires(W) /\ (notify[v] \cap S # {} => S \subseteq W)
  <2>1. \A w \in Views : Writable(w)' = Writable(w)
    BY DEF HandleFault, EndFill, Writable
  <2>. QED  BY <1>1, <1>2, <2>1, TriggerFires DEF Safe
<1>4. S \subseteq W \cup Loose
  <2>1. S \subseteq Writable(v)
    BY <1>1 DEF Safe, Working
  <2>. QED  BY <1>1, <1>3, <2>1 DEF Loose
<1>5. Filling' \subseteq Filling /\ Filling \subseteq Filling' \cup S
  <2>1. \A h \in Guests \ {g} : guest'[h] = guest[h]
    BY DEF HandleFault, EndFill, Safe, TypeOK, GuestOK
  <2>2. guest'[g] = Idle
    BY DEF HandleFault, EndFill, Safe, TypeOK, GuestOK
  <2>3. guest'[g].at # "fill"
    BY <2>2 DEF Idle
  <2>. QED  BY <2>1, <2>3 DEF Filling
<1>6. UNCHANGED <<cp, inSync, texFresh, late>>
  BY DEF HandleFault, EndFill
<1>. QED  BY <1>3, <1>4, <1>5, <1>6, FiresKeeps

LEMMA SeenAccess ==
  ASSUME Safe, Watching, NEW v \in Views, NEW S \in SUBSET Pages,
         \/ \E a \in {"ro", "rw"} : Alloc(v, S, a)
         \/ MakeReadOnly(v, S) \/ MakeWritable(v, S) \/ Release(v, S)
  PROVE  Watching'
<1>. USE DEF Safe, TypeOK, MemOK, TexOK, CpOK
<1>1. \E W \in SUBSET Pages : Fires(W)
  <2>1. CASE MakeReadOnly(v, S) \/ Alloc(v, S, "ro")
    <3>1. UNCHANGED <<notify, valid, outdated, becameOutdated, lost, unseen>>
      BY <2>1 DEF Alloc, MakeReadOnly, gpuVars, texVars
    <3>2. access' = [access EXCEPT ![v] = [p \in Pages |-> IF p \in S THEN "ro" ELSE @[p]]]
      BY <2>1 DEF Alloc, MakeReadOnly
    <3>3. Loose' \subseteq Loose
      BY <3>1, <3>2 DEF Loose, Writable
    <3>. QED  BY <3>1, <3>3, NothingFires
  <2>2. CASE Alloc(v, S, "rw") \/ (MakeWritable(v, S) /\ notify[v] \cap S = {})
    <3>1. UNCHANGED <<notify, valid, outdated, becameOutdated>> /\ Expose(v, S)
      BY <2>2 DEF Alloc, MakeWritable
    <3>2. access' = [access EXCEPT ![v] = [p \in Pages |-> IF p \in S THEN "rw" ELSE @[p]]]
      BY <2>2 DEF Alloc, MakeWritable
    <3>3. Loose' \subseteq Loose \cup S
      BY <3>1, <3>2 DEF Loose, Writable
    <3>4. /\ \A t \in Textures : lost[t] \subseteq lost'[t]
          /\ \A t \in Textures \ cp.cur : PagesOf[t] \cap S \subseteq lost'[t]
          /\ \A t \in cp.cur : PagesOf[t] \cap (unseen' \ unseen) \subseteq lost'[t]
      BY <3>1 DEF Expose
    <3>. QED  BY <3>1, <3>3, <3>4, NothingFires
  <2>3. CASE MakeWritable(v, S) /\ notify[v] \cap S # {}
    <3>1. Invalidate(S) /\ notify' = [notify EXCEPT ![v] = @ \ S]
      BY <2>3 DEF MakeWritable
    <3>2. access' = [access EXCEPT ![v] = [p \in Pages |-> IF p \in S THEN "rw" ELSE @[p]]]
      BY <2>3 DEF MakeWritable
    <3>3. Loose' \subseteq Loose \cup S
      BY <3>1, <3>2 DEF Loose, Writable
    <3>. QED  BY <3>1, <3>3, InvalidateFires
  <2>4. CASE Release(v, S)
    <3>1. \A w \in Views : Writable(w)' \subseteq Writable(w)
      BY <2>4 DEF Release, Writable
    <3>. QED  BY <2>4, <3>1, TriggerFires DEF Release
  <2>. QED  BY <2>1, <2>2, <2>3, <2>4
<1>2. UNCHANGED <<cp, inSync, texFresh, late, guest>>
  BY DEF Alloc, MakeReadOnly, MakeWritable, Release, texVars
<1>3. Filling' = Filling
  BY <1>2 DEF Filling
<1>. QED  BY <1>1, <1>2, <1>3, FiresKeeps

(* Stores and file reads: the page is not watched, or the fill keeps it.   *)
LEMMA SeenWrite ==
  ASSUME Safe, Watching, NEW g \in Guests, NEW v \in Views, NEW S \in SUBSET Pages,
         \/ Fill(g, v, S)
         \/ \E p \in Pages : S = {p} /\ (Store(g, v, p) \/ Fault(g, v, p))
  PROVE  Watching'
<1>. USE DEF Watching
<1>1. UNCHANGED <<access, notify, cp, valid, unseen, outdated, becameOutdated, inSync, lost>>
  BY DEF Fill, Store, Fault, memVars, gpuVars, texVars
<1>2. UNCHANGED <<InFlight, Loading, Failed, Loose>>
  BY <1>1 DEF InFlight, Loading, Failed, Loose, Writable
<1>3. Filling \subseteq Filling'
  <2>1. CASE \E p \in Pages : Store(g, v, p)
    BY <2>1 DEF Store, Filling
  <2>2. CASE Fill(g, v, S) \/ \E p \in Pages : Fault(g, v, p)
    <3>1. \A h \in Guests \ {g} : guest'[h] = guest[h]
      BY <2>2 DEF Fill, Fault, Safe, TypeOK, GuestOK
    <3>2. guest[g].at = "fill" => guest'[g] = guest[g]
      BY <2>2 DEF Fill, Fault, Idle, Safe, TypeOK, GuestOK
    <3>. QED  BY <3>1, <3>2 DEF Filling
  <2>. QED  BY <2>1, <2>2
<1>4. \/ UNCHANGED <<texFresh, late>> /\ Filling' = Filling
      \/ Written(S) /\ (S \subseteq Loose \/ S \subseteq Filling')
         /\ Filling' \subseteq Filling \cup S
  <2>1. ASSUME NEW p \in Pages, S = {p}, Fault(g, v, p)
        PROVE  UNCHANGED <<texFresh, late>> /\ Filling' = Filling
    <3>1. \A h \in Guests \ {g} : guest'[h] = guest[h]
      BY <2>1 DEF Fault, Safe, TypeOK, GuestOK
    <3>2. guest[g].at # "fill" /\ guest'[g].at # "fill"
      BY <2>1 DEF Fault, Idle, Safe, TypeOK, GuestOK
    <3>. QED  BY <2>1, <3>1, <3>2 DEF Filling, Fault, texVars
  <2>2. ASSUME NEW p \in Pages, S = {p}, Store(g, v, p)
        PROVE  Written(S) /\ S \subseteq Loose /\ Filling' \subseteq Filling
    <3>1. p \in Loose
      BY <2>2 DEF Store, Safe, Guarded, Loose
    <3>. QED  BY <2>2, <3>1 DEF Store, Filling
  <2>3. CASE Fill(g, v, S)
    <3>1. \A h \in Guests \ {g} : guest'[h] = guest[h]
      BY <2>3 DEF Fill, Safe, TypeOK, GuestOK
    <3>2. guest'[g].at = "fill" /\ guest'[g].pages = S
      BY <2>3 DEF Fill, Safe, TypeOK, GuestOK
    <3>. QED  BY <2>3, <3>1, <3>2 DEF Fill, Filling
  <2>. QED  BY <2>1, <2>2, <2>3
<1>5. Stages' /\ Pieces' /\ Fetched'
  BY <1>1, <1>2 DEF Stages, Pieces, Fetched
<1>6. Synced'
  <2>1. \A t \in inSync \cap outdated :
          becameOutdated' \/ t \in cp.load \cup Loading \cup Failed
    BY <1>1, Zenon DEF Synced
  <2>. QED  BY <1>1, <1>2, <2>1, Zenon DEF Synced
<1>7. CASE UNCHANGED <<texFresh, late>> /\ Filling' = Filling
  BY <1>1, <1>2, <1>5, <1>6, <1>7 DEF Seen, Drawn
<1>8. CASE /\ Written(S) /\ (S \subseteq Loose \/ S \subseteq Filling')
           /\ Filling' \subseteq Filling \cup S
  <2>1. \A t \in Textures : texFresh'[t] = texFresh[t] \ S
    BY <1>8 DEF Written
  <2>2. Seen'
    <3>. SUFFICES ASSUME NEW t \in (Textures \ outdated) \cup cp.loaded, NEW p \in PagesOf[t],
                         p \notin lost[t]
                  PROVE  p \notin Loose /\ p \in texFresh'[t] \cup Filling'
      BY <1>1, <1>2 DEF Seen
    <3>1. p \notin Loose /\ p \in texFresh[t] \cup Filling
      BY DEF Seen
    <3>2. t \in Textures
      BY DEF Safe, TypeOK, CpOK
    <3>. QED  BY <1>3, <1>8, <2>1, <3>1, <3>2
  <2>3. Drawn'
    <3>1. cp.bound # {} => late' = late \cup S
      BY <1>8 DEF Written
    <3>2. cp.bound \subseteq Textures
      BY DEF Safe, TypeOK, CpOK
    <3>. QED  BY <1>1, <1>8, <2>1, <3>1, <3>2 DEF Drawn
  <2>. QED  BY <1>5, <1>6, <2>2, <2>3
<1>. QED  BY <1>4, <1>7, <1>8

(* The command processor: the steps of a request.                          *)
LEMMA SeenRequest ==
  ASSUME Safe, Watching, NEW B \in SUBSET Textures, RequestTextures(B)
  PROVE  Watching'
<1>. USE DEF Watching, Safe
<1>. DEFINE known == IF becameOutdated THEN {} ELSE inSync
<1>1. cp = CpIdle /\ cp.at = "idle" /\ cp.load = {} /\ cp.cur = {} /\ cp.loaded = {}
      /\ cp.todo = {} /\ cp.piece = {} /\ ~cp.gpu
  BY IdleCp DEF RequestTextures
<1>2. cp' = [cp EXCEPT !.at = "check", !.load = B \ known, !.bound = B]
      /\ inSync' = known \cup B /\ late' = Filling
      /\ UNCHANGED <<memVars, valid, outdated, texFresh, lost, guest>>
  BY DEF RequestTextures, gpuVars
<1>3. /\ cp'.at = "check" /\ cp'.load = B \ known /\ cp'.bound = B /\ cp'.cur = {}
      /\ cp'.loaded = {} /\ cp'.todo = {} /\ cp'.piece = {} /\ cp'.gpu = FALSE
  BY <1>1, <1>2 DEF CpIdle
<1>4. InFlight = {} /\ InFlight' = {} /\ Filling' = Filling /\ Loading = {} /\ Loading' = {}
      /\ UNCHANGED <<Failed, Loose>>
  BY <1>1, <1>2, <1>3 DEF InFlight, Filling, Loading, Failed, Loose, Writable, memVars
<1>5. known \cap outdated \subseteq Failed
  <2>1. CASE becameOutdated
    BY <2>1
  <2>2. CASE ~becameOutdated
    <3>1. \A t \in inSync \cap outdated : t \in Failed
      BY <1>1, <1>4, <2>2, Zenon DEF Synced
    <3>. QED  BY <3>1
  <2>. QED  BY <2>1, <2>2
<1>6. Stages' /\ Pieces' /\ Fetched'
  BY <1>3, <1>4 DEF Stages, Pieces, Fetched
<1>7. Synced'
  <2>1. \A t \in inSync' \cap outdated' : t \in cp'.load \cup Failed'
    BY <1>2, <1>3, <1>4, <1>5
  <2>. QED  BY <2>1, Zenon DEF Synced
<1>8. Seen'
  BY <1>1, <1>2, <1>3, <1>4 DEF Seen
<1>9. Drawn'
  <2>1. \A t \in B \ cp'.load : t \in (Textures \ outdated) \cup Failed
    BY <1>3, <1>5
  <2>2. \A t \in B \ cp'.load : PagesOf[t] \subseteq lost[t] \cup texFresh[t] \cup Filling
    BY <2>1 DEF Seen, Failed
  <2>. QED  BY <1>2, <1>3, <1>4, <2>2 DEF Drawn
<1>. QED  BY <1>6, <1>7, <1>8, <1>9

\* Textures, bindings and validity stay as they are.
Same == UNCHANGED <<memVars, valid, unseen, outdated, becameOutdated, inSync, texFresh, late,
                    guest>>

LEMMA SeenCheck ==
  ASSUME Safe, Watching, CheckOutdated
  PROVE  Watching'
<1>. USE DEF Watching, Safe, TypeOK, CpOK, gpuVars, texVars
<1>1. cp.at = "check" /\ Same /\ lost' = lost
      /\ cp' = [cp EXCEPT !.at = "request", !.load = @ \cap outdated]
  BY DEF CheckOutdated, Same
<1>2. /\ cp'.at = "request" /\ cp'.load = cp.load \cap outdated /\ cp'.cur = cp.cur
      /\ cp'.loaded = cp.loaded /\ cp'.bound = cp.bound /\ cp'.todo = cp.todo
      /\ cp'.piece = cp.piece /\ cp'.gpu = cp.gpu
  BY <1>1
<1>3. InFlight = {} /\ InFlight' = {} /\ Filling' = Filling /\ Loading' = Loading
      /\ UNCHANGED <<Failed, Loose>>
  BY <1>1, <1>2 DEF InFlight, Filling, Loading, Same, Failed, Loose, Writable, memVars
<1>4. Stages' /\ Pieces' /\ Fetched' /\ Seen'
  BY <1>1, <1>2, <1>3 DEF Stages, Pieces, Fetched, Seen, Uploads, Same
<1>5. Synced'
  <2>1. \A t \in inSync \cap outdated :
          becameOutdated \/ t \in (cp.load \cap outdated) \cup Loading \cup Failed
    BY Zenon DEF Synced
  <2>. QED  BY <1>1, <1>2, <1>3, <2>1, Zenon DEF Synced, Same
<1>6. Drawn'
  <2>1. \A t \in cp.bound \ (cp'.load \cup cp'.cur) :
          PagesOf[t] \subseteq texFresh[t] \cup late \cup lost[t]
    <3>. SUFFICES ASSUME NEW t \in cp.bound, t \notin cp'.load, t \notin cp.cur,
                         NEW p \in PagesOf[t]
                  PROVE  p \in texFresh[t] \cup late \cup lost[t]
      BY <1>2
    <3>1. CASE t \notin cp.load
      BY <3>1 DEF Drawn
    <3>2. CASE t \in Textures \ outdated
      BY <3>2 DEF Seen, Drawn
    <3>. QED  BY <1>2, <3>1, <3>2
  <2>. QED  BY <1>1, <1>2, <1>3, <2>1 DEF Drawn, Same
<1>. QED  BY <1>4, <1>5, <1>6

LEMMA SeenRange ==
  ASSUME Safe, Watching, NEW t \in Textures, RequestRange(t)
  PROVE  Watching'
<1>. USE DEF Watching, Safe, TypeOK, CpOK, TexOK, gpuVars
<1>1. cp.at = "request" /\ t \in cp.load /\ Same
      /\ lost' = [lost EXCEPT ![t] = PagesOf[t] \cap unseen]
      /\ cp' = [cp EXCEPT !.at = "upload", !.load = @ \ {t}, !.cur = {t},
                          !.todo = PagesOf[t] \ valid]
  BY DEF RequestRange, Same
<1>2. /\ cp'.at = "upload" /\ cp'.load = cp.load \ {t} /\ cp'.cur = {t}
      /\ cp'.loaded = cp.loaded /\ cp'.bound = cp.bound /\ cp'.todo = PagesOf[t] \ valid
      /\ cp'.piece = cp.piece /\ cp'.gpu = cp.gpu /\ ~cp.gpu
  BY <1>1 DEF Uploads
<1>3. InFlight = {} /\ InFlight' = {} /\ Filling' = Filling /\ Loading' = Loading \cup {t}
      /\ cp.cur = {} /\ t \in outdated /\ t \notin cp.loaded /\ Loose' = Loose
  BY <1>1, <1>2 DEF InFlight, Filling, Loading, Same, Stages, Loose, Writable, memVars
<1>4. /\ \A u \in Textures : u # t => lost'[u] = lost[u]
      /\ lost'[t] = PagesOf[t] \cap unseen
  BY <1>1, PagesOfAssumption
<1>5. Stages' /\ Pieces' /\ Fetched'
  BY <1>1, <1>2, <1>3, <1>4 DEF Stages, Pieces, Fetched, Same
<1>6. Seen'
  BY <1>1, <1>2, <1>3, <1>4 DEF Seen, Same
<1>7. Synced'
  <2>1. \A u \in inSync \cap outdated :
          becameOutdated \/ u \in cp'.load \cup Loading' \cup Failed'
    <3>1. cp.load \cup Loading \cup Failed \subseteq cp'.load \cup Loading' \cup Failed'
      <4>1. Failed \ {t} \subseteq Failed'
        BY <1>4 DEF Failed
      <4>. QED  BY <1>1, <1>2, <1>3, <4>1
    <3>. QED  BY <3>1, Zenon DEF Synced
  <2>. QED  BY <1>1, <2>1, Zenon DEF Synced, Same
<1>8. Drawn'
  <2>1. \A u \in cp.bound \ (cp'.load \cup cp'.cur) :
          PagesOf[u] \subseteq texFresh[u] \cup late \cup lost'[u]
    BY <1>1, <1>2, <1>3, <1>4 DEF Drawn
  <2>. QED  BY <1>1, <1>2, <1>3, <2>1 DEF Drawn, Same
<1>. QED  BY <1>5, <1>6, <1>7, <1>8

(* Buffers, and what the GPU is about to write.                            *)
LEMMA SeenBuffer ==
  ASSUME Safe, Watching, NEW S \in SUBSET Pages, RequestBuffer(S)
  PROVE  Watching'
<1>. USE DEF Watching, Safe, gpuVars, texVars
<1>1. cp = CpIdle /\ Same /\ lost' = lost
      /\ cp' = [cp EXCEPT !.at = "upload", !.todo = S \ valid]
  BY IdleCp DEF RequestBuffer, Same
<1>2. /\ cp.load = {} /\ cp.cur = {} /\ cp.loaded = {} /\ cp.bound = {}
      /\ cp'.at = "upload" /\ cp'.load = {} /\ cp'.cur = {} /\ cp'.loaded = {} /\ cp'.bound = {}
      /\ cp'.todo = S \ valid /\ cp'.piece = {} /\ cp'.gpu = FALSE
  BY <1>1 DEF CpIdle
<1>3. InFlight = {} /\ InFlight' = {} /\ Filling' = Filling /\ Loading = {} /\ Loading' = {}
      /\ UNCHANGED <<Failed, Loose>>
  BY <1>1, <1>2 DEF InFlight, Filling, Loading, Same, CpIdle, Failed, Loose, Writable, memVars
<1>4. Stages' /\ Pieces' /\ Fetched' /\ Seen' /\ Drawn'
  BY <1>1, <1>2, <1>3 DEF Stages, Pieces, Fetched, Seen, Drawn, Same
<1>5. Synced'
  <2>1. \A t \in inSync \cap outdated : becameOutdated \/ t \in Failed
    BY <1>2, <1>3, Zenon DEF Synced
  <2>. QED  BY <1>1, <1>3, <2>1, Zenon DEF Synced, Same
<1>. QED  BY <1>4, <1>5

LEMMA SeenGpu ==
  ASSUME Safe, Watching, NEW S \in SUBSET Pages, RangeWrittenByGpu(S)
  PROVE  Watching'
<1>. USE DEF Watching, Safe, gpuVars
<1>1. cp = CpIdle /\ FireWatches(S) /\ cp' = [cp EXCEPT !.at = "mark", !.piece = S, !.gpu = TRUE]
      /\ UNCHANGED <<memVars, valid, inSync, texFresh, late, lost, guest>>
  BY IdleCp DEF RangeWrittenByGpu
<1>2. /\ cp.load = {} /\ cp.cur = {} /\ cp.loaded = {} /\ cp.bound = {}
      /\ cp'.at = "mark" /\ cp'.load = {} /\ cp'.cur = {} /\ cp'.loaded = {} /\ cp'.bound = {}
      /\ cp'.todo = {} /\ cp'.piece = S /\ cp'.gpu = TRUE
  BY <1>1 DEF CpIdle
<1>3. InFlight = {} /\ InFlight' = {} /\ Filling' = Filling /\ Loading = {} /\ Loading' = {}
      /\ UNCHANGED <<Failed, Loose>>
  BY <1>1, <1>2 DEF InFlight, Filling, Loading, CpIdle, Failed, Loose, Writable, memVars
<1>4. /\ outdated' = outdated \cup {t \in Textures : PagesOf[t] \cap S # {}}
      /\ outdated' # outdated => becameOutdated'
      /\ becameOutdated => becameOutdated'
  BY <1>1, FireTells
<1>5. Stages' /\ Pieces' /\ Fetched' /\ Seen' /\ Drawn'
  BY <1>1, <1>2, <1>3, <1>4 DEF Stages, Pieces, Fetched, Seen, Drawn
<1>6. Synced'
  <2>. SUFFICES ASSUME NEW t \in inSync, t \in outdated', ~becameOutdated'
                PROVE  t \in Failed
    BY <1>1, <1>3, Zenon DEF Synced
  <2>1. outdated' = outdated /\ ~becameOutdated
    BY <1>4, Zenon
  <2>2. t \in cp.load \cup Loading \cup Failed
    BY <2>1, Zenon DEF Synced
  <2>. QED  BY <1>2, <1>3, <2>2
<1>. QED  BY <1>5, <1>6

(* The page state is reset; it is what a texture has that counts.          *)
LEMMA SeenClear ==
  ASSUME Safe, Watching, ClearCache \/ PrepareForTraceDownload
                         \/ SetSystemPageBlocksValidWithGpuDataWritten
  PROVE  Watching'
<1>. USE DEF Watching, Safe
<1>1. /\ cp.at \in {"idle", "clear"} /\ cp'.at \in {"idle", "clear"}
      /\ cp.load = {} /\ cp.cur = {} /\ cp.loaded = {} /\ cp.bound = {}
      /\ cp'.load = {} /\ cp'.cur = {} /\ cp'.loaded = {} /\ cp'.bound = {}
      /\ cp'.todo = {} /\ cp'.piece = {} /\ cp'.gpu = FALSE
  <2>1. cp.at \in {"idle", "clear"} /\ Uploads
    BY DEF ClearCache, PrepareForTraceDownload, SetSystemPageBlocksValidWithGpuDataWritten
  <2>2. /\ cp.load = {} /\ cp.cur = {} /\ cp.loaded = {} /\ cp.bound = {}
        /\ cp.todo = {} /\ cp.piece = {} /\ cp.gpu = FALSE
    BY <2>1, IdleCp
  <2>3. CASE ClearCache
    BY <2>1, <2>2, <2>3 DEF ClearCache, TypeOK, CpOK
  <2>4. CASE PrepareForTraceDownload
    BY <2>1, <2>2, <2>4 DEF PrepareForTraceDownload
  <2>5. CASE SetSystemPageBlocksValidWithGpuDataWritten
    BY <2>1, <2>2, <2>5 DEF SetSystemPageBlocksValidWithGpuDataWritten, CpIdle
  <2>. QED  BY <2>3, <2>4, <2>5
<1>2. UNCHANGED <<memVars, inSync, texFresh, late, lost, guest>>
  BY DEF ClearCache, PrepareForTraceDownload, SetSystemPageBlocksValidWithGpuDataWritten,
         texVars
<1>3. InFlight' = {} /\ Filling' = Filling /\ Loading = {} /\ Loading' = {}
      /\ UNCHANGED <<Failed, Loose>>
  BY <1>1, <1>2 DEF InFlight, Filling, Loading, Failed, Loose, Writable, memVars
<1>4. /\ outdated \subseteq outdated'
      /\ outdated' # outdated => becameOutdated'
      /\ becameOutdated => becameOutdated'
  <2>1. CASE ClearCache
    BY <2>1, FireTells DEF ClearCache
  <2>2. CASE PrepareForTraceDownload
    BY <2>2, FireTells DEF PrepareForTraceDownload
  <2>3. CASE SetSystemPageBlocksValidWithGpuDataWritten
    <3>1. UNCHANGED <<outdated, becameOutdated>>
      BY <2>3 DEF SetSystemPageBlocksValidWithGpuDataWritten, texVars
    <3>. QED  BY <3>1, Zenon
  <2>. QED  BY <2>1, <2>2, <2>3
<1>5. Stages' /\ Pieces' /\ Fetched' /\ Drawn'
  BY <1>1, <1>2, <1>3 DEF Stages, Pieces, Fetched, Drawn
<1>6. Seen'
  BY <1>1, <1>2, <1>3, <1>4 DEF Seen
<1>7. Synced'
  <2>. SUFFICES ASSUME NEW t \in inSync, t \in outdated', ~becameOutdated'
                PROVE  t \in Failed
    BY <1>2, <1>3, Zenon DEF Synced
  <2>1. outdated' = outdated /\ ~becameOutdated
    BY <1>4, Zenon
  <2>2. t \in cp.load \cup Loading \cup Failed
    BY <2>1, Zenon DEF Synced
  <2>. QED  BY <1>1, <1>3, <2>2
<1>. QED  BY <1>5, <1>6, <1>7

(* The steps of an upload.                                                 *)
LEMMA SeenPiece ==
  ASSUME Safe, Watching, NextPiece
  PROVE  Watching'
<1>. USE DEF Watching, Safe, TypeOK, CpOK, gpuVars, texVars
<1>1. PICK S \in SUBSET cp.todo : cp' = [cp EXCEPT !.at = "mark", !.piece = S]
  BY DEF NextPiece
<1>2. cp.at = "upload" /\ Same /\ lost' = lost
  BY DEF NextPiece, Same
<1>3. /\ cp'.at = "mark" /\ cp'.load = cp.load /\ cp'.cur = cp.cur
      /\ cp'.loaded = cp.loaded /\ cp'.bound = cp.bound /\ cp'.todo = cp.todo
      /\ cp'.piece = S /\ cp'.gpu = cp.gpu /\ ~cp.gpu
  BY <1>1, <1>2 DEF Uploads
<1>4. InFlight = {} /\ InFlight' = {} /\ Filling' = Filling /\ Loading' = Loading
      /\ UNCHANGED <<Failed, Loose>>
  BY <1>2, <1>3 DEF InFlight, Filling, Loading, Same, Failed, Loose, Writable, memVars
<1>5. Stages' /\ Pieces' /\ Fetched' /\ Seen' /\ Drawn'
  BY <1>2, <1>3, <1>4 DEF Stages, Pieces, Fetched, Seen, Drawn, Same
<1>6. Synced'
  BY <1>2, <1>3, <1>4, Zenon DEF Synced, Same
<1>. QED  BY <1>5, <1>6

LEMMA SeenMark ==
  ASSUME Safe, Watching, MakeRangeValid
  PROVE  Watching'
<1>. USE DEF Watching, Safe, TypeOK, CpOK, texVars
<1>1. cp.at = "mark" /\ valid' = valid \cup cp.piece /\ unseen' = unseen \ cp.piece
      /\ UNCHANGED <<memVars, outdated, becameOutdated, inSync, texFresh, late, lost, guest>>
  BY DEF MakeRangeValid
<1>2. /\ cp'.at = "enable" /\ cp'.load = cp.load /\ cp'.cur = cp.cur
      /\ cp'.loaded = cp.loaded /\ cp'.bound = cp.bound /\ cp'.todo = cp.todo
      /\ cp'.piece = cp.piece /\ cp'.gpu = cp.gpu
  BY DEF MakeRangeValid
<1>3. InFlight = {} /\ InFlight' = cp.piece /\ Filling' = Filling /\ Loading' = Loading
      /\ UNCHANGED <<Failed, Loose>>
  BY <1>1, <1>2 DEF InFlight, Filling, Loading, Failed, Loose, Writable, memVars
<1>4. Stages' /\ Pieces' /\ Drawn'
  BY <1>1, <1>2, <1>3 DEF Stages, Pieces, Drawn
<1>5. Fetched'
  BY <1>1, <1>2, <1>3 DEF Fetched
<1>6. Seen'
  BY <1>1, <1>2, <1>3 DEF Seen
<1>7. Synced'
  BY <1>1, <1>2, <1>3, Zenon DEF Synced
<1>. QED  BY <1>4, <1>5, <1>6, <1>7

LEMMA SeenEnable ==
  ASSUME Safe, Watching, NEW v \in Views, EnableAccessCallbacks(v)
  PROVE  Watching'
<1>. USE DEF Watching, Safe, TypeOK, CpOK, gpuVars, texVars
<1>1. UNCHANGED <<access, valid, unseen, outdated, becameOutdated, inSync, texFresh, late,
                  lost, guest>>
  BY DEF EnableAccessCallbacks
<1>2. /\ cp'.at = cp.at /\ cp'.load = cp.load /\ cp'.cur = cp.cur
      /\ cp'.loaded = cp.loaded /\ cp'.bound = cp.bound /\ cp'.todo = cp.todo
      /\ cp'.piece = cp.piece /\ cp'.gpu = cp.gpu
  BY DEF EnableAccessCallbacks
<1>3. InFlight' = InFlight /\ Filling' = Filling /\ Loading' = Loading /\ Failed' = Failed
  BY <1>1, <1>2 DEF InFlight, Filling, Loading, Failed
<1>. Loose' \subseteq Loose
  BY DEF EnableAccessCallbacks, Loose, Writable, MemOK
<1>4. Stages' /\ Pieces' /\ Fetched' /\ Seen' /\ Drawn'
  BY <1>1, <1>2, <1>3 DEF Stages, Pieces, Fetched, Seen, Drawn
<1>5. Synced'
  BY <1>1, <1>2, <1>3, Zenon DEF Synced
<1>. QED  BY <1>4, <1>5

LEMMA SeenCopy ==
  ASSUME Safe, Watching, Copy
  PROVE  Watching'
<1>. USE DEF Watching, Safe, TypeOK, CpOK, texVars
<1>1. cp.at = "enable" /\ ~cp.gpu /\ Same /\ lost' = lost
  BY DEF Copy, Same
<1>2. /\ cp'.at = "upload" /\ cp'.load = cp.load /\ cp'.cur = cp.cur
      /\ cp'.loaded = cp.loaded /\ cp'.bound = cp.bound /\ cp'.todo = cp.todo \ cp.piece
      /\ cp'.piece = {} /\ cp'.gpu = cp.gpu
  BY DEF Copy
<1>3. InFlight = cp.piece /\ InFlight' = {} /\ Filling' = Filling /\ Loading' = Loading
      /\ UNCHANGED <<Failed, Loose>>
  BY <1>1, <1>2 DEF InFlight, Filling, Loading, Same, Failed, Loose, Writable, memVars
<1>4. Stages' /\ Pieces' /\ Fetched' /\ Seen' /\ Drawn'
  BY <1>1, <1>2, <1>3 DEF Stages, Pieces, Fetched, Seen, Drawn, Same
<1>5. Synced'
  BY <1>1, <1>2, <1>3, Zenon DEF Synced, Same
<1>. QED  BY <1>4, <1>5

LEMMA SeenGpuWrite ==
  ASSUME Safe, Watching, GpuWrite
  PROVE  Watching'
<1>. USE DEF Watching, Safe, TypeOK, CpOK, TexOK
<1>. DEFINE out == cp.piece \cap gpuWritten
<1>1. cp.at = "enable" /\ cp.gpu /\ cp' = CpIdle
      /\ texFresh' = [t \in Textures |-> texFresh[t] \ out]
      /\ UNCHANGED <<memVars, valid, outdated, becameOutdated, inSync, late, lost, guest>>
  BY DEF GpuWrite
<1>2. /\ cp.load = {} /\ cp.cur = {} /\ cp.loaded = {} /\ cp.bound = {}
      /\ cp'.load = {} /\ cp'.cur = {} /\ cp'.loaded = {} /\ cp'.bound = {}
      /\ cp'.at = "idle" /\ cp'.todo = {} /\ cp'.piece = {} /\ cp'.gpu = FALSE
  BY <1>1 DEF CpIdle, Stages
<1>3. InFlight' = {} /\ Filling' = Filling /\ Loading' = {} /\ Loading = {}
      /\ UNCHANGED <<Failed, Loose>>
  BY <1>1, <1>2 DEF InFlight, Filling, Loading, Failed, Loose, Writable, memVars
<1>4. \A t \in Textures \ outdated : PagesOf[t] \cap cp.piece = {}
  BY <1>1 DEF Pieces
<1>5. Stages' /\ Pieces' /\ Fetched' /\ Drawn'
  BY <1>1, <1>2, <1>3 DEF Stages, Pieces, Fetched, Drawn
<1>6. Seen'
  BY <1>1, <1>2, <1>3, <1>4 DEF Seen
<1>7. Synced'
  <2>1. \A t \in inSync \cap outdated : becameOutdated \/ t \in Failed
    BY <1>2, <1>3, Zenon DEF Synced
  <2>. QED  BY <1>1, <1>3, <2>1, Zenon DEF Synced
<1>. QED  BY <1>5, <1>6, <1>7

(* A load that fails leaves nothing to tell the texture of.                *)
LEMMA SeenFails ==
  ASSUME Safe, Watching, RequestFails
  PROVE  Watching'
<1>. USE DEF Watching, Safe, TypeOK, CpOK, TexOK, gpuVars
<1>1. cp.at = "upload" /\ Same
      /\ lost' = [t \in Textures |-> IF t \in cp.cur THEN PagesOf[t] ELSE lost[t]]
  BY DEF RequestFails, Same
<1>2. /\ cp'.at \in {"idle", "request"} /\ cp'.load = cp.load /\ cp'.cur = {}
      /\ cp'.loaded = cp.loaded /\ cp'.bound = cp.bound /\ cp'.todo = {}
      /\ ~cp'.gpu
  <2>1. CASE cp.cur = {}
    <3>1. cp' = CpIdle /\ cp.load = {} /\ cp.loaded = {} /\ cp.bound = {}
      BY <1>1, <2>1 DEF RequestFails, Stages
    <3>. QED  BY <3>1 DEF CpIdle
  <2>2. CASE cp.cur # {}
    <3>1. ~cp.gpu
      BY <1>1 DEF Uploads
    <3>2. cp' = [cp EXCEPT !.at = "request", !.cur = {}, !.todo = {}]
      BY <2>2 DEF RequestFails
    <3>. QED  BY <3>1, <3>2
  <2>. QED  BY <2>1, <2>2
<1>3. InFlight = {} /\ InFlight' = {} /\ Filling' = Filling /\ Loading' = cp.loaded
      /\ Loading = cp.cur \cup cp.loaded /\ Loose' = Loose
  BY <1>1, <1>2 DEF InFlight, Filling, Loading, Same, Loose, Writable, memVars
<1>4. /\ \A t \in cp.cur : lost'[t] = PagesOf[t]
      /\ \A t \in Textures : lost[t] \subseteq lost'[t] \/ t \in cp.cur
      /\ Failed \cup cp.cur \subseteq Failed'
  BY <1>1 DEF Failed
<1>5. Stages' /\ Pieces' /\ Fetched'
  BY <1>1, <1>2, <1>3 DEF Stages, Pieces, Fetched, Same
<1>6. Seen'
  BY <1>1, <1>2, <1>3, <1>4 DEF Seen, Same
<1>7. Synced'
  <2>1. cp.load \cup Loading \cup Failed \subseteq cp'.load \cup Loading' \cup Failed'
    BY <1>2, <1>3, <1>4
  <2>2. \A t \in inSync \cap outdated :
          becameOutdated \/ t \in cp'.load \cup Loading' \cup Failed'
    BY <2>1, Zenon DEF Synced
  <2>. QED  BY <1>1, <2>2, Zenon DEF Synced, Same
<1>8. Drawn'
  BY <1>1, <1>2, <1>3, <1>4 DEF Drawn, Same
<1>. QED  BY <1>5, <1>6, <1>7, <1>8

(* The texture is made, and watched; the draw is over.                     *)
LEMMA SeenLoad ==
  ASSUME Safe, Watching, LoadTexture
  PROVE  Watching'
<1>. USE DEF Watching, Safe, TypeOK, CpOK, TexOK, gpuVars
<1>1. cp.at = "upload" /\ cp.todo = {} /\ cp.cur # {}
      /\ UNCHANGED <<memVars, valid, unseen, fresh, outdated, becameOutdated, inSync, late, lost, guest>>
      /\ texFresh' = [t \in Textures |-> IF t \in cp.cur THEN PagesOf[t] \cap fresh
                                         ELSE texFresh[t]]
  BY DEF LoadTexture
<1>2. /\ cp'.at = "request" /\ cp'.load = cp.load /\ cp'.cur = {}
      /\ cp'.loaded = cp.loaded \cup cp.cur /\ cp'.bound = cp.bound /\ cp'.todo = cp.todo
      /\ cp'.piece = cp.piece /\ cp'.gpu = cp.gpu
  BY DEF LoadTexture
<1>3. InFlight = {} /\ InFlight' = {} /\ Filling' = Filling /\ Loading' = Loading
      /\ UNCHANGED <<Failed, Loose>>
  BY <1>1, <1>2 DEF InFlight, Filling, Loading, Failed, Loose, Writable, memVars
<1>4. \A t \in cp.cur : \A p \in PagesOf[t] :
        p \in lost[t] \/ (p \notin Loose /\ p \in fresh \cup Filling)
  <2>1. \A t \in cp.cur : PagesOf[t] \subseteq lost[t] \cup (valid \ unseen)
    BY <1>1 DEF Fetched
  <2>2. (valid \ unseen) \cap Loose = {}
    BY <1>3 DEF Watched, Loose
  <2>. QED  BY <1>3, <2>1, <2>2 DEF Current
<1>5. Stages' /\ Pieces' /\ Fetched'
  BY <1>1, <1>2, <1>3 DEF Stages, Pieces, Fetched
<1>6. Seen'
  <2>1. \A t \in Textures \cap cp.cur : texFresh'[t] = PagesOf[t] \cap fresh
    BY <1>1
  <2>2. \A t \in Textures \ cp.cur : texFresh'[t] = texFresh[t]
    BY <1>1
  <2>. QED  BY <1>1, <1>2, <1>3, <1>4, <2>1, <2>2 DEF Seen
<1>7. Synced'
  BY <1>1, <1>2, <1>3, Zenon DEF Synced
<1>8. Drawn'
  <2>1. cp.bound # {}  => Filling \subseteq late
    BY DEF Drawn
  <2>. SUFFICES ASSUME NEW t \in cp.bound, t \notin cp.load, NEW p \in PagesOf[t]
                PROVE  p \in texFresh'[t] \cup late \cup lost[t]
    BY <1>1, <1>2, <1>3, <2>1 DEF Drawn
  <2>2. CASE t \in cp.cur
    BY <1>1, <1>4, <2>1, <2>2
  <2>3. CASE t \notin cp.cur
    BY <1>1, <2>3 DEF Drawn
  <2>. QED  BY <2>2, <2>3
<1>. QED  BY <1>5, <1>6, <1>7, <1>8

LEMMA SeenWatch ==
  ASSUME Safe, Watching, MakeUpToDateAndWatch
  PROVE  Watching'
<1>. USE DEF Watching, Safe, TypeOK, CpOK, gpuVars
<1>1. cp.at = "request" /\ cp.load = {} /\ outdated' = outdated \ cp.loaded
      /\ UNCHANGED <<memVars, valid, unseen, becameOutdated, inSync, texFresh, late, lost, guest>>
  BY DEF MakeUpToDateAndWatch
<1>2. /\ cp'.at = "draw" /\ cp'.load = cp.load /\ cp'.cur = cp.cur
      /\ cp'.loaded = {} /\ cp'.bound = cp.bound /\ cp'.todo = cp.todo
      /\ cp'.piece = cp.piece /\ cp'.gpu = cp.gpu
  BY DEF MakeUpToDateAndWatch
<1>3. InFlight = {} /\ InFlight' = {} /\ Filling' = Filling /\ Loading' = {}
      /\ cp.cur = {} /\ Loading = cp.loaded /\ ~cp.gpu
      /\ UNCHANGED <<Failed, Loose>>
  BY <1>1, <1>2 DEF InFlight, Filling, Loading, Stages, Uploads, Failed, Loose, Writable, memVars
<1>4. Stages' /\ Pieces' /\ Fetched' /\ Seen' /\ Drawn'
  BY <1>1, <1>2, <1>3 DEF Stages, Pieces, Fetched, Seen, Drawn
<1>5. Synced'
  <2>1. \A t \in inSync \cap outdated' : becameOutdated \/ t \in Failed
    <3>. SUFFICES ASSUME NEW t \in inSync, t \in outdated, t \notin cp.load \cup Loading
                  PROVE  becameOutdated \/ t \in Failed
      BY <1>1, <1>3
    <3>. QED  BY Zenon DEF Synced
  <2>. QED  BY <1>1, <1>3, <2>1, Zenon DEF Synced
<1>. QED  BY <1>4, <1>5

LEMMA SeenDone ==
  ASSUME Safe, Watching, Done
  PROVE  Watching'
<1>. USE DEF Watching, Safe, gpuVars
<1>1. cp' = CpIdle /\ UNCHANGED <<memVars, valid, unseen, outdated, becameOutdated, inSync, texFresh, lost, guest>>
  BY DEF Done
<1>2. cp.load = {} /\ cp.cur = {} /\ cp.loaded = {} /\ cp.at # "enable"
  BY DEF Done, Stages
<1>3. /\ cp'.at = "idle" /\ cp'.load = {} /\ cp'.cur = {} /\ cp'.loaded = {} /\ cp'.bound = {}
      /\ cp'.todo = {} /\ cp'.piece = {} /\ cp'.gpu = FALSE
  BY <1>1 DEF CpIdle
<1>4. InFlight = {} /\ InFlight' = {} /\ Filling' = Filling /\ Loading' = {} /\ Loading = {}
      /\ UNCHANGED <<Failed, Loose>>
  BY <1>1, <1>2, <1>3 DEF InFlight, Filling, Loading, Failed, Loose, Writable, memVars
<1>5. Stages' /\ Pieces' /\ Fetched' /\ Seen' /\ Drawn'
  BY <1>1, <1>2, <1>3, <1>4 DEF Stages, Pieces, Fetched, Seen, Drawn
<1>6. Synced'
  <2>1. \A t \in inSync \cap outdated : becameOutdated \/ t \in Failed
    BY <1>2, <1>4, Zenon DEF Synced
  <2>. QED  BY <1>1, <1>4, <2>1, Zenon DEF Synced
<1>. QED  BY <1>5, <1>6

LEMMA WatchingInit == Init => Watching
<1>. SUFFICES ASSUME Init
              PROVE  Watching
  OBVIOUS
<1>1. /\ cp = CpIdle /\ valid = {} /\ outdated = Textures /\ inSync = {}
      /\ Filling = {} /\ Loading = {} /\ InFlight = {}
  BY DEF Init, Filling, Loading, InFlight, CpIdle, Idle
<1>2. Stages /\ Pieces /\ Synced /\ Seen /\ Fetched /\ Drawn
  BY <1>1 DEF Stages, Pieces, Synced, Seen, Fetched, Drawn, CpIdle
<1>. QED  BY <1>2 DEF Watching

LEMMA WatchingStep ==
  ASSUME Safe, Watching, [Next]_vars
  PROVE  Watching'
<1>1. CASE UNCHANGED vars
  <2>1. /\ UNCHANGED <<memVars, valid, unseen, outdated, inSync, texFresh, late, lost, guest, cp>>
        /\ UNCHANGED becameOutdated
    BY <1>1 DEF vars, gpuVars, texVars
  <2>2. UNCHANGED <<InFlight, Filling, Loading, Failed, Loose>>
    BY <2>1 DEF InFlight, Filling, Loading, Failed, Loose, Writable, memVars
  <2>3. Stages' /\ Pieces' /\ Fetched' /\ Seen' /\ Drawn'
    BY <2>1, <2>2 DEF Stages, Pieces, Fetched, Seen, Drawn, Watching
  <2>4. Synced'
    BY <2>1, <2>2, Zenon DEF Synced, Watching
  <2>. QED  BY <2>3, <2>4 DEF Watching
<1>2. CASE GuestNext
  <2>1. ASSUME NEW g \in Guests, NEW v \in Views, NEW p \in Pages, Store(g, v, p) \/ Fault(g, v, p)
        PROVE  Watching'
    <3>1. {p} \in SUBSET Pages
      OBVIOUS
    <3>. QED  BY <2>1, <3>1, SeenWrite
  <2>2. ASSUME NEW g \in Guests, NEW v \in Views, NEW S \in Reads, Fill(g, v, S)
        PROVE  Watching'
    <3>1. S \in SUBSET Pages
      BY AllocationsAssumption
    <3>. QED  BY <2>2, <3>1, SeenWrite
  <2>3. ASSUME NEW v \in Views, NEW S \in Allocations,
               \/ \E a \in {"ro", "rw"} : Alloc(v, S, a)
               \/ MakeReadOnly(v, S) \/ MakeWritable(v, S) \/ Release(v, S)
        PROVE  Watching'
    <3>1. S \in SUBSET Pages
      BY AllocationsAssumption
    <3>. QED  BY <2>3, <3>1, SeenAccess
  <2>. QED  BY <1>2, <2>1, <2>2, <2>3, SeenGuestEnds DEF GuestNext
<1>3. CASE CommandProcessor
  <2>1. ASSUME NEW S \in Ranges, RequestBuffer(S) \/ RangeWrittenByGpu(S)
        PROVE  Watching'
    BY <2>1, RangePages, SeenBuffer, SeenGpu
  <2>2. ASSUME NEW B \in SUBSET Textures \ {{}}, RequestTextures(B)
        PROVE  Watching'
    BY <2>2, SeenRequest
  <2>. QED
    BY <1>3, <2>1, <2>2, SeenRange, SeenEnable, SeenCheck, SeenPiece, SeenMark, SeenCopy,
       SeenGpuWrite, SeenLoad, SeenWatch, SeenDone, SeenClear,
       SeenFails
    DEF CommandProcessor
<1>. QED  BY <1>1, <1>2, <1>3 DEF Next

(* A draw sees in its textures every store made before it requested them,  *)
(* save on the pages it is not told of: those invalidated while it was     *)
(* being loaded or made writable without a watch, or all of them if its    *)
(* load failed (texture_cache.cc, shared_memory.cc).                       *)
THEOREM DrawsSee == Spec => []DrawSeesStores
<1>1. Watching => DrawSeesStores
  BY DEF Watching, Stages, Drawn, DrawSeesStores
<1>2. Safe /\ [Next]_vars => Safe'
  BY SafeStep
<1>3. Safe /\ Watching /\ [Next]_vars => Watching'
  BY WatchingStep
<1>. QED  BY SafeInit, WatchingInit, <1>1, <1>2, <1>3, PTL DEF Spec
==============================================================================
