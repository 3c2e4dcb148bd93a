------------------------------ MODULE GuestThread -----------------------------
(***************************************************************************)
(* XThread::Suspend, Resume and SelfSuspend (kernel/xthread.cc) over the   *)
(* host thread that HostThread models: X_KTHREAD::suspend_count in guest   *)
(* memory, and the host's own suspend count that is meant to follow it.    *)
(* NtSuspendThread and KeSuspendThread, NtResumeThread and KeResumeThread  *)
(* are the guest's ways in.  On the calling thread itself NtSuspendThread  *)
(* calls SelfSuspend, and KeSuspendThread calls Suspend as for any other.  *)
(*                                                                         *)
(* Resume and SelfSuspend read and write the count under suspend_mutex_,   *)
(* in two steps; Suspend adds to it with an atomic instruction and without *)
(* the mutex.                                                              *)
(***************************************************************************)
EXTENDS HostThread

CONSTANTS Titles   \* who suspends and resumes the thread, and how deep

Self == "self"        \* the guest thread itself, as a caller
Nobody == "free"
Caller == Controller \cup {Self}

ASSUME CallerAssumption == Self \notin Controller /\ Nobody \notin Controller

\* ke: where the thread suspends itself, it does so by KeSuspendThread.
Title == [suspend : SUBSET Caller, resume : SUBSET Controller, depth : 1..255, ke : BOOLEAN]
ASSUME TitleAssumption == Titles \subseteq Title

VARIABLES
  title,   \* what the title does; never changes
  guest,   \* X_KTHREAD::suspend_count
  suspend_mutex,   \* who holds it
  seen,    \* the count read by a caller before it writes it back
  gcall,   \* what each caller has left to do in its XThread call
  gdebt    \* guest suspensions not yet answered by a guest resume

guestVars == <<title, guest, suspend_mutex, seen, gcall, gdebt>>
allVars == <<hostVars, guestVars>>

(* XThread::Create made the host thread suspended, and it has parked; a    *)
(* thread not created suspended is about to be resumed by its creator.     *)
(* (The time before the host thread parks is HostThread's.)                *)
GuestInit ==
  /\ title \in Titles
  /\ create_suspended \in CreateModes \cap {TRUE}
  /\ state = "suspended" /\ count = 1 /\ sem = 0 /\ signals = 0
  /\ signaled = FALSE /\ handler = FALSE
  /\ at = "parked"
  /\ call = [c \in Controller |-> "none"]
  /\ debt = 1
  /\ suspend_mutex = Nobody
  /\ seen = [c \in Caller |-> 0]
  /\ \/ guest = 1 /\ gdebt = 1 /\ gcall = [c \in Caller |-> "none"]
     \/ /\ guest = 0 /\ gdebt = 0
        /\ \E creator \in title.resume :
             gcall = [c \in Caller |-> IF c = creator THEN "hostResume" ELSE "none"]

GCall(c, from, to) == gcall[c] = from /\ gcall' = [gcall EXCEPT ![c] = to]
------------------------------------------------------------------------------
(* XThread::Suspend, called by another thread or by the thread itself *)

Runs(c) == IF c = Self THEN Executing ELSE call[c] = "none"

\* fetch_add(1) on the byte
SuspendCount(c) ==
  /\ c \in title.suspend /\ (c = Self => title.ke)
  /\ Runs(c) /\ gdebt < title.depth
  /\ GCall(c, "none", "suspendTest")
  /\ guest' = (guest + 1) % 256
  /\ gdebt' = gdebt + 1
  /\ UNCHANGED <<title, hostVars, suspend_mutex, seen>>

\* The count is read again: zero, after a wrap or a resume, means not suspended.
SuspendTest(c) ==
  /\ Runs(c)
  /\ GCall(c, "suspendTest", IF guest = 0 THEN "none" ELSE "hostSuspend")
  /\ UNCHANGED <<title, hostVars, guest, suspend_mutex, seen, gdebt>>

SuspendHost(c) ==
  /\ GCall(c, "hostSuspend", "none")
  /\ IF c = Self THEN SuspendSelf ELSE Suspend(c)
  /\ UNCHANGED <<create_suspended, title, guest, suspend_mutex, seen, gdebt>>
------------------------------------------------------------------------------
(* XThread::Resume *)

ResumeCall(c) ==
  /\ c \in title.resume
  /\ call[c] = "none"
  /\ GCall(c, "none", "resumeLock")
  /\ UNCHANGED <<title, hostVars, guest, suspend_mutex, seen, gdebt>>

ResumeRead(c) ==
  /\ suspend_mutex = Nobody
  /\ GCall(c, "resumeLock", "resumeStore")
  /\ suspend_mutex' = c
  /\ seen' = [seen EXCEPT ![c] = guest]
  /\ UNCHANGED <<title, hostVars, guest, gdebt>>

\* Mutant: the host thread is not resumed.
ResumeStore_NoHost(c) ==
  /\ GCall(c, "resumeStore", "none")
  /\ guest' = IF seen[c] > 0 THEN seen[c] - 1 ELSE guest
  /\ suspend_mutex' = Nobody
  /\ gdebt' = IF seen[c] > 0 THEN Settle(gdebt) ELSE gdebt
  /\ UNCHANGED <<title, hostVars, seen>>

\* Mutant: suspend_cv_ is not notified.
ResumeStore_NoNotify(c) ==
  /\ guest' = IF seen[c] > 0 THEN seen[c] - 1 ELSE guest
  /\ GCall(c, "resumeStore", IF guest' = 0 THEN "hostResume" ELSE "none")
  /\ suspend_mutex' = Nobody
  /\ gdebt' = IF seen[c] > 0 THEN Settle(gdebt) ELSE gdebt
  /\ UNCHANGED <<title, hostVars, seen>>

\* Mutant: the zero that was read is written back too, over a Suspend in between.
ResumeStore_WritesZero(c) ==
  /\ gcall[c] = "resumeStore"
  /\ guest' = Settle(seen[c])
  /\ gcall' = [gcall EXCEPT ![c] = IF guest' = 0 THEN "hostResume" ELSE "none",
                            ![Self] = IF @ = "waiting" THEN "notified" ELSE @]
  /\ suspend_mutex' = Nobody
  /\ gdebt' = IF seen[c] > 0 THEN Settle(gdebt) ELSE gdebt
  /\ UNCHANGED <<title, hostVars, seen>>

\* Writes the count back, notifies suspend_cv_ and leaves the mutex.
ResumeStore(c) ==
  /\ gcall[c] = "resumeStore"
  /\ guest' = IF seen[c] > 0 THEN seen[c] - 1 ELSE guest
  /\ gcall' = [gcall EXCEPT ![c] = IF guest' = 0 THEN "hostResume" ELSE "none",
                            ![Self] = IF @ = "waiting" THEN "notified" ELSE @]
  /\ suspend_mutex' = Nobody
  /\ gdebt' = IF seen[c] > 0 THEN Settle(gdebt) ELSE gdebt
  /\ UNCHANGED <<title, hostVars, seen>>

ResumeHost(c) ==
  /\ GCall(c, "hostResume", "none")
  /\ Resume(c)
  /\ UNCHANGED <<create_suspended, title, guest, suspend_mutex, seen, gdebt>>
------------------------------------------------------------------------------
(* XThread::SelfSuspend: steps of the guest thread's own code, which stops *)
(* wherever the suspend signal finds it, the mutex held or not.            *)

SelfRead ==
  /\ Self \in title.suspend /\ ~title.ke
  /\ Executing
  /\ suspend_mutex = Nobody /\ gdebt < title.depth
  /\ GCall(Self, "none", "store")
  /\ suspend_mutex' = Self
  /\ seen' = [seen EXCEPT ![Self] = guest]
  /\ UNCHANGED <<title, hostVars, guest, gdebt>>

\* Mutant: the wait keeps suspend_mutex_.
SelfStore_KeepsMutex ==
  /\ Executing
  /\ GCall(Self, "store", "waiting")
  /\ guest' = seen[Self] + 1
  /\ gdebt' = gdebt + 1
  /\ UNCHANGED <<title, hostVars, suspend_mutex, seen>>

SelfStore ==
  /\ Executing
  /\ GCall(Self, "store", "waiting")
  /\ guest' = seen[Self] + 1
  /\ suspend_mutex' = Nobody
  /\ gdebt' = gdebt + 1
  /\ UNCHANGED <<title, hostVars, seen>>

\* Back in suspend_cv_.wait with the mutex taken again: the predicate decides.
SelfWake ==
  /\ Executing
  /\ suspend_mutex = Nobody
  /\ suspend_mutex' = Self
  /\ GCall(Self, "notified", IF guest = 0 THEN "leaving" ELSE "again")
  /\ UNCHANGED <<title, hostVars, guest, seen, gdebt>>

SelfUnlock ==
  /\ Executing
  /\ \/ GCall(Self, "leaving", "none")
     \/ GCall(Self, "again", "waiting")
  /\ suspend_mutex' = Nobody
  /\ UNCHANGED <<title, hostVars, guest, seen, gdebt>>
------------------------------------------------------------------------------
HostStep ==
  /\ ThreadStep \/ \E c \in Controller : Kill(c)
  /\ UNCHANGED <<create_suspended, guestVars>>

SelfStep == \/ SelfStore \/ SelfWake \/ SelfUnlock
            \/ SuspendTest(Self) \/ SuspendHost(Self)

GuestStep(c) == \/ SuspendTest(c) \/ SuspendHost(c)
                \/ ResumeRead(c) \/ ResumeStore(c) \/ ResumeHost(c)

GuestNext == \/ HostStep \/ SelfRead \/ SelfStep \/ SuspendCount(Self)
             \/ \E c \in Controller :
                  SuspendCount(c) \/ ResumeCall(c) \/ GuestStep(c)

GuestSpec == GuestInit /\ [][GuestNext]_allVars

(* As in HostThread: threads that can run do, calls that began go on.  A   *)
(* thread that keeps asking for suspend_mutex_ gets it in the end: its     *)
(* other users hold it for a few instructions.                             *)
GuestFairness == /\ WF_allVars(HostStep)
                 /\ SF_allVars(SelfStep)
                 /\ \A c \in Controller : SF_allVars(GuestStep(c))

GuestFairSpec == GuestSpec /\ GuestFairness
------------------------------------------------------------------------------
GuestTypeOK == /\ HostTypeOK
               /\ guest \in 0..255
               /\ gdebt \in 0..title.depth
               /\ suspend_mutex \in Caller \cup {Nobody}
               /\ seen \in [Caller -> 0..255]

Quiescent == \A c \in Caller : gcall[c] \in {"none", "waiting"}

(* The count in guest memory is the number of unanswered suspensions: no   *)
(* suspension and no resume is lost between a read and a write of it, in   *)
(* well-typed states.                                                      *)
GuestCountExact == GuestTypeOK /\ guest = gdebt

\* No two calls of Suspend and Resume overlap, and suspensions do not nest.
OneDeep(ti) ==
  \/ ti.suspend \cap Controller = {} /\ ~ti.ke
  \/ ti.depth = 1 /\ \E c \in Controller : ti.suspend \cup ti.resume \subseteq {c}

(* The two counts tell the same story between calls: the host thread is    *)
(* suspended on behalf of others exactly while the guest's count says so   *)
(* (xthread.cc:910 "Try to resume host thread if fully resumed").  Not     *)
(* where a Resume can come between the count and the host's Suspend: that  *)
(* thread stays suspended (FullyResumedRuns).                              *)
CountsAgree ==
  OneDeep(title) /\ Quiescent /\ gcall[Self] = "none" => (guest = 0 <=> count = 0)

(* The resume that brings the count to zero finds the self-suspended       *)
(* thread waiting, or about to look at the count, never on its way into    *)
(* suspend_cv_.wait with an older count (xthread.cc:907, 952).             *)
NoNotifyMissed == gcall[Self] \in {"again", "waiting"} => guest > 0

(* A guest thread that is fully resumed and is in no call is not left      *)
(* suspended on the host.                                                  *)
FullyResumedRuns == Quiescent /\ guest = 0 => count = 0

(* A self-suspended thread continues once resumes have brought its count   *)
(* to zero, unless it is raised again.                                     *)
SelfSuspendEnds == guest = 0 ~> guest > 0 \/ gcall[Self] = "none"

(* A call to XThread::Resume returns (xboxkrnl_threading.cc:249 "Handle    *)
(* self-suspension specially to avoid deadlock").                          *)
ResumeReturns == \A c \in Controller : gcall[c] = "resumeLock" ~> gcall[c] = "none"
==============================================================================
