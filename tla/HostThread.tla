------------------------------ MODULE HostThread ------------------------------
(***************************************************************************)
(* One host thread of the POSIX backend, PosixCondition<Thread> in         *)
(* base/threading_posix.cc, and the threads that suspend, resume and       *)
(* terminate it.                                                           *)
(*                                                                         *)
(* A suspended thread blocks in sem_wait(&suspend_sem_), usually inside    *)
(* the handler of the suspend signal; a thread created suspended blocks on *)
(* a condition variable instead.  state_ and suspend_count_ are guarded by *)
(* state_mutex_: one action per critical section, one per signal sent,     *)
(* delivered or semaphore taken.                                           *)
(*                                                                         *)
(* debt is what the callers asked for: the suspensions not yet answered by *)
(* a resume.  It changes with the calls and is read by properties only.    *)
(***************************************************************************)
EXTENDS Naturals, FiniteSets

CONSTANTS Controller,       \* threads that call Suspend, Resume, Terminate
          CreateModes,      \* the values create_suspended may have
          MaxCount,         \* bound on the suspensions outstanding
          MaxPending        \* bound on the signals queued and the posts unused

ASSUME CreateAssumption == CreateModes \subseteq BOOLEAN
ASSUME ControllerAssumption == IsFiniteSet(Controller)
ASSUME CountAssumption == MaxCount \in Nat \ {0} /\ MaxPending \in Nat \ {0}

VARIABLES
  create_suspended,  \* CreationParameters::create_suspended, never changes
  state,     \* state_
  count,     \* suspend_count_
  sem,       \* value of suspend_sem_
  signaled,  \* signaled_: the thread object can be waited for
  signals,   \* suspend signals queued for the thread (SIGRTMIN: they queue)
  handler,   \* the thread is in signal_handler's WaitSuspended
  at,        \* where the thread is, outside of the handler
  call,      \* what each controller has left to do in its call
  debt

hostVars == <<create_suspended, state, count, sem, signaled, signals, handler, at, call, debt>>

States == {"uninitialized", "running", "suspended", "finished"}

Places == {"boot",    \* ThreadStartRoutine, before state_ is set
           "arm",     \* created suspended, before suspend_count_ is set
           "parked",  \* created suspended, waiting for suspend_count_ = 0
           "run",     \* in start_routine
           "self",    \* suspended itself, in sem_wait
           "finish",  \* state_ is kFinished, signaled_ not yet set
           "exit",    \* signaled_ set, still current_thread_
           "trap",    \* Thread::Exit after a Terminate: waits to be cancelled
           "gone"}    \* returned or cancelled

HostInit == /\ create_suspended \in CreateModes
        /\ state = "uninitialized"
        /\ count = 0 /\ sem = 0 /\ signals = 0
        /\ signaled = FALSE /\ handler = FALSE
        /\ at = "boot"
        /\ call = [c \in Controller |-> "none"]
        /\ debt = IF create_suspended THEN 1 ELSE 0

Settle(n) == IF n > 0 THEN n - 1 ELSE 0

\* The thread runs its own code, not the signal handler.
Move(from, to) == ~handler /\ at = from /\ at' = to
------------------------------------------------------------------------------
(* ThreadStartRoutine *)

Boot ==
  /\ Move("boot", IF create_suspended THEN "arm" ELSE "run")
  /\ state' = IF create_suspended THEN "suspended" ELSE "running"
  /\ UNCHANGED <<count, sem, signaled, signals, handler, call, debt>>

Arm ==
  /\ Move("arm", "parked")
  /\ count' = 1
  /\ UNCHANGED <<state, sem, signaled, signals, handler, call, debt>>

Unpark ==
  /\ Move("parked", "run")
  /\ count = 0
  /\ UNCHANGED <<state, count, sem, signaled, signals, handler, call, debt>>

\* start_routine returns, or the thread calls Thread::Exit: the same steps.
FinishRoutine ==
  /\ Move("run", "finish")
  /\ state' = "finished"
  /\ UNCHANGED <<count, sem, signaled, signals, handler, call, debt>>

\* Thread::Exit when state_ is kFinished already, and the thread not cancelled.
ExitTwice ==
  /\ state = "finished"
  /\ Move("run", "trap")
  /\ UNCHANGED <<state, count, sem, signaled, signals, handler, call, debt>>

SetSignaled ==
  /\ Move("finish", "exit")
  /\ signaled' = TRUE
  /\ UNCHANGED <<state, count, sem, signals, handler, call, debt>>

ReturnFromRoutine ==
  /\ Move("exit", "gone")
  /\ UNCHANGED <<state, count, sem, signaled, signals, handler, call, debt>>
------------------------------------------------------------------------------
(* The suspend signal: signal_handler and WaitSuspended *)

\* Before current_thread_ is set the handler returns at once.
TakeSignal ==
  /\ ~handler /\ signals > 0
  /\ at # "gone"
  /\ signals' = signals - 1
  /\ handler' \in (IF at = "boot" THEN BOOLEAN ELSE {TRUE})
  /\ UNCHANGED <<state, count, sem, signaled, at, call, debt>>

LeaveHandler ==
  /\ handler /\ sem > 0
  /\ at # "gone"
  /\ sem' = sem - 1
  /\ handler' = FALSE
  /\ UNCHANGED <<state, count, signaled, signals, at, call, debt>>

\* Suspend() on the calling thread: no signal, and no effect beyond the count
\* when the thread is already marked suspended.
SuspendSelf ==
  /\ debt < MaxCount
  /\ Move("run", IF state = "suspended" THEN "run" ELSE "self")
  /\ state' = "suspended"
  /\ count' = count + 1
  /\ debt' = debt + 1
  /\ UNCHANGED <<sem, signaled, signals, handler, call>>

LeaveSelf ==
  /\ sem > 0
  /\ Move("self", "run")
  /\ sem' = sem - 1
  /\ UNCHANGED <<state, count, signaled, signals, handler, call, debt>>
------------------------------------------------------------------------------
(* The controllers; WaitStarted() is the first guard of Suspend and Resume, but *)
(* not of Terminate, whose state_ a thread that is still booting writes over.   *)

Call(c, from, to) == call[c] = from /\ call' = [call EXCEPT ![c] = to]

\* Mutant: already_suspended is read after state_ was set, so nobody is signalled.
Suspend_Silent(c) ==
  /\ state # "uninitialized" /\ call[c] = "none"
  /\ debt < MaxCount
  /\ state' = "suspended" /\ count' = count + 1 /\ debt' = debt + 1
  /\ UNCHANGED <<sem, signaled, signals, handler, at, call>>

Suspend(c) ==
  /\ state # "uninitialized"
  /\ debt < MaxCount
  /\ Call(c, "none", IF state = "suspended" THEN "none" ELSE "kill")
  /\ state' = "suspended"
  /\ count' = count + 1
  /\ debt' = debt + 1
  /\ UNCHANGED <<sem, signaled, signals, handler, at>>

\* pthread_kill, after state_mutex_ was released.
Kill(c) ==
  /\ signals < MaxPending
  /\ Call(c, "kill", "none")
  /\ signals' = IF at = "gone" THEN signals ELSE signals + 1
  /\ UNCHANGED <<state, count, sem, signaled, handler, at, debt>>

\* Mutant: every resume posts, not only the one that reaches zero.
Resume_PostsAlways(c) ==
  /\ state # "uninitialized" /\ call[c] = "none"
  /\ count > 0 /\ sem < MaxPending
  /\ debt' = Settle(debt) /\ count' = count - 1 /\ sem' = sem + 1
  /\ state' = IF count = 1 /\ state = "suspended" THEN "running" ELSE state
  /\ UNCHANGED <<signaled, signals, handler, at, call>>

\* Mutant: the semaphore is not posted.
Resume_NoPost(c) ==
  /\ state # "uninitialized" /\ call[c] = "none"
  /\ count > 0
  /\ debt' = Settle(debt) /\ count' = count - 1
  /\ state' = IF count = 1 /\ state = "suspended" THEN "running" ELSE state
  /\ UNCHANGED <<sem, signaled, signals, handler, at, call>>

Resume(c) ==
  /\ state # "uninitialized"
  /\ call[c] = "none"
  /\ debt' = Settle(debt)
  /\ \/ /\ count = 0                      \* returns false
        /\ UNCHANGED <<state, count, sem>>
     \/ /\ count > 0
        /\ count' = count - 1
        /\ IF count = 1 /\ state = "suspended"
           THEN sem < MaxPending /\ state' = "running" /\ sem' = sem + 1
           ELSE UNCHANGED <<state, sem>>
  /\ UNCHANGED <<signaled, signals, handler, at, call>>

\* Mutant: goes on to pthread_cancel without setting signaled_.
Terminate_Unsignaled(c) ==
  /\ state # "finished"
  /\ Call(c, "none", "cancel")
  /\ state' = "finished"
  /\ UNCHANGED <<count, sem, signaled, signals, handler, at, debt>>

Terminate(c) ==
  /\ state # "finished"
  /\ Call(c, "none", "signal")
  /\ state' = "finished"
  /\ UNCHANGED <<count, sem, signaled, signals, handler, at, debt>>

TerminateSignal(c) ==
  /\ Call(c, "signal", "cancel")
  /\ signaled' = TRUE
  /\ UNCHANGED <<state, count, sem, signals, handler, at, debt>>

\* pthread_cancel; the cancel type is asynchronous, it stops the thread
\* wherever it is, sem_wait included.
TerminateCancel(c) ==
  /\ Call(c, "cancel", "none")
  /\ at' = "gone"
  /\ UNCHANGED <<state, count, sem, signaled, signals, handler, debt>>
------------------------------------------------------------------------------
ThreadStep ==
  /\ \/ Boot \/ Arm \/ Unpark \/ SetSignaled \/ ReturnFromRoutine
     \/ TakeSignal \/ LeaveHandler \/ LeaveSelf
  /\ UNCHANGED create_suspended

CallStep(c) ==
  /\ Kill(c) \/ TerminateSignal(c) \/ TerminateCancel(c)
  /\ UNCHANGED create_suspended

Request ==
  /\ \/ FinishRoutine \/ ExitTwice \/ SuspendSelf
     \/ \E c \in Controller : Suspend(c) \/ Resume(c) \/ Terminate(c)
  /\ UNCHANGED create_suspended

HostNext == ThreadStep \/ Request \/ \E c \in Controller : CallStep(c)

HostSpec == HostInit /\ [][HostNext]_hostVars

(* The operating system runs every thread that can run and delivers queued *)
(* signals.  Calls that began complete.  Nobody has to suspend or resume,  *)
(* and start_routine need not return.                                      *)
HostFairness == /\ WF_hostVars(ThreadStep)
            /\ \A c \in Controller : WF_hostVars(CallStep(c))

HostFairSpec == HostSpec /\ HostFairness
------------------------------------------------------------------------------
HostTypeOK == /\ state \in States
          /\ count \in 0..(MaxCount + 1)
          /\ debt \in 0..MaxCount
          /\ sem \in 0..MaxPending /\ signals \in 0..MaxPending
          /\ signaled \in BOOLEAN /\ handler \in BOOLEAN
          /\ at \in Places
          /\ call \in [Controller -> {"none", "kill", "signal", "cancel"}]

Executing == ~handler /\ at = "run"

\* From the first step of a Terminate until the thread is cancelled.
Terminating == \E c \in Controller : call[c] \in {"signal", "cancel"}

Settled == signals = 0 /\ \A c \in Controller : call[c] # "kill"

(* A thread marked suspended whose suspend signal has been delivered does  *)
(* not execute its routine (threading.h:483 "Suspends the specified        *)
(* thread"), unless it is being terminated.                                *)
AnySuspendHolds == state = "suspended" /\ Settled /\ ~Terminating => ~Executing

(* The same for a thread that was not created suspended.                   *)
SuspendHolds == ~create_suspended => AnySuspendHolds

(* suspend_count_ of a thread that was not created suspended is the number *)
(* of unanswered suspensions, whatever the order of the calls.             *)
CountIsDebt == ~create_suspended => count = debt

(* suspend_sem_ never collects tokens: while the thread is suspended, each *)
(* post of an earlier resume is still owed to a handler, a self-suspension *)
(* or a signal on its way.  The one exception is the resume that started a *)
(* thread created suspended: it posts although the thread waits elsewhere, *)
(* and that single token may be left over.  A thread that is terminated    *)
(* while it boots may lose its signals, and does not use them any more.    *)
TokensMatch ==
  at # "gone" /\ ~Terminating /\ state = "suspended" =>
    sem =< signals + Cardinality({c \in Controller : call[c] = "kill"})
             + (IF handler THEN 1 ELSE 0) + (IF at = "self" THEN 1 ELSE 0)
             + (IF create_suspended THEN 1 ELSE 0)

\* In start_routine, the handler included, and nobody is terminating it.
InRoutine == at \in {"run", "self"} /\ ~Terminating

(* No resume is lost: a thread that has not left its routine is never in   *)
(* sem_wait without a token once every suspension of it has been answered, *)
(* whatever signals are still on their way.                                *)
NoResumeLost ==
  ~create_suspended /\ InRoutine /\ debt = 0 /\ (handler \/ at = "self") => sem > 0

(* threading.h:479 "When the suspend count is decremented to zero, the     *)
(* execution of the thread is resumed": once every suspension has been     *)
(* answered, the thread runs its routine again, unless it is suspended     *)
(* again or leaves the routine.                                            *)
AnyResumeTakesEffect ==
  debt = 0 ~> debt > 0 \/ Executing \/ at \in {"finish", "exit", "trap", "gone"}

(* The same for a thread that was not created suspended.                   *)
ResumeTakesEffect ==
  debt = 0 /\ ~create_suspended
    ~> debt > 0 \/ Executing \/ at \in {"finish", "exit", "trap", "gone"}

(* The counts of a well-typed state, taken together.                       *)
CountsMatch == HostTypeOK /\ CountIsDebt /\ TokensMatch

(* Whoever joins a thread that is gone does not wait for ever: signaled_   *)
(* is set before the thread returns and before it is cancelled, whichever  *)
(* of the two wins (ThreadStartRoutine, Terminate).                        *)
GoneIsSignaled == at = "gone" => signaled
==============================================================================
