# Xenia Live: the concurrent core in TLA+

Specifications of the parts of the emulator where threads meet: the lock all
subsystems share, the host threads and wait objects under the guest's, the
timer queue, guest suspension and the guest's own locks, the table of kernel
objects, the table of translated functions, the GPU's copy of guest memory and
the way of a frame to the window. TLC checks each on a small instance; TLAPS
proves the most important facts for every number of threads, pages, timers and
frames. Source paths below are relative to `src/xenia/` of the repository.

All of it follows the Linux build: where a file has variants per platform, the
POSIX one is modelled.

| module | models | run | proofs |
|---|---|---|---|
| `RecursiveLock` | what a recursive lock promises (abstract) | through refinement | through refinement |
| `GlobalMutex` | `xe_global_mutex`, `base/mutex.cc` | `global_mutex` | `GlobalMutexProofs` |
| `CriticalSection` | `RTL_CRITICAL_SECTION`, `xboxkrnl_rtl.cc` | `critical_section` | `CriticalSectionProofs` |
| `ReadWriteLock` | `X_ERWLOCK`, `xboxkrnl_threading.cc` | `read_write_lock` | `ReadWriteLockProofs` |
| `Dispatcher` | events, semaphores, mutants and waits as `base/threading.h` describes them (abstract) | through refinement | through refinement |
| `HostWait` | the same on POSIX, `base/threading_posix.cc` | `host_wait` | `ThreadProofs` |
| `TimerQueue` | `base/threading_timer_queue.cc` | `timer_queue` | `TimerQueueProofs` |
| `HostThread` | `PosixCondition<Thread>`, `base/threading_posix.cc` | `host_thread` | `ThreadProofs` |
| `GuestThread` | `XThread::Suspend/Resume/SelfSuspend`, composed with `HostThread` | `guest_thread` | `ThreadProofs` |
| `SharedMemory` | `gpu/shared_memory.cc`, the physical heaps of `memory.cc`, `gpu/texture_cache.cc` | `shared_memory` | `SharedMemoryProofs` |
| `ObjectTable` | `kernel/util/object_table.cc`, `kernel/xobject.cc`, handle exports | `object_table` | `TableProofs` |
| `FunctionTable` | `cpu/processor.cc`, `cpu/entry_table.cc`, `cpu/module.cc` | `function_table`, `function_table_branch` | `TableProofs` |
| `GuestOutput` | `ui/presenter.cc` | `guest_output` | `GuestOutputProofs` |

To check one: `tlc -config MC_HostWait.cfg MC_HostWait.tla`; to prove one:
`tlapm GlobalMutexProofs.tla`. A `MC_` module only gives values to constants
that a .cfg cannot write down; a module without one is checked as it is.

## 1. Inventory

Guest code runs on guest threads, one host thread each, and calls kernel
exports. These keep guest-visible state in guest memory and host-side
objects (`XObject`) behind handles. Objects wait and signal through
`base/threading.h`. Translated code, MMIO, the GPU and the audio workers
run on other host threads and share guest memory with them. The *global
critical region* is the one lock everything from the object table to the
function table and the page watches takes, often nested.

| component | state it keeps | operations | meets others through | what is hard | what must hold |
|---|---|---|---|---|---|
| global mutex (`base/mutex.cc`) | futex word, owner, depth | lock, try_lock, unlock | every subsystem | newcomers overtake woken threads; early returns of futex_wait | exclusion, no lost wake-up, recursion balanced, progress |
| host threads (`base/threading_posix.cc`) | state, suspend count, a semaphore, signals under way | start, Suspend, Resume, Terminate, Exit | signals, semaphore, join | calls overtake the signal; cancellation races exit; start-up in two steps | suspensions hold, are counted, end; joiners released |
| host wait objects (same file) | a mutex, a condition variable and a value each | Set, Reset, Pulse, Release, Wait, SignalAndWait, WaitMultiple | waiters and signallers | polling over several locks; timeout against signal; unlocked read of a mutant's owner | indivisible waits, no missed sleeper, mutants kept |
| timer queue (`base/threading_timer_queue.cc`) | ring of slots, sorted queue, atomic item states | QueueTimer, Disarm, destructor | dispatch thread runs the callbacks | Disarm against the running callback; self-disarm; shutdown | after Disarm no callback; no timer lost; due timers fire |
| guest suspension (`kernel/xthread.cc`) | suspend count in guest memory, a mutex and condition | Suspend, Resume, SelfSuspend | the host thread's count | two counts, one atomic and one under a mutex | counts agree, resumed threads run |
| guest critical section (`xboxkrnl_rtl.cc`) | lock_count, recursion_count, owner, event | initialise, enter, try, leave | guest threads | hand-over through an event while spinners try | a recursive lock; exact count |
| guest reader/writer lock (`xboxkrnl_threading.cc`) | four counters, event, semaphore | acquire, try, release | guest threads, spinlock | signalling after the spinlock is left; unsigned counters | exclusion, nobody stranded |
| guest spinlocks, interlocked lists, APC and DPC queues (same file) | guest memory words and lists | raise, acquire, push, pop, queue, deliver | guest threads, IRQL | ABA, callbacks that queue callbacks | exclusion, no entry lost or delivered twice |
| object table, object lifetime (`kernel/util/object_table.cc`, `xobject.cc`) | slots, reference counts, names | add, duplicate, retain, release, look up, purge, save, restore | all Nt exports | stale handles, names outliving or dying before handles | an object lives exactly while referenced |
| dispatcher objects (`kernel/xevent.cc`, ...) | guest header and host object | set, release, wait | object table, host waits | two copies of the state | the copies agree |
| kernel state (`kernel/kernel_state.cc`) | process, title, listeners, dispatch queue | launch, terminate, broadcast, dispatch | all objects | termination while threads run | nothing used after termination |
| processor, function table (`cpu/processor.cc`, `entry_table.cc`) | functions and their status, breakpoints, thread list | resolve, compile, suspend all, step | global lock, guest threads | waiting for another thread's compilation | one definition per address; no eternal COMPILING |
| guest memory (`memory.cc`) | page tables, heaps | reserve, commit, protect, release, watch | faults, GPU | partial failure, watches | pages accounted exactly |
| shared memory, texture watches (`gpu/shared_memory.cc`, `texture_cache.cc`, `memory.cc`) | valid and GPU-written page flags, watches per view, outdated textures | upload, watch, invalidate, fault, resolve | page faults, command processor thread | a store during the upload; views that alias; what only the GPU has | no stale page marked valid, no endless fault |
| audio system, XMA (`apu/`) | clients, semaphores, worker flags | register, submit, pause, stop | worker threads | unregister during callback; shutdown | every wait ends |
| logging (`base/logging.cc`) | ring of claimed slots | append, write, shut down | all threads | ring at its limit | no line lost or torn |
| presenter, application context (`ui/`) | guest output mailbox, pending functions | refresh, paint, post, run | GPU thread and UI thread | the mailbox's index juggling | consumer never sees the producer's buffer |
| virtual file system, files, content (`vfs/`, `kernel/xfile.cc`, `xam/`) | entry tree, open files | resolve, open, close | global lock | removal while open | |
| translator, back-ends (`cpu/compiler`, `cpu/ppc`, `cpu/backend`) | HIR, machine code | translate | processor | correctness of data, not of control | |
| GPU command stream, render targets, shader translators, audio, input, window back-ends | host API objects | | external interfaces | behaviour of drivers | |
| sessions, sockets, XLive (`kernel/xsession.cc`, `XLiveAPI.cc`) | membership, sockets | create, join, leave | web service | service not in the repository | |

`PROJECT.json` lists the files of each and why the rest has no module. The
`hazards` there name what is hardest to test, at the line where it bites, with
the property that covers it; section 6 has the further ones, which no property
covers yet or which a property covers together with a hazard listed there.

## 2. Modules and their correspondence to the code

One action is one critical section, one atomic access or one system call.
What only the executing thread can see is folded into the neighbouring action.
Constants bound what the code leaves unbounded; every bound is a named constant
of its module. `map` in PROJECT.json gives the lines of every definition.

**GlobalMutex.** `state` is the futex word (0, 1, 2 = contended), `sleepers`
the kernel's FIFO of threads in `futex_wait`. `LockBegin`, `FastCas`,
`Spin`, `MarkContended`, `FutexWait`, `Retry` follow `lock` and `lock_slow`;
`UnlockOuter`, `SwapOut`, `FutexWake` follow `unlock`. `FutexInterrupted` is
the return of `futex_wait` without a wake. `owner_` is written inside the lock
and otherwise only compared with the reader's own id, so its write joins the
step that enters or leaves. `MaxDepth = 1` is `xe_fast_mutex`.

**CriticalSection.** `lock_count` starts at -1; `Increment` takes the section or
queues up, `Wake` takes the auto-reset event, `Own` writes the owner.
Leaving takes three steps: `LeaveInner` or `LeaveOuter` (recursion count, owner), `Recount` or
`Decrement` (lock_count), `SetEvent`. Both this module and `GlobalMutex` are
shown to implement `RecursiveLock`, through `holder` and `depth`: the
critical section's lock stays with the leaver until the event is set.

**ReadWriteLock.** The counters change inside `spin_lock`; `PostReaders` and
`SetWriterEvent` come after it is released. A client is a thread in one role.
Counters are unsigned and wrap at the constant `Uint32` (8 in the runs).

**HostWait.** `value` is `signal_` or `count_`, `mutex` is who holds `mutex_`
across actions: `TryLock` collects the locks of a WaitMultiple one at a time and
drops them all at the first that is taken; `PostExecution` counts a mutant
and `Own` writes its owner. `TestMutant` reads owner and count without the lock, as
`Release` does. `Expire` is the end of the timeout, or a spurious wake-up where
there is none. SignalAndWait is a signal followed by a wait, which is what the code
does. `Dispatcher` has the same operations as indivisible steps, and
`HostWait` implements it with a wait satisfied when `post_execution` counts it.

**TimerQueue.** `Create`, `Claim`, `Publish` are QueueTimer and its slot in the
ring; `Disarm`, `DisarmSelf`, `DisarmCas` the three ways through Disarm;
`Consume`, `Timeout`, `Fire`, `Test`, `Rearm`, `Retire`, `LoopTest` the dispatch thread;
`Shutdown`, `ShutdownKick` the destructor. `Tick` is the steady clock. A callback
is a client that runs on the dispatch thread.

**HostThread.** One thread and its controllers. `state`, `count` and `sem` are
`state_`, `suspend_count_` and `suspend_sem_`; `signals` are suspend signals queued
(they are real-time signals and queue; one that arrives before `current_thread_` is set is dropped,
which only a `Terminate` makes possible, the one call that does not wait for the start-up). `debt` counts suspensions not yet
answered: it follows the calls, never the code, and only properties read it.

**GuestThread** extends HostThread: `guest` is `X_KTHREAD::suspend_count`, `suspend_mutex`
the mutex of that name; the step of a guest call that reaches the host thread *is*
the HostThread action. `title` says which threads suspend and resume,
how deep, and by which call the thread suspends itself (`NtSuspendThread` leads to SelfSuspend,
`KeSuspendThread` to the same `Suspend` as for any other thread); it stands for the guest program. The host thread starts parked, as
`XThread::Create` leaves it.

**SharedMemory.** A store that is allowed is `Store`; one to a protected page is
`Fault`, and `HandleFault` is the handler under the global lock: it invalidates,
fires the watches and lifts the protection, or finds that there is nothing to do.
`Fill` and `EndFill` are a file read into memory, which is reported when it is
complete (a read that fails is not, but the file systems that can fail write nothing
then). `Alloc`, `MakeReadOnly`, `MakeWritable` and `Release` are the calls of
the guest's heaps that change `access`; pages may be uploaded while they are read-only or free,
made writable afterwards and freed again. `Expose` is what making a page writable does where no watch
is set. On the other side there is the one
command processor thread: `RequestTextures`, `CheckOutdated`, `RequestRange` and
`NextPiece` find what a draw needs and lacks, `MakeRangeValid` marks a piece,
`EnableAccessCallbacks` protects it in one view after another, `Copy` reads it, then
`LoadTexture`, `MakeUpToDateAndWatch` and `Done`; `RequestFails` is an
upload that stops halfway or a texture that cannot be made, `RangeWrittenByGpu` and `GpuWrite`
are a resolve. `ClearCache` is two steps, its second one
`SetSystemPageBlocksValidWithGpuDataWritten`, which with `clear_memory_page_state` also runs alone;
`PrepareForTraceDownload` is its counterpart for traces. `Widen` is the bit
arithmetic that extends an invalidation to its neighbours in a word of flags. `fresh`,
`gpuOnly`, `texFresh`, `unseen`, `late` and `lost` are history: they say who has the newest data,
and no guard of the code reads them. `unseen` are pages that were made writable while they were valid and
unwatched; `lost` are the pages of a texture it was not told of.

**ObjectTable.** `object`, `count`, `lastFree` and `capacity` are the table, `names`
the names in it; `refs`, `handles` and `name` belong to the objects; `stash` is
the handle that guest code finds in a dispatch header. A call is a few steps, each
under the global lock: `GetObjectByName`, `FindNamed`, `UnretainNamed`,
`RetainNamed` open by name, the last of them possibly in vain (no place for the handle, another
type of object); `Create` and `SetAttributes` make an object, `CreateFails` gives a semaphore
with impossible counts back; `Use`, `Duplicate`, `CloseSource`, `Reference` and `Drop` work on a handle; `Close`,
`Dereference` and `Unpin` give up. `owns` and `pins` are what the guest was given and did
not give back: the guest closes only what is its own. With `Careful` it also keeps off
the three cases listed above `Hurry` in the module.

**FunctionTable.** `entry` and `stored` are an entry's status and function, `symbol` is
the status of the module's symbol, `code` whether the function has machine code.
`GetOrCreate`, `Wait`, `Read` follow `EntryTable::GetOrCreate` and its polling;
`LookupFunction`, `SetDeclared`, `DefineSymbol`, `WaitDefined`, `Translate` follow
`DemandFunction`; `LookupCallee` and `SetCalleeDeclared` are the same lookup from
within a translation that found a direct branch. `StoreFunction`, `StoreReady`
and `Published` are the two plain stores that publish an entry. With `InOrder`, other threads
see them in program order, as on x64; without it they need not, as on a64. Modules stay
loaded: unloading one (`XModule::OnUnload`, `Processor::RemoveModule`, `EntryTable::Delete`) takes
its symbols and the entries of its functions back, and is left out.

**GuestOutput.** `Refresh`, `Written`, `Publish`, `Rotate`, `Notify` are
`RefreshGuestOutput`, with the exchange of the mailbox word and the computation
of the next writable image as steps of their own. `GuestConsume` and
`GuestPresent` paint on the refreshing thread, `OnPaint` to `Ask` on the UI thread,
`Capture` and `CaptureEnd` are a screenshot. `Resize`, `Attach`, `Reconnect`,
`Settle`, `Detach`, `Disconnect` and `ToggleDrawers` are what the UI thread does with the
window, `LastDrawerLeaves` is a drawer that removes itself while it draws. `FromGuest` is
the configuration variable that lets the refreshing thread paint at all;
`Exposes` says that the window system asks a window with a new surface to paint.
`offered` is history: the newest frame that was presented or that the host refused to
present (kNotPresented), after which nothing is asked again, so that such a frame may be
missing until the next one; the properties except it. The loss of the GPU ends
the program (`xe::FatalError`) and is not modelled.

## 3. What the runs show

| run | instance | distinct states | shows |
|---|---|---|---|
| `global_mutex` | 3 threads, depth 2 | 1,788 | implements RecursiveLock, no lost wake-up, sleepers wake, somebody always gets in |
| `critical_section` | 4 threads, depth 2 | 697 | implements RecursiveLock, exact `lock_count`, waiters enter |
| `read_write_lock` | 3 readers, 2 writers | 373 | exclusion, counters and grants match the clients; with one writer at a time everybody gets in |
| `host_wait` | auto-reset event, semaphore (limit 2), mutant; 2 waiters, 1 signaller | 20,088 | implements Dispatcher, no sleeper missed, mutants kept, single waits return |
| `timer_queue` | one-shot, recurring and kick item; a thread and the callbacks; 2 slots, time 0..2 | 156,485 | Disarm stops and returns, items neither lost nor doubled, due timers fire, shutdown ends |
| `host_thread` | 2 controllers, 3 suspensions, 2 signals or posts under way, both ways of creation | 26,947 | suspensions hold and are counted, a resumed thread runs, an ended one is signalled |
| `guest_thread` | one suspender and resumer without nesting; a suspender and another resumer; self-suspension with two resumers, and by `KeSuspendThread` | 1,352 | counts exact and in agreement, self-suspension ends, Resume returns |
| `shared_memory` | 2 pages of one word, 2 views, 1 guest thread, 1 texture on both pages | 3,559,172 | no valid page is stale save `unseen` ones, GPU-only data kept, faults end, draws see stores save on `lost` pages |
| `object_table` | 2 threads, 2 objects, 1 name, 3 slots | 1,179,301 | both counts exact at every step, names lead to open handles |
| `function_table` | 2 threads, 4 functions, mutual and self-recursion, one broken, one unmapped | 23,477 | translated once, the same answer for all, every call returns |
| `function_table_branch` | the same | violation | an entry becomes ready without machine code |
| `guest_output` | 3 frames, 2 window changes, 1 outdated paint | 762,232 | images and connection have one user, frames never go back, the newest is shown |

Types are not a property of their own everywhere. The type invariant (`TypeOK`, `HostTypeOK`,
`GuestTypeOK`, `ObjectTypeOK`) is a conjunct of `CountsMatch`, `GuestCountExact`,
`CountsExact` (`ReadWriteLock` and `ObjectTable`), `CopyIsFresh`, `AnswersAgree` and `OwnersApart`,
and is proved together with the invariants of the others: `GlobalMutex`, `CriticalSection`,
`TimerQueue`, `HostWait`.

### Bounds

*Locks.* The interesting cases need a holder, a woken thread and a newcomer: three
threads; the critical section has one more so that two wait while one spins.
Depth 2 separates inner from outermost leaves. (At depth 3 the owner of a
critical section may re-enter and leave its inner levels for ever, which no
implementation can prevent; fairness makes it leave when the outer leave is
enabled again and again.) The reader/writer lock needs a batch of two readers plus
one that arrives late; its counters are unsigned and wrap at `Uint32 = 8`, far from
the five clients. Its inductive invariant was checked with three writers too (941 states).

*Waits, timers, threads.* `host_wait` has every kind of `post_execution` that changes a
value, a WaitAll over all three objects and a WaitAny over two in another order, so
that two polls collide; limit 2 lets a release of two units meet two waiters. A
manual-reset event is not in the run: it differs from the auto-reset one in
leaving its value alone. In `timer_queue` two slots make the ring full, and two time units
let the recurring timer come due again while the one-shot item waits.
`host_thread` needs a suspension to overtake the signal of another and a third to nest;
3 and 2 are the smallest bounds where both happen.

*Shared memory.* Two pages in one word are needed for an invalidation to widen, two views
for one to be protected and the other not; a texture on both pages can be half uploaded.
One guest thread is enough to race with the command processor and its own
other view; faults of two threads on one page are in the proof, which is for any
number. The two inductive invariants of the proof, `Safe` and `Watching`, were checked on this instance too.

*Object table.* Three slots hold both objects and one duplicate, and make slots be reused;
the table has to grow once and can be full. `MaxOwned = 1` bounds how often a
thread has one handle. With a fourth slot 14 million states were explored
without an error, not to the end.

*Function table.* Two functions that call each other, one of them itself too, are every shape of
recursion that the wait for another translation could turn into a circle; a third
thread (567,067 states by hand) adds no behaviour of a new kind.

*Guest output.* Three frames use all three images of the mailbox, and the third is
written where the first was. Two changes are what the longest known hazard takes
(detach and attach); a third was tried by hand for the invariants (2,155,535 states).

### Deadlock

`CHECK_DEADLOCK FALSE` is said where the system may stop: threads that end
(`HostThread.cfg`), the destroyed timer queue (`MC_TimerQueue.cfg`), the
bounded supply of frames and window events (`GuestOutput.cfg`), and the reader/writer
lock (`ReadWriteLock.cfg`), whose competing writers may leave nobody able to move, which
is a finding. All other runs check for deadlock.

### Conditions, and what happens without them

Several properties or instances exclude what the code does not keep, so that they say what
holds beside it. Each exclusion was tested by dropping it; TLC then finds the
property in the last column violated. To repeat one, change the .cfg as said and
list that property alone.

| module | condition in the run | change | violated |
|---|---|---|---|
| `HostThread` | `SuspendHolds`, `CountsMatch`: not created suspended | `CreateModes = {TRUE}` | `AnySuspendHolds` |
| `HostThread` | `ResumeTakesEffect`: the same | `CreateModes = {TRUE}` | `AnyResumeTakesEffect` |
| `HostThread` | the same two: nobody is terminating the thread | none; drop the conjunct `~Terminating` | `SuspendHolds` |
| `GuestThread` | suspensions do not nest | `Titles <- Nesting` | `FullyResumedRuns` |
| `GuestThread` | `CountsAgree`: suspending and resuming calls do not overlap (`OneDeep`) | `Titles <- Crossing` | `FullyResumedRuns` |
| `ReadWriteLock` | `WaitersEnter`: writers do not compete | none | `NoStrandedWaiter` |
| `HostWait` | `Strangers = FALSE`: only owners release mutants | `Strangers = TRUE` | `MutantsKept` |
| `TimerQueue` | `DisarmTwice = FALSE` | `DisarmTwice = TRUE` | `DisarmReturns` |
| `SharedMemory` | `CopyIsFresh`: pages made writable while unwatched excepted | none | `CopyIsAlwaysFresh` |
| `SharedMemory` | `DrawSeesStores`: pages the texture was not told of excepted | none | `DrawSeesAllStores` |
| `ObjectTable` | `Careful = TRUE` | `Careful = FALSE` | `CountsExact`, `NamesResolve` |
| `FunctionTable` | `InOrder = TRUE` | `InOrder = FALSE` | `AnswersAgree` |
| `GuestOutput` | `Exposes = TRUE` | `Exposes = FALSE`, `MaxChanges = 3`, `MaxFrames = 2` | `LatestShown`, `NoFrameForgotten` |
| `GuestOutput` | | `MaxFrames = 1` | `RemovedUiLeaves` |

`ResumeTakesEffect` is about a thread in its routine; a suspension that meets a
thread on its way out is in section 6. In `guest_thread`, a title in which one thread
suspends two deep while another resumes (`Pair(c1, c2, 2)`), or a second thread suspends
too, loses an update of the count (hazard at `xthread.cc:901`).
A title that never makes uploaded read-only or free memory writable, never closes the last
handle during an open by name, and runs on x64 meets the conditions.

### Fairness

- Locks: a thread inside `lock`, `unlock`, `Enter...` or `Leave...` keeps running (weak), and
  whoever holds the lock releases its outermost level (strong: it may re-enter
  and leave inner levels in between). The futex queue is FIFO, so no fairness
  is needed to wake a sleeper. Taking the event of a critical section is strong: it
  may be set and taken many times. No thread has to call anything.
- `HostWait`: the host's mutexes hand themselves out in the end to a thread that
  keeps asking (strong on the steps that need one), polls go on (weak).
  No call is assumed. Nothing is claimed about waits on several objects: their
  loop gives up all its locks when one is taken, does not look at its timeout then, and
  two loops in opposite order may keep each other out for ever.
- `TimerQueue`: the dispatch thread and calls in progress run; callbacks return (a
  callback that does not stops all timers, in the code too). The clock need not advance.
- `HostThread`, `GuestThread`: the thread runs when it can, queued signals are
  delivered, calls begun complete. Nobody has to suspend, resume or return.
- `FunctionTable`: every thread inside `ResolveFunction` goes on (weak); its waits
  are polls. Nobody has to call.
- `GuestOutput`: the refreshing thread and the UI thread finish what they began, and a
  screenshot ends (weak). A paint event the window system owes is delivered, as a step of
  the UI thread. Nobody has to refresh, resize or change anything.
- `ReadWriteLock`: clients inside go on and leave; those that wait take what was
  posted for them. `SharedMemory` and `ObjectTable` state no liveness and no
  fairness: their calls hold one lock and do not wait, save for the retry of a fault, which
  `FaultsEnd` states as safety.

## 4. What is proved

| theorem | statement | assumptions |
|---|---|---|
| `GlobalMutexProofs!Safety` | types, exclusion, `OwnerCounts`, `NoLostWakeup` always hold | any set of threads, any depth |
| `GlobalMutexProofs!Implements` | `Spec => ImplementsLock` | the same |
| `CriticalSectionProofs!Safety` | types, exclusion, `NoOwnerOnEntry`, `OwnerCounts`, `LockCountExact` always hold | finite set of threads, any depth |
| `CriticalSectionProofs!Implements` | `Spec => ImplementsLock` | the same |
| `CriticalSectionProofs!Remembered` | `NoWaiterForgotten` always holds | the same |
| `ReadWriteLockProofs!Excludes` | `Exclusion` always holds, with competing writers too | finite set of clients, fewer than `Uint32` |
| `ReadWriteLockProofs!Counts` | `CountsExact` always holds | the same |
| `ReadWriteLockProofs!Unstranded` | `NoStrandedWaiter` always holds where `OneWriter` does | the same |
| `TimerQueueProofs!Safety` | `DisarmStops` and `PoppedIsIdleOrDisarmed` always hold | finitely many items, any clients, any capacity |
| `TimerQueueProofs!Final` | `DisarmIsFinal` | the same |
| `TimerQueueProofs!Whereabouts` | `Placed` always holds | the same |
| `TimerQueueProofs!NotForgotten` | `NoTimerForgotten` always holds | the same |
| `ThreadProofs!Sleepers` | types and `NoSleeperMissed` always hold | any threads, objects, kinds, limits and requests; `Strangers = FALSE` |
| `ThreadProofs!Mutual` | `MutantsKept` always holds | the same |
| `ThreadProofs!Implements` | `Spec => ImplementsDispatcher` | the same |
| `ThreadProofs!Suspended` | `SuspendHolds` always holds | any controllers, suspend counts and signals under way |
| `ThreadProofs!Counts` | `CountsMatch` always holds | the same |
| `ThreadProofs!Gone` | `GoneIsSignaled` always holds | the same |
| `ThreadProofs!Resumed` | `NoResumeLost` always holds | the same |
| `ThreadProofs!GuestExact` | `GuestCountExact` always holds | the same; all `Titles` are `Exclusive` |
| `ThreadProofs!Notified` | `NoNotifyMissed` always holds | the same; all `Titles` are `Exclusive` |
| `ThreadProofs!Agree` | `CountsAgree` always holds | the same (the property is about `OneDeep` titles) |
| `SharedMemoryProofs!Fresh` | `CopyIsFresh` always holds | any pages, word size, views, threads, textures, allocations and file reads |
| `SharedMemoryProofs!GpuKept` | `GpuDataKept` always holds | the same |
| `SharedMemoryProofs!FaultsLifted` | `FaultsEnd` always holds | the same |
| `SharedMemoryProofs!DrawsSee` | `DrawSeesStores` always holds | the same |
| `TableProofs!Counted` | `CountsExact` of `ObjectTable` always holds | finitely many callers, any objects, names, slots and `MaxOwned`; `Careful = TRUE` |
| `TableProofs!Resolved` | `NamesResolve` always holds | the same |
| `TableProofs!Once` | `TranslatedOnce` always holds | any threads, functions and call graph |
| `TableProofs!Attendance` | `Attended` always holds | the same |
| `TableProofs!Agreement` | `AnswersAgree` always holds | the same; `InOrder = TRUE` |
| `GuestOutputProofs!Apart` | `OwnersApart` always holds | any number of frames, changes and outdated paints |
| `GuestOutputProofs!Forward` | `NeverBackwards` | the same |
| `GuestOutputProofs!Delivered` | `NoFrameForgotten` always holds | the same; `Exposes = TRUE` |

*Global mutex.* The inductive invariant is the conjunction of the four facts of
`Safety`. `NoLostWakeup` alone is not inductive: when a newcomer takes the lock
with a 1 while others sleep, the witness that will put the 2 back must be another
thread than the newcomer, which needs exclusion, and the thread popped
from the queue must be one that sleeps, which needs the queue's part of
`TypeOK`. Refinement: `holder` and `depth` change only in the steps that win the
word, re-enter, leave an inner level, or swap out the outermost.

*Critical section.* `LockCountExact` says `lock_count + 1 = Held + |waiters|`, with
`Held` the levels the thread inside accounts for in its present step. The proof
first shows that exclusion determines `Held` from the one thread inside
(`HeldValue`), then that each step changes `lock_count`, `Held` and the number of waiters by amounts that
balance (`WaitersStep`, from the library's facts on cardinality). The hand-over is
the step where the balance is subtle: the decrement passes the level of the leaver
to the event, and nobody is inside until it is taken. `NoWaiterForgotten` needs one fact more, that
a section whose `lock_count` is not -1 is taken or on its way to a waiter (`Taken`): a waiter makes it
other than -1.

*Reader/writer lock.* `Balance` relates the four counters to the numbers of clients
inside, waiting and granted, in one of three cases: a writer has the lock or is
handed it (`Exclusive`), readers or nobody (`Sharing`), or nobody has it and
nobody will (`Stuck`): the state of the stranded writers, in which
`readers_entry` has wrapped. The third case is what the counters need to
be accounted for although the lock is broken. `OnePost` says one release at a
time is between the spinlock and the semaphore. Every step that enters the third case is
the release of a writer while another one waits (`StaysFree`), which `OneWriter` excludes,
and in the other two cases nobody is stranded: with neither client inside nor grant on its way
`Sharing` has readers waiting only behind a writer, and a writer waits only while somebody is inside.

*Timer queue.* `IInv` adds to the types that only the popped item is in one of
the two states of a running callback (`OneCallback`), that a call on the dispatch
thread happens in a callback and what was disarmed stays so (`Calls`), and that
only created items are queued or disarmed (`Known`). `DisarmStops` then follows: a
Disarm returns after a compare-exchange from idle, or by the second state of the callback
having ended. `Placed` follows from two more invariants: the five places an item can be in
are disjoint and the ring has no item twice (`Apart`), and an item that may still be
called is in one of them (`Alive`); the counting of `Places` is done once, at the end.
`NoTimerForgotten` is what `DueFires` rests on. A slot of the ring is published or its publisher is still
at it, and when the thread sleeps nothing is waiting to be queued again (`Handed`); so an armed item
is in the ring, where its slot ends the wait, or in the wait queue, whose front is due as soon as any
item of it is (`FrontIsDue`: a set of queued items has an earliest one).

*Host waits.* `NoSleeperMissed` needs to know that a mutant's count never passes
below zero, so it is proved together with the accounting of mutants (`Counted`):
while somebody holds a mutant `owner_` names the holder and the count is
what it holds, and while nobody does the count is zero, or one between the
two writes of `post_execution`. That the unlocked test in `Release`
is harmless for owners is part of `PlacesFit`: between the test and the decrement the
tester holds the mutant. `Prefix` says a poll holds the locks of the first few of
its objects, so when it looks it has them all. One lemma, `TakeStep`, serves
the three ways a wait is satisfied. For the refinement, a wait is satisfied in
the step that counts it and everything before and after is a stutter
(`TakeSatisfies`, `SignalSimulates`, `WaitSimulates`, `PollSimulates`); the owner of the
abstract mutant is the thread that counted it, also while `owner_` still names
another (`HolderAt`). The assumption `Strangers = FALSE` cannot be dropped.

*Host threads.* A token of the semaphore must not outlive the wait it was posted for, or the
next suspension falls through. `Tokens` counts both sides: every call that suspends a
running thread makes one wait to come (`Owed`: signals queued, controllers about to
send one, the handler, the thread's own wait, and one more for a thread that was
created suspended), every resume to zero posts one token, and while the state is
"suspended" there is one token less than waits. So when all signals have been delivered and the handler
is not waiting, there is no token and no way to be in the routine. The extra wait of a thread
created suspended is what makes `AnySuspendHolds` false (finding 2). `Ending` places the
signalling before the cancellation. `NoResumeLost` reads the same account from the other side
(`Paid`): when every suspension has been answered there is a token for each wait to come, so
whoever is in `sem_wait` leaves it.

*Guest suspension.* `XThread::Suspend` adds to the count without the mutex, so an exact
count needs that no suspension comes between the read and the write of a Resume or SelfSuspend:
`Exclusive` titles (only the thread suspends itself, by SelfSuspend, or one other thread makes all the
calls). `Held` then says that whoever is between its read and its write has the mutex
and the present count, `HostFollows` that the host thread's calls are
answered. Agreement of the two counts (`CountsInv`) further needs `OneDeep`: one other thread
must not nest (finding 4). The two kinds of title need different invariants: `OtherFollows` gives the
host's count at each place of the single caller, and in `SelfFollows` the host thread is resumed once, after
its creation, and its count is zero from then on, however deep the thread suspends itself.
`NoNotifyMissed` needs the mutex: a thread is in `suspend_cv_.wait`, or goes back into it, only
after it has seen a positive count, and a resume that takes the count to zero notifies before it gives the
mutex back.

*Shared memory.* `Safe` says that a page that is valid and that the guest may write in
some view is watched there, except in the views that an upload under way has
not come to yet, and except the pages that were made writable while valid and
unwatched (`Watched`); that a watched page is protected (`Guarded`), so that a
store faults first; and that a file read, which does not fault, keeps its pages
writable until it reports them (`Working`). `Uploads` keeps an upload off the pages that only
the GPU has. The exception is finding 7: it stands in `CopyIsFresh` as well as in the invariant,
and a page leaves it when it is invalidated or uploaded again. Nothing is assumed of
what the guest allocates, protects and frees, save that it leaves alone what it
is writing or has handed to the GPU (`NotNeeded`).

*Draws.* `Watching` follows a texture from the request to the draw. An invalidation outdates
every texture on its pages, so a texture that is not outdated has the newest data on each of
its pages and each is watched wherever the guest may write it, unless the texture was not
told of the page (`Seen`).
A binding in sync is not outdated, or the flag says so, or the request at work loads it, or its load failed
(`Synced`); until it is loaded its pages are valid, still to be uploaded, or lost
(`Fetched`). The loss is what the code has no answer to (findings 7 and 8), so it stands in
`DrawSeesStores` as well as in the invariant.

*Object table.* The counts are sums over callers and handles. To stay within what the
provers can do, a sum is the size of a set of pairs, so that a step of one
caller adds a pair or removes one (`TotalMoves`); no induction is needed. `TableInv` adds to the two
properties that the handle list of an object is its slots in the table (`Listed`);
that a handle by which threads open its object by name keeps a reference when
they all have given theirs back (`Kept`), so that the handle they retain is the one
they found; that an object that guest code has a pointer to is found by its first handle
(`Stashed`); and that an object without its name yet or about to fail is known to its maker only (`Unknown`).
The lemmas follow what the calls share: `Recount` (a reference count and its owners change
by one), `Addition` and `Removal` (of a handle), `Looked` and `Dropped` (a pointer held during a call);
then there is one lemma per action. Each part of `Careful` is used in one place: that a name is not being opened
while its last handle goes (`NobodyOpens`), that the source of a moving duplicate has no other owner
(`SourceStep`), and that a pointer is not taken of an object without handles (`ReferenceStep`).

*Function table.* `TranslatedOnce` holds because the symbol of a function that is
being declared or translated is "defining" and one thread is at it (`OneWorker`);
`AnswersAgree` because one thread fills an entry and an entry that was read is not
written any more (`OneFiller`). What these do not give is `ReadyIsTranslated`: the one who
waits for "defining" may be waiting for a declaration. `Attended` adds the existence: an entry that is
"compiling" has a thread that will fill it, with a failure perhaps (`HasFiller`), and a symbol that is
"defining" has a thread that is at work and not waiting itself (`HasWorker`). It is the reason why mutual
recursion cannot make translations wait in a circle, and holds for any call graph, in any memory order.

*Guest output.* `Mailbox` orders the frames in the images: shown, acquired, ready,
published; and says where the writable index is between the exchange and the
rotation. `Owners` says that while the refreshing thread paints the mode stays
"guest", and that in that mode the UI thread is not at the connection. `NoFrameForgotten` is `LatestShown`
without the eventually. While the window has a surface, a request that was made is a
paint event it is owed, and an outdated connection has been asked to be remade (`Requests`). A frame that is
announced and not offered then waits for a request, for a thread that will make one (`again`), or for a paint that
takes it; the same is owed to a window that is connected while nobody may paint to it, since a frame that
is announced then asks nobody (`Coming`). `Exposes` is needed in one step: it gives a window with a new surface
the event that an earlier request no longer makes (finding 11).

*What liveness rests on.* `Remembered`, `Unstranded`, `NotForgotten`, `Resumed`, `Notified`,
`Attendance` and `Delivered`, with `NoLostWakeup` and `NoSleeperMissed`, say of each component that whoever waits has somebody
or something that will end the wait. They are no properties of the runs, which check the liveness itself
(`WaiterEnters`, `WaitersEnter`, `DueFires`, `ResumeTakesEffect`, `SelfSuspendEnds`,
`ResolveReturns`, `LatestShown`); each was checked on the instance of its component's run by listing it
as an INVARIANT in the .cfg, and `NoStrandedWaiter` with a single writer.

Only model-checked: all liveness (beyond the prover's reach, as is ENABLED). Every other
property of the passing runs has its theorem. What the model itself bounds (the suspend count,
the signals under way, the references a caller may own, window changes, frames) is
a constant in the theorems, of any size. No module that is proved about uses recursive operators.

## 5. Findings

One finding has a run: `ResolveFunction` can hand out a function that nobody has
translated (`function_table_branch`, `cpu/processor.cc:343`; details in
`PROJECT.json`). The others are seen by changing a .cfg as the table of
conditions says.

1. `xboxkrnl_threading.cc:1783`: `ExReleaseReadWriteLock` takes a waiting writer for a reader when a writer
   leaves: unsigned underflow, the writer sleeps for ever (`NoStrandedWaiter`).
2. `threading_posix.cc:833`: the first `Resume` of a host thread created suspended posts a semaphore that nobody
   takes, and the next suspension of that thread does not hold (`AnySuspendHolds`).
3. `threading_posix.cc:1273`: a `Resume` between the two critical sections of a new thread's start-up
   is lost (`AnyResumeTakesEffect`).
4. `xthread.cc:906`: `XThread::Suspend` suspends the host thread at every level, `Resume` resumes
   it once (`FullyResumedRuns`). The same state without nesting: a Resume by another thread that comes between
   Suspend's count and its call of the host thread finds the host thread not suspended, and Suspend then suspends it.
5. `threading_posix.cc:449`: a mutant's `Release` tests owner and count without the lock and nobody clears
   the owner: a former owner can release it while the next one is taking it (`MutantsKept`).
6. `threading_timer_queue.cc:186`: a callback that disarms its own timer twice (cancels it, then
   sets it again) hangs the dispatch thread (`DisarmReturns`).
7. `memory.cc:1977`: a page that is uploaded while read-only gets no watch; made writable later,
   it stays valid while the guest writes it (`CopyIsAlwaysFresh`).
8. `texture_cache.cc:864`: a page that is invalidated while its texture is loaded leaves a texture
   that is marked up to date and is not; so does an upload that fails, after which the texture is drawn
   as it was and, its binding being in sync, not tried again (`DrawSeesAllStores`).
9. `xboxkrnl_threading.cc:83`: an open by name gives the handle back before it takes it again; a
   close in between leaves the opener with a handle that is closed or another's (`CountsExact`).
10. `processor.cc:285`: on a64 an entry may be seen ready before its function is (`AnswersAgree`).
11. `presenter.h:914`: the flag of a pending paint request survives the loss of the surface and swallows
    the request after the reconnection, if the window system does not ask by itself (`LatestShown`).
12. `presenter.cc:1331`: after the last drawer is removed, the window keeps showing it until the
    next frame (`RemovedUiLeaves`).

## 6. Not modelled

### Further hazards

Beside the list in `PROJECT.json`. No property covers these:

- `base/threading_posix.cc:855`: Suspend overwrites kFinished with kSuspended, and the end
  of the routine overwrites kSuspended with kFinished; a Resume then posts no token (828)
  and the handler of a thread that is leaving waits for ever.
- `base/threading_posix.cc:1251`: asynchronous cancellation may stop a thread that holds a
  mutex (callback_mutex_, state_mutex_, mutex_, or any of the emulator's locks), which then
  stays locked.
- `kernel/xthread.cc:924`: suspend_count is a byte: the 256th nested suspension wraps it to
  zero and the thread counts as running.
- `kernel/xboxkrnl/xboxkrnl_rtl.cc:596`: a null critical section is reported as entered:
  several threads are inside, and the leave does nothing.
- `base/threading_timer_queue.cc:154`: a callback that queues a timer while the ring is full
  waits for the dispatch thread, which is the thread it runs on; likewise the destructor
  after the dispatch thread has left.
- `base/threading_posix.cc:500`: wait_item_ is written and read by SetOnce, SetRepeating and
  Cancel without the mutex: two unserialised setters leave a timer that nobody can cancel.
- `base/threading_posix.cc:1090`: Pulse is a Set, a yield of 10 microseconds and a Reset:
  waiters that have not run by then go on waiting, and one that comes in between is released
  (threading.h:302 promises the reset after the release of the waiting threads).
- `base/threading_posix.cc:1049`: SignalAndWait is not a single operation (threading.h:224
  promises one): another thread can take the signal back before the wait.
- `base/threading_posix.cc:384`: mutex_ is robust and the waits recover it from a cancelled
  owner, but Signal, Reset and Release lock it through std::unique_lock, which throws on
  EOWNERDEAD; and a mutant of a thread that ended is never abandoned (threading.h:199
  promises kAbandoned).
- `cpu/processor.cc:198`: RemoveModule frees the functions of an unloaded module and takes their
  entries out of the table (entry_table.cc:86) without waiting for those who translate them, poll
  their entries or hold their answers.
- `gpu/primitive_processor.cc:1610`: the index cache tests entry_end against the end of the
  invalidated range instead of its start, so entries inside a longer range are kept.
- `kernel/util/object_table.cc:303`: a slot equal to the capacity passes the bounds test.
- `kernel/util/object_table.cc:273`: PurgeAllObjects clears the slots without releasing the
  objects or their names: names outlive the title.
- `kernel/xthread.cc:508`: the exit of a thread releases its own handle twice, once for the
  creator and once for the running thread: a title that closed the handle before leaves it
  one release short.
- `cpu/backend/code_cache_base.h:236`: the map from host addresses to functions is searched
  without the lock while translations append to it.
- `base/threading_posix.cc:298`: a poll that does not get all its locks starts over without
  looking at the timeout: two polls in opposite order can keep each other out, and a handle
  listed twice never succeeds and never times out.

These are covered by properties of the runs, together with a hazard listed there:

- `base/mutex.cc:100`: owner_ is read without holding the lock; a stale value equal to the
  own id would take the recursive branch (`ImplementsLock`).
- `base/threading_posix.cc:863`: nested suspensions send one signal and count many; the one
  post must match the one wait (`CountsMatch`).
- `kernel/xboxkrnl/xboxkrnl_rtl.cc:674`: recursion_count and lock_count change in two steps;
  a waiter that arrives in between must still be counted (`LockCountExact`, `WaiterEnters`).
- `base/threading_timer_queue.cc:124`: a recurring item disarmed from its own callback must
  not be re-armed by the code that runs after the callback (`DisarmIsFinal`).
- `base/threading_timer_queue.cc:64`: the dispatch thread may test shutdown_ just before it
  is stored and wait without a deadline (`ShutdownEnds`).
- `base/threading_posix.cc:237`: a wait that times out while the object is being signalled
  must either take the signal or leave it (`ImplementsDispatcher`).
- `gpu/shared_memory.cc:538`: the invalidated range is widened by bit arithmetic up to, and
  never into, pages that only the GPU has written (`GpuDataKept`).
- `kernel/util/object_table.cc:209`: handles, duplicates, pointers and names of one object
  come and go in any order; each count must end at zero exactly when the last reference of
  its kind goes (`CountsExact`, `NamesResolve`).
- `kernel/xboxkrnl/xboxkrnl_threading.cc:583`: two threads create the same name at once:
  both find none, and the one that comes second keeps an object whose name leads to the
  other's (`NamesResolve`).
- `cpu/module.cc:116`: the same function is reached as an entry and as the target of a
  branch in another function's translation (`TranslatedOnce`).
- `ui/presenter.h:952`: paint_mode_mutex_ is held while the consumer mutex is taken in the
  refreshing thread; a consumer that locks them in the other order waits for ever
  (`LatestShown`).
- `kernel/xboxkrnl/xboxkrnl_rtl.cc:679`: owning_thread is cleared before lock_count is
  decremented and written after it was won; the reader in line 605 has no lock
  (`ImplementsLock`).
- `base/mutex.cc:146`: futex_wait returns early (EINTR: this program signals its threads,
  value changed); the result is ignored and the retry has to cope (`ImplementsLock`,
  `NoLostWakeup`).
- `kernel/xboxkrnl/xboxkrnl_ob.cc:407`: DUPLICATE_CLOSE_SOURCE removes the source handle
  whatever its count (RemoveHandle asserts that it is zero, object_table.cc:226): pointers
  taken through it dangle (`CountsExact`).
- `base/threading_timer_queue.cc:88`: a claimed slot that is not published holds back every
  later one, and the wait has to end at the front item's due time (`DueFires`).

Also seen while reading, in parts that are not modelled: `QueueUserCallback`
overwrites a callback that has not run (`threading.h:472` promises first in, first
out); a second wait on an ended thread joins it and destroys its semaphore again
(`threading_posix.cc:945`); the audio system's worker waits for the resume
event while paused, and shutting down does not set it; a client registered in the
place of one whose token was already taken gets a frame too many.

### What comes next

In order of what matters most; each item is one module.

1. `AudioSystem`: the worker with its client semaphores, pause, resume and
   shutdown; the token taken before a client is exchanged.
2. `HostTimer`: `PosixCondition<Timer>` over an abstract promise of the timer queue (set,
   cancel, fire, wait), and `XTimer`'s lock on top, with `TimerQueue` shown to implement it.
3. `Apc`, `Dpc`, `SpinLock`, `SList` from `xboxkrnl_threading.cc`: delivery order and
   no loss, with the alert of the host waits.
4. The global lock and suspension together: a thread suspended or cancelled while it holds
   the lock, over `GlobalMutex` and `HostThread`.
5. The log's ring, the ring buffer of the command processor, `BaseHeap` as an algorithm against a
   reference definition, and the virtual file system's tree.
6. The abstract promises of the components that have none: a table of functions, one object of
   the object table, and the mailbox of the guest output as a register, shown to be implemented
   as `RecursiveLock` and `Dispatcher` are.

### What stays out

By lines most of the repository is not a system of states that threads change: PPC
and shader translators with their instruction tables and disassemblers,
which are sequential compilers whose correctness is about data and has instruction
tests in the repository; render target and pipeline caches and command processors of the two
graphics interfaces, whose steps are calls into drivers that are not in the
repository; embedded resources, fonts and dialogs; decoders; stubs of system libraries that convert
arguments. A model of those would restate their tables. The Windows and macOS back-ends
are thin calls into their systems, the services behind sessions and sockets are not in the
repository, and what asynchronous cancellation inside a critical section leaves locked
depends on all code a thread may run.
