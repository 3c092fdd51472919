# LinuxThreads in TLA+

A verification development for the thread library in `src/`: TLA+ modules that
follow its C code, instances for the model checker TLC, and theorems checked by
the proof system TLAPS.

## The system

LinuxThreads makes every thread a process, cloned with its parent's memory.
There are no kernel locks to sleep on, so everything that blocks is built from
two primitives: a spin lock (`testandset`), and a pair *suspend/restart* in
which a thread sleeps in `sigsuspend` until it gets the signal
`PTHREAD_SIG_RESTART`.  The signal is blocked at all other times and is one
bit: a restart sent early is kept, two of them count as one.  One further
process, the *thread manager*, is the parent of all threads but the initial
one; it creates them, waits for them and frees their memory, at the request of
the others through a pipe.  A second signal, `PTHREAD_SIG_CANCEL`, is never
blocked: it cancels a thread, and ends it when the process exits.

| component | source | state | operations | how it meets the others |
|---|---|---|---|---|
| waiting queues | `queue.h`, `condvar.c` | `head`, `tail`, one link `p_nextwaiting` in each descriptor | `queue_init`, `enqueue`, `dequeue`, `remove_from_queue` | mutexes, conditions and semaphores all use the same link |
| suspend, restart | `restart.h`, `pthread.c` | pending signal, `p_signal`, `p_cancel_jmp` | `restart`, `suspend`, `suspend_with_cancellation`, the two handlers | under every blocking call |
| spin locks | `spinlock.h` | a word | `acquire`, `release` | inside every operation |
| mutexes | `mutex.c` | `m_spinlock`, `m_count`, `m_owner`, `m_kind`, `m_waiting` | `init`, `destroy`, `trylock`, `lock`, `unlock` | conditions release and take them |
| conditions | `condvar.c` | `c_spinlock`, `c_waiting` | `wait`, `timedwait`, `signal`, `broadcast` | mutexes, cancellation, timeouts |
| semaphores | `semaphore.c` | one `long`: `2N+1`, or the first waiter | `wait`, `trywait`, `post`, `getvalue` | compare-and-swap, cancellation |
| manager | `manager.c` | `stack_segments`, list of live threads, pipe, `terminated_children`, `main_thread_exiting` | the loop; create, free, exit, reap | everything in `join.c` and `pthread.c` |
| join, detach, exit | `join.c` | `p_terminated`, `p_detached`, `p_exited`, `p_joining` | `pthread_exit`, `pthread_join`, `pthread_detach` | the manager |
| process exit | `pthread.c` | `__pthread_exit_requested` | `pthread_exit_process`, CANCEL handler, `pthread_kill_other_threads_np` | the manager |
| cancellation, cleanup | `cancel.c`, `wrapsyscall.c` | `p_canceled`, `p_cancelstate`, `p_canceltype`, `p_cleanup` | `pthread_cancel`, `testcancel`, `setcancelstate`, `setcanceltype`, cleanup push and pop, the wrapped system calls | every cancellation point |
| thread-specific data | `specific.c` | keys, `p_specific` | `key_create`, `key_delete`, `setspecific`, destructors | `pthread_exit` |
| signals | `signals.c` | masks, handlers, `p_signal` | `pthread_sigmask`, `pthread_kill`, `sigwait` | `p_signal` is shared with restart |
| fork | `ptfork.c`, `pthread.c` | three lists of handlers | `pthread_atfork`, `fork`, `__pthread_reset_main_thread` | the child has one thread and no manager |
| stream locks | `lockfile.c` | a recursive mutex per stream | `flockfile`, `ftrylockfile`, `funlockfile`, `__fresetlockfiles` | reset by `fork` |
| once, attributes, scheduling, `errno`, aliases | `mutex.c`, `attr.c`, `pthread.c`, `errno.c`, `weaks.c` | records | getters, setters, single calls | |

What makes it hard, and what has to be right:

* A restart must end the suspend it is meant for.  One that arrives late ends
  another one (`NoStrayRestart`, `RestartKept`), and a caller that trusts the end
  of its suspend goes wrong (`JoinAfterTermination`).
* `suspend` loops until `p_signal` is RESTART but never resets it: in a thread
  that was restarted once, *any* handled signal ends a later suspend.
* A thread is in at most one queue, since all share one link, and every sleeper
  is either queued or being woken (`NoLostWakeup`, `NoStrandedWaiter`).
* The descriptor of a thread lies in its stack segment, which the manager frees
  and reuses, while requests and joiners hold its address (`DescriptorsLast`,
  `JoinableKept`, `RunningMapped`).
* Semaphores have no lock: waiters, posts and cancellations change one list by
  compare-and-swap and by plain writes (`ImplementsAbstractSemaphore`,
  `WaitersReached`, `ExitedUnreachable`).
* Children die, requests arrive, the initial thread exits and the process forks
  in any order (`NoLostChild`, `MainOutlives`, `ProcessEnds`).
* The CANCEL signal comes once, at any moment.  What it finds disabled or deferred
  must be found again by a test (`CancelNoticed`), and what it interrupts must be
  interruptible (`RegionNotInterrupted`, `HandlersRunOnce`, `DestroyedOnce`).
* The table of signal handlers and, across a fork, the locks belong to more than
  one thread (`HandlersRestored`, `MutexesKept`, `StreamOwned`).

`PROJECT.json` lists each hazard with its line and the properties aimed at it.

## The modules

| module | models |
|---|---|
| `Queue` | the linked list of `queue.h`, and `remove_from_queue`; `Holds(q, next, s)` says that it represents the sequence `s` |
| `Restart` | `restart` and `suspend`: `sigpending` is the set of threads with the signal pending. `Interrupts` says whether the program handles other signals |
| `CancelOps` | cancellation as the blocking functions see it: `pthread_cancel`, the CANCEL handler for the deferred type, `suspend_with_cancellation` |
| `MutexOps` | the mutex: one step to get the spin lock, one for the code it protects, one for the suspend, one for the restart |
| `Mutex` | programs of threads that use one mutex; the mapping to `AbstractMutex` and the inductive invariants |
| `AbstractMutex` | what a mutex promises: an owner, a depth, a line of waiters, in atomic steps |
| `CondVar` | one condition with its mutex, on top of `MutexOps` and `CancelOps` |
| `Semaphore` | one semaphore, each read, link, swap, unlink and restart of shared memory a step of its own |
| `AbstractSemaphore` | what a semaphore promises: a counter of at most `SEM_VALUE_MAX` that calls change in one step each |
| `Lifecycle` | the manager, creation, join, detach, exit, death, process exit, and what fork and `pthread_kill_other_threads_np` leave |
| `Cancel` | cancellation in full: state and type, the tests, wrapped system calls, cleanup handlers |
| `Specific` | the table of keys, the values, the destructors |
| `ThreadExit` | composes `Cancel` and `Specific`: a thread from its program through the handlers and destructors to the point where `Lifecycle`'s `pthread_exit` goes on |
| `Signals` | masks, `pthread_kill`, `sigwait` and the handlers of the process, with `suspend` and the CANCEL signal beside them |
| `ForkHandlers` | `pthread_atfork`, the handlers around `fork`, stream locks and their reset in the child |
| `MC*` | instances for TLC: symmetry, and finite programs (a bound on the calls) with their fairness |
| `QueueProofs`, `MutexProofs`, `CondVarProofs`, `SemaphoreProofs`, `LifecycleProofs`, `ThreadExitProofs`, `SignalsProofs`, `ForkHandlersProofs` | theorems |

State and actions carry the names of the C variables and functions.  A function
that sleeps or that others can interleave with is split where it does, the parts
being named after it (`pthread_join`, `pthread_join_suspend`,
`pthread_join_check`); `pc[t]` says which part thread `t` is in.  The code under
`c_spinlock`, `p_spinlock` and `pthread_keys_mutex` is a single step, because
nothing in it sleeps or returns early and all access to what it changes is under
the same lock; the code under `m_spinlock` is not, because an error path leaves
without releasing it, nor is that under `pthread_atfork_lock`, which a fork in
another thread can leave locked in the child.  Threads and descriptors are model
values.  Where the C code follows a pointer into freed memory the thread dies
(`killed_by_signal`) or, in the manager, takes no further step.  Wait and
broadcast lists are real links: `p_nextwaiting` is a function from threads to
threads, and a list that another step cuts or bends is walked as the code would
walk it.

Three modules follow one side of a split.  At a fork `Lifecycle` goes on as the
child (the parent goes on as it was); the child's former fellow threads do not
exist in it.  After `pthread_kill_other_threads_np` the threads that have not yet
died are orphans and make no further calls.  `ForkHandlers` goes on as the parent
or the child; its mutexes are those of `AbstractMutex`, without the line.

The programs are those the manual pages allow, and each liberty the runs do not
take is a constant: `Interrupts` (signals handled in suspended threads),
`Detaches`, `Rejoins` (detaching others or oneself, joining a thread twice),
`Crashes`, `Blocking` (threads die by signals, and which threads may block them),
`CancelableSuspends` (threads that may be cancelled create threads and end the
initial thread), `LateResets` (fork, or kill the others, after the main thread has
come to its wait in `pthread_exit`), `CancelsExiting` (cancelling a thread that is exiting),
`HandlerCalls` (which of the functions the library calls back contain
cancellation points), `Reuses` (deleting a key that has values), `Shares` (two
`sigwait`s for one signal).

`Semaphore` keeps the width of `long` and `int`: `Long(n)` wraps as two's
complement does.  Definitions called "Mutant" are wrong versions of the
definition after them.  They are used by nothing; replacing the one by the other
must break the property that `PROJECT.json` names.

## The runs

Each run is `tlc -config <cfg> <module>`.

| run | cfg, module | instance | shows |
|---|---|---|---|
| `mutex` | `Mutex.cfg`, `MCMutexAbstract` | 3 threads, fast, recursive and undefined kind, depth 2, 2 calls each besides unlock, fair | exclusion, no lost wake-up, no stray restart, calls return, `AbstractMutex` is implemented with its fairness |
| `condvar` | `CondVar.cfg`, `MCCondVarLive` | 3 threads, 2 calls each besides unlock and 3 for one of them, fair | waiters are restarted once, broadcasts reach all, woken waiters return with the mutex |
| `condvar_races` | `CondVarRaces.cfg`, `MCCondVar` | 2 threads, any number of calls, timeouts, broadcasts, cancellation of one, other signals | the mutex is exclusive; a thread has it when `pthread_cond_wait` has woken, and when a cancelled waiter exits |
| `semaphore` | `Semaphore.cfg`, `MCSemaphore` | 3 threads, one cancelled, a 4-bit `long` and `int`, fair | `AbstractSemaphore` is implemented, but for posts refused early; the cancelled thread is off the list when it exits; until it is cancelled every sleeper is reached by a post, nobody else is restarted, and none sleeps on |
| `lifecycle` | `Lifecycle.cfg`, `MCLifecycle` | 3 threads, 2 creations, `exit`, deaths by signals that any thread may block, fork, `pthread_kill_other_threads_np` | the safety properties of the module |
| `lifecycle_live` | `LifecycleLive.cfg`, `MCLifecycle` | 2 threads, 3 creations, `exit`, deaths by signals that the main thread may block, one thread cancelled, detached threads and threads that detach themselves, fair | requests are answered, joiners wake, cancelled joiners leave, memory is freed, the process ends |
| `thread_exit` | `ThreadExit.cfg`, `MCThreadExit` | 1 thread with 4 calls, 2 buffers and 2 keys, against 2 requests to cancel it and 2 creations or deletions of keys, fair | no request goes unnoticed, handlers and destructors run once, deferred regions are not interrupted, a cancelled system call ends |
| `signals` | `Signals.cfg`, `MCSignals` | 2 threads with 2 calls and 1 call, 2 awaited and 1 handled signal, 2 signals sent, cancellation enabled or disabled, fair | handlers come back, restarts are kept, `sigwait` returns, and returns what it was asked for |
| `fork_handlers` | `ForkHandlers.cfg`, `MCForkHandlers` | 2 threads, 2 sets of handlers, 6 calls, fair | prepare handlers are paired, mutexes and stream locks are owned by living threads, `fork` returns |

Three runs end in a counterexample to what the documentation says, because the
code does otherwise:

* `condvar_broadcast_race` (`CondVarBroadcastRace.cfg`): `pthread_cond_broadcast`
  restarts the threads of its private copy of the queue one by one.  A thread of
  the copy that times out first goes on to `pthread_mutex_lock`, and if the mutex
  is taken it is put into the mutex's queue, still linked to the waiter behind it.
  The unlock that dequeues it clears that link (`src/queue.h:43`): the copy ends
  there, and the broadcast does not restart the waiter behind.  That one, still
  waiting for the condition, has become the head of the mutex's queue, and only a
  later unlock restarts it.  (If a fourth thread queues for the mutex behind the
  first, it overwrites the link instead, and the waiter is in no queue at all.)
* `semaphore_cancel_post` (`SemCancelPost.cfg`): a cancelled thread has found
  itself behind another one in the list and is about to overwrite that one's link,
  when `sem_post` takes the list and restarts both.  The other thread comes back,
  waits again and links itself to a new neighbour; now the late write replaces that
  link by the end of the old list (or by `NULL`, if `sem_post` had cleared it), and
  the neighbour sleeps in no list.  Later posts restart the other thread only, or
  follow `NULL`.  The comment in `sem_wait` says that this race does not matter.
* `lifecycle_detach_race` (`LifecycleDetachRace.cfg`): a thread is detached after
  it terminated, so that it is freed when it is reaped *and* a `REQ_FREE` for it
  is sent.  If a creation is served in between, the new thread gets the segment
  and the `REQ_FREE` detaches the wrong thread.

Other limits of the code are reproduced by changing constants:

| change | fails | because |
|---|---|---|
| `Mutex.cfg`: `Interrupts = TRUE` | `NoLostWakeup`, `NoStrayRestart`, `EnqueueAssert` | a thread goes round the loop of `pthread_mutex_lock` and is enqueued twice |
| `Lifecycle.cfg`: `Interrupts = TRUE`, `KillsOthers = FALSE` | `JoinAfterTermination`, `MainOutlives` | `pthread_join` and `pthread_exit` do not test again after their suspend |
| `CondVarRaces.cfg`: `Interrupts = FALSE`, `Cancels = {}` | `NoStrayRestart` | a signal dequeues a thread that then times out, and the restart ends a later suspend |
| `Semaphore.cfg`: `Cancels = {t1, t2}` | `ExitedUnreachable` | two neighbours unlink themselves at the same time |
| `Semaphore.cfg`: `InitialValues = {5, 6, 7}` | `ImplementsAbstractSemaphore` | the encoded count `2N+1` of a value above half of `SEM_VALUE_MAX`, which `sem_init` accepts, wraps when `long` has the width of `int` |
| `Lifecycle.cfg`: `LateResets = TRUE` | `NoStrayRestart` | `main_thread_exiting` stays set after a fork or `pthread_kill_other_threads_np`, also if the old main thread was ended by an `exit` before, so that the next manager restarts a main thread that does not wait |
| `LifecycleLive.cfg`: `CancelableSuspends = TRUE`, `Detaches = {"others"}`, `Rejoins = TRUE`, `MaxClones = 4` | `JoinAfterTermination` | the CANCEL signal ends the suspend of `pthread_create`, whose answer comes later and ends a join |
| `ThreadExit.cfg`: `CancelsExiting = TRUE` | `HandlersRunOnce`, `DestroyedOnce` | `perform_cleanup` and `pthread_destroy_specifics` start again from the top when a handler or destructor is cancelled |
| `ThreadExit.cfg`: `"pop"` in `HandlerCalls` | `HandlersRunOnce` | `_pthread_cleanup_pop` runs the handler before it unlinks the buffer |
| `ThreadExit.cfg`: `Reuses = TRUE` | `DestroyedOnce` | a key that is deleted and created again finds the old values |
| `Signals.cfg`: `Shares = TRUE` | `HandlersRestored`, `SigwaitResult` | two `sigwait`s for one signal save and restore each other's handlers |

Further limits are named in the properties themselves, where the code differs from
its documentation:

* `src/man/sem_init.man:102-104` has `sem_post` fail with `ERANGE` if "after
  incrementation, the semaphore value would exceed `SEM_VALUE_MAX`".  The code
  compares the encoded count `2N+1` with `SEM_VALUE_MAX` (`src/semaphore.c:170`) and
  fails from half of it on.  `AbstractSemaphore` is the manual's;
  `ImplementsAbstractSemaphore` allows the other failures beside it, as
  `RefusedEarly`, and is violated without that disjunct.
* `src/README:176-178` says that a fatal signal terminates all threads, since the
  manager "kills all other threads with the same signal".  The manager does no more
  than send it (`pthread_kill_all_threads`) and exits; a thread that blocks the
  signal lives on, with nobody to serve its requests.  Its `exit` and its
  `pthread_create` then suspend for ever.  `reap_signaled` spares any of the threads
  in `Blocking`, and `Deserted` is the exception that `ProcessEnds`, `CreateReturns`
  and `JoinReturns` make; `ProcessEnds` and `CreateReturns` are violated without it.
  (When the initial thread has died the signal is `SIGKILL`, which nobody blocks.)
* With four threads, one of them cancelled, the late write described above can also
  leave a link to a thread that no longer waits, and the next post restarts that
  thread.  `NoStrayRestart` of `Semaphore` therefore ends with the first cancellation.

Others are part of the premises.  `ForkReturns` excepts
a child that inherits a locked `pthread_atfork_lock` (another thread was in
`pthread_atfork` at the fork): nothing unlocks it, and the child can never fork
again.  It and `MutexesKept` except handlers registered while a fork is between
reading the lists and its end (`late`): `pthread_atfork` then appends to lists that
the fork is walking.  `SigwaitResult` holds of a `sigwait` that no cancellation
with cancellation disabled interrupts: that one returns with 0 (against the comment
at `src/signals.c:106`).  `HandlersPaired` compares the handlers whose prepare
handler was called.
`SpinlockReleased` excepts a mutex of an unknown kind, whose error return keeps
the spin lock (`src/mutex.c:80`).

### Bounds

Three threads are what the queues of mutexes and conditions need: one that holds,
one that waits and one that barges in, or two that wait and one that wakes.  The same
holds of semaphores as long as nobody is cancelled; a cancelled waiter with waiters
before and behind it and a post need four, so `NoStrayRestart` makes no claim there,
and `ExitedUnreachable`, which does, was also checked once with four threads (the
cancelled one, two that wait twice and one that posts three times, 2.7 million
states).  Races of a timeout or a
cancellation with a signal need two.  Two calls per thread let a thread come back
to a queue it left.  With `LONG_MAX = 7` the counts are 0 to 3, with an overflow
and a wrap within reach.  Two creations besides the initial thread make a family
in which one thread joins another while a third dies; three creations on one or
two segments reuse a segment.  `MaxClones` bounds the otherwise endless creation.
`PipeSize` 2 makes writers block in `lifecycle_detach_race`.  Liveness is checked
without symmetry, and in `Lifecycle` with two threads only, because three are out
of reach.  In `ThreadExit` one thread is enough: threads share nothing there but
the keys, which the environment changes.  Two buffers nest a deferred region in
another; two requests let a second one find the thread in its handlers.  Two
blocks of handlers have an order, and six calls register both, lock and fork
twice.  `CHECK_DEADLOCK FALSE` is set where the program may stop: finite programs
come to an end, processes exit, conditions may never be signalled.

### Fairness

Weak fairness of each thread's library steps and of the manager: the kernel runs
every runnable process, delivers a pending signal to a process that does not
block it, and ends `select` after its two seconds.  Programs are not assumed to
call anything, except that whoever holds a mutex or a stream unlocks it (`mutex`,
`condvar`, `fork_handlers`) and that cleanup handlers and destructors return
(`thread_exit`).  The number of calls is bounded, because the code promises a
waiter nothing against threads that keep taking the mutex between an unlock and
the wake-up it sent.  Spinning on a spin lock is a step that is not enabled until
the lock is free; that each spinner gets it in the end is what the `sched_yield`
in `acquire` is for.

## The proofs

All theorems hold for every set of threads and every value of the other constants,
within the assumptions named.

`QueueProofs`: if a queue holds the sequence `s` (`Holds`: head, tail and links
spell out `s`, without repetition) then `enqueue` of a thread that is not in it
makes it hold `Append(s, t)` (`EnqueueAppends`), and `dequeue` returns its head,
makes it hold `Tail(s)` and clears the link (`DequeueTakesFirst`).  A queue holds
one sequence only (`HoldsUnique`, by a least index at which two would differ), and
one no longer than the set of threads (`HoldsBounded`).

`MutexProofs`:

* `TypeCorrect`, `MutualExclusionHolds`.  The invariant is `OwnershipInv`:
  `SpinExclusion` (one thread at most is in code that `m_spinlock` protects, and
  the lock is then taken), `Ownership` (`m_count` is what the holder holds, and
  `m_owner` is the holder), `RestartTarget` (a thread that is about to restart
  another has one).  Mutual exclusion alone is not inductive: that a thread takes
  a free mutex preserves it only if `m_count = 0` means that nobody holds it.
  Nothing is assumed of signals: the loop of `pthread_mutex_lock` tests again.
* `NoLostWakeupHolds`, `NoStrayRestartHolds`, `EnqueueAssertHolds`, assuming that
  no signal but restart is handled (`~Interrupts`).  The invariant is `WakeupInv`:
  there is a sequence `s` that the queue holds, and the threads asleep in
  `pthread_mutex_lock` are those of `s` and those to which exactly one restart is
  due, either pending or about to be sent.  The proof of each action rests on the
  two theorems on queues.  The assumption is needed, as the table above shows.
* `SpinlockReleasedHolds`: no call on a properly initialized mutex returns holding
  the spin lock.

* `ImplementsAbstract`: `Mutex` implements the safety part of `AbstractMutex`,
  assuming `~Interrupts` and finitely many threads.  The owner is the thread that
  holds the mutex, the line is the sequence that the queue holds (which one it is,
  `CHOOSE` can tell because of `HoldsUnique`), and the threads on their way contend.
  Besides the two invariants above the proof needs `LockersHoldNothing`: a thread
  that waits for a fast mutex does not hold it, or it would wait for itself.

`CondVarProofs`:

* `MutualExclusionHolds` and `CleanupHoldsMutexHolds`, whatever the program does:
  timed waits, cancellation and other signals can break the queues, but not these.
  The invariant `OwnInv` is `Ownership` again, and for each place in
  `pthread_cond_wait` whether the thread there has the mutex.
* `NoStrayRestartHolds` and `NoStrandedWaiterHolds`, for finitely many threads,
  assuming `~Interrupts`, no timed waits and nobody cancelled; the run
  `condvar_broadcast_race` and the table above show why.  All queues share the one
  link, so the invariant `WakeInv` speaks of a family of sequences: one for the
  mutex, one for the condition, and one for the private copy of each thread that is
  in `pthread_cond_broadcast`.  They have no thread in common, and the sleeping
  threads that are in none of them are those that one restart is due to.  A
  broadcast moves a whole sequence from one place of the family to another.

`SemaphoreProofs`:

* `ImplementsAbstractSemaphoreHolds`, that `Semaphore` implements
  `AbstractSemaphore`, but for the posts of `RefusedEarly`, for every width of
  `long` and `int`, assuming that nobody is cancelled and that the initial value is
  at most half of `SEM_VALUE_MAX`.  The invariant `CountInv` says of each thread
  between its read and its swap that the new word is the right one for the old word:
  one less if it was a positive count, the thread itself if it was 0 or a list; and
  for a post one more, or a count of 1 in place of a list.  The swap succeeds only
  if the old word is still there, so the step is the abstract one whatever happened
  in between.
* `WaitersReachedHolds`, assuming `~Interrupts` and finitely many threads, up to the
  first cancellation.  The invariant `LineInv` has a family of lists, one that
  `sem_status` leads to and one for each `sem_post` that has taken a list and walks
  through it, and a rank for each thread that falls by one along every link.  The
  lists have no thread in common, and a thread sleeps exactly if it is in one of
  them or a restart is due to it, from one post at most.  The ranks turn into what
  `ListFrom` finds by following the links (`ListIs`).  A post that takes the list
  moves it to its own place in the family, and a thread that has linked itself but
  lost the swap is in no list.  `UntilCancelled` lets the threads be cancelled
  later: a thread stays cancelled, or has exited.
* `NoStrayRestartHolds`, also up to the first cancellation, from the same invariant.

`LifecycleProofs`:

* `RunningMappedHolds` and `NoLostChildHolds`, whatever the program does,
  detaching, joining twice, cancelling, forking and dying by signals included.  The
  invariant `ReapInv` adds to them that `p_exited` is set only in descriptors whose
  process has been waited for (which is why `pthread_free` may unmap the stack) and
  that a process without manager has no living children.
* `NoStrayRestartHolds`, `JoinAfterTerminationHolds`, `JoinableKeptHolds`,
  `DescriptorsLastHolds` and `MainOutlivesHolds`, for the programs called
  `Cautious`: no cancellation, no handled signals, each thread joined once and
  detached by nobody but itself, and no fork or `pthread_kill_other_threads_np` once
  the main thread has come to its wait in `pthread_exit`.  `exit`, forks before
  that, deaths by signals, whoever blocks them, detached threads and any number of
  creations are all in.
  Each exclusion is needed for one of the five, as the table above and the run
  `lifecycle_detach_race` show.

  The five need one invariant, `LifeInv`, because each rests on the others.
  `JoinInv`: `p_joining` of a thread that has not terminated names a thread that
  sleeps for it.  `RestartInv`: a pending restart is *deserved*; what its thread
  waits for has happened, and for the main thread that is the death of all
  others.  It is preserved only if an answer in the pipe is for a thread that
  still waits: `PipeInv`, with one request at most of each kind and thread.
  `OwnInv` says who is to free a thread that is not detached, and that it is one
  of them only: the program, which can still join it; its joiner, or the creator
  that has not returned yet; a `REQ_FREE` in the pipe.  So nothing is freed twice,
  or while somebody has its address.  `CancelInv` and `MainInv` are about the end:
  CANCEL is sent only by a manager that stops, and only the main thread waits for
  the others.  The delicate case is `pthread_kill_other_threads_np`, which goes on
  while its fellow threads die: the request it sends is read before any
  `REQ_MAIN_THREAD_EXIT` (`KillsFirst`), or the next family would inherit the flag.
  TLC has checked `LifeInv` on the instance of `lifecycle` with threads that
  detach themselves.

`ThreadExitProofs`:

* `CancelNoticedHolds`, `TypeRestoredHolds` and `RegionNotInterruptedHolds`, for any
  nesting of cleanup handlers and any number of requests.  The invariant
  `CancelInv` says that the types saved in the cleanup buffers are those in force
  when they were pushed (`SavedTypes`, along the whole stack): only so do
  `pop_restore` and the return from a system call put back what the program asked
  for.
* `HandlersRunOnceHolds`, assuming `~CancelsExiting` and no cancellation points in
  handlers that `_pthread_cleanup_pop` calls.  The invariant `RunsInv` counts the
  runs of each buffer from where `perform_cleanup` is in its walk.
* `DestroyedOnceHolds`, assuming `~CancelsExiting` and `~Reuses`.  The invariant
  `ValuesInv` adds that a value belongs to a key in use and to its present
  destructor, which a key deleted and created again would break.

`SignalsProofs`:

* `MasksKeptHolds` and `RestartKeptHolds`, from `SignalsInv`: every mask that
  `pthread_sigmask` computes keeps RESTART blocked and CANCEL not.
* `HandlersRestoredHolds` and `SigwaitResultHolds`, assuming that no two threads
  wait for one signal (`~Shares`).  `HandlersInv`: the sets of the threads in
  `sigwait` are disjoint, and a handler differs from the program's exactly while
  the one `sigwait` that has saved it is between its two loops.  `ResultInv`: awaited
  signals are blocked outside `sigwait`, so that what ends its `sigsuspend` is a
  signal of its set or a cancellation.

`ForkHandlersProofs`:

* `StreamOwnedHolds`.  Between `__fork` and `__fresetlockfiles` the property does
  not hold; the invariant `StreamInv` says that then the child has a single thread,
  which has locked nothing, so that nobody can lock, unlock or create a thread
  until the reset.
* `MutexesKeptHolds`, for any number of handlers and of threads forking at once.
  The invariant `Kept` follows the walks: of the list `prepare` a part is locked by
  the thread that forks, and exactly the rest is not; of `parent` and `child` a part
  has been unlocked.  It needs that the three lists have the same members whenever
  nobody is in `pthread_atfork` (`ListsInv`), and that nobody registers while a
  thread forks, which is what `late` excludes.

Only model-checked, because the prover does not do fairness: every liveness
property, and the fairness of `AbstractMutex`.  Only model-checked because it is
about recursive functions of data: `HandlersPaired`, which compares a log of the
calls of fork handlers with filtered and reversed lists.  Only model-checked so far:
the semaphore with cancellation (`ExitedUnreachable`), and `Lifecycle` with
cancellation.

## Not modelled

* `pthread_once` is one `testandset` and a call: a second caller returns at once,
  also while `init_routine` still runs.  There is no state to relate that to.
* Attributes and scheduling parameters are getters, setters and system calls.
  Where they matter (`detachstate`, the kind of a mutex) they are constants.
* Inline assembler (`testandset`, compare-and-swap) is taken to be atomic.
* The arithmetic that finds a descriptor from the stack pointer, and
  `pthread_grow_stack_segments`, which succeeds or fails: stack segments are a set.
* The conversion of absolute to relative time in `pthread_cond_timedwait`: a
  timeout may come at any moment.
* `pthread_atfork`'s `ENOMEM`, returned before anything has changed.
* Asynchronous cancellation inside a library function that holds a lock, such as
  `pthread_keys_mutex`, which then stays locked: the library's functions are not
  safe under the asynchronous type, and their bodies are single steps here.
* A cancellation after `pthread_kill_other_threads_np`, which leaves
  `__pthread_exit_requested` set, so that the CANCEL handler ends the process.
* `__fresetlockfiles` also frees a stream that the forking thread itself holds;
  the programs of `ForkHandlers` fork without holding one.
* `errno`, aliases and the examples.
