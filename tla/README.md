# SyncPerf in TLA+

SyncPerf is a profiler for pthread programs.  It is preloaded into a program,
replaces the mutex functions of the C library by its own (taken from glibc's
NPTL and extended by counters), intercepts thread creation and joining, and
writes a report when the process ends.  This directory holds TLA+ models of it,
the TLC configurations that check them and proofs checked by TLAPS.

    tlc -workers 2 -config LowLevelLock.cfg MCLowLevelLock
    tlapm LowLevelLockProofs.tla

## The system

| part | source | state | operations | hard behaviour |
|---|---|---|---|---|
| futex lock | `lowlevellock.h`, `lowlevellock.S` | the lock word; the kernel's queue | `lll_lock`, `lll_trylock`, `lll_cond_lock`, `lll_cond_trylock`, `lll_unlock` | any interleaving of instructions and system calls, interrupted waits |
| record registry | `mutex_manager.cpp`, `recordentries.hh`, `mutex_init.c`, `mutex_destroy.c` | the nominal mutex (first word of the program's `pthread_mutex_t`), the table `sync_vars`, the rows `thread_sync_data` | `create_mutex`, `setSyncEntry`, `get_mutex`, `inc_access_count` | first lock of a static mutex by several threads, a full table, reuse of destroyed mutexes |
| call contexts | `mutex_manager.cpp` (`add_new_context`) | `eip`, `stacks`, `stack_count` of a record | scan, check, write, increment | no lock is held |
| mutex operations | `mutex_lock.c`, `mutex_trylock.c`, `mutex_unlock.c`, `mutex_init.c`, `mutex_destroy.c`, `pthread_mutex_cond_lock.c` | `__owner`, `__count`, `__nusers`, `__spins`, `__kind`, per-thread counters | lock, trylock, unlock, init, destroy, and the cond variants | kinds, recursion, adaptive spinning, condition waits, error returns |
| robust and PI mutexes | the same files, `descr.h`, `pthreadP.h` | the lock word with the owner's id, `__owner` with its magic values, the list of robust mutexes of a thread and its pending operation | lock, trylock, unlock | the death of a thread at any step |
| thread registry | `xthread.h` | thread structures, indices, alive count, levels | `allocThreadIndex`, `thread_create`, `startThread`, `thread_join`, `markThreadExit`, `finalize` | creations and joins of several threads, refused creations, limits |
| report | `report.h` | sums over the rows, rates, map of call contexts, waits | `print` | runs while other threads go on, after `exit` or SIGINT; unsigned products |
| condition variables | `cond_wait.c` | sequence counters, futex, waiters | `pthread_cond_wait`, the cleanup handler | lost signals, cancellation |
| priority protection | `tpp.c` | map of priorities of a thread | `__pthread_tpp_change_priority` | several mutexes with ceilings given back in any order, failing system calls |
| cancellation | `cancellation.c`, `cleanup_compat.c` | `cancelhandling` | enable, disable, cleanup push and pop | none: the calls are commented out |
| timing | `finetime.c` | none | `get_tsc`, `get_elapsed_cycle`, `get_elapsed2ms` | a counter in two words, whose lower one wraps |
| diagnosis tool | `diagnosis_tool/src/sync_track.cpp` | map of addresses, flags per thread | `ProcessLock`, `ProcessUnlock`, `ProcessInst`, `doMemAccess` | a shared map without a lock |
| C library headers | `atomic.h`, `bits/atomic.h`, `descr.h`, `tls.h`, `sysdep.h`, ... | none | macros | none of their own; the list macros of `descr.h` belong to the robust mutexes |

How they interact: a call of `pthread_mutex_lock` finds or creates the record of
the nominal mutex (registry), counts the access in the row of the calling thread,
adds its call site to the record (contexts), and locks the real mutex inside the
record (mutex operations), whose lock word is the futex lock.  The row is selected
by the thread index that the thread registry has assigned.  `exit` runs the report
over all records and rows.  The hazards of each part, with their lines, are listed
in `PROJECT.json`.

## Modules

`AbstractLock` says what a lock promises: a set of holders with at most one
member, a set of trying threads, and (`AFairSpec`) a free lock that is tried for
is taken.  Three protocols implement it: `LowLevelLock` (run `lock`, with the hand-over), and by
proof `PthreadMutex` and each mutex of `PriorityProtect`.

`LowLevelLock` is the futex lock.  `futex` is the lock word, `pc` the place of
each thread; there is one action per instruction that touches the word and one per
futex system call.  `CmpXchgOrWait` is the inline `cmpxchg` together with the
compare at the start of `__lll_lock_wait`; `FutexWait` and `LockXchg` are its
loop; `lll_unlock` is the inline `decl`, `UnlockStore` and `UnlockWake` are
`__lll_unlock_wake`.  The kernel side (compare before sleeping, choice of the
thread to wake, `FutexInterrupted`) is external.  The property `ImplementsLock`
is the refinement to `AbstractLock`: holders are the threads in `in` or `store`,
trying are those in `__lll_lock_wait`.

`SyncRegistry` is the registry with the counting loop of the report.  `nominal` is the
first word of each mutex, `_cur` and `entry_index` are the table, `access_count` the
rows, `th` the threads with their locals, one action per access to memory that other
threads write.  `access_count++` is a load and a store.  The program is assumed to use
its mutexes correctly: it does not initialise or destroy one that another thread is
using, and it may reuse the memory of a destroyed one.  `Exit(t, orderly)` is either an
orderly exit (all other threads are out of their calls and stay there) or one that other
threads do not notice; `report.orderly` remembers which.  The threads of the model exist
from the start, so the report loops over all of them.

`CallContexts` is `add_new_context` on one record, one action per access to a shared
field.  Nothing in the code keeps two calls apart, and then nothing about the contexts
can be promised: the module serves the run `contexts_lost`.  A call stack is represented
by the return address it was taken for, and the memory behind the arrays by extra slots,
so that an overrun is a state and not an evaluation error.

`PthreadMutex` puts the mutex functions on top of `LowLevelLock` (`LLL`), which
it instantiates on its own variables `futex` and `pc`.  `th[t].at` is the place of
a thread between two operations on the lock word.  `EnterLock(t, TRUE)` and the
`c` parameters are the same code compiled as `__pthread_mutex_cond_lock`, and
unlock with `decr = 0`.  The program relocks only mutexes that may be relocked and
unlocks what it holds (a foreign unlock is refused by the kinds that check); it
may destroy a mutex while others hold it or wait for a condition, since destroy
answers EBUSY.  `count` wraps at `CountMod`, the spin limit is computed as in the
code, with smaller constants.

`XThread` is the thread registry.  `allocThreadIndex` and `markThreadExit` run
under the global lock and are one action each; the real `pthread_create` and
`pthread_join` lie between them.  `pthread_detach` and `pthread_exit` are not
intercepted by SyncPerf and are modelled by what they leave undone.  An ended thread
that is not joined, a detached one and a refused creation keep counting as alive, so
that the process may be stopped for too many threads with few running;
`NeverUndercounts` says that the count errs on this side only.  The initial thread may
end by `pthread_exit` and be joined while others run; when the last thread has ended the
process exits.

`CondWait` is `pthread_cond_wait` with its cleanup handler on one condition variable and
one mutex, whose lock word is `LowLevelLock` again.  `cond` holds the sequence counters,
`th[t].at` the place of a thread, `seq`, `bc_seq` and `val` its locals. What runs under
the lock of the condition variable is one action; the release of the mutex, which
happens while that lock is held, is not.  SyncPerf leaves signal, broadcast and destroy
to the C library; they are external actions, written as the counters require: a
broadcast wakes one sleeper and moves the others to the queue of the mutex, destroy (the
mark -1 in `__total_seq` is `dying`) waits for `__nwaiters`.  A waiter can be
interrupted or cancelled on either queue.  The calls that would enable cancellation
around the wait are commented out, so only a thread that enables asynchronous
cancellation itself gets into the handler; there `__pthread_mutex_cond_lock` is given
the real mutex instead of the nominal one, takes its lock word for the address of a
record, and the process ends by the assertion of `get_mutex` or by a fault
(`CancelRelock`).

`PriorityProtect` is the priority protected kinds and `tpp.c`.  `sched[t]` is what a
thread keeps about its ceilings and what the kernel keeps about its priority; it is
private to the thread, so a call of `__pthread_tpp_change_priority` belongs to the
action it occurs in and is an operator from the data to the set of its possible results.
The program does not lock a normal mutex it holds, but it may try it: the ceiling is
then counted twice until the exchange has failed.  The accesses to the lock word, which
has its own protocol here, are one action each.  A refused request leaves the map and
`priomax` changed; `refused` remembers it.  A mutex without a ceiling in its attribute
fails the assertion of `tpp.c` in the first lock by a thread without real-time priority,
since the lines of `pthread_mutex_init` that would raise the ceiling are commented out:
the model reaches this (`aborted`).

`RobustMutex` is the mutexes whose lock word holds the id of their owner: robust ones
and priority inheriting ones.  `word` is the lock word with its two flags, `owner`
the `__owner` with the cookies for inconsistent and unrecoverable, `next`, `prev`
and `pending` the list of robust mutexes that the kernel follows when a thread dies.
Each access to a lock word and each write to what the kernel reads is an action,
and `Die` may follow any of them; what the kernel then does (`Die`, `HandOff`) is
external.  Robust and PI trylock take the same steps with few differences and share
their actions (`TrylockStep`; `KernelStep` is what PI adds).  What the model takes
from the code as it is:

* a robust mutex has the PSHARED bit, which the switch of `pthread_mutex_lock` does
  not mask: only trylock takes it, and nobody ever waits for it;
* the unlock of PI mutexes is compiled out and falls into the priority protected
  case, where the recursive kind is counted down a second time, waiters in the
  kernel are not woken, and the assertion of `tpp.c` stops the process.  A robust PI
  mutex is not taken off the list before that (`stray`);
* on an unrecoverable mutex `if (oldval == id)` never holds: the word stays taken;
* `pthread_mutex_consistent` is the C library's, looks at the nominal mutex and never
  makes the real one consistent, so it is no action of the model;
* the errors of FUTEX_LOCK_PI other than ESRCH and EDEADLK, and those of
  FUTEX_TRYLOCK_PI other than EWOULDBLOCK, are taken for the lock (`LockKernelFails`,
  `TryKernelFails`).  ENOMEM may come at any time, and EINVAL does when the
  compiled-out unlock has cleared the word with a waiter still queued.  From
  then on (`misled`) a thread may hold a mutex whose word is not its own, and
  nothing is promised: the invariants are about the time before;
* thread ids are below 2^19.  The unlock that falls into the priority protected case
  keeps the bits 0xfff80000 of the word, which a larger id would reach;
* `__nusers` wraps below 0 when the owner died before it had counted itself.

`Report` is the counting of a thread in its rows, the time stamps (`finetime.c`) and
`Report::print` with its classification.  A rate is a fraction, so that comparing it is
exact; the counts, their sums and the product `100*total_fail_count` are taken modulo
`UIntMod`; `CountsCredible` is stated while no count can have wrapped.  Time is counted
in cycles, the counter is read as two words of `LowMod` values.  `Load` reads one count
of a row, in either order, while the other threads go on; the rest of the body of the
loop body of the loop is `Classify`.  The stamp of a condition wait is a pointer
variable (`cond_wait.c:111`) that `start_timestamp` writes a struct of two words to: the
low word fits, the high word lies in other memory of the frame and is whatever is there
when the wait ends (`CondWaited`, with a choice from `HighWords`).  The other effect of
that write, on what the memory belongs to, is not modelled: `CondWait` assumes that it
is none of the locals it has.  `Exit(t, since)` lets the last thread level begin at any
earlier time, which is what creations and joins do.  The registry, the contexts and the
mutexes are here only what the report sees of them.

`SyncTrack` is the diagnosis tool, a separate program that runs under Pin.
`memAccessMap` maps addresses to entries of `heap`; `doMemAccess` is one action per
access to a shared field, and an insertion into the map takes two (`Insert`,
`Change`), during which a search may miss any entry and another insertion may be lost
(external: what an unprotected `std::map` does, short of crashing).  `ghost` records
what really happened.  Two things of the code are visible in it: `_raddr & !shared_data`
is a bitwise operation, so that reads of even addresses are never looked at, and an
inner unlock turns recording off in the middle of an outer critical section.

## Runs

Passing:

| run | instance | what it shows |
|---|---|---|
| `lock` | 4 threads, fair | at most one thread owns the word, which is 0 exactly while none does (`MutualExclusion`); no sleeper is forgotten (`NoLostWakeup`); it implements the abstract lock with its hand-over (`ImplementsLock`). Four threads give an owner, a thread that wakes, a sleeper and a late comer at once. |
| `registry` | 2 threads, 2 mutexes, 3 entries, 2 locks, counters modulo 2 | one record per mutex (`OneEntryPerMutex`), the same for all threads and for the life of the mutex (`SameRecord`, `RecordForLife`), found again by lock (`LockFindsRecord`); no count is lost (`CountsConserved`); after an orderly exit the counts of the report are exact and the entries of losers do not appear (`ReportExact`); its assertion can fail only on an entry that another thread has taken and not yet filled in (`AssertOnlyMidCreate`), which does happen. Three entries for two mutexes make losers, reuse and a full table happen; two locks wrap a counter modulo 2. |
| `mutex_kinds` | 2 threads, 2 calls each, all four kinds, process-shared or not, fair | one holder, `__owner` names it and the assertions on it hold (`HolderIsOwner`); `__nusers` is the holder plus the condition waiters (`UsersExact`); the recursion count is the depth, also across condition waits (`CountIsDepth`); the statistics agree with each other (`ConflictsAccounted`); with spinning, sleeping and mutexes that only trylock accepts, a mutex that is waited for and released goes to some thread (`SomebodyGetsIt`). `MAX_ADAPTIVE_COUNT` is 3, so that the limit is reached. |
| `thread_levels` | 5 threads in all, 4 alive | serial and parallel levels alternate, are timed without gap and partition the threads (`LevelsRight`); the alive count never falls short (`NeverUndercounts`). Five indices allow two parallel phases, with nested creations in one of them. |
| `cond_wait` | 3 threads, 2 waits, 2 signals or broadcasts, 1 interrupt, 1 cancelable thread, fair | no more waiters leave than there are wakeups, every open signal has a waiter that may take it (`SignalsAccounted`) and is taken (`SignalsDelivered`); a broadcast lets all waiters return with the mutex (`BroadcastReleases`), and none that it moved to the queue of the mutex is forgotten there (`NoWaiterStranded`); destroy returns after the last waiter has left (`DestroySafe`) and does return (`DestroyReturns`). Two waiters and a third thread make a late waiter take the signal of an earlier one, a requeued waiter depend on the other, and a destroyer wait. |
| `priority` | 2 threads (priority 1, and not real-time), 4 mutexes (ceilings 2, 2, 3 and none), `calloc` and `sched_setscheduler` may fail | one holder, owner and user per mutex (`HolderIsOwner`); no sleeper is forgotten (`NoSleeperForgotten`); the map of ceilings covers what a thread holds and what its call has raised, exactly if nothing was refused, and `priomax` is its largest entry (`BooksRight`); a thread that was refused nothing runs with the largest ceiling it holds (`PriorityRight`). Equal and different ceilings make both ways of lowering happen; the map wraps at 3, so that EAGAIN is reached after a refused lock. |
| `robust` | 3 threads, 2 mutexes of five kinds, 5 calls, 2 deaths | a thread that was told it holds a mutex is the one in its word (`HoldersExclude`); wherever threads die, no robust mutex is left with a dead id unless it is unrecoverable (`NoOrphan`), and nobody holds a mutex whose owner died before somebody was told (`LossTold`); between calls the list of a thread is made of what it holds, in both directions (`ListRight`). Three threads and two deaths let a second thread die while it takes over from the first and a third one see it; five calls let two mutexes be given back in either order. The constraint `Promised` stops the exploration behind a state in which an error of the kernel was taken for the lock, where all four hold by their premise `~misled`. |
| `report` | 2 threads, 2 records (one adaptive), 3 calls, 2 cycles, counts and products modulo 128, words of one bit | the counts shown lie between those at the exit and those now (`CountsCredible`); no lock is shown as contended that is not, one that is is missed only if the product wrapped, and no frequent one is missed (`QuadrantsRight`); the waits for locks of a thread are those it made, to the cycle, on top of what its rows have of condition waits (`WaitsReported`); asymmetric locks are exactly those with rates more than 10% apart in one context (`AsymmetricRight`). A spin of 9 turns takes the product past the modulus at the second time, and every wait of a cycle wraps the low word. A thread makes condition waits until its row shows `MaxCond`; the words behind the stamp are those any clock shows and a larger one. |
| `sync_track` | 2 threads and one too many, 2 call sites of which 1 is listed, 2 locks and 1 recorded instruction each | what is called shared was used by two threads (`SharedIsShared`); nothing is counted that did not happen (`ReportNeverOver`); if no insertion met another access everything is counted (`ReportComplete`); every listed critical section is counted (`SectionsCounted`). One of the instructions accesses two addresses, so that insertions and accesses of different addresses meet. |

Violated, each stating what a comment or an assertion of the code says:

| run | property | what the counterexample shows |
|---|---|---|
| `contexts_lost` | `NoContextLost` | two threads write the same slot, one context is gone. |
| `mutex_invalid` | `LockNeverInvalid` | a process-shared mutex is initialised without error and refused by `pthread_mutex_lock` with EINVAL; a condition waiter on it comes back without the mutex. |
| `thread_level_bound` | `LevelsWithinArray` | create and join in a loop takes two levels per round; the array of levels ends before the array of threads. |

Two more defects are in the models, as actions, and have no run of their own.
`mutex_lock.c:372` says of FUTEX_LOCK_PI "The kernel will now take care of everything.",
but most of its errors are taken for the lock (`LockKernelFails`).  `mutex_manager.h:48`
says of `cond_futex_wait` "time spend in cond wait", but the stamp it is computed from
does not have room for its high word (`CondWaited`).

Every property of a passing run has a mutant in `PROJECT.json`: an operator beside
the definition it replaces, marked `MUTANT`, that changes the code as a plausible
bug would, and under which TLC finds the property violated.

Deadlock is checked in all runs but three.  In the models a
process that has exited or was stopped by an assertion stutters explicitly (in
`PthreadMutex` no assertion fails); all other states must have a step.  The exceptions
are `cond_wait` (its program may stop with every call used up, or wait for a signal that
nobody sends; what must not hang there is stated as liveness), `robust`
(threads die, hang in the endless loop after ESRCH or wait for a dead
owner for ever) and `sync_track` (the program ends).

Bounds: `MaxLocks`, `MaxCalls`, `MaxWaits`, `MaxSignals`, `MaxInterrupts`, `MaxDeaths`,
`MaxTime`, `MaxCond`, `MaxInsts` and the sizes of the tables are the only ones.  The
widths `CountMod`, `UIntMod`, `LowMod` (2^32 in the code) and the sizes are reduced so
that wrapping and exhaustion happen within them.  Symmetry is used for mutexes in the
registry, for threads in `CallContexts` and for both in `RobustMutex`, never with a
liveness property, and never for threads whose index is a row number.

Fairness: `LowLevelLock!FairSpec` assumes only that a thread inside a `lll_*` call goes
on (weak fairness of its own steps), which the scheduler of the kernel gives to runnable
threads; nothing makes a program call or unlock.  `PthreadMutex!FairSpec` adds that the
program releases what it holds and that condition waits end, without which no mutex can
promise anything; `CondWait!FairSpec` assumes the same of threads inside a call and of
holders, and nothing of signals, interrupts or cancellation.  Which of several waiters
gets the lock is not determined, so the property is that some thread gets it, not that
every one does.

## Proofs

`LowLevelLockProofs` proves for every set of threads:

* `TypeCorrect`, `MutualExclusionHolds`, `NoLostWakeupHolds`: the word stays 0, 1 or 2,
  and the two invariants of the run `lock`;
* `Refinement`: `LowLevelLock` implements the safety part of `AbstractLock`.

No assumption on the constants is needed.  The inductive invariant `IInv` is the
conjunction of the three properties.  None of them is inductive alone: that a
decrement keeps the word in 0..2 needs that an owner's word is not 0
(`MutualExclusion`); that the sleepers are not forgotten when the word goes from 2
to 1 needs that only the owner, who goes on to store and wake, decrements it; and
after an exchange by a new owner the word is 2 again.  The proof that a step
preserves `IInv` has one case per action, the refinement shows for each action which
abstract action it is or that it leaves holders and trying alone.

`PthreadMutexProofs` proves, for every finite set of threads, every set of kinds, every
spin limit and every width of the recursion count from 2 on:

* `UsesLockWord`: the mutex functions take only steps of `LowLevelLock` on the word they
  share with it.  The theorems of `LowLevelLockProofs` therefore hold here, and
  `NoLostWakeupHolds` states one of them for the mutex, and `MutexIsLock` the refinement:
  whatever the kind, the mutex implements the safety part of `AbstractLock`;
* `HolderIsOwnerHolds`, `UsersExactHolds`, `CountIsDepthHolds`, `ConflictsAccountedHolds`:
  the four invariants of the run `mutex_kinds`.

The invariant `Inv` says for each place of a thread in the mutex functions where it is in
the `lll_*` call (`PlacesRight`), that `owner` is the thread that has the word
(`OwnerRight`), how many users `__nusers` counts, and what the count is for a holder and
for a condition waiter at any depth.  Mutual exclusion of the word, from `UsesLockWord`, is
what makes the last three inductive.  The statistics have an invariant of their own: a
failure is a conflict, a failed trylock or a turn of a spin loop, and each access pays
for `MaxAdaptiveCount + 1` turns.  `ConflictsAccounted` bounds the finished loops only;
the proof counts the turns a call may still make (`Turns`).

`SyncRegistryProofs` proves, for every set of mutexes, every number of threads and
entries and every width of the counters: `OneEntryPerMutexHolds`, `SameRecordHolds`,
`LockFindsRecordHolds`, `AssertOnlyMidCreateHolds`, `RecordForLifeHolds` (an action
property), `CountsConservedHolds` and `ReportExactHolds`, which are all properties of the
run `registry`.  It assumes that the sizes are positive and that `NULL` is no index and no
mutex.  Three invariants build on each other:

* `Inv`: an entry handed out belongs to one thread that has not attached it yet, to one
  mutex, or to nobody (`FreshRight`, `WordsRight`); each thread knows enough of the word
  of its mutex (`KnowsRight`: at the swap it expects NULL, after it the word is set); and
  init and destroy are alone on their mutex (`CallsExclude`), which is the assumption on
  the program, kept by the guards of the model;
* `CountInv`: what `access_count++` has loaded is still in the row, as no two threads
  share one (`Row` is injective), so the rows and the locks under way add up to
  the locks made, modulo the width;
* `ReportInv`: in an orderly exit the report has added exactly the rows before its
  position, and each record it has listed was used.

`XThreadProofs` proves `NeverUndercountsHolds` and `LevelsRightHolds` for every number of
threads, with the run's assumptions on the sizes only.  The steps are reduced to their
effect on a few fields first.  The invariant counts the threads that are neither joined
nor about to be struck off by the one thread that joined them (`AliveCounted`), which is
what the alive count is; the partition of the threads by the levels needs in addition
that the current parallel level ends at the last index (`RangesRight`).  `LevelBound`
shows how far the levels can get: `2*MaxThreads - 2`.  The array in the code is shorter,
and the run `thread_level_bound` walks past its end.

`PriorityProtectProofs` proves the four invariants of the run `priority` for all sets of
threads and mutexes, finite or not, all priorities, ceilings and widths, and every
choice of failing calls: `HolderIsOwnerHolds`, `NoSleeperForgottenHolds`,
`BooksRightHolds`, `PriorityRightHolds`.  `WordsAreLocks` adds that each of these
mutexes implements the safety part of `AbstractLock`, whose waiters are here the threads
that announce, wait, sleep or try again.  The lock words have an invariant of their own
(`LockInv`), in which `NoSleeperForgotten` is inductive beside exclusion.  The data of
one thread has another (`Kept`): its own priority is not forgotten, `priomax` is the
largest entry of the map, and unless something was refused the thread runs with it.
Lemmas on the operators of `tpp.c` show that every outcome of a call keeps it, whatever
fails.  `BooksInv` ties the two: the map counts for each ceiling the mutexes a thread
holds and, while a call is between its two changes of priority, the mutex of the call,
which may be one it holds and tries again and is then counted twice.

`CondWaitProofs` proves `SignalsAccountedHolds` and `DestroySafeHolds` for every set of
threads and any number of waits, signals, broadcasts, interrupts and cancellations.
`SignalsAccounted` is not inductive: that a wakeup has a taker after a signal needs that
*all* waiters not overtaken by a broadcast are as many as `total_seq` exceeds
`woken_seq` (`Accounted`), which a departure keeps since it takes one number of
`woken_seq`, and the handler too since a cancelled waiter takes a wakeup or brings its
own.  `DestroySafe` needs that `nwaiters` is exact and that nobody is between the
release of the mutex and the registration when the mark is left (`ReleaseRight`).

Its second part proves `NoWaiterStrandedHolds` and `MutexExcludes`, about the mutex of the
waiters.  `LowLevelLockProofs` says nothing here: a broadcast puts threads to sleep on a
word that they never set to 2, and they come back from it without taking it.
`QueueInv` is inductive with the first invariant.  It ties the two places of a thread
(`PlaceRight`), says that a requeued waiter is always one that a broadcast has overtaken,
and what the broadcaster knows when it requeues (`RequeueRight`): if the word of the
condition variable is still the one it left, nobody has begun to wait since, because
that word counts waits and wakeups and never goes back (`FutexRight`).  So the one
waiter that FUTEX_CMP_REQUEUE wakes is released and will take the mutex with 2 by
`lll_cond_lock`, which is what wakes the others in the end; with `lll_lock` there the
property fails (the mutant of the run).

`RobustMutexProofs` proves the four invariants of the run `robust`, `HoldersExcludeHolds`,
`LossToldHolds`, `NoOrphanHolds` and `ListRightHolds`, for any set of threads, any finite
set of mutexes, all kinds, any number of calls and any deaths, up to an error of the kernel
that is taken for the lock: what is invariant is `~misled => Inv`.  It assumes that the marks
(`Nobody`, `NULL` and the cookies) and the mutexes are no threads (`NamesAssumption`) and
that the mutexes are finitely many (`MutexesAssumption`), as memory is.  The invariant has
two halves:

* `CoreInv` gives for each place of a thread the contents of the lock word, of `__owner`
  and of the count of the mutex it works on, and how they agree with what the thread
  was told (`depth`).  It is what the exclusion and the loss follow from;
* `ListsRight` gives the list of a living thread as a chain, in each of the states that
  ENQUEUE_MUTEX and DEQUEUE_MUTEX go through, where the forward links are those of the
  old or of the new list and the backward links are one step behind or ahead, and the
  mutex that is between the two is the pending one.

A step of one thread must not disturb what the two say of the others: those see it as
`Calm` (the words with their ids, and the links of their lists, stay as they are), which is
shown once for each action; the rest of the proof is about the thread that takes the
step.  At a death the kernel follows the links (`Walk`, defined by a recursive
function on the number of links).  That it finds the whole chain is proved without
induction: a node of the chain that it did not reach would have a first one among those
(`LeastNumber`), whose predecessor it did reach.

The proof found a flaw of the model.  After FUTEX_TRYLOCK_PI `pthread_mutex_trylock` reads
the lock word again (`mutex_trylock.c:326`); the model used the value from before the
call, with which a dead owner's flag, already cleared by the kernel, sent the caller
around once more.  `TryKernel` now reads the word again.

`SumFacts` holds the lemmas on sums and remainders that the counting proofs share: a sum
over a finite set splits, changes at one point with the function, and is 0, natural or
bounded with its terms; a sum of remainders has the remainder of the sum.  The library
defines `MapThenSumSet` by recursion over a choice of the next element.  The facts are
proved without an induction rule: if one failed for some finite set, there would be a
smallest such set (`SmallestSet`), and taking one element away from it leads to a contradiction.

Every safety property of the passing runs `lock` (but the hand-over), `registry`, `mutex_kinds`,
`thread_levels`, `cond_wait`, `priority` and `robust` is thus proved.  Model-checked only:

* liveness and hand-over: `ImplementsLock` with its fairness, `SomebodyGetsIt`,
  `SignalsDelivered`, `BroadcastReleases`, `DestroyReturns`.  Fairness and `ENABLED` are
  outside of what the prover handles;
* those of `Report` (`CountsCredible`, `QuadrantsRight`, `WaitsReported`,
  `AsymmetricRight`) and `SyncTrack` (`SharedIsShared`, `ReportComplete`,
  `ReportNeverOver`, `SectionsCounted`).  They are about sums over the rows of all
  threads and the entries of a map; the proofs went first to the parts where threads
  meet on a lock word or a list;
* the runs that expect a violation, whose counterexamples are their result.

## Plan

1. `Report`: `CountsCredible` and `WaitsReported`, from the invariant of the counts in the rows.
2. `SyncTrack`: `ReportNeverOver` and `SharedIsShared`, which must hold through every
   lost insertion.
3. The registry and the mutex kinds in one model: `create_mutex` leaves the real mutex
   zeroed, so a static recursive initialiser is lost.

## Not modelled

The text of the report, the translation of addresses to source lines, symbol lookup
with `dlsym`, memory mapping, and most of the C library headers: they keep no
state whose changes could be ordered.  `cancellation.c` and `list.h` have no caller;
`lll_robust_lock`, the timed locks and the priority inheriting branch of
`pthread_cond_wait` have none that is compiled in.  The memory model is sequentially consistent:
the code targets x86-64, and the accesses of one action are those a store buffer
would not separate from the locked instruction that follows or precedes them; the
plain `access_count++` and `stack_count++` are split into load and store, and the
report may load the fields of a row in any order.
