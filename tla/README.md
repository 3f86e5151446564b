# UserSpace-Threads: models, checks and proofs

The repository is a user-level thread library (`src/thread.c`, `src/interrupt.c`,
`src/malloc369.c`) for one kernel thread: threads are switched with
`getcontext`/`setcontext`, preemption is a `SIGALRM` handler that calls
`thread_yield(THREAD_ANY)`, and mutual exclusion inside the library is the
blocking of that signal. This directory holds TLA+ modules of the library, TLC
configurations that check small instances, and TLAPS proofs for every size.

## Inventory

| component | state | operations | talks to | hard behaviour | what makes it correct |
|---|---|---|---|---|---|
| ring queue (`thread.c` 56-162) | `queue_t`: array, `start`, `end`, `current_size` | `queue_push`, `queue_pop`, `queue_pop_last` | used by the ready queue and all wait queues | wrapping both ways; `start = end` when empty and when full | it is a bounded double-ended sequence |
| thread table and scheduler (`thread.c` 45-55, 164-425) | `threads[]` (state, waiter, exit code, context, stack), `thread_queue`, `current_thread`, `thread_to_destroy`, `administrative_mode` | `thread_init`, `thread_create`, `thread_yield`, `thread_exit`, `thread_kill`, and `admin_mode`, `handle_death` inside them | every other part calls `thread_yield` | an exiting thread jumps into the context of thread 0 and kills itself there; dead threads, sleepers and old owners of an identifier leave entries in the queue; the queue has a limit that nobody looks at | no runnable thread is lost, no dead one runs, no freed stack is used, contexts are loaded only while they are valid, the process exits only when nobody can run |
| `thread_wait` (`thread.c` 508-544) | `waiter`, `exit_code` of each thread | `thread_wait`; `handle_death` on the other side | the scheduler | kills and reuse of identifiers while somebody waits; cycles of waits | a sleeper always has somebody alive who will wake it; it goes on after the death of its target |
| timer (`interrupt.c`) | signal mask, armed timer | `interrupts_on/off/set`, `interrupt_handler`, `set_interrupt` | calls `thread_yield` from the handler | one mask for the process, one saved mask per frame, switches in between; the timer fires once and is armed by the handler | each thread finds its own mask again; every runnable thread gets a turn |
| wait queues (`thread.c` 431-506) | a queue per object | `wait_queue_create/destroy`, `thread_sleep`, `thread_wakeup` | ready queue, thread table | killed sleepers stay in the queue; sleeping with nobody else to run | a sleeper is in its queue; a woken thread is runnable and queued |
| locks (`thread.c` 546-597) | `current`, a wait queue | `lock_create/destroy/acquire/release` | wait queues | a woken thread may find the lock taken again | mutual exclusion, no thread asleep on a free lock |
| condition variables (`thread.c` 599-657) | a wait queue | `cv_create/destroy/wait/signal/broadcast` | locks, wait queues | the lock is released and the thread put to sleep in two calls | no signal falls in between; nobody sleeps with the lock |
| allocation accounting (`malloc369.c`) | counters, a map of pointers and sizes | `malloc369`, `free369`, queries | called with and without the signal blocked | preemption between any two accesses to memory, and inside the allocator or the map | counters agree with the map and the heap; a correct program is never told of a double free |
| hash map (`khash.h`, vendored) | buckets, flags, keys, values | `kh_put` with `kh_resize`, `kh_get`, `kh_value` | used by `malloc369.c` only | entries are moved in place, one pushing out another; a search must end | every entry is found where it was put; none is lost while the table grows |

Not components of the library: `common.c` (helpers of the tests), the test
programs (clients), the Makefile.

## Modules

| module | what it is |
|---|---|
| `Deque` | what a queue promises: a bounded sequence, extended at the back, shortened at both ends |
| `RingQueue` | the ring buffer of `thread.c`; `Implements` maps it to `Deque` |
| `MCRingQueue` | instance for TLC |
| `Join` | what `thread_wait` promises in the header and the tests: at most one waiter for each live thread, the exit code of that very thread, and an exited thread kept for the one thread that waits for it; `Reuse` and `WaitAgain` name what the code does besides |
| `RingQueueProofs` | `RingQueue` implements `Deque` for every capacity |
| `Scheduler` | thread table, ready queue, context switches, `thread_wait`, timer signal |
| `SchedulerKept` | `Scheduler` with a history variable, the exited threads that nobody has waited for; `JoinImplements` maps it to `Join` |
| `MCScheduler` | the programs (sets of calls) that TLC runs on `Scheduler` |
| `MCSchedulerTidy` | the same with the program `Tidy`, and TLC's word that it is a `TidyProgram` |
| `SchedulerProofs` | the invariants of `Scheduler` for every number of threads, queue size and program |
| `JoinProofs` | `SchedulerKept` implements `Join`, but for the two departures, in every tidy program |
| `Monitor` | what locks and condition variables promise together: a monitor, with the holder of each lock, the threads blocked on it, those that wait, oldest first, and those that sleep for a reason of their own |
| `Sync` | wait queues, locks and condition variables; EXTENDS `Scheduler` and composes with its steps; `MonitorImplements` maps it to `Monitor` |
| `MCSync` | the programs that TLC runs on `Sync` |
| `MCSyncTidy` | the same with TLC's word that the tidy one is an `OrderlyProgram` in which `NobodyEnds` |
| `SyncProofs` | the invariants of `Sync` that hold in every program, and those of `Scheduler` that carry over |
| `MonitorProofs` | what `Sync` gives to orderly programs: wait queues hold sleepers, assertions hold, a holder can release, and it implements `Monitor` |
| `HashMap` | the table of `khash.h`, as far as `malloc369.c` uses it, with `kh_resize` entry by entry |
| `Malloc369` | the accounting of `malloc369.c`, one access to shared memory at a time, called by threads that may interrupt each other; EXTENDS `HashMap` |
| `MCMalloc` | the instance for TLC: the pointers, their hash, the symmetry |
| `HashProofs` | that probing reaches every bucket, and what each step of the table keeps |
| `MallocProofs` | the counters and the table under any number of threads and interruptions |
| `AccountProofs` | that the counters, the map and the heap agree while no call was interrupted, and how many frees go uncounted when calls are |

`Scheduler` and `Sync` keep queues as plain sequences. That this is sound is what
`RingQueue` and `Deque` are for: the ring buffer is touched only through three
operations, and those implement the sequence.

### How state and control correspond to the code

There is one processor. Inside the library the signal is blocked, so the only
places where another thread takes over are the `setcontext` calls. A step of the
model is a piece of library code between two such places or between two calls
that matter; `pc[t]` says where thread `t` goes on, `back[t]` where its innermost
`thread_yield` or `handle_death` returns to, `sig`, `tid`, `want`, `ret` are its
locals, and in `Sync` `frame[t]` holds those of the synchronisation calls. All
steps are those of `current_thread`.

* A saved `ucontext` is a label (`pc`) and the stack it was saved on (`ctx`).
  `on_stack` is the stack the processor is using, which is not the current
  thread's while it exits: `thread_exit` loads thread 0's context, and then
  `admin_mode` runs `thread_kill` there (`admin_mode`, `admin_next`, `admin_none`).
* `stacks` is the set of allocated stacks. `status` is "running", or how the
  process ended: "exited" (`exit(0)`), "failed" (`malloc369` exits), "aborted"
  (a failed `assert`), "undefined" (a jump through a context that was never saved
  or whose frame has been left, or the use of a freed lock).
* The program is a CONSTANT, `Calls` (and `SyncCalls`): which thread may make
  which call with which argument. In user code any of them may come next, so one
  set stands for all orders of these calls. The theorems hold for any set.
* `masked`, `refused`, `overflowed` and `inside` are history variables: no action
  of the code reads them. `refused` holds the threads that a full ready queue has
  turned away; `overflowed` says that this has happened at least once.
* The exit code that `thread_init` leaves unset is any value of `Garbage`.
* `Disciplined` restricts what the program calls, not what the library does: no
  lock is acquired twice by its holder or released, waited or signalled with by
  another thread.
* `OuterLabels` names the labels of a module that is built on `Scheduler`: none
  there, `SyncLabels` in `Sync`. A suspended thread may be at one of them; no
  action of `Scheduler` is. `TypeOK` and `PathOK` speak of them, so that the
  proofs about `Scheduler` are also proofs about its steps inside `Sync`.
* `life` says whether an object is made or freed; a program uses only objects
  that are made, but threads that are already in a call may meet a freed lock.
  Making an object may find no memory, as creating a thread may (`MallocFails`).
* `lock_destroy` does not block the signal: `destroying[l]` holds the threads
  between its look at the holder (569) and the release of the memory (570-571).
  Others may run in between and acquire the lock, or destroy it as well
  (`free_again`: undefined). Only the interrupt handler can take such a thread away.
* `SchedulerKept` adds `kept`, which no code records: the threads that have exited
  and that nobody has waited for. `Keep` follows the steps of `Scheduler`, of which it
  changes none.

`Malloc369` is at another grain. Its callers may leave the signal unblocked
(`wait_queue_create`, `lock_create`, `cv_create` and their destroy functions do
not block it), so a step is at most one access to memory that other threads use: a `++` is a `load`
and a `store`, an assertion about two counters loads one and then the other,
`kh_value(malloc_map, k) |= FREED` loads `h->vals` and the element, and `h->vals`
again for the store, and any other thread's call may come in between. There are two
exceptions, of many accesses each: a search of the table (`kh_get`, and the part of
`kh_put` after `kh_resize`), and each move of an entry by `kh_resize`. No other
thread's step comes in between that could be told from one before or after, since
`Clash` ends the behaviour when a thread touches a table that another is changing.

* `pc[t]` is the next access of thread `t`; `ptr`, `bytes`, `reg`, `k` are the
  pointer, the size, the loaded counter and the iterator of its call. When it has
  loaded `h->vals`, `reg` holds the length of that array; if `kh_resize` has moved it
  since (`Moved`), the access is to freed memory and its effect undefined (`stale_vals`),
  or to the same place, as `realloc` may leave the array where it was. `blocked[t]`
  says that the call is made with the signal blocked, which keeps all others out.
* The allocator of the C library and `kh_resize` are not reentrant. `Clash` says
  when the next step of a thread would take it into one of them, or into the
  table, that another thread has left half way; then everything may happen, and
  `clash` ends the behaviour with `status` "undefined". So does a block that is
  filled past its end.
* `heap` is what the C library has handed out, `held` what the program has been
  given and has not given back: it calls `free369` only with a pointer it holds.
* `mallocs`, `frees` and `interrupts` count the calls, and those that began
  inside another; they are history, and bounds.

Left out: printing and logging, the messages of `malloc369`'s verbose mode,
`free369(NULL)` (returns at once), `unintr_printf`, `queue_index` (never called),
registers, floating point state and stack alignment, the contents of `malloc`ed
memory, `thread_wakeup(NULL)` (returns 0 and changes nothing). A run of the
handler while the library runs is impossible, since the signal is blocked there;
`MaskPreserved` checks that it is.

## Runs

Runs that pass:

| run | instance | shows |
|---|---|---|
| `ring` | capacity 3, three values; 696 states | `TypeOK`, `EndAgrees`: the indices and the count agree. `Implements`: the buffer refines `Deque` |
| `sched_wild` | 3 threads, ready queue of 3, program `Wild` (waits in cycles, kills of waiters, of waited-for threads, of thread 0, of self; yields to sleeping, dead and impossible threads; calls with the signal blocked), preemption, failing malloc; 543 thousand states | `ControlOK`, `NoLostThread`, `SleeperHasWaker`, `StackLifetime`, `DeadNeverRuns`, `MaskPreserved`, `ExitOnlyWhenNoneRunnable`, `Assertions`, and the types: what holds in every program |
| `sched_tidy` | 3 threads, ready queue of 4, program `Tidy`, preemption; 679 thousand states | `WaitSeesDeath`, `NoAbort`: what holds in programs without cycles of waits and without kills of waiters, until the ready queue overflows. `JoinImplements`: there `thread_wait` refines `Join`, but for its two departures (below). `WaiterStillWaits`: the waiter field, which is never cleared, still names a thread that waits. `WaitOK`: a thread in `thread_wait` sleeps while its target lives and runs next when it has died |
| `sched_live` | 3 threads, two of which yield only to each other, preemption; 72 thousand states | `NoStarvation`: every runnable thread runs again. `JoinReturns`: a thread that waits for a dead one gets its answer |
| `sync_wild` | 2 threads, one lock, one condition variable, one wait queue, queues of 3, calls in any order, kill and reuse of identifiers, objects made and destroyed, a lock by two threads at once, a failing malloc; 1.8 million states | `MutualExclusion`, `NoLostRelease`, `SleeperQueued`, `WokenNotLost`. `FramesOK`: where a call uses its locals they name what they should, after any switches; nobody goes to sleep for a free lock. And the types |
| `sync_tidy` | 3 threads that share a lock, a condition variable and a wait queue, queues of 4, the fairness below; 273 thousand states | `SyncNoAbort`, `HolderNotStuck`. `SleepOK`: an entry of a wait queue is of a thread asleep in that queue, once. `HolderOK`: a lock is held by a live thread that has acquired it and wants it no more. `MonitorImplements`: locks and condition variables refine `Monitor`. `LockTaken`: a free lock that a thread wants is acquired by somebody |
| `malloc` | 2 threads, 4 pointers with the same hash, 4 calls of `malloc369` and 2 of `free369`, one of them inside another or none, a `malloc` that may fail; 918 thousand states, up to symmetry | `Findable`, `RehashKeeps`: the table loses no entry while it grows, and finds each. `Accounting`, `KnownPointers`, `NoFalseAlarm`: while no call was interrupted by another, the counters, the map and the heap agree, and no correct program meets an assertion or a false alarm. `CountsWithin`, `FreesCounted`: no call is counted twice, and an interruption costs at most one call for each thread that is interrupted. And the types |

Runs that find a disagreement between the code and what its header or its
assertions say:

| run | property | what happens |
|---|---|---|
| `queue_overflow` | `EveryRunnableQueued` | `queue_push` is refused and nobody looks (258, 360). A program that creates a thread and waits for it, about sixty times over, fills the ready queue with stale entries; the next thread is in no queue and never runs |
| `wait_returns_early` | `SuspendedUntilExit` | two threads wait for each other; the second `thread_wait` returns success at once, since the result of `thread_yield` at 535 is ignored |
| `kill_a_waiter` | `WaiterNotRunning` | a waiter is killed and its identifier reused; the assertion at 372 aborts the process |
| `exit_last` | `ExitEndsProcess` | thread 0 exits last: the process does not end but jumps through thread 0's old context |
| `wake_a_killed` | `WokenWasAsleep` | a thread is killed while it sleeps on a queue and its identifier reused; the assertion at 493 aborts the process |

More disagreements are plain from the text or from a definition and have no run:

* An exited thread is not kept for the thread that will wait for it.
  `test_basic.c`:13-15, `test_lock.c`:113-116 and `wakeup_tests.c`:139-141 say that
  an identifier is not used again before somebody has waited for its thread;
  `thread_create` takes any identifier in state Destroyed (227-231). `Join!Reuse`.
* `test_wait_parent.c`:8-12 and 45-52 say that of several threads that wait for one
  only the first is served. `thread_wait` says so while the target is alive (529), but
  for an exited thread it succeeds each time (528 and 539-543), with the exit code for
  everybody. `Join!WaitAgain`.
* A thread that exits with -9 cannot be waited for afterwards (520), against
  `thread.h`:154-156: the code cannot tell it from a killed one. A refusal changes no
  state, so `Join` cannot see it. And a killed thread 0 hands out its unset exit code,
  where others give -9; `Join!Kill` excepts it.
* `thread.h`:160 says `thread_wait` returns 0 upon success, the code returns `tid` (543).
* `thread.h`:121 asks `wait_queue_destroy` to check that the queue is empty, which it
  does not do (446).

`JoinImplements` is therefore of the form `[][J!Next \/ J!Departs \/ overflowed']`: every
step is one of the promised `Join`, or one of the first two of these, under its own
name. Without `J!Departs` TLC finds it violated in a behaviour of fifteen states: thread 0
creates a thread and yields, that thread exits, and the next `thread_create` takes its
identifier before anybody has waited for it.

### Bounds, and why they are enough

Three threads are what the hazards need: one that dies, one that waits for it,
and one that takes the processor or the identifier in between. `Sync` in any
order has two, one of which is killed and created again, so its states stay
within reach; three threads share the lock in `sync_tidy`, where a woken thread
can find the lock taken by a third.

The queues are much smaller (3 to 5) than the code's thirty entries per thread in
the passing runs, so that full queues do occur there and the invariants are
checked with them too. The runs with `~ overflowed` in a property need at least
one round of stale entries before the queue is full, which 4 and 5 give. The
violation runs keep the code's ratio of thirty to one, so what they find does not
come from a small bound. `N` counts identifiers; the code has 1024 of them, and
the theorems hold for every `N` and every queue size. Nothing else is bounded in
`Scheduler` and `Sync`: their state is finite, no cfg has a CONSTRAINT.

`Malloc369` counts up, so its calls are bounded: `MaxMallocs` = 4, since the
table of 4 buckets grows when a fourth entry comes; `MaxFrees` = 2, one to free a
pointer and one to interrupt it or to free another after its address has been
handed out again; `MaxInterrupts` = 1, which is enough for a lost update, for a
stale iterator and for each clash, while `CountsWithin` and `FreesCounted` count the
interrupts.
The four pointers have the same hash: pointers of the heap are multiples of 16
with the same high bits, and `kh_int64_hash_func` gives those the same place in
every table of up to 16 buckets, so each search in the run goes through all
entries before its own. Pointers and threads are symmetric there, and the run
checks no liveness. A `size_t` has 64 bits and `FREED` is its highest; here `FREED` is a CONSTANT, 2^63 in
the code and 16 in the run, and differences of counters are taken modulo `2 * FREED`.
`HeapBytes`, the bytes of the address space, are fewer than `FREED`, as they are on
any machine with 64-bit addresses; so a correct count never comes near the wrap. Sizes are
positive: no caller in the repository asks for 0 bytes, for which `free369` asserts (92).

`Tables`, the sizes that a table can have, is a CONSTANT too: powers of two from 4 up, as
`kroundup32` makes them, 4 to 2^31 in the code; the run has 4, 8 and 16, and
uses two of them. The theorems about the table have the hypothesis `SmallHeap`: fewer
addresses are handed out than `upper_bound` of some table. With the code's tables
that is 1653562408 different addresses, a million times the 1023 stacks that
`test_basic.c` holds at once (202-205, tables of up to 2048 buckets). Past it
`kroundup32` overflows, the largest table fills up and `kh_put` searches for ever, so the
theorems do need a bound of this kind. TLC evaluates it on the instance of the run.

Deadlock is checked in every run but `malloc`, whose program stops when it has
made its calls or the process has ended. Elsewhere a process that has ended stutters (`Ended`),
and with preemption user code can always be interrupted.

### Fairness

`FairSpec` assumes two things. `WF_schedVars(Library)`: code of the library runs
to its end, as any code does that has the processor and does not block.
`SF_schedVars(interrupt_handler)`: the handler arms the timer again each time
(`interrupt.c` 208-213), and a signal that arrives while it is blocked stays
pending and is delivered when it is unblocked; so a thread that is in user code
with the signal unblocked again and again is interrupted. Weak fairness would not
do, since the program may block and unblock the signal for ever in between calls.
User code is under no fairness: it need never call the library. `sched_live` has
no program that blocks the signal for ever.

`FairSyncSpec` assumes the same of `Sync`: the library runs to its end, and the
timer interrupts. It gives `LockTaken`, that some thread acquires a free lock that
is wanted, and no more. That a particular thread acquires it does not follow:
`lock_release` wakes all waiters and keeps no place for any, so a thread that
comes later may find the lock free first, each time.

## Proofs

TLAPS checks these for every value of the constants, from `SchedulerAssumption`
(at least one thread, room for one queue entry, arguments are integers, the outer
labels are others than those of `Scheduler`), `SyncAssumption` (the kinds of object
are disjoint, each call names objects of the kind that it takes, as C's types do),
`HashAssumption` (a hash is a natural number) and `MallocAssumption` (at least one
thread and finitely many; sizes are positive and without the highest bit, which marks freed
blocks; the bytes of the address space are fewer than that bit), `TableAssumption` (the
tables are of the sizes 4, 8, 16, ... up to a largest, if there is one), and the assumption of `RingQueue` on its capacity. Theorems about programs that
keep to rules say so: they are of the form `ASSUME TidyProgram PROVE Spec => ...`,
and TLC evaluates these hypotheses on the programs of `sched_tidy` and `sync_tidy`.

`RingQueueProofs`: `RingTypeCorrect`, `RingEndAgrees` (the indices differ by the
count, up to the capacity; `RingInv` is inductive) and `RingImplements`: under
the map from slots to the sequence they hold, every step of the ring buffer is a
step of `Deque`. The core of the argument is that `next` and `prev` are inverse
and that a push or pop moves one end of the window and leaves the rest alone.

`SchedulerProofs`:

* `TypeCorrect`. The types are not inductive alone: `handle_death` writes the
  state of the thread in `tid`, which is a caller's argument. `TypeOK /\
  DispatchOK` is inductive: `DispatchOK` says that a thread without the processor
  is to be started or resumed and that thread 0 can be resumed.
* `ControlPassesSafely`: `ControlOK` says where each thread is, whether running
  or suspended: `SuspendedOK` (one that is alive was switched out on its own stack
  and returns to live code), `AdminOK` (administrative mode is set only between
  `thread_exit` and the kill of that thread), `PathOK` (what holds at each label)
  and `WaiterOK`. `TypeOK /\ ControlOK` is inductive; one step per action.
* From it `DeadThreadsDoNotRun` and `ExitAssertionsHold` follow at once, and with
  one strengthening each `StacksOutliveTheirUse` (`StackTable`: which stacks are
  allocated, also between the free and the change of state), `LastExitIsLast`
  (what the dying thread has established when it finds nobody to run) and
  `MaskIsPreserved` (`MaskOK`: what each suspended frame will restore).
* `NobodySleepsForever` and `NobodyIsLost` are inductive with the types alone: a
  waiter's link is broken only by the death that wakes it, and `get_thread_any`
  throws away only entries of threads that cannot run or the one it returns.

`SyncProofs`, for every program, disciplined or not:

* A step of `Sync` is one of `Scheduler` that leaves the objects and frames alone
  (`Alone`), or one of its own. For the scheduler all of its own look alike:
  `OuterStep` says what they do to a thread table, namely that they enter and
  leave the library, put their caller to sleep and yield, or make a sleeper
  runnable and queue it. `SyncSteps` shows that each is an `OuterStep`, so an
  invariant of `Scheduler` needs one more case, not twenty-nine. So
  `SyncControl` (`ControlOK`) and `SchedulerHoldsInSync` (`StackLifetime`,
  `MaskPreserved`, `DeadNeverRuns`, `Assertions`, `ExitOnlyWhenNoneRunnable`) hold
  for `SyncSpec`, and `WokenIsNotLost`. `SleeperHasWaker` does not carry over, since
  in `Sync` a thread also sleeps in wait queues; `SleeperQueued` takes its place.
* `SyncTypeCorrect` and `FramesCorrect`. `SyncInv`, their conjunction with
  `ControlOK`, is inductive. A thread is switched out in the middle of a call, and
  that the frame it comes back to is good is part of it: the queue of a suspended
  sleeper is an object, `after` of a `cv_wait` has its lock and its condition
  variable. `FramesOK` also has what the lock proofs need: a thread about to
  sleep for a lock does so while the lock is taken, and one that is waking its
  sleepers wakes all, while it is free.
* `LocksExclude`: `MutualExclusion` is inductive with `SyncInv`, in programs that
  kill a holder, reuse its identifier, or release what they do not hold as well.
* `SleepersAreQueued`: the only step that puts a thread to sleep queues it as it
  does so, and the only ones that take an entry out make its thread runnable or
  find it dead. `NoReleaseIsLost` follows from it and `FramesOK`: the wakeup that
  ends a release goes on until the queue is empty, and a sleeper has an entry.

`JoinProofs`, for a `TidyProgram`: it leaves the signal alone, kills and yields by
name to no thread that may wait, and its waits have a rank, so there are no cycles.

* `WaitsAreKept` (`WaitOK`) and `WaitersAreCurrent` (`WaiterStillWaits`) are proved
  together, as `JoinInv`: `thread_wait` does not look again after `thread_yield`,
  so it must be that nothing but the death of its target brings it back, and that
  it runs before the identifier can be given to another. The critical step is the
  yield that finds nobody else to run, in which `thread_wait` would go on at once:
  every thread would then be asleep, each waiting for one of higher rank that is
  alive, and a thread of the highest rank among them has none to wait for. The
  target is therefore runnable, and by `NobodyIsLost` it is in the queue.
* `WaitEndsWithDeath` and `NoAssertionFails` follow, the second with `MaskOK` (calls
  begin with the signal unblocked).
* `JoinIsImplemented`: initial states are initial in `Join`, and each step of a tidy
  program is one of `Join`, one of its two departures, or stutters there. A death is
  `handle_death`, at which the waiter becomes runnable, and the answer is given when it
  reads the code. Whether a death is an exit or a kill is told by who is in
  `handle_death` (`JoinExit`, `JoinKill`). `LiveCodes`, an invariant of its own, says that
  the exit code of a live thread other than 0 and not yet exiting is still the one that
  `thread_create` gave it, so a killed one leaves -9.

`MonitorProofs`, for an `OrderlyProgram` (disciplined, no `thread_kill`, no
`thread_wait`, no yield by name to a thread, no destroyed lock) or one that is
`Disciplined` and in which `NobodyEnds`:

* `QueuesHoldSleepers` (`SleepOK`, inductive with `SyncInv`): the entries of wait
  queues are exactly of sleepers, once each. The part that needs the care is
  `thread_sleep` with nobody to switch to: it returns with its entry still in the
  queue, and must find it at the end. It does, for nothing ran in between.
* `OrderlyProgramsDoNotAbort` (`SyncNoAbort`) follows, with `MutualExclusion`.
* `HoldersAreInside` (`HolderOK`, inductive) and from it `HoldersCanRelease`
  (`HolderNotStuck`).
* `MonitorIsImplemented`, for an `OrderlyProgram` in which `NobodyEnds`, with any
  number of threads, locks, condition variables and wait queues: initial states are
  initial in `Monitor`, and until a queue has been full each step is one of `Monitor`
  or stutters there. The mapping moves each call of several steps to the one step at
  which it takes effect: a wakeup of all empties the queue when it begins (`WakingAll`),
  and `cv_wait` is in the queue of the condition variable when it gives up the lock
  (`GoingToWait`), at the end of the queue even if it has still to wake the threads that
  wait for the lock. `CallsOK` says why nothing comes in between, and is inductive
  with `SyncInv`, `SleepOK`, `NobodyDies` and `NoLostThread`: only the running thread
  is between the two halves of `cv_wait`; the queue a call sleeps in is the one that its
  other locals name; who signals holds a lock; and at the return of a `thread_sleep` with
  THREAD_NONE no other thread is runnable. The last one is where `NoLostThread` and
  an empty `refused` are needed, and it shows with `SleeperQueued` that each thread is
  in some wait queue, which is the guard of `GiveUpLock` and `GiveUpWait`.

`HashProofs` and `MallocProofs`, for any number of threads, calls and interruptions
at any access to memory, hash function and sizes, and a heap within `SmallHeap`
(which `CountsAreClose` does not need), with tables of any number of sizes:

* `CountsAreClose` (`CountsWithin`): `Counting` is inductive. A counter together
  with the number of calls that have still to count themselves is at most the
  number of calls, and so is each copy of it that a preempted thread has loaded and
  will store; this is why a lost update can only make a counter too small. For
  `num_mallocs`, which each call counts first, at most one more is missing than there
  were interruptions, and that only while somebody is counting.
* `TableInv` is inductive: one thread at a time is in `kh_put` past its first look
  at the size, and nobody is in `kh_get` while the table is moved, or the process is
  "undefined" already (`Clash`); a pointer belongs to one thread, to the program,
  or to the allocator; and the table is `Resting`, or `Moving` if `kh_resize` is under
  way. Both rest on `OnWay`: the bucket of an entry is the first on the way of its key
  that is free or its own, so a search for the key passes used buckets only and ends
  there. `PlaceMoves` is the heart: an entry put on a bucket that another still
  occupies leaves it in hand, and the ways of those that have been moved stay used.
  That a way reaches every bucket (`Reaches`) is a fact about powers of two, of which the
  prover knows nothing: it is proved for the smallest table that might lack it from the
  table of half its size: what s steps reach there is reached by s or by m - 1 - s steps
  in the table of m buckets.
* From it `MallocTypeCorrect`, `EntriesAreFound` (`Findable`) and `RehashLosesNothing`
  (`RehashKeeps`, each step of `kh_resize` keeps `Contents`, and no other thread's
  step touches the table meanwhile).

`AccountProofs`, under the same assumptions and `SmallHeap`: `BooksAgree`
(`Accounting`), `PointersAreKnown` (`KnownPointers`) and `NoAlarmIsFalse`
(`NoFalseAlarm`), all three from the invariant `Sole`, inductive with `TableInv` and
`Counting`.

* `Sole`: while no call was interrupted, one thread at most is in a call
  (`Only`). Whoever enters while another is inside is an interruption, so the thread
  that makes a step was the one (`AloneBefore`); and with everybody else idle it
  clashes with nobody.
* `Books` says at each label how far the call is counted: `One` and `Bytes` are what
  the counters have more than the program holds. It also says that the loaded copy of
  a counter is up to date, that the block in hand is as large as `bytes` says, and
  what the heap has besides the blocks that are held.
* `Entries` says what the map knows: the size of each held pointer and of the one
  that is looked up, the mark of each freed one, and for the pointer in hand that
  `k` is its bucket. The look-up needs `TableInv`, that `kh_get` finds what is there,
  and storing a size needs that no two buckets have one key.
* The assertions of `free369` follow: the block in hand is counted until `num_frees`
  and `bytes_freed` have it, so a count is positive and the bytes left are enough.
  The second is a comparison of unsigned numbers, and is right because the bytes
  of all blocks are fewer than their modulus (`HeldFacts`).
* `Total` is a fold, which `TotalIsSum` turns into the recursive function it stands
  for. No induction theorem can be applied to it, so each fact about sums
  (`SummingExists`, `SumWithout`: any element may be taken out first) is proved by
  contradiction with the smallest set that is an exception (`Smallest`).

`FreesAreCounted` (`FreesCounted`), in the same module, is about calls that do
interrupt each other: with `T` threads an interruption leaves at most `T - 1` calls of
`free369` uncounted. It takes an invariant that foresees losses long before they show,
since a call that nobody interrupts may pay for one that was:

* A call goes uncounted because another thread stored a copy of `num_frees` loaded
  before, or because the look-up found the mark of a freed pointer on one that is
  not. Such a mark comes from a thread whose bucket is no longer that of its pointer
  (a `malloc369` has moved the table since), or which marks its pointer when the
  allocator has already handed it out again. These threads are `Misled`, the pointers
  with such a mark `Mismarked`.
* `Paid`: the calls that are not counted (besides those under way that will be), the
  misled threads, the mismarked pointers, and the pairs of calls under way that may
  still do one of these things to each other (`Rivalries`) are together at most
  `interrupts * (T - 1)`. A call that begins adds a pair for each thread that is in a
  call, so at most `T - 1`, and none if there is no such thread, which is when it is
  no interruption. After that there is only exchange: a table that begins to move
  turns the pair with each thread that has a bucket into a misled thread, a misled
  mark turns the thread into a mismarked pointer, a look-up that goes wrong turns
  either into a call that is not counted, and a store turns the pair with each thread
  that has loaded the counter too into a loss. So one pair costs one count at most,
  though each of its calls may be hit by many others.
* `Known` goes with it: each pointer that is held or looked up has an entry, right or
  wrong, so `kh_get` leads a thread to its bucket as long as the table is at rest.
* The bound needs the factor, which the run with two threads does not show: of three
  threads, two that have looked up their pointers when a third makes the table grow
  each mark an entry of somebody else, and lose one update to each other, which is
  three calls not counted for two interruptions.

Only model-checked:

* `NoStarvation`, `JoinReturns` and `LockTaken`: liveness is beyond the prover.

A theorem states every other property that a passing run checks.

## Not modelled

* Of `khash.h`: `kh_del`, `kh_clear`, `kh_destroy`, a table that shrinks, the
  iterators, and the sets and string tables. Nothing in the repository
  calls them; in particular nothing is deleted from `malloc_map`,
  so a bucket is empty or live and the model has no deleted buckets.
* `common.c` and `common.h`: the difference of two times and a loop that spins,
  helpers of the tests that change no state of the library.
* The test programs and `wakeup_tests.c`: clients. The calls they make are what
  the programs in `MCScheduler` and `MCSync` are made from.
* `Malloc369` composed with `Scheduler`: in `Scheduler` and `Sync` an allocation is
  one step. The calls of `malloc369` inside `thread_create` and `thread_kill` are
  made with the signal blocked and are atomic; what a preemption does to those of
  `wait_queue_create` and the others is in `Malloc369`, with callers that are
  any threads. Where it ends "undefined" nothing more can be said of the library.
* Registers, floating point state and the bytes of stacks; the Makefile.

## Plan

1. Done: `Deque`, `RingQueue`, `Scheduler`, `Sync`, with their runs; the proofs
   of `RingQueue` and `Scheduler`.
2. Done: `HashMap` and `Malloc369`; `Join` and `Monitor` with the refinements;
   the liveness of `thread_wait` and of locks.
3. Done: the proofs of `Sync`, the safety of tidy and orderly programs, and
   that `thread_wait` implements `Join`.
4. Done: the proofs of the table and of the counters of `Malloc369`.
5. Done: the accounting of calls that are not interrupted, and `FreesCounted`.
6. Done: `MonitorImplements` for several locks and wait queues.
7. Left: what is above the prover, liveness; and of the code what "Not modelled" lists.
