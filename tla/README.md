# TLA+ models of the CMUCL runtime

CMUCL is a Common Lisp system: a runtime in C (signals, memory, image files), a
compiler, and a large library in Lisp, part of which is an operating system in
miniature: signal deferral, coroutines with a scheduler and locks, a garbage
collector with finalizers, an event server, remote procedure calls, subprocess
management. This directory models the two parts of it that everything else stands
on: how execution is interleaved (deferral of signals, processes, locks), and how
memory is managed (the generational and the copying collector, purification, weak
hash tables, and what decides when a collection runs).

The platform is x86 with gencgc, the port that has multi-processing, but for `Copying`,
which models the collector of the other ports (sparc, ppc, mips and so on). Paths below
are relative to the repository: `code/` is `src/src/code/`, `lisp/` is `src/src/lisp/`.

## 1. Inventory

### 1.1 Components, their state and operations

**Object layout** (`lisp/alloc.c`, `code/array.lisp`, `compiler/array-tran.lisp`, the size functions of `lisp/gencgc.c`, `gc.c`,
`cgc.c`, `purify.c`). No state: the arithmetic of sizes. Correct when all agree on every object, of any length.

**Signal handling and deferral** (`lisp/interrupt.c`, `code/signal.lisp`,
`compiler/x86/macros.lisp`, the end of `alloc` in `lisp/gencgc.c`).
State: the kernel's pending set and the signal mask, `interrupt_handlers`, one slot
`pending_signal`/`pending_mask`, the flags `*interrupt-pending*`, pseudo-atomic-atomic
and pseudo-atomic-interrupted, the dynamic binding of `*interrupts-enabled*`, the
array of interrupt contexts. Operations: deliver a signal (now or later), handle the
deferred one from a trap, install a handler, enter and leave `without-interrupts`,
`with-interrupts` and a pseudo-atomic sequence, block and restore the mask.
Hard: a signal between any two instructions; nesting to any depth of handlers, macros
and allocations; handlers that throw. Correct if critical sections are not
entered by handlers, no signal is lost, and signals do not stay blocked.

**Process scheduler** (`code/multi-proc.lisp`, 250-1470). State: the process
structures, `*all-processes*`, `*remaining-processes*` (which shares its structure),
`*current-process*`, `*inhibit-scheduling*`, and the stack group of each process.
Operations: make, destroy, restart, interrupt a process; change its run and arrest
reasons; enable, disable; wait, with a timeout or not; yield. There is no scheduler
thread: `process-yield` runs the scheduler on the stack of whoever calls it, calls
other processes' wait predicates, and runs interrupts in the middle of waits.
Hard: SIGALRM calls `process-yield` between any two instructions; interrupts
nest, wait and throw; processes die and are rebuilt while older lists still hold them.
Correct if only processes that may run run, each wait gets its own answer, nobody
is starved, a destroyed process dies, and a restarted one starts.

**Locks and timers of the processes** (`code/multi-proc.lisp`, 1640-1680 and
1846-1976). State: the holder of each lock, the timer processes, the dynamic extents of
`with-lock-held` and `with-timeout` on each stack. Operations: enter (with a wait, a
timeout, or not at all), take the lock on a waiter's behalf, clean up, expire. Hard:
throws (of timers, of `destroy-process`) into any point, the clean-up forms
included. Correct if the bodies of a lock exclude each other, a lock that is held will
be released, and a timeout aborts its own body.

**Generational conservative collector** (`lisp/gencgc.c`). State: the page table (allocated,
boxed or not, large, pinned, write protected, generation, bytes used, offset of the first
object), the open allocation regions, the counters of each generation, the recorded new
areas, the lists of weak pointers and weak tables. Operations: allocate (small, large),
shrink a vector, store through the write barrier, collect generations 0 to n, raise
or not. Hard: objects pinned by ambiguous stack words lie among moved ones; large objects
are promoted in place and shrink; protected pages are skipped; the new space is scavenged
while it grows, with a bounded record of what is new. Correct if Lisp sees the same
graph, and page table, counters and contents agree.

**Other collectors** (`lisp/gc.c`, `lisp/purify.c`, `lisp/cgc.c`). State: two dynamic
spaces, static and read-only space, weak pointers, and the register contexts of
interrupted code. Operations: collect (roots, Cheney scan, flip), purify. Hard: code
objects with functions and return addresses inside, raw program counters and LIPs
in contexts, code that is moved before its constants, what may go to read-only space.

**Garbage collection trigger and finalization** (`code/gc.lisp`, `code/final.lisp`, `without-gcing`
in `code/sysmacs.lisp`, `alloc`). State: usage, `auto_gc_trigger`, `*gc-trigger*`,
`*need-to-collect-garbage*`, `*gc-inhibit*`, `*already-maybe-gcing*`, the list of
finalizations. Operations: allocate, refuse or run a collection, its hooks, `gc`,
`gc-on`, `gc-off`, set the consing limit, register, cancel, call finalizers. Hard: each
of these inside the hooks and finalizers of another; a trigger in an unsigned long
that is doubled, added to, and compared. Correct if no request is lost and none
answered early, `alloc` returns, and each finalizer is called.

**Hash tables** (`code/hash-new.lisp`, the table part of `lisp/gencgc.c`). State: key/value
vector, index, next and free chains, the list of entries to be rehashed. Operations:
get, put, remove, clear, rehash; and the collector's: keys move, entries of dead keys
or values go. Hard: the collector rearranges the chains that Lisp walks, and weak
entries keep each other alive. Correct if the table is the map it promises.

Not modelled (section 5 says why): **stack groups** (`code/multi-proc.lisp`, 25-722), **idle loop,
shutdown, listeners** (1214-1310), **event server** (`code/serve-event.lisp`), **remote
procedure calls** (`code/wire.lisp`, `code/remote.lisp`), **subprocesses**
(`code/run-program.lisp`), **debugger and breakpoints**, **image save and start**, the
**operating system ports**, and then the sequential bulk: evaluator, reader, printer,
numbers, packages, types, compiler, PCL; and applications (CLX, Hemlock, Motif, contrib).

### 1.2 Interactions

    kernel --signal--> interrupt.c --now--> Lisp handler --(SIGALRM)--> process-yield
                            |                                             |
                            +--later--> pending_signal                    +--> wait predicates
    without-interrupts, pseudo-atomic --trap--> interrupt_handle_pending  +--> interrupts, throws
    alloc() --trigger--> maybe-gc --> sub-gc --> collector --> hooks, finalizers
    with-lock-held, with-timeout --> process-wait, process-interrupt, destroy-process

- SIGALRM is a deferrable signal: its handler is `process-yield` itself, so that the
  signal model says *where* the scheduler model may be preempted, namely wherever no
  other handler is active and interrupts are enabled.
- `without-scheduling` sets `*inhibit-scheduling*`; it does not defer signals. The
  handler runs, sees the flag and returns.
- Locks use no primitive of the scheduler but `process-wait`; the wait predicate, called
  by the scheduler while another process is current, takes the lock.
- Timeouts, destruction and user interrupts are the same thing: a function on the
  target's interrupt list that the target calls from `process-yield`, and that may throw.
- `stack-group-resume` unbinds `*interrupts-enabled*` under a blocked mask, which is
  where the scheduler and the deferral of signals meet.
- `alloc` calls `maybe-gc` from inside a pseudo-atomic sequence: the one place where a
  pseudo-atomic sequence is left, Lisp code runs, and the allocation is tried again.
- `GcTrigger` says when a collection starts; `Gencgc` and `Copying` say what it does, with
  signals blocked; `WeakTables` says what it does to one hash table, in the order in
  which `Gencgc` calls it. The two collectors promise Lisp the same thing, `HeapGraph`.
- Finalizers run as an after-gc hook, as ordinary Lisp code that allocates.

## 2. Modules

| module | what it is | code |
|---|---|---|
| `Interrupts` | deferral of signals, one Lisp thread | `interrupt.c`, `signal.lisp`, `macros.lisp`, `alloc` |
| `InterruptsProofs` | type invariant, critical sections, the slot and the mask | |
| `MultiProc` | the scheduler | `multi-proc.lisp` |
| `MultiProcProofs` | type invariant, waits, the queue, restarts | |
| `Locks` | locks, timeouts and throws | `multi-proc.lisp` |
| `LocksProofs` | who holds a lock, nesting, refinement of `Mutex`, timeouts | |
| `Mutex` | abstract: mutual exclusion, which `Locks` implements | |
| `HeapGraph` | abstract: what a collector promises, which `Gencgc` and `Copying` implement | |
| `Gencgc` | the generational collector | `gencgc.c`, `shrink-vector` |
| `GencgcHeapProofs` | what stores, regions and large objects do to a heap | |
| `GencgcProofs` | type invariant; page table, regions, counters and objects agree | |
| `Copying` | the copying collector and purification | `gc.c`, `purify.c` |
| `WeakMap` | abstract: what a weak table promises, which `WeakTables` implements | `hash-new.lisp` |
| `WeakTables` | one weak table, used and collected | `hash-new.lisp`, `gencgc.c` |
| `WeakTablesProofs` | types, lists, lookup, no dangling pointers | |
| `GcTrigger` | when a collection runs; finalizers | `gc.lisp`, `final.lisp`, `alloc` |
| `GcTriggerProofs` | type invariant, requests, trigger, finalizers | |
| `ObjectLayout` | operators: how many words an object has | `alloc.c`, `array.lisp`, `gencgc.c`, `gc.c`, `cgc.c`, `purify.c` |
| `ObjectLayoutProofs` | allocation and collectors agree on it | |
| `MC...` | instances for TLC | |

### 2.1 Interrupts

`frames` is the control stack: one record per dynamic extent (`without`, `with`,
`pseudo_atomic`, `sigblock`, `install` for a call of `install_handler`, and `handler` for an activation of a signal handler),
with the value of `*interrupts-enabled*` that holds in it and the mask to go back
to. `phase` is the place between two instructions where a signal makes a difference.

| code | action |
|---|---|
| `maybe_now_maybe_later` | `Deliver`, with `HandleNow` or `SetupPending` |
| `interrupt_handle_pending` | `HandlePending`, a part of the actions that trap |
| `install_handler` | `InstallBlock` (462), `InstallSigaction`, `InstallTable`, `InstallUnblock` (486) |
| `without-interrupts` | `EnterWithoutInterrupts`, `LeaveWithoutInterrupts` (unbind), `CheckWithoutInterrupts` (test, trap) |
| `with-interrupts` | `EnterWithInterrupts`, `CheckWithInterrupts`, `LeaveWithInterrupts` |
| `pseudo-atomic` | `PaClearInterrupted`, `PaSetAtomic`, `PaClearAtomic`, `PaTestInterrupted` |
| slow path of `alloc` | `PaClearAtomic("alloc_check")`, `AllocTestInterrupted`, `AllocRetry` |
| `unix-sigblock` ... `unix-sigsetmask old-sigs` | `Sigblock`, `SigsetmaskOld` |
| `invoke-debugger`'s `(unix-sigsetmask 0)` | `InvokeDebugger` |
| a handler that returns, throws | `HandlerReturn`, `HandlerThrow` |

`HandlerThrow` covers `sigquit-handler`'s throw to the top level: the extents are
unwound, the mask that the handler runs with stays. `install_handler` blocks only its own
signal, so that others come between its steps, and its last step installs the mask it found,
whatever was deferred meanwhile. Abstracted: the contents of the
contexts, `maybe_gc_pending` (never set on x86), the synchronous signals, alternate
stacks. The kernel's part (`Raise`, `DeliverDefault`) is external.

### 2.2 MultiProc

Each process has its structure (`process[p]`, with the fields of the defstruct that the
scheduler reads) and a stack of frames: its function, calls of `process-wait`,
`restart-process`, `process-yield` (`yield`, or `sigalrm` if the handler called it), and
the interrupts these run. `at` is the program counter inside a call, with a point
wherever SIGALRM can make a difference: `process-wait` is `set`, `yield`, `read`;
`restart-process` is `wait`, `build`; `process-yield` is `rotate`, `check`, `handling`.

| code | action |
|---|---|
| `process-yield`, rotation and search | `Rotate`, `Resume` |
| ... on its own stack again | `RunInterrupt`, `InterruptReturn`, `InterruptThrow`, `Return`, `Loop`, `PredicateError` |
| SIGALRM handler | `Sigalrm` |
| `process-wait`, `process-wait-with-timeout` | `CallWait`, `WaitSetFunction`, `WaitYield`, `WaitRead` |
| `make-process`, first instruction, end | `MakeProcess`, `StartFunction`, `Die` |
| `process-interrupt`, `destroy-process` | `ProcessInterrupt`, `DestroyProcess` |
| `restart-process` | `RestartProcess`, `RestartWait`, `RestartBuild` |
| run and arrest reasons, enable, disable | `AddRunReason` ... `SetState` |

What a program does is left open: `Ops` says which operations it uses, and any process
may do any of them at any time. A wait predicate tests a flag that any process may set,
or a flag that is its argument, or restart-process's own condition, or is never true.
`process-yield` is not re-entered by SIGALRM while it inhibits scheduling, so a round of
its loop up to the resumption of another process is one action. Abstracted: stack
groups (a process is its stack), idle and run-time accounting, whostate, names.

### 2.3 Locks and Mutex

The same stacks, with activations of `with-lock-held` (`try`, `wait` or `timed_wait`, `body`, `cleanup`) and
`with-timeout` (`start`, `body`, `cleanup`, `destroyed`, `forms`). The scheduler is
reduced to what `MultiProc` shows it does: some process that may be resumed is resumed,
with its interrupts first and its wait next. A throw (`Unwound`) runs the innermost clean-up
form on its way and goes on from there (`AfterCleanup`); a second throw out of a clean-up
form abandons what was left of it, as the code's `unwind-protect` does. `TimerExpires` is
the timer process's `process-interrupt`; `DestroyTimer` the `destroy-process` that
`with-timeout` ends with, which itself yields and so runs interrupts.
"Dead lock" errors are taken by a handler right around the form.

History variables: `abandoned` (locks and timers whose clean-up form a throw skipped
or cut short), `expired`, `stray` (a timer's throw found no catch).

`Mutex` has the set of processes in the body of each lock and three steps: enter an
empty one, leave it, and abandon several at once by a throw. `Locks!MutexSpec` is the
refinement, with the processes that have an activation in its `body`.

### 2.4 HeapGraph, Gencgc

`HeapGraph` has the roots and the objects Lisp can see, with identities for addresses.
Lisp allocates, assigns and stores; the collector may do one thing, break weak
references to objects that are not alive otherwise. It tells the two apart by `ops`, the
count of Lisp's operations: a step that does not count is the collector's.

In `Gencgc` a page is a few cells, an object a few consecutive cells of which the first has its
kind and references. The state of the C program is one record `h`; each C function that
changes it is an operator from records to records of the same name
(`gc_alloc_new_region`, `gc_alloc_large`, `copy_object`, `preserve_pointer`, `scavenge`,
`update_page_write_prot`, `scav_weak_tables`, `free_oldspace`, ...), and the steps of
`collect_garbage` are the actions.

| code | action |
|---|---|
| `alloc`, `shrink-vector`, a store, a dead stack word | `Alloc`, `ShrinkVector`, `SetField`, `SetSlot`, `Drop` |
| `collect_garbage` | `CollectGarbage`, `FinishCollection` |
| `garbage_collect_generation` | `StartGeneration` (spaces, stack, static roots), `FreeOldspace` |
| `scavenge_generation`, a block | `ScavengeGeneration` |
| `scavenge_newspace_generation` | `StartNewspace`, `OneScan` (a block), `OneScanEnds`, `ScavengeNewAreas` |
| `scan_weak_objects` | `ScanWeakObjects` |

Forwarding pointers, zero and stale memory are in the cells: the model finds memory that is
freed, overwritten or used without having been cleared. A stack word that is dead
keeps its value and still pins. Kinds are boxed (`box`, `vec`), unboxed (`bytes`), `weak` and
`table` (a weak key table with one entry: its chains are in `WeakTables`). The list of weak tables is a sequence;
a table that is linked again as the last one, whose link is the value for "not on the list", closes it to a cycle (`Cyclic`), and
`scav_weak_tables` does not come back (`pc = "looping"`). Abstracted: lowtags
and headers, the scavenger hooks, code objects and fixups, statistics, the ways of clearing memory other than `MODE_LAZY`.

### 2.5 WeakTables and WeakMap

One `EQ` table of any of the four kinds of weakness: the key/value vector, `index`, `next`,
`next_free_kv`, `needing_rehash`, the subtype of the vector. An address is its residue; a
collection picks the set of objects that move and their new addresses.

| code | action |
|---|---|
| `gethash`, `%puthash`, `remhash`, `clrhash` | `Gethash`, `PutHash`, `RemHash`, `ClrHash` |
| rehashing (`rehash`, `rehash-without-growing`, `flush-needing-rehash`) | part of those: `Prepare`, `Rehash` |
| a collection begins; an object is reached from elsewhere | `StartCollection`, `Reach` |
| `scav_weak_tables`, or `scav_hash_vector` of a table that is not yet weak | `ScavWeakTables` |
| `scan_weak_tables`, and the old space is freed | `EndCollection` |
| `purify` | `Purify` |

`Reach` may come between any two rounds, so that keys and values become alive in every order.
`WeakMap` is the map, with `Alive` as the least set that the retained entries close;
`Map!Spec` is the refinement.

### 2.6 GcTrigger

The extents entered are a stack: `without-gcing`, `alloc`, the hooks before and after a collection,
and a finalizer. The unit of memory is an allocation region; the unsigned long is `0..Clear`.

| code | action |
|---|---|
| `alloc` | `Alloc`, `AllocAgain` (its loop), with `Refill` or `MaybeGc` and `Double` |
| `sub-gc` | `SubGc`, a part of all that call it; `CollectGarbage` (the collector, `Arm`), `FinishGc` |
| `finalize-corpses` | `FinalizeCorpses`, `FinalizerReturns`, `FinalizerFails`, `WalkFails`, `FinishGc` |
| `without-gcing` | `EnterWithoutGcing`, `LeaveWithoutGcing` |
| `gc`, `gc-on`, `gc-off`, `(setf bytes-consed-between-gcs)` | `Gc`, `GcOn`, `GcOff`, `SetBytesConsed` |
| `finalize`, `cancel-finalization` | `Finalize`, `CancelFinalization` |

Ghosts: `since` (usage after the last collection, and the least and the most that
`*bytes-consed-between-gcs*` has been since), and in `fin` who was called, who was
registered by a finalizer (`inner`), cancelled, or on the list when a finalizer failed or cancelled another (`spoilt`).

`finalize-corpses` is a `delete-if`, and `cancel-finalization` a `delete`, of conses that they share: the walk has
what it kept (`kept`) and what it still has to visit (`rest`) of the list as it was, `list` is what the variable refers to.
A finalizer that cancels unlinks a cons from all that share it: from `rest`, from `kept` if the cons before it is one the walk kept, and
it may take the walk's `previous` off the list (`linked`), so that the cons of the running finalizer stays. The walk counts
to the length the list had, and fails on its end if it has become shorter (`gone`, `WalkFails`).

### 2.7 Copying

Memory is one array of words: stack, saved registers, static, read-only and two dynamic spaces.
Operators are the C functions again (`trans_list`, `trans_code`, `scavenge_interrupt_context`, `ptrans_code`,
`pscav`, `purify`, ...).

| code | action |
|---|---|
| compiled code | `Alloc`, `Store`, `Set`, `Interrupt`, `ReturnFromInterrupt` |
| `collect_garbage` | `CollectGarbage` (roots), `ScavengeNewspace` (a round), `FlipSpaces` |
| `purify` | `Purify` |

A code object has a function and a return address inside, each of which Lisp may be left with as the only
reference. An interrupted context has a code register, a boxed register, a raw pc and a raw LIP.
What the model takes from the compilers and from how Lisp is used: the LIP points
into the object of a register the collector looks at, or is dead; the code register holds the code
object of the pc, its function or its return address; constants, pure structures and what is in read-only
space are not modified; weak pointers are not made to return addresses, nor set after purification moved
them. One function per code object; a space has room for every object.

### 2.8 ObjectLayout

The collectors find the next object on a page, in a region or in a space by adding the size of this one, which
each of them computes from the header: `gencgc.c` and `gc.c` with one function per type, `purify.c` inline and once
more when it scans what it copied, `cgc.c` from a table of logarithms. `alloc.c`, the `make-array` function, its open-coded form, and
the allocation vops each have their own arithmetic; that of `alloc_vector` and of `ptrans_vector` is in `int`s. `ObjectLayout` has these formulas as operators, by the width and the number
of elements, with the names of the C functions; `Fitting` is what a size must be. There is no state and so no run: the statements are for
every length, and proved. Words have 32 bits; long floats are those of x86 in `gencgc.c`, those of sparc in `gc.c`; strings have
bytes or, with Unicode, 16-bit units, and one more of them than their length says (`e`).

## 3. Runs

| run | configuration | instance | result |
|---|---|---|---|
| `interrupts_live` | `InterruptsLive.cfg` | 2 signals, 4 extents, 2 contexts, one signal's handler changed, mask left alone, fairness | 11 thousand states |
| `interrupts_masks` | `InterruptsMasks.cfg` | 3 extents, the program blocks SIGALRM, changes both handlers anywhere, enters the debugger | 1.3 million |
| `multiproc_waits` | `MultiProcWaits.cfg` | 2 processes, 1 flag, a clock of 2 instants | 1.6 million |
| `multiproc_life` | `MultiProcLife.cfg` | 3 processes, 3 operations, no flags, one restarts the others | 432 thousand |
| `multiproc_live` | `MultiProcLive.cfg` | 3 processes, 1 operation, fairness | 43 thousand |
| `locks` | `Locks.cfg` | 2 processes, an error-check lock, 1 timer, 2 interrupts or destructions, stacks of 5 | 373 thousand |
| `gencgc` | `Gencgc.cfg` | 6 pages of 2 cells, 2 generations, 3 objects, 4 operations, 1 collection, 1 new area | 212 thousand |
| `gencgc_large` | `GencgcLarge.cfg` | 8 pages of 2 cells, 3 generations, vectors of 4 and 3 cells, weak tables, 2 collections | 772 thousand |
| `gencgc_lost_area` | `GencgcLostArea.cfg` | 9 pages of 1 cell, 3 objects, 1 collection | refuted, see 3.2 |
| `weak_tables` | `WeakTables.cfg` | 2 objects, 2 to 3 slots, 4 kinds of weakness, 2 collections | 443 thousand |
| `gc_trigger` | `GcTrigger.cfg` | heap of 7 regions, 4-bit triggers, 7 operations, 4 extents, 3 registrations | 256 thousand |
| `copying` | `Copying.cfg` | 7 kinds, 2 objects, 3 operations, 3 collections or purifications | 200 thousand |

### 3.1 What holds

*Signals.* `Impervious`: no handler runs above a `without-interrupts` body unless a
`with-interrupts` let it in. `AtomicIsAtomic`: nothing runs above a pseudo-atomic
sequence, and the flag the C code tests says exactly when one is running. `SlotKept`: a full
slot is protected by the mask (`SlotProtected`), somebody is due to look at it
(`DeferredIsFlagged`), and an empty one blocks nothing but what `install_handler` blocks while it runs (`MaskReopened`).
`NoSignalOverwritten`: one slot is enough. `DeferredHandled`, `SignalsDelivered`: signals arrive.

*Scheduler.* `SchedulerAsserts`: the assertions of the code. `WaitIsKept`: however
interrupts that wait themselves are piled on a wait, its function, timeout and value are
found again, in the structure or on the stack. `AllAreAlive`: `*all-processes*` is what its
documentation says. `OnlyActiveResume`: nobody comes back from `process-yield` arrested,
disabled or without a run reason. `RestartsTheDead`: a process that is rebuilt is dead. The last
three hold as long as one function restarts processes (3.2).
`RunnableRun`, `WaitersWake`, `DestroyedDie`: nobody starves.

*Locks.* `MutexSpec` and `LockIsKept`: exclusion, from the first to the last
instruction of a body (`BodyHoldsLock`), and who holds a lock has an activation that will
free it (`HeldIsReleased`). `NestingIsKept`: no process waits for a lock it holds (`NoSelfWait`), bodies of an
error-check lock do not nest (`ErrorCheckOnce`). `TimeoutIsKept`: a timer aborts its own body and ends
with it (`TimeoutIsOwn`, `TimersEnd`), without nesting and until a timer expires whose
`with-timeout` a throw has left.

*Generational collector.* `GraphKept`: the refinement of `HeapGraph`. `CopyingComplete`: each
object is copied once and, but for the finding, none is left unscavenged. `RoundsMove`:
the loops of `scavenge_newspace_generation` end: a round that leaves areas to scavenge has moved an object into the new
space, a full scan starts without areas, and `scav_weak_tables` comes back when its sweeps move nothing more; or it does not come back,
because the list of weak tables has become a cycle (3.2).
`PagesAgree`: counters, page table, regions and objects agree, free space in a region is
zero, the assertions of the C code hold, every object lies on accounted, allocated space.
`ProtectedIsClean`: a protected page points to nothing younger.

*Weak tables.* `TableSound`: every slot is on exactly one chain, and `gethash` finds each entry,
whatever moved. `MapKept`: the refinement
of `WeakMap`: an entry goes exactly when its weakness says so, and nothing is kept for longer. That no slot points into freed memory
(`NoDangling`) follows from it, and is not checked by itself.

*Trigger.* `TriggerKept`: a request is only pending while collections are inhibited or one runs, and
the trigger, doubled as often as may be, keeps watching. `NotTooSoon`: no
collection before its time. `AllocReturns`: the loop of `alloc` ends. `FinalizersKept`: a registration
of the program stays until its function was called or it was cancelled (`KeptUntilCalled`), its function is called once (`CalledOnce`), and
it does not come back once cancelled (`CancelledForGood`); the last two but for those that were on the list when a finalizer failed or
cancelled another, of which the code keeps neither (3.2).

*Copying collector.* `GraphKept`, as above. `CodeFollows`: interrupted code goes on in the same code
object at the same instruction, its LIP at the same place of the same object. `HeapSound`: every word
met has a case in the tables, no object is copied twice, nothing in read-only space refers to what
moves, what was scavenged refers to the new space, tables whose key moved are marked.

### 3.2 What does not

`gencgc_lost_area` ends in a counterexample and is the `finding` of `PROJECT.json`:
`scav_weak_tables` is called after the first full scan of the new space but before all new
areas are recorded; an object it copies to a page behind the last scanned one is on no list,
and its references to the old space dangle when that is freed.

The following were seen with TLC as well, by changing one constant of a configuration; the properties are
stated for the programs that avoid them, and the theorems name the assumption:

- `InterruptsLive.cfg` with `BlockSet <- MCBlockAlrm`, `MaxDepth = 4`, under `Spec`: a signal deferred between
  `unix-sigblock` and the `unix-sigsetmask old-sigs` of `stack-group-resume` is overwritten by the
  next one, as the old mask is installed over the one that protects the slot; and handling it later
  blocks the bracket's signals for good.
- `InterruptsLive.cfg` with `CarefulInstall = FALSE`, under `Spec`, `BlockSet` empty: `install_handler` is such a bracket in the runtime
  itself. Called in a body of `without-interrupts`, it lets a signal be deferred while it has blocked its own (462);
  its last step (486) opens the mask over the full slot, the next signal overwrites the deferred one (`NoSignalOverwritten`, with
  `MaxInstall = 4`), and emptying the slot installs the mask saved with it, which has the bracket's signal (`SlotKept`). A
  handler that throws out of `install_handler` leaves its signal blocked as well. The properties, and the theorems, are for programs that
  call `enable-interrupt` with interrupts enabled and do not throw out of it (`CarefulInstall`).
- `Gencgc.cfg` with `TablesAddedOnce` as an invariant ("Make sure we only add the table once", `gencgc.c:4828-4830`): after an overflow of
  `new_areas` the space is scanned again, the only weak table with it, and as the last of the list it is linked again: a cycle, in which
  `scav_weak_tables` stays. An overflow is not needed. With 7 pages of 3 cells, `NumNewAreas = 3`, `LargeLimit = 0`, `LargeSize = 4`,
  `Threshold = 0`, `NumGenerations = 2`, `OldestGenToGc = 1`, `Consed = 1`, `LastGens = {0}`, `Size <- SpanSizes`, `Stack = {}`,
  `Static = {s1, st}`, `MaxObjects = 4`, `MaxOps = 4`, `MaxGC = 1` the same happens to a table whose vector begins on the last, partly used page
  of the block that is being scanned and ends on the next: its region is closed during that scan and recorded as an area,
  since it starts on a page that is not yet behind, and the scan then comes to it again from the next page, through its offset.
  The comment at 6728 ("Sometimes a little more will be scavenged, but this causes no harm") holds for all other objects.
- `GcTrigger.cfg` without the exception of `spoilt` in `CalledOnce` or `CancelledForGood`: a finalizer cancels the registration whose cons
  the walk stands on, and the corpse that was called stays on the list, to be called again; or it cancels the first one that was kept, and
  the walk's end stores it again.
- `MultiProcLife.cfg` with `Restarters <- MCAll`: two processes restart the same one; the second
  replaces the stack of the running process and lists it twice. One restarting process is not enough to exclude
  it: with `Restarters <- MCInitialAndInterrupts` (and three operations of `RestartOps` with waits and interrupts, without
  idle process) an interrupt of `restart-process`, which comes after its wait was answered, restarts the same process, and the
  interrupted call then builds the live process again. `RestartedCanRun` instead of `AllAreAlive`: a live
  process that is restarted has lost its run reasons and is not scheduled again.
- `MultiProcWaits.cfg` with `Ops <- ArgsOps`, `PredicatesGetArguments`: a process that comes to the head of
  the queue on its own stack calls its predicate without arguments (1432); and the arguments are not among
  what an interrupt saves, so that after an interrupt that waits they are the interrupt's.
- `Locks.cfg` with `Timers <- MCTwoTimers`, `Nested = TRUE`: all `with-timeout`s catch one tag, and an outer
  timer aborts an inner body. With `Nested = FALSE` a timer that a throw has left behind does the same to the next
  `with-timeout`: it throws whenever it expires.
- `WeakTables.cfg` with `Accessed = FALSE`: an entry that waits to be rehashed is on no chain, and
  `free_hash_entry` does not find it when its key dies in a second collection: `NoDangling`, as an invariant, fails.

Weaknesses that the models show, or that were met while reading, and no run states:

- `process-interrupt` puts a new interrupt at the front of the list, where `process-yield` takes them,
  although its comment says the end. The throw of a timer that lands in a clean-up form run for
  `destroy-process` ends the destruction. A second throw out of the clean-up form of `with-timeout`
  leaves the timer's own throw pending, which then finds no catch.
- A registration that a finalizer makes is lost, since `finalize-corpses` stores the list it
  read before. A finalizer that fails, or that cancels another, leaves earlier ones to be called again.
- `without-gcing` binds `*gc-inhibit*` in one process only; `gc` and `gc-on` collect inside it.
- `free_hash_entry` clears `hash_vector[hash_index]` where `[kv_index]` is meant (`gencgc.c:4375-4381`), and
  `removable_weak_value` has no test of `eq_hash_p` (4434): both matter for tables that do not hash by
  address, which `WeakTables` does not model.
- `min_av_mem_age` is 24508, and its comment says 0.75 (8324 would be it).
- `ptrans_otherptr` has no case for complex bit vectors; `pscav` has none for double-double vectors.
- `(setf weak-pointer-value)` of a weak pointer that purification made static: `gc.c` does not look at it
  again, and the value dangles after the next collection.

### 3.3 Bounds

- `MaxDepth` (signals) bounds the stack from which an extent is *entered*, `MaxInstall` that from which `install_handler` is; handlers come on
  top. The theorems hold for any value. 4 is where the stale interrupted flag, which needs an
  allocation in a handler between two instructions of an allocation, first occurs. `MaxInstall = 2` has
  `install_handler` called at the bottom and from one extent or handler, 3 in a handler of a macro's body.
  `MAX_INTERRUPTS = 2` makes the overflow of the context array happen.
- Two signals: the slot's hazards are about one replacing another; which two does not matter.
- `MaxOps` bounds the operations on other processes, in all. One in `multiproc_waits` lets an
  interrupt land anywhere in a wait, and that interrupt wait in turn, over a SIGALRM anywhere. Three
  in `multiproc_life`: stop, destroy and restart the same process. Deeper nesting of
  interrupts was not needed for any mutant or finding.
- `MaxClock = 1` is before and after a deadline. Deadlines range beyond it: one that is never met.
- Processes never have more than one `sigalrm` call on the stack: the handler itself returns when
  it is nested in another handler (`code/multi-proc.lisp:1511`).
- `Locks`: two interrupts or destructions besides the timer, so that a throw can meet
  the clean-up form that another one runs; `MaxDepth = 5` lets an interrupt that
  uses the lock come on top of an activation of it that waits. The error-check lock is the one with more cases. A recursive
  lock alone with the same bounds (787 thousand states), both locks at depth 4 with two interrupts (2.9 million) and at depth 5 with
  one (1.7 million) were checked outside of the runs; the theorems are for any set of locks and any depth. `locks` does not check for deadlock: a
  process waits for ever for a lock whose clean-up form a throw has left, and programs may take two locks in opposite orders.
- `gencgc`: 3 objects make a weak entry whose value keeps another entry alive, in all orders; areas of which
  `NUM_NEW_AREAS` is 1 overflow, so that the new space is scanned again. Pages of 2 cells have objects that share a page and regions that
  begin inside one. `gencgc_large`: vectors longer than a page that shrink, a cell at a time, within a page and out of one, with
  another object beside; 3 generations and 2 collections, of the youngest or of all.
- `weak_tables`: 2 objects and 2 chains give chains of two entries, an entry that is its own value or another's key, growth from
  2 slots to 3, and keys that move to another chain or stay. 2 collections with operations in between.
- `gc_trigger`: `Clear` has 4 bits and the heap is less than half of it, as 4 GB and the largest heap are;
  two consing limits, one near the heap; 4 extents are an allocation in a finalizer in a collection in `without-gcing`.
- `copying`: 2 objects of every pair of kinds, each in dynamic, static or read-only space, with every sequence
  of 3 collections and purifications and an interrupt at any time.
- Runs of the collectors do not check for deadlock: the program may stop after its last operation.
- No symmetry sets are used: the initial process differs from the others, sets of one element have no symmetry, and several
  runs check liveness.

### 3.4 Fairness

`Interrupts!Fairness`: one thread keeps executing (weak fairness of the macros' tests);
every extent that the program enters ends, a handler among them, by returning or by a throw (strong fairness, *for each depth of the
stack*, of leaving it, since handlers may interrupt it over and over; for each depth,
because leaving inner extents for ever says nothing about the outer one); the kernel
delivers a deliverable signal (strong, as the mask opens and closes). Nothing says that
the program calls any operation.

`MultiProc!Fairness`: the current process keeps executing, its code calls
`process-yield` (the cooperative contract; with `start-sigalrm-yield` the timer does it), and
interrupts return (strong: they may be preempted, and wait). `WaitersWake` is for a flag that
stays set, and no process other than those that can run is assumed to do anything.

`GcTrigger!FairSpec`: weak fairness of `Runtime`, the steps the runtime takes without the program: the
loop of `alloc`, the collector, the hooks, and the ends of finalizers and bodies of `without-gcing`. They are
one thread's, of which always one is next. The collectors have no liveness property: `RoundsMove` is the
variant of their only loop whose end is not obvious.

## 4. Proofs

Checked by tlapm, for all values of the constants (any set of signals or processes, any
stack depth, any set of operations), from the named assumption
`ConstantsAssumption` of each module and what is said here.

**InterruptsProofs.** `TypeCorrect` from `TypeInv` (the bottom frame is `main`).
`WithoutInterruptsImpervious` and `PseudoAtomicIsAtomic` from `SectionInv`: each frame
agrees with the one below it on what `*interrupts-enabled*` can be, only
the top frame can be in a pseudo-atomic body, and the C flags agree with the top frame
(`FlagsAgree`). The invariants themselves are not inductive: a handler's frame
says nothing about the binding it inherited, and the test in C is of a flag and not of a
frame. These hold whatever the program does to the mask.

Its second half is about the slot: `SlotIsProtected`, `DeferredSignalsAreFlagged`,
`MaskIsReopened` (together `SlotIsKept`), `NoDeferredSignalIsLost` under `MaskLeftAlone` (no `unix-sigblock`
bracket, no debugger, `enable-interrupt` only with interrupts enabled and not thrown out of), which is needed (3.2);
`install_handler` with its own bracket is in them. The
inductive invariant `SlotInv` adds to `SectionInv`: the mask that a handler or an `install_handler` will install blocks no more than
what calls of `install_handler` below it have blocked (`Blocked`, in `Quiet`); a frame with interrupts disabled is `Watched` by a `without-interrupts`
that will test the flag with no handler in between; the mask saved in the slot blocks no more than `Blocked` either; and a
full slot means a full mask, with a flag that somebody on the stack tests, an empty one a mask within `Blocked`.
The mask saved in the slot is the one fact nobody writes down in the code, and the one that makes
the return of each handler safe. That a call of `install_handler` runs with interrupts enabled is what keeps the slot empty while its
bracket is open.

**MultiProcProofs.** `TypeCorrect` and `WaitsAreKept` for every program. `AssertsHold`, `ListedOnce`,
`OnlyActiveResumeHolds` and `OnlyTheDeadRestart` under `SoleRestarter`, "if the program restarts processes, one function
of one process does, and no interrupt": with two, or with interrupts of the one, they fail (3.2). That an interrupt of the
restarting process is enough came out of the proof, and TLC then found the behaviour. The invariant has three parts.

- `Inv` has the shape of each stack (which call can be where, and on top of which), where a process can
  wait (`WaitShape`), that each process but the current one is suspended where it can be
  resumed, and `QueueInv`: `*all-processes*` lists the live processes without repetition, and
  the rest of the queue behind its head holds live ones only. The head may have died, which
  is why the assertion of `process-yield` is not inductive: it is about the queue *after* the
  rotation.
- `AllWaits` says where each call of `process-wait` finds its wait: the uppermost call in the process
  structure, unless an interrupt runs above it; each other one in what the `process-yield` above it saved when it began to
  handle interrupts, with interrupts only above. An answer that was saved is one the predicate can still give: `restart-process`'s predicate is
  judged by who is dead now, a timeout by the clock, neither of which goes back while it matters. `WaitIsKept` follows for each level of nesting at once.
- `AllRestarts`: a call of `restart-process` is the second frame of the only restarter's stack, waits for its target's death in
  the frame above it, and its target is dead from the end of that wait to the rebuilding, since only restarting brings a process
  to life.

**LocksProofs.** For any number of processes, locks and timers, any depth, any interrupts and throws. `TypeCorrect` from
`ShapeInv` (which frame can be where; all processes but the current one can be resumed). `LockKept`, `NestingKept` and `ImplementsMutex` from
`LockInv`: an activation whose `have-lock` is true, or that is in its body, has the lock in its process; what one below knows is known to all above on
the same lock; and a lock that is held has an activation that took it, in its body or clean-up form, above which all on the same lock know that it is held, unless a throw left its
clean-up form (`Holds`). Below that one a call may wait for the lock that an interrupt of it holds: the interrupt releases it before the wait goes on, which
is why `NoSelfWait` is about the process and not about its activations. `ImplementsMutex` maps each step to one of the three of `Mutex` or to a stutter; the hard step is a throw, which
may leave bodies of several locks at once and be stopped by a clean-up form.
`TimeoutKept`, under `~Nested`, from `TimerInv`: a process has at most one `with-timeout` and one throw of its timer pending, whose catch is still
there; a timer is running for a `with-timeout` that is in its first three stages. It holds until a timer expires whose
`with-timeout` a throw has left (`abandoned \cap expired = {}`), which is a hypothesis of the property and not of the theorem, because the code has nothing
to stop that timer. The proof showed that the first form of the property, which exempted the left timer only, was false with two timers.

**GcTriggerProofs.** `TypeCorrect`, `TriggerIsKept`, `CollectionsInTime` and `FinalizersAreKept` for any heap size, any width
of the unsigned long that `TriggerAssumption` admits (the heap is less than half of the address space, and a
consing limit and the heap add up to less than it), any nesting and any number of registrations.
The inductive invariant `IInv` has, besides the types: at most one collection on the stack, and
one exactly when `*already-maybe-gcing*` is set (`OneCollection`); its request is answered from
the collector on (`Answered`); a finalizer runs on top of the hook of the collection that called it
(`OneFinalizer`); `*gc-trigger*` is what was in use after the last collection plus the limit, and a
request means that at least the smallest limit since has been consed (`Consumption`); and the trigger
of `alloc` is positive and less than twice what is in use, or less than where `*gc-trigger*` has been (`Watch`). `Watch`
is why doubling never wraps: it happens only above the trigger, so that the new value is less than twice the heap.
`FinalizersAreKept` adds `FinInv`: the list of registrations, the rest of the walk of `finalize-corpses` and what it keeps are without
duplicates, the last two disjoint, the rest still on the list; all whose finalizer the program awaits are on the list, and during a walk
on the rest or among the kept, which it stores at its end over whatever was registered since; what was cancelled is on none of them
(`Revoked`), and what may still be called has not been, but for the head of the rest while its function runs; and once a finalizer has
cancelled what the walk stands on or has before it (`Disturbed`), all of the rest is excepted, having been on the list then. That this head is the function running needs the shape of the stack:
on top of the hook that walks there is a finalizer or nothing (`Above`).

**ObjectLayoutProofs.** No assumption. For each formula a lemma that its result is even, has room for header, length
and elements, and not two words more (`Fitting`), width by width; `OneSizeFits` says that only one number does. From these:
what Lisp's two forms of `make-array` allocate is the same, and what `alloc.c` does as long as the bits of the vector fit into an
`int` (`AllocationsAgree`), and the collectors take it to be that
(`GencgcSizes`, `GcSizes`, `CgcSizes`, `PurifySizes`, `PscavSizes`), for any length. `HeaderSizes` and `CodeSizes` say it of objects with a header
and of code. `PurifySizes` needs the bits of the vector to fit into 32 bits, because `ptrans_vector` (`purify.c:732`) multiplies in
them: `PurifyOverflows` is its counterexample, a vector of 2^25 doubles, which takes 256 MB and is given a negative number of words.
`alloc_vector` (`alloc.c:83`) does the same: `AllocOverflows`, a string of 2^28 - 1 bytes.
`CgcSizes` is for strings of bytes: the table was not changed when strings got 16 bits. Two things around these formulas are worth knowing:
`pscav` has no case for complex floats, so a scan of the read-only space (only with `SCAVENGE_READ_ONLY_SPACE`) reads
their words as objects; and strings that `make-static-vector` (`code/array.lisp`) makes are sized without the extra unit, as
if e were 0.

**WeakTablesProofs.** For tables of any size, any finite set of objects and any addresses. The invariant
`IInv` says that for some n and m the table has n slots and m chains and `Agrees` with the memory. Its first part, `Whole`, gives
each slot i the one list it is on, `own[i]` (the free list, the rehash list or a chain), with a rank that grows along the list, so that no list
runs in a circle or into another (`Threaded`); the slots of the free list are exactly the empty ones. `TableSound` alone is not
inductive: that each slot is once on some list does not say that the chain an entry is on is the one `free_hash_entry` searches. So `Agrees` adds:
words with a new address belong to objects that were moved (`Forwarded`); keys are distinct and alive; and, unless the table must be rehashed
anyway, an entry is on the chain of its key's address, the new one once the key was forwarded, or on the rehash list, and then its key and
value have been dealt with. What follows `Forwarded` needs `Accessed`, that Lisp uses the table between two collections; without it they are false (3.2).
`ListsPartition` does not need it: the lists stay a partition of the slots even when the collector looks for an entry on the wrong chain, because
it unlinks nothing that it does not find there. `TypeCorrect` does not either; `TableIsSound` and `NothingDangles` do.
Each function of the code has a lemma that says what it does to `own` (`PushIs`, `UnlinkIs`, `FreedIs`, `RecordedIs`, `FlushIs`,
`RehashAllIs`, `KeepIs`). The loops are folds over the slots; `FoldEnds` and `LoopEnds` take them as functions on sets of places,
so that the induction is one over numbers, in the form of a well-founded order, and needs no operator as a parameter.
That the two words of an entry may be scavenged in either order (`EitherOrder`) lets the proof take the value first, so that the
key is looked at last, when its chain is.

`TableIsMap` is the refinement of `WeakMap`, step by step: `PutHashUses`, `RemHashUses`, ... for Lisp; a pass over the table changes nothing that
`WeakMap` sees (`ScavKeepsMap`), the end of the collection is `Collect` (`EndCollects`). `IInv` says nothing of what is alive, so `AsAlive` is
added: any set that has the survivors and all that their entries ask for has what was moved too (nothing was moved that need not be), and after a pass of
`scav_weak_tables` the survivors are such a set (nothing else need be moved). Both together say that they are the least such set, which is
what `WeakMap` says is alive (`KeptIsAlive`). That the sweeps come to an end, and closed, is a count (`SweepCloses`): each one moves an object of the old space or none,
and one that moves none has found the set closed; as many sweeps as the model makes, one for each old object, are enough. Then `removable` is true of exactly the entries
nothing asks for (`RemovedUnwanted`): that its test of the bucket's head (`kv_index != 0`) never spares one is where the chains of `Agrees` are needed.
The proof attempt found that `WeakMap` had left the kept entries of a strong table open, by a `CASE` whose guards overlapped; `Retained` is a disjunction now.

**GencgcHeapProofs, GencgcProofs.** For any number and size of pages, any number of generations, any sizes of the kinds (vectors alone may be large), any
limits, and any finite set of roots (`SizesAssumption`). `TypesAreKept` and `PagesStayRight` follow from `HeapInvariant`, whose `IInv` says three things.

- `HeapOK` is about a heap alone. A region that is open has pages of its own, of the generation that is allocated into, and its unused cells are zero; cells behind `bytes_used` are
  zero on pages where small objects may still go (`RestIsZero`); a free page is in no region; `last_free_page` is above every page in use; a page with a non-zero `first_object_offset` continues the full page before it, of the same
  generation and kind (`Links`); a large object's pages hold one vector and nothing else (`LargeOK`); each object has all its cells (`Bodies`);
  `bytes_allocated` of each generation is the sum over its pages (`Counters`), and areas are recorded only while they are asked for.
- `Collecting` is added while a generation is collected: nothing is younger than it, no page of the old space is protected or pinned (so that `free_oldspace` may take
  all of them), the weak pointers and tables that were listed are objects outside the old space, and so are the areas still to scavenge.
- `PcOK` says which of these hold at which step of `collect_garbage`: no region is open when pages are freed and between two generations (`Reset`); the block where `scavenge_generation` goes on begins with an
  object (`AtStart`); a generation that was not raised was the last (`Following`), which is why `YoungerAreEmpty` holds in the next one.

`PagesAgree` alone is not inductive: it says that a block *starts* with offset 0 when it is scavenged, and not that the offsets of its other pages lead back there; that
free space in a *region* is zero, and not that it was on the page before the region was opened; that nothing younger is left, and not that `free_oldspace` finds nothing it must keep.

The model computes a heap from a heap by functions, as the C code does, so the proof goes function by function. `GencgcHeapProofs` has
the parts: stores, regions that are opened (`OpenRegion`) and closed (`CloseRegion`), areas, large objects (`LargeAt`). An operator `Grows` compares two heaps: what was
allocated stays as it was, new pages are in the generation that is allocated into. Each part keeps `HeapOK` and grows, and the
memory it hands out is zero (`Vacant`). `GencgcProofs` makes the allocator of them, up to `gc_quick_alloc_large` (`QuickAllocLargeOK`), and has a second
comparison, `Keeps`, for the functions of a collection: objects outside the old space stay objects of their kind, pages of older generations keep their
shape (`Collects` is `HeapOK`, `Collecting` and `Keeps`). It is transitive, so that the loops over pages, words, tables, areas and roots, which are folds, each need
the step only; the folds are taken as functions of the set that remains, and the induction is over its size. The sums of the page table (`UsedOn`) are
handled the same way, one page at a time. `maybe_adjust_large_object` is the function where most parts of `HeapOK` meet: it shortens
a vector's pages, frees those it no longer needs, marks the rest as boxed or not, and takes the difference from a counter.

Two things the proof attempt showed of the model. The roots must be finite in number for a collection to be a fold over
them. And `ObjectsAccounted`, which had been stated of the objects Lisp can reach, holds of every object in the heap,
dead ones included: that is the stronger form, and the one that needs no word about reachability. That what Lisp can reach *is* an object is what `GraphKept` says.

**Only model-checked.** Liveness (temporal proofs with fairness are beyond the prover's
backends), and what the properties say of one instance only, such as `RestartedCanRun` in 3.2. Of `Gencgc`, what its heap means to Lisp: `GraphKept` and `CopyingComplete` (that what was
copied is the graph there was, each object once) speak of what can be reached, which the model computes by following references as often as there can be objects, and
of the steps between them by what forwarding pointers resolve to; an inductive invariant would have to say of every cell of the old space which part of the graph has been moved through it. `ProtectedIsClean` says
of whole pages what the write barrier and each scavenger do to single cells, and `RoundsMove` compares two heaps by the number of objects in one space: both start from `IInv`, and neither is proved.
`Copying`, whose operators are recursive as those of the C code (`CodeFollows`, `HeapSound`, and its `GraphKept`).

## 5. Not modelled, and what is left

Modelled only in part:

- `gencgc.c`: scavenger hooks, code objects and their fixups, the statistics, the verification functions and
  the printing of generations; `hash-new.lisp`: tables that do not hash by address, `maphash` over a table that changes.
- `gc.c`, `purify.c`: closures, fdefns, unboxed objects, and the x86 variant of purification, which has a
  conservative stack. `cgc.c` is built by no port.
- `gc.lisp`: the notification functions, and several processes.
- `multi-proc.lisp`: `shutdown-multi-processing` and the idle loop (which end the image or block in
  `select`, and promise nothing of processes that do not unwind), the copying of stacks by stack groups (assembler: its correctness is of layout).

Left out: most of `lisp/` by size is not logic that a small instance could say anything of, and so the
map covers a sixth of its lines. It is the operating system ports and the assembler support of nine
architectures (`*-os.c`, `*-arch.c`: memory maps, contexts, traps), the monitor and its printer (`monitor.c`, `print.c`,
`parse.c`, `search.c`: debugging aids), image files (`save.c`, `coreparse.c`, `elf.c`: file operations on a stopped image), the
floating-point library (`e_*.c`, `s_*.c`, `k_*.c`: third-party) and the start-up (`lisp.c`). In Lisp it is the sequential
library (reader, printer, numbers, sequences, packages, types) and the compiler, whose state is their
arguments or too large; event server, wires, subprocesses and streams, whose behaviour is that of `select`, `fork` and the application's
callbacks; PCL; and applications and third-party code.

What is worth doing next, in this order:

1. Proofs about `Gencgc`: that a protected page needs no scavenging (`ProtectedIsClean`), then that the graph is kept, for which
   `Collects` needs the map from old cells to copies.
2. Several processes in `GcTrigger`, with the dynamic binding of `*gc-inhibit*` switched with the stack group.
3. Tables that hash by value in `WeakTables`, with the hash vector.
